--------------------------------- MODULE Dvc ---------------------------------
(***************************************************************************)
(* Dynamic virtual channels: the server's side (the WTS API of             *)
(* libfreerdp/core/server.c) and the client's plugin                       *)
(* (channels/drdynvc/client/drdynvc_main.c) over one static channel.       *)
(* The server's PDUs pass through the queue of its channel manager, which  *)
(* the session's loop drains; toClient stands for the connection and the   *)
(* queue of the plugin's thread.  A write is cut into fragments of one     *)
(* unit; each is posted in a step of its own, under the channel's lock.    *)
(***************************************************************************)
EXTENDS Integers, FiniteSets, Sequences, SequencesExt

CONSTANTS MaxId,        \* bound on the channels the server opens
          MaxLength,    \* bound on the units of a message
          MaxWrites,    \* bound on the messages written, at both ends together
          MaxCloses     \* bound on the channels the server closes

ASSUME DvcBounds ==
    MaxId \in Nat /\ MaxLength \in Nat \ {0} /\ MaxWrites \in Nat /\ MaxCloses \in Nat

VARIABLES
    vcmState, queue, queueEvent,        \* WTSVirtualChannelManager: drdynvc_state, queue and its event
    nextId,                             \* dvc_channel_id_seq
    dvc,                                \* dvc_open_state of the channels in dynamicVirtualChannels
    reassembly,                         \* dvc_total_length and receiveData of a server channel
    readQueue,                          \* queue of a server channel
    posting,                            \* what a WTSVirtualChannelWrite in progress has left to post
    closing,                            \* what a WTSVirtualChannelClose has found and done
    toClient, toServer, connected,      \* the drdynvc static channel
    clientState,                        \* state of the drdynvc plugin
    channel,                            \* state of the channels in channelsById
    dvcData,                            \* dvc_data of a client channel
    sending,                            \* what a dvcman_write_channel in progress has left to send
    thread,                             \* where the drdynvc thread is: "closing" in a close, "quitting" after the quit message
    serverSent, clientGot,              \* messages written by the server, given to OnDataReceived
    clientWrites,                       \* number of dvcman_write_channel begun
    clientSent, serverGot               \* messages the client finished while running, read at the server

manager == <<vcmState, nextId>>
serverChannels == <<dvc, reassembly, readQueue>>
serverUser == <<posting, closing, serverSent, serverGot>>
client == <<clientState, channel, dvcData, sending, thread, clientGot, clientWrites, clientSent>>
wire == <<toClient, toServer, connected>>
vars == <<manager, queue, queueEvent, serverChannels, serverUser, client, wire>>

Ids == 1 .. MaxId

\* The n-th message written to a channel, as the units it is made of.
MessageOf(n, length) == [i \in 1 .. length |-> <<n, i>>]

Caps == [cmd |-> "CAPABILITY_REQUEST_PDU"]
Quit == [cmd |-> "WMQ_QUIT"]
Create(c) == [cmd |-> "CREATE_REQUEST_PDU", id |-> c]
Created(c, ok) == [cmd |-> "CREATE_REQUEST_PDU", id |-> c, ok |-> ok]
Close(c) == [cmd |-> "CLOSE_REQUEST_PDU", id |-> c]
DataFirst(c, total, unit) == [cmd |-> "DATA_FIRST_PDU", id |-> c, total |-> total, unit |-> unit]
Data(c, unit) == [cmd |-> "DATA_PDU", id |-> c, unit |-> unit]

\* The PDUs of a message: the first one announces the length unless the message fits into it.
Fragments(c, m) ==
    [i \in 1 .. Len(m) |-> IF i = 1 /\ Len(m) > 1 THEN DataFirst(c, Len(m), m[1]) ELSE Data(c, m[i])]

Nothing == [total |-> 0, data |-> <<>>]
EndOfData == <<>>      \* the quit message in the queue of a server channel

\* The messages written to a channel: the n-th is MessageOf(n, ...).
IsLog(messages) ==
    \A n \in DOMAIN messages : \E length \in 1 .. MaxLength : messages[n] = MessageOf(n, length)

DvcTypeOK ==
    /\ vcmState \in {"none", "initialized", "ready"} /\ nextId \in 0 .. MaxId
    /\ queueEvent \in BOOLEAN /\ connected \in BOOLEAN
    /\ dvc \in [Ids -> {"absent", "none", "succeeded", "failed", "closed"}]
    /\ closing \in [Ids -> {"no", "open", "told", "silent"}]
    /\ channel \in [Ids -> {"absent", "running", "closed", "dropped"}]
    /\ clientState \in {"capabilities", "ready"}
    /\ thread \in {"loop", "closing", "quitting", "exited"}
    /\ clientWrites \in [Ids -> Nat]
    /\ \A c \in Ids :
          /\ reassembly[c].total \in 0 .. MaxLength /\ Len(reassembly[c].data) <= reassembly[c].total
          /\ dvcData[c].total \in 0 .. MaxLength /\ Len(dvcData[c].data) <= dvcData[c].total
          /\ IsLog(serverSent[c]) /\ IsLog(clientSent[c])

Init ==
    /\ vcmState = "none" /\ nextId = 0 /\ queue = <<>> /\ queueEvent = FALSE
    /\ dvc = [c \in Ids |-> "absent"] /\ reassembly = [c \in Ids |-> Nothing]
    /\ readQueue = [c \in Ids |-> <<>>]
    /\ posting = [c \in Ids |-> <<>>] /\ closing = [c \in Ids |-> "no"]
    /\ toClient = <<>> /\ toServer = <<>> /\ connected = TRUE
    /\ clientState = "capabilities" /\ channel = [c \in Ids |-> "absent"]
    /\ dvcData = [c \in Ids |-> Nothing] /\ sending = [c \in Ids |-> <<>>] /\ thread = "loop"
    /\ serverSent = [c \in Ids |-> <<>>] /\ clientGot = [c \in Ids |-> <<>>]
    /\ clientWrites = [c \in Ids |-> 0]
    /\ clientSent = [c \in Ids |-> <<>>] /\ serverGot = [c \in Ids |-> <<>>]

----------------------------------------------------------------------------
(* Server *)

\* wts_queue_send_item: MessageQueue_Post sets the event.
QueueSend(pdu) == queue' = Append(queue, pdu) /\ queueEvent' = TRUE

\* WTSVirtualChannelManagerOpen, from WTSVirtualChannelManagerCheckFileDescriptor.
ManagerOpen ==
    /\ connected /\ vcmState = "none"
    /\ vcmState' = "initialized"
    /\ QueueSend(Caps)
    /\ UNCHANGED <<nextId, serverChannels, serverUser, client, wire>>

\* Mutant: every message taken resets the event.
CheckFileDescriptorResets ==
    /\ connected /\ queueEvent /\ queue # <<>>
    /\ queue' = Tail(queue) /\ queueEvent' = FALSE
    /\ toClient' = Append(toClient, Head(queue))
    /\ UNCHANGED <<manager, serverChannels, serverUser, client, toServer, connected>>

\* One turn of the loop in WTSVirtualChannelManagerCheckFileDescriptorEx; MessageQueue_Peek resets
\* the event when it takes the last message.  Without a message the event stays as it is.
CheckFileDescriptor ==
    /\ connected /\ queueEvent /\ queue # <<>>
    /\ queue' = Tail(queue) /\ queueEvent' = (Len(queue) > 1)
    /\ toClient' = Append(toClient, Head(queue))
    /\ UNCHANGED <<manager, serverChannels, serverUser, client, toServer, connected>>

\* FreeRDP_WTSVirtualChannelOpenEx
VirtualChannelOpenEx ==
    /\ connected /\ vcmState = "ready" /\ nextId < MaxId
    /\ nextId' = nextId + 1
    /\ dvc' = [dvc EXCEPT ![nextId'] = "none"]
    /\ QueueSend(Create(nextId'))
    /\ UNCHANGED <<vcmState, reassembly, readQueue, serverUser, client, wire>>

\* Mutant: without writeLock a second message gets between the fragments of the first.
VirtualChannelWriteUnlocked(c, length) ==
    LET m == MessageOf(Len(serverSent[c]) + 1, length)
    IN  /\ connected /\ dvc[c] # "absent" /\ closing[c] = "no" /\ vcmState = "ready"
        /\ posting' = [posting EXCEPT ![c] = Fragments(c, m) \o @]
        /\ serverSent' = [serverSent EXCEPT ![c] = Append(@, m)]
        /\ UNCHANGED <<manager, queue, queueEvent, serverChannels, closing, serverGot, client, wire>>

\* FreeRDP_WTSVirtualChannelWrite takes writeLock ...
VirtualChannelWrite(c, length) ==
    LET m == MessageOf(Len(serverSent[c]) + 1, length)
    IN  /\ connected /\ dvc[c] # "absent" /\ closing[c] = "no"
        /\ posting[c] = <<>> /\ vcmState = "ready"
        /\ posting' = [posting EXCEPT ![c] = Fragments(c, m)]
        /\ serverSent' = [serverSent EXCEPT ![c] = Append(@, m)]
        /\ UNCHANGED <<manager, queue, queueEvent, serverChannels, closing, serverGot, client, wire>>

\* ... and posts one fragment after the other, whatever has become of the channel in between.
WritePost(c) ==
    /\ connected /\ posting[c] # <<>>
    /\ QueueSend(Head(posting[c]))
    /\ posting' = [posting EXCEPT ![c] = Tail(@)]
    /\ UNCHANGED <<manager, serverChannels, closing, serverSent, serverGot, client, wire>>

\* FreeRDP_WTSVirtualChannelClose, called by the channel's own thread when it has finished its
\* reads and writes.  Without a lock it looks whether the channel is known to be open ...
VirtualChannelClose(c) ==
    /\ connected /\ dvc[c] # "absent" /\ posting[c] = <<>> /\ closing[c] = "no"
    /\ closing' = [closing EXCEPT ![c] = IF dvc[c] = "succeeded" THEN "open" ELSE "silent"]
    /\ UNCHANGED <<manager, queue, queueEvent, serverChannels, posting, serverSent, serverGot,
                   client, wire>>

\* ... queues a CLOSE for one that is ...
CloseWrite(c) ==
    /\ connected /\ closing[c] = "open"
    /\ QueueSend(Close(c))
    /\ closing' = [closing EXCEPT ![c] = "told"]
    /\ UNCHANGED <<manager, serverChannels, posting, serverSent, serverGot, client, wire>>

\* ... and takes the channel out of the table, whatever the session has made of it in between.
CloseRemove(c) ==
    /\ connected /\ closing[c] \in {"told", "silent"} /\ dvc[c] # "absent"
    /\ dvc' = [dvc EXCEPT ![c] = "absent"]
    /\ reassembly' = [reassembly EXCEPT ![c] = Nothing]
    /\ readQueue' = [readQueue EXCEPT ![c] = <<>>]
    /\ UNCHANGED <<manager, queue, queueEvent, serverUser, client, wire>>

\* FreeRDP_WTSVirtualChannelRead: a quit message stays in the queue and reads as a failure.
VirtualChannelRead(c) ==
    /\ connected /\ dvc[c] # "absent" /\ closing[c] = "no"
    /\ readQueue[c] # <<>> /\ Head(readQueue[c]) # EndOfData
    /\ serverGot' = [serverGot EXCEPT ![c] = Append(@, Head(readQueue[c]))]
    /\ readQueue' = [readQueue EXCEPT ![c] = Tail(@)]
    /\ UNCHANGED <<manager, queue, queueEvent, dvc, reassembly, posting, closing, serverSent,
                   client, wire>>

\* WTSProcessChannelData and wts_read_drdynvc_pdu take the next PDU of the static channel.
ServerTakes(pdu) ==
    /\ connected /\ toServer # <<>> /\ pdu = Head(toServer)
    /\ toServer' = Tail(toServer)
    /\ UNCHANGED <<nextId, queue, serverUser, client, toClient, connected>>

\* wts_read_drdynvc_capabilities_response sets the queue's event from outside.
ServerCapabilities(pdu) ==
    /\ pdu.cmd = "CAPABILITY_REQUEST_PDU"
    /\ vcmState' = "ready" /\ queueEvent' = TRUE
    /\ UNCHANGED serverChannels

\* wts_read_drdynvc_pdu_ready: a channel that is gone is ignored.
ServerIgnores(pdu) ==
    /\ pdu.cmd # "CAPABILITY_REQUEST_PDU"
    /\ \/ vcmState # "ready"
       \/ dvc[pdu.id] = "absent"
       \/ pdu.cmd \in {"DATA_FIRST_PDU", "DATA_PDU"} /\ dvc[pdu.id] # "succeeded"
    /\ UNCHANGED <<vcmState, queueEvent, serverChannels>>

\* wts_read_drdynvc_create_response
ServerCreated(pdu) ==
    /\ pdu.cmd = "CREATE_REQUEST_PDU" /\ vcmState = "ready" /\ dvc[pdu.id] # "absent"
    /\ dvc' = [dvc EXCEPT ![pdu.id] = IF pdu.ok THEN "succeeded" ELSE "failed"]
    /\ UNCHANGED <<vcmState, queueEvent, reassembly, readQueue>>

\* wts_read_drdynvc_data_first
ServerDataFirst(pdu) ==
    /\ pdu.cmd = "DATA_FIRST_PDU" /\ vcmState = "ready" /\ dvc[pdu.id] = "succeeded"
    /\ reassembly' = [reassembly EXCEPT ![pdu.id] = [total |-> pdu.total, data |-> <<pdu.unit>>]]
    /\ UNCHANGED <<vcmState, queueEvent, dvc, readQueue>>

\* What a DATA PDU makes of a reassembly: the new one and the messages it completes.  More data
\* than announced is discarded.
Reassemble(r, unit) ==
    LET data == Append(r.data, unit)
    IN  CASE r.total = 0 -> [rest |-> Nothing, done |-> <<<<unit>>>>, ok |-> TRUE]
          [] r.total > 0 /\ Len(data) > r.total -> [rest |-> Nothing, done |-> <<>>, ok |-> FALSE]
          [] r.total > 0 /\ Len(data) = r.total -> [rest |-> Nothing, done |-> <<data>>, ok |-> TRUE]
          [] OTHER -> [rest |-> [r EXCEPT !.data = data], done |-> <<>>, ok |-> TRUE]

\* wts_read_drdynvc_data
ServerData(pdu) ==
    /\ pdu.cmd = "DATA_PDU" /\ vcmState = "ready" /\ dvc[pdu.id] = "succeeded"
    /\ LET r == Reassemble(reassembly[pdu.id], pdu.unit)
       IN  /\ reassembly' = [reassembly EXCEPT ![pdu.id] = r.rest]
           /\ readQueue' = [readQueue EXCEPT ![pdu.id] = @ \o r.done]
    /\ UNCHANGED <<vcmState, queueEvent, dvc>>

\* wts_read_drdynvc_close_response
ServerClosed(pdu) ==
    /\ pdu.cmd = "CLOSE_REQUEST_PDU" /\ vcmState = "ready" /\ dvc[pdu.id] # "absent"
    /\ dvc' = [dvc EXCEPT ![pdu.id] = "closed"]
    /\ readQueue' = [readQueue EXCEPT ![pdu.id] = Append(@, EndOfData)]
    /\ UNCHANGED <<vcmState, queueEvent, reassembly>>

ServerReceive ==
    \E pdu \in {toServer[i] : i \in DOMAIN toServer \cap {1}} :
       /\ ServerTakes(pdu)
       /\ \/ ServerCapabilities(pdu) \/ ServerIgnores(pdu) \/ ServerCreated(pdu)
          \/ ServerDataFirst(pdu) \/ ServerData(pdu) \/ ServerClosed(pdu)

----------------------------------------------------------------------------
(* Client *)

server == <<manager, queue, queueEvent, serverChannels, serverUser>>

\* drdynvc_send: without a connection the PDU is dropped and reported as sent.
Send(pdus) == toServer' = IF connected THEN toServer \o pdus ELSE toServer

\* drdynvc_virtual_channel_client_thread takes the next message.
ClientTakes(pdu) ==
    /\ thread = "loop" /\ toClient # <<>> /\ pdu = Head(toClient)
    /\ toClient' = Tail(toClient)
    /\ UNCHANGED <<server, connected, sending, clientWrites, clientSent>>

\* drdynvc_process_capability_request
ClientCapabilities(pdu) ==
    /\ pdu.cmd = "CAPABILITY_REQUEST_PDU"
    /\ Send(<<Caps>>) /\ clientState' = "ready"
    /\ UNCHANGED <<channel, dvcData, thread, clientGot>>

\* drdynvc_process_create_request: the response goes out before OnOpen lets the plugin write.  A
\* plugin may refuse the channel, or none listens to the name.
ClientCreate(pdu) ==
    /\ pdu.cmd = "CREATE_REQUEST_PDU"
    /\ clientState' = "ready"
    /\ \E accept \in BOOLEAN :
          LET ok == accept /\ channel[pdu.id] = "absent"
          IN  /\ Send((IF clientState = "capabilities" THEN <<Caps>> ELSE <<>>)
                      \o <<Created(pdu.id, ok)>>)
              /\ channel' = IF ok THEN [channel EXCEPT ![pdu.id] = "running"] ELSE channel
    /\ UNCHANGED <<dvcData, thread, clientGot>>

\* Mutant: the close is not reported to the server.
ChannelCloseUnsent(c) ==
    /\ channel' = [channel EXCEPT ![c] = "closed"]
    /\ thread' = "closing"
    /\ UNCHANGED toServer

\* dvcman_channel_close of the plugin's thread up to OnClose; c leaves the table when OnClose has
\* returned.
ChannelClose(c) ==
    /\ channel' = [channel EXCEPT ![c] = "closed"]
    /\ Send(<<Close(c)>>)
    /\ thread' = "closing"

\* Data for a channel that is not there or not running is ignored.
ClientIgnores(pdu) ==
    /\ pdu.cmd \in {"DATA_FIRST_PDU", "DATA_PDU", "CLOSE_REQUEST_PDU"} /\ channel[pdu.id] # "running"
    /\ UNCHANGED <<toServer, clientState, channel, dvcData, thread, clientGot>>

\* drdynvc_process_data_first
ClientDataFirst(pdu) ==
    /\ pdu.cmd = "DATA_FIRST_PDU" /\ channel[pdu.id] = "running"
    /\ dvcData' = [dvcData EXCEPT ![pdu.id] = [total |-> pdu.total, data |-> <<pdu.unit>>]]
    /\ UNCHANGED <<toServer, clientState, channel, thread, clientGot>>

\* drdynvc_process_data: a message that exceeds its length, or one the plugin's OnDataReceived
\* fails on, closes the channel.
ClientData(pdu) ==
    /\ pdu.cmd = "DATA_PDU" /\ channel[pdu.id] = "running"
    /\ LET r == Reassemble(dvcData[pdu.id], pdu.unit)
       IN  /\ dvcData' = [dvcData EXCEPT ![pdu.id] = r.rest]
           /\ clientGot' = [clientGot EXCEPT ![pdu.id] = @ \o r.done]
           /\ \/ r.ok /\ UNCHANGED <<toServer, channel, thread>>
              \/ (~r.ok \/ r.done # <<>>) /\ ChannelClose(pdu.id)
    /\ UNCHANGED clientState

\* drdynvc_process_close_request
ClientClose(pdu) ==
    /\ pdu.cmd = "CLOSE_REQUEST_PDU" /\ channel[pdu.id] = "running"
    /\ ChannelClose(pdu.id)
    /\ UNCHANGED <<clientState, dvcData, clientGot>>

ClientReceive ==
    \E pdu \in {toClient[i] : i \in DOMAIN toClient \cap {1}} :
       /\ ClientTakes(pdu)
       /\ \/ ClientCapabilities(pdu) \/ ClientCreate(pdu) \/ ClientIgnores(pdu)
          \/ ClientDataFirst(pdu) \/ ClientData(pdu) \/ ClientClose(pdu)

\* The plugin's OnClose returns once its own threads have stopped writing; dvcman_channel_unref
\* then removes the channel.
OnClose(c) ==
    /\ channel[c] \in {"closed", "dropped"} /\ sending[c] = <<>>
    /\ thread' = IF thread = "closing" /\ channel[c] = "closed" THEN "loop" ELSE thread
    /\ channel' = [channel EXCEPT ![c] = "absent"]
    /\ dvcData' = [dvcData EXCEPT ![c] = Nothing]
    /\ UNCHANGED <<server, wire, clientState, sending, clientGot, clientWrites, clientSent>>

\* dvcman_write_channel: a thread of the plugin takes the channel's lock.  It may do so until its
\* OnClose has stopped it: the state of the channel is not looked at ...
WriteChannel(c, length) ==
    /\ channel[c] # "absent" /\ sending[c] = <<>>
    /\ sending' = [sending EXCEPT ![c] = Fragments(c, MessageOf(clientWrites[c] + 1, length))]
    /\ clientWrites' = [clientWrites EXCEPT ![c] = @ + 1]
    /\ UNCHANGED <<server, wire, clientState, channel, dvcData, thread, clientGot, clientSent>>

\* ... a write of no data closes the channel from the thread that writes, without the lock ...
WriteNothing(c) ==
    /\ channel[c] = "running"
    /\ channel' = [channel EXCEPT ![c] = "dropped"]
    /\ Send(<<Close(c)>>)
    /\ clientWrites' = [clientWrites EXCEPT ![c] = @ + 1]
    /\ UNCHANGED <<server, toClient, connected, clientState, dvcData, sending, thread, clientGot,
                   clientSent>>

\* ... and drdynvc_write_data sends one fragment after the other.  clientSent records the message
\* when its last fragment goes out before the channel's CLOSE.
WriteSend(c) ==
    /\ sending[c] # <<>>
    /\ Send(<<Head(sending[c])>>)
    /\ sending' = [sending EXCEPT ![c] = Tail(@)]
    /\ clientSent' = IF Len(sending[c]) = 1 /\ channel[c] = "running" /\ connected
                     THEN [clientSent EXCEPT ![c] =
                              Append(@, MessageOf(Head(sending[c]).unit[1], Head(sending[c]).unit[2]))]
                     ELSE clientSent
    /\ UNCHANGED <<server, toClient, connected, clientState, channel, dvcData, thread, clientGot,
                   clientWrites>>

\* The connection ends: drdynvc_virtual_channel_event_disconnected posts the quit message.
Disconnect ==
    /\ connected
    /\ connected' = FALSE
    /\ toServer' = <<>> /\ toClient' = Append(toClient, Quit)
    /\ UNCHANGED <<server, client>>

\* Mutant: the thread exits and leaves the channels in the table.
ClientQuitKeeps ==
    /\ thread = "loop" /\ toClient # <<>> /\ Head(toClient) = Quit
    /\ toClient' = Tail(toClient) /\ thread' = "exited"
    /\ UNCHANGED <<server, toServer, connected, clientState, channel, dvcData, sending, clientGot,
                   clientWrites, clientSent>>

\* The thread has processed what arrived before the quit message.
ClientQuit ==
    /\ thread = "loop" /\ toClient # <<>> /\ Head(toClient) = Quit
    /\ toClient' = Tail(toClient) /\ thread' = "quitting"
    /\ UNCHANGED <<server, toServer, connected, clientState, channel, dvcData, sending, clientGot,
                   clientWrites, clientSent>>

\* HashTable_Clear closes the channels that are left, one after the other.
ClearNext(c) ==
    /\ thread = "quitting" /\ channel[c] = "running" /\ \A d \in Ids : channel[d] # "closed"
    /\ channel' = [channel EXCEPT ![c] = "closed"]
    /\ Send(<<Close(c)>>)
    /\ UNCHANGED <<server, toClient, connected, clientState, dvcData, sending, thread, clientGot,
                   clientWrites, clientSent>>

\* ... and the thread exits; drdynvc_virtual_channel_event_disconnected has waited for it.
ThreadExit ==
    /\ thread = "quitting" /\ \A c \in Ids : channel[c] = "absent"
    /\ thread' = "exited"
    /\ UNCHANGED <<server, wire, clientState, channel, dvcData, sending, clientGot,
                   clientWrites, clientSent>>

----------------------------------------------------------------------------

\* What the processes do without being asked.
System ==
    \/ ManagerOpen \/ CheckFileDescriptor \/ ServerReceive \/ ClientReceive
    \/ ClientQuit \/ ThreadExit
    \/ \E c \in Ids : \/ WritePost(c) \/ VirtualChannelRead(c) \/ CloseWrite(c) \/ CloseRemove(c)
                      \/ OnClose(c) \/ WriteSend(c) \/ ClearNext(c)

Written ==
    FoldFunction(LAMBDA log, n : Len(log) + n, 0, serverSent)
      + FoldFunction(LAMBDA k, n : k + n, 0, clientWrites)

Closed == Cardinality({c \in Ids : closing[c] # "no"})

\* What the server application, the plugins and the network may do, within the bounds.
User ==
    \/ VirtualChannelOpenEx \/ Disconnect
    \/ \E c \in Ids : Closed < MaxCloses /\ VirtualChannelClose(c)
    \/ \E c \in Ids : Written < MaxWrites /\ WriteNothing(c)
    \/ \E c \in Ids, k \in 1 .. MaxLength :
          /\ Written < MaxWrites
          /\ VirtualChannelWrite(c, k) \/ WriteChannel(c, k)

Next == System \/ User

\* The session's loop, the plugin's thread and calls that have begun go on; no one has to open,
\* write or close.
Fairness ==
    /\ WF_vars(ManagerOpen) /\ WF_vars(CheckFileDescriptor) /\ WF_vars(ServerReceive)
    /\ WF_vars(ClientReceive) /\ WF_vars(ClientQuit) /\ WF_vars(ThreadExit)
    /\ \A c \in Ids : /\ WF_vars(WritePost(c)) /\ WF_vars(VirtualChannelRead(c))
                      /\ WF_vars(CloseWrite(c)) /\ WF_vars(CloseRemove(c))
                      /\ WF_vars(OnClose(c)) /\ WF_vars(WriteSend(c)) /\ WF_vars(ClearNext(c))

Spec == Init /\ [][Next]_vars /\ Fairness

----------------------------------------------------------------------------
(* Properties *)

InFlight(pdu, s) == \E i \in DOMAIN s : s[i] = pdu

\* The messages that WTSVirtualChannelRead has yet to return: all but the quit message at the end.
Pending(c) ==
    IF readQueue[c] # <<>> /\ Last(readQueue[c]) = EndOfData THEN Front(readQueue[c]) ELSE readQueue[c]

\* What a plugin's OnDataReceived is given are the messages of the server application, whole and
\* in order, although the fragments of several channels mix in the manager's queue and the channel
\* may be opened, refused and closed around them (wts write path, dvcman_receive_channel_data).
ClientReceivesInOrder == \A c \in Ids : IsPrefix(clientGot[c], serverSent[c])

\* The same in the other direction, for what WTSVirtualChannelRead returns or has in its queue;
\* while the server still has the channel open, fragments a plugin sends after the channel's CLOSE
\* leave no trace (wts_read_drdynvc_data, guarded by dvc_open_state).
ServerReadsInOrder == \A c \in Ids : IsPrefix(serverGot[c] \o Pending(c), clientSent[c])

\* When the server's reader meets the quit message of a channel the client closed, it has been
\* given every message the client finished before (wts_read_drdynvc_close_response).
NothingLostBeforeQuit ==
    \A c \in Ids : EndOfData \in Range(readQueue[c]) =>
                      /\ Last(readQueue[c]) = EndOfData
                      /\ serverGot[c] \o Pending(c) = clientSent[c]

\* In both directions the readers are given the messages of the writers, whole and in order, and
\* none is missing where the client has closed the channel.
ReceivedInOrder == ClientReceivesInOrder /\ ServerReadsInOrder /\ NothingLostBeforeQuit

\* A channel the server takes for open is open at the client, or the client's CLOSE is on its way
\* (dvcman_channel_close sends it before it forgets the channel).
OpenMeansRunning ==
    \A c \in Ids : connected /\ dvc[c] = "succeeded" =>
                      channel[c] = "running" \/ InFlight(Close(c), toServer)

\* A channel that the server's close has found open is not left open at the client: the CLOSE is
\* yet to be queued, or on its way, and the client does not drop it.  So a channel the server has
\* removed stays open at the client only when the close looked before the session had processed
\* the create response (FreeRDP_WTSVirtualChannelClose sends nothing for it).
NoToldOrphan ==
    \A c \in Ids : connected /\ dvc[c] = "absent" /\ channel[c] = "running" /\ c \leq nextId =>
                      closing[c] = "silent" \/ InFlight(Close(c), queue \o toClient)

\* The values of the variables, and the agreement of the two ends on which channels are open up to
\* messages under way.
DvcInv == DvcTypeOK /\ OpenMeansRunning /\ NoToldOrphan

\* A channel the server closes is closed at the client in the end, although the capabilities
\* response and MessageQueue_Peek both touch the event the draining loop waits for, and the
\* plugin's thread may be held up in the OnClose of another channel.
CloseArrives == \A c \in Ids : closing[c] = "open" ~> channel[c] # "running"

\* After the connection ends the plugin's thread closes every channel and exits.
DisconnectClosesAll == ~connected ~> (thread = "exited" /\ \A c \in Ids : channel[c] = "absent")
==============================================================================
