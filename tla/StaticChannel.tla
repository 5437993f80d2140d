---------------------------- MODULE StaticChannel ----------------------------
(***************************************************************************)
(* A static virtual channel of the client: rdpChannels                     *)
(* (libfreerdp/core/client.c), the message handler that the plugins share  *)
(* (channels/client/addin.c), and a plugin that uses them as the clipboard *)
(* channel does (channels/cliprdr/client/cliprdr_main.c).  The main thread *)
(* receives data and sends what is in the queue, the plugin's thread       *)
(* handles the messages put together from the data, and both it and a      *)
(* thread of the application write.  A session may be lost and the client  *)
(* may connect again with the same channels, as rdp_client_reconnect does. *)
(***************************************************************************)
EXTENDS Naturals, Sequences, FiniteSetsExt

CONSTANTS MaxSessions,   \* bound: connections made with these channels
          MaxMessages,   \* bound: messages the server sends in a session
          MaxChunks,     \* bound: chunks of one message
          AppWrites, PluginWrites   \* bounds: writes of either thread

ASSUME ChannelBounds ==
    /\ {MaxSessions, MaxMessages, MaxChunks} \subseteq Nat \ {0}
    /\ {AppWrites, PluginWrites} \subseteq Nat

VARIABLES
    main,        \* where the main thread is
    after,       \* where it goes on once the queue is empty
    session,     \* the number of this session
    link,        \* whether the transport is up, and with it the MCS channel known
    next,        \* the next chunk of the server, or 0 where it starts a message
    connected,   \* channels->connected
    flags,       \* pChannelOpenData->flags: 1 initialised, 2 open, 0 closed
    handle,      \* whether g_ChannelHandles knows the channel
    queue,       \* channels->queue
    closed,      \* whether channels->queue is closed
    plugin,      \* "loaded", or "freed" by its TERMINATED event
    openHandle,  \* whether cliprdr->OpenHandle is set
    handler,     \* whether cliprdr->MsgsHandle is set
    dataIn,      \* internals->data_in, or None
    inbox,       \* internals->queue
    thread,      \* where channel_client_thread_proc is
    channelError,   \* whether context->channelErrorEvent is set
    writer,      \* where each writing thread is in FreeRDP_VirtualChannelWriteEx
    writes,      \* how many writes it has begun
    out,         \* history: the writes that were released, and how
    posted,      \* history: the messages posted in this session
    handled      \* history: the messages handled in this session

vars == <<main, after, session, link, next, connected, flags, handle, queue, closed, plugin,
          openHandle, handler, dataIn, inbox, thread, channelError, writer, writes, out, posted,
          handled>>

Writers == {"app", "plugin"}
MaxWrites(w) == IF w = "app" THEN AppWrites ELSE PluginWrites

\* A write, with the session it was queued in, 0 for a write queued while not connected.
Write == [by : Writers, n : Nat, on : 0 .. MaxSessions]
Quit == [by |-> "quit", n |-> 0, on |-> 0]

\* Chunk number i of message m of session s, which has "of" chunks.
Chunk == [s : 1 .. MaxSessions, m : 1 .. MaxMessages, i : 1 .. MaxChunks, of : 1 .. MaxChunks]
None == <<>>
QuitMessage == <<>>

StaticTypeOK ==
    /\ main \in {"offline", "connect", "open", "loop", "drain", "quit", "join", "close", "down",
                 "closing", "terminate", "done", "freed"}
    /\ after \in {"loop", "quit", "offline", "terminate"}
    /\ session \in 0 .. MaxSessions
    /\ {link, connected, handle, closed, openHandle, handler, channelError} \subseteq BOOLEAN
    /\ next \in Chunk \cup [s : 0 .. MaxSessions, m : 1 .. MaxMessages + 1, i : {0}, of : {0}]
    /\ flags \in 0 .. 2
    /\ \A i \in 1 .. Len(queue) : queue[i] \in Write \cup {Quit}
    /\ plugin \in {"loaded", "freed"}
    /\ \A i \in 1 .. Len(dataIn) : dataIn[i] \in Chunk
    /\ \A i \in 1 .. Len(inbox) : \A j \in 1 .. Len(inbox[i]) : inbox[i][j] \in Chunk
    /\ thread \in {"none", "wait", "handling", "ended"}
    /\ writer \in [Writers -> {"idle", "found", "connected", "open"}]
    /\ \A w \in Writers : writes[w] \in 0 .. MaxWrites(w)
    /\ \A i \in 1 .. Len(out) : out[i].write \in Write

\* freerdp_channels_new, FreeRDP_VirtualChannelInitEx for the plugin's channel, and
\* freerdp_channels_pre_connect, which finds the queue empty.
Init ==
    /\ main = "offline" /\ after = "offline"
    /\ session = 0 /\ link = FALSE /\ next = [s |-> 0, m |-> 1, i |-> 0, of |-> 0]
    /\ connected = FALSE /\ flags = 1 /\ handle = TRUE
    /\ queue = <<>> /\ closed = FALSE
    /\ plugin = "loaded" /\ openHandle = FALSE
    /\ handler = FALSE /\ dataIn = None /\ inbox = <<>> /\ thread = "none"
    /\ channelError = FALSE
    /\ writer = [w \in Writers |-> "idle"] /\ writes = [w \in Writers |-> 0]
    /\ out = <<>> /\ posted = <<>> /\ handled = <<>>

----------------------------------------------------------------------------
(* Connecting: the main thread *)

\* freerdp_channels_post_connect for a new session
PostConnect ==
    /\ main = "offline" /\ session < MaxSessions
    /\ main' = "connect"
    /\ session' = session + 1 /\ link' = TRUE /\ next' = [s |-> session', m |-> 1, i |-> 0, of |-> 0]
    /\ connected' = TRUE
    /\ channelError' = FALSE
    /\ posted' = <<>> /\ handled' = <<>>
    /\ UNCHANGED <<after, flags, handle, queue, closed, plugin, openHandle, handler, dataIn,
                   inbox, thread, writer, writes, out>>

\* FreeRDP_VirtualChannelOpenEx, by the plugin on CHANNEL_EVENT_CONNECTED.  A channel that is
\* open already is an error of the session.
OpenEx ==
    /\ main = "connect"
    /\ IF flags = 2
       THEN /\ main' = "loop" /\ channelError' = TRUE
            /\ UNCHANGED <<flags, openHandle>>
       ELSE /\ main' = "open" /\ flags' = 2 /\ openHandle' = TRUE
            /\ UNCHANGED channelError
    /\ UNCHANGED <<after, session, link, next, connected, handle, queue, closed, plugin, handler,
                   dataIn, inbox, thread, writer, writes, out, posted, handled>>

\* channel_client_create_handler: a queue and a thread of its own
CreateHandler ==
    /\ main = "open"
    /\ main' = "loop"
    /\ handler' = TRUE /\ dataIn' = None /\ inbox' = <<>> /\ thread' = "wait"
    /\ UNCHANGED <<after, session, link, next, connected, flags, handle, queue, closed, plugin,
                   openHandle, channelError, writer, writes, out, posted, handled>>

----------------------------------------------------------------------------
(* The main thread in a session *)

\* The chunk after c: where c was the last one, the server is free to start another message.
Following(c) ==
    IF c.i = c.of THEN [c EXCEPT !.m = @ + 1, !.i = 0, !.of = 0] ELSE [c EXCEPT !.i = @ + 1]

\* internals->data_in with the chunk: it goes behind what is there, also where it is the first.
Reassembled(c) == Append(dataIn, c)

\* The capacity of a stream with these chunks: room for the message is made by its first chunk,
\* and for more as it comes.
Capacity(d) == Max({Len(d)} \cup {d[i].of : i \in 1 .. Len(d)})

\* Mutant: the stream is kept once its message was posted.
RestKept(c) == Reassembled(c)

\* What remains of the stream once its message was posted.
Rest(c) == None

\* freerdp_channels_data and channel_client_post_message: the last chunk posts the message, or
\* is an error when the stream is not exactly full.
Receive(c) ==
    /\ main = "loop" /\ link
    /\ c.s = next.s /\ c.m = next.m
    /\ IF next.i = 0 THEN c.i = 1 ELSE c = next
    /\ next' = Following(c)
    /\ IF ~openHandle \/ ~handler
       THEN UNCHANGED <<dataIn, inbox, posted, channelError>>
       ELSE IF c.i < c.of
       THEN /\ dataIn' = Reassembled(c)
            /\ UNCHANGED <<inbox, posted, channelError>>
       ELSE IF Len(Reassembled(c)) # Capacity(Reassembled(c))
       THEN /\ dataIn' = Reassembled(c)
            /\ channelError' = TRUE
            /\ UNCHANGED <<inbox, posted>>
       ELSE /\ dataIn' = Rest(c)
            /\ inbox' = Append(inbox, Reassembled(c))
            /\ posted' = Append(posted, Reassembled(c))
            /\ UNCHANGED channelError
    /\ UNCHANGED <<main, after, session, link, connected, flags, handle, queue, closed, plugin,
                   openHandle, handler, thread, writer, writes, out, handled>>

\* freerdp_channels_check_fds in freerdp_check_event_handles: the event says that the queue is
\* not empty.
CheckFds ==
    /\ main = "loop" /\ queue # <<>>
    /\ main' = "drain" /\ after' = "loop"
    /\ UNCHANGED <<session, link, next, connected, flags, handle, queue, closed, plugin,
                   openHandle, handler, dataIn, inbox, thread, channelError, writer, writes, out,
                   posted, handled>>

\* Mutant: a write to a channel that was closed is forgotten.
ReleasedUnlessClosed(m) ==
    IF m = Quit \/ flags # 2 THEN out
    ELSE Append(out, [write |-> m, how |-> "complete", session |-> session, sent |-> link])

\* freerdp_channels_process_message: the user data of a write is given back to the plugin,
\* cancelled where the channel is not open.  What is written without a transport counts as
\* complete.
Released(m) ==
    IF m = Quit THEN out
    ELSE Append(out, [write |-> m, session |-> session,
                      how |-> IF flags = 2 THEN "complete" ELSE "cancelled",
                      sent |-> flags = 2 /\ link])

\* Mutant: a message is looked at and left in the queue if its channel is closed.
ProcessSyncKeeps ==
    /\ main = "drain"
    /\ IF queue = <<>>
       THEN /\ main' = after
            /\ UNCHANGED <<queue, out>>
       ELSE /\ out' = Released(Head(queue))
            /\ queue' = IF flags = 2 THEN Tail(queue) ELSE queue
            /\ UNCHANGED main
    /\ UNCHANGED <<after, session, link, next, connected, flags, handle, closed, plugin,
                   openHandle, handler, dataIn, inbox, thread, channelError, writer, writes,
                   posted, handled>>

\* freerdp_channels_process_sync: messages are taken until there is none.
ProcessSync ==
    /\ main = "drain"
    /\ IF queue = <<>>
       THEN /\ main' = after
            /\ UNCHANGED <<queue, out>>
       ELSE /\ out' = Released(Head(queue))
            /\ queue' = Tail(queue)
            /\ UNCHANGED main
    /\ UNCHANGED <<after, session, link, next, connected, flags, handle, closed, plugin,
                   openHandle, handler, dataIn, inbox, thread, channelError, writer, writes,
                   posted, handled>>

----------------------------------------------------------------------------
(* Disconnecting: the main thread *)

\* The session ends, by a channel error, by the user or since the connection is lost:
\* rdp_client_disconnect closes the transport, then freerdp_channels_disconnect sends what is
\* queued.
Disconnect ==
    /\ main = "loop"
    /\ link' = FALSE
    /\ main' = "drain" /\ after' = "quit"
    /\ UNCHANGED <<session, next, connected, flags, handle, queue, closed, plugin, openHandle,
                   handler, dataIn, inbox, thread, channelError, writer, writes, out, posted,
                   handled>>

\* Mutant: the thread is not told.
QuitHandlerSilent ==
    /\ main = "quit"
    /\ main' = "join"
    /\ UNCHANGED <<after, session, link, next, connected, flags, handle, queue, closed, plugin,
                   openHandle, handler, dataIn, inbox, thread, channelError, writer, writes, out,
                   posted, handled>>

\* channel_client_quit_handler, by the plugin on CHANNEL_EVENT_DISCONNECTED: the thread is told
\* to end.
QuitHandler ==
    /\ main = "quit"
    /\ main' = "join"
    /\ inbox' = IF handler THEN Append(inbox, QuitMessage) ELSE inbox
    /\ UNCHANGED <<after, session, link, next, connected, flags, handle, queue, closed, plugin,
                   openHandle, handler, dataIn, thread, channelError, writer, writes, out, posted,
                   handled>>

\* The thread has ended; channel_client_handler_free frees what it left.  (Only a failed
\* allocation makes MessageQueue_PostQuit fail, in which case the code frees without waiting;
\* allocation failures are not modelled.)
JoinHandler ==
    /\ main = "join"
    /\ handler => thread = "ended"
    /\ main' = "close"
    /\ handler' = FALSE /\ dataIn' = None /\ inbox' = <<>>
    /\ thread' = "none"
    /\ UNCHANGED <<after, session, link, next, connected, flags, handle, queue, closed, plugin,
                   openHandle, channelError, writer, writes, out, posted, handled>>

\* FreeRDP_VirtualChannelCloseEx, by the plugin
CloseEx ==
    /\ main = "close"
    /\ main' = "down"
    /\ IF openHandle /\ handle /\ flags = 2
       THEN flags' = 0 /\ openHandle' = FALSE
       ELSE UNCHANGED <<flags, openHandle>>
    /\ UNCHANGED <<after, session, link, next, connected, handle, queue, closed, plugin, handler,
                   dataIn, inbox, thread, channelError, writer, writes, out, posted, handled>>

\* Mutant: nothing is flushed once the channels are down.
DownUnflushed ==
    /\ main = "down"
    /\ connected' = FALSE
    /\ main' = "offline" /\ after' = "offline"
    /\ UNCHANGED <<session, link, next, flags, handle, queue, closed, plugin, openHandle, handler,
                   dataIn, inbox, thread, channelError, writer, writes, out, posted, handled>>

\* The end of freerdp_channels_disconnect: what is still queued is flushed.
Down ==
    /\ main = "down"
    /\ connected' = FALSE
    /\ main' = "drain" /\ after' = "offline"
    /\ UNCHANGED <<session, link, next, flags, handle, queue, closed, plugin, openHandle, handler,
                   dataIn, inbox, thread, channelError, writer, writes, out, posted, handled>>

\* freerdp_channels_close: WMQ_QUIT closes the queue, and what it holds is flushed.
CloseChannels ==
    /\ main = "offline" /\ session > 0
    /\ queue' = Append(queue, Quit) /\ closed' = TRUE
    /\ main' = "drain" /\ after' = "terminate"
    /\ UNCHANGED <<session, link, next, connected, flags, handle, plugin, openHandle, handler,
                   dataIn, inbox, thread, channelError, writer, writes, out, posted, handled>>

\* CHANNEL_EVENT_TERMINATED: the plugin frees itself.
Terminate ==
    /\ main = "terminate"
    /\ plugin' = "freed"
    /\ main' = "done"
    /\ UNCHANGED <<after, session, link, next, connected, flags, handle, queue, closed,
                   openHandle, handler, dataIn, inbox, thread, channelError, writer, writes, out,
                   posted, handled>>

\* The end of freerdp_channels_close: the handle is unknown from now on.
RemoveHandle ==
    /\ main = "done" /\ handle
    /\ handle' = FALSE
    /\ UNCHANGED <<main, after, session, link, next, connected, flags, queue, closed, plugin,
                   openHandle, handler, dataIn, inbox, thread, channelError, writer, writes, out,
                   posted, handled>>

\* freerdp_channels_free.  The application's threads have stopped writing by then.
FreeChannels ==
    /\ main = "done" /\ ~handle
    /\ \A w \in Writers : writer[w] = "idle"
    /\ main' = "freed"
    /\ UNCHANGED <<after, session, link, next, connected, flags, handle, queue, closed, plugin,
                   openHandle, handler, dataIn, inbox, thread, channelError, writer, writes, out,
                   posted, handled>>

----------------------------------------------------------------------------
(* The plugin's thread *)

\* channel_client_thread_proc: MessageQueue_Wait and MessageQueue_Peek, by the only thread that
\* takes messages, and the start of msg_handler.
TakeMessage ==
    /\ thread = "wait" /\ inbox # <<>>
    /\ thread' = IF Head(inbox) = QuitMessage THEN "ended" ELSE "handling"
    /\ handled' = IF Head(inbox) = QuitMessage THEN handled ELSE Append(handled, Head(inbox))
    /\ inbox' = Tail(inbox)
    /\ UNCHANGED <<main, after, session, link, next, connected, flags, handle, queue, closed,
                   plugin, openHandle, handler, dataIn, channelError, writer, writes, out, posted>>

\* msg_handler returns, and the loop goes on.
HandlerReturns ==
    /\ thread = "handling" /\ writer["plugin"] = "idle"
    /\ thread' = "wait"
    /\ UNCHANGED <<main, after, session, link, next, connected, flags, handle, queue, closed,
                   plugin, openHandle, handler, dataIn, inbox, channelError, writer, writes, out,
                   posted, handled>>

\* msg_handler fails: the thread reports it and ends.
HandlerFails ==
    /\ thread = "handling" /\ writer["plugin"] = "idle"
    /\ thread' = "ended"
    /\ channelError' = TRUE
    /\ UNCHANGED <<main, after, session, link, next, connected, flags, handle, queue, closed,
                   plugin, openHandle, handler, dataIn, inbox, writer, writes, out, posted,
                   handled>>

----------------------------------------------------------------------------
(* FreeRDP_VirtualChannelWriteEx, by the plugin's thread or by the application *)

\* The plugin writes from its handler, the application while the plugin is there.  The handle
\* is looked up.
WriteBegin(w) ==
    /\ writer[w] = "idle" /\ writes[w] < MaxWrites(w)
    /\ w = "plugin" => thread = "handling"
    /\ plugin = "loaded"
    /\ writes' = [writes EXCEPT ![w] = @ + 1]
    /\ writer' = [writer EXCEPT ![w] = IF openHandle /\ handle THEN "found" ELSE "idle"]
    /\ UNCHANGED <<main, after, session, link, next, connected, flags, handle, queue, closed,
                   plugin, openHandle, handler, dataIn, inbox, thread, channelError, out, posted,
                   handled>>

\* channels->connected is looked at.
WriteConnected(w) ==
    /\ writer[w] = "found"
    /\ writer' = [writer EXCEPT ![w] = IF connected THEN "connected" ELSE "idle"]
    /\ UNCHANGED <<main, after, session, link, next, connected, flags, handle, queue, closed,
                   plugin, openHandle, handler, dataIn, inbox, thread, channelError, writes, out,
                   posted, handled>>

\* pChannelOpenData->flags are looked at.
WriteOpen(w) ==
    /\ writer[w] = "connected"
    /\ writer' = [writer EXCEPT ![w] = IF flags = 2 THEN "open" ELSE "idle"]
    /\ UNCHANGED <<main, after, session, link, next, connected, flags, handle, queue, closed,
                   plugin, openHandle, handler, dataIn, inbox, thread, channelError, writes, out,
                   posted, handled>>

\* MessageQueue_Dispatch of the write
Queued(m) == Append(queue, m)

\* The write is queued; a closed queue refuses it and the caller keeps its data.
WriteDispatch(w) ==
    /\ writer[w] = "open"
    /\ writer' = [writer EXCEPT ![w] = "idle"]
    /\ queue' = IF closed THEN queue
                ELSE Queued([by |-> w, n |-> writes[w], on |-> IF connected THEN session ELSE 0])
    /\ UNCHANGED <<main, after, session, link, next, connected, flags, handle, closed, plugin,
                   openHandle, handler, dataIn, inbox, thread, channelError, writes, out, posted,
                   handled>>

----------------------------------------------------------------------------

MainThread ==
    \/ CheckFds \/ ProcessSync
    \/ OpenEx \/ CreateHandler
    \/ QuitHandler \/ JoinHandler \/ CloseEx \/ Down
    \/ Terminate \/ RemoveHandle \/ FreeChannels

PluginThread == TakeMessage \/ HandlerReturns \/ HandlerFails

WriteGoesOn(w) == WriteConnected(w) \/ WriteOpen(w) \/ WriteDispatch(w)

Next ==
    \/ MainThread \/ PostConnect \/ Disconnect \/ CloseChannels
    \/ \E c \in Chunk : Receive(c)
    \/ PluginThread
    \/ \E w \in Writers : WriteBegin(w) \/ WriteGoesOn(w)

\* The main thread goes on, leaves the session after a channel error, and once a session is over
\* either connects again or closes; the plugin's thread and a write that has begun go on.
Fairness ==
    /\ WF_vars(MainThread)
    /\ WF_vars(Disconnect /\ channelError)
    /\ WF_vars(CloseChannels \/ PostConnect)
    /\ WF_vars(PluginThread)
    /\ \A w \in Writers : WF_vars(WriteGoesOn(w))

Spec == Init /\ [][Next]_vars /\ Fairness

----------------------------------------------------------------------------
(* Properties *)

InQueue == {i \in 1 .. Len(queue) : queue[i] # Quit}

\* The user data of a write that was accepted is given back to the plugin once, and not while
\* the write is still queued, whatever the order of writing, disconnecting, connecting again and
\* closing: the plugin frees its stream on either event.
ReleasedOnce ==
    /\ \A i, j \in 1 .. Len(out) : out[i].write = out[j].write => i = j
    /\ \A i \in InQueue, j \in 1 .. Len(out) : queue[i] # out[j].write

\* No event of a write reaches a plugin that has freed itself: once it has, the queue holds no
\* write, not even of a thread that had looked at the channel before it was closed, and
\* freerdp_channels_free finds nothing to cancel.
NoEventAfterTerminated == plugin = "freed" => InQueue = {}

\* What was queued while one session was connected is never sent in a later one:
\* freerdp_channels_disconnect leaves no such write behind.
SentInItsSession ==
    \A i \in 1 .. Len(out) : out[i].sent => out[i].write.on \in {0, out[i].session}

\* The writes of a thread are released in the order in which it made them.
ReleasedInOrder ==
    \A i, j \in 1 .. Len(out) :
        i < j /\ out[i].write.by = out[j].write.by => out[i].write.n < out[j].write.n

\* The values of the variables, and every write is accounted for: released once, in order, and to
\* a plugin that exists.
StaticInv == StaticTypeOK /\ ReleasedOnce /\ ReleasedInOrder /\ NoEventAfterTerminated

\* A message that was put together has the chunks of one message of the server, all and in order.
MessagesWhole ==
    \A k \in 1 .. Len(posted) :
        \E m \in 1 .. MaxMessages, of \in 1 .. MaxChunks :
            posted[k] = [i \in 1 .. of |-> [s |-> session, m |-> m, i |-> i, of |-> of]]

\* Messages are handled in the order in which they were posted, and none of another session.
HandledInOrder ==
    /\ Len(handled) <= Len(posted)
    /\ \A k \in 1 .. Len(handled) : handled[k] = posted[k]

\* Disconnecting handles every message that was received, unless a handler has failed.
QuitLosesNothing == main = "close" /\ ~channelError => handled = posted

\* The handler is given the messages of the server, whole, in order, and on an orderly disconnect
\* all that were received.
MessagesHandled == MessagesWhole /\ HandledInOrder /\ QuitLosesNothing

\* A write that was accepted is given back in the end, also one that was queued after the last
\* flush of a session.
EveryWriteReleased ==
    \A w \in Writers : \A n \in 1 .. MaxWrites(w) :
        (\E i \in InQueue : queue[i].by = w /\ queue[i].n = n)
            ~> (\E i \in 1 .. Len(out) : out[i].write.by = w /\ out[i].write.n = n)

\* A session that ends gets to its end: the main thread, which waits for the plugin's thread, does
\* not wait for ever.
DisconnectReturns == main = "quit" ~> main = "offline"

=============================================================================
