------------------------ MODULE StaticChannelProofs ------------------------
(***************************************************************************)
(* The static channel, for every number of sessions, messages, chunks and  *)
(* writes: no write is lost, released twice or sent in a later session,    *)
(* and the plugin is given whole messages in their order.                  *)
(***************************************************************************)
EXTENDS StaticChannel, SequenceTheorems, TLAPS

Release == [write : Write, session : 0 .. MaxSessions, how : {"complete", "cancelled"}, sent : BOOLEAN]
Start == [s : 0 .. MaxSessions, m : 1 .. MaxMessages + 1, i : {0}, of : {0}]

\* The types of the variables, with those of the sequences.
ShapeOK ==
    /\ main \in {"offline", "connect", "open", "loop", "drain", "quit", "join", "close", "down",
                 "closing", "terminate", "done", "freed"}
    /\ after \in {"loop", "quit", "offline", "terminate"}
    /\ session \in 0 .. MaxSessions
    /\ link \in BOOLEAN /\ connected \in BOOLEAN /\ handle \in BOOLEAN /\ closed \in BOOLEAN
    /\ openHandle \in BOOLEAN /\ handler \in BOOLEAN /\ channelError \in BOOLEAN
    /\ next \in Chunk \cup Start
    /\ flags \in 0 .. 2
    /\ queue \in Seq(Write \cup {Quit})
    /\ plugin \in {"loaded", "freed"}
    /\ dataIn \in Seq(Chunk) /\ inbox \in Seq(Seq(Chunk))
    /\ thread \in {"none", "wait", "handling", "ended"}
    /\ writer \in [Writers -> {"idle", "found", "connected", "open"}]
    /\ writes \in [Writers -> Nat]
    /\ \A w \in Writers : writes[w] <= MaxWrites(w)
    /\ out \in Seq(Release)
    /\ posted \in Seq(Seq(Chunk)) /\ handled \in Seq(Seq(Chunk))

\* The plugin has its handler, is connected, or the queue is closed or empty, as the main thread is in
\* one part or another of a session.
InSession == main \in {"loop", "quit", "join"} \/ (main = "drain" /\ after \in {"loop", "quit"})
Closing == main \in {"terminate", "done", "freed"} \/ (main = "drain" /\ after = "terminate")

PhasesRight ==
    /\ handler <=> InSession
    /\ handler <=> thread # "none"
    /\ openHandle <=> InSession \/ main \in {"open", "close"}
    /\ openHandle <=> flags = 2
    /\ connected <=> InSession \/ main \in {"connect", "open", "close", "down"}
    /\ closed <=> Closing
    /\ plugin = "freed" <=> main \in {"done", "freed"}
    /\ ~handle => main \in {"done", "freed"}
    /\ main \in {"terminate", "done", "freed"} => queue = <<>>

\* No queued write is of an earlier session, and between sessions none is of a session.
SessionsRight ==
    /\ \A i \in 1 .. Len(queue) : queue[i].on \in {0, session}
    /\ main = "offline" => \A i \in 1 .. Len(queue) : queue[i].on = 0

\* The writes of a thread are numbered upwards along what was released, then what is queued, then
\* what it is about to queue.
OrderRight ==
    /\ \A i, j \in 1 .. Len(queue) :
          i < j /\ queue[i].by = queue[j].by /\ queue[i] # Quit => queue[i].n < queue[j].n
    /\ \A i \in 1 .. Len(out), j \in 1 .. Len(queue) :
          out[i].write.by = queue[j].by => out[i].write.n < queue[j].n
    /\ \A i \in 1 .. Len(queue), w \in Writers :
          queue[i].by = w => /\ queue[i].n <= writes[w]
                             /\ writer[w] # "idle" => queue[i].n < writes[w]
    /\ \A i \in 1 .. Len(out), w \in Writers :
          out[i].write.by = w => /\ out[i].write.n <= writes[w]
                                 /\ writer[w] # "idle" => out[i].write.n < writes[w]

\* The stream holds the chunks of the message under way, up to the one before the next.
Due == IF next.i = 0 THEN 1 ELSE next.i

StreamRight ==
    /\ next.s = session /\ next.i <= next.of
    /\ main \in {"connect", "open"} => next.i = 0
    /\ handler => /\ Len(dataIn) = Due - 1
                  /\ \A j \in 1 .. Len(dataIn) :
                        dataIn[j] = [s |-> session, m |-> next.m, i |-> j, of |-> next.of]

\* What was posted and not handled is in the inbox, and behind it the message to quit.
Waiting == Len(posted) - Len(handled)

InboxRight ==
    /\ handler =>
          /\ Len(inbox) \in {Waiting, Waiting + 1}
          /\ \A k \in 1 .. Waiting : inbox[k] = posted[Len(handled) + k]
          /\ Len(inbox) = Waiting + 1 => main = "join" /\ inbox[Waiting + 1] = QuitMessage
          /\ Len(inbox) = Waiting /\ main = "join" => thread = "ended"
    /\ thread = "ended" /\ ~channelError => Waiting = 0 /\ Len(inbox) = 0 /\ main = "join"
    /\ main \in {"connect", "open"} => posted = <<>> /\ handled = <<>>

ChannelRight ==
    /\ ShapeOK /\ PhasesRight /\ SessionsRight /\ SentInItsSession /\ OrderRight /\ ReleasedInOrder
    /\ StreamRight /\ MessagesWhole /\ InboxRight /\ HandledInOrder /\ QuitLosesNothing

----------------------------------------------------------------------------
(* The phases of the main thread *)

\* A queued write has its type, and a thread and a session or none.
LEMMA WriteType ==
    \A w \in Writers, n \in Nat, on \in 0 .. MaxSessions :
        [by |-> w, n |-> n, on |-> on] \in Write /\ [by |-> w, n |-> n, on |-> on] # Quit
  BY DEF Write, Writers, Quit

LEMMA Bounds ==
    /\ MaxSessions \in Nat \ {0} /\ MaxMessages \in Nat \ {0} /\ MaxChunks \in Nat \ {0}
    /\ \A w \in Writers : MaxWrites(w) \in Nat
  BY ChannelBounds DEF Writers, MaxWrites

LEMMA ShapeInit == Init => ShapeOK
<1> SUFFICES ASSUME Init PROVE ShapeOK
  OBVIOUS
<1>1. next \in Start
  BY Bounds DEF Init, Start
<1>2. /\ queue \in Seq(Write \cup {Quit}) /\ dataIn \in Seq(Chunk) /\ inbox \in Seq(Seq(Chunk))
      /\ out \in Seq(Release) /\ posted \in Seq(Seq(Chunk)) /\ handled \in Seq(Seq(Chunk))
  BY EmptySeq DEF Init, None
<1>3. \A w \in Writers : writes[w] <= MaxWrites(w)
  BY Bounds DEF Init
<1>4. writer \in [Writers -> {"idle", "found", "connected", "open"}] /\ writes \in [Writers -> Nat]
  BY DEF Init
<1>5. /\ link \in BOOLEAN /\ connected \in BOOLEAN /\ handle \in BOOLEAN /\ closed \in BOOLEAN
      /\ openHandle \in BOOLEAN /\ handler \in BOOLEAN /\ channelError \in BOOLEAN
  BY Zenon DEF Init
<1>6. session \in 0 .. MaxSessions /\ flags \in 0 .. 2
  BY Bounds DEF Init
<1> QED
  BY <1>1, <1>2, <1>3, <1>4, <1>5, <1>6 DEF Init, ShapeOK

\* What the server sends next has its type.
LEMMA FollowingType ==
    ASSUME NEW c \in Chunk, c.i <= c.of
    PROVE  /\ Following(c) \in Chunk \cup Start
           /\ Following(c).s = c.s /\ Following(c).i <= Following(c).of
           /\ c.i = c.of => Following(c).i = 0
           /\ c.i # c.of => Following(c) = [s |-> c.s, m |-> c.m, i |-> c.i + 1, of |-> c.of]
<1>1. /\ c = [s |-> c.s, m |-> c.m, i |-> c.i, of |-> c.of]
      /\ c.s \in 1 .. MaxSessions /\ c.m \in 1 .. MaxMessages
      /\ c.i \in 1 .. MaxChunks /\ c.of \in 1 .. MaxChunks
  BY DEF Chunk
<1>2. CASE c.i = c.of
  <2>1. Following(c) = [s |-> c.s, m |-> c.m + 1, i |-> 0, of |-> 0]
    BY <1>1, <1>2 DEF Following
  <2> QED
    BY <1>1, <1>2, <2>1, Bounds DEF Start
<1>3. CASE c.i # c.of
  <2>1. Following(c) = [s |-> c.s, m |-> c.m, i |-> c.i + 1, of |-> c.of]
    BY <1>1, <1>3 DEF Following
  <2>2. c.i + 1 \in 1 .. MaxChunks
    BY <1>1, <1>3, Bounds
  <2> QED
    BY <1>1, <1>3, <2>1, <2>2, Bounds DEF Chunk
<1> QED
  BY <1>2, <1>3

\* What the main thread does apart from receiving, and what it leaves alone.
LEMMA PhasesInit == Init => PhasesRight
  BY DEF Init, PhasesRight, InSession, Closing

LEMMA PhasesStep == ShapeOK /\ PhasesRight /\ Next => PhasesRight'
<1> SUFFICES ASSUME ShapeOK, PhasesRight, Next PROVE PhasesRight'
  OBVIOUS
<1> USE DEF PhasesRight, InSession, Closing
<1>1. ASSUME CheckFds PROVE PhasesRight'
  BY <1>1 DEF CheckFds
<1>2. ASSUME ProcessSync PROVE PhasesRight'
  BY <1>2 DEF ProcessSync, ShapeOK
<1>3. ASSUME OpenEx PROVE PhasesRight'
  BY <1>3 DEF OpenEx
<1>4. ASSUME CreateHandler PROVE PhasesRight'
  BY <1>4 DEF CreateHandler
<1>5. ASSUME QuitHandler PROVE PhasesRight'
  BY <1>5 DEF QuitHandler
<1>6. ASSUME JoinHandler PROVE PhasesRight'
  BY <1>6 DEF JoinHandler
<1>7. ASSUME CloseEx PROVE PhasesRight'
  <2>1. main = "close" /\ openHandle /\ handle /\ flags = 2
    BY <1>7 DEF CloseEx
  <2>2. flags' = 0 /\ ~openHandle'
    BY <1>7, <2>1 DEF CloseEx
  <2> QED
    BY <1>7, <2>1, <2>2 DEF CloseEx
<1>8. ASSUME Down PROVE PhasesRight'
  BY <1>8 DEF Down
<1>9. ASSUME Terminate \/ RemoveHandle \/ FreeChannels PROVE PhasesRight'
  BY <1>9 DEF Terminate, RemoveHandle, FreeChannels
<1>10. ASSUME PostConnect PROVE PhasesRight'
  BY <1>10 DEF PostConnect
<1>11. ASSUME Disconnect PROVE PhasesRight'
  BY <1>11 DEF Disconnect
<1>12. ASSUME CloseChannels PROVE PhasesRight'
  BY <1>12 DEF CloseChannels
<1>13. ASSUME NEW c \in Chunk, Receive(c) PROVE PhasesRight'
  BY <1>13 DEF Receive
<1>14. ASSUME PluginThread PROVE PhasesRight'
  BY <1>14 DEF PluginThread, TakeMessage, HandlerReturns, HandlerFails
<1>15. ASSUME NEW w \in Writers, WriteBegin(w) \/ WriteGoesOn(w) PROVE PhasesRight'
  BY <1>15 DEF WriteBegin, WriteGoesOn, WriteConnected, WriteOpen, WriteDispatch
<1> QED
  BY <1>1, <1>2, <1>3, <1>4, <1>5, <1>6, <1>7, <1>8, <1>9, <1>10, <1>11, <1>12, <1>13, <1>14,
     <1>15 DEF Next, MainThread

\* A write that is released keeps its type, and the message to quit is not released.
LEMMA ReleasedType ==
    ASSUME ShapeOK, NEW m \in Write \cup {Quit}
    PROVE  /\ Released(m) \in Seq(Release)
           /\ m = Quit => Released(m) = out
           /\ m # Quit => \E r \in Release :
                             /\ Released(m) = Append(out, r)
                             /\ r.write = m /\ r.session = session /\ (r.sent => flags = 2)
<1>1. CASE m = Quit
  BY <1>1 DEF Released, ShapeOK
<1>2. CASE m # Quit
  <2> DEFINE r == [write |-> m, session |-> session,
                   how |-> IF flags = 2 THEN "complete" ELSE "cancelled",
                   sent |-> flags = 2 /\ link]
  <2>1. m \in Write /\ session \in 0 .. MaxSessions /\ (flags = 2 /\ link) \in BOOLEAN
    BY <1>2 DEF ShapeOK
  <2>2. r \in Release
    BY <2>1 DEF Release
  <2>3. Released(m) = Append(out, r)
    BY <1>2 DEF Released
  <2>4. r.write = m /\ r.session = session /\ (r.sent => flags = 2)
    OBVIOUS
  <2> HIDE DEF r
  <2>5. Append(out, r) \in Seq(Release)
    BY <2>2, AppendProperties DEF ShapeOK
  <2> QED
    BY <1>2, <2>2, <2>3, <2>4, <2>5
<1> QED
  BY <1>1, <1>2

\* The first chunk of a message, or the one that is due.
LEMMA ChunkDue ==
    ASSUME ShapeOK, StreamRight, NEW c \in Chunk, Receive(c)
    PROVE  /\ c.s = session /\ c.i \in 1 .. MaxChunks /\ c.of \in 1 .. MaxChunks /\ c.i <= c.of
           /\ c.m \in 1 .. MaxMessages
           /\ c = [s |-> session, m |-> c.m, i |-> c.i, of |-> c.of]
           /\ next.i = 0 => c.i = 1
           /\ next.i # 0 => c = next
           /\ next' = Following(c)
<1>1. /\ c.s \in 1 .. MaxSessions /\ c.m \in 1 .. MaxMessages
      /\ c.i \in 1 .. MaxChunks /\ c.of \in 1 .. MaxChunks
      /\ c = [s |-> c.s, m |-> c.m, i |-> c.i, of |-> c.of]
  BY DEF Chunk
<1>2. /\ c.s = next.s /\ next' = Following(c) /\ IF next.i = 0 THEN c.i = 1 ELSE c = next
  BY DEF Receive
<1>3. next.s = session /\ next.i <= next.of
  BY DEF StreamRight
<1>4. c.i <= c.of
  BY <1>1, <1>2, <1>3, Bounds
<1> QED
  BY <1>1, <1>2, <1>3, <1>4

LEMMA ShapeStep == ShapeOK /\ StreamRight /\ Next => ShapeOK'
<1> SUFFICES ASSUME ShapeOK, StreamRight, Next PROVE ShapeOK'
  OBVIOUS
<1>1. ASSUME CheckFds PROVE ShapeOK'
  BY <1>1 DEF CheckFds, ShapeOK
<1>2. ASSUME ProcessSync PROVE ShapeOK'
  <2>1. queue' \in Seq(Write \cup {Quit}) /\ out' \in Seq(Release)
    <3>1. CASE queue = <<>>
      BY <1>2, <3>1 DEF ProcessSync, ShapeOK
    <3>2. CASE queue # <<>>
      <4>1. Head(queue) \in Write \cup {Quit} /\ Tail(queue) \in Seq(Write \cup {Quit})
        BY <3>2, HeadTailProperties DEF ShapeOK
      <4>2. Released(Head(queue)) \in Seq(Release)
        BY <4>1, ReleasedType
      <4> QED
        BY <1>2, <3>2, <4>1, <4>2 DEF ProcessSync
    <3> QED
      BY <3>1, <3>2
  <2> QED
    BY <1>2, <2>1 DEF ProcessSync, ShapeOK
<1>3. ASSUME OpenEx PROVE ShapeOK'
  <2>1. flags' \in 0 .. 2
    BY <1>3 DEF OpenEx, ShapeOK
  <2>2. openHandle' \in BOOLEAN /\ channelError' \in BOOLEAN
    BY <1>3, Zenon DEF OpenEx, ShapeOK
  <2> QED
    BY <1>3, <2>1, <2>2 DEF OpenEx, ShapeOK
<1>4. ASSUME CreateHandler PROVE ShapeOK'
  <2>1. dataIn' \in Seq(Chunk) /\ inbox' \in Seq(Seq(Chunk))
    BY <1>4, EmptySeq DEF CreateHandler, None
  <2> QED
    BY <1>4, <2>1 DEF CreateHandler, ShapeOK
<1>5. ASSUME QuitHandler PROVE ShapeOK'
  <2>1. inbox' \in Seq(Seq(Chunk))
    BY <1>5, EmptySeq, AppendProperties DEF QuitHandler, ShapeOK, QuitMessage
  <2> QED
    BY <1>5, <2>1 DEF QuitHandler, ShapeOK
<1>6. ASSUME JoinHandler PROVE ShapeOK'
  <2>1. dataIn' \in Seq(Chunk) /\ inbox' \in Seq(Seq(Chunk))
    BY <1>6, EmptySeq DEF JoinHandler, None
  <2> QED
    BY <1>6, <2>1 DEF JoinHandler, ShapeOK
<1>7. ASSUME CloseEx PROVE ShapeOK'
  <2>1. flags' \in 0 .. 2
    BY <1>7 DEF CloseEx, ShapeOK
  <2>2. openHandle' \in BOOLEAN
    BY <1>7, Zenon DEF CloseEx, ShapeOK
  <2> QED
    BY <1>7, <2>1, <2>2 DEF CloseEx, ShapeOK
<1>8. ASSUME Down \/ Terminate \/ RemoveHandle \/ FreeChannels PROVE ShapeOK'
  <2>1. CASE Down
    BY <2>1 DEF Down, ShapeOK
  <2>2. CASE Terminate
    BY <2>2 DEF Terminate, ShapeOK
  <2>3. CASE RemoveHandle
    <3>1. handle' \in BOOLEAN
      BY <2>3, Zenon DEF RemoveHandle
    <3> QED
      BY <2>3, <3>1 DEF RemoveHandle, ShapeOK
  <2>4. CASE FreeChannels
    BY <2>4 DEF FreeChannels, ShapeOK
  <2> QED
    BY <1>8, <2>1, <2>2, <2>3, <2>4
<1>9. ASSUME PostConnect PROVE ShapeOK'
  <2>1. session' \in 0 .. MaxSessions
    BY <1>9, Bounds DEF PostConnect, ShapeOK
  <2>2. next' \in Start
    BY <1>9, <2>1, Bounds DEF PostConnect, Start
  <2>3. posted' \in Seq(Seq(Chunk)) /\ handled' \in Seq(Seq(Chunk))
    BY <1>9, EmptySeq DEF PostConnect
  <2> QED
    BY <1>9, <2>1, <2>2, <2>3 DEF PostConnect, ShapeOK
<1>10. ASSUME Disconnect PROVE ShapeOK'
  BY <1>10 DEF Disconnect, ShapeOK
<1>11. ASSUME CloseChannels PROVE ShapeOK'
  <2>1. queue' \in Seq(Write \cup {Quit})
    BY <1>11, AppendProperties DEF CloseChannels, ShapeOK
  <2> QED
    BY <1>11, <2>1 DEF CloseChannels, ShapeOK
<1>12. ASSUME NEW c \in Chunk, Receive(c) PROVE ShapeOK'
  <2>1. next' \in Chunk \cup Start
    BY <1>12, ChunkDue, FollowingType
  <2>2. Reassembled(c) \in Seq(Chunk) /\ Rest(c) \in Seq(Chunk)
    BY AppendProperties, EmptySeq DEF Reassembled, Rest, None, ShapeOK
  <2>3. /\ Append(inbox, Reassembled(c)) \in Seq(Seq(Chunk))
        /\ Append(posted, Reassembled(c)) \in Seq(Seq(Chunk))
    BY <2>2, AppendProperties DEF ShapeOK
  <2>4. dataIn' \in Seq(Chunk) /\ inbox' \in Seq(Seq(Chunk)) /\ posted' \in Seq(Seq(Chunk))
    BY <1>12, <2>2, <2>3, Zenon DEF Receive, ShapeOK
  <2>5. channelError' \in BOOLEAN
    BY <1>12, Zenon DEF Receive, ShapeOK
  <2> QED
    BY <1>12, <2>1, <2>4, <2>5 DEF Receive, ShapeOK
<1>13. ASSUME PluginThread PROVE ShapeOK'
  <2>1. CASE TakeMessage
    <3>1. Head(inbox) \in Seq(Chunk) /\ Tail(inbox) \in Seq(Seq(Chunk))
      BY <2>1, HeadTailProperties DEF TakeMessage, ShapeOK
    <3>2. Append(handled, Head(inbox)) \in Seq(Seq(Chunk))
      BY <3>1, AppendProperties DEF ShapeOK
    <3>3. inbox' \in Seq(Seq(Chunk)) /\ handled' \in Seq(Seq(Chunk))
      BY <2>1, <3>1, <3>2 DEF TakeMessage, ShapeOK
    <3> QED
      BY <2>1, <3>3 DEF TakeMessage, ShapeOK
  <2>2. CASE HandlerReturns
    BY <2>2 DEF HandlerReturns, ShapeOK
  <2>3. CASE HandlerFails
    BY <2>3 DEF HandlerFails, ShapeOK
  <2> QED
    BY <1>13, <2>1, <2>2, <2>3 DEF PluginThread
<1>14. ASSUME NEW w \in Writers, WriteBegin(w) PROVE ShapeOK'
  <2>1. writes' \in [Writers -> Nat] /\ \A v \in Writers : writes'[v] <= MaxWrites(v)
    BY <1>14, Bounds DEF WriteBegin, ShapeOK
  <2> QED
    BY <1>14, <2>1 DEF WriteBegin, ShapeOK
<1>15. ASSUME NEW w \in Writers, WriteConnected(w) \/ WriteOpen(w) PROVE ShapeOK'
  <2>1. writer' \in [Writers -> {"idle", "found", "connected", "open"}]
    BY <1>15 DEF WriteConnected, WriteOpen, ShapeOK
  <2>2. UNCHANGED <<main, after, session, link, next, connected, flags, handle, queue, closed,
                    plugin, openHandle, handler, dataIn, inbox, thread, channelError, writes, out,
                    posted, handled>>
    BY <1>15 DEF WriteConnected, WriteOpen
  <2> QED
    BY <2>1, <2>2 DEF ShapeOK
<1>16. ASSUME NEW w \in Writers, WriteDispatch(w) PROVE ShapeOK'
  <2> DEFINE m == [by |-> w, n |-> writes[w], on |-> IF connected THEN session ELSE 0]
  <2>1. m \in Write
    BY WriteType, Bounds DEF ShapeOK
  <2> HIDE DEF m
  <2>2. Append(queue, m) \in Seq(Write \cup {Quit})
    BY <2>1, AppendProperties DEF ShapeOK
  <2>3. queue' \in Seq(Write \cup {Quit})
    BY <1>16, <2>2 DEF WriteDispatch, Queued, ShapeOK, m
  <2> QED
    BY <1>16, <2>3 DEF WriteDispatch, ShapeOK
<1> QED
  BY <1>1, <1>2, <1>3, <1>4, <1>5, <1>6, <1>7, <1>8, <1>9, <1>10, <1>11, <1>12, <1>13, <1>14,
     <1>15, <1>16 DEF Next, MainThread, WriteGoesOn

----------------------------------------------------------------------------
(* The writes *)

\* What a step does to the queue and to the writes, other than the steps of the writers, of
\* ProcessSync and of CloseChannels: nothing.
LEMMA QueueSteps ==
    ASSUME Next
    PROVE  \/ ProcessSync \/ CloseChannels
           \/ \E w \in Writers : WriteBegin(w) \/ WriteConnected(w) \/ WriteOpen(w) \/ WriteDispatch(w)
           \/ UNCHANGED <<queue, out, writer, writes>>
<1>1. CheckFds \/ OpenEx \/ CreateHandler \/ QuitHandler => UNCHANGED <<queue, out, writer, writes>>
  BY DEF CheckFds, OpenEx, CreateHandler, QuitHandler
<1>2. JoinHandler \/ CloseEx \/ Down \/ Terminate => UNCHANGED <<queue, out, writer, writes>>
  BY DEF JoinHandler, CloseEx, Down, Terminate
<1>3. RemoveHandle \/ FreeChannels \/ PostConnect \/ Disconnect => UNCHANGED <<queue, out, writer, writes>>
  BY DEF RemoveHandle, FreeChannels, PostConnect, Disconnect
<1>4. (\E c \in Chunk : Receive(c)) \/ PluginThread => UNCHANGED <<queue, out, writer, writes>>
  BY DEF Receive, PluginThread, TakeMessage, HandlerReturns, HandlerFails
<1> QED
  BY <1>1, <1>2, <1>3, <1>4 DEF Next, MainThread, WriteGoesOn

\* A step of ProcessSync that takes a message from the queue.
LEMMA Taken ==
    ASSUME ShapeOK, ProcessSync, queue # <<>>
    PROVE  /\ Len(queue) \in Nat \ {0} /\ queue[1] \in Write \cup {Quit}
           /\ Len(queue') = Len(queue) - 1
           /\ \A i \in 1 .. Len(queue') : queue'[i] = queue[i + 1]
           /\ queue[1] = Quit => out' = out
           /\ queue[1] # Quit => \E r \in Release :
                             /\ out' = Append(out, r)
                             /\ r.write = queue[1] /\ r.session = session /\ (r.sent => flags = 2)
<1>1. /\ Len(queue) \in Nat \ {0} /\ Head(queue) = queue[1] /\ queue[1] \in Write \cup {Quit}
      /\ Len(Tail(queue)) = Len(queue) - 1
      /\ \A i \in 1 .. Len(Tail(queue)) : Tail(queue)[i] = queue[i + 1]
  BY HeadTailProperties DEF ShapeOK
<1>2. queue' = Tail(queue) /\ out' = Released(queue[1])
  BY <1>1 DEF ProcessSync
<1>3. /\ queue[1] = Quit => out' = out
      /\ queue[1] # Quit => \E r \in Release :
                             /\ out' = Append(out, r)
                             /\ r.write = queue[1] /\ r.session = session /\ (r.sent => flags = 2)
  BY <1>1, <1>2, ReleasedType
<1> QED
  BY <1>1, <1>2, <1>3

\* A step that queues a message puts it behind the others.
LEMMA Put ==
    ASSUME ShapeOK, NEW m \in Write \cup {Quit}, queue' = Append(queue, m)
    PROVE  /\ Len(queue) \in Nat /\ Len(queue') = Len(queue) + 1
           /\ \A i \in 1 .. Len(queue) : queue'[i] = queue[i]
           /\ queue'[Len(queue) + 1] = m
  BY AppendProperties DEF ShapeOK

LEMMA SessionsInit == Init => SessionsRight /\ SentInItsSession
  BY DEF Init, SessionsRight, SentInItsSession

LEMMA SessionsStep ==
    ShapeOK /\ PhasesRight /\ SessionsRight /\ SentInItsSession /\ Next => SessionsRight' /\ SentInItsSession'
<1> SUFFICES ASSUME ShapeOK, PhasesRight, SessionsRight, SentInItsSession, Next
             PROVE  SessionsRight' /\ SentInItsSession'
  OBVIOUS
<1>1. CASE ProcessSync
  <2>1. CASE queue = <<>>
    BY <1>1, <2>1 DEF ProcessSync, SessionsRight, SentInItsSession
  <2>2. CASE queue # <<>>
    <3>1. UNCHANGED <<main, session>> /\ main = "drain"
      BY <1>1, <2>2 DEF ProcessSync
    <3>2. SessionsRight'
      BY <1>1, <2>2, <3>1, Taken DEF SessionsRight
    <3>3. CASE queue[1] = Quit
      BY <1>1, <2>2, <3>2, <3>3, Taken DEF SentInItsSession
    <3>4. CASE queue[1] # Quit
      <4>1. PICK r \in Release : out' = Append(out, r) /\ r.write = queue[1] /\ r.session = session
        BY <1>1, <2>2, <3>4, Taken
      <4>2. r.write.on \in {0, session}
        BY <1>1, <2>2, <4>1, Taken DEF SessionsRight
      <4>3. /\ Len(out') = Len(out) + 1 /\ Len(out) \in Nat /\ out'[Len(out) + 1] = r
            /\ \A i \in 1 .. Len(out) : out'[i] = out[i]
        BY <4>1, AppendProperties DEF ShapeOK
      <4>4. \A i \in 1 .. Len(out') : i \in 1 .. Len(out) \/ i = Len(out) + 1
        BY <4>3
      <4>5. SentInItsSession'
        BY <4>1, <4>2, <4>3, <4>4 DEF SentInItsSession
      <4> QED
        BY <3>2, <4>5
    <3> QED
      BY <3>2, <3>3, <3>4
  <2> QED
    BY <2>1, <2>2
<1>2. CASE CloseChannels
  <2>1. queue' = Append(queue, Quit) /\ UNCHANGED <<session, out>> /\ main' = "drain"
    BY <1>2 DEF CloseChannels
  <2>2. \A i \in 1 .. Len(queue') : i \in 1 .. Len(queue) \/ i = Len(queue) + 1
    BY <2>1, Put
  <2> QED
    BY <2>1, <2>2, Put DEF SessionsRight, SentInItsSession, Quit
<1>3. CASE \E w \in Writers : WriteDispatch(w)
  <2>1. PICK w \in Writers : WriteDispatch(w)
    BY <1>3
  <2>2. UNCHANGED <<session, out, main>>
    BY <2>1 DEF WriteDispatch
  <2>3. CASE closed
    BY <2>1, <2>2, <2>3 DEF WriteDispatch, SessionsRight, SentInItsSession
  <2>4. CASE ~closed
    <3> DEFINE m == [by |-> w, n |-> writes[w], on |-> IF connected THEN session ELSE 0]
    <3>1. m \in Write
      BY WriteType, Bounds DEF ShapeOK
    <3>2. m.on \in {0, session} /\ (main = "offline" => m.on = 0)
      <4>1. main = "offline" => ~connected
        BY DEF PhasesRight, InSession
      <4> QED
        BY <4>1
    <3>3. queue' = Append(queue, m)
      BY <2>1, <2>4 DEF WriteDispatch, Queued
    <3> HIDE DEF m
    <3>4. \A i \in 1 .. Len(queue') : i \in 1 .. Len(queue) \/ i = Len(queue) + 1
      BY <3>1, <3>3, Put
    <3> QED
      BY <2>2, <3>1, <3>2, <3>3, <3>4, Put DEF SessionsRight, SentInItsSession
  <2> QED
    BY <2>3, <2>4
<1>4. CASE UNCHANGED <<queue, out>>
  <2>1. CASE UNCHANGED session /\ main' # "offline"
    BY <1>4, <2>1 DEF SessionsRight, SentInItsSession
  <2>2. CASE PostConnect
    <3>1. session' = session + 1 /\ main = "offline" /\ main' = "connect"
      BY <2>2 DEF PostConnect
    <3> QED
      BY <1>4, <3>1 DEF SessionsRight, SentInItsSession
  <2>3. CASE UNCHANGED <<session, main>>
    BY <1>4, <2>3 DEF SessionsRight, SentInItsSession
  <2>4. PostConnect \/ (UNCHANGED session /\ main' # "offline") \/ UNCHANGED <<session, main>> \/ ProcessSync
    <3>1. CheckFds \/ OpenEx \/ CreateHandler \/ QuitHandler => UNCHANGED session /\ main' # "offline"
      BY DEF CheckFds, OpenEx, CreateHandler, QuitHandler
    <3>2. JoinHandler \/ CloseEx \/ Down \/ Terminate => UNCHANGED session /\ main' # "offline"
      BY DEF JoinHandler, CloseEx, Down, Terminate
    <3>3. FreeChannels \/ Disconnect \/ CloseChannels => UNCHANGED session /\ main' # "offline"
      BY DEF FreeChannels, Disconnect, CloseChannels
    <3>4. RemoveHandle \/ (\E c \in Chunk : Receive(c)) \/ PluginThread => UNCHANGED <<session, main>>
      BY DEF RemoveHandle, Receive, PluginThread, TakeMessage, HandlerReturns, HandlerFails
    <3>5. \A w \in Writers : WriteBegin(w) \/ WriteGoesOn(w) => UNCHANGED <<session, main>>
      BY DEF WriteBegin, WriteGoesOn, WriteConnected, WriteOpen, WriteDispatch
    <3> QED
      BY <3>1, <3>2, <3>3, <3>4, <3>5 DEF Next, MainThread
  <2> QED
    BY <1>1, <2>1, <2>2, <2>3, <2>4
<1>5. \A w \in Writers : WriteBegin(w) \/ WriteConnected(w) \/ WriteOpen(w) => UNCHANGED <<queue, out>>
  BY DEF WriteBegin, WriteConnected, WriteOpen
<1> QED
  BY <1>1, <1>2, <1>3, <1>4, <1>5, QueueSteps

\* What is queued and what was released are writes.
LEMMA WritesTyped ==
    ASSUME ShapeOK
    PROVE  /\ \A i \in 1 .. Len(queue) : queue[i] \in Write \cup {Quit} /\ queue[i].n \in Nat
           /\ \A i \in 1 .. Len(out) : out[i].write \in Write /\ out[i].write.n \in Nat
           /\ \A w \in Writers : writes[w] \in Nat
           /\ Len(queue) \in Nat /\ Len(out) \in Nat
<1>1. \A i \in 1 .. Len(queue) : queue[i] \in Write \cup {Quit}
  BY ElementOfSeq DEF ShapeOK
<1>2. \A i \in 1 .. Len(out) : out[i] \in Release
  BY ElementOfSeq DEF ShapeOK
<1>3. \A r \in Release : r.write \in Write
  BY DEF Release
<1>4. \A m \in Write \cup {Quit} : m.n \in Nat
  BY DEF Write, Quit
<1>5. Len(queue) \in Nat /\ Len(out) \in Nat /\ \A w \in Writers : writes[w] \in Nat
  BY LenProperties DEF ShapeOK
<1> QED
  BY <1>1, <1>2, <1>3, <1>4, <1>5

LEMMA OrderInit == Init => OrderRight /\ ReleasedInOrder
  BY DEF Init, OrderRight, ReleasedInOrder

LEMMA OrderStep ==
    ShapeOK /\ OrderRight /\ ReleasedInOrder /\ Next => OrderRight' /\ ReleasedInOrder'
<1> SUFFICES ASSUME ShapeOK, OrderRight, ReleasedInOrder, Next PROVE OrderRight' /\ ReleasedInOrder'
  OBVIOUS
<1>0. /\ \A i \in 1 .. Len(queue) : queue[i] \in Write \cup {Quit}
      /\ \A i \in 1 .. Len(out) : out[i].write \in Write
      /\ \A w \in Writers : writes[w] \in Nat
      /\ Len(queue) \in Nat /\ Len(out) \in Nat
  BY WritesTyped
<1>n. (\A m \in Write \cup {Quit} : m.n \in Nat) /\ Quit.by \notin Writers /\ \A m \in Write : m.by \in Writers
  BY DEF Write, Quit, Writers
<1>1. CASE ProcessSync
  <2>1. UNCHANGED <<writer, writes>>
    BY <1>1 DEF ProcessSync
  <2>2. CASE queue = <<>>
    BY <1>1, <2>1, <2>2 DEF ProcessSync, OrderRight, ReleasedInOrder
  <2>3. CASE queue # <<>>
    <3>1. /\ Len(queue') = Len(queue) - 1 /\ 1 \in 1 .. Len(queue)
          /\ \A i \in 1 .. Len(queue') : queue'[i] = queue[i + 1] /\ i + 1 \in 1 .. Len(queue)
      BY <1>0, <1>1, <2>3, Taken
    <3>q. \A i, j \in 1 .. Len(queue') :
             i < j /\ queue'[i].by = queue'[j].by /\ queue'[i] # Quit => queue'[i].n < queue'[j].n
      <4> TAKE i, j \in 1 .. Len(queue')
      <4>1. i + 1 \in 1 .. Len(queue) /\ j + 1 \in 1 .. Len(queue) /\ (i < j => i + 1 < j + 1)
        BY <1>0, <3>1
      <4>2. queue'[i] = queue[i + 1] /\ queue'[j] = queue[j + 1]
        BY <3>1
      <4> QED
        BY <4>1, <4>2 DEF OrderRight
    <3>w. \A i \in 1 .. Len(queue'), w \in Writers :
             queue'[i].by = w => /\ queue'[i].n <= writes'[w]
                                 /\ writer'[w] # "idle" => queue'[i].n < writes'[w]
      BY <2>1, <3>1 DEF OrderRight
    <3>2. CASE queue[1] = Quit
      <4>1. out' = out
        BY <1>1, <2>3, <3>2, Taken
      <4>2. \A i \in 1 .. Len(out'), j \in 1 .. Len(queue') :
               out'[i].write.by = queue'[j].by => out'[i].write.n < queue'[j].n
        BY <3>1, <4>1 DEF OrderRight
      <4>3. \A i \in 1 .. Len(out'), w \in Writers :
               out'[i].write.by = w => /\ out'[i].write.n <= writes'[w]
                                       /\ writer'[w] # "idle" => out'[i].write.n < writes'[w]
        BY <2>1, <4>1 DEF OrderRight
      <4> QED
        BY <3>q, <3>w, <4>1, <4>2, <4>3 DEF OrderRight, ReleasedInOrder
    <3>3. CASE queue[1] # Quit
      <4>1. PICK r \in Release : out' = Append(out, r) /\ r.write = queue[1]
        BY <1>1, <2>3, <3>3, Taken
      <4>2. /\ Len(out') = Len(out) + 1 /\ out'[Len(out) + 1].write = queue[1]
            /\ \A i \in 1 .. Len(out) : out'[i] = out[i]
        BY <4>1, AppendProperties DEF ShapeOK
      <4>3. \A i \in 1 .. Len(out') : i \in 1 .. Len(out) \/ i = Len(out) + 1
        BY <1>0, <4>2
      <4>4. \A i \in 1 .. Len(out) : out[i].write.by = queue[1].by => out[i].write.n < queue[1].n
        BY <3>1 DEF OrderRight
      <4>5. ReleasedInOrder'
        BY <1>0, <4>2, <4>3, <4>4 DEF ReleasedInOrder
      <4>6. \A j \in 1 .. Len(queue') : queue[1].by = queue'[j].by => queue[1].n < queue'[j].n
        <5> TAKE j \in 1 .. Len(queue')
        <5>1. j + 1 \in 1 .. Len(queue) /\ 1 < j + 1 /\ queue'[j] = queue[j + 1]
          BY <1>0, <3>1
        <5> QED
          BY <3>1, <3>3, <5>1 DEF OrderRight
      <4>7. \A i \in 1 .. Len(out'), j \in 1 .. Len(queue') :
               out'[i].write.by = queue'[j].by => out'[i].write.n < queue'[j].n
        <5>1. \A i \in 1 .. Len(out), j \in 1 .. Len(queue') :
                 out[i].write.by = queue'[j].by => out[i].write.n < queue'[j].n
          BY <3>1 DEF OrderRight
        <5> QED
          BY <4>2, <4>3, <4>6, <5>1
      <4>8. \A i \in 1 .. Len(out'), w \in Writers :
               out'[i].write.by = w => /\ out'[i].write.n <= writes'[w]
                                       /\ writer'[w] # "idle" => out'[i].write.n < writes'[w]
        BY <2>1, <3>1, <4>2, <4>3 DEF OrderRight
      <4> QED
        BY <3>q, <3>w, <4>5, <4>7, <4>8 DEF OrderRight
    <3> QED
      BY <3>2, <3>3
  <2> QED
    BY <2>2, <2>3
<1>2. CASE CloseChannels
  <2>1. queue' = Append(queue, Quit) /\ UNCHANGED <<out, writer, writes>>
    BY <1>2 DEF CloseChannels
  <2>2. \A i \in 1 .. Len(queue') : i \in 1 .. Len(queue) \/ i = Len(queue) + 1
    BY <2>1, Put
  <2>3. \A i \in 1 .. Len(queue) : queue[i] # Quit => queue[i].by # Quit.by
    BY <1>0, <1>n
  <2>4. \A i \in 1 .. Len(out) : out[i].write.by # Quit.by
    BY <1>0, <1>n
  <2>5. /\ queue'[Len(queue) + 1] = Quit /\ Len(queue') = Len(queue) + 1
        /\ \A i \in 1 .. Len(queue) : queue'[i] = queue[i]
    BY <2>1, Put
  <2> HIDE DEF Quit
  <2>6. OrderRight'
    BY <1>0, <1>n, <2>1, <2>2, <2>3, <2>4, <2>5 DEF OrderRight
  <2> QED
    BY <2>1, <2>6 DEF ReleasedInOrder
<1>3. CASE \E w \in Writers : WriteDispatch(w)
  <2>1. PICK w \in Writers : WriteDispatch(w)
    BY <1>3
  <2>2. /\ UNCHANGED <<out, writes>> /\ writer[w] = "open" /\ writer'[w] = "idle"
        /\ \A v \in Writers : v # w => writer'[v] = writer[v]
    BY <2>1 DEF WriteDispatch, ShapeOK
  <2>3. CASE closed
    <3>1. queue' = queue
      BY <2>1, <2>3 DEF WriteDispatch
    <3>2. OrderRight'
      BY <2>2, <3>1 DEF OrderRight
    <3> QED
      BY <2>2, <3>2 DEF ReleasedInOrder
  <2>4. CASE ~closed
    <3> DEFINE m == [by |-> w, n |-> writes[w], on |-> IF connected THEN session ELSE 0]
    <3>1. m \in Write /\ m.by = w /\ m.n = writes[w]
      BY WriteType, Bounds DEF ShapeOK
    <3>2. queue' = Append(queue, m)
      BY <2>1, <2>4 DEF WriteDispatch, Queued
    <3> HIDE DEF m
    <3>3. /\ queue'[Len(queue) + 1] = m /\ Len(queue') = Len(queue) + 1
          /\ \A i \in 1 .. Len(queue) : queue'[i] = queue[i]
      BY <3>1, <3>2, Put
    <3>4. \A i \in 1 .. Len(queue') : i \in 1 .. Len(queue) \/ i = Len(queue) + 1
      BY <1>0, <3>3
    <3>5. \A i, j \in 1 .. Len(queue') :
             i < j /\ queue'[i].by = queue'[j].by /\ queue'[i] # Quit => queue'[i].n < queue'[j].n
      BY <1>0, <2>2, <3>1, <3>3, <3>4 DEF OrderRight
    <3>6. \A i \in 1 .. Len(out'), j \in 1 .. Len(queue') :
             out'[i].write.by = queue'[j].by => out'[i].write.n < queue'[j].n
      BY <1>0, <2>2, <3>1, <3>3, <3>4 DEF OrderRight
    <3>7. \A i \in 1 .. Len(queue'), v \in Writers :
             queue'[i].by = v => /\ queue'[i].n <= writes'[v]
                                 /\ writer'[v] # "idle" => queue'[i].n < writes'[v]
      BY <1>0, <2>2, <3>1, <3>3, <3>4 DEF OrderRight
    <3>8. \A i \in 1 .. Len(out'), v \in Writers :
             out'[i].write.by = v => /\ out'[i].write.n <= writes'[v]
                                     /\ writer'[v] # "idle" => out'[i].write.n < writes'[v]
      BY <1>0, <2>2 DEF OrderRight
    <3> QED
      BY <2>2, <3>5, <3>6, <3>7, <3>8 DEF OrderRight, ReleasedInOrder
  <2> QED
    BY <2>3, <2>4
<1>4. CASE \E w \in Writers : WriteBegin(w)
  <2>1. PICK w \in Writers : WriteBegin(w)
    BY <1>4
  <2>2. /\ UNCHANGED <<queue, out>> /\ writes'[w] = writes[w] + 1
        /\ \A v \in Writers : v # w => writer'[v] = writer[v] /\ writes'[v] = writes[v]
    BY <2>1 DEF WriteBegin, ShapeOK
  <2>3. \A i \in 1 .. Len(queue'), v \in Writers :
           queue'[i].by = v => /\ queue'[i].n <= writes'[v]
                               /\ writer'[v] # "idle" => queue'[i].n < writes'[v]
    BY <1>0, <1>n, <2>2 DEF OrderRight
  <2>4. \A i \in 1 .. Len(out'), v \in Writers :
           out'[i].write.by = v => /\ out'[i].write.n <= writes'[v]
                                   /\ writer'[v] # "idle" => out'[i].write.n < writes'[v]
    BY <1>0, <1>n, <2>2 DEF OrderRight
  <2> QED
    BY <2>2, <2>3, <2>4 DEF OrderRight, ReleasedInOrder
<1>5. CASE \E w \in Writers : WriteConnected(w) \/ WriteOpen(w)
  <2>1. PICK w \in Writers : WriteConnected(w) \/ WriteOpen(w)
    BY <1>5
  <2>2. /\ UNCHANGED <<queue, out, writes>> /\ writer[w] # "idle"
        /\ \A v \in Writers : v # w => writer'[v] = writer[v]
    BY <2>1 DEF WriteConnected, WriteOpen, ShapeOK
  <2>3. OrderRight'
    BY <2>2 DEF OrderRight
  <2> QED
    BY <2>2, <2>3 DEF ReleasedInOrder
<1>6. CASE UNCHANGED <<queue, out, writer, writes>>
  BY <1>6 DEF OrderRight, ReleasedInOrder
<1> QED
  BY <1>1, <1>2, <1>3, <1>4, <1>5, <1>6, QueueSteps

\* The order says that no write is released twice, or while it is queued.
LEMMA OrderOnce == ShapeOK /\ OrderRight /\ ReleasedInOrder => ReleasedOnce
<1> SUFFICES ASSUME ShapeOK, OrderRight, ReleasedInOrder PROVE ReleasedOnce
  OBVIOUS
<1>1. /\ \A i \in 1 .. Len(out) : out[i].write \in Write
      /\ Len(queue) \in Nat /\ Len(out) \in Nat
  BY WritesTyped
<1>2. \A m \in Write : m.n \in Nat
  BY DEF Write
<1>3. \A i, j \in 1 .. Len(out) : out[i].write = out[j].write => i = j
  BY <1>1, <1>2 DEF ReleasedInOrder
<1>4. \A i \in InQueue, j \in 1 .. Len(out) : queue[i] # out[j].write
  BY <1>1, <1>2 DEF OrderRight, InQueue
<1> QED
  BY <1>3, <1>4 DEF ReleasedOnce

----------------------------------------------------------------------------
(* The messages *)

\* What a step does to the stream and the messages, other than receiving, the plugin's thread and
\* the steps that make and free the handler: nothing.
LEMMA MessageSteps ==
    ASSUME ShapeOK, Next
    PROVE  \/ \E c \in Chunk : Receive(c)
           \/ PluginThread \/ PostConnect \/ OpenEx \/ CreateHandler \/ QuitHandler \/ JoinHandler
           \/ /\ UNCHANGED <<session, next, handler, dataIn, inbox, thread, channelError, posted, handled>>
              /\ main' \in {"connect", "open", "join", "close"} => main' = main
              /\ main = "join" => main' = main
<1> DEFINE Still ==
    /\ UNCHANGED <<session, next, handler, dataIn, inbox, thread, channelError, posted, handled>>
    /\ main' \in {"connect", "open", "join", "close"} => main' = main
    /\ main = "join" => main' = main
<1>1. CheckFds \/ CloseEx \/ Down \/ Terminate => Still
  BY DEF CheckFds, CloseEx, Down, Terminate
<1>2. RemoveHandle \/ FreeChannels \/ Disconnect \/ CloseChannels => Still
  BY DEF RemoveHandle, FreeChannels, Disconnect, CloseChannels
<1>3. \A w \in Writers : WriteBegin(w) \/ WriteGoesOn(w) => Still
  BY DEF WriteBegin, WriteGoesOn, WriteConnected, WriteOpen, WriteDispatch
<1>4. ProcessSync => Still
  BY DEF ProcessSync, ShapeOK
<1> QED
  BY <1>1, <1>2, <1>3, <1>4 DEF Next, MainThread

\* A step of Receive: the chunk goes behind the others of its message, and the last one makes a
\* stream that is exactly full.
LEMMA Received ==
    ASSUME ShapeOK, PhasesRight, StreamRight, NEW c \in Chunk, Receive(c)
    PROVE  /\ handler /\ UNCHANGED <<main, session, handler, thread, channelError, handled>>
           /\ main = "loop"
           /\ Reassembled(c) \in Seq(Chunk) /\ Len(Reassembled(c)) = c.i
           /\ \A j \in 1 .. c.i :
                 Reassembled(c)[j] = [s |-> session, m |-> c.m, i |-> j, of |-> c.of]
           /\ c.i < c.of => dataIn' = Reassembled(c) /\ UNCHANGED <<inbox, posted>>
           /\ c.i = c.of => /\ dataIn' = <<>> /\ inbox' = Append(inbox, Reassembled(c))
                            /\ posted' = Append(posted, Reassembled(c))
<1>1. main = "loop" /\ handler /\ openHandle /\ UNCHANGED <<main, session, handler, thread, handled>>
  BY DEF Receive, PhasesRight, InSession
<1>2. /\ c.i \in 1 .. MaxChunks /\ c.of \in 1 .. MaxChunks /\ c.i <= c.of /\ c.i = Due /\ c.m = next.m
      /\ c = [s |-> session, m |-> c.m, i |-> c.i, of |-> c.of]
      /\ next.i # 0 => c = next
  <2>1. c.m = next.m
    BY DEF Receive
  <2> QED
    BY <2>1, ChunkDue DEF Due
<1>3. /\ Len(dataIn) = c.i - 1
      /\ \A j \in 1 .. Len(dataIn) : dataIn[j] = [s |-> session, m |-> c.m, i |-> j, of |-> c.of]
  <2>1. CASE next.i = 0
    BY <1>1, <1>2, <2>1 DEF StreamRight, Due
  <2>2. CASE next.i # 0
    BY <1>1, <1>2, <2>2 DEF StreamRight
  <2> QED
    BY <2>1, <2>2
<1>4. /\ Reassembled(c) \in Seq(Chunk) /\ Len(Reassembled(c)) = c.i
      /\ \A j \in 1 .. Len(dataIn) : Reassembled(c)[j] = dataIn[j]
      /\ Reassembled(c)[c.i] = c
  <2>1. Len(dataIn) + 1 = c.i
    BY <1>2, <1>3, Bounds
  <2> QED
    BY <2>1, AppendProperties DEF Reassembled, ShapeOK
<1>5. \A j \in 1 .. c.i : Reassembled(c)[j] = [s |-> session, m |-> c.m, i |-> j, of |-> c.of]
  <2>1. \A j \in 1 .. c.i : j \in 1 .. Len(dataIn) \/ j = c.i
    BY <1>2, <1>3, Bounds
  <2> QED
    BY <1>2, <1>3, <1>4, <2>1
<1>6. c.i = c.of => Capacity(Reassembled(c)) = c.i
  <2> SUFFICES ASSUME c.i = c.of PROVE Capacity(Reassembled(c)) = c.i
    OBVIOUS
  <2>1. \A j \in 1 .. c.i : Reassembled(c)[j].of = c.i
    <3> TAKE j \in 1 .. c.i
    <3>1. Reassembled(c)[j] = [s |-> session, m |-> c.m, i |-> j, of |-> c.of]
      BY <1>5
    <3> QED
      BY <3>1
  <2>2. {Len(Reassembled(c))} \cup {Reassembled(c)[j].of : j \in 1 .. Len(Reassembled(c))} = {c.i}
    <3> DEFINE d == Reassembled(c)
               S == {Len(d)} \cup {d[j].of : j \in 1 .. Len(d)}
    <3>1. Len(d) = c.i /\ \A j \in 1 .. Len(d) : d[j].of = c.i
      BY <1>4, <2>1
    <3> HIDE DEF d
    <3>2. \A x : x \in S <=> x = c.i
      BY <3>1
    <3>3. S = {c.i}
      BY <3>2
    <3> QED
      BY <3>3 DEF d
  <2>3. c.i \in Nat
    BY <1>2, Bounds
  <2> QED
    <3>1. Max({c.i}) = c.i
      BY <2>3 DEF Max
    <3> QED
      BY <2>2, <3>1 DEF Capacity
<1>7. c.i < c.of => dataIn' = Reassembled(c) /\ UNCHANGED <<inbox, posted, channelError>>
  BY <1>1, Zenon DEF Receive
<1>8. c.i = c.of => /\ dataIn' = <<>> /\ inbox' = Append(inbox, Reassembled(c))
                    /\ posted' = Append(posted, Reassembled(c)) /\ UNCHANGED channelError
  <2>1. c.i = c.of => ~(c.i < c.of)
    BY <1>2, Bounds
  <2> QED
    BY <1>1, <1>4, <1>6, <2>1, Zenon DEF Receive, Rest, None
<1>9. c.i < c.of \/ c.i = c.of
  BY <1>2, Bounds
<1> QED
  BY <1>1, <1>4, <1>5, <1>7, <1>8, <1>9

\* What was posted is as whole as it was.
LEMMA WholeKept == MessagesWhole /\ UNCHANGED <<session, posted>> => MessagesWhole'
  BY DEF MessagesWhole

\* A stream that does not change is as right as it was.
LEMMA StreamKept ==
    ASSUME StreamRight, UNCHANGED <<session, next, handler, dataIn>>,
           main' \in {"connect", "open"} => main \in {"connect", "open"}
    PROVE  StreamRight'
<1>1. Due' = Due
  BY DEF Due
<1> QED
  BY <1>1 DEF StreamRight

LEMMA StreamInit == Init => StreamRight /\ MessagesWhole
  BY DEF Init, StreamRight, MessagesWhole

LEMMA StreamStep ==
    ShapeOK /\ PhasesRight /\ StreamRight /\ MessagesWhole /\ Next => StreamRight' /\ MessagesWhole'
<1> SUFFICES ASSUME ShapeOK, PhasesRight, StreamRight, MessagesWhole, Next
             PROVE  StreamRight' /\ MessagesWhole'
  OBVIOUS
<1>1. ASSUME NEW c \in Chunk, Receive(c) PROVE StreamRight' /\ MessagesWhole'
  <2>1. /\ c.s = session /\ c.i \in 1 .. MaxChunks /\ c.of \in 1 .. MaxChunks /\ c.i <= c.of
        /\ c.m \in 1 .. MaxMessages /\ next' = Following(c)
    BY <1>1, ChunkDue
  <2>2. /\ next'.s = c.s /\ next'.i <= next'.of
        /\ c.i = c.of => next'.i = 0
        /\ c.i # c.of => next' = [s |-> c.s, m |-> c.m, i |-> c.i + 1, of |-> c.of]
    BY <2>1, FollowingType
  <2>3. CASE c.i < c.of
    <3>1. Len(dataIn') = c.i /\ Due' = c.i + 1 /\ next'.m = c.m /\ next'.of = c.of
      BY <1>1, <2>1, <2>2, <2>3, Bounds, Received DEF Due
    <3>2. /\ UNCHANGED <<main, session, handler, posted>> /\ main = "loop"
          /\ \A j \in 1 .. c.i : dataIn'[j] = [s |-> session, m |-> c.m, i |-> j, of |-> c.of]
      BY <1>1, <2>3, Received
    <3>3. StreamRight'
      BY <2>1, <2>2, <3>1, <3>2, Bounds DEF StreamRight
    <3> QED
      BY <3>2, <3>3 DEF MessagesWhole
  <2>4. CASE c.i = c.of
    <3>1. Len(dataIn') = 0 /\ Due' = 1
      BY <1>1, <2>2, <2>4, Received, EmptySeq DEF Due
    <3>2. UNCHANGED <<main, session, handler>> /\ main = "loop" /\ posted' = Append(posted, Reassembled(c))
      BY <1>1, <2>4, Received
    <3>3. StreamRight'
      BY <2>1, <2>2, <3>1, <3>2 DEF StreamRight
    <3>4. Reassembled(c) = [i \in 1 .. c.of |-> [s |-> session, m |-> c.m, i |-> i, of |-> c.of]]
      <4>1. Reassembled(c) \in [1 .. c.of -> Chunk]
        BY <1>1, <2>4, Received, LenProperties
      <4>2. \A j \in 1 .. c.of : Reassembled(c)[j] = [s |-> session, m |-> c.m, i |-> j, of |-> c.of]
        BY <1>1, <2>4, Received
      <4> QED
        BY <4>1, <4>2
    <3>5. /\ Len(posted') = Len(posted) + 1 /\ Len(posted) \in Nat
          /\ \A k \in 1 .. Len(posted) : posted'[k] = posted[k]
          /\ posted'[Len(posted) + 1] = Reassembled(c)
      BY <1>1, <3>2, Received, AppendProperties, LenProperties DEF ShapeOK
    <3>6. \A k \in 1 .. Len(posted') : k \in 1 .. Len(posted) \/ k = Len(posted) + 1
      BY <3>5
    <3>7. MessagesWhole'
      <4> DEFINE Whole(k) ==
            \E m \in 1 .. MaxMessages, of \in 1 .. MaxChunks :
                posted'[k] = [i \in 1 .. of |-> [s |-> session', m |-> m, i |-> i, of |-> of]]
      <4>1. ASSUME NEW k \in 1 .. Len(posted) PROVE Whole(k)
        <5>1. PICK m \in 1 .. MaxMessages, of \in 1 .. MaxChunks :
                 posted[k] = [i \in 1 .. of |-> [s |-> session, m |-> m, i |-> i, of |-> of]]
          BY DEF MessagesWhole
        <5>2. posted'[k] = [i \in 1 .. of |-> [s |-> session', m |-> m, i |-> i, of |-> of]]
          BY <3>2, <3>5, <5>1
        <5> QED
          BY <5>2
      <4>2. Whole(Len(posted) + 1)
        <5>1. posted'[Len(posted) + 1] =
                 [i \in 1 .. c.of |-> [s |-> session', m |-> c.m, i |-> i, of |-> c.of]]
          BY <3>2, <3>4, <3>5
        <5> QED
          BY <2>1, <5>1
      <4> HIDE DEF Whole
      <4>3. \A k \in 1 .. Len(posted') : Whole(k)
        BY <3>6, <4>1, <4>2
      <4> QED
        BY <4>3 DEF MessagesWhole, Whole
    <3> QED
      BY <3>3, <3>7
  <2> QED
    BY <2>1, <2>3, <2>4, Bounds
<1>2. CASE PostConnect
  <2>1. /\ session' = session + 1 /\ next' = [s |-> session', m |-> 1, i |-> 0, of |-> 0]
        /\ posted' = <<>> /\ ~handler'
    BY <1>2 DEF PostConnect, PhasesRight, InSession
  <2> QED
    BY <2>1, EmptySeq DEF StreamRight, MessagesWhole
<1>3. CASE OpenEx
  <2>1. UNCHANGED <<session, next, handler, dataIn, posted>> /\ main = "connect"
    BY <1>3 DEF OpenEx
  <2> QED
    BY <2>1, StreamKept, WholeKept
<1>4. CASE CreateHandler
  <2>1. UNCHANGED <<session, next, posted>> /\ main = "open" /\ main' = "loop" /\ dataIn' = <<>>
    BY <1>4 DEF CreateHandler, None
  <2>2. Due' = 1 /\ Len(dataIn') = 0
    BY <2>1, EmptySeq DEF StreamRight, Due
  <2> QED
    BY <2>1, <2>2, WholeKept DEF StreamRight
<1>5. CASE QuitHandler \/ PluginThread
  <2>1. UNCHANGED <<session, next, handler, dataIn, posted>>
    BY <1>5 DEF QuitHandler, PluginThread, TakeMessage, HandlerReturns, HandlerFails
  <2>2. main' \in {"connect", "open"} => main' = main
    BY <1>5 DEF QuitHandler, PluginThread, TakeMessage, HandlerReturns, HandlerFails
  <2> QED
    BY <2>1, <2>2, StreamKept, WholeKept
<1>6. CASE JoinHandler
  <2>1. UNCHANGED <<session, next, posted>> /\ main' = "close" /\ ~handler'
    BY <1>6 DEF JoinHandler
  <2> QED
    BY <2>1, WholeKept DEF StreamRight
<1>7. CASE /\ UNCHANGED <<session, next, handler, dataIn, inbox, thread, channelError, posted, handled>>
           /\ main' \in {"connect", "open", "join", "close"} => main' = main
  BY <1>7, StreamKept, WholeKept
<1> QED
  BY <1>1, <1>2, <1>3, <1>4, <1>5, <1>6, <1>7, MessageSteps

\* A message that was put together has a chunk, and is not the message to quit.
LEMMA NotQuit ==
    ASSUME ShapeOK, MessagesWhole
    PROVE  \A k \in 1 .. Len(posted) : posted[k] # QuitMessage
<1> TAKE k \in 1 .. Len(posted)
<1>1. PICK m \in 1 .. MaxMessages, of \in 1 .. MaxChunks :
         posted[k] = [i \in 1 .. of |-> [s |-> session, m |-> m, i |-> i, of |-> of]]
  BY DEF MessagesWhole
<1>2. DOMAIN posted[k] = 1 .. of /\ 1 \in 1 .. of
  BY <1>1, Bounds
<1> QED
  BY <1>2 DEF QuitMessage

LEMMA InboxInit == Init => InboxRight /\ HandledInOrder /\ QuitLosesNothing
  BY EmptySeq DEF Init, InboxRight, HandledInOrder, QuitLosesNothing, Waiting

LEMMA InboxStep ==
    /\ ShapeOK /\ PhasesRight /\ StreamRight /\ MessagesWhole
    /\ InboxRight /\ HandledInOrder /\ QuitLosesNothing /\ Next
    => InboxRight' /\ HandledInOrder' /\ QuitLosesNothing'
<1> SUFFICES ASSUME ShapeOK, PhasesRight, StreamRight, MessagesWhole,
                    InboxRight, HandledInOrder, QuitLosesNothing, Next
             PROVE  InboxRight' /\ HandledInOrder' /\ QuitLosesNothing'
  OBVIOUS
<1>0. Len(posted) \in Nat /\ Len(handled) \in Nat /\ Len(inbox) \in Nat /\ Waiting \in Nat
  BY LenProperties DEF ShapeOK, HandledInOrder, Waiting
<1>1. ASSUME NEW c \in Chunk, Receive(c) PROVE InboxRight' /\ HandledInOrder' /\ QuitLosesNothing'
  <2>1. /\ handler /\ UNCHANGED <<main, handler, thread, channelError, handled>> /\ main = "loop"
        /\ Reassembled(c) \in Seq(Chunk)
    BY <1>1, Received
  <2>2. c.i <= c.of /\ c.i \in Nat /\ c.of \in Nat
    BY <1>1, ChunkDue, Bounds
  <2>3. CASE c.i < c.of
    <3>1. UNCHANGED <<inbox, posted>>
      BY <1>1, <2>3, Received
    <3> QED
      BY <2>1, <3>1 DEF InboxRight, HandledInOrder, QuitLosesNothing, Waiting
  <2>4. CASE c.i = c.of
    <3> DEFINE d == Reassembled(c)
    <3> HIDE DEF d
    <3>1. inbox' = Append(inbox, d) /\ posted' = Append(posted, d) /\ d \in Seq(Chunk)
      BY <1>1, <2>1, <2>4, Received DEF d
    <3>2. /\ Len(inbox') = Len(inbox) + 1 /\ inbox'[Len(inbox) + 1] = d
          /\ \A k \in 1 .. Len(inbox) : inbox'[k] = inbox[k]
      BY <3>1, AppendProperties DEF ShapeOK
    <3>3. /\ Len(posted') = Len(posted) + 1 /\ posted'[Len(posted) + 1] = d
          /\ \A k \in 1 .. Len(posted) : posted'[k] = posted[k]
      BY <3>1, AppendProperties DEF ShapeOK
    <3>4. Len(inbox) = Waiting /\ Waiting' = Waiting + 1 /\ Len(handled') = Len(handled)
      BY <1>0, <2>1, <3>3 DEF InboxRight, Waiting
    <3>5. ASSUME NEW k \in 1 .. Waiting' PROVE inbox'[k] = posted'[Len(handled') + k]
      <4>1. CASE k \in 1 .. Waiting
        <5>1. Len(handled) + k \in 1 .. Len(posted) /\ k \in 1 .. Len(inbox)
          BY <1>0, <3>4, <4>1 DEF Waiting
        <5>2. inbox[k] = posted[Len(handled) + k]
          BY <2>1, <4>1 DEF InboxRight
        <5> QED
          BY <2>1, <3>2, <3>3, <3>4, <5>1, <5>2
      <4>2. CASE k = Waiting + 1
        <5>1. Len(handled) + k = Len(posted) + 1 /\ k = Len(inbox) + 1
          BY <1>0, <3>4, <4>2 DEF Waiting
        <5> QED
          BY <2>1, <3>2, <3>3, <5>1
      <4> QED
        BY <1>0, <3>4, <4>1, <4>2
    <3>6. Len(inbox') = Waiting' /\ Waiting' \in Nat
      BY <1>0, <3>2, <3>4
    <3>7. thread' = "ended" => channelError'
      BY <2>1 DEF InboxRight
    <3>8. InboxRight'
      <4>1. \A k \in 1 .. Waiting' : inbox'[k] = posted'[Len(handled') + k]
        BY <3>5
      <4>2. Len(inbox') # Waiting' + 1
        BY <1>0, <3>2, <3>4
      <4>3. main' = "loop"
        BY <2>1
      <4> QED
        BY <3>6, <3>7, <4>1, <4>2, <4>3 DEF InboxRight
    <3>9. HandledInOrder'
      BY <1>0, <2>1, <3>3 DEF HandledInOrder
    <3> QED
      BY <2>1, <3>8, <3>9 DEF QuitLosesNothing
  <2> QED
    BY <2>2, <2>3, <2>4
<1>2. CASE TakeMessage
  <2>1. /\ UNCHANGED <<main, handler, channelError, posted>> /\ thread = "wait" /\ handler
        /\ inbox # <<>>
    BY <1>2 DEF TakeMessage, PhasesRight
  <2>2. /\ Len(inbox) \in Nat \ {0} /\ Head(inbox) = inbox[1] /\ Head(inbox) \in Seq(Chunk)
        /\ Len(inbox') = Len(inbox) - 1
        /\ \A k \in 1 .. Len(inbox') : inbox'[k] = inbox[k + 1]
    BY <1>2, <2>1, HeadTailProperties, EmptySeq DEF TakeMessage, ShapeOK
  <2>3. CASE Waiting = 0
    <3>1. Len(inbox) = 1 /\ main = "join" /\ inbox[1] = QuitMessage
      BY <1>0, <2>1, <2>2, <2>3 DEF InboxRight
    <3>2. thread' = "ended" /\ handled' = handled /\ Len(inbox') = 0 /\ Waiting' = 0
      BY <1>2, <2>1, <2>2, <2>3, <3>1 DEF TakeMessage, Waiting
    <3>3. InboxRight'
      BY <2>1, <3>1, <3>2 DEF InboxRight
    <3> QED
      BY <2>1, <3>1, <3>2, <3>3 DEF HandledInOrder, QuitLosesNothing
  <2>4. CASE Waiting # 0
    <3>1. 1 \in 1 .. Waiting /\ Len(handled) + 1 \in 1 .. Len(posted)
      BY <1>0, <2>4 DEF Waiting
    <3>2. inbox[1] = posted[Len(handled) + 1] /\ inbox[1] # QuitMessage
      BY <2>1, <3>1, NotQuit DEF InboxRight
    <3>3. thread' = "handling" /\ handled' = Append(handled, inbox[1])
      BY <1>2, <2>2, <3>2 DEF TakeMessage
    <3>4. /\ Len(handled') = Len(handled) + 1 /\ handled'[Len(handled) + 1] = inbox[1]
          /\ \A k \in 1 .. Len(handled) : handled'[k] = handled[k]
      BY <2>2, <3>3, AppendProperties DEF ShapeOK
    <3>5. Waiting' = Waiting - 1
      BY <1>0, <2>1, <3>4 DEF Waiting
    <3>6. HandledInOrder'
      <4>1. \A k \in 1 .. Len(handled') : k \in 1 .. Len(handled) \/ k = Len(handled) + 1
        BY <1>0, <3>4
      <4>2. Len(handled') <= Len(posted')
        BY <1>0, <2>1, <3>1, <3>4
      <4> QED
        BY <2>1, <3>2, <3>4, <4>1, <4>2 DEF HandledInOrder
    <3>7. ASSUME NEW k \in 1 .. Waiting' PROVE inbox'[k] = posted'[Len(handled') + k]
      <4>1. k + 1 \in 1 .. Waiting /\ k \in 1 .. Len(inbox') /\ Len(handled) + (k + 1) = Len(handled') + k
        BY <1>0, <2>1, <2>2, <3>4, <3>5 DEF InboxRight
      <4>2. inbox[k + 1] = posted[Len(handled) + (k + 1)]
        BY <2>1, <4>1 DEF InboxRight
      <4> QED
        BY <2>1, <2>2, <4>1, <4>2
    <3>8. /\ Len(inbox') \in {Waiting', Waiting' + 1}
          /\ Len(inbox') = Waiting' <=> Len(inbox) = Waiting
          /\ Len(inbox') = Waiting' + 1 <=> Len(inbox) = Waiting + 1
      BY <1>0, <2>1, <2>2, <3>5 DEF InboxRight
    <3>9. Len(inbox') = Waiting' + 1 => main' = "join" /\ inbox'[Waiting' + 1] = QuitMessage
      <4> SUFFICES ASSUME Len(inbox') = Waiting' + 1
                   PROVE  main' = "join" /\ inbox'[Waiting' + 1] = QuitMessage
        OBVIOUS
      <4>1. main = "join" /\ inbox[Waiting + 1] = QuitMessage
        BY <2>1, <3>8 DEF InboxRight
      <4>2. Waiting' + 1 \in 1 .. Len(inbox') /\ (Waiting' + 1) + 1 = Waiting + 1
        BY <1>0, <2>4, <3>5
      <4> QED
        BY <2>1, <2>2, <4>1, <4>2
    <3>10. ~(Len(inbox) = Waiting /\ main = "join")
      BY <2>1 DEF InboxRight
    <3>11. InboxRight'
      <4>1. main \notin {"connect", "open"}
        BY <2>1 DEF PhasesRight, InSession
      <4>2. \A k \in 1 .. Waiting' : inbox'[k] = posted'[Len(handled') + k]
        BY <3>7
      <4>3. ~(Len(inbox') = Waiting' /\ main' = "join")
        BY <2>1, <3>8, <3>10
      <4> QED
        BY <2>1, <3>3, <3>8, <3>9, <4>1, <4>2, <4>3 DEF InboxRight
    <3> QED
      BY <2>1, <3>6, <3>11 DEF QuitLosesNothing, PhasesRight, InSession
  <2> QED
    BY <2>3, <2>4
<1>3. CASE HandlerReturns
  <2>1. UNCHANGED <<main, handler, inbox, channelError, posted, handled>> /\ thread = "handling"
    BY <1>3 DEF HandlerReturns
  <2> QED
    BY <2>1, <1>3 DEF HandlerReturns, InboxRight, HandledInOrder, QuitLosesNothing, Waiting
<1>4. CASE HandlerFails
  <2>1. UNCHANGED <<main, handler, inbox, posted, handled>> /\ thread' = "ended" /\ channelError'
    BY <1>4 DEF HandlerFails
  <2> QED
    BY <2>1 DEF InboxRight, HandledInOrder, QuitLosesNothing, Waiting
<1>5. CASE PostConnect
  <2>1. posted' = <<>> /\ handled' = <<>> /\ ~handler' /\ thread' = "none" /\ main' = "connect"
    BY <1>5 DEF PostConnect, PhasesRight, InSession, ShapeOK
  <2> QED
    BY <2>1, EmptySeq DEF InboxRight, HandledInOrder, QuitLosesNothing
<1>6. CASE OpenEx
  <2>1. /\ UNCHANGED <<handler, inbox, thread, posted, handled>> /\ main = "connect"
        /\ main' \in {"open", "loop"} /\ ~handler /\ thread = "none"
    BY <1>6 DEF OpenEx, PhasesRight, InSession, ShapeOK
  <2> QED
    BY <2>1 DEF InboxRight, HandledInOrder, QuitLosesNothing, Waiting
<1>7. CASE CreateHandler
  <2>1. /\ posted' = <<>> /\ handled' = <<>> /\ inbox' = <<>> /\ thread' = "wait" /\ main' = "loop"
    BY <1>7 DEF CreateHandler, InboxRight
  <2>2. Len(posted') = 0 /\ Len(handled') = 0 /\ Len(inbox') = 0 /\ Waiting' = 0
    BY <2>1, EmptySeq DEF Waiting
  <2> QED
    BY <2>1, <2>2 DEF InboxRight, HandledInOrder, QuitLosesNothing
<1>8. CASE QuitHandler
  <2>1. /\ UNCHANGED <<handler, thread, channelError, posted, handled>> /\ main = "quit" /\ main' = "join"
        /\ handler /\ inbox' = Append(inbox, QuitMessage)
    BY <1>8 DEF QuitHandler, PhasesRight, InSession
  <2>2. /\ Len(inbox') = Len(inbox) + 1 /\ inbox'[Len(inbox) + 1] = QuitMessage
        /\ \A k \in 1 .. Len(inbox) : inbox'[k] = inbox[k]
    BY <2>1, AppendProperties, EmptySeq DEF ShapeOK, QuitMessage
  <2>3. Len(inbox) = Waiting /\ Waiting' = Waiting /\ (thread = "ended" => channelError)
    BY <2>1 DEF InboxRight, Waiting
  <2>4. /\ Len(inbox') = Waiting' + 1 /\ Len(inbox') # Waiting' /\ inbox'[Waiting' + 1] = QuitMessage
        /\ \A k \in 1 .. Waiting' : inbox'[k] = posted'[Len(handled') + k]
    BY <1>0, <2>1, <2>2, <2>3 DEF InboxRight
  <2>5. InboxRight'
    BY <2>1, <2>3, <2>4 DEF InboxRight
  <2> QED
    BY <2>1, <2>5 DEF HandledInOrder, QuitLosesNothing
<1>9. CASE JoinHandler
  <2>1. /\ UNCHANGED <<channelError, posted, handled>> /\ main = "join" /\ main' = "close"
        /\ ~handler' /\ thread' = "none" /\ thread = "ended"
    BY <1>9 DEF JoinHandler, PhasesRight, InSession
  <2>2. ~channelError => handled = posted
    <3>1. ~channelError => Len(handled) = Len(posted)
      BY <1>0, <2>1 DEF InboxRight, Waiting
    <3> QED
      BY <3>1, SeqEqual DEF HandledInOrder, ShapeOK
  <2> QED
    BY <2>1, <2>2 DEF InboxRight, HandledInOrder, QuitLosesNothing
<1>10. CASE /\ UNCHANGED <<session, next, handler, dataIn, inbox, thread, channelError, posted, handled>>
            /\ main' \in {"connect", "open", "join", "close"} => main' = main
            /\ main = "join" => main' = main
  BY <1>10 DEF InboxRight, HandledInOrder, QuitLosesNothing, Waiting
<1> QED
  BY <1>1, <1>2, <1>3, <1>4, <1>5, <1>6, <1>7, <1>8, <1>9, <1>10, MessageSteps DEF PluginThread

----------------------------------------------------------------------------
(* The theorems *)

\* Everything the proofs rest on holds in every state.
THEOREM ChannelTheorem == Spec => []ChannelRight
<1>1. Init => ChannelRight
  BY ShapeInit, PhasesInit, SessionsInit, OrderInit, StreamInit, InboxInit DEF ChannelRight
<1>2. ChannelRight /\ [Next]_vars => ChannelRight'
  <2>1. ASSUME ChannelRight, Next PROVE ChannelRight'
    BY <2>1, ShapeStep, PhasesStep, SessionsStep, OrderStep, StreamStep, InboxStep DEF ChannelRight
  <2>2. ASSUME ChannelRight, UNCHANGED vars PROVE ChannelRight'
    <3> USE <2>2 DEF vars
    <3>1. ShapeOK'
      BY DEF ChannelRight, ShapeOK
    <3>2. PhasesRight' /\ SessionsRight' /\ SentInItsSession'
      BY DEF ChannelRight, PhasesRight, InSession, Closing, SessionsRight, SentInItsSession
    <3>3. OrderRight' /\ ReleasedInOrder'
      BY DEF ChannelRight, OrderRight, ReleasedInOrder
    <3>4. StreamRight' /\ MessagesWhole'
      BY StreamKept, WholeKept DEF ChannelRight
    <3>5. InboxRight' /\ HandledInOrder' /\ QuitLosesNothing'
      BY DEF ChannelRight, InboxRight, HandledInOrder, QuitLosesNothing, Waiting
    <3> QED
      BY <3>1, <3>2, <3>3, <3>4, <3>5 DEF ChannelRight
  <2> QED
    BY <2>1, <2>2
<1> QED
  BY <1>1, <1>2, PTL DEF Spec

\* A write that was accepted is released once, after the earlier ones of its thread, and to a plugin
\* that is still there (freerdp_channels_process_message, freerdp_channels_close).
THEOREM WritesTheorem == Spec => []StaticInv
<1>1. ChannelRight => StaticInv
  <2> SUFFICES ASSUME ChannelRight PROVE StaticInv
    OBVIOUS
  <2>1. ReleasedOnce /\ ReleasedInOrder
    BY OrderOnce DEF ChannelRight
  <2>2. NoEventAfterTerminated
    BY EmptySeq DEF ChannelRight, PhasesRight, NoEventAfterTerminated, InQueue
  <2>3. StaticTypeOK
    <3>1. \A i \in 1 .. Len(queue) : queue[i] \in Write \cup {Quit}
      BY WritesTyped DEF ChannelRight
    <3>2. \A i \in 1 .. Len(out) : out[i].write \in Write
      BY WritesTyped DEF ChannelRight
    <3>3. \A i \in 1 .. Len(dataIn) : dataIn[i] \in Chunk
      BY ElementOfSeq DEF ChannelRight, ShapeOK
    <3>4. \A i \in 1 .. Len(inbox) : inbox[i] \in Seq(Chunk)
      BY ElementOfSeq DEF ChannelRight, ShapeOK
    <3>5. \A i \in 1 .. Len(inbox) : \A j \in 1 .. Len(inbox[i]) : inbox[i][j] \in Chunk
      BY <3>4, ElementOfSeq
    <3>6. \A w \in Writers : writes[w] \in 0 .. MaxWrites(w)
      BY Bounds DEF ChannelRight, ShapeOK
    <3>7. {link, connected, handle, closed, openHandle, handler, channelError} \subseteq BOOLEAN
      BY Zenon DEF ChannelRight, ShapeOK
    <3> QED
      BY <3>1, <3>2, <3>3, <3>5, <3>6, <3>7 DEF ChannelRight, ShapeOK, StaticTypeOK, Start
  <2> QED
    BY <2>1, <2>2, <2>3 DEF StaticInv
<1> QED
  BY <1>1, ChannelTheorem, PTL

\* What was queued in one session is not sent in a later one (freerdp_channels_disconnect).
THEOREM SessionsTheorem == Spec => []SentInItsSession
<1>1. ChannelRight => SentInItsSession
  BY DEF ChannelRight
<1> QED
  BY <1>1, ChannelTheorem, PTL

\* The plugin is given whole messages, in order, and on an orderly disconnect all of them
\* (channel_client_post_message, channel_client_quit_handler).
THEOREM MessagesTheorem == Spec => []MessagesHandled
<1>1. ChannelRight => MessagesHandled
  BY DEF ChannelRight, MessagesHandled
<1> QED
  BY <1>1, ChannelTheorem, PTL

=============================================================================
