------------------------ MODULE ShadowMcEventProofs ------------------------
(***************************************************************************)
(* The life of a frame, for every finite set of clients.                   *)
(***************************************************************************)
EXTENDS ShadowMcEvent, FiniteSetTheorems, TLAPS

\* Clients that wait in Consume for the others.
Waiters == {c \in Clients : client[c] \in {"barrier", "woken"}}

\* The counters count what they are meant to count.
CountersRight ==
    /\ consuming = Cardinality(owes)
    /\ waiting = Cardinality(Waiters)

\* Subscribers are the clients between get_subscriber and release_subscriber.
SubscribersRight == subscribers = {c \in Clients : client[c] # "out"}

\* While the event is set, the clients that do not wait are those that owe the frame.
OwersRight ==
    /\ \A c \in owes : client[c] \in {"loop", "handle"} /\ pleaseHandle[c]
    /\ \A c \in Clients : client[c] = "handle" => c \in owes
    /\ owes # {} => \A c \in Clients : client[c] = "loop" => c \in owes

\* What each of the three events means, and what the server waits for.
EventsRight ==
    /\ event <=> owes # {}
    /\ barrierEvent <=> owes = {} /\ Waiters # {}
    /\ doneEvent <=> owes = {} /\ Waiters = {}
    /\ \A c \in Clients : client[c] = "woken" => owes = {}
    /\ publisher # "wait" => owes = {} /\ Waiters = {}

FrameInv ==
    McEventTypeOK /\ CountersRight /\ SubscribersRight /\ OwersRight /\ EventsRight

\* What the proofs use of cardinality, for the sets of clients the two counters count.
LEMMA ClientSets ==
    ASSUME NEW S, S \subseteq Clients
    PROVE  /\ Cardinality(S) \in Nat
           /\ Cardinality(S) = 0 <=> S = {}
           /\ \A c \in Clients \ S : Cardinality(S \cup {c}) = Cardinality(S) + 1
           /\ \A c \in S : Cardinality(S \ {c}) = Cardinality(S) - 1
<1>1. IsFiniteSet(S)
  BY ClientsFinite, FS_Subset
<1>2. Cardinality(S) \in Nat
  BY <1>1, FS_CardinalityType
<1>3. Cardinality(S) = 0 <=> S = {}
  BY <1>1, FS_EmptySet
<1>4. \A c \in Clients \ S : Cardinality(S \cup {c}) = Cardinality(S) + 1
  BY <1>1, FS_AddElement
<1>5. \A c \in S : Cardinality(S \ {c}) = Cardinality(S) - 1
  BY <1>1, FS_RemoveElement
<1> QED
  BY <1>2, <1>3, <1>4, <1>5

\* The tests the code makes of the counters, in terms of the sets they count.
LEMMA CounterTests ==
    ASSUME FrameInv
    PROVE  /\ owes \subseteq Clients /\ Waiters \subseteq Clients
           /\ consuming = 0 <=> owes = {}
           /\ waiting = 0 <=> Waiters = {}
           /\ waiting > 0 <=> Waiters # {}
<1>1. owes \subseteq Clients /\ Waiters \subseteq Clients
  BY DEF FrameInv, McEventTypeOK, Waiters
<1>2. consuming = 0 <=> owes = {}
  BY <1>1, ClientSets DEF FrameInv, CountersRight
<1>3. waiting \in Nat /\ (waiting = 0 <=> Waiters = {})
  BY <1>1, ClientSets DEF FrameInv, CountersRight
<1> QED
  BY <1>1, <1>2, <1>3

\* A subscriber that does not wait consumes its share exactly when it owes it.
LEMMA ShareIsOwed ==
    ASSUME FrameInv, NEW c \in Clients, client[c] \in {"loop", "handle"}
    PROVE  Expected(c, pleaseHandle[c]) <=> c \in owes
BY DEF FrameInv, OwersRight, EventsRight, Expected

\* shadow_multiclient_new establishes the invariant.
LEMMA FrameInit == Init => FrameInv
<1> SUFFICES ASSUME Init PROVE FrameInv
  OBVIOUS
<1>1. Waiters = {} /\ owes = {}
  BY DEF Init, Waiters
<1>2. Cardinality({}) = 0
  BY FS_EmptySet
<1>3. McEventTypeOK
  BY DEF Init, McEventTypeOK
<1>4. CountersRight
  BY <1>1, <1>2 DEF Init, CountersRight
<1>5. SubscribersRight /\ OwersRight
  BY DEF Init, SubscribersRight, OwersRight
<1>6. EventsRight
  BY <1>1 DEF Init, EventsRight
<1> QED
  BY <1>3, <1>4, <1>5, <1>6 DEF FrameInv

\* The invariant gives the life of a frame.
LEMMA FrameGivesMcEventInv == FrameInv => McEventInv
<1> SUFFICES ASSUME FrameInv PROVE McEventInv
  OBVIOUS
<1>1. ConsumingIsOwed
  BY CounterTests DEF FrameInv, CountersRight, EventsRight, ConsumingIsOwed
<1>2. FrameStable
  BY DEF FrameInv, OwersRight, EventsRight, FrameStable
<1>3. SharesConsumedOnce
  BY ShareIsOwed DEF SharesConsumedOnce
<1>4. FrameOver
  BY CounterTests DEF FrameInv, EventsRight, FrameOver
<1> QED
  BY <1>1, <1>2, <1>3, <1>4 DEF FrameInv, McEventInv

\* The server publishes a frame: every subscriber is in its loop and owes it.
LEMMA FramePublish == FrameInv /\ Publish => FrameInv'
<1> SUFFICES ASSUME FrameInv, Publish PROVE FrameInv'
  OBVIOUS
<1>1. owes = {} /\ Waiters = {} /\ consuming = 0
  BY CounterTests DEF FrameInv, EventsRight, Publish
<1>2. /\ subscribers \subseteq Clients
      /\ \A c \in Clients : client[c] \in {"out", "loop"}
      /\ \A c \in Clients : c \in subscribers <=> client[c] = "loop"
  BY <1>1 DEF FrameInv, McEventTypeOK, SubscribersRight, OwersRight, Waiters
<1>3. Cardinality(subscribers) \in Nat /\ (Cardinality(subscribers) = 0 <=> subscribers = {})
  BY <1>2, ClientSets
<1>4. owes' = subscribers /\ consuming' = Cardinality(subscribers)
  BY <1>1, <1>3 DEF Publish
<1>5. Waiters' = {} /\ waiting' = waiting /\ client' = client /\ subscribers' = subscribers
  BY <1>1 DEF Publish, Waiters
<1>6. consuming' > 0 <=> subscribers # {}
  BY <1>3, <1>4
<1>7. /\ event' <=> subscribers # {}
      /\ doneEvent' <=> subscribers = {}
      /\ barrierEvent' = FALSE
      /\ publisher' \in {"idle", "wait"} /\ (publisher' = "idle" => subscribers = {})
  BY <1>1, <1>6 DEF FrameInv, EventsRight, McEventTypeOK, Publish
<1>8. /\ event' \in BOOLEAN /\ doneEvent' \in BOOLEAN
      /\ pleaseHandle' = [c \in Clients |-> pleaseHandle[c] \/ c \in subscribers]
  BY <1>6 DEF FrameInv, McEventTypeOK, Publish
<1>9. McEventTypeOK'
  BY <1>3, <1>4, <1>5, <1>7, <1>8 DEF FrameInv, McEventTypeOK
<1>10. CountersRight'
  BY <1>1, <1>4, <1>5 DEF FrameInv, CountersRight
<1>11. SubscribersRight'
  BY <1>5 DEF FrameInv, SubscribersRight
<1>12. OwersRight'
  BY <1>2, <1>4, <1>5, <1>8 DEF OwersRight
<1>13. EventsRight'
  BY <1>2, <1>4, <1>5, <1>7 DEF EventsRight
<1> QED
  BY <1>9, <1>10, <1>11, <1>12, <1>13 DEF FrameInv

\* The server wakes up and takes the lock: only when the frame is over.
LEMMA FramePublisher == FrameInv /\ PublisherStep => FrameInv'
<1> SUFFICES ASSUME FrameInv, PublisherStep PROVE FrameInv'
  OBVIOUS
<1>1. UNCHANGED <<shared, client>> /\ publisher' \in {"idle", "woken"} /\ Waiters' = Waiters
  BY DEF PublisherStep, PublisherWoken, PublisherContinues, Waiters
<1>2. owes = {} /\ Waiters = {}
  BY DEF FrameInv, EventsRight, PublisherStep, PublisherWoken, PublisherContinues
<1>3. McEventTypeOK'
  BY <1>1 DEF FrameInv, McEventTypeOK, shared
<1>4. CountersRight' /\ SubscribersRight' /\ OwersRight'
  BY <1>1 DEF FrameInv, CountersRight, SubscribersRight, OwersRight, shared
<1>5. EventsRight'
  BY <1>1, <1>2 DEF FrameInv, EventsRight, shared
<1> QED
  BY <1>3, <1>4, <1>5 DEF FrameInv

\* A client sees the event: it owes the frame.
LEMMA FrameSee == \A c \in Clients : FrameInv /\ SeeFrame(c) => FrameInv'
<1> SUFFICES ASSUME NEW c \in Clients, FrameInv, SeeFrame(c) PROVE FrameInv'
  OBVIOUS
<1>1. /\ UNCHANGED <<shared, publisher>>
      /\ client[c] = "loop" /\ client' = [client EXCEPT ![c] = "handle"] /\ c \in owes
  BY DEF FrameInv, OwersRight, EventsRight, SeeFrame
<1>2. Waiters' = Waiters
  BY <1>1 DEF FrameInv, McEventTypeOK, Waiters
<1>3. McEventTypeOK'
  BY <1>1 DEF FrameInv, McEventTypeOK, shared
<1>4. CountersRight'
  BY <1>1, <1>2 DEF FrameInv, CountersRight, shared
<1>5. SubscribersRight'
  BY <1>1 DEF FrameInv, McEventTypeOK, SubscribersRight, shared
<1>6. OwersRight'
  BY <1>1 DEF FrameInv, McEventTypeOK, OwersRight, shared
<1>7. EventsRight'
  BY <1>1, <1>2 DEF FrameInv, McEventTypeOK, EventsRight, shared
<1> QED
  BY <1>3, <1>4, <1>5, <1>6, <1>7 DEF FrameInv

\* A waiting client passes the barrier, which is open only when nobody owes the frame.
LEMMA FrameBarrier == \A c \in Clients : FrameInv /\ BarrierPassed(c) => FrameInv'
<1> SUFFICES ASSUME NEW c \in Clients, FrameInv, BarrierPassed(c) PROVE FrameInv'
  OBVIOUS
<1>1. /\ UNCHANGED <<shared, publisher>>
      /\ client[c] = "barrier" /\ client' = [client EXCEPT ![c] = "woken"] /\ owes = {}
  BY DEF FrameInv, EventsRight, BarrierPassed
<1>2. Waiters' = Waiters
  BY <1>1 DEF FrameInv, McEventTypeOK, Waiters
<1>3. McEventTypeOK'
  BY <1>1 DEF FrameInv, McEventTypeOK, shared
<1>4. CountersRight'
  BY <1>1, <1>2 DEF FrameInv, CountersRight, shared
<1>5. SubscribersRight'
  BY <1>1 DEF FrameInv, McEventTypeOK, SubscribersRight, shared
<1>6. OwersRight'
  BY <1>1 DEF FrameInv, McEventTypeOK, OwersRight, shared
<1>7. EventsRight'
  BY <1>1, <1>2 DEF FrameInv, McEventTypeOK, EventsRight, shared
<1> QED
  BY <1>3, <1>4, <1>5, <1>6, <1>7 DEF FrameInv

\* A client continues behind the barrier: the last one closes it and tells the server.
LEMMA FrameContinue == \A c \in Clients : FrameInv /\ Continue(c) => FrameInv'
<1> SUFFICES ASSUME NEW c \in Clients, FrameInv, Continue(c) PROVE FrameInv'
  OBVIOUS
<1>1. /\ client[c] = "woken" /\ client' = [client EXCEPT ![c] = "loop"] /\ owes = {}
      /\ UNCHANGED <<event, subscribers, consuming, pleaseHandle, owes, publisher>>
      /\ waiting' = waiting - 1
  BY DEF FrameInv, EventsRight, Continue
<1>2. c \in Waiters /\ Waiters' = Waiters \ {c}
  BY <1>1 DEF FrameInv, McEventTypeOK, Waiters
<1>3. waiting' = Cardinality(Waiters') /\ waiting' \in Nat /\ (waiting' = 0 <=> Waiters' = {})
  <2>1. Waiters \subseteq Clients /\ Waiters \ {c} \subseteq Clients
    BY CounterTests
  <2>2. Cardinality(Waiters \ {c}) = waiting - 1
    BY <1>2, <2>1, ClientSets DEF FrameInv, CountersRight
  <2>3. Cardinality(Waiters \ {c}) \in Nat /\ (Cardinality(Waiters \ {c}) = 0 <=> Waiters \ {c} = {})
    BY <2>1, ClientSets
  <2> QED
    BY <1>1, <1>2, <2>2, <2>3
<1>4. waiting' > 0 <=> Waiters' # {}
  BY <1>3
<1>5. barrierEvent = TRUE /\ doneEvent = FALSE /\ publisher = "wait"
  BY <1>1, <1>2 DEF FrameInv, EventsRight, McEventTypeOK
<1>6. /\ barrierEvent' \in BOOLEAN /\ doneEvent' \in BOOLEAN
      /\ barrierEvent' <=> Waiters' # {}
      /\ doneEvent' <=> Waiters' = {}
  BY <1>3, <1>4, <1>5 DEF Continue
<1>7. McEventTypeOK'
  BY <1>1, <1>3, <1>6 DEF FrameInv, McEventTypeOK
<1>8. CountersRight'
  BY <1>1, <1>3 DEF FrameInv, CountersRight
<1>9. SubscribersRight'
  BY <1>1 DEF FrameInv, McEventTypeOK, SubscribersRight
<1>10. OwersRight'
  BY <1>1 DEF FrameInv, McEventTypeOK, OwersRight
<1>11. EventsRight'
  BY <1>1, <1>5, <1>6 DEF FrameInv, McEventTypeOK, EventsRight
<1> QED
  BY <1>7, <1>8, <1>9, <1>10, <1>11 DEF FrameInv

\* A client that owes its share consumes it: the last one ends the frame and wakes the clients
\* that wait or, without such clients, the server; another one may wait.
LEMMA ConsumeShare ==
    ASSUME FrameInv, NEW c \in Clients, NEW wait \in BOOLEAN, c \in owes,
           Consume(c, pleaseHandle[c], wait)
    PROVE  /\ owes' = owes \ {c} /\ consuming' = Cardinality(owes') /\ consuming' \in Nat
           /\ consuming' = 0 <=> owes' = {}
           /\ waiting' = IF owes' # {} /\ wait THEN waiting + 1 ELSE waiting
           /\ event' = (owes' # {})
           /\ barrierEvent' = (owes' = {} /\ Waiters # {})
           /\ doneEvent' = (owes' = {} /\ Waiters = {})
<1>1. Expected(c, pleaseHandle[c])
  BY DEF FrameInv, OwersRight, EventsRight, Expected
<1>2. owes' = owes \ {c} /\ consuming' = consuming - 1
  BY <1>1 DEF Consume
<1>3. owes \subseteq Clients /\ owes \ {c} \subseteq Clients
  BY CounterTests
<1>4. Cardinality(owes \ {c}) = consuming - 1
  BY <1>3, ClientSets DEF FrameInv, CountersRight
<1>5. consuming' = Cardinality(owes') /\ consuming' \in Nat /\ (consuming' = 0 <=> owes' = {})
  BY <1>2, <1>3, <1>4, ClientSets
<1>6. event = TRUE /\ barrierEvent = FALSE /\ doneEvent = FALSE
  BY DEF FrameInv, EventsRight, McEventTypeOK
<1>7. CASE owes' = {}
  <2>1. consuming - 1 = 0
    BY <1>2, <1>5, <1>7
  <2>2. event' = FALSE /\ waiting' = waiting
        /\ barrierEvent' = (waiting > 0) /\ doneEvent' = (waiting = 0)
    BY <1>1, <1>6, <2>1 DEF Consume
  <2>3. barrierEvent' = (Waiters # {}) /\ doneEvent' = (Waiters = {})
    BY <2>2, CounterTests
  <2> QED
    BY <1>2, <1>5, <1>7, <2>2, <2>3
<1>8. CASE owes' # {}
  <2>1. consuming - 1 # 0
    BY <1>2, <1>5, <1>8
  <2>2. event' = TRUE /\ barrierEvent' = FALSE /\ doneEvent' = FALSE
        /\ waiting' = IF wait THEN waiting + 1 ELSE waiting
    BY <1>1, <1>6, <2>1 DEF Consume
  <2> QED
    BY <1>2, <1>5, <1>8, <2>2
<1> QED
  BY <1>7, <1>8

\* A client that owes nothing changes nothing but, when it waits in the middle of a frame, the
\* number of those that wait.
LEMMA ConsumeNothing ==
    ASSUME FrameInv, NEW c \in Clients, NEW flag \in BOOLEAN, NEW wait \in BOOLEAN,
           ~Expected(c, flag), Consume(c, flag, wait)
    PROVE  /\ UNCHANGED <<owes, consuming, event, barrierEvent, doneEvent>>
           /\ waiting' = IF owes # {} /\ wait THEN waiting + 1 ELSE waiting
<1>1. owes' = owes /\ consuming' = consuming
  BY DEF Consume
<1>2. CASE owes = {}
  <2>1. consuming = 0 /\ (waiting > 0 <=> Waiters # {}) /\ (waiting = 0 <=> Waiters = {})
    BY <1>2, CounterTests
  <2>2. event = FALSE /\ barrierEvent = (Waiters # {}) /\ doneEvent = (Waiters = {})
    BY <1>2 DEF FrameInv, EventsRight, McEventTypeOK
  <2>3. event' = FALSE /\ waiting' = waiting
        /\ barrierEvent' = (barrierEvent \/ waiting > 0) /\ doneEvent' = (doneEvent \/ waiting = 0)
    BY <2>1 DEF Consume
  <2> QED
    BY <1>1, <1>2, <2>1, <2>2, <2>3
<1>3. CASE owes # {}
  <2>1. consuming # 0
    BY <1>3, CounterTests
  <2>2. UNCHANGED <<event, barrierEvent, doneEvent>>
        /\ waiting' = IF wait THEN waiting + 1 ELSE waiting
    BY <2>1 DEF Consume
  <2> QED
    BY <1>1, <1>3, <2>2
<1> QED
  BY <1>2, <1>3

\* Counting a client that starts to wait.
LEMMA OneMoreWaiter ==
    ASSUME FrameInv, NEW c \in Clients, c \notin Waiters,
           Waiters' = Waiters \cup {c}, waiting' = waiting + 1
    PROVE  waiting' = Cardinality(Waiters') /\ waiting' \in Nat
<1>1. Waiters \subseteq Clients /\ c \in Clients \ Waiters
  BY CounterTests
<1>2. Cardinality(Waiters \cup {c}) = Cardinality(Waiters) + 1
  BY <1>1, ClientSets
<1> QED
  BY <1>2 DEF FrameInv, McEventTypeOK, CountersRight

\* A client that connects: in the middle of a frame it waits for the end of it.
LEMMA FrameGetSubscriber == \A c \in Clients : FrameInv /\ GetSubscriber(c) => FrameInv'
<1> SUFFICES ASSUME NEW c \in Clients, FrameInv, GetSubscriber(c) PROVE FrameInv'
  OBVIOUS
<1>1. /\ client[c] = "out" /\ UNCHANGED publisher
      /\ subscribers' = subscribers \cup {c}
      /\ pleaseHandle' = [pleaseHandle EXCEPT ![c] = FALSE]
      /\ Consume(c, FALSE, TRUE) /\ ~Expected(c, FALSE)
  BY DEF GetSubscriber, Expected
<1>2. /\ UNCHANGED <<owes, consuming, event, barrierEvent, doneEvent>>
      /\ waiting' = IF owes # {} THEN waiting + 1 ELSE waiting
  BY <1>1, ConsumeNothing
<1>3. client' = [client EXCEPT ![c] = IF owes = {} THEN "loop" ELSE "barrier"]
  BY <1>2, CounterTests DEF GetSubscriber, AfterConsume
<1>4. c \notin owes /\ c \notin Waiters
  BY <1>1 DEF FrameInv, OwersRight, Waiters
<1>5. CASE owes = {}
  <2>1. Waiters' = Waiters /\ waiting' = waiting
    BY <1>1, <1>2, <1>3, <1>5 DEF FrameInv, McEventTypeOK, Waiters
  <2>2. McEventTypeOK'
    BY <1>1, <1>2, <1>3, <1>5, <2>1 DEF FrameInv, McEventTypeOK
  <2>3. CountersRight'
    BY <1>2, <2>1 DEF FrameInv, CountersRight
  <2>4. SubscribersRight'
    BY <1>1, <1>3, <1>5 DEF FrameInv, McEventTypeOK, SubscribersRight
  <2>5. OwersRight'
    BY <1>2, <1>3, <1>5 DEF FrameInv, McEventTypeOK, OwersRight
  <2>6. EventsRight'
    BY <1>1, <1>2, <1>3, <1>5, <2>1 DEF FrameInv, McEventTypeOK, EventsRight
  <2> QED
    BY <2>2, <2>3, <2>4, <2>5, <2>6 DEF FrameInv
<1>6. CASE owes # {}
  <2>1. Waiters' = Waiters \cup {c} /\ waiting' = waiting + 1
    BY <1>1, <1>2, <1>3, <1>6 DEF FrameInv, McEventTypeOK, Waiters
  <2>2. waiting' = Cardinality(Waiters') /\ waiting' \in Nat
    BY <1>4, <2>1, OneMoreWaiter
  <2>3. McEventTypeOK'
    BY <1>1, <1>2, <1>3, <1>6, <2>2 DEF FrameInv, McEventTypeOK
  <2>4. CountersRight'
    BY <1>2, <2>2 DEF FrameInv, CountersRight
  <2>5. SubscribersRight'
    BY <1>1, <1>3, <1>6 DEF FrameInv, McEventTypeOK, SubscribersRight
  <2>6. OwersRight'
    BY <1>1, <1>2, <1>3, <1>4, <1>6 DEF FrameInv, McEventTypeOK, OwersRight
  <2>7. EventsRight'
    BY <1>1, <1>2, <1>3, <1>6 DEF FrameInv, McEventTypeOK, EventsRight
  <2> QED
    BY <2>3, <2>4, <2>5, <2>6, <2>7 DEF FrameInv
<1> QED
  BY <1>5, <1>6

\* A client has sent the frame: unless it is the last one, it waits for the others.
LEMMA FrameConsumed == \A c \in Clients : FrameInv /\ FrameSent(c) => FrameInv'
<1> SUFFICES ASSUME NEW c \in Clients, FrameInv, FrameSent(c) PROVE FrameInv'
  OBVIOUS
<1>1. /\ client[c] = "handle" /\ c \in owes /\ c \notin Waiters /\ publisher = "wait"
      /\ UNCHANGED <<subscribers, pleaseHandle, publisher>>
      /\ Consume(c, pleaseHandle[c], TRUE)
  BY DEF FrameInv, OwersRight, EventsRight, Waiters, FrameSent
<1>2. /\ owes' = owes \ {c} /\ consuming' = Cardinality(owes') /\ consuming' \in Nat
      /\ consuming' = 0 <=> owes' = {}
      /\ waiting' = IF owes' # {} THEN waiting + 1 ELSE waiting
      /\ event' = (owes' # {})
      /\ barrierEvent' = (owes' = {} /\ Waiters # {})
      /\ doneEvent' = (owes' = {} /\ Waiters = {})
  BY <1>1, ConsumeShare
<1>3. client' = [client EXCEPT ![c] = IF owes' = {} THEN "loop" ELSE "barrier"]
  BY <1>2 DEF FrameSent, AfterConsume
<1>4. CASE owes' = {}
  <2>1. Waiters' = Waiters /\ waiting' = waiting
    BY <1>1, <1>2, <1>3, <1>4 DEF FrameInv, McEventTypeOK, Waiters
  <2>2. McEventTypeOK'
    BY <1>1, <1>2, <1>3, <1>4, <2>1 DEF FrameInv, McEventTypeOK
  <2>3. CountersRight'
    BY <1>2, <2>1 DEF FrameInv, CountersRight
  <2>4. SubscribersRight'
    BY <1>1, <1>3, <1>4 DEF FrameInv, McEventTypeOK, SubscribersRight
  <2>5. OwersRight'
    BY <1>1, <1>2, <1>3, <1>4 DEF FrameInv, McEventTypeOK, OwersRight
  <2>6. EventsRight'
    BY <1>1, <1>2, <1>4, <2>1 DEF EventsRight
  <2> QED
    BY <2>2, <2>3, <2>4, <2>5, <2>6 DEF FrameInv
<1>5. CASE owes' # {}
  <2>1. Waiters' = Waiters \cup {c} /\ waiting' = waiting + 1
    BY <1>1, <1>2, <1>3, <1>5 DEF FrameInv, McEventTypeOK, Waiters
  <2>2. waiting' = Cardinality(Waiters') /\ waiting' \in Nat
    BY <1>1, <2>1, OneMoreWaiter
  <2>3. McEventTypeOK'
    BY <1>1, <1>2, <1>3, <1>5, <2>2 DEF FrameInv, McEventTypeOK
  <2>4. CountersRight'
    BY <1>2, <2>2 DEF CountersRight
  <2>5. SubscribersRight'
    BY <1>1, <1>3, <1>5 DEF FrameInv, McEventTypeOK, SubscribersRight
  <2>6. OwersRight'
    BY <1>1, <1>2, <1>3, <1>5 DEF FrameInv, McEventTypeOK, OwersRight
  <2>7. EventsRight'
    BY <1>1, <1>2, <1>3, <1>5 DEF FrameInv, McEventTypeOK, EventsRight
  <2> QED
    BY <2>3, <2>4, <2>5, <2>6, <2>7 DEF FrameInv
<1> QED
  BY <1>4, <1>5

\* A client leaves, with its share of the frame or without one.
LEMMA FrameRelease == \A c \in Clients : FrameInv /\ Release(c) => FrameInv'
<1> SUFFICES ASSUME NEW c \in Clients, FrameInv, Release(c) PROVE FrameInv'
  OBVIOUS
<1>1. /\ client[c] \in {"loop", "handle"} /\ c \notin Waiters
      /\ subscribers' = subscribers \ {c}
      /\ client' = [client EXCEPT ![c] = "out"]
      /\ UNCHANGED <<pleaseHandle, publisher>>
      /\ Consume(c, pleaseHandle[c], FALSE)
      /\ pleaseHandle[c] \in BOOLEAN
  BY DEF FrameInv, McEventTypeOK, Waiters, Release
<1>2. Waiters' = Waiters
  BY <1>1 DEF FrameInv, McEventTypeOK, Waiters
<1>3. SubscribersRight'
  BY <1>1 DEF FrameInv, McEventTypeOK, SubscribersRight
<1>4. CASE c \in owes
  <2>1. /\ owes' = owes \ {c} /\ consuming' = Cardinality(owes') /\ consuming' \in Nat
        /\ waiting' = waiting
        /\ event' = (owes' # {})
        /\ barrierEvent' = (owes' = {} /\ Waiters # {})
        /\ doneEvent' = (owes' = {} /\ Waiters = {})
    BY <1>1, <1>4, ConsumeShare
  <2>2. publisher = "wait" /\ \A d \in Clients : client[d] # "woken"
    BY <1>4 DEF FrameInv, McEventTypeOK, EventsRight
  <2>3. McEventTypeOK'
    BY <1>1, <2>1 DEF FrameInv, McEventTypeOK
  <2>4. CountersRight'
    BY <1>2, <2>1 DEF FrameInv, CountersRight
  <2>5. OwersRight'
    BY <1>1, <1>4, <2>1 DEF FrameInv, McEventTypeOK, OwersRight
  <2>6. EventsRight'
    BY <1>1, <1>2, <2>1, <2>2 DEF FrameInv, McEventTypeOK, EventsRight
  <2> QED
    BY <1>3, <2>3, <2>4, <2>5, <2>6 DEF FrameInv
<1>5. CASE c \notin owes
  <2>1. owes = {}
    BY <1>1, <1>5 DEF FrameInv, OwersRight
  <2>2. UNCHANGED <<owes, consuming, event, barrierEvent, doneEvent, waiting>>
    BY <1>1, <1>5, <2>1, ShareIsOwed, ConsumeNothing
  <2>3. McEventTypeOK'
    BY <1>1, <2>1, <2>2 DEF FrameInv, McEventTypeOK
  <2>4. CountersRight'
    BY <1>2, <2>2 DEF FrameInv, CountersRight
  <2>5. OwersRight'
    BY <1>1, <2>1, <2>2 DEF FrameInv, McEventTypeOK, OwersRight
  <2>6. EventsRight'
    BY <1>1, <1>2, <2>1, <2>2 DEF FrameInv, McEventTypeOK, EventsRight
  <2> QED
    BY <1>3, <2>3, <2>4, <2>5, <2>6 DEF FrameInv
<1> QED
  BY <1>4, <1>5

\* A step that changes nothing.
LEMMA FrameStutter == FrameInv /\ UNCHANGED vars => FrameInv'
BY DEF FrameInv, McEventTypeOK, CountersRight, SubscribersRight, OwersRight, EventsRight, Waiters,
       vars, shared

\* However many clients the shadow server has, and whenever they come and go: the counter of a
\* frame counts the clients that still owe it, the frame is not replaced while one of them sends
\* it, no client consumes it twice, and the server continues only when all are done with it
\* (shadow_mcevent.c).
THEOREM McEventCorrect == Spec => []McEventInv
<1>1. FrameInv /\ [Next]_vars => FrameInv'
  BY FramePublish, FramePublisher, FrameSee, FrameBarrier, FrameContinue, FrameGetSubscriber,
     FrameConsumed, FrameRelease, FrameStutter DEF Next, ClientStep
<1> QED
  BY <1>1, FrameInit, FrameGivesMcEventInv, PTL DEF Spec

=============================================================================
