---------------------------- MODULE ShadowMcEvent ----------------------------
(***************************************************************************)
(* The multi-client event of the shadow server                             *)
(* (server/shadow/shadow_mcevent.c): the subsystem's thread publishes a    *)
(* new frame to all clients and waits until each of them has sent it; the  *)
(* client threads (shadow_client.c) subscribe, consume and release.        *)
(* What happens between taking and leaving the lock is one step, the       *)
(* waits for the three events happen outside of it.                        *)
(***************************************************************************)
EXTENDS Integers, FiniteSets

CONSTANT Clients

ASSUME ClientsFinite == IsFiniteSet(Clients)

VARIABLES event, barrierEvent, doneEvent,       \* the three manual-reset events
          subscribers, consuming, waiting,      \* fields of rdp_shadow_multiclient_event
          pleaseHandle,                         \* of the subscribers
          publisher,                            \* where the subsystem's thread is
          client,                               \* where each client thread is
          owes                                  \* clients whose share of the frame is open

shared == <<event, barrierEvent, doneEvent, subscribers, consuming, waiting, pleaseHandle, owes>>
vars == <<shared, publisher, client>>

McEventTypeOK ==
    /\ event \in BOOLEAN /\ barrierEvent \in BOOLEAN /\ doneEvent \in BOOLEAN
    /\ subscribers \subseteq Clients /\ owes \subseteq subscribers
    /\ consuming \in Nat /\ waiting \in Nat
    /\ pleaseHandle \in [Clients -> BOOLEAN]
    /\ publisher \in {"idle", "wait", "woken"}
    /\ client \in [Clients -> {"out", "loop", "handle", "barrier", "woken"}]

\* shadow_multiclient_new
Init ==
    /\ event = FALSE /\ barrierEvent = FALSE /\ doneEvent = TRUE
    /\ subscribers = {} /\ consuming = 0 /\ waiting = 0 /\ owes = {}
    /\ pleaseHandle = [c \in Clients |-> FALSE]
    /\ publisher = "idle" /\ client = [c \in Clients |-> "out"]

\* shadow_multiclient_publish_and_wait, up to the wait: every subscriber is asked to handle the
\* frame; without subscribers there is nothing to wait for.
Publish ==
    /\ publisher = "idle"
    /\ pleaseHandle' = [c \in Clients |-> pleaseHandle[c] \/ c \in subscribers]
    /\ owes' = subscribers
    /\ consuming' = consuming + Cardinality(subscribers)
    /\ IF consuming' > 0
       THEN doneEvent' = FALSE /\ event' = TRUE /\ publisher' = "wait"
       ELSE UNCHANGED <<doneEvent, event, publisher>>
    /\ UNCHANGED <<barrierEvent, subscribers, waiting, client>>

\* WaitForSubscribers: the wait for doneEvent ...
PublisherWoken ==
    /\ publisher = "wait" /\ doneEvent
    /\ publisher' = "woken"
    /\ UNCHANGED <<shared, client>>

\* ... and the lock after it.
PublisherContinues ==
    /\ publisher = "woken"
    /\ publisher' = "idle"
    /\ UNCHANGED <<shared, client>>

\* Whether the server expects the client's handling in this turn.
Expected(c, flag) == event /\ flag

\* Mutant: the event stays set.
ConsumeKeepsEvent(c, flag, wait) ==
    LET left == IF Expected(c, flag) THEN consuming - 1 ELSE consuming
    IN /\ consuming' = left
       /\ owes' = IF Expected(c, flag) THEN owes \ {c} ELSE owes
       /\ IF left = 0
          THEN /\ barrierEvent' = (barrierEvent \/ waiting > 0)
               /\ doneEvent' = (doneEvent \/ waiting = 0)
               /\ UNCHANGED <<event, waiting>>
          ELSE /\ waiting' = IF wait THEN waiting + 1 ELSE waiting
               /\ UNCHANGED <<event, barrierEvent, doneEvent>>

\* Consume up to the wait for the other clients: the last one ends the frame, and wakes the
\* clients that wait or, without such clients, the server.
Consume(c, flag, wait) ==
    LET left == IF Expected(c, flag) THEN consuming - 1 ELSE consuming
    IN /\ consuming' = left
       /\ owes' = IF Expected(c, flag) THEN owes \ {c} ELSE owes
       /\ IF left = 0
          THEN /\ event' = FALSE
               /\ barrierEvent' = (barrierEvent \/ waiting > 0)
               /\ doneEvent' = (doneEvent \/ waiting = 0)
               /\ waiting' = waiting
          ELSE /\ waiting' = IF wait THEN waiting + 1 ELSE waiting
               /\ UNCHANGED <<event, barrierEvent, doneEvent>>

\* Where a client is after Consume(subscriber, TRUE).
AfterConsume(c) ==
    client' = [client EXCEPT ![c] = IF consuming' = 0 THEN "loop" ELSE "barrier"]

\* shadow_multiclient_get_subscriber, by a client that connects, maybe in the middle of a frame.
GetSubscriber(c) ==
    /\ client[c] = "out"
    /\ subscribers' = subscribers \cup {c}
    /\ pleaseHandle' = [pleaseHandle EXCEPT ![c] = FALSE]
    /\ Consume(c, FALSE, TRUE)
    /\ AfterConsume(c)
    /\ UNCHANGED publisher

\* The loop of shadow_client_thread finds the event set and sends the frame ...
SeeFrame(c) ==
    /\ client[c] = "loop" /\ event
    /\ client' = [client EXCEPT ![c] = "handle"]
    /\ UNCHANGED <<shared, publisher>>

\* ... and consumes it: shadow_multiclient_consume.
FrameSent(c) ==
    /\ client[c] = "handle"
    /\ Consume(c, pleaseHandle[c], TRUE)
    /\ AfterConsume(c)
    /\ UNCHANGED <<subscribers, pleaseHandle, publisher>>

\* The wait for barrierEvent ...
BarrierPassed(c) ==
    /\ client[c] = "barrier" /\ barrierEvent
    /\ client' = [client EXCEPT ![c] = "woken"]
    /\ UNCHANGED <<shared, publisher>>

\* Mutant: nobody tells the server.
ContinueSilent(c) ==
    /\ client[c] = "woken"
    /\ waiting' = waiting - 1
    /\ barrierEvent' = (barrierEvent /\ waiting' > 0)
    /\ client' = [client EXCEPT ![c] = "loop"]
    /\ UNCHANGED <<event, doneEvent, subscribers, consuming, pleaseHandle, owes, publisher>>

\* ... and the rest of Consume under the lock: the last client to pass closes the barrier and
\* tells the server.
Continue(c) ==
    /\ client[c] = "woken"
    /\ waiting' = waiting - 1
    /\ barrierEvent' = (barrierEvent /\ waiting' > 0)
    /\ doneEvent' = (doneEvent \/ waiting' = 0)
    /\ client' = [client EXCEPT ![c] = "loop"]
    /\ UNCHANGED <<event, subscribers, consuming, pleaseHandle, owes, publisher>>

\* shadow_multiclient_release_subscriber: the client leaves its loop, because its connection
\* ended or because sending the frame failed.
Release(c) ==
    /\ client[c] \in {"loop", "handle"}
    /\ Consume(c, pleaseHandle[c], FALSE)
    /\ subscribers' = subscribers \ {c}
    /\ client' = [client EXCEPT ![c] = "out"]
    /\ UNCHANGED <<pleaseHandle, publisher>>

PublisherStep == PublisherWoken \/ PublisherContinues
ClientStep(c) == SeeFrame(c) \/ FrameSent(c) \/ BarrierPassed(c) \/ Continue(c)

Next ==
    \/ Publish \/ PublisherStep
    \/ \E c \in Clients : GetSubscriber(c) \/ ClientStep(c) \/ Release(c)

Spec == Init /\ [][Next]_vars

\* Threads run, and sending a frame ends.
FairSpec == Spec /\ WF_vars(PublisherStep) /\ \A c \in Clients : WF_vars(ClientStep(c))

-----------------------------------------------------------------------------
\* The counter says how many clients have still to consume the frame, although clients come and
\* go in the middle of it: none is waited for in vain, none is forgotten.  (Both assertions
\* about consuming follow: it is not negative, and 0 when the next frame is published.)
ConsumingIsOwed ==
    /\ consuming = Cardinality(owes)
    /\ publisher = "idle" => consuming = 0

\* "ensure that the screen and primary surface meta data is not changed until it is reset": the
\* server waits while a client sends the frame.
FrameStable == \A c \in Clients : client[c] = "handle" => publisher = "wait"

\* A client that has its share behind it is not taken to consume it again, although pleaseHandle
\* is never cleared.
SharesConsumedOnce ==
    \A c \in Clients : client[c] \in {"loop", "handle"} /\ Expected(c, pleaseHandle[c]) => c \in owes

\* "Last subscriber should have already reset the event", and no client is still on its way out of
\* the frame when the server continues.
FrameOver == publisher # "wait" => ~event /\ waiting = 0 /\ ~barrierEvent

\* The values of the variables, and the life of a frame: it is owed by the clients the counter
\* counts, stays as it is while one of them sends it, and leaves nothing behind.
McEventInv ==
    McEventTypeOK /\ ConsumingIsOwed /\ FrameStable /\ SharesConsumedOnce /\ FrameOver

\* The server gets on with its next frame, and a client that waits for the others with its loop.
EverybodyContinues ==
    /\ publisher = "wait" ~> publisher = "idle"
    /\ \A c \in Clients : client[c] \in {"barrier", "woken"} ~> client[c] = "loop"

=============================================================================
