---------------------------- MODULE MessageQueue ----------------------------
(***************************************************************************)
(* The message queue of WinPR                                              *)
(* (winpr/libwinpr/utils/collections/MessageQueue.c): a ring buffer that   *)
(* grows, guarded by a critical section, with an event that says whether   *)
(* there is something to take.  Any number of threads post to it.  One     *)
(* thread takes from it, in the loop that the channel plugins share        *)
(* (channel_client_thread_proc of channels/client/addin.c).  What a        *)
(* function does inside its critical section is one step;                  *)
(* MessageQueue_Wait is outside of it.                                     *)
(***************************************************************************)
EXTENDS Naturals, Sequences

CONSTANTS Messages,      \* what may be posted
          Quit,          \* WMQ_QUIT
          Zero,          \* a slot after ZeroMemory
          InitialCount,  \* room made by MessageQueue_New (32)
          Increment,     \* spare room made by MessageQueue_EnsureCapacity (128)
          MaxSize        \* the limit at which MessageQueue_EnsureCapacity refuses

ASSUME QueueAssumption ==
    /\ Quit \notin Messages /\ Zero \notin Messages \cup {Quit}
    /\ InitialCount \in Nat /\ Increment \in Nat \ {0}
    /\ MaxSize \in Nat

VARIABLES head, tail, size, capacity, array, closed,   \* the fields of wMessageQueue
          event,      \* whether queue->event is set
          consumer,   \* where the consumer is in its loop
          message     \* the message it took last

vars == <<head, tail, size, capacity, array, closed, event, consumer, message>>

Posted == Messages \cup {Quit}

QueueTypeOK ==
    /\ capacity \in Nat \ {0}
    /\ head \in 0 .. capacity - 1 /\ tail \in 0 .. capacity - 1
    /\ size \in 0 .. capacity
    /\ array \in [0 .. capacity - 1 -> Posted \cup {Zero}]
    /\ closed \in BOOLEAN /\ event \in BOOLEAN
    /\ consumer \in {"wait", "woken", "done", "failed"}
    /\ message \in Posted \cup {Zero}

\* MessageQueue_New
Init ==
    /\ head = 0 /\ tail = 0 /\ size = 0
    /\ capacity = InitialCount + Increment
    /\ array = [i \in 0 .. capacity - 1 |-> Zero]
    /\ closed = FALSE /\ event = FALSE
    /\ consumer = "wait" /\ message = Zero

\* The slot after slot i.
Advance(i, cap) == (i + 1) % cap

\* Mutant: the wrapped entries stay where they are.
RearrangedNot(new) ==
    [tail |-> capacity,
     array |-> [i \in 0 .. new - 1 |-> IF i < capacity THEN array[i] ELSE Zero]]

\* The wrapped entries, those before the tail, are moved to the end of the old array as far
\* as there is room, the rest of them to its start; what they leave is zeroed.
Rearranged(new) ==
    LET slots == new - capacity
        batch == IF tail < slots THEN tail ELSE slots
    IN [tail |-> IF tail < slots THEN tail + capacity ELSE tail - batch,
        array |-> [i \in 0 .. new - 1 |->
                      IF i >= capacity
                      THEN IF i - capacity < batch THEN array[i - capacity] ELSE Zero
                      ELSE IF i >= tail THEN array[i]
                      ELSE IF i + batch < tail THEN array[i + batch] ELSE Zero]]

\* MessageQueue_EnsureCapacity(queue, 1)
Ensured ==
    LET new == size + 1 + Increment
    IN IF size + 1 <= capacity THEN [capacity |-> capacity, tail |-> tail, array |-> array]
       ELSE IF tail <= head
       THEN [capacity |-> new, tail |-> Rearranged(new).tail, array |-> Rearranged(new).array]
       ELSE [capacity |-> new, tail |-> tail,
             array |-> [i \in 0 .. new - 1 |-> IF i < capacity THEN array[i] ELSE Zero]]

\* Mutant: a closed queue accepts messages.
DispatchWhenClosed(m) ==
    /\ size < MaxSize
    /\ capacity' = Ensured.capacity
    /\ array' = [Ensured.array EXCEPT ![Ensured.tail] = m]
    /\ tail' = Advance(Ensured.tail, Ensured.capacity)
    /\ size' = size + 1
    /\ event' = TRUE
    /\ closed' = (closed \/ m = Quit)
    /\ UNCHANGED <<head, consumer, message>>

\* MessageQueue_Dispatch, MessageQueue_Post and MessageQueue_PostQuit.  A closed queue, or one
\* that cannot grow, is left alone and the caller is told so.
Dispatch(m) ==
    /\ ~closed
    /\ size < MaxSize
    /\ capacity' = Ensured.capacity
    /\ array' = [Ensured.array EXCEPT ![Ensured.tail] = m]
    /\ tail' = Advance(Ensured.tail, Ensured.capacity)
    /\ size' = size + 1
    /\ event' = TRUE
    /\ closed' = (closed \/ m = Quit)
    /\ UNCHANGED <<head, consumer, message>>

\* MessageQueue_Wait
Wait ==
    /\ consumer = "wait" /\ event
    /\ consumer' = "woken"
    /\ UNCHANGED <<head, tail, size, capacity, array, closed, event, message>>

\* Mutant: the event is never reset.
EventKept(remaining) == event

\* Mutant: the event is reset whatever is left.
EventAlwaysReset(remaining) == FALSE

\* The event after one message was removed.
EventAfter(remaining) == event /\ remaining >= 1

\* ZeroMemory of the slot that was read.
Emptied(i) == [array EXCEPT ![i] = Zero]

\* MessageQueue_Peek(queue, &message, TRUE), and MessageQueue_Get once its wait is over.  The
\* loop ends on WMQ_QUIT, and with an error on an empty queue or when the handler of the message
\* fails.
Peek ==
    /\ consumer = "woken"
    /\ IF size > 0
       THEN /\ message' = array[head]
            /\ array' = Emptied(head)
            /\ head' = Advance(head, capacity)
            /\ size' = size - 1
            /\ event' = EventAfter(size - 1)
            /\ consumer' \in IF message' = Quit THEN {"done"} ELSE {"wait", "failed"}
       ELSE /\ consumer' = "failed"
            /\ UNCHANGED <<message, array, head, size, event>>
    /\ UNCHANGED <<tail, capacity, closed>>

\* Position i of the queue, in the array.
Slot(i) == (head + i - 1) % capacity

\* MessageQueue_Clear, by the owner once its consumer thread has ended
\* (channel_client_quit_handler, drdynvc_virtual_channel_event_disconnected), with what the
\* consumer left; the next connection starts a new thread.
Clear ==
    /\ consumer \in {"done", "failed"}
    /\ head' = (head + size) % capacity
    /\ size' = 0
    /\ array' = [i \in 0 .. capacity - 1 |->
                    IF \E k \in 1 .. size : i = Slot(k) THEN Zero ELSE array[i]]
    /\ event' = FALSE /\ closed' = FALSE
    /\ consumer' = "wait"
    /\ UNCHANGED <<tail, capacity, message>>

Next ==
    \/ \E m \in Posted : Dispatch(m)
    \/ Wait
    \/ Peek
    \/ Clear

Spec == Init /\ [][Next]_vars

\* The consumer's loop runs.
FairSpec == Spec /\ WF_vars(Wait) /\ WF_vars(Peek)

-----------------------------------------------------------------------------
\* The messages that wait, first to last.
Contents == [i \in 1 .. size |-> array[Slot(i)]]

Contract == INSTANCE QueueContract WITH contents <- Contents

\* The ring implements the contract: posting, taking and growing, also while the entries wrap
\* around the end of the array (MessageQueue_EnsureCapacity moves them), keep every message,
\* once and in order.
ImplementsContract == Contract!Spec

\* A slot holds a message exactly when it belongs to the queue: a removed message leaves no
\* reference behind that MessageQueue_Clear or a later growth could treat as a message.
SlotsZeroed ==
    \A i \in 0 .. capacity - 1 : array[i] # Zero <=> \E k \in 1 .. size : i = Slot(k)

\* The event is set exactly when there is something to take ("an event which is set when the
\* queue is non-empty", MessageQueue_Event).
EventTellsNonEmpty == event <=> size > 0

\* The consumer that was woken finds a message, although it waits without the lock: the loops
\* of the channel plugins end with "MessageQueue_Peek failed!" when it does not.
PeekFindsMessage == consumer = "woken" => size > 0

\* WMQ_QUIT is the last message of a closed queue and in no other one, so that a consumer that
\* leaves its loop leaves no message behind.
QuitIsLast ==
    /\ \A i \in 1 .. size : Contents[i] = Quit => closed /\ i = size
    /\ consumer = "done" => size = 0

\* A posted WMQ_QUIT ends the consumer: whoever waits for the thread after
\* MessageQueue_PostQuit (channel_client_quit_handler) does not wait forever.
QuitEndsConsumer == closed ~> consumer \in {"done", "failed"}

=============================================================================
