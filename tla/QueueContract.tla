---------------------------- MODULE QueueContract ----------------------------
(***************************************************************************)
(* What a WinPR message queue promises to the threads that use it: first   *)
(* in, first out, no message lost or duplicated, and nothing accepted      *)
(* after WMQ_QUIT until the queue is cleared.                              *)
(***************************************************************************)
EXTENDS Sequences

CONSTANTS Messages,      \* what may be posted
          Quit,          \* WMQ_QUIT
          Zero           \* what a consumer holds that has taken nothing

VARIABLES contents,      \* the messages that wait to be taken
          closed,        \* whether posting is refused
          message        \* what the consumer took last

Init == contents = <<>> /\ closed = FALSE /\ message = Zero

Put(m) ==
    /\ ~closed
    /\ contents' = Append(contents, m)
    /\ closed' = (m = Quit)
    /\ UNCHANGED message

Take ==
    /\ contents # <<>>
    /\ message' = Head(contents)
    /\ contents' = Tail(contents)
    /\ UNCHANGED closed

Clear ==
    /\ contents' = <<>>
    /\ closed' = FALSE
    /\ UNCHANGED message

Next == (\E m \in Messages \cup {Quit} : Put(m)) \/ Take \/ Clear

Spec == Init /\ [][Next]_<<contents, closed, message>>

=============================================================================
