--------------------------- MODULE ActivationView ---------------------------
(***************************************************************************)
(* What the activation of a connection promises to the applications at     *)
(* its two ends: the server decides when the session is active, it         *)
(* announces every change once, and the client follows the announcements   *)
(* in their order.  Losing the connection makes both inactive.             *)
(***************************************************************************)
EXTENDS Sequences

VARIABLES server, client,    \* whether the server and the client take the session for active
          notices            \* the announcements the client has not acted upon

Init == server = FALSE /\ client = FALSE /\ notices = <<>>

Announce(active) ==
    /\ server = ~active
    /\ server' = active
    /\ notices' = Append(notices, active)
    /\ UNCHANGED client

Follow ==
    /\ notices # <<>>
    /\ client' = Head(notices)
    /\ notices' = Tail(notices)
    /\ UNCHANGED server

Lose == server' = FALSE /\ client' = FALSE /\ notices' = <<>>

Next == (\E active \in BOOLEAN : Announce(active)) \/ Follow \/ Lose

Spec == Init /\ [][Next]_<<server, client, notices>>

=============================================================================
