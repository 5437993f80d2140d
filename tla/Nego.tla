-------------------------------- MODULE Nego --------------------------------
(***************************************************************************)
(* Security protocol negotiation (libfreerdp/core/nego.c), one call of     *)
(* nego_connect by a client against a server whose answers are given by    *)
(* rdp_server_accept_nego (libfreerdp/core/connection.c).  The client      *)
(* tries its enabled protocols from the highest down, one TCP connection   *)
(* per attempt; the answer to an attempt ends the negotiation, disables    *)
(* protocols or sends the client to the next one.                          *)
(*                                                                         *)
(* Sets of protocols stand for the bit masks; the empty request is the     *)
(* mask 0, PROTOCOL_RDP.  A negotiation state is named by its protocol     *)
(* (NEGO_STATE_EXT by HYBRID_EX, NEGO_STATE_NLA by HYBRID, ...).           *)
(***************************************************************************)
EXTENDS FiniteSets, Naturals

CONSTANTS
    ServerKinds,        \* the servers met, see NegoAssumption
    Flags               \* the RDP_NEG_REQ flags considered, of {"admin", "rcg"}

Protocols == {"RDSAAD", "RDSTLS", "HYBRID_EX", "HYBRID", "SSL", "RDP"}

\* The order in which nego_connect looks for the protocol to start with.
Rank == [p \in Protocols |->
           CASE p = "RDSAAD" -> 6 [] p = "RDSTLS" -> 5 [] p = "HYBRID_EX" -> 4
             [] p = "HYBRID" -> 3 [] p = "SSL" -> 2 [] p = "RDP" -> 1]

Codes == {"SSL_REQUIRED", "SSL_NOT_ALLOWED", "HYBRID_REQUIRED", "SSL_CERT_NOT_ON_SERVER",
          "INCONSISTENT_FLAGS"}
NoCode == "0"
NoAnswer == [type |-> "none"]

ASSUME NegoAssumption ==
    \* freerdp   rdp_server_accept_nego
    \* none      knows nothing of negotiation, RDP only
    \* certless  has no certificate, so RDP only
    \* direct    expects the security layer at once
    /\ ServerKinds \subseteq {"freerdp", "none", "certless", "direct"}
    /\ Flags \subseteq {"admin", "rcg"}

VARIABLES
    \* the client: its settings and rdpNego
    security,           \* protocols enabled by the user's settings
    clientFlags,        \* RestrictedAdminModeRequired, RemoteCredsGuardRequired
    negotiate,          \* NegotiateSecurityLayer
    pc,                 \* idle, ready (top of the loop), await, decided, done
    state,              \* nego->state
    enabled,            \* nego->EnabledProtocols
    requested,          \* nego->RequestedProtocols
    selected,           \* nego->SelectedProtocol
    sendNegoData,       \* nego->sendNegoData
    failureCode,        \* nego->failureCode
    tcp,                \* nego->TcpConnected
    result,             \* what nego_connect returned
    lastError,          \* context->LastError
    \* the network: the request and the answer of the current connection
    request, answer,
    \* the server: its kind and settings, and the peer of this connection
    kind, serverSecurity, serverFlags,
    peer,               \* [selected, flags, rcg, open]
    \* what happened, for the properties
    faulty              \* a connection failed or was dropped

settings == <<security, clientFlags, negotiate, kind, serverSecurity, serverFlags>>
vars == <<settings, pc, state, enabled, requested, selected, sendNegoData, failureCode,
          tcp, result, lastError, request, answer, peer, faulty>>

NoRequest == [sent |-> FALSE]
NoPeer == [selected |-> "none", flags |-> {}, rcg |-> FALSE, open |-> FALSE]
NewPeer == [NoPeer EXCEPT !.open = TRUE]

\* nego_new and nego_init, the nego_enable_* calls of rdp_client_connect.
Init ==
    /\ security \in SUBSET Protocols
    /\ clientFlags \in SUBSET Flags
    /\ negotiate \in BOOLEAN
    /\ kind \in ServerKinds
    /\ (kind = "direct") = ~negotiate
    /\ serverSecurity \in
         IF kind = "freerdp" THEN SUBSET {"RDSTLS", "HYBRID", "SSL", "RDP"}
                                            ELSE {{"RDP"}}
    /\ serverFlags \in SUBSET Flags
    /\ pc = "idle" /\ state = "INITIAL"
    /\ enabled = security
    /\ requested = {} /\ selected = "RDP"
    /\ sendNegoData = FALSE /\ failureCode = NoCode
    /\ tcp = FALSE /\ result = "none" /\ lastError = "none"
    /\ request = NoRequest /\ answer = NoAnswer
    /\ peer = NoPeer
    /\ faulty = FALSE

-----------------------------------------------------------------------------
(* The client *)

Highest(S) == CHOOSE p \in S : \A q \in S : Rank[q] <= Rank[p]

\* Mutant: one protocol is left out on the way down.
BelowSkips(p) == {q \in Protocols \ {"RDSAAD", "RDSTLS"} : Rank[q] + 1 < Rank[p]}

\* Mutant: an attempt may fall back to itself.
BelowSame(p) == {q \in Protocols \ {"RDSAAD", "RDSTLS"} : Rank[q] <= Rank[p]}

\* The protocols a failed attempt may fall back to: neither RDSAAD nor RDSTLS
\* is ever fallen back to, and after RDP there is nothing left.
Below(p) == {q \in Protocols \ {"RDSAAD", "RDSTLS"} : Rank[q] < Rank[p]}

Fallback(p, en) ==
    LET candidates == Below(p) \cap en
    IN  IF candidates = {} THEN "FAIL" ELSE Highest(candidates)

\* RequestedProtocols of the six nego_attempt_* functions.
RequestOf(p) ==
    CASE p = "RDSAAD"    -> {"RDSAAD"}
      [] p = "RDSTLS"    -> {"RDSTLS", "SSL"}
      [] p = "HYBRID_EX" -> {"HYBRID", "SSL", "HYBRID_EX"}
      [] p = "HYBRID"    -> {"HYBRID", "SSL"}
      [] p = "SSL"       -> {"SSL"}
      [] p = "RDP"       -> {}

\* nego_failure_to_error; freerdp_set_last_error_if_not keeps an earlier error.
FailureToError(code) ==
    CASE code = "SSL_CERT_NOT_ON_SERVER" -> "TLS_CONNECT_FAILED"
      [] code = "HYBRID_REQUIRED"        -> "HYBRID_REQUIRED_BY_SERVER"
      [] OTHER                           -> "SECURITY_NEGO_CONNECT_FAILED"

\* nego_connect finds NEGO_STATE_FAIL (with failure code `code`) and returns FALSE.
\* Without a failure code the caller, rdp_client_connect, sets the error.
ReturnFailed(code, error) ==
    /\ pc' = "done" /\ result' = "failed" /\ state' = "FINAL"
    /\ lastError' = IF error # "none" THEN error
                    ELSE IF code # NoCode THEN FailureToError(code)
                    ELSE "SECURITY_NEGO_CONNECT_FAILED"

\* The part of nego_connect before the loop, when the TCP connection is made.
\* Without negotiation only the highest protocol stays enabled, with its
\* prerequisite HYBRID for HYBRID_EX, and it counts as selected.
NegoConnect ==
    /\ pc = "idle" /\ enabled # {}
    /\ LET p == Highest(enabled)
       IN  IF negotiate
             THEN pc' = "ready" /\ state' = p /\ UNCHANGED <<enabled, selected>>
             ELSE /\ enabled' = IF p = "HYBRID_EX" THEN {p, "HYBRID"} ELSE {p}
                  /\ selected' = p
                  /\ pc' = "decided" /\ state' = "FINAL"
    /\ tcp' = TRUE
    /\ peer' = [NewPeer EXCEPT !.selected = IF negotiate THEN "none" ELSE Highest(enabled)]
    /\ UNCHANGED <<settings, requested, sendNegoData, failureCode, result, lastError,
                   request, answer, faulty>>

\* No protocol is enabled, the TCP connection fails, or the preconnection PDU
\* cannot be sent: nego_connect returns FALSE before the loop.
NegoConnectFails ==
    /\ pc = "idle"
    /\ pc' = "done" /\ result' = "failed"
    /\ \/ /\ enabled = {}
          /\ state' = "FAIL" /\ lastError' = "SECURITY_NEGO_CONNECT_FAILED"
          /\ UNCHANGED <<tcp, faulty>>
       \/ /\ enabled # {}
          /\ lastError' = "CONNECT_FAILED" /\ faulty' = TRUE
          /\ \/ state' = Highest(enabled) /\ UNCHANGED tcp
             \/ state' = "FINAL" /\ tcp' = TRUE
    /\ UNCHANGED <<settings, enabled, requested, selected, sendNegoData, failureCode,
                   request, answer, peer>>

\* The first half of nego_attempt_*: nego_transport_connect connects again if
\* the previous attempt was disconnected, then the request is sent.  RDP_NEG_REQ
\* is part of it only for a request above RDP, or when sendNegoData asks for it.
Attempt ==
    /\ pc = "ready"
    /\ requested' = RequestOf(state)
    /\ tcp' = TRUE
    /\ peer' = IF tcp THEN peer ELSE NewPeer
    /\ request' = [sent |-> TRUE,
                   negData |-> requested' # {} \/ sendNegoData,
                   protocols |-> requested',
                   flags |-> IF requested' # {} \/ sendNegoData THEN clientFlags ELSE {}]
    /\ answer' = NoAnswer
    /\ pc' = "await"
    /\ UNCHANGED <<settings, state, enabled, selected, sendNegoData, failureCode, result,
                   lastError, faulty>>

\* nego_transport_connect or nego_send_negotiation_request fails.
AttemptFails ==
    /\ pc = "ready"
    /\ requested' = RequestOf(state)
    /\ faulty' = TRUE
    /\ ReturnFailed(failureCode, IF tcp THEN "TRANSPORT_FAILED" ELSE "CONNECT_FAILED")
    /\ UNCHANGED <<settings, enabled, selected, sendNegoData, failureCode, tcp, request,
                   answer, peer>>

\* What is enabled after RDP_NEG_FAILURE (nego_disable_all_except).
EnabledAfter(code) ==
    CASE code = "SSL_REQUIRED"    -> enabled \cap {"SSL"}
      [] code = "SSL_NOT_ALLOWED" -> enabled \cap {"RDP"}
      [] code = "HYBRID_REQUIRED" -> enabled \cap {"HYBRID"}
      [] OTHER                    -> enabled

\* Mutant: TLS is not looked up.
AcceptsTls(p) == p \in {"RDSAAD", "HYBRID", "RDP"} => p \in enabled

\* nego_recv accepts the protocol of RDP_NEG_RSP: only these are looked up.
Accepts(p) == p \in {"RDSAAD", "HYBRID", "SSL", "RDP"} => p \in enabled

\* The second half of nego_attempt_*: nego_recv_response, then either the
\* negotiation is over or the connection is closed and the attempt falls back.
\* nego_attempt_rdp does neither close nor fall back.
FallBack(en, code) ==
    LET next == Fallback(state, en)
    IN  /\ tcp' = (state = "RDP")
        /\ IF next = "FAIL" THEN ReturnFailed(code, lastError)
           ELSE pc' = "ready" /\ state' = next /\ UNCHANGED <<result, lastError>>

\* Mutant: the selected protocol is taken only when none was selected before.
RecvResponseKeeps ==
    /\ pc = "await" /\ answer.type = "RSP"
    /\ selected' = IF selected = "RDP" THEN answer.selected ELSE selected
    /\ IF Accepts(answer.selected)
         THEN /\ pc' = "decided" /\ state' = "FINAL"
              /\ UNCHANGED <<tcp, result, lastError>>
         ELSE FallBack(enabled, failureCode)
    /\ UNCHANGED <<settings, enabled, requested, sendNegoData, failureCode, request, answer,
                   peer, faulty>>

\* nego_process_negotiation_response

RecvResponse ==
    /\ pc = "await" /\ answer.type = "RSP"
    /\ selected' = answer.selected
    /\ IF Accepts(answer.selected)
         THEN /\ pc' = "decided" /\ state' = "FINAL"
              /\ UNCHANGED <<tcp, result, lastError>>
         ELSE FallBack(enabled, failureCode)
    /\ UNCHANGED <<settings, enabled, requested, sendNegoData, failureCode, request, answer,
                   peer, faulty>>

RecvFailure ==
    /\ pc = "await" /\ answer.type = "FAILURE"
    /\ failureCode' = answer.code
    /\ enabled' = EnabledAfter(answer.code)
    /\ sendNegoData' = (sendNegoData \/ answer.code \in {"SSL_NOT_ALLOWED", "SSL_CERT_NOT_ON_SERVER"})
    /\ FallBack(enabled', answer.code)
    /\ UNCHANGED <<settings, requested, selected, request, answer, peer, faulty>>

\* A connection confirm without rdpNegData ends the negotiation if RDP is
\* enabled.  It leaves SelectedProtocol as it is.
RecvConfirm ==
    /\ pc = "await" /\ answer.type = "CONFIRM"
    /\ IF "RDP" \in enabled
         THEN /\ pc' = "decided" /\ state' = "FINAL"
              /\ UNCHANGED <<tcp, result, lastError>>
         ELSE FallBack(enabled, failureCode)
    /\ UNCHANGED <<settings, enabled, requested, selected, sendNegoData, failureCode,
                   request, answer, peer, faulty>>

\* The connection is closed, or what arrives cannot be parsed: no fallback.
NegoRecvFails ==
    /\ pc = "await" /\ answer = NoAnswer
    /\ faulty' = TRUE
    /\ ReturnFailed(failureCode, "TRANSPORT_FAILED")
    /\ UNCHANGED <<settings, enabled, requested, selected, sendNegoData, failureCode, tcp,
                   request, answer, peer>>

\* The end of nego_connect: nego_security_connect with the selected protocol.
\* A TLS based handshake needs the same protocol at the other end and may
\* fail; transport_connect_rdp does nothing.
SecurityConnect ==
    /\ pc = "decided"
    /\ pc' = "done"
    /\ \/ /\ selected = "RDP" \/ (peer.open /\ peer.selected = selected)
          /\ result' = "connected" /\ UNCHANGED lastError
       \/ /\ selected # "RDP"
          /\ result' = "failed" /\ lastError' = "AUTHENTICATION_FAILED"
    /\ UNCHANGED <<settings, state, enabled, requested, selected, sendNegoData, failureCode,
                   tcp, request, answer, peer, faulty>>

-----------------------------------------------------------------------------
(* The server *)

\* The protocol rdp_server_accept_nego selects, or "failed".
ServerSelects(mask) ==
    LET common == serverSecurity \cap mask
    IN  IF common # {} THEN Highest(common)
        ELSE IF "RDP" \in serverSecurity /\ mask = {} THEN "RDP"
        ELSE "failed"

\* The failure code it sends otherwise.
FailureCode ==
    IF "RDP" \in serverSecurity THEN "SSL_NOT_ALLOWED"
    ELSE IF "HYBRID" \in serverSecurity /\ "SSL" \notin serverSecurity THEN "HYBRID_REQUIRED"
    ELSE "SSL_REQUIRED"

\* nego_process_negotiation_request: what RDP_NEG_REQ flags the server takes.
\* With both flags set either mode will do for the redirected authentication.
FlagsTaken(fl) ==
    /\ "admin" \in fl => "admin" \in serverFlags
    /\ "rcg" \in fl => "rcg" \in serverFlags \/ "admin" \in fl

\* rdp_server_accept_nego for a request that arrives on an open connection.
\* nego_send_negotiation_response fails after it has sent the answer when RDP
\* is selected and the server has no RSA key; the peer is closed then, as it is
\* after a failure answer.
ServerAccept ==
    /\ pc = "await" /\ request.sent /\ answer = NoAnswer /\ peer.open
    /\ kind = "freerdp"
    /\ FlagsTaken(request.flags)
    /\ LET s == ServerSelects(request.protocols)
       IN  /\ answer' = IF s = "failed" THEN [type |-> "FAILURE", code |-> FailureCode]
                                        ELSE [type |-> "RSP", selected |-> s]
           /\ \E key \in BOOLEAN :
                peer' = [selected |-> s, flags |-> request.flags,
                         rcg |-> "rcg" \in request.flags \cap serverFlags,
                         open |-> s # "failed" /\ (s = "RDP" => key)]
    /\ UNCHANGED <<settings, pc, state, enabled, requested, selected, sendNegoData,
                   failureCode, tcp, result, lastError, request, faulty>>

\* The server refuses the flags and closes the connection without an answer.
ServerRefuses ==
    /\ pc = "await" /\ request.sent /\ answer = NoAnswer /\ peer.open
    /\ kind = "freerdp"
    /\ ~FlagsTaken(request.flags)
    /\ peer' = [peer EXCEPT !.open = FALSE]
    /\ faulty' = TRUE
    /\ UNCHANGED <<settings, pc, state, enabled, requested, selected, sendNegoData,
                   failureCode, tcp, result, lastError, request, answer>>

\* A server that knows nothing of negotiation confirms every request with RDP.
ServerConfirms ==
    /\ pc = "await" /\ request.sent /\ answer = NoAnswer /\ peer.open
    /\ kind = "none"
    /\ answer' = [type |-> "CONFIRM"]
    /\ peer' = [peer EXCEPT !.selected = "RDP"]
    /\ UNCHANGED <<settings, pc, state, enabled, requested, selected, sendNegoData,
                   failureCode, tcp, result, lastError, request, faulty>>

\* A server without a certificate refuses whatever needs one, and one that
\* finds the flags inconsistent with the protocols refuses the request.
ServerWithoutCertificate ==
    /\ pc = "await" /\ request.sent /\ answer = NoAnswer /\ peer.open
    /\ kind = "certless"
    /\ \/ /\ request.protocols # {}
          /\ \E code \in {"SSL_CERT_NOT_ON_SERVER", "INCONSISTENT_FLAGS"} :
               answer' = [type |-> "FAILURE", code |-> code]
          /\ peer' = [peer EXCEPT !.selected = "failed", !.open = FALSE]
       \/ /\ request.protocols = {}
          /\ answer' = IF request.negData THEN [type |-> "RSP", selected |-> "RDP"]
                                          ELSE [type |-> "CONFIRM"]
          /\ peer' = [peer EXCEPT !.selected = "RDP"]
    /\ UNCHANGED <<settings, pc, state, enabled, requested, selected, sendNegoData,
                   failureCode, tcp, result, lastError, request, faulty>>

-----------------------------------------------------------------------------
Client ==
    \/ NegoConnect \/ NegoConnectFails \/ Attempt \/ AttemptFails
    \/ RecvResponse \/ RecvFailure \/ RecvConfirm \/ NegoRecvFails \/ SecurityConnect
Server == ServerAccept \/ ServerRefuses \/ ServerConfirms \/ ServerWithoutCertificate

\* nego_connect has returned.
Returned == pc = "done" /\ UNCHANGED vars

Next == Client \/ Server \/ Returned

\* The client runs, and it never waits for ever for an answer: the server
\* answers or the connection is closed.
Fairness == WF_vars(Client)
Spec == Init /\ [][Next]_vars /\ Fairness

-----------------------------------------------------------------------------
NegoTypeOK ==
    /\ pc \in {"idle", "ready", "await", "decided", "done"}
    /\ state \in Protocols \cup {"INITIAL", "FAIL", "FINAL"}
    /\ pc \in {"ready", "await"} => state \in Protocols
    /\ enabled \subseteq security \cup {"HYBRID"}
    /\ requested \subseteq Protocols \ {"RDP"}
    /\ selected \in Protocols
    /\ failureCode \in Codes \cup {NoCode}
    /\ (result = "none") = (pc # "done")
    /\ pc = "await" => tcp

\* The security layer is about to be connected, or was.
Negotiated == pc = "decided" \/ result = "connected"

(* When nego_connect leaves its loop with a protocol, the server of the     *)
(* connection that is now open has selected that protocol: no answer of an  *)
(* earlier attempt, on a connection since closed, survives into it.         *)
NegotiatedAgreed == Negotiated => tcp /\ peer.selected = selected

(* A client never goes on with a protocol its user has disabled, though it  *)
(* offers such protocols: the request for RDSTLS, EXT and NLA contains      *)
(* PROTOCOL_SSL whether TLS is enabled or not, and failure codes and        *)
(* fallbacks keep changing what is enabled meanwhile.                       *)
SelectedPermitted == Negotiated => selected \in security

\* The only protocol that the failure code of a FreeRDP server leaves enabled.
Required ==
    CASE FailureCode = "SSL_NOT_ALLOWED" -> "RDP"
      [] FailureCode = "HYBRID_REQUIRED" -> "HYBRID"
      [] OTHER                           -> "SSL"

\* The first request, for AAD or for RDSTLS, does not offer all that the client
\* can do.  A FreeRDP server that refuses it with a failure code makes the
\* client disable what was never offered (nego_process_negotiation_failure):
\* it is misled when it does not have the one protocol that is left.
Misled ==
    LET first == IF "RDSAAD" \in security THEN "RDSAAD" ELSE "RDSTLS"
    IN  /\ kind = "freerdp" /\ first \in security
        /\ ServerSelects(RequestOf(first)) = "failed"
        /\ Required \notin security \cap serverSecurity

(* Fallback is complete: a client that shares a protocol with the server is *)
(* not turned away, whatever the failure codes disable on the way, as long   *)
(* as no connection breaks.  The one exception is a client with AAD or       *)
(* RDSTLS that a FreeRDP server has misled.                                  *)
FallbackFindsCommon ==
    /\ result = "failed" /\ ~faulty
    /\ lastError # "AUTHENTICATION_FAILED"
    /\ kind # "direct"
    => security \cap serverSecurity = {} \/ Misled

(* The server that selects an authenticated protocol knows which mode the   *)
(* client requires: restricted admin and redirected authentication are not  *)
(* lost between the attempts, and a client that requires redirected         *)
(* authentication alone has it active at the server.                        *)
ModeKnown ==
    Negotiated /\ selected # "RDP" /\ kind = "freerdp" =>
        /\ peer.flags = clientFlags
        /\ clientFlags = {"rcg"} => peer.rcg

(* The values of the variables, and what a finished negotiation means: the  *)
(* protocol and the modes are those the server of this connection has       *)
(* agreed to.                                                               *)
NegoInv == NegoTypeOK /\ NegotiatedAgreed /\ ModeKnown

(* nego_connect returns, whatever the server answers.                       *)
Returns == <>(pc = "done")

=============================================================================
