---------------------------- MODULE RdpConnection ----------------------------
(***************************************************************************)
(* A client and a server joined by a transport that delivers in order, in  *)
(* both directions.  The two run concurrently: any number of PDUs may be   *)
(* under way in either direction when a side takes a step.                 *)
(***************************************************************************)
EXTENDS RdpClient, RdpServer, FiniteSets

CONSTANT MaxReconnects       \* bound on reconnects

ASSUME MaxReconnectsAssumption == MaxReconnects \in Nat

VARIABLE reconnects          \* how often the client has reconnected

vars == <<clientVars, serverVars, reconnects>>

TypeOK == ClientTypeOK /\ ServerTypeOK /\ reconnects \in 0 .. MaxReconnects

\* Both ends know from the negotiation whether the RDP security layer is used.
Init ==
    /\ ClientInit
    /\ ServerInit
    /\ sSettings.rdpSecurity = cSettings.rdpSecurity
    /\ reconnects = 0

\* rdp_recv_callback and peer_recv_callback take the next PDU from the transport.
DeliverToClient ==
    /\ sOut # <<>>
    /\ ClientReceive(Head(sOut))
    /\ sOut' = Tail(sOut)
    /\ UNCHANGED <<sState, sRun, sPdu, sFinalize, sJoined, sMessageChannel, sLicense,
                   sSettings, sConnected, sActivated, reconnects>>

DeliverToServer ==
    /\ cOut # <<>>
    /\ ServerReceive(Head(cOut))
    /\ cOut' = Tail(cOut)
    /\ UNCHANGED <<cState, cRun, cPdu, cFinalize, cMonitorLayout, cJoined, cMessageChannel,
                   cLicense, cSettings, reconnects>>

ClientHandles == ClientStep /\ UNCHANGED <<serverVars, reconnects>>
ServerHandles == ServerStep /\ UNCHANGED <<clientVars, reconnects>>
UserInput == ClientInput /\ UNCHANGED <<serverVars, reconnects>>
Application == ServerApplication /\ UNCHANGED <<clientVars, reconnects>>

\* The connection is lost: what was under way is gone, the client reconnects with the
\* settings it has, and a listener gives it a new peer.
Reconnect ==
    /\ reconnects < MaxReconnects
    /\ reconnects' = reconnects + 1
    /\ ClientReset
    /\ sState' = "MCS_CREATE_REQUEST" /\ sRun' = "idle" /\ sPdu' = NoPdu
    /\ sFinalize' = {}
    /\ sJoined' = {} /\ sMessageChannel' = FALSE
    /\ sLicense' = "INITIAL"
    /\ sSettings' \in {s \in ServerConfigs : s.rdpSecurity = cSettings.rdpSecurity}
    /\ sConnected' = FALSE /\ sActivated' = FALSE
    /\ sOut' = <<>>

\* The session has been closed by the server, and the client has seen it.
Ended == cRun = "closed" /\ sRun = "closed"

Terminated == Ended /\ UNCHANGED vars

Next ==
    \/ ClientHandles
    \/ ServerHandles
    \/ DeliverToClient
    \/ DeliverToServer
    \/ UserInput
    \/ Application
    \/ Reconnect
    \/ Terminated

Spec == Init /\ [][Next]_vars

\* Both event loops keep running, and the transport delivers what was sent.
Fairness ==
    /\ WF_vars(ClientHandles) /\ WF_vars(ServerHandles)
    /\ WF_vars(DeliverToClient) /\ WF_vars(DeliverToServer)

FairSpec == Spec /\ Fairness

-----------------------------------------------------------------------------
Has(out, type) == \E i \in DOMAIN out : out[i].type = type

\* A client and a server of this code base never fail each other: whatever they are
\* configured to, however deliveries, input, drawing, channel traffic and desktop resizes
\* interleave, no handler of either returns STATE_RUN_FAILED.
NoFailure == cRun # "failed" /\ sRun # "failed"

\* Nobody waits for nobody: when neither side works and nothing is under way, both ends
\* are active and the application has been told so.
Quiescence ==
    cRun = "idle" /\ sRun = "idle" /\ cOut = <<>> /\ sOut = <<>>
        => cState = "ACTIVE" /\ sState = "ACTIVE" /\ sActivated

\* Both ends agree on whether this is a reactivation, so that the server never waits for a
\* persistent key list that the client will not send, nor is sent one it does not expect: as
\* long as the server has the flag, the client has it or the Deactivate All that makes it set
\* the flag is on its way, and the client has it only when the server has.
ReactivationAgreed ==
    sRun # "closed" =>
        ("DEACTIVATE_REACTIVATE" \in sFinalize <=>
            \/ "DEACTIVATE_REACTIVATE" \in cFinalize
            \/ Has(sOut, "DeactivateAll")
            \/ cPdu.type = "DeactivateAll")

\* The PDUs that announce to the client that the session is active, or that it is not any more.
Tells(p) == p.type \in {"FontMap", "DeactivateAll"}

\* The announcements in a queue, in their order.
Told(pdus) ==
    LET told == {i \in DOMAIN pdus : Tells(pdus[i])}
        nth(n) == CHOOSE i \in told : Cardinality({j \in told : j <= i}) = n
    IN  [n \in 1 .. Cardinality(told) |-> pdus[nth(n)].type = "FontMap"]

\* What the client has been told about the session and not yet acted upon: the PDU on its stream
\* and those under way.
Announcements == Told(<<cPdu>> \o sOut)

Activation == INSTANCE ActivationView
    WITH server <- sState = "ACTIVE" /\ sRun # "closed", client <- cState = "ACTIVE",
         notices <- Announcements

\* The client is active exactly when the server's announcements, taken in order, say so, although
\* it decides from flags that several PDUs set and the server's state changes with PDUs of the
\* client, input, updates and resizes crossing on the wire.
ImplementsActivation == Activation!Spec

\* A channel the client takes for joined is joined on the server, and so is every channel
\* whose confirm is under way.
JoinAgreed ==
    /\ cJoined \subseteq sJoined
    /\ \A i \in DOMAIN sOut :
           sOut[i].type = "ChannelJoinConfirm" => sOut[i].channelId \in sJoined

\* However often the server resizes the desktop or the client reconnects, the client is
\* active again and again until the session ends.
ActiveAgain == []<>(cState = "ACTIVE" \/ sRun = "closed")

\* A server that has begun an activation, the first one or one that a desktop resize started,
\* completes it unless the connection is lost in between: the application's Activate callback
\* runs, and does not wait for a PDU the client has no reason to send.
ActivationCompletes ==
    sState = "CAPABILITIES_EXCHANGE_MONITOR_LAYOUT" ~> sActivated \/ sState = "MCS_CREATE_REQUEST"

=============================================================================
