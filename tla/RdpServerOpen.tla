---------------------------- MODULE RdpServerOpen ----------------------------
(***************************************************************************)
(* The server against a client that may send its PDUs in any order, at any *)
(* time and as often as it likes, and an application that resizes the      *)
(* desktop, draws and closes whenever it may.                              *)
(***************************************************************************)
EXTENDS RdpServer

VARIABLES sHeard,     \* history: finalize flags of PDUs processed since the last Confirm Active
          sLicensed,  \* history: licensing has completed
          sUnasked    \* history: a multitransport response came before any request is made

serverOpenVars == <<serverVars, sHeard, sLicensed, sUnasked>>

\* Share control PDUs come after licensing.  Before, the server would read them as PDUs with a
\* security header.
LateTypes == ClientDataTypes \cup {"ConfirmActive"}

\* A client addresses the message channel only when there is one; licensing PDUs go there, and
\* only until licensing is over may they go to the I/O channel as well.
ClientMaySend(p) ==
    /\ p.type \in ClientMessageTypes => sMessageChannel
    /\ p.type \in ClientLicenseTypes => sMessageChannel \/ sState \in LicensingOrEarlier
    /\ p.type \in LateTypes => sState \notin LicensingOrEarlier

ServerOpenInit == ServerInit /\ sHeard = {} /\ sLicensed = FALSE /\ sUnasked = FALSE

\* A step of the server, with what it has heard of the finalization.
ServerOpenStep ==
    /\ ServerStep
    /\ sHeard' = IF sPdu.type = "ConfirmActive"
                      /\ sState = "CAPABILITIES_EXCHANGE_CONFIRM_ACTIVE" THEN {}
                 ELSE IF sPdu.type \in DOMAIN CsFlag THEN sHeard \cup {CsFlag[sPdu.type]}
                 ELSE sHeard
    /\ sLicensed' = (sLicensed \/ sLicense' = "COMPLETED")
    /\ UNCHANGED sUnasked

ServerOpenReceive ==
    /\ sOut = <<>>
    /\ \E p \in ClientPdus :
           /\ ClientMaySend(p) /\ ServerReceive(p)
           /\ sUnasked' = (sUnasked \/ (/\ p.type = "MultitransportResponse"
                                       /\ sState \in LicensingOrEarlier))
    /\ UNCHANGED <<sHeard, sLicensed>>

\* The client reads what the server has sent.
ServerOpenDrain ==
    /\ sRun = "idle" /\ sOut # <<>>
    /\ sOut' = <<>>
    /\ UNCHANGED <<sState, sRun, sPdu, sFinalize, sJoined, sMessageChannel, sLicense,
                   sSettings, sConnected, sActivated, sHeard, sLicensed, sUnasked>>

ServerOpenApplication ==
    (ServerApplication \/ ServerClose) /\ UNCHANGED <<sHeard, sLicensed, sUnasked>>

ServerOpenNext == ServerOpenStep \/ ServerOpenReceive \/ ServerOpenDrain \/ ServerOpenApplication

ServerOpenSpec == ServerOpenInit /\ [][ServerOpenNext]_serverOpenVars

-----------------------------------------------------------------------------
\* The server draws only for a client whose Font List PDU it has received since the last
\* Confirm Active ("upon receipt of the Font List PDU the server can start sending graphics
\* output to the client", rdp_is_active_peer_state), and, between two PDUs, only in
\* CONNECTION_STATE_ACTIVE: no flag of an earlier activation and no PDU out of order lets
\* client->activated be set or stay set.
ActivatedAfterFontList ==
    sActivated => /\ "CS_FONT_LIST" \in sHeard
                  /\ sRun = "idle" => sState = "ACTIVE"

\* Keys are exchanged and the client info is read only when every channel that exists
\* has been joined, in whatever order the client joined them, or joining was skipped.
KeysAfterJoin ==
    sState \notin McsStates =>
        /\ {UserId, MCS_GLOBAL_CHANNEL_ID} \cup StaticChannels \subseteq sJoined
        /\ sMessageChannel => MessageChannelId \in sJoined

\* The server asks for capabilities only when the licensing phase has completed
\* (peer_recv_handle_licensing), whether or not it requires a licence, unless the client answers a
\* multitransport request before it can have been made: such an answer takes the server there from
\* any state (multitransport_server_handle_response), and is the only way around the phase.
DemandAfterLicense == sState \notin LicensingOrEarlier => sLicensed \/ sUnasked

\* Control is granted (rdp_server_accept_client_control_pdu) only to a client that has sent its
\* Synchronize and Cooperate PDUs since the last Confirm Active.
GrantAfterCooperate ==
    sState \in {"FINALIZATION_PERSISTENT_KEY_LIST", "FINALIZATION_FONT_LIST"}
        => {"CS_SYNCHRONIZE", "CS_CONTROL_COOPERATE", "CS_CONTROL_REQUEST"} \subseteq sHeard

-----------------------------------------------------------------------------
\* What makes DemandAfterLicense inductive: an answer on the stream that was not asked for has
\* been noted, and as long as the phase lasts share control PDUs are not sent.
LicenseInv ==
    /\ DemandAfterLicense
    /\ sLicense = "COMPLETED" => sLicensed
    /\ sPdu.type = "MultitransportResponse" /\ sState \in LicensingOrEarlier => sUnasked
    /\ sPdu.type \in LateTypes => sState \notin LicensingOrEarlier

\* The flags of the client's PDUs that must have been heard in each state.
CsFlagsBefore(state) ==
    CASE state = "FINALIZATION_COOPERATE" -> {"CS_SYNCHRONIZE"}
      [] state = "FINALIZATION_REQUEST_CONTROL" -> {"CS_SYNCHRONIZE", "CS_CONTROL_COOPERATE"}
      [] state \in {"FINALIZATION_PERSISTENT_KEY_LIST", "FINALIZATION_FONT_LIST"} ->
             {"CS_SYNCHRONIZE", "CS_CONTROL_COOPERATE", "CS_CONTROL_REQUEST"}
      [] state = "ACTIVE" -> {"CS_FONT_LIST"}
      [] OTHER -> {}

\* What makes ActivatedAfterFontList and GrantAfterCooperate inductive: no flag is older than
\* the last Confirm Active, and an activated client may only be in the middle of being asked
\* for its capabilities again.
ActivationInv ==
    /\ sFinalize \cap ClientFlags \subseteq sHeard
    /\ CsFlagsBefore(sState) \subseteq sHeard
    /\ sActivated =>
           /\ "CS_FONT_LIST" \in sHeard
           /\ \/ sState = "ACTIVE"
              \/ sState = "CAPABILITIES_EXCHANGE_DEMAND_ACTIVE" /\ sRun = "run"

=============================================================================
