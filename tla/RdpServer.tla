------------------------------ MODULE RdpServer ------------------------------
(***************************************************************************)
(* The server end of an RDP connection after security negotiation:         *)
(* peer_recv_callback and its handlers (libfreerdp/core/peer.c,            *)
(* connection.c, activation.c, license.c, autodetect.c, multitransport.c). *)
(*                                                                         *)
(* peer_recv_callback calls peer_recv_callback_internal for as long as it  *)
(* asks to be rerun.  Each call is a step here, one action per case of its *)
(* switch; sPdu is the PDU on the stream, NoPdu once it has been read.     *)
(***************************************************************************)
EXTENDS RdpTypes

CONSTANTS ServerConfigs,     \* the settings a server may be started with
          MaxUpdates         \* bound on PDUs in flight for updates to be sent

VARIABLES sState,            \* rdp->state
          sRun,              \* progress of peer_recv_callback
          sPdu,              \* the unread PDU on the stream
          sFinalize,         \* rdp->finalize_sc_pdus
          sJoined,           \* the channels whose joined flag is set in rdp->mcs
          sMessageChannel,   \* rdp->mcs->messageChannelId # 0
          sLicense,          \* rdp->license->state
          sSettings,         \* the negotiated part of rdp->settings
          sConnected,        \* client->connected: PostConnect has been called
          sActivated,        \* client->activated: Activate has been called
          sOut               \* PDUs sent and not yet received

serverVars == <<sState, sRun, sPdu, sFinalize, sJoined, sMessageChannel, sLicense,
                sSettings, sConnected, sActivated, sOut>>

\* The fields are those of ClientSettings; multitransport is SupportMultitransport with
\* INITIATE_REQUEST_PROTOCOL_UDPFECR, licenseRequired is ServerLicenseRequired.
ServerSettings ==
    [skipJoin : BOOLEAN, monitorLayout : BOOLEAN, autoDetect : BOOLEAN,
     multitransport : BOOLEAN, persist : BOOLEAN, rdpSecurity : BOOLEAN,
     licenseRequired : BOOLEAN]

ASSUME ServerConfigsAssumption == ServerConfigs \subseteq ServerSettings
ASSUME MaxUpdatesAssumption == MaxUpdates \in Nat

ServerRunStates == {"idle", "run", "failed", "closed"}

ServerTypeOK ==
    /\ sState \in ConnectionStates
    /\ sRun \in ServerRunStates
    /\ sPdu \in ClientPdus \cup {NoPdu}
    /\ sFinalize \subseteq ClientFlags \cup {"DEACTIVATE_REACTIVATE"}
    /\ sJoined \subseteq Channels
    /\ sMessageChannel \in BOOLEAN
    /\ sLicense \in LicenseStates
    /\ sSettings \in ServerSettings
    /\ sConnected \in BOOLEAN
    /\ sActivated \in BOOLEAN
    /\ sOut \in Seq(ServerPdus)

ServerInit ==
    /\ sState = "MCS_CREATE_REQUEST" /\ sRun = "idle" /\ sPdu = NoPdu
    /\ sFinalize = {}
    /\ sJoined = {} /\ sMessageChannel = FALSE
    /\ sLicense = "INITIAL"
    /\ sSettings \in ServerConfigs
    /\ sConnected = FALSE /\ sActivated = FALSE
    /\ sOut = <<>>

-----------------------------------------------------------------------------
\* What peer_recv_callback_internal returns, and the effect on the loop around it.
ServerSuccess == sRun' = "idle" /\ sPdu' = NoPdu          \* STATE_RUN_SUCCESS
ServerRerun == UNCHANGED <<sRun, sPdu>>                   \* STATE_RUN_CONTINUE, PDU not read
ServerContinue == sRun' = "run" /\ sPdu' = NoPdu          \* STATE_RUN_CONTINUE, PDU read
ServerFail == sRun' = "failed" /\ sPdu' = NoPdu           \* STATE_RUN_FAILED
ServerQuit == sRun' = "closed" /\ sPdu' = NoPdu           \* STATE_RUN_QUIT_SESSION

ServerSend(pdus) == sOut' = sOut \o pdus

ServerReject ==
    /\ ServerFail
    /\ UNCHANGED <<sState, sFinalize, sJoined, sMessageChannel, sLicense, sSettings,
                   sConnected, sActivated, sOut>>

ServerIn(state) == sRun = "run" /\ sState = state

\* rdp_is_active_peer_state
ActivePeerStates == ClientFinalizationStates \cup {"ACTIVE"}

\* Mutant: no transition clears client->activated.
ActivatedKept(state) == sActivated

\* rdp_server_transition_to_state: leaving a state in which the peer is not active
\* (from CONNECTION_STATE_RDP_SECURITY_COMMENCEMENT on) clears client->activated.
ActivatedAfterLeaving(state) == sActivated /\ state \in ActivePeerStates

\* rdp_server_accept_mcs_connect_initial: the client's GCC blocks are merged into the
\* settings, then answered.
ConnectResponse(settings, messageChannel) ==
    [type |-> "ConnectResponse",
     caps |-> [skipJoin |-> settings.skipJoin,
               messageChannel |-> messageChannel,
               multitransport |-> IF settings.multitransport THEN "some" ELSE "no block"]]

ServerConnectInitial ==
    /\ ServerIn("MCS_CREATE_REQUEST")
    /\ IF sPdu.type = "ConnectInitial"
       THEN /\ sSettings' = [sSettings EXCEPT
                                !.skipJoin = @ /\ sPdu.caps.skipJoin,
                                !.monitorLayout = @ /\ sPdu.caps.monitorLayout,
                                !.autoDetect = @ /\ sPdu.caps.autoDetect,
                                !.multitransport = @ /\ sPdu.caps.multitransport]
            /\ sMessageChannel' = sPdu.caps.messageChannel
            /\ ServerSend(<<ConnectResponse(sSettings', sMessageChannel')>>)
            /\ sState' = "MCS_ERECT_DOMAIN"
            /\ ServerSuccess
            /\ UNCHANGED <<sFinalize, sJoined, sLicense, sConnected, sActivated>>
       ELSE ServerReject

\* rdp_server_accept_mcs_erect_domain_request
ServerErectDomain ==
    /\ ServerIn("MCS_ERECT_DOMAIN")
    /\ IF sPdu.type = "ErectDomain"
       THEN /\ sState' = "MCS_ATTACH_USER"
            /\ ServerSuccess
            /\ UNCHANGED <<sFinalize, sJoined, sMessageChannel, sLicense, sSettings,
                           sConnected, sActivated, sOut>>
       ELSE ServerReject

\* rdp_server_accept_mcs_attach_user_request
ServerAttachUser ==
    /\ ServerIn("MCS_ATTACH_USER")
    /\ IF sPdu.type = "AttachUserRequest"
       THEN /\ ServerSend(<<Pdu("AttachUserConfirm")>>)
            /\ sJoined' = IF sSettings.skipJoin THEN Channels ELSE sJoined
            /\ sState' = IF sSettings.skipJoin THEN "RDP_SECURITY_COMMENCEMENT"
                                               ELSE "MCS_CHANNEL_JOIN_REQUEST"
            /\ ServerSuccess
            /\ UNCHANGED <<sFinalize, sMessageChannel, sLicense, sSettings,
                           sConnected, sActivated>>
       ELSE ServerReject

\* Mutant: the message channel does not count.
AnnouncedNoMessageChannel == Channels \ {MessageChannelId}

\* Mutant: the user channel is confirmed and not recorded.
AnnouncedNoUser == Channels \ ({UserId} \cup IF sMessageChannel THEN {} ELSE {MessageChannelId})

\* rdp_server_accept_mcs_channel_join_request: any order is accepted, every request is
\* confirmed, and only the channels that exist are marked joined.
AnnouncedChannels == Channels \ (IF sMessageChannel THEN {} ELSE {MessageChannelId})

ServerChannelJoin ==
    /\ ServerIn("MCS_CHANNEL_JOIN_REQUEST")
    /\ IF sPdu.type = "ChannelJoinRequest"
       THEN /\ ServerSend(<<JoinConfirm(sPdu.channelId)>>)
            /\ sJoined' = sJoined \cup ({sPdu.channelId} \cap AnnouncedChannels)
            /\ sState' = IF AnnouncedChannels \subseteq sJoined'
                         THEN "RDP_SECURITY_COMMENCEMENT" ELSE "MCS_CHANNEL_JOIN_REQUEST"
            /\ ServerSuccess
            /\ UNCHANGED <<sFinalize, sMessageChannel, sLicense, sSettings,
                           sConnected, sActivated>>
       ELSE ServerReject

\* rdp_server_establish_keys; without RDP security the PDU is left for the next state.
ServerEstablishKeys ==
    /\ ServerIn("RDP_SECURITY_COMMENCEMENT")
    /\ IF sSettings.rdpSecurity /\ sPdu.type # "SecurityExchange" THEN ServerReject
       ELSE /\ sState' = "SECURE_SETTINGS_EXCHANGE"
            /\ IF sSettings.rdpSecurity THEN ServerSuccess ELSE ServerRerun
            /\ UNCHANGED <<sFinalize, sJoined, sMessageChannel, sLicense, sSettings,
                           sConnected, sActivated, sOut>>

\* rdp_recv_client_info
ServerClientInfo ==
    /\ ServerIn("SECURE_SETTINGS_EXCHANGE")
    /\ IF sPdu.type = "ClientInfo"
       THEN /\ sState' = "CONNECT_TIME_AUTO_DETECT_REQUEST"
            /\ ServerContinue
            /\ UNCHANGED <<sFinalize, sJoined, sMessageChannel, sLicense, sSettings,
                           sConnected, sActivated, sOut>>
       ELSE ServerReject

-----------------------------------------------------------------------------
\* peer_recv_pdu: what a PDU does to the server.  The handlers below decide on the
\* state that results.

\* rdp_finalize_set_flag for the finalization PDUs of the client.
CsFlag == [Synchronize |-> "CS_SYNCHRONIZE", ControlCooperate |-> "CS_CONTROL_COOPERATE",
           ControlRequest |-> "CS_CONTROL_REQUEST", PersistentKeyList |-> "CS_PERSISTENT_KEY_LIST",
           FontList |-> "CS_FONT_LIST"]

\* license_server_recv; an alert of the client is taken in any state.
ServerLicenseFails(p) ==
    CASE p.type \in {"NewLicenseRequest", "LicenseInfo"} -> sLicense # "REQUEST"
      [] p.type = "PlatformChallengeResponse" -> sLicense # "PLATFORM_CHALLENGE"
      [] OTHER -> FALSE

PeerRecvFails(p) ==
    \/ p.type \notin ClientMessageTypes \cup ClientLicenseTypes \cup ClientDataTypes
                        \cup {"ConfirmActive", "Input"}           \* rdp_read_header
    \/ /\ sState \in LicensingOrEarlier                          \* rdp_handle_message_channel
       /\ p.type # "Input"
       /\ ~sMessageChannel \/ MessageChannelId \notin sJoined
    \/ p.type = "AutoDetectResponse" /\ ~sSettings.autoDetect
    \/ p.type \in ClientLicenseTypes /\ ServerLicenseFails(p)
    \/ p.type = "ConfirmActive" /\ sState # "CAPABILITIES_EXCHANGE_CONFIRM_ACTIVE"
    \/ p.type = "ControlCooperate" /\ "CS_SYNCHRONIZE" \notin sFinalize
    \/ p.type = "ControlRequest" /\ "CS_CONTROL_COOPERATE" \notin sFinalize

PeerStateAfter(p) ==
    CASE p.type = "MultitransportResponse" -> "CAPABILITIES_EXCHANGE_DEMAND_ACTIVE"
      [] p.type = "ConfirmActive" -> "FINALIZATION_SYNC"
      [] p.type = "FontList" -> "ACTIVE"
      [] OTHER -> sState

PeerFinalizeAfter(p) ==
    CASE p.type = "ConfirmActive" -> sFinalize \cap {"DEACTIVATE_REACTIVATE"}
      [] p.type \in DOMAIN CsFlag -> sFinalize \cup {CsFlag[p.type]}
      [] OTHER -> sFinalize

PeerLicenseAfter(p) ==
    CASE p.type \in {"NewLicenseRequest", "LicenseInfo"} -> "PLATFORM_CHALLENGE"
      [] p.type = "PlatformChallengeResponse" -> "COMPLETED"
      [] p.type = "ErrorAlert" -> AfterAlert(p.transition, sLicense)
      [] OTHER -> sLicense

\* Mutant: the Font Map is not sent.
PeerReplyNoFontMap(p) ==
    CASE p.type = "ConfirmActive" -> <<Pdu("Synchronize"), Pdu("ControlCooperate")>>
      [] p.type = "ShutdownRequest" -> <<Pdu("DisconnectUltimatum")>>
      [] OTHER -> <<>>

\* A new licence request is answered with an error alert and with the challenge.
PeerReply(p) ==
    CASE p.type = "NewLicenseRequest" -> <<ErrorAlert("TOTAL_ABORT"), Pdu("PlatformChallenge")>>
      [] p.type = "LicenseInfo" -> <<Pdu("PlatformChallenge")>>
      [] p.type = "PlatformChallengeResponse" -> <<Pdu("NewLicense")>>
      [] p.type = "ConfirmActive" -> <<Pdu("Synchronize"), Pdu("ControlCooperate")>>
      [] p.type = "FontList" -> <<Pdu("FontMap")>>
      [] p.type = "ShutdownRequest" -> <<Pdu("DisconnectUltimatum")>>
      [] OTHER -> <<>>

PeerReturns(p) ==
    IF p.type \in {"MultitransportResponse", "FontList", "PlatformChallengeResponse"}
    THEN ServerContinue
    ELSE IF p.type = "ShutdownRequest" THEN ServerQuit ELSE ServerSuccess

\* peer_recv_pdu with the state it ends in, more PDUs to send and what is returned
\* chosen by the caller.
PeerRecv(p, state, pdus, returns) ==
    /\ sState' = state
    /\ sFinalize' = PeerFinalizeAfter(p)
    /\ sLicense' = PeerLicenseAfter(p)
    /\ sSettings' = IF p.type = "ConfirmActive" THEN [sSettings EXCEPT !.persist = p.persist]
                                                ELSE sSettings
    /\ sActivated' = IF state = sState THEN sActivated ELSE ActivatedAfterLeaving(sState)
    /\ ServerSend(PeerReply(p) \o pdus)
    /\ returns
    /\ UNCHANGED <<sJoined, sMessageChannel, sConnected>>

\* What license_server_recv does when it fails: it aborts the licensing phase, and sends an
\* alert if the PDU has EXTENDED_ERROR_MSG_SUPPORTED.  peer_recv_pdu may fail before it.
LicensingFails(p) == p.type \in ClientLicenseTypes /\ sMessageChannel /\ MessageChannelId \in sJoined
LicenseAlerts(p) == {<<>>} \cup IF LicensingFails(p) THEN {<<ErrorAlert("TOTAL_ABORT")>>} ELSE {}

\* peer_recv_pdu fails, with the state the caller goes to all the same, PDUs it then sends and
\* what it returns.
PeerFails(p, state, pdus, returns) ==
    /\ sState' = state
    /\ sActivated' = IF state = sState THEN sActivated ELSE ActivatedAfterLeaving(sState)
    /\ sLicense' = IF LicensingFails(p) THEN "ABORTED" ELSE sLicense
    /\ \E alert \in LicenseAlerts(p) : ServerSend(alert \o pdus)
    /\ returns
    /\ UNCHANGED <<sFinalize, sJoined, sMessageChannel, sSettings, sConnected>>

PeerReject(p) == PeerFails(p, sState, <<>>, ServerFail)

\* A transition without reading from the stream.
ServerTransition(state, pdus, returns) ==
    /\ sState' = state
    /\ sActivated' = ActivatedAfterLeaving(sState)
    /\ ServerSend(pdus)
    /\ returns
    /\ UNCHANGED <<sFinalize, sJoined, sMessageChannel, sLicense, sSettings, sConnected>>

\* peer_recv_handle_auto_detect with the default handlers of autodetect.c: one RTT
\* measurement, complete with the first response.
ServerAutoDetectRequest ==
    /\ ServerIn("CONNECT_TIME_AUTO_DETECT_REQUEST")
    /\ IF sSettings.autoDetect
       THEN ServerTransition("CONNECT_TIME_AUTO_DETECT_RESPONSE", <<Pdu("AutoDetectRequest")>>,
                             ServerSuccess)
       ELSE ServerTransition("LICENSING", <<>>, ServerRerun)

ServerAutoDetectResponse ==
    /\ ServerIn("CONNECT_TIME_AUTO_DETECT_RESPONSE")
    /\ IF PeerRecvFails(sPdu) THEN PeerReject(sPdu)
       ELSE IF sPdu.type = "AutoDetectResponse"
       THEN PeerRecv(sPdu, "LICENSING", <<>>, ServerContinue)
       ELSE PeerRecv(sPdu, PeerStateAfter(sPdu), <<>>, ServerSuccess)


\* The PDUs for which peer_recv_pdu returns STATE_RUN_CONTINUE here.
LicensingDone(p) == p.type \in {"PlatformChallengeResponse", "MultitransportResponse"}

\* peer_recv_handle_licensing and the transition that follows STATE_RUN_CONTINUE.  Only an
\* alert of the client leaves it with a licence that is COMPLETED or ABORTED.
ServerLicensing ==
    /\ ServerIn("LICENSING")
    /\ IF sLicense = "INITIAL"
       THEN /\ IF sSettings.licenseRequired
               THEN /\ sLicense' = "REQUEST"
                    /\ sState' = "LICENSING"
                    /\ ServerSend(<<Pdu("LicenseRequest")>>)
                    /\ ServerSuccess
               ELSE /\ sLicense' = "COMPLETED"
                    /\ sState' = "MULTITRANSPORT_BOOTSTRAPPING_REQUEST"
                    /\ ServerSend(<<ErrorAlert("VALID_CLIENT")>>)
                    /\ ServerRerun
            /\ UNCHANGED <<sFinalize, sJoined, sMessageChannel, sSettings, sConnected, sActivated>>
       ELSE IF sLicense = "COMPLETED"
       THEN ServerTransition("MULTITRANSPORT_BOOTSTRAPPING_REQUEST", <<>>, ServerRerun)
       ELSE IF sLicense = "ABORTED" THEN ServerReject
       ELSE IF PeerRecvFails(sPdu) THEN PeerReject(sPdu)
       ELSE PeerRecv(sPdu, IF LicensingDone(sPdu)
                           THEN "MULTITRANSPORT_BOOTSTRAPPING_REQUEST" ELSE sState,
                     <<>>, PeerReturns(sPdu))

ServerMultitransportRequest ==
    /\ ServerIn("MULTITRANSPORT_BOOTSTRAPPING_REQUEST")
    /\ IF sSettings.multitransport
       THEN ServerTransition("MULTITRANSPORT_BOOTSTRAPPING_RESPONSE",
                             <<Pdu("MultitransportRequest")>>, ServerSuccess)
       ELSE ServerTransition("CAPABILITIES_EXCHANGE_DEMAND_ACTIVE", <<>>, ServerRerun)

\* States in which the result of peer_recv_pdu is returned as it is.
ServerPlainRecv(state) ==
    /\ ServerIn(state)
    /\ IF PeerRecvFails(sPdu) THEN PeerReject(sPdu)
       ELSE PeerRecv(sPdu, PeerStateAfter(sPdu), <<>>, PeerReturns(sPdu))

ServerMultitransportResponse == ServerPlainRecv("MULTITRANSPORT_BOOTSTRAPPING_RESPONSE")
ServerConfirmActive == ServerPlainRecv("CAPABILITIES_EXCHANGE_CONFIRM_ACTIVE")

\* rdp_peer_handle_state_demand_active
ServerDemandActive ==
    /\ ServerIn("CAPABILITIES_EXCHANGE_DEMAND_ACTIVE")
    /\ ServerTransition("CAPABILITIES_EXCHANGE_MONITOR_LAYOUT", <<Pdu("DemandActive")>>, ServerRerun)

\* The Monitor Layout PDU is sent on the way to the next state; a PDU that is still
\* unread is processed there.
ServerMonitorLayout ==
    /\ ServerIn("CAPABILITIES_EXCHANGE_MONITOR_LAYOUT")
    /\ ServerTransition("CAPABILITIES_EXCHANGE_CONFIRM_ACTIVE",
                        IF sSettings.monitorLayout THEN <<Pdu("MonitorLayout")>> ELSE <<>>,
                        IF sPdu = NoPdu THEN ServerSuccess ELSE ServerRerun)

-----------------------------------------------------------------------------
\* Finalization.  Except in the last of these states a PDU that is not the expected one
\* is ignored, and so is the failure to process it (peer_unexpected_client_message).

\* Mutant: any PDU that can be processed counts as the expected one.
ServerFinalizeAny(state, flag, pdus, next) ==
    /\ ServerIn(state)
    /\ IF PeerRecvFails(sPdu) THEN PeerFails(sPdu, sState, <<>>, ServerSuccess)
       ELSE PeerRecv(sPdu, next, pdus, PeerReturns(sPdu))

ServerFinalize(state, flag, pdus, next) ==
    /\ ServerIn(state)
    /\ IF PeerRecvFails(sPdu)
       THEN IF flag \in sFinalize THEN PeerFails(sPdu, next, pdus, ServerFail)
                                  ELSE PeerFails(sPdu, sState, <<>>, ServerSuccess)
       ELSE IF flag \in PeerFinalizeAfter(sPdu)
       THEN PeerRecv(sPdu, next, pdus, PeerReturns(sPdu))
       ELSE PeerRecv(sPdu, PeerStateAfter(sPdu), <<>>, ServerSuccess)

ServerFinalizeSync ==
    ServerFinalize("FINALIZATION_SYNC", "CS_SYNCHRONIZE", <<>>, "FINALIZATION_COOPERATE")
ServerFinalizeCooperate ==
    ServerFinalize("FINALIZATION_COOPERATE", "CS_CONTROL_COOPERATE", <<>>,
                   "FINALIZATION_REQUEST_CONTROL")
ServerFinalizeRequestControl ==
    ServerFinalize("FINALIZATION_REQUEST_CONTROL", "CS_CONTROL_REQUEST", <<Pdu("ControlGranted")>>,
                   "FINALIZATION_PERSISTENT_KEY_LIST")

\* Mutant: the list is awaited on every activation.
AwaitsKeyListAlways == sSettings.persist

\* The list is awaited only on the first activation of a client that announced it.
AwaitsKeyList == sSettings.persist /\ "DEACTIVATE_REACTIVATE" \notin sFinalize

ServerFinalizeKeyList ==
    IF AwaitsKeyList
    THEN ServerFinalize("FINALIZATION_PERSISTENT_KEY_LIST", "CS_PERSISTENT_KEY_LIST", <<>>,
                        "FINALIZATION_FONT_LIST")
    ELSE /\ ServerIn("FINALIZATION_PERSISTENT_KEY_LIST")
         /\ ServerTransition("FINALIZATION_FONT_LIST", <<>>, ServerRerun)

ServerFinalizeFontList ==
    /\ ServerIn("FINALIZATION_FONT_LIST")
    /\ IF PeerRecvFails(sPdu) THEN PeerReject(sPdu)
       ELSE IF sPdu.type = "ShutdownRequest" THEN PeerRecv(sPdu, sState, <<>>, ServerQuit)
       ELSE IF "CS_FONT_LIST" \in PeerFinalizeAfter(sPdu)
       THEN PeerRecv(sPdu, "ACTIVE", <<>>, ServerContinue)
       ELSE PeerRecv(sPdu, PeerStateAfter(sPdu), <<>>, ServerSuccess)

\* rdp_peer_handle_state_active: the first call after an activation calls PostConnect (once
\* per connection) and Activate, and leaves the stream alone.
ServerActivate ==
    /\ ServerIn("ACTIVE") /\ ~sActivated
    /\ sConnected' = TRUE
    /\ sActivated' = TRUE
    /\ ServerSuccess
    /\ UNCHANGED <<sState, sFinalize, sJoined, sMessageChannel, sLicense, sSettings, sOut>>

ServerActive == sActivated /\ ServerPlainRecv("ACTIVE")

-----------------------------------------------------------------------------
\* The server application, on the thread that runs peer_recv_callback.

\* Mutant: the desktop is resized whether or not the client is activated.
ServerReactivateAnyTime ==
    /\ sRun = "idle" /\ sConnected /\ sOut = <<>>
    /\ sActivated' = FALSE
    /\ sFinalize' = sFinalize \cup {"DEACTIVATE_REACTIVATE"}
    /\ sState' = "CAPABILITIES_EXCHANGE_MONITOR_LAYOUT"
    /\ ServerSend(<<Pdu("DeactivateAll"), Pdu("DemandActive")>>)
    /\ UNCHANGED <<sRun, sPdu, sJoined, sMessageChannel, sLicense, sSettings, sConnected>>

\* update->DesktopResize, that is rdp_server_reactivate, as the shadow server uses it:
\* only for an activated client (shadow_client.c).
ServerReactivate ==
    /\ sRun = "idle" /\ sActivated
    /\ sActivated' = FALSE
    /\ sFinalize' = sFinalize \cup {"DEACTIVATE_REACTIVATE"}
    /\ sState' = "CAPABILITIES_EXCHANGE_MONITOR_LAYOUT"
    /\ ServerSend(<<Pdu("DeactivateAll"), Pdu("DemandActive")>>)
    /\ UNCHANGED <<sRun, sPdu, sJoined, sMessageChannel, sLicense, sSettings, sConnected>>

\* Graphics for an activated client.
ServerUpdate ==
    /\ sRun = "idle" /\ sActivated
    /\ Len(sOut) < MaxUpdates
    /\ ServerSend(<<Pdu("FastPathUpdate")>>)
    /\ UNCHANGED <<sState, sRun, sPdu, sFinalize, sJoined, sMessageChannel, sLicense,
                   sSettings, sConnected, sActivated>>

\* Static channels are open from PostConnect on, also during a reactivation.
ServerChannelData ==
    /\ sRun = "idle" /\ sConnected /\ ChannelCount > 0
    /\ Len(sOut) < MaxUpdates
    /\ ServerSend(<<Pdu("ChannelData")>>)
    /\ UNCHANGED <<sState, sRun, sPdu, sFinalize, sJoined, sMessageChannel, sLicense,
                   sSettings, sConnected, sActivated>>

\* freerdp_peer_close, in whatever state the connection is, also when a handler has failed (the
\* sample server and the proxy at the end of their loops); the application then drops the peer.
ServerClose ==
    /\ sRun \in {"idle", "failed"}
    /\ sRun' = "closed"
    /\ \E info \in {<<>>, <<Pdu("ErrorInfo")>>} :
           ServerSend(<<Pdu("DeactivateAll")>> \o info \o <<Pdu("DisconnectUltimatum")>>)
    /\ UNCHANGED <<sState, sPdu, sFinalize, sJoined, sMessageChannel, sLicense,
                   sSettings, sConnected, sActivated>>

\* peer_recv_callback is called with a PDU from the transport.
ServerReceive(p) ==
    /\ sRun = "idle"
    /\ sRun' = "run" /\ sPdu' = p
    /\ UNCHANGED <<sState, sFinalize, sJoined, sMessageChannel, sLicense, sSettings,
                   sConnected, sActivated, sOut>>

\* One call of peer_recv_callback_internal.
ServerStep ==
    \/ ServerConnectInitial
    \/ ServerErectDomain
    \/ ServerAttachUser
    \/ ServerChannelJoin
    \/ ServerEstablishKeys
    \/ ServerClientInfo
    \/ ServerAutoDetectRequest
    \/ ServerAutoDetectResponse
    \/ ServerLicensing
    \/ ServerMultitransportRequest
    \/ ServerMultitransportResponse
    \/ ServerDemandActive
    \/ ServerMonitorLayout
    \/ ServerConfirmActive
    \/ ServerFinalizeSync
    \/ ServerFinalizeCooperate
    \/ ServerFinalizeRequestControl
    \/ ServerFinalizeKeyList
    \/ ServerFinalizeFontList
    \/ ServerActivate
    \/ ServerActive

\* The session of an activated client is closed.
ServerCloseSession == sRun = "idle" /\ sActivated /\ ServerClose

ServerApplication ==
    ServerReactivate \/ ServerUpdate \/ ServerChannelData \/ ServerCloseSession

=============================================================================
