------------------------------ MODULE RdpClient ------------------------------
(***************************************************************************)
(* The client end of an RDP connection after security negotiation:         *)
(* rdp_recv_callback and its handlers (libfreerdp/core/rdp.c,              *)
(* connection.c, activation.c, license.c).                                 *)
(*                                                                         *)
(* rdp_recv_callback runs rdp_recv_callback_int on the received PDU until  *)
(* a call asks neither for STATE_RUN_CONTINUE nor for STATE_RUN_TRY_AGAIN. *)
(* Each such call is a step here, one action per case of its switch; the   *)
(* batch of rdp_client_connect_finalize takes one step per PDU, because    *)
(* the state it moves through is what lets another thread send input.      *)
(***************************************************************************)
EXTENDS RdpTypes

CONSTANTS ClientConfigs,     \* the settings a client may be started with
          MaxInput           \* bound on PDUs in flight for input to be sent

VARIABLES cState,            \* rdp->state
          cRun,              \* progress of rdp_recv_callback
          cPdu,              \* the PDU it works on
          cFinalize,         \* rdp->finalize_sc_pdus
          cMonitorLayout,    \* rdp->monitor_layout_pdu
          cJoined,           \* the channels whose joined flag is set in rdp->mcs
          cMessageChannel,   \* rdp->mcs->messageChannelId # 0
          cLicense,          \* rdp->license->state
          cSettings,         \* the negotiated part of rdp->settings
          cOut               \* PDUs sent and not yet received

clientVars == <<cState, cRun, cPdu, cFinalize, cMonitorLayout, cJoined,
                cMessageChannel, cLicense, cSettings, cOut>>

\* skipJoin, monitorLayout: SupportSkipChannelJoin, SupportMonitorLayoutPdu;
\* autoDetect: NetworkAutoDetect; heartbeat: SupportHeartbeatPdu;
\* multitransport: SupportMultitransport with some MultitransportFlags;
\* persist: BitmapCachePersistEnabled; rdpSecurity: UseRdpSecurityLayer;
\* cal: a client access licence is stored for the server.
ClientSettings ==
    [skipJoin : BOOLEAN, monitorLayout : BOOLEAN, autoDetect : BOOLEAN, heartbeat : BOOLEAN,
     multitransport : BOOLEAN, persist : BOOLEAN, rdpSecurity : BOOLEAN, cal : BOOLEAN]

ASSUME ClientConfigsAssumption == ClientConfigs \subseteq ClientSettings
ASSUME MaxInputAssumption == MaxInput \in Nat

ClientRunStates == {"idle", "run", "failed", "closed", "redirect"}

ClientTypeOK ==
    /\ cState \in ConnectionStates
    /\ cRun \in ClientRunStates
    /\ cPdu \in ServerPdus \cup {NoPdu}
    /\ cFinalize \subseteq ServerFlags \cup {"DEACTIVATE_REACTIVATE"}
    /\ cMonitorLayout \in BOOLEAN
    /\ cJoined \subseteq Channels
    /\ cMessageChannel \in BOOLEAN
    /\ cLicense \in LicenseStates
    /\ cSettings \in ClientSettings
    /\ cOut \in Seq(ClientPdus)

\* rdp_client_connect feeds an empty stream to rdp_recv_callback once nego_connect is done.
ClientInit ==
    /\ cState = "NEGO" /\ cRun = "run" /\ cPdu = NoPdu
    /\ cFinalize = {} /\ cMonitorLayout = FALSE
    /\ cJoined = {} /\ cMessageChannel = FALSE
    /\ cLicense = "INITIAL"
    /\ cSettings \in ClientConfigs
    /\ cOut = <<>>

-----------------------------------------------------------------------------
\* What rdp_recv_callback_int returns, and the effect on the loop around it.
ClientSuccess == cRun' = "idle" /\ cPdu' = NoPdu              \* STATE_RUN_SUCCESS
ClientTryAgain == UNCHANGED <<cRun, cPdu>>                    \* STATE_RUN_TRY_AGAIN
ClientContinue == cRun' = "run" /\ cPdu' = NoPdu              \* STATE_RUN_CONTINUE, PDU consumed
ClientFail == cRun' = "failed" /\ cPdu' = NoPdu               \* STATE_RUN_FAILED
ClientQuit == cRun' = "closed" /\ cPdu' = NoPdu               \* aborted by utils_abort_connect

ClientSend(pdus) == cOut' = cOut \o pdus

\* The handler fails and leaves everything but the loop alone.
ClientReject ==
    /\ ClientFail
    /\ UNCHANGED <<cState, cFinalize, cMonitorLayout, cJoined, cMessageChannel,
                   cLicense, cSettings, cOut>>

ClientIn(state) == cRun = "run" /\ cState = state

\* CONNECTION_STATE_NEGO, then CONNECTION_STATE_MCS_CREATE_REQUEST on the empty stream.
ClientBegin ==
    /\ ClientIn("NEGO")
    /\ cState' = "MCS_CREATE_REQUEST"
    /\ ClientContinue
    /\ UNCHANGED <<cFinalize, cMonitorLayout, cJoined, cMessageChannel, cLicense, cSettings, cOut>>

\* mcs_client_begin with the GCC blocks of gcc_write_client_data_blocks.
ConnectInitial ==
    [type |-> "ConnectInitial",
     caps |-> [skipJoin |-> cSettings.skipJoin,
               monitorLayout |-> cSettings.monitorLayout,
               autoDetect |-> cSettings.autoDetect,
               messageChannel |-> cSettings.autoDetect \/ cSettings.heartbeat
                                    \/ cSettings.multitransport,
               multitransport |-> cSettings.multitransport]]

ClientMcsCreateRequest ==
    /\ ClientIn("MCS_CREATE_REQUEST")
    /\ ClientSend(<<ConnectInitial>>)
    /\ cState' = "MCS_CREATE_RESPONSE"
    /\ ClientSuccess
    /\ UNCHANGED <<cFinalize, cMonitorLayout, cJoined, cMessageChannel, cLicense, cSettings>>

\* mcs_recv_connect_response: the server's blocks are merged into the settings.
ClientMcsCreateResponse ==
    /\ ClientIn("MCS_CREATE_RESPONSE")
    /\ IF cPdu.type = "ConnectResponse"
       THEN /\ cSettings' = [cSettings EXCEPT
                                !.skipJoin = @ /\ cPdu.caps.skipJoin,
                                !.multitransport = @ /\ cPdu.caps.multitransport # "none"]
            /\ cMessageChannel' = cPdu.caps.messageChannel
            /\ ClientSend(<<Pdu("ErectDomain"), Pdu("AttachUserRequest")>>)
            /\ cState' = "MCS_ATTACH_USER_CONFIRM"
            /\ ClientSuccess
            /\ UNCHANGED <<cFinalize, cMonitorLayout, cJoined, cLicense>>
       ELSE ClientReject

-----------------------------------------------------------------------------
\* Channel join.

\* rdp_client_establish_keys and rdp_send_client_info
ClientInfoPdus ==
    (IF cSettings.rdpSecurity THEN <<Pdu("SecurityExchange")>> ELSE <<>>) \o <<Pdu("ClientInfo")>>

\* Mutant: the message channel is never joined.
ExpectedNoMessageChannel(joined) ==
    IF UserId \notin joined THEN {UserId}
    ELSE IF MCS_GLOBAL_CHANNEL_ID \notin joined THEN {MCS_GLOBAL_CHANNEL_ID}
    ELSE {c \in StaticChannels \ joined : \A d \in StaticChannels \ joined : c <= d}

\* The channel the next confirm must name: user, global, message, then the static
\* channels in order; none when all are joined.
Expected(joined) ==
    IF UserId \notin joined THEN {UserId}
    ELSE IF MCS_GLOBAL_CHANNEL_ID \notin joined THEN {MCS_GLOBAL_CHANNEL_ID}
    ELSE IF cMessageChannel /\ MessageChannelId \notin joined THEN {MessageChannelId}
    ELSE {c \in StaticChannels \ joined : \A d \in StaticChannels \ joined : c <= d}

\* Join the next channel, or send the client info once every channel is joined.
JoinNextOrSendInfo(joined) ==
    IF Expected(joined) = {}
    THEN /\ cState' = "CONNECT_TIME_AUTO_DETECT_REQUEST"
         /\ ClientSend(ClientInfoPdus)
    ELSE /\ cState' = "MCS_CHANNEL_JOIN_RESPONSE"
         /\ \E c \in Expected(joined) : ClientSend(<<JoinRequest(c)>>)

\* With SKIP_CHANNELJOIN all channels count as joined, the message channel even
\* when the server did not announce one.
ClientAttachUserConfirm ==
    /\ ClientIn("MCS_ATTACH_USER_CONFIRM")
    /\ IF cPdu.type = "AttachUserConfirm"
       THEN /\ cJoined' = IF cSettings.skipJoin THEN Channels ELSE cJoined
            /\ JoinNextOrSendInfo(cJoined')
            /\ ClientSuccess
            /\ UNCHANGED <<cFinalize, cMonitorLayout, cMessageChannel, cLicense, cSettings>>
       ELSE ClientReject

\* rdp_client_connect_mcs_channel_join_confirm
ClientChannelJoinConfirm ==
    /\ ClientIn("MCS_CHANNEL_JOIN_RESPONSE")
    /\ IF cPdu.type = "ChannelJoinConfirm" /\ cPdu.channelId \in Expected(cJoined)
       THEN /\ cJoined' = cJoined \cup {cPdu.channelId}
            /\ JoinNextOrSendInfo(cJoined')
            /\ ClientSuccess
            /\ UNCHANGED <<cFinalize, cMonitorLayout, cMessageChannel, cLicense, cSettings>>
       ELSE ClientReject

-----------------------------------------------------------------------------
\* license_client_recv

LicenseFails(p) ==
    CASE p.type = "LicenseRequest" -> cLicense \notin {"INITIAL", "CONFIGURED"}
      [] p.type = "PlatformChallenge" -> cLicense # "NEW_REQUEST"
      [] p.type = "NewLicense" -> cLicense # "PLATFORM_CHALLENGE_RESPONSE"
      [] p.type = "ErrorAlert" -> FALSE
      [] OTHER -> TRUE

LicenseAfter(p) ==
    CASE p.type = "LicenseRequest" -> "NEW_REQUEST"
      [] p.type = "PlatformChallenge" -> "PLATFORM_CHALLENGE_RESPONSE"
      [] p.type = "NewLicense" -> "COMPLETED"
      [] p.type = "ErrorAlert" -> AfterAlert(p.transition, cLicense)

LicenseReply(p) ==
    CASE p.type = "LicenseRequest" ->
             <<Pdu(IF cSettings.cal THEN "LicenseInfo" ELSE "NewLicenseRequest")>>
      [] p.type = "PlatformChallenge" -> <<Pdu("PlatformChallengeResponse")>>
      [] OTHER -> <<>>

-----------------------------------------------------------------------------
\* The MCS message channel: connect-time auto-detection, multitransport, and licensing PDUs,
\* which rdp_recv_message_channel_pdu passes on whatever the state.

OnMessageChannel(p) == p.type \in ServerMessageTypes

\* rdp_handle_message_channel and the handler it dispatches to
MessageFails(p) ==
    \/ ~cMessageChannel \/ MessageChannelId \notin cJoined
    \/ p.type = "AutoDetectRequest" /\ ~cSettings.autoDetect
    \/ p.type = "LicenseMessage" /\ LicenseFails(p.pdu)

\* autodetect_send_rtt_measure_response, multitransport_no_udp
MessageReply(p) ==
    CASE p.type = "AutoDetectRequest" -> <<Pdu("AutoDetectResponse")>>
      [] p.type = "MultitransportRequest" -> <<Pdu("MultitransportResponse")>>
      [] p.type = "LicenseMessage" -> LicenseReply(p.pdu)
      [] OTHER -> <<>>

\* Nobody looks at the licensing state that a PDU on the message channel leaves.
MessageLicense(p) == IF p.type = "LicenseMessage" THEN LicenseAfter(p.pdu) ELSE cLicense

\* rdp_client_connect_auto_detect: anything else is left to the next state.
ClientAutoDetect(state, next) ==
    /\ ClientIn(state)
    /\ IF OnMessageChannel(cPdu) /\ ~MessageFails(cPdu)
       THEN /\ ClientSend(MessageReply(cPdu))
            /\ cLicense' = MessageLicense(cPdu)
            /\ ClientSuccess
            /\ UNCHANGED cState
       ELSE /\ cState' = next
            /\ ClientTryAgain
            /\ UNCHANGED <<cLicense, cOut>>
    /\ UNCHANGED <<cFinalize, cMonitorLayout, cJoined, cMessageChannel, cSettings>>

-----------------------------------------------------------------------------
\* The licensing phase.

\* Mutant: any progress but an abort or a first request ends the phase.
LicensedStateEarly(license) ==
    IF license \in {"NEW_REQUEST", "ABORTED"} THEN cState ELSE "CAPABILITIES_EXCHANGE_DEMAND_ACTIVE"

\* Where the client goes with the licensing state it has reached.
LicensedState(license) ==
    IF license # "COMPLETED" THEN cState
    ELSE IF cSettings.multitransport THEN "MULTITRANSPORT_BOOTSTRAPPING_REQUEST"
    ELSE "CAPABILITIES_EXCHANGE_DEMAND_ACTIVE"

\* rdp_client_connect_license: message channel PDUs may come in between.
ClientLicensing ==
    /\ ClientIn("LICENSING")
    /\ IF OnMessageChannel(cPdu) /\ ~MessageFails(cPdu)
       THEN /\ ClientSend(MessageReply(cPdu))
            /\ cLicense' = MessageLicense(cPdu)
            /\ ClientSuccess
            /\ UNCHANGED cState
       ELSE IF LicenseFails(cPdu)
       THEN ClientFail /\ UNCHANGED <<cState, cLicense, cOut>>
       ELSE /\ cLicense' = LicenseAfter(cPdu)
            /\ ClientSend(LicenseReply(cPdu))
            /\ cState' = LicensedState(cLicense')
            /\ IF cLicense' = "ABORTED" THEN ClientFail ELSE ClientSuccess
    /\ UNCHANGED <<cFinalize, cMonitorLayout, cJoined, cMessageChannel, cSettings>>

-----------------------------------------------------------------------------
\* rdp_recv_pdu: what a PDU does to the client outside the connection phases that
\* read it themselves.  The handlers below decide on the state that results.

\* rdp_finalize_set_flag for the finalization PDUs of the server.
ScFlag == [Synchronize |-> "SC_SYNCHRONIZE", ControlCooperate |-> "SC_CONTROL_COOPERATE",
           ControlGranted |-> "SC_CONTROL_GRANTED", FontMap |-> "SC_FONT_MAP"]

RecvFails(p) ==
    \/ p.type \in ServerMcsTypes                              \* rdp_read_header
    \/ p.type = "MonitorLayout" /\ cMonitorLayout             \* rdp_set_monitor_layout_pdu_state
    \/ OnMessageChannel(p) /\ MessageFails(p)

\* Mutant: Deactivate All is not acted upon.
StateAfterNoDeactivate(p) == cState

\* rdp_recv_deactivate_all transitions at once.
StateAfter(p) == IF p.type = "DeactivateAll" THEN "CAPABILITIES_EXCHANGE_DEMAND_ACTIVE" ELSE cState

FinalizeAfter(p) ==
    cFinalize \cup (IF p.type \in DOMAIN ScFlag THEN {ScFlag[p.type]} ELSE {})
              \cup (IF p.type = "DeactivateAll" /\ cState = "ACTIVE"
                    THEN {"DEACTIVATE_REACTIVATE"} ELSE {})

MonitorLayoutAfter(p) == cMonitorLayout \/ p.type = "MonitorLayout"

RecvReturns(p) ==
    CASE p.type = "DisconnectUltimatum" -> ClientQuit
      [] p.type = "ServerRedirection" -> cRun' = "redirect" /\ cPdu' = NoPdu
      [] OTHER -> ClientSuccess

\* rdp_recv_pdu with the state it ends in chosen by the caller.
RecvPdu(p, state, returns) ==
    /\ cState' = state
    /\ cFinalize' = FinalizeAfter(p)
    /\ cMonitorLayout' = MonitorLayoutAfter(p)
    /\ cLicense' = MessageLicense(p)
    /\ ClientSend(MessageReply(p))
    /\ returns
    /\ UNCHANGED <<cJoined, cMessageChannel, cSettings>>

\* rdp_client_connect_demand_active.  Channel and fast-path data are refused by
\* rdp_recv_get_active_header, a Deactivate All by rdp_recv_out_of_sequence_pdu.
ClientDemandActive ==
    /\ ClientIn("CAPABILITIES_EXCHANGE_DEMAND_ACTIVE")
    /\ IF cPdu.type = "DemandActive"
       THEN RecvPdu(cPdu, "CAPABILITIES_EXCHANGE_CONFIRM_ACTIVE", ClientContinue)
       ELSE IF /\ cPdu.type \in ServerDataTypes \cup ServerMessageTypes
                                   \cup {"ServerRedirection", "DisconnectUltimatum"}
               /\ ~RecvFails(cPdu)
       THEN RecvPdu(cPdu, cState, RecvReturns(cPdu))
       ELSE ClientReject

\* Mutant: the flags are not reset.
KeepFinalizeFlags ==
    /\ UNCHANGED cFinalize
    /\ cMonitorLayout' = FALSE

\* Mutant: rdp_finalize_reset_flags(rdp, TRUE)
ResetAllFinalizeFlags ==
    /\ cFinalize' = {}
    /\ cMonitorLayout' = FALSE

\* rdp_finalize_reset_flags(rdp, FALSE)
ResetFinalizeFlags ==
    /\ cFinalize' = cFinalize \cap {"DEACTIVATE_REACTIVATE"}
    /\ cMonitorLayout' = FALSE

\* rdp_client_connect_confirm_active.  Without a Monitor Layout PDU to wait for, the
\* batch of rdp_client_connect_finalize runs first and the flags are reset after it.
ClientConfirmActive ==
    /\ ClientIn("CAPABILITIES_EXCHANGE_CONFIRM_ACTIVE")
    /\ ClientSend(<<[type |-> "ConfirmActive", persist |-> cSettings.persist]>>)
    /\ IF cSettings.monitorLayout
       THEN /\ cState' = "CAPABILITIES_EXCHANGE_MONITOR_LAYOUT"
            /\ ResetFinalizeFlags
            /\ ClientSuccess
       ELSE /\ cState' = "FINALIZATION_SYNC"
            /\ ClientContinue
            /\ UNCHANGED <<cFinalize, cMonitorLayout>>
    /\ UNCHANGED <<cJoined, cMessageChannel, cLicense, cSettings>>

\* rdp_client_exchange_monitor_layout: the PDU is optional, so a finalize PDU starts the
\* batch as well and is then looked at again in the state the batch ends in.
ClientMonitorLayout ==
    /\ ClientIn("CAPABILITIES_EXCHANGE_MONITOR_LAYOUT")
    /\ IF cMonitorLayout \/ RecvFails(cPdu) THEN ClientReject
       ELSE IF FinalizeAfter(cPdu) = cFinalize /\ ~MonitorLayoutAfter(cPdu)
       THEN RecvPdu(cPdu, StateAfter(cPdu), RecvReturns(cPdu))
       ELSE IF ~MonitorLayoutAfter(cPdu) /\ "SC_SYNCHRONIZE" \notin FinalizeAfter(cPdu)
       THEN RecvPdu(cPdu, cState, ClientFail)
       ELSE RecvPdu(cPdu, "FINALIZATION_SYNC", ClientTryAgain)

-----------------------------------------------------------------------------
\* rdp_client_connect_finalize, one step per PDU.

SendFinalizePdu(state, pdu, next) ==
    /\ ClientIn(state)
    /\ ClientSend(<<Pdu(pdu)>>)
    /\ cState' = next
    /\ UNCHANGED <<cRun, cPdu, cFinalize, cMonitorLayout, cJoined, cMessageChannel,
                   cLicense, cSettings>>

SendSynchronize == SendFinalizePdu("FINALIZATION_SYNC", "Synchronize", "FINALIZATION_COOPERATE")

SendCooperate ==
    SendFinalizePdu("FINALIZATION_COOPERATE", "ControlCooperate", "FINALIZATION_REQUEST_CONTROL")

\* Mutant: the test for a reactivation is inverted.
SendsKeyListAgain == "DEACTIVATE_REACTIVATE" \in cFinalize /\ cSettings.persist

\* The persistent key list is not sent again during a deactivation-reactivation sequence.
SendsKeyList == "DEACTIVATE_REACTIVATE" \notin cFinalize /\ cSettings.persist

SendRequestControl ==
    SendFinalizePdu("FINALIZATION_REQUEST_CONTROL", "ControlRequest",
                    IF SendsKeyList THEN "FINALIZATION_PERSISTENT_KEY_LIST"
                                    ELSE "FINALIZATION_FONT_LIST")

SendPersistentKeyList ==
    SendFinalizePdu("FINALIZATION_PERSISTENT_KEY_LIST", "PersistentKeyList",
                    "FINALIZATION_FONT_LIST")

\* The end of the batch, back in rdp_client_connect_confirm_active or
\* rdp_client_exchange_monitor_layout.
SendFontList ==
    /\ ClientIn("FINALIZATION_FONT_LIST")
    /\ ClientSend(<<Pdu("FontList")>>)
    /\ cState' = "FINALIZATION_CLIENT_SYNC"
    /\ IF ~cSettings.monitorLayout
       THEN ResetFinalizeFlags /\ ClientSuccess
       ELSE /\ IF cMonitorLayout THEN ClientSuccess ELSE ClientTryAgain
            /\ UNCHANGED <<cFinalize, cMonitorLayout>>
    /\ UNCHANGED <<cJoined, cMessageChannel, cLicense, cSettings>>

\* rdp_handle_sc_flags
HandleScFlags(state, flag, next) ==
    /\ ClientIn(state)
    /\ IF RecvFails(cPdu) THEN ClientReject
       ELSE IF flag \in FinalizeAfter(cPdu)
       THEN RecvPdu(cPdu, next,
                    IF cPdu.type = "DisconnectUltimatum" THEN ClientQuit ELSE ClientSuccess)
       ELSE RecvPdu(cPdu, StateAfter(cPdu), RecvReturns(cPdu))

ClientFinalizeSync ==
    HandleScFlags("FINALIZATION_CLIENT_SYNC", "SC_SYNCHRONIZE", "FINALIZATION_CLIENT_COOPERATE")
ClientFinalizeCooperate ==
    HandleScFlags("FINALIZATION_CLIENT_COOPERATE", "SC_CONTROL_COOPERATE",
                  "FINALIZATION_CLIENT_GRANTED_CONTROL")
ClientFinalizeGrantedControl ==
    HandleScFlags("FINALIZATION_CLIENT_GRANTED_CONTROL", "SC_CONTROL_GRANTED",
                  "FINALIZATION_CLIENT_FONT_MAP")
ClientFinalizeFontMap ==
    HandleScFlags("FINALIZATION_CLIENT_FONT_MAP", "SC_FONT_MAP", "ACTIVE")

ClientActive ==
    /\ ClientIn("ACTIVE")
    /\ IF RecvFails(cPdu) THEN ClientReject
       ELSE RecvPdu(cPdu, StateAfter(cPdu), RecvReturns(cPdu))

-----------------------------------------------------------------------------
\* Input from the user interface thread: sent whenever rdp_is_active_state holds.
ClientInput ==
    /\ cState \in ActiveClientStates
    /\ cRun \in {"idle", "run"}
    /\ Len(cOut) < MaxInput
    /\ ClientSend(<<Pdu("Input")>>)
    /\ UNCHANGED <<cState, cRun, cPdu, cFinalize, cMonitorLayout, cJoined,
                   cMessageChannel, cLicense, cSettings>>

\* rdp_recv_callback is called with a PDU from the transport.
ClientReceive(p) ==
    /\ cRun = "idle"
    /\ cRun' = "run" /\ cPdu' = p
    /\ UNCHANGED <<cState, cFinalize, cMonitorLayout, cJoined, cMessageChannel,
                   cLicense, cSettings, cOut>>

\* rdp_client_reconnect and rdp_client_redirect: rdp_reset frees the MCS, licence and
\* transport objects and clears every finalize flag; the merged settings stay.
ClientReset ==
    /\ cRun \in {"idle", "failed", "closed", "redirect"}
    /\ cState' = "NEGO" /\ cRun' = "run" /\ cPdu' = NoPdu
    /\ cFinalize' = {} /\ cMonitorLayout' = FALSE
    /\ cJoined' = {} /\ cMessageChannel' = FALSE
    /\ cLicense' = "INITIAL"
    /\ cOut' = <<>>
    /\ UNCHANGED cSettings

\* One call of rdp_recv_callback_int (or one PDU of the batch inside one).
ClientStep ==
    \/ ClientBegin
    \/ ClientMcsCreateRequest
    \/ ClientMcsCreateResponse
    \/ ClientAttachUserConfirm
    \/ ClientChannelJoinConfirm
    \/ ClientAutoDetect("CONNECT_TIME_AUTO_DETECT_REQUEST", "LICENSING")
    \/ ClientLicensing
    \/ ClientAutoDetect("MULTITRANSPORT_BOOTSTRAPPING_REQUEST",
                        "CAPABILITIES_EXCHANGE_DEMAND_ACTIVE")
    \/ ClientDemandActive
    \/ ClientConfirmActive
    \/ ClientMonitorLayout
    \/ SendSynchronize
    \/ SendCooperate
    \/ SendRequestControl
    \/ SendPersistentKeyList
    \/ SendFontList
    \/ ClientFinalizeSync
    \/ ClientFinalizeCooperate
    \/ ClientFinalizeGrantedControl
    \/ ClientFinalizeFontMap
    \/ ClientActive

=============================================================================
