------------------------------ MODULE RdpTypes ------------------------------
(***************************************************************************)
(* The vocabulary shared by the two ends of an RDP connection: the states  *)
(* of CONNECTION_STATE (include/freerdp/types.h), the finalize flags of    *)
(* rdpFinalizePduType (libfreerdp/core/rdp.h), the MCS channels and the    *)
(* PDUs that the two state machines tell apart.  PDU payloads are kept     *)
(* only where a state machine reads them.                                  *)
(***************************************************************************)
EXTENDS Naturals, Sequences

CONSTANT ChannelCount        \* number of static virtual channels (rdpMcs::channelCount)

ASSUME ChannelCountAssumption == ChannelCount \in Nat

\* MCS channel ids.  The server numbers the static channels from
\* MCS_GLOBAL_CHANNEL_ID + 1 on, then the message channel, then the user channel.
MCS_GLOBAL_CHANNEL_ID == 1003
StaticChannels == MCS_GLOBAL_CHANNEL_ID + 1 .. MCS_GLOBAL_CHANNEL_ID + ChannelCount
MessageChannelId == MCS_GLOBAL_CHANNEL_ID + ChannelCount + 1
UserId == MCS_GLOBAL_CHANNEL_ID + ChannelCount + 2
Channels == {UserId, MCS_GLOBAL_CHANNEL_ID, MessageChannelId} \cup StaticChannels

\* The MCS connection, until all channels are joined.
McsStates ==
    { "NEGO", "MCS_CREATE_REQUEST", "MCS_CREATE_RESPONSE", "MCS_ERECT_DOMAIN",
      "MCS_ATTACH_USER", "MCS_ATTACH_USER_CONFIRM", "MCS_CHANNEL_JOIN_REQUEST",
      "MCS_CHANNEL_JOIN_RESPONSE" }

\* rdp_get_state(rdp) <= CONNECTION_STATE_LICENSING
LicensingOrEarlier ==
    McsStates \cup { "RDP_SECURITY_COMMENCEMENT", "SECURE_SETTINGS_EXCHANGE",
                     "CONNECT_TIME_AUTO_DETECT_REQUEST", "CONNECT_TIME_AUTO_DETECT_RESPONSE",
                     "LICENSING" }

CapabilityStates ==
    { "MULTITRANSPORT_BOOTSTRAPPING_REQUEST", "MULTITRANSPORT_BOOTSTRAPPING_RESPONSE",
      "CAPABILITIES_EXCHANGE_DEMAND_ACTIVE", "CAPABILITIES_EXCHANGE_MONITOR_LAYOUT",
      "CAPABILITIES_EXCHANGE_CONFIRM_ACTIVE" }

\* Finalization, client to server.
FinalizationStates ==
    { "FINALIZATION_SYNC", "FINALIZATION_COOPERATE", "FINALIZATION_REQUEST_CONTROL",
      "FINALIZATION_PERSISTENT_KEY_LIST", "FINALIZATION_FONT_LIST" }

\* Finalization, server to client.
ClientFinalizationStates ==
    { "FINALIZATION_CLIENT_SYNC", "FINALIZATION_CLIENT_COOPERATE",
      "FINALIZATION_CLIENT_GRANTED_CONTROL", "FINALIZATION_CLIENT_FONT_MAP" }

ConnectionStates ==
    LicensingOrEarlier \cup CapabilityStates \cup FinalizationStates
        \cup ClientFinalizationStates \cup {"ACTIVE"}

\* rdp_is_active_client_state: input may be sent.
ActiveClientStates == FinalizationStates \cup ClientFinalizationStates \cup {"ACTIVE"}

\* rdpFinalizePduType
ServerFlags == { "SC_SYNCHRONIZE", "SC_CONTROL_COOPERATE", "SC_CONTROL_GRANTED", "SC_FONT_MAP" }
ClientFlags == { "CS_SYNCHRONIZE", "CS_CONTROL_COOPERATE", "CS_CONTROL_REQUEST",
                 "CS_PERSISTENT_KEY_LIST", "CS_FONT_LIST" }
FinalizeFlags == ServerFlags \cup ClientFlags \cup {"DEACTIVATE_REACTIVATE"}

LicenseStates == { "INITIAL", "CONFIGURED", "REQUEST", "NEW_REQUEST", "PLATFORM_CHALLENGE",
                   "PLATFORM_CHALLENGE_RESPONSE", "COMPLETED", "ABORTED" }

\* What the client announces in the GCC blocks of Connect-Initial, and what the
\* server answers in those of Connect-Response.
ClientCaps == [skipJoin : BOOLEAN, monitorLayout : BOOLEAN, autoDetect : BOOLEAN,
               messageChannel : BOOLEAN, multitransport : BOOLEAN]
\* multitransport: the flags the server's block shares with the client's, if it sends one.
ServerCaps == [skipJoin : BOOLEAN, messageChannel : BOOLEAN,
               multitransport : {"no block", "some", "none"}]

\* What an ERROR_ALERT asks of the licensing state machine of its receiver.
AlertTransitions == { "VALID_CLIENT", "TOTAL_ABORT", "NO_TRANSITION",
                      "RESET_PHASE_TO_START", "RESEND_LAST_MESSAGE" }

\* license_read_error_alert_packet, at either end
AfterAlert(transition, license) ==
    CASE transition \in {"VALID_CLIENT", "NO_TRANSITION"} -> "COMPLETED"
      [] transition = "TOTAL_ABORT" -> "ABORTED"
      [] transition = "RESET_PHASE_TO_START" -> "CONFIGURED"
      [] OTHER -> license

Pdu(type) == [type |-> type]
ErrorAlert(transition) == [type |-> "ErrorAlert", transition |-> transition]
JoinRequest(channel) == [type |-> "ChannelJoinRequest", channelId |-> channel]
JoinConfirm(channel) == [type |-> "ChannelJoinConfirm", channelId |-> channel]

\* Server to client.
ServerLicenseTypes == {"LicenseRequest", "PlatformChallenge", "NewLicense", "ErrorAlert"}
ServerMessageTypes == {"AutoDetectRequest", "MultitransportRequest", "LicenseMessage"}
ServerDataTypes == {"Synchronize", "ControlCooperate", "ControlGranted", "FontMap",
                    "MonitorLayout", "ErrorInfo"}
ServerMcsTypes == {"ConnectResponse", "AttachUserConfirm", "ChannelJoinConfirm"}

AlertPdus == [type : {"ErrorAlert"}, transition : AlertTransitions]

\* A LicenseMessage is a licensing PDU that comes on the message channel.
ServerPdus ==
    [type : {"AttachUserConfirm", "DemandActive", "DeactivateAll", "ServerRedirection",
             "FastPathUpdate", "ChannelData", "DisconnectUltimatum"}
              \cup (ServerLicenseTypes \ {"ErrorAlert"})
              \cup (ServerMessageTypes \ {"LicenseMessage"}) \cup ServerDataTypes]
        \cup [type : {"ConnectResponse"}, caps : ServerCaps]
        \cup [type : {"ChannelJoinConfirm"}, channelId : Channels]
        \cup [type : {"LicenseMessage"},
               pdu : [type : ServerLicenseTypes \ {"ErrorAlert"}] \cup AlertPdus]
        \cup AlertPdus

\* Client to server.
ClientLicenseTypes ==
    {"NewLicenseRequest", "LicenseInfo", "PlatformChallengeResponse", "ErrorAlert"}
ClientMessageTypes == {"AutoDetectResponse", "MultitransportResponse"}
ClientDataTypes == {"Synchronize", "ControlCooperate", "ControlRequest", "PersistentKeyList",
                    "FontList", "ShutdownRequest"}

ClientPdus ==
    [type : {"ErectDomain", "AttachUserRequest", "SecurityExchange", "ClientInfo", "Input"}
              \cup (ClientLicenseTypes \ {"ErrorAlert"})
              \cup ClientMessageTypes \cup ClientDataTypes]
        \cup [type : {"ConnectInitial"}, caps : ClientCaps]
        \cup [type : {"ChannelJoinRequest"}, channelId : Channels]
        \cup [type : {"ConfirmActive"}, persist : BOOLEAN]
        \cup AlertPdus

\* No PDU is being processed.
NoPdu == Pdu("None")
=============================================================================
