---------------------------- MODULE RdpClientOpen ----------------------------
(***************************************************************************)
(* The client against a server that may send its PDUs in any order, at any *)
(* time and as often as it likes.  What is claimed here does not rest on   *)
(* the server following the protocol.                                      *)
(***************************************************************************)
EXTENDS RdpClient

VARIABLES cHeard,    \* history: finalize flags of PDUs processed since the last Confirm Active
          cLicensed  \* history: licensing has completed in this connection

clientOpenVars == <<clientVars, cHeard, cLicensed>>

\* A server addresses the message channel only after announcing it.  On the I/O channel it
\* sends PDUs with a licensing preamble only until licensing is over, where they would be read
\* as share control PDUs; on the message channel it sends them at any time.
ServerMaySend(p) ==
    /\ p.type \in ServerMessageTypes => cMessageChannel
    /\ p.type \in ServerLicenseTypes => cState \in LicensingOrEarlier

ClientOpenInit == ClientInit /\ cHeard = {} /\ cLicensed = FALSE

\* A step of the client, with what it has heard of the finalization.
ClientOpenStep ==
    /\ ClientStep
    /\ cHeard' = IF cState = "CAPABILITIES_EXCHANGE_CONFIRM_ACTIVE" THEN {}
                 ELSE IF cPdu.type \in DOMAIN ScFlag THEN cHeard \cup {ScFlag[cPdu.type]}
                 ELSE cHeard
    /\ cLicensed' = (cLicensed \/ cLicense' = "COMPLETED")

ClientOpenReceive ==
    /\ cOut = <<>>
    /\ \E p \in ServerPdus : ServerMaySend(p) /\ ClientReceive(p)
    /\ UNCHANGED <<cHeard, cLicensed>>

\* The server reads what the client has sent.
ClientOpenDrain ==
    /\ cRun = "idle" /\ cOut # <<>>
    /\ cOut' = <<>>
    /\ UNCHANGED <<cState, cRun, cPdu, cFinalize, cMonitorLayout, cJoined, cMessageChannel,
                   cLicense, cSettings, cHeard, cLicensed>>

ClientOpenInput == ClientInput /\ UNCHANGED <<cHeard, cLicensed>>

ClientOpenReset == ClientReset /\ cLicensed' = FALSE /\ UNCHANGED cHeard

ClientOpenNext == ClientOpenStep \/ ClientOpenReceive \/ ClientOpenDrain \/ ClientOpenInput \/ ClientOpenReset

ClientOpenSpec == ClientOpenInit /\ [][ClientOpenNext]_clientOpenVars

-----------------------------------------------------------------------------
\* The client becomes active (rdp_handle_sc_flags) only when all four finalization PDUs
\* of the server have been processed since its last Confirm Active: no flag left over
\* from an earlier activation or an earlier connection counts, in whatever order and at
\* whatever moment the server sends them.
ActiveAfterFinalization == cState = "ACTIVE" => ServerFlags \subseteq cHeard

\* The client leaves the MCS phase (rdp_client_send_client_info_and_change_state) only
\* when every channel the server announced has been confirmed, the message channel
\* included, or joining was skipped.
InfoAfterJoin ==
    cState \notin McsStates =>
        /\ {UserId, MCS_GLOBAL_CHANNEL_ID} \cup StaticChannels \subseteq cJoined
        /\ cMessageChannel => MessageChannelId \in cJoined

\* No capability is exchanged and no input sent before the licensing phase of this
\* connection has completed (rdp_client_connect_license), even when a licence PDU is
\* first seen by the auto-detect state and handed on, when licensing PDUs also come on the message
\* channel (rdp_recv_message_channel_pdu), before, during and after the phase, and across reconnects.
CapabilitiesAfterLicense == cState \notin LicensingOrEarlier => cLicensed

-----------------------------------------------------------------------------
\* What makes ActiveAfterFinalization inductive.  The batch of rdp_client_connect_finalize that
\* runs inside rdp_client_connect_confirm_active resets the flags only when it is done.
FlagsFresh ==
    \/ cState \in {"CAPABILITIES_EXCHANGE_MONITOR_LAYOUT", "ACTIVE"} \cup ClientFinalizationStates
    \/ cState \in FinalizationStates /\ cSettings.monitorLayout

\* The flags of the server's PDUs that must have been heard in each state.
ScFlagsBefore(state) ==
    CASE state = "FINALIZATION_CLIENT_COOPERATE" -> {"SC_SYNCHRONIZE"}
      [] state = "FINALIZATION_CLIENT_GRANTED_CONTROL" -> {"SC_SYNCHRONIZE", "SC_CONTROL_COOPERATE"}
      [] state = "FINALIZATION_CLIENT_FONT_MAP" -> ServerFlags \ {"SC_FONT_MAP"}
      [] state = "ACTIVE" -> ServerFlags
      [] OTHER -> {}

FinalizationInv ==
    /\ FlagsFresh => cFinalize \cap ServerFlags \subseteq cHeard
    /\ ScFlagsBefore(cState) \subseteq cHeard

=============================================================================
