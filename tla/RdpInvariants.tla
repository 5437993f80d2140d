---------------------------- MODULE RdpInvariants ----------------------------
(***************************************************************************)
(* The inductive invariants of a client and a server joined by an ordered  *)
(* transport (RdpConnection), and the abbreviations that RdpProofs uses to *)
(* state and to prove them.                                                *)
(***************************************************************************)
EXTENDS RdpConnection

\* Sequences of PDUs.  What the fields of a PDU contain does not matter here, so that these are
\* sequences over some set.
Listed(s) == \E S : s \in Seq(S)

\* What a step of the server leaves alone, and what it sends, once the channels are joined:
\* nothing of the MCS phase, no Deactivate All and no licensing PDU on the message channel.
PlainPdu(p) == p.type \notin ServerMcsTypes \cup {"DeactivateAll", "LicenseMessage"}

Plain(pdus) == Listed(pdus) /\ \A i \in DOMAIN pdus : PlainPdu(pdus[i])

ServerTalks ==
    /\ \E pdus : Plain(pdus) /\ sOut' = sOut \o pdus
    /\ UNCHANGED <<sJoined, sMessageChannel>>
    /\ "DEACTIVATE_REACTIVATE" \in sFinalize' <=> "DEACTIVATE_REACTIVATE" \in sFinalize
    /\ \/ sSettings' = sSettings
       \/ sPdu.type = "ConfirmActive" /\ sSettings' = [sSettings EXCEPT !.persist = sPdu.persist]
    /\ sState' # "MCS_CREATE_REQUEST"

\* What a step of the client leaves alone, and what it sends, apart from joining channels.
OrdinaryPdu(p) ==
    /\ p.type # "ChannelJoinRequest"
    /\ p.type = "ConfirmActive" => p.persist \in BOOLEAN

Ordinary(pdus) == Listed(pdus) /\ \A i \in DOMAIN pdus : OrdinaryPdu(pdus[i])

\* The client has read the server's Connect Response.
Connected(state) == state \notin {"NEGO", "MCS_CREATE_REQUEST", "MCS_CREATE_RESPONSE"}

ClientTalks ==
    /\ \E pdus : Ordinary(pdus) /\ cOut' = cOut \o pdus
    /\ UNCHANGED <<cJoined, cMessageChannel, cSettings>>
    /\ cPdu' \in {cPdu, NoPdu}
    /\ Connected(cState') => Connected(cState)

\* Channel join.  What a PDU on its way to the client says holds at the server: it has answered
\* the Connect Initial, the features it names are on, and the channels are joined.
FromServer(p, state, settings, joined, messageChannel) ==
    /\ p.type # "LicenseMessage"
    /\ p.type \in ServerMcsTypes => state # "MCS_CREATE_REQUEST"
    /\ p.type = "ConnectResponse" => /\ p.caps.skipJoin => settings.skipJoin
                                     /\ p.caps.messageChannel => messageChannel
    /\ p.type = "AttachUserConfirm" => (settings.skipJoin => joined = Channels)
    /\ p.type = "ChannelJoinConfirm" => p.channelId \in joined

\* What a PDU on its way to the server asks for exists there.
FromClient(p, state, messageChannel) ==
    /\ p.type = "ConfirmActive" => p.persist \in BOOLEAN
    /\ p.type = "ChannelJoinRequest" =>
           /\ state # "MCS_CREATE_REQUEST"
           /\ p.channelId \in Channels
           /\ p.channelId = MessageChannelId => messageChannel

\* What the client knows of the server once it has read the Connect Response.
ClientInformed ==
    /\ Connected(cState) => /\ sState # "MCS_CREATE_REQUEST"
                            /\ cSettings.skipJoin => sSettings.skipJoin
                            /\ cMessageChannel => sMessageChannel
    /\ cJoined \subseteq sJoined

\* The inductive invariant behind JoinAgreed.
JoinRight ==
    /\ Listed(sOut) /\ Listed(cOut)
    /\ cSettings \in ClientSettings /\ sSettings \in ServerSettings
    /\ sJoined \subseteq Channels
    /\ ClientInformed
    /\ FromServer(cPdu, sState, sSettings, sJoined, sMessageChannel)
    /\ \A i \in DOMAIN sOut : FromServer(sOut[i], sState, sSettings, sJoined, sMessageChannel)
    /\ FromClient(sPdu, sState, sMessageChannel)
    /\ \A i \in DOMAIN cOut : FromClient(cOut[i], sState, sMessageChannel)

\* Sequences without PDUs of the MCS phase, or of licensing on the message channel.
LatePdu(p) == p.type \notin ServerMcsTypes \cup {"LicenseMessage"}

LateOnly(pdus) == Listed(pdus) /\ \A i \in DOMAIN pdus : LatePdu(pdus[i])

\* 0: nothing yet; 1: multitransport; 2: capabilities; 3: synchronized; 4: cooperating;
\* 5: control; 6: fonts, the end of the first activation; 7: deactivated.
Marks == 0 .. 7

PhaseTypes ==
    { "MultitransportRequest", "MultitransportResponse", "DemandActive", "ConfirmActive",
      "Synchronize", "ControlCooperate", "ControlGranted", "ControlRequest",
      "PersistentKeyList", "FontMap", "FontList", "DeactivateAll" }

\* In direction dir a PDU of this type leads from mark a to mark b; m is 1 when the server has sent
\* a multitransport request.  After a Deactivate All nothing is said.
Move(dir, m, type, a, b) ==
    \/ /\ dir = "toClient"
       /\ \/ type = "MultitransportRequest" /\ m = 1 /\ a = 0 /\ b = 1
          \/ type = "DemandActive" /\ a = m /\ b = 2
          \/ type = "ControlGranted" /\ a = 4 /\ b = 5
          \/ type = "FontMap" /\ a = 5 /\ b = 6
          \/ type = "DeactivateAll" /\ a = 6 /\ b = 7
    \/ /\ dir = "toServer"
       /\ \/ type = "MultitransportResponse" /\ m = 1 /\ a = 0 /\ b = 1
          \/ type = "ConfirmActive" /\ a = m /\ b = 2
          \/ type = "ControlRequest" /\ a = 4 /\ b = 5
          \/ type = "PersistentKeyList" /\ a = 5 /\ b = 5
          \/ type = "FontList" /\ a = 5 /\ b = 6
    \/ type = "Synchronize" /\ a = 2 /\ b = 3
    \/ type = "ControlCooperate" /\ a = 3 /\ b = 4
    \/ type \notin PhaseTypes /\ b = a
    \/ a = 7 /\ b = 7

\* The PDUs under way, one after the other, lead from mark a to mark b.
Walks(dir, m, a, pdus, b) ==
    \E w \in [0 .. Len(pdus) -> Marks] :
        /\ w[0] = a /\ w[Len(pdus)] = b
        /\ \A i \in 1 .. Len(pdus) : Move(dir, m, pdus[i].type, w[i - 1], w[i])
        /\ \A i, j \in 0 .. Len(pdus) : i <= j => w[i] <= w[j]

\* PDUs outside of the handshake.
Quiet(pdus) == Listed(pdus) /\ \A i \in DOMAIN pdus : pdus[i].type \notin PhaseTypes

\* Whatever led to mark a with what was under way leads to mark b with what is under way now.
Leads(dir, m, out, a, sent, b) == \A c : Walks(dir, m, c, out, a) => Walks(dir, m, c, sent, b)

\* Where a client in this state is in the first activation: cs is the mark of what it has
\* received, cc that of what it has sent.
ClientMarks(m, state, cs, cc) ==
    \/ /\ state \in LicensingOrEarlier \cup {"MULTITRANSPORT_BOOTSTRAPPING_REQUEST",
                                             "CAPABILITIES_EXCHANGE_DEMAND_ACTIVE"}
       /\ cs \in {0, 1} /\ cc = cs
    \/ state = "CAPABILITIES_EXCHANGE_CONFIRM_ACTIVE" /\ cs = 2 /\ cc = m
    \/ state \in {"CAPABILITIES_EXCHANGE_MONITOR_LAYOUT", "FINALIZATION_SYNC"} /\ cs = 2 /\ cc = 2
    \/ state = "FINALIZATION_COOPERATE" /\ cs = 2 /\ cc = 3
    \/ state = "FINALIZATION_REQUEST_CONTROL" /\ cs = 2 /\ cc = 4
    \/ state \in {"FINALIZATION_PERSISTENT_KEY_LIST", "FINALIZATION_FONT_LIST"} /\ cs = 2 /\ cc = 5
    \/ state = "FINALIZATION_CLIENT_SYNC" /\ cs = 2 /\ cc = 6
    \/ state = "FINALIZATION_CLIENT_COOPERATE" /\ cs = 3 /\ cc = 6
    \/ state = "FINALIZATION_CLIENT_GRANTED_CONTROL" /\ cs = 4 /\ cc = 6
    \/ state = "FINALIZATION_CLIENT_FONT_MAP" /\ cs = 5 /\ cc = 6
    \/ state = "ACTIVE" /\ cs = 6 /\ cc = 6

Working == {"idle", "run"}

\* What the client's flags and stream say in the states of its first activation.
ClientFlagsRight ==
    /\ cRun = "idle" => cPdu = NoPdu
    /\ cState \in {"NEGO", "MCS_CREATE_REQUEST", "CAPABILITIES_EXCHANGE_CONFIRM_ACTIVE"}
           => cPdu = NoPdu
    /\ cState \in FinalizationStates =>
           IF cSettings.monitorLayout
           THEN /\ cMonitorLayout => cPdu.type = "MonitorLayout"
                /\ cFinalize \cap ServerFlags \subseteq {"SC_SYNCHRONIZE"}
                /\ "SC_SYNCHRONIZE" \in cFinalize => cPdu.type = "Synchronize"
           ELSE cPdu = NoPdu
    /\ cState = "CAPABILITIES_EXCHANGE_MONITOR_LAYOUT" =>
           cFinalize \cap ServerFlags = {} /\ cSettings.monitorLayout
    /\ cState = "FINALIZATION_CLIENT_SYNC" =>
           /\ cFinalize \cap ServerFlags \subseteq {"SC_SYNCHRONIZE"}
           /\ "SC_SYNCHRONIZE" \in cFinalize => cPdu.type = "Synchronize"
    /\ cState = "FINALIZATION_CLIENT_COOPERATE" =>
           cFinalize \cap ServerFlags = {"SC_SYNCHRONIZE"}
    /\ cState = "FINALIZATION_CLIENT_GRANTED_CONTROL" =>
           cFinalize \cap ServerFlags = {"SC_SYNCHRONIZE", "SC_CONTROL_COOPERATE"}
    /\ cState = "FINALIZATION_CLIENT_FONT_MAP" => "SC_FONT_MAP" \notin cFinalize

\* The client is in its first activation: no Deactivate All has been acted upon.
FirstClient(m, cs, cc, ca) ==
    /\ ClientMarks(m, cState, cs, cc)
    /\ Move("toClient", m, cPdu.type, cs, ca)
    /\ ClientFlagsRight
    /\ "DEACTIVATE_REACTIVATE" \notin cFinalize
    /\ Listed(cOut)

\* After a step it is there again, unless it is at the end of the activation.
ClientAfter(m, ca, cc) ==
    \E cs2, cc2 \in Marks :
        /\ Leads("toServer", m, cOut, cc, cOut', cc2)
        /\ cRun' \in Working /\ "DEACTIVATE_REACTIVATE" \notin cFinalize' =>
               ClientMarks(m, cState', cs2, cc2) /\ Move("toClient", m, cPdu'.type, cs2, ca)

\* The states in which ClientFlagsRight says more than that an idle client has read its PDU.
FlaggedStates ==
    {"NEGO", "MCS_CREATE_REQUEST", "CAPABILITIES_EXCHANGE_CONFIRM_ACTIVE",
     "CAPABILITIES_EXCHANGE_MONITOR_LAYOUT"} \cup FinalizationStates \cup ClientFinalizationStates

\* Where a server in this state is in the first activation: ss is the mark of what it has sent,
\* sc that of what it has received.
ServerMarks(m, state, ss, sc) ==
    \/ /\ state \in LicensingOrEarlier \cup {"MULTITRANSPORT_BOOTSTRAPPING_REQUEST"}
       /\ m = 0 /\ ss = 0 /\ sc = 0
    \/ state = "MULTITRANSPORT_BOOTSTRAPPING_RESPONSE" /\ m = 1 /\ ss = 1 /\ sc = 0
    \/ state = "CAPABILITIES_EXCHANGE_DEMAND_ACTIVE" /\ ss = m /\ sc = m
    \/ /\ state \in {"CAPABILITIES_EXCHANGE_CONFIRM_ACTIVE", "CAPABILITIES_EXCHANGE_MONITOR_LAYOUT"}
       /\ ss = 2 /\ sc = m
    \/ state = "FINALIZATION_SYNC" /\ ss = 4 /\ sc = 2
    \/ state = "FINALIZATION_COOPERATE" /\ ss = 4 /\ sc = 3
    \/ state = "FINALIZATION_REQUEST_CONTROL" /\ ss = 4 /\ sc = 4
    \/ state \in {"FINALIZATION_PERSISTENT_KEY_LIST", "FINALIZATION_FONT_LIST"} /\ ss = 5 /\ sc = 5
    \/ state = "ACTIVE" /\ ss = 6 /\ sc = 6

\* What the server's flags and stream say in the states of the first activation.
ServerFlagsRight ==
    /\ sRun = "idle" => sPdu = NoPdu
    /\ sActivated => sState = "ACTIVE"
    /\ sState = "FINALIZATION_SYNC" => sFinalize \cap ClientFlags = {}
    /\ sState = "FINALIZATION_COOPERATE" => sFinalize \cap ClientFlags = {"CS_SYNCHRONIZE"}
    /\ sState = "FINALIZATION_REQUEST_CONTROL" =>
           sFinalize \cap ClientFlags = {"CS_SYNCHRONIZE", "CS_CONTROL_COOPERATE"}
    /\ sState = "FINALIZATION_PERSISTENT_KEY_LIST" =>
           sFinalize \cap ClientFlags =
               {"CS_SYNCHRONIZE", "CS_CONTROL_COOPERATE", "CS_CONTROL_REQUEST"}
    /\ sState = "FINALIZATION_FONT_LIST" => "CS_FONT_LIST" \notin sFinalize

\* The server is in the first activation: it has not resized the desktop.
FirstServer(m, ss, sc, sa) ==
    /\ ServerMarks(m, sState, ss, sc)
    /\ Move("toServer", m, sPdu.type, sc, sa)
    /\ ss = 0 => sa = 0
    /\ ServerFlagsRight
    /\ "DEACTIVATE_REACTIVATE" \notin sFinalize
    /\ Listed(sOut)

ServerAfter(m, sa, ss) ==
    \E ss2, sc2 \in Marks :
        /\ Leads("toClient", m, sOut, ss, sOut', ss2)
        /\ sRun' \in Working =>
               ServerMarks(m, sState', ss2, sc2) /\ Move("toServer", m, sPdu'.type, sc2, sa)

\* The three states of the handshake that wait for one PDU each, with its flag and type.
Awaits(state, flag, expected) ==
    \/ state = "FINALIZATION_SYNC" /\ flag = "CS_SYNCHRONIZE" /\ expected = "Synchronize"
    \/ /\ state = "FINALIZATION_COOPERATE" /\ flag = "CS_CONTROL_COOPERATE"
       /\ expected = "ControlCooperate"
    \/ /\ state = "FINALIZATION_REQUEST_CONTROL" /\ flag = "CS_CONTROL_REQUEST"
       /\ expected = "ControlRequest"

\* The PDU is acted upon, or ignored.
Acts(flag, pdus, next, expected) ==
    /\ sPdu.type = expected
    /\ PeerRecv(sPdu, next, pdus, TRUE) /\ sPdu' = NoPdu
    /\ sFinalize' = sFinalize \cup {flag}

Ignores(state) ==
    /\ sPdu.type \notin PhaseTypes
    /\ sState' = state /\ sPdu' = NoPdu /\ sFinalize' = sFinalize
    /\ sActivated' = sActivated
    /\ \E reply : Quiet(reply) /\ sOut' = sOut \o reply

\* The states that a client passes through without waiting for a PDU.
BatchStates ==
    FinalizationStates \cup {"NEGO", "MCS_CREATE_REQUEST", "CAPABILITIES_EXCHANGE_CONFIRM_ACTIVE"}

\* What is on its way to the client leads from where the client is to where the server is; once
\* the server has resized the desktop, that is the last mark.
ToClient(m, ca, ss, out, finalize) ==
    /\ Walks("toClient", m, ca, out, ss)
    /\ "DEACTIVATE_REACTIVATE" \in finalize => ss = 7

\* As long as the server has not, what is on its way to it leads from where it is to where the
\* client is.
ToServer(m, ss, cc, state, pdu, out) ==
    \E sc, sa \in Marks :
        /\ ServerMarks(m, state, ss, sc)
        /\ Move("toServer", m, pdu.type, sc, sa)
        /\ Walks("toServer", m, sa, out, cc)

ServerFirst == sRun \in Working /\ "DEACTIVATE_REACTIVATE" \notin sFinalize

\* The two ends of the first activation.
FirstRound(m, cs, cc, ca, ss) ==
    /\ ClientMarks(m, cState, cs, cc)
    /\ Move("toClient", m, cPdu.type, cs, ca)
    /\ ClientFlagsRight
    /\ ToClient(m, ca, ss, sOut, sFinalize)
    /\ ServerFirst => ServerFlagsRight /\ ToServer(m, ss, cc, sState, sPdu, cOut)

ClientFirst == cRun \in Working /\ "DEACTIVATE_REACTIVATE" \notin cFinalize

InFirstRound ==
    ClientFirst =>
        \E m \in {0, 1} : \E cs, cc, ca, ss \in Marks : FirstRound(m, cs, cc, ca, ss)

\* The inductive invariant behind ReactivationAgreed.
ReactivationRight ==
    /\ InFirstRound
    /\ cRun = "idle" => cState \notin BatchStates
    /\ ReactivationAgreed

\* Before anything has been sent.
Fresh ==
    /\ cState = "NEGO" /\ cRun = "run" /\ cPdu = NoPdu /\ cFinalize = {} /\ cOut = <<>>
    /\ sState = "MCS_CREATE_REQUEST" /\ sRun = "idle" /\ sPdu = NoPdu /\ sFinalize = {}
    /\ sActivated = FALSE /\ sOut = <<>>

Licensable ==
    \A s \in ServerConfigs : s.licenseRequired =>
        \A c \in ClientConfigs : c.cal /\ (c.autoDetect \/ c.heartbeat)

\* Until the licence has been granted one side waits for the other: one PDU, p, is under way, or on
\* the stream of the one that is asked or answered.
Asks(cs, ss, p) ==
    /\ cState = cs /\ cRun = "idle" /\ cPdu = NoPdu /\ sState = ss /\ sOut = <<>>
    /\ \/ cOut = <<p>> /\ sRun = "idle" /\ sPdu = NoPdu
       \/ cOut = <<>> /\ sRun = "run" /\ sPdu = p

\* Two PDUs one after the other.
AsksTwo(cs, ss, p, q) ==
    /\ cState = cs /\ cRun = "idle" /\ cPdu = NoPdu /\ sState = ss /\ sOut = <<>>
    /\ \/ cOut = <<p, q>> /\ sRun = "idle" /\ sPdu = NoPdu
       \/ cOut = <<q>> /\ sRun = "run" /\ sPdu = p

Answers(cs, ss, p) ==
    /\ cState = cs /\ cOut = <<>> /\ sState = ss /\ sRun = "idle" /\ sPdu = NoPdu
    /\ \/ sOut = <<p>> /\ cRun = "idle" /\ cPdu = NoPdu
       \/ sOut = <<>> /\ cRun = "run" /\ cPdu = p

\* The client works on an empty stream, or the server does.
ClientGoesOn(cs, ss) ==
    /\ cState = cs /\ cRun = "run" /\ cPdu = NoPdu /\ cOut = <<>>
    /\ sState = ss /\ sRun = "idle" /\ sPdu = NoPdu /\ sOut = <<>>

ServerGoesOn(cs, ss) ==
    /\ cState = cs /\ cRun = "idle" /\ cPdu = NoPdu /\ cOut = <<>>
    /\ sState = ss /\ sRun = "run" /\ sPdu = NoPdu /\ sOut = <<>>

\* What the two ends know about a feature once the server has merged the client's blocks.
Merged ==
    /\ sSettings.skipJoin => cSettings.skipJoin
    /\ sSettings.monitorLayout => cSettings.monitorLayout
    /\ sSettings.autoDetect => cSettings.autoDetect /\ sMessageChannel
    /\ sSettings.multitransport => cSettings.multitransport /\ sMessageChannel
    /\ sSettings.licenseRequired => cSettings.cal /\ sMessageChannel

\* And once the client has read the server's.
Agreed == Merged /\ (cSettings.skipJoin <=> sSettings.skipJoin)
                 /\ (cMessageChannel <=> sMessageChannel)

\* All channels are joined.
Joined ==
    /\ Agreed
    /\ sMessageChannel => MessageChannelId \in cJoined /\ MessageChannelId \in sJoined

\* The state of the server after a join.
JoinState == IF AnnouncedChannels \subseteq sJoined THEN "RDP_SECURITY_COMMENCEMENT"
                                                    ELSE "MCS_CHANNEL_JOIN_REQUEST"

Start == ClientGoesOn("NEGO", "MCS_CREATE_REQUEST")
            \/ ClientGoesOn("MCS_CREATE_REQUEST", "MCS_CREATE_REQUEST")
            \/ Asks("MCS_CREATE_RESPONSE", "MCS_CREATE_REQUEST", ConnectInitial)

Attaching ==
    \/ /\ Merged
       /\ Answers("MCS_CREATE_RESPONSE", "MCS_ERECT_DOMAIN",
                  ConnectResponse(sSettings, sMessageChannel))
    \/ /\ Agreed
       /\ \/ AsksTwo("MCS_ATTACH_USER_CONFIRM", "MCS_ERECT_DOMAIN",
                     Pdu("ErectDomain"), Pdu("AttachUserRequest"))
          \/ Asks("MCS_ATTACH_USER_CONFIRM", "MCS_ATTACH_USER", Pdu("AttachUserRequest"))

Joining ==
    /\ Agreed
    /\ \/ /\ sSettings.skipJoin /\ sJoined = Channels
          /\ Answers("MCS_ATTACH_USER_CONFIRM", "RDP_SECURITY_COMMENCEMENT",
                     Pdu("AttachUserConfirm"))
       \/ /\ ~sSettings.skipJoin /\ cJoined = {} /\ sJoined = {}
          /\ Answers("MCS_ATTACH_USER_CONFIRM", "MCS_CHANNEL_JOIN_REQUEST",
                     Pdu("AttachUserConfirm"))
       \/ /\ sJoined = cJoined
          /\ \E c \in Expected(cJoined) :
                 Asks("MCS_CHANNEL_JOIN_RESPONSE", "MCS_CHANNEL_JOIN_REQUEST", JoinRequest(c))
       \/ \E c \in Expected(cJoined) :
             /\ sJoined = cJoined \cup {c}
             /\ Answers("MCS_CHANNEL_JOIN_RESPONSE", JoinState, JoinConfirm(c))

Informing ==
    /\ Joined
    /\ \/ /\ sSettings.rdpSecurity
          /\ AsksTwo("CONNECT_TIME_AUTO_DETECT_REQUEST", "RDP_SECURITY_COMMENCEMENT",
                     Pdu("SecurityExchange"), Pdu("ClientInfo"))
       \/ /\ ~sSettings.rdpSecurity
          /\ Asks("CONNECT_TIME_AUTO_DETECT_REQUEST", "RDP_SECURITY_COMMENCEMENT",
                  Pdu("ClientInfo"))
       \/ Asks("CONNECT_TIME_AUTO_DETECT_REQUEST", "SECURE_SETTINGS_EXCHANGE", Pdu("ClientInfo"))

Measuring ==
    /\ Joined
    /\ \/ ServerGoesOn("CONNECT_TIME_AUTO_DETECT_REQUEST", "CONNECT_TIME_AUTO_DETECT_REQUEST")
       \/ /\ sSettings.autoDetect
          /\ \/ Answers("CONNECT_TIME_AUTO_DETECT_REQUEST", "CONNECT_TIME_AUTO_DETECT_RESPONSE",
                        Pdu("AutoDetectRequest"))
             \/ Asks("CONNECT_TIME_AUTO_DETECT_REQUEST", "CONNECT_TIME_AUTO_DETECT_RESPONSE",
                     Pdu("AutoDetectResponse"))
       \/ ServerGoesOn("CONNECT_TIME_AUTO_DETECT_REQUEST", "LICENSING")

Licensing ==
    /\ Joined /\ sSettings.licenseRequired
    /\ \/ /\ sLicense = "REQUEST" /\ cLicense = "INITIAL"
          /\ \E cs \in {"CONNECT_TIME_AUTO_DETECT_REQUEST", "LICENSING"} :
                 Answers(cs, "LICENSING", Pdu("LicenseRequest"))
       \/ /\ sLicense = "REQUEST" /\ cLicense = "NEW_REQUEST"
          /\ Asks("LICENSING", "LICENSING", Pdu("LicenseInfo"))
       \/ /\ sLicense = "PLATFORM_CHALLENGE" /\ cLicense = "NEW_REQUEST"
          /\ Answers("LICENSING", "LICENSING", Pdu("PlatformChallenge"))
       \/ /\ sLicense = "PLATFORM_CHALLENGE" /\ cLicense = "PLATFORM_CHALLENGE_RESPONSE"
          /\ Asks("LICENSING", "LICENSING", Pdu("PlatformChallengeResponse"))

\* Until the server has granted the licence.
Unused == /\ cFinalize = {} /\ ~cMonitorLayout /\ sFinalize = {} /\ ~sConnected /\ ~sActivated

Setup ==
    /\ Unused
    /\ \/ /\ cLicense = "INITIAL" /\ sLicense = "INITIAL"
          /\ \/ Start /\ cJoined = {} /\ sJoined = {}
             \/ Attaching /\ cJoined = {} /\ sJoined = {}
             \/ Joining \/ Informing \/ Measuring
       \/ Licensing

Places == 0 .. 12

\* What the ends have agreed upon.
Terms == [licensed |-> sSettings.licenseRequired, transport |-> sSettings.multitransport,
          layout |-> sSettings.monitorLayout, persist |-> cSettings.persist,
          keys |-> cSettings.persist /\ "DEACTIVATE_REACTIVATE" \notin sFinalize]

LicenceEnd(k, p) == IF k.licensed THEN p.type = "NewLicense"
                    ELSE p.type = "ErrorAlert" /\ p.transition = "VALID_CLIENT"

Opening(k) == IF k.transport THEN 1 ELSE 2

Layout(k) == IF k.layout THEN 3 ELSE 4

Lists(k) == IF k.keys THEN 7 ELSE 8

\* To the client.  9 is reached with a Deactivate All: a Demand Active starts the next round, 10
\* and 11 being its 3 and 4, or the session is closed.
Down(k, p, a, b) ==
    \/ LicenceEnd(k, p) /\ a = 0 /\ b = Opening(k)
    \/ p.type = "MultitransportRequest" /\ k.transport /\ a = 1 /\ b = 2
    \/ p.type = "DemandActive" /\ a = 2 /\ b = Layout(k)
    \/ p.type = "MonitorLayout" /\ k.layout /\ a = 3 /\ b = 4
    \/ p.type = "Synchronize" /\ a = 4 /\ b = 5
    \/ p.type = "ControlCooperate" /\ a = 5 /\ b = 6
    \/ p.type = "ControlGranted" /\ a = 6 /\ b = 7
    \/ p.type = "FontMap" /\ a = 7 /\ b = 8
    \/ p.type = "DeactivateAll" /\ a = 8 /\ b = 9
    \/ p.type = "DemandActive" /\ a = 9 /\ b = Layout(k) + 7
    \/ p.type = "MonitorLayout" /\ k.layout /\ a = 10 /\ b = 11
    \/ p.type = "ErrorInfo" /\ a = 9 /\ b = 9
    \/ p.type = "DisconnectUltimatum" /\ a = 9 /\ b = 12
    \/ p.type = "FastPathUpdate" /\ a = 8 /\ b = 8
    \/ p.type = "ChannelData" /\ a \in (3 .. 8) \cup {10, 11} /\ b = a
    \/ p = NoPdu /\ b = a

\* To the server.
Up(k, p, a, b) ==
    \/ p.type = "MultitransportResponse" /\ k.transport /\ a = 1 /\ b = 2
    \/ p.type = "ConfirmActive" /\ (p.persist <=> k.persist) /\ a = 2 /\ b = 4
    \/ p.type = "Synchronize" /\ a = 4 /\ b = 5
    \/ p.type = "ControlCooperate" /\ a = 5 /\ b = 6
    \/ p.type = "ControlRequest" /\ a = 6 /\ b = Lists(k)
    \/ p.type = "PersistentKeyList" /\ k.keys /\ a = 7 /\ b = 8
    \/ p.type = "FontList" /\ a = 8 /\ b = 9
    \/ p.type = "Input" /\ a \in {2} \cup (4 .. 9) /\ b = a
    \/ p = NoPdu /\ b = a

Goes(dir, k, p, a, b) ==
    /\ p.type # "None"
    /\ IF dir = "down" THEN Down(k, p, a, b) ELSE Up(k, p, a, b)

\* A later place.
Later(a, b) == a <= b /\ (a \in {10, 11} => b \in {10, 11})

\* The PDUs under way lead from place a to place b.
Path(dir, k, a, pdus, b) ==
    \E w \in [0 .. Len(pdus) -> Places] :
        /\ w[0] = a /\ w[Len(pdus)] = b
        /\ \A i \in 1 .. Len(pdus) : Goes(dir, k, pdus[i], w[i - 1], w[i])
        /\ \A i, j \in 0 .. Len(pdus) : i <= j => Later(w[i], w[j])

\* Where the client is: a is the place of what it has read, b that of what it has sent; late
\* when the server has begun the next round.
ClientAt(k, late, state, a, b) ==
    \/ /\ state \in {"CONNECT_TIME_AUTO_DETECT_REQUEST", "LICENSING"}
       /\ ~late /\ a = 0 /\ b = Opening(k)
    \/ state = "MULTITRANSPORT_BOOTSTRAPPING_REQUEST" /\ ~late /\ a \in {Opening(k), 2} /\ b = a
    \/ /\ state = "CAPABILITIES_EXCHANGE_DEMAND_ACTIVE"
       /\ a = (IF late THEN 9 ELSE 2) /\ b = 2
    \/ /\ ~late /\ a = Layout(k)
       /\ \/ state = "CAPABILITIES_EXCHANGE_CONFIRM_ACTIVE" /\ b = 2
          \/ state \in {"CAPABILITIES_EXCHANGE_MONITOR_LAYOUT", "FINALIZATION_SYNC"} /\ b = 4
          \/ state = "FINALIZATION_COOPERATE" /\ b = 5
          \/ state = "FINALIZATION_REQUEST_CONTROL" /\ b = 6
          \/ state = "FINALIZATION_PERSISTENT_KEY_LIST" /\ b = 7 /\ k.keys
          \/ state = "FINALIZATION_FONT_LIST" /\ b = 8
    \/ /\ b = IF late THEN 2 ELSE 9
       /\ \/ state = "FINALIZATION_CLIENT_SYNC" /\ a = 4
          \/ state = "FINALIZATION_CLIENT_COOPERATE" /\ a = 5
          \/ state = "FINALIZATION_CLIENT_GRANTED_CONTROL" /\ a = 6
          \/ state = "FINALIZATION_CLIENT_FONT_MAP" /\ a = 7
          \/ state = "ACTIVE" /\ a = 8

\* The states in which the client works on an empty stream.
Batch == {"CAPABILITIES_EXCHANGE_CONFIRM_ACTIVE"} \cup FinalizationStates

\* What its flags, its licence and its stream say there.
ClientLacks(flags) == \A flag \in flags : flag \notin cFinalize

ClientFit ==
    /\ cRun = "idle" => cPdu = NoPdu /\ cState \notin Batch
    /\ cRun = "run" /\ cPdu = NoPdu => cState \in Batch
    /\ cState = "CAPABILITIES_EXCHANGE_CONFIRM_ACTIVE" => cPdu = NoPdu
    /\ cState = "CONNECT_TIME_AUTO_DETECT_REQUEST" =>
           ~sSettings.licenseRequired /\ cLicense = "INITIAL"
    /\ cState = "LICENSING" =>
           IF sSettings.licenseRequired THEN cLicense = "PLATFORM_CHALLENGE_RESPONSE"
           ELSE cLicense = "INITIAL" /\ cRun = "run"
    /\ cState = "MULTITRANSPORT_BOOTSTRAPPING_REQUEST" => cSettings.multitransport
    /\ cState = "CAPABILITIES_EXCHANGE_MONITOR_LAYOUT" =>
           ClientLacks(ServerFlags) /\ ~cMonitorLayout /\ cSettings.monitorLayout
    /\ cState \in FinalizationStates =>
           IF cSettings.monitorLayout
           THEN \/ cPdu.type = "MonitorLayout" /\ cMonitorLayout /\ ClientLacks(ServerFlags)
                \/ /\ cPdu.type = "Synchronize" /\ ~cMonitorLayout
                   /\ ClientLacks({"SC_CONTROL_COOPERATE", "SC_CONTROL_GRANTED", "SC_FONT_MAP"})
           ELSE cPdu = NoPdu
    /\ cState = "FINALIZATION_CLIENT_SYNC" =>
           /\ ClientLacks({"SC_CONTROL_COOPERATE", "SC_CONTROL_GRANTED", "SC_FONT_MAP"})
           /\ ClientLacks({"SC_SYNCHRONIZE"}) \/ cPdu.type = "Synchronize"
    /\ cState = "FINALIZATION_CLIENT_COOPERATE" =>
           ClientLacks({"SC_CONTROL_COOPERATE", "SC_CONTROL_GRANTED", "SC_FONT_MAP"})
    /\ cState = "FINALIZATION_CLIENT_GRANTED_CONTROL" =>
           ClientLacks({"SC_CONTROL_GRANTED", "SC_FONT_MAP"})
    /\ cState = "FINALIZATION_CLIENT_FONT_MAP" => ClientLacks({"SC_FONT_MAP"})

\* Where the server is: a is the place of what it has sent, b that of what it has read.
ServerAt(k, state, a, b) ==
    \/ state = "MULTITRANSPORT_BOOTSTRAPPING_REQUEST" /\ a = Opening(k) /\ b = Opening(k)
    \/ state = "MULTITRANSPORT_BOOTSTRAPPING_RESPONSE" /\ k.transport /\ a = 2 /\ b = 1
    \/ state = "CAPABILITIES_EXCHANGE_DEMAND_ACTIVE" /\ a = 2 /\ b = 2
    \/ /\ state = "CAPABILITIES_EXCHANGE_MONITOR_LAYOUT"
       /\ a \in {Layout(k), Layout(k) + 7} /\ b = 2
    \/ state = "CAPABILITIES_EXCHANGE_CONFIRM_ACTIVE" /\ a \in {4, 11} /\ b = 2
    \/ state = "FINALIZATION_SYNC" /\ a = 6 /\ b = 4
    \/ state = "FINALIZATION_COOPERATE" /\ a = 6 /\ b = 5
    \/ state = "FINALIZATION_REQUEST_CONTROL" /\ a = 6 /\ b = 6
    \/ state = "FINALIZATION_PERSISTENT_KEY_LIST" /\ a = 7 /\ b = Lists(k)
    \/ state = "FINALIZATION_FONT_LIST" /\ a = 7 /\ b = 8
    \/ state = "ACTIVE" /\ a = 8 /\ b = 9

Early == {"MULTITRANSPORT_BOOTSTRAPPING_REQUEST", "MULTITRANSPORT_BOOTSTRAPPING_RESPONSE",
          "CAPABILITIES_EXCHANGE_DEMAND_ACTIVE"}

ServerLacks(flags) == \A flag \in flags : flag \notin sFinalize

ServerFit ==
    /\ sRun = "idle" => sPdu = NoPdu
    /\ sState \in {"MULTITRANSPORT_BOOTSTRAPPING_REQUEST", "CAPABILITIES_EXCHANGE_DEMAND_ACTIVE"} =>
           sRun = "run" /\ sPdu = NoPdu
    /\ sRun = "run" /\ sPdu = NoPdu =>
           \/ sState \in {"MULTITRANSPORT_BOOTSTRAPPING_REQUEST",
                          "CAPABILITIES_EXCHANGE_DEMAND_ACTIVE",
                          "CAPABILITIES_EXCHANGE_MONITOR_LAYOUT"}
           \/ sState = "ACTIVE" /\ ~sActivated
    /\ sState = "ACTIVE" /\ ~sActivated => sRun = "run" /\ sPdu = NoPdu
    /\ sActivated => sState = "ACTIVE" /\ sConnected
    /\ sConnected => sState \notin Early
    /\ sState \in FinalizationStates => (sSettings.persist <=> cSettings.persist)
    /\ sState = "FINALIZATION_SYNC" => ServerLacks(ClientFlags)
    /\ sState = "FINALIZATION_COOPERATE" =>
           /\ "CS_SYNCHRONIZE" \in sFinalize
           /\ ServerLacks({"CS_CONTROL_COOPERATE", "CS_CONTROL_REQUEST",
                           "CS_PERSISTENT_KEY_LIST", "CS_FONT_LIST"})
    /\ sState = "FINALIZATION_REQUEST_CONTROL" =>
           /\ "CS_CONTROL_COOPERATE" \in sFinalize
           /\ ServerLacks({"CS_CONTROL_REQUEST", "CS_PERSISTENT_KEY_LIST", "CS_FONT_LIST"})
    /\ sState = "FINALIZATION_PERSISTENT_KEY_LIST" =>
           ServerLacks({"CS_PERSISTENT_KEY_LIST", "CS_FONT_LIST"})
    /\ sState = "FINALIZATION_FONT_LIST" => ServerLacks({"CS_FONT_LIST"})

\* What the client needs to know of the server's settings.
Known ==
    /\ sSettings.monitorLayout => cSettings.monitorLayout
    /\ sSettings.multitransport =>
           cSettings.multitransport /\ cMessageChannel /\ MessageChannelId \in cJoined

\* Both ends work: what is under way leads from where one is to where the other is.
Meeting(k, sa, sb, sn, ca, cb, cn) ==
    /\ ServerAt(k, sState, sa, sb) /\ ClientAt(k, sa >= 9, cState, ca, cb)
    /\ Down(k, cPdu, ca, cn) /\ Path("down", k, cn, sOut, sa)
    /\ Up(k, sPdu, sb, sn) /\ Path("up", k, sn, cOut, cb)

Session ==
    /\ cRun \in Working /\ sRun \in Working
    /\ Known /\ ClientFit /\ ServerFit
    /\ \E sa, sb, sn, ca, cb, cn \in Places : Meeting(Terms, sa, sb, sn, ca, cb, cn)

\* The server has closed the session.
Closing ==
    /\ sRun = "closed"
    /\ \/ cRun = "closed"
       \/ /\ cRun \in Working
          /\ Known /\ ClientFit
          /\ \E ca, cb, cn \in Places :
                /\ ClientAt(Terms, TRUE, cState, ca, cb)
                /\ Down(Terms, cPdu, ca, cn) /\ Path("down", Terms, cn, sOut, 12)

\* What the licences need of the client's settings, which stay the same over a reconnect.
LicenceKnown ==
    /\ sSettings.licenseRequired => \E s \in ServerConfigs : s.licenseRequired
    /\ (\E s \in ServerConfigs : s.licenseRequired) =>
           cSettings.cal /\ (cSettings.autoDetect \/ cSettings.heartbeat)
    /\ cSettings.rdpSecurity <=> sSettings.rdpSecurity

SessionRight == LicenceKnown /\ (Setup \/ Session \/ Closing)

\* A client of the session works on a PDU or on an empty stream.
ClientHere(k, late, ca, cb, cn) ==
    /\ k = Terms /\ Known /\ ClientFit /\ Listed(cOut)
    /\ ca \in Places /\ cb \in Places /\ cn \in Places
    /\ late \in BOOLEAN /\ (cn >= 9 => late)
    /\ ClientAt(k, late, cState, ca, cb) /\ Down(k, cPdu, ca, cn)

\* After a step it is at a place again, and has sent at most one PDU.
ClientGoes(k, late, cb, cn) ==
    /\ cRun' \in Working /\ ClientFit'
    /\ UNCHANGED <<cJoined, cMessageChannel, cSettings>>
    /\ \E a, b \in Places :
          /\ ClientAt(k, late, cState', a, b) /\ Down(k, cPdu', a, cn)
          /\ \/ b = cb /\ cOut' = cOut
             \/ \E p : cOut' = cOut \o <<p>> /\ Goes("up", k, p, cb, b)

\* The client reads the Demand Active of the next round.
ClientBeginsAgain(k, late, cb, cn) ==
    /\ late /\ cn = Layout(k) + 7
    /\ cRun' = "run" /\ cPdu' = NoPdu /\ cOut' = cOut /\ ClientFit'
    /\ UNCHANGED <<cJoined, cMessageChannel, cSettings>>
    /\ ClientAt(k, FALSE, cState', Layout(k), cb)

\* A server of the session works.
ServerHere(k, sa, sb, sn) ==
    /\ k = Terms /\ ServerFit /\ Listed(sOut)
    /\ sSettings \in ServerSettings /\ cSettings \in ClientSettings
    /\ sa \in Places /\ sb \in Places /\ sn \in Places
    /\ sa >= 9 => sn = 2
    /\ ServerAt(k, sState, sa, sb) /\ Up(k, sPdu, sb, sn)

\* What a server does not take back.
ServerKeepsTerms ==
    /\ UNCHANGED <<sSettings.licenseRequired, sSettings.multitransport, sSettings.monitorLayout,
                   sSettings.rdpSecurity>>
    /\ "DEACTIVATE_REACTIVATE" \in sFinalize' <=> "DEACTIVATE_REACTIVATE" \in sFinalize

\* After a step it is at a place again, and has sent at most two PDUs.
ServerGoes(k, sa, sn) ==
    /\ sRun' \in Working /\ ServerFit' /\ ServerKeepsTerms
    /\ \E a, b \in Places :
          /\ ServerAt(k, sState', a, b) /\ Up(k, sPdu', b, sn) /\ (a >= 9 <=> sa >= 9)
          /\ \/ a = sa /\ sOut' = sOut
             \/ \E p : sOut' = sOut \o <<p>> /\ Goes("down", k, p, sa, a)
             \/ \E p, q : \E c \in Places :
                   /\ sOut' = sOut \o <<p, q>>
                   /\ Goes("down", k, p, sa, c) /\ Goes("down", k, q, c, a)

\* The same after a step, for a PDU known before it.
AsksNext(cs, ss, p) ==
    /\ cState' = cs /\ cRun' = "idle" /\ cPdu' = NoPdu /\ sState' = ss /\ sOut' = <<>>
    /\ \/ cOut' = <<p>> /\ sRun' = "idle" /\ sPdu' = NoPdu
       \/ cOut' = <<>> /\ sRun' = "run" /\ sPdu' = p

AsksTwoNext(cs, ss, p, q) ==
    /\ cState' = cs /\ cRun' = "idle" /\ cPdu' = NoPdu /\ sState' = ss /\ sOut' = <<>>
    /\ \/ cOut' = <<p, q>> /\ sRun' = "idle" /\ sPdu' = NoPdu
       \/ cOut' = <<q>> /\ sRun' = "run" /\ sPdu' = p

AnswersNext(cs, ss, p) ==
    /\ cState' = cs /\ cOut' = <<>> /\ sState' = ss /\ sRun' = "idle" /\ sPdu' = NoPdu
    /\ \/ sOut' = <<p>> /\ cRun' = "idle" /\ cPdu' = NoPdu
       \/ sOut' = <<>> /\ cRun' = "run" /\ cPdu' = p

\* What a delivery leaves alone.
Agreement == <<cFinalize, cMonitorLayout, cJoined, cMessageChannel, cLicense, cSettings, sFinalize,
               sJoined, sMessageChannel, sLicense, sSettings, sConnected, sActivated>>

Stage(a) == IF a <= 7 THEN 0 ELSE IF a = 8 THEN 1 ELSE 2

\* What has been announced between two stages.
Notices(a, e) == IF a = e THEN <<>>
                 ELSE IF e = a + 1 THEN <<a = 0>>
                 ELSE <<TRUE, FALSE>>

\* The stage of the client, a, and that of the server, e.
ActivationAt(a, e) ==
    /\ a \in 0 .. 2 /\ e \in 0 .. 2 /\ a <= e
    /\ cState = "ACTIVE" <=> a = 1
    /\ sState = "ACTIVE" /\ sRun # "closed" <=> e = 1
    /\ Announcements = Notices(a, e)

\* The variables of ActivationView.
activation == <<sState = "ACTIVE" /\ sRun # "closed", cState = "ACTIVE", Announcements>>

=============================================================================
