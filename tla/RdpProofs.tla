------------------------------ MODULE RdpProofs ------------------------------
(***************************************************************************)
(* Proofs about a client and a server joined by an ordered transport       *)
(* (RdpConnection), for every number of static channels, every set of      *)
(* settings of either end, and any number of PDUs under way, of            *)
(* reactivations and of reconnects: what they agree upon, that neither     *)
(* makes the other fail or wait for ever, and that together they implement *)
(* ActivationView.                                                         *)
(***************************************************************************)
EXTENDS RdpInvariants, TLAPS, WellFoundedInduction, FiniteSetTheorems

-----------------------------------------------------------------------------
(* Channels that are still to be joined. *)

\* A non-empty set of numbers has a smallest member.
LEMMA SmallestChannel ==
    ASSUME NEW S \in SUBSET Nat, S # {}
    PROVE  \E c \in S : \A d \in S : c <= d
<1> DEFINE Less == {ss \in Nat \X Nat : ss[1] < ss[2]}
<1>1. IsWellFoundedOn(Less, Nat)
  BY NatLessThanWellFounded DEF OpToRel
<1>2. PICK c \in S : \A d \in S : ~(<<d, c>> \in Less)
  BY <1>1, WFMin
<1>3. ASSUME NEW d \in S PROVE c <= d
  <2>1. c \in Nat /\ d \in Nat
    OBVIOUS
  <2>2. d < c => <<d, c>> \in Less
    BY <2>1
  <2>3. QED
    BY <1>2, <2>1, <2>2
<1>4. QED
  BY <1>3

\* rdp_client_connect_mcs_channel_join_confirm has no channel left to ask for only when all
\* that the server announced are joined.
LEMMA NothingExpected ==
    ASSUME NEW joined, Expected(joined) = {}
    PROVE  /\ {UserId, MCS_GLOBAL_CHANNEL_ID} \cup StaticChannels \subseteq joined
           /\ cMessageChannel => MessageChannelId \in joined
<1>1. StaticChannels \subseteq Nat
  BY ChannelCountAssumption DEF StaticChannels, MCS_GLOBAL_CHANNEL_ID
<1>2. /\ {UserId, MCS_GLOBAL_CHANNEL_ID} \subseteq joined
      /\ cMessageChannel => MessageChannelId \in joined
      /\ ~ \E c \in StaticChannels \ joined : \A d \in StaticChannels \ joined : c <= d
  BY DEF Expected
<1>3. StaticChannels \ joined = {}
  BY <1>1, <1>2, SmallestChannel
<1>4. QED
  BY <1>2, <1>3

-----------------------------------------------------------------------------
LEMMA ConcatListed ==
    ASSUME NEW s, NEW t, Listed(s), Listed(t)
    PROVE  /\ Listed(s \o t)
           /\ Len(s) \in Nat /\ Len(t) \in Nat /\ Len(s \o t) = Len(s) + Len(t)
           /\ DOMAIN s = 1 .. Len(s) /\ DOMAIN t = 1 .. Len(t)
           /\ DOMAIN (s \o t) = 1 .. Len(s) + Len(t)
           /\ \A i \in 1 .. Len(s) : (s \o t)[i] = s[i]
           /\ \A i \in 1 .. Len(t) : (s \o t)[Len(s) + i] = t[i]
           /\ \A i \in Len(s) + 1 .. Len(s) + Len(t) : (s \o t)[i] = t[i - Len(s)]
           /\ t = <<>> => s \o t = s
<1>1. PICK S : s \in Seq(S)
  BY DEF Listed
<1>2. PICK T : t \in Seq(T)
  BY DEF Listed
<1> DEFINE U == S \cup T
<1>3. s \in Seq(U) /\ t \in Seq(U)
  BY <1>1, <1>2
<1> HIDE DEF U
<1>4. s \o t \in Seq(U)
  BY <1>3
<1>5. /\ Len(s) \in Nat /\ Len(t) \in Nat /\ Len(s \o t) = Len(s) + Len(t)
      /\ DOMAIN s = 1 .. Len(s) /\ DOMAIN t = 1 .. Len(t)
      /\ DOMAIN (s \o t) = 1 .. Len(s) + Len(t)
      /\ \A i \in 1 .. Len(s) : (s \o t)[i] = s[i]
      /\ \A i \in Len(s) + 1 .. Len(s) + Len(t) : (s \o t)[i] = t[i - Len(s)]
  BY <1>3
<1>6. \A i \in 1 .. Len(t) : (s \o t)[Len(s) + i] = t[i]
  BY <1>5
<1>7. t = <<>> => s \o t = s
  BY <1>3
<1>8. QED
  BY <1>4, <1>5, <1>6, <1>7 DEF Listed

\* Every element of a concatenation is one of its parts, and the other way round.
LEMMA ConcatElements ==
    ASSUME NEW s, NEW t, Listed(s), Listed(t)
    PROVE  /\ \A i \in DOMAIN (s \o t) : \/ \E j \in DOMAIN s : (s \o t)[i] = s[j]
                                         \/ \E j \in DOMAIN t : (s \o t)[i] = t[j]
           /\ \A j \in DOMAIN s : \E i \in DOMAIN (s \o t) : (s \o t)[i] = s[j]
           /\ \A j \in DOMAIN t : \E i \in DOMAIN (s \o t) : (s \o t)[i] = t[j]
<1>1. ASSUME NEW i \in DOMAIN (s \o t)
      PROVE  \/ \E j \in DOMAIN s : (s \o t)[i] = s[j]
             \/ \E j \in DOMAIN t : (s \o t)[i] = t[j]
  <2>1. CASE i \in 1 .. Len(s)
    BY <2>1, ConcatListed
  <2>2. CASE i \notin 1 .. Len(s)
    <3>0. /\ Len(s) \in Nat /\ Len(t) \in Nat /\ i \in 1 .. Len(s) + Len(t)
          /\ DOMAIN t = 1 .. Len(t)
      BY <1>1, ConcatListed
    <3>1. i \in Len(s) + 1 .. Len(s) + Len(t) /\ i - Len(s) \in DOMAIN t
      BY <2>2, <3>0
    <3>2. QED
      BY <3>1, ConcatListed
  <2>3. QED
    BY <2>1, <2>2
<1>2. ASSUME NEW j \in DOMAIN s
      PROVE  \E i \in DOMAIN (s \o t) : (s \o t)[i] = s[j]
  <2>1. j \in DOMAIN (s \o t) /\ (s \o t)[j] = s[j]
    BY <1>2, ConcatListed
  <2>2. QED
    BY <2>1
<1>3. ASSUME NEW j \in DOMAIN t
      PROVE  \E i \in DOMAIN (s \o t) : (s \o t)[i] = t[j]
  <2>1. Len(s) + j \in DOMAIN (s \o t) /\ (s \o t)[Len(s) + j] = t[j]
    BY <1>3, ConcatListed
  <2>2. QED
    BY <2>1
<1>4. QED
  BY <1>1, <1>2, <1>3

LEMMA TailListed ==
    ASSUME NEW s, Listed(s), s # <<>>
    PROVE  /\ Listed(Tail(s))
           /\ Len(s) \in Nat /\ Len(s) > 0 /\ Len(Tail(s)) = Len(s) - 1
           /\ DOMAIN s = 1 .. Len(s) /\ DOMAIN Tail(s) = 1 .. Len(s) - 1
           /\ Head(s) = s[1]
           /\ \A i \in 1 .. Len(s) - 1 : Tail(s)[i] = s[i + 1]
<1>1. PICK S : s \in Seq(S)
  BY DEF Listed
<1>2. Tail(s) \in Seq(S)
  BY <1>1
<1>3. QED
  BY <1>1, <1>2 DEF Listed

LEMMA TailElements ==
    ASSUME NEW s, Listed(s), s # <<>>
    PROVE  /\ \E j \in DOMAIN s : Head(s) = s[j]
           /\ \A i \in DOMAIN Tail(s) : \E j \in DOMAIN s : Tail(s)[i] = s[j]
           /\ \A j \in DOMAIN s : s[j] = Head(s) \/ \E i \in DOMAIN Tail(s) : Tail(s)[i] = s[j]
<1>1. \E j \in DOMAIN s : Head(s) = s[j]
  <2>1. 1 \in DOMAIN s /\ Head(s) = s[1]
    BY TailListed
  <2>2. QED
    BY <2>1
<1>2. ASSUME NEW i \in DOMAIN Tail(s)
      PROVE  \E j \in DOMAIN s : Tail(s)[i] = s[j]
  <2>1. i + 1 \in DOMAIN s /\ Tail(s)[i] = s[i + 1]
    BY <1>2, TailListed
  <2>2. QED
    BY <2>1
<1>3. ASSUME NEW j \in DOMAIN s, s[j] # Head(s)
      PROVE  \E i \in DOMAIN Tail(s) : Tail(s)[i] = s[j]
  <2>1. j # 1
    BY <1>3, TailListed
  <2>2. j - 1 \in DOMAIN Tail(s) /\ Tail(s)[j - 1] = s[j]
    BY <1>3, <2>1, TailListed
  <2>3. QED
    BY <2>2
<1>4. QED
  BY <1>1, <1>2, <1>3

\* The short sequences that the handlers send.
LEMMA ShortLists ==
    /\ Listed(<<>>) /\ DOMAIN <<>> = {}
    /\ \A p : Listed(<<p>>) /\ DOMAIN <<p>> = {1} /\ <<p>>[1] = p
    /\ \A p, q : /\ Listed(<<p, q>>) /\ DOMAIN <<p, q>> = {1, 2}
                 /\ <<p, q>>[1] = p /\ <<p, q>>[2] = q /\ <<p, q>> = <<p>> \o <<q>>
<1>1. <<>> \in Seq({}) /\ DOMAIN <<>> = {}
  OBVIOUS
<1>2. ASSUME NEW p
      PROVE  <<p>> \in Seq({p}) /\ DOMAIN <<p>> = {1} /\ <<p>>[1] = p
  OBVIOUS
<1>3. ASSUME NEW p, NEW q
      PROVE  /\ <<p, q>> \in Seq({p, q}) /\ DOMAIN <<p, q>> = {1, 2}
             /\ <<p, q>>[1] = p /\ <<p, q>>[2] = q /\ <<p, q>> = <<p>> \o <<q>>
  <2>1. <<p, q>> \in Seq({p, q}) /\ Len(<<p, q>>) = 2
    OBVIOUS
  <2>2. <<p, q>>[1] = p /\ <<p, q>>[2] = q /\ DOMAIN <<p, q>> = 1 .. 2
    BY <2>1
  <2>3. <<p, q>> = <<p>> \o <<q>>
    <3>1. <<p>> \in Seq({p, q}) /\ <<q>> \in Seq({p, q}) /\ Len(<<p>>) = 1 /\ Len(<<q>>) = 1
      OBVIOUS
    <3>2. <<p>>[1] = p /\ <<q>>[1] = q
      OBVIOUS
    <3> DEFINE a == <<p>>
               b == <<q>>
               c == <<p, q>>
    <3> HIDE DEF a, b, c
    <3>3. /\ a \o b \in Seq({p, q}) /\ Len(a \o b) = 2
          /\ (a \o b)[1] = p /\ (a \o b)[2] = q
      BY <3>1, <3>2 DEF a, b
    <3>4. c \in Seq({p, q}) /\ Len(c) = 2 /\ c[1] = p /\ c[2] = q
      BY <2>1, <2>2 DEF c
    <3>5. a \o b = c
      BY <3>3, <3>4
    <3>6. QED
      BY <3>5 DEF a, b, c
  <2>4. 1 .. 2 = {1, 2}
    OBVIOUS
  <2>5. QED
    BY <2>1, <2>2, <2>3, <2>4
<1>4. QED
  BY <1>1, <1>2, <1>3 DEF Listed

-----------------------------------------------------------------------------
LEMMA PlainShort ==
    /\ Plain(<<>>)
    /\ \A p : PlainPdu(p) => Plain(<<p>>)
    /\ \A p, q : PlainPdu(p) /\ PlainPdu(q) => Plain(<<p, q>>)
BY ShortLists DEF Plain

LEMMA PlainConcat ==
    ASSUME NEW s, NEW t, Plain(s), Plain(t)
    PROVE  Plain(s \o t)
BY ConcatListed, ConcatElements DEF Plain

LEMMA PlainTypes ==
    /\ \A type : type \notin ServerMcsTypes \cup {"DeactivateAll", "LicenseMessage"}
                    => PlainPdu(Pdu(type))
    /\ \A transition : PlainPdu(ErrorAlert(transition))
BY DEF PlainPdu, Pdu, ErrorAlert, ServerMcsTypes

LEMMA ReplyPlain == \A p : Plain(PeerReply(p))
<1>1. /\ PlainPdu(ErrorAlert("TOTAL_ABORT")) /\ PlainPdu(Pdu("PlatformChallenge"))
      /\ PlainPdu(Pdu("NewLicense")) /\ PlainPdu(Pdu("Synchronize"))
      /\ PlainPdu(Pdu("ControlCooperate")) /\ PlainPdu(Pdu("FontMap"))
      /\ PlainPdu(Pdu("DisconnectUltimatum"))
  BY PlainTypes DEF ServerMcsTypes
<1>2. QED
  BY <1>1, PlainShort DEF PeerReply

\* No handler of a PDU touches the reactivation flag.
LEMMA FinalizeKeepsReactivation ==
    \A p : "DEACTIVATE_REACTIVATE" \in PeerFinalizeAfter(p)
               <=> "DEACTIVATE_REACTIVATE" \in sFinalize
<1> SUFFICES ASSUME NEW p
             PROVE  "DEACTIVATE_REACTIVATE" \in PeerFinalizeAfter(p)
                        <=> "DEACTIVATE_REACTIVATE" \in sFinalize
  OBVIOUS
<1>1. \A type \in DOMAIN CsFlag : CsFlag[type] # "DEACTIVATE_REACTIVATE"
  BY DEF CsFlag
<1>2. QED
  BY <1>1 DEF PeerFinalizeAfter

LEMMA RecvTalks ==
    ASSUME Listed(sOut), NEW state, NEW pdus, state # "MCS_CREATE_REQUEST", Plain(pdus),
           PeerRecv(sPdu, state, pdus, TRUE)
    PROVE  ServerTalks
<1>1. Plain(PeerReply(sPdu) \o pdus)
  BY ReplyPlain, PlainConcat
<1>2. sOut' = sOut \o (PeerReply(sPdu) \o pdus)
  BY DEF PeerRecv, ServerSend
<1>3. QED
  BY <1>1, <1>2, FinalizeKeepsReactivation DEF PeerRecv, ServerTalks

LEMMA TransitionTalks ==
    ASSUME Listed(sOut), NEW state, NEW pdus, state # "MCS_CREATE_REQUEST", Plain(pdus),
           ServerTransition(state, pdus, TRUE)
    PROVE  ServerTalks
BY DEF ServerTransition, ServerSend, ServerTalks

\* A PDU is refused, and an alert may be sent.
LEMMA FailsTalks ==
    ASSUME Listed(sOut), NEW state, NEW pdus, state # "MCS_CREATE_REQUEST", Plain(pdus),
           PeerFails(sPdu, state, pdus, TRUE)
    PROVE  ServerTalks
<1>1. Plain(<<ErrorAlert("TOTAL_ABORT")>>) /\ Plain(<<>>)
  BY PlainTypes, PlainShort
<1>2. PICK alert \in LicenseAlerts(sPdu) : sOut' = sOut \o (alert \o pdus)
  BY DEF PeerFails, ServerSend
<1>3. Plain(alert)
  BY <1>1, <1>2, Zenon DEF LicenseAlerts
<1>4. \E sent : Plain(sent) /\ sOut' = sOut \o sent
  BY <1>2, <1>3, PlainConcat
<1>5. QED
  BY <1>4 DEF PeerFails, ServerTalks

LEMMA RejectTalks ==
    ASSUME Listed(sOut), sState # "MCS_CREATE_REQUEST", PeerReject(sPdu) \/ ServerReject
    PROVE  ServerTalks
<1>1. CASE PeerReject(sPdu)
  BY <1>1, PlainShort, FailsTalks DEF PeerReject, PeerFails
<1>2. CASE ServerReject
  BY <1>2, PlainShort, ConcatListed, ShortLists DEF ServerReject, ServerTalks
<1>3. QED
  BY <1>1, <1>2

\* Once the channels are joined, every step of the server is of this kind.
LEMMA StepTalks ==
    ASSUME Listed(sOut), ServerStep,
           ~ServerConnectInitial, ~ServerAttachUser, ~ServerChannelJoin
    PROVE  ServerTalks
<1> USE DEF ServerIn
<1>e. Plain(<<>>) /\ sOut = sOut \o <<>>
  BY PlainShort, ConcatListed, ShortLists
<1>q. \A type \in {"AutoDetectRequest", "MultitransportRequest", "DemandActive", "MonitorLayout",
                   "ControlGranted", "LicenseRequest"} : Plain(<<Pdu(type)>>)
  BY PlainTypes, PlainShort DEF ServerMcsTypes
<1>a. Plain(<<ErrorAlert("VALID_CLIENT")>>)
  BY PlainTypes, PlainShort
<1>p. sState # "MCS_CREATE_REQUEST" => PeerStateAfter(sPdu) # "MCS_CREATE_REQUEST"
  BY DEF PeerStateAfter
<1>1. CASE ServerErectDomain \/ ServerEstablishKeys \/ ServerClientInfo
  <2>1. CASE ServerReject
    BY <1>1, <2>1, RejectTalks DEF ServerErectDomain, ServerEstablishKeys, ServerClientInfo
  <2>2. CASE ~ServerReject
    BY <1>1, <1>e, <2>2
       DEF ServerErectDomain, ServerEstablishKeys, ServerClientInfo, ServerTalks
  <2>3. QED
    BY <2>1, <2>2
<1>2. CASE ServerAutoDetectRequest
  BY <1>2, <1>e, <1>q, TransitionTalks DEF ServerAutoDetectRequest, ServerTransition
<1>3. CASE ServerAutoDetectResponse
  BY <1>3, <1>e, <1>p, RecvTalks, RejectTalks DEF ServerAutoDetectResponse, PeerRecv
<1>4. CASE ServerLicensing
  <2>1. CASE sLicense = "INITIAL"
    <3>1. \E pdus : Plain(pdus) /\ sOut' = sOut \o pdus
      BY <1>4, <1>q, <1>a, <2>1 DEF ServerLicensing, ServerSend
    <3>2. QED
      BY <1>4, <2>1, <3>1 DEF ServerLicensing, ServerTalks
  <2>2. CASE sLicense \in {"COMPLETED", "ABORTED"}
    BY <1>4, <1>e, <2>2, TransitionTalks, RejectTalks DEF ServerLicensing, ServerTransition
  <2>3. CASE sLicense \notin {"INITIAL", "COMPLETED", "ABORTED"}
    BY <1>4, <1>e, <2>3, RecvTalks, RejectTalks DEF ServerLicensing, PeerRecv
  <2>4. QED
    BY <2>1, <2>2, <2>3
<1>5. CASE ServerMultitransportRequest \/ ServerDemandActive \/ ServerMonitorLayout
  BY <1>5, <1>e, <1>q, TransitionTalks
     DEF ServerMultitransportRequest, ServerDemandActive, ServerMonitorLayout, ServerTransition
<1>6. CASE ServerMultitransportResponse \/ ServerConfirmActive \/ ServerActive
  BY <1>6, <1>e, <1>p, RecvTalks, RejectTalks
     DEF ServerMultitransportResponse, ServerConfirmActive, ServerActive, ServerPlainRecv, PeerRecv
<1>f. ASSUME NEW state, NEW flag, NEW pdus, NEW next, Plain(pdus),
             state # "MCS_CREATE_REQUEST", next # "MCS_CREATE_REQUEST",
             ServerFinalize(state, flag, pdus, next)
      PROVE  ServerTalks
  <2>1. CASE PeerRecvFails(sPdu)
    <3>1. \/ PeerFails(sPdu, next, pdus, TRUE)
          \/ PeerFails(sPdu, sState, <<>>, TRUE) /\ sState = state
      BY <1>f, <2>1 DEF ServerFinalize, ServerIn, PeerFails
    <3>2. QED
      BY <1>f, <1>e, <3>1, FailsTalks
  <2>2. CASE ~PeerRecvFails(sPdu)
    <3>1. \/ PeerRecv(sPdu, next, pdus, TRUE)
          \/ PeerRecv(sPdu, PeerStateAfter(sPdu), <<>>, TRUE) /\ sState = state
      BY <1>f, <2>2 DEF ServerFinalize, PeerRecv
    <3>2. QED
      BY <1>f, <1>e, <1>p, <3>1, RecvTalks
  <2>3. QED
    BY <2>1, <2>2
<1>7. CASE ServerFinalizeSync \/ ServerFinalizeCooperate \/ ServerFinalizeRequestControl
  BY <1>7, <1>e, <1>q, <1>f
     DEF ServerFinalizeSync, ServerFinalizeCooperate, ServerFinalizeRequestControl
<1>8. CASE ServerFinalizeKeyList
  <2>1. CASE AwaitsKeyList
    BY <1>8, <1>e, <1>f, <2>1 DEF ServerFinalizeKeyList
  <2>2. CASE ~AwaitsKeyList
    BY <1>8, <1>e, <2>2, TransitionTalks DEF ServerFinalizeKeyList, ServerTransition
  <2>3. QED
    BY <2>1, <2>2
<1>9. CASE ServerFinalizeFontList
  BY <1>9, <1>e, <1>p, RecvTalks, RejectTalks DEF ServerFinalizeFontList, PeerRecv
<1>10. CASE ServerActivate
  BY <1>10, <1>e DEF ServerActivate, ServerTalks
<1>11. QED
  BY <1>1, <1>2, <1>3, <1>4, <1>5, <1>6, <1>7, <1>8, <1>9, <1>10 DEF ServerStep

-----------------------------------------------------------------------------
LEMMA OrdinaryShort ==
    /\ Ordinary(<<>>)
    /\ \A p : OrdinaryPdu(p) => Ordinary(<<p>>)
    /\ \A p, q : OrdinaryPdu(p) /\ OrdinaryPdu(q) => Ordinary(<<p, q>>)
BY ShortLists DEF Ordinary

LEMMA OrdinaryTypes ==
    \A type : type \notin {"ChannelJoinRequest", "ConfirmActive"} => Ordinary(<<Pdu(type)>>)
<1>1. \A type : type \notin {"ChannelJoinRequest", "ConfirmActive"} => OrdinaryPdu(Pdu(type))
  BY DEF OrdinaryPdu, Pdu
<1>2. QED
  BY <1>1, OrdinaryShort

LEMMA ClientReplyOrdinary ==
    /\ \A p : Ordinary(MessageReply(p))
    /\ \A p : Ordinary(LicenseReply(p))
    /\ Ordinary(ClientInfoPdus)
<1>1. \A p : Ordinary(LicenseReply(p))
  <2>1. \A type \in {"LicenseInfo", "NewLicenseRequest", "PlatformChallengeResponse"} :
            Ordinary(<<Pdu(type)>>)
    BY OrdinaryTypes
  <2>2. QED
    BY <2>1, OrdinaryShort DEF LicenseReply
<1>2. \A p : Ordinary(MessageReply(p))
  BY <1>1, OrdinaryTypes, OrdinaryShort DEF MessageReply
<1>3. Ordinary(ClientInfoPdus)
  <2> DEFINE first == IF cSettings.rdpSecurity THEN <<Pdu("SecurityExchange")>> ELSE <<>>
             info == <<Pdu("ClientInfo")>>
  <2>1. Ordinary(first) /\ Ordinary(info)
    BY OrdinaryTypes, OrdinaryShort
  <2>2. ClientInfoPdus = first \o info
    BY DEF ClientInfoPdus
  <2> HIDE DEF first, info
  <2>3. Ordinary(first \o info)
    BY <2>1, ConcatListed, ConcatElements DEF Ordinary
  <2>4. QED
    BY <2>2, <2>3
<1>4. QED
  BY <1>1, <1>2, <1>3

LEMMA ClientRejectTalks ==
    ASSUME Listed(cOut), ClientReject
    PROVE  ClientTalks
<1>1. Ordinary(<<>>) /\ cOut = cOut \o <<>>
  BY OrdinaryShort, ConcatListed, ShortLists
<1>2. QED
  BY <1>1 DEF ClientReject, ClientFail, ClientTalks

LEMMA ClientRecvTalks ==
    ASSUME Listed(cOut), NEW state, Connected(cState),
           RecvPdu(cPdu, state, TRUE), cPdu' \in {cPdu, NoPdu}
    PROVE  ClientTalks
BY ClientReplyOrdinary DEF RecvPdu, ClientSend, ClientTalks

\* Every step of the client that does not join channels is of this kind.
LEMMA ClientStepTalks ==
    ASSUME Listed(cOut), cSettings \in ClientSettings, ClientStep,
           ~ClientMcsCreateResponse, ~ClientAttachUserConfirm, ~ClientChannelJoinConfirm
    PROVE  ClientTalks
<1> USE DEF ClientIn
<1>e. Ordinary(<<>>) /\ cOut = cOut \o <<>>
  BY OrdinaryShort, ConcatListed, ShortLists
<1>r. RecvReturns(cPdu) \/ ClientSuccess \/ ClientFail \/ ClientTryAgain \/ ClientContinue
        \/ ClientQuit => cPdu' \in {cPdu, NoPdu}
  BY DEF RecvReturns, ClientSuccess, ClientFail, ClientTryAgain, ClientContinue, ClientQuit
<1>c. \A state : cState = state /\ state \notin {"NEGO", "MCS_CREATE_REQUEST",
                                                 "MCS_CREATE_RESPONSE"} => Connected(cState)
  BY DEF Connected
<1>1. CASE ClientBegin
  BY <1>1, <1>e DEF ClientBegin, ClientContinue, ClientTalks, Connected
<1>2. CASE ClientMcsCreateRequest
  <2>1. OrdinaryPdu(ConnectInitial)
    BY DEF OrdinaryPdu, ConnectInitial
  <2>2. Ordinary(<<ConnectInitial>>)
    BY <2>1, OrdinaryShort
  <2>3. QED
    BY <1>2, <2>2 DEF ClientMcsCreateRequest, ClientSend, ClientSuccess, ClientTalks, Connected
<1>3. ASSUME NEW state, NEW next, Connected(state), ClientAutoDetect(state, next)
      PROVE  ClientTalks
  <2>1. CASE OnMessageChannel(cPdu) /\ ~MessageFails(cPdu)
    BY <1>3, <1>r, <2>1, ClientReplyOrdinary DEF ClientAutoDetect, ClientSend, ClientTalks
  <2>2. CASE ~(OnMessageChannel(cPdu) /\ ~MessageFails(cPdu))
    BY <1>3, <1>r, <1>e, <2>2 DEF ClientAutoDetect, ClientTalks
  <2>3. QED
    BY <2>1, <2>2
<1>4. CASE ClientLicensing
  <2>0. Connected(cState)
    BY <1>4, <1>c DEF ClientLicensing
  <2>1. CASE OnMessageChannel(cPdu) /\ ~MessageFails(cPdu)
    BY <1>4, <1>r, <2>0, <2>1, ClientReplyOrdinary DEF ClientLicensing, ClientSend, ClientTalks
  <2>2. CASE ~(OnMessageChannel(cPdu) /\ ~MessageFails(cPdu)) /\ LicenseFails(cPdu)
    BY <1>4, <1>r, <1>e, <2>0, <2>2 DEF ClientLicensing, ClientTalks
  <2>3. CASE ~(OnMessageChannel(cPdu) /\ ~MessageFails(cPdu)) /\ ~LicenseFails(cPdu)
    BY <1>4, <1>r, <2>0, <2>3, ClientReplyOrdinary DEF ClientLicensing, ClientSend, ClientTalks
  <2>4. QED
    BY <2>1, <2>2, <2>3
<1>5. CASE ClientDemandActive
  BY <1>5, <1>r, <1>c, ClientRecvTalks, ClientRejectTalks DEF ClientDemandActive, RecvPdu
<1>6. CASE ClientConfirmActive
  <2> DEFINE confirm == [type |-> "ConfirmActive", persist |-> cSettings.persist]
  <2>1. OrdinaryPdu(confirm)
    BY DEF OrdinaryPdu, ClientSettings
  <2>2. Ordinary(<<confirm>>) /\ cOut' = cOut \o <<confirm>>
    BY <1>6, <2>1, OrdinaryShort DEF ClientConfirmActive, ClientSend
  <2> HIDE DEF confirm
  <2>3. cPdu' \in {cPdu, NoPdu} /\ Connected(cState)
    BY <1>6, <1>r, <1>c DEF ClientConfirmActive
  <2>4. UNCHANGED <<cJoined, cMessageChannel, cSettings>>
    BY <1>6 DEF ClientConfirmActive
  <2>5. QED
    BY <2>2, <2>3, <2>4 DEF ClientTalks
<1>7. CASE ClientMonitorLayout
  BY <1>7, <1>r, <1>c, ClientRecvTalks, ClientRejectTalks DEF ClientMonitorLayout, RecvPdu
<1>8. ASSUME NEW state, NEW pdu, NEW next, Connected(state),
             pdu \notin {"ChannelJoinRequest", "ConfirmActive"},
             SendFinalizePdu(state, pdu, next)
      PROVE  ClientTalks
  BY <1>8, OrdinaryTypes DEF SendFinalizePdu, ClientSend, ClientTalks
<1>9. CASE SendFontList
  <2>1. cPdu' \in {cPdu, NoPdu}
    BY <1>9, <1>r DEF SendFontList
  <2>2. Ordinary(<<Pdu("FontList")>>)
    BY OrdinaryTypes
  <2>3. cOut' = cOut \o <<Pdu("FontList")>> /\ Connected(cState)
    BY <1>9, <1>c DEF SendFontList, ClientSend
  <2>4. UNCHANGED <<cJoined, cMessageChannel, cSettings>>
    BY <1>9 DEF SendFontList
  <2>5. QED
    BY <2>1, <2>2, <2>3, <2>4 DEF ClientTalks
<1>10. ASSUME NEW state, NEW flag, NEW next, Connected(state), HandleScFlags(state, flag, next)
       PROVE  ClientTalks
  <2>1. cState = state
    BY <1>10 DEF HandleScFlags
  <2>2. CASE RecvFails(cPdu)
    BY <1>10, <2>2, ClientRejectTalks DEF HandleScFlags
  <2>3. CASE ~RecvFails(cPdu)
    <3>1. /\ RecvPdu(cPdu, next, TRUE) \/ RecvPdu(cPdu, StateAfter(cPdu), TRUE)
          /\ cPdu' \in {cPdu, NoPdu}
      BY <1>10, <1>r, <2>3 DEF HandleScFlags, RecvPdu
    <3>2. QED
      BY <1>10, <2>1, <3>1, ClientRecvTalks
  <2>4. QED
    BY <2>2, <2>3
<1>11. CASE ClientActive
  BY <1>11, <1>r, <1>c, ClientRecvTalks, ClientRejectTalks DEF ClientActive, RecvPdu
<1>12. QED
  <2>1. \A state \in {"CONNECT_TIME_AUTO_DETECT_REQUEST", "MULTITRANSPORT_BOOTSTRAPPING_REQUEST"}
            \cup FinalizationStates \cup ClientFinalizationStates : Connected(state)
    BY DEF Connected, FinalizationStates, ClientFinalizationStates
  <2>2. CASE ClientAutoDetect("CONNECT_TIME_AUTO_DETECT_REQUEST", "LICENSING")
    BY <1>3, <2>1, <2>2
  <2>3. CASE ClientAutoDetect("MULTITRANSPORT_BOOTSTRAPPING_REQUEST",
                              "CAPABILITIES_EXCHANGE_DEMAND_ACTIVE")
    BY <1>3, <2>1, <2>3
  <2>4. CASE SendSynchronize \/ SendCooperate \/ SendRequestControl \/ SendPersistentKeyList
    BY <1>8, <2>1, <2>4
       DEF SendSynchronize, SendCooperate, SendRequestControl, SendPersistentKeyList,
           FinalizationStates
  <2>5. CASE ClientFinalizeSync \/ ClientFinalizeCooperate \/ ClientFinalizeGrantedControl
               \/ ClientFinalizeFontMap
    BY <1>10, <2>1, <2>5
       DEF ClientFinalizeSync, ClientFinalizeCooperate, ClientFinalizeGrantedControl,
           ClientFinalizeFontMap, ClientFinalizationStates
  <2>6. QED
    BY <1>1, <1>2, <1>4, <1>5, <1>6, <1>7, <1>9, <1>11, <2>2, <2>3, <2>4, <2>5 DEF ClientStep

-----------------------------------------------------------------------------
LEMMA NoPduSaysNothing ==
    /\ \A state, settings, joined, messageChannel :
           FromServer(NoPdu, state, settings, joined, messageChannel)
    /\ \A state, messageChannel : FromClient(NoPdu, state, messageChannel)
BY DEF FromServer, FromClient, NoPdu, Pdu, ServerMcsTypes

\* A step of the server keeps true what was said to the client and asked for by it, as long as
\* it takes back no channel, no feature and no answer.
LEMMA ServerKeepsPromises ==
    ASSUME JoinRight,
           UNCHANGED <<cState, cRun, cPdu, cJoined, cMessageChannel, cSettings, cOut>>,
           sSettings' \in ServerSettings, sState' # "MCS_CREATE_REQUEST",
           sSettings'.skipJoin = sSettings.skipJoin, sMessageChannel' = sMessageChannel,
           sJoined \subseteq sJoined', sJoined' \subseteq Channels,
           sPdu' \in {sPdu, NoPdu},
           NEW pdus, Listed(pdus), sOut' = sOut \o pdus,
           \A i \in DOMAIN pdus :
               FromServer(pdus[i], sState', sSettings', sJoined', sMessageChannel')
    PROVE  JoinRight'
<1>0. sJoined = Channels => sJoined' = Channels
  OBVIOUS
<1>1. \A p : FromServer(p, sState, sSettings, sJoined, sMessageChannel)
            => FromServer(p, sState', sSettings', sJoined', sMessageChannel')
  BY <1>0 DEF FromServer
<1>2. \A p : FromClient(p, sState, sMessageChannel) => FromClient(p, sState', sMessageChannel')
  BY DEF FromClient
<1>3. Listed(sOut') /\ Listed(cOut')
  BY ConcatListed DEF JoinRight
<1>4. ClientInformed'
  BY DEF JoinRight, ClientInformed, Connected
<1>5. \A i \in DOMAIN sOut' : FromServer(sOut'[i], sState', sSettings', sJoined', sMessageChannel')
  BY <1>1, ConcatElements DEF JoinRight
<1>6. /\ FromServer(cPdu', sState', sSettings', sJoined', sMessageChannel')
      /\ FromClient(sPdu', sState', sMessageChannel')
      /\ \A i \in DOMAIN cOut' : FromClient(cOut'[i], sState', sMessageChannel')
  BY <1>1, <1>2, NoPduSaysNothing DEF JoinRight
<1>7. QED
  BY <1>3, <1>4, <1>5, <1>6 DEF JoinRight

LEMMA ServerTalkKeepsJoins ==
    ASSUME JoinRight, ServerTalks, UNCHANGED clientVars, sPdu' \in {sPdu, NoPdu}
    PROVE  JoinRight'
<1>1. PICK pdus : Plain(pdus) /\ sOut' = sOut \o pdus
  BY DEF ServerTalks
<1>2. \A i \in DOMAIN pdus : FromServer(pdus[i], sState', sSettings', sJoined', sMessageChannel')
  BY <1>1 DEF Plain, PlainPdu, FromServer, ServerMcsTypes
<1>3. /\ sSettings' \in ServerSettings
      /\ sSettings'.skipJoin = sSettings.skipJoin
  <2>1. CASE sSettings' = sSettings
    BY <2>1 DEF JoinRight
  <2>2. CASE sPdu.type = "ConfirmActive" /\ sSettings' = [sSettings EXCEPT !.persist = sPdu.persist]
    BY <2>2 DEF JoinRight, FromClient, ServerSettings
  <2>3. QED
    BY <2>1, <2>2 DEF ServerTalks
<1>4. QED
  BY <1>1, <1>2, <1>3, ServerKeepsPromises DEF ServerTalks, Plain, clientVars, JoinRight

\* peer_recv_callback_internal reads the PDU on the stream or leaves it.
LEMMA ServerReadsOnce == ServerStep => sPdu' \in {sPdu, NoPdu}
<1> SUFFICES ASSUME ServerStep PROVE sPdu' \in {sPdu, NoPdu}
  OBVIOUS
<1> USE DEF ServerReject, PeerReject, PeerFails, ServerSuccess, ServerRerun, ServerContinue,
            ServerFail, ServerQuit, PeerReturns, PeerRecv, ServerTransition
<1>1. CASE ServerConnectInitial \/ ServerErectDomain \/ ServerAttachUser \/ ServerChannelJoin
             \/ ServerEstablishKeys \/ ServerClientInfo
  BY <1>1 DEF ServerConnectInitial, ServerErectDomain, ServerAttachUser, ServerChannelJoin,
              ServerEstablishKeys, ServerClientInfo
<1>2. CASE ServerAutoDetectRequest \/ ServerAutoDetectResponse
  BY <1>2 DEF ServerAutoDetectRequest, ServerAutoDetectResponse
<1>3. CASE ServerLicensing
  BY <1>3 DEF ServerLicensing
<1>4. CASE ServerMultitransportRequest \/ ServerDemandActive \/ ServerMonitorLayout
  BY <1>4 DEF ServerMultitransportRequest, ServerDemandActive, ServerMonitorLayout
<1>5. CASE ServerMultitransportResponse \/ ServerConfirmActive \/ ServerActive
  BY <1>5 DEF ServerMultitransportResponse, ServerConfirmActive, ServerActive, ServerPlainRecv
<1>6. CASE ServerFinalizeSync \/ ServerFinalizeCooperate \/ ServerFinalizeRequestControl
  BY <1>6 DEF ServerFinalizeSync, ServerFinalizeCooperate, ServerFinalizeRequestControl,
              ServerFinalize
<1>7. CASE ServerFinalizeKeyList
  BY <1>7 DEF ServerFinalizeKeyList, ServerFinalize
<1>8. CASE ServerFinalizeFontList \/ ServerActivate
  BY <1>8 DEF ServerFinalizeFontList, ServerActivate
<1>9. QED
  BY <1>1, <1>2, <1>3, <1>4, <1>5, <1>6, <1>7, <1>8 DEF ServerStep

LEMMA ServerStepKeepsJoins ==
    ASSUME JoinRight, ServerStep, UNCHANGED clientVars
    PROVE  JoinRight'
<1> USE DEF ServerIn
<1>0. Listed(sOut) /\ sPdu' \in {sPdu, NoPdu} /\ sOut = sOut \o <<>> /\ Listed(<<>>)
  BY ServerReadsOnce, ConcatListed, ShortLists DEF JoinRight
<1>c. UNCHANGED <<cState, cRun, cPdu, cJoined, cMessageChannel, cSettings, cOut>>
  BY DEF clientVars
<1>r. ASSUME ServerReject PROVE JoinRight'
  BY <1>r, <1>c, NoPduSaysNothing
     DEF ServerReject, ServerFail, JoinRight, ClientInformed, FromServer, FromClient,
         AnnouncedChannels
<1>1. CASE ServerConnectInitial /\ ~ServerReject
  <2>1. /\ sState = "MCS_CREATE_REQUEST" /\ sState' = "MCS_ERECT_DOMAIN"
        /\ sOut' = sOut \o <<ConnectResponse(sSettings', sMessageChannel')>>
        /\ sJoined' = sJoined /\ sPdu' = NoPdu
    BY <1>1 DEF ServerConnectInitial, ServerSend, ServerSuccess
  <2>2. sSettings' \in ServerSettings
    BY <1>1 DEF ServerConnectInitial, JoinRight, ServerSettings
  <2>3. ClientInformed'
    BY <1>c, <2>1 DEF JoinRight, ClientInformed, Connected
  <2>4. \A p : FromServer(p, sState, sSettings, sJoined, sMessageChannel)
            => FromServer(p, sState', sSettings', sJoined', sMessageChannel')
    BY <2>1 DEF FromServer, ServerMcsTypes
  <2>5. \A p : FromClient(p, sState, sMessageChannel) => FromClient(p, sState', sMessageChannel')
    BY <2>1 DEF FromClient
  <2>6. FromServer(ConnectResponse(sSettings', sMessageChannel'),
                   sState', sSettings', sJoined', sMessageChannel')
    BY <2>1 DEF FromServer, ConnectResponse
  <2> DEFINE response == ConnectResponse(sSettings', sMessageChannel')
  <2> HIDE DEF response
  <2>7. /\ Listed(sOut')
        /\ \A i \in DOMAIN sOut' :
               FromServer(sOut'[i], sState', sSettings', sJoined', sMessageChannel')
    <3>1. /\ sOut' = sOut \o <<response>>
          /\ FromServer(response, sState', sSettings', sJoined', sMessageChannel')
          /\ Listed(<<response>>) /\ DOMAIN <<response>> = {1} /\ <<response>>[1] = response
      BY <2>1, <2>6, ShortLists DEF response
    <3>2. Listed(sOut') /\ \A i \in DOMAIN sOut' : \/ \E j \in DOMAIN sOut : sOut'[i] = sOut[j]
                                                   \/ sOut'[i] = response
      BY <1>0, <3>1, ConcatListed, ConcatElements
    <3>3. QED
      BY <2>4, <3>1, <3>2 DEF JoinRight
  <2>8. QED
    BY <1>c, <2>1, <2>2, <2>3, <2>4, <2>5, <2>7, NoPduSaysNothing DEF JoinRight
<1>2. CASE ServerAttachUser /\ ~ServerReject
  <2> DEFINE confirm == Pdu("AttachUserConfirm")
  <2>1. /\ sOut' = sOut \o <<confirm>> /\ sState' # "MCS_CREATE_REQUEST"
        /\ UNCHANGED <<sSettings, sMessageChannel>>
        /\ sJoined' = IF sSettings.skipJoin THEN Channels ELSE sJoined
    BY <1>2 DEF ServerAttachUser, ServerSend
  <2>2. FromServer(confirm, sState', sSettings', sJoined', sMessageChannel')
    BY <2>1 DEF FromServer, Pdu
  <2>3. sJoined \subseteq sJoined' /\ sJoined' \subseteq Channels
    BY <2>1 DEF JoinRight
  <2> HIDE DEF confirm
  <2>4. /\ Listed(<<confirm>>)
        /\ \A i \in DOMAIN <<confirm>> :
               FromServer(<<confirm>>[i], sState', sSettings', sJoined', sMessageChannel')
    BY <2>2, <2>3, ShortLists
  <2> DEFINE sent == <<confirm>>
  <2> HIDE DEF sent
  <2>5. /\ Listed(sent) /\ sOut' = sOut \o sent
        /\ \A i \in DOMAIN sent :
               FromServer(sent[i], sState', sSettings', sJoined', sMessageChannel')
    BY <2>1, <2>4 DEF sent
  <2>6. QED
    BY <1>0, <1>c, <2>1, <2>2, <2>3, <2>5, ServerKeepsPromises DEF JoinRight
<1>3. CASE ServerChannelJoin /\ ~ServerReject
  <2> DEFINE confirm == JoinConfirm(sPdu.channelId)
  <2>1. /\ sOut' = sOut \o <<confirm>> /\ sState' # "MCS_CREATE_REQUEST"
        /\ UNCHANGED <<sSettings, sMessageChannel>>
        /\ sPdu.type = "ChannelJoinRequest"
        /\ sJoined' = sJoined \cup ({sPdu.channelId} \cap AnnouncedChannels)
    BY <1>3 DEF ServerChannelJoin, ServerSend
  <2>2. sPdu.channelId \in sJoined' /\ sJoined \subseteq sJoined' /\ sJoined' \subseteq Channels
    BY <2>1 DEF JoinRight, FromClient, AnnouncedChannels
  <2>3. FromServer(confirm, sState', sSettings', sJoined', sMessageChannel')
    BY <2>1, <2>2 DEF FromServer, JoinConfirm
  <2> HIDE DEF confirm
  <2>4. /\ Listed(<<confirm>>)
        /\ \A i \in DOMAIN <<confirm>> :
               FromServer(<<confirm>>[i], sState', sSettings', sJoined', sMessageChannel')
    BY <2>2, <2>3, ShortLists
  <2> DEFINE sent == <<confirm>>
  <2> HIDE DEF sent
  <2>5. /\ Listed(sent) /\ sOut' = sOut \o sent
        /\ \A i \in DOMAIN sent :
               FromServer(sent[i], sState', sSettings', sJoined', sMessageChannel')
    BY <2>1, <2>4 DEF sent
  <2>6. QED
    BY <1>0, <1>c, <2>1, <2>2, <2>3, <2>5, ServerKeepsPromises DEF JoinRight
<1>4. CASE ~ServerConnectInitial /\ ~ServerAttachUser /\ ~ServerChannelJoin
  BY <1>0, <1>4, StepTalks, ServerTalkKeepsJoins
<1>5. QED
  BY <1>r, <1>1, <1>2, <1>3, <1>4

\* A step of the client that sends ordinary PDUs and requests for channels that exist.
LEMMA ClientKeepsPromises ==
    ASSUME JoinRight, UNCHANGED serverVars, cPdu' \in {cPdu, NoPdu},
           cSettings' \in ClientSettings, ClientInformed',
           NEW pdus, Listed(pdus), cOut' = cOut \o pdus,
           \A i \in DOMAIN pdus : FromClient(pdus[i], sState, sMessageChannel)
    PROVE  JoinRight'
<1>1. UNCHANGED <<sState, sPdu, sJoined, sMessageChannel, sSettings, sOut>>
  BY DEF serverVars
<1>2. Listed(cOut') /\ \A i \in DOMAIN cOut' : FromClient(cOut'[i], sState, sMessageChannel)
  BY ConcatListed, ConcatElements DEF JoinRight
<1>3. FromServer(cPdu', sState, sSettings, sJoined, sMessageChannel)
  BY NoPduSaysNothing DEF JoinRight
<1>4. QED
  BY <1>1, <1>2, <1>3 DEF JoinRight

LEMMA ClientTalkKeepsJoins ==
    ASSUME JoinRight, ClientTalks, UNCHANGED serverVars
    PROVE  JoinRight'
<1>1. PICK pdus : Ordinary(pdus) /\ cOut' = cOut \o pdus
  BY DEF ClientTalks
<1>2. \A i \in DOMAIN pdus : FromClient(pdus[i], sState, sMessageChannel)
  BY <1>1 DEF Ordinary, OrdinaryPdu, FromClient
<1>3. ClientInformed'
  BY DEF JoinRight, ClientInformed, ClientTalks, serverVars
<1>4. QED
  BY <1>1, <1>2, <1>3, ClientKeepsPromises DEF ClientTalks, Ordinary, JoinRight

\* The client asks only for channels that exist at the server.
LEMMA ExpectedExists ==
    ASSUME NEW joined, NEW c \in Expected(joined)
    PROVE  c \in Channels /\ (c = MessageChannelId => cMessageChannel)
<1>1. MessageChannelId # UserId /\ MessageChannelId # MCS_GLOBAL_CHANNEL_ID
        /\ MessageChannelId \notin StaticChannels
  BY ChannelCountAssumption DEF MessageChannelId, UserId, MCS_GLOBAL_CHANNEL_ID, StaticChannels
<1>2. QED
  BY <1>1 DEF Expected, Channels

\* rdp_client_join_channel or rdp_client_send_client_info_and_change_state
LEMMA JoinKeepsJoins ==
    ASSUME JoinRight, UNCHANGED <<serverVars, cMessageChannel, cSettings>>,
           Connected(cState), cPdu' = NoPdu, cJoined' \subseteq sJoined,
           JoinNextOrSendInfo(cJoined')
    PROVE  JoinRight'
<1>1. ClientInformed'
  BY DEF JoinRight, ClientInformed, serverVars
<1>2. CASE Expected(cJoined') = {}
  <2>1. cOut' = cOut \o ClientInfoPdus /\ Listed(ClientInfoPdus)
    BY <1>2, ClientReplyOrdinary DEF JoinNextOrSendInfo, ClientSend, Ordinary
  <2>2. \A i \in DOMAIN ClientInfoPdus : FromClient(ClientInfoPdus[i], sState, sMessageChannel)
    BY ClientReplyOrdinary DEF Ordinary, OrdinaryPdu, FromClient
  <2>3. QED
    BY <1>1, <2>1, <2>2, ClientKeepsPromises DEF JoinRight
<1>3. CASE Expected(cJoined') # {}
  <2>1. PICK c \in Expected(cJoined') : cOut' = cOut \o <<JoinRequest(c)>>
    BY <1>3 DEF JoinNextOrSendInfo, ClientSend
  <2> DEFINE request == JoinRequest(c)
             sent == <<request>>
  <2>2. FromClient(request, sState, sMessageChannel)
    BY <2>1, ExpectedExists DEF FromClient, JoinRequest, JoinRight, ClientInformed
  <2> HIDE DEF request
  <2>3. Listed(sent) /\ \A i \in DOMAIN sent : FromClient(sent[i], sState, sMessageChannel)
    BY <2>2, ShortLists
  <2>4. cOut' = cOut \o sent
    BY <2>1 DEF request
  <2> HIDE DEF sent
  <2>5. QED
    BY <1>1, <2>3, <2>4, ClientKeepsPromises DEF JoinRight
<1>4. QED
  BY <1>2, <1>3

LEMMA ClientStepKeepsJoins ==
    ASSUME JoinRight, ClientStep, UNCHANGED serverVars
    PROVE  JoinRight'
<1> USE DEF ClientIn
<1>r. ASSUME ClientReject PROVE JoinRight'
  BY <1>r, ClientRejectTalks, ClientTalkKeepsJoins DEF JoinRight
<1>1. CASE ClientMcsCreateResponse /\ ~ClientReject
  <2> DEFINE sent == <<Pdu("ErectDomain"), Pdu("AttachUserRequest")>>
  <2>1. /\ cPdu.type = "ConnectResponse" /\ cPdu' = NoPdu /\ cOut' = cOut \o sent
        /\ cJoined' = cJoined /\ cMessageChannel' = cPdu.caps.messageChannel
        /\ cSettings' = [cSettings EXCEPT
                            !.skipJoin = @ /\ cPdu.caps.skipJoin,
                            !.multitransport = @ /\ cPdu.caps.multitransport # "none"]
    BY <1>1 DEF ClientMcsCreateResponse, ClientSuccess, ClientSend
  <2>2. cSettings' \in ClientSettings /\ (cSettings'.skipJoin => cPdu.caps.skipJoin)
    BY <2>1 DEF JoinRight, ClientSettings
  <2>3. ClientInformed'
    <3>1. /\ sState # "MCS_CREATE_REQUEST"
          /\ cPdu.caps.skipJoin => sSettings.skipJoin
          /\ cPdu.caps.messageChannel => sMessageChannel
      BY <2>1 DEF JoinRight, FromServer, ServerMcsTypes
    <3>2. UNCHANGED <<sState, sSettings, sMessageChannel, sJoined>> /\ cJoined \subseteq sJoined
      BY DEF serverVars, JoinRight, ClientInformed
    <3>3. QED
      BY <2>1, <2>2, <3>1, <3>2 DEF ClientInformed
  <2>4. Ordinary(sent)
    <3>1. OrdinaryPdu(Pdu("ErectDomain")) /\ OrdinaryPdu(Pdu("AttachUserRequest"))
      BY DEF OrdinaryPdu, Pdu
    <3>2. QED
      BY <3>1, OrdinaryShort
  <2> HIDE DEF sent
  <2>5. Listed(sent) /\ \A i \in DOMAIN sent : FromClient(sent[i], sState, sMessageChannel)
    BY <2>4 DEF Ordinary, OrdinaryPdu, FromClient
  <2>6. QED
    BY <2>1, <2>2, <2>3, <2>5, ClientKeepsPromises
<1>2. CASE ClientAttachUserConfirm /\ ~ClientReject
  <2>1. /\ cPdu.type = "AttachUserConfirm" /\ Connected(cState) /\ cPdu' = NoPdu
        /\ cJoined' = IF cSettings.skipJoin THEN Channels ELSE cJoined
        /\ JoinNextOrSendInfo(cJoined') /\ UNCHANGED <<cMessageChannel, cSettings>>
    BY <1>2 DEF ClientAttachUserConfirm, ClientSuccess, Connected
  <2>2. cSettings.skipJoin => sJoined = Channels
    BY <2>1 DEF JoinRight, FromServer, ClientInformed
  <2>3. cJoined' \subseteq sJoined
    BY <2>1, <2>2 DEF JoinRight, ClientInformed
  <2>4. QED
    BY <2>1, <2>3, JoinKeepsJoins
<1>3. CASE ClientChannelJoinConfirm /\ ~ClientReject
  <2>1. /\ cPdu.type = "ChannelJoinConfirm" /\ Connected(cState) /\ cPdu' = NoPdu
        /\ cJoined' = cJoined \cup {cPdu.channelId}
        /\ JoinNextOrSendInfo(cJoined') /\ UNCHANGED <<cMessageChannel, cSettings>>
    BY <1>3 DEF ClientChannelJoinConfirm, ClientSuccess, Connected
  <2>2. cJoined' \subseteq sJoined
    BY <2>1 DEF JoinRight, FromServer, ClientInformed
  <2>3. QED
    BY <2>1, <2>2, JoinKeepsJoins
<1>4. CASE ~ClientMcsCreateResponse /\ ~ClientAttachUserConfirm /\ ~ClientChannelJoinConfirm
  BY <1>4, ClientStepTalks, ClientTalkKeepsJoins DEF JoinRight
<1>5. QED
  BY <1>r, <1>1, <1>2, <1>3, <1>4

LEMMA LateLists ==
    /\ LateOnly(<<>>)
    /\ \A p : LatePdu(p) => LateOnly(<<p>>)
    /\ \A p, q : LatePdu(p) /\ LatePdu(q) => LateOnly(<<p, q>>)
    /\ \A s, t : LateOnly(s) /\ LateOnly(t) => LateOnly(s \o t)
<1>1. ASSUME NEW s, NEW t, LateOnly(s), LateOnly(t)
      PROVE  LateOnly(s \o t)
  BY <1>1, ConcatListed, ConcatElements DEF LateOnly
<1>2. LateOnly(<<>>) /\ \A p : LatePdu(p) => LateOnly(<<p>>)
  BY ShortLists DEF LateOnly
<1>3. \A p, q : LatePdu(p) /\ LatePdu(q) => LateOnly(<<p, q>>)
  BY ShortLists DEF LateOnly
<1>4. QED
  BY <1>1, <1>2, <1>3, Zenon

\* The application's PDUs say nothing of channels.
LEMMA ApplicationKeepsJoins ==
    ASSUME JoinRight, ServerApplication, UNCHANGED clientVars
    PROVE  JoinRight'
<1>1. /\ sState' # "MCS_CREATE_REQUEST" \/ sState' = sState
      /\ UNCHANGED <<sPdu, sJoined, sMessageChannel, sSettings>>
  BY DEF ServerApplication, ServerReactivate, ServerUpdate, ServerChannelData, ServerCloseSession,
         ServerClose
<1>2. \E pdus : LateOnly(pdus) /\ sOut' = sOut \o pdus
  <2>1. \A type \in {"DeactivateAll", "DemandActive", "FastPathUpdate", "ChannelData",
                     "ErrorInfo", "DisconnectUltimatum"} : LatePdu(Pdu(type))
    BY DEF LatePdu, Pdu, ServerMcsTypes
  <2>2. CASE ServerReactivate
    BY <2>1, <2>2, LateLists DEF ServerReactivate, ServerSend
  <2>3. CASE ServerUpdate \/ ServerChannelData
    BY <2>1, <2>3, LateLists DEF ServerUpdate, ServerChannelData, ServerSend
  <2>4. CASE ServerCloseSession
    <3>1. PICK info \in {<<>>, <<Pdu("ErrorInfo")>>} :
              sOut' = sOut \o (<<Pdu("DeactivateAll")>> \o info \o <<Pdu("DisconnectUltimatum")>>)
      BY <2>4 DEF ServerCloseSession, ServerClose, ServerSend
    <3>2. /\ LateOnly(<<Pdu("DeactivateAll")>>) /\ LateOnly(<<Pdu("DisconnectUltimatum")>>)
          /\ LateOnly(<<>>) /\ LateOnly(<<Pdu("ErrorInfo")>>)
      BY <2>1, LateLists
    <3>3. LateOnly(info)
      BY <3>2
    <3>4. LateOnly(<<Pdu("DeactivateAll")>> \o info)
      BY <3>2, <3>3, LateLists
    <3>5. LateOnly(<<Pdu("DeactivateAll")>> \o info \o <<Pdu("DisconnectUltimatum")>>)
      BY <3>2, <3>4, LateLists
    <3>6. QED
      BY <3>1, <3>5
  <2>5. QED
    BY <2>2, <2>3, <2>4 DEF ServerApplication
<1>3. PICK pdus : LateOnly(pdus) /\ sOut' = sOut \o pdus
  BY <1>2
<1>a. Listed(pdus) /\ \A i \in DOMAIN pdus : LatePdu(pdus[i])
  BY <1>3 DEF LateOnly
<1>4. \A p : LatePdu(p) => FromServer(p, sState', sSettings', sJoined', sMessageChannel')
  BY DEF LatePdu, FromServer, ServerMcsTypes
<1>5. \A i \in DOMAIN pdus :
          FromServer(pdus[i], sState', sSettings', sJoined', sMessageChannel')
  BY <1>a, <1>4
<1>6. CASE sState' # "MCS_CREATE_REQUEST"
  BY <1>1, <1>3, <1>a, <1>5, <1>6, ServerKeepsPromises DEF JoinRight, clientVars
<1>7. CASE sState' = sState
  <2>1. Listed(sOut') /\ \A i \in DOMAIN sOut' :
            FromServer(sOut'[i], sState', sSettings', sJoined', sMessageChannel')
    BY <1>1, <1>3, <1>a, <1>5, <1>7, ConcatListed, ConcatElements DEF JoinRight
  <2>2. QED
    BY <1>1, <1>7, <2>1 DEF JoinRight, ClientInformed, clientVars
<1>8. QED
  BY <1>1, <1>6, <1>7

\* The inductive invariant of channel joining: what is under way in either direction agrees
\* with what the server has announced, accepted and joined.
THEOREM JoinRightTheorem == Spec => []JoinRight
<1>1. Init => JoinRight
  BY ShortLists, NoPduSaysNothing, ClientConfigsAssumption, ServerConfigsAssumption
     DEF Init, ClientInit, ServerInit, JoinRight, ClientInformed, Connected
<1>2. JoinRight /\ [Next]_vars => JoinRight'
  <2> SUFFICES ASSUME JoinRight, [Next]_vars PROVE JoinRight'
    OBVIOUS
  <2>1. CASE ClientHandles
    BY <2>1, ClientStepKeepsJoins DEF ClientHandles
  <2>2. CASE ServerHandles
    BY <2>2, ServerStepKeepsJoins DEF ServerHandles
  <2>3. CASE DeliverToClient
    <3>1. Listed(sOut) /\ sOut # <<>> /\ sOut' = Tail(sOut) /\ cPdu' = Head(sOut)
      BY <2>3 DEF DeliverToClient, ClientReceive, JoinRight
    <3>2. /\ Listed(sOut')
          /\ FromServer(cPdu', sState, sSettings, sJoined, sMessageChannel)
          /\ \A i \in DOMAIN sOut' :
                 FromServer(sOut'[i], sState, sSettings, sJoined, sMessageChannel)
      BY <3>1, TailListed, TailElements DEF JoinRight
    <3>3. QED
      BY <2>3, <3>2 DEF DeliverToClient, ClientReceive, JoinRight, ClientInformed
  <2>4. CASE DeliverToServer
    <3>1. Listed(cOut) /\ cOut # <<>> /\ cOut' = Tail(cOut) /\ sPdu' = Head(cOut)
      BY <2>4 DEF DeliverToServer, ServerReceive, JoinRight
    <3>2. /\ Listed(cOut')
          /\ FromClient(sPdu', sState, sMessageChannel)
          /\ \A i \in DOMAIN cOut' : FromClient(cOut'[i], sState, sMessageChannel)
      BY <3>1, TailListed, TailElements DEF JoinRight
    <3>3. QED
      BY <2>4, <3>2 DEF DeliverToServer, ServerReceive, JoinRight, ClientInformed
  <2>5. CASE UserInput
    <3>1. ClientTalks
      BY <2>5, OrdinaryTypes DEF UserInput, ClientInput, ClientSend, ClientTalks
    <3>2. QED
      BY <2>5, <3>1, ClientTalkKeepsJoins DEF UserInput
  <2>6. CASE Application
    BY <2>6, ApplicationKeepsJoins DEF Application
  <2>7. CASE Reconnect
    BY <2>7, ShortLists, NoPduSaysNothing, ServerConfigsAssumption
       DEF Reconnect, ClientReset, JoinRight, ClientInformed, Connected
  <2>8. CASE UNCHANGED vars
    BY <2>8 DEF vars, clientVars, serverVars, JoinRight, ClientInformed
  <2>9. QED
    BY <2>1, <2>2, <2>3, <2>4, <2>5, <2>6, <2>7, <2>8 DEF Next, Terminated
<1>3. QED
  BY <1>1, <1>2, PTL DEF Spec

\* Whatever the two ends are configured to, a channel the client takes for joined is joined at
\* the server, and so is every channel whose confirm is under way (mcs_recv_channel_join_confirm,
\* rdp_server_accept_mcs_channel_join_request), for any number of channels.
THEOREM JoinTheorem == Spec => []JoinAgreed
<1>1. JoinRight => JoinAgreed
  BY DEF JoinRight, ClientInformed, FromServer, JoinAgreed
<1>2. QED
  BY <1>1, JoinRightTheorem, PTL

-----------------------------------------------------------------------------
(* Reactivation.  The first activation goes through phases, numbered by marks: a PDU of the      *)
(* handshake moves the direction it travels in to the next one.                                  *)

LEMMA MoveUp ==
    ASSUME NEW dir, NEW m \in {0, 1}, NEW type, NEW a \in Marks, NEW b \in Marks,
           Move(dir, m, type, a, b)
    PROVE  a <= b
BY DEF Move, Marks

LEMMA WalkNone == \A dir, m : \A a \in Marks : Walks(dir, m, a, <<>>, a)
<1> SUFFICES ASSUME NEW dir, NEW m, NEW a \in Marks
             PROVE  Walks(dir, m, a, <<>>, a)
  OBVIOUS
<1> DEFINE w == [i \in 0 .. 0 |-> a]
<1>1. Len(<<>>) = 0 /\ w \in [0 .. 0 -> Marks] /\ w[0] = a
  OBVIOUS
<1>2. \A i, j \in 0 .. 0 : w[i] <= w[j]
  BY DEF Marks
<1>3. 1 .. 0 = {}
  OBVIOUS
<1> QED
  BY <1>1, <1>2, <1>3 DEF Walks

LEMMA WalkOne ==
    ASSUME NEW dir, NEW m \in {0, 1}, NEW p, NEW a \in Marks, NEW b \in Marks,
           Move(dir, m, p.type, a, b)
    PROVE  Walks(dir, m, a, <<p>>, b)
<1> DEFINE w == [i \in 0 .. 1 |-> IF i = 0 THEN a ELSE b]
<1>1. Len(<<p>>) = 1 /\ <<p>>[1] = p
  OBVIOUS
<1>2. w \in [0 .. 1 -> Marks] /\ w[0] = a /\ w[1] = b
  OBVIOUS
<1>3. a <= b /\ a <= a /\ b <= b
  BY MoveUp DEF Marks
<1>4. \A i \in 0 .. 1 : i = 0 \/ i = 1
  OBVIOUS
<1>5. \A i, j \in 0 .. 1 : i <= j => w[i] <= w[j]
  BY <1>2, <1>3, <1>4
<1>6. \A i \in 1 .. 1 : i = 1
  OBVIOUS
<1>7. \A i \in 1 .. 1 : Move(dir, m, <<p>>[i].type, w[i - 1], w[i])
  BY <1>1, <1>2, <1>6
<1> HIDE DEF w
<1> QED
  BY <1>1, <1>2, <1>5, <1>7 DEF Walks

LEMMA WalkUp ==
    ASSUME NEW dir, NEW m, NEW s, Listed(s), NEW a, NEW b, Walks(dir, m, a, s, b)
    PROVE  a \in Marks /\ b \in Marks /\ a <= b
<1>1. Len(s) \in Nat
  BY DEF Listed
<1>2. PICK w \in [0 .. Len(s) -> Marks] :
        /\ w[0] = a /\ w[Len(s)] = b
        /\ \A i, j \in 0 .. Len(s) : i <= j => w[i] <= w[j]
  BY DEF Walks
<1>3. 0 \in 0 .. Len(s) /\ Len(s) \in 0 .. Len(s) /\ 0 <= Len(s)
  BY <1>1
<1> QED
  BY <1>2, <1>3

LEMMA WalkFree ==
    ASSUME NEW dir, NEW m, NEW s, Listed(s)
    PROVE  Walks(dir, m, 7, s, 7)
<1> DEFINE w == [i \in 0 .. Len(s) |-> 7]
<1>1. Len(s) \in Nat /\ 7 \in Marks /\ 7 <= 7
  BY DEF Listed, Marks
<1>2. w \in [0 .. Len(s) -> Marks] /\ \A i \in 0 .. Len(s) : w[i] = 7
  BY <1>1
<1>3. 0 \in 0 .. Len(s) /\ Len(s) \in 0 .. Len(s)
      /\ \A i \in 1 .. Len(s) : i \in 0 .. Len(s) /\ i - 1 \in 0 .. Len(s)
  BY <1>1
<1>4. \A i \in 1 .. Len(s) : Move(dir, m, s[i].type, 7, 7)
  BY DEF Move
<1> HIDE DEF w
<1> QED
  BY <1>1, <1>2, <1>3, <1>4 DEF Walks

\* As long as nothing has happened, it does not matter whether multitransport will be requested.
LEMMA WalkStill ==
    ASSUME NEW dir, NEW s, Listed(s), Walks(dir, 0, 0, s, 0)
    PROVE  Walks(dir, 1, 0, s, 0)
<1>1. Len(s) \in Nat
  BY DEF Listed
<1>2. PICK w \in [0 .. Len(s) -> Marks] :
        /\ w[0] = 0 /\ w[Len(s)] = 0
        /\ \A i \in 1 .. Len(s) : Move(dir, 0, s[i].type, w[i - 1], w[i])
        /\ \A i, j \in 0 .. Len(s) : i <= j => w[i] <= w[j]
  BY DEF Walks
<1>3. \A i \in 0 .. Len(s) : w[i] = 0
  <2> SUFFICES ASSUME NEW i \in 0 .. Len(s)
               PROVE  w[i] = 0
    OBVIOUS
  <2>1. w[i] <= w[Len(s)] /\ w[i] \in Marks
    BY <1>1, <1>2
  <2> QED
    BY <1>2, <2>1 DEF Marks
<1>4. \A i \in 1 .. Len(s) : w[i - 1] = 0 /\ w[i] = 0
  BY <1>1, <1>3
<1>5. \A type : Move(dir, 0, type, 0, 0) => Move(dir, 1, type, 0, 0)
  BY DEF Move
<1>6. \A i \in 1 .. Len(s) : Move(dir, 1, s[i].type, w[i - 1], w[i])
  BY <1>2, <1>4, <1>5
<1> QED
  BY <1>2, <1>6 DEF Walks

LEMMA WalkHead ==
    ASSUME NEW dir, NEW m, NEW s, Listed(s), s # <<>>, NEW a, NEW b, Walks(dir, m, a, s, b)
    PROVE  \E c \in Marks : Move(dir, m, Head(s).type, a, c) /\ Walks(dir, m, c, Tail(s), b)
<1> DEFINE n == Len(s)
           t == Tail(s)
<1>1. /\ n \in Nat /\ n > 0 /\ Len(t) = n - 1 /\ Head(s) = s[1]
      /\ \A i \in 1 .. n - 1 : t[i] = s[i + 1]
  BY TailListed
<1>2. PICK w \in [0 .. n -> Marks] :
        /\ w[0] = a /\ w[n] = b
        /\ \A i \in 1 .. n : Move(dir, m, s[i].type, w[i - 1], w[i])
        /\ \A i, j \in 0 .. n : i <= j => w[i] <= w[j]
  BY DEF Walks
<1> DEFINE v == [i \in 0 .. n - 1 |-> w[i + 1]]
<1> HIDE DEF n, t
<1>3. v \in [0 .. n - 1 -> Marks] /\ v[0] = w[1] /\ v[n - 1] = b
  BY <1>1, <1>2
<1>4. \A i, j \in 0 .. n - 1 : i <= j => v[i] <= v[j]
  BY <1>1, <1>2
<1>5. \A i \in 1 .. n - 1 : Move(dir, m, t[i].type, v[i - 1], v[i])
  <2> SUFFICES ASSUME NEW i \in 1 .. n - 1
               PROVE  Move(dir, m, t[i].type, v[i - 1], v[i])
    OBVIOUS
  <2>1. i + 1 \in 1 .. n /\ (i + 1) - 1 = i /\ v[i - 1] = w[i] /\ v[i] = w[i + 1] /\ t[i] = s[i + 1]
    BY <1>1
  <2>2. Move(dir, m, s[i + 1].type, w[(i + 1) - 1], w[i + 1])
    BY <1>2, <2>1
  <2> QED
    BY <2>1, <2>2
<1> HIDE DEF v
<1>6. Walks(dir, m, w[1], t, b)
  BY <1>1, <1>3, <1>4, <1>5 DEF Walks
<1>7. 1 \in 1 .. n /\ 1 - 1 = 0 /\ w[1] \in Marks
  BY <1>1, <1>2
<1>8. Move(dir, m, s[1].type, w[0], w[1])
  BY <1>2, <1>7
<1> QED
  BY <1>1, <1>2, <1>6, <1>7, <1>8 DEF t

LEMMA WalkConcat ==
    ASSUME NEW dir, NEW m, NEW s, NEW t, Listed(s), Listed(t), NEW a, NEW b, NEW c,
           Walks(dir, m, a, s, b), Walks(dir, m, b, t, c)
    PROVE  Walks(dir, m, a, s \o t, c)
<1> DEFINE n == Len(s)
           k == Len(t)
           r == s \o t
<1>1. /\ n \in Nat /\ k \in Nat /\ Len(r) = n + k
      /\ \A i \in 1 .. n : r[i] = s[i]
      /\ \A i \in n + 1 .. n + k : r[i] = t[i - n]
  BY ConcatListed
<1>2. PICK u \in [0 .. n -> Marks] :
        /\ u[0] = a /\ u[n] = b
        /\ \A i \in 1 .. n : Move(dir, m, s[i].type, u[i - 1], u[i])
        /\ \A i, j \in 0 .. n : i <= j => u[i] <= u[j]
  BY DEF Walks
<1>3. PICK v \in [0 .. k -> Marks] :
        /\ v[0] = b /\ v[k] = c
        /\ \A i \in 1 .. k : Move(dir, m, t[i].type, v[i - 1], v[i])
        /\ \A i, j \in 0 .. k : i <= j => v[i] <= v[j]
  BY DEF Walks
<1> DEFINE w == [i \in 0 .. n + k |-> IF i <= n THEN u[i] ELSE v[i - n]]
<1> HIDE DEF n, k, r
<1>4. \A i \in 0 .. n : i \in 0 .. n + k /\ w[i] = u[i]
  BY <1>1
<1>5. \A i \in n .. n + k : i \in 0 .. n + k /\ i - n \in 0 .. k /\ w[i] = v[i - n]
  <2> SUFFICES ASSUME NEW i \in n .. n + k
               PROVE  i \in 0 .. n + k /\ i - n \in 0 .. k /\ w[i] = v[i - n]
    OBVIOUS
  <2>1. i \in 0 .. n + k /\ i - n \in 0 .. k
    BY <1>1
  <2>2. CASE i = n
    BY <1>1, <1>2, <1>3, <2>1, <2>2
  <2>3. CASE i # n
    BY <1>1, <2>1, <2>3
  <2> QED
    BY <2>1, <2>2, <2>3
<1>6. w \in [0 .. n + k -> Marks]
  <2> SUFFICES ASSUME NEW i \in 0 .. n + k
               PROVE  (IF i <= n THEN u[i] ELSE v[i - n]) \in Marks
    OBVIOUS
  <2> QED
    BY <1>1, <1>2, <1>3
<1> HIDE DEF w
<1>7. w[0] = a /\ w[n + k] = c
  BY <1>1, <1>2, <1>3, <1>4, <1>5
<1>8. \A i \in 1 .. n + k : Move(dir, m, r[i].type, w[i - 1], w[i])
  <2> SUFFICES ASSUME NEW i \in 1 .. n + k
               PROVE  Move(dir, m, r[i].type, w[i - 1], w[i])
    OBVIOUS
  <2>1. CASE i <= n
    <3>1. i \in 1 .. n /\ i \in 0 .. n /\ i - 1 \in 0 .. n
      BY <1>1, <2>1
    <3> QED
      BY <1>1, <1>2, <1>4, <3>1
  <2>2. CASE i > n
    <3>1. /\ i \in n + 1 .. n + k /\ i \in n .. n + k /\ i - 1 \in n .. n + k
          /\ i - n \in 1 .. k /\ (i - 1) - n = (i - n) - 1
      BY <1>1, <2>2
    <3>2. Move(dir, m, t[i - n].type, v[(i - n) - 1], v[i - n])
      BY <1>3, <3>1
    <3>3. r[i] = t[i - n] /\ w[i - 1] = v[(i - n) - 1] /\ w[i] = v[i - n]
      BY <1>1, <1>5, <3>1
    <3> QED
      BY <3>2, <3>3
  <2> QED
    BY <1>1, <2>1, <2>2
<1>9. \A i, j \in 0 .. n + k : i <= j => w[i] <= w[j]
  <2> SUFFICES ASSUME NEW i \in 0 .. n + k, NEW j \in 0 .. n + k, i <= j
               PROVE  w[i] <= w[j]
    OBVIOUS
  <2>1. CASE j <= n
    <3>1. i \in 0 .. n /\ j \in 0 .. n
      BY <1>1, <2>1
    <3> QED
      BY <1>2, <1>4, <3>1
  <2>2. CASE i >= n
    <3>1. i \in n .. n + k /\ j \in n .. n + k /\ i - n <= j - n
      BY <1>1, <2>2
    <3> QED
      BY <1>3, <1>5, <3>1
  <2>3. CASE i < n /\ j > n
    <3>1. /\ i \in 0 .. n /\ n \in 0 .. n /\ i <= n /\ j \in n .. n + k
          /\ 0 \in 0 .. k /\ j - n \in 0 .. k /\ 0 <= j - n
      BY <1>1, <2>3
    <3>2. w[i] = u[i] /\ u[i] <= b
      BY <1>2, <1>4, <3>1
    <3>3. w[j] = v[j - n] /\ b <= v[j - n]
      BY <1>3, <1>5, <3>1
    <3>4. u[i] \in Marks /\ u[n] \in Marks /\ v[j - n] \in Marks
      BY <3>1
    <3>5. u[i] \in Nat /\ b \in Nat /\ v[j - n] \in Nat
      BY <1>2, <3>4 DEF Marks
    <3> QED
      BY <3>2, <3>3, <3>5
  <2> QED
    BY <1>1, <2>1, <2>2, <2>3
<1> QED
  BY <1>1, <1>6, <1>7, <1>8, <1>9 DEF Walks, r

LEMMA WalkStays ==
    ASSUME NEW dir, NEW m, NEW s, Listed(s), NEW a \in Marks,
           \A i \in DOMAIN s : Move(dir, m, s[i].type, a, a)
    PROVE  Walks(dir, m, a, s, a)
<1> DEFINE w == [i \in 0 .. Len(s) |-> a]
<1>1. Len(s) \in Nat /\ DOMAIN s = 1 .. Len(s) /\ a <= a
  BY DEF Listed, Marks
<1>2. w \in [0 .. Len(s) -> Marks] /\ \A i \in 0 .. Len(s) : w[i] = a
  OBVIOUS
<1>3. 0 \in 0 .. Len(s) /\ Len(s) \in 0 .. Len(s)
      /\ \A i \in 1 .. Len(s) : i \in 0 .. Len(s) /\ i - 1 \in 0 .. Len(s)
  BY <1>1
<1> HIDE DEF w
<1> QED
  BY <1>1, <1>2, <1>3 DEF Walks

LEMMA QuietShort ==
    /\ Quiet(<<>>)
    /\ \A p : p.type \notin PhaseTypes => Quiet(<<p>>)
    /\ \A p, q : p.type \notin PhaseTypes /\ q.type \notin PhaseTypes => Quiet(<<p, q>>)
BY ShortLists DEF Quiet

LEMMA QuietConcat ==
    ASSUME NEW s, NEW t, Quiet(s), Quiet(t)
    PROVE  Quiet(s \o t)
BY ConcatListed, ConcatElements DEF Quiet

LEMMA QuietTypes ==
    /\ \A type : type \notin PhaseTypes => Quiet(<<Pdu(type)>>)
    /\ \A type1, type2 : type1 \notin PhaseTypes /\ type2 \notin PhaseTypes
                             => Quiet(<<Pdu(type1), Pdu(type2)>>)
<1>1. \A type : Pdu(type).type = type
  BY DEF Pdu
<1> QED
  BY <1>1, QuietShort

LEMMA LeadsSame == \A dir, m, out, a : Leads(dir, m, out, a, out, a)
BY DEF Leads

LEMMA LeadsOn ==
    ASSUME NEW dir, NEW m, NEW out, Listed(out), NEW pdus, Listed(pdus), NEW a, NEW b,
           Walks(dir, m, a, pdus, b)
    PROVE  Leads(dir, m, out, a, out \o pdus, b)
BY WalkConcat DEF Leads

LEMMA LeadsQuietly ==
    ASSUME NEW dir, NEW m, NEW out, Listed(out), NEW pdus, Quiet(pdus), NEW a \in Marks
    PROVE  Leads(dir, m, out, a, out \o pdus, a)
<1>1. Listed(pdus) /\ \A i \in DOMAIN pdus : Move(dir, m, pdus[i].type, a, a)
  BY DEF Quiet, Move
<1>2. Walks(dir, m, a, pdus, a)
  BY <1>1, WalkStays
<1> QED
  BY <1>1, <1>2, LeadsOn

LEMMA LeadsOne ==
    ASSUME NEW dir, NEW m \in {0, 1}, NEW out, Listed(out), NEW type, NEW a \in Marks, NEW b \in Marks,
           Move(dir, m, type, a, b)
    PROVE  Leads(dir, m, out, a, out \o <<Pdu(type)>>, b)
<1> DEFINE p == Pdu(type)
<1>1. p.type = type
  BY DEF Pdu
<1> HIDE DEF p
<1>2. Walks(dir, m, a, <<p>>, b) /\ Listed(<<p>>)
  BY <1>1, WalkOne, ShortLists
<1> QED
  BY <1>2, LeadsOn DEF p

-----------------------------------------------------------------------------
LEMMA StillMove == \A dir, m, a : Move(dir, m, NoPdu.type, a, a)
BY DEF Move, NoPdu, Pdu, PhaseTypes

LEMMA ClientStopped ==
    ASSUME NEW m, NEW ca, NEW cc \in Marks, ClientReject
    PROVE  ClientAfter(m, ca, cc)
<1>1. Leads("toServer", m, cOut, cc, cOut', cc) /\ cRun' \notin Working
  BY LeadsSame DEF ClientReject, ClientFail, Working
<1> QED
  BY <1>1 DEF ClientAfter

\* A PDU outside of the handshake is read, and answered with others of that kind.
LEMMA ClientQuiet ==
    ASSUME NEW m \in {0, 1}, NEW cs \in Marks, NEW ca \in Marks, NEW cc \in Marks,
           Listed(cOut), Move("toClient", m, cPdu.type, cs, ca), cPdu.type \notin PhaseTypes,
           \E pdus : Quiet(pdus) /\ cOut' = cOut \o pdus,
           cRun' \in Working => ClientMarks(m, cState', cs, cc) /\ cPdu' = NoPdu
    PROVE  ClientAfter(m, ca, cc)
<1>1. Leads("toServer", m, cOut, cc, cOut', cc)
  BY LeadsQuietly
<1>2. ca = cs
  BY DEF Move, PhaseTypes
<1> QED
  BY <1>1, <1>2, StillMove DEF ClientAfter

LEMMA NothingSent == ASSUME NEW out, Listed(out) PROVE out = out \o <<>>
BY ConcatListed, ShortLists

LEMMA ClientConnects ==
    ASSUME NEW m \in {0, 1}, NEW cs \in Marks, NEW ca \in Marks, NEW cc \in Marks,
           FirstClient(m, cs, cc, ca), ClientBegin \/ ClientMcsCreateRequest
    PROVE  ClientAfter(m, ca, cc)
<1>1. cPdu.type \notin PhaseTypes
  BY DEF FirstClient, ClientFlagsRight, ClientBegin, ClientMcsCreateRequest, ClientIn, NoPdu, Pdu,
         PhaseTypes
<1>2. ClientMarks(m, cState', cs, cc) /\ cPdu' = NoPdu
  BY DEF FirstClient, ClientMarks, ClientBegin, ClientMcsCreateRequest, ClientIn, LicensingOrEarlier,
         McsStates, ClientSuccess, ClientContinue
<1>3. \E pdus : Quiet(pdus) /\ cOut' = cOut \o pdus
  <2>1. CASE ClientBegin
    BY <2>1, NothingSent, QuietShort DEF ClientBegin, FirstClient
  <2>2. CASE ClientMcsCreateRequest
    <3>1. ConnectInitial.type \notin PhaseTypes
      BY DEF ConnectInitial, PhaseTypes
    <3> QED
      BY <2>2, <3>1, QuietShort DEF ClientMcsCreateRequest, ClientSend
  <2> QED
    BY <2>1, <2>2
<1> QED
  BY <1>1, <1>2, <1>3, ClientQuiet DEF FirstClient

LEMMA ClientJoins ==
    ASSUME NEW m \in {0, 1}, NEW cs \in Marks, NEW ca \in Marks, NEW cc \in Marks,
           FirstClient(m, cs, cc, ca),
           ClientMcsCreateResponse \/ ClientAttachUserConfirm \/ ClientChannelJoinConfirm
    PROVE  ClientAfter(m, ca, cc)
<1>1. CASE ClientReject
  BY <1>1, ClientStopped
<1>2. CASE ~ClientReject
  <2>1. cPdu.type \notin PhaseTypes /\ cPdu' = NoPdu
    BY <1>2 DEF ClientMcsCreateResponse, ClientAttachUserConfirm, ClientChannelJoinConfirm,
                PhaseTypes, ClientSuccess
  <2>2. ClientMarks(m, cState', cs, cc)
    BY <1>2 DEF FirstClient, ClientMarks, ClientMcsCreateResponse, ClientAttachUserConfirm,
                ClientChannelJoinConfirm, JoinNextOrSendInfo, ClientIn, LicensingOrEarlier, McsStates
  <2>3. \E pdus : Quiet(pdus) /\ cOut' = cOut \o pdus
    <3>1. CASE ClientMcsCreateResponse
      <4>1. Quiet(<<Pdu("ErectDomain"), Pdu("AttachUserRequest")>>)
        BY QuietTypes DEF PhaseTypes
      <4> QED
        BY <1>2, <3>1, <4>1 DEF ClientMcsCreateResponse, ClientSend
    <3>2. CASE ClientAttachUserConfirm \/ ClientChannelJoinConfirm
      <4>1. \A c : Quiet(<<JoinRequest(c)>>)
        <5>1. \A c : JoinRequest(c).type \notin PhaseTypes
          BY DEF JoinRequest, PhaseTypes
        <5> QED
          BY <5>1, QuietShort
      <4>2. Quiet(ClientInfoPdus)
        <5> DEFINE first == IF cSettings.rdpSecurity THEN <<Pdu("SecurityExchange")>> ELSE <<>>
                   info == <<Pdu("ClientInfo")>>
        <5>1. Quiet(<<Pdu("SecurityExchange")>>) /\ Quiet(<<>>) /\ Quiet(info)
          BY QuietTypes, QuietShort DEF PhaseTypes
        <5>2. ClientInfoPdus = first \o info /\ Quiet(first)
          BY <5>1 DEF ClientInfoPdus
        <5> HIDE DEF first, info
        <5> QED
          BY <5>1, <5>2, QuietConcat
      <4>3. \E joined : JoinNextOrSendInfo(joined)
        BY <1>2, <3>2 DEF ClientAttachUserConfirm, ClientChannelJoinConfirm
      <4> QED
        BY <4>1, <4>2, <4>3 DEF JoinNextOrSendInfo, ClientSend
    <3> QED
      BY <3>1, <3>2
  <2> QED
    BY <2>1, <2>2, <2>3, ClientQuiet DEF FirstClient
<1> QED
  BY <1>1, <1>2

\* The answer to a multitransport request takes both directions one mark further; other PDUs
\* are answered outside of the handshake.
LEMMA ReplyLeads ==
    ASSUME NEW m \in {0, 1}, NEW out, Listed(out), NEW p, NEW cs \in Marks, NEW ca \in Marks,
           NEW cc \in Marks, Move("toClient", m, p.type, cs, ca)
    PROVE  /\ p.type # "MultitransportRequest" =>
                 Leads("toServer", m, out, cc, out \o MessageReply(p), cc)
           /\ p.type = "MultitransportRequest" /\ cs # 7 /\ cc = cs =>
                  cs = 0 /\ ca = 1 /\ Leads("toServer", m, out, cc, out \o MessageReply(p), 1)
<1>1. ASSUME p.type # "MultitransportRequest"
      PROVE  Leads("toServer", m, out, cc, out \o MessageReply(p), cc)
  <2>1. \A q : Quiet(LicenseReply(q))
    BY QuietTypes, QuietShort DEF LicenseReply, PhaseTypes
  <2>2. Quiet(MessageReply(p))
    BY <1>1, <2>1, QuietTypes, QuietShort DEF MessageReply, PhaseTypes
  <2> QED
    BY <2>2, LeadsQuietly
<1>2. ASSUME p.type = "MultitransportRequest", cs # 7, cc = cs
      PROVE  cs = 0 /\ ca = 1 /\ Leads("toServer", m, out, cc, out \o MessageReply(p), 1)
  <2>1. m = 1 /\ cs = 0 /\ ca = 1
    BY <1>2 DEF Move, PhaseTypes
  <2>2. MessageReply(p) = <<Pdu("MultitransportResponse")>>
    BY <1>2 DEF MessageReply
  <2>3. Move("toServer", m, "MultitransportResponse", cc, 1) /\ 1 \in Marks
    BY <1>2, <2>1 DEF Move, Marks
  <2> QED
    BY <2>1, <2>2, <2>3, LeadsOne
<1> QED
  BY <1>1, <1>2

LEMMA ClientMeasures ==
    ASSUME NEW m \in {0, 1}, NEW cs \in Marks, NEW ca \in Marks, NEW cc \in Marks,
           FirstClient(m, cs, cc, ca),
           \/ ClientAutoDetect("CONNECT_TIME_AUTO_DETECT_REQUEST", "LICENSING")
           \/ ClientAutoDetect("MULTITRANSPORT_BOOTSTRAPPING_REQUEST",
                               "CAPABILITIES_EXCHANGE_DEMAND_ACTIVE")
    PROVE  ClientAfter(m, ca, cc)
<1>1. cs \in {0, 1} /\ cc = cs /\ 1 \in Marks
  BY DEF FirstClient, ClientMarks, ClientAutoDetect, ClientIn, LicensingOrEarlier, McsStates, Marks
<1>2. \A a \in {0, 1} : ClientMarks(m, cState', a, a)
  BY DEF ClientAutoDetect, ClientIn, ClientMarks, LicensingOrEarlier, McsStates
<1>3. CASE cState' # cState
  <2>1. cOut' = cOut /\ cPdu' = cPdu
    BY <1>3 DEF ClientAutoDetect, ClientTryAgain
  <2>2. Leads("toServer", m, cOut, cc, cOut', cc) /\ ClientMarks(m, cState', cs, cc)
    BY <1>1, <1>2, <2>1, LeadsSame
  <2> QED
    BY <2>1, <2>2 DEF ClientAfter, FirstClient
<1>4. CASE cState' = cState
  <2>1. OnMessageChannel(cPdu) /\ cOut' = cOut \o MessageReply(cPdu) /\ cPdu' = NoPdu
    BY <1>4 DEF ClientAutoDetect, ClientIn, ClientSend, ClientSuccess
  <2>2. CASE cPdu.type = "MultitransportRequest"
    <3>1. ca = 1 /\ Leads("toServer", m, cOut, cc, cOut', 1)
      BY <1>1, <2>1, <2>2, ReplyLeads DEF FirstClient
    <3>2. ClientMarks(m, cState', 1, 1) /\ Move("toClient", m, cPdu'.type, 1, ca)
      BY <1>2, <2>1, <3>1, StillMove
    <3> QED
      BY <1>1, <3>1, <3>2 DEF ClientAfter
  <2>3. CASE cPdu.type # "MultitransportRequest"
    <3>1. Leads("toServer", m, cOut, cc, cOut', cc)
      BY <2>1, <2>3, ReplyLeads DEF FirstClient
    <3>2. cPdu.type \notin PhaseTypes
      BY <2>1, <2>3 DEF OnMessageChannel, ServerMessageTypes, PhaseTypes
    <3>3. ca = cs
      BY <3>2 DEF FirstClient, Move, PhaseTypes
    <3>4. ClientMarks(m, cState', cs, cc) /\ Move("toClient", m, cPdu'.type, cs, ca)
      BY <1>1, <1>2, <2>1, <3>3, StillMove
    <3> QED
      BY <3>1, <3>4 DEF ClientAfter
  <2> QED
    BY <2>2, <2>3
<1> QED
  BY <1>3, <1>4

LEMMA ClientLicenses ==
    ASSUME NEW m \in {0, 1}, NEW cs \in Marks, NEW ca \in Marks, NEW cc \in Marks,
           FirstClient(m, cs, cc, ca), ClientLicensing
    PROVE  ClientAfter(m, ca, cc)
<1>1. cs \in {0, 1} /\ cc = cs /\ 1 \in Marks
  BY DEF FirstClient, ClientMarks, ClientLicensing, ClientIn, LicensingOrEarlier, McsStates, Marks
<1>2. \A a \in {0, 1} : ClientMarks(m, cState', a, a)
  BY DEF ClientLicensing, ClientIn, ClientMarks, LicensedState, LicensingOrEarlier, McsStates
<1>3. CASE OnMessageChannel(cPdu) /\ ~MessageFails(cPdu)
  <2>1. cOut' = cOut \o MessageReply(cPdu) /\ cPdu' = NoPdu
    BY <1>3 DEF ClientLicensing, ClientSend, ClientSuccess
  <2>2. CASE cPdu.type = "MultitransportRequest"
    <3>1. ca = 1 /\ Leads("toServer", m, cOut, cc, cOut', 1)
      BY <1>1, <2>1, <2>2, ReplyLeads DEF FirstClient
    <3>2. ClientMarks(m, cState', 1, 1) /\ Move("toClient", m, cPdu'.type, 1, ca)
      BY <1>2, <2>1, <3>1, StillMove
    <3> QED
      BY <1>1, <3>1, <3>2 DEF ClientAfter
  <2>3. CASE cPdu.type # "MultitransportRequest"
    <3>1. Leads("toServer", m, cOut, cc, cOut', cc)
      BY <2>1, <2>3, ReplyLeads DEF FirstClient
    <3>2. cPdu.type \notin PhaseTypes
      BY <1>3, <2>3 DEF OnMessageChannel, ServerMessageTypes, PhaseTypes
    <3>3. ca = cs
      BY <3>2 DEF FirstClient, Move, PhaseTypes
    <3>4. ClientMarks(m, cState', cs, cc) /\ Move("toClient", m, cPdu'.type, cs, ca)
      BY <1>1, <1>2, <2>1, <3>3, StillMove
    <3> QED
      BY <3>1, <3>4 DEF ClientAfter
  <2> QED
    BY <2>2, <2>3
<1>4. CASE ~(OnMessageChannel(cPdu) /\ ~MessageFails(cPdu)) /\ LicenseFails(cPdu)
  <2>1. Leads("toServer", m, cOut, cc, cOut', cc) /\ cRun' \notin Working
    BY <1>4, LeadsSame DEF ClientLicensing, ClientFail, Working
  <2> QED
    BY <2>1 DEF ClientAfter
<1>5. CASE ~(OnMessageChannel(cPdu) /\ ~MessageFails(cPdu)) /\ ~LicenseFails(cPdu)
  <2>1. cPdu.type \notin PhaseTypes
    BY <1>5 DEF LicenseFails, PhaseTypes
  <2>2. cOut' = cOut \o LicenseReply(cPdu) /\ cPdu' = NoPdu
    BY <1>5 DEF ClientLicensing, ClientSend, ClientSuccess, ClientFail
  <2>3. Quiet(LicenseReply(cPdu))
    <3>1. /\ Quiet(<<Pdu("LicenseInfo")>>) /\ Quiet(<<Pdu("NewLicenseRequest")>>)
          /\ Quiet(<<Pdu("PlatformChallengeResponse")>>) /\ Quiet(<<>>)
      BY QuietTypes, QuietShort DEF PhaseTypes
    <3> QED
      BY <3>1 DEF LicenseReply
  <2> QED
    BY <1>1, <1>2, <2>1, <2>2, <2>3, ClientQuiet DEF FirstClient
<1> QED
  BY <1>3, <1>4, <1>5

\* rdp_recv_pdu on a PDU that is read in this step.
LEMMA ClientReads ==
    ASSUME NEW m \in {0, 1}, NEW cs \in Marks, NEW ca \in Marks, NEW cc \in Marks,
           Listed(cOut), Move("toClient", m, cPdu.type, cs, ca), NEW state, RecvPdu(cPdu, state, TRUE),
           cPdu.type # "MultitransportRequest",
           cRun' \in Working /\ "DEACTIVATE_REACTIVATE" \notin cFinalize' =>
               ClientMarks(m, state, ca, cc) /\ cPdu' = NoPdu
    PROVE  ClientAfter(m, ca, cc)
<1>1. cState' = state /\ cOut' = cOut \o MessageReply(cPdu)
  BY DEF RecvPdu, ClientSend
<1>2. Leads("toServer", m, cOut, cc, cOut', cc)
  BY <1>1, ReplyLeads
<1> QED
  BY <1>1, <1>2, StillMove DEF ClientAfter

LEMMA ReturnsRead == \A p : RecvReturns(p) => cPdu' = NoPdu
BY DEF RecvReturns, ClientQuit, ClientSuccess

LEMMA ClientDemands ==
    ASSUME NEW m \in {0, 1}, NEW cs \in Marks, NEW ca \in Marks, NEW cc \in Marks,
           FirstClient(m, cs, cc, ca), ClientDemandActive
    PROVE  ClientAfter(m, ca, cc)
<1>1. cs \in {0, 1} /\ cc = cs /\ 1 \in Marks
  BY DEF FirstClient, ClientMarks, ClientDemandActive, ClientIn, LicensingOrEarlier, McsStates, Marks
<1>2. CASE ClientReject
  BY <1>2, ClientStopped
<1>3. CASE cPdu.type = "DemandActive"
  <2>1. RecvPdu(cPdu, "CAPABILITIES_EXCHANGE_CONFIRM_ACTIVE", TRUE) /\ cPdu' = NoPdu
    BY <1>3 DEF ClientDemandActive, RecvPdu, ClientContinue
  <2>2. ca = 2 /\ cs = m
    BY <1>1, <1>3 DEF FirstClient, Move, PhaseTypes
  <2>3. ClientMarks(m, "CAPABILITIES_EXCHANGE_CONFIRM_ACTIVE", ca, cc)
    BY <1>1, <2>2 DEF ClientMarks
  <2> QED
    BY <1>3, <2>1, <2>3, ClientReads DEF FirstClient
<1>4. CASE ~ClientReject /\ cPdu.type # "DemandActive"
  <2>1. /\ RecvPdu(cPdu, cState, TRUE) /\ cPdu' = NoPdu
        /\ cPdu.type \in ServerDataTypes \cup ServerMessageTypes
                            \cup {"ServerRedirection", "DisconnectUltimatum"}
    BY <1>4, ReturnsRead DEF ClientDemandActive, RecvPdu
  <2>2. \A a \in {0, 1} : ClientMarks(m, cState, a, a)
    BY DEF ClientDemandActive, ClientIn, ClientMarks
  <2>3. CASE cPdu.type = "MultitransportRequest"
    <3>1. cState' = cState /\ cOut' = cOut \o MessageReply(cPdu)
      BY <2>1 DEF RecvPdu, ClientSend
    <3>2. ca = 1 /\ Leads("toServer", m, cOut, cc, cOut', 1)
      BY <1>1, <2>3, <3>1, ReplyLeads DEF FirstClient
    <3>3. ClientMarks(m, cState', 1, 1) /\ Move("toClient", m, cPdu'.type, 1, ca)
      BY <2>1, <2>2, <3>1, <3>2, StillMove
    <3> QED
      BY <1>1, <3>2, <3>3 DEF ClientAfter
  <2>4. CASE cPdu.type # "MultitransportRequest"
    <3>1. ca = cs
      BY <1>1, <2>1, <2>4 DEF FirstClient, Move, PhaseTypes, ServerDataTypes, ServerMessageTypes
    <3> QED
      BY <1>1, <2>1, <2>2, <2>4, <3>1, ClientReads DEF FirstClient
  <2> QED
    BY <2>3, <2>4
<1> QED
  BY <1>2, <1>3, <1>4

\* One PDU of the handshake is sent and the stream is left alone, or it is empty.
LEMMA ClientSends ==
    ASSUME NEW m \in {0, 1}, NEW cs \in Marks, NEW ca \in Marks, NEW cc \in Marks, NEW p,
           Listed(cOut), cOut' = cOut \o <<p>>, NEW cc2 \in Marks, Move("toServer", m, p.type, cc, cc2),
           Move("toClient", m, cPdu'.type, cs, ca), ClientMarks(m, cState', cs, cc2)
    PROVE  ClientAfter(m, ca, cc)
<1>1. Walks("toServer", m, cc, <<p>>, cc2) /\ Listed(<<p>>)
  BY WalkOne, ShortLists
<1>2. Leads("toServer", m, cOut, cc, cOut', cc2)
  BY <1>1, LeadsOn
<1> QED
  BY <1>2 DEF ClientAfter

LEMMA ClientConfirms ==
    ASSUME NEW m \in {0, 1}, NEW cs \in Marks, NEW ca \in Marks, NEW cc \in Marks,
           FirstClient(m, cs, cc, ca), ClientConfirmActive
    PROVE  ClientAfter(m, ca, cc)
<1>1. cs = 2 /\ cc = m /\ 2 \in Marks
  BY DEF FirstClient, ClientMarks, ClientConfirmActive, ClientIn, LicensingOrEarlier, McsStates, Marks
<1> DEFINE p == [type |-> "ConfirmActive", persist |-> cSettings.persist]
<1>2. cOut' = cOut \o <<p>> /\ p.type = "ConfirmActive"
  BY DEF ClientConfirmActive, ClientSend
<1> HIDE DEF p
<1>3. ClientMarks(m, cState', 2, 2)
  BY DEF ClientConfirmActive, ClientMarks
<1>4. cPdu' = NoPdu /\ cPdu = NoPdu
  BY DEF FirstClient, ClientFlagsRight, ClientConfirmActive, ClientIn, ClientSuccess, ClientContinue
<1>5. Move("toServer", m, p.type, cc, 2) /\ Move("toClient", m, cPdu'.type, cs, ca)
  BY <1>1, <1>2, <1>4 DEF Move, FirstClient
<1> QED
  BY <1>1, <1>2, <1>3, <1>5, ClientSends DEF FirstClient

LEMMA ClientFinalizes ==
    ASSUME NEW m \in {0, 1}, NEW cs \in Marks, NEW ca \in Marks, NEW cc \in Marks,
           FirstClient(m, cs, cc, ca),
           SendSynchronize \/ SendCooperate \/ SendRequestControl \/ SendPersistentKeyList
    PROVE  ClientAfter(m, ca, cc)
<1>0. 3 \in Marks /\ 4 \in Marks /\ 5 \in Marks
  BY DEF Marks
<1>a. \A type : Pdu(type).type = type
  BY DEF Pdu
<1>1. CASE SendSynchronize
  <2>1. cs = 2 /\ cc = 2
    BY <1>1 DEF FirstClient, ClientMarks, SendSynchronize, SendFinalizePdu, ClientIn,
                LicensingOrEarlier, McsStates
  <2>2. /\ cOut' = cOut \o <<Pdu("Synchronize")>> /\ cPdu' = cPdu
        /\ ClientMarks(m, cState', 2, 3)
    BY <1>1 DEF SendSynchronize, SendFinalizePdu, ClientSend, ClientMarks
  <2>3. Move("toServer", m, Pdu("Synchronize").type, cc, 3)
    BY <1>a, <2>1 DEF Move
  <2> QED
    BY <1>0, <2>1, <2>2, <2>3, ClientSends DEF FirstClient
<1>2. CASE SendCooperate
  <2>1. cs = 2 /\ cc = 3
    BY <1>2 DEF FirstClient, ClientMarks, SendCooperate, SendFinalizePdu, ClientIn,
                LicensingOrEarlier, McsStates
  <2>2. /\ cOut' = cOut \o <<Pdu("ControlCooperate")>> /\ cPdu' = cPdu
        /\ ClientMarks(m, cState', 2, 4)
    BY <1>2 DEF SendCooperate, SendFinalizePdu, ClientSend, ClientMarks
  <2>3. Move("toServer", m, Pdu("ControlCooperate").type, cc, 4)
    BY <1>a, <2>1 DEF Move
  <2> QED
    BY <1>0, <2>1, <2>2, <2>3, ClientSends DEF FirstClient
<1>3. CASE SendRequestControl
  <2>1. cs = 2 /\ cc = 4
    BY <1>3 DEF FirstClient, ClientMarks, SendRequestControl, SendFinalizePdu, ClientIn,
                LicensingOrEarlier, McsStates
  <2>2. /\ cOut' = cOut \o <<Pdu("ControlRequest")>> /\ cPdu' = cPdu
        /\ ClientMarks(m, cState', 2, 5)
    BY <1>3 DEF SendRequestControl, SendFinalizePdu, ClientSend, ClientMarks
  <2>3. Move("toServer", m, Pdu("ControlRequest").type, cc, 5)
    BY <1>a, <2>1 DEF Move
  <2> QED
    BY <1>0, <2>1, <2>2, <2>3, ClientSends DEF FirstClient
<1>4. CASE SendPersistentKeyList
  <2>1. cs = 2 /\ cc = 5
    BY <1>4 DEF FirstClient, ClientMarks, SendPersistentKeyList, SendFinalizePdu, ClientIn,
                LicensingOrEarlier, McsStates
  <2>2. /\ cOut' = cOut \o <<Pdu("PersistentKeyList")>> /\ cPdu' = cPdu
        /\ ClientMarks(m, cState', 2, 5)
    BY <1>4 DEF SendPersistentKeyList, SendFinalizePdu, ClientSend, ClientMarks
  <2>3. Move("toServer", m, Pdu("PersistentKeyList").type, cc, 5)
    BY <1>a, <2>1 DEF Move
  <2> QED
    BY <1>0, <2>1, <2>2, <2>3, ClientSends DEF FirstClient
<1> QED
  BY <1>1, <1>2, <1>3, <1>4

LEMMA ClientSendsFontList ==
    ASSUME NEW m \in {0, 1}, NEW cs \in Marks, NEW ca \in Marks, NEW cc \in Marks,
           FirstClient(m, cs, cc, ca), SendFontList
    PROVE  ClientAfter(m, ca, cc)
<1>1. cs = 2 /\ cc = 5 /\ 6 \in Marks
  BY DEF FirstClient, ClientMarks, SendFontList, ClientIn, LicensingOrEarlier, McsStates, Marks
<1>2. cOut' = cOut \o <<Pdu("FontList")>> /\ ClientMarks(m, cState', 2, 6)
  BY DEF SendFontList, ClientSend, ClientMarks
<1>3. Move("toServer", m, Pdu("FontList").type, cc, 6)
  BY <1>1 DEF Move, Pdu
<1>4. cPdu' = cPdu \/ (cPdu' = NoPdu /\ cPdu.type \in {"MonitorLayout", "None"})
  BY DEF FirstClient, ClientFlagsRight, SendFontList, ClientIn, ClientSuccess, ClientTryAgain,
         FinalizationStates, NoPdu, Pdu
<1>5. Move("toClient", m, cPdu'.type, cs, ca)
  <2>1. CASE cPdu' = cPdu
    BY <2>1 DEF FirstClient
  <2>2. CASE cPdu' = NoPdu /\ cPdu.type \in {"MonitorLayout", "None"}
    <3>1. ca = cs
      BY <2>2 DEF FirstClient, Move, PhaseTypes
    <3> QED
      BY <2>2, <3>1, StillMove
  <2> QED
    BY <1>4, <2>1, <2>2
<1> QED
  BY <1>1, <1>2, <1>3, <1>5, ClientSends DEF FirstClient

LEMMA ClientAwaitsLayout ==
    ASSUME NEW m \in {0, 1}, NEW cs \in Marks, NEW ca \in Marks, NEW cc \in Marks,
           FirstClient(m, cs, cc, ca), ClientMonitorLayout
    PROVE  ClientAfter(m, ca, cc)
<1>1. cs = 2 /\ cc = 2 /\ cState = "CAPABILITIES_EXCHANGE_MONITOR_LAYOUT"
  BY DEF FirstClient, ClientMarks, ClientMonitorLayout, ClientIn, LicensingOrEarlier, McsStates
<1>2. cFinalize \cap ServerFlags = {}
  BY <1>1 DEF FirstClient, ClientFlagsRight
<1>3. (cPdu.type \notin PhaseTypes /\ ca = 2) \/ (cPdu.type = "Synchronize" /\ ca = 3)
  BY <1>1 DEF FirstClient, Move
<1>4. CASE ClientReject
  BY <1>4, ClientStopped
<1>5. CASE RecvPdu(cPdu, StateAfter(cPdu), RecvReturns(cPdu)) /\ FinalizeAfter(cPdu) = cFinalize
  <2>1. cPdu.type # "Synchronize"
    BY <1>2, <1>5 DEF FinalizeAfter, ScFlag, ServerFlags
  <2>2. RecvPdu(cPdu, cState, TRUE) /\ cPdu' = NoPdu
    BY <1>3, <1>5, <2>1, ReturnsRead DEF RecvPdu, StateAfter, PhaseTypes
  <2>3. ClientMarks(m, cState, ca, cc) /\ cPdu.type # "MultitransportRequest"
    BY <1>1, <1>3, <2>1 DEF ClientMarks, PhaseTypes
  <2> QED
    BY <2>2, <2>3, ClientReads DEF FirstClient
<1>6. CASE RecvPdu(cPdu, cState, ClientFail)
  <2>1. RecvPdu(cPdu, cState, TRUE) /\ cRun' \notin Working
    BY <1>6 DEF RecvPdu, ClientFail, Working
  <2>2. cPdu.type # "MultitransportRequest"
    BY <1>3 DEF PhaseTypes
  <2> QED
    BY <2>1, <2>2, ClientReads DEF FirstClient
<1>7. CASE RecvPdu(cPdu, "FINALIZATION_SYNC", ClientTryAgain)
  <2>1. cOut' = cOut \o MessageReply(cPdu) /\ cState' = "FINALIZATION_SYNC" /\ cPdu' = cPdu
    BY <1>7 DEF RecvPdu, ClientSend, ClientTryAgain
  <2>2. cPdu.type # "MultitransportRequest"
    BY <1>3 DEF PhaseTypes
  <2>3. Leads("toServer", m, cOut, cc, cOut', cc)
    BY <2>1, <2>2, ReplyLeads DEF FirstClient
  <2>4. ClientMarks(m, cState', cs, cc) /\ Move("toClient", m, cPdu'.type, cs, ca)
    BY <1>1, <2>1 DEF ClientMarks, FirstClient
  <2> QED
    BY <2>3, <2>4 DEF ClientAfter
<1> QED
  BY <1>4, <1>5, <1>6, <1>7 DEF ClientMonitorLayout

LEMMA ClientIsFinalized ==
    ASSUME NEW m \in {0, 1}, NEW cs \in Marks, NEW ca \in Marks, NEW cc \in Marks,
           FirstClient(m, cs, cc, ca),
           NEW state, NEW flag, NEW next, NEW expected, HandleScFlags(state, flag, next),
           \/ /\ state = "FINALIZATION_CLIENT_SYNC" /\ flag = "SC_SYNCHRONIZE"
              /\ next = "FINALIZATION_CLIENT_COOPERATE" /\ expected = "Synchronize"
           \/ /\ state = "FINALIZATION_CLIENT_COOPERATE" /\ flag = "SC_CONTROL_COOPERATE"
              /\ next = "FINALIZATION_CLIENT_GRANTED_CONTROL" /\ expected = "ControlCooperate"
           \/ /\ state = "FINALIZATION_CLIENT_GRANTED_CONTROL" /\ flag = "SC_CONTROL_GRANTED"
              /\ next = "FINALIZATION_CLIENT_FONT_MAP" /\ expected = "ControlGranted"
           \/ /\ state = "FINALIZATION_CLIENT_FONT_MAP" /\ flag = "SC_FONT_MAP"
              /\ next = "ACTIVE" /\ expected = "FontMap"
    PROVE  ClientAfter(m, ca, cc)
<1>1. cState = state
  BY DEF HandleScFlags, ClientIn
<1>2. flag \in cFinalize => cPdu.type = expected
  BY <1>1 DEF FirstClient, ClientFlagsRight, ServerFlags
<1>3. \/ cPdu.type \notin PhaseTypes /\ ca = cs /\ ClientMarks(m, state, ca, cc)
      \/ cPdu.type = expected /\ ClientMarks(m, next, ca, cc)
  BY <1>1 DEF FirstClient, Move, ClientMarks, LicensingOrEarlier, McsStates
<1>4. flag \in FinalizeAfter(cPdu) <=> cPdu.type = expected
  <2>1. CASE cPdu.type = expected
    BY <2>1 DEF FinalizeAfter, ScFlag
  <2>2. CASE cPdu.type # expected
    <3>1. cPdu.type \notin PhaseTypes
      BY <1>3, <2>2
    <3>2. FinalizeAfter(cPdu) = cFinalize
      BY <3>1 DEF FinalizeAfter, ScFlag, PhaseTypes
    <3> QED
      BY <1>2, <2>2, <3>2
  <2> QED
    BY <2>1, <2>2
<1>5. cPdu.type # "MultitransportRequest" /\ cPdu.type # "DeactivateAll"
  BY <1>3 DEF PhaseTypes
<1>6. CASE ClientReject
  BY <1>6, ClientStopped
<1>7. CASE ~ClientReject /\ cPdu.type = expected
  <2>1. RecvPdu(cPdu, next, TRUE) /\ cPdu' = NoPdu
    BY <1>4, <1>7 DEF HandleScFlags, RecvPdu, ClientQuit, ClientSuccess
  <2>2. ClientMarks(m, next, ca, cc)
    BY <1>3, <1>7 DEF PhaseTypes
  <2> QED
    BY <1>5, <2>1, <2>2, ClientReads DEF FirstClient
<1>8. CASE ~ClientReject /\ cPdu.type # expected
  <2>1. RecvPdu(cPdu, state, TRUE) /\ cPdu' = NoPdu
    BY <1>1, <1>4, <1>5, <1>8, ReturnsRead DEF HandleScFlags, RecvPdu, StateAfter
  <2>2. ClientMarks(m, state, ca, cc)
    BY <1>3, <1>8
  <2> QED
    BY <1>5, <2>1, <2>2, ClientReads DEF FirstClient
<1> QED
  BY <1>6, <1>7, <1>8

\* In the active state a Deactivate All ends the first activation.
LEMMA ClientIsActive ==
    ASSUME NEW m \in {0, 1}, NEW cs \in Marks, NEW ca \in Marks, NEW cc \in Marks,
           FirstClient(m, cs, cc, ca), ClientActive
    PROVE  /\ ClientAfter(m, ca, cc)
           /\ cPdu.type = "DeactivateAll" => "DEACTIVATE_REACTIVATE" \in cFinalize'
<1>1. cs = 6 /\ cc = 6 /\ cState = "ACTIVE"
  BY DEF FirstClient, ClientMarks, ClientActive, ClientIn, LicensingOrEarlier, McsStates
<1>2. (cPdu.type \notin PhaseTypes /\ ca = 6) \/ cPdu.type = "DeactivateAll"
  BY <1>1 DEF FirstClient, Move
<1>3. CASE ClientReject
  <2>1. cPdu.type # "DeactivateAll" \/ ~RecvFails(cPdu)
    BY DEF RecvFails, ServerMcsTypes, OnMessageChannel, ServerMessageTypes
  <2>2. cPdu.type # "DeactivateAll"
    <3> SUFFICES ASSUME cPdu.type = "DeactivateAll"
                 PROVE  FALSE
      OBVIOUS
    <3>1. RecvPdu(cPdu, StateAfter(cPdu), RecvReturns(cPdu))
      BY <2>1 DEF ClientActive
    <3>2. cRun' = "idle"
      BY <3>1 DEF RecvPdu, RecvReturns, ClientSuccess
    <3> QED
      BY <1>3, <3>2 DEF ClientReject, ClientFail
  <2> QED
    BY <1>3, <2>2, ClientStopped
<1>4. CASE ~ClientReject
  <2>1. RecvPdu(cPdu, StateAfter(cPdu), TRUE) /\ cPdu' = NoPdu
    BY <1>4, ReturnsRead DEF ClientActive, RecvPdu
  <2>2. cPdu.type = "DeactivateAll" => "DEACTIVATE_REACTIVATE" \in cFinalize'
    BY <1>1, <2>1 DEF RecvPdu, FinalizeAfter
  <2>3. cPdu.type # "DeactivateAll" => ClientMarks(m, StateAfter(cPdu), ca, cc)
    BY <1>1, <1>2 DEF StateAfter, ClientMarks
  <2>4. cPdu.type # "MultitransportRequest"
    BY <1>2 DEF PhaseTypes
  <2> QED
    BY <2>1, <2>2, <2>3, <2>4, ClientReads DEF FirstClient
<1> QED
  BY <1>3, <1>4

\* Every step of the client's loop.
LEMMA ClientStepAfter ==
    ASSUME NEW m \in {0, 1}, NEW cs \in Marks, NEW ca \in Marks, NEW cc \in Marks,
           FirstClient(m, cs, cc, ca), ClientStep
    PROVE  /\ ClientAfter(m, ca, cc)
           /\ cPdu.type = "DeactivateAll" => "DEACTIVATE_REACTIVATE" \in cFinalize'
<1>1. ClientAfter(m, ca, cc)
  <2>1. CASE ClientBegin \/ ClientMcsCreateRequest
    BY <2>1, ClientConnects
  <2>2. CASE ClientMcsCreateResponse \/ ClientAttachUserConfirm \/ ClientChannelJoinConfirm
    BY <2>2, ClientJoins
  <2>3. CASE \/ ClientAutoDetect("CONNECT_TIME_AUTO_DETECT_REQUEST", "LICENSING")
             \/ ClientAutoDetect("MULTITRANSPORT_BOOTSTRAPPING_REQUEST",
                                 "CAPABILITIES_EXCHANGE_DEMAND_ACTIVE")
    BY <2>3, ClientMeasures
  <2>4. CASE ClientLicensing
    BY <2>4, ClientLicenses
  <2>5. CASE ClientDemandActive
    BY <2>5, ClientDemands
  <2>6. CASE ClientConfirmActive
    BY <2>6, ClientConfirms
  <2>7. CASE ClientMonitorLayout
    BY <2>7, ClientAwaitsLayout
  <2>8. CASE SendSynchronize \/ SendCooperate \/ SendRequestControl \/ SendPersistentKeyList
    BY <2>8, ClientFinalizes
  <2>9. CASE SendFontList
    BY <2>9, ClientSendsFontList
  <2>10. CASE ClientFinalizeSync
    BY <2>10, ClientIsFinalized DEF ClientFinalizeSync
  <2>11. CASE ClientFinalizeCooperate
    BY <2>11, ClientIsFinalized DEF ClientFinalizeCooperate
  <2>12. CASE ClientFinalizeGrantedControl
    BY <2>12, ClientIsFinalized DEF ClientFinalizeGrantedControl
  <2>13. CASE ClientFinalizeFontMap
    BY <2>13, ClientIsFinalized DEF ClientFinalizeFontMap
  <2>14. CASE ClientActive
    BY <2>14, ClientIsActive
  <2> QED
    BY <2>1, <2>2, <2>3, <2>4, <2>5, <2>6, <2>7, <2>8, <2>9, <2>10, <2>11, <2>12, <2>13, <2>14
       DEF ClientStep
<1>2. ASSUME cPdu.type = "DeactivateAll"
      PROVE  ClientActive
  <2>1. cs = 6
    BY <1>2 DEF FirstClient, Move, PhaseTypes, ClientMarks
  <2>2. cState = "ACTIVE"
    BY <2>1 DEF FirstClient, ClientMarks
  <2> QED
    BY <2>2 DEF ClientStep, ClientBegin, ClientMcsCreateRequest, ClientMcsCreateResponse,
                ClientAttachUserConfirm, ClientChannelJoinConfirm, ClientAutoDetect,
                ClientLicensing, ClientDemandActive, ClientConfirmActive, ClientMonitorLayout,
                SendSynchronize, SendCooperate, SendRequestControl, SendPersistentKeyList,
                SendFinalizePdu, SendFontList, ClientFinalizeSync, ClientFinalizeCooperate,
                ClientFinalizeGrantedControl, ClientFinalizeFontMap, HandleScFlags, ClientIn
<1> QED
  BY <1>1, <1>2, ClientIsActive

LEMMA FlagsElsewhere ==
    ASSUME cRun' = "idle" => cPdu' = NoPdu,
           \/ cState' \notin FlaggedStates
           \/ /\ cState' \in {"NEGO", "MCS_CREATE_REQUEST", "CAPABILITIES_EXCHANGE_CONFIRM_ACTIVE"}
              /\ cPdu' = NoPdu
    PROVE  ClientFlagsRight'
BY DEF ClientFlagsRight, FlaggedStates, FinalizationStates, ClientFinalizationStates

LEMMA StepsWork == ClientStep => cRun = "run"
BY DEF ClientStep, ClientBegin, ClientMcsCreateRequest, ClientMcsCreateResponse,
       ClientAttachUserConfirm, ClientChannelJoinConfirm, ClientAutoDetect,
       ClientLicensing, ClientDemandActive, ClientConfirmActive, ClientMonitorLayout,
       SendSynchronize, SendCooperate, SendRequestControl, SendPersistentKeyList,
       SendFinalizePdu, SendFontList, ClientFinalizeSync, ClientFinalizeCooperate,
       ClientFinalizeGrantedControl, ClientFinalizeFontMap, HandleScFlags, ClientActive, ClientIn

LEMMA FlagsBeforeActivation ==
    ASSUME \/ ClientBegin \/ ClientMcsCreateRequest \/ ClientMcsCreateResponse
           \/ ClientAttachUserConfirm \/ ClientChannelJoinConfirm
           \/ ClientAutoDetect("CONNECT_TIME_AUTO_DETECT_REQUEST", "LICENSING")
           \/ ClientLicensing
           \/ ClientAutoDetect("MULTITRANSPORT_BOOTSTRAPPING_REQUEST",
                               "CAPABILITIES_EXCHANGE_DEMAND_ACTIVE")
           \/ ClientDemandActive,
           cRun' \in Working
    PROVE  ClientFlagsRight'
<1>1. ~ClientReject
  BY DEF ClientReject, ClientFail, Working
<1>2. CASE ClientBegin
  BY <1>2, FlagsElsewhere DEF ClientBegin, ClientContinue
<1>3. CASE ClientMcsCreateRequest
  BY <1>3, FlagsElsewhere DEF ClientMcsCreateRequest, ClientSuccess, FlaggedStates,
          FinalizationStates, ClientFinalizationStates
<1>4. CASE ClientMcsCreateResponse \/ ClientAttachUserConfirm \/ ClientChannelJoinConfirm
  BY <1>1, <1>4, FlagsElsewhere DEF ClientMcsCreateResponse, ClientAttachUserConfirm,
          ClientChannelJoinConfirm, JoinNextOrSendInfo, ClientSuccess, FlaggedStates,
          FinalizationStates, ClientFinalizationStates
<1>5. CASE \/ ClientAutoDetect("CONNECT_TIME_AUTO_DETECT_REQUEST", "LICENSING")
           \/ ClientAutoDetect("MULTITRANSPORT_BOOTSTRAPPING_REQUEST",
                               "CAPABILITIES_EXCHANGE_DEMAND_ACTIVE")
  <2>1. (cRun' = "idle" => cPdu' = NoPdu) /\ cState' \notin FlaggedStates
    BY <1>5 DEF ClientAutoDetect, ClientIn, ClientSuccess, ClientTryAgain, FlaggedStates,
            FinalizationStates, ClientFinalizationStates
  <2> QED
    BY <2>1, FlagsElsewhere
<1>6. CASE ClientLicensing
  <2>1. (cRun' = "idle" => cPdu' = NoPdu) /\ cState' \notin FlaggedStates
    BY <1>6 DEF ClientLicensing, ClientIn, ClientSuccess, ClientFail, LicensedState, FlaggedStates,
            FinalizationStates, ClientFinalizationStates
  <2> QED
    BY <2>1, FlagsElsewhere
<1>7. CASE ClientDemandActive
  <2>1. cPdu' = NoPdu
    BY <1>1, <1>7, ReturnsRead DEF ClientDemandActive, RecvPdu, ClientContinue
  <2>2. \/ cState' = "CAPABILITIES_EXCHANGE_CONFIRM_ACTIVE"
        \/ cState' = "CAPABILITIES_EXCHANGE_DEMAND_ACTIVE"
    BY <1>1, <1>7 DEF ClientDemandActive, ClientIn, RecvPdu
  <2> QED
    BY <2>1, <2>2, FlagsElsewhere DEF FlaggedStates, FinalizationStates, ClientFinalizationStates
<1> QED
  BY <1>2, <1>3, <1>4, <1>5, <1>6, <1>7

LEMMA FlagsAfterConfirm ==
    ASSUME ClientConfirmActive
    PROVE  ClientFlagsRight'
<1>1. CASE cSettings.monitorLayout
  <2>1. /\ cState' = "CAPABILITIES_EXCHANGE_MONITOR_LAYOUT" /\ cPdu' = NoPdu
        /\ cFinalize' = cFinalize \cap {"DEACTIVATE_REACTIVATE"} /\ cSettings' = cSettings
    BY <1>1 DEF ClientConfirmActive, ResetFinalizeFlags, ClientSuccess
  <2>2. cFinalize' \cap ServerFlags = {} /\ cSettings'.monitorLayout
    BY <1>1, <2>1 DEF ServerFlags
  <2> QED
    BY <2>1, <2>2 DEF ClientFlagsRight, FinalizationStates
<1>2. CASE ~cSettings.monitorLayout
  <2>1. cState' = "FINALIZATION_SYNC" /\ cPdu' = NoPdu /\ cSettings' = cSettings
    BY <1>2 DEF ClientConfirmActive, ClientContinue
  <2> QED
    BY <1>2, <2>1 DEF ClientFlagsRight
<1> QED
  BY <1>1, <1>2

LEMMA FlagsAfterLayout ==
    ASSUME NEW m \in {0, 1}, NEW cs \in Marks, NEW ca \in Marks, NEW cc \in Marks,
           FirstClient(m, cs, cc, ca), ClientMonitorLayout, cRun' \in Working
    PROVE  ClientFlagsRight'
<1>1. cs = 2 /\ cc = 2 /\ cState = "CAPABILITIES_EXCHANGE_MONITOR_LAYOUT" /\ cRun = "run"
  BY DEF FirstClient, ClientMarks, ClientMonitorLayout, ClientIn, LicensingOrEarlier, McsStates
<1>2. cFinalize \cap ServerFlags = {} /\ cSettings.monitorLayout
  BY <1>1 DEF FirstClient, ClientFlagsRight
<1>3. (cPdu.type \notin PhaseTypes /\ ca = 2) \/ (cPdu.type = "Synchronize" /\ ca = 3)
  BY <1>1 DEF FirstClient, Move
<1>4. ~ClientReject
  BY DEF ClientReject, ClientFail, Working
<1>5. cSettings' = cSettings
  BY <1>4 DEF ClientMonitorLayout, RecvPdu
<1>6. CASE RecvPdu(cPdu, StateAfter(cPdu), RecvReturns(cPdu)) /\ FinalizeAfter(cPdu) = cFinalize
  <2>1. cPdu.type # "DeactivateAll"
    BY <1>3 DEF PhaseTypes
  <2>2. cState' = cState /\ cFinalize' = cFinalize /\ cPdu' = NoPdu
    BY <1>6, <2>1, ReturnsRead DEF RecvPdu, StateAfter
  <2> QED
    BY <1>1, <1>2, <1>5, <2>2 DEF ClientFlagsRight, FinalizationStates
<1>7. CASE RecvPdu(cPdu, "FINALIZATION_SYNC", ClientTryAgain) /\ ~cMonitorLayout
  <2>1. /\ cState' = "FINALIZATION_SYNC" /\ cFinalize' = FinalizeAfter(cPdu)
        /\ cPdu' = cPdu /\ cRun' = "run" /\ cMonitorLayout' = MonitorLayoutAfter(cPdu)
    BY <1>1, <1>7 DEF RecvPdu, ClientTryAgain
  <2>2. cMonitorLayout' => cPdu'.type = "MonitorLayout"
    BY <1>7, <2>1 DEF MonitorLayoutAfter
  <2>3. /\ cFinalize' \cap ServerFlags \subseteq {"SC_SYNCHRONIZE"}
        /\ "SC_SYNCHRONIZE" \in cFinalize' => cPdu'.type = "Synchronize"
    BY <1>2, <1>3, <2>1 DEF FinalizeAfter, ScFlag, PhaseTypes, ServerFlags
  <2> QED
    BY <1>2, <1>5, <2>1, <2>2, <2>3 DEF ClientFlagsRight
<1> QED
  <2>1. CASE RecvPdu(cPdu, cState, ClientFail)
    BY <2>1 DEF RecvPdu, ClientFail, Working
  <2> QED
    BY <1>4, <1>6, <1>7, <2>1 DEF ClientMonitorLayout

LEMMA FlagsInBatch ==
    ASSUME ClientFlagsRight,
           SendSynchronize \/ SendCooperate \/ SendRequestControl \/ SendPersistentKeyList
    PROVE  ClientFlagsRight'
<1>1. /\ cState \in FinalizationStates /\ cState' \in FinalizationStates
      /\ UNCHANGED <<cRun, cPdu, cFinalize, cMonitorLayout, cSettings>>
  BY DEF SendSynchronize, SendCooperate, SendRequestControl, SendPersistentKeyList,
         SendFinalizePdu, ClientIn, FinalizationStates
<1> QED
  BY <1>1 DEF ClientFlagsRight, FinalizationStates

LEMMA FlagsAfterFontList ==
    ASSUME ClientFlagsRight, SendFontList
    PROVE  ClientFlagsRight'
<1>1. cState = "FINALIZATION_FONT_LIST" /\ cState' = "FINALIZATION_CLIENT_SYNC" /\ cRun = "run"
  BY DEF SendFontList, ClientIn
<1>2. CASE ~cSettings.monitorLayout
  <2>1. cFinalize' = cFinalize \cap {"DEACTIVATE_REACTIVATE"} /\ cPdu' = NoPdu
    BY <1>2 DEF SendFontList, ResetFinalizeFlags, ClientSuccess
  <2>2. /\ cFinalize' \cap ServerFlags \subseteq {"SC_SYNCHRONIZE"}
        /\ "SC_SYNCHRONIZE" \notin cFinalize'
    BY <2>1 DEF ServerFlags
  <2> QED
    BY <1>1, <2>1, <2>2 DEF ClientFlagsRight, FinalizationStates
<1>3. CASE cSettings.monitorLayout
  <2>1. /\ cMonitorLayout => cPdu.type = "MonitorLayout"
        /\ cFinalize \cap ServerFlags \subseteq {"SC_SYNCHRONIZE"}
        /\ "SC_SYNCHRONIZE" \in cFinalize => cPdu.type = "Synchronize"
    BY <1>1, <1>3 DEF ClientFlagsRight, FinalizationStates
  <2>2. /\ cFinalize' = cFinalize
        /\ (cMonitorLayout /\ cPdu' = NoPdu) \/ (cPdu' = cPdu /\ cRun' = "run")
    BY <1>1, <1>3 DEF SendFontList, ClientSuccess, ClientTryAgain
  <2>3. "SC_SYNCHRONIZE" \in cFinalize' => cPdu'.type = "Synchronize"
    BY <2>1, <2>2
  <2>4. cRun' = "idle" => cPdu' = NoPdu
    BY <2>2
  <2> QED
    BY <1>1, <2>1, <2>2, <2>3, <2>4 DEF ClientFlagsRight, FinalizationStates
<1> QED
  BY <1>2, <1>3

LEMMA FlagsWhileFinalizing ==
    ASSUME NEW m \in {0, 1}, NEW cs \in Marks, NEW ca \in Marks, NEW cc \in Marks,
           FirstClient(m, cs, cc, ca), cRun' \in Working,
           \/ ClientFinalizeSync \/ ClientFinalizeCooperate \/ ClientFinalizeGrantedControl
           \/ ClientFinalizeFontMap \/ ClientActive
    PROVE  ClientFlagsRight'
<1>0. ~ClientReject
  BY DEF ClientReject, ClientFail, Working
<1>1. CASE ClientFinalizeSync
  <2>1. cState = "FINALIZATION_CLIENT_SYNC" /\ cs = 2
    BY <1>1 DEF ClientFinalizeSync, HandleScFlags, ClientIn, FirstClient, ClientMarks,
                LicensingOrEarlier, McsStates
  <2>2. cPdu.type \notin PhaseTypes \/ cPdu.type = "Synchronize"
    BY <2>1 DEF FirstClient, Move
  <2>3. /\ cFinalize \cap ServerFlags \subseteq {"SC_SYNCHRONIZE"}
        /\ "SC_SYNCHRONIZE" \in cFinalize => cPdu.type = "Synchronize"
    BY <2>1 DEF FirstClient, ClientFlagsRight
  <2>4. cFinalize' = FinalizeAfter(cPdu) /\ cPdu' = NoPdu
    BY <1>0, <1>1, ReturnsRead DEF ClientFinalizeSync, HandleScFlags, RecvPdu, ClientQuit,
                                    ClientSuccess
  <2>5. cState' = IF "SC_SYNCHRONIZE" \in FinalizeAfter(cPdu)
                  THEN "FINALIZATION_CLIENT_COOPERATE" ELSE cState
    BY <1>0, <1>1, <2>2 DEF ClientFinalizeSync, HandleScFlags, RecvPdu, StateAfter, PhaseTypes
  <2>6. CASE cPdu.type = "Synchronize"
    <3>1. cFinalize' = cFinalize \cup {"SC_SYNCHRONIZE"}
      BY <2>4, <2>6 DEF FinalizeAfter, ScFlag
    <3>2. cFinalize' \cap ServerFlags = {"SC_SYNCHRONIZE"}
      BY <2>3, <3>1 DEF ServerFlags
    <3> QED
      BY <2>4, <2>5, <3>1, <3>2 DEF ClientFlagsRight, FinalizationStates
  <2>7. CASE cPdu.type # "Synchronize"
    <3>1. cFinalize' = cFinalize
      BY <2>2, <2>4, <2>7 DEF FinalizeAfter, ScFlag, PhaseTypes
    <3> QED
      BY <2>1, <2>3, <2>4, <2>5, <2>7, <3>1 DEF ClientFlagsRight, FinalizationStates
  <2> QED
    BY <2>6, <2>7
<1>2. CASE ClientFinalizeCooperate
  <2>1. cState = "FINALIZATION_CLIENT_COOPERATE" /\ cs = 3
    BY <1>2 DEF ClientFinalizeCooperate, HandleScFlags, ClientIn, FirstClient, ClientMarks,
                LicensingOrEarlier, McsStates
  <2>2. cPdu.type \notin PhaseTypes \/ cPdu.type = "ControlCooperate"
    BY <2>1 DEF FirstClient, Move
  <2>3. cFinalize \cap ServerFlags = {"SC_SYNCHRONIZE"}
    BY <2>1 DEF FirstClient, ClientFlagsRight
  <2>4. cFinalize' = FinalizeAfter(cPdu) /\ cPdu' = NoPdu
    BY <1>0, <1>2, ReturnsRead DEF ClientFinalizeCooperate, HandleScFlags, RecvPdu, ClientQuit,
                                    ClientSuccess
  <2>5. cState' = IF "SC_CONTROL_COOPERATE" \in FinalizeAfter(cPdu)
                  THEN "FINALIZATION_CLIENT_GRANTED_CONTROL" ELSE cState
    BY <1>0, <1>2, <2>2 DEF ClientFinalizeCooperate, HandleScFlags, RecvPdu, StateAfter, PhaseTypes
  <2>6. CASE cPdu.type = "ControlCooperate"
    <3>1. cFinalize' = cFinalize \cup {"SC_CONTROL_COOPERATE"}
      BY <2>4, <2>6 DEF FinalizeAfter, ScFlag
    <3>2. cFinalize' \cap ServerFlags = {"SC_SYNCHRONIZE", "SC_CONTROL_COOPERATE"}
      BY <2>3, <3>1 DEF ServerFlags
    <3> QED
      BY <2>4, <2>5, <3>1, <3>2 DEF ClientFlagsRight, FinalizationStates
  <2>7. CASE cPdu.type # "ControlCooperate"
    <3>1. cFinalize' = cFinalize
      BY <2>2, <2>4, <2>7 DEF FinalizeAfter, ScFlag, PhaseTypes
    <3>2. "SC_CONTROL_COOPERATE" \notin cFinalize
      BY <2>3 DEF ServerFlags
    <3> QED
      BY <2>1, <2>3, <2>4, <2>5, <3>1, <3>2 DEF ClientFlagsRight, FinalizationStates
  <2> QED
    BY <2>6, <2>7
<1>3. CASE ClientFinalizeGrantedControl
  <2>1. cState = "FINALIZATION_CLIENT_GRANTED_CONTROL" /\ cs = 4
    BY <1>3 DEF ClientFinalizeGrantedControl, HandleScFlags, ClientIn, FirstClient, ClientMarks,
                LicensingOrEarlier, McsStates
  <2>2. cPdu.type \notin PhaseTypes \/ cPdu.type = "ControlGranted"
    BY <2>1 DEF FirstClient, Move
  <2>3. cFinalize \cap ServerFlags = {"SC_SYNCHRONIZE", "SC_CONTROL_COOPERATE"}
    BY <2>1 DEF FirstClient, ClientFlagsRight
  <2>4. cFinalize' = FinalizeAfter(cPdu) /\ cPdu' = NoPdu
    BY <1>0, <1>3, ReturnsRead DEF ClientFinalizeGrantedControl, HandleScFlags, RecvPdu, ClientQuit,
                                    ClientSuccess
  <2>5. cState' = IF "SC_CONTROL_GRANTED" \in FinalizeAfter(cPdu)
                  THEN "FINALIZATION_CLIENT_FONT_MAP" ELSE cState
    BY <1>0, <1>3, <2>2 DEF ClientFinalizeGrantedControl, HandleScFlags, RecvPdu, StateAfter,
                            PhaseTypes
  <2>6. CASE cPdu.type = "ControlGranted"
    <3>1. cFinalize' = cFinalize \cup {"SC_CONTROL_GRANTED"}
      BY <2>4, <2>6 DEF FinalizeAfter, ScFlag
    <3>2. "SC_FONT_MAP" \notin cFinalize'
      BY <2>3, <3>1 DEF ServerFlags
    <3> QED
      BY <2>4, <2>5, <3>1, <3>2 DEF ClientFlagsRight, FinalizationStates
  <2>7. CASE cPdu.type # "ControlGranted"
    <3>1. cFinalize' = cFinalize
      BY <2>2, <2>4, <2>7 DEF FinalizeAfter, ScFlag, PhaseTypes
    <3>2. "SC_CONTROL_GRANTED" \notin cFinalize
      BY <2>3 DEF ServerFlags
    <3> QED
      BY <2>1, <2>3, <2>4, <2>5, <3>1, <3>2 DEF ClientFlagsRight, FinalizationStates
  <2> QED
    BY <2>6, <2>7
<1>4. CASE ClientFinalizeFontMap
  <2>1. cState = "FINALIZATION_CLIENT_FONT_MAP" /\ cs = 5
    BY <1>4 DEF ClientFinalizeFontMap, HandleScFlags, ClientIn, FirstClient, ClientMarks,
                LicensingOrEarlier, McsStates
  <2>2. cPdu.type \notin PhaseTypes \/ cPdu.type = "FontMap"
    BY <2>1 DEF FirstClient, Move
  <2>3. cFinalize' = FinalizeAfter(cPdu) /\ cPdu' = NoPdu
    BY <1>0, <1>4, ReturnsRead DEF ClientFinalizeFontMap, HandleScFlags, RecvPdu, ClientQuit,
                                    ClientSuccess
  <2>4. cState' = IF "SC_FONT_MAP" \in FinalizeAfter(cPdu) THEN "ACTIVE" ELSE cState
    BY <1>0, <1>4, <2>2 DEF ClientFinalizeFontMap, HandleScFlags, RecvPdu, StateAfter, PhaseTypes
  <2> QED
    BY <2>1, <2>3, <2>4 DEF ClientFlagsRight, FinalizationStates
<1>5. CASE ClientActive
  <2>1. cState' \in {"ACTIVE", "CAPABILITIES_EXCHANGE_DEMAND_ACTIVE"} /\ cPdu' = NoPdu
    BY <1>0, <1>5, ReturnsRead DEF ClientActive, ClientIn, RecvPdu, StateAfter
  <2> QED
    BY <2>1, FlagsElsewhere DEF FlaggedStates, FinalizationStates, ClientFinalizationStates
<1> QED
  BY <1>1, <1>2, <1>3, <1>4, <1>5

LEMMA ClientFlagsStay ==
    ASSUME NEW m \in {0, 1}, NEW cs \in Marks, NEW ca \in Marks, NEW cc \in Marks,
           FirstClient(m, cs, cc, ca), ClientStep, cRun' \in Working
    PROVE  ClientFlagsRight'
<1>1. ClientFlagsRight
  BY DEF FirstClient
<1> QED
  BY <1>1, FlagsBeforeActivation, FlagsAfterConfirm, FlagsAfterLayout, FlagsInBatch,
     FlagsAfterFontList, FlagsWhileFinalizing DEF ClientStep

\* The flag is set by a Deactivate All and stays for the connection.
LEMMA ClientKeepsReactivation ==
    ASSUME ClientStep
    PROVE  /\ "DEACTIVATE_REACTIVATE" \in cFinalize => "DEACTIVATE_REACTIVATE" \in cFinalize'
           /\ "DEACTIVATE_REACTIVATE" \in cFinalize' =>
                  "DEACTIVATE_REACTIVATE" \in cFinalize \/ cPdu.type = "DeactivateAll"
<1>1. \A type \in DOMAIN ScFlag : ScFlag[type] # "DEACTIVATE_REACTIVATE"
  BY DEF ScFlag
<1>2. \/ cFinalize' = cFinalize
      \/ cFinalize' = cFinalize \cap {"DEACTIVATE_REACTIVATE"}
      \/ cFinalize' = FinalizeAfter(cPdu)
  BY DEF ClientStep, ClientBegin, ClientMcsCreateRequest, ClientMcsCreateResponse,
         ClientAttachUserConfirm, ClientChannelJoinConfirm, ClientAutoDetect, ClientReject,
         ClientLicensing, ClientDemandActive, ClientConfirmActive, ClientMonitorLayout,
         SendSynchronize, SendCooperate, SendRequestControl, SendPersistentKeyList,
         SendFinalizePdu, SendFontList, ClientFinalizeSync, ClientFinalizeCooperate,
         ClientFinalizeGrantedControl, ClientFinalizeFontMap, HandleScFlags, ClientActive,
         RecvPdu, ResetFinalizeFlags
<1> QED
  BY <1>1, <1>2 DEF FinalizeAfter

-----------------------------------------------------------------------------
\* The handler sends nothing of the handshake and fails, or reads its PDU.
LEMMA ServerQuiet ==
    ASSUME NEW m \in {0, 1}, NEW ss \in Marks, NEW sa \in Marks, Listed(sOut),
           \E pdus : Quiet(pdus) /\ sOut' = sOut \o pdus,
           sRun' \in Working => ServerMarks(m, sState', ss, sa) /\ sPdu' = NoPdu
    PROVE  ServerAfter(m, sa, ss)
<1>1. Leads("toClient", m, sOut, ss, sOut', ss)
  BY LeadsQuietly
<1> QED
  BY <1>1, StillMove DEF ServerAfter

\* The handler sends nothing of the handshake and leaves its PDU to the next one.
LEMMA ServerLeaves ==
    ASSUME NEW m \in {0, 1}, NEW ss \in Marks, NEW sc \in Marks, NEW sa \in Marks, Listed(sOut),
           \E pdus : Quiet(pdus) /\ sOut' = sOut \o pdus,
           Move("toServer", m, sPdu.type, sc, sa),
           ServerMarks(m, sState', ss, sc), sPdu' = sPdu
    PROVE  ServerAfter(m, sa, ss)
<1>1. Leads("toClient", m, sOut, ss, sOut', ss)
  BY LeadsQuietly
<1> QED
  BY <1>1 DEF ServerAfter

\* A PDU that is refused is answered with an alert at most.
LEMMA FailsQuietly ==
    ASSUME Listed(sOut), NEW p, NEW state, PeerFails(p, state, <<>>, TRUE)
    PROVE  \E pdus : Quiet(pdus) /\ sOut' = sOut \o pdus
<1>1. Quiet(<<>>) /\ Quiet(<<ErrorAlert("TOTAL_ABORT")>>)
  BY QuietShort DEF ErrorAlert, PhaseTypes
<1>2. PICK alert \in LicenseAlerts(p) : sOut' = sOut \o (alert \o <<>>)
  BY DEF PeerFails, ServerSend
<1>3. Quiet(alert)
  BY <1>1, <1>2, Zenon DEF LicenseAlerts
<1> QED
  BY <1>1, <1>2, <1>3, QuietConcat

LEMMA ServerStopped ==
    ASSUME NEW m \in {0, 1}, NEW ss \in Marks, NEW sa \in Marks, Listed(sOut),
           ServerReject \/ PeerReject(sPdu)
    PROVE  ServerAfter(m, sa, ss)
<1>1. CASE ServerReject
  BY <1>1, QuietShort, NothingSent, ServerQuiet DEF ServerReject, ServerFail, Working
<1>2. CASE PeerReject(sPdu)
  <2>1. PeerFails(sPdu, sState, <<>>, TRUE) /\ sRun' \notin Working
    BY <1>2 DEF PeerReject, PeerFails, ServerFail, Working
  <2> QED
    BY <2>1, FailsQuietly, ServerQuiet
<1> QED
  BY <1>1, <1>2

LEMMA QuietReply ==
    ASSUME NEW p, p.type \notin {"ConfirmActive", "FontList"}
    PROVE  Quiet(PeerReply(p))
<1>1. /\ ErrorAlert("TOTAL_ABORT").type \notin PhaseTypes
      /\ Pdu("PlatformChallenge").type \notin PhaseTypes
  BY DEF ErrorAlert, Pdu, PhaseTypes
<1>2. /\ Quiet(<<ErrorAlert("TOTAL_ABORT"), Pdu("PlatformChallenge")>>)
      /\ Quiet(<<Pdu("PlatformChallenge")>>) /\ Quiet(<<Pdu("NewLicense")>>)
      /\ Quiet(<<Pdu("DisconnectUltimatum")>>) /\ Quiet(<<>>)
  BY <1>1, QuietShort, QuietTypes DEF PhaseTypes
<1> QED
  BY <1>2 DEF PeerReply

\* peer_recv_pdu on a PDU that is answered with nothing of the handshake.
LEMMA ServerReads ==
    ASSUME NEW m \in {0, 1}, NEW ss \in Marks, NEW sa \in Marks, Listed(sOut),
           NEW state, PeerRecv(sPdu, state, <<>>, TRUE),
           sPdu.type \notin {"ConfirmActive", "FontList"},
           sRun' \in Working => ServerMarks(m, state, ss, sa) /\ sPdu' = NoPdu
    PROVE  ServerAfter(m, sa, ss)
<1>1. sState' = state /\ sOut' = sOut \o (PeerReply(sPdu) \o <<>>)
  BY DEF PeerRecv, ServerSend
<1>2. Quiet(PeerReply(sPdu) \o <<>>)
  BY QuietReply, QuietShort, QuietConcat
<1> QED
  BY <1>1, <1>2, ServerQuiet

LEMMA PeerReturnsRead == \A p : PeerReturns(p) => sPdu' = NoPdu
BY DEF PeerReturns, ServerContinue, ServerQuit, ServerSuccess

LEMMA ServerConnects ==
    ASSUME NEW m \in {0, 1}, NEW ss \in Marks, NEW sc \in Marks, NEW sa \in Marks,
           FirstServer(m, ss, sc, sa),
           \/ ServerConnectInitial \/ ServerErectDomain \/ ServerAttachUser \/ ServerChannelJoin
           \/ ServerEstablishKeys \/ ServerClientInfo
    PROVE  ServerAfter(m, sa, ss)
<1>1. m = 0 /\ ss = 0 /\ sc = 0 /\ sa = 0
  BY DEF FirstServer, ServerMarks, ServerConnectInitial, ServerErectDomain, ServerAttachUser,
         ServerChannelJoin, ServerEstablishKeys, ServerClientInfo, ServerIn
<1>2. CASE ServerReject
  BY <1>2, ServerStopped DEF FirstServer
<1>3. CASE ~ServerReject
  <2>1. sState' \in LicensingOrEarlier /\ (sPdu' = NoPdu \/ sPdu' = sPdu)
    BY <1>3 DEF ServerConnectInitial, ServerErectDomain, ServerAttachUser, ServerChannelJoin,
                ServerEstablishKeys, ServerClientInfo, ServerSuccess, ServerRerun, ServerContinue,
                LicensingOrEarlier, McsStates
  <2>2. ServerMarks(m, sState', ss, 0)
    BY <1>1, <2>1 DEF ServerMarks
  <2>3. \E pdus : Quiet(pdus) /\ sOut' = sOut \o pdus
    <3>1. /\ \A settings, channel : Quiet(<<ConnectResponse(settings, channel)>>)
          /\ \A channel : Quiet(<<JoinConfirm(channel)>>)
      <4>1. /\ \A settings, channel : ConnectResponse(settings, channel).type \notin PhaseTypes
            /\ \A channel : JoinConfirm(channel).type \notin PhaseTypes
        BY DEF ConnectResponse, JoinConfirm, PhaseTypes
      <4> QED
        BY <4>1, QuietShort
    <3>2. Quiet(<<Pdu("AttachUserConfirm")>>) /\ Quiet(<<>>)
      BY QuietTypes, QuietShort DEF PhaseTypes
    <3>3. \/ sOut' = sOut
          \/ \E settings, channel : sOut' = sOut \o <<ConnectResponse(settings, channel)>>
          \/ \E channel : sOut' = sOut \o <<JoinConfirm(channel)>>
          \/ sOut' = sOut \o <<Pdu("AttachUserConfirm")>>
      BY <1>3 DEF ServerConnectInitial, ServerErectDomain, ServerAttachUser, ServerChannelJoin,
                ServerEstablishKeys, ServerClientInfo, ServerSend
    <3> QED
      BY <3>1, <3>2, <3>3, NothingSent DEF FirstServer
  <2>4. CASE sPdu' = NoPdu
    BY <1>1, <2>2, <2>3, <2>4, ServerQuiet DEF FirstServer
  <2>5. CASE sPdu' = sPdu
    BY <1>1, <2>2, <2>3, <2>5, ServerLeaves DEF FirstServer
  <2> QED
    BY <2>1, <2>4, <2>5
<1> QED
  BY <1>2, <1>3

\* Outside of the capability exchange and the handshake the PDUs change no state.
LEMMA QuietStays ==
    ASSUME NEW p, p.type \notin PhaseTypes
    PROVE  /\ PeerStateAfter(p) = sState /\ PeerFinalizeAfter(p) = sFinalize
           /\ p.type \notin {"ConfirmActive", "FontList", "MultitransportResponse"}
BY DEF PeerStateAfter, PeerFinalizeAfter, CsFlag, PhaseTypes

LEMMA ServerMeasures ==
    ASSUME NEW m \in {0, 1}, NEW ss \in Marks, NEW sc \in Marks, NEW sa \in Marks,
           FirstServer(m, ss, sc, sa), ServerAutoDetectRequest \/ ServerAutoDetectResponse
    PROVE  ServerAfter(m, sa, ss)
<1>1. m = 0 /\ ss = 0 /\ sc = 0 /\ sa = 0
  BY DEF FirstServer, ServerMarks, ServerAutoDetectRequest, ServerAutoDetectResponse, ServerIn
<1>2. sPdu.type \notin PhaseTypes
  BY <1>1 DEF FirstServer, Move
<1>3. /\ ServerMarks(m, "CONNECT_TIME_AUTO_DETECT_RESPONSE", ss, sa)
      /\ ServerMarks(m, "LICENSING", ss, sa)
  BY <1>1 DEF ServerMarks, LicensingOrEarlier
<1>4. CASE ServerAutoDetectRequest
  <2>1. Quiet(<<Pdu("AutoDetectRequest")>>) /\ Quiet(<<>>)
    BY QuietTypes, QuietShort DEF PhaseTypes
  <2>2. CASE sSettings.autoDetect
    <3>1. /\ sState' = "CONNECT_TIME_AUTO_DETECT_RESPONSE" /\ sPdu' = NoPdu
          /\ sOut' = sOut \o <<Pdu("AutoDetectRequest")>>
      BY <1>4, <2>2 DEF ServerAutoDetectRequest, ServerTransition, ServerSend, ServerSuccess
    <3> QED
      BY <1>3, <2>1, <3>1, ServerQuiet DEF FirstServer
  <2>3. CASE ~sSettings.autoDetect
    <3>1. sState' = "LICENSING" /\ sPdu' = sPdu /\ sOut' = sOut \o <<>>
      BY <1>4, <2>3 DEF ServerAutoDetectRequest, ServerTransition, ServerSend, ServerRerun
    <3> QED
      BY <1>1, <1>3, <2>1, <3>1, ServerLeaves DEF FirstServer
  <2> QED
    BY <2>2, <2>3
<1>5. CASE ServerAutoDetectResponse
  <2>1. sState = "CONNECT_TIME_AUTO_DETECT_RESPONSE"
    BY <1>5 DEF ServerAutoDetectResponse, ServerIn
  <2>2. \/ PeerReject(sPdu)
        \/ PeerRecv(sPdu, "LICENSING", <<>>, TRUE) /\ sPdu' = NoPdu
        \/ PeerRecv(sPdu, sState, <<>>, TRUE) /\ sPdu' = NoPdu
    BY <1>2, <1>5, QuietStays DEF ServerAutoDetectResponse, PeerRecv, ServerContinue, ServerSuccess
  <2> QED
    BY <1>2, <1>3, <2>1, <2>2, ServerStopped, ServerReads, QuietStays DEF FirstServer
<1> QED
  BY <1>4, <1>5

LEMMA ServerLicenses ==
    ASSUME NEW m \in {0, 1}, NEW ss \in Marks, NEW sc \in Marks, NEW sa \in Marks,
           FirstServer(m, ss, sc, sa), ServerLicensing
    PROVE  ServerAfter(m, sa, ss)
<1>1. m = 0 /\ ss = 0 /\ sc = 0 /\ sa = 0 /\ sState = "LICENSING"
  BY DEF FirstServer, ServerMarks, ServerLicensing, ServerIn
<1>2. sPdu.type \notin PhaseTypes
  BY <1>1 DEF FirstServer, Move
<1>3. /\ ServerMarks(m, "MULTITRANSPORT_BOOTSTRAPPING_REQUEST", ss, sa)
      /\ ServerMarks(m, "LICENSING", ss, sa)
  BY <1>1 DEF ServerMarks, LicensingOrEarlier
<1>4. CASE sLicense = "INITIAL"
  <2>1. Quiet(<<Pdu("LicenseRequest")>>) /\ Quiet(<<ErrorAlert("VALID_CLIENT")>>)
    <3>1. ErrorAlert("VALID_CLIENT").type \notin PhaseTypes
      BY DEF ErrorAlert, PhaseTypes
    <3> QED
      BY <3>1, QuietTypes, QuietShort DEF PhaseTypes
  <2>2. CASE sSettings.licenseRequired
    <3>1. sState' = "LICENSING" /\ sPdu' = NoPdu /\ sOut' = sOut \o <<Pdu("LicenseRequest")>>
      BY <1>4, <2>2 DEF ServerLicensing, ServerSend, ServerSuccess
    <3> QED
      BY <1>3, <2>1, <3>1, ServerQuiet DEF FirstServer
  <2>3. CASE ~sSettings.licenseRequired
    <3>1. /\ sState' = "MULTITRANSPORT_BOOTSTRAPPING_REQUEST" /\ sPdu' = sPdu
          /\ sOut' = sOut \o <<ErrorAlert("VALID_CLIENT")>>
      BY <1>4, <2>3 DEF ServerLicensing, ServerSend, ServerRerun
    <3> QED
      BY <1>1, <1>3, <2>1, <3>1, ServerLeaves DEF FirstServer
  <2> QED
    BY <2>2, <2>3
<1>5. CASE sLicense = "COMPLETED"
  <2>1. sState' = "MULTITRANSPORT_BOOTSTRAPPING_REQUEST" /\ sPdu' = sPdu /\ sOut' = sOut \o <<>>
    BY <1>5 DEF ServerLicensing, ServerTransition, ServerSend, ServerRerun
  <2> QED
    BY <1>1, <1>3, <2>1, QuietShort, ServerLeaves DEF FirstServer
<1>6. CASE sLicense \notin {"INITIAL", "COMPLETED"}
  <2>1. \/ PeerReject(sPdu) \/ ServerReject
        \/ PeerRecv(sPdu, "MULTITRANSPORT_BOOTSTRAPPING_REQUEST", <<>>, TRUE) /\ sPdu' = NoPdu
        \/ PeerRecv(sPdu, "LICENSING", <<>>, TRUE) /\ sPdu' = NoPdu
    BY <1>1, <1>6, PeerReturnsRead DEF ServerLicensing, PeerRecv
  <2> QED
    BY <1>2, <1>3, <2>1, ServerStopped, ServerReads, QuietStays DEF FirstServer
<1> QED
  BY <1>4, <1>5, <1>6

LEMMA ServerBootstraps ==
    ASSUME NEW m \in {0, 1}, NEW ss \in Marks, NEW sc \in Marks, NEW sa \in Marks,
           FirstServer(m, ss, sc, sa), ServerMultitransportResponse
    PROVE  ServerAfter(m, sa, ss)
<1>1. m = 1 /\ ss = 1 /\ sc = 0 /\ sState = "MULTITRANSPORT_BOOTSTRAPPING_RESPONSE"
  BY DEF FirstServer, ServerMarks, ServerMultitransportResponse, ServerPlainRecv, ServerIn,
         LicensingOrEarlier, McsStates
<1>2. \/ sPdu.type \notin PhaseTypes /\ sa = 0
      \/ sPdu.type = "MultitransportResponse" /\ sa = 1
  BY <1>1 DEF FirstServer, Move
<1>3. \/ PeerReject(sPdu)
      \/ PeerRecv(sPdu, PeerStateAfter(sPdu), <<>>, TRUE) /\ sPdu' = NoPdu
  BY PeerReturnsRead DEF ServerMultitransportResponse, ServerPlainRecv, PeerRecv
<1>4. ServerMarks(m, PeerStateAfter(sPdu), ss, sa)
  BY <1>1, <1>2, QuietStays DEF ServerMarks, PeerStateAfter
<1>5. sPdu.type \notin {"ConfirmActive", "FontList"}
  BY <1>2 DEF PhaseTypes
<1> QED
  BY <1>3, <1>4, <1>5, ServerStopped, ServerReads DEF FirstServer

LEMMA ServerDemands ==
    ASSUME NEW m \in {0, 1}, NEW ss \in Marks, NEW sc \in Marks, NEW sa \in Marks,
           FirstServer(m, ss, sc, sa), ServerDemandActive
    PROVE  ServerAfter(m, sa, ss)
<1>1. ss = m /\ sc = m /\ 2 \in Marks
  BY DEF FirstServer, ServerMarks, ServerDemandActive, ServerIn, LicensingOrEarlier, McsStates, Marks
<1>2. /\ sState' = "CAPABILITIES_EXCHANGE_MONITOR_LAYOUT" /\ sPdu' = sPdu
      /\ sOut' = sOut \o <<Pdu("DemandActive")>>
  BY DEF ServerDemandActive, ServerTransition, ServerSend, ServerRerun
<1>3. Move("toClient", m, "DemandActive", ss, 2)
  BY <1>1 DEF Move
<1>4. Leads("toClient", m, sOut, ss, sOut', 2)
  BY <1>1, <1>2, <1>3, LeadsOne DEF FirstServer
<1>5. ServerMarks(m, sState', 2, sc)
  BY <1>1, <1>2 DEF ServerMarks
<1> QED
  BY <1>1, <1>2, <1>4, <1>5 DEF ServerAfter, FirstServer

LEMMA ServerSendsLayout ==
    ASSUME NEW m \in {0, 1}, NEW ss \in Marks, NEW sc \in Marks, NEW sa \in Marks,
           FirstServer(m, ss, sc, sa), ServerMonitorLayout
    PROVE  ServerAfter(m, sa, ss)
<1>1. ss = 2 /\ sc = m
  BY DEF FirstServer, ServerMarks, ServerMonitorLayout, ServerIn, LicensingOrEarlier, McsStates
<1>2. sState' = "CAPABILITIES_EXCHANGE_CONFIRM_ACTIVE" /\ sPdu' = sPdu
  BY DEF ServerMonitorLayout, ServerTransition, ServerSuccess, ServerRerun
<1>3. Quiet(<<Pdu("MonitorLayout")>>) /\ Quiet(<<>>)
  BY QuietTypes, QuietShort DEF PhaseTypes
<1>4. \E pdus : Quiet(pdus) /\ sOut' = sOut \o pdus
  BY <1>3 DEF ServerMonitorLayout, ServerTransition, ServerSend
<1>5. ServerMarks(m, sState', ss, sc)
  BY <1>1, <1>2 DEF ServerMarks
<1> QED
  BY <1>2, <1>4, <1>5, ServerLeaves DEF FirstServer

LEMMA ServerIsConfirmed ==
    ASSUME NEW m \in {0, 1}, NEW ss \in Marks, NEW sc \in Marks, NEW sa \in Marks,
           FirstServer(m, ss, sc, sa), ServerConfirmActive
    PROVE  ServerAfter(m, sa, ss)
<1>1. ss = 2 /\ sc = m /\ sState = "CAPABILITIES_EXCHANGE_CONFIRM_ACTIVE"
  BY DEF FirstServer, ServerMarks, ServerConfirmActive, ServerPlainRecv, ServerIn,
         LicensingOrEarlier, McsStates
<1>2. (sPdu.type \notin PhaseTypes /\ sa = m) \/ (sPdu.type = "ConfirmActive" /\ sa = 2)
  BY <1>1 DEF FirstServer, Move
<1>3. \/ PeerReject(sPdu)
      \/ PeerRecv(sPdu, PeerStateAfter(sPdu), <<>>, TRUE) /\ sPdu' = NoPdu
  BY PeerReturnsRead DEF ServerConfirmActive, ServerPlainRecv, PeerRecv
<1>4. CASE PeerReject(sPdu)
  BY <1>4, ServerStopped DEF FirstServer
<1>5. CASE ~PeerReject(sPdu) /\ sPdu.type \notin PhaseTypes
  <2>1. ServerMarks(m, PeerStateAfter(sPdu), ss, sa)
    BY <1>1, <1>2, <1>5, QuietStays DEF ServerMarks, PhaseTypes
  <2> QED
    BY <1>3, <1>5, <2>1, ServerReads, QuietStays DEF FirstServer
<1>6. CASE ~PeerReject(sPdu) /\ sPdu.type = "ConfirmActive"
  <2> DEFINE p == Pdu("Synchronize")
             q == Pdu("ControlCooperate")
  <2>1. p.type = "Synchronize" /\ q.type = "ControlCooperate"
    BY DEF Pdu
  <2>2. sState' = "FINALIZATION_SYNC" /\ sPdu' = NoPdu /\ sOut' = sOut \o (<<p, q>> \o <<>>)
    BY <1>3, <1>6 DEF PeerRecv, PeerStateAfter, PeerReply, ServerSend
  <2> HIDE DEF p, q
  <2>3. 2 \in Marks /\ 3 \in Marks /\ 4 \in Marks
    BY DEF Marks
  <2>4. Walks("toClient", m, 2, <<p>>, 3) /\ Walks("toClient", m, 3, <<q>>, 4)
    <3>1. Move("toClient", m, p.type, 2, 3) /\ Move("toClient", m, q.type, 3, 4)
      BY <2>1 DEF Move
    <3> QED
      BY <2>3, <3>1, WalkOne
  <2>5. Listed(<<p>>) /\ Listed(<<q>>) /\ Listed(<<p, q>>) /\ <<p, q>> = <<p>> \o <<q>>
    BY ShortLists
  <2>6. Walks("toClient", m, 2, <<p, q>>, 4)
    BY <2>4, <2>5, WalkConcat
  <2>7. <<p, q>> \o <<>> = <<p, q>>
    BY <2>5, NothingSent
  <2>8. Leads("toClient", m, sOut, ss, sOut', 4)
    BY <1>1, <2>2, <2>5, <2>6, <2>7, LeadsOn DEF FirstServer
  <2>9. ServerMarks(m, sState', 4, sa)
    BY <1>2, <1>6, <2>2 DEF ServerMarks, PhaseTypes
  <2> QED
    BY <2>2, <2>3, <2>8, <2>9, StillMove DEF ServerAfter
<1> QED
  BY <1>2, <1>4, <1>5, <1>6

\* In each of them only the awaited PDU is acted upon.
LEMMA ServerExpects ==
    ASSUME NEW m \in {0, 1}, NEW ss \in Marks, NEW sc \in Marks, NEW sa \in Marks,
           FirstServer(m, ss, sc, sa),
           NEW state, NEW flag, NEW next, NEW pdus, NEW expected,
           ServerFinalize(state, flag, pdus, next),
           Awaits(state, flag, expected)
    PROVE  (sa = sc + 1 /\ Acts(flag, pdus, next, expected)) \/ (sa = sc /\ Ignores(state))
<1>1. sState = state
  BY DEF ServerFinalize, ServerIn
<1>2. /\ (sPdu.type \notin PhaseTypes /\ sa = sc) \/ (sPdu.type = expected /\ sa = sc + 1)
      /\ expected \in PhaseTypes
  BY <1>1 DEF FirstServer, ServerMarks, Move, LicensingOrEarlier, McsStates, PhaseTypes, Awaits
<1>3. flag \notin sFinalize
  BY <1>1 DEF FirstServer, ServerFlagsRight, ClientFlags, Awaits
<1>4. CASE sPdu.type = expected
  <2>1. ~PeerRecvFails(sPdu)
    BY <1>1, <1>4 DEF PeerRecvFails, FirstServer, ServerFlagsRight, ClientFlags, ClientDataTypes,
                      ClientMessageTypes, ClientLicenseTypes, LicensingOrEarlier, McsStates,
                      Awaits
  <2>2. PeerFinalizeAfter(sPdu) = sFinalize \cup {flag}
    BY <1>4 DEF PeerFinalizeAfter, CsFlag, Awaits
  <2>3. PeerRecv(sPdu, next, pdus, TRUE) /\ sPdu' = NoPdu
    BY <2>1, <2>2, PeerReturnsRead DEF ServerFinalize, PeerRecv
  <2> QED
    BY <1>2, <1>4, <2>2, <2>3 DEF PeerRecv, Acts
<1>5. CASE sPdu.type # expected
  <2>1. sPdu.type \notin PhaseTypes /\ sa = sc
    BY <1>2, <1>5
  <2>2. PeerFinalizeAfter(sPdu) = sFinalize /\ PeerStateAfter(sPdu) = sState
    BY <2>1, QuietStays
  <2>3. CASE PeerRecvFails(sPdu)
    <3>1. PeerFails(sPdu, sState, <<>>, TRUE) /\ ServerSuccess
      BY <1>3, <2>3 DEF ServerFinalize, PeerFails
    <3>2. \E sent : Quiet(sent) /\ sOut' = sOut \o sent
      BY <3>1, FailsQuietly DEF FirstServer
    <3> QED
      BY <1>1, <2>1, <3>1, <3>2 DEF PeerFails, ServerSuccess, Ignores
  <2>4. CASE ~PeerRecvFails(sPdu)
    <3>1. PeerRecv(sPdu, state, <<>>, TRUE) /\ sPdu' = NoPdu
      BY <1>1, <1>3, <2>2, <2>4 DEF ServerFinalize, PeerRecv, ServerSuccess
    <3>2. Quiet(PeerReply(sPdu) \o <<>>)
      BY <2>1, QuietStays, QuietReply, QuietShort, QuietConcat
    <3> QED
      BY <1>1, <2>1, <2>2, <3>1, <3>2 DEF PeerRecv, ServerSend, Ignores
  <2> QED
    BY <2>3, <2>4
<1> QED
  BY <1>4, <1>5

LEMMA ServerFinalizes ==
    ASSUME NEW m \in {0, 1}, NEW ss \in Marks, NEW sc \in Marks, NEW sa \in Marks,
           FirstServer(m, ss, sc, sa),
           ServerFinalizeSync \/ ServerFinalizeCooperate \/ ServerFinalizeRequestControl
    PROVE  ServerAfter(m, sa, ss) /\ ServerFlagsRight'
<1>1. CASE ServerFinalizeSync
  <2>1. ss = 4 /\ sc = 2 /\ sState = "FINALIZATION_SYNC"
    BY <1>1 DEF FirstServer, ServerMarks, ServerFinalizeSync, ServerFinalize, ServerIn,
                LicensingOrEarlier, McsStates
  <2>2. sFinalize \cap ClientFlags = {} /\ ~sActivated
    BY <2>1 DEF FirstServer, ServerFlagsRight
  <2>3. \/ sa = 3 /\ Acts("CS_SYNCHRONIZE", <<>>, "FINALIZATION_COOPERATE", "Synchronize")
        \/ sa = 2 /\ Ignores("FINALIZATION_SYNC")
    <3>1. ServerFinalize("FINALIZATION_SYNC", "CS_SYNCHRONIZE", <<>>, "FINALIZATION_COOPERATE")
      BY <1>1 DEF ServerFinalizeSync
    <3>2. \/ sa = sc + 1 /\ Acts("CS_SYNCHRONIZE", <<>>, "FINALIZATION_COOPERATE", "Synchronize")
          \/ sa = sc /\ Ignores("FINALIZATION_SYNC")
      <4>1. Awaits("FINALIZATION_SYNC", "CS_SYNCHRONIZE", "Synchronize")
        BY DEF Awaits
      <4> QED
        BY <3>1, <4>1, ServerExpects, Zenon
    <3>3. sc = 2 /\ sc + 1 = 3
      BY <2>1
    <3> QED
      BY <3>2, <3>3, Zenon
  <2>4. CASE sa = 3 /\ Acts("CS_SYNCHRONIZE", <<>>, "FINALIZATION_COOPERATE", "Synchronize")
    <3>1. ServerMarks(m, "FINALIZATION_COOPERATE", ss, sa)
      BY <2>1, <2>4 DEF ServerMarks, Acts
    <3>2. ServerAfter(m, sa, ss)
      BY <2>4, <3>1, ServerReads DEF FirstServer, Acts
    <3>3. sState' = "FINALIZATION_COOPERATE" /\ ~sActivated'
      BY <2>1, <2>2, <2>4 DEF PeerRecv, ActivatedAfterLeaving, Acts
    <3>4. sFinalize' \cap ClientFlags = {"CS_SYNCHRONIZE"}
      BY <2>2, <2>4 DEF ClientFlags, Acts
    <3> QED
      BY <2>4, <3>2, <3>3, <3>4 DEF ServerFlagsRight, Acts
  <2>5. CASE sa = 2 /\ Ignores("FINALIZATION_SYNC")
    <3>1. ServerMarks(m, sState', ss, sa)
      BY <2>1, <2>5 DEF ServerMarks, Ignores
    <3>2. ServerAfter(m, sa, ss)
      BY <2>5, <3>1, ServerQuiet DEF FirstServer, Ignores
    <3>3. ServerFlagsRight'
      BY <2>2, <2>5 DEF ServerFlagsRight, Ignores
    <3> QED
      BY <3>2, <3>3
  <2> QED
    BY <2>3, <2>4, <2>5
<1>2. CASE ServerFinalizeCooperate
  <2>1. ss = 4 /\ sc = 3 /\ sState = "FINALIZATION_COOPERATE"
    BY <1>2 DEF FirstServer, ServerMarks, ServerFinalizeCooperate, ServerFinalize, ServerIn,
                LicensingOrEarlier, McsStates
  <2>2. sFinalize \cap ClientFlags = {"CS_SYNCHRONIZE"} /\ ~sActivated
    BY <2>1 DEF FirstServer, ServerFlagsRight
  <2>3. \/ sa = 4 /\ Acts("CS_CONTROL_COOPERATE", <<>>, "FINALIZATION_REQUEST_CONTROL",
                          "ControlCooperate")
        \/ sa = 3 /\ Ignores("FINALIZATION_COOPERATE")
    <3>1. ServerFinalize("FINALIZATION_COOPERATE", "CS_CONTROL_COOPERATE", <<>>,
                         "FINALIZATION_REQUEST_CONTROL")
      BY <1>2 DEF ServerFinalizeCooperate
    <3>2. \/ sa = sc + 1 /\ Acts("CS_CONTROL_COOPERATE", <<>>, "FINALIZATION_REQUEST_CONTROL",
                                 "ControlCooperate")
          \/ sa = sc /\ Ignores("FINALIZATION_COOPERATE")
      <4>1. Awaits("FINALIZATION_COOPERATE", "CS_CONTROL_COOPERATE", "ControlCooperate")
        BY DEF Awaits
      <4> QED
        BY <3>1, <4>1, ServerExpects, Zenon
    <3>3. sc = 3 /\ sc + 1 = 4
      BY <2>1
    <3> QED
      BY <3>2, <3>3, Zenon
  <2>4. CASE /\ sa = 4
             /\ Acts("CS_CONTROL_COOPERATE", <<>>, "FINALIZATION_REQUEST_CONTROL",
                     "ControlCooperate")
    <3>1. ServerMarks(m, "FINALIZATION_REQUEST_CONTROL", ss, sa)
      BY <2>1, <2>4 DEF ServerMarks, Acts
    <3>2. ServerAfter(m, sa, ss)
      BY <2>4, <3>1, ServerReads DEF FirstServer, Acts
    <3>3. sState' = "FINALIZATION_REQUEST_CONTROL" /\ ~sActivated'
      BY <2>1, <2>2, <2>4 DEF PeerRecv, ActivatedAfterLeaving, Acts
    <3>4. sFinalize' \cap ClientFlags = {"CS_SYNCHRONIZE", "CS_CONTROL_COOPERATE"}
      BY <2>2, <2>4 DEF ClientFlags, Acts
    <3> QED
      BY <2>4, <3>2, <3>3, <3>4 DEF ServerFlagsRight, Acts
  <2>5. CASE sa = 3 /\ Ignores("FINALIZATION_COOPERATE")
    <3>1. ServerMarks(m, sState', ss, sa)
      BY <2>1, <2>5 DEF ServerMarks, Ignores
    <3>2. ServerAfter(m, sa, ss)
      BY <2>5, <3>1, ServerQuiet DEF FirstServer, Ignores
    <3>3. ServerFlagsRight'
      BY <2>2, <2>5 DEF ServerFlagsRight, Ignores
    <3> QED
      BY <3>2, <3>3
  <2> QED
    BY <2>3, <2>4, <2>5
<1>3. CASE ServerFinalizeRequestControl
  <2>1. ss = 4 /\ sc = 4 /\ sState = "FINALIZATION_REQUEST_CONTROL" /\ 5 \in Marks
    BY <1>3 DEF FirstServer, ServerMarks, ServerFinalizeRequestControl, ServerFinalize, ServerIn,
                LicensingOrEarlier, McsStates, Marks
  <2>2. sFinalize \cap ClientFlags = {"CS_SYNCHRONIZE", "CS_CONTROL_COOPERATE"} /\ ~sActivated
    BY <2>1 DEF FirstServer, ServerFlagsRight
  <2>0. PICK granted : granted = <<Pdu("ControlGranted")>>
    OBVIOUS
  <2>3. \/ sa = 5 /\ Acts("CS_CONTROL_REQUEST", granted, "FINALIZATION_PERSISTENT_KEY_LIST",
                          "ControlRequest")
        \/ sa = 4 /\ Ignores("FINALIZATION_REQUEST_CONTROL")
    <3>1. ServerFinalize("FINALIZATION_REQUEST_CONTROL", "CS_CONTROL_REQUEST", granted,
                         "FINALIZATION_PERSISTENT_KEY_LIST")
      BY <1>3, <2>0 DEF ServerFinalizeRequestControl
    <3>2. \/ sa = sc + 1 /\ Acts("CS_CONTROL_REQUEST", granted, "FINALIZATION_PERSISTENT_KEY_LIST",
                                 "ControlRequest")
          \/ sa = sc /\ Ignores("FINALIZATION_REQUEST_CONTROL")
      <4>1. Awaits("FINALIZATION_REQUEST_CONTROL", "CS_CONTROL_REQUEST", "ControlRequest")
        BY DEF Awaits
      <4> QED
        BY <3>1, <4>1, ServerExpects, Zenon
    <3>3. sc = 4 /\ sc + 1 = 5
      BY <2>1
    <3> QED
      BY <3>2, <3>3, Zenon
  <2>4. CASE /\ sa = 5
             /\ Acts("CS_CONTROL_REQUEST", granted, "FINALIZATION_PERSISTENT_KEY_LIST",
                     "ControlRequest")
    <3>1. PeerReply(sPdu) = <<>>
      BY <2>4 DEF PeerReply, Acts
    <3>2. sOut' = sOut \o (<<>> \o granted)
      BY <2>4, <3>1 DEF PeerRecv, ServerSend, Acts
    <3>3. <<>> \o granted = granted
      BY <2>0
    <3>4. Leads("toClient", m, sOut, 4, sOut \o granted, 5)
      <4>1. Move("toClient", m, "ControlGranted", 4, 5) /\ 4 \in Marks
        BY DEF Move, Marks
      <4> QED
        BY <2>0, <2>1, <4>1, LeadsOne DEF FirstServer
    <3>5. sState' = "FINALIZATION_PERSISTENT_KEY_LIST" /\ ~sActivated'
      BY <2>1, <2>2, <2>4 DEF PeerRecv, ActivatedAfterLeaving, Acts
    <3>6. ServerMarks(m, sState', 5, sa)
      BY <2>4, <3>5 DEF ServerMarks, Acts
    <3>7. ServerAfter(m, sa, ss)
      BY <2>1, <2>4, <3>2, <3>3, <3>4, <3>6, StillMove DEF ServerAfter, Acts
    <3>8. sFinalize' \cap ClientFlags =
              {"CS_SYNCHRONIZE", "CS_CONTROL_COOPERATE", "CS_CONTROL_REQUEST"}
      BY <2>2, <2>4 DEF ClientFlags, Acts
    <3> QED
      BY <2>4, <3>5, <3>7, <3>8 DEF ServerFlagsRight, Acts
  <2>5. CASE sa = 4 /\ Ignores("FINALIZATION_REQUEST_CONTROL")
    <3>1. ServerMarks(m, sState', ss, sa)
      BY <2>1, <2>5 DEF ServerMarks, Ignores
    <3>2. ServerAfter(m, sa, ss)
      BY <2>5, <3>1, ServerQuiet DEF FirstServer, Ignores
    <3>3. ServerFlagsRight'
      BY <2>2, <2>5 DEF ServerFlagsRight, Ignores
    <3> QED
      BY <3>2, <3>3
  <2> QED
    BY <2>3, <2>4, <2>5
<1> QED
  BY <1>1, <1>2, <1>3

\* The Font List ends the handshake: the Font Map is sent.
LEMMA ServerTakesFontList ==
    ASSUME NEW m \in {0, 1}, Listed(sOut),
           sPdu.type = "FontList", PeerRecv(sPdu, "ACTIVE", <<>>, TRUE), sPdu' = NoPdu
    PROVE  ServerAfter(m, 6, 5)
<1>1. PICK map : map = <<Pdu("FontMap")>>
  OBVIOUS
<1>2. PeerReply(sPdu) = map
  BY <1>1 DEF PeerReply
<1>3. sState' = "ACTIVE" /\ sOut' = sOut \o (map \o <<>>)
  BY <1>2 DEF PeerRecv, ServerSend
<1>4. map \o <<>> = map
  BY <1>1
<1>5. 5 \in Marks /\ 6 \in Marks /\ Move("toClient", m, "FontMap", 5, 6)
  BY DEF Marks, Move
<1>6. Leads("toClient", m, sOut, 5, sOut \o map, 6)
  BY <1>1, <1>5, LeadsOne
<1>7. ServerMarks(m, sState', 6, 6)
  BY <1>3 DEF ServerMarks
<1> QED
  BY <1>3, <1>4, <1>5, <1>6, <1>7, StillMove DEF ServerAfter

\* What remains of the handshake: only a persistent key list, a font list and PDUs that are not of
\* the handshake can be on the stream.
LEMMA ServerAwaitsLists ==
    ASSUME NEW m \in {0, 1}, NEW ss \in Marks, NEW sc \in Marks, NEW sa \in Marks,
           FirstServer(m, ss, sc, sa),
           sState \in {"FINALIZATION_PERSISTENT_KEY_LIST", "FINALIZATION_FONT_LIST"}
    PROVE  /\ ss = 5 /\ sc = 5 /\ ~sActivated /\ "CS_FONT_LIST" \notin sFinalize
           /\ \/ sPdu.type \notin PhaseTypes /\ sa = 5
              \/ sPdu.type = "PersistentKeyList" /\ sa = 5 /\ ~PeerRecvFails(sPdu)
              \/ sPdu.type = "FontList" /\ sa = 6 /\ ~PeerRecvFails(sPdu)
<1>1. ss = 5 /\ sc = 5
  BY DEF FirstServer, ServerMarks, LicensingOrEarlier, McsStates
<1>2. ~sActivated
  BY DEF FirstServer, ServerFlagsRight
<1>3. "CS_FONT_LIST" \notin sFinalize
  BY DEF FirstServer, ServerFlagsRight, ClientFlags
<1>4. \/ sPdu.type \notin PhaseTypes /\ sa = 5
      \/ sPdu.type = "PersistentKeyList" /\ sa = 5
      \/ sPdu.type = "FontList" /\ sa = 6
  BY <1>1 DEF FirstServer, Move
<1>5. sPdu.type \in {"PersistentKeyList", "FontList"} => ~PeerRecvFails(sPdu)
  BY DEF PeerRecvFails, ClientDataTypes, ClientMessageTypes, ClientLicenseTypes,
         LicensingOrEarlier, McsStates
<1> QED
  BY <1>1, <1>2, <1>3, <1>4, <1>5

LEMMA ServerAwaitsKeyList ==
    ASSUME NEW m \in {0, 1}, NEW ss \in Marks, NEW sc \in Marks, NEW sa \in Marks,
           FirstServer(m, ss, sc, sa), ServerFinalizeKeyList
    PROVE  ServerAfter(m, sa, ss) /\ ServerFlagsRight'
<1>1. sState = "FINALIZATION_PERSISTENT_KEY_LIST" /\ sRun = "run"
  BY DEF ServerFinalizeKeyList, ServerFinalize, ServerIn
<1>2. /\ ss = 5 /\ sc = 5 /\ ~sActivated /\ "CS_FONT_LIST" \notin sFinalize
      /\ \/ sPdu.type \notin PhaseTypes /\ sa = 5
         \/ sPdu.type = "PersistentKeyList" /\ sa = 5 /\ ~PeerRecvFails(sPdu)
         \/ sPdu.type = "FontList" /\ sa = 6 /\ ~PeerRecvFails(sPdu)
  BY <1>1, ServerAwaitsLists
<1>3. "CS_PERSISTENT_KEY_LIST" \notin sFinalize
  BY <1>1 DEF FirstServer, ServerFlagsRight, ClientFlags
<1>4. /\ ServerMarks(m, "FINALIZATION_FONT_LIST", 5, 5)
      /\ ServerMarks(m, "FINALIZATION_PERSISTENT_KEY_LIST", 5, 5)
  BY DEF ServerMarks
<1>5. CASE ~AwaitsKeyList
  <2>1. /\ sState' = "FINALIZATION_FONT_LIST" /\ sPdu' = sPdu /\ sRun' = "run"
        /\ sFinalize' = sFinalize /\ sOut' = sOut \o <<>> /\ ~sActivated'
    BY <1>1, <1>2, <1>5 DEF ServerFinalizeKeyList, ServerTransition, ServerRerun, ServerSend,
                            ActivatedAfterLeaving
  <2>2. ServerAfter(m, sa, ss)
    BY <1>2, <1>4, <2>1, QuietShort, ServerLeaves DEF FirstServer
  <2>3. ServerFlagsRight'
    BY <1>2, <2>1 DEF ServerFlagsRight
  <2> QED
    BY <2>2, <2>3
<1>6. CASE AwaitsKeyList /\ sPdu.type = "PersistentKeyList"
  <2>1. PeerFinalizeAfter(sPdu) = sFinalize \cup {"CS_PERSISTENT_KEY_LIST"}
    BY <1>6 DEF PeerFinalizeAfter, CsFlag
  <2>2. PeerRecv(sPdu, "FINALIZATION_FONT_LIST", <<>>, TRUE) /\ sPdu' = NoPdu
    BY <1>2, <1>6, <2>1, PeerReturnsRead DEF ServerFinalizeKeyList, ServerFinalize, PeerRecv,
                                              PhaseTypes
  <2>3. sa = 5
    BY <1>2, <1>6
  <2>4. ServerAfter(m, sa, ss)
    BY <1>2, <1>4, <1>6, <2>2, <2>3, ServerReads DEF FirstServer
  <2>5. /\ sState' = "FINALIZATION_FONT_LIST" /\ ~sActivated'
        /\ sFinalize' = sFinalize \cup {"CS_PERSISTENT_KEY_LIST"}
    BY <1>1, <1>2, <2>1, <2>2 DEF PeerRecv, ActivatedAfterLeaving
  <2>6. ServerFlagsRight'
    BY <1>2, <2>2, <2>5 DEF ServerFlagsRight
  <2> QED
    BY <2>4, <2>6
<1>7. CASE AwaitsKeyList /\ sPdu.type = "FontList"
  <2>1. "CS_PERSISTENT_KEY_LIST" \notin PeerFinalizeAfter(sPdu) /\ PeerStateAfter(sPdu) = "ACTIVE"
    BY <1>3, <1>7 DEF PeerFinalizeAfter, CsFlag, PeerStateAfter
  <2>2. PeerRecv(sPdu, "ACTIVE", <<>>, TRUE) /\ sPdu' = NoPdu
    BY <1>2, <1>7, <2>1 DEF ServerFinalizeKeyList, ServerFinalize, PeerRecv, ServerSuccess, PhaseTypes
  <2>3. sa = 6
    BY <1>2, <1>7 DEF PhaseTypes
  <2>4. ServerAfter(m, sa, ss)
    BY <1>2, <1>7, <2>2, <2>3, ServerTakesFontList DEF FirstServer
  <2>5. sState' = "ACTIVE"
    BY <2>2 DEF PeerRecv
  <2>6. ServerFlagsRight'
    BY <2>2, <2>5 DEF ServerFlagsRight
  <2> QED
    BY <2>4, <2>6
<1>8. CASE AwaitsKeyList /\ sPdu.type \notin PhaseTypes
  <2>1. PeerFinalizeAfter(sPdu) = sFinalize /\ PeerStateAfter(sPdu) = sState
    BY <1>8, QuietStays
  <2>2. \/ PeerFails(sPdu, sState, <<>>, TRUE) /\ ServerSuccess
        \/ PeerRecv(sPdu, "FINALIZATION_PERSISTENT_KEY_LIST", <<>>, TRUE) /\ sPdu' = NoPdu
    BY <1>1, <1>3, <1>8, <2>1 DEF ServerFinalizeKeyList, ServerFinalize, PeerRecv, PeerFails,
                                  ServerSuccess
  <2>3. /\ sState' = "FINALIZATION_PERSISTENT_KEY_LIST" /\ sPdu' = NoPdu /\ sFinalize' = sFinalize
        /\ ~sActivated'
    BY <1>1, <1>2, <2>1, <2>2 DEF PeerFails, ServerSuccess, PeerRecv
  <2>4. ServerFlagsRight'
    BY <1>1, <2>3 DEF ServerFlagsRight, FirstServer
  <2>5. sa = 5
    BY <1>2, <1>8 DEF PhaseTypes
  <2>6. CASE PeerFails(sPdu, sState, <<>>, TRUE)
    <3>1. \E sent : Quiet(sent) /\ sOut' = sOut \o sent
      BY <2>6, FailsQuietly DEF FirstServer
    <3> QED
      BY <1>2, <1>4, <2>3, <2>4, <2>5, <3>1, ServerQuiet DEF FirstServer
  <2>7. CASE PeerRecv(sPdu, "FINALIZATION_PERSISTENT_KEY_LIST", <<>>, TRUE) /\ sPdu' = NoPdu
    <3>1. ServerAfter(m, sa, ss)
      BY <1>2, <1>4, <1>8, <2>5, <2>7, QuietStays, ServerReads DEF FirstServer
    <3> QED
      BY <2>4, <3>1
  <2> QED
    BY <2>2, <2>6, <2>7
<1> QED
  BY <1>2, <1>5, <1>6, <1>7, <1>8

LEMMA ServerAwaitsFontList ==
    ASSUME NEW m \in {0, 1}, NEW ss \in Marks, NEW sc \in Marks, NEW sa \in Marks,
           FirstServer(m, ss, sc, sa), ServerFinalizeFontList
    PROVE  ServerAfter(m, sa, ss) /\ ServerFlagsRight'
<1>1. sState = "FINALIZATION_FONT_LIST" /\ sRun = "run"
  BY DEF ServerFinalizeFontList, ServerIn
<1>2. /\ ss = 5 /\ sc = 5 /\ ~sActivated /\ "CS_FONT_LIST" \notin sFinalize
      /\ \/ sPdu.type \notin PhaseTypes /\ sa = 5
         \/ sPdu.type = "PersistentKeyList" /\ sa = 5 /\ ~PeerRecvFails(sPdu)
         \/ sPdu.type = "FontList" /\ sa = 6 /\ ~PeerRecvFails(sPdu)
  BY <1>1, ServerAwaitsLists
<1>3. ServerMarks(m, "FINALIZATION_FONT_LIST", 5, 5)
  BY DEF ServerMarks
<1>4. CASE PeerReject(sPdu)
  <2>1. ServerFlagsRight'
    BY <1>1, <1>2, <1>4 DEF ServerFlagsRight, PeerReject, PeerFails, ServerFail
  <2> QED
    BY <1>4, <2>1, ServerStopped DEF FirstServer
<1>5. CASE sPdu.type = "FontList"
  <2>1. "CS_FONT_LIST" \in PeerFinalizeAfter(sPdu)
    BY <1>5 DEF PeerFinalizeAfter, CsFlag
  <2>2. PeerRecv(sPdu, "ACTIVE", <<>>, TRUE) /\ sPdu' = NoPdu
    BY <1>2, <1>5, <2>1 DEF ServerFinalizeFontList, PeerRecv, ServerContinue, PhaseTypes
  <2>3. sa = 6
    BY <1>2, <1>5 DEF PhaseTypes
  <2>4. ServerAfter(m, sa, ss)
    BY <1>2, <1>5, <2>2, <2>3, ServerTakesFontList DEF FirstServer
  <2>5. sState' = "ACTIVE"
    BY <2>2 DEF PeerRecv
  <2>6. ServerFlagsRight'
    BY <2>2, <2>5 DEF ServerFlagsRight
  <2> QED
    BY <2>4, <2>6
<1>6. CASE ~PeerReject(sPdu) /\ sPdu.type # "FontList"
  <2>1. sPdu.type \notin {"ConfirmActive", "FontList"} /\ sa = 5
    BY <1>2, <1>6 DEF PhaseTypes
  <2>2. PeerStateAfter(sPdu) = sState
    BY <1>2, <1>6 DEF PeerStateAfter, PhaseTypes
  <2>3. "CS_FONT_LIST" \notin PeerFinalizeAfter(sPdu)
    BY <1>2, <1>6 DEF PeerFinalizeAfter, PhaseTypes, CsFlag
  <2>4. PeerRecv(sPdu, "FINALIZATION_FONT_LIST", <<>>, TRUE) /\ sPdu' = NoPdu
    BY <1>1, <1>6, <2>2, <2>3 DEF ServerFinalizeFontList, PeerRecv, ServerQuit, ServerSuccess
  <2>5. ServerAfter(m, sa, ss)
    BY <1>2, <1>3, <2>1, <2>4, ServerReads DEF FirstServer
  <2>6. sState' = "FINALIZATION_FONT_LIST" /\ ~sActivated' /\ "CS_FONT_LIST" \notin sFinalize'
    BY <1>1, <1>2, <2>3, <2>4 DEF PeerRecv
  <2>7. ServerFlagsRight'
    BY <2>4, <2>6 DEF ServerFlagsRight
  <2> QED
    BY <2>5, <2>7
<1> QED
  BY <1>4, <1>5, <1>6

LEMMA ServerIsActive ==
    ASSUME NEW m \in {0, 1}, NEW ss \in Marks, NEW sc \in Marks, NEW sa \in Marks,
           FirstServer(m, ss, sc, sa), ServerActivate \/ ServerActive
    PROVE  ServerAfter(m, sa, ss) /\ ServerFlagsRight'
<1>1. sState = "ACTIVE"
  BY DEF ServerActivate, ServerActive, ServerPlainRecv, ServerIn
<1>2. ss = 6 /\ sc = 6
  BY <1>1 DEF FirstServer, ServerMarks, LicensingOrEarlier, McsStates
<1>3. sPdu.type \notin PhaseTypes /\ sa = 6
  BY <1>2 DEF FirstServer, Move
<1>4. ServerMarks(m, "ACTIVE", 6, 6)
  BY DEF ServerMarks
<1>5. CASE ServerActivate
  <2>1. sState' = "ACTIVE" /\ sPdu' = NoPdu /\ sOut' = sOut
    BY <1>1, <1>5 DEF ServerActivate, ServerSuccess
  <2>2. Quiet(<<>>) /\ sOut' = sOut \o <<>>
    BY <2>1, QuietShort, NothingSent DEF FirstServer
  <2>3. ServerAfter(m, sa, ss)
    BY <1>2, <1>3, <1>4, <2>1, <2>2, ServerQuiet DEF FirstServer
  <2>4. ServerFlagsRight'
    BY <2>1 DEF ServerFlagsRight
  <2> QED
    BY <2>3, <2>4
<1>6. CASE ServerActive
  <2>1. PeerReject(sPdu) \/ (PeerRecv(sPdu, "ACTIVE", <<>>, TRUE) /\ sPdu' = NoPdu)
    BY <1>1, <1>3, <1>6, PeerReturnsRead, QuietStays DEF ServerActive, ServerPlainRecv, PeerRecv
  <2>2. sState' = "ACTIVE" /\ sPdu' = NoPdu
    BY <1>1, <2>1 DEF PeerReject, PeerFails, ServerFail, PeerRecv
  <2>3. ServerFlagsRight'
    BY <2>2 DEF ServerFlagsRight
  <2>4. CASE PeerReject(sPdu)
    BY <2>3, <2>4, ServerStopped DEF FirstServer
  <2>5. CASE PeerRecv(sPdu, "ACTIVE", <<>>, TRUE) /\ sPdu' = NoPdu
    <3>1. ServerAfter(m, sa, ss)
      BY <1>2, <1>3, <1>4, <2>5, ServerReads, QuietStays DEF FirstServer
    <3> QED
      BY <2>3, <3>1
  <2> QED
    BY <2>1, <2>4, <2>5
<1> QED
  BY <1>5, <1>6

\* Before the handshake no flag matters, and a server that is not active stays so.
LEMMA ServerFlagsBefore ==
    ASSUME ServerFlagsRight,
           \/ ServerConnectInitial \/ ServerErectDomain \/ ServerAttachUser \/ ServerChannelJoin
           \/ ServerEstablishKeys \/ ServerClientInfo \/ ServerAutoDetectRequest
           \/ ServerMultitransportRequest \/ ServerDemandActive \/ ServerMonitorLayout
    PROVE  ServerFlagsRight'
<1>1. sState \notin FinalizationStates \cup {"ACTIVE"} /\ ~sActivated /\ sRun = "run"
  BY DEF ServerFlagsRight, ServerConnectInitial, ServerErectDomain, ServerAttachUser,
         ServerChannelJoin, ServerEstablishKeys, ServerClientInfo, ServerAutoDetectRequest,
         ServerMultitransportRequest, ServerDemandActive, ServerMonitorLayout, ServerIn,
         FinalizationStates
<1>2. /\ sState' \notin FinalizationStates \cup {"ACTIVE"} /\ ~sActivated'
      /\ sRun' = "idle" => sPdu' = NoPdu
  BY <1>1
     DEF ServerConnectInitial, ServerErectDomain, ServerAttachUser,
         ServerChannelJoin, ServerEstablishKeys, ServerClientInfo, ServerAutoDetectRequest,
         ServerMultitransportRequest, ServerDemandActive, ServerMonitorLayout, ServerTransition,
         ServerReject, ServerFail, ServerSuccess, ServerRerun, ServerContinue,
         ActivatedAfterLeaving, FinalizationStates
<1> QED
  BY <1>2 DEF ServerFlagsRight, FinalizationStates

LEMMA ServerFlagsReading ==
    ASSUME NEW m \in {0, 1}, NEW ss \in Marks, NEW sc \in Marks, NEW sa \in Marks,
           FirstServer(m, ss, sc, sa),
           \/ ServerAutoDetectResponse \/ ServerLicensing \/ ServerMultitransportResponse
           \/ ServerConfirmActive
    PROVE  ServerFlagsRight'
<1>1. /\ sState \in {"CONNECT_TIME_AUTO_DETECT_RESPONSE", "LICENSING",
                     "MULTITRANSPORT_BOOTSTRAPPING_RESPONSE", "CAPABILITIES_EXCHANGE_CONFIRM_ACTIVE"}
      /\ sRun = "run"
  BY DEF ServerAutoDetectResponse, ServerLicensing, ServerMultitransportResponse,
         ServerConfirmActive, ServerPlainRecv, ServerIn
<1>2. ~sActivated
  BY <1>1 DEF FirstServer, ServerFlagsRight
<1>3. sPdu.type # "FontList"
  <2>1. sc \in {0, 1}
    BY <1>1 DEF FirstServer, ServerMarks, LicensingOrEarlier, McsStates
  <2> QED
    BY <2>1 DEF FirstServer, Move, PhaseTypes
<1>4. PeerStateAfter(sPdu) \in {sState, "CAPABILITIES_EXCHANGE_DEMAND_ACTIVE", "FINALIZATION_SYNC"}
  BY <1>3 DEF PeerStateAfter
<1>5. PeerStateAfter(sPdu) = "FINALIZATION_SYNC" =>
          PeerFinalizeAfter(sPdu) = sFinalize \cap {"DEACTIVATE_REACTIVATE"}
  <2>1. PeerStateAfter(sPdu) = "FINALIZATION_SYNC" => sPdu.type = "ConfirmActive"
    BY <1>1, <1>3 DEF PeerStateAfter
  <2>2. sPdu.type = "ConfirmActive" =>
            PeerFinalizeAfter(sPdu) = sFinalize \cap {"DEACTIVATE_REACTIVATE"}
    BY DEF PeerFinalizeAfter, CsFlag
  <2> QED
    BY <2>1, <2>2
<1>6. CASE PeerReject(sPdu)
  BY <1>1, <1>2, <1>6 DEF ServerFlagsRight, PeerReject, PeerFails, ServerFail
<1>7. CASE \E state : PeerRecv(sPdu, state, <<>>, TRUE) /\ sPdu' = NoPdu
                        /\ state \in {PeerStateAfter(sPdu), "LICENSING",
                                      "MULTITRANSPORT_BOOTSTRAPPING_REQUEST"}
  <2>1. ~sActivated' /\ sPdu' = NoPdu /\ sFinalize' = PeerFinalizeAfter(sPdu)
    BY <1>2, <1>7 DEF PeerRecv, ActivatedAfterLeaving
  <2>2. sState' \in {PeerStateAfter(sPdu), "LICENSING", "MULTITRANSPORT_BOOTSTRAPPING_REQUEST"}
    BY <1>7 DEF PeerRecv
  <2>3. sState' = "FINALIZATION_SYNC" => sFinalize' \cap ClientFlags = {}
    BY <1>5, <2>1, <2>2 DEF ClientFlags
  <2>4. sState' \notin FinalizationStates \ {"FINALIZATION_SYNC"}
    BY <1>1, <1>4, <2>2 DEF FinalizationStates
  <2> QED
    BY <2>1, <2>3, <2>4 DEF ServerFlagsRight, FinalizationStates
<1>8. CASE ServerLicensing /\ sLicense \in {"INITIAL", "COMPLETED", "ABORTED"}
  <2>1. /\ sState' \in {"LICENSING", "MULTITRANSPORT_BOOTSTRAPPING_REQUEST"} /\ ~sActivated'
        /\ sRun' = "idle" => sPdu' = NoPdu
    BY <1>1, <1>2, <1>8 DEF ServerLicensing, ServerSuccess, ServerRerun, ServerTransition,
                            ServerReject, ServerFail, ServerIn, ActivatedAfterLeaving
  <2> QED
    BY <2>1 DEF ServerFlagsRight
<1>9. CASE /\ ~PeerReject(sPdu)
           /\ ~(ServerLicensing /\ sLicense \in {"INITIAL", "COMPLETED", "ABORTED"})
  <2>1. CASE ServerAutoDetectResponse
    <3>1. \/ PeerRecv(sPdu, "LICENSING", <<>>, TRUE) /\ sPdu' = NoPdu
          \/ PeerRecv(sPdu, PeerStateAfter(sPdu), <<>>, TRUE) /\ sPdu' = NoPdu
      BY <1>9, <2>1 DEF ServerAutoDetectResponse, PeerRecv, ServerContinue, ServerSuccess
    <3> QED
      BY <1>7, <3>1
  <2>2. CASE ServerLicensing
    <3>1. sState = "LICENSING"
      BY <2>2 DEF ServerLicensing, ServerIn
    <3>2. \/ PeerRecv(sPdu, "MULTITRANSPORT_BOOTSTRAPPING_REQUEST", <<>>, TRUE) /\ sPdu' = NoPdu
          \/ PeerRecv(sPdu, "LICENSING", <<>>, TRUE) /\ sPdu' = NoPdu
      BY <1>9, <2>2, <3>1, PeerReturnsRead DEF ServerLicensing, PeerRecv
    <3> QED
      BY <1>7, <3>2
  <2>3. CASE ServerMultitransportResponse \/ ServerConfirmActive
    <3>1. PeerRecv(sPdu, PeerStateAfter(sPdu), <<>>, TRUE) /\ sPdu' = NoPdu
      BY <1>9, <2>3, PeerReturnsRead DEF ServerMultitransportResponse, ServerConfirmActive,
                                         ServerPlainRecv, PeerRecv
    <3> QED
      BY <1>7, <3>1
  <2> QED
    BY <2>1, <2>2, <2>3
<1> QED
  BY <1>6, <1>8, <1>9

\* Every step of a server in its first activation but the one that decides on m.
LEMMA ServerStepAfter ==
    ASSUME NEW m \in {0, 1}, NEW ss \in Marks, NEW sc \in Marks, NEW sa \in Marks,
           FirstServer(m, ss, sc, sa), ServerStep, ~ServerMultitransportRequest
    PROVE  ServerAfter(m, sa, ss) /\ ServerFlagsRight'
<1>1. ServerFlagsRight
  BY DEF FirstServer
<1>2. CASE \/ ServerConnectInitial \/ ServerErectDomain \/ ServerAttachUser \/ ServerChannelJoin
           \/ ServerEstablishKeys \/ ServerClientInfo
  BY <1>1, <1>2, ServerConnects, ServerFlagsBefore
<1>3. CASE ServerAutoDetectRequest \/ ServerAutoDetectResponse
  BY <1>1, <1>3, ServerMeasures, ServerFlagsBefore, ServerFlagsReading
<1>4. CASE ServerLicensing
  BY <1>4, ServerLicenses, ServerFlagsReading
<1>5. CASE ServerMultitransportResponse
  BY <1>5, ServerBootstraps, ServerFlagsReading
<1>6. CASE ServerDemandActive
  BY <1>1, <1>6, ServerDemands, ServerFlagsBefore
<1>7. CASE ServerMonitorLayout
  BY <1>1, <1>7, ServerSendsLayout, ServerFlagsBefore
<1>8. CASE ServerConfirmActive
  BY <1>8, ServerIsConfirmed, ServerFlagsReading
<1>9. CASE ServerFinalizeSync \/ ServerFinalizeCooperate \/ ServerFinalizeRequestControl
  BY <1>9, ServerFinalizes
<1>10. CASE ServerFinalizeKeyList
  BY <1>10, ServerAwaitsKeyList
<1>11. CASE ServerFinalizeFontList
  BY <1>11, ServerAwaitsFontList
<1>12. CASE ServerActivate \/ ServerActive
  BY <1>12, ServerIsActive
<1> QED
  BY <1>2, <1>3, <1>4, <1>5, <1>6, <1>7, <1>8, <1>9, <1>10, <1>11, <1>12 DEF ServerStep

-----------------------------------------------------------------------------
LEMMA ClientReadsOnce == ClientStep => cPdu' \in {cPdu, NoPdu}
<1> SUFFICES ASSUME ClientStep PROVE cPdu' \in {cPdu, NoPdu}
  OBVIOUS
<1> USE DEF ClientReject, ClientSuccess, ClientTryAgain, ClientContinue, ClientFail, ClientQuit,
            RecvReturns, RecvPdu
<1>1. CASE \/ ClientBegin \/ ClientMcsCreateRequest \/ ClientMcsCreateResponse
           \/ ClientAttachUserConfirm \/ ClientChannelJoinConfirm
  BY <1>1 DEF ClientBegin, ClientMcsCreateRequest, ClientMcsCreateResponse,
              ClientAttachUserConfirm, ClientChannelJoinConfirm
<1>2. CASE \/ ClientAutoDetect("CONNECT_TIME_AUTO_DETECT_REQUEST", "LICENSING")
           \/ ClientAutoDetect("MULTITRANSPORT_BOOTSTRAPPING_REQUEST",
                               "CAPABILITIES_EXCHANGE_DEMAND_ACTIVE")
  BY <1>2 DEF ClientAutoDetect
<1>3. CASE ClientLicensing
  BY <1>3 DEF ClientLicensing
<1>4. CASE ClientDemandActive \/ ClientConfirmActive \/ ClientMonitorLayout \/ ClientActive
  BY <1>4 DEF ClientDemandActive, ClientConfirmActive, ClientMonitorLayout, ClientActive
<1>5. CASE SendSynchronize \/ SendCooperate \/ SendRequestControl \/ SendPersistentKeyList
             \/ SendFontList
  BY <1>5 DEF SendSynchronize, SendCooperate, SendRequestControl, SendPersistentKeyList,
              SendFinalizePdu, SendFontList
<1>6. CASE \/ ClientFinalizeSync \/ ClientFinalizeCooperate \/ ClientFinalizeGrantedControl
           \/ ClientFinalizeFontMap
  BY <1>6 DEF ClientFinalizeSync, ClientFinalizeCooperate, ClientFinalizeGrantedControl,
              ClientFinalizeFontMap, HandleScFlags
<1> QED
  BY <1>1, <1>2, <1>3, <1>4, <1>5, <1>6 DEF ClientStep

LEMMA ClientPauses ==
    ASSUME ClientStep, cRun' = "idle"
    PROVE  cState' \notin BatchStates
<1>1. ~ClientReject /\ ~ClientFail /\ ~ClientContinue
  BY DEF ClientReject, ClientFail, ClientContinue
<1> USE DEF BatchStates, FinalizationStates, ClientIn
<1>2. CASE \/ ClientBegin \/ ClientMcsCreateRequest \/ ClientMcsCreateResponse
           \/ ClientAttachUserConfirm \/ ClientChannelJoinConfirm
  BY <1>1, <1>2 DEF ClientBegin, ClientMcsCreateRequest, ClientMcsCreateResponse,
              ClientAttachUserConfirm, ClientChannelJoinConfirm, JoinNextOrSendInfo
<1>3. CASE \/ ClientAutoDetect("CONNECT_TIME_AUTO_DETECT_REQUEST", "LICENSING")
           \/ ClientAutoDetect("MULTITRANSPORT_BOOTSTRAPPING_REQUEST",
                               "CAPABILITIES_EXCHANGE_DEMAND_ACTIVE")
  BY <1>3 DEF ClientAutoDetect
<1>4. CASE ClientLicensing
  BY <1>4 DEF ClientLicensing, LicensedState
<1>5. CASE ClientDemandActive
  BY <1>1, <1>5 DEF ClientDemandActive, RecvPdu
<1>6. CASE ClientConfirmActive
  BY <1>1, <1>6 DEF ClientConfirmActive
<1>7. CASE ClientMonitorLayout
  BY <1>1, <1>7 DEF ClientMonitorLayout, RecvPdu, StateAfter, ClientTryAgain
<1>8. CASE SendSynchronize \/ SendCooperate \/ SendRequestControl \/ SendPersistentKeyList
             \/ SendFontList
  BY <1>8 DEF SendSynchronize, SendCooperate, SendRequestControl, SendPersistentKeyList,
              SendFinalizePdu, SendFontList
<1>9. CASE \/ ClientFinalizeSync \/ ClientFinalizeCooperate \/ ClientFinalizeGrantedControl
           \/ ClientFinalizeFontMap \/ ClientActive
  BY <1>1, <1>9 DEF ClientFinalizeSync, ClientFinalizeCooperate, ClientFinalizeGrantedControl,
              ClientFinalizeFontMap, HandleScFlags, RecvPdu, StateAfter, ClientActive
<1> QED
  BY <1>2, <1>3, <1>4, <1>5, <1>6, <1>7, <1>8, <1>9 DEF ClientStep

\* No step of the server touches its reactivation flag or sends a Deactivate All: only the
\* application does.
LEMMA ServerKeepsReactivation ==
    ASSUME ServerStep, Listed(sOut)
    PROVE  /\ "DEACTIVATE_REACTIVATE" \in sFinalize' <=> "DEACTIVATE_REACTIVATE" \in sFinalize
           /\ \E pdus : /\ Listed(pdus) /\ sOut' = sOut \o pdus
                        /\ \A i \in DOMAIN pdus : pdus[i].type # "DeactivateAll"
           /\ sRun = "run"
<1>1. CASE ServerConnectInitial \/ ServerAttachUser \/ ServerChannelJoin
  <2>1. sFinalize' = sFinalize /\ sRun = "run"
    BY <1>1 DEF ServerConnectInitial, ServerAttachUser, ServerChannelJoin, ServerReject, ServerIn
  <2>2. /\ \A settings, channel : ConnectResponse(settings, channel).type # "DeactivateAll"
        /\ \A channel : JoinConfirm(channel).type # "DeactivateAll"
        /\ Pdu("AttachUserConfirm").type # "DeactivateAll"
    BY DEF ConnectResponse, JoinConfirm, Pdu
  <2>3. \/ sOut' = sOut \o <<>>
        \/ \E p : p.type # "DeactivateAll" /\ sOut' = sOut \o <<p>>
    <3>1. CASE ServerReject
      BY <3>1, NothingSent DEF ServerReject
    <3>2. CASE ~ServerReject
      <4>1. \/ sOut' = sOut \o <<ConnectResponse(sSettings', sMessageChannel')>>
            \/ sOut' = sOut \o <<JoinConfirm(sPdu.channelId)>>
            \/ sOut' = sOut \o <<Pdu("AttachUserConfirm")>>
        BY <1>1, <3>2 DEF ServerConnectInitial, ServerAttachUser, ServerChannelJoin, ServerSend
      <4> QED
        BY <2>2, <4>1, Zenon
    <3> QED
      BY <3>1, <3>2
  <2>4. \E pdus : /\ Listed(pdus) /\ sOut' = sOut \o pdus
                  /\ \A i \in DOMAIN pdus : pdus[i].type # "DeactivateAll"
    <3>1. CASE sOut' = sOut \o <<>>
      BY <3>1, ShortLists
    <3>2. CASE \E p : p.type # "DeactivateAll" /\ sOut' = sOut \o <<p>>
      <4>1. PICK p : p.type # "DeactivateAll" /\ sOut' = sOut \o <<p>>
        BY <3>2
      <4>2. Listed(<<p>>) /\ \A i \in DOMAIN <<p>> : <<p>>[i] = p
        BY ShortLists
      <4> QED
        BY <4>1, <4>2
    <3> QED
      BY <2>3, <3>1, <3>2
  <2> QED
    BY <2>1, <2>4
<1>2. CASE ~(ServerConnectInitial \/ ServerAttachUser \/ ServerChannelJoin)
  <2>1. ServerTalks
    BY <1>2, StepTalks
  <2>2. sRun = "run"
    BY DEF ServerStep, ServerConnectInitial, ServerErectDomain, ServerAttachUser,
           ServerChannelJoin, ServerEstablishKeys, ServerClientInfo, ServerAutoDetectRequest,
           ServerAutoDetectResponse, ServerLicensing, ServerMultitransportRequest,
           ServerMultitransportResponse, ServerDemandActive, ServerMonitorLayout,
           ServerConfirmActive, ServerFinalizeSync, ServerFinalizeCooperate,
           ServerFinalizeRequestControl, ServerFinalizeKeyList, ServerFinalizeFontList,
           ServerActivate, ServerActive, ServerPlainRecv, ServerFinalize, ServerIn
  <2> QED
    BY <2>1, <2>2 DEF ServerTalks, Plain, PlainPdu
<1> QED
  BY <1>1, <1>2

LEMMA HasConcat ==
    ASSUME NEW s, NEW t, Listed(s), Listed(t), NEW type
    PROVE  Has(s \o t, type) <=> Has(s, type) \/ Has(t, type)
<1>1. ASSUME ~Has(s, type), ~Has(t, type)
      PROVE  ~Has(s \o t, type)
  <2>1. /\ \A i \in DOMAIN s : s[i].type # type
        /\ \A i \in DOMAIN t : t[i].type # type
    BY <1>1 DEF Has
  <2>2. \A i \in DOMAIN (s \o t) : (s \o t)[i].type # type
    BY <2>1, ConcatListed, ConcatElements
  <2> QED
    BY <2>2 DEF Has
<1>2. ASSUME Has(s, type)
      PROVE  Has(s \o t, type)
  <2>1. PICK j \in DOMAIN s : s[j].type = type
    BY <1>2 DEF Has
  <2>2. \E i \in DOMAIN (s \o t) : (s \o t)[i] = s[j]
    BY ConcatElements
  <2> QED
    BY <2>1, <2>2 DEF Has
<1>3. ASSUME Has(t, type)
      PROVE  Has(s \o t, type)
  <2>1. PICK j \in DOMAIN t : t[j].type = type
    BY <1>3 DEF Has
  <2>2. \E i \in DOMAIN (s \o t) : (s \o t)[i] = t[j]
    BY ConcatElements
  <2> QED
    BY <2>1, <2>2 DEF Has
<1> QED
  BY <1>1, <1>2, <1>3

-----------------------------------------------------------------------------
\* A step of the client.
LEMMA ClientKeepsRound ==
    ASSUME JoinRight, InFirstRound, ClientStep, UNCHANGED serverVars
    PROVE  InFirstRound'
<1> SUFFICES ASSUME ClientFirst'
             PROVE  \E m \in {0, 1} : \E cs, cc, ca, ss \in Marks : FirstRound(m, cs, cc, ca, ss)'
  BY DEF InFirstRound
<1>1. ClientFirst
  BY StepsWork, ClientKeepsReactivation DEF ClientFirst, Working
<1>2. PICK m \in {0, 1} : \E cs, cc, ca, ss \in Marks : FirstRound(m, cs, cc, ca, ss)
  BY <1>1 DEF InFirstRound
<1>3. PICK cs \in Marks, cc \in Marks, ca \in Marks, ss \in Marks : FirstRound(m, cs, cc, ca, ss)
  BY <1>2
<1>4. FirstClient(m, cs, cc, ca)
  BY <1>1, <1>3 DEF FirstRound, FirstClient, ClientFirst, JoinRight
<1>5. ClientFlagsRight'
  BY <1>4, ClientFlagsStay DEF ClientFirst
<1>6. ClientAfter(m, ca, cc)
  BY <1>4, ClientStepAfter
<1>7. PICK cs2 \in Marks, cc2 \in Marks :
          /\ Leads("toServer", m, cOut, cc, cOut', cc2)
          /\ ClientMarks(m, cState', cs2, cc2) /\ Move("toClient", m, cPdu'.type, cs2, ca)
  BY <1>6 DEF ClientAfter, ClientFirst
<1>8. ToClient(m, ca, ss, sOut', sFinalize')
  BY <1>3 DEF FirstRound, serverVars
<1>9. ServerFirst' => ServerFlagsRight' /\ ToServer(m, ss, cc2, sState', sPdu', cOut')
  <2> SUFFICES ASSUME ServerFirst'
               PROVE  ServerFlagsRight' /\ ToServer(m, ss, cc2, sState', sPdu', cOut')
    OBVIOUS
  <2>1. ServerFirst
    BY DEF ServerFirst, serverVars
  <2>2. ServerFlagsRight /\ ToServer(m, ss, cc, sState, sPdu, cOut)
    BY <1>3, <2>1 DEF FirstRound
  <2>3. ServerFlagsRight'
    BY <2>2 DEF ServerFlagsRight, serverVars
  <2>4. ToServer(m, ss, cc2, sState', sPdu', cOut')
    BY <1>7, <2>2 DEF ToServer, Leads, serverVars
  <2> QED
    BY <2>3, <2>4
<1> QED
  BY <1>5, <1>7, <1>8, <1>9 DEF FirstRound

\* Nothing of the handshake is under way in either direction before the server has sent any.
LEMMA NothingBefore ==
    ASSUME NEW m \in {0, 1}, NEW cs \in Marks, NEW cc \in Marks, NEW ca \in Marks,
           NEW sa \in Marks, Listed(sOut), Listed(cOut),
           ClientMarks(m, cState, cs, cc), Move("toClient", m, cPdu.type, cs, ca),
           Walks("toClient", m, ca, sOut, 0), Walks("toServer", m, sa, cOut, cc)
    PROVE  cs = 0 /\ ca = 0 /\ cc = 0 /\ sa = 0
<1>1. ca <= 0
  BY WalkUp
<1>2. cs <= ca
  BY MoveUp
<1>3. cs = 0 /\ ca = 0
  BY <1>1, <1>2 DEF Marks
<1>4. cc = 0
  BY <1>3 DEF ClientMarks
<1>5. sa <= cc
  BY WalkUp
<1> QED
  BY <1>3, <1>4, <1>5 DEF Marks

\* A server that does not offer multitransport goes on with the capability exchange.
LEMMA ServerSkipsMultitransport ==
    ASSUME NEW m \in {0, 1}, NEW ss \in Marks, NEW sc \in Marks, NEW sa \in Marks,
           FirstServer(m, ss, sc, sa), ServerMultitransportRequest, ~sSettings.multitransport
    PROVE  ServerAfter(m, sa, ss)
<1>1. m = 0 /\ ss = 0 /\ sc = 0
  BY DEF FirstServer, ServerMarks, ServerMultitransportRequest, ServerIn, LicensingOrEarlier, McsStates
<1>2. /\ sState' = "CAPABILITIES_EXCHANGE_DEMAND_ACTIVE" /\ sPdu' = sPdu
      /\ sOut' = sOut \o <<>>
  BY DEF ServerMultitransportRequest, ServerTransition, ServerRerun, ServerSend
<1>3. ServerMarks(m, sState', ss, sc)
  BY <1>1, <1>2 DEF ServerMarks
<1> QED
  BY <1>2, <1>3, QuietShort, ServerLeaves DEF FirstServer

\* A step of the server after it has resized the desktop.
LEMMA ServerKeepsLastMark ==
    ASSUME JoinRight, NEW m \in {0, 1}, NEW ca \in Marks, NEW ss \in Marks,
           ToClient(m, ca, ss, sOut, sFinalize), "DEACTIVATE_REACTIVATE" \in sFinalize,
           NEW pdus, Listed(pdus), sOut' = sOut \o pdus
    PROVE  ToClient(m, ca, ss, sOut', sFinalize')
<1>1. Walks("toClient", m, ca, sOut, 7) /\ ss = 7
  BY DEF ToClient
<1>2. Walks("toClient", m, 7, pdus, 7)
  BY WalkFree
<1>3. Walks("toClient", m, ca, sOut', 7)
  BY <1>1, <1>2, WalkConcat DEF JoinRight
<1> QED
  BY <1>1, <1>3 DEF ToClient

\* A step of the server.
LEMMA ServerKeepsRound ==
    ASSUME JoinRight, InFirstRound, ServerStep, UNCHANGED clientVars
    PROVE  InFirstRound'
<1> SUFFICES ASSUME ClientFirst'
             PROVE  \E m \in {0, 1} : \E cs, cc, ca, ss \in Marks : FirstRound(m, cs, cc, ca, ss)'
  BY DEF InFirstRound
<1>1. ClientFirst
  BY DEF ClientFirst, clientVars
<1>2. PICK m \in {0, 1} : \E cs, cc, ca, ss \in Marks : FirstRound(m, cs, cc, ca, ss)
  BY <1>1 DEF InFirstRound
<1>3. PICK cs \in Marks, cc \in Marks, ca \in Marks, ss \in Marks : FirstRound(m, cs, cc, ca, ss)
  BY <1>2
<1>4. /\ "DEACTIVATE_REACTIVATE" \in sFinalize' <=> "DEACTIVATE_REACTIVATE" \in sFinalize
      /\ \E pdus : Listed(pdus) /\ sOut' = sOut \o pdus
      /\ sRun = "run"
  BY ServerKeepsReactivation DEF JoinRight
<1>5. /\ ClientMarks(m, cState', cs, cc) /\ Move("toClient", m, cPdu'.type, cs, ca)
      /\ ClientFlagsRight'
  <2>1. ClientFlagsRight
    BY <1>3 DEF FirstRound
  <2>2. ClientFlagsRight'
    BY <2>1 DEF ClientFlagsRight, clientVars
  <2> QED
    BY <1>3, <2>2 DEF FirstRound, clientVars
<1>6. CASE "DEACTIVATE_REACTIVATE" \in sFinalize
  <2>1. ToClient(m, ca, ss, sOut', sFinalize')
    BY <1>3, <1>4, <1>6, ServerKeepsLastMark DEF FirstRound
  <2>2. ~ServerFirst'
    BY <1>4, <1>6 DEF ServerFirst
  <2> QED
    BY <1>5, <2>1, <2>2 DEF FirstRound
<1>7. CASE "DEACTIVATE_REACTIVATE" \notin sFinalize
  <2>1. ServerFlagsRight /\ ToServer(m, ss, cc, sState, sPdu, cOut)
    BY <1>3, <1>4, <1>7 DEF FirstRound, ServerFirst, Working
  <2>2. PICK sc \in Marks, sa \in Marks :
            /\ ServerMarks(m, sState, ss, sc)
            /\ Move("toServer", m, sPdu.type, sc, sa)
            /\ Walks("toServer", m, sa, cOut, cc)
    BY <2>1 DEF ToServer
  <2>3. Walks("toClient", m, ca, sOut, ss)
    BY <1>3 DEF FirstRound, ToClient
  <2>4. ss = 0 => cs = 0 /\ ca = 0 /\ cc = 0 /\ sa = 0
    BY <1>3, <2>2, <2>3, NothingBefore DEF FirstRound, JoinRight
  <2>5. FirstServer(m, ss, sc, sa)
    BY <1>7, <2>1, <2>2, <2>4 DEF FirstServer, JoinRight
  <2>6. CASE ~(ServerMultitransportRequest /\ sSettings.multitransport)
    <3>1. ServerAfter(m, sa, ss) /\ ServerFlagsRight'
      BY <2>1, <2>5, <2>6, ServerStepAfter, ServerSkipsMultitransport, ServerFlagsBefore
    <3>2. PICK ss2 \in Marks, sc2 \in Marks :
              /\ Leads("toClient", m, sOut, ss, sOut', ss2)
              /\ sRun' \in Working =>
                     ServerMarks(m, sState', ss2, sc2) /\ Move("toServer", m, sPdu'.type, sc2, sa)
      BY <3>1 DEF ServerAfter
    <3>3. ToClient(m, ca, ss2, sOut', sFinalize')
      BY <1>4, <1>7, <2>3, <3>2 DEF ToClient, Leads
    <3>4. ServerFirst' => ToServer(m, ss2, cc, sState', sPdu', cOut')
      BY <2>2, <3>2 DEF ServerFirst, ToServer, clientVars
    <3> QED
      BY <1>5, <3>1, <3>3, <3>4 DEF FirstRound
  <2>7. CASE ServerMultitransportRequest /\ sSettings.multitransport
    <3>1. m = 0 /\ ss = 0 /\ sc = 0
      BY <2>2, <2>7 DEF ServerMarks, ServerMultitransportRequest, ServerIn, LicensingOrEarlier,
                        McsStates
    <3>2. cs = 0 /\ ca = 0 /\ cc = 0 /\ sa = 0
      BY <2>4, <3>1
    <3>3. /\ sState' = "MULTITRANSPORT_BOOTSTRAPPING_RESPONSE" /\ sPdu' = NoPdu
          /\ sOut' = sOut \o <<Pdu("MultitransportRequest")>>
      BY <2>7 DEF ServerMultitransportRequest, ServerTransition, ServerSuccess, ServerSend
    <3>4. 0 \in Marks /\ 1 \in Marks /\ 1 \in {0, 1}
      BY DEF Marks
    <3>5. ClientMarks(1, cState', 0, 0) /\ Move("toClient", 1, cPdu'.type, 0, 0)
      <4>1. ClientMarks(0, cState', 0, 0) /\ Move("toClient", 0, cPdu'.type, 0, 0)
        BY <1>5, <3>1, <3>2
      <4> QED
        BY <4>1 DEF ClientMarks, Move
    <3>6. Walks("toClient", 1, 0, sOut, 0) /\ Walks("toServer", 1, 0, cOut, 0)
      BY <2>2, <2>3, <3>1, <3>2, WalkStill DEF JoinRight
    <3>7. Walks("toClient", 1, 0, sOut', 1)
      <4>1. Move("toClient", 1, "MultitransportRequest", 0, 1)
        BY DEF Move
      <4>2. Leads("toClient", 1, sOut, 0, sOut', 1)
        BY <3>3, <3>4, <4>1, LeadsOne DEF JoinRight
      <4> QED
        BY <3>6, <4>2 DEF Leads
    <3>8. ToClient(1, 0, 1, sOut', sFinalize')
      BY <1>4, <1>7, <3>7 DEF ToClient
    <3>9. ToServer(1, 1, 0, sState', sPdu', cOut')
      <4>1. ServerMarks(1, sState', 1, 0)
        BY <3>3 DEF ServerMarks
      <4>2. Move("toServer", 1, sPdu'.type, 0, 0)
        BY <3>3, StillMove
      <4>3. Walks("toServer", 1, 0, cOut', 0)
        BY <3>6 DEF clientVars
      <4> QED
        BY <3>4, <4>1, <4>2, <4>3 DEF ToServer
    <3>10. ServerFlagsRight'
      BY <2>1, <2>7, ServerFlagsBefore
    <3>11. FirstRound(1, 0, 0, 0, 1)'
      BY <1>5, <3>5, <3>8, <3>9, <3>10 DEF FirstRound
    <3> QED
      BY <3>4, <3>11
  <2> QED
    BY <2>6, <2>7
<1> QED
  BY <1>6, <1>7

LEMMA StandStill ==
    ASSUME NEW dir, NEW m, NEW a, NEW b, Move(dir, m, NoPdu.type, a, b)
    PROVE  b = a
BY DEF Move, NoPdu, Pdu, PhaseTypes

\* A client that takes a PDU from the transport waits for one.
LEMMA DeliveryToClientKeepsRound ==
    ASSUME JoinRight, ReactivationRight, DeliverToClient
    PROVE  InFirstRound'
<1> SUFFICES ASSUME ClientFirst'
             PROVE  \E m \in {0, 1} : \E cs, cc, ca, ss \in Marks : FirstRound(m, cs, cc, ca, ss)'
  BY DEF InFirstRound
<1>1. /\ cRun = "idle" /\ cRun' = "run" /\ cPdu' = Head(sOut) /\ sOut' = Tail(sOut) /\ sOut # <<>>
      /\ UNCHANGED <<cState, cFinalize, cMonitorLayout, cJoined, cMessageChannel, cLicense,
                     cSettings, cOut>>
      /\ UNCHANGED <<sState, sRun, sPdu, sFinalize, sJoined, sMessageChannel, sLicense,
                     sSettings, sConnected, sActivated, reconnects>>
  BY DEF DeliverToClient, ClientReceive
<1>2. ClientFirst /\ cState \notin BatchStates
  BY <1>1 DEF ClientFirst, Working, ReactivationRight
<1>3. PICK m \in {0, 1} : \E cs, cc, ca, ss \in Marks : FirstRound(m, cs, cc, ca, ss)
  BY <1>2 DEF InFirstRound, ReactivationRight
<1>4. PICK cs \in Marks, cc \in Marks, ca \in Marks, ss \in Marks : FirstRound(m, cs, cc, ca, ss)
  BY <1>3
<1>5. ClientFlagsRight /\ cPdu = NoPdu
  BY <1>1, <1>4 DEF FirstRound, ClientFlagsRight
<1>6. ca = cs
  BY <1>4, <1>5, StandStill DEF FirstRound
<1>7. Walks("toClient", m, cs, sOut, ss)
  BY <1>4, <1>6 DEF FirstRound, ToClient
<1>8. PICK next \in Marks : Move("toClient", m, Head(sOut).type, cs, next)
                              /\ Walks("toClient", m, next, Tail(sOut), ss)
  BY <1>1, <1>7, WalkHead DEF JoinRight
<1>9. ToClient(m, next, ss, sOut', sFinalize')
  BY <1>1, <1>4, <1>8 DEF FirstRound, ToClient
<1>10. ClientFlagsRight'
  <2>1. cPdu.type # "Synchronize" /\ cPdu.type # "MonitorLayout"
    BY <1>5 DEF NoPdu, Pdu
  <2> QED
    BY <1>1, <1>2, <1>5, <2>1 DEF ClientFlagsRight, BatchStates
<1>11. ClientMarks(m, cState', cs, cc) /\ Move("toClient", m, cPdu'.type, cs, next)
  BY <1>1, <1>4, <1>8 DEF FirstRound
<1>12. ServerFirst' => ServerFlagsRight' /\ ToServer(m, ss, cc, sState', sPdu', cOut')
  <2> SUFFICES ASSUME ServerFirst'
               PROVE  ServerFlagsRight' /\ ToServer(m, ss, cc, sState', sPdu', cOut')
    OBVIOUS
  <2>1. ServerFlagsRight /\ ToServer(m, ss, cc, sState, sPdu, cOut)
    BY <1>1, <1>4 DEF FirstRound, ServerFirst
  <2>2. ServerFlagsRight'
    BY <1>1, <2>1 DEF ServerFlagsRight
  <2> QED
    BY <1>1, <2>1, <2>2
<1> QED
  BY <1>9, <1>10, <1>11, <1>12 DEF FirstRound

LEMMA DeliveryToServerKeepsRound ==
    ASSUME JoinRight, InFirstRound, DeliverToServer
    PROVE  InFirstRound'
<1> SUFFICES ASSUME ClientFirst'
             PROVE  \E m \in {0, 1} : \E cs, cc, ca, ss \in Marks : FirstRound(m, cs, cc, ca, ss)'
  BY DEF InFirstRound
<1>1. /\ sRun = "idle" /\ sRun' = "run" /\ sPdu' = Head(cOut) /\ cOut' = Tail(cOut) /\ cOut # <<>>
      /\ UNCHANGED <<sState, sFinalize, sActivated, sOut>>
      /\ UNCHANGED <<cState, cRun, cPdu, cFinalize, cMonitorLayout, cSettings>>
  BY DEF DeliverToServer, ServerReceive
<1>2. ClientFirst
  BY <1>1 DEF ClientFirst
<1>3. PICK m \in {0, 1} : \E cs, cc, ca, ss \in Marks : FirstRound(m, cs, cc, ca, ss)
  BY <1>2 DEF InFirstRound
<1>4. PICK cs \in Marks, cc \in Marks, ca \in Marks, ss \in Marks : FirstRound(m, cs, cc, ca, ss)
  BY <1>3
<1>5. ClientFlagsRight'
  <2>1. ClientFlagsRight
    BY <1>4 DEF FirstRound
  <2> QED
    BY <1>1, <2>1 DEF ClientFlagsRight
<1>6. ServerFirst' => ServerFlagsRight' /\ ToServer(m, ss, cc, sState', sPdu', cOut')
  <2> SUFFICES ASSUME ServerFirst'
               PROVE  ServerFlagsRight' /\ ToServer(m, ss, cc, sState', sPdu', cOut')
    OBVIOUS
  <2>1. ServerFlagsRight /\ ToServer(m, ss, cc, sState, sPdu, cOut)
    BY <1>1, <1>4 DEF FirstRound, ServerFirst, Working
  <2>2. sPdu = NoPdu
    BY <1>1, <2>1 DEF ServerFlagsRight
  <2>3. PICK sc \in Marks, sa \in Marks :
            /\ ServerMarks(m, sState, ss, sc)
            /\ Move("toServer", m, sPdu.type, sc, sa)
            /\ Walks("toServer", m, sa, cOut, cc)
    BY <2>1 DEF ToServer
  <2>4. sa = sc
    BY <2>2, <2>3, StandStill
  <2>5. PICK next \in Marks : Move("toServer", m, Head(cOut).type, sc, next)
                                /\ Walks("toServer", m, next, Tail(cOut), cc)
    BY <1>1, <2>3, <2>4, WalkHead DEF JoinRight
  <2>6. ToServer(m, ss, cc, sState', sPdu', cOut')
    BY <1>1, <2>3, <2>5 DEF ToServer
  <2>7. ServerFlagsRight'
    BY <1>1, <2>1 DEF ServerFlagsRight
  <2> QED
    BY <2>6, <2>7
<1> QED
  BY <1>1, <1>4, <1>5, <1>6 DEF FirstRound

LEMMA InputKeepsRound ==
    ASSUME JoinRight, InFirstRound, UserInput
    PROVE  InFirstRound'
<1> SUFFICES ASSUME ClientFirst'
             PROVE  \E m \in {0, 1} : \E cs, cc, ca, ss \in Marks : FirstRound(m, cs, cc, ca, ss)'
  BY DEF InFirstRound
<1>1. /\ cOut' = cOut \o <<Pdu("Input")>> /\ UNCHANGED serverVars
      /\ UNCHANGED <<cState, cRun, cPdu, cFinalize, cMonitorLayout, cSettings>>
  BY DEF UserInput, ClientInput, ClientSend
<1>2. ClientFirst
  BY <1>1 DEF ClientFirst
<1>3. PICK m \in {0, 1} : \E cs, cc, ca, ss \in Marks : FirstRound(m, cs, cc, ca, ss)
  BY <1>2 DEF InFirstRound
<1>4. PICK cs \in Marks, cc \in Marks, ca \in Marks, ss \in Marks : FirstRound(m, cs, cc, ca, ss)
  BY <1>3
<1>5. Leads("toServer", m, cOut, cc, cOut', cc)
  <2>1. Quiet(<<Pdu("Input")>>)
    BY QuietTypes DEF PhaseTypes
  <2> QED
    BY <1>1, <2>1, LeadsQuietly DEF JoinRight
<1>6. ClientFlagsRight'
  <2>1. ClientFlagsRight
    BY <1>4 DEF FirstRound
  <2> QED
    BY <1>1, <2>1 DEF ClientFlagsRight
<1>7. ServerFirst' => ServerFlagsRight' /\ ToServer(m, ss, cc, sState', sPdu', cOut')
  <2> SUFFICES ASSUME ServerFirst'
               PROVE  ServerFlagsRight' /\ ToServer(m, ss, cc, sState', sPdu', cOut')
    OBVIOUS
  <2>1. ServerFlagsRight /\ ToServer(m, ss, cc, sState, sPdu, cOut)
    BY <1>1, <1>4 DEF FirstRound, ServerFirst, serverVars
  <2>2. ServerFlagsRight'
    BY <1>1, <2>1 DEF ServerFlagsRight, serverVars
  <2>3. ToServer(m, ss, cc, sState', sPdu', cOut')
    BY <1>1, <1>5, <2>1 DEF ToServer, Leads, serverVars
  <2> QED
    BY <2>2, <2>3
<1>8. ToClient(m, ca, ss, sOut', sFinalize')
  BY <1>1, <1>4 DEF FirstRound, serverVars
<1> QED
  BY <1>1, <1>4, <1>6, <1>7, <1>8 DEF FirstRound

LEMMA ConcatAssociative ==
    ASSUME NEW r, NEW s, NEW t, Listed(r), Listed(s), Listed(t)
    PROVE  (r \o s) \o t = r \o (s \o t)
<1>1. PICK R : r \in Seq(R)
  BY DEF Listed
<1>2. PICK S : s \in Seq(S)
  BY DEF Listed
<1>3. PICK T : t \in Seq(T)
  BY DEF Listed
<1> DEFINE U == R \cup S \cup T
<1>4. r \in Seq(U) /\ s \in Seq(U) /\ t \in Seq(U)
  BY <1>1, <1>2, <1>3
<1> HIDE DEF U
<1>5. /\ (r \o s) \o t \in Seq(U) /\ r \o (s \o t) \in Seq(U)
      /\ Len((r \o s) \o t) = Len(r \o (s \o t))
  BY <1>4
<1>6. \A i \in 1 .. Len((r \o s) \o t) : ((r \o s) \o t)[i] = (r \o (s \o t))[i]
  BY <1>4
<1> QED
  BY <1>5, <1>6

\* The application draws, resizes the desktop or closes the session.
LEMMA ApplicationKeepsRound ==
    ASSUME JoinRight, InFirstRound, Application
    PROVE  InFirstRound'
<1> SUFFICES ASSUME ClientFirst'
             PROVE  \E m \in {0, 1} : \E cs, cc, ca, ss \in Marks : FirstRound(m, cs, cc, ca, ss)'
  BY DEF InFirstRound
<1>1. UNCHANGED clientVars /\ ServerApplication
  BY DEF Application
<1>2. ClientFirst
  BY <1>1 DEF ClientFirst, clientVars
<1>3. PICK m \in {0, 1} : \E cs, cc, ca, ss \in Marks : FirstRound(m, cs, cc, ca, ss)
  BY <1>2 DEF InFirstRound
<1>4. PICK cs \in Marks, cc \in Marks, ca \in Marks, ss \in Marks : FirstRound(m, cs, cc, ca, ss)
  BY <1>3
<1>5. /\ ClientMarks(m, cState', cs, cc) /\ Move("toClient", m, cPdu'.type, cs, ca)
      /\ ClientFlagsRight'
  <2>1. ClientFlagsRight
    BY <1>4 DEF FirstRound
  <2>2. ClientFlagsRight'
    BY <1>1, <2>1 DEF ClientFlagsRight, clientVars
  <2> QED
    BY <1>1, <1>4, <2>2 DEF FirstRound, clientVars
<1>6. CASE ServerUpdate \/ ServerChannelData
  <2>1. /\ UNCHANGED <<sState, sRun, sPdu, sFinalize, sActivated>>
        /\ \E type \in {"FastPathUpdate", "ChannelData"} : sOut' = sOut \o <<Pdu(type)>>
    BY <1>6 DEF ServerUpdate, ServerChannelData, ServerSend
  <2>2. \E pdus : Quiet(pdus) /\ sOut' = sOut \o pdus
    BY <2>1, QuietTypes DEF PhaseTypes
  <2>3. Leads("toClient", m, sOut, ss, sOut', ss)
    BY <2>2, LeadsQuietly DEF JoinRight
  <2>4. ToClient(m, ca, ss, sOut', sFinalize')
    BY <1>4, <2>1, <2>3 DEF FirstRound, ToClient, Leads
  <2>5. ServerFirst' => ServerFlagsRight' /\ ToServer(m, ss, cc, sState', sPdu', cOut')
    <3> SUFFICES ASSUME ServerFirst'
                 PROVE  ServerFlagsRight' /\ ToServer(m, ss, cc, sState', sPdu', cOut')
      OBVIOUS
    <3>1. ServerFlagsRight /\ ToServer(m, ss, cc, sState, sPdu, cOut)
      BY <1>4, <2>1 DEF FirstRound, ServerFirst
    <3>2. ServerFlagsRight'
      BY <2>1, <3>1 DEF ServerFlagsRight
    <3> QED
      BY <1>1, <2>1, <3>1, <3>2 DEF clientVars
  <2> QED
    BY <1>5, <2>4, <2>5 DEF FirstRound
<1>7. CASE ServerReactivate \/ ServerCloseSession
  <2>1. sRun = "idle" /\ sActivated
    BY <1>7 DEF ServerReactivate, ServerCloseSession, ServerClose
  <2>2. ~ServerFirst'
    BY <1>7 DEF ServerReactivate, ServerCloseSession, ServerClose, ServerFirst, Working
  <2>3. \E rest : Listed(rest) /\ sOut' = sOut \o (<<Pdu("DeactivateAll")>> \o rest)
    <3>1. CASE ServerReactivate
      <4>1. <<Pdu("DeactivateAll"), Pdu("DemandActive")>>
              = <<Pdu("DeactivateAll")>> \o <<Pdu("DemandActive")>>
        BY ShortLists
      <4>2. sOut' = sOut \o (<<Pdu("DeactivateAll")>> \o <<Pdu("DemandActive")>>)
        BY <3>1, <4>1 DEF ServerReactivate, ServerSend
      <4> QED
        BY <4>2, ShortLists
    <3>2. CASE ServerCloseSession
      <4>1. PICK info \in {<<>>, <<Pdu("ErrorInfo")>>} :
                sOut' = sOut \o ((<<Pdu("DeactivateAll")>> \o info) \o <<Pdu("DisconnectUltimatum")>>)
        BY <3>2 DEF ServerCloseSession, ServerClose, ServerSend
      <4> DEFINE all == <<Pdu("DeactivateAll")>>
                 last == <<Pdu("DisconnectUltimatum")>>
      <4>2. Listed(all) /\ Listed(last) /\ Listed(info)
        BY <4>1, ShortLists
      <4>3. sOut' = sOut \o ((all \o info) \o last)
        BY <4>1
      <4> HIDE DEF all, last
      <4>4. (all \o info) \o last = all \o (info \o last)
        BY <4>2, ConcatAssociative
      <4>5. Listed(info \o last)
        BY <4>2, ConcatListed
      <4>6. sOut' = sOut \o (all \o (info \o last))
        BY <4>3, <4>4
      <4> QED
        BY <4>5, <4>6 DEF all
    <3> QED
      BY <1>7, <3>1, <3>2
  <2>4. PICK rest : Listed(rest) /\ sOut' = sOut \o (<<Pdu("DeactivateAll")>> \o rest)
    BY <2>3
  <2> DEFINE all == <<Pdu("DeactivateAll")>>
  <2>5. Listed(all) /\ Listed(all \o rest)
    BY <2>4, ShortLists, ConcatListed
  <2>6. Walks("toClient", m, ca, sOut', 7)
    <3>1. CASE "DEACTIVATE_REACTIVATE" \in sFinalize
      <4>1. Walks("toClient", m, ca, sOut, 7)
        BY <1>4, <3>1 DEF FirstRound, ToClient
      <4>2. Walks("toClient", m, 7, all \o rest, 7)
        BY <2>5, WalkFree
      <4> HIDE DEF all
      <4> QED
        BY <2>4, <2>5, <4>1, <4>2, WalkConcat DEF JoinRight, all
    <3>2. CASE "DEACTIVATE_REACTIVATE" \notin sFinalize
      <4>1. ServerFlagsRight /\ ToServer(m, ss, cc, sState, sPdu, cOut)
        BY <1>4, <2>1, <3>2 DEF FirstRound, ServerFirst, Working
      <4>2. sState = "ACTIVE"
        BY <2>1, <4>1 DEF ServerFlagsRight
      <4>3. ss = 6
        BY <4>1, <4>2 DEF ToServer, ServerMarks, LicensingOrEarlier, McsStates
      <4>4. Walks("toClient", m, ca, sOut, 6)
        BY <1>4, <4>3 DEF FirstRound, ToClient
      <4>5. Walks("toClient", m, 6, all, 7)
        <5>1. 6 \in Marks /\ 7 \in Marks /\ Move("toClient", m, "DeactivateAll", 6, 7)
          BY DEF Marks, Move
        <5>2. Pdu("DeactivateAll").type = "DeactivateAll"
          BY DEF Pdu
        <5> QED
          BY <5>1, <5>2, WalkOne
      <4>6. Walks("toClient", m, 7, rest, 7)
        BY <2>4, WalkFree
      <4> HIDE DEF all
      <4>7. Walks("toClient", m, 6, all \o rest, 7)
        BY <2>4, <2>5, <4>5, <4>6, WalkConcat
      <4> QED
        BY <2>4, <2>5, <4>4, <4>7, WalkConcat DEF JoinRight, all
    <3> QED
      BY <3>1, <3>2
  <2>7. ToClient(m, ca, 7, sOut', sFinalize') /\ 7 \in Marks
    BY <2>6 DEF ToClient, Marks
  <2>8. FirstRound(m, cs, cc, ca, 7)'
    BY <1>5, <2>2, <2>7 DEF FirstRound
  <2> QED
    BY <2>7, <2>8
<1> QED
  BY <1>1, <1>6, <1>7 DEF ServerApplication

LEMMA FreshIsRight == Fresh => ReactivationRight
<1> SUFFICES ASSUME Fresh PROVE ReactivationRight
  OBVIOUS
<1>1. 0 \in Marks /\ 0 \in {0, 1}
  BY DEF Marks
<1>2. ClientMarks(0, cState, 0, 0)
  BY DEF ClientMarks, LicensingOrEarlier, McsStates, Fresh
<1>3. ServerMarks(0, sState, 0, 0)
  BY DEF ServerMarks, LicensingOrEarlier, McsStates, Fresh
<1>4. Move("toClient", 0, cPdu.type, 0, 0) /\ Move("toServer", 0, sPdu.type, 0, 0)
  BY StillMove DEF Fresh
<1>5. Walks("toClient", 0, 0, sOut, 0) /\ Walks("toServer", 0, 0, cOut, 0)
  BY <1>1, WalkNone DEF Fresh
<1>6. ClientFlagsRight
  BY DEF ClientFlagsRight, FinalizationStates, Fresh
<1>7. ServerFlagsRight
  BY DEF ServerFlagsRight, Fresh
<1>8. FirstRound(0, 0, 0, 0, 0)
  BY <1>1, <1>2, <1>3, <1>4, <1>5, <1>6, <1>7 DEF FirstRound, ToClient, ToServer, Fresh
<1>9. ReactivationAgreed
  <2>1. ~Has(sOut, "DeactivateAll")
    BY DEF Fresh, Has
  <2> QED
    BY <2>1 DEF ReactivationAgreed, Fresh, NoPdu, Pdu
<1> QED
  BY <1>1, <1>8, <1>9 DEF ReactivationRight, InFirstRound, Fresh

LEMMA HasTail ==
    ASSUME NEW s, Listed(s), s # <<>>, NEW type
    PROVE  Has(s, type) <=> Head(s).type = type \/ Has(Tail(s), type)
<1>1. ASSUME Has(s, type), Head(s).type # type
      PROVE  Has(Tail(s), type)
  <2>1. PICK j \in DOMAIN s : s[j].type = type
    BY <1>1 DEF Has
  <2>2. \E i \in DOMAIN Tail(s) : Tail(s)[i] = s[j]
    BY <1>1, <2>1, TailElements
  <2> QED
    BY <2>1, <2>2 DEF Has
<1>2. Head(s).type = type => Has(s, type)
  BY TailElements DEF Has
<1>3. ASSUME Has(Tail(s), type)
      PROVE  Has(s, type)
  <2>1. PICK i \in DOMAIN Tail(s) : Tail(s)[i].type = type
    BY <1>3 DEF Has
  <2>2. \E j \in DOMAIN s : Tail(s)[i] = s[j]
    BY TailElements
  <2> QED
    BY <2>1, <2>2 DEF Has
<1> QED
  BY <1>1, <1>2, <1>3

\* The two ends go on agreeing on whether this is a reactivation.
LEMMA AgreementStays ==
    ASSUME JoinRight, ReactivationRight, [Next]_vars, ~Reconnect
    PROVE  ReactivationAgreed'
<1> DEFINE all == "DeactivateAll"
           flag == "DEACTIVATE_REACTIVATE"
<1>0. ReactivationAgreed
  BY DEF ReactivationRight
<1>1. CASE ClientHandles
  <2>1. ClientStep /\ UNCHANGED <<sRun, sFinalize, sOut>>
    BY <1>1 DEF ClientHandles, serverVars
  <2>2. cPdu' \in {cPdu, NoPdu} /\ NoPdu.type # all
    BY <2>1, ClientReadsOnce DEF NoPdu, Pdu
  <2>3. /\ flag \in cFinalize => flag \in cFinalize'
        /\ flag \in cFinalize' => flag \in cFinalize \/ cPdu.type = all
    BY <2>1, ClientKeepsReactivation
  <2>4. cPdu.type = all => flag \in cFinalize'
    <3> SUFFICES ASSUME cPdu.type = all, flag \notin cFinalize
                 PROVE  flag \in cFinalize'
      BY <2>3
    <3>1. ClientFirst
      BY <2>1, StepsWork DEF ClientFirst, Working
    <3>2. PICK m \in {0, 1} : \E cs, cc, ca, ss \in Marks : FirstRound(m, cs, cc, ca, ss)
      BY <3>1 DEF InFirstRound, ReactivationRight
    <3>3. PICK cs \in Marks, cc \in Marks, ca \in Marks, ss \in Marks :
              FirstRound(m, cs, cc, ca, ss)
      BY <3>2
    <3>4. FirstClient(m, cs, cc, ca)
      BY <3>1, <3>3 DEF FirstRound, FirstClient, ClientFirst, JoinRight
    <3> QED
      BY <2>1, <3>4, ClientStepAfter
  <2> QED
    BY <1>0, <2>1, <2>2, <2>3, <2>4 DEF ReactivationAgreed
<1>2. CASE ServerHandles
  <2>1. ServerStep /\ UNCHANGED <<cFinalize, cPdu>>
    BY <1>2 DEF ServerHandles, clientVars
  <2>2. PICK pdus : /\ Listed(pdus) /\ sOut' = sOut \o pdus
                    /\ \A i \in DOMAIN pdus : pdus[i].type # all
    BY <2>1, ServerKeepsReactivation DEF JoinRight
  <2>3. Has(sOut', all) <=> Has(sOut, all)
    <3>1. ~Has(pdus, all)
      BY <2>2 DEF Has
    <3>2. Has(sOut \o pdus, all) <=> Has(sOut, all) \/ Has(pdus, all)
      BY <2>2, HasConcat DEF JoinRight
    <3> QED
      BY <2>2, <3>1, <3>2
  <2>4. sRun = "run" /\ (flag \in sFinalize' <=> flag \in sFinalize)
    BY <2>1, ServerKeepsReactivation DEF JoinRight
  <2> QED
    BY <1>0, <2>1, <2>3, <2>4 DEF ReactivationAgreed
<1>3. CASE DeliverToClient
  <2>1. /\ cRun = "idle" /\ cPdu' = Head(sOut) /\ sOut' = Tail(sOut) /\ sOut # <<>>
        /\ UNCHANGED <<sRun, sFinalize, cFinalize>>
    BY <1>3 DEF DeliverToClient, ClientReceive
  <2>2. Has(sOut, all) <=> cPdu'.type = all \/ Has(sOut', all)
    BY <2>1, HasTail DEF JoinRight
  <2>3. flag \in cFinalize \/ cPdu.type # all
    <3> SUFFICES ASSUME flag \notin cFinalize
                 PROVE  cPdu.type # all
      OBVIOUS
    <3>1. ClientFirst
      BY <2>1 DEF ClientFirst, Working
    <3>2. ClientFlagsRight
      BY <3>1 DEF InFirstRound, ReactivationRight, FirstRound
    <3> QED
      BY <2>1, <3>2 DEF ClientFlagsRight, NoPdu, Pdu
  <2> QED
    BY <1>0, <2>1, <2>2, <2>3 DEF ReactivationAgreed
<1>4. CASE DeliverToServer
  <2>1. UNCHANGED <<sFinalize, cFinalize, sOut, cPdu>> /\ sRun = "idle"
    BY <1>4 DEF DeliverToServer, ServerReceive
  <2> QED
    BY <1>0, <2>1 DEF ReactivationAgreed
<1>5. CASE UserInput \/ UNCHANGED vars
  <2>1. UNCHANGED <<sRun, sFinalize, cFinalize, sOut, cPdu>>
    BY <1>5 DEF UserInput, ClientInput, serverVars, clientVars, vars
  <2> QED
    BY <1>0, <2>1 DEF ReactivationAgreed
<1>6. CASE Application
  <2>1. UNCHANGED <<cFinalize, cPdu>> /\ ServerApplication
    BY <1>6 DEF Application, clientVars
  <2>2. CASE ServerReactivate
    <3>1. flag \in sFinalize'
      BY <2>2 DEF ServerReactivate
    <3>2. Has(sOut', all)
      <4> DEFINE p == Pdu("DeactivateAll")
                 q == Pdu("DemandActive")
      <4>1. sOut' = sOut \o <<p, q>> /\ p.type = all
        BY <2>2 DEF ServerReactivate, ServerSend, Pdu
      <4> HIDE DEF p, q
      <4>2. Listed(<<p, q>>) /\ Has(<<p, q>>, all)
        BY <4>1, ShortLists DEF Has
      <4> QED
        BY <4>1, <4>2, HasConcat DEF JoinRight
    <3> QED
      BY <3>1, <3>2 DEF ReactivationAgreed
  <2>3. CASE ServerUpdate \/ ServerChannelData
    <3>1. \E p : p.type # all /\ sOut' = sOut \o <<p>>
      <4>1. Pdu("FastPathUpdate").type # all /\ Pdu("ChannelData").type # all
        BY DEF Pdu
      <4> QED
        BY <2>3, <4>1 DEF ServerUpdate, ServerChannelData, ServerSend
    <3>2. PICK p : p.type # all /\ sOut' = sOut \o <<p>>
      BY <3>1
    <3>3. Listed(<<p>>) /\ ~Has(<<p>>, all)
      BY <3>2, ShortLists DEF Has
    <3>4. Has(sOut', all) <=> Has(sOut, all)
      BY <3>2, <3>3, HasConcat DEF JoinRight
    <3>5. UNCHANGED <<sRun, sFinalize>>
      BY <2>3 DEF ServerUpdate, ServerChannelData
    <3> QED
      BY <1>0, <2>1, <3>4, <3>5 DEF ReactivationAgreed
  <2>4. CASE ServerCloseSession
    BY <2>4 DEF ServerCloseSession, ServerClose, ReactivationAgreed
  <2> QED
    BY <2>1, <2>2, <2>3, <2>4 DEF ServerApplication
<1> QED
  BY <1>1, <1>2, <1>3, <1>4, <1>5, <1>6 DEF Next, Terminated

\* However a desktop resize, input, drawing and channel traffic interleave with the connection
\* sequence, and whatever the settings of the two ends, they agree on whether the activation
\* under way is a reactivation (FINALIZE_DEACTIVATE_REACTIVATE): the server has the flag exactly
\* when the client has it or the Deactivate All that will make rdp_recv_deactivate_all set it is
\* still under way.  No client ignores that PDU: none can be read before the client is active.
THEOREM ReactivationTheorem == Spec => []ReactivationAgreed
<1>1. Init => ReactivationRight
  <2>1. Init => Fresh
    BY DEF Init, ClientInit, ServerInit, Fresh
  <2> QED
    BY <2>1, FreshIsRight
<1>2. JoinRight /\ ReactivationRight /\ [Next]_vars => ReactivationRight'
  <2> SUFFICES ASSUME JoinRight, ReactivationRight, [Next]_vars PROVE ReactivationRight'
    OBVIOUS
  <2>1. CASE Reconnect
    <3>1. Fresh'
      BY <2>1 DEF Reconnect, ClientReset, Fresh
    <3>2. Fresh' => ReactivationRight'
      BY FreshIsRight, PTL
    <3> QED
      BY <3>1, <3>2
  <2>2. CASE ~Reconnect
    <3>1. ReactivationAgreed'
      BY <2>2, AgreementStays
    <3>2. InFirstRound'
      <4>0. InFirstRound
        BY DEF ReactivationRight
      <4>1. CASE ClientHandles
        BY <4>0, <4>1, ClientKeepsRound DEF ClientHandles
      <4>2. CASE ServerHandles
        BY <4>0, <4>2, ServerKeepsRound DEF ServerHandles
      <4>3. CASE DeliverToClient
        BY <4>3, DeliveryToClientKeepsRound
      <4>4. CASE DeliverToServer
        BY <4>0, <4>4, DeliveryToServerKeepsRound
      <4>5. CASE UserInput
        BY <4>0, <4>5, InputKeepsRound
      <4>6. CASE Application
        BY <4>0, <4>6, ApplicationKeepsRound
      <4>7. CASE UNCHANGED vars
        BY <4>0, <4>7 DEF vars, clientVars, serverVars, InFirstRound, ClientFirst, FirstRound,
                          ServerFirst, ClientFlagsRight, ServerFlagsRight
      <4> QED
        BY <2>2, <4>1, <4>2, <4>3, <4>4, <4>5, <4>6, <4>7 DEF Next, Terminated
    <3>3. cRun' = "idle" => cState' \notin BatchStates
      <4>1. CASE ClientHandles
        BY <4>1, ClientPauses DEF ClientHandles
      <4>2. CASE DeliverToClient
        BY <4>2 DEF DeliverToClient, ClientReceive
      <4>3. CASE UNCHANGED <<cRun, cState>>
        BY <4>3 DEF ReactivationRight
      <4> QED
        BY <2>2, <4>1, <4>2, <4>3 DEF Next, Terminated, vars, clientVars, ServerHandles,
              DeliverToServer, UserInput, ClientInput, Application
    <3> QED
      BY <3>1, <3>2, <3>3 DEF ReactivationRight
  <2> QED
    BY <2>1, <2>2
<1>3. ReactivationRight => ReactivationAgreed
  BY DEF ReactivationRight
<1>4. QED
  BY <1>1, <1>2, <1>3, JoinRightTheorem, PTL DEF Spec

-----------------------------------------------------------------------------
(* The two ends do not fail each other.  A client that holds no licence is refused by a server    *)
(* that requires one, and so is one that has no message channel to talk about it.                 *)

-----------------------------------------------------------------------------
(* The session.  From the licence on both ends may talk at once.  The PDUs of either direction    *)
(* come in an order that is described by places: a place says which PDU is next.                  *)

LEMMA GoesLater ==
    ASSUME NEW dir, NEW k, NEW p, NEW a \in Places, NEW b \in Places, Goes(dir, k, p, a, b)
    PROVE  Later(a, b)
<1>1. CASE dir = "down"
  BY <1>1 DEF Goes, Down, Later, Places, Opening, Layout
<1>2. CASE dir # "down"
  BY <1>2 DEF Goes, Up, Later, Places, Lists
<1> QED
  BY <1>1, <1>2

LEMMA LaterLater ==
    \A a, b, c \in Places : /\ Later(a, a)
                            /\ Later(a, b) /\ Later(b, c) => Later(a, c)
BY DEF Later, Places

LEMMA PathNone == \A dir, k : \A a \in Places : Path(dir, k, a, <<>>, a)
<1> SUFFICES ASSUME NEW dir, NEW k, NEW a \in Places
             PROVE  Path(dir, k, a, <<>>, a)
  OBVIOUS
<1> DEFINE w == [i \in 0 .. 0 |-> a]
<1>1. Len(<<>>) = 0 /\ w \in [0 .. 0 -> Places] /\ w[0] = a
  OBVIOUS
<1>2. \A i, j \in 0 .. 0 : Later(w[i], w[j])
  BY LaterLater
<1>3. 1 .. 0 = {}
  OBVIOUS
<1> HIDE DEF w
<1> QED
  BY <1>1, <1>2, <1>3 DEF Path

LEMMA PathBetween ==
    ASSUME NEW dir, NEW k, NEW s, Listed(s), NEW a, NEW b, Path(dir, k, a, s, b)
    PROVE  /\ a \in Places /\ b \in Places /\ Later(a, b)
           /\ s = <<>> => a = b
<1>1. Len(s) \in Nat /\ (s = <<>> => Len(s) = 0)
  BY DEF Listed
<1>2. PICK w \in [0 .. Len(s) -> Places] :
        /\ w[0] = a /\ w[Len(s)] = b
        /\ \A i, j \in 0 .. Len(s) : i <= j => Later(w[i], w[j])
  BY DEF Path
<1>3. 0 \in 0 .. Len(s) /\ Len(s) \in 0 .. Len(s) /\ 0 <= Len(s)
  BY <1>1
<1> QED
  BY <1>1, <1>2, <1>3

LEMMA PathHead ==
    ASSUME NEW dir, NEW k, NEW s, Listed(s), s # <<>>, NEW a, NEW b, Path(dir, k, a, s, b)
    PROVE  \E c \in Places : Goes(dir, k, Head(s), a, c) /\ Path(dir, k, c, Tail(s), b)
<1> DEFINE n == Len(s)
           t == Tail(s)
<1>1. /\ n \in Nat /\ n > 0 /\ Len(t) = n - 1 /\ Head(s) = s[1]
      /\ \A i \in 1 .. n - 1 : t[i] = s[i + 1]
  BY TailListed
<1>2. PICK w \in [0 .. n -> Places] :
        /\ w[0] = a /\ w[n] = b
        /\ \A i \in 1 .. n : Goes(dir, k, s[i], w[i - 1], w[i])
        /\ \A i, j \in 0 .. n : i <= j => Later(w[i], w[j])
  BY DEF Path
<1> DEFINE v == [i \in 0 .. n - 1 |-> w[i + 1]]
<1> HIDE DEF n, t
<1>3. v \in [0 .. n - 1 -> Places] /\ v[0] = w[1] /\ v[n - 1] = b
  BY <1>1, <1>2
<1>4. \A i, j \in 0 .. n - 1 : i <= j => Later(v[i], v[j])
  BY <1>1, <1>2
<1>5. \A i \in 1 .. n - 1 : Goes(dir, k, t[i], v[i - 1], v[i])
  <2> SUFFICES ASSUME NEW i \in 1 .. n - 1
               PROVE  Goes(dir, k, t[i], v[i - 1], v[i])
    OBVIOUS
  <2>1. i + 1 \in 1 .. n /\ (i + 1) - 1 = i /\ v[i - 1] = w[i] /\ v[i] = w[i + 1] /\ t[i] = s[i + 1]
    BY <1>1
  <2>2. Goes(dir, k, s[i + 1], w[(i + 1) - 1], w[i + 1])
    BY <1>2, <2>1
  <2> QED
    BY <2>1, <2>2
<1> HIDE DEF v
<1>6. Path(dir, k, w[1], t, b)
  BY <1>1, <1>3, <1>4, <1>5 DEF Path
<1>7. 1 \in 1 .. n /\ 1 - 1 = 0 /\ w[1] \in Places
  BY <1>1, <1>2
<1>8. Goes(dir, k, s[1], w[0], w[1])
  BY <1>2, <1>7
<1> QED
  BY <1>1, <1>2, <1>6, <1>7, <1>8 DEF t

LEMMA PathOn ==
    ASSUME NEW dir, NEW k, NEW s, Listed(s), NEW a, NEW b, Path(dir, k, a, s, b),
           NEW p, NEW c \in Places, Goes(dir, k, p, b, c)
    PROVE  Path(dir, k, a, s \o <<p>>, c)
<1> DEFINE n == Len(s)
           r == s \o <<p>>
<1>1. /\ n \in Nat /\ Len(r) = n + 1 /\ r[n + 1] = p
      /\ \A i \in 1 .. n : r[i] = s[i]
  BY ConcatListed, ShortLists DEF Listed
<1>2. PICK u \in [0 .. n -> Places] :
        /\ u[0] = a /\ u[n] = b
        /\ \A i \in 1 .. n : Goes(dir, k, s[i], u[i - 1], u[i])
        /\ \A i, j \in 0 .. n : i <= j => Later(u[i], u[j])
  BY DEF Path
<1> DEFINE w == [i \in 0 .. n + 1 |-> IF i <= n THEN u[i] ELSE c]
<1> HIDE DEF n, r
<1>3. /\ \A i \in 0 .. n : i \in 0 .. n + 1 /\ w[i] = u[i]
      /\ n + 1 \in 0 .. n + 1 /\ w[n + 1] = c /\ n \in 0 .. n
  BY <1>1
<1>4. w \in [0 .. n + 1 -> Places]
  BY <1>1, <1>2
<1>5. w[0] = a /\ w[n + 1] = c
  BY <1>1, <1>2, <1>3
<1>6. b \in Places /\ Later(b, c)
  BY <1>1, <1>2, GoesLater
<1> HIDE DEF w
<1>7. \A i \in 1 .. n + 1 : Goes(dir, k, r[i], w[i - 1], w[i])
  <2> SUFFICES ASSUME NEW i \in 1 .. n + 1
               PROVE  Goes(dir, k, r[i], w[i - 1], w[i])
    OBVIOUS
  <2>1. CASE i = n + 1
    <3>1. i - 1 = n
      BY <1>1, <2>1
    <3>2. w[i - 1] = b /\ w[i] = c /\ r[i] = p
      BY <1>1, <1>2, <1>3, <2>1, <3>1
    <3> QED
      BY <3>2
  <2>2. CASE i # n + 1
    <3>1. i \in 1 .. n /\ i \in 0 .. n /\ i - 1 \in 0 .. n
      BY <1>1, <2>2
    <3> QED
      BY <1>1, <1>2, <1>3, <3>1
  <2> QED
    BY <2>1, <2>2
<1>8. \A i, j \in 0 .. n + 1 : i <= j => Later(w[i], w[j])
  <2> SUFFICES ASSUME NEW i \in 0 .. n + 1, NEW j \in 0 .. n + 1, i <= j
               PROVE  Later(w[i], w[j])
    OBVIOUS
  <2>1. CASE j \in 0 .. n
    <3>1. i \in 0 .. n
      BY <1>1, <2>1
    <3> QED
      BY <1>2, <1>3, <2>1, <3>1
  <2>2. CASE j \notin 0 .. n
    <3>1. j = n + 1
      BY <1>1, <2>2
    <3>2. CASE i = n + 1
      BY <1>3, <3>1, <3>2, LaterLater
    <3>3. CASE i # n + 1
      <4>1. i \in 0 .. n /\ i <= n
        BY <1>1, <3>3
      <4>2. Later(u[i], b) /\ u[i] \in Places
        BY <1>2, <1>3, <4>1
      <4> QED
        BY <1>3, <1>6, <3>1, <4>1, <4>2, LaterLater
    <3> QED
      BY <3>2, <3>3
  <2> QED
    BY <2>1, <2>2
<1> QED
  BY <1>1, <1>4, <1>5, <1>7, <1>8 DEF Path, r

\* The numbers of a round that both ends have begun.
LEMMA PathBack ==
    ASSUME NEW k, NEW s, Listed(s), NEW a \in {10, 11}, NEW b, Path("down", k, a, s, b)
    PROVE  b \in {10, 11} /\ Path("down", k, a - 7, s, b - 7)
<1> DEFINE n == Len(s)
<1>1. n \in Nat /\ 0 \in 0 .. n /\ n \in 0 .. n /\ \A i \in 0 .. n : 0 <= i
  BY DEF Listed
<1>2. PICK w \in [0 .. n -> Places] :
        /\ w[0] = a /\ w[n] = b
        /\ \A i \in 1 .. n : Goes("down", k, s[i], w[i - 1], w[i])
        /\ \A i, j \in 0 .. n : i <= j => Later(w[i], w[j])
  BY DEF Path
<1> DEFINE v == [i \in 0 .. n |-> w[i] - 7]
<1> HIDE DEF n
<1>3. \A i \in 0 .. n : w[i] \in {10, 11}
  <2> SUFFICES ASSUME NEW i \in 0 .. n
               PROVE  w[i] \in {10, 11}
    OBVIOUS
  <2>1. Later(w[0], w[i])
    BY <1>1, <1>2
  <2> QED
    BY <1>2, <2>1 DEF Later
<1>4. v \in [0 .. n -> Places] /\ \A i \in 0 .. n : v[i] = w[i] - 7
  <2>1. \A i \in 0 .. n : w[i] - 7 \in Places
    BY <1>3 DEF Places
  <2> QED
    BY <2>1
<1>5. v[0] = a - 7 /\ v[n] = b - 7
  BY <1>1, <1>2, <1>4
<1> HIDE DEF v
<1>6. \A i \in 1 .. n : Goes("down", k, s[i], v[i - 1], v[i])
  <2> SUFFICES ASSUME NEW i \in 1 .. n
               PROVE  Goes("down", k, s[i], v[i - 1], v[i])
    OBVIOUS
  <2>1. i \in 0 .. n /\ i - 1 \in 0 .. n
    BY <1>1
  <2>2. /\ Down(k, s[i], w[i - 1], w[i]) /\ s[i].type # "None"
        /\ w[i - 1] \in {10, 11} /\ w[i] \in {10, 11}
    BY <1>2, <1>3, <2>1 DEF Goes
  <2>3. Down(k, s[i], w[i - 1] - 7, w[i] - 7)
    BY <2>2 DEF Down, Layout
  <2> QED
    BY <1>4, <2>1, <2>2, <2>3 DEF Goes
<1>7. \A i, j \in 0 .. n : i <= j => Later(v[i], v[j])
  <2> SUFFICES ASSUME NEW i \in 0 .. n, NEW j \in 0 .. n, i <= j
               PROVE  Later(v[i], v[j])
    OBVIOUS
  <2>1. Later(w[i], w[j]) /\ w[i] \in {10, 11} /\ w[j] \in {10, 11}
    BY <1>2, <1>3
  <2> QED
    BY <1>4, <2>1 DEF Later
<1> QED
  BY <1>1, <1>2, <1>3, <1>4, <1>5, <1>6, <1>7 DEF Path, n

\* Only input is under way when a round has ended.
LEMMA PathAgain ==
    ASSUME NEW k, NEW k2, NEW s, Listed(s), Path("up", k, 9, s, 9)
    PROVE  Path("up", k2, 2, s, 2)
<1> DEFINE n == Len(s)
<1>1. n \in Nat /\ 0 \in 0 .. n /\ n \in 0 .. n /\ \A i \in 0 .. n : i <= n
  BY DEF Listed
<1>2. PICK w \in [0 .. n -> Places] :
        /\ w[0] = 9 /\ w[n] = 9
        /\ \A i \in 1 .. n : Goes("up", k, s[i], w[i - 1], w[i])
        /\ \A i, j \in 0 .. n : i <= j => Later(w[i], w[j])
  BY DEF Path
<1> DEFINE v == [i \in 0 .. n |-> 2]
<1> HIDE DEF n
<1>3. \A i \in 0 .. n : w[i] = 9
  <2> SUFFICES ASSUME NEW i \in 0 .. n
               PROVE  w[i] = 9
    OBVIOUS
  <2>1. Later(w[0], w[i]) /\ Later(w[i], w[n]) /\ w[i] \in Places
    BY <1>1, <1>2
  <2> QED
    BY <1>2, <2>1 DEF Later, Places
<1>4. 2 \in Places /\ v \in [0 .. n -> Places] /\ \A i \in 0 .. n : v[i] = 2
  BY DEF Places
<1> HIDE DEF v
<1>5. \A i \in 1 .. n : Goes("up", k2, s[i], v[i - 1], v[i])
  <2> SUFFICES ASSUME NEW i \in 1 .. n
               PROVE  Goes("up", k2, s[i], v[i - 1], v[i])
    OBVIOUS
  <2>1. i \in 0 .. n /\ i - 1 \in 0 .. n
    BY <1>1
  <2>2. Up(k, s[i], 9, 9) /\ s[i].type # "None"
    BY <1>2, <1>3, <2>1 DEF Goes
  <2>3. Up(k2, s[i], 2, 2)
    BY <2>2 DEF Up
  <2> QED
    BY <1>4, <2>1, <2>2, <2>3 DEF Goes
<1>6. \A i, j \in 0 .. n : Later(v[i], v[j])
  BY <1>4, LaterLater
<1> QED
  BY <1>1, <1>4, <1>5, <1>6 DEF Path, n

LEMMA ClientMeets ==
    ASSUME NEW k, NEW late, NEW ca, NEW cb, NEW cn, ClientHere(k, late, ca, cb, cn),
           UNCHANGED serverVars,
           ClientAutoDetect("CONNECT_TIME_AUTO_DETECT_REQUEST", "LICENSING")
    PROVE  ClientGoes(k, late, cb, cn)
<1>1. /\ cState = "CONNECT_TIME_AUTO_DETECT_REQUEST" /\ cRun = "run"
      /\ ca = 0 /\ LicenceEnd(k, cPdu) /\ ~late /\ cb = Opening(k)
      /\ cPdu # NoPdu
  BY DEF ClientHere, ClientAutoDetect, ClientIn, ClientAt, ClientFit, Down, Batch,
         FinalizationStates
<1>2. ~OnMessageChannel(cPdu)
  BY <1>1 DEF OnMessageChannel, ServerMessageTypes, LicenceEnd
<1>3. /\ cState' = "LICENSING" /\ cRun' = "run" /\ cPdu' = cPdu /\ cOut' = cOut
      /\ UNCHANGED <<cFinalize, cMonitorLayout, cJoined, cMessageChannel, cLicense, cSettings>>
  BY <1>1, <1>2 DEF ClientAutoDetect, ClientTryAgain
<1>4. ClientFit'
  BY <1>1, <1>3 DEF ClientHere, ClientFit, serverVars, Batch, FinalizationStates
<1>5. ClientAt(k, late, cState', ca, cb) /\ Down(k, cPdu', ca, cn)
  BY <1>1, <1>3 DEF ClientHere, ClientAt
<1> QED
  BY <1>1, <1>3, <1>4, <1>5 DEF ClientGoes, ClientHere, Working

LEMMA ClientIsLicensed ==
    ASSUME NEW k, NEW late, NEW ca, NEW cb, NEW cn, ClientHere(k, late, ca, cb, cn),
           UNCHANGED serverVars, ClientLicensing
    PROVE  ClientGoes(k, late, cb, cn)
<1>1. /\ cState = "LICENSING" /\ cRun = "run"
      /\ ca = 0 /\ LicenceEnd(k, cPdu) /\ ~late /\ cb = Opening(k) /\ cn = Opening(k)
  BY DEF ClientHere, ClientLicensing, ClientIn, ClientAt, ClientFit, Down, Batch, FinalizationStates
<1>2. ~OnMessageChannel(cPdu)
  BY <1>1 DEF OnMessageChannel, ServerMessageTypes, LicenceEnd
<1>3. k.licensed => cLicense = "PLATFORM_CHALLENGE_RESPONSE"
  BY <1>1 DEF ClientHere, ClientFit, Terms
<1>4. ~LicenseFails(cPdu) /\ LicenseReply(cPdu) = <<>> /\ LicenseAfter(cPdu) = "COMPLETED"
  <2>1. CASE k.licensed
    BY <1>1, <1>3, <2>1 DEF LicenceEnd, LicenseFails, LicenseReply, LicenseAfter
  <2>2. CASE ~k.licensed
    BY <1>1, <2>2 DEF LicenceEnd, LicenseFails, LicenseReply, LicenseAfter, AfterAlert
  <2> QED
    BY <2>1, <2>2
<1>5. /\ cLicense' = "COMPLETED" /\ cState' = LicensedState("COMPLETED")
      /\ cRun' = "idle" /\ cPdu' = NoPdu /\ cOut' = cOut
      /\ UNCHANGED <<cFinalize, cMonitorLayout, cJoined, cMessageChannel, cSettings>>
  BY <1>1, <1>2, <1>4, NothingSent DEF ClientLicensing, ClientSend, ClientSuccess, ClientHere
<1>6. cSettings.multitransport \/ ~k.transport
  BY DEF ClientHere, Known, Terms
<1>7. ClientAt(k, late, cState', cn, cb) /\ Down(k, cPdu', cn, cn)
  BY <1>1, <1>5, <1>6 DEF ClientAt, LicensedState, Opening, Down
<1>8. ClientFit'
  BY <1>5 DEF LicensedState, ClientFit, Batch, FinalizationStates
<1> QED
  BY <1>5, <1>7, <1>8 DEF ClientGoes, ClientHere, Working

LEMMA ClientBootstraps ==
    ASSUME NEW k, NEW late, NEW ca, NEW cb, NEW cn, ClientHere(k, late, ca, cb, cn),
           UNCHANGED serverVars,
           ClientAutoDetect("MULTITRANSPORT_BOOTSTRAPPING_REQUEST",
                            "CAPABILITIES_EXCHANGE_DEMAND_ACTIVE")
    PROVE  ClientGoes(k, late, cb, cn)
<1>1. /\ cState = "MULTITRANSPORT_BOOTSTRAPPING_REQUEST" /\ cRun = "run"
      /\ ~late /\ cb = ca /\ ca \in {1, 2} /\ cPdu # NoPdu
      /\ \/ cPdu.type = "MultitransportRequest" /\ k.transport /\ ca = 1 /\ cn = 2
         \/ cPdu.type = "DemandActive" /\ ca = 2
  BY DEF ClientHere, ClientAutoDetect, ClientIn, ClientAt, ClientFit, Down, Batch,
         FinalizationStates, Opening
<1>2. CASE cPdu.type = "MultitransportRequest"
  <2>1. OnMessageChannel(cPdu) /\ ~MessageFails(cPdu)
    BY <1>1, <1>2 DEF OnMessageChannel, ServerMessageTypes, MessageFails, ClientHere, Known, Terms
  <2>2. MessageReply(cPdu) = <<Pdu("MultitransportResponse")>>
    BY <1>2 DEF MessageReply
  <2>3. /\ cState' = cState /\ cRun' = "idle" /\ cPdu' = NoPdu
        /\ cOut' = cOut \o <<Pdu("MultitransportResponse")>>
        /\ UNCHANGED <<cFinalize, cMonitorLayout, cJoined, cMessageChannel, cLicense, cSettings>>
    BY <1>1, <1>2, <2>1, <2>2 DEF ClientAutoDetect, ClientSuccess, ClientSend, MessageLicense
  <2>4. ClientAt(k, late, cState', 2, 2) /\ Down(k, cPdu', 2, cn) /\ 2 \in Places
    BY <1>1, <1>2, <2>3 DEF ClientAt, Down, Places
  <2>5. Goes("up", k, Pdu("MultitransportResponse"), cb, 2)
    BY <1>1, <1>2 DEF Goes, Up, Pdu
  <2>6. ClientFit'
    BY <1>1, <2>3 DEF ClientHere, ClientFit, Batch, FinalizationStates
  <2> QED
    BY <2>3, <2>4, <2>5, <2>6 DEF ClientGoes, Working
<1>3. CASE cPdu.type = "DemandActive"
  <2>1. ~OnMessageChannel(cPdu)
    BY <1>3 DEF OnMessageChannel, ServerMessageTypes
  <2>2. /\ cState' = "CAPABILITIES_EXCHANGE_DEMAND_ACTIVE" /\ cRun' = "run" /\ cPdu' = cPdu
        /\ cOut' = cOut
        /\ UNCHANGED <<cFinalize, cMonitorLayout, cJoined, cMessageChannel, cLicense, cSettings>>
    BY <1>1, <2>1 DEF ClientAutoDetect, ClientTryAgain
  <2>3. ClientAt(k, late, cState', ca, cb) /\ Down(k, cPdu', ca, cn)
    BY <1>1, <1>3, <2>2 DEF ClientAt, ClientHere
  <2>4. ClientFit'
    BY <1>1, <2>2 DEF ClientHere, ClientFit, Batch, FinalizationStates
  <2> QED
    BY <2>2, <2>3, <2>4 DEF ClientGoes, ClientHere, Working
<1> QED
  BY <1>1, <1>2, <1>3

\* rdp_recv_pdu on a PDU that is not answered.
LEMMA ClientRecv ==
    ASSUME Listed(cOut), NEW state, NEW returns, RecvPdu(cPdu, state, returns),
           cPdu.type \notin ServerMessageTypes
    PROVE  /\ cState' = state /\ cOut' = cOut /\ returns
           /\ cFinalize' = FinalizeAfter(cPdu) /\ cMonitorLayout' = MonitorLayoutAfter(cPdu)
           /\ UNCHANGED <<cJoined, cMessageChannel, cLicense, cSettings>>
<1>1. MessageReply(cPdu) = <<>> /\ MessageLicense(cPdu) = cLicense
  BY DEF MessageReply, MessageLicense, ServerMessageTypes
<1> QED
  BY <1>1, NothingSent DEF RecvPdu, ClientSend

LEMMA ClientIsAsked ==
    ASSUME NEW k, NEW late, NEW ca, NEW cb, NEW cn, ClientHere(k, late, ca, cb, cn),
           UNCHANGED serverVars, ClientDemandActive
    PROVE  \/ ClientGoes(k, late, cb, cn)
           \/ ClientBeginsAgain(k, late, cb, cn)
           \/ /\ cn = 12 /\ ca = 9 /\ cRun' = "closed"
              /\ cState' # "ACTIVE" /\ cPdu' = NoPdu
<1>1. /\ cState = "CAPABILITIES_EXCHANGE_DEMAND_ACTIVE" /\ cRun = "run"
      /\ ca = (IF late THEN 9 ELSE 2) /\ cb = 2 /\ cPdu # NoPdu
      /\ \/ cPdu.type = "DemandActive" /\ cn = Layout(k) + (IF late THEN 7 ELSE 0)
         \/ cPdu.type = "ErrorInfo" /\ ca = 9 /\ cn = 9
         \/ cPdu.type = "DisconnectUltimatum" /\ ca = 9 /\ cn = 12
  <2>1. /\ cState = "CAPABILITIES_EXCHANGE_DEMAND_ACTIVE" /\ cRun = "run"
        /\ ca = (IF late THEN 9 ELSE 2) /\ cb = 2 /\ cPdu # NoPdu
    BY DEF ClientHere, ClientDemandActive, ClientIn, ClientAt, ClientFit, Batch, FinalizationStates
  <2>2. Layout(k) \in {3, 4} /\ Down(k, cPdu, ca, cn)
    BY DEF Layout, ClientHere
  <2> QED
    BY <2>1, <2>2 DEF Down
<1>2. CASE cPdu.type = "DemandActive"
  <2>1. RecvPdu(cPdu, "CAPABILITIES_EXCHANGE_CONFIRM_ACTIVE", ClientContinue)
    BY <1>2 DEF ClientDemandActive
  <2>2. /\ cState' = "CAPABILITIES_EXCHANGE_CONFIRM_ACTIVE" /\ cOut' = cOut
        /\ cRun' = "run" /\ cPdu' = NoPdu
        /\ UNCHANGED <<cJoined, cMessageChannel, cLicense, cSettings>>
    <3>1. Listed(cOut) /\ cPdu.type \notin ServerMessageTypes
      BY <1>2 DEF ClientHere, ServerMessageTypes
    <3> QED
      BY <2>1, <3>1, ClientRecv DEF ClientContinue
  <2>3. ClientFit'
    BY <2>2 DEF ClientFit, Batch, FinalizationStates
  <2>4. ClientAt(k, FALSE, cState', Layout(k), cb) /\ Layout(k) \in Places
    BY <1>1, <2>2 DEF ClientAt, Layout, Places
  <2>5. CASE late
    BY <1>1, <1>2, <2>2, <2>3, <2>4, <2>5 DEF ClientBeginsAgain
  <2>6. CASE ~late
    <3>1. cn = Layout(k) /\ late = FALSE
      BY <1>1, <1>2, <2>6 DEF Layout, ClientHere
    <3>2. Down(k, cPdu', Layout(k), cn)
      BY <2>2, <3>1 DEF Down
    <3> QED
      BY <2>2, <2>3, <2>4, <3>1, <3>2 DEF ClientGoes, ClientHere, Working
  <2> QED
    BY <2>5, <2>6
<1>3. CASE cPdu.type = "ErrorInfo"
  <2>1. ~RecvFails(cPdu) /\ cPdu.type \in ServerDataTypes /\ cPdu.type \notin ServerMessageTypes
    BY <1>3 DEF RecvFails, ServerMcsTypes, OnMessageChannel, ServerMessageTypes, ServerDataTypes
  <2>2. RecvPdu(cPdu, cState, RecvReturns(cPdu))
    BY <1>3, <2>1 DEF ClientDemandActive
  <2>3. RecvReturns(cPdu) => ClientSuccess
    BY <1>3 DEF RecvReturns
  <2>4. /\ cState' = cState /\ cOut' = cOut /\ cRun' = "idle" /\ cPdu' = NoPdu
        /\ UNCHANGED <<cJoined, cMessageChannel, cLicense, cSettings>>
    <3>1. Listed(cOut)
      BY DEF ClientHere
    <3> QED
      BY <2>1, <2>2, <2>3, <3>1, ClientRecv DEF ClientSuccess
  <2>5. ClientFit'
    BY <1>1, <2>4 DEF ClientFit, Batch, FinalizationStates
  <2>6. ClientAt(k, late, cState', 9, cb) /\ Down(k, cPdu', 9, cn) /\ 9 \in Places
    BY <1>1, <1>3, <2>4 DEF ClientAt, Down, Places
  <2> QED
    BY <2>4, <2>5, <2>6 DEF ClientGoes, ClientHere, Working
<1>4. CASE cPdu.type = "DisconnectUltimatum"
  <2>1. ~RecvFails(cPdu) /\ cPdu.type \notin ServerMessageTypes
    BY <1>4 DEF RecvFails, ServerMcsTypes, OnMessageChannel, ServerMessageTypes
  <2>2. RecvPdu(cPdu, cState, RecvReturns(cPdu))
    BY <1>4, <2>1 DEF ClientDemandActive
  <2>3. RecvReturns(cPdu) => ClientQuit
    BY <1>4 DEF RecvReturns
  <2>4. cRun' = "closed" /\ cState' = cState /\ cPdu' = NoPdu
    BY <2>2, <2>3 DEF ClientQuit, RecvPdu
  <2> QED
    BY <1>1, <1>4, <2>4
<1> QED
  BY <1>1, <1>2, <1>3, <1>4

LEMMA ClientConfirmsAgain ==
    ASSUME NEW k, NEW late, NEW ca, NEW cb, NEW cn, ClientHere(k, late, ca, cb, cn),
           UNCHANGED serverVars, ClientConfirmActive
    PROVE  ClientGoes(k, late, cb, cn)
<1> DEFINE p == [type |-> "ConfirmActive", persist |-> cSettings.persist]
<1>1. /\ cState = "CAPABILITIES_EXCHANGE_CONFIRM_ACTIVE" /\ cRun = "run"
      /\ ca = Layout(k) /\ cb = 2 /\ cPdu = NoPdu /\ ~late
  BY DEF ClientHere, ClientConfirmActive, ClientIn, ClientAt, ClientFit
<1>2. cOut' = cOut \o <<p>> /\ Goes("up", k, p, cb, 4) /\ 4 \in Places /\ ca \in Places
  <2>1. cOut' = cOut \o <<p>> /\ p.type = "ConfirmActive" /\ p.persist = cSettings.persist
    BY DEF ClientConfirmActive, ClientSend
  <2>2. k.persist = cSettings.persist
    BY DEF ClientHere, Terms
  <2> QED
    BY <1>1, <2>1, <2>2 DEF Goes, Up, Places, Layout
<1> HIDE DEF p
<1>3. CASE cSettings.monitorLayout
  <2>1. /\ cState' = "CAPABILITIES_EXCHANGE_MONITOR_LAYOUT" /\ cRun' = "idle" /\ cPdu' = NoPdu
        /\ cFinalize' = cFinalize \cap {"DEACTIVATE_REACTIVATE"} /\ cMonitorLayout' = FALSE
        /\ UNCHANGED <<cJoined, cMessageChannel, cLicense, cSettings>>
    BY <1>3 DEF ClientConfirmActive, ResetFinalizeFlags, ClientSuccess
  <2>2. ClientAt(k, late, cState', ca, 4) /\ Down(k, cPdu', ca, cn)
    BY <1>1, <2>1 DEF ClientHere, ClientAt
  <2>3. ClientFit'
    BY <1>3, <2>1 DEF ClientFit, Batch, FinalizationStates, ClientLacks, ServerFlags
  <2> QED
    BY <1>2, <2>1, <2>2, <2>3 DEF ClientGoes, Working
<1>4. CASE ~cSettings.monitorLayout
  <2>1. /\ cState' = "FINALIZATION_SYNC" /\ cRun' = "run" /\ cPdu' = NoPdu
        /\ UNCHANGED <<cFinalize, cMonitorLayout, cJoined, cMessageChannel, cLicense, cSettings>>
    BY <1>4 DEF ClientConfirmActive, ClientContinue
  <2>2. ClientAt(k, late, cState', ca, 4) /\ Down(k, cPdu', ca, cn)
    BY <1>1, <2>1 DEF ClientHere, ClientAt
  <2>3. ClientFit'
    BY <1>4, <2>1 DEF ClientFit, Batch, FinalizationStates
  <2> QED
    BY <1>2, <2>1, <2>2, <2>3 DEF ClientGoes, Working
<1> QED
  BY <1>3, <1>4

LEMMA ClientWaitsForLayout ==
    ASSUME NEW k, NEW late, NEW ca, NEW cb, NEW cn, ClientHere(k, late, ca, cb, cn),
           UNCHANGED serverVars, ClientMonitorLayout
    PROVE  ClientGoes(k, late, cb, cn)
<1>1. /\ cState = "CAPABILITIES_EXCHANGE_MONITOR_LAYOUT" /\ cRun = "run"
      /\ ca = Layout(k) /\ cb = 4 /\ cPdu # NoPdu /\ ~late
      /\ ClientLacks(ServerFlags) /\ ~cMonitorLayout /\ cSettings.monitorLayout
  BY DEF ClientHere, ClientMonitorLayout, ClientIn, ClientAt, ClientFit, Batch, FinalizationStates
<1>2. \/ cPdu.type = "MonitorLayout"
      \/ cPdu.type = "Synchronize"
      \/ cPdu.type = "ChannelData" /\ cn = ca
  BY <1>1 DEF ClientHere, Down, Layout
<1>3. /\ ~RecvFails(cPdu) /\ cPdu.type \notin ServerMessageTypes
      /\ StateAfter(cPdu) = cState
  BY <1>1, <1>2 DEF RecvFails, ServerMcsTypes, OnMessageChannel, ServerMessageTypes, StateAfter
<1>4. Listed(cOut)
  BY DEF ClientHere
<1>5. CASE cPdu.type = "ChannelData"
  <2>1. FinalizeAfter(cPdu) = cFinalize /\ ~MonitorLayoutAfter(cPdu)
    BY <1>1, <1>5 DEF FinalizeAfter, MonitorLayoutAfter, ScFlag
  <2>2. RecvPdu(cPdu, cState, RecvReturns(cPdu))
    BY <1>1, <1>3, <2>1 DEF ClientMonitorLayout
  <2>3. RecvReturns(cPdu) => ClientSuccess
    BY <1>5 DEF RecvReturns
  <2>4. /\ cState' = cState /\ cOut' = cOut /\ cRun' = "idle" /\ cPdu' = NoPdu
        /\ cFinalize' = cFinalize /\ ~cMonitorLayout'
        /\ UNCHANGED <<cJoined, cMessageChannel, cLicense, cSettings>>
    BY <1>3, <1>4, <1>5, <2>1, <2>2, <2>3, ClientRecv DEF ClientSuccess
  <2>5. ClientFit'
    BY <1>1, <2>4 DEF ClientFit, Batch, FinalizationStates, ClientLacks
  <2>6. ClientAt(k, late, cState', ca, cb) /\ Down(k, cPdu', ca, cn)
    BY <1>1, <1>2, <1>5, <2>4 DEF ClientAt, ClientHere, Down
  <2> QED
    BY <2>4, <2>5, <2>6 DEF ClientGoes, ClientHere, Working
<1>6. CASE cPdu.type \in {"MonitorLayout", "Synchronize"}
  <2>1. /\ cPdu.type = "MonitorLayout" => MonitorLayoutAfter(cPdu)
        /\ cPdu.type = "Synchronize" => /\ ~MonitorLayoutAfter(cPdu)
                                        /\ "SC_SYNCHRONIZE" \in FinalizeAfter(cPdu)
                                        /\ FinalizeAfter(cPdu) # cFinalize
    <3>1. cPdu.type = "Synchronize" => /\ ~MonitorLayoutAfter(cPdu)
                                       /\ "SC_SYNCHRONIZE" \in FinalizeAfter(cPdu)
      BY <1>1 DEF MonitorLayoutAfter, FinalizeAfter, ScFlag
    <3>2. "SC_SYNCHRONIZE" \notin cFinalize
      BY <1>1 DEF ClientLacks, ServerFlags
    <3>3. cPdu.type = "MonitorLayout" => MonitorLayoutAfter(cPdu)
      BY DEF MonitorLayoutAfter
    <3> QED
      BY <3>1, <3>2, <3>3
  <2>2. RecvPdu(cPdu, "FINALIZATION_SYNC", ClientTryAgain)
    BY <1>1, <1>3, <1>6, <2>1 DEF ClientMonitorLayout
  <2>3. /\ cState' = "FINALIZATION_SYNC" /\ cOut' = cOut /\ cRun' = "run" /\ cPdu' = cPdu
        /\ cFinalize' = FinalizeAfter(cPdu) /\ cMonitorLayout' = MonitorLayoutAfter(cPdu)
        /\ UNCHANGED <<cJoined, cMessageChannel, cLicense, cSettings>>
    BY <1>1, <1>3, <1>4, <2>2, ClientRecv DEF ClientTryAgain
  <2>4. /\ cPdu.type = "MonitorLayout" => ClientLacks(ServerFlags)'
        /\ cPdu.type = "Synchronize" =>
               ClientLacks({"SC_CONTROL_COOPERATE", "SC_CONTROL_GRANTED", "SC_FONT_MAP"})'
    BY <1>1, <1>6, <2>3 DEF ClientLacks, ServerFlags, FinalizeAfter, ScFlag
  <2>5. ClientFit'
    BY <1>1, <1>6, <2>1, <2>3, <2>4 DEF ClientFit, Batch, FinalizationStates
  <2>6. ClientAt(k, late, cState', ca, cb) /\ Down(k, cPdu', ca, cn)
    BY <1>1, <2>3 DEF ClientAt, ClientHere
  <2> QED
    BY <2>3, <2>5, <2>6 DEF ClientGoes, ClientHere, Working
<1> QED
  BY <1>2, <1>5, <1>6

\* One PDU of the batch.
LEMMA ClientSendsOne ==
    ASSUME NEW k, NEW late, NEW ca, NEW cb, NEW cn, ClientHere(k, late, ca, cb, cn),
           UNCHANGED serverVars, NEW state, NEW type, NEW next, NEW b \in Places,
           SendFinalizePdu(state, type, next),
           state \in FinalizationStates, next \in FinalizationStates,
           Goes("up", k, Pdu(type), cb, b), ClientAt(k, FALSE, next, Layout(k), b)
    PROVE  ClientGoes(k, late, cb, cn)
<1>1. /\ cState \in FinalizationStates /\ cRun = "run" /\ ca = Layout(k) /\ ~late
  BY DEF ClientHere, SendFinalizePdu, ClientIn, ClientAt, FinalizationStates
<1>2. /\ cState' = next /\ cOut' = cOut \o <<Pdu(type)>>
      /\ UNCHANGED <<cRun, cPdu, cFinalize, cMonitorLayout, cJoined, cMessageChannel,
                     cLicense, cSettings>>
  BY DEF SendFinalizePdu, ClientSend
<1>3. ClientFit'
  BY <1>1, <1>2 DEF ClientHere, ClientFit, Batch, FinalizationStates, ClientLacks
<1>4. ClientAt(k, late, cState', ca, b) /\ Down(k, cPdu', ca, cn) /\ late = FALSE
  BY <1>1, <1>2 DEF ClientHere
<1> QED
  BY <1>1, <1>2, <1>3, <1>4 DEF ClientGoes, ClientHere, Working

LEMMA ClientSendsBatch ==
    ASSUME NEW k, NEW late, NEW ca, NEW cb, NEW cn, ClientHere(k, late, ca, cb, cn),
           UNCHANGED serverVars, k.keys <=> SendsKeyList,
           SendSynchronize \/ SendCooperate \/ SendRequestControl \/ SendPersistentKeyList
    PROVE  ClientGoes(k, late, cb, cn)
<1>1. CASE SendSynchronize
  <2>1. cb = 4 /\ 5 \in Places
    BY <1>1 DEF ClientHere, SendSynchronize, SendFinalizePdu, ClientIn, ClientAt, Places
  <2>2. /\ Goes("up", k, Pdu("Synchronize"), cb, 5)
        /\ ClientAt(k, FALSE, "FINALIZATION_COOPERATE", Layout(k), 5)
    BY <2>1 DEF Goes, Up, Pdu, ClientAt
  <2> QED
    BY <1>1, <2>1, <2>2, ClientSendsOne DEF SendSynchronize, FinalizationStates
<1>2. CASE SendCooperate
  <2>1. cb = 5 /\ 6 \in Places
    BY <1>2 DEF ClientHere, SendCooperate, SendFinalizePdu, ClientIn, ClientAt, Places
  <2>2. /\ Goes("up", k, Pdu("ControlCooperate"), cb, 6)
        /\ ClientAt(k, FALSE, "FINALIZATION_REQUEST_CONTROL", Layout(k), 6)
    BY <2>1 DEF Goes, Up, Pdu, ClientAt
  <2> QED
    BY <1>2, <2>1, <2>2, ClientSendsOne DEF SendCooperate, FinalizationStates
<1>3. CASE SendRequestControl
  <2> DEFINE next == IF SendsKeyList THEN "FINALIZATION_PERSISTENT_KEY_LIST"
                                     ELSE "FINALIZATION_FONT_LIST"
  <2>1. cb = 6 /\ Lists(k) \in Places
    BY <1>3 DEF ClientHere, SendRequestControl, SendFinalizePdu, ClientIn, ClientAt, Places, Lists
  <2>2. /\ Goes("up", k, Pdu("ControlRequest"), cb, Lists(k))
        /\ ClientAt(k, FALSE, next, Layout(k), Lists(k))
    BY <2>1 DEF Goes, Up, Pdu, ClientAt, Lists
  <2>3. SendFinalizePdu("FINALIZATION_REQUEST_CONTROL", "ControlRequest", next)
    BY <1>3 DEF SendRequestControl
  <2>4. next \in FinalizationStates
    BY DEF FinalizationStates
  <2>5. "FINALIZATION_REQUEST_CONTROL" \in FinalizationStates
    BY DEF FinalizationStates
  <2> HIDE DEF next
  <2> QED
    BY <2>1, <2>2, <2>3, <2>4, <2>5, ClientSendsOne
<1>4. CASE SendPersistentKeyList
  <2>1. cb = 7 /\ k.keys /\ 8 \in Places
    BY <1>4 DEF ClientHere, SendPersistentKeyList, SendFinalizePdu, ClientIn, ClientAt, Places
  <2>2. /\ Goes("up", k, Pdu("PersistentKeyList"), cb, 8)
        /\ ClientAt(k, FALSE, "FINALIZATION_FONT_LIST", Layout(k), 8)
    BY <2>1 DEF Goes, Up, Pdu, ClientAt
  <2> QED
    BY <1>4, <2>1, <2>2, ClientSendsOne DEF SendPersistentKeyList, FinalizationStates
<1> QED
  BY <1>1, <1>2, <1>3, <1>4

LEMMA ClientEndsBatch ==
    ASSUME NEW k, NEW late, NEW ca, NEW cb, NEW cn, ClientHere(k, late, ca, cb, cn),
           UNCHANGED serverVars, SendFontList
    PROVE  ClientGoes(k, late, cb, cn)
<1>1. /\ cState = "FINALIZATION_FONT_LIST" /\ cRun = "run" /\ ca = Layout(k) /\ cb = 8 /\ ~late
  BY DEF ClientHere, SendFontList, ClientIn, ClientAt
<1>2. /\ cState' = "FINALIZATION_CLIENT_SYNC" /\ cOut' = cOut \o <<Pdu("FontList")>>
      /\ UNCHANGED <<cJoined, cMessageChannel, cLicense, cSettings>>
  BY DEF SendFontList, ClientSend
<1>3. Goes("up", k, Pdu("FontList"), cb, 9) /\ 9 \in Places /\ 4 \in Places
  BY <1>1 DEF Goes, Up, Pdu, Places
<1>4. ClientAt(k, late, cState', 4, 9)
  BY <1>1, <1>2 DEF ClientAt
<1>5. k.layout => cSettings.monitorLayout
  BY DEF ClientHere, Known, Terms
<1>6. CASE ~cSettings.monitorLayout
  <2>1. cPdu = NoPdu /\ Layout(k) = 4 /\ cn = 4
    BY <1>1, <1>5, <1>6 DEF ClientHere, ClientFit, FinalizationStates, Layout, Down, NoPdu, Pdu
  <2>2. /\ cRun' = "idle" /\ cPdu' = NoPdu /\ cFinalize' = cFinalize \cap {"DEACTIVATE_REACTIVATE"}
    BY <1>6 DEF SendFontList, ResetFinalizeFlags, ClientSuccess
  <2>3. ClientFit'
    BY <1>2, <2>2 DEF ClientFit, Batch, FinalizationStates, ClientLacks
  <2>4. Down(k, cPdu', 4, cn)
    BY <2>1, <2>2 DEF Down
  <2> QED
    BY <1>2, <1>3, <1>4, <2>2, <2>3, <2>4 DEF ClientGoes, Working
<1>7. CASE cSettings.monitorLayout /\ cMonitorLayout
  <2>1. cPdu.type = "MonitorLayout" /\ ClientLacks(ServerFlags)
    BY <1>1, <1>7 DEF ClientHere, ClientFit, FinalizationStates
  <2>2. cn = 4
    BY <1>1, <2>1 DEF ClientHere, Down, Layout, NoPdu, Pdu
  <2>3. /\ cRun' = "idle" /\ cPdu' = NoPdu /\ cFinalize' = cFinalize
    BY <1>7 DEF SendFontList, ClientSuccess
  <2>4. ClientFit'
    BY <1>2, <2>1, <2>3 DEF ClientFit, Batch, FinalizationStates, ClientLacks, ServerFlags
  <2>5. Down(k, cPdu', 4, cn)
    BY <2>2, <2>3 DEF Down
  <2> QED
    BY <1>2, <1>3, <1>4, <2>3, <2>4, <2>5 DEF ClientGoes, Working
<1>8. CASE cSettings.monitorLayout /\ ~cMonitorLayout
  <2>1. /\ cPdu.type = "Synchronize"
        /\ ClientLacks({"SC_CONTROL_COOPERATE", "SC_CONTROL_GRANTED", "SC_FONT_MAP"})
    BY <1>1, <1>8 DEF ClientHere, ClientFit, FinalizationStates
  <2>2. ca = 4
    BY <1>1, <2>1 DEF ClientHere, Down, Layout, NoPdu, Pdu
  <2>3. /\ cRun' = "run" /\ cPdu' = cPdu /\ cFinalize' = cFinalize
    BY <1>1, <1>8 DEF SendFontList, ClientTryAgain
  <2>4. cPdu # NoPdu
    BY <2>1 DEF NoPdu, Pdu
  <2>5. ClientFit'
    BY <1>2, <2>1, <2>3, <2>4 DEF ClientFit, Batch, FinalizationStates, ClientLacks
  <2>6. Down(k, cPdu', 4, cn)
    BY <2>2, <2>3 DEF ClientHere
  <2> QED
    BY <1>2, <1>3, <1>4, <2>3, <2>5, <2>6 DEF ClientGoes, Working
<1> QED
  BY <1>6, <1>7, <1>8

\* rdp_recv_pdu in the states in which the client waits for the server.
LEMMA ClientReadsOn ==
    ASSUME NEW k, NEW late, NEW ca, NEW cb, NEW cn, ClientHere(k, late, ca, cb, cn),
           UNCHANGED serverVars, NEW state, NEW returns, RecvPdu(cPdu, state, returns),
           returns => ClientSuccess, cPdu.type \notin ServerMessageTypes,
           ClientAt(k, late, state, cn, cb),
           state \in ClientFinalizationStates
                        \cup {"ACTIVE", "CAPABILITIES_EXCHANGE_DEMAND_ACTIVE"},
           state = "FINALIZATION_CLIENT_SYNC" => ClientLacks(ServerFlags)',
           state = "FINALIZATION_CLIENT_COOPERATE" =>
               ClientLacks({"SC_CONTROL_COOPERATE", "SC_CONTROL_GRANTED", "SC_FONT_MAP"})',
           state = "FINALIZATION_CLIENT_GRANTED_CONTROL" =>
               ClientLacks({"SC_CONTROL_GRANTED", "SC_FONT_MAP"})',
           state = "FINALIZATION_CLIENT_FONT_MAP" => ClientLacks({"SC_FONT_MAP"})'
    PROVE  ClientGoes(k, late, cb, cn)
<1>1. Listed(cOut)
  BY DEF ClientHere
<1>2. /\ cState' = state /\ cOut' = cOut /\ cRun' = "idle" /\ cPdu' = NoPdu
      /\ UNCHANGED <<cJoined, cMessageChannel, cLicense, cSettings>>
  BY <1>1, ClientRecv DEF ClientSuccess
<1>3. ClientFit'
  BY <1>2 DEF ClientFit, Batch, FinalizationStates, ClientFinalizationStates, ClientLacks,
              ServerFlags
<1>4. ClientAt(k, late, cState', cn, cb) /\ Down(k, cPdu', cn, cn)
  BY <1>2 DEF Down
<1> QED
  BY <1>2, <1>3, <1>4 DEF ClientGoes, ClientHere, Working

LEMMA ClientFinalizesOn ==
    ASSUME NEW k, NEW late, NEW ca, NEW cb, NEW cn, ClientHere(k, late, ca, cb, cn),
           UNCHANGED serverVars,
           NEW state, NEW flag, NEW next, NEW expected, HandleScFlags(state, flag, next),
           \/ /\ state = "FINALIZATION_CLIENT_SYNC" /\ flag = "SC_SYNCHRONIZE"
              /\ next = "FINALIZATION_CLIENT_COOPERATE" /\ expected = "Synchronize"
           \/ /\ state = "FINALIZATION_CLIENT_COOPERATE" /\ flag = "SC_CONTROL_COOPERATE"
              /\ next = "FINALIZATION_CLIENT_GRANTED_CONTROL" /\ expected = "ControlCooperate"
           \/ /\ state = "FINALIZATION_CLIENT_GRANTED_CONTROL" /\ flag = "SC_CONTROL_GRANTED"
              /\ next = "FINALIZATION_CLIENT_FONT_MAP" /\ expected = "ControlGranted"
           \/ /\ state = "FINALIZATION_CLIENT_FONT_MAP" /\ flag = "SC_FONT_MAP"
              /\ next = "ACTIVE" /\ expected = "FontMap"
    PROVE  ClientGoes(k, late, cb, cn)
<1>1. cState = state /\ cRun = "run" /\ cPdu # NoPdu
  BY DEF ClientHere, HandleScFlags, ClientIn, ClientFit, Batch, FinalizationStates
<1>2. cb = (IF late THEN 2 ELSE 9) /\ ca \in 4 .. 7
  BY <1>1 DEF ClientHere, ClientAt
<1>3. \/ cPdu.type = expected /\ cn = ca + 1
      \/ cPdu.type = "ChannelData" /\ cn = ca
  BY <1>1, <1>2 DEF ClientHere, ClientAt, Down, Layout
<1>4. /\ ~RecvFails(cPdu) /\ cPdu.type \notin ServerMessageTypes
      /\ StateAfter(cPdu) = cState /\ cPdu.type # "DisconnectUltimatum"
  BY <1>3 DEF RecvFails, ServerMcsTypes, OnMessageChannel, ServerMessageTypes, StateAfter
<1>5. RecvReturns(cPdu) => ClientSuccess
  BY <1>3 DEF RecvReturns
<1>6. CASE cPdu.type = expected
  <2>1. FinalizeAfter(cPdu) = cFinalize \cup {flag}
    BY <1>6 DEF FinalizeAfter, ScFlag
  <2>2. RecvPdu(cPdu, next, ClientSuccess)
    BY <1>4, <2>1 DEF HandleScFlags
  <2>3. cFinalize' = cFinalize \cup {flag}
    BY <2>1, <2>2 DEF RecvPdu
  <2>4. ClientAt(k, late, next, cn, cb)
    BY <1>1, <1>2, <1>3, <1>6 DEF ClientHere, ClientAt
  <2>5. next = "FINALIZATION_CLIENT_COOPERATE" =>
            ClientLacks({"SC_CONTROL_COOPERATE", "SC_CONTROL_GRANTED", "SC_FONT_MAP"})'
    BY <1>1, <2>3 DEF ClientHere, ClientFit, ClientLacks
  <2>6. next = "FINALIZATION_CLIENT_GRANTED_CONTROL" =>
            ClientLacks({"SC_CONTROL_GRANTED", "SC_FONT_MAP"})'
    BY <1>1, <2>3 DEF ClientHere, ClientFit, ClientLacks
  <2>7. next = "FINALIZATION_CLIENT_FONT_MAP" => ClientLacks({"SC_FONT_MAP"})'
    BY <1>1, <2>3 DEF ClientHere, ClientFit, ClientLacks
  <2>8. /\ next # "FINALIZATION_CLIENT_SYNC"
        /\ next \in ClientFinalizationStates \cup {"ACTIVE", "CAPABILITIES_EXCHANGE_DEMAND_ACTIVE"}
    BY DEF ClientFinalizationStates
  <2> QED
    BY <1>4, <2>2, <2>4, <2>5, <2>6, <2>7, <2>8, ClientReadsOn
<1>7. CASE cPdu.type = "ChannelData"
  <2>1. FinalizeAfter(cPdu) = cFinalize
    BY <1>7 DEF FinalizeAfter, ScFlag
  <2>2. flag \notin cFinalize
    BY <1>1, <1>7 DEF ClientHere, ClientFit, ClientLacks
  <2>3. RecvPdu(cPdu, cState, RecvReturns(cPdu))
    BY <1>4, <2>1, <2>2 DEF HandleScFlags
  <2>4. cFinalize' = cFinalize
    BY <2>1, <2>3 DEF RecvPdu
  <2>5. ClientAt(k, late, cState, cn, cb)
    BY <1>3, <1>7 DEF ClientHere
  <2>6. cState = "FINALIZATION_CLIENT_SYNC" => ClientLacks(ServerFlags)'
    BY <1>7, <2>4 DEF ClientHere, ClientFit, ClientLacks, ServerFlags
  <2>7. cState = "FINALIZATION_CLIENT_COOPERATE" =>
            ClientLacks({"SC_CONTROL_COOPERATE", "SC_CONTROL_GRANTED", "SC_FONT_MAP"})'
    BY <2>4 DEF ClientHere, ClientFit, ClientLacks
  <2>8. cState = "FINALIZATION_CLIENT_GRANTED_CONTROL" =>
            ClientLacks({"SC_CONTROL_GRANTED", "SC_FONT_MAP"})'
    BY <2>4 DEF ClientHere, ClientFit, ClientLacks
  <2>9. cState = "FINALIZATION_CLIENT_FONT_MAP" => ClientLacks({"SC_FONT_MAP"})'
    BY <2>4 DEF ClientHere, ClientFit, ClientLacks
  <2>10. cState \in ClientFinalizationStates
    BY <1>1 DEF ClientFinalizationStates
  <2> QED
    BY <1>1, <1>4, <1>5, <2>3, <2>5, <2>6, <2>7, <2>8, <2>9, <2>10, ClientReadsOn
<1> QED
  BY <1>3, <1>6, <1>7

LEMMA ClientIsActiveOn ==
    ASSUME NEW k, NEW late, NEW ca, NEW cb, NEW cn, ClientHere(k, late, ca, cb, cn),
           UNCHANGED serverVars, ClientActive
    PROVE  ClientGoes(k, late, cb, cn)
<1>1. /\ cState = "ACTIVE" /\ cRun = "run" /\ cPdu # NoPdu
      /\ ca = 8 /\ cb = (IF late THEN 2 ELSE 9)
  BY DEF ClientHere, ClientActive, ClientIn, ClientAt, ClientFit, Batch, FinalizationStates
<1>2. \/ cPdu.type = "DeactivateAll" /\ cn = 9
      \/ cPdu.type \in {"FastPathUpdate", "ChannelData"} /\ cn = 8
  BY <1>1 DEF ClientHere, Down, Layout
<1>3. /\ ~RecvFails(cPdu) /\ cPdu.type \notin ServerMessageTypes
      /\ cPdu.type # "DisconnectUltimatum"
  BY <1>2 DEF RecvFails, ServerMcsTypes, OnMessageChannel, ServerMessageTypes
<1>4. RecvReturns(cPdu) => ClientSuccess
  BY <1>2 DEF RecvReturns
<1>5. RecvPdu(cPdu, StateAfter(cPdu), RecvReturns(cPdu))
  BY <1>3 DEF ClientActive
<1>6. ClientAt(k, late, StateAfter(cPdu), cn, cb)
  BY <1>1, <1>2 DEF ClientHere, ClientAt, StateAfter
<1>7. StateAfter(cPdu) \in {"ACTIVE", "CAPABILITIES_EXCHANGE_DEMAND_ACTIVE"}
  BY <1>1 DEF StateAfter
<1> QED
  BY <1>3, <1>4, <1>5, <1>6, <1>7, ClientReadsOn

\* Every step of the client in the session.
LEMMA ClientStepsOn ==
    ASSUME NEW k, NEW late, NEW ca, NEW cb, NEW cn, ClientHere(k, late, ca, cb, cn),
           UNCHANGED serverVars, ClientStep,
           cState \in FinalizationStates => (k.keys <=> SendsKeyList)
    PROVE  \/ ClientGoes(k, late, cb, cn)
           \/ ClientBeginsAgain(k, late, cb, cn)
           \/ /\ cn = 12 /\ ca = 9 /\ cRun' = "closed"
              /\ cState' # "ACTIVE" /\ cPdu' = NoPdu
<1>1. cState \notin McsStates
  BY DEF ClientHere, ClientAt, McsStates
<1>2. ~ClientBegin /\ ~ClientMcsCreateRequest /\ ~ClientMcsCreateResponse
      /\ ~ClientAttachUserConfirm /\ ~ClientChannelJoinConfirm
  BY <1>1 DEF McsStates, ClientIn, ClientBegin, ClientMcsCreateRequest, ClientMcsCreateResponse,
              ClientAttachUserConfirm, ClientChannelJoinConfirm
<1>3. CASE ClientAutoDetect("CONNECT_TIME_AUTO_DETECT_REQUEST", "LICENSING")
  BY <1>3, ClientMeets
<1>4. CASE ClientLicensing
  BY <1>4, ClientIsLicensed
<1>5. CASE ClientAutoDetect("MULTITRANSPORT_BOOTSTRAPPING_REQUEST",
                            "CAPABILITIES_EXCHANGE_DEMAND_ACTIVE")
  BY <1>5, ClientBootstraps
<1>6. CASE ClientDemandActive
  BY <1>6, ClientIsAsked
<1>7. CASE ClientConfirmActive
  BY <1>7, ClientConfirmsAgain
<1>8. CASE ClientMonitorLayout
  BY <1>8, ClientWaitsForLayout
<1>9. CASE SendSynchronize \/ SendCooperate \/ SendRequestControl \/ SendPersistentKeyList
  <2>1. cState \in FinalizationStates
    BY <1>9 DEF SendSynchronize, SendCooperate, SendRequestControl, SendPersistentKeyList,
                SendFinalizePdu, ClientIn, FinalizationStates
  <2> QED
    BY <1>9, <2>1, ClientSendsBatch
<1>10. CASE SendFontList
  BY <1>10, ClientEndsBatch
<1>11. CASE ClientFinalizeSync
  BY <1>11, ClientFinalizesOn DEF ClientFinalizeSync
<1>12. CASE ClientFinalizeCooperate
  BY <1>12, ClientFinalizesOn DEF ClientFinalizeCooperate
<1>13. CASE ClientFinalizeGrantedControl
  BY <1>13, ClientFinalizesOn DEF ClientFinalizeGrantedControl
<1>14. CASE ClientFinalizeFontMap
  BY <1>14, ClientFinalizesOn DEF ClientFinalizeFontMap
<1>15. CASE ClientActive
  BY <1>15, ClientIsActiveOn
<1> QED
  BY <1>2, <1>3, <1>4, <1>5, <1>6, <1>7, <1>8, <1>9, <1>10, <1>11, <1>12, <1>13, <1>14, <1>15
     DEF ClientStep

LEMMA ServerMoves ==
    ASSUME NEW state, NEW pdus, NEW returns, ServerTransition(state, pdus, returns),
           sState \notin ActivePeerStates, Listed(sOut)
    PROVE  /\ sState' = state /\ sActivated' = FALSE /\ sOut' = sOut \o pdus /\ returns
           /\ pdus = <<>> => sOut' = sOut
           /\ UNCHANGED <<sFinalize, sJoined, sMessageChannel, sLicense, sSettings, sConnected>>
           /\ ServerKeepsTerms
BY NothingSent DEF ServerTransition, ActivatedAfterLeaving, ServerSend, ServerKeepsTerms

LEMMA ServerAsksForTransport ==
    ASSUME NEW k, NEW sa, NEW sb, NEW sn, ServerHere(k, sa, sb, sn),
           UNCHANGED clientVars, ServerMultitransportRequest
    PROVE  ServerGoes(k, sa, sn)
<1>1. /\ sState = "MULTITRANSPORT_BOOTSTRAPPING_REQUEST" /\ sRun = "run" /\ sPdu = NoPdu
      /\ sa = Opening(k) /\ sb = Opening(k) /\ ~sConnected /\ ~sActivated
  BY DEF ServerHere, ServerMultitransportRequest, ServerIn, ServerAt, ServerFit, Early
<1>2. sn = Opening(k) /\ Opening(k) \in {1, 2} /\ (k.transport <=> sSettings.multitransport)
  BY <1>1 DEF ServerHere, Up, Opening, NoPdu, Pdu, Terms
<1>3. sState \notin ActivePeerStates /\ Listed(sOut)
  BY <1>1 DEF ActivePeerStates, ClientFinalizationStates, ServerHere
<1>4. CASE sSettings.multitransport
  <2>1. ServerTransition("MULTITRANSPORT_BOOTSTRAPPING_RESPONSE",
                         <<Pdu("MultitransportRequest")>>, ServerSuccess)
    BY <1>4 DEF ServerMultitransportRequest
  <2>2. /\ sState' = "MULTITRANSPORT_BOOTSTRAPPING_RESPONSE" /\ sActivated' = FALSE
        /\ sOut' = sOut \o <<Pdu("MultitransportRequest")>> /\ sRun' = "idle" /\ sPdu' = NoPdu
        /\ sConnected' = sConnected /\ ServerKeepsTerms
    BY <1>3, <2>1, ServerMoves DEF ServerSuccess
  <2>3. ServerFit'
    BY <1>1, <2>2 DEF ServerFit, FinalizationStates, Early
  <2>4. ServerAt(k, sState', 2, 1) /\ Up(k, sPdu', 1, sn) /\ 1 \in Places /\ 2 \in Places
    BY <1>2, <1>4, <2>2 DEF ServerAt, Up, Opening, Places
  <2>5. Goes("down", k, Pdu("MultitransportRequest"), sa, 2) /\ ~(sa >= 9)
    BY <1>1, <1>2, <1>4 DEF Goes, Down, Pdu, Opening
  <2> QED
    BY <2>2, <2>3, <2>4, <2>5 DEF ServerGoes, Working
<1>5. CASE ~sSettings.multitransport
  <2>1. ServerTransition("CAPABILITIES_EXCHANGE_DEMAND_ACTIVE", <<>>, ServerRerun)
    BY <1>5 DEF ServerMultitransportRequest
  <2>2. /\ sState' = "CAPABILITIES_EXCHANGE_DEMAND_ACTIVE" /\ sActivated' = FALSE
        /\ sOut' = sOut /\ sRun' = "run" /\ sPdu' = NoPdu
        /\ sConnected' = sConnected /\ ServerKeepsTerms
    BY <1>1, <1>3, <2>1, ServerMoves DEF ServerRerun
  <2>3. ServerFit'
    BY <1>1, <2>2 DEF ServerFit, FinalizationStates, Early
  <2>4. ServerAt(k, sState', 2, 2) /\ Up(k, sPdu', 2, sn) /\ 2 \in Places /\ sa = 2
    BY <1>1, <1>2, <1>5, <2>2 DEF ServerAt, Up, Opening, Places
  <2> QED
    BY <2>2, <2>3, <2>4 DEF ServerGoes, Working
<1> QED
  BY <1>4, <1>5

LEMMA ServerDemandsAgain ==
    ASSUME NEW k, NEW sa, NEW sb, NEW sn, ServerHere(k, sa, sb, sn),
           UNCHANGED clientVars, ServerDemandActive
    PROVE  ServerGoes(k, sa, sn)
<1>1. /\ sState = "CAPABILITIES_EXCHANGE_DEMAND_ACTIVE" /\ sRun = "run" /\ sPdu = NoPdu
      /\ sa = 2 /\ sb = 2 /\ ~sConnected
  BY DEF ServerHere, ServerDemandActive, ServerIn, ServerAt, ServerFit, Early
<1>2. sn = 2
  BY <1>1 DEF ServerHere, Up, NoPdu, Pdu
<1>3. sState \notin ActivePeerStates /\ Listed(sOut)
  BY <1>1 DEF ActivePeerStates, ClientFinalizationStates, ServerHere
<1>4. /\ sState' = "CAPABILITIES_EXCHANGE_MONITOR_LAYOUT" /\ sActivated' = FALSE
      /\ sOut' = sOut \o <<Pdu("DemandActive")>> /\ sRun' = "run" /\ sPdu' = NoPdu
      /\ sConnected' = sConnected /\ ServerKeepsTerms
  BY <1>1, <1>3, ServerMoves DEF ServerRerun, ServerDemandActive
<1>5. ServerFit'
  BY <1>1, <1>4 DEF ServerFit, FinalizationStates, Early
<1>6. /\ ServerAt(k, sState', Layout(k), 2) /\ Up(k, sPdu', 2, sn)
      /\ Layout(k) \in Places /\ 2 \in Places /\ ~(Layout(k) >= 9) /\ ~(sa >= 9)
  BY <1>1, <1>2, <1>4 DEF ServerAt, Up, Places, Layout
<1>7. Goes("down", k, Pdu("DemandActive"), sa, Layout(k))
  BY <1>1 DEF Goes, Down, Pdu
<1> QED
  BY <1>4, <1>5, <1>6, <1>7 DEF ServerGoes, Working

LEMMA ServerSendsLayoutOn ==
    ASSUME NEW k, NEW sa, NEW sb, NEW sn, ServerHere(k, sa, sb, sn),
           UNCHANGED clientVars, ServerMonitorLayout
    PROVE  ServerGoes(k, sa, sn)
<1> DEFINE to == IF sa >= 9 THEN 11 ELSE 4
           pdus == IF sSettings.monitorLayout THEN <<Pdu("MonitorLayout")>> ELSE <<>>
<1>1. /\ sState = "CAPABILITIES_EXCHANGE_MONITOR_LAYOUT" /\ sRun = "run"
      /\ sa \in {Layout(k), Layout(k) + 7} /\ sb = 2
  BY DEF ServerHere, ServerMonitorLayout, ServerIn, ServerAt
<1>2. sState \notin ActivePeerStates /\ Listed(sOut)
  BY <1>1 DEF ActivePeerStates, ClientFinalizationStates, ServerHere
<1>3. ServerTransition("CAPABILITIES_EXCHANGE_CONFIRM_ACTIVE", pdus,
                       IF sPdu = NoPdu THEN ServerSuccess ELSE ServerRerun)
  BY DEF ServerMonitorLayout
<1> HIDE DEF pdus
<1>4. /\ sState' = "CAPABILITIES_EXCHANGE_CONFIRM_ACTIVE" /\ sActivated' = FALSE
      /\ sOut' = sOut \o pdus /\ (pdus = <<>> => sOut' = sOut)
      /\ sPdu' = sPdu
      /\ sRun' = (IF sPdu = NoPdu THEN "idle" ELSE "run")
      /\ sConnected' = sConnected /\ ServerKeepsTerms
  <2>1. /\ sState' = "CAPABILITIES_EXCHANGE_CONFIRM_ACTIVE" /\ sActivated' = FALSE
        /\ sOut' = sOut \o pdus /\ (pdus = <<>> => sOut' = sOut)
        /\ sConnected' = sConnected /\ ServerKeepsTerms
    BY <1>2, <1>3, NothingSent
       DEF ServerTransition, ActivatedAfterLeaving, ServerSend, ServerKeepsTerms
  <2>2. sPdu' = sPdu /\ sRun' = (IF sPdu = NoPdu THEN "idle" ELSE "run")
    BY <1>1, <1>3 DEF ServerTransition, ServerSuccess, ServerRerun
  <2> QED
    BY <2>1, <2>2
<1>5. ServerFit'
  BY <1>1, <1>4 DEF ServerFit, FinalizationStates, Early
<1>6. /\ ServerAt(k, sState', to, 2) /\ Up(k, sPdu', 2, sn)
      /\ to \in Places /\ 2 \in Places /\ (to >= 9 <=> sa >= 9)
  BY <1>1, <1>4 DEF ServerHere, ServerAt, Places
<1>7. k.layout <=> sSettings.monitorLayout
  BY DEF ServerHere, Terms
<1>8. CASE sSettings.monitorLayout
  <2>1. pdus = <<Pdu("MonitorLayout")>>
    BY <1>8 DEF pdus
  <2>2. Goes("down", k, Pdu("MonitorLayout"), sa, to)
    BY <1>1, <1>7, <1>8 DEF Goes, Down, Pdu, Layout
  <2> QED
    BY <1>4, <1>5, <1>6, <2>1, <2>2 DEF ServerGoes, Working
<1>9. CASE ~sSettings.monitorLayout
  <2>1. pdus = <<>>
    BY <1>9 DEF pdus
  <2>2. to = sa
    BY <1>1, <1>7, <1>9 DEF Layout
  <2> QED
    BY <1>4, <1>5, <1>6, <2>1, <2>2 DEF ServerGoes, Working
<1> QED
  BY <1>8, <1>9

\* peer_recv_pdu on a PDU other than a Confirm Active.
LEMMA PeerReads ==
    ASSUME NEW state, NEW pdus, NEW returns, PeerRecv(sPdu, state, pdus, returns),
           sPdu.type # "ConfirmActive", PeerReply(sPdu) = <<>>, Listed(pdus), Listed(sOut)
    PROVE  /\ sState' = state /\ sOut' = sOut \o pdus /\ (pdus = <<>> => sOut' = sOut) /\ returns
           /\ sFinalize' = PeerFinalizeAfter(sPdu)
           /\ sActivated' = IF state = sState THEN sActivated ELSE ActivatedAfterLeaving(sState)
           /\ UNCHANGED <<sSettings, sConnected>>
<1>1. <<>> \o pdus = pdus
  BY DEF Listed
<1> QED
  BY <1>1, NothingSent DEF PeerRecv, ServerSend

LEMMA InputIsRead ==
    ASSUME sPdu.type = "Input"
    PROVE  /\ ~PeerRecvFails(sPdu) /\ PeerStateAfter(sPdu) = sState
           /\ PeerFinalizeAfter(sPdu) = sFinalize /\ PeerReply(sPdu) = <<>>
           /\ PeerReturns(sPdu) => ServerSuccess
<1>1. ~PeerRecvFails(sPdu)
  BY DEF PeerRecvFails, ClientMessageTypes, ClientLicenseTypes, ClientDataTypes
<1>2. PeerStateAfter(sPdu) = sState /\ PeerReply(sPdu) = <<>>
  BY DEF PeerStateAfter, PeerReply
<1>3. PeerFinalizeAfter(sPdu) = sFinalize
  BY DEF PeerFinalizeAfter, CsFlag
<1>4. PeerReturns(sPdu) => ServerSuccess
  BY DEF PeerReturns
<1> QED
  BY <1>1, <1>2, <1>3, <1>4

LEMMA ServerReadsInput ==
    ASSUME NEW k, NEW sa, NEW sb, NEW sn, ServerHere(k, sa, sb, sn),
           UNCHANGED clientVars, sRun = "run", sPdu.type = "Input",
           NEW returns, returns => ServerSuccess, PeerRecv(sPdu, sState, <<>>, returns)
    PROVE  ServerGoes(k, sa, sn)
<1>1. Listed(sOut) /\ Listed(<<>>) /\ sn = sb
  BY ShortLists DEF ServerHere, Up, NoPdu, Pdu
<1>2. /\ sState' = sState /\ sOut' = sOut /\ sFinalize' = sFinalize /\ sActivated' = sActivated
      /\ UNCHANGED <<sSettings, sConnected>> /\ sRun' = "idle" /\ sPdu' = NoPdu
  BY <1>1, InputIsRead, PeerReads DEF ServerSuccess
<1>3. sPdu # NoPdu
  BY DEF NoPdu, Pdu
<1>4. ServerFit'
  BY <1>2, <1>3 DEF ServerHere, ServerFit, clientVars, ServerLacks
<1>5. ServerAt(k, sState', sa, sb) /\ Up(k, sPdu', sb, sn)
  BY <1>1, <1>2 DEF ServerHere, Up
<1>6. ServerKeepsTerms
  BY <1>2 DEF ServerKeepsTerms
<1> QED
  BY <1>1, <1>2, <1>4, <1>5, <1>6 DEF ServerGoes, ServerHere, Working

LEMMA ServerIsAnswered ==
    ASSUME NEW k, NEW sa, NEW sb, NEW sn, ServerHere(k, sa, sb, sn),
           UNCHANGED clientVars, ServerMultitransportResponse
    PROVE  ServerGoes(k, sa, sn)
<1>1. /\ sState = "MULTITRANSPORT_BOOTSTRAPPING_RESPONSE" /\ sRun = "run" /\ sPdu # NoPdu
      /\ sa = 2 /\ sb = 1 /\ ~sConnected /\ ~sActivated /\ Listed(sOut)
  BY DEF ServerHere, ServerMultitransportResponse, ServerPlainRecv, ServerIn, ServerAt, ServerFit,
         Early
<1>2. sPdu.type = "MultitransportResponse" /\ sn = 2
  BY <1>1 DEF ServerHere, Up
<1>3. ~PeerRecvFails(sPdu)
  BY <1>1, <1>2 DEF PeerRecvFails, ClientMessageTypes, ClientLicenseTypes, ClientDataTypes,
                    LicensingOrEarlier, McsStates
<1>4. /\ PeerStateAfter(sPdu) = "CAPABILITIES_EXCHANGE_DEMAND_ACTIVE" /\ PeerReply(sPdu) = <<>>
  BY <1>2 DEF PeerStateAfter, PeerReply
<1>5. PeerFinalizeAfter(sPdu) = sFinalize
  BY <1>2 DEF PeerFinalizeAfter, CsFlag
<1>6. PeerRecv(sPdu, "CAPABILITIES_EXCHANGE_DEMAND_ACTIVE", <<>>, PeerReturns(sPdu))
  BY <1>3, <1>4 DEF ServerMultitransportResponse, ServerPlainRecv
<1>7. PeerReturns(sPdu) => ServerContinue
  BY <1>2 DEF PeerReturns
<1>8. /\ sState' = "CAPABILITIES_EXCHANGE_DEMAND_ACTIVE" /\ sOut' = sOut /\ sFinalize' = sFinalize
      /\ UNCHANGED <<sSettings, sConnected>> /\ sRun' = "run" /\ sPdu' = NoPdu
  BY <1>1, <1>2, <1>4, <1>5, <1>6, <1>7, ShortLists, PeerReads DEF ServerContinue
<1>9. ~sActivated'
  BY <1>1, <1>6 DEF PeerRecv, ActivatedAfterLeaving
<1>10. ServerFit'
  BY <1>1, <1>8, <1>9 DEF ServerFit, FinalizationStates
<1>11. ServerAt(k, sState', 2, 2) /\ Up(k, sPdu', 2, sn) /\ 2 \in Places
  BY <1>2, <1>8 DEF ServerAt, Up, Places
<1>12. ServerKeepsTerms
  BY <1>8 DEF ServerKeepsTerms
<1> QED
  BY <1>1, <1>8, <1>10, <1>11, <1>12 DEF ServerGoes, Working

LEMMA ServerIsConfirmedOn ==
    ASSUME NEW k, NEW sa, NEW sb, NEW sn, ServerHere(k, sa, sb, sn),
           UNCHANGED clientVars, ServerConfirmActive
    PROVE  ServerGoes(k, sa, sn)
<1>1. /\ sState = "CAPABILITIES_EXCHANGE_CONFIRM_ACTIVE" /\ sRun = "run" /\ sPdu # NoPdu
      /\ sa \in {4, 11} /\ sb = 2
  BY DEF ServerHere, ServerConfirmActive, ServerPlainRecv, ServerIn, ServerAt, ServerFit
<1>2. \/ sPdu.type = "ConfirmActive" /\ (sPdu.persist <=> k.persist) /\ sn = 4 /\ sa = 4
      \/ sPdu.type = "Input"
  BY <1>1 DEF ServerHere, Up
<1>3. CASE sPdu.type = "Input"
  BY <1>1, <1>3, InputIsRead, ServerReadsInput DEF ServerConfirmActive, ServerPlainRecv
<1>4. CASE sPdu.type = "ConfirmActive"
  <2> DEFINE p == Pdu("Synchronize")
             q == Pdu("ControlCooperate")
  <2>1. ~PeerRecvFails(sPdu)
    BY <1>1, <1>4 DEF PeerRecvFails, ClientMessageTypes, ClientLicenseTypes, ClientDataTypes,
                      LicensingOrEarlier, McsStates
  <2>2. PeerStateAfter(sPdu) = "FINALIZATION_SYNC" /\ PeerReply(sPdu) = <<p, q>>
    BY <1>4 DEF PeerStateAfter, PeerReply
  <2>3. PeerFinalizeAfter(sPdu) = sFinalize \cap {"DEACTIVATE_REACTIVATE"}
    BY <1>4 DEF PeerFinalizeAfter, CsFlag
  <2>4. PeerRecv(sPdu, "FINALIZATION_SYNC", <<>>, PeerReturns(sPdu))
    BY <2>1, <2>2 DEF ServerConfirmActive, ServerPlainRecv
  <2>5. PeerReturns(sPdu) => ServerSuccess
    BY <1>4 DEF PeerReturns
  <2>6. /\ sState' = "FINALIZATION_SYNC"
        /\ sFinalize' = sFinalize \cap {"DEACTIVATE_REACTIVATE"}
        /\ sSettings' = [sSettings EXCEPT !.persist = sPdu.persist]
        /\ sActivated' = ActivatedAfterLeaving(sState)
        /\ sConnected' = sConnected /\ sRun' = "idle" /\ sPdu' = NoPdu
    BY <1>1, <1>4, <2>3, <2>4, <2>5 DEF PeerRecv, ServerSuccess
  <2>7. ~sActivated'
    BY <1>1, <2>6 DEF ActivatedAfterLeaving, ActivePeerStates, ClientFinalizationStates
  <2>8. sOut' = sOut \o <<p, q>>
    <3>1. <<p, q>> \o <<>> = <<p, q>>
      BY ShortLists, NothingSent
    <3> QED
      BY <2>2, <2>4, <3>1 DEF PeerRecv, ServerSend
  <2>9. sSettings'.persist <=> cSettings'.persist
    BY <1>2, <1>4, <2>6 DEF ServerHere, Terms, ServerSettings, clientVars
  <2>10. ServerKeepsTerms
    BY <2>6 DEF ServerHere, ServerKeepsTerms, ServerSettings
  <2>11. ServerLacks(ClientFlags)'
    BY <2>6 DEF ServerLacks, ClientFlags
  <2>12. ServerFit'
    BY <2>6, <2>7, <2>9, <2>11 DEF ServerFit, Early
  <2>13. /\ ServerAt(k, sState', 6, 4) /\ Up(k, sPdu', 4, sn)
         /\ 4 \in Places /\ 5 \in Places /\ 6 \in Places /\ ~(sa >= 9) /\ ~(6 >= 9)
    BY <1>2, <1>4, <2>6 DEF ServerAt, Up, Places
  <2>14. Goes("down", k, p, sa, 5) /\ Goes("down", k, q, 5, 6)
    BY <1>2, <1>4 DEF Goes, Down, Pdu
  <2> HIDE DEF p, q
  <2> QED
    BY <2>6, <2>8, <2>10, <2>12, <2>13, <2>14 DEF ServerGoes, Working
<1> QED
  BY <1>2, <1>3, <1>4

LEMMA ServerFinalizesOn ==
    ASSUME NEW k, NEW sa, NEW sb, NEW sn, ServerHere(k, sa, sb, sn), UNCHANGED clientVars,
           NEW state, NEW flag, NEW pdus, NEW next, NEW expected,
           ServerFinalize(state, flag, pdus, next),
           \/ /\ state = "FINALIZATION_SYNC" /\ flag = "CS_SYNCHRONIZE" /\ pdus = <<>>
              /\ next = "FINALIZATION_COOPERATE" /\ expected = "Synchronize"
           \/ /\ state = "FINALIZATION_COOPERATE" /\ flag = "CS_CONTROL_COOPERATE" /\ pdus = <<>>
              /\ next = "FINALIZATION_REQUEST_CONTROL" /\ expected = "ControlCooperate"
           \/ /\ state = "FINALIZATION_REQUEST_CONTROL" /\ flag = "CS_CONTROL_REQUEST"
              /\ pdus = <<Pdu("ControlGranted")>>
              /\ next = "FINALIZATION_PERSISTENT_KEY_LIST" /\ expected = "ControlRequest"
           \/ /\ state = "FINALIZATION_PERSISTENT_KEY_LIST" /\ flag = "CS_PERSISTENT_KEY_LIST"
              /\ pdus = <<>> /\ k.keys
              /\ next = "FINALIZATION_FONT_LIST" /\ expected = "PersistentKeyList"
    PROVE  ServerGoes(k, sa, sn)
<1> DEFINE to == IF next \in {"FINALIZATION_PERSISTENT_KEY_LIST", "FINALIZATION_FONT_LIST"}
                 THEN 7 ELSE 6
<1>1. /\ sState = state /\ sRun = "run" /\ sPdu # NoPdu /\ sState \in FinalizationStates
  BY DEF ServerHere, ServerFinalize, ServerIn, ServerFit, FinalizationStates
<1>2. /\ flag \notin sFinalize
      /\ sState = "FINALIZATION_COOPERATE" => "CS_SYNCHRONIZE" \in sFinalize
      /\ sState = "FINALIZATION_REQUEST_CONTROL" => "CS_CONTROL_COOPERATE" \in sFinalize
  BY <1>1 DEF ServerHere, ServerFit, ServerLacks, ClientFlags
<1>3. \/ sPdu.type = expected /\ ServerAt(k, next, to, sn) /\ sa \in {6, 7}
      \/ sPdu.type = "Input"
  BY <1>1 DEF ServerHere, ServerAt, Up, Lists
<1>4. CASE sPdu.type = "Input"
  BY <1>1, <1>2, <1>4, InputIsRead, ServerReadsInput DEF ServerFinalize
<1>5. CASE sPdu.type = expected
  <2>1. ~PeerRecvFails(sPdu)
    BY <1>1, <1>2, <1>5 DEF PeerRecvFails, ClientMessageTypes, ClientLicenseTypes, ClientDataTypes,
                            LicensingOrEarlier, McsStates
  <2>2. PeerReply(sPdu) = <<>> /\ sPdu.type # "ConfirmActive"
    BY <1>5 DEF PeerReply
  <2>3. PeerFinalizeAfter(sPdu) = sFinalize \cup {flag}
    BY <1>5 DEF PeerFinalizeAfter, CsFlag
  <2>4. PeerRecv(sPdu, next, pdus, PeerReturns(sPdu))
    BY <2>1, <2>3 DEF ServerFinalize
  <2>5. PeerReturns(sPdu) => ServerSuccess
    BY <1>5 DEF PeerReturns
  <2>6. Listed(pdus) /\ Listed(sOut)
    BY ShortLists DEF ServerHere
  <2>7. /\ sState' = next /\ sOut' = sOut \o pdus /\ (pdus = <<>> => sOut' = sOut)
        /\ sFinalize' = sFinalize \cup {flag}
        /\ sActivated' = (IF next = sState THEN sActivated ELSE ActivatedAfterLeaving(sState))
        /\ UNCHANGED <<sSettings, sConnected>> /\ sRun' = "idle" /\ sPdu' = NoPdu
    BY <2>2, <2>3, <2>4, <2>5, <2>6, PeerReads DEF ServerSuccess
  <2>8. ~sActivated'
    BY <1>1, <2>7 DEF ActivatedAfterLeaving, ActivePeerStates, ClientFinalizationStates,
                      FinalizationStates
  <2>9. /\ next \in FinalizationStates \ {"FINALIZATION_SYNC"} /\ flag \in sFinalize'
        /\ sSettings'.persist <=> cSettings'.persist
    BY <1>1, <2>7 DEF ServerHere, ServerFit, clientVars, FinalizationStates
  <2>10. /\ next = "FINALIZATION_COOPERATE" =>
               ServerLacks({"CS_CONTROL_COOPERATE", "CS_CONTROL_REQUEST",
                            "CS_PERSISTENT_KEY_LIST", "CS_FONT_LIST"})'
         /\ next = "FINALIZATION_REQUEST_CONTROL" =>
               ServerLacks({"CS_CONTROL_REQUEST", "CS_PERSISTENT_KEY_LIST", "CS_FONT_LIST"})'
    BY <1>1, <2>7 DEF ServerHere, ServerFit, ServerLacks, ClientFlags
  <2>11. /\ next = "FINALIZATION_PERSISTENT_KEY_LIST" =>
               ServerLacks({"CS_PERSISTENT_KEY_LIST", "CS_FONT_LIST"})'
         /\ next = "FINALIZATION_FONT_LIST" => ServerLacks({"CS_FONT_LIST"})'
    BY <1>1, <2>7 DEF ServerHere, ServerFit, ServerLacks
  <2>12. ServerFit'
    BY <2>7, <2>8, <2>9, <2>10, <2>11 DEF ServerFit, FinalizationStates, Early
  <2>13. /\ ServerAt(k, sState', to, sn) /\ Up(k, sPdu', sn, sn)
         /\ to \in Places /\ ~(sa >= 9) /\ ~(to >= 9)
    BY <1>3, <1>5, <2>7 DEF Up, Places
  <2>14. ServerKeepsTerms
    BY <2>7 DEF ServerKeepsTerms
  <2>15. CASE state = "FINALIZATION_REQUEST_CONTROL"
    <3>1. sOut' = sOut \o <<Pdu("ControlGranted")>> /\ to = 7 /\ sa = 6
      BY <1>1, <2>7, <2>15 DEF ServerHere, ServerAt
    <3>2. Goes("down", k, Pdu("ControlGranted"), sa, to)
      BY <3>1 DEF Goes, Down, Pdu
    <3> QED
      BY <2>7, <2>12, <2>13, <2>14, <3>1, <3>2 DEF ServerGoes, ServerHere, Working
  <2>16. CASE state # "FINALIZATION_REQUEST_CONTROL"
    <3>1. sOut' = sOut /\ to = sa
      BY <1>1, <2>7, <2>16 DEF ServerHere, ServerAt
    <3> QED
      BY <2>7, <2>12, <2>13, <2>14, <3>1 DEF ServerGoes, ServerHere, Working
  <2> QED
    BY <2>15, <2>16
<1> QED
  BY <1>3, <1>4, <1>5

LEMMA ServerAwaitsListsOn ==
    ASSUME NEW k, NEW sa, NEW sb, NEW sn, ServerHere(k, sa, sb, sn), UNCHANGED clientVars,
           ServerFinalizeKeyList
    PROVE  ServerGoes(k, sa, sn)
<1>1. /\ sState = "FINALIZATION_PERSISTENT_KEY_LIST" /\ sRun = "run" /\ sPdu # NoPdu
      /\ sa = 7 /\ sb = Lists(k)
  BY DEF ServerHere, ServerFinalizeKeyList, ServerFinalize, ServerIn, ServerAt, ServerFit
<1>2. k.keys <=> AwaitsKeyList
  BY <1>1 DEF ServerHere, ServerFit, FinalizationStates, AwaitsKeyList, Terms
<1>3. CASE AwaitsKeyList
  BY <1>2, <1>3, ServerFinalizesOn DEF ServerFinalizeKeyList
<1>4. CASE ~AwaitsKeyList
  <2>1. sState \notin ActivePeerStates /\ Listed(sOut) /\ sb = 8
    BY <1>1, <1>2, <1>4 DEF ActivePeerStates, ClientFinalizationStates, ServerHere, Lists
  <2>2. ServerTransition("FINALIZATION_FONT_LIST", <<>>, ServerRerun)
    BY <1>4 DEF ServerFinalizeKeyList
  <2>3. /\ sState' = "FINALIZATION_FONT_LIST" /\ sActivated' = FALSE
        /\ sOut' = sOut /\ sRun' = "run" /\ sPdu' = sPdu
        /\ UNCHANGED <<sFinalize, sSettings, sConnected>> /\ ServerKeepsTerms
    BY <1>1, <2>1, <2>2, ServerMoves DEF ServerRerun
  <2>4. ServerFit'
    BY <1>1, <2>3 DEF ServerHere, ServerFit, FinalizationStates, Early, ServerLacks, clientVars
  <2>5. ServerAt(k, sState', sa, sb) /\ Up(k, sPdu', sb, sn)
    BY <1>1, <2>1, <2>3 DEF ServerHere, ServerAt
  <2> QED
    BY <2>3, <2>4, <2>5 DEF ServerGoes, ServerHere, Working
<1> QED
  BY <1>3, <1>4

LEMMA ServerAwaitsFontListOn ==
    ASSUME NEW k, NEW sa, NEW sb, NEW sn, ServerHere(k, sa, sb, sn), UNCHANGED clientVars,
           ServerFinalizeFontList
    PROVE  ServerGoes(k, sa, sn)
<1>1. /\ sState = "FINALIZATION_FONT_LIST" /\ sRun = "run" /\ sPdu # NoPdu
      /\ sa = 7 /\ sb = 8 /\ "CS_FONT_LIST" \notin sFinalize /\ Listed(sOut)
  BY DEF ServerHere, ServerFinalizeFontList, ServerIn, ServerAt, ServerFit, ServerLacks
<1>2. \/ sPdu.type = "FontList" /\ sn = 9
      \/ sPdu.type = "Input"
  BY <1>1 DEF ServerHere, Up
<1>3. CASE sPdu.type = "Input"
  BY <1>1, <1>3, InputIsRead, ServerReadsInput DEF ServerFinalizeFontList
<1>4. CASE sPdu.type = "FontList"
  <2>1. ~PeerRecvFails(sPdu)
    BY <1>1, <1>4 DEF PeerRecvFails, ClientMessageTypes, ClientLicenseTypes, ClientDataTypes,
                      LicensingOrEarlier, McsStates
  <2>2. PeerReply(sPdu) = <<Pdu("FontMap")>>
    BY <1>4 DEF PeerReply
  <2>3. PeerFinalizeAfter(sPdu) = sFinalize \cup {"CS_FONT_LIST"}
    BY <1>4 DEF PeerFinalizeAfter, CsFlag
  <2>4. PeerRecv(sPdu, "ACTIVE", <<>>, ServerContinue)
    BY <1>4, <2>1, <2>3 DEF ServerFinalizeFontList
  <2>5. /\ sState' = "ACTIVE" /\ sFinalize' = sFinalize \cup {"CS_FONT_LIST"}
        /\ sSettings' = sSettings /\ sActivated' = ActivatedAfterLeaving(sState)
        /\ sConnected' = sConnected /\ sRun' = "run" /\ sPdu' = NoPdu
    BY <1>1, <1>4, <2>3, <2>4 DEF PeerRecv, ServerContinue
  <2>6. ~sActivated'
    BY <1>1, <2>5 DEF ActivatedAfterLeaving, ActivePeerStates, ClientFinalizationStates
  <2>7. sOut' = sOut \o <<Pdu("FontMap")>>
    <3>1. <<Pdu("FontMap")>> \o <<>> = <<Pdu("FontMap")>>
      BY ShortLists, NothingSent
    <3> QED
      BY <2>2, <2>4, <3>1 DEF PeerRecv, ServerSend
  <2>8. ServerFit'
    BY <2>5, <2>6 DEF ServerFit, FinalizationStates, Early
  <2>9. /\ ServerAt(k, sState', 8, 9) /\ Up(k, sPdu', 9, sn)
        /\ 8 \in Places /\ 9 \in Places /\ ~(sa >= 9) /\ ~(8 >= 9)
    BY <1>1, <1>2, <1>4, <2>5 DEF ServerAt, Up, Places
  <2>10. Goes("down", k, Pdu("FontMap"), sa, 8)
    BY <1>1 DEF Goes, Down, Pdu
  <2>11. ServerKeepsTerms
    BY <2>5 DEF ServerKeepsTerms
  <2> QED
    BY <2>5, <2>7, <2>8, <2>9, <2>10, <2>11 DEF ServerGoes, Working
<1> QED
  BY <1>2, <1>3, <1>4

LEMMA ServerIsActiveOn ==
    ASSUME NEW k, NEW sa, NEW sb, NEW sn, ServerHere(k, sa, sb, sn), UNCHANGED clientVars,
           ServerActivate \/ ServerActive
    PROVE  ServerGoes(k, sa, sn)
<1>1. sState = "ACTIVE" /\ sRun = "run" /\ sa = 8 /\ sb = 9
  BY DEF ServerHere, ServerActivate, ServerActive, ServerPlainRecv, ServerIn, ServerAt
<1>2. CASE ServerActivate
  <2>1. /\ sConnected' = TRUE /\ sActivated' = TRUE /\ sRun' = "idle" /\ sPdu' = NoPdu
        /\ UNCHANGED <<sState, sFinalize, sSettings, sOut>> /\ sPdu = NoPdu
    BY <1>1, <1>2 DEF ServerActivate, ServerSuccess, ServerHere, ServerFit
  <2>2. ServerFit'
    BY <1>1, <2>1 DEF ServerFit, FinalizationStates, Early
  <2>3. ServerAt(k, sState', sa, sb) /\ Up(k, sPdu', sb, sn) /\ ServerKeepsTerms
    BY <2>1 DEF ServerHere, ServerKeepsTerms
  <2> QED
    BY <2>1, <2>2, <2>3 DEF ServerGoes, ServerHere, Working
<1>3. CASE ServerActive
  <2>1. sPdu # NoPdu
    BY <1>1, <1>3 DEF ServerHere, ServerFit, ServerActive
  <2>2. sPdu.type = "Input"
    BY <1>1, <2>1 DEF ServerHere, Up
  <2> QED
    BY <1>1, <1>3, <2>2, InputIsRead, ServerReadsInput DEF ServerActive, ServerPlainRecv
<1> QED
  BY <1>2, <1>3

\* Every step of the server in the session.
LEMMA ServerStepsOn ==
    ASSUME NEW k, NEW sa, NEW sb, NEW sn, ServerHere(k, sa, sb, sn), UNCHANGED clientVars,
           ServerStep
    PROVE  ServerGoes(k, sa, sn)
<1>1. sState \notin LicensingOrEarlier
  BY DEF ServerHere, ServerAt, LicensingOrEarlier, McsStates
<1>2. /\ ~ServerConnectInitial /\ ~ServerErectDomain /\ ~ServerAttachUser /\ ~ServerChannelJoin
      /\ ~ServerEstablishKeys /\ ~ServerClientInfo /\ ~ServerAutoDetectRequest
      /\ ~ServerAutoDetectResponse /\ ~ServerLicensing
  BY <1>1 DEF LicensingOrEarlier, McsStates, ServerIn, ServerConnectInitial, ServerErectDomain,
              ServerAttachUser, ServerChannelJoin, ServerEstablishKeys, ServerClientInfo,
              ServerAutoDetectRequest, ServerAutoDetectResponse, ServerLicensing
<1>3. CASE ServerMultitransportRequest
  BY <1>3, ServerAsksForTransport
<1>4. CASE ServerMultitransportResponse
  BY <1>4, ServerIsAnswered
<1>5. CASE ServerDemandActive
  BY <1>5, ServerDemandsAgain
<1>6. CASE ServerMonitorLayout
  BY <1>6, ServerSendsLayoutOn
<1>7. CASE ServerConfirmActive
  BY <1>7, ServerIsConfirmedOn
<1>8. CASE ServerFinalizeSync
  BY <1>8, ServerFinalizesOn DEF ServerFinalizeSync
<1>9. CASE ServerFinalizeCooperate
  BY <1>9, ServerFinalizesOn DEF ServerFinalizeCooperate
<1>10. CASE ServerFinalizeRequestControl
  BY <1>10, ServerFinalizesOn DEF ServerFinalizeRequestControl
<1>11. CASE ServerFinalizeKeyList
  BY <1>11, ServerAwaitsListsOn
<1>12. CASE ServerFinalizeFontList
  BY <1>12, ServerAwaitsFontListOn
<1>13. CASE ServerActivate \/ ServerActive
  BY <1>13, ServerIsActiveOn
<1> QED
  BY <1>2, <1>3, <1>4, <1>5, <1>6, <1>7, <1>8, <1>9, <1>10, <1>11, <1>12, <1>13 DEF ServerStep

\* The way to the client does not depend on the persistent key list.
LEMMA PathOther ==
    ASSUME NEW k, NEW k2, NEW s, Listed(s), NEW a, NEW b, Path("down", k, a, s, b),
           k2.licensed = k.licensed, k2.transport = k.transport, k2.layout = k.layout
    PROVE  Path("down", k2, a, s, b)
<1>1. \A p, c, d : Goes("down", k, p, c, d) => Goes("down", k2, p, c, d)
  BY DEF Goes, Down, LicenceEnd, Opening, Layout
<1> QED
  BY <1>1 DEF Path

\* No Deactivate All is under way before the session has been active.
LEMMA PathActive ==
    ASSUME NEW k, NEW s, Listed(s), NEW a, NEW b, Path("down", k, a, s, b), b <= 8
    PROVE  ~Has(s, "DeactivateAll")
<1> DEFINE n == Len(s)
<1>1. n \in Nat /\ DOMAIN s = 1 .. n
  BY DEF Listed
<1>2. PICK w \in [0 .. n -> Places] :
        /\ w[n] = b
        /\ \A i \in 1 .. n : Goes("down", k, s[i], w[i - 1], w[i])
        /\ \A i, j \in 0 .. n : i <= j => Later(w[i], w[j])
  BY DEF Path
<1> HIDE DEF n
<1>3. SUFFICES ASSUME NEW i \in 1 .. n, s[i].type = "DeactivateAll" PROVE FALSE
  BY <1>1 DEF Has
<1>4. Down(k, s[i], w[i - 1], w[i]) /\ s[i] # NoPdu
  BY <1>2, <1>3 DEF Goes, NoPdu, Pdu
<1>5. w[i] = 9
  BY <1>3, <1>4 DEF Down, LicenceEnd
<1>6. i \in 0 .. n /\ n \in 0 .. n /\ i <= n
  BY <1>1
<1>7. Later(w[i], w[n])
  BY <1>2, <1>6
<1>8. b \in Places /\ Later(9, b)
  BY <1>2, <1>5, <1>6, <1>7
<1> QED
  BY <1>8 DEF Later, Places

\* Both ends have places, and what is under way lies between them.
LEMMA MeetingBetween ==
    ASSUME NEW sa \in Places, NEW sb \in Places, NEW sn \in Places,
           NEW ca \in Places, NEW cb \in Places, NEW cn \in Places,
           Listed(sOut), Listed(cOut), Meeting(Terms, sa, sb, sn, ca, cb, cn)
    PROVE  /\ Later(ca, cn) /\ Later(cn, sa) /\ Later(sb, sn) /\ Later(sn, cb)
           /\ sa # 12 /\ cn # 12 /\ (cn >= 9 => sa >= 9)
           /\ sa >= 9 => sn = 2 /\ sb = 2 /\ cb = 2
           /\ sOut = <<>> => cn = sa
           /\ cOut = <<>> => sn = cb
<1>1. Later(cn, sa) /\ Later(sn, cb) /\ (sOut = <<>> => cn = sa) /\ (cOut = <<>> => sn = cb)
  BY PathBetween DEF Meeting
<1>2. Later(ca, cn)
  <2>1. CASE cPdu.type = "None"
    BY <2>1 DEF Meeting, Down, Later, Places, LicenceEnd
  <2>2. CASE cPdu.type # "None"
    BY <2>2, GoesLater DEF Meeting, Goes
  <2> QED
    BY <2>1, <2>2
<1>3. Later(sb, sn)
  <2>1. CASE sPdu.type = "None"
    BY <2>1 DEF Meeting, Up, Later, Places
  <2>2. CASE sPdu.type # "None"
    <3>1. Goes("up", Terms, sPdu, sb, sn)
      BY <2>2 DEF Meeting, Goes
    <3> QED
      BY <3>1, GoesLater
  <2> QED
    BY <2>1, <2>2
<1>4. sa \in 1 .. 8 \cup {10, 11}
  BY DEF Meeting, ServerAt, Opening, Layout
<1>5. sa >= 9 => sb = 2
  BY <1>4 DEF Meeting, ServerAt, Opening, Layout
<1>6. sa >= 9 => cb = 2
  BY DEF Meeting, ClientAt
<1> QED
  BY <1>1, <1>2, <1>3, <1>4, <1>5, <1>6 DEF Later, Places

\* The client knows whether the server awaits its key list.
LEMMA ListsAgreed ==
    ASSUME NEW sa \in Places, NEW sb \in Places, NEW sn \in Places,
           NEW ca \in Places, NEW cb \in Places, NEW cn \in Places,
           Listed(sOut), Listed(cOut), Meeting(Terms, sa, sb, sn, ca, cb, cn),
           ClientFit, ReactivationAgreed, sRun \in Working,
           cState \in FinalizationStates
    PROVE  Terms.keys <=> SendsKeyList
<1>1. ~(sa >= 9)
  BY DEF Meeting, ClientAt, FinalizationStates
<1>2. ~Has(sOut, "DeactivateAll")
  BY <1>1, PathActive DEF Meeting, Places
<1>3. cPdu.type # "DeactivateAll"
  BY DEF ClientFit, NoPdu, Pdu
<1> QED
  BY <1>2, <1>3 DEF ReactivationAgreed, SendsKeyList, Terms, Working

LEMMA ClientHandlesOn ==
    ASSUME Session, JoinRight, ReactivationAgreed, ClientHandles
    PROVE  Session'
<1>1. PICK sa, sb, sn, ca, cb, cn \in Places :
        Meeting(Terms, sa, sb, sn, ca, cb, cn)
  BY DEF Session
<1>2. Listed(sOut) /\ Listed(cOut) /\ Known /\ ClientFit /\ ServerFit
      /\ cRun \in Working /\ sRun \in Working
  BY DEF JoinRight, Session
<1>3. /\ Later(cn, sa) /\ sa # 12 /\ cn # 12 /\ (cn >= 9 => sa >= 9)
  BY <1>1, <1>2, MeetingBetween
<1> DEFINE late == sa >= 9
           k == Terms
<1>4. ClientStep /\ UNCHANGED serverVars
  BY DEF ClientHandles
<1>5. ClientHere(k, late, ca, cb, cn)
  BY <1>1, <1>2, <1>3 DEF ClientHere, Meeting
<1>6. cState \in FinalizationStates => (k.keys <=> SendsKeyList)
  BY <1>1, <1>2, ListsAgreed
<1>7. ClientGoes(k, late, cb, cn) \/ ClientBeginsAgain(k, late, cb, cn)
  BY <1>3, <1>4, <1>5, <1>6, ClientStepsOn
<1>8. UNCHANGED <<cJoined, cMessageChannel, cSettings>>
  BY <1>7 DEF ClientGoes, ClientBeginsAgain
<1>9. Terms' = Terms /\ Known' /\ ServerFit' /\ sRun' \in Working
  BY <1>2, <1>4, <1>8 DEF Terms, Known, ServerFit, ServerLacks, serverVars
<1>10. cRun' \in Working /\ ClientFit'
  BY <1>7 DEF ClientGoes, ClientBeginsAgain, Working
<1>11. ServerAt(k, sState, sa, sb) /\ Up(k, sPdu, sb, sn)
       /\ Path("down", k, cn, sOut, sa) /\ Path("up", k, sn, cOut, cb)
  BY <1>1 DEF Meeting
<1>12. CASE ClientGoes(k, late, cb, cn)
  <2>1. PICK a \in Places, b \in Places :
          /\ ClientAt(k, late, cState', a, b) /\ Down(k, cPdu', a, cn)
          /\ \/ b = cb /\ cOut' = cOut
             \/ \E p : cOut' = cOut \o <<p>> /\ Goes("up", k, p, cb, b)
    BY <1>12 DEF ClientGoes
  <2>2. Path("up", k, sn, cOut', b)
    <3>1. CASE b = cb /\ cOut' = cOut
      BY <1>11, <3>1
    <3>2. CASE \E p : cOut' = cOut \o <<p>> /\ Goes("up", k, p, cb, b)
      BY <1>2, <1>11, <3>2, PathOn
    <3> QED
      BY <2>1, <3>1, <3>2
  <2>3. Meeting(Terms, sa, sb, sn, a, b, cn)'
    BY <1>4, <1>9, <1>11, <2>1, <2>2 DEF Meeting, serverVars
  <2> QED
    BY <1>9, <1>10, <2>3 DEF Session
<1>13. CASE ClientBeginsAgain(k, late, cb, cn)
  <2>0. PICK to \in {3, 4} : to = Layout(k)
    BY DEF Layout
  <2>1. /\ late /\ cn = to + 7 /\ to \in {3, 4} /\ cPdu' = NoPdu /\ cOut' = cOut
        /\ ClientAt(k, FALSE, cState', to, cb)
    BY <1>13, <2>0 DEF ClientBeginsAgain
  <2>2. sa \in {10, 11} /\ Path("down", k, to, sOut, sa - 7)
    <3>1. cn \in {10, 11} /\ cn - 7 = to
      BY <2>1
    <3> QED
      BY <1>2, <1>11, <3>1, PathBack
  <2>3. ServerAt(k, sState, sa - 7, sb)
    BY <1>11, <2>2 DEF ServerAt, Layout, Opening
  <2>4. sa - 7 \in Places /\ to \in Places /\ (sa - 7 >= 9) = FALSE /\ Down(k, cPdu', to, to)
    BY <2>1, <2>2 DEF Places, Down
  <2>5. Meeting(Terms, sa - 7, sb, sn, to, cb, to)'
    BY <1>4, <1>9, <1>11, <2>1, <2>2, <2>3, <2>4 DEF Meeting, serverVars
  <2> QED
    BY <1>9, <1>10, <2>4, <2>5 DEF Session
<1> QED
  BY <1>7, <1>12, <1>13

\* What the server sends goes on from its place.
LEMMA PathGoes ==
    ASSUME NEW k, NEW cn, NEW sa, NEW a \in Places, Listed(sOut), Path("down", k, cn, sOut, sa),
           \/ a = sa /\ sOut' = sOut
           \/ \E p : sOut' = sOut \o <<p>> /\ Goes("down", k, p, sa, a)
           \/ \E p, q : \E c \in Places :
                 /\ sOut' = sOut \o <<p, q>>
                 /\ Goes("down", k, p, sa, c) /\ Goes("down", k, q, c, a)
    PROVE  Path("down", k, cn, sOut', a)
<1>1. CASE a = sa /\ sOut' = sOut
  BY <1>1
<1>2. CASE \E p : sOut' = sOut \o <<p>> /\ Goes("down", k, p, sa, a)
  BY <1>2, PathOn
<1>3. CASE \E p, q : \E c \in Places :
                 /\ sOut' = sOut \o <<p, q>>
                 /\ Goes("down", k, p, sa, c) /\ Goes("down", k, q, c, a)
  <2>1. PICK p, q : \E c \in Places :
                 /\ sOut' = sOut \o <<p, q>>
                 /\ Goes("down", k, p, sa, c) /\ Goes("down", k, q, c, a)
    BY <1>3
  <2>2. PICK c \in Places : /\ sOut' = sOut \o <<p, q>>
                            /\ Goes("down", k, p, sa, c) /\ Goes("down", k, q, c, a)
    BY <2>1
  <2>3. Path("down", k, cn, sOut \o <<p>>, c)
    BY <2>2, PathOn
  <2>4. Listed(<<p>>) /\ Listed(<<q>>) /\ <<p, q>> = <<p>> \o <<q>>
    BY ShortLists
  <2>5. Listed(sOut \o <<p>>) /\ (sOut \o <<p>>) \o <<q>> = sOut \o (<<p>> \o <<q>>)
    BY <2>4, ConcatListed, ConcatAssociative
  <2>6. Path("down", k, cn, (sOut \o <<p>>) \o <<q>>, a)
    BY <2>2, <2>3, <2>5, PathOn
  <2> QED
    BY <2>2, <2>4, <2>5, <2>6
<1> QED
  BY <1>1, <1>2, <1>3

LEMMA ServerHandlesOn ==
    ASSUME Session, JoinRight, ServerHandles
    PROVE  Session'
<1>1. PICK sa, sb, sn, ca, cb, cn \in Places :
        Meeting(Terms, sa, sb, sn, ca, cb, cn)
  BY DEF Session
<1>2. Listed(sOut) /\ Listed(cOut) /\ Known /\ ClientFit /\ ServerFit
      /\ cRun \in Working /\ sRun \in Working
      /\ sSettings \in ServerSettings /\ cSettings \in ClientSettings
  BY DEF JoinRight, Session
<1>3. sa >= 9 => sn = 2
  BY <1>1, <1>2, MeetingBetween
<1> DEFINE k == Terms
<1>4. ServerStep /\ UNCHANGED clientVars
  BY DEF ServerHandles
<1>5. ServerHere(k, sa, sb, sn)
  BY <1>1, <1>2, <1>3 DEF ServerHere, Meeting
<1>6. ServerGoes(k, sa, sn)
  BY <1>4, <1>5, ServerStepsOn
<1>7. ServerKeepsTerms /\ sRun' \in Working /\ ServerFit'
  BY <1>6 DEF ServerGoes
<1>8. Terms' = Terms /\ Known' /\ ClientFit' /\ cRun' \in Working
  <2>1. UNCHANGED <<cState, cRun, cPdu, cFinalize, cMonitorLayout, cJoined, cMessageChannel,
                    cLicense, cSettings>>
    BY <1>4 DEF clientVars
  <2>2. Terms' = Terms
    BY <1>7, <2>1 DEF Terms, ServerKeepsTerms
  <2>3. Known'
    BY <1>2, <1>7, <2>1 DEF Known, ServerKeepsTerms
  <2>4. ClientFit'
    BY <1>2, <1>7, <2>1 DEF ClientFit, ServerKeepsTerms, ClientLacks
  <2> QED
    BY <1>2, <2>1, <2>2, <2>3, <2>4
<1>9. /\ ClientAt(k, sa >= 9, cState, ca, cb) /\ Down(k, cPdu, ca, cn)
      /\ Path("down", k, cn, sOut, sa) /\ Path("up", k, sn, cOut, cb)
  BY <1>1 DEF Meeting
<1>10. PICK a \in Places, b \in Places :
          /\ ServerAt(k, sState', a, b) /\ Up(k, sPdu', b, sn) /\ (a >= 9 <=> sa >= 9)
          /\ \/ a = sa /\ sOut' = sOut
             \/ \E p : sOut' = sOut \o <<p>> /\ Goes("down", k, p, sa, a)
             \/ \E p, q : \E c \in Places :
                   /\ sOut' = sOut \o <<p, q>>
                   /\ Goes("down", k, p, sa, c) /\ Goes("down", k, q, c, a)
  BY <1>6 DEF ServerGoes
<1>11. Path("down", k, cn, sOut', a)
  BY <1>2, <1>9, <1>10, PathGoes
<1>12. (a >= 9) = (sa >= 9)
  BY <1>10 DEF Places
<1>13. Meeting(Terms, a, b, sn, ca, cb, cn)'
  BY <1>4, <1>8, <1>9, <1>10, <1>11, <1>12 DEF Meeting, clientVars
<1> QED
  BY <1>7, <1>8, <1>13 DEF Session

LEMMA ClientTakes ==
    ASSUME NEW k, NEW ca \in Places, NEW cn \in Places, NEW b, ClientFit, Listed(sOut),
           Down(k, cPdu, ca, cn), Path("down", k, cn, sOut, b), DeliverToClient
    PROVE  /\ cRun' = "run" /\ ClientFit'
           /\ \E c \in Places : Down(k, cPdu', ca, c) /\ Path("down", k, c, sOut', b)
<1>1. /\ sOut # <<>> /\ cRun = "idle" /\ cRun' = "run" /\ cPdu' = Head(sOut) /\ sOut' = Tail(sOut)
      /\ UNCHANGED <<cState, cFinalize, cMonitorLayout, cLicense, cSettings, sSettings>>
  BY DEF DeliverToClient, ClientReceive
<1>2. PICK c \in Places : Goes("down", k, Head(sOut), cn, c) /\ Path("down", k, c, Tail(sOut), b)
  BY <1>1, PathHead
<1>3. cPdu = NoPdu /\ cState \notin Batch /\ cn = ca
  BY <1>1 DEF ClientFit, Down, NoPdu, Pdu, LicenceEnd
<1>4. cPdu' # NoPdu
  BY <1>1, <1>2 DEF Goes, NoPdu, Pdu
<1>5. ClientFit'
  BY <1>1, <1>3, <1>4 DEF ClientFit, Batch, ClientLacks, NoPdu, Pdu
<1>6. Down(k, cPdu', ca, c)
  BY <1>1, <1>2, <1>3 DEF Goes
<1> QED
  BY <1>1, <1>2, <1>5, <1>6

LEMMA DeliveryToClientOn ==
    ASSUME Session, JoinRight, DeliverToClient
    PROVE  Session'
<1>1. PICK sa, sb, sn, ca, cb, cn \in Places :
        Meeting(Terms, sa, sb, sn, ca, cb, cn)
  BY DEF Session
<1>2. Listed(sOut) /\ Known /\ ClientFit /\ ServerFit /\ cRun \in Working /\ sRun \in Working
  BY DEF JoinRight, Session
<1>3. PICK c \in Places : Down(Terms, cPdu', ca, c) /\ Path("down", Terms, c, sOut', sa)
  BY <1>1, <1>2, ClientTakes DEF Meeting
<1>4. cRun' = "run" /\ ClientFit'
  BY <1>1, <1>2, ClientTakes DEF Meeting
<1>5. UNCHANGED <<cState, cFinalize, cMonitorLayout, cJoined, cMessageChannel, cLicense, cSettings,
                  cOut, sState, sRun, sPdu, sFinalize, sSettings, sConnected, sActivated>>
  BY DEF DeliverToClient, ClientReceive
<1>6. Terms' = Terms /\ Known' /\ ServerFit' /\ sRun' \in Working
  BY <1>2, <1>5 DEF Terms, Known, ServerFit, ServerLacks
<1>7. Meeting(Terms, sa, sb, sn, ca, cb, c)'
  BY <1>1, <1>3, <1>5, <1>6 DEF Meeting
<1> QED
  BY <1>4, <1>6, <1>7 DEF Session, Working

LEMMA DeliveryToServerOn ==
    ASSUME Session, JoinRight, DeliverToServer
    PROVE  Session'
<1>1. PICK sa, sb, sn, ca, cb, cn \in Places :
        Meeting(Terms, sa, sb, sn, ca, cb, cn)
  BY DEF Session
<1>2. Listed(cOut) /\ Known /\ ClientFit /\ ServerFit /\ cRun \in Working /\ sRun \in Working
  BY DEF JoinRight, Session
<1>3. /\ cOut # <<>> /\ sRun = "idle" /\ sRun' = "run" /\ sPdu' = Head(cOut) /\ cOut' = Tail(cOut)
      /\ UNCHANGED <<cState, cRun, cPdu, cFinalize, cMonitorLayout, cJoined, cMessageChannel,
                     cLicense, cSettings, sState, sFinalize, sSettings, sConnected, sActivated, sOut>>
  BY DEF DeliverToServer, ServerReceive
<1>4. PICK c \in Places : Goes("up", Terms, Head(cOut), sn, c) /\ Path("up", Terms, c, Tail(cOut), cb)
  BY <1>1, <1>2, <1>3, PathHead DEF Meeting
<1>5. sPdu = NoPdu /\ sn = sb
  BY <1>1, <1>2, <1>3 DEF ServerFit, Meeting, Up, NoPdu, Pdu
<1>6. sPdu' # NoPdu
  BY <1>3, <1>4 DEF Goes, NoPdu, Pdu
<1>7. ServerFit'
  BY <1>2, <1>3, <1>6 DEF ServerFit, ServerLacks
<1>8. Terms' = Terms /\ Known' /\ ClientFit' /\ cRun' \in Working
  BY <1>2, <1>3 DEF Terms, Known, ClientFit, ClientLacks
<1>9. Up(Terms, sPdu', sb, c)
  BY <1>3, <1>4, <1>5 DEF Goes
<1>10. Meeting(Terms, sa, sb, c, ca, cb, cn)'
  BY <1>1, <1>3, <1>4, <1>8, <1>9 DEF Meeting
<1> QED
  BY <1>3, <1>7, <1>8, <1>10 DEF Session, Working

LEMMA InputOn ==
    ASSUME Session, JoinRight, UserInput
    PROVE  Session'
<1>1. PICK sa, sb, sn, ca, cb, cn \in Places :
        Meeting(Terms, sa, sb, sn, ca, cb, cn)
  BY DEF Session
<1>2. Listed(cOut) /\ Known /\ ClientFit /\ ServerFit /\ cRun \in Working /\ sRun \in Working
  BY DEF JoinRight, Session
<1>3. /\ cState \in ActiveClientStates /\ cOut' = cOut \o <<Pdu("Input")>>
      /\ UNCHANGED <<cState, cRun, cPdu, cFinalize, cMonitorLayout, cJoined, cMessageChannel,
                     cLicense, cSettings>>
      /\ UNCHANGED <<sState, sRun, sPdu, sFinalize, sSettings, sConnected, sActivated, sOut>>
  BY DEF UserInput, ClientInput, ClientSend, serverVars
<1>4. cb \in {2} \cup (4 .. 9)
  BY <1>1, <1>3 DEF Meeting, ClientAt, ActiveClientStates, FinalizationStates,
                    ClientFinalizationStates
<1>5. Goes("up", Terms, Pdu("Input"), cb, cb)
  BY <1>4 DEF Goes, Up, Pdu
<1>6. Path("up", Terms, sn, cOut', cb)
  BY <1>1, <1>2, <1>3, <1>5, PathOn DEF Meeting
<1>7. Terms' = Terms /\ Known' /\ ClientFit' /\ ServerFit' /\ cRun' \in Working /\ sRun' \in Working
  BY <1>2, <1>3 DEF Terms, Known, ClientFit, ClientLacks, ServerFit, ServerLacks
<1>8. Meeting(Terms, sa, sb, sn, ca, cb, cn)'
  BY <1>1, <1>3, <1>6, <1>7 DEF Meeting
<1> QED
  BY <1>7, <1>8 DEF Session

\* Graphics and channel data.
LEMMA TrafficGoes ==
    ASSUME NEW sa \in Places, NEW sb \in Places, NEW sn \in Places,
           NEW ca \in Places, NEW cb \in Places, NEW cn \in Places,
           Listed(sOut), Meeting(Terms, sa, sb, sn, ca, cb, cn), ServerFit,
           ServerUpdate \/ ServerChannelData
    PROVE  Path("down", Terms, cn, sOut', sa)
<1>1. \E p : sOut' = sOut \o <<p>> /\ Goes("down", Terms, p, sa, sa)
  <2>1. CASE ServerUpdate
    <3>1. sOut' = sOut \o <<Pdu("FastPathUpdate")>> /\ sa = 8
      BY <2>1 DEF ServerUpdate, ServerSend, ServerFit, Meeting, ServerAt
    <3>2. Goes("down", Terms, Pdu("FastPathUpdate"), sa, sa)
      BY <3>1 DEF Goes, Down, Pdu
    <3> QED
      BY <3>1, <3>2
  <2>2. CASE ServerChannelData
    <3>1. sOut' = sOut \o <<Pdu("ChannelData")>> /\ sState \notin Early
      BY <2>2 DEF ServerChannelData, ServerSend, ServerFit
    <3>2. sa \in (3 .. 8) \cup {10, 11}
      BY <3>1 DEF Early, Meeting, ServerAt, Layout
    <3>3. Goes("down", Terms, Pdu("ChannelData"), sa, sa)
      BY <3>2 DEF Goes, Down, Pdu
    <3> QED
      BY <3>1, <3>3
  <2> QED
    BY <2>1, <2>2
<1> QED
  BY <1>1, PathOn DEF Meeting

LEMMA TrafficOn ==
    ASSUME Session, JoinRight, ServerUpdate \/ ServerChannelData, UNCHANGED <<clientVars, reconnects>>
    PROVE  Session'
<1>1. PICK sa, sb, sn, ca, cb, cn \in Places :
        Meeting(Terms, sa, sb, sn, ca, cb, cn)
  BY DEF Session
<1>2. Listed(sOut) /\ Known /\ ClientFit /\ ServerFit /\ cRun \in Working /\ sRun \in Working
  BY DEF JoinRight, Session
<1>3. /\ UNCHANGED <<cState, cRun, cPdu, cFinalize, cMonitorLayout, cJoined, cMessageChannel,
                     cLicense, cSettings, cOut>>
      /\ UNCHANGED <<sState, sRun, sPdu, sFinalize, sSettings, sConnected, sActivated>>
  BY DEF ServerUpdate, ServerChannelData, clientVars
<1>5. Path("down", Terms, cn, sOut', sa)
  BY <1>1, <1>2, TrafficGoes
<1>6. Terms' = Terms /\ Known' /\ ClientFit' /\ ServerFit' /\ cRun' \in Working /\ sRun' \in Working
  BY <1>2, <1>3 DEF Terms, Known, ClientFit, ClientLacks, ServerFit, ServerLacks
<1>7. Meeting(Terms, sa, sb, sn, ca, cb, cn)'
  BY <1>1, <1>3, <1>5, <1>6 DEF Meeting
<1> QED
  BY <1>6, <1>7 DEF Session

\* An activated server has read everything but input, and the client waits for it.
LEMMA BothActivated ==
    ASSUME NEW sa \in Places, NEW sb \in Places, NEW sn \in Places,
           NEW ca \in Places, NEW cb \in Places, NEW cn \in Places,
           Listed(sOut), Listed(cOut), Meeting(Terms, sa, sb, sn, ca, cb, cn),
           ServerFit, sActivated, sRun = "idle"
    PROVE  /\ sa = 8 /\ sb = 9 /\ sn = 9 /\ cb = 9 /\ sPdu = NoPdu
           /\ \A k : ClientAt(k, TRUE, cState, ca, 2)
<1>1. sa = 8 /\ sb = 9 /\ sPdu = NoPdu
  BY DEF ServerFit, Meeting, ServerAt
<1>2. Later(sb, sn) /\ Later(sn, cb)
  BY Zenon, MeetingBetween
<1>3. ClientAt(Terms, FALSE, cState, ca, cb)
  <2>1. (sa >= 9) = FALSE
    BY <1>1
  <2> QED
    BY <2>1 DEF Meeting
<1>4. cb >= 9
  BY <1>1, <1>2 DEF Later, Places
<1>5. /\ cb = 9
      /\ \/ cState = "FINALIZATION_CLIENT_SYNC" /\ ca = 4
         \/ cState = "FINALIZATION_CLIENT_COOPERATE" /\ ca = 5
         \/ cState = "FINALIZATION_CLIENT_GRANTED_CONTROL" /\ ca = 6
         \/ cState = "FINALIZATION_CLIENT_FONT_MAP" /\ ca = 7
         \/ cState = "ACTIVE" /\ ca = 8
  BY <1>3, <1>4 DEF ClientAt, Opening, Layout
<1>6. sn = 9
  BY <1>1, <1>2, <1>5 DEF Later, Places
<1>7. \A k : ClientAt(k, TRUE, cState, ca, 2)
  BY <1>5 DEF ClientAt
<1> QED
  BY <1>1, <1>5, <1>6, <1>7

\* A desktop resize.
LEMMA ResizeGoes ==
    ASSUME NEW k, NEW cn, Listed(sOut), Path("down", k, cn, sOut, 8), ServerReactivate,
           NEW to \in {10, 11}, to = Layout(k) + 7
    PROVE  Path("down", k, cn, sOut', to)
<1> DEFINE p == Pdu("DeactivateAll")
           q == Pdu("DemandActive")
<1>1. Goes("down", k, p, 8, 9) /\ Goes("down", k, q, 9, to) /\ 9 \in Places /\ to \in Places
  BY DEF Goes, Down, Pdu, Places
<1>2. sOut' = sOut \o <<p, q>>
  BY DEF ServerReactivate, ServerSend
<1> HIDE DEF p, q
<1> QED
  BY <1>1, <1>2, PathGoes

LEMMA ResizeOn ==
    ASSUME Session, JoinRight, ServerReactivate, UNCHANGED <<clientVars, reconnects>>
    PROVE  Session'
<1>1. PICK sa, sb, sn, ca, cb, cn \in Places :
        Meeting(Terms, sa, sb, sn, ca, cb, cn)
  BY DEF Session
<1>2. /\ Listed(sOut) /\ Listed(cOut) /\ Known /\ ClientFit /\ ServerFit
      /\ cRun \in Working /\ sRun = "idle" /\ sActivated
  BY DEF JoinRight, Session, ServerReactivate
<1>3. /\ UNCHANGED <<cState, cRun, cPdu, cFinalize, cMonitorLayout, cJoined, cMessageChannel,
                     cLicense, cSettings, cOut>>
      /\ UNCHANGED <<sRun, sPdu, sSettings, sConnected>>
      /\ sActivated' = FALSE /\ sFinalize' = sFinalize \cup {"DEACTIVATE_REACTIVATE"}
      /\ sState' = "CAPABILITIES_EXCHANGE_MONITOR_LAYOUT"
      /\ sOut' = sOut \o <<Pdu("DeactivateAll"), Pdu("DemandActive")>>
  BY DEF ServerReactivate, ServerSend, clientVars
<1>4. PICK k : k = Terms'
  OBVIOUS
<1>5. k.licensed = Terms.licensed /\ k.transport = Terms.transport /\ k.layout = Terms.layout
  BY <1>3, <1>4 DEF Terms
<1>6. PICK to \in {10, 11} : to = Layout(k) + 7
  BY DEF Layout
<1>7. /\ sa = 8 /\ sn = 9 /\ cb = 9 /\ sPdu = NoPdu /\ ClientAt(k, TRUE, cState, ca, 2)
  BY <1>1, <1>2, <1>5, BothActivated
<1>8. Path("up", k, 2, cOut, 2)
  BY <1>1, <1>2, <1>7, PathAgain DEF Meeting
<1>9. Path("down", k, cn, sOut, 8) /\ Down(k, cPdu, ca, cn)
  <2>1. Down(k, cPdu, ca, cn)
    BY <1>1, <1>5 DEF Meeting, Down, LicenceEnd, Opening, Layout
  <2> QED
    BY <1>1, <1>2, <1>5, <1>7, <2>1, PathOther DEF Meeting
<1>10. Path("down", k, cn, sOut', to)
  BY <1>2, <1>6, <1>9, ResizeGoes
<1>11. ServerAt(k, sState', to, 2) /\ Up(k, sPdu', 2, 2) /\ (to >= 9) = TRUE
       /\ to \in Places /\ 2 \in Places
  BY <1>3, <1>6, <1>7 DEF ServerAt, Up, Places
<1>12. Known' /\ ClientFit' /\ cRun' \in Working /\ sRun' \in Working
  BY <1>2, <1>3 DEF Known, ClientFit, ClientLacks, Working
<1>13. ServerFit'
  BY <1>2, <1>3, <1>7 DEF ServerFit, FinalizationStates, Early
<1>14. Meeting(Terms, to, 2, 2, ca, 2, cn)'
  BY <1>3, <1>4, <1>7, <1>8, <1>9, <1>10, <1>11 DEF Meeting
<1> QED
  BY <1>11, <1>12, <1>13, <1>14 DEF Session

LEMMA ThreeSent ==
    ASSUME NEW s, Listed(s), NEW p, NEW q, NEW r
    PROVE  ((s \o <<p>>) \o <<q>>) \o <<r>> = s \o (<<p>> \o <<q>> \o <<r>>)
<1>1. PICK a, b, c : a = <<p>> /\ b = <<q>> /\ c = <<r>>
  OBVIOUS
<1>2. Listed(a) /\ Listed(b) /\ Listed(c)
  BY <1>1, ShortLists
<1>3. PICK d : d = a \o b
  OBVIOUS
<1>4. Listed(d) /\ (s \o a) \o b = s \o d
  BY <1>2, <1>3, ConcatListed, ConcatAssociative
<1>5. (s \o d) \o c = s \o (d \o c)
  BY <1>2, <1>4, ConcatAssociative
<1> QED
  BY <1>1, <1>3, <1>4, <1>5

\* The application closes the session.
LEMMA CloseGoes ==
    ASSUME NEW k, NEW cn, Listed(sOut), Path("down", k, cn, sOut, 8), ServerCloseSession
    PROVE  Path("down", k, cn, sOut', 12)
<1> DEFINE p == Pdu("DeactivateAll")
           q == Pdu("DisconnectUltimatum")
           i == Pdu("ErrorInfo")
<1>1. sOut' = sOut \o (<<p>> \o <<>> \o <<q>>) \/ sOut' = sOut \o (<<p>> \o <<i>> \o <<q>>)
  BY DEF ServerCloseSession, ServerClose, ServerSend
<1>2. /\ Goes("down", k, p, 8, 9) /\ Goes("down", k, i, 9, 9) /\ Goes("down", k, q, 9, 12)
      /\ 9 \in Places /\ 12 \in Places
  BY DEF Goes, Down, Pdu, Places
<1> HIDE DEF p, q, i
<1>3. Path("down", k, cn, sOut \o <<p>>, 9)
  BY <1>2, PathOn
<1>4. /\ Listed(<<p>>) /\ Listed(<<q>>) /\ Listed(<<i>>)
      /\ Listed(sOut \o <<p>>) /\ Listed((sOut \o <<p>>) \o <<i>>)
  BY ShortLists, ConcatListed
<1>5. CASE sOut' = sOut \o (<<p>> \o <<>> \o <<q>>)
  <2>1. <<p>> \o <<>> = <<p>>
    BY <1>4, NothingSent
  <2>2. (sOut \o <<p>>) \o <<q>> = sOut \o (<<p>> \o <<q>>)
    BY <1>4, ConcatAssociative
  <2>3. Path("down", k, cn, (sOut \o <<p>>) \o <<q>>, 12)
    BY <1>2, <1>3, <1>4, PathOn
  <2> QED
    BY <1>5, <2>1, <2>2, <2>3
<1>6. CASE sOut' = sOut \o (<<p>> \o <<i>> \o <<q>>)
  <2>1. ((sOut \o <<p>>) \o <<i>>) \o <<q>> = sOut \o (<<p>> \o <<i>> \o <<q>>)
    BY ThreeSent
  <2>2. Path("down", k, cn, (sOut \o <<p>>) \o <<i>>, 9)
    BY <1>2, <1>3, <1>4, PathOn
  <2>3. Path("down", k, cn, ((sOut \o <<p>>) \o <<i>>) \o <<q>>, 12)
    BY <1>2, <1>4, <2>2, PathOn
  <2> QED
    BY <1>6, <2>1, <2>3
<1> QED
  BY <1>1, <1>5, <1>6

LEMMA CloseOn ==
    ASSUME Session, JoinRight, ServerCloseSession, UNCHANGED <<clientVars, reconnects>>
    PROVE  Closing'
<1>1. PICK sa, sb, sn, ca, cb, cn \in Places :
        Meeting(Terms, sa, sb, sn, ca, cb, cn)
  BY DEF Session
<1>2. /\ Listed(sOut) /\ Listed(cOut) /\ Known /\ ClientFit /\ ServerFit
      /\ cRun \in Working /\ sRun = "idle" /\ sActivated
  BY DEF JoinRight, Session, ServerCloseSession, ServerClose
<1>3. /\ UNCHANGED <<cState, cRun, cPdu, cFinalize, cMonitorLayout, cJoined, cMessageChannel,
                     cLicense, cSettings, cOut>>
      /\ UNCHANGED <<sFinalize, sSettings>> /\ sRun' = "closed"
  BY DEF ServerCloseSession, ServerClose, clientVars
<1>5. PICK k : k = Terms
  OBVIOUS
<1>6. /\ sa = 8 /\ ClientAt(k, TRUE, cState, ca, 2)
  BY <1>1, <1>2, <1>5, BothActivated
<1>7. 12 \in Places /\ 2 \in Places
  BY DEF Places
<1>8. Path("down", k, cn, sOut, 8) /\ Down(k, cPdu, ca, cn)
  BY <1>1, <1>5, <1>6 DEF Meeting
<1>11. Path("down", k, cn, sOut', 12)
  BY <1>2, <1>8, CloseGoes
<1>12. Terms' = k /\ Known' /\ ClientFit' /\ cRun' \in Working
  BY <1>2, <1>3, <1>5 DEF Terms, Known, ClientFit, ClientLacks
<1>13. ClientAt(Terms', TRUE, cState', ca, 2) /\ Down(Terms', cPdu', ca, cn)
       /\ Path("down", Terms', cn, sOut', 12)
  BY <1>3, <1>6, <1>8, <1>11, <1>12
<1> QED
  BY <1>3, <1>7, <1>12, <1>13 DEF Closing

LEMMA ServerStepsWork == ServerStep => sRun = "run"
<1>1. \A state, flag, pdus, next : ServerFinalize(state, flag, pdus, next) => sRun = "run"
  BY DEF ServerFinalize, ServerIn
<1>2. \A state : ServerPlainRecv(state) => sRun = "run"
  BY DEF ServerPlainRecv, ServerIn
<1> QED
  BY <1>1, <1>2
     DEF ServerStep, ServerConnectInitial, ServerErectDomain, ServerAttachUser, ServerChannelJoin,
         ServerEstablishKeys, ServerClientInfo, ServerAutoDetectRequest, ServerAutoDetectResponse,
         ServerLicensing, ServerMultitransportRequest, ServerMultitransportResponse,
         ServerDemandActive, ServerMonitorLayout, ServerConfirmActive, ServerFinalizeSync,
         ServerFinalizeCooperate, ServerFinalizeRequestControl, ServerFinalizeKeyList,
         ServerFinalizeFontList, ServerActivate, ServerActive, ServerIn

\* Once the session has been closed only the client works.
LEMMA ClientHandlesClosing ==
    ASSUME Closing, JoinRight, ClientHandles
    PROVE  Closing'
<1>1. cRun = "run" /\ ClientStep /\ UNCHANGED serverVars
  BY StepsWork DEF ClientHandles
<1>2. Known /\ ClientFit /\ Listed(sOut) /\ Listed(cOut) /\ sRun' = "closed"
  BY <1>1 DEF Closing, JoinRight, serverVars
<1>3. PICK ca, cb, cn \in Places :
        /\ ClientAt(Terms, TRUE, cState, ca, cb)
        /\ Down(Terms, cPdu, ca, cn) /\ Path("down", Terms, cn, sOut, 12)
  BY <1>1 DEF Closing
<1>4. ClientHere(Terms, TRUE, ca, cb, cn)
  BY <1>2, <1>3 DEF ClientHere
<1>5. cState \notin FinalizationStates
  BY <1>3 DEF ClientAt, FinalizationStates
<1>6. \/ ClientGoes(Terms, TRUE, cb, cn)
      \/ ClientBeginsAgain(Terms, TRUE, cb, cn)
      \/ cn = 12 /\ cRun' = "closed"
  BY <1>1, <1>4, <1>5, ClientStepsOn
<1>7. ~ClientBeginsAgain(Terms, TRUE, cb, cn)
  <2>1. Later(cn, 12)
    BY <1>2, <1>3, PathBetween
  <2>2. Layout(Terms) \in {3, 4}
    BY DEF Layout
  <2>3. cn \in {10, 11} => FALSE
    BY <2>1 DEF Later
  <2>4. ClientBeginsAgain(Terms, TRUE, cb, cn) => cn = Layout(Terms) + 7
    BY DEF ClientBeginsAgain
  <2>5. cn # Layout(Terms) + 7
    BY <2>2, <2>3
  <2> QED
    BY <2>4, <2>5
<1>8. CASE ClientGoes(Terms, TRUE, cb, cn)
  <2>1. PICK a \in Places, b \in Places :
          ClientAt(Terms, TRUE, cState', a, b) /\ Down(Terms, cPdu', a, cn)
    BY <1>8 DEF ClientGoes
  <2>2. /\ cRun' \in Working /\ ClientFit' /\ UNCHANGED <<cJoined, cMessageChannel, cSettings>>
        /\ UNCHANGED <<sSettings, sFinalize, sOut>>
    BY <1>1, <1>8 DEF ClientGoes, serverVars
  <2>3. Terms' = Terms /\ Known'
    BY <1>2, <2>2 DEF Terms, Known
  <2>4. Path("down", Terms, cn, sOut', 12)
    BY <1>3, <2>2
  <2> QED
    BY <1>2, <2>1, <2>2, <2>3, <2>4 DEF Closing
<1>9. CASE cRun' = "closed"
  BY <1>2, <1>9 DEF Closing
<1> QED
  BY <1>6, <1>7, <1>8, <1>9

LEMMA DeliveryClosing ==
    ASSUME Closing, JoinRight, DeliverToClient
    PROVE  Closing'
<1>1. cRun = "idle" /\ Known /\ ClientFit /\ Listed(sOut)
  BY DEF Closing, JoinRight, DeliverToClient, ClientReceive
<1>2. PICK ca, cb, cn \in Places :
        /\ ClientAt(Terms, TRUE, cState, ca, cb)
        /\ Down(Terms, cPdu, ca, cn) /\ Path("down", Terms, cn, sOut, 12)
  BY <1>1 DEF Closing
<1>3. cRun' = "run" /\ ClientFit'
  BY <1>1, <1>2, ClientTakes
<1>4. PICK c \in Places : Down(Terms, cPdu', ca, c) /\ Path("down", Terms, c, sOut', 12)
  BY <1>1, <1>2, ClientTakes
<1>5. UNCHANGED <<cState, cJoined, cMessageChannel, cSettings, sRun, sFinalize, sSettings>>
  BY DEF DeliverToClient, ClientReceive
<1>6. Terms' = Terms /\ Known'
  BY <1>1, <1>5 DEF Terms, Known
<1> QED
  BY <1>2, <1>3, <1>4, <1>5, <1>6 DEF Closing, Working

LEMMA InputClosing ==
    ASSUME Closing, JoinRight, UserInput \/ UNCHANGED vars
    PROVE  Closing'
<1>1. UNCHANGED <<cState, cRun, cPdu, cFinalize, cMonitorLayout, cJoined, cMessageChannel,
                  cLicense, cSettings, sRun, sFinalize, sSettings, sOut>>
  BY DEF UserInput, ClientInput, vars, clientVars, serverVars
<1>2. CASE cRun = "closed"
  BY <1>1, <1>2 DEF Closing
<1>3. CASE cRun # "closed"
  <2>1. Known /\ ClientFit /\ cRun \in Working /\ sRun = "closed"
    BY <1>3 DEF Closing
  <2>2. Terms' = Terms /\ Known' /\ ClientFit'
    BY <1>1, <2>1 DEF Terms, Known, ClientFit, ClientLacks
  <2>3. PICK ca, cb, cn \in Places :
          /\ ClientAt(Terms, TRUE, cState, ca, cb)
          /\ Down(Terms, cPdu, ca, cn) /\ Path("down", Terms, cn, sOut, 12)
    BY <1>3 DEF Closing
  <2>4. ClientAt(Terms', TRUE, cState', ca, cb) /\ Down(Terms', cPdu', ca, cn)
        /\ Path("down", Terms', cn, sOut', 12)
    BY <1>1, <2>2, <2>3
  <2> QED
    BY <1>1, <2>1, <2>2, <2>4 DEF Closing
<1> QED
  BY <1>2, <1>3

LEMMA ClosingStays ==
    ASSUME Closing, JoinRight, [Next]_vars, ~Reconnect
    PROVE  Closing'
<1>1. sRun = "closed"
  BY DEF Closing
<1>2. ~ServerHandles /\ ~DeliverToServer /\ ~Application
  BY <1>1, ServerStepsWork
     DEF ServerHandles, DeliverToServer, ServerReceive, Application, ServerApplication,
         ServerReactivate, ServerUpdate, ServerChannelData, ServerCloseSession, ServerClose
<1> QED
  BY <1>2, ClientHandlesClosing, DeliveryClosing, InputClosing DEF Next, Terminated

\* Nothing happens in the session.
LEMMA StutterOn ==
    ASSUME Session, UNCHANGED vars
    PROVE  Session'
<1>1. PICK sa, sb, sn, ca, cb, cn \in Places :
        Meeting(Terms, sa, sb, sn, ca, cb, cn)
  BY DEF Session
<1>2. UNCHANGED <<cState, cRun, cPdu, cFinalize, cMonitorLayout, cJoined, cMessageChannel,
                  cLicense, cSettings, cOut, sState, sRun, sPdu, sFinalize, sSettings,
                  sConnected, sActivated, sOut>>
  BY DEF vars, clientVars, serverVars
<1>3. Terms' = Terms /\ Known' /\ ClientFit' /\ ServerFit' /\ cRun' \in Working /\ sRun' \in Working
  BY <1>2 DEF Session, Terms, Known, ClientFit, ClientLacks, ServerFit, ServerLacks
<1>4. Meeting(Terms, sa, sb, sn, ca, cb, cn)'
  BY <1>1, <1>2, <1>3 DEF Meeting
<1> QED
  BY <1>3, <1>4 DEF Session

LEMMA SessionStays ==
    ASSUME Session, JoinRight, ReactivationAgreed, [Next]_vars, ~Reconnect
    PROVE  Session' \/ Closing'
<1>1. ~Ended
  BY DEF Session, Ended, Working
<1>2. CASE Application
  BY <1>2, TrafficOn, ResizeOn, CloseOn DEF Application, ServerApplication
<1> QED
  BY <1>1, <1>2, ClientHandlesOn, ServerHandlesOn, DeliveryToClientOn, DeliveryToServerOn, InputOn,
     StutterOn DEF Next, Terminated

\* The settings that the licence depends on.
LEMMA LicenceStays ==
    ASSUME LicenceKnown, JoinRight, [Next]_vars
    PROVE  LicenceKnown'
<1>1. cSettings \in ClientSettings /\ sSettings \in ServerSettings /\ Listed(sOut) /\ Listed(cOut)
  BY DEF JoinRight
<1>2. /\ cSettings'.cal = cSettings.cal /\ cSettings'.autoDetect = cSettings.autoDetect
      /\ cSettings'.heartbeat = cSettings.heartbeat /\ cSettings'.rdpSecurity = cSettings.rdpSecurity
  <2>1. CASE ClientHandles
    <3>1. CASE ~ClientMcsCreateResponse /\ ~ClientAttachUserConfirm /\ ~ClientChannelJoinConfirm
      BY <1>1, <2>1, <3>1, ClientStepTalks DEF ClientHandles, ClientTalks
    <3>2. CASE ClientMcsCreateResponse
      BY <1>1, <3>2 DEF ClientMcsCreateResponse, ClientReject, ClientSettings
    <3>3. CASE ClientAttachUserConfirm \/ ClientChannelJoinConfirm
      BY <3>3 DEF ClientAttachUserConfirm, ClientChannelJoinConfirm, ClientReject
    <3> QED
      BY <3>1, <3>2, <3>3
  <2>2. CASE ~ClientHandles
    BY <2>2 DEF Next, ServerHandles, DeliverToClient, ClientReceive, DeliverToServer, UserInput,
                ClientInput, Application, Reconnect, ClientReset, Terminated, vars, clientVars
  <2> QED
    BY <2>1, <2>2
<1>3. CASE Reconnect
  <2>1. sSettings' \in ServerConfigs /\ sSettings'.rdpSecurity = cSettings.rdpSecurity
    BY <1>3 DEF Reconnect
  <2> QED
    BY <1>2, <2>1 DEF LicenceKnown
<1>4. CASE ~Reconnect
  <2>1. /\ sSettings'.licenseRequired = sSettings.licenseRequired
        /\ sSettings'.rdpSecurity = sSettings.rdpSecurity
    <3>1. CASE ServerHandles
      <4>1. CASE ~ServerConnectInitial /\ ~ServerAttachUser /\ ~ServerChannelJoin
        BY <1>1, <3>1, <4>1, StepTalks DEF ServerHandles, ServerTalks, ServerSettings
      <4>2. CASE ServerConnectInitial
        BY <1>1, <4>2 DEF ServerConnectInitial, ServerReject, ServerSettings
      <4>3. CASE ServerAttachUser \/ ServerChannelJoin
        BY <4>3 DEF ServerAttachUser, ServerChannelJoin, ServerReject
      <4> QED
        BY <4>1, <4>2, <4>3
    <3>2. CASE ~ServerHandles
      BY <1>4, <3>2
         DEF Next, ClientHandles, DeliverToClient, DeliverToServer, ServerReceive, UserInput,
             Application, ServerApplication, ServerReactivate, ServerUpdate, ServerChannelData,
             ServerCloseSession, ServerClose, Terminated, vars, serverVars
    <3> QED
      BY <3>1, <3>2
  <2> QED
    BY <1>2, <2>1 DEF LicenceKnown
<1> QED
  BY <1>3, <1>4

-----------------------------------------------------------------------------
LEMMA AfterThen ==
    ASSUME NEW cs, NEW ss, NEW p, NEW q
    PROVE  /\ AsksNext(cs, ss, p) => Asks(cs, ss, p)'
           /\ AsksTwoNext(cs, ss, p, q) => AsksTwo(cs, ss, p, q)'
           /\ AnswersNext(cs, ss, p) => Answers(cs, ss, p)'
BY DEF AsksNext, AsksTwoNext, AnswersNext, Asks, AsksTwo, Answers

\* The one PDU that is under way is delivered.
LEMMA Delivered ==
    ASSUME DeliverToClient \/ DeliverToServer, NEW cs, NEW ss, NEW p, NEW q
    PROVE  /\ Asks(cs, ss, p) => AsksNext(cs, ss, p)
           /\ AsksTwo(cs, ss, p, q) => AsksTwoNext(cs, ss, p, q)
           /\ Answers(cs, ss, p) => AnswersNext(cs, ss, p)
           /\ ~ClientGoesOn(cs, ss) /\ ~ServerGoesOn(cs, ss)
<1>1. /\ Head(<<p>>) = p /\ Tail(<<p>>) = <<>> /\ <<p>> # <<>>
      /\ Head(<<p, q>>) = p /\ Tail(<<p, q>>) = <<q>> /\ <<p, q>> # <<>> /\ <<q>> # <<>>
  OBVIOUS
<1>2. CASE DeliverToClient
  <2>1. /\ sOut # <<>> /\ cRun = "idle" /\ cRun' = "run" /\ cPdu' = Head(sOut) /\ sOut' = Tail(sOut)
        /\ UNCHANGED <<cState, cOut, sState, sRun, sPdu>>
    BY <1>2 DEF DeliverToClient, ClientReceive
  <2> QED
    BY <1>1, <2>1 DEF Asks, AsksTwo, Answers, AnswersNext, ClientGoesOn, ServerGoesOn
<1>3. CASE DeliverToServer
  <2>1. /\ cOut # <<>> /\ sRun = "idle" /\ sRun' = "run" /\ sPdu' = Head(cOut) /\ cOut' = Tail(cOut)
        /\ UNCHANGED <<cState, cRun, cPdu, sState, sOut>>
    BY <1>3 DEF DeliverToServer, ServerReceive
  <2> QED
    BY <1>1, <2>1 DEF Asks, AsksTwo, Answers, AsksNext, AsksTwoNext, ClientGoesOn, ServerGoesOn
<1> QED
  BY <1>2, <1>3

LEMMA DeliveryInSetup ==
    ASSUME Setup, DeliverToClient \/ DeliverToServer
    PROVE  Setup'
<1>1. UNCHANGED Agreement
  BY DEF DeliverToClient, ClientReceive, DeliverToServer, ServerReceive, Agreement
<1>2. /\ ConnectInitial' = ConnectInitial /\ JoinState' = JoinState
      /\ ConnectResponse(sSettings, sMessageChannel)' = ConnectResponse(sSettings, sMessageChannel)
      /\ Expected(cJoined)' = Expected(cJoined)
  BY <1>1 DEF Agreement, ConnectInitial, ConnectResponse, JoinState, AnnouncedChannels, Expected
<1>3. (Merged => Merged') /\ (Agreed => Agreed') /\ (Joined => Joined') /\ (Unused => Unused')
  BY <1>1 DEF Agreement, Merged, Agreed, Joined, Unused
<1>4. Start => Start'
  <2>1. ASSUME Start PROVE AsksNext("MCS_CREATE_RESPONSE", "MCS_CREATE_REQUEST", ConnectInitial)
    BY <2>1, Delivered DEF Start
  <2> QED
    BY <1>2, <2>1 DEF Start, AsksNext, Asks
<1>5. Attaching => Attaching'
  <2>1. ASSUME Answers("MCS_CREATE_RESPONSE", "MCS_ERECT_DOMAIN",
                       ConnectResponse(sSettings, sMessageChannel))
        PROVE  Answers("MCS_CREATE_RESPONSE", "MCS_ERECT_DOMAIN",
                       ConnectResponse(sSettings, sMessageChannel))'
    <3>1. AnswersNext("MCS_CREATE_RESPONSE", "MCS_ERECT_DOMAIN",
                      ConnectResponse(sSettings, sMessageChannel))
      BY <2>1, Delivered
    <3> QED
      BY <1>2, <3>1 DEF AnswersNext, Answers
  <2> QED
    BY <1>3, <2>1, Delivered, AfterThen DEF Attaching
<1>6. Joining => Joining'
  <2>1. ASSUME NEW c PROVE Answers("MCS_CHANNEL_JOIN_RESPONSE", JoinState, JoinConfirm(c))
                           => Answers("MCS_CHANNEL_JOIN_RESPONSE", JoinState, JoinConfirm(c))'
    <3>1. Answers("MCS_CHANNEL_JOIN_RESPONSE", JoinState, JoinConfirm(c))
          => AnswersNext("MCS_CHANNEL_JOIN_RESPONSE", JoinState, JoinConfirm(c))
      BY Delivered
    <3> QED
      BY <1>2, <3>1 DEF AnswersNext, Answers, JoinConfirm
  <2>2. ASSUME NEW c PROVE Asks("MCS_CHANNEL_JOIN_RESPONSE", "MCS_CHANNEL_JOIN_REQUEST", JoinRequest(c))
                 => Asks("MCS_CHANNEL_JOIN_RESPONSE", "MCS_CHANNEL_JOIN_REQUEST", JoinRequest(c))'
    BY Delivered, AfterThen
  <2>3. UNCHANGED <<sSettings, sJoined, cJoined>>
    BY <1>1 DEF Agreement
  <2> QED
    BY <1>2, <1>3, <2>1, <2>2, <2>3, Delivered, AfterThen DEF Joining
<1>7. UNCHANGED <<sSettings, sLicense, cLicense, cJoined, sJoined>>
  BY <1>1 DEF Agreement
<1>8. Informing => Informing'
  BY <1>3, <1>7, Delivered, AfterThen DEF Informing
<1>9. Measuring => Measuring'
  BY <1>3, <1>7, Delivered, AfterThen DEF Measuring
<1>10. Licensing => Licensing'
  BY <1>3, <1>7, Delivered, AfterThen DEF Licensing
<1> QED
  BY <1>3, <1>4, <1>5, <1>6, <1>7, <1>8, <1>9, <1>10 DEF Setup

\* The client's handlers by state.
LEMMA ClientStepAt ==
    ASSUME ClientStep
    PROVE  /\ cState = "NEGO" => ClientBegin
           /\ cState = "MCS_CREATE_REQUEST" => ClientMcsCreateRequest
           /\ cState = "MCS_CREATE_RESPONSE" => ClientMcsCreateResponse
           /\ cState = "MCS_ATTACH_USER_CONFIRM" => ClientAttachUserConfirm
           /\ cState = "MCS_CHANNEL_JOIN_RESPONSE" => ClientChannelJoinConfirm
           /\ cState = "CONNECT_TIME_AUTO_DETECT_REQUEST" =>
                  ClientAutoDetect("CONNECT_TIME_AUTO_DETECT_REQUEST", "LICENSING")
           /\ cState = "LICENSING" => ClientLicensing
<1>1. \A state, flag, next : HandleScFlags(state, flag, next) => cState = state
  BY DEF HandleScFlags, ClientIn
<1>2. \A state, pdu, next : SendFinalizePdu(state, pdu, next) => cState = state
  BY DEF SendFinalizePdu, ClientIn
<1>3. \A state, next : ClientAutoDetect(state, next) => cState = state
  BY DEF ClientAutoDetect, ClientIn
<1>4. /\ ClientBegin => cState = "NEGO"
      /\ ClientMcsCreateRequest => cState = "MCS_CREATE_REQUEST"
      /\ ClientMcsCreateResponse => cState = "MCS_CREATE_RESPONSE"
      /\ ClientAttachUserConfirm => cState = "MCS_ATTACH_USER_CONFIRM"
      /\ ClientChannelJoinConfirm => cState = "MCS_CHANNEL_JOIN_RESPONSE"
      /\ ClientLicensing => cState = "LICENSING"
  BY DEF ClientIn, ClientBegin, ClientMcsCreateRequest, ClientMcsCreateResponse,
         ClientAttachUserConfirm, ClientChannelJoinConfirm, ClientLicensing
<1>5. /\ ClientDemandActive => cState = "CAPABILITIES_EXCHANGE_DEMAND_ACTIVE"
      /\ ClientConfirmActive => cState = "CAPABILITIES_EXCHANGE_CONFIRM_ACTIVE"
      /\ ClientMonitorLayout => cState = "CAPABILITIES_EXCHANGE_MONITOR_LAYOUT"
      /\ SendFontList => cState = "FINALIZATION_FONT_LIST"
      /\ ClientActive => cState = "ACTIVE"
  BY DEF ClientIn, ClientDemandActive, ClientConfirmActive, ClientMonitorLayout, SendFontList,
         ClientActive
<1> QED
  BY <1>1, <1>2, <1>3, <1>4, <1>5
     DEF ClientStep, SendSynchronize, SendCooperate, SendRequestControl, SendPersistentKeyList,
         ClientFinalizeSync, ClientFinalizeCooperate, ClientFinalizeGrantedControl,
         ClientFinalizeFontMap

LEMMA FirstSent == \A p : <<>> \o <<p>> = <<p>>
OBVIOUS

\* The channels the client has yet to join are missing on the server.
LEMMA ExpectedMissing ==
    ASSUME NEW joined, NEW c \in Expected(joined), cMessageChannel <=> sMessageChannel
    PROVE  c \in AnnouncedChannels /\ c \notin joined
<1>1. c \in Channels /\ (c = MessageChannelId => cMessageChannel)
  BY ExpectedExists
<1>2. c \notin joined
  BY DEF Expected
<1> QED
  BY <1>1, <1>2 DEF AnnouncedChannels

LEMMA StartClient ==
    ASSUME Start, ClientHandles
    PROVE  Start' /\ UNCHANGED Agreement
<1>1. cRun = "run" /\ ClientStep /\ UNCHANGED serverVars
  BY StepsWork DEF ClientHandles
<1>2. CASE ClientGoesOn("NEGO", "MCS_CREATE_REQUEST")
  <2>1. ClientBegin
    BY <1>1, <1>2, ClientStepAt DEF ClientGoesOn
  <2>2. ClientGoesOn("MCS_CREATE_REQUEST", "MCS_CREATE_REQUEST")'
    BY <1>1, <1>2, <2>1 DEF ClientGoesOn, ClientBegin, ClientContinue, serverVars
  <2> QED
    BY <1>1, <2>1, <2>2 DEF Start, ClientBegin, Agreement, serverVars
<1>3. CASE ClientGoesOn("MCS_CREATE_REQUEST", "MCS_CREATE_REQUEST")
  <2>1. ClientMcsCreateRequest
    BY <1>1, <1>3, ClientStepAt DEF ClientGoesOn
  <2>2. cOut' = <<ConnectInitial>> /\ ConnectInitial' = ConnectInitial
    BY <1>3, <2>1, FirstSent DEF ClientGoesOn, ClientMcsCreateRequest, ClientSend, ConnectInitial
  <2>3. Asks("MCS_CREATE_RESPONSE", "MCS_CREATE_REQUEST", ConnectInitial)'
    BY <1>1, <1>3, <2>1, <2>2 DEF Asks, ClientGoesOn, ClientMcsCreateRequest, ClientSuccess, serverVars
  <2> QED
    BY <1>1, <2>1, <2>3 DEF Start, ClientMcsCreateRequest, Agreement, serverVars
<1> QED
  BY <1>1, <1>2, <1>3 DEF Start, Asks

LEMMA AttachingClient ==
    ASSUME Attaching, JoinRight, ClientHandles
    PROVE  /\ Attaching'
           /\ UNCHANGED <<cFinalize, cMonitorLayout, cJoined, cLicense, sFinalize,
                          sJoined, sLicense, sConnected, sActivated>>
<1>1. cRun = "run" /\ ClientStep /\ UNCHANGED serverVars
  BY StepsWork DEF ClientHandles
<1>2. /\ Merged /\ cState = "MCS_CREATE_RESPONSE" /\ sState = "MCS_ERECT_DOMAIN"
      /\ cOut = <<>> /\ sOut = <<>> /\ sRun = "idle" /\ sPdu = NoPdu
      /\ cPdu = ConnectResponse(sSettings, sMessageChannel)
  BY <1>1 DEF Attaching, Answers, AsksTwo, Asks
<1>3. ClientMcsCreateResponse
  BY <1>1, <1>2, ClientStepAt
<1>4. /\ cPdu.type = "ConnectResponse" /\ cPdu.caps.skipJoin = sSettings.skipJoin
      /\ cPdu.caps.messageChannel = sMessageChannel /\ cPdu.caps.multitransport # "none"
  BY <1>2 DEF ConnectResponse
<1>5. /\ cSettings' = [cSettings EXCEPT
                                !.skipJoin = @ /\ cPdu.caps.skipJoin,
                                !.multitransport = @ /\ cPdu.caps.multitransport # "none"]
      /\ cMessageChannel' = cPdu.caps.messageChannel
      /\ cOut' = <<>> \o <<Pdu("ErectDomain"), Pdu("AttachUserRequest")>>
      /\ cState' = "MCS_ATTACH_USER_CONFIRM" /\ cRun' = "idle" /\ cPdu' = NoPdu
      /\ UNCHANGED <<cFinalize, cMonitorLayout, cJoined, cLicense>>
  BY <1>2, <1>3, <1>4 DEF ClientMcsCreateResponse, ClientSend, ClientSuccess
<1>6. cOut' = <<Pdu("ErectDomain"), Pdu("AttachUserRequest")>>
  BY <1>5
<1>7. Agreed'
  <2>1. cSettings \in ClientSettings
    BY DEF JoinRight
  <2>2. /\ cSettings'.skipJoin = (cSettings.skipJoin /\ sSettings.skipJoin)
        /\ cSettings'.multitransport = cSettings.multitransport
        /\ cSettings'.monitorLayout = cSettings.monitorLayout
        /\ cSettings'.autoDetect = cSettings.autoDetect /\ cSettings'.cal = cSettings.cal
    BY <1>4, <1>5, <2>1 DEF ClientSettings
  <2> QED
    BY <1>1, <1>2, <1>4, <1>5, <2>2 DEF Agreed, Merged, serverVars
<1>8. AsksTwo("MCS_ATTACH_USER_CONFIRM", "MCS_ERECT_DOMAIN",
              Pdu("ErectDomain"), Pdu("AttachUserRequest"))'
  BY <1>1, <1>2, <1>5, <1>6 DEF AsksTwo, serverVars
<1> QED
  BY <1>1, <1>5, <1>7, <1>8 DEF Attaching, serverVars

\* The client joins the next channel, or has joined all.
LEMMA JoinsOn ==
    ASSUME Agreed, cSettings.rdpSecurity <=> sSettings.rdpSecurity,
           cJoined' = sJoined, sState = JoinState, JoinNextOrSendInfo(cJoined'), ClientSuccess,
           UNCHANGED <<cMessageChannel, cSettings, serverVars>>,
           cOut = <<>>, sRun = "idle", sPdu = NoPdu, sOut = <<>>
    PROVE  Joining' \/ Informing'
<1>1. UNCHANGED <<cMessageChannel, cSettings, sState, sRun, sPdu, sJoined, sMessageChannel,
                  sSettings, sOut>>
  BY DEF serverVars
<1>2. Agreed' /\ Expected(cJoined)' = Expected(cJoined')
  BY <1>1 DEF Agreed, Merged, Expected
<1>3. cMessageChannel <=> sMessageChannel
  BY DEF Agreed
<1>4. CASE Expected(cJoined') = {}
  <2>1. /\ {UserId, MCS_GLOBAL_CHANNEL_ID} \cup StaticChannels \subseteq cJoined'
        /\ cMessageChannel => MessageChannelId \in cJoined'
    BY <1>4, NothingExpected
  <2>2. AnnouncedChannels \subseteq sJoined
    BY <1>3, <2>1 DEF AnnouncedChannels, Channels
  <2>3. sState = "RDP_SECURITY_COMMENCEMENT"
    BY <2>2 DEF JoinState
  <2>4. /\ cState' = "CONNECT_TIME_AUTO_DETECT_REQUEST" /\ cRun' = "idle" /\ cPdu' = NoPdu
        /\ cOut' = <<>> \o ClientInfoPdus
    BY <1>4 DEF JoinNextOrSendInfo, ClientSend, ClientSuccess
  <2>5. ClientInfoPdus = IF sSettings.rdpSecurity THEN <<Pdu("SecurityExchange"), Pdu("ClientInfo")>>
                                                  ELSE <<Pdu("ClientInfo")>>
    <3>1. CASE sSettings.rdpSecurity
      BY <3>1, ShortLists DEF ClientInfoPdus
    <3>2. CASE ~sSettings.rdpSecurity
      BY <3>2, FirstSent DEF ClientInfoPdus
    <3> QED
      BY <3>1, <3>2
  <2>6. Joined'
    BY <1>1, <1>2, <1>3, <2>1 DEF Joined
  <2>7. CASE sSettings.rdpSecurity
    <3>1. cOut' = <<Pdu("SecurityExchange"), Pdu("ClientInfo")>>
      BY <2>4, <2>5, <2>7
    <3>2. AsksTwo("CONNECT_TIME_AUTO_DETECT_REQUEST", "RDP_SECURITY_COMMENCEMENT",
                  Pdu("SecurityExchange"), Pdu("ClientInfo"))'
      BY <1>1, <2>3, <2>4, <3>1 DEF AsksTwo
    <3> QED
      BY <1>1, <2>6, <2>7, <3>2 DEF Informing
  <2>8. CASE ~sSettings.rdpSecurity
    <3>1. cOut' = <<Pdu("ClientInfo")>>
      BY <2>4, <2>5, <2>8, FirstSent
    <3>2. Asks("CONNECT_TIME_AUTO_DETECT_REQUEST", "RDP_SECURITY_COMMENCEMENT", Pdu("ClientInfo"))'
      BY <1>1, <2>3, <2>4, <3>1 DEF Asks
    <3> QED
      BY <1>1, <2>6, <2>8, <3>2 DEF Informing
  <2> QED
    BY <2>7, <2>8
<1>5. CASE Expected(cJoined') # {}
  <2>1. PICK c \in Expected(cJoined') : cOut' = cOut \o <<JoinRequest(c)>>
    BY <1>5 DEF JoinNextOrSendInfo, ClientSend
  <2>2. cOut' = <<JoinRequest(c)>>
    BY <2>1, FirstSent
  <2>3. c \in AnnouncedChannels /\ c \notin sJoined
    BY <1>3, ExpectedMissing
  <2>4. sState = "MCS_CHANNEL_JOIN_REQUEST"
    BY <2>3 DEF JoinState
  <2>5. cState' = "MCS_CHANNEL_JOIN_RESPONSE" /\ cRun' = "idle" /\ cPdu' = NoPdu
    BY <1>5 DEF JoinNextOrSendInfo, ClientSuccess
  <2>6. Asks("MCS_CHANNEL_JOIN_RESPONSE", "MCS_CHANNEL_JOIN_REQUEST", JoinRequest(c))'
    BY <1>1, <2>2, <2>4, <2>5 DEF Asks, JoinRequest
  <2> QED
    BY <1>1, <1>2, <2>6 DEF Joining
<1> QED
  BY <1>4, <1>5

LEMMA JoiningClient ==
    ASSUME Joining, LicenceKnown, ClientHandles
    PROVE  /\ Joining' \/ Informing'
           /\ UNCHANGED <<cFinalize, cMonitorLayout, cLicense, sFinalize, sLicense, sConnected,
                          sActivated>>
<1>1. cRun = "run" /\ ClientStep /\ UNCHANGED serverVars
  BY StepsWork DEF ClientHandles
<1>2. cSettings.rdpSecurity <=> sSettings.rdpSecurity
  BY DEF LicenceKnown
<1>3. Agreed /\ sRun = "idle" /\ sPdu = NoPdu /\ sOut = <<>> /\ cOut = <<>>
  BY <1>1 DEF Joining, Asks, Answers
<1>4. CASE /\ cState = "MCS_ATTACH_USER_CONFIRM" /\ cPdu = Pdu("AttachUserConfirm")
           /\ \/ sSettings.skipJoin /\ sJoined = Channels /\ sState = "RDP_SECURITY_COMMENCEMENT"
              \/ /\ ~sSettings.skipJoin /\ cJoined = {} /\ sJoined = {}
                 /\ sState = "MCS_CHANNEL_JOIN_REQUEST"
  <2>1. ClientAttachUserConfirm /\ cPdu.type = "AttachUserConfirm"
    BY <1>1, <1>4, ClientStepAt DEF Pdu
  <2>2. /\ cJoined' = (IF cSettings.skipJoin THEN Channels ELSE cJoined)
        /\ JoinNextOrSendInfo(cJoined') /\ ClientSuccess
        /\ UNCHANGED <<cFinalize, cMonitorLayout, cMessageChannel, cLicense, cSettings>>
    BY <2>1 DEF ClientAttachUserConfirm
  <2>3. cJoined' = sJoined
    BY <1>3, <1>4, <2>2 DEF Agreed
  <2>4. sState = JoinState
    <3>1. AnnouncedChannels \subseteq Channels
      BY DEF AnnouncedChannels
    <3>2. UserId \in AnnouncedChannels
      BY ChannelCountAssumption
         DEF AnnouncedChannels, Channels, UserId, MessageChannelId, MCS_GLOBAL_CHANNEL_ID
    <3> QED
      BY <1>4, <3>1, <3>2 DEF JoinState
  <2>5. Joining' \/ Informing'
    BY <1>1, <1>2, <1>3, <2>2, <2>3, <2>4, JoinsOn
  <2> QED
    BY <1>1, <2>2, <2>5 DEF serverVars
<1>5. CASE \E c \in Expected(cJoined) :
             /\ sJoined = cJoined \cup {c} /\ cState = "MCS_CHANNEL_JOIN_RESPONSE"
             /\ sState = JoinState /\ cPdu = JoinConfirm(c)
  <2>1. PICK c \in Expected(cJoined) :
             /\ sJoined = cJoined \cup {c} /\ cState = "MCS_CHANNEL_JOIN_RESPONSE"
             /\ sState = JoinState /\ cPdu = JoinConfirm(c)
    BY <1>5
  <2>2. cPdu.type = "ChannelJoinConfirm" /\ cPdu.channelId = c
    BY <2>1 DEF JoinConfirm
  <2>3. ClientChannelJoinConfirm
    BY <1>1, <2>1, ClientStepAt
  <2>4. /\ cJoined' = cJoined \cup {c} /\ JoinNextOrSendInfo(cJoined') /\ ClientSuccess
        /\ UNCHANGED <<cFinalize, cMonitorLayout, cMessageChannel, cLicense, cSettings>>
    BY <2>1, <2>2, <2>3 DEF ClientChannelJoinConfirm
  <2>5. Joining' \/ Informing'
    BY <1>1, <1>2, <1>3, <2>1, <2>4, JoinsOn
  <2> QED
    BY <1>1, <2>4, <2>5 DEF serverVars
<1> QED
  BY <1>1, <1>4, <1>5 DEF Joining, Asks, Answers

LEMMA InformingClient ==
    ASSUME Informing, ClientHandles
    PROVE  FALSE
BY StepsWork DEF ClientHandles, Informing, Asks, AsksTwo

LEMMA MeasuringClient ==
    ASSUME Measuring, ClientHandles
    PROVE  Measuring' /\ UNCHANGED Agreement
<1>1. cRun = "run" /\ ClientStep /\ UNCHANGED serverVars
  BY StepsWork DEF ClientHandles
<1>2. /\ Joined /\ sSettings.autoDetect
      /\ cState = "CONNECT_TIME_AUTO_DETECT_REQUEST" /\ cPdu = Pdu("AutoDetectRequest")
      /\ cOut = <<>> /\ sState = "CONNECT_TIME_AUTO_DETECT_RESPONSE"
      /\ sRun = "idle" /\ sPdu = NoPdu /\ sOut = <<>>
  BY <1>1 DEF Measuring, ServerGoesOn, Answers, Asks
<1>3. ClientAutoDetect("CONNECT_TIME_AUTO_DETECT_REQUEST", "LICENSING")
  BY <1>1, <1>2, ClientStepAt
<1>4. cPdu.type = "AutoDetectRequest" /\ OnMessageChannel(cPdu) /\ ~MessageFails(cPdu)
  BY <1>2 DEF Pdu, OnMessageChannel, ServerMessageTypes, MessageFails, Joined, Agreed, Merged
<1>5. MessageReply(cPdu) = <<Pdu("AutoDetectResponse")>>
  BY <1>4 DEF MessageReply
<1>6. /\ cOut' = <<>> \o <<Pdu("AutoDetectResponse")>> /\ cRun' = "idle" /\ cPdu' = NoPdu
      /\ UNCHANGED <<cState, cFinalize, cMonitorLayout, cJoined, cMessageChannel, cLicense, cSettings>>
  BY <1>2, <1>3, <1>4, <1>5 DEF ClientAutoDetect, ClientSend, ClientSuccess, MessageLicense
<1>7. cOut' = <<Pdu("AutoDetectResponse")>>
  BY <1>6, FirstSent
<1>8. Asks("CONNECT_TIME_AUTO_DETECT_REQUEST", "CONNECT_TIME_AUTO_DETECT_RESPONSE",
           Pdu("AutoDetectResponse"))'
  BY <1>1, <1>2, <1>6, <1>7 DEF Asks, serverVars
<1>9. UNCHANGED Agreement
  BY <1>1, <1>6 DEF Agreement, serverVars
<1>10. Joined' /\ sSettings'.autoDetect
  BY <1>2, <1>9 DEF Agreement, Joined, Agreed, Merged
<1> QED
  BY <1>8, <1>9, <1>10 DEF Measuring

LEMMA LicensingClient ==
    ASSUME Licensing, ClientHandles
    PROVE  /\ Licensing'
           /\ UNCHANGED <<cFinalize, cMonitorLayout, sFinalize, sConnected, sActivated>>
<1>1. cRun = "run" /\ ClientStep /\ UNCHANGED serverVars
  BY StepsWork DEF ClientHandles
<1>2. /\ Joined /\ sSettings.licenseRequired
      /\ cOut = <<>> /\ sState = "LICENSING" /\ sRun = "idle" /\ sPdu = NoPdu /\ sOut = <<>>
      /\ cState \in {"CONNECT_TIME_AUTO_DETECT_REQUEST", "LICENSING"}
      /\ \/ cPdu = Pdu("LicenseRequest") /\ sLicense = "REQUEST" /\ cLicense = "INITIAL"
         \/ /\ cPdu = Pdu("PlatformChallenge") /\ sLicense = "PLATFORM_CHALLENGE"
            /\ cLicense = "NEW_REQUEST" /\ cState = "LICENSING"
  BY <1>1 DEF Licensing, Answers, Asks
<1>3. ~OnMessageChannel(cPdu)
  BY <1>2 DEF Pdu, OnMessageChannel, ServerMessageTypes
<1>4. CASE cState = "CONNECT_TIME_AUTO_DETECT_REQUEST"
  <2>1. ClientAutoDetect("CONNECT_TIME_AUTO_DETECT_REQUEST", "LICENSING")
    BY <1>1, <1>4, ClientStepAt
  <2>2. /\ cState' = "LICENSING"
        /\ UNCHANGED <<cRun, cPdu, cOut, cFinalize, cMonitorLayout, cJoined, cMessageChannel,
                       cLicense, cSettings>>
    BY <1>3, <2>1 DEF ClientAutoDetect, ClientTryAgain
  <2>3. Joined' /\ sSettings'.licenseRequired /\ sLicense' = "REQUEST" /\ cLicense' = "INITIAL"
    BY <1>1, <1>2, <1>4, <2>2 DEF serverVars, Joined, Agreed, Merged
  <2>4. Answers("LICENSING", "LICENSING", Pdu("LicenseRequest"))'
    BY <1>1, <1>2, <1>4, <2>2 DEF serverVars, Answers
  <2> QED
    BY <1>1, <2>2, <2>3, <2>4 DEF Licensing, serverVars
<1>5. CASE cState = "LICENSING"
  <2>1. ClientLicensing
    BY <1>1, <1>5, ClientStepAt
  <2>2. ~LicenseFails(cPdu)
    BY <1>2 DEF LicenseFails, Pdu
  <2>3. /\ cLicense' = LicenseAfter(cPdu) /\ cOut' = <<>> \o LicenseReply(cPdu)
        /\ cState' = LicensedState(cLicense')
        /\ IF cLicense' = "ABORTED" THEN ClientFail ELSE ClientSuccess
        /\ UNCHANGED <<cFinalize, cMonitorLayout, cJoined, cMessageChannel, cSettings>>
    BY <1>2, <1>3, <2>1, <2>2 DEF ClientLicensing, ClientSend
  <2>4. Joined' /\ sSettings'.licenseRequired
    BY <1>1, <1>2, <2>3 DEF serverVars, Joined, Agreed, Merged
  <2>5. CASE cPdu = Pdu("LicenseRequest")
    <3>1. LicenseAfter(cPdu) = "NEW_REQUEST" /\ LicenseReply(cPdu) = <<Pdu("LicenseInfo")>>
      BY <1>2, <2>5 DEF LicenseAfter, LicenseReply, Pdu, Joined, Agreed, Merged
    <3>2. /\ cLicense' = "NEW_REQUEST" /\ cOut' = <<Pdu("LicenseInfo")>> /\ cState' = "LICENSING"
          /\ cRun' = "idle" /\ cPdu' = NoPdu
      BY <1>5, <2>3, <3>1, FirstSent DEF LicensedState, ClientSuccess
    <3>3. Asks("LICENSING", "LICENSING", Pdu("LicenseInfo"))' /\ sLicense' = "REQUEST"
      BY <1>1, <1>2, <2>5, <3>2 DEF Asks, serverVars, Pdu
    <3> QED
      BY <1>1, <2>3, <2>4, <3>2, <3>3 DEF Licensing, serverVars
  <2>6. CASE cPdu = Pdu("PlatformChallenge")
    <3>1. /\ LicenseAfter(cPdu) = "PLATFORM_CHALLENGE_RESPONSE"
          /\ LicenseReply(cPdu) = <<Pdu("PlatformChallengeResponse")>>
      BY <2>6 DEF LicenseAfter, LicenseReply, Pdu
    <3>2. /\ cLicense' = "PLATFORM_CHALLENGE_RESPONSE" /\ cState' = "LICENSING"
          /\ cOut' = <<Pdu("PlatformChallengeResponse")>> /\ cRun' = "idle" /\ cPdu' = NoPdu
      BY <1>5, <2>3, <3>1, FirstSent DEF LicensedState, ClientSuccess
    <3>3. /\ Asks("LICENSING", "LICENSING", Pdu("PlatformChallengeResponse"))'
          /\ sLicense' = "PLATFORM_CHALLENGE"
      BY <1>1, <1>2, <2>6, <3>2 DEF Asks, serverVars, Pdu
    <3> QED
      BY <1>1, <2>3, <2>4, <3>2, <3>3 DEF Licensing, serverVars
  <2> QED
    BY <1>2, <2>5, <2>6
<1> QED
  BY <1>2, <1>4, <1>5

LEMMA ClientInSetup ==
    ASSUME Setup, LicenceKnown, JoinRight, ClientHandles
    PROVE  Setup'
<1>1. CASE Licensing
  BY <1>1, LicensingClient DEF Setup, Unused
<1>2. CASE ~Licensing
  <2>1. cLicense = "INITIAL" /\ sLicense = "INITIAL"
    BY <1>2 DEF Setup
  <2>2. CASE Start /\ cJoined = {} /\ sJoined = {}
    BY <2>1, <2>2, StartClient DEF Setup, Unused, Agreement
  <2>3. CASE Attaching /\ cJoined = {} /\ sJoined = {}
    BY <2>1, <2>3, AttachingClient DEF Setup, Unused
  <2>4. CASE Joining
    BY <2>1, <2>4, JoiningClient DEF Setup, Unused
  <2>5. CASE Measuring
    BY <2>1, <2>5, MeasuringClient DEF Setup, Unused, Agreement
  <2> QED
    BY <1>2, <2>2, <2>3, <2>4, <2>5, InformingClient DEF Setup
<1> QED
  BY <1>1, <1>2

\* The server's handlers by state.
LEMMA ServerStepAt ==
    ASSUME ServerStep
    PROVE  /\ sState = "MCS_CREATE_REQUEST" => ServerConnectInitial
           /\ sState = "MCS_ERECT_DOMAIN" => ServerErectDomain
           /\ sState = "MCS_ATTACH_USER" => ServerAttachUser
           /\ sState = "MCS_CHANNEL_JOIN_REQUEST" => ServerChannelJoin
           /\ sState = "RDP_SECURITY_COMMENCEMENT" => ServerEstablishKeys
           /\ sState = "SECURE_SETTINGS_EXCHANGE" => ServerClientInfo
           /\ sState = "CONNECT_TIME_AUTO_DETECT_REQUEST" => ServerAutoDetectRequest
           /\ sState = "CONNECT_TIME_AUTO_DETECT_RESPONSE" => ServerAutoDetectResponse
           /\ sState = "LICENSING" => ServerLicensing
<1>1. \A state, flag, pdus, next : ServerFinalize(state, flag, pdus, next) => sState = state
  BY DEF ServerFinalize, ServerIn
<1>2. \A state : ServerPlainRecv(state) => sState = state
  BY DEF ServerPlainRecv, ServerIn
<1>3. /\ ServerConnectInitial => sState = "MCS_CREATE_REQUEST"
      /\ ServerErectDomain => sState = "MCS_ERECT_DOMAIN"
      /\ ServerAttachUser => sState = "MCS_ATTACH_USER"
      /\ ServerChannelJoin => sState = "MCS_CHANNEL_JOIN_REQUEST"
      /\ ServerEstablishKeys => sState = "RDP_SECURITY_COMMENCEMENT"
      /\ ServerClientInfo => sState = "SECURE_SETTINGS_EXCHANGE"
      /\ ServerAutoDetectRequest => sState = "CONNECT_TIME_AUTO_DETECT_REQUEST"
      /\ ServerAutoDetectResponse => sState = "CONNECT_TIME_AUTO_DETECT_RESPONSE"
      /\ ServerLicensing => sState = "LICENSING"
  BY DEF ServerIn, ServerConnectInitial, ServerErectDomain, ServerAttachUser, ServerChannelJoin,
         ServerEstablishKeys, ServerClientInfo, ServerAutoDetectRequest, ServerAutoDetectResponse,
         ServerLicensing
<1>4. /\ ServerMultitransportRequest => sState = "MULTITRANSPORT_BOOTSTRAPPING_REQUEST"
      /\ ServerDemandActive => sState = "CAPABILITIES_EXCHANGE_DEMAND_ACTIVE"
      /\ ServerMonitorLayout => sState = "CAPABILITIES_EXCHANGE_MONITOR_LAYOUT"
      /\ ServerFinalizeFontList => sState = "FINALIZATION_FONT_LIST"
      /\ ServerActivate => sState = "ACTIVE"
  BY DEF ServerIn, ServerMultitransportRequest, ServerDemandActive, ServerMonitorLayout,
         ServerFinalizeFontList, ServerActivate
<1>5. ServerFinalizeKeyList => sState = "FINALIZATION_PERSISTENT_KEY_LIST"
  BY <1>1 DEF ServerFinalizeKeyList, ServerIn
<1> QED
  BY <1>1, <1>2, <1>3, <1>4, <1>5
     DEF ServerStep, ServerMultitransportResponse, ServerConfirmActive, ServerFinalizeSync,
         ServerFinalizeCooperate, ServerFinalizeRequestControl, ServerActive

LEMMA StartServer ==
    ASSUME Start, LicenceKnown, JoinRight, ServerHandles
    PROVE  /\ Attaching'
           /\ UNCHANGED <<cFinalize, cMonitorLayout, cJoined, cLicense, sFinalize,
                          sJoined, sLicense, sConnected, sActivated>>
<1>1. sRun = "run" /\ ServerStep /\ UNCHANGED clientVars
  BY ServerStepsWork DEF ServerHandles
<1>2. /\ cState = "MCS_CREATE_RESPONSE" /\ sState = "MCS_CREATE_REQUEST"
      /\ cRun = "idle" /\ cPdu = NoPdu /\ cOut = <<>> /\ sOut = <<>> /\ sPdu = ConnectInitial
  BY <1>1 DEF Start, Asks, ClientGoesOn
<1>3. ServerConnectInitial
  BY <1>1, <1>2, ServerStepAt
<1>4. /\ sPdu.type = "ConnectInitial" /\ sPdu.caps.skipJoin = cSettings.skipJoin
      /\ sPdu.caps.monitorLayout = cSettings.monitorLayout
      /\ sPdu.caps.autoDetect = cSettings.autoDetect
      /\ sPdu.caps.multitransport = cSettings.multitransport
      /\ sPdu.caps.messageChannel =
             (cSettings.autoDetect \/ cSettings.heartbeat \/ cSettings.multitransport)
  BY <1>2 DEF ConnectInitial
<1>5. /\ sSettings' = [sSettings EXCEPT
                                !.skipJoin = @ /\ sPdu.caps.skipJoin,
                                !.monitorLayout = @ /\ sPdu.caps.monitorLayout,
                                !.autoDetect = @ /\ sPdu.caps.autoDetect,
                                !.multitransport = @ /\ sPdu.caps.multitransport]
      /\ sMessageChannel' = sPdu.caps.messageChannel
      /\ sOut' = <<>> \o <<ConnectResponse(sSettings', sMessageChannel')>>
      /\ sState' = "MCS_ERECT_DOMAIN" /\ sRun' = "idle" /\ sPdu' = NoPdu
      /\ UNCHANGED <<sFinalize, sJoined, sLicense, sConnected, sActivated>>
  BY <1>2, <1>3, <1>4 DEF ServerConnectInitial, ServerSend, ServerSuccess
<1>6. sOut' = <<ConnectResponse(sSettings', sMessageChannel')>>
  BY <1>5, FirstSent
<1>7. Merged'
  <2>1. sSettings \in ServerSettings /\ cSettings \in ClientSettings
    BY DEF JoinRight
  <2>2. /\ sSettings'.skipJoin = (sSettings.skipJoin /\ cSettings.skipJoin)
        /\ sSettings'.monitorLayout = (sSettings.monitorLayout /\ cSettings.monitorLayout)
        /\ sSettings'.autoDetect = (sSettings.autoDetect /\ cSettings.autoDetect)
        /\ sSettings'.multitransport = (sSettings.multitransport /\ cSettings.multitransport)
        /\ sSettings'.licenseRequired = sSettings.licenseRequired
    BY <1>4, <1>5, <2>1 DEF ServerSettings
  <2>3. sSettings.licenseRequired => cSettings.cal /\ (cSettings.autoDetect \/ cSettings.heartbeat)
    BY DEF LicenceKnown
  <2>4. cSettings' = cSettings
    BY <1>1 DEF clientVars
  <2> QED
    BY <1>4, <1>5, <2>2, <2>3, <2>4 DEF Merged
<1>8. Answers("MCS_CREATE_RESPONSE", "MCS_ERECT_DOMAIN", ConnectResponse(sSettings, sMessageChannel))'
  BY <1>1, <1>2, <1>5, <1>6 DEF Answers, clientVars, ConnectResponse
<1> QED
  BY <1>1, <1>5, <1>7, <1>8 DEF Attaching, clientVars

LEMMA AttachingServer ==
    ASSUME Attaching, cJoined = {}, sJoined = {}, ServerHandles
    PROVE  /\ (Attaching' /\ cJoined' = {} /\ sJoined' = {}) \/ Joining'
           /\ UNCHANGED <<cFinalize, cMonitorLayout, cLicense, sFinalize, sLicense, sConnected,
                          sActivated>>
<1>1. sRun = "run" /\ ServerStep /\ UNCHANGED clientVars
  BY ServerStepsWork DEF ServerHandles
<1>2. /\ Agreed /\ cState = "MCS_ATTACH_USER_CONFIRM" /\ cRun = "idle" /\ cPdu = NoPdu /\ sOut = <<>>
      /\ \/ /\ sState = "MCS_ERECT_DOMAIN" /\ sPdu = Pdu("ErectDomain")
            /\ cOut = <<Pdu("AttachUserRequest")>>
         \/ sState = "MCS_ATTACH_USER" /\ sPdu = Pdu("AttachUserRequest") /\ cOut = <<>>
  BY <1>1 DEF Attaching, Answers, AsksTwo, Asks
<1>3. CASE sState = "MCS_ERECT_DOMAIN"
  <2>1. ServerErectDomain /\ sPdu.type = "ErectDomain"
    BY <1>1, <1>2, <1>3, ServerStepAt DEF Pdu
  <2>2. /\ sState' = "MCS_ATTACH_USER" /\ sRun' = "idle" /\ sPdu' = NoPdu
        /\ UNCHANGED <<sFinalize, sJoined, sMessageChannel, sLicense, sSettings,
                       sConnected, sActivated, sOut>>
    BY <2>1 DEF ServerErectDomain, ServerSuccess
  <2>3. Asks("MCS_ATTACH_USER_CONFIRM", "MCS_ATTACH_USER", Pdu("AttachUserRequest"))'
    BY <1>1, <1>2, <1>3, <2>2 DEF Asks, clientVars
  <2>4. Agreed'
    BY <1>1, <1>2, <2>2 DEF Agreed, Merged, clientVars
  <2> QED
    BY <1>1, <2>2, <2>3, <2>4 DEF Attaching, clientVars
<1>4. CASE sState = "MCS_ATTACH_USER"
  <2>1. ServerAttachUser /\ sPdu.type = "AttachUserRequest" /\ cOut = <<>>
    BY <1>1, <1>2, <1>4, ServerStepAt DEF Pdu
  <2>2. /\ sOut' = <<>> \o <<Pdu("AttachUserConfirm")>>
        /\ sJoined' = (IF sSettings.skipJoin THEN Channels ELSE sJoined)
        /\ sState' = (IF sSettings.skipJoin THEN "RDP_SECURITY_COMMENCEMENT"
                                            ELSE "MCS_CHANNEL_JOIN_REQUEST")
        /\ sRun' = "idle" /\ sPdu' = NoPdu
        /\ UNCHANGED <<sFinalize, sMessageChannel, sLicense, sSettings, sConnected, sActivated>>
    BY <1>2, <2>1 DEF ServerAttachUser, ServerSuccess, ServerSend
  <2>3. sOut' = <<Pdu("AttachUserConfirm")>>
    BY <2>2, FirstSent
  <2>4. Agreed' /\ cJoined' = {}
    BY <1>1, <1>2, <2>2 DEF Agreed, Merged, clientVars
  <2>5. CASE sSettings.skipJoin
    <3>1. Answers("MCS_ATTACH_USER_CONFIRM", "RDP_SECURITY_COMMENCEMENT", Pdu("AttachUserConfirm"))'
      BY <1>1, <1>2, <2>1, <2>2, <2>3, <2>5 DEF Answers, clientVars
    <3> QED
      BY <1>1, <2>2, <2>4, <2>5, <3>1 DEF Joining, clientVars
  <2>6. CASE ~sSettings.skipJoin
    <3>1. Answers("MCS_ATTACH_USER_CONFIRM", "MCS_CHANNEL_JOIN_REQUEST", Pdu("AttachUserConfirm"))'
      BY <1>1, <1>2, <2>1, <2>2, <2>3, <2>6 DEF Answers, clientVars
    <3> QED
      BY <1>1, <2>2, <2>4, <2>6, <3>1 DEF Joining, clientVars
  <2> QED
    BY <2>5, <2>6
<1> QED
  BY <1>2, <1>3, <1>4

LEMMA JoiningServer ==
    ASSUME Joining, ServerHandles
    PROVE  /\ Joining'
           /\ UNCHANGED <<cFinalize, cMonitorLayout, cLicense, sFinalize, sLicense, sConnected,
                          sActivated>>
<1>1. sRun = "run" /\ ServerStep /\ UNCHANGED clientVars
  BY ServerStepsWork DEF ServerHandles
<1>2. Agreed /\ sJoined = cJoined
  BY <1>1 DEF Joining, Answers
<1>3. PICK c \in Expected(cJoined) :
        Asks("MCS_CHANNEL_JOIN_RESPONSE", "MCS_CHANNEL_JOIN_REQUEST", JoinRequest(c))
  BY <1>1 DEF Joining, Answers
<1>4. /\ cState = "MCS_CHANNEL_JOIN_RESPONSE" /\ cRun = "idle" /\ cPdu = NoPdu /\ cOut = <<>>
      /\ sState = "MCS_CHANNEL_JOIN_REQUEST" /\ sOut = <<>> /\ sPdu = JoinRequest(c)
  BY <1>1, <1>3 DEF Asks
<1>5. sPdu.type = "ChannelJoinRequest" /\ sPdu.channelId = c
  BY <1>4 DEF JoinRequest
<1>6. c \in AnnouncedChannels
  BY <1>2, ExpectedMissing DEF Agreed
<1>7. ServerChannelJoin
  BY <1>1, <1>4, ServerStepAt
<1>8. /\ sOut' = <<>> \o <<JoinConfirm(c)>> /\ sJoined' = sJoined \cup {c}
      /\ sState' = (IF AnnouncedChannels \subseteq sJoined'
                    THEN "RDP_SECURITY_COMMENCEMENT" ELSE "MCS_CHANNEL_JOIN_REQUEST")
      /\ sRun' = "idle" /\ sPdu' = NoPdu
      /\ UNCHANGED <<sFinalize, sMessageChannel, sLicense, sSettings, sConnected, sActivated>>
  BY <1>4, <1>5, <1>6, <1>7 DEF ServerChannelJoin, ServerSend, ServerSuccess
<1>9. sOut' = <<JoinConfirm(c)>> /\ sState' = JoinState'
  BY <1>8, FirstSent DEF JoinState, AnnouncedChannels
<1>10. Answers("MCS_CHANNEL_JOIN_RESPONSE", JoinState, JoinConfirm(c))'
  BY <1>1, <1>4, <1>8, <1>9 DEF Answers, clientVars, JoinConfirm
<1>11. Agreed' /\ Expected(cJoined)' = Expected(cJoined) /\ sJoined' = cJoined' \cup {c}
  BY <1>1, <1>2, <1>8 DEF Agreed, Merged, Expected, clientVars
<1> QED
  BY <1>1, <1>8, <1>10, <1>11 DEF Joining, clientVars

LEMMA InformingServer ==
    ASSUME Informing, ServerHandles
    PROVE  (Informing' \/ Measuring') /\ UNCHANGED Agreement
<1>1. sRun = "run" /\ ServerStep /\ UNCHANGED clientVars
  BY ServerStepsWork DEF ServerHandles
<1>2. /\ Joined /\ cState = "CONNECT_TIME_AUTO_DETECT_REQUEST" /\ cRun = "idle" /\ cPdu = NoPdu
      /\ sOut = <<>>
      /\ \/ /\ sState = "RDP_SECURITY_COMMENCEMENT" /\ sSettings.rdpSecurity
            /\ sPdu = Pdu("SecurityExchange") /\ cOut = <<Pdu("ClientInfo")>>
         \/ /\ sState = "RDP_SECURITY_COMMENCEMENT" /\ ~sSettings.rdpSecurity
            /\ sPdu = Pdu("ClientInfo") /\ cOut = <<>>
         \/ sState = "SECURE_SETTINGS_EXCHANGE" /\ sPdu = Pdu("ClientInfo") /\ cOut = <<>>
  BY <1>1 DEF Informing, AsksTwo, Asks
<1>3. CASE sState = "RDP_SECURITY_COMMENCEMENT"
  <2>1. ServerEstablishKeys
    BY <1>1, <1>3, ServerStepAt
  <2>2. sSettings.rdpSecurity => sPdu.type = "SecurityExchange"
    BY <1>2, <1>3 DEF Pdu
  <2>3. /\ sState' = "SECURE_SETTINGS_EXCHANGE"
        /\ IF sSettings.rdpSecurity THEN ServerSuccess ELSE ServerRerun
        /\ UNCHANGED <<sFinalize, sJoined, sMessageChannel, sLicense, sSettings,
                       sConnected, sActivated, sOut>>
    BY <2>1, <2>2 DEF ServerEstablishKeys
  <2>4. UNCHANGED Agreement
    BY <1>1, <2>3 DEF Agreement, clientVars
  <2>5. Asks("CONNECT_TIME_AUTO_DETECT_REQUEST", "SECURE_SETTINGS_EXCHANGE", Pdu("ClientInfo"))'
    BY <1>1, <1>2, <1>3, <2>3 DEF Asks, clientVars, ServerSuccess, ServerRerun
  <2>6. Joined'
    BY <1>2, <2>4 DEF Agreement, Joined, Agreed, Merged
  <2> QED
    BY <2>4, <2>5, <2>6 DEF Informing
<1>4. CASE sState = "SECURE_SETTINGS_EXCHANGE"
  <2>1. ServerClientInfo /\ sPdu.type = "ClientInfo" /\ cOut = <<>>
    BY <1>1, <1>2, <1>4, ServerStepAt DEF Pdu
  <2>2. /\ sState' = "CONNECT_TIME_AUTO_DETECT_REQUEST" /\ sRun' = "run" /\ sPdu' = NoPdu
        /\ UNCHANGED <<sFinalize, sJoined, sMessageChannel, sLicense, sSettings,
                       sConnected, sActivated, sOut>>
    BY <2>1 DEF ServerClientInfo, ServerContinue
  <2>3. UNCHANGED Agreement
    BY <1>1, <2>2 DEF Agreement, clientVars
  <2>4. ServerGoesOn("CONNECT_TIME_AUTO_DETECT_REQUEST", "CONNECT_TIME_AUTO_DETECT_REQUEST")'
    BY <1>1, <1>2, <2>1, <2>2 DEF ServerGoesOn, clientVars
  <2>5. Joined'
    BY <1>2, <2>3 DEF Agreement, Joined, Agreed, Merged
  <2> QED
    BY <2>3, <2>4, <2>5 DEF Measuring
<1> QED
  BY <1>2, <1>3, <1>4

\* The server grants the licence, or needs none.
LEMMA Grants ==
    ASSUME Unused, Joined, JoinRight, cRun = "idle", cPdu = NoPdu, cOut = <<>>,
           IF sSettings.licenseRequired
           THEN cState = "LICENSING" /\ cLicense = "PLATFORM_CHALLENGE_RESPONSE"
           ELSE cState = "CONNECT_TIME_AUTO_DETECT_REQUEST" /\ cLicense = "INITIAL",
           NEW p, p.type # "None", LicenceEnd(Terms, p), sOut' = <<p>>,
           sState' = "MULTITRANSPORT_BOOTSTRAPPING_REQUEST", sRun' = "run", sPdu' = NoPdu,
           UNCHANGED <<clientVars, sFinalize, sJoined, sMessageChannel, sSettings, sConnected>>,
           ~sActivated'
    PROVE  Session'
<1>1. UNCHANGED <<cState, cRun, cPdu, cFinalize, cMonitorLayout, cJoined, cMessageChannel,
                  cLicense, cSettings, cOut, sFinalize, sJoined, sMessageChannel, sSettings,
                  sConnected>>
  BY DEF clientVars
<1>2. Terms' = Terms
  BY <1>1 DEF Terms
<1>3. Known'
  BY <1>1 DEF Known, Joined, Agreed, Merged
<1>4. ClientFit'
  BY <1>1 DEF ClientFit, Batch, FinalizationStates
<1>5. ServerFit'
  BY <1>1 DEF ServerFit, Unused, FinalizationStates, Early
<1>6. PICK o \in {1, 2} : o = Opening(Terms)
  BY DEF Opening
<1>7. o \in Places /\ 0 \in Places /\ (o >= 9) = FALSE
  BY DEF Places
<1>8. Path("down", Terms, 0, <<p>>, o)
  <2>1. Path("down", Terms, 0, <<>>, 0) /\ Listed(<<>>)
    BY <1>7, PathNone, ShortLists
  <2>2. Goes("down", Terms, p, 0, o)
    BY <1>6 DEF Goes, Down
  <2>3. Path("down", Terms, 0, <<>> \o <<p>>, o)
    BY <1>7, <2>1, <2>2, PathOn
  <2> QED
    BY <2>3, FirstSent
<1>9. Path("up", Terms, o, <<>>, o)
  BY <1>7, PathNone
<1>10. Down(Terms, NoPdu, 0, 0) /\ Up(Terms, NoPdu, o, o)
  BY DEF Down, Up
<1>11. /\ ServerAt(Terms, "MULTITRANSPORT_BOOTSTRAPPING_REQUEST", o, o)
       /\ ClientAt(Terms, FALSE, cState, 0, o)
  BY <1>6 DEF ServerAt, ClientAt
<1>12. Meeting(Terms, o, o, o, 0, o, 0)'
  BY <1>1, <1>2, <1>7, <1>8, <1>9, <1>10, <1>11 DEF Meeting
<1> QED
  BY <1>1, <1>3, <1>4, <1>5, <1>7, <1>12 DEF Session, Working

LEMMA MeasuringServer ==
    ASSUME Measuring, Unused, cLicense = "INITIAL", sLicense = "INITIAL", JoinRight, ServerHandles
    PROVE  \/ Measuring' /\ Unused' /\ cLicense' = "INITIAL" /\ sLicense' = "INITIAL"
           \/ Licensing' /\ Unused'
           \/ Session' /\ sState' = "MULTITRANSPORT_BOOTSTRAPPING_REQUEST"
<1>1. sRun = "run" /\ ServerStep /\ UNCHANGED clientVars
  BY ServerStepsWork DEF ServerHandles
<1>2. /\ Joined /\ cState = "CONNECT_TIME_AUTO_DETECT_REQUEST" /\ cRun = "idle" /\ cPdu = NoPdu
      /\ sOut = <<>> /\ cOut = <<>>
      /\ \/ sState = "CONNECT_TIME_AUTO_DETECT_REQUEST" /\ sPdu = NoPdu
         \/ /\ sState = "CONNECT_TIME_AUTO_DETECT_RESPONSE" /\ sPdu = Pdu("AutoDetectResponse")
            /\ sSettings.autoDetect
         \/ sState = "LICENSING" /\ sPdu = NoPdu
  BY <1>1 DEF Measuring, ServerGoesOn, Answers, Asks
<1>3. UNCHANGED <<sFinalize, sJoined, sMessageChannel, sSettings, sConnected>> /\ ~sActivated'
      => Joined' /\ Unused'
  BY <1>1, <1>2 DEF clientVars, Joined, Agreed, Merged, Unused
<1>4. cLicense' = "INITIAL"
  BY <1>1 DEF clientVars
<1>5. CASE sState = "CONNECT_TIME_AUTO_DETECT_REQUEST"
  <2>1. ServerAutoDetectRequest /\ sPdu = NoPdu
    BY <1>1, <1>2, <1>5, ServerStepAt
  <2>2. CASE sSettings.autoDetect
    <3>1. /\ sState' = "CONNECT_TIME_AUTO_DETECT_RESPONSE" /\ ~sActivated'
          /\ sOut' = <<>> \o <<Pdu("AutoDetectRequest")>> /\ sRun' = "idle" /\ sPdu' = NoPdu
          /\ UNCHANGED <<sFinalize, sJoined, sMessageChannel, sLicense, sSettings, sConnected>>
      BY <1>2, <2>1, <2>2
         DEF ServerAutoDetectRequest, ServerTransition, ServerSend, ServerSuccess, Unused,
             ActivatedAfterLeaving
    <3>2. sOut' = <<Pdu("AutoDetectRequest")>>
      BY <3>1, FirstSent
    <3>3. Answers("CONNECT_TIME_AUTO_DETECT_REQUEST", "CONNECT_TIME_AUTO_DETECT_RESPONSE",
                  Pdu("AutoDetectRequest"))'
      BY <1>1, <1>2, <3>1, <3>2 DEF Answers, clientVars
    <3> QED
      BY <1>3, <1>4, <2>2, <3>1, <3>3 DEF Measuring
  <2>3. CASE ~sSettings.autoDetect
    <3>1. /\ sState' = "LICENSING" /\ ~sActivated' /\ sOut' = <<>> \o <<>> /\ UNCHANGED <<sRun, sPdu>>
          /\ UNCHANGED <<sFinalize, sJoined, sMessageChannel, sLicense, sSettings, sConnected>>
      BY <1>2, <2>1, <2>3
         DEF ServerAutoDetectRequest, ServerTransition, ServerSend, ServerRerun, Unused,
             ActivatedAfterLeaving
    <3>2. sOut' = <<>>
      BY <3>1
    <3>3. ServerGoesOn("CONNECT_TIME_AUTO_DETECT_REQUEST", "LICENSING")'
      BY <1>1, <1>2, <2>1, <3>1, <3>2 DEF ServerGoesOn, clientVars
    <3> QED
      BY <1>3, <1>4, <3>1, <3>3 DEF Measuring
  <2> QED
    BY <2>2, <2>3
<1>6. CASE sState = "CONNECT_TIME_AUTO_DETECT_RESPONSE"
  <2>1. ServerAutoDetectResponse /\ sPdu.type = "AutoDetectResponse" /\ sSettings.autoDetect
    BY <1>1, <1>2, <1>6, ServerStepAt DEF Pdu
  <2>2. ~PeerRecvFails(sPdu)
    BY <1>2, <2>1 DEF PeerRecvFails, ClientMessageTypes, ClientLicenseTypes, Joined, Agreed, Merged
  <2>3. PeerRecv(sPdu, "LICENSING", <<>>, ServerContinue)
    BY <2>1, <2>2 DEF ServerAutoDetectResponse
  <2>4. /\ PeerReply(sPdu) = <<>> /\ PeerFinalizeAfter(sPdu) = sFinalize
        /\ PeerLicenseAfter(sPdu) = sLicense
    BY <2>1 DEF PeerReply, PeerFinalizeAfter, PeerLicenseAfter, CsFlag
  <2>5. /\ sState' = "LICENSING" /\ sRun' = "run" /\ sPdu' = NoPdu /\ sOut' = <<>> \o (<<>> \o <<>>)
        /\ UNCHANGED <<sFinalize, sLicense, sSettings, sJoined, sMessageChannel, sConnected>>
        /\ ~sActivated'
    BY <1>2, <1>6, <2>1, <2>3, <2>4
       DEF PeerRecv, ServerContinue, ServerSend, ActivatedAfterLeaving, Unused
  <2>6. sOut' = <<>>
    BY <2>5
  <2>7. ServerGoesOn("CONNECT_TIME_AUTO_DETECT_REQUEST", "LICENSING")'
    BY <1>1, <1>2, <2>5, <2>6 DEF ServerGoesOn, clientVars
  <2> QED
    BY <1>3, <1>4, <2>5, <2>7 DEF Measuring
<1>7. CASE sState = "LICENSING"
  <2>1. ServerLicensing /\ sPdu = NoPdu
    BY <1>1, <1>2, <1>7, ServerStepAt
  <2>2. UNCHANGED <<sFinalize, sJoined, sMessageChannel, sSettings, sConnected, sActivated>>
    BY <2>1 DEF ServerLicensing
  <2>3. CASE sSettings.licenseRequired
    <3>1. /\ sLicense' = "REQUEST" /\ sState' = "LICENSING" /\ sRun' = "idle" /\ sPdu' = NoPdu
          /\ sOut' = <<>> \o <<Pdu("LicenseRequest")>>
      BY <1>2, <2>1, <2>3 DEF ServerLicensing, ServerSend, ServerSuccess
    <3>2. sOut' = <<Pdu("LicenseRequest")>>
      BY <3>1, FirstSent
    <3>3. Answers("CONNECT_TIME_AUTO_DETECT_REQUEST", "LICENSING", Pdu("LicenseRequest"))'
      BY <1>1, <1>2, <3>1, <3>2 DEF Answers, clientVars
    <3>4. Joined' /\ Unused' /\ sSettings'.licenseRequired
      BY <1>3, <2>2, <2>3 DEF Unused
    <3> QED
      BY <1>4, <3>1, <3>3, <3>4 DEF Licensing
  <2>4. CASE ~sSettings.licenseRequired
    <3>1. /\ sState' = "MULTITRANSPORT_BOOTSTRAPPING_REQUEST" /\ UNCHANGED <<sRun, sPdu>>
          /\ sOut' = <<>> \o <<ErrorAlert("VALID_CLIENT")>>
      BY <1>2, <2>1, <2>4 DEF ServerLicensing, ServerSend, ServerRerun
    <3>2. PICK p : p = ErrorAlert("VALID_CLIENT")
      OBVIOUS
    <3>3. sOut' = <<p>> /\ LicenceEnd(Terms, p) /\ p.type # "None"
      BY <2>4, <3>1, <3>2, FirstSent DEF LicenceEnd, Terms, ErrorAlert
    <3>4. ~sActivated' /\ sRun' = "run" /\ sPdu' = NoPdu
      BY <1>1, <2>1, <2>2, <3>1 DEF Unused
    <3> QED
      BY <1>1, <1>2, <2>2, <2>4, <3>1, <3>3, <3>4, Grants
  <2> QED
    BY <2>3, <2>4
<1> QED
  BY <1>2, <1>5, <1>6, <1>7

LEMMA LicensingServer ==
    ASSUME Licensing, Unused, JoinRight, ServerHandles
    PROVE  \/ Licensing' /\ Unused'
           \/ Session' /\ sState' = "MULTITRANSPORT_BOOTSTRAPPING_REQUEST"
<1>1. sRun = "run" /\ ServerStep /\ UNCHANGED clientVars
  BY ServerStepsWork DEF ServerHandles
<1>2. /\ Joined /\ sSettings.licenseRequired /\ cState = "LICENSING" /\ cRun = "idle" /\ cPdu = NoPdu
      /\ sOut = <<>> /\ cOut = <<>> /\ sState = "LICENSING"
      /\ \/ /\ sPdu = Pdu("LicenseInfo") /\ sLicense = "REQUEST" /\ cLicense = "NEW_REQUEST"
         \/ /\ sPdu = Pdu("PlatformChallengeResponse") /\ sLicense = "PLATFORM_CHALLENGE"
            /\ cLicense = "PLATFORM_CHALLENGE_RESPONSE"
  BY <1>1 DEF Licensing, Answers, Asks
<1>3. sPdu.type \in {"LicenseInfo", "PlatformChallengeResponse"}
  BY <1>2 DEF Pdu
<1>4. ~PeerRecvFails(sPdu)
  BY <1>2, <1>3 DEF PeerRecvFails, ServerLicenseFails, ClientMessageTypes, ClientLicenseTypes,
                    Joined, Agreed, Merged, Pdu
<1>5. PeerRecv(sPdu, IF LicensingDone(sPdu) THEN "MULTITRANSPORT_BOOTSTRAPPING_REQUEST" ELSE sState,
               <<>>, PeerReturns(sPdu))
  BY <1>1, <1>2, <1>4, ServerStepAt DEF ServerLicensing
<1>6. PeerFinalizeAfter(sPdu) = sFinalize
  BY <1>3 DEF PeerFinalizeAfter, CsFlag
<1>7. /\ UNCHANGED <<sFinalize, sSettings, sJoined, sMessageChannel, sConnected>> /\ ~sActivated'
      /\ sLicense' = PeerLicenseAfter(sPdu) /\ sOut' = <<>> \o (PeerReply(sPdu) \o <<>>)
      /\ sState' = (IF LicensingDone(sPdu) THEN "MULTITRANSPORT_BOOTSTRAPPING_REQUEST" ELSE sState)
      /\ PeerReturns(sPdu)
  BY <1>2, <1>3, <1>5, <1>6 DEF PeerRecv, ServerSend, ActivatedAfterLeaving, Unused
<1>8. Unused' /\ Joined' /\ sSettings'.licenseRequired
  BY <1>1, <1>2, <1>7 DEF clientVars, Joined, Agreed, Merged, Unused
<1>9. CASE sPdu = Pdu("LicenseInfo")
  <2>1. /\ PeerLicenseAfter(sPdu) = "PLATFORM_CHALLENGE" /\ ~LicensingDone(sPdu)
        /\ PeerReply(sPdu) = <<Pdu("PlatformChallenge")>>
    BY <1>9 DEF PeerLicenseAfter, LicensingDone, PeerReply, Pdu
  <2>2. sRun' = "idle" /\ sPdu' = NoPdu
    BY <1>7, <1>9 DEF PeerReturns, ServerSuccess, Pdu
  <2>3. sOut' = <<Pdu("PlatformChallenge")>>
    BY <1>7, <2>1
  <2>4. Answers("LICENSING", "LICENSING", Pdu("PlatformChallenge"))'
    BY <1>1, <1>2, <1>7, <2>1, <2>2, <2>3 DEF Answers, clientVars
  <2>5. cLicense' = "NEW_REQUEST" /\ sLicense' = "PLATFORM_CHALLENGE"
    BY <1>1, <1>2, <1>7, <1>9, <2>1 DEF clientVars, Pdu
  <2> QED
    BY <1>8, <2>4, <2>5 DEF Licensing
<1>10. CASE sPdu = Pdu("PlatformChallengeResponse")
  <2>1. /\ LicensingDone(sPdu) /\ PeerReply(sPdu) = <<Pdu("NewLicense")>>
    BY <1>10 DEF PeerLicenseAfter, LicensingDone, PeerReply, Pdu
  <2>2. sRun' = "run" /\ sPdu' = NoPdu
    BY <1>7, <1>10 DEF PeerReturns, ServerContinue, Pdu
  <2>3. PICK p : p = Pdu("NewLicense")
    OBVIOUS
  <2>4. sOut' = <<p>>
    BY <1>7, <2>1, <2>3
  <2>5. LicenceEnd(Terms, p) /\ p.type # "None"
    BY <1>2, <2>3 DEF LicenceEnd, Terms, Pdu
  <2>6. cLicense = "PLATFORM_CHALLENGE_RESPONSE"
    BY <1>2, <1>10 DEF Pdu
  <2> QED
    BY <1>1, <1>2, <1>7, <2>1, <2>2, <2>4, <2>5, <2>6, Grants
<1> QED
  BY <1>2, <1>9, <1>10

LEMMA ServerInSetup ==
    ASSUME Setup, LicenceKnown, JoinRight, ServerHandles
    PROVE  Setup' \/ (Session' /\ sState' = "MULTITRANSPORT_BOOTSTRAPPING_REQUEST")
<1>1. Unused
  BY DEF Setup
<1>2. CASE Licensing
  BY <1>1, <1>2, LicensingServer DEF Setup
<1>3. CASE ~Licensing
  <2>1. cLicense = "INITIAL" /\ sLicense = "INITIAL"
    BY <1>3 DEF Setup
  <2>2. CASE Start /\ cJoined = {} /\ sJoined = {}
    BY <1>1, <2>1, <2>2, StartServer DEF Setup, Unused
  <2>3. CASE Attaching /\ cJoined = {} /\ sJoined = {}
    BY <1>1, <2>1, <2>3, AttachingServer DEF Setup, Unused
  <2>4. CASE Joining
    BY <1>1, <2>1, <2>4, JoiningServer DEF Setup, Unused
  <2>5. CASE Informing
    BY <1>1, <2>1, <2>5, InformingServer DEF Setup, Unused, Agreement
  <2>6. CASE Measuring
    BY <1>1, <2>1, <2>6, MeasuringServer DEF Setup
  <2> QED
    BY <1>3, <2>2, <2>3, <2>4, <2>5, <2>6 DEF Setup
<1> QED
  BY <1>2, <1>3

\* Neither end has failed, and neither is further than licensing.
LEMMA SetupEarly ==
    ASSUME Setup
    PROVE  cState \in LicensingOrEarlier /\ cRun \in Working /\ sRun \in Working
<1> USE DEF LicensingOrEarlier, McsStates, Working
<1>1. CASE Start \/ Attaching
  BY <1>1 DEF Start, Attaching, ClientGoesOn, Asks, AsksTwo, Answers
<1>2. CASE Joining \/ Informing
  BY <1>2 DEF Joining, Informing, Asks, AsksTwo, Answers
<1>3. CASE Measuring \/ Licensing
  BY <1>3 DEF Measuring, Licensing, ServerGoesOn, Asks, Answers
<1> QED
  BY <1>1, <1>2, <1>3 DEF Setup

LEMMA SetupStutters ==
    ASSUME Setup, UNCHANGED vars
    PROVE  Setup'
<1>1. UNCHANGED <<cState, cRun, cPdu, cFinalize, cMonitorLayout, cJoined, cMessageChannel,
                  cLicense, cSettings, cOut, sState, sRun, sPdu, sFinalize, sJoined,
                  sMessageChannel, sLicense, sSettings, sConnected, sActivated, sOut>>
  BY DEF vars, clientVars, serverVars
<1>2. Unused' = Unused /\ Merged' = Merged /\ Agreed' = Agreed /\ Joined' = Joined
  BY <1>1 DEF Unused, Merged, Agreed, Joined
<1>3. Start' = Start /\ Attaching' = Attaching
  BY <1>1, <1>2 DEF Start, Attaching, ClientGoesOn, Asks, AsksTwo, Answers, ConnectInitial,
                    ConnectResponse
<1>4. Joining' = Joining
  BY <1>1, <1>2 DEF Joining, Asks, Answers, JoinState, AnnouncedChannels, Expected
<1>5. Informing' = Informing /\ Measuring' = Measuring /\ Licensing' = Licensing
  BY <1>1, <1>2 DEF Informing, Measuring, Licensing, Asks, AsksTwo, Answers, ServerGoesOn
<1> QED
  BY <1>1, <1>2, <1>3, <1>4, <1>5 DEF Setup

LEMMA SetupStays ==
    ASSUME Setup, LicenceKnown, JoinRight, [Next]_vars, ~Reconnect
    PROVE  Setup' \/ (Session' /\ sState' = "MULTITRANSPORT_BOOTSTRAPPING_REQUEST")
<1>1. ~UserInput
  BY SetupEarly DEF UserInput, ClientInput, LicensingOrEarlier, McsStates, ActiveClientStates,
                    FinalizationStates, ClientFinalizationStates
<1>2. ~Application
  BY DEF Setup, Unused, Application, ServerApplication, ServerReactivate, ServerUpdate,
         ServerChannelData, ServerCloseSession, ServerClose
<1> QED
  BY <1>1, <1>2, ClientInSetup, ServerInSetup, DeliveryInSetup, SetupStutters DEF Next, Terminated

LEMMA ReconnectStarts ==
    ASSUME Reconnect
    PROVE  Setup'
<1>1. ClientGoesOn("NEGO", "MCS_CREATE_REQUEST")'
  BY DEF ClientGoesOn, Reconnect, ClientReset
<1>2. Start'
  BY <1>1 DEF Start
<1> QED
  BY <1>2 DEF Setup, Unused, Reconnect, ClientReset

LEMMA InitStarts ==
    ASSUME Licensable, Init
    PROVE  SessionRight
<1>1. ClientGoesOn("NEGO", "MCS_CREATE_REQUEST")
  BY DEF ClientGoesOn, Init, ClientInit, ServerInit
<1>2. Setup
  BY <1>1 DEF Setup, Unused, Start, Init, ClientInit, ServerInit
<1>3. LicenceKnown
  BY DEF LicenceKnown, Licensable, Init, ClientInit, ServerInit
<1> QED
  BY <1>2, <1>3 DEF SessionRight

\* If every client that may meet a server with ServerLicenseRequired holds a licence and has a
\* message channel, the two ends are always in one of the stages described by SessionRight: the
\* connection set up PDU by PDU until license_send_valid_client_error_packet or the new licence,
\* then the session, in which the PDUs under way in either direction lead from where one end is to
\* where the other one is, through any number of desktop resizes, and at last the close.  Whatever
\* the settings are, and however often the client reconnects.
THEOREM SessionTheorem ==
    ASSUME Licensable
    PROVE  Spec => []SessionRight
<1>1. Init => SessionRight
  BY InitStarts
<1>2. SessionRight /\ JoinRight /\ ReactivationAgreed /\ [Next]_vars => SessionRight'
  <2> SUFFICES ASSUME SessionRight, JoinRight, ReactivationAgreed, [Next]_vars
               PROVE  SessionRight'
    OBVIOUS
  <2>1. LicenceKnown /\ LicenceKnown'
    BY LicenceStays DEF SessionRight
  <2>2. CASE Reconnect
    BY <2>1, <2>2, ReconnectStarts DEF SessionRight
  <2>3. CASE ~Reconnect
    BY <2>1, <2>3, SetupStays, SessionStays, ClosingStays DEF SessionRight
  <2> QED
    BY <2>2, <2>3
<1> QED
  BY <1>1, <1>2, JoinRightTheorem, ReactivationTheorem, PTL DEF Spec

\* No handler of either end returns STATE_RUN_FAILED, whatever both are configured to:
\* not when input crosses with a Deactivate All, not when updates or channel data reach
\* a client that has just been told of a resize, and not when the desktop is resized over and over
\* while the client still confirms the previous activation.
THEOREM NoFailureTheorem ==
    ASSUME Licensable
    PROVE  Spec => []NoFailure
<1>1. SessionRight => NoFailure
  BY SetupEarly DEF SessionRight, Session, Closing, NoFailure, Working
<1> QED
  BY <1>1, SessionTheorem, PTL

LEMMA QuietSession ==
    ASSUME Session, JoinRight, cRun = "idle", sRun = "idle", cOut = <<>>, sOut = <<>>
    PROVE  cState = "ACTIVE" /\ sState = "ACTIVE" /\ sActivated
<1>1. PICK sa, sb, sn, ca, cb, cn \in Places :
        Meeting(Terms, sa, sb, sn, ca, cb, cn)
  BY DEF Session
<1>2. Listed(sOut) /\ Listed(cOut) /\ ClientFit /\ ServerFit
  BY DEF JoinRight, Session
<1>3. cPdu = NoPdu /\ sPdu = NoPdu /\ cState \notin Batch
  BY <1>2 DEF ClientFit, ServerFit
<1>4. cn = ca /\ sn = sb
  BY <1>1, <1>3 DEF Meeting, Down, Up, NoPdu, Pdu, LicenceEnd
<1>5. cn = sa /\ sn = cb
  BY <1>1, <1>2, PathBetween DEF Meeting
<1>6. ServerAt(Terms, sState, sa, sb) /\ ClientAt(Terms, sa >= 9, cState, sa, sb)
  BY <1>1, <1>4, <1>5 DEF Meeting
<1>7. Layout(Terms) \in {3, 4} /\ Opening(Terms) \in {1, 2} /\ Lists(Terms) \in {7, 8}
  BY DEF Layout, Opening, Lists
<1>8. sState \notin {"MULTITRANSPORT_BOOTSTRAPPING_REQUEST", "CAPABILITIES_EXCHANGE_DEMAND_ACTIVE"}
  BY <1>2 DEF ServerFit
<1>9. sa = 8 /\ sb = 9
  BY <1>3, <1>6, <1>7, <1>8 DEF ServerAt, ClientAt, Batch, FinalizationStates, Places
<1>10. sState = "ACTIVE" /\ cState = "ACTIVE"
  BY <1>6, <1>7, <1>9 DEF ServerAt, ClientAt
<1> QED
  BY <1>2, <1>10 DEF ServerFit

\* Whenever neither rdp_recv_callback nor peer_recv_callback has anything to do and nothing is under
\* way, both ends are in CONNECTION_STATE_ACTIVE and the peer's Activate has been called: at no
\* point of the sequence do both ends wait for each other.
THEOREM QuiescenceTheorem ==
    ASSUME Licensable
    PROVE  Spec => []Quiescence
<1>1. SessionRight /\ JoinRight => Quiescence
  <2> SUFFICES ASSUME SessionRight, JoinRight,
                      cRun = "idle", sRun = "idle", cOut = <<>>, sOut = <<>>
               PROVE  cState = "ACTIVE" /\ sState = "ACTIVE" /\ sActivated
    BY DEF Quiescence
  <2>1. ~Closing
    BY DEF Closing
  <2>2. ~Setup
    <3>1. ASSUME NEW cs, NEW ss, NEW p, NEW q
          PROVE  /\ ~Asks(cs, ss, p) /\ ~AsksTwo(cs, ss, p, q) /\ ~Answers(cs, ss, p)
                 /\ ~ClientGoesOn(cs, ss) /\ ~ServerGoesOn(cs, ss)
      <4>1. <<p>> # <<>> /\ <<p, q>> # <<>>
        OBVIOUS
      <4> QED
        BY <4>1 DEF Asks, AsksTwo, Answers, ClientGoesOn, ServerGoesOn
    <3> QED
      BY <3>1 DEF Setup, Start, Attaching, Joining, Informing, Measuring, Licensing
  <2> QED
    BY <2>1, <2>2, QuietSession DEF SessionRight
<1> QED
  BY <1>1, SessionTheorem, JoinRightTheorem, PTL

-----------------------------------------------------------------------------
(* The client follows the server's announcements.  The session goes through three stages: not     *)
(* yet active, active, and over.                                                                  *)

\* What a queue tells when at most two of its PDUs tell something.
LEMMA ToldNone ==
    ASSUME NEW q, \A i \in DOMAIN q : ~Tells(q[i])
    PROVE  Told(q) = <<>>
<1>1. {i \in DOMAIN q : Tells(q[i])} = {}
  OBVIOUS
<1>2. Cardinality({}) = 0 /\ 1 .. 0 = {}
  BY FS_EmptySet
<1> DEFINE told == {i \in DOMAIN q : Tells(q[i])}
           nth(n) == CHOOSE i \in told : Cardinality({j \in told : j <= i}) = n
<1>3. Told(q) = [n \in 1 .. Cardinality(told) |-> q[nth(n)].type = "FontMap"]
  BY DEF Told
<1>4. 1 .. Cardinality(told) = {}
  BY <1>1, <1>2
<1> HIDE DEF told, nth
<1> QED
  BY <1>3, <1>4

LEMMA ToldOne ==
    ASSUME NEW q, NEW f \in DOMAIN q, DOMAIN q \subseteq Nat,
           \A i \in DOMAIN q : Tells(q[i]) <=> i = f
    PROVE  Told(q) = <<q[f].type = "FontMap">>
<1> DEFINE told == {i \in DOMAIN q : Tells(q[i])}
           nth(n) == CHOOSE i \in told : Cardinality({j \in told : j <= i}) = n
<1>1. told = {f} /\ f \in Nat
  OBVIOUS
<1>2. Cardinality(told) = 1
  BY <1>1, FS_Singleton
<1>3. Told(q) = [n \in 1 .. Cardinality(told) |-> q[nth(n)].type = "FontMap"]
  BY DEF Told
<1>4. {j \in told : j <= f} = told
  BY <1>1
<1>5. nth(1) = f
  <2>1. Cardinality({j \in told : j <= f}) = 1
    BY <1>2, <1>4
  <2> HIDE DEF told
  <2> QED
    BY <1>1, <2>1
<1> HIDE DEF told, nth
<1>6. Told(q) = [n \in 1 .. 1 |-> q[nth(n)].type = "FontMap"]
  BY <1>2, <1>3
<1>7. 1 .. 1 = {1}
  OBVIOUS
<1>8. Told(q) = [n \in 1 .. 1 |-> q[f].type = "FontMap"]
  BY <1>5, <1>6, <1>7
<1> QED
  BY <1>8

LEMMA ToldTwo ==
    ASSUME NEW q, NEW f \in DOMAIN q, NEW d \in DOMAIN q, DOMAIN q \subseteq Nat, f < d,
           \A i \in DOMAIN q : Tells(q[i]) <=> i \in {f, d}
    PROVE  Told(q) = <<q[f].type = "FontMap", q[d].type = "FontMap">>
<1> DEFINE told == {i \in DOMAIN q : Tells(q[i])}
           nth(n) == CHOOSE i \in told : Cardinality({j \in told : j <= i}) = n
<1>1. told = {f, d} /\ f \in Nat /\ d \in Nat /\ f # d
  OBVIOUS
<1>2. IsFiniteSet({f}) /\ Cardinality({f}) = 1
  BY FS_Singleton
<1>3. {f, d} = {f} \cup {d} /\ d \notin {f}
  BY <1>1
<1>4. Cardinality({f, d}) = 2
  <2>1. Cardinality({f} \cup {d}) = Cardinality({f}) + 1
    BY <1>2, <1>3, FS_AddElement
  <2> QED
    BY <1>2, <1>3, <2>1
<1>5. Told(q) = [n \in 1 .. Cardinality(told) |-> q[nth(n)].type = "FontMap"]
  BY DEF Told
<1>6. {j \in told : j <= f} = {f} /\ {j \in told : j <= d} = {f, d}
  BY <1>1
<1>7. Cardinality({j \in told : j <= f}) = 1 /\ Cardinality({j \in told : j <= d}) = 2
  BY <1>2, <1>4, <1>6
<1>8. Cardinality(told) = 2
  BY <1>1, <1>4
<1> HIDE DEF told
<1>9. nth(1) = f /\ nth(2) = d
  <2>1. nth(1) = f
    BY <1>1, <1>7
  <2>2. nth(2) = d
    BY <1>1, <1>7
  <2> QED
    BY <2>1, <2>2
<1> HIDE DEF nth
<1>10. Told(q) = [n \in 1 .. 2 |-> q[nth(n)].type = "FontMap"]
  BY <1>5, <1>8
<1>11. 1 .. 2 = {1, 2}
  OBVIOUS
<1>12. PICK u, v : u = (q[f].type = "FontMap") /\ v = (q[d].type = "FontMap")
  OBVIOUS
<1>13. Told(q) = [n \in 1 .. 2 |-> IF n = 1 THEN u ELSE v]
  BY <1>9, <1>10, <1>11, <1>12
<1>14. [n \in 1 .. 2 |-> IF n = 1 THEN u ELSE v] = <<u, v>>
  OBVIOUS
<1> QED
  BY <1>12, <1>13, <1>14

\* The stages that the PDUs of a queue lead through, and what they tell.
LEMMA StagesTell ==
    ASSUME NEW q, NEW n \in Nat, DOMAIN q = 1 .. n, NEW g \in [0 .. n -> 0 .. 2],
           \A i \in 1 .. n : IF Tells(q[i])
                             THEN g[i] = g[i - 1] + 1 /\ (q[i].type = "FontMap" <=> g[i] = 1)
                             ELSE g[i] = g[i - 1],
           \A i, j \in 0 .. n : i <= j => g[i] <= g[j]
    PROVE  g[0] <= g[n] /\ Told(q) = Notices(g[0], g[n])
<1>1. /\ 0 \in 0 .. n /\ n \in 0 .. n /\ DOMAIN q \subseteq Nat
      /\ \A i \in 1 .. n : i \in 0 .. n /\ i - 1 \in 0 .. n
      /\ \A i \in 0 .. n : g[i] \in 0 .. 2 /\ g[0] <= g[i] /\ g[i] <= g[n]
  OBVIOUS
  \* A stage after the first one is reached with a PDU that tells it.
<1>2. ASSUME NEW to \in 1 .. 2, g[0] < to, to <= g[n]
      PROVE  \E f \in 1 .. n : g[f] >= to /\ g[f - 1] < to
  <2> DEFINE S == {i \in 0 .. n : g[i] >= to}
  <2>1. S \in SUBSET Nat /\ S # {}
    BY <1>1, <1>2
  <2>2. PICK f \in S : \A d \in S : f <= d
    BY <2>1, SmallestChannel
  <2>3. f \in 1 .. n /\ g[f] >= to
    BY <1>1, <1>2
  <2>4. f - 1 \in 0 .. n /\ f - 1 \notin S
    BY <1>1, <2>2, <2>3
  <2>5. g[f - 1] < to
    BY <1>1, <2>4
  <2> QED
    BY <2>3, <2>5
<1>3. ASSUME NEW to \in 1 .. 2, g[0] < to, to <= g[n]
      PROVE  \E f \in 1 .. n : /\ Tells(q[f]) /\ g[f] = to /\ (q[f].type = "FontMap" <=> to = 1)
                               /\ \A i \in 1 .. n : Tells(q[i]) /\ g[i] = to => i = f
  <2>1. PICK f \in 1 .. n : g[f] >= to /\ g[f - 1] < to
    BY <1>2, <1>3
  <2>2. Tells(q[f]) /\ g[f] = g[f - 1] + 1
    BY <1>1, <2>1
  <2>3. g[f] = to /\ g[f - 1] = to - 1
    BY <1>1, <2>1, <2>2
  <2>4. ASSUME NEW i \in 1 .. n, Tells(q[i]), g[i] = to
        PROVE  i = f
    <3>1. g[i - 1] = to - 1
      BY <1>1, <2>4
    <3>2. i < f => g[i] <= g[f - 1]
      BY <1>1
    <3>3. f < i => g[f] <= g[i - 1]
      BY <1>1
    <3> QED
      BY <1>1, <2>3, <2>4, <3>1, <3>2, <3>3
  <2> QED
    BY <2>2, <2>3, <2>4
<1>4. \A i \in 1 .. n : Tells(q[i]) => g[0] < g[i] /\ g[i] <= g[n] /\ g[i] \in 1 .. 2
  BY <1>1
<1>5. CASE g[n] = g[0]
  <2>1. \A i \in DOMAIN q : ~Tells(q[i])
    BY <1>1, <1>4, <1>5
  <2>2. Told(q) = <<>>
    BY <2>1, ToldNone
  <2> QED
    BY <1>1, <1>5, <2>2 DEF Notices
<1>6. CASE g[n] = g[0] + 1
  <2>1. g[n] \in 1 .. 2 /\ g[0] < g[n]
    BY <1>1, <1>6
  <2>2. PICK f \in 1 .. n : /\ Tells(q[f]) /\ g[f] = g[n] /\ (q[f].type = "FontMap" <=> g[n] = 1)
                            /\ \A i \in 1 .. n : Tells(q[i]) /\ g[i] = g[n] => i = f
    BY <1>3, <2>1
  <2>3. \A i \in DOMAIN q : Tells(q[i]) <=> i = f
    BY <1>1, <1>4, <1>6, <2>2
  <2>4. Told(q) = <<q[f].type = "FontMap">>
    BY <1>1, <2>3, ToldOne
  <2>5. (q[f].type = "FontMap") = (g[0] = 0)
    BY <1>1, <1>6, <2>2
  <2>6. Notices(g[0], g[n]) = <<g[0] = 0>>
    BY <1>1, <1>6 DEF Notices
  <2> QED
    BY <1>1, <2>4, <2>5, <2>6
<1>7. CASE g[0] = 0 /\ g[n] = 2
  <2>1. PICK f \in 1 .. n : /\ Tells(q[f]) /\ g[f] = 1 /\ q[f].type = "FontMap"
                            /\ \A i \in 1 .. n : Tells(q[i]) /\ g[i] = 1 => i = f
    BY <1>3, <1>7
  <2>2. PICK d \in 1 .. n : /\ Tells(q[d]) /\ g[d] = 2 /\ q[d].type # "FontMap"
                            /\ \A i \in 1 .. n : Tells(q[i]) /\ g[i] = 2 => i = d
    BY <1>3, <1>7
  <2>3. f < d
    <3>1. d <= f => g[d] <= g[f]
      BY <1>1
    <3> QED
      BY <2>1, <2>2, <3>1
  <2>4. \A i \in DOMAIN q : Tells(q[i]) <=> i \in {f, d}
    BY <1>4, <2>1, <2>2
  <2>5. Told(q) = <<q[f].type = "FontMap", q[d].type = "FontMap">>
    BY <1>1, <2>3, <2>4, ToldTwo
  <2>6. Told(q) = <<TRUE, FALSE>>
    BY <2>1, <2>2, <2>5
  <2> QED
    BY <1>7, <2>6 DEF Notices
<1> QED
  BY <1>1, <1>5, <1>6, <1>7

\* A PDU leads to the next stage when it tells so, and to no other.
LEMMA DownStage ==
    ASSUME NEW k, NEW p, NEW a \in Places, NEW b \in Places, Down(k, p, a, b)
    PROVE  IF Tells(p) THEN Stage(b) = Stage(a) + 1 /\ (p.type = "FontMap" <=> Stage(b) = 1)
                       ELSE Stage(b) = Stage(a)
<1>1. CASE p.type = "FontMap"
  BY <1>1 DEF Down, LicenceEnd, NoPdu, Pdu, Tells, Stage
<1>2. CASE p.type = "DeactivateAll"
  BY <1>2 DEF Down, LicenceEnd, NoPdu, Pdu, Tells, Stage
<1>3. CASE ~Tells(p)
  BY <1>3 DEF Down, Tells, Stage, Places, Opening, Layout
<1> QED
  BY <1>1, <1>2, <1>3 DEF Tells

LEMMA LaterStage ==
    ASSUME NEW a \in Places, NEW b \in Places, Later(a, b)
    PROVE  Stage(a) <= Stage(b) /\ Stage(a) \in 0 .. 2 /\ Stage(b) \in 0 .. 2
BY DEF Later, Stage, Places

\* What is under way tells the client of the stages between it and the server.
LEMMA PathTells ==
    ASSUME NEW k, NEW p, NEW a \in Places, NEW c \in Places, Down(k, p, a, c),
           NEW s, Listed(s), NEW e \in Places, Path("down", k, c, s, e)
    PROVE  Stage(a) <= Stage(e) /\ Told(<<p>> \o s) = Notices(Stage(a), Stage(e))
<1> DEFINE m == Len(s)
           q == <<p>> \o s
<1>1. /\ m \in Nat /\ DOMAIN q = 1 .. m + 1 /\ q[1] = p /\ \A i \in 1 .. m : q[i + 1] = s[i]
  <2>1. Listed(<<p>>) /\ Len(<<p>>) = 1 /\ <<p>>[1] = p
    BY ShortLists
  <2> QED
    BY <2>1, ConcatListed
<1>2. PICK w \in [0 .. m -> Places] :
        /\ w[0] = c /\ w[m] = e
        /\ \A i \in 1 .. m : Goes("down", k, s[i], w[i - 1], w[i])
        /\ \A i, j \in 0 .. m : i <= j => Later(w[i], w[j])
  BY DEF Path
<1> HIDE DEF m, q
<1> DEFINE v == [i \in 0 .. m + 1 |-> IF i = 0 THEN a ELSE w[i - 1]]
           g == [i \in 0 .. m + 1 |-> Stage(v[i])]
<1>3. /\ \A i \in 0 .. m : i + 1 \in 0 .. m + 1 /\ v[i + 1] = w[i]
      /\ 0 \in 0 .. m + 1 /\ v[0] = a
  BY <1>1
<1>4. v \in [0 .. m + 1 -> Places]
  BY <1>1, <1>2
<1> HIDE DEF v
<1>5. \A i \in 0 .. m + 1 : g[i] = Stage(v[i]) /\ g[i] \in 0 .. 2
  BY <1>4 DEF Stage
<1>6. g \in [0 .. m + 1 -> 0 .. 2]
  BY <1>4, <1>5 DEF Stage
<1>7. \A i \in 1 .. m + 1 : Down(k, q[i], v[i - 1], v[i])
  <2> SUFFICES ASSUME NEW i \in 1 .. m + 1
               PROVE  Down(k, q[i], v[i - 1], v[i])
    OBVIOUS
  <2>1. CASE i = 1
    <3>1. v[i - 1] = a /\ v[i] = c /\ q[i] = p
      BY <1>1, <1>2, <1>3, <2>1
    <3> QED
      BY <3>1
  <2>2. CASE i # 1
    <3>1. PICK j \in 1 .. m : i = j + 1 /\ j \in 0 .. m /\ j - 1 \in 0 .. m
      <4>1. i - 1 \in 1 .. m /\ i = (i - 1) + 1 /\ i - 1 \in 0 .. m /\ (i - 1) - 1 \in 0 .. m
        BY <1>1, <2>2
      <4> QED
        BY <4>1
    <3>2. v[j + 1] = w[j] /\ v[(j - 1) + 1] = w[j - 1] /\ q[j + 1] = s[j]
      BY <1>1, <1>3, <3>1
    <3>3. v[i] = w[j] /\ v[i - 1] = w[j - 1] /\ q[i] = s[j]
      BY <1>1, <3>1, <3>2
    <3> QED
      BY <1>2, <3>1, <3>3 DEF Goes
  <2> QED
    BY <2>1, <2>2
<1>8. \A i \in 1 .. m + 1 : IF Tells(q[i])
                            THEN g[i] = g[i - 1] + 1 /\ (q[i].type = "FontMap" <=> g[i] = 1)
                            ELSE g[i] = g[i - 1]
  <2> SUFFICES ASSUME NEW i \in 1 .. m + 1
               PROVE  IF Tells(q[i])
                      THEN g[i] = g[i - 1] + 1 /\ (q[i].type = "FontMap" <=> g[i] = 1)
                      ELSE g[i] = g[i - 1]
    OBVIOUS
  <2>1. i \in 0 .. m + 1 /\ i - 1 \in 0 .. m + 1
    BY <1>1
  <2>2. v[i] \in Places /\ v[i - 1] \in Places /\ g[i] = Stage(v[i]) /\ g[i - 1] = Stage(v[i - 1])
    BY <1>4, <1>5, <2>1
  <2> HIDE DEF g
  <2> QED
    BY <1>7, <2>2, DownStage
<1>9. \A i, j \in 0 .. m + 1 : i <= j => g[i] <= g[j]
  <2> SUFFICES ASSUME NEW i \in 0 .. m + 1, NEW j \in 0 .. m + 1, i <= j
               PROVE  g[i] <= g[j]
    OBVIOUS
  <2>1. c \in Places /\ Stage(a) <= Stage(c)
    BY DownStage DEF Stage
  <2>2. v[i] \in Places /\ v[j] \in Places /\ g[i] = Stage(v[i]) /\ g[j] = Stage(v[j])
    BY <1>4, <1>5
  <2>3. CASE i = 0 /\ j = 0
    BY <1>5, <2>3
  <2>4. CASE i = 0 /\ j # 0
    <3>1. j - 1 \in 0 .. m /\ 0 \in 0 .. m /\ 0 <= j - 1
      BY <1>1, <2>4
    <3>2. v[(j - 1) + 1] = w[j - 1] /\ (j - 1) + 1 = j /\ v[i] = a
      BY <1>1, <1>3, <2>4, <3>1
    <3>3. Later(c, v[j])
      BY <1>2, <3>1, <3>2
    <3>4. Stage(c) <= Stage(v[j])
      BY <2>2, <3>3, LaterStage
    <3> QED
      BY <2>1, <2>2, <3>2, <3>4 DEF Stage
  <2>5. CASE i # 0
    <3>1. i - 1 \in 0 .. m /\ j - 1 \in 0 .. m /\ i - 1 <= j - 1
      BY <1>1, <2>5
    <3>2. v[i] = w[i - 1] /\ v[j] = w[j - 1]
      <4>1. v[(i - 1) + 1] = w[i - 1] /\ (i - 1) + 1 = i
        BY <1>1, <1>3, <3>1
      <4>2. v[(j - 1) + 1] = w[j - 1] /\ (j - 1) + 1 = j
        BY <1>1, <1>3, <3>1
      <4> QED
        BY <4>1, <4>2
    <3>3. Later(v[i], v[j])
      BY <1>2, <3>1, <3>2
    <3> QED
      BY <2>2, <3>3, LaterStage
  <2> QED
    BY <2>3, <2>4, <2>5
<1>10. g[0] = Stage(a) /\ g[m + 1] = Stage(e)
  <2>1. v[m + 1] = w[m] /\ m \in 0 .. m /\ m + 1 \in 0 .. m + 1
    BY <1>1, <1>3
  <2> QED
    BY <1>2, <1>3, <1>5, <2>1
<1> HIDE DEF g
<1>11. m + 1 \in Nat
  BY <1>1
<1> QED
  BY <1>1, <1>6, <1>8, <1>9, <1>10, <1>11, StagesTell DEF q

\* Sequences of one and of two, whatever they hold.
LEMMA ShortNotices ==
    \A x, y : /\ Append(<<>>, x) = <<x>> /\ Append(<<x>>, y) = <<x, y>>
              /\ <<x>> # <<>> /\ Head(<<x>>) = x /\ Tail(<<x>>) = <<>>
              /\ <<x, y>> # <<>> /\ Head(<<x, y>>) = x /\ Tail(<<x, y>>) = <<y>>
<1> SUFFICES ASSUME NEW x, NEW y
             PROVE  /\ Append(<<>>, x) = <<x>> /\ Append(<<x>>, y) = <<x, y>>
                    /\ <<x>> # <<>> /\ Head(<<x>>) = x /\ Tail(<<x>>) = <<>>
                    /\ <<x, y>> # <<>> /\ Head(<<x, y>>) = x /\ Tail(<<x, y>>) = <<y>>
  OBVIOUS
<1>1. Append(<<>>, x) = <<x>> /\ <<x>> # <<>> /\ Head(<<x>>) = x /\ Tail(<<x>>) = <<>>
  OBVIOUS
<1>2. Append(<<x>>, y) = [i \in 1 .. 2 |-> IF i = 2 THEN y ELSE <<x>>[i]]
  OBVIOUS
<1>3. <<x, y>> = [i \in 1 .. 2 |-> IF i = 2 THEN y ELSE <<x>>[i]]
  OBVIOUS
<1>4. <<x, y>> # <<>> /\ Head(<<x, y>>) = x /\ Tail(<<x, y>>) = <<y>>
  OBVIOUS
<1> QED
  BY <1>1, <1>2, <1>3, <1>4, Zenon

LEMMA NoticesAre ==
    /\ \A a \in 0 .. 2 : Notices(a, a) = <<>>
    /\ \A a \in 0 .. 1 : Notices(a, a + 1) = <<a = 0>>
    /\ Notices(0, 2) = <<0 = 0, 1 = 0>>
<1>1. /\ \A a \in 0 .. 2 : Notices(a, a) = <<>>
      /\ \A a \in 0 .. 1 : Notices(a, a + 1) = <<a = 0>>
  BY DEF Notices
<1>2. Notices(0, 2) = <<TRUE, FALSE>>
  <2>1. ~(0 = 2) /\ ~(2 = 0 + 1)
    OBVIOUS
  <2> QED
    BY <2>1, Zenon DEF Notices
<1>3. (0 = 0) = TRUE /\ (1 = 0) = FALSE
  OBVIOUS
<1>4. <<TRUE, FALSE>> = <<0 = 0, 1 = 0>>
  BY <1>3, Zenon
<1> QED
  BY <1>1, <1>2, <1>4

LEMMA NoticesGrow ==
    ASSUME NEW a \in 0 .. 2, NEW e \in 0 .. 1, a <= e
    PROVE  Notices(a, e + 1) = Append(Notices(a, e), e = 0)
<1>1. CASE a = e
  <2>1. Notices(e, e) = <<>> /\ Notices(e, e + 1) = <<e = 0>>
    BY NoticesAre
  <2> QED
    BY <1>1, <2>1, ShortNotices, Zenon
<1>2. CASE a = 0 /\ e = 1
  <2>1. Notices(0, 1) = <<0 = 0>> /\ Notices(0, 2) = <<0 = 0, 1 = 0>>
    BY NoticesAre
  <2>2. PICK x, y : x = (0 = 0) /\ y = (1 = 0)
    OBVIOUS
  <2>3. Notices(0, 2) = Append(Notices(0, 1), 1 = 0)
    <3>1. Append(<<x>>, y) = <<x, y>>
      BY ShortNotices
    <3> QED
      BY <2>1, <2>2, <3>1
  <2>4. e + 1 = 2
    BY <1>2
  <2> QED
    BY <1>2, <2>3, <2>4, Zenon
<1> QED
  BY <1>1, <1>2

LEMMA NoticesShrink ==
    ASSUME NEW a \in 0 .. 1, NEW e \in 0 .. 2, a + 1 <= e
    PROVE  /\ Notices(a, e) # <<>> /\ Head(Notices(a, e)) = (a = 0)
           /\ Tail(Notices(a, e)) = Notices(a + 1, e)
<1>1. CASE e = a + 1
  <2>1. Notices(a, e) = <<a = 0>> /\ Notices(a + 1, e) = <<>>
    BY <1>1, NoticesAre
  <2> QED
    BY <2>1, ShortNotices, Zenon
<1>2. CASE a = 0 /\ e = 2
  <2>1. Notices(0, 2) = <<0 = 0, 1 = 0>> /\ Notices(1, 2) = <<1 = 0>> /\ a + 1 = 1
    BY <1>2, NoticesAre
  <2>2. PICK x, y : x = (0 = 0) /\ y = (1 = 0)
    OBVIOUS
  <2>3. <<x, y>> # <<>> /\ Head(<<x, y>>) = x /\ Tail(<<x, y>>) = <<y>>
    BY ShortNotices
  <2>4. Notices(0, 2) = <<x, y>> /\ Notices(1, 2) = <<y>>
    BY <2>1, <2>2
  <2> QED
    BY <1>2, <2>1, <2>2, <2>3, <2>4
<1> QED
  BY <1>1, <1>2

\* One end goes on by a stage, or both start again.
LEMMA StageStep ==
    ASSUME NEW a, NEW e, NEW b, NEW f, ActivationAt(a, e), ActivationAt(b, f)',
           \/ b = a /\ f = e
           \/ b = a + 1 /\ f = e
           \/ b = a /\ f = e + 1
           \/ b = 0 /\ f = 0
    PROVE  [Activation!Next]_activation
<1> DEFINE server == sState = "ACTIVE" /\ sRun # "closed"
           client == cState = "ACTIVE"
<1>1. /\ a \in 0 .. 2 /\ e \in 0 .. 2 /\ a <= e /\ b \in 0 .. 2 /\ f \in 0 .. 2 /\ b <= f
      /\ client = (a = 1) /\ server = (e = 1) /\ Announcements = Notices(a, e)
      /\ client' = (b = 1) /\ server' = (f = 1) /\ Announcements' = Notices(b, f)
  BY DEF ActivationAt
<1>2. CASE b = a /\ f = e
  <2>1. UNCHANGED <<server, client, Announcements>>
    BY <1>1, <1>2
  <2> QED
    BY <2>1 DEF activation
<1>3. CASE b = a + 1 /\ f = e
  <2>1. a \in 0 .. 1 /\ a + 1 <= e
    BY <1>1, <1>3
  <2>2. /\ Announcements # <<>> /\ Head(Announcements) = (a = 0)
        /\ Tail(Announcements) = Announcements'
    BY <1>1, <1>3, <2>1, NoticesShrink
  <2>3. client' = Head(Announcements) /\ server' = server
    BY <1>1, <1>3, <2>1, <2>2
  <2>4. Activation!Follow
    BY <2>2, <2>3 DEF Activation!Follow
  <2> QED
    BY <2>4 DEF Activation!Next
<1>4. CASE b = a /\ f = e + 1
  <2>1. e \in 0 .. 1
    BY <1>1, <1>4
  <2>2. Announcements' = Append(Announcements, e = 0)
    BY <1>1, <1>4, <2>1, NoticesGrow
  <2>3. server = ~(e = 0) /\ server' = (e = 0) /\ client' = client
    BY <1>1, <1>4, <2>1
  <2>4. Activation!Announce(e = 0)
    BY <2>2, <2>3 DEF Activation!Announce
  <2> QED
    BY <2>4 DEF Activation!Next
<1>5. CASE b = 0 /\ f = 0
  <2>1. Announcements' = <<>> /\ server' = FALSE /\ client' = FALSE
    BY <1>1, <1>5 DEF Notices
  <2>2. Activation!Lose
    BY <2>1 DEF Activation!Lose
  <2> QED
    BY <2>2 DEF Activation!Next
<1> QED
  BY <1>2, <1>3, <1>4, <1>5

\* Steps that do not concern it.
LEMMA StageStays ==
    ASSUME UNCHANGED <<cState, cPdu, sState, sOut>>, sRun' = "closed" <=> sRun = "closed"
    PROVE  [Activation!Next]_activation
BY DEF activation, Announcements

\* During the setup nothing has been announced.
LEMMA SetupStage == Setup => ActivationAt(0, 0)
<1> SUFFICES ASSUME Setup
             PROVE  ActivationAt(0, 0)
  OBVIOUS
<1>1. cState # "ACTIVE"
  BY SetupEarly DEF LicensingOrEarlier, McsStates
<1>2. sState # "ACTIVE" /\ ~Tells(cPdu) /\ (sOut = <<>> \/ \E p : sOut = <<p>> /\ ~Tells(p))
  <2>1. ASSUME NEW cs, NEW ss, ss # "ACTIVE", NEW p, NEW r,
               Asks(cs, ss, p) \/ AsksTwo(cs, ss, p, r) \/ ClientGoesOn(cs, ss) \/ ServerGoesOn(cs, ss)
        PROVE  sState # "ACTIVE" /\ ~Tells(cPdu) /\ sOut = <<>>
    BY <2>1 DEF Asks, AsksTwo, ClientGoesOn, ServerGoesOn, Tells, NoPdu, Pdu
  <2>2. ASSUME NEW cs, NEW ss, ss # "ACTIVE", NEW p, Answers(cs, ss, p), ~Tells(p)
        PROVE  sState # "ACTIVE" /\ ~Tells(cPdu) /\ (sOut = <<>> \/ sOut = <<p>>)
    BY <2>2 DEF Answers, Tells, NoPdu, Pdu
  <2>3. /\ \A settings, channel : ~Tells(ConnectResponse(settings, channel))
        /\ \A c : ~Tells(JoinConfirm(c))
        /\ ~Tells(Pdu("AttachUserConfirm")) /\ ~Tells(Pdu("AutoDetectRequest"))
        /\ ~Tells(Pdu("LicenseRequest")) /\ ~Tells(Pdu("PlatformChallenge"))
    BY DEF Tells, ConnectResponse, JoinConfirm, Pdu
  <2>4. JoinState # "ACTIVE"
    BY DEF JoinState
  <2>5. CASE Start
    BY <2>1, <2>5 DEF Start
  <2>6. CASE Attaching
    <3>1. CASE Answers("MCS_CREATE_RESPONSE", "MCS_ERECT_DOMAIN",
                       ConnectResponse(sSettings, sMessageChannel))
      BY <2>2, <2>3, <3>1
    <3>2. CASE \/ AsksTwo("MCS_ATTACH_USER_CONFIRM", "MCS_ERECT_DOMAIN",
                          Pdu("ErectDomain"), Pdu("AttachUserRequest"))
               \/ Asks("MCS_ATTACH_USER_CONFIRM", "MCS_ATTACH_USER", Pdu("AttachUserRequest"))
      BY <2>1, <3>2
    <3> QED
      BY <2>6, <3>1, <3>2 DEF Attaching
  <2>10. CASE Joining
    <3>1. CASE \E ss \in {"RDP_SECURITY_COMMENCEMENT", "MCS_CHANNEL_JOIN_REQUEST"} :
                   Answers("MCS_ATTACH_USER_CONFIRM", ss, Pdu("AttachUserConfirm"))
      BY <2>2, <2>3, <3>1
    <3>2. CASE \E c : Asks("MCS_CHANNEL_JOIN_RESPONSE", "MCS_CHANNEL_JOIN_REQUEST", JoinRequest(c))
      BY <2>1, <3>2
    <3>3. CASE \E c : Answers("MCS_CHANNEL_JOIN_RESPONSE", JoinState, JoinConfirm(c))
      BY <2>2, <2>3, <2>4, <3>3
    <3> QED
      BY <2>10, <3>1, <3>2, <3>3 DEF Joining
  <2>7. CASE Informing
    BY <2>1, <2>7 DEF Informing
  <2>8. CASE Measuring
    BY <2>1, <2>2, <2>3, <2>8 DEF Measuring
  <2>9. CASE Licensing
    BY <2>1, <2>2, <2>3, <2>9 DEF Licensing
  <2> QED
    BY <2>5, <2>6, <2>7, <2>8, <2>9, <2>10 DEF Setup
<1>3. Listed(sOut) /\ \A i \in DOMAIN sOut : ~Tells(sOut[i])
  BY <1>2, ShortLists
<1>4. Announcements = <<>>
  <2>1. Listed(<<cPdu>>) /\ DOMAIN <<cPdu>> = {1} /\ <<cPdu>>[1] = cPdu
    BY ShortLists
  <2>2. \A i \in DOMAIN (<<cPdu>> \o sOut) : ~Tells((<<cPdu>> \o sOut)[i])
    BY <1>2, <1>3, <2>1, ConcatElements
  <2> QED
    BY <2>2, ToldNone DEF Announcements
<1> QED
  BY <1>1, <1>2, <1>4 DEF ActivationAt, Notices

\* An end is active exactly at place 8.
LEMMA ActivePlaces ==
    /\ \A k, late, state, a, b : ClientAt(k, late, state, a, b) => (state = "ACTIVE" <=> a = 8)
    /\ \A k, state, a, b : ServerAt(k, state, a, b) => (state = "ACTIVE" <=> a = 8)
<1>1. \A k : Layout(k) \in {3, 4} /\ Opening(k) \in {1, 2}
  BY DEF Layout, Opening
<1> QED
  BY <1>1 DEF ClientAt, ServerAt

\* The stages of two places, and what leads from one to the other.
LEMMA PlaceStages ==
    ASSUME NEW k, NEW p, NEW a \in Places, NEW c \in Places, Down(k, p, a, c),
           NEW s, Listed(s), NEW e \in Places, Path("down", k, c, s, e)
    PROVE  /\ Stage(a) \in 0 .. 2 /\ Stage(e) \in 0 .. 2 /\ Stage(a) <= Stage(e)
           /\ a = 8 <=> Stage(a) = 1
           /\ e = 8 <=> Stage(e) = 1
           /\ Told(<<p>> \o s) = Notices(Stage(a), Stage(e))
<1>1. \A b \in Places : Stage(b) \in 0 .. 2 /\ (b = 8 <=> Stage(b) = 1)
  BY DEF Stage, Places
<1>2. Stage(a) <= Stage(e) /\ Told(<<p>> \o s) = Notices(Stage(a), Stage(e))
  BY PathTells
<1> QED
  BY <1>1, <1>2

LEMMA StageHere ==
    ASSUME NEW k, NEW a \in Places, NEW c \in Places, NEW e \in Places, Listed(sOut),
           Down(k, cPdu, a, c), Path("down", k, c, sOut, e),
           cState = "ACTIVE" <=> a = 8, sState = "ACTIVE" /\ sRun # "closed" <=> e = 8
    PROVE  ActivationAt(Stage(a), Stage(e))
<1>1. /\ Stage(a) \in 0 .. 2 /\ Stage(e) \in 0 .. 2 /\ Stage(a) <= Stage(e)
      /\ a = 8 <=> Stage(a) = 1
      /\ e = 8 <=> Stage(e) = 1
      /\ Told(<<cPdu>> \o sOut) = Notices(Stage(a), Stage(e))
  BY PlaceStages
<1> QED
  BY <1>1 DEF ActivationAt, Announcements

LEMMA StageThere ==
    ASSUME NEW k, NEW a \in Places, NEW c \in Places, NEW e \in Places, Listed(sOut'),
           Down(k, cPdu', a, c), Path("down", k, c, sOut', e),
           cState' = "ACTIVE" <=> a = 8, sState' = "ACTIVE" /\ sRun' # "closed" <=> e = 8
    PROVE  ActivationAt(Stage(a), Stage(e))'
<1>1. /\ Stage(a) \in 0 .. 2 /\ Stage(e) \in 0 .. 2 /\ Stage(a) <= Stage(e)
      /\ a = 8 <=> Stage(a) = 1
      /\ e = 8 <=> Stage(e) = 1
      /\ Told(<<cPdu'>> \o sOut') = Notices(Stage(a), Stage(e))
  BY PlaceStages
<1>2. Announcements' = Notices(Stage(a), Stage(e))
  BY <1>1 DEF Announcements
<1> QED
  BY <1>1, <1>2 DEF ActivationAt

\* What a step of either end does to the stages.
LEMMA StageMoves ==
    ASSUME NEW a \in Places, NEW e \in Places, NEW b \in Places, NEW f \in Places,
           ActivationAt(Stage(a), Stage(e)), ActivationAt(Stage(b), Stage(f))',
           \/ Stage(b) = Stage(a) /\ Stage(f) = Stage(e)
           \/ Stage(b) = Stage(a) + 1 /\ Stage(f) = Stage(e)
           \/ Stage(b) = Stage(a) /\ Stage(f) = Stage(e) + 1
           \/ Stage(b) = 0 /\ Stage(f) = 0
    PROVE  [Activation!Next]_activation
<1>1. PICK i, j, m, n : i = Stage(a) /\ j = Stage(e) /\ m = Stage(b) /\ n = Stage(f)
  OBVIOUS
<1>2. ActivationAt(i, j) /\ ActivationAt(m, n)'
  BY <1>1
<1>3. \/ m = i /\ n = j
      \/ m = i + 1 /\ n = j
      \/ m = i /\ n = j + 1
      \/ m = 0 /\ n = 0
  BY <1>1
<1> QED
  BY <1>2, <1>3, StageStep

\* The client has read its PDU, or has it still.
LEMMA DownOnce ==
    ASSUME NEW k, NEW p, NEW q \in {p, NoPdu}, NEW a \in Places, NEW b \in Places, NEW c \in Places,
           Down(k, p, a, c), Down(k, q, b, c)
    PROVE  Stage(b) = Stage(a) \/ Stage(b) = Stage(a) + 1
<1>1. \A d \in Places : Stage(d) \in 0 .. 2
  BY DEF Stage, Places
<1>2. Stage(c) = IF Tells(p) THEN Stage(a) + 1 ELSE Stage(a)
  BY DownStage
<1>3. Stage(c) = IF Tells(q) THEN Stage(b) + 1 ELSE Stage(b)
  BY DownStage
<1>4. ~Tells(NoPdu)
  BY DEF Tells, NoPdu, Pdu
<1> QED
  BY <1>1, <1>2, <1>3, <1>4

\* Losing the connection, and starting again.
LEMMA LosesStage ==
    ASSUME ActivationAt(0, 0)'
    PROVE  [Activation!Next]_activation
<1>1. Announcements' = <<>> /\ cState' # "ACTIVE" /\ ~(sState' = "ACTIVE" /\ sRun' # "closed")
  BY DEF ActivationAt, Notices
<1>2. Activation!Lose
  BY <1>1 DEF Activation!Lose
<1> QED
  BY <1>2 DEF Activation!Next

LEMMA SetupAgain == Setup' => ActivationAt(0, 0)'
BY SetupStage, PTL

\* A step of the client in the session: it stays, follows an announcement or begins again.
LEMMA ClientFollows ==
    ASSUME Session, JoinRight, JoinRight', ReactivationAgreed, ClientHandles
    PROVE  [Activation!Next]_activation
<1>1. PICK sa, sb, sn, ca, cb, cn \in Places :
        Meeting(Terms, sa, sb, sn, ca, cb, cn)
  BY DEF Session
<1>2. Listed(sOut) /\ Listed(cOut) /\ Known /\ ClientFit /\ sRun \in Working /\ Listed(sOut')
  BY DEF JoinRight, Session
<1>3. /\ sa # 12 /\ cn # 12 /\ (cn >= 9 => sa >= 9)
  BY <1>1, <1>2, MeetingBetween
<1>4. PICK k, late : k = Terms /\ late = (sa >= 9) /\ late \in BOOLEAN
  <2>1. (sa >= 9) \in BOOLEAN
    OBVIOUS
  <2> QED
    BY <2>1, Zenon
<1>5. /\ ServerAt(k, sState, sa, sb) /\ ClientAt(k, late, cState, ca, cb) /\ Down(k, cPdu, ca, cn)
      /\ Path("down", k, cn, sOut, sa)
  BY <1>1, <1>4 DEF Meeting
<1>6. ClientStep /\ UNCHANGED serverVars /\ UNCHANGED <<sState, sRun, sOut>> /\ sRun # "closed"
  BY <1>2 DEF ClientHandles, serverVars, Working
<1>7. cPdu' \in {cPdu, NoPdu}
  BY <1>6, ClientReadsOnce
<1>8. ClientGoes(k, late, cb, cn) \/ ClientBeginsAgain(k, late, cb, cn)
  <2>1. ClientHere(k, late, ca, cb, cn)
    BY <1>1, <1>2, <1>3, <1>4, <1>5 DEF ClientHere
  <2>2. cState \in FinalizationStates => (k.keys <=> SendsKeyList)
    BY <1>1, <1>2, <1>4, ListsAgreed
  <2> QED
    BY <1>3, <1>6, <2>1, <2>2, ClientStepsOn
<1>9. ActivationAt(Stage(ca), Stage(sa))
  BY <1>2, <1>5, <1>6, ActivePlaces, StageHere
<1>10. CASE ClientGoes(k, late, cb, cn)
  <2>1. PICK a \in Places, b \in Places : ClientAt(k, late, cState', a, b) /\ Down(k, cPdu', a, cn)
    BY <1>10 DEF ClientGoes
  <2>2. ActivationAt(Stage(a), Stage(sa))'
    BY <1>2, <1>5, <1>6, <2>1, ActivePlaces, StageThere
  <2>3. Stage(a) = Stage(ca) \/ Stage(a) = Stage(ca) + 1
    BY <1>5, <1>7, <2>1, DownOnce
  <2> QED
    BY <1>9, <2>2, <2>3, StageMoves
<1>11. CASE ClientBeginsAgain(k, late, cb, cn)
  <2>0. PICK to \in {3, 4} : to = Layout(k)
    BY DEF Layout
  <2>1. /\ cn = to + 7 /\ cPdu' = NoPdu /\ ClientAt(k, FALSE, cState', to, cb)
    BY <1>11, <2>0 DEF ClientBeginsAgain
  <2>2. sa \in {10, 11} /\ Path("down", k, to, sOut, sa - 7)
    <3>1. cn \in {10, 11} /\ cn - 7 = to
      BY <2>1
    <3> QED
      BY <1>2, <1>5, <3>1, PathBack
  <2>3. PICK on \in {3, 4} : on = sa - 7
    BY <2>2
  <2>4. /\ to \in Places /\ on \in Places /\ Down(k, cPdu', to, to) /\ Path("down", k, to, sOut', on)
        /\ on # 8 /\ to # 8 /\ Stage(to) = 0 /\ Stage(on) = 0
    BY <1>6, <2>1, <2>2, <2>3 DEF Down, Places, Stage
  <2>5. sState' # "ACTIVE" /\ cState' # "ACTIVE"
    <3>1. sa # 8
      BY <2>2
    <3> QED
      BY <1>5, <1>6, <2>1, <2>4, <3>1, ActivePlaces
  <2>6. ActivationAt(Stage(to), Stage(on))'
    BY <1>2, <2>4, <2>5, StageThere
  <2> QED
    BY <1>9, <2>4, <2>6, StageMoves
<1> QED
  BY <1>8, <1>10, <1>11

\* A step of the server in the session.
LEMMA ServerAnnounces ==
    ASSUME Session, JoinRight, JoinRight', ServerHandles
    PROVE  [Activation!Next]_activation
<1>1. PICK sa, sb, sn, ca, cb, cn \in Places :
        Meeting(Terms, sa, sb, sn, ca, cb, cn)
  BY DEF Session
<1>2. Listed(sOut) /\ Listed(cOut) /\ ServerFit /\ sRun \in Working /\ Listed(sOut')
      /\ sSettings \in ServerSettings /\ cSettings \in ClientSettings
  BY DEF JoinRight, Session
<1>3. sa >= 9 => sn = 2
  BY <1>1, <1>2, MeetingBetween
<1>4. PICK k, late : k = Terms /\ late = (sa >= 9)
  OBVIOUS
<1>5. /\ ServerAt(k, sState, sa, sb) /\ ClientAt(k, late, cState, ca, cb) /\ Down(k, cPdu, ca, cn)
      /\ Path("down", k, cn, sOut, sa) /\ Up(k, sPdu, sb, sn)
  BY <1>1, <1>4 DEF Meeting
<1>6. ServerStep /\ UNCHANGED clientVars /\ UNCHANGED <<cState, cPdu>> /\ sRun # "closed"
  BY <1>2 DEF ServerHandles, clientVars, Working
<1>7. ServerGoes(k, sa, sn)
  <2>1. ServerHere(k, sa, sb, sn)
    BY <1>1, <1>2, <1>3, <1>4, <1>5 DEF ServerHere
  <2> QED
    BY <1>6, <2>1, ServerStepsOn
<1>8. ActivationAt(Stage(ca), Stage(sa))
  BY <1>2, <1>5, <1>6, ActivePlaces, StageHere
<1>9. PICK a \in Places, b \in Places :
          /\ ServerAt(k, sState', a, b) /\ (a >= 9 <=> sa >= 9)
          /\ \/ a = sa /\ sOut' = sOut
             \/ \E p : sOut' = sOut \o <<p>> /\ Goes("down", k, p, sa, a)
             \/ \E p, q : \E c \in Places :
                   /\ sOut' = sOut \o <<p, q>>
                   /\ Goes("down", k, p, sa, c) /\ Goes("down", k, q, c, a)
  BY <1>7 DEF ServerGoes
<1>10. Path("down", k, cn, sOut', a) /\ sRun' # "closed"
  BY <1>2, <1>5, <1>7, <1>9, PathGoes DEF ServerGoes, Working
<1>11. ActivationAt(Stage(ca), Stage(a))'
  BY <1>2, <1>5, <1>6, <1>9, <1>10, ActivePlaces, StageThere
<1>12. Stage(a) = Stage(sa) \/ Stage(a) = Stage(sa) + 1
  <2>1. \A u, v \in Places : \A p : Goes("down", k, p, u, v) => Later(u, v)
    BY GoesLater
  <2>2. Later(sa, sa)
    BY DEF Later, Places
  <2>3. Later(sa, a)
    BY <1>9, <2>1, <2>2, LaterLater
  <2> QED
    BY <1>9, <2>3 DEF Later, Places, Stage
<1> QED
  BY <1>8, <1>11, <1>12, StageMoves

\* A PDU is delivered to the client.
LEMMA DeliveryTells ==
    ASSUME Session \/ Closing, JoinRight, JoinRight', DeliverToClient
    PROVE  [Activation!Next]_activation
<1>1. /\ cRun = "idle" /\ Listed(sOut) /\ Listed(sOut') /\ UNCHANGED <<cState, sState, sRun>>
  BY DEF DeliverToClient, ClientReceive, JoinRight
<1>2. ASSUME NEW k, NEW ca \in Places, NEW cn \in Places, NEW e \in Places, ClientFit,
             Down(k, cPdu, ca, cn), Path("down", k, cn, sOut, e),
             cState = "ACTIVE" <=> ca = 8, sState = "ACTIVE" /\ sRun # "closed" <=> e = 8
      PROVE  [Activation!Next]_activation
  <2>1. ActivationAt(Stage(ca), Stage(e))
    BY <1>1, <1>2, StageHere
  <2>2. PICK c \in Places : Down(k, cPdu', ca, c) /\ Path("down", k, c, sOut', e)
    BY <1>1, <1>2, ClientTakes
  <2>3. ActivationAt(Stage(ca), Stage(e))'
    BY <1>1, <1>2, <2>2, StageThere
  <2> QED
    BY <2>1, <2>3, StageMoves
<1>3. CASE Session
  <2>1. PICK sa, sb, sn, ca, cb, cn \in Places :
          Meeting(Terms, sa, sb, sn, ca, cb, cn)
    BY <1>3 DEF Session
  <2>2. ClientFit /\ sRun # "closed"
    BY <1>3 DEF Session, Working
  <2> QED
    BY <1>2, <2>1, <2>2, ActivePlaces DEF Meeting
<1>4. CASE Closing
  <2>1. PICK ca, cb, cn \in Places :
          /\ ClientAt(Terms, TRUE, cState, ca, cb)
          /\ Down(Terms, cPdu, ca, cn) /\ Path("down", Terms, cn, sOut, 12)
    BY <1>1, <1>4 DEF Closing
  <2>2. ClientFit /\ sRun = "closed" /\ 12 \in Places /\ 12 # 8
    BY <1>1, <1>4 DEF Closing, Places
  <2> QED
    BY <1>2, <2>1, <2>2, ActivePlaces
<1> QED
  BY <1>3, <1>4

\* A step of the client after the server has closed the session.
LEMMA ClientFollowsClosing ==
    ASSUME Closing, JoinRight, JoinRight', ClientHandles
    PROVE  [Activation!Next]_activation
<1>1. cRun = "run" /\ ClientStep /\ UNCHANGED serverVars
  BY StepsWork DEF ClientHandles
<1>2. /\ Known /\ ClientFit /\ Listed(sOut) /\ Listed(cOut) /\ Listed(sOut')
      /\ sRun = "closed" /\ UNCHANGED <<sRun, sOut>>
  BY <1>1 DEF Closing, JoinRight, serverVars
<1>3. PICK ca, cb, cn \in Places :
        /\ ClientAt(Terms, TRUE, cState, ca, cb)
        /\ Down(Terms, cPdu, ca, cn) /\ Path("down", Terms, cn, sOut, 12)
  BY <1>1 DEF Closing
<1>4. PICK k, late : k = Terms /\ late = TRUE
  OBVIOUS
<1>5. 12 \in Places /\ 12 # 8 /\ Stage(12) = 2 /\ Stage(9) = 2
  BY DEF Places, Stage
<1>6. ActivationAt(Stage(ca), Stage(12))
  BY <1>2, <1>3, <1>5, ActivePlaces, StageHere
<1>7. \/ ClientGoes(k, late, cb, cn)
      \/ ClientBeginsAgain(k, late, cb, cn)
      \/ cn = 12 /\ ca = 9 /\ cState' # "ACTIVE" /\ cPdu' = NoPdu
  <2>1. ClientHere(k, late, ca, cb, cn)
    BY <1>2, <1>3, <1>4 DEF ClientHere
  <2>2. cState \notin FinalizationStates
    BY <1>3 DEF ClientAt, FinalizationStates
  <2>3. cState \in FinalizationStates => (k.keys <=> SendsKeyList)
    BY <2>2
  <2> QED
    BY <1>1, <2>1, <2>3, ClientStepsOn
<1>8. ~ClientBeginsAgain(k, late, cb, cn)
  <2>1. Later(cn, 12)
    BY <1>2, <1>3, PathBetween
  <2>2. Layout(k) \in {3, 4}
    BY DEF Layout
  <2>3. cn # Layout(k) + 7
    BY <2>1, <2>2 DEF Later
  <2> QED
    BY <2>3 DEF ClientBeginsAgain
<1>9. CASE ClientGoes(k, late, cb, cn)
  <2>1. PICK a \in Places, b \in Places : ClientAt(k, late, cState', a, b) /\ Down(k, cPdu', a, cn)
    BY <1>9 DEF ClientGoes
  <2>2. ActivationAt(Stage(a), Stage(12))'
    BY <1>2, <1>3, <1>4, <1>5, <2>1, ActivePlaces, StageThere
  <2>3. cPdu' \in {cPdu, NoPdu}
    BY <1>1, ClientReadsOnce
  <2>4. Stage(a) = Stage(ca) \/ Stage(a) = Stage(ca) + 1
    BY <1>3, <1>4, <2>1, <2>3, DownOnce
  <2> QED
    BY <1>5, <1>6, <2>2, <2>4, StageMoves
<1>10. CASE cn = 12 /\ ca = 9 /\ cState' # "ACTIVE" /\ cPdu' = NoPdu
  <2>1. Down(k, cPdu', 12, 12) /\ Path("down", k, 12, sOut', 12)
    BY <1>2, <1>3, <1>4, <1>10 DEF Down
  <2>2. ActivationAt(Stage(12), Stage(12))'
    BY <1>2, <1>5, <1>10, <2>1, StageThere
  <2> QED
    BY <1>5, <1>6, <1>10, <2>2, StageMoves
<1> QED
  BY <1>7, <1>8, <1>9, <1>10

\* The application draws, resizes the desktop or closes the session.
LEMMA ApplicationAnnounces ==
    ASSUME Session, JoinRight, JoinRight', Application
    PROVE  [Activation!Next]_activation
<1>1. PICK sa, sb, sn, ca, cb, cn \in Places :
        Meeting(Terms, sa, sb, sn, ca, cb, cn)
  BY DEF Session
<1>2. Listed(sOut) /\ Listed(cOut) /\ ServerFit /\ sRun \in Working /\ Listed(sOut')
  BY DEF JoinRight, Session
<1>3. PICK k, late : k = Terms /\ late = (sa >= 9)
  OBVIOUS
<1>4. /\ ServerAt(k, sState, sa, sb) /\ ClientAt(k, late, cState, ca, cb) /\ Down(k, cPdu, ca, cn)
      /\ Path("down", k, cn, sOut, sa)
  BY <1>1, <1>3 DEF Meeting
<1>5. UNCHANGED <<cState, cPdu>> /\ sRun # "closed"
  BY <1>2 DEF Application, clientVars, Working
<1>6. ActivationAt(Stage(ca), Stage(sa))
  BY <1>2, <1>4, <1>5, ActivePlaces, StageHere
<1>7. CASE ServerUpdate \/ ServerChannelData
  <2>1. Path("down", k, cn, sOut', sa)
    BY <1>1, <1>2, <1>3, <1>7, TrafficGoes
  <2>2. UNCHANGED <<sState, sRun>>
    BY <1>7 DEF ServerUpdate, ServerChannelData
  <2>3. ActivationAt(Stage(ca), Stage(sa))'
    BY <1>2, <1>4, <1>5, <2>1, <2>2, ActivePlaces, StageThere
  <2> QED
    BY <1>6, <2>3, StageMoves
<1>8. CASE ServerReactivate
  <2>1. sa = 8
    BY <1>1, <1>2, <1>8, BothActivated DEF ServerReactivate
  <2>2. PICK to \in {10, 11} : to = Layout(k) + 7
    BY DEF Layout
  <2>3. Path("down", k, cn, sOut', to)
    BY <1>2, <1>4, <1>8, <2>1, <2>2, ResizeGoes
  <2>4. /\ to \in Places /\ to # 8 /\ Stage(to) = Stage(sa) + 1 /\ sState' # "ACTIVE"
    BY <1>8, <2>1 DEF Places, Stage, ServerReactivate
  <2>5. ActivationAt(Stage(ca), Stage(to))'
    BY <1>2, <1>4, <1>5, <2>3, <2>4, ActivePlaces, StageThere
  <2> QED
    BY <1>6, <2>4, <2>5, StageMoves
<1>9. CASE ServerCloseSession
  <2>1. sa = 8
    BY <1>1, <1>2, <1>9, BothActivated DEF ServerCloseSession, ServerClose
  <2>2. Path("down", k, cn, sOut', 12)
    BY <1>2, <1>4, <1>9, <2>1, CloseGoes
  <2>3. /\ 12 \in Places /\ 12 # 8 /\ Stage(12) = Stage(sa) + 1 /\ sRun' = "closed"
    BY <1>9, <2>1 DEF Places, Stage, ServerCloseSession, ServerClose
  <2>4. ActivationAt(Stage(ca), Stage(12))'
    BY <1>2, <1>4, <1>5, <2>2, <2>3, ActivePlaces, StageThere
  <2> QED
    BY <1>6, <2>3, <2>4, StageMoves
<1> QED
  BY <1>7, <1>8, <1>9 DEF Application, ServerApplication

\* Input, and what is delivered to the server.
LEMMA OthersTellNothing ==
    ASSUME UserInput \/ DeliverToServer \/ UNCHANGED vars, JoinRight
    PROVE  [Activation!Next]_activation
<1>1. UNCHANGED <<cState, cPdu, sState, sOut>>
  BY DEF UserInput, ClientInput, DeliverToServer, ServerReceive, vars, clientVars, serverVars
<1>2. sRun' = "closed" <=> sRun = "closed"
  BY DEF UserInput, ClientInput, DeliverToServer, ServerReceive, vars, clientVars, serverVars
<1> QED
  BY <1>1, <1>2, StageStays

\* The licence has been sent, and the session begins.
LEMMA SessionBegins ==
    ASSUME Session', JoinRight', sState' = "MULTITRANSPORT_BOOTSTRAPPING_REQUEST"
    PROVE  ActivationAt(0, 0)'
<1>1. PICK sa, sb, sn, ca, cb, cn \in Places :
        Meeting(Terms, sa, sb, sn, ca, cb, cn)'
  BY DEF Session
<1>2. PICK k, late : k = Terms' /\ late = (sa >= 9)
  OBVIOUS
<1>3. /\ ServerAt(k, sState', sa, sb) /\ ClientAt(k, late, cState', ca, cb)
      /\ Down(k, cPdu', ca, cn) /\ Path("down", k, cn, sOut', sa) /\ Listed(sOut')
  BY <1>1, <1>2 DEF Meeting, JoinRight
<1>4. sa = Opening(k) /\ Opening(k) \in {1, 2}
  BY <1>3 DEF ServerAt, Opening
<1>5. ActivationAt(Stage(ca), Stage(sa))'
  BY <1>3, <1>4, ActivePlaces, StageThere
<1>6. Stage(sa) = 0 /\ Stage(ca) \in 0 .. 2
  BY <1>4 DEF Stage, Places
<1>7. Stage(ca) <= Stage(sa)
  BY <1>3, PlaceStages
<1>8. Stage(ca) = 0
  BY <1>6, <1>7
<1> QED
  BY <1>5, <1>6, <1>8

\* A client and a server implement ActivationView, whatever their settings are: the server becomes
\* active when rdp_server_transition_to_state takes it to CONNECTION_STATE_ACTIVE with a Font Map,
\* and inactive when the application resizes the desktop or closes the session with a Deactivate
\* All; the client follows these announcements one by one in their order, although it decides from
\* flags that several PDUs set, and input, updates and channel data cross them on the wire.
THEOREM ImplementsActivationTheorem ==
    ASSUME Licensable
    PROVE  Spec => ImplementsActivation
<1>1. Init => Activation!Init
  <2> SUFFICES ASSUME Init
               PROVE  Activation!Init
    OBVIOUS
  <2>1. /\ cState = "NEGO" /\ cPdu = NoPdu /\ sState = "MCS_CREATE_REQUEST" /\ sOut = <<>>
    BY DEF Init, ClientInit, ServerInit
  <2>2. Announcements = <<>>
    <3>1. <<cPdu>> \o sOut = <<cPdu>>
      BY <2>1
    <3>2. \A i \in DOMAIN <<cPdu>> : ~Tells(<<cPdu>>[i])
      BY <2>1 DEF Tells, NoPdu, Pdu
    <3> QED
      BY <3>1, <3>2, ToldNone DEF Announcements
  <2> QED
    BY <2>1, <2>2 DEF Activation!Init
<1>2. SessionRight /\ JoinRight /\ JoinRight' /\ ReactivationAgreed /\ [Next]_vars
          => [Activation!Next]_activation
  <2> SUFFICES ASSUME SessionRight, JoinRight, JoinRight', ReactivationAgreed, [Next]_vars
               PROVE  [Activation!Next]_activation
    OBVIOUS
  <2>1. CASE Reconnect
    BY <2>1, ReconnectStarts, SetupAgain, LosesStage
  <2>2. CASE Setup /\ ~Reconnect
    <3>1. Setup' \/ (Session' /\ sState' = "MULTITRANSPORT_BOOTSTRAPPING_REQUEST")
      BY <2>2, SetupStays DEF SessionRight
    <3> QED
      BY <3>1, SetupAgain, SessionBegins, LosesStage
  <2>3. CASE Session /\ ~Reconnect
    <3>1. ~Ended
      BY <2>3 DEF Session, Ended, Working
    <3> QED
      BY <2>3, <3>1, ClientFollows, ServerAnnounces, DeliveryTells, ApplicationAnnounces,
         OthersTellNothing DEF Next, Terminated
  <2>4. CASE Closing /\ ~Reconnect
    <3>1. sRun = "closed"
      BY <2>4 DEF Closing
    <3>2. ~ServerHandles /\ ~Application
      BY <3>1, ServerStepsWork
         DEF ServerHandles, Application, ServerApplication,
             ServerReactivate, ServerUpdate, ServerChannelData, ServerCloseSession, ServerClose
    <3> QED
      BY <2>4, <3>2, ClientFollowsClosing, DeliveryTells, OthersTellNothing DEF Next, Terminated
  <2> QED
    BY <2>1, <2>2, <2>3, <2>4 DEF SessionRight
<1> QED
  BY <1>1, <1>2, SessionTheorem, JoinRightTheorem, ReactivationTheorem, PTL
     DEF Spec, Activation!Spec, ImplementsActivation, activation

=============================================================================
