--------------------------- MODULE RdpPartsProofs ---------------------------
(***************************************************************************)
(* Proofs about the parts of the connection sequence on their own: the     *)
(* negotiation of Nego, for every set of servers met and every set of      *)
(* RDP_NEG_REQ flags; the client of RdpClientOpen, for every number of     *)
(* static channels, every set of client settings and every amount of       *)
(* input; the server of RdpServerOpen, for every set of server settings    *)
(* and every amount of updates.                                            *)
(***************************************************************************)
EXTENDS Nego, RdpClientOpen, RdpServerOpen, TLAPS, WellFoundedInduction

-----------------------------------------------------------------------------
(* The negotiation. *)

-----------------------------------------------------------------------------
(* The inductive invariant *)

Answers ==
    {NoAnswer, [type |-> "CONFIRM"]}
    \cup {[type |-> "RSP", selected |-> p] : p \in Protocols}
    \cup {[type |-> "FAILURE", code |-> code] : code \in Codes}

\* The values of the settings and of what the network carries.
SettingsShape ==
    /\ security \subseteq Protocols /\ clientFlags \subseteq Flags /\ negotiate \in BOOLEAN
    /\ kind \in {"freerdp", "none", "certless", "direct"}
    /\ (kind = "direct") = ~negotiate
    /\ kind = "freerdp" => serverSecurity \subseteq {"RDSTLS", "HYBRID", "SSL", "RDP"}
    /\ kind # "freerdp" => serverSecurity = {"RDP"}

Requests ==
    {NoRequest} \cup [sent : {TRUE}, negData : BOOLEAN,
                     protocols : SUBSET Protocols, flags : SUBSET Flags]

LoopShape ==
    /\ enabled \subseteq Protocols
    /\ request \in Requests /\ answer \in Answers
    /\ peer \in [selected : Protocols \cup {"none", "failed"}, flags : SUBSET Flags,
                 rcg : BOOLEAN, open : BOOLEAN]
    /\ result \in {"none", "failed", "connected"}

\* Before the first attempt nothing has been decided.
StartRight == pc = "idle" => enabled = security /\ selected = "RDP" /\ answer = NoAnswer

\* nego_connect is in its loop.
InLoop == pc \in {"ready", "await"}

\* What holds from attempt to attempt.  The protocol tried is still enabled, what is
\* enabled is the user's choice or less, and less only for what a FreeRDP server answers.
\* Only such a server makes SelectedProtocol anything but RDP.  AAD and RDSTLS are only
\* tried first, with nothing disabled yet.
LoopRight ==
    InLoop =>
        /\ kind # "direct"
        /\ state \in enabled /\ enabled \subseteq security
        /\ kind # "freerdp" => enabled = security /\ selected = "RDP"
        /\ state \in {"RDSAAD", "RDSTLS"} =>
              enabled = security /\ (state = "RDSTLS" => "RDSAAD" \notin security)

\* The request on the current connection is that of the protocol tried.
RequestRight ==
    pc = "await" =>
        /\ request.sent
        /\ request.protocols = RequestOf(state)
        /\ request.protocols # {} => request.flags = clientFlags

\* The answer of a server says what its end of the connection has selected, which is
\* what it can do and what was asked for, under the flags of the request.
AnswerRight ==
    pc = "await" =>
        /\ answer.type = "RSP" =>
              /\ peer.selected = answer.selected
              /\ kind \in {"freerdp", "certless"}
              /\ kind = "certless" => answer.selected = "RDP"
              /\ kind = "freerdp" =>
                    /\ answer.selected = ServerSelects(request.protocols)
                    /\ peer.flags = request.flags
                    /\ request.flags = {"rcg"} => peer.rcg
        /\ answer.type = "FAILURE" =>
              /\ kind \in {"freerdp", "certless"}
              /\ kind = "certless" =>
                    /\ answer.code \in {"SSL_CERT_NOT_ON_SERVER", "INCONSISTENT_FLAGS"}
                    /\ request.protocols # {}
              /\ kind = "freerdp" =>
                    /\ answer.code = FailureCode
                    /\ ServerSelects(request.protocols) = "failed"
        /\ answer.type = "CONFIRM" => kind \in {"none", "certless"} /\ peer.selected = "RDP"

\* The clients and servers for which fallback is complete.
Complete == kind # "direct" /\ ~Misled

\* While a protocol is shared one is still enabled that was not tried yet.
CommonAhead ==
    InLoop /\ Complete /\ security \cap serverSecurity # {} =>
        \E q \in enabled \cap serverSecurity : Rank[q] <= Rank[state]

NegoRight ==
    /\ NegoInv /\ SelectedPermitted /\ FallbackFindsCommon
    /\ SettingsShape /\ LoopShape /\ StartRight /\ LoopRight /\ RequestRight /\ AnswerRight
    /\ CommonAhead

-----------------------------------------------------------------------------
(* The operators *)

\* The order of the protocols.
LEMMA RankOf ==
    /\ Rank["RDSAAD"] = 6 /\ Rank["RDSTLS"] = 5 /\ Rank["HYBRID_EX"] = 4
    /\ Rank["HYBRID"] = 3 /\ Rank["SSL"] = 2 /\ Rank["RDP"] = 1
BY DEF Rank, Protocols

\* No two protocols have the same rank.
LEMMA RankSeparates ==
    ASSUME NEW p \in Protocols, NEW q \in Protocols
    PROVE  Rank[p] \in 1 .. 6 /\ (Rank[p] = Rank[q] => p = q)
BY RankOf DEF Protocols

\* Highest finds the first of the protocols in the order of nego_connect.
LEMMA HighestIs ==
    ASSUME NEW S \in SUBSET Protocols, S # {}
    PROVE  Highest(S) \in S /\ \A q \in S : Rank[q] <= Rank[Highest(S)]
<1>1. \E p \in S : \A q \in S : Rank[q] <= Rank[p]
  <2>1. CASE "RDSAAD" \in S
    BY <2>1, RankOf DEF Protocols
  <2>2. CASE "RDSAAD" \notin S /\ "RDSTLS" \in S
    BY <2>2, RankOf DEF Protocols
  <2>3. CASE S \cap {"RDSAAD", "RDSTLS"} = {} /\ "HYBRID_EX" \in S
    BY <2>3, RankOf DEF Protocols
  <2>4. CASE S \cap {"RDSAAD", "RDSTLS", "HYBRID_EX"} = {} /\ "HYBRID" \in S
    BY <2>4, RankOf DEF Protocols
  <2>5. CASE S \cap {"RDSAAD", "RDSTLS", "HYBRID_EX", "HYBRID"} = {} /\ "SSL" \in S
    BY <2>5, RankOf DEF Protocols
  <2>6. CASE S \subseteq {"RDP"}
    <3>1. "RDP" \in S /\ \A q \in S : q = "RDP"
      BY <2>6
    <3>2. \A q \in S : Rank[q] <= Rank["RDP"]
      BY <3>1, RankOf
    <3>3. QED
      BY <3>1, <3>2
  <2>7. QED
    BY <2>1, <2>2, <2>3, <2>4, <2>5, <2>6 DEF Protocols
<1>2. QED
  BY <1>1, Zenon DEF Highest

\* An attempt falls back to the first enabled protocol behind it, and fails only if there is
\* none.
LEMMA FallbackIs ==
    ASSUME NEW p \in Protocols, NEW en \in SUBSET Protocols
    PROVE  /\ Fallback(p, en) = "FAIL" => Below(p) \cap en = {}
           /\ Fallback(p, en) # "FAIL" =>
                 /\ Fallback(p, en) \in Below(p) \cap en
                 /\ \A q \in Below(p) \cap en : Rank[q] <= Rank[Fallback(p, en)]
<1>1. Below(p) \cap en \in SUBSET Protocols
  BY DEF Below
<1>2. CASE Below(p) \cap en = {}
  BY <1>2 DEF Fallback
<1>3. CASE Below(p) \cap en # {}
  <2>1. Fallback(p, en) = Highest(Below(p) \cap en)
    BY <1>3 DEF Fallback
  <2>2. Highest(Below(p) \cap en) \in Protocols
    BY <1>1, <1>3, HighestIs
  <2>3. Fallback(p, en) # "FAIL"
    BY <2>1, <2>2 DEF Protocols
  <2>4. QED
    BY <1>1, <1>3, <2>1, <2>3, HighestIs
<1>4. QED
  BY <1>2, <1>3

\* What the attempts ask for.
LEMMA RequestIs ==
    ASSUME NEW p \in Protocols
    PROVE  /\ RequestOf(p) \subseteq Protocols \ {"RDP"}
           /\ RequestOf(p) = {} <=> p = "RDP"
           /\ p # "RDP" => p \in RequestOf(p)
           /\ "RDSTLS" \in RequestOf(p) => p = "RDSTLS"
           /\ "RDSAAD" \in RequestOf(p) => p = "RDSAAD"
           /\ p \in {"HYBRID_EX", "HYBRID"} => {"HYBRID", "SSL"} \subseteq RequestOf(p)
           /\ p = "HYBRID" => RequestOf(p) = {"HYBRID", "SSL"}
           /\ p = "SSL" => RequestOf(p) = {"SSL"}
<1>1. CASE p = "RDSAAD"
  BY <1>1 DEF RequestOf, Protocols
<1>2. CASE p = "RDSTLS"
  BY <1>2 DEF RequestOf, Protocols
<1>3. CASE p = "HYBRID_EX"
  BY <1>3 DEF RequestOf, Protocols
<1>4. CASE p = "HYBRID"
  BY <1>4 DEF RequestOf, Protocols
<1>5. CASE p = "SSL"
  BY <1>5 DEF RequestOf, Protocols
<1>6. CASE p = "RDP"
  BY <1>6 DEF RequestOf, Protocols
<1>7. QED
  BY <1>1, <1>2, <1>3, <1>4, <1>5, <1>6 DEF Protocols

\* What rdp_server_accept_nego selects is among what it was asked for, if anything.
LEMMA SelectsIs ==
    ASSUME SettingsShape, kind = "freerdp", NEW mask \in SUBSET (Protocols \ {"RDP"})
    PROVE  /\ ServerSelects(mask) \in Protocols \cup {"failed"}
           /\ ServerSelects(mask) \notin {"failed", "RDP"} =>
                 ServerSelects(mask) \in serverSecurity \cap mask
           /\ serverSecurity \cap mask # {} =>
                 /\ ServerSelects(mask) \in serverSecurity \cap mask
                 /\ \A q \in serverSecurity \cap mask : Rank[q] <= Rank[ServerSelects(mask)]
           /\ ServerSelects(mask) = "failed" =>
                 serverSecurity \cap mask = {} /\ ("RDP" \in serverSecurity => mask # {})
           /\ ServerSelects(mask) = "RDP" => "RDP" \in serverSecurity /\ mask = {}
<1>1. serverSecurity \cap mask \in SUBSET Protocols
  BY DEF SettingsShape
<1>2. CASE serverSecurity \cap mask # {}
  <2>1. ServerSelects(mask) = Highest(serverSecurity \cap mask)
    BY <1>2 DEF ServerSelects
  <2>2. ServerSelects(mask) \in serverSecurity \cap mask
    BY <1>1, <1>2, <2>1, HighestIs
  <2>3. \A q \in serverSecurity \cap mask : Rank[q] <= Rank[ServerSelects(mask)]
    BY <1>1, <1>2, <2>1, HighestIs
  <2>4. ServerSelects(mask) \notin {"failed", "RDP"}
    BY <2>2 DEF Protocols
  <2>5. QED
    BY <1>2, <2>2, <2>3, <2>4
<1>3. CASE serverSecurity \cap mask = {}
  BY <1>3 DEF ServerSelects, Protocols
<1>4. QED
  BY <1>2, <1>3

-----------------------------------------------------------------------------
(* The steps *)

LEMMA InitRight == Init => NegoRight
<1> SUFFICES ASSUME Init PROVE NegoRight
  OBVIOUS
<1>1. kind \in {"freerdp", "none", "certless", "direct"} /\ clientFlags \subseteq Flags
  BY NegoAssumption DEF Init
<1>2. SettingsShape
  BY <1>1 DEF Init, SettingsShape
<1>3. LoopShape
  BY DEF Init, LoopShape, Requests, Answers, NoPeer
<1>4. NegoInv
  BY DEF Init, NegoInv, NegoTypeOK, NegotiatedAgreed, ModeKnown, Negotiated, Protocols
<1>5. SelectedPermitted /\ FallbackFindsCommon
  BY DEF Init, SelectedPermitted, FallbackFindsCommon, Negotiated
<1>6. StartRight /\ LoopRight /\ RequestRight /\ AnswerRight /\ CommonAhead
  BY DEF Init, StartRight, LoopRight, RequestRight, AnswerRight, CommonAhead, InLoop
<1>7. QED
  BY <1>2, <1>3, <1>4, <1>5, <1>6 DEF NegoRight

\* The settings of both ends never change.
LEMMA SettingsStay ==
    ASSUME SettingsShape, UNCHANGED settings
    PROVE  SettingsShape'
BY DEF SettingsShape, settings

LEMMA MisledStays ==
    ASSUME UNCHANGED settings
    PROVE  Misled' = Misled /\ Complete' = Complete
<1>1. Misled' = Misled
  BY DEF Misled, Required, FailureCode, ServerSelects, settings
<1>2. QED
  BY <1>1 DEF Complete, settings

\* The first TCP connection.
LEMMA NegoConnectRight ==
    ASSUME NegoRight, NegoConnect
    PROVE  NegoRight'
<1> USE DEF NegoRight, NegoConnect
<1>s. UNCHANGED settings /\ SettingsShape /\ SettingsShape'
  BY SettingsStay
<1>1. /\ enabled = security /\ enabled # {} /\ enabled \in SUBSET Protocols
      /\ selected = "RDP" /\ answer = NoAnswer /\ result = "none"
  BY DEF StartRight, SettingsShape, NegoInv, NegoTypeOK
<1>2. Highest(enabled) \in enabled /\ \A q \in enabled : Rank[q] <= Rank[Highest(enabled)]
  BY <1>1, HighestIs
<1>3. peer' = [selected |-> IF negotiate THEN "none" ELSE Highest(enabled),
              flags |-> {}, rcg |-> FALSE, open |-> TRUE]
  BY DEF NewPeer, NoPeer
<1>4. LoopShape'
  <2>1. peer' \in [selected : Protocols \cup {"none", "failed"}, flags : SUBSET Flags,
                  rcg : BOOLEAN, open : BOOLEAN]
    <3>1. Highest(enabled) \in Protocols
      BY <1>1, <1>2
    <3>2. (IF negotiate THEN "none" ELSE Highest(enabled)) \in Protocols \cup {"none", "failed"}
      BY <3>1
    <3>3. HIDE DEF NegoConnect, NegoRight
    <3>4. QED
      BY <1>3, <3>2
  <2>2. enabled' \subseteq Protocols
    BY <1>1, <1>2 DEF Protocols
  <2>3. QED
    BY <2>1, <2>2 DEF LoopShape
<1>5. NegoTypeOK'
  BY <1>1, <1>2, <1>s DEF NegoInv, NegoTypeOK, Protocols, settings
<1>6. NegotiatedAgreed' /\ SelectedPermitted'
  BY <1>1, <1>2, <1>3, <1>s
     DEF NegotiatedAgreed, SelectedPermitted, Negotiated, settings
<1>7. ModeKnown'
  BY <1>1, <1>s DEF ModeKnown, Negotiated, settings, SettingsShape
<1>8. FallbackFindsCommon' /\ StartRight' /\ RequestRight' /\ AnswerRight'
  BY <1>1 DEF FallbackFindsCommon, StartRight, RequestRight, AnswerRight
<1>9. LoopRight'
  BY <1>1, <1>2, <1>s, RankOf DEF LoopRight, InLoop, settings, SettingsShape
<1>10. CommonAhead'
  <2>1. SUFFICES ASSUME InLoop', security \cap serverSecurity # {}
                 PROVE  \E q \in enabled' \cap serverSecurity' : Rank[q] <= Rank[state']
    BY <1>s DEF CommonAhead, settings
  <2>2. negotiate /\ state' = Highest(enabled) /\ enabled' = enabled
    BY <2>1 DEF InLoop
  <2>3. QED
    BY <1>1, <1>2, <1>s, <2>1, <2>2 DEF settings
<1>11. QED
  BY <1>s, <1>4, <1>5, <1>6, <1>7, <1>8, <1>9, <1>10 DEF NegoInv

\* nego_connect returns FALSE without an attempt.
LEMMA NegoConnectFailsRight ==
    ASSUME NegoRight, NegoConnectFails
    PROVE  NegoRight'
<1> USE DEF NegoRight, NegoConnectFails
<1>s. UNCHANGED settings /\ SettingsShape /\ SettingsShape'
  BY SettingsStay
<1>1. /\ enabled = security /\ enabled \in SUBSET Protocols
      /\ pc' = "done" /\ result' = "failed"
  BY DEF StartRight, SettingsShape
<1>2. enabled # {} => Highest(enabled) \in Protocols
  BY <1>1, HighestIs
<1>3. LoopShape'
  BY <1>1 DEF LoopShape
<1>4. NegoTypeOK'
  BY <1>1, <1>2, <1>s DEF NegoInv, NegoTypeOK, settings
<1>5. NegotiatedAgreed' /\ SelectedPermitted' /\ ModeKnown'
  BY <1>1 DEF NegotiatedAgreed, SelectedPermitted, ModeKnown, Negotiated
<1>6. FallbackFindsCommon'
  BY <1>1, <1>s DEF FallbackFindsCommon, settings
<1>7. StartRight' /\ LoopRight' /\ RequestRight' /\ AnswerRight' /\ CommonAhead'
  BY <1>1 DEF StartRight, LoopRight, RequestRight, AnswerRight, CommonAhead, InLoop
<1>8. QED
  BY <1>s, <1>3, <1>4, <1>5, <1>6, <1>7 DEF NegoInv

\* A request goes out.
LEMMA AttemptRight ==
    ASSUME NegoRight, Attempt
    PROVE  NegoRight'
<1> USE DEF NegoRight, Attempt
<1>s. UNCHANGED settings /\ SettingsShape /\ SettingsShape'
  BY SettingsStay
<1>1. /\ state \in Protocols /\ pc = "ready" /\ pc' = "await" /\ result = "none"
      /\ answer' = NoAnswer /\ tcp' = TRUE
  BY DEF NegoInv, NegoTypeOK
<1>2. RequestOf(state) \subseteq Protocols \ {"RDP"} /\ requested' = RequestOf(state)
  BY <1>1, RequestIs
<1>3. request' \in Requests
  BY <1>2 DEF Requests, NegoInv, NegoTypeOK, SettingsShape
<1>4. peer' \in [selected : Protocols \cup {"none", "failed"}, flags : SUBSET Flags,
                 rcg : BOOLEAN, open : BOOLEAN]
  BY DEF LoopShape, NewPeer, NoPeer
<1>5. LoopShape'
  BY <1>1, <1>3, <1>4 DEF LoopShape, Answers
<1>6. NegoTypeOK'
  BY <1>1, <1>2, <1>s DEF NegoInv, NegoTypeOK, settings
<1>7. NegotiatedAgreed' /\ SelectedPermitted' /\ ModeKnown' /\ FallbackFindsCommon' /\ StartRight'
  BY <1>1 DEF NegotiatedAgreed, SelectedPermitted, ModeKnown, Negotiated, FallbackFindsCommon,
              StartRight
<1>8. LoopRight'
  BY <1>1, <1>s DEF LoopRight, InLoop, settings
<1>9. RequestRight'
  BY <1>1, <1>2, <1>s DEF RequestRight, settings
<1>10. AnswerRight'
  BY <1>1 DEF AnswerRight, NoAnswer
<1>11. CommonAhead'
  BY <1>1, <1>s, MisledStays DEF CommonAhead, InLoop, settings
<1>12. QED
  BY <1>s, <1>5, <1>6, <1>7, <1>8, <1>9, <1>10, <1>11 DEF NegoInv

\* nego_connect returns FALSE because the connection broke.
LEMMA BrokenRight ==
    ASSUME NegoRight, InLoop, faulty' = TRUE, requested' \subseteq Protocols \ {"RDP"},
           pc' = "done", result' = "failed", state' = "FINAL",
           UNCHANGED <<settings, enabled, selected, failureCode, tcp, request, answer, peer>>
    PROVE  NegoRight'
<1> USE DEF NegoRight
<1>s. SettingsShape'
  BY SettingsStay
<1>1. LoopShape'
  BY DEF LoopShape
<1>2. NegoTypeOK'
  BY DEF NegoInv, NegoTypeOK, settings
<1>3. NegotiatedAgreed' /\ SelectedPermitted' /\ ModeKnown' /\ FallbackFindsCommon'
  BY DEF NegotiatedAgreed, SelectedPermitted, ModeKnown, Negotiated, FallbackFindsCommon
<1>4. StartRight' /\ LoopRight' /\ RequestRight' /\ AnswerRight' /\ CommonAhead'
  BY DEF StartRight, LoopRight, RequestRight, AnswerRight, CommonAhead, InLoop
<1>5. QED
  BY <1>s, <1>1, <1>2, <1>3, <1>4 DEF NegoInv

LEMMA AttemptFailsRight ==
    ASSUME NegoRight, AttemptFails
    PROVE  NegoRight'
<1>1. state \in Protocols
  BY DEF NegoRight, NegoInv, NegoTypeOK, AttemptFails
<1>2. requested' \subseteq Protocols \ {"RDP"}
  BY <1>1, RequestIs DEF AttemptFails
<1>3. QED
  BY <1>2, BrokenRight DEF AttemptFails, ReturnFailed, InLoop

LEMMA RecvFailsRight ==
    ASSUME NegoRight, NegoRecvFails
    PROVE  NegoRight'
<1>1. requested' \subseteq Protocols \ {"RDP"}
  BY DEF NegoRight, NegoInv, NegoTypeOK, NegoRecvFails
<1>2. QED
  BY <1>1, BrokenRight DEF NegoRecvFails, ReturnFailed, InLoop

\* An answer that does not end the negotiation: the next attempt, or none is left.  A
\* protocol that is shared must be left behind the one that was tried.
LEMMA FallBackRight ==
    ASSUME NegoRight, pc = "await", NEW en \in SUBSET enabled, NEW code, FallBack(en, code),
           enabled' = en, selected' \in Protocols, failureCode' \in Codes \cup {NoCode},
           kind # "freerdp" => en = enabled /\ selected' = "RDP",
           Complete /\ security \cap serverSecurity # {} =>
               \E q \in en \cap serverSecurity : q # "RDSTLS" /\ Rank[q] < Rank[state],
           UNCHANGED <<settings, requested, request, answer, peer, faulty>>
    PROVE  NegoRight'
<1> USE DEF NegoRight
<1>s. SettingsShape /\ SettingsShape'
  BY SettingsStay
<1>1. /\ state \in Protocols /\ en \in SUBSET Protocols /\ enabled \subseteq security
      /\ kind # "direct"
  BY DEF NegoInv, NegoTypeOK, LoopShape, LoopRight, InLoop
<1>2. ASSUME Complete, security \cap serverSecurity # {}
      PROVE  \E q \in Below(state) \cap en : q \in serverSecurity
  <2>1. PICK q \in en \cap serverSecurity : q # "RDSTLS" /\ Rank[q] < Rank[state]
    BY <1>2
  <2>2. q \in Protocols \ {"RDSAAD", "RDSTLS"}
    BY <1>1, <1>2, <2>1, <1>s DEF SettingsShape
  <2>3. QED
    BY <2>1, <2>2 DEF Below
<1>3. CASE Fallback(state, en) = "FAIL"
  <2>1. pc' = "done" /\ result' = "failed" /\ state' = "FINAL"
    BY <1>3 DEF FallBack, ReturnFailed
  <2>2. Below(state) \cap en = {}
    BY <1>1, <1>3, FallbackIs
  <2>3. Complete => security \cap serverSecurity = {}
    BY <1>2, <2>2
  <2>m. Misled' = Misled
    BY MisledStays
  <2>4. LoopShape'
    BY <1>1, <2>1 DEF LoopShape
  <2>5. NegoTypeOK'
    BY <1>1, <2>1 DEF NegoInv, NegoTypeOK, settings
  <2>6. NegotiatedAgreed' /\ SelectedPermitted' /\ ModeKnown'
    BY <2>1 DEF NegotiatedAgreed, SelectedPermitted, ModeKnown, Negotiated
  <2>7. FallbackFindsCommon'
    BY <1>1, <2>3, <2>m DEF FallbackFindsCommon, Complete, settings
  <2>8. StartRight' /\ LoopRight' /\ RequestRight' /\ AnswerRight' /\ CommonAhead'
    BY <2>1 DEF StartRight, LoopRight, RequestRight, AnswerRight, CommonAhead, InLoop
  <2>9. QED
    BY <1>s, <2>4, <2>5, <2>6, <2>7, <2>8 DEF NegoInv
<1>4. CASE Fallback(state, en) # "FAIL"
  <2>1. /\ pc' = "ready" /\ state' = Fallback(state, en)
        /\ result' = result /\ lastError' = lastError
    BY <1>4 DEF FallBack
  <2>2. /\ state' \in Below(state) \cap en
        /\ \A q \in Below(state) \cap en : Rank[q] <= Rank[state']
    BY <1>1, <1>4, <2>1, FallbackIs
  <2>3. state' \in Protocols /\ state' \in en
    BY <2>2 DEF Below
  <2>4. LoopShape'
    BY <1>1, <2>1 DEF LoopShape
  <2>5. NegoTypeOK'
    BY <1>1, <2>1, <2>3 DEF NegoInv, NegoTypeOK, settings
  <2>6. result' = "none"
    BY <2>1 DEF NegoInv, NegoTypeOK
  <2>7. NegotiatedAgreed' /\ SelectedPermitted' /\ ModeKnown' /\ FallbackFindsCommon'
    BY <2>1, <2>6 DEF NegotiatedAgreed, SelectedPermitted, ModeKnown, Negotiated,
                      FallbackFindsCommon
  <2>8. StartRight' /\ RequestRight' /\ AnswerRight'
    BY <2>1 DEF StartRight, RequestRight, AnswerRight
  <2>9. LoopRight'
    BY <1>1, <2>1, <2>2, <2>3 DEF LoopRight, InLoop, Below, settings
  <2>10. CommonAhead'
    <3>1. SUFFICES ASSUME Complete, security \cap serverSecurity # {}
                   PROVE  \E q \in enabled' \cap serverSecurity' : Rank[q] <= Rank[state']
      BY MisledStays DEF CommonAhead, settings
    <3>2. PICK q \in Below(state) \cap en : q \in serverSecurity
      BY <1>2, <3>1
    <3>3. QED
      BY <2>2, <3>2 DEF settings
  <2>11. QED
    BY <1>s, <2>4, <2>5, <2>7, <2>8, <2>9, <2>10 DEF NegoInv
<1>5. QED
  BY <1>3, <1>4

\* An answer that ends the negotiation with a protocol both ends permit.
LEMMA DecidedRight ==
    ASSUME NegoRight, pc = "await", pc' = "decided", state' = "FINAL",
           selected' \in security, peer.selected = selected',
           selected' # "RDP" /\ kind = "freerdp" =>
               peer.flags = clientFlags /\ (clientFlags = {"rcg"} => peer.rcg),
           UNCHANGED <<settings, enabled, requested, sendNegoData, failureCode, tcp, result,
                       lastError, request, answer, peer, faulty>>
    PROVE  NegoRight'
<1> USE DEF NegoRight
<1>s. SettingsShape /\ SettingsShape'
  BY SettingsStay
<1>1. result = "none" /\ tcp /\ selected' \in Protocols
  BY <1>s DEF NegoInv, NegoTypeOK, SettingsShape
<1>2. LoopShape'
  BY DEF LoopShape
<1>3. NegoTypeOK'
  BY <1>1 DEF NegoInv, NegoTypeOK, settings
<1>4. NegotiatedAgreed' /\ SelectedPermitted' /\ ModeKnown'
  BY <1>1 DEF NegotiatedAgreed, SelectedPermitted, ModeKnown, Negotiated, settings
<1>5. FallbackFindsCommon'
  BY <1>1 DEF FallbackFindsCommon
<1>6. StartRight' /\ LoopRight' /\ RequestRight' /\ AnswerRight' /\ CommonAhead'
  BY DEF StartRight, LoopRight, RequestRight, AnswerRight, CommonAhead, InLoop
<1>7. QED
  BY <1>s, <1>2, <1>3, <1>4, <1>5, <1>6 DEF NegoInv

\* nego_process_negotiation_response
LEMMA RecvResponseRight ==
    ASSUME NegoRight, RecvResponse
    PROVE  NegoRight'
<1> USE DEF NegoRight, RecvResponse
<1>s. SettingsShape /\ UNCHANGED settings
  BY DEF SettingsShape
<1>1. /\ state \in Protocols /\ state \in enabled /\ enabled \subseteq security
      /\ kind \in {"freerdp", "certless"}
      /\ request.protocols = RequestOf(state) /\ RequestOf(state) \in SUBSET (Protocols \ {"RDP"})
  BY RequestIs DEF NegoInv, NegoTypeOK, LoopRight, InLoop, RequestRight, AnswerRight
<1>2. answer.selected \in Protocols
  BY DEF LoopShape, Answers, NoAnswer
<1>3. kind = "certless" => answer.selected = "RDP" /\ serverSecurity = {"RDP"}
  BY <1>s DEF AnswerRight, SettingsShape
<1>4. kind = "freerdp" => /\ answer.selected = ServerSelects(RequestOf(state))
                          /\ peer.flags = request.flags
                          /\ request.flags = {"rcg"} => peer.rcg
  BY <1>1 DEF AnswerRight
<1>5. CASE Accepts(answer.selected)
  <2>1. answer.selected \in security
    <3>1. CASE answer.selected \in {"RDSAAD", "HYBRID", "SSL", "RDP"}
      BY <1>1, <1>5, <3>1 DEF Accepts
    <3>2. CASE answer.selected \in {"RDSTLS", "HYBRID_EX"}
      <4>1. kind = "freerdp"
        BY <1>1, <1>3, <3>2
      <4>2. answer.selected \in serverSecurity \cap RequestOf(state)
        BY <1>1, <1>4, <3>2, <4>1, <1>s, SelectsIs
      <4>3. answer.selected = "RDSTLS" /\ state = "RDSTLS"
        BY <1>1, <1>s, <3>2, <4>1, <4>2, RequestIs DEF SettingsShape
      <4>4. QED
        BY <1>1, <4>3
    <3>3. QED
      BY <1>2, <3>1, <3>2 DEF Protocols
  <2>2. peer.selected = selected'
    BY DEF AnswerRight
  <2>3. ASSUME selected' # "RDP", kind = "freerdp"
        PROVE  peer.flags = clientFlags /\ (clientFlags = {"rcg"} => peer.rcg)
    <3>1. RequestOf(state) # {}
      <4>1. answer.selected \in Protocols \ {"RDP"}
        BY <1>2, <2>3
      <4>2. answer.selected # "failed"
        BY <4>1 DEF Protocols
      <4>3. QED
        BY <1>1, <1>4, <1>s, <2>3, <4>1, <4>2, SelectsIs
    <3>2. request.flags = clientFlags
      BY <1>1, <3>1 DEF RequestRight
    <3>3. QED
      BY <1>4, <2>3, <3>2
  <2>4. QED
    BY <1>5, <2>1, <2>2, <2>3, DecidedRight
<1>6. CASE ~Accepts(answer.selected)
  <2>1. /\ answer.selected \in {"RDSAAD", "HYBRID", "SSL", "RDP"}
        /\ answer.selected \notin enabled
    BY <1>6 DEF Accepts
  <2>2. kind # "freerdp" => selected' = "RDP"
    BY <1>1, <1>3
  <2>3. ASSUME Complete, security \cap serverSecurity # {}
        PROVE  \E q \in enabled \cap serverSecurity : q # "RDSTLS" /\ Rank[q] < Rank[state]
    <3>1. PICK q \in enabled \cap serverSecurity : Rank[q] <= Rank[state]
      BY <2>3 DEF CommonAhead, InLoop
    <3>2. q \in Protocols
      BY <3>1 DEF LoopShape
    <3>3. q # state
      <4>1. CASE kind = "certless"
        BY <1>3, <2>1, <3>1, <4>1
      <4>2. CASE kind = "freerdp"
        <5>1. SUFFICES ASSUME q = state PROVE FALSE
          OBVIOUS
        <5>2. state \in {"RDSTLS", "HYBRID", "SSL", "RDP"}
          BY <1>s, <3>1, <4>2, <5>1 DEF SettingsShape
        <5>3. CASE state = "RDP"
          <6>1. RequestOf(state) = {}
            BY <1>1, <5>3, RequestIs
          <6>2. ServerSelects(RequestOf(state)) = "RDP"
            BY <3>1, <5>1, <5>3, <6>1 DEF ServerSelects
          <6>3. QED
            BY <1>1, <1>4, <2>1, <4>2, <5>3, <6>2
        <5>4. CASE state = "SSL"
          <6>1. RequestOf(state) = {"SSL"} /\ serverSecurity \cap RequestOf(state) # {}
            BY <1>1, <3>1, <5>1, <5>4, RequestIs
          <6>2. answer.selected \in serverSecurity \cap RequestOf(state)
            BY <1>1, <1>4, <1>s, <4>2, <6>1, SelectsIs
          <6>3. QED
            BY <1>1, <2>1, <5>4, <6>1, <6>2
        <5>5. CASE state = "HYBRID"
          <6>1. /\ RequestOf(state) = {"HYBRID", "SSL"}
                /\ "HYBRID" \in serverSecurity \cap RequestOf(state)
            BY <1>1, <3>1, <5>1, <5>5, RequestIs
          <6>2. /\ answer.selected \in serverSecurity \cap RequestOf(state)
                /\ Rank["HYBRID"] <= Rank[answer.selected]
            BY <1>1, <1>4, <1>s, <4>2, <6>1, SelectsIs
          <6>3. answer.selected = "HYBRID"
            BY <6>1, <6>2, RankOf
          <6>4. QED
            BY <1>1, <2>1, <5>5, <6>3
        <5>6. CASE state = "RDSTLS"
          <6>1. "RDSTLS" \in serverSecurity \cap RequestOf(state)
            BY <1>1, <3>1, <5>1, <5>6, RequestIs
          <6>2. Rank["RDSTLS"] <= Rank[answer.selected]
            BY <1>1, <1>4, <1>s, <4>2, <6>1, SelectsIs
          <6>3. answer.selected = "RDSAAD"
            BY <2>1, <6>2, RankOf
          <6>4. answer.selected \in serverSecurity
            BY <1>1, <1>4, <1>s, <4>2, <6>1, SelectsIs
          <6>5. QED
            BY <1>s, <4>2, <6>3, <6>4 DEF SettingsShape
        <5>7. QED
          BY <5>2, <5>3, <5>4, <5>5, <5>6
      <4>3. QED
        BY <1>1, <4>1, <4>2
    <3>4. q # "RDSTLS"
      <4>1. SUFFICES ASSUME q = "RDSTLS" PROVE FALSE
        OBVIOUS
      <4>2. kind = "freerdp"
        BY <1>1, <1>3, <3>1, <4>1
      <4>3. state = "RDSAAD"
        BY <1>1, <3>1, <3>3, <4>1, RankOf DEF Protocols
      <4>4. RequestOf(state) = {"RDSAAD"}
        BY <4>3 DEF RequestOf
      <4>5. serverSecurity \cap RequestOf(state) = {}
        BY <1>s, <4>2, <4>4 DEF SettingsShape
      <4>6. ServerSelects(RequestOf(state)) = "failed"
        BY <4>4, <4>5 DEF ServerSelects
      <4>7. QED
        BY <1>2, <1>4, <4>2, <4>6 DEF Protocols
    <3>5. QED
      BY <1>1, <3>1, <3>2, <3>3, <3>4, RankSeparates
  <2>4. failureCode \in Codes \cup {NoCode}
    BY DEF NegoInv, NegoTypeOK
  <2>5. FallBack(enabled, failureCode)
    BY <1>6
  <2>6. QED
    BY <1>2, <2>2, <2>3, <2>4, <2>5, FallBackRight
<1>7. QED
  BY <1>5, <1>6

\* nego_process_negotiation_failure
LEMMA RecvFailureRight ==
    ASSUME NegoRight, RecvFailure
    PROVE  NegoRight'
<1> USE DEF NegoRight, RecvFailure
<1>s. SettingsShape /\ UNCHANGED settings
  BY DEF SettingsShape
<1>1. /\ state \in Protocols /\ state \in enabled /\ enabled \subseteq security
      /\ kind \in {"freerdp", "certless"} /\ selected \in Protocols
      /\ request.protocols = RequestOf(state) /\ RequestOf(state) \in SUBSET (Protocols \ {"RDP"})
  BY RequestIs DEF NegoInv, NegoTypeOK, LoopRight, InLoop, RequestRight, AnswerRight
<1>2. answer.code \in Codes
  BY DEF LoopShape, Answers, NoAnswer
<1>3. enabled' \in SUBSET enabled
  BY DEF EnabledAfter
<1>4. kind = "certless" => enabled' = enabled /\ selected = "RDP" /\ RequestOf(state) # {}
  BY <1>1 DEF AnswerRight, LoopRight, InLoop, EnabledAfter
<1>5. ASSUME Complete, security \cap serverSecurity # {}
      PROVE  \E q \in enabled' \cap serverSecurity : q # "RDSTLS" /\ Rank[q] < Rank[state]
  <2>1. PICK q \in enabled \cap serverSecurity : Rank[q] <= Rank[state]
    BY <1>5 DEF CommonAhead, InLoop
  <2>2. q \in Protocols
    BY <2>1 DEF LoopShape
  <2>3. CASE kind = "certless"
    <3>1. q = "RDP" /\ state # "RDP"
      BY <1>1, <1>4, <1>s, <2>1, <2>3, RequestIs DEF SettingsShape
    <3>2. QED
      BY <1>1, <1>4, <2>1, <2>2, <2>3, <3>1, RankSeparates
  <2>4. CASE kind = "freerdp" /\ state \in {"RDSAAD", "RDSTLS"}
    <3>1. /\ answer.code = FailureCode /\ ServerSelects(RequestOf(state)) = "failed"
      BY <1>1, <2>4 DEF AnswerRight
    <3>2. /\ enabled = security
          /\ state = IF "RDSAAD" \in security THEN "RDSAAD" ELSE "RDSTLS"
      BY <1>1, <2>4 DEF LoopRight, InLoop
    <3>3. Required \in security \cap serverSecurity
      BY <1>1, <1>5, <2>4, <3>1, <3>2 DEF Complete, Misled
    <3>4. enabled' = enabled \cap {Required} /\ Required \in {"RDP", "HYBRID", "SSL"}
      BY <3>1 DEF EnabledAfter, FailureCode, Required
    <3>5. Rank[Required] < Rank[state]
      BY <2>4, <3>4, RankOf
    <3>6. QED
      BY <3>2, <3>3, <3>4, <3>5
  <2>5. CASE kind = "freerdp" /\ state \notin {"RDSAAD", "RDSTLS"}
    <3>1. /\ answer.code = FailureCode /\ ServerSelects(RequestOf(state)) = "failed"
      BY <1>1, <2>5 DEF AnswerRight
    <3>2. /\ serverSecurity \cap RequestOf(state) = {}
          /\ "RDP" \in serverSecurity => RequestOf(state) # {}
      BY <1>1, <1>s, <2>5, <3>1, SelectsIs
    <3>3. /\ q \in {"HYBRID", "SSL", "RDP"}
          /\ state \in {"HYBRID_EX", "HYBRID", "SSL", "RDP"}
      BY <1>1, <1>s, <2>1, <2>5, RankOf DEF SettingsShape, Protocols
    <3>4. q \notin RequestOf(state)
      BY <2>1, <3>2
    <3>5. q = "RDP"
      <4>1. CASE state \in {"HYBRID_EX", "HYBRID"}
        BY <1>1, <3>3, <3>4, <4>1, RequestIs
      <4>2. CASE state = "SSL"
        BY <1>1, <2>1, <3>3, <3>4, <4>2, RequestIs, RankOf
      <4>3. CASE state = "RDP"
        BY <2>1, <3>3, <4>3, RankOf
      <4>4. QED
        BY <3>3, <4>1, <4>2, <4>3
    <3>6. answer.code = "SSL_NOT_ALLOWED" /\ q \in enabled'
      BY <2>1, <3>1, <3>5 DEF FailureCode, EnabledAfter
    <3>7. state # "RDP"
      BY <1>1, <2>1, <3>2, <3>5, RequestIs
    <3>8. QED
      BY <1>1, <2>1, <2>2, <3>5, <3>6, <3>7, RankSeparates
  <2>6. QED
    BY <1>1, <2>3, <2>4, <2>5
<1>6. selected' = selected /\ failureCode' \in Codes \cup {NoCode}
  BY <1>2
<1>7. FallBack(enabled', answer.code)
  OBVIOUS
<1>8. QED
  BY <1>1, <1>3, <1>4, <1>5, <1>6, <1>7, FallBackRight

\* A connection confirm without rdpNegData.
LEMMA RecvConfirmRight ==
    ASSUME NegoRight, RecvConfirm
    PROVE  NegoRight'
<1> USE DEF NegoRight, RecvConfirm
<1>1. /\ kind \in {"none", "certless"} /\ peer.selected = "RDP" /\ selected = "RDP"
      /\ enabled = security /\ selected \in Protocols /\ failureCode \in Codes \cup {NoCode}
      /\ serverSecurity = {"RDP"} /\ UNCHANGED settings
  BY DEF AnswerRight, LoopRight, InLoop, NegoInv, NegoTypeOK, SettingsShape
<1>2. CASE "RDP" \in enabled
  BY <1>1, <1>2, DecidedRight
<1>3. CASE "RDP" \notin enabled
  <2>1. security \cap serverSecurity = {}
    BY <1>1, <1>3
  <2>2. FallBack(enabled, failureCode)
    BY <1>3
  <2>3. QED
    BY <1>1, <2>1, <2>2, FallBackRight
<1>4. QED
  BY <1>2, <1>3

\* The security layer is connected, or its handshake fails.
LEMMA SecurityConnectRight ==
    ASSUME NegoRight, SecurityConnect
    PROVE  NegoRight'
<1> USE DEF NegoRight, SecurityConnect
<1>s. UNCHANGED settings /\ SettingsShape /\ SettingsShape'
  BY SettingsStay
<1>1. /\ pc' = "done" /\ result' \in {"failed", "connected"}
      /\ result' = "failed" => lastError' = "AUTHENTICATION_FAILED"
  OBVIOUS
<1>2. Negotiated /\ UNCHANGED <<tcp, peer, selected>>
  BY DEF Negotiated
<1>3. LoopShape'
  BY <1>1 DEF LoopShape
<1>4. NegoTypeOK'
  BY <1>1, <1>s DEF NegoInv, NegoTypeOK, settings
<1>5. NegotiatedAgreed' /\ SelectedPermitted'
  BY <1>2, <1>s DEF NegoInv, NegotiatedAgreed, SelectedPermitted, settings
<1>6. ModeKnown'
  BY <1>2, <1>s DEF NegoInv, ModeKnown, settings
<1>7. FallbackFindsCommon'
  BY <1>1 DEF FallbackFindsCommon
<1>8. StartRight' /\ LoopRight' /\ RequestRight' /\ AnswerRight' /\ CommonAhead'
  BY <1>1 DEF StartRight, LoopRight, RequestRight, AnswerRight, CommonAhead, InLoop
<1>9. QED
  BY <1>s, <1>3, <1>4, <1>5, <1>6, <1>7, <1>8 DEF NegoInv

\* A step of the server while the client waits changes nothing the client keeps.
LEMMA AnsweredRight ==
    ASSUME NegoRight, pc = "await",
           answer' \in Answers,
           peer' \in [selected : Protocols \cup {"none", "failed"}, flags : SUBSET Flags,
                      rcg : BOOLEAN, open : BOOLEAN],
           AnswerRight',
           UNCHANGED <<settings, pc, state, enabled, requested, selected, sendNegoData,
                       failureCode, tcp, result, lastError, request>>
    PROVE  NegoRight'
<1> USE DEF NegoRight
<1>s. SettingsShape'
  BY SettingsStay
<1>1. result = "none"
  BY DEF NegoInv, NegoTypeOK
<1>2. LoopShape'
  BY DEF LoopShape
<1>3. NegoTypeOK'
  BY DEF NegoInv, NegoTypeOK, settings
<1>4. NegotiatedAgreed' /\ SelectedPermitted' /\ ModeKnown' /\ FallbackFindsCommon'
  BY <1>1 DEF NegotiatedAgreed, SelectedPermitted, ModeKnown, Negotiated, FallbackFindsCommon
<1>5. StartRight'
  BY DEF StartRight
<1>6. LoopRight' /\ RequestRight'
  BY DEF LoopRight, RequestRight, InLoop, settings
<1>7. CommonAhead'
  BY MisledStays DEF CommonAhead, InLoop, settings
<1>8. QED
  BY <1>s, <1>2, <1>3, <1>4, <1>5, <1>6, <1>7 DEF NegoInv

\* rdp_server_accept_nego
LEMMA ServerAcceptRight ==
    ASSUME NegoRight, ServerAccept
    PROVE  NegoRight'
<1> DEFINE s == ServerSelects(request.protocols)
<1>1. /\ SettingsShape /\ pc = "await" /\ kind = "freerdp" /\ FlagsTaken(request.flags)
      /\ state \in Protocols /\ request.protocols = RequestOf(state)
  BY DEF NegoRight, NegoInv, NegoTypeOK, RequestRight, ServerAccept
<1>2. request.protocols \in SUBSET (Protocols \ {"RDP"})
  BY <1>1, RequestIs
<1>3. s \in Protocols \cup {"failed"} /\ (s # "failed" => s \in Protocols)
  BY <1>1, <1>2, SelectsIs
<1>4. request.flags \in SUBSET Flags
  <2>1. request.sent /\ request \in Requests
    BY <1>1 DEF NegoRight, LoopShape, RequestRight
  <2>2. request # NoRequest
    BY <2>1 DEF NoRequest
  <2>3. request \in [sent : {TRUE}, negData : BOOLEAN,
                     protocols : SUBSET Protocols, flags : SUBSET Flags]
    BY <2>1, <2>2 DEF Requests
  <2>4. QED
    BY <2>3
<1>5. FailureCode \in Codes
  BY DEF FailureCode, Codes
<1>6. answer' = IF s = "failed" THEN [type |-> "FAILURE", code |-> FailureCode]
                               ELSE [type |-> "RSP", selected |-> s]
  BY DEF ServerAccept
<1>7. PICK key \in BOOLEAN :
          peer' = [selected |-> s, flags |-> request.flags,
                   rcg |-> "rcg" \in request.flags \cap serverFlags,
                   open |-> s # "failed" /\ (s = "RDP" => key)]
  BY DEF ServerAccept
<1>u. UNCHANGED <<settings, pc, state, enabled, requested, selected, sendNegoData,
                  failureCode, tcp, result, lastError, request>>
  BY DEF ServerAccept
<1>8. answer' \in Answers
  BY <1>3, <1>5, <1>6 DEF Answers
<1>9. peer' \in [selected : Protocols \cup {"none", "failed"}, flags : SUBSET Flags,
                 rcg : BOOLEAN, open : BOOLEAN]
  BY <1>3, <1>4, <1>7
<1>10. request.flags = {"rcg"} => "rcg" \in request.flags \cap serverFlags
  BY <1>1 DEF FlagsTaken
<1>11. s' = s /\ FailureCode' = FailureCode
  BY <1>u DEF ServerSelects, FailureCode, settings
<1>12. AnswerRight'
  <2>1. CASE s = "failed"
    <3>1. answer' = [type |-> "FAILURE", code |-> FailureCode]
      BY <1>6, <2>1
    <3>2. answer'.type = "FAILURE" /\ answer'.code = FailureCode'
      BY <3>1, <1>11
    <3>3. kind' = "freerdp"
      BY <1>1, <1>u DEF settings
    <3>4. QED
      BY <3>2, <3>3, <2>1, <1>11 DEF AnswerRight
  <2>2. CASE s # "failed"
    <3>1. answer' = [type |-> "RSP", selected |-> s]
      BY <1>6, <2>2
    <3>2. answer'.type = "RSP" /\ answer'.selected = s'
      BY <3>1, <1>11
    <3>3. /\ kind' = "freerdp" /\ request' = request
      BY <1>1, <1>u DEF settings
    <3>4. /\ peer'.selected = answer'.selected /\ peer'.flags = request'.flags
          /\ request'.flags = {"rcg"} => peer'.rcg
      BY <1>7, <1>10, <1>11, <3>2, <3>3
    <3>5. QED
      BY <3>2, <3>3, <3>4 DEF AnswerRight
  <2>3. QED
    BY <2>1, <2>2
<1>13. QED
  BY <1>1, <1>u, <1>8, <1>9, <1>12, AnsweredRight

LEMMA ServerRefusesRight ==
    ASSUME NegoRight, ServerRefuses
    PROVE  NegoRight'
<1>1. /\ pc = "await" /\ answer = NoAnswer /\ answer' = NoAnswer
      /\ UNCHANGED <<settings, pc, state, enabled, requested, selected, sendNegoData,
                     failureCode, tcp, result, lastError, request>>
  BY DEF ServerRefuses
<1>2. peer' \in [selected : Protocols \cup {"none", "failed"}, flags : SUBSET Flags,
                 rcg : BOOLEAN, open : BOOLEAN]
  BY DEF ServerRefuses, NegoRight, LoopShape
<1>3. AnswerRight'
  BY <1>1 DEF AnswerRight, NoAnswer
<1>4. answer' \in Answers
  BY <1>1 DEF Answers
<1>5. QED
  BY <1>1, <1>2, <1>3, <1>4, AnsweredRight

LEMMA ServerConfirmsRight ==
    ASSUME NegoRight, ServerConfirms
    PROVE  NegoRight'
<1>1. /\ pc = "await" /\ kind = "none" /\ answer' = [type |-> "CONFIRM"]
      /\ UNCHANGED <<settings, pc, state, enabled, requested, selected, sendNegoData,
                     failureCode, tcp, result, lastError, request>>
  BY DEF ServerConfirms
<1>2. /\ peer' \in [selected : Protocols \cup {"none", "failed"}, flags : SUBSET Flags,
                    rcg : BOOLEAN, open : BOOLEAN]
      /\ peer'.selected = "RDP"
  BY DEF ServerConfirms, NegoRight, LoopShape, Protocols
<1>3. AnswerRight'
  BY <1>1, <1>2 DEF AnswerRight, settings
<1>4. answer' \in Answers
  BY <1>1 DEF Answers
<1>5. QED
  BY <1>1, <1>2, <1>3, <1>4, AnsweredRight

LEMMA ServerWithoutCertificateRight ==
    ASSUME NegoRight, ServerWithoutCertificate
    PROVE  NegoRight'
<1>1. /\ pc = "await" /\ kind = "certless"
      /\ UNCHANGED <<settings, pc, state, enabled, requested, selected, sendNegoData,
                     failureCode, tcp, result, lastError, request>>
  BY DEF ServerWithoutCertificate
<1>2. kind' = "certless" /\ request' = request
  BY <1>1 DEF settings
<1>3. CASE request.protocols # {}
  <2>1. PICK code \in {"SSL_CERT_NOT_ON_SERVER", "INCONSISTENT_FLAGS"} :
            answer' = [type |-> "FAILURE", code |-> code]
    BY <1>3 DEF ServerWithoutCertificate
  <2>2. peer' \in [selected : Protocols \cup {"none", "failed"}, flags : SUBSET Flags,
                   rcg : BOOLEAN, open : BOOLEAN]
    BY <1>3 DEF ServerWithoutCertificate, NegoRight, LoopShape
  <2>3. answer' \in Answers
    BY <2>1 DEF Answers, Codes
  <2>4. AnswerRight'
    BY <1>2, <1>3, <2>1 DEF AnswerRight
  <2>5. QED
    BY <1>1, <2>2, <2>3, <2>4, AnsweredRight
<1>4. CASE request.protocols = {}
  <2>1. answer' \in {[type |-> "RSP", selected |-> "RDP"], [type |-> "CONFIRM"]}
    BY <1>4 DEF ServerWithoutCertificate
  <2>2. /\ peer' \in [selected : Protocols \cup {"none", "failed"}, flags : SUBSET Flags,
                      rcg : BOOLEAN, open : BOOLEAN]
        /\ peer'.selected = "RDP"
    BY <1>4 DEF ServerWithoutCertificate, NegoRight, LoopShape, Protocols
  <2>3. answer' \in Answers
    BY <2>1 DEF Answers, Protocols
  <2>4. AnswerRight'
    BY <1>2, <2>1, <2>2 DEF AnswerRight
  <2>5. QED
    BY <1>1, <2>2, <2>3, <2>4, AnsweredRight
<1>5. QED
  BY <1>3, <1>4

\* nego_connect has returned, or nothing happens.
LEMMA StutterRight ==
    ASSUME NegoRight, UNCHANGED vars
    PROVE  NegoRight'
<1> USE DEF NegoRight, vars, settings
<1>1. SettingsShape' /\ LoopShape' /\ StartRight'
  BY DEF SettingsShape, LoopShape, StartRight
<1>2. NegoInv'
  BY DEF NegoInv, NegoTypeOK, NegotiatedAgreed, ModeKnown, Negotiated
<1>3. SelectedPermitted' /\ FallbackFindsCommon'
  BY MisledStays DEF SelectedPermitted, FallbackFindsCommon, Negotiated
<1>4. LoopRight' /\ RequestRight' /\ CommonAhead'
  BY MisledStays DEF LoopRight, RequestRight, CommonAhead, InLoop
<1>5. AnswerRight'
  BY DEF AnswerRight, ServerSelects, FailureCode
<1>6. QED
  BY <1>1, <1>2, <1>3, <1>4, <1>5

-----------------------------------------------------------------------------
(* The theorems *)

\* NegoRight holds from attempt to attempt, whatever the kind of server answers.
THEOREM NegoRightTheorem == Spec => []NegoRight
<1>1. Init => NegoRight
  BY InitRight
<1>2. NegoRight /\ [Next]_vars => NegoRight'
  <2> SUFFICES ASSUME NegoRight, [Next]_vars PROVE NegoRight'
    OBVIOUS
  <2>1. CASE NegoConnect BY <2>1, NegoConnectRight
  <2>2. CASE NegoConnectFails BY <2>2, NegoConnectFailsRight
  <2>3. CASE Attempt BY <2>3, AttemptRight
  <2>4. CASE AttemptFails BY <2>4, AttemptFailsRight
  <2>5. CASE RecvResponse BY <2>5, RecvResponseRight
  <2>6. CASE RecvFailure BY <2>6, RecvFailureRight
  <2>7. CASE RecvConfirm BY <2>7, RecvConfirmRight
  <2>8. CASE NegoRecvFails BY <2>8, RecvFailsRight
  <2>9. CASE SecurityConnect BY <2>9, SecurityConnectRight
  <2>10. CASE ServerAccept BY <2>10, ServerAcceptRight
  <2>11. CASE ServerRefuses BY <2>11, ServerRefusesRight
  <2>12. CASE ServerConfirms BY <2>12, ServerConfirmsRight
  <2>13. CASE ServerWithoutCertificate BY <2>13, ServerWithoutCertificateRight
  <2>14. CASE UNCHANGED vars BY <2>14, StutterRight
  <2>15. QED
    BY <2>1, <2>2, <2>3, <2>4, <2>5, <2>6, <2>7, <2>8, <2>9, <2>10, <2>11, <2>12, <2>13, <2>14
       DEF Next, Client, Server, Returned
<1>3. QED
  BY <1>1, <1>2, PTL DEF Spec

\* When nego_connect goes on to the security layer, the server at the other end of the
\* connection that is open has selected that protocol and knows the modes that are required.
THEOREM AgreementTheorem == Spec => []NegoInv
<1>1. NegoRight => NegoInv
  BY DEF NegoRight
<1>2. QED
  BY <1>1, NegoRightTheorem, PTL

\* nego_connect goes on only with a protocol the user's settings enable.
THEOREM PermittedTheorem == Spec => []SelectedPermitted
<1>1. NegoRight => SelectedPermitted
  BY DEF NegoRight
<1>2. QED
  BY <1>1, NegoRightTheorem, PTL

\* nego_connect fails only if the two ends share no protocol, a connection broke, the security
\* layer's handshake failed, or the client tried AAD or RDSTLS with a FreeRDP server whose
\* failure code made it disable what the two share (nego_process_negotiation_failure).
THEOREM FallbackTheorem == Spec => []FallbackFindsCommon
<1>1. NegoRight => FallbackFindsCommon
  BY DEF NegoRight
<1>2. QED
  BY <1>1, NegoRightTheorem, PTL

-----------------------------------------------------------------------------
\* Type correctness of the client.

\* The PDUs without a payload that the client sends.
LEMMA ClientPlainPdus ==
    \A type \in {"ErectDomain", "AttachUserRequest", "SecurityExchange", "ClientInfo", "Input"}
                  \cup (ClientLicenseTypes \ {"ErrorAlert"})
                  \cup ClientMessageTypes \cup ClientDataTypes :
        Pdu(type) \in ClientPdus
BY DEF Pdu, ClientPdus

LEMMA ClientSendType ==
    ASSUME cOut \in Seq(ClientPdus), NEW pdus \in Seq(ClientPdus), ClientSend(pdus)
    PROVE  cOut' \in Seq(ClientPdus)
BY DEF ClientSend

LEMMA ClientSendOneType ==
    ASSUME cOut \in Seq(ClientPdus), NEW p \in ClientPdus, cOut' = cOut \o <<p>>
    PROVE  cOut' \in Seq(ClientPdus)
OBVIOUS

LEMMA ClientReplyType ==
    /\ \A p : MessageReply(p) \in Seq(ClientPdus)
    /\ \A p : LicenseReply(p) \in Seq(ClientPdus)
    /\ ClientInfoPdus \in Seq(ClientPdus)
<1>1. \A p : LicenseReply(p) \in Seq(ClientPdus)
  BY ClientPlainPdus DEF LicenseReply, ClientLicenseTypes
<1>2. \A p : MessageReply(p) \in Seq(ClientPdus)
  BY <1>1, ClientPlainPdus DEF MessageReply, ClientMessageTypes
<1>3. ClientInfoPdus \in Seq(ClientPdus)
  BY ClientPlainPdus DEF ClientInfoPdus
<1>4. QED
  BY <1>1, <1>2, <1>3

LEMMA ConnectInitialType ==
    ASSUME cSettings \in ClientSettings
    PROVE  ConnectInitial \in ClientPdus
BY DEF ConnectInitial, ClientPdus, ClientCaps, ClientSettings

LEMMA ExpectedType == \A joined : Expected(joined) \subseteq Channels
BY DEF Expected, Channels

\* license_client_recv, on either channel.
LEMMA LicenseAfterType ==
    ASSUME ClientTypeOK, NEW p, ~LicenseFails(p)
    PROVE  LicenseAfter(p) \in LicenseStates
BY DEF LicenseFails, LicenseAfter, AfterAlert, LicenseStates, ClientTypeOK

LEMMA MessageLicenseType ==
    ASSUME ClientTypeOK, cPdu.type = "LicenseMessage" => ~MessageFails(cPdu)
    PROVE  MessageLicense(cPdu) \in LicenseStates
BY LicenseAfterType DEF MessageLicense, MessageFails, ClientTypeOK

\* What rdp_recv_pdu leaves behind, whatever state the caller moves to.
LEMMA RecvType ==
    ASSUME ClientTypeOK, cPdu.type = "LicenseMessage" => ~RecvFails(cPdu),
           cFinalize' = FinalizeAfter(cPdu), cMonitorLayout' = MonitorLayoutAfter(cPdu),
           cLicense' = MessageLicense(cPdu),
           ClientSend(MessageReply(cPdu)),
           UNCHANGED <<cJoined, cMessageChannel, cSettings>>,
           cState' \in ConnectionStates, cRun' \in ClientRunStates,
           cPdu' \in ServerPdus \cup {NoPdu}
    PROVE  ClientTypeOK'
<1>1. cFinalize' \subseteq ServerFlags \cup {"DEACTIVATE_REACTIVATE"}
  <2>1. \A type \in DOMAIN ScFlag : ScFlag[type] \in ServerFlags
    BY DEF ScFlag, ServerFlags
  <2>2. QED
    BY <2>1 DEF ClientTypeOK, FinalizeAfter
<1>2. cMonitorLayout' \in BOOLEAN
  BY DEF ClientTypeOK, MonitorLayoutAfter
<1>3. cOut' \in Seq(ClientPdus)
  BY ClientSendType, ClientReplyType DEF ClientTypeOK
<1>4. cLicense' \in LicenseStates
  BY MessageLicenseType DEF RecvFails, OnMessageChannel, ServerMessageTypes
<1>5. QED
  BY <1>1, <1>2, <1>3, <1>4 DEF ClientTypeOK

\* The client's state keeps its type, whatever the server sends: in particular only flags of
\* server PDUs get into finalize_sc_pdus and only announced channel ids into the joined set.
THEOREM ClientTypeTheorem == ClientOpenSpec => []ClientTypeOK
<1>1. ClientOpenInit => ClientTypeOK
  <2> SUFFICES ASSUME ClientOpenInit PROVE ClientTypeOK
    OBVIOUS
  <2>1. cState \in ConnectionStates
    BY DEF ClientOpenInit, ClientInit, ConnectionStates, LicensingOrEarlier, McsStates
  <2>2. cOut \in Seq(ClientPdus)
    BY DEF ClientOpenInit, ClientInit
  <2>3. QED
    BY <2>1, <2>2, ClientConfigsAssumption
       DEF ClientOpenInit, ClientInit, ClientTypeOK, ClientRunStates, LicenseStates
<1>2. ClientTypeOK /\ [ClientOpenNext]_clientOpenVars => ClientTypeOK'
  <2> SUFFICES ASSUME ClientTypeOK, [ClientOpenNext]_clientOpenVars
               PROVE  ClientTypeOK'
    OBVIOUS
  <2> USE DEF ClientIn, ClientRunStates
  <2>0. /\ LicensingOrEarlier \subseteq ConnectionStates
        /\ CapabilityStates \subseteq ConnectionStates
        /\ FinalizationStates \subseteq ConnectionStates
        /\ ClientFinalizationStates \subseteq ConnectionStates
        /\ "ACTIVE" \in ConnectionStates
    BY DEF ConnectionStates
  <2>r. ClientReject => ClientTypeOK'
    BY DEF ClientReject, ClientFail, ClientTypeOK
  <2>1. CASE ClientStep
    <3>1. CASE ClientBegin
      BY <2>0, <3>1 DEF ClientBegin, ClientContinue, ClientTypeOK, LicensingOrEarlier, McsStates
    <3>2. CASE ClientMcsCreateRequest
      <4>1. cOut' \in Seq(ClientPdus)
        BY <3>2, ClientSendOneType, ConnectInitialType
           DEF ClientMcsCreateRequest, ClientSend, ClientTypeOK
      <4>2. QED
        BY <2>0, <3>2, <4>1
           DEF ClientMcsCreateRequest, ClientSuccess, ClientTypeOK, LicensingOrEarlier, McsStates
    <3>3. CASE ClientMcsCreateResponse
      <4>1. CASE cPdu.type = "ConnectResponse"
        <5>1. cPdu.caps \in ServerCaps
          BY <4>1 DEF ClientTypeOK, ServerPdus, NoPdu, Pdu, AlertPdus, ServerLicenseTypes,
                      ServerMessageTypes, ServerDataTypes
        <5>2. cSettings' \in ClientSettings
          BY <3>3, <4>1, <5>1 DEF ClientMcsCreateResponse, ClientTypeOK, ClientSettings
        <5>3. cMessageChannel' \in BOOLEAN
          BY <3>3, <4>1, <5>1 DEF ClientMcsCreateResponse, ServerCaps
        <5>4. cOut' \in Seq(ClientPdus)
          <6>1. <<Pdu("ErectDomain"), Pdu("AttachUserRequest")>> \in Seq(ClientPdus)
            BY ClientPlainPdus
          <6>2. QED
            BY <3>3, <4>1, <6>1 DEF ClientMcsCreateResponse, ClientSend, ClientTypeOK
        <5>5. QED
          BY <2>0, <3>3, <4>1, <5>2, <5>3, <5>4
             DEF ClientMcsCreateResponse, ClientSuccess, ClientTypeOK, LicensingOrEarlier, McsStates
      <4>2. CASE cPdu.type # "ConnectResponse"
        BY <2>r, <3>3, <4>2 DEF ClientMcsCreateResponse
      <4>3. QED
        BY <4>1, <4>2
    <3>j. ASSUME JoinNextOrSendInfo(cJoined')
          PROVE  cState' \in ConnectionStates /\ cOut' \in Seq(ClientPdus)
      <4>1. CASE Expected(cJoined') = {}
        BY <2>0, <3>j, <4>1, ClientSendType, ClientReplyType
           DEF JoinNextOrSendInfo, ClientTypeOK, LicensingOrEarlier, McsStates
      <4>2. CASE Expected(cJoined') # {}
        <5>1. PICK c \in Expected(cJoined') : ClientSend(<<JoinRequest(c)>>)
          BY <3>j, <4>2 DEF JoinNextOrSendInfo
        <5>2. JoinRequest(c) \in ClientPdus
          BY ExpectedType DEF JoinRequest, ClientPdus
        <5>3. QED
          BY <2>0, <3>j, <4>2, <5>1, <5>2, ClientSendOneType
             DEF JoinNextOrSendInfo, ClientSend, ClientTypeOK, LicensingOrEarlier, McsStates
      <4>3. QED
        BY <4>1, <4>2
    <3>4. CASE ClientAttachUserConfirm
      <4>1. CASE cPdu.type = "AttachUserConfirm"
        BY <3>j, <3>4, <4>1 DEF ClientAttachUserConfirm, ClientSuccess, ClientTypeOK
      <4>2. CASE cPdu.type # "AttachUserConfirm"
        BY <2>r, <3>4, <4>2 DEF ClientAttachUserConfirm
      <4>3. QED
        BY <4>1, <4>2
    <3>5. CASE ClientChannelJoinConfirm
      <4>1. CASE cPdu.type = "ChannelJoinConfirm" /\ cPdu.channelId \in Expected(cJoined)
        BY <3>j, <3>5, <4>1, ExpectedType
           DEF ClientChannelJoinConfirm, ClientSuccess, ClientTypeOK
      <4>2. CASE ~(cPdu.type = "ChannelJoinConfirm" /\ cPdu.channelId \in Expected(cJoined))
        BY <2>r, <3>5, <4>2 DEF ClientChannelJoinConfirm
      <4>3. QED
        BY <4>1, <4>2
    <3>6. CASE \/ ClientAutoDetect("CONNECT_TIME_AUTO_DETECT_REQUEST", "LICENSING")
               \/ ClientAutoDetect("MULTITRANSPORT_BOOTSTRAPPING_REQUEST",
                                   "CAPABILITIES_EXCHANGE_DEMAND_ACTIVE")
      <4>1. cOut' \in Seq(ClientPdus)
        BY <3>6, ClientSendType, ClientReplyType DEF ClientAutoDetect, ClientTypeOK
      <4>2. cLicense' \in LicenseStates
        BY <3>6, MessageLicenseType DEF ClientAutoDetect, ClientTypeOK
      <4>3. QED
        BY <2>0, <3>6, <4>1, <4>2 DEF ClientAutoDetect, ClientSuccess, ClientTryAgain, ClientTypeOK,
                                LicensingOrEarlier, McsStates, CapabilityStates
    <3>7. CASE ClientLicensing
      <4>1. cOut' \in Seq(ClientPdus)
        BY <3>7, ClientSendType, ClientReplyType DEF ClientLicensing, ClientTypeOK
      <4>2. cLicense' \in LicenseStates
        BY <3>7, LicenseAfterType, MessageLicenseType DEF ClientLicensing, ClientTypeOK
      <4>3. \A license : LicensedState(license) \in ConnectionStates
        BY <2>0 DEF LicensedState, CapabilityStates, ClientTypeOK
      <4>4. QED
        BY <3>7, <4>1, <4>2, <4>3 DEF ClientLicensing, ClientSuccess, ClientFail, ClientTypeOK
    <3>9. CASE ClientDemandActive
      BY <2>0, <2>r, <3>9, RecvType
         DEF ClientDemandActive, RecvPdu, RecvReturns, ClientContinue, ClientQuit, ClientSuccess,
             CapabilityStates, ClientTypeOK
    <3>10. CASE ClientConfirmActive
      <4>1. [type |-> "ConfirmActive", persist |-> cSettings.persist] \in ClientPdus
        BY DEF ClientTypeOK, ClientSettings, ClientPdus
      <4>2. cOut' \in Seq(ClientPdus)
        BY <3>10, <4>1, ClientSendOneType DEF ClientConfirmActive, ClientSend, ClientTypeOK
      <4>3. QED
        BY <2>0, <3>10, <4>2
           DEF ClientConfirmActive, ResetFinalizeFlags, ClientSuccess, ClientContinue,
               ClientTypeOK, CapabilityStates, FinalizationStates
    <3>s. StateAfter(cPdu) \in ConnectionStates
      BY <2>0 DEF StateAfter, ClientTypeOK, CapabilityStates
    <3>11. CASE ClientMonitorLayout
      BY <2>0, <2>r, <3>s, <3>11, RecvType
         DEF ClientMonitorLayout, RecvPdu, RecvReturns, ClientTryAgain, ClientFail, ClientQuit,
             ClientSuccess, FinalizationStates, ClientTypeOK
    <3>12. CASE SendSynchronize \/ SendCooperate \/ SendRequestControl \/ SendPersistentKeyList
      <4>1. cOut' \in Seq(ClientPdus)
        BY <3>12, ClientSendOneType, ClientPlainPdus
           DEF SendSynchronize, SendCooperate, SendRequestControl, SendPersistentKeyList,
               SendFinalizePdu, ClientSend, ClientTypeOK, ClientDataTypes
      <4>2. QED
        BY <2>0, <3>12, <4>1
           DEF SendSynchronize, SendCooperate, SendRequestControl, SendPersistentKeyList,
               SendFinalizePdu, ClientTypeOK, FinalizationStates
    <3>13. CASE SendFontList
      <4>1. cOut' \in Seq(ClientPdus)
        BY <3>13, ClientSendOneType, ClientPlainPdus
           DEF SendFontList, ClientSend, ClientTypeOK, ClientDataTypes
      <4>2. QED
        BY <2>0, <3>13, <4>1 DEF SendFontList, ResetFinalizeFlags, ClientSuccess, ClientTryAgain,
                                 ClientTypeOK, ClientFinalizationStates
    <3>14. CASE \/ ClientFinalizeSync \/ ClientFinalizeCooperate
                \/ ClientFinalizeGrantedControl \/ ClientFinalizeFontMap
      BY <2>0, <2>r, <3>s, <3>14, RecvType
         DEF ClientFinalizeSync, ClientFinalizeCooperate, ClientFinalizeGrantedControl,
             ClientFinalizeFontMap, HandleScFlags, RecvPdu, RecvReturns, ClientQuit,
             ClientSuccess, ClientFinalizationStates
    <3>15. CASE ClientActive
      BY <2>r, <3>s, <3>15, RecvType
         DEF ClientActive, RecvPdu, RecvReturns, ClientQuit, ClientSuccess
    <3>16. QED
      BY <2>1, <3>1, <3>2, <3>3, <3>4, <3>5, <3>6, <3>7, <3>9, <3>10, <3>11, <3>12, <3>13,
         <3>14, <3>15 DEF ClientStep
  <2>2. CASE ClientOpenReceive
    BY <2>2 DEF ClientOpenReceive, ClientReceive, ClientTypeOK
  <2>3. CASE ClientOpenInput
    <3>1. cOut' \in Seq(ClientPdus)
      BY <2>3, ClientSendOneType, ClientPlainPdus
         DEF ClientOpenInput, ClientInput, ClientSend, ClientTypeOK
    <3>2. QED
      BY <2>3, <3>1 DEF ClientOpenInput, ClientInput, ClientTypeOK
  <2>4. CASE ClientOpenDrain
    BY <2>4 DEF ClientOpenDrain, ClientTypeOK
  <2>5. CASE ClientOpenReset
    <3>1. cState' \in ConnectionStates /\ cOut' \in Seq(ClientPdus)
      BY <2>0, <2>5 DEF ClientOpenReset, ClientReset, LicensingOrEarlier, McsStates
    <3>2. QED
      BY <2>5, <3>1 DEF ClientOpenReset, ClientReset, ClientTypeOK, LicenseStates
  <2>6. CASE UNCHANGED clientOpenVars
    BY <2>6 DEF clientOpenVars, clientVars, ClientTypeOK
  <2>7. QED
    BY <2>1, <2>2, <2>3, <2>4, <2>5, <2>6 DEF ClientOpenNext, ClientOpenStep
<1>3. QED
  BY <1>1, <1>2, PTL DEF ClientOpenSpec

-----------------------------------------------------------------------------
\* No capability exchange without a completed licensing phase: only ClientLicensing, which
\* rdp_client_connect_license is, leaves the states up to LICENSING, and only when a PDU of the
\* phase itself has completed it.
THEOREM LicenseTheorem == ClientOpenSpec => []CapabilitiesAfterLicense
<1>1. ClientOpenInit => CapabilitiesAfterLicense
  BY DEF ClientOpenInit, ClientInit, CapabilitiesAfterLicense, LicensingOrEarlier, McsStates
<1>2. CapabilitiesAfterLicense /\ [ClientOpenNext]_clientOpenVars => CapabilitiesAfterLicense'
  <2> SUFFICES ASSUME CapabilitiesAfterLicense, [ClientOpenNext]_clientOpenVars
               PROVE  CapabilitiesAfterLicense'
    OBVIOUS
  <2> USE DEF CapabilitiesAfterLicense, LicensingOrEarlier, McsStates, ClientIn, ClientReject
  <2>1. CASE ClientOpenStep
    <3> cLicensed' = (cLicensed \/ cLicense' = "COMPLETED")
      BY <2>1 DEF ClientOpenStep
    <3>1. CASE ClientBegin
      BY <3>1 DEF ClientBegin
    <3>2. CASE ClientMcsCreateRequest
      BY <3>2 DEF ClientMcsCreateRequest
    <3>3. CASE ClientMcsCreateResponse
      BY <3>3 DEF ClientMcsCreateResponse
    <3>4. CASE ClientAttachUserConfirm
      BY <3>4 DEF ClientAttachUserConfirm, JoinNextOrSendInfo
    <3>5. CASE ClientChannelJoinConfirm
      BY <3>5 DEF ClientChannelJoinConfirm, JoinNextOrSendInfo
    <3>6. CASE ClientAutoDetect("CONNECT_TIME_AUTO_DETECT_REQUEST", "LICENSING")
      BY <3>6 DEF ClientAutoDetect
    <3>7. CASE ClientLicensing
      BY <3>7 DEF ClientLicensing, LicensedState
    <3>8. CASE ClientAutoDetect("MULTITRANSPORT_BOOTSTRAPPING_REQUEST",
                                "CAPABILITIES_EXCHANGE_DEMAND_ACTIVE")
      BY <3>8 DEF ClientAutoDetect
    <3>9. CASE ClientDemandActive
      BY <3>9 DEF ClientDemandActive, RecvPdu
    <3>10. CASE ClientConfirmActive
      BY <3>10 DEF ClientConfirmActive
    <3>11. CASE ClientMonitorLayout
      BY <3>11 DEF ClientMonitorLayout, RecvPdu, StateAfter
    <3>12. CASE SendSynchronize \/ SendCooperate \/ SendRequestControl \/ SendPersistentKeyList
      BY <3>12 DEF SendSynchronize, SendCooperate, SendRequestControl, SendPersistentKeyList,
                   SendFinalizePdu
    <3>13. CASE SendFontList
      BY <3>13 DEF SendFontList
    <3>14. CASE \/ ClientFinalizeSync \/ ClientFinalizeCooperate
                \/ ClientFinalizeGrantedControl \/ ClientFinalizeFontMap
      BY <3>14 DEF ClientFinalizeSync, ClientFinalizeCooperate, ClientFinalizeGrantedControl,
                   ClientFinalizeFontMap, HandleScFlags, RecvPdu, StateAfter
    <3>15. CASE ClientActive
      BY <3>15 DEF ClientActive, RecvPdu, StateAfter
    <3>16. QED
      BY <2>1, <3>1, <3>2, <3>3, <3>4, <3>5, <3>6, <3>7, <3>8, <3>9, <3>10, <3>11, <3>12,
         <3>13, <3>14, <3>15 DEF ClientOpenStep, ClientStep
  <2>2. CASE ClientOpenReceive \/ ClientOpenInput
    BY <2>2 DEF ClientOpenReceive, ClientReceive, ClientOpenInput, ClientInput
  <2>3. CASE ClientOpenDrain
    BY <2>3 DEF ClientOpenDrain
  <2>4. CASE ClientOpenReset
    BY <2>4 DEF ClientOpenReset, ClientReset
  <2>5. CASE UNCHANGED clientOpenVars
    BY <2>5 DEF clientOpenVars, clientVars
  <2>6. QED
    BY <2>1, <2>2, <2>3, <2>4, <2>5 DEF ClientOpenNext
<1>3. QED
  BY <1>1, <1>2, PTL DEF ClientOpenSpec

-----------------------------------------------------------------------------
\* rdp_recv_pdu sets no flag but that of the PDU it processes, which is then heard.
LEMMA ClientFlagsAfterHeard ==
    ASSUME cFinalize \cap ServerFlags \subseteq cHeard,
           cHeard' = IF cPdu.type \in DOMAIN ScFlag THEN cHeard \cup {ScFlag[cPdu.type]} ELSE cHeard
    PROVE  FinalizeAfter(cPdu) \cap ServerFlags \subseteq cHeard'
BY DEF FinalizeAfter, ServerFlags

\* The flags the client acts upon were set since its last Confirm Active, so that it is active
\* only after the whole finalization.
THEOREM ActiveTheorem == ClientOpenSpec => []ActiveAfterFinalization
<1>1. ClientOpenInit => FinalizationInv
  BY DEF ClientOpenInit, ClientInit, FinalizationInv, ScFlagsBefore
<1>2. FinalizationInv /\ [ClientOpenNext]_clientOpenVars => FinalizationInv'
  <2> SUFFICES ASSUME FinalizationInv, [ClientOpenNext]_clientOpenVars
               PROVE  FinalizationInv'
    OBVIOUS
  <2> USE DEF FinalizationInv, FlagsFresh, ScFlagsBefore, FinalizationStates,
              ClientFinalizationStates, ClientIn, ClientReject
  <2>1. CASE ClientOpenStep
    <3> DEFINE PduHeard == IF cPdu.type \in DOMAIN ScFlag THEN cHeard \cup {ScFlag[cPdu.type]}
                                                           ELSE cHeard
    <3>1. cState # "CAPABILITIES_EXCHANGE_CONFIRM_ACTIVE" => cHeard' = PduHeard
      BY <2>1 DEF ClientOpenStep
    <3>2. cHeard \subseteq PduHeard
      OBVIOUS
    <3> HIDE DEF PduHeard
    <3>3. CASE ClientBegin \/ ClientMcsCreateRequest \/ ClientMcsCreateResponse
      BY <3>3 DEF ClientBegin, ClientMcsCreateRequest, ClientMcsCreateResponse
    <3>4. CASE ClientAttachUserConfirm \/ ClientChannelJoinConfirm
      BY <3>4 DEF ClientAttachUserConfirm, ClientChannelJoinConfirm, JoinNextOrSendInfo
    <3>5. CASE ClientAutoDetect("CONNECT_TIME_AUTO_DETECT_REQUEST", "LICENSING")
      BY <3>5 DEF ClientAutoDetect
    <3>6. CASE ClientLicensing
      BY <3>6 DEF ClientLicensing, LicensedState
    <3>7. CASE ClientAutoDetect("MULTITRANSPORT_BOOTSTRAPPING_REQUEST",
                                "CAPABILITIES_EXCHANGE_DEMAND_ACTIVE")
      BY <3>7 DEF ClientAutoDetect
    <3>8. CASE ClientDemandActive
      BY <3>8 DEF ClientDemandActive, RecvPdu
    <3>9. CASE ClientConfirmActive
      BY <2>1, <3>9 DEF ClientOpenStep, ClientConfirmActive, ResetFinalizeFlags, ServerFlags
    <3>10. CASE ClientMonitorLayout
      <4>1. FinalizeAfter(cPdu) \cap ServerFlags \subseteq cHeard'
        BY <3>1, <3>10, ClientFlagsAfterHeard DEF ClientMonitorLayout, PduHeard
      <4>2. QED
        BY <3>1, <3>2, <3>10, <4>1 DEF ClientMonitorLayout, RecvPdu, StateAfter
    <3>11. CASE SendSynchronize \/ SendCooperate \/ SendRequestControl \/ SendPersistentKeyList
      BY <3>1, <3>2, <3>11 DEF SendSynchronize, SendCooperate, SendRequestControl,
                               SendPersistentKeyList, SendFinalizePdu
    <3>12. CASE SendFontList
      BY <3>1, <3>2, <3>12 DEF SendFontList, ResetFinalizeFlags, ServerFlags
    <3>13. CASE \/ ClientFinalizeSync \/ ClientFinalizeCooperate
                \/ ClientFinalizeGrantedControl \/ ClientFinalizeFontMap
      <4>1. FinalizeAfter(cPdu) \cap ServerFlags \subseteq cHeard'
        BY <3>1, <3>13, ClientFlagsAfterHeard
           DEF PduHeard, ClientFinalizeSync, ClientFinalizeCooperate,
               ClientFinalizeGrantedControl, ClientFinalizeFontMap, HandleScFlags
      <4>2. CASE ClientFinalizeSync
        BY <3>1, <3>2, <4>1, <4>2
           DEF ClientFinalizeSync, HandleScFlags, RecvPdu, StateAfter, ServerFlags
      <4>3. CASE ClientFinalizeCooperate
        BY <3>1, <3>2, <4>1, <4>3
           DEF ClientFinalizeCooperate, HandleScFlags, RecvPdu, StateAfter, ServerFlags
      <4>4. CASE ClientFinalizeGrantedControl
        BY <3>1, <3>2, <4>1, <4>4
           DEF ClientFinalizeGrantedControl, HandleScFlags, RecvPdu, StateAfter, ServerFlags
      <4>5. CASE ClientFinalizeFontMap
        BY <3>1, <3>2, <4>1, <4>5
           DEF ClientFinalizeFontMap, HandleScFlags, RecvPdu, StateAfter, ServerFlags
      <4>6. QED
        BY <3>13, <4>2, <4>3, <4>4, <4>5
    <3>14. CASE ClientActive
      <4>1. FinalizeAfter(cPdu) \cap ServerFlags \subseteq cHeard'
        BY <3>1, <3>14, ClientFlagsAfterHeard DEF ClientActive, PduHeard
      <4>2. QED
        BY <3>1, <3>2, <3>14, <4>1 DEF ClientActive, RecvPdu, StateAfter
    <3>15. QED
      BY <2>1, <3>3, <3>4, <3>5, <3>6, <3>7, <3>8, <3>9, <3>10, <3>11, <3>12, <3>13, <3>14
         DEF ClientOpenStep, ClientStep
  <2>2. CASE ClientOpenReceive \/ ClientOpenInput
    BY <2>2 DEF ClientOpenReceive, ClientReceive, ClientOpenInput, ClientInput
  <2>3. CASE ClientOpenDrain
    BY <2>3 DEF ClientOpenDrain
  <2>4. CASE ClientOpenReset
    BY <2>4 DEF ClientOpenReset, ClientReset
  <2>5. CASE UNCHANGED clientOpenVars
    BY <2>5 DEF clientOpenVars, clientVars
  <2>6. QED
    BY <2>1, <2>2, <2>3, <2>4, <2>5 DEF ClientOpenNext
<1>3. FinalizationInv => ActiveAfterFinalization
  BY DEF FinalizationInv, ScFlagsBefore, ActiveAfterFinalization
<1>4. QED
  BY <1>1, <1>2, <1>3, PTL DEF ClientOpenSpec

-----------------------------------------------------------------------------
\* A non-empty set of channel ids has a smallest member.
LEMMA SmallestChannel ==
    ASSUME NEW S \in SUBSET Nat, S # {}
    PROVE  \E c \in S : \A d \in S : c <= d
<1> DEFINE Less == {ss \in Nat \X Nat : ss[1] < ss[2]}
<1>1. IsWellFoundedOn(Less, Nat)
  BY NatLessThanWellFounded DEF OpToRel
<1>2. PICK c \in S : \A d \in S : ~(<<d, c>> \in Less)
  BY <1>1, WFMin
<1>3. ASSUME NEW d \in S PROVE c <= d
  <2>1. c \in Nat /\ d \in Nat
    OBVIOUS
  <2>2. d < c => <<d, c>> \in Less
    BY <2>1
  <2>3. QED
    BY <1>2, <2>1, <2>2
<1>4. QED
  BY <1>3

\* rdp_client_connect_mcs_channel_join_confirm has no channel left to ask for only when all
\* that the server announced are joined.
LEMMA NothingExpected ==
    ASSUME NEW joined, Expected(joined) = {}
    PROVE  /\ {UserId, MCS_GLOBAL_CHANNEL_ID} \cup StaticChannels \subseteq joined
           /\ cMessageChannel => MessageChannelId \in joined
<1>1. StaticChannels \subseteq Nat
  BY ChannelCountAssumption DEF StaticChannels, MCS_GLOBAL_CHANNEL_ID
<1>2. /\ {UserId, MCS_GLOBAL_CHANNEL_ID} \subseteq joined
      /\ cMessageChannel => MessageChannelId \in joined
      /\ ~ \E c \in StaticChannels \ joined : \A d \in StaticChannels \ joined : c <= d
  BY DEF Expected
<1>3. StaticChannels \ joined = {}
  BY <1>1, <1>2, SmallestChannel
<1>4. QED
  BY <1>2, <1>3

\* The client sends its info, and everything after it, only when every channel that was
\* announced is joined.
THEOREM ClientJoinTheorem == ClientOpenSpec => []InfoAfterJoin
<1>1. ClientOpenInit => InfoAfterJoin
  BY DEF ClientOpenInit, ClientInit, InfoAfterJoin, McsStates
<1>2. InfoAfterJoin /\ [ClientOpenNext]_clientOpenVars => InfoAfterJoin'
  <2> SUFFICES ASSUME InfoAfterJoin, [ClientOpenNext]_clientOpenVars
               PROVE  InfoAfterJoin'
    OBVIOUS
  <2> USE DEF InfoAfterJoin, McsStates, ClientIn, ClientReject
  <2>1. CASE ClientStep
    <3>1. CASE ClientBegin \/ ClientMcsCreateRequest \/ ClientMcsCreateResponse
      BY <3>1 DEF ClientBegin, ClientMcsCreateRequest, ClientMcsCreateResponse
    <3>2. CASE ClientAttachUserConfirm
      <4>1. CASE cPdu.type = "AttachUserConfirm"
        BY <3>2, <4>1, NothingExpected DEF ClientAttachUserConfirm, JoinNextOrSendInfo
      <4>2. CASE cPdu.type # "AttachUserConfirm"
        BY <3>2, <4>2 DEF ClientAttachUserConfirm
      <4>3. QED
        BY <4>1, <4>2
    <3>3. CASE ClientChannelJoinConfirm
      <4>1. CASE cPdu.type = "ChannelJoinConfirm" /\ cPdu.channelId \in Expected(cJoined)
        BY <3>3, <4>1, NothingExpected DEF ClientChannelJoinConfirm, JoinNextOrSendInfo
      <4>2. CASE ~(cPdu.type = "ChannelJoinConfirm" /\ cPdu.channelId \in Expected(cJoined))
        BY <3>3, <4>2 DEF ClientChannelJoinConfirm
      <4>3. QED
        BY <4>1, <4>2
    <3>4. CASE \/ ClientAutoDetect("CONNECT_TIME_AUTO_DETECT_REQUEST", "LICENSING")
               \/ ClientAutoDetect("MULTITRANSPORT_BOOTSTRAPPING_REQUEST",
                                   "CAPABILITIES_EXCHANGE_DEMAND_ACTIVE")
      BY <3>4 DEF ClientAutoDetect
    <3>5. CASE ClientLicensing
      BY <3>5 DEF ClientLicensing
    <3>6. CASE ClientDemandActive
      BY <3>6 DEF ClientDemandActive, RecvPdu
    <3>7. CASE ClientConfirmActive
      BY <3>7 DEF ClientConfirmActive
    <3>8. CASE ClientMonitorLayout
      BY <3>8 DEF ClientMonitorLayout, RecvPdu
    <3>9. CASE SendSynchronize \/ SendCooperate \/ SendRequestControl \/ SendPersistentKeyList
      BY <3>9 DEF SendSynchronize, SendCooperate, SendRequestControl, SendPersistentKeyList,
                  SendFinalizePdu
    <3>10. CASE SendFontList
      BY <3>10 DEF SendFontList
    <3>11. CASE \/ ClientFinalizeSync \/ ClientFinalizeCooperate
                \/ ClientFinalizeGrantedControl \/ ClientFinalizeFontMap
      BY <3>11 DEF ClientFinalizeSync, ClientFinalizeCooperate, ClientFinalizeGrantedControl,
                   ClientFinalizeFontMap, HandleScFlags, RecvPdu
    <3>12. CASE ClientActive
      BY <3>12 DEF ClientActive, RecvPdu
    <3>13. QED
      BY <2>1, <3>1, <3>2, <3>3, <3>4, <3>5, <3>6, <3>7, <3>8, <3>9, <3>10, <3>11, <3>12
         DEF ClientStep
  <2>2. CASE ClientOpenReceive \/ ClientOpenInput
    BY <2>2 DEF ClientOpenReceive, ClientReceive, ClientOpenInput, ClientInput
  <2>3. CASE ClientOpenDrain
    BY <2>3 DEF ClientOpenDrain
  <2>4. CASE ClientOpenReset
    BY <2>4 DEF ClientOpenReset, ClientReset
  <2>5. CASE UNCHANGED clientOpenVars
    BY <2>5 DEF clientOpenVars, clientVars
  <2>6. QED
    BY <2>1, <2>2, <2>3, <2>4, <2>5 DEF ClientOpenNext, ClientOpenStep
<1>3. QED
  BY <1>1, <1>2, PTL DEF ClientOpenSpec

-----------------------------------------------------------------------------
\* Type correctness of the server.

\* The PDUs without a payload that the server sends.
LEMMA ServerPlainPdus ==
    \A type \in {"AttachUserConfirm", "DemandActive", "DeactivateAll", "FastPathUpdate",
                 "ChannelData", "DisconnectUltimatum", "LicenseRequest", "PlatformChallenge",
                 "NewLicense"} \cup (ServerMessageTypes \ {"LicenseMessage"}) \cup ServerDataTypes :
        Pdu(type) \in ServerPdus
BY DEF Pdu, ServerPdus, ServerLicenseTypes

LEMMA AlertType == \A transition \in AlertTransitions : ErrorAlert(transition) \in ServerPdus
BY DEF ErrorAlert, ServerPdus, AlertPdus

LEMMA ServerSendType ==
    ASSUME sOut \in Seq(ServerPdus), NEW pdus \in Seq(ServerPdus), ServerSend(pdus)
    PROVE  sOut' \in Seq(ServerPdus)
BY DEF ServerSend

LEMMA ServerSendOneType ==
    ASSUME sOut \in Seq(ServerPdus), NEW p \in ServerPdus, sOut' = sOut \o <<p>>
    PROVE  sOut' \in Seq(ServerPdus)
OBVIOUS

LEMMA ServerReplyType == \A p : PeerReply(p) \in Seq(ServerPdus)
<1>1. ErrorAlert("TOTAL_ABORT") \in ServerPdus
  BY AlertType DEF AlertTransitions
<1>2. /\ Pdu("PlatformChallenge") \in ServerPdus
      /\ Pdu("NewLicense") \in ServerPdus
      /\ Pdu("Synchronize") \in ServerPdus
      /\ Pdu("ControlCooperate") \in ServerPdus
      /\ Pdu("FontMap") \in ServerPdus
      /\ Pdu("DisconnectUltimatum") \in ServerPdus
  BY ServerPlainPdus DEF ServerDataTypes
<1>3. QED
  BY <1>1, <1>2 DEF PeerReply

\* What peer_recv_pdu leaves behind, whatever state the caller moves to and whatever it sends.
LEMMA PeerRecvType ==
    ASSUME ServerTypeOK, NEW at \in ConnectionStates, NEW pdus \in Seq(ServerPdus),
           PeerRecv(sPdu, at, pdus, TRUE),
           sRun' \in ServerRunStates, sPdu' \in ClientPdus \cup {NoPdu}
    PROVE  ServerTypeOK'
<1>1. sFinalize' \subseteq ClientFlags \cup {"DEACTIVATE_REACTIVATE"}
  <2>1. \A type \in DOMAIN CsFlag : CsFlag[type] \in ClientFlags
    BY DEF CsFlag, ClientFlags
  <2>2. QED
    BY <2>1 DEF ServerTypeOK, PeerRecv, PeerFinalizeAfter
<1>2. sLicense' \in LicenseStates
  BY DEF ServerTypeOK, PeerRecv, PeerLicenseAfter, AfterAlert, LicenseStates
<1>3. sSettings' \in ServerSettings
  <2>1. sPdu.type = "ConfirmActive" => sPdu.persist \in BOOLEAN
    BY DEF ServerTypeOK, ClientPdus, NoPdu, Pdu, AlertPdus, ClientLicenseTypes, ClientMessageTypes,
           ClientDataTypes
  <2>2. QED
    BY <2>1 DEF ServerTypeOK, PeerRecv, ServerSettings
<1>4. sActivated' \in BOOLEAN
  BY DEF ServerTypeOK, PeerRecv, ActivatedAfterLeaving
<1>5. sOut' \in Seq(ServerPdus)
  <2>1. PeerReply(sPdu) \o pdus \in Seq(ServerPdus)
    BY ServerReplyType
  <2>2. QED
    BY <2>1, ServerSendType DEF ServerTypeOK, PeerRecv
<1>6. QED
  BY <1>1, <1>2, <1>3, <1>4, <1>5 DEF ServerTypeOK, PeerRecv

LEMMA TransitionType ==
    ASSUME ServerTypeOK, NEW at \in ConnectionStates, NEW pdus \in Seq(ServerPdus),
           ServerTransition(at, pdus, TRUE),
           sRun' \in ServerRunStates, sPdu' \in ClientPdus \cup {NoPdu}
    PROVE  ServerTypeOK'
<1>1. sActivated' \in BOOLEAN
  BY DEF ServerTypeOK, ServerTransition, ActivatedAfterLeaving
<1>2. sOut' \in Seq(ServerPdus)
  BY ServerSendType DEF ServerTypeOK, ServerTransition
<1>3. QED
  BY <1>1, <1>2 DEF ServerTypeOK, ServerTransition

\* A PDU that is refused, wherever the caller goes.
LEMMA PeerFailsType ==
    ASSUME ServerTypeOK, NEW at \in ConnectionStates, NEW pdus \in Seq(ServerPdus),
           PeerFails(sPdu, at, pdus, TRUE),
           sRun' \in ServerRunStates, sPdu' \in ClientPdus \cup {NoPdu}
    PROVE  ServerTypeOK'
<1>1. \A alert \in LicenseAlerts(sPdu) : alert \in Seq(ServerPdus)
  <2>1. ErrorAlert("TOTAL_ABORT") \in ServerPdus
    BY AlertType DEF AlertTransitions
  <2>2. <<>> \in Seq(ServerPdus) /\ <<ErrorAlert("TOTAL_ABORT")>> \in Seq(ServerPdus)
    BY <2>1
  <2>3. QED
    BY <2>2, Zenon DEF LicenseAlerts
<1>2. PICK alert \in LicenseAlerts(sPdu) : ServerSend(alert \o pdus)
  BY DEF PeerFails
<1>3. sOut' \in Seq(ServerPdus)
  <2>1. alert \o pdus \in Seq(ServerPdus)
    BY <1>1, <1>2
  <2>2. QED
    BY <1>2, <2>1, ServerSendType DEF ServerTypeOK
<1>4. sActivated' \in BOOLEAN
  BY DEF ServerTypeOK, PeerFails, ActivatedAfterLeaving
<1>5. QED
  BY <1>3, <1>4 DEF ServerTypeOK, PeerFails, LicenseStates

LEMMA RejectType ==
    ASSUME ServerTypeOK, PeerReject(sPdu) \/ ServerReject
    PROVE  ServerTypeOK'
<1>1. CASE PeerReject(sPdu)
  <2>1. sState \in ConnectionStates /\ <<>> \in Seq(ServerPdus)
    BY DEF ServerTypeOK
  <2>2. QED
    BY <1>1, <2>1, PeerFailsType DEF PeerReject, PeerFails, ServerFail, ServerRunStates
<1>2. CASE ServerReject
  BY <1>2 DEF ServerTypeOK, ServerReject, ServerFail, ServerRunStates
<1>3. QED
  BY <1>1, <1>2

\* The server's state keeps its type, whatever the client sends and the application does: only
\* flags of client PDUs get into finalize_sc_pdus and only existing channels into the joined set.
THEOREM ServerTypeTheorem == ServerOpenSpec => []ServerTypeOK
<1>1. ServerOpenInit => ServerTypeOK
  <2> SUFFICES ASSUME ServerOpenInit PROVE ServerTypeOK
    OBVIOUS
  <2>1. sState \in ConnectionStates
    BY DEF ServerOpenInit, ServerInit, ConnectionStates, LicensingOrEarlier, McsStates
  <2>2. sOut \in Seq(ServerPdus)
    BY DEF ServerOpenInit, ServerInit
  <2>3. QED
    BY <2>1, <2>2, ServerConfigsAssumption
       DEF ServerOpenInit, ServerInit, ServerTypeOK, ServerRunStates, LicenseStates
<1>2. ServerTypeOK /\ [ServerOpenNext]_serverOpenVars => ServerTypeOK'
  <2> SUFFICES ASSUME ServerTypeOK, [ServerOpenNext]_serverOpenVars
               PROVE  ServerTypeOK'
    OBVIOUS
  <2>0. /\ LicensingOrEarlier \subseteq ConnectionStates
        /\ CapabilityStates \subseteq ConnectionStates
        /\ FinalizationStates \subseteq ConnectionStates
        /\ "ACTIVE" \in ConnectionStates
    BY DEF ConnectionStates
  <2>p. /\ PeerStateAfter(sPdu) \in ConnectionStates
        /\ sState \in ConnectionStates
    BY <2>0 DEF PeerStateAfter, ServerTypeOK, CapabilityStates, FinalizationStates
  <2>e. <<>> \in Seq(ServerPdus)
    OBVIOUS
  <2>1. CASE ServerStep
    <3> USE DEF ServerIn, ServerRunStates, ServerSuccess, ServerRerun, ServerContinue, ServerFail,
                ServerQuit
    <3>1. CASE ServerConnectInitial
      <4>1. CASE sPdu.type = "ConnectInitial"
        <5>1. sPdu.caps \in ClientCaps
          BY <4>1 DEF ServerTypeOK, ClientPdus, NoPdu, Pdu, AlertPdus, ClientLicenseTypes,
                      ClientMessageTypes, ClientDataTypes
        <5>2. sSettings' \in ServerSettings
          BY <3>1, <4>1 DEF ServerConnectInitial, ServerTypeOK, ServerSettings
        <5>3. sMessageChannel' \in BOOLEAN
          BY <3>1, <4>1, <5>1 DEF ServerConnectInitial, ClientCaps
        <5>4. ConnectResponse(sSettings', sMessageChannel') \in ServerPdus
          BY <5>2, <5>3 DEF ConnectResponse, ServerPdus, ServerCaps, ServerSettings
        <5>5. sOut' \in Seq(ServerPdus)
          BY <3>1, <4>1, <5>4, ServerSendOneType DEF ServerConnectInitial, ServerSend, ServerTypeOK
        <5>6. QED
          BY <2>0, <3>1, <4>1, <5>2, <5>3, <5>5
             DEF ServerConnectInitial, ServerTypeOK, LicensingOrEarlier, McsStates
      <4>2. CASE sPdu.type # "ConnectInitial"
        BY <3>1, <4>2, RejectType DEF ServerConnectInitial
      <4>3. QED
        BY <4>1, <4>2
    <3>2. CASE ServerErectDomain
      BY <2>0, <3>2, RejectType DEF ServerErectDomain, ServerTypeOK, LicensingOrEarlier, McsStates
    <3>3. CASE ServerAttachUser
      <4>1. CASE sPdu.type = "AttachUserRequest"
        <5>1. sOut' \in Seq(ServerPdus)
          BY <3>3, <4>1, ServerSendOneType, ServerPlainPdus
             DEF ServerAttachUser, ServerSend, ServerTypeOK
        <5>2. QED
          BY <2>0, <3>3, <4>1, <5>1
             DEF ServerAttachUser, ServerTypeOK, LicensingOrEarlier, McsStates
      <4>2. CASE sPdu.type # "AttachUserRequest"
        BY <3>3, <4>2, RejectType DEF ServerAttachUser
      <4>3. QED
        BY <4>1, <4>2
    <3>4. CASE ServerChannelJoin
      <4>1. CASE sPdu.type = "ChannelJoinRequest"
        <5>1. sPdu.channelId \in Channels
          BY <4>1 DEF ServerTypeOK, ClientPdus, NoPdu, Pdu, AlertPdus, ClientLicenseTypes,
                      ClientMessageTypes, ClientDataTypes
        <5>2. JoinConfirm(sPdu.channelId) \in ServerPdus
          BY <5>1 DEF JoinConfirm, ServerPdus
        <5>3. sOut' \in Seq(ServerPdus)
          BY <3>4, <4>1, <5>2, ServerSendOneType DEF ServerChannelJoin, ServerSend, ServerTypeOK
        <5>4. QED
          BY <2>0, <3>4, <4>1, <5>1, <5>3
             DEF ServerChannelJoin, ServerTypeOK, LicensingOrEarlier, McsStates
      <4>2. CASE sPdu.type # "ChannelJoinRequest"
        BY <3>4, <4>2, RejectType DEF ServerChannelJoin
      <4>3. QED
        BY <4>1, <4>2
    <3>5. CASE ServerEstablishKeys \/ ServerClientInfo
      BY <2>0, <3>5, RejectType
         DEF ServerEstablishKeys, ServerClientInfo, ServerTypeOK, LicensingOrEarlier
    <3>t. sPdu \in ClientPdus \cup {NoPdu} /\ sRun \in ServerRunStates
      BY DEF ServerTypeOK
    <3>q. \A type \in {"AutoDetectRequest", "MultitransportRequest", "DemandActive",
                       "MonitorLayout", "ControlGranted"} : <<Pdu(type)>> \in Seq(ServerPdus)
      BY ServerPlainPdus DEF ServerMessageTypes, ServerDataTypes
    <3>6. CASE ServerAutoDetectRequest
      BY <2>0, <2>e, <3>t, <3>q, <3>6, TransitionType
         DEF ServerAutoDetectRequest, ServerTransition, LicensingOrEarlier
    <3>7. CASE ServerAutoDetectResponse
      BY <2>0, <2>p, <2>e, <3>7, PeerRecvType, RejectType
         DEF ServerAutoDetectResponse, PeerRecv, LicensingOrEarlier
    <3>r. PeerReturns(sPdu) => sPdu' = NoPdu /\ sRun' \in ServerRunStates
      BY DEF PeerReturns
    <3>8. CASE ServerLicensing
      <4>1. CASE sLicense = "INITIAL"
        <5>1. /\ Pdu("LicenseRequest") \in ServerPdus
              /\ ErrorAlert("VALID_CLIENT") \in ServerPdus
          BY ServerPlainPdus, AlertType DEF AlertTransitions
        <5>2. sOut' \in Seq(ServerPdus)
          BY <3>8, <4>1, <5>1, ServerSendOneType DEF ServerLicensing, ServerSend, ServerTypeOK
        <5>3. sState' \in ConnectionStates /\ sLicense' \in LicenseStates
          BY <2>0, <3>8, <4>1
             DEF ServerLicensing, LicensingOrEarlier, CapabilityStates, LicenseStates
        <5>4. QED
          BY <3>8, <4>1, <5>2, <5>3 DEF ServerLicensing, ServerTypeOK
      <4>2. CASE sLicense # "INITIAL"
        <5>1. "MULTITRANSPORT_BOOTSTRAPPING_REQUEST" \in ConnectionStates
          BY <2>0 DEF CapabilityStates
        <5>2. CASE sLicense \in {"COMPLETED", "ABORTED"}
          BY <2>e, <3>t, <3>8, <5>1, <5>2, TransitionType, RejectType
             DEF ServerLicensing, ServerTransition
        <5>3. CASE sLicense \notin {"COMPLETED", "ABORTED"}
          BY <2>p, <2>e, <3>r, <3>8, <4>2, <5>1, <5>3, PeerRecvType, RejectType
             DEF ServerLicensing, PeerRecv
        <5>4. QED
          BY <5>2, <5>3
      <4>3. QED
        BY <4>1, <4>2
    <3>9. CASE ServerMultitransportRequest \/ ServerDemandActive \/ ServerMonitorLayout
      BY <2>0, <2>e, <3>t, <3>q, <3>9, TransitionType
         DEF ServerMultitransportRequest, ServerDemandActive, ServerMonitorLayout,
             ServerTransition, CapabilityStates
    <3>10. CASE ServerMultitransportResponse \/ ServerConfirmActive \/ ServerActive
      BY <2>p, <2>e, <3>r, <3>10, PeerRecvType, RejectType
         DEF ServerMultitransportResponse, ServerConfirmActive, ServerActive, ServerPlainRecv,
             PeerRecv
    <3>f. ASSUME NEW at, NEW flag, NEW pdus \in Seq(ServerPdus), NEW next \in ConnectionStates,
                 ServerFinalize(at, flag, pdus, next)
          PROVE  ServerTypeOK'
      <4>1. CASE PeerRecvFails(sPdu)
        BY <2>p, <2>e, <3>f, <4>1, PeerFailsType DEF ServerFinalize, PeerFails
      <4>2. CASE ~PeerRecvFails(sPdu)
        BY <2>p, <2>e, <3>r, <3>f, <4>2, PeerRecvType DEF ServerFinalize, PeerRecv
      <4>3. QED
        BY <4>1, <4>2
    <3>11. CASE ServerFinalizeSync \/ ServerFinalizeCooperate \/ ServerFinalizeRequestControl
      BY <2>0, <2>e, <3>q, <3>f, <3>11
         DEF ServerFinalizeSync, ServerFinalizeCooperate, ServerFinalizeRequestControl,
             FinalizationStates
    <3>12. CASE ServerFinalizeKeyList
      <4>1. "FINALIZATION_FONT_LIST" \in ConnectionStates
        BY <2>0 DEF FinalizationStates
      <4>2. CASE AwaitsKeyList
        BY <2>e, <3>f, <3>12, <4>1, <4>2 DEF ServerFinalizeKeyList
      <4>3. CASE ~AwaitsKeyList
        BY <2>e, <3>t, <3>12, <4>1, <4>3, TransitionType
           DEF ServerFinalizeKeyList, ServerTransition
      <4>4. QED
        BY <4>2, <4>3
    <3>13. CASE ServerFinalizeFontList
      BY <2>0, <2>p, <2>e, <3>13, PeerRecvType, RejectType DEF ServerFinalizeFontList, PeerRecv
    <3>14. CASE ServerActivate
      BY <3>14 DEF ServerActivate, ServerTypeOK
    <3>15. QED
      BY <2>1, <3>1, <3>2, <3>3, <3>4, <3>5, <3>6, <3>7, <3>8, <3>9, <3>10, <3>11, <3>12,
         <3>13, <3>14 DEF ServerStep
  <2>2. CASE ServerOpenReceive
    BY <2>2 DEF ServerOpenReceive, ServerReceive, ServerTypeOK, ServerRunStates
  <2>3. CASE ServerOpenDrain
    BY <2>3 DEF ServerOpenDrain, ServerTypeOK
  <2>4. CASE ServerOpenApplication
    <3>1. sOut' \in Seq(ServerPdus)
      <4>1. /\ Pdu("DeactivateAll") \in ServerPdus /\ Pdu("DemandActive") \in ServerPdus
            /\ Pdu("FastPathUpdate") \in ServerPdus /\ Pdu("ChannelData") \in ServerPdus
            /\ Pdu("ErrorInfo") \in ServerPdus /\ Pdu("DisconnectUltimatum") \in ServerPdus
        BY ServerPlainPdus DEF ServerDataTypes
      <4>2. CASE ServerReactivate
        BY <4>1, <4>2 DEF ServerReactivate, ServerSend, ServerTypeOK
      <4>3. CASE ServerUpdate \/ ServerChannelData
        BY <4>1, <4>3, ServerSendOneType DEF ServerUpdate, ServerChannelData, ServerSend, ServerTypeOK
      <4>4. CASE ServerClose
        <5>1. PICK info \in {<<>>, <<Pdu("ErrorInfo")>>} :
                  ServerSend(<<Pdu("DeactivateAll")>> \o info \o <<Pdu("DisconnectUltimatum")>>)
          BY <4>4 DEF ServerClose
        <5>2. /\ info \in Seq(ServerPdus)
              /\ <<Pdu("DeactivateAll")>> \in Seq(ServerPdus)
              /\ <<Pdu("DisconnectUltimatum")>> \in Seq(ServerPdus)
          <6>1. <<Pdu("ErrorInfo")>> \in Seq(ServerPdus) /\ <<>> \in Seq(ServerPdus)
            BY <4>1
          <6>2. info \in Seq(ServerPdus)
            BY <6>1
          <6>3. QED
            BY <4>1, <6>2
        <5>3. <<Pdu("DeactivateAll")>> \o info \o <<Pdu("DisconnectUltimatum")>>
                \in Seq(ServerPdus)
          BY <5>2
        <5>4. QED
          BY <5>1, <5>3, ServerSendType DEF ServerTypeOK
      <4>5. QED
        BY <2>4, <4>2, <4>3, <4>4 DEF ServerOpenApplication, ServerApplication, ServerCloseSession
    <3>2. QED
      BY <2>0, <2>4, <3>1
         DEF ServerOpenApplication, ServerApplication, ServerReactivate, ServerUpdate,
             ServerChannelData, ServerCloseSession, ServerClose, ServerTypeOK, ServerRunStates, CapabilityStates
  <2>5. CASE UNCHANGED serverOpenVars
    BY <2>5 DEF serverOpenVars, serverVars, ServerTypeOK
  <2>6. QED
    BY <2>1, <2>2, <2>3, <2>4, <2>5 DEF ServerOpenNext, ServerOpenStep
<1>3. QED
  BY <1>1, <1>2, PTL DEF ServerOpenSpec

-----------------------------------------------------------------------------
\* peer_recv_pdu sets no flag but that of the PDU it processes, which is then heard; a
\* Confirm Active only clears flags.
LEMMA ServerFlagsAfterHeard ==
    ASSUME sFinalize \cap ClientFlags \subseteq sHeard,
           sHeard' = IF sPdu.type \in DOMAIN CsFlag THEN sHeard \cup {CsFlag[sPdu.type]} ELSE sHeard
    PROVE  PeerFinalizeAfter(sPdu) \cap ClientFlags \subseteq sHeard'
BY DEF PeerFinalizeAfter, ClientFlags

\* The server's flags were set since the last Confirm Active it accepted, each state of the
\* finalization has been reached through the PDUs before it, and an activated client is in
\* CONNECTION_STATE_ACTIVE or being asked for its capabilities again.
THEOREM ActivationTheorem == ServerOpenSpec => []ActivationInv
<1>1. ServerOpenInit => ActivationInv
  BY DEF ServerOpenInit, ServerInit, ActivationInv, CsFlagsBefore
<1>2. ActivationInv /\ [ServerOpenNext]_serverOpenVars => ActivationInv'
  <2> SUFFICES ASSUME ActivationInv, [ServerOpenNext]_serverOpenVars
               PROVE  ActivationInv'
    OBVIOUS
  <2> USE DEF ActivationInv, CsFlagsBefore, ServerIn, ServerReject
  <2>1. CASE ServerOpenStep
    <3> DEFINE PduHeard == IF sPdu.type \in DOMAIN CsFlag THEN sHeard \cup {CsFlag[sPdu.type]}
                                                           ELSE sHeard
    <3>1. sState # "CAPABILITIES_EXCHANGE_CONFIRM_ACTIVE" => sHeard' = PduHeard
      BY <2>1 DEF ServerOpenStep
    <3>2. sHeard \subseteq PduHeard
      OBVIOUS
    <3>3. sState # "CAPABILITIES_EXCHANGE_CONFIRM_ACTIVE"
            => PeerFinalizeAfter(sPdu) \cap ClientFlags \subseteq sHeard'
      BY <3>1, ServerFlagsAfterHeard
    <3>4. PeerStateAfter(sPdu) = "ACTIVE" /\ sState # "CAPABILITIES_EXCHANGE_CONFIRM_ACTIVE"
            => sState = "ACTIVE" \/ "CS_FONT_LIST" \in sHeard'
      BY <3>1 DEF PeerStateAfter, CsFlag
    <3> HIDE DEF PduHeard
    <3>5. CASE ServerConnectInitial \/ ServerErectDomain \/ ServerAttachUser \/ ServerChannelJoin
      BY <3>1, <3>2, <3>5
         DEF ServerConnectInitial, ServerErectDomain, ServerAttachUser, ServerChannelJoin
    <3>6. CASE ServerEstablishKeys \/ ServerClientInfo
      BY <3>1, <3>2, <3>6 DEF ServerEstablishKeys, ServerClientInfo
    <3>7. CASE ServerAutoDetectRequest \/ ServerMultitransportRequest \/ ServerDemandActive
                 \/ ServerMonitorLayout
      BY <3>1, <3>2, <3>7
         DEF ServerAutoDetectRequest, ServerMultitransportRequest, ServerDemandActive,
             ServerMonitorLayout, ServerTransition, ActivatedAfterLeaving, ActivePeerStates,
             ClientFinalizationStates
    <3>p. PeerStateAfter(sPdu) \in {sState, "CAPABILITIES_EXCHANGE_DEMAND_ACTIVE",
                                    "FINALIZATION_SYNC", "ACTIVE"}
      BY DEF PeerStateAfter
    <3>8. CASE ServerAutoDetectResponse
      BY <3>1, <3>2, <3>3, <3>4, <3>p, <3>8
         DEF ServerAutoDetectResponse, PeerRecv, PeerReject, PeerFails, ActivatedAfterLeaving
    <3>9. CASE ServerLicensing
      BY <3>1, <3>2, <3>3, <3>9
         DEF ServerLicensing, ServerTransition, PeerRecv, PeerReject, PeerFails,
             ActivatedAfterLeaving
    <3>10. CASE ServerMultitransportResponse
      BY <3>1, <3>2, <3>3, <3>4, <3>p, <3>10
         DEF ServerMultitransportResponse, ServerPlainRecv, PeerRecv, PeerReject, PeerFails,
             ActivatedAfterLeaving
    <3>11. CASE ServerConfirmActive
      <4>1. CASE sPdu.type = "ConfirmActive"
        <5>1. sHeard' = {} /\ PeerStateAfter(sPdu) = "FINALIZATION_SYNC"
          BY <2>1, <3>11, <4>1
             DEF ServerOpenStep, ServerConfirmActive, ServerPlainRecv, PeerStateAfter
        <5>2. PeerFinalizeAfter(sPdu) \cap ClientFlags = {}
          BY <4>1 DEF PeerFinalizeAfter, CsFlag, ClientFlags
        <5>3. ~PeerRecvFails(sPdu)
          BY <3>11, <4>1
             DEF ServerConfirmActive, ServerPlainRecv, PeerRecvFails, LicensingOrEarlier,
                 McsStates, ClientLicenseTypes
        <5>4. QED
          BY <3>11, <5>1, <5>2, <5>3
             DEF ServerConfirmActive, ServerPlainRecv, PeerRecv, ActivatedAfterLeaving
      <4>2. CASE sPdu.type # "ConfirmActive"
        <5>1. sHeard' = PduHeard
          BY <2>1, <4>2 DEF ServerOpenStep, PduHeard
        <5>2. PeerFinalizeAfter(sPdu) \cap ClientFlags \subseteq sHeard'
          BY <5>1, ServerFlagsAfterHeard DEF PduHeard
        <5>3. PeerStateAfter(sPdu) = "ACTIVE" => sState = "ACTIVE" \/ "CS_FONT_LIST" \in sHeard'
          BY <5>1 DEF PeerStateAfter, CsFlag, PduHeard
        <5>4. QED
          BY <3>2, <3>p, <3>11, <5>1, <5>2, <5>3
             DEF ServerConfirmActive, ServerPlainRecv, PeerRecv, PeerReject, PeerFails,
                 ActivatedAfterLeaving
      <4>3. QED
        BY <4>1, <4>2
    <3>f. ASSUME NEW at, NEW flag \in ClientFlags, NEW pdus, NEW next,
                 at \in FinalizationStates,
                 ServerFinalize(at, flag, pdus, next),
                 CsFlagsBefore(next) \subseteq CsFlagsBefore(at) \cup {flag}, next # "ACTIVE"
          PROVE  ActivationInv'
      <4>1. sState = at /\ ~sActivated
        BY <3>f DEF ServerFinalize, FinalizationStates
      <4>2. sHeard' = PduHeard
        BY <3>1, <3>f, <4>1 DEF FinalizationStates
      <4>3. CASE PeerRecvFails(sPdu)
        BY <3>2, <3>f, <4>1, <4>2, <4>3
           DEF ServerFinalize, PeerFails, ActivatedAfterLeaving
      <4>4. CASE ~PeerRecvFails(sPdu)
        BY <3>2, <3>3, <3>4, <3>p, <3>f, <4>1, <4>2, <4>4
           DEF ServerFinalize, PeerRecv, ActivatedAfterLeaving, FinalizationStates
      <4>5. QED
        BY <4>3, <4>4
    <3>12. CASE ServerFinalizeSync \/ ServerFinalizeCooperate \/ ServerFinalizeRequestControl
      BY <3>f, <3>12 DEF ServerFinalizeSync, ServerFinalizeCooperate,
                         ServerFinalizeRequestControl, FinalizationStates, ClientFlags
    <3>13. CASE ServerFinalizeKeyList
      <4>1. CASE AwaitsKeyList
        BY <3>f, <3>13, <4>1 DEF ServerFinalizeKeyList, FinalizationStates, ClientFlags
      <4>2. CASE ~AwaitsKeyList
        BY <3>1, <3>2, <3>13, <4>2
           DEF ServerFinalizeKeyList, ServerTransition, ActivatedAfterLeaving
      <4>3. QED
        BY <4>1, <4>2
    <3>14. CASE ServerFinalizeFontList
      <4>1. CASE PeerRecvFails(sPdu) \/ sPdu.type = "ShutdownRequest"
        BY <3>1, <3>2, <3>3, <3>14, <4>1
           DEF ServerFinalizeFontList, PeerRecv, PeerReject, PeerFails, ActivatedAfterLeaving
      <4>2. CASE ~PeerRecvFails(sPdu) /\ sPdu.type # "ShutdownRequest"
        BY <3>1, <3>2, <3>3, <3>4, <3>p, <3>14, <4>2
           DEF ServerFinalizeFontList, PeerRecv, ActivatedAfterLeaving, ClientFlags
      <4>3. QED
        BY <4>1, <4>2
    <3>15. CASE ServerActivate
      BY <3>1, <3>2, <3>15 DEF ServerActivate
    <3>16. CASE ServerActive
      <4>1. CASE PeerRecvFails(sPdu)
        BY <3>1, <3>2, <3>16, <4>1 DEF ServerActive, ServerPlainRecv, PeerReject, PeerFails
      <4>2. CASE ~PeerRecvFails(sPdu)
        <5>1. PeerStateAfter(sPdu) # "ACTIVE"
                => /\ sPdu.type = "MultitransportResponse"
                   /\ PeerStateAfter(sPdu) = "CAPABILITIES_EXCHANGE_DEMAND_ACTIVE"
          BY <3>16, <4>2 DEF ServerActive, ServerPlainRecv, PeerRecvFails, PeerStateAfter
        <5>2. sPdu.type = "MultitransportResponse" /\ PeerReturns(sPdu) => sRun' = "run"
          BY DEF PeerReturns, ServerContinue
        <5>3. QED
          BY <3>1, <3>2, <3>3, <3>16, <4>2, <5>1, <5>2
             DEF ServerActive, ServerPlainRecv, PeerRecv
      <4>3. QED
        BY <4>1, <4>2
    <3>17. QED
      BY <2>1, <3>5, <3>6, <3>7, <3>8, <3>9, <3>10, <3>11, <3>12, <3>13, <3>14, <3>15, <3>16
         DEF ServerOpenStep, ServerStep
  <2>2. CASE ServerOpenReceive
    BY <2>2 DEF ServerOpenReceive, ServerReceive
  <2>3. CASE ServerOpenDrain
    BY <2>3 DEF ServerOpenDrain
  <2>4. CASE ServerOpenApplication
    BY <2>4 DEF ServerOpenApplication, ServerApplication, ServerReactivate, ServerUpdate,
                ServerChannelData, ServerCloseSession, ServerClose, ClientFlags
  <2>5. CASE UNCHANGED serverOpenVars
    BY <2>5 DEF serverOpenVars, serverVars
  <2>6. QED
    BY <2>1, <2>2, <2>3, <2>4, <2>5 DEF ServerOpenNext
<1>3. QED
  BY <1>1, <1>2, PTL DEF ServerOpenSpec

\* Nothing is drawn for a client that has not sent its Font List since the last Confirm Active,
\* and between two PDUs an activated client is in CONNECTION_STATE_ACTIVE.
THEOREM ActivatedTheorem == ServerOpenSpec => []ActivatedAfterFontList
<1>1. ActivationInv => ActivatedAfterFontList
  BY DEF ActivationInv, ActivatedAfterFontList
<1>2. QED
  BY <1>1, ActivationTheorem, PTL

\* Control is granted only after the Synchronize, Cooperate and Request Control PDUs of the
\* same activation.
THEOREM GrantTheorem == ServerOpenSpec => []GrantAfterCooperate
<1>1. ActivationInv => GrantAfterCooperate
  BY DEF ActivationInv, CsFlagsBefore, GrantAfterCooperate
<1>2. QED
  BY <1>1, ActivationTheorem, PTL

-----------------------------------------------------------------------------
\* Every way to leave the MCS states is through a check that all channels that exist are
\* joined, or through a skipped join that marks all of them.
THEOREM KeysTheorem == ServerOpenSpec => []KeysAfterJoin
<1>1. ServerOpenInit => KeysAfterJoin
  BY DEF ServerOpenInit, ServerInit, KeysAfterJoin, McsStates
<1>2. KeysAfterJoin /\ ActivationInv /\ [ServerOpenNext]_serverOpenVars => KeysAfterJoin'
  <2> SUFFICES ASSUME KeysAfterJoin, ActivationInv, [ServerOpenNext]_serverOpenVars
               PROVE  KeysAfterJoin'
    OBVIOUS
  <2> USE DEF KeysAfterJoin, McsStates, ServerIn, ServerReject
  <2>1. CASE ServerStep
    <3>1. CASE ServerConnectInitial \/ ServerErectDomain
      BY <3>1 DEF ServerConnectInitial, ServerErectDomain
    <3>2. CASE ServerAttachUser
      BY <3>2 DEF ServerAttachUser, Channels
    <3>3. CASE ServerChannelJoin
      <4>1. {UserId, MCS_GLOBAL_CHANNEL_ID} \cup StaticChannels \subseteq AnnouncedChannels
        BY ChannelCountAssumption
           DEF AnnouncedChannels, Channels, UserId, MCS_GLOBAL_CHANNEL_ID, StaticChannels,
               MessageChannelId
      <4>2. sMessageChannel => MessageChannelId \in AnnouncedChannels
        BY DEF AnnouncedChannels, Channels
      <4>3. QED
        BY <3>3, <4>1, <4>2 DEF ServerChannelJoin
    <3>4. CASE ServerEstablishKeys \/ ServerClientInfo
      BY <3>4 DEF ServerEstablishKeys, ServerClientInfo
    <3> USE DEF PeerRecv, PeerReject, PeerFails, ServerTransition
    <3>5. CASE ServerAutoDetectRequest \/ ServerAutoDetectResponse
      BY <3>5 DEF ServerAutoDetectRequest, ServerAutoDetectResponse
    <3>6. CASE ServerLicensing
      BY <3>6 DEF ServerLicensing
    <3>7. CASE ServerMultitransportRequest \/ ServerDemandActive \/ ServerMonitorLayout
      BY <3>7 DEF ServerMultitransportRequest, ServerDemandActive, ServerMonitorLayout
    <3>8. CASE ServerMultitransportResponse \/ ServerConfirmActive \/ ServerActive
      BY <3>8 DEF ServerMultitransportResponse, ServerConfirmActive, ServerActive, ServerPlainRecv
    <3>9. CASE ServerFinalizeSync \/ ServerFinalizeCooperate \/ ServerFinalizeRequestControl
      BY <3>9 DEF ServerFinalizeSync, ServerFinalizeCooperate, ServerFinalizeRequestControl,
                  ServerFinalize
    <3>10. CASE ServerFinalizeKeyList
      BY <3>10 DEF ServerFinalizeKeyList, ServerFinalize
    <3>11. CASE ServerFinalizeFontList
      BY <3>11 DEF ServerFinalizeFontList
    <3>12. CASE ServerActivate
      BY <3>12 DEF ServerActivate
    <3>13. QED
      BY <2>1, <3>1, <3>2, <3>3, <3>4, <3>5, <3>6, <3>7, <3>8, <3>9, <3>10, <3>11, <3>12
         DEF ServerStep
  <2>2. CASE ServerOpenReceive
    BY <2>2 DEF ServerOpenReceive, ServerReceive
  <2>3. CASE ServerOpenDrain
    BY <2>3 DEF ServerOpenDrain
  <2>4. CASE ServerOpenApplication
    BY <2>4 DEF ServerOpenApplication, ServerApplication, ServerReactivate, ServerUpdate,
                ServerChannelData, ServerCloseSession, ServerClose, ActivationInv
  <2>5. CASE UNCHANGED serverOpenVars
    BY <2>5 DEF serverOpenVars, serverVars
  <2>6. QED
    BY <2>1, <2>2, <2>3, <2>4, <2>5 DEF ServerOpenNext, ServerOpenStep
<1>3. QED
  BY <1>1, <1>2, ActivationTheorem, PTL DEF ServerOpenSpec

-----------------------------------------------------------------------------
\* The server asks for capabilities only when licensing has completed or the client has answered a
\* multitransport request that could not yet have been made: no other PDU takes the server out
\* of the phases up to licensing, and a licence that is granted completes the phase.
THEOREM DemandTheorem == ServerOpenSpec => []DemandAfterLicense
<1>1. ServerOpenInit => LicenseInv
  BY DEF ServerOpenInit, ServerInit, LicenseInv, DemandAfterLicense, LicensingOrEarlier, McsStates,
         NoPdu, Pdu, LateTypes, ClientDataTypes
<1>2. LicenseInv /\ ActivationInv /\ [ServerOpenNext]_serverOpenVars => LicenseInv'
  <2> SUFFICES ASSUME LicenseInv, ActivationInv, [ServerOpenNext]_serverOpenVars
               PROVE  LicenseInv'
    OBVIOUS
  <2> USE DEF LicenseInv, DemandAfterLicense, LicensingOrEarlier, McsStates, ServerIn
  <2>n. NoPdu.type \notin LateTypes \cup {"MultitransportResponse"}
    BY DEF NoPdu, Pdu, LateTypes, ClientDataTypes
  <2>1. CASE ServerOpenStep
    <3> USE DEF ServerSuccess, ServerRerun, ServerContinue, ServerFail, ServerQuit, ServerReject
    <3>0. sLicensed' = (sLicensed \/ sLicense' = "COMPLETED") /\ sUnasked' = sUnasked
      BY <2>1 DEF ServerOpenStep
    <3>1. CASE ServerConnectInitial \/ ServerErectDomain
      BY <2>n, <3>0, <3>1 DEF ServerConnectInitial, ServerErectDomain
    <3>2. CASE ServerAttachUser \/ ServerChannelJoin
      BY <2>n, <3>0, <3>2 DEF ServerAttachUser, ServerChannelJoin
    <3>3. CASE ServerEstablishKeys \/ ServerClientInfo
      BY <2>n, <3>0, <3>3 DEF ServerEstablishKeys, ServerClientInfo
    <3>4. CASE ServerAutoDetectRequest
      BY <2>n, <3>0, <3>4 DEF ServerAutoDetectRequest, ServerTransition
    <3>e. sState \in LicensingOrEarlier
            => PeerStateAfter(sPdu) = sState \/ sPdu.type = "MultitransportResponse"
      BY DEF PeerStateAfter, LateTypes, ClientDataTypes
    <3>5. CASE ServerAutoDetectResponse
      BY <2>n, <3>0, <3>e, <3>5 DEF ServerAutoDetectResponse, PeerRecv, PeerReject, PeerFails
    <3>r. PeerReturns(sPdu) => sPdu' = NoPdu /\ sRun' \in {"idle", "run", "closed"}
      BY DEF PeerReturns
    <3>6. CASE ServerLicensing
      <4>1. CASE sLicense \in {"INITIAL", "COMPLETED", "ABORTED"}
        BY <2>n, <3>0, <3>6, <4>1 DEF ServerLicensing, ServerTransition
      <4>2. CASE sLicense \notin {"INITIAL", "COMPLETED", "ABORTED"}
        <5>1. LicensingDone(sPdu)
                => PeerLicenseAfter(sPdu) = "COMPLETED" \/ sPdu.type = "MultitransportResponse"
          BY DEF LicensingDone, PeerLicenseAfter
        <5>2. QED
          BY <2>n, <3>0, <3>r, <3>6, <4>2, <5>1
             DEF ServerLicensing, PeerRecv, PeerReject, PeerFails
      <4>3. QED
        BY <4>1, <4>2
    <3>7. CASE ServerMultitransportRequest \/ ServerDemandActive \/ ServerMonitorLayout
      BY <2>n, <3>0, <3>7
         DEF ServerMultitransportRequest, ServerDemandActive, ServerMonitorLayout,
             ServerTransition
    <3>l. sState \notin LicensingOrEarlier => PeerStateAfter(sPdu) \notin LicensingOrEarlier
      BY DEF PeerStateAfter
    <3>8. CASE ServerMultitransportResponse \/ ServerConfirmActive \/ ServerActive
      BY <2>n, <3>0, <3>r, <3>l, <3>8
         DEF ServerMultitransportResponse, ServerConfirmActive, ServerActive, ServerPlainRecv,
             PeerRecv, PeerReject, PeerFails
    <3>9. CASE ServerFinalizeSync \/ ServerFinalizeCooperate \/ ServerFinalizeRequestControl
      BY <2>n, <3>0, <3>r, <3>l, <3>9
         DEF ServerFinalizeSync, ServerFinalizeCooperate, ServerFinalizeRequestControl,
             ServerFinalize, PeerRecv, PeerFails
    <3>10. CASE ServerFinalizeKeyList
      BY <2>n, <3>0, <3>r, <3>l, <3>10
         DEF ServerFinalizeKeyList, ServerFinalize, PeerRecv, PeerFails, ServerTransition
    <3>11. CASE ServerFinalizeFontList
      BY <2>n, <3>0, <3>l, <3>11 DEF ServerFinalizeFontList, PeerRecv, PeerReject, PeerFails
    <3>12. CASE ServerActivate
      BY <2>n, <3>0, <3>12 DEF ServerActivate
    <3>13. QED
      BY <2>1, <3>1, <3>2, <3>3, <3>4, <3>5, <3>6, <3>7, <3>8, <3>9, <3>10, <3>11, <3>12
         DEF ServerOpenStep, ServerStep
  <2>2. CASE ServerOpenReceive
    BY <2>2 DEF ServerOpenReceive, ServerReceive, ClientMaySend
  <2>3. CASE ServerOpenDrain
    BY <2>3 DEF ServerOpenDrain
  <2>4. CASE ServerOpenApplication
    BY <2>4 DEF ServerOpenApplication, ServerApplication, ServerReactivate, ServerUpdate,
                ServerChannelData, ServerCloseSession, ServerClose, ActivationInv
  <2>5. CASE UNCHANGED serverOpenVars
    BY <2>5 DEF serverOpenVars, serverVars
  <2>6. QED
    BY <2>1, <2>2, <2>3, <2>4, <2>5 DEF ServerOpenNext
<1>3. LicenseInv => DemandAfterLicense
  BY DEF LicenseInv
<1>4. QED
  BY <1>1, <1>2, <1>3, ActivationTheorem, PTL DEF ServerOpenSpec

=============================================================================
