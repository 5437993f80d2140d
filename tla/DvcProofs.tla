------------------------------ MODULE DvcProofs ------------------------------
(***************************************************************************)
(* Proofs about the dynamic virtual channels of module Dvc, for every      *)
(* number of channels, of messages and of fragments under way: what the    *)
(* readers are given, and the agreement of the two ends on the channels    *)
(* that are open.                                                          *)
(*                                                                         *)
(* The PDUs of one channel are ordered: the create PDU, then the fragments *)
(* of its messages one after the other.  The invariant says that the       *)
(* queues keep this order and that they hold, after the fragment a reader  *)
(* has processed last, every fragment that follows.                        *)
(***************************************************************************)
EXTENDS Dvc, SequenceTheorems, TLAPS

-----------------------------------------------------------------------------
(* The PDUs *)

Units == (Nat \ {0}) \X (1 .. MaxLength)
DataPdus == [cmd : {"DATA_FIRST_PDU"}, id : Ids, total : 1 .. MaxLength, unit : Units]
              \cup [cmd : {"DATA_PDU"}, id : Ids, unit : Units]
DownPdus == {Caps, Quit} \cup [cmd : {"CREATE_REQUEST_PDU", "CLOSE_REQUEST_PDU"}, id : Ids]
              \cup DataPdus
UpPdus == {Caps} \cup [cmd : {"CREATE_REQUEST_PDU"}, id : Ids, ok : BOOLEAN]
              \cup [cmd : {"CLOSE_REQUEST_PDU"}, id : Ids] \cup DataPdus

IsData(p) == p.cmd \in {"DATA_FIRST_PDU", "DATA_PDU"}
IsCreate(p) == p.cmd = "CREATE_REQUEST_PDU"
IsClose(p) == p.cmd = "CLOSE_REQUEST_PDU"
About(c, p) == (IsData(p) \/ IsCreate(p) \/ IsClose(p)) /\ p.id = c
DataOf(c, p) == IsData(p) /\ p.id = c

\* Unit u comes before unit v in what is written to a channel; AtLeast: it does not come before
\* the k-th unit of the n-th message.
UnitBefore(u, v) == u[1] < v[1] \/ (u[1] = v[1] /\ u[2] < v[2])
AtLeast(n, k, u) == u[1] > n \/ (u[1] = n /\ u[2] >= k)

\* The i-th PDU of the m-th message of a log.
Piece(c, log, m, i) == Fragments(c, log[m])[i]

\* p may come before q.  In front of a CLOSE are fragments of the first n + 1 messages, but not the
\* last one of message n + 1, of which length is the length; behind it is none of the first n.
Before(n, length, p, q) ==
    \/ IsCreate(p) /\ ~IsCreate(q)
    \/ IsData(p) /\ IsClose(q) /\ p.unit[1] <= n + 1 /\ p.unit # <<n + 1, length>>
    \/ IsClose(p) /\ IsData(q) /\ q.unit[1] > n
    \/ IsData(p) /\ IsData(q) /\ UnitBefore(p.unit, q.unit)

InOrder(c, n, length, s) ==
    \A i, j \in 1 .. Len(s) :
       i < j /\ About(c, s[i]) /\ About(c, s[j]) => Before(n, length, s[i], s[j])
AllBefore(c, n, length, P, Q) ==
    \A p \in P, q \in Q : About(c, p) /\ About(c, q) => Before(n, length, p, q)

\* s is what is left of f.
Rest(s, f) == Len(s) <= Len(f) /\ \A j \in 1 .. Len(s) : s[j] = f[Len(f) - Len(s) + j]

\* A reader that has been given the first n messages of the log and is in the middle of the next
\* one, or between two of them.
Position(log, n, r) ==
    /\ n <= Len(log)
    /\ \/ r = Nothing
       \/ /\ n < Len(log)
          /\ 0 < Len(r.data) /\ Len(r.data) < Len(log[n + 1])
          /\ r.total = Len(log[n + 1])
          /\ \A i \in 1 .. Len(r.data) : r.data[i] = log[n + 1][i]

\* A PDU with data of c is a fragment of a message of the log.
Valid(c, log, p) ==
    \E m \in 1 .. Len(log) : \E i \in 1 .. Len(log[m]) : p = Piece(c, log, m, i)

\* The reader of c is at Position(log, n, r), and the PDUs that are left are fragments it has not
\* seen: all those of the first last messages, and those of the message after them up to some
\* point.
Place(c, log, last, n, r, left) ==
    LET k == Len(r.data)
    IN  /\ Position(log, n, r)
        /\ \A p \in left : DataOf(c, p) => Valid(c, log, p) /\ AtLeast(n + 1, k + 1, p.unit)
        /\ \A m \in 1 .. last : \A i \in 1 .. Len(log[m]) :
              AtLeast(n + 1, k + 1, <<m, i>>) => Piece(c, log, m, i) \in left
        /\ \A p \in left : DataOf(c, p) /\ p.unit[1] = last + 1 =>
              \A i \in 1 .. p.unit[2] :
                 AtLeast(n + 1, k + 1, <<last + 1, i>>) => Piece(c, log, last + 1, i) \in left

\* The PDUs under way to the client keep their order, and those to be posted come after them.
DownOrder(c, n, wireQueue, managerQueue, P) ==
    /\ InOrder(c, n, 0, wireQueue) /\ InOrder(c, n, 0, managerQueue)
    /\ AllBefore(c, n, 0, Range(wireQueue), Range(managerQueue))
    /\ AllBefore(c, n, 0, Range(wireQueue) \cup Range(managerQueue), P)

\* got holds the first messages of the log.
FirstOf(got, log) == Len(got) <= Len(log) /\ \A m \in 1 .. Len(got) : got[m] = log[m]

-----------------------------------------------------------------------------
(* The inductive invariant *)

Buffers == [total : 0 .. MaxLength, data : Seq(Units)]
Logs == {log \in Seq(Seq(Units)) : IsLog(log)}

TypeInv ==
    /\ vcmState \in {"none", "initialized", "ready"} /\ nextId \in 0 .. MaxId
    /\ queueEvent \in BOOLEAN /\ connected \in BOOLEAN
    /\ dvc \in [Ids -> {"absent", "none", "succeeded", "failed", "closed"}]
    /\ closing \in [Ids -> {"no", "open", "told", "silent"}]
    /\ channel \in [Ids -> {"absent", "running", "closed", "dropped"}]
    /\ clientState \in {"capabilities", "ready"}
    /\ thread \in {"loop", "closing", "quitting", "exited"}
    /\ clientWrites \in [Ids -> Nat]
    /\ queue \in Seq(DownPdus) /\ toClient \in Seq(DownPdus) /\ toServer \in Seq(UpPdus)
    /\ posting \in [Ids -> Seq(DataPdus)] /\ sending \in [Ids -> Seq(DataPdus)]
    /\ reassembly \in [Ids -> Buffers] /\ dvcData \in [Ids -> Buffers]
    /\ readQueue \in [Ids -> Seq(Seq(Units))] /\ serverGot \in [Ids -> Seq(Seq(Units))]
    /\ clientGot \in [Ids -> Seq(Seq(Units))]
    /\ serverSent \in [Ids -> Seq(Seq(Units))] /\ clientSent \in [Ids -> Seq(Seq(Units))]

BufferInv ==
    \A c \in Ids : /\ Len(reassembly[c].data) <= reassembly[c].total
                   /\ Len(dvcData[c].data) <= dvcData[c].total

LogInv == \A c \in Ids : IsLog(serverSent[c]) /\ IsLog(clientSent[c])

\* PDUs on their way to the client, and those that the server has yet to post.
Down == Range(toClient) \cup Range(queue)
Left(c) == Down \cup Range(posting[c])

\* The client has not heard of c.
Fresh(c) == c > nextId \/ Create(c) \in Down

OpenedInv ==
    /\ nextId > 0 => vcmState = "ready"
    /\ \A c \in Ids : c > nextId => /\ dvc[c] = "absent" /\ serverSent[c] = <<>>
                                    /\ \A p \in Down : ~About(c, p)

FreshInv ==
    \A c \in Ids : Fresh(c) =>
        /\ channel[c] = "absent" /\ clientGot[c] = <<>> /\ dvcData[c] = Nothing
        /\ sending[c] = <<>> /\ clientSent[c] = <<>> /\ clientWrites[c] = 0
        /\ closing[c] \in {"no", "silent"} /\ dvc[c] \in {"absent", "none"}
        /\ serverGot[c] = <<>> /\ readQueue[c] = <<>> /\ reassembly[c] = Nothing
        /\ \A p \in Range(toServer) : ~About(c, p)

\* From the server to the client.
PostingInv ==
    \A c \in Ids :
        /\ dvc[c] = "absent" \/ closing[c] # "no" => posting[c] = <<>>
        /\ Close(c) \in Down => closing[c] = "told"
        /\ posting[c] # <<>> => /\ serverSent[c] # <<>>
                                /\ Rest(posting[c], Fragments(c, serverSent[c][Len(serverSent[c])]))

DownLive(c) ==
    LET last == Len(serverSent[c])
    IN  /\ DownOrder(c, last, toClient, queue, Range(posting[c]))
        /\ Place(c, serverSent[c], last, Len(clientGot[c]), dvcData[c], Left(c))
DownInv == \A c \in Ids : Fresh(c) \/ channel[c] = "running" => DownLive(c)

DownGotInv == \A c \in Ids : FirstOf(clientGot[c], serverSent[c])

\* From the client to the server.
Given(c) == serverGot[c] \o Pending(c)

\* The log holds the messages the client has begun to write.  Those that clientSent records come
\* first; then, while the channel runs, at most the one that is being sent, and after its CLOSE any
\* number of others, of which the server must not read anything.
SendingInv(c, log) ==
    LET last == Len(clientSent[c])
    IN  /\ Len(log) = clientWrites[c] /\ FirstOf(clientSent[c], log)
        /\ channel[c] = "absent" => sending[c] = <<>>
        /\ sending[c] # <<>> =>
              \E m \in last + 1 .. Len(log) : Rest(sending[c], Fragments(c, log[m]))
        /\ connected /\ channel[c] = "running" =>
              Len(log) = last + (IF sending[c] = <<>> THEN 0 ELSE 1)

\* The length of the first message that clientSent does not record.
NextLength(log, last) == IF last < Len(log) THEN Len(log[last + 1]) ELSE 0

UpLive(c, log) ==
    LET last == Len(clientSent[c])
        length == NextLength(log, last)
    IN  /\ InOrder(c, last, length, toServer)
        /\ AllBefore(c, last, length, Range(toServer), Range(sending[c]))
        /\ Place(c, log, last, Len(Given(c)), reassembly[c],
                 Range(toServer) \cup Range(sending[c]))
        /\ \A p \in Range(toServer) :
              DataOf(c, p) /\ p.unit[1] > last + 1 => Close(c) \in Range(toServer)
Up(c) ==
    \E log \in Logs :
        /\ SendingInv(c, log)
        /\ connected /\ dvc[c] \in {"none", "succeeded"} => UpLive(c, log)
UpInv == \A c \in Ids : Up(c)

UpGot(c) ==
    /\ FirstOf(Given(c), clientSent[c])
    /\ dvc[c] = "absent" => readQueue[c] = <<>>
    /\ dvc[c] # "closed" => \A j \in 1 .. Len(readQueue[c]) : readQueue[c][j] # EndOfData
    /\ dvc[c] = "closed" =>
          /\ readQueue[c] # <<>>
          /\ \A j \in 1 .. Len(readQueue[c]) :
                readQueue[c][j] = EndOfData <=> j = Len(readQueue[c])
          /\ Len(Given(c)) = Len(clientSent[c])
          /\ channel[c] # "running"
UpGotInv == \A c \in Ids : UpGot(c)

\* What the two ends know of a channel, and what is under way about it.
Ends(c) ==
    /\ Close(c) \in Range(toServer) => channel[c] # "running" /\ dvc[c] # "closed"
    /\ dvc[c] = "none" /\ ~Fresh(c) => \E ok \in BOOLEAN : Created(c, ok) \in Range(toServer)
    /\ \A ok \in BOOLEAN : Created(c, ok) \in Range(toServer) => dvc[c] \in {"absent", "none"}
    /\ (Created(c, TRUE) \in Range(toServer) /\ dvc[c] = "none") \/ dvc[c] = "succeeded" =>
          channel[c] = "running" \/ Close(c) \in Range(toServer)
    /\ Created(c, FALSE) \in Range(toServer) \/ dvc[c] = "failed" =>
          /\ channel[c] = "absent" /\ clientSent[c] = <<>>
          /\ \A p \in Range(toServer) : ~DataOf(c, p) /\ p # Close(c)
EndsInv == \A c \in Ids : connected => Ends(c)

\* What the server's close has found and done, and what has become of the channel.
ClosingInv ==
    \A c \in Ids :
        /\ dvc[c] = "absent" /\ c <= nextId => closing[c] \in {"told", "silent"}
        /\ closing[c] \in {"open", "told"} => dvc[c] \in {"succeeded", "closed", "absent"}
        /\ closing[c] = "told" /\ connected /\ channel[c] = "running" => Close(c) \in Down

IInv ==
    /\ TypeInv /\ BufferInv /\ LogInv
    /\ OpenedInv /\ FreshInv /\ PostingInv
    /\ DownInv /\ DownGotInv /\ UpInv /\ UpGotInv /\ EndsInv /\ ClosingInv

-----------------------------------------------------------------------------
(* Sequences and what they hold *)

LEMMA RangeOf ==
    ASSUME NEW S, NEW s \in Seq(S)
    PROVE  /\ Range(s) \subseteq S
           /\ \A i \in 1 .. Len(s) : s[i] \in Range(s)
           /\ \A p \in Range(s) : \E i \in 1 .. Len(s) : p = s[i]
           /\ s = <<>> => Range(s) = {}
           /\ Range(s) = {} => s = <<>>
BY DEF Range

LEMMA RangeEmpty == Range(<<>>) = {}
BY DEF Range

LEMMA RangeAppend ==
    ASSUME NEW S, NEW s \in Seq(S), NEW x \in S
    PROVE  /\ Append(s, x) \in Seq(S)
           /\ Range(Append(s, x)) = Range(s) \cup {x}
<1> DEFINE t == Append(s, x)
<1>1. /\ t \in Seq(S) /\ Len(t) = Len(s) + 1 /\ t[Len(s) + 1] = x
      /\ \A i \in 1 .. Len(s) : t[i] = s[i]
  OBVIOUS
<1> HIDE DEF t
<1>2. \A p \in Range(t) : p \in Range(s) \cup {x}
  <2> SUFFICES ASSUME NEW p \in Range(t) PROVE p \in Range(s) \cup {x}
    OBVIOUS
  <2>1. PICK i \in 1 .. Len(t) : p = t[i]
    BY <1>1, RangeOf
  <2>2. CASE i = Len(s) + 1
    BY <2>1, <2>2, <1>1
  <2>3. CASE i # Len(s) + 1
    <3>1. i \in 1 .. Len(s)
      BY <2>1, <2>3, <1>1
    <3>2. QED
      BY <2>1, <3>1, <1>1, RangeOf
  <2>4. QED
    BY <2>2, <2>3
<1>3. \A p \in Range(s) \cup {x} : p \in Range(t)
  <2>1. \A p \in Range(s) : p \in Range(t)
    <3> SUFFICES ASSUME NEW p \in Range(s) PROVE p \in Range(t)
      OBVIOUS
    <3>1. PICK i \in 1 .. Len(s) : p = s[i]
      BY RangeOf
    <3>2. p = t[i] /\ i \in 1 .. Len(t)
      BY <3>1, <1>1
    <3>3. QED
      BY <3>2, <1>1, RangeOf
  <2>2. x \in Range(t)
    <3>1. Len(s) + 1 \in 1 .. Len(t)
      BY <1>1
    <3>2. QED
      BY <3>1, <1>1, RangeOf
  <2>3. QED
    BY <2>1, <2>2
<1>4. QED
  BY <1>1, <1>2, <1>3 DEF t

LEMMA TailFacts ==
    ASSUME NEW S, NEW s \in Seq(S), s # <<>>
    PROVE  /\ Head(s) \in S /\ Tail(s) \in Seq(S) /\ Head(s) = s[1]
           /\ Len(s) \in Nat /\ Len(s) > 0 /\ Len(Tail(s)) = Len(s) - 1
           /\ \A i \in 1 .. Len(s) - 1 : Tail(s)[i] = s[i + 1]
OBVIOUS

LEMMA RangeTail ==
    ASSUME NEW S, NEW s \in Seq(S), s # <<>>
    PROVE  Range(s) = {Head(s)} \cup Range(Tail(s))
<1> DEFINE t == Tail(s)
<1>1. /\ t \in Seq(S) /\ Len(s) \in Nat /\ Len(s) > 0 /\ Len(t) = Len(s) - 1 /\ Head(s) = s[1]
      /\ \A i \in 1 .. Len(s) - 1 : t[i] = s[i + 1]
  BY TailFacts
<1> HIDE DEF t
<1>2. \A p \in Range(s) : p \in {Head(s)} \cup Range(t)
  <2> SUFFICES ASSUME NEW p \in Range(s), p # Head(s) PROVE p \in Range(t)
    OBVIOUS
  <2>1. PICK i \in 1 .. Len(s) : p = s[i]
    BY RangeOf
  <2>2. i - 1 \in 1 .. Len(t) /\ p = t[i - 1]
    BY <2>1, <1>1
  <2>3. QED
    BY <2>2, <1>1, RangeOf
<1>3. Head(s) \in Range(s)
  <2>1. 1 \in 1 .. Len(s)
    BY <1>1
  <2>2. QED
    BY <2>1, <1>1, RangeOf
<1>4. \A p \in Range(t) : p \in Range(s)
  <2> SUFFICES ASSUME NEW p \in Range(t) PROVE p \in Range(s)
    OBVIOUS
  <2>1. PICK i \in 1 .. Len(t) : p = t[i]
    BY <1>1, RangeOf
  <2>2. i + 1 \in 1 .. Len(s) /\ p = s[i + 1]
    BY <2>1, <1>1
  <2>3. QED
    BY <2>2, RangeOf
<1>5. QED
  BY <1>2, <1>3, <1>4 DEF t

LEMMA OneMore ==
    ASSUME NEW S, NEW s \in Seq(S), NEW x
    PROVE  s \o <<x>> = Append(s, x)
<1>1. PICK T : T = S \cup {x}
  OBVIOUS
<1>2. s \in Seq(T) /\ x \in T
  BY <1>1
<1>3. QED
  BY <1>2

LEMMA TwoMore ==
    ASSUME NEW S, NEW s \in Seq(S), NEW x, NEW y
    PROVE  s \o (<<x>> \o <<y>>) = Append(Append(s, x), y)
<1>1. PICK T : T = S \cup {x, y}
  OBVIOUS
<1>2. s \in Seq(T) /\ x \in T /\ y \in T
  BY <1>1
<1>3. QED
  BY <1>2

-----------------------------------------------------------------------------
(* The order of the PDUs of a channel *)

LEMMA OrderAppend ==
    ASSUME NEW S, NEW s \in Seq(S), NEW x \in S, NEW c, NEW n, NEW length,
           InOrder(c, n, length, s), AllBefore(c, n, length, Range(s), {x})
    PROVE  InOrder(c, n, length, Append(s, x))
<1> DEFINE t == Append(s, x)
<1>1. /\ Len(s) \in Nat /\ Len(t) = Len(s) + 1 /\ t[Len(s) + 1] = x
      /\ \A i \in 1 .. Len(s) : t[i] = s[i]
  OBVIOUS
<1> HIDE DEF t
<1> SUFFICES ASSUME NEW i \in 1 .. Len(t), NEW j \in 1 .. Len(t), i < j,
                    About(c, t[i]), About(c, t[j])
             PROVE  Before(n, length, t[i], t[j])
  BY DEF InOrder, t
<1>2. i \in 1 .. Len(s) /\ t[i] = s[i] /\ s[i] \in Range(s)
  BY <1>1, RangeOf
<1>3. CASE j = Len(s) + 1
  BY <1>1, <1>2, <1>3 DEF AllBefore
<1>4. CASE j # Len(s) + 1
  <2>1. j \in 1 .. Len(s) /\ t[j] = s[j]
    BY <1>1, <1>4
  <2>2. QED
    BY <2>1, <1>2 DEF InOrder
<1>5. QED
  BY <1>3, <1>4

LEMMA OrderTail ==
    ASSUME NEW S, NEW s \in Seq(S), s # <<>>, NEW c, NEW n, NEW length, InOrder(c, n, length, s)
    PROVE  /\ InOrder(c, n, length, Tail(s))
           /\ AllBefore(c, n, length, {Head(s)}, Range(Tail(s)))
<1> DEFINE t == Tail(s)
<1>1. /\ t \in Seq(S) /\ Len(s) \in Nat /\ Len(s) > 0 /\ Len(t) = Len(s) - 1 /\ Head(s) = s[1]
      /\ \A i \in 1 .. Len(s) - 1 : t[i] = s[i + 1]
  BY TailFacts
<1> HIDE DEF t
<1>2. InOrder(c, n, length, t)
  <2> SUFFICES ASSUME NEW i \in 1 .. Len(t), NEW j \in 1 .. Len(t), i < j,
                      About(c, t[i]), About(c, t[j])
               PROVE  Before(n, length, t[i], t[j])
    BY DEF InOrder
  <2>1. /\ i + 1 \in 1 .. Len(s) /\ j + 1 \in 1 .. Len(s) /\ i + 1 < j + 1
        /\ t[i] = s[i + 1] /\ t[j] = s[j + 1]
    BY <1>1
  <2>2. QED
    BY <2>1 DEF InOrder
<1>3. AllBefore(c, n, length, {Head(s)}, Range(t))
  <2> SUFFICES ASSUME NEW q \in Range(t), About(c, Head(s)), About(c, q)
               PROVE  Before(n, length, Head(s), q)
    BY DEF AllBefore
  <2>1. PICK j \in 1 .. Len(t) : q = t[j]
    BY <1>1, RangeOf
  <2>2. 1 \in 1 .. Len(s) /\ j + 1 \in 1 .. Len(s) /\ 1 < j + 1 /\ q = s[j + 1]
    BY <1>1, <2>1
  <2>3. QED
    BY <1>1, <2>2 DEF InOrder
<1>4. QED
  BY <1>2, <1>3 DEF t

LEMMA OrderEmpty ==
    ASSUME NEW c, NEW n, NEW length
    PROVE  InOrder(c, n, length, <<>>)
BY DEF InOrder

\* Without a CLOSE of the channel the number of messages does not matter.
LEMMA OrderCount ==
    ASSUME NEW S, NEW s \in Seq(S), NEW c, NEW n, NEW length, NEW n2, NEW length2,
           InOrder(c, n, length, s),
           \A p \in Range(s) : About(c, p) => ~IsClose(p)
    PROVE  InOrder(c, n2, length2, s)
<1> SUFFICES ASSUME NEW i \in 1 .. Len(s), NEW j \in 1 .. Len(s), i < j,
                    About(c, s[i]), About(c, s[j])
             PROVE  Before(n2, length2, s[i], s[j])
  BY DEF InOrder
<1>1. Before(n, length, s[i], s[j])
  BY DEF InOrder
<1>2. ~IsClose(s[i]) /\ ~IsClose(s[j])
  BY RangeOf
<1>3. QED
  BY <1>1, <1>2 DEF Before

LEMMA BeforeCount ==
    ASSUME NEW P, NEW Q, NEW c, NEW n, NEW length, NEW n2, NEW length2,
           AllBefore(c, n, length, P, Q),
           \A p \in P \cup Q : About(c, p) => ~IsClose(p)
    PROVE  AllBefore(c, n2, length2, P, Q)
<1> SUFFICES ASSUME NEW p \in P, NEW q \in Q, About(c, p), About(c, q)
             PROVE  Before(n2, length2, p, q)
  BY DEF AllBefore
<1>1. Before(n, length, p, q) /\ ~IsClose(p) /\ ~IsClose(q)
  BY DEF AllBefore
<1>2. QED
  BY <1>1 DEF Before

\* The steps of the way to the client.
LEMMA DownOrderSend ==
    ASSUME NEW S, NEW t \in Seq(S), NEW q \in Seq(S), NEW x \in S, NEW P, NEW P2, NEW c, NEW n,
           DownOrder(c, n, t, q, P), P2 \subseteq P,
           AllBefore(c, n, 0, Range(t) \cup Range(q), {x}), AllBefore(c, n, 0, {x}, P2)
    PROVE  DownOrder(c, n, t, Append(q, x), P2)
<1>1. Range(Append(q, x)) = Range(q) \cup {x}
  BY RangeAppend
<1>2. InOrder(c, n, 0, Append(q, x))
  <2>1. AllBefore(c, n, 0, Range(q), {x})
    BY DEF AllBefore
  <2>2. QED
    BY <2>1, OrderAppend DEF DownOrder
<1>3. QED
  BY <1>1, <1>2 DEF DownOrder, AllBefore

LEMMA DownOrderMove ==
    ASSUME NEW S, NEW t \in Seq(S), NEW q \in Seq(S), q # <<>>, NEW P, NEW c, NEW n,
           DownOrder(c, n, t, q, P)
    PROVE  DownOrder(c, n, Append(t, Head(q)), Tail(q), P)
<1>1. /\ Head(q) \in S /\ Range(Append(t, Head(q))) = Range(t) \cup {Head(q)}
      /\ Range(q) = {Head(q)} \cup Range(Tail(q))
  BY TailFacts, RangeAppend, RangeTail
<1>2. InOrder(c, n, 0, Tail(q)) /\ AllBefore(c, n, 0, {Head(q)}, Range(Tail(q)))
  BY OrderTail DEF DownOrder
<1>3. InOrder(c, n, 0, Append(t, Head(q)))
  <2>1. AllBefore(c, n, 0, Range(t), {Head(q)})
    BY <1>1 DEF DownOrder, AllBefore
  <2>2. QED
    BY <1>1, <2>1, OrderAppend DEF DownOrder
<1>4. QED
  BY <1>1, <1>2, <1>3 DEF DownOrder, AllBefore

LEMMA DownOrderTake ==
    ASSUME NEW S, NEW t \in Seq(S), t # <<>>, NEW q, NEW P, NEW c, NEW n,
           DownOrder(c, n, t, q, P)
    PROVE  /\ DownOrder(c, n, Tail(t), q, P)
           /\ AllBefore(c, n, 0, {Head(t)}, (Range(Tail(t)) \cup Range(q)) \cup P)
<1>1. Range(t) = {Head(t)} \cup Range(Tail(t))
  BY RangeTail
<1>2. InOrder(c, n, 0, Tail(t)) /\ AllBefore(c, n, 0, {Head(t)}, Range(Tail(t)))
  BY OrderTail DEF DownOrder
<1>3. QED
  BY <1>1, <1>2 DEF DownOrder, AllBefore

LEMMA DownOrderQuit ==
    ASSUME NEW S, NEW t \in Seq(S), NEW q, Quit \in S, NEW P, NEW c, NEW n,
           DownOrder(c, n, t, q, P)
    PROVE  DownOrder(c, n, Append(t, Quit), q, P)
<1>1. Range(Append(t, Quit)) = Range(t) \cup {Quit} /\ ~About(c, Quit)
  BY RangeAppend DEF About, Quit, IsData, IsCreate, IsClose
<1>2. InOrder(c, n, 0, Append(t, Quit))
  <2>1. AllBefore(c, n, 0, Range(t), {Quit})
    BY <1>1 DEF AllBefore
  <2>2. QED
    BY <2>1, OrderAppend DEF DownOrder
<1>3. QED
  BY <1>1, <1>2 DEF DownOrder, AllBefore

LEMMA DownOrderCount ==
    ASSUME NEW S, NEW t \in Seq(S), NEW q \in Seq(S), NEW P, NEW c, NEW n, NEW n2,
           DownOrder(c, n, t, q, {}),
           \A p \in Range(t) \cup Range(q) : About(c, p) => ~IsClose(p),
           AllBefore(c, n2, 0, Range(t) \cup Range(q), P)
    PROVE  DownOrder(c, n2, t, q, P)
<1>1. InOrder(c, n2, 0, t)
  BY OrderCount DEF DownOrder
<1>2. InOrder(c, n2, 0, q)
  BY OrderCount DEF DownOrder
<1>3. AllBefore(c, n2, 0, Range(t), Range(q))
  BY BeforeCount DEF DownOrder
<1>4. QED
  BY <1>1, <1>2, <1>3 DEF DownOrder

-----------------------------------------------------------------------------
(* Messages, fragments and logs *)

LEMMA MessageShape ==
    ASSUME NEW n \in Nat \ {0}, NEW length \in 1 .. MaxLength
    PROVE  /\ MessageOf(n, length) \in Seq(Units) /\ Len(MessageOf(n, length)) = length
           /\ \A i \in 1 .. length : MessageOf(n, length)[i] = <<n, i>>
           /\ MessageOf(n, length) # <<>>
<1>1. length \in Nat /\ length > 0
  BY DvcBounds
<1>2. \A i \in 1 .. length : <<n, i>> \in Units
  BY DvcBounds DEF Units
<1>3. MessageOf(n, length) \in [1 .. length -> Units]
  BY <1>2 DEF MessageOf
<1>4. MessageOf(n, length) \in Seq(Units) /\ Len(MessageOf(n, length)) = length
  BY <1>1, <1>3
<1>5. QED
  BY <1>1, <1>4 DEF MessageOf

LEMMA FragmentShape ==
    ASSUME NEW c \in Ids, NEW m \in Seq(Units), NEW i \in 1 .. Len(m), Len(m) <= MaxLength
    PROVE  /\ Fragments(c, m)[i] \in DataPdus
           /\ Fragments(c, m)[i].id = c
           /\ Fragments(c, m)[i].unit = m[i]
           /\ i = 1 /\ Len(m) > 1 => /\ Fragments(c, m)[i].cmd = "DATA_FIRST_PDU"
                                     /\ Fragments(c, m)[i].total = Len(m)
           /\ i # 1 \/ Len(m) <= 1 => Fragments(c, m)[i].cmd = "DATA_PDU"
<1> DEFINE p == Fragments(c, m)[i]
<1>1. Len(m) \in Nat /\ m[i] \in Units /\ i \in Nat
  OBVIOUS
<1>2. p = IF i = 1 /\ Len(m) > 1 THEN DataFirst(c, Len(m), m[1]) ELSE Data(c, m[i])
  BY DEF Fragments
<1> HIDE DEF p
<1>3. CASE i = 1 /\ Len(m) > 1
  <2>1. p = DataFirst(c, Len(m), m[i]) /\ Len(m) \in 1 .. MaxLength
    BY <1>1, <1>2, <1>3, DvcBounds
  <2>2. p \in DataPdus
    BY <1>1, <2>1 DEF DataFirst, DataPdus
  <2>3. QED
    BY <2>1, <2>2, <1>1, <1>3 DEF DataFirst, p
<1>4. CASE ~(i = 1 /\ Len(m) > 1)
  <2>1. p = Data(c, m[i])
    BY <1>2, <1>4
  <2>2. p \in DataPdus
    BY <1>1, <2>1 DEF Data, DataPdus
  <2>3. QED
    BY <2>1, <2>2, <1>1, <1>4 DEF Data, p
<1>5. QED
  BY <1>3, <1>4

LEMMA FragmentsShape ==
    ASSUME NEW c \in Ids, NEW n \in Nat \ {0}, NEW length \in 1 .. MaxLength
    PROVE  /\ Fragments(c, MessageOf(n, length)) \in Seq(DataPdus)
           /\ Len(Fragments(c, MessageOf(n, length))) = length
<1>1. \A i \in 1 .. length : Fragments(c, MessageOf(n, length))[i] \in DataPdus
  BY FragmentShape, MessageShape
<1>2. Len(MessageOf(n, length)) = length /\ length \in Nat
  BY MessageShape, DvcBounds
<1>3. Fragments(c, MessageOf(n, length)) \in [1 .. length -> DataPdus]
  BY <1>1, <1>2 DEF Fragments
<1>4. QED
  BY <1>2, <1>3


LEMMA LogEntry ==
    ASSUME NEW log \in Logs, NEW m \in 1 .. Len(log)
    PROVE  /\ Len(log[m]) \in 1 .. MaxLength /\ log[m] = MessageOf(m, Len(log[m]))
           /\ log[m] \in Seq(Units) /\ log[m] # <<>> /\ m \in Nat \ {0}
           /\ \A i \in 1 .. Len(log[m]) : log[m][i] = <<m, i>>
<1>1. log \in Seq(Seq(Units)) /\ m \in DOMAIN log /\ m \in Nat \ {0}
  BY DEF Logs
<1>2. PICK length \in 1 .. MaxLength : log[m] = MessageOf(m, length)
  BY <1>1 DEF Logs, IsLog
<1>3. QED
  BY <1>1, <1>2, MessageShape

LEMMA PieceShape ==
    ASSUME NEW c \in Ids, NEW log \in Logs, NEW m \in 1 .. Len(log), NEW i \in 1 .. Len(log[m])
    PROVE  /\ Piece(c, log, m, i) \in DataPdus
           /\ DataOf(c, Piece(c, log, m, i)) /\ About(c, Piece(c, log, m, i))
           /\ ~IsCreate(Piece(c, log, m, i)) /\ ~IsClose(Piece(c, log, m, i))
           /\ Piece(c, log, m, i).unit = <<m, i>>
           /\ i = 1 /\ Len(log[m]) > 1 => /\ Piece(c, log, m, i).cmd = "DATA_FIRST_PDU"
                                          /\ Piece(c, log, m, i).total = Len(log[m])
           /\ i # 1 \/ Len(log[m]) <= 1 => Piece(c, log, m, i).cmd = "DATA_PDU"
<1> DEFINE p == Piece(c, log, m, i)
           x == log[m]
<1>1. x \in Seq(Units) /\ Len(x) \in Nat /\ Len(x) <= MaxLength /\ x[i] = <<m, i>>
  BY LogEntry, DvcBounds
<1>2. p = Fragments(c, x)[i] /\ i \in 1 .. Len(x) /\ i \in Nat
  BY DEF Piece
<1> HIDE DEF p, x
<1>3. /\ p \in DataPdus /\ p.id = c /\ p.unit = <<m, i>>
      /\ i = 1 /\ Len(x) > 1 => p.cmd = "DATA_FIRST_PDU" /\ p.total = Len(x)
      /\ i # 1 \/ Len(x) <= 1 => p.cmd = "DATA_PDU"
  BY <1>1, <1>2, FragmentShape
<1>4. IsData(p) /\ ~IsCreate(p) /\ ~IsClose(p)
  <2>1. (i = 1 /\ Len(x) > 1) \/ i # 1 \/ Len(x) <= 1
    BY <1>1
  <2>2. p.cmd = "DATA_FIRST_PDU" \/ p.cmd = "DATA_PDU"
    BY <1>3, <2>1
  <2>3. QED
    BY <2>2 DEF IsData, IsCreate, IsClose
<1>5. DataOf(c, p) /\ About(c, p)
  BY <1>3, <1>4 DEF DataOf, About
<1>6. QED
  BY <1>3, <1>4, <1>5 DEF p, x

LEMMA LogAppend ==
    ASSUME NEW log \in Logs, NEW length \in 1 .. MaxLength
    PROVE  LET log2 == Append(log, MessageOf(Len(log) + 1, length))
           IN  /\ log2 \in Logs /\ Len(log2) = Len(log) + 1 /\ Len(log) \in Nat
               /\ log2[Len(log) + 1] = MessageOf(Len(log) + 1, length)
               /\ Len(log2[Len(log) + 1]) = length
               /\ \A m \in 1 .. Len(log) : log2[m] = log[m]
               /\ \A c, i : \A m \in 1 .. Len(log) : Piece(c, log2, m, i) = Piece(c, log, m, i)
               /\ \A c \in Ids : \A i \in 1 .. length :
                     Piece(c, log2, Len(log) + 1, i).unit = <<Len(log) + 1, i>>
<1> DEFINE x == MessageOf(Len(log) + 1, length)
           log2 == Append(log, x)
<1>1. log \in Seq(Seq(Units)) /\ Len(log) \in Nat
  BY DEF Logs
<1>2. x \in Seq(Units) /\ Len(x) = length
  BY <1>1, MessageShape
<1>3. x = MessageOf(Len(log) + 1, length)
  OBVIOUS
<1> HIDE DEF x
<1>4. /\ log2 \in Seq(Seq(Units)) /\ Len(log2) = Len(log) + 1 /\ log2[Len(log) + 1] = x
      /\ \A m \in 1 .. Len(log) : log2[m] = log[m]
  BY <1>1, <1>2
<1> HIDE DEF log2
<1>5. IsLog(log2)
  <2> SUFFICES ASSUME NEW m \in DOMAIN log2
               PROVE  \E k \in 1 .. MaxLength : log2[m] = MessageOf(m, k)
    BY DEF IsLog
  <2>1. m \in 1 .. Len(log) + 1
    BY <1>4
  <2>2. CASE m = Len(log) + 1
    BY <2>2, <1>3, <1>4
  <2>3. CASE m # Len(log) + 1
    <3>1. m \in 1 .. Len(log)
      BY <2>1, <2>3, <1>1
    <3>2. m \in DOMAIN log
      BY <3>1, <1>1
    <3>3. QED
      BY <3>1, <3>2, <1>4 DEF Logs, IsLog
  <2>4. QED
    BY <2>2, <2>3
<1>6. log2 \in Logs
  BY <1>4, <1>5 DEF Logs
<1>7. ASSUME NEW c \in Ids, NEW i \in 1 .. length
      PROVE  Piece(c, log2, Len(log) + 1, i).unit = <<Len(log) + 1, i>>
  <2>1. PICK m : m = Len(log) + 1
    OBVIOUS
  <2>2. m \in 1 .. Len(log2)
    BY <2>1, <1>1, <1>4
  <2>3. i \in 1 .. Len(log2[m])
    BY <2>1, <1>2, <1>4
  <2>4. Piece(c, log2, m, i).unit = <<m, i>>
    BY <2>2, <2>3, <1>6, PieceShape
  <2>5. QED
    BY <2>1, <2>4
<1>8. QED
  BY <1>1, <1>2, <1>3, <1>4, <1>6, <1>7 DEF Piece, x, log2

-----------------------------------------------------------------------------
(* A reader and the fragments it is given *)

LEMMA ReassembleCases ==
    ASSUME NEW r \in Buffers, NEW unit \in Units
    PROVE  LET x == Reassemble(r, unit)
               d == Append(r.data, unit)
           IN  /\ r.total = 0 => x.rest = Nothing /\ x.done = <<<<unit>>>> /\ x.ok = TRUE
               /\ (r.total > 0 /\ Len(r.data) + 1 > r.total) =>
                     x.rest = Nothing /\ x.done = <<>> /\ x.ok = FALSE
               /\ (r.total > 0 /\ Len(r.data) + 1 = r.total) =>
                     x.rest = Nothing /\ x.done = <<d>> /\ x.ok = TRUE
               /\ (r.total > 0 /\ Len(r.data) + 1 < r.total) =>
                     /\ x.rest.total = r.total /\ x.rest.data = d /\ x.rest \in Buffers
                     /\ x.done = <<>> /\ x.ok = TRUE
<1> DEFINE x == Reassemble(r, unit)
           d == Append(r.data, unit)
<1>1. /\ r.total \in 0 .. MaxLength /\ r.data \in Seq(Units) /\ Len(r.data) \in Nat
      /\ r.total \in Nat
  BY DvcBounds DEF Buffers
<1>2. d \in Seq(Units) /\ Len(d) = Len(r.data) + 1
  BY <1>1
<1>3. x = CASE r.total = 0 -> [rest |-> Nothing, done |-> <<<<unit>>>>, ok |-> TRUE]
            [] r.total > 0 /\ Len(d) > r.total -> [rest |-> Nothing, done |-> <<>>, ok |-> FALSE]
            [] r.total > 0 /\ Len(d) = r.total -> [rest |-> Nothing, done |-> <<d>>, ok |-> TRUE]
            [] OTHER -> [rest |-> [r EXCEPT !.data = d], done |-> <<>>, ok |-> TRUE]
  BY DEF Reassemble
<1> HIDE DEF x, d
<1>4. CASE r.total = 0
  <2>1. x = [rest |-> Nothing, done |-> <<<<unit>>>>, ok |-> TRUE]
    BY <1>1, <1>2, <1>3, <1>4
  <2>2. QED
    BY <2>1, <1>4 DEF x
<1>5. CASE r.total > 0 /\ Len(r.data) + 1 > r.total
  <2>1. x = [rest |-> Nothing, done |-> <<>>, ok |-> FALSE]
    BY <1>1, <1>2, <1>3, <1>5
  <2>2. QED
    BY <2>1, <1>1, <1>5 DEF x
<1>6. CASE r.total > 0 /\ Len(r.data) + 1 = r.total
  <2>1. x = [rest |-> Nothing, done |-> <<d>>, ok |-> TRUE]
    BY <1>1, <1>2, <1>3, <1>6
  <2>2. QED
    BY <2>1, <1>1, <1>6 DEF x, d
<1>7. CASE r.total > 0 /\ Len(r.data) + 1 < r.total
  <2>1. x = [rest |-> [r EXCEPT !.data = d], done |-> <<>>, ok |-> TRUE]
    BY <1>1, <1>2, <1>3, <1>7
  <2>2. /\ [r EXCEPT !.data = d] \in Buffers /\ [r EXCEPT !.data = d].data = d
        /\ [r EXCEPT !.data = d].total = r.total
    BY <1>1, <1>2 DEF Buffers
  <2>3. x.rest = [r EXCEPT !.data = d] /\ x.done = <<>> /\ x.ok = TRUE
    BY <2>1
  <2>4. x.rest.total = r.total /\ x.rest.data = d /\ x.rest \in Buffers
    BY <2>2, <2>3
  <2>5. ~(r.total = 0) /\ ~(Len(r.data) + 1 > r.total) /\ ~(Len(r.data) + 1 = r.total)
    BY <1>1, <1>7
  <2>6. QED
    BY <2>3, <2>4, <2>5, Zenon DEF x, d
<1>8. QED
  BY <1>1, <1>4, <1>5, <1>6, <1>7

LEMMA NothingIsBuffer == Nothing \in Buffers /\ Nothing.total = 0 /\ Len(Nothing.data) = 0
<1>1. 0 \in 0 .. MaxLength
  BY DvcBounds
<1>2. <<>> \in Seq(Units)
  OBVIOUS
<1>3. QED
  BY <1>1, <1>2 DEF Nothing, Buffers

LEMMA ReassembleType ==
    ASSUME NEW r \in Buffers, NEW unit \in Units, Len(r.data) <= r.total
    PROVE  LET x == Reassemble(r, unit)
           IN  /\ x.rest \in Buffers /\ Len(x.rest.data) <= x.rest.total
               /\ x.done \in Seq(Seq(Units)) /\ x.ok \in BOOLEAN
<1> DEFINE x == Reassemble(r, unit)
           d == Append(r.data, unit)
           D == Seq(Units)
<1>1. r.total \in 0 .. MaxLength /\ r.data \in Seq(Units) /\ Len(r.data) \in Nat /\ r.total \in Nat
  BY DvcBounds DEF Buffers
<1>2. d \in D /\ Len(d) = Len(r.data) + 1 /\ <<unit>> \in D
  BY <1>1
<1>3. /\ r.total = 0 => x.rest = Nothing /\ x.done = <<<<unit>>>> /\ x.ok = TRUE
      /\ (r.total > 0 /\ Len(r.data) + 1 > r.total) =>
            x.rest = Nothing /\ x.done = <<>> /\ x.ok = FALSE
      /\ (r.total > 0 /\ Len(r.data) + 1 = r.total) =>
            x.rest = Nothing /\ x.done = <<d>> /\ x.ok = TRUE
      /\ (r.total > 0 /\ Len(r.data) + 1 < r.total) =>
            /\ x.rest.total = r.total /\ x.rest.data = d /\ x.rest \in Buffers
            /\ x.done = <<>> /\ x.ok = TRUE
  BY ReassembleCases
<1> HIDE DEF x, d, D
<1>4. <<<<unit>>>> \in Seq(D) /\ <<d>> \in Seq(D) /\ <<>> \in Seq(D)
  BY <1>2
<1>5. \/ r.total = 0 \/ (r.total > 0 /\ Len(r.data) + 1 > r.total)
      \/ (r.total > 0 /\ Len(r.data) + 1 = r.total)
      \/ (r.total > 0 /\ Len(r.data) + 1 < r.total)
  BY <1>1
<1>6. x.done \in Seq(D) /\ x.ok \in BOOLEAN
  BY <1>3, <1>4, <1>5
<1>7. x.rest \in Buffers
  BY <1>3, <1>5, NothingIsBuffer
<1>8. Len(x.rest.data) <= x.rest.total
  <2>1. CASE x.rest = Nothing
    BY <2>1, NothingIsBuffer
  <2>2. CASE x.rest # Nothing
    BY <2>2, <1>1, <1>2, <1>3, <1>5
  <2>3. QED
    BY <2>1, <2>2
<1>9. QED
  BY <1>6, <1>7, <1>8 DEF x, D

\* A reader that is given the next fragment p.
IsNext(c, log, n, r, p) ==
    /\ c \in Ids /\ log \in Logs /\ n \in Nat /\ r \in Buffers
    /\ Position(log, n, r) /\ n < Len(log) /\ p = Piece(c, log, n + 1, Len(r.data) + 1)

\* It goes on in its message, or it has been given the last fragment and hands out the message.
GoesOn(log, n, k, x) ==
    /\ x.ok = TRUE
    /\ \/ /\ k + 1 < Len(log[n + 1]) /\ x.done = <<>>
          /\ Position(log, n, x.rest) /\ Len(x.rest.data) = k + 1
       \/ /\ k + 1 = Len(log[n + 1]) /\ x.done = <<log[n + 1]>>
          /\ x.rest = Nothing /\ Position(log, n + 1, x.rest)

LEMMA NextPiece ==
    ASSUME NEW c, NEW log, NEW n, NEW r, NEW p, IsNext(c, log, n, r, p),
           NEW x, x = Reassemble(r, p.unit)
    PROVE  /\ p.cmd = "DATA_FIRST_PDU" =>
                 /\ Position(log, n, [total |-> p.total, data |-> <<p.unit>>])
                 /\ Len(r.data) = 0
           /\ p.cmd = "DATA_PDU" => GoesOn(log, n, Len(r.data), x)
<1>i. /\ c \in Ids /\ log \in Logs /\ n \in Nat /\ r \in Buffers
      /\ Position(log, n, r) /\ n < Len(log) /\ p = Piece(c, log, n + 1, Len(r.data) + 1)
  BY DEF IsNext
<1> USE <1>i
<1> DEFINE k == Len(r.data)
           m == log[n + 1]
<1>0. log \in Seq(Seq(Units)) /\ Len(log) \in Nat /\ n + 1 \in 1 .. Len(log)
  BY DEF Logs
<1>1. /\ Len(m) \in 1 .. MaxLength /\ m \in Seq(Units) /\ Len(m) \in Nat /\ Len(m) > 0
      /\ \A i \in 1 .. Len(m) : m[i] = <<n + 1, i>>
  BY <1>0, LogEntry
<1>2. k \in Nat /\ r.total \in 0 .. MaxLength /\ r.data \in Seq(Units) /\ r.total \in Nat
  BY DvcBounds DEF Buffers
<1>3. k < Len(m)
  BY <1>1, NothingIsBuffer DEF Position
<1>4. k + 1 \in 1 .. Len(m)
  BY <1>1, <1>2, <1>3
<1>5. /\ p.unit = <<n + 1, k + 1>> /\ p \in DataPdus
      /\ k = 0 /\ Len(m) > 1 => p.cmd = "DATA_FIRST_PDU" /\ p.total = Len(m)
      /\ k # 0 \/ Len(m) <= 1 => p.cmd = "DATA_PDU"
  <2>1. k + 1 = 1 <=> k = 0
    BY <1>2
  <2>2. QED
    BY <1>0, <1>4, <2>1, PieceShape
<1>6. <<n + 1, k + 1>> \in Units
  <2>1. k + 1 \in 1 .. MaxLength
    BY <1>1, <1>2, <1>3, DvcBounds
  <2>2. n + 1 \in Nat \ {0}
    OBVIOUS
  <2>3. QED
    BY <2>1, <2>2 DEF Units
<1>7. r = Nothing \/ (r.total = Len(m) /\ k > 0 /\ \A i \in 1 .. k : r.data[i] = m[i])
  BY DEF Position
<1>c. /\ r.total = 0 => x.rest = Nothing /\ x.done = <<<<p.unit>>>> /\ x.ok = TRUE
      /\ (r.total > 0 /\ k + 1 = r.total) =>
            x.rest = Nothing /\ x.done = <<Append(r.data, p.unit)>> /\ x.ok = TRUE
      /\ (r.total > 0 /\ k + 1 < r.total) =>
            /\ x.rest.total = r.total /\ x.rest.data = Append(r.data, p.unit)
            /\ x.done = <<>> /\ x.ok = TRUE
  <2>1. p.unit \in Units
    BY <1>5, <1>6
  <2>2. QED
    BY <2>1, ReassembleCases
<1>d. r = Nothing => k = 0 /\ r.total = 0
  BY NothingIsBuffer
<1>e. r.data \in Seq(Units) /\ Len(r.data) = k
  BY <1>2
<1>f. Len(m) > 1 \/ Len(m) = 1
  <2>1. Len(m) \in Nat /\ Len(m) > 0
    BY <1>1, Zenon
  <2>2. \A a \in Nat : a > 0 => a > 1 \/ a = 1
    OBVIOUS
  <2>3. QED
    BY <2>1, <2>2, Zenon
<1>g. \A i \in 1 .. k + 1 : i \in 1 .. k \/ i = k + 1
  BY <1>2
<1> HIDE DEF k, m
<1>8. ASSUME p.cmd = "DATA_FIRST_PDU"
      PROVE  Position(log, n, [total |-> p.total, data |-> <<p.unit>>]) /\ k = 0
  <2> DEFINE f == [total |-> p.total, data |-> <<p.unit>>]
  <2>1. k = 0 /\ Len(m) > 1 /\ p.total = Len(m)
    BY <1>8, <1>5, <1>1, <1>2
  <2>2. Len(<<p.unit>>) = 1 /\ <<p.unit>>[1] = m[1]
    <3>1. m[1] = <<n + 1, 1>>
      BY <1>1, <2>1
    <3>2. p.unit = <<n + 1, 1>>
      BY <1>5, <2>1
    <3>3. QED
      BY <3>1, <3>2
  <2>3. f.total = Len(m) /\ f.data = <<p.unit>>
    BY <2>1
  <2>4. Len(f.data) = 1
    BY <2>2, <2>3
  <2> HIDE DEF f
  <2>5. Position(log, n, f)
    BY <2>1, <2>2, <2>3, <2>4, <1>0, <1>1 DEF Position, m
  <2>6. QED
    BY <2>1, <2>5 DEF f
<1>9. ASSUME p.cmd = "DATA_PDU"
      PROVE  /\ x.ok = TRUE
             /\ \/ /\ k + 1 < Len(m) /\ x.done = <<>>
                   /\ Position(log, n, x.rest) /\ Len(x.rest.data) = k + 1
                \/ /\ k + 1 = Len(m) /\ x.done = <<m>>
                   /\ x.rest = Nothing /\ Position(log, n + 1, x.rest)
  <2>0. Position(log, n + 1, Nothing)
    BY <1>0 DEF Position
  <2>1. CASE r = Nothing
    <3>1. k = 0 /\ r.total = 0 /\ Len(m) = 1
      <4>1. k = 0 /\ r.total = 0
        BY <2>1, <1>d
      <4>2. ~(Len(m) > 1)
        BY <4>1, <1>5, <1>9
      <4>4. Len(m) = 1
        BY <4>2, <1>f, Zenon
      <4>5. QED
        BY <4>1, <4>4
    <3>2. x.rest = Nothing /\ x.done = <<<<p.unit>>>> /\ x.ok = TRUE
      BY <3>1, <1>c
    <3>3. <<p.unit>> = m
      <4>1. p.unit = m[1]
        BY <3>1, <1>1, <1>5
      <4>2. m = <<m[1]>>
        BY <3>1, <1>1
      <4>3. QED
        BY <4>1, <4>2
    <3>4. QED
      BY <3>1, <3>2, <3>3, <2>0
  <2>2. CASE r.total = Len(m) /\ k > 0 /\ \A i \in 1 .. k : r.data[i] = m[i]
    <3> DEFINE d == Append(r.data, p.unit)
    <3>1. d \in Seq(Units) /\ Len(d) = k + 1 /\ d[k + 1] = p.unit
      BY <1>2, <1>5, <1>6, <1>e
    <3>a. \A i \in 1 .. k : d[i] = r.data[i]
      BY <1>5, <1>6, <1>e
    <3> HIDE DEF d
    <3>2. \A i \in 1 .. k + 1 : d[i] = m[i]
      <4> SUFFICES ASSUME NEW i \in 1 .. k + 1 PROVE d[i] = m[i]
        OBVIOUS
      <4>1. CASE i \in 1 .. k
        BY <4>1, <3>a, <2>2
      <4>2. CASE i = k + 1
        BY <4>2, <3>1, <1>1, <1>4, <1>5
      <4>3. QED
        BY <4>1, <4>2, <1>g
    <3>3. CASE k + 1 = Len(m)
      <4>1. x.rest = Nothing /\ x.done = <<d>> /\ x.ok = TRUE
        BY <3>3, <2>2, <1>1, <1>c DEF d
      <4>2. d = m
        BY <3>1, <3>2, <3>3, <1>1
      <4>3. QED
        BY <4>1, <4>2, <2>0, <3>3
    <3>4. CASE k + 1 < Len(m)
      <4>1. x.rest.total = Len(m) /\ x.rest.data = d /\ x.done = <<>> /\ x.ok = TRUE
        BY <3>4, <2>2, <1>1, <1>c DEF d
      <4>2. Position(log, n, x.rest)
        BY <4>1, <3>1, <3>2, <3>4, <1>0, <1>2 DEF Position, m
      <4>3. QED
        BY <4>1, <4>2, <3>1, <3>4
    <3>5. k + 1 = Len(m) \/ k + 1 < Len(m)
      BY <1>1, <1>2, <1>3
    <3>6. QED
      BY <3>3, <3>4, <3>5, Zenon
  <2>3. QED
    BY <2>1, <2>2, <1>7
<1>10. QED
  BY <1>8, <1>9 DEF k, m, GoesOn

-----------------------------------------------------------------------------
(* The place of a reader *)

LEMMA ValidUnit ==
    ASSUME NEW c \in Ids, NEW log \in Logs, NEW p, Valid(c, log, p)
    PROVE  /\ p.unit[1] \in 1 .. Len(log) /\ p.unit[2] \in 1 .. Len(log[p.unit[1]])
           /\ p = Piece(c, log, p.unit[1], p.unit[2])
           /\ DataOf(c, p) /\ p.unit = <<p.unit[1], p.unit[2]>>
<1>1. PICK m \in 1 .. Len(log) : \E i \in 1 .. Len(log[m]) : p = Piece(c, log, m, i)
  BY DEF Valid
<1>2. PICK i \in 1 .. Len(log[m]) : p = Piece(c, log, m, i)
  BY <1>1
<1>3. p.unit = <<m, i>> /\ DataOf(c, p)
  BY <1>2, PieceShape
<1>4. p.unit[1] = m /\ p.unit[2] = i
  BY <1>3
<1>5. QED
  BY <1>2, <1>3, <1>4

LEMMA LogLen == \A log \in Logs : Len(log) \in Nat
BY DEF Logs

\* What is not data of the channel does not matter.
LEMMA PlaceOther ==
    ASSUME NEW c \in Ids, NEW log \in Logs, NEW last \in Nat, last <= Len(log),
           NEW n, NEW r, NEW left, NEW left2, Place(c, log, last, n, r, left),
           \A p : DataOf(c, p) => (p \in left <=> p \in left2)
    PROVE  Place(c, log, last, n, r, left2)
<1> DEFINE k == Len(r.data)
<1>1. Position(log, n, r)
  BY DEF Place
<1>2. \A p \in left2 : DataOf(c, p) => Valid(c, log, p) /\ AtLeast(n + 1, k + 1, p.unit)
  BY DEF Place
<1>3. ASSUME NEW m \in 1 .. last, NEW i \in 1 .. Len(log[m]), AtLeast(n + 1, k + 1, <<m, i>>)
      PROVE  Piece(c, log, m, i) \in left2
  <2>1. m \in 1 .. Len(log)
    OBVIOUS
  <2>2. Piece(c, log, m, i) \in left
    BY <1>3 DEF Place
  <2>3. QED
    BY <2>1, <2>2, PieceShape
<1>4. ASSUME NEW p \in left2, DataOf(c, p), p.unit[1] = last + 1, NEW i \in 1 .. p.unit[2],
             AtLeast(n + 1, k + 1, <<last + 1, i>>)
      PROVE  Piece(c, log, last + 1, i) \in left2
  <2>1. p \in left /\ Valid(c, log, p)
    BY <1>4, <1>2
  <2>2. last + 1 \in 1 .. Len(log) /\ p.unit[2] \in 1 .. Len(log[last + 1])
    BY <1>4, <2>1, ValidUnit
  <2>3. i \in 1 .. Len(log[last + 1])
    <3>1. Len(log[last + 1]) \in Nat
      BY <2>2, LogEntry
    <3>2. QED
      BY <2>2, <3>1
  <2>4. Piece(c, log, last + 1, i) \in left
    BY <1>4, <2>1 DEF Place
  <2>5. QED
    BY <2>2, <2>3, <2>4, PieceShape
<1>5. QED
  BY <1>1, <1>2, <1>3, <1>4 DEF Place

LEMMA PositionInside ==
    ASSUME NEW log \in Logs, NEW n \in Nat, NEW r \in Buffers, Position(log, n, r), n < Len(log)
    PROVE  Len(r.data) < Len(log[n + 1]) /\ Len(log[n + 1]) \in Nat
<1>1. n + 1 \in 1 .. Len(log)
  BY LogLen
<1>2. Len(log[n + 1]) \in 1 .. MaxLength
  BY <1>1, LogEntry
<1>3. QED
  BY <1>2, DvcBounds, NothingIsBuffer DEF Position

\* h is a fragment for a reader, and it comes before all others that are left.
Takes(c, log, last, n, r, h, left2, length) ==
    /\ c \in Ids /\ log \in Logs /\ last \in Nat /\ last <= Len(log)
    /\ n \in Nat /\ n <= last /\ r \in Buffers
    /\ Place(c, log, last, n, r, {h} \cup left2)
    /\ AllBefore(c, last, length, {h}, left2) /\ DataOf(c, h) /\ h.unit[1] <= last + 1

\* The fragment that comes before all others is the one the reader needs next.
LEMMA NextIsHead ==
    ASSUME NEW c, NEW log, NEW last, NEW n, NEW r, NEW h, NEW left2, NEW length,
           Takes(c, log, last, n, r, h, left2, length)
    PROVE  /\ n < Len(log)
           /\ h = Piece(c, log, n + 1, Len(r.data) + 1)
           /\ h \notin left2
           /\ h.unit = <<n + 1, Len(r.data) + 1>>
           /\ Len(r.data) \in Nat /\ Len(r.data) < Len(log[n + 1])
<1>t. /\ c \in Ids /\ log \in Logs /\ last \in Nat /\ last <= Len(log)
      /\ n \in Nat /\ n <= last /\ r \in Buffers
      /\ Place(c, log, last, n, r, {h} \cup left2)
      /\ AllBefore(c, last, length, {h}, left2) /\ DataOf(c, h) /\ h.unit[1] <= last + 1
  BY DEF Takes
<1> USE <1>t
<1> DEFINE left == {h} \cup left2
<1> DEFINE k == Len(r.data)
           e == Piece(c, log, n + 1, k + 1)
           m == h.unit[1]
           i == h.unit[2]
<1>0. k \in Nat /\ Len(log) \in Nat /\ Position(log, n, r)
  BY LogLen DEF Buffers, Place
<1>1. Valid(c, log, h) /\ AtLeast(n + 1, k + 1, h.unit)
  BY DEF Place
<1>2. m \in 1 .. Len(log) /\ i \in 1 .. Len(log[m]) /\ h = Piece(c, log, m, i) /\ h.unit = <<m, i>>
  BY <1>1, ValidUnit
<1>3. m \in Nat /\ i \in Nat /\ (m > n + 1 \/ (m = n + 1 /\ i >= k + 1))
  <2>1. Len(log[m]) \in Nat
    BY <1>2, LogEntry
  <2>2. QED
    BY <1>0, <1>1, <1>2, <2>1 DEF AtLeast
<1>4. n < Len(log) /\ n + 1 \in 1 .. Len(log)
  BY <1>0, <1>2, <1>3
<1>5. k < Len(log[n + 1]) /\ Len(log[n + 1]) \in Nat
  BY <1>0, <1>4, PositionInside
<1>6. k + 1 \in 1 .. Len(log[n + 1])
  BY <1>0, <1>5
<1>7. e.unit = <<n + 1, k + 1>> /\ About(c, e) /\ IsData(e) /\ ~IsClose(e) /\ ~IsCreate(e)
  BY <1>4, <1>6, PieceShape DEF DataOf
<1>8. IsData(h) /\ About(c, h) /\ ~IsClose(h) /\ ~IsCreate(h)
  BY DEF DataOf, About, IsData, IsClose, IsCreate
<1>9. e \in left
  <2>a. AtLeast(n + 1, k + 1, <<n + 1, k + 1>>)
    BY <1>0 DEF AtLeast
  <2>1. CASE n + 1 <= last
    <3>1. n + 1 \in 1 .. last
      BY <2>1
    <3>2. QED
      BY <3>1, <2>a, <1>6 DEF Place
  <2>2. CASE n = last
    <3>1. m = last + 1 /\ h.unit[1] = last + 1
      BY <2>2, <1>2, <1>3
    <3>2. k + 1 \in 1 .. i
      BY <1>0, <1>3, <3>1, <2>2
    <3>3. QED
      BY <2>a, <2>2, <3>1, <3>2 DEF Place
  <2>3. QED
    BY <2>1, <2>2
<1>10. h \notin left2
  <2> SUFFICES ASSUME h \in left2 PROVE FALSE
    OBVIOUS
  <2>1. Before(last, length, h, h)
    BY <1>8 DEF AllBefore
  <2>2. QED
    BY <2>1, <1>2, <1>3, <1>8 DEF Before, UnitBefore
<1>11. h = e
  <2> SUFFICES ASSUME h # e PROVE FALSE
    OBVIOUS
  <2>1. Before(last, length, h, e)
    BY <1>7, <1>8, <1>9 DEF AllBefore
  <2>2. UnitBefore(h.unit, e.unit)
    BY <2>1, <1>7, <1>8 DEF Before
  <2>3. QED
    BY <2>2, <1>0, <1>2, <1>3, <1>7 DEF UnitBefore
<1>12. QED
  BY <1>0, <1>4, <1>5, <1>7, <1>10, <1>11

\* The reader goes on to the fragment after that.
LEMMA PlaceAfter ==
    ASSUME NEW c, NEW log, NEW last, NEW n, NEW r, NEW h, NEW left2, NEW length,
           Takes(c, log, last, n, r, h, left2, length),
           NEW n2, NEW r2, Position(log, n2, r2),
           \/ n2 = n /\ Len(r2.data) = Len(r.data) + 1
           \/ n2 = n + 1 /\ Len(r2.data) = 0 /\ Len(r.data) + 1 = Len(log[n + 1])
    PROVE  Place(c, log, last, n2, r2, left2)
<1>t. /\ c \in Ids /\ log \in Logs /\ last \in Nat /\ last <= Len(log)
      /\ n \in Nat /\ n <= last /\ r \in Buffers
      /\ Place(c, log, last, n, r, {h} \cup left2)
      /\ AllBefore(c, last, length, {h}, left2) /\ DataOf(c, h) /\ h.unit[1] <= last + 1
  BY DEF Takes
<1> USE <1>t
<1> DEFINE left == {h} \cup left2
<1> DEFINE k == Len(r.data)
           k2 == Len(r2.data)
<1>0. k \in Nat /\ k2 \in Nat /\ n2 \in Nat /\ Len(log) \in Nat
  BY LogLen DEF Buffers
<1>1. /\ n < Len(log) /\ h \notin left2 /\ h.unit = <<n + 1, k + 1>> /\ k < Len(log[n + 1])
  BY NextIsHead
<1>2. n + 1 \in 1 .. Len(log) /\ Len(log[n + 1]) \in Nat
  BY <1>0, <1>1, LogEntry
<1> HIDE DEF k, k2
<1>u. \/ n2 = n /\ k2 = k + 1
      \/ n2 = n + 1 /\ k2 = 0 /\ k + 1 = Len(log[n + 1])
  BY DEF k, k2
<1>v. \A p \in left2 : DataOf(c, p) => Valid(c, log, p) /\ AtLeast(n + 1, k + 1, p.unit)
  BY DEF Place, k
\* What the reader still needs after the step it needed before, and it is not h.
<1>a. ASSUME NEW m \in Nat, NEW i \in Nat, AtLeast(n2 + 1, k2 + 1, <<m, i>>)
      PROVE  AtLeast(n + 1, k + 1, <<m, i>>) /\ <<m, i>> # <<n + 1, k + 1>>
  <2>1. m > n2 + 1 \/ (m = n2 + 1 /\ i >= k2 + 1)
    BY <1>a DEF AtLeast
  <2>2. (m > n + 1 \/ (m = n + 1 /\ i >= k + 1)) /\ ~(m = n + 1 /\ i = k + 1)
    BY <1>0, <1>u, <2>1
  <2>3. QED
    BY <2>2 DEF AtLeast
<1>3. ASSUME NEW p \in left2, DataOf(c, p) PROVE AtLeast(n2 + 1, k2 + 1, p.unit)
  <2> DEFINE m == p.unit[1]
             i == p.unit[2]
  <2>1. m \in 1 .. Len(log) /\ i \in 1 .. Len(log[m]) /\ p.unit = <<m, i>>
    BY <1>3, <1>v, ValidUnit
  <2>2. Len(log[m]) \in Nat /\ m \in Nat /\ i \in Nat /\ i > 0
    BY <2>1, <1>0, LogEntry
  <2>3. Before(last, length, h, p)
    BY <1>3 DEF AllBefore, About, DataOf
  <2>4. UnitBefore(h.unit, p.unit)
    BY <2>3, <1>3 DEF Before, DataOf, IsData, IsCreate, IsClose
  <2> HIDE DEF m, i
  <2>5. n + 1 < m \/ (n + 1 = m /\ k + 1 < i)
    BY <2>1, <2>4, <1>1 DEF UnitBefore
  <2>6. n + 1 = m => i <= Len(log[n + 1])
    BY <2>1, <2>2
  <2>7. m > n2 + 1 \/ (m = n2 + 1 /\ i >= k2 + 1)
    BY <2>2, <2>5, <2>6, <1>0, <1>2, <1>u
  <2>8. QED
    BY <2>1, <2>7 DEF AtLeast
<1>4. ASSUME NEW m \in 1 .. last, NEW i \in 1 .. Len(log[m]), AtLeast(n2 + 1, k2 + 1, <<m, i>>)
      PROVE  Piece(c, log, m, i) \in left2
  <2>1. m \in 1 .. Len(log) /\ Len(log[m]) \in Nat /\ m \in Nat
    BY LogEntry
  <2>2. i \in Nat
    BY <2>1
  <2>3. AtLeast(n + 1, k + 1, <<m, i>>) /\ <<m, i>> # <<n + 1, k + 1>>
    BY <2>1, <2>2, <1>4, <1>a
  <2>4. Piece(c, log, m, i) \in left
    BY <2>3 DEF Place, k
  <2>5. Piece(c, log, m, i) # h
    BY <2>1, <2>3, <1>1, PieceShape
  <2>6. QED
    BY <2>4, <2>5
<1>5. ASSUME NEW p \in left2, DataOf(c, p), p.unit[1] = last + 1, NEW i \in 1 .. p.unit[2],
             AtLeast(n2 + 1, k2 + 1, <<last + 1, i>>)
      PROVE  Piece(c, log, last + 1, i) \in left2
  <2>1. Valid(c, log, p) /\ p \in left
    BY <1>5, <1>v
  <2>2. last + 1 \in 1 .. Len(log) /\ p.unit[2] \in 1 .. Len(log[last + 1])
    BY <1>5, <2>1, ValidUnit
  <2>3. i \in 1 .. Len(log[last + 1]) /\ i \in Nat
    <3>1. Len(log[last + 1]) \in Nat
      BY <2>2, LogEntry
    <3>2. QED
      BY <2>2, <3>1
  <2>4. AtLeast(n + 1, k + 1, <<last + 1, i>>) /\ <<last + 1, i>> # <<n + 1, k + 1>>
    BY <2>3, <1>5, <1>a
  <2>5. Piece(c, log, last + 1, i) \in left
    BY <2>1, <2>4, <1>5 DEF Place, k
  <2>6. Piece(c, log, last + 1, i) # h
    BY <2>2, <2>3, <2>4, <1>1, PieceShape
  <2>7. QED
    BY <2>5, <2>6
<1>6. QED
  BY <1>v, <1>3, <1>4, <1>5 DEF Place, k, k2

LEMMA TakeFirst ==
    ASSUME NEW c, NEW log, NEW last, NEW n, NEW r, NEW h, NEW left2, NEW length,
           Takes(c, log, last, n, r, h, left2, length), h.cmd = "DATA_FIRST_PDU"
    PROVE  Place(c, log, last, n, [total |-> h.total, data |-> <<h.unit>>], left2)
<1> DEFINE f == [total |-> h.total, data |-> <<h.unit>>]
<1>1. n < Len(log) /\ h = Piece(c, log, n + 1, Len(r.data) + 1)
  BY NextIsHead
<1>2. c \in Ids /\ log \in Logs /\ n \in Nat /\ r \in Buffers /\ Position(log, n, r)
  BY DEF Takes, Place
<1>n. IsNext(c, log, n, r, h)
  BY <1>1, <1>2 DEF IsNext
<1>3. Position(log, n, f) /\ Len(f.data) = Len(r.data) + 1
  <2>1. PICK x : x = Reassemble(r, h.unit)
    OBVIOUS
  <2>2. Position(log, n, f) /\ Len(r.data) = 0
    BY <2>1, <1>n, NextPiece
  <2>3. Len(f.data) = 1
    OBVIOUS
  <2>4. QED
    BY <2>2, <2>3
<1> HIDE DEF f
<1>4. QED
  BY <1>3, PlaceAfter DEF f

\* What the reader makes of it: it waits for more, or it is given the message.
TookData(c, log, last, n, h, left2, x) ==
    /\ x.ok = TRUE
    /\ \/ x.done = <<>> /\ Place(c, log, last, n, x.rest, left2)
       \/ /\ x.done = <<log[n + 1]>> /\ n + 1 \in 1 .. Len(log)
          /\ h.unit = <<n + 1, Len(log[n + 1])>>
          /\ x.rest = Nothing /\ Place(c, log, last, n + 1, x.rest, left2)

LEMMA TakeData ==
    ASSUME NEW c, NEW log, NEW last, NEW n, NEW r, NEW h, NEW left2, NEW length, NEW x,
           Takes(c, log, last, n, r, h, left2, length), h.cmd = "DATA_PDU",
           x = Reassemble(r, h.unit)
    PROVE  TookData(c, log, last, n, h, left2, x)
<1> DEFINE k == Len(r.data)
<1>1. /\ n < Len(log) /\ h = Piece(c, log, n + 1, k + 1)
      /\ h.unit = <<n + 1, k + 1>>
  BY NextIsHead
<1>2. /\ c \in Ids /\ log \in Logs /\ n \in Nat /\ r \in Buffers /\ Position(log, n, r)
      /\ Len(log) \in Nat
  BY LogLen DEF Takes, Place
<1>3. /\ x.ok = TRUE
      /\ \/ /\ k + 1 < Len(log[n + 1]) /\ x.done = <<>>
            /\ Position(log, n, x.rest) /\ Len(x.rest.data) = k + 1
         \/ /\ k + 1 = Len(log[n + 1]) /\ x.done = <<log[n + 1]>>
            /\ x.rest = Nothing /\ Position(log, n + 1, x.rest)
  <2>1. IsNext(c, log, n, r, h)
    BY <1>1, <1>2 DEF IsNext
  <2>2. GoesOn(log, n, Len(r.data), x)
    BY <2>1, NextPiece
  <2>3. QED
    BY <2>2 DEF GoesOn
<1>4. CASE x.done = <<>> /\ Position(log, n, x.rest) /\ Len(x.rest.data) = k + 1
  <2>1. Place(c, log, last, n, x.rest, left2)
    BY <1>4, PlaceAfter
  <2>2. QED
    BY <1>3, <1>4, <2>1 DEF TookData
<1>5. CASE /\ k + 1 = Len(log[n + 1]) /\ x.done = <<log[n + 1]>>
           /\ x.rest = Nothing /\ Position(log, n + 1, x.rest)
  <2>1. Len(x.rest.data) = 0
    BY <1>5, NothingIsBuffer
  <2>2. Place(c, log, last, n + 1, x.rest, left2)
    BY <2>1, <1>5, PlaceAfter
  <2>3. n + 1 \in 1 .. Len(log)
    BY <1>1, <1>2
  <2>4. QED
    BY <2>2, <2>3, <1>1, <1>3, <1>5 DEF TookData
<1>6. QED
  BY <1>3, <1>4, <1>5

\* A message is written: all its fragments are to be posted.
LEMMA PlaceWrite ==
    ASSUME NEW c \in Ids, NEW log \in Logs, NEW length \in 1 .. MaxLength, NEW n \in Nat,
           NEW r \in Buffers, NEW left, NEW log2, NEW f,
           log2 = Append(log, MessageOf(Len(log) + 1, length)),
           f = Fragments(c, MessageOf(Len(log) + 1, length)),
           Place(c, log, Len(log), n, r, left)
    PROVE  Place(c, log2, Len(log) + 1, n, r, left \cup Range(f))
<1> DEFINE last == Len(log)
           k == Len(r.data)
<1>1. /\ log2 \in Logs /\ Len(log2) = last + 1 /\ last \in Nat
      /\ log2[last + 1] = MessageOf(last + 1, length) /\ Len(log2[last + 1]) = length
      /\ \A i \in 1 .. length : Piece(c, log2, last + 1, i).unit = <<last + 1, i>>
      /\ \A m \in 1 .. last : log2[m] = log[m]
      /\ \A i : \A m \in 1 .. last : Piece(c, log2, m, i) = Piece(c, log, m, i)
  BY LogAppend
<1>2. f \in Seq(DataPdus) /\ Len(f) = length /\ length \in Nat
  BY <1>1, FragmentsShape, DvcBounds
<1>3. \A i : f[i] = Piece(c, log2, last + 1, i)
  BY <1>1 DEF Piece
<1>p. Position(log, n, r) /\ k \in Nat
  BY DEF Place, Buffers
<1> HIDE DEF last, k
<1>4. Position(log2, n, r) /\ n <= last /\ (n = last => k = 0)
  <2>1. CASE r = Nothing
    BY <2>1, <1>1, <1>p, NothingIsBuffer DEF Position, last, k
  <2>2. CASE r # Nothing
    <3>1. n + 1 \in 1 .. last /\ n < Len(log)
      BY <2>2, <1>1, <1>p DEF Position, last
    <3>2. log2[n + 1] = log[n + 1]
      BY <3>1, <1>1
    <3>3. QED
      BY <2>2, <3>1, <3>2, <1>1, <1>p DEF Position, last
  <2>3. QED
    BY <2>1, <2>2
<1>5. ASSUME NEW p \in left \cup Range(f), DataOf(c, p)
      PROVE  Valid(c, log2, p) /\ AtLeast(n + 1, k + 1, p.unit)
  <2>1. CASE p \in left
    <3>1. Valid(c, log, p) /\ AtLeast(n + 1, k + 1, p.unit)
      BY <2>1, <1>5 DEF Place, k
    <3>2. /\ p.unit[1] \in 1 .. last /\ p.unit[2] \in 1 .. Len(log[p.unit[1]])
          /\ p = Piece(c, log, p.unit[1], p.unit[2])
      BY <3>1, ValidUnit DEF last
    <3>3. /\ p.unit[1] \in 1 .. Len(log2) /\ p.unit[2] \in 1 .. Len(log2[p.unit[1]])
          /\ p = Piece(c, log2, p.unit[1], p.unit[2])
      BY <3>2, <1>1
    <3>4. QED
      BY <3>1, <3>3 DEF Valid
  <2>2. CASE p \in Range(f)
    <3>1. PICK i \in 1 .. length : p = f[i]
      BY <2>2, <1>2, RangeOf
    <3>2. p = Piece(c, log2, last + 1, i) /\ last + 1 \in 1 .. Len(log2)
      BY <3>1, <1>1, <1>3
    <3>3. p.unit = <<last + 1, i>>
      BY <3>1, <3>2, <1>1
    <3>4. last + 1 > n + 1 \/ (last + 1 = n + 1 /\ i >= k + 1)
      BY <1>1, <1>2, <1>4
    <3>5. QED
      <4>1. i \in 1 .. Len(log2[last + 1])
        BY <1>1
      <4>2. Valid(c, log2, p)
        BY <4>1, <3>2, Zenon DEF Valid
      <4>3. AtLeast(n + 1, k + 1, p.unit)
        BY <3>3, <3>4 DEF AtLeast
      <4>4. QED
        BY <4>2, <4>3
  <2>3. QED
    BY <2>1, <2>2
<1>6. ASSUME NEW m \in 1 .. last + 1, NEW i \in 1 .. Len(log2[m]), AtLeast(n + 1, k + 1, <<m, i>>)
      PROVE  Piece(c, log2, m, i) \in left \cup Range(f)
  <2>1. CASE m = last + 1
    BY <2>1, <1>1, <1>2, <1>3, RangeOf
  <2>2. CASE m # last + 1
    <3>1. m \in 1 .. last
      BY <2>2, <1>1
    <3>2. QED
      BY <3>1, <1>1, <1>6 DEF Place, last, k
  <2>3. QED
    BY <2>1, <2>2
<1>7. ASSUME NEW p \in left \cup Range(f), DataOf(c, p), p.unit[1] = (last + 1) + 1
      PROVE  FALSE
  <2>1. p.unit[1] \in 1 .. Len(log2)
    BY <1>1, <1>5, <1>7, ValidUnit
  <2>2. QED
    BY <2>1, <1>1, <1>7
<1>8. QED
  BY <1>4, <1>5, <1>6, <1>7 DEF Place, last, k

\* The last fragment is there, so all are.
LEMMA PlaceMore ==
    ASSUME NEW c \in Ids, NEW log \in Logs, NEW last \in Nat, last + 1 <= Len(log), NEW n, NEW r,
           NEW left, Place(c, log, last, n, r, left),
           \A p \in left : DataOf(c, p) => p.unit[1] <= last + 1,
           Piece(c, log, last + 1, Len(log[last + 1])) \in left
    PROVE  Place(c, log, last + 1, n, r, left)
<1> DEFINE k == Len(r.data)
           z == Piece(c, log, last + 1, Len(log[last + 1]))
<1>1. /\ Position(log, n, r)
      /\ \A p \in left : DataOf(c, p) => Valid(c, log, p) /\ AtLeast(n + 1, k + 1, p.unit)
  BY DEF Place
<1>2. last + 1 \in 1 .. Len(log) /\ Len(log[last + 1]) \in 1 .. Len(log[last + 1])
  <2>1. last + 1 \in 1 .. Len(log)
    BY LogLen
  <2>2. Len(log[last + 1]) \in 1 .. MaxLength
    BY <2>1, LogEntry
  <2>3. QED
    BY <2>1, <2>2, DvcBounds
<1>3. DataOf(c, z) /\ z.unit = <<last + 1, Len(log[last + 1])>>
  BY <1>2, PieceShape
<1>4. z.unit[1] = last + 1 /\ z.unit[2] = Len(log[last + 1])
  BY <1>3
<1>5. ASSUME NEW m \in 1 .. last + 1, NEW i \in 1 .. Len(log[m]), AtLeast(n + 1, k + 1, <<m, i>>)
      PROVE  Piece(c, log, m, i) \in left
  <2>1. CASE m = last + 1
    BY <2>1, <1>3, <1>4, <1>5 DEF Place
  <2>2. CASE m # last + 1
    <3>1. m \in 1 .. last
      BY <2>2
    <3>2. QED
      BY <3>1, <1>5 DEF Place
  <2>3. QED
    BY <2>1, <2>2
<1>6. ASSUME NEW p \in left, DataOf(c, p), p.unit[1] = (last + 1) + 1
      PROVE  FALSE
  <2>1. p.unit[1] <= last + 1
    BY <1>6
  <2>2. QED
    BY <2>1, <1>6
<1>7. QED
  BY <1>1, <1>5, <1>6 DEF Place

\* A message is begun: of the first messages none is missing, whatever there is of the new one.
LEMMA PlaceGrow ==
    ASSUME NEW c \in Ids, NEW log \in Logs, NEW length \in 1 .. MaxLength, NEW n \in Nat,
           NEW r \in Buffers, NEW last \in Nat, last <= Len(log), n <= last,
           NEW left, NEW log2, log2 = Append(log, MessageOf(Len(log) + 1, length)),
           NEW new, new = {} \/ new = Range(Fragments(c, MessageOf(Len(log) + 1, length))),
           Place(c, log, last, n, r, left)
    PROVE  Place(c, log2, last, n, r, left \cup new)
<1> DEFINE z == Len(log)
           k == Len(r.data)
           f == Fragments(c, MessageOf(Len(log) + 1, length))
<1>1. /\ log2 \in Logs /\ Len(log2) = z + 1 /\ z \in Nat
      /\ log2[z + 1] = MessageOf(z + 1, length) /\ Len(log2[z + 1]) = length
      /\ \A i \in 1 .. length : Piece(c, log2, z + 1, i).unit = <<z + 1, i>>
      /\ \A m \in 1 .. z : log2[m] = log[m]
      /\ \A i : \A m \in 1 .. z : Piece(c, log2, m, i) = Piece(c, log, m, i)
  BY LogAppend
<1>f. f \in Seq(DataPdus) /\ Len(f) = length /\ length \in Nat
  BY <1>1, FragmentsShape, DvcBounds
<1>g. \A i : f[i] = Piece(c, log2, z + 1, i)
  BY <1>1 DEF Piece
<1>h. new = {} \/ new = Range(f)
  OBVIOUS
<1>p. Position(log, n, r) /\ k \in Nat
  BY DEF Place, Buffers
<1> HIDE DEF z, f, k
<1>2. Position(log2, n, r) /\ (n = z => k = 0)
  <2>1. CASE r = Nothing
    BY <2>1, <1>1, <1>p, NothingIsBuffer DEF Position, z, k
  <2>2. CASE r # Nothing
    <3>1. n + 1 \in 1 .. z /\ n < Len(log)
      BY <2>2, <1>1, <1>p DEF Position, z
    <3>2. log2[n + 1] = log[n + 1]
      BY <3>1, <1>1
    <3>3. QED
      BY <2>2, <3>1, <3>2, <1>1, <1>p DEF Position, z
  <2>3. QED
    BY <2>1, <2>2
<1>3. ASSUME NEW p \in left, DataOf(c, p)
      PROVE  /\ Valid(c, log2, p) /\ AtLeast(n + 1, k + 1, p.unit) /\ p.unit[1] \in 1 .. z
             /\ p.unit[2] \in 1 .. Len(log[p.unit[1]])
  <2>1. Valid(c, log, p) /\ AtLeast(n + 1, k + 1, p.unit)
    BY <1>3 DEF Place, k
  <2>2. /\ p.unit[1] \in 1 .. z /\ p.unit[2] \in 1 .. Len(log[p.unit[1]])
        /\ p = Piece(c, log, p.unit[1], p.unit[2])
    BY <2>1, ValidUnit DEF z
  <2>3. /\ p.unit[1] \in 1 .. Len(log2) /\ p.unit[2] \in 1 .. Len(log2[p.unit[1]])
        /\ p = Piece(c, log2, p.unit[1], p.unit[2])
    BY <2>2, <1>1
  <2>4. QED
    BY <2>1, <2>2, <2>3, <1>1 DEF Valid
<1>4. ASSUME NEW p \in new
      PROVE  /\ Valid(c, log2, p) /\ AtLeast(n + 1, k + 1, p.unit) /\ p.unit[1] = z + 1
             /\ p.unit[2] \in 1 .. length
  <2>1. PICK i \in 1 .. length : p = f[i]
    BY <1>4, <1>f, <1>h, RangeOf
  <2>2. p = Piece(c, log2, z + 1, i) /\ z + 1 \in 1 .. Len(log2)
    BY <2>1, <1>1, <1>g
  <2>3. p.unit = <<z + 1, i>>
    BY <2>1, <2>2, <1>1
  <2>4. z + 1 > n + 1 \/ (z + 1 = n + 1 /\ i >= k + 1)
    BY <1>1, <1>2, <1>f DEF z
  <2>5. i \in 1 .. Len(log2[z + 1])
    BY <1>1
  <2>6. Valid(c, log2, p)
    BY <2>2, <2>5, Zenon DEF Valid
  <2>7. AtLeast(n + 1, k + 1, p.unit)
    BY <2>3, <2>4 DEF AtLeast
  <2>8. QED
    BY <2>3, <2>6, <2>7
<1>5. ASSUME NEW m \in 1 .. last, NEW i \in 1 .. Len(log2[m]), AtLeast(n + 1, k + 1, <<m, i>>)
      PROVE  Piece(c, log2, m, i) \in left
  <2>1. m \in 1 .. z
    BY <1>1 DEF z
  <2>2. QED
    BY <2>1, <1>1, <1>5 DEF Place, k
<1>6. ASSUME NEW p \in left \cup new, DataOf(c, p), p.unit[1] = last + 1, NEW i \in 1 .. p.unit[2],
             AtLeast(n + 1, k + 1, <<last + 1, i>>)
      PROVE  Piece(c, log2, last + 1, i) \in left \cup new
  <2>1. CASE p \in left
    <3>1. last + 1 \in 1 .. z
      BY <2>1, <1>3, <1>6
    <3>2. Piece(c, log, last + 1, i) \in left
      BY <2>1, <1>6 DEF Place, k
    <3>3. QED
      BY <3>1, <3>2, <1>1
  <2>2. CASE p \in new
    <3>1. last + 1 = z + 1 /\ p.unit[2] \in 1 .. length
      BY <2>2, <1>4, <1>6
    <3>2. i \in 1 .. length
      BY <3>1, <1>f
    <3>3. f[i] \in Range(f) /\ f[i] = Piece(c, log2, last + 1, i)
      BY <3>1, <3>2, <1>f, <1>g, RangeOf
    <3>4. new = Range(f)
      BY <2>2, <1>h
    <3>5. QED
      BY <3>3, <3>4
  <2>3. QED
    BY <2>1, <2>2
<1>7. QED
  BY <1>2, <1>3, <1>4, <1>5, <1>6 DEF Place, k

\* A reader before the first message.
LEMMA PlaceNone ==
    ASSUME NEW c \in Ids, NEW log, Len(log) \in Nat, NEW left, \A p \in left : ~DataOf(c, p)
    PROVE  Place(c, log, 0, 0, Nothing, left)
BY DEF Place, Position

-----------------------------------------------------------------------------
(* Kinds of PDUs *)

LEMMA DataPduFields ==
    ASSUME NEW p \in DataPdus
    PROVE  /\ p.id \in Ids /\ p.unit \in Units
           /\ p.cmd \in {"DATA_FIRST_PDU", "DATA_PDU"}
           /\ p.cmd = "DATA_FIRST_PDU" => p.total \in 1 .. MaxLength
           /\ IsData(p) /\ ~IsCreate(p) /\ ~IsClose(p)
           /\ \A c : About(c, p) <=> DataOf(c, p)
           /\ \A c : p # Close(c) /\ p # Create(c) /\ p # Caps /\ p # Quit
           /\ \A c, ok : p # Created(c, ok)
<1>1. /\ p.id \in Ids /\ p.unit \in Units
      /\ p.cmd \in {"DATA_FIRST_PDU", "DATA_PDU"}
      /\ p.cmd = "DATA_FIRST_PDU" => p.total \in 1 .. MaxLength
  BY DEF DataPdus
<1>2. IsData(p) /\ ~IsCreate(p) /\ ~IsClose(p)
  BY <1>1 DEF IsData, IsCreate, IsClose
<1>3. \A c : About(c, p) <=> DataOf(c, p)
  BY <1>2 DEF About, DataOf
<1>4. \A c : p.cmd # Close(c).cmd /\ p.cmd # Create(c).cmd /\ p.cmd # Caps.cmd /\ p.cmd # Quit.cmd
  BY <1>1 DEF Close, Create, Caps, Quit
<1>5. \A c, ok : p.cmd # Created(c, ok).cmd
  BY <1>1 DEF Created
<1>6. QED
  BY <1>1, <1>2, <1>3, <1>4, <1>5

LEMMA PduKinds ==
    /\ \A c : IsCreate(Create(c)) /\ ~IsData(Create(c)) /\ ~IsClose(Create(c)) /\ Create(c).id = c
    /\ \A c, ok : /\ IsCreate(Created(c, ok)) /\ ~IsData(Created(c, ok))
                  /\ ~IsClose(Created(c, ok)) /\ Created(c, ok).id = c /\ Created(c, ok).ok = ok
    /\ \A c : IsClose(Close(c)) /\ ~IsData(Close(c)) /\ ~IsCreate(Close(c)) /\ Close(c).id = c
    /\ ~IsClose(Caps) /\ ~IsData(Caps) /\ ~IsCreate(Caps)
    /\ ~IsClose(Quit) /\ ~IsData(Quit) /\ ~IsCreate(Quit)
BY DEF IsCreate, IsData, IsClose, Create, Created, Close, Caps, Quit

LEMMA AboutKinds ==
    /\ \A c, d : About(c, Create(d)) <=> c = d
    /\ \A c, d, ok : About(c, Created(d, ok)) <=> c = d
    /\ \A c, d : About(c, Close(d)) <=> c = d
    /\ \A c : ~About(c, Caps) /\ ~About(c, Quit) /\ ~DataOf(c, Caps) /\ ~DataOf(c, Quit)
    /\ \A c, d : ~DataOf(c, Create(d)) /\ ~DataOf(c, Close(d))
    /\ \A c, d, ok : ~DataOf(c, Created(d, ok))
    /\ \A c, p : DataOf(c, p) => About(c, p)
BY PduKinds DEF About, DataOf

LEMMA SamePdu ==
    /\ \A c, d : Create(c) = Create(d) => c = d
    /\ \A c, d : Close(c) = Close(d) => c = d
    /\ \A c, d, ok, ok2 : Created(c, ok) = Created(d, ok2) => c = d /\ ok = ok2
    /\ \A c, d : Create(c) # Close(d)
    /\ \A c, d, ok : Created(c, ok) # Close(d)
    /\ \A c : Caps # Create(c) /\ Caps # Close(c) /\ Quit # Create(c) /\ Quit # Close(c)
    /\ \A c, ok : Caps # Created(c, ok)
<1>1. /\ \A c, d : Create(c) = Create(d) => c = d
      /\ \A c, d : Close(c) = Close(d) => c = d
      /\ \A c, d, ok, ok2 : Created(c, ok) = Created(d, ok2) => c = d /\ ok = ok2
  <2>1. \A c, d : Create(c) = Create(d) => Create(c).id = Create(d).id
    OBVIOUS
  <2>2. \A c, d : Close(c) = Close(d) => Close(c).id = Close(d).id
    OBVIOUS
  <2>3. \A c, d, ok, ok2 : Created(c, ok) = Created(d, ok2) =>
           Created(c, ok).id = Created(d, ok2).id /\ Created(c, ok).ok = Created(d, ok2).ok
    OBVIOUS
  <2>4. QED
    BY <2>1, <2>2, <2>3, PduKinds
<1>2. /\ \A c, d : Create(c) # Close(d)
      /\ \A c, d, ok : Created(c, ok) # Close(d)
      /\ \A c : Caps # Create(c) /\ Caps # Close(c) /\ Quit # Create(c) /\ Quit # Close(c)
      /\ \A c, ok : Caps # Created(c, ok)
  BY PduKinds
<1>3. QED
  BY <1>1, <1>2

LEMMA DownPduKinds ==
    ASSUME NEW p \in DownPdus
    PROVE  /\ \/ p = Caps \/ p = Quit
              \/ p.id \in Ids /\ p = Create(p.id)
              \/ p.id \in Ids /\ p = Close(p.id)
              \/ p \in DataPdus
           /\ IsCreate(p) => p.id \in Ids /\ p = Create(p.id)
           /\ IsClose(p) => p.id \in Ids /\ p = Close(p.id)
           /\ IsData(p) => p \in DataPdus
           /\ p.cmd = "CAPABILITY_REQUEST_PDU" => p = Caps
<1>1. \/ p = Caps \/ p = Quit
      \/ p.id \in Ids /\ p = Create(p.id)
      \/ p.id \in Ids /\ p = Close(p.id)
      \/ p \in DataPdus
  <2>1. CASE p \in [cmd : {"CREATE_REQUEST_PDU", "CLOSE_REQUEST_PDU"}, id : Ids]
    BY <2>1 DEF Create, Close
  <2>2. QED
    BY <2>1 DEF DownPdus
<1>2. p.cmd = "CAPABILITY_REQUEST_PDU" => p = Caps
  <2>1. p \in DataPdus => p.cmd # "CAPABILITY_REQUEST_PDU"
    BY DataPduFields
  <2>2. QED
    BY <1>1, <2>1 DEF Quit, Create, Close
<1>3. QED
  BY <1>1, <1>2, PduKinds, DataPduFields

LEMMA UpPduKinds ==
    ASSUME NEW p \in UpPdus
    PROVE  /\ \/ p = Caps
              \/ p.id \in Ids /\ p.ok \in BOOLEAN /\ p = Created(p.id, p.ok)
              \/ p.id \in Ids /\ p = Close(p.id)
              \/ p \in DataPdus
           /\ IsCreate(p) => p.id \in Ids /\ p.ok \in BOOLEAN /\ p = Created(p.id, p.ok)
           /\ IsClose(p) => p.id \in Ids /\ p = Close(p.id)
           /\ IsData(p) => p \in DataPdus
           /\ p.cmd = "CAPABILITY_REQUEST_PDU" => p = Caps
<1>1. \/ p = Caps
      \/ p.id \in Ids /\ p.ok \in BOOLEAN /\ p = Created(p.id, p.ok)
      \/ p.id \in Ids /\ p = Close(p.id)
      \/ p \in DataPdus
  <2>1. CASE p \in [cmd : {"CREATE_REQUEST_PDU"}, id : Ids, ok : BOOLEAN]
    BY <2>1 DEF Created
  <2>2. CASE p \in [cmd : {"CLOSE_REQUEST_PDU"}, id : Ids]
    BY <2>2 DEF Close
  <2>3. QED
    BY <2>1, <2>2 DEF UpPdus
<1>2. p.cmd = "CAPABILITY_REQUEST_PDU" => p = Caps
  <2>1. p \in DataPdus => p.cmd # "CAPABILITY_REQUEST_PDU"
    BY DataPduFields
  <2>2. QED
    BY <1>1, <2>1 DEF Created, Close
<1>3. QED
  BY <1>1, <1>2, PduKinds, DataPduFields

LEMMA PduTypes ==
    /\ Caps \in DownPdus /\ Quit \in DownPdus /\ Caps \in UpPdus
    /\ \A c \in Ids : Create(c) \in DownPdus /\ Close(c) \in DownPdus /\ Close(c) \in UpPdus
    /\ \A c \in Ids : \A ok \in BOOLEAN : Created(c, ok) \in UpPdus
    /\ DataPdus \subseteq DownPdus /\ DataPdus \subseteq UpPdus
<1>1. Caps \in DownPdus /\ Quit \in DownPdus /\ Caps \in UpPdus
  BY DEF DownPdus, UpPdus
<1>2. \A c \in Ids : Create(c) \in [cmd : {"CREATE_REQUEST_PDU", "CLOSE_REQUEST_PDU"}, id : Ids]
  BY DEF Create
<1>3. \A c \in Ids : Close(c) \in [cmd : {"CREATE_REQUEST_PDU", "CLOSE_REQUEST_PDU"}, id : Ids]
  BY DEF Close
<1>4. \A c \in Ids : Close(c) \in [cmd : {"CLOSE_REQUEST_PDU"}, id : Ids]
  BY DEF Close
<1>5. \A c \in Ids : \A ok \in BOOLEAN :
         Created(c, ok) \in [cmd : {"CREATE_REQUEST_PDU"}, id : Ids, ok : BOOLEAN]
  BY DEF Created
<1>6. QED
  BY <1>1, <1>2, <1>3, <1>4, <1>5 DEF DownPdus, UpPdus

\* The PDU that is taken, of either kind.
LEMMA AnyHead ==
    ASSUME NEW S, NEW s \in Seq(S), NEW pdu, pdu \in {s[i] : i \in DOMAIN s \cap {1}}
    PROVE  s # <<>> /\ pdu = Head(s)
OBVIOUS

-----------------------------------------------------------------------------
(* One channel in a step *)

LEMMA LogTypes ==
    ASSUME TypeInv, LogInv, NEW c \in Ids
    PROVE  /\ serverSent[c] \in Logs /\ clientSent[c] \in Logs
           /\ Len(serverSent[c]) \in Nat /\ Len(clientSent[c]) \in Nat
           /\ Len(clientGot[c]) \in Nat
           /\ dvcData[c] \in Buffers /\ reassembly[c] \in Buffers
BY DEF TypeInv, LogInv, Logs

LEMMA UpLogTypes ==
    ASSUME TypeInv, LogInv, NEW c \in Ids, NEW log \in Logs, SendingInv(c, log)
    PROVE  /\ Len(log) \in Nat /\ Len(clientSent[c]) \in Nat /\ Len(clientSent[c]) <= Len(log)
           /\ Len(log) = clientWrites[c]
           /\ \A m \in 1 .. Len(clientSent[c]) : log[m] = clientSent[c][m]
BY LogTypes, LogLen DEF SendingInv, FirstOf

LEMMA FragmentUnit ==
    ASSUME NEW c \in Ids, NEW n \in Nat \ {0}, NEW length \in 1 .. MaxLength,
           NEW i \in 1 .. length
    PROVE  /\ Fragments(c, MessageOf(n, length))[i] \in DataPdus
           /\ Fragments(c, MessageOf(n, length))[i].unit = <<n, i>>
           /\ DataOf(c, Fragments(c, MessageOf(n, length))[i])
<1> DEFINE m == MessageOf(n, length)
<1>1. m \in Seq(Units) /\ Len(m) = length /\ m[i] = <<n, i>>
  BY MessageShape
<1>2. i \in 1 .. Len(m) /\ Len(m) <= MaxLength
  BY <1>1, DvcBounds
<1> HIDE DEF m
<1>3. Fragments(c, m)[i] \in DataPdus /\ Fragments(c, m)[i].unit = m[i] /\ Fragments(c, m)[i].id = c
  BY <1>1, <1>2, FragmentShape
<1>4. IsData(Fragments(c, m)[i])
  BY <1>3, DataPduFields
<1>5. QED
  BY <1>1, <1>3, <1>4 DEF m, DataOf

\* What is left of the fragments of a message.
LEMMA RestFacts ==
    ASSUME NEW c \in Ids, NEW n \in Nat \ {0}, NEW length \in 1 .. MaxLength, NEW s \in Seq(DataPdus),
           Rest(s, Fragments(c, MessageOf(n, length)))
    PROVE  \A p \in Range(s) : /\ DataOf(c, p) /\ p.unit[1] = n
                               /\ p.unit[2] \in 1 .. length /\ p.unit = <<n, p.unit[2]>>
                               /\ p = Fragments(c, MessageOf(n, length))[p.unit[2]]
                               /\ \A i \in p.unit[2] .. length :
                                     Fragments(c, MessageOf(n, length))[i] \in Range(s)
<1> DEFINE f == Fragments(c, MessageOf(n, length))
           g == length - Len(s)
<1>1. f \in Seq(DataPdus) /\ Len(f) = length /\ length \in Nat
  BY FragmentsShape, DvcBounds
<1>2. Len(s) \in Nat /\ g \in Nat /\ \A j \in 1 .. Len(s) : s[j] = f[g + j]
  BY <1>1 DEF Rest
<1>3. \A i \in 1 .. length : f[i].unit = <<n, i>> /\ f[i].id = c /\ IsData(f[i])
  BY FragmentUnit DEF DataOf
<1> HIDE DEF f, g
<1> SUFFICES ASSUME NEW p \in Range(s)
             PROVE  /\ DataOf(c, p) /\ p.unit[1] = n
                    /\ p.unit[2] \in 1 .. length /\ p.unit = <<n, p.unit[2]>>
                    /\ p = f[p.unit[2]]
                    /\ \A i \in p.unit[2] .. length : f[i] \in Range(s)
  BY DEF f
<1>4. PICK j \in 1 .. Len(s) : p = s[j]
  BY RangeOf
<1>5. p = f[g + j] /\ g + j \in 1 .. length
  BY <1>1, <1>2, <1>4 DEF g
<1>6. p.unit = <<n, g + j>> /\ p.id = c /\ IsData(p)
  BY <1>3, <1>5
<1>7. p.unit[1] = n /\ p.unit[2] = g + j
  BY <1>6
<1>8. ASSUME NEW i \in g + j .. length PROVE f[i] \in Range(s)
  <2>1. i - g \in 1 .. Len(s) /\ i = g + (i - g)
    BY <1>1, <1>2 DEF g
  <2>2. s[i - g] = f[i]
    BY <2>1, <1>2
  <2>3. s[i - g] \in Range(s)
    BY <2>1, RangeOf
  <2>4. QED
    BY <2>2, <2>3
<1>9. QED
  BY <1>5, <1>6, <1>7, <1>8 DEF DataOf

LEMMA RestTail ==
    ASSUME NEW c \in Ids, NEW n \in Nat \ {0}, NEW length \in 1 .. MaxLength, NEW s \in Seq(DataPdus),
           s # <<>>, Rest(s, Fragments(c, MessageOf(n, length))), NEW n2, NEW length2
    PROVE  /\ Rest(Tail(s), Fragments(c, MessageOf(n, length)))
           /\ AllBefore(c, n2, length2, {Head(s)}, Range(Tail(s)))
           /\ Len(s) = 1 => Head(s).unit = <<n, length>>
           /\ Head(s) = Fragments(c, MessageOf(n, length))[Head(s).unit[2]]
           /\ Fragments(c, MessageOf(n, length))[length] \in Range(s)
           /\ Len(s) # 1 => Fragments(c, MessageOf(n, length))[length] \in Range(Tail(s))
<1> DEFINE f == Fragments(c, MessageOf(n, length))
           g == length - Len(s)
           t == Tail(s)
<1>1. f \in Seq(DataPdus) /\ Len(f) = length /\ length \in Nat
  BY FragmentsShape, DvcBounds
<1>2. Len(s) \in Nat /\ g \in Nat /\ \A j \in 1 .. Len(s) : s[j] = f[g + j]
  BY <1>1 DEF Rest
<1>3. \A p \in Range(s) : /\ DataOf(c, p) /\ p.unit[1] = n
                          /\ p.unit[2] \in 1 .. length /\ p.unit = <<n, p.unit[2]>>
                          /\ p = f[p.unit[2]]
                          /\ \A i \in p.unit[2] .. length : f[i] \in Range(s)
  BY RestFacts
<1>4. /\ t \in Seq(DataPdus) /\ Len(s) > 0 /\ Len(t) = Len(s) - 1 /\ Head(s) = s[1]
      /\ \A i \in 1 .. Len(s) - 1 : t[i] = s[i + 1]
  BY TailFacts
<1>5. Range(s) = {Head(s)} \cup Range(t)
  BY RangeTail
<1> HIDE DEF f, t
<1>6. Rest(t, f)
  <2>1. \A j \in 1 .. Len(t) : t[j] = f[Len(f) - Len(t) + j]
    <3> SUFFICES ASSUME NEW j \in 1 .. Len(t) PROVE t[j] = f[Len(f) - Len(t) + j]
      OBVIOUS
    <3>1. j + 1 \in 1 .. Len(s) /\ Len(f) - Len(t) + j = g + (j + 1) /\ j \in 1 .. Len(s) - 1
      BY <1>1, <1>2, <1>4
    <3>2. t[j] = s[j + 1] /\ s[j + 1] = f[g + (j + 1)]
      BY <3>1, <1>2, <1>4
    <3>3. QED
      BY <3>1, <3>2
  <2>2. Len(t) <= Len(f)
    BY <1>1, <1>2, <1>4
  <2>3. QED
    BY <2>1, <2>2 DEF Rest
<1>u. \A j \in 1 .. Len(s) : s[j] \in Range(s) /\ s[j].unit[2] = g + j
  <2> SUFFICES ASSUME NEW j \in 1 .. Len(s) PROVE s[j] \in Range(s) /\ s[j].unit[2] = g + j
    OBVIOUS
  <2>1. g + j \in 1 .. length /\ s[j] = f[g + j]
    BY <1>1, <1>2
  <2>2. f[g + j].unit = <<n, g + j>>
    BY <2>1, FragmentUnit DEF f
  <2>4. s[j].unit = <<n, g + j>>
    BY <2>1, <2>2
  <2>5. s[j].unit[2] = g + j
    BY <2>4
  <2>6. QED
    BY <2>5, RangeOf
<1>7. AllBefore(c, n2, length2, {Head(s)}, Range(t))
  <2> SUFFICES ASSUME NEW q \in Range(t) PROVE Before(n2, length2, Head(s), q)
    BY DEF AllBefore
  <2>1. PICK j \in 1 .. Len(t) : q = t[j]
    BY <1>4, RangeOf
  <2>2. j + 1 \in 1 .. Len(s) /\ 1 \in 1 .. Len(s) /\ q = s[j + 1] /\ Head(s) = s[1]
    BY <2>1, <1>2, <1>4
  <2>3. /\ q.unit[2] = g + (j + 1) /\ Head(s).unit[2] = g + 1
        /\ DataOf(c, q) /\ DataOf(c, Head(s)) /\ q.unit[1] = n /\ Head(s).unit[1] = n
    BY <2>2, <1>3, <1>u
  <2>4. UnitBefore(Head(s).unit, q.unit)
    BY <2>3, <1>2, <2>1, <1>4 DEF UnitBefore
  <2>5. QED
    BY <2>3, <2>4 DEF Before, DataOf
<1>8. Len(s) = 1 => Head(s).unit = <<n, length>>
  <2> SUFFICES ASSUME Len(s) = 1 PROVE Head(s).unit = <<n, length>>
    OBVIOUS
  <2>1. s[1] \in Range(s) /\ s[1].unit[2] = g + 1 /\ g + 1 = length
    BY <1>1, <1>u
  <2>2. QED
    BY <2>1, <1>3, <1>4
<1>9. Head(s) \in Range(s)
  BY <1>5
<1>10. Head(s) = f[Head(s).unit[2]] /\ f[length] \in Range(s)
  <2>1. Head(s).unit[2] \in 1 .. length
    BY <1>3, <1>9
  <2>2. length \in Head(s).unit[2] .. length
    BY <2>1, <1>1
  <2>3. QED
    BY <2>2, <1>3, <1>9
<1>11. Len(s) # 1 => f[length] \in Range(t)
  <2> SUFFICES ASSUME Len(s) # 1 PROVE f[length] \in Range(t)
    OBVIOUS
  <2>1. Len(t) \in 1 .. Len(t) /\ Len(f) - Len(t) + Len(t) = length
    BY <1>1, <1>2, <1>4
  <2>2. t[Len(t)] = f[length]
    BY <2>1, <1>6 DEF Rest
  <2>3. QED
    BY <2>1, <2>2, <1>4, RangeOf
<1>12. QED
  BY <1>6, <1>7, <1>8, <1>10, <1>11 DEF f, t

\* A step leaves the writer and the reader of c alone.
SameDown(c) ==
    /\ posting'[c] = posting[c] /\ serverSent'[c] = serverSent[c]
    /\ clientGot'[c] = clientGot[c] /\ dvcData'[c] = dvcData[c]
SameUp(c) ==
    /\ sending'[c] = sending[c] /\ clientSent'[c] = clientSent[c]
    /\ serverGot'[c] = serverGot[c] /\ readQueue'[c] = readQueue[c]
    /\ reassembly'[c] = reassembly[c]

LEMMA DownLiveSame ==
    ASSUME NEW c \in Ids, DownLive(c), SameDown(c), UNCHANGED <<toClient, queue>>
    PROVE  DownLive(c)'
BY DEF DownLive, SameDown, Left, Down

LEMMA DownSend ==
    ASSUME TypeInv, NEW x \in DownPdus, UNCHANGED toClient, queue' = Append(queue, x)
    PROVE  Down' = Down \cup {x}
<1>1. queue \in Seq(DownPdus)
  BY DEF TypeInv
<1>2. Range(queue') = Range(queue) \cup {x}
  BY <1>1, RangeAppend
<1>3. QED
  BY <1>2 DEF Down

\* The PDU at the end may come after the others and is no data.
LEMMA DownLiveAppend ==
    ASSUME TypeInv, LogInv, NEW c \in Ids, DownLive(c), SameDown(c), NEW x \in DownPdus,
           ~DataOf(c, x), AllBefore(c, Len(serverSent[c]), 0, Down, {x}),
           AllBefore(c, Len(serverSent[c]), 0, {x}, Range(posting[c])),
           UNCHANGED toClient, queue' = Append(queue, x)
    PROVE  DownLive(c)'
<1> DEFINE last == Len(serverSent[c])
           P == Range(posting[c])
<1>1. queue \in Seq(DownPdus) /\ toClient \in Seq(DownPdus)
  BY DEF TypeInv
<1>2. DownOrder(c, last, toClient, queue, P)
  BY DEF DownLive
<1>3. AllBefore(c, last, 0, Range(toClient) \cup Range(queue), {x}) /\ AllBefore(c, last, 0, {x}, P)
  BY DEF Down
<1>4. DownOrder(c, last, toClient, Append(queue, x), P)
  BY <1>1, <1>2, <1>3, DownOrderSend
<1>5. Down' = Down \cup {x}
  BY DownSend
<1>6. \A p : DataOf(c, p) => (p \in Down \cup P <=> p \in (Down \cup {x}) \cup P)
  OBVIOUS
<1>7. Place(c, serverSent[c], last, Len(clientGot[c]), dvcData[c], Down \cup P)
  BY DEF DownLive, Left
<1>8. Place(c, serverSent[c], last, Len(clientGot[c]), dvcData[c], (Down \cup {x}) \cup P)
  BY <1>6, <1>7, LogTypes, PlaceOther
<1>9. QED
  BY <1>4, <1>5, <1>8 DEF DownLive, Left, SameDown

\* The PDU at the end is of another channel.
LEMMA DownLiveSend ==
    ASSUME TypeInv, LogInv, NEW c \in Ids, DownLive(c), SameDown(c), NEW x \in DownPdus,
           ~About(c, x), UNCHANGED toClient, queue' = Append(queue, x)
    PROVE  DownLive(c)'
<1>1. /\ AllBefore(c, Len(serverSent[c]), 0, Down, {x})
      /\ AllBefore(c, Len(serverSent[c]), 0, {x}, Range(posting[c]))
  BY DEF AllBefore
<1>2. ~DataOf(c, x)
  BY AboutKinds
<1>3. QED
  BY <1>1, <1>2, DownLiveAppend

LEMMA DownMove ==
    ASSUME TypeInv, queue # <<>>, queue' = Tail(queue), toClient' = Append(toClient, Head(queue))
    PROVE  Down' = Down
<1>1. queue \in Seq(DownPdus) /\ toClient \in Seq(DownPdus)
  BY DEF TypeInv
<1>2. Range(queue) = {Head(queue)} \cup Range(Tail(queue)) /\ Head(queue) \in DownPdus
  BY <1>1, RangeTail, TailFacts
<1>3. Range(toClient') = Range(toClient) \cup {Head(queue)}
  BY <1>1, <1>2, RangeAppend
<1>4. QED
  BY <1>2, <1>3 DEF Down

LEMMA DownLiveMove ==
    ASSUME TypeInv, NEW c \in Ids, DownLive(c), SameDown(c), queue # <<>>,
           queue' = Tail(queue), toClient' = Append(toClient, Head(queue))
    PROVE  DownLive(c)'
<1>1. queue \in Seq(DownPdus) /\ toClient \in Seq(DownPdus)
  BY DEF TypeInv
<1>2. DownOrder(c, Len(serverSent[c]), toClient', queue', Range(posting[c]))
  BY <1>1, DownOrderMove DEF DownLive
<1>3. Down' = Down
  BY DownMove
<1>4. QED
  BY <1>2, <1>3 DEF DownLive, Left, SameDown

LEMMA DownTake ==
    ASSUME TypeInv, toClient # <<>>, toClient' = Tail(toClient), UNCHANGED queue
    PROVE  /\ Down = {Head(toClient)} \cup Down' /\ Head(toClient) \in DownPdus
           /\ Head(toClient) \in Down /\ Down' \subseteq Down
<1>1. toClient \in Seq(DownPdus)
  BY DEF TypeInv
<1>2. Range(toClient) = {Head(toClient)} \cup Range(Tail(toClient)) /\ Head(toClient) \in DownPdus
  BY <1>1, RangeTail, TailFacts
<1>3. QED
  BY <1>2 DEF Down

LEMMA DownLiveTake ==
    ASSUME TypeInv, LogInv, NEW c \in Ids, DownLive(c), SameDown(c), toClient # <<>>,
           toClient' = Tail(toClient), UNCHANGED queue, ~DataOf(c, Head(toClient))
    PROVE  DownLive(c)'
<1> DEFINE last == Len(serverSent[c])
           P == Range(posting[c])
           h == Head(toClient)
<1>1. toClient \in Seq(DownPdus)
  BY DEF TypeInv
<1>2. DownOrder(c, last, Tail(toClient), queue, P)
  BY <1>1, DownOrderTake DEF DownLive
<1>3. Down = {h} \cup Down'
  BY DownTake
<1> HIDE DEF h
<1>4. \A p : DataOf(c, p) => (p \in Down \cup P <=> p \in Down' \cup P)
  BY <1>3 DEF h
<1>5. Place(c, serverSent[c], last, Len(clientGot[c]), dvcData[c], Down \cup P)
  BY DEF DownLive, Left
<1>6. Place(c, serverSent[c], last, Len(clientGot[c]), dvcData[c], Down' \cup P)
  BY <1>4, <1>5, LogTypes, PlaceOther
<1>7. QED
  BY <1>2, <1>6 DEF DownLive, Left, SameDown

LEMMA DownQuit ==
    ASSUME TypeInv, toClient' = Append(toClient, Quit), UNCHANGED queue
    PROVE  Down' = Down \cup {Quit}
<1>1. toClient \in Seq(DownPdus) /\ Quit \in DownPdus
  BY PduTypes DEF TypeInv
<1>2. Range(toClient') = Range(toClient) \cup {Quit}
  BY <1>1, RangeAppend
<1>3. QED
  BY <1>2 DEF Down

LEMMA DownLiveQuit ==
    ASSUME TypeInv, LogInv, NEW c \in Ids, DownLive(c), SameDown(c),
           toClient' = Append(toClient, Quit), UNCHANGED queue
    PROVE  DownLive(c)'
<1> DEFINE last == Len(serverSent[c])
           P == Range(posting[c])
<1>1. toClient \in Seq(DownPdus) /\ Quit \in DownPdus
  BY PduTypes DEF TypeInv
<1>2. DownOrder(c, last, Append(toClient, Quit), queue, P)
  BY <1>1, DownOrderQuit DEF DownLive
<1>3. Down' = Down \cup {Quit}
  BY DownQuit
<1>4. \A p : DataOf(c, p) => (p \in Down \cup P <=> p \in (Down \cup {Quit}) \cup P)
  BY AboutKinds
<1>5. Place(c, serverSent[c], last, Len(clientGot[c]), dvcData[c], Down \cup P)
  BY DEF DownLive, Left
<1>6. Place(c, serverSent[c], last, Len(clientGot[c]), dvcData[c], (Down \cup {Quit}) \cup P)
  BY <1>4, <1>5, LogTypes, PlaceOther
<1>7. QED
  BY <1>2, <1>3, <1>6 DEF DownLive, Left, SameDown

\* What is being sent stays while the channel does not start to run.
LEMMA SendingSame ==
    ASSUME NEW c \in Ids, NEW log, SendingInv(c, log),
           sending'[c] = sending[c], clientSent'[c] = clientSent[c], clientWrites'[c] = clientWrites[c],
           channel'[c] = "absent" => channel[c] = "absent" \/ sending[c] = <<>>,
           connected' /\ channel'[c] = "running" => connected /\ channel[c] = "running"
    PROVE  SendingInv(c, log)'
BY DEF SendingInv

LEMMA UpLiveSame ==
    ASSUME NEW c \in Ids, NEW log, UpLive(c, log), SameUp(c), UNCHANGED toServer
    PROVE  UpLive(c, log)'
BY DEF UpLive, SameUp, Given, Pending

LEMMA UpSend ==
    ASSUME TypeInv, NEW x \in UpPdus, toServer' = Append(toServer, x)
    PROVE  Range(toServer') = Range(toServer) \cup {x} /\ toServer' \in Seq(UpPdus)
<1>1. toServer \in Seq(UpPdus)
  BY DEF TypeInv
<1>2. QED
  BY <1>1, RangeAppend

\* The PDUs that are added may come after the others and are no data.
LEMMA UpLiveMore ==
    ASSUME TypeInv, LogInv, NEW c \in Ids, NEW log \in Logs, SendingInv(c, log), UpLive(c, log),
           SameUp(c), NEW X, \A x \in X : ~DataOf(c, x), NEW length,
           length = NextLength(log, Len(clientSent[c])),
           InOrder(c, Len(clientSent[c]), length, toServer'),
           Range(toServer') = Range(toServer) \cup X,
           AllBefore(c, Len(clientSent[c]), length, X, Range(sending[c]))
    PROVE  UpLive(c, log)'
<1> DEFINE last == Len(clientSent[c])
           U == Range(toServer)
           S == Range(sending[c])
<1>4. AllBefore(c, last, length, U \cup X, S)
  BY DEF UpLive, AllBefore
<1>5. \A p : DataOf(c, p) => (p \in U \cup S <=> p \in (U \cup X) \cup S)
  OBVIOUS
<1>6. Place(c, log, last, Len(Given(c)), reassembly[c], U \cup S)
  BY DEF UpLive
<1>7. last \in Nat /\ last <= Len(log)
  BY UpLogTypes
<1>8. \A p \in U \cup X : DataOf(c, p) /\ p.unit[1] > last + 1 => Close(c) \in U \cup X
  BY DEF UpLive
<1> HIDE DEF U, S
<1>9. Place(c, log, last, Len(Given(c)), reassembly[c], (U \cup X) \cup S)
  BY <1>5, <1>6, <1>7, PlaceOther
<1>10. Given(c)' = Given(c)
  BY DEF SameUp, Given, Pending
<1>11. QED
  BY <1>4, <1>8, <1>9, <1>10 DEF UpLive, SameUp, U, S

LEMMA UpLiveSend ==
    ASSUME TypeInv, LogInv, NEW c \in Ids, NEW log \in Logs, SendingInv(c, log), UpLive(c, log),
           SameUp(c), NEW x \in UpPdus, ~DataOf(c, x), NEW length,
           length = NextLength(log, Len(clientSent[c])),
           AllBefore(c, Len(clientSent[c]), length, Range(toServer), {x}),
           AllBefore(c, Len(clientSent[c]), length, {x}, Range(sending[c])),
           toServer' = Append(toServer, x)
    PROVE  UpLive(c, log)'
<1>1. toServer \in Seq(UpPdus)
  BY DEF TypeInv
<1>2. InOrder(c, Len(clientSent[c]), length, toServer')
  BY <1>1, OrderAppend DEF UpLive
<1>3. Range(toServer') = Range(toServer) \cup {x}
  BY UpSend
<1>4. PICK X : X = {x}
  OBVIOUS
<1>5. /\ \A y \in X : ~DataOf(c, y)
      /\ Range(toServer') = Range(toServer) \cup X
      /\ AllBefore(c, Len(clientSent[c]), length, X, Range(sending[c]))
  BY <1>3, <1>4
<1>6. QED
  BY <1>2, <1>5, UpLiveMore

LEMMA UpTake ==
    ASSUME TypeInv, toServer # <<>>, toServer' = Tail(toServer)
    PROVE  /\ Range(toServer) = {Head(toServer)} \cup Range(toServer')
           /\ Head(toServer) \in UpPdus /\ toServer' \in Seq(UpPdus)
<1>1. toServer \in Seq(UpPdus)
  BY DEF TypeInv
<1>2. QED
  BY <1>1, RangeTail, TailFacts

LEMMA UpLiveTake ==
    ASSUME TypeInv, LogInv, NEW c \in Ids, NEW log \in Logs, SendingInv(c, log), UpLive(c, log),
           SameUp(c), toServer # <<>>, toServer' = Tail(toServer), ~DataOf(c, Head(toServer)),
           Head(toServer) # Close(c)
    PROVE  UpLive(c, log)'
<1> DEFINE last == Len(clientSent[c])
           length == NextLength(log, last)
           U == Range(toServer)
           V == Range(Tail(toServer))
           S == Range(sending[c])
           h == Head(toServer)
<1>1. toServer \in Seq(UpPdus)
  BY DEF TypeInv
<1>2. InOrder(c, last, length, Tail(toServer))
  BY <1>1, OrderTail DEF UpLive
<1>3. U = {h} \cup V /\ V \subseteq U
  BY UpTake
<1>6. Place(c, log, last, Len(Given(c)), reassembly[c], U \cup S)
  BY DEF UpLive
<1>7. last \in Nat /\ last <= Len(log)
  BY UpLogTypes
<1>9. Given(c)' = Given(c)
  BY DEF SameUp, Given, Pending
<1>u. AllBefore(c, last, length, U, S)
  BY DEF UpLive
<1>10. \A p \in U : DataOf(c, p) /\ p.unit[1] > last + 1 => Close(c) \in U
  BY DEF UpLive
<1>v. ~DataOf(c, h) /\ h # Close(c)
  OBVIOUS
<1> HIDE DEF U, S, V, h
<1>4. AllBefore(c, last, length, V, S)
  BY <1>3, <1>u DEF AllBefore
<1>5. \A p : DataOf(c, p) => (p \in U \cup S <=> p \in V \cup S)
  BY <1>3, <1>v
<1>8. Place(c, log, last, Len(Given(c)), reassembly[c], V \cup S)
  BY <1>5, <1>6, <1>7, PlaceOther
<1>12. \A p \in V : DataOf(c, p) /\ p.unit[1] > last + 1 => Close(c) \in V
  BY <1>3, <1>10, <1>v
<1>11. QED
  BY <1>2, <1>4, <1>8, <1>9, <1>12 DEF UpLive, SameUp, U, S, V

-----------------------------------------------------------------------------
(* Steps that leave a part of the invariant alone *)

readers == <<channel, clientGot, dvcData, sending, clientSent, clientWrites, closing, dvc,
             serverGot, readQueue, reassembly, toServer, connected>>

LEMMA FreshFrame ==
    ASSUME FreshInv, UNCHANGED readers, \A c \in Ids : Fresh(c)' => Fresh(c)
    PROVE  FreshInv'
BY DEF FreshInv, readers

LEMMA OpenedFrame ==
    ASSUME OpenedInv, UNCHANGED <<nextId, vcmState, dvc, serverSent>>,
           \A c \in Ids : \A p \in Down' : p \in Down \/ ~About(c, p) \/ c <= nextId,
           TypeInv
    PROVE  OpenedInv'
<1>1. nextId \in Int /\ \A c \in Ids : c \in Int
  BY DEF TypeInv, Ids
<1>2. QED
  BY <1>1 DEF OpenedInv

LEMMA PostingFrame ==
    ASSUME PostingInv, UNCHANGED <<dvc, closing, posting, serverSent>>,
           \A c \in Ids : Close(c) \in Down' => Close(c) \in Down
    PROVE  PostingInv'
BY DEF PostingInv

LEMMA DownFrame ==
    ASSUME DownInv, DownGotInv, UNCHANGED <<nextId, toClient, queue, posting, serverSent, clientGot>>,
           \A c \in Ids : Fresh(c) \/ channel'[c] = "running" =>
                             /\ Fresh(c) \/ channel[c] = "running"
                             /\ dvcData'[c] = dvcData[c]
    PROVE  DownInv' /\ DownGotInv'
<1>1. DownGotInv'
  BY DEF DownGotInv
<1>2. ASSUME NEW c \in Ids, Fresh(c)' \/ channel'[c] = "running"
      PROVE  DownLive(c)'
  <2>1. Fresh(c)' <=> Fresh(c)
    BY DEF Fresh, Down
  <2>2. DownLive(c) /\ SameDown(c)
    BY <1>2, <2>1 DEF DownInv, SameDown
  <2>3. QED
    BY <2>2, DownLiveSame
<1>3. QED
  BY <1>1, <1>2 DEF DownInv

LEMMA DownGotFrame ==
    ASSUME DownGotInv, UNCHANGED <<serverSent, clientGot>>
    PROVE  DownGotInv'
BY DEF DownGotInv

LEMMA UpGotFrame ==
    ASSUME UpGotInv, UNCHANGED <<clientSent, serverGot, readQueue, dvc>>,
           \A c \in Ids : channel'[c] = "running" => dvc[c] # "closed"
    PROVE  UpGotInv'
BY DEF UpGotInv, UpGot, Given, Pending

LEMMA UpFrame ==
    ASSUME UpInv, UpGotInv, UNCHANGED <<sending, clientSent, clientWrites, serverGot, readQueue,
                                        reassembly, dvc, toServer, connected, channel>>
    PROVE  UpInv' /\ UpGotInv'
<1>1. UpGotInv'
  BY DEF UpGotInv, UpGot, Given, Pending
<1>2. ASSUME NEW c \in Ids
      PROVE  Up(c)'
  <2>1. PICK log \in Logs : /\ SendingInv(c, log)
                            /\ connected /\ dvc[c] \in {"none", "succeeded"} => UpLive(c, log)
    BY DEF UpInv, Up
  <2>2. SendingInv(c, log)'
    BY <2>1 DEF SendingInv
  <2>3. Given(c)' = Given(c)
    BY DEF Given, Pending
  <2>4. UpLive(c, log) => UpLive(c, log)'
    BY <2>3 DEF UpLive
  <2>5. QED
    BY <2>1, <2>2, <2>4 DEF Up
<1>3. QED
  BY <1>1, <1>2 DEF UpInv

LEMMA EndsFrame ==
    ASSUME EndsInv, UNCHANGED <<toServer, channel, dvc, clientSent, connected>>,
           \A c \in Ids : Fresh(c) => Fresh(c)'
    PROVE  EndsInv'
BY DEF EndsInv, Ends

LEMMA ClosingFrame ==
    ASSUME ClosingInv, UNCHANGED <<closing, nextId, channel, dvc, connected>>,
           \A c \in Ids : Close(c) \in Down => Close(c) \in Down'
    PROVE  ClosingInv'
BY DEF ClosingInv

-----------------------------------------------------------------------------
(* The steps of the server and its application *)

LEMMA InitStep ==
    ASSUME Init
    PROVE  IInv
<1>0. MaxId \in Nat /\ MaxLength \in Nat \ {0}
  BY DvcBounds
<1>1. TypeInv /\ BufferInv /\ LogInv
  <2>1. TypeInv
    <3>1. \A S : <<>> \in Seq(S)
      OBVIOUS
    <3>2. /\ vcmState \in {"none", "initialized", "ready"} /\ nextId \in 0 .. MaxId
          /\ clientState \in {"capabilities", "ready"}
          /\ thread \in {"loop", "closing", "quitting", "exited"}
      BY <1>0 DEF Init
    <3>3. queueEvent \in BOOLEAN /\ connected \in BOOLEAN
      BY DEF Init
    <3>4. /\ dvc \in [Ids -> {"absent", "none", "succeeded", "failed", "closed"}]
          /\ channel \in [Ids -> {"absent", "running", "closed", "dropped"}]
          /\ closing \in [Ids -> {"no", "open", "told", "silent"}]
          /\ clientWrites \in [Ids -> Nat]
      BY DEF Init
    <3>5. queue \in Seq(DownPdus) /\ toClient \in Seq(DownPdus) /\ toServer \in Seq(UpPdus)
      BY <3>1 DEF Init
    <3>6. reassembly \in [Ids -> Buffers] /\ dvcData \in [Ids -> Buffers]
      BY NothingIsBuffer DEF Init
    <3>7. \A S : [c \in Ids |-> <<>>] \in [Ids -> Seq(S)]
      BY <3>1
    <3>8. /\ posting \in [Ids -> Seq(DataPdus)] /\ sending \in [Ids -> Seq(DataPdus)]
          /\ readQueue \in [Ids -> Seq(Seq(Units))] /\ serverGot \in [Ids -> Seq(Seq(Units))]
          /\ clientGot \in [Ids -> Seq(Seq(Units))] /\ serverSent \in [Ids -> Seq(Seq(Units))]
          /\ clientSent \in [Ids -> Seq(Seq(Units))]
      BY <3>7, Zenon DEF Init
    <3>9. QED
      BY <3>2, <3>3, <3>4, <3>5, <3>6, <3>8, Zenon DEF TypeInv
  <2>2. BufferInv
    BY <1>0, NothingIsBuffer DEF Init, BufferInv
  <2>3. LogInv
    <3>1. \A c \in Ids : serverSent[c] = <<>> /\ clientSent[c] = <<>>
      BY DEF Init
    <3>2. IsLog(<<>>)
      BY DEF IsLog
    <3>3. QED
      BY <3>1, <3>2 DEF LogInv
  <2>4. QED
    BY <2>1, <2>2, <2>3
<1>2. Down = {} /\ Range(toServer) = {} /\ \A c \in Ids : Range(posting[c]) = {}
  BY RangeEmpty DEF Init, Down
<1>3. OpenedInv /\ FreshInv /\ PostingInv
  BY <1>0, <1>2 DEF Init, OpenedInv, FreshInv, PostingInv, Fresh
<1>4. ASSUME NEW c \in Ids
      PROVE  DownLive(c)
  <2>1. DownOrder(c, 0, <<>>, <<>>, {})
    BY RangeEmpty, OrderEmpty DEF DownOrder, AllBefore
  <2>2. Place(c, <<>>, 0, 0, Nothing, {})
    BY PlaceNone
  <2>3. QED
    BY <1>2, <2>1, <2>2 DEF DownLive, Left, Init
<1>5. DownInv /\ DownGotInv
  BY <1>4 DEF DownInv, DownGotInv, FirstOf, Init
<1>6. \A c \in Ids : Given(c) = <<>>
  BY DEF Init, Given, Pending
<1>7. UpGotInv
  BY <1>6 DEF Init, UpGotInv, UpGot, FirstOf
<1>8. UpInv
  <2>1. <<>> \in Logs
    BY DEF Logs, IsLog
  <2>2. ASSUME NEW c \in Ids
        PROVE  SendingInv(c, <<>>)
    BY <1>0 DEF Init, SendingInv, FirstOf
  <2>3. QED
    BY <2>1, <2>2 DEF UpInv, Up, Init
<1>9. EndsInv /\ ClosingInv
  <2>1. EndsInv
    BY <1>0, <1>2 DEF Init, EndsInv, Ends, Fresh
  <2>2. \A c \in Ids : c > nextId /\ closing[c] = "no"
    BY <1>0 DEF Init, Ids
  <2>3. ClosingInv
    BY <1>0, <2>2 DEF ClosingInv, Ids, Init
  <2>4. QED
    BY <2>1, <2>3
<1>10. QED
  BY <1>1, <1>3, <1>5, <1>7, <1>8, <1>9 DEF IInv

LEMMA ManagerOpenStep ==
    ASSUME IInv, ManagerOpen
    PROVE  IInv'
<1>0. TypeInv /\ LogInv
  BY DEF IInv
<1>1. queue' = Append(queue, Caps) /\ Caps \in DownPdus /\ UNCHANGED toClient /\ UNCHANGED nextId
  BY PduTypes DEF ManagerOpen, QueueSend, wire
<1>2. Down' = Down \cup {Caps}
  BY <1>0, <1>1, DownSend
<1>3. \A c \in Ids : Fresh(c)' <=> Fresh(c)
  BY <1>1, <1>2, SamePdu DEF Fresh
<1>4. TypeInv'
  <2>1. queue' \in Seq(DownPdus)
    BY <1>0, <1>1 DEF TypeInv
  <2>2. QED
    BY <1>0, <1>1, <2>1 DEF TypeInv, ManagerOpen, QueueSend, wire, client, serverChannels, serverUser
<1>5. (BufferInv /\ LogInv)'
  BY DEF IInv, BufferInv, LogInv, ManagerOpen, QueueSend, client, serverChannels, serverUser
<1>6. OpenedInv'
  BY <1>2, AboutKinds DEF IInv, OpenedInv, ManagerOpen, serverChannels, serverUser
<1>7. (FreshInv /\ PostingInv)'
  BY <1>2, <1>3, SamePdu, FreshFrame, PostingFrame
     DEF IInv, readers, ManagerOpen, wire, client, serverChannels, serverUser
<1>8. (DownInv /\ DownGotInv)'
  <2>1. ASSUME NEW c \in Ids, Fresh(c)' \/ channel'[c] = "running"
        PROVE  DownLive(c)'
    <3>1. DownLive(c) /\ SameDown(c)
      BY <1>3, <2>1 DEF IInv, DownInv, SameDown, ManagerOpen, client, serverUser
    <3>2. QED
      BY <1>0, <1>1, <3>1, AboutKinds, DownLiveSend
  <2>2. QED
    BY <2>1, DownGotFrame DEF IInv, DownInv, ManagerOpen, client, serverUser
<1>9. (UpInv /\ UpGotInv /\ EndsInv /\ ClosingInv)'
  BY <1>2, <1>3, UpFrame, EndsFrame, ClosingFrame
     DEF IInv, ManagerOpen, wire, client, serverChannels, serverUser
<1>10. QED
  BY <1>4, <1>5, <1>6, <1>7, <1>8, <1>9 DEF IInv

LEMMA CheckFileDescriptorStep ==
    ASSUME IInv, CheckFileDescriptor
    PROVE  IInv'
<1>0. TypeInv /\ LogInv
  BY DEF IInv
<1>1. /\ queue # <<>> /\ queue' = Tail(queue) /\ toClient' = Append(toClient, Head(queue))
      /\ UNCHANGED nextId
  BY DEF CheckFileDescriptor, manager
<1>2. Down' = Down
  BY <1>0, <1>1, DownMove
<1>3. \A c \in Ids : Fresh(c)' <=> Fresh(c)
  BY <1>1, <1>2 DEF Fresh
<1>4. TypeInv'
  <2>0. queue \in Seq(DownPdus) /\ toClient \in Seq(DownPdus)
    BY <1>0 DEF TypeInv
  <2>1. queue' \in Seq(DownPdus) /\ toClient' \in Seq(DownPdus)
    BY <1>1, <2>0, TailFacts, RangeAppend
  <2>2. queueEvent' \in BOOLEAN
    <3>1. queueEvent' = (Len(queue) > 1)
      BY DEF CheckFileDescriptor
    <3>2. CASE Len(queue) > 1
      BY <3>1, <3>2, Zenon
    <3>3. CASE ~(Len(queue) > 1)
      <4>1. (Len(queue) > 1) = FALSE
        BY <3>3, SMT
      <4>2. QED
        BY <3>1, <4>1, Zenon
    <3>4. QED
      BY <3>2, <3>3
  <2>3. QED
    BY <1>0, <2>1, <2>2 DEF TypeInv, CheckFileDescriptor, manager, client, serverChannels, serverUser
<1>5. (BufferInv /\ LogInv)'
  BY DEF IInv, BufferInv, LogInv, CheckFileDescriptor, client, serverChannels, serverUser
<1>6. OpenedInv'
  BY <1>2 DEF IInv, OpenedInv, CheckFileDescriptor, manager, serverChannels, serverUser
<1>7. (FreshInv /\ PostingInv)'
  BY <1>2, <1>3, FreshFrame, PostingFrame
     DEF IInv, readers, CheckFileDescriptor, client, serverChannels, serverUser
<1>8. (DownInv /\ DownGotInv)'
  <2>1. ASSUME NEW c \in Ids, Fresh(c)' \/ channel'[c] = "running"
        PROVE  DownLive(c)'
    <3>1. DownLive(c) /\ SameDown(c)
      BY <1>3, <2>1 DEF IInv, DownInv, SameDown, CheckFileDescriptor, client, serverUser
    <3>2. QED
      BY <1>0, <1>1, <3>1, DownLiveMove
  <2>2. QED
    BY <2>1, DownGotFrame DEF IInv, DownInv, CheckFileDescriptor, client, serverUser
<1>9. (UpInv /\ UpGotInv /\ EndsInv /\ ClosingInv)'
  BY <1>1, <1>2, <1>3, UpFrame, EndsFrame, ClosingFrame
     DEF IInv, CheckFileDescriptor, client, serverChannels, serverUser
<1>10. QED
  BY <1>4, <1>5, <1>6, <1>7, <1>8, <1>9 DEF IInv

-----------------------------------------------------------------------------
(* What a reader has been given and finds in its queue *)

PendingOf(s) == IF s # <<>> /\ Last(s) = EndOfData THEN Front(s) ELSE s

LEMMA ConcatFacts ==
    ASSUME NEW S, NEW s \in Seq(S), NEW t \in Seq(S)
    PROVE  /\ s \o t \in Seq(S) /\ Len(s \o t) = Len(s) + Len(t)
           /\ \A i \in 1 .. Len(s) : (s \o t)[i] = s[i]
           /\ \A i \in 1 .. Len(t) : (s \o t)[Len(s) + i] = t[i]
           /\ Len(s) <= Len(s \o t)
OBVIOUS

LEMMA FrontFacts ==
    ASSUME NEW S, NEW s \in Seq(S), s # <<>>
    PROVE  /\ Front(s) \in Seq(S) /\ Len(Front(s)) = Len(s) - 1 /\ Last(s) = s[Len(s)]
           /\ \A i \in 1 .. Len(s) - 1 : Front(s)[i] = s[i]
<1>1. PICK k \in Nat : Len(s) = k + 1
  <2>1. Len(s) \in Nat /\ Len(s) # 0
    OBVIOUS
  <2>2. Len(s) - 1 \in Nat /\ Len(s) = (Len(s) - 1) + 1
    BY <2>1
  <2>3. QED
    BY <2>2
<1>2. Front(s) = SubSeq(s, 1, k)
  BY <1>1 DEF Front
<1>3. k \in 1 - 1 .. Len(s)
  BY <1>1
<1>4. /\ SubSeq(s, 1, k) \in Seq(S)
      /\ Len(SubSeq(s, 1, k)) = IF 1 <= k THEN k - 1 + 1 ELSE 0
      /\ \A i \in 1 .. k - 1 + 1 : SubSeq(s, 1, k)[i] = s[1 + i - 1]
  BY <1>1, <1>3, SubSeqProperties
<1>5. QED
  BY <1>1, <1>2, <1>4 DEF Last

LEMMA PendingType ==
    ASSUME NEW c \in Ids, readQueue[c] \in Seq(Seq(Units))
    PROVE  Pending(c) \in Seq(Seq(Units)) /\ Pending(c) = PendingOf(readQueue[c])
<1>1. readQueue[c] # <<>> => Front(readQueue[c]) \in Seq(Seq(Units))
  BY FrontFacts
<1>2. QED
  BY <1>1 DEF Pending, PendingOf

LEMMA SameSeq ==
    ASSUME NEW S, NEW s \in Seq(S), NEW t \in Seq(S), Len(s) = Len(t),
           \A i \in 1 .. Len(s) : s[i] = t[i]
    PROVE  s = t
OBVIOUS

LEMMA Shift ==
    ASSUME NEW S, NEW g \in Seq(S), NEW p \in Seq(S), NEW t \in Seq(S), NEW x \in S,
           Len(p) = Len(t) + 1, p[1] = x, \A i \in 1 .. Len(t) : t[i] = p[i + 1]
    PROVE  Append(g, x) \o t = g \o p
<1> DEFINE a == Append(g, x)
<1>1. /\ Len(g) \in Nat /\ Len(t) \in Nat /\ Len(p) \in Nat
      /\ a \in Seq(S) /\ Len(a) = Len(g) + 1 /\ a[Len(g) + 1] = x
      /\ \A i \in 1 .. Len(g) : a[i] = g[i]
  BY AppendProperties, LenProperties
<1> HIDE DEF a
<1>2. /\ a \o t \in Seq(S) /\ Len(a \o t) = Len(a) + Len(t)
      /\ \A i \in 1 .. Len(a) + Len(t) : (a \o t)[i] = IF i <= Len(a) THEN a[i] ELSE t[i - Len(a)]
  BY <1>1, ConcatProperties
<1>3. /\ g \o p \in Seq(S) /\ Len(g \o p) = Len(g) + Len(p)
      /\ \A i \in 1 .. Len(g) + Len(p) : (g \o p)[i] = IF i <= Len(g) THEN g[i] ELSE p[i - Len(g)]
  BY <1>1, ConcatProperties
<1>4. Len(a \o t) = Len(g \o p)
  BY <1>1, <1>2, <1>3
<1>5. ASSUME NEW i \in 1 .. Len(g) + Len(p)
      PROVE  (a \o t)[i] = (g \o p)[i]
  <2>1. CASE i <= Len(g)
    BY <1>1, <1>2, <1>3, <2>1
  <2>2. CASE i = Len(g) + 1
    BY <1>1, <1>2, <1>3, <2>2
  <2>3. CASE i > Len(g) + 1
    <3>1. i - Len(g) - 1 \in 1 .. Len(t) /\ i - Len(a) = i - Len(g) - 1
      BY <1>1, <2>3
    <3>2. t[i - Len(g) - 1] = p[i - Len(g)]
      BY <1>1, <2>3, <3>1
    <3>3. QED
      BY <1>1, <1>2, <1>3, <2>3, <3>1, <3>2
  <2>4. QED
    BY <1>1, <2>1, <2>2, <2>3
<1>6. QED
  BY <1>2, <1>3, <1>4, <1>5, SameSeq DEF a

LEMMA PendingTail ==
    ASSUME NEW S, NEW s \in Seq(S), NEW t \in Seq(S), s # <<>>, Len(s) = Len(t) + 1,
           \A i \in 1 .. Len(t) : t[i] = s[i + 1], s[1] # EndOfData
    PROVE  LET p == PendingOf(s)
               q == PendingOf(t)
           IN  /\ p \in Seq(S) /\ q \in Seq(S) /\ Len(p) = Len(q) + 1 /\ p[1] = s[1]
               /\ \A i \in 1 .. Len(q) : q[i] = p[i + 1]
<1>1. Len(s) \in Nat /\ Len(t) \in Nat
  OBVIOUS
<1>2. t # <<>> => Last(t) = Last(s)
  <2>1. t # <<>> => Len(t) \in 1 .. Len(t)
    BY <1>1
  <2>2. QED
    BY <1>1, <2>1 DEF Last
<1>3. CASE Last(s) # EndOfData
  <2>1. PendingOf(s) = s /\ PendingOf(t) = t
    BY <1>2, <1>3 DEF PendingOf
  <2>2. QED
    BY <2>1
<1>4. CASE Last(s) = EndOfData
  <2>1. Len(s) # 1
    BY <1>4 DEF Last
  <2>2. t # <<>>
    BY <1>1, <2>1
  <2>3. PendingOf(s) = Front(s) /\ PendingOf(t) = Front(t)
    BY <1>2, <1>4, <2>2 DEF PendingOf
  <2>4. /\ Front(s) \in Seq(S) /\ Len(Front(s)) = Len(s) - 1
        /\ \A i \in 1 .. Len(s) - 1 : Front(s)[i] = s[i]
    BY FrontFacts
  <2>5. /\ Front(t) \in Seq(S) /\ Len(Front(t)) = Len(t) - 1
        /\ \A i \in 1 .. Len(t) - 1 : Front(t)[i] = t[i]
    BY <2>2, FrontFacts
  <2>6. Len(t) > 0
    BY <1>1, <2>2
  <2>7. \A i \in 1 .. Len(t) - 1 : Front(t)[i] = Front(s)[i + 1]
    BY <1>1, <2>4, <2>5
  <2>8. QED
    BY <1>1, <2>3, <2>4, <2>5, <2>6, <2>7
<1>5. QED
  BY <1>3, <1>4

\* The message at the head of the queue is read.
LEMMA ReadSame ==
    ASSUME NEW S, NEW g \in Seq(S), NEW s \in Seq(S), s # <<>>, Head(s) # EndOfData
    PROVE  Append(g, Head(s)) \o PendingOf(Tail(s)) = g \o PendingOf(s)
<1>1. /\ Head(s) \in S /\ Tail(s) \in Seq(S) /\ Head(s) = s[1] /\ Len(s) \in Nat /\ Len(s) > 0
      /\ Len(Tail(s)) = Len(s) - 1 /\ \A i \in 1 .. Len(s) - 1 : Tail(s)[i] = s[i + 1]
  BY TailFacts
<1>2. PICK t \in Seq(S) : t = Tail(s)
  BY <1>1
<1>3. PICK x \in S : x = Head(s)
  BY <1>1
<1>4. Len(s) = Len(t) + 1 /\ \A i \in 1 .. Len(t) : t[i] = s[i + 1]
  BY <1>1, <1>2
<1> DEFINE p == PendingOf(s)
           q == PendingOf(t)
<1>a. s[1] # EndOfData /\ s[1] = x
  BY <1>1, <1>3
<1>5. /\ p \in Seq(S) /\ q \in Seq(S) /\ Len(p) = Len(q) + 1 /\ p[1] = s[1]
      /\ \A i \in 1 .. Len(q) : q[i] = p[i + 1]
  BY <1>4, <1>a, PendingTail
<1> HIDE DEF p, q
<1>6. Append(g, x) \o q = g \o p
  BY <1>5, <1>a, Shift
<1>7. QED
  BY <1>2, <1>3, <1>6 DEF p, q

LEMMA PendingAll ==
    ASSUME NEW S, NEW s \in Seq(S), \A j \in 1 .. Len(s) : s[j] # EndOfData
    PROVE  PendingOf(s) = s
<1>1. s # <<>> => Len(s) \in 1 .. Len(s)
  OBVIOUS
<1>2. QED
  BY <1>1 DEF PendingOf, Last

LEMMA PendingEnd ==
    ASSUME NEW S, NEW s \in Seq(S), EndOfData \in S
    PROVE  PendingOf(Append(s, EndOfData)) = s
<1> DEFINE t == Append(s, EndOfData)
<1>1. /\ t \in Seq(S) /\ t # <<>> /\ Len(t) = Len(s) + 1 /\ t[Len(s) + 1] = EndOfData
      /\ \A i \in 1 .. Len(s) : t[i] = s[i]
      /\ Len(s) \in Nat
  BY AppendProperties, LenProperties
<1> HIDE DEF t
<1>2. Front(t) \in Seq(S) /\ Len(Front(t)) = Len(t) - 1 /\ Last(t) = t[Len(t)]
      /\ \A i \in 1 .. Len(t) - 1 : Front(t)[i] = t[i]
  BY <1>1, FrontFacts
<1>3. Len(Front(t)) = Len(s) /\ Last(t) = EndOfData /\ \A i \in 1 .. Len(s) : Front(t)[i] = s[i]
  BY <1>1, <1>2
<1>4. Front(t) = s
  BY <1>2, <1>3, SameSeq
<1>5. QED
  BY <1>1, <1>3, <1>4 DEF PendingOf, t

\* A message is added to the queue.
LEMMA PendingMore ==
    ASSUME NEW S, NEW g \in Seq(S), NEW s \in Seq(S), NEW m \in S, m # EndOfData,
           \A j \in 1 .. Len(s) : s[j] # EndOfData
    PROVE  /\ g \o PendingOf(s \o <<m>>) = Append(g \o PendingOf(s), m)
           /\ s \o <<m>> \in Seq(S)
           /\ \A j \in 1 .. Len(s \o <<m>>) : (s \o <<m>>)[j] # EndOfData
<1>1. s \o <<m>> = Append(s, m)
  BY OneMore
<1> DEFINE t == Append(s, m)
<1>2. /\ t \in Seq(S) /\ Len(t) = Len(s) + 1 /\ t[Len(s) + 1] = m
      /\ \A i \in 1 .. Len(s) : t[i] = s[i]
      /\ Len(s) \in Nat /\ Len(g) \in Nat
  BY AppendProperties, LenProperties
<1> HIDE DEF t
<1>3. \A j \in 1 .. Len(t) : t[j] # EndOfData
  BY <1>2
<1>4. PendingOf(t) = t /\ PendingOf(s) = s
  BY <1>2, <1>3, PendingAll
<1>5. g \o t = Append(g \o s, m)
  <2> DEFINE w == g \o t
             u == g \o s
             v == Append(u, m)
  <2>1. /\ w \in Seq(S) /\ Len(w) = Len(g) + Len(t)
        /\ \A i \in 1 .. Len(g) + Len(t) : w[i] = IF i <= Len(g) THEN g[i] ELSE t[i - Len(g)]
    BY <1>2, ConcatProperties
  <2>2. /\ u \in Seq(S) /\ Len(u) = Len(g) + Len(s)
        /\ \A i \in 1 .. Len(g) + Len(s) : u[i] = IF i <= Len(g) THEN g[i] ELSE s[i - Len(g)]
    BY <1>2, ConcatProperties
  <2> HIDE DEF w, u
  <2>3. /\ v \in Seq(S) /\ Len(v) = Len(u) + 1 /\ v[Len(u) + 1] = m
        /\ \A i \in 1 .. Len(u) : v[i] = u[i]
    BY <2>2, AppendProperties
  <2> HIDE DEF v
  <2>4. Len(w) = Len(v)
    BY <1>2, <2>1, <2>2, <2>3
  <2>5. ASSUME NEW i \in 1 .. Len(g) + Len(t)
        PROVE  w[i] = v[i]
    <3>0. i \in Nat /\ i >= 1
      BY <1>2
    <3>1. CASE i <= Len(g)
      <4>1. i \in 1 .. Len(g) + Len(s) /\ i \in 1 .. Len(u)
        BY <1>2, <2>2, <3>0, <3>1
      <4>2. w[i] = g[i] /\ u[i] = g[i] /\ v[i] = u[i]
        BY <2>1, <2>2, <2>3, <3>1, <4>1
      <4>3. QED
        BY <4>2
    <3>2. CASE i > Len(g) /\ i <= Len(g) + Len(s)
      <4>1. i - Len(g) \in 1 .. Len(s) /\ i \in 1 .. Len(g) + Len(s) /\ i \in 1 .. Len(u) /\ ~(i <= Len(g))
        BY <1>2, <2>2, <3>0, <3>2
      <4>2. w[i] = t[i - Len(g)] /\ u[i] = s[i - Len(g)] /\ v[i] = u[i]
        BY <2>1, <2>2, <2>3, <4>1
      <4>3. t[i - Len(g)] = s[i - Len(g)]
        BY <1>2, <4>1
      <4>4. QED
        BY <4>2, <4>3
    <3>3. CASE i = Len(g) + Len(s) + 1
      <4>1. i - Len(g) = Len(s) + 1 /\ i = Len(u) + 1 /\ ~(i <= Len(g))
        BY <1>2, <2>2, <3>3
      <4>2. QED
        BY <1>2, <2>1, <2>3, <4>1
    <3>4. QED
      BY <1>2, <3>0, <3>1, <3>2, <3>3
  <2>6. w = v
    BY <2>1, <2>3, <2>4, <2>5, SameSeq
  <2>7. QED
    BY <2>6 DEF u, v, w
<1>6. QED
  BY <1>1, <1>2, <1>3, <1>4, <1>5 DEF t

LEMMA VirtualChannelOpenExStep ==
    ASSUME IInv, VirtualChannelOpenEx
    PROVE  IInv'
<1> DEFINE n == nextId + 1
           x == Create(n)
<1>0. TypeInv /\ LogInv /\ MaxId \in Nat /\ MaxLength \in Nat \ {0}
  BY DvcBounds DEF IInv
<1>1. /\ nextId \in Nat /\ n \in Ids /\ n > nextId /\ nextId' = n
      /\ \A c \in Ids : c \in Nat /\ (c > nextId <=> c > n \/ c = n)
  <2>1. nextId \in 0 .. MaxId
    BY <1>0 DEF TypeInv
  <2>2. nextId < MaxId /\ nextId' = n
    BY DEF VirtualChannelOpenEx
  <2>3. QED
    BY <1>0, <2>1, <2>2 DEF Ids
<1>2. queue' = Append(queue, x) /\ x \in DownPdus /\ UNCHANGED toClient
  BY <1>1, PduTypes DEF VirtualChannelOpenEx, QueueSend, wire
<1>3. Down' = Down \cup {x}
  BY <1>0, <1>2, DownSend
<1>4. \A c \in Ids : Fresh(c)' <=> Fresh(c)
  BY <1>1, <1>3, SamePdu DEF Fresh
<1>5. dvc' = [dvc EXCEPT ![n] = "none"] /\ dvc'[n] = "none" /\ \A c \in Ids : c # n => dvc'[c] = dvc[c]
  BY <1>0, <1>1 DEF VirtualChannelOpenEx, TypeInv
<1>6. /\ Fresh(n) /\ dvc[n] = "absent" /\ serverSent[n] = <<>> /\ \A p \in Down : ~About(n, p)
      /\ channel[n] = "absent" /\ sending[n] = <<>> /\ clientSent[n] = <<>>
      /\ closing[n] \in {"no", "silent"} /\ clientWrites[n] = 0 /\ serverGot[n] = <<>> /\ readQueue[n] = <<>>
      /\ reassembly[n] = Nothing /\ posting[n] = <<>>
      /\ \A p \in Range(toServer) : ~About(n, p)
  <2>1. Fresh(n)
    BY <1>1 DEF Fresh
  <2>2. QED
    BY <1>1, <2>1 DEF IInv, OpenedInv, FreshInv, PostingInv
<1>7. TypeInv'
  <2>1. queue' \in Seq(DownPdus)
    BY <1>0, <1>2 DEF TypeInv
  <2>2. nextId' \in 0 .. MaxId
    BY <1>0, <1>1 DEF Ids
  <2>3. dvc' \in [Ids -> {"absent", "none", "succeeded", "failed", "closed"}]
    BY <1>0, <1>5 DEF TypeInv
  <2>4. QED
    BY <1>0, <2>1, <2>2, <2>3 DEF TypeInv, VirtualChannelOpenEx, QueueSend, wire, client, serverUser
<1>8. (BufferInv /\ LogInv)'
  BY DEF IInv, BufferInv, LogInv, VirtualChannelOpenEx, QueueSend, client, serverUser
<1> HIDE DEF x, n
<1>9. \A c : ~DataOf(c, x) /\ (About(c, x) <=> c = n) /\ x # Close(c)
  BY AboutKinds, SamePdu DEF x
<1>10. OpenedInv'
  BY <1>1, <1>3, <1>5, <1>9 DEF IInv, OpenedInv, VirtualChannelOpenEx, serverUser
<1>11. FreshInv'
  BY <1>4, <1>5 DEF IInv, FreshInv, VirtualChannelOpenEx, wire, client, serverUser
<1>12. PostingInv'
  <2>1. \A c \in Ids : Close(c) \in Down' => Close(c) \in Down /\ c # n
    BY <1>3, <1>6, <1>9, AboutKinds
  <2>2. QED
    BY <1>5, <1>6, <2>1 DEF IInv, PostingInv, VirtualChannelOpenEx, serverUser
<1>13. (DownInv /\ DownGotInv)'
  <2>1. ASSUME NEW c \in Ids, Fresh(c)' \/ channel'[c] = "running"
        PROVE  DownLive(c)'
    <3>1. DownLive(c) /\ SameDown(c)
      BY <1>4, <2>1 DEF IInv, DownInv, SameDown, VirtualChannelOpenEx, client, serverUser
    <3>2. CASE c = n
      <4>1. Range(posting[c]) = {}
        BY <1>6, <3>2, RangeEmpty
      <4>2. /\ AllBefore(c, Len(serverSent[c]), 0, Down, {x})
            /\ AllBefore(c, Len(serverSent[c]), 0, {x}, Range(posting[c]))
        BY <1>6, <3>2, <4>1 DEF AllBefore
      <4>3. QED
        BY <1>0, <1>2, <1>9, <3>1, <4>2, DownLiveAppend
    <3>3. CASE c # n
      BY <1>0, <1>2, <1>9, <3>1, <3>3, DownLiveSend
    <3>4. QED
      BY <3>2, <3>3
  <2>2. QED
    BY <2>1, DownGotFrame DEF IInv, DownInv, VirtualChannelOpenEx, client, serverUser
<1>14. UpInv'
  <2>1. ASSUME NEW c \in Ids, NEW log \in Logs, SendingInv(c, log),
               connected /\ dvc[c] \in {"none", "succeeded"} => UpLive(c, log)
        PROVE  /\ SendingInv(c, log)'
               /\ connected' /\ dvc'[c] \in {"none", "succeeded"} => UpLive(c, log)'
    <3>1. SendingInv(c, log)' /\ UNCHANGED connected
      BY <2>1 DEF SendingInv, VirtualChannelOpenEx, client, wire
    <3>2. SameUp(c) /\ UNCHANGED <<toServer, channel>>
      BY DEF SameUp, VirtualChannelOpenEx, client, wire, serverUser
    <3>3. CASE c # n
      BY <1>5, <2>1, <3>1, <3>2, <3>3, UpLiveSame
    <3>4. CASE c = n
      <4>1. Given(c) = <<>> /\ Len(Given(c)) = 0 /\ Len(clientSent[c]) = 0
        <5>1. Pending(c) = <<>>
          BY <1>6, <3>4 DEF Pending
        <5>2. Given(c) = <<>> \o <<>>
          BY <1>6, <3>4, <5>1 DEF Given
        <5>3. <<>> \o <<>> = <<>> /\ Len(<<>>) = 0
          OBVIOUS
        <5>4. QED
          BY <1>6, <3>4, <5>2, <5>3
      <4>2. Range(sending[c]) = {}
        BY <1>6, <3>4, RangeEmpty
      <4>l. log \in Logs /\ Len(log) = 0
        BY <1>6, <2>1, <3>4 DEF SendingInv
      <4>3. InOrder(c, 0, 0, toServer)
        <5>1. toServer \in Seq(UpPdus)
          BY <1>0 DEF TypeInv
        <5>2. \A i \in 1 .. Len(toServer) : ~About(c, toServer[i])
          BY <1>6, <3>4, <5>1, RangeOf
        <5>3. QED
          BY <5>2 DEF InOrder
      <4>4. Place(c, log, 0, 0, Nothing, Range(toServer) \cup Range(sending[c]))
        <5>1. \A p \in Range(toServer) \cup Range(sending[c]) : ~DataOf(c, p)
          BY <1>6, <3>4, <4>2, AboutKinds
        <5>2. QED
          BY <4>l, <5>1, PlaceNone
      <4>5. UpLive(c, log)
        <5>1. \A p \in Range(toServer) : ~DataOf(c, p)
          BY <1>6, <3>4, AboutKinds
        <5>2. NextLength(log, Len(clientSent[c])) = 0
          BY <4>1, <4>l DEF NextLength
        <5>3. QED
          BY <1>6, <3>4, <4>1, <4>2, <4>3, <4>4, <5>1, <5>2 DEF UpLive, AllBefore
      <4>6. QED
        BY <3>1, <3>2, <4>5, UpLiveSame
    <3>5. QED
      BY <3>3, <3>4
  <2>2. QED
    BY <2>1 DEF IInv, UpInv, Up
<1>15. UpGotInv'
  BY <1>5, <1>6 DEF IInv, UpGotInv, UpGot, Given, Pending, VirtualChannelOpenEx, client, serverUser
<1>16. EndsInv'
  <2>1. ASSUME NEW c \in Ids, c = n
        PROVE  /\ Close(c) \notin Range(toServer) /\ \A ok : Created(c, ok) \notin Range(toServer)
    BY <1>6, <2>1, AboutKinds
  <2>2. QED
    BY <1>4, <1>5, <1>6, <2>1 DEF IInv, EndsInv, Ends, VirtualChannelOpenEx, client, wire
<1>17. ClosingInv'
  <2>1. UNCHANGED <<closing, channel, connected>>
    BY DEF VirtualChannelOpenEx, client, wire, serverUser
  <2>2. \A d \in Ids : d # n /\ d <= nextId' => d <= nextId
    BY <1>1
  <2>3. QED
    BY <1>3, <1>5, <1>6, <2>1, <2>2 DEF IInv, ClosingInv
<1>18. QED
  BY <1>7, <1>8, <1>10, <1>11, <1>12, <1>13, <1>14, <1>15, <1>16, <1>17 DEF IInv

LEMMA VirtualChannelWriteStep ==
    ASSUME IInv, NEW c \in Ids, NEW length \in 1 .. MaxLength, VirtualChannelWrite(c, length)
    PROVE  IInv'
<1> DEFINE log == serverSent[c]
           m == MessageOf(Len(log) + 1, length)
           f == Fragments(c, m)
           log2 == Append(log, m)
<1>0. TypeInv /\ LogInv /\ log \in Logs /\ Len(log) \in Nat /\ Len(clientGot[c]) \in Nat
      /\ dvcData[c] \in Buffers
  BY LogTypes DEF IInv
<1>1. /\ dvc[c] # "absent" /\ posting[c] = <<>> /\ closing[c] = "no"
      /\ UNCHANGED <<nextId, vcmState, toClient, queue, queueEvent, readers>>
  BY DEF VirtualChannelWrite, manager, wire, client, serverChannels, readers
<1>2. /\ posting' = [posting EXCEPT ![c] = f] /\ serverSent' = [serverSent EXCEPT ![c] = log2]
  BY DEF VirtualChannelWrite
<1>3. /\ f \in Seq(DataPdus) /\ Len(f) = length /\ m \in Seq(Units)
      /\ \A p \in Range(f) : DataOf(c, p) /\ p.unit[1] = Len(log) + 1
  <2>1. Len(log) + 1 \in Nat \ {0}
    BY <1>0
  <2>2. f \in Seq(DataPdus) /\ Len(f) = length /\ m \in Seq(Units)
    BY <2>1, FragmentsShape, MessageShape
  <2>3. Rest(f, f)
    BY <2>2 DEF Rest
  <2>4. QED
    BY <2>1, <2>2, <2>3, RestFacts
<1>4. log2 \in Logs /\ Len(log2) = Len(log) + 1 /\ log2[Len(log) + 1] = m
      /\ \A k \in 1 .. Len(log) : log2[k] = log[k]
  BY <1>0, LogAppend
<1> HIDE DEF f, m, log, log2
<1>5. /\ posting'[c] = f /\ serverSent'[c] = log2
      /\ \A d \in Ids : d # c => posting'[d] = posting[d] /\ serverSent'[d] = serverSent[d]
  BY <1>0, <1>2 DEF TypeInv
<1>6. Down' = Down /\ \A d \in Ids : Fresh(d)' <=> Fresh(d)
  BY <1>1 DEF Down, Fresh
<1>7. TypeInv'
  <2>1. posting' \in [Ids -> Seq(DataPdus)] /\ serverSent' \in [Ids -> Seq(Seq(Units))]
    BY <1>0, <1>2, <1>3, <1>4 DEF TypeInv, Logs
  <2>2. QED
    BY <1>0, <1>1, <2>1 DEF TypeInv, readers, VirtualChannelWrite, client
<1>8. (BufferInv /\ LogInv)'
  BY <1>1, <1>4, <1>5 DEF IInv, BufferInv, LogInv, readers, Logs
<1>9. OpenedInv'
  BY <1>1, <1>5, <1>6 DEF IInv, OpenedInv, readers
<1>10. FreshInv'
  BY <1>1, <1>6, FreshFrame DEF IInv
<1>11. PostingInv'
  <2>1. log2 # <<>> /\ serverSent'[c][Len(serverSent'[c])] = m /\ Rest(f, Fragments(c, m))
    BY <1>0, <1>3, <1>4, <1>5 DEF Rest, f, Logs
  <2>2. QED
    BY <1>1, <1>5, <1>6, <2>1 DEF IInv, PostingInv, readers
<1>12. DownInv'
  <2>1. ASSUME NEW d \in Ids, Fresh(d)' \/ channel'[d] = "running"
        PROVE  DownLive(d)'
    <3>1. DownLive(d)
      BY <1>1, <1>6, <2>1 DEF IInv, DownInv, readers
    <3>2. CASE d # c
      <4>1. SameDown(d)
        BY <1>1, <1>5, <3>2 DEF SameDown, readers
      <4>2. QED
        BY <1>1, <3>1, <4>1, DownLiveSame
    <3>3. CASE d = c
      <4>1. Range(posting[c]) = {} /\ Left(c) = Down
        BY <1>1, RangeEmpty DEF Left
      <4>2. /\ DownOrder(c, Len(log), toClient, queue, {})
            /\ Place(c, log, Len(log), Len(clientGot[c]), dvcData[c], Down)
        BY <3>1, <3>3, <4>1 DEF DownLive, log
      <4>3. \A p \in Down : p \in DownPdus
        BY <1>0, RangeOf DEF TypeInv, Down
      <4>4. \A p \in Down : About(c, p) => ~IsClose(p)
        BY <1>1, <4>3, DownPduKinds DEF IInv, PostingInv, About
      <4>5. AllBefore(c, Len(log) + 1, 0, Down, Range(f))
        <5>1. ASSUME NEW p \in Down, NEW q \in Range(f), About(c, p)
              PROVE  Before(Len(log) + 1, 0, p, q)
          <6>1. IsData(q) /\ ~IsCreate(q) /\ q.unit[1] = Len(log) + 1
            BY <1>3 DEF DataOf, IsData, IsCreate
          <6>2. CASE IsCreate(p)
            BY <6>1, <6>2 DEF Before
          <6>3. CASE IsData(p)
            <7>1. Valid(c, log, p)
              BY <4>2, <5>1, <6>3 DEF Place, About, DataOf
            <7>2. p.unit[1] \in 1 .. Len(log)
              BY <1>0, <7>1, ValidUnit
            <7>3. p.unit[1] < Len(log) + 1
              BY <1>0, <7>2
            <7>4. QED
              BY <6>1, <6>3, <7>3 DEF Before, UnitBefore
          <6>4. QED
            BY <4>4, <5>1, <6>2, <6>3 DEF About
        <5>2. QED
          BY <5>1 DEF AllBefore
      <4>6. DownOrder(c, Len(log) + 1, toClient, queue, Range(f))
        BY <1>0, <4>2, <4>4, <4>5, DownOrderCount DEF TypeInv, Down
      <4>7. Place(c, log2, Len(log) + 1, Len(clientGot[c]), dvcData[c], Down \cup Range(f))
        BY <1>0, <4>2, PlaceWrite DEF f, m, log2
      <4>8. QED
        BY <1>1, <1>4, <1>5, <1>6, <3>3, <4>6, <4>7 DEF DownLive, Left, readers
    <3>4. QED
      BY <3>2, <3>3
  <2>2. QED
    BY <2>1 DEF DownInv
<1>13. DownGotInv'
  <2>1. FirstOf(clientGot[c], log)
    BY DEF IInv, DownGotInv, log
  <2>2. FirstOf(clientGot[c], log2)
    BY <1>0, <1>4, <2>1 DEF FirstOf
  <2>3. QED
    BY <1>1, <1>5, <2>2 DEF IInv, DownGotInv, readers
<1>14. (UpInv /\ UpGotInv /\ EndsInv /\ ClosingInv)'
  BY <1>1, <1>6, UpFrame, EndsFrame, ClosingFrame DEF IInv, readers
<1>15. QED
  BY <1>7, <1>8, <1>9, <1>10, <1>11, <1>12, <1>13, <1>14 DEF IInv

LEMMA WritePostStep ==
    ASSUME IInv, NEW c \in Ids, WritePost(c)
    PROVE  IInv'
<1> DEFINE log == serverSent[c]
           n == Len(log)
           s == posting[c]
           x == Head(s)
<1>0. TypeInv /\ LogInv /\ log \in Logs /\ n \in Nat /\ s \in Seq(DataPdus) /\ s # <<>>
  BY LogTypes DEF IInv, TypeInv, WritePost
<1>1. UNCHANGED <<nextId, vcmState, serverSent, toClient, readers>>
  BY DEF WritePost, manager, wire, client, serverChannels, readers
<1>2. queue' = Append(queue, x) /\ posting' = [posting EXCEPT ![c] = Tail(s)] /\ queueEvent' = TRUE
  BY DEF WritePost, QueueSend
<1>3. /\ x \in DataPdus /\ x \in DownPdus /\ Tail(s) \in Seq(DataPdus)
      /\ Range(s) = {x} \cup Range(Tail(s))
  BY <1>0, TailFacts, RangeTail, PduTypes
<1>4. n \in 1 .. Len(log) /\ Rest(s, Fragments(c, log[n])) /\ dvc[c] # "absent"
      /\ closing[c] = "no"
  BY <1>0 DEF IInv, PostingInv, Logs
<1>5. /\ Len(log[n]) \in 1 .. MaxLength /\ log[n] = MessageOf(n, Len(log[n])) /\ n \in Nat \ {0}
  BY <1>0, <1>4, LogEntry
<1>6. /\ Rest(Tail(s), Fragments(c, log[n]))
      /\ AllBefore(c, n, 0, {x}, Range(Tail(s)))
  <2>1. Rest(s, Fragments(c, MessageOf(n, Len(log[n]))))
    BY <1>4, <1>5
  <2> HIDE DEF s, n
  <2>2. PICK k \in 1 .. MaxLength : k = Len(log[n])
    BY <1>5
  <2>3. /\ Rest(Tail(s), Fragments(c, MessageOf(n, k)))
        /\ AllBefore(c, n, 0, {Head(s)}, Range(Tail(s)))
    BY <1>0, <1>5, <2>1, <2>2, RestTail
  <2>4. QED
    BY <1>5, <2>2, <2>3
<1>7. DataOf(c, x)
  <2>1. Rest(s, Fragments(c, MessageOf(n, Len(log[n]))))
    BY <1>4, <1>5
  <2> HIDE DEF s, n, x
  <2>2. PICK k \in 1 .. MaxLength : k = Len(log[n])
    BY <1>5
  <2>3. QED
    BY <1>0, <1>3, <1>5, <2>1, <2>2, RestFacts
<1>8. Down' = Down \cup {x}
  BY <1>0, <1>1, <1>2, <1>3, DownSend
<1> HIDE DEF x, s, n, log
<1>9. \A d : (About(d, x) <=> d = c) /\ x # Create(d) /\ x # Close(d)
  BY <1>3, <1>7, DataPduFields DEF DataOf
<1>10. \A d \in Ids : Fresh(d)' <=> Fresh(d)
  BY <1>1, <1>8, <1>9 DEF Fresh
<1>11. posting'[c] = Tail(s) /\ \A d \in Ids : d # c => posting'[d] = posting[d]
  BY <1>0, <1>2 DEF TypeInv
<1>12. TypeInv'
  <2>1. queue' \in Seq(DownPdus)
    BY <1>0, <1>2, <1>3 DEF TypeInv
  <2>2. posting' \in [Ids -> Seq(DataPdus)]
    BY <1>0, <1>2, <1>3 DEF TypeInv
  <2>3. QED
    BY <1>0, <1>1, <1>2, <2>1, <2>2 DEF TypeInv, readers, WritePost, client
<1>13. (BufferInv /\ LogInv)'
  BY <1>1, <1>2 DEF IInv, BufferInv, LogInv, readers
<1>14. OpenedInv'
  BY <1>1, <1>4, <1>8, <1>9 DEF IInv, OpenedInv, readers
<1>15. FreshInv'
  BY <1>1, <1>10, FreshFrame DEF IInv
<1>16. PostingInv'
  <2>1. log # <<>> /\ n = Len(log)
    BY <1>0, <1>4 DEF n, Logs
  <2>2. serverSent'[c] = log /\ serverSent'[c][Len(serverSent'[c])] = log[n]
    BY <1>1, <2>1 DEF log
  <2>3. \A d \in Ids : Close(d) \in Down' => Close(d) \in Down
    BY <1>8, <1>9
  <2>4. ASSUME NEW d \in Ids, d # c
        PROVE  /\ dvc'[d] = "absent" \/ closing'[d] # "no" => posting'[d] = <<>>
               /\ posting'[d] # <<>> =>
                     /\ serverSent'[d] # <<>>
                     /\ Rest(posting'[d], Fragments(d, serverSent'[d][Len(serverSent'[d])]))
    BY <1>1, <1>11, <2>4 DEF IInv, PostingInv, readers
  <2>5. /\ dvc'[c] # "absent" /\ closing'[c] = "no" /\ serverSent'[c] # <<>>
        /\ Rest(posting'[c], Fragments(c, serverSent'[c][Len(serverSent'[c])]))
    BY <1>1, <1>4, <1>6, <1>11, <2>1, <2>2 DEF readers
  <2>6. \A d \in Ids : Close(d) \in Down' => closing'[d] = "told"
    BY <1>1, <2>3 DEF IInv, PostingInv, readers
  <2>7. QED
    BY <2>4, <2>5, <2>6 DEF PostingInv
<1>17. DownInv'
  <2>1. ASSUME NEW d \in Ids, Fresh(d)' \/ channel'[d] = "running"
        PROVE  DownLive(d)'
    <3>1. DownLive(d)
      BY <1>1, <1>10, <2>1 DEF IInv, DownInv, readers
    <3>2. CASE d # c
      <4>1. SameDown(d)
        BY <1>1, <1>11, <3>2 DEF SameDown, readers
      <4>2. QED
        BY <1>0, <1>1, <1>2, <1>3, <1>9, <3>1, <3>2, <4>1, DownLiveSend
    <3>3. CASE d = c
      <4>1. DownOrder(c, n, toClient, queue, Range(s))
        BY <3>1, <3>3 DEF DownLive, s, n, log
      <4>2. AllBefore(c, n, 0, Range(toClient) \cup Range(queue), {x})
        BY <1>3, <4>1 DEF DownOrder, AllBefore
      <4>3. DownOrder(c, n, toClient, Append(queue, x), Range(Tail(s)))
        BY <1>0, <1>3, <1>6, <4>1, <4>2, DownOrderSend DEF TypeInv
      <4>4. Left(c)' = Left(c)
        BY <1>3, <1>8, <1>11 DEF Left, s
      <4>5. QED
        BY <1>1, <1>2, <1>11, <3>1, <3>3, <4>3, <4>4 DEF DownLive, readers, n, log
    <3>4. QED
      BY <3>2, <3>3
  <2>2. QED
    BY <2>1 DEF DownInv
<1>18. (DownGotInv /\ UpInv /\ UpGotInv /\ EndsInv /\ ClosingInv)'
  BY <1>1, <1>8, <1>10, DownGotFrame, UpFrame, EndsFrame, ClosingFrame DEF IInv, readers
<1>19. QED
  BY <1>12, <1>13, <1>14, <1>15, <1>16, <1>17, <1>18 DEF IInv

\* The close looks at the channel.
LEMMA VirtualChannelCloseStep ==
    ASSUME IInv, NEW c \in Ids, VirtualChannelClose(c)
    PROVE  IInv'
<1>0. TypeInv
  BY DEF IInv
<1>1. /\ dvc[c] # "absent" /\ posting[c] = <<>> /\ closing[c] = "no"
      /\ UNCHANGED <<vcmState, nextId, queue, queueEvent, dvc, reassembly, readQueue, posting,
                     serverSent, serverGot, clientState, channel, dvcData, sending, thread, clientGot,
                     clientWrites, clientSent, toClient, toServer, connected>>
  BY DEF VirtualChannelClose, manager, wire, client, serverChannels
<1>2. /\ closing'[c] = "open" => dvc[c] = "succeeded"
      /\ closing'[c] \in {"open", "silent"}
      /\ closing' \in [Ids -> {"no", "open", "told", "silent"}]
      /\ \A d \in Ids : d # c => closing'[d] = closing[d]
  <2>1. closing \in [Ids -> {"no", "open", "told", "silent"}]
    BY <1>0 DEF TypeInv
  <2>2. closing' = [closing EXCEPT ![c] = IF dvc[c] = "succeeded" THEN "open" ELSE "silent"]
    BY DEF VirtualChannelClose
  <2>3. QED
    BY <2>1, <2>2
<1>3. Down' = Down /\ \A d \in Ids : Fresh(d)' <=> Fresh(d)
  BY <1>1 DEF Down, Fresh
<1>4. TypeInv'
  BY <1>0, <1>1, <1>2 DEF TypeInv
<1>5. (BufferInv /\ LogInv /\ OpenedInv)'
  BY <1>1, <1>3 DEF IInv, BufferInv, LogInv, OpenedInv
<1>6. FreshInv'
  <2>1. \A d \in Ids : Fresh(d) => closing'[d] \in {"no", "silent"}
    <3>1. Fresh(c) => closing'[c] \in {"no", "silent"}
      BY <1>2 DEF IInv, FreshInv
    <3>2. QED
      BY <1>2, <3>1 DEF IInv, FreshInv
  <2>2. QED
    BY <1>1, <1>3, <2>1 DEF IInv, FreshInv
<1>7. PostingInv'
  <2>1. Close(c) \notin Down
    BY <1>1 DEF IInv, PostingInv
  <2>2. QED
    BY <1>1, <1>2, <1>3, <2>1 DEF IInv, PostingInv
<1>8. (DownInv /\ DownGotInv /\ UpInv /\ UpGotInv /\ EndsInv)'
  BY <1>1, <1>3, DownFrame, UpFrame, EndsFrame DEF IInv
<1>9. ClosingInv'
  BY <1>1, <1>2, <1>3 DEF IInv, ClosingInv
<1>10. QED
  BY <1>4, <1>5, <1>6, <1>7, <1>8, <1>9 DEF IInv

\* It queues the CLOSE.
LEMMA CloseWriteStep ==
    ASSUME IInv, NEW c \in Ids, CloseWrite(c)
    PROVE  IInv'
<1>0. TypeInv /\ LogInv
  BY DEF IInv
<1>1. /\ closing[c] = "open"
      /\ UNCHANGED <<vcmState, nextId, dvc, reassembly, readQueue, posting, serverSent, serverGot,
                     clientState, channel, dvcData, sending, thread, clientGot, clientWrites,
                     clientSent, toClient, toServer, connected>>
      /\ queue' = Append(queue, Close(c)) /\ queueEvent' = TRUE
  BY DEF CloseWrite, QueueSend, manager, wire, client, serverChannels
<1>2. /\ closing'[c] = "told" /\ closing' \in [Ids -> {"no", "open", "told", "silent"}]
      /\ \A d \in Ids : d # c => closing'[d] = closing[d]
  <2>1. closing \in [Ids -> {"no", "open", "told", "silent"}]
    BY <1>0 DEF TypeInv
  <2>2. closing' = [closing EXCEPT ![c] = "told"]
    BY DEF CloseWrite
  <2>3. QED
    BY <2>1, <2>2
<1>3. Close(c) \in DownPdus
  BY PduTypes
<1>4. Down' = Down \cup {Close(c)}
  BY <1>0, <1>1, <1>3, DownSend
<1>5. \A d \in Ids : Fresh(d)' <=> Fresh(d)
  BY <1>1, <1>4, SamePdu DEF Fresh
<1>6. /\ ~Fresh(c) /\ c <= nextId /\ posting[c] = <<>> /\ Close(c) \notin Down
      /\ dvc[c] \in {"succeeded", "closed", "absent"}
  <2>1. ~Fresh(c) /\ posting[c] = <<>> /\ Close(c) \notin Down
    BY <1>1 DEF IInv, FreshInv, PostingInv
  <2>2. c \in Int /\ nextId \in Int
    BY <1>0 DEF TypeInv, Ids
  <2>3. QED
    BY <1>1, <2>1, <2>2 DEF Fresh, IInv, ClosingInv
<1>7. TypeInv'
  <2>1. queue' \in Seq(DownPdus)
    BY <1>0, <1>1, <1>3 DEF TypeInv
  <2>2. QED
    BY <1>0, <1>1, <1>2, <2>1 DEF TypeInv
<1>8. (BufferInv /\ LogInv)'
  BY <1>1 DEF IInv, BufferInv, LogInv
<1>9. OpenedInv'
  <2>1. \A d \in Ids : \A p \in Down' : p \in Down \/ ~About(d, p) \/ d <= nextId
    BY <1>4, <1>6, AboutKinds
  <2>2. QED
    BY <1>0, <1>1, <2>1, OpenedFrame DEF IInv
<1>10. FreshInv'
  BY <1>1, <1>2, <1>5, <1>6 DEF IInv, FreshInv
<1>11. PostingInv'
  BY <1>1, <1>2, <1>4, <1>6, SamePdu DEF IInv, PostingInv
<1>12. DownInv'
  <2>1. ASSUME NEW d \in Ids, Fresh(d)' \/ channel'[d] = "running"
        PROVE  DownLive(d)'
    <3>1. DownLive(d) /\ SameDown(d)
      BY <1>1, <1>5, <2>1 DEF IInv, DownInv, SameDown
    <3>2. CASE d # c
      BY <1>0, <1>1, <1>3, <3>1, <3>2, AboutKinds, DownLiveSend
    <3>3. CASE d = c
      <4>0. Len(serverSent[c]) \in Nat /\ serverSent[c] \in Logs
        BY <1>0, LogTypes
      <4>1. AllBefore(c, Len(serverSent[c]), 0, {Close(c)}, Range(posting[c]))
        BY <1>6, RangeEmpty DEF AllBefore
      <4>2. ASSUME NEW p \in Down, About(c, p)
            PROVE  Before(Len(serverSent[c]), 0, p, Close(c))
        <5>1. p \in DownPdus
          BY <1>0, RangeOf DEF TypeInv, Down
        <5>2. ~IsClose(p)
          BY <1>6, <4>2, <5>1, DownPduKinds DEF About
        <5>3. CASE IsCreate(p)
          BY <5>3, PduKinds DEF Before
        <5>4. CASE IsData(p)
          <6>1. Valid(c, serverSent[c], p)
            BY <3>1, <3>3, <4>2, <5>4 DEF DownLive, Place, Left, About, DataOf
          <6>2. p.unit[1] \in 1 .. Len(serverSent[c])
            BY <4>0, <6>1, ValidUnit
          <6>3. p.unit # <<Len(serverSent[c]) + 1, 0>> /\ p.unit[1] <= Len(serverSent[c]) + 1
            BY <4>0, <6>2
          <6>4. QED
            BY <5>4, <6>3, PduKinds DEF Before
        <5>5. QED
          BY <4>2, <5>2, <5>3, <5>4 DEF About
      <4>3. AllBefore(c, Len(serverSent[c]), 0, Down, {Close(c)})
        BY <4>2 DEF AllBefore
      <4>4. QED
        BY <1>0, <1>1, <1>3, <3>1, <3>3, <4>1, <4>3, AboutKinds, DownLiveAppend
    <3>4. QED
      BY <3>2, <3>3
  <2>2. QED
    BY <2>1 DEF DownInv
<1>13. (DownGotInv /\ UpInv /\ UpGotInv /\ EndsInv)'
  BY <1>1, <1>5, DownGotFrame, UpFrame, EndsFrame DEF IInv
<1>14. ClosingInv'
  BY <1>1, <1>2, <1>4, <1>6 DEF IInv, ClosingInv
<1>15. QED
  BY <1>7, <1>8, <1>9, <1>10, <1>11, <1>12, <1>13, <1>14 DEF IInv

\* It takes the channel out of the table.
LEMMA CloseRemoveStep ==
    ASSUME IInv, NEW c \in Ids, CloseRemove(c)
    PROVE  IInv'
<1>0. TypeInv /\ LogInv
  BY DEF IInv
<1>1. /\ dvc[c] # "absent" /\ closing[c] \in {"told", "silent"}
      /\ UNCHANGED <<nextId, vcmState, queue, queueEvent, toClient, posting, closing, serverSent,
                     serverGot, clientState, channel, clientGot, dvcData, sending, thread,
                     clientWrites, clientSent, toServer, connected>>
  BY DEF CloseRemove, manager, wire, client, serverUser
<1>2. /\ dvc' = [dvc EXCEPT ![c] = "absent"] /\ reassembly' = [reassembly EXCEPT ![c] = Nothing]
      /\ readQueue' = [readQueue EXCEPT ![c] = <<>>]
  BY DEF CloseRemove
<1>3. /\ dvc'[c] = "absent" /\ reassembly'[c] = Nothing /\ readQueue'[c] = <<>>
      /\ \A d \in Ids : d # c => /\ dvc'[d] = dvc[d] /\ reassembly'[d] = reassembly[d]
                                 /\ readQueue'[d] = readQueue[d]
  BY <1>0, <1>2 DEF TypeInv
<1>4. Down' = Down /\ \A d \in Ids : Fresh(d)' <=> Fresh(d)
  BY <1>1 DEF Down, Fresh
<1>5. TypeInv'
  <2>1. dvc' \in [Ids -> {"absent", "none", "succeeded", "failed", "closed"}]
    BY <1>0, <1>2 DEF TypeInv
  <2>2. reassembly' \in [Ids -> Buffers]
    BY <1>0, <1>2, NothingIsBuffer DEF TypeInv
  <2>3. readQueue' \in [Ids -> Seq(Seq(Units))]
    BY <1>0, <1>2 DEF TypeInv
  <2>4. QED
    BY <1>0, <1>1, <2>1, <2>2, <2>3 DEF TypeInv
<1>6. BufferInv'
  BY <1>1, <1>3, NothingIsBuffer DEF IInv, BufferInv
<1>7. LogInv'
  BY <1>1 DEF IInv, LogInv
<1>8. OpenedInv'
  BY <1>1, <1>3, <1>4 DEF IInv, OpenedInv
<1>9. FreshInv'
  BY <1>1, <1>3, <1>4 DEF IInv, FreshInv
<1>10. PostingInv'
  BY <1>1, <1>3, <1>4 DEF IInv, PostingInv
<1>11. (DownInv /\ DownGotInv)'
  BY <1>1, DownFrame DEF IInv
<1>12. UpInv'
  <2>1. ASSUME NEW d \in Ids, NEW log \in Logs, SendingInv(d, log),
               connected /\ dvc[d] \in {"none", "succeeded"} => UpLive(d, log)
        PROVE  /\ SendingInv(d, log)'
               /\ connected' /\ dvc'[d] \in {"none", "succeeded"} => UpLive(d, log)'
    <3>1. SendingInv(d, log)'
      BY <1>1, <2>1 DEF SendingInv
    <3>2. d # c => SameUp(d)
      BY <1>1, <1>3 DEF SameUp
    <3>3. QED
      BY <1>1, <1>3, <2>1, <3>1, <3>2, UpLiveSame
  <2>2. QED
    BY <2>1 DEF IInv, UpInv, Up
<1>13. EndsInv'
  BY <1>1, <1>3, <1>4 DEF IInv, EndsInv, Ends
<1>14. UpGotInv'
  <2>1. FirstOf(Given(c)', clientSent[c])
    <3>1. FirstOf(Given(c), clientSent[c])
      BY DEF IInv, UpGotInv, UpGot
    <3>2. serverGot[c] \in Seq(Seq(Units)) /\ Pending(c) \in Seq(Seq(Units)) /\ clientSent[c] \in Seq(Seq(Units))
      <4>1. readQueue[c] \in Seq(Seq(Units)) /\ serverGot[c] \in Seq(Seq(Units))
        BY <1>0 DEF TypeInv
      <4>2. QED
        BY <1>0, <4>1, PendingType DEF TypeInv
    <3>3. Given(c)' = serverGot[c]
      <4>1. Pending(c)' = <<>>
        BY <1>3 DEF Pending
      <4>2. QED
        BY <1>1, <3>2, <4>1 DEF Given
    <3>4. Len(serverGot[c]) <= Len(Given(c)) /\ \A i \in 1 .. Len(serverGot[c]) : serverGot[c][i] = Given(c)[i]
      BY <3>2, ConcatFacts DEF Given
    <3>5. Given(c) \in Seq(Seq(Units))
      BY <3>2 DEF Given
    <3>6. Len(serverGot[c]) \in Nat /\ Len(Given(c)) \in Nat /\ Len(clientSent[c]) \in Nat
      BY <3>2, <3>5
    <3>7. FirstOf(serverGot[c], clientSent[c])
      BY <3>1, <3>4, <3>6 DEF FirstOf
    <3>8. QED
      BY <3>3, <3>7
  <2>2. ASSUME NEW d \in Ids, d # c
        PROVE  Given(d)' = Given(d)
    BY <1>1, <1>3, <2>2 DEF Given, Pending
  <2>3. QED
    BY <1>1, <1>3, <2>1, <2>2 DEF IInv, UpGotInv, UpGot
<1>15. ClosingInv'
  BY <1>1, <1>3, <1>4 DEF IInv, ClosingInv
<1>16. QED
  BY <1>5, <1>6, <1>7, <1>8, <1>9, <1>10, <1>11, <1>12, <1>13, <1>14, <1>15 DEF IInv

LEMMA VirtualChannelReadStep ==
    ASSUME IInv, NEW c \in Ids, VirtualChannelRead(c)
    PROVE  IInv'
<1> DEFINE s == readQueue[c]
<1>0. TypeInv /\ LogInv /\ s \in Seq(Seq(Units)) /\ serverGot[c] \in Seq(Seq(Units))
  BY DEF IInv, TypeInv
<1>1. /\ s # <<>> /\ Head(s) # EndOfData
      /\ UNCHANGED <<nextId, vcmState, queue, queueEvent, toClient, posting, closing, serverSent, dvc,
                     reassembly, channel, clientGot, dvcData, sending, clientWrites, clientSent,
                     toServer, connected, clientState, thread>>
  BY DEF VirtualChannelRead, manager, wire, client
<1>2. /\ serverGot' = [serverGot EXCEPT ![c] = Append(serverGot[c], Head(s))]
      /\ readQueue' = [readQueue EXCEPT ![c] = Tail(s)]
  BY DEF VirtualChannelRead
<1>3. /\ serverGot'[c] = Append(serverGot[c], Head(s)) /\ readQueue'[c] = Tail(s)
      /\ \A d \in Ids : d # c => serverGot'[d] = serverGot[d] /\ readQueue'[d] = readQueue[d]
  BY <1>0, <1>2 DEF TypeInv
<1>4. Tail(s) \in Seq(Seq(Units)) /\ Append(serverGot[c], Head(s)) \in Seq(Seq(Units))
  BY <1>0, <1>1, TailFacts
<1>5. Down' = Down /\ \A d \in Ids : Fresh(d)' <=> Fresh(d)
  BY <1>1 DEF Down, Fresh
<1>6. ~Fresh(c)
  BY <1>1 DEF IInv, FreshInv
<1>7. \A d \in Ids : Given(d)' = Given(d)
  <2>1. ASSUME NEW d \in Ids, d # c
        PROVE  Given(d)' = Given(d)
    BY <1>3, <2>1 DEF Given, Pending
  <2>2. Given(c) = serverGot[c] \o PendingOf(s)
    BY DEF Given, Pending, PendingOf
  <2>3. Given(c)' = Append(serverGot[c], Head(s)) \o PendingOf(Tail(s))
    BY <1>3 DEF Given, Pending, PendingOf
  <2>4. Given(c)' = Given(c)
    BY <1>0, <1>1, <2>2, <2>3, ReadSame
  <2>5. QED
    BY <2>1, <2>4
<1>8. TypeInv'
  <2>1. serverGot' \in [Ids -> Seq(Seq(Units))] /\ readQueue' \in [Ids -> Seq(Seq(Units))]
    BY <1>0, <1>2, <1>4 DEF TypeInv
  <2>2. QED
    BY <1>0, <1>1, <2>1 DEF TypeInv
<1>9. (BufferInv /\ LogInv)'
  BY <1>1 DEF IInv, BufferInv, LogInv
<1>10. OpenedInv'
  BY <1>1, <1>5 DEF IInv, OpenedInv
<1>11. FreshInv'
  BY <1>1, <1>3, <1>5, <1>6 DEF IInv, FreshInv
<1>12. (PostingInv /\ DownInv /\ DownGotInv /\ EndsInv /\ ClosingInv)'
  BY <1>1, <1>5, PostingFrame, DownFrame, EndsFrame, ClosingFrame DEF IInv
<1>13. UpInv'
  BY <1>1, <1>7 DEF IInv, UpInv, Up, SendingInv, UpLive
<1>14. UpGotInv'
  <2>1. /\ Len(Tail(s)) = Len(s) - 1 /\ Len(s) \in Nat /\ Len(s) > 0
        /\ \A i \in 1 .. Len(s) - 1 : Tail(s)[i] = s[i + 1]
        /\ Head(s) = s[1]
    BY <1>0, <1>1, TailFacts
  <2>2. ASSUME dvc[c] # "closed", NEW j \in 1 .. Len(Tail(s))
        PROVE  Tail(s)[j] # EndOfData
    <3>1. j \in 1 .. Len(s) - 1 /\ j + 1 \in 1 .. Len(s)
      BY <2>1
    <3>2. QED
      BY <2>1, <2>2, <3>1 DEF IInv, UpGotInv, UpGot
  <2>3. ASSUME dvc[c] = "closed"
        PROVE  /\ Tail(s) # <<>>
               /\ \A j \in 1 .. Len(Tail(s)) : Tail(s)[j] = EndOfData <=> j = Len(Tail(s))
    <3>1. \A j \in 1 .. Len(s) : s[j] = EndOfData <=> j = Len(s)
      BY <2>3 DEF IInv, UpGotInv, UpGot
    <3>2. Len(s) # 1
      BY <1>1, <2>1, <3>1
    <3>3. Len(Tail(s)) # 0 /\ Tail(s) # <<>>
      <4>1. Len(Tail(s)) # 0
        BY <2>1, <3>2
      <4>2. Len(<<>>) = 0
        OBVIOUS
      <4>3. QED
        BY <4>1, <4>2, Zenon
    <3>4. \A j \in 1 .. Len(Tail(s)) : Tail(s)[j] = EndOfData <=> j = Len(Tail(s))
      BY <2>1, <3>1
    <3>5. QED
      BY <3>3, <3>4
  <2>4. dvc[c] # "absent"
    BY DEF VirtualChannelRead
  <2>5. QED
    <3> HIDE DEF s
    <3>1. ASSUME NEW d \in Ids, d # c
          PROVE  /\ FirstOf(Given(d), clientSent[d])
                 /\ dvc[d] = "absent" => readQueue'[d] = <<>>
                 /\ dvc[d] # "closed" =>
                       \A j \in 1 .. Len(readQueue'[d]) : readQueue'[d][j] # EndOfData
                 /\ dvc[d] = "closed" =>
                       /\ readQueue'[d] # <<>>
                       /\ \A j \in 1 .. Len(readQueue'[d]) :
                             readQueue'[d][j] = EndOfData <=> j = Len(readQueue'[d])
                       /\ Len(Given(d)) = Len(clientSent[d]) /\ channel[d] # "running"
      BY <1>3, <3>1 DEF IInv, UpGotInv, UpGot
    <3>2. /\ FirstOf(Given(c), clientSent[c])
          /\ dvc[c] = "closed" => Len(Given(c)) = Len(clientSent[c]) /\ channel[c] # "running"
      BY DEF IInv, UpGotInv, UpGot
    <3>3. /\ dvc[c] # "absent"
          /\ dvc[c] # "closed" =>
                \A j \in 1 .. Len(readQueue'[c]) : readQueue'[c][j] # EndOfData
          /\ dvc[c] = "closed" =>
                /\ readQueue'[c] # <<>>
                /\ \A j \in 1 .. Len(readQueue'[c]) :
                      readQueue'[c][j] = EndOfData <=> j = Len(readQueue'[c])
      BY <1>3, <2>2, <2>3, <2>4
    <3>4. QED
      BY <1>1, <1>7, <3>1, <3>2, <3>3 DEF UpGotInv, UpGot
<1>15. QED
  BY <1>8, <1>9, <1>10, <1>11, <1>12, <1>13, <1>14 DEF IInv

-----------------------------------------------------------------------------
(* The server takes a PDU *)

LEMMA UpHead ==
    ASSUME TypeInv, NEW c \in Ids, NEW log, NEW length,
           length = NextLength(log, Len(clientSent[c])), UpLive(c, log), toServer # <<>>,
           toServer' = Tail(toServer)
    PROVE  /\ InOrder(c, Len(clientSent[c]), length, toServer')
           /\ AllBefore(c, Len(clientSent[c]), length, {Head(toServer)}, Range(toServer'))
           /\ AllBefore(c, Len(clientSent[c]), length, {Head(toServer)}, Range(sending[c]))
           /\ AllBefore(c, Len(clientSent[c]), length, Range(toServer'), Range(sending[c]))
<1>1. toServer \in Seq(UpPdus)
  BY DEF TypeInv
<1>2. /\ InOrder(c, Len(clientSent[c]), length, Tail(toServer))
      /\ AllBefore(c, Len(clientSent[c]), length, {Head(toServer)}, Range(Tail(toServer)))
  BY <1>1, OrderTail DEF UpLive
<1>3. Range(toServer) = {Head(toServer)} \cup Range(toServer')
  BY UpTake
<1>4. AllBefore(c, Len(clientSent[c]), length, Range(toServer), Range(sending[c]))
  BY DEF UpLive
<1>5. QED
  BY <1>2, <1>3, <1>4 DEF AllBefore

SameServer(c) ==
    dvc'[c] = dvc[c] /\ reassembly'[c] = reassembly[c] /\ readQueue'[c] = readQueue[c]

\* What every step of this kind does, and what it leaves alone.
LEMMA ServerTakesFrame ==
    ASSUME IInv, NEW pdu, ServerTakes(pdu)
    PROVE  /\ UNCHANGED <<nextId, queue, posting, serverSent, serverGot, toClient, connected, channel,
                          clientGot, dvcData, sending, clientSent, clientWrites, closing, clientState,
                          thread>>
           /\ connected /\ pdu \in UpPdus /\ toServer # <<>> /\ pdu = Head(toServer)
           /\ toServer' = Tail(toServer) /\ toServer' \in Seq(UpPdus)
           /\ Range(toServer) = {pdu} \cup Range(toServer')
           /\ Down' = Down /\ \A c \in Ids : Fresh(c)' <=> Fresh(c)
           /\ \A c \in Ids : About(c, pdu) => ~Fresh(c) /\ vcmState = "ready"
<1>1. /\ UNCHANGED <<nextId, queue, posting, serverSent, serverGot, toClient, connected, channel,
                     clientGot, dvcData, sending, clientSent, clientWrites, closing, clientState,
                     thread>>
      /\ connected /\ toServer # <<>> /\ pdu = Head(toServer) /\ toServer' = Tail(toServer)
  BY DEF ServerTakes, serverUser, client
<1>2. /\ Range(toServer) = {pdu} \cup Range(toServer') /\ pdu \in UpPdus
      /\ toServer' \in Seq(UpPdus)
  BY <1>1, UpTake DEF IInv
<1>3. Down' = Down /\ \A c \in Ids : Fresh(c)' <=> Fresh(c)
  BY <1>1 DEF Down, Fresh
<1>4. ASSUME NEW c \in Ids, About(c, pdu)
      PROVE  ~Fresh(c) /\ vcmState = "ready"
  <2>1. ~Fresh(c)
    BY <1>2, <1>4 DEF IInv, FreshInv
  <2>2. c \in Nat /\ c > 0 /\ nextId \in Nat
    BY DEF Ids, IInv, TypeInv
  <2>3. nextId > 0
    BY <2>1, <2>2 DEF Fresh
  <2>4. QED
    BY <2>1, <2>3 DEF IInv, OpenedInv
<1>5. QED
  BY <1>1, <1>2, <1>3, <1>4

LEMMA ServerStep ==
    ASSUME IInv, NEW pdu, ServerTakes(pdu), TypeInv', BufferInv', queueEvent' \in {TRUE, queueEvent},
           vcmState' \in {vcmState, "ready"},
           \A c \in Ids : ~About(c, pdu) => SameServer(c),
           \A c \in Ids : dvc'[c] = "absent" <=> dvc[c] = "absent",
           \A c \in Ids : About(c, pdu) => Up(c)' /\ UpGot(c)' /\ Ends(c)',
           \A c \in Ids : closing[c] \in {"open", "told"} => dvc'[c] \in {"succeeded", "closed", "absent"}
    PROVE  IInv'
<1>0. TypeInv /\ LogInv
  BY DEF IInv
<1>1. /\ UNCHANGED <<nextId, queue, posting, serverSent, serverGot, toClient, connected, channel,
                     clientGot, dvcData, sending, clientSent, clientWrites, closing, clientState,
                     thread>>
      /\ connected /\ pdu \in UpPdus /\ toServer # <<>> /\ pdu = Head(toServer)
      /\ toServer' = Tail(toServer) /\ Range(toServer) = {pdu} \cup Range(toServer')
      /\ Down' = Down /\ \A c \in Ids : Fresh(c)' <=> Fresh(c)
      /\ \A c \in Ids : About(c, pdu) => ~Fresh(c)
  BY ServerTakesFrame
<1>2. LogInv'
  BY <1>1 DEF IInv, LogInv
<1>4. OpenedInv'
  BY <1>1 DEF IInv, OpenedInv
<1>5. FreshInv'
  BY <1>1 DEF IInv, FreshInv, SameServer
<1>6. PostingInv'
  BY <1>1 DEF IInv, PostingInv
<1>7. (DownInv /\ DownGotInv)'
  BY <1>1, DownFrame DEF IInv
<1>8. ASSUME NEW c \in Ids, ~About(c, pdu)
      PROVE  Up(c)' /\ UpGot(c)' /\ Ends(c)'
  <2>1. SameUp(c) /\ UNCHANGED channel /\ dvc'[c] = dvc[c] /\ readQueue'[c] = readQueue[c]
    BY <1>1, <1>8 DEF SameServer, SameUp
  <2>2. Up(c)'
    <3>1. PICK log \in Logs :
             /\ SendingInv(c, log)
             /\ connected /\ dvc[c] \in {"none", "succeeded"} => UpLive(c, log)
      BY DEF IInv, UpInv, Up
    <3>2. SendingInv(c, log)'
      BY <1>1, <3>1 DEF SendingInv
    <3>3. ~DataOf(c, pdu)
      BY <1>8, AboutKinds
    <3>4. connected' /\ dvc'[c] \in {"none", "succeeded"} => UpLive(c, log)'
      BY <1>0, <1>1, <1>8, <2>1, <3>1, <3>3, AboutKinds, UpLiveTake
    <3>5. QED
      BY <3>2, <3>4 DEF Up
  <2>3. UpGot(c)'
    BY <1>1, <2>1 DEF IInv, UpGotInv, UpGot, Given, Pending
  <2>4. Close(c) # pdu /\ \A ok : Created(c, ok) # pdu
    BY <1>8, AboutKinds
  <2>5. Ends(c)'
    BY <1>1, <2>1, <2>4 DEF IInv, EndsInv, Ends
  <2>6. QED
    BY <2>2, <2>3, <2>5
<1>9. (UpInv /\ UpGotInv /\ EndsInv)'
  BY <1>8 DEF UpInv, UpGotInv, EndsInv
<1>10. ClosingInv'
  BY <1>0, <1>1 DEF IInv, ClosingInv
<1>11. QED
  BY <1>2, <1>4, <1>5, <1>6, <1>7, <1>9, <1>10 DEF IInv

LEMMA ServerCapabilitiesStep ==
    ASSUME IInv, NEW pdu, ServerTakes(pdu), ServerCapabilities(pdu)
    PROVE  IInv'
<1>1. pdu = Caps
  BY ServerTakesFrame, UpPduKinds DEF ServerCapabilities
<1>2. \A c : ~About(c, pdu)
  BY <1>1, AboutKinds
<1>3. /\ UNCHANGED <<dvc, reassembly, readQueue>> /\ vcmState' = "ready"
      /\ queueEvent' = TRUE
  BY DEF ServerCapabilities, serverChannels
<1>4. TypeInv'
  BY <1>3, ServerTakesFrame DEF IInv, TypeInv
<1>5. BufferInv'
  BY <1>3, ServerTakesFrame DEF IInv, BufferInv
<1>6. \A c \in Ids : closing[c] \in {"open", "told"} =>
                        dvc'[c] \in {"succeeded", "closed", "absent"}
  BY <1>3 DEF IInv, ClosingInv
<1>7. QED
  BY <1>2, <1>3, <1>4, <1>5, <1>6, ServerStep DEF SameServer

\* Behind a data or close PDU there is no create response.
LEMMA NoCreateBehind ==
    ASSUME IInv, NEW pdu, ServerTakes(pdu), NEW c \in Ids, About(c, pdu), ~IsCreate(pdu)
    PROVE  dvc[c] # "none"
<1>1. /\ connected /\ toServer # <<>> /\ pdu = Head(toServer) /\ toServer' = Tail(toServer)
      /\ Range(toServer) = {pdu} \cup Range(toServer') /\ ~Fresh(c)
  BY ServerTakesFrame
<1>2. SUFFICES ASSUME dvc[c] = "none"
               PROVE  FALSE
  OBVIOUS
<1>3. PICK ok \in BOOLEAN : Created(c, ok) \in Range(toServer)
  BY <1>1, <1>2 DEF IInv, EndsInv, Ends
<1>4. Created(c, ok) \in Range(toServer')
  BY <1>1, <1>3, PduKinds
<1>5. PICK log \in Logs : UpLive(c, log)
  BY <1>1, <1>2 DEF IInv, UpInv, Up
<1> DEFINE length == NextLength(log, Len(clientSent[c]))
<1>6. AllBefore(c, Len(clientSent[c]), length, {pdu}, Range(toServer'))
  BY <1>1, <1>5, UpHead DEF IInv
<1>7. Before(Len(clientSent[c]), length, pdu, Created(c, ok))
  BY <1>4, <1>6, AboutKinds DEF AllBefore
<1>8. QED
  BY <1>7, PduKinds DEF Before

LEMMA ServerIgnoresStep ==
    ASSUME IInv, NEW pdu, ServerTakes(pdu), ServerIgnores(pdu)
    PROVE  IInv'
<1>0. TypeInv /\ LogInv
  BY DEF IInv
<1>1. /\ UNCHANGED <<nextId, queue, posting, serverSent, serverGot, toClient, connected, channel,
                     clientGot, dvcData, sending, clientSent, clientWrites, closing, clientState,
                     thread>>
      /\ connected /\ pdu \in UpPdus /\ toServer # <<>> /\ pdu = Head(toServer)
      /\ toServer' = Tail(toServer) /\ toServer' \in Seq(UpPdus)
      /\ Range(toServer) = {pdu} \cup Range(toServer')
      /\ \A c \in Ids : Fresh(c)' <=> Fresh(c)
      /\ \A c \in Ids : About(c, pdu) => ~Fresh(c) /\ vcmState = "ready"
  BY ServerTakesFrame
<1>2. UNCHANGED <<dvc, reassembly, readQueue, vcmState, queueEvent>>
  BY DEF ServerIgnores, serverChannels
<1>3. TypeInv'
  BY <1>0, <1>1, <1>2 DEF TypeInv
<1>4. BufferInv'
  BY <1>1, <1>2 DEF IInv, BufferInv
<1>5. \A c \in Ids : closing[c] \in {"open", "told"} =>
                        dvc'[c] \in {"succeeded", "closed", "absent"}
  BY <1>2 DEF IInv, ClosingInv
<1>6. ASSUME NEW c \in Ids, About(c, pdu)
      PROVE  Up(c)' /\ UpGot(c)' /\ Ends(c)'
  <2>1. dvc[c] \notin {"none", "succeeded"}
    <3>1. pdu.id = c /\ vcmState = "ready"
      BY <1>1, <1>6 DEF About
    <3>2. dvc[c] = "absent" \/ (IsData(pdu) /\ dvc[c] # "succeeded")
      BY <3>1 DEF ServerIgnores, IsData
    <3>3. IsData(pdu) => ~IsCreate(pdu)
      BY DEF IsData, IsCreate
    <3>4. QED
      BY <1>6, <3>2, <3>3, NoCreateBehind
  <2>2. Up(c)'
    BY <1>1, <1>2, <2>1 DEF IInv, UpInv, Up, SendingInv
  <2>3. UpGot(c)'
    BY <1>1, <1>2 DEF IInv, UpGotInv, UpGot, Given, Pending
  <2>4. Ends(c)'
    BY <1>1, <1>2, <2>1 DEF IInv, EndsInv, Ends
  <2>5. QED
    BY <2>2, <2>3, <2>4
<1>7. QED
  BY <1>2, <1>3, <1>4, <1>5, <1>6, ServerStep DEF SameServer

LEMMA ServerCreatedStep ==
    ASSUME IInv, NEW pdu, ServerTakes(pdu), ServerCreated(pdu)
    PROVE  IInv'
<1>0. TypeInv /\ LogInv
  BY DEF IInv
<1>1. /\ UNCHANGED <<nextId, queue, posting, serverSent, serverGot, toClient, connected, channel,
                     clientGot, dvcData, sending, clientSent, clientWrites, closing, clientState,
                     thread>>
      /\ connected /\ pdu \in UpPdus /\ toServer # <<>> /\ pdu = Head(toServer)
      /\ toServer' = Tail(toServer) /\ toServer' \in Seq(UpPdus)
      /\ Range(toServer) = {pdu} \cup Range(toServer')
      /\ \A c \in Ids : Fresh(c)' <=> Fresh(c)
  BY ServerTakesFrame
<1>2. PICK c \in Ids, ok \in BOOLEAN : pdu = Created(c, ok) /\ c = pdu.id /\ ok = pdu.ok
  BY <1>1, UpPduKinds DEF ServerCreated, IsCreate
<1>3. /\ dvc' = [dvc EXCEPT ![c] = IF ok THEN "succeeded" ELSE "failed"]
      /\ UNCHANGED <<vcmState, queueEvent, reassembly, readQueue>> /\ dvc[c] # "absent"
  BY <1>2 DEF ServerCreated
<1>4. /\ dvc'[c] \in {"succeeded", "failed"} /\ (ok => dvc'[c] = "succeeded")
      /\ (~ok => dvc'[c] = "failed") /\ \A d \in Ids : d # c => dvc'[d] = dvc[d]
  BY <1>0, <1>3 DEF TypeInv
<1>5. \A d : About(d, pdu) <=> d = c
  BY <1>2, AboutKinds
<1>6. dvc[c] = "none" /\ closing[c] \notin {"open", "told"}
  <2>1. dvc[c] = "none"
    BY <1>1, <1>2, <1>3 DEF IInv, EndsInv, Ends
  <2>2. QED
    BY <2>1 DEF IInv, ClosingInv
<1>7. TypeInv'
  <2>1. dvc' \in [Ids -> {"absent", "none", "succeeded", "failed", "closed"}]
    BY <1>0, <1>3 DEF TypeInv
  <2>2. QED
    BY <1>0, <1>1, <1>3, <2>1 DEF TypeInv
<1>8. BufferInv'
  BY <1>1, <1>3 DEF IInv, BufferInv
<1>9. PICK log \in Logs : SendingInv(c, log) /\ UpLive(c, log)
  BY <1>1, <1>6 DEF IInv, UpInv, Up
<1> DEFINE length == NextLength(log, Len(clientSent[c]))
<1>10. Up(c)'
  <2>1. SendingInv(c, log)'
    BY <1>1, <1>9 DEF SendingInv
  <2>2. SameUp(c)
    BY <1>1, <1>3 DEF SameUp
  <2>3. UpLive(c, log)'
    BY <1>0, <1>1, <1>2, <1>9, <2>2, AboutKinds, SamePdu, UpLiveTake
  <2>4. QED
    BY <2>1, <2>3 DEF Up
<1>11. UpGot(c)'
  BY <1>1, <1>3, <1>4, <1>6 DEF IInv, UpGotInv, UpGot, Given, Pending
<1>12. Ends(c)'
  <2>1. \A ok2 : Created(c, ok2) \notin Range(toServer')
    <3>1. SUFFICES ASSUME NEW ok2, Created(c, ok2) \in Range(toServer')
                   PROVE  FALSE
      OBVIOUS
    <3>2. AllBefore(c, Len(clientSent[c]), length, {pdu}, Range(toServer'))
      BY <1>0, <1>1, <1>9, UpHead
    <3>3. Before(Len(clientSent[c]), length, pdu, Created(c, ok2))
      BY <1>5, <3>1, <3>2, AboutKinds DEF AllBefore
    <3>4. QED
      BY <1>2, <3>3, PduKinds DEF Before
  <2>2. Ends(c)
    BY <1>1 DEF IInv, EndsInv
  <2>3. Close(c) \in Range(toServer') <=> Close(c) \in Range(toServer)
    BY <1>1, <1>2, SamePdu
  <2>4. dvc'[c] = "succeeded" => channel'[c] = "running" \/ Close(c) \in Range(toServer')
    BY <1>1, <1>2, <1>4, <1>6, <2>2, <2>3 DEF Ends
  <2>5. dvc'[c] = "failed" => /\ channel'[c] = "absent" /\ clientSent'[c] = <<>>
                              /\ \A p \in Range(toServer') : ~DataOf(c, p) /\ p # Close(c)
    BY <1>1, <1>2, <1>4, <2>2 DEF Ends
  <2>6. QED
    BY <1>1, <1>4, <2>1, <2>2, <2>3, <2>4, <2>5 DEF Ends
<1>13. \A d \in Ids : closing[d] \in {"open", "told"} =>
                        dvc'[d] \in {"succeeded", "closed", "absent"}
  BY <1>0, <1>3, <1>4, <1>6 DEF IInv, ClosingInv, TypeInv
<1>14. \A d \in Ids : dvc'[d] = "absent" <=> dvc[d] = "absent"
  BY <1>4, <1>6
<1>15. \A d \in Ids : ~About(d, pdu) => SameServer(d)
  BY <1>3, <1>4, <1>5 DEF SameServer
<1>17. \A d \in Ids : About(d, pdu) => Up(d)' /\ UpGot(d)' /\ Ends(d)'
  BY <1>5, <1>10, <1>11, <1>12
<1>18. QED
  BY <1>3, <1>7, <1>8, <1>13, <1>14, <1>15, <1>17, ServerStep

\* Steps of this kind that process a data PDU.
LEMMA ServerDataFrame ==
    ASSUME IInv, NEW pdu, ServerTakes(pdu), IsData(pdu), dvc[pdu.id] = "succeeded",
           UNCHANGED <<vcmState, queueEvent, dvc>>, NEW c \in Ids, c = pdu.id,
           \A d \in Ids : d # c => reassembly'[d] = reassembly[d] /\ readQueue'[d] = readQueue[d],
           Up(c)', UpGot(c)', TypeInv', BufferInv'
    PROVE  IInv'
<1>1. /\ UNCHANGED <<nextId, queue, posting, serverSent, serverGot, toClient, connected, channel,
                     clientGot, dvcData, sending, clientSent, clientWrites, closing, clientState,
                     thread>>
      /\ connected /\ pdu \in UpPdus /\ Range(toServer) = {pdu} \cup Range(toServer')
      /\ \A d \in Ids : Fresh(d)' <=> Fresh(d)
  BY ServerTakesFrame
<1>2. pdu \in DataPdus
  BY <1>1, UpPduKinds
<1>3. \A d : (About(d, pdu) <=> d = c) /\ pdu # Close(d) /\ \A ok : pdu # Created(d, ok)
  BY <1>2, DataPduFields DEF DataOf
<1>4. Ends(c)'
  BY <1>1, <1>3 DEF IInv, EndsInv, Ends
<1>5. \A d \in Ids : ~About(d, pdu) => SameServer(d)
  BY <1>3 DEF SameServer
<1>6. \A d \in Ids : About(d, pdu) => Up(d)' /\ UpGot(d)' /\ Ends(d)'
  BY <1>3, <1>4
<1>7. \A d \in Ids : closing[d] \in {"open", "told"} =>
                        dvc'[d] \in {"succeeded", "closed", "absent"}
  BY DEF IInv, ClosingInv
<1>8. QED
  BY <1>5, <1>6, <1>7, ServerStep

\* The PDU is the fragment that the reader of the channel needs next.
LEMMA ServerTakesNext ==
    ASSUME IInv, NEW pdu, ServerTakes(pdu), NEW c \in Ids, DataOf(c, pdu), dvc[c] = "succeeded",
           NEW log \in Logs, SendingInv(c, log), UpLive(c, log), NEW length,
           length = NextLength(log, Len(clientSent[c]))
    PROVE  /\ Takes(c, log, Len(clientSent[c]), Len(Given(c)), reassembly[c], pdu,
                    Range(toServer') \cup Range(sending[c]), length)
           /\ Len(Given(c)) \in Nat /\ Len(Given(c)) <= Len(clientSent[c])
           /\ \A p \in Range(toServer') : DataOf(c, p) /\ p.unit[1] > Len(clientSent[c]) + 1 =>
                                              Close(c) \in Range(toServer')
<1> DEFINE last == Len(clientSent[c])
           left2 == Range(toServer') \cup Range(sending[c])
<1>0. TypeInv /\ LogInv
  BY DEF IInv
<1>1. /\ toServer # <<>> /\ pdu = Head(toServer) /\ toServer' = Tail(toServer)
      /\ Range(toServer) = {pdu} \cup Range(toServer')
  BY ServerTakesFrame
<1>2. last <= Len(log) /\ last \in Nat /\ reassembly[c] \in Buffers
  BY <1>0, UpLogTypes, LogTypes
<1>3. Len(Given(c)) \in Nat
  <2>1. readQueue[c] \in Seq(Seq(Units)) /\ serverGot[c] \in Seq(Seq(Units))
    BY <1>0 DEF TypeInv
  <2>2. Given(c) \in Seq(Seq(Units))
    BY <2>1, PendingType, ConcatFacts DEF Given
  <2>3. QED
    BY <2>2
<1>4. Len(Given(c)) <= last
  BY DEF IInv, UpGotInv, UpGot, FirstOf
<1>5. Place(c, log, last, Len(Given(c)), reassembly[c], {pdu} \cup left2)
  <2>1. Range(toServer) \cup Range(sending[c]) = {pdu} \cup left2
    BY <1>1
  <2>2. QED
    BY <2>1 DEF UpLive
<1>6. AllBefore(c, last, length, {pdu}, left2)
  <2>1. /\ AllBefore(c, last, length, {pdu}, Range(toServer'))
        /\ AllBefore(c, last, length, {pdu}, Range(sending[c]))
    BY <1>0, <1>1, UpHead
  <2>2. QED
    BY <2>1 DEF AllBefore
<1>7. IsData(pdu) /\ ~IsCreate(pdu) /\ ~IsClose(pdu) /\ About(c, pdu) /\ pdu # Close(c)
  BY PduKinds DEF DataOf, IsData, IsCreate, IsClose, About
<1>8. \A p \in Range(toServer) : DataOf(c, p) /\ p.unit[1] > last + 1 => Close(c) \in Range(toServer')
  BY <1>1, <1>7 DEF UpLive
<1>9. pdu.unit[1] <= last + 1
  <2>1. pdu \in DataPdus /\ pdu.unit[1] \in Nat
    <3>1. pdu \in UpPdus
      BY ServerTakesFrame
    <3>2. pdu \in DataPdus
      BY <1>7, <3>1, UpPduKinds
    <3>3. pdu.unit \in Units
      BY <3>2, DataPduFields
    <3>4. QED
      BY <3>2, <3>3 DEF Units
  <2>2. SUFFICES ASSUME pdu.unit[1] > last + 1
                 PROVE  FALSE
    BY <1>2, <2>1
  <2>3. Close(c) \in left2
    BY <1>1, <1>8, <2>2
  <2>4. Before(last, length, pdu, Close(c))
    BY <1>6, <1>7, <2>3, AboutKinds DEF AllBefore
  <2>5. pdu.unit[1] <= last + 1
    BY <1>7, <2>4, PduKinds DEF Before
  <2>6. QED
    BY <1>2, <2>1, <2>2, <2>5
<1>10. QED
  BY <1>1, <1>2, <1>3, <1>4, <1>5, <1>6, <1>8, <1>9 DEF Takes

LEMMA ServerDataFirstStep ==
    ASSUME IInv, NEW pdu, ServerTakes(pdu), ServerDataFirst(pdu)
    PROVE  IInv'
<1> DEFINE c == pdu.id
           r == [total |-> pdu.total, data |-> <<pdu.unit>>]
           last == Len(clientSent[c])
<1>0. TypeInv /\ LogInv
  BY DEF IInv
<1>1. /\ UNCHANGED <<nextId, queue, posting, serverSent, serverGot, toClient, connected, channel,
                     clientGot, dvcData, sending, clientSent, clientWrites, closing, clientState,
                     thread>>
      /\ connected /\ pdu \in UpPdus /\ toServer # <<>> /\ pdu = Head(toServer)
      /\ toServer' = Tail(toServer) /\ toServer' \in Seq(UpPdus)
      /\ Range(toServer) = {pdu} \cup Range(toServer')
  BY ServerTakesFrame
<1>2. /\ pdu.cmd = "DATA_FIRST_PDU" /\ dvc[c] = "succeeded"
      /\ reassembly' = [reassembly EXCEPT ![c] = r]
      /\ UNCHANGED <<vcmState, queueEvent, dvc, readQueue>>
  BY DEF ServerDataFirst
<1>3. IsData(pdu) /\ pdu \in DataPdus
  BY <1>1, <1>2, UpPduKinds DEF IsData
<1>4. /\ c \in Ids /\ pdu.unit \in Units /\ pdu.total \in 1 .. MaxLength /\ DataOf(c, pdu)
  BY <1>2, <1>3, DataPduFields DEF DataOf
<1>5. r \in Buffers /\ Len(r.data) <= r.total
  BY <1>4 DEF Buffers
<1> HIDE DEF r, c
<1>6. reassembly'[c] = r /\ \A d \in Ids : d # c => reassembly'[d] = reassembly[d]
  BY <1>0, <1>2, <1>4 DEF TypeInv
<1>7. TypeInv'
  <2>1. reassembly' \in [Ids -> Buffers]
    BY <1>0, <1>2, <1>5 DEF TypeInv
  <2>2. QED
    BY <1>0, <1>1, <1>2, <2>1 DEF TypeInv
<1>8. BufferInv'
  BY <1>1, <1>4, <1>5, <1>6 DEF IInv, BufferInv
<1>9. UpGot(c)'
  BY <1>1, <1>2, <1>4 DEF IInv, UpGotInv, UpGot, Given, Pending
<1>10. Up(c)'
  <2>1. PICK log \in Logs : SendingInv(c, log) /\ UpLive(c, log)
    BY <1>1, <1>2, <1>4 DEF IInv, UpInv, Up
  <2>2. SendingInv(c, log)'
    BY <1>1, <2>1 DEF SendingInv
  <2> DEFINE n == Len(Given(c))
             length == NextLength(log, last)
             left2 == Range(toServer') \cup Range(sending[c])
  <2>3. /\ Takes(c, log, last, n, reassembly[c], pdu, left2, length) /\ n \in Nat /\ n <= last
        /\ \A p \in Range(toServer') : DataOf(c, p) /\ p.unit[1] > last + 1 =>
                                           Close(c) \in Range(toServer')
    BY <1>2, <1>4, <2>1, ServerTakesNext
  <2>4. Place(c, log, last, n, r, left2)
    BY <1>2, <2>3, TakeFirst DEF r
  <2>5. Given(c)' = Given(c)
    BY <1>1, <1>2 DEF Given, Pending
  <2>6. /\ InOrder(c, last, length, toServer')
        /\ AllBefore(c, last, length, Range(toServer'), Range(sending[c]))
    BY <1>0, <1>1, <1>4, <2>1, UpHead
  <2> HIDE DEF n, last
  <2>9. UpLive(c, log)'
    BY <1>1, <1>6, <2>3, <2>4, <2>5, <2>6 DEF UpLive, n, last
  <2>10. QED
    BY <2>2, <2>9 DEF Up
<1>11. QED
  BY <1>2, <1>3, <1>4, <1>6, <1>7, <1>8, <1>9, <1>10, ServerDataFrame DEF c

\* While the channel runs, all messages but the one that is being sent are finished, and the last
\* fragment of that one is yet to be sent.
LEMMA SendingRuns ==
    ASSUME TypeInv, LogInv, NEW c \in Ids, NEW log \in Logs, SendingInv(c, log), connected,
           channel[c] = "running", NEW last, last = Len(clientSent[c])
    PROVE  /\ last \in Nat
           /\ sending[c] = <<>> => Len(log) = last
           /\ sending[c] # <<>> =>
                /\ Len(log) = last + 1 /\ last + 1 \in 1 .. Len(log)
                /\ Rest(sending[c], Fragments(c, log[last + 1]))
                /\ Piece(c, log, last + 1, Len(log[last + 1])) \in Range(sending[c])
<1>1. last \in Nat /\ sending[c] \in Seq(DataPdus)
  BY UpLogTypes DEF TypeInv
<1>2. Len(log) = last + (IF sending[c] = <<>> THEN 0 ELSE 1)
  BY Zenon DEF SendingInv
<1>3. ASSUME sending[c] # <<>>
      PROVE  /\ Len(log) = last + 1 /\ last + 1 \in 1 .. Len(log)
             /\ Rest(sending[c], Fragments(c, log[last + 1]))
             /\ Piece(c, log, last + 1, Len(log[last + 1])) \in Range(sending[c])
  <2>1. Len(log) = last + 1 /\ last + 1 \in 1 .. Len(log) /\ last + 1 \in Nat \ {0}
    BY <1>1, <1>2, <1>3
  <2>2. PICK i \in last + 1 .. Len(log) : Rest(sending[c], Fragments(c, log[i]))
    BY <1>3, Zenon DEF SendingInv
  <2>3. i = last + 1
    BY <1>1, <2>1, <2>2
  <2>4. Rest(sending[c], Fragments(c, log[last + 1]))
    BY <2>2, <2>3
  <2>5. PICK length \in 1 .. MaxLength : length = Len(log[last + 1]) /\ log[last + 1] = MessageOf(last + 1, length)
    BY <2>1, LogEntry
  <2>6. Fragments(c, MessageOf(last + 1, length))[length] \in Range(sending[c])
    BY <1>1, <1>3, <2>1, <2>4, <2>5, RestTail
  <2>7. QED
    BY <2>1, <2>4, <2>5, <2>6 DEF Piece
<1>4. sending[c] = <<>> => Len(log) = last
  BY <1>1, <1>2
<1>5. QED
  BY <1>1, <1>3, <1>4

\* The last fragment of a message that the client has not finished before it closed the channel is
\* not under way in front of its CLOSE.
LEMMA NotFinished ==
    ASSUME IInv, NEW pdu, ServerTakes(pdu), NEW c \in Ids, DataOf(c, pdu), dvc[c] = "succeeded",
           NEW log \in Logs, SendingInv(c, log), UpLive(c, log)
    PROVE  LET last == Len(clientSent[c])
           IN  last < Len(log) => pdu.unit # <<last + 1, Len(log[last + 1])>>
<1> DEFINE last == Len(clientSent[c])
           length == NextLength(log, last)
<1>0. TypeInv /\ LogInv /\ last \in Nat /\ Len(log) \in Nat
  BY UpLogTypes DEF IInv
<1>1. /\ connected /\ toServer # <<>> /\ pdu = Head(toServer) /\ toServer' = Tail(toServer)
      /\ Range(toServer) = {pdu} \cup Range(toServer')
  BY ServerTakesFrame
<1>2. SUFFICES ASSUME last < Len(log), pdu.unit = <<last + 1, Len(log[last + 1])>>
               PROVE  FALSE
  OBVIOUS
<1>3. IsData(pdu) /\ ~IsCreate(pdu) /\ ~IsClose(pdu) /\ About(c, pdu)
  BY DEF DataOf, IsData, IsCreate, IsClose, About
<1>a. length = Len(log[last + 1]) /\ pdu.unit = <<last + 1, length>>
  BY <1>2 DEF NextLength
<1>b. AllBefore(c, last, length, {pdu}, Range(toServer')) /\ AllBefore(c, last, length, {pdu}, Range(sending[c]))
  BY <1>0, <1>1, UpHead
<1> HIDE DEF length
<1>4. CASE channel[c] # "running"
  <2>1. Close(c) \in Range(toServer')
    <3>1. Close(c) \in Range(toServer)
      BY <1>1, <1>4 DEF IInv, EndsInv, Ends
    <3>2. QED
      BY <1>1, <1>3, <3>1, PduKinds
  <2>3. Before(last, length, pdu, Close(c))
    BY <1>3, <1>b, <2>1, AboutKinds DEF AllBefore
  <2>4. QED
    BY <1>a, <1>3, <2>3, PduKinds DEF Before
<1>5. CASE channel[c] = "running"
  <2> DEFINE m == last + 1
             q == Piece(c, log, m, length)
  <2>0. /\ sending[c] = <<>> => Len(log) = last
        /\ sending[c] # <<>> => m \in 1 .. Len(log) /\ Piece(c, log, m, Len(log[m])) \in Range(sending[c])
    BY <1>0, <1>1, <1>5, SendingRuns
  <2>1. m \in 1 .. Len(log) /\ q \in Range(sending[c])
    BY <1>0, <1>2, <1>a, <2>0
  <2>2. length \in 1 .. MaxLength /\ length \in 1 .. Len(log[m])
    BY <1>a, <2>1, LogEntry, DvcBounds
  <2>6. q.unit = <<m, length>> /\ DataOf(c, q) /\ About(c, q) /\ ~IsClose(q)
    BY <2>1, <2>2, PieceShape
  <2> HIDE DEF q, m
  <2>8. Before(last, length, pdu, q)
    BY <1>3, <1>b, <2>1, <2>6 DEF AllBefore
  <2>9. UnitBefore(pdu.unit, q.unit)
    BY <1>3, <2>6, <2>8 DEF Before
  <2>10. length \in Nat /\ last + 1 \in Nat
    BY <1>0, <2>2, DvcBounds
  <2>11. QED
    BY <1>a, <2>6, <2>9, <2>10 DEF UnitBefore, m
<1>7. QED
  BY <1>4, <1>5

LEMMA ServerDataStep ==
    ASSUME IInv, NEW pdu, ServerTakes(pdu), ServerData(pdu)
    PROVE  IInv'
<1> DEFINE c == pdu.id
           x == Reassemble(reassembly[c], pdu.unit)
           last == Len(clientSent[c])
<1>0. TypeInv /\ LogInv
  BY DEF IInv
<1>1. /\ UNCHANGED <<nextId, queue, posting, serverSent, serverGot, toClient, connected, channel,
                     clientGot, dvcData, sending, clientSent, clientWrites, closing, clientState,
                     thread>>
      /\ connected /\ pdu \in UpPdus /\ toServer # <<>> /\ pdu = Head(toServer)
      /\ toServer' = Tail(toServer) /\ toServer' \in Seq(UpPdus)
      /\ Range(toServer) = {pdu} \cup Range(toServer')
  BY ServerTakesFrame
<1>2. /\ pdu.cmd = "DATA_PDU" /\ dvc[c] = "succeeded"
      /\ reassembly' = [reassembly EXCEPT ![c] = x.rest]
      /\ readQueue' = [readQueue EXCEPT ![c] = readQueue[c] \o x.done]
      /\ UNCHANGED <<vcmState, queueEvent, dvc>>
  BY DEF ServerData
<1>3. IsData(pdu) /\ pdu \in DataPdus
  BY <1>1, <1>2, UpPduKinds DEF IsData
<1>4. c \in Ids /\ pdu.unit \in Units /\ DataOf(c, pdu)
  BY <1>3, DataPduFields DEF DataOf
<1>5. /\ x.rest \in Buffers /\ Len(x.rest.data) <= x.rest.total
      /\ x.done \in Seq(Seq(Units))
  <2>1. reassembly[c] \in Buffers /\ Len(reassembly[c].data) <= reassembly[c].total
    BY <1>4 DEF IInv, TypeInv, BufferInv
  <2>2. QED
    BY <1>4, <2>1, ReassembleType
<1> HIDE DEF x, c
<1>6. /\ reassembly'[c] = x.rest /\ readQueue'[c] = readQueue[c] \o x.done
      /\ \A d \in Ids : d # c => reassembly'[d] = reassembly[d] /\ readQueue'[d] = readQueue[d]
      /\ readQueue[c] \in Seq(Seq(Units)) /\ serverGot[c] \in Seq(Seq(Units))
  BY <1>0, <1>2, <1>4 DEF TypeInv
<1>7. TypeInv'
  <2>1. reassembly' \in [Ids -> Buffers]
    BY <1>0, <1>2, <1>5 DEF TypeInv
  <2>2. readQueue[c] \o x.done \in Seq(Seq(Units))
    BY <1>5, <1>6, ConcatFacts
  <2>3. readQueue' \in [Ids -> Seq(Seq(Units))]
    BY <1>0, <1>2, <2>2 DEF TypeInv
  <2>4. QED
    BY <1>0, <1>1, <1>2, <2>1, <2>3 DEF TypeInv
<1>8. BufferInv'
  BY <1>1, <1>4, <1>5, <1>6 DEF IInv, BufferInv
<1>9. PICK log \in Logs : SendingInv(c, log) /\ UpLive(c, log)
  BY <1>1, <1>2, <1>4 DEF IInv, UpInv, Up
<1> DEFINE n == Len(Given(c))
           length == NextLength(log, last)
           left2 == Range(toServer') \cup Range(sending[c])
<1>10. SendingInv(c, log)'
  BY <1>1, <1>9 DEF SendingInv
<1>11. /\ Takes(c, log, last, n, reassembly[c], pdu, left2, length) /\ n \in Nat /\ n <= last
       /\ \A p \in Range(toServer') : DataOf(c, p) /\ p.unit[1] > last + 1 =>
                                          Close(c) \in Range(toServer')
  BY <1>2, <1>4, <1>9, ServerTakesNext
<1>12. /\ last < Len(log) => pdu.unit # <<last + 1, Len(log[last + 1])>>
       /\ last \in Nat
  BY <1>0, <1>2, <1>4, <1>9, NotFinished, LogTypes
<1>13. /\ InOrder(c, last, length, toServer')
       /\ AllBefore(c, last, length, Range(toServer'), Range(sending[c]))
  BY <1>0, <1>1, <1>4, <1>9, UpHead
<1>15. \A j \in 1 .. Len(readQueue[c]) : readQueue[c][j] # EndOfData
  BY <1>2, <1>4 DEF IInv, UpGotInv, UpGot
<1>16. Given(c) = serverGot[c] \o PendingOf(readQueue[c])
       /\ Given(c)' = serverGot[c] \o PendingOf(readQueue'[c])
  BY <1>1 DEF Given, Pending, PendingOf
<1>17. \/ x.done = <<>> /\ Place(c, log, last, n, x.rest, left2)
       \/ /\ x.done = <<log[n + 1]>> /\ n + 1 \in 1 .. Len(log)
          /\ pdu.unit = <<n + 1, Len(log[n + 1])>>
          /\ x.rest = Nothing /\ Place(c, log, last, n + 1, x.rest, left2)
  <2> HIDE DEF n, left2, last
  <2>1. x = Reassemble(reassembly[c], pdu.unit) /\ pdu.cmd = "DATA_PDU"
    BY <1>2 DEF x
  <2>2. Takes(c, log, last, n, reassembly[c], pdu, left2, length)
    BY <1>11
  <2>3. TookData(c, log, last, n, pdu, left2, x)
    BY <2>1, <2>2, TakeData
  <2>4. QED
    BY <2>3 DEF TookData
<1>18. CASE x.done = <<>> /\ Place(c, log, last, n, x.rest, left2)
  <2>1. readQueue'[c] = readQueue[c]
    BY <1>6, <1>18
  <2>2. Given(c)' = Given(c)
    BY <1>16, <2>1
  <2>3. UpGot(c)'
    BY <1>1, <1>2, <1>4, <2>1, <2>2 DEF IInv, UpGotInv, UpGot
  <2>4. UpLive(c, log)'
    <3> HIDE DEF n, last
    <3>1. QED
      BY <1>1, <1>6, <1>11, <1>13, <1>18, <2>2 DEF UpLive, n, last
  <2>5. Up(c)'
    BY <1>10, <2>4 DEF Up
  <2>6. QED
    BY <1>2, <1>3, <1>4, <1>6, <1>7, <1>8, <2>3, <2>5, ServerDataFrame DEF c
<1>19. CASE /\ x.done = <<log[n + 1]>> /\ n + 1 \in 1 .. Len(log)
            /\ pdu.unit = <<n + 1, Len(log[n + 1])>>
            /\ x.rest = Nothing /\ Place(c, log, last, n + 1, x.rest, left2)
  <2>1. Len(log) \in Nat /\ last <= Len(log) /\ \A i \in 1 .. last : log[i] = clientSent[c][i]
    BY <1>0, <1>4, <1>9, UpLogTypes
  <2>2. n # last
    BY <1>11, <1>12, <1>19, <2>1
  <2>3. n + 1 \in 1 .. last
    BY <1>11, <1>12, <2>2
  <2> DEFINE m == clientSent[c][n + 1]
  <2>4. x.done = <<m>>
    BY <1>19, <2>1, <2>3
  <2>5. m \in Seq(Units) /\ m # EndOfData
    BY <1>0, <1>4, <2>3, LogTypes, LogEntry DEF EndOfData
  <2> HIDE DEF m
  <2>6. /\ Given(c)' = Append(Given(c), m)
        /\ \A j \in 1 .. Len(readQueue'[c]) : readQueue'[c][j] # EndOfData
    <3>1. PICK s \in Seq(Seq(Units)) : s = readQueue[c]
      BY <1>6
    <3>2. PICK g \in Seq(Seq(Units)) : g = serverGot[c]
      BY <1>6
    <3>3. \A j \in 1 .. Len(s) : s[j] # EndOfData
      BY <1>15, <3>1
    <3>4. /\ g \o PendingOf(s \o <<m>>) = Append(g \o PendingOf(s), m)
          /\ \A j \in 1 .. Len(s \o <<m>>) : (s \o <<m>>)[j] # EndOfData
      BY <2>5, <3>3, PendingMore
    <3>5. readQueue'[c] = s \o <<m>>
      BY <1>6, <2>4, <3>1
    <3>6. QED
      BY <1>16, <3>1, <3>2, <3>4, <3>5
  <2>7. Given(c) \in Seq(Seq(Units))
    BY <1>4, <1>6, PendingType, ConcatFacts DEF Given
  <2>8. Len(Given(c)') = n + 1 /\ FirstOf(Given(c)', clientSent[c])
    <3> DEFINE g2 == Append(Given(c), m)
    <3>1. /\ Len(g2) = n + 1 /\ g2[n + 1] = m
          /\ \A i \in 1 .. n : g2[i] = Given(c)[i]
      BY <2>5, <2>7, AppendProperties
    <3>2. \A i \in 1 .. n : Given(c)[i] = clientSent[c][i]
      BY <1>4 DEF IInv, UpGotInv, UpGot, FirstOf
    <3> HIDE DEF g2, n
    <3>3. \A i \in 1 .. n + 1 : g2[i] = clientSent[c][i]
      BY <1>11, <3>1, <3>2 DEF m
    <3>4. QED
      BY <1>12, <2>3, <2>6, <3>1, <3>3 DEF FirstOf, g2
  <2>9. UpGot(c)'
    BY <1>1, <1>2, <2>6, <2>8 DEF UpGot
  <2>10. UpLive(c, log)'
    <3> HIDE DEF n, last
    <3>1. Place(c, log, last, Len(Given(c)'), reassembly'[c], left2)
      BY <1>6, <1>19, <2>8
    <3>2. reassembly'[c] = Nothing
      BY <1>6, <1>19
    <3>3. QED
      BY <1>1, <1>11, <1>13, <3>1, <3>2 DEF UpLive, last
  <2>11. Up(c)'
    BY <1>10, <2>10 DEF Up
  <2>12. QED
    BY <1>2, <1>3, <1>4, <1>6, <1>7, <1>8, <2>9, <2>11, ServerDataFrame DEF c
<1>20. QED
  BY <1>17, <1>18, <1>19

LEMMA ServerClosedStep ==
    ASSUME IInv, NEW pdu, ServerTakes(pdu), ServerClosed(pdu)
    PROVE  IInv'
<1>0. TypeInv /\ LogInv
  BY DEF IInv
<1>1. /\ UNCHANGED <<nextId, queue, posting, serverSent, serverGot, toClient, connected, channel,
                     clientGot, dvcData, sending, clientSent, clientWrites, closing, clientState,
                     thread>>
      /\ connected /\ pdu \in UpPdus /\ toServer # <<>> /\ pdu = Head(toServer)
      /\ toServer' = Tail(toServer) /\ toServer' \in Seq(UpPdus)
      /\ Range(toServer) = {pdu} \cup Range(toServer')
      /\ \A c \in Ids : Fresh(c)' <=> Fresh(c)
  BY ServerTakesFrame
<1>2. PICK c \in Ids : pdu = Close(c) /\ c = pdu.id
  BY <1>1, UpPduKinds DEF ServerClosed, IsClose
<1>3. /\ dvc' = [dvc EXCEPT ![c] = "closed"] /\ dvc[c] # "absent"
      /\ readQueue' = [readQueue EXCEPT ![c] = Append(readQueue[c], EndOfData)]
      /\ UNCHANGED <<vcmState, queueEvent, reassembly>>
  BY <1>2 DEF ServerClosed
<1>4. /\ dvc'[c] = "closed" /\ readQueue'[c] = Append(readQueue[c], EndOfData)
      /\ \A d \in Ids : d # c => dvc'[d] = dvc[d] /\ readQueue'[d] = readQueue[d]
      /\ readQueue[c] \in Seq(Seq(Units)) /\ serverGot[c] \in Seq(Seq(Units))
  BY <1>0, <1>3 DEF TypeInv
<1>5. \A d : About(d, pdu) <=> d = c
  BY <1>2, AboutKinds
<1>6. Ends(c) /\ Close(c) \in Range(toServer)
  BY <1>1, <1>2 DEF IInv, EndsInv
<1>7. dvc[c] = "succeeded" /\ channel[c] # "running"
  <2>1. dvc[c] # "none"
    BY <1>2, <1>5, PduKinds, NoCreateBehind
  <2>2. dvc[c] # "failed" /\ dvc[c] # "closed" /\ channel[c] # "running"
    BY <1>6 DEF Ends
  <2>3. QED
    BY <1>0, <1>3, <2>1, <2>2 DEF TypeInv
<1>8. EndOfData \in Seq(Units)
  BY DEF EndOfData
<1>9. TypeInv'
  <2>1. dvc' \in [Ids -> {"absent", "none", "succeeded", "failed", "closed"}]
    BY <1>0, <1>3 DEF TypeInv
  <2>2. readQueue' \in [Ids -> Seq(Seq(Units))]
    <3>1. Append(readQueue[c], EndOfData) \in Seq(Seq(Units))
      BY <1>4, <1>8, AppendProperties
    <3>2. QED
      BY <1>0, <1>3, <3>1 DEF TypeInv
  <2>3. QED
    BY <1>0, <1>1, <1>3, <2>1, <2>2 DEF TypeInv
<1>10. BufferInv'
  BY <1>1, <1>3 DEF IInv, BufferInv
<1>11. PICK log \in Logs : SendingInv(c, log) /\ UpLive(c, log)
  BY <1>1, <1>7 DEF IInv, UpInv, Up
<1> DEFINE last == Len(clientSent[c])
           n == Len(Given(c))
           length == NextLength(log, last)
<1>12. Up(c)'
  <2>1. SendingInv(c, log)'
    BY <1>1, <1>11 DEF SendingInv
  <2>2. QED
    BY <1>4, <2>1 DEF Up
<1>13. AllBefore(c, last, length, {pdu}, Range(toServer') \cup Range(sending[c]))
  <2>1. /\ AllBefore(c, last, length, {pdu}, Range(toServer'))
        /\ AllBefore(c, last, length, {pdu}, Range(sending[c]))
    BY <1>0, <1>1, <1>11, UpHead
  <2>2. QED
    BY <2>1 DEF AllBefore
<1>14. \A q \in Range(toServer') \cup Range(sending[c]) :
          About(c, q) => ~IsCreate(q) /\ ~IsClose(q) /\ (IsData(q) => q.unit[1] > last)
  <2>1. ASSUME NEW q \in Range(toServer') \cup Range(sending[c]), About(c, q)
        PROVE  ~IsCreate(q) /\ ~IsClose(q) /\ (IsData(q) => q.unit[1] > last)
    <3>1. Before(last, length, pdu, q)
      BY <1>5, <1>13, <2>1 DEF AllBefore
    <3>2. ~IsCreate(pdu) /\ ~IsData(pdu)
      BY <1>2, PduKinds
    <3>3. IsData(q) /\ q.unit[1] > last
      BY <3>1, <3>2 DEF Before
    <3>4. QED
      BY <3>3 DEF IsData, IsCreate, IsClose
  <2>2. QED
    BY <2>1
<1>15. n = last
  <2>0. n \in Nat /\ n <= last /\ last \in Nat
    <3>1. Given(c) \in Seq(Seq(Units))
      BY <1>4, PendingType, ConcatFacts DEF Given
    <3>2. n <= last
      BY DEF IInv, UpGotInv, UpGot, FirstOf
    <3>3. QED
      BY <1>0, <3>1, <3>2, LogTypes
  <2>1. SUFFICES ASSUME n < last
                 PROVE  FALSE
    BY <2>0
  <2>2. Len(log) \in Nat /\ last <= Len(log) /\ reassembly[c] \in Buffers
    BY <1>0, <1>11, UpLogTypes, LogTypes
  <2>3. Place(c, log, last, n, reassembly[c], Range(toServer) \cup Range(sending[c]))
    BY <1>11 DEF UpLive
  <2> DEFINE k == Len(reassembly[c].data)
             q == Piece(c, log, n + 1, k + 1)
  <2> HIDE DEF n, last
  <2>4. n < Len(log) /\ n + 1 \in 1 .. last /\ n + 1 \in 1 .. Len(log)
    BY <2>0, <2>1, <2>2
  <2>5. Position(log, n, reassembly[c])
    BY <2>3 DEF Place
  <2>6. k < Len(log[n + 1]) /\ Len(log[n + 1]) \in Nat
    BY <2>0, <2>2, <2>4, <2>5, PositionInside
  <2>7. k \in Nat
    BY <2>2 DEF Buffers
  <2> HIDE DEF k
  <2>8. k + 1 \in 1 .. Len(log[n + 1])
    BY <2>6, <2>7
  <2>9. AtLeast(n + 1, k + 1, <<n + 1, k + 1>>)
    BY <2>0, <2>7 DEF AtLeast
  <2>10. q \in Range(toServer) \cup Range(sending[c])
    BY <2>3, <2>4, <2>8, <2>9 DEF Place, k
  <2>11. /\ DataOf(c, q) /\ About(c, q) /\ q.unit = <<n + 1, k + 1>> /\ ~IsClose(q)
    BY <2>2, <2>4, <2>8, PieceShape
  <2> HIDE DEF q
  <2>12. q # pdu
    BY <1>2, <2>11, PduKinds
  <2>13. q.unit[1] > last
    BY <1>1, <1>14, <2>10, <2>11, <2>12 DEF DataOf
  <2>14. QED
    BY <2>0, <2>1, <2>11, <2>13
<1>16. \A j \in 1 .. Len(readQueue[c]) : readQueue[c][j] # EndOfData
  BY <1>7 DEF IInv, UpGotInv, UpGot
<1>17. Given(c)' = Given(c)
  <2>1. PendingOf(readQueue[c]) = readQueue[c]
    BY <1>4, <1>16, PendingAll
  <2>2. PendingOf(readQueue'[c]) = readQueue[c]
    BY <1>4, <1>8, PendingEnd
  <2>3. QED
    BY <1>1, <2>1, <2>2 DEF Given, Pending, PendingOf
<1>18. UpGot(c)'
  <2>a. PICK s \in Seq(Seq(Units)) : s = readQueue[c]
    BY <1>4
  <2>b. PICK e \in Seq(Units) : e = EndOfData
    BY <1>8
  <2> DEFINE t == Append(s, e)
  <2>1. /\ t # <<>> /\ Len(t) = Len(s) + 1 /\ t[Len(s) + 1] = EndOfData
        /\ \A i \in 1 .. Len(s) : t[i] = s[i]
        /\ Len(s) \in Nat
    BY <2>b, AppendProperties, LenProperties
  <2> HIDE DEF t
  <2>2. \A j \in 1 .. Len(t) : t[j] = EndOfData <=> j = Len(t)
    BY <1>16, <2>1, <2>a
  <2>3. readQueue'[c] = t
    BY <1>4, <2>a, <2>b DEF t
  <2>4. FirstOf(Given(c), clientSent[c])
    BY DEF IInv, UpGotInv, UpGot
  <2>5. QED
    BY <1>1, <1>4, <1>7, <1>15, <1>17, <2>1, <2>2, <2>3, <2>4 DEF UpGot
<1>19. Ends(c)'
  <2>1. Close(c) \notin Range(toServer') /\ \A ok : Created(c, ok) \notin Range(toServer')
    BY <1>14, AboutKinds, PduKinds
  <2>2. QED
    BY <1>1, <1>4, <2>1 DEF Ends
<1>20. \A d \in Ids : closing[d] \in {"open", "told"} =>
                        dvc'[d] \in {"succeeded", "closed", "absent"}
  BY <1>0, <1>3, <1>4 DEF IInv, ClosingInv, TypeInv
<1>21. \A d \in Ids : dvc'[d] = "absent" <=> dvc[d] = "absent"
  BY <1>3, <1>4
<1>22. \A d \in Ids : ~About(d, pdu) => SameServer(d)
  BY <1>3, <1>4, <1>5 DEF SameServer
<1>23. \A d \in Ids : About(d, pdu) => Up(d)' /\ UpGot(d)' /\ Ends(d)'
  BY <1>5, <1>12, <1>18, <1>19
<1>24. QED
  BY <1>3, <1>9, <1>10, <1>20, <1>21, <1>22, <1>23, ServerStep

LEMMA ServerReceiveStep ==
    ASSUME IInv, ServerReceive
    PROVE  IInv'
BY ServerCapabilitiesStep, ServerIgnoresStep, ServerCreatedStep, ServerDataFirstStep, ServerDataStep,
   ServerClosedStep DEF ServerReceive

-----------------------------------------------------------------------------
(* The client sends a CLOSE *)

\* It comes after the last fragment of every message the client has finished, and before the last
\* one of a message it is sending.
LEMMA CloseAfter ==
    ASSUME TypeInv, LogInv, NEW c \in Ids, Close(c) \notin Range(toServer), connected,
           channel[c] = "running", NEW log \in Logs, SendingInv(c, log), UpLive(c, log), NEW length,
           length = NextLength(log, Len(clientSent[c]))
    PROVE  /\ AllBefore(c, Len(clientSent[c]), length, Range(toServer), {Close(c)})
           /\ AllBefore(c, Len(clientSent[c]), length, {Close(c)}, Range(sending[c]))
<1> DEFINE last == Len(clientSent[c])
<1>1. /\ last \in Nat /\ last + 1 \in Nat \ {0} /\ sending[c] \in Seq(DataPdus)
      /\ toServer \in Seq(UpPdus) /\ Len(log) \in Nat
  BY UpLogTypes DEF TypeInv
<1>a. /\ sending[c] = <<>> => Len(log) = last
      /\ sending[c] # <<>> =>
           /\ Len(log) = last + 1 /\ last + 1 \in 1 .. Len(log)
           /\ Rest(sending[c], Fragments(c, log[last + 1]))
           /\ Piece(c, log, last + 1, Len(log[last + 1])) \in Range(sending[c])
           /\ length = Len(log[last + 1])
  <2>1. /\ sending[c] = <<>> => Len(log) = last
        /\ sending[c] # <<>> =>
             /\ Len(log) = last + 1 /\ last + 1 \in 1 .. Len(log)
             /\ Rest(sending[c], Fragments(c, log[last + 1]))
             /\ Piece(c, log, last + 1, Len(log[last + 1])) \in Range(sending[c])
    BY SendingRuns
  <2>2. Len(log) = last + 1 => length = Len(log[last + 1])
    BY <1>1 DEF NextLength
  <2>3. QED
    BY <2>1, <2>2
<1>b. /\ AllBefore(c, last, length, Range(toServer), Range(sending[c]))
      /\ \A p \in Range(toServer) : DataOf(c, p) => Valid(c, log, p)
  BY DEF UpLive, Place
<1> HIDE DEF last
<1>2. ASSUME NEW q \in Range(sending[c])
      PROVE  DataOf(c, q) /\ q.unit[1] = last + 1
  <2>1. sending[c] # <<>>
    BY RangeEmpty
  <2>2. PICK k \in 1 .. MaxLength : log[last + 1] = MessageOf(last + 1, k)
    BY <1>a, <2>1, LogEntry
  <2>3. QED
    BY <1>1, <1>a, <2>1, <2>2, RestFacts
<1>3. AllBefore(c, last, length, {Close(c)}, Range(sending[c]))
  <2>1. ASSUME NEW q \in Range(sending[c])
        PROVE  Before(last, length, Close(c), q)
    <3>1. IsData(q) /\ q.unit[1] > last
      BY <1>1, <1>2 DEF DataOf
    <3>2. QED
      BY <3>1, PduKinds DEF Before
  <2>2. QED
    BY <2>1 DEF AllBefore
<1>4. ASSUME NEW p \in Range(toServer), About(c, p)
      PROVE  Before(last, length, p, Close(c))
  <2>1. p \in UpPdus
    BY <1>1, RangeOf
  <2>2. ~IsClose(p)
    BY <1>4, <2>1, UpPduKinds DEF About
  <2>3. CASE IsCreate(p)
    BY <2>3, PduKinds DEF Before
  <2>4. CASE IsData(p)
    <3>1. p.unit[1] \in 1 .. Len(log)
      <4>1. DataOf(c, p)
        BY <1>4, <2>4 DEF About, DataOf
      <4>2. QED
        BY <1>b, <4>1, ValidUnit
    <3>2. p.unit[1] <= last + 1
      BY <1>1, <1>a, <3>1
    <3>3. CASE sending[c] = <<>>
      <4>1. p.unit # <<last + 1, length>>
        BY <1>1, <1>a, <3>1, <3>3
      <4>2. QED
        BY <2>4, <3>2, <4>1, PduKinds DEF Before
    <3>4. CASE sending[c] # <<>>
      <4> DEFINE q == Piece(c, log, last + 1, length)
      <4>1. q \in Range(sending[c])
        BY <1>a, <3>4
      <4>2. length \in 1 .. Len(log[last + 1]) /\ length \in Nat
        BY <1>a, <3>4, LogEntry, DvcBounds
      <4>3. q.unit = <<last + 1, length>> /\ About(c, q) /\ ~IsClose(q)
        BY <1>a, <3>4, <4>2, PieceShape
      <4> HIDE DEF q
      <4>4. Before(last, length, p, q) /\ ~IsCreate(p)
        BY <1>4, <1>b, <2>4, <4>1, <4>3 DEF AllBefore, IsData, IsCreate
      <4>5. UnitBefore(p.unit, q.unit)
        BY <2>2, <4>3, <4>4 DEF Before
      <4>6. p.unit # <<last + 1, length>>
        BY <1>1, <4>2, <4>3, <4>5 DEF UnitBefore
      <4>7. QED
        BY <2>4, <3>2, <4>6, PduKinds DEF Before
    <3>5. QED
      BY <3>3, <3>4
  <2>6. QED
    BY <1>4, <2>2, <2>3, <2>4 DEF About
<1>5. AllBefore(c, last, length, Range(toServer), {Close(c)})
  BY <1>4 DEF AllBefore
<1>6. QED
  BY <1>3, <1>5 DEF last

\* A step that closes channel c and sends its CLOSE.
SendsClose(c) ==
    /\ channel[c] = "running" /\ channel'[c] \in {"closed", "dropped"} /\ connected' = connected
    /\ toServer' = IF connected THEN toServer \o <<Close(c)>> ELSE toServer

LEMMA CloseSent ==
    ASSUME IInv, NEW c \in Ids, SendsClose(c), SameUp(c), dvc'[c] = dvc[c], Fresh(c)' <=> Fresh(c)
    PROVE  /\ \E log \in Logs : /\ SendingInv(c, log)
                                /\ connected /\ dvc[c] \in {"none", "succeeded"} => UpLive(c, log)'
           /\ clientWrites'[c] = clientWrites[c] => Up(c)'
           /\ UpGot(c)' /\ (connected => Ends(c)')
<1>0. TypeInv /\ LogInv /\ toServer \in Seq(UpPdus) /\ Close(c) \in UpPdus
  BY PduTypes DEF IInv, TypeInv
<1>1. connected => toServer' = Append(toServer, Close(c))
  BY <1>0, OneMore DEF SendsClose
<1>2. connected => Range(toServer') = Range(toServer) \cup {Close(c)}
  BY <1>0, <1>1, UpSend
<1>3. connected => Close(c) \notin Range(toServer)
  BY DEF IInv, EndsInv, Ends, SendsClose
<1>4. PICK log \in Logs :
         /\ SendingInv(c, log)
         /\ connected /\ dvc[c] \in {"none", "succeeded"} => UpLive(c, log)
  BY DEF IInv, UpInv, Up
<1> DEFINE length == NextLength(log, Len(clientSent[c]))
<1>5. clientWrites'[c] = clientWrites[c] => SendingInv(c, log)'
  BY <1>4, SendingSame DEF SameUp, SendsClose
<1>6. ASSUME connected, dvc[c] \in {"none", "succeeded"}
      PROVE  UpLive(c, log)'
  <2>1. UpLive(c, log)
    BY <1>4, <1>6
  <2>2. /\ AllBefore(c, Len(clientSent[c]), length, Range(toServer), {Close(c)})
        /\ AllBefore(c, Len(clientSent[c]), length, {Close(c)}, Range(sending[c]))
    BY <1>0, <1>3, <1>4, <1>6, <2>1, CloseAfter DEF SendsClose
  <2>3. ~DataOf(c, Close(c))
    BY AboutKinds
  <2>4. QED
    BY <1>0, <1>1, <1>4, <1>6, <2>1, <2>2, <2>3, UpLiveSend
<1>7. clientWrites'[c] = clientWrites[c] => Up(c)'
  BY <1>5, <1>6 DEF Up, SendsClose
<1>8. UpGot(c) /\ dvc[c] # "closed"
  BY DEF IInv, UpGotInv, UpGot, SendsClose
<1>9. UpGot(c)'
  BY <1>8 DEF UpGot, Given, Pending, SameUp
<1>10. ASSUME connected
       PROVE  Ends(c)'
  <2>1. Ends(c)
    BY <1>10 DEF IInv, EndsInv
  <2>2. \A ok : Created(c, ok) \in Range(toServer') <=> Created(c, ok) \in Range(toServer)
    BY <1>2, <1>10, SamePdu
  <2>3. dvc[c] # "failed" /\ Created(c, FALSE) \notin Range(toServer)
    BY <2>1 DEF Ends, SendsClose
  <2>4. QED
    BY <1>2, <1>8, <1>10, <2>1, <2>2, <2>3 DEF Ends, SendsClose
<1>11. QED
  BY <1>4, <1>6, <1>7, <1>9, <1>10

-----------------------------------------------------------------------------
(* The client takes a PDU *)

SameClient(c) ==
    channel'[c] = channel[c] /\ dvcData'[c] = dvcData[c] /\ clientGot'[c] = clientGot[c]

LEMMA ClientTakesFrame ==
    ASSUME IInv, NEW pdu, ClientTakes(pdu)
    PROVE  /\ UNCHANGED <<nextId, vcmState, queue, queueEvent, dvc, reassembly, readQueue, closing,
                          posting, serverSent, serverGot, connected, sending, clientWrites, clientSent>>
           /\ pdu \in DownPdus /\ toClient # <<>> /\ pdu = Head(toClient)
           /\ toClient' = Tail(toClient) /\ toClient' \in Seq(DownPdus)
           /\ Down = {pdu} \cup Down'
           /\ \A c \in Ids : Fresh(c)' => Fresh(c)
           /\ \A c \in Ids : ~About(c, pdu) => (Fresh(c)' <=> Fresh(c))
           /\ \A c \in Ids : About(c, pdu) => ~Fresh(c)' /\ c <= nextId
           /\ \A c \in Ids : About(c, pdu) /\ ~IsCreate(pdu) => ~Fresh(c)
<1>1. /\ UNCHANGED <<nextId, vcmState, queue, queueEvent, dvc, reassembly, readQueue, closing,
                     posting, serverSent, serverGot, connected, sending, clientWrites, clientSent>>
      /\ toClient # <<>> /\ pdu = Head(toClient) /\ toClient' = Tail(toClient)
  BY DEF ClientTakes, server, manager, serverChannels, serverUser
<1>2. Down = {pdu} \cup Down' /\ pdu \in DownPdus
  BY <1>1, DownTake DEF IInv
<1>3. toClient' \in Seq(DownPdus) /\ toClient \in Seq(DownPdus)
  BY <1>1, TailFacts DEF IInv, TypeInv
<1>4. \A c \in Ids : Fresh(c)' => Fresh(c)
  BY <1>1, <1>2 DEF Fresh
<1>5. \A c \in Ids : ~About(c, pdu) => (Fresh(c)' <=> Fresh(c))
  BY <1>1, <1>2, AboutKinds DEF Fresh
<1>6. ASSUME NEW c \in Ids, About(c, pdu)
      PROVE  c <= nextId /\ Create(c) \notin Down'
  <2>1. c <= nextId /\ ~(c > nextId)
    <3>1. ~(c > nextId)
      BY <1>2, <1>6 DEF IInv, OpenedInv
    <3>2. c \in Nat /\ nextId \in Nat
      BY DEF Ids, IInv, TypeInv
    <3>3. QED
      BY <3>1, <3>2
  <2>2. SUFFICES ASSUME Create(c) \in Down'
                 PROVE  FALSE
    BY <2>1
  <2>3. Fresh(c)
    BY <1>2, <2>2 DEF Fresh
  <2>4. DownOrder(c, Len(serverSent[c]), toClient, queue, Range(posting[c]))
    BY <2>3 DEF IInv, DownInv, DownLive
  <2>5. AllBefore(c, Len(serverSent[c]), 0, {pdu},
                  (Range(Tail(toClient)) \cup Range(queue)) \cup Range(posting[c]))
    BY <1>1, <1>3, <2>4, DownOrderTake
  <2>6. Create(c) \in Range(Tail(toClient)) \cup Range(queue)
    BY <1>1, <2>2 DEF Down
  <2>7. Before(Len(serverSent[c]), 0, pdu, Create(c))
    BY <1>6, <2>5, <2>6, AboutKinds DEF AllBefore
  <2>8. QED
    BY <2>7, PduKinds DEF Before
<1>7. ASSUME NEW c \in Ids, About(c, pdu)
      PROVE  ~Fresh(c)' /\ c <= nextId
  <2>1. c \in Nat /\ nextId \in Nat
    BY DEF Ids, IInv, TypeInv
  <2>2. QED
    BY <1>1, <1>6, <1>7, <2>1 DEF Fresh
<1>8. ASSUME NEW c \in Ids, About(c, pdu), ~IsCreate(pdu)
      PROVE  ~Fresh(c)
  <2>1. c \in Nat /\ nextId \in Nat
    BY DEF Ids, IInv, TypeInv
  <2>2. Create(c) \notin Down
    BY <1>2, <1>6, <1>8, PduKinds
  <2>3. QED
    BY <1>6, <1>8, <2>1, <2>2 DEF Fresh
<1>9. QED
  BY <1>1, <1>2, <1>3, <1>4, <1>5, <1>7, <1>8

\* X are the PDUs that the client sends.
LEMMA ClientStep ==
    ASSUME IInv, NEW pdu, ClientTakes(pdu), TypeInv', BufferInv', NEW X,
           Range(toServer') = Range(toServer) \cup X,
           \A n, length : \A c \in Ids : ~About(c, pdu) /\ InOrder(c, n, length, toServer) =>
                                        InOrder(c, n, length, toServer'),
           \A c \in Ids : ~About(c, pdu) => SameClient(c) /\ \A x \in X : ~About(c, x),
           \A c \in Ids : About(c, pdu) =>
              /\ channel'[c] = "running" => DownLive(c)' /\ dvc[c] # "closed"
              /\ FirstOf(clientGot'[c], serverSent[c])
              /\ Up(c)' /\ (connected => Ends(c)')
              /\ (closing[c] = "told" /\ connected /\ channel'[c] = "running") =>
                    Close(c) \in Down'
    PROVE  IInv'
<1>0. TypeInv /\ LogInv
  BY DEF IInv
<1>1. /\ UNCHANGED <<nextId, vcmState, queue, queueEvent, dvc, reassembly, readQueue, closing,
                     posting, serverSent, serverGot, connected, sending, clientWrites, clientSent>>
      /\ pdu \in DownPdus /\ toClient # <<>> /\ pdu = Head(toClient)
      /\ toClient' = Tail(toClient) /\ Down = {pdu} \cup Down'
      /\ \A c \in Ids : Fresh(c)' => Fresh(c)
      /\ \A c \in Ids : ~About(c, pdu) => (Fresh(c)' <=> Fresh(c))
      /\ \A c \in Ids : About(c, pdu) => ~Fresh(c)'
  BY ClientTakesFrame
<1>2. LogInv'
  BY <1>1 DEF IInv, LogInv
<1>3. (OpenedInv /\ PostingInv)'
  BY <1>0, <1>1, OpenedFrame, PostingFrame DEF IInv
<1>4. FreshInv'
  <2>1. ASSUME NEW c \in Ids, Fresh(c)'
        PROVE  Fresh(c) /\ SameClient(c) /\ \A p \in Range(toServer') : ~About(c, p)
    <3>1. Fresh(c) /\ ~About(c, pdu)
      BY <1>1, <2>1
    <3>2. SameClient(c) /\ \A x \in X : ~About(c, x)
      BY <3>1
    <3>3. \A p \in Range(toServer) : ~About(c, p)
      BY <3>1 DEF IInv, FreshInv
    <3>4. QED
      BY <3>1, <3>2, <3>3
  <2>2. QED
    BY <1>1, <2>1 DEF IInv, FreshInv, SameClient
<1>5. DownInv'
  <2>1. ASSUME NEW c \in Ids, Fresh(c)' \/ channel'[c] = "running", ~About(c, pdu)
        PROVE  DownLive(c)'
    <3>1. DownLive(c) /\ SameDown(c)
      BY <1>1, <2>1 DEF IInv, DownInv, SameDown, SameClient
    <3>2. ~DataOf(c, pdu)
      BY <2>1, AboutKinds
    <3>3. QED
      BY <1>0, <1>1, <3>1, <3>2, DownLiveTake
  <2>2. QED
    BY <1>1, <2>1 DEF DownInv
<1>6. DownGotInv'
  BY <1>1 DEF IInv, DownGotInv, SameClient
<1>7. ASSUME NEW c \in Ids, ~About(c, pdu)
      PROVE  Up(c)' /\ (connected => Ends(c)')
  <2>1. SameUp(c) /\ channel'[c] = channel[c] /\ \A x \in X : ~About(c, x)
    BY <1>1, <1>7 DEF SameUp, SameClient
  <2>2. PICK log \in Logs :
           /\ SendingInv(c, log)
           /\ connected /\ dvc[c] \in {"none", "succeeded"} => UpLive(c, log)
    BY DEF IInv, UpInv, Up
  <2> DEFINE length == NextLength(log, Len(clientSent[c]))
  <2>3. SendingInv(c, log)'
    BY <1>1, <2>1, <2>2 DEF SendingInv
  <2>4. ASSUME connected, dvc[c] \in {"none", "succeeded"}
        PROVE  UpLive(c, log)'
    <3>1. UpLive(c, log)
      BY <2>2, <2>4
    <3>2. InOrder(c, Len(clientSent[c]), length, toServer')
      BY <1>7, <3>1 DEF UpLive
    <3>3. AllBefore(c, Len(clientSent[c]), length, X, Range(sending[c]))
      BY <2>1 DEF AllBefore
    <3>4. \A x \in X : ~DataOf(c, x)
      BY <2>1, AboutKinds
    <3>5. QED
      BY <1>0, <2>1, <2>2, <3>1, <3>2, <3>3, <3>4, UpLiveMore
  <2>5. Up(c)'
    BY <1>1, <2>3, <2>4 DEF Up
  <2>6. ASSUME connected
        PROVE  Ends(c)'
    <3>1. Ends(c)
      BY <2>6 DEF IInv, EndsInv
    <3>2. /\ Close(c) \in Range(toServer') <=> Close(c) \in Range(toServer)
          /\ \A ok : Created(c, ok) \in Range(toServer') <=> Created(c, ok) \in Range(toServer)
      BY <2>1, AboutKinds
    <3>3. \A p \in X : ~DataOf(c, p) /\ p # Close(c)
      BY <2>1, AboutKinds
    <3>4. Fresh(c)' <=> Fresh(c)
      BY <1>1, <1>7
    <3>5. QED
      BY <1>1, <2>1, <3>1, <3>2, <3>3, <3>4 DEF Ends
  <2>7. QED
    BY <2>5, <2>6
<1>8. (UpInv /\ EndsInv)'
  BY <1>1, <1>7 DEF UpInv, EndsInv
<1>9. UpGotInv'
  <2>1. \A c \in Ids : channel'[c] = "running" => dvc[c] # "closed"
    BY DEF IInv, UpGotInv, UpGot, SameClient
  <2>2. QED
    BY <1>1, <2>1, UpGotFrame DEF IInv
<1>10. ClosingInv'
  <2>1. ASSUME NEW c \in Ids, ~About(c, pdu)
        PROVE  Close(c) \in Down' <=> Close(c) \in Down
    BY <1>1, <2>1, AboutKinds
  <2>2. QED
    BY <1>0, <1>1, <2>1 DEF IInv, ClosingInv, SameClient
<1>11. QED
  BY <1>2, <1>3, <1>4, <1>5, <1>6, <1>8, <1>9, <1>10 DEF IInv

\* A step that sends nothing, or that sends one PDU.
LEMMA SendNone ==
    ASSUME toServer' = toServer
    PROVE  /\ Range(toServer') = Range(toServer) \cup {}
           /\ \A n, length : \A c \in Ids : InOrder(c, n, length, toServer) =>
                                           InOrder(c, n, length, toServer')
OBVIOUS

LEMMA OrderSkip ==
    ASSUME NEW S, NEW s \in Seq(S), NEW x \in S, NEW c, NEW n, NEW length, InOrder(c, n, length, s),
           ~About(c, x)
    PROVE  InOrder(c, n, length, Append(s, x))
<1>1. AllBefore(c, n, length, Range(s), {x})
  BY DEF AllBefore
<1>2. QED
  BY <1>1, OrderAppend

LEMMA SendOne ==
    ASSUME TypeInv, NEW x \in UpPdus, Send(<<x>>)
    PROVE  /\ Range(toServer') = Range(toServer) \cup (IF connected THEN {x} ELSE {})
           /\ toServer' \in Seq(UpPdus)
           /\ \A n, length : \A c \in Ids : ~About(c, x) /\ InOrder(c, n, length, toServer) =>
                                           InOrder(c, n, length, toServer')
<1>1. toServer \in Seq(UpPdus)
  BY DEF TypeInv
<1>2. CASE connected
  <2>1. toServer' = Append(toServer, x)
    BY <1>1, <1>2, OneMore DEF Send
  <2>2. Range(toServer') = Range(toServer) \cup {x} /\ toServer' \in Seq(UpPdus)
    BY <2>1, UpSend
  <2>3. QED
    BY <1>1, <1>2, <2>1, <2>2, OrderSkip
<1>3. CASE ~connected
  BY <1>1, <1>3 DEF Send
<1>4. QED
  BY <1>2, <1>3

LEMMA ClientCapabilitiesStep ==
    ASSUME IInv, NEW pdu, ClientTakes(pdu), ClientCapabilities(pdu)
    PROVE  IInv'
<1>0. TypeInv
  BY DEF IInv
<1>1. /\ UNCHANGED <<nextId, vcmState, queue, queueEvent, dvc, reassembly, readQueue, closing,
                     posting, serverSent, serverGot, connected, sending, clientWrites, clientSent>>
      /\ toClient' \in Seq(DownPdus) /\ pdu \in DownPdus
  BY ClientTakesFrame
<1>2. pdu = Caps
  BY <1>1, DownPduKinds DEF ClientCapabilities
<1>3. \A c : ~About(c, pdu) /\ ~About(c, Caps)
  BY <1>2, AboutKinds
<1>4. Send(<<Caps>>) /\ clientState' = "ready" /\ UNCHANGED <<channel, dvcData, thread, clientGot>>
  BY DEF ClientCapabilities
<1>5. Caps \in UpPdus
  BY PduTypes
<1> DEFINE X == IF connected THEN {Caps} ELSE {}
<1>6. /\ Range(toServer') = Range(toServer) \cup X /\ toServer' \in Seq(UpPdus)
      /\ \A n, length : \A c \in Ids : InOrder(c, n, length, toServer) => InOrder(c, n, length, toServer')
  BY <1>0, <1>3, <1>4, <1>5, SendOne
<1>7. TypeInv'
  BY <1>0, <1>1, <1>4, <1>6 DEF TypeInv
<1>8. BufferInv'
  BY <1>1, <1>4 DEF IInv, BufferInv
<1>9. \A c \in Ids : SameClient(c) /\ \A x \in X : ~About(c, x)
  BY <1>3, <1>4 DEF SameClient
<1> HIDE DEF X
<1>10. QED
  BY <1>3, <1>6, <1>7, <1>8, <1>9, ClientStep

LEMMA ClientIgnoresStep ==
    ASSUME IInv, NEW pdu, ClientTakes(pdu), ClientIgnores(pdu)
    PROVE  IInv'
<1>0. TypeInv
  BY DEF IInv
<1>1. /\ UNCHANGED <<nextId, vcmState, queue, queueEvent, dvc, reassembly, readQueue, closing,
                     posting, serverSent, serverGot, connected, sending, clientWrites, clientSent>>
      /\ toClient' \in Seq(DownPdus) /\ pdu \in DownPdus
      /\ \A c \in Ids : About(c, pdu) => ~Fresh(c)'
      /\ \A c \in Ids : About(c, pdu) /\ ~IsCreate(pdu) => ~Fresh(c)
  BY ClientTakesFrame
<1>2. /\ channel[pdu.id] # "running" /\ ~IsCreate(pdu)
      /\ UNCHANGED <<toServer, clientState, channel, dvcData, thread, clientGot>>
  BY DEF ClientIgnores, IsCreate
<1>3. TypeInv'
  BY <1>0, <1>1, <1>2 DEF TypeInv
<1>4. BufferInv'
  BY <1>1, <1>2 DEF IInv, BufferInv
<1>5. ASSUME NEW c \in Ids, About(c, pdu)
      PROVE  /\ channel'[c] # "running" /\ FirstOf(clientGot'[c], serverSent[c])
             /\ Up(c)' /\ (connected => Ends(c)')
  <2>1. channel'[c] # "running"
    BY <1>2, <1>5 DEF About
  <2>2. FirstOf(clientGot'[c], serverSent[c])
    BY <1>2 DEF IInv, DownGotInv
  <2>3. (UpInv /\ UpGotInv)'
    BY <1>1, <1>2, UpFrame DEF IInv
  <2>4. ~Fresh(c)' /\ ~Fresh(c)
    BY <1>1, <1>2, <1>5
  <2>5. connected => Ends(c)'
    BY <1>1, <1>2, <2>4 DEF IInv, EndsInv, Ends
  <2>6. QED
    BY <2>1, <2>2, <2>3, <2>5 DEF UpInv
<1>6. \A c \in Ids : SameClient(c)
  BY <1>2 DEF SameClient
<1>7. /\ Range(toServer') = Range(toServer) \cup {}
      /\ \A n, length : \A c \in Ids : InOrder(c, n, length, toServer) => InOrder(c, n, length, toServer')
  BY <1>2, SendNone
<1>8. PICK X : X = {}
  OBVIOUS
<1>9. QED
  BY <1>3, <1>4, <1>5, <1>6, <1>7, <1>8, ClientStep

\* The PDU is the fragment that the reader of the channel needs next.
LEMMA ClientTakesNext ==
    ASSUME IInv, NEW pdu, ClientTakes(pdu), NEW c \in Ids, DataOf(c, pdu), channel[c] = "running"
    PROVE  /\ Takes(c, serverSent[c], Len(serverSent[c]), Len(clientGot[c]), dvcData[c], pdu,
                    Down' \cup Range(posting[c]), 0)
           /\ DownOrder(c, Len(serverSent[c]), toClient', queue, Range(posting[c]))
           /\ Len(clientGot[c]) \in Nat /\ Len(clientGot[c]) <= Len(serverSent[c])
<1> DEFINE last == Len(serverSent[c])
           P == Range(posting[c])
<1>0. TypeInv /\ LogInv /\ toClient \in Seq(DownPdus)
  BY DEF IInv, TypeInv
<1>1. /\ toClient # <<>> /\ pdu = Head(toClient) /\ toClient' = Tail(toClient)
      /\ Down = {pdu} \cup Down' /\ queue' = queue
  BY ClientTakesFrame
<1>2. /\ serverSent[c] \in Logs /\ last \in Nat /\ dvcData[c] \in Buffers /\ Len(clientGot[c]) \in Nat
  BY <1>0, LogTypes
<1>3. DownLive(c) /\ Len(clientGot[c]) <= last
  BY DEF IInv, DownInv, DownGotInv, FirstOf
<1>4. /\ DownOrder(c, last, Tail(toClient), queue, P)
      /\ AllBefore(c, last, 0, {pdu}, (Range(Tail(toClient)) \cup Range(queue)) \cup P)
  BY <1>0, <1>1, <1>3, DownOrderTake DEF DownLive
<1>5. AllBefore(c, last, 0, {pdu}, Down' \cup P)
  BY <1>1, <1>4 DEF Down
<1>6. Place(c, serverSent[c], last, Len(clientGot[c]), dvcData[c], {pdu} \cup (Down' \cup P))
  <2>1. Left(c) = {pdu} \cup (Down' \cup P)
    BY <1>1 DEF Left
  <2>2. QED
    BY <1>3, <2>1 DEF DownLive
<1>7. pdu.unit[1] <= last + 1
  <2>1. Valid(c, serverSent[c], pdu)
    BY <1>6 DEF Place
  <2>2. pdu.unit[1] \in 1 .. last
    BY <1>2, <2>1, ValidUnit
  <2>3. QED
    BY <1>2, <2>2
<1>8. QED
  BY <1>1, <1>2, <1>3, <1>4, <1>5, <1>6, <1>7 DEF Takes

\* Steps of this kind that process a data PDU and send nothing.
LEMMA ClientDataFrame ==
    ASSUME IInv, NEW pdu, ClientTakes(pdu), NEW c \in Ids, DataOf(c, pdu), pdu \in DataPdus,
           channel[c] = "running", UNCHANGED <<toServer, channel>>,
           \A d \in Ids : d # c => dvcData'[d] = dvcData[d] /\ clientGot'[d] = clientGot[d],
           TypeInv', BufferInv', DownLive(c)', FirstOf(clientGot'[c], serverSent[c])
    PROVE  IInv'
<1>1. /\ UNCHANGED <<nextId, vcmState, queue, queueEvent, dvc, reassembly, readQueue, closing,
                     posting, serverSent, serverGot, connected, sending, clientWrites, clientSent>>
      /\ Down = {pdu} \cup Down'
      /\ \A d \in Ids : About(d, pdu) => ~Fresh(d)'
      /\ \A d \in Ids : About(d, pdu) /\ ~IsCreate(pdu) => ~Fresh(d)
  BY ClientTakesFrame
<1>2. ~IsCreate(pdu) /\ \A d : (About(d, pdu) <=> d = c) /\ pdu # Close(d)
  BY DataPduFields DEF DataOf
<1>3. Up(c)'
  <2>1. (UpInv /\ UpGotInv)'
    BY <1>1, UpFrame DEF IInv
  <2>2. QED
    BY <2>1 DEF UpInv
<1>4. connected => Ends(c)'
  <2>1. ~Fresh(c)' /\ ~Fresh(c)
    BY <1>1, <1>2
  <2>2. QED
    BY <1>1, <2>1 DEF IInv, EndsInv, Ends
<1>5. closing[c] = "told" /\ connected => Close(c) \in Down'
  BY <1>1, <1>2 DEF IInv, ClosingInv
<1>6. dvc[c] # "closed"
  BY DEF IInv, UpGotInv, UpGot
<1>7. \A d \in Ids : ~About(d, pdu) => SameClient(d)
  BY <1>2 DEF SameClient
<1>8. /\ Range(toServer') = Range(toServer) \cup {}
      /\ \A n, length : \A d \in Ids : InOrder(d, n, length, toServer) => InOrder(d, n, length, toServer')
  BY SendNone
<1>9. PICK X : X = {}
  OBVIOUS
<1>10. \A d \in Ids : About(d, pdu) =>
          /\ channel'[d] = "running" => DownLive(d)' /\ dvc[d] # "closed"
          /\ FirstOf(clientGot'[d], serverSent[d])
          /\ Up(d)' /\ (connected => Ends(d)')
          /\ (closing[d] = "told" /\ connected /\ channel'[d] = "running") =>
                Close(d) \in Down'
  BY <1>2, <1>3, <1>4, <1>5, <1>6
<1>11. QED
  BY <1>7, <1>8, <1>9, <1>10, ClientStep

\* Steps of this kind that close the channel.
LEMMA ClientCloseFrame ==
    ASSUME IInv, NEW pdu, ClientTakes(pdu), NEW c \in Ids, About(c, pdu), ~IsCreate(pdu),
           channel[c] = "running", ChannelClose(c), clientState' = clientState,
           \A d \in Ids : d # c => dvcData'[d] = dvcData[d] /\ clientGot'[d] = clientGot[d],
           dvcData' \in [Ids -> Buffers], clientGot' \in [Ids -> Seq(Seq(Units))], BufferInv',
           FirstOf(clientGot'[c], serverSent[c])
    PROVE  IInv'
<1>0. TypeInv /\ Close(c) \in UpPdus
  BY PduTypes DEF IInv
<1>1. /\ UNCHANGED <<nextId, vcmState, queue, queueEvent, dvc, reassembly, readQueue, closing,
                     posting, serverSent, serverGot, connected, sending, clientWrites, clientSent>>
      /\ toClient' \in Seq(DownPdus)
      /\ \A d \in Ids : About(d, pdu) => ~Fresh(d)'
      /\ \A d \in Ids : About(d, pdu) /\ ~IsCreate(pdu) => ~Fresh(d)
  BY ClientTakesFrame
<1>2. channel' = [channel EXCEPT ![c] = "closed"] /\ Send(<<Close(c)>>) /\ thread' = "closing"
  BY DEF ChannelClose
<1>3. channel'[c] = "closed" /\ \A d \in Ids : d # c => channel'[d] = channel[d]
  BY <1>0, <1>2 DEF TypeInv
<1>4. \A d : (About(d, pdu) <=> d = c) /\ (About(d, Close(c)) <=> d = c)
  BY AboutKinds DEF About
<1> DEFINE X == IF connected THEN {Close(c)} ELSE {}
<1>5. /\ Range(toServer') = Range(toServer) \cup X /\ toServer' \in Seq(UpPdus)
      /\ \A n, length : \A d \in Ids : ~About(d, Close(c)) /\ InOrder(d, n, length, toServer) =>
                                      InOrder(d, n, length, toServer')
  BY <1>0, <1>2, SendOne
<1>6. TypeInv'
  <2>1. channel' \in [Ids -> {"absent", "running", "closed", "dropped"}]
    BY <1>0, <1>2 DEF TypeInv
  <2>2. QED
    BY <1>0, <1>1, <1>2, <1>5, <2>1 DEF TypeInv
<1>7. Up(c)' /\ (connected => Ends(c)')
  <2>1. SendsClose(c)
    BY <1>1, <1>2, <1>3 DEF SendsClose, Send
  <2>2. SameUp(c) /\ (Fresh(c)' <=> Fresh(c))
    BY <1>1 DEF SameUp
  <2>3. QED
    BY <1>1, <2>1, <2>2, CloseSent
<1>8. \A d \in Ids : ~About(d, pdu) => SameClient(d) /\ \A x \in X : ~About(d, x)
  BY <1>3, <1>4 DEF SameClient
<1> HIDE DEF X
<1>9. \A d \in Ids : About(d, pdu) =>
          /\ channel'[d] = "running" => DownLive(d)' /\ dvc[d] # "closed"
          /\ FirstOf(clientGot'[d], serverSent[d])
          /\ Up(d)' /\ (connected => Ends(d)')
          /\ (closing[d] = "told" /\ connected /\ channel'[d] = "running") =>
                Close(d) \in Down'
  BY <1>3, <1>4, <1>7
<1>10. \A n, length : \A d \in Ids : ~About(d, pdu) /\ InOrder(d, n, length, toServer) =>
                                    InOrder(d, n, length, toServer')
  BY <1>4, <1>5
<1>11. QED
  BY <1>5, <1>6, <1>8, <1>9, <1>10, ClientStep

LEMMA ClientCloseStep ==
    ASSUME IInv, NEW pdu, ClientTakes(pdu), ClientClose(pdu)
    PROVE  IInv'
<1>1. /\ pdu \in DownPdus
      /\ UNCHANGED <<serverSent, reassembly>>
  BY ClientTakesFrame
<1>2. PICK c \in Ids : pdu = Close(c) /\ c = pdu.id
  BY <1>1, DownPduKinds DEF ClientClose, IsClose
<1>3. About(c, pdu) /\ ~IsCreate(pdu)
  BY <1>2, AboutKinds, PduKinds
<1>4. /\ channel[c] = "running" /\ ChannelClose(c)
      /\ UNCHANGED <<clientState, dvcData, clientGot>>
  BY <1>2 DEF ClientClose
<1>5. /\ dvcData' \in [Ids -> Buffers] /\ clientGot' \in [Ids -> Seq(Seq(Units))] /\ BufferInv'
      /\ FirstOf(clientGot'[c], serverSent[c])
  BY <1>1, <1>4 DEF IInv, TypeInv, BufferInv, DownGotInv
<1>6. QED
  BY <1>3, <1>4, <1>5, ClientCloseFrame

LEMMA ClientDataFirstStep ==
    ASSUME IInv, NEW pdu, ClientTakes(pdu), ClientDataFirst(pdu)
    PROVE  IInv'
<1> DEFINE c == pdu.id
           r == [total |-> pdu.total, data |-> <<pdu.unit>>]
           last == Len(serverSent[c])
           n == Len(clientGot[c])
           left2 == Down' \cup Range(posting[c])
<1>0. TypeInv
  BY DEF IInv
<1>1. /\ UNCHANGED <<nextId, vcmState, queue, queueEvent, dvc, reassembly, readQueue, closing,
                     posting, serverSent, serverGot, connected, sending, clientWrites, clientSent>>
      /\ toClient' \in Seq(DownPdus) /\ pdu \in DownPdus
  BY ClientTakesFrame
<1>2. /\ pdu.cmd = "DATA_FIRST_PDU" /\ channel[c] = "running"
      /\ dvcData' = [dvcData EXCEPT ![c] = r]
      /\ UNCHANGED <<toServer, clientState, channel, thread, clientGot>>
  BY DEF ClientDataFirst
<1>3. IsData(pdu) /\ pdu \in DataPdus
  BY <1>1, <1>2, DownPduKinds DEF IsData
<1>4. c \in Ids /\ pdu.unit \in Units /\ pdu.total \in 1 .. MaxLength /\ DataOf(c, pdu)
  BY <1>2, <1>3, DataPduFields DEF DataOf
<1>5. r \in Buffers /\ Len(r.data) <= r.total
  BY <1>4 DEF Buffers
<1> HIDE DEF r, c
<1>6. dvcData'[c] = r /\ \A d \in Ids : d # c => dvcData'[d] = dvcData[d]
  BY <1>0, <1>2, <1>4 DEF TypeInv
<1>7. TypeInv'
  <2>1. dvcData' \in [Ids -> Buffers]
    BY <1>0, <1>2, <1>5 DEF TypeInv
  <2>2. QED
    BY <1>0, <1>1, <1>2, <2>1 DEF TypeInv
<1>8. BufferInv'
  BY <1>1, <1>4, <1>5, <1>6 DEF IInv, BufferInv
<1>9. DownLive(c)'
  <2>1. /\ Takes(c, serverSent[c], last, n, dvcData[c], pdu, left2, 0)
        /\ DownOrder(c, last, toClient', queue, Range(posting[c]))
    BY <1>2, <1>4, ClientTakesNext
  <2> HIDE DEF n, last, left2
  <2>2. Place(c, serverSent[c], last, n, r, left2)
    BY <1>2, <2>1, TakeFirst DEF r
  <2>3. QED
    BY <1>1, <1>2, <1>6, <2>1, <2>2 DEF DownLive, Left, n, last, left2
<1>10. FirstOf(clientGot'[c], serverSent[c])
  BY <1>2, <1>4 DEF IInv, DownGotInv
<1>11. QED
  BY <1>2, <1>3, <1>4, <1>6, <1>7, <1>8, <1>9, <1>10, ClientDataFrame

LEMMA ClientDataStep ==
    ASSUME IInv, NEW pdu, ClientTakes(pdu), ClientData(pdu)
    PROVE  IInv'
<1> DEFINE c == pdu.id
           x == Reassemble(dvcData[c], pdu.unit)
           log == serverSent[c]
           last == Len(log)
           n == Len(clientGot[c])
           left2 == Down' \cup Range(posting[c])
<1>0. TypeInv /\ LogInv
  BY DEF IInv
<1>1. /\ UNCHANGED <<nextId, vcmState, queue, queueEvent, dvc, reassembly, readQueue, closing,
                     posting, serverSent, serverGot, connected, sending, clientWrites, clientSent>>
      /\ toClient' \in Seq(DownPdus) /\ pdu \in DownPdus
  BY ClientTakesFrame
<1>2. /\ pdu.cmd = "DATA_PDU" /\ channel[c] = "running" /\ clientState' = clientState
      /\ dvcData' = [dvcData EXCEPT ![c] = x.rest]
      /\ clientGot' = [clientGot EXCEPT ![c] = clientGot[c] \o x.done]
      /\ (UNCHANGED <<toServer, channel, thread>> \/ ChannelClose(c))
  BY DEF ClientData
<1>3. IsData(pdu) /\ pdu \in DataPdus
  BY <1>1, <1>2, DownPduKinds DEF IsData
<1>4. c \in Ids /\ pdu.unit \in Units /\ DataOf(c, pdu) /\ About(c, pdu) /\ ~IsCreate(pdu)
  BY <1>3, DataPduFields DEF DataOf
<1>5. /\ x.rest \in Buffers /\ Len(x.rest.data) <= x.rest.total
      /\ x.done \in Seq(Seq(Units))
  <2>1. dvcData[c] \in Buffers /\ Len(dvcData[c].data) <= dvcData[c].total
    BY <1>4 DEF IInv, TypeInv, BufferInv
  <2>2. QED
    BY <1>4, <2>1, ReassembleType
<1>a. /\ Takes(c, log, last, n, dvcData[c], pdu, left2, 0)
      /\ DownOrder(c, last, toClient', queue, Range(posting[c]))
      /\ n \in Nat /\ n <= last
  BY <1>2, <1>4, ClientTakesNext
<1>b. log \in Logs
  BY <1>0, <1>4, LogTypes
<1>c. x = Reassemble(dvcData[c], pdu.unit)
  OBVIOUS
<1> HIDE DEF x, c
<1>6. /\ dvcData'[c] = x.rest /\ clientGot'[c] = clientGot[c] \o x.done
      /\ \A d \in Ids : d # c => dvcData'[d] = dvcData[d] /\ clientGot'[d] = clientGot[d]
      /\ clientGot[c] \in Seq(Seq(Units))
  BY <1>0, <1>2, <1>4 DEF TypeInv
<1>7. dvcData' \in [Ids -> Buffers]
  BY <1>0, <1>2, <1>5 DEF TypeInv
<1>8. clientGot' \in [Ids -> Seq(Seq(Units))]
  <2>1. clientGot[c] \o x.done \in Seq(Seq(Units))
    BY <1>5, <1>6, ConcatFacts
  <2>2. QED
    BY <1>0, <1>2, <2>1 DEF TypeInv
<1>9. BufferInv'
  BY <1>1, <1>4, <1>5, <1>6 DEF IInv, BufferInv
<1>10. TookData(c, log, last, n, pdu, left2, x)
  <2> HIDE DEF n, log, left2, last
  <2>1. QED
    BY <1>2, <1>a, <1>c, TakeData
<1>11. /\ Place(c, log, last, Len(clientGot'[c]), x.rest, left2)
       /\ FirstOf(clientGot'[c], log)
  <2>0. FirstOf(clientGot[c], log)
    BY <1>4 DEF IInv, DownGotInv
  <2>1. CASE x.done = <<>> /\ Place(c, log, last, n, x.rest, left2)
    <3>1. clientGot'[c] = clientGot[c]
      BY <1>6, <2>1
    <3>2. QED
      BY <2>0, <2>1, <3>1
  <2>2. CASE /\ x.done = <<log[n + 1]>> /\ n + 1 \in 1 .. Len(log)
             /\ x.rest = Nothing /\ Place(c, log, last, n + 1, x.rest, left2)
    <3>1. PICK g \in Seq(Seq(Units)) : g = clientGot[c]
      BY <1>6
    <3>2. PICK m \in Seq(Units) : m = log[n + 1]
      BY <1>b, <2>2, LogEntry
    <3> DEFINE g2 == Append(g, m)
    <3>3. clientGot'[c] = g2
      BY <1>6, <2>2, <3>1, <3>2, OneMore
    <3>4. /\ Len(g2) = Len(g) + 1 /\ g2[Len(g) + 1] = m
          /\ \A i \in 1 .. Len(g) : g2[i] = g[i]
      BY AppendProperties
    <3> HIDE DEF g2, log
    <3>5. /\ Len(g2) = n + 1 /\ g2[n + 1] = log[n + 1]
          /\ \A i \in 1 .. n : g2[i] = log[i]
      BY <2>0, <3>1, <3>2, <3>4 DEF FirstOf
    <3> HIDE DEF n
    <3>6. \A i \in 1 .. n + 1 : g2[i] = log[i]
      BY <1>a, <3>5
    <3>7. n + 1 <= Len(log)
      BY <2>2
    <3>8. QED
      BY <2>2, <3>3, <3>5, <3>6, <3>7 DEF FirstOf
  <2>3. QED
    BY <1>10, <2>1, <2>2 DEF TookData
<1>12. CASE UNCHANGED <<toServer, channel, thread>>
  <2>1. TypeInv'
    BY <1>0, <1>1, <1>2, <1>7, <1>8, <1>12 DEF TypeInv
  <2>2. DownLive(c)'
    <3> HIDE DEF log
    <3>1. QED
      BY <1>1, <1>6, <1>a, <1>11 DEF DownLive, Left, log
  <2>3. QED
    BY <1>2, <1>3, <1>4, <1>6, <1>9, <1>11, <1>12, <2>1, <2>2, ClientDataFrame
<1>13. CASE ChannelClose(c)
  BY <1>2, <1>4, <1>6, <1>7, <1>8, <1>9, <1>11, <1>13, ClientCloseFrame
<1>14. QED
  BY <1>2, <1>12, <1>13

\* The answer to a create request, with a capabilities PDU in front of it.
LEMMA SendAnswer ==
    ASSUME TypeInv, NEW x \in UpPdus, NEW first, first \in {<<>>, <<Caps>>}, connected,
           Send(first \o <<x>>)
    PROVE  /\ Range(toServer') \subseteq Range(toServer) \cup {Caps, x}
           /\ Range(toServer) \cup {x} \subseteq Range(toServer')
           /\ toServer' \in Seq(UpPdus)
           /\ \A c, n, length : InOrder(c, n, length, toServer) /\ ~About(c, x) =>
                                   InOrder(c, n, length, toServer')
           /\ \A c, n, length : (\A p \in Range(toServer) : ~About(c, p)) =>
                                   InOrder(c, n, length, toServer')
<1>0. toServer \in Seq(UpPdus) /\ Caps \in UpPdus
  BY PduTypes DEF TypeInv
<1> DEFINE Before1(s) ==
             /\ s \in Seq(UpPdus) /\ toServer' = Append(s, x)
             /\ Range(s) \subseteq Range(toServer) \cup {Caps} /\ Range(toServer) \subseteq Range(s)
             /\ \A c, n, length : InOrder(c, n, length, toServer) => InOrder(c, n, length, s)
<1>1. \E s : Before1(s)
  <2>1. CASE first = <<>>
    <3>1. first \o <<x>> = <<x>>
      BY <2>1
    <3>2. toServer' = Append(toServer, x)
      BY <1>0, <3>1, OneMore DEF Send
    <3>3. Before1(toServer)
      BY <1>0, <3>2
    <3>4. QED
      BY <3>3
  <2>2. CASE first = <<Caps>>
    <3>1. toServer' = Append(Append(toServer, Caps), x)
      BY <1>0, <2>2, TwoMore DEF Send
    <3>2. /\ Append(toServer, Caps) \in Seq(UpPdus)
          /\ Range(Append(toServer, Caps)) = Range(toServer) \cup {Caps}
      BY <1>0, RangeAppend
    <3>3. \A c : ~About(c, Caps)
      BY AboutKinds
    <3>4. \A c, n, length : InOrder(c, n, length, toServer) =>
                               InOrder(c, n, length, Append(toServer, Caps))
      BY <1>0, <3>3, OrderSkip
    <3>5. Before1(Append(toServer, Caps))
      BY <3>1, <3>2, <3>4
    <3>6. QED
      BY <3>5
  <2>3. QED
    BY <2>1, <2>2
<1>2. PICK s : Before1(s)
  BY <1>1
<1>3. toServer' \in Seq(UpPdus) /\ Range(toServer') = Range(s) \cup {x}
  BY <1>2, RangeAppend
<1>4. ASSUME NEW c, NEW n, NEW length, InOrder(c, n, length, toServer),
             AllBefore(c, n, length, Range(s), {x})
      PROVE  InOrder(c, n, length, toServer')
  <2>1. InOrder(c, n, length, s) /\ s \in Seq(UpPdus) /\ toServer' = Append(s, x)
    BY <1>2, <1>4
  <2>2. QED
    BY <1>4, <2>1, OrderAppend
<1>5. \A c, n, length : InOrder(c, n, length, toServer) /\ ~About(c, x) =>
                           InOrder(c, n, length, toServer')
  BY <1>4 DEF AllBefore
<1>6. ASSUME NEW c, NEW n, NEW length, \A p \in Range(toServer) : ~About(c, p)
      PROVE  InOrder(c, n, length, toServer')
  <2>1. \A i \in 1 .. Len(toServer) : ~About(c, toServer[i])
    BY <1>0, <1>6, RangeOf
  <2>2. InOrder(c, n, length, toServer)
    BY <2>1 DEF InOrder
  <2>3. AllBefore(c, n, length, Range(s), {x})
    BY <1>2, <1>6, AboutKinds DEF AllBefore
  <2>4. QED
    BY <1>4, <2>2, <2>3
<1>7. QED
  BY <1>2, <1>3, <1>5, <1>6

LEMMA AnswerSent ==
    ASSUME TypeInv, NEW x \in UpPdus, NEW first, first \in {<<>>, <<Caps>>}, Send(first \o <<x>>),
           NEW X, X = IF connected THEN Range(toServer') \cap {Caps, x} ELSE {}
    PROVE  /\ X \subseteq {Caps, x} /\ (connected => x \in X)
           /\ Range(toServer') = Range(toServer) \cup X /\ toServer' \in Seq(UpPdus)
           /\ \A c, n, length : InOrder(c, n, length, toServer) /\ ~About(c, x) =>
                                   InOrder(c, n, length, toServer')
<1>1. CASE ~connected
  <2>1. toServer' = toServer /\ toServer \in Seq(UpPdus)
    BY <1>1 DEF Send, TypeInv
  <2>2. QED
    BY <1>1, <2>1
<1>2. CASE connected
  <2>1. /\ Range(toServer') \subseteq Range(toServer) \cup {Caps, x}
        /\ Range(toServer) \cup {x} \subseteq Range(toServer') /\ toServer' \in Seq(UpPdus)
        /\ \A c, n, length : InOrder(c, n, length, toServer) /\ ~About(c, x) =>
                                InOrder(c, n, length, toServer')
    BY <1>2, SendAnswer
  <2>2. QED
    BY <1>2, <2>1
<1>3. QED
  BY <1>1, <1>2

\* The client has heard of c and answers.
LEMMA ClientCreateStep ==
    ASSUME IInv, NEW pdu, ClientTakes(pdu), ClientCreate(pdu)
    PROVE  IInv'
<1>0. TypeInv /\ LogInv
  BY DEF IInv
<1>1. /\ UNCHANGED <<nextId, vcmState, queue, queueEvent, dvc, reassembly, readQueue, closing,
                     posting, serverSent, serverGot, connected, sending, clientWrites, clientSent>>
      /\ pdu \in DownPdus /\ toClient # <<>> /\ pdu = Head(toClient)
      /\ toClient' = Tail(toClient) /\ toClient' \in Seq(DownPdus)
      /\ Down = {pdu} \cup Down'
  BY ClientTakesFrame
<1>2. PICK c \in Ids : pdu = Create(c) /\ c = pdu.id
  BY <1>1, DownPduKinds DEF ClientCreate, IsCreate
<1>3. /\ \A d : (About(d, pdu) <=> d = c) /\ ~DataOf(d, pdu)
      /\ \A d, ok : (About(d, Created(c, ok)) <=> d = c) /\ ~DataOf(d, Created(c, ok))
      /\ \A d : ~About(d, Caps) /\ ~DataOf(d, Caps)
  BY <1>2, AboutKinds
<1>4. Fresh(c) /\ ~Fresh(c)'
  BY <1>1, <1>2, <1>3, ClientTakesFrame DEF Fresh
<1>5. /\ channel[c] = "absent" /\ clientGot[c] = <<>> /\ dvcData[c] = Nothing
      /\ sending[c] = <<>> /\ clientSent[c] = <<>> /\ clientWrites[c] = 0
      /\ closing[c] \in {"no", "silent"} /\ dvc[c] \in {"absent", "none"}
      /\ serverGot[c] = <<>> /\ readQueue[c] = <<>> /\ reassembly[c] = Nothing
      /\ \A p \in Range(toServer) : ~About(c, p)
  BY <1>4 DEF IInv, FreshInv
<1>6. clientState' = "ready" /\ UNCHANGED <<dvcData, thread, clientGot>>
  BY DEF ClientCreate
<1> DEFINE first == IF clientState = "capabilities" THEN <<Caps>> ELSE <<>>
<1>7. PICK ok \in BOOLEAN : /\ Send(first \o <<Created(c, ok)>>)
                            /\ channel' = IF ok THEN [channel EXCEPT ![c] = "running"] ELSE channel
  <2>1. PICK accept \in BOOLEAN :
           /\ Send(first \o <<Created(c, accept /\ channel[c] = "absent")>>)
           /\ channel' = IF accept /\ channel[c] = "absent"
                         THEN [channel EXCEPT ![c] = "running"] ELSE channel
    BY <1>2 DEF ClientCreate
  <2>2. (accept /\ channel[c] = "absent") = accept
    BY <1>5, Zenon
  <2>3. QED
    BY <2>1, <2>2, Zenon
<1> DEFINE x == Created(c, ok)
<1>8. x \in UpPdus /\ first \in {<<>>, <<Caps>>}
  BY PduTypes
<1>x. /\ \A d : (About(d, x) <=> d = c) /\ ~DataOf(d, x) /\ x # Close(d)
      /\ \A q : Created(c, q) = x <=> q = ok
  BY <1>3, SamePdu
<1> HIDE DEF first, x
<1>9. PICK X : X = IF connected THEN Range(toServer') \cap {Caps, x} ELSE {}
  OBVIOUS
<1>10. /\ X \subseteq {Caps, x} /\ (connected => x \in X)
       /\ Range(toServer') = Range(toServer) \cup X /\ toServer' \in Seq(UpPdus)
       /\ \A d, n, length : InOrder(d, n, length, toServer) /\ ~About(d, x) =>
                               InOrder(d, n, length, toServer')
  <2>1. Send(first \o <<x>>)
    BY <1>7 DEF x
  <2>2. QED
    BY <1>0, <1>8, <1>9, <2>1, AnswerSent
<1>11. /\ channel'[c] \in {"absent", "running"} /\ (channel'[c] = "running" <=> ok)
       /\ \A d \in Ids : d # c => channel'[d] = channel[d]
       /\ channel' \in [Ids -> {"absent", "running", "closed", "dropped"}]
  <2>1. CASE ok
    <3>1. channel' = [channel EXCEPT ![c] = "running"]
      BY <1>7, <2>1
    <3>2. QED
      BY <1>0, <2>1, <3>1 DEF TypeInv
  <2>2. CASE ~ok
    <3>1. channel' = channel
      BY <1>7, <2>2
    <3>2. QED
      BY <1>0, <1>5, <2>2, <3>1 DEF TypeInv
  <2>3. QED
    BY <2>1, <2>2
<1>12. TypeInv'
  BY <1>0, <1>1, <1>6, <1>10, <1>11 DEF TypeInv
<1>13. BufferInv'
  BY <1>1, <1>6 DEF IInv, BufferInv
<1>14. DownLive(c)'
  <2>1. DownLive(c) /\ SameDown(c)
    BY <1>1, <1>4, <1>6 DEF IInv, DownInv, SameDown
  <2>2. QED
    BY <1>0, <1>1, <1>3, <2>1, DownLiveTake
<1>15. FirstOf(clientGot'[c], serverSent[c])
  BY <1>6 DEF IInv, DownGotInv
<1>16. Up(c)'
  <2> DEFINE log == <<>>
  <2>0. log \in Logs /\ Len(log) = 0 /\ NextLength(log, 0) = 0
    BY DEF Logs, IsLog, NextLength
  <2>1. SendingInv(c, log)'
    <3>1. Len(clientSent[c]) = 0
      BY <1>5
    <3>2. QED
      BY <1>1, <1>5, <2>0, <3>1 DEF SendingInv, FirstOf
  <2>2. ASSUME connected
        PROVE  UpLive(c, log)'
    <3>1. Given(c)' = <<>> /\ Len(Given(c)') = 0 /\ Len(clientSent[c]) = 0
      <4>1. Pending(c)' = <<>>
        BY <1>1, <1>5 DEF Pending
      <4>2. Given(c)' = <<>> \o <<>>
        BY <1>1, <1>5, <4>1 DEF Given
      <4>3. <<>> \o <<>> = <<>> /\ Len(<<>>) = 0
        OBVIOUS
      <4>4. QED
        BY <1>5, <4>2, <4>3
    <3>2. Range(sending'[c]) = {}
      BY <1>1, <1>5, RangeEmpty
    <3>3. InOrder(c, 0, 0, toServer')
      <4>1. Send(first \o <<x>>)
        BY <1>7 DEF x
      <4>2. QED
        BY <1>0, <1>5, <1>8, <2>2, <4>1, SendAnswer
    <3>4. \A p \in Range(toServer') : ~DataOf(c, p)
      BY <1>3, <1>5, <1>10, <1>x, AboutKinds
    <3>5. Place(c, log, 0, 0, Nothing, Range(toServer') \cup Range(sending'[c]))
      BY <2>0, <3>2, <3>4, PlaceNone
    <3>6. QED
      BY <1>1, <1>5, <2>0, <3>1, <3>2, <3>3, <3>4, <3>5 DEF UpLive, AllBefore
  <2>3. QED
    BY <1>1, <2>0, <2>1, <2>2 DEF Up
<1>17. ASSUME connected
       PROVE  Ends(c)'
  <2>1. /\ Close(c) \notin Range(toServer')
        /\ \A q \in BOOLEAN : Created(c, q) \in Range(toServer') <=> q = ok
        /\ \A p \in Range(toServer') : ~DataOf(c, p) /\ p # Close(c)
    <3>1. Range(toServer') = Range(toServer) \cup X /\ X \subseteq {Caps, x} /\ x \in X
      BY <1>10, <1>17
    <3>2. /\ Close(c) \notin Range(toServer) /\ Close(c) # Caps /\ Close(c) # x
          /\ \A q : Created(c, q) \notin Range(toServer) /\ Created(c, q) # Caps
      BY <1>5, <1>x, AboutKinds, SamePdu
    <3>3. \A p \in Range(toServer') : ~DataOf(c, p)
      BY <1>3, <1>5, <1>x, <3>1, AboutKinds
    <3>4. QED
      BY <1>x, <3>1, <3>2, <3>3
  <2>2. /\ Created(c, TRUE) \in Range(toServer') => channel'[c] = "running"
        /\ Created(c, FALSE) \in Range(toServer') => channel'[c] = "absent"
    BY <1>11, <2>1
  <2>3. dvc'[c] \in {"absent", "none"} /\ clientSent'[c] = <<>>
    BY <1>1, <1>5
  <2>4. \E q \in BOOLEAN : Created(c, q) \in Range(toServer')
    BY <2>1
  <2>5. QED
    BY <2>1, <2>2, <2>3, <2>4 DEF Ends
<1>18. \A d \in Ids : About(d, pdu) =>
          /\ channel'[d] = "running" => DownLive(d)' /\ dvc[d] # "closed"
          /\ FirstOf(clientGot'[d], serverSent[d])
          /\ Up(d)' /\ (connected => Ends(d)')
          /\ (closing[d] = "told" /\ connected /\ channel'[d] = "running") =>
                Close(d) \in Down'
  BY <1>3, <1>5, <1>14, <1>15, <1>16, <1>17
<1>19. \A d \in Ids : ~About(d, pdu) => SameClient(d) /\ \A y \in X : ~About(d, y)
  BY <1>3, <1>6, <1>10, <1>11, <1>x DEF SameClient
<1>20. \A n, length : \A d \in Ids : ~About(d, pdu) /\ InOrder(d, n, length, toServer) =>
                                    InOrder(d, n, length, toServer')
  BY <1>3, <1>10, <1>x
<1>21. QED
  BY <1>10, <1>12, <1>13, <1>18, <1>19, <1>20, ClientStep

LEMMA ClientReceiveStep ==
    ASSUME IInv, ClientReceive
    PROVE  IInv'
BY ClientCapabilitiesStep, ClientCreateStep, ClientIgnoresStep, ClientDataFirstStep, ClientDataStep,
   ClientCloseStep DEF ClientReceive

-----------------------------------------------------------------------------
(* Steps of the plugin's threads *)

\* Another channel than the one the step is about.
LEMMA OtherChannel ==
    ASSUME IInv, NEW c \in Ids, SameUp(c), clientWrites'[c] = clientWrites[c], channel'[c] = channel[c],
           UNCHANGED <<nextId, queue, toClient, dvc, connected>>,
           NEW X, Range(toServer') = Range(toServer) \cup X, \A x \in X : ~About(c, x),
           \A n, length : InOrder(c, n, length, toServer) => InOrder(c, n, length, toServer')
    PROVE  Up(c)' /\ UpGot(c)' /\ (connected => Ends(c)')
<1>0. TypeInv /\ LogInv
  BY DEF IInv
<1>1. PICK log \in Logs :
         /\ SendingInv(c, log)
         /\ connected /\ dvc[c] \in {"none", "succeeded"} => UpLive(c, log)
  BY DEF IInv, UpInv, Up
<1> DEFINE length == NextLength(log, Len(clientSent[c]))
<1>2. SendingInv(c, log)'
  BY <1>1 DEF SendingInv, SameUp
<1>3. ASSUME connected, dvc[c] \in {"none", "succeeded"}
      PROVE  UpLive(c, log)'
  <2>1. UpLive(c, log)
    BY <1>1, <1>3
  <2>2. InOrder(c, Len(clientSent[c]), length, toServer')
    BY <2>1 DEF UpLive
  <2>3. AllBefore(c, Len(clientSent[c]), length, X, Range(sending[c]))
    BY DEF AllBefore
  <2>4. \A x \in X : ~DataOf(c, x)
    BY AboutKinds
  <2>5. QED
    BY <1>0, <1>1, <2>1, <2>2, <2>3, <2>4, UpLiveMore
<1>4. Up(c)'
  BY <1>2, <1>3 DEF Up
<1>5. UpGot(c)'
  BY DEF IInv, UpGotInv, UpGot, Given, Pending, SameUp
<1>6. ASSUME connected
      PROVE  Ends(c)'
  <2>1. Ends(c)
    BY <1>6 DEF IInv, EndsInv
  <2>2. /\ Close(c) \in Range(toServer') <=> Close(c) \in Range(toServer)
        /\ \A ok : Created(c, ok) \in Range(toServer') <=> Created(c, ok) \in Range(toServer)
    BY AboutKinds
  <2>3. \A p \in X : ~DataOf(c, p) /\ p # Close(c)
    BY AboutKinds
  <2>4. Fresh(c)' <=> Fresh(c)
    BY DEF Fresh, Down
  <2>5. QED
    BY <2>1, <2>2, <2>3, <2>4 DEF Ends, SameUp
<1>7. QED
  BY <1>4, <1>5, <1>6

\* A step that takes no PDU and hands out nothing.
LEMMA PluginStep ==
    ASSUME IInv, UNCHANGED <<server, toClient, connected, clientGot>>, TypeInv', BufferInv', LogInv',
           \A c \in Ids : channel'[c] = "running" => channel[c] = "running",
           \A c \in Ids : Fresh(c) \/ channel'[c] = "running" => dvcData'[c] = dvcData[c],
           \A c \in Ids : Fresh(c) => /\ SameUp(c) /\ channel'[c] = channel[c]
                                      /\ clientWrites'[c] = clientWrites[c]
                                      /\ \A p \in Range(toServer') : ~About(c, p),
           \A c \in Ids : Up(c)' /\ UpGot(c)' /\ (connected => Ends(c)')
    PROVE  IInv'
<1>1. UNCHANGED <<nextId, vcmState, queue, queueEvent, dvc, reassembly, readQueue, closing,
                  posting, serverSent, serverGot, connected, toClient, clientGot>>
  BY DEF server, manager, serverChannels, serverUser
<1>2. Down' = Down /\ \A c \in Ids : Fresh(c)' <=> Fresh(c)
  BY <1>1 DEF Fresh, Down
<1>4. OpenedInv'
  BY <1>1, <1>2 DEF IInv, OpenedInv
<1>5. PostingInv'
  BY <1>1, <1>2, PostingFrame DEF IInv
<1>6. FreshInv'
  BY <1>1, <1>2 DEF IInv, FreshInv, SameUp
<1>7. (DownInv /\ DownGotInv)'
  BY <1>1, <1>2, DownFrame DEF IInv
<1>8. (UpInv /\ UpGotInv /\ EndsInv)'
  BY <1>1 DEF UpInv, UpGotInv, EndsInv
<1>9. ClosingInv'
  BY <1>1, <1>2 DEF IInv, ClosingInv
<1>10. QED
  BY <1>4, <1>5, <1>6, <1>7, <1>8, <1>9 DEF IInv

LEMMA ThreadExitStep ==
    ASSUME IInv, ThreadExit
    PROVE  IInv'
<1>1. UNCHANGED <<server, wire, channel, dvcData, sending, clientGot, clientWrites, clientSent,
                  clientState>>
  BY DEF ThreadExit
<1>2. UNCHANGED <<nextId, vcmState, queue, queueEvent, dvc, reassembly, readQueue, closing,
                  posting, serverSent, serverGot, connected, toClient, toServer>>
  BY <1>1 DEF server, wire, manager, serverChannels, serverUser
<1>3. (TypeInv /\ BufferInv /\ LogInv)'
  BY <1>1, <1>2 DEF IInv, TypeInv, BufferInv, LogInv, ThreadExit
<1>4. (UpInv /\ UpGotInv)'
  BY <1>1, <1>2, UpFrame DEF IInv
<1>5. EndsInv'
  <2>1. \A c \in Ids : Fresh(c) => Fresh(c)'
    BY <1>2 DEF Fresh, Down
  <2>2. QED
    BY <1>1, <1>2, <2>1, EndsFrame DEF IInv
<1>6. \A c \in Ids : Up(c)' /\ UpGot(c)' /\ (connected => Ends(c)')
  BY <1>2, <1>4, <1>5 DEF UpInv, UpGotInv, EndsInv
<1>7. \A c \in Ids : Fresh(c) => /\ SameUp(c) /\ channel'[c] = channel[c]
                                 /\ clientWrites'[c] = clientWrites[c]
                                 /\ \A p \in Range(toServer') : ~About(c, p)
  BY <1>1, <1>2 DEF SameUp, IInv, FreshInv
<1>8. QED
  BY <1>1, <1>2, <1>3, <1>6, <1>7, PluginStep

LEMMA OnCloseStep ==
    ASSUME IInv, NEW c \in Ids, OnClose(c)
    PROVE  IInv'
<1>0. TypeInv
  BY DEF IInv
<1>1. /\ channel[c] \in {"closed", "dropped"} /\ sending[c] = <<>>
      /\ UNCHANGED <<server, wire, sending, clientGot, clientWrites, clientSent, clientState>>
  BY DEF OnClose
<1>2. UNCHANGED <<nextId, vcmState, queue, queueEvent, dvc, reassembly, readQueue, closing,
                  posting, serverSent, serverGot, connected, toClient, toServer>>
  BY <1>1 DEF server, wire, manager, serverChannels, serverUser
<1>3. /\ channel'[c] = "absent" /\ dvcData'[c] = Nothing
      /\ \A d \in Ids : d # c => channel'[d] = channel[d] /\ dvcData'[d] = dvcData[d]
      /\ channel' \in [Ids -> {"absent", "running", "closed", "dropped"}] /\ dvcData' \in [Ids -> Buffers]
  BY <1>0, NothingIsBuffer DEF OnClose, TypeInv
<1>4. TypeInv'
  <2>1. thread' \in {"loop", "closing", "quitting", "exited"}
    BY <1>0 DEF OnClose, TypeInv
  <2>2. QED
    BY <1>0, <1>1, <1>2, <1>3, <2>1 DEF TypeInv
<1>5. (BufferInv /\ LogInv)'
  BY <1>1, <1>2, <1>3, NothingIsBuffer DEF IInv, BufferInv, LogInv
<1>6. ~Fresh(c)
  BY <1>1 DEF IInv, FreshInv
<1>7. \A d \in Ids : SameUp(d)
  BY <1>1, <1>2 DEF SameUp
<1>8. Up(c)' /\ UpGot(c)' /\ (connected => Ends(c)')
  <2>1. PICK log \in Logs :
           /\ SendingInv(c, log)
           /\ connected /\ dvc[c] \in {"none", "succeeded"} => UpLive(c, log)
    BY DEF IInv, UpInv, Up
  <2>2. SendingInv(c, log)'
    BY <1>1, <1>3, <2>1, SendingSame
  <2>3. UpLive(c, log) => UpLive(c, log)'
    BY <1>2, <1>3, <1>7, UpLiveSame
  <2>4. Up(c)'
    BY <1>2, <2>1, <2>2, <2>3 DEF Up
  <2>5. UpGot(c)'
    BY <1>1, <1>2, <1>3 DEF IInv, UpGotInv, UpGot, Given, Pending
  <2>6. Fresh(c)' <=> Fresh(c)
    BY <1>2 DEF Fresh, Down
  <2>7. connected => Ends(c)'
    BY <1>1, <1>2, <1>3, <2>6 DEF IInv, EndsInv, Ends
  <2>8. QED
    BY <2>4, <2>5, <2>7
<1>9. /\ Range(toServer') = Range(toServer) \cup {}
      /\ \A n, length : \A d \in Ids : InOrder(d, n, length, toServer) => InOrder(d, n, length, toServer')
  BY <1>2, SendNone
<1>10. PICK X : X = {}
  OBVIOUS
<1>11. ASSUME NEW d \in Ids, d # c
       PROVE  Up(d)' /\ UpGot(d)' /\ (connected => Ends(d)')
  <2>1. SameUp(d) /\ clientWrites'[d] = clientWrites[d] /\ channel'[d] = channel[d]
    BY <1>1, <1>3, <1>7, <1>11
  <2>2. /\ Range(toServer') = Range(toServer) \cup X /\ \A x \in X : ~About(d, x)
        /\ \A n, length : InOrder(d, n, length, toServer) => InOrder(d, n, length, toServer')
    BY <1>9, <1>10
  <2>3. QED
    BY <1>2, <2>1, <2>2, OtherChannel
<1>12. \A d \in Ids : Fresh(d) => /\ SameUp(d) /\ channel'[d] = channel[d]
                                  /\ clientWrites'[d] = clientWrites[d]
                                  /\ \A p \in Range(toServer') : ~About(d, p)
  BY <1>1, <1>2, <1>3, <1>6, <1>7 DEF IInv, FreshInv
<1>13. \A d \in Ids : Fresh(d) \/ channel'[d] = "running" => dvcData'[d] = dvcData[d]
  BY <1>3, <1>6
<1>14. QED
  BY <1>1, <1>2, <1>3, <1>4, <1>5, <1>8, <1>11, <1>12, <1>13, PluginStep

LEMMA ClearNextStep ==
    ASSUME IInv, NEW c \in Ids, ClearNext(c)
    PROVE  IInv'
<1>0. TypeInv /\ Close(c) \in UpPdus
  BY PduTypes DEF IInv
<1>1. /\ channel[c] = "running" /\ Send(<<Close(c)>>)
      /\ channel' = [channel EXCEPT ![c] = "closed"]
      /\ UNCHANGED <<server, toClient, connected, clientState, dvcData, sending, thread, clientGot,
                     clientWrites, clientSent>>
  BY DEF ClearNext
<1>2. UNCHANGED <<nextId, vcmState, queue, queueEvent, dvc, reassembly, readQueue, closing,
                  posting, serverSent, serverGot>>
  BY <1>1 DEF server, manager, serverChannels, serverUser
<1>3. /\ channel'[c] = "closed" /\ \A d \in Ids : d # c => channel'[d] = channel[d]
      /\ channel' \in [Ids -> {"absent", "running", "closed", "dropped"}]
  BY <1>0, <1>1 DEF TypeInv
<1>4. PICK X : X = IF connected THEN {Close(c)} ELSE {}
  OBVIOUS
<1>5. /\ Range(toServer') = Range(toServer) \cup X /\ toServer' \in Seq(UpPdus)
      /\ \A n, length : \A d \in Ids : ~About(d, Close(c)) /\ InOrder(d, n, length, toServer) =>
                                      InOrder(d, n, length, toServer')
  BY <1>0, <1>1, <1>4, SendOne
<1>6. \A d : About(d, Close(c)) <=> d = c
  BY AboutKinds
<1>7. TypeInv'
  BY <1>0, <1>1, <1>2, <1>3, <1>5 DEF TypeInv
<1>8. (BufferInv /\ LogInv)'
  BY <1>1, <1>2 DEF IInv, BufferInv, LogInv
<1>9. ~Fresh(c)
  BY <1>1 DEF IInv, FreshInv
<1>10. \A d \in Ids : SameUp(d) /\ (Fresh(d)' <=> Fresh(d))
  BY <1>1, <1>2 DEF SameUp, Fresh, Down
<1>11. Up(c)' /\ UpGot(c)' /\ (connected => Ends(c)')
  <2>1. SendsClose(c)
    BY <1>1, <1>3 DEF SendsClose, Send
  <2>2. QED
    BY <1>1, <1>2, <1>10, <2>1, CloseSent
<1>12. ASSUME NEW d \in Ids, d # c
       PROVE  Up(d)' /\ UpGot(d)' /\ (connected => Ends(d)')
  <2>1. \A x \in X : ~About(d, x)
    BY <1>4, <1>6, <1>12
  <2>2. \A n, length : InOrder(d, n, length, toServer) => InOrder(d, n, length, toServer')
    BY <1>5, <1>6, <1>12
  <2>3. QED
    BY <1>1, <1>2, <1>3, <1>5, <1>10, <1>12, <2>1, <2>2, OtherChannel
<1>13. \A d \in Ids : Fresh(d) => /\ SameUp(d) /\ channel'[d] = channel[d]
                                  /\ clientWrites'[d] = clientWrites[d]
                                  /\ \A p \in Range(toServer') : ~About(d, p)
  BY <1>1, <1>3, <1>4, <1>5, <1>6, <1>9, <1>10 DEF IInv, FreshInv
<1>14. QED
  BY <1>1, <1>3, <1>7, <1>8, <1>11, <1>12, <1>13, PluginStep

LEMMA DisconnectStep ==
    ASSUME IInv, Disconnect
    PROVE  IInv'
<1>0. TypeInv /\ LogInv
  BY DEF IInv
<1>1. /\ connected' = FALSE /\ toServer' = <<>> /\ toClient' = Append(toClient, Quit)
      /\ UNCHANGED <<server, client>>
  BY DEF Disconnect
<1>2. UNCHANGED <<nextId, vcmState, queue, queueEvent, dvc, reassembly, readQueue, closing,
                  posting, serverSent, serverGot, clientState, channel, dvcData, sending, thread,
                  clientGot, clientWrites, clientSent>>
  BY <1>1 DEF server, client, manager, serverChannels, serverUser
<1>3. Down' = Down \cup {Quit}
  BY <1>0, <1>1, <1>2, DownQuit
<1>4. /\ \A c : Create(c) \in Down' <=> Create(c) \in Down
      /\ \A c : Close(c) \in Down' <=> Close(c) \in Down
      /\ \A c \in Ids : Fresh(c)' <=> Fresh(c)
  BY <1>2, <1>3, SamePdu DEF Fresh
<1>5. TypeInv'
  <2>1. toClient' \in Seq(DownPdus) /\ toServer' \in Seq(UpPdus)
    BY <1>0, <1>1, PduTypes DEF TypeInv
  <2>2. QED
    BY <1>0, <1>1, <1>2, <2>1 DEF TypeInv
<1>6. (BufferInv /\ LogInv)'
  BY <1>2 DEF IInv, BufferInv, LogInv
<1>7. OpenedInv'
  BY <1>2, <1>3, AboutKinds DEF IInv, OpenedInv
<1>8. PostingInv'
  BY <1>2, <1>4, PostingFrame DEF IInv
<1>9. FreshInv'
  BY <1>1, <1>2, <1>4, RangeEmpty DEF IInv, FreshInv
<1>10. (DownInv /\ DownGotInv)'
  <2>1. ASSUME NEW c \in Ids, Fresh(c)' \/ channel'[c] = "running"
        PROVE  DownLive(c)'
    <3>1. DownLive(c) /\ SameDown(c)
      BY <1>2, <1>4, <2>1 DEF IInv, DownInv, SameDown
    <3>2. QED
      BY <1>0, <1>1, <1>2, <3>1, DownLiveQuit
  <2>2. QED
    BY <1>2, <2>1, DownGotFrame DEF IInv, DownInv
<1>11. UpInv'
  <2>1. ASSUME NEW c \in Ids
        PROVE  Up(c)'
    <3>1. PICK log \in Logs : SendingInv(c, log)
      BY DEF IInv, UpInv, Up
    <3>2. SendingInv(c, log)'
      BY <1>1, <1>2, <3>1, SendingSame
    <3>3. QED
      BY <1>1, <3>2 DEF Up
  <2>2. QED
    BY <2>1 DEF UpInv
<1>12. UpGotInv'
  <2>1. \A c \in Ids : channel'[c] = "running" => dvc[c] # "closed"
    BY <1>2 DEF IInv, UpGotInv, UpGot
  <2>2. QED
    BY <1>2, <2>1, UpGotFrame DEF IInv
<1>13. (EndsInv /\ ClosingInv)'
  BY <1>1, <1>2 DEF IInv, EndsInv, ClosingInv
<1>14. QED
  BY <1>5, <1>6, <1>7, <1>8, <1>9, <1>10, <1>11, <1>12, <1>13 DEF IInv

LEMMA ClientQuitStep ==
    ASSUME IInv, ClientQuit
    PROVE  IInv'
<1>0. TypeInv /\ LogInv
  BY DEF IInv
<1>1. /\ toClient # <<>> /\ Head(toClient) = Quit /\ toClient' = Tail(toClient)
      /\ thread' = "quitting"
      /\ UNCHANGED <<server, toServer, connected, clientState, channel, dvcData, sending, clientGot,
                     clientWrites, clientSent>>
  BY DEF ClientQuit
<1>2. UNCHANGED <<nextId, vcmState, queue, queueEvent, dvc, reassembly, readQueue, closing,
                  posting, serverSent, serverGot>>
  BY <1>1 DEF server, manager, serverChannels, serverUser
<1>3. Down = {Quit} \cup Down'
  BY <1>0, <1>1, <1>2, DownTake
<1>4. /\ \A c : Create(c) \in Down' <=> Create(c) \in Down
      /\ \A c : Close(c) \in Down' <=> Close(c) \in Down
      /\ \A c \in Ids : Fresh(c)' <=> Fresh(c)
  BY <1>2, <1>3, SamePdu DEF Fresh
<1>5. TypeInv'
  <2>1. toClient' \in Seq(DownPdus)
    BY <1>0, <1>1, TailFacts DEF TypeInv
  <2>2. QED
    BY <1>0, <1>1, <1>2, <2>1 DEF TypeInv
<1>6. (BufferInv /\ LogInv)'
  BY <1>1, <1>2 DEF IInv, BufferInv, LogInv
<1>7. OpenedInv'
  BY <1>2, <1>3 DEF IInv, OpenedInv
<1>8. (FreshInv /\ PostingInv)'
  BY <1>1, <1>2, <1>4, FreshFrame, PostingFrame DEF IInv, readers
<1>9. (DownInv /\ DownGotInv)'
  <2>1. ASSUME NEW c \in Ids, Fresh(c)' \/ channel'[c] = "running"
        PROVE  DownLive(c)'
    <3>1. DownLive(c) /\ SameDown(c)
      BY <1>1, <1>2, <1>4, <2>1 DEF IInv, DownInv, SameDown
    <3>2. ~DataOf(c, Head(toClient))
      BY <1>1, AboutKinds
    <3>3. QED
      BY <1>0, <1>1, <1>2, <3>1, <3>2, DownLiveTake
  <2>2. QED
    BY <1>1, <1>2, <2>1, DownGotFrame DEF IInv, DownInv
<1>10. (UpInv /\ UpGotInv /\ EndsInv /\ ClosingInv)'
  BY <1>1, <1>2, <1>4, UpFrame, EndsFrame, ClosingFrame DEF IInv
<1>11. QED
  BY <1>5, <1>6, <1>7, <1>8, <1>9, <1>10 DEF IInv

LEMMA StutterStep ==
    ASSUME IInv, UNCHANGED vars
    PROVE  IInv'
<1>1. UNCHANGED <<nextId, vcmState, queue, queueEvent, dvc, reassembly, readQueue, closing,
                  posting, serverSent, serverGot, clientState, channel, dvcData, sending, thread,
                  clientGot, clientWrites, clientSent, toClient, toServer, connected>>
  BY DEF vars, manager, serverChannels, serverUser, client, wire
<1>2. Down' = Down /\ \A c \in Ids : Fresh(c)' <=> Fresh(c)
  BY <1>1 DEF Fresh, Down
<1>3. (TypeInv /\ BufferInv /\ LogInv)'
  BY <1>1 DEF IInv, TypeInv, BufferInv, LogInv
<1>4. (OpenedInv /\ FreshInv /\ PostingInv)'
  BY <1>1, <1>2, FreshFrame, PostingFrame DEF IInv, OpenedInv, readers
<1>5. (DownInv /\ DownGotInv)'
  BY <1>1, DownFrame DEF IInv
<1>6. (UpInv /\ UpGotInv /\ EndsInv /\ ClosingInv)'
  BY <1>1, <1>2, UpFrame, EndsFrame, ClosingFrame DEF IInv
<1>7. QED
  BY <1>3, <1>4, <1>5, <1>6 DEF IInv

-----------------------------------------------------------------------------
(* A plugin writes *)

LEMMA GivenType ==
    ASSUME IInv, NEW c \in Ids
    PROVE  /\ Given(c) \in Seq(Seq(Units)) /\ Len(Given(c)) \in Nat
           /\ Len(Given(c)) <= Len(clientSent[c])
<1>1. readQueue[c] \in Seq(Seq(Units)) /\ serverGot[c] \in Seq(Seq(Units))
  BY DEF IInv, TypeInv
<1>2. Given(c) \in Seq(Seq(Units))
  BY <1>1, PendingType, ConcatFacts DEF Given
<1>3. Len(Given(c)) <= Len(clientSent[c])
  BY DEF IInv, UpGotInv, UpGot, FirstOf
<1>4. QED
  BY <1>2, <1>3

\* Another message is begun: what is under way keeps its order.
LEMMA OrderGrow ==
    ASSUME NEW c \in Ids, NEW log \in Logs, NEW k \in 1 .. MaxLength, NEW last \in Nat,
           last <= Len(log), NEW log2, log2 = Append(log, MessageOf(Len(log) + 1, k)),
           NEW p, NEW q, About(c, p), DataOf(c, p) => Valid(c, log, p),
           Before(last, NextLength(log, last), p, q)
    PROVE  Before(last, NextLength(log2, last), p, q)
<1>1. /\ Len(log) \in Nat /\ Len(log2) = Len(log) + 1
      /\ \A m \in 1 .. Len(log) : log2[m] = log[m]
  BY LogAppend
<1>2. CASE last < Len(log)
  <2>1. last + 1 \in 1 .. Len(log) /\ last < Len(log2)
    BY <1>1, <1>2
  <2>2. NextLength(log2, last) = NextLength(log, last)
    BY <1>1, <1>2, <2>1 DEF NextLength
  <2>3. QED
    BY <2>2
<1>3. CASE last = Len(log)
  <2>1. CASE IsData(p) /\ IsClose(q)
    <3>1. Valid(c, log, p)
      BY <2>1 DEF About, DataOf
    <3>2. p.unit[1] \in 1 .. Len(log)
      BY <3>1, ValidUnit
    <3>3. p.unit[1] <= last + 1 /\ p.unit[1] # last + 1
      BY <1>1, <1>3, <3>2
    <3>4. p.unit # <<last + 1, NextLength(log2, last)>>
      BY <3>3
    <3>5. QED
      BY <2>1, <3>3, <3>4 DEF Before
  <2>2. CASE ~(IsData(p) /\ IsClose(q))
    BY <2>2 DEF Before
  <2>3. QED
    BY <2>1, <2>2
<1>4. QED
  BY <1>1, <1>2, <1>3

LEMMA UpGrow ==
    ASSUME NEW c \in Ids, NEW log \in Logs, NEW k \in 1 .. MaxLength, NEW last \in Nat,
           last <= Len(log), NEW log2, log2 = Append(log, MessageOf(Len(log) + 1, k)),
           NEW S, NEW s \in Seq(S), NEW Q,
           \A p \in Range(s) : DataOf(c, p) => Valid(c, log, p),
           InOrder(c, last, NextLength(log, last), s),
           AllBefore(c, last, NextLength(log, last), Range(s), Q)
    PROVE  /\ InOrder(c, last, NextLength(log2, last), s)
           /\ AllBefore(c, last, NextLength(log2, last), Range(s), Q)
<1>1. ASSUME NEW p \in Range(s), NEW q, About(c, p), Before(last, NextLength(log, last), p, q)
      PROVE  Before(last, NextLength(log2, last), p, q)
  BY <1>1, OrderGrow
<1>2. PICK length, length2 : length = NextLength(log, last) /\ length2 = NextLength(log2, last)
  OBVIOUS
<1>3. \A p \in Range(s) : \A q :
         About(c, p) /\ Before(last, length, p, q) => Before(last, length2, p, q)
  BY <1>1, <1>2
<1>4. InOrder(c, last, length2, s)
  <2>1. \A i \in 1 .. Len(s) : s[i] \in Range(s)
    BY RangeOf
  <2>2. QED
    BY <1>2, <1>3, <2>1 DEF InOrder
<1>5. AllBefore(c, last, length2, Range(s), Q)
  BY <1>2, <1>3 DEF AllBefore
<1>6. QED
  BY <1>2, <1>4, <1>5

\* All fragments of the new message come after what is under way.
LEMMA NewBehind ==
    ASSUME NEW c \in Ids, NEW log \in Logs, NEW length \in 1 .. MaxLength, NEW last \in Nat,
           last <= Len(log), NEW s \in Seq(UpPdus), NEW k, NEW f,
           f = Fragments(c, MessageOf(Len(log) + 1, length)),
           \A p \in Range(s) : DataOf(c, p) => Valid(c, log, p)
    PROVE  AllBefore(c, last, k, Range(s), Range(f))
<1>1. ASSUME NEW p \in Range(s), NEW q \in Range(f), About(c, p)
      PROVE  Before(last, k, p, q)
  <2>1. Len(log) \in Nat /\ Len(log) + 1 \in Nat \ {0}
    BY LogLen
  <2>2. f \in Seq(DataPdus) /\ Len(f) = length
    BY <2>1, FragmentsShape
  <2>3. Rest(f, f)
    BY <2>2 DEF Rest
  <2>4. DataOf(c, q) /\ q.unit[1] = Len(log) + 1
    BY <2>1, <2>2, <2>3, RestFacts
  <2>5. IsData(q) /\ ~IsCreate(q) /\ q.unit[1] > last
    BY <2>1, <2>4 DEF DataOf, IsData, IsCreate
  <2>6. CASE IsData(p)
    <3>1. p.unit[1] \in 1 .. Len(log)
      BY <1>1, <2>6, ValidUnit DEF About, DataOf
    <3>2. p.unit[1] < q.unit[1]
      BY <2>1, <2>4, <3>1
    <3>3. QED
      BY <2>5, <2>6, <3>2 DEF Before, UnitBefore
  <2>7. QED
    BY <1>1, <2>5, <2>6 DEF Before, About
<1>2. QED
  BY <1>1 DEF AllBefore

LEMMA WrittenUp ==
    ASSUME IInv, NEW c \in Ids, NEW length \in 1 .. MaxLength, WriteChannel(c, length)
    PROVE  Up(c)'
<1>0. PICK log \in Logs :
         /\ SendingInv(c, log)
         /\ connected /\ dvc[c] \in {"none", "succeeded"} => UpLive(c, log)
  BY DEF IInv, UpInv, Up
<1> DEFINE f == Fragments(c, MessageOf(Len(log) + 1, length))
<1>1. PICK last, log2 : last = Len(clientSent[c]) /\ log2 = Append(log, MessageOf(Len(log) + 1, length))
  OBVIOUS
<1>2. /\ TypeInv /\ LogInv /\ last \in Nat /\ Len(log) \in Nat /\ last <= Len(log)
      /\ Len(log) = clientWrites[c] /\ Len(log) + 1 \in Nat \ {0}
      /\ \A m \in 1 .. last : log[m] = clientSent[c][m]
  BY <1>0, <1>1, UpLogTypes DEF IInv
<1>3. /\ reassembly[c] \in Buffers /\ toServer \in Seq(UpPdus)
  BY <1>2, LogTypes DEF TypeInv
<1>4. /\ channel[c] # "absent" /\ sending[c] = <<>> /\ UNCHANGED <<server, wire, channel, clientSent>>
      /\ sending' = [sending EXCEPT ![c] = f]
      /\ clientWrites' = [clientWrites EXCEPT ![c] = clientWrites[c] + 1]
  BY <1>2 DEF WriteChannel
<1>5. /\ UNCHANGED <<toServer, connected, dvc, reassembly, readQueue, serverGot>>
      /\ sending'[c] = f /\ clientWrites'[c] = Len(log) + 1
  BY <1>2, <1>4 DEF server, wire, serverChannels, serverUser, TypeInv
<1>6. f \in Seq(DataPdus) /\ Len(f) = length /\ Rest(f, f) /\ f # <<>>
  <2>1. f \in Seq(DataPdus) /\ Len(f) = length
    BY <1>2, FragmentsShape
  <2>2. QED
    BY <2>1 DEF Rest
<1>7. /\ log2 \in Logs /\ Len(log2) = Len(log) + 1 /\ Fragments(c, log2[Len(log) + 1]) = f
      /\ \A m \in 1 .. Len(log) : log2[m] = log[m]
  BY <1>1, LogAppend
<1> HIDE DEF f
<1>8. SendingInv(c, log2)'
  <2>1. FirstOf(clientSent[c], log2)
    BY <1>1, <1>2, <1>7 DEF FirstOf
  <2>2. Len(log) + 1 \in last + 1 .. Len(log2)
    BY <1>2, <1>7
  <2>3. connected /\ channel[c] = "running" => Len(log2) = last + 1
    BY <1>0, <1>1, <1>2, <1>4, <1>7, SendingRuns
  <2>4. clientSent'[c] = clientSent[c] /\ channel'[c] = channel[c] /\ connected' = connected
    BY <1>4, <1>5
  <2>5. \E m \in last + 1 .. Len(log2) : Rest(sending'[c], Fragments(c, log2[m]))
    <3>1. Rest(sending'[c], Fragments(c, log2[Len(log) + 1]))
      BY <1>5, <1>6, <1>7
    <3>2. QED
      BY <2>2, <3>1
  <2>6. /\ Len(log2) = clientWrites'[c] /\ sending'[c] # <<>> /\ channel'[c] # "absent"
        /\ Len(clientSent'[c]) = last /\ FirstOf(clientSent'[c], log2)
        /\ connected' /\ channel'[c] = "running" => Len(log2) = last + 1
    BY <1>1, <1>4, <1>5, <1>6, <1>7, <2>1, <2>3, <2>4
  <2>7. QED
    BY <2>5, <2>6 DEF SendingInv
<1>9. ASSUME connected, dvc[c] \in {"none", "succeeded"}
      PROVE  UpLive(c, log2)'
  <2>1. PICK n, r, left : n = Len(Given(c)) /\ r = reassembly[c] /\ left = Range(toServer)
    OBVIOUS
  <2>2. Range(sending[c]) = {} /\ left \cup {} = left
    BY <1>4, RangeEmpty
  <2>3. /\ InOrder(c, last, NextLength(log, last), toServer)
        /\ Place(c, log, last, n, r, left)
        /\ \A p \in left : DataOf(c, p) /\ p.unit[1] > last + 1 => Close(c) \in left
    BY <1>0, <1>1, <1>9, <2>1, <2>2 DEF UpLive
  <2>4. \A p \in left : DataOf(c, p) => Valid(c, log, p)
    BY <2>3 DEF Place
  <2>5. n \in Nat /\ n <= last /\ r \in Buffers
    BY <1>1, <1>3, <2>1, GivenType
  <2>6. AllBefore(c, last, NextLength(log, last), left, {})
    BY DEF AllBefore
  <2>7. InOrder(c, last, NextLength(log2, last), toServer)
    BY <1>1, <1>2, <1>3, <2>1, <2>3, <2>4, <2>6, UpGrow
  <2>8. AllBefore(c, last, NextLength(log2, last), left, Range(f))
    BY <1>2, <1>3, <2>1, <2>4, NewBehind DEF f
  <2>9. Place(c, log2, last, n, r, left \cup Range(f))
    BY <1>1, <1>2, <2>3, <2>5, PlaceGrow DEF f
  <2>10. Given(c)' = Given(c) /\ clientSent'[c] = clientSent[c]
    BY <1>4, <1>5 DEF Given, Pending
  <2>11. QED
    BY <1>1, <1>5, <2>1, <2>3, <2>7, <2>8, <2>9, <2>10 DEF UpLive
<1>10. QED
  BY <1>5, <1>7, <1>8, <1>9 DEF Up

LEMMA WriteChannelStep ==
    ASSUME IInv, NEW c \in Ids, NEW length \in 1 .. MaxLength, WriteChannel(c, length)
    PROVE  IInv'
<1> DEFINE f == Fragments(c, MessageOf(clientWrites[c] + 1, length))
<1>0. TypeInv
  BY DEF IInv
<1>1. /\ channel[c] # "absent" /\ sending' = [sending EXCEPT ![c] = f]
      /\ clientWrites' = [clientWrites EXCEPT ![c] = clientWrites[c] + 1]
      /\ UNCHANGED <<server, wire, clientState, channel, dvcData, thread, clientGot, clientSent>>
  BY DEF WriteChannel
<1>2. UNCHANGED <<nextId, vcmState, queue, queueEvent, dvc, reassembly, readQueue, closing,
                  posting, serverSent, serverGot, connected, toClient, toServer>>
  BY <1>1 DEF server, wire, manager, serverChannels, serverUser
<1>3. f \in Seq(DataPdus)
  <2>1. clientWrites[c] + 1 \in Nat \ {0}
    BY <1>0 DEF TypeInv
  <2>2. QED
    BY <2>1, FragmentsShape
<1> HIDE DEF f
<1>4. \A d \in Ids : d # c => sending'[d] = sending[d] /\ clientWrites'[d] = clientWrites[d]
  BY <1>0, <1>1 DEF TypeInv
<1>5. TypeInv'
  <2>1. sending' \in [Ids -> Seq(DataPdus)]
    BY <1>0, <1>1, <1>3 DEF TypeInv
  <2>2. clientWrites' \in [Ids -> Nat]
    BY <1>0, <1>1 DEF TypeInv
  <2>3. QED
    BY <1>0, <1>1, <1>2, <2>1, <2>2 DEF TypeInv
<1>6. (BufferInv /\ LogInv)'
  BY <1>1, <1>2 DEF IInv, BufferInv, LogInv
<1>7. Up(c)'
  BY WrittenUp
<1>8. \A d \in Ids : UpGot(d)'
  BY <1>1, <1>2 DEF IInv, UpGotInv, UpGot, Given, Pending
<1>9. EndsInv'
  <2>1. \A d \in Ids : Fresh(d) => Fresh(d)'
    BY <1>2 DEF Fresh, Down
  <2>2. QED
    BY <1>1, <1>2, <2>1, EndsFrame DEF IInv
<1>10. /\ Range(toServer') = Range(toServer) \cup {}
       /\ \A n, k : \A d \in Ids : InOrder(d, n, k, toServer) => InOrder(d, n, k, toServer')
  BY <1>2, SendNone
<1>11. PICK X : X = {}
  OBVIOUS
<1>12. ASSUME NEW d \in Ids, d # c
       PROVE  Up(d)' /\ SameUp(d) /\ clientWrites'[d] = clientWrites[d]
  <2>1. SameUp(d)
    BY <1>1, <1>2, <1>4, <1>12 DEF SameUp
  <2>2. QED
    BY <1>1, <1>2, <1>4, <1>10, <1>11, <1>12, <2>1, OtherChannel
<1>13. \A d \in Ids : Up(d)' /\ UpGot(d)' /\ (connected => Ends(d)')
  BY <1>2, <1>7, <1>8, <1>9, <1>12 DEF EndsInv
<1>14. \A d \in Ids : Fresh(d) => /\ SameUp(d) /\ channel'[d] = channel[d]
                                  /\ clientWrites'[d] = clientWrites[d]
                                  /\ \A p \in Range(toServer') : ~About(d, p)
  <2>1. ~Fresh(c)
    BY <1>1 DEF IInv, FreshInv
  <2>2. QED
    BY <1>1, <1>2, <1>12, <2>1 DEF IInv, FreshInv
<1>15. QED
  BY <1>1, <1>2, <1>5, <1>6, <1>13, <1>14, PluginStep

\* The last fragment of a message goes out: the message counts.
LEMMA LastSent ==
    ASSUME IInv, NEW c \in Ids, NEW log \in Logs, SendingInv(c, log),
           Len(sending[c]) = 1, channel[c] = "running", connected,
           UNCHANGED <<channel, clientWrites, connected, dvc, reassembly, readQueue, serverGot>>,
           sending'[c] = <<>>, toServer' = Append(toServer, Head(sending[c])),
           NEW last, last = Len(clientSent[c]), Len(clientSent'[c]) = last + 1,
           \A m \in 1 .. last + 1 : clientSent'[c][m] = log[m],
           dvc[c] \in {"none", "succeeded"} => UpLive(c, log)
    PROVE  Up(c)' /\ UpGot(c)'
<1> DEFINE x == Head(sending[c])
<1>0. /\ TypeInv /\ LogInv /\ toServer \in Seq(UpPdus) /\ sending[c] \in Seq(DataPdus)
      /\ sending[c] # <<>>
  <2>1. TypeInv /\ LogInv /\ toServer \in Seq(UpPdus) /\ sending[c] \in Seq(DataPdus)
    BY DEF IInv, TypeInv
  <2>2. Len(<<>>) # 1
    OBVIOUS
  <2>3. sending[c] # <<>>
    BY <2>2, Zenon
  <2>4. QED
    BY <2>1, <2>3
<1>1. /\ last \in Nat /\ Len(log) = last + 1 /\ last + 1 \in 1 .. Len(log)
      /\ Piece(c, log, last + 1, Len(log[last + 1])) \in Range(sending[c])
      /\ Len(log) = clientWrites[c] /\ \A m \in 1 .. last : log[m] = clientSent[c][m]
  BY <1>0, SendingRuns, UpLogTypes
<1>2. Range(sending[c]) = {x} /\ x \in UpPdus /\ x \in DataPdus
  <2>1. Tail(sending[c]) = <<>>
    <3>1. PICK t \in Seq(DataPdus) : t = Tail(sending[c])
      BY <1>0, TailFacts
    <3>2. Len(t) = 0
      BY <1>0, <3>1, TailFacts
    <3>3. t = <<>>
      BY <3>2
    <3>4. QED
      BY <3>1, <3>3
  <2>2. Range(sending[c]) = {x} \cup Range(Tail(sending[c]))
    BY <1>0, RangeTail
  <2>3. Range(sending[c]) = {x}
    BY <2>1, <2>2, RangeEmpty
  <2>4. x \in DataPdus
    BY <1>0, TailFacts
  <2>5. QED
    BY <2>3, <2>4, PduTypes
<1>3. Range(toServer') = Range(toServer) \cup {x} /\ toServer' \in Seq(UpPdus)
  BY <1>0, <1>2, UpSend
<1>4. Given(c)' = Given(c)
  BY DEF Given, Pending
<1>5. PICK n, r, left : n = Len(Given(c)) /\ r = reassembly[c] /\ left = Range(toServer')
  OBVIOUS
<1>6. UpGot(c)'
  <2>1. FirstOf(Given(c), clientSent[c]) /\ dvc[c] # "closed"
    BY DEF IInv, UpGotInv, UpGot
  <2>2. PICK g : g = Given(c)
    OBVIOUS
  <2>3. Len(g) \in Nat /\ Len(g) <= last
    BY <2>2, GivenType
  <2>4. FirstOf(g, clientSent'[c])
    <3>1. PICK new : new = clientSent'[c]
      OBVIOUS
    <3>2. Len(g) <= Len(new)
      BY <1>1, <2>3, <3>1
    <3>3. ASSUME NEW k \in 1 .. Len(g)
          PROVE  g[k] = new[k]
      <4>1. k \in 1 .. last /\ k \in 1 .. last + 1
        BY <1>1, <2>3
      <4>2. g[k] = clientSent[c][k]
        BY <2>1, <2>2 DEF FirstOf
      <4>3. QED
        BY <1>1, <3>1, <4>1, <4>2
    <3>4. QED
      BY <3>1, <3>2, <3>3 DEF FirstOf
  <2>5. QED
    BY <1>4, <2>1, <2>2, <2>4 DEF IInv, UpGotInv, UpGot
<1>7. SendingInv(c, log)'
  <2>1. FirstOf(clientSent'[c], log)
    BY <1>1 DEF FirstOf
  <2>2. QED
    BY <1>1, <2>1 DEF SendingInv
<1>8. ASSUME dvc[c] \in {"none", "succeeded"}
      PROVE  UpLive(c, log)'
  <2>1. /\ InOrder(c, last, NextLength(log, last), toServer)
        /\ AllBefore(c, last, NextLength(log, last), Range(toServer), {x})
        /\ Place(c, log, last, n, r, left)
    BY <1>2, <1>3, <1>5, <1>8 DEF UpLive
  <2>2. InOrder(c, last + 1, NextLength(log, last + 1), toServer')
    <3>1. InOrder(c, last, NextLength(log, last), toServer')
      BY <1>0, <1>2, <2>1, OrderAppend
    <3>2. \A p \in Range(toServer') : About(c, p) => ~IsClose(p)
      <4>1. Close(c) \notin Range(toServer)
        BY DEF IInv, EndsInv, Ends
      <4>2. \A p \in Range(toServer) : p \in UpPdus
        BY <1>0, RangeOf
      <4>3. ~IsClose(x)
        BY <1>2, DataPduFields
      <4>4. QED
        BY <1>3, <4>1, <4>2, <4>3, UpPduKinds DEF About
    <3>3. QED
      BY <1>3, <3>1, <3>2, OrderCount
  <2>3. Piece(c, log, last + 1, Len(log[last + 1])) \in left
    BY <1>1, <1>2, <1>3, <1>5
  <2>4. \A p \in left : DataOf(c, p) => p.unit[1] \in 1 .. last + 1
    BY <1>1, <2>1, ValidUnit DEF Place
  <2>5. \A p \in left : DataOf(c, p) => p.unit[1] <= last + 1 /\ ~(p.unit[1] > last + 1 + 1)
    BY <1>1, <2>4
  <2>6. last + 1 <= Len(log)
    BY <1>1
  <2>7. Place(c, log, last + 1, n, r, left)
    BY <1>1, <2>1, <2>3, <2>5, <2>6, PlaceMore
  <2>8. Range(sending'[c]) = {} /\ left \cup {} = left
    BY RangeEmpty
  <2>9. AllBefore(c, last + 1, NextLength(log, last + 1), left, {})
    BY DEF AllBefore
  <2>10. QED
    BY <1>4, <1>5, <2>2, <2>5, <2>7, <2>8, <2>9 DEF UpLive
<1>9. QED
  BY <1>6, <1>7, <1>8 DEF Up

\* Another fragment goes out.
LEMMA FragmentSent ==
    ASSUME IInv, NEW c \in Ids, NEW log \in Logs, SendingInv(c, log), connected,
           dvc[c] \in {"none", "succeeded"}, UpLive(c, log), sending[c] # <<>>,
           sending'[c] = Tail(sending[c]), toServer' = Append(toServer, Head(sending[c])),
           UNCHANGED <<reassembly, readQueue, serverGot, clientSent>>
    PROVE  UpLive(c, log)'
<1> DEFINE x == Head(sending[c])
           t == Tail(sending[c])
<1>0. PICK last, length : last = Len(clientSent[c]) /\ length = NextLength(log, last)
  OBVIOUS
<1>1. /\ TypeInv /\ LogInv /\ last \in Nat /\ Len(log) \in Nat /\ toServer \in Seq(UpPdus)
      /\ sending[c] \in Seq(DataPdus)
  BY <1>0, UpLogTypes DEF IInv, TypeInv
<1>2. PICK m \in last + 1 .. Len(log) : Rest(sending[c], Fragments(c, log[m]))
  BY <1>0 DEF SendingInv
<1>3. /\ m \in 1 .. Len(log) /\ m \in Nat \ {0} /\ Len(log[m]) \in 1 .. MaxLength
      /\ Rest(sending[c], Fragments(c, MessageOf(m, Len(log[m]))))
  <2>1. m \in 1 .. Len(log)
    BY <1>1, <1>2
  <2>2. QED
    BY <1>2, <2>1, LogEntry
<1>4. /\ Range(sending[c]) = {x} \cup Range(t) /\ x \in UpPdus
      /\ Range(toServer') = Range(toServer) \cup {x}
  <2>1. Range(sending[c]) = {x} \cup Range(t) /\ x \in UpPdus
    BY <1>1, RangeTail, TailFacts, PduTypes
  <2>2. QED
    BY <1>1, <2>1, UpSend
<1>5. AllBefore(c, last, length, {x}, Range(t)) /\ x.unit[1] = m
  <2>1. PICK k \in 1 .. MaxLength : k = Len(log[m])
    BY <1>3
  <2>2. Rest(sending[c], Fragments(c, MessageOf(m, k)))
    BY <1>3, <2>1
  <2>3. AllBefore(c, last, length, {x}, Range(t))
    BY <1>1, <1>3, <2>2, RestTail
  <2>4. x.unit[1] = m
    BY <1>1, <1>3, <1>4, <2>2, RestFacts
  <2>5. QED
    BY <2>3, <2>4
<1>6. ASSUME m > last + 1
      PROVE  Close(c) \in Range(toServer)
  <2>1. channel[c] # "running" /\ channel[c] # "absent" /\ ~Fresh(c)
    <3>1. ASSUME channel[c] = "running"
          PROVE  FALSE
      <4>1. Len(log) = last + 1
        BY <1>0, <1>1, <3>1, SendingRuns
      <4>2. QED
        BY <1>1, <1>2, <1>6, <4>1
    <3>2. QED
      BY <3>1 DEF SendingInv, IInv, FreshInv
  <2>2. QED
    BY <2>1 DEF IInv, EndsInv, Ends
<1> HIDE DEF x, t
<1>7. /\ InOrder(c, last, length, toServer)
      /\ AllBefore(c, last, length, Range(toServer), Range(sending[c]))
      /\ \A p \in Range(toServer) :
            DataOf(c, p) /\ p.unit[1] > last + 1 => Close(c) \in Range(toServer)
  BY <1>0 DEF UpLive
<1>8. InOrder(c, last, length, toServer')
  <2>1. AllBefore(c, last, length, Range(toServer), {x})
    BY <1>4, <1>7 DEF AllBefore
  <2>2. QED
    BY <1>1, <1>4, <1>7, <2>1, OrderAppend DEF x
<1>9. AllBefore(c, last, length, Range(toServer'), Range(t))
  BY <1>4, <1>5, <1>7 DEF AllBefore
<1>10. Range(toServer') \cup Range(t) = Range(toServer) \cup Range(sending[c])
  BY <1>4
<1>11. sending'[c] = t /\ Given(c)' = Given(c) /\ Len(clientSent'[c]) = last
  BY <1>0 DEF t, Given, Pending
<1>12. Place(c, log, last, Len(Given(c)), reassembly[c], Range(toServer') \cup Range(t))
  BY <1>0, <1>10 DEF UpLive
<1>13. \A p \in Range(toServer') :
          DataOf(c, p) /\ p.unit[1] > last + 1 => Close(c) \in Range(toServer')
  BY <1>4, <1>5, <1>6, <1>7
<1>14. QED
  BY <1>0, <1>8, <1>9, <1>11, <1>12, <1>13 DEF UpLive

LEMMA WriteSendStep ==
    ASSUME IInv, NEW c \in Ids, WriteSend(c)
    PROVE  IInv'
<1> DEFINE x == Head(sending[c])
           finished == Len(sending[c]) = 1 /\ channel[c] = "running" /\ connected
<1>0. TypeInv /\ LogInv /\ sending[c] \in Seq(DataPdus) /\ toServer \in Seq(UpPdus)
  BY DEF IInv, TypeInv
<1>1. /\ sending[c] # <<>> /\ Send(<<x>>) /\ sending' = [sending EXCEPT ![c] = Tail(sending[c])]
      /\ UNCHANGED <<server, toClient, connected, clientState, channel, dvcData, thread, clientGot,
                     clientWrites>>
  BY DEF WriteSend
<1>2. UNCHANGED <<nextId, vcmState, queue, queueEvent, dvc, reassembly, readQueue, closing,
                  posting, serverSent, serverGot>>
  BY <1>1 DEF server, manager, serverChannels, serverUser
<1>3. PICK log \in Logs :
         /\ SendingInv(c, log)
         /\ connected /\ dvc[c] \in {"none", "succeeded"} => UpLive(c, log)
  BY DEF IInv, UpInv, Up
<1>4. PICK last : last = Len(clientSent[c])
  OBVIOUS
<1>5. /\ last \in Nat /\ Len(log) \in Nat /\ last <= Len(log)
       /\ \A k \in 1 .. last : log[k] = clientSent[c][k]
  BY <1>0, <1>3, <1>4, UpLogTypes
<1>6. PICK m \in last + 1 .. Len(log) : Rest(sending[c], Fragments(c, log[m]))
  BY <1>1, <1>3, <1>4 DEF SendingInv
<1>7. PICK length : length = Len(log[m])
  OBVIOUS
<1>8. /\ m \in 1 .. Len(log) /\ m \in Nat \ {0} /\ length \in 1 .. MaxLength
       /\ Rest(sending[c], Fragments(c, MessageOf(m, length))) /\ log[m] = MessageOf(m, length)
  <2>1. m \in 1 .. Len(log)
    BY <1>5, <1>6
  <2>2. QED
    BY <1>6, <1>7, <2>1, LogEntry
<1>9. /\ x \in DataPdus /\ x \in UpPdus /\ DataOf(c, x) /\ Tail(sending[c]) \in Seq(DataPdus)
      /\ \A d : About(d, x) <=> d = c
  <2>1. x \in Range(sending[c]) /\ x \in DataPdus /\ Tail(sending[c]) \in Seq(DataPdus)
    BY <1>0, <1>1, RangeTail, TailFacts
  <2>2. DataOf(c, x)
    BY <1>0, <1>8, <2>1, RestFacts
  <2>3. \A d : About(d, x) <=> d = c
    BY <2>1, <2>2, DataPduFields DEF DataOf
  <2>4. QED
    BY <2>1, <2>2, <2>3, PduTypes
<1>10. /\ sending'[c] = Tail(sending[c]) /\ \A d \in Ids : d # c => sending'[d] = sending[d]
      /\ sending' \in [Ids -> Seq(DataPdus)]
  BY <1>0, <1>1, <1>9 DEF TypeInv
<1>11. PICK X : X = IF connected THEN {x} ELSE {}
  OBVIOUS
<1>12. /\ Range(toServer') = Range(toServer) \cup X /\ toServer' \in Seq(UpPdus)
      /\ \A n, k : \A d \in Ids : ~About(d, x) /\ InOrder(d, n, k, toServer) => InOrder(d, n, k, toServer')
  BY <1>0, <1>1, <1>9, <1>11, SendOne
<1>13. connected => toServer' = Append(toServer, x)
  BY <1>0, <1>1, OneMore DEF Send
<1>14. channel[c] # "absent" /\ ~Fresh(c)
  BY <1>1, <1>3 DEF SendingInv, IInv, FreshInv
<1>15. /\ finished => /\ clientSent' = [clientSent EXCEPT ![c] =
                                            Append(clientSent[c], MessageOf(last + 1, length))]
                      /\ m = last + 1
       /\ ~finished => clientSent' = clientSent
  <2>1. ASSUME finished
        PROVE  /\ clientSent' = [clientSent EXCEPT ![c] =
                                    Append(clientSent[c], MessageOf(last + 1, length))]
               /\ m = last + 1
    <3>1. m = last + 1
      <4>1. Len(log) = last + 1
        BY <1>0, <1>1, <1>3, <1>4, <2>1, SendingRuns
      <4>2. QED
        BY <1>5, <1>6, <4>1
    <3>2. x.unit = <<m, length>>
      BY <1>0, <1>1, <1>8, <2>1, RestTail
    <3>3. MessageOf(x.unit[1], x.unit[2]) = MessageOf(last + 1, length)
      BY <3>1, <3>2
    <3>4. clientSent' = [clientSent EXCEPT ![c] =
                            Append(clientSent[c], MessageOf(x.unit[1], x.unit[2]))]
      BY <2>1 DEF WriteSend
    <3>5. QED
      BY <3>1, <3>3, <3>4
  <2>2. ~finished => clientSent' = clientSent
    BY DEF WriteSend
  <2>3. QED
    BY <2>1, <2>2
<1> HIDE DEF x
<1>16. /\ clientSent' \in [Ids -> Seq(Seq(Units))] /\ IsLog(clientSent'[c])
       /\ \A d \in Ids : d # c => clientSent'[d] = clientSent[d]
       /\ finished => /\ Len(clientSent'[c]) = last + 1
                      /\ \A k \in 1 .. last + 1 : clientSent'[c][k] = log[k]
  <2>1. PICK old, new : /\ old \in Logs
                        /\ old = clientSent[c]
                        /\ new = Append(old, MessageOf(Len(old) + 1, length))
    BY <1>0, LogTypes
  <2>2. /\ new \in Seq(Seq(Units)) /\ IsLog(new) /\ Len(new) = last + 1
        /\ new[last + 1] = MessageOf(last + 1, length) /\ \A k \in 1 .. last : new[k] = old[k]
    BY <1>4, <1>8, <2>1, LogAppend DEF Logs
  <2>3. finished => clientSent' = [clientSent EXCEPT ![c] = new]
    BY <1>15, <1>4, <2>1
  <2>4. finished => \A k \in 1 .. last + 1 : new[k] = log[k]
    <3>1. ASSUME finished, NEW k \in 1 .. last + 1
          PROVE  new[k] = log[k]
      <4>1. CASE k = last + 1
        BY <1>15, <1>8, <2>2, <3>1, <4>1
      <4>2. CASE k # last + 1
        <5>1. k \in 1 .. last
          BY <1>5, <3>1, <4>2
        <5>2. QED
          BY <1>5, <2>1, <2>2, <5>1
      <4>3. QED
        BY <4>1, <4>2
    <3>2. QED
      BY <3>1
  <2>5. clientSent \in [Ids -> Seq(Seq(Units))] /\ IsLog(clientSent[c])
    BY <1>0 DEF TypeInv, LogInv
  <2>6. CASE finished
    BY <2>2, <2>3, <2>4, <2>5, <2>6
  <2>7. CASE ~finished
    BY <1>15, <2>5, <2>7
  <2>8. QED
    BY <2>6, <2>7
<1>17. TypeInv'
  BY <1>0, <1>1, <1>2, <1>10, <1>12, <1>16 DEF TypeInv
<1>18. BufferInv'
  BY <1>1, <1>2 DEF IInv, BufferInv
<1>19. LogInv'
  BY <1>2, <1>16 DEF IInv, LogInv
<1>20. Up(c)' /\ UpGot(c)'
  <2>1. CASE finished
    <3>1. sending'[c] = <<>>
      <4>1. Len(Tail(sending[c])) = 0
        BY <1>0, <1>1, <2>1, TailFacts
      <4>2. QED
        BY <1>9, <1>10, <4>1
    <3>2. toServer' = Append(toServer, Head(sending[c]))
      BY <1>13, <2>1 DEF x
    <3>3. QED
      BY <1>1, <1>2, <1>3, <1>16, <1>4, <2>1, <3>1, <3>2, LastSent
  <2>2. CASE ~finished
    <3>1. clientSent' = clientSent
      BY <1>15, <2>2
    <3>2. SendingInv(c, log)'
      <4>1. Rest(Tail(sending[c]), Fragments(c, log[m]))
        BY <1>0, <1>1, <1>8, RestTail
      <4>2. ASSUME connected, channel[c] = "running"
            PROVE  Tail(sending[c]) # <<>> /\ Len(log) = last + 1
        <5>1. Len(sending[c]) # 1
          BY <2>2, <4>2
        <5>2. Len(Tail(sending[c])) = Len(sending[c]) - 1 /\ Len(sending[c]) \in Nat
          BY <1>0, <1>1, TailFacts
        <5>3. Len(Tail(sending[c])) # 0 /\ Len(<<>>) = 0
          BY <5>1, <5>2
        <5>4. Tail(sending[c]) # <<>>
          BY <5>3, Zenon
        <5>5. QED
          BY <1>0, <1>1, <1>3, <1>4, <4>2, <5>4, SendingRuns
      <4>3. /\ sending'[c] = Tail(sending[c]) /\ channel'[c] = channel[c] /\ connected' = connected
            /\ clientSent'[c] = clientSent[c] /\ clientWrites'[c] = clientWrites[c]
        BY <1>1, <1>10, <3>1
      <4>4. Len(log) = clientWrites[c] /\ FirstOf(clientSent[c], log)
        BY <1>3 DEF SendingInv
      <4>5. QED
        BY <1>14, <1>4, <1>6, <4>1, <4>2, <4>3, <4>4 DEF SendingInv
    <3>3. ASSUME connected, dvc[c] \in {"none", "succeeded"}
          PROVE  UpLive(c, log)'
      <4>1. toServer' = Append(toServer, Head(sending[c]))
        BY <1>13, <3>3 DEF x
      <4>2. QED
        BY <1>1, <1>2, <1>3, <1>10, <3>1, <3>3, <4>1, FragmentSent
    <3>4. UpGot(c)'
      BY <1>1, <1>2, <3>1 DEF IInv, UpGotInv, UpGot, Given, Pending
    <3>5. QED
      BY <1>1, <1>2, <3>2, <3>3, <3>4 DEF Up
  <2>3. QED
    BY <2>1, <2>2
<1>21. ASSUME connected
       PROVE  Ends(c)'
  <2>1. Ends(c)
    BY <1>21 DEF IInv, EndsInv
  <2>2. Fresh(c)' <=> Fresh(c)
    BY <1>1, <1>2 DEF Fresh, Down
  <2>3. /\ Close(c) \in Range(toServer') <=> Close(c) \in Range(toServer)
        /\ \A ok : Created(c, ok) \in Range(toServer') <=> Created(c, ok) \in Range(toServer)
    BY <1>9, <1>11, <1>12, DataPduFields
  <2>4. Created(c, FALSE) \notin Range(toServer) /\ dvc[c] # "failed"
    BY <1>14, <2>1 DEF Ends
  <2>5. QED
    BY <1>1, <1>2, <2>1, <2>2, <2>3, <2>4 DEF Ends
<1>22. ASSUME NEW d \in Ids, d # c
       PROVE  /\ Up(d)' /\ UpGot(d)' /\ (connected => Ends(d)') /\ SameUp(d)
              /\ \A y \in X : ~About(d, y)
  <2>1. SameUp(d)
    BY <1>1, <1>2, <1>10, <1>16, <1>22 DEF SameUp
  <2>2. \A y \in X : ~About(d, y)
    BY <1>9, <1>11, <1>22
  <2>3. \A n, k : InOrder(d, n, k, toServer) => InOrder(d, n, k, toServer')
    BY <1>9, <1>12, <1>22
  <2>4. QED
    BY <1>1, <1>2, <1>12, <1>22, <2>1, <2>2, <2>3, OtherChannel
<1>23. \A d \in Ids : Fresh(d) => /\ SameUp(d) /\ channel'[d] = channel[d]
                                  /\ clientWrites'[d] = clientWrites[d]
                                  /\ \A p \in Range(toServer') : ~About(d, p)
  BY <1>1, <1>12, <1>14, <1>22 DEF IInv, FreshInv
<1>24. QED
  BY <1>1, <1>17, <1>18, <1>19, <1>20, <1>21, <1>22, <1>23, PluginStep

\* The writer closes the channel: it counts as a message of which nothing is sent.
LEMMA DroppedUp ==
    ASSUME IInv, NEW c \in Ids, SendsClose(c), SameUp(c), connected' = connected, dvc'[c] = dvc[c],
           Fresh(c)' <=> Fresh(c), clientWrites'[c] = clientWrites[c] + 1, TypeInv'
    PROVE  Up(c)'
<1>1. PICK log \in Logs :
         /\ SendingInv(c, log)
         /\ connected /\ dvc[c] \in {"none", "succeeded"} => UpLive(c, log)'
  BY CloseSent
<1>2. PICK last, log2 : last = Len(clientSent[c]) /\ log2 = Append(log, MessageOf(Len(log) + 1, 1))
  OBVIOUS
<1>3. /\ TypeInv /\ LogInv /\ last \in Nat /\ Len(log) \in Nat /\ last <= Len(log)
      /\ Len(log) = clientWrites[c] /\ \A m \in 1 .. last : log[m] = clientSent[c][m]
  BY <1>1, <1>2, UpLogTypes DEF IInv
<1>4. 1 \in 1 .. MaxLength
  BY DvcBounds
<1>5. /\ log2 \in Logs /\ Len(log2) = Len(log) + 1 /\ \A m \in 1 .. Len(log) : log2[m] = log[m]
  BY <1>2, <1>4, LogAppend
<1>6. /\ sending'[c] = sending[c] /\ Len(clientSent'[c]) = last /\ clientSent'[c] = clientSent[c]
      /\ channel'[c] \notin {"running", "absent"}
  BY <1>2 DEF SameUp, SendsClose
<1>7. SendingInv(c, log2)'
  <2>1. FirstOf(clientSent[c], log2)
    BY <1>2, <1>3, <1>5 DEF FirstOf
  <2>2. ASSUME sending[c] # <<>>
        PROVE  \E m \in last + 1 .. Len(log2) : Rest(sending[c], Fragments(c, log2[m]))
    <3>1. PICK m \in last + 1 .. Len(log) : Rest(sending[c], Fragments(c, log[m]))
      BY <1>1, <1>2, <2>2 DEF SendingInv
    <3>2. m \in last + 1 .. Len(log2) /\ log2[m] = log[m]
      BY <1>3, <1>5, <3>1
    <3>3. QED
      BY <3>1, <3>2
  <2>3. Len(log2) = clientWrites'[c]
    BY <1>3, <1>5
  <2>4. QED
    BY <1>6, <2>1, <2>2, <2>3 DEF SendingInv
<1>8. ASSUME connected, dvc[c] \in {"none", "succeeded"}
      PROVE  UpLive(c, log2)'
  <2>0. PICK s \in Seq(UpPdus) : s = toServer'
    BY DEF TypeInv
  <2>1. PICK n, r, q : /\ n = Len(Given(c)') /\ r = reassembly'[c] /\ q = Range(sending'[c])
    OBVIOUS
  <2>2. /\ InOrder(c, last, NextLength(log, last), s)
        /\ AllBefore(c, last, NextLength(log, last), Range(s), q)
        /\ Place(c, log, last, n, r, Range(s) \cup q)
        /\ \A p \in Range(s) : DataOf(c, p) /\ p.unit[1] > last + 1 => Close(c) \in Range(s)
    BY <1>1, <1>6, <1>8, <2>0, <2>1 DEF UpLive
  <2>3. n \in Nat /\ n <= last /\ r \in Buffers
    <3>1. Given(c)' = Given(c) /\ reassembly'[c] = reassembly[c]
      BY DEF SameUp, Given, Pending
    <3>2. QED
      BY <1>2, <1>3, <2>1, <3>1, GivenType, LogTypes
  <2>4. \A p \in Range(s) : DataOf(c, p) => Valid(c, log, p)
    BY <2>2 DEF Place
  <2>5. /\ InOrder(c, last, NextLength(log2, last), s)
        /\ AllBefore(c, last, NextLength(log2, last), Range(s), q)
    BY <1>2, <1>3, <1>4, <2>2, <2>4, UpGrow
  <2>6. PICK left, none : left = Range(s) \cup q /\ none = {}
    OBVIOUS
  <2>7. Place(c, log, last, n, r, left)
    BY <2>2, <2>6
  <2>8. Place(c, log2, last, n, r, left \cup none)
    <3>1. PICK k \in 1 .. MaxLength : log2 = Append(log, MessageOf(Len(log) + 1, k))
      BY <1>2, <1>4
    <3>2. none = {} \/ none = Range(Fragments(c, MessageOf(Len(log) + 1, k)))
      BY <2>6
    <3>3. QED
      BY <1>3, <2>3, <2>7, <3>1, <3>2, PlaceGrow
  <2>9. left \cup none = Range(s) \cup q
    BY <2>6
  <2>10. Place(c, log2, last, n, r, Range(s) \cup q)
    BY <2>8, <2>9
  <2>11. QED
    BY <1>6, <2>0, <2>1, <2>2, <2>5, <2>10 DEF UpLive
<1>9. QED
  BY <1>5, <1>7, <1>8 DEF Up

LEMMA WriteNothingStep ==
    ASSUME IInv, NEW c \in Ids, WriteNothing(c)
    PROVE  IInv'
<1>0. TypeInv /\ Close(c) \in UpPdus
  BY PduTypes DEF IInv
<1>1. /\ channel[c] = "running" /\ Send(<<Close(c)>>)
      /\ channel' = [channel EXCEPT ![c] = "dropped"]
      /\ clientWrites' = [clientWrites EXCEPT ![c] = clientWrites[c] + 1]
      /\ UNCHANGED <<server, toClient, connected, clientState, dvcData, sending, thread, clientGot,
                     clientSent>>
  BY DEF WriteNothing
<1>2. UNCHANGED <<nextId, vcmState, queue, queueEvent, dvc, reassembly, readQueue, closing,
                  posting, serverSent, serverGot>>
  BY <1>1 DEF server, manager, serverChannels, serverUser
<1>3. /\ channel'[c] = "dropped" /\ \A d \in Ids : d # c => channel'[d] = channel[d]
      /\ channel' \in [Ids -> {"absent", "running", "closed", "dropped"}]
      /\ clientWrites'[c] = clientWrites[c] + 1
      /\ \A d \in Ids : d # c => clientWrites'[d] = clientWrites[d]
      /\ clientWrites' \in [Ids -> Nat]
  BY <1>0, <1>1 DEF TypeInv
<1>4. PICK X : X = IF connected THEN {Close(c)} ELSE {}
  OBVIOUS
<1>5. /\ Range(toServer') = Range(toServer) \cup X /\ toServer' \in Seq(UpPdus)
      /\ \A n, length : \A d \in Ids : ~About(d, Close(c)) /\ InOrder(d, n, length, toServer) =>
                                      InOrder(d, n, length, toServer')
  BY <1>0, <1>1, <1>4, SendOne
<1>6. \A d : About(d, Close(c)) <=> d = c
  BY AboutKinds
<1>7. TypeInv'
  BY <1>0, <1>1, <1>2, <1>3, <1>5 DEF TypeInv
<1>8. (BufferInv /\ LogInv)'
  BY <1>1, <1>2 DEF IInv, BufferInv, LogInv
<1>9. ~Fresh(c)
  BY <1>1 DEF IInv, FreshInv
<1>10. \A d \in Ids : SameUp(d) /\ (Fresh(d)' <=> Fresh(d))
  BY <1>1, <1>2 DEF SameUp, Fresh, Down
<1>11. Up(c)' /\ UpGot(c)' /\ (connected => Ends(c)')
  <2>1. SendsClose(c)
    BY <1>1, <1>3 DEF SendsClose, Send
  <2>2. Up(c)'
    BY <1>1, <1>2, <1>3, <1>7, <1>10, <2>1, DroppedUp
  <2>3. UpGot(c)' /\ (connected => Ends(c)')
    BY <1>1, <1>2, <1>10, <2>1, CloseSent
  <2>4. QED
    BY <2>2, <2>3
<1>12. ASSUME NEW d \in Ids, d # c
       PROVE  Up(d)' /\ UpGot(d)' /\ (connected => Ends(d)')
  <2>1. \A x \in X : ~About(d, x)
    BY <1>4, <1>6, <1>12
  <2>2. \A n, length : InOrder(d, n, length, toServer) => InOrder(d, n, length, toServer')
    BY <1>5, <1>6, <1>12
  <2>3. QED
    BY <1>1, <1>2, <1>3, <1>5, <1>10, <1>12, <2>1, <2>2, OtherChannel
<1>13. \A d \in Ids : Fresh(d) => /\ SameUp(d) /\ channel'[d] = channel[d]
                                  /\ clientWrites'[d] = clientWrites[d]
                                  /\ \A p \in Range(toServer') : ~About(d, p)
  BY <1>1, <1>3, <1>4, <1>5, <1>6, <1>9, <1>10 DEF IInv, FreshInv
<1>14. QED
  BY <1>1, <1>3, <1>7, <1>8, <1>11, <1>12, <1>13, PluginStep

-----------------------------------------------------------------------------
(* Every step, and what the invariant says *)

LEMMA NextStep ==
    ASSUME IInv, [Next]_vars
    PROVE  IInv'
<1>1. CASE System
  <2>1. CASE \E c \in Ids : \/ WritePost(c) \/ VirtualChannelRead(c) \/ CloseWrite(c)
                            \/ CloseRemove(c) \/ OnClose(c) \/ WriteSend(c) \/ ClearNext(c)
    BY <2>1, WritePostStep, VirtualChannelReadStep, CloseWriteStep, CloseRemoveStep, OnCloseStep,
       WriteSendStep, ClearNextStep
  <2>2. QED
    BY <1>1, <2>1, ManagerOpenStep, CheckFileDescriptorStep, ServerReceiveStep, ClientReceiveStep,
       ClientQuitStep, ThreadExitStep DEF System
<1>2. CASE User
  BY <1>2, VirtualChannelOpenExStep, DisconnectStep, VirtualChannelCloseStep, VirtualChannelWriteStep,
     WriteChannelStep, WriteNothingStep DEF User
<1>3. CASE UNCHANGED vars
  BY <1>3, StutterStep
<1>4. QED
  BY <1>1, <1>2, <1>3 DEF Next

\* In every state of every execution the queues of both directions keep the order of a channel's
\* PDUs, and hold what its reader has not seen of the messages that were written.
LEMMA Inductive == Spec => []IInv
<1>1. Init => IInv
  BY InitStep
<1>2. IInv /\ [Next]_vars => IInv'
  BY NextStep
<1>3. QED
  BY <1>1, <1>2, PTL DEF Spec

LEMMA FirstIsPrefix ==
    ASSUME NEW S, NEW s \in Seq(S), NEW t \in Seq(S), FirstOf(s, t)
    PROVE  IsPrefix(s, t)
<1>1. Len(s) \in Nat /\ Len(t) \in Nat /\ Len(s) <= Len(t)
  BY DEF FirstOf
<1>2. \A i \in 1 .. Len(s) : s[i] \in S /\ t[i] \in S /\ s[i] = t[i]
  BY <1>1 DEF FirstOf
<1>3. PICK k \in Nat : k = Len(s)
  BY <1>1
<1> DEFINE a == SubSeq(s, 1, k)
           b == SubSeq(t, 1, k)
<1>4. /\ a \in Seq(S) /\ Len(a) = IF 1 <= k THEN k - 1 + 1 ELSE 0
      /\ \A i \in 1 .. k - 1 + 1 : a[i] = s[1 + i - 1]
  BY <1>2, <1>3, SubSeqProperties
<1>5. /\ b \in Seq(S) /\ Len(b) = IF 1 <= k THEN k - 1 + 1 ELSE 0
      /\ \A i \in 1 .. k - 1 + 1 : b[i] = t[1 + i - 1]
  BY <1>2, <1>3, SubSeqProperties
<1> HIDE DEF a, b
<1>6. Len(a) = k /\ Len(b) = k /\ \A i \in 1 .. k : a[i] = b[i]
  BY <1>2, <1>3, <1>4, <1>5
<1>7. a = b
  BY <1>4, <1>5, <1>6, SameSeq
<1>8. QED
  BY <1>1, <1>3, <1>7 DEF IsPrefix, a, b

LEMMA OrderHolds ==
    ASSUME IInv
    PROVE  ReceivedInOrder
<1>1. ASSUME NEW c \in Ids
      PROVE  /\ clientGot[c] \in Seq(Seq(Units)) /\ serverSent[c] \in Seq(Seq(Units))
             /\ clientSent[c] \in Seq(Seq(Units)) /\ readQueue[c] \in Seq(Seq(Units))
             /\ Given(c) \in Seq(Seq(Units)) /\ Given(c) = serverGot[c] \o Pending(c)
             /\ FirstOf(clientGot[c], serverSent[c]) /\ FirstOf(Given(c), clientSent[c])
  <2>1. /\ clientGot[c] \in Seq(Seq(Units)) /\ serverSent[c] \in Seq(Seq(Units))
        /\ clientSent[c] \in Seq(Seq(Units)) /\ readQueue[c] \in Seq(Seq(Units))
    BY DEF IInv, TypeInv
  <2>2. Given(c) \in Seq(Seq(Units)) /\ Given(c) = serverGot[c] \o Pending(c)
    BY GivenType DEF Given
  <2>3. FirstOf(clientGot[c], serverSent[c]) /\ FirstOf(Given(c), clientSent[c])
    BY DEF IInv, DownGotInv, UpGotInv, UpGot
  <2>4. QED
    BY <2>1, <2>2, <2>3
<1>2. ClientReceivesInOrder
  BY <1>1, FirstIsPrefix DEF ClientReceivesInOrder
<1>3. ServerReadsInOrder
  BY <1>1, FirstIsPrefix DEF ServerReadsInOrder
<1>4. ASSUME NEW c \in Ids, EndOfData \in Range(readQueue[c])
      PROVE  Last(readQueue[c]) = EndOfData /\ serverGot[c] \o Pending(c) = clientSent[c]
  <2>1. PICK j \in 1 .. Len(readQueue[c]) : readQueue[c][j] = EndOfData
    <3>1. PICK q \in Seq(Seq(Units)) : q = readQueue[c]
      BY <1>1
    <3>2. PICK end : end = EndOfData
      OBVIOUS
    <3>3. end \in Range(q)
      BY <1>4, <3>1, <3>2
    <3>4. \E j \in 1 .. Len(q) : end = q[j]
      BY <3>3, RangeOf
    <3>5. QED
      BY <3>1, <3>2, <3>4
  <2>2. /\ readQueue[c] # <<>> /\ Len(Given(c)) = Len(clientSent[c])
        /\ j = Len(readQueue[c])
    BY <2>1 DEF IInv, UpGotInv, UpGot
  <2>3. Last(readQueue[c]) = EndOfData
    BY <2>1, <2>2 DEF Last
  <2>4. PICK g \in Seq(Seq(Units)), s \in Seq(Seq(Units)) : g = Given(c) /\ s = clientSent[c]
    BY <1>1
  <2>5. Len(g) = Len(s) /\ \A i \in 1 .. Len(g) : g[i] = s[i]
    BY <1>1, <2>2, <2>4 DEF FirstOf
  <2>6. g = s
    BY <2>5, SameSeq
  <2>7. QED
    BY <1>1, <2>3, <2>4, <2>6
<1>5. NothingLostBeforeQuit
  BY <1>4 DEF NothingLostBeforeQuit
<1>6. QED
  BY <1>2, <1>3, <1>5 DEF ReceivedInOrder

LEMMA AgreementHolds ==
    ASSUME IInv
    PROVE  DvcInv
<1>0. TypeInv
  BY DEF IInv
<1>1. DvcTypeOK
  <2>1. \A c \in Ids : reassembly[c].total \in 0 .. MaxLength /\ dvcData[c].total \in 0 .. MaxLength
    BY <1>0 DEF TypeInv, Buffers
  <2>2. QED
    BY <1>0, <2>1 DEF IInv, TypeInv, BufferInv, LogInv, DvcTypeOK
<1>2. OpenMeansRunning
  <2>1. ASSUME NEW c \in Ids, connected, dvc[c] = "succeeded", channel[c] # "running"
        PROVE  InFlight(Close(c), toServer)
    <3>1. Close(c) \in Range(toServer)
      BY <2>1 DEF IInv, EndsInv, Ends
    <3>2. QED
      BY <3>1 DEF Range, InFlight
  <2>2. QED
    BY <2>1 DEF OpenMeansRunning
<1>3. NoToldOrphan
  <2>1. ASSUME NEW c \in Ids, connected, dvc[c] = "absent", channel[c] = "running", c \leq nextId,
               closing[c] # "silent"
        PROVE  InFlight(Close(c), queue \o toClient)
    <3>1. Close(c) \in Range(toClient) \cup Range(queue)
      BY <2>1 DEF IInv, ClosingInv, Down
    <3>2. PICK q \in Seq(DownPdus), t \in Seq(DownPdus) : q = queue /\ t = toClient
      BY <1>0 DEF TypeInv
    <3>3. PICK s \in Seq(DownPdus) : s = q \o t
      BY ConcatFacts
    <3>4. /\ Len(s) = Len(q) + Len(t) /\ Len(q) \in Nat /\ Len(t) \in Nat
          /\ \A i \in 1 .. Len(q) : s[i] = q[i]
          /\ \A i \in 1 .. Len(t) : s[Len(q) + i] = t[i]
      BY <3>3, ConcatFacts
    <3>5. \E i \in 1 .. Len(s) : s[i] = Close(c)
      <4>1. CASE Close(c) \in Range(q)
        <5>1. PICK i \in 1 .. Len(q) : Close(c) = q[i]
          BY <4>1, RangeOf
        <5>2. i \in 1 .. Len(s) /\ s[i] = Close(c)
          BY <3>4, <5>1
        <5>3. QED
          BY <5>2
      <4>2. CASE Close(c) \in Range(t)
        <5>1. PICK i \in 1 .. Len(t) : Close(c) = t[i]
          BY <4>2, RangeOf
        <5>2. Len(q) + i \in 1 .. Len(s) /\ s[Len(q) + i] = Close(c)
          BY <3>4, <5>1
        <5>3. QED
          BY <5>2
      <4>3. QED
        BY <3>1, <3>2, <4>1, <4>2
    <3>6. QED
      BY <3>2, <3>3, <3>5 DEF InFlight
  <2>2. QED
    BY <2>1 DEF NoToldOrphan
<1>4. QED
  BY <1>1, <1>2, <1>3 DEF DvcInv

\* For every number of channels and messages, the readers of both ends are given the messages of
\* the writers, whole and in order, and the server's reader that meets the quit message of a channel
\* has been given all that the client finished (wts_read_drdynvc_data, dvcman_receive_channel_data,
\* wts_read_drdynvc_close_response).
THEOREM DvcOrderTheorem == Spec => []ReceivedInOrder
<1>1. IInv => ReceivedInOrder
  BY OrderHolds
<1>2. QED
  BY <1>1, Inductive, PTL

\* For every number of channels and messages, a channel the server takes for open is open at the
\* client or its CLOSE is on its way, and one that the server has removed is open at the client only
\* while the server's CLOSE is on its way, or when the close has found no create response, for it
\* then sends nothing (dvcman_channel_close, FreeRDP_WTSVirtualChannelClose).
THEOREM DvcAgreementTheorem == Spec => []DvcInv
<1>1. IInv => DvcInv
  BY AgreementHolds
<1>2. QED
  BY <1>1, Inductive, PTL
=============================================================================
