---------------------------- MODULE TimerProofs ----------------------------
(***************************************************************************)
(* The timers, for every finite set of threads that use them and every     *)
(* number of timers: the thread's wait covers every timer that is set, and *)
(* a timer that was removed stays silent.                                  *)
(***************************************************************************)
EXTENDS Timer, FiniteSetTheorems, SequenceTheorems, WellFoundedInduction,
        TLAPS

\* The types of the variables, with those of the sequences.
TimerShape ==
    /\ entries \in Seq(Entry)
    /\ maxIdx \in 0 .. MaxTimers /\ issued \in Seq(TimerIds) /\ silenced \subseteq TimerIds
    /\ running \in BOOLEAN /\ aborted \in BOOLEAN /\ event \in BOOLEAN /\ mainevent \in BOOLEAN
    /\ lock \in {"none", "thread", "main"}
    /\ cursor \in [at : Nat, end : Nat, mainloop : BOOLEAN]
    /\ callback \in 0 .. MaxTimers
    /\ thread \in {"check", "wait", "woken", "lock", "each", "exited"}
    /\ timeout \in {"infinite", "pending", "elapsed"} /\ watched \subseteq TimerIds
    /\ main \in {"loop", "each", "freeing", "freed"}
    /\ user \in [Users -> {"idle", "id", "append", "signal"}]
    /\ added \in [Users -> Entry]

\* The lock is held by whoever goes through the list, which is where its cursor says.
PassRight ==
    /\ lock = "thread" <=> thread = "each"
    /\ lock = "main" <=> main = "each"
    /\ 1 <= cursor.at /\ cursor.at <= cursor.end + 1 /\ cursor.end <= Len(entries)
    /\ callback # 0 => /\ lock # "none" /\ cursor.at <= cursor.end
                       /\ entries[cursor.at].id = callback

\* Every entry, and every entry about to be added, was given an id.
Appending == {u \in Users : user[u] = "append"}

CountRight ==
    /\ Len(entries) + Cardinality(Appending) <= Len(issued)
    /\ maxIdx <= Len(issued) /\ Len(issued) <= MaxTimers
    /\ \A u \in Users : user[u] = "id" => added[u].id <= Len(issued) + 1

\* Two entries have the same id only if it was given out twice, and so has an entry with an id that
\* was silenced.
Issued == {issued[i] : i \in 1 .. Len(issued)}

IdsRight ==
    /\ silenced \subseteq Issued
    /\ \A i \in 1 .. Len(entries) : entries[i].id \in Issued
    /\ \A u \in Appending : added[u].id \in Issued
    /\ \A i, j \in 1 .. Len(entries) : i # j /\ entries[i].id = entries[j].id => entries[i].id \in Duplicated
    /\ \A i \in 1 .. Len(entries), u \in Appending :
          entries[i].id = added[u].id => entries[i].id \in Duplicated
    /\ \A u, v \in Appending : u # v /\ added[u].id = added[v].id => added[u].id \in Duplicated

SilentRight ==
    /\ \A i \in 1 .. Len(entries) : entries[i].armed /\ entries[i].id \in silenced => entries[i].id \in Duplicated
    /\ \A u \in Appending : added[u].id \in silenced => added[u].id \in Duplicated
    /\ callback \in silenced => callback \in Duplicated

TimersRight ==
    TimerShape /\ PassRight /\ CountRight /\ IdsRight /\ SilentRight /\ NothingForgotten

----------------------------------------------------------------------------
(* The operations on the list *)

\* An entry with some of its fields changed is an entry.
LEMMA EntryTypes ==
    /\ \A id \in TimerIds, m \in BOOLEAN : NewEntry(id, m) \in Entry /\ NewEntry(id, m).id = id
    /\ \A e \in Entry : e.id \in TimerIds /\ e.armed \in BOOLEAN
    /\ \A e \in Entry :
          LET x == [e EXCEPT !.armed = FALSE] IN x \in Entry /\ x.id = e.id /\ ~x.armed
    /\ \A e \in Entry :
          LET x == [e EXCEPT !.due = TRUE] IN x \in Entry /\ x.id = e.id /\ x.armed = e.armed
    /\ \A e \in Entry, b \in BOOLEAN :
          LET x == [e EXCEPT !.armed = b, !.due = FALSE] IN x \in Entry /\ x.id = e.id
<1>1. \A id \in TimerIds, m \in BOOLEAN : NewEntry(id, m) \in Entry /\ NewEntry(id, m).id = id
  BY DEF NewEntry, Entry
<1>2. \A e \in Entry : e.id \in TimerIds /\ e.armed \in BOOLEAN
  BY DEF Entry
<1>3. \A e \in Entry : LET x == [e EXCEPT !.armed = FALSE] IN x \in Entry /\ x.id = e.id /\ ~x.armed
  BY DEF Entry
<1>4. \A e \in Entry :
         LET x == [e EXCEPT !.due = TRUE] IN x \in Entry /\ x.id = e.id /\ x.armed = e.armed
  BY DEF Entry
<1>5. \A e \in Entry, b \in BOOLEAN :
         LET x == [e EXCEPT !.armed = b, !.due = FALSE] IN x \in Entry /\ x.id = e.id
  BY DEF Entry
<1> QED
  BY <1>1, <1>2, <1>3, <1>4, <1>5

\* The first of some places in the list.
LEMMA FirstPlace ==
    ASSUME NEW S, S \subseteq Nat, S # {}
    PROVE  \E i \in S : \A j \in S : i <= j
<1>1. IsWellFoundedOn(OpToRel(<, Nat), Nat)
  BY NatLessThanWellFounded
<1>2. PICK i \in S : \A j \in S : ~(<<j, i>> \in OpToRel(<, Nat))
  BY <1>1, WFMin
<1>3. \A j \in S : ~(j < i)
  BY <1>2 DEF OpToRel
<1> QED
  BY <1>3

\* freerdp_timer_remove disables an entry with the id, and nothing else.
LEMMA DisabledRight ==
    ASSUME TimerShape, NEW id, \E i \in DOMAIN entries : entries[i].id = id
    PROVE  \E f \in 1 .. Len(entries) :
              /\ entries[f].id = id
              /\ Disabled(id) = [entries EXCEPT ![f].armed = FALSE]
<1> DEFINE at == {i \in DOMAIN entries : entries[i].id = id}
<1>1. DOMAIN entries = 1 .. Len(entries) /\ Len(entries) \in Nat
  BY LenProperties DEF TimerShape
<1>2. at # {} /\ at \subseteq Nat
  BY <1>1
<1> DEFINE f == CHOOSE i \in at : \A j \in at : i <= j
<1>3. f \in at
  BY <1>2, FirstPlace
<1>4. Disabled(id) = [entries EXCEPT ![f].armed = FALSE]
  BY <1>2 DEF Disabled
<1> HIDE DEF f
<1> QED
  BY <1>1, <1>3, <1>4

\* The list with one entry changed.
LEMMA ChangedEntry ==
    ASSUME TimerShape, NEW f \in 1 .. Len(entries), NEW e \in Entry, entries' = [entries EXCEPT ![f] = e]
    PROVE  /\ entries' \in Seq(Entry) /\ Len(entries') = Len(entries) /\ Len(entries) \in Nat
           /\ entries'[f] = e
           /\ \A i \in 1 .. Len(entries) : i # f => entries'[i] = entries[i]
  BY ExceptSeq, LenProperties DEF TimerShape

\* The steps of freerdp_timer_remove, of a callback's end and of the clock each change one entry.
LEMMA Removed ==
    ASSUME TimerShape, NEW id, \E i \in DOMAIN entries : entries[i].id = id, entries' = Disabled(id)
    PROVE  /\ entries' \in Seq(Entry) /\ Len(entries') = Len(entries) /\ Len(entries) \in Nat
           /\ \A i \in 1 .. Len(entries) :
                 /\ entries'[i].id = entries[i].id /\ entries[i] \in Entry
                 /\ entries'[i].armed => entries[i].armed
           /\ \E f \in 1 .. Len(entries) : entries[f].id = id /\ ~entries'[f].armed
<1>1. PICK f \in 1 .. Len(entries) : entries[f].id = id /\ entries' = [entries EXCEPT ![f].armed = FALSE]
  BY DisabledRight
<1> DEFINE e == [entries[f] EXCEPT !.armed = FALSE]
<1>2. \A i \in 1 .. Len(entries) : entries[i] \in Entry
  BY ElementOfSeq DEF TimerShape
<1>3. e \in Entry /\ e.id = entries[f].id /\ ~e.armed
  BY <1>2, EntryTypes
<1>4. entries' = [entries EXCEPT ![f] = e]
  BY <1>1
<1> HIDE DEF e
<1>5. /\ entries' \in Seq(Entry) /\ Len(entries') = Len(entries) /\ Len(entries) \in Nat
      /\ entries'[f] = e
      /\ \A i \in 1 .. Len(entries) : i # f => entries'[i] = entries[i]
  BY <1>3, <1>4, ChangedEntry
<1>6. \A i \in 1 .. Len(entries) :
         entries'[i].id = entries[i].id /\ (entries'[i].armed => entries[i].armed)
  BY <1>3, <1>5
<1> QED
  BY <1>1, <1>2, <1>3, <1>5, <1>6

LEMMA Ended ==
    ASSUME TimerShape, PassRight, CallbackEnd
    PROVE  /\ entries' \in Seq(Entry) /\ Len(entries') = Len(entries) /\ Len(entries) \in Nat
           /\ cursor.at \in 1 .. Len(entries)
           /\ \A i \in 1 .. Len(entries) : entries'[i].id = entries[i].id
           /\ \A i \in 1 .. Len(entries) : i # cursor.at => entries'[i] = entries[i]
<1>1. cursor.at \in 1 .. Len(entries)
  BY LenProperties DEF PassRight, CallbackEnd, TimerShape
<1>2. PICK again \in BOOLEAN :
         entries' = [entries EXCEPT ![cursor.at].armed = again, ![cursor.at].due = FALSE]
  BY DEF CallbackEnd
<1> DEFINE e == [entries[cursor.at] EXCEPT !.armed = again, !.due = FALSE]
<1>3. entries[cursor.at] \in Entry
  BY <1>1, ElementOfSeq DEF TimerShape
<1>4. e \in Entry /\ e.id = entries[cursor.at].id
  BY <1>3, EntryTypes
<1>5. DOMAIN entries = 1 .. Len(entries)
  BY LenProperties DEF TimerShape
<1>6. entries' = [entries EXCEPT ![cursor.at] = e]
  BY <1>1, <1>2, <1>5
<1> HIDE DEF e
<1> QED
  BY <1>1, <1>4, <1>6, ChangedEntry

LEMMA Expired ==
    ASSUME TimerShape, NEW k, Expire(k)
    PROVE  /\ entries' \in Seq(Entry) /\ Len(entries') = Len(entries) /\ Len(entries) \in Nat
           /\ \A i \in 1 .. Len(entries) :
                 entries'[i].id = entries[i].id /\ entries'[i].armed = entries[i].armed
<1>1. k \in 1 .. Len(entries) /\ entries' = [entries EXCEPT ![k].due = TRUE]
  BY LenProperties DEF Expire, TimerShape
<1> DEFINE e == [entries[k] EXCEPT !.due = TRUE]
<1>2. entries[k] \in Entry
  BY <1>1, ElementOfSeq DEF TimerShape
<1>3. e \in Entry /\ e.id = entries[k].id /\ e.armed = entries[k].armed
  BY <1>2, EntryTypes
<1>4. entries' = [entries EXCEPT ![k] = e]
  BY <1>1
<1> HIDE DEF e
<1>5. /\ entries' \in Seq(Entry) /\ Len(entries') = Len(entries) /\ Len(entries) \in Nat
      /\ entries'[k] = e
      /\ \A i \in 1 .. Len(entries) : i # k => entries'[i] = entries[i]
  BY <1>1, <1>3, <1>4, ChangedEntry
<1>6. \A i \in 1 .. Len(entries) :
         entries'[i].id = entries[i].id /\ entries'[i].armed = entries[i].armed
  BY <1>3, <1>5
<1> QED
  BY <1>5, <1>6

\* A step that adds an entry puts it at the end.
LEMMA Added ==
    ASSUME TimerShape, NEW e \in Entry, entries' = Append(entries, e)
    PROVE  /\ entries' \in Seq(Entry) /\ Len(entries') = Len(entries) + 1 /\ Len(entries) \in Nat
           /\ entries'[Len(entries) + 1] = e
           /\ \A i \in 1 .. Len(entries) : entries'[i] = entries[i]
           /\ \A i \in 1 .. Len(entries') : i \in 1 .. Len(entries) \/ i = Len(entries) + 1
  BY AppendProperties, LenProperties DEF TimerShape

\* What expire_and_reschedule leaves are entries that were there, each from its own place.
LEMMA Rescheduled ==
    ASSUME TimerShape, ThreadReschedule
    PROVE  /\ entries' \in Seq(Entry) /\ Len(entries') \in Nat /\ Len(entries') <= Len(entries)
           /\ \E f \in [1 .. Len(entries') -> 1 .. Len(entries)] :
                 /\ \A i, j \in 1 .. Len(entries') : i # j => f[i] # f[j]
                 /\ \A i \in 1 .. Len(entries') : entries'[i] = entries[f[i]]
<1>1. DOMAIN entries = 1 .. Len(entries) /\ Len(entries) \in Nat
  BY LenProperties DEF TimerShape
<1>2. \A i \in 1 .. Len(entries) : entries[i] \in Entry
  BY ElementOfSeq DEF TimerShape
<1>3. Armed \subseteq 1 .. Len(entries)
  BY <1>1 DEF Armed
<1>4. Cardinality(Armed) \in Nat /\ Cardinality(Armed) <= Len(entries)
  <2>1. IsFiniteSet(1 .. Len(entries)) /\ Cardinality(1 .. Len(entries)) = Len(entries)
    <3>1. \A k \in Nat : IsFiniteSet(1 .. k) /\ Cardinality(1 .. k) = k
      BY FS_Interval
    <3> QED
      BY <1>1, <3>1
  <2>2. IsFiniteSet(Armed) /\ Cardinality(Armed) <= Len(entries)
    BY <1>3, <2>1, FS_Subset
  <2> QED
    BY <2>2, FS_CardinalityType
<1>5. PICK f \in [1 .. Cardinality(Armed) -> Armed] :
         /\ \A i, j \in DOMAIN f : i < j => f[i] < f[j]
         /\ entries' = [i \in DOMAIN f |-> entries[f[i]]]
  BY DEF ThreadReschedule
<1> DEFINE n == Cardinality(Armed)
<1> HIDE DEF n
<1>6. n \in Nat /\ f \in [1 .. n -> 1 .. Len(entries)] /\ entries' = [i \in 1 .. n |-> entries[f[i]]]
  BY <1>3, <1>4, <1>5 DEF n
<1>7. entries' \in Seq(Entry) /\ Len(entries') = n
  <2>1. \A i \in 1 .. n : entries[f[i]] \in Entry
    BY <1>2, <1>6
  <2>2. entries' \in [1 .. n -> Entry]
    BY <1>6, <2>1
  <2> QED
    BY <1>6, <2>2
<1>8. \A i, j \in 1 .. n : i # j => f[i] # f[j]
  <2>1. \A i, j \in 1 .. n : i < j => f[i] < f[j]
    BY <1>5, <1>6
  <2>2. \A i \in 1 .. n : f[i] \in Nat
    <3>1. \A i \in 1 .. n : f[i] \in 1 .. Len(entries)
      BY <1>6
    <3> QED
      BY <1>1, <3>1
  <2> QED
    BY <1>6, <2>1, <2>2
<1> QED
  BY <1>4, <1>6, <1>7, <1>8 DEF n

----------------------------------------------------------------------------
(* Types and the pass over the list *)

LEMMA ShapeInit == Init => TimerShape /\ PassRight
<1> SUFFICES ASSUME Init PROVE TimerShape /\ PassRight
  OBVIOUS
<1>1. entries \in Seq(Entry) /\ issued \in Seq(TimerIds) /\ Len(entries) = 0
  BY EmptySeq DEF Init
<1>2. NewEntry(1, FALSE) \in Entry
  BY TimerAssumption DEF NewEntry, Entry, TimerIds
<1>3. user \in [Users -> {"idle", "id", "append", "signal"}] /\ added \in [Users -> Entry]
  BY <1>2 DEF Init
<1>4. /\ running \in BOOLEAN /\ aborted \in BOOLEAN /\ event \in BOOLEAN /\ mainevent \in BOOLEAN
  BY Zenon DEF Init
<1>5. cursor \in [at : Nat, end : Nat, mainloop : BOOLEAN] /\ cursor.at = 1 /\ cursor.end = 0
  BY DEF Init, Idle
<1>6. maxIdx \in 0 .. MaxTimers /\ callback \in 0 .. MaxTimers
  BY TimerAssumption DEF Init
<1>7. TimerShape
  BY <1>1, <1>3, <1>4, <1>5, <1>6 DEF Init, TimerShape
<1> QED
  BY <1>1, <1>5, <1>7 DEF Init, PassRight

\* The cursor of a pass has its type, wherever it goes.
LEMMA CursorTypes ==
    ASSUME TimerShape
    PROVE  /\ Idle \in [at : Nat, end : Nat, mainloop : BOOLEAN]
           /\ [at |-> 1, end |-> Len(entries), mainloop |-> FALSE] \in [at : Nat, end : Nat, mainloop : BOOLEAN]
           /\ LET c == [cursor EXCEPT !.at = @ + 1]
              IN  c \in [at : Nat, end : Nat, mainloop : BOOLEAN] /\ c.at = cursor.at + 1 /\ c.end = cursor.end
           /\ LET c == [cursor EXCEPT !.at = @ + 1, !.mainloop = TRUE]
              IN  c \in [at : Nat, end : Nat, mainloop : BOOLEAN] /\ c.at = cursor.at + 1 /\ c.end = cursor.end
<1>1. cursor \in [at : Nat, end : Nat, mainloop : BOOLEAN] /\ Len(entries) \in Nat
  BY LenProperties DEF TimerShape
<1>2. /\ Idle \in [at : Nat, end : Nat, mainloop : BOOLEAN]
      /\ [at |-> 1, end |-> Len(entries), mainloop |-> FALSE] \in [at : Nat, end : Nat, mainloop : BOOLEAN]
  BY <1>1 DEF Idle
<1>3. LET c == [cursor EXCEPT !.at = @ + 1]
      IN  c \in [at : Nat, end : Nat, mainloop : BOOLEAN] /\ c.at = cursor.at + 1 /\ c.end = cursor.end
  BY <1>1
<1>4. \A x \in [at : Nat, end : Nat, mainloop : BOOLEAN] :
         LET c == [x EXCEPT !.mainloop = TRUE]
         IN  c \in [at : Nat, end : Nat, mainloop : BOOLEAN] /\ c.at = x.at /\ c.end = x.end
  OBVIOUS
<1>5. LET c == [cursor EXCEPT !.at = @ + 1, !.mainloop = TRUE]
      IN  c \in [at : Nat, end : Nat, mainloop : BOOLEAN] /\ c.at = cursor.at + 1 /\ c.end = cursor.end
  <2> DEFINE x == [cursor EXCEPT !.at = @ + 1]
  <2>1. x \in [at : Nat, end : Nat, mainloop : BOOLEAN] /\ x.at = cursor.at + 1 /\ x.end = cursor.end
    BY <1>3
  <2> HIDE DEF x
  <2>2. LET c == [x EXCEPT !.mainloop = TRUE]
        IN  c \in [at : Nat, end : Nat, mainloop : BOOLEAN] /\ c.at = cursor.at + 1 /\ c.end = cursor.end
    BY <1>4, <2>1
  <2> QED
    BY <2>2 DEF x
<1> QED
  BY <1>2, <1>3, <1>5

\* A step of either pass runs a callback of the entry under the cursor, or goes on.
LEMMA EachStep ==
    ASSUME TimerShape, PassRight, ThreadEach \/ PollEach
    PROVE  /\ UNCHANGED <<list, lock, control, sleep, main, user, added>> /\ lock # "none"
           /\ callback = 0 /\ cursor.at \in 1 .. Len(entries) /\ cursor.at <= cursor.end
           /\ \/ /\ callback' = entries[cursor.at].id /\ UNCHANGED cursor
                 /\ entries[cursor.at].armed /\ entries[cursor.at].due
              \/ /\ cursor' \in [at : Nat, end : Nat, mainloop : BOOLEAN]
                 /\ cursor'.at = cursor.at + 1 /\ cursor'.end = cursor.end
                 /\ UNCHANGED callback
<1>1. /\ UNCHANGED <<list, lock, control, sleep, main, user, added>> /\ lock # "none" /\ callback = 0
      /\ cursor.at <= cursor.end
  BY DEF ThreadEach, PollEach, PassRight
<1>2. cursor.at \in 1 .. Len(entries)
  BY <1>1, LenProperties DEF PassRight, TimerShape
<1>3. \/ /\ callback' = entries[cursor.at].id /\ UNCHANGED cursor
         /\ entries[cursor.at].armed /\ entries[cursor.at].due
      \/ cursor' = [cursor EXCEPT !.at = @ + 1] /\ UNCHANGED callback
      \/ cursor' = [cursor EXCEPT !.at = @ + 1, !.mainloop = TRUE] /\ UNCHANGED callback
  BY Zenon DEF ThreadEach, PollEach, CallbackBegin
<1> QED
  BY <1>1, <1>2, <1>3, CursorTypes

LEMMA ShapeStep == TimerShape /\ PassRight /\ CountRight /\ Next => TimerShape'
<1> SUFFICES ASSUME TimerShape, PassRight, CountRight, Next PROVE TimerShape'
  OBVIOUS
<1> USE DEF list, pass, control, sleep
<1>0. Len(issued) \in Nat /\ \A u \in Users : added[u] \in Entry /\ added[u].id \in TimerIds
  BY LenProperties, EntryTypes DEF TimerShape
<1>n. NewEntry(1, FALSE) \in Entry
  <2>1. 1 \in TimerIds
    BY TimerAssumption DEF TimerIds
  <2> QED
    BY <2>1, EntryTypes
<1>1. ASSUME NEW u \in Users, AddRead(u) PROVE TimerShape'
  <2>1. maxIdx + 1 \in TimerIds
    BY <1>0, <1>1, TimerAssumption DEF AddRead, CountRight, TimerShape, TimerIds
  <2>2. PICK mainloop \in BOOLEAN : added' = [added EXCEPT ![u] = NewEntry(maxIdx + 1, mainloop)]
    BY <1>1 DEF AddRead
  <2>3. NewEntry(maxIdx + 1, mainloop) \in Entry
    BY <2>1, EntryTypes
  <2>4. added' \in [Users -> Entry]
    BY <2>2, <2>3 DEF TimerShape
  <2> QED
    BY <1>1, <2>4 DEF AddRead, TimerShape
<1>2. ASSUME NEW u \in Users, AddWrite(u) PROVE TimerShape'
  <2>1. maxIdx' \in 0 .. MaxTimers /\ issued' \in Seq(TimerIds)
    <3>1. added[u].id \in 0 .. MaxTimers
      BY <1>0, TimerAssumption DEF TimerIds
    <3> QED
      BY <1>0, <1>2, <3>1, AppendProperties DEF AddWrite, TimerShape
  <2> QED
    BY <1>2, <2>1 DEF AddWrite, TimerShape
<1>3. ASSUME NEW u \in Users, AddAppend(u) PROVE TimerShape'
  <2>1. entries' \in Seq(Entry) /\ added' \in [Users -> Entry]
    BY <1>0, <1>n, <1>3, AppendProperties DEF AddAppend, TimerShape
  <2> QED
    BY <1>3, <2>1 DEF AddAppend, TimerShape
<1>4. ASSUME NEW u \in Users, AddSignal(u) PROVE TimerShape'
  <2>1. event' \in BOOLEAN
    BY <1>4, Zenon DEF AddSignal
  <2> QED
    BY <1>4, <2>1 DEF AddSignal, TimerShape
<1>5. ASSUME NEW u \in Users, NEW id \in TimerIds, TimerRemove(u, id) PROVE TimerShape'
  <2>1. entries' \in Seq(Entry)
    BY <1>5, Removed DEF TimerRemove
  <2> QED
    BY <1>5, <2>1 DEF TimerRemove, TimerShape
<1>6. ASSUME NEW id \in TimerIds, CallbackRemove(id) PROVE TimerShape'
  <2>1. entries' \in Seq(Entry)
    BY <1>6, Removed DEF CallbackRemove
  <2> QED
    BY <1>6, <2>1 DEF CallbackRemove, TimerShape
<1>7. ASSUME NEW mainloop \in BOOLEAN, CallbackAdd(mainloop) PROVE TimerShape'
  <2>1. maxIdx + 1 \in TimerIds /\ maxIdx' = maxIdx + 1
    BY <1>0, <1>7, TimerAssumption DEF CallbackAdd, CountRight, TimerShape, TimerIds
  <2>2. issued' \in Seq(TimerIds) /\ entries' \in Seq(Entry)
    BY <1>7, <2>1, EntryTypes, AppendProperties DEF CallbackAdd, TimerShape
  <2>3. event' \in BOOLEAN
    BY <1>7, Zenon DEF CallbackAdd
  <2>4. maxIdx' \in 0 .. MaxTimers
    BY <2>1, TimerAssumption DEF TimerIds
  <2> QED
    BY <1>7, <2>2, <2>3, <2>4 DEF CallbackAdd, TimerShape
<1>8. CASE CallbackEnd
  <2>1. entries' \in Seq(Entry)
    BY <1>8, Ended
  <2>2. callback' \in 0 .. MaxTimers /\ cursor' \in [at : Nat, end : Nat, mainloop : BOOLEAN]
    BY <1>8, CursorTypes, TimerAssumption DEF CallbackEnd
  <2> QED
    BY <1>8, <2>1, <2>2 DEF CallbackEnd, TimerShape
<1>9. CASE ThreadCheck \/ ThreadWoken \/ ThreadExit
  BY <1>9 DEF ThreadCheck, ThreadWoken, ThreadExit, TimerShape
<1>10. CASE ThreadReset
  <2>1. event' \in BOOLEAN
    BY <1>10, Zenon DEF ThreadReset
  <2> QED
    BY <1>10, <2>1 DEF ThreadReset, TimerShape
<1>11. CASE ThreadLock
  BY <1>11, CursorTypes DEF ThreadLock, TimerShape
<1>12. CASE ThreadEach \/ PollEach
  <2>1. callback' \in 0 .. MaxTimers /\ cursor' \in [at : Nat, end : Nat, mainloop : BOOLEAN]
    <3>1. cursor.at \in 1 .. Len(entries)
      BY <1>12, EachStep
    <3>2. entries[cursor.at].id \in 0 .. MaxTimers
      <4>1. entries[cursor.at].id \in TimerIds
        BY <3>1, ElementOfSeq, EntryTypes DEF TimerShape
      <4> QED
        BY <4>1, TimerAssumption DEF TimerIds
    <3> QED
      BY <1>12, <3>2, EachStep DEF TimerShape
  <2>2. UNCHANGED <<list, lock, control, sleep, main, user, added>>
    BY <1>12, EachStep
  <2> QED
    BY <2>1, <2>2 DEF TimerShape
<1>13. CASE ThreadReschedule
  <2>1. entries' \in Seq(Entry) /\ cursor' \in [at : Nat, end : Nat, mainloop : BOOLEAN]
    BY <1>13, Rescheduled, CursorTypes DEF ThreadReschedule
  <2>2. \A i \in DOMAIN entries' : entries'[i] \in Entry
    BY <2>1
  <2>3. watched' \subseteq TimerIds
    <3>1. \A i \in DOMAIN entries' : entries'[i].id \in TimerIds
      BY <2>2, EntryTypes
    <3>2. watched' = {entries'[i].id : i \in DOMAIN entries'}
      BY <1>13 DEF ThreadReschedule
    <3> QED
      BY <3>1, <3>2, Zenon
  <2>4. timeout' \in {"infinite", "pending", "elapsed"}
    BY <1>13 DEF ThreadReschedule
  <2>5. mainevent' \in BOOLEAN
    BY <1>13, Zenon DEF ThreadReschedule
  <2> QED
    BY <1>13, <2>1, <2>3, <2>4, <2>5 DEF ThreadReschedule, TimerShape
<1>14. ASSUME NEW k \in TimerIds, Expire(k) PROVE TimerShape'
  <2>1. entries' \in Seq(Entry)
    BY <1>14, Expired
  <2> QED
    BY <1>14, <2>1 DEF Expire, TimerShape
<1>15. CASE PollLock
  <2>1. mainevent' \in BOOLEAN
    BY <1>15, Zenon DEF PollLock
  <2> QED
    BY <1>15, <2>1, CursorTypes DEF PollLock, TimerShape
<1>16. CASE PollDone
  <2>1. event' \in BOOLEAN
    BY <1>16, Zenon DEF PollDone
  <2> QED
    BY <1>16, <2>1, CursorTypes DEF PollDone, TimerShape
<1>17. CASE Abort \/ FreeBegin \/ FreeSignal
  <2>1. aborted' \in BOOLEAN /\ event' \in BOOLEAN /\ running' \in BOOLEAN
    BY <1>17, Zenon DEF Abort, FreeBegin, FreeSignal, TimerShape
  <2> QED
    BY <1>17, <2>1 DEF Abort, FreeBegin, FreeSignal, TimerShape
<1> QED
  BY <1>1, <1>2, <1>3, <1>4, <1>5, <1>6, <1>7, <1>8, <1>9, <1>10, <1>11, <1>12, <1>13, <1>14,
     <1>15, <1>16, <1>17 DEF Next, Threads

LEMMA PassStep == TimerShape /\ PassRight /\ Next => PassRight'
<1> SUFFICES ASSUME TimerShape, PassRight, Next PROVE PassRight'
  OBVIOUS
<1> USE DEF list, pass, control, sleep
<1>0. /\ cursor.at \in Nat /\ cursor.end \in Nat /\ Len(entries) \in Nat
      /\ callback # 0 => cursor.at \in 1 .. Len(entries)
  BY LenProperties DEF TimerShape, PassRight
<1>1. ASSUME NEW u \in Users, AddRead(u) \/ AddWrite(u) \/ AddSignal(u) PROVE PassRight'
  BY <1>1 DEF AddRead, AddWrite, AddSignal, PassRight
<1>2. ASSUME NEW u \in Users, AddAppend(u) PROVE PassRight'
  <2>1. UNCHANGED <<lock, cursor, callback, thread, main>> /\ callback = 0
    BY <1>2 DEF AddAppend, PassRight
  <2>2. Len(entries') = Len(entries) + 1
    BY <1>2, Added DEF AddAppend, TimerShape
  <2> QED
    BY <1>0, <2>1, <2>2 DEF PassRight
<1>3. ASSUME NEW u \in Users, NEW id \in TimerIds, TimerRemove(u, id) PROVE PassRight'
  <2>1. UNCHANGED <<lock, cursor, callback, thread, main>> /\ callback = 0
    BY <1>3 DEF TimerRemove, PassRight
  <2>2. Len(entries') = Len(entries)
    BY <1>3, Removed DEF TimerRemove
  <2> QED
    BY <2>1, <2>2 DEF PassRight
<1>4. ASSUME NEW id \in TimerIds, CallbackRemove(id) PROVE PassRight'
  <2>1. UNCHANGED <<lock, cursor, callback, thread, main>> /\ callback # 0
    BY <1>4 DEF CallbackRemove
  <2>2. Len(entries') = Len(entries) /\ \A i \in 1 .. Len(entries) : entries'[i].id = entries[i].id
    BY <1>4, Removed DEF CallbackRemove
  <2> QED
    BY <1>0, <2>1, <2>2 DEF PassRight
<1>5. ASSUME NEW mainloop \in BOOLEAN, CallbackAdd(mainloop) PROVE PassRight'
  <2>1. UNCHANGED <<lock, cursor, callback, thread, main>> /\ callback # 0
    BY <1>5 DEF CallbackAdd
  <2>2. /\ Len(entries') = Len(entries) + 1
        /\ \A i \in 1 .. Len(entries) : entries'[i] = entries[i]
    <3> DEFINE e == NewEntry(maxIdx', mainloop)
    <3>1. entries' = Append(entries, e)
      BY <1>5 DEF CallbackAdd
    <3> HIDE DEF e
    <3> QED
      BY <3>1 DEF TimerShape
  <2> QED
    BY <1>0, <2>1, <2>2 DEF PassRight
<1>6. CASE CallbackEnd
  <2>1. UNCHANGED <<lock, thread, main>> /\ callback # 0 /\ callback' = 0
    BY <1>6 DEF CallbackEnd
  <2>2. cursor'.at = cursor.at + 1 /\ cursor'.end = cursor.end /\ Len(entries') = Len(entries)
    BY <1>6, CursorTypes, Ended DEF CallbackEnd
  <2> QED
    BY <1>0, <2>1, <2>2 DEF PassRight
<1>7. CASE ThreadCheck \/ ThreadWoken \/ ThreadExit \/ ThreadReset
  BY <1>7 DEF ThreadCheck, ThreadWoken, ThreadExit, ThreadReset, PassRight
<1>8. CASE ThreadLock \/ PollLock
  <2>1. /\ lock = "none" /\ UNCHANGED <<entries, callback>>
        /\ cursor' = [at |-> 1, end |-> Len(entries), mainloop |-> FALSE]
        /\ \/ lock' = "thread" /\ thread' = "each" /\ UNCHANGED main
           \/ lock' = "main" /\ main' = "each" /\ UNCHANGED thread
    BY <1>8 DEF ThreadLock, PollLock
  <2>2. cursor'.at = 1 /\ cursor'.end = Len(entries) /\ callback' = 0
    BY <2>1 DEF PassRight
  <2> QED
    BY <1>0, <2>1, <2>2 DEF PassRight
<1>9. CASE ThreadEach \/ PollEach
  <2>1. UNCHANGED <<entries, lock, thread, main>> /\ lock # "none" /\ cursor.at <= cursor.end
    BY <1>9, EachStep
  <2>2. CASE callback' = entries[cursor.at].id /\ UNCHANGED cursor
    BY <2>1, <2>2 DEF PassRight
  <2>3. CASE cursor'.at = cursor.at + 1 /\ cursor'.end = cursor.end /\ UNCHANGED callback
    <3>1. callback = 0
      BY <1>9, EachStep
    <3> QED
      BY <1>0, <2>1, <2>3, <3>1 DEF PassRight
  <2> QED
    BY <1>9, <2>2, <2>3, EachStep
<1>10. CASE ThreadReschedule \/ PollDone
  <2>1. /\ lock' = "none" /\ cursor' = Idle /\ callback' = 0
        /\ \/ thread = "each" /\ thread' = "check" /\ UNCHANGED main
           \/ main = "each" /\ main' = "loop" /\ UNCHANGED thread
    BY <1>10 DEF ThreadReschedule, PollDone
  <2>2. cursor'.at = 1 /\ cursor'.end = 0
    BY <2>1 DEF Idle
  <2>3. Len(entries') \in Nat
    BY <1>0, <1>10, Rescheduled DEF PollDone
  <2> QED
    BY <2>1, <2>2, <2>3 DEF PassRight
<1>11. ASSUME NEW k \in TimerIds, Expire(k) PROVE PassRight'
  <2>1. UNCHANGED <<lock, cursor, callback, thread, main>> /\ callback = 0
    BY <1>11 DEF Expire, PassRight
  <2>2. Len(entries') = Len(entries)
    BY <1>11, Expired
  <2> QED
    BY <2>1, <2>2 DEF PassRight
<1>12. CASE Abort \/ FreeBegin \/ FreeSignal
  BY <1>12 DEF Abort, FreeBegin, FreeSignal, PassRight
<1> QED
  BY <1>1, <1>2, <1>3, <1>4, <1>5, <1>6, <1>7, <1>8, <1>9, <1>10, <1>11, <1>12 DEF Next, Threads

----------------------------------------------------------------------------
(* Ids *)

\* A step that gives out an id.
LEMMA IssuedMore ==
    ASSUME TimerShape, NEW x \in TimerIds, issued' = Append(issued, x)
    PROVE  /\ Len(issued') = Len(issued) + 1 /\ Len(issued) \in Nat
           /\ Issued' = Issued \cup {x}
           /\ Duplicated \subseteq Duplicated'
           /\ x \in Issued => x \in Duplicated'
<1>1. /\ Len(issued') = Len(issued) + 1 /\ Len(issued) \in Nat
      /\ DOMAIN issued = 1 .. Len(issued) /\ DOMAIN issued' = 1 .. Len(issued) + 1
      /\ issued'[Len(issued) + 1] = x
      /\ \A i \in 1 .. Len(issued) : issued'[i] = issued[i] /\ i # Len(issued) + 1 /\ i \in DOMAIN issued'
      /\ \A i \in 1 .. Len(issued') : i \in 1 .. Len(issued) \/ i = Len(issued) + 1
      /\ Len(issued) + 1 \in DOMAIN issued'
  BY AppendProperties, LenProperties DEF TimerShape
<1>2. Issued' = Issued \cup {x}
  <2>1. \A y : y \in Issued' <=> y \in Issued \/ y = x
    BY <1>1 DEF Issued
  <2> QED
    BY <2>1
<1>3. Duplicated \subseteq Duplicated'
  BY <1>1 DEF Duplicated
<1>4. x \in Issued => x \in Duplicated'
  BY <1>1 DEF Duplicated, Issued
<1> QED
  BY <1>1, <1>2, <1>3, <1>4

LEMMA CountInit == Init => CountRight /\ IdsRight /\ SilentRight
<1> SUFFICES ASSUME Init PROVE CountRight /\ IdsRight /\ SilentRight
  OBVIOUS
<1>1. Appending = {} /\ Cardinality(Appending) = 0
  BY FS_EmptySet DEF Init, Appending
<1>2. Len(entries) = 0 /\ Len(issued) = 0 /\ maxIdx = 0 /\ silenced = {} /\ callback = 0
  BY EmptySeq DEF Init
<1>3. CountRight
  BY <1>1, <1>2, TimerAssumption DEF CountRight, Init
<1> QED
  BY <1>1, <1>2, <1>3 DEF IdsRight, SilentRight

\* A step that leaves the list, the ids and the threads that add alone, but for the callback.
LEMMA IdsKept ==
    ASSUME TimerShape, CountRight, IdsRight, SilentRight,
           UNCHANGED <<maxIdx, issued, silenced, added>>, Appending' = Appending,
           \A u \in Users : user'[u] = "id" => user[u] = "id",
           Len(entries') = Len(entries),
           \A i \in 1 .. Len(entries) : entries'[i].id = entries[i].id
    PROVE  CountRight' /\ IdsRight'
<1>1. Issued' = Issued /\ Duplicated' = Duplicated
  BY DEF Issued, Duplicated
<1>2. CountRight'
  BY DEF CountRight
<1>3. IdsRight'
  BY <1>1 DEF IdsRight
<1> QED
  BY <1>2, <1>3

LEMMA IdsStep ==
    TimerShape /\ PassRight /\ CountRight /\ IdsRight /\ SilentRight /\ Next
        => CountRight' /\ IdsRight' /\ SilentRight'
<1> SUFFICES ASSUME TimerShape, PassRight, CountRight, IdsRight, SilentRight, Next
             PROVE  CountRight' /\ IdsRight' /\ SilentRight'
  OBVIOUS
<1> USE DEF list, pass, control, sleep
<1>0. /\ Len(issued) \in Nat /\ Len(entries) \in Nat /\ maxIdx \in Nat /\ MaxTimers \in Nat
      /\ IsFiniteSet(Appending) /\ Cardinality(Appending) \in Nat
      /\ \A u \in Users : added[u] \in Entry /\ added[u].id \in TimerIds /\ added[u].id \in Nat
      /\ \A i \in 1 .. Len(entries) : entries[i] \in Entry
  <2>1. IsFiniteSet(Appending)
    BY TimerAssumption, FS_Subset DEF Appending
  <2>2. \A u \in Users : added[u] \in Entry /\ added[u].id \in TimerIds
    BY EntryTypes DEF TimerShape
  <2>3. TimerIds \subseteq Nat /\ MaxTimers \in Nat
    BY TimerAssumption DEF TimerIds
  <2>4. maxIdx \in Nat
    BY TimerAssumption DEF TimerShape
  <2>5. \A i \in 1 .. Len(entries) : entries[i] \in Entry
    BY ElementOfSeq DEF TimerShape
  <2> QED
    BY <2>1, <2>2, <2>3, <2>4, <2>5, FS_CardinalityType, LenProperties DEF TimerShape
<1>1. ASSUME NEW u \in Users, AddRead(u) PROVE CountRight' /\ IdsRight' /\ SilentRight'
  <2>1. PICK mainloop \in BOOLEAN : added' = [added EXCEPT ![u] = NewEntry(maxIdx + 1, mainloop)]
    BY <1>1 DEF AddRead
  <2>2. /\ UNCHANGED <<entries, maxIdx, issued, silenced, callback>>
        /\ user[u] = "idle" /\ user' = [user EXCEPT ![u] = "id"]
    BY <1>1 DEF AddRead
  <2>3. Appending' = Appending /\ \A v \in Appending : added'[v] = added[v]
    BY <2>1, <2>2 DEF Appending, TimerShape
  <2>4. added'[u].id = maxIdx + 1 /\ \A v \in Users : v # u => added'[v] = added[v] /\ user'[v] = user[v]
    BY <2>1, <2>2 DEF NewEntry, TimerShape
  <2>5. CountRight'
    BY <1>0, <2>2, <2>3, <2>4 DEF CountRight
  <2>6. Issued' = Issued /\ Duplicated' = Duplicated
    BY <2>2 DEF Issued, Duplicated
  <2> QED
    BY <2>2, <2>3, <2>5, <2>6 DEF IdsRight, SilentRight
<1>2. ASSUME NEW u \in Users, AddWrite(u) PROVE CountRight' /\ IdsRight' /\ SilentRight'
  <2> DEFINE x == added[u].id
  <2>1. /\ UNCHANGED <<entries, silenced, added, callback>> /\ Len(issued) < MaxTimers
        /\ maxIdx' = x /\ issued' = Append(issued, x)
        /\ user[u] = "id" /\ user' = [user EXCEPT ![u] = "append"]
    BY <1>2 DEF AddWrite
  <2>2. x \in TimerIds /\ x \in Nat
    BY <1>0
  <2>3. /\ Len(issued') = Len(issued) + 1 /\ Issued' = Issued \cup {x}
        /\ Duplicated \subseteq Duplicated' /\ (x \in Issued => x \in Duplicated')
    BY <2>1, <2>2, IssuedMore
  <2>4. Appending' = Appending \cup {u} /\ u \notin Appending
    BY <2>1 DEF Appending, TimerShape
  <2>5. Cardinality(Appending') = Cardinality(Appending) + 1
    BY <1>0, <2>4, FS_AddElement
  <2>6. \A v \in Users : v # u => user'[v] = user[v]
    BY <2>1 DEF TimerShape
  <2>7. user'[u] = "append"
    BY <2>1 DEF TimerShape
  <2>8. CountRight'
    BY <1>0, <2>1, <2>2, <2>3, <2>5, <2>6, <2>7 DEF CountRight
  <2>9. IdsRight'
    BY <2>1, <2>3, <2>4 DEF IdsRight
  <2>10. SilentRight'
    BY <2>1, <2>3, <2>4 DEF SilentRight, IdsRight
  <2> QED
    BY <2>8, <2>9, <2>10
<1>3. ASSUME NEW u \in Users, AddAppend(u) PROVE CountRight' /\ IdsRight' /\ SilentRight'
  <2>1. /\ UNCHANGED <<maxIdx, issued, silenced, callback>>
        /\ entries' = Append(entries, added[u])
        /\ user[u] = "append" /\ user' = [user EXCEPT ![u] = "signal"]
        /\ \A v \in Users : v # u => added'[v] = added[v]
    BY <1>3 DEF AddAppend, TimerShape
  <2>2. Appending' = Appending \ {u} /\ u \in Appending
    BY <2>1 DEF Appending, TimerShape
  <2>3. Cardinality(Appending') = Cardinality(Appending) - 1
    BY <1>0, <2>2, FS_RemoveElement
  <2>4. Issued' = Issued /\ Duplicated' = Duplicated
    BY <2>1 DEF Issued, Duplicated
  <2>5. /\ Len(entries') = Len(entries) + 1 /\ entries'[Len(entries) + 1] = added[u]
        /\ \A i \in 1 .. Len(entries) : entries'[i] = entries[i]
        /\ \A i \in 1 .. Len(entries') : i \in 1 .. Len(entries) \/ i = Len(entries) + 1
    BY <1>0, <2>1, Added
  <2>6. \A v \in Users : user'[v] = "id" => user[v] = "id" /\ added'[v] = added[v]
    BY <2>1 DEF TimerShape
  <2>7. CountRight'
    BY <1>0, <2>1, <2>3, <2>5, <2>6 DEF CountRight
  <2>8. \A v \in Appending' : v \in Appending /\ v # u /\ added'[v] = added[v]
    BY <2>1, <2>2 DEF Appending
  <2>9. IdsRight'
    BY <2>1, <2>2, <2>4, <2>5, <2>8 DEF IdsRight
  <2>10. SilentRight'
    BY <2>1, <2>2, <2>4, <2>5, <2>8 DEF SilentRight
  <2> QED
    BY <2>7, <2>9, <2>10
<1>4. ASSUME NEW u \in Users, AddSignal(u) PROVE CountRight' /\ IdsRight' /\ SilentRight'
  <2>1. UNCHANGED <<entries, maxIdx, issued, silenced, callback, added>>
    BY <1>4 DEF AddSignal
  <2>2. Appending' = Appending /\ \A v \in Users : user'[v] = "id" => user[v] = "id"
    BY <1>4 DEF AddSignal, Appending, TimerShape
  <2>3. CountRight' /\ IdsRight'
    BY <2>1, <2>2, IdsKept
  <2>4. Duplicated' = Duplicated
    BY <2>1 DEF Duplicated
  <2> QED
    BY <2>1, <2>2, <2>3, <2>4 DEF SilentRight
<1>5. ASSUME NEW id \in TimerIds, entries' = Disabled(id), \E i \in DOMAIN entries : entries[i].id = id,
             UNCHANGED <<maxIdx, issued, callback, user, added>>,
             silenced' = silenced \cup ({id} \ {callback})
      PROVE  CountRight' /\ IdsRight' /\ SilentRight'
  <2>1. /\ Len(entries') = Len(entries)
        /\ \A i \in 1 .. Len(entries) :
              entries'[i].id = entries[i].id /\ (entries'[i].armed => entries[i].armed)
        /\ \E f \in 1 .. Len(entries) : entries[f].id = id /\ ~entries'[f].armed
    BY <1>5, Removed
  <2>2. PICK f \in 1 .. Len(entries) : entries[f].id = id /\ ~entries'[f].armed
    BY <2>1
  <2>3. Appending' = Appending /\ Issued' = Issued /\ Duplicated' = Duplicated
    BY <1>5 DEF Appending, Issued, Duplicated
  <2>4. CountRight'
    BY <1>5, <2>1, <2>3 DEF CountRight
  <2>5. id \in Issued
    BY <2>2 DEF IdsRight
  <2>6. IdsRight'
    BY <1>5, <2>1, <2>3, <2>5 DEF IdsRight
  <2>7. \A i \in 1 .. Len(entries) : i # f /\ entries[i].id = id => id \in Duplicated
    BY <2>2 DEF IdsRight
  <2>8. \A u \in Appending : added[u].id = id => id \in Duplicated
    BY <2>2 DEF IdsRight
  <2>9. SilentRight'
    BY <1>5, <2>1, <2>2, <2>3, <2>7, <2>8 DEF SilentRight
  <2> QED
    BY <2>4, <2>6, <2>9
<1>6. ASSUME NEW u \in Users, NEW id \in TimerIds, TimerRemove(u, id)
      PROVE  CountRight' /\ IdsRight' /\ SilentRight'
  <2>1. callback = 0 /\ 0 \notin TimerIds
    BY <1>6, TimerAssumption DEF TimerRemove, PassRight, TimerIds
  <2>2. silenced' = silenced \cup ({id} \ {callback})
    BY <1>6, <2>1 DEF TimerRemove
  <2> QED
    BY <1>5, <1>6, <2>2 DEF TimerRemove
<1>7. ASSUME NEW id \in TimerIds, CallbackRemove(id) PROVE CountRight' /\ IdsRight' /\ SilentRight'
  BY <1>5, <1>7 DEF CallbackRemove
<1>8. ASSUME NEW mainloop \in BOOLEAN, CallbackAdd(mainloop) PROVE CountRight' /\ IdsRight' /\ SilentRight'
  <2> DEFINE x == maxIdx + 1
             e == NewEntry(x, mainloop)
  <2>1. /\ UNCHANGED <<silenced, user, added, callback>> /\ Len(issued) < MaxTimers
        /\ maxIdx' = x /\ issued' = Append(issued, x) /\ entries' = Append(entries, e)
    BY <1>8 DEF CallbackAdd
  <2>2. x \in TimerIds /\ x <= Len(issued) + 1
    BY <1>0, <2>1 DEF CountRight, TimerIds
  <2>3. e \in Entry /\ e.id = x
    BY <2>2, EntryTypes
  <2> HIDE DEF e
  <2>4. /\ Len(issued') = Len(issued) + 1 /\ Issued' = Issued \cup {x}
        /\ Duplicated \subseteq Duplicated' /\ (x \in Issued => x \in Duplicated')
    BY <2>1, <2>2, IssuedMore
  <2>5. /\ Len(entries') = Len(entries) + 1 /\ entries'[Len(entries) + 1] = e
        /\ \A i \in 1 .. Len(entries) : entries'[i] = entries[i]
        /\ \A i \in 1 .. Len(entries') : i \in 1 .. Len(entries) \/ i = Len(entries) + 1
    BY <2>1, <2>3, Added
  <2>6. Appending' = Appending
    BY <2>1 DEF Appending
  <2>7. CountRight'
    BY <1>0, <2>1, <2>2, <2>4, <2>5, <2>6 DEF CountRight
  <2> HIDE DEF x
  <2>8. IdsRight'
    BY <2>1, <2>3, <2>4, <2>5, <2>6 DEF IdsRight
  <2>9. SilentRight'
    BY <2>1, <2>3, <2>4, <2>5, <2>6 DEF SilentRight, IdsRight
  <2> QED
    BY <2>7, <2>8, <2>9
<1>9. CASE CallbackEnd
  <2>1. UNCHANGED <<maxIdx, issued, silenced, user, added>> /\ callback # 0 /\ callback' = 0
    BY <1>9 DEF CallbackEnd
  <2>2. /\ Len(entries') = Len(entries) /\ cursor.at \in 1 .. Len(entries)
        /\ \A i \in 1 .. Len(entries) : entries'[i].id = entries[i].id
        /\ \A i \in 1 .. Len(entries) : i # cursor.at => entries'[i] = entries[i]
    BY <1>9, Ended
  <2>3. Appending' = Appending /\ Duplicated' = Duplicated
    BY <2>1 DEF Appending, Duplicated
  <2>4. CountRight' /\ IdsRight'
    BY <2>1, <2>2, <2>3, IdsKept
  <2>5. entries[cursor.at].id = callback
    BY <2>1 DEF PassRight
  <2>6. callback' \notin silenced
    BY <2>1, TimerAssumption DEF TimerShape, TimerIds
  <2> QED
    BY <2>1, <2>2, <2>3, <2>4, <2>5, <2>6 DEF SilentRight
<1>10. CASE ThreadEach \/ PollEach
  <2>1. /\ UNCHANGED <<entries, maxIdx, issued, silenced, user, added>>
        /\ cursor.at \in 1 .. Len(entries)
        /\ UNCHANGED callback \/ (callback' = entries[cursor.at].id /\ entries[cursor.at].armed)
    BY <1>10, EachStep
  <2>2. Appending' = Appending /\ Duplicated' = Duplicated
    BY <2>1 DEF Appending, Duplicated
  <2>3. CountRight' /\ IdsRight'
    BY <2>1, <2>2, IdsKept
  <2> QED
    BY <2>1, <2>2, <2>3 DEF SilentRight
<1>11. CASE ThreadReschedule
  <2>1. UNCHANGED <<maxIdx, issued, silenced, callback, user, added>>
    BY <1>11 DEF ThreadReschedule
  <2>2. /\ Len(entries') \in Nat /\ Len(entries') <= Len(entries)
        /\ \E f \in [1 .. Len(entries') -> 1 .. Len(entries)] :
                 /\ \A i, j \in 1 .. Len(entries') : i # j => f[i] # f[j]
                 /\ \A i \in 1 .. Len(entries') : entries'[i] = entries[f[i]]
    BY <1>11, Rescheduled
  <2>3. PICK f \in [1 .. Len(entries') -> 1 .. Len(entries)] :
                 /\ \A i, j \in 1 .. Len(entries') : i # j => f[i] # f[j]
                 /\ \A i \in 1 .. Len(entries') : entries'[i] = entries[f[i]]
    BY <2>2
  <2>4. Appending' = Appending /\ Duplicated' = Duplicated /\ Issued' = Issued
    BY <2>1 DEF Appending, Duplicated, Issued
  <2>5. CountRight'
    BY <1>0, <2>1, <2>2, <2>4 DEF CountRight
  <2>6. \A i \in 1 .. Len(entries') : f[i] \in 1 .. Len(entries)
    BY <2>3
  <2>7. IdsRight'
    <3>1. /\ silenced' \subseteq Issued'
          /\ \A u \in Appending' : added'[u].id \in Issued'
          /\ \A u, v \in Appending' :
                u # v /\ added'[u].id = added'[v].id => added'[u].id \in Duplicated'
      BY <2>1, <2>4 DEF IdsRight
    <3>2. \A i \in 1 .. Len(entries') : entries'[i].id \in Issued'
      BY <2>3, <2>4, <2>6 DEF IdsRight
    <3>3. ASSUME NEW i \in 1 .. Len(entries'), NEW j \in 1 .. Len(entries'), i # j,
                 entries'[i].id = entries'[j].id
          PROVE  entries'[i].id \in Duplicated'
      <4>1. /\ f[i] \in 1 .. Len(entries) /\ f[j] \in 1 .. Len(entries) /\ f[i] # f[j]
            /\ entries'[i] = entries[f[i]] /\ entries'[j] = entries[f[j]]
        BY <2>3, <2>6, <3>3
      <4>2. QED
        BY <2>4, <3>3, <4>1 DEF IdsRight
    <3>4. ASSUME NEW i \in 1 .. Len(entries'), NEW u \in Appending',
                 entries'[i].id = added'[u].id
          PROVE  entries'[i].id \in Duplicated'
      <4>1. f[i] \in 1 .. Len(entries) /\ entries'[i] = entries[f[i]]
        BY <2>3, <2>6
      <4>2. QED
        BY <2>1, <2>4, <3>4, <4>1 DEF IdsRight
    <3>5. QED
      BY <3>1, <3>2, <3>3, <3>4 DEF IdsRight
  <2>8. SilentRight'
    BY <2>1, <2>3, <2>4, <2>6 DEF SilentRight
  <2> QED
    BY <2>5, <2>7, <2>8
<1>12. ASSUME NEW k \in TimerIds, Expire(k) PROVE CountRight' /\ IdsRight' /\ SilentRight'
  <2>1. UNCHANGED <<maxIdx, issued, silenced, callback, user, added>>
    BY <1>12 DEF Expire
  <2>2. /\ Len(entries') = Len(entries)
        /\ \A i \in 1 .. Len(entries) :
              entries'[i].id = entries[i].id /\ entries'[i].armed = entries[i].armed
    BY <1>12, Expired
  <2>3. Appending' = Appending /\ Duplicated' = Duplicated
    BY <2>1 DEF Appending, Duplicated
  <2>4. CountRight' /\ IdsRight'
    BY <2>1, <2>2, <2>3, IdsKept
  <2> QED
    BY <2>1, <2>2, <2>3, <2>4 DEF SilentRight
<1>13. ASSUME UNCHANGED <<list, callback, user, added>> PROVE CountRight' /\ IdsRight' /\ SilentRight'
  <2>1. Appending' = Appending /\ Duplicated' = Duplicated
    BY <1>13 DEF Appending, Duplicated
  <2>2. CountRight' /\ IdsRight'
    BY <1>13, <2>1, IdsKept
  <2> QED
    BY <1>13, <2>1, <2>2 DEF SilentRight
<1>14. CASE ThreadCheck \/ ThreadWoken \/ ThreadExit \/ ThreadReset \/ ThreadLock
  BY <1>13, <1>14 DEF ThreadCheck, ThreadWoken, ThreadExit, ThreadReset, ThreadLock
<1>15. CASE PollLock \/ PollDone \/ Abort \/ FreeBegin \/ FreeSignal
  BY <1>13, <1>15 DEF PollLock, PollDone, Abort, FreeBegin, FreeSignal
<1> QED
  BY <1>1, <1>2, <1>3, <1>4, <1>6, <1>7, <1>8, <1>9, <1>10, <1>11, <1>12, <1>14, <1>15 DEF Next, Threads

----------------------------------------------------------------------------
(* The wait of the thread *)

\* Nothing is forgotten if an entry that is set now was set before, and the wait still covers it.
LEMMA WaitKept ==
    ASSUME TimerShape, NothingForgotten, UNCHANGED <<thread, watched>>,
           DOMAIN entries' = DOMAIN entries,
           \A i \in DOMAIN entries : entries'[i].id = entries[i].id /\ (entries'[i].armed => entries[i].armed),
           running' => running, ~event' => ~event,
           timeout' = timeout \/ timeout' = "elapsed",
           lock = "main" => lock' = "main",
           \A u \in Users : user[u] = "signal" => user'[u] = "signal"
    PROVE  NothingForgotten'
  BY DEF NothingForgotten

LEMMA ForgottenStep ==
    TimerShape /\ PassRight /\ NothingForgotten /\ Next => NothingForgotten'
<1> SUFFICES ASSUME TimerShape, PassRight, NothingForgotten, Next PROVE NothingForgotten'
  OBVIOUS
<1> USE DEF list, pass, control, sleep
<1>0. DOMAIN entries = 1 .. Len(entries) /\ Len(entries) \in Nat
  BY LenProperties DEF TimerShape
<1>d. \A n \in Nat : entries' \in Seq(Entry) /\ Len(entries') = n => DOMAIN entries' = 1 .. n
  BY LenProperties
<1>1. ASSUME NEW u \in Users, AddRead(u) \/ AddWrite(u) PROVE NothingForgotten'
  <2>1. UNCHANGED <<entries, running, event, lock, thread, timeout, watched>>
    BY <1>1 DEF AddRead, AddWrite
  <2>2. \A v \in Users : user[v] = "signal" => user'[v] = "signal"
    BY <1>1 DEF AddRead, AddWrite, TimerShape
  <2> QED
    BY <2>1, <2>2, WaitKept
<1>2. ASSUME NEW u \in Users, AddAppend(u) PROVE NothingForgotten'
  <2>1. user'[u] = "signal"
    BY <1>2 DEF AddAppend, TimerShape
  <2> QED
    BY <2>1 DEF NothingForgotten
<1>3. ASSUME NEW u \in Users, AddSignal(u) PROVE NothingForgotten'
  BY <1>3 DEF AddSignal, NothingForgotten
<1>4. ASSUME NEW id, entries' = Disabled(id), \E i \in DOMAIN entries : entries[i].id = id,
             UNCHANGED <<running, event, lock, thread, timeout, watched, user>>
      PROVE  NothingForgotten'
  <2>1. /\ DOMAIN entries' = DOMAIN entries
        /\ \A i \in DOMAIN entries : entries'[i].id = entries[i].id /\ (entries'[i].armed => entries[i].armed)
    BY <1>0, <1>d, <1>4, Removed
  <2> QED
    BY <1>4, <2>1, WaitKept
<1>5. ASSUME NEW u \in Users, NEW id \in TimerIds, TimerRemove(u, id) PROVE NothingForgotten'
  BY <1>4, <1>5 DEF TimerRemove
<1>6. ASSUME NEW id \in TimerIds, CallbackRemove(id) PROVE NothingForgotten'
  BY <1>4, <1>6 DEF CallbackRemove
<1>7. ASSUME NEW mainloop \in BOOLEAN, CallbackAdd(mainloop) PROVE NothingForgotten'
  BY <1>7 DEF CallbackAdd, NothingForgotten
<1>8. CASE CallbackEnd
  <2>1. lock # "none" /\ UNCHANGED <<lock, thread>>
    BY <1>8 DEF CallbackEnd, PassRight
  <2>2. thread' \in {"check", "wait"} => lock' = "main"
    BY <2>1 DEF PassRight, TimerShape
  <2> QED
    BY <2>2 DEF NothingForgotten
<1>9. CASE ThreadCheck
  BY <1>9 DEF ThreadCheck, NothingForgotten
<1>10. CASE ThreadWoken \/ ThreadExit \/ ThreadReset \/ ThreadLock
  BY <1>10 DEF ThreadWoken, ThreadExit, ThreadReset, ThreadLock, NothingForgotten
<1>11. CASE ThreadEach \/ PollEach
  <2>1. UNCHANGED <<entries, running, event, lock, thread, timeout, watched, user>>
    BY <1>11, EachStep
  <2> QED
    BY <2>1, WaitKept
<1>12. CASE ThreadReschedule
  <2>1. /\ watched' = {entries'[i].id : i \in DOMAIN entries'}
        /\ timeout' = IF entries' = <<>> THEN "infinite"
                      ELSE IF \E i \in DOMAIN entries' : entries'[i].due THEN "elapsed" ELSE "pending"
    BY <1>12 DEF ThreadReschedule
  <2>2. \A i \in DOMAIN entries' : entries' # <<>>
    <3>1. entries' \in Seq(Entry)
      BY <1>12, Rescheduled
    <3> QED
      BY <3>1, EmptySeq, LenProperties
  <2>3. \A i \in DOMAIN entries' : entries'[i].id \in watched'
    BY <2>1
  <2>4. \A i \in DOMAIN entries' : timeout' \in {"elapsed", "pending"}
    BY <2>1, <2>2
  <2> QED
    BY <2>3, <2>4 DEF NothingForgotten
<1>13. ASSUME NEW k \in TimerIds, Expire(k) PROVE NothingForgotten'
  <2>1. /\ DOMAIN entries' = DOMAIN entries
        /\ \A i \in DOMAIN entries : entries'[i].id = entries[i].id /\ (entries'[i].armed => entries[i].armed)
    BY <1>0, <1>d, <1>13, Expired
  <2>2. /\ UNCHANGED <<running, event, lock, thread, watched, user>>
        /\ timeout' = timeout \/ timeout' = "elapsed"
    BY <1>13 DEF Expire
  <2> QED
    BY <2>1, <2>2, WaitKept
<1>14. CASE PollLock
  BY <1>14 DEF PollLock, NothingForgotten
<1>15. CASE PollDone \/ FreeSignal \/ FreeBegin
  BY <1>15 DEF PollDone, FreeSignal, FreeBegin, NothingForgotten
<1>16. CASE Abort
  BY <1>16, WaitKept DEF Abort
<1> QED
  BY <1>1, <1>2, <1>3, <1>5, <1>6, <1>7, <1>8, <1>9, <1>10, <1>11, <1>12, <1>13, <1>14, <1>15, <1>16
     DEF Next, Threads

----------------------------------------------------------------------------
(* The theorems *)

\* Everything the proofs rest on holds in every state.
THEOREM TimersTheorem == Spec => []TimersRight
<1>1. Init => TimersRight
  <2>1. Init => NothingForgotten
    BY EmptySeq DEF Init, NothingForgotten
  <2> QED
    BY <2>1, ShapeInit, CountInit DEF TimersRight
<1>2. TimersRight /\ [Next]_vars => TimersRight'
  <2>1. ASSUME TimersRight, Next PROVE TimersRight'
    BY <2>1, ShapeStep, PassStep, IdsStep, ForgottenStep DEF TimersRight
  <2>2. ASSUME TimersRight, UNCHANGED vars PROVE TimersRight'
    <3> USE <2>2 DEF vars, list, pass, control, sleep
    <3>1. TimerShape' /\ PassRight'
      BY DEF TimersRight, TimerShape, PassRight
    <3>2. Appending' = Appending /\ Issued' = Issued /\ Duplicated' = Duplicated
      BY DEF Appending, Issued, Duplicated
    <3>3. CountRight' /\ IdsRight' /\ SilentRight'
      BY <3>2 DEF TimersRight, CountRight, IdsRight, SilentRight
    <3>4. NothingForgotten'
      BY WaitKept DEF TimersRight
    <3> QED
      BY <3>1, <3>3, <3>4 DEF TimersRight
  <2> QED
    BY <2>1, <2>2
<1> QED
  BY <1>1, <1>2, PTL DEF Spec

\* While the thread sleeps without a signal on its way, its wait covers every timer that is set
\* (timer_thread, freerdp_timer_add, freerdp_timer_poll).
THEOREM WaitTheorem == Spec => []TimerInv
<1>1. TimersRight => TimerInv
  <2> SUFFICES ASSUME TimersRight PROVE TimerInv
    OBVIOUS
  <2> USE DEF TimersRight
  <2>1. Len(entries) \in Nat /\ Len(issued) \in Nat /\ Cardinality(Appending) \in Nat /\ MaxTimers \in Nat
    <3>1. IsFiniteSet(Appending)
      BY TimerAssumption, FS_Subset DEF Appending
    <3> QED
      BY <3>1, TimerAssumption, FS_CardinalityType, LenProperties DEF TimerShape
  <2>2. cursor.at \in 1 .. MaxTimers + 1 /\ cursor.end <= Len(entries)
    BY <2>1 DEF PassRight, CountRight, TimerShape
  <2>3. Range(entries) \subseteq Entry /\ Range(issued) \subseteq TimerIds
    BY LenProperties DEF Range, TimerShape
  <2>4. TimerTypeOK
    BY <2>2, <2>3 DEF TimerShape, PassRight, TimerTypeOK
  <2> QED
    BY <2>4 DEF TimerInv
<1> QED
  BY <1>1, TimersTheorem, PTL

\* A timer that was removed from outside its own callback does not run again, unless its id was
\* given out twice (freerdp_timer_remove, runExpiredTimer, runExpiredTimerOnMainloop).
THEOREM SilenceTheorem == Spec => RemovedStaysSilent
<1>1. TimersRight /\ [Next]_vars
        => [callback = 0 /\ callback' # 0 => callback' \notin silenced \ Duplicated]_vars
  <2> SUFFICES ASSUME TimersRight, Next, callback = 0, callback' # 0
               PROVE  callback' \notin silenced \ Duplicated
    BY DEF vars
  <2> USE DEF TimersRight, list, pass, control, sleep
  <2>1. ThreadEach \/ PollEach
    <3>1. \A u \in Users : AddRead(u) \/ AddWrite(u) \/ AddAppend(u) \/ AddSignal(u) => UNCHANGED callback
      BY DEF AddRead, AddWrite, AddAppend, AddSignal
    <3>2. \A u \in Users, id \in TimerIds : TimerRemove(u, id) \/ CallbackRemove(id) \/ Expire(id) => UNCHANGED callback
      BY DEF TimerRemove, CallbackRemove, Expire
    <3>3. \A m \in BOOLEAN : CallbackAdd(m) \/ CallbackEnd => UNCHANGED callback \/ callback' = 0
      BY DEF CallbackAdd, CallbackEnd
    <3>4. ThreadCheck \/ ThreadWoken \/ ThreadExit \/ ThreadReset \/ ThreadLock \/ ThreadReschedule => UNCHANGED callback
      BY DEF ThreadCheck, ThreadWoken, ThreadExit, ThreadReset, ThreadLock, ThreadReschedule
    <3>5. PollLock \/ PollDone \/ Abort \/ FreeBegin \/ FreeSignal => UNCHANGED callback
      BY DEF PollLock, PollDone, Abort, FreeBegin, FreeSignal
    <3> QED
      BY <3>1, <3>2, <3>3, <3>4, <3>5 DEF Next, Threads, CallbackRemove, Expire
  <2>2. UNCHANGED <<silenced, issued>>
    BY <2>1, EachStep
  <2>3. Duplicated' = Duplicated
    BY <2>2 DEF Duplicated
  <2>4. SilentRight'
    BY IdsStep
  <2> QED
    BY <2>2, <2>3, <2>4 DEF SilentRight
<1> QED
  BY <1>1, TimersTheorem, PTL DEF Spec, RemovedStaysSilent

=============================================================================
