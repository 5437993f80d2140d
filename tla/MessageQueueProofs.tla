------------------------- MODULE MessageQueueProofs -------------------------
(***************************************************************************)
(* Proofs about the message queue, for every initial room, increment and   *)
(* limit: its indices stay inside the array, its event and its consumer    *)
(* agree with its size, and the ring implements the first-in first-out     *)
(* contract, growth while wrapped included.                                *)
(***************************************************************************)
EXTENDS MessageQueue, SequenceTheorems, TLAPS

\* Where the tail is; what MessageQueue_EnsureCapacity relies on to see that the entries wrap.
TailFollows == tail = (head + size) % capacity

\* The inductive invariant of the ring and of its consumer's loop.
QueueInv == QueueTypeOK /\ TailFollows /\ EventTellsNonEmpty /\ PeekFindsMessage

\* A position of the queue is a slot of the array.
LEMMA SlotValue ==
    ASSUME QueueTypeOK, NEW i \in 1 .. size
    PROVE  /\ Slot(i) = IF head + i - 1 < capacity THEN head + i - 1 ELSE head + i - 1 - capacity
           /\ Slot(i) \in 0 .. capacity - 1
<1>1. /\ capacity \in Nat \ {0} /\ head \in 0 .. capacity - 1 /\ size \in 0 .. capacity
  BY DEF QueueTypeOK
<1>2. head + i - 1 \in Nat /\ head + i - 1 < 2 * capacity
  BY <1>1
<1>3. (head + i - 1) % capacity
        = IF head + i - 1 < capacity THEN head + i - 1 ELSE head + i - 1 - capacity
  BY <1>1, <1>2
<1> QED
  BY <1>1, <1>2, <1>3 DEF Slot

\* What MessageQueue_EnsureCapacity guarantees: room for one more message, the tail where it
\* belongs, and every message at its position, also when the wrapped entries were moved.
LEMMA EnsuredKeeps ==
    ASSUME QueueTypeOK, TailFollows
    PROVE  /\ Ensured.capacity \in Nat \ {0}
           /\ Ensured.capacity > size /\ Ensured.capacity >= capacity
           /\ Ensured.tail = (head + size) % Ensured.capacity
           /\ Ensured.tail \in 0 .. Ensured.capacity - 1
           /\ Ensured.array \in [0 .. Ensured.capacity - 1 -> Posted \cup {Zero}]
           /\ \A i \in 1 .. size : Ensured.array[(head + i - 1) % Ensured.capacity] = array[Slot(i)]
<1>1. /\ capacity \in Nat \ {0} /\ head \in 0 .. capacity - 1 /\ tail \in 0 .. capacity - 1
      /\ size \in 0 .. capacity /\ array \in [0 .. capacity - 1 -> Posted \cup {Zero}]
      /\ Increment \in Nat \ {0}
  BY QueueAssumption DEF QueueTypeOK
<1>2. CASE size + 1 <= capacity
  <2>1. Ensured = [capacity |-> capacity, tail |-> tail, array |-> array]
    BY <1>2 DEF Ensured
  <2> QED
    BY <1>1, <1>2, <2>1 DEF Slot, TailFollows
<1>3. CASE ~(size + 1 <= capacity)
  <2>1. size = capacity /\ tail = head
    <3>1. size = capacity
      BY <1>1, <1>3
    <3>2. (head + size) % capacity = head
      BY <1>1, <3>1
    <3> QED
      BY <3>1, <3>2 DEF TailFollows
  <2> DEFINE new == size + 1 + Increment
             slots == new - capacity
             batch == IF tail < slots THEN tail ELSE slots
  <2>2. /\ new \in Nat \ {0} /\ new > capacity /\ slots \in Nat \ {0} /\ batch \in Nat
        /\ batch <= tail /\ batch <= slots /\ new = capacity + slots
    BY <1>1, <2>1
  <2>3. Ensured.capacity = new
    BY <1>1, <1>3, <2>1 DEF Ensured
  <2>4. Ensured.tail = IF tail < slots THEN tail + capacity ELSE tail - batch
    BY <1>1, <1>3, <2>1 DEF Ensured, Rearranged
  <2>5. Ensured.array = [i \in 0 .. new - 1 |->
                      IF i >= capacity
                      THEN IF i - capacity < batch THEN array[i - capacity] ELSE Zero
                      ELSE IF i >= tail THEN array[i]
                      ELSE IF i + batch < tail THEN array[i + batch] ELSE Zero]
    BY <1>1, <1>3, <2>1 DEF Ensured, Rearranged
  <2> HIDE DEF new, batch
  <2>6. Ensured.array \in [0 .. new - 1 -> Posted \cup {Zero}]
    <3>1. SUFFICES ASSUME NEW i \in 0 .. new - 1
                   PROVE  Ensured.array[i] \in Posted \cup {Zero}
      BY <2>5
    <3>2. CASE i >= capacity
      BY <1>1, <2>2, <2>5, <3>2
    <3>3. CASE i < capacity
      BY <1>1, <2>2, <2>5, <3>3
    <3> QED
      BY <1>1, <2>2, <3>2, <3>3
  <2>7. Ensured.tail = (head + size) % new /\ Ensured.tail \in 0 .. new - 1
    <3>1. (head + size) % new = IF head + size < new THEN head + size ELSE head + size - new
      BY <1>1, <2>1, <2>2
    <3> QED
      BY <1>1, <2>1, <2>2, <2>4, <3>1 DEF batch
  <2>8. ASSUME NEW i \in 1 .. size
        PROVE  Ensured.array[(head + i - 1) % new] = array[Slot(i)]
    <3>1. (head + i - 1) % new = IF head + i - 1 < new THEN head + i - 1 ELSE head + i - 1 - new
      BY <1>1, <2>1, <2>2
    <3>2. Slot(i) = IF head + i - 1 < capacity THEN head + i - 1 ELSE head + i - 1 - capacity
      BY SlotValue
    <3>3. CASE head + i - 1 < capacity
      BY <1>1, <2>1, <2>2, <2>5, <3>1, <3>2, <3>3
    <3>4. CASE head + i - 1 >= capacity /\ head + i - 1 < new
      <4>1. head + i - 1 - capacity < batch
        BY <1>1, <2>1, <2>2, <3>4 DEF batch
      <4> QED
        BY <1>1, <2>1, <2>2, <2>5, <3>1, <3>2, <3>4, <4>1
    <3>5. CASE head + i - 1 >= new
      <4>1. batch = slots
        BY <1>1, <2>1, <2>2, <3>5 DEF batch
      <4> QED
        BY <1>1, <2>1, <2>2, <2>5, <3>1, <3>2, <3>5, <4>1
    <3> QED
      BY <1>1, <2>2, <3>3, <3>4, <3>5
  <2>9. \A i \in 1 .. size : Ensured.array[(head + i - 1) % Ensured.capacity] = array[Slot(i)]
    BY <2>3, <2>8, Zenon
  <2>10. /\ Ensured.capacity \in Nat \ {0}
         /\ Ensured.capacity > size /\ Ensured.capacity >= capacity
    BY <1>1, <2>1, <2>2, <2>3
  <2>11. /\ Ensured.tail = (head + size) % Ensured.capacity
         /\ Ensured.tail \in 0 .. Ensured.capacity - 1
         /\ Ensured.array \in [0 .. Ensured.capacity - 1 -> Posted \cup {Zero}]
    BY <2>3, <2>6, <2>7, Zenon
  <2> QED
    BY <2>9, <2>10, <2>11, Zenon
<1> QED
  BY <1>2, <1>3

-----------------------------------------------------------------------------
\* MessageQueue_Dispatch keeps the ring in order and appends the message to the queue.
LEMMA DispatchStep ==
    ASSUME QueueInv, NEW m \in Posted, Dispatch(m)
    PROVE  /\ QueueInv'
           /\ \A i \in 1 .. size : array'[Slot(i)'] = array[Slot(i)]
           /\ array'[Slot(size)'] = m
<1> DEFINE cap == Ensured.capacity
           arr == Ensured.array
           tl  == Ensured.tail
<1>1. /\ capacity \in Nat \ {0} /\ head \in 0 .. capacity - 1 /\ size \in 0 .. capacity
      /\ TailFollows /\ QueueTypeOK
  BY DEF QueueInv, QueueTypeOK
<1>2. /\ cap \in Nat \ {0} /\ cap > size /\ cap >= capacity
      /\ tl = (head + size) % cap /\ tl \in 0 .. cap - 1
      /\ arr \in [0 .. cap - 1 -> Posted \cup {Zero}]
      /\ \A i \in 1 .. size : arr[(head + i - 1) % cap] = array[Slot(i)]
  BY <1>1, EnsuredKeeps
<1>3. /\ capacity' = cap /\ array' = [arr EXCEPT ![tl] = m] /\ tail' = (tl + 1) % cap
      /\ size' = size + 1 /\ head' = head /\ event' = TRUE /\ closed' \in BOOLEAN
      /\ consumer' = consumer /\ message' = message
  BY DEF Dispatch, Advance
<1> HIDE DEF cap, arr, tl
<1>10. cap \in Nat \ {0} /\ head \in 0 .. cap - 1 /\ size \in 0 .. cap - 1
  BY <1>1, <1>2
<1>11. tl = IF head + size < cap THEN head + size ELSE head + size - cap
  <2>1. (head + size) % cap = IF head + size < cap THEN head + size ELSE head + size - cap
    BY <1>10
  <2> QED
    BY <1>2, <2>1, Zenon
<1>4. /\ tail' \in 0 .. capacity' - 1 /\ TailFollows'
  <2>1. (tl + 1) % cap = IF tl + 1 < cap THEN tl + 1 ELSE 0
    BY <1>2
  <2>2. (head + (size + 1)) % cap
          = IF head + (size + 1) < cap THEN head + (size + 1) ELSE head + (size + 1) - cap
    BY <1>10
  <2>3. (tl + 1) % cap = (head + (size + 1)) % cap /\ (tl + 1) % cap \in 0 .. cap - 1
    BY <1>10, <1>11, <2>1, <2>2
  <2> QED
    BY <1>3, <2>3 DEF TailFollows
<1>5. array' \in [0 .. capacity' - 1 -> Posted \cup {Zero}]
  BY <1>2, <1>3
<1>6. QueueTypeOK'
  BY <1>1, <1>2, <1>3, <1>4, <1>5 DEF QueueTypeOK
<1>7. EventTellsNonEmpty' /\ PeekFindsMessage'
  BY <1>1, <1>3 DEF EventTellsNonEmpty, PeekFindsMessage
<1>8. ASSUME NEW i \in 1 .. size
      PROVE  array'[Slot(i)'] = array[Slot(i)]
  <2>1. Slot(i)' = (head + i - 1) % cap
    BY <1>3 DEF Slot
  <2>4. (head + i - 1) % cap = IF head + i - 1 < cap THEN head + i - 1 ELSE head + i - 1 - cap
    BY <1>10
  <2>2. (head + i - 1) % cap \in 0 .. cap - 1 /\ (head + i - 1) % cap # tl
    BY <1>10, <1>11, <2>4
  <2>3. array'[(head + i - 1) % cap] = arr[(head + i - 1) % cap]
    BY <1>2, <1>3, <2>2
  <2> QED
    BY <1>2, <2>1, <2>3, Zenon
<1>9. array'[Slot(size)'] = m
  <2>1. Slot(size)' = (head + (size + 1) - 1) % cap /\ head + (size + 1) - 1 = head + size
    BY <1>1, <1>3 DEF Slot
  <2> QED
    BY <1>2, <1>3, <2>1
<1> QED
  BY <1>4, <1>6, <1>7, <1>8, <1>9 DEF QueueInv

\* MessageQueue_Peek finds a message, removes the first one and leaves the others where they
\* are, one position further to the front.
LEMMA PeekStep ==
    ASSUME QueueInv, Peek
    PROVE  /\ QueueInv'
           /\ size > 0 /\ size' = size - 1
           /\ message' = array[Slot(1)]
           /\ \A i \in 1 .. size - 1 : array'[Slot(i)'] = array[Slot(i + 1)]
<1>1. /\ capacity \in Nat \ {0} /\ head \in 0 .. capacity - 1 /\ size \in 0 .. capacity
      /\ array \in [0 .. capacity - 1 -> Posted \cup {Zero}]
      /\ TailFollows /\ QueueTypeOK /\ EventTellsNonEmpty
  BY DEF QueueInv, QueueTypeOK
<1>2. size > 0
  BY DEF QueueInv, PeekFindsMessage, Peek
<1>3. /\ message' = array[head] /\ array' = [array EXCEPT ![head] = Zero]
      /\ head' = (head + 1) % capacity /\ size' = size - 1 /\ event' = (event /\ size - 1 >= 1)
      /\ consumer' \in {"done", "wait", "failed"}
      /\ tail' = tail /\ capacity' = capacity /\ closed' = closed
  BY <1>2 DEF Peek, Emptied, Advance, EventAfter
<1>4. /\ head' \in 0 .. capacity - 1
      /\ TailFollows'
  <2>1. /\ capacity \in Nat \ {0} /\ head \in 0 .. capacity - 1 /\ size \in 1 .. capacity
    BY <1>1, <1>2
  <2>2. (head + 1) % capacity = IF head + 1 < capacity THEN head + 1 ELSE 0
    BY <2>1
  <2>3. (((head + 1) % capacity) + (size - 1)) % capacity = (head + size) % capacity
    <3>1. CASE head + 1 < capacity
      BY <2>1, <2>2, <3>1
    <3>2. CASE ~(head + 1 < capacity)
      <4>1. (head + size) % capacity = size - 1
        BY <2>1, <3>2
      <4>2. (0 + (size - 1)) % capacity = size - 1
        BY <2>1
      <4> QED
        BY <2>2, <3>2, <4>1, <4>2
    <3> QED
      BY <3>1, <3>2
  <2>4. head' \in 0 .. capacity - 1
    BY <1>3, <2>1, <2>2
  <2>5. TailFollows'
    BY <1>1, <1>3, <2>3, Zenon DEF TailFollows
  <2> QED
    BY <2>4, <2>5
<1>5. event' \in BOOLEAN /\ EventTellsNonEmpty'
  <2>1. event = TRUE
    BY <1>1, <1>2 DEF EventTellsNonEmpty, QueueTypeOK
  <2>2. event' <=> size - 1 >= 1
    BY <1>3, <2>1, Zenon
  <2>3. size - 1 >= 1 <=> size' > 0
    BY <1>1, <1>3
  <2>4. event' \in BOOLEAN
    BY <1>3, Zenon
  <2> QED
    BY <2>2, <2>3, <2>4, Zenon DEF EventTellsNonEmpty
<1>6. QueueTypeOK' /\ PeekFindsMessage'
  BY <1>1, <1>2, <1>3, <1>4, <1>5 DEF QueueTypeOK, PeekFindsMessage
<1>7. message' = array[Slot(1)]
  BY <1>1, <1>3 DEF Slot
<1>8. ASSUME NEW i \in 1 .. size - 1
      PROVE  array'[Slot(i)'] = array[Slot(i + 1)]
  <2>1. /\ Slot(i)' = (head' + i - 1) % capacity
        /\ Slot(i + 1) = (head + (i + 1) - 1) % capacity
    BY <1>3 DEF Slot
  <2>2. (head' + i - 1) % capacity = (head + (i + 1) - 1) % capacity
    <3>1. head' = IF head + 1 < capacity THEN head + 1 ELSE 0
      BY <1>1, <1>3
    <3>2. (head + (i + 1) - 1) % capacity = IF head + i < capacity THEN head + i ELSE head + i - capacity
      BY <1>1
    <3>3. CASE head + 1 < capacity
      BY <1>1, <3>1, <3>3
    <3>4. CASE ~(head + 1 < capacity)
      <4>1. head' = 0 /\ head + i - capacity = i - 1 /\ i - 1 \in 0 .. capacity - 1
        BY <1>1, <3>1, <3>4
      <4>2. (head' + i - 1) % capacity = i - 1
        BY <1>1, <4>1
      <4> QED
        BY <1>1, <3>2, <4>1, <4>2
    <3> QED
      BY <3>3, <3>4
  <2>3. (head + (i + 1) - 1) % capacity \in 0 .. capacity - 1 /\ (head + (i + 1) - 1) % capacity # head
    BY <1>1
  <2> QED
    BY <1>1, <1>3, <2>1, <2>2, <2>3
<1> QED
  BY <1>2, <1>3, <1>4, <1>5, <1>6, <1>7, <1>8 DEF QueueInv

\* The invariant holds initially and every step keeps it.
LEMMA QueueInvInit ==
    Init => QueueInv
<1> SUFFICES ASSUME Init PROVE QueueInv
  OBVIOUS
<1>1. capacity \in Nat \ {0} /\ head = 0 /\ tail = 0 /\ size = 0
  BY QueueAssumption DEF Init
<1>2. array \in [0 .. capacity - 1 -> Posted \cup {Zero}]
  BY DEF Init
<1>3. QueueTypeOK
  <2>1. /\ closed \in BOOLEAN /\ event \in BOOLEAN /\ message \in Posted \cup {Zero}
        /\ consumer \in {"wait", "woken", "done", "failed"}
    BY DEF Init
  <2>2. /\ head \in 0 .. capacity - 1 /\ tail \in 0 .. capacity - 1 /\ size \in 0 .. capacity
    BY <1>1
  <2> QED
    BY <1>1, <1>2, <2>1, <2>2 DEF QueueTypeOK
<1>4. TailFollows
  BY <1>1 DEF TailFollows
<1>5. EventTellsNonEmpty /\ PeekFindsMessage
  BY <1>1 DEF Init, EventTellsNonEmpty, PeekFindsMessage
<1> QED
  BY <1>3, <1>4, <1>5 DEF QueueInv

LEMMA QueueInvStep ==
    QueueInv /\ [Next]_vars => QueueInv'
<1> SUFFICES ASSUME QueueInv, [Next]_vars PROVE QueueInv'
  OBVIOUS
<1>1. CASE \E m \in Posted : Dispatch(m)
  BY <1>1, DispatchStep
<1>2. CASE Wait
  BY <1>2 DEF Wait, QueueInv, QueueTypeOK, TailFollows, EventTellsNonEmpty, PeekFindsMessage
<1>3. CASE Peek
  BY <1>3, PeekStep
<1>4. CASE Clear
  <2>1. (head + size) % capacity \in 0 .. capacity - 1
    BY DEF QueueInv, QueueTypeOK
  <2>2. (((head + size) % capacity) + 0) % capacity = (head + size) % capacity
    BY <2>1 DEF QueueInv, QueueTypeOK
  <2>3. QueueTypeOK'
    <3>1. QueueTypeOK
      BY DEF QueueInv
    <3>2. array' \in [0 .. capacity' - 1 -> Posted \cup {Zero}]
      BY <1>4, <3>1 DEF Clear, QueueTypeOK
    <3>3. /\ capacity' \in Nat \ {0} /\ head' \in 0 .. capacity' - 1 /\ tail' \in 0 .. capacity' - 1
          /\ size' \in 0 .. capacity'
      BY <1>4, <2>1, <3>1 DEF Clear, QueueTypeOK
    <3>4. /\ closed' \in BOOLEAN /\ event' \in BOOLEAN /\ message' \in Posted \cup {Zero}
          /\ consumer' \in {"wait", "woken", "done", "failed"}
      BY <1>4, <3>1 DEF Clear, QueueTypeOK
    <3> QED
      BY <3>2, <3>3, <3>4 DEF QueueTypeOK
  <2>5. EventTellsNonEmpty' /\ PeekFindsMessage'
    BY <1>4 DEF Clear, EventTellsNonEmpty, PeekFindsMessage
  <2>4. TailFollows'
    BY <1>4, <2>2 DEF Clear, QueueInv, TailFollows
  <2> QED
    BY <2>3, <2>4, <2>5 DEF QueueInv
<1>5. CASE UNCHANGED vars
  BY <1>5 DEF vars, QueueInv, QueueTypeOK, TailFollows, EventTellsNonEmpty, PeekFindsMessage
<1> QED
  BY <1>1, <1>2, <1>3, <1>4, <1>5 DEF Next

LEMMA QueueInvTheorem ==
    Spec => []QueueInv
  BY QueueInvInit, QueueInvStep, PTL DEF Spec

\* The type invariant: head, tail and size stay within the array through every growth.
THEOREM TypeTheorem == Spec => []QueueTypeOK
<1>1. QueueInv => QueueTypeOK
  BY DEF QueueInv
<1> QED
  BY <1>1, QueueInvTheorem, PTL

\* The event of the queue is set exactly while it holds a message.
THEOREM EventTheorem == Spec => []EventTellsNonEmpty
<1>1. QueueInv => EventTellsNonEmpty
  BY DEF QueueInv
<1> QED
  BY <1>1, QueueInvTheorem, PTL

\* A consumer that was woken finds a message when it has taken the lock.
THEOREM PeekTheorem == Spec => []PeekFindsMessage
<1>1. QueueInv => PeekFindsMessage
  BY DEF QueueInv
<1> QED
  BY <1>1, QueueInvTheorem, PTL

-----------------------------------------------------------------------------
\* A sequence one longer that agrees with s and ends in e is s with e appended.
LEMMA AppendValue ==
    ASSUME NEW S, NEW s \in Seq(S), NEW e \in S, NEW t \in Seq(S), Len(t) = Len(s) + 1,
           \A i \in 1 .. Len(s) : t[i] = s[i], t[Len(s) + 1] = e
    PROVE  t = Append(s, e)
<1>1. /\ Append(s, e) \in Seq(S) /\ Len(Append(s, e)) = Len(s) + 1 /\ Len(s) \in Nat
      /\ \A i \in 1 .. Len(s) : Append(s, e)[i] = s[i]
      /\ Append(s, e)[Len(s) + 1] = e
  BY AppendProperties, LenProperties
<1>2. \A i \in 1 .. Len(t) : t[i] = Append(s, e)[i]
  BY <1>1
<1> QED
  BY <1>1, <1>2, SeqEqual

\* A sequence one shorter that agrees with s from its second element on is the tail of s.
LEMMA TailValue ==
    ASSUME NEW S, NEW s \in Seq(S), s # <<>>, NEW t \in Seq(S), Len(t) = Len(s) - 1,
           \A i \in 1 .. Len(t) : t[i] = s[i + 1]
    PROVE  t = Tail(s)
<1>1. /\ Tail(s) \in Seq(S) /\ Len(Tail(s)) = Len(s) - 1
      /\ \A i \in 1 .. Len(Tail(s)) : Tail(s)[i] = s[i + 1]
  BY HeadTailProperties
<1> QED
  BY <1>1, SeqEqual

\* The messages that wait form a sequence as long as the size.
LEMMA ContentsSeq ==
    ASSUME QueueTypeOK
    PROVE  /\ Contents \in Seq(Posted \cup {Zero})
           /\ Len(Contents) = size
           /\ \A i \in 1 .. size : Contents[i] = array[Slot(i)]
<1>1. size \in Nat
  BY DEF QueueTypeOK
<1>2. \A i \in 1 .. size : array[Slot(i)] \in Posted \cup {Zero}
  BY SlotValue DEF QueueTypeOK
<1> QED
  BY <1>1, <1>2 DEF Contents

\* MessageQueue_Dispatch puts the message at the end of the queue.
LEMMA DispatchAppends ==
    ASSUME QueueInv, NEW m \in Posted, Dispatch(m)
    PROVE  Contents' = Append(Contents, m)
<1>1. QueueTypeOK /\ QueueTypeOK'
  BY DispatchStep DEF QueueInv
<1>2. /\ \A i \in 1 .. size : array'[Slot(i)'] = array[Slot(i)]
      /\ array'[Slot(size)'] = m
  BY DispatchStep
<1>3. size \in Nat /\ size' = size + 1
  BY <1>1 DEF Dispatch, QueueTypeOK
<1>4. /\ Contents \in Seq(Posted \cup {Zero}) /\ Len(Contents) = size
      /\ \A i \in 1 .. size : Contents[i] = array[Slot(i)]
  BY <1>1, ContentsSeq
<1>5. Contents' = [i \in 1 .. size + 1 |-> array'[(head' + i - 1) % capacity']]
  BY <1>3 DEF Contents, Slot
<1>6. ASSUME NEW i \in 1 .. size + 1
      PROVE  array'[(head' + i - 1) % capacity'] = IF i <= size THEN Contents[i] ELSE m
  <2>1. CASE i \in 1 .. size
    BY <1>2, <1>4, <2>1 DEF Slot
  <2>2. CASE i = size'
    BY <1>2, <1>3, <2>2 DEF Slot
  <2> QED
    BY <1>3, <2>1, <2>2
<1>7. /\ Contents' \in Seq(Posted \cup {Zero}) /\ Len(Contents') = Len(Contents) + 1
      /\ \A i \in 1 .. Len(Contents) : Contents'[i] = Contents[i]
      /\ Contents'[Len(Contents) + 1] = m
  <2>1. \A i \in 1 .. size + 1 : array'[(head' + i - 1) % capacity'] \in Posted \cup {Zero}
    <3>1. \A i \in 1 .. size : Contents[i] \in Posted \cup {Zero}
      BY <1>4, ElementOfSeq
    <3> QED
      BY <1>3, <1>6, <3>1
  <2>2. Contents' \in Seq(Posted \cup {Zero}) /\ Len(Contents') = size + 1
    BY <1>3, <1>5, <2>1
  <2>3. \A i \in 1 .. size + 1 : Contents'[i] = IF i <= size THEN Contents[i] ELSE m
    BY <1>5, <1>6
  <2> QED
    BY <1>3, <1>4, <2>2, <2>3
<1> QED
  BY <1>4, <1>7, AppendValue

\* MessageQueue_Peek takes the first message of a queue that has one.
LEMMA PeekTakes ==
    ASSUME QueueInv, Peek
    PROVE  /\ Contents # <<>>
           /\ message' = Head(Contents)
           /\ Contents' = Tail(Contents)
<1>1. QueueTypeOK /\ size \in Nat
  BY DEF QueueInv, QueueTypeOK
<1>2. /\ size > 0 /\ size' = size - 1 /\ message' = array[Slot(1)]
      /\ \A i \in 1 .. size - 1 : array'[Slot(i)'] = array[Slot(i + 1)]
  BY PeekStep
<1>3. /\ Contents \in Seq(Posted \cup {Zero}) /\ Len(Contents) = size
      /\ \A i \in 1 .. size : Contents[i] = array[Slot(i)]
  BY <1>1, ContentsSeq
<1>4. Contents' = [i \in 1 .. size - 1 |-> array'[Slot(i)']]
  BY <1>2 DEF Contents
<1>5. ASSUME NEW i \in 1 .. size - 1
      PROVE  array'[Slot(i)'] = Contents[i + 1]
  BY <1>1, <1>2, <1>3
<1>6. Contents # <<>> /\ Head(Contents) = Contents[1]
  BY <1>1, <1>2, <1>3
<1>7. /\ Contents' \in Seq(Posted \cup {Zero}) /\ Len(Contents') = Len(Contents) - 1
      /\ \A i \in 1 .. Len(Contents') : Contents'[i] = Contents[i + 1]
  <2>1. \A i \in 1 .. size - 1 : array'[Slot(i)'] \in Posted \cup {Zero}
    BY <1>1, <1>3, <1>5
  <2>2. Contents' \in Seq(Posted \cup {Zero}) /\ Len(Contents') = size - 1
    BY <1>1, <1>2, <1>4, <2>1
  <2> QED
    BY <1>3, <1>4, <1>5, <2>2
<1>8. Contents' = Tail(Contents)
  BY <1>3, <1>6, <1>7, TailValue
<1> QED
  BY <1>1, <1>2, <1>3, <1>6, <1>8

\* MessageQueue implements QueueContract: every message posted by any thread is taken once and
\* in the order of posting, whatever the growth of the ring has moved.
THEOREM ContractTheorem == Spec => ImplementsContract
<1>1. Init => Contract!Init
  <2> SUFFICES ASSUME Init PROVE Contract!Init
    OBVIOUS
  <2>1. Contents = <<>>
    BY DEF Init, Contents
  <2> QED
    BY <2>1 DEF Init, Contract!Init
<1>2. ASSUME QueueInv, [Next]_vars
      PROVE  [Contract!Next]_<<Contents, closed, message>>
  <2>1. CASE \E m \in Posted : Dispatch(m)
    <3>1. PICK m \in Posted : Dispatch(m)
      BY <2>1
    <3>2. Contents' = Append(Contents, m)
      BY <1>2, <3>1, DispatchAppends
    <3>3. ~closed /\ closed' = (m = Quit) /\ UNCHANGED message
      BY <3>1 DEF Dispatch
    <3>4. Contract!Put(m)
      BY <3>2, <3>3 DEF Contract!Put
    <3> QED
      BY <3>4 DEF Contract!Next, Posted
  <2>2. CASE Wait
    BY <2>2 DEF Wait, Contents, Slot
  <2>3. CASE Peek
    <3>1. Contract!Take
      BY <1>2, <2>3, PeekTakes DEF Contract!Take, Peek
    <3> QED
      BY <3>1 DEF Contract!Next
  <2>4. CASE Clear
    <3>1. Contents' = <<>>
      BY <2>4 DEF Clear, Contents
    <3>2. Contract!Clear
      BY <2>4, <3>1 DEF Clear, Contract!Clear
    <3> QED
      BY <3>2 DEF Contract!Next
  <2>5. CASE UNCHANGED vars
    BY <2>5 DEF vars, Contents, Slot
  <2> QED
    BY <1>2, <2>1, <2>2, <2>3, <2>4, <2>5 DEF Next
<1> QED
  BY <1>1, <1>2, QueueInvTheorem, PTL DEF Spec, ImplementsContract, Contract!Spec

-----------------------------------------------------------------------------
\* The inductive form of QuitIsLast: a consumer that has ended has closed the queue behind it.
QuitInv == QuitIsLast /\ (consumer = "done" => closed)

LEMMA QuitInvInit ==
    Init => QuitInv
  BY DEF Init, QuitInv, QuitIsLast

LEMMA QuitInvStep ==
    QueueInv /\ QuitInv /\ [Next]_vars => QuitInv'
<1> SUFFICES ASSUME QueueInv, QuitInv, [Next]_vars PROVE QuitInv'
  OBVIOUS
<1>1. QueueTypeOK /\ size \in Nat
  BY DEF QueueInv, QueueTypeOK
<1>2. /\ Len(Contents) = size
      /\ \A i \in 1 .. size : Contents[i] = array[Slot(i)]
      /\ \A i \in 1 .. size : Contents[i] = Quit => closed /\ i = size
  BY <1>1, ContentsSeq DEF QuitInv, QuitIsLast
<1>3. CASE \E m \in Posted : Dispatch(m)
  <2>1. PICK m \in Posted : Dispatch(m)
    BY <1>3
  <2>2. /\ Contents' = Append(Contents, m) /\ size' = size + 1
        /\ ~closed /\ closed' = (m = Quit) /\ consumer' = consumer
    BY <2>1, DispatchAppends DEF Dispatch
  <2>3. Contents \in Seq(Posted \cup {Zero})
    BY <1>1, ContentsSeq
  <2>4. /\ \A i \in 1 .. size : Contents'[i] = Contents[i]
        /\ Contents'[size + 1] = m
    BY <1>2, <2>2, <2>3, AppendProperties
  <2>5. \A i \in 1 .. size' : Contents'[i] = Quit => closed' /\ i = size'
    <3>1. SUFFICES ASSUME NEW i \in 1 .. size + 1, Contents'[i] = Quit
                   PROVE  closed' /\ i = size + 1
      BY <2>2
    <3>2. ~(i \in 1 .. size)
      BY <1>2, <2>2, <2>4, <3>1
    <3>3. i = size + 1
      BY <1>1, <3>2
    <3>4. m = Quit
      BY <2>4, <3>1, <3>3
    <3> QED
      BY <2>2, <3>3, <3>4, Zenon
  <2> QED
    BY <2>2, <2>5 DEF QuitInv, QuitIsLast
<1>4. CASE Wait
  BY <1>4 DEF Wait, QuitInv, QuitIsLast, Contents, Slot
<1>5. CASE Peek
  <2>1. /\ Contents # <<>> /\ message' = Head(Contents) /\ Contents' = Tail(Contents)
        /\ size > 0 /\ size' = size - 1 /\ closed' = closed
        /\ consumer' = "done" => message' = Quit
    BY <1>5, PeekTakes, PeekStep DEF Peek
  <2>2. Contents \in Seq(Posted \cup {Zero})
    BY <1>1, ContentsSeq
  <2>3. /\ Len(Tail(Contents)) = size - 1
        /\ \A i \in 1 .. size - 1 : Tail(Contents)[i] = Contents[i + 1]
        /\ Head(Contents) = Contents[1]
    BY <1>1, <1>2, <2>1, <2>2, HeadTailProperties
  <2>4. \A i \in 1 .. size' : Contents'[i] = Quit => closed' /\ i = size'
    BY <1>1, <1>2, <2>1, <2>3
  <2>5. consumer' = "done" => size' = 0 /\ closed'
    BY <1>1, <1>2, <2>1, <2>3
  <2> QED
    BY <2>4, <2>5 DEF QuitInv, QuitIsLast
<1>6. CASE Clear
  BY <1>6 DEF Clear, QuitInv, QuitIsLast
<1>7. CASE UNCHANGED vars
  BY <1>7 DEF vars, QuitInv, QuitIsLast, Contents, Slot
<1> QED
  BY <1>3, <1>4, <1>5, <1>6, <1>7 DEF Next

\* WMQ_QUIT is the last message of a closed queue and in no other one, and a consumer that
\* leaves its loop leaves no message behind.
THEOREM QuitTheorem == Spec => []QuitIsLast
<1>1. Spec => []QuitInv
  BY QuitInvInit, QuitInvStep, QueueInvTheorem, PTL DEF Spec
<1>2. QuitInv => QuitIsLast
  BY DEF QuitInv
<1> QED
  BY <1>1, <1>2, PTL

=============================================================================
