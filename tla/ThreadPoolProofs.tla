-------------------------- MODULE ThreadPoolProofs --------------------------
(***************************************************************************)
(* The books of the thread pool, for every finite set of submitters and    *)
(* workers and every amount of work: whoever has waited for its work finds *)
(* it done, and nothing runs twice or unjoined.                            *)
(***************************************************************************)
EXTENDS ThreadPool, FiniteSetTheorems, SequenceTheorems, TLAPS

\* Where a piece of work can be between its submission and its signal: in the queue, between the
\* two halves of SubmitThreadpoolWork, or at a worker.
Queued(k) == \E i \in 1 .. Len(PendingQueue) : PendingQueue[i] = k
Enqueuing == {s \in Submitters : submitter[s] = "enqueue"}
BeingSubmitted(k) == \E s \in Enqueuing : Latest(s) = k
AtWorker(k) == \E w \in Workers : current[w] = k
Outstanding == {k \in 1 .. submitted : Queued(k) \/ BeingSubmitted(k) \/ AtWorker(k)}

\* Workers that have taken a piece of work and not signalled it.
Busy == {w \in Workers : worker[w] \in {"callback", "signal"}}

\* What a submitter has submitted is its own, and the part it is about to enqueue is its last.
SubmissionsRight ==
    /\ \A s \in Submitters : mine[s] \subseteq 1 .. submitted
    /\ \A s, t \in Submitters : s # t => mine[s] \cap mine[t] = {}
    /\ \A s \in Enqueuing : Latest(s) \in mine[s] /\ \A j \in mine[s] : j <= Latest(s)
    /\ \A k \in 1 .. submitted : BeingSubmitted(k) => k \notin completed /\ ~AtWorker(k) /\ ~Queued(k)

\* What is in the queue is there once, and nowhere else.
QueueRight ==
    /\ \A i, j \in 1 .. Len(PendingQueue) : PendingQueue[i] = PendingQueue[j] => i = j
    /\ \A i \in 1 .. Len(PendingQueue) :
          /\ PendingQueue[i] \in 1 .. submitted
          /\ PendingQueue[i] \notin completed
          /\ \A w \in Workers : current[w] # PendingQueue[i]

\* What a worker has taken is its own, and done when the worker says so.
WorkersRight ==
    /\ \A w \in Workers : current[w] # 0 <=> w \in Busy
    /\ \A w \in Busy : current[w] \in 1 .. submitted /\ (current[w] \in completed <=> worker[w] = "signal")
    /\ \A v, w \in Workers : current[v] = current[w] /\ current[v] # 0 => v = w
    /\ completed \subseteq 1 .. submitted

\* Nothing is lost until the pool is closed, and all of it is counted.
NothingLost ==
    owner # "closed" =>
        /\ \A k \in 1 .. submitted : k \in completed \/ k \in Outstanding
        /\ count = Cardinality(Outstanding)
        /\ count = Len(PendingQueue) + Cardinality(Enqueuing) + Cardinality(Busy)

\* The pool is closed when nobody uses it any more, and then has no threads.
ClosedRight ==
    /\ owner \in {"close", "closed"} => \A s \in Submitters : submitter[s] = "idle"
    /\ owner = "closed" => Threads = {}

BooksRight ==
    /\ PoolTypeOK /\ SubmissionsRight /\ QueueRight /\ WorkersRight /\ NothingLost /\ ClosedRight
    /\ EventMeansIdle /\ OnlyJoinedThreadsRun /\ WaitedIsDone

\* Both sets the countdown counts are finite.
LEMMA CountedSets ==
    ASSUME BooksRight
    PROVE  /\ IsFiniteSet(Enqueuing) /\ IsFiniteSet(Busy) /\ IsFiniteSet(Outstanding)
           /\ Cardinality(Enqueuing) \in Nat /\ Cardinality(Busy) \in Nat
           /\ Cardinality(Outstanding) \in Nat /\ Cardinality(Outstanding) <= submitted
<1>1. IsFiniteSet(Enqueuing) /\ IsFiniteSet(Busy)
  BY PoolAssumption, FS_Subset DEF Enqueuing, Busy
<1>2. submitted \in Nat /\ IsFiniteSet(1 .. submitted) /\ Cardinality(1 .. submitted) = submitted
  BY PoolAssumption, FS_Interval DEF BooksRight, PoolTypeOK
<1>3. Outstanding \subseteq 1 .. submitted
  BY DEF Outstanding
<1>4. IsFiniteSet(Outstanding) /\ Cardinality(Outstanding) <= submitted
  BY <1>2, <1>3, FS_Subset
<1> QED
  BY <1>1, <1>4, FS_CardinalityType

\* A step that moves no piece of work leaves the books of the work as they are.
LEMMA NothingMoves ==
    ASSUME BooksRight,
           UNCHANGED <<PendingQueue, current, mine, completed, submitted, count>>,
           Enqueuing' = Enqueuing, Busy' = Busy,
           \A w \in Workers : worker'[w] = "signal" <=> worker[w] = "signal",
           owner = "closed" => owner' = "closed"
    PROVE  SubmissionsRight' /\ QueueRight' /\ WorkersRight' /\ NothingLost'
<1>1. \A s \in Submitters : Latest(s)' = Latest(s)
  BY DEF Latest
<1>2. \A k : BeingSubmitted(k)' <=> BeingSubmitted(k)
  BY <1>1 DEF BeingSubmitted, Enqueuing
<1>3. \A k : (Queued(k)' <=> Queued(k)) /\ (AtWorker(k)' <=> AtWorker(k))
  BY DEF Queued, AtWorker
<1>4. Outstanding' = Outstanding
  BY <1>2, <1>3 DEF Outstanding
<1>5. SubmissionsRight'
  BY <1>1, <1>2, <1>3 DEF BooksRight, SubmissionsRight, Enqueuing
<1>6. QueueRight'
  BY DEF BooksRight, QueueRight
<1>7. WorkersRight'
  BY DEF BooksRight, WorkersRight, Busy
<1>8. NothingLost'
  BY <1>4 DEF BooksRight, NothingLost
<1> QED
  BY <1>5, <1>6, <1>7, <1>8

\* WaitForThreadpoolWorkCallbacks is called.
LEMMA BooksCallWait == \A s \in Submitters : BooksRight /\ CallWait(s) => BooksRight'
<1> SUFFICES ASSUME NEW s \in Submitters, BooksRight, CallWait(s) PROVE BooksRight'
  OBVIOUS
<1>1. PoolTypeOK'
  BY DEF BooksRight, PoolTypeOK, CallWait, pool, users
<1>2. Enqueuing' = Enqueuing /\ Busy' = Busy
  BY DEF BooksRight, PoolTypeOK, CallWait, Enqueuing, Busy
<1>3. SubmissionsRight' /\ QueueRight' /\ WorkersRight' /\ NothingLost'
  BY <1>2, NothingMoves DEF CallWait, pool
<1>4. ClosedRight' /\ EventMeansIdle' /\ OnlyJoinedThreadsRun' /\ WaitedIsDone'
  BY DEF BooksRight, PoolTypeOK, ClosedRight, EventMeansIdle, OnlyJoinedThreadsRun, WaitedIsDone,
         CallWait, pool
<1> QED
  BY <1>1, <1>3, <1>4 DEF BooksRight

\* It returns: the countdown is at zero, so all that was submitted is done.
LEMMA BooksWaitReturns == \A s \in Submitters : BooksRight /\ WaitReturns(s) => BooksRight'
<1> SUFFICES ASSUME NEW s \in Submitters, BooksRight, WaitReturns(s) PROVE BooksRight'
  OBVIOUS
<1>1. PoolTypeOK'
  BY DEF BooksRight, PoolTypeOK, WaitReturns, pool, users
<1>2. Enqueuing' = Enqueuing /\ Busy' = Busy
  BY DEF BooksRight, PoolTypeOK, WaitReturns, Enqueuing, Busy
<1>3. SubmissionsRight' /\ QueueRight' /\ WorkersRight' /\ NothingLost'
  BY <1>2, NothingMoves DEF WaitReturns, pool
<1>4. ClosedRight' /\ EventMeansIdle' /\ OnlyJoinedThreadsRun'
  BY DEF BooksRight, PoolTypeOK, ClosedRight, EventMeansIdle, OnlyJoinedThreadsRun, WaitReturns, pool
<1>5. mine[s] \subseteq completed
  <2>1. owner # "closed" /\ count = 0
    BY DEF BooksRight, ClosedRight, EventMeansIdle, WaitReturns
  <2>2. Outstanding = {}
    BY <2>1, CountedSets, FS_EmptySet DEF BooksRight, NothingLost
  <2>3. 1 .. submitted \subseteq completed
    BY <2>1, <2>2 DEF BooksRight, NothingLost
  <2> QED
    BY <2>3 DEF BooksRight, SubmissionsRight
<1>6. WaitedIsDone'
  BY <1>5 DEF BooksRight, PoolTypeOK, WaitedIsDone, WaitReturns
<1> QED
  BY <1>1, <1>3, <1>4, <1>6 DEF BooksRight

\* A worker wakes up.
LEMMA BooksWake == \A w \in Workers : BooksRight /\ Wake(w) => BooksRight'
<1> SUFFICES ASSUME NEW w \in Workers, BooksRight, Wake(w) PROVE BooksRight'
  OBVIOUS
<1>1. /\ UNCHANGED <<pool, count, event, current, users, completed, resizes, owner>>
      /\ worker[w] = "wait"
      /\ \E x \in {"exited", "dequeue"} : worker' = [worker EXCEPT ![w] = x]
  BY DEF Wake
<1>2. PoolTypeOK'
  BY <1>1 DEF BooksRight, PoolTypeOK, pool, users
<1>3. Enqueuing' = Enqueuing /\ Busy' = Busy
  BY <1>1 DEF BooksRight, PoolTypeOK, Enqueuing, Busy, users
<1>4. \A v \in Workers : worker'[v] = "signal" <=> worker[v] = "signal"
  BY <1>1 DEF BooksRight, PoolTypeOK
<1>5. SubmissionsRight' /\ QueueRight' /\ WorkersRight' /\ NothingLost'
  BY <1>1, <1>3, <1>4, NothingMoves DEF pool, users
<1>6. OnlyJoinedThreadsRun'
  BY <1>1 DEF BooksRight, PoolTypeOK, OnlyJoinedThreadsRun, pool
<1>7. ClosedRight' /\ EventMeansIdle' /\ WaitedIsDone'
  BY <1>1 DEF BooksRight, ClosedRight, EventMeansIdle, WaitedIsDone, pool, users
<1> QED
  BY <1>2, <1>5, <1>6, <1>7 DEF BooksRight

\* SubmitThreadpoolWork counts a new piece of work.
LEMMA BooksSubmit == \A s \in Submitters : BooksRight /\ Submit(s) => BooksRight'
<1> SUFFICES ASSUME NEW s \in Submitters, BooksRight, Submit(s) PROVE BooksRight'
  OBVIOUS
<1> DEFINE n == submitted + 1
<1>1. /\ submitter[s] = "idle" /\ submitted < MaxWork /\ owner \notin {"close", "closed"}
      /\ submitted' = n
      /\ mine' = [mine EXCEPT ![s] = mine[s] \cup {n}]
      /\ submitter' = [submitter EXCEPT ![s] = "enqueue"]
      /\ UNCHANGED <<pool, worker, current, waited, completed, resizes, owner>>
  BY DEF Submit
<1>2. /\ submitted \in Nat /\ n \in Nat /\ n \in 0 .. MaxWork /\ n \in Work /\ n \notin 1 .. submitted
      /\ 1 .. n = (1 .. submitted) \cup {n}
  BY <1>1, PoolAssumption DEF BooksRight, PoolTypeOK, Work
<1>3. count' = count + 1 /\ event' = FALSE
  BY DEF Submit, AddCount, BooksRight, EventMeansIdle, PoolTypeOK
<1>4. /\ s \notin Enqueuing /\ Enqueuing' = Enqueuing \cup {s}
      /\ Busy' = Busy
  BY <1>1 DEF BooksRight, PoolTypeOK, Enqueuing, Busy
<1>5. /\ mine'[s] = mine[s] \cup {n}
      /\ \A t \in Submitters \ {s} : mine'[t] = mine[t]
      /\ \A t \in Submitters : mine[t] \subseteq 1 .. submitted
  BY <1>1 DEF BooksRight, PoolTypeOK, SubmissionsRight
<1>6. Latest(s)' = n
  <2>1. n \in mine'[s] /\ \A j \in mine'[s] : j <= n /\ j \in Nat
    BY <1>2, <1>5
  <2>2. \A k \in mine'[s] : (\A j \in mine'[s] : j <= k) <=> k = n
    BY <1>2, <2>1
  <2> QED
    BY <2>1, <2>2 DEF Latest
<1>7. \A t \in Submitters \ {s} : Latest(t)' = Latest(t)
  BY <1>5 DEF Latest
<1>8. \A k : BeingSubmitted(k)' <=> BeingSubmitted(k) \/ k = n
  BY <1>4, <1>6, <1>7 DEF BeingSubmitted, Enqueuing
<1>9. \A k : (Queued(k)' <=> Queued(k)) /\ (AtWorker(k)' <=> AtWorker(k))
  BY <1>1 DEF Queued, AtWorker, pool
<1>10. n \notin completed /\ ~Queued(n) /\ ~AtWorker(n)
  <2>1. n \notin completed /\ ~Queued(n)
    BY <1>2 DEF BooksRight, WorkersRight, QueueRight, Queued
  <2>2. ~AtWorker(n)
    BY <1>2 DEF BooksRight, WorkersRight, AtWorker
  <2> QED
    BY <2>1, <2>2
<1>11. Outstanding' = Outstanding \cup {n} /\ n \notin Outstanding
  BY <1>1, <1>2, <1>8, <1>9 DEF Outstanding
<1>12. SubmissionsRight'
  <2>1. \A t \in Submitters : mine'[t] \subseteq 1 .. submitted'
    BY <1>1, <1>2, <1>5
  <2>2. \A t, u \in Submitters : t # u => mine'[t] \cap mine'[u] = {}
    BY <1>2, <1>5 DEF BooksRight, SubmissionsRight
  <2>3. \A t \in Enqueuing' : Latest(t)' \in mine'[t] /\ \A j \in mine'[t] : j <= Latest(t)'
    <3>1. \A j \in mine'[s] : j <= n
      BY <1>2, <1>5
    <3>2. \A t \in Enqueuing : t # s /\ t \in Submitters
      BY <1>4 DEF Enqueuing
    <3> QED
      BY <1>4, <1>5, <1>6, <1>7, <3>1, <3>2 DEF BooksRight, SubmissionsRight
  <2>4. \A k \in 1 .. submitted' :
           BeingSubmitted(k)' => k \notin completed' /\ ~AtWorker(k)' /\ ~Queued(k)'
    BY <1>1, <1>2, <1>8, <1>9, <1>10 DEF BooksRight, SubmissionsRight
  <2> QED
    BY <2>1, <2>2, <2>3, <2>4 DEF SubmissionsRight
<1>13. QueueRight'
  BY <1>1, <1>2 DEF BooksRight, QueueRight, pool
<1>14. WorkersRight'
  BY <1>1, <1>2, <1>4 DEF BooksRight, WorkersRight, Busy
<1>15. NothingLost'
  <2>1. Cardinality(Outstanding') = Cardinality(Outstanding) + 1
    BY <1>11, CountedSets, FS_AddElement
  <2>2. Cardinality(Enqueuing') = Cardinality(Enqueuing) + 1
    BY <1>4, CountedSets, FS_AddElement
  <2>3. count' = Cardinality(Outstanding')
    BY <1>1, <1>3, <2>1 DEF BooksRight, NothingLost
  <2>4. count' = Len(PendingQueue') + Cardinality(Enqueuing') + Cardinality(Busy')
    <3>1. PendingQueue' = PendingQueue /\ Len(PendingQueue) \in Nat
      BY <1>1 DEF pool, BooksRight, PoolTypeOK
    <3> QED
      BY <1>1, <1>3, <1>4, <2>2, <3>1, CountedSets DEF BooksRight, NothingLost
  <2>5. \A k \in 1 .. submitted' : k \in completed' \/ k \in Outstanding'
    BY <1>1, <1>2, <1>11 DEF BooksRight, NothingLost
  <2> QED
    BY <2>3, <2>4, <2>5 DEF NothingLost
<1>16. PoolTypeOK'
  <2>1. count' \in 0 .. MaxWork
    BY <1>1, <1>3, CountedSets, PoolAssumption DEF BooksRight, NothingLost, PoolTypeOK
  <2>2. mine' \in [Submitters -> SUBSET Work] /\ submitter' \in [Submitters -> {"idle", "enqueue", "wait"}]
    BY <1>1, <1>2 DEF BooksRight, PoolTypeOK
  <2>3. submitted' \in 0 .. MaxWork /\ event' \in BOOLEAN
    BY <1>1, <1>2, <1>3
  <2> QED
    BY <1>1, <2>1, <2>2, <2>3 DEF BooksRight, PoolTypeOK, pool
<1>17. ClosedRight' /\ OnlyJoinedThreadsRun' /\ WaitedIsDone'
  BY <1>1 DEF BooksRight, ClosedRight, OnlyJoinedThreadsRun, WaitedIsDone, pool
<1>18. EventMeansIdle'
  BY <1>3 DEF EventMeansIdle, BooksRight, PoolTypeOK
<1> QED
  BY <1>12, <1>13, <1>14, <1>15, <1>16, <1>17, <1>18 DEF BooksRight

\* The submitter puts its last piece of work behind the others.
LEMMA BooksEnqueue == \A s \in Submitters : BooksRight /\ Enqueue(s) => BooksRight'
<1> SUFFICES ASSUME NEW s \in Submitters, BooksRight, Enqueue(s) PROVE BooksRight'
  OBVIOUS
<1> DEFINE n == Latest(s)
<1>1. /\ submitter[s] = "enqueue"
      /\ PendingQueue' = Append(PendingQueue, n)
      /\ submitter' = [submitter EXCEPT ![s] = "idle"]
      /\ UNCHANGED <<TerminateEvent, Minimum, Maximum, Threads, count, event, worker, current, mine,
                     waited, submitted, completed, resizes, owner>>
  BY DEF Enqueue
<1>2. /\ s \in Enqueuing /\ Enqueuing' = Enqueuing \ {s} /\ Busy' = Busy
  BY <1>1 DEF BooksRight, PoolTypeOK, Enqueuing, Busy
<1>3. /\ n \in mine[s] /\ n \in 1 .. submitted /\ n \in Work /\ BeingSubmitted(n)
      /\ n \notin completed /\ ~AtWorker(n) /\ ~Queued(n)
  BY <1>2 DEF BooksRight, PoolTypeOK, SubmissionsRight, BeingSubmitted
<1>4. \A t \in Submitters : Latest(t)' = Latest(t)
  BY <1>1 DEF Latest
<1>5. \A t \in Enqueuing \ {s} : Latest(t) # n
  BY <1>3 DEF BooksRight, SubmissionsRight, Enqueuing
<1>6. \A k : BeingSubmitted(k)' <=> BeingSubmitted(k) /\ k # n
  BY <1>2, <1>4, <1>5 DEF BeingSubmitted, Enqueuing
<1>7. /\ PendingQueue \in Seq(Work) /\ PendingQueue' \in Seq(Work)
      /\ Len(PendingQueue) \in Nat /\ Len(PendingQueue') = Len(PendingQueue) + 1
      /\ \A i \in 1 .. Len(PendingQueue) : PendingQueue'[i] = PendingQueue[i]
      /\ PendingQueue'[Len(PendingQueue) + 1] = n
      /\ 1 .. Len(PendingQueue') = (1 .. Len(PendingQueue)) \cup {Len(PendingQueue) + 1}
  BY <1>1, <1>3, AppendProperties DEF BooksRight, PoolTypeOK
<1>8. \A k : Queued(k)' <=> Queued(k) \/ k = n
  BY <1>7 DEF Queued
<1>9. \A k : AtWorker(k)' <=> AtWorker(k)
  BY <1>1 DEF AtWorker
<1>10. Outstanding' = Outstanding
  BY <1>1, <1>3, <1>6, <1>8, <1>9 DEF Outstanding
<1>11. SubmissionsRight'
  <2>1. \A t \in Enqueuing' : Latest(t)' \in mine'[t] /\ \A j \in mine'[t] : j <= Latest(t)'
    BY <1>1, <1>2, <1>4 DEF BooksRight, SubmissionsRight, Enqueuing
  <2>2. \A k \in 1 .. submitted' :
           BeingSubmitted(k)' => k \notin completed' /\ ~AtWorker(k)' /\ ~Queued(k)'
    BY <1>1, <1>6, <1>8, <1>9 DEF BooksRight, SubmissionsRight
  <2> QED
    BY <1>1, <2>1, <2>2 DEF BooksRight, SubmissionsRight
<1>12. QueueRight'
  <2>1. \A i, j \in 1 .. Len(PendingQueue') : PendingQueue'[i] = PendingQueue'[j] => i = j
    BY <1>3, <1>7 DEF BooksRight, QueueRight, Queued
  <2>2. \A i \in 1 .. Len(PendingQueue') :
          /\ PendingQueue'[i] \in 1 .. submitted'
          /\ PendingQueue'[i] \notin completed'
          /\ \A w \in Workers : current'[w] # PendingQueue'[i]
    BY <1>1, <1>3, <1>7 DEF BooksRight, QueueRight, AtWorker
  <2> QED
    BY <2>1, <2>2 DEF QueueRight
<1>13. WorkersRight'
  BY <1>1, <1>2 DEF BooksRight, WorkersRight
<1>14. NothingLost'
  <2>1. Cardinality(Enqueuing') = Cardinality(Enqueuing) - 1
    BY <1>2, CountedSets, FS_RemoveElement
  <2>2. owner # "closed" => count' = Len(PendingQueue') + Cardinality(Enqueuing') + Cardinality(Busy')
    BY <1>1, <1>2, <1>7, <2>1, CountedSets DEF BooksRight, NothingLost
  <2> QED
    BY <1>1, <1>10, <2>2 DEF BooksRight, NothingLost
<1>15. PoolTypeOK'
  BY <1>1, <1>7 DEF BooksRight, PoolTypeOK
<1>16. ClosedRight' /\ EventMeansIdle' /\ OnlyJoinedThreadsRun' /\ WaitedIsDone'
  BY <1>1 DEF BooksRight, PoolTypeOK, ClosedRight, EventMeansIdle, OnlyJoinedThreadsRun, WaitedIsDone
<1> QED
  BY <1>11, <1>12, <1>13, <1>14, <1>15, <1>16 DEF BooksRight

\* A worker takes the first piece of work, or finds that another one was faster.
LEMMA BooksDequeue == \A w \in Workers : BooksRight /\ Dequeue(w) => BooksRight'
<1> SUFFICES ASSUME NEW w \in Workers, BooksRight, Dequeue(w) PROVE BooksRight'
  OBVIOUS
<1>1. /\ worker[w] = "dequeue"
      /\ UNCHANGED <<TerminateEvent, Minimum, Maximum, Threads, count, event, users, completed,
                     resizes, owner>>
  BY DEF Dequeue
<1>2. /\ Enqueuing' = Enqueuing
      /\ \A s \in Submitters : Latest(s)' = Latest(s)
      /\ \A k : BeingSubmitted(k)' <=> BeingSubmitted(k)
  <2>1. Enqueuing' = Enqueuing /\ \A s \in Submitters : Latest(s)' = Latest(s)
    BY <1>1 DEF Enqueuing, Latest, users
  <2> QED
    BY <2>1 DEF BeingSubmitted, Enqueuing
<1>3. ClosedRight' /\ EventMeansIdle' /\ WaitedIsDone'
  BY <1>1 DEF BooksRight, ClosedRight, EventMeansIdle, WaitedIsDone, users
<1>4. CASE PendingQueue = <<>>
  <2>1. worker' = [worker EXCEPT ![w] = "wait"] /\ UNCHANGED <<current, PendingQueue>>
    BY <1>4 DEF Dequeue
  <2>2. PoolTypeOK'
    BY <1>1, <2>1 DEF BooksRight, PoolTypeOK, users
  <2>3. Busy' = Busy /\ \A v \in Workers : worker'[v] = "signal" <=> worker[v] = "signal"
    BY <1>1, <2>1 DEF BooksRight, PoolTypeOK, Busy
  <2>4. SubmissionsRight' /\ QueueRight' /\ WorkersRight' /\ NothingLost'
    BY <1>1, <1>2, <2>1, <2>3, NothingMoves DEF users
  <2>5. OnlyJoinedThreadsRun'
    BY <1>1, <2>1 DEF BooksRight, PoolTypeOK, OnlyJoinedThreadsRun
  <2> QED
    BY <1>3, <2>2, <2>4, <2>5 DEF BooksRight
<1>5. CASE PendingQueue # <<>>
  <2> DEFINE n == Head(PendingQueue)
  <2>1. /\ current' = [current EXCEPT ![w] = n]
        /\ PendingQueue' = Tail(PendingQueue)
        /\ worker' = [worker EXCEPT ![w] = "callback"]
    BY <1>5 DEF Dequeue
  <2>2. /\ PendingQueue \in Seq(Work) /\ PendingQueue' \in Seq(Work)
        /\ Len(PendingQueue) \in Nat \ {0} /\ Len(PendingQueue') = Len(PendingQueue) - 1
        /\ \A i \in 1 .. Len(PendingQueue') : PendingQueue'[i] = PendingQueue[i + 1]
        /\ n = PendingQueue[1] /\ n \in Work
    <3>1. PendingQueue \in Seq(Work)
      BY DEF BooksRight, PoolTypeOK
    <3> QED
      BY <1>5, <2>1, <3>1, HeadTailProperties, EmptySeq
  <2>3. /\ n \in 1 .. submitted /\ n \notin completed
        /\ \A v \in Workers : current[v] # n
        /\ n # 0
    BY <2>2 DEF BooksRight, QueueRight, Work
  <2>4. w \notin Busy /\ current[w] = 0 /\ Busy' = Busy \cup {w}
    BY <1>1, <2>1 DEF BooksRight, PoolTypeOK, WorkersRight, Busy
  <2>5. \A k : Queued(k)' <=> Queued(k) /\ k # n
    <3>1. \A i \in 2 .. Len(PendingQueue) :
            i - 1 \in 1 .. Len(PendingQueue') /\ PendingQueue'[i - 1] = PendingQueue[i]
      BY <2>2
    <3>2. \A i \in 1 .. Len(PendingQueue') : i + 1 \in 2 .. Len(PendingQueue)
      BY <2>2
    <3>3. \A i \in 2 .. Len(PendingQueue) : PendingQueue[i] # n
      BY <2>2 DEF BooksRight, QueueRight
    <3>4. \A i \in 1 .. Len(PendingQueue) : i = 1 \/ i \in 2 .. Len(PendingQueue)
      BY <2>2
    <3>5. ASSUME NEW k, Queued(k)' PROVE Queued(k) /\ k # n
      BY <2>2, <3>2, <3>3, <3>5 DEF Queued
    <3>6. ASSUME NEW k, Queued(k), k # n PROVE Queued(k)'
      BY <2>2, <3>1, <3>4, <3>6 DEF Queued
    <3> QED
      BY <3>5, <3>6
  <2>6. \A k \in 1 .. submitted : AtWorker(k)' <=> AtWorker(k) \/ k = n
    BY <2>1, <2>3, <2>4 DEF AtWorker, BooksRight, PoolTypeOK
  <2>7. Outstanding' = Outstanding
    <3>1. Queued(n) /\ submitted' = submitted
      BY <1>1, <2>2 DEF Queued, users
    <3> QED
      BY <1>2, <2>3, <2>5, <2>6, <3>1 DEF Outstanding
  <2>8. SubmissionsRight'
    <3>1. mine' = mine /\ submitted' = submitted /\ completed' = completed
      BY <1>1 DEF users
    <3>2. ~BeingSubmitted(n)
      <4>1. Queued(n)
        BY <2>2 DEF Queued
      <4> QED
        BY <2>3, <4>1 DEF BooksRight, SubmissionsRight
    <3>3. \A k \in 1 .. submitted' :
           BeingSubmitted(k)' => k \notin completed' /\ ~AtWorker(k)' /\ ~Queued(k)'
      BY <1>2, <2>5, <2>6, <3>1, <3>2 DEF BooksRight, SubmissionsRight
    <3>4. \A t \in Enqueuing' : Latest(t)' \in mine'[t] /\ \A j \in mine'[t] : j <= Latest(t)'
      BY <1>2, <3>1 DEF BooksRight, SubmissionsRight, Enqueuing
    <3> QED
      BY <3>1, <3>3, <3>4 DEF BooksRight, SubmissionsRight
  <2>9. QueueRight'
    <3>1. \A i \in 1 .. Len(PendingQueue') : i + 1 \in 1 .. Len(PendingQueue) /\ i + 1 # 1
      BY <2>2
    <3>2. \A i, j \in 1 .. Len(PendingQueue') : PendingQueue'[i] = PendingQueue'[j] => i = j
      BY <2>2, <3>1 DEF BooksRight, QueueRight
    <3>3. \A i \in 1 .. Len(PendingQueue') :
            PendingQueue'[i] \in 1 .. submitted /\ PendingQueue'[i] \notin completed
      BY <2>2, <3>1 DEF BooksRight, QueueRight
    <3>4. \A i \in 1 .. Len(PendingQueue') : PendingQueue'[i] # n
      BY <2>2, <3>1 DEF BooksRight, QueueRight
    <3>5. \A i \in 1 .. Len(PendingQueue'), v \in Workers : current'[v] # PendingQueue'[i]
      BY <2>1, <2>2, <3>1, <3>4 DEF BooksRight, QueueRight, PoolTypeOK
    <3> QED
      BY <1>1, <3>2, <3>3, <3>5 DEF QueueRight, users
  <2>10. WorkersRight'
    <3>1. submitted' = submitted /\ completed' = completed
      BY <1>1 DEF users
    <3>2. \A v \in Workers : current'[v] # 0 <=> v \in Busy'
      BY <2>1, <2>3, <2>4 DEF BooksRight, PoolTypeOK, WorkersRight
    <3>3. \A v \in Busy' :
            current'[v] \in 1 .. submitted /\ (current'[v] \in completed <=> worker'[v] = "signal")
      BY <2>1, <2>3, <2>4 DEF BooksRight, PoolTypeOK, WorkersRight, Busy
    <3>4. \A u, v \in Workers : current'[u] = current'[v] /\ current'[u] # 0 => u = v
      BY <2>1, <2>3 DEF BooksRight, PoolTypeOK, WorkersRight
    <3> QED
      BY <3>1, <3>2, <3>3, <3>4 DEF BooksRight, WorkersRight
  <2>11. NothingLost'
    <3>1. Cardinality(Busy') = Cardinality(Busy) + 1
      BY <2>4, CountedSets, FS_AddElement
    <3>2. owner # "closed" => count' = Len(PendingQueue') + Cardinality(Enqueuing') + Cardinality(Busy')
      BY <1>1, <1>2, <2>2, <3>1, CountedSets DEF BooksRight, NothingLost
    <3> QED
      BY <1>1, <2>7, <3>2 DEF BooksRight, NothingLost, users
  <2>12. PoolTypeOK'
    BY <1>1, <2>1, <2>2 DEF BooksRight, PoolTypeOK, users
  <2>13. OnlyJoinedThreadsRun'
    BY <1>1, <2>1 DEF BooksRight, PoolTypeOK, OnlyJoinedThreadsRun
  <2> QED
    BY <1>3, <2>8, <2>9, <2>10, <2>11, <2>12, <2>13 DEF BooksRight
<1> QED
  BY <1>4, <1>5

\* The callback of a piece of work returns.
LEMMA BooksCallback == \A w \in Workers : BooksRight /\ Callback(w) => BooksRight'
<1> SUFFICES ASSUME NEW w \in Workers, BooksRight, Callback(w) PROVE BooksRight'
  OBVIOUS
<1> DEFINE n == current[w]
<1>1. /\ worker[w] = "callback"
      /\ completed' = completed \cup {n}
      /\ worker' = [worker EXCEPT ![w] = "signal"]
      /\ UNCHANGED <<pool, count, event, current, users, resizes, owner>>
  BY DEF Callback
<1>2. w \in Busy /\ Busy' = Busy
  BY <1>1 DEF BooksRight, PoolTypeOK, Busy
<1>3. /\ n # 0 /\ n \in 1 .. submitted /\ n \in Work /\ n \notin completed /\ AtWorker(n)
      /\ \A v \in Workers \ {w} : current[v] # n
  BY <1>1, <1>2 DEF BooksRight, PoolTypeOK, WorkersRight, AtWorker
<1>4. /\ Enqueuing' = Enqueuing
      /\ \A s \in Submitters : Latest(s)' = Latest(s)
  BY <1>1 DEF Enqueuing, Latest, users
<1>5. /\ \A k : BeingSubmitted(k)' <=> BeingSubmitted(k)
      /\ \A k : (Queued(k)' <=> Queued(k)) /\ (AtWorker(k)' <=> AtWorker(k))
  BY <1>1, <1>4 DEF BeingSubmitted, Queued, AtWorker, Enqueuing, pool
<1>6. Outstanding' = Outstanding
  BY <1>1, <1>5 DEF Outstanding, users
<1>7. SubmissionsRight'
  <2>1. mine' = mine /\ submitted' = submitted
    BY <1>1 DEF users
  <2>2. ~BeingSubmitted(n)
    BY <1>3 DEF BooksRight, SubmissionsRight
  <2>3. \A k \in 1 .. submitted' :
           BeingSubmitted(k)' => k \notin completed' /\ ~AtWorker(k)' /\ ~Queued(k)'
    BY <1>1, <1>5, <2>1, <2>2 DEF BooksRight, SubmissionsRight
  <2>4. \A t \in Enqueuing' : Latest(t)' \in mine'[t] /\ \A j \in mine'[t] : j <= Latest(t)'
    BY <1>4, <2>1 DEF BooksRight, SubmissionsRight, Enqueuing
  <2> QED
    BY <2>1, <2>3, <2>4 DEF BooksRight, SubmissionsRight
<1>8. QueueRight'
  BY <1>1 DEF BooksRight, QueueRight, pool, users
<1>9. WorkersRight'
  <2>1. \A v \in Workers : current'[v] # 0 <=> v \in Busy'
    BY <1>1, <1>2 DEF BooksRight, WorkersRight
  <2>2. \A v \in Busy' :
          current'[v] \in 1 .. submitted' /\ (current'[v] \in completed' <=> worker'[v] = "signal")
    BY <1>1, <1>2, <1>3 DEF BooksRight, PoolTypeOK, WorkersRight, Busy, users
  <2>3. completed' \subseteq 1 .. submitted'
    BY <1>1, <1>3 DEF BooksRight, WorkersRight, users
  <2> QED
    BY <1>1, <2>1, <2>2, <2>3 DEF BooksRight, WorkersRight
<1>10. NothingLost'
  BY <1>1, <1>2, <1>4, <1>6 DEF BooksRight, NothingLost, pool, users
<1>11. PoolTypeOK'
  BY <1>1, <1>3 DEF BooksRight, PoolTypeOK, pool, users
<1>12. OnlyJoinedThreadsRun' /\ WaitedIsDone'
  BY <1>1 DEF BooksRight, PoolTypeOK, OnlyJoinedThreadsRun, WaitedIsDone, pool, users
<1>13. ClosedRight' /\ EventMeansIdle'
  BY <1>1 DEF BooksRight, ClosedRight, EventMeansIdle, pool, users
<1> QED
  BY <1>7, <1>8, <1>9, <1>10, <1>11, <1>12, <1>13 DEF BooksRight

\* The worker signals the countdown: one piece of work less is outstanding.
LEMMA BooksComplete == \A w \in Workers : BooksRight /\ Complete(w) => BooksRight'
<1> SUFFICES ASSUME NEW w \in Workers, BooksRight, Complete(w) PROVE BooksRight'
  OBVIOUS
<1> DEFINE n == current[w]
<1>1. /\ worker[w] = "signal"
      /\ current' = [current EXCEPT ![w] = 0]
      /\ worker' = [worker EXCEPT ![w] = "wait"]
      /\ UNCHANGED <<pool, users, completed, resizes, owner>>
      /\ Signal
  BY DEF Complete
<1>2. w \in Busy /\ Busy' = Busy \ {w}
  BY <1>1 DEF BooksRight, PoolTypeOK, Busy
<1>3. /\ n # 0 /\ n \in 1 .. submitted /\ n \in completed /\ AtWorker(n)
      /\ \A v \in Workers \ {w} : current[v] # n
  BY <1>1, <1>2 DEF BooksRight, WorkersRight, AtWorker
<1>4. /\ Enqueuing' = Enqueuing
      /\ \A s \in Submitters : Latest(s)' = Latest(s)
  BY <1>1 DEF Enqueuing, Latest, users
<1>5. \A k : (BeingSubmitted(k)' <=> BeingSubmitted(k)) /\ (Queued(k)' <=> Queued(k))
  BY <1>1, <1>4 DEF BeingSubmitted, Queued, Enqueuing, pool
<1>6. \A k \in 1 .. submitted : AtWorker(k)' <=> AtWorker(k) /\ k # n
  BY <1>1, <1>3 DEF BooksRight, PoolTypeOK, AtWorker
<1>7. ~BeingSubmitted(n) /\ ~Queued(n)
  BY <1>3 DEF BooksRight, SubmissionsRight, QueueRight, Queued
<1>8. n \in Outstanding /\ Outstanding' = Outstanding \ {n}
  BY <1>1, <1>3, <1>5, <1>6, <1>7 DEF Outstanding, users
<1>9. owner # "closed"
  BY <1>1 DEF BooksRight, ClosedRight, OnlyJoinedThreadsRun
<1>10. /\ Cardinality(Outstanding') = Cardinality(Outstanding) - 1
       /\ Cardinality(Busy') = Cardinality(Busy) - 1
       /\ Cardinality(Outstanding') \in Nat
  <2>1. IsFiniteSet(Outstanding')
    BY <1>8, CountedSets, FS_RemoveElement
  <2> QED
    BY <1>2, <1>8, <2>1, CountedSets, FS_RemoveElement, FS_CardinalityType
<1>11. /\ count = Cardinality(Outstanding) /\ count' = count - 1 /\ count' \in Nat
       /\ count \in 0 .. MaxWork /\ count' \in 0 .. MaxWork
  <2>1. count = Cardinality(Outstanding) /\ count - 1 \in Nat /\ count \in 0 .. MaxWork
    BY <1>9, <1>10, CountedSets DEF BooksRight, NothingLost, PoolTypeOK
  <2>2. count >= 1
    BY <2>1
  <2>3. count' = count - 1
    BY <1>1, <2>2 DEF Signal
  <2> QED
    BY <2>1, <2>3, PoolAssumption
<1>12. event' \in BOOLEAN /\ (event' <=> count' = 0)
  <2>1. event = FALSE
    BY <1>11, PoolAssumption DEF BooksRight, EventMeansIdle, PoolTypeOK
  <2> QED
    BY <1>1, <2>1 DEF Signal
<1>13. SubmissionsRight'
  <2>1. mine' = mine /\ submitted' = submitted
    BY <1>1 DEF users
  <2>2. \A k \in 1 .. submitted' :
           BeingSubmitted(k)' => k \notin completed' /\ ~AtWorker(k)' /\ ~Queued(k)'
    BY <1>1, <1>5, <1>6, <2>1 DEF BooksRight, SubmissionsRight
  <2>3. \A t \in Enqueuing' : Latest(t)' \in mine'[t] /\ \A j \in mine'[t] : j <= Latest(t)'
    BY <1>4, <2>1 DEF BooksRight, SubmissionsRight, Enqueuing
  <2> QED
    BY <2>1, <2>2, <2>3 DEF BooksRight, SubmissionsRight
<1>14. QueueRight'
  <2>1. PendingQueue' = PendingQueue /\ submitted' = submitted /\ completed' = completed
    BY <1>1 DEF pool, users
  <2>2. \A i \in 1 .. Len(PendingQueue), v \in Workers : current'[v] # PendingQueue[i]
    BY <1>1 DEF BooksRight, PoolTypeOK, QueueRight
  <2> QED
    BY <2>1, <2>2 DEF BooksRight, QueueRight
<1>15. WorkersRight'
  <2>1. \A v \in Workers : current'[v] # 0 <=> v \in Busy'
    BY <1>1, <1>2 DEF BooksRight, PoolTypeOK, WorkersRight
  <2>2. \A v \in Busy' :
          current'[v] \in 1 .. submitted' /\ (current'[v] \in completed' <=> worker'[v] = "signal")
    BY <1>1, <1>2 DEF BooksRight, PoolTypeOK, WorkersRight, Busy, users
  <2>3. \A u, v \in Workers : current'[u] = current'[v] /\ current'[u] # 0 => u = v
    BY <1>1 DEF BooksRight, PoolTypeOK, WorkersRight
  <2> QED
    BY <1>1, <2>1, <2>2, <2>3 DEF BooksRight, WorkersRight, users
<1>16. NothingLost'
  <2>1. PendingQueue' = PendingQueue /\ Len(PendingQueue) \in Nat /\ submitted' = submitted
    BY <1>1 DEF pool, users, BooksRight, PoolTypeOK
  <2>2. count' = Len(PendingQueue') + Cardinality(Enqueuing') + Cardinality(Busy')
    BY <1>4, <1>9, <1>10, <1>11, <2>1, CountedSets DEF BooksRight, NothingLost
  <2>3. count' = Cardinality(Outstanding')
    BY <1>10, <1>11
  <2>4. \A k \in 1 .. submitted' : k \in completed' \/ k \in Outstanding'
    BY <1>1, <1>3, <1>8, <1>9, <2>1 DEF BooksRight, NothingLost
  <2> QED
    BY <2>2, <2>3, <2>4 DEF NothingLost
<1>17. PoolTypeOK'
  BY <1>1, <1>11, <1>12 DEF BooksRight, PoolTypeOK, pool, users
<1>18. ClosedRight' /\ OnlyJoinedThreadsRun' /\ WaitedIsDone'
  BY <1>1 DEF BooksRight, PoolTypeOK, ClosedRight, OnlyJoinedThreadsRun, WaitedIsDone, pool, users
<1>19. EventMeansIdle'
  BY <1>12 DEF EventMeansIdle
<1> QED
  BY <1>13, <1>14, <1>15, <1>16, <1>17, <1>18, <1>19 DEF BooksRight

\* A step of the owner that leaves the work alone, and the threads what they are: it may end the
\* threads that have exited, start new ones, and change the limits.
LEMMA BooksOwner ==
    ASSUME BooksRight, PoolTypeOK', OnlyJoinedThreadsRun', ClosedRight',
           UNCHANGED <<PendingQueue, count, event, current, users, completed>>,
           Busy' = Busy,
           \A w \in Workers : worker'[w] = "signal" <=> worker[w] = "signal",
           owner # "closed"
    PROVE  BooksRight'
<1>1. Enqueuing' = Enqueuing
  BY DEF Enqueuing, users
<1>2. SubmissionsRight' /\ QueueRight' /\ WorkersRight' /\ NothingLost'
  BY <1>1, NothingMoves DEF users
<1>3. EventMeansIdle' /\ WaitedIsDone'
  BY DEF BooksRight, EventMeansIdle, WaitedIsDone, users
<1> QED
  BY <1>2, <1>3 DEF BooksRight

\* SetThreadpoolThreadMaximum tells the threads to end.
LEMMA BooksSetMaximum == \A n \in Limits : BooksRight /\ SetMaximum(n) => BooksRight'
<1> SUFFICES ASSUME NEW n \in Limits, BooksRight, SetMaximum(n) PROVE BooksRight'
  OBVIOUS
<1>1. PoolTypeOK'
  <2>1. resizes' \in 0 .. MaxResizes /\ TerminateEvent' \in BOOLEAN
    BY PoolAssumption DEF BooksRight, PoolTypeOK, SetMaximum
  <2> QED
    BY <2>1 DEF BooksRight, PoolTypeOK, SetMaximum, users
<1>2. OnlyJoinedThreadsRun' /\ ClosedRight' /\ Busy' = Busy
  BY DEF BooksRight, OnlyJoinedThreadsRun, ClosedRight, SetMaximum, users, Busy
<1> QED
  BY <1>1, <1>2, BooksOwner DEF SetMaximum

\* New threads are started.
LEMMA GrowRight ==
    ASSUME BooksRight, NEW n \in Limits, Grow(n)
    PROVE  /\ Threads' \subseteq Workers
           /\ worker' \in [Workers -> {"none", "wait", "dequeue", "callback", "signal", "exited"}]
           /\ OnlyJoinedThreadsRun' /\ Busy' = Busy
           /\ \A w \in Workers : worker'[w] = "signal" <=> worker[w] = "signal"
<1>1. PICK ts \in SUBSET (Workers \ Threads) :
        /\ Threads' = Threads \cup ts
        /\ worker' = [w \in Workers |-> IF w \in ts THEN "wait" ELSE worker[w]]
  BY DEF Grow
<1>2. \A w \in ts : worker[w] = "none"
  BY DEF BooksRight, OnlyJoinedThreadsRun
<1> QED
  BY <1>1, <1>2 DEF BooksRight, PoolTypeOK, OnlyJoinedThreadsRun, Busy

\* SetThreadpoolThreadMinimum, called by the owner or by SetThreadpoolThreadMaximum.
LEMMA BooksSetMinimum ==
    BooksRight /\ (Restart \/ \E n \in Limits : SetMinimum(n)) => BooksRight'
<1>1. ASSUME BooksRight, Restart PROVE BooksRight'
  <2>1. Minimum \in Limits /\ Grow(Minimum)
    BY <1>1 DEF BooksRight, PoolTypeOK, Restart
  <2>2. /\ Threads' \subseteq Workers
        /\ worker' \in [Workers -> {"none", "wait", "dequeue", "callback", "signal", "exited"}]
        /\ OnlyJoinedThreadsRun' /\ Busy' = Busy
        /\ \A w \in Workers : worker'[w] = "signal" <=> worker[w] = "signal"
    BY <1>1, <2>1, GrowRight
  <2>3. PoolTypeOK' /\ ClosedRight'
    BY <1>1, <2>2 DEF BooksRight, PoolTypeOK, ClosedRight, Restart, users
  <2> QED
    BY <1>1, <2>2, <2>3, BooksOwner DEF Restart
<1>2. ASSUME BooksRight, NEW n \in Limits, SetMinimum(n) PROVE BooksRight'
  <2>1. Grow(n)
    BY <1>2 DEF SetMinimum
  <2>2. /\ Threads' \subseteq Workers
        /\ worker' \in [Workers -> {"none", "wait", "dequeue", "callback", "signal", "exited"}]
        /\ OnlyJoinedThreadsRun' /\ Busy' = Busy
        /\ \A w \in Workers : worker'[w] = "signal" <=> worker[w] = "signal"
    BY <1>2, <2>1, GrowRight
  <2>3. resizes' \in 0 .. MaxResizes
    BY <1>2, PoolAssumption DEF BooksRight, PoolTypeOK, SetMinimum
  <2>4. PoolTypeOK' /\ ClosedRight'
    BY <1>2, <2>2, <2>3 DEF BooksRight, PoolTypeOK, ClosedRight, SetMinimum, users
  <2> QED
    BY <1>2, <2>2, <2>4, BooksOwner DEF SetMinimum
<1> QED
  BY <1>1, <1>2

\* All threads have exited: none of them has work.
LEMMA ExitedIdle ==
    ASSUME BooksRight, \A w \in Threads : worker[w] = "exited", worker' = [w \in Workers |-> "none"]
    PROVE  /\ Busy = {} /\ Busy' = {}
           /\ \A w \in Workers : worker'[w] = "signal" <=> worker[w] = "signal"
<1>1. \A w \in Workers : worker[w] \in {"exited", "none"}
  BY DEF BooksRight, OnlyJoinedThreadsRun
<1> QED
  BY <1>1 DEF Busy

\* The owner has waited for the threads it told to end.
LEMMA BooksJoin == BooksRight /\ Join => BooksRight'
<1> SUFFICES ASSUME BooksRight, Join PROVE BooksRight'
  OBVIOUS
<1>1. /\ Busy' = Busy
      /\ \A w \in Workers : worker'[w] = "signal" <=> worker[w] = "signal"
  BY ExitedIdle DEF Join
<1>2. PoolTypeOK' /\ OnlyJoinedThreadsRun' /\ ClosedRight'
  BY DEF BooksRight, PoolTypeOK, OnlyJoinedThreadsRun, ClosedRight, Join, users
<1> QED
  BY <1>1, <1>2, BooksOwner DEF Join

\* CloseThreadpool begins.
LEMMA BooksClose == BooksRight /\ Close => BooksRight'
<1> SUFFICES ASSUME BooksRight, Close PROVE BooksRight'
  OBVIOUS
<1>1. PoolTypeOK' /\ OnlyJoinedThreadsRun' /\ ClosedRight' /\ Busy' = Busy
  BY DEF BooksRight, PoolTypeOK, OnlyJoinedThreadsRun, ClosedRight, Close, users, Busy
<1> QED
  BY <1>1, BooksOwner DEF Close

\* CloseThreadpool ends: pending work is dropped with the queue.
LEMMA BooksClosed == BooksRight /\ Closed => BooksRight'
<1> SUFFICES ASSUME BooksRight, Closed PROVE BooksRight'
  OBVIOUS
<1>1. /\ owner' = "closed" /\ PendingQueue' = <<>> /\ Threads' = {} /\ TerminateEvent' = FALSE
      /\ worker' = [w \in Workers |-> "none"]
      /\ UNCHANGED <<Minimum, Maximum, count, event, current, users, completed, resizes>>
      /\ \A s \in Submitters : submitter[s] = "idle"
  BY DEF BooksRight, ClosedRight, Closed
<1>2. Busy = {} /\ Busy' = {}
  BY ExitedIdle DEF Closed
<1>3. Enqueuing' = {} /\ Enqueuing = {} /\ Len(PendingQueue') = 0
  BY <1>1 DEF Enqueuing, users
<1>4. PoolTypeOK'
  <2>1. PendingQueue' \in Seq(Work)
    BY <1>1, EmptySeq
  <2> QED
    BY <1>1, <2>1 DEF BooksRight, PoolTypeOK, users
<1>5. SubmissionsRight'
  BY <1>1, <1>3 DEF BooksRight, SubmissionsRight, BeingSubmitted, users
<1>6. QueueRight'
  BY <1>3 DEF QueueRight
<1>7. WorkersRight'
  BY <1>1, <1>2 DEF BooksRight, WorkersRight, users
<1>8. NothingLost' /\ ClosedRight' /\ OnlyJoinedThreadsRun'
  BY <1>1 DEF NothingLost, ClosedRight, OnlyJoinedThreadsRun, users
<1>9. EventMeansIdle' /\ WaitedIsDone'
  BY <1>1 DEF BooksRight, EventMeansIdle, WaitedIsDone, users
<1> QED
  BY <1>4, <1>5, <1>6, <1>7, <1>8, <1>9 DEF BooksRight

\* InitializeThreadpool opens the books.
LEMMA BooksInit == Init => BooksRight
<1> SUFFICES ASSUME Init PROVE BooksRight
  OBVIOUS
<1>1. Cardinality(Workers) \in Nat
  BY PoolAssumption, FS_CardinalityType
<1>2. Enqueuing = {} /\ Busy = {} /\ Outstanding = {} /\ Cardinality({}) = 0
  <2>1. Enqueuing = {} /\ Busy = {} /\ 1 .. submitted = {}
    BY DEF Init, Enqueuing, Busy
  <2> QED
    BY <2>1, FS_EmptySet DEF Outstanding
<1>3. PoolTypeOK
  <2>1. Minimum \in Limits /\ Maximum \in Limits
    BY <1>1 DEF Init, Limits
  <2>2. Threads \subseteq Workers /\ worker \in [Workers -> {"none", "wait"}]
    BY DEF Init
  <2>3. count \in 0 .. MaxWork /\ submitted \in 0 .. MaxWork /\ resizes \in 0 .. MaxResizes
    BY PoolAssumption DEF Init
  <2>4. PendingQueue \in Seq(Work)
    BY EmptySeq DEF Init
  <2> QED
    BY <2>1, <2>2, <2>3, <2>4 DEF Init, PoolTypeOK
<1>4. SubmissionsRight /\ QueueRight /\ WorkersRight
  BY <1>2 DEF Init, SubmissionsRight, QueueRight, WorkersRight, BeingSubmitted
<1>5. NothingLost
  <2>1. Len(PendingQueue) = 0
    BY DEF Init
  <2> QED
    BY <1>2, <2>1 DEF Init, NothingLost
<1>6. ClosedRight /\ EventMeansIdle /\ OnlyJoinedThreadsRun /\ WaitedIsDone
  BY DEF Init, ClosedRight, EventMeansIdle, OnlyJoinedThreadsRun, WaitedIsDone
<1> QED
  BY <1>3, <1>4, <1>5, <1>6 DEF BooksRight

\* A step that changes nothing.
LEMMA BooksStutter == BooksRight /\ UNCHANGED vars => BooksRight'
<1> SUFFICES ASSUME BooksRight, UNCHANGED vars PROVE BooksRight'
  OBVIOUS
<1>1. PoolTypeOK' /\ ClosedRight' /\ OnlyJoinedThreadsRun' /\ EventMeansIdle' /\ WaitedIsDone'
  BY DEF BooksRight, PoolTypeOK, ClosedRight, OnlyJoinedThreadsRun, EventMeansIdle, WaitedIsDone,
         vars, pool, users
<1>2. Enqueuing' = Enqueuing /\ Busy' = Busy
  BY DEF Enqueuing, Busy, vars, users
<1>3. SubmissionsRight' /\ QueueRight' /\ WorkersRight' /\ NothingLost'
  BY <1>2, NothingMoves DEF vars, pool, users
<1> QED
  BY <1>1, <1>3 DEF BooksRight

\* The inductive invariant holds in every state, for every number of threads and pieces of work.
THEOREM BooksTheorem == Spec => []BooksRight
<1>1. BooksRight /\ [Next]_vars => BooksRight'
  BY BooksSubmit, BooksEnqueue, BooksCallWait, BooksWaitReturns, BooksWake, BooksDequeue,
     BooksCallback, BooksComplete, BooksSetMaximum, BooksSetMinimum, BooksJoin, BooksClose,
     BooksClosed, BooksStutter
     DEF Next, SubmitterStep, WorkerStep, OwnerStep
<1> QED
  BY <1>1, BooksInit, PTL DEF Spec

\* The countdown, the queue and the threads of the pool agree with each other, although
\* submitters, workers and an owner that replaces the workers interleave (pool.c, work.c,
\* CountdownEvent.c): every piece of work is counted once, runs once, and at a thread the owner
\* waits for.
THEOREM PoolTheorem == Spec => []PoolInv
<1>1. BooksRight => PoolInv
  <2>1. BooksRight => RunsOnce
    BY DEF BooksRight, RunsOnce, QueueRight, WorkersRight
  <2>2. BooksRight => CountIsOutstanding
    BY DEF BooksRight, CountIsOutstanding, NothingLost, Enqueuing, Busy
  <2> QED
    BY <2>1, <2>2 DEF BooksRight, PoolInv
<1> QED
  BY <1>1, BooksTheorem, PTL

\* WaitForThreadpoolWorkCallbacks returns only when the work its caller has submitted is done.
THEOREM WaitTheorem == Spec => []WaitedIsDone
<1>1. BooksRight => WaitedIsDone
  BY DEF BooksRight
<1> QED
  BY <1>1, BooksTheorem, PTL

=============================================================================
