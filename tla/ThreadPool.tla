------------------------------ MODULE ThreadPool ------------------------------
(***************************************************************************)
(* The thread pool of WinPR (winpr/libwinpr/pool/pool.c and work.c):       *)
(* workers that take callbacks from a queue, a countdown event             *)
(* (utils/collections/CountdownEvent.c) that says when all of them are     *)
(* done, and an owner that changes the number of workers by ending all of  *)
(* them and starting new ones.  The queue is an ObjectQueue, used through  *)
(* what that module shows of it: order kept, event set while not empty.    *)
(***************************************************************************)
EXTENDS Naturals, Sequences, FiniteSets

CONSTANTS Submitters,   \* threads that submit work and wait for it
          Workers,      \* thread identities the pool may use
          MaxWork,      \* how much work is submitted in all
          MaxResizes    \* how often the owner changes the limits

ASSUME PoolAssumption ==
    /\ IsFiniteSet(Submitters)
    /\ IsFiniteSet(Workers) /\ Workers # {} /\ MaxWork \in Nat /\ MaxResizes \in Nat

VARIABLES PendingQueue, TerminateEvent,     \* fields of TP_POOL
          Minimum, Maximum, Threads,
          count, event,                     \* WorkComplete: its count and its event
          worker, current,                  \* where a worker is and what it works on
          submitter,                        \* where a submitter is
          mine,                             \* what it has submitted
          waited,                           \* the part of it that it has waited for
          completed,                        \* callbacks that have returned
          submitted, resizes,               \* how far the two bounds are used up
          owner                             \* where the owner is in a change of the limits

pool == <<PendingQueue, TerminateEvent, Minimum, Maximum, Threads>>
users == <<submitter, mine, waited, submitted>>
vars == <<pool, count, event, worker, current, users, completed, resizes, owner>>

Work == 1 .. MaxWork
Limits == 1 .. Cardinality(Workers)

PoolTypeOK ==
    /\ PendingQueue \in Seq(Work) /\ TerminateEvent \in BOOLEAN
    /\ Minimum \in Limits /\ Maximum \in Limits /\ Threads \subseteq Workers
    /\ count \in 0 .. MaxWork /\ event \in BOOLEAN
    /\ worker \in [Workers -> {"none", "wait", "dequeue", "callback", "signal", "exited"}]
    /\ current \in [Workers -> Work \cup {0}]
    /\ submitter \in [Submitters -> {"idle", "enqueue", "wait"}]
    /\ mine \in [Submitters -> SUBSET Work] /\ waited \in [Submitters -> SUBSET Work]
    /\ completed \subseteq Work
    /\ submitted \in 0 .. MaxWork /\ resizes \in 0 .. MaxResizes
    /\ owner \in {"idle", "join", "minimum", "close", "closed"}

\* InitializeThreadpool: the limits depend on the number of processors, with Minimum at most
\* Maximum and at least one thread.
Init ==
    /\ PendingQueue = <<>> /\ TerminateEvent = FALSE
    /\ Maximum \in Limits /\ Minimum \in 1 .. Maximum
    /\ \E ts \in SUBSET Workers :
          /\ Cardinality(ts) = Minimum
          /\ Threads = ts
          /\ worker = [w \in Workers |-> IF w \in ts THEN "wait" ELSE "none"]
    /\ count = 0 /\ event = TRUE
    /\ current = [w \in Workers |-> 0]
    /\ submitter = [s \in Submitters |-> "idle"]
    /\ mine = [s \in Submitters |-> {}] /\ waited = [s \in Submitters |-> {}]
    /\ completed = {} /\ submitted = 0 /\ resizes = 0
    /\ owner = "idle"

\* CountdownEvent_AddCount(countdown, 1)
AddCount == count' = count + 1 /\ event' = IF count = 0 THEN FALSE ELSE event

\* Mutant: the event is set by every signal.
SignalEach == count' = count - 1 /\ event' = TRUE

\* CountdownEvent_Signal(countdown, 1)
Signal ==
    /\ count' = IF count >= 1 THEN count - 1 ELSE 0
    /\ event' = (event \/ count' = 0)

\* SubmitThreadpoolWork counts the work first ...
Submit(s) ==
    /\ submitter[s] = "idle" /\ submitted < MaxWork /\ owner \notin {"close", "closed"}
    /\ submitted' = submitted + 1
    /\ mine' = [mine EXCEPT ![s] = @ \cup {submitted'}]
    /\ submitter' = [submitter EXCEPT ![s] = "enqueue"]
    /\ AddCount
    /\ UNCHANGED <<pool, worker, current, waited, completed, resizes, owner>>

\* What the submitter is about to enqueue.
Latest(s) == CHOOSE k \in mine[s] : \A j \in mine[s] : j <= k

\* ... and enqueues it.
Enqueue(s) ==
    /\ submitter[s] = "enqueue"
    /\ PendingQueue' = Append(PendingQueue, Latest(s))
    /\ submitter' = [submitter EXCEPT ![s] = "idle"]
    /\ UNCHANGED <<TerminateEvent, Minimum, Maximum, Threads, count, event, worker, current, mine,
                   waited, submitted, completed, resizes, owner>>

\* WaitForThreadpoolWorkCallbacks is called ...
CallWait(s) ==
    /\ submitter[s] = "idle" /\ waited[s] # mine[s] /\ owner \notin {"close", "closed"}
    /\ submitter' = [submitter EXCEPT ![s] = "wait"]
    /\ UNCHANGED <<pool, count, event, worker, current, mine, waited, submitted, completed,
                   resizes, owner>>

\* ... and returns: WaitForSingleObject of the countdown's event.
WaitReturns(s) ==
    /\ submitter[s] = "wait" /\ event
    /\ submitter' = [submitter EXCEPT ![s] = "idle"]
    /\ waited' = [waited EXCEPT ![s] = mine[s]]
    /\ UNCHANGED <<pool, count, event, worker, current, mine, submitted, completed, resizes, owner>>

\* WaitForMultipleObjects of a worker: the terminate event comes first.
Wake(w) ==
    /\ worker[w] = "wait"
    /\ \/ TerminateEvent /\ worker' = [worker EXCEPT ![w] = "exited"]
       \/ ~TerminateEvent /\ PendingQueue # <<>> /\ worker' = [worker EXCEPT ![w] = "dequeue"]
    /\ UNCHANGED <<pool, count, event, current, users, completed, resizes, owner>>

\* Mutant: a worker that found nothing signals all the same.
DequeueSignals(w) ==
    /\ worker[w] = "dequeue"
    /\ IF PendingQueue # <<>>
       THEN /\ current' = [current EXCEPT ![w] = Head(PendingQueue)]
            /\ PendingQueue' = Tail(PendingQueue)
            /\ worker' = [worker EXCEPT ![w] = "callback"]
       ELSE /\ worker' = [worker EXCEPT ![w] = "signal"]
            /\ UNCHANGED <<current, PendingQueue>>
    /\ UNCHANGED <<TerminateEvent, Minimum, Maximum, Threads, count, event, users, completed,
                   resizes, owner>>

\* Queue_Dequeue, which returns NULL when another worker was faster.
Dequeue(w) ==
    /\ worker[w] = "dequeue"
    /\ IF PendingQueue # <<>>
       THEN /\ current' = [current EXCEPT ![w] = Head(PendingQueue)]
            /\ PendingQueue' = Tail(PendingQueue)
            /\ worker' = [worker EXCEPT ![w] = "callback"]
       ELSE /\ worker' = [worker EXCEPT ![w] = "wait"]
            /\ UNCHANGED <<current, PendingQueue>>
    /\ UNCHANGED <<TerminateEvent, Minimum, Maximum, Threads, count, event, users, completed,
                   resizes, owner>>

\* work->WorkCallback
Callback(w) ==
    /\ worker[w] = "callback"
    /\ completed' = completed \cup {current[w]}
    /\ worker' = [worker EXCEPT ![w] = "signal"]
    /\ UNCHANGED <<pool, count, event, current, users, resizes, owner>>

\* CountdownEvent_Signal, and the callback instance is freed.
Complete(w) ==
    /\ worker[w] = "signal"
    /\ Signal
    /\ current' = [current EXCEPT ![w] = 0]
    /\ worker' = [worker EXCEPT ![w] = "wait"]
    /\ UNCHANGED <<pool, users, completed, resizes, owner>>

\* SetThreadpoolThreadMaximum: too many threads are all told to end.
SetMaximum(n) ==
    /\ owner = "idle" /\ resizes < MaxResizes
    /\ Maximum' = n
    /\ resizes' = resizes + 1
    /\ TerminateEvent' = (Cardinality(Threads) > n)
    /\ owner' = IF Cardinality(Threads) > n THEN "join" ELSE "minimum"
    /\ UNCHANGED <<PendingQueue, Minimum, Threads, count, event, worker, current, users, completed>>

\* Mutant: the terminate event stays set.
JoinTerminated ==
    /\ owner = "join" /\ \A w \in Threads : worker[w] = "exited"
    /\ Threads' = {}
    /\ worker' = [w \in Workers |-> "none"]
    /\ owner' = "minimum"
    /\ UNCHANGED <<PendingQueue, TerminateEvent, Minimum, Maximum, count, event, current, users,
                   completed, resizes>>

\* ArrayList_Clear waits for each of them (threads_close) and the event is reset.
Join ==
    /\ owner = "join" /\ \A w \in Threads : worker[w] = "exited"
    /\ Threads' = {}
    /\ worker' = [w \in Workers |-> "none"]
    /\ TerminateEvent' = FALSE
    /\ owner' = "minimum"
    /\ UNCHANGED <<PendingQueue, Minimum, Maximum, count, event, current, users, completed, resizes>>

\* The loop of SetThreadpoolThreadMinimum: threads are created up to Minimum.
Grow(n) ==
    \E ts \in SUBSET (Workers \ Threads) :
        /\ Cardinality(ts) = IF n > Cardinality(Threads) THEN n - Cardinality(Threads) ELSE 0
        /\ Threads' = Threads \cup ts
        /\ worker' = [w \in Workers |-> IF w \in ts THEN "wait" ELSE worker[w]]

\* SetThreadpoolThreadMinimum, called by SetThreadpoolThreadMaximum ...
Restart ==
    /\ owner = "minimum"
    /\ Grow(Minimum)
    /\ owner' = "idle"
    /\ UNCHANGED <<PendingQueue, TerminateEvent, Minimum, Maximum, count, event, current, users,
                   completed, resizes>>

\* ... and by the owner.
SetMinimum(n) ==
    /\ owner = "idle" /\ resizes < MaxResizes
    /\ Minimum' = n
    /\ resizes' = resizes + 1
    /\ Grow(n)
    /\ UNCHANGED <<PendingQueue, TerminateEvent, Maximum, count, event, current, users, completed,
                   owner>>

\* CloseThreadpool, when nobody uses the pool any more: the threads are told to end ...
Close ==
    /\ owner = "idle" /\ \A s \in Submitters : submitter[s] = "idle"
    /\ owner' = "close" /\ TerminateEvent' = TRUE
    /\ UNCHANGED <<PendingQueue, Minimum, Maximum, Threads, count, event, worker, current, users,
                   completed, resizes>>

\* ... and waited for; work that is still pending is dropped with the queue.
Closed ==
    /\ owner = "close" /\ \A w \in Threads : worker[w] = "exited"
    /\ owner' = "closed"
    /\ PendingQueue' = <<>> /\ Threads' = {} /\ TerminateEvent' = FALSE
    /\ worker' = [w \in Workers |-> "none"]
    /\ UNCHANGED <<Minimum, Maximum, count, event, current, users, completed, resizes>>

OwnerStep == Join \/ Restart \/ Closed
WorkerStep(w) == Wake(w) \/ Dequeue(w) \/ Callback(w) \/ Complete(w)
SubmitterStep(s) == Enqueue(s) \/ WaitReturns(s)

Next ==
    \/ \E s \in Submitters : Submit(s) \/ CallWait(s) \/ SubmitterStep(s)
    \/ \E w \in Workers : WorkerStep(w)
    \/ \E n \in Limits : SetMaximum(n) \/ SetMinimum(n)
    \/ Close \/ OwnerStep

Spec == Init /\ [][Next]_vars

\* Threads run, and callbacks return.
FairSpec ==
    /\ Spec /\ WF_vars(OwnerStep)
    /\ \A s \in Submitters : WF_vars(SubmitterStep(s))
    /\ \A w \in Workers : WF_vars(WorkerStep(w))

-----------------------------------------------------------------------------
\* When WaitForThreadpoolWorkCallbacks returns, the work its caller had submitted is done, so
\* that it may free the work and what the callbacks use.
WaitedIsDone == \A s \in Submitters : waited[s] \subseteq completed

\* Every piece of work is counted from its submission until its callback has been signalled, and
\* once: in the queue, at a worker, or between the two halves of SubmitThreadpoolWork.
CountIsOutstanding ==
    owner # "closed" =>
        count = Len(PendingQueue) + Cardinality({s \in Submitters : submitter[s] = "enqueue"})
                  + Cardinality({w \in Workers : worker[w] \in {"callback", "signal"}})

\* The event of the countdown is set exactly while nothing is outstanding, although workers
\* signal while submitters add.
EventMeansIdle == event <=> count = 0

\* No callback runs twice or at two workers.
RunsOnce ==
    /\ \A i, j \in 1 .. Len(PendingQueue) : PendingQueue[i] = PendingQueue[j] => i = j
    /\ \A i \in 1 .. Len(PendingQueue) : PendingQueue[i] \notin completed
    /\ \A v, w \in Workers : current[v] = current[w] /\ current[v] # 0 => v = w

\* A worker of the pool is a thread the owner will wait for; nothing runs after CloseThreadpool
\* has freed the queue.
OnlyJoinedThreadsRun == \A w \in Workers : worker[w] # "none" <=> w \in Threads

\* The values of the variables, and the books of the pool: the countdown, the queue and the
\* threads agree with each other.
PoolInv ==
    PoolTypeOK /\ CountIsOutstanding /\ EventMeansIdle /\ RunsOnce /\ OnlyJoinedThreadsRun

\* Submitted work is done, also when all workers are ended and replaced meanwhile, unless the pool
\* is closed; and whoever waits for it returns.
WorkGetsDone ==
    /\ \A s \in Submitters : submitter[s] = "wait" ~> submitter[s] = "idle"
    /\ \A k \in Work :
          (\E s \in Submitters : k \in mine[s]) ~> (k \in completed \/ owner = "closed")

=============================================================================
