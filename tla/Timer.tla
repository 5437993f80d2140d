-------------------------------- MODULE Timer --------------------------------
(***************************************************************************)
(* The timers of libfreerdp/core/timer.c: a list of entries behind the     *)
(* lock of an ArrayList, a background thread that runs expired timers and  *)
(* sleeps until the next one, the main loop that runs the timers meant for *)
(* it, and threads that add and remove timers, as callbacks do too.        *)
(* Time is abstract: an entry becomes due at any moment the lock is free;  *)
(* what becomes due while it is held is seen on the next turn, as in the   *)
(* code, which reads the clock before.                                     *)
(***************************************************************************)
EXTENDS Integers, Sequences, FiniteSets, Functions

CONSTANTS Users,        \* threads that add and remove timers
          MaxTimers     \* bound on the timers added

ASSUME TimerAssumption == IsFiniteSet(Users) /\ MaxTimers \in Nat \ {0}

VARIABLES
    entries,            \* the list; armed stands for intervallNS # 0
    maxIdx, running, aborted,
    event, mainevent,   \* the manual-reset events
    lock,               \* who holds the list's lock
    cursor,             \* position and end of the pass over the list, which mainloop flag it raised
    callback,           \* id of the timer whose callback runs, 0 for none
    thread,             \* where the timer thread is
    timeout, watched,   \* of its wait: the entries it was computed from
    main,               \* where the main loop is
    user, added,        \* where each user is, and the entry it is about to add
    issued,             \* ids returned so far
    silenced            \* ids removed from outside their own callback

list == <<entries, maxIdx, issued, silenced>>
pass == <<lock, cursor, callback>>
control == <<running, aborted, event, mainevent>>
sleep == <<thread, timeout, watched>>
vars == <<list, pass, control, sleep, main, user, added>>

TimerIds == 1 .. MaxTimers
Entry == [id : TimerIds, armed : BOOLEAN, due : BOOLEAN, mainloop : BOOLEAN]
NewEntry(id, mainloop) == [id |-> id, armed |-> TRUE, due |-> FALSE, mainloop |-> mainloop]
Idle == [at |-> 1, end |-> 0, mainloop |-> FALSE]

TimerTypeOK ==
    /\ Range(entries) \subseteq Entry
    /\ maxIdx \in 0 .. MaxTimers /\ Range(issued) \subseteq TimerIds
    /\ running \in BOOLEAN /\ aborted \in BOOLEAN /\ event \in BOOLEAN /\ mainevent \in BOOLEAN
    /\ lock \in {"none", "thread", "main"}
    /\ cursor.at \in 1 .. MaxTimers + 1 /\ cursor.end <= Len(entries)
    /\ callback \in 0 .. MaxTimers /\ (callback # 0 => lock # "none")
    /\ thread \in {"check", "wait", "woken", "lock", "each", "exited"}
    /\ timeout \in {"infinite", "pending", "elapsed"} /\ watched \subseteq TimerIds
    /\ main \in {"loop", "each", "freeing", "freed"}
    /\ user \in [Users -> {"idle", "id", "append", "signal"}]

\* freerdp_timer_new
Init ==
    /\ entries = <<>> /\ maxIdx = 0 /\ issued = <<>> /\ silenced = {}
    /\ running = TRUE /\ aborted = FALSE /\ event = FALSE /\ mainevent = FALSE
    /\ lock = "none" /\ cursor = Idle /\ callback = 0
    /\ thread = "check" /\ timeout = "infinite" /\ watched = {}
    /\ main = "loop" /\ user = [u \in Users |-> "idle"]
    /\ added = [u \in Users |-> NewEntry(1, FALSE)]

\* foreach_entry: the first entry with the id is disabled, and removed on the next turn of the thread.
Disabled(id) ==
    LET at == {i \in DOMAIN entries : entries[i].id = id}
    IN  IF at = {} THEN entries
        ELSE [entries EXCEPT ![CHOOSE i \in at : \A j \in at : i <= j].armed = FALSE]

----------------------------------------------------------------------------
(* freerdp_timer_add and freerdp_timer_remove by the users *)

\* freerdp_timer_add: ++timer->maxIdx without a lock, read ...
AddRead(u) ==
    /\ user[u] = "idle" /\ main = "loop" /\ Len(issued) < MaxTimers
    /\ \E mainloop \in BOOLEAN : added' = [added EXCEPT ![u] = NewEntry(maxIdx + 1, mainloop)]
    /\ user' = [user EXCEPT ![u] = "id"]
    /\ UNCHANGED <<list, pass, control, sleep, main>>

\* ... and written.
AddWrite(u) ==
    /\ user[u] = "id" /\ Len(issued) < MaxTimers
    /\ maxIdx' = added[u].id
    /\ issued' = Append(issued, added[u].id)
    /\ user' = [user EXCEPT ![u] = "append"]
    /\ UNCHANGED <<entries, silenced, pass, control, sleep, main, added>>

\* ArrayList_Append, under the list's lock.
AddAppend(u) ==
    /\ user[u] = "append" /\ lock = "none"
    /\ entries' = Append(entries, added[u])
    /\ user' = [user EXCEPT ![u] = "signal"] /\ added' = [added EXCEPT ![u] = NewEntry(1, FALSE)]
    /\ UNCHANGED <<maxIdx, issued, silenced, pass, control, sleep, main>>

\* Mutant: the thread is not woken.
AddSignalNothing(u) ==
    /\ user[u] = "signal"
    /\ UNCHANGED event
    /\ user' = [user EXCEPT ![u] = "idle"]
    /\ UNCHANGED <<list, pass, running, aborted, mainevent, sleep, main, added>>

\* The thread is woken to take the new timer into account.
AddSignal(u) ==
    /\ user[u] = "signal"
    /\ event' = TRUE
    /\ user' = [user EXCEPT ![u] = "idle"]
    /\ UNCHANGED <<list, pass, running, aborted, mainevent, sleep, main, added>>

\* freerdp_timer_remove from outside of callbacks.
TimerRemove(u, id) ==
    /\ user[u] = "idle" /\ main = "loop" /\ lock = "none"
    /\ \E i \in DOMAIN entries : entries[i].id = id
    /\ entries' = Disabled(id)
    /\ silenced' = silenced \cup {id}
    /\ UNCHANGED <<maxIdx, issued, pass, control, sleep, main, user, added>>

----------------------------------------------------------------------------
(* Callbacks, run by whoever holds the lock *)

\* runTimerEvent up to the callback.
CallbackBegin == callback' = entries[cursor.at].id

\* The callback removes a timer, possibly its own ...
CallbackRemove(id) ==
    /\ callback # 0
    /\ \E i \in DOMAIN entries : entries[i].id = id
    /\ entries' = Disabled(id)
    /\ silenced' = silenced \cup ({id} \ {callback})
    /\ UNCHANGED <<maxIdx, issued, pass, control, sleep, main, user, added>>

\* ... or adds one, which the pass in progress does not reach.
CallbackAdd(mainloop) ==
    /\ callback # 0 /\ Len(issued) < MaxTimers
    /\ maxIdx' = maxIdx + 1
    /\ issued' = Append(issued, maxIdx')
    /\ entries' = Append(entries, NewEntry(maxIdx', mainloop))
    /\ event' = TRUE
    /\ UNCHANGED <<silenced, pass, running, aborted, mainevent, sleep, main, user, added>>

\* It returns the new interval, 0 to disable the timer: whatever the callback did to its own entry
\* is overwritten.
CallbackEnd ==
    /\ callback # 0
    /\ \E again \in BOOLEAN :
          entries' = [entries EXCEPT ![cursor.at].armed = again, ![cursor.at].due = FALSE]
    /\ callback' = 0
    /\ cursor' = [cursor EXCEPT !.at = @ + 1]
    /\ UNCHANGED <<maxIdx, issued, silenced, lock, control, sleep, main, user, added>>

----------------------------------------------------------------------------
(* timer_thread *)

\* The condition of the loop, before the wait.
ThreadCheck ==
    /\ thread = "check"
    /\ thread' = IF running THEN "wait" ELSE "exited"
    /\ UNCHANGED <<list, pass, control, timeout, watched, main, user, added>>

\* WaitForMultipleObjects returns for the timer's event or its timeout ...
ThreadWoken ==
    /\ thread = "wait" /\ ~aborted
    /\ event \/ timeout = "elapsed"
    /\ thread' = "woken"
    /\ UNCHANGED <<list, pass, control, timeout, watched, main, user, added>>

\* ... or for the abort event, which ends the thread.
ThreadExit ==
    /\ thread = "wait" /\ aborted
    /\ thread' = "exited"
    /\ UNCHANGED <<list, pass, control, timeout, watched, main, user, added>>

\* ResetEvent comes before the list is looked at.
ThreadReset ==
    /\ thread = "woken"
    /\ event' = FALSE
    /\ thread' = "lock"
    /\ UNCHANGED <<list, pass, running, aborted, mainevent, timeout, watched, main, user, added>>

\* expire_and_reschedule takes the lock and goes through the entries it finds.
ThreadLock ==
    /\ thread = "lock" /\ lock = "none"
    /\ lock' = "thread" /\ cursor' = [at |-> 1, end |-> Len(entries), mainloop |-> FALSE]
    /\ thread' = "each"
    /\ UNCHANGED <<list, callback, control, timeout, watched, main, user, added>>

\* Mutant: the main loop is not told.
ThreadEachNoFlag ==
    /\ thread = "each" /\ callback = 0 /\ cursor.at <= cursor.end
    /\ LET e == entries[cursor.at]
       IN  \/ /\ e.armed /\ e.due /\ ~e.mainloop
              /\ CallbackBegin /\ UNCHANGED cursor
           \/ /\ e.armed /\ e.due /\ e.mainloop
              /\ cursor' = [cursor EXCEPT !.at = @ + 1]
              /\ UNCHANGED callback
           \/ /\ ~(e.armed /\ e.due)
              /\ cursor' = [cursor EXCEPT !.at = @ + 1]
              /\ UNCHANGED callback
    /\ UNCHANGED <<list, lock, control, sleep, main, user, added>>

\* runExpiredTimer: a timer of the main loop is left to it.
ThreadEach ==
    /\ thread = "each" /\ callback = 0 /\ cursor.at <= cursor.end
    /\ LET e == entries[cursor.at]
       IN  \/ /\ e.armed /\ e.due /\ ~e.mainloop
              /\ CallbackBegin /\ UNCHANGED cursor
           \/ /\ e.armed /\ e.due /\ e.mainloop
              /\ cursor' = [cursor EXCEPT !.at = @ + 1, !.mainloop = TRUE]
              /\ UNCHANGED callback
           \/ /\ ~(e.armed /\ e.due)
              /\ cursor' = [cursor EXCEPT !.at = @ + 1]
              /\ UNCHANGED callback
    /\ UNCHANGED <<list, lock, control, sleep, main, user, added>>

\* The places of the entries that are not disabled.
Armed == {i \in DOMAIN entries : entries[i].armed}

\* The rest of expire_and_reschedule: disabled entries go and the others close up, f being where they
\* were; the timeout is that of the entry due next.
ThreadReschedule ==
    /\ thread = "each" /\ callback = 0 /\ cursor.at > cursor.end
    /\ mainevent' = (mainevent \/ cursor.mainloop)
    /\ \E f \in [1 .. Cardinality(Armed) -> Armed] :
          /\ \A i, j \in DOMAIN f : i < j => f[i] < f[j]
          /\ entries' = [i \in DOMAIN f |-> entries[f[i]]]
    /\ watched' = {entries'[i].id : i \in DOMAIN entries'}
    /\ timeout' = IF entries' = <<>> THEN "infinite"
                  ELSE IF \E i \in DOMAIN entries' : entries'[i].due THEN "elapsed" ELSE "pending"
    /\ lock' = "none" /\ cursor' = Idle
    /\ thread' = "check"
    /\ UNCHANGED <<maxIdx, issued, silenced, callback, running, aborted, event, main,
                   user, added>>

\* Time passes: an entry becomes due, and with it a wait that was computed from it.
Expire(i) ==
    /\ lock = "none" /\ i \in DOMAIN entries /\ ~entries[i].due
    /\ entries' = [entries EXCEPT ![i].due = TRUE]
    /\ timeout' = IF entries[i].id \in watched THEN "elapsed" ELSE timeout
    /\ UNCHANGED <<maxIdx, issued, silenced, pass, control, thread, watched, main, user,
                   added>>

----------------------------------------------------------------------------
(* The main loop *)

\* freerdp_timer_poll
PollLock ==
    /\ main = "loop" /\ mainevent /\ lock = "none"
    /\ lock' = "main" /\ mainevent' = FALSE
    /\ cursor' = [at |-> 1, end |-> Len(entries), mainloop |-> FALSE]
    /\ main' = "each"
    /\ UNCHANGED <<list, callback, running, aborted, event, sleep, user, added>>

\* Mutant: disabled timers are not skipped.
PollEachDisabled ==
    /\ main = "each" /\ callback = 0 /\ cursor.at <= cursor.end
    /\ LET e == entries[cursor.at]
       IN  IF e.mainloop /\ e.due
           THEN CallbackBegin /\ UNCHANGED cursor
           ELSE cursor' = [cursor EXCEPT !.at = @ + 1] /\ UNCHANGED callback
    /\ UNCHANGED <<list, lock, control, sleep, main, user, added>>

\* runExpiredTimerOnMainloop
PollEach ==
    /\ main = "each" /\ callback = 0 /\ cursor.at <= cursor.end
    /\ LET e == entries[cursor.at]
       IN  IF e.mainloop /\ e.armed /\ e.due
           THEN CallbackBegin /\ UNCHANGED cursor
           ELSE cursor' = [cursor EXCEPT !.at = @ + 1] /\ UNCHANGED callback
    /\ UNCHANGED <<list, lock, control, sleep, main, user, added>>

\* The thread is woken to reschedule.
PollDone ==
    /\ main = "each" /\ callback = 0 /\ cursor.at > cursor.end
    /\ event' = TRUE
    /\ lock' = "none" /\ cursor' = Idle
    /\ main' = "loop"
    /\ UNCHANGED <<list, callback, running, aborted, mainevent, sleep, user, added>>

\* The session is aborted (utils_abort_connect), whoever does it.
Abort ==
    /\ ~aborted /\ aborted' = TRUE
    /\ UNCHANGED <<list, pass, running, event, mainevent, sleep, main, user, added>>

\* freerdp_timer_free, when no one uses the timers any more: the flag ...
FreeBegin ==
    /\ main = "loop" /\ \A u \in Users : user[u] = "idle"
    /\ running' = FALSE
    /\ main' = "freeing"
    /\ UNCHANGED <<list, pass, aborted, event, mainevent, sleep, user, added>>

\* ... the event, and the wait for the thread.
FreeSignal ==
    /\ main = "freeing"
    /\ event' = TRUE
    /\ main' = "freed"
    /\ UNCHANGED <<list, pass, running, aborted, mainevent, sleep, user, added>>

----------------------------------------------------------------------------

Threads ==
    \/ ThreadCheck \/ ThreadWoken \/ ThreadExit \/ ThreadReset \/ ThreadLock \/ ThreadEach \/ ThreadReschedule
    \/ PollLock \/ PollEach \/ PollDone \/ FreeSignal \/ CallbackEnd
    \/ \E u \in Users : AddWrite(u) \/ AddAppend(u) \/ AddSignal(u)

Next ==
    \/ Threads \/ Abort \/ FreeBegin
    \/ \E u \in Users : AddRead(u) \/ \E id \in TimerIds : TimerRemove(u, id)
    \/ \E id \in TimerIds : CallbackRemove(id) \/ Expire(id)
    \/ \E mainloop \in BOOLEAN : CallbackAdd(mainloop)

\* The thread and the main loop go on, callbacks and freerdp_timer_add return, time passes.  The
\* list's lock is a critical section, which hands itself over to a thread that waits for it.
Fairness ==
    /\ WF_vars(ThreadCheck) /\ WF_vars(ThreadWoken) /\ WF_vars(ThreadExit) /\ WF_vars(ThreadReset)
    /\ SF_vars(ThreadLock) /\ WF_vars(ThreadEach) /\ WF_vars(ThreadReschedule)
    /\ SF_vars(PollLock) /\ WF_vars(PollEach) /\ WF_vars(PollDone)
    /\ WF_vars(CallbackEnd) /\ WF_vars(FreeSignal)
    /\ \A u \in Users : WF_vars(AddWrite(u)) /\ SF_vars(AddAppend(u)) /\ WF_vars(AddSignal(u))

Spec == Init /\ [][Next]_vars /\ Fairness

----------------------------------------------------------------------------
(* Properties *)

Duplicated == {id \in TimerIds : \E i, j \in DOMAIN issued : i # j /\ issued[i] = id /\ issued[j] = id}

\* After freerdp_timer_remove has returned to a thread outside the timer's own callback, the
\* callback is not called again: runExpiredTimer and runExpiredTimerOnMainloop look at the entry
\* under the lock that freerdp_timer_remove takes.  (Ids handed out twice are set apart.)
RemovedStaysSilent ==
    [][callback = 0 /\ callback' # 0 => callback' \notin silenced \ Duplicated]_vars

\* While the timer thread sleeps without a signal on its way, it will wake up for every timer that
\* is set: no entry is forgotten by a timeout computed before it was added or set anew.
NothingForgotten ==
    thread \in {"check", "wait"} /\ ~event /\ running =>
        \A i \in DOMAIN entries :
           entries[i].armed => \/ timeout = "elapsed"
                               \/ timeout = "pending" /\ entries[i].id \in watched
                               \/ lock = "main"
                               \/ \E u \in Users : user[u] = "signal"

\* The values of the variables, and the thread's wait covers every timer that is set.
TimerInv == TimerTypeOK /\ NothingForgotten

Due(id) == \E i \in DOMAIN entries : entries[i].id = id /\ entries[i].armed /\ entries[i].due

\* A timer that is due is run, by the thread or by the main loop, or removed, unless the session
\* ends first.
DueRuns == \A id \in TimerIds : Due(id) ~> (callback = id \/ ~Due(id) \/ aborted \/ ~running)

\* timer.h: freerdp_timer_add returns a new timer id.
IdsNew == Duplicated = {}
==============================================================================
