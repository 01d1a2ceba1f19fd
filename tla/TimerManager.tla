---------------------------- MODULE TimerManager ----------------------------
(***************************************************************************)
(* The timer scheduler that is copied into every generated script          *)
(* (backend/includes/processors/common/timers.h and timers.cc): one worker *)
(* thread, a priority queue of tasks, one mutex, and two condition         *)
(* variables, cond_var_ (only the worker waits on it) and wait_cond_var_   *)
(* (the callers of WaitTillLast wait on it).                               *)
(*                                                                         *)
(* Granularity.  Everything that the code reads or writes under timer_mtx_ *)
(* is one step, with one exception: WaitTillLast tests                     *)
(* active_timer_count_ and then goes to sleep, while the worker notifies   *)
(* and decrements that counter WITHOUT the mutex.  So a waiter holds `mtx' *)
(* across several steps, and the worker's unlocked tail (run the callback, *)
(* notify, decrement) is three steps.                                      *)
(***************************************************************************)
EXTENDS Integers, FiniteSets

CONSTANTS
    Tasks,            \* identities of the timers that may be created
    Users,            \* the threads that call the manager (not its worker)
    Owner,            \* the user that constructs and destroys it
    Delays,           \* delays given to CreateTimer, in clock ticks
    Repeats,          \* repeat counts given to CreateTimer, -1 = for ever
    Rests,            \* arguments given to WaitTillLast
    LastDue,          \* bound: no finite timer is scheduled to run after it
    Horizon,          \* bound: where the clock stops
    SpuriousWakeups,  \* may a wait on a condition variable end by itself?
    None              \* no user (mtx is free), no task (job is out of scope)

ASSUME TimerAssumption ==
    /\ IsFiniteSet(Tasks)
    /\ Owner \in Users
    /\ None \notin Users \cup Tasks
    /\ Delays \subseteq Nat \ {0}
    /\ Repeats \subseteq {-1} \cup (Nat \ {0})
    /\ Rests \subseteq Nat
    /\ LastDue \in Nat
    /\ Horizon \in Nat
    /\ SpuriousWakeups \in BOOLEAN

VARIABLES
    now,                 \* steady_clock
    stop,                \* stop_
    tasks_to_do,         \* tasks_to_do_, as a set: a task is in it once
    due,                 \* Task::time_to_run
    interval,            \* Task::interval
    repeat,              \* Task::repeat
    active_timer_count,  \* active_timer_count_
    timer_count,         \* timer_count_
    mtx,                 \* the user that holds timer_mtx_ between two steps
    wpc,                 \* where the worker is
    job,                 \* Run's local job
    repeated,            \* Run's local repeated
    alarm,               \* the deadline that wait_until was given
    upc,                 \* where each user is
    rest,                \* the argument of each user's WaitTillLast
    created,             \* history: timers created so far
    total,               \* history: the repeat count each was created with
    born,                \* history: the time each was created at
    runs                 \* history: how often each callback was started

fields == <<due, interval, repeat>>
counts == <<active_timer_count, timer_count>>
worker == <<wpc, job, repeated, alarm>>
users == <<mtx, upc, rest>>
history == <<created, total, born, runs>>
vars == <<now, stop, tasks_to_do, fields, counts, worker, users, history>>

\* The worker: at the loop head without the mutex, asleep because there is no
\* task, asleep until a deadline, woken from that sleep but not yet holding the
\* mutex, in a callback, before notify_all, before the decrement, returned.
WorkerPCs == {"lock", "idle", "dozing", "dozeWoken",
              "running", "notify", "decrement", "exited"}

\* A user: outside the manager, before CreateTimer's notify_one, in
\* WaitTillLast (before its test, before it sleeps, asleep, woken), back from
\* WaitTillLast, in the destructor (before notify_one, in join), done with it.
UserPCs == {"ready", "signal", "check", "block", "asleep", "woken",
            "returned", "stopSignal", "join", "gone"}

Outside == {"ready", "returned"}

Forever == -1

\* The task whose callback the worker is executing, or has executed without
\* having accounted for it yet.
InFlight == {job} \ {None}

\* The timers that still have work to do.
Live == tasks_to_do \cup InFlight

Init ==
    /\ now = 0
    /\ stop = FALSE
    /\ tasks_to_do = {}
    /\ due = [t \in Tasks |-> 0]
    /\ interval = [t \in Tasks |-> 0]
    /\ repeat = [t \in Tasks |-> 0]
    /\ active_timer_count = 0
    /\ timer_count = 0
    /\ mtx = None
    /\ wpc = "lock"
    /\ job = None
    /\ repeated = FALSE
    /\ alarm = 0
    /\ upc = [u \in Users |-> "ready"]
    /\ rest = [u \in Users |-> 0]
    /\ created = {}
    /\ total = [t \in Tasks |-> 0]
    /\ born = [t \in Tasks |-> 0]
    /\ runs = [t \in Tasks |-> 0]

-----------------------------------------------------------------------------
(***************************************************************************)
(* Creating a timer.                                                       *)
(***************************************************************************)

\* Bounds the model: a timer with a repeat count is due to run for the last time
\* before LastDue, a timer without one for the first time.
WithinBound(d, n) == now + d * (IF n = Forever THEN 1 ELSE n) <= LastDue

\* The body of CreateTimer under the mutex: push the task, count it.
PushTask(t, d, n) ==
    /\ t \notin created
    /\ WithinBound(d, n)
    /\ tasks_to_do' = tasks_to_do \cup {t}
    /\ due' = [due EXCEPT ![t] = now + d]
    /\ interval' = [interval EXCEPT ![t] = d]
    /\ repeat' = [repeat EXCEPT ![t] = n]
    /\ timer_count' = timer_count + 1
    /\ active_timer_count' = active_timer_count + 1
    /\ created' = created \cup {t}
    /\ total' = [total EXCEPT ![t] = n]
    /\ born' = [born EXCEPT ![t] = now]
    /\ UNCHANGED runs

\* A notification that is lost.
NotifyNobody == UNCHANGED worker

\* cond_var_.notify_one(): nobody but the worker waits on it.
WakeWorker ==
    /\ wpc' = CASE wpc = "idle"   -> "lock"
                [] wpc = "dozing" -> "dozeWoken"
                [] OTHER          -> wpc
    /\ UNCHANGED <<job, repeated, alarm>>

\* A user thread creates a timer; it notifies after it has released the mutex.
CreateTimer(u) ==
    /\ upc[u] \in Outside
    /\ ~stop
    /\ mtx = None
    /\ \E t \in Tasks, d \in Delays, n \in Repeats : PushTask(t, d, n)
    /\ upc' = [upc EXCEPT ![u] = "signal"]
    /\ UNCHANGED <<now, stop, worker, mtx, rest>>

SignalWorker(u) ==
    /\ upc[u] = "signal"
    /\ WakeWorker
    /\ upc' = [upc EXCEPT ![u] = "ready"]
    /\ UNCHANGED <<now, stop, tasks_to_do, fields, counts, mtx, rest, history>>

\* A callback creates a timer (a Schedule inside a Schedule).  It runs on the
\* worker thread, so its notify_one finds nobody asleep on cond_var_.
TaskCreatesTimer ==
    /\ wpc = "running"
    /\ mtx = None
    /\ \E t \in Tasks, d \in Delays, n \in Repeats : PushTask(t, d, n)
    /\ UNCHANGED <<now, stop, worker, users>>

-----------------------------------------------------------------------------
(***************************************************************************)
(* Run, the worker's loop.                                                 *)
(***************************************************************************)

\* The task on top of the priority queue.
Earliest(t) == t \in tasks_to_do /\ \A s \in tasks_to_do : due[t] <= due[s]

\* The repeat count tested before it is decremented.
RunsOnceMore(t) == repeat[t] = Forever \/ repeat[t] > 0

\* job->repeat == -1 || --job->repeat > 0
RunsAgain(t) == repeat[t] = Forever \/ repeat[t] - 1 > 0

\* The time of the next run left as it was.
SameDue(t) == due[t]

\* job->time_to_run += job->interval
NextDue(t) == due[t] + interval[t]

\* A repeating task counted down each time it runs.
NeverKept == FALSE

\* Is the task that just ran still an active timer?
KeptActive == repeated

WorkerExits ==
    /\ wpc = "lock" /\ mtx = None
    /\ stop
    /\ wpc' = "exited"
    /\ UNCHANGED <<now, stop, tasks_to_do, fields, counts, job, repeated, alarm,
                   users, history>>

WorkerIdles ==
    /\ wpc = "lock" /\ mtx = None
    /\ ~stop /\ tasks_to_do = {}
    /\ wpc' = "idle"
    /\ UNCHANGED <<now, stop, tasks_to_do, fields, counts, job, repeated, alarm,
                   users, history>>

\* wait_until is given the deadline of the task that is on top NOW.
WorkerDozes ==
    /\ wpc = "lock" /\ mtx = None
    /\ ~stop
    /\ \E t \in Tasks : Earliest(t) /\ now < due[t] /\ alarm' = due[t]
    /\ wpc' = "dozing"
    /\ UNCHANGED <<now, stop, tasks_to_do, fields, counts, job, repeated, users,
                   history>>

\* The deadline passed: wait_until returns, the loop continues.
AlarmRings ==
    /\ wpc = "dozing" /\ mtx = None
    /\ now >= alarm
    /\ wpc' = "lock"
    /\ alarm' = 0
    /\ UNCHANGED <<now, stop, tasks_to_do, fields, counts, job, repeated, users,
                   history>>

\* Woken before the deadline: wait_until evaluates its predicate, with the task
\* that is on top now, and sleeps again until the deadline it was given.
WokenFromDoze ==
    /\ wpc = "dozeWoken" /\ mtx = None
    /\ \/ /\ stop \/ \E t \in Tasks : Earliest(t) /\ now >= due[t]
          /\ wpc' = "lock"
          /\ alarm' = 0
       \/ /\ ~stop /\ \A t \in Tasks : Earliest(t) => now < due[t]
          /\ wpc' = "dozing"
          /\ UNCHANGED alarm
    /\ UNCHANGED <<now, stop, tasks_to_do, fields, counts, job, repeated, users,
                   history>>

\* Pop the task on top and push it back first if it must run again; timers that
\* are due at the same time come in any order.
StartTask(t) ==
    /\ wpc = "lock" /\ mtx = None
    /\ ~stop
    /\ Earliest(t) /\ now >= due[t]
    /\ repeated' = RunsAgain(t)
    /\ IF RunsAgain(t)
       THEN /\ due' = [due EXCEPT ![t] = NextDue(t)]
            /\ timer_count' = timer_count + 1
            /\ UNCHANGED tasks_to_do
       ELSE /\ tasks_to_do' = tasks_to_do \ {t}
            /\ UNCHANGED <<due, timer_count>>
    /\ repeat' = IF repeat[t] = Forever THEN repeat
                 ELSE [repeat EXCEPT ![t] = @ - 1]
    /\ job' = t
    /\ wpc' = "running"
    /\ runs' = [runs EXCEPT ![t] = @ + 1]
    /\ UNCHANGED <<now, stop, interval, active_timer_count, alarm, users,
                   created, total, born>>

FinishTask ==
    /\ wpc = "running"
    /\ wpc' = "notify"
    /\ UNCHANGED <<now, stop, tasks_to_do, fields, counts, job, repeated, alarm,
                   users, history>>

\* The loop body ends: its locals are gone.
EndIteration == wpc' = "lock" /\ job' = None /\ repeated' = FALSE

\* wait_cond_var_.notify_all(), without the mutex.
NotifyWaiters ==
    /\ wpc = "notify"
    /\ upc' = [u \in Users |-> IF upc[u] = "asleep" THEN "woken" ELSE upc[u]]
    /\ \/ KeptActive /\ EndIteration
       \/ ~KeptActive /\ wpc' = "decrement" /\ UNCHANGED <<job, repeated>>
    /\ UNCHANGED <<now, stop, tasks_to_do, fields, counts, alarm, mtx, rest,
                   history>>

\* active_timer_count_--, after the notification and without the mutex.
DecrementActive ==
    /\ wpc = "decrement"
    /\ active_timer_count' = active_timer_count - 1
    /\ EndIteration
    /\ UNCHANGED <<now, stop, tasks_to_do, fields, timer_count, alarm, users,
                   history>>

-----------------------------------------------------------------------------
(***************************************************************************)
(* WaitTillLast.                                                           *)
(***************************************************************************)

\* A test of what is queued, which forgets the task that is being executed.
QueueIsShort(u) == Cardinality(tasks_to_do) <= rest[u]

\* active_timer_count_ <= rest
FewEnough(u) == active_timer_count <= rest[u]

\* Bounds the model: a user waits again only after it has created another timer.
WaitTillLast(u) ==
    /\ upc[u] = "ready"
    /\ ~stop
    /\ mtx = None
    /\ mtx' = u
    /\ \E n \in Rests : rest' = [rest EXCEPT ![u] = n]
    /\ upc' = [upc EXCEPT ![u] = "check"]
    /\ UNCHANGED <<now, stop, tasks_to_do, fields, counts, worker, history>>

\* The test of the while loop and of the wait's predicate, under the mutex.
WaitReturns(u) ==
    /\ upc[u] = "check"
    /\ FewEnough(u)
    /\ mtx' = None
    /\ upc' = [upc EXCEPT ![u] = "returned"]
    /\ UNCHANGED <<now, stop, tasks_to_do, fields, counts, worker, rest, history>>

WaitDecides(u) ==
    /\ upc[u] = "check"
    /\ ~FewEnough(u)
    /\ upc' = [upc EXCEPT ![u] = "block"]
    /\ UNCHANGED <<now, stop, tasks_to_do, fields, counts, worker, mtx, rest,
                   history>>

\* The wait releases the mutex and sleeps, in one step.
WaitSleeps(u) ==
    /\ upc[u] = "block"
    /\ mtx' = None
    /\ upc' = [upc EXCEPT ![u] = "asleep"]
    /\ UNCHANGED <<now, stop, tasks_to_do, fields, counts, worker, rest, history>>

WaitRelocks(u) ==
    /\ upc[u] = "woken"
    /\ mtx = None
    /\ mtx' = u
    /\ upc' = [upc EXCEPT ![u] = "check"]
    /\ UNCHANGED <<now, stop, tasks_to_do, fields, counts, worker, rest, history>>

-----------------------------------------------------------------------------
(***************************************************************************)
(* The destructor.  No user is inside the manager when it starts, and none *)
(* calls the manager afterwards (a callback still may).                    *)
(***************************************************************************)

Destroy(u) ==
    /\ u = Owner
    /\ \A v \in Users : upc[v] \in Outside
    /\ mtx = None
    /\ stop' = TRUE
    /\ upc' = [upc EXCEPT ![u] = "stopSignal"]
    /\ UNCHANGED <<now, tasks_to_do, fields, counts, worker, mtx, rest, history>>

DestroySignals(u) ==
    /\ upc[u] = "stopSignal"
    /\ WakeWorker
    /\ upc' = [upc EXCEPT ![u] = "join"]
    /\ UNCHANGED <<now, stop, tasks_to_do, fields, counts, mtx, rest, history>>

DestroyJoins(u) ==
    /\ upc[u] = "join"
    /\ wpc = "exited"
    /\ upc' = [upc EXCEPT ![u] = "gone"]
    /\ UNCHANGED <<now, stop, tasks_to_do, fields, counts, worker, mtx, rest,
                   history>>

-----------------------------------------------------------------------------
(***************************************************************************)
(* The environment: time, and waits that end by themselves.                *)
(***************************************************************************)

Tick ==
    /\ now < Horizon
    /\ now' = now + 1
    /\ UNCHANGED <<stop, tasks_to_do, fields, counts, worker, users, history>>

SpuriousWorkerWakeup ==
    /\ SpuriousWakeups
    /\ wpc \in {"idle", "dozing"}
    /\ WakeWorker
    /\ UNCHANGED <<now, stop, tasks_to_do, fields, counts, users, history>>

SpuriousWaiterWakeup(u) ==
    /\ SpuriousWakeups
    /\ upc[u] = "asleep"
    /\ upc' = [upc EXCEPT ![u] = "woken"]
    /\ UNCHANGED <<now, stop, tasks_to_do, fields, counts, worker, mtx, rest,
                   history>>

-----------------------------------------------------------------------------
WorkerStep ==
    \/ WorkerExits \/ WorkerIdles \/ WorkerDozes
    \/ AlarmRings \/ WokenFromDoze
    \/ \E t \in Tasks : StartTask(t)
    \/ FinishTask \/ NotifyWaiters \/ DecrementActive

\* The steps a user takes on its own once it has called the manager.
UserStep(u) ==
    \/ SignalWorker(u)
    \/ WaitReturns(u) \/ WaitDecides(u) \/ WaitSleeps(u) \/ WaitRelocks(u)
    \/ DestroySignals(u) \/ DestroyJoins(u)

UserCall(u) == CreateTimer(u) \/ WaitTillLast(u) \/ Destroy(u)

Next ==
    \/ WorkerStep
    \/ TaskCreatesTimer
    \/ \E u \in Users : UserStep(u) \/ UserCall(u)
    \/ Tick
    \/ SpuriousWorkerWakeup
    \/ \E u \in Users : SpuriousWaiterWakeup(u)

Spec == Init /\ [][Next]_vars

SpuriousWakeup == SpuriousWorkerWakeup \/ \E u \in Users : SpuriousWaiterWakeup(u)

\* Threads that can run do run, callbacks return and time passes; nobody has to
\* call the manager, and a callback does not have to create a timer.  Wakeups that nothing
\* caused stop at some time: a thread that only ever wakes for no reason would run for ever.
Fairness ==
    /\ <>[][~SpuriousWakeup]_vars
    /\ WF_vars(WorkerStep)
    /\ \A u \in Users : WF_vars(UserStep(u))
    /\ WF_vars(Tick)

FairSpec == Spec /\ Fairness

-----------------------------------------------------------------------------
(***************************************************************************)
(* Properties.                                                             *)
(***************************************************************************)

\* The types of the state.  active_timer_count_ is unsigned: that it stays in
\* Nat says that it is never decremented at zero, where it would wrap around.
TypeOK ==
    /\ now \in Nat
    /\ stop \in BOOLEAN
    /\ tasks_to_do \subseteq created
    /\ due \in [Tasks -> Nat]
    /\ interval \in [Tasks -> Nat]
    /\ repeat \in [Tasks -> Int]
    /\ active_timer_count \in Nat
    /\ timer_count \in Nat
    /\ mtx \in Users \cup {None}
    /\ wpc \in WorkerPCs
    /\ job \in created \cup {None}
    /\ repeated \in BOOLEAN
    /\ alarm \in Nat
    /\ upc \in [Users -> UserPCs]
    /\ rest \in [Users -> Nat]
    /\ created \subseteq Tasks
    /\ total \in [Tasks -> Int]
    /\ born \in [Tasks -> Nat]
    /\ runs \in [Tasks -> Nat]

\* The counter that WaitTillLast and GetActiveTimerCount read is the number of
\* timers that are queued or whose last callback is not over, at every moment:
\* although a repeating task is pushed again before its callback runs, and
\* although the worker decrements the counter without the mutex.
ActiveExact == active_timer_count = Cardinality(Live)

\* Schedule(Start, x, n) executes its block n times: no timer runs more often
\* than its repeat count, and it leaves the manager only when it has run exactly
\* that often; a timer with repeat count -1 never leaves.
IterationsExact ==
    \A t \in created :
        /\ total[t] # Forever => runs[t] <= total[t]
        /\ t \notin Live => total[t] # Forever /\ runs[t] = total[t]

\* The worker never sleeps through a push or through the destructor: when it
\* sleeps with no deadline although there is a task, or sleeps although it was
\* told to stop, somebody is about to notify cond_var_.
NoMissedSignal ==
    /\ wpc = "idle" /\ tasks_to_do # {} =>
          \E u \in Users : upc[u] = "signal"
    /\ wpc \in {"idle", "dozing"} /\ stop =>
          \E u \in Users : upc[u] = "stopSignal"

\* time_to_run is the "time for which the task need to be ran" (timers.h:15):
\* a worker that sleeps, with nobody about to notify it, wakes up no later than
\* the first task is due.
AlarmCoversEarliest ==
    (wpc = "dozing" /\ \A u \in Users : upc[u] # "signal")
        => \A t \in tasks_to_do : alarm <= due[t]

\* The k-th run of a timer never starts before k intervals have passed since
\* CreateTimer: repeating does not drift towards the past, however late the
\* earlier runs were.
NeverEarly ==
    [][\A t \in Tasks :
          runs'[t] > runs[t] => now >= born[t] + interval[t] * runs'[t]]_vars

\* WaitTillLast(rest) comes back only when at most `rest' timers are queued or
\* being executed; with rest = 0, when every callback has returned.
WaitMeansDone ==
    [][\A u \in Users :
          upc[u] = "check" /\ upc'[u] = "returned" => Cardinality(Live) <= rest[u]]_vars

\* Every timer with a finite repeat count gets through its runs, unless the
\* manager is destroyed first.
TimersFinish ==
    \A t \in Tasks :
        (t \in created /\ total[t] # Forever) ~> (t \notin Live \/ stop)

\* The calls that block end.  The destructor: the worker notices stop_, whatever it is
\* doing, and is joined.  A WaitTillLast, when every timer is finite, unless it ends up
\* asleep although what it waits for has come: the missed decrement is the only thing that
\* can hold it.
CallsReturn ==
    \A u \in Users :
        /\ (upc[u] = "stopSignal") ~> (upc[u] = "gone")
        /\ (upc[u] = "check") ~>
              \/ upc[u] = "returned"
              \/ upc[u] = "asleep" /\ active_timer_count <= rest[u]
              \/ \E t \in created : total[t] = Forever

\* "it will wait until GetActiveTimerCount() returns rest or less"
\* (timers.h:45-46): once the count is low enough, and while it stays low, a
\* waiter gets out.
WaitTillLastReturns ==
    \A u \in Users :
        (upc[u] \in {"check", "block", "asleep", "woken"}
             /\ active_timer_count <= rest[u])
            ~> (upc[u] = "returned" \/ active_timer_count > rest[u])

-----------------------------------------------------------------------------
(***************************************************************************)
(* The manager implements TimerContract: a timer is pending while it is    *)
(* queued or its callback is not accounted for, and a user waits from its  *)
(* call of WaitTillLast to its return.                                     *)
(***************************************************************************)

InWait(u) == upc[u] \in {"check", "block", "asleep", "woken"}

\* What each user's WaitTillLast waits for, -1 outside of it.
Waiting == [u \in Users |-> IF InWait(u) THEN rest[u] ELSE -1]

Phase == CASE upc[Owner] \in {"stopSignal", "join"} -> "closing"
           [] upc[Owner] = "gone"                   -> "closed"
           [] OTHER                                 -> "open"

Contract == INSTANCE TimerContract WITH
    used    <- created,
    pending <- Live,
    left    <- repeat,
    busy    <- job,
    waiting <- Waiting,
    phase   <- Phase,
    Size    <- Cardinality

\* Every step of the threads of TimerManager, however they interleave, is a step
\* of the contract or changes nothing that a client can see.
ImplementsContract == Contract!Spec
=============================================================================
