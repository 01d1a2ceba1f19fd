------------------------- MODULE TimerManagerProofs -------------------------
(***************************************************************************)
(* Theorems about TimerManager, for every set of timers and of users, every*)
(* delay, every repeat count and every bound on the clock.                 *)
(*                                                                         *)
(* The argument.  TypeOK is not inductive by itself: that the counter does *)
(* not pass below zero needs ActiveExact, which needs to know where the    *)
(* worker is when it has a task in its hands (Bookkeeping).  On top of this*)
(* invariant stand three more: Iterations (a queued timer still has runs to*)
(* do, and those with the ones already started make up its repeat count),  *)
(* Timing (the due time of a queued timer) and Closing (only the owner is  *)
(* in the destructor).                                                     *)
(***************************************************************************)
EXTENDS TimerManager, FiniteSetTheorems, TLAPS

\* Where the worker holds a task: between its pop and the end of the iteration.
Holding == {"running", "notify", "decrement"}

\* The worker's locals agree with its position, and `repeated' says whether the
\* task it holds was pushed back.
Bookkeeping ==
    /\ job # None <=> wpc \in Holding
    /\ repeated <=> job \in tasks_to_do
    /\ wpc = "decrement" => ~repeated

IInv == TypeOK /\ Bookkeeping /\ ActiveExact

\* A timer is queued exactly as long as it has runs to do, and these with the
\* ones already started make up what it was created with.
Iterations ==
    /\ \A t \in Tasks \ created : runs[t] = 0
    /\ \A t \in created :
          IF total[t] = Forever
          THEN repeat[t] = Forever /\ t \in tasks_to_do
          ELSE /\ repeat[t] \in Nat
               /\ runs[t] + repeat[t] = total[t]
               /\ t \in tasks_to_do <=> repeat[t] # 0

\* A queued timer is due one interval after the time its last run was due.
Timing ==
    \A t \in tasks_to_do : due[t] = born[t] + interval[t] * (runs[t] + 1)

\* Shorthand for the actions that touch neither the timers nor the worker's task.
SameTimers ==
    UNCHANGED <<tasks_to_do, fields, counts, job, repeated, history>>

-----------------------------------------------------------------------------
\* The set of live timers is finite, so that its cardinality is a number.
LEMMA LiveFinite ==
    ASSUME TypeOK
    PROVE  IsFiniteSet(Live) /\ Cardinality(Live) \in Nat
<1>1. Live \subseteq Tasks
    BY DEF TypeOK, Live, InFlight
<1>2. IsFiniteSet(Live)
    BY <1>1, FS_Subset, TimerAssumption DEF TimerAssumption
<1>3. QED
    BY <1>2, FS_CardinalityType

\* Pushing a new timer adds exactly one to the live timers.
LEMMA PushCounts ==
    ASSUME IInv, NEW t \in Tasks, NEW d \in Delays, NEW n \in Repeats,
           PushTask(t, d, n), UNCHANGED <<wpc, job, repeated>>
    PROVE  Bookkeeping' /\ ActiveExact'
<1>1. Live' = Live \cup {t} /\ t \notin Live
    BY TimerAssumption
       DEF TimerAssumption, PushTask, Live, InFlight, IInv, TypeOK
<1>2. ActiveExact'
    <2>1. IsFiniteSet(Live)
        BY LiveFinite DEF IInv
    <2>2. Cardinality(Live \cup {t}) = Cardinality(Live) + 1
        BY <1>1, <2>1, FS_AddElement
    <2>3. QED
        BY <1>1, <2>2 DEF PushTask, ActiveExact, IInv
<1>3. Bookkeeping'
    BY TimerAssumption
       DEF TimerAssumption, PushTask, Bookkeeping, IInv, TypeOK
<1>4. QED
    BY <1>2, <1>3

\* PushTask keeps the types of what it changes.
LEMMA PushTypes ==
    ASSUME TypeOK, NEW t \in Tasks, NEW d \in Delays, NEW n \in Repeats,
           PushTask(t, d, n)
    PROVE  /\ tasks_to_do' \subseteq created'
           /\ created' \subseteq Tasks /\ created \subseteq created'
           /\ due' \in [Tasks -> Nat] /\ interval' \in [Tasks -> Nat]
           /\ repeat' \in [Tasks -> Int]
           /\ active_timer_count' \in Nat /\ timer_count' \in Nat
           /\ total' \in [Tasks -> Int]
           /\ born' \in [Tasks -> Nat] /\ runs' \in [Tasks -> Nat]
<1>1. d \in Nat /\ n \in Int
    BY TimerAssumption DEF TimerAssumption
<1>2. QED
    BY <1>1 DEF TypeOK, PushTask

-----------------------------------------------------------------------------
\* The invariant holds when the constructor returns.
LEMMA InitIInv == Init => IInv
<1> SUFFICES ASSUME Init PROVE IInv
    OBVIOUS
<1>1. TypeOK
    <2>1. /\ due \in [Tasks -> Nat] /\ interval \in [Tasks -> Nat]
          /\ repeat \in [Tasks -> Int] /\ total \in [Tasks -> Int]
          /\ born \in [Tasks -> Nat] /\ runs \in [Tasks -> Nat]
        BY DEF Init
    <2>2. /\ upc \in [Users -> UserPCs] /\ rest \in [Users -> Nat]
          /\ wpc \in WorkerPCs
        BY DEF Init, UserPCs, WorkerPCs
    <2>3. QED
        BY <2>1, <2>2 DEF Init, TypeOK
<1>2. Bookkeeping
    BY DEF Init, Bookkeeping, Holding
<1>3. Live = {}
    BY DEF Init, Live, InFlight
<1>4. ActiveExact
    BY <1>3, FS_EmptySet DEF Init, ActiveExact
<1>5. QED
    BY <1>1, <1>2, <1>4 DEF IInv

\* What neither touches the timers nor lets the worker take or drop a task
\* keeps the bookkeeping and the count.
LEMMA SameTimersKeep ==
    ASSUME IInv, SameTimers, TypeOK',
           wpc' \in Holding <=> wpc \in Holding,
           wpc' = "decrement" => wpc = "decrement" \/ ~repeated
    PROVE  IInv'
<1>1. Live' = Live
    BY DEF SameTimers, Live, InFlight
<1>2. ActiveExact'
    BY <1>1 DEF SameTimers, counts, IInv, ActiveExact
<1>3. Bookkeeping'
    BY DEF SameTimers, IInv, Bookkeeping
<1>4. QED
    BY <1>2, <1>3 DEF IInv

\* A step that wakes the worker does not move it into or out of a callback.
LEMMA WakeKeeps ==
    ASSUME TypeOK, WakeWorker
    PROVE  /\ wpc' \in WorkerPCs
           /\ wpc' \in Holding <=> wpc \in Holding
           /\ wpc' = "decrement" => wpc = "decrement"
           /\ UNCHANGED <<job, repeated, alarm>>
<1>1. CASE wpc = "idle"
    BY <1>1 DEF WakeWorker, WorkerPCs, Holding
<1>2. CASE wpc = "dozing"
    BY <1>2 DEF WakeWorker, WorkerPCs, Holding
<1>3. CASE wpc \notin {"idle", "dozing"}
    BY <1>3 DEF WakeWorker, WorkerPCs, Holding, TypeOK
<1>4. QED
    BY <1>1, <1>2, <1>3

\* Every step of the worker keeps the invariant.
LEMMA WorkerKeeps ==
    ASSUME IInv, WorkerStep
    PROVE  IInv'
<1> USE DEF IInv
<1>1. CASE WorkerExits
    <2>1. TypeOK'
        BY <1>1 DEF WorkerExits, TypeOK, WorkerPCs, fields, counts, users, history
    <2>2. QED
        BY <1>1, <2>1, SameTimersKeep DEF WorkerExits, SameTimers, Holding
<1>2. CASE WorkerIdles
    <2>1. TypeOK'
        BY <1>2 DEF WorkerIdles, TypeOK, WorkerPCs, fields, counts, users, history
    <2>2. QED
        BY <1>2, <2>1, SameTimersKeep DEF WorkerIdles, SameTimers, Holding
<1>3. CASE WorkerDozes
    <2>1. TypeOK'
        BY <1>3 DEF WorkerDozes, TypeOK, WorkerPCs, fields, counts, users, history
    <2>2. QED
        BY <1>3, <2>1, SameTimersKeep DEF WorkerDozes, SameTimers, Holding
<1>4. CASE AlarmRings
    <2>1. TypeOK'
        BY <1>4 DEF AlarmRings, TypeOK, WorkerPCs, fields, counts, users, history
    <2>2. QED
        BY <1>4, <2>1, SameTimersKeep DEF AlarmRings, SameTimers, Holding
<1>5. CASE WokenFromDoze
    <2>1. wpc' \in {"lock", "dozing"} /\ alarm' \in Nat
        BY <1>5 DEF WokenFromDoze, TypeOK
    <2>2. TypeOK'
        BY <1>5, <2>1 DEF WokenFromDoze, TypeOK, WorkerPCs, fields, counts, users, history
    <2>3. QED
        BY <1>5, <2>1, <2>2, SameTimersKeep DEF WokenFromDoze, SameTimers, Holding
<1>6. ASSUME NEW t \in Tasks, StartTask(t) PROVE IInv'
    <2>1. t \in tasks_to_do /\ job = None /\ job' = t /\ wpc' = "running"
        BY <1>6 DEF StartTask, Earliest, Bookkeeping, Holding
    <2>2. tasks_to_do' = IF RunsAgain(t) THEN tasks_to_do ELSE tasks_to_do \ {t}
        BY <1>6 DEF StartTask
    <2>3. Live' = Live
        BY <2>1, <2>2, TimerAssumption
           DEF TimerAssumption, Live, InFlight, TypeOK
    <2>4. ActiveExact'
        BY <1>6, <2>3 DEF StartTask, ActiveExact
    <2>5. Bookkeeping'
        BY <1>6, <2>1, <2>2, TimerAssumption
           DEF TimerAssumption, StartTask, Bookkeeping, Holding
    <2>6. /\ due' \in [Tasks -> Nat] /\ timer_count' \in Nat
          /\ repeat' \in [Tasks -> Int] /\ runs' \in [Tasks -> Nat]
        BY <1>6 DEF StartTask, NextDue, TypeOK
    <2>7. TypeOK'
        BY <1>6, <2>1, <2>2, <2>6
           DEF StartTask, RunsAgain, TypeOK, WorkerPCs, users
    <2>8. QED
        BY <2>4, <2>5, <2>7
<1>7. CASE FinishTask
    <2>1. TypeOK'
        BY <1>7 DEF FinishTask, TypeOK, WorkerPCs, fields, counts, users, history
    <2>2. QED
        BY <1>7, <2>1, SameTimersKeep DEF FinishTask, SameTimers, Holding
<1>8. CASE NotifyWaiters
    <2>1. upc' \in [Users -> UserPCs]
        BY <1>8 DEF NotifyWaiters, TypeOK, UserPCs
    <2>2. CASE repeated
        <3>1. EndIteration /\ job \in tasks_to_do
            BY <1>8, <2>2 DEF NotifyWaiters, KeptActive, Bookkeeping
        <3>2. Live' = Live
            BY <1>8, <3>1 DEF NotifyWaiters, EndIteration, Live, InFlight
        <3>3. ActiveExact'
            BY <1>8, <3>2 DEF NotifyWaiters, ActiveExact, counts
        <3>4. TypeOK'
            BY <1>8, <2>1, <3>1
               DEF NotifyWaiters, EndIteration, TypeOK, WorkerPCs, fields, counts, history
        <3>5. Bookkeeping'
            BY <1>8, <3>1, TimerAssumption
               DEF TimerAssumption, NotifyWaiters, EndIteration, Bookkeeping, Holding,
                   TypeOK
        <3>6. QED
            BY <3>3, <3>4, <3>5
    <2>3. CASE ~repeated
        <3>1. wpc' = "decrement" /\ UNCHANGED <<job, repeated>>
            BY <1>8, <2>3 DEF NotifyWaiters, KeptActive
        <3>2. TypeOK'
            BY <1>8, <2>1, <3>1
               DEF NotifyWaiters, TypeOK, WorkerPCs, fields, counts, history
        <3>3. QED
            BY <1>8, <2>3, <3>1, <3>2, SameTimersKeep
               DEF NotifyWaiters, SameTimers, Holding
    <2>4. QED
        BY <2>2, <2>3
<1>9. CASE DecrementActive
    <2>1. EndIteration /\ job \notin tasks_to_do /\ job # None
        BY <1>9 DEF DecrementActive, Bookkeeping, Holding
    <2>2. Live' = Live \ {job} /\ job \in Live
        BY <1>9, <2>1 DEF DecrementActive, EndIteration, Live, InFlight
    <2>3. ActiveExact' /\ active_timer_count' \in Nat
        <3>1. IsFiniteSet(Live)
            BY LiveFinite
        <3>2. /\ Cardinality(Live \ {job}) = Cardinality(Live) - 1
              /\ Cardinality(Live \ {job}) \in Nat
            BY <2>2, <3>1, FS_RemoveElement, FS_CardinalityType
        <3>3. QED
            BY <1>9, <2>2, <3>2 DEF DecrementActive, ActiveExact
    <2>4. TypeOK'
        BY <1>9, <2>1, <2>3
           DEF DecrementActive, EndIteration, TypeOK, WorkerPCs, fields, users, history
    <2>5. Bookkeeping'
        BY <1>9, <2>1, TimerAssumption
           DEF TimerAssumption, DecrementActive, EndIteration, Bookkeeping, Holding, TypeOK
    <2>6. QED
        BY <2>3, <2>4, <2>5
<1>10. QED
    BY <1>1, <1>2, <1>3, <1>4, <1>5, <1>6, <1>7, <1>8, <1>9 DEF WorkerStep

\* Every step of a user, and its call, keeps the invariant.
LEMMA UserKeeps ==
    ASSUME IInv, NEW u \in Users, UserStep(u) \/ UserCall(u)
    PROVE  IInv'
<1> USE DEF IInv
<1>1. CASE CreateTimer(u)
    <2>1. PICK t \in Tasks, d \in Delays, n \in Repeats : PushTask(t, d, n)
        BY <1>1 DEF CreateTimer
    <2>2. Bookkeeping' /\ ActiveExact'
        BY <1>1, <2>1, PushCounts DEF CreateTimer, worker
    <2>3. TypeOK'
        BY <1>1, <2>1, PushTypes DEF CreateTimer, worker, TypeOK, UserPCs
    <2>4. QED
        BY <2>2, <2>3
<1>2. CASE SignalWorker(u)
    <2>1. TypeOK'
        BY <1>2, WakeKeeps
           DEF SignalWorker, TypeOK, UserPCs, fields, counts, history
    <2>2. QED
        BY <1>2, <2>1, WakeKeeps, SameTimersKeep DEF SignalWorker, SameTimers
<1>3. CASE WaitTillLast(u)
    <2>1. rest' \in [Users -> Nat]
        BY <1>3, TimerAssumption DEF TimerAssumption, WaitTillLast, TypeOK
    <2>2. TypeOK'
        BY <1>3, <2>1 DEF WaitTillLast, TypeOK, UserPCs, fields, counts, worker, history
    <2>3. QED
        BY <1>3, <2>2, SameTimersKeep DEF WaitTillLast, SameTimers, worker
<1>4. CASE WaitReturns(u)
    <2>1. TypeOK'
        BY <1>4 DEF WaitReturns, TypeOK, UserPCs, fields, counts, worker, history
    <2>2. QED
        BY <1>4, <2>1, SameTimersKeep DEF WaitReturns, SameTimers, worker
<1>5. CASE WaitDecides(u)
    <2>1. TypeOK'
        BY <1>5 DEF WaitDecides, TypeOK, UserPCs, fields, counts, worker, history
    <2>2. QED
        BY <1>5, <2>1, SameTimersKeep DEF WaitDecides, SameTimers, worker
<1>6. CASE WaitSleeps(u)
    <2>1. TypeOK'
        BY <1>6 DEF WaitSleeps, TypeOK, UserPCs, fields, counts, worker, history
    <2>2. QED
        BY <1>6, <2>1, SameTimersKeep DEF WaitSleeps, SameTimers, worker
<1>7. CASE WaitRelocks(u)
    <2>1. TypeOK'
        BY <1>7 DEF WaitRelocks, TypeOK, UserPCs, fields, counts, worker, history
    <2>2. QED
        BY <1>7, <2>1, SameTimersKeep DEF WaitRelocks, SameTimers, worker
<1>8. CASE Destroy(u)
    <2>1. TypeOK'
        BY <1>8 DEF Destroy, TypeOK, UserPCs, fields, counts, worker, history
    <2>2. QED
        BY <1>8, <2>1, SameTimersKeep DEF Destroy, SameTimers, worker
<1>9. CASE DestroySignals(u)
    <2>1. TypeOK'
        BY <1>9, WakeKeeps
           DEF DestroySignals, TypeOK, UserPCs, fields, counts, history
    <2>2. QED
        BY <1>9, <2>1, WakeKeeps, SameTimersKeep DEF DestroySignals, SameTimers
<1>10. CASE DestroyJoins(u)
    <2>1. TypeOK'
        BY <1>10 DEF DestroyJoins, TypeOK, UserPCs, fields, counts, worker, history
    <2>2. QED
        BY <1>10, <2>1, SameTimersKeep DEF DestroyJoins, SameTimers, worker
<1>11. QED
    BY <1>1, <1>2, <1>3, <1>4, <1>5, <1>6, <1>7, <1>8, <1>9, <1>10
       DEF UserStep, UserCall

\* Every step of the system keeps the invariant.
LEMMA NextKeeps == IInv /\ [Next]_vars => IInv'
<1> SUFFICES ASSUME IInv, [Next]_vars PROVE IInv'
    OBVIOUS
<1> USE DEF IInv
<1>1. CASE TaskCreatesTimer
    <2>1. PICK t \in Tasks, d \in Delays, n \in Repeats : PushTask(t, d, n)
        BY <1>1 DEF TaskCreatesTimer
    <2>2. Bookkeeping' /\ ActiveExact'
        BY <1>1, <2>1, PushCounts DEF TaskCreatesTimer, worker
    <2>3. TypeOK'
        BY <1>1, <2>1, PushTypes DEF TaskCreatesTimer, worker, users, TypeOK
    <2>4. QED
        BY <2>2, <2>3
<1>2. CASE Tick
    <2>1. TypeOK'
        BY <1>2 DEF Tick, TypeOK, fields, counts, worker, users, history
    <2>2. QED
        BY <1>2, <2>1, SameTimersKeep DEF Tick, SameTimers, worker
<1>3. CASE SpuriousWorkerWakeup
    <2>1. TypeOK'
        BY <1>3, WakeKeeps
           DEF SpuriousWorkerWakeup, TypeOK, fields, counts, users, history
    <2>2. QED
        BY <1>3, <2>1, WakeKeeps, SameTimersKeep DEF SpuriousWorkerWakeup, SameTimers
<1>4. ASSUME NEW u \in Users, SpuriousWaiterWakeup(u) PROVE IInv'
    <2>1. TypeOK'
        BY <1>4 DEF SpuriousWaiterWakeup, TypeOK, UserPCs, fields, counts, worker, history
    <2>2. QED
        BY <1>4, <2>1, SameTimersKeep DEF SpuriousWaiterWakeup, SameTimers, worker
<1>5. CASE UNCHANGED vars
    <2>1. TypeOK'
        BY <1>5 DEF vars, TypeOK, fields, counts, worker, users, history
    <2>2. QED
        BY <1>5, <2>1, SameTimersKeep DEF vars, SameTimers, worker
<1>6. QED
    BY <1>1, <1>2, <1>3, <1>4, <1>5, WorkerKeeps, UserKeeps DEF Next

\* The counter and the worker's locals agree with the timers in every reachable
\* state.
THEOREM Invariance == Spec => []IInv
BY InitIInv, NextKeeps, PTL DEF Spec

\* Type correctness; in particular active_timer_count_, which is unsigned, is
\* never decremented at zero.
THEOREM TypeCorrect == Spec => []TypeOK
<1>1. IInv => TypeOK
    BY DEF IInv
<1>2. QED
    BY <1>1, Invariance, PTL

\* GetActiveTimerCount and WaitTillLast read the number of timers that are
\* queued or whose callback is not over.
THEOREM ActiveCountIsExact == Spec => []ActiveExact
<1>1. IInv => ActiveExact
    BY DEF IInv
<1>2. QED
    BY <1>1, Invariance, PTL

-----------------------------------------------------------------------------
\* What a step may do to the timers: nothing, create one, or start one.
LEMMA StepKinds ==
    ASSUME [Next]_vars
    PROVE  \/ UNCHANGED <<tasks_to_do, fields, history>>
           \/ \E t \in Tasks, d \in Delays, n \in Repeats : PushTask(t, d, n)
           \/ \E t \in Tasks : StartTask(t)
<1>1. CASE UNCHANGED vars
    BY <1>1 DEF vars
<1>2. CASE WorkerStep
    BY <1>2 DEF WorkerStep, WorkerExits, WorkerIdles, WorkerDozes, AlarmRings,
                WokenFromDoze, FinishTask, NotifyWaiters, DecrementActive
<1>3. ASSUME NEW u \in Users, UserStep(u) PROVE UNCHANGED <<tasks_to_do, fields, history>>
    BY <1>3 DEF UserStep, SignalWorker, WaitReturns, WaitDecides, WaitSleeps,
                WaitRelocks, DestroySignals, DestroyJoins
<1>4. ASSUME NEW u \in Users, UserCall(u)
      PROVE  \/ UNCHANGED <<tasks_to_do, fields, history>>
             \/ \E t \in Tasks, d \in Delays, n \in Repeats : PushTask(t, d, n)
    BY <1>4 DEF UserCall, CreateTimer, WaitTillLast, Destroy
<1>5. CASE TaskCreatesTimer
    BY <1>5 DEF TaskCreatesTimer
<1>6. CASE Tick \/ SpuriousWorkerWakeup \/ \E u \in Users : SpuriousWaiterWakeup(u)
    BY <1>6 DEF Tick, SpuriousWorkerWakeup, SpuriousWaiterWakeup
<1>7. QED
    BY <1>1, <1>2, <1>3, <1>4, <1>5, <1>6 DEF Next

LEMMA IterationsKept == IInv /\ Iterations /\ [Next]_vars => Iterations'
<1> SUFFICES ASSUME IInv, Iterations, [Next]_vars PROVE Iterations'
    OBVIOUS
<1> USE DEF IInv
<1>1. CASE UNCHANGED <<tasks_to_do, fields, history>>
    BY <1>1 DEF Iterations, fields, history
<1>2. ASSUME NEW t \in Tasks, NEW d \in Delays, NEW n \in Repeats, PushTask(t, d, n)
      PROVE  Iterations'
    <2>1. n = Forever \/ n \in Nat \ {0}
        BY TimerAssumption DEF TimerAssumption, Forever
    <2>2. /\ repeat'[t] = n /\ total'[t] = n /\ runs' = runs
          /\ t \in tasks_to_do' /\ t \notin created
          /\ created' = created \cup {t}
        BY <1>2 DEF PushTask, TypeOK
    <2>3. \A s \in created :
              /\ repeat'[s] = repeat[s] /\ total'[s] = total[s]
              /\ s \in tasks_to_do' <=> s \in tasks_to_do
        BY <1>2 DEF PushTask, TypeOK
    <2>4. runs[t] = 0
        BY <2>2 DEF Iterations
    <2>5. QED
        BY <1>2, <2>1, <2>2, <2>3, <2>4 DEF Iterations, Forever
<1>3. ASSUME NEW t \in Tasks, StartTask(t) PROVE Iterations'
    <2>1. /\ t \in tasks_to_do /\ t \in created
          /\ UNCHANGED <<total, created>>
        BY <1>3 DEF StartTask, Earliest, TypeOK
    <2>2. /\ runs' = [runs EXCEPT ![t] = @ + 1]
          /\ repeat' = IF repeat[t] = Forever THEN repeat
                       ELSE [repeat EXCEPT ![t] = @ - 1]
          /\ tasks_to_do' = IF RunsAgain(t) THEN tasks_to_do ELSE tasks_to_do \ {t}
        BY <1>3 DEF StartTask
    <2>3. QED
        BY <2>1, <2>2 DEF Iterations, RunsAgain, Forever, TypeOK
<1>4. QED
    BY <1>1, <1>2, <1>3, StepKinds

\* One interval more is one run more.
LEMMA OneMoreInterval ==
    ASSUME NEW b \in Nat, NEW i \in Nat, NEW r \in Nat
    PROVE  (b + i * (r + 1)) + i = b + i * ((r + 1) + 1)
<1>1. i * ((r + 1) + 1) = i * (r + 1) + i
    OBVIOUS
<1>2. i * (r + 1) \in Nat
    OBVIOUS
<1>3. QED
    BY <1>1, <1>2

LEMMA TimingKept == IInv /\ Iterations /\ Timing /\ [Next]_vars => Timing'
<1> SUFFICES ASSUME IInv, Iterations, Timing, [Next]_vars PROVE Timing'
    OBVIOUS
<1> USE DEF IInv
<1>1. CASE UNCHANGED <<tasks_to_do, fields, history>>
    BY <1>1 DEF Timing, fields, history
<1>2. ASSUME NEW t \in Tasks, NEW d \in Delays, NEW n \in Repeats, PushTask(t, d, n)
      PROVE  Timing'
    <2>1. d \in Nat
        BY TimerAssumption DEF TimerAssumption
    <2>2. /\ due'[t] = now + d /\ born'[t] = now /\ interval'[t] = d
          /\ runs' = runs /\ runs[t] = 0
          /\ tasks_to_do' = tasks_to_do \cup {t} /\ t \notin tasks_to_do
        BY <1>2 DEF PushTask, TypeOK, Iterations
    <2>3. due'[t] = born'[t] + interval'[t] * (runs'[t] + 1)
        BY <2>1, <2>2 DEF TypeOK
    <2>4. \A s \in tasks_to_do :
              due'[s] = due[s] /\ born'[s] = born[s] /\ interval'[s] = interval[s]
        BY <1>2, <2>2 DEF PushTask, TypeOK
    <2>5. QED
        BY <2>2, <2>3, <2>4 DEF Timing
<1>3. ASSUME NEW t \in Tasks, StartTask(t) PROVE Timing'
    <2>1. /\ t \in tasks_to_do
          /\ runs' = [runs EXCEPT ![t] = @ + 1]
          /\ UNCHANGED <<born, interval>>
        BY <1>3 DEF StartTask, Earliest
    <2>2. \A s \in tasks_to_do' : s \in tasks_to_do /\ s \in Tasks
        BY <1>3 DEF StartTask, TypeOK
    <2>3. \A s \in tasks_to_do' \ {t} : due'[s] = due[s] /\ runs'[s] = runs[s]
        BY <1>3, <2>2 DEF StartTask, TypeOK
    <2>4. CASE RunsAgain(t)
        <3>1. due'[t] = due[t] + interval[t] /\ runs'[t] = runs[t] + 1
            BY <1>3, <2>4 DEF StartTask, NextDue, TypeOK
        <3>2. due[t] = born[t] + interval[t] * (runs[t] + 1)
            BY <2>1 DEF Timing
        <3>3. interval[t] \in Nat /\ runs[t] \in Nat /\ born[t] \in Nat
            BY DEF TypeOK
        <3>4. due'[t] = born[t] + interval[t] * ((runs[t] + 1) + 1)
            BY <3>1, <3>2, <3>3, OneMoreInterval
        <3>5. born'[t] = born[t] /\ interval'[t] = interval[t]
            BY <2>1
        <3>6. QED
            BY <2>1, <2>2, <2>3, <3>1, <3>4, <3>5 DEF Timing
    <2>5. CASE ~RunsAgain(t)
        <3>1. t \notin tasks_to_do'
            BY <1>3, <2>5 DEF StartTask
        <3>2. QED
            BY <2>1, <2>2, <2>3, <3>1 DEF Timing
    <2>6. QED
        BY <2>4, <2>5
<1>4. QED
    BY <1>1, <1>2, <1>3, StepKinds

\* Both invariants of the timers hold in every reachable state.
THEOREM TimersInvariance == Spec => [](Iterations /\ Timing)
<1>1. Init => Iterations /\ Timing
    BY DEF Init, Iterations, Timing
<1>2. QED
    BY <1>1, IterationsKept, TimingKept, Invariance, PTL DEF Spec

\* Schedule(Start, x, n) executes its block n times: a timer is never started
\* more often, and is gone only after that many runs.
THEOREM TimersRunAsOften == Spec => []IterationsExact
<1>1. IInv /\ Iterations => IterationsExact
    <2> SUFFICES ASSUME IInv, Iterations, NEW t \in created
                 PROVE  /\ total[t] # Forever => runs[t] <= total[t]
                        /\ t \notin Live => total[t] # Forever /\ runs[t] = total[t]
        BY DEF IterationsExact
    <2>1. t \in Tasks /\ runs[t] \in Nat /\ repeat[t] \in Int
        BY DEF IInv, TypeOK
    <2>2. QED
        BY <2>1 DEF Iterations, Live
<1>2. QED
    BY <1>1, Invariance, TimersInvariance, PTL

\* The k-th run of a timer never starts before its k-th interval has passed.
THEOREM RunsAreNeverEarly == Spec => NeverEarly
<1>1. IInv /\ Timing /\ [Next]_vars =>
        [\A t \in Tasks :
            runs'[t] > runs[t] => now >= born[t] + interval[t] * runs'[t]]_vars
    <2> SUFFICES ASSUME IInv, Timing, [Next]_vars, NEW t \in Tasks, runs'[t] > runs[t]
                 PROVE  now >= born[t] + interval[t] * runs'[t]
        OBVIOUS
    <2>1. runs[t] \in Nat
        BY DEF IInv, TypeOK
    <2>2. ~UNCHANGED runs
        BY <2>1
    <2>3. PICK s \in Tasks : StartTask(s)
        BY <2>2, StepKinds DEF history, PushTask
    <2>4. runs' = [runs EXCEPT ![s] = @ + 1] /\ runs \in [Tasks -> Nat]
        BY <2>3 DEF StartTask, IInv, TypeOK
    <2>5. s = t /\ runs'[t] = runs[t] + 1
        BY <2>1, <2>4
    <2>6. t \in tasks_to_do /\ now >= due[t]
        BY <2>3, <2>5 DEF StartTask, Earliest
    <2>7. QED
        BY <2>5, <2>6 DEF Timing
<1>2. QED
    BY <1>1, Invariance, TimersInvariance, PTL DEF Spec, NeverEarly

-----------------------------------------------------------------------------
\* Where a user is cannot change by a step of the worker, except that a
\* notification wakes those that sleep in WaitTillLast.
LEMMA WorkerMovesUsers ==
    ASSUME TypeOK, WorkerStep, NEW u \in Users
    PROVE  upc'[u] = upc[u] \/ (upc[u] = "asleep" /\ upc'[u] = "woken")
<1>1. CASE NotifyWaiters
    <2>1. upc' = [v \in Users |-> IF upc[v] = "asleep" THEN "woken" ELSE upc[v]]
        BY <1>1 DEF NotifyWaiters
    <2>2. QED
        BY <2>1
<1>2. CASE ~NotifyWaiters
    <2>1. UNCHANGED users
        BY <1>2 DEF WorkerStep, WorkerExits, WorkerIdles, WorkerDozes, AlarmRings,
                    WokenFromDoze, StartTask, FinishTask, DecrementActive
    <2>2. QED
        BY <2>1 DEF users
<1>3. QED
    BY <1>1, <1>2

LEMMA SignalsKept == TypeOK /\ NoMissedSignal /\ [Next]_vars => NoMissedSignal'
<1> SUFFICES ASSUME TypeOK, NoMissedSignal, [Next]_vars PROVE NoMissedSignal'
    OBVIOUS
<1>1. CASE UNCHANGED vars
    BY <1>1 DEF NoMissedSignal, vars, users, worker
<1>2. CASE WorkerStep
    <2>1. \A u \in Users : upc[u] \in {"signal", "stopSignal"} => upc'[u] = upc[u]
        BY <1>2, WorkerMovesUsers
    <2>2. wpc' = "idle" => tasks_to_do' = {} /\ ~stop'
        BY <1>2 DEF WorkerStep, WorkerExits, WorkerIdles, WorkerDozes, AlarmRings,
                    WokenFromDoze, StartTask, FinishTask, NotifyWaiters,
                    DecrementActive, EndIteration
    <2>3. wpc' = "dozing" => ~stop'
        BY <1>2 DEF WorkerStep, WorkerExits, WorkerIdles, WorkerDozes, AlarmRings,
                    WokenFromDoze, StartTask, FinishTask, NotifyWaiters,
                    DecrementActive, EndIteration
    <2>4. QED
        BY <2>2, <2>3 DEF NoMissedSignal
<1>3. ASSUME NEW u \in Users, CreateTimer(u) PROVE NoMissedSignal'
    <2>1. upc'[u] = "signal" /\ ~stop'
        BY <1>3 DEF CreateTimer, TypeOK
    <2>2. QED
        BY <2>1 DEF NoMissedSignal
<1>4. ASSUME NEW u \in Users, SignalWorker(u) \/ DestroySignals(u) PROVE NoMissedSignal'
    <2>1. wpc' \notin {"idle", "dozing"}
        BY <1>4 DEF SignalWorker, DestroySignals, WakeWorker
    <2>2. QED
        BY <2>1 DEF NoMissedSignal
<1>5. ASSUME NEW u \in Users, Destroy(u) PROVE NoMissedSignal'
    <2>1. upc'[u] = "stopSignal" /\ UNCHANGED <<wpc, tasks_to_do>>
        BY <1>5 DEF Destroy, TypeOK, worker
    <2>2. \A v \in Users : upc[v] # "signal"
        BY <1>5 DEF Destroy, Outside
    <2>3. QED
        BY <2>1, <2>2 DEF NoMissedSignal
<1>6. ASSUME NEW u \in Users,
             \/ WaitReturns(u) \/ WaitDecides(u) \/ WaitSleeps(u) \/ WaitRelocks(u)
             \/ DestroyJoins(u) \/ WaitTillLast(u) \/ SpuriousWaiterWakeup(u)
      PROVE  NoMissedSignal'
    <2>1. UNCHANGED <<wpc, tasks_to_do, stop>>
        BY <1>6 DEF WaitReturns, WaitDecides, WaitSleeps, WaitRelocks, DestroyJoins,
                    WaitTillLast, SpuriousWaiterWakeup, worker
    <2>2. \A v \in Users : upc[v] \in {"signal", "stopSignal"} => upc'[v] = upc[v]
        BY <1>6 DEF WaitReturns, WaitDecides, WaitSleeps, WaitRelocks, DestroyJoins,
                    WaitTillLast, SpuriousWaiterWakeup, TypeOK
    <2>3. QED
        BY <2>1, <2>2 DEF NoMissedSignal
<1>7. CASE TaskCreatesTimer
    BY <1>7 DEF TaskCreatesTimer, NoMissedSignal, worker
<1>8. CASE Tick
    BY <1>8 DEF Tick, NoMissedSignal, worker, users
<1>9. CASE SpuriousWorkerWakeup
    <2>1. wpc' \notin {"idle", "dozing"}
        BY <1>9 DEF SpuriousWorkerWakeup, WakeWorker
    <2>2. QED
        BY <2>1 DEF NoMissedSignal
<1>10. QED
    BY <1>1, <1>2, <1>3, <1>4, <1>5, <1>6, <1>7, <1>8, <1>9 DEF Next, UserStep, UserCall

\* cond_var_ loses no wakeup: a worker asleep although there is a task and it
\* has no deadline, or although it must stop, is about to be notified.
THEOREM WorkerIsNotified == Spec => []NoMissedSignal
<1>1. Init => NoMissedSignal
    BY DEF Init, NoMissedSignal
<1>2. QED
    BY <1>1, SignalsKept, TypeCorrect, PTL DEF Spec

\* WaitTillLast(rest) returns only when at most `rest' timers are queued or in
\* a callback.
THEOREM WaitReturnsInTime == Spec => WaitMeansDone
<1>1. IInv /\ [Next]_vars =>
        [\A u \in Users : upc[u] = "check" /\ upc'[u] = "returned"
                            => Cardinality(Live) <= rest[u]]_vars
    <2> SUFFICES ASSUME IInv, [Next]_vars, NEW u \in Users,
                        upc[u] = "check", upc'[u] = "returned"
                 PROVE  Cardinality(Live) <= rest[u]
        OBVIOUS
    <2> USE DEF IInv
    <2>1. ~WorkerStep
        BY WorkerMovesUsers
    <2>2. UNCHANGED upc => FALSE
        OBVIOUS
    <2>3. PICK v \in Users :
              UserStep(v) \/ UserCall(v) \/ SpuriousWaiterWakeup(v)
        BY <2>1, <2>2 DEF Next, vars, users, TaskCreatesTimer, Tick, SpuriousWorkerWakeup
    <2>4. v = u
        <3>1. \E l \in UserPCs : upc' = [upc EXCEPT ![v] = l]
            BY <2>3 DEF UserStep, UserCall, SignalWorker, WaitReturns, WaitDecides,
                        WaitSleeps, WaitRelocks, DestroySignals, DestroyJoins, CreateTimer,
                        WaitTillLast, Destroy, SpuriousWaiterWakeup, UserPCs
        <3>2. QED
            BY <3>1 DEF TypeOK
    <2>5. WaitReturns(u)
        <3>1. /\ ~WaitDecides(u) /\ ~WaitSleeps(u) /\ ~WaitRelocks(u)
              /\ ~SignalWorker(u) /\ ~DestroySignals(u) /\ ~DestroyJoins(u)
            BY DEF SignalWorker, WaitDecides, WaitSleeps, WaitRelocks, DestroySignals,
                   DestroyJoins, TypeOK
        <3>2. /\ ~CreateTimer(u) /\ ~WaitTillLast(u) /\ ~SpuriousWaiterWakeup(u)
            BY DEF CreateTimer, WaitTillLast, SpuriousWaiterWakeup, TypeOK, Outside
        <3>3. ~Destroy(u)
            BY DEF Destroy, TypeOK
        <3>4. QED
            BY <2>3, <2>4, <3>1, <3>2, <3>3 DEF UserStep, UserCall
    <2>6. QED
        BY <2>5 DEF WaitReturns, FewEnough, ActiveExact
<1>2. QED
    BY <1>1, Invariance, PTL DEF Spec, WaitMeansDone

-----------------------------------------------------------------------------
(***************************************************************************)
(* The manager implements its contract.                                    *)
(***************************************************************************)

InDestructor == {"stopSignal", "join", "gone"}

\* Only the owner is ever in the destructor, which sets stop_ first.
Closing ==
    /\ \A u \in Users : upc[u] \in InDestructor => u = Owner
    /\ stop <=> upc[Owner] \in InDestructor

LEMMA ClosingKept == TypeOK /\ Closing /\ [Next]_vars => Closing'
<1> SUFFICES ASSUME TypeOK, Closing, [Next]_vars PROVE Closing'
    OBVIOUS
<1>0. Owner \in Users
    BY TimerAssumption DEF TimerAssumption
<1>1. CASE WorkerStep
    <2>1. UNCHANGED stop
        BY <1>1 DEF WorkerStep, WorkerExits, WorkerIdles, WorkerDozes, AlarmRings,
                    WokenFromDoze, StartTask, FinishTask, NotifyWaiters, DecrementActive
    <2>2. \A u \in Users : upc'[u] \in InDestructor <=> upc[u] \in InDestructor
        BY <1>1, WorkerMovesUsers DEF InDestructor
    <2>3. QED
        BY <1>0, <2>1, <2>2 DEF Closing
<1>2. ASSUME NEW u \in Users, Destroy(u) PROVE Closing'
    <2>1. u = Owner /\ stop' /\ upc' = [upc EXCEPT ![u] = "stopSignal"]
        BY <1>2 DEF Destroy
    <2>2. QED
        BY <1>0, <2>1 DEF Closing, InDestructor, TypeOK
<1>3. ASSUME NEW u \in Users, DestroySignals(u) \/ DestroyJoins(u) PROVE Closing'
    <2>1. /\ upc[u] \in InDestructor /\ UNCHANGED stop
          /\ \E l \in InDestructor : upc' = [upc EXCEPT ![u] = l]
        BY <1>3 DEF DestroySignals, DestroyJoins, InDestructor
    <2>2. QED
        BY <1>0, <2>1 DEF Closing, TypeOK
<1>4. ASSUME NEW u \in Users,
             \/ CreateTimer(u) \/ SignalWorker(u) \/ WaitTillLast(u) \/ WaitReturns(u)
             \/ WaitDecides(u) \/ WaitSleeps(u) \/ WaitRelocks(u) \/ SpuriousWaiterWakeup(u)
      PROVE  Closing'
    <2>1. /\ upc[u] \notin InDestructor /\ UNCHANGED stop
          /\ \E l \in UserPCs \ InDestructor : upc' = [upc EXCEPT ![u] = l]
        BY <1>4 DEF CreateTimer, SignalWorker, WaitTillLast, WaitReturns, WaitDecides,
                    WaitSleeps, WaitRelocks, SpuriousWaiterWakeup, InDestructor, UserPCs,
                    Outside
    <2>2. QED
        BY <1>0, <2>1 DEF Closing, TypeOK
<1>5. CASE TaskCreatesTimer \/ Tick \/ SpuriousWorkerWakeup \/ UNCHANGED vars
    <2>1. UNCHANGED <<stop, upc>>
        BY <1>5 DEF TaskCreatesTimer, Tick, SpuriousWorkerWakeup, vars, users
    <2>2. QED
        BY <2>1 DEF Closing
<1>6. QED
    BY <1>1, <1>2, <1>3, <1>4, <1>5 DEF Next, UserStep, UserCall

\* What a client sees of a user's position: whether it waits, and for what, and
\* whether the destructor has begun and ended.
LEMMA SameView ==
    ASSUME TypeOK, UNCHANGED rest, DOMAIN upc' = Users,
           \A u \in Users : \/ upc'[u] = upc[u]
                           \/ {upc[u], upc'[u]} \subseteq {"check", "block", "asleep", "woken"}
                           \/ {upc[u], upc'[u]} \subseteq {"ready", "returned", "signal"}
                           \/ {upc[u], upc'[u]} \subseteq {"stopSignal", "join"}
    PROVE  UNCHANGED <<Waiting, Phase>>
<1>1. \A u \in Users : InWait(u)' <=> InWait(u)
    BY DEF InWait
<1>2. Owner \in Users
    BY TimerAssumption DEF TimerAssumption
<1>3. Phase' = Phase
    BY <1>2 DEF Phase
<1>4. Waiting' = Waiting
    BY <1>1 DEF Waiting
<1>5. QED
    BY <1>3, <1>4

\* Creating a timer is a Create of the contract.
LEMMA PushRefines ==
    ASSUME IInv, NEW t \in Tasks, NEW d \in Delays, NEW n \in Repeats,
           PushTask(t, d, n), Phase = "open" \/ job # None,
           UNCHANGED <<job, Waiting, Phase>>
    PROVE  Contract!Create(t, n)
<1>1. Live' = Live \cup {t}
    BY DEF PushTask, Live, InFlight
<1>2. QED
    BY <1>1 DEF PushTask, Contract!Create

\* Each step of the worker is a Begin, an End, or invisible.
LEMMA WorkerRefines ==
    ASSUME IInv, Iterations, Closing, WorkerStep
    PROVE  [Contract!Next]_(Contract!vars)
<1> USE DEF IInv
<1>1. UNCHANGED <<Waiting, Phase>>
    <2>1. UNCHANGED rest /\ DOMAIN upc' = Users
        <3>1. CASE NotifyWaiters
            BY <3>1 DEF NotifyWaiters
        <3>2. CASE ~NotifyWaiters
            <4>1. UNCHANGED users
                BY <3>2 DEF WorkerStep, WorkerExits, WorkerIdles, WorkerDozes, AlarmRings,
                            WokenFromDoze, StartTask, FinishTask, DecrementActive
            <4>2. QED
                BY <4>1 DEF users, TypeOK
        <3>3. QED
            BY <3>1, <3>2
    <2>2. QED
        BY <2>1, WorkerMovesUsers, SameView
<1>2. CASE WorkerExits \/ WorkerIdles \/ WorkerDozes \/ AlarmRings \/ WokenFromDoze
           \/ FinishTask
    <2>1. UNCHANGED <<tasks_to_do, fields, job, history>>
        BY <1>2 DEF WorkerExits, WorkerIdles, WorkerDozes, AlarmRings, WokenFromDoze,
                    FinishTask
    <2>2. QED
        BY <1>1, <2>1 DEF Contract!vars, Live, InFlight, fields, history
<1>3. ASSUME NEW t \in Tasks, StartTask(t) PROVE Contract!Begin(t)
    <2>1. Phase = "open"
        <3>1. upc[Owner] \notin InDestructor
            BY <1>3 DEF StartTask, Closing
        <3>2. QED
            BY <3>1 DEF Phase, InDestructor
    <2>2. t \in tasks_to_do /\ job = None /\ job' = t
        BY <1>3 DEF StartTask, Earliest, Bookkeeping, Holding
    <2>3. t \in created /\ repeat[t] # 0
        BY <2>2 DEF Iterations, TypeOK, Forever
    <2>4. Live' = Live
        BY <1>3, <2>2, TimerAssumption DEF TimerAssumption, StartTask, Live, InFlight, TypeOK
    <2>5. QED
        BY <1>1, <1>3, <2>1, <2>2, <2>3, <2>4
           DEF Contract!Begin, Contract!Forever, StartTask, Live, Forever
<1>4. CASE NotifyWaiters
    <2>1. UNCHANGED <<tasks_to_do, repeat, created>>
        BY <1>4 DEF NotifyWaiters, fields, history
    <2>2. CASE repeated
        <3>1. job \in tasks_to_do /\ job # None /\ job' = None
            BY <1>4, <2>2 DEF NotifyWaiters, KeptActive, EndIteration, Bookkeeping, Holding
        <3>2. Live' = Live /\ repeat[job] # 0
            BY <2>1, <3>1 DEF Live, InFlight, Iterations, TypeOK, Forever
        <3>3. Contract!End
            BY <1>1, <2>1, <3>1, <3>2 DEF Contract!End
        <3>4. QED
            BY <3>3 DEF Contract!Next
    <2>3. CASE ~repeated
        <3>1. UNCHANGED job
            BY <1>4, <2>3 DEF NotifyWaiters, KeptActive
        <3>2. QED
            BY <1>1, <2>1, <3>1 DEF Contract!vars, Live, InFlight
    <2>4. QED
        BY <2>2, <2>3
<1>5. CASE DecrementActive
    <2>1. /\ job # None /\ job' = None /\ job \notin tasks_to_do
          /\ UNCHANGED <<tasks_to_do, repeat, created>>
        BY <1>5 DEF DecrementActive, EndIteration, Bookkeeping, Holding, fields, history
    <2>2. repeat[job] = 0
        BY <2>1 DEF Iterations, TypeOK
    <2>3. Live' = Live \ {job}
        BY <2>1 DEF Live, InFlight
    <2>4. Contract!End
        BY <1>1, <2>1, <2>2, <2>3 DEF Contract!End
    <2>5. QED
        BY <2>4 DEF Contract!Next
<1>6. QED
    BY <1>2, <1>3, <1>4, <1>5 DEF WorkerStep, Contract!Next

\* Each step of a user is a step of the contract or invisible.
LEMMA UserRefines ==
    ASSUME IInv, Closing, NEW u \in Users,
           UserStep(u) \/ UserCall(u) \/ SpuriousWaiterWakeup(u)
    PROVE  [Contract!Next]_(Contract!vars)
<1> USE DEF IInv
<1>0. Owner \in Users
    BY TimerAssumption DEF TimerAssumption
<1>1. stop \/ Phase = "open"
    BY DEF Closing, Phase, InDestructor
<1>2. CASE CreateTimer(u)
    <2>1. PICK t \in Tasks, d \in Delays, n \in Repeats : PushTask(t, d, n)
        BY <1>2 DEF CreateTimer
    <2>2. UNCHANGED <<Waiting, Phase>>
        BY <1>2, SameView DEF CreateTimer, Outside, TypeOK
    <2>3. Contract!Create(t, n)
        BY <1>1, <1>2, <2>1, <2>2, PushRefines DEF CreateTimer, worker
    <2>4. QED
        BY <2>3 DEF Contract!Next
<1>3. CASE SignalWorker(u) \/ WaitDecides(u) \/ WaitSleeps(u) \/ WaitRelocks(u)
           \/ DestroySignals(u) \/ SpuriousWaiterWakeup(u)
    <2>1. /\ UNCHANGED <<tasks_to_do, fields, history, rest>>
          /\ UNCHANGED job
        BY <1>3 DEF SignalWorker, WaitDecides, WaitSleeps, WaitRelocks, DestroySignals,
                    SpuriousWaiterWakeup, WakeWorker, worker
    <2>2. UNCHANGED <<Waiting, Phase>>
        BY <1>3, <2>1, SameView
           DEF SignalWorker, WaitDecides, WaitSleeps, WaitRelocks, DestroySignals,
               SpuriousWaiterWakeup, TypeOK
    <2>3. QED
        BY <2>1, <2>2 DEF Contract!vars, Live, InFlight, fields, history
<1>4. CASE WaitTillLast(u)
    <2>1. PICK n \in Rests : rest' = [rest EXCEPT ![u] = n]
        BY <1>4 DEF WaitTillLast
    <2>2. /\ Phase = "open" /\ Phase' = Phase
          /\ Waiting[u] = -1 /\ Waiting' = [Waiting EXCEPT ![u] = n]
        BY <1>0, <1>1, <1>4, <2>1 DEF WaitTillLast, Waiting, InWait, Phase, TypeOK
    <2>3. Contract!Wait(u, n)
        BY <1>4, <2>2
           DEF Contract!Wait, Contract!NotWaiting, WaitTillLast, Live, InFlight, fields,
               worker, history
    <2>4. QED
        BY <2>1, <2>3 DEF Contract!Next
<1>5. CASE WaitReturns(u)
    <2>1. upc[u] = "check" /\ upc' = [upc EXCEPT ![u] = "returned"] /\ rest' = rest
        BY <1>5 DEF WaitReturns
    <2>2. Phase' = Phase
        BY <1>0, <2>1 DEF Phase, TypeOK
    <2>3. Waiting[u] = rest[u] /\ rest[u] # -1
        BY <2>1 DEF Waiting, InWait, TypeOK
    <2>4. Waiting' = [Waiting EXCEPT ![u] = -1]
        BY <2>1 DEF Waiting, InWait, TypeOK
    <2>5. Cardinality(Live) <= rest[u] /\ Live' = Live
        BY <1>5 DEF WaitReturns, FewEnough, ActiveExact, Live, InFlight, worker
    <2>6. UNCHANGED <<created, repeat, job>>
        BY <1>5 DEF WaitReturns, fields, worker, history
    <2>7. Contract!Return(u)
        BY <2>2, <2>3, <2>4, <2>5, <2>6 DEF Contract!Return, Contract!NotWaiting
    <2>8. QED
        BY <2>7 DEF Contract!Next
<1>6. CASE Destroy(u)
    <2>1. /\ Phase = "open" /\ Phase' = "closing"
          /\ Waiting' = Waiting /\ \A v \in Users : Waiting[v] = -1
        BY <1>0, <1>6 DEF Destroy, Waiting, InWait, Phase, Outside, TypeOK
    <2>2. Contract!BeginClose
        BY <1>6, <2>1
           DEF Contract!BeginClose, Contract!NotWaiting, Destroy, Live, InFlight, fields,
               worker, history
    <2>3. QED
        BY <2>2 DEF Contract!Next
<1>7. CASE DestroyJoins(u)
    <2>1. u = Owner
        BY <1>7 DEF DestroyJoins, Closing, InDestructor
    <2>2. Phase = "closing" /\ Phase' = "closed" /\ Waiting' = Waiting
        BY <1>0, <1>7, <2>1 DEF DestroyJoins, Waiting, InWait, Phase, TypeOK
    <2>3. job = None
        BY <1>7 DEF DestroyJoins, Bookkeeping, Holding
    <2>4. Contract!EndClose
        BY <1>7, <2>2, <2>3
           DEF Contract!EndClose, DestroyJoins, Live, InFlight, fields, worker, history
    <2>5. QED
        BY <2>4 DEF Contract!Next
<1>8. QED
    BY <1>2, <1>3, <1>4, <1>5, <1>6, <1>7 DEF UserStep, UserCall

\* Every step of the threads is a step of the contract or one that no client can
\* see: callbacks are executed one at a time and as often as asked for, a wait
\* returns only when it may, and none starts once the destructor has begun.
THEOREM ManagerKeepsContract == Spec => ImplementsContract
<1>1. Init => Contract!Init
    BY TimerAssumption
       DEF TimerAssumption, Init, Contract!Init, Contract!NotWaiting, Live, InFlight,
           Waiting, InWait, Phase
<1>2. IInv /\ Iterations /\ Closing /\ [Next]_vars => [Contract!Next]_(Contract!vars)
    <2> SUFFICES ASSUME IInv, Iterations, Closing, [Next]_vars
                 PROVE  [Contract!Next]_(Contract!vars)
        OBVIOUS
    <2>1. CASE TaskCreatesTimer
        <3>1. PICK t \in Tasks, d \in Delays, n \in Repeats : PushTask(t, d, n)
            BY <2>1 DEF TaskCreatesTimer
        <3>2. job # None /\ UNCHANGED <<job, Waiting, Phase>>
            BY <2>1 DEF TaskCreatesTimer, IInv, Bookkeeping, Holding, worker, users,
                        Waiting, InWait, Phase
        <3>3. Contract!Create(t, n)
            BY <3>1, <3>2, PushRefines
        <3>4. QED
            BY <3>3 DEF Contract!Next
    <2>2. CASE Tick \/ SpuriousWorkerWakeup \/ UNCHANGED vars
        <3>1. UNCHANGED <<tasks_to_do, fields, history, users>> /\ UNCHANGED job
            BY <2>2 DEF Tick, SpuriousWorkerWakeup, WakeWorker, vars, worker
        <3>2. QED
            BY <3>1 DEF Contract!vars, Live, InFlight, Waiting, InWait, Phase, fields,
                        history, users
    <2>3. QED
        BY <2>1, <2>2, WorkerRefines, UserRefines DEF Next
<1>3. Init => Closing
    BY TimerAssumption DEF TimerAssumption, Init, Closing, InDestructor
<1>4. QED
    BY <1>1, <1>2, <1>3, ClosingKept, Invariance, TypeCorrect, TimersInvariance, PTL
       DEF Spec, ImplementsContract, Contract!Spec
=============================================================================
