---------------------------- MODULE ScriptProcess ----------------------------
(***************************************************************************)
(* The process that a FiScript becomes: the main function that FileMaker   *)
(* generates (backend/src/processors/visitors/file_maker.cc) running with  *)
(* the managers it may declare.  timer_manager is taken by its contract    *)
(* (TimerContract, which TimerManager implements); reacton_service is      *)
(* ReactOnService itself; script_alert_service only has to be there when   *)
(* it is called: SendAlert is one RPC whose failure is printed.            *)
(*                                                                         *)
(* A script is a forest of Schedule, ReactOn and Alert statements (an      *)
(* order is an alert), numbered in source order: a block ends before the   *)
(* next statement outside it. An if is part of the block it stands in: the *)
(* statements of its branches may be passed over, each one by itself,      *)
(* which allows more than its conditions do. Every other statement has no  *)
(* effect here. Each execution of a block creates a timer or a reaction    *)
(* for each such statement directly inside it that is not passed over, so  *)
(* one statement may have several instances.                               *)
(***************************************************************************)
EXTENDS Integers, FiniteSets, Sequences

CONSTANTS
    Kind,       \* of each statement: "schedule", "reacton" or "alert"
    Parent,     \* the statement whose block it stands in, 0 = main
    IfOf,       \* the first statement in the outermost if of that block around it, 0 = none
    Iterations, \* its last argument
    None

Stmts == DOMAIN Kind

ASSUME ScriptAssumption ==
    /\ Cardinality(Stmts) \in Nat /\ Stmts = 1 .. Cardinality(Stmts)
    /\ Kind \in [Stmts -> {"schedule", "reacton", "alert"}]
    /\ Parent \in [Stmts -> Nat]
    /\ \A s \in Stmts : Parent[s] < s /\ \A c \in Stmts : Parent[c] = s => Kind[s] # "alert"
    /\ \A s, c \in Stmts : Parent[c] < s /\ s < c => Parent[c] <= Parent[s]
    /\ IfOf \in [Stmts -> Nat]
    /\ \A s \in Stmts : IfOf[s] # 0 =>
          /\ IfOf[s] \in Stmts /\ IfOf[s] <= s /\ Parent[IfOf[s]] = Parent[s]
          /\ \A c \in Stmts : IfOf[s] <= c /\ c <= s /\ Parent[c] = Parent[s]
                                => IfOf[c] = IfOf[s]
    /\ Iterations \in [Stmts -> Nat \ {0}]
    /\ None \notin Stmts \X Nat

\* The statements directly in the block of s, or in main for 0.
Children(s) == {c \in Stmts : Parent[c] = s}

\* How often each statement is executed when every block runs as it should and no statement
\* is passed over.
Executions[s \in Stmts] ==
    IF Parent[s] = 0 THEN 1 ELSE Executions[Parent[s]] * Iterations[Parent[s]]

\* The statement of main in which s stands: the last one of them up to s.
Top(s) == CHOOSE r \in Children(0) :
    r <= s /\ \A u \in Children(0) : u <= s => u <= r

\* Where main comes to Top(s): at the if around it, if there is one.
Start(s) == IF IfOf[Top(s)] = 0 THEN Top(s) ELSE IfOf[Top(s)]

\* Does s stand in the block of r, at any depth?
Inside(s, r) == r < s /\ \A u \in r + 1 .. s : Parent[u] >= r

InReaction(s) == \E r \in Stmts : Kind[r] = "reacton" /\ Inside(s, r)

Instances(k) == UNION {{s} \X (1 .. Executions[s]) : s \in {t \in Stmts : Kind[t] = k}}

Timers == Instances("schedule")
Reactions == Instances("reacton")

VARIABLES
    \* timer_manager
    used, pending, left, busy, waiting, phase,
    \* reacton_service
    reactions, capacity, max_count, current_count, stop, stream, reader, at, end,
    stale, owner, due, called,
    \* the generated program
    done,       \* the operations of Code that main has completed
    entered,    \* is main inside the wait or the destructor that is its next one?
    alive,      \* the managers that are constructed and not destroyed
    made,       \* number of instances of each statement so far
    timerTodo,  \* statements the running timer callback has still to execute
    reactTodo   \* statements the running reaction has still to execute

timerVars == <<used, pending, left, busy, waiting, phase>>
reactVars == <<reactions, capacity, max_count, current_count, stop, stream, reader,
               at, end, stale, owner, due, called>>
mainVars == <<done, entered, alive>>
vars == <<timerVars, reactVars, mainVars, made, timerTodo, reactTodo>>

Timer == INSTANCE TimerContract WITH
    Tasks <- Timers, Users <- {"main"}, Repeats <- Nat, Rests <- {0}, Size <- Cardinality

Reactor == INSTANCE ReactOnService WITH
    MaxCounts <- Nat, InitCapacity <- 0, CountCap <- 0

-----------------------------------------------------------------------------
(***************************************************************************)
(* The generated main function.                                            *)
(***************************************************************************)

Managers == {"schedule", "reacton", "alert"}

Used == {k \in Managers : \E s \in Stmts : Kind[s] = k}

\* A manager is declared for the first statement of its kind, in source order.
FirstUse(k) == CHOOSE s \in Stmts : Kind[s] = k /\ \A t \in Stmts : Kind[t] = k => s <= t

DeclaredBefore(j, k) == FirstUse(j) < FirstUse(k)

\* No wait for the timers.
WaitForReactionsOnly == Used \cap {"reacton"}

\* Nobody waits for script_alert_service.
Waited == Used \ {"alert"}

\* Each declaration puts its wait in front of the waits that are there already,
\* and the statements that follow in front of them all (code_it_--).
WaitedBefore(j, k) == DeclaredBefore(k, j)

\* Managers that outlive main.
NeverDestroyed == {}

Destroyed == Used

\* C++ destroys locals in the reverse order of their declarations.
DestroyedBefore(j, k) == DeclaredBefore(k, j)

\* The operations of main: <<what is done, manager or statement>>.
Code ==
    ({"declare"} \X Used) \cup ({"execute"} \X Children(0))
        \cup ({"wait"} \X Waited) \cup ({"destroy"} \X Destroyed)

\* The order of main's code.  The managers that a statement of main, an if included, or its
\* blocks need and that are not declared yet come right before it (CollectRequiredManagers).
Precedes(o, p) ==
    \/ o[1] = "declare" /\ p[1] = "declare" /\ DeclaredBefore(o[2], p[2])
    \/ o[1] = "declare" /\ p[1] = "execute" /\ Start(FirstUse(o[2])) <= p[2]
    \/ o[1] = "execute" /\ p[1] = "declare" /\ o[2] < Start(FirstUse(p[2]))
    \/ o[1] = "execute" /\ p[1] = "execute" /\ o[2] < p[2]
    \/ o[1] \in {"declare", "execute"} /\ p[1] \in {"wait", "destroy"}
    \/ o[1] = "wait" /\ p[1] = "wait" /\ WaitedBefore(o[2], p[2])
    \/ o[1] = "wait" /\ p[1] = "destroy"
    \/ o[1] = "destroy" /\ p[1] = "destroy" /\ DestroyedBefore(o[2], p[2])

Earlier == [p \in Code |-> {o \in Code : Precedes(o, p)}]

Init ==
    /\ Timer!Init
    /\ Reactor!Init
    /\ done = {}
    /\ entered = FALSE
    /\ alive = {}
    /\ made = [s \in Stmts |-> 0]
    /\ timerTodo = {}
    /\ reactTodo = {}

-----------------------------------------------------------------------------
\* The process is gone: main has returned, or the reader crashed it.
Running == done # Code /\ reader # "crashed"

\* Main has come to this operation, and has not completed it.
At(op, x) ==
    /\ Running
    /\ <<op, x>> \in Code \ done
    /\ Earlier[<<op, x>>] \subseteq done

Completes(op, x) == done' = done \cup {<<op, x>>}

\* SendAlert waits for the reply of the API, which changes nothing here, failed or not.
SendsAlert(s) == Kind[s] = "alert" /\ UNCHANGED <<timerVars, reactVars>>

\* The timer or reaction that the next execution of statement s creates.
Instance(s) == <<s, made[s] + 1>>

\* The registration by a thread of the script, and by the reader in a callback.
ThreadRegisters(s) == Reactor!ThreadRegisters(Instance(s), Iterations[s])
CallbackRegisters(s) == Reactor!CallbackRegisters(Instance(s), Iterations[s])

\* One execution of statement s: timer_manager.CreateTimer or, when that is allowed to
\* who executes it, reacton_service.RegisterReaction; or SendAlert.
Execute(s, Registers) ==
    /\ made' = [made EXCEPT ![s] = @ + 1]
    /\ \/ /\ Kind[s] = "schedule"
          /\ Timer!Create(Instance(s), Iterations[s])
          /\ UNCHANGED reactVars
       \/ /\ Kind[s] = "reacton"
          /\ Registers
          /\ UNCHANGED timerVars
       \/ SendsAlert(s)

\* The if around statement s takes another branch, or none.
PassesOver(s) == IfOf[s] # 0 /\ UNCHANGED <<timerVars, reactVars, made>>

MainDeclares(k) ==
    /\ At("declare", k)
    /\ alive' = alive \cup {k}
    /\ Completes("declare", k)
    /\ UNCHANGED <<timerVars, reactVars, entered, made, timerTodo, reactTodo>>

MainExecutes(s) ==
    /\ At("execute", s)
    /\ Execute(s, ThreadRegisters(s))
    /\ Completes("execute", s)
    /\ UNCHANGED <<entered, alive, timerTodo, reactTodo>>

MainPasses(s) ==
    /\ At("execute", s)
    /\ PassesOver(s)
    /\ Completes("execute", s)
    /\ UNCHANGED <<entered, alive, timerTodo, reactTodo>>

\* timer_manager.WaitTillLast(0) and reacton_service.WaitForCompletion().
MainWaits(k) ==
    /\ At("wait", k) /\ ~entered
    /\ entered' = TRUE
    /\ \/ k = "schedule" /\ Timer!Wait("main", 0) /\ UNCHANGED reactVars
       \/ k = "reacton" /\ Reactor!WaitForCompletion /\ UNCHANGED timerVars
    /\ UNCHANGED <<done, alive, made, timerTodo, reactTodo>>

MainWaited(k) ==
    /\ At("wait", k) /\ entered
    /\ entered' = FALSE
    /\ Completes("wait", k)
    /\ \/ k = "schedule" /\ Timer!Return("main") /\ UNCHANGED reactVars
       \/ k = "reacton" /\ Reactor!Joined /\ UNCHANGED timerVars
    /\ UNCHANGED <<alive, made, timerTodo, reactTodo>>

MainDestroys(k) ==
    /\ At("destroy", k) /\ ~entered
    /\ entered' = TRUE
    /\ \/ k = "schedule" /\ Timer!BeginClose /\ UNCHANGED reactVars
       \/ k = "reacton" /\ Reactor!Destroy /\ UNCHANGED timerVars
    /\ UNCHANGED <<done, alive, made, timerTodo, reactTodo>>

\* script_alert_service has nothing to join.
MainDropsAlerts ==
    /\ At("destroy", "alert")
    /\ Completes("destroy", "alert")
    /\ alive' = alive \ {"alert"}
    /\ UNCHANGED <<timerVars, reactVars, entered, made, timerTodo, reactTodo>>

MainDestroyed(k) ==
    /\ At("destroy", k) /\ entered
    /\ entered' = FALSE
    /\ Completes("destroy", k)
    /\ alive' = alive \ {k}
    /\ \/ k = "schedule" /\ Timer!EndClose /\ UNCHANGED reactVars
       \/ k = "reacton" /\ Reactor!Destroyed /\ UNCHANGED timerVars
    /\ UNCHANGED <<made, timerTodo, reactTodo>>

MainStep ==
    \/ \E k \in Managers : \/ MainDeclares(k)
                           \/ MainWaits(k) \/ MainWaited(k)
                           \/ MainDestroys(k) \/ MainDestroyed(k)
    \/ MainDropsAlerts
    \/ \E s \in Stmts : MainExecutes(s) \/ MainPasses(s)

-----------------------------------------------------------------------------
(***************************************************************************)
(* The worker of timer_manager and the reader of reacton_service, with the *)
(* blocks as their callbacks.  A block is executed in source order.        *)
(***************************************************************************)

NextIn(todo) == CHOOSE s \in todo : \A t \in todo : s <= t

TimerBegins(t) ==
    /\ Running /\ "schedule" \in alive
    /\ Timer!Begin(t)
    /\ timerTodo' = Children(t[1])
    /\ UNCHANGED <<reactVars, mainVars, made, reactTodo>>

TimerExecutes ==
    /\ Running /\ busy # None /\ timerTodo # {}
    /\ Execute(NextIn(timerTodo), ThreadRegisters(NextIn(timerTodo)))
    /\ timerTodo' = timerTodo \ {NextIn(timerTodo)}
    /\ UNCHANGED <<mainVars, reactTodo>>

TimerPasses ==
    /\ Running /\ busy # None /\ timerTodo # {}
    /\ PassesOver(NextIn(timerTodo))
    /\ timerTodo' = timerTodo \ {NextIn(timerTodo)}
    /\ UNCHANGED <<mainVars, reactTodo>>

TimerEnds ==
    /\ Running /\ timerTodo = {}
    /\ Timer!End
    /\ UNCHANGED <<reactVars, mainVars, made, timerTodo, reactTodo>>

ReactionBegins ==
    /\ Running
    /\ Reactor!CallsReaction
    /\ reactTodo' = Children(reactions[at][1])
    /\ UNCHANGED <<timerVars, mainVars, made, timerTodo>>

ReactionExecutes ==
    /\ Running /\ reader = "call" /\ reactTodo # {}
    /\ Execute(NextIn(reactTodo), CallbackRegisters(NextIn(reactTodo)))
    /\ reactTodo' = reactTodo \ {NextIn(reactTodo)}
    /\ UNCHANGED <<mainVars, timerTodo>>

ReactionPasses ==
    /\ Running /\ reader = "call" /\ reactTodo # {}
    /\ PassesOver(NextIn(reactTodo))
    /\ reactTodo' = reactTodo \ {NextIn(reactTodo)}
    /\ UNCHANGED <<mainVars, timerTodo>>

ReactionEnds ==
    /\ Running /\ reactTodo = {}
    /\ Reactor!CallbackReturns
    /\ UNCHANGED <<timerVars, mainVars, made, timerTodo, reactTodo>>

\* What the reader does between two callbacks.
ReaderMoves ==
    /\ Running /\ "reacton" \in alive
    /\ \/ Reactor!ReadsUpdate \/ Reactor!ReadFails \/ Reactor!SkipsExhausted
       \/ Reactor!Decides \/ Reactor!Finishes \/ Reactor!Crashes
    /\ UNCHANGED <<timerVars, mainVars, made, timerTodo, reactTodo>>

StreamEnds ==
    /\ Running
    /\ Reactor!StreamEnds
    /\ UNCHANGED <<timerVars, mainVars, made, timerTodo, reactTodo>>

Next ==
    \/ MainStep
    \/ \E t \in Timers : TimerBegins(t)
    \/ TimerExecutes \/ TimerPasses \/ TimerEnds
    \/ ReactionBegins \/ ReactionExecutes \/ ReactionPasses \/ ReactionEnds
    \/ ReaderMoves
    \/ StreamEnds

Spec == Init /\ [][Next]_vars

-----------------------------------------------------------------------------
(***************************************************************************)
(* Properties.                                                             *)
(***************************************************************************)

Exited == done = Code

\* The lambdas hold the managers of main by reference ("&timer_manager",
\* "&reacton_service", "&script_alert_service"): a callback that is being executed never
\* comes to a statement whose manager is not constructed yet or destroyed already - but for
\* an alert of a timer that a reaction created: main may have waited for the timers before
\* it was created, and destroys script_alert_service, declared last, first ("BUG : when
\* mixing ReactOn and Schedule", instructions:55).
NoUseAfterDestroy ==
    reader # "crashed" =>
        /\ \A s \in timerTodo \cup reactTodo :
              \/ Kind[s] \in alive
              \/ Kind[s] = "alert" /\ s \in timerTodo /\ InReaction(s)
        /\ busy # None => "schedule" \in alive
        /\ reader # "read" => "reacton" \in alive \/ reader = "gone"

\* When main returns, no thread of a manager is left, and no callback.
ExitIsClean ==
    Exited /\ reader # "crashed" =>
        /\ busy = None
        /\ "reacton" \in Used => reader = "gone"
        /\ "schedule" \in Used => phase = "closed"

\* How often s is come to, as each timer or reaction around it runs its block Iterations
\* times.
Reached(s) == IF Parent[s] = 0 THEN 1 ELSE made[Parent[s]] * Iterations[Parent[s]]

\* "Execute a block every x seconds, iterations times" (README.md:87): when main returns,
\* every timer that no reaction created is finished, and every statement that stands in no
\* reaction has been executed exactly once for each run of its block that the script asks
\* for - or at most once, if it stands in an if of that block -, whatever the reactions do
\* meanwhile.  (A timer that a reaction creates after main has waited for the timers is
\* dropped when the manager is destroyed.)
TimersAllRun ==
    Exited /\ reader # "crashed" =>
        /\ \A t \in pending : InReaction(t[1])
        /\ \A s \in Stmts : ~InReaction(s) =>
              /\ made[s] <= Reached(s)
              /\ IfOf[s] = 0 => made[s] = Reached(s)
=============================================================================
