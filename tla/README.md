# OrderParserProcessor in TLA+

A verification project for OrderParserProcessor: TLA+ models of its concurrent
parts and of its code generator, TLC configurations that check them on small instances, and theorems checked
by TLAPS. Paths below are relative to the root of the repository's sources.

    tlc -config timer.cfg MCTimerManager.tla          # a run: <run>.cfg, module in PROJECT.json
    tlapm TimerManagerProofs.tla                      # the proofs of one module

`PROJECT.json` lists the components, the runs, the mutants (a mutated definition for
each property, under which the property must fail), the source lines of every
definition, the hazards, the findings and the theorems.

## 1. The system

A user writes a FiScript in the browser. The API (FastAPI) forwards it by gRPC to the
backend (C++), which parses it, generates a C++ program and builds it. The user
activates the script: the API starts the binary as a process. That process runs timers
and reactions to market data, sends orders and raises alerts; the distributor (C++)
streams the market data that it reads from a feed; alerts come back to the browser
through a WebSocket of the API.

    browser --HTTP--> API --gRPC ScriptSubmit--> backend --system()--> cmake, make
       ^               |
       |               +--Popen/terminate--> script process (TimerManager, ReactOnService)
       +--WebSocket----+                        |                ^
                       ^---gRPC ScriptAlert-----+                |
                       ^---gRPC StreamPrices-- distributor ------+   <--socket-- feed

### Components

**TimerManager** (`backend/includes/processors/common/timers.h`, `timers.cc`), linked
into every generated script. State: a priority queue of tasks, `active_timer_count_`,
`timer_count_`, `stop_`, one mutex, two condition variables, one worker thread.
Operations: CreateTimer (also called by callbacks), WaitTillLast, the worker's loop Run,
the destructor. Hard: the worker notifies and decrements outside the mutex; repeating
tasks are pushed again before their callback runs; the deadline of a timed wait is
fixed when the wait begins. Correct when: timers run exactly as often as asked, never
early and never late; the counter is the number of unfinished timers; waiting and
destroying end, and do not end too early.

**ReactOnService** (`backend/includes/services/reacton_service.h`, `reacton_service.cc`),
linked into scripts that use ReactOn. State: `reactions_`, a plain vector with no lock;
`stop_`; a reader thread with a gRPC stream. Operations: RegisterReaction (main, the
timer worker, the reader's own callbacks), the reader's loops, WaitForCompletion, the
destructor. Hard: the vector grows while the reader iterates over it; the reader quits
when it finds nothing left to do, also when nothing was registered yet. Correct when:
each update reaches each registered reaction that is not exhausted, once, and none more
often than asked.

**The generated script process** (`backend/src/processors/visitors/file_maker.cc`): the
`main` that FileMaker writes: managers declared where they are first needed, statements,
waits, destructors in the reverse order; blocks become lambdas that hold the managers
by reference. Hard: reactions create timers and timers register reactions while main
waits for one manager, then the other, and destroys both. Correct when: no callback
meets a destroyed manager, no thread outlives main, everything asked for is executed.

**Distributor** (`connectivity/`): the gateway thread reads the feed's socket and
pushes each point to a bounded queue per subscription; each StreamPrices call polls its
own queue. State: the subscriptions with their queues and `active` flags under a shared
mutex, `running_`, `should_stop_`. Hard: full queues, calls that end by cancellation,
write failure or end of the feed while a broadcast is going on. Correct when: each
client gets the points in order, gaps are drops and nothing else, and no subscription
outlives its call.

**ProcessManager** (`backend-api/core/process_manager.py`, `routes/views.py`, `main.py`):
a dict from (username, title) to `Popen`, changed by toggle, is_active, activate,
deactivate and shutdown_all from a pool of threads without a lock. Hard: check-then-act
on the dict, scripts that end by themselves or ignore SIGTERM. Correct when: a script
has at most one process, no process is lost, and the shutdown ends or kills every one.

**Notification hub** (`backend-api/routes/views.py`, `core/communication/communicator.py`):
one asyncio queue, and for each WebSocket a handler that waits for the queue and for the
client at once. Hard: which of the two tasks is done, which is cancelled, what the
cancelled one had in its hands; clients that break while a notification is sent to
them. Correct when: no notification vanishes, and a browser gets each at most once, in order.

**Script submission and build** (`backend/src/services/script_submit_service.cc`,
`handlers/`, `processors/script_submit_processor.cc`, `FileMaker::GenerateScript`,
`system_builder.py`): each RPC deletes and refills the script's directory, writes
main.cc, makes `build`, changes the current directory of the whole process into it and
runs cmake and make. Hard: submits on several threads share files and the current
directory, every step may fail, few results are looked at. Correct when: the binary
beside a source was made of that source.

**The visitor and FileMaker** (`concrete_fiscript_visitor.cc`, `file_maker.cc`,
`rules/parser/FiScript.g4`): sequential. The visitor turns the parse tree into Commands;
FileMaker goes through them and writes the C++ `main`. State: the list of lines with the
iterator `code_it_` where the next one goes, `history_` (what was added before),
`active_managers_` (what lambdas must capture), `variable_types_`. Hard: managers first
needed deep in a block are declared in front of the outermost one; expressions are
generated as text, for the type of the context they stand in, and C++ groups that text by
a precedence of its own; the types of a block's variables are restored when it ends;
statements refused inside a block are dropped. Correct when: the main that comes out is
well formed, and says in C++ what the script says.

**ScriptAlertService** (`script_alert_service.cc`), linked into scripts that alert or
order: one blocking RPC, no state; it only has to exist when it is called.

**Smaller parts**: the API's client of the backend (forwards ScriptSubmit, drops the
reply), the frontend (lists in React state, a WebSocket), the database models (never
written), generated and declarative files.

The hazards of each part, at their lines, are in `PROJECT.json`.

## 2. The modules

| Module | Models | Extends / instantiates |
|---|---|---|
| `TimerContract` | what TimerManager promises: timers pending, executed one at a time, awaited, closed | |
| `TimerManager` | the implementation, with mutex, condition variables and clock | INSTANCE TimerContract (refinement) |
| `TimerManagerProofs` | its theorems | EXTENDS TimerManager |
| `ReactOnService` | registration, reader, vector, joins | |
| `ReactOnServiceProofs` | its theorems | EXTENDS ReactOnService |
| `ScriptProcess` | the generated main and its callbacks | INSTANCE TimerContract, ReactOnService (composition) |
| `ScriptProcessProofs` | its theorems, for every script | EXTENDS ScriptProcess |
| `Distributor` | gateway thread, subscriptions, StreamPrices, destructor | |
| `DistributorProofs` | its theorems | EXTENDS Distributor |
| `ProcessManager` | activation and deactivation, shutdown | |
| `ProcessManagerProofs` | its theorems | EXTENDS ProcessManager |
| `NotificationHub` | queue, handlers, browsers | |
| `NotificationHubProofs` | its theorems | EXTENDS NotificationHub |
| `ScriptBuild` | the submission pipeline on files and current directory | |
| `ScriptBuildAlone` | the same with history variables: which submits no other one overlapped with, which had their directory emptied | EXTENDS ScriptBuild |
| `ScriptBuildProofs` | the theorems of both | EXTENDS ScriptBuildAlone |
| `ScriptCommand` | Commands and expression nodes | |
| `ConcreteFiScriptVisitor` | parse tree to Commands | EXTENDS ScriptCommand |
| `CppTokens` | the pieces of C++ that both of the next put together | |
| `ExpressionCode` | types of expressions and the C++ tokens generated for them | EXTENDS ConcreteFiScriptVisitor, CppTokens |
| `FileMaker` | the generator as a state machine | EXTENDS ScriptCommand, CppTokens |
| `GeneratedMain` | what a generated main owes to C++ and the managers: properties of its lines | EXTENDS FileMaker |
| `FileMakerProofs` | the theorems about these, for every script | EXTENDS GeneratedMain |
| `CppReading` | reference: how C++ groups and types those tokens, how the grammar means the script | EXTENDS ExpressionCode |
| `GeneratedCode` | what a generated main owes to its script: the properties of its expressions | EXTENDS GeneratedMain, CppReading |
| `MC...` | values of the constants for TLC | EXTENDS the component's module |

### How they correspond to the code

**TimerManager.** Everything done under `timer_mtx_` is one step, except that
WaitTillLast's test of `active_timer_count_` and its going to sleep are two (`check`,
`block`, with `mtx` held in between), because the worker changes that counter without
the mutex; the worker's unlocked tail is three steps (callback, notify, decrement:
`running`, `notify`, `decrement`). `tasks_to_do` is a set because a task is in the
priority queue at most once; `Earliest` is TimerCmp. The clock is discrete, and `Tick`
is never held up by a deadline, so wakeups that come late are included. Spurious wakeups are actions of their
own. `active_timer_count_` is unsigned in the code; that TypeOK keeps it in `Nat` is the
statement that it never wraps. GetTimerCount and GetActiveTimerCount are plain reads.

**TimerContract** has no threads, lock or clock. In the refinement a timer is pending
while it is queued or its callback has not been accounted for (`Live`), and a user waits
from its call to its return (`Waiting`). The cardinality is the operator constant `Size`,
so that the contract can be proved about without the definition of Cardinality.

**ReactOnService.** The range-for takes `at` and `end` once; `capacity` follows the
growth of the vector, and a push_back that outgrows it makes the loop `stale`. Using a
stale loop is undefined behaviour: the model goes on with the old elements or
`Crashes`. ShouldStopReading's own loop is one step. `instrument_id` is stored by the
code and never read, so it is not modelled.

**ScriptProcess.** A script is a forest of Schedule, ReactOn and Alert statements, numbered
in source order, so that a block is the interval of numbers behind its statement. `Code` is
the set of operations of the main that FileMaker would generate for it (`declare`,
`execute`, `wait`, `destroy`), and `Precedes` their order, as CollectRequiredManagers,
AddTimerManager and AddReactOnService place them; `done` is what main has completed, and
an operation is next when all that precedes it is. Blocks are executed by the worker and
the reader, statement by statement. Alerts are statements of their own, because
script_alert_service is a local of main like the managers and goes when main ends.
timer_manager is taken by its contract, which TimerManager is proved to implement;
reacton_service is ReactOnService itself. An if belongs to the block it stands in, whose
callback executes it: `IfOf` says which statements stand in one, and where it begins (that
is where main has the declarations for all its branches). Such a statement is executed or
passed over (`PassesOver`), each by itself, so every outcome of the conditions is included,
and some that no conditions have, such as half of a branch.

**Distributor.** What is done under `subscribers_mutex_` is one step. Broadcast is one
step although other calls may pop meanwhile: pops of other queues commute with it. The
parsing of lines is abstracted to the number of points a read yields.

**ProcessManager.** One access to the dict, one poll, one Popen is one step; between any
two of them other requests run and processes end. Popen may raise: the endpoint catches
neither its OSErrors nor that of a missing root, and the reply is `error`. In deactivate,
`wait` with its time-out, `kill` and the second `wait` are one step that ends the process.
shutdown_all has no second `wait`: a process it had to kill is only `killed`, and ends when
it does (`Exits`).

**NotificationHub.** A task's result is a sequence of at most one element, `<<>>` while
pending. `WakesToEnd`, `WakesToSend` and `WakesToWait` are what the handler does after
asyncio.wait returns: recv_task is looked at first; a pending queue_task is cancelled
without having taken anything. Notifications are numbers, in the order of publication.

**FileMaker.** The C++ stack is `work`: a frame for the constructor's loop and one for each
MakeBlock that has not returned, with the command whose block it is, what it has still to
go through and the `variable_types_` it will restore. A step is one command that becomes a
line, or one block: `OpenBlock`, `NextBranch` (the next `else if` or `else`) and
`CloseBlock` are the calls of MakeBlock and the lines around them that
MakeScheduleCommand, MakeReactOnCommand and MakeIfCommand insert. Before a block opens,
CollectRequiredManagers goes through everything below its command, one command a step;
`collecting` is the stack of lists that recursion has still to go through. `Blocks` lists
the blocks of a command in the order in which both recursions take them; an empty
`else_block`, for which the code makes no block, is none of them.
`file.before` and `file.after` are the lines in front of and behind `code_it_`.
A line is a record: which call it is, on which manager, its captures, its expressions as
token sequences; an order's is one sequence, the text of its arguments between their labels
(`OrderInfo`). Arguments are sequences of characters because ValidInteger and stoi look
at each; `-1`, which ReactOnArgsValid accepts, is among them although the grammar has no such
token, because FileMaker takes any list of Commands. A refused command ends the constructor, or inside a block is skipped
(`ignored`). The visitor and the expressions are constant operators of this module
(`CommandsOf`, `ExpressionType`, `ExpressionText`): the run gives them `visitScript`,
`InferExpressionType` and `GenerateExpressionCode`, which are RECURSIVE, and the proofs
hold whatever they are. Of `CommandsOf` and `CommandsIn`, `FileMakerAssumption` says that the
commands of a script are one of the eight types of `Command::CommandType`, that their blocks
hold commands, and that only an if has more than one block.

**CppReading, GeneratedCode** model no code of the repository: they are the yardstick.
`Read` groups a token sequence by C++'s precedence, `CppType` types the result,
`Shape` and `TypeOf` do the same for the parse tree of the script. The expected lines of
`CodeReadsAsScript` are read off the parse tree, not off the Commands, so that a mistake
of the visitor shows as well as one of the generator.

**ScriptBuild.** A file is represented by the submit that wrote it. system_builder.py may
end with an exception that nobody looks at (`DeleteFails`): the directory then keeps any
part of its files, an old build included. create_directories and current_path throw inside a
noexcept function, which ends the backend; `thrown` says which did. `epoch` counts the
deletions of a build directory, so that a current directory that was deleted is told from a new
one of the same name. What the parser accepts is nondeterministic.

## 3. What is checked

| Run | Expected | What it shows |
|---|---|---|
| `timer` | pass | `ActiveExact`, `IterationsExact`, `NoMissedSignal`, `NeverEarly`; every step is a step of `TimerContract`; finite timers finish, and each call returns unless the missed decrement holds it |
| `timer_lost_wakeup` | violation | WaitTillLast may sleep on for ever (finding 1) |
| `timer_stale_alarm` | violation | a timer may be served late (finding 2) |
| `reacton` | pass | counts respected, each update reaches exactly those waiting for it, once; with a stream that goes on, each reaction registered while the reader is at work is executed as often as asked; both joins return |
| `reacton_race` | violation | the reader may use freed memory (finding 3) |
| `script` | pass | no callback meets a destroyed manager (or alert service, with one exception), main leaves no thread, every statement in no reaction is executed once for each run of its block that the script asks for (at most once in an if) |
| `distributor` | pass | streams ordered and accounted for, queued points get to their client, calls end and leave no subscription |
| `process` | pass | a script not raced over has one process, held in the table, no KeyError, and has ended or been killed when the application is down |
| `process_race` | violation | two requests may lose a process (finding 4) |
| `hub` | pass | no notification vanishes or comes twice or out of order, one is lost only with its client; queue drains, broken connections are given up |
| `build` | pass | binaries never cross directories; a submit that is alone builds its own binary, leaves no older one if it could delete it, and finds the build directory it made |
| `file_maker` | pass | managers declared once, captured, awaited last in the reverse order; variables as C++ scopes them; code that reads as its script, orders included, and has the types C++ wants; counts and times that the managers take |

### Findings

1. `timers.cc:83`: `wait_cond_var_.notify_all()` comes before the decrement of
   `active_timer_count_` (line 85), both without the mutex. A waiter that tests the
   counter in between sleeps, and nobody notifies it again: the generated main hangs.
   `CallsReturn` shows that this is the only way a waiter is held.
2. `timers.cc:55`: the worker sleeps until the deadline that was the earliest when it
   went to sleep. A notification makes it evaluate the predicate (false until the new
   task is due) and sleep on to the OLD deadline: a shorter timer created meanwhile runs
   late. (The predicate looks at the clock, but it is evaluated only on a notification
   or at the deadline.)
3. `reacton_service.cc:23`: push_back while the reader's range-for runs; the test
   `ThreadSafeRegistration` registers in exactly that way.
4. `process_manager.py:50`: two requests pass is_active, both start a process, the second
   assignment overwrites the first; that process is out of reach of toggle and shutdown.

More limits of the code show in the properties as conditions, and no run of its own
stands for them:

- A reaction registered after the reader has made up its mind is never executed
  (`reacton_service.cc:77`; with nothing registered at the first update it quits at once);
  hence the premise of `ReactionsComplete`.
- Timers that a reaction creates after main has waited for the timers are dropped
  (`file_maker.cc:719`, known, `instructions:55`), hence `InReaction` in `TimersAllRun` (it
  speaks of the timers and the executions that no reaction causes).
- Overlapping submits build each other's scripts or end the backend by an exception of
  current_path in a noexcept function (`file_maker.cc:124`), hence `alone` in the properties
  of `ScriptBuildAlone`. A directory that cannot be made ends the backend as well, be the
  submit alone or not (`file_maker.cc:101`, `:122`): `AloneFindsItsBuild` is about
  current_path only. A build whose directory could not be emptied (`file_maker.cc:83`
  ignores it) may fail and leave an older binary to activate, hence `cleared` in
  `AloneBuildsOwn`.
- A StreamPrices call that subscribes after the end of the feed polls until its client goes,
  hence the premise of `CallsEnd`.
- A notification goes to ONE browser: the handlers share a queue, and each sends what it
  takes to its own connection only (`views.py:62`). `README.md:33` ("WebSocket broadcast to
  frontend") and the docstring of WebSocketManager.broadcast (`communicator.py:138`, "Send
  message to ALL connected clients"), which nobody calls, say otherwise.
  `NoneVanishesOrRepeats` does not say who gets a notification, only that none is lost on
  the way and that a browser sees its own once and in order.

The generator has limits of its own. Each was met as a counterexample of a stronger
property and is now the premise, named here, of one in `GeneratedMain` or `GeneratedCode`:

- `and` and `or` bind alike in a script, and so do `==` and `<`; C++ tells them apart.
  `a or b and c` is generated as `a || b && c`, which C++ groups from the right
  (`GroupsAsCpp`, `file_maker.cc:570-594`).
- The arguments of an order are put together with `+` and no parentheses
  (`file_maker.cc:411-414`). A comparison, `and` or `or` among them is in parentheses of its
  own (`kBoolToStringTernary`), but a sum or difference is not, and C++ adds its first operand
  to the label in front of it (`SumsToTheLeft`).
- A sum, difference, product or quotient of numbers that stands in the context of a
  string is converted operand by operand: `Print(1 + 2)` prints the two numbers one
  after the other; `Print(3 - 1)` (a difference of strings) and `Alert(2 * 3)` (a number
  for a string) do not build; in parentheses they are right (`KeepsArithmetic`, `file_maker.cc:599-606`).
- A variable that is given a value of another type keeps the type of its C++ definition,
  and only `variable_types_` changes (`Retyped`, `file_maker.cc:639`).
- A name that is not declared becomes a call, `x` becomes `x()`, for attributes such as
  `quote.price` (`file_maker.cc:556`); `x = x + 1` of an undeclared x is taken for a
  declaration and reads the variable it defines.
- Of the compound operators, a string keeps `+=` only and a boolean none: the others
  become `=` (`file_maker.cc:682-691`).
- A statement that is refused inside a block is left out and the script counts as
  compiled (`ignored`, `file_maker.cc:170`).
- One letter as the repeat count passes ValidInteger, and stoi throws out of the
  constructor (`outcome = "thrown"`, `file_maker.cc:200,268`).

And the generated process has one more: a timer created by a reaction may raise an alert
after main has destroyed script_alert_service; it is the exception in `NoUseAfterDestroy`.

### Bounds

| Run | Bounds | Why they are enough |
|---|---|---|
| `timer` | 2 timers, 2 threads, delays 1 and 2, repeats once, twice, for ever, rests 0 and 1, `LastDue` 2, `Horizon` 2 | a callback that creates a timer, two timers due at once or in either order, a waiter while another thread creates and the owner destroys; `LastDue` keeps the runs of finite timers before the end of the clock, so that time stopping at `Horizon` starves none of them |
| `timer_lost_wakeup`, `timer_stale_alarm` | the smallest instance with the behaviour | |
| `reacton`, `reacton_race` | 3 reactions, counts 1, 2, for ever, `CountCap` 3 | the vector grows 0, 1, 2, 4: three registrations include one that does not reallocate; `CountCap` is where the count of an endless reaction stops, above every finite one |
| `script` | nine statements, depth three, three ifs: around a statement of main, of a reaction's block and of a timer's | all kinds nested in each other and in themselves, repeated blocks, so several instances of a statement; main may pass over the first use of every manager |
| `distributor` | 2 calls, `Capacity` 2 (1024 in the code), `MaxPoints` 4 | a queue that fills, drops and accepts again |
| `process`, `process_race` | 3 threads, 2 scripts, `MaxStarts` 4 (2) | two threads race on one script, the third starts, stops and restarts another |
| `hub` | 2 connections, `MaxNotifications` 3, `MaxMessages` 1 | a notification and a message at once, one connection taking two, another losing one |
| `file_maker` | 12 153 parse trees, `MaxInt` 20 | statements to depth three with and without else and else if; each expression of one operator, and typed ones of up to three, in every place that takes one; argument texts of up to three characters from a zero, a digit, a letter and `s`, and `-1`; `MaxInt` is small so that two digits overflow |
| `build` | 3 submits, 2 directories, all at once | same script and other script overlapping, each failing anywhere |

CHECK_DEADLOCK is off in every run because every system here may really stop: scripts
end, the application shuts down, and bounded environments run out of inputs. That nothing
stops too early is what the liveness properties say.

### Fairness

Weak fairness only, of what a thread or an event loop does once it can: the steps of the
worker and the reader, of a call in progress, of a
handler whose tasks are done. Callbacks return. Never of the environment: nobody has to
call, register, cancel, connect or destroy, a script need not end, the feed need not
send (`Reads` is not fair; a blocked `read_some` may hold the destructor for ever, so no
property claims that the distributor's destructor returns). Four assumptions are about
the environment and are named where they are made: spurious wakeups do not go on for ever
(a thread that is only ever woken for nothing would run for ever); time passes (`Tick`); an open stream
of prices brings another update (`ReactOnService`, without it its joins have no reason to
return); the WebSocket server notices a broken connection (`Noticed`). Mutexes need no
strong fairness: nobody holds one across an infinite loop.

## 4. What is proved

Every theorem holds for every value of the constants that the module's one assumption
allows, and rests on an inductive invariant `IInv` (`Init => IInv`, and every step keeps
it) that TLC checked before it was proved. The invariants that the runs check are
mostly not inductive; what has to be added, and why, is the content of each proof.

**`TimerManagerProofs`** (`TimerAssumption`: finitely many timers, positive delays, repeat
counts positive or -1), for any number of timers and threads and any bounds on the clock:

- `TypeCorrect`, `ActiveCountIsExact`. TypeOK is not inductive: that the counter stays in
  Nat needs ActiveExact, and that a decrement keeps ActiveExact needs to know that the
  worker holds a task which is not queued (`Bookkeeping`).
- `TimersRunAsOften` from `Iterations`: runs started plus runs left are the repeat count,
  and a timer is queued exactly while runs are left.
- `RunsAreNeverEarly` from `Timing`: a queued timer is due `born + interval * (runs + 1)`.
- `WorkerIsNotified`: NoMissedSignal is inductive with TypeOK.
- `WaitReturnsInTime`, that WaitTillLast(rest) returns only with at most rest timers
  unfinished (`WaitMeansDone`), from ActiveExact.
- `ManagerKeepsContract`: TimerManager implements TimerContract. Each action maps to one
  action of the contract or to a stutter (`WorkerRefines`, `UserRefines`); the
  destructor's part needs `Closing` (only the owner is ever in the destructor, and
  `stop_` is set exactly from then on).

**`ReactOnServiceProofs`** (`ReactOnAssumption`: counts are -1 or natural), for any number
of reactions, registered at any time by any thread. `TypeCorrect`,
`ReactionsFireWithinMax`, `UpdatesReachAll`, `ReactionsOncePerUpdate`. The count is advanced only after the callback, so `FiresWithinMax`
needs to know that the element being called is not exhausted; that the loop meets
every due reaction once needs, for each position, what the loop has decided about it
(`LoopKeepsCount`): behind `at` the called are the due ones, in front of it the due ones
are those not exhausted. Registrations while the loop runs are harmless because they go
behind `end` (`PushBack`) and have not been executed (`CountsOfFresh`).

**`ScriptProcessProofs`** (`ScriptAssumption`: the statements are a forest, numbered in
source order, with positive repetition counts), for every script. The model of the
process takes timer_manager by its contract, which TimerManager is proved to keep, and
contains reacton_service itself.

- `ManagersOutliveCallbacks`, `NothingIsLeftRunning`. Main goes through its code in order
  (`InOrder`), so that what is declared, awaited and destroyed follows from what main has
  completed (`AliveAgrees`, `ReaderInTime`, `TimersStopped`); whatever is pending,
  registered or executed by a callback stands below a statement that main has executed
  (`TimersOfStatements`, `ReactionsOfStatements`, `TimerBlock`, `ReactionBlock`); and once
  main has waited for the timers, only reactions create any (`TimersAfterWait`).
- `NoneRunsTooOften` and `TimersHaveRun`. `Counts` says, until the reader crashes, that for
  every block `p` and every statement `c` directly in it, `c` was executed as often as runs
  of `p` have begun (at most so often, if it stands in an if: `Agrees`), less one while a
  running callback has still to execute it; and that a timer that is finished has no run left. A statement is then never executed more often
  than the script says, and when main returns, one that stands in no reaction once for each
  run of its block, if no if passes over it. Both climb down the forest from a least counterexample (`LeastExists`, which
  holds because `<` is well-founded on the numbers): the library's induction theorems cannot
  be used here. For the same reason `ExecutionsExist` shows that the recursive function
  `Executions` has a solution.
- `UsesTimersByContract` and `UsesReactionsByService`: each step of the process is a step
  of `TimerContract` and of `ReactOnService`, or leaves them alone. What is not obvious is
  that an execution creates a timer or a reaction that is one of the instances the script
  has; that is the bound of `NoneRunsTooOften`.
- `ReactionsKeepPromises`: with the theorems of `ReactOnServiceProofs`, instantiated, it
  follows that in every script reactions are called within their count, and each update
  reaches those that waited for it.

**`DistributorProofs`** (`DistributorAssumption`), for any number of calls and points and
any capacity: `TypeCorrect`, `StreamsAreExact`. A call's queue grows only while it is
subscribed, from its test to its leave (`SubscribedWhileOpen`), and a call about to pop has
written what it popped before (`NothingInHand`), so a point is never overtaken in the
hands of its call.

**`ProcessManagerProofs`** (`ProcessAssumption`), for any pool of threads and any scripts:
`TypeCorrect`, `OneProcessIsHeld`, `NoRequestFails`, `ShutdownIsComplete`. The three
properties are about scripts that one thread toggles. What such a request found out in
one step is still true in the next (`RequestsAgree`: each of its positions with what the
table and the processes are then), because no other thread has its key (`KeysAreOwn`).
`RunningAreHeld` and `LifespanEnds` carry that to the shutdown, which leaves running only
what it has killed (`Living` are the others); `StartsAreCounted` keeps
the process numbers within their type although requests interleave.

**`NotificationHubProofs`** (`HubAssumption`), for any number of connections,
notifications and messages: `TypeCorrect`, `NotificationsStayInOrder`, `LeaversLose`. That
a browser sees its notifications in order needs the order of all that are on their way
(`InOrder`): the queue is increasing, and what is queued is younger than what any handler
has in hand, which is younger than what its browser has. That none vanishes is `AllKept`;
and the server believes a client to be gone only when it is (`GoneWhenDisconnected`, which
makes the handlers' loss the leavers' loss).

**`ScriptBuildProofs`** (`BuildAssumption`), for any number of concurrent submits, scripts
and failures:

- `TypeCorrect`, `BinariesStayApart`. The invariant adds to TypeOK that main.cc in a
  directory was submitted for it (`SourceOfItsScript`) and that a current directory that was
  not deleted since it was entered is a `build` that is there (`CwdIsThere`): make then
  compiles a source of the directory it runs in, whoever started it.
- `LoneSubmitsFindTheirBuild`, `LoneSubmitsBuildTheirOwn`, of the submits that no other one
  overlaps with, whatever races came before them (`ScriptBuildAlone`). `AInv` says, for each
  position of such a submit, which files it has found or made: nobody else is active
  (`SoloIsOnly`), the old binary is gone once its directory was emptied
  (`SoloHasNoBinary`), main.cc is its own (`SoloHasSource`), and the current directory is its
  own (`SoloIsInPlace`).

**`FileMakerProofs`** (`FileMakerAssumption`), for every set of scripts, however deep their
statements nest, and whatever text the expressions become: `UsesBound`, `WaitsClose`,
`VariablesKnown`, `NumbersFit`. None of the four properties is inductive: each speaks
of main as a whole, while a step inserts one line somewhere in the middle. `IInv` says what
the lines so far owe to the calls that are still in progress:

- `Balanced`, `OpenLines`: a block is open for each MakeBlock on `work`, and the line that opened
  it belongs to that frame's command and captures every manager its commands need
  (`Needs`). `UsesCaptured` then survives each line, since a line names a manager only if
  every frame needs it (`NeededBy`). `Needs(c)` is over `Below(c)`, the least set of commands
  closed under going to the commands of a block: a least set rather than a recursive one,
  so that no induction over the script is needed.
- `Collects`: while managers are collected, each command below is one whose manager is in, or
  one that `collecting` still leads to. When `collecting` is empty, all of `Needs` is in
  `active_managers_` and in `history_`, which is what the captures are generated from.
- `Declared`, `Waits`: what `history_` has is declared, once and outside every block, in front
  of each use; and `file.after` waits for exactly those in the reverse order of their
  declarations. Declarations stand outside blocks because nobody but the command in main's
  own loop finds a manager missing (`Needs` again: inside a block every one is there).
- `VariablesIn`: for each frame, the types that it will restore (or `variable_types_` itself,
  for the innermost) are those of the declarations in scope at its depth. That a block's end
  gives back what C++ sees needs this for all depths at once.
- `Numbers`: the repeat counts and times of the commands in progress were read by stoi from a
  text ValidInteger accepted, or from `-1`; `PositiveIfRead` climbs from the first digit, which is not
  zero, by a least counterexample.

The lemmas `...Extended` say what one more line does to each of these notions (nesting,
enclosing blocks, scopes), and each action of the generator is then one line, one frame, or
both.

The proofs about queues begin with what they need of `Range`: of an appended element, a
popped head and a concatenation.

Only model-checked: the liveness properties (liveness under fairness and ENABLED are out of
the prover's reach), and two properties of the generator, `CodeReadsAsScript` and
`CodeIsTyped`. They are about the tokens generated for an expression and the lines generated
for a parse tree; visitor, expressions and the C++ reading of them are RECURSIVE operators, and
what they compute needs induction over the tree, neither of which the prover has.

## 5. What is not modelled, and why

- The parser: ANTLR generates it from FiScript.g4; the model starts from parse trees the
  grammar has.
- Names: `RemoveSpaceAndMaj` (`file_maker.cc:15`) and the API's sanitizing
  (`process_manager.py:10`) are not compared, so two keys that name one binary are not
  modelled; keys and directories are model values.
- The content of messages, prices and orders, the fixed head of the generated file,
  indentation: no property here depends on them.
- Two concurrent push_backs into `reactions_` (undefined behaviour inside the vector), and
  the unlocked read of `subscribers_.size()` (only printed). A negative argument of
  WaitTillLast: FileMaker generates 0 only.
- The pipe that nobody reads behind a script's stdout.
- What the generated program computes: the models stop at what C++ is told to do.
- The API's client of the backend and the reply of ScriptSubmit: forwarded, never read.
- The frontend: its state is lists that the framework holds and schedules, and the
  framework is not part of this repository.
- Database models (never written), generated code, build and container files.

## 6. What is left to prove

Every safety invariant and action property that the runs check is proved, except
`CodeReadsAsScript` and `CodeIsTyped`. What would say more about the system:

1. Of a script whose stream does not end and whose reader does not crash: that what stands
   in a reaction, too, has been executed exactly as often as the script says when main
   returns, whenever it stands below a reaction that the first update found. `Counts` bounds it from
   above (`NoneRunsTooOften`); from below it needs to follow which reactions an update finds.
2. That the reader does not crash in a script whose reactions stand in main and whose
   timers register none: when all are registered before the first update, the buffer
   is not replaced while the loop runs. (The generated program does not wait for that, so it is an
   assumption about the feed, not about the code.)
3. The generator: that main has a line for each command that is not refused, in their order
   (the part of `CodeReadsAsScript` that is about statements), and that what ScriptProcess
   takes as `Code` is what FileMaker generates, as a refinement. What the code of an
   expression is needs induction over the parse tree, which the prover does not have.
