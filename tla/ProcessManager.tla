--------------------------- MODULE ProcessManager ---------------------------
(***************************************************************************)
(* Activating and deactivating scripts                                     *)
(* (backend-api/core/process_manager.py, /ActivateScript of                *)
(* backend-api/routes/views.py, the lifespan of backend-api/main.py).  The *)
(* endpoint is a plain def, so FastAPI runs each request on a thread of its*)
(* pool, and all of them share one ProcessManager without a lock.          *)
(*                                                                         *)
(* Granularity.  The interpreter may switch threads between any two steps; *)
(* one access to the dict, one poll, one Popen is one step.                *)
(***************************************************************************)
EXTENDS Integers, FiniteSets

CONSTANTS
    Threads,   \* of the pool: at most one request each at a time
    Keys,      \* the (username, title) pairs
    KeysOf,    \* of each thread: the keys its requests may name
    MaxStarts, \* bound: the number of requests, and of processes
    None

ASSUME ProcessAssumption ==
    /\ KeysOf \in [Threads -> SUBSET Keys]
    /\ MaxStarts \in Nat
    /\ None \notin Keys \cup Nat

\* Processes are numbered in the order in which they are started.
Procs == 1 .. MaxStarts

VARIABLES
    processes,  \* _processes: the process of each key, None if the key is absent
    started,    \* number of processes started
    running,    \* the processes that have not ended
    script,     \* the key each process was started for
    killed,     \* the processes that shutdown_all has sent SIGKILL
    calls,      \* number of requests so far
    pc,         \* where each request is
    asker,      \* which method called is_active
    key,        \* the key of each request
    proc,       \* its local variable proc
    reply,      \* the last reply given on each thread
    lifespan    \* of the application: "serving", "closing", "closed"

system == <<started, running, script, killed>>
request == <<calls, key>>
vars == <<processes, system, request, pc, asker, proc, reply, lifespan>>

\* No request; in is_active (before get, poll, del); in activate (before Popen, before
\* the assignment); in deactivate (before get, poll, pop, terminate, the end of wait,
\* del).
PCs == {"idle", "get", "poll", "del", "popen", "assign",
        "find", "check", "pop", "terminate", "wait", "forget"}

\* "failed" is a KeyError, "error" an OSError of activate: both are 500 to the client.
Replies == {"none", "activated", "deactivated", "missing", "refused", "failed", "error"}

Init ==
    /\ processes = [k \in Keys |-> None]
    /\ started = 0
    /\ running = {}
    /\ script = [p \in Procs |-> None]
    /\ killed = {}
    /\ calls = 0
    /\ pc = [r \in Threads |-> "idle"]
    /\ asker = [r \in Threads |-> "toggle"]
    /\ key = [r \in Threads |-> None]
    /\ proc = [r \in Threads |-> None]
    /\ reply = [r \in Threads |-> "none"]
    /\ lifespan = "serving"

Goto(r, step) == pc' = [pc EXCEPT ![r] = step]

Answers(r, answer) ==
    /\ Goto(r, "idle")
    /\ reply' = [reply EXCEPT ![r] = answer]

-----------------------------------------------------------------------------
\* POST /ActivateScript: toggle, which begins with is_active.
Toggle(r) ==
    /\ pc[r] = "idle" /\ lifespan = "serving"
    /\ calls < MaxStarts
    /\ calls' = calls + 1
    /\ \E k \in KeysOf[r] : key' = [key EXCEPT ![r] = k]
    /\ asker' = [asker EXCEPT ![r] = "toggle"]
    /\ Goto(r, "get")
    /\ UNCHANGED <<processes, system, proc, reply, lifespan>>

-----------------------------------------------------------------------------
(***************************************************************************)
(* is_active, called by toggle, and once more by activate.                 *)
(***************************************************************************)

SaysActive(r) ==
    IF asker[r] = "toggle"
    THEN Goto(r, "find") /\ UNCHANGED <<asker, reply>>
    ELSE Answers(r, "refused") /\ UNCHANGED asker

SaysInactive(r) ==
    IF asker[r] = "toggle"
    THEN Goto(r, "get") /\ asker' = [asker EXCEPT ![r] = "activate"] /\ UNCHANGED reply
    ELSE Goto(r, "popen") /\ UNCHANGED <<asker, reply>>

Gets(r) ==
    /\ pc[r] = "get"
    /\ proc' = [proc EXCEPT ![r] = processes[key[r]]]
    /\ IF processes[key[r]] = None
       THEN SaysInactive(r)
       ELSE Goto(r, "poll") /\ UNCHANGED <<asker, reply>>
    /\ UNCHANGED <<processes, system, request, lifespan>>

Polls(r) ==
    /\ pc[r] = "poll"
    /\ IF proc[r] \in running
       THEN SaysActive(r)
       ELSE Goto(r, "del") /\ UNCHANGED <<asker, reply>>
    /\ UNCHANGED <<processes, system, request, proc, lifespan>>

RemovesEntry(k) == processes' = [processes EXCEPT ![k] = None]

\* del self._processes[key]: whatever is there now, and a KeyError, which the
\* endpoint does not catch, if nothing is.
Deletes(r) ==
    /\ pc[r] = "del"
    /\ IF processes[key[r]] # None
       THEN RemovesEntry(key[r]) /\ SaysInactive(r)
       ELSE Answers(r, "failed") /\ UNCHANGED <<processes, asker>>
    /\ UNCHANGED <<system, request, proc, lifespan>>

-----------------------------------------------------------------------------
(***************************************************************************)
(* activate.                                                               *)
(***************************************************************************)

\* The binary is there or not: other parts of the system build and delete it.  The
\* endpoint does not catch the exceptions of a root that is not set, and of a binary that
\* cannot be executed.
Popens(r) ==
    /\ pc[r] = "popen"
    /\ \/ /\ started' = started + 1
          /\ running' = running \cup {started + 1}
          /\ script' = [script EXCEPT ![started + 1] = key[r]]
          /\ proc' = [proc EXCEPT ![r] = started + 1]
          /\ Goto(r, "assign")
          /\ UNCHANGED <<killed, reply>>
       \/ Answers(r, "missing") /\ UNCHANGED <<system, proc>>
       \/ Answers(r, "error") /\ UNCHANGED <<system, proc>>
    /\ UNCHANGED <<processes, request, asker, lifespan>>

\* A process that is started and not remembered.
Forgets(r) == UNCHANGED processes

\* One entry for all scripts of a user.
SharesEntry(r) == processes' = [k \in Keys |-> proc[r]]

\* self._processes[(username, title)] = proc
Remembers(r) == processes' = [processes EXCEPT ![key[r]] = proc[r]]

Assigns(r) ==
    /\ pc[r] = "assign"
    /\ Remembers(r)
    /\ Answers(r, "activated")
    /\ UNCHANGED <<system, request, asker, proc, lifespan>>

-----------------------------------------------------------------------------
(***************************************************************************)
(* deactivate.                                                             *)
(***************************************************************************)

Finds(r) ==
    /\ pc[r] = "find"
    /\ proc' = [proc EXCEPT ![r] = processes[key[r]]]
    /\ Goto(r, IF processes[key[r]] = None THEN "pop" ELSE "check")
    /\ UNCHANGED <<processes, system, request, asker, reply, lifespan>>

Checks(r) ==
    /\ pc[r] = "check"
    /\ Goto(r, IF proc[r] \in running THEN "terminate" ELSE "pop")
    /\ UNCHANGED <<processes, system, request, asker, proc, reply, lifespan>>

\* self._processes.pop(key, None), then RuntimeError.
Pops(r) ==
    /\ pc[r] = "pop"
    /\ RemovesEntry(key[r])
    /\ Answers(r, "refused")
    /\ UNCHANGED <<system, request, asker, proc, lifespan>>

\* The entry removed when the signal is sent, and again at the end.
TerminatesAndPops(r) ==
    /\ pc[r] = "terminate"
    /\ RemovesEntry(key[r])
    /\ Goto(r, "wait")
    /\ UNCHANGED <<system, request, asker, proc, reply, lifespan>>

Terminates(r) ==
    /\ pc[r] = "terminate"
    /\ Goto(r, "wait")
    /\ UNCHANGED <<processes, system, request, asker, proc, reply, lifespan>>

\* A wait that is not made.
WaitsForNobody(r) == UNCHANGED running

\* wait returns, or it times out and kill makes it return.
WaitsForProcess(r) == running' = running \ {proc[r]}

Waits(r) ==
    /\ pc[r] = "wait"
    /\ WaitsForProcess(r)
    /\ Goto(r, "forget")
    /\ UNCHANGED <<processes, started, script, killed, request, asker, proc, reply, lifespan>>

\* The last line, once more a del that may raise KeyError.
ForgetsProcess(r) ==
    /\ pc[r] = "forget"
    /\ IF processes[key[r]] # None
       THEN RemovesEntry(key[r]) /\ Answers(r, "deactivated")
       ELSE Answers(r, "failed") /\ UNCHANGED processes
    /\ UNCHANGED <<system, request, asker, proc, lifespan>>

-----------------------------------------------------------------------------
(***************************************************************************)
(* The lifespan ends once the requests are over: shutdown_all.             *)
(***************************************************************************)

Closes ==
    /\ lifespan = "serving"
    /\ \A r \in Threads : pc[r] = "idle"
    /\ lifespan' = "closing"
    /\ UNCHANGED <<processes, system, request, pc, asker, proc, reply>>

\* It has ended already, or wait returns.
Ended(p) == running' = running \ {p} /\ UNCHANGED killed

\* wait times out; nobody waits for the end that kill brings about.
Killed(p) ==
    /\ p \in running
    /\ killed' = killed \cup {p}
    /\ UNCHANGED running

\* One turn of its loop: terminate, wait, perhaps kill, del.
Shuts(k) ==
    /\ lifespan = "closing" /\ processes[k] # None
    /\ Ended(processes[k]) \/ Killed(processes[k])
    /\ RemovesEntry(k)
    /\ UNCHANGED <<started, script, request, pc, asker, proc, reply, lifespan>>

Closed ==
    /\ lifespan = "closing"
    /\ \A k \in Keys : processes[k] = None
    /\ lifespan' = "closed"
    /\ UNCHANGED <<processes, system, request, pc, asker, proc, reply>>

\* A script comes to its end.
Exits(p) ==
    /\ p \in running
    /\ running' = running \ {p}
    /\ UNCHANGED <<processes, started, script, killed, request, pc, asker, proc, reply,
                   lifespan>>

RequestStep(r) ==
    \/ Gets(r) \/ Polls(r) \/ Deletes(r)
    \/ Popens(r) \/ Assigns(r)
    \/ Finds(r) \/ Checks(r) \/ Pops(r) \/ Terminates(r) \/ Waits(r) \/ ForgetsProcess(r)

Next ==
    \/ \E r \in Threads : Toggle(r) \/ RequestStep(r)
    \/ Closes \/ Closed
    \/ \E k \in Keys : Shuts(k)
    \/ \E p \in Procs : Exits(p)

Spec == Init /\ [][Next]_vars

-----------------------------------------------------------------------------
(***************************************************************************)
(* Properties.                                                             *)
(***************************************************************************)

TypeOK ==
    /\ processes \in [Keys -> Procs \cup {None}]
    /\ started \in 0 .. calls
    /\ calls \in 0 .. MaxStarts
    /\ running \subseteq 1 .. started
    /\ script \in [Procs -> Keys \cup {None}]
    /\ killed \subseteq 1 .. started
    /\ pc \in [Threads -> PCs]
    /\ asker \in [Threads -> {"toggle", "activate"}]
    /\ key \in [Threads -> Keys \cup {None}]
    /\ proc \in [Threads -> Procs \cup {None}]
    /\ reply \in [Threads -> Replies]
    /\ lifespan \in {"serving", "closing", "closed"}
    /\ \A k \in Keys : processes[k] # None => script[processes[k]] = k

\* The scripts that are toggled on one thread only, one request after another.
Undisputed == {k \in Keys : \A r, q \in Threads : k \in KeysOf[r] \cap KeysOf[q] => r = q}

Held(p) ==
    \/ processes[script[p]] = p
    \/ \E r \in Threads : pc[r] = "assign" /\ proc[r] = p

\* The processes that run and will go on running.
Living == running \ killed

\* Requests of different scripts do not disturb each other: although other scripts are
\* raced over and processes end by themselves at any time, a script that is toggled by
\* one request at a time has at most one process, and that one is not lost: it is in the
\* table, where the next toggle and the shutdown find it, or a request is about to put it
\* there.
OneHeldProcess ==
    \A p \in Living : script[p] \in Undisputed =>
        /\ Held(p)
        /\ \A q \in Living : script[q] = script[p] => q = p

\* The same of every script.  README.md:19: "Clients can activate and deactivate their
\* strategies through a web interface at any time".
EveryProcessIsHeld == \A p \in Living : Held(p)

\* No del raises KeyError in a request for such a script, however late the process ends.
NoKeyError ==
    \A r \in Threads : KeysOf[r] \subseteq Undisputed => reply[r] # "failed"

\* When the application is down, every process of such a script that it started has ended
\* or has been killed: none lives on, whatever was activated and deactivated before.  A
\* process that was killed may still be there, as shutdown_all does not wait for its end.
ShutdownStopsAll ==
    lifespan = "closed" => \A p \in Living : script[p] \notin Undisputed
=============================================================================
