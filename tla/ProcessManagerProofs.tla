------------------------ MODULE ProcessManagerProofs ------------------------
(***************************************************************************)
(* What holds of ProcessManager for every pool of threads, every set of    *)
(* scripts, and every assignment of scripts to threads.                    *)
(***************************************************************************)
EXTENDS ProcessManager, FiniteSetTheorems, TLAPS

\* The requests that may still start a process.
Pending == {r \in Threads : pc[r] \in {"get", "poll", "del", "popen"}}

\* A request starts one process at most.
StartsAreCounted ==
    /\ IsFiniteSet(Pending)
    /\ started + Cardinality(Pending) <= calls

\* A process that is remembered anywhere has been started, and for that script.
KnownAreStarted ==
    /\ \A k \in Keys : processes[k] # None => processes[k] \in 1 .. started
    /\ \A r \in Threads : proc[r] # None => proc[r] \in 1 .. started
    /\ \A r \in Threads : pc[r] = "assign" => proc[r] # None /\ script[proc[r]] = key[r]

\* A request names one of its own scripts.
KeysAreOwn == \A r \in Threads : pc[r] # "idle" => key[r] \in Keys \cap KeysOf[r]

\* What a request for an undisputed script has found out is still true.
Agrees(r) ==
    LET entry == processes[key[r]] IN
    /\ pc[r] \in {"poll", "check", "terminate", "wait"} => entry # None /\ proc[r] = entry
    /\ pc[r] = "find" => entry # None
    /\ pc[r] \in {"del", "forget"} => entry # None /\ entry \notin running
    /\ pc[r] = "pop" => entry \notin running
    /\ pc[r] \in {"popen", "assign"} => entry = None

RequestsAgree == \A r \in Threads : pc[r] # "idle" /\ key[r] \in Undisputed => Agrees(r)

\* The processes of undisputed scripts are in the table, or about to be.
LivingAreHeld == \A p \in Living : script[p] \in Undisputed => Held(p)

\* There are no requests once the lifespan has ended, and no entries after shutdown_all,
\* which alone kills.
LifespanEnds ==
    /\ lifespan = "serving" => killed = {}
    /\ lifespan # "serving" => \A r \in Threads : pc[r] = "idle"
    /\ lifespan = "closed" => \A k \in Keys : processes[k] = None

IInv ==
    /\ TypeOK
    /\ StartsAreCounted
    /\ KnownAreStarted
    /\ KeysAreOwn
    /\ RequestsAgree
    /\ LivingAreHeld
    /\ LifespanEnds
    /\ NoKeyError

-----------------------------------------------------------------------------

\* A script that one thread toggles is no other's.
LEMMA UndisputedIsOwn ==
    ASSUME IInv, NEW r \in Threads, NEW q \in Threads, pc[r] # "idle", pc[q] # "idle",
           key[r] \in Undisputed, key[q] = key[r]
    PROVE  q = r
<1>1. key[r] \in KeysOf[r] /\ key[q] \in KeysOf[q]
    BY DEF IInv, KeysAreOwn
<1> QED
    BY <1>1 DEF Undisputed

\* Nothing runs and nobody asks at the start.
LEMMA InitIInv == Init => IInv
<1> SUFFICES ASSUME Init
             PROVE  IInv
    OBVIOUS
<1>1. TypeOK
    BY ProcessAssumption DEF Init, TypeOK, PCs, Replies
<1>2. StartsAreCounted
    <2>1. Pending = {}
        BY DEF Init, Pending
    <2> QED
        BY <2>1, FS_EmptySet DEF Init, StartsAreCounted
<1>3. KnownAreStarted /\ KeysAreOwn
    BY DEF Init, KnownAreStarted, KeysAreOwn
<1>4. RequestsAgree /\ LivingAreHeld
    BY DEF Init, RequestsAgree, LivingAreHeld, Living
<1>5. LifespanEnds /\ NoKeyError
    BY DEF Init, LifespanEnds, NoKeyError
<1> QED
    BY <1>1, <1>2, <1>3, <1>4, <1>5 DEF IInv

\* What a step of one request leaves alone: the other requests, the entries of other
\* scripts, and whatever is known of the processes started so far.
LEMMA RequestFrame ==
    ASSUME IInv, NEW r \in Threads, RequestStep(r)
    PROVE  /\ pc[r] # "idle" /\ key[r] \in Keys \cap KeysOf[r]
           /\ UNCHANGED <<key, calls, lifespan>>
           /\ \A q \in Threads \ {r} : /\ pc'[q] = pc[q]
                                      /\ proc'[q] = proc[q]
                                      /\ asker'[q] = asker[q]
                                      /\ reply'[q] = reply[q]
           /\ \A k \in Keys \ {key[r]} : processes'[k] = processes[k]
           /\ running' \subseteq running \cup {started + 1}
           /\ Living = running /\ Living' = running' /\ killed' = killed
           /\ started' \in {started, started + 1}
           /\ \A p \in 1 .. started : script'[p] = script[p]
<1> USE DEF IInv, TypeOK, Goto, Answers, SaysActive, SaysInactive, system, request,
            RemovesEntry
<1>1. pc[r] # "idle"
    BY DEF RequestStep, Gets, Polls, Deletes, Popens, Assigns, Finds, Checks, Pops,
           Terminates, Waits, ForgetsProcess
<1>2. key[r] \in Keys \cap KeysOf[r]
    BY <1>1 DEF KeysAreOwn
<1>3. UNCHANGED <<key, calls, lifespan>>
    BY DEF RequestStep, Gets, Polls, Deletes, Popens, Assigns, Finds, Checks, Pops,
           Terminates, Waits, ForgetsProcess
<1>4. ASSUME NEW q \in Threads \ {r}
      PROVE  pc'[q] = pc[q] /\ proc'[q] = proc[q] /\ asker'[q] = asker[q]
             /\ reply'[q] = reply[q]
    <2>1. pc'[q] = pc[q]
        BY DEF RequestStep, Gets, Polls, Deletes, Popens, Assigns, Finds, Checks, Pops,
               Terminates, Waits, ForgetsProcess
    <2>2. proc'[q] = proc[q]
        BY DEF RequestStep, Gets, Polls, Deletes, Popens, Assigns, Finds, Checks, Pops,
               Terminates, Waits, ForgetsProcess
    <2>3. asker'[q] = asker[q]
        BY DEF RequestStep, Gets, Polls, Deletes, Popens, Assigns, Finds, Checks, Pops,
               Terminates, Waits, ForgetsProcess
    <2>4. reply'[q] = reply[q]
        BY DEF RequestStep, Gets, Polls, Deletes, Popens, Assigns, Finds, Checks, Pops,
               Terminates, Waits, ForgetsProcess
    <2> QED
        BY <2>1, <2>2, <2>3, <2>4
<1>5. \A k \in Keys \ {key[r]} : processes'[k] = processes[k]
    BY <1>2 DEF RequestStep, Gets, Polls, Deletes, Popens, Assigns, Finds, Checks, Pops,
           Terminates, Waits, ForgetsProcess, Remembers
<1>6. running' \subseteq running \cup {started + 1} /\ started' \in {started, started + 1}
    BY DEF RequestStep, Gets, Polls, Deletes, Popens, Assigns, Finds, Checks, Pops,
           Terminates, Waits, ForgetsProcess, WaitsForProcess
<1>7. ASSUME NEW p \in 1 .. started
      PROVE  script'[p] = script[p]
    <2>1. p \in Procs /\ p # started + 1
        BY <1>7, ProcessAssumption DEF Procs
    <2>2. script' = script \/ script' = [script EXCEPT ![started + 1] = key[r]]
        BY DEF RequestStep, Gets, Polls, Deletes, Popens, Assigns, Finds, Checks, Pops,
               Terminates, Waits, ForgetsProcess
    <2> QED
        BY <2>1, <2>2
<1>8. Living = running /\ Living' = running' /\ killed' = killed
    <2>1. killed = {}
        BY <1>1 DEF LifespanEnds
    <2>2. killed' = killed
        BY DEF RequestStep, Gets, Polls, Deletes, Popens, Assigns, Finds, Checks, Pops,
               Terminates, Waits, ForgetsProcess
    <2> QED
        BY <2>1, <2>2 DEF Living
<1> QED
    BY <1>1, <1>2, <1>3, <1>4, <1>5, <1>6, <1>7, <1>8

\* At most one request per start: what is started fits into the bound.
LEMMA PopensInBound ==
    ASSUME IInv, NEW r \in Threads, pc[r] = "popen"
    PROVE  started + 1 <= calls /\ started + 1 \in Procs
<1>1. r \in Pending /\ IsFiniteSet(Pending) /\ started + Cardinality(Pending) <= calls
    BY DEF IInv, StartsAreCounted, Pending
<1>2. Cardinality(Pending) \in Nat /\ Cardinality(Pending) # 0
    BY <1>1, FS_EmptySet, FS_CardinalityType
<1> QED
    BY <1>1, <1>2, ProcessAssumption DEF IInv, TypeOK, Procs

\* The types are kept by every step of a request.
LEMMA RequestTypes == ASSUME IInv, NEW r \in Threads, RequestStep(r)
                      PROVE  TypeOK'
<1> USE DEF IInv, Goto, Answers, SaysActive, SaysInactive, system, request, RemovesEntry
<1>1. key[r] \in Keys /\ UNCHANGED <<key, calls, lifespan>>
    BY RequestFrame
<1>2. processes[key[r]] \in Procs \cup {None} /\ None \notin Keys /\ None \notin Procs
    BY <1>1, ProcessAssumption DEF TypeOK, Procs
<1>3. \A p : p \in 1 .. started => p \in Procs
    BY ProcessAssumption DEF TypeOK, Procs
<1>4. \/ Popens(r) /\ pc[r] = "popen"
      \/ UNCHANGED <<started, script>>
    BY DEF RequestStep, Gets, Polls, Deletes, Popens, Assigns, Finds, Checks, Pops,
           Terminates, Waits, ForgetsProcess
<1>5. started' \in 0 .. calls'
    <2>1. CASE Popens(r) /\ pc[r] = "popen"
        BY <1>1, <2>1, PopensInBound DEF Popens, TypeOK
    <2>2. CASE UNCHANGED <<started, script>>
        BY <1>1, <2>2 DEF TypeOK
    <2> QED
        BY <1>4, <2>1, <2>2
<1>6. running' \subseteq 1 .. started'
    <2>1. CASE Popens(r) /\ pc[r] = "popen"
        <3>1. \/ started' = started + 1 /\ running' = running \cup {started + 1}
              \/ started' = started /\ running' = running
            BY <2>1 DEF Popens
        <3>2. started \in Nat /\ running \subseteq 1 .. started
            BY DEF TypeOK
        <3>3. 1 .. started \subseteq 1 .. started + 1 /\ started + 1 \in 1 .. started + 1
            BY <3>2
        <3> QED
            BY <3>1, <3>2, <3>3
    <2>2. CASE UNCHANGED <<started, script>>
        <3>1. running' \subseteq running
            BY <2>2 DEF RequestStep, Gets, Polls, Deletes, Popens, Assigns, Finds, Checks,
                   Pops, Terminates, Waits, ForgetsProcess, WaitsForProcess, TypeOK
        <3> QED
            BY <2>2, <3>1 DEF TypeOK
    <2> QED
        BY <1>4, <2>1, <2>2
<1>7. script' \in [Procs -> Keys \cup {None}]
    <2>1. script' = script \/ script' = [script EXCEPT ![started + 1] = key[r]]
        BY <1>4 DEF Popens
    <2> QED
        BY <1>1, <2>1 DEF TypeOK
<1>8. proc' \in [Threads -> Procs \cup {None}]
    <2>1. \/ proc' = proc
          \/ proc' = [proc EXCEPT ![r] = processes[key[r]]]
          \/ pc[r] = "popen" /\ proc' = [proc EXCEPT ![r] = started + 1]
        BY DEF RequestStep, Gets, Polls, Deletes, Popens, Assigns, Finds, Checks, Pops,
               Terminates, Waits, ForgetsProcess
    <2>2. pc[r] = "popen" => started + 1 \in Procs
        BY PopensInBound
    <2> QED
        BY <1>2, <2>1, <2>2 DEF TypeOK
<1>9. /\ pc' \in [Threads -> PCs]
      /\ asker' \in [Threads -> {"toggle", "activate"}]
    <2>1. \E step \in PCs : pc' = [pc EXCEPT ![r] = step]
        BY DEF RequestStep, Gets, Polls, Deletes, Popens, Assigns, Finds, Checks, Pops,
               Terminates, Waits, ForgetsProcess, PCs
    <2>2. asker' = asker \/ asker' = [asker EXCEPT ![r] = "activate"]
        BY DEF RequestStep, Gets, Polls, Deletes, Popens, Assigns, Finds, Checks, Pops,
               Terminates, Waits, ForgetsProcess
    <2> QED
        BY <2>1, <2>2 DEF TypeOK
<1>10. reply' \in [Threads -> Replies]
    <2>1. reply' = reply \/ \E answer \in Replies : reply' = [reply EXCEPT ![r] = answer]
        BY DEF RequestStep, Gets, Polls, Deletes, Popens, Assigns, Finds, Checks, Pops,
               Terminates, Waits, ForgetsProcess, Replies
    <2> QED
        BY <2>1 DEF TypeOK
<1>11. /\ processes' \in [Keys -> Procs \cup {None}]
       /\ \A k \in Keys : processes'[k] # None => script'[processes'[k]] = k
    <2>1. \/ processes' = processes
          \/ processes' = [processes EXCEPT ![key[r]] = None]
          \/ pc[r] = "assign" /\ processes' = [processes EXCEPT ![key[r]] = proc[r]]
        BY DEF RequestStep, Gets, Polls, Deletes, Popens, Assigns, Finds, Checks, Pops,
               Terminates, Waits, ForgetsProcess, Remembers
    <2>2. \A k \in Keys : processes[k] # None =>
              processes[k] \in 1 .. started /\ script'[processes[k]] = k
        BY RequestFrame DEF KnownAreStarted, TypeOK
    <2>3. pc[r] = "assign" => proc[r] # None /\ proc[r] \in Procs /\ script[proc[r]] = key[r]
                              /\ script'[proc[r]] = key[r]
        BY <1>3, RequestFrame DEF KnownAreStarted
    <2> QED
        BY <1>1, <2>1, <2>2, <2>3 DEF TypeOK
<1>12. killed' \subseteq 1 .. started'
    <2>1. killed = {} /\ killed' = killed
        BY RequestFrame DEF LifespanEnds
    <2> QED
        BY <2>1
<1> QED
    BY <1>1, <1>5, <1>6, <1>7, <1>8, <1>9, <1>10, <1>11, <1>12 DEF TypeOK

\* Every start is one of a request's own, and what is remembered has been started.
LEMMA RequestNumbers ==
    ASSUME IInv, NEW r \in Threads, RequestStep(r)
    PROVE  StartsAreCounted' /\ KnownAreStarted' /\ KeysAreOwn'
<1> USE DEF IInv, Goto, Answers, SaysActive, SaysInactive, system, request, RemovesEntry
<1>1. /\ key[r] \in Keys
      /\ UNCHANGED <<key, calls, lifespan>>
      /\ \A q \in Threads \ {r} : pc'[q] = pc[q] /\ proc'[q] = proc[q]
      /\ \A p \in 1 .. started : script'[p] = script[p]
      /\ pc[r] # "idle" /\ key[r] \in KeysOf[r]
    BY RequestFrame
<1>2. StartsAreCounted'
    <2>1. pc \in [Threads -> PCs] /\ pc' \in [Threads -> PCs] /\ started \in Nat /\ calls \in Nat
        BY RequestTypes DEF TypeOK
    <2>2. IsFiniteSet(Pending) /\ started + Cardinality(Pending) <= calls
        BY DEF StartsAreCounted
    <2>3. /\ Cardinality(Pending) \in Nat
          /\ IsFiniteSet(Pending \ {r})
          /\ Cardinality(Pending \ {r}) =
                 IF r \in Pending THEN Cardinality(Pending) - 1 ELSE Cardinality(Pending)
        BY <2>2, FS_RemoveElement, FS_CardinalityType
    <2>4. \A q \in Threads \ {r} : q \in Pending' <=> q \in Pending
        BY <1>1 DEF Pending
    <2>5. CASE r \in Pending' /\ started' = started
        <3>1. r \in Pending
            BY <2>1, <2>5 DEF Pending, RequestStep, Gets, Polls, Deletes, Popens, Assigns,
                 Finds, Checks, Pops, Terminates, Waits, ForgetsProcess
        <3>2. Pending' = Pending
            BY <2>4, <2>5, <3>1 DEF Pending
        <3> QED
            BY <1>1, <2>2, <2>5, <3>2 DEF StartsAreCounted
    <2>6. CASE r \notin Pending' /\ started' = started
        <3>1. Pending' = Pending \ {r}
            BY <2>4, <2>6 DEF Pending
        <3> QED
            BY <1>1, <2>1, <2>2, <2>3, <2>6, <3>1 DEF StartsAreCounted
    <2>7. CASE started' # started
        <3>1. /\ pc[r] = "popen" /\ started' = started + 1
              /\ pc' = [pc EXCEPT ![r] = "assign"]
            BY <2>7 DEF RequestStep, Gets, Polls, Deletes, Popens, Assigns, Finds, Checks,
                   Pops, Terminates, Waits, ForgetsProcess
        <3>2. r \in Pending /\ r \notin Pending'
            BY <2>1, <3>1 DEF Pending
        <3>3. Pending' = Pending \ {r}
            BY <2>4, <3>2 DEF Pending
        <3> QED
            BY <1>1, <2>1, <2>2, <2>3, <3>1, <3>2, <3>3 DEF StartsAreCounted
    <2> QED
        BY <2>5, <2>6, <2>7
<1>3. KnownAreStarted'
    <2>1. \/ started' = started
          \/ started' = started + 1 /\ pc[r] = "popen" /\ UNCHANGED processes
             /\ proc' = [proc EXCEPT ![r] = started + 1]
             /\ script' = [script EXCEPT ![started + 1] = key[r]]
             /\ pc' = [pc EXCEPT ![r] = "assign"]
        BY DEF RequestStep, Gets, Polls, Deletes, Popens, Assigns, Finds, Checks, Pops,
               Terminates, Waits, ForgetsProcess
    <2>2. started \in Nat /\ started' \in Nat
        BY RequestTypes DEF TypeOK
    <2>3. \A p \in 1 .. started : p \in 1 .. started'
        BY <2>1, <2>2
    <2>4. ASSUME NEW k \in Keys, processes'[k] # None
          PROVE  processes'[k] \in 1 .. started'
        <3>1. \/ processes' = processes
              \/ processes' = [processes EXCEPT ![key[r]] = None]
              \/ pc[r] = "assign" /\ processes' = [processes EXCEPT ![key[r]] = proc[r]]
            BY DEF RequestStep, Gets, Polls, Deletes, Popens, Assigns, Finds, Checks, Pops,
                   Terminates, Waits, ForgetsProcess, Remembers
        <3>2. processes \in [Keys -> Procs \cup {None}]
            BY DEF TypeOK
        <3> QED
            BY <1>1, <2>3, <2>4, <3>1, <3>2 DEF KnownAreStarted
    <2>5. ASSUME NEW q \in Threads, proc'[q] # None
          PROVE  proc'[q] \in 1 .. started'
        <3>1. \/ proc' = proc
              \/ proc' = [proc EXCEPT ![r] = processes[key[r]]]
              \/ started' = started + 1 /\ proc' = [proc EXCEPT ![r] = started + 1]
            BY DEF RequestStep, Gets, Polls, Deletes, Popens, Assigns, Finds, Checks, Pops,
                   Terminates, Waits, ForgetsProcess
        <3>2. proc \in [Threads -> Procs \cup {None}]
            BY DEF TypeOK
        <3> QED
            BY <1>1, <2>2, <2>3, <2>5, <3>1, <3>2 DEF KnownAreStarted
    <2>6. ASSUME NEW q \in Threads, pc'[q] = "assign"
          PROVE  proc'[q] # None /\ script'[proc'[q]] = key'[q]
        <3>1. CASE q = r
            <4>1. pc[r] = "popen" /\ started' = started + 1
                BY <2>6, <3>1, RequestTypes DEF RequestStep, Gets, Polls, Deletes, Popens,
                     Assigns, Finds, Checks, Pops, Terminates, Waits, ForgetsProcess, TypeOK
            <4>2. started + 1 \in Procs /\ started + 1 # None
                BY <4>1, PopensInBound, ProcessAssumption DEF Procs
            <4>3. /\ proc' = [proc EXCEPT ![r] = started + 1]
                  /\ script' = [script EXCEPT ![started + 1] = key[r]]
                BY <2>1, <2>2, <4>1
            <4> QED
                BY <1>1, <3>1, <4>2, <4>3 DEF TypeOK
        <3>2. CASE q # r
            BY <1>1, <2>6, <3>2 DEF KnownAreStarted
        <3> QED
            BY <3>1, <3>2
    <2> QED
        BY <2>4, <2>5, <2>6 DEF KnownAreStarted
<1>4. KeysAreOwn'
    BY <1>1 DEF KeysAreOwn
<1> QED
    BY <1>2, <1>3, <1>4

\* What a step of a request for an undisputed script keeps of it.
OwnIsKept(r) ==
    /\ pc'[r] # "idle" => Agrees(r)'
    /\ \A p \in running' : script'[p] = key[r] => Held(p)'
    /\ reply'[r] = "failed" => reply[r] = "failed"

\* A running process of the script that a request is for is its entry, or the one that
\* the request has just started.
LEMMA OwnProcess ==
    ASSUME IInv, NEW r \in Threads, pc[r] # "idle", key[r] \in Undisputed,
           NEW p \in running, script[p] = key[r]
    PROVE  p = processes[key[r]] \/ (pc[r] = "assign" /\ p = proc[r])
<1>0. p \in Living
    BY DEF IInv, LifespanEnds, Living
<1>1. CASE processes[script[p]] = p
    BY <1>1
<1>2. ASSUME NEW q \in Threads, pc[q] = "assign", proc[q] = p
      PROVE  q = r
    <2>1. key[q] = key[r]
        BY <1>2 DEF IInv, KnownAreStarted
    <2> QED
        BY <1>2, <2>1, UndisputedIsOwn
<1> QED
    BY <1>0, <1>1, <1>2 DEF IInv, LivingAreHeld, Held

\* Each step of a request for an undisputed script leaves at most one process of it, in
\* the table or at hand, and never meets an entry that has gone.
LEMMA RequestKeepsOwn ==
    ASSUME IInv, NEW r \in Threads, RequestStep(r), key[r] \in Undisputed
    PROVE  OwnIsKept(r)
<1> DEFINE entry == processes[key[r]]
<1>1. /\ pc[r] # "idle" /\ key[r] \in Keys
      /\ key' = key
      /\ started \in Nat /\ running \subseteq 1 .. started
      /\ None \notin running
      /\ \A p \in 1 .. started : script'[p] = script[p]
    <2>1. started \in Nat /\ running \subseteq 1 .. started
        BY DEF IInv, TypeOK
    <2>2. \A p \in 1 .. started : p \in Nat
        OBVIOUS
    <2>3. None \notin running
        BY <2>1, <2>2, ProcessAssumption
    <2> QED
        BY <2>1, <2>3, RequestFrame
<1>2. /\ processes \in [Keys -> Procs \cup {None}]
      /\ pc \in [Threads -> PCs]
      /\ asker \in [Threads -> {"toggle", "activate"}]
      /\ proc \in [Threads -> Procs \cup {None}]
      /\ reply \in [Threads -> Replies]
      /\ script \in [Procs -> Keys \cup {None}]
    BY DEF IInv, TypeOK
<1>3. Agrees(r)
    BY <1>1 DEF IInv, RequestsAgree
<1>4. \A p \in running : script[p] = key[r] => p = entry \/ (pc[r] = "assign" /\ p = proc[r])
    BY <1>1, OwnProcess
<1> USE <1>1, <1>2 DEF OwnIsKept, Goto, Answers, SaysActive, SaysInactive, system, request,
            RemovesEntry
<1>5. ASSUME pc[r] # "assign", UNCHANGED processes, running' \subseteq running
      PROVE  \A p \in running' : script'[p] = key[r] => Held(p)'
    BY <1>4, <1>5 DEF Held
<1>6. ASSUME pc[r] # "assign", entry \notin running, running' \subseteq running
      PROVE  \A p \in running' : script'[p] = key[r] => Held(p)'
    BY <1>4, <1>6
<1>7. CASE Gets(r)
    BY <1>3, <1>5, <1>7 DEF Gets, Agrees
<1>8. CASE Polls(r)
    BY <1>3, <1>5, <1>8 DEF Polls, Agrees
<1>9. CASE Deletes(r)
    BY <1>3, <1>6, <1>9 DEF Deletes, Agrees
<1>10. CASE Popens(r)
    <2>1. entry = None /\ pc[r] = "popen"
        BY <1>3, <1>10 DEF Popens, Agrees
    <2>2. CASE UNCHANGED system
        BY <1>6, <1>10, <2>1, <2>2 DEF Popens
    <2>3. CASE ~UNCHANGED system
        <3>1. /\ running' = running \cup {started + 1}
              /\ script' = [script EXCEPT ![started + 1] = key[r]]
              /\ proc' = [proc EXCEPT ![r] = started + 1]
              /\ pc' = [pc EXCEPT ![r] = "assign"]
              /\ UNCHANGED <<processes, reply>>
            BY <1>10, <2>3 DEF Popens
        <3>2. Agrees(r)'
            BY <2>1, <3>1 DEF Agrees
        <3>3. ASSUME NEW p \in running', script'[p] = key[r]
              PROVE  Held(p)'
            <4>1. p = started + 1
                BY <1>4, <2>1, <3>1, <3>3
            <4> QED
                BY <3>1, <4>1 DEF Held
        <3> QED
            BY <3>1, <3>2, <3>3
    <2> QED
        BY <2>2, <2>3
<1>11. CASE Assigns(r)
    <2>1. /\ pc[r] = "assign" /\ entry = None
          /\ processes' = [processes EXCEPT ![key[r]] = proc[r]]
          /\ UNCHANGED <<running, script>>
          /\ pc' = [pc EXCEPT ![r] = "idle"]
          /\ reply' = [reply EXCEPT ![r] = "activated"]
        BY <1>3, <1>11 DEF Assigns, Agrees, Remembers
    <2>2. ASSUME NEW p \in running', script'[p] = key[r]
          PROVE  Held(p)'
        <3>1. p = proc[r]
            BY <1>4, <2>1, <2>2
        <3> QED
            BY <2>1, <2>2, <3>1 DEF Held
    <2> QED
        BY <2>1, <2>2
<1>12. CASE Finds(r)
    BY <1>3, <1>5, <1>12 DEF Finds, Agrees
<1>13. CASE Checks(r)
    BY <1>3, <1>5, <1>13 DEF Checks, Agrees
<1>14. CASE Pops(r)
    BY <1>3, <1>6, <1>14 DEF Pops, Agrees
<1>15. CASE Terminates(r)
    BY <1>3, <1>5, <1>15 DEF Terminates, Agrees
<1>16. CASE Waits(r)
    BY <1>3, <1>5, <1>16 DEF Waits, WaitsForProcess, Agrees
<1>17. CASE ForgetsProcess(r)
    BY <1>3, <1>6, <1>17 DEF ForgetsProcess, Agrees
<1> QED
    BY <1>7, <1>8, <1>9, <1>10, <1>11, <1>12, <1>13, <1>14, <1>15, <1>16, <1>17
    DEF RequestStep

\* A step of a request keeps the invariant: what is true of another script is left as
\* it is.
LEMMA RequestIInv == ASSUME IInv, NEW r \in Threads, RequestStep(r)
                     PROVE  IInv'
<1>1. /\ pc[r] # "idle" /\ key[r] \in Keys
      /\ UNCHANGED <<key, calls, lifespan>>
      /\ \A q \in Threads \ {r} : /\ pc'[q] = pc[q]
                                 /\ proc'[q] = proc[q]
                                 /\ asker'[q] = asker[q]
                                 /\ reply'[q] = reply[q]
      /\ \A k \in Keys \ {key[r]} : processes'[k] = processes[k]
      /\ running' \subseteq running \cup {started + 1}
      /\ Living = running /\ Living' = running' /\ killed' = killed
      /\ \A p \in 1 .. started : script'[p] = script[p]
      /\ key[r] \in KeysOf[r]
    BY RequestFrame
<1>2. key[r] \in Undisputed => OwnIsKept(r)
    BY RequestKeepsOwn
<1>3. TypeOK' /\ StartsAreCounted' /\ KnownAreStarted' /\ KeysAreOwn'
    BY RequestTypes, RequestNumbers
<1>4. started \in Nat /\ running \subseteq 1 .. started /\ None \notin Nat
    BY ProcessAssumption DEF IInv, TypeOK
<1>5. RequestsAgree'
    <2> SUFFICES ASSUME NEW q \in Threads, pc'[q] # "idle", key[q] \in Undisputed
                 PROVE  Agrees(q)'
        BY <1>1 DEF RequestsAgree
    <2>1. CASE q = r
        BY <1>2, <2>1 DEF OwnIsKept
    <2>2. CASE q # r
        <3>1. pc[q] # "idle" /\ Agrees(q)
            BY <1>1, <2>2 DEF IInv, RequestsAgree
        <3>2. key[q] # key[r] /\ key[q] \in Keys
            BY <1>1, <2>2, <3>1, UndisputedIsOwn DEF IInv, KeysAreOwn
        <3>3. processes'[key[q]] = processes[key[q]]
            BY <1>1, <3>2
        <3>4. processes[key[q]] # started + 1
            BY <1>4, <3>2 DEF IInv, KnownAreStarted
        <3>5. processes[key[q]] \in running' => processes[key[q]] \in running
            BY <1>1, <3>4
        <3> QED
            BY <1>1, <2>2, <3>1, <3>3, <3>5 DEF Agrees
    <2> QED
        BY <2>1, <2>2
<1>6. LivingAreHeld'
    <2> SUFFICES ASSUME NEW p \in running', script'[p] \in Undisputed
                 PROVE  Held(p)'
        BY <1>1 DEF LivingAreHeld, Undisputed
    <2>1. CASE script'[p] = key[r]
        BY <1>2, <2>1 DEF OwnIsKept
    <2>2. CASE script'[p] # key[r]
        <3>1. p # started + 1
            <4>1. SUFFICES ASSUME p = started + 1, p \notin running
                           PROVE  FALSE
                BY <1>4
            <4>2. started' = started + 1 /\ script' = [script EXCEPT ![started + 1] = key[r]]
                BY <4>1 DEF RequestStep, Gets, Polls, Deletes, Popens, Assigns, Finds,
                     Checks, Pops, Terminates, Waits, ForgetsProcess, system,
                     WaitsForProcess
            <4>3. started + 1 \in Procs
                BY <4>1, PopensInBound DEF RequestStep, Gets, Polls, Deletes, Popens,
                     Assigns, Finds, Checks, Pops, Terminates, Waits, ForgetsProcess,
                     system, WaitsForProcess
            <4> QED
                BY <2>2, <4>1, <4>2, <4>3 DEF IInv, TypeOK
        <3>2. p \in running /\ script'[p] = script[p]
            BY <1>1, <1>4, <3>1
        <3>3. Held(p)
            BY <1>1, <3>2 DEF IInv, LivingAreHeld
        <3>4. CASE processes[script[p]] = p
            BY <1>1, <2>2, <3>2, <3>4 DEF Held, Undisputed
        <3>5. ASSUME NEW q \in Threads, pc[q] = "assign", proc[q] = p
              PROVE  Held(p)'
            <4>1. q # r
                BY <2>2, <3>2, <3>5 DEF IInv, KnownAreStarted
            <4> QED
                BY <1>1, <3>5, <4>1 DEF Held
        <3> QED
            BY <3>3, <3>4, <3>5 DEF Held
    <2> QED
        BY <2>1, <2>2
<1>7. LifespanEnds'
    BY <1>1 DEF IInv, LifespanEnds
<1>8. NoKeyError'
    <2> SUFFICES ASSUME NEW q \in Threads, KeysOf[q] \subseteq Undisputed
                 PROVE  reply'[q] # "failed"
        BY DEF NoKeyError, Undisputed
    <2>1. reply[q] # "failed"
        BY DEF IInv, NoKeyError
    <2>2. q = r => key[r] \in Undisputed
        BY <1>1
    <2> QED
        BY <1>1, <1>2, <2>1, <2>2 DEF OwnIsKept
<1> QED
    BY <1>3, <1>5, <1>6, <1>7, <1>8 DEF IInv

\* A new request starts with nothing found out.
LEMMA ToggleIInv == ASSUME IInv, NEW r \in Threads, Toggle(r)
                    PROVE  IInv'
<1>1. PICK k \in KeysOf[r] : key' = [key EXCEPT ![r] = k]
    BY DEF Toggle
<1>2. /\ pc[r] = "idle" /\ calls < MaxStarts /\ calls' = calls + 1
      /\ asker' = [asker EXCEPT ![r] = "toggle"]
      /\ pc' = [pc EXCEPT ![r] = "get"]
      /\ UNCHANGED <<processes, started, running, script, killed, proc, reply, lifespan>>
      /\ k \in Keys /\ lifespan = "serving"
    BY ProcessAssumption DEF Toggle, Goto, system
<1>3. pc \in [Threads -> PCs] /\ key \in [Threads -> Keys \cup {None}]
      /\ asker \in [Threads -> {"toggle", "activate"}]
    BY DEF IInv, TypeOK
<1>4. TypeOK'
    <2>1. started' \in 0 .. calls' /\ calls' \in 0 .. MaxStarts
        BY <1>2, ProcessAssumption DEF IInv, TypeOK
    <2>2. /\ pc' \in [Threads -> PCs] /\ key' \in [Threads -> Keys \cup {None}]
          /\ asker' \in [Threads -> {"toggle", "activate"}]
        BY <1>1, <1>2, <1>3 DEF PCs
    <2> QED
        BY <1>2, <2>1, <2>2 DEF IInv, TypeOK
<1>5. StartsAreCounted'
    <2>1. Pending' = Pending \cup {r} /\ r \notin Pending
        BY <1>2, <1>3 DEF Pending
    <2>2. IsFiniteSet(Pending) /\ started + Cardinality(Pending) <= calls
        BY DEF IInv, StartsAreCounted
    <2>3. /\ IsFiniteSet(Pending \cup {r})
          /\ Cardinality(Pending \cup {r}) = Cardinality(Pending) + 1
          /\ Cardinality(Pending) \in Nat
        BY <2>1, <2>2, FS_AddElement, FS_CardinalityType
    <2> QED
        BY <1>2, <2>1, <2>2, <2>3 DEF StartsAreCounted, IInv, TypeOK
<1>6. KnownAreStarted' /\ KeysAreOwn'
    BY <1>1, <1>2, <1>3 DEF IInv, KnownAreStarted, KeysAreOwn
<1>7. RequestsAgree'
    <2> SUFFICES ASSUME NEW q \in Threads, pc'[q] # "idle", key'[q] \in Undisputed
                 PROVE  Agrees(q)'
        BY DEF RequestsAgree, Undisputed
    <2>1. CASE q = r
        BY <1>1, <1>2, <1>3, <2>1 DEF Agrees
    <2>2. CASE q # r
        <3>1. pc'[q] = pc[q] /\ key'[q] = key[q] /\ asker'[q] = asker[q]
            BY <1>1, <1>2, <1>3, <2>2
        <3>2. Agrees(q)
            BY <3>1 DEF IInv, RequestsAgree
        <3> QED
            BY <1>2, <3>1, <3>2 DEF Agrees
    <2> QED
        BY <2>1, <2>2
<1>8. LivingAreHeld'
    <2>1. \A p \in running : Held(p) => Held(p)'
        BY <1>2, <1>3 DEF Held
    <2> QED
        BY <1>2, <2>1 DEF IInv, LivingAreHeld, Living, Undisputed
<1>9. LifespanEnds' /\ NoKeyError'
    BY <1>2 DEF IInv, LifespanEnds, NoKeyError, Undisputed
<1> QED
    BY <1>4, <1>5, <1>6, <1>7, <1>8, <1>9 DEF IInv

\* A script that ends by itself may do so at any moment: what a request knows to be in
\* the table is still there.
LEMMA ExitsIInv == ASSUME IInv, NEW p \in Procs, Exits(p)
                   PROVE  IInv'
<1>1. /\ running' = running \ {p}
      /\ UNCHANGED <<processes, started, script, killed, calls, key, pc, asker, proc, reply,
                     lifespan>>
    BY DEF Exits, request
<1>2. TypeOK' /\ StartsAreCounted' /\ KnownAreStarted' /\ KeysAreOwn'
    BY <1>1 DEF IInv, TypeOK, StartsAreCounted, Pending, KnownAreStarted, KeysAreOwn
<1>3. RequestsAgree'
    <2>1. \A r \in Threads : Agrees(r) => Agrees(r)'
        BY <1>1 DEF Agrees
    <2> QED
        BY <1>1, <2>1 DEF IInv, RequestsAgree, Undisputed
<1>4. LivingAreHeld'
    <2>1. \A q \in running : Held(q) => Held(q)'
        BY <1>1 DEF Held
    <2> QED
        BY <1>1, <2>1 DEF IInv, LivingAreHeld, Living, Undisputed
<1>5. LifespanEnds' /\ NoKeyError'
    BY <1>1 DEF IInv, LifespanEnds, NoKeyError, Undisputed
<1> QED
    BY <1>2, <1>3, <1>4, <1>5 DEF IInv

\* shutdown_all removes a process from the table and ends or kills it in one turn.
LEMMA ShutsIInv == ASSUME IInv, NEW k \in Keys, Shuts(k)
                   PROVE  IInv'
<1>1. /\ lifespan = "closing" /\ processes[k] # None
      /\ running' \subseteq running
      /\ killed' \subseteq killed \cup {processes[k]}
      /\ Living' = Living \ {processes[k]}
      /\ processes' = [processes EXCEPT ![k] = None]
      /\ UNCHANGED <<started, script, calls, key, pc, asker, proc, reply, lifespan>>
    BY DEF Shuts, Ended, Killed, Living, RemovesEntry, request
<1>2. \A r \in Threads : pc[r] = "idle"
    BY <1>1 DEF IInv, LifespanEnds
<1>3. TypeOK' /\ StartsAreCounted' /\ KnownAreStarted' /\ KeysAreOwn'
    BY <1>1 DEF IInv, TypeOK, StartsAreCounted, Pending, KnownAreStarted, KeysAreOwn
<1>4. RequestsAgree'
    BY <1>1, <1>2 DEF RequestsAgree
<1>5. LivingAreHeld'
    <2> SUFFICES ASSUME NEW p \in Living, p # processes[k], script[p] \in Undisputed
                 PROVE  Held(p)'
        BY <1>1 DEF LivingAreHeld, Undisputed
    <2>1. processes[script[p]] = p
        BY <1>2 DEF IInv, LivingAreHeld, Held
    <2>2. script[p] # k
        BY <2>1
    <2> QED
        BY <1>1, <2>1, <2>2 DEF Held, IInv, TypeOK, Undisputed
<1>6. LifespanEnds' /\ NoKeyError'
    BY <1>1, <1>2 DEF IInv, LifespanEnds, NoKeyError, Undisputed
<1> QED
    BY <1>3, <1>4, <1>5, <1>6 DEF IInv

\* Every step keeps the invariant.
LEMMA StepIInv == IInv /\ [Next]_vars => IInv'
<1> SUFFICES ASSUME IInv, [Next]_vars
             PROVE  IInv'
    OBVIOUS
<1>1. ASSUME NEW r \in Threads, Toggle(r)
      PROVE  IInv'
    BY <1>1, ToggleIInv
<1>2. ASSUME NEW r \in Threads, RequestStep(r)
      PROVE  IInv'
    BY <1>2, RequestIInv
<1>3. ASSUME NEW k \in Keys, Shuts(k)
      PROVE  IInv'
    BY <1>3, ShutsIInv
<1>4. ASSUME NEW p \in Procs, Exits(p)
      PROVE  IInv'
    BY <1>4, ExitsIInv
<1>5. ASSUME Closes \/ Closed \/ UNCHANGED vars
      PROVE  IInv'
    <2>1. UNCHANGED <<processes, started, running, script, killed, calls, key, pc, asker, proc, reply>>
        BY <1>5 DEF Closes, Closed, vars, system, request
    <2>2. LifespanEnds'
        BY <1>5, <2>1 DEF Closes, Closed, vars, IInv, LifespanEnds
    <2>3. lifespan' \in {"serving", "closing", "closed"}
        BY <1>5 DEF Closes, Closed, vars, IInv, TypeOK
    <2>4. TypeOK' /\ StartsAreCounted' /\ KnownAreStarted' /\ KeysAreOwn'
        BY <2>1, <2>3 DEF IInv, TypeOK, StartsAreCounted, Pending, KnownAreStarted,
               KeysAreOwn
    <2>5. RequestsAgree' /\ LivingAreHeld' /\ NoKeyError'
        BY <2>1 DEF IInv, RequestsAgree, Agrees, LivingAreHeld, Living, Held, NoKeyError,
               Undisputed
    <2> QED
        BY <2>2, <2>4, <2>5 DEF IInv
<1> QED
    BY <1>1, <1>2, <1>3, <1>4, <1>5 DEF Next

\* Together: the invariant holds in every state of every behaviour.
THEOREM Invariance == Spec => []IInv
BY InitIInv, StepIInv, PTL DEF Spec

-----------------------------------------------------------------------------

\* The types of the state; an entry of the table is a process started for that script,
\* and no more processes are started than requests were made.
THEOREM TypeCorrect == Spec => []TypeOK
<1>1. IInv => TypeOK
    BY DEF IInv
<1> QED
    BY Invariance, <1>1, PTL

\* A script toggled by one request at a time has at most one process, which the table or
\* the request holds, whatever happens to other scripts and whenever processes end.
THEOREM OneProcessIsHeld == Spec => []OneHeldProcess
<1>1. IInv => OneHeldProcess
    <2> SUFFICES ASSUME IInv, NEW p \in Living, script[p] \in Undisputed
                 PROVE  Held(p) /\ \A q \in Living : script[q] = script[p] => q = p
        BY DEF OneHeldProcess
    <2>1. Held(p)
        BY DEF IInv, LivingAreHeld
    <2>2. ASSUME NEW q \in Living, script[q] = script[p]
          PROVE  q = p
        <3>1. Held(q)
            BY <2>2 DEF IInv, LivingAreHeld
        <3>2. p # None /\ q # None
            <4>1. \A n \in 1 .. started : n \in Nat
                BY DEF IInv, TypeOK
            <4> QED
                BY <4>1, ProcessAssumption DEF IInv, TypeOK, Living
        <3>3. CASE \E r \in Threads : pc[r] = "assign" /\ (proc[r] = p \/ proc[r] = q)
            <4>1. PICK r \in Threads : pc[r] = "assign" /\ (proc[r] = p \/ proc[r] = q)
                BY <3>3
            <4>2. key[r] = script[p] /\ pc[r] # "idle"
                BY <2>2, <4>1 DEF IInv, KnownAreStarted
            <4>3. processes[key[r]] = None
                BY <4>1, <4>2 DEF IInv, RequestsAgree, Agrees
            <4>4. p = proc[r] /\ q = proc[r]
                BY <2>2, <3>2, <4>1, <4>2, <4>3, OwnProcess DEF Living
            <4> QED
                BY <4>4
        <3>4. CASE ~\E r \in Threads : pc[r] = "assign" /\ (proc[r] = p \/ proc[r] = q)
            BY <2>1, <2>2, <3>1, <3>4 DEF Held
        <3> QED
            BY <3>3, <3>4
    <2> QED
        BY <2>1, <2>2
<1> QED
    BY Invariance, <1>1, PTL

\* Requests for such scripts never fail with a KeyError.
THEOREM NoRequestFails == Spec => []NoKeyError
<1>1. IInv => NoKeyError
    BY DEF IInv
<1> QED
    BY Invariance, <1>1, PTL

\* After shutdown_all every process of these scripts has ended or been killed.
THEOREM ShutdownIsComplete == Spec => []ShutdownStopsAll
<1>1. IInv => ShutdownStopsAll
    <2> SUFFICES ASSUME IInv, lifespan = "closed", NEW p \in Living,
                        script[p] \in Undisputed
                 PROVE  FALSE
        BY DEF ShutdownStopsAll
    <2>1. Held(p)
        BY DEF IInv, LivingAreHeld
    <2>2. processes[script[p]] = None
        BY DEF IInv, LifespanEnds, Undisputed
    <2>3. \A r \in Threads : pc[r] # "assign"
        BY DEF IInv, LifespanEnds
    <2>4. p # None
        <3>1. \A n \in 1 .. started : n \in Nat
            BY DEF IInv, TypeOK
        <3> QED
            BY <3>1, ProcessAssumption DEF IInv, TypeOK, Living
    <2> QED
        BY <2>1, <2>2, <2>3, <2>4 DEF Held
<1> QED
    BY Invariance, <1>1, PTL
=============================================================================
