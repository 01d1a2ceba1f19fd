------------------------- MODULE ScriptProcessProofs -------------------------
(***************************************************************************)
(* What holds of the process of every script, however its statements nest. *)
(***************************************************************************)
EXTENDS ScriptProcess, FiniteSetTheorems, WellFoundedInduction, TLAPS

\* Has main completed this operation?
Did(op, x) == <<op, x>> \in done

\* Main has executed the statement that s stands in, so s may be executed too.
Started(s) == Did("execute", Top(s))

Types ==
    /\ made \in [Stmts -> Nat]
    /\ pending \subseteq Stmts \X Nat
    /\ IsFiniteSet(pending)
    /\ waiting \in [{"main"} -> {-1, 0}]
    /\ reactions \in Seq(Stmts \X Nat)
    /\ at \in Nat \ {0}
    /\ end \in 0 .. Len(reactions)
    /\ reader \in {"read", "scan", "call", "finish", "gone", "crashed"}
    /\ timerTodo \subseteq Stmts
    /\ reactTodo \subseteq Stmts

\* Main goes through its code in order.
InOrder == done \subseteq Code /\ \A p \in done : Earlier[p] \subseteq done

\* A manager lives from its declaration to its destruction.
AliveAgrees == alive = {k \in Used : Did("declare", k) /\ ~Did("destroy", k)}

TimersOfStatements == \A t \in pending : Kind[t[1]] = "schedule" /\ Started(t[1])

ReactionsOfStatements == \A i \in 1 .. Len(reactions) :
    Kind[reactions[i][1]] = "reacton" /\ Started(reactions[i][1])

\* What a callback has still to execute is in the block of its timer or reaction.
TimerBlock ==
    /\ busy # None => busy \in pending /\ timerTodo \subseteq Children(busy[1])
    /\ busy = None => timerTodo = {}

ReactionBlock ==
    /\ reader = "call" => at <= end /\ reactTodo \subseteq Children(reactions[at][1])
    /\ reader \notin {"call", "crashed"} => reactTodo = {}

\* The reader runs for a service that has been declared, and is gone once main has
\* waited for it.
ReaderInTime ==
    /\ reader # "read" => Did("declare", "reacton")
    /\ Did("wait", "reacton") => reader = "gone"

TimersStopped == Did("destroy", "schedule") => phase = "closed" /\ busy = None

\* Once main has waited for the timers only reactions create any, and none do when
\* main has waited for the reactions before.
TimersAfterWait ==
    Did("wait", "schedule") =>
        /\ \A t \in pending : InReaction(t[1])
        /\ "reacton" \in Used /\ DeclaredBefore("schedule", "reacton") => pending = {}

IInv ==
    /\ Types
    /\ InOrder
    /\ AliveAgrees
    /\ TimersOfStatements
    /\ ReactionsOfStatements
    /\ TimerBlock
    /\ ReactionBlock
    /\ ReaderInTime
    /\ TimersStopped
    /\ TimersAfterWait

-----------------------------------------------------------------------------
(***************************************************************************)
(* The forest and the code of main.                                        *)
(***************************************************************************)

\* Every nonempty set of natural numbers has a least element.
LEMMA LeastExists ==
    ASSUME NEW T, T \subseteq Nat, T # {}
    PROVE  \E x \in T : \A y \in T : x <= y
<1> DEFINE R == {p \in Nat \X Nat : p[1] < p[2]}
<1>1. IsWellFoundedOn(R, Nat)
    BY NatLessThanWellFounded DEF OpToRel
<1>2. \A x, y \in Nat : <<y, x>> \notin R => x <= y
    OBVIOUS
<1> HIDE DEF R
<1>3. PICK x \in T : \A y \in T : <<y, x>> \notin R
    BY <1>1, WFMin
<1> QED
    BY <1>2, <1>3

\* Every nonempty set of natural numbers up to n has a greatest element.
LEMMA GreatestExists ==
    ASSUME NEW n \in Nat, NEW T, T \subseteq Nat, T # {}, \A x \in T : x <= n
    PROVE  \E x \in T : \A y \in T : y <= x
<1> DEFINE U == {n - y : y \in T}
<1>1. \A y \in T : n - y \in Nat
    OBVIOUS
<1>2. U \subseteq Nat /\ U # {}
    BY <1>1
<1>3. PICK u \in U : \A v \in U : u <= v
    BY <1>2, LeastExists
<1>4. PICK x \in T : u = n - x
    BY <1>3
<1>5. ASSUME NEW y \in T
      PROVE  y <= x
    <2>1. n - y \in U
        OBVIOUS
    <2>2. n - x <= n - y
        BY <1>3, <1>4, <2>1
    <2> QED
        BY <2>2
<1> QED
    BY <1>5

\* The statements are numbers.
LEMMA StmtsAreNumbers == Stmts \subseteq Nat \ {0}
<1>1. PICK n \in Nat : Stmts = 1 .. n
    BY ScriptAssumption
<1> QED
    BY <1>1

\* A block goes on with one of its statements.
LEMMA NextInBlock ==
    ASSUME NEW todo, todo \subseteq Stmts, todo # {}
    PROVE  NextIn(todo) \in todo
<1>1. \E s \in todo : \A t \in todo : s <= t
    BY StmtsAreNumbers, LeastExists
<1> QED
    BY <1>1 DEF NextIn

\* The first statement of a kind.
LEMMA FirstUseIs ==
    ASSUME NEW k \in Used
    PROVE  /\ FirstUse(k) \in Stmts /\ Kind[FirstUse(k)] = k
           /\ \A t \in Stmts : Kind[t] = k => FirstUse(k) <= t
<1> DEFINE S == {s \in Stmts : Kind[s] = k}
<1>1. S \subseteq Nat /\ S # {}
    BY StmtsAreNumbers DEF Used
<1>2. \E s \in S : \A t \in S : s <= t
    BY <1>1, LeastExists
<1>3. \E s \in Stmts : Kind[s] = k /\ \A t \in Stmts : Kind[t] = k => s <= t
    BY <1>2
<1> QED
    BY <1>3 DEF FirstUse

\* Each statement stands in a statement of main, the last one up to it.
LEMMA TopIs ==
    ASSUME NEW s \in Stmts
    PROVE  /\ Top(s) \in Children(0)
           /\ Top(s) <= s
           /\ \A u \in Children(0) : u <= s => u <= Top(s)
<1> DEFINE S == {u \in Children(0) : u <= s}
<1>1. 1 \in Stmts
    <2>1. PICK n \in Nat : Stmts = 1 .. n
        BY ScriptAssumption
    <2> QED
        BY <2>1
<1>2. Parent[1] = 0
    <2>1. Parent[1] \in Nat /\ Parent[1] < 1
        BY <1>1, ScriptAssumption
    <2> QED
        BY <2>1
<1>3. s \in Nat \ {0} /\ \A u \in Children(0) : u \in Nat
    BY StmtsAreNumbers DEF Children
<1>4. 1 \in Children(0)
    BY <1>1, <1>2 DEF Children
<1>5. S \subseteq Nat /\ 1 \in S /\ \A u \in S : u <= s
    BY <1>3, <1>4
<1>6. \E r \in S : \A u \in S : u <= r
    BY <1>3, <1>5, GreatestExists
<1>7. \E r \in Children(0) : r <= s /\ \A u \in Children(0) : u <= s => u <= r
    BY <1>6
<1> QED
    BY <1>7 DEF Top

\* A statement of main stands in itself.
LEMMA TopOfTop ==
    ASSUME NEW s \in Children(0)
    PROVE  Top(s) = s
<1>1. s \in Stmts /\ s \in Nat
    BY StmtsAreNumbers DEF Children
<1>2. Top(s) \in Children(0) /\ Top(s) <= s /\ s <= Top(s)
    BY <1>1, TopIs
<1>3. Top(s) \in Nat
    BY <1>2, StmtsAreNumbers DEF Children
<1> QED
    BY <1>1, <1>2, <1>3

\* Main comes to an if no later than to what stands in it.
LEMMA StartIs ==
    ASSUME NEW s \in Stmts
    PROVE  Start(s) \in Nat /\ Start(s) <= Top(s)
<1>1. Top(s) \in Stmts
    BY TopIs DEF Children
<1>2. Top(s) \in Nat
    BY <1>1, StmtsAreNumbers
<1>3. IfOf[Top(s)] # 0 => IfOf[Top(s)] \in Nat /\ IfOf[Top(s)] <= Top(s)
    BY <1>1, ScriptAssumption
<1> QED
    BY <1>2, <1>3 DEF Start

\* A statement in the block of p stands in the same statement of main as p, and in a
\* reaction if p is one or stands in one.
LEMMA BlockOf ==
    ASSUME NEW p \in Stmts, NEW s \in Children(p)
    PROVE  /\ s \in Stmts
           /\ Top(s) = Top(p)
           /\ Kind[p] = "reacton" \/ InReaction(p) => InReaction(s)
<1>1. s \in Stmts /\ Parent[s] = p /\ p < s
    BY ScriptAssumption DEF Children
<1>2. s \in Nat /\ p \in Nat \ {0}
    BY <1>1, StmtsAreNumbers
<1>3. \A u \in Stmts : p < u /\ u < s => p <= Parent[u]
    BY <1>1, ScriptAssumption
<1>4. \A u \in Stmts : Parent[u] \in Nat /\ u \in Nat
    BY ScriptAssumption, StmtsAreNumbers
<1>5. \A u \in Children(0) : u <= s <=> u <= p
    <2> SUFFICES ASSUME NEW u \in Children(0)
                 PROVE  u <= s <=> u <= p
        OBVIOUS
    <2>1. u \in Stmts /\ u \in Nat /\ Parent[u] = 0
        BY <1>4 DEF Children
    <2>2. u # s
        BY <1>1, <1>2, <2>1
    <2>3. ~(p < u /\ u < s)
        BY <1>2, <1>3, <2>1
    <2> QED
        BY <1>1, <1>2, <2>1, <2>2, <2>3
<1>6. Top(s) = Top(p)
    BY <1>5 DEF Top
<1>7. ASSUME NEW r \in Stmts, Kind[r] = "reacton", r = p \/ Inside(p, r)
      PROVE  Inside(s, r)
    <2>1. r <= p /\ r \in Nat
        BY <1>2, <1>4, <1>7 DEF Inside
    <2> SUFFICES ASSUME NEW u \in r + 1 .. s
                 PROVE  Parent[u] >= r
        BY <1>1, <1>2, <2>1 DEF Inside
    <2>2. u \in Stmts
        <3>1. PICK n \in Nat : Stmts = 1 .. n
            BY ScriptAssumption
        <3>2. 1 <= u /\ u <= s /\ s <= n /\ u \in Int
            BY <1>1, <1>2, <2>1, <3>1
        <3>3. u <= n
            BY <1>2, <3>1, <3>2
        <3> QED
            BY <3>1, <3>2, <3>3
    <2>3. CASE u = s
        BY <1>1, <1>2, <2>1, <2>3
    <2>4. CASE p < u /\ u < s
        BY <1>2, <1>3, <1>4, <2>1, <2>2, <2>4
    <2>5. CASE u <= p
        BY <1>2, <1>7, <2>1, <2>5 DEF Inside
    <2> QED
        BY <1>2, <2>1, <2>3, <2>4, <2>5
<1> QED
    BY <1>1, <1>6, <1>7 DEF InReaction

\* The manager that a statement needs is declared before the statement of main that it
\* stands in.
LEMMA DeclaredFirst ==
    ASSUME NEW s \in Stmts
    PROVE  /\ Kind[s] \in Used
           /\ <<"execute", Top(s)>> \in Code => <<"declare", Kind[s]>> \in Earlier[<<"execute", Top(s)>>]
<1>1. Kind[s] \in Used
    BY ScriptAssumption DEF Used, Managers
<1>2. FirstUse(Kind[s]) \in Stmts /\ FirstUse(Kind[s]) <= s
    BY <1>1, FirstUseIs
<1>3. Top(FirstUse(Kind[s])) <= Top(s)
    <2>1. Top(FirstUse(Kind[s])) \in Children(0) /\ Top(FirstUse(Kind[s])) <= FirstUse(Kind[s])
        BY <1>2, TopIs
    <2>2. {Top(FirstUse(Kind[s])), FirstUse(Kind[s]), s} \subseteq Nat
        BY <1>2, <2>1, StmtsAreNumbers DEF Children
    <2>3. Top(FirstUse(Kind[s])) <= s
        BY <1>2, <2>1, <2>2
    <2> QED
        BY <2>1, <2>3, TopIs
<1>4. <<"declare", Kind[s]>> \in Code
    BY <1>1 DEF Code
<1>5. Precedes(<<"declare", Kind[s]>>, <<"execute", Top(s)>>)
    <2>1. Start(FirstUse(Kind[s])) <= Top(FirstUse(Kind[s])) /\ Start(FirstUse(Kind[s])) \in Nat
        BY <1>2, StartIs
    <2>2. Top(FirstUse(Kind[s])) \in Nat /\ Top(s) \in Nat
        BY <1>2, TopIs, StmtsAreNumbers DEF Children
    <2>3. Start(FirstUse(Kind[s])) <= Top(s)
        BY <1>3, <2>1, <2>2
    <2> QED
        BY <2>3 DEF Precedes
<1> QED
    BY <1>1, <1>4, <1>5 DEF Earlier

\* Main executes its statements before it waits, and waits before it destroys.
LEMMA PartsInOrder ==
    /\ \A s \in Children(0), k \in Waited : <<"execute", s>> \in Earlier[<<"wait", k>>]
    /\ \A j \in Waited, k \in Used : <<"wait", j>> \in Earlier[<<"destroy", k>>]
    /\ \A s \in Children(0), k \in Used : <<"execute", s>> \in Earlier[<<"destroy", k>>]
    /\ \A j \in Used, k \in Used : <<"declare", j>> \in Earlier[<<"destroy", k>>]
BY DEF Earlier, Code, Precedes, Destroyed

\* What is declared first is waited for and destroyed last.
LEMMA LastInFirstOut ==
    ASSUME NEW j \in Used, NEW k \in Used, DeclaredBefore(j, k)
    PROVE  /\ <<"destroy", k>> \in Earlier[<<"destroy", j>>]
           /\ j \in Waited /\ k \in Waited => <<"wait", k>> \in Earlier[<<"wait", j>>]
BY DEF Earlier, Code, Precedes, Destroyed, DestroyedBefore, WaitedBefore

-----------------------------------------------------------------------------
(***************************************************************************)
(* The invariant.                                                          *)
(***************************************************************************)

\* What has been started is declared.
LEMMA StartedIsDeclared ==
    ASSUME IInv, NEW s \in Stmts, Started(s)
    PROVE  Did("declare", Kind[s])
<1>1. <<"execute", Top(s)>> \in Code /\ Earlier[<<"execute", Top(s)>>] \subseteq done
    BY DEF IInv, InOrder, Started, Did
<1> QED
    BY <1>1, DeclaredFirst DEF Did

\* A callback's statements have been started, and are no statements of main.
LEMMA CallbacksStarted ==
    ASSUME IInv
    PROVE  /\ \A s \in timerTodo :
                  /\ busy \in pending /\ busy[1] \in Stmts /\ s \in Children(busy[1])
                  /\ Started(s)
           /\ reader = "call" =>
                  /\ reactions[at][1] \in Stmts /\ Kind[reactions[at][1]] = "reacton"
                  /\ \A s \in reactTodo : s \in Children(reactions[at][1]) /\ Started(s)
<1> USE DEF IInv
<1>1. ASSUME NEW s \in timerTodo
      PROVE  /\ busy \in pending /\ busy[1] \in Stmts /\ s \in Children(busy[1])
             /\ Started(s)
    <2>1. busy \in pending /\ s \in Children(busy[1])
        BY <1>1 DEF TimerBlock
    <2>2. busy[1] \in Stmts /\ Started(busy[1])
        BY <2>1 DEF Types, TimersOfStatements
    <2> QED
        BY <2>1, <2>2, BlockOf DEF Started
<1>2. ASSUME reader = "call"
      PROVE  /\ reactions[at][1] \in Stmts /\ Kind[reactions[at][1]] = "reacton"
             /\ \A s \in reactTodo : s \in Children(reactions[at][1]) /\ Started(s)
    <2>1. at \in 1 .. Len(reactions) /\ reactTodo \subseteq Children(reactions[at][1])
        BY <1>2 DEF ReactionBlock, Types
    <2>2. reactions[at] \in Stmts \X Nat
        BY <2>1 DEF Types
    <2>3. reactions[at][1] \in Stmts /\ Started(reactions[at][1]) /\ Kind[reactions[at][1]] = "reacton"
        BY <2>1, <2>2 DEF ReactionsOfStatements
    <2> QED
        BY <2>1, <2>3, BlockOf DEF Started
<1> QED
    BY <1>1, <1>2

\* Main executes nothing once it has completed a wait or a destruction.
LEMMA WaitIsLate ==
    ASSUME IInv, NEW s \in Children(0), NEW k, Did("wait", k) \/ Did("destroy", k)
    PROVE  Did("execute", s)
<1>1. CASE Did("wait", k)
    <2>1. <<"wait", k>> \in Code /\ Earlier[<<"wait", k>>] \subseteq done
        BY <1>1 DEF IInv, InOrder, Did
    <2>2. k \in Waited
        BY <2>1 DEF Code
    <2> QED
        BY <2>1, <2>2, PartsInOrder DEF Did
<1>2. CASE Did("destroy", k)
    <2>1. <<"destroy", k>> \in Code /\ Earlier[<<"destroy", k>>] \subseteq done
        BY <1>2 DEF IInv, InOrder, Did
    <2>2. k \in Used
        BY <2>1 DEF Code, Destroyed
    <2> QED
        BY <2>1, <2>2, PartsInOrder DEF Did
<1> QED
    BY <1>1, <1>2

\* Main has waited for every manager before it destroys one.
LEMMA DestroyIsLater ==
    ASSUME IInv, NEW k, Did("destroy", k), NEW j \in Waited
    PROVE  Did("wait", j)
<1>1. <<"destroy", k>> \in Code /\ Earlier[<<"destroy", k>>] \subseteq done
    BY DEF IInv, InOrder, Did
<1>2. k \in Used
    BY <1>1 DEF Code, Destroyed
<1> QED
    BY <1>1, <1>2, PartsInOrder DEF Did

\* At the start nothing is declared, no timer is pending and no reaction registered.
LEMMA InitIInv == Init => IInv
<1> SUFFICES ASSUME Init
             PROVE  IInv
    OBVIOUS
<1> USE DEF Init, Timer!Init, Reactor!Init, Timer!NotWaiting
<1>1. Types
    BY FS_EmptySet DEF Types
<1>2. InOrder /\ AliveAgrees
    BY DEF InOrder, AliveAgrees, Did
<1>3. TimersOfStatements /\ ReactionsOfStatements /\ TimerBlock /\ ReactionBlock
    BY DEF TimersOfStatements, ReactionsOfStatements, TimerBlock, ReactionBlock
<1>4. ReaderInTime /\ TimersStopped /\ TimersAfterWait
    BY DEF ReaderInTime, TimersStopped, TimersAfterWait, Did
<1> QED
    BY <1>1, <1>2, <1>3, <1>4 DEF IInv

\* Main completes the operation that it has come to.
LEMMA CompletesInOrder ==
    ASSUME InOrder, NEW op, NEW x, At(op, x), Completes(op, x)
    PROVE  InOrder'
BY DEF InOrder, At, Completes

\* One execution of a statement: an instance of it more.
LEMMA Executed ==
    ASSUME Types, NEW s \in Stmts,
           \/ Execute(s, ThreadRegisters(s))
           \/ Execute(s, CallbackRegisters(s))
    PROVE  /\ made' \in [Stmts -> Nat]
           /\ \E n \in Nat :
                \/ /\ Kind[s] = "schedule" /\ pending' = pending \cup {<<s, n>>}
                   /\ UNCHANGED reactions
                \/ /\ Kind[s] = "reacton" /\ reactions' = Append(reactions, <<s, n>>)
                   /\ UNCHANGED pending
                \/ UNCHANGED <<pending, reactions>>
           /\ UNCHANGED <<busy, waiting, phase, reader, at, end>>
<1>1. made[s] + 1 \in Nat
    BY DEF Types
<1>2. made' = [made EXCEPT ![s] = @ + 1]
    BY DEF Execute
<1>3. made' \in [Stmts -> Nat]
    BY <1>1, <1>2 DEF Types
<1>4. CASE Kind[s] = "schedule" /\ Timer!Create(Instance(s), Iterations[s]) /\ UNCHANGED reactVars
    BY <1>1, <1>3, <1>4 DEF Timer!Create, Instance, reactVars
<1>5. CASE /\ Kind[s] = "reacton"
           /\ ThreadRegisters(s) \/ CallbackRegisters(s)
           /\ UNCHANGED timerVars
    BY <1>1, <1>3, <1>5 DEF ThreadRegisters, CallbackRegisters, Instance, Reactor!ThreadRegisters, Reactor!CallbackRegisters,
        Reactor!RegisterReaction, timerVars
<1>6. CASE SendsAlert(s)
    BY <1>3, <1>6 DEF SendsAlert, timerVars, reactVars
<1> QED
    BY <1>4, <1>5, <1>6 DEF Execute

-----------------------------------------------------------------------------
(***************************************************************************)
(* The steps of main.                                                      *)
(***************************************************************************)

\* An operation that has been completed is not completed again.
LEMMA AtIsNew ==
    ASSUME NEW op, NEW x, At(op, x), Completes(op, x)
    PROVE  /\ <<op, x>> \in Code /\ ~Did(op, x) /\ Earlier[<<op, x>>] \subseteq done
           /\ \A q, y : Did(q, y)' <=> Did(q, y) \/ (q = op /\ y = x)
BY DEF At, Completes, Did

\* Main declares a manager.
LEMMA DeclaresIInv == ASSUME IInv, NEW k \in Managers, MainDeclares(k)
                      PROVE  IInv'
<1> USE DEF MainDeclares, timerVars, reactVars
<1>1. /\ <<"declare", k>> \in Code /\ ~Did("declare", k)
      /\ \A q, y : Did(q, y)' <=> Did(q, y) \/ (q = "declare" /\ y = k)
    BY AtIsNew
<1>2. k \in Used
    BY <1>1 DEF Code
<1>3. Types' /\ InOrder'
    BY CompletesInOrder DEF IInv, Types
<1>4. AliveAgrees'
    <2>1. ~Did("destroy", k)
        <3>1. ASSUME Did("destroy", k)
              PROVE  FALSE
            <4>1. Earlier[<<"destroy", k>>] \subseteq done
                BY <3>1 DEF IInv, InOrder, Did
            <4> QED
                BY <1>1, <1>2, <4>1, PartsInOrder DEF Did
        <3> QED
            BY <3>1
    <2> QED
        BY <1>1, <1>2, <2>1 DEF IInv, AliveAgrees
<1>5. TimersOfStatements' /\ ReactionsOfStatements' /\ TimerBlock' /\ ReactionBlock'
    BY <1>1 DEF IInv, TimersOfStatements, ReactionsOfStatements, TimerBlock, ReactionBlock,
        Started
<1>6. ReaderInTime' /\ TimersStopped' /\ TimersAfterWait'
    BY <1>1 DEF IInv, ReaderInTime, TimersStopped, TimersAfterWait
<1> QED
    BY <1>3, <1>4, <1>5, <1>6 DEF IInv

\* Main enters a wait or a destructor.
LEMMA EntersIInv ==
    ASSUME IInv, NEW k \in Managers, MainWaits(k) \/ MainDestroys(k)
    PROVE  IInv'
<1>1. UNCHANGED <<done, alive, made, timerTodo, reactTodo, pending, busy, reactions, at, end, reader>>
    BY DEF MainWaits, MainDestroys, Timer!Wait, Timer!BeginClose, Reactor!WaitForCompletion,
        Reactor!Destroy, timerVars, reactVars, Reactor!registered, Reactor!loop
<1>2. phase # phase' => phase # "closed"
    BY DEF MainWaits, MainDestroys, Timer!Wait, Timer!BeginClose, Reactor!WaitForCompletion,
        Reactor!Destroy, timerVars
<1>3. waiting' \in [{"main"} -> {-1, 0}]
    BY DEF MainWaits, MainDestroys, Timer!Wait, Timer!BeginClose, Reactor!WaitForCompletion,
        Reactor!Destroy, timerVars, IInv, Types
<1>4. Types'
    BY <1>1, <1>3 DEF IInv, Types
<1>5. InOrder' /\ AliveAgrees' /\ TimersOfStatements' /\ ReactionsOfStatements'
    BY <1>1 DEF IInv, InOrder, AliveAgrees, TimersOfStatements, ReactionsOfStatements,
        Started, Did
<1>6. TimerBlock' /\ ReactionBlock' /\ ReaderInTime' /\ TimersAfterWait'
    BY <1>1 DEF IInv, TimerBlock, ReactionBlock, ReaderInTime, TimersAfterWait, Did
<1>7. TimersStopped'
    BY <1>1, <1>2 DEF IInv, TimersStopped, Did
<1> QED
    BY <1>4, <1>5, <1>6, <1>7 DEF IInv

\* Main comes back from a wait: when it has waited for the timers, none is pending.
LEMMA WaitedIInv == ASSUME IInv, NEW k \in Managers, MainWaited(k)
                    PROVE  IInv'
<1>1. /\ <<"wait", k>> \in Code /\ ~Did("wait", k)
      /\ \A q, y : Did(q, y)' <=> Did(q, y) \/ (q = "wait" /\ y = k)
    BY AtIsNew DEF MainWaited
<1>2. UNCHANGED <<alive, made, timerTodo, reactTodo, pending, busy, phase, reactions, at, end, reader>>
    BY DEF MainWaited, Timer!Return, Reactor!Joined, timerVars, reactVars,
        Reactor!registered, Reactor!loop
<1>3. waiting' \in [{"main"} -> {-1, 0}]
    BY DEF MainWaited, Timer!Return, Timer!NotWaiting, Reactor!Joined, timerVars, IInv, Types
<1>4. Types' /\ InOrder'
    BY <1>2, <1>3, CompletesInOrder DEF MainWaited, IInv, Types
<1>5. AliveAgrees' /\ TimersOfStatements' /\ ReactionsOfStatements'
    BY <1>1, <1>2 DEF IInv, AliveAgrees, TimersOfStatements, ReactionsOfStatements, Started
<1>6. TimerBlock' /\ ReactionBlock' /\ TimersStopped'
    BY <1>1, <1>2 DEF IInv, TimerBlock, ReactionBlock, TimersStopped
<1>7. ReaderInTime'
    BY <1>1, <1>2 DEF IInv, ReaderInTime, MainWaited, Reactor!Joined
<1>8. TimersAfterWait'
    <2>1. CASE k = "schedule"
        <3>1. Cardinality(pending) <= waiting["main"] /\ waiting["main"] \in {-1, 0}
            BY <2>1 DEF MainWaited, Timer!Return, IInv, Types
        <3>2. Cardinality(pending) \in Nat
            BY FS_CardinalityType DEF IInv, Types
        <3>3. Cardinality(pending) = 0
            BY <3>1, <3>2
        <3>4. pending = {}
            BY <3>3, FS_EmptySet DEF IInv, Types
        <3> QED
            BY <1>2, <3>4 DEF TimersAfterWait
    <2>2. CASE k # "schedule"
        BY <1>1, <1>2, <2>2 DEF IInv, TimersAfterWait
    <2> QED
        BY <2>1, <2>2
<1> QED
    BY <1>4, <1>5, <1>6, <1>7, <1>8 DEF IInv

\* A manager is gone.
LEMMA DestroyedIInv ==
    ASSUME IInv, NEW k \in Managers, MainDestroyed(k) \/ (k = "alert" /\ MainDropsAlerts)
    PROVE  IInv'
<1> USE DEF MainDestroyed, MainDropsAlerts
<1>1. /\ <<"destroy", k>> \in Code
      /\ \A q, y : Did(q, y)' <=> Did(q, y) \/ (q = "destroy" /\ y = k)
    BY AtIsNew
<1>2. UNCHANGED <<made, timerTodo, reactTodo, pending, busy, waiting, reactions, at, end, reader>>
    BY DEF Timer!EndClose, Reactor!Destroyed, timerVars, reactVars, Reactor!registered,
        Reactor!loop
<1>3. phase' = IF k = "schedule" THEN "closed" ELSE phase
    BY DEF Timer!EndClose, Reactor!Destroyed, timerVars
<1>4. Types' /\ InOrder'
    BY <1>2, CompletesInOrder DEF IInv, Types
<1>5. AliveAgrees'
    BY <1>1 DEF IInv, AliveAgrees
<1>6. TimersOfStatements' /\ ReactionsOfStatements'
    BY <1>1, <1>2 DEF IInv, TimersOfStatements, ReactionsOfStatements, Started
<1>7. TimerBlock' /\ ReactionBlock' /\ ReaderInTime' /\ TimersAfterWait'
    BY <1>1, <1>2 DEF IInv, TimerBlock, ReactionBlock, ReaderInTime, TimersAfterWait
<1>8. TimersStopped'
    BY <1>1, <1>2, <1>3 DEF IInv, TimersStopped, Timer!EndClose
<1> QED
    BY <1>4, <1>5, <1>6, <1>7, <1>8 DEF IInv

-----------------------------------------------------------------------------
(***************************************************************************)
(* The executions of statements, by main and by the callbacks.             *)
(***************************************************************************)

\* Whoever executes it, statement s is started.  When main has waited for the timers, s
\* stands in a reaction, and if main has waited for the reactions before, nobody is left
\* to execute it.
LEMMA ExecutionKeeps ==
    ASSUME IInv, NEW s \in Stmts,
           Execute(s, ThreadRegisters(s)) \/ Execute(s, CallbackRegisters(s)),
           done \subseteq done', Started(s)',
           Did("wait", "schedule")' => Did("wait", "schedule"),
           Did("wait", "schedule") => InReaction(s),
           Did("wait", "schedule") /\ "reacton" \in Used /\ DeclaredBefore("schedule", "reacton")
               => FALSE
    PROVE  /\ made' \in [Stmts -> Nat]
           /\ pending' \subseteq Stmts \X Nat /\ IsFiniteSet(pending')
           /\ reactions' \in Seq(Stmts \X Nat)
           /\ end' \in 0 .. Len(reactions')
           /\ TimersOfStatements' /\ ReactionsOfStatements' /\ TimersAfterWait'
<1> USE DEF IInv
<1>1. PICK n \in Nat :
          \/ /\ Kind[s] = "schedule" /\ pending' = pending \cup {<<s, n>>}
             /\ UNCHANGED reactions
          \/ /\ Kind[s] = "reacton" /\ reactions' = Append(reactions, <<s, n>>)
             /\ UNCHANGED pending
          \/ UNCHANGED <<pending, reactions>>
    BY Executed
<1>2. made' \in [Stmts -> Nat] /\ end' = end
    BY Executed
<1>3. \A r \in Stmts : Started(r) => Started(r)'
    BY DEF Started, Did
<1>4. pending' \subseteq Stmts \X Nat /\ IsFiniteSet(pending')
    <2>1. pending' = pending \cup {<<s, n>>} \/ pending' = pending
        BY <1>1
    <2>2. IsFiniteSet(pending) /\ IsFiniteSet(pending \cup {<<s, n>>})
        BY FS_AddElement DEF Types
    <2>3. IsFiniteSet(pending')
        BY <2>1, <2>2
    <2>4. pending' \subseteq Stmts \X Nat
        BY <2>1 DEF Types
    <2> QED
        BY <2>3, <2>4
<1>5. TimersOfStatements' /\ TimersAfterWait'
    <2>1. \A t \in pending' : t \in pending \/ (t = <<s, n>> /\ Kind[s] = "schedule")
        BY <1>1
    <2>2. TimersOfStatements'
        BY <1>3, <2>1 DEF TimersOfStatements, Types
    <2>3. TimersAfterWait'
        BY <2>1 DEF TimersAfterWait
    <2> QED
        BY <2>2, <2>3
<1>6. /\ reactions' \in Seq(Stmts \X Nat) /\ end' \in 0 .. Len(reactions')
      /\ ReactionsOfStatements'
    <2>1. CASE UNCHANGED reactions
        <3>1. \A i \in 1 .. Len(reactions) : reactions[i][1] \in Stmts
            BY DEF Types
        <3> QED
            BY <1>2, <1>3, <2>1, <3>1 DEF Types, ReactionsOfStatements
    <2>2. CASE Kind[s] = "reacton" /\ reactions' = Append(reactions, <<s, n>>)
        <3>1. /\ reactions' \in Seq(Stmts \X Nat) /\ Len(reactions') = Len(reactions) + 1
              /\ reactions'[Len(reactions) + 1] = <<s, n>>
              /\ \A i \in 1 .. Len(reactions) : reactions'[i] = reactions[i]
            BY <2>2 DEF Types
        <3>2. \A i \in 1 .. Len(reactions') : i \in 1 .. Len(reactions) \/ i = Len(reactions) + 1
            BY <3>1 DEF Types
        <3>3. \A i \in 1 .. Len(reactions) : reactions[i][1] \in Stmts
            BY DEF Types
        <3>4. ReactionsOfStatements'
            BY <1>3, <2>2, <3>1, <3>2, <3>3 DEF ReactionsOfStatements
        <3> QED
            BY <1>2, <3>1, <3>4 DEF Types
    <2> QED
        BY <1>1, <2>1, <2>2
<1> QED
    BY <1>2, <1>4, <1>5, <1>6

\* What is left of a block that is being executed stays in it: its timer is pending and
\* its reaction where it was.
LEMMA BlocksKeep ==
    ASSUME IInv, NEW s \in Stmts,
           Execute(s, ThreadRegisters(s)) \/ Execute(s, CallbackRegisters(s)),
           timerTodo' \subseteq timerTodo, reactTodo' \subseteq reactTodo
    PROVE  TimerBlock' /\ ReactionBlock'
<1> USE DEF IInv
<1>1. PICK n \in Nat :
          \/ /\ Kind[s] = "schedule" /\ pending' = pending \cup {<<s, n>>}
             /\ UNCHANGED reactions
          \/ /\ Kind[s] = "reacton" /\ reactions' = Append(reactions, <<s, n>>)
             /\ UNCHANGED pending
          \/ UNCHANGED <<pending, reactions>>
    BY Executed
<1>2. UNCHANGED <<busy, reader, at, end>>
    BY Executed
<1>3. pending \subseteq pending'
    BY <1>1
<1>4. reader = "call" => reactions'[at] = reactions[at]
    <2>1. reader = "call" => at \in 1 .. Len(reactions)
        BY DEF ReactionBlock, Types
    <2>2. ASSUME at \in 1 .. Len(reactions), reactions' = Append(reactions, <<s, n>>)
          PROVE  reactions'[at] = reactions[at]
        BY <2>2 DEF Types
    <2> QED
        BY <1>1, <2>1, <2>2
<1>5. TimerBlock'
    BY <1>2, <1>3 DEF TimerBlock
<1>6. ReactionBlock'
    BY <1>2, <1>4 DEF ReactionBlock
<1> QED
    BY <1>5, <1>6

\* Main executes a statement of its own.
LEMMA MainExecutesIInv == ASSUME IInv, NEW s \in Stmts, MainExecutes(s)
                          PROVE  IInv'
<1> USE DEF MainExecutes
<1>1. /\ <<"execute", s>> \in Code /\ ~Did("execute", s)
      /\ \A q, y : Did(q, y)' <=> Did(q, y) \/ (q = "execute" /\ y = s)
    BY AtIsNew
<1>2. s \in Children(0) /\ Top(s) = s
    BY <1>1, TopOfTop DEF Code
<1>3. ~Did("wait", "schedule") /\ done \subseteq done' /\ Started(s)'
    BY <1>1, <1>2, WaitIsLate DEF Started, Completes
<1>4. /\ made' \in [Stmts -> Nat]
      /\ pending' \subseteq Stmts \X Nat /\ IsFiniteSet(pending')
      /\ reactions' \in Seq(Stmts \X Nat)
      /\ end' \in 0 .. Len(reactions')
      /\ TimersOfStatements' /\ ReactionsOfStatements' /\ TimersAfterWait'
    BY <1>1, <1>3, ExecutionKeeps
<1>5. UNCHANGED <<busy, waiting, phase, reader, at, end, alive, timerTodo, reactTodo>>
    BY Executed DEF IInv
<1>6. Types' /\ InOrder'
    BY <1>4, <1>5, CompletesInOrder DEF IInv, Types
<1>7. TimerBlock' /\ ReactionBlock'
    BY <1>5, BlocksKeep
<1>8. AliveAgrees' /\ ReaderInTime' /\ TimersStopped'
    BY <1>1, <1>5 DEF IInv, AliveAgrees, ReaderInTime, TimersStopped
<1> QED
    BY <1>4, <1>6, <1>7, <1>8 DEF IInv

\* A timer's callback executes the next statement of its block.
LEMMA TimerExecutesIInv == IInv /\ TimerExecutes => IInv'
<1> SUFFICES ASSUME IInv, TimerExecutes
             PROVE  IInv'
    OBVIOUS
<1> USE DEF TimerExecutes
<1>0. NextIn(timerTodo) \in timerTodo /\ timerTodo \subseteq Stmts
    BY NextInBlock DEF IInv, Types
<1>1. PICK s \in timerTodo : s = NextIn(timerTodo) /\ s \in Stmts
    BY <1>0
<1>2. /\ busy \in pending /\ busy[1] \in Stmts /\ s \in Children(busy[1])
      /\ Started(s)
    BY <1>1, CallbacksStarted
<1>3. Did("wait", "schedule") => InReaction(s)
    BY <1>2, BlockOf DEF IInv, TimersAfterWait
<1>4. Did("wait", "schedule") /\ "reacton" \in Used /\ DeclaredBefore("schedule", "reacton")
          => FALSE
    BY <1>2 DEF IInv, TimersAfterWait
<1>5. UNCHANGED <<done, entered, alive, reactTodo>>
    BY DEF mainVars
<1>6. Started(s)' /\ (Did("wait", "schedule")' <=> Did("wait", "schedule"))
    BY <1>2, <1>5 DEF Started, Did
<1>7. /\ made' \in [Stmts -> Nat]
      /\ pending' \subseteq Stmts \X Nat /\ IsFiniteSet(pending')
      /\ reactions' \in Seq(Stmts \X Nat)
      /\ end' \in 0 .. Len(reactions')
      /\ TimersOfStatements' /\ ReactionsOfStatements' /\ TimersAfterWait'
    BY <1>1, <1>3, <1>4, <1>5, <1>6, ExecutionKeeps
<1>8. UNCHANGED <<busy, waiting, phase, reader, at, end>>
    BY <1>1, Executed DEF IInv
<1>9. timerTodo' \subseteq timerTodo
    OBVIOUS
<1>10. Types' /\ InOrder'
    BY <1>5, <1>7, <1>8, <1>9 DEF IInv, Types, InOrder
<1>11. TimerBlock' /\ ReactionBlock'
    BY <1>1, <1>5, <1>8, <1>9, BlocksKeep
<1>12. AliveAgrees' /\ ReaderInTime' /\ TimersStopped'
    BY <1>5, <1>8 DEF IInv, AliveAgrees, ReaderInTime, TimersStopped, Did
<1> QED
    BY <1>7, <1>10, <1>11, <1>12 DEF IInv

\* A reaction executes the next statement of its block.
LEMMA ReactionExecutesIInv == IInv /\ ReactionExecutes => IInv'
<1> SUFFICES ASSUME IInv, ReactionExecutes
             PROVE  IInv'
    OBVIOUS
<1> USE DEF ReactionExecutes
<1>0. NextIn(reactTodo) \in reactTodo /\ reactTodo \subseteq Stmts
    BY NextInBlock DEF IInv, Types
<1>1. PICK s \in reactTodo : s = NextIn(reactTodo) /\ s \in Stmts
    BY <1>0
<1>2. /\ reactions[at][1] \in Stmts /\ Kind[reactions[at][1]] = "reacton"
      /\ s \in Children(reactions[at][1]) /\ Started(s)
    BY <1>1, CallbacksStarted
<1>3. InReaction(s)
    BY <1>2, BlockOf
<1>4. ASSUME Did("wait", "schedule"), "reacton" \in Used, DeclaredBefore("schedule", "reacton")
      PROVE  FALSE
    <2>1. /\ <<"wait", "schedule">> \in Code
          /\ Earlier[<<"wait", "schedule">>] \subseteq done
        BY <1>4 DEF IInv, InOrder, Did
    <2>2. "schedule" \in Waited /\ "schedule" \in Used /\ "reacton" \in Waited
        BY <1>4, <2>1 DEF Code, Waited
    <2>3. Did("wait", "reacton")
        BY <1>4, <2>1, <2>2, LastInFirstOut DEF Did
    <2> QED
        BY <2>3 DEF IInv, ReaderInTime
<1>5. UNCHANGED <<done, entered, alive, timerTodo>>
    BY DEF mainVars
<1>6. Started(s)' /\ (Did("wait", "schedule")' <=> Did("wait", "schedule"))
    BY <1>2, <1>5 DEF Started, Did
<1>7. /\ made' \in [Stmts -> Nat]
      /\ pending' \subseteq Stmts \X Nat /\ IsFiniteSet(pending')
      /\ reactions' \in Seq(Stmts \X Nat)
      /\ end' \in 0 .. Len(reactions')
      /\ TimersOfStatements' /\ ReactionsOfStatements' /\ TimersAfterWait'
    BY <1>1, <1>3, <1>4, <1>5, <1>6, ExecutionKeeps
<1>8. UNCHANGED <<busy, waiting, phase, reader, at, end>>
    BY <1>1, Executed DEF IInv
<1>9. reactTodo' \subseteq reactTodo
    OBVIOUS
<1>10. Types' /\ InOrder'
    BY <1>5, <1>7, <1>8, <1>9 DEF IInv, Types, InOrder
<1>11. TimerBlock' /\ ReactionBlock'
    BY <1>1, <1>5, <1>8, <1>9, BlocksKeep
<1>12. AliveAgrees' /\ ReaderInTime' /\ TimersStopped'
    BY <1>5, <1>8 DEF IInv, AliveAgrees, ReaderInTime, TimersStopped, Did
<1> QED
    BY <1>7, <1>10, <1>11, <1>12 DEF IInv

\* Main or a callback passes over a statement.
LEMMA PassesIInv ==
    ASSUME IInv, TimerPasses \/ ReactionPasses \/ \E s \in Stmts : MainPasses(s)
    PROVE  IInv'
<1>1. UNCHANGED <<timerVars, reactVars, made, alive, entered>>
    BY DEF TimerPasses, ReactionPasses, MainPasses, PassesOver, mainVars
<1>2. /\ UNCHANGED <<pending, busy, waiting, phase, reactions, reader, at, end, made, alive>>
    BY <1>1 DEF timerVars, reactVars
<1>3. timerTodo' \subseteq timerTodo /\ reactTodo' \subseteq reactTodo
    BY DEF TimerPasses, ReactionPasses, MainPasses
<1>4. \A q, y : q # "execute" => (Did(q, y)' <=> Did(q, y))
    BY DEF TimerPasses, ReactionPasses, MainPasses, mainVars, Completes, Did
<1>5. done \subseteq done'
    BY DEF TimerPasses, ReactionPasses, MainPasses, mainVars, Completes
<1>6. InOrder'
    <2>1. CASE done' = done
        BY <2>1 DEF IInv, InOrder
    <2>2. CASE \E s \in Stmts : MainPasses(s)
        BY <2>2, CompletesInOrder DEF IInv, MainPasses
    <2> QED
        BY <2>1, <2>2 DEF TimerPasses, ReactionPasses, mainVars
<1>7. Types'
    BY <1>2, <1>3 DEF IInv, Types
<1>8. TimersOfStatements' /\ ReactionsOfStatements'
    <2>1. \A r : Started(r) => Started(r)'
        BY <1>5 DEF Started, Did
    <2> QED
        BY <1>2, <2>1 DEF IInv, TimersOfStatements, ReactionsOfStatements
<1>9. TimerBlock' /\ ReactionBlock'
    BY <1>2, <1>3 DEF IInv, TimerBlock, ReactionBlock
<1>10. AliveAgrees' /\ ReaderInTime' /\ TimersStopped' /\ TimersAfterWait'
    BY <1>2, <1>4 DEF IInv, AliveAgrees, ReaderInTime, TimersStopped, TimersAfterWait
<1> QED
    BY <1>6, <1>7, <1>8, <1>9, <1>10 DEF IInv

-----------------------------------------------------------------------------
(***************************************************************************)
(* The worker and the reader.                                              *)
(***************************************************************************)

\* A timer's callback begins or ends.
LEMMA TimerIInv ==
    ASSUME IInv, TimerEnds \/ \E t \in Timers : TimerBegins(t)
    PROVE  IInv'
<1>1. UNCHANGED <<done, alive, made, reactTodo, waiting, phase, reactions, at, end, reader>>
    BY DEF TimerEnds, TimerBegins, Timer!End, Timer!Begin, reactVars, mainVars
<1>2. /\ pending' \subseteq pending /\ IsFiniteSet(pending')
      /\ timerTodo' \subseteq Stmts
      /\ TimerBlock'
    <2>1. CASE TimerEnds
        <3>1. pending' = pending \ {busy} \/ pending' = pending
            BY <2>1 DEF TimerEnds, Timer!End
        <3>2. IsFiniteSet(pending) /\ IsFiniteSet(pending \ {busy})
            BY FS_RemoveElement DEF IInv, Types
        <3>3. IsFiniteSet(pending')
            BY <3>1, <3>2
        <3> QED
            BY <2>1, <3>1, <3>3 DEF TimerEnds, Timer!End, TimerBlock, IInv, Types
    <2>2. ASSUME NEW t \in Timers, TimerBegins(t)
          PROVE  /\ pending' \subseteq pending /\ IsFiniteSet(pending')
                 /\ timerTodo' \subseteq Stmts
                 /\ TimerBlock'
        <3>1. t \in pending /\ busy' = t /\ pending' = pending /\ timerTodo' = Children(t[1])
            BY <2>2 DEF TimerBegins, Timer!Begin
        <3>2. t # None
            BY <3>1, ScriptAssumption DEF IInv, Types
        <3> QED
            BY <3>1, <3>2 DEF IInv, Types, TimerBlock, Children
    <2> QED
        BY <2>1, <2>2
<1>3. Types' /\ InOrder' /\ AliveAgrees'
    BY <1>1, <1>2 DEF IInv, Types, InOrder, AliveAgrees, Did
<1>4. TimersOfStatements' /\ ReactionsOfStatements' /\ ReactionBlock'
    BY <1>1, <1>2 DEF IInv, TimersOfStatements, ReactionsOfStatements, ReactionBlock,
        Started, Did
<1>5. ReaderInTime' /\ TimersAfterWait'
    BY <1>1, <1>2 DEF IInv, ReaderInTime, TimersAfterWait, Did
<1>6. TimersStopped'
    BY <1>1 DEF IInv, TimersStopped, Did, TimerEnds, TimerBegins, Timer!End, Timer!Begin
<1> QED
    BY <1>2, <1>3, <1>4, <1>5, <1>6 DEF IInv

\* What the reader does, but for the statements of a reaction.
ReaderStep == ReactionBegins \/ ReactionEnds \/ ReaderMoves \/ StreamEnds

\* The reader keeps the invariant, wherever it crashes.
LEMMA ReaderIInv == ASSUME IInv, ReaderStep
                    PROVE  IInv'
<1> USE DEF ReaderStep, ReactionBegins, ReactionEnds, ReaderMoves, StreamEnds,
        Reactor!CallsReaction, Reactor!CallbackReturns, Reactor!ReadsUpdate,
        Reactor!ReadFails, Reactor!SkipsExhausted, Reactor!Decides, Reactor!Finishes,
        Reactor!Crashes, Reactor!UsesFreedElement, Reactor!StreamEnds, Reactor!registered,
        Reactor!loop, Reactor!history, Reactor!NextElement
<1>1. UNCHANGED <<done, alive, made, timerTodo, pending, busy, waiting, phase, reactions>>
    BY DEF timerVars, mainVars
<1>2. /\ at' \in Nat \ {0} /\ end' \in 0 .. Len(reactions)
      /\ reader' \in {"read", "scan", "call", "finish", "gone", "crashed"}
      /\ reactTodo' \subseteq Stmts
    BY DEF IInv, Types, Children
<1>3. ReactionBlock'
    <2>1. CASE ReactionBegins
        BY <2>1 DEF ReactionBlock
    <2>2. CASE ReactionEnds
        BY <2>2 DEF ReactionBlock
    <2>3. CASE ReaderMoves
        BY <2>3 DEF IInv, ReactionBlock
    <2>4. CASE StreamEnds
        BY <2>4 DEF IInv, ReactionBlock
    <2> QED
        BY <2>1, <2>2, <2>3, <2>4
<1>4. ReaderInTime'
    <2>1. reader' # reader => reader # "gone"
        OBVIOUS
    <2>2. reader = "read" /\ reader' # "read" => "reacton" \in alive
        OBVIOUS
    <2>3. "reacton" \in alive => Did("declare", "reacton")
        BY DEF IInv, AliveAgrees
    <2> QED
        BY <1>1, <2>1, <2>2, <2>3 DEF IInv, ReaderInTime, Did
<1>5. Types' /\ InOrder' /\ AliveAgrees'
    BY <1>1, <1>2 DEF IInv, Types, InOrder, AliveAgrees, Did
<1>6. TimersOfStatements' /\ ReactionsOfStatements' /\ TimerBlock'
    BY <1>1 DEF IInv, TimersOfStatements, ReactionsOfStatements, TimerBlock, Started, Did
<1>7. TimersStopped' /\ TimersAfterWait'
    BY <1>1 DEF IInv, TimersStopped, TimersAfterWait, Did
<1> QED
    BY <1>3, <1>4, <1>5, <1>6, <1>7 DEF IInv

\* Every step of main, of the worker, of the reader and of the stream preserves it.
LEMMA StepIInv == IInv /\ [Next]_vars => IInv'
<1> SUFFICES ASSUME IInv, [Next]_vars
             PROVE  IInv'
    OBVIOUS
<1>1. CASE UNCHANGED vars
    BY <1>1 DEF vars, timerVars, reactVars, mainVars, IInv, Types, InOrder, AliveAgrees,
        TimersOfStatements, ReactionsOfStatements, TimerBlock, ReactionBlock, ReaderInTime,
        TimersStopped, TimersAfterWait, Started, Did
<1>2. CASE MainStep
    <2>1. ASSUME NEW k \in Managers, MainDeclares(k) \/ MainWaits(k) \/ MainWaited(k)
                                     \/ MainDestroys(k) \/ MainDestroyed(k)
          PROVE  IInv'
        BY <2>1, DeclaresIInv, EntersIInv, WaitedIInv, DestroyedIInv
    <2>2. ASSUME MainDropsAlerts
          PROVE  IInv'
        BY <2>2, DestroyedIInv DEF Managers
    <2>3. ASSUME NEW s \in Stmts, MainExecutes(s)
          PROVE  IInv'
        BY <2>3, MainExecutesIInv
    <2>4. ASSUME NEW s \in Stmts, MainPasses(s)
          PROVE  IInv'
        BY <2>4, PassesIInv
    <2> QED
        BY <1>2, <2>1, <2>2, <2>3, <2>4 DEF MainStep
<1>3. CASE TimerEnds \/ \E t \in Timers : TimerBegins(t)
    BY <1>3, TimerIInv
<1>4. CASE TimerExecutes \/ ReactionExecutes
    BY <1>4, TimerExecutesIInv, ReactionExecutesIInv
<1>5. CASE ReaderStep
    BY <1>5, ReaderIInv
<1>6. CASE TimerPasses \/ ReactionPasses
    BY <1>6, PassesIInv
<1> QED
    BY <1>1, <1>2, <1>3, <1>4, <1>5, <1>6 DEF Next, ReaderStep

\* The invariant holds in every state of every behaviour.
THEOREM Invariance == Spec => []IInv
BY InitIInv, StepIInv, PTL DEF Spec

-----------------------------------------------------------------------------
(***************************************************************************)
(* What follows for the script.                                            *)
(***************************************************************************)

\* No callback comes to a statement whose manager is not there, whatever the script: the
\* exception is an alert of a timer that a reaction has created.
THEOREM ManagersOutliveCallbacks == Spec => []NoUseAfterDestroy
<1>1. IInv => NoUseAfterDestroy
    <2> SUFFICES ASSUME IInv, reader # "crashed"
                 PROVE  /\ \A s \in timerTodo \cup reactTodo :
                              \/ Kind[s] \in alive
                              \/ Kind[s] = "alert" /\ s \in timerTodo /\ InReaction(s)
                        /\ busy # None => "schedule" \in alive
                        /\ reader # "read" => "reacton" \in alive \/ reader = "gone"
        BY DEF NoUseAfterDestroy
    <2>1. \A k \in Used : Did("declare", k) /\ ~Did("destroy", k) => k \in alive
        BY DEF IInv, AliveAgrees
    <2>2. busy # None => "schedule" \in alive
        <3> SUFFICES ASSUME busy # None
                     PROVE  "schedule" \in alive
            OBVIOUS
        <3>1. busy[1] \in Stmts /\ Started(busy[1]) /\ Kind[busy[1]] = "schedule"
            BY DEF IInv, TimerBlock, Types, TimersOfStatements
        <3>2. "schedule" \in Used /\ Did("declare", "schedule")
            BY <3>1, DeclaredFirst, StartedIsDeclared
        <3> QED
            BY <2>1, <3>2 DEF IInv, TimersStopped
    <2>3. reader # "read" => "reacton" \in alive \/ reader = "gone"
        <3> SUFFICES ASSUME reader # "read", reader # "gone"
                     PROVE  "reacton" \in alive
            OBVIOUS
        <3>1. "reacton" \in Used /\ Did("declare", "reacton")
            BY DEF IInv, ReaderInTime, InOrder, Did, Code
        <3>2. ~Did("destroy", "reacton")
            BY <3>1, DestroyIsLater DEF Waited, IInv, ReaderInTime
        <3> QED
            BY <2>1, <3>1, <3>2
    <2>4. ASSUME NEW s \in timerTodo
          PROVE  \/ Kind[s] \in alive
                 \/ Kind[s] = "alert" /\ s \in timerTodo /\ InReaction(s)
        <3>1. /\ busy \in pending /\ busy[1] \in Stmts /\ s \in Children(busy[1])
              /\ s \in Stmts /\ Started(s)
            BY CallbacksStarted DEF IInv, Types
        <3>2. Kind[s] \in Used /\ Did("declare", Kind[s])
            BY <3>1, DeclaredFirst, StartedIsDeclared
        <3>3. Kind[s] \in {"schedule", "reacton", "alert"} /\ "schedule" \in Used
            BY <3>1, ScriptAssumption, DeclaredFirst DEF IInv, TimersOfStatements
        <3>4. busy # None
            BY <3>1 DEF IInv, TimerBlock
        <3>5. CASE Kind[s] = "schedule"
            BY <2>2, <3>4, <3>5
        <3>6. CASE Kind[s] = "alert"
            <4>1. ASSUME Did("destroy", "alert")
                  PROVE  InReaction(s)
                <5>1. Did("wait", "schedule")
                    BY <3>3, <4>1, DestroyIsLater DEF Waited
                <5> QED
                    BY <3>1, <5>1, BlockOf DEF IInv, TimersAfterWait
            <4> QED
                BY <2>1, <3>2, <3>6, <4>1
        <3>7. CASE Kind[s] = "reacton"
            <4>1. ASSUME Did("destroy", "reacton")
                  PROVE  FALSE
                <5>1. CASE DeclaredBefore("reacton", "schedule")
                    <6>1. Earlier[<<"destroy", "reacton">>] \subseteq done
                        BY <4>1 DEF IInv, InOrder, Did
                    <6>2. Did("destroy", "schedule")
                        BY <3>2, <3>3, <3>7, <5>1, <6>1, LastInFirstOut DEF Did
                    <6> QED
                        BY <3>4, <6>2 DEF IInv, TimersStopped
                <5>2. CASE DeclaredBefore("schedule", "reacton")
                    <6>1. Did("wait", "schedule")
                        BY <3>3, <4>1, DestroyIsLater DEF Waited
                    <6> QED
                        BY <3>1, <3>2, <3>7, <5>2, <6>1 DEF IInv, TimersAfterWait
                <5>3. DeclaredBefore("reacton", "schedule") \/ DeclaredBefore("schedule", "reacton")
                    <6>1. "reacton" \in Used /\ "schedule" \in Used
                        BY <3>2, <3>3, <3>7
                    <6>2. FirstUse("reacton") # FirstUse("schedule")
                        BY <6>1, FirstUseIs
                    <6>3. FirstUse("reacton") \in Nat /\ FirstUse("schedule") \in Nat
                        BY <6>1, FirstUseIs, StmtsAreNumbers
                    <6> QED
                        BY <6>2, <6>3 DEF DeclaredBefore
                <5> QED
                    BY <5>1, <5>2, <5>3
            <4> QED
                BY <2>1, <3>2, <3>7, <4>1
        <3> QED
            BY <3>3, <3>5, <3>6, <3>7
    <2>5. ASSUME NEW s \in reactTodo
          PROVE  Kind[s] \in alive
        <3>1. reader = "call"
            BY DEF IInv, ReactionBlock
        <3>2. s \in Stmts /\ Started(s) /\ Kind[reactions[at][1]] = "reacton" /\ reactions[at][1] \in Stmts
            BY <3>1, CallbacksStarted DEF IInv, Types
        <3>3. Kind[s] \in Used /\ Did("declare", Kind[s]) /\ "reacton" \in Waited
            BY <3>2, DeclaredFirst, StartedIsDeclared DEF Waited
        <3>4. ~Did("destroy", Kind[s])
            BY <3>1, <3>3, DestroyIsLater DEF IInv, ReaderInTime
        <3> QED
            BY <2>1, <3>3, <3>4
    <2> QED
        BY <2>2, <2>3, <2>4, <2>5
<1> QED
    BY Invariance, <1>1, PTL

\* When main returns, the reader and the worker are gone and no callback is running.
THEOREM NothingIsLeftRunning == Spec => []ExitIsClean
<1>1. IInv => ExitIsClean
    <2> SUFFICES ASSUME IInv, done = Code
                 PROVE  /\ busy = None
                        /\ "reacton" \in Used => reader = "gone"
                        /\ "schedule" \in Used => phase = "closed"
        BY DEF ExitIsClean, Exited
    <2>1. \A k \in Used : Did("destroy", k)
        BY DEF Did, Code, Destroyed
    <2>2. "reacton" \in Used => Did("wait", "reacton")
        BY DEF Did, Code, Waited
    <2>3. "schedule" \in Used => phase = "closed" /\ busy = None
        BY <2>1 DEF IInv, TimersStopped
    <2>4. ASSUME busy # None
          PROVE  "schedule" \in Used
        <3>1. busy[1] \in Stmts /\ Kind[busy[1]] = "schedule"
            BY <2>4 DEF IInv, TimerBlock, Types, TimersOfStatements
        <3> QED
            BY <3>1, DeclaredFirst
    <2> QED
        BY <2>2, <2>3, <2>4 DEF IInv, ReaderInTime
<1> QED
    BY Invariance, <1>1, PTL

-----------------------------------------------------------------------------
(***************************************************************************)
(* How often the statements are executed.                                  *)
(***************************************************************************)

\* The runs that the instances of p owe: <<instance, run>>.
Runs(p) == (1 .. made[p]) \X (1 .. Iterations[p])

\* The run of a reaction that has begun and is not counted yet.
Calling(r) == IF reader = "call" /\ reactions[at] = r THEN 1 ELSE 0

\* Those that have begun: a timer counts them down, a reaction up.
Begun(p) == {q \in Runs(p) :
    IF Kind[p] = "schedule"
    THEN q[2] > left[<<p, q[1]>>]
    ELSE q[2] <= current_count[<<p, q[1]>>] + Calling(<<p, q[1]>>)}

\* Has a callback that is running still to execute it?
Todo(c) == IF c \in timerTodo \cup reactTodo THEN 1 ELSE 0

InstancesMade ==
    /\ \A t \in pending : t[2] \in 1 .. made[t[1]]
    /\ \A i \in 1 .. Len(reactions) : reactions[i][2] \in 1 .. made[reactions[i][1]]

\* A timer is asked for no more runs than the script says, and finished without any left.
TimersCounted == \A p \in Stmts : Kind[p] = "schedule" =>
    \A i \in 1 .. made[p] :
        /\ left[<<p, i>>] \in 0 .. Iterations[p]
        /\ <<p, i>> \notin pending => left[<<p, i>>] = 0

ReactionsCounted ==
    /\ \A p \in Stmts : Kind[p] = "reacton" =>
           \A i \in 1 .. made[p] : max_count[<<p, i>>] = Iterations[p]
    /\ \A r \in Reactions : r[2] > made[r[1]] => current_count[r] = 0

\* A statement that was come to n times has been executed so often, or less in an if.
Agrees(c, m, n) == m <= n /\ (IfOf[c] = 0 => m = n)

TopsOnce == \A c \in Children(0) : Agrees(c, made[c], IF Did("execute", c) THEN 1 ELSE 0)

\* Every run of a block that has begun has executed a statement of the block, or has still
\* to execute it, or has passed over it.
BlocksCounted == \A p \in Stmts : \A c \in Children(p) :
    Agrees(c, made[c] + Todo(c), Cardinality(Begun(p)))

Counts ==
    /\ left \in [Timers -> Nat]
    /\ max_count \in [Reactions -> Nat]
    /\ current_count \in [Reactions -> Nat]
    /\ InstancesMade
    /\ TimersCounted
    /\ ReactionsCounted
    /\ TopsOnce
    /\ BlocksCounted

\* A statement is never executed more often than the script says.
NeverTooOften == \A s \in Stmts : made[s] <= Executions[s]

\* A statement that does not stand in main stands in a block of an earlier one.
LEMMA ParentIs ==
    ASSUME NEW s \in Stmts, Parent[s] # 0
    PROVE  Parent[s] \in Stmts /\ Parent[s] < s /\ s \in Children(Parent[s])
<1>1. PICK n \in Nat : Stmts = 1 .. n
    BY ScriptAssumption
<1>2. Parent[s] \in Nat /\ Parent[s] < s
    BY ScriptAssumption
<1>3. Parent[s] \in Stmts
    BY <1>1, <1>2
<1> QED
    BY <1>2, <1>3 DEF Children

\* The recursion by which Executions is defined has a solution.
LEMMA ExecutionsExist ==
    \E f \in [Stmts -> Nat] : \A s \in Stmts :
        f[s] = IF Parent[s] = 0 THEN 1 ELSE f[Parent[s]] * Iterations[Parent[s]]
<1> DEFINE
    Solves(f, n) == f \in [1 .. n -> Nat] /\ \A s \in 1 .. n :
        f[s] = IF Parent[s] = 0 THEN 1 ELSE f[Parent[s]] * Iterations[Parent[s]]
<1>1. PICK N \in Nat : Stmts = 1 .. N
    BY ScriptAssumption
<1>2. \A s \in 1 .. N : Parent[s] \in Nat /\ Parent[s] < s
    BY <1>1, ScriptAssumption
<1>3. \A s \in 1 .. N : Iterations[s] \in Nat
    BY <1>1, ScriptAssumption
<1> DEFINE T == {n \in 0 .. N : \A f : ~Solves(f, n)}
<1>4. T = {}
    <2> SUFFICES ASSUME T # {}
                 PROVE  FALSE
        OBVIOUS
    <2>1. T \subseteq Nat
        OBVIOUS
    <2> HIDE DEF Solves
    <2>2. PICK m \in T : \A n \in T : m <= n
        BY <2>1, LeastExists
    <2>3. m \in 0 .. N /\ \A f : ~Solves(f, m)
        OBVIOUS
    <2>4. m # 0
        <3>1. Solves([x \in 1 .. 0 |-> 0], 0)
            BY DEF Solves
        <3> QED
            BY <2>3, <3>1
    <2>5. m - 1 \in 0 .. N /\ m - 1 \notin T
        BY <2>1, <2>2, <2>3, <2>4
    <2>6. PICK f : Solves(f, m - 1)
        BY <2>5
    <2> DEFINE
        next == IF Parent[m] = 0 THEN 1 ELSE f[Parent[m]] * Iterations[Parent[m]]
        g == [s \in 1 .. m |-> IF s = m THEN next ELSE f[s]]
    <2>7. next \in Nat
        <3>1. CASE Parent[m] = 0
            BY <3>1
        <3>2. CASE Parent[m] # 0
            <4>1. Parent[m] \in 1 .. m - 1 /\ Parent[m] \in 1 .. N
                BY <1>1, <1>2, <2>3, <2>4, <3>2
            <4>2. f[Parent[m]] \in Nat /\ Iterations[Parent[m]] \in Nat
                BY <1>3, <2>6, <4>1 DEF Solves
            <4>3. \A i, j \in Nat : i * j \in Nat
                OBVIOUS
            <4> QED
                BY <3>2, <4>2, <4>3
        <3> QED
            BY <3>1, <3>2
    <2> HIDE DEF next
    <2>8. ASSUME NEW s \in 1 .. m
          PROVE  /\ g[s] \in Nat
                 /\ g[s] = IF Parent[s] = 0 THEN 1 ELSE g[Parent[s]] * Iterations[Parent[s]]
        <3>1. s \in 1 .. N /\ (Parent[s] # 0 => Parent[s] \in 1 .. m - 1 /\ Parent[s] \in 1 .. s - 1)
            BY <1>1, <1>2, <2>3
        <3>2. Parent[s] # 0 => g[Parent[s]] = f[Parent[s]]
            BY <2>3, <3>1
        <3>3. CASE s = m
            BY <2>7, <3>2, <3>3 DEF next
        <3>4. CASE s # m
            <4>1. s \in 1 .. m - 1 /\ g[s] = f[s]
                BY <2>3, <3>4
            <4>2. f[s] \in Nat /\ f[s] = IF Parent[s] = 0 THEN 1 ELSE f[Parent[s]] * Iterations[Parent[s]]
                BY <2>6, <4>1 DEF Solves
            <4> QED
                BY <3>2, <4>1, <4>2
        <3> QED
            BY <3>3, <3>4
    <2>9. g \in [1 .. m -> Nat]
        BY <2>8
    <2> HIDE DEF g
    <2>10. Solves(g, m)
        BY <2>8, <2>9 DEF Solves
    <2> QED
        BY <2>3, <2>10
<1>5. N \in 0 .. N
    BY <1>1
<1> HIDE DEF Solves
<1>6. PICK f : Solves(f, N)
    BY <1>4, <1>5
<1> QED
    BY <1>1, <1>6 DEF Solves

\* A statement of main is executed once, one in a block as often as all its runs together.
LEMMA ExecutionsAre ==
    /\ Executions \in [Stmts -> Nat]
    /\ \A s \in Stmts :
           Executions[s] = IF Parent[s] = 0 THEN 1 ELSE Executions[Parent[s]] * Iterations[Parent[s]]
<1>1. PICK f \in [Stmts -> Nat] : \A s \in Stmts :
          f[s] = IF Parent[s] = 0 THEN 1 ELSE f[Parent[s]] * Iterations[Parent[s]]
    BY ExecutionsExist
<1>2. f = [s \in Stmts |-> IF Parent[s] = 0 THEN 1 ELSE f[Parent[s]] * Iterations[Parent[s]]]
    BY <1>1
<1>3. Executions = [s \in Stmts |->
          IF Parent[s] = 0 THEN 1 ELSE Executions[Parent[s]] * Iterations[Parent[s]]]
    BY <1>2 DEF Executions
<1> DEFINE T == {s \in Stmts : Executions[s] \notin Nat}
<1>4. T = {}
    <2> SUFFICES ASSUME T # {}
                 PROVE  FALSE
        OBVIOUS
    <2>1. PICK m \in T : \A s \in T : m <= s
        BY LeastExists, StmtsAreNumbers
    <2>2. Parent[m] # 0
        BY <1>3
    <2>3. Parent[m] \in Stmts /\ Parent[m] < m /\ Iterations[Parent[m]] \in Nat
        BY <2>2, ParentIs, ScriptAssumption
    <2>4. Parent[m] \in Nat /\ m \in Nat
        BY <2>3, StmtsAreNumbers
    <2>5. Executions[Parent[m]] \in Nat
        BY <2>1, <2>3, <2>4
    <2>6. \A i, j \in Nat : i * j \in Nat
        OBVIOUS
    <2> QED
        BY <1>3, <2>2, <2>3, <2>5, <2>6
<1> QED
    BY <1>3, <1>4

Plain(s) == ~InReaction(s)

\* A statement that stands in a block but in no reaction stands in a Schedule's.
LEMMA PlainParent ==
    ASSUME NEW p \in Stmts, NEW c \in Children(p), Plain(c)
    PROVE  /\ c \in Stmts /\ c # p /\ Parent[c] = p /\ p # 0
           /\ Plain(p) /\ Kind[p] = "schedule"
           /\ Iterations[p] \in Nat
<1>1. c \in Stmts /\ Plain(p) /\ Kind[p] # "reacton"
    BY BlockOf DEF Plain
<1>2. Parent[c] = p /\ Parent[c] < c /\ c \in Nat /\ p \in Nat /\ p # 0
    BY <1>1, ScriptAssumption, StmtsAreNumbers DEF Children
<1>3. Kind[p] \in {"schedule", "reacton", "alert"} /\ Kind[p] # "alert"
    BY <1>1, <1>2, ScriptAssumption
<1> QED
    BY <1>1, <1>2, <1>3, ScriptAssumption

\* Facts about numbers.
LEMMA Times ==
    /\ \A i, j \in Nat : i * j \in Nat
    /\ \A i, j, k \in Nat : i <= j => i * k <= j * k
OBVIOUS

\* The instances of p owe a run each for each of its iterations.
LEMMA RunsAre ==
    ASSUME Types, NEW p \in Stmts
    PROVE  /\ IsFiniteSet(Runs(p))
           /\ Cardinality(Runs(p)) = made[p] * Iterations[p]
<1>1. 1 \in Int /\ made[p] \in Nat /\ Iterations[p] \in Nat
    BY ScriptAssumption DEF Types
<1>2. \A n \in Nat : IsFiniteSet(1 .. n) /\ Cardinality(1 .. n) = n
    <2> SUFFICES ASSUME NEW n \in Nat
                 PROVE  IsFiniteSet(1 .. n) /\ Cardinality(1 .. n) = n
        OBVIOUS
    <2>1. 1 \in Int /\ n \in Int
        OBVIOUS
    <2>2. /\ IsFiniteSet(1 .. n)
          /\ Cardinality(1 .. n) = IF 1 > n THEN 0 ELSE n - 1 + 1
        BY <2>1, FS_Interval
    <2> QED
        BY <2>2
<1>3. /\ IsFiniteSet(1 .. made[p]) /\ Cardinality(1 .. made[p]) = made[p]
      /\ IsFiniteSet(1 .. Iterations[p]) /\ Cardinality(1 .. Iterations[p]) = Iterations[p]
    BY <1>1, <1>2
<1> QED
    BY <1>3, FS_Product DEF Runs

\* Those that have begun are some of them.
LEMMA BegunAre ==
    ASSUME Types, NEW p \in Stmts
    PROVE  /\ IsFiniteSet(Begun(p)) /\ Cardinality(Begun(p)) \in Nat
           /\ Cardinality(Begun(p)) <= made[p] * Iterations[p]
<1>1. /\ IsFiniteSet(Runs(p))
      /\ Cardinality(Runs(p)) = made[p] * Iterations[p]
    BY RunsAre
<1>2. Begun(p) \subseteq Runs(p)
    BY DEF Begun
<1>3. IsFiniteSet(Begun(p)) /\ Cardinality(Begun(p)) <= Cardinality(Runs(p))
    BY <1>1, <1>2, FS_Subset
<1> QED
    BY <1>1, <1>3, FS_CardinalityType

\* What a callback has still to execute stands in a block, a timer's in that of a Schedule,
\* a reaction's in that of a ReactOn.
LEMMA TodoStands ==
    ASSUME IInv, reader # "crashed"
    PROVE  /\ \A c \in timerTodo : \E p \in Stmts : c \in Children(p) /\ Kind[p] = "schedule"
           /\ \A c \in reactTodo : \E p \in Stmts : c \in Children(p) /\ Kind[p] = "reacton"
<1>1. ASSUME NEW c \in timerTodo
      PROVE  \E p \in Stmts : c \in Children(p) /\ Kind[p] = "schedule"
    <2>1. busy \in pending /\ busy[1] \in Stmts /\ c \in Children(busy[1])
        BY CallbacksStarted
    <2> QED
        BY <2>1 DEF IInv, TimersOfStatements
<1>2. ASSUME NEW c \in reactTodo
      PROVE  \E p \in Stmts : c \in Children(p) /\ Kind[p] = "reacton"
    <2>1. reader = "call"
        BY DEF IInv, ReactionBlock
    <2> QED
        BY <2>1, CallbacksStarted
<1> QED
    BY <1>1, <1>2

\* No statement is executed more often than the script says, what is to be executed at once
\* included.
LEMMA Bounded ==
    ASSUME IInv, Counts, reader # "crashed"
    PROVE  \A s \in Stmts : made[s] + Todo(s) <= Executions[s]
<1> DEFINE T == {s \in Stmts : ~(made[s] + Todo(s) <= Executions[s])}
<1> SUFFICES ASSUME T # {}
             PROVE  FALSE
    OBVIOUS
<1>1. PICK s \in T : \A r \in T : s <= r
    BY LeastExists, StmtsAreNumbers
<1>2. /\ s \in Stmts /\ made[s] \in Nat /\ Todo(s) \in {0, 1}
      /\ Executions[s] \in Nat
    BY <1>1, ExecutionsAre DEF Todo, IInv, Types
<1>3. CASE Parent[s] = 0
    <2>1. s \in Children(0) /\ Executions[s] = 1
        BY <1>2, <1>3, ExecutionsAre DEF Children
    <2>2. s \notin timerTodo \cup reactTodo
        BY <1>3, TodoStands, StmtsAreNumbers DEF Children
    <2>3. Agrees(s, made[s], IF Did("execute", s) THEN 1 ELSE 0)
        BY <2>1 DEF Counts, TopsOnce
    <2>4. made[s] <= (IF Did("execute", s) THEN 1 ELSE 0)
        BY <2>3 DEF Agrees
    <2>5. made[s] <= 1
        BY <1>2, <2>4
    <2> QED
        BY <1>1, <1>2, <2>1, <2>2, <2>5 DEF Todo
<1>4. CASE Parent[s] # 0
    <2>1. PICK p \in Stmts : p = Parent[s] /\ p < s /\ s \in Children(p)
        BY <1>2, <1>4, ParentIs
    <2>2. p \in Nat /\ s \in Nat /\ Iterations[p] \in Nat
        BY <1>2, ScriptAssumption, StmtsAreNumbers
    <2>3. p \notin T
        BY <1>1, <2>1, <2>2
    <2>4. made[p] + Todo(p) <= Executions[p]
        BY <2>3
    <2>5. made[p] \in Nat /\ Todo(p) \in {0, 1} /\ Executions[p] \in Nat
        BY ExecutionsAre DEF Todo, IInv, Types
    <2>6. made[p] * Iterations[p] <= Executions[p] * Iterations[p]
        BY <2>2, <2>4, <2>5, Times
    <2>7. Executions[s] = Executions[p] * Iterations[p]
        BY <1>2, <1>4, <2>1, ExecutionsAre
    <2>8. made[s] + Todo(s) <= Cardinality(Begun(p))
        BY <2>1 DEF Counts, BlocksCounted, Agrees
    <2>9. Cardinality(Begun(p)) \in Nat /\ Cardinality(Begun(p)) <= made[p] * Iterations[p]
        BY BegunAre DEF IInv
    <2>10. made[p] * Iterations[p] \in Nat
        BY <2>2, <2>5, Times
    <2>11. made[s] + Todo(s) <= Executions[s]
        BY <1>2, <2>6, <2>7, <2>8, <2>9, <2>10
    <2> QED
        BY <1>1, <2>11
<1> QED
    BY <1>3, <1>4

\* The identities of instances are those that the script's executions need.
LEMMA InstancesAre ==
    ASSUME NEW k
    PROVE  \A p, i : <<p, i>> \in Instances(k) <=>
               p \in Stmts /\ Kind[p] = k /\ i \in 1 .. Executions[p]
BY DEF Instances

\* The instances that were made have such identities.
LEMMA MadeAreInstances ==
    ASSUME IInv, Counts, reader # "crashed", NEW p \in Stmts, NEW i \in 1 .. made[p]
    PROVE  <<p, i>> \in Instances(Kind[p])
<1>1. /\ made[p] + Todo(p) <= Executions[p] /\ made[p] \in Nat /\ Todo(p) \in {0, 1}
      /\ Executions[p] \in Nat
    BY Bounded, ExecutionsAre DEF Todo, IInv, Types
<1>2. i \in 1 .. Executions[p]
    BY <1>1
<1> QED
    BY <1>2, InstancesAre

-----------------------------------------------------------------------------

\* At the start nothing has been made.
LEMMA InitCounts == Init => Counts
<1> SUFFICES ASSUME Init
             PROVE  Counts
    OBVIOUS
<1> USE DEF Init, Timer!Init, Reactor!Init
<1>1. /\ left \in [Timers -> Nat]
      /\ max_count \in [Reactions -> Nat] /\ current_count \in [Reactions -> Nat]
    OBVIOUS
<1>2. InstancesMade /\ TimersCounted /\ ReactionsCounted /\ TopsOnce
    BY DEF InstancesMade, TimersCounted, ReactionsCounted, TopsOnce, Agrees, Did, Children
<1>3. BlocksCounted
    <2> SUFFICES ASSUME NEW p \in Stmts, NEW c \in Children(p)
                 PROVE  Agrees(c, made[c] + Todo(c), Cardinality(Begun(p)))
        BY DEF BlocksCounted
    <2>1. made[c] = 0 /\ made[p] = 0 /\ Todo(c) = 0
        BY DEF Todo, Children
    <2>2. Begun(p) = {}
        BY <2>1 DEF Begun, Runs
    <2>3. Cardinality(Begun(p)) = 0
        BY <2>2, FS_EmptySet
    <2> QED
        BY <2>1, <2>3 DEF Agrees
<1> QED
    BY <1>1, <1>2, <1>3 DEF Counts

\* One execution of a statement makes an instance of it.
LEMMA ExecutedInstance ==
    ASSUME NEW s \in Stmts,
           \/ Execute(s, ThreadRegisters(s))
           \/ Execute(s, CallbackRegisters(s))
    PROVE  /\ made' = [made EXCEPT ![s] = @ + 1]
           /\ UNCHANGED <<current_count, reader, at>>
           /\ \/ /\ Kind[s] = "schedule"
                 /\ pending' = pending \cup {<<s, made[s] + 1>>}
                 /\ left' = [left EXCEPT ![<<s, made[s] + 1>>] = Iterations[s]]
                 /\ UNCHANGED <<reactions, max_count>>
              \/ /\ Kind[s] = "reacton"
                 /\ reactions' = Append(reactions, <<s, made[s] + 1>>)
                 /\ max_count' = [max_count EXCEPT ![<<s, made[s] + 1>>] = Iterations[s]]
                 /\ UNCHANGED <<pending, left>>
              \/ /\ Kind[s] = "alert"
                 /\ UNCHANGED <<pending, left, reactions, max_count>>
BY DEF Execute, Timer!Create, Instance, SendsAlert, ThreadRegisters, CallbackRegisters,
    Reactor!ThreadRegisters, Reactor!CallbackRegisters, Reactor!RegisterReaction, timerVars,
    reactVars

\* No run begins with it.
LEMMA ExecutionCounts ==
    ASSUME IInv, Counts, reader # "crashed", NEW s \in Stmts,
           Execute(s, ThreadRegisters(s)) \/ Execute(s, CallbackRegisters(s)),
           made[s] + 1 <= Executions[s]
    PROVE  /\ left' \in [Timers -> Nat]
           /\ max_count' \in [Reactions -> Nat]
           /\ current_count' \in [Reactions -> Nat]
           /\ InstancesMade' /\ TimersCounted' /\ ReactionsCounted'
           /\ \A p \in Stmts : Kind[p] # "alert" => Begun(p)' = Begun(p)
<1> DEFINE new == <<s, made[s] + 1>>
<1>1. /\ made \in [Stmts -> Nat] /\ left \in [Timers -> Nat] /\ pending \subseteq Stmts \X Nat
      /\ max_count \in [Reactions -> Nat] /\ current_count \in [Reactions -> Nat]
      /\ reactions \in Seq(Stmts \X Nat)
    BY DEF IInv, Types, Counts
<1>2. /\ made' = [made EXCEPT ![s] = @ + 1]
      /\ UNCHANGED <<current_count, reader, at>>
      /\ \/ /\ Kind[s] = "schedule"
            /\ pending' = pending \cup {new}
            /\ left' = [left EXCEPT ![new] = Iterations[s]]
            /\ UNCHANGED <<reactions, max_count>>
         \/ /\ Kind[s] = "reacton"
            /\ reactions' = Append(reactions, new)
            /\ max_count' = [max_count EXCEPT ![new] = Iterations[s]]
            /\ UNCHANGED <<pending, left>>
         \/ /\ Kind[s] = "alert"
            /\ UNCHANGED <<pending, left, reactions, max_count>>
    BY ExecutedInstance
<1>3. /\ \A i \in 1 .. Len(reactions) : reactions'[i] = reactions[i]
      /\ \A i \in 1 .. Len(reactions') : \/ i \in 1 .. Len(reactions) /\ reactions'[i] = reactions[i]
                                         \/ reactions'[i] = new
    <2>1. CASE UNCHANGED reactions
        BY <2>1
    <2>2. CASE reactions' = Append(reactions, new)
        <3>1. /\ Len(reactions') = Len(reactions) + 1 /\ Len(reactions) \in Nat
              /\ reactions'[Len(reactions) + 1] = new
              /\ \A i \in 1 .. Len(reactions) : reactions'[i] = reactions[i]
            BY <1>1, <2>2
        <3>2. \A i \in 1 .. Len(reactions') : i \in 1 .. Len(reactions) \/ i = Len(reactions) + 1
            BY <3>1
        <3> QED
            BY <3>1, <3>2
    <2> QED
        BY <1>2, <2>1, <2>2
<1>4. /\ made'[s] = made[s] + 1 /\ made[s] \in Nat
      /\ \A p \in Stmts : p # s => made'[p] = made[p]
      /\ \A p \in Stmts : made'[p] \in Nat /\ made[p] \in Nat /\ made[p] <= made'[p]
    BY <1>1, <1>2
<1>5. Iterations[s] \in Nat \ {0} /\ \A p \in Stmts : Iterations[p] \in Nat \ {0}
    BY ScriptAssumption
<1>6. left' \in [Timers -> Nat]
    BY <1>1, <1>2, <1>5
<1>7. max_count' \in [Reactions -> Nat] /\ current_count' \in [Reactions -> Nat]
    BY <1>1, <1>2, <1>5
<1>8. \A t : t[1] \in Stmts /\ t[2] \in 1 .. made[t[1]] => t[2] \in 1 .. made'[t[1]]
    BY <1>4
<1>9. new[1] = s /\ new[2] \in 1 .. made'[s]
    BY <1>4
<1>10. InstancesMade'
    <2>1. ASSUME NEW t \in pending'
          PROVE  t[2] \in 1 .. made'[t[1]]
        <3>1. CASE t \in pending
            <4>1. t[1] \in Stmts /\ t[2] \in 1 .. made[t[1]]
                BY <1>1, <3>1 DEF Counts, InstancesMade
            <4> QED
                BY <1>8, <4>1
        <3>2. CASE t = new
            BY <1>9, <3>2
        <3> QED
            BY <1>2, <2>1, <3>1, <3>2
    <2>2. ASSUME NEW i \in 1 .. Len(reactions')
          PROVE  reactions'[i][2] \in 1 .. made'[reactions'[i][1]]
        <3>1. CASE i \in 1 .. Len(reactions) /\ reactions'[i] = reactions[i]
            <4>1. reactions[i][1] \in Stmts /\ reactions[i][2] \in 1 .. made[reactions[i][1]]
                BY <1>1, <3>1 DEF Counts, InstancesMade
            <4> QED
                BY <1>8, <3>1, <4>1
        <3>2. CASE reactions'[i] = new
            BY <1>9, <3>2
        <3>3. \/ i \in 1 .. Len(reactions) /\ reactions'[i] = reactions[i]
              \/ reactions'[i] = new
            BY <1>3
        <3> QED
            BY <3>1, <3>2, <3>3
    <2> QED
        BY <2>1, <2>2 DEF InstancesMade
<1>11. ASSUME NEW p \in Stmts, NEW i \in 1 .. made[p]
       PROVE  /\ Kind[p] = "schedule" =>
                     left'[<<p, i>>] = left[<<p, i>>] /\ (<<p, i>> \in pending' <=> <<p, i>> \in pending)
              /\ Kind[p] = "reacton" => max_count'[<<p, i>>] = max_count[<<p, i>>]
    <2>1. <<p, i>> # new
        BY <1>4
    <2>2. <<p, i>> \in Instances(Kind[p])
        BY MadeAreInstances
    <2> QED
        BY <1>1, <1>2, <2>1, <2>2 DEF Timers, Reactions
<1>12. new \in Instances(Kind[s])
    <2>1. made[s] + 1 \in 1 .. Executions[s]
        BY <1>4, ExecutionsAre
    <2> QED
        BY <2>1, InstancesAre
<1>13. /\ Kind[s] = "schedule" => left'[new] = Iterations[s] /\ new \in pending'
       /\ Kind[s] = "reacton" => max_count'[new] = Iterations[s] /\ current_count[new] = 0
    <2>1. Kind[s] = "schedule" => left'[new] = Iterations[s] /\ new \in pending'
        BY <1>1, <1>2, <1>12 DEF Timers
    <2>2. Kind[s] = "reacton" => max_count'[new] = Iterations[s]
        BY <1>1, <1>2, <1>12 DEF Reactions
    <2>3. Kind[s] = "reacton" => current_count[new] = 0
        BY <1>4, <1>12 DEF Reactions, Counts, ReactionsCounted
    <2> QED
        BY <2>1, <2>2, <2>3
<1>14. \A p \in Stmts : \A i \in 1 .. made'[p] :
           i \in 1 .. made[p] \/ (p = s /\ i = made[s] + 1)
    BY <1>4
<1>15. TimersCounted'
    <2> SUFFICES ASSUME NEW p \in Stmts, Kind[p] = "schedule", NEW i \in 1 .. made'[p]
                 PROVE  /\ left'[<<p, i>>] \in 0 .. Iterations[p]
                        /\ <<p, i>> \notin pending' => left'[<<p, i>>] = 0
        BY DEF TimersCounted
    <2>1. CASE i \in 1 .. made[p]
        BY <1>11, <2>1 DEF Counts, TimersCounted
    <2>2. CASE p = s /\ i = made[s] + 1
        BY <1>5, <1>13, <2>2
    <2> QED
        BY <1>14, <2>1, <2>2
<1>16. ReactionsCounted'
    <2>1. ASSUME NEW p \in Stmts, Kind[p] = "reacton", NEW i \in 1 .. made'[p]
          PROVE  max_count'[<<p, i>>] = Iterations[p]
        <3>1. CASE i \in 1 .. made[p]
            BY <1>11, <2>1, <3>1 DEF Counts, ReactionsCounted
        <3>2. CASE p = s /\ i = made[s] + 1
            BY <1>13, <2>1, <3>2
        <3> QED
            BY <1>14, <3>1, <3>2
    <2>2. ASSUME NEW r \in Reactions, r[2] > made'[r[1]]
          PROVE  current_count'[r] = 0
        <3>1. PICK p, i : r = <<p, i>> /\ p \in Stmts /\ i \in Int
            BY ExecutionsAre DEF Reactions, Instances
        <3>2. r[2] > made[r[1]]
            BY <1>4, <2>2, <3>1
        <3> QED
            BY <1>2, <3>2 DEF Counts, ReactionsCounted
    <2> QED
        BY <2>1, <2>2 DEF ReactionsCounted
<1>17. \A r : Calling(r)' = Calling(r)
    <2>1. CASE reader = "call"
        <3>1. at \in 1 .. Len(reactions)
            BY <2>1 DEF IInv, ReactionBlock, Types
        <3>2. reactions'[at] = reactions[at]
            BY <1>3, <3>1
        <3> QED
            BY <1>2, <3>2 DEF Calling
    <2>2. CASE reader # "call"
        BY <1>2, <2>2 DEF Calling
    <2> QED
        BY <2>1, <2>2
<1>18. Calling(new) = 0
    <2>1. ASSUME reader = "call", reactions[at] = new
          PROVE  FALSE
        <3>1. at \in 1 .. Len(reactions)
            BY <2>1 DEF IInv, ReactionBlock, Types
        <3>2. reactions[at][2] \in 1 .. made[reactions[at][1]]
            BY <3>1 DEF Counts, InstancesMade
        <3> QED
            BY <1>4, <2>1, <3>2
    <2> QED
        BY <2>1 DEF Calling
<1>19. ASSUME NEW p \in Stmts, Kind[p] # "alert"
       PROVE  Begun(p)' = Begun(p)
    <2>1. Kind[p] \in {"schedule", "reacton"}
        BY <1>19, ScriptAssumption
    <2>2. ASSUME NEW q \in Runs(p)
          PROVE  q \in Runs(p)' /\ (q \in Begun(p)' <=> q \in Begun(p))
        <3>1. q[1] \in 1 .. made[p] /\ q[2] \in 1 .. Iterations[p] /\ q = <<q[1], q[2]>>
            BY DEF Runs
        <3>2. q \in Runs(p)'
            BY <1>4, <3>1 DEF Runs
        <3>3. Calling(<<p, q[1]>>)' = Calling(<<p, q[1]>>)
            BY <1>17
        <3>4. CASE Kind[p] = "schedule"
            BY <1>11, <3>1, <3>2, <3>4 DEF Begun
        <3>5. CASE Kind[p] = "reacton"
            BY <1>2, <3>1, <3>2, <3>3, <3>5 DEF Begun
        <3> QED
            BY <2>1, <3>2, <3>4, <3>5
    <2>3. ASSUME NEW q \in Runs(p)', q \notin Runs(p)
          PROVE  q \notin Begun(p)'
        <3>1. q[1] \in 1 .. made'[p] /\ q[2] \in 1 .. Iterations[p] /\ q = <<q[1], q[2]>>
            BY DEF Runs
        <3>2. q[1] \notin 1 .. made[p]
            BY <2>3, <3>1 DEF Runs
        <3>3. p = s /\ q[1] = made[s] + 1
            BY <1>14, <3>1, <3>2
        <3>4. CASE Kind[p] = "schedule"
            BY <1>5, <1>13, <3>1, <3>3, <3>4 DEF Begun
        <3>5. CASE Kind[p] = "reacton"
            <4>1. current_count'[<<p, q[1]>>] = 0
                BY <1>2, <1>13, <3>3, <3>5
            <4>2. Calling(<<p, q[1]>>)' = 0
                BY <1>17, <1>18, <3>3
            <4> QED
                BY <3>1, <3>5, <4>1, <4>2 DEF Begun
        <3> QED
            BY <2>1, <3>4, <3>5
    <2> QED
        BY <2>2, <2>3 DEF Begun
<1> QED
    BY <1>6, <1>7, <1>10, <1>15, <1>16, <1>19

-----------------------------------------------------------------------------
(***************************************************************************)
(* Every step keeps the counts.                                            *)
(***************************************************************************)

\* The block of an alert has no statements.
LEMMA BlockHasKind ==
    ASSUME NEW p \in Stmts, NEW c \in Children(p)
    PROVE  /\ c \in Stmts /\ Parent[c] = p /\ p # 0
           /\ Kind[p] \in {"schedule", "reacton"}
BY ScriptAssumption, StmtsAreNumbers DEF Children

\* Main executes each statement of its own once.
LEMMA MainExecutesCounts ==
    ASSUME IInv, Counts, NEW s \in Stmts, MainExecutes(s)
    PROVE  Counts' /\ Instance(s) \in Instances(Kind[s])
<1>1. /\ <<"execute", s>> \in Code /\ ~Did("execute", s)
      /\ \A q, y : Did(q, y)' <=> Did(q, y) \/ (q = "execute" /\ y = s)
      /\ reader # "crashed"
    BY AtIsNew DEF MainExecutes, At, Running
<1>2. s \in Children(0) /\ Parent[s] = 0
    BY <1>1 DEF Code, Children
<1>3. made[s] = 0 /\ Executions[s] = 1
    <2>1. made[s] <= 0 /\ Executions[s] = 1
        BY <1>1, <1>2, ExecutionsAre DEF Counts, TopsOnce, Agrees
    <2>2. made[s] \in Nat
        BY DEF IInv, Types
    <2> QED
        BY <2>1, <2>2
<1>4. /\ Execute(s, ThreadRegisters(s)) \/ Execute(s, CallbackRegisters(s))
      /\ timerTodo' = timerTodo /\ reactTodo' = reactTodo
    BY DEF MainExecutes
<1>5. /\ left' \in [Timers -> Nat]
      /\ max_count' \in [Reactions -> Nat]
      /\ current_count' \in [Reactions -> Nat]
      /\ InstancesMade' /\ TimersCounted' /\ ReactionsCounted'
      /\ \A p \in Stmts : Kind[p] # "alert" => Begun(p)' = Begun(p)
    BY <1>1, <1>3, <1>4, ExecutionCounts
<1>6. made' = [made EXCEPT ![s] = @ + 1] /\ made \in [Stmts -> Nat]
    BY <1>4, ExecutedInstance DEF IInv, Types
<1>7. TopsOnce'
    <2> SUFFICES ASSUME NEW c \in Children(0)
                 PROVE  Agrees(c, made'[c], IF Did("execute", c)' THEN 1 ELSE 0)
        BY DEF TopsOnce, Agrees
    <2>1. c \in Stmts
        BY DEF Children
    <2>2. CASE c = s
        BY <1>1, <1>3, <1>6, <2>2 DEF Agrees
    <2>3. CASE c # s
        <3>1. made'[c] = made[c] /\ (Did("execute", c)' <=> Did("execute", c))
            BY <1>1, <1>6, <2>1, <2>3
        <3> QED
            BY <3>1 DEF Counts, TopsOnce
    <2> QED
        BY <2>2, <2>3
<1>8. BlocksCounted'
    <2> SUFFICES ASSUME NEW p \in Stmts, NEW c \in Children(p)
                 PROVE  Agrees(c, made'[c] + Todo(c)', Cardinality(Begun(p)'))
        BY DEF BlocksCounted, Agrees
    <2>1. c \in Stmts /\ c # s /\ Kind[p] # "alert"
        BY <1>2, BlockHasKind
    <2>2. Todo(c)' = Todo(c) /\ made'[c] = made[c]
        BY <1>4, <1>6, <2>1 DEF Todo
    <2>3. Begun(p)' = Begun(p)
        BY <1>5, <2>1
    <2> QED
        BY <2>2, <2>3 DEF Counts, BlocksCounted
<1>9. Instance(s) \in Instances(Kind[s])
    BY <1>3, InstancesAre DEF Instance
<1> QED
    BY <1>5, <1>7, <1>8, <1>9 DEF Counts

\* A callback executes the next statement of its block, which it still had to.
LEMMA CallbackExecutesCounts ==
    ASSUME IInv, Counts, reader # "crashed", NEW s \in Stmts, s \in timerTodo \cup reactTodo,
           Execute(s, ThreadRegisters(s)) \/ Execute(s, CallbackRegisters(s)),
           timerTodo' \cup reactTodo' = (timerTodo \cup reactTodo) \ {s},
           done' = done
    PROVE  Counts' /\ Instance(s) \in Instances(Kind[s])
<1>1. Parent[s] # 0
    BY TodoStands, StmtsAreNumbers DEF Children
<1>2. /\ made[s] + 1 <= Executions[s]
      /\ made \in [Stmts -> Nat] /\ Executions[s] \in Nat
    <2>1. Todo(s) = 1
        BY DEF Todo
    <2> QED
        BY <2>1, Bounded, ExecutionsAre DEF IInv, Types
<1>3. /\ left' \in [Timers -> Nat]
      /\ max_count' \in [Reactions -> Nat]
      /\ current_count' \in [Reactions -> Nat]
      /\ InstancesMade' /\ TimersCounted' /\ ReactionsCounted'
      /\ \A p \in Stmts : Kind[p] # "alert" => Begun(p)' = Begun(p)
    BY <1>2, ExecutionCounts
<1>4. made' = [made EXCEPT ![s] = @ + 1]
    BY ExecutedInstance
<1>5. TopsOnce'
    <2> SUFFICES ASSUME NEW c \in Children(0)
                 PROVE  Agrees(c, made'[c], IF Did("execute", c)' THEN 1 ELSE 0)
        BY DEF TopsOnce, Agrees
    <2>1. c \in Stmts /\ c # s
        BY <1>1 DEF Children
    <2>2. made'[c] = made[c] /\ (Did("execute", c)' <=> Did("execute", c))
        BY <1>2, <1>4, <2>1 DEF Did
    <2> QED
        BY <2>2 DEF Counts, TopsOnce
<1>6. BlocksCounted'
    <2> SUFFICES ASSUME NEW p \in Stmts, NEW c \in Children(p)
                 PROVE  Agrees(c, made'[c] + Todo(c)', Cardinality(Begun(p)'))
        BY DEF BlocksCounted, Agrees
    <2>1. c \in Stmts /\ Kind[p] # "alert"
        BY BlockHasKind
    <2>2. made'[c] + Todo(c)' = made[c] + Todo(c)
        <3>1. CASE c = s
            BY <1>2, <1>4, <3>1 DEF Todo
        <3>2. CASE c # s
            BY <1>2, <1>4, <2>1, <3>2 DEF Todo
        <3> QED
            BY <3>1, <3>2
    <2>3. Begun(p)' = Begun(p)
        BY <1>3, <2>1
    <2> QED
        BY <2>2, <2>3 DEF Counts, BlocksCounted
<1>7. Instance(s) \in Instances(Kind[s])
    BY <1>2, InstancesAre DEF Instance
<1> QED
    BY <1>3, <1>5, <1>6, <1>7 DEF Counts

\* So a statement of the block that the worker of timer_manager executes.
LEMMA TimerExecutesCounts ==
    ASSUME IInv, Counts, TimerExecutes
    PROVE  Counts' /\ Instance(NextIn(timerTodo)) \in Instances(Kind[NextIn(timerTodo)])
<1>1. NextIn(timerTodo) \in timerTodo /\ timerTodo \subseteq Stmts
    BY NextInBlock DEF IInv, Types, TimerExecutes
<1>2. PICK s \in timerTodo : s = NextIn(timerTodo) /\ s \in Stmts
    BY <1>1
<1>3. /\ Execute(s, ThreadRegisters(s)) \/ Execute(s, CallbackRegisters(s))
      /\ timerTodo' = timerTodo \ {s} /\ UNCHANGED <<reactTodo, done>>
      /\ reader # "crashed"
    BY <1>2 DEF TimerExecutes, mainVars, Running
<1>4. s \notin reactTodo
    BY <1>2, <1>3, TodoStands DEF Children
<1>5. timerTodo' \cup reactTodo' = (timerTodo \cup reactTodo) \ {s}
    BY <1>3, <1>4
<1>6. Counts' /\ Instance(s) \in Instances(Kind[s])
    BY <1>2, <1>3, <1>5, CallbackExecutesCounts
<1> QED
    BY <1>2, <1>6

\* And one of the block that the reader of reacton_service executes.
LEMMA ReactionExecutesCounts ==
    ASSUME IInv, Counts, ReactionExecutes
    PROVE  Counts' /\ Instance(NextIn(reactTodo)) \in Instances(Kind[NextIn(reactTodo)])
<1>1. NextIn(reactTodo) \in reactTodo /\ reactTodo \subseteq Stmts
    BY NextInBlock DEF IInv, Types, ReactionExecutes
<1>2. PICK s \in reactTodo : s = NextIn(reactTodo) /\ s \in Stmts
    BY <1>1
<1>3. /\ Execute(s, ThreadRegisters(s)) \/ Execute(s, CallbackRegisters(s))
      /\ reactTodo' = reactTodo \ {s} /\ UNCHANGED <<timerTodo, done>>
      /\ reader # "crashed"
    BY <1>2 DEF ReactionExecutes, mainVars, Running
<1>4. s \notin timerTodo
    BY <1>2, <1>3, TodoStands DEF Children
<1>5. timerTodo' \cup reactTodo' = (timerTodo \cup reactTodo) \ {s}
    BY <1>3, <1>4
<1>6. Counts' /\ Instance(s) \in Instances(Kind[s])
    BY <1>2, <1>3, <1>5, CallbackExecutesCounts
<1> QED
    BY <1>2, <1>6

\* Main passes over a statement: it was come to once more, and not executed.
LEMMA MainPassesCounts ==
    ASSUME IInv, Counts, NEW s \in Stmts, MainPasses(s)
    PROVE  Counts'
<1>1. /\ UNCHANGED <<left, max_count, current_count, pending, reactions, made, reader, at>>
      /\ UNCHANGED <<timerTodo, reactTodo>> /\ IfOf[s] # 0
    BY DEF MainPasses, PassesOver, timerVars, reactVars
<1>2. \A q, y : Did(q, y)' <=> Did(q, y) \/ (q = "execute" /\ y = s)
    BY DEF MainPasses, Completes, Did
<1>3. TopsOnce'
    <2> SUFFICES ASSUME NEW c \in Children(0)
                 PROVE  Agrees(c, made[c], IF Did("execute", c)' THEN 1 ELSE 0)
        BY <1>1 DEF TopsOnce, Agrees
    <2>1. Agrees(c, made[c], IF Did("execute", c) THEN 1 ELSE 0) /\ made[c] \in Nat
        BY DEF Counts, TopsOnce, IInv, Types, Children
    <2>2. CASE c = s
        BY <1>1, <1>2, <2>1, <2>2 DEF Agrees
    <2>3. CASE c # s
        BY <1>2, <2>1, <2>3
    <2> QED
        BY <2>2, <2>3
<1>4. InstancesMade' /\ TimersCounted' /\ ReactionsCounted'
    BY <1>1 DEF Counts, InstancesMade, TimersCounted, ReactionsCounted
<1>5. BlocksCounted'
    BY <1>1 DEF Counts, BlocksCounted, Todo, Begun, Runs, Calling, Agrees
<1> QED
    BY <1>1, <1>3, <1>4, <1>5 DEF Counts

\* A callback passes over a statement that it still had to execute.
LEMMA CallbackPassesCounts ==
    ASSUME IInv, Counts, reader # "crashed", TimerPasses \/ ReactionPasses
    PROVE  Counts'
<1>1. PICK s \in timerTodo \cup reactTodo :
          /\ PassesOver(s)
          /\ \/ timerTodo' = timerTodo \ {s} /\ reactTodo' = reactTodo /\ s \in timerTodo
             \/ reactTodo' = reactTodo \ {s} /\ timerTodo' = timerTodo /\ s \in reactTodo
    BY NextInBlock DEF IInv, Types, TimerPasses, ReactionPasses
<1>2. /\ UNCHANGED <<left, max_count, current_count, pending, reactions, made, reader, at>>
      /\ IfOf[s] # 0
    BY <1>1 DEF PassesOver, timerVars, reactVars
<1>3. done' = done
    BY DEF TimerPasses, ReactionPasses, mainVars
<1>4. InstancesMade' /\ TimersCounted' /\ ReactionsCounted' /\ TopsOnce'
    BY <1>2, <1>3 DEF Counts, InstancesMade, TimersCounted, ReactionsCounted, TopsOnce, Agrees,
        Did
<1>5. BlocksCounted'
    <2> SUFFICES ASSUME NEW p \in Stmts, NEW c \in Children(p)
                 PROVE  Agrees(c, made[c] + Todo(c)', Cardinality(Begun(p)))
        BY <1>2 DEF BlocksCounted, Begun, Runs, Calling, Agrees
    <2>1. Agrees(c, made[c] + Todo(c), Cardinality(Begun(p))) /\ Cardinality(Begun(p)) \in Nat
        BY BegunAre DEF Counts, BlocksCounted, IInv
    <2>2. made[c] \in Nat /\ Todo(c) \in {0, 1} /\ Todo(c)' \in {0, 1}
        BY DEF IInv, Types, Todo, Children
    <2>3. CASE c = s
        <3>1. Todo(c) = 1
            BY <2>3 DEF Todo
        <3> QED
            BY <1>2, <2>1, <2>2, <2>3, <3>1 DEF Agrees
    <2>4. CASE c # s
        <3>1. Todo(c)' = Todo(c)
            BY <1>1, <2>4 DEF Todo
        <3> QED
            BY <2>1, <3>1
    <2> QED
        BY <2>3, <2>4
<1> QED
    BY <1>2, <1>4, <1>5 DEF Counts

\* A timer's run begins, and has the whole block to execute.
LEMMA TimerBeginsCounts ==
    ASSUME IInv, Counts, NEW t \in Timers, TimerBegins(t)
    PROVE  Counts'
<1>1. /\ busy = None /\ t \in pending /\ left[t] # 0
      /\ left' = IF left[t] = -1 THEN left ELSE [left EXCEPT ![t] = @ - 1]
      /\ timerTodo' = Children(t[1])
      /\ UNCHANGED <<pending, made, done, reactTodo, reactions, max_count, current_count,
                     reader, at>>
      /\ reader # "crashed"
    BY DEF TimerBegins, Timer!Begin, Timer!Forever, mainVars, reactVars, Running
<1>2. left \in [Timers -> Nat] /\ timerTodo = {} /\ made \in [Stmts -> Nat]
    BY <1>1 DEF IInv, Types, TimerBlock, Counts
<1>3. PICK r, j : t = <<r, j>> /\ r \in Stmts /\ j \in 1 .. made[r] /\ Kind[r] = "schedule"
    BY <1>1 DEF IInv, Types, TimersOfStatements, Counts, InstancesMade
<1>4. left[t] \in Nat \ {0} /\ left' = [left EXCEPT ![t] = @ - 1]
    BY <1>1, <1>2
<1>5. left' \in [Timers -> Nat]
    BY <1>2, <1>4
<1>6. InstancesMade' /\ TopsOnce' /\ ReactionsCounted'
    BY <1>1 DEF Counts, InstancesMade, TopsOnce, ReactionsCounted, Did
<1>7. ASSUME NEW p \in Stmts, Kind[p] = "schedule", NEW i \in 1 .. made[p]
      PROVE  left'[<<p, i>>] = IF <<p, i>> = t THEN left[t] - 1 ELSE left[<<p, i>>]
    <2>1. <<p, i>> \in Timers
        BY <1>1, <1>7, MadeAreInstances DEF Timers
    <2> QED
        BY <1>2, <1>4, <2>1
<1>8. TimersCounted'
    <2> SUFFICES ASSUME NEW p \in Stmts, Kind[p] = "schedule", NEW i \in 1 .. made[p]
                 PROVE  /\ left'[<<p, i>>] \in 0 .. Iterations[p]
                        /\ <<p, i>> \notin pending => left'[<<p, i>>] = 0
        BY <1>1 DEF TimersCounted
    <2>1. /\ left[<<p, i>>] \in 0 .. Iterations[p] /\ Iterations[p] \in Nat
          /\ <<p, i>> \notin pending => left[<<p, i>>] = 0
        BY ScriptAssumption DEF Counts, TimersCounted
    <2> QED
        BY <1>1, <1>4, <1>7, <2>1
<1>9. ASSUME NEW p \in Stmts
      PROVE  /\ Runs(p)' = Runs(p)
             /\ \A x : Calling(x)' = Calling(x)
    BY <1>1 DEF Runs, Calling
<1>10. ASSUME NEW p \in Stmts, p # r
       PROVE  Begun(p)' = Begun(p)
    <2>1. ASSUME NEW q \in Runs(p)
          PROVE  q \in Begun(p)' <=> q \in Begun(p)
        <3>1. q[1] \in 1 .. made[p] /\ <<p, q[1]>> # t
            BY <1>3, <1>10 DEF Runs
        <3>2. CASE Kind[p] = "schedule"
            BY <1>7, <1>9, <3>1, <3>2 DEF Begun
        <3>3. CASE Kind[p] # "schedule"
            BY <1>1, <1>9, <3>3 DEF Begun
        <3> QED
            BY <3>2, <3>3
    <2> QED
        BY <1>9, <2>1 DEF Begun
<1>11. Cardinality(Begun(r)') = Cardinality(Begun(r)) + 1
    <2> DEFINE run == <<j, left[t]>>
    <2>1. left[t] \in 1 .. Iterations[r]
        <3>1. left[t] \in 0 .. Iterations[r] /\ Iterations[r] \in Nat
            BY <1>3, ScriptAssumption DEF Counts, TimersCounted
        <3> QED
            BY <1>4, <3>1
    <2>2. run \in Runs(r) /\ run \notin Begun(r)
        BY <1>3, <1>4, <2>1 DEF Runs, Begun
    <2>3. ASSUME NEW q \in Runs(r)
          PROVE  q \in Begun(r)' <=> q \in Begun(r) \/ q = run
        <3>1. /\ q[1] \in 1 .. made[r] /\ q[2] \in Int /\ q = <<q[1], q[2]>>
              /\ q \in Begun(r)' <=> q[2] > left'[<<r, q[1]>>]
              /\ q \in Begun(r) <=> q[2] > left[<<r, q[1]>>]
            BY <1>3, <1>9 DEF Begun, Runs
        <3>2. CASE q[1] = j
            <4>1. left'[<<r, q[1]>>] = left[t] - 1 /\ left[<<r, q[1]>>] = left[t]
                BY <1>3, <1>7, <3>2
            <4>2. q = run <=> q[2] = left[t]
                BY <3>1, <3>2
            <4> QED
                BY <1>4, <3>1, <4>1, <4>2
        <3>3. CASE q[1] # j
            <4>1. <<r, q[1]>> # t /\ q # run
                BY <1>3, <3>3
            <4>2. left'[<<r, q[1]>>] = left[<<r, q[1]>>]
                BY <1>3, <1>7, <3>1, <4>1
            <4> QED
                BY <3>1, <4>1, <4>2
        <3> QED
            BY <3>2, <3>3
    <2> HIDE DEF run
    <2>4. Begun(r)' = Begun(r) \cup {run}
        BY <1>3, <1>9, <2>2, <2>3 DEF Begun
    <2> QED
        BY <1>3, <2>2, <2>4, BegunAre, FS_AddElement DEF IInv
<1>12. BlocksCounted'
    <2> SUFFICES ASSUME NEW p \in Stmts, NEW c \in Children(p)
                 PROVE  Agrees(c, made[c] + Todo(c)', Cardinality(Begun(p)'))
        BY <1>1 DEF BlocksCounted, Agrees
    <2>1. c \in Stmts /\ Parent[c] = p /\ made[c] \in Nat
        BY <1>2, BlockHasKind
    <2>2. Agrees(c, made[c] + Todo(c), Cardinality(Begun(p)))
        BY DEF Counts, BlocksCounted
    <2>6. Cardinality(Begun(p)) \in Nat
        BY BegunAre DEF IInv
    <2>3. CASE p = r
        <3>1. c \notin reactTodo
            BY <1>1, <1>3, <2>1, <2>3, TodoStands DEF Children
        <3>2. Todo(c) = 0 /\ Todo(c)' = 1
            BY <1>1, <1>2, <1>3, <2>3, <3>1 DEF Todo
        <3> QED
            BY <1>11, <2>1, <2>2, <2>3, <2>6, <3>2 DEF Agrees
    <2>4. CASE p # r
        <3>1. c \notin timerTodo'
            BY <1>1, <1>3, <2>1, <2>4 DEF Children
        <3>2. Todo(c)' = Todo(c)
            BY <1>1, <1>2, <3>1 DEF Todo
        <3> QED
            BY <1>10, <2>2, <2>4, <3>2
    <2> QED
        BY <2>3, <2>4
<1> QED
    BY <1>1, <1>5, <1>6, <1>8, <1>12 DEF Counts

\* A reaction's run begins, and has the whole block to execute.
LEMMA ReactionBeginsCounts ==
    ASSUME IInv, Counts, ReactionBegins
    PROVE  Counts'
<1>1. /\ reader = "scan" /\ reader' = "call" /\ at <= end
      /\ max_count[reactions[at]] # -1 => current_count[reactions[at]] < max_count[reactions[at]]
      /\ reactTodo' = Children(reactions[at][1])
      /\ UNCHANGED <<left, pending, made, done, timerTodo, reactions, max_count,
                     current_count, at>>
    <2>1. /\ reader = "scan" /\ reader' = "call" /\ at <= end
          /\ ~Reactor!Exhausted(reactions[at])
          /\ reactTodo' = Children(reactions[at][1])
          /\ UNCHANGED <<left, pending, made, done, timerTodo, reactions, max_count,
                         current_count, at>>
        BY DEF ReactionBegins, Reactor!CallsReaction, Reactor!registered, Reactor!loop,
            mainVars, timerVars
    <2>2. at \in 1 .. Len(reactions)
        BY <2>1 DEF IInv, Types
    <2>3. PICK p \in Stmts, i \in Nat : reactions[at] = <<p, i>>
        BY <2>2 DEF IInv, Types
    <2>4. reactions[at] \in Reactions
        BY <2>1, <2>2, <2>3, MadeAreInstances
            DEF IInv, ReactionsOfStatements, Counts, InstancesMade, Reactions
    <2>5. max_count[reactions[at]] \in Nat /\ current_count[reactions[at]] \in Nat
        BY <2>4 DEF Counts
    <2> QED
        BY <2>1, <2>5 DEF Reactor!Exhausted, Reactor!Forever
<1>2. at \in 1 .. Len(reactions) /\ made \in [Stmts -> Nat]
    BY <1>1 DEF IInv, Types
<1>3. PICK r, j : /\ reactions[at] = <<r, j>> /\ r \in Stmts /\ j \in 1 .. made[r]
                  /\ Kind[r] = "reacton"
    <2>1. reactions[at] \in Stmts \X Nat
        BY <1>2 DEF IInv, Types
    <2> QED
        BY <1>2, <2>1 DEF IInv, ReactionsOfStatements, Counts, InstancesMade
<1>4. <<r, j>> \in Reactions
    BY <1>1, <1>3, MadeAreInstances DEF Reactions
<1>5. /\ max_count[<<r, j>>] = Iterations[r] /\ Iterations[r] \in Nat
      /\ current_count[<<r, j>>] \in Nat /\ current_count[<<r, j>>] < Iterations[r]
    <2>1. max_count[<<r, j>>] = Iterations[r] /\ Iterations[r] \in Nat
        BY <1>3, ScriptAssumption DEF Counts, ReactionsCounted
    <2>2. current_count[<<r, j>>] \in Nat
        BY <1>4 DEF Counts
    <2> QED
        BY <1>1, <1>3, <2>1, <2>2
<1>6. InstancesMade' /\ TopsOnce' /\ TimersCounted' /\ ReactionsCounted'
    BY <1>1 DEF Counts, InstancesMade, TopsOnce, TimersCounted, ReactionsCounted, Did
<1>7. \A x : Calling(x) = 0 /\ Calling(x)' = IF x = <<r, j>> THEN 1 ELSE 0
    BY <1>1, <1>3 DEF Calling
<1>8. \A p : Runs(p)' = Runs(p)
    BY <1>1 DEF Runs
<1>9. ASSUME NEW p \in Stmts, p # r
      PROVE  Begun(p)' = Begun(p)
    <2>1. \A q : Calling(<<p, q>>)' = Calling(<<p, q>>)
        BY <1>7, <1>9
    <2> QED
        BY <1>1, <1>8, <2>1 DEF Begun
<1>10. Cardinality(Begun(r)') = Cardinality(Begun(r)) + 1
    <2> DEFINE run == <<j, current_count[<<r, j>>] + 1>>
    <2>1. run \in Runs(r)
        BY <1>3, <1>5 DEF Runs
    <2>2. run \notin Begun(r)
        BY <1>3, <1>5, <1>7 DEF Begun
    <2>3. ASSUME NEW q \in Runs(r)
          PROVE  q \in Begun(r)' <=> q \in Begun(r) \/ q = run
        <3>1. /\ q[1] \in 1 .. made[r] /\ q[2] \in Int /\ q = <<q[1], q[2]>>
              /\ q \in Begun(r)' <=> q[2] <= current_count[<<r, q[1]>>] + Calling(<<r, q[1]>>)'
              /\ q \in Begun(r) <=> q[2] <= current_count[<<r, q[1]>>] + Calling(<<r, q[1]>>)
            BY <1>1, <1>3, <1>8 DEF Begun, Runs
        <3>2. CASE q[1] = j
            <4>1. Calling(<<r, q[1]>>) = 0 /\ Calling(<<r, q[1]>>)' = 1
                BY <1>7, <3>2
            <4>2. q = run <=> q[2] = current_count[<<r, j>>] + 1
                BY <3>1, <3>2
            <4> QED
                BY <1>5, <3>1, <3>2, <4>1, <4>2
        <3>3. CASE q[1] # j
            <4>1. <<r, q[1]>> # <<r, j>> /\ q # run
                BY <3>3
            <4>2. Calling(<<r, q[1]>>)' = Calling(<<r, q[1]>>)
                BY <1>7, <4>1
            <4> QED
                BY <3>1, <4>1, <4>2
        <3> QED
            BY <3>2, <3>3
    <2> HIDE DEF run
    <2>4. Begun(r)' = Begun(r) \cup {run}
        BY <1>3, <1>8, <2>1, <2>3 DEF Begun
    <2> QED
        BY <1>3, <2>2, <2>4, BegunAre, FS_AddElement DEF IInv
<1>11. BlocksCounted'
    <2> SUFFICES ASSUME NEW p \in Stmts, NEW c \in Children(p)
                 PROVE  Agrees(c, made[c] + Todo(c)', Cardinality(Begun(p)'))
        BY <1>1 DEF BlocksCounted, Agrees
    <2>1. c \in Stmts /\ Parent[c] = p /\ made[c] \in Nat
        BY <1>2, BlockHasKind
    <2>2. Agrees(c, made[c] + Todo(c), Cardinality(Begun(p)))
        BY DEF Counts, BlocksCounted
    <2>6. Cardinality(Begun(p)) \in Nat
        BY BegunAre DEF IInv
    <2>3. reactTodo = {}
        BY <1>1 DEF IInv, ReactionBlock
    <2>4. CASE p = r
        <3>1. c \notin timerTodo
            BY <1>1, <1>3, <2>1, <2>4, TodoStands DEF Children
        <3>2. Todo(c) = 0 /\ Todo(c)' = 1
            BY <1>1, <1>3, <2>3, <2>4, <3>1 DEF Todo
        <3> QED
            BY <1>10, <2>1, <2>2, <2>4, <2>6, <3>2 DEF Agrees
    <2>5. CASE p # r
        <3>1. c \notin reactTodo'
            BY <1>1, <1>3, <2>1, <2>5 DEF Children
        <3>2. Todo(c)' = Todo(c)
            BY <1>1, <2>3, <3>1 DEF Todo
        <3> QED
            BY <1>9, <2>2, <2>5, <3>2
    <2> QED
        BY <2>4, <2>5
<1> QED
    BY <1>1, <1>6, <1>11 DEF Counts

\* A reaction's run is over, and counted.
LEMMA ReactionEndsCounts ==
    ASSUME IInv, Counts, ReactionEnds
    PROVE  Counts'
<1>1. /\ reader = "call" /\ reader' = "scan"
      /\ current_count' = [current_count EXCEPT ![reactions[at]] = Reactor!NextCount(reactions[at])]
      /\ UNCHANGED <<left, pending, made, done, timerTodo, reactTodo, reactions, max_count>>
    BY DEF ReactionEnds, Reactor!CallbackReturns, Reactor!registered, mainVars, timerVars
<1>2. at \in 1 .. Len(reactions) /\ made \in [Stmts -> Nat]
    BY <1>1 DEF IInv, Types, ReactionBlock
<1>3. PICK r, j : /\ reactions[at] = <<r, j>> /\ r \in Stmts /\ j \in 1 .. made[r]
                  /\ Kind[r] = "reacton"
    <2>1. reactions[at] \in Stmts \X Nat
        BY <1>2 DEF IInv, Types
    <2> QED
        BY <1>2, <2>1 DEF IInv, ReactionsOfStatements, Counts, InstancesMade
<1>4. <<r, j>> \in Reactions
    BY <1>1, <1>3, MadeAreInstances DEF Reactions
<1>5. current_count' = [current_count EXCEPT ![<<r, j>>] = @ + 1]
    <2>1. max_count[<<r, j>>] \in Nat
        BY <1>4 DEF Counts
    <2>2. Reactor!NextCount(<<r, j>>) = current_count[<<r, j>>] + 1
        BY <2>1 DEF Reactor!NextCount, Reactor!Forever
    <2> QED
        BY <1>1, <1>3, <2>2
<1>6. current_count \in [Reactions -> Nat] /\ current_count' \in [Reactions -> Nat]
    <2>1. current_count \in [Reactions -> Nat]
        BY DEF Counts
    <2>2. current_count[<<r, j>>] + 1 \in Nat
        BY <1>4, <2>1
    <2> QED
        BY <1>5, <2>1, <2>2
<1>7. InstancesMade' /\ TopsOnce' /\ TimersCounted'
    BY <1>1 DEF Counts, InstancesMade, TopsOnce, TimersCounted, Did
<1>8. ReactionsCounted'
    <2>1. ~(<<r, j>>[2] > made[<<r, j>>[1]])
        BY <1>2, <1>3
    <2>2. \A x \in Reactions : x[2] > made[x[1]] => current_count'[x] = current_count[x]
        BY <1>5, <1>6, <2>1
    <2> QED
        BY <1>1, <2>2 DEF Counts, ReactionsCounted
<1>9. ASSUME NEW p \in Stmts, Kind[p] = "schedule" \/ Kind[p] = "reacton"
      PROVE  Begun(p)' = Begun(p)
    <2>1. Runs(p)' = Runs(p)
        BY <1>1 DEF Runs
    <2>2. CASE Kind[p] = "schedule"
        BY <1>1, <2>1, <2>2 DEF Begun
    <2>3. CASE Kind[p] = "reacton"
        <3>1. ASSUME NEW i \in 1 .. made[p]
              PROVE  current_count'[<<p, i>>] + Calling(<<p, i>>)'
                         = current_count[<<p, i>>] + Calling(<<p, i>>)
            <4>1. <<p, i>> \in Reactions
                BY <1>1, <2>3, MadeAreInstances DEF Reactions
            <4>2. Calling(<<p, i>>)' = 0 /\ Calling(<<p, i>>) = IF <<p, i>> = <<r, j>> THEN 1 ELSE 0
                BY <1>1, <1>3 DEF Calling
            <4>3. current_count[<<p, i>>] \in Nat
                BY <1>6, <4>1
            <4> QED
                BY <1>5, <1>6, <4>1, <4>2, <4>3
        <3>2. \A q \in Runs(p) : q[1] \in 1 .. made[p]
            BY DEF Runs
        <3> QED
            BY <2>1, <2>3, <3>1, <3>2 DEF Begun
    <2> QED
        BY <1>9, <2>2, <2>3
<1>10. BlocksCounted'
    <2> SUFFICES ASSUME NEW p \in Stmts, NEW c \in Children(p)
                 PROVE  Agrees(c, made[c] + Todo(c)', Cardinality(Begun(p)'))
        BY <1>1 DEF BlocksCounted, Agrees
    <2>1. Begun(p)' = Begun(p)
        BY <1>9, BlockHasKind
    <2>2. Todo(c)' = Todo(c)
        BY <1>1 DEF Todo
    <2> QED
        BY <2>1, <2>2 DEF Counts, BlocksCounted
<1> QED
    BY <1>1, <1>6, <1>7, <1>8, <1>10 DEF Counts

\* No other step makes an instance, or begins or counts a run; a timer that is finished has
\* none left.
OtherStep ==
    \/ TimerEnds
    \/ ReaderMoves
    \/ StreamEnds
    \/ MainDropsAlerts
    \/ \E k \in Managers : \/ MainDeclares(k)
                           \/ MainWaits(k) \/ MainWaited(k)
                           \/ MainDestroys(k) \/ MainDestroyed(k)
    \/ UNCHANGED vars

\* The other steps execute no statement, and drop only timers that have no run left.
LEMMA OtherFrame ==
    ASSUME OtherStep
    PROVE  /\ UNCHANGED <<made, left, timerTodo, reactTodo, reactions, max_count, current_count>>
           /\ pending' = pending \/ (left[busy] = 0 /\ pending' = pending \ {busy})
           /\ \A s : Did("execute", s)' <=> Did("execute", s)
<1> USE DEF OtherStep, TimerEnds, Timer!End, ReaderMoves, StreamEnds, MainDropsAlerts,
        MainDeclares, MainWaits, MainWaited, MainDestroys, MainDestroyed, vars, timerVars,
        Timer!Wait, Timer!Return, Timer!BeginClose, Timer!EndClose
<1>1. UNCHANGED <<made, left, timerTodo, reactTodo>>
    OBVIOUS
<1>2. pending' = pending \/ (left[busy] = 0 /\ pending' = pending \ {busy})
    OBVIOUS
<1>3. UNCHANGED <<reactions, max_count, current_count>>
    BY DEF reactVars, Reactor!WaitForCompletion, Reactor!Joined, Reactor!Destroy,
        Reactor!Destroyed, Reactor!ReadsUpdate, Reactor!ReadFails, Reactor!SkipsExhausted,
        Reactor!Decides, Reactor!Finishes, Reactor!Crashes, Reactor!StreamEnds,
        Reactor!registered
<1>4. \A s : Did("execute", s)' <=> Did("execute", s)
    BY DEF Completes, Did, mainVars
<1> QED
    BY <1>1, <1>2, <1>3, <1>4

\* So they leave the counts as they are.
LEMMA OthersCount ==
    ASSUME IInv, Counts, OtherStep, reader' # "crashed"
    PROVE  Counts'
<1>1. /\ UNCHANGED <<made, left, timerTodo, reactTodo, reactions, max_count, current_count>>
      /\ pending' = pending \/ (left[busy] = 0 /\ pending' = pending \ {busy})
      /\ \A s : Did("execute", s)' <=> Did("execute", s)
    BY OtherFrame
<1>2. UNCHANGED <<reader, at>> \/ (reader # "call" /\ reader' # "call")
    BY DEF OtherStep, TimerEnds, ReaderMoves, StreamEnds, MainDropsAlerts,
        MainDeclares, MainWaits, MainWaited, MainDestroys, MainDestroyed, vars,
        reactVars, Reactor!WaitForCompletion, Reactor!Joined, Reactor!Destroy,
        Reactor!Destroyed, Reactor!ReadsUpdate, Reactor!ReadFails, Reactor!SkipsExhausted,
        Reactor!Decides, Reactor!Finishes, Reactor!Crashes, Reactor!StreamEnds, Reactor!loop
<1>3. \A x : Calling(x)' = Calling(x)
    <2>1. CASE UNCHANGED <<reader, at>>
        BY <1>1, <2>1 DEF Calling
    <2>2. CASE reader # "call" /\ reader' # "call"
        BY <2>2 DEF Calling
    <2> QED
        BY <1>2, <2>1, <2>2
<1>4. InstancesMade' /\ TopsOnce' /\ ReactionsCounted'
    BY <1>1 DEF Counts, InstancesMade, TopsOnce, ReactionsCounted
<1>5. TimersCounted'
    BY <1>1 DEF Counts, TimersCounted
<1>6. BlocksCounted'
    <2> SUFFICES ASSUME NEW p \in Stmts, NEW c \in Children(p)
                 PROVE  Agrees(c, made[c] + Todo(c)', Cardinality(Begun(p)'))
        BY <1>1 DEF BlocksCounted, Agrees
    <2>1. Begun(p)' = Begun(p)
        BY <1>1, <1>3 DEF Begun, Runs
    <2>2. Todo(c)' = Todo(c)
        BY <1>1 DEF Todo
    <2> QED
        BY <2>1, <2>2 DEF Counts, BlocksCounted
<1> QED
    BY <1>1, <1>4, <1>5, <1>6 DEF Counts

\* The counts are kept until the reader crashes, which ends the process.
Sound == reader = "crashed" \/ Counts

\* Every step keeps the counts.
LEMMA StepCounts == IInv /\ Sound /\ [Next]_vars => Sound'
<1> SUFFICES ASSUME IInv, Sound, [Next]_vars
             PROVE  Sound'
    OBVIOUS
<1>1. CASE reader = "crashed"
    <2>1. UNCHANGED vars
        BY <1>1 DEF Next, MainStep, MainDeclares, MainWaits, MainWaited, MainDestroys,
            MainDestroyed, MainDropsAlerts, MainExecutes, MainPasses, TimerBegins, TimerExecutes,
            TimerPasses, TimerEnds, ReactionBegins, ReactionExecutes, ReactionPasses,
            ReactionEnds, ReaderMoves, StreamEnds, At, Running
    <2> QED
        BY <1>1, <2>1 DEF Sound, vars, reactVars
<1>2. CASE reader # "crashed"
    <2>1. Counts
        BY <1>2 DEF Sound
    <2>2. CASE \E s \in Stmts : MainExecutes(s)
        BY <2>1, <2>2, MainExecutesCounts DEF Sound
    <2>3. CASE TimerExecutes \/ ReactionExecutes
        BY <2>1, <2>3, TimerExecutesCounts, ReactionExecutesCounts DEF Sound
    <2>4. CASE \E t \in Timers : TimerBegins(t)
        BY <2>1, <2>4, TimerBeginsCounts DEF Sound
    <2>5. CASE ReactionBegins \/ ReactionEnds
        BY <2>1, <2>5, ReactionBeginsCounts, ReactionEndsCounts DEF Sound
    <2>6. CASE OtherStep
        BY <2>1, <2>6, OthersCount DEF Sound
    <2>7. CASE TimerPasses \/ ReactionPasses \/ \E s \in Stmts : MainPasses(s)
        BY <1>2, <2>1, <2>7, MainPassesCounts, CallbackPassesCounts DEF Sound
    <2> QED
        BY <2>2, <2>3, <2>4, <2>5, <2>6, <2>7 DEF Next, MainStep, OtherStep
<1> QED
    BY <1>1, <1>2

\* The counts are right in every reachable state.
LEMMA CountsInvariance == Spec => [](IInv /\ Sound)
<1>1. Init => IInv /\ Sound
    BY InitIInv, InitCounts DEF Sound
<1>2. (IInv /\ Sound) /\ [Next]_vars => (IInv /\ Sound)'
    BY StepIInv, StepCounts
<1> QED
    BY <1>1, <1>2, PTL DEF Spec

\* However reactions, timers and main interleave: no statement, in a reaction or not, is
\* executed more often than the script says.
THEOREM NoneRunsTooOften == Spec => [](reader # "crashed" => NeverTooOften)
<1>1. IInv /\ Sound => (reader # "crashed" => NeverTooOften)
    <2> SUFFICES ASSUME IInv, Counts, reader # "crashed", NEW s \in Stmts
                 PROVE  made[s] <= Executions[s]
        BY DEF Sound, NeverTooOften
    <2>1. made[s] + Todo(s) <= Executions[s]
        BY Bounded
    <2>2. made[s] \in Nat /\ Todo(s) \in {0, 1} /\ Executions[s] \in Nat
        BY ExecutionsAre DEF IInv, Types, Todo
    <2> QED
        BY <2>1, <2>2
<1> QED
    BY CountsInvariance, <1>1, PTL

\* When main returns, only timers that a reaction created are unfinished, and whatever
\* stands in no reaction has been executed once for each run of its block, or at most so
\* often in an if.
THEOREM TimersHaveRun == Spec => []TimersAllRun
<1>1. IInv /\ Sound => TimersAllRun
    <2> SUFFICES ASSUME IInv, Counts, reader # "crashed", done = Code
                 PROVE  /\ \A t \in pending : InReaction(t[1])
                        /\ \A s \in Stmts : Plain(s) => Agrees(s, made[s], Reached(s))
        BY DEF TimersAllRun, Exited, Plain, Sound, Agrees
    <2>1. ASSUME NEW t \in pending
          PROVE  InReaction(t[1])
        <3>1. t[1] \in Stmts /\ Kind[t[1]] = "schedule"
            BY DEF IInv, Types, TimersOfStatements
        <3>2. Did("wait", "schedule")
            BY <3>1, DeclaredFirst DEF Did, Code, Waited
        <3> QED
            BY <3>2 DEF IInv, TimersAfterWait
    <2>2. \A k \in Used : Did("destroy", k)
        BY DEF Did, Code, Destroyed
    <2>3. ASSUME NEW s \in Stmts, Plain(s), Parent[s] = 0
          PROVE  Agrees(s, made[s], Reached(s))
        <3>1. s \in Children(0) /\ Reached(s) = 1
            BY <2>3 DEF Children, Reached
        <3>2. Did("execute", s)
            BY <3>1 DEF Did, Code
        <3> QED
            BY <3>1, <3>2 DEF Counts, TopsOnce
    <2>4. ASSUME NEW s \in Stmts, Plain(s), Parent[s] # 0
          PROVE  Agrees(s, made[s], Reached(s))
        <3>1. PICK p \in Stmts : p = Parent[s] /\ s \in Children(p)
            BY <2>4, ParentIs
        <3>2. Plain(p) /\ Kind[p] = "schedule"
            BY <2>4, <3>1, PlainParent
        <3>3. Todo(s) = 0
            <4>1. s \notin reactTodo
                BY <3>1, <3>2, TodoStands DEF Children
            <4>2. busy = None
                BY <2>2, <3>2, DeclaredFirst DEF IInv, TimersStopped
            <4> QED
                BY <4>1, <4>2 DEF IInv, TimerBlock, Todo
        <3>4. Begun(p) = Runs(p)
            <4>1. \A i \in 1 .. made[p] : <<p, i>> \notin pending
                BY <2>1, <3>2 DEF Plain
            <4>2. \A i \in 1 .. made[p] : left[<<p, i>>] = 0
                BY <3>2, <4>1 DEF Counts, TimersCounted
            <4>3. made[p] \in Nat /\ Iterations[p] \in Nat
                BY ScriptAssumption DEF IInv, Types
            <4> QED
                BY <3>2, <4>2, <4>3 DEF Begun, Runs
        <3>5. Cardinality(Runs(p)) = Reached(s)
            BY <2>4, <3>1, RunsAre DEF IInv, Reached
        <3>6. Agrees(s, made[s] + Todo(s), Cardinality(Begun(p)))
            BY <3>1 DEF Counts, BlocksCounted
        <3>7. made[s] + Todo(s) = made[s]
            BY <3>3 DEF IInv, Types
        <3> QED
            BY <3>4, <3>5, <3>6, <3>7
    <2> QED
        BY <2>1, <2>3, <2>4
<1> QED
    BY CountsInvariance, <1>1, PTL

-----------------------------------------------------------------------------
(***************************************************************************)
(* The process as the user of its managers.                                *)
(***************************************************************************)

\* After a crash nothing moves.
LEMMA CrashedIsStill == reader = "crashed" /\ [Next]_vars => UNCHANGED vars
BY DEF Next, MainStep, MainDeclares, MainWaits, MainWaited, MainDestroys, MainDestroyed,
    MainDropsAlerts, MainExecutes, MainPasses, TimerBegins, TimerExecutes, TimerPasses,
    TimerEnds, ReactionBegins, ReactionExecutes, ReactionPasses, ReactionEnds, ReaderMoves,
    StreamEnds, At, Running

\* An execution asks the managers for what they offer, or leaves them alone.
LEMMA ExecutionAsks ==
    ASSUME NEW s \in Stmts, Instance(s) \in Instances(Kind[s]),
           Execute(s, ThreadRegisters(s)) \/ Execute(s, CallbackRegisters(s))
    PROVE  [Timer!Next]_timerVars /\ [Reactor!Next]_reactVars
<1>1. Iterations[s] \in Nat
    BY ScriptAssumption
<1>2. CASE Kind[s] = "schedule"
    <2>1. Timer!Create(Instance(s), Iterations[s]) /\ UNCHANGED reactVars
        BY <1>2 DEF Execute, SendsAlert
    <2>2. Instance(s) \in Timers
        BY <1>2 DEF Timers
    <2> QED
        BY <1>1, <2>1, <2>2 DEF Timer!Next
<1>3. CASE Kind[s] = "reacton"
    <2>1. /\ ThreadRegisters(s) \/ CallbackRegisters(s)
          /\ UNCHANGED timerVars
        BY <1>3 DEF Execute, SendsAlert
    <2>2. Instance(s) \in Reactions
        BY <1>3 DEF Reactions
    <2> QED
        BY <1>1, <2>1, <2>2 DEF Reactor!Next, ThreadRegisters, CallbackRegisters
<1>4. CASE Kind[s] \notin {"schedule", "reacton"}
    BY <1>4 DEF Execute, SendsAlert
<1> QED
    BY <1>2, <1>3, <1>4

\* Each step of the process is a step of the managers, or leaves them alone.
LEMMA StepAsks ==
    ASSUME IInv, Sound, [Next]_vars
    PROVE  [Timer!Next]_timerVars /\ [Reactor!Next]_reactVars
<1>1. CASE reader = "crashed"
    BY <1>1, CrashedIsStill DEF vars
<1>2. CASE reader # "crashed"
    <2>1. Counts
        BY <1>2 DEF Sound
    <2>2. CASE \E s \in Stmts : MainExecutes(s)
        <3>1. PICK s \in Stmts : MainExecutes(s)
            BY <2>2
        <3>2. Execute(s, ThreadRegisters(s))
            BY <3>1 DEF MainExecutes
        <3> QED
            BY <2>1, <3>1, <3>2, MainExecutesCounts, ExecutionAsks
    <2>3. CASE TimerExecutes
        <3>1. NextIn(timerTodo) \in Stmts
            BY <2>3, NextInBlock DEF IInv, Types, TimerExecutes
        <3>2. PICK s \in Stmts : s = NextIn(timerTodo)
            BY <3>1
        <3>3. Execute(s, ThreadRegisters(s))
            BY <2>3, <3>2 DEF TimerExecutes
        <3>4. Instance(s) \in Instances(Kind[s])
            BY <2>1, <2>3, <3>2, TimerExecutesCounts
        <3> QED
            BY <3>3, <3>4, ExecutionAsks
    <2>4. CASE ReactionExecutes
        <3>1. NextIn(reactTodo) \in Stmts
            BY <2>4, NextInBlock DEF IInv, Types, ReactionExecutes
        <3>2. PICK s \in Stmts : s = NextIn(reactTodo)
            BY <3>1
        <3>3. Execute(s, CallbackRegisters(s))
            BY <2>4, <3>2 DEF ReactionExecutes
        <3>4. Instance(s) \in Instances(Kind[s])
            BY <2>1, <2>4, <3>2, ReactionExecutesCounts
        <3> QED
            BY <3>3, <3>4, ExecutionAsks
    <2>5. CASE \E t \in Timers : TimerBegins(t)
        BY <2>5 DEF TimerBegins, Timer!Next
    <2>6. CASE ReactionBegins \/ ReactionEnds \/ ReaderMoves \/ StreamEnds
        BY <2>6 DEF ReactionBegins, ReactionEnds, ReaderMoves, StreamEnds, Reactor!Next,
            Reactor!ReaderStep
    <2>7. CASE TimerEnds
        BY <2>7 DEF TimerEnds, Timer!Next
    <2>8. ASSUME NEW k \in Managers, MainWaits(k) \/ MainWaited(k)
          PROVE  [Timer!Next]_timerVars /\ [Reactor!Next]_reactVars
        BY <2>8 DEF MainWaits, MainWaited, Timer!Next, Reactor!Next, Reactor!OwnerStep
    <2>9. ASSUME NEW k \in Managers, MainDestroys(k) \/ MainDestroyed(k)
          PROVE  [Timer!Next]_timerVars /\ [Reactor!Next]_reactVars
        BY <2>9 DEF MainDestroys, MainDestroyed, Timer!Next, Reactor!Next, Reactor!OwnerStep
    <2>10. ASSUME NEW k \in Managers, MainDeclares(k) \/ MainDropsAlerts
           PROVE  [Timer!Next]_timerVars /\ [Reactor!Next]_reactVars
        BY <2>10 DEF MainDeclares, MainDropsAlerts
    <2>11. CASE UNCHANGED vars
        BY <2>11 DEF vars
    <2>12. CASE TimerPasses \/ ReactionPasses \/ \E s \in Stmts : MainPasses(s)
        BY <2>12 DEF TimerPasses, ReactionPasses, MainPasses, PassesOver
    <2> QED
        BY <2>2, <2>3, <2>4, <2>5, <2>6, <2>7, <2>8, <2>9, <2>10, <2>11, <2>12
            DEF Next, MainStep, Managers
<1> QED
    BY <1>1, <1>2

\* What the process does with timer_manager is what a user of TimerContract may do: it
\* creates each timer once, and closes the manager when nobody waits for it.
THEOREM UsesTimersByContract == Spec => Timer!Spec
<1>1. Init => Timer!Init
    BY DEF Init
<1>2. IInv /\ Sound /\ [Next]_vars => [Timer!Next]_Timer!vars
    BY StepAsks DEF timerVars, Timer!vars
<1> QED
    BY CountsInvariance, <1>1, <1>2, PTL DEF Spec, Timer!Spec

\* And every behaviour of the process is one of reacton_service.
THEOREM UsesReactionsByService == Spec => Reactor!Spec
<1>1. Init => Reactor!Init
    BY DEF Init
<1>2. IInv /\ Sound /\ [Next]_vars => [Reactor!Next]_Reactor!vars
    BY StepAsks DEF reactVars, Reactor!vars, Reactor!registered, Reactor!loop, Reactor!history
<1> QED
    BY CountsInvariance, <1>1, <1>2, PTL DEF Spec, Reactor!Spec

-----------------------------------------------------------------------------
(***************************************************************************)
(* What is proved of reacton_service alone is true of it in the process.   *)
(***************************************************************************)

Service == INSTANCE ReactOnServiceProofs WITH
    MaxCounts <- Nat, InitCapacity <- 0, CountCap <- 0

\* The module of the proofs speaks of the service that the process uses.
LEMMA SameService ==
    /\ Reactor!Init => Service!Init
    /\ [Reactor!Next]_Reactor!vars => [Service!Next]_Service!vars
    /\ Service!FiresWithinMax => Reactor!FiresWithinMax
    /\ Service!UpdateReachesAll => Reactor!UpdateReachesAll
BY DEF
    Reactor!ThreadRegisters, Service!ThreadRegisters, Reactor!CallbackRegisters,
    Service!CallbackRegisters, Reactor!RegisterReaction, Service!RegisterReaction,
    Reactor!ReadsUpdate, Service!ReadsUpdate, Reactor!ReadFails, Service!ReadFails,
    Reactor!SkipsExhausted, Service!SkipsExhausted, Reactor!CallsReaction,
    Service!CallsReaction, Reactor!CallbackReturns, Service!CallbackReturns, Reactor!Decides,
    Service!Decides, Reactor!Finishes, Service!Finishes, Reactor!Crashes, Service!Crashes,
    Reactor!WaitForCompletion, Service!WaitForCompletion, Reactor!Destroy, Service!Destroy,
    Reactor!Joined, Service!Joined, Reactor!Destroyed, Service!Destroyed, Reactor!StreamEnds,
    Service!StreamEnds, Reactor!ReaderStep, Service!ReaderStep, Reactor!OwnerStep,
    Service!OwnerStep, Reactor!Next, Service!Next, Reactor!Init, Service!Init, Reactor!Elements,
    Service!Elements, Reactor!Exhausted, Service!Exhausted, Reactor!InLoop, Service!InLoop,
    Reactor!GrownCapacity, Service!GrownCapacity, Reactor!NextElement, Service!NextElement,
    Reactor!NextCount, Service!NextCount, Reactor!UsesFreedElement, Service!UsesFreedElement,
    Reactor!ShouldStopReading, Service!ShouldStopReading, Reactor!Forever, Service!Forever,
    Reactor!loop, Service!loop, Reactor!registered, Service!registered, Reactor!history,
    Service!history, Reactor!vars, Service!vars, Reactor!FiresWithinMax, Service!FiresWithinMax,
    Reactor!UpdateReachesAll, Service!UpdateReachesAll

\* Whatever the script: no reaction is called more often than its ReactOn says, and an
\* update reaches every reaction that was waiting for it.
THEOREM ReactionsKeepPromises == Spec =>
    [](Reactor!FiresWithinMax /\ Reactor!UpdateReachesAll)
<1>1. Service!ReactOnAssumption
    BY DEF Service!ReactOnAssumption
<1>2. /\ Service!Spec => []Service!FiresWithinMax
      /\ Service!Spec => []Service!UpdateReachesAll
    BY <1>1, Service!ReactionsFireWithinMax, Service!UpdatesReachAll
<1> QED
    BY UsesReactionsByService, SameService, <1>2, PTL DEF Service!Spec, Reactor!Spec
=============================================================================
