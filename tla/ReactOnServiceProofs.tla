------------------------ MODULE ReactOnServiceProofs ------------------------
(***************************************************************************)
(* What holds of ReactOnService for every set of reactions, of repetition  *)
(* counts, and every capacity at which the vector starts.                  *)
(***************************************************************************)
EXTENDS ReactOnService, TLAPS

\* A reaction that is not registered yet has not been executed, and no limit is a
\* negative number other than the one that means for ever.
CountsOfFresh ==
    /\ \A r \in Reactions \ Elements : current_count[r] = 0
    /\ \A r \in Reactions : max_count[r] = Forever \/ max_count[r] >= 0

\* What the update found stays registered.
DueAreRegistered == \A r \in due : \E i \in 1 .. end : reactions[i] = r

\* Has the loop decided about the reaction at i?
Visited(i) == i < at \/ (reader = "call" /\ i = at)

\* Inside the range-for: behind the loop, the reactions called are those that were due;
\* in front of it, those due are still the ones that are not exhausted.
LoopKeepsCount ==
    InLoop =>
        /\ at <= end + 1
        /\ reader = "call" => at <= end /\ ~Exhausted(reactions[at])
        /\ \A r \in called : r \in due /\ \E i \in 1 .. end : Visited(i) /\ reactions[i] = r
        /\ \A i \in 1 .. end : Visited(i) /\ reactions[i] \in due => reactions[i] \in called
        /\ \A i \in 1 .. end : ~Visited(i) =>
               (reactions[i] \in due <=> ~Exhausted(reactions[i]))

IInv ==
    /\ TypeOK
    /\ CountsOfFresh
    /\ DueAreRegistered
    /\ LoopKeepsCount
    /\ FiresWithinMax

-----------------------------------------------------------------------------

\* push_back leaves what was registered where it was, and adds one reaction behind it.
LEMMA PushBack ==
    ASSUME TypeOK, NEW r \in Reactions, NEW n \in MaxCounts, RegisterReaction(r, n)
    PROVE  /\ reactions' \in Seq(Reactions)
           /\ Len(reactions') = Len(reactions) + 1
           /\ \A i \in 1 .. Len(reactions) : reactions'[i] = reactions[i]
           /\ reactions'[Len(reactions) + 1] = r
           /\ Elements' = Elements \cup {r}
           /\ r \notin Elements
<1>1. reactions' = Append(reactions, r) /\ reactions \in Seq(Reactions) /\ r \notin Elements
    BY DEF RegisterReaction, TypeOK
<1>2. /\ reactions' \in Seq(Reactions)
      /\ Len(reactions') = Len(reactions) + 1
      /\ \A i \in 1 .. Len(reactions) : reactions'[i] = reactions[i]
      /\ reactions'[Len(reactions) + 1] = r
    BY <1>1
<1>3. Len(reactions) \in Nat
    BY <1>1
<1>4. Elements' = Elements \cup {r}
    BY <1>2, <1>3 DEF Elements
<1> QED
    BY <1>1, <1>2, <1>4

\* Nothing is registered at the start, and no update has come.
LEMMA InitIInv == Init => IInv
<1> SUFFICES ASSUME Init
             PROVE  IInv
    OBVIOUS
<1>1. TypeOK
    <2>1. reactions = <<>> /\ Len(reactions) = 0 /\ reactions \in Seq(Reactions)
        BY DEF Init
    <2>2. \A i \in 1 .. Len(reactions) : FALSE
        BY <2>1
    <2>3. /\ max_count \in [Reactions -> Int]
          /\ current_count \in [Reactions -> Nat]
          /\ at \in Nat \ {0}
          /\ end \in 0 .. Len(reactions)
        BY <2>1 DEF Init
    <2>4. capacity \in Nat /\ Len(reactions) <= capacity
        BY <2>1, ReactOnAssumption DEF Init
    <2>5. /\ stop \in BOOLEAN /\ stream \in {"open", "ended"} /\ reader \in ReaderPCs
          /\ stale \in BOOLEAN /\ owner \in OwnerPCs
          /\ due \subseteq Reactions /\ called \subseteq Reactions
        BY DEF Init, ReaderPCs, OwnerPCs
    <2> QED
        BY <2>1, <2>2, <2>3, <2>4, <2>5 DEF TypeOK
<1>2. CountsOfFresh /\ DueAreRegistered
    BY DEF Init, CountsOfFresh, DueAreRegistered
<1>3. LoopKeepsCount
    BY DEF Init, LoopKeepsCount, InLoop
<1>4. FiresWithinMax
    BY DEF Init, FiresWithinMax, Elements
<1> QED
    BY <1>1, <1>2, <1>3, <1>4 DEF IInv

\* A registration, by whoever and whenever, preserves it: the loop looks at nothing
\* behind the end that it took.
LEMMA RegisterIInv ==
    ASSUME IInv, NEW r \in Reactions, NEW n \in MaxCounts, RegisterReaction(r, n)
    PROVE  IInv'
<1> USE DEF IInv
<1>1. /\ reactions' \in Seq(Reactions)
      /\ Len(reactions') = Len(reactions) + 1
      /\ \A i \in 1 .. Len(reactions) : reactions'[i] = reactions[i]
      /\ reactions'[Len(reactions) + 1] = r
      /\ Elements' = Elements \cup {r}
      /\ r \notin Elements
    BY PushBack
<1>2. /\ UNCHANGED <<current_count, stop, stream, reader, at, end, owner, due, called>>
      /\ max_count' = [max_count EXCEPT ![r] = n]
    BY DEF RegisterReaction, history
<1>3. /\ n = Forever \/ n \in Nat
      /\ Len(reactions) \in Nat
      /\ end \in 0 .. Len(reactions)
      /\ at \in Nat \ {0}
      /\ max_count \in [Reactions -> Int]
      /\ current_count \in [Reactions -> Nat]
      /\ \A i \in 1 .. Len(reactions) : reactions[i] \in Elements /\ reactions[i] \in Reactions
      /\ \A i \in 1 .. end : i \in 1 .. Len(reactions)
    BY ReactOnAssumption DEF TypeOK, Forever, Elements
<1>4. \A x \in Reactions \ {r} : max_count'[x] = max_count[x] /\ (Exhausted(x) <=> Exhausted(x)')
    BY <1>2, <1>3 DEF Exhausted
<1>5. TypeOK'
    <2>1. \A i, j \in 1 .. Len(reactions') : reactions'[i] = reactions'[j] => i = j
        <3> SUFFICES ASSUME NEW i \in 1 .. Len(reactions) + 1, NEW j \in 1 .. Len(reactions) + 1,
                            reactions'[i] = reactions'[j]
                     PROVE  i = j
            BY <1>1
        <3>1. i \in 1 .. Len(reactions) \/ i = Len(reactions) + 1
            BY <1>3
        <3>2. j \in 1 .. Len(reactions) \/ j = Len(reactions) + 1
            BY <1>3
        <3> QED
            BY <1>1, <1>3, <3>1, <3>2 DEF TypeOK
    <2>2. capacity' \in Nat /\ Len(reactions') <= capacity' /\ stale' \in BOOLEAN
        <3>1. CASE Len(reactions) < capacity
            BY <1>1, <1>3, <3>1 DEF TypeOK, RegisterReaction
        <3>2. CASE ~(Len(reactions) < capacity)
            <4>1. capacity' = GrownCapacity /\ stale' = (stale \/ InLoop)
                BY <3>2 DEF RegisterReaction
            <4>2. capacity \in Nat /\ Len(reactions) = capacity
                BY <1>3, <3>2 DEF TypeOK
            <4> QED
                BY <1>1, <4>1, <4>2 DEF GrownCapacity, TypeOK, InLoop
        <3> QED
            BY <3>1, <3>2
    <2>3. max_count' \in [Reactions -> Int]
        BY <1>2, <1>3 DEF Forever
    <2> QED
        BY <1>1, <1>2, <1>3, <2>1, <2>2, <2>3 DEF TypeOK
<1>6. CountsOfFresh'
    BY <1>1, <1>2, <1>3 DEF CountsOfFresh, Forever
<1>7. DueAreRegistered'
    <2> SUFFICES ASSUME NEW x \in due
                 PROVE  \E i \in 1 .. end : reactions'[i] = x
        BY <1>2 DEF DueAreRegistered
    <2>1. PICK i \in 1 .. end : reactions[i] = x
        BY DEF DueAreRegistered
    <2> QED
        BY <1>1, <1>3, <2>1
<1>8. LoopKeepsCount'
    <2>1. ASSUME NEW i \in 1 .. end
          PROVE  /\ reactions'[i] = reactions[i]
                 /\ max_count'[reactions[i]] = max_count[reactions[i]]
        <3>1. reactions'[i] = reactions[i] /\ reactions[i] # r /\ reactions[i] \in Reactions
            BY <1>1, <1>3
        <3> QED
            BY <1>4, <3>1
    <2> SUFFICES ASSUME InLoop
                 PROVE  /\ at <= end + 1
                        /\ reader = "call" => at <= end /\ ~Exhausted(reactions[at])'
                        /\ \A x \in called : x \in due /\ \E i \in 1 .. end :
                               Visited(i) /\ reactions'[i] = x
                        /\ \A i \in 1 .. end :
                               Visited(i) /\ reactions'[i] \in due => reactions'[i] \in called
                        /\ \A i \in 1 .. end : ~Visited(i) =>
                               (reactions'[i] \in due <=> ~Exhausted(reactions[i])')
        BY <1>2 DEF LoopKeepsCount, InLoop, Visited, Exhausted
    <2>2. reader = "call" => at \in 1 .. end /\ ~Exhausted(reactions[at])
        BY <1>3 DEF LoopKeepsCount
    <2>3. \A i \in 1 .. end : Exhausted(reactions[i])' <=> Exhausted(reactions[i])
        BY <1>2, <2>1 DEF Exhausted
    <2>4. reader = "call" => ~Exhausted(reactions[at])'
        BY <1>2, <2>1, <2>2 DEF Exhausted
    <2> QED
        BY <2>1, <2>2, <2>3, <2>4 DEF LoopKeepsCount
<1>9. FiresWithinMax'
    <2>1. reader = "call" => at \in 1 .. Len(reactions) /\ reactions'[at] = reactions[at]
                             /\ reactions[at] # r
        <3>1. reader = "call" => at <= end
            BY DEF LoopKeepsCount, InLoop
        <3>2. at \in Nat \ {0} /\ end \in 0 .. Len(reactions) /\ Len(reactions) \in Nat
            BY DEF TypeOK
        <3>3. reader = "call" => at \in 1 .. Len(reactions)
            BY <3>1, <3>2
        <3> QED
            BY <1>1, <1>3, <3>3
    <2>2. current_count[r] = 0
        BY <1>1 DEF CountsOfFresh
    <2>3. \A x \in Elements : x \in Reactions /\ x # r
        BY <1>1, <1>3 DEF Elements
    <2> QED
        BY <1>1, <1>2, <1>3, <1>4, <2>1, <2>2, <2>3 DEF FiresWithinMax, Forever
<1> QED
    BY <1>5, <1>6, <1>7, <1>8, <1>9

\* An update finds the reactions that are not exhausted, and the loop begins in front of
\* the first.
LEMMA ReadIInv == IInv /\ ReadsUpdate => IInv'
<1> SUFFICES ASSUME IInv, ReadsUpdate
             PROVE  IInv'
    OBVIOUS
<1> USE DEF IInv
<1>1. /\ reader = "read" /\ reader' = "scan" /\ stream = "open"
      /\ at' = 1 /\ end' = Len(reactions) /\ stale' = FALSE
      /\ due' = {r \in Elements : ~Exhausted(r)} /\ called' = {}
      /\ UNCHANGED <<reactions, capacity, max_count, current_count, stop, stream, owner>>
    BY DEF ReadsUpdate, registered
<1>2. /\ Len(reactions) \in Nat
      /\ \A i \in 1 .. Len(reactions) : reactions[i] \in Elements
      /\ Elements \subseteq Reactions
      /\ \A r \in Elements : \E i \in 1 .. Len(reactions) : reactions[i] = r
    BY DEF TypeOK, Elements
<1>3. TypeOK'
    <2>1. due' \subseteq Reactions /\ called' \subseteq Reactions
        BY <1>1, <1>2
    <2>2. at' \in Nat \ {0}
        BY <1>1
    <2>4. stale' \in BOOLEAN
        BY <1>1
    <2>3. reactions' = reactions /\ end' \in 0 .. Len(reactions)
        BY <1>1, <1>2
    <2> QED
        BY <1>1, <2>1, <2>2, <2>3, <2>4 DEF TypeOK, ReaderPCs
<1>4. CountsOfFresh' /\ FiresWithinMax'
    BY <1>1 DEF CountsOfFresh, FiresWithinMax, Elements
<1>5. DueAreRegistered'
    BY <1>1, <1>2 DEF DueAreRegistered
<1>6. LoopKeepsCount'
    <2>1. \A i \in 1 .. Len(reactions) : ~(i < 1)
        BY <1>2
    <2>2. \A r \in Elements : Exhausted(r)' <=> Exhausted(r)
        BY <1>1 DEF Exhausted
    <2> QED
        BY <1>1, <1>2, <2>1, <2>2 DEF LoopKeepsCount, InLoop, Visited, Exhausted
<1> QED
    BY <1>3, <1>4, <1>5, <1>6

\* The steps of the loop keep its account: a reaction is skipped or called once, and its
\* count advances only when it is behind the loop.
LEMMA LoopIInv ==
    IInv /\ (SkipsExhausted \/ CallsReaction \/ CallbackReturns) => IInv'
<1> SUFFICES ASSUME IInv, SkipsExhausted \/ CallsReaction \/ CallbackReturns
             PROVE  IInv'
    OBVIOUS
<1> USE DEF IInv
<1>1. /\ UNCHANGED <<reactions, capacity, max_count, stop, stream, end, stale, owner, due>>
      /\ InLoop /\ InLoop'
      /\ Elements' = Elements
    BY DEF SkipsExhausted, CallsReaction, CallbackReturns, registered, history, loop,
           InLoop, Elements
<1>2. /\ end \in Nat /\ at \in Nat \ {0} /\ at \in 1 .. end
      /\ \A i \in 1 .. end : i \in 1 .. Len(reactions) /\ reactions[i] \in Reactions
      /\ \A i, j \in 1 .. end : reactions[i] = reactions[j] => i = j
    BY DEF SkipsExhausted, CallsReaction, CallbackReturns, TypeOK, LoopKeepsCount, InLoop
<1>3. \A i \in 1 .. end : i < at \/ i = at \/ i > at
    BY <1>2
<1>4. DueAreRegistered'
    BY <1>1 DEF InLoop, DueAreRegistered
<1>5. CASE SkipsExhausted
    <2>1. /\ reader = "scan" /\ reader' = "scan" /\ at' = at + 1 /\ called' = called
          /\ current_count' = current_count /\ Exhausted(reactions[at])
        BY <1>5 DEF SkipsExhausted, NextElement, history
    <2>2. TypeOK'
        BY <1>1, <1>2, <2>1 DEF TypeOK
    <2>3. CountsOfFresh' /\ FiresWithinMax'
        BY <1>1, <2>1 DEF CountsOfFresh, FiresWithinMax
    <2>4. LoopKeepsCount'
        <3>1. \A i \in 1 .. end : Visited(i)' <=> Visited(i) \/ i = at
            BY <1>2, <1>3, <2>1 DEF Visited
        <3>2. reactions[at] \notin due
            BY <1>1, <1>2, <2>1 DEF LoopKeepsCount, Visited
        <3>3. \A i \in 1 .. end : Exhausted(reactions[i])' <=> Exhausted(reactions[i])
            BY <1>1, <2>1 DEF Exhausted
        <3> QED
            BY <1>1, <1>2, <2>1, <3>1, <3>2, <3>3 DEF LoopKeepsCount
    <2> QED
        BY <1>4, <2>2, <2>3, <2>4
<1>6. CASE CallsReaction
    <2>1. /\ reader = "scan" /\ reader' = "call" /\ at' = at
          /\ called' = called \cup {reactions[at]}
          /\ current_count' = current_count /\ ~Exhausted(reactions[at])
        BY <1>6 DEF CallsReaction, loop
    <2>2. TypeOK'
        BY <1>1, <1>2, <2>1 DEF TypeOK, ReaderPCs
    <2>3. CountsOfFresh'
        BY <1>1, <2>1 DEF CountsOfFresh
    <2>4. FiresWithinMax'
        <3>1. ASSUME NEW r \in Elements, max_count[r] # Forever, r = reactions[at]
              PROVE  current_count[r] + 1 <= max_count[r]
            BY <1>2, <2>1, <3>1 DEF TypeOK, Exhausted
        <3> QED
            BY <1>1, <2>1, <3>1 DEF FiresWithinMax
    <2>5. LoopKeepsCount'
        <3>1. \A i \in 1 .. end : Visited(i)' <=> Visited(i) \/ i = at
            BY <1>2, <1>3, <2>1 DEF Visited
        <3>2. reactions[at] \in due
            BY <1>1, <1>2, <2>1 DEF LoopKeepsCount, Visited
        <3>3. \A i \in 1 .. end : Exhausted(reactions[i])' <=> Exhausted(reactions[i])
            BY <1>1, <2>1 DEF Exhausted
        <3> QED
            BY <1>1, <1>2, <2>1, <3>1, <3>2, <3>3 DEF LoopKeepsCount
    <2> QED
        BY <1>4, <2>2, <2>3, <2>4, <2>5
<1>7. CASE CallbackReturns
    <2>1. /\ reader = "call" /\ reader' = "scan" /\ at' = at + 1 /\ called' = called
          /\ current_count' = [current_count EXCEPT ![reactions[at]] = NextCount(reactions[at])]
        BY <1>7 DEF CallbackReturns, NextElement, history
    <2>2. reactions[at] \in Elements /\ reactions[at] \in Reactions
        BY <1>2 DEF Elements
    <2>3. NextCount(reactions[at]) \in Nat
        BY <2>2, ReactOnAssumption DEF NextCount, TypeOK
    <2>4. TypeOK'
        BY <1>1, <1>2, <2>1, <2>2, <2>3 DEF TypeOK, ReaderPCs
    <2>5. CountsOfFresh'
        BY <1>1, <2>1, <2>2 DEF CountsOfFresh, TypeOK
    <2>6. FiresWithinMax'
        <3>1. ASSUME NEW r \in Elements, max_count[r] # Forever
              PROVE  current_count'[r] <= max_count[r]
            <4>1. r \in Reactions
                BY DEF Elements, TypeOK
            <4>2. CASE r = reactions[at]
                BY <2>1, <2>2, <3>1, <4>1, <4>2 DEF FiresWithinMax, NextCount, TypeOK
            <4>3. CASE r # reactions[at]
                BY <2>1, <3>1, <4>1, <4>3 DEF FiresWithinMax, TypeOK
            <4> QED
                BY <4>2, <4>3
        <3>2. \A r \in Elements : current_count'[r] \in Nat
            BY <2>4 DEF TypeOK, Elements
        <3> QED
            BY <1>1, <2>1, <3>1, <3>2 DEF FiresWithinMax
    <2>7. LoopKeepsCount'
        <3>1. \A i \in 1 .. end : Visited(i)' <=> Visited(i)
            BY <1>2, <1>3, <2>1 DEF Visited
        <3>2. \A i \in 1 .. end : ~Visited(i) => i # at
            BY <2>1 DEF Visited
        <3>3. \A i \in 1 .. end :
                  i # at => (Exhausted(reactions[i])' <=> Exhausted(reactions[i]))
            BY <1>1, <1>2, <2>1, <2>2 DEF Exhausted, TypeOK
        <3> QED
            BY <1>1, <1>2, <2>1, <3>1, <3>2, <3>3 DEF LoopKeepsCount
    <2> QED
        BY <1>4, <2>4, <2>5, <2>6, <2>7
<1> QED
    BY <1>5, <1>6, <1>7

\* The reader's other steps, the owner's, and the end of the stream: the reader quits a
\* stream that is open only on stop_ or when everything registered is exhausted.
LEMMA OutsideIInv ==
    ASSUME IInv,
           \/ ReadFails \/ Crashes \/ Decides \/ Finishes
           \/ WaitForCompletion \/ Joined \/ Destroy \/ Destroyed
           \/ StreamEnds
    PROVE  IInv'
<1> USE DEF IInv
<1>1. UNCHANGED <<reactions, capacity, max_count, current_count, at, end, stale, due, called>>
    BY DEF ReadFails, Crashes, Decides, Finishes, WaitForCompletion, Joined, Destroy,
           Destroyed, StreamEnds, registered, loop, history
<1>2. Elements' = Elements
    BY <1>1 DEF Elements
<1>3. reader' = reader \/ reader' \in {"read", "finish", "gone", "crashed"}
    BY DEF ReadFails, Crashes, Decides, Finishes, WaitForCompletion, Joined, Destroy,
           Destroyed, StreamEnds
<1>4. TypeOK'
    <2>1. stop' \in BOOLEAN /\ stream' \in {"open", "ended"}
        BY DEF ReadFails, Crashes, Decides, Finishes, WaitForCompletion, Joined, Destroy,
               Destroyed, StreamEnds, TypeOK
    <2>2. reader' \in ReaderPCs
        BY <1>3 DEF TypeOK, ReaderPCs
    <2>3. owner' \in OwnerPCs
        BY DEF ReadFails, Crashes, Decides, Finishes, WaitForCompletion, Joined, Destroy,
               Destroyed, StreamEnds, TypeOK, OwnerPCs
    <2> QED
        BY <1>1, <2>1, <2>2, <2>3 DEF TypeOK
<1>5. CountsOfFresh' /\ DueAreRegistered'
    BY <1>1, <1>2 DEF CountsOfFresh, DueAreRegistered
<1>6. LoopKeepsCount'
    <2>1. CASE reader' = reader
        BY <1>1, <2>1 DEF LoopKeepsCount, InLoop, Visited, Exhausted
    <2>2. CASE reader' \in {"read", "finish", "gone", "crashed"}
        BY <2>2 DEF LoopKeepsCount, InLoop
    <2> QED
        BY <1>3, <2>1, <2>2
<1>7. FiresWithinMax'
    <2>1. reader' = "call" => reader = "call"
        BY <1>3
    <2>2. \A r \in Elements : current_count[r] \in Nat /\ max_count[r] \in Int
        BY DEF TypeOK, Elements
    <2> QED
        BY <1>1, <1>2, <2>1, <2>2 DEF FiresWithinMax
<1> QED
    BY <1>4, <1>5, <1>6, <1>7

\* Every step preserves it.
LEMMA StepIInv == IInv /\ [Next]_vars => IInv'
<1> SUFFICES ASSUME IInv, [Next]_vars
             PROVE  IInv'
    OBVIOUS
<1>1. ASSUME NEW r \in Reactions, NEW n \in MaxCounts,
             ThreadRegisters(r, n) \/ CallbackRegisters(r, n)
      PROVE  IInv'
    BY <1>1, RegisterIInv DEF ThreadRegisters, CallbackRegisters
<1>2. CASE ReaderStep
    BY <1>2, ReadIInv, LoopIInv, OutsideIInv DEF ReaderStep
<1>3. CASE Crashes \/ WaitForCompletion \/ Destroy \/ StreamEnds
    BY <1>3, OutsideIInv
<1>4. CASE OwnerStep
    BY <1>4, OutsideIInv DEF OwnerStep
<1>5. CASE UNCHANGED vars
    <2>1. UNCHANGED <<reactions, capacity, max_count, current_count, stop, stream, reader,
                      at, end, stale, owner, due, called>>
        BY <1>5 DEF vars, registered, loop, history
    <2> USE <2>1 DEF IInv
    <2>2. TypeOK'
        BY DEF TypeOK
    <2>3. CountsOfFresh' /\ DueAreRegistered'
        BY DEF CountsOfFresh, DueAreRegistered, Elements
    <2>4. LoopKeepsCount'
        BY DEF LoopKeepsCount, InLoop, Visited, Exhausted
    <2>5. FiresWithinMax'
        BY DEF FiresWithinMax, Elements, Exhausted
    <2> QED
        BY <2>2, <2>3, <2>4, <2>5
<1> QED
    BY <1>1, <1>2, <1>3, <1>4, <1>5 DEF Next

\* Together: the invariant holds in every state of every behaviour.
THEOREM Invariance == Spec => []IInv
BY InitIInv, StepIInv, PTL DEF Spec

-----------------------------------------------------------------------------

\* The types of the state; no reaction is registered twice, and the vector never holds
\* more than its capacity.
THEOREM TypeCorrect == Spec => []TypeOK
<1>1. IInv => TypeOK
    BY DEF IInv
<1> QED
    BY Invariance, <1>1, PTL

\* No reaction is executed more often than it was asked for, the call that is under way
\* included, although its count is advanced after the callback and reactions are added
\* meanwhile.
THEOREM ReactionsFireWithinMax == Spec => []FiresWithinMax
<1>1. IInv => FiresWithinMax
    BY DEF IInv
<1> QED
    BY Invariance, <1>1, PTL

\* At the end of the range-for, the reactions it called are those that were registered
\* and not exhausted when the update came.
THEOREM UpdatesReachAll == Spec => []UpdateReachesAll
<1>1. IInv => UpdateReachesAll
    <2> SUFFICES ASSUME IInv, reader = "scan", at > end
                 PROVE  called = due
        BY DEF UpdateReachesAll
    <2>1. LoopKeepsCount /\ InLoop /\ DueAreRegistered
        BY DEF IInv, InLoop
    <2>2. \A i \in 1 .. end : Visited(i)
        BY DEF IInv, TypeOK, Visited
    <2> QED
        BY <2>1, <2>2 DEF LoopKeepsCount, DueAreRegistered
<1> QED
    BY Invariance, <1>1, PTL

\* No reaction is called twice for one update: the one that is called was due and has
\* not been called yet, wherever the loop is and whatever was registered meanwhile.
THEOREM ReactionsOncePerUpdate == Spec => OncePerUpdate
<1>1. ASSUME IInv, reader = "scan", reader' = "call", Next
      PROVE  reactions[at] \in due \ called
    <2>1. at <= end /\ ~Exhausted(reactions[at])
        BY <1>1 DEF Next, ThreadRegisters, CallbackRegisters, RegisterReaction, ReaderStep,
            ReadsUpdate, ReadFails, SkipsExhausted, CallsReaction, CallbackReturns, Decides,
            Finishes, Crashes, WaitForCompletion, Destroy, OwnerStep, Joined, Destroyed,
            StreamEnds
    <2>2. InLoop /\ LoopKeepsCount
        BY <1>1 DEF IInv, InLoop
    <2>6. /\ at \in 1 .. end
          /\ \A i \in 1 .. end : i \in 1 .. Len(reactions)
        BY <1>1, <2>1 DEF IInv, TypeOK
    <2>7. \A i, j \in 1 .. end : reactions[i] = reactions[j] => i = j
        BY <1>1, <2>6 DEF IInv, TypeOK
    <2>3. ~Visited(at)
        BY <1>1, <2>6 DEF Visited, IInv, TypeOK
    <2>4. reactions[at] \in due
        BY <2>1, <2>2, <2>3, <2>6 DEF LoopKeepsCount
    <2>5. reactions[at] \notin called
        BY <2>2, <2>3, <2>6, <2>7 DEF LoopKeepsCount
    <2> QED
        BY <2>4, <2>5
<1>2. IInv /\ [Next]_vars =>
          [reader = "scan" /\ reader' = "call" => reactions[at] \in due \ called]_vars
    BY <1>1
<1> QED
    BY Invariance, <1>2, PTL DEF Spec, OncePerUpdate
=============================================================================
