--------------------------- MODULE FileMakerProofs ---------------------------
(***************************************************************************)
(* The main FileMaker generates, for every script: managers are declared   *)
(* before they are used and captured where they are, the waits close main, *)
(* variable_types_ is what C++ sees, and the numbers of timers and         *)
(* reactions are positive.                                                 *)
(***************************************************************************)
EXTENDS GeneratedMain, FiniteSetTheorems, SequenceTheorems,
        WellFoundedInduction, TLAPS

-----------------------------------------------------------------------------
(***************************************************************************)
(* Sequences that get one more element, whatever their elements are.       *)
(***************************************************************************)
IsSeq(s) == s \in Seq(Range(s))

\* t is s and the line behind it.
Extended(s, t, line) ==
    /\ Len(s) \in Nat /\ DOMAIN s = 1..Len(s)
    /\ Len(t) = Len(s) + 1 /\ DOMAIN t = 1..Len(s) + 1
    /\ \A i \in 1..Len(s) : t[i] = s[i]
    /\ t[Len(s) + 1] = line

\* Append is such an extension.
LEMMA AppendExtends ==
    ASSUME NEW s, IsSeq(s), NEW line
    PROVE  IsSeq(Append(s, line)) /\ Extended(s, Append(s, line), line)
<1> DEFINE S == Range(s) \cup {line}
<1>1. s \in Seq(S)
    BY SeqMonotonic DEF IsSeq
<1>2. /\ Append(s, line) \in Seq(S) /\ Len(Append(s, line)) = Len(s) + 1
      /\ \A i \in 1..Len(s) : Append(s, line)[i] = s[i]
      /\ Append(s, line)[Len(s) + 1] = line
    <2>1. line \in S
        OBVIOUS
    <2> HIDE DEF S
    <2> QED
        BY <1>1, <2>1, AppendProperties
<1>3. DOMAIN s = 1..Len(s) /\ Len(s) \in Nat /\ DOMAIN Append(s, line) = 1..Len(s) + 1
    BY <1>1, <1>2
<1> QED
    <2> HIDE DEF S
    <2>1. \A r : r \in Seq(S) => IsSeq(r)
        BY SeqOfRange DEF IsSeq
    <2> QED
        BY <1>2, <1>3, <2>1 DEF Extended

\* Every nonempty set of natural numbers has a least element.
LEMMA LeastExists ==
    ASSUME NEW T, T \subseteq Nat, T # {}
    PROVE  \E x \in T : \A y \in T : x <= y
<1> DEFINE R == {p \in Nat \X Nat : p[1] < p[2]}
<1>1. IsWellFoundedOn(R, Nat)
    BY NatLessThanWellFounded DEF OpToRel
<1>2. \A x, y \in Nat : <<y, x>> \notin R => x <= y
    OBVIOUS
<1> HIDE DEF R
<1>3. PICK x \in T : \A y \in T : <<y, x>> \notin R
    BY <1>1, WFMin
<1> QED
    BY <1>2, <1>3

\* Every nonempty set of natural numbers up to n has a greatest element.
LEMMA GreatestExists ==
    ASSUME NEW n \in Nat, NEW T, T \subseteq Nat, T # {}, \A x \in T : x <= n
    PROVE  \E x \in T : \A y \in T : y <= x
<1> DEFINE U == {n - y : y \in T}
<1>1. \A y \in T : n - y \in Nat
    OBVIOUS
<1>2. U \subseteq Nat /\ U # {}
    BY <1>1
<1>3. PICK u \in U : \A v \in U : u <= v
    BY <1>2, LeastExists
<1>4. PICK x \in T : u = n - x
    BY <1>3
<1>5. ASSUME NEW y \in T
      PROVE  y <= x
    <2>1. n - y \in U
        OBVIOUS
    <2>2. n - x <= n - y
        BY <1>3, <1>4, <2>1
    <2> QED
        BY <2>2
<1> QED
    BY <1>5

-----------------------------------------------------------------------------
(***************************************************************************)
(* Nesting.                                                                *)
(***************************************************************************)
Step(line) == IF Opens(line) THEN 1 ELSE IF Closes(line) THEN -1 ELSE 0

\* How many of the first numbers are in S, with one number more.
LEMMA CountStep ==
    ASSUME NEW S, NEW n \in Nat
    PROVE  /\ Cardinality({i \in 1..n : i \in S}) \in Nat
           /\ Cardinality({i \in 1..n + 1 : i \in S})
                = Cardinality({i \in 1..n : i \in S}) + IF n + 1 \in S THEN 1 ELSE 0
<1>1. IsFiniteSet(1..n) /\ 1..n + 1 = 1..n \cup {n + 1} /\ n + 1 \notin 1..n
    BY FS_Interval
<1>2. IsFiniteSet({i \in 1..n : i \in S})
    BY <1>1, FS_Subset
<1>3. Cardinality({i \in 1..n : i \in S}) \in Nat
    BY <1>2, FS_CardinalityType
<1>4. CASE n + 1 \in S
    <2>1. {i \in 1..n + 1 : i \in S} = {i \in 1..n : i \in S} \cup {n + 1}
        BY <1>1, <1>4
    <2>2. n + 1 \notin {i \in 1..n : i \in S}
        BY <1>1
    <2> QED
        BY <1>2, <1>3, <1>4, <2>1, <2>2, FS_AddElement
<1>5. CASE n + 1 \notin S
    <2>1. {i \in 1..n + 1 : i \in S} = {i \in 1..n : i \in S}
        BY <1>1, <1>5
    <2> QED
        BY <1>3, <1>5, <2>1
<1> QED
    BY <1>3, <1>4, <1>5

\* One line more opens a block, closes one, or neither.
LEMMA NestingStep ==
    ASSUME NEW lines, NEW n \in Nat
    PROVE  /\ Nesting(lines, 0) = 0
           /\ Nesting(lines, n) \in Int
           /\ Nesting(lines, n + 1) = Nesting(lines, n) + Step(lines[n + 1])
<1> DEFINE O == {i \in Nat : Opens(lines[i])}
           C == {i \in Nat : Closes(lines[i])}
<1>1. \A m \in Nat : /\ {i \in 1..m : i \in O} = {i \in 1..m : Opens(lines[i])}
                     /\ {i \in 1..m : i \in C} = {i \in 1..m : Closes(lines[i])}
    OBVIOUS
<1>2. n + 1 \in Nat /\ (n + 1 \in O <=> Opens(lines[n + 1]))
        /\ (n + 1 \in C <=> Closes(lines[n + 1]))
    OBVIOUS
<1>3. ~(Opens(lines[n + 1]) /\ Closes(lines[n + 1]))
    BY DEF Opens, Closes
<1>4. {i \in 1..0 : Opens(lines[i])} = {} /\ {i \in 1..0 : Closes(lines[i])} = {}
        /\ Cardinality({}) = 0
    BY FS_EmptySet
<1>5. Nesting(lines, 0) = 0
    BY <1>4 DEF Nesting
<1> HIDE DEF O, C
<1>6. /\ Cardinality({i \in 1..n : i \in O}) \in Nat
      /\ Cardinality({i \in 1..n + 1 : i \in O})
           = Cardinality({i \in 1..n : i \in O}) + IF n + 1 \in O THEN 1 ELSE 0
    BY CountStep
<1>7. /\ Cardinality({i \in 1..n : i \in C}) \in Nat
      /\ Cardinality({i \in 1..n + 1 : i \in C})
           = Cardinality({i \in 1..n : i \in C}) + IF n + 1 \in C THEN 1 ELSE 0
    BY CountStep
<1>8. /\ Nesting(lines, n) = Cardinality({i \in 1..n : i \in O})
                               - Cardinality({i \in 1..n : i \in C})
      /\ Nesting(lines, n + 1) = Cardinality({i \in 1..n + 1 : i \in O})
                                   - Cardinality({i \in 1..n + 1 : i \in C})
    BY <1>1, <1>2 DEF Nesting
<1> QED
    BY <1>2, <1>3, <1>5, <1>6, <1>7, <1>8 DEF Step

\* Nesting looks at the first n lines only.
LEMMA NestingOfPrefix ==
    ASSUME NEW s, NEW t, NEW n \in Nat, \A i \in 1..n : t[i] = s[i]
    PROVE  Nesting(t, n) = Nesting(s, n)
<1>1. /\ {i \in 1..n : Opens(t[i])} = {i \in 1..n : Opens(s[i])}
      /\ {i \in 1..n : Closes(t[i])} = {i \in 1..n : Closes(s[i])}
    OBVIOUS
<1> QED
    BY <1>1 DEF Nesting

\* A line more leaves the nesting of the lines before it.
LEMMA NestingExtended ==
    ASSUME NEW s, NEW t, NEW line, Extended(s, t, line)
    PROVE  /\ \A n \in 0..Len(s) : Nesting(t, n) = Nesting(s, n) /\ Nesting(t, n) \in Int
           /\ Nesting(t, Len(s) + 1) = Nesting(s, Len(s)) + Step(line)
           /\ Nesting(s, Len(s)) \in Int /\ Nesting(t, Len(s) + 1) \in Int
<1>1. ASSUME NEW n \in 0..Len(s)
      PROVE  Nesting(t, n) = Nesting(s, n) /\ Nesting(t, n) \in Int
    <2>1. n \in Nat /\ \A i \in 1..n : t[i] = s[i]
        BY DEF Extended
    <2> QED
        BY <2>1, NestingOfPrefix, NestingStep
<1>2. Len(s) \in Nat /\ Len(s) \in 0..Len(s) /\ t[Len(s) + 1] = line
    BY DEF Extended
<1>3. /\ Nesting(t, Len(s) + 1) = Nesting(t, Len(s)) + Step(t[Len(s) + 1])
      /\ Nesting(t, Len(s)) \in Int
    BY <1>2, NestingStep
<1>4. Step(line) \in Int
    BY DEF Step
<1> QED
    BY <1>1, <1>2, <1>3, <1>4

\* A block is still open after a line more when the nesting is not below its own.
LEMMA StaysOpenExtended ==
    ASSUME NEW s, NEW t, NEW line, Extended(s, t, line)
    PROVE  /\ \A j \in 1..Len(s), n \in 0..Len(s) : StaysOpen(t, j, n) <=> StaysOpen(s, j, n)
           /\ \A j \in 1..Len(s) :
                 StaysOpen(t, j, Len(s) + 1) <=>
                    /\ StaysOpen(s, j, Len(s))
                    /\ Nesting(t, Len(s) + 1) >= Nesting(s, j)
           /\ StaysOpen(t, Len(s) + 1, Len(s) + 1) <=> Opens(line)
<1>1. /\ Len(s) \in Nat /\ t[Len(s) + 1] = line
      /\ \A i \in 1..Len(s) : t[i] = s[i]
    BY DEF Extended
<1>2. /\ \A n \in 0..Len(s) : Nesting(t, n) = Nesting(s, n) /\ Nesting(t, n) \in Int
      /\ Nesting(t, Len(s) + 1) \in Int
    BY NestingExtended
<1>3. ASSUME NEW j \in 1..Len(s), NEW n \in 0..Len(s)
      PROVE  StaysOpen(t, j, n) <=> StaysOpen(s, j, n)
    <2>1. j \in 0..Len(s) /\ \A k \in j..n : k \in 0..Len(s)
        BY <1>1
    <2> QED
        BY <1>1, <1>2, <2>1 DEF StaysOpen
<1>4. ASSUME NEW j \in 1..Len(s)
      PROVE  StaysOpen(t, j, Len(s) + 1) <=>
                /\ StaysOpen(s, j, Len(s))
                /\ Nesting(t, Len(s) + 1) >= Nesting(s, j)
    <2>1. j \in 0..Len(s) /\ \A k \in j..Len(s) : k \in 0..Len(s)
        BY <1>1
    <2>2. j..Len(s) + 1 = j..Len(s) \cup {Len(s) + 1}
        BY <1>1
    <2>3. \A k \in j..Len(s) : Nesting(t, k) = Nesting(s, k)
        BY <1>2, <2>1
    <2>4. Opens(t[j]) <=> Opens(s[j])
        BY <1>1
    <2>5. Nesting(t, j) = Nesting(s, j)
        BY <1>2, <2>1
    <2> QED
        BY <2>2, <2>3, <2>4, <2>5 DEF StaysOpen
<1>5. StaysOpen(t, Len(s) + 1, Len(s) + 1) <=> Opens(line)
    <2>1. \A k \in Len(s) + 1..Len(s) + 1 : k = Len(s) + 1
        BY <1>1
    <2>2. Nesting(t, Len(s) + 1) >= Nesting(t, Len(s) + 1)
        BY <1>2
    <2> QED
        BY <1>1, <2>1, <2>2 DEF StaysOpen
<1> QED
    BY <1>3, <1>4, <1>5

\* The blocks around a line do not change, and those around a new one are the open ones.
LEMMA EnclosesExtended ==
    ASSUME NEW s, NEW t, NEW line, Extended(s, t, line)
    PROVE  /\ \A i \in 1..Len(s), j \in 1..Len(s) + 1 : Encloses(t, j, i) =>
                  j \in 1..Len(s) /\ Encloses(s, j, i)
           /\ \A j \in 1..Len(s) + 1 : Encloses(t, j, Len(s) + 1) =>
                  j \in 1..Len(s) /\ StaysOpen(s, j, Len(s))
<1>1. Len(s) \in Nat
    BY DEF Extended
<1>2. ASSUME NEW i \in 1..Len(s), NEW j \in 1..Len(s) + 1, Encloses(t, j, i)
      PROVE  j \in 1..Len(s) /\ Encloses(s, j, i)
    <2>1. j < i /\ StaysOpen(t, j, i - 1)
        BY <1>2 DEF Encloses
    <2>2. j \in 1..Len(s) /\ i - 1 \in 0..Len(s)
        BY <1>1, <2>1
    <2> QED
        BY <2>1, <2>2, StaysOpenExtended DEF Encloses
<1>3. ASSUME NEW j \in 1..Len(s) + 1, Encloses(t, j, Len(s) + 1)
      PROVE  j \in 1..Len(s) /\ StaysOpen(s, j, Len(s))
    <2>1. j < Len(s) + 1 /\ StaysOpen(t, j, Len(s) + 1 - 1)
        BY <1>3 DEF Encloses
    <2>2. j \in 1..Len(s) /\ Len(s) + 1 - 1 = Len(s) /\ Len(s) \in 0..Len(s)
        BY <1>1, <2>1
    <2>3. StaysOpen(t, j, Len(s))
        BY <2>1, <2>2
    <2> QED
        BY <2>2, <2>3, StaysOpenExtended
<1> QED
    BY <1>2, <1>3

-----------------------------------------------------------------------------
(***************************************************************************)
(* What the blocks of a command need.  Below(c) is what lies below c, as   *)
(* the least set that has the commands of its blocks and of theirs.        *)
(***************************************************************************)
Commands == UNION {CommandsIn(s) : s \in Scripts}

\* The commands of the lists q.
Listed(q) == {d \in Commands : \E b \in DOMAIN q : \E i \in DOMAIN q[b] : d = q[b][i]}

Children(c) == Listed(Blocks(c))

Closed(S) == \A d \in S : Children(d) \subseteq S

Below(c) == {d \in Commands : \A S \in SUBSET Commands :
                                  Children(c) \subseteq S /\ Closed(S) => d \in S}

Needs(c) == {ManagerOf(d) : d \in Below(c)} \ {None}

\* The commands below c are closed under going to the commands of a block.
LEMMA BelowIsClosed ==
    ASSUME NEW c
    PROVE  /\ Below(c) \subseteq Commands
           /\ Children(c) \subseteq Below(c)
           /\ \A d \in Below(c) : Children(d) \subseteq Below(c)
           /\ \A d \in Below(c) : Below(d) \subseteq Below(c)
           /\ \A d \in Children(c) : Below(d) \subseteq Below(c)
<1>1. Below(c) \subseteq Commands /\ Children(c) \subseteq Below(c)
    BY DEF Below, Children, Listed
<1>2. ASSUME NEW d \in Below(c), NEW e \in Children(d)
      PROVE  e \in Below(c)
    <2>1. e \in Commands
        BY DEF Children, Listed
    <2> SUFFICES ASSUME NEW S \in SUBSET Commands, Children(c) \subseteq S, Closed(S)
                 PROVE  e \in S
        BY <2>1 DEF Below
    <2>2. d \in S
        BY DEF Below
    <2> QED
        BY <2>2 DEF Closed
<1>3. Closed(Below(c)) /\ Below(c) \in SUBSET Commands
    BY <1>1, <1>2 DEF Closed
<1>4. ASSUME NEW d \in Below(c)
      PROVE  Below(d) \subseteq Below(c)
    <2>1. Children(d) \subseteq Below(c)
        BY <1>2
    <2> QED
        BY <1>3, <2>1 DEF Below
<1> QED
    BY <1>1, <1>2, <1>4

\* What lies below c is a command of its blocks or lies below one.
LEMMA BelowIsLeast ==
    ASSUME NEW c, NEW e \in Below(c)
    PROVE  e \in Children(c) \/ \E d \in Children(c) : e \in Below(d)
<1> DEFINE S == {x \in Commands : x \in Children(c) \/ \E d \in Children(c) : x \in Below(d)}
<1>1. Children(c) \subseteq S
    BY DEF Children, Listed
<1>2. Closed(S)
    <2> SUFFICES ASSUME NEW x \in S, NEW y \in Children(x)
                 PROVE  y \in S
        BY DEF Closed
    <2>1. y \in Commands
        BY DEF Children, Listed
    <2>2. CASE x \in Children(c)
        <3>1. y \in Below(x)
            BY BelowIsClosed
        <3> QED
            BY <2>1, <2>2, <3>1
    <2>3. CASE \E d \in Children(c) : x \in Below(d)
        <3>1. PICK d \in Children(c) : x \in Below(d)
            BY <2>3
        <3>2. y \in Below(d)
            BY <3>1, BelowIsClosed
        <3> QED
            BY <2>1, <3>1, <3>2
    <2> QED
        BY <2>2, <2>3
<1>3. S \in SUBSET Commands
    OBVIOUS
<1>4. e \in S
    BY <1>1, <1>2, <1>3 DEF Below
<1> QED
    BY <1>4

-----------------------------------------------------------------------------
(***************************************************************************)
(* The open blocks of main are the frames of work.                         *)
(***************************************************************************)
\* s has as many open blocks as w has calls of MakeBlock.
Balanced(s, w) ==
    /\ Len(w) \in Nat \ {0}
    /\ Nesting(s, Len(s)) = Len(w) - 1
    /\ \A n \in 0..Len(s) : Nesting(s, n) >= 0

\* A line that opens a block of c.
Opener(line, c) ==
    /\ line.code = "CreateTimer" => c.type = "Schedule"
    /\ line.code # "if" => Needs(c) \subseteq line.captures

\* The line that opened a block that is still open belongs to the frame at its depth.
OpenLines(s, w) ==
    \A j \in 1..Len(s) :
        StaysOpen(s, j, Len(s)) => Opener(s[j], w[Nesting(s, j) + 1].command)

\* Every lambda around a use of a manager captures the manager.
UsesCaptured(s) ==
    \A i, j \in 1..Len(s) :
        Encloses(s, j, i) /\ s[j].code # "if" /\ s[i].manager # None
          => s[i].manager \in s[j].captures

Timed(line) == line.seconds \in 1..MaxInt /\ line.repeat \in 1..MaxInt

EndsTimed(s) ==
    \A i, j \in 1..Len(s) : Ends(s, j, i) /\ s[j].code = "CreateTimer" => Timed(s[i])

\* A line that stays open is at a depth work has a frame for.
LEMMA OpenHasFrame ==
    ASSUME NEW s, NEW w, Len(s) \in Nat, Balanced(s, w),
           NEW j \in 1..Len(s), StaysOpen(s, j, Len(s))
    PROVE  Nesting(s, j) \in Int /\ Nesting(s, j) + 1 \in 2..Len(w)
<1>1. Len(s) \in j..Len(s) /\ Len(s) \in Nat /\ Len(w) \in Nat
    BY DEF Balanced
<1>2. Nesting(s, j) <= Len(w) - 1
    BY <1>1 DEF Balanced, StaysOpen
<1>3. j - 1 \in Nat /\ (j - 1) + 1 = j /\ j - 1 \in 0..Len(s)
    OBVIOUS
<1>4. Nesting(s, j) = Nesting(s, j - 1) + 1 /\ Nesting(s, j - 1) \in Int
    <2>1. Nesting(s, (j - 1) + 1) = Nesting(s, j - 1) + Step(s[(j - 1) + 1])
        BY <1>3, NestingStep
    <2>2. Nesting(s, j - 1) \in Int
        BY <1>3, NestingStep
    <2> QED
        BY <1>3, <2>1, <2>2 DEF StaysOpen, Step
<1>5. Nesting(s, j - 1) >= 0
    BY <1>3 DEF Balanced
<1> QED
    BY <1>1, <1>2, <1>4, <1>5

\* v is work after a line: it has the frames of w that are left, and one more if the line
\* opens a block.
Follows(w, v, line) ==
    /\ Len(v) \in Nat \ {0} /\ Len(v) = Len(w) + Step(line)
    /\ \A k \in 1..Len(w) : k <= Len(v) =>
          /\ v[k].command = w[k].command
          /\ v[k].prev_variable_types = w[k].prev_variable_types

\* A line more keeps the open lines and the frames of work in step.
LEMMA OpenLinesExtended ==
    ASSUME NEW s, NEW t, NEW line, Extended(s, t, line), NEW w, NEW v,
           Balanced(s, w), OpenLines(s, w), Follows(w, v, line),
           Opens(line) => Opener(line, v[Len(v)].command)
    PROVE  Balanced(t, v) /\ OpenLines(t, v)
<1>1. /\ Len(s) \in Nat /\ Len(t) = Len(s) + 1 /\ t[Len(s) + 1] = line
      /\ \A i \in 1..Len(s) : t[i] = s[i]
      /\ Len(w) \in Nat \ {0} /\ Len(v) \in Nat \ {0}
    BY DEF Extended, Balanced, Follows
<1>2. /\ \A n \in 0..Len(s) : Nesting(t, n) = Nesting(s, n) /\ Nesting(t, n) \in Int
      /\ Nesting(t, Len(s) + 1) = Len(v) - 1
    <2>1. /\ \A n \in 0..Len(s) : Nesting(t, n) = Nesting(s, n) /\ Nesting(t, n) \in Int
          /\ Nesting(t, Len(s) + 1) = Nesting(s, Len(s)) + Step(line)
        BY NestingExtended
    <2>2. Step(line) \in Int
        BY DEF Step
    <2> QED
        BY <1>1, <2>1, <2>2 DEF Balanced, Follows
<1>3. Balanced(t, v)
    <2>1. ASSUME NEW n \in 0..Len(t)
          PROVE  Nesting(t, n) >= 0
        <3>1. n \in 0..Len(s) \/ n = Len(s) + 1
            BY <1>1
        <3> QED
            BY <1>1, <1>2, <3>1 DEF Balanced
    <2> QED
        BY <1>1, <1>2, <2>1 DEF Balanced
<1>4. ASSUME NEW j \in 1..Len(s), StaysOpen(t, j, Len(s) + 1)
      PROVE  Opener(t[j], v[Nesting(t, j) + 1].command)
    <2>1. StaysOpen(s, j, Len(s)) /\ Nesting(t, Len(s) + 1) >= Nesting(s, j)
        BY <1>4, StaysOpenExtended
    <2>2. Nesting(s, j) \in Int /\ Nesting(s, j) + 1 \in 2..Len(w)
        BY <1>1, <2>1, OpenHasFrame
    <2>3. Nesting(s, j) + 1 <= Len(v)
        BY <1>1, <1>2, <2>1, <2>2
    <2>4. v[Nesting(s, j) + 1].command = w[Nesting(s, j) + 1].command
        BY <1>1, <2>2, <2>3 DEF Follows
    <2>5. Nesting(t, j) = Nesting(s, j) /\ t[j] = s[j]
        BY <1>1, <1>2
    <2> QED
        BY <2>1, <2>4, <2>5 DEF OpenLines
<1>5. ASSUME StaysOpen(t, Len(s) + 1, Len(s) + 1)
      PROVE  Opener(line, v[Nesting(t, Len(s) + 1) + 1].command)
    <2>1. Nesting(t, Len(s) + 1) + 1 = Len(v)
        BY <1>1, <1>2
    <2> QED
        BY <1>5, <2>1, StaysOpenExtended
<1>6. \A j \in 1..Len(t) : j \in 1..Len(s) \/ j = Len(s) + 1
    BY <1>1
<1> QED
    BY <1>1, <1>3, <1>4, <1>5, <1>6 DEF OpenLines

\* A line may use a manager that every frame of w needs.
NeededBy(line, w) ==
    line.manager # None => \A k \in 2..Len(w) : line.manager \in Needs(w[k].command)

\* A line keeps uses captured when the commands of the frames need its manager.
LEMMA UsesCapturedExtended ==
    ASSUME NEW s, NEW t, NEW line, Extended(s, t, line), NEW w,
           Balanced(s, w), OpenLines(s, w), UsesCaptured(s),
           NeededBy(line, w)
    PROVE  UsesCaptured(t)
<1>1. /\ Len(s) \in Nat /\ Len(t) = Len(s) + 1 /\ t[Len(s) + 1] = line
      /\ \A i \in 1..Len(s) : t[i] = s[i]
    BY DEF Extended
<1> SUFFICES ASSUME NEW i \in 1..Len(t), NEW j \in 1..Len(t),
                    Encloses(t, j, i), t[j].code # "if", t[i].manager # None
             PROVE  t[i].manager \in t[j].captures
    BY DEF UsesCaptured
<1>2. j \in 1..Len(s) + 1 /\ (i \in 1..Len(s) \/ i = Len(s) + 1)
    BY <1>1
<1>3. CASE i \in 1..Len(s)
    <2>1. j \in 1..Len(s) /\ Encloses(s, j, i)
        BY <1>2, <1>3, EnclosesExtended
    <2> QED
        BY <1>1, <1>3, <2>1 DEF UsesCaptured
<1>4. CASE i = Len(s) + 1
    <2>1. j \in 1..Len(s) /\ StaysOpen(s, j, Len(s))
        BY <1>2, <1>4, EnclosesExtended
    <2>2. Nesting(s, j) + 1 \in 2..Len(w)
        BY <1>1, <2>1, OpenHasFrame
    <2>3. Opener(s[j], w[Nesting(s, j) + 1].command)
        BY <2>1 DEF OpenLines
    <2>4. s[j].code # "if" /\ line.manager # None
        BY <1>1, <1>4, <2>1
    <2>5. line.manager \in s[j].captures
        BY <2>2, <2>3, <2>4 DEF Opener, NeededBy
    <2> QED
        BY <1>1, <1>4, <2>1, <2>5
<1> QED
    BY <1>2, <1>3, <1>4

\* Only a line that closes a block ends one, the block of the innermost frame.
LEMMA EndsTimedExtended ==
    ASSUME NEW s, NEW t, NEW line, Extended(s, t, line), NEW w,
           Balanced(s, w), OpenLines(s, w), EndsTimed(s),
           Closes(line) /\ w[Len(w)].command.type = "Schedule" => Timed(line)
    PROVE  EndsTimed(t)
<1>1. /\ Len(s) \in Nat /\ Len(t) = Len(s) + 1 /\ t[Len(s) + 1] = line
      /\ \A i \in 1..Len(s) : t[i] = s[i]
      /\ Len(w) \in Nat \ {0} /\ Nesting(s, Len(s)) = Len(w) - 1
    BY DEF Extended, Balanced
<1>2. /\ \A n \in 0..Len(s) : Nesting(t, n) = Nesting(s, n) /\ Nesting(t, n) \in Int
      /\ Nesting(t, Len(s) + 1) = Len(w) - 1 + Step(line)
    BY <1>1, NestingExtended
<1> SUFFICES ASSUME NEW i \in 1..Len(t), NEW j \in 1..Len(t),
                    Ends(t, j, i), t[j].code = "CreateTimer"
             PROVE  Timed(t[i])
    BY DEF EndsTimed
<1>3. Encloses(t, j, i) /\ Nesting(t, i) < Nesting(t, j)
    BY DEF Ends
<1>4. j \in 1..Len(s) + 1 /\ (i \in 1..Len(s) \/ i = Len(s) + 1)
    BY <1>1
<1>5. CASE i \in 1..Len(s)
    <2>1. j \in 1..Len(s) /\ Encloses(s, j, i)
        BY <1>3, <1>4, <1>5, EnclosesExtended
    <2>2. i \in 0..Len(s) /\ j \in 0..Len(s)
        BY <1>1, <1>5, <2>1
    <2>3. Nesting(s, i) < Nesting(s, j)
        BY <1>2, <1>3, <2>2
    <2>4. Ends(s, j, i) /\ s[j].code = "CreateTimer"
        BY <1>1, <2>1, <2>3 DEF Ends
    <2> QED
        BY <1>1, <1>5, <2>1, <2>4 DEF EndsTimed
<1>6. CASE i = Len(s) + 1
    <2>1. j \in 1..Len(s) /\ StaysOpen(s, j, Len(s))
        BY <1>3, <1>4, <1>6, EnclosesExtended
    <2>2. Nesting(s, j) \in Int /\ Nesting(s, j) + 1 \in 2..Len(w)
        BY <1>1, <2>1, OpenHasFrame
    <2>3. Nesting(t, j) = Nesting(s, j)
        BY <1>1, <1>2, <2>1
    <2>4. Len(w) - 1 + Step(line) < Nesting(s, j)
        BY <1>2, <1>3, <1>6, <2>3
    <2>5. Closes(line) /\ Nesting(s, j) + 1 = Len(w)
        BY <1>1, <2>2, <2>4 DEF Step
    <2>6. Opener(s[j], w[Len(w)].command) /\ s[j].code = "CreateTimer"
        BY <1>1, <2>1, <2>5 DEF OpenLines
    <2> QED
        BY <1>1, <1>6, <2>5, <2>6 DEF Opener
<1> QED
    BY <1>4, <1>5, <1>6

-----------------------------------------------------------------------------
(***************************************************************************)
(* Scopes.  Inside(s, d) is what is in scope after s and declared in the   *)
(* first d blocks that are open, main's own counted.                       *)
(***************************************************************************)
Inside(s, d) == {i \in Declarations(s, Len(s)) : Nesting(s, i) < d}

Unique(s) == \A i, j \in Declarations(s, Len(s)) : s[i].name = s[j].name => i = j

\* types has the names in scope of d blocks with the types they were defined with, but for
\* those that were retyped.
Agrees(s, d, types) ==
    /\ DOMAIN types = {s[i].name : i \in Inside(s, d)}
    /\ \A i \in Inside(s, d) :
          types[s[i].name] = s[i].type \/ s[i].name \in Retyped(s, Len(s))

\* What was known in the block of frame d of w when the next frame was entered, or is known
\* there now.
TypesAt(w, types, d) == IF d = Len(w) THEN types ELSE w[d + 1].prev_variable_types

VariablesIn(s, w, types) ==
    /\ Unique(s)
    /\ \A d \in 1..Len(w) : Agrees(s, d, TypesAt(w, types, d))

\* What is in scope after a line more: what was, unless the line ends its block.
LEMMA InScopeExtended ==
    ASSUME NEW s, NEW t, NEW line, Extended(s, t, line)
    PROVE  /\ \A n \in 0..Len(s) : \A i \in 1..n : InScope(t, i, n) <=> InScope(s, i, n)
           /\ \A i \in 1..Len(s) :
                 InScope(t, i, Len(s) + 1) <=>
                    /\ InScope(s, i, Len(s))
                    /\ Nesting(t, Len(s) + 1) >= Nesting(s, i)
                    /\ Branches(line) => Nesting(t, Len(s) + 1) > Nesting(s, i)
           /\ InScope(t, Len(s) + 1, Len(s) + 1) <=> line.declares /\ ~Branches(line)
<1>1. /\ Len(s) \in Nat /\ t[Len(s) + 1] = line
      /\ \A i \in 1..Len(s) : t[i] = s[i]
    BY DEF Extended
<1>2. /\ \A n \in 0..Len(s) : Nesting(t, n) = Nesting(s, n) /\ Nesting(t, n) \in Int
      /\ Nesting(t, Len(s) + 1) \in Int
    BY NestingExtended
<1>3. ASSUME NEW n \in 0..Len(s), NEW i \in 1..n
      PROVE  InScope(t, i, n) <=> InScope(s, i, n)
    <2>1. i \in 0..Len(s) /\ i \in 1..Len(s) /\ \A k \in i..n : k \in 0..Len(s) /\ k \in 1..Len(s)
        BY <1>1
    <2> QED
        BY <1>1, <1>2, <2>1 DEF InScope
<1>4. ASSUME NEW i \in 1..Len(s)
      PROVE  InScope(t, i, Len(s) + 1) <=>
                /\ InScope(s, i, Len(s))
                /\ Nesting(t, Len(s) + 1) >= Nesting(s, i)
                /\ Branches(line) => Nesting(t, Len(s) + 1) > Nesting(s, i)
    <2>1. i \in 0..Len(s) /\ \A k \in i..Len(s) : k \in 0..Len(s) /\ k \in 1..Len(s)
        BY <1>1
    <2>2. i..Len(s) + 1 = i..Len(s) \cup {Len(s) + 1}
        BY <1>1
    <2>3. \A k \in i..Len(s) : Nesting(t, k) = Nesting(s, k) /\ t[k] = s[k]
        BY <1>1, <1>2, <2>1
    <2>4. t[i] = s[i] /\ Nesting(t, i) = Nesting(s, i)
        BY <1>1, <1>2, <2>1
    <2> QED
        BY <1>1, <2>2, <2>3, <2>4 DEF InScope
<1>5. InScope(t, Len(s) + 1, Len(s) + 1) <=> line.declares /\ ~Branches(line)
    <2>1. \A k \in Len(s) + 1..Len(s) + 1 : k = Len(s) + 1
        BY <1>1
    <2>2. Len(s) + 1 \in Len(s) + 1..Len(s) + 1
        BY <1>1
    <2>3. /\ Nesting(t, Len(s) + 1) >= Nesting(t, Len(s) + 1)
          /\ ~(Nesting(t, Len(s) + 1) > Nesting(t, Len(s) + 1))
        BY <1>2
    <2> QED
        BY <1>1, <2>1, <2>2, <2>3 DEF InScope
<1> QED
    BY <1>3, <1>4, <1>5

\* Older lines see what they saw, so that what was retyped stays so.
LEMMA RetypedExtended ==
    ASSUME NEW s, NEW t, NEW line, Extended(s, t, line)
    PROVE  /\ Retyped(s, Len(s)) \subseteq Retyped(t, Len(t))
           /\ line.code = "set" /\ line.type # Visible(t, Len(t))[line.name]
                => line.name \in Retyped(t, Len(t))
<1>1. /\ Len(s) \in Nat /\ Len(t) = Len(s) + 1 /\ t[Len(s) + 1] = line
      /\ \A i \in 1..Len(s) : t[i] = s[i]
    BY DEF Extended
<1>2. ASSUME NEW n \in 1..Len(s)
      PROVE  Visible(t, n) = Visible(s, n)
    <2>1. n \in 0..Len(s) /\ \A i \in 1..n : i \in 1..Len(s)
        BY <1>1
    <2>2. \A i \in 1..n : InScope(t, i, n) <=> InScope(s, i, n)
        BY <2>1, InScopeExtended
    <2>3. Declarations(t, n) = Declarations(s, n)
        BY <2>2 DEF Declarations
    <2>4. \A i \in Declarations(s, n) : t[i] = s[i]
        BY <1>1, <2>1 DEF Declarations
    <2> DEFINE Names == {s[i].name : i \in Declarations(s, n)}
    <2>5. {t[i].name : i \in Declarations(t, n)} = Names
        BY <2>3, <2>4
    <2>6. ASSUME NEW x \in Names
          PROVE  t[Latest(t, n, x)].type = s[Latest(s, n, x)].type
        <3>1. Definitions(t, n, x) = Definitions(s, n, x)
            BY <2>3, <2>4 DEF Definitions
        <3>2. Latest(t, n, x) = Latest(s, n, x)
            BY <3>1 DEF Latest
        <3>3. Latest(s, n, x) \in Definitions(s, n, x)
            <4>1. Definitions(s, n, x) \subseteq 1..n /\ Definitions(s, n, x) # {}
                BY DEF Definitions, Declarations
            <4>2. Definitions(s, n, x) \subseteq Nat /\ \A i \in Definitions(s, n, x) : i <= n
                BY <2>1, <4>1
            <4>3. \E i \in Definitions(s, n, x) : \A k \in Definitions(s, n, x) : k <= i
                BY <2>1, <4>1, <4>2, GreatestExists
            <4> QED
                BY <4>3 DEF Latest
        <3> QED
            BY <2>4, <3>2, <3>3 DEF Definitions
    <2> HIDE DEF Names
    <2> QED
        BY <2>5, <2>6 DEF Visible, Names
<1>3. ASSUME NEW i \in 1..Len(s), s[i].code = "set", s[i].type # Visible(s, i)[s[i].name]
      PROVE  s[i].name \in Retyped(t, Len(t))
    <2>1. i \in 1..Len(t) /\ t[i] = s[i] /\ Visible(t, i) = Visible(s, i)
        BY <1>1, <1>2
    <2> QED
        BY <1>3, <2>1 DEF Retyped
<1>4. Retyped(s, Len(s)) \subseteq Retyped(t, Len(t))
    BY <1>3 DEF Retyped
<1>5. ASSUME line.code = "set", line.type # Visible(t, Len(t))[line.name]
      PROVE  line.name \in Retyped(t, Len(t))
    <2>1. Len(t) \in 1..Len(t) /\ t[Len(t)] = line
        BY <1>1
    <2> QED
        BY <1>5, <2>1 DEF Retyped
<1> QED
    BY <1>4, <1>5

\* What a variable is defined with is what C++ sees.
LEMMA VisibleIs ==
    ASSUME NEW s, Len(s) \in Nat, Unique(s), NEW i \in Declarations(s, Len(s))
    PROVE  Visible(s, Len(s))[s[i].name] = s[i].type
<1>1. i \in Definitions(s, Len(s), s[i].name)
    BY DEF Definitions
<1>2. \A k \in Definitions(s, Len(s), s[i].name) : k = i
    BY DEF Definitions, Unique
<1>3. i \in 1..Len(s)
    BY DEF Declarations
<1>4. \A k \in Definitions(s, Len(s), s[i].name) : k <= i
    BY <1>2, <1>3
<1>5. Latest(s, Len(s), s[i].name) = i
    BY <1>1, <1>2, <1>4 DEF Latest
<1> QED
    BY <1>5 DEF Visible

\* What is in scope at a line, and what the next line leaves of it.
LEMMA DeclarationsExtended ==
    ASSUME NEW s, NEW t, NEW line, Extended(s, t, line)
    PROVE  /\ \A i \in Declarations(s, Len(s)) :
                 /\ i \in 1..Len(s) /\ t[i] = s[i] /\ Nesting(t, i) = Nesting(s, i)
                 /\ Nesting(s, i) \in Int /\ Nesting(s, i) <= Nesting(s, Len(s))
           /\ \A i : i \in Declarations(t, Len(t)) <=>
                 \/ /\ i \in Declarations(s, Len(s))
                    /\ Nesting(t, Len(t)) >= Nesting(s, i)
                    /\ Branches(line) => Nesting(t, Len(t)) > Nesting(s, i)
                 \/ i = Len(t) /\ line.declares /\ ~Branches(line)
<1>1. /\ Len(s) \in Nat /\ Len(t) = Len(s) + 1 /\ t[Len(s) + 1] = line
      /\ \A i \in 1..Len(s) : t[i] = s[i]
    BY DEF Extended
<1>2. \A n \in 0..Len(s) : Nesting(t, n) = Nesting(s, n) /\ Nesting(t, n) \in Int
    BY NestingExtended
<1>3. ASSUME NEW i \in Declarations(s, Len(s))
      PROVE  /\ i \in 1..Len(s) /\ t[i] = s[i] /\ Nesting(t, i) = Nesting(s, i)
             /\ Nesting(s, i) \in Int /\ Nesting(s, i) <= Nesting(s, Len(s))
    <2>1. i \in 1..Len(s) /\ InScope(s, i, Len(s))
        BY DEF Declarations
    <2>2. i \in 0..Len(s) /\ Len(s) \in i..Len(s) /\ Len(s) \in 0..Len(s)
        BY <1>1, <2>1
    <2>3. Nesting(s, Len(s)) >= Nesting(s, i)
        BY <2>1, <2>2 DEF InScope
    <2> QED
        BY <1>1, <1>2, <2>1, <2>2, <2>3
<1>4. ASSUME NEW i
      PROVE  i \in Declarations(t, Len(t)) <=>
                \/ /\ i \in Declarations(s, Len(s))
                   /\ Nesting(t, Len(t)) >= Nesting(s, i)
                   /\ Branches(line) => Nesting(t, Len(t)) > Nesting(s, i)
                \/ i = Len(t) /\ line.declares /\ ~Branches(line)
    <2>1. i \in 1..Len(t) <=> i \in 1..Len(s) \/ i = Len(t)
        BY <1>1
    <2>2. ~(Len(t) \in 1..Len(s))
        BY <1>1
    <2>3. InScope(t, Len(t), Len(t)) <=> line.declares /\ ~Branches(line)
        BY <1>1, InScopeExtended
    <2>4. ASSUME i \in 1..Len(s)
          PROVE  InScope(t, i, Len(t)) <=>
                    /\ InScope(s, i, Len(s))
                    /\ Nesting(t, Len(t)) >= Nesting(s, i)
                    /\ Branches(line) => Nesting(t, Len(t)) > Nesting(s, i)
        BY <1>1, <2>4, InScopeExtended
    <2> QED
        BY <2>1, <2>2, <2>3, <2>4 DEF Declarations
<1> QED
    BY <1>3, <1>4

\* A line more does not change what types says of the declarations inside d.
LEMMA AgreesExtended ==
    ASSUME NEW s, NEW t, NEW line, Extended(s, t, line), NEW d, NEW e, NEW types,
           Agrees(s, e, types), Inside(t, d) = Inside(s, e)
    PROVE  Agrees(t, d, types)
<1>1. \A i \in Inside(s, e) : t[i] = s[i]
    BY DeclarationsExtended DEF Inside
<1>2. {t[i].name : i \in Inside(t, d)} = {s[i].name : i \in Inside(s, e)}
    BY <1>1
<1>3. DOMAIN types = {t[i].name : i \in Inside(t, d)}
    BY <1>2 DEF Agrees
<1>4. ASSUME NEW i \in Inside(t, d)
      PROVE  types[t[i].name] = t[i].type \/ t[i].name \in Retyped(t, Len(t))
    <2>1. types[s[i].name] = s[i].type \/ s[i].name \in Retyped(s, Len(s))
        BY DEF Agrees
    <2>2. t[i] = s[i]
        BY <1>1
    <2> QED
        BY <2>1, <2>2, RetypedExtended
<1> QED
    BY <1>3, <1>4 DEF Agrees

\* No name gets a second declaration in scope from a line that declares none.
LEMMA UniqueExtended ==
    ASSUME NEW s, NEW t, NEW line, Extended(s, t, line), Unique(s), ~line.declares
    PROVE  Unique(t)
<1>1. \A i \in Declarations(t, Len(t)) : i \in Declarations(s, Len(s)) /\ t[i] = s[i]
    BY DeclarationsExtended
<1> QED
    BY <1>1 DEF Unique

\* The end of a block or of a branch: what it declared is gone.
LEMMA VariablesLeft ==
    ASSUME NEW s, NEW t, NEW line, Extended(s, t, line), NEW w, NEW v, NEW types,
           Balanced(s, w), VariablesIn(s, w, types), Follows(w, v, line),
           Closes(line) \/ Branches(line), ~line.declares, Len(w) > 1
    PROVE  VariablesIn(t, v, w[Len(w)].prev_variable_types)
<1> DEFINE outer == w[Len(w)].prev_variable_types
<1>1. /\ Len(s) \in Nat /\ Len(w) \in Nat /\ Len(v) \in Nat \ {0}
      /\ Nesting(s, Len(s)) = Len(w) - 1
      /\ Len(t) = Len(s) + 1 /\ Nesting(t, Len(t)) = Len(v) - 1
    <2>1. /\ Len(s) \in Nat /\ Len(t) = Len(s) + 1
          /\ Len(w) \in Nat /\ Nesting(s, Len(s)) = Len(w) - 1
          /\ Len(v) \in Nat \ {0} /\ Len(v) = Len(w) + Step(line)
        BY DEF Extended, Balanced, Follows
    <2>2. Nesting(t, Len(s) + 1) = Nesting(s, Len(s)) + Step(line) /\ Step(line) \in Int
        BY NestingExtended DEF Step
    <2> QED
        BY <2>1, <2>2
<1>2. \/ Closes(line) /\ ~Branches(line) /\ Len(v) = Len(w) - 1
      \/ Branches(line) /\ ~Closes(line) /\ Len(v) = Len(w)
    <2>1. /\ Closes(line) => ~Branches(line) /\ ~Opens(line)
          /\ Branches(line) => ~Closes(line) /\ ~Opens(line)
        BY DEF Closes, Branches, Opens
    <2> QED
        BY <1>1, <2>1 DEF Follows, Step
<1>3. \A i : i \in Declarations(t, Len(t)) <=>
                i \in Declarations(s, Len(s)) /\ Nesting(s, i) < Len(w) - 1
    <2>1. ASSUME NEW i \in Declarations(s, Len(s))
          PROVE  i \in Declarations(t, Len(t)) <=> Nesting(s, i) < Len(w) - 1
        <3>1. Nesting(s, i) \in Int
            BY DeclarationsExtended
        <3>2. i # Len(t)
            BY <1>1 DEF Declarations
        <3>3. i \in Declarations(t, Len(t)) <=>
                /\ Nesting(t, Len(t)) >= Nesting(s, i)
                /\ Branches(line) => Nesting(t, Len(t)) > Nesting(s, i)
            BY <3>2, DeclarationsExtended
        <3> QED
            BY <1>1, <1>2, <3>1, <3>3
    <2>2. \A i : i \in Declarations(t, Len(t)) => i \in Declarations(s, Len(s))
        BY DeclarationsExtended
    <2> QED
        BY <2>1, <2>2
<1>4. ASSUME NEW d \in 1..Len(w) - 1
      PROVE  Inside(t, d) = Inside(s, d)
    <2>1. ASSUME NEW i \in Declarations(s, Len(s))
          PROVE  Nesting(t, i) = Nesting(s, i) /\ (Nesting(s, i) < d => Nesting(s, i) < Len(w) - 1)
        <3>1. Nesting(t, i) = Nesting(s, i) /\ Nesting(s, i) \in Int
            BY DeclarationsExtended
        <3> QED
            BY <1>1, <3>1
    <2> QED
        BY <1>3, <2>1 DEF Inside
<1>5. Agrees(t, Len(w) - 1, outer)
    <2>1. Len(w) - 1 \in 1..Len(w) /\ Len(w) - 1 \in 1..Len(w) - 1 /\ Len(w) - 1 # Len(w)
            /\ (Len(w) - 1) + 1 = Len(w)
        BY <1>1
    <2>2. Agrees(s, Len(w) - 1, TypesAt(w, types, Len(w) - 1))
        BY <2>1 DEF VariablesIn
    <2>3. TypesAt(w, types, Len(w) - 1) = outer
        BY <2>1 DEF TypesAt
    <2>4. Inside(t, Len(w) - 1) = Inside(s, Len(w) - 1)
        BY <1>4, <2>1
    <2> HIDE DEF outer
    <2> QED
        BY <2>2, <2>3, <2>4, AgreesExtended
<1>6. ASSUME NEW d \in 1..Len(v)
      PROVE  Agrees(t, d, TypesAt(v, outer, d))
    <2>1. CASE d = Len(v) /\ Len(v) = Len(w) - 1
        BY <1>5, <2>1 DEF TypesAt
    <2>2. CASE d = Len(v) /\ Len(v) = Len(w)
        <3>1. Inside(t, Len(w)) = Inside(t, Len(w) - 1)
            <4>1. ASSUME NEW i \in Declarations(t, Len(t))
                  PROVE  Nesting(t, i) < Len(w) /\ Nesting(t, i) < Len(w) - 1
                <5>1. i \in Declarations(s, Len(s)) /\ Nesting(s, i) < Len(w) - 1
                    BY <1>3
                <5>2. Nesting(t, i) = Nesting(s, i) /\ Nesting(s, i) \in Int
                    BY <5>1, DeclarationsExtended
                <5> QED
                    BY <1>1, <5>1, <5>2
            <4> QED
                BY <4>1 DEF Inside
        <3>2. Agrees(t, Len(w), outer)
            BY <1>5, <3>1 DEF Agrees
        <3> QED
            BY <2>2, <3>2 DEF TypesAt
    <2>3. CASE d # Len(v)
        <3>1. /\ d \in 1..Len(w) - 1 /\ d \in 1..Len(w) /\ d # Len(w)
              /\ d + 1 \in 1..Len(w) /\ d + 1 <= Len(v)
            BY <1>1, <1>2, <2>3
        <3>2. v[d + 1].prev_variable_types = w[d + 1].prev_variable_types
            BY <3>1 DEF Follows
        <3>3. TypesAt(v, outer, d) = TypesAt(w, types, d)
            BY <2>3, <3>1, <3>2 DEF TypesAt
        <3>4. Agrees(s, d, TypesAt(w, types, d)) /\ Inside(t, d) = Inside(s, d)
            BY <1>4, <3>1 DEF VariablesIn
        <3> HIDE DEF outer
        <3> QED
            BY <3>3, <3>4, AgreesExtended
    <2> QED
        BY <1>2, <2>1, <2>2, <2>3
<1>7. Unique(t)
    BY UniqueExtended DEF VariablesIn
<1> QED
    BY <1>6, <1>7 DEF VariablesIn

\* types2 is types, or what it becomes when the line gives a known name a value.
Assigns(line, types, types2) ==
    \/ types2 = types
    \/ /\ line.code = "set" /\ line.name \in DOMAIN types
       /\ DOMAIN types2 = DOMAIN types /\ types2[line.name] = line.type
       /\ \A x \in DOMAIN types : x # line.name => types2[x] = types[x]

\* A line that ends no block and declares nothing: what is in scope stays so.
LEMMA VariablesKept ==
    ASSUME NEW s, NEW t, NEW line, Extended(s, t, line), NEW w, NEW v, NEW types, NEW types2,
           Balanced(s, w), VariablesIn(s, w, types), Follows(w, v, line),
           ~Closes(line), ~Branches(line), ~line.declares,
           Opens(line) => v[Len(v)].prev_variable_types = types,
           Assigns(line, types, types2)
    PROVE  VariablesIn(t, v, types2)
<1>1. /\ Len(s) \in Nat /\ Len(w) \in Nat \ {0} /\ Len(v) \in Nat \ {0}
      /\ Nesting(s, Len(s)) = Len(w) - 1
      /\ Len(t) = Len(s) + 1 /\ Nesting(t, Len(t)) = Len(v) - 1
      /\ Len(v) = Len(w) + Step(line)
    <2>1. /\ Len(s) \in Nat /\ Len(t) = Len(s) + 1
          /\ Len(w) \in Nat \ {0} /\ Nesting(s, Len(s)) = Len(w) - 1
          /\ Len(v) \in Nat \ {0} /\ Len(v) = Len(w) + Step(line)
        BY DEF Extended, Balanced, Follows
    <2>2. Nesting(t, Len(s) + 1) = Nesting(s, Len(s)) + Step(line) /\ Step(line) \in Int
        BY NestingExtended DEF Step
    <2> QED
        BY <2>1, <2>2
<1>2. \/ Opens(line) /\ Len(v) = Len(w) + 1
      \/ ~Opens(line) /\ Len(v) = Len(w)
    BY <1>1 DEF Step
<1>3. Declarations(t, Len(t)) = Declarations(s, Len(s))
    <2>1. ASSUME NEW i \in Declarations(s, Len(s))
          PROVE  Nesting(t, Len(t)) >= Nesting(s, i)
        <3>1. Nesting(s, i) \in Int /\ Nesting(s, i) <= Nesting(s, Len(s))
            BY DeclarationsExtended
        <3> QED
            BY <1>1, <1>2, <3>1
    <2> QED
        BY <2>1, DeclarationsExtended
<1>4. ASSUME NEW d
      PROVE  Inside(t, d) = Inside(s, d)
    <2>1. \A i \in Declarations(s, Len(s)) : Nesting(t, i) = Nesting(s, i)
        BY DeclarationsExtended
    <2> QED
        BY <1>3, <2>1 DEF Inside
<1>5. Inside(s, Len(w) + 1) = Inside(s, Len(w))
    <2>1. ASSUME NEW i \in Declarations(s, Len(s))
          PROVE  Nesting(s, i) < Len(w) /\ Nesting(s, i) < Len(w) + 1
        <3>1. Nesting(s, i) \in Int /\ Nesting(s, i) <= Nesting(s, Len(s))
            BY DeclarationsExtended
        <3> QED
            BY <1>1, <3>1
    <2> QED
        BY <2>1 DEF Inside
<1>6. ASSUME NEW d \in 1..Len(w)
      PROVE  Agrees(t, d, TypesAt(w, types, d))
    <2>1. Agrees(s, d, TypesAt(w, types, d)) /\ Inside(t, d) = Inside(s, d)
        BY <1>4 DEF VariablesIn
    <2> QED
        BY <2>1, AgreesExtended
<1>7. Agrees(t, Len(w), types) /\ Agrees(t, Len(w) + 1, types)
    <2>1. Len(w) \in 1..Len(w)
        BY <1>1
    <2>2. Agrees(s, Len(w), types)
        BY <2>1 DEF VariablesIn, TypesAt
    <2>3. Inside(t, Len(w)) = Inside(s, Len(w)) /\ Inside(t, Len(w) + 1) = Inside(s, Len(w))
        BY <1>4, <1>5
    <2> QED
        BY <2>2, <2>3, AgreesExtended
<1>8. Unique(t)
    BY UniqueExtended DEF VariablesIn
<1>9. Agrees(t, Len(w), types2) /\ Agrees(t, Len(w) + 1, types2)
    <2>1. CASE types2 = types
        BY <1>7, <2>1
    <2>2. CASE /\ line.code = "set" /\ line.name \in DOMAIN types
               /\ DOMAIN types2 = DOMAIN types /\ types2[line.name] = line.type
               /\ \A x \in DOMAIN types : x # line.name => types2[x] = types[x]
        <3>1. ASSUME NEW d, Agrees(t, d, types)
              PROVE  Agrees(t, d, types2)
            <4>1. DOMAIN types2 = {t[i].name : i \in Inside(t, d)}
                BY <2>2, <3>1 DEF Agrees
            <4>2. ASSUME NEW i \in Inside(t, d)
                  PROVE  types2[t[i].name] = t[i].type \/ t[i].name \in Retyped(t, Len(t))
                <5>1. t[i].name \in DOMAIN types
                    BY <3>1 DEF Agrees
                <5>2. CASE t[i].name # line.name
                    BY <2>2, <3>1, <5>1, <5>2 DEF Agrees
                <5>3. CASE t[i].name = line.name
                    <6>1. Len(t) \in Nat /\ i \in Declarations(t, Len(t))
                        BY <1>1 DEF Inside
                    <6>2. Visible(t, Len(t))[line.name] = t[i].type
                        BY <1>8, <5>3, <6>1, VisibleIs
                    <6> QED
                        BY <2>2, <5>3, <6>2, RetypedExtended
                <5> QED
                    BY <5>2, <5>3
            <4> QED
                BY <4>1, <4>2 DEF Agrees
        <3> QED
            BY <1>7, <3>1
    <2> QED
        BY <2>1, <2>2 DEF Assigns
<1>10. ASSUME NEW d \in 1..Len(v)
       PROVE  Agrees(t, d, TypesAt(v, types2, d))
    <2>1. CASE d = Len(v)
        BY <1>2, <1>9, <2>1 DEF TypesAt
    <2>2. CASE d # Len(v) /\ d = Len(w)
        <3>1. Opens(line) /\ d + 1 = Len(v)
            BY <1>1, <1>2, <2>2
        <3> QED
            BY <1>7, <2>2, <3>1 DEF TypesAt
    <2>3. CASE d # Len(v) /\ d # Len(w)
        <3>1. d \in 1..Len(w) /\ d + 1 \in 1..Len(w) /\ d + 1 <= Len(v)
            BY <1>1, <1>2, <2>3
        <3>2. v[d + 1].prev_variable_types = w[d + 1].prev_variable_types
            BY <3>1 DEF Follows
        <3> QED
            BY <1>6, <2>3, <3>1, <3>2 DEF TypesAt
    <2> QED
        BY <2>1, <2>2, <2>3
<1> QED
    BY <1>8, <1>10 DEF VariablesIn

\* A declaration adds a name that was not in scope.
LEMMA VariablesDeclared ==
    ASSUME NEW s, NEW t, NEW line, Extended(s, t, line), NEW w, NEW v, NEW types, NEW types2,
           Balanced(s, w), VariablesIn(s, w, types), Follows(w, v, line),
           ~Opens(line), ~Closes(line), ~Branches(line),
           line.declares, line.name \notin DOMAIN types,
           DOMAIN types2 = DOMAIN types \cup {line.name}, types2[line.name] = line.type,
           \A x \in DOMAIN types : types2[x] = types[x]
    PROVE  VariablesIn(t, v, types2)
<1>1. /\ Len(s) \in Nat /\ Len(w) \in Nat \ {0} /\ Len(v) = Len(w)
      /\ Nesting(s, Len(s)) = Len(w) - 1
      /\ Len(t) = Len(s) + 1 /\ Nesting(t, Len(t)) = Len(w) - 1 /\ t[Len(t)] = line
    <2>1. /\ Len(s) \in Nat /\ Len(t) = Len(s) + 1 /\ t[Len(s) + 1] = line
          /\ Len(w) \in Nat \ {0} /\ Nesting(s, Len(s)) = Len(w) - 1
          /\ Len(v) = Len(w) + Step(line)
        BY DEF Extended, Balanced, Follows
    <2>2. Nesting(t, Len(s) + 1) = Nesting(s, Len(s)) + Step(line) /\ Step(line) = 0
        BY NestingExtended DEF Step
    <2> QED
        BY <2>1, <2>2
<1>2. ASSUME NEW i \in Declarations(s, Len(s))
      PROVE  /\ i \in 1..Len(s) /\ t[i] = s[i] /\ Nesting(t, i) = Nesting(s, i)
             /\ Nesting(s, i) \in Int /\ Nesting(s, i) <= Len(w) - 1
    BY <1>1, DeclarationsExtended
<1>3. Declarations(t, Len(t)) = Declarations(s, Len(s)) \cup {Len(t)}
    <2>1. \A i \in Declarations(s, Len(s)) : Nesting(t, Len(t)) >= Nesting(s, i)
        BY <1>1, <1>2
    <2> QED
        BY <2>1, DeclarationsExtended
<1>4. ASSUME NEW d \in 1..Len(w), d # Len(w)
      PROVE  Inside(t, d) = Inside(s, d)
    <2>1. ~(Nesting(t, Len(t)) < d)
        BY <1>1, <1>4
    <2> QED
        BY <1>2, <1>3, <2>1 DEF Inside
<1>5. /\ Inside(s, Len(w)) = Declarations(s, Len(s))
      /\ Inside(t, Len(w)) = Declarations(s, Len(s)) \cup {Len(t)}
    <2>1. \A i \in Declarations(s, Len(s)) : Nesting(s, i) < Len(w) /\ Nesting(t, i) < Len(w)
        BY <1>1, <1>2
    <2>2. Nesting(t, Len(t)) < Len(w)
        BY <1>1
    <2> QED
        BY <1>3, <2>1, <2>2 DEF Inside
<1>6. Agrees(s, Len(w), types)
    <2>1. Len(w) \in 1..Len(w)
        BY <1>1
    <2> QED
        BY <2>1 DEF VariablesIn, TypesAt
<1>7. Unique(t)
    <2>1. \A i \in Declarations(s, Len(s)) : s[i].name \in DOMAIN types
        BY <1>5, <1>6 DEF Agrees
    <2>2. \A i \in Declarations(s, Len(s)) : t[i].name # line.name
        BY <1>2, <2>1
    <2> SUFFICES ASSUME NEW i \in Declarations(t, Len(t)), NEW j \in Declarations(t, Len(t)),
                        t[i].name = t[j].name
                 PROVE  i = j
        BY DEF Unique
    <2>3. \/ i \in Declarations(s, Len(s)) /\ j \in Declarations(s, Len(s))
          \/ i = Len(t) /\ j \in Declarations(s, Len(s))
          \/ i \in Declarations(s, Len(s)) /\ j = Len(t)
          \/ i = Len(t) /\ j = Len(t)
        BY <1>3
    <2>4. CASE i \in Declarations(s, Len(s)) /\ j \in Declarations(s, Len(s))
        <3>1. s[i].name = s[j].name
            BY <1>2, <2>4
        <3> QED
            BY <2>4, <3>1 DEF VariablesIn, Unique
    <2> QED
        BY <1>1, <2>2, <2>3, <2>4
<1>8. Agrees(t, Len(w), types2)
    <2>1. DOMAIN types = {t[i].name : i \in Declarations(s, Len(s))}
        <3>1. DOMAIN types = {s[i].name : i \in Declarations(s, Len(s))}
            BY <1>5, <1>6 DEF Agrees
        <3> QED
            BY <1>2, <3>1
    <2>2. DOMAIN types2 = {t[i].name : i \in Inside(t, Len(w))}
        BY <1>1, <1>5, <2>1
    <2>3. ASSUME NEW i \in Inside(t, Len(w))
          PROVE  types2[t[i].name] = t[i].type \/ t[i].name \in Retyped(t, Len(t))
        <3>1. CASE i = Len(t)
            BY <1>1, <3>1
        <3>2. CASE i \in Declarations(s, Len(s))
            <4>1. types[s[i].name] = s[i].type \/ s[i].name \in Retyped(s, Len(s))
                BY <1>5, <1>6, <3>2 DEF Agrees
            <4>2. t[i] = s[i] /\ t[i].name \in DOMAIN types
                BY <1>2, <2>1, <3>2
            <4> QED
                BY <4>1, <4>2, RetypedExtended
        <3> QED
            BY <1>5, <3>1, <3>2
    <2> QED
        BY <2>2, <2>3 DEF Agrees
<1>9. ASSUME NEW d \in 1..Len(v)
      PROVE  Agrees(t, d, TypesAt(v, types2, d))
    <2>1. CASE d = Len(v)
        BY <1>1, <1>8, <2>1 DEF TypesAt
    <2>2. CASE d # Len(v)
        <3>1. d \in 1..Len(w) /\ d # Len(w) /\ d + 1 \in 1..Len(w) /\ d + 1 <= Len(v)
            BY <1>1, <2>2
        <3>2. v[d + 1].prev_variable_types = w[d + 1].prev_variable_types
            BY <3>1 DEF Follows
        <3>3. TypesAt(v, types2, d) = TypesAt(w, types, d)
            BY <2>2, <3>1, <3>2 DEF TypesAt
        <3>4. Agrees(s, d, TypesAt(w, types, d)) /\ Inside(t, d) = Inside(s, d)
            BY <1>4, <3>1 DEF VariablesIn
        <3> QED
            BY <3>3, <3>4, AgreesExtended
    <2> QED
        BY <2>1, <2>2
<1> QED
    BY <1>7, <1>9 DEF VariablesIn

-----------------------------------------------------------------------------
(***************************************************************************)
(* The managers: what main declares, and what it waits for.                *)
(***************************************************************************)
Managers == {"Schedule", "ReactOn", "Alert"}

Awaited == {"Schedule", "ReactOn"}

Declares(line, m) == line.code = "declare" /\ line.manager = m

\* A manager that a line of s names is declared there or before, once and outside every
\* block; h are the managers that have been added.
Declared(s, h) ==
    /\ \A i \in 1..Len(s) : s[i].manager # None =>
          s[i].manager \in h /\ \E d \in 1..i : Declares(s[d], s[i].manager)
    /\ \A d \in 1..Len(s) :
          s[d].code = "declare" => s[d].manager \in Managers /\ Nesting(s, d) = 0
    /\ \A i, j \in 1..Len(s) :
          s[i].code = "declare" /\ s[j].code = "declare" /\ s[i].manager = s[j].manager => i = j
    /\ \A m \in h \cap Managers : \E d \in 1..Len(s) : Declares(s[d], m)
    /\ \A i \in 1..Len(s) : s[i].code \notin {"wait", "return"}

\* The lines a from code_it_ on wait for what s declares, the last first, and return.
Waits(s, a, h) ==
    /\ Len(a) \in Nat \ {0}
    /\ a[Len(a)].code = "return" /\ a[Len(a)].manager = None
    /\ \A i \in 1..Len(a) - 1 : a[i].code = "wait" /\ a[i].manager \in h \cap Awaited
    /\ \A m \in h \cap Awaited : \E i \in 1..Len(a) - 1 : a[i].manager = m
    /\ \A v, w \in 1..Len(a) - 1, c, d \in 1..Len(s) :
          Declares(s[c], a[v].manager) /\ Declares(s[d], a[w].manager) => (v < w <=> d < c)

\* A line that adds no manager; it may use one.
LEMMA DeclaredExtended ==
    ASSUME NEW s, NEW t, NEW line, Extended(s, t, line), NEW h, NEW g,
           Declared(s, h), h \subseteq g, g \cap Managers = h \cap Managers,
           line.code \notin {"declare", "wait", "return"},
           line.manager # None => line.manager \in h \cap Managers
    PROVE  Declared(t, g)
<1>1. /\ Len(s) \in Nat /\ Len(t) = Len(s) + 1 /\ t[Len(s) + 1] = line
      /\ \A i \in 1..Len(s) : t[i] = s[i]
    BY DEF Extended
<1>2. \A i \in 1..Len(t) : i \in 1..Len(s) \/ i = Len(t)
    BY <1>1
<1>3. \A i \in 1..Len(s) : Nesting(t, i) = Nesting(s, i) /\ i \in 1..Len(t)
    <2>1. \A i \in 1..Len(s) : i \in 0..Len(s) /\ i \in 1..Len(t)
        BY <1>1
    <2> QED
        BY <2>1, NestingExtended
<1>4. ASSUME NEW i \in 1..Len(t), t[i].manager # None
      PROVE  t[i].manager \in g /\ \E d \in 1..i : Declares(t[d], t[i].manager)
    <2>1. CASE i \in 1..Len(s)
        <3>1. PICK d \in 1..i : Declares(s[d], s[i].manager)
            BY <1>1, <1>4, <2>1 DEF Declared
        <3>2. d \in 1..Len(s) /\ t[d] = s[d] /\ t[i] = s[i]
            BY <1>1, <2>1, <3>1
        <3>3. s[i].manager \in h
            BY <1>4, <2>1, <3>2 DEF Declared
        <3> QED
            BY <3>1, <3>2, <3>3
    <2>2. CASE i = Len(t)
        <3>1. line.manager \in h \cap Managers
            BY <1>1, <1>4, <2>2
        <3>2. PICK d \in 1..Len(s) : Declares(s[d], line.manager)
            BY <3>1 DEF Declared
        <3>3. d \in 1..i /\ t[d] = s[d] /\ t[i] = line
            BY <1>1, <2>2, <3>2
        <3> QED
            BY <3>1, <3>2, <3>3
    <2> QED
        BY <1>2, <2>1, <2>2
<1>5. \A d \in 1..Len(t) : t[d].code = "declare" => d \in 1..Len(s) /\ t[d] = s[d]
    BY <1>1, <1>2
<1>6. \A d \in 1..Len(t) :
          t[d].code = "declare" => t[d].manager \in Managers /\ Nesting(t, d) = 0
    BY <1>3, <1>5 DEF Declared
<1>7. \A i, j \in 1..Len(t) :
          t[i].code = "declare" /\ t[j].code = "declare" /\ t[i].manager = t[j].manager => i = j
    BY <1>5 DEF Declared
<1>8. ASSUME NEW m \in g \cap Managers
      PROVE  \E d \in 1..Len(t) : Declares(t[d], m)
    <2>1. PICK d \in 1..Len(s) : Declares(s[d], m)
        BY DEF Declared
    <2> QED
        BY <1>1, <1>3, <2>1
<1>9. \A i \in 1..Len(t) : t[i].code \notin {"wait", "return"}
    BY <1>1, <1>2 DEF Declared
<1> QED
    BY <1>4, <1>6, <1>7, <1>8, <1>9 DEF Declared

\* The line that declares a manager for the first time.
LEMMA ManagerDeclared ==
    ASSUME NEW s, NEW t, NEW line, Extended(s, t, line), NEW h, Declared(s, h),
           NEW m \in Managers, m \notin h, Declares(line, m), Nesting(s, Len(s)) = 0
    PROVE  Declared(t, h \cup {m})
<1>1. /\ Len(s) \in Nat /\ Len(t) = Len(s) + 1 /\ t[Len(s) + 1] = line
      /\ \A i \in 1..Len(s) : t[i] = s[i]
    BY DEF Extended
<1>2. \A i \in 1..Len(t) : i \in 1..Len(s) \/ i = Len(t)
    BY <1>1
<1>3. m # None
    BY DEF Managers, None
<1>4. Nesting(t, Len(t)) = 0 /\ \A i \in 1..Len(s) : Nesting(t, i) = Nesting(s, i)
    <2>1. \A i \in 1..Len(s) : i \in 0..Len(s)
        BY <1>1
    <2>2. Step(line) = 0
        BY DEF Declares, Step, Opens, Closes
    <2> QED
        BY <1>1, <2>1, <2>2, NestingExtended
<1>5. \A i \in 1..Len(s) : s[i].manager # m
    BY <1>3 DEF Declared
<1>6. ASSUME NEW i \in 1..Len(t), t[i].manager # None
      PROVE  t[i].manager \in h \cup {m} /\ \E d \in 1..i : Declares(t[d], t[i].manager)
    <2>1. CASE i \in 1..Len(s)
        <3>1. PICK d \in 1..i : Declares(s[d], s[i].manager)
            BY <1>1, <1>6, <2>1 DEF Declared
        <3>2. d \in 1..Len(s) /\ t[d] = s[d] /\ t[i] = s[i]
            BY <1>1, <2>1, <3>1
        <3>3. s[i].manager \in h
            BY <1>6, <2>1, <3>2 DEF Declared
        <3> QED
            BY <3>1, <3>2, <3>3
    <2>2. CASE i = Len(t)
        <3>1. i \in 1..i /\ t[i] = line /\ t[i].manager = m
            BY <1>1, <2>2 DEF Declares
        <3> QED
            BY <3>1
    <2> QED
        BY <1>2, <2>1, <2>2
<1>7. ASSUME NEW d \in 1..Len(t), t[d].code = "declare"
      PROVE  t[d].manager \in Managers /\ Nesting(t, d) = 0
    <2>1. CASE d \in 1..Len(s)
        BY <1>1, <1>4, <1>7, <2>1 DEF Declared
    <2>2. CASE d = Len(t)
        BY <1>1, <1>4, <2>2 DEF Declares
    <2> QED
        BY <1>2, <2>1, <2>2
<1>8. ASSUME NEW i \in 1..Len(t), NEW j \in 1..Len(t),
             t[i].code = "declare", t[j].code = "declare", t[i].manager = t[j].manager
      PROVE  i = j
    <2>1. t[Len(t)].manager = m
        BY <1>1 DEF Declares
    <2>2. CASE i \in 1..Len(s) /\ j \in 1..Len(s)
        <3>1. t[i] = s[i] /\ t[j] = s[j]
            BY <1>1, <2>2
        <3> QED
            BY <1>8, <2>2, <3>1 DEF Declared
    <2> QED
        BY <1>1, <1>2, <1>5, <1>8, <2>1, <2>2
<1>9. ASSUME NEW n \in (h \cup {m}) \cap Managers
      PROVE  \E d \in 1..Len(t) : Declares(t[d], n)
    <2>1. CASE n = m
        BY <1>1, <2>1
    <2>2. CASE n # m
        <3>1. PICK d \in 1..Len(s) : Declares(s[d], n)
            BY <2>2 DEF Declared
        <3> QED
            BY <1>1, <3>1
    <2> QED
        BY <2>1, <2>2
<1>10. \A i \in 1..Len(t) : t[i].code \notin {"wait", "return"}
    BY <1>1, <1>2 DEF Declared, Declares
<1> QED
    BY <1>6, <1>7, <1>8, <1>9, <1>10 DEF Declared

\* A line behind which nothing more is waited for.
LEMMA WaitsExtended ==
    ASSUME NEW s, NEW t, NEW line, Extended(s, t, line), NEW a, NEW h, NEW g,
           Waits(s, a, h), g \cap Awaited = h \cap Awaited,
           \A m \in Awaited : ~Declares(line, m)
    PROVE  Waits(t, a, g)
<1>1. /\ Len(s) \in Nat /\ Len(t) = Len(s) + 1 /\ t[Len(s) + 1] = line
      /\ \A i \in 1..Len(s) : t[i] = s[i]
    BY DEF Extended
<1>2. ASSUME NEW v \in 1..Len(a) - 1, NEW c \in 1..Len(t), Declares(t[c], a[v].manager)
      PROVE  c \in 1..Len(s) /\ Declares(s[c], a[v].manager)
    <2>1. a[v].manager \in Awaited
        BY DEF Waits
    <2>2. c \in 1..Len(s) \/ c = Len(s) + 1
        BY <1>1
    <2> QED
        BY <1>1, <1>2, <2>1, <2>2
<1>3. \A v, w \in 1..Len(a) - 1, c, d \in 1..Len(t) :
          Declares(t[c], a[v].manager) /\ Declares(t[d], a[w].manager) => (v < w <=> d < c)
    BY <1>2 DEF Waits
<1> QED
    BY <1>3 DEF Waits

\* b is a with a line in front.
Prefixed(a, b, line) ==
    /\ Len(a) \in Nat /\ Len(b) = Len(a) + 1
    /\ b[1] = line /\ \A i \in 1..Len(a) : b[i + 1] = a[i]

\* A line in front of a sequence is such a prefix.
LEMMA ConcatPrefixes ==
    ASSUME NEW a, IsSeq(a), NEW line
    PROVE  IsSeq(<<line>> \o a) /\ Prefixed(a, <<line>> \o a, line)
<1> DEFINE S == Range(a) \cup {line}
<1>1. a \in Seq(S) /\ <<line>> \in Seq(S) /\ Len(<<line>>) = 1 /\ <<line>>[1] = line
    BY SeqMonotonic DEF IsSeq
<1> HIDE DEF S
<1>2. /\ <<line>> \o a \in Seq(S)
      /\ Len(<<line>> \o a) = Len(<<line>>) + Len(a)
      /\ \A i \in 1..Len(<<line>>) + Len(a) :
            (<<line>> \o a)[i] = IF i <= Len(<<line>>) THEN <<line>>[i] ELSE a[i - Len(<<line>>)]
    BY <1>1, ConcatProperties
<1>3. Len(a) \in Nat
    BY <1>1, LenProperties
<1>4. Prefixed(a, <<line>> \o a, line)
    <2>1. Len(<<line>> \o a) = Len(a) + 1
        BY <1>1, <1>2, <1>3
    <2>2. (<<line>> \o a)[1] = line
        BY <1>1, <1>2, <1>3
    <2>3. ASSUME NEW i \in 1..Len(a)
          PROVE  (<<line>> \o a)[i + 1] = a[i]
        <3>1. i + 1 \in 1..Len(<<line>>) + Len(a) /\ ~(i + 1 <= Len(<<line>>))
                /\ (i + 1) - Len(<<line>>) = i
            BY <1>1, <1>3
        <3> QED
            BY <1>2, <3>1
    <2> QED
        BY <1>3, <2>1, <2>2, <2>3 DEF Prefixed
<1> QED
    BY <1>2, <1>4, SeqOfRange DEF IsSeq

\* The wait for a manager goes in front of the others when its declaration comes last.
LEMMA WaitAdded ==
    ASSUME NEW s, NEW t, NEW line, Extended(s, t, line), NEW h, Declared(s, h),
           NEW a, NEW b, NEW wait, Waits(s, a, h), Prefixed(a, b, wait),
           NEW m \in Awaited, m \notin h, Declares(line, m),
           wait.code = "wait", wait.manager = m
    PROVE  Waits(t, b, h \cup {m})
<1>1. /\ Len(s) \in Nat /\ Len(t) = Len(s) + 1 /\ t[Len(s) + 1] = line
      /\ \A i \in 1..Len(s) : t[i] = s[i]
    BY DEF Extended
<1>2. /\ Len(a) \in Nat \ {0} /\ Len(b) = Len(a) + 1
      /\ b[1] = wait /\ \A i \in 1..Len(a) : b[i + 1] = a[i]
    BY DEF Prefixed, Waits
<1>3. m # None
    BY DEF Awaited, None
<1>4. b[Len(b)].code = "return" /\ b[Len(b)].manager = None
    <2>1. Len(a) \in 1..Len(a)
        BY <1>2
    <2> QED
        BY <1>2, <2>1 DEF Waits
<1>5. \A i \in 1..Len(b) - 1 :
          \/ i = 1 /\ b[i] = wait
          \/ i - 1 \in 1..Len(a) - 1 /\ b[i] = a[i - 1] /\ i # 1
    <2> SUFFICES ASSUME NEW i \in 1..Len(b) - 1, i # 1
                 PROVE  i - 1 \in 1..Len(a) - 1 /\ b[i] = a[i - 1]
        BY <1>2
    <2>1. i - 1 \in 1..Len(a) - 1 /\ i - 1 \in 1..Len(a) /\ (i - 1) + 1 = i
        BY <1>2
    <2> QED
        BY <1>2, <2>1
<1>6. \A i \in 1..Len(b) - 1 : b[i].code = "wait" /\ b[i].manager \in (h \cup {m}) \cap Awaited
    BY <1>5 DEF Waits
<1>7. ASSUME NEW n \in (h \cup {m}) \cap Awaited
      PROVE  \E i \in 1..Len(b) - 1 : b[i].manager = n
    <2>1. CASE n = m
        <3>1. 1 \in 1..Len(b) - 1
            BY <1>2
        <3> QED
            BY <1>2, <2>1, <3>1
    <2>2. CASE n # m
        <3>1. PICK i \in 1..Len(a) - 1 : a[i].manager = n
            BY <2>2 DEF Waits
        <3>2. i + 1 \in 1..Len(b) - 1 /\ i \in 1..Len(a)
            BY <1>2
        <3> QED
            BY <1>2, <3>1, <3>2
    <2> QED
        BY <2>1, <2>2
\* A declaration of what b waits for is the new one, for the new wait, or an older one.
<1>8. ASSUME NEW v \in 1..Len(b) - 1, NEW c \in 1..Len(t), Declares(t[c], b[v].manager)
      PROVE  \/ v = 1 /\ c = Len(s) + 1
             \/ /\ v # 1 /\ v - 1 \in 1..Len(a) - 1 /\ c \in 1..Len(s)
                /\ Declares(s[c], a[v - 1].manager)
    <2>1. c \in 1..Len(s) \/ c = Len(s) + 1
        BY <1>1
    <2>2. \A i \in 1..Len(s) : s[i].manager # m
        BY <1>3 DEF Declared
    <2>3. \A i \in 1..Len(a) - 1 : a[i].manager \in h
        BY DEF Waits
    <2>4. c \in 1..Len(s) => t[c] = s[c] /\ t[c].manager # m
        BY <1>1, <2>2
    <2>5. c = Len(s) + 1 => t[c].manager = m
        BY <1>1 DEF Declares
    <2>6. t[c].manager = b[v].manager
        BY <1>8 DEF Declares
    <2>7. CASE v = 1
        BY <1>2, <2>1, <2>4, <2>6, <2>7
    <2>8. CASE v # 1
        <3>1. v - 1 \in 1..Len(a) - 1 /\ b[v] = a[v - 1]
            BY <1>5, <2>8
        <3>2. b[v].manager # m
            BY <2>3, <3>1
        <3> QED
            BY <1>8, <2>1, <2>4, <2>5, <2>6, <2>8, <3>1, <3>2
    <2> QED
        BY <2>7, <2>8
<1>9. ASSUME NEW v \in 1..Len(b) - 1, NEW w \in 1..Len(b) - 1,
             NEW c \in 1..Len(t), NEW d \in 1..Len(t),
             Declares(t[c], b[v].manager), Declares(t[d], b[w].manager)
      PROVE  v < w <=> d < c
    <2>1. \/ v = 1 /\ c = Len(s) + 1
          \/ /\ v # 1 /\ v - 1 \in 1..Len(a) - 1 /\ c \in 1..Len(s)
             /\ Declares(s[c], a[v - 1].manager)
        BY <1>8, <1>9
    <2>2. \/ w = 1 /\ d = Len(s) + 1
          \/ /\ w # 1 /\ w - 1 \in 1..Len(a) - 1 /\ d \in 1..Len(s)
             /\ Declares(s[d], a[w - 1].manager)
        BY <1>8, <1>9
    <2>3. CASE v # 1 /\ w # 1
        <3>1. v - 1 < w - 1 <=> d < c
            BY <2>1, <2>2, <2>3 DEF Waits
        <3>2. v - 1 < w - 1 <=> v < w
            BY <1>2
        <3> QED
            BY <3>1, <3>2
    <2>4. CASE v = 1 \/ w = 1
        BY <1>1, <1>2, <2>1, <2>2, <2>4
    <2> QED
        BY <2>3, <2>4
<1>10. Len(b) \in Nat \ {0}
    BY <1>2
<1> QED
    BY <1>4, <1>6, <1>7, <1>9, <1>10 DEF Waits

-----------------------------------------------------------------------------
(***************************************************************************)
(* The numbers in arguments.                                               *)
(***************************************************************************)
Text == Seq(STRING)

\* The recursion by which Value is defined, on the first n characters.
Reads(f, str, n) ==
    /\ DOMAIN f = 0..n /\ f[0] = 0
    /\ \A i \in 1..n : f[i] = 10 * f[i - 1] + DigitValue(str[i])

\* The value of a digit; only that of "0" is 0.
LEMMA DigitValueIs ==
    ASSUME NEW char, IsDigit(char)
    PROVE  DigitValue(char) \in 0..9 /\ (char # "0" => DigitValue(char) # 0)
<1>1. PICK d \in DOMAIN Digits : Digits[d] = char
    BY DEF IsDigit
<1>2. d \in 1..10
    BY DEF Digits
<1>3. d - 1 \in 0..9 /\ Digits[(d - 1) + 1] = char
    BY <1>1, <1>2
<1>4. DigitValue(char) \in 0..9 /\ Digits[DigitValue(char) + 1] = char
    BY <1>3 DEF DigitValue
<1>5. Digits[0 + 1] = "0"
    BY DEF Digits
<1> QED
    BY <1>4, <1>5

\* There is a function with the recursion of Value.
LEMMA ReadsExists ==
    ASSUME NEW str, NEW n \in Nat
    PROVE  \E f : Reads(f, str, n)
<1> DEFINE T == {k \in 0..n : \A f : ~Reads(f, str, k)}
<1> SUFFICES ASSUME T # {}
             PROVE  FALSE
    OBVIOUS
<1>1. T \subseteq Nat
    OBVIOUS
<1>2. PICK m \in T : \A k \in T : m <= k
    BY <1>1, LeastExists
<1>3. m \in 0..n /\ \A f : ~Reads(f, str, m)
    OBVIOUS
<1>4. m # 0
    <2>1. Reads([i \in 0..0 |-> 0], str, 0)
        BY DEF Reads
    <2> QED
        BY <1>3, <2>1
<1>5. m - 1 \in 0..n /\ m - 1 \notin T
    BY <1>2, <1>3, <1>4
<1>6. PICK f : Reads(f, str, m - 1)
    BY <1>5
<1> DEFINE g == [i \in 0..m |-> IF i = m THEN 10 * f[m - 1] + DigitValue(str[m]) ELSE f[i]]
<1>7. Reads(g, str, m)
    <2>1. DOMAIN g = 0..m /\ g[0] = 0
        BY <1>3, <1>4, <1>6 DEF Reads
    <2>2. ASSUME NEW i \in 1..m
          PROVE  g[i] = 10 * g[i - 1] + DigitValue(str[i])
        <3>1. i - 1 \in 0..m /\ i - 1 # m /\ i \in 0..m
            BY <1>3
        <3>2. CASE i = m
            BY <3>1, <3>2
        <3>3. CASE i # m
            <4>1. i \in 1..m - 1
                BY <1>3, <3>3
            <4>2. f[i] = 10 * f[i - 1] + DigitValue(str[i])
                BY <1>6, <4>1 DEF Reads
            <4> QED
                BY <3>1, <3>3, <4>2
        <3> QED
            BY <3>2, <3>3
    <2> QED
        BY <2>1, <2>2 DEF Reads
<1> QED
    BY <1>3, <1>7

\* The digits a text starts with end where the text does or in front of another character.
LEMMA LeadingDigitsIs ==
    ASSUME NEW str, Len(str) \in Nat
    PROVE  /\ LeadingDigits(str) \in 0..Len(str)
           /\ \A i \in 1..LeadingDigits(str) : IsDigit(str[i])
           /\ LeadingDigits(str) = Len(str) \/ ~IsDigit(str[LeadingDigits(str) + 1])
<1> DEFINE T == {n \in 0..Len(str) : \A i \in 1..n : IsDigit(str[i])}
<1>1. T \subseteq Nat /\ T # {} /\ \A x \in T : x <= Len(str)
    <2>1. 0 \in T
        OBVIOUS
    <2> QED
        BY <2>1
<1>2. PICK n \in T : \A y \in T : y <= n
    BY <1>1, GreatestExists
<1>3. n \in 0..Len(str) /\ \A i \in 1..n : IsDigit(str[i])
    OBVIOUS
<1>4. n = Len(str) \/ ~IsDigit(str[n + 1])
    <2> SUFFICES ASSUME n # Len(str), IsDigit(str[n + 1])
                 PROVE  FALSE
        OBVIOUS
    <2>1. n + 1 \in 0..Len(str) /\ \A i \in 1..n + 1 : i \in 1..n \/ i = n + 1
        BY <1>3
    <2>2. n + 1 \in T
        BY <1>3, <2>1
    <2>3. ~(n + 1 <= n)
        BY <1>3
    <2> QED
        BY <1>2, <2>2, <2>3
<1> QED
    BY <1>3, <1>4 DEF LeadingDigits

\* Value goes through the leading digits by that recursion.
LEMMA ValueIs ==
    ASSUME NEW str, Len(str) \in Nat
    PROVE  \E f : Reads(f, str, Len(str)) /\ Value(str) = f[LeadingDigits(str)]
<1>1. Len(str) \in Nat
    OBVIOUS
<1> DEFINE Recursion(f) ==
        f = [n \in 0..Len(str) |->
                IF n = 0 THEN 0 ELSE 10 * f[n - 1] + DigitValue(str[n])]
<1>2. \E f : Recursion(f)
    <2>1. PICK f : Reads(f, str, Len(str))
        BY <1>1, ReadsExists
    <2> DEFINE g == [n \in 0..Len(str) |->
                        IF n = 0 THEN 0 ELSE 10 * f[n - 1] + DigitValue(str[n])]
    <2>2. ASSUME NEW n \in 0..Len(str)
          PROVE  f[n] = IF n = 0 THEN 0 ELSE 10 * f[n - 1] + DigitValue(str[n])
        BY <1>1, <2>1 DEF Reads
    <2>3. \A n \in 0..Len(str) : f[n] = g[n]
        BY <2>2
    <2>4. g = [n \in 0..Len(str) |->
                  IF n = 0 THEN 0 ELSE 10 * g[n - 1] + DigitValue(str[n])]
        <3>1. ASSUME NEW n \in 0..Len(str)
              PROVE  (IF n = 0 THEN 0 ELSE 10 * f[n - 1] + DigitValue(str[n]))
                       = IF n = 0 THEN 0 ELSE 10 * g[n - 1] + DigitValue(str[n])
            <4>1. n # 0 => n - 1 \in 0..Len(str)
                BY <1>1
            <4>2. n # 0 => f[n - 1] = g[n - 1]
                BY <2>3, <4>1
            <4> HIDE DEF g
            <4> QED
                BY <4>2
        <3> QED
            BY <3>1
    <2> QED
        BY <2>4
<1> DEFINE value == CHOOSE f : Recursion(f)
<1>3. Recursion(value)
    BY <1>2
<1>4. Value(str) = value[LeadingDigits(str)]
    BY DEF Value
<1> HIDE DEF value
<1>5. Reads(value, str, Len(str))
    BY <1>1, <1>3 DEF Reads
<1> QED
    BY <1>4, <1>5

\* A number that starts with a digit other than zero is positive.
LEMMA ValueIsPositive ==
    ASSUME NEW str \in Text, str # <<>>, IsDigit(str[1]), str[1] # "0"
    PROVE  Value(str) \in Nat \ {0}
<1>1. Len(str) \in Nat \ {0}
    BY EmptySeq DEF Text
<1>2. /\ LeadingDigits(str) \in 0..Len(str)
      /\ \A i \in 1..LeadingDigits(str) : IsDigit(str[i])
      /\ LeadingDigits(str) # 0
    <2>1. LeadingDigits(str) = 0 => ~(LeadingDigits(str) = Len(str)) /\ LeadingDigits(str) + 1 = 1
        BY <1>1
    <2> QED
        BY <1>1, <2>1, LeadingDigitsIs
<1>3. PICK value : Reads(value, str, Len(str)) /\ Value(str) = value[LeadingDigits(str)]
    BY <1>1, ValueIs
<1>4. /\ value[0] = 0
      /\ \A n \in 1..Len(str) : value[n] = 10 * value[n - 1] + DigitValue(str[n])
    BY <1>1, <1>3 DEF Reads
<1> DEFINE T == {n \in 1..LeadingDigits(str) : value[n] \notin Nat \ {0}}
<1>5. T = {}
    <2> SUFFICES ASSUME T # {}
                 PROVE  FALSE
        OBVIOUS
    <2>1. T \subseteq Nat
        BY <1>2
    <2>2. PICK m \in T : \A k \in T : m <= k
        BY <2>1, LeastExists
    <2>3. m \in 1..LeadingDigits(str) /\ m \in 1..Len(str)
        BY <1>1, <1>2
    <2>4. DigitValue(str[m]) \in 0..9 /\ (m = 1 => DigitValue(str[m]) # 0)
        BY <1>2, <2>3, DigitValueIs
    <2>5. value[m] = 10 * value[m - 1] + DigitValue(str[m])
        BY <1>4, <2>3
    <2>6. CASE m = 1
        BY <1>4, <2>4, <2>5, <2>6
    <2>7. CASE m # 1
        <3>1. m - 1 \in 1..LeadingDigits(str) /\ ~(m <= m - 1)
            BY <1>2, <2>3, <2>7
        <3>2. value[m - 1] \in Nat \ {0}
            BY <2>2, <3>1
        <3> QED
            BY <2>4, <2>5, <3>2
    <2> QED
        BY <2>6, <2>7
<1>6. LeadingDigits(str) \in 1..LeadingDigits(str)
    BY <1>1, <1>2
<1> QED
    BY <1>3, <1>5, <1>6

\* stoi reads a negative number from "-1" alone of the arguments that are accepted.
LEMMA MinusOneIs == Stoi(MinusOne) = 0 - 1 /\ ~StoiThrows(MinusOne)
<1> DEFINE one == <<"1">>
<1>1. Negative(MinusOne) /\ Tail(MinusOne) = one /\ Unsigned(MinusOne) = one
    BY DEF Negative, MinusOne, Unsigned
<1>2. Len(one) = 1 /\ one[1] = "1"
    OBVIOUS
<1>3. Digits[2] = "1" /\ 2 \in DOMAIN Digits
    BY DEF Digits
<1>4. IsDigit("1")
    BY <1>3 DEF IsDigit
<1>5. DigitValue("1") = 1
    <2>1. 1 \in 0..9 /\ Digits[1 + 1] = "1"
        BY <1>3
    <2>2. \A v \in 0..9 : Digits[v + 1] = "1" => v = 1
        BY DEF Digits
    <2> QED
        BY <2>1, <2>2 DEF DigitValue
<1> HIDE DEF one
<1>6. LeadingDigits(one) = 1
    <2>1. LeadingDigits(one) \in 0..1
        BY <1>2, LeadingDigitsIs
    <2>2. LeadingDigits(one) = Len(one) \/ ~IsDigit(one[LeadingDigits(one) + 1])
        BY <1>2, LeadingDigitsIs
    <2>3. LeadingDigits(one) # 0
        BY <1>2, <1>4, <2>2
    <2> QED
        BY <2>1, <2>3
<1>7. Value(one) = 1
    <2>1. PICK f : Reads(f, one, Len(one)) /\ Value(one) = f[LeadingDigits(one)]
        BY <1>2, ValueIs
    <2>2. f[0] = 0 /\ f[1] = 10 * f[1 - 1] + DigitValue(one[1])
        BY <1>2, <2>1 DEF Reads
    <2> QED
        BY <1>2, <1>5, <1>6, <2>1, <2>2
<1>8. Stoi(MinusOne) = 0 - 1
    BY <1>1, <1>7 DEF Stoi
<1>9. MaxInt \in Nat
    BY FileMakerAssumption DEF FileMakerAssumption
<1> QED
    BY <1>1, <1>6, <1>8, <1>9 DEF StoiThrows

\* What MakeScheduleCommand and MakeReactOnCommand read from arguments they accept.
Numbers(c) ==
    /\ c.type = "Schedule" =>
          Stoi(c.arguments[2]) \in 1..MaxInt /\ Stoi(RepeatArgument(c)) \in 1..MaxInt
    /\ c.type = "ReactOn" => Stoi(RepeatArgument(c)) \in 1..MaxInt \cup {-1}

\* A text that stoi reads is positive unless it starts with a zero or a sign.
LEMMA PositiveIfRead ==
    ASSUME NEW str \in Text, str # <<>>, ~StoiThrows(str), str[1] # "0", str[1] # "-"
    PROVE  Stoi(str) \in 1..MaxInt
<1>1. Unsigned(str) = str /\ Stoi(str) = Value(str)
    BY DEF Negative, Unsigned, Stoi, Text
<1>2. LeadingDigits(str) # 0 /\ Stoi(str) \in (0 - MaxInt - 1)..MaxInt
    BY <1>1 DEF StoiThrows
<1>3. IsDigit(str[1])
    <2>1. Len(str) \in Nat
        BY DEF Text
    <2>2. 1 \in 1..LeadingDigits(str)
        BY <1>2, <2>1, LeadingDigitsIs
    <2> QED
        BY <2>1, <2>2, LeadingDigitsIs
<1>4. Value(str) \in Nat \ {0}
    BY <1>3, ValueIsPositive
<1>5. MaxInt \in Nat
    BY FileMakerAssumption DEF FileMakerAssumption
<1> QED
    BY <1>1, <1>2, <1>4, <1>5

\* A text that is a valid integer starts with a digit, or is a single character.
LEMMA ValidStart ==
    ASSUME NEW str \in Text, ValidInteger(str)
    PROVE  /\ str # <<>> /\ str[1] # "0" /\ Len(str) \in Nat \ {0}
           /\ Len(str) = 1 \/ IsDigit(str[1])
<1>1. str # <<>> /\ str[1] # "0" /\ Len(str) \in Nat \ {0}
    BY EmptySeq DEF ValidInteger, Text
<1>2. ASSUME Len(str) # 1
      PROVE  IsDigit(str[1])
    <2>1. 1 \in 1..Len(str) - 1
        BY <1>1, <1>2
    <2> QED
        BY <2>1 DEF ValidInteger
<1> QED
    BY <1>1, <1>2

\* stoi has a digit to start with, which no sign is.
LEMMA NoDigit == ~IsDigit("-") /\ ~IsDigit("s")
BY DEF IsDigit, Digits

\* Arguments that pass the checks are numbers, or stoi throws for a reason that is known.
LEMMA AcceptedNumbers ==
    ASSUME NEW c \in Commands, c.type \in {"Schedule", "ReactOn"},
           c.type = "Schedule" => ScheduleArgsValid(c.arguments),
           c.type = "ReactOn" => ReactOnArgsValid(c.arguments)
    PROVE  /\ ~StoiThrows(RepeatArgument(c)) => Numbers(c)
           /\ StoiThrows(RepeatArgument(c)) =>
                 Len(RepeatArgument(c)) = 1 \/ Stoi(RepeatArgument(c)) > MaxInt
<1> DEFINE args == c.arguments
           repeat == RepeatArgument(c)
<1>1. args \in Seq(Text)
    BY FileMakerAssumption DEF FileMakerAssumption, Commands, Text
<1>2. /\ Len(args) \in {2, 3} /\ repeat = args[Len(args)] /\ repeat \in Text
      /\ ValidInteger(repeat) \/ (c.type = "ReactOn" /\ repeat = MinusOne)
    <2>1. \/ Len(args) = 3 /\ ValidInteger(args[3])
          \/ /\ Len(args) = 2
             /\ ValidInteger(args[2]) \/ (c.type = "ReactOn" /\ args[2] = MinusOne)
        BY DEF ScheduleArgsValid, ReactOnArgsValid
    <2>2. Last(args) = args[Len(args)] /\ args[Len(args)] \in Text
        BY <1>1, <2>1 DEF Last
    <2> QED
        BY <2>1, <2>2 DEF RepeatArgument
<1> HIDE DEF args, repeat
<1>3. CASE c.type = "ReactOn" /\ repeat = MinusOne
    <2>1. Stoi(repeat) = 0 - 1 /\ ~StoiThrows(repeat) /\ 0 - 1 = -1
        BY <1>3, MinusOneIs
    <2>2. Stoi(repeat) \in 1..MaxInt \cup {-1}
        BY <2>1
    <2> QED
        BY <1>3, <2>1, <2>2 DEF Numbers, repeat
<1>4. CASE ValidInteger(repeat)
    <2>1. /\ repeat # <<>> /\ repeat[1] # "0" /\ Len(repeat) \in Nat \ {0}
          /\ Len(repeat) = 1 \/ IsDigit(repeat[1])
        BY <1>2, <1>4, ValidStart
    <2>2. ASSUME repeat[1] = "-"
          PROVE  StoiThrows(repeat)
        <3>1. Len(repeat) = 1
            BY <2>1, <2>2, NoDigit
        <3>2. Negative(repeat) /\ Len(Tail(repeat)) = 0
            BY <1>2, <2>1, <2>2, <3>1 DEF Negative, Text
        <3> PICK rest : rest = Tail(repeat)
            OBVIOUS
        <3>3. Len(rest) \in Nat
            BY <3>2
        <3>4. LeadingDigits(rest) \in 0..Len(rest)
            BY <3>3, LeadingDigitsIs
        <3>5. LeadingDigits(rest) = 0
            BY <3>2, <3>4
        <3> QED
            BY <3>2, <3>5 DEF StoiThrows, Unsigned
    <2>3. ~StoiThrows(repeat) => Stoi(repeat) \in 1..MaxInt
        BY <1>2, <2>1, <2>2, PositiveIfRead
    <2>4. ASSUME c.type = "Schedule"
          PROVE  Stoi(args[2]) \in 1..MaxInt
        <3> PICK time : time = args[2]
            OBVIOUS
        <3>1. /\ Len(args) = 3 /\ time \in Text
              /\ ValidInteger(Front(time)) /\ Last(time) = "s" /\ ~StoiThrows(time)
            <4>1. ScheduleArgsValid(args)
                BY <2>4 DEF args
            <4> QED
                BY <1>1, <4>1 DEF ScheduleArgsValid, TimeInSecondToIntegerThrows
        <3>2. Front(time) = SubSeq(time, 1, Len(time) - 1) /\ Last(time) = time[Len(time)]
            BY DEF Front, Last
        <3>3. Len(time) \in Nat /\ Len(time) - 1 >= 1
            BY <3>1, <3>2 DEF Text, ValidInteger
        <3>4. /\ Front(time) \in Text /\ Len(Front(time)) = Len(time) - 1
              /\ Front(time)[1] = time[1] /\ time # <<>>
            BY <3>1, <3>2, <3>3 DEF Text
        <3>5. time[1] # "0" /\ (Len(time) - 1 = 1 \/ IsDigit(time[1]))
            BY <3>1, <3>4, ValidStart
        <3>6. ASSUME time[1] = "-"
              PROVE  FALSE
            <4>1. Len(time) = 2 /\ time[2] = "s"
                BY <3>1, <3>2, <3>3, <3>5, <3>6, NoDigit
            <4>2. /\ Negative(time)
                  /\ Len(Tail(time)) = 1 /\ Tail(time)[1] = "s"
                BY <3>1, <3>4, <3>6, <4>1 DEF Negative, Text
            <4>3. PICK rest : rest = Tail(time)
                OBVIOUS
            <4>4. Len(rest) = 1 /\ rest[1] = "s"
                BY <4>2, <4>3
            <4>5. Len(rest) = 1 /\ rest[1] = "s" /\ Len(rest) \in Nat
                BY <4>4
            <4>6. /\ LeadingDigits(rest) \in 0..Len(rest)
                  /\ \A i \in 1..LeadingDigits(rest) : IsDigit(rest[i])
                BY <4>5, LeadingDigitsIs
            <4>7. LeadingDigits(rest) # 1
                BY <4>5, <4>6, NoDigit
            <4>8. LeadingDigits(rest) = 0
                BY <4>5, <4>6, <4>7
            <4>9. LeadingDigits(Unsigned(time)) = 0
                BY <4>2, <4>8, <4>3 DEF Unsigned
            <4> QED
                BY <3>1, <4>9 DEF StoiThrows
        <3> QED
            BY <3>1, <3>4, <3>5, <3>6, PositiveIfRead
    <2>5. ASSUME StoiThrows(repeat), Len(repeat) # 1
          PROVE  Stoi(repeat) > MaxInt
        <3>1. IsDigit(repeat[1]) /\ repeat[1] # "-"
            BY <2>1, <2>5, NoDigit
        <3>2. Unsigned(repeat) = repeat /\ Stoi(repeat) = Value(repeat)
            BY <1>2, <2>1, <3>1 DEF Negative, Unsigned, Stoi, Text
        <3>3. Stoi(repeat) \in Nat
            BY <1>2, <2>1, <3>1, <3>2, ValueIsPositive
        <3>4. LeadingDigits(repeat) # 0
            <4>1. LeadingDigits(repeat) = 0 => ~(LeadingDigits(repeat) = Len(repeat))
                                                 /\ LeadingDigits(repeat) + 1 = 1
                BY <2>1
            <4> QED
                BY <2>1, <3>1, <4>1, LeadingDigitsIs
        <3>5. Stoi(repeat) \notin (0 - MaxInt - 1)..MaxInt
            BY <2>5, <3>2, <3>4 DEF StoiThrows
        <3>6. MaxInt \in Nat
            BY FileMakerAssumption DEF FileMakerAssumption
        <3> QED
            BY <3>3, <3>5, <3>6
    <2>6. 1..MaxInt \subseteq 1..MaxInt \cup {-1}
        OBVIOUS
    <2> QED
        BY <2>3, <2>4, <2>5, <2>6 DEF Numbers, args, repeat
<1> QED
    BY <1>2, <1>3, <1>4

-----------------------------------------------------------------------------
(***************************************************************************)
(* The inductive invariant.                                                *)
(***************************************************************************)
Reactions(s) ==
    \A i \in 1..Len(s) : s[i].code = "RegisterReaction" => s[i].repeat \in 1..MaxInt \cup {-1}

IsFile(f) ==
    /\ DOMAIN f = {"before", "after", "history_", "includes"}
    /\ IsSeq(f.before) /\ IsSeq(f.after)
    /\ f.history_ \subseteq f.includes

\* What has been written of main, with w the calls of MakeBlock and types the variables.
MainIs(f, w, types) ==
    /\ IsFile(f)
    /\ Balanced(f.before, w)
    /\ OpenLines(f.before, w)
    /\ UsesCaptured(f.before)
    /\ EndsTimed(f.before)
    /\ Reactions(f.before)
    /\ Declared(f.before, f.history_)
    /\ Waits(f.before, f.after, f.history_)
    /\ VariablesIn(f.before, w, types)

\* A call of MakeBlock: h has the managers that its lambda captures.
FrameIs(r, h) ==
    /\ r.command \in Commands
    /\ r.block \in 1..Len(Blocks(r.command))
    /\ \A i \in 1..Len(r.rest) : r.rest[i] \in Children(r.command)
    /\ Needs(r.command) \subseteq h
    /\ Numbers(r.command)

IsWork(w, h) ==
    /\ IsSeq(w) /\ Len(w) \in Nat \ {0}
    /\ \A k \in 1..Len(w) : /\ DOMAIN w[k] = {"command", "block", "rest", "prev_variable_types"}
                            /\ w[k].rest \in Seq(Commands)
    /\ \A k \in 2..Len(w) : FrameIs(w[k], h)
    /\ \A k, l \in 2..Len(w) : k <= l => Children(w[l].command) \subseteq Below(w[k].command)

\* The managers of the commands below c are known, but for those that q still leads to.
Collects(c, q, h) ==
    /\ q \in Seq(Seq(Commands))
    /\ Listed(q) \subseteq Below(c)
    /\ \A e \in Below(c) : \/ ManagerOf(e) \in h \cup {None}
                           \/ e \in Listed(q)
                           \/ \E d \in Listed(q) : e \in Below(d)

Collecting ==
    /\ Top.rest # <<>>
    /\ Command.type \in {"Schedule", "ReactOn", "If"}
    /\ Numbers(Command)
    /\ Command.type # "If" => Command.type \in file.history_
    /\ Collects(Command, collecting, LambdaCaptures)

IInv ==
    /\ MainIs(file, work, variable_types_)
    /\ IsWork(work, LambdaCaptures)
    /\ outcome = "collecting" => Collecting
    /\ outcome = "built" => Len(work) = 1
    /\ outcome = "thrown" =>
          Len(RepeatArgument(Command)) = 1 \/ Stoi(RepeatArgument(Command)) > MaxInt

-----------------------------------------------------------------------------
(***************************************************************************)
(* Steps of file.                                                          *)
(***************************************************************************)
LEMMA InsertCodeIs ==
    ASSUME NEW f, IsFile(f), NEW line
    PROVE  LET g == InsertCode(f, line)
           IN  /\ IsFile(g) /\ Extended(f.before, g.before, line)
               /\ g.after = f.after /\ g.history_ = f.history_ /\ g.includes = f.includes
<1> DEFINE g == InsertCode(f, line)
<1>1. /\ DOMAIN g = DOMAIN f /\ g.before = Append(f.before, line)
      /\ g.after = f.after /\ g.history_ = f.history_ /\ g.includes = f.includes
    BY DEF InsertCode, IsFile
<1>2. IsSeq(Append(f.before, line)) /\ Extended(f.before, Append(f.before, line), line)
    BY AppendExtends DEF IsFile
<1> HIDE DEF g
<1>3. IsFile(g) /\ Extended(f.before, g.before, line)
    BY <1>1, <1>2 DEF IsFile
<1> QED
    BY <1>1, <1>3 DEF g

\* Include adds no line.
LEMMA IncludeIs ==
    ASSUME NEW f, IsFile(f), NEW type
    PROVE  LET g == Include(f, type)
           IN  /\ IsFile(g) /\ g.before = f.before /\ g.after = f.after
               /\ g.history_ = f.history_ \cup {type}
<1>1. CASE type \in f.history_
    <2>1. Include(f, type) = f /\ f.history_ = f.history_ \cup {type}
        BY <1>1 DEF Include
    <2> QED
        BY <2>1
<1>2. CASE type \notin f.history_
    <2> DEFINE g == [f EXCEPT !.includes = @ \cup {type}, !.history_ = @ \cup {type}]
    <2>1. /\ DOMAIN g = DOMAIN f /\ g.before = f.before /\ g.after = f.after
          /\ g.includes = f.includes \cup {type} /\ g.history_ = f.history_ \cup {type}
        BY DEF IsFile
    <2>2. Include(f, type) = g
        BY <1>2 DEF Include
    <2> HIDE DEF g
    <2>3. IsFile(g)
        BY <2>1 DEF IsFile
    <2> QED
        BY <2>1, <2>2, <2>3
<1> QED
    BY <1>1, <1>2

\* A line that adds no manager, with what is asked of a line that opens, ends or uses.
LEMMA MainExtended ==
    ASSUME NEW f, NEW g, NEW w, NEW v, NEW types, NEW types2, NEW line,
           MainIs(f, w, types), IsFile(g), Extended(f.before, g.before, line),
           g.after = f.after, f.history_ \subseteq g.history_,
           g.history_ \cap Managers = f.history_ \cap Managers,
           Follows(w, v, line), VariablesIn(g.before, v, types2),
           line.code \notin {"declare", "wait", "return"},
           line.manager # None => line.manager \in f.history_ \cap Managers,
           NeededBy(line, w),
           Opens(line) => Opener(line, v[Len(v)].command),
           Closes(line) /\ w[Len(w)].command.type = "Schedule" => Timed(line),
           line.code = "RegisterReaction" => line.repeat \in 1..MaxInt \cup {-1}
    PROVE  MainIs(g, v, types2)
<1> DEFINE s == f.before
           t == g.before
<1>1. /\ Balanced(s, w) /\ OpenLines(s, w) /\ UsesCaptured(s) /\ EndsTimed(s) /\ Reactions(s)
      /\ Declared(s, f.history_) /\ Waits(s, f.after, f.history_)
    BY DEF MainIs
<1>2. Extended(s, t, line) /\ VariablesIn(t, v, types2)
    OBVIOUS
<1> HIDE DEF s, t
<1>3. Balanced(t, v) /\ OpenLines(t, v)
    BY <1>1, <1>2, OpenLinesExtended
<1>4. UsesCaptured(t)
    BY <1>1, <1>2, UsesCapturedExtended
<1>5. EndsTimed(t)
    BY <1>1, <1>2, EndsTimedExtended
<1>6. Reactions(t)
    <2>1. /\ Len(s) \in Nat /\ Len(t) = Len(s) + 1 /\ t[Len(s) + 1] = line
          /\ \A i \in 1..Len(s) : t[i] = s[i]
        BY <1>2 DEF Extended
    <2>2. \A i \in 1..Len(t) : i \in 1..Len(s) \/ i = Len(s) + 1
        BY <2>1
    <2> QED
        BY <1>1, <2>1, <2>2 DEF Reactions
<1>7. Declared(t, g.history_)
    BY <1>1, <1>2, DeclaredExtended
<1>8. Waits(t, g.after, g.history_)
    <2>1. g.history_ \cap Awaited = f.history_ \cap Awaited
        BY DEF Managers, Awaited
    <2>2. \A m \in Awaited : ~Declares(line, m)
        BY DEF Declares
    <2>3. Waits(t, f.after, g.history_)
        BY <1>1, <1>2, <2>1, <2>2, WaitsExtended
    <2> QED
        BY <2>3
<1> QED
    BY <1>2, <1>3, <1>4, <1>5, <1>6, <1>7, <1>8 DEF MainIs, t

\* A manager is added outside every block, or has been added.
LEMMA ManagerAdded ==
    ASSUME NEW f, NEW w, NEW types, MainIs(f, w, types), NEW m \in Managers,
           m \notin f.history_ => Len(w) = 1
    PROVE  /\ MainIs(AddManager(f, m), w, types)
           /\ m \in AddManager(f, m).history_
           /\ f.history_ \subseteq AddManager(f, m).history_
<1>1. CASE m \in f.history_
    BY <1>1 DEF AddManager
<1>2. CASE m \notin f.history_
    <2> DEFINE line == [Line("declare") EXCEPT !.manager = m]
               wait == [Line("wait") EXCEPT !.manager = m]
               h == Include(InsertCode(f, line), m)
               after == IF m = "Alert" THEN f.after ELSE <<wait>> \o f.after
               g == [h EXCEPT !.after = after]
    <2>1. /\ line.code = "declare" /\ line.manager = m /\ ~line.declares
          /\ wait.code = "wait" /\ wait.manager = m
          /\ line.code = "declare" => ~Opens(line) /\ ~Closes(line) /\ ~Branches(line)
        BY DEF Line, Opens, Closes, Branches
    <2> HIDE DEF line, wait
    <2>2. IsFile(f)
        BY DEF MainIs
    <2>3. /\ IsFile(InsertCode(f, line)) /\ Extended(f.before, InsertCode(f, line).before, line)
          /\ InsertCode(f, line).after = f.after /\ InsertCode(f, line).history_ = f.history_
        BY <2>2, InsertCodeIs
    <2>4. /\ IsFile(h) /\ Extended(f.before, h.before, line) /\ h.after = f.after
          /\ h.history_ = f.history_ \cup {m}
        BY <2>3, IncludeIs
    <2>5. AddManager(f, m) = g
        <3>1. h.after = f.after
            BY <2>4
        <3>2. AddManager(f, m) = [h EXCEPT !.after = IF m = "Alert" THEN @ ELSE <<wait>> \o @]
            BY <1>2 DEF AddManager, line, wait
        <3> HIDE DEF h
        <3> QED
            BY <3>1, <3>2
    <2>6. IsSeq(<<wait>> \o f.after) /\ Prefixed(f.after, <<wait>> \o f.after, wait)
        BY <2>2, ConcatPrefixes DEF IsFile
    <2>7. /\ DOMAIN g = DOMAIN h /\ g.before = h.before /\ g.after = after
          /\ g.history_ = h.history_ /\ g.includes = h.includes
        <3> HIDE DEF h, after
        <3> QED
            BY <2>4 DEF IsFile
    <2>8. IsSeq(after)
        BY <2>2, <2>6 DEF IsFile
    <2> HIDE DEF h, g, after
    <2>9. IsFile(g)
        BY <2>4, <2>7, <2>8 DEF IsFile
    <2>10. /\ Extended(f.before, g.before, line) /\ g.history_ = f.history_ \cup {m}
        BY <2>4, <2>7
    <2> DEFINE s == f.before
               t == g.before
    <2>11. /\ Balanced(s, w) /\ OpenLines(s, w) /\ UsesCaptured(s) /\ EndsTimed(s)
           /\ Reactions(s) /\ Declared(s, f.history_) /\ Waits(s, f.after, f.history_)
           /\ VariablesIn(s, w, types) /\ Extended(s, t, line) /\ Len(w) = 1
        BY <1>2, <2>10 DEF MainIs
    <2> HIDE DEF s, t
    <2>12. Follows(w, w, line)
        BY <2>1, <2>11 DEF Follows, Step
    <2>13. Balanced(t, w) /\ OpenLines(t, w)
        BY <2>1, <2>11, <2>12, OpenLinesExtended
    <2>14. UsesCaptured(t)
        <3>1. NeededBy(line, w)
            BY <2>11 DEF NeededBy
        <3> QED
            BY <2>11, <3>1, UsesCapturedExtended
    <2>15. EndsTimed(t)
        BY <2>1, <2>11, EndsTimedExtended
    <2>16. Reactions(t)
        <3>1. /\ Len(s) \in Nat /\ Len(t) = Len(s) + 1 /\ t[Len(s) + 1] = line
              /\ \A i \in 1..Len(s) : t[i] = s[i]
            BY <2>11 DEF Extended
        <3>2. \A i \in 1..Len(t) : i \in 1..Len(s) \/ i = Len(s) + 1
            BY <3>1
        <3> QED
            BY <2>1, <2>11, <3>1, <3>2 DEF Reactions
    <2>17. VariablesIn(t, w, types)
        <3>1. Assigns(line, types, types)
            BY DEF Assigns
        <3> QED
            BY <2>1, <2>11, <2>12, <3>1, VariablesKept
    <2>18. Declares(line, m)
        BY <2>1 DEF Declares
    <2>19. Declared(t, f.history_ \cup {m})
        <3>1. Nesting(s, Len(s)) = 0
            BY <2>11 DEF Balanced
        <3> QED
            BY <1>2, <2>11, <2>18, <3>1, ManagerDeclared
    <2>20. Waits(t, after, f.history_ \cup {m})
        <3>1. CASE m = "Alert"
            <4>1. /\ (f.history_ \cup {m}) \cap Awaited = f.history_ \cap Awaited
                  /\ \A n \in Awaited : ~Declares(line, n)
                BY <2>1, <3>1 DEF Awaited, Declares
            <4>2. Waits(t, f.after, f.history_ \cup {m})
                BY <2>11, <4>1, WaitsExtended
            <4> QED
                BY <3>1, <4>2 DEF after
        <3>2. CASE m # "Alert"
            <4>1. m \in Awaited
                BY <3>2 DEF Managers, Awaited
            <4>2. Waits(t, <<wait>> \o f.after, f.history_ \cup {m})
                BY <1>2, <2>1, <2>6, <2>11, <2>18, <4>1, WaitAdded
            <4> QED
                BY <3>2, <4>2 DEF after
        <3> QED
            BY <3>1, <3>2
    <2>21. MainIs(g, w, types)
        BY <2>7, <2>9, <2>10, <2>13, <2>14, <2>15, <2>16, <2>17, <2>19, <2>20 DEF MainIs, t
    <2> QED
        BY <2>5, <2>10, <2>21
<1> QED
    BY <1>1, <1>2

-----------------------------------------------------------------------------
(***************************************************************************)
(* Steps of work.                                                          *)
(***************************************************************************)
FrameFields == {"command", "block", "rest", "prev_variable_types"}

\* The blocks of a command: sequences of commands, at least one.
LEMMA BlocksAre ==
    ASSUME NEW c \in Commands
    PROVE  /\ c.type \in CommandTypes
           /\ Blocks(c) \in Seq(Seq(Commands)) /\ Len(Blocks(c)) \in Nat \ {0}
           /\ \A b \in 1..Len(Blocks(c)) :
                 /\ Blocks(c)[b] \in Seq(Commands)
                 /\ \A i \in 1..Len(Blocks(c)[b]) : Blocks(c)[b][i] \in Children(c)
<1>1. PICK s \in Scripts : c \in CommandsIn(s)
    BY DEF Commands
<1>2. c.type \in CommandTypes /\ Blocks(c) \in Seq(Seq(CommandsIn(s))) /\ Blocks(c) # <<>>
    BY <1>1, FileMakerAssumption DEF FileMakerAssumption
<1>3. CommandsIn(s) \subseteq Commands
    BY DEF Commands
<1>4. Blocks(c) \in Seq(Seq(Commands))
    <2>1. Seq(CommandsIn(s)) \subseteq Seq(Commands)
        BY <1>3, SeqMonotonic
    <2> QED
        BY <1>2, <2>1, SeqMonotonic
<1>5. Len(Blocks(c)) \in Nat \ {0} /\ DOMAIN Blocks(c) = 1..Len(Blocks(c))
    BY <1>2, <1>4, EmptySeq
<1>6. ASSUME NEW b \in 1..Len(Blocks(c))
      PROVE  /\ Blocks(c)[b] \in Seq(Commands)
             /\ \A i \in 1..Len(Blocks(c)[b]) : Blocks(c)[b][i] \in Children(c)
    <2>1. Blocks(c)[b] \in Seq(Commands)
        BY <1>4, ElementOfSeq
    <2>2. ASSUME NEW i \in 1..Len(Blocks(c)[b])
          PROVE  Blocks(c)[b][i] \in Children(c)
        <3>1. i \in DOMAIN Blocks(c)[b] /\ Blocks(c)[b][i] \in Commands
            BY <2>1
        <3> QED
            BY <1>5, <3>1 DEF Children, Listed
    <2> QED
        BY <2>1, <2>2
<1> QED
    BY <1>2, <1>4, <1>5, <1>6

\* More managers do not disturb work.
LEMMA WorkGrows ==
    ASSUME NEW w, NEW h, NEW g, IsWork(w, h), h \subseteq g
    PROVE  IsWork(w, g)
<1>1. \A k \in 2..Len(w) : FrameIs(w[k], g)
    BY DEF IsWork, FrameIs
<1> QED
    BY <1>1 DEF IsWork

\* The next command of the innermost block lies below the commands of all frames.
LEMMA CommandIs ==
    ASSUME NEW w, NEW h, IsWork(w, h), w[Len(w)].rest # <<>>
    PROVE  LET c == Head(w[Len(w)].rest)
           IN  /\ c \in Commands
               /\ \A k \in 2..Len(w) :
                     /\ c \in Below(w[k].command)
                     /\ Below(c) \subseteq Below(w[k].command)
                     /\ Children(c) \subseteq Below(w[k].command)
                     /\ Needs(w[k].command) \subseteq h
<1> DEFINE r == w[Len(w)].rest
           c == Head(r)
<1>1. Len(w) \in Nat \ {0} /\ Len(w) \in 1..Len(w) /\ r \in Seq(Commands)
    BY DEF IsWork
<1>2. Len(r) \in Nat \ {0} /\ c = r[1] /\ c \in Commands
    BY <1>1, EmptySeq
<1>3. ASSUME NEW k \in 2..Len(w)
      PROVE  /\ c \in Below(w[k].command)
             /\ Below(c) \subseteq Below(w[k].command)
             /\ Children(c) \subseteq Below(w[k].command)
             /\ Needs(w[k].command) \subseteq h
    <2>1. Len(w) \in 2..Len(w) /\ k <= Len(w) /\ 1 \in 1..Len(r)
        BY <1>1, <1>2
    <2>2. r[1] \in Children(w[Len(w)].command)
        BY <2>1 DEF IsWork, FrameIs
    <2>3. Children(w[Len(w)].command) \subseteq Below(w[k].command)
        BY <2>1 DEF IsWork
    <2>4. c \in Below(w[k].command)
        BY <1>2, <2>2, <2>3
    <2>5. Below(c) \subseteq Below(w[k].command) /\ Children(c) \subseteq Below(c)
        BY <2>4, BelowIsClosed
    <2>6. Needs(w[k].command) \subseteq h
        BY DEF IsWork, FrameIs
    <2> QED
        BY <2>4, <2>5, <2>6
<1> QED
    BY <1>2, <1>3

\* r is the innermost frame of w later in its block, or in another block of its command.
Replaces(w, r, h) ==
    /\ DOMAIN r = FrameFields /\ r.rest \in Seq(Commands)
    /\ r.command = w[Len(w)].command
    /\ Len(w) > 1 => FrameIs(r, h)

WithTop(w, r) == [w EXCEPT ![Len(w)] = r]

\* Another frame on top of work.
LEMMA FrameReplaced ==
    ASSUME NEW w, NEW h, IsWork(w, h), NEW r,
           Replaces(w, r, h)
    PROVE  /\ IsWork(WithTop(w, r), h) /\ Len(WithTop(w, r)) = Len(w)
           /\ WithTop(w, r)[Len(w)] = r
           /\ \A k \in 1..Len(w) - 1 : WithTop(w, r)[k] = w[k]
<1> DEFINE S == Range(w) \cup {r}
           v == WithTop(w, r)
<1>1. Len(w) \in Nat \ {0} /\ Len(w) \in 1..Len(w) /\ w \in Seq(S) /\ r \in S
    BY SeqMonotonic DEF IsWork, IsSeq
<1>2. /\ v \in Seq(S) /\ Len(v) = Len(w)
      /\ \A k \in 1..Len(w) : v[k] = IF k = Len(w) THEN r ELSE w[k]
    <2> HIDE DEF S
    <2> QED
        BY <1>1, ExceptSeq DEF WithTop
<1> HIDE DEF S, v
<1>3. IsSeq(v)
    BY <1>2, SeqOfRange DEF IsSeq
<1>4. v[Len(w)] = r /\ \A k \in 1..Len(w) - 1 : v[k] = w[k]
    <2>1. \A k \in 1..Len(w) - 1 : k \in 1..Len(w) /\ k # Len(w)
        BY <1>1
    <2> QED
        BY <1>1, <1>2, <2>1
<1>5. \A k \in 1..Len(w) : DOMAIN v[k] = FrameFields /\ v[k].rest \in Seq(Commands)
    BY <1>2 DEF IsWork, FrameFields, Replaces
<1>6. \A k \in 2..Len(w) : FrameIs(v[k], h)
    <2>1. \A k \in 2..Len(w) : k \in 1..Len(w) /\ (k = Len(w) => Len(w) > 1)
        BY <1>1
    <2> QED
        BY <1>2, <2>1 DEF IsWork, Replaces
<1>7. \A k \in 2..Len(w) : v[k].command = w[k].command
    <2>1. \A k \in 2..Len(w) : k \in 1..Len(w)
        BY <1>1
    <2> QED
        BY <1>2, <2>1 DEF Replaces
<1>8. \A k, l \in 2..Len(w) : k <= l => Children(v[l].command) \subseteq Below(v[k].command)
    BY <1>7 DEF IsWork
<1>9. IsWork(v, h)
    BY <1>1, <1>2, <1>3, <1>5, <1>6, <1>8 DEF IsWork, FrameFields
<1> QED
    BY <1>2, <1>4, <1>9 DEF v

\* The top frame goes on to its next command.
LEMMA WorkAdvanced ==
    ASSUME NEW w, NEW h, IsWork(w, h), w[Len(w)].rest # <<>>
    PROVE  LET v == [w EXCEPT ![Len(w)].rest = Tail(@)]
           IN  /\ IsWork(v, h) /\ Len(v) = Len(w)
               /\ \A k \in 1..Len(w) : /\ v[k].command = w[k].command
                                       /\ v[k].prev_variable_types = w[k].prev_variable_types
<1> DEFINE r == w[Len(w)]
           q == [r EXCEPT !.rest = Tail(@)]
           v == WithTop(w, q)
<1>1. /\ Len(w) \in Nat \ {0} /\ Len(w) \in 1..Len(w)
      /\ DOMAIN r = FrameFields /\ r.rest \in Seq(Commands)
    BY DEF IsWork, FrameFields
<1>2. /\ DOMAIN q = FrameFields /\ q.command = r.command /\ q.block = r.block
      /\ q.prev_variable_types = r.prev_variable_types /\ q.rest = Tail(r.rest)
    <2> HIDE DEF r
    <2> QED
        BY <1>1 DEF FrameFields
<1>3. [w EXCEPT ![Len(w)].rest = Tail(@)] = v
    BY DEF WithTop
<1>4. /\ Tail(r.rest) \in Seq(Commands) /\ Len(Tail(r.rest)) = Len(r.rest) - 1
      /\ \A i \in 1..Len(Tail(r.rest)) : Tail(r.rest)[i] = r.rest[i + 1]
      /\ Len(r.rest) \in Nat
    BY <1>1, HeadTailProperties, LenProperties
<1>5. Len(w) > 1 => FrameIs(q, h)
    <2> SUFFICES ASSUME Len(w) > 1
                 PROVE  FrameIs(q, h)
        OBVIOUS
    <2>1. FrameIs(r, h)
        <3>1. Len(w) \in 2..Len(w)
            BY <1>1
        <3> QED
            BY <3>1 DEF IsWork
    <2> HIDE DEF r, q
    <2>2. \A i \in 1..Len(q.rest) : i + 1 \in 1..Len(r.rest) /\ q.rest[i] = r.rest[i + 1]
        BY <1>2, <1>4
    <2> QED
        BY <1>2, <2>1, <2>2 DEF FrameIs
<1>6. /\ IsWork(v, h) /\ Len(v) = Len(w)
      /\ v[Len(w)] = q /\ \A k \in 1..Len(w) - 1 : v[k] = w[k]
    <2>1. Replaces(w, q, h)
        <3>1. q.rest \in Seq(Commands) /\ q.command = w[Len(w)].command
            BY <1>2, <1>4
        <3> HIDE DEF r, q
        <3> QED
            BY <1>2, <1>5, <3>1 DEF Replaces
    <2> HIDE DEF q
    <2> QED
        BY <2>1, FrameReplaced
<1> HIDE DEF q, v
<1>7. \A k \in 1..Len(w) : k = Len(w) \/ k \in 1..Len(w) - 1
    BY <1>1
<1>8. \A k \in 1..Len(w) : /\ v[k].command = w[k].command
                           /\ v[k].prev_variable_types = w[k].prev_variable_types
    BY <1>2, <1>6, <1>7
<1> QED
    BY <1>3, <1>6, <1>8

\* MakeBlock is called.
LEMMA FramePushed ==
    ASSUME NEW w, NEW h, IsWork(w, h), NEW r,
           DOMAIN r = FrameFields, r.rest \in Seq(Commands), FrameIs(r, h),
           \A k \in 2..Len(w) : Children(r.command) \subseteq Below(w[k].command)
    PROVE  /\ IsWork(Append(w, r), h) /\ Extended(w, Append(w, r), r)
<1> DEFINE v == Append(w, r)
<1>1. IsSeq(v) /\ Extended(w, v, r) /\ Len(w) \in Nat \ {0}
    BY AppendExtends DEF IsWork
<1> HIDE DEF v
<1>2. /\ Len(v) = Len(w) + 1 /\ v[Len(w) + 1] = r
      /\ \A k \in 1..Len(w) : v[k] = w[k]
    BY <1>1 DEF Extended
<1>3. \A k \in 1..Len(v) : k = Len(w) + 1 \/ k \in 1..Len(w)
    BY <1>1, <1>2
<1>4. \A k \in 2..Len(v) : \/ k = Len(w) + 1 /\ v[k] = r
                           \/ k \in 2..Len(w) /\ v[k] = w[k]
    <2>1. \A k \in 2..Len(v) : k = Len(w) + 1 \/ (k \in 2..Len(w) /\ k \in 1..Len(w))
        BY <1>1, <1>2
    <2> QED
        BY <1>2, <2>1
<1>5. \A k \in 1..Len(v) : DOMAIN v[k] = FrameFields /\ v[k].rest \in Seq(Commands)
    BY <1>2, <1>3 DEF IsWork, FrameFields
<1>6. \A k \in 2..Len(v) : FrameIs(v[k], h)
    BY <1>4 DEF IsWork
<1>7. ASSUME NEW k \in 2..Len(v), NEW l \in 2..Len(v), k <= l
      PROVE  Children(v[l].command) \subseteq Below(v[k].command)
    <2>1. CASE l \in 2..Len(w) /\ v[l] = w[l]
        <3>1. k \in 2..Len(w) /\ v[k] = w[k]
            BY <1>1, <1>4, <1>7, <2>1
        <3> QED
            BY <1>7, <2>1, <3>1 DEF IsWork
    <2>2. CASE v[l] = r /\ v[k] = r
        BY <2>2, BelowIsClosed
    <2>3. CASE v[l] = r /\ k \in 2..Len(w) /\ v[k] = w[k]
        BY <2>3
    <2> QED
        BY <1>4, <2>1, <2>2, <2>3
<1>8. Len(v) \in Nat \ {0}
    BY <1>1, <1>2
<1> QED
    BY <1>1, <1>5, <1>6, <1>7, <1>8 DEF IsWork, FrameFields, v

\* MakeBlock returns.
LEMMA FramePopped ==
    ASSUME NEW w, NEW h, IsWork(w, h), Len(w) > 1
    PROVE  /\ IsWork(Front(w), h) /\ Len(Front(w)) = Len(w) - 1
           /\ \A k \in 1..Len(w) - 1 : Front(w)[k] = w[k]
<1> DEFINE v == Front(w)
<1>1. Len(w) \in Nat \ {0} /\ Len(w) - 1 \in Nat \ {0} /\ w \in Seq(Range(w))
    BY DEF IsWork, IsSeq
<1>2. /\ v \in Seq(Range(w)) /\ Len(v) = Len(w) - 1
      /\ \A k \in 1..Len(w) - 1 : v[k] = w[k]
    <2>1. v = SubSeq(w, 1, Len(w) - 1)
        BY DEF Front
    <2> HIDE DEF v
    <2>2. \A S : \A x \in Seq(S) : \A n \in Nat \ {0} : n <= Len(x) =>
             /\ SubSeq(x, 1, n) \in Seq(S) /\ Len(SubSeq(x, 1, n)) = n
             /\ \A k \in 1..n : SubSeq(x, 1, n)[k] = x[k]
        OBVIOUS
    <2>3. Len(w) - 1 <= Len(w)
        BY <1>1
    <2> QED
        BY <1>1, <2>1, <2>2, <2>3
<1> HIDE DEF v
<1>3. IsSeq(v)
    BY <1>2, SeqOfRange DEF IsSeq
<1>4. \A k \in 1..Len(v) : k \in 1..Len(w) /\ v[k] = w[k]
    BY <1>1, <1>2
<1>5. \A k \in 2..Len(v) : k \in 2..Len(w) /\ v[k] = w[k]
    BY <1>1, <1>2
<1>6. \A k \in 1..Len(v) : DOMAIN v[k] = FrameFields /\ v[k].rest \in Seq(Commands)
    BY <1>4 DEF IsWork, FrameFields
<1>7. \A k \in 2..Len(v) : FrameIs(v[k], h)
    BY <1>5 DEF IsWork
<1>8. \A k, l \in 2..Len(v) : k <= l => Children(v[l].command) \subseteq Below(v[k].command)
    BY <1>5 DEF IsWork
<1>9. IsWork(v, h)
    BY <1>1, <1>2, <1>3, <1>6, <1>7, <1>8 DEF IsWork, FrameFields
<1> QED
    BY <1>2, <1>9 DEF v

-----------------------------------------------------------------------------
(***************************************************************************)
(* CollectRequiredManagers goes through what lies below the command.       *)
(***************************************************************************)
LEMMA ListedConcat ==
    ASSUME NEW p \in Seq(Seq(Commands)), NEW q \in Seq(Seq(Commands))
    PROVE  p \o q \in Seq(Seq(Commands)) /\ Listed(p \o q) = Listed(p) \cup Listed(q)
<1> DEFINE r == p \o q
<1>1. /\ r \in Seq(Seq(Commands)) /\ Len(r) = Len(p) + Len(q)
      /\ \A b \in 1..Len(p) + Len(q) : r[b] = IF b <= Len(p) THEN p[b] ELSE q[b - Len(p)]
    <2> DEFINE S == Seq(Commands)
    <2>1. p \in Seq(S) /\ q \in Seq(S)
        OBVIOUS
    <2> HIDE DEF S
    <2>2. /\ p \o q \in Seq(S) /\ Len(p \o q) = Len(p) + Len(q)
          /\ \A b \in 1..Len(p) + Len(q) :
                (p \o q)[b] = IF b <= Len(p) THEN p[b] ELSE q[b - Len(p)]
        BY <2>1, ConcatProperties
    <2> QED
        BY <2>2 DEF S
<1>2. /\ Len(p) \in Nat /\ DOMAIN p = 1..Len(p)
      /\ Len(q) \in Nat /\ DOMAIN q = 1..Len(q)
      /\ DOMAIN r = 1..Len(p) + Len(q)
    <2> HIDE DEF r
    <2> QED
        BY <1>1
<1> HIDE DEF r
<1>3. ASSUME NEW b \in DOMAIN r
      PROVE  \/ b \in DOMAIN p /\ r[b] = p[b]
             \/ b - Len(p) \in DOMAIN q /\ r[b] = q[b - Len(p)]
    BY <1>1, <1>2
<1>4. ASSUME NEW b \in DOMAIN p
      PROVE  b \in DOMAIN r /\ r[b] = p[b]
    BY <1>1, <1>2
<1>5. ASSUME NEW b \in DOMAIN q
      PROVE  b + Len(p) \in DOMAIN r /\ r[b + Len(p)] = q[b]
    <2>1. b + Len(p) \in 1..Len(p) + Len(q) /\ ~(b + Len(p) <= Len(p)) /\ (b + Len(p)) - Len(p) = b
        BY <1>2
    <2> QED
        BY <1>1, <1>2, <2>1
<1>6. ASSUME NEW e \in Commands
      PROVE  e \in Listed(r) <=> e \in Listed(p) \/ e \in Listed(q)
    <2>1. e \in Listed(r) => e \in Listed(p) \/ e \in Listed(q)
        BY <1>3 DEF Listed
    <2>2. e \in Listed(p) => e \in Listed(r)
        BY <1>4 DEF Listed
    <2>3. e \in Listed(q) => e \in Listed(r)
        BY <1>5 DEF Listed
    <2> QED
        BY <2>1, <2>2, <2>3
<1>7. \A z : Listed(z) \subseteq Commands
    BY DEF Listed
<1>8. Listed(r) = Listed(p) \cup Listed(q)
    BY <1>6, <1>7
<1> QED
    BY <1>1, <1>8 DEF r

\* The commands in a list of lists are those of its head and those of its tail.
LEMMA ListedSplit ==
    ASSUME NEW q \in Seq(Seq(Commands)), q # <<>>
    PROVE  /\ Head(q) \in Seq(Commands) /\ Tail(q) \in Seq(Seq(Commands))
           /\ Listed(q) = Range(Head(q)) \cup Listed(Tail(q))
<1> DEFINE S == Seq(Commands)
<1>1. q \in Seq(S)
    OBVIOUS
<1>2. Len(q) \in Nat \ {0} /\ Head(q) = q[1] /\ DOMAIN q = 1..Len(q)
    <2> HIDE DEF S
    <2> QED
        BY <1>1, EmptySeq
<1>3. /\ Head(q) \in S /\ Tail(q) \in Seq(S) /\ Len(Tail(q)) = Len(q) - 1
      /\ \A i \in 1..Len(Tail(q)) : Tail(q)[i] = q[i + 1]
    <2> HIDE DEF S
    <2> QED
        BY <1>1, HeadTailProperties
<1>4. DOMAIN Tail(q) = 1..Len(q) - 1
    <2> HIDE DEF S
    <2> QED
        BY <1>3
<1> DEFINE r == Tail(q)
<1> HIDE DEF r
<1>5. ASSUME NEW b \in DOMAIN q
      PROVE  b = 1 \/ (b - 1 \in DOMAIN r /\ q[b] = r[b - 1])
    <2>1. b # 1 => b - 1 \in 1..Len(q) - 1 /\ (b - 1) + 1 = b
        BY <1>2
    <2> QED
        BY <1>3, <1>4, <2>1 DEF r
<1>6. ASSUME NEW b \in DOMAIN r
      PROVE  b + 1 \in DOMAIN q /\ q[b + 1] = r[b]
    BY <1>2, <1>3, <1>4 DEF r
<1>7. 1 \in DOMAIN q
    BY <1>2
<1>8. Range(q[1]) \subseteq Commands
    BY <1>2, <1>3, RangeOfSeq
<1>9. ASSUME NEW e \in Commands
      PROVE  e \in Listed(q) <=> e \in Range(q[1]) \/ e \in Listed(r)
    <2>1. e \in Listed(q) => e \in Range(q[1]) \/ e \in Listed(r)
        BY <1>5 DEF Listed, Range
    <2>2. e \in Range(q[1]) => e \in Listed(q)
        BY <1>7 DEF Listed, Range
    <2>3. e \in Listed(r) => e \in Listed(q)
        BY <1>6 DEF Listed
    <2> QED
        BY <2>1, <2>2, <2>3
<1>10. \A z : Listed(z) \subseteq Commands
    BY DEF Listed
<1>11. Listed(q) = Range(q[1]) \cup Listed(r)
    BY <1>8, <1>9, <1>10
<1> QED
    BY <1>2, <1>3, <1>11 DEF r

\* The commands of a list are its head and those of its tail.
LEMMA RangeSplit ==
    ASSUME NEW x \in Seq(Commands), x # <<>>
    PROVE  /\ Head(x) \in Commands /\ Tail(x) \in Seq(Commands)
           /\ Range(x) = {Head(x)} \cup Range(Tail(x))
<1>1. Len(x) \in Nat \ {0} /\ Head(x) = x[1] /\ DOMAIN x = 1..Len(x)
    BY EmptySeq
<1>2. /\ Head(x) \in Commands /\ Tail(x) \in Seq(Commands) /\ Len(Tail(x)) = Len(x) - 1
      /\ \A i \in 1..Len(Tail(x)) : Tail(x)[i] = x[i + 1]
    BY HeadTailProperties
<1> DEFINE r == Tail(x)
<1>3. DOMAIN r = 1..Len(x) - 1
    BY <1>2
<1> HIDE DEF r
<1>4. ASSUME NEW i \in DOMAIN x
      PROVE  i = 1 \/ (i - 1 \in DOMAIN r /\ x[i] = r[i - 1])
    <2>1. i # 1 => i - 1 \in 1..Len(x) - 1 /\ (i - 1) + 1 = i
        BY <1>1
    <2> QED
        BY <1>2, <1>3, <2>1 DEF r
<1>5. ASSUME NEW i \in DOMAIN r
      PROVE  i + 1 \in DOMAIN x /\ x[i + 1] = r[i]
    BY <1>1, <1>2, <1>3 DEF r
<1>6. 1 \in DOMAIN x
    BY <1>1
<1>7. Range(x) \subseteq {x[1]} \cup Range(r)
    BY <1>4 DEF Range
<1>8. {x[1]} \cup Range(r) \subseteq Range(x)
    BY <1>5, <1>6 DEF Range
<1> QED
    BY <1>1, <1>2, <1>7, <1>8 DEF r

\* Collecting starts with all the blocks of c.
LEMMA CollectStarts ==
    ASSUME NEW c \in Commands, NEW h
    PROVE  Collects(c, Blocks(c), h)
<1>1. Blocks(c) \in Seq(Seq(Commands)) /\ Listed(Blocks(c)) = Children(c)
    BY BlocksAre DEF Children
<1>2. Children(c) \subseteq Below(c)
    BY BelowIsClosed
<1>3. \A e \in Below(c) : e \in Children(c) \/ \E d \in Children(c) : e \in Below(d)
    BY BelowIsLeast
<1> QED
    BY <1>1, <1>2, <1>3 DEF Collects

\* The next command of the first list, whose manager is known then.
LEMMA CollectStep ==
    ASSUME NEW c, NEW q, NEW h, NEW g, Collects(c, q, h), q # <<>>, Head(q) # <<>>,
           h \subseteq g, ManagerOf(Head(Head(q))) \in g \cup {None}
    PROVE  Collects(c, Blocks(Head(Head(q))) \o <<Tail(Head(q))>> \o Tail(q), g)
<1> DEFINE d == Head(Head(q))
           x == Tail(Head(q))
           r == Tail(q)
<1>1. /\ q \in Seq(Seq(Commands)) /\ Listed(q) \subseteq Below(c)
      /\ \A e \in Below(c) : \/ ManagerOf(e) \in h \cup {None}
                             \/ e \in Listed(q)
                             \/ \E b \in Listed(q) : e \in Below(b)
    BY DEF Collects
<1>2. /\ Head(q) \in Seq(Commands) /\ r \in Seq(Seq(Commands))
      /\ Listed(q) = Range(Head(q)) \cup Listed(r)
    BY <1>1, ListedSplit
<1>3. d \in Commands /\ x \in Seq(Commands) /\ Range(Head(q)) = {d} \cup Range(x)
    BY <1>2, RangeSplit
<1>4. ManagerOf(d) \in g \cup {None}
    OBVIOUS
<1> HIDE DEF d, x, r
<1>5. Listed(q) = {d} \cup Range(x) \cup Listed(r)
    BY <1>2, <1>3
<1>6. /\ <<x>> \in Seq(Seq(Commands)) /\ Listed(<<x>>) = Range(x)
    <2>1. Listed(<<x>>) = {e \in Commands : e \in Range(x)}
        <3>1. DOMAIN <<x>> = {1} /\ <<x>>[1] = x
            OBVIOUS
        <3> QED
            BY <3>1 DEF Listed, Range
    <2>2. Range(x) \subseteq Commands
        BY <1>3, RangeOfSeq
    <2>3. Listed(<<x>>) = Range(x)
        BY <2>1, <2>2
    <2>4. <<x>> \in Seq(Seq(Commands))
        BY <1>3
    <2> QED
        BY <2>3, <2>4
<1>7. Blocks(d) \in Seq(Seq(Commands)) /\ Listed(Blocks(d)) = Children(d)
    BY <1>3, BlocksAre DEF Children
<1>8. /\ Blocks(d) \o <<x>> \in Seq(Seq(Commands))
      /\ Listed(Blocks(d) \o <<x>>) = Children(d) \cup Range(x)
    BY <1>6, <1>7, ListedConcat
<1> DEFINE p == Blocks(d) \o <<x>> \o r
<1>9. /\ p \in Seq(Seq(Commands))
      /\ Listed(p) = Children(d) \cup Range(x) \cup Listed(r)
    BY <1>2, <1>8, ListedConcat
<1> HIDE DEF p
<1>10. d \in Below(c) /\ Children(d) \subseteq Below(c)
    <2>1. d \in Below(c)
        BY <1>1, <1>5
    <2> QED
        BY <2>1, BelowIsClosed
<1>11. Listed(p) \subseteq Below(c)
    BY <1>1, <1>5, <1>9, <1>10
<1>12. ASSUME NEW e \in Below(c)
       PROVE  \/ ManagerOf(e) \in g \cup {None}
              \/ e \in Listed(p)
              \/ \E b \in Listed(p) : e \in Below(b)
    <2>1. CASE ManagerOf(e) \in h \cup {None}
        BY <2>1
    <2>2. CASE e = d
        BY <1>4, <2>2
    <2>3. CASE e \in Listed(q) /\ e # d
        BY <1>5, <1>9, <2>3
    <2>4. CASE e \in Below(d)
        <3>1. e \in Children(d) \/ \E b \in Children(d) : e \in Below(b)
            BY <2>4, BelowIsLeast
        <3> QED
            BY <1>9, <3>1
    <2>5. CASE \E b \in Listed(q) : e \in Below(b) /\ b # d
        BY <1>5, <1>9, <2>5
    <2> QED
        BY <1>1, <2>1, <2>2, <2>3, <2>4, <2>5
<1>13. Collects(c, p, g)
    BY <1>9, <1>11, <1>12 DEF Collects
<1> QED
    BY <1>13 DEF p, d, x, r

\* A list that is empty can be dropped.
LEMMA CollectReturns ==
    ASSUME NEW c, NEW q, NEW h, Collects(c, q, h), q # <<>>, Head(q) = <<>>
    PROVE  Collects(c, Tail(q), h)
<1>1. q \in Seq(Seq(Commands))
    BY DEF Collects
<1>2. Tail(q) \in Seq(Seq(Commands)) /\ Listed(q) = Range(Head(q)) \cup Listed(Tail(q))
    BY <1>1, ListedSplit
<1>3. Range(Head(q)) = {}
    BY DEF Range
<1>4. Listed(Tail(q)) = Listed(q)
    BY <1>2, <1>3
<1> QED
    BY <1>2, <1>4 DEF Collects

\* When no list is left, every manager c needs is in.
LEMMA CollectEnds ==
    ASSUME NEW c, NEW h, Collects(c, <<>>, h)
    PROVE  Needs(c) \subseteq h
<1>1. Listed(<<>>) = {}
    BY DEF Listed
<1>2. \A e \in Below(c) : ManagerOf(e) \in h \cup {None}
    BY <1>1 DEF Collects
<1> QED
    BY <1>2 DEF Needs

-----------------------------------------------------------------------------
(***************************************************************************)
(* The invariant holds initially, and each action keeps it.                *)
(***************************************************************************)
LEMMA Initially == Init => IInv
<1> SUFFICES ASSUME Init
             PROVE  IInv
    OBVIOUS
<1> DEFINE frame == Frame(NewCommand("constructor"), 1, CommandsOf(script), <<>>)
           main == [before |-> <<>>, after |-> <<Line("return")>>, history_ |-> {}, includes |-> {}]
<1>1. script \in Scripts /\ work = <<frame>> /\ file = main /\ variable_types_ = <<>>
        /\ outcome = "making"
    BY DEF Init
<1>2. /\ DOMAIN frame = FrameFields /\ frame.rest = CommandsOf(script)
    BY DEF Frame, FrameFields
<1>3. CommandsOf(script) \in Seq(Commands)
    <2>1. CommandsOf(script) \in Seq(CommandsIn(script)) /\ CommandsIn(script) \subseteq Commands
        BY <1>1, FileMakerAssumption DEF FileMakerAssumption, Commands
    <2> QED
        BY <2>1, SeqMonotonic
<1>4. Len(work) = 1 /\ work[1] = frame /\ IsSeq(work)
    <2> HIDE DEF frame
    <2>1. \A x : <<x>> \in Seq({x}) /\ Len(<<x>>) = 1 /\ <<x>>[1] = x
        OBVIOUS
    <2>2. \A x : IsSeq(<<x>>)
        BY <2>1, SeqOfRange DEF IsSeq
    <2> QED
        BY <1>1, <2>1, <2>2
<1> HIDE DEF frame
<1>5. IsWork(work, LambdaCaptures)
    BY <1>2, <1>3, <1>4 DEF IsWork, FrameFields
<1>6. /\ DOMAIN main = {"before", "after", "history_", "includes"}
      /\ main.before = <<>> /\ main.after = <<Line("return")>>
      /\ main.history_ = {} /\ main.includes = {}
    OBVIOUS
<1> HIDE DEF main
<1>7. /\ file.before = <<>> /\ Len(file.before) = 0 /\ Len(file.after) = 1
      /\ file.after[1] = Line("return") /\ file.history_ = {}
    <2>1. Len(<<>>) = 0 /\ Len(<<Line("return")>>) = 1 /\ <<Line("return")>>[1] = Line("return")
        OBVIOUS
    <2> QED
        BY <1>1, <1>6, <2>1
<1>8. IsFile(file)
    <2>1. IsSeq(<<>>) /\ \A x : IsSeq(<<x>>)
        <3>1. \A x : <<x>> \in Seq({x}) /\ <<>> \in Seq({x})
            OBVIOUS
        <3> QED
            BY <3>1, SeqOfRange DEF IsSeq
    <2> QED
        BY <1>1, <1>6, <2>1 DEF IsFile
<1>9. Balanced(file.before, work)
    <2>1. Nesting(file.before, 0) = 0
        BY NestingStep
    <2> QED
        BY <1>4, <1>7, <2>1 DEF Balanced
<1>10. /\ OpenLines(file.before, work) /\ UsesCaptured(file.before)
       /\ EndsTimed(file.before) /\ Reactions(file.before)
       /\ Declared(file.before, file.history_)
    BY <1>7 DEF OpenLines, UsesCaptured, EndsTimed, Reactions, Declared
<1>11. Waits(file.before, file.after, file.history_)
    <2>1. file.after[1].code = "return" /\ file.after[1].manager = None
        BY <1>7 DEF Line
    <2> QED
        BY <1>7, <2>1 DEF Waits
<1>12. VariablesIn(file.before, work, variable_types_)
    <2>1. Declarations(file.before, Len(file.before)) = {}
        BY <1>7 DEF Declarations
    <2>2. \A d : Inside(file.before, d) = {}
        BY <2>1 DEF Inside
    <2>3. DOMAIN variable_types_ = {}
        BY <1>1
    <2>4. \A d : Agrees(file.before, d, variable_types_)
        BY <2>2, <2>3 DEF Agrees
    <2>5. \A d \in 1..Len(work) : TypesAt(work, variable_types_, d) = variable_types_
        BY <1>4 DEF TypesAt
    <2>6. Unique(file.before)
        BY <2>1 DEF Unique
    <2> QED
        BY <2>4, <2>5, <2>6 DEF VariablesIn
<1> QED
    BY <1>1, <1>5, <1>8, <1>9, <1>10, <1>11, <1>12 DEF IInv, MainIs

\* A command in the blocks of frames, or below one, uses a manager they have.
LEMMA ManagerKnown ==
    ASSUME NEW w, NEW h, IsWork(w, h), NEW d,
           \A k \in 2..Len(w) : d \in Below(w[k].command), ManagerOf(d) # None
    PROVE  /\ ManagerOf(d) \in Managers
           /\ \A k \in 2..Len(w) : ManagerOf(d) \in Needs(w[k].command)
           /\ ManagerOf(d) \notin h => Len(w) = 1
<1>1. ManagerOf(d) \in Managers
    BY DEF ManagerOf, Managers
<1>2. \A k \in 2..Len(w) : ManagerOf(d) \in Needs(w[k].command)
    BY DEF Needs
<1>3. ASSUME Len(w) # 1
      PROVE  ManagerOf(d) \in h
    <2>1. Len(w) \in Nat \ {0}
        BY DEF IsWork
    <2>2. 2 \in 2..Len(w)
        <3>1. \A n \in Nat \ {0} : n # 1 => 2 \in 2..n
            OBVIOUS
        <3> QED
            BY <1>3, <2>1, <3>1
    <2> QED
        BY <1>2, <2>2 DEF IsWork, FrameIs
<1> QED
    BY <1>1, <1>2, <1>3

\* Headers of other kinds than managers.
LEMMA MainIncludes ==
    ASSUME NEW f, NEW w, NEW types, MainIs(f, w, types), NEW type, type \notin Managers
    PROVE  /\ MainIs(Include(f, type), w, types)
           /\ f.history_ \subseteq Include(f, type).history_
<1> DEFINE g == Include(f, type)
<1>1. /\ IsFile(g) /\ g.before = f.before /\ g.after = f.after
      /\ g.history_ = f.history_ \cup {type}
    <2>1. IsFile(f)
        BY DEF MainIs
    <2> QED
        BY <2>1, IncludeIs
<1> HIDE DEF g
<1>2. /\ g.history_ \cap Managers = f.history_ \cap Managers
      /\ g.history_ \cap Awaited = f.history_ \cap Awaited
    BY <1>1 DEF Managers, Awaited
<1>3. Declared(g.before, g.history_)
    BY <1>1, <1>2 DEF MainIs, Declared
<1>4. Waits(g.before, g.after, g.history_)
    BY <1>1, <1>2 DEF MainIs, Waits
<1>5. MainIs(g, w, types)
    BY <1>1, <1>3, <1>4 DEF MainIs
<1> QED
    BY <1>1, <1>5 DEF g

\* A line that stays in its block and adds no manager.
PlainLine(line, f) ==
    /\ ~Opens(line) /\ ~Closes(line) /\ ~Branches(line)
    /\ line.code \notin {"declare", "wait", "return"}
    /\ line.manager # None => line.manager \in f.history_ \cap Managers
    /\ NeededBy(line, work)

\* What a line does to the variables.
Defines(line, types, types2) ==
    \/ ~line.declares /\ Assigns(line, types, types2)
    \/ /\ line.declares /\ line.name \notin DOMAIN types
       /\ DOMAIN types2 = DOMAIN types \cup {line.name} /\ types2[line.name] = line.type
       /\ \A x \in DOMAIN types : types2[x] = types[x]

\* A command that inserts one plain line preserves the invariant.
LEMMA LineInserted ==
    ASSUME IInv, outcome = "making", Top.rest # <<>>,
           NEW f, MainIs(f, work, variable_types_), file.history_ \subseteq f.history_,
           NEW line, InsertsLine(f, line), PlainLine(line, f),
           Defines(line, variable_types_, variable_types_')
    PROVE  IInv'
<1> DEFINE s == f.before
           h == LambdaCaptures
           g == active_managers_ \cap f.history_
<1>1. /\ file' = InsertCode(f, line) /\ work' = Advanced
      /\ active_managers_' = active_managers_ /\ outcome' = "making"
    BY DEF InsertsLine
<1>2. IsFile(f)
    BY DEF MainIs
<1>3. PICK n : n = InsertCode(f, line)
    OBVIOUS
<1>4. /\ IsFile(n) /\ Extended(s, n.before, line)
      /\ n.after = f.after /\ n.history_ = f.history_
    BY <1>2, <1>3, InsertCodeIs
<1>5. IsWork(work, h) /\ work[Len(work)].rest # <<>>
    BY DEF IInv, Top
<1>6. PICK v : v = Advanced
    OBVIOUS
<1>7. /\ IsWork(v, h) /\ Len(v) = Len(work)
      /\ \A k \in 1..Len(work) : /\ v[k].command = work[k].command
                                 /\ v[k].prev_variable_types = work[k].prev_variable_types
    BY <1>5, <1>6, WorkAdvanced DEF Advanced
<1>8. IsWork(v, g)
    <2>1. h \subseteq g
        BY DEF LambdaCaptures
    <2> HIDE DEF h, g
    <2> QED
        BY <1>7, <2>1, WorkGrows
<1>9. Follows(work, v, line)
    <2>1. Len(work) \in Nat \ {0} /\ Step(line) = 0
        BY <1>5 DEF IsWork, PlainLine, Step
    <2> QED
        BY <1>7, <2>1 DEF Follows
<1>10. VariablesIn(n.before, v, variable_types_')
    <2>1. PICK types2 : types2 = variable_types_'
        OBVIOUS
    <2>2. Balanced(s, work) /\ VariablesIn(s, work, variable_types_)
        BY DEF MainIs
    <2>3. ~Opens(line) /\ ~Closes(line) /\ ~Branches(line)
        BY DEF PlainLine
    <2>4. Extended(s, n.before, line)
        BY <1>4
    <2> HIDE DEF s
    <2>5. CASE ~line.declares /\ Assigns(line, variable_types_, types2)
        BY <1>9, <2>2, <2>3, <2>4, <2>5, VariablesKept, <2>1
    <2>6. CASE /\ line.declares /\ line.name \notin DOMAIN variable_types_
               /\ DOMAIN types2 = DOMAIN variable_types_ \cup {line.name}
               /\ types2[line.name] = line.type
               /\ \A x \in DOMAIN variable_types_ : types2[x] = variable_types_[x]
        BY <1>9, <2>2, <2>3, <2>4, <2>6, VariablesDeclared, <2>1
    <2> QED
        BY <2>1, <2>5, <2>6 DEF Defines
<1>11. MainIs(n, v, variable_types_')
    <2>1. PICK types2 : types2 = variable_types_'
        OBVIOUS
    <2>2. VariablesIn(n.before, v, types2)
        BY <1>10, <2>1
    <2>3. /\ ~Opens(line) /\ ~Closes(line) /\ NeededBy(line, work)
          /\ line.code \notin {"declare", "wait", "return"} /\ line.code # "RegisterReaction"
          /\ line.manager # None => line.manager \in f.history_ \cap Managers
        BY DEF PlainLine, Opens
    <2>4. /\ Extended(f.before, n.before, line) /\ IsFile(n) /\ n.after = f.after
          /\ f.history_ \subseteq n.history_
          /\ n.history_ \cap Managers = f.history_ \cap Managers
        BY <1>4
    <2>5. MainIs(n, v, types2)
        BY <1>9, <2>2, <2>3, <2>4, MainExtended
    <2> QED
        BY <2>1, <2>5
<1>12. LambdaCaptures' = g
    BY <1>1, <1>3, <1>4 DEF LambdaCaptures
<1>13. file' = n /\ work' = v
    BY <1>1, <1>3, <1>6
<1> HIDE DEF g, h
<1> QED
    BY <1>1, <1>8, <1>11, <1>12, <1>13 DEF IInv

\* What is written of main depends on the commands of the frames, not on what is left of them.
LEMMA MainOfFrames ==
    ASSUME NEW f, NEW w, NEW v, NEW types, MainIs(f, w, types), Len(v) = Len(w),
           \A k \in 1..Len(w) : /\ v[k].command = w[k].command
                                /\ v[k].prev_variable_types = w[k].prev_variable_types
    PROVE  MainIs(f, v, types)
<1> DEFINE s == f.before
<1>1. /\ Balanced(s, w) /\ OpenLines(s, w) /\ VariablesIn(s, w, types) /\ Len(w) \in Nat
      /\ Len(s) \in Nat
    <2>1. s \in Seq(Range(s))
        BY DEF MainIs, IsFile, IsSeq
    <2>2. Len(s) \in Nat
        BY <2>1, LenProperties
    <2> QED
        BY <2>2 DEF MainIs, Balanced
<1> HIDE DEF s
<1>2. Balanced(s, v)
    BY <1>1 DEF Balanced
<1>3. OpenLines(s, v)
    <2> SUFFICES ASSUME NEW j \in 1..Len(s), StaysOpen(s, j, Len(s))
                 PROVE  Opener(s[j], v[Nesting(s, j) + 1].command)
        BY DEF OpenLines
    <2>1. Nesting(s, j) + 1 \in 2..Len(w)
        BY <1>1, OpenHasFrame
    <2>2. \A k \in 2..Len(w) : k \in 1..Len(w)
        BY <1>1
    <2>3. v[Nesting(s, j) + 1].command = w[Nesting(s, j) + 1].command
        BY <2>1, <2>2
    <2> QED
        BY <1>1, <2>3 DEF OpenLines
<1>4. VariablesIn(s, v, types)
    <2>1. ASSUME NEW d \in 1..Len(w)
          PROVE  TypesAt(v, types, d) = TypesAt(w, types, d)
        <3>1. d # Len(w) => d + 1 \in 1..Len(w)
            BY <1>1
        <3> QED
            BY <3>1 DEF TypesAt
    <2> QED
        BY <1>1, <2>1 DEF VariablesIn
<1> QED
    BY <1>2, <1>3, <1>4 DEF MainIs, s

\* The command MakeLine is called for, and the frames around it.
LEMMA CommandInFrames ==
    ASSUME IInv, Top.rest # <<>>
    PROVE  /\ IsWork(work, LambdaCaptures)
           /\ Command \in Commands
           /\ \A k \in 2..Len(work) : /\ Command \in Below(work[k].command)
                                      /\ Below(Command) \subseteq Below(work[k].command)
                                      /\ Children(Command) \subseteq Below(work[k].command)
<1>1. IsWork(work, LambdaCaptures) /\ work[Len(work)].rest # <<>>
    BY DEF IInv, Top
<1> DEFINE h == LambdaCaptures
<1> HIDE DEF h
<1>2. IsWork(work, h)
    BY <1>1 DEF h
<1> QED
    BY <1>1, <1>2, CommandIs DEF Command, Top

\* Each step of the constructor preserves the invariant: a print is one plain line.
LEMMA PrintMade == IInv /\ MakePrintCommand => IInv'
<1> SUFFICES ASSUME IInv, MakePrintCommand
             PROVE  IInv'
    OBVIOUS
<1>1. PICK e : InsertsLine(Include(file, "Print"), [Line("cout") EXCEPT !.exprs = e])
    BY DEF MakePrintCommand
<1>2. PICK line : line = [Line("cout") EXCEPT !.exprs = e]
    OBVIOUS
<1>3. line.code = "cout" /\ line.manager = None /\ ~line.declares
    BY <1>2 DEF Line
<1>4. PICK f : f = Include(file, "Print")
    OBVIOUS
<1>5. MainIs(f, work, variable_types_) /\ file.history_ \subseteq f.history_
    <2>1. MainIs(file, work, variable_types_) /\ "Print" \notin Managers
        BY DEF IInv, Managers
    <2> QED
        BY <1>4, <2>1, MainIncludes
<1>6. outcome = "making" /\ Top.rest # <<>>
    BY DEF MakePrintCommand, Accepts, MakesLine
<1>7. PlainLine(line, f)
    BY <1>3 DEF PlainLine, Opens, Closes, Branches, NeededBy
<1>8. Defines(line, variable_types_, variable_types_')
    BY <1>3 DEF Defines, Assigns, MakePrintCommand
<1> QED
    BY <1>1, <1>2, <1>4, <1>5, <1>6, <1>7, <1>8, LineInserted

\* The line of an alert or of an order, behind the declaration it may need.
LEMMA AlertSent ==
    ASSUME IInv, Accepts({"Alert", "SendOrder"}), NEW code, SendsAlert(code)
    PROVE  IInv'
<1>1. PICK e : InsertsLine(AddManager(file, "Alert"),
                           [Line("SendAlert") EXCEPT !.manager = "Alert", !.exprs = e])
    BY DEF SendsAlert
<1>2. PICK line : line = [Line("SendAlert") EXCEPT !.manager = "Alert", !.exprs = e]
    OBVIOUS
<1>3. line.code = "SendAlert" /\ line.manager = "Alert" /\ ~line.declares
    BY <1>2 DEF Line
<1>4. PICK f : f = AddManager(file, "Alert")
    OBVIOUS
<1>5. outcome = "making" /\ Top.rest # <<>> /\ Command.type \in {"Alert", "SendOrder"}
    BY DEF Accepts, MakesLine
<1>6. ManagerOf(Command) = "Alert" /\ "Alert" # None
    BY <1>5 DEF ManagerOf, None
<1>7. /\ "Alert" \in Managers
      /\ \A k \in 2..Len(work) : "Alert" \in Needs(work[k].command)
      /\ "Alert" \notin LambdaCaptures => Len(work) = 1
    <2> DEFINE h == LambdaCaptures
    <2>1. /\ IsWork(work, h) /\ \A k \in 2..Len(work) : Command \in Below(work[k].command)
        BY <1>5, CommandInFrames
    <2> HIDE DEF h
    <2>2. /\ ManagerOf(Command) \in Managers
          /\ \A k \in 2..Len(work) : ManagerOf(Command) \in Needs(work[k].command)
          /\ ManagerOf(Command) \notin h => Len(work) = 1
        BY <1>6, <2>1, ManagerKnown
    <2> QED
        BY <1>6, <2>2 DEF h
<1>8. /\ MainIs(f, work, variable_types_) /\ file.history_ \subseteq f.history_
      /\ "Alert" \in f.history_
    <2>1. MainIs(file, work, variable_types_)
        BY DEF IInv
    <2>2. "Alert" \notin file.history_ => Len(work) = 1
        BY <1>7 DEF LambdaCaptures
    <2> QED
        BY <1>4, <1>7, <2>1, <2>2, ManagerAdded
<1>9. PlainLine(line, f)
    BY <1>3, <1>7, <1>8 DEF PlainLine, Opens, Closes, Branches, NeededBy
<1>10. Defines(line, variable_types_, variable_types_')
    BY <1>3 DEF Defines, Assigns, SendsAlert
<1> QED
    BY <1>1, <1>2, <1>4, <1>5, <1>8, <1>9, <1>10, LineInserted

\* MakeAlertCommand and MakeSendOrderCommand preserve the invariant.
LEMMA AlertMade == IInv /\ (MakeAlertCommand \/ MakeSendOrderCommand) => IInv'
<1>1. ASSUME IInv, MakeAlertCommand
      PROVE  IInv'
    <2>1. PICK e : SendsAlert(e)
        BY <1>1 DEF MakeAlertCommand
    <2>2. Accepts({"Alert", "SendOrder"})
        BY <1>1 DEF MakeAlertCommand, Accepts
    <2> QED
        BY <1>1, <2>1, <2>2, AlertSent
<1>2. ASSUME IInv, MakeSendOrderCommand
      PROVE  IInv'
    <2>1. PICK e : SendsAlert(e)
        BY <1>2 DEF MakeSendOrderCommand
    <2>2. Accepts({"Alert", "SendOrder"})
        BY <1>2 DEF MakeSendOrderCommand, Accepts
    <2> QED
        BY <1>2, <2>1, <2>2, AlertSent
<1> QED
    BY <1>1, <1>2

\* A new name enters variable_types_ with the line that defines it in C++.
LEMMA DeclarationMade == IInv /\ MakeVariableDeclaration => IInv'
<1> SUFFICES ASSUME IInv, MakeVariableDeclaration
             PROVE  IInv'
    OBVIOUS
<1> DEFINE types == variable_types_
<1>1. PICK name, var_type, e, f :
          /\ variable_types_' = [x \in DOMAIN types \cup {name} |->
                                    IF x = name THEN var_type ELSE types[x]]
          /\ f = file \/ f = Include(file, "VariableDeclaration")
          /\ InsertsLine(f, [Line("set") EXCEPT
                               !.name = name, !.op = "=", !.type = var_type,
                               !.declares = name \notin DOMAIN types, !.exprs = e])
    <2> DEFINE name == Command.variable_name
               var_type == ExpressionType(Command.expression, variable_types_)
               known == name \in DOMAIN variable_types_
               e == <<ExpressionText(Command.expression, variable_types_', var_type)>>
               f == IF var_type = "String" /\ ~known
                      THEN Include(file, "VariableDeclaration") ELSE file
    <2>1. /\ variable_types_' = [x \in DOMAIN types \cup {name} |->
                                    IF x = name THEN var_type ELSE types[x]]
          /\ InsertsLine(f, [Line("set") EXCEPT
                               !.name = name, !.op = "=", !.type = var_type,
                               !.declares = ~known, !.exprs = e])
        BY DEF MakeVariableDeclaration
    <2>2. f = file \/ f = Include(file, "VariableDeclaration")
        OBVIOUS
    <2> HIDE DEF name, var_type, e, f
    <2> QED
        BY <2>1, <2>2
<1>2. PICK line : line = [Line("set") EXCEPT
                            !.name = name, !.op = "=", !.type = var_type,
                            !.declares = name \notin DOMAIN types, !.exprs = e]
    OBVIOUS
<1>3. /\ line.code = "set" /\ line.manager = None /\ line.name = name /\ line.type = var_type
      /\ line.declares <=> name \notin DOMAIN types
    BY <1>2 DEF Line
<1>4. MainIs(f, work, variable_types_) /\ file.history_ \subseteq f.history_
    <2>1. MainIs(file, work, variable_types_) /\ "VariableDeclaration" \notin Managers
        BY DEF IInv, Managers
    <2> QED
        BY <1>1, <2>1, MainIncludes
<1>5. outcome = "making" /\ Top.rest # <<>>
    BY DEF MakeVariableDeclaration, Accepts, MakesLine
<1>6. PlainLine(line, f)
    BY <1>3 DEF PlainLine, Opens, Closes, Branches, NeededBy
<1>7. Defines(line, variable_types_, variable_types_')
    <2>1. PICK types2 : types2 = variable_types_'
        OBVIOUS
    <2>2. /\ DOMAIN types2 = DOMAIN types \cup {name} /\ types2[name] = var_type
          /\ \A x \in DOMAIN types : x # name => types2[x] = types[x]
        BY <1>1, <2>1
    <2>3. CASE name \in DOMAIN types
        BY <1>3, <2>1, <2>2, <2>3 DEF Defines, Assigns
    <2>4. CASE name \notin DOMAIN types
        BY <1>3, <2>1, <2>2, <2>4 DEF Defines
    <2> QED
        BY <2>3, <2>4
<1> QED
    BY <1>1, <1>2, <1>4, <1>5, <1>6, <1>7, LineInserted

\* MakeVariableAssignment preserves the invariant.
LEMMA AssignmentMade == IInv /\ MakeVariableAssignment => IInv'
<1> SUFFICES ASSUME IInv, MakeVariableAssignment
             PROVE  IInv'
    OBVIOUS
<1>1. PICK name, op, type, e :
          InsertsLine(file, [Line("set") EXCEPT
                               !.name = name, !.op = op, !.type = type, !.exprs = e])
    BY DEF MakeVariableAssignment
<1>2. PICK line : line = [Line("set") EXCEPT
                            !.name = name, !.op = op, !.type = type, !.exprs = e]
    OBVIOUS
<1>3. line.code = "set" /\ line.manager = None /\ ~line.declares
    BY <1>2 DEF Line
<1>4. MainIs(file, work, variable_types_) /\ outcome = "making" /\ Top.rest # <<>>
    BY DEF IInv, MakeVariableAssignment, Accepts, MakesLine
<1>5. PlainLine(line, file)
    BY <1>3 DEF PlainLine, Opens, Closes, Branches, NeededBy
<1>6. Defines(line, variable_types_, variable_types_')
    BY <1>3 DEF Defines, Assigns, MakeVariableAssignment
<1> QED
    BY <1>1, <1>2, <1>4, <1>5, <1>6, LineInserted

\* A command that is refused leaves main as it is.
LEMMA RefusedCommand == IInv /\ Refuses => IInv'
<1> SUFFICES ASSUME IInv, Refuses
             PROVE  IInv'
    OBVIOUS
<1>1. /\ outcome = "making" /\ Top.rest # <<>>
      /\ file' = file /\ active_managers_' = active_managers_
      /\ variable_types_' = variable_types_ /\ LambdaCaptures' = LambdaCaptures
    BY DEF Refuses, MakesLine, LambdaCaptures
<1>2. MainIs(file, work, variable_types_) /\ IsWork(work, LambdaCaptures)
    BY DEF IInv
<1>3. CASE outcome' = "refused" /\ work' = work
    BY <1>1, <1>2, <1>3 DEF IInv
<1>4. CASE work' = Advanced /\ outcome' = outcome
    <2> DEFINE h == LambdaCaptures
    <2>1. PICK v : v = Advanced
        OBVIOUS
    <2>2. IsWork(work, h) /\ work[Len(work)].rest # <<>>
        BY <1>1, <1>2 DEF Top
    <2> HIDE DEF h
    <2>3. /\ IsWork(v, h) /\ Len(v) = Len(work)
          /\ \A k \in 1..Len(work) : /\ v[k].command = work[k].command
                                     /\ v[k].prev_variable_types = work[k].prev_variable_types
        BY <2>1, <2>2, WorkAdvanced DEF Advanced
    <2>4. MainIs(file, v, variable_types_)
        BY <1>2, <2>2, <2>3, MainOfFrames
    <2> QED
        BY <1>1, <1>4, <2>1, <2>3, <2>4 DEF IInv, h
<1> QED
    BY <1>3, <1>4 DEF Refuses

\* When main is built, no block is open.
LEMMA OutputBuilt == IInv /\ BuildOutput => IInv'
<1> SUFFICES ASSUME IInv, BuildOutput
             PROVE  IInv'
    OBVIOUS
<1>1. /\ file' = file /\ active_managers_' = active_managers_ /\ work' = work
      /\ variable_types_' = variable_types_ /\ LambdaCaptures' = LambdaCaptures
      /\ outcome' = "built" /\ Len(work) = 1
    BY DEF BuildOutput, LambdaCaptures
<1> QED
    BY <1>1 DEF IInv

\* stoi throws, out of arguments that were accepted.
LEMMA RepeatThrown == IInv /\ RepeatThrows => IInv'
<1> SUFFICES ASSUME IInv, RepeatThrows
             PROVE  IInv'
    OBVIOUS
<1>1. /\ file' = file /\ active_managers_' = active_managers_ /\ work' = work
      /\ variable_types_' = variable_types_ /\ LambdaCaptures' = LambdaCaptures
      /\ Command' = Command /\ outcome' = "thrown"
    BY DEF RepeatThrows, LambdaCaptures, Command, Top
<1>2. /\ Top.rest # <<>> /\ Command.type \in {"Schedule", "ReactOn"} /\ ~Refused(Command)
      /\ StoiThrows(RepeatArgument(Command))
    BY DEF RepeatThrows, Accepts, MakesLine
<1>3. Command \in Commands
    BY <1>2, CommandInFrames
<1>4. /\ Command.type = "Schedule" => ScheduleArgsValid(Command.arguments)
      /\ Command.type = "ReactOn" => ReactOnArgsValid(Command.arguments)
    BY <1>2 DEF Refused
<1>5. Len(RepeatArgument(Command)) = 1 \/ Stoi(RepeatArgument(Command)) > MaxInt
    BY <1>2, <1>3, <1>4, AcceptedNumbers
<1> QED
    BY <1>1, <1>5 DEF IInv

\* The numbers, and the commands, are collected for a command that has been accepted.
LEMMA CollectionStarts ==
    ASSUME IInv, outcome = "making", Top.rest # <<>>,
           Command.type \in {"Schedule", "ReactOn", "If"}, Numbers(Command),
           CollectsManagers, work' = work, variable_types_' = variable_types_,
           active_managers_' = active_managers_,
           MainIs(file', work, variable_types_), file.history_ \subseteq file'.history_,
           Command.type # "If" => Command.type \in file'.history_
    PROVE  IInv'
<1>1. Top' = Top /\ Command' = Command /\ outcome' = "collecting"
    BY DEF Top, Command, CollectsManagers
<1>2. IsWork(work, LambdaCaptures) /\ Command \in Commands
    BY CommandInFrames
<1>3. LambdaCaptures \subseteq LambdaCaptures'
    BY DEF LambdaCaptures
<1>4. IsWork(work, LambdaCaptures')
    <2>1. PICK h : h = LambdaCaptures
        OBVIOUS
    <2>2. PICK g : g = LambdaCaptures'
        OBVIOUS
    <2>3. IsWork(work, g)
        BY <1>2, <1>3, <2>1, <2>2, WorkGrows
    <2> QED
        BY <2>2, <2>3
<1>5. Collects(Command, collecting', LambdaCaptures')
    <2>1. PICK g : g = LambdaCaptures'
        OBVIOUS
    <2>2. collecting' = Blocks(Command)
        BY DEF CollectsManagers, CollectRequiredManagers
    <2>3. Collects(Command, Blocks(Command), g)
        BY <1>2, CollectStarts
    <2> QED
        BY <2>1, <2>2, <2>3
<1>6. Collecting'
    BY <1>1, <1>5 DEF Collecting
<1> QED
    BY <1>1, <1>4, <1>6 DEF IInv

\* MakeScheduleCommand and MakeReactOnCommand declare their manager and start to collect.
LEMMA TimedMade == IInv /\ MakeTimedCommand => IInv'
<1> SUFFICES ASSUME IInv, MakeTimedCommand
             PROVE  IInv'
    OBVIOUS
<1>1. /\ outcome = "making" /\ Top.rest # <<>> /\ ~Refused(Command)
      /\ Command.type \in {"Schedule", "ReactOn"} /\ ~StoiThrows(RepeatArgument(Command))
      /\ CollectsManagers /\ work' = work /\ variable_types_' = variable_types_
      /\ active_managers_' = active_managers_
    BY DEF MakeTimedCommand, Accepts, MakesLine
<1>2. PICK m : m = Command.type
    OBVIOUS
<1>3. file' = AddManager(file, m)
    BY <1>2 DEF MakeTimedCommand
<1>4. Command \in Commands
    BY <1>1, CommandInFrames
<1>5. ManagerOf(Command) = m /\ m # None
    BY <1>1, <1>2 DEF ManagerOf, None
<1>6. m \in Managers /\ (m \notin LambdaCaptures => Len(work) = 1)
    <2>1. PICK h : h = LambdaCaptures
        OBVIOUS
    <2>2. /\ IsWork(work, h) /\ \A k \in 2..Len(work) : Command \in Below(work[k].command)
        BY <1>1, <2>1, CommandInFrames
    <2>3. /\ ManagerOf(Command) \in Managers
          /\ ManagerOf(Command) \notin h => Len(work) = 1
        BY <1>5, <2>2, ManagerKnown
    <2> QED
        BY <1>5, <2>1, <2>3
<1>7. /\ MainIs(file', work, variable_types_) /\ file.history_ \subseteq file'.history_
      /\ m \in file'.history_
    <2>1. MainIs(file, work, variable_types_)
        BY DEF IInv
    <2>2. m \notin file.history_ => Len(work) = 1
        BY <1>6 DEF LambdaCaptures
    <2>3. /\ MainIs(AddManager(file, m), work, variable_types_)
          /\ m \in AddManager(file, m).history_
          /\ file.history_ \subseteq AddManager(file, m).history_
        BY <1>6, <2>1, <2>2, ManagerAdded
    <2> QED
        BY <1>3, <2>3
<1>8. Numbers(Command)
    <2>1. /\ Command.type = "Schedule" => ScheduleArgsValid(Command.arguments)
          /\ Command.type = "ReactOn" => ReactOnArgsValid(Command.arguments)
        BY <1>1 DEF Refused
    <2> QED
        BY <1>1, <1>4, <2>1, AcceptedNumbers
<1>9. Command.type \in {"Schedule", "ReactOn", "If"}
    BY <1>1
<1> QED
    BY <1>1, <1>2, <1>7, <1>8, <1>9, CollectionStarts

\* MakeIfCommand starts to collect.
LEMMA IfMade == IInv /\ MakeIfCommand => IInv'
<1> SUFFICES ASSUME IInv, MakeIfCommand
             PROVE  IInv'
    OBVIOUS
<1>1. /\ outcome = "making" /\ Top.rest # <<>> /\ Command.type = "If"
      /\ CollectsManagers /\ work' = work /\ variable_types_' = variable_types_
      /\ active_managers_' = active_managers_ /\ file' = file
    BY DEF MakeIfCommand, Accepts, MakesLine
<1>2. Numbers(Command)
    BY <1>1 DEF Numbers
<1>3. MainIs(file', work, variable_types_) /\ file.history_ \subseteq file'.history_
    BY <1>1 DEF IInv
<1> QED
    BY <1>1, <1>2, <1>3, CollectionStarts

\* The next command below: its manager is added outside every block, or has been.
LEMMA ManagersProcessed == IInv /\ ProcessCommandsForManagers => IInv'
<1> SUFFICES ASSUME IInv, ProcessCommandsForManagers
             PROVE  IInv'
    OBVIOUS
<1> DEFINE d == Head(Head(collecting))
<1>1. /\ outcome = "collecting" /\ outcome' = outcome /\ work' = work
      /\ variable_types_' = variable_types_ /\ collecting # <<>> /\ Head(collecting) # <<>>
      /\ Top' = Top /\ Command' = Command
    BY DEF ProcessCommandsForManagers, Top, Command
<1>2. Collecting /\ MainIs(file, work, variable_types_)
    BY <1>1 DEF IInv
<1>3. Top.rest # <<>> /\ Collects(Command, collecting, LambdaCaptures)
    BY <1>2 DEF Collecting
<1>4. /\ IsWork(work, LambdaCaptures)
      /\ \A k \in 2..Len(work) : Below(Command) \subseteq Below(work[k].command)
    BY <1>3, CommandInFrames
<1>5. d \in Below(Command)
    <2>1. collecting \in Seq(Seq(Commands)) /\ Listed(collecting) \subseteq Below(Command)
        BY <1>3 DEF Collects
    <2>2. /\ Head(collecting) \in Seq(Commands)
          /\ Listed(collecting) = Range(Head(collecting)) \cup Listed(Tail(collecting))
        BY <1>1, <2>1, ListedSplit
    <2>3. Range(Head(collecting)) = {d} \cup Range(Tail(Head(collecting)))
        BY <1>1, <2>2, RangeSplit
    <2> HIDE DEF d
    <2> QED
        BY <2>1, <2>2, <2>3
<1>6. PICK m : m = ManagerOf(d)
    OBVIOUS
<1>7. collecting' = Blocks(d) \o <<Tail(Head(collecting))>> \o Tail(collecting)
    BY DEF ProcessCommandsForManagers, CollectRequiredManagers
<1>8. /\ MainIs(file', work, variable_types_) /\ file.history_ \subseteq file'.history_
      /\ LambdaCaptures \subseteq LambdaCaptures'
      /\ m \in LambdaCaptures' \cup {None}
    <2>1. CASE m = None
        <3>1. file' = file /\ active_managers_' = active_managers_
            BY <1>6, <2>1 DEF ProcessCommandsForManagers
        <3> QED
            BY <1>2, <2>1, <3>1 DEF LambdaCaptures
    <2>2. CASE m # None
        <3>1. file' = AddManager(file, m) /\ active_managers_' = active_managers_ \cup {m}
            BY <1>6, <2>2 DEF ProcessCommandsForManagers
        <3>2. m \in Managers /\ (m \notin LambdaCaptures => Len(work) = 1)
            <4>1. PICK h : h = LambdaCaptures
                OBVIOUS
            <4>2. IsWork(work, h) /\ \A k \in 2..Len(work) : d \in Below(work[k].command)
                BY <1>4, <1>5, <4>1
            <4>3. ManagerOf(d) # None
                BY <1>6, <2>2
            <4> HIDE DEF d
            <4>4. ManagerOf(d) \in Managers /\ (ManagerOf(d) \notin h => Len(work) = 1)
                BY <4>2, <4>3, ManagerKnown
            <4> QED
                BY <1>6, <4>1, <4>4
        <3>3. m \notin file.history_ => Len(work) = 1
            BY <3>2 DEF LambdaCaptures
        <3>4. /\ MainIs(AddManager(file, m), work, variable_types_)
              /\ m \in AddManager(file, m).history_
              /\ file.history_ \subseteq AddManager(file, m).history_
            BY <1>2, <3>2, <3>3, ManagerAdded
        <3> QED
            BY <3>1, <3>4 DEF LambdaCaptures
    <2> QED
        BY <2>1, <2>2
<1>9. PICK h : h = LambdaCaptures
    OBVIOUS
<1>10. PICK g : g = LambdaCaptures'
    OBVIOUS
<1>11. PICK c : c = Command
    OBVIOUS
<1>12. IsWork(work, g)
    BY <1>4, <1>8, <1>9, <1>10, WorkGrows
<1>13. Collects(c, Blocks(d) \o <<Tail(Head(collecting))>> \o Tail(collecting), g)
    BY <1>1, <1>3, <1>6, <1>8, <1>9, <1>10, <1>11, CollectStep
<1>14. Collecting'
    <2>1. /\ Command.type \in {"Schedule", "ReactOn", "If"} /\ Numbers(Command)
          /\ Command.type # "If" => Command.type \in file.history_
        BY <1>2 DEF Collecting
    <2>2. Collects(Command, collecting', LambdaCaptures')
        <3> HIDE DEF d
        <3> QED
            BY <1>7, <1>10, <1>11, <1>13
    <2>3. Command.type # "If" => Command.type \in file'.history_
        BY <1>8, <2>1
    <2> QED
        BY <1>1, <1>3, <2>1, <2>2, <2>3 DEF Collecting
<1> QED
    BY <1>1, <1>8, <1>10, <1>12, <1>14 DEF IInv

\* ProcessCommandsForManagers returns to the list it was called from.
LEMMA ManagersReturned == IInv /\ ProcessedCommands => IInv'
<1> SUFFICES ASSUME IInv, ProcessedCommands
             PROVE  IInv'
    OBVIOUS
<1>1. /\ outcome = "collecting" /\ outcome' = outcome /\ work' = work /\ file' = file
      /\ active_managers_' = active_managers_ /\ variable_types_' = variable_types_
      /\ collecting # <<>> /\ Head(collecting) = <<>> /\ collecting' = Tail(collecting)
      /\ Top' = Top /\ Command' = Command /\ LambdaCaptures' = LambdaCaptures
    BY DEF ProcessedCommands, Top, Command, LambdaCaptures
<1>2. Collecting
    BY <1>1 DEF IInv
<1>3. Collects(Command, Tail(collecting), LambdaCaptures)
    <2>1. PICK c : c = Command
        OBVIOUS
    <2>2. PICK h : h = LambdaCaptures
        OBVIOUS
    <2>3. Collects(c, collecting, h)
        BY <1>2, <2>1, <2>2 DEF Collecting
    <2>4. Collects(c, Tail(collecting), h)
        BY <1>1, <2>3, CollectReturns
    <2> QED
        BY <2>1, <2>2, <2>4
<1>4. Collecting'
    BY <1>1, <1>2, <1>3 DEF Collecting
<1> QED
    BY <1>1, <1>4 DEF IInv

\* What the line in front of a block is.
LEMMA OpeningLineIs ==
    ASSUME NEW c, c.type \in {"Schedule", "ReactOn", "If"}
    PROVE  LET line == OpeningLine(c)
           IN  /\ Opens(line) /\ ~Closes(line) /\ ~Branches(line) /\ ~line.declares
               /\ line.code \notin {"declare", "wait", "return"}
               /\ line.manager = IF c.type = "If" THEN None ELSE c.type
               /\ line.code = "CreateTimer" => c.type = "Schedule"
               /\ line.code # "if" => line.captures = LambdaCaptures
               /\ line.code = "RegisterReaction" =>
                     c.type = "ReactOn" /\ line.repeat = Stoi(RepeatArgument(c))
<1>1. CASE c.type = "Schedule"
    BY <1>1 DEF OpeningLine, Line, Opens, Closes, Branches
<1>2. CASE c.type = "ReactOn"
    <2>1. PICK n : n = Stoi(RepeatArgument(c))
        OBVIOUS
    <2>2. OpeningLine(c) = [Line("RegisterReaction") EXCEPT
                                !.manager = "ReactOn", !.captures = LambdaCaptures,
                                !.name = c.arguments[1], !.repeat = n]
        BY <1>2, <2>1 DEF OpeningLine
    <2> QED
        BY <1>2, <2>1, <2>2 DEF Line, Opens, Closes, Branches
<1>3. CASE c.type = "If"
    <2>1. PICK e : OpeningLine(c) = [Line("if") EXCEPT !.exprs = e]
        BY <1>3 DEF OpeningLine
    <2> QED
        BY <1>3, <2>1 DEF Line, Opens, Closes, Branches
<1> QED
    BY <1>1, <1>2, <1>3

\* A block is opened with all the managers collected that its commands need.
LEMMA BlockOpened == IInv /\ OpenBlock => IInv'
<1> SUFFICES ASSUME IInv, OpenBlock
             PROVE  IInv'
    OBVIOUS
<1>1. PICK c : c = Command
    OBVIOUS
<1>2. PICK h : h = LambdaCaptures
    OBVIOUS
<1>3. PICK line : line = OpeningLine(c)
    OBVIOUS
<1>4. PICK r : r = Frame(c, 1, Blocks(c)[1], variable_types_)
    OBVIOUS
<1>5. PICK u : u = Advanced
    OBVIOUS
<1>6. PICK v : v = Append(u, r)
    OBVIOUS
<1>7. PICK f : f = InsertCode(file, line)
    OBVIOUS
<1>8. /\ outcome = "collecting" /\ collecting = <<>>
      /\ file' = f /\ work' = v /\ outcome' = "making"
      /\ active_managers_' = active_managers_ /\ variable_types_' = variable_types_
    BY <1>1, <1>3, <1>4, <1>5, <1>6, <1>7 DEF OpenBlock
<1>9. Collecting /\ MainIs(file, work, variable_types_)
    BY <1>8 DEF IInv
<1>10. /\ Top.rest # <<>> /\ c.type \in {"Schedule", "ReactOn", "If"} /\ Numbers(c)
       /\ c.type # "If" => c.type \in file.history_
       /\ Collects(c, <<>>, h)
    BY <1>1, <1>2, <1>8, <1>9 DEF Collecting
<1>11. Needs(c) \subseteq h
    BY <1>10, CollectEnds
<1>12. /\ IsWork(work, h) /\ c \in Commands
       /\ \A k \in 2..Len(work) : c \in Below(work[k].command)
                                    /\ Children(c) \subseteq Below(work[k].command)
    BY <1>1, <1>2, <1>10, CommandInFrames
<1>13. Len(work) \in Nat \ {0}
    BY <1>12 DEF IsWork
<1>14. /\ IsWork(u, h) /\ Len(u) = Len(work)
       /\ \A k \in 1..Len(work) : /\ u[k].command = work[k].command
                                  /\ u[k].prev_variable_types = work[k].prev_variable_types
    <2>1. work[Len(work)].rest # <<>>
        BY <1>10 DEF Top
    <2> QED
        BY <1>5, <1>12, <2>1, WorkAdvanced DEF Advanced
<1>15. /\ DOMAIN r = FrameFields /\ r.rest \in Seq(Commands) /\ r.command = c /\ FrameIs(r, h)
       /\ r.prev_variable_types = variable_types_
    <2>1. /\ Len(Blocks(c)) \in Nat \ {0} /\ Blocks(c)[1] \in Seq(Commands)
          /\ \A i \in 1..Len(Blocks(c)[1]) : Blocks(c)[1][i] \in Children(c)
        <3>1. Len(Blocks(c)) \in Nat \ {0}
            BY <1>12, BlocksAre
        <3>2. 1 \in 1..Len(Blocks(c))
            BY <3>1
        <3> QED
            BY <1>12, <3>1, <3>2, BlocksAre
    <2>2. /\ DOMAIN r = FrameFields /\ r.rest = Blocks(c)[1] /\ r.command = c /\ r.block = 1
          /\ r.prev_variable_types = variable_types_
        BY <1>4 DEF Frame, FrameFields
    <2>3. FrameIs(r, h)
        BY <1>10, <1>11, <1>12, <2>1, <2>2 DEF FrameIs
    <2> QED
        BY <2>1, <2>2, <2>3
<1>16. IsWork(v, h) /\ Extended(u, v, r)
    <2>1. \A k \in 2..Len(u) : Children(r.command) \subseteq Below(u[k].command)
        <3>1. \A k \in 2..Len(u) : k \in 2..Len(work) /\ k \in 1..Len(work)
            BY <1>13, <1>14
        <3> QED
            BY <1>12, <1>14, <1>15, <3>1
    <2> QED
        BY <1>6, <1>14, <1>15, <2>1, FramePushed
<1>17. /\ Len(v) = Len(work) + 1 /\ v[Len(v)] = r
       /\ \A k \in 1..Len(work) : v[k] = u[k]
    BY <1>14, <1>16 DEF Extended
<1>18. /\ Opens(line) /\ ~Closes(line) /\ ~Branches(line) /\ ~line.declares
       /\ line.code \notin {"declare", "wait", "return"}
       /\ line.manager = IF c.type = "If" THEN None ELSE c.type
       /\ line.code = "CreateTimer" => c.type = "Schedule"
       /\ line.code # "if" => line.captures = h
       /\ line.code = "RegisterReaction" =>
             c.type = "ReactOn" /\ line.repeat = Stoi(RepeatArgument(c))
    BY <1>2, <1>3, <1>10, OpeningLineIs
<1>19. Follows(work, v, line)
    BY <1>13, <1>14, <1>17, <1>18 DEF Follows, Step
<1>20. /\ IsFile(f) /\ Extended(file.before, f.before, line)
       /\ f.after = file.after /\ f.history_ = file.history_
    <2>1. IsFile(file)
        BY <1>9 DEF MainIs
    <2> QED
        BY <1>7, <2>1, InsertCodeIs
<1>21. VariablesIn(f.before, v, variable_types_)
    <2>1. /\ Balanced(file.before, work) /\ VariablesIn(file.before, work, variable_types_)
          /\ Assigns(line, variable_types_, variable_types_)
        BY <1>9 DEF MainIs, Assigns
    <2> QED
        BY <1>15, <1>17, <1>18, <1>19, <1>20, <2>1, VariablesKept
<1>22. NeededBy(line, work) /\ (line.manager # None => line.manager \in file.history_ \cap Managers)
    <2>1. c.type # "If" => ManagerOf(c) = c.type /\ c.type # None /\ c.type \in Managers
        BY <1>10 DEF ManagerOf, Managers, None
    <2>2. c.type # "If" => \A k \in 2..Len(work) : c.type \in Needs(work[k].command)
        BY <1>12, <2>1 DEF Needs
    <2> QED
        BY <1>10, <1>18, <2>1, <2>2 DEF NeededBy
<1>23. Opener(line, v[Len(v)].command)
    BY <1>11, <1>15, <1>17, <1>18 DEF Opener
<1>24. line.code = "RegisterReaction" => line.repeat \in 1..MaxInt \cup {-1}
    BY <1>10, <1>18 DEF Numbers
<1>25. MainIs(f, v, variable_types_)
    <2>1. file.history_ \subseteq f.history_ /\ f.history_ \cap Managers = file.history_ \cap Managers
        BY <1>20
    <2> QED
        BY <1>9, <1>18, <1>19, <1>20, <1>21, <1>22, <1>23, <1>24, <2>1, MainExtended
<1>26. LambdaCaptures' = h
    BY <1>2, <1>8, <1>20 DEF LambdaCaptures
<1> QED
    BY <1>8, <1>16, <1>25, <1>26 DEF IInv

\* A line that ends the innermost block or its branch.
LEMMA BlockLeft ==
    ASSUME IInv, BlockEnds, NEW line, NEW f, f = InsertCode(file, line),
           NEW v, IsWork(v, LambdaCaptures), Follows(work, v, line),
           file' = f, work' = v, variable_types_' = OuterVariableTypes,
           active_managers_' = active_managers_, outcome' = outcome,
           ~Opens(line), Closes(line) \/ Branches(line), ~line.declares, line.manager = None,
           Closes(line) /\ work[Len(work)].command.type = "Schedule" => Timed(line)
    PROVE  IInv'
<1>1. MainIs(file, work, variable_types_) /\ IsFile(file) /\ outcome = "making" /\ Len(work) > 1
    BY DEF IInv, BlockEnds, MainIs
<1>2. /\ IsFile(f) /\ Extended(file.before, f.before, line)
      /\ f.after = file.after /\ f.history_ = file.history_
    BY <1>1, InsertCodeIs
<1>3. line.code \notin {"declare", "wait", "return", "RegisterReaction"}
    BY DEF Closes, Branches
<1>4. VariablesIn(f.before, v, OuterVariableTypes)
    <2>1. Balanced(file.before, work) /\ VariablesIn(file.before, work, variable_types_)
        BY <1>1 DEF MainIs
    <2>2. VariablesIn(f.before, v, work[Len(work)].prev_variable_types)
        BY <1>1, <1>2, <2>1, VariablesLeft
    <2> QED
        BY <2>2 DEF OuterVariableTypes, Top
<1>5. NeededBy(line, work)
    BY DEF NeededBy
<1>6. MainIs(f, v, OuterVariableTypes)
    <2>1. file.history_ \subseteq f.history_ /\ f.history_ \cap Managers = file.history_ \cap Managers
        BY <1>2
    <2>2. PICK types2 : types2 = OuterVariableTypes
        OBVIOUS
    <2>3. MainIs(f, v, types2)
        BY <1>1, <1>2, <1>3, <1>4, <1>5, <2>1, <2>2, MainExtended
    <2> QED
        BY <2>2, <2>3
<1>7. LambdaCaptures' = LambdaCaptures
    BY <1>2 DEF LambdaCaptures
<1> QED
    BY <1>1, <1>6, <1>7 DEF IInv

\* A block that ends takes its declarations out of scope and out of variable_types_.
LEMMA BlockClosed == IInv /\ CloseBlock => IInv'
<1> SUFFICES ASSUME IInv, CloseBlock
             PROVE  IInv'
    OBVIOUS
<1>1. PICK c : c = Top.command
    OBVIOUS
<1>2. PICK line : line = ClosingLine(c)
    OBVIOUS
<1>3. PICK f : f = InsertCode(file, line)
    OBVIOUS
<1>4. PICK v : v = Front(work)
    OBVIOUS
<1>5. PICK h : h = LambdaCaptures
    OBVIOUS
<1>6. /\ BlockEnds /\ Len(work) > 1 /\ file' = f /\ work' = v
      /\ variable_types_' = OuterVariableTypes
      /\ active_managers_' = active_managers_ /\ outcome' = outcome
    BY <1>1, <1>2, <1>3, <1>4 DEF CloseBlock, BlockEnds
<1>7. IsWork(work, h)
    BY <1>5 DEF IInv
<1>8. /\ IsWork(v, h) /\ Len(v) = Len(work) - 1
      /\ \A k \in 1..Len(work) - 1 : v[k] = work[k]
    BY <1>4, <1>6, <1>7, FramePopped
<1>9. Len(work) \in Nat \ {0} /\ c = work[Len(work)].command
    BY <1>1, <1>7 DEF IsWork, Top
<1>10. Numbers(c)
    <2>1. Len(work) \in 2..Len(work)
        BY <1>6, <1>9
    <2> QED
        BY <1>7, <1>9, <2>1 DEF IsWork, FrameIs
<1>11. /\ line.code = "}" /\ ~line.declares /\ line.manager = None
       /\ c.type = "Schedule" =>
             line.seconds = Stoi(c.arguments[2]) /\ line.repeat = Stoi(RepeatArgument(c))
    <2>1. CASE c.type = "Schedule"
        <3>1. PICK m, n : m = Stoi(c.arguments[2]) /\ n = Stoi(RepeatArgument(c))
            OBVIOUS
        <3>2. line = [Line("}") EXCEPT !.seconds = m, !.repeat = n]
            BY <1>2, <2>1, <3>1 DEF ClosingLine
        <3> QED
            BY <3>1, <3>2 DEF Line
    <2>2. CASE c.type # "Schedule"
        BY <1>2, <2>2 DEF ClosingLine, Line
    <2> QED
        BY <2>1, <2>2
<1>12. Closes(line) /\ ~Opens(line)
    BY <1>11 DEF Closes, Opens
<1>13. c.type = "Schedule" => Timed(line)
    BY <1>10, <1>11 DEF Numbers, Timed
<1>14. Follows(work, v, line)
    <2>1. Step(line) = -1
        BY <1>12 DEF Step
    <2>2. Len(v) \in Nat \ {0} /\ Len(v) = Len(work) + Step(line)
        BY <1>6, <1>8, <1>9, <2>1
    <2>3. \A k \in 1..Len(work) : k <= Len(v) => k \in 1..Len(work) - 1
        BY <1>8, <1>9
    <2> QED
        BY <1>8, <2>2, <2>3 DEF Follows
<1>15. IsWork(v, LambdaCaptures)
    BY <1>5, <1>8
<1> QED
    BY <1>3, <1>6, <1>9, <1>11, <1>12, <1>13, <1>14, <1>15, BlockLeft

\* So does a branch, and the next one is opened.
LEMMA BranchOpened == IInv /\ NextBranch => IInv'
<1> SUFFICES ASSUME IInv, NextBranch
             PROVE  IInv'
    OBVIOUS
<1>1. PICK c : c = Top.command
    OBVIOUS
<1>2. PICK r : r = Frame(c, Top.block + 1, Blocks(c)[Top.block + 1], OuterVariableTypes)
    OBVIOUS
<1>3. PICK line : /\ file' = InsertCode(file, line)
                  /\ \/ \E e : line = [Line("else if") EXCEPT !.exprs = e]
                     \/ line = Line("else")
    <2> DEFINE l == IF Top.block <= Len(c.else_if_branches)
                      THEN [Line("else if") EXCEPT
                              !.exprs = <<ExpressionText(c.else_if_branches[Top.block][1],
                                                         OuterVariableTypes, "Boolean")>>]
                      ELSE Line("else")
    <2>1. file' = InsertCode(file, l)
        BY <1>1 DEF NextBranch
    <2>2. (\E e : l = [Line("else if") EXCEPT !.exprs = e]) \/ l = Line("else")
        OBVIOUS
    <2> HIDE DEF l
    <2> QED
        BY <2>1, <2>2
<1>4. PICK f : f = InsertCode(file, line)
    OBVIOUS
<1>5. PICK v : v = WithTop(work, r)
    OBVIOUS
<1>6. PICK h : h = LambdaCaptures
    OBVIOUS
<1>7. /\ BlockEnds /\ Len(work) > 1 /\ Top.block < Len(Blocks(c)) /\ file' = f /\ work' = v
      /\ variable_types_' = OuterVariableTypes
      /\ active_managers_' = active_managers_ /\ outcome' = outcome
    BY <1>1, <1>2, <1>3, <1>4, <1>5 DEF NextBranch, BlockEnds, WithTop
<1>8. IsWork(work, h)
    BY <1>6 DEF IInv
<1>9. Len(work) \in Nat \ {0} /\ c = work[Len(work)].command
    BY <1>1, <1>8 DEF IsWork, Top
<1>10. FrameIs(work[Len(work)], h) /\ FrameIs(Top, h)
    <2>1. Len(work) \in 2..Len(work)
        BY <1>7, <1>9
    <2> QED
        BY <1>8, <2>1 DEF IsWork, Top
<1>11. c \in Commands /\ Top.block \in 1..Len(Blocks(c)) /\ Needs(c) \subseteq h /\ Numbers(c)
    BY <1>1, <1>10 DEF FrameIs
<1>12. /\ DOMAIN r = FrameFields /\ r.rest = Blocks(c)[Top.block + 1] /\ r.command = c
       /\ r.block = Top.block + 1 /\ r.prev_variable_types = OuterVariableTypes
    BY <1>2 DEF Frame, FrameFields
<1>13. Top.block + 1 \in 1..Len(Blocks(c))
    <2>1. Len(Blocks(c)) \in Nat
        BY <1>11, BlocksAre
    <2> QED
        BY <1>7, <1>11, <2>1
<1>14. /\ r.rest \in Seq(Commands)
       /\ \A i \in 1..Len(r.rest) : r.rest[i] \in Children(c)
    BY <1>11, <1>12, <1>13, BlocksAre
<1>15. Replaces(work, r, h)
    <2>1. FrameIs(r, h)
        BY <1>11, <1>12, <1>13, <1>14 DEF FrameIs
    <2> QED
        BY <1>9, <1>12, <1>14, <2>1 DEF Replaces
<1>16. /\ IsWork(v, h) /\ Len(v) = Len(work)
       /\ v[Len(work)] = r /\ \A k \in 1..Len(work) - 1 : v[k] = work[k]
    BY <1>5, <1>8, <1>15, FrameReplaced
<1>17. line.code \in {"else if", "else"} /\ ~line.declares /\ line.manager = None
    <2>1. CASE \E e : line = [Line("else if") EXCEPT !.exprs = e]
        <3>1. PICK e : line = [Line("else if") EXCEPT !.exprs = e]
            BY <2>1
        <3> QED
            BY <3>1 DEF Line
    <2>2. CASE line = Line("else")
        BY <2>2 DEF Line
    <2> QED
        BY <1>3, <2>1, <2>2
<1>18. Branches(line) /\ ~Opens(line) /\ ~Closes(line)
    BY <1>17 DEF Branches, Opens, Closes
<1>19. Follows(work, v, line)
    <2>1. Step(line) = 0
        BY <1>18 DEF Step
    <2>2. Len(v) \in Nat \ {0} /\ Len(v) = Len(work) + Step(line)
        BY <1>9, <1>16, <2>1
    <2>3. \A k \in 1..Len(work) : k = Len(work) \/ k \in 1..Len(work) - 1
        BY <1>9
    <2>4. r.command = work[Len(work)].command
            /\ r.prev_variable_types = work[Len(work)].prev_variable_types
        BY <1>9, <1>12 DEF OuterVariableTypes, Top
    <2> QED
        BY <1>16, <2>2, <2>3, <2>4 DEF Follows
<1>20. IsWork(v, LambdaCaptures)
    BY <1>6, <1>16
<1> QED
    BY <1>4, <1>7, <1>17, <1>18, <1>19, <1>20, BlockLeft

-----------------------------------------------------------------------------
(***************************************************************************)
(* What the invariant says of a main that is built.                        *)
(***************************************************************************)
\* Main is the lines s in front of code_it_ and the lines a from there on.
Joins(l, s, a) ==
    /\ Len(s) \in Nat /\ DOMAIN s = 1..Len(s)
    /\ Len(a) \in Nat \ {0} /\ DOMAIN a = 1..Len(a)
    /\ Len(l) = Len(s) + Len(a) /\ DOMAIN l = 1..Len(s) + Len(a)
    /\ \A i \in 1..Len(s) : l[i] = s[i]
    /\ \A k \in 1..Len(a) : l[Len(s) + k] = a[k]
    /\ \A i \in 1..Len(s) + Len(a) :
          i \in 1..Len(s) \/ (i - Len(s) \in 1..Len(a) /\ l[i] = a[i - Len(s)])

\* Main is the lines in front of code_it_ and those behind it.
LEMMA LinesJoin ==
    ASSUME NEW f, NEW h, IsFile(f), Waits(f.before, f.after, h)
    PROVE  Joins(f.before \o f.after, f.before, f.after)
<1> DEFINE s == f.before
           a == f.after
           S == Range(s) \cup Range(a)
           l == s \o a
<1>1. s \in Seq(S) /\ a \in Seq(S) /\ Len(a) \in Nat \ {0}
    <2>1. Range(s) \subseteq S /\ Range(a) \subseteq S
        OBVIOUS
    <2>2. s \in Seq(Range(s)) /\ a \in Seq(Range(a)) /\ Len(a) \in Nat \ {0}
        BY DEF IsFile, IsSeq, Waits
    <2> HIDE DEF S, s, a
    <2> QED
        BY <2>1, <2>2, SeqMonotonic
<1> HIDE DEF S, s, a
<1>2. /\ l \in Seq(S) /\ Len(l) = Len(s) + Len(a)
      /\ \A i \in 1..Len(s) + Len(a) : l[i] = IF i <= Len(s) THEN s[i] ELSE a[i - Len(s)]
    BY <1>1, ConcatProperties
<1>3. /\ Len(s) \in Nat /\ DOMAIN s = 1..Len(s) /\ DOMAIN a = 1..Len(a)
      /\ DOMAIN l = 1..Len(s) + Len(a)
    <2>1. \A x \in Seq(S) : Len(x) \in Nat /\ DOMAIN x = 1..Len(x)
        BY LenProperties
    <2> HIDE DEF l
    <2> QED
        BY <1>1, <1>2, <2>1
<1> HIDE DEF l
<1>4. \A i \in 1..Len(s) : l[i] = s[i]
    BY <1>1, <1>2, <1>3
<1>5. ASSUME NEW k \in 1..Len(a)
      PROVE  l[Len(s) + k] = a[k]
    <2>1. /\ Len(s) + k \in 1..Len(s) + Len(a) /\ ~(Len(s) + k <= Len(s))
          /\ (Len(s) + k) - Len(s) = k
        BY <1>1, <1>3
    <2> QED
        BY <1>2, <2>1
<1>6. ASSUME NEW i \in 1..Len(s) + Len(a)
      PROVE  i \in 1..Len(s) \/ (i - Len(s) \in 1..Len(a) /\ l[i] = a[i - Len(s)])
    BY <1>1, <1>2, <1>3
<1>7. Joins(l, s, a)
    BY <1>1, <1>2, <1>3, <1>4, <1>5, <1>6 DEF Joins
<1> QED
    BY <1>7 DEF l, s, a

\* The lines from code_it_ on stand outside every block.
LEMMA NestingJoined ==
    ASSUME NEW l, NEW s, NEW a, NEW h, Joins(l, s, a), Waits(s, a, h), Nesting(s, Len(s)) = 0
    PROVE  /\ \A n \in 0..Len(s) : Nesting(l, n) = Nesting(s, n)
           /\ \A n \in Len(s)..Len(l) : Nesting(l, n) = 0
           /\ \A k \in 1..Len(a) : ~Opens(a[k])
<1>1. ASSUME NEW n \in 0..Len(s)
      PROVE  Nesting(l, n) = Nesting(s, n)
    <2>1. n \in Nat /\ \A i \in 1..n : i \in 1..Len(s)
        BY DEF Joins
    <2>2. \A i \in 1..n : l[i] = s[i]
        BY <2>1 DEF Joins
    <2> QED
        BY <2>1, <2>2, NestingOfPrefix
<1>2. Len(s) \in Nat /\ Len(a) \in Nat \ {0} /\ Len(l) = Len(s) + Len(a)
    BY DEF Joins
<1>3. ASSUME NEW k \in 1..Len(a)
      PROVE  Step(a[k]) = 0 /\ ~Opens(a[k])
    <2>1. k \in 1..Len(a) - 1 \/ k = Len(a)
        BY <1>2
    <2>2. a[k].code \in {"wait", "return"}
        BY <2>1 DEF Waits
    <2> QED
        BY <2>2 DEF Step, Opens, Closes
<1> DEFINE T == {n \in Len(s)..Len(l) : Nesting(l, n) # 0}
<1>4. T = {}
    <2> SUFFICES ASSUME T # {}
                 PROVE  FALSE
        OBVIOUS
    <2>1. T \subseteq Nat
        BY <1>2
    <2>2. PICK m \in T : \A n \in T : m <= n
        BY <2>1, LeastExists
    <2>3. m \in Len(s)..Len(l) /\ Nesting(l, m) # 0
        OBVIOUS
    <2>4. m # Len(s)
        <3>1. Len(s) \in 0..Len(s)
            BY <1>2
        <3> QED
            BY <1>1, <2>3, <3>1
    <2>5. m - 1 \in Len(s)..Len(l) /\ ~(m <= m - 1) /\ m - 1 \in Nat /\ (m - 1) + 1 = m
        BY <1>2, <2>3, <2>4
    <2>6. Nesting(l, m - 1) = 0
        BY <2>2, <2>5
    <2>7. Nesting(l, (m - 1) + 1) = Nesting(l, m - 1) + Step(l[(m - 1) + 1])
        BY <2>5, NestingStep
    <2>8. m - Len(s) \in 1..Len(a) /\ l[m] = a[m - Len(s)]
        <3>1. m \in 1..Len(s) + Len(a) /\ m \notin 1..Len(s)
            BY <1>2, <2>3, <2>4
        <3> QED
            BY <3>1 DEF Joins
    <2>9. Step(l[m]) = 0
        BY <1>3, <2>8
    <2> QED
        BY <2>3, <2>5, <2>6, <2>7, <2>9
<1> QED
    BY <1>1, <1>3, <1>4

\* In a main that is built every use of a manager is bound.
LEMMA MainUsesAreBound == IInv => UsesAreBound
<1> SUFFICES ASSUME IInv, outcome = "built"
             PROVE  \A i \in DOMAIN Lines : Lines[i].manager # None =>
                        \E d \in 1..i :
                            /\ {d} = {j \in DOMAIN Lines : Lines[j].code = "declare"
                                                             /\ Lines[j].manager = Lines[i].manager}
                            /\ Nesting(Lines, d) = 0
                            /\ Lines[i].manager \in file.includes
                            /\ \A j \in DOMAIN Lines :
                                  Encloses(Lines, j, i) /\ Lines[j].code # "if"
                                    => Lines[i].manager \in Lines[j].captures
    BY DEF UsesAreBound
<1>1. PICK s : s = file.before
    OBVIOUS
<1>2. PICK a : a = file.after
    OBVIOUS
<1>3. PICK h : h = file.history_
    OBVIOUS
<1>4. PICK l : l = Lines
    OBVIOUS
<1>5. /\ Balanced(s, work) /\ Len(work) = 1 /\ UsesCaptured(s)
      /\ Declared(s, h) /\ Waits(s, a, h) /\ IsFile(file) /\ h \subseteq file.includes
    BY <1>1, <1>2, <1>3 DEF IInv, MainIs, IsFile
<1>6. Joins(l, s, a)
    BY <1>1, <1>2, <1>4, <1>5, LinesJoin DEF Lines
<1>7. Nesting(s, Len(s)) = 0
    BY <1>5 DEF Balanced
<1>8. /\ \A n \in 0..Len(s) : Nesting(l, n) = Nesting(s, n)
      /\ \A n \in Len(s)..Len(l) : Nesting(l, n) = 0
      /\ \A k \in 1..Len(a) : ~Opens(a[k])
    BY <1>5, <1>6, <1>7, NestingJoined
<1>9. /\ Len(s) \in Nat /\ Len(a) \in Nat \ {0} /\ DOMAIN l = 1..Len(s) + Len(a)
      /\ \A i \in 1..Len(s) : l[i] = s[i]
      /\ \A i \in DOMAIN l : i \in 1..Len(s) \/ (i - Len(s) \in 1..Len(a) /\ l[i] = a[i - Len(s)])
    BY <1>6 DEF Joins
\* No line from code_it_ on declares a manager, and all of those that use one wait for it.
<1>10. ASSUME NEW k \in 1..Len(a)
       PROVE  a[k].code # "declare" /\ (a[k].manager # None => a[k].manager \in h \cap Managers)
    <2>1. k \in 1..Len(a) - 1 \/ k = Len(a)
        BY <1>9
    <2> QED
        BY <1>5, <2>1 DEF Waits, Awaited, Managers
<1>11. ASSUME NEW j \in DOMAIN l, NEW i \in DOMAIN l, Encloses(l, j, i)
       PROVE  /\ j \in 1..Len(s) /\ i \in 1..Len(s)
              /\ Encloses(s, j, i)
    <2>1. j < i /\ StaysOpen(l, j, i - 1)
        BY <1>11 DEF Encloses
    <2>2. Opens(l[j]) /\ \A k \in j..i - 1 : Nesting(l, k) >= Nesting(l, j)
        BY <2>1 DEF StaysOpen
    <2>3. j \in 1..Len(s)
        BY <1>8, <1>9, <2>2
    <2>4. ASSUME NEW n \in 0..Len(s), \A k \in j..n : Nesting(l, k) >= Nesting(l, j)
          PROVE  StaysOpen(s, j, n)
        <3>1. \A k \in j..n : k \in 0..Len(s)
            BY <1>9, <2>3
        <3>2. j \in 0..Len(s) /\ Nesting(l, j) = Nesting(s, j)
            BY <1>8, <1>9, <2>3
        <3>3. \A k \in j..n : Nesting(s, k) >= Nesting(s, j)
            BY <1>8, <2>4, <3>1, <3>2
        <3> QED
            BY <1>9, <2>2, <2>3, <3>3 DEF StaysOpen
    <2>5. i \in 1..Len(s)
        <3> SUFFICES ASSUME i \notin 1..Len(s)
                     PROVE  FALSE
            OBVIOUS
        <3>1. Len(s) \in 0..Len(s) /\ \A k \in j..Len(s) : k \in j..i - 1
            BY <1>9, <2>3
        <3>2. StaysOpen(s, j, Len(s))
            BY <2>2, <2>4, <3>1
        <3>3. Nesting(s, j) \in Int /\ Nesting(s, j) + 1 \in 2..Len(work)
            BY <1>5, <1>9, <2>3, <3>2, OpenHasFrame
        <3> QED
            BY <1>5, <3>3
    <2>6. i - 1 \in 0..Len(s)
        BY <1>9, <2>5
    <2> QED
        BY <2>1, <2>2, <2>3, <2>4, <2>5, <2>6 DEF Encloses
<1>12. ASSUME NEW i \in DOMAIN l, l[i].manager # None
       PROVE  \E d \in 1..i : d \in 1..Len(s) /\ Declares(s[d], l[i].manager)
    <2>1. CASE i \in 1..Len(s)
        <3>1. PICK d \in 1..i : Declares(s[d], s[i].manager)
            BY <1>5, <1>9, <1>12, <2>1 DEF Declared
        <3>2. d \in 1..Len(s)
            BY <1>9, <2>1
        <3> QED
            BY <1>9, <2>1, <3>1, <3>2
    <2>2. CASE i - Len(s) \in 1..Len(a) /\ l[i] = a[i - Len(s)]
        <3>1. l[i].manager \in h \cap Managers
            BY <1>10, <1>12, <2>2
        <3>2. PICK d \in 1..Len(s) : Declares(s[d], l[i].manager)
            BY <1>5, <3>1 DEF Declared
        <3>3. d \in 1..i
            BY <1>9, <2>2
        <3> QED
            BY <3>2, <3>3
    <2> QED
        BY <1>9, <2>1, <2>2
<1>13. ASSUME NEW i \in DOMAIN l, l[i].manager # None
       PROVE  \E d \in 1..i :
                  /\ {d} = {j \in DOMAIN l : l[j].code = "declare" /\ l[j].manager = l[i].manager}
                  /\ Nesting(l, d) = 0
                  /\ l[i].manager \in file.includes
                  /\ \A j \in DOMAIN l :
                        Encloses(l, j, i) /\ l[j].code # "if" => l[i].manager \in l[j].captures
    <2>1. PICK d \in 1..i : d \in 1..Len(s) /\ Declares(s[d], l[i].manager)
        BY <1>12, <1>13
    <2>2. ASSUME NEW j \in DOMAIN l, l[j].code = "declare", l[j].manager = l[i].manager
          PROVE  j = d
        <3>1. j \in 1..Len(s) /\ l[j] = s[j]
            BY <1>9, <1>10, <2>2
        <3>2. s[j].code = "declare" /\ s[d].code = "declare" /\ s[j].manager = s[d].manager
            BY <2>1, <2>2, <3>1 DEF Declares
        <3> QED
            BY <1>5, <2>1, <3>1, <3>2 DEF Declared
    <2>3. d \in DOMAIN l /\ l[d].code = "declare" /\ l[d].manager = l[i].manager
        BY <1>9, <2>1 DEF Declares
    <2>4. {d} = {j \in DOMAIN l : l[j].code = "declare" /\ l[j].manager = l[i].manager}
        BY <2>2, <2>3
    <2>5. Nesting(l, d) = 0
        <3>1. d \in 0..Len(s)
            BY <1>9, <2>1
        <3>2. Nesting(s, d) = 0
            BY <1>5, <2>1 DEF Declared, Declares
        <3> QED
            BY <1>8, <3>1, <3>2
    <2>6. l[i].manager \in file.includes
        <3>1. s[d].manager \in h
            BY <1>5, <1>13, <2>1 DEF Declared, Declares
        <3> QED
            BY <1>5, <2>1, <3>1 DEF Declares
    <2>7. ASSUME NEW j \in DOMAIN l, Encloses(l, j, i), l[j].code # "if"
          PROVE  l[i].manager \in l[j].captures
        <3>1. j \in 1..Len(s) /\ i \in 1..Len(s) /\ Encloses(s, j, i)
            BY <1>11, <2>7
        <3>2. l[j] = s[j] /\ l[i] = s[i]
            BY <1>9, <3>1
        <3> QED
            BY <1>5, <1>13, <2>7, <3>1, <3>2 DEF UsesCaptured
    <2> QED
        BY <2>4, <2>5, <2>6, <2>7
<1> QED
    BY <1>4, <1>13

\* A main that is built ends with the waits.
LEMMA MainWaitsClose == IInv => WaitsCloseMain
<1> SUFFICES ASSUME IInv, outcome = "built"
             PROVE  WaitsCloseMain
    BY DEF WaitsCloseMain
<1>1. PICK s : s = file.before
    OBVIOUS
<1>2. PICK a : a = file.after
    OBVIOUS
<1>3. PICK h : h = file.history_
    OBVIOUS
<1>4. PICK l : l = Lines
    OBVIOUS
<1>5. /\ Balanced(s, work) /\ Len(work) = 1 /\ Declared(s, h) /\ Waits(s, a, h) /\ IsFile(file)
    BY <1>1, <1>2, <1>3 DEF IInv, MainIs
<1>6. Joins(l, s, a)
    BY <1>1, <1>2, <1>4, <1>5, LinesJoin DEF Lines
<1>7. Nesting(s, Len(s)) = 0
    BY <1>5 DEF Balanced
<1>8. \A n \in Len(s)..Len(l) : Nesting(l, n) = 0
    BY <1>5, <1>6, <1>7, NestingJoined
<1>9. /\ Len(s) \in Nat /\ Len(a) \in Nat \ {0} /\ Len(l) = Len(s) + Len(a)
      /\ DOMAIN l = 1..Len(s) + Len(a)
      /\ \A i \in 1..Len(s) : l[i] = s[i]
      /\ \A k \in 1..Len(a) : l[Len(s) + k] = a[k]
      /\ \A i \in DOMAIN l : i \in 1..Len(s) \/ (i - Len(s) \in 1..Len(a) /\ l[i] = a[i - Len(s)])
    BY <1>6 DEF Joins
<1> DEFINE waits == {i \in DOMAIN l : l[i].code = "wait"}
           awaited == {i \in DOMAIN l : l[i].code = "declare" /\ l[i].manager # "Alert"}
<1>10. waits = Len(s) + 1..Len(l) - 1
    <2>1. ASSUME NEW i \in waits
          PROVE  i \in Len(s) + 1..Len(l) - 1
        <3>1. i \notin 1..Len(s)
            BY <1>5, <1>9 DEF Declared
        <3>2. i - Len(s) \in 1..Len(a) /\ l[i] = a[i - Len(s)]
            BY <1>9, <3>1
        <3>3. i - Len(s) # Len(a)
            BY <1>5, <3>2 DEF Waits
        <3>4. i \in Nat
            BY <1>9
        <3> QED
            BY <1>9, <3>2, <3>3, <3>4
    <2>2. ASSUME NEW i \in Len(s) + 1..Len(l) - 1
          PROVE  i \in waits
        <3>1. /\ i - Len(s) \in 1..Len(a) - 1 /\ i - Len(s) \in 1..Len(a)
              /\ Len(s) + (i - Len(s)) = i /\ i \in DOMAIN l
            BY <1>9
        <3>2. l[i] = a[i - Len(s)]
            BY <1>9, <3>1
        <3> QED
            BY <1>5, <3>1, <3>2 DEF Waits
    <2> QED
        BY <2>1, <2>2
<1>11. ASSUME NEW w \in waits
       PROVE  /\ w \in Nat /\ w - Len(s) \in 1..Len(a) - 1 /\ l[w] = a[w - Len(s)]
              /\ l[w].manager \in h \cap Awaited
    <2>1. w \in Len(s) + 1..Len(l) - 1
        BY <1>10
    <2> HIDE DEF waits
    <2>2. /\ w - Len(s) \in 1..Len(a) - 1 /\ w - Len(s) \in 1..Len(a)
          /\ Len(s) + (w - Len(s)) = w /\ w \in Nat
        BY <1>9, <2>1
    <2>3. l[w] = a[w - Len(s)]
        BY <1>9, <2>2
    <2> QED
        BY <1>5, <2>2, <2>3 DEF Waits
<1>12. ASSUME NEW d \in awaited
       PROVE  d \in 1..Len(s) /\ Declares(s[d], l[d].manager) /\ l[d].manager \in h \cap Awaited
    <2>1. \A k \in 1..Len(a) : a[k].code # "declare"
        <3>1. \A k \in 1..Len(a) : k \in 1..Len(a) - 1 \/ k = Len(a)
            BY <1>9
        <3> QED
            BY <1>5, <3>1 DEF Waits
    <2>2. d \in 1..Len(s) /\ l[d] = s[d]
        BY <1>9, <2>1
    <2>3. l[d].manager \in Managers
        BY <1>5, <2>2 DEF Declared
    <2>4. l[d].manager \in h
        BY <1>5, <2>2, <2>3 DEF Declared, Managers, None
    <2> QED
        BY <2>2, <2>3, <2>4 DEF Declares, Managers, Awaited
<1>13. \E n \in DOMAIN l : waits = n..Len(l) - 1
    <2>1. Len(s) + 1 \in DOMAIN l
        BY <1>9
    <2> QED
        BY <1>10, <2>1
<1>14. {l[w].manager : w \in waits} = {l[d].manager : d \in awaited}
    <2>1. ASSUME NEW m \in h \cap Awaited
          PROVE  /\ \E w \in waits : l[w].manager = m
                 /\ \E d \in awaited : l[d].manager = m
        <3>1. PICK k \in 1..Len(a) - 1 : a[k].manager = m
            BY <1>5 DEF Waits
        <3>2. Len(s) + k \in Len(s) + 1..Len(l) - 1 /\ k \in 1..Len(a)
            BY <1>9
        <3>3. Len(s) + k \in waits /\ l[Len(s) + k].manager = m
            BY <1>9, <1>10, <3>1, <3>2
        <3>4. m \in Managers /\ m # "Alert"
            BY DEF Awaited, Managers
        <3>5. PICK d \in 1..Len(s) : Declares(s[d], m)
            BY <1>5, <3>4 DEF Declared
        <3>6. d \in awaited /\ l[d].manager = m
            BY <1>9, <3>4, <3>5 DEF Declares
        <3> QED
            BY <3>3, <3>6
    <2> HIDE DEF waits, awaited
    <2> QED
        BY <1>11, <1>12, <2>1
<1>15. ASSUME NEW v \in waits, NEW w \in waits, NEW c \in awaited, NEW d \in awaited,
              l[v].manager = l[c].manager, l[w].manager = l[d].manager
       PROVE  v < w <=> d < c
    <2>1. /\ v \in Nat /\ v - Len(s) \in 1..Len(a) - 1 /\ l[v] = a[v - Len(s)]
          /\ w \in Nat /\ w - Len(s) \in 1..Len(a) - 1 /\ l[w] = a[w - Len(s)]
        BY <1>11
    <2>2. /\ c \in 1..Len(s) /\ Declares(s[c], l[v].manager)
          /\ d \in 1..Len(s) /\ Declares(s[d], l[w].manager)
        BY <1>12, <1>15
    <2>3. v - Len(s) < w - Len(s) <=> d < c
        BY <1>5, <2>1, <2>2 DEF Waits
    <2>4. v - Len(s) < w - Len(s) <=> v < w
        BY <1>9, <2>1
    <2> QED
        BY <2>3, <2>4
<1>16. Nesting(l, Len(l)) = 0
    <2>1. Len(l) \in Len(s)..Len(l)
        BY <1>9
    <2> QED
        BY <1>8, <2>1
<1>17. \A v, w \in waits, c, d \in awaited :
         l[v].manager = l[c].manager /\ l[w].manager = l[d].manager => (v < w <=> d < c)
    <2> HIDE DEF waits, awaited
    <2> QED
        BY <1>15
<1> DEFINE ends == {i \in DOMAIN Lines : Lines[i].code = "wait"}
           declared == {i \in DOMAIN Lines : Lines[i].code = "declare" /\ Lines[i].manager # "Alert"}
<1>18. ends = waits /\ declared = awaited
    BY <1>4
<1> HIDE DEF waits, awaited, ends, declared
<1>19. /\ \E n \in DOMAIN Lines : ends = n..Len(Lines) - 1
       /\ Nesting(Lines, Len(Lines)) = 0
    BY <1>4, <1>13, <1>16, <1>18
<1>20. {Lines[w].manager : w \in ends} = {Lines[d].manager : d \in declared}
    BY <1>4, <1>14, <1>18
<1>21. \A v, w \in ends, c, d \in declared :
         Lines[v].manager = Lines[c].manager /\ Lines[w].manager = Lines[d].manager
           => (v < w <=> d < c)
    BY <1>4, <1>17, <1>18
<1> QED
    BY <1>19, <1>20, <1>21, Zenon DEF WaitsCloseMain, ends, declared

\* variable_types_ and the scopes of C++ agree.
LEMMA MainVariablesAgree == IInv => VariablesAgree
<1> SUFFICES ASSUME IInv
             PROVE  VariablesAgree
    OBVIOUS
<1>1. PICK s : s = file.before
    OBVIOUS
<1>2. PICK types : types = variable_types_
    OBVIOUS
<1>3. /\ Balanced(s, work) /\ VariablesIn(s, work, types) /\ IsSeq(s)
    BY <1>1, <1>2 DEF IInv, MainIs, IsFile
<1>4. Len(work) \in Nat \ {0} /\ Nesting(s, Len(s)) = Len(work) - 1
    BY <1>3 DEF Balanced
<1>5. Len(s) \in Nat
    BY <1>3, LenProperties DEF IsSeq
<1>6. Unique(s) /\ Agrees(s, Len(work), types)
    <2>1. Len(work) \in 1..Len(work)
        BY <1>4
    <2> QED
        BY <1>3, <2>1 DEF VariablesIn, TypesAt
<1>7. Inside(s, Len(work)) = Declarations(s, Len(s))
    <2>1. Extended(s, Append(s, 0), 0)
        BY <1>3, AppendExtends
    <2>2. ASSUME NEW i \in Declarations(s, Len(s))
          PROVE  Nesting(s, i) < Len(work)
        <3>1. Nesting(s, i) \in Int /\ Nesting(s, i) <= Nesting(s, Len(s))
            BY <2>1, DeclarationsExtended
        <3> QED
            BY <1>4, <3>1
    <2> QED
        BY <2>2 DEF Inside
<1> DEFINE visible == Visible(s, Len(s))
           names == {s[i].name : i \in Declarations(s, Len(s))}
<1>8. DOMAIN visible = names
    BY DEF Visible
<1>9. DOMAIN types = names
    BY <1>6, <1>7 DEF Agrees
<1>10. ASSUME NEW x \in names
       PROVE  visible[x] = types[x] \/ x \in Retyped(s, Len(s))
    <2>1. PICK i \in Declarations(s, Len(s)) : x = s[i].name
        OBVIOUS
    <2>2. visible[x] = s[i].type
        BY <1>5, <1>6, <2>1, VisibleIs
    <2>3. types[x] = s[i].type \/ x \in Retyped(s, Len(s))
        BY <1>6, <1>7, <2>1 DEF Agrees
    <2> QED
        BY <2>2, <2>3
<1> HIDE DEF visible, names
<1>11. DOMAIN visible = DOMAIN types
         /\ \A x \in DOMAIN visible : visible[x] = types[x] \/ x \in Retyped(s, Len(s))
    BY <1>8, <1>9, <1>10
<1> QED
    BY <1>1, <1>2, <1>11 DEF VariablesAgree, visible

\* Timers and reactions have numbers they can work with.
LEMMA MainArgumentsAreNumbers == IInv => ArgumentsAreNumbers
<1> SUFFICES ASSUME IInv
             PROVE  ArgumentsAreNumbers
    OBVIOUS
<1>1. PICK s : s = file.before
    OBVIOUS
<1>2. EndsTimed(s) /\ Reactions(s) /\ IsSeq(s)
    BY <1>1 DEF IInv, MainIs, IsFile
<1>3. Len(s) \in Nat /\ DOMAIN s = 1..Len(s)
    BY <1>2, LenProperties DEF IsSeq
<1>4. ASSUME NEW i \in DOMAIN s
      PROVE  /\ s[i].code = "RegisterReaction" => s[i].repeat \in 1..MaxInt \cup {-1}
             /\ \A j \in 1..i : Ends(s, j, i) /\ s[j].code = "CreateTimer"
                  => s[i].seconds \in 1..MaxInt /\ s[i].repeat \in 1..MaxInt
    <2>1. i \in 1..Len(s) /\ \A j \in 1..i : j \in 1..Len(s)
        BY <1>3
    <2> QED
        BY <1>2, <2>1 DEF EndsTimed, Reactions, Timed
<1> QED
    BY <1>1, <1>4 DEF ArgumentsAreNumbers, IInv

-----------------------------------------------------------------------------

\* Every step preserves the invariant.
LEMMA StepIInv == IInv /\ [Next]_vars => IInv'
<1> SUFFICES ASSUME IInv, [Next]_vars
             PROVE  IInv'
    OBVIOUS
<1>1. CASE MakeTimedCommand
    BY <1>1, TimedMade
<1>2. CASE RepeatThrows
    BY <1>2, RepeatThrown
<1>3. CASE MakeIfCommand
    BY <1>3, IfMade
<1>4. CASE ProcessCommandsForManagers
    BY <1>4, ManagersProcessed
<1>5. CASE ProcessedCommands
    BY <1>5, ManagersReturned
<1>6. CASE OpenBlock
    BY <1>6, BlockOpened
<1>7. CASE NextBranch
    BY <1>7, BranchOpened
<1>8. CASE CloseBlock
    BY <1>8, BlockClosed
<1>9. CASE MakePrintCommand
    BY <1>9, PrintMade
<1>10. CASE MakeAlertCommand \/ MakeSendOrderCommand
    BY <1>10, AlertMade
<1>11. CASE MakeVariableDeclaration
    BY <1>11, DeclarationMade
<1>12. CASE MakeVariableAssignment
    BY <1>12, AssignmentMade
<1>13. CASE Refuses
    BY <1>13, RefusedCommand
<1>14. CASE BuildOutput
    BY <1>14, OutputBuilt
<1>15. CASE UNCHANGED vars
    <2>1. UNCHANGED <<script, work, collecting, file, active_managers_, variable_types_,
                      ignored, outcome>>
        BY <1>15 DEF vars
    <2>2. Top' = Top /\ Command' = Command /\ LambdaCaptures' = LambdaCaptures
        BY <2>1 DEF Command, Top, LambdaCaptures
    <2>3. (Collecting)' = Collecting
        BY <2>1, <2>2 DEF Collecting
    <2> QED
        BY <2>1, <2>2, <2>3 DEF IInv
<1> QED
    BY <1>1, <1>2, <1>3, <1>4, <1>5, <1>6, <1>7, <1>8, <1>9, <1>10, <1>11, <1>12, <1>13,
       <1>14, <1>15 DEF Next

\* Together: what the invariant says of main, of the loops and of the managers that are
\* collected holds in every state of every behaviour.
THEOREM Invariance == Spec => []IInv
BY Initially, StepIInv, PTL DEF Spec

-----------------------------------------------------------------------------

\* Whatever script the constructor is given, C++ finds the manager of every line of a main
\* that was built: it is declared once and before, its header is there, and every lambda
\* around the line captures it by reference.
THEOREM UsesBound == Spec => []UsesAreBound
BY Invariance, MainUsesAreBound, PTL

\* Whatever script the constructor is given, a main that was built ends with one wait for
\* each of its managers that has one, in the reverse order of their declarations.
THEOREM WaitsClose == Spec => []WaitsCloseMain
BY Invariance, MainWaitsClose, PTL

\* However blocks and branches open and close, and whichever commands are refused in them,
\* variable_types_ is what C++ sees at the line that comes next.
THEOREM VariablesKnown == Spec => []VariablesAgree
BY Invariance, MainVariablesAgree, PTL

\* Whatever text the arguments are, timers are generated with positive numbers, reactions with
\* a positive one or -1, and stoi throws nothing else out of the constructor than it is known
\* to.
THEOREM NumbersFit == Spec => []ArgumentsAreNumbers
BY Invariance, MainArgumentsAreNumbers, PTL
=============================================================================
