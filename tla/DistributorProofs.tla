-------------------------- MODULE DistributorProofs --------------------------
(***************************************************************************)
(* What holds of Distributor for every set of calls, every capacity of the *)
(* queues and every number of points.                                      *)
(***************************************************************************)
EXTENDS Distributor, SequenceTheorems, TLAPS

(***************************************************************************)
(* What the proofs need of Append, Tail and Range, beyond the theorems of  *)
(* the library.                                                            *)
(***************************************************************************)
\* Append adds one element.
LEMMA RangeOfAppend ==
    ASSUME NEW S, NEW s \in Seq(S), NEW e \in S
    PROVE  Range(Append(s, e)) = Range(s) \cup {e}
<1>1. /\ Append(s, e) \in Seq(S)
      /\ Len(Append(s, e)) = Len(s) + 1
      /\ \A i \in 1 .. Len(s) : Append(s, e)[i] = s[i]
      /\ Append(s, e)[Len(s) + 1] = e
    BY AppendProperties
<1>2. Len(s) \in Nat /\ \A i \in 1 .. Len(s) + 1 : i \in 1 .. Len(s) \/ i = Len(s) + 1
    OBVIOUS
<1>3. /\ Range(s) = {s[i] : i \in 1 .. Len(s)}
      /\ Range(Append(s, e)) = {Append(s, e)[i] : i \in 1 .. Len(Append(s, e))}
    BY <1>1, RangeEquality
<1>4. \A i \in 1 .. Len(s) : i \in 1 .. Len(s) + 1
    BY <1>2
<1>5. Len(s) + 1 \in 1 .. Len(s) + 1
    BY <1>2
<1>6. ASSUME NEW x \in Range(Append(s, e))
      PROVE  x \in Range(s) \cup {e}
    BY <1>1, <1>2, <1>3
<1>7. ASSUME NEW x \in Range(s) \cup {e}
      PROVE  x \in Range(Append(s, e))
    BY <1>1, <1>3, <1>4, <1>5
<1> QED
    BY <1>6, <1>7

\* The element of a sequence of one, and those of an empty one.
LEMMA RangeOfSingle ==
    /\ \A e : Range(<<e>>) = {e}
    /\ Range(<<>>) = {}
<1>1. ASSUME NEW e
      PROVE  Range(<<e>>) = {e}
    <2>1. <<e>> \in Seq({e}) /\ Len(<<e>>) = 1 /\ <<e>>[1] = e
        OBVIOUS
    <2>2. Range(<<e>>) = {<<e>>[i] : i \in 1 .. 1}
        BY <2>1, RangeEquality
    <2>3. \A i \in 1 .. 1 : i = 1
        OBVIOUS
    <2> QED
        BY <2>1, <2>2, <2>3
<1>2. Range(<<>>) = {}
    <2>1. <<>> \in Seq({}) /\ Len(<<>>) = 0
        OBVIOUS
    <2>2. Range(<<>>) = {<<>>[i] : i \in 1 .. 0}
        BY <2>1, RangeEquality
    <2> QED
        BY <2>2
<1> QED
    BY <1>1, <1>2

\* Each element is greater than those in front of it.
Increasing(s) == \A i, j \in 1 .. Len(s) : i < j => s[i] < s[j]

\* A larger number behind the last keeps the order.
LEMMA AppendIncreases ==
    ASSUME NEW n \in Nat, NEW s \in Seq(1 .. n), Increasing(s)
    PROVE  Increasing(Append(s, n + 1))
<1>1. /\ Len(s) \in Nat /\ Len(Append(s, n + 1)) = Len(s) + 1
      /\ \A i \in 1 .. Len(s) : Append(s, n + 1)[i] = s[i] /\ s[i] \in 1 .. n
      /\ Append(s, n + 1)[Len(s) + 1] = n + 1
    <2>1. s \in Seq(Nat)
        BY SeqMonotonic
    <2> QED
        BY <2>1, AppendProperties, ElementOfSeq
<1> SUFFICES ASSUME NEW i \in 1 .. Len(s) + 1, NEW j \in 1 .. Len(s) + 1, i < j
             PROVE  Append(s, n + 1)[i] < Append(s, n + 1)[j]
    BY <1>1 DEF Increasing
<1>2. i \in 1 .. Len(s)
    BY <1>1
<1>3. CASE j \in 1 .. Len(s)
    BY <1>1, <1>2, <1>3 DEF Increasing
<1>4. CASE j = Len(s) + 1
    BY <1>1, <1>2, <1>4
<1>5. j \in 1 .. Len(s) \/ j = Len(s) + 1
    BY <1>1
<1> QED
    BY <1>3, <1>4, <1>5

\* Handing the head of the third part over to an empty second leaves the whole as it is.
LEMMA HandOver ==
    ASSUME NEW S, NEW r \in Seq(S), NEW s \in Seq(S), s # <<>>
    PROVE  (r \o <<Head(s)>>) \o Tail(s) = (r \o <<>>) \o s
<1>1. Head(s) \in S /\ Tail(s) \in Seq(S) /\ <<Head(s)>> \in Seq(S) /\ <<>> \in Seq(S)
    BY HeadTailProperties, EmptySeq
<1>2. s = <<Head(s)>> \o Tail(s)
    OBVIOUS
<1>3. (r \o <<Head(s)>>) \o Tail(s) = r \o (<<Head(s)>> \o Tail(s))
    BY <1>1, ConcatAssociative
<1>4. r \o <<>> = r
    BY ConcatEmptySeq
<1> QED
    BY <1>2, <1>3, <1>4

-----------------------------------------------------------------------------

\* A subscription is there from the beginning of its call to its end.
SubscribedWhileOpen ==
    subscribers = {c \in Calls : call[c] \in {"test", "pop", "write", "leave"}}

\* A call that has not begun has taken nothing in, and one that is about to pop has
\* written what it popped before.
NothingInHand ==
    \A c \in Calls :
        /\ call[c] = "out" => /\ queue[c] = <<>> /\ point[c] = <<>> /\ sent[c] = <<>>
                              /\ dropped[c] = {}
        /\ call[c] \in {"test", "pop"} => point[c] = <<>>

IInv == TypeOK /\ SubscribedWhileOpen /\ NothingInHand /\ StreamIsExact

\* What StreamIsExact says of one call.
Exact(c) ==
    /\ Increasing(Taken(c))
    /\ Range(Taken(c)) \cap dropped[c] = {}
    /\ c \in subscribers => Range(Taken(c)) \cup dropped[c] = (since[c] + 1) .. published

LEMMA ExactIsExact == StreamIsExact <=> \A c \in Calls : Exact(c)
BY DEF StreamIsExact, Exact, Increasing

\* What a call has taken in is a sequence of points.
LEMMA TakenType ==
    ASSUME TypeOK, NEW c \in Calls
    PROVE  /\ Taken(c) \in Seq(1 .. published)
           /\ sent[c] \o point[c] \in Seq(1 .. published)
           /\ Range(Taken(c)) \subseteq 1 .. published
<1>1. /\ sent[c] \in Seq(1 .. published) /\ point[c] \in Seq(1 .. published)
      /\ queue[c] \in Seq(1 .. published)
    BY DEF TypeOK
<1>2. sent[c] \o point[c] \in Seq(1 .. published)
    BY <1>1, ConcatProperties
<1>3. Taken(c) \in Seq(1 .. published)
    BY <1>1, <1>2, ConcatProperties DEF Taken
<1> QED
    BY <1>2, <1>3, RangeOfSeq

\* A step that leaves what calls have taken in and dropped, and the number of points, as
\* they are, keeps the streams exact.
LEMMA SameTaken ==
    ASSUME StreamIsExact, UNCHANGED <<published, dropped>>,
           \A c \in Calls : Taken(c)' = Taken(c),
           \A c \in Calls : c \in subscribers' => c \in subscribers /\ since'[c] = since[c]
    PROVE  StreamIsExact'
<1>1. \A c \in Calls : Exact(c)
    BY ExactIsExact
<1>2. ASSUME NEW c \in Calls
      PROVE  Exact(c)'
    BY <1>1 DEF Exact, Increasing
<1> QED
    BY <1>2 DEF StreamIsExact, Exact, Increasing

-----------------------------------------------------------------------------

\* Nobody streams at the start.
LEMMA InitIInv == Init => IInv
<1> SUFFICES ASSUME Init
             PROVE  IInv
    OBVIOUS
<1>1. \A S : <<>> \in Seq(S) /\ Len(<<>>) = 0
    OBVIOUS
<1>2. TypeOK
    <2>1. \A c \in Calls : Len(queue[c]) <= Capacity /\ Len(point[c]) <= 1
        BY <1>1, DistributorAssumption DEF Init
    <2>2. /\ gateway \in GatewayPCs /\ destructor \in DestructorPCs
          /\ running = (gateway \notin {"starting", "gone"})
          /\ should_stop = (destructor # "idle")
        BY DEF Init, GatewayPCs, DestructorPCs
    <2>3. /\ queue \in [Calls -> Seq(1 .. published)] /\ point \in [Calls -> Seq(1 .. published)]
          /\ sent \in [Calls -> Seq(1 .. published)]
        BY <1>1 DEF Init
    <2>4. /\ published \in 0 .. MaxPoints /\ since \in [Calls -> 0 .. published]
          /\ dropped \in [Calls -> SUBSET (1 .. published)]
        BY DistributorAssumption DEF Init
    <2>5. /\ subscribers \subseteq Calls /\ active \in [Calls -> BOOLEAN]
          /\ call \in [Calls -> CallPCs] /\ cancelled \in [Calls -> BOOLEAN]
        BY DEF Init, CallPCs
    <2> QED
        BY <2>1, <2>2, <2>3, <2>4, <2>5 DEF TypeOK
<1>3. SubscribedWhileOpen /\ NothingInHand
    BY DEF Init, SubscribedWhileOpen, NothingInHand
<1>4. StreamIsExact
    <2>1. ASSUME NEW c \in Calls
          PROVE  Exact(c)
        <3>1. Taken(c) = <<>>
            BY DEF Init, Taken
        <3>2. Increasing(Taken(c))
            BY <1>1, <3>1 DEF Increasing
        <3>3. Range(Taken(c)) = {} /\ c \notin subscribers
            BY <3>1, RangeOfSingle DEF Init
        <3> QED
            BY <3>2, <3>3 DEF Exact
    <2> QED
        BY <2>1, ExactIsExact
<1> QED
    BY <1>2, <1>3, <1>4 DEF IInv

\* The gateway's steps between two points, a client that goes, and the destructor: no
\* point moves.
LEMMA OutsideIInv ==
    ASSUME IInv,
           \/ Connects \/ TestsStop \/ Reads \/ Handled \/ Closes \/ Destroy \/ Destroyed
           \/ \E c \in Calls : Cancels(c)
    PROVE  IInv'
<1>1. UNCHANGED <<subscribers, queue, call, point, published, since, sent, dropped>>
    BY DEF Connects, TestsStop, Reads, Handled, Closes, Destroy, Destroyed, Cancels, feed,
           streams, history
<1>2. /\ gateway' \in GatewayPCs /\ destructor' \in DestructorPCs
      /\ running' = (gateway' \notin {"starting", "gone"})
      /\ should_stop' = (destructor' # "idle")
    BY DEF Connects, TestsStop, Reads, Handled, Closes, Destroy, Destroyed, Cancels, feed,
           streams, IInv, TypeOK, GatewayPCs, DestructorPCs
<1>3. active' \in [Calls -> BOOLEAN] /\ cancelled' \in [Calls -> BOOLEAN]
    <2>1. active' = active \/ Deactivates
        BY DEF Connects, TestsStop, Reads, Handled, Closes, Destroy, Destroyed, Cancels
    <2>2. active' \in [Calls -> BOOLEAN]
        BY <2>1 DEF Deactivates, IInv, TypeOK
    <2>3. cancelled' = cancelled \/ \E c \in Calls : cancelled' = [cancelled EXCEPT ![c] = TRUE]
        BY DEF Connects, TestsStop, Reads, Handled, Closes, Destroy, Destroyed, Cancels,
               streams
    <2> QED
        BY <2>2, <2>3 DEF IInv, TypeOK
<1>4. TypeOK'
    BY <1>1, <1>2, <1>3 DEF IInv, TypeOK
<1>5. SubscribedWhileOpen' /\ NothingInHand'
    BY <1>1 DEF IInv, SubscribedWhileOpen, NothingInHand
<1>6. StreamIsExact'
    BY <1>1, SameTaken DEF IInv, Taken
<1> QED
    BY <1>4, <1>5, <1>6 DEF IInv

\* A point goes to the end of what a subscription has taken in, or is dropped.
LEMMA BroadcastIInv == IInv /\ Broadcast => IInv'
<1> SUFFICES ASSUME IInv, Broadcast
             PROVE  IInv'
    OBVIOUS
<1> DEFINE p == published + 1
<1>1. /\ published < MaxPoints /\ published' = p
      /\ UNCHANGED <<gateway, running, should_stop, destructor, subscribers, active, call,
                     point, cancelled, since, sent>>
    BY DEF Broadcast, feed, streams
<1>2. /\ published \in Nat /\ p \in 1 .. p /\ p \notin 1 .. published
      /\ 1 .. published \subseteq 1 .. p /\ 0 .. published \subseteq 0 .. p
      /\ published' \in 0 .. MaxPoints
    BY <1>1, DistributorAssumption DEF IInv, TypeOK
<1>3. \A s \in Seq(1 .. published) : s \in Seq(1 .. p) /\ Append(s, p) \in Seq(1 .. p)
    BY <1>2, SeqMonotonic, AppendProperties
<1>4. /\ queue \in [Calls -> Seq(1 .. published)] /\ point \in [Calls -> Seq(1 .. published)]
      /\ sent \in [Calls -> Seq(1 .. published)]
      /\ dropped \in [Calls -> SUBSET (1 .. published)]
      /\ since \in [Calls -> 0 .. published]
    BY DEF IInv, TypeOK
<1>5. /\ queue' \in [Calls -> Seq(1 .. p)] /\ dropped' \in [Calls -> SUBSET (1 .. p)]
      /\ \A c \in Calls : queue'[c] = IF c \in subscribers THEN Pushed(queue[c], p) ELSE queue[c]
      /\ \A c \in Calls : dropped'[c] = IF c \in subscribers /\ Len(queue[c]) = Capacity
                                        THEN dropped[c] \cup {p} ELSE dropped[c]
    <2>1. \A c \in Calls : Pushed(queue[c], p) \in Seq(1 .. p) /\ queue[c] \in Seq(1 .. p)
        BY <1>3, <1>4 DEF Pushed
    <2>2. \A c \in Calls : dropped[c] \cup {p} \subseteq 1 .. p /\ dropped[c] \subseteq 1 .. p
        BY <1>2, <1>4
    <2> QED
        BY <2>1, <2>2 DEF Broadcast
<1>6. TypeOK'
    <2>1. ASSUME NEW c \in Calls
          PROVE  Len(queue'[c]) <= Capacity
        <3>1. queue[c] \in Seq(1 .. p) /\ Len(queue[c]) \in Nat /\ Len(queue[c]) <= Capacity
            BY <1>3, <1>4 DEF IInv, TypeOK
        <3>2. Len(Append(queue[c], p)) = Len(queue[c]) + 1
            BY <1>2, <3>1, AppendProperties
        <3> QED
            BY <1>5, <3>1, <3>2, DistributorAssumption DEF Pushed
    <2>2. /\ point' \in [Calls -> Seq(1 .. p)] /\ sent' \in [Calls -> Seq(1 .. p)]
          /\ since' \in [Calls -> 0 .. p]
        BY <1>1, <1>2, <1>3, <1>4
    <2> QED
        BY <1>1, <1>2, <1>5, <2>1, <2>2 DEF IInv, TypeOK
<1>7. SubscribedWhileOpen'
    BY <1>1 DEF IInv, SubscribedWhileOpen
<1>8. NothingInHand'
    <2>1. \A c \in Calls : call[c] = "out" => c \notin subscribers
        BY DEF IInv, SubscribedWhileOpen
    <2> QED
        BY <1>1, <1>5, <2>1 DEF IInv, NothingInHand
<1>9. ASSUME NEW c \in Calls
      PROVE  Exact(c)'
    <2>1. Exact(c)
        BY ExactIsExact DEF IInv
    <2>2. Taken(c) \in Seq(1 .. published) /\ Range(Taken(c)) \subseteq 1 .. published
        BY TakenType DEF IInv
    <2>3. CASE c \in subscribers /\ Len(queue[c]) < Capacity
        <3>1. queue'[c] = Append(queue[c], p) /\ dropped'[c] = dropped[c]
            BY <1>5, <2>3, DistributorAssumption DEF Pushed, IInv, TypeOK
        <3>2. Taken(c)' = Append(Taken(c), p)
            <4>1. /\ sent[c] \o point[c] \in Seq(1 .. p) /\ queue[c] \in Seq(1 .. p)
                  /\ Taken(c) \in Seq(1 .. p) /\ <<p>> \in Seq(1 .. p)
                BY <1>2, <1>3, <1>4, <2>2, TakenType DEF IInv
            <4>2. Append(queue[c], p) = queue[c] \o <<p>>
                BY <1>2, <4>1, AppendIsConcat
            <4>3. Append(Taken(c), p) = Taken(c) \o <<p>>
                BY <1>2, <4>1, AppendIsConcat
            <4>4. (sent[c] \o point[c]) \o (queue[c] \o <<p>>) = Taken(c) \o <<p>>
                <5>1. \A r, q, t \in Seq(1 .. p) : (r \o q) \o t = r \o (q \o t)
                    BY ConcatAssociative
                <5> QED
                    BY <4>1, <5>1 DEF Taken
            <4>5. Taken(c)' = (sent[c] \o point[c]) \o Append(queue[c], p)
                BY <1>1, <3>1 DEF Taken
            <4> QED
                BY <4>2, <4>3, <4>4, <4>5
        <3>3. Increasing(Taken(c)')
            BY <1>2, <2>1, <2>2, <3>2, AppendIncreases DEF Exact
        <3>4. Range(Taken(c)') = Range(Taken(c)) \cup {p}
            <4>1. Taken(c) \in Seq(1 .. p)
                BY <1>3, <2>2
            <4> QED
                BY <1>2, <3>2, <4>1, RangeOfAppend
        <3>5. (since[c] + 1) .. p = ((since[c] + 1) .. published) \cup {p}
            BY <1>2, <1>4
        <3>6. p \notin dropped[c]
            BY <1>2, <1>4
        <3>7. Range(Taken(c)') \cap dropped'[c] = {}
            BY <2>1, <3>1, <3>4, <3>6 DEF Exact
        <3>8. Range(Taken(c)') \cup dropped'[c] = (since'[c] + 1) .. published'
            BY <1>1, <2>1, <2>3, <3>1, <3>4, <3>5 DEF Exact
        <3> QED
            BY <3>3, <3>7, <3>8 DEF Exact, Increasing
    <2>4. CASE c \in subscribers /\ ~(Len(queue[c]) < Capacity)
        <3>1. Len(queue[c]) = Capacity
            BY <1>4, <2>4, DistributorAssumption DEF IInv, TypeOK
        <3>2. queue'[c] = queue[c] /\ dropped'[c] = dropped[c] \cup {p}
            BY <1>5, <2>4, <3>1 DEF Pushed
        <3>3. Taken(c)' = Taken(c)
            BY <1>1, <3>2 DEF Taken
        <3>4. (since[c] + 1) .. p = ((since[c] + 1) .. published) \cup {p}
            BY <1>2, <1>4
        <3>5. p \notin Range(Taken(c))
            BY <1>2, <2>2
        <3>6. Range(Taken(c)) \cap dropped'[c] = {}
            BY <2>1, <3>2, <3>5 DEF Exact
        <3>7. Range(Taken(c)) \cup dropped'[c] = (since'[c] + 1) .. published'
            BY <1>1, <2>1, <2>4, <3>2, <3>4 DEF Exact
        <3> QED
            BY <2>1, <3>3, <3>6, <3>7 DEF Exact, Increasing
    <2>5. CASE c \notin subscribers
        <3>1. Taken(c)' = Taken(c) /\ dropped'[c] = dropped[c]
            BY <1>1, <1>5, <2>5 DEF Taken
        <3> QED
            BY <1>1, <2>1, <2>5, <3>1 DEF Exact, Increasing
    <2> QED
        BY <2>3, <2>4, <2>5
<1>10. StreamIsExact'
    BY <1>9 DEF StreamIsExact, Exact, Increasing
<1> QED
    BY <1>6, <1>7, <1>8, <1>10 DEF IInv

\* A call that begins has its subscription from now on.
LEMMA SubscribeIInv == ASSUME IInv, NEW c \in Calls, Subscribe(c)
                       PROVE  IInv'
<1>1. /\ call[c] = "out" /\ subscribers' = subscribers \cup {c}
      /\ since' = [since EXCEPT ![c] = published]
      /\ call' = [call EXCEPT ![c] = "test"]
      /\ UNCHANGED <<gateway, running, should_stop, destructor, queue, active, point,
                     cancelled, published, sent, dropped>>
    BY DEF Subscribe, feed
<1>2. published \in Nat
    BY DEF IInv, TypeOK
<1>3. TypeOK'
    <2>1. call' \in [Calls -> CallPCs] /\ since' \in [Calls -> 0 .. published]
        BY <1>1, <1>2 DEF IInv, TypeOK, CallPCs
    <2> QED
        BY <1>1, <2>1 DEF IInv, TypeOK
<1>4. SubscribedWhileOpen' /\ NothingInHand'
    BY <1>1 DEF IInv, TypeOK, SubscribedWhileOpen, NothingInHand
<1>5. ASSUME NEW d \in Calls
      PROVE  Exact(d)'
    <2>1. Exact(d) /\ Taken(d)' = Taken(d)
        BY <1>1, ExactIsExact DEF IInv, Taken
    <2>2. CASE d = c
        <3>1. Taken(d) = <<>> /\ dropped[d] = {}
            BY <1>1, <2>2 DEF IInv, NothingInHand, Taken
        <3>2. since'[d] = published
            BY <1>1, <2>2 DEF IInv, TypeOK
        <3>3. (published + 1) .. published = {}
            BY <1>2
        <3> QED
            BY <1>1, <2>1, <3>1, <3>2, <3>3, RangeOfSingle DEF Exact, Increasing
    <2>3. CASE d # c
        BY <1>1, <2>1, <2>3 DEF Exact, Increasing, IInv, TypeOK
    <2> QED
        BY <2>2, <2>3
<1>6. StreamIsExact'
    BY <1>5 DEF StreamIsExact, Exact, Increasing
<1> QED
    BY <1>3, <1>4, <1>6 DEF IInv

\* Popping and writing hand a point over, in order; the other steps of a call move none.
LEMMA CallIInv == ASSUME IInv, NEW c \in Calls, CallStep(c)
                  PROVE  IInv'
<1>1. /\ queue \in [Calls -> Seq(1 .. published)] /\ point \in [Calls -> Seq(1 .. published)]
      /\ sent \in [Calls -> Seq(1 .. published)] /\ call \in [Calls -> CallPCs]
      /\ queue[c] \in Seq(1 .. published) /\ point[c] \in Seq(1 .. published)
      /\ sent[c] \in Seq(1 .. published)
      /\ SubscribedWhileOpen /\ NothingInHand
      /\ \A d \in Calls : Len(queue[d]) <= Capacity /\ Len(point[d]) <= 1
    BY DEF IInv, TypeOK
<1>2. UNCHANGED <<gateway, running, should_stop, destructor, active, cancelled, published,
                  since, dropped>>
    BY DEF CallStep, Tests, Pops, Sleeps, Writes, WriteFails, Unsubscribe, feed, history
<1>3. CASE Tests(c) \/ Sleeps(c) \/ WriteFails(c)
    <2>1. /\ UNCHANGED <<subscribers, queue, point, sent>>
          /\ \/ /\ call[c] \in {"test", "pop"}
                /\ \E step \in {"test", "pop", "leave"} : call' = [call EXCEPT ![c] = step]
             \/ call[c] = "write" /\ call' = [call EXCEPT ![c] = "leave"]
        BY <1>3 DEF Tests, Sleeps, WriteFails, history
    <2>2. call' \in [Calls -> CallPCs]
        BY <1>1, <2>1 DEF CallPCs
    <2>3. TypeOK'
        BY <1>2, <2>1, <2>2 DEF IInv, TypeOK
    <2>4. SubscribedWhileOpen'
        BY <1>1, <2>1 DEF SubscribedWhileOpen
    <2>5. NothingInHand'
        BY <1>1, <1>2, <2>1 DEF NothingInHand
    <2>6. StreamIsExact'
        BY <1>2, <2>1, SameTaken DEF IInv, Taken
    <2> QED
        BY <2>3, <2>4, <2>5, <2>6 DEF IInv
<1>4. CASE Unsubscribe(c)
    <2>1. /\ UNCHANGED <<queue, point, sent>>
          /\ call[c] = "leave" /\ call' = [call EXCEPT ![c] = "done"]
          /\ subscribers' = subscribers \ {c}
        BY <1>4 DEF Unsubscribe, Removed, history
    <2>2. TypeOK'
        BY <1>1, <1>2, <2>1 DEF IInv, TypeOK, CallPCs
    <2>3. SubscribedWhileOpen' /\ NothingInHand'
        BY <1>1, <1>2, <2>1 DEF SubscribedWhileOpen, NothingInHand
    <2>4. StreamIsExact'
        BY <1>2, <2>1, SameTaken DEF IInv, Taken
    <2> QED
        BY <2>2, <2>3, <2>4 DEF IInv
<1>5. CASE Pops(c)
    <2>1. /\ call[c] = "pop" /\ queue[c] # <<>>
          /\ point' = [point EXCEPT ![c] = <<Head(queue[c])>>]
          /\ queue' = [queue EXCEPT ![c] = Tail(queue[c])]
          /\ call' = [call EXCEPT ![c] = "write"]
          /\ UNCHANGED <<subscribers, sent>>
        BY <1>5 DEF Pops, Oldest, history
    <2>2. /\ Tail(queue[c]) \in Seq(1 .. published)
          /\ <<Head(queue[c])>> \in Seq(1 .. published)
          /\ Len(Tail(queue[c])) <= Capacity
          /\ \A e : Len(<<e>>) <= 1
        <3>1. /\ Head(queue[c]) \in 1 .. published
              /\ Tail(queue[c]) \in Seq(1 .. published)
              /\ Len(Tail(queue[c])) = Len(queue[c]) - 1
            BY <1>1, <2>1, HeadTailProperties
        <3>2. Len(queue[c]) \in Nat /\ Len(queue[c]) <= Capacity
            BY <1>1, LenProperties
        <3>3. Len(Tail(queue[c])) <= Capacity
            BY <3>1, <3>2, DistributorAssumption
        <3>4. \A S : \A e \in S : <<e>> \in Seq(S)
            OBVIOUS
        <3>5. \A e : Len(<<e>>) <= 1
            OBVIOUS
        <3> QED
            BY <3>1, <3>3, <3>4, <3>5
    <2>3. TypeOK'
        <3>1. ASSUME NEW d \in Calls
              PROVE  Len(queue'[d]) <= Capacity /\ Len(point'[d]) <= 1
            <4>1. CASE d = c
                BY <1>1, <2>1, <2>2, <4>1
            <4>2. CASE d # c
                <5>1. queue'[d] = queue[d] /\ point'[d] = point[d]
                    BY <1>1, <2>1, <4>2
                <5> QED
                    BY <1>1, <5>1
            <4> QED
                BY <4>1, <4>2
        <3>2. /\ queue' \in [Calls -> Seq(1 .. published)]
              /\ point' \in [Calls -> Seq(1 .. published)]
              /\ call' \in [Calls -> CallPCs]
            BY <1>1, <2>1, <2>2 DEF CallPCs
        <3> QED
            BY <1>2, <2>1, <3>1, <3>2 DEF IInv, TypeOK
    <2>4. SubscribedWhileOpen' /\ NothingInHand'
        BY <1>1, <1>2, <2>1 DEF SubscribedWhileOpen, NothingInHand
    <2>5. ASSUME NEW d \in Calls
          PROVE  Taken(d)' = Taken(d)
        <3>1. CASE d = c
            <4>1. point[c] = <<>>
                BY <1>1, <2>1 DEF NothingInHand
            <4>2. Taken(c)' = (sent[c] \o <<Head(queue[c])>>) \o Tail(queue[c])
                BY <1>1, <2>1 DEF Taken
            <4>3. Taken(c) = (sent[c] \o <<>>) \o queue[c]
                BY <4>1 DEF Taken
            <4> QED
                BY <1>1, <2>1, <3>1, <4>2, <4>3, HandOver
        <3>2. CASE d # c
            BY <1>1, <2>1, <3>2 DEF Taken
        <3> QED
            BY <3>1, <3>2
    <2>6. StreamIsExact'
        BY <1>2, <2>1, <2>5, SameTaken DEF IInv
    <2> QED
        BY <2>3, <2>4, <2>6 DEF IInv
<1>6. CASE Writes(c)
    <2>1. /\ call[c] = "write"
          /\ sent' = [sent EXCEPT ![c] = sent[c] \o point[c]]
          /\ point' = [point EXCEPT ![c] = <<>>]
          /\ call' = [call EXCEPT ![c] = "test"]
          /\ UNCHANGED <<subscribers, queue>>
        BY <1>6 DEF Writes
    <2>2. /\ sent[c] \o point[c] \in Seq(1 .. published)
          /\ <<>> \in Seq(1 .. published) /\ Len(<<>>) <= 1
        BY <1>1, ConcatProperties
    <2>3. TypeOK'
        <3>1. ASSUME NEW d \in Calls
              PROVE  Len(point'[d]) <= 1
            <4>1. CASE d = c
                BY <1>1, <2>1, <2>2, <4>1
            <4>2. CASE d # c
                <5>1. point'[d] = point[d]
                    BY <1>1, <2>1, <4>2
                <5> QED
                    BY <1>1, <5>1
            <4> QED
                BY <4>1, <4>2
        <3>2. /\ sent' \in [Calls -> Seq(1 .. published)]
              /\ point' \in [Calls -> Seq(1 .. published)]
              /\ call' \in [Calls -> CallPCs]
            BY <1>1, <2>1, <2>2 DEF CallPCs
        <3> QED
            BY <1>2, <2>1, <3>1, <3>2 DEF IInv, TypeOK
    <2>4. SubscribedWhileOpen' /\ NothingInHand'
        BY <1>1, <1>2, <2>1 DEF SubscribedWhileOpen, NothingInHand
    <2>5. ASSUME NEW d \in Calls
          PROVE  Taken(d)' = Taken(d)
        <3>1. CASE d = c
            <4>1. Taken(c)' = ((sent[c] \o point[c]) \o <<>>) \o queue[c]
                BY <1>1, <2>1 DEF Taken
            <4>2. (sent[c] \o point[c]) \o <<>> = sent[c] \o point[c]
                BY <2>2, ConcatEmptySeq
            <4> QED
                BY <3>1, <4>1, <4>2 DEF Taken
        <3>2. CASE d # c
            BY <1>1, <2>1, <3>2 DEF Taken
        <3> QED
            BY <3>1, <3>2
    <2>6. StreamIsExact'
        BY <1>2, <2>1, <2>5, SameTaken DEF IInv
    <2> QED
        BY <2>3, <2>4, <2>6 DEF IInv
<1> QED
    BY <1>3, <1>4, <1>5, <1>6 DEF CallStep

\* Every step preserves the invariant.
LEMMA StepIInv == IInv /\ [Next]_vars => IInv'
<1> SUFFICES ASSUME IInv, [Next]_vars
             PROVE  IInv'
    OBVIOUS
<1>1. CASE GatewayStep
    BY <1>1, BroadcastIInv, OutsideIInv DEF GatewayStep
<1>2. ASSUME NEW c \in Calls, Subscribe(c) \/ CallStep(c) \/ Cancels(c)
      PROVE  IInv'
    BY <1>2, SubscribeIInv, CallIInv, OutsideIInv
<1>3. CASE Destroy \/ Destroyed
    BY <1>3, OutsideIInv
<1>4. CASE UNCHANGED vars
    <2>1. UNCHANGED <<gateway, running, should_stop, destructor, subscribers, queue, active,
                      call, point, cancelled, published, since, sent, dropped>>
        BY <1>4 DEF vars, feed, streams, history
    <2>2. TypeOK' /\ SubscribedWhileOpen' /\ NothingInHand'
        BY <2>1 DEF IInv, TypeOK, SubscribedWhileOpen, NothingInHand
    <2>3. StreamIsExact'
        BY <2>1, SameTaken DEF IInv, Taken
    <2> QED
        BY <2>2, <2>3 DEF IInv
<1> QED
    BY <1>1, <1>2, <1>3, <1>4 DEF Next

\* Together: the invariant holds in every state of every behaviour.
THEOREM Invariance == Spec => []IInv
BY InitIInv, StepIInv, PTL DEF Spec

-----------------------------------------------------------------------------

\* The types of the state; no queue exceeds its capacity, and running_ and should_stop_
\* agree with where the gateway thread and the destructor are.
THEOREM TypeCorrect == Spec => []TypeOK
<1>1. IInv => TypeOK
    BY DEF IInv
<1> QED
    BY Invariance, <1>1, PTL

\* Whatever its own pace, the feed's and the other calls', a call hands its client the
\* points in order and once each, and accounts for every point broadcast while it is
\* subscribed.
THEOREM StreamsAreExact == Spec => []StreamIsExact
<1>1. IInv => StreamIsExact
    BY DEF IInv
<1> QED
    BY Invariance, <1>1, PTL
=============================================================================
