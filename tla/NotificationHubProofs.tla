------------------------ MODULE NotificationHubProofs ------------------------
(***************************************************************************)
(* What holds of NotificationHub for every set of connections and every    *)
(* number of notifications and messages.                                   *)
(***************************************************************************)
EXTENDS NotificationHub, SequenceTheorems, FiniteSetTheorems, TLAPS

(***************************************************************************)
(* What the proofs need of Append, Tail and Range, beyond the theorems of  *)
(* the library.                                                            *)
(***************************************************************************)
\* Append adds one element.
LEMMA RangeOfAppend ==
    ASSUME NEW S, NEW s \in Seq(S), NEW e \in S
    PROVE  Range(Append(s, e)) = Range(s) \cup {e}
<1>1. /\ Append(s, e) \in Seq(S)
      /\ Len(Append(s, e)) = Len(s) + 1
      /\ \A i \in 1 .. Len(s) : Append(s, e)[i] = s[i]
      /\ Append(s, e)[Len(s) + 1] = e
    BY AppendProperties
<1>2. Len(s) \in Nat /\ \A i \in 1 .. Len(s) + 1 : i \in 1 .. Len(s) \/ i = Len(s) + 1
    OBVIOUS
<1>3. /\ Range(s) = {s[i] : i \in 1 .. Len(s)}
      /\ Range(Append(s, e)) = {Append(s, e)[i] : i \in 1 .. Len(Append(s, e))}
    BY <1>1, RangeEquality
<1>4. \A i \in 1 .. Len(s) : i \in 1 .. Len(s) + 1
    BY <1>2
<1>5. Len(s) + 1 \in 1 .. Len(s) + 1
    BY <1>2
<1>6. ASSUME NEW x \in Range(Append(s, e))
      PROVE  x \in Range(s) \cup {e}
    BY <1>1, <1>2, <1>3
<1>7. ASSUME NEW x \in Range(s) \cup {e}
      PROVE  x \in Range(Append(s, e))
    BY <1>1, <1>3, <1>4, <1>5
<1> QED
    BY <1>6, <1>7

\* The head is an element, and so are those of the tail; the head of increasing numbers is
\* less than those.
LEMMA RangeOfTail ==
    ASSUME NEW S, NEW s \in Seq(S), s # <<>>
    PROVE  /\ Head(s) \in Range(s) /\ Head(s) \in S
           /\ Tail(s) \in Seq(S)
           /\ Range(s) = Range(Tail(s)) \cup {Head(s)}
           /\ Increasing(s) => /\ \A x \in Range(Tail(s)) : Head(s) < x
                               /\ Increasing(Tail(s))
<1>1. /\ Head(s) = s[1] /\ Head(s) \in S
      /\ Tail(s) \in Seq(S) /\ Len(Tail(s)) = Len(s) - 1
      /\ \A i \in 1 .. Len(Tail(s)) : Tail(s)[i] = s[i + 1]
      /\ Len(s) \in Nat \ {0}
    BY HeadTailProperties, EmptySeq
<1>2. /\ Range(s) = {s[i] : i \in 1 .. Len(s)}
      /\ Range(Tail(s)) = {Tail(s)[i] : i \in 1 .. Len(Tail(s))}
    BY <1>1, RangeEquality
<1>3. /\ \A i \in 1 .. Len(Tail(s)) : i + 1 \in 1 .. Len(s) /\ i + 1 # 1
      /\ \A i \in 1 .. Len(s) : i = 1 \/ (i - 1 \in 1 .. Len(Tail(s)) /\ (i - 1) + 1 = i)
      /\ 1 \in 1 .. Len(s)
    BY <1>1
<1>4. Head(s) \in Range(s)
    BY <1>1, <1>2, <1>3
<1>5. Range(s) = Range(Tail(s)) \cup {Head(s)}
    <2>1. ASSUME NEW x \in Range(s)
          PROVE  x \in Range(Tail(s)) \cup {Head(s)}
        <3>1. PICK i \in 1 .. Len(s) : x = s[i]
            BY <1>2
        <3>2. CASE i = 1
            BY <1>1, <3>1, <3>2
        <3>3. CASE i # 1
            <4>1. i - 1 \in 1 .. Len(Tail(s)) /\ (i - 1) + 1 = i
                BY <1>3, <3>3
            <4>2. Tail(s)[i - 1] = x
                BY <1>1, <3>1, <4>1
            <4> QED
                BY <1>2, <4>1, <4>2
        <3> QED
            BY <3>2, <3>3
    <2>2. ASSUME NEW x \in Range(Tail(s))
          PROVE  x \in Range(s)
        <3>1. PICK i \in 1 .. Len(Tail(s)) : x = s[i + 1]
            BY <1>1, <1>2
        <3> QED
            BY <1>2, <1>3, <3>1
    <2> QED
        BY <1>4, <2>1, <2>2
<1>6. ASSUME Increasing(s)
      PROVE  /\ \A x \in Range(Tail(s)) : Head(s) < x
             /\ Increasing(Tail(s))
    <2>1. ASSUME NEW x \in Range(Tail(s))
          PROVE  Head(s) < x
        <3>1. PICK i \in 1 .. Len(Tail(s)) : x = s[i + 1]
            BY <1>1, <1>2
        <3>2. 1 < i + 1 /\ i + 1 \in 1 .. Len(s)
            BY <1>1, <1>3
        <3> QED
            BY <1>1, <1>3, <1>6, <3>1, <3>2 DEF Increasing
    <2>2. ASSUME NEW i \in 1 .. Len(Tail(s)), NEW j \in 1 .. Len(Tail(s)), i < j
          PROVE  Tail(s)[i] < Tail(s)[j]
        <3>1. i + 1 < j + 1 /\ i + 1 \in 1 .. Len(s) /\ j + 1 \in 1 .. Len(s)
            BY <1>3, <2>2
        <3> QED
            BY <1>1, <1>6, <3>1 DEF Increasing
    <2> QED
        BY <2>1, <2>2 DEF Increasing
<1> QED
    BY <1>1, <1>4, <1>5, <1>6

\* The element of a sequence of one, and those of an empty one.
LEMMA RangeOfSingle ==
    /\ \A e : Range(<<e>>) = {e}
    /\ Range(<<>>) = {}
<1>1. ASSUME NEW e
      PROVE  Range(<<e>>) = {e}
    <2>1. <<e>> \in Seq({e}) /\ Len(<<e>>) = 1 /\ <<e>>[1] = e
        OBVIOUS
    <2>2. Range(<<e>>) = {<<e>>[i] : i \in 1 .. 1}
        BY <2>1, RangeEquality
    <2>3. \A i \in 1 .. 1 : i = 1
        OBVIOUS
    <2> QED
        BY <2>1, <2>2, <2>3
<1>2. Range(<<>>) = {}
    <2>1. <<>> \in Seq({}) /\ Len(<<>>) = 0
        OBVIOUS
    <2>2. Range(<<>>) = {<<>>[i] : i \in 1 .. 0}
        BY <2>1, RangeEquality
    <2> QED
        BY <2>2
<1> QED
    BY <1>1, <1>2

\* Two sequences of increasing numbers, the second above the first.
LEMMA IncreasingConcat ==
    ASSUME NEW s \in Seq(Nat), NEW t \in Seq(Nat), Increasing(s), Increasing(t),
           \A x \in Range(s), y \in Range(t) : x < y
    PROVE  Increasing(s \o t)
<1>1. /\ Len(s) \in Nat /\ Len(t) \in Nat
      /\ Len(s \o t) = Len(s) + Len(t)
      /\ \A i \in 1 .. Len(s) : (s \o t)[i] = s[i] /\ s[i] \in Range(s)
    <2>1. Range(s) = {s[i] : i \in 1 .. Len(s)}
        BY RangeEquality
    <2> QED
        BY <2>1, ConcatProperties
<1>2. \A i \in Len(s) + 1 .. Len(s) + Len(t) :
          /\ i - Len(s) \in 1 .. Len(t)
          /\ (s \o t)[i] = t[i - Len(s)] /\ t[i - Len(s)] \in Range(t)
    <2>1. Range(t) = {t[i] : i \in 1 .. Len(t)}
        BY RangeEquality
    <2>2. \A i \in Len(s) + 1 .. Len(s) + Len(t) : i - Len(s) \in 1 .. Len(t)
        BY <1>1
    <2>3. \A i \in Len(s) + 1 .. Len(s) + Len(t) : (s \o t)[i] = t[i - Len(s)]
        BY <1>1
    <2> QED
        BY <2>1, <2>2, <2>3
<1>3. ASSUME NEW i \in 1 .. Len(s \o t), NEW j \in 1 .. Len(s \o t), i < j
      PROVE  (s \o t)[i] < (s \o t)[j]
    <2>1. CASE j <= Len(s)
        <3>1. i \in 1 .. Len(s) /\ j \in 1 .. Len(s)
            BY <1>1, <1>3, <2>1
        <3> QED
            BY <1>1, <1>3, <3>1 DEF Increasing
    <2>2. CASE i <= Len(s) /\ j > Len(s)
        <3>1. i \in 1 .. Len(s) /\ j \in Len(s) + 1 .. Len(s) + Len(t)
            BY <1>1, <2>2
        <3> QED
            BY <1>1, <1>2, <3>1
    <2>3. CASE i > Len(s)
        <3>1. i \in Len(s) + 1 .. Len(s) + Len(t) /\ j \in Len(s) + 1 .. Len(s) + Len(t)
            BY <1>1, <1>3, <2>3
        <3>2. i - Len(s) < j - Len(s)
            BY <1>1, <1>3
        <3>3. t[i - Len(s)] < t[j - Len(s)]
            BY <1>2, <3>1, <3>2 DEF Increasing
        <3> QED
            BY <1>2, <3>1, <3>3
    <2> QED
        BY <1>1, <2>1, <2>2, <2>3
<1> QED
    BY <1>3 DEF Increasing

-----------------------------------------------------------------------------

Queued(n) == n \in Range(websocket_queue)
InHand(n, c) == n \in Range(queue_task[c])
Got(n, c) == n \in Range(received[c])

\* No notification vanishes.
Kept(n) == \/ Queued(n) \/ n \in lost
           \/ \E c \in Clients : InHand(n, c) \/ Got(n, c)

AllKept == \A n \in 1 .. published : Kept(n)

\* The queue is in order, what was taken from it comes before what is still there, and what
\* a client has got before what its handler has in hand.
InOrder ==
    /\ Increasing(websocket_queue)
    /\ \A c \in Clients :
           /\ Increasing(received[c])
           /\ \A m, n : (Got(m, c) \/ InHand(m, c)) /\ Queued(n) => m < n
           /\ \A m, n : Got(m, c) /\ InHand(n, c) => m < n

\* The server believes a client to be gone only when it is, and a connection that has been
\* accepted has a client.
GoneWhenDisconnected ==
    \A c \in Clients :
        /\ handler[c] = "out" <=> link[c] = "new"
        /\ "disconnect" \in Range(inbox[c]) \/ Disconnected(c) => link[c] = "down"

IInv == TypeOK /\ AllKept /\ InOrder /\ GoneWhenDisconnected

-----------------------------------------------------------------------------

\* Nothing is published at the start.
LEMMA InitIInv == Init => IInv
<1> SUFFICES ASSUME Init
             PROVE  IInv
    OBVIOUS
<1>1. \A S : <<>> \in Seq(S) /\ Len(<<>>) = 0 /\ \A i \in 1 .. Len(<<>>) : FALSE
    OBVIOUS
<1>2. TypeOK
    BY <1>1, HubAssumption DEF Init, TypeOK, HandlerPCs
<1>3. InOrder
    BY <1>1, RangeOfSingle DEF Init, InOrder, Increasing, Queued, InHand, Got
<1>4. AllKept
    BY DEF Init, AllKept
<1>5. GoneWhenDisconnected
    BY RangeOfSingle DEF Init, GoneWhenDisconnected, Disconnected
<1> QED
    BY <1>2, <1>3, <1>4, <1>5 DEF IInv

\* What a handler has in hand is one published notification, or nothing.
LEMMA OneInHand ==
    ASSUME TypeOK, NEW c \in Clients
    PROVE  /\ Range(queue_task[c]) \subseteq 1 .. published
           /\ \A m, n : InHand(m, c) /\ InHand(n, c) => m = n
           /\ queue_task[c] = <<>> => \A n : ~InHand(n, c)
<1>1. queue_task[c] \in Seq(1 .. published) /\ Len(queue_task[c]) <= 1
    BY DEF TypeOK
<1>2. Range(queue_task[c]) \subseteq 1 .. published
    BY <1>1, RangeOfSeq
<1>3. Range(queue_task[c]) = {queue_task[c][i] : i \in 1 .. Len(queue_task[c])}
    BY <1>1, RangeEquality
<1>4. Len(queue_task[c]) \in Nat
    BY <1>1, LenProperties
<1>5. \A i \in 1 .. Len(queue_task[c]) : i = 1
    BY <1>1, <1>4
<1>6. \A m, n : InHand(m, c) /\ InHand(n, c) => m = n
    BY <1>3, <1>5 DEF InHand
<1> QED
    BY <1>2, <1>6, RangeOfSingle DEF InHand

\* A new notification is in the queue and nowhere else.
LEMMA PublishesIInv == IInv /\ Publishes => IInv'
<1> SUFFICES ASSUME IInv, Publishes
             PROVE  IInv'
    OBVIOUS
<1>1. /\ published < MaxNotifications /\ published' = published + 1
      /\ websocket_queue' = Append(websocket_queue, published + 1)
      /\ UNCHANGED <<active_connections, handler, queue_task, recv_task, link, inbox,
                     spoken, received, lost>>
    BY DEF Publishes, tasks, client
<1>2. /\ published \in Nat /\ 1 .. published \subseteq 1 .. published'
      /\ published + 1 \in 1 .. published' /\ published + 1 \notin 1 .. published
      /\ \A n \in 1 .. published' : n \in 1 .. published \/ n = published + 1
    BY <1>1, HubAssumption DEF IInv, TypeOK
<1>3. \A s \in Seq(1 .. published) : s \in Seq(1 .. published')
    BY <1>2, SeqMonotonic
<1>4. /\ websocket_queue' \in Seq(1 .. published')
      /\ Len(websocket_queue') = Len(websocket_queue) + 1
      /\ \A i \in 1 .. Len(websocket_queue) : websocket_queue'[i] = websocket_queue[i]
      /\ websocket_queue'[Len(websocket_queue) + 1] = published + 1
      /\ Range(websocket_queue') = Range(websocket_queue) \cup {published + 1}
    <2>1. websocket_queue \in Seq(1 .. published')
        BY <1>3 DEF IInv, TypeOK
    <2> QED
        BY <1>1, <1>2, <2>1, AppendProperties, RangeOfAppend
<1>5. TypeOK'
    <2>1. published' \in 0 .. MaxNotifications
        BY <1>1, <1>2, HubAssumption
    <2>2. /\ queue_task' \in [Clients -> Seq(1 .. published')]
          /\ received' \in [Clients -> Seq(1 .. published')]
        BY <1>1, <1>3 DEF IInv, TypeOK
    <2>3. lost' \subseteq 1 .. published'
        BY <1>1, <1>2 DEF IInv, TypeOK
    <2> QED
        BY <1>1, <1>4, <2>1, <2>2, <2>3 DEF IInv, TypeOK
<1>6. \A c \in Clients : \A n : /\ InHand(n, c)' <=> InHand(n, c)
                                /\ Got(n, c)' <=> Got(n, c)
    BY <1>1 DEF InHand, Got
<1>6a. \A n : Queued(n)' <=> Queued(n) \/ n = published + 1
    BY <1>4 DEF Queued
<1>7. InOrder'
    <2>1. \A c \in Clients : \A m : Got(m, c) \/ InHand(m, c) => m \in 1 .. published
        BY OneInHand, RangeOfSeq DEF IInv, TypeOK, InHand, Got
    <2>2. \A m \in 1 .. published : m < published + 1
        BY <1>2
    <2>3. Increasing(websocket_queue')
        <3>1. \A i \in 1 .. Len(websocket_queue) : websocket_queue[i] \in 1 .. published
            BY ElementOfSeq DEF IInv, TypeOK
        <3>2. Len(websocket_queue) \in Nat
            BY DEF IInv, TypeOK
        <3>3. ASSUME NEW i \in 1 .. Len(websocket_queue'), NEW j \in 1 .. Len(websocket_queue'),
                     i < j
              PROVE  websocket_queue'[i] < websocket_queue'[j]
            <4>1. i \in 1 .. Len(websocket_queue)
                BY <1>4, <3>2, <3>3
            <4>2. CASE j \in 1 .. Len(websocket_queue)
                BY <1>4, <3>3, <4>1, <4>2 DEF IInv, InOrder, Increasing
            <4>3. CASE j = Len(websocket_queue) + 1
                BY <1>4, <2>2, <3>1, <4>1, <4>3
            <4> QED
                BY <1>4, <3>2, <4>2, <4>3
        <3> QED
            BY <3>3 DEF Increasing
    <2> QED
        BY <1>1, <1>6, <1>6a, <2>1, <2>2, <2>3 DEF IInv, InOrder
<1>7a. AllKept'
    <2>1. ASSUME NEW n \in 1 .. published'
          PROVE  Kept(n)'
        BY <1>1, <1>2, <1>6, <1>6a DEF IInv, AllKept, Kept
    <2> QED
        BY <2>1 DEF AllKept
<1>8. GoneWhenDisconnected'
    BY <1>1 DEF IInv, GoneWhenDisconnected, Disconnected
<1> QED
    BY <1>5, <1>7, <1>7a, <1>8 DEF IInv

\* A handler that takes a notification has it in hand, and the queue has it no more.
LEMMA TakesIInv == ASSUME IInv, NEW c \in Clients, Takes(c)
                   PROVE  IInv'
<1> DEFINE h == Head(websocket_queue)
<1>1. /\ handler[c] = "waiting" /\ queue_task[c] = <<>> /\ websocket_queue # <<>>
      /\ queue_task' = [queue_task EXCEPT ![c] = <<h>>]
      /\ websocket_queue' = Tail(websocket_queue)
      /\ UNCHANGED <<published, active_connections, handler, recv_task, link, inbox, spoken,
                     received, lost>>
    BY DEF Takes, Rest, client
<1>2. /\ h \in Range(websocket_queue) /\ h \in 1 .. published
      /\ Tail(websocket_queue) \in Seq(1 .. published)
      /\ Range(websocket_queue) = Range(Tail(websocket_queue)) \cup {h}
      /\ \A n \in Range(Tail(websocket_queue)) : h < n
      /\ Increasing(Tail(websocket_queue))
    <2>1. websocket_queue \in Seq(1 .. published)
        BY DEF IInv, TypeOK
    <2>2. Increasing(websocket_queue)
        BY DEF IInv, InOrder
    <2> QED
        BY <1>1, <2>1, <2>2, RangeOfTail
<1>3. /\ queue_task'[c] = <<h>>
      /\ \A d \in Clients \ {c} : queue_task'[d] = queue_task[d]
      /\ queue_task' \in [Clients -> Seq(1 .. published)]
      /\ Len(queue_task'[c]) <= 1
    <2>1. /\ queue_task'[c] = <<h>>
          /\ \A d \in Clients \ {c} : queue_task'[d] = queue_task[d]
          /\ queue_task' \in [Clients -> Seq(1 .. published)]
        BY <1>1, <1>2 DEF IInv, TypeOK
    <2>2. \A e : Len(<<e>>) <= 1
        OBVIOUS
    <2> QED
        BY <2>1, <2>2
<1>4. TypeOK'
    <2>1. \A d \in Clients : Len(queue_task'[d]) <= 1
        <3> SUFFICES ASSUME NEW d \in Clients
                     PROVE  Len(queue_task'[d]) <= 1
            OBVIOUS
        <3>1. CASE d = c
            BY <1>3, <3>1
        <3>2. CASE d # c
            <4>1. queue_task'[d] = queue_task[d] /\ Len(queue_task[d]) <= 1
                BY <1>3, <3>2 DEF IInv, TypeOK
            <4> QED
                BY <4>1
        <3> QED
            BY <3>1, <3>2
    <2> QED
        BY <1>1, <1>2, <1>3, <2>1 DEF IInv, TypeOK
<1>5. /\ \A n : Queued(n)' => Queued(n) /\ h < n
      /\ \A n : Queued(n) => Queued(n)' \/ n = h
      /\ \A n : InHand(n, c)' <=> n = h
      /\ \A n : \A d \in Clients \ {c} : InHand(n, d)' <=> InHand(n, d)
      /\ \A n : \A d \in Clients : Got(n, d)' <=> Got(n, d)
      /\ \A n : ~InHand(n, c)
      /\ Queued(h)
    <2>1. /\ \A n : Queued(n)' => Queued(n) /\ h < n
          /\ \A n : Queued(n) => Queued(n)' \/ n = h
        BY <1>1, <1>2 DEF Queued
    <2>2. \A n : InHand(n, c)' <=> n = h
        BY <1>3, RangeOfSingle DEF InHand
    <2>3. \A n : \A d \in Clients \ {c} : InHand(n, d)' <=> InHand(n, d)
        BY <1>3 DEF InHand
    <2>4. \A n : ~InHand(n, c)
        BY <1>1, OneInHand DEF IInv
    <2>5. \A n : \A d \in Clients : Got(n, d)' <=> Got(n, d)
        BY <1>1 DEF Got
    <2>6. Queued(h)
        BY <1>2 DEF Queued
    <2> QED
        BY <2>1, <2>2, <2>3, <2>4, <2>5, <2>6
<1>6. AllKept'
    <2>1. ASSUME NEW n \in 1 .. published
          PROVE  Kept(n)'
        BY <1>1, <1>5 DEF IInv, AllKept, Kept
    <2> QED
        BY <1>1, <2>1 DEF AllKept
<1>6a. InOrder'
    <2>1. Increasing(websocket_queue')
        BY <1>1, <1>2
    <2>2. ASSUME NEW d \in Clients
          PROVE  /\ Increasing(received'[d])
                 /\ \A m, n : (Got(m, d)' \/ InHand(m, d)') /\ Queued(n)' => m < n
                 /\ \A m, n : Got(m, d)' /\ InHand(n, d)' => m < n
        <3>1. Increasing(received'[d])
            BY <1>1 DEF IInv, InOrder
        <3>2. /\ \A m, n : (Got(m, d) \/ InHand(m, d)) /\ Queued(n) => m < n
              /\ \A m, n : Got(m, d) /\ InHand(n, d) => m < n
            BY DEF IInv, InOrder
        <3>3. CASE d = c
            BY <1>5, <3>1, <3>2, <3>3
        <3>4. CASE d # c
            BY <1>5, <3>1, <3>2, <3>4
        <3> QED
            BY <3>3, <3>4
    <2> QED
        BY <2>1, <2>2 DEF InOrder
<1>7. GoneWhenDisconnected'
    BY <1>1 DEF IInv, GoneWhenDisconnected, Disconnected
<1> QED
    BY <1>4, <1>6, <1>6a, <1>7 DEF IInv

\* What a handler has in hand when its connection ends is lost.
LEMMA EndsIInv ==
    ASSUME IInv, NEW c \in Clients, handler[c] \in {"waiting", "sending"}, Ends(c),
           UNCHANGED <<websocket_queue, published, client, received>>
    PROVE  IInv'
<1>1. /\ handler' = [handler EXCEPT ![c] = "ended"]
      /\ active_connections' = active_connections \ {c}
      /\ queue_task' = [queue_task EXCEPT ![c] = <<>>]
      /\ recv_task' = [recv_task EXCEPT ![c] = <<>>]
      /\ lost' = lost \cup Range(queue_task[c])
      /\ UNCHANGED <<websocket_queue, published, link, inbox, spoken, received>>
    BY DEF Ends, client
<1>2. /\ queue_task'[c] = <<>> /\ recv_task'[c] = <<>> /\ handler'[c] = "ended"
      /\ \A d \in Clients \ {c} : /\ queue_task'[d] = queue_task[d]
                                  /\ recv_task'[d] = recv_task[d]
                                  /\ handler'[d] = handler[d]
    BY <1>1 DEF IInv, TypeOK
<1>3. TypeOK'
    <2>1. Len(<<>>) = 0 /\ <<>> \in Seq(1 .. published)
        OBVIOUS
    <2>2. /\ queue_task' \in [Clients -> Seq(1 .. published)]
          /\ recv_task' \in [Clients -> {<<>>, <<"message">>, <<"disconnect">>}]
          /\ handler' \in [Clients -> HandlerPCs]
        BY <1>1, <2>1 DEF IInv, TypeOK, HandlerPCs
    <2>3. \A d \in Clients : Len(queue_task'[d]) <= 1
        <3> SUFFICES ASSUME NEW d \in Clients
                     PROVE  Len(queue_task'[d]) <= 1
            OBVIOUS
        <3>1. CASE d = c
            BY <1>2, <2>1, <3>1
        <3>2. CASE d # c
            <4>1. queue_task'[d] = queue_task[d] /\ Len(queue_task[d]) <= 1
                BY <1>2, <3>2 DEF IInv, TypeOK
            <4> QED
                BY <4>1
        <3> QED
            BY <3>1, <3>2
    <2>4. active_connections' = {d \in Clients : handler'[d] \in {"waiting", "sending"}}
        BY <1>1, <1>2 DEF IInv, TypeOK
    <2>5. lost' \subseteq 1 .. published
        BY <1>1, OneInHand DEF IInv, TypeOK
    <2> QED
        BY <1>1, <2>2, <2>3, <2>4, <2>5 DEF IInv, TypeOK
<1>4. /\ \A n : /\ Queued(n)' <=> Queued(n)
                /\ n \in lost' <=> n \in lost \/ InHand(n, c)
      /\ \A n : \A d \in Clients : /\ InHand(n, d)' <=> InHand(n, d) /\ d # c
                                   /\ Got(n, d)' <=> Got(n, d)
    <2>1. \A n : /\ Queued(n)' <=> Queued(n)
                 /\ n \in lost' <=> n \in lost \/ InHand(n, c)
        BY <1>1 DEF Queued, InHand
    <2>2. \A n : \A d \in Clients : /\ InHand(n, d)' <=> InHand(n, d) /\ d # c
                                    /\ Got(n, d)' <=> Got(n, d)
        BY <1>1, <1>2, RangeOfSingle DEF InHand, Got
    <2> QED
        BY <2>1, <2>2
<1>5. AllKept' /\ InOrder'
    <2>1. AllKept'
        BY <1>1, <1>4 DEF IInv, AllKept, Kept
    <2>2. InOrder'
        BY <1>1, <1>4 DEF IInv, InOrder
    <2> QED
        BY <2>1, <2>2
<1>6. GoneWhenDisconnected'
    BY <1>1, <1>2 DEF IInv, GoneWhenDisconnected, Disconnected
<1> QED
    BY <1>3, <1>5, <1>6 DEF IInv

\* What send_text hands over goes to the client, or is lost with a client that has gone.
LEMMA SendsIInv == ASSUME IInv, NEW c \in Clients, Sends(c)
                   PROVE  IInv'
<1>1. /\ handler[c] = "sending"
      /\ handler' = [handler EXCEPT ![c] = "waiting"]
      /\ queue_task' = [queue_task EXCEPT ![c] = <<>>]
      /\ UNCHANGED <<websocket_queue, published, active_connections, recv_task, link, inbox,
                     spoken>>
    BY DEF Sends, NewTask, client
<1>2. \/ received' = [received EXCEPT ![c] = received[c] \o queue_task[c]] /\ lost' = lost
      \/ lost' = lost \cup Range(queue_task[c]) /\ received' = received
    BY DEF Sends
<1>3. /\ queue_task'[c] = <<>> /\ handler'[c] = "waiting"
      /\ \A d \in Clients \ {c} : queue_task'[d] = queue_task[d] /\ handler'[d] = handler[d]
    BY <1>1 DEF IInv, TypeOK
<1>4. /\ received[c] \in Seq(1 .. published) /\ queue_task[c] \in Seq(1 .. published)
      /\ received[c] \o queue_task[c] \in Seq(1 .. published)
      /\ Range(received[c] \o queue_task[c]) = Range(received[c]) \cup Range(queue_task[c])
    <2>1. received[c] \in Seq(1 .. published) /\ queue_task[c] \in Seq(1 .. published)
        BY DEF IInv, TypeOK
    <2> QED
        BY <2>1, ConcatProperties, RangeConcatenation
<1>5. TypeOK'
    <2>1. Len(<<>>) = 0 /\ <<>> \in Seq(1 .. published)
        OBVIOUS
    <2>2. /\ queue_task' \in [Clients -> Seq(1 .. published)]
          /\ handler' \in [Clients -> HandlerPCs]
        BY <1>1, <2>1 DEF IInv, TypeOK, HandlerPCs
    <2>3. \A d \in Clients : Len(queue_task'[d]) <= 1
        <3> SUFFICES ASSUME NEW d \in Clients
                     PROVE  Len(queue_task'[d]) <= 1
            OBVIOUS
        <3>1. CASE d = c
            BY <1>3, <2>1, <3>1
        <3>2. CASE d # c
            <4>1. queue_task'[d] = queue_task[d] /\ Len(queue_task[d]) <= 1
                BY <1>3, <3>2 DEF IInv, TypeOK
            <4> QED
                BY <4>1
        <3> QED
            BY <3>1, <3>2
    <2>4. active_connections' = {d \in Clients : handler'[d] \in {"waiting", "sending"}}
        BY <1>1, <1>3 DEF IInv, TypeOK
    <2>5. /\ lost' \subseteq 1 .. published
          /\ received' \in [Clients -> Seq(1 .. published)]
        BY <1>2, <1>4, OneInHand DEF IInv, TypeOK
    <2> QED
        BY <1>1, <2>2, <2>3, <2>4, <2>5 DEF IInv, TypeOK
<1>6. /\ \A n : Queued(n)' <=> Queued(n)
      /\ \A n : \A d \in Clients : InHand(n, d)' <=> InHand(n, d) /\ d # c
      /\ \/ \A n : /\ \A d \in Clients : Got(n, d)' <=> Got(n, d) \/ (d = c /\ InHand(n, c))
                   /\ n \in lost' <=> n \in lost
         \/ \A n : /\ \A d \in Clients : Got(n, d)' <=> Got(n, d)
                   /\ n \in lost' <=> n \in lost \/ InHand(n, c)
    <2>1. \A n : Queued(n)' <=> Queued(n)
        BY <1>1 DEF Queued
    <2>2. \A n : \A d \in Clients : InHand(n, d)' <=> InHand(n, d) /\ d # c
        BY <1>3, RangeOfSingle DEF InHand
    <2>3. \/ \A n : /\ \A d \in Clients : Got(n, d)' <=> Got(n, d) \/ (d = c /\ InHand(n, c))
                    /\ n \in lost' <=> n \in lost
          \/ \A n : /\ \A d \in Clients : Got(n, d)' <=> Got(n, d)
                    /\ n \in lost' <=> n \in lost \/ InHand(n, c)
        BY <1>2, <1>4 DEF Got, InHand, IInv, TypeOK
    <2> QED
        BY <2>1, <2>2, <2>3
<1>7. AllKept'
    <2>1. ASSUME NEW n \in 1 .. published
          PROVE  Kept(n)'
        <3>1. Kept(n)
            BY DEF IInv, AllKept
        <3> QED
            BY <1>6, <3>1 DEF Kept
    <2> QED
        BY <1>1, <2>1 DEF AllKept
<1>7a. InOrder'
    <2>1. Increasing(websocket_queue')
        BY <1>1 DEF IInv, InOrder
    <2>2. Increasing(received[c] \o queue_task[c])
        <3>1. received[c] \in Seq(Nat) /\ queue_task[c] \in Seq(Nat)
            BY <1>4, SeqMonotonic DEF IInv, TypeOK
        <3>2. Increasing(queue_task[c])
            <4>1. Len(queue_task[c]) <= 1 /\ Len(queue_task[c]) \in Nat
                BY <3>1 DEF IInv, TypeOK
            <4> QED
                BY <4>1 DEF Increasing
        <3>3. Increasing(received[c])
            BY DEF IInv, InOrder
        <3>4. \A x \in Range(received[c]), y \in Range(queue_task[c]) : x < y
            BY DEF IInv, InOrder, Got, InHand
        <3> QED
            BY <3>1, <3>2, <3>3, <3>4, IncreasingConcat
    <2>3. ASSUME NEW d \in Clients
          PROVE  /\ Increasing(received'[d])
                 /\ \A m, n : (Got(m, d)' \/ InHand(m, d)') /\ Queued(n)' => m < n
                 /\ \A m, n : Got(m, d)' /\ InHand(n, d)' => m < n
        <3>1. /\ Increasing(received[d])
              /\ \A m, n : (Got(m, d) \/ InHand(m, d)) /\ Queued(n) => m < n
              /\ \A m, n : Got(m, d) /\ InHand(n, d) => m < n
            BY DEF IInv, InOrder
        <3>2. received'[d] = received[d] \/ received'[d] = received[c] \o queue_task[c]
            BY <1>2 DEF IInv, TypeOK
        <3>3. Increasing(received'[d])
            BY <2>2, <3>1, <3>2
        <3> QED
            BY <1>6, <3>1, <3>3
    <2> QED
        BY <2>1, <2>3 DEF InOrder
<1>8. GoneWhenDisconnected'
    BY <1>1, <1>3 DEF IInv, GoneWhenDisconnected, Disconnected
<1> QED
    BY <1>5, <1>7, <1>7a, <1>8 DEF IInv

\* The other steps of a handler and of a client move no notification.
LEMMA OthersIInv ==
    ASSUME IInv, NEW c \in Clients,
           \/ Connects(c) \/ Receives(c) \/ WakesToSend(c) \/ WakesToWait(c)
           \/ Speaks(c) \/ Leaves(c) \/ Noticed(c)
    PROVE  IInv'
<1>1. UNCHANGED <<websocket_queue, published, queue_task, received, lost>>
    BY DEF Connects, Receives, WakesToSend, WakesToWait, Speaks, Leaves, Noticed, tasks,
           client
<1>2. /\ handler \in [Clients -> HandlerPCs]
      /\ recv_task \in [Clients -> {<<>>, <<"message">>, <<"disconnect">>}]
      /\ inbox \in [Clients -> Seq({"message", "disconnect"})]
      /\ link \in [Clients -> {"new", "up", "down"}]
      /\ spoken \in [Clients -> 0 .. MaxMessages]
      /\ MaxMessages \in Nat
    BY HubAssumption DEF IInv, TypeOK
<1>3. InOrder' /\ AllKept'
    BY <1>1 DEF IInv, InOrder, Increasing, AllKept, Kept, Queued, InHand, Got
<1>4. inbox[c] # <<>> =>
          /\ Head(inbox[c]) \in {"message", "disconnect"}
          /\ Head(inbox[c]) \in Range(inbox[c])
          /\ Tail(inbox[c]) \in Seq({"message", "disconnect"})
          /\ Range(Tail(inbox[c])) \subseteq Range(inbox[c])
    BY <1>2, RangeOfTail
<1>5. \A m \in {"message", "disconnect"} :
          /\ Append(inbox[c], m) \in Seq({"message", "disconnect"})
          /\ Range(Append(inbox[c], m)) = Range(inbox[c]) \cup {m}
    BY <1>2, AppendProperties, RangeOfAppend
<1>6. CASE Connects(c)
    <2>1. /\ handler[c] = "out" /\ handler' = [handler EXCEPT ![c] = "waiting"]
          /\ active_connections' = active_connections \cup {c}
          /\ link' = [link EXCEPT ![c] = "up"]
          /\ UNCHANGED <<recv_task, inbox, spoken>>
        BY <1>6 DEF Connects, tasks
    <2>2. active_connections' = {d \in Clients : handler'[d] \in {"waiting", "sending"}}
        BY <1>2, <2>1 DEF IInv, TypeOK
    <2>3. handler' \in [Clients -> HandlerPCs] /\ link' \in [Clients -> {"new", "up", "down"}]
        BY <1>2, <2>1 DEF HandlerPCs
    <2>4. TypeOK'
        BY <1>1, <2>1, <2>2, <2>3 DEF IInv, TypeOK
    <2>5. GoneWhenDisconnected'
        BY <1>2, <2>1 DEF IInv, GoneWhenDisconnected, Disconnected
    <2> QED
        BY <1>3, <2>4, <2>5 DEF IInv
<1>7. CASE Receives(c)
    <2>1. /\ inbox[c] # <<>>
          /\ recv_task' = [recv_task EXCEPT ![c] = <<Head(inbox[c])>>]
          /\ inbox' = [inbox EXCEPT ![c] = Tail(inbox[c])]
          /\ UNCHANGED <<active_connections, handler, link, spoken>>
        BY <1>7 DEF Receives
    <2>2. <<Head(inbox[c])>> \in {<<"message">>, <<"disconnect">>}
        BY <1>4, <2>1
    <2>3. TypeOK'
        BY <1>1, <1>2, <1>4, <2>1, <2>2 DEF IInv, TypeOK
    <2>4. Disconnected(c)' => "disconnect" \in Range(inbox[c])
        <3>1. <<Head(inbox[c])>> = <<"disconnect">> => Head(inbox[c]) = "disconnect"
            OBVIOUS
        <3> QED
            BY <1>2, <1>4, <2>1, <3>1 DEF Disconnected
    <2>5. GoneWhenDisconnected'
        BY <1>2, <1>4, <2>1, <2>4 DEF IInv, GoneWhenDisconnected, Disconnected
    <2> QED
        BY <1>3, <2>3, <2>5 DEF IInv
<1>8. CASE WakesToSend(c)
    <2>1. /\ handler[c] = "waiting" /\ handler' = [handler EXCEPT ![c] = "sending"]
          /\ recv_task' = [recv_task EXCEPT ![c] = <<>>]
          /\ UNCHANGED <<active_connections, link, inbox, spoken>>
        BY <1>8 DEF WakesToSend, client
    <2>2. active_connections' = {d \in Clients : handler'[d] \in {"waiting", "sending"}}
        BY <1>2, <2>1 DEF IInv, TypeOK
    <2>3. TypeOK'
        BY <1>1, <1>2, <2>1, <2>2 DEF IInv, TypeOK, HandlerPCs
    <2>4. GoneWhenDisconnected'
        BY <1>2, <2>1 DEF IInv, GoneWhenDisconnected, Disconnected
    <2> QED
        BY <1>3, <2>3, <2>4 DEF IInv
<1>9. CASE WakesToWait(c)
    <2>1. /\ recv_task' = [recv_task EXCEPT ![c] = <<>>]
          /\ UNCHANGED <<active_connections, handler, link, inbox, spoken>>
        BY <1>9 DEF WakesToWait, client
    <2>2. TypeOK'
        BY <1>1, <1>2, <2>1 DEF IInv, TypeOK
    <2>3. GoneWhenDisconnected'
        BY <1>2, <2>1 DEF IInv, GoneWhenDisconnected, Disconnected
    <2> QED
        BY <1>3, <2>2, <2>3 DEF IInv
<1>10. CASE Speaks(c)
    <2>1. /\ spoken[c] < MaxMessages
          /\ spoken' = [spoken EXCEPT ![c] = spoken[c] + 1]
          /\ inbox' = [inbox EXCEPT ![c] = Append(inbox[c], "message")]
          /\ UNCHANGED <<active_connections, handler, recv_task, link>>
        BY <1>10 DEF Speaks, tasks
    <2>2. spoken' \in [Clients -> 0 .. MaxMessages]
        BY <1>2, <2>1
    <2>3. inbox' \in [Clients -> Seq({"message", "disconnect"})]
        BY <1>2, <1>5, <2>1
    <2>4. TypeOK'
        BY <1>1, <2>1, <2>2, <2>3 DEF IInv, TypeOK
    <2>5. GoneWhenDisconnected'
        BY <1>2, <1>5, <2>1 DEF IInv, GoneWhenDisconnected, Disconnected
    <2> QED
        BY <1>3, <2>4, <2>5 DEF IInv
<1>11. CASE Leaves(c)
    <2>1. /\ link[c] = "up" /\ link' = [link EXCEPT ![c] = "down"]
          /\ UNCHANGED <<active_connections, handler, recv_task, inbox, spoken>>
        BY <1>11 DEF Leaves, tasks
    <2>2. TypeOK'
        BY <1>1, <1>2, <2>1 DEF IInv, TypeOK
    <2>3. GoneWhenDisconnected'
        BY <1>2, <2>1 DEF IInv, GoneWhenDisconnected, Disconnected
    <2> QED
        BY <1>3, <2>2, <2>3 DEF IInv
<1>12. CASE Noticed(c)
    <2>1. /\ link[c] = "down"
          /\ inbox' = [inbox EXCEPT ![c] = Append(inbox[c], "disconnect")]
          /\ UNCHANGED <<active_connections, handler, recv_task, link, spoken>>
        BY <1>12 DEF Noticed, tasks
    <2>2. TypeOK'
        BY <1>1, <1>2, <1>5, <2>1 DEF IInv, TypeOK
    <2>3. GoneWhenDisconnected'
        BY <1>2, <1>5, <2>1 DEF IInv, GoneWhenDisconnected, Disconnected
    <2> QED
        BY <1>3, <2>2, <2>3 DEF IInv
<1> QED
    BY <1>6, <1>7, <1>8, <1>9, <1>10, <1>11, <1>12

\* Every step preserves the invariant.
LEMMA StepIInv == IInv /\ [Next]_vars => IInv'
<1> SUFFICES ASSUME IInv, [Next]_vars
             PROVE  IInv'
    OBVIOUS
<1>1. CASE Publishes
    BY <1>1, PublishesIInv
<1>2. ASSUME NEW c \in Clients, Connects(c) \/ Speaks(c) \/ Leaves(c) \/ Noticed(c)
      PROVE  IInv'
    BY <1>2, OthersIInv
<1>3. ASSUME NEW c \in Clients, HandlerStep(c)
      PROVE  IInv'
    <2>1. CASE Takes(c)
        BY <2>1, TakesIInv
    <2>2. CASE Receives(c) \/ WakesToSend(c) \/ WakesToWait(c)
        BY <2>2, OthersIInv
    <2>3. CASE WakesToEnd(c) \/ SendFails(c)
        BY <2>3, EndsIInv DEF WakesToEnd, SendFails
    <2>4. CASE Sends(c)
        BY <2>4, SendsIInv
    <2> QED
        BY <1>3, <2>1, <2>2, <2>3, <2>4 DEF HandlerStep
<1>4. CASE UNCHANGED vars
    <2>1. UNCHANGED <<websocket_queue, published, active_connections, handler, queue_task,
                      recv_task, link, inbox, spoken, received, lost>>
        BY <1>4 DEF vars, tasks, client
    <2>2. TypeOK' /\ GoneWhenDisconnected'
        BY <2>1 DEF IInv, TypeOK, GoneWhenDisconnected, Disconnected
    <2>3. AllKept' /\ InOrder'
        BY <2>1 DEF IInv, AllKept, Kept, InOrder, Increasing, Queued, InHand, Got
    <2> QED
        BY <2>2, <2>3 DEF IInv
<1> QED
    BY <1>1, <1>2, <1>3, <1>4 DEF Next

\* Together: the invariant holds in every state of every behaviour.
THEOREM Invariance == Spec => []IInv
BY InitIInv, StepIInv, PTL DEF Spec

-----------------------------------------------------------------------------

\* The types of the state; the manager knows exactly the connections whose handlers run,
\* and a handler holds one notification at most.
THEOREM TypeCorrect == Spec => []TypeOK
<1>1. IInv => TypeOK
    BY DEF IInv
<1> QED
    BY Invariance, <1>1, PTL

\* For any number of connections that take from the one queue: no notification vanishes,
\* and a client gets those that it gets once and in the order of their publication.
THEOREM NotificationsStayInOrder == Spec => []NoneVanishesOrRepeats
<1>1. IInv => NoneVanishesOrRepeats
    BY DEF IInv, AllKept, Kept, Queued, InHand, Got, InOrder, NoneVanishesOrRepeats,
           KnownSomewhere
<1> QED
    BY Invariance, <1>1, PTL

\* Only a handler whose client has gone loses a notification.
THEOREM LeaversLose == Spec => LostOnlyByLeavers
<1>1. ASSUME IInv, Next, NEW n \in lost' \ lost
      PROVE  \E c \in Clients : n \in Range(queue_task[c]) /\ link[c] = "down"
    <2>1. ASSUME NEW c \in Clients, HandlerStep(c)
          PROVE  n \in Range(queue_task[c]) /\ link[c] = "down"
        <3>1. CASE WakesToEnd(c)
            BY <1>1, <3>1 DEF WakesToEnd, Ends, IInv, GoneWhenDisconnected
        <3>2. CASE SendFails(c)
            BY <1>1, <3>2 DEF SendFails, Ends
        <3>3. CASE Sends(c)
            <4>1. n \in Range(queue_task[c]) /\ link[c] # "up" /\ handler[c] # "out"
                BY <1>1, <3>3 DEF Sends
            <4> QED
                BY <1>1, <4>1 DEF IInv, TypeOK, GoneWhenDisconnected
        <3>4. CASE Takes(c) \/ Receives(c) \/ WakesToSend(c) \/ WakesToWait(c)
            BY <1>1, <3>4 DEF Takes, Receives, WakesToSend, WakesToWait
        <3> QED
            BY <2>1, <3>1, <3>2, <3>3, <3>4 DEF HandlerStep
    <2>2. \E c \in Clients : HandlerStep(c)
        BY <1>1 DEF Next, Publishes, Connects, Speaks, Leaves, Noticed
    <2> QED
        BY <2>1, <2>2
<1>2. IInv /\ [Next]_vars =>
          [\A n \in lost' \ lost :
              \E c \in Clients : n \in Range(queue_task[c]) /\ link[c] = "down"]_vars
    BY <1>1
<1> QED
    BY Invariance, <1>2, PTL DEF Spec, LostOnlyByLeavers
=============================================================================
