----------------------------- MODULE Distributor -----------------------------
(***************************************************************************)
(* The market-data distributor (connectivity/): one gateway thread reads   *)
(* points from the feed's socket and pushes each to the queue of every     *)
(* subscription; each StreamPrices call polls its own queue and writes the *)
(* points to its client.                                                   *)
(*                                                                         *)
(* Granularity.  What is done under subscribers_mutex_ is one step.  Two   *)
(* calls share nothing but the list of subscriptions, and spsc_queue makes *)
(* push and pop atomic, so a Broadcast, which holds the mutex shared while *)
(* the calls go on popping, is one step as well.                           *)
(***************************************************************************)
EXTENDS Integers, Sequences, SequencesExt

CONSTANTS
    Calls,       \* the StreamPrices calls
    Capacity,    \* of a subscription's queue (1024)
    MaxPoints    \* bound: points that the feed sends

ASSUME DistributorAssumption ==
    /\ Capacity \in Nat \ {0}
    /\ MaxPoints \in Nat

VARIABLES
    gateway,      \* where socket_reader_thread_ is
    running,      \* running_
    should_stop,  \* should_stop_
    subscribers,  \* subscribers_
    queue,        \* MarketDataSubscription::queue of each call
    active,       \* MarketDataSubscription::active of each call
    call,         \* where each StreamPrices call is
    point,        \* the points it has popped but not written
    cancelled,    \* has the client cancelled (or lost) the call?
    destructor,   \* where ~PythonApiGtw is
    published,    \* history: number of points broadcast
    since,        \* history: number of points broadcast before each subscription
    sent,         \* history: the points written to each client
    dropped       \* history: the points dropped for each call

feed == <<gateway, running, should_stop, destructor>>
streams == <<call, point, cancelled>>
history == <<published, since, sent, dropped>>
vars == <<feed, subscribers, queue, active, streams, history>>

\* Before it connects, at the loop's test, in read_some, handling what it has read,
\* past the loop, returned.
GatewayPCs == {"starting", "test", "reading", "handling", "closing", "gone"}

DestructorPCs == {"idle", "joining", "done"}

\* Not begun, at the loop's test, before the pop, before the write, after the loop,
\* returned.
CallPCs == {"out", "test", "pop", "write", "leave", "done"}

Streaming(c) == call[c] \in {"test", "pop", "write"}

Init ==
    /\ gateway = "starting"
    /\ running = FALSE
    /\ should_stop = FALSE
    /\ subscribers = {}
    /\ queue = [c \in Calls |-> <<>>]
    /\ active = [c \in Calls |-> TRUE]
    /\ call = [c \in Calls |-> "out"]
    /\ point = [c \in Calls |-> <<>>]
    /\ cancelled = [c \in Calls |-> FALSE]
    /\ destructor = "idle"
    /\ published = 0
    /\ since = [c \in Calls |-> 0]
    /\ sent = [c \in Calls |-> <<>>]
    /\ dropped = [c \in Calls |-> {}]

-----------------------------------------------------------------------------
(***************************************************************************)
(* SocketReaderThread.                                                     *)
(***************************************************************************)

\* running_ is set, then the connection succeeds or throws.
Connects ==
    /\ gateway = "starting"
    /\ running' = TRUE
    /\ gateway' \in {"test", "closing"}
    /\ UNCHANGED <<should_stop, destructor, subscribers, queue, active, streams, history>>

\* while (!should_stop_.load())
TestsStop ==
    /\ gateway = "test"
    /\ gateway' = IF should_stop THEN "closing" ELSE "reading"
    /\ UNCHANGED <<running, should_stop, destructor, subscribers, queue, active, streams,
                   history>>

\* read_some returns data, or the end of the stream or an error.
Reads ==
    /\ gateway = "reading"
    /\ gateway' \in {"handling", "closing"}
    /\ UNCHANGED <<running, should_stop, destructor, subscribers, queue, active, streams,
                   history>>

\* No complete line is left (or the buffer, grown too large, has been cleared).
Handled ==
    /\ gateway = "handling"
    /\ gateway' = "test"
    /\ UNCHANGED <<running, should_stop, destructor, subscribers, queue, active, streams,
                   history>>

\* A queue without a limit.
Unbounded(q, p) == Append(q, p)

\* A queue whose oldest point makes room for the new one.
PushedOut(q, p) == Append(IF Len(q) < Capacity THEN q ELSE Tail(q), p)

\* queue.push: a full queue refuses the point.
Pushed(q, p) == IF Len(q) < Capacity THEN Append(q, p) ELSE q

\* A line of the feed that parses.  One that does not changes nothing.
Broadcast ==
    /\ gateway = "handling"
    /\ published < MaxPoints
    /\ published' = published + 1
    /\ queue' = [c \in Calls |->
                    IF c \in subscribers THEN Pushed(queue[c], published + 1) ELSE queue[c]]
    /\ dropped' = [c \in Calls |->
                    IF c \in subscribers /\ Len(queue[c]) = Capacity
                    THEN dropped[c] \cup {published + 1} ELSE dropped[c]]
    /\ UNCHANGED <<feed, subscribers, active, streams, since, sent>>

\* Every subscription there is told that the feed is over.
Deactivates == active' = [c \in Calls |-> active[c] /\ c \notin subscribers]

\* Nobody reads running_ between its reset and the loop over the subscriptions.
Closes ==
    /\ gateway = "closing"
    /\ gateway' = "gone"
    /\ running' = FALSE
    /\ Deactivates
    /\ UNCHANGED <<should_stop, destructor, subscribers, queue, streams, history>>

-----------------------------------------------------------------------------
(***************************************************************************)
(* StreamPrices.                                                           *)
(***************************************************************************)

Subscribe(c) ==
    /\ call[c] = "out" /\ destructor = "idle"
    /\ subscribers' = subscribers \cup {c}
    /\ since' = [since EXCEPT ![c] = published]
    /\ call' = [call EXCEPT ![c] = "test"]
    /\ UNCHANGED <<feed, queue, active, point, cancelled, published, sent, dropped>>

\* while (!context->IsCancelled() && subscription->active.load())
Tests(c) ==
    /\ call[c] = "test"
    /\ call' = [call EXCEPT ![c] = IF ~cancelled[c] /\ active[c] THEN "pop" ELSE "leave"]
    /\ UNCHANGED <<feed, subscribers, queue, active, point, cancelled, history>>

\* Mutant of Oldest: the last point is handed out.
Newest(q) == <<q[Len(q)]>>

\* What queue.pop hands out.
Oldest(q) == <<Head(q)>>

Pops(c) ==
    /\ call[c] = "pop" /\ queue[c] # <<>>
    /\ point' = [point EXCEPT ![c] = Oldest(queue[c])]
    /\ queue' = [queue EXCEPT ![c] = Tail(@)]
    /\ call' = [call EXCEPT ![c] = "write"]
    /\ UNCHANGED <<feed, subscribers, active, cancelled, history>>

\* Nothing to pop: sleep, test again.
Sleeps(c) ==
    /\ call[c] = "pop" /\ queue[c] = <<>>
    /\ call' = [call EXCEPT ![c] = "test"]
    /\ UNCHANGED <<feed, subscribers, queue, active, point, cancelled, history>>

Writes(c) ==
    /\ call[c] = "write" /\ ~cancelled[c]
    /\ sent' = [sent EXCEPT ![c] = @ \o point[c]]
    /\ point' = [point EXCEPT ![c] = <<>>]
    /\ call' = [call EXCEPT ![c] = "test"]
    /\ UNCHANGED <<feed, subscribers, queue, active, cancelled, published, since, dropped>>

WriteFails(c) ==
    /\ call[c] = "write" /\ cancelled[c]
    /\ call' = [call EXCEPT ![c] = "leave"]
    /\ UNCHANGED <<feed, subscribers, queue, active, point, cancelled, history>>

\* A subscription that is left behind.
StaysSubscribed(c) == UNCHANGED subscribers

Removed(c) == subscribers' = subscribers \ {c}

Unsubscribe(c) ==
    /\ call[c] = "leave"
    /\ Removed(c)
    /\ call' = [call EXCEPT ![c] = "done"]
    /\ UNCHANGED <<feed, queue, active, point, cancelled, history>>

\* The client goes away.
Cancels(c) ==
    /\ Streaming(c) /\ ~cancelled[c]
    /\ cancelled' = [cancelled EXCEPT ![c] = TRUE]
    /\ UNCHANGED <<feed, subscribers, queue, active, call, point, history>>

-----------------------------------------------------------------------------
\* ~PythonApiGtw, once the server has ended its calls: asks the thread to stop ...
Destroy ==
    /\ destructor = "idle"
    /\ \A c \in Calls : call[c] \in {"out", "done"}
    /\ should_stop' = TRUE
    /\ destructor' = "joining"
    /\ UNCHANGED <<gateway, running, subscribers, queue, active, streams, history>>

\* ... and, the thread joined, tells the subscriptions that are left.
Destroyed ==
    /\ destructor = "joining" /\ gateway = "gone"
    /\ destructor' = "done"
    /\ Deactivates
    /\ UNCHANGED <<gateway, running, should_stop, subscribers, queue, streams, history>>

GatewayStep == Connects \/ TestsStop \/ Reads \/ Broadcast \/ Handled \/ Closes

CallStep(c) ==
    \/ Tests(c) \/ Pops(c) \/ Sleeps(c) \/ Writes(c) \/ WriteFails(c) \/ Unsubscribe(c)

Next ==
    \/ GatewayStep
    \/ \E c \in Calls : Subscribe(c) \/ CallStep(c) \/ Cancels(c)
    \/ Destroy
    \/ Destroyed

Spec == Init /\ [][Next]_vars

\* Threads run, and a read handles a bounded number of lines.  read_some need not
\* return, clients need not call or cancel.
Fairness ==
    /\ WF_vars(Connects \/ TestsStop \/ Handled \/ Closes)
    /\ WF_vars(Destroyed)
    /\ \A c \in Calls : WF_vars(CallStep(c))

FairSpec == Spec /\ Fairness

-----------------------------------------------------------------------------
(***************************************************************************)
(* Properties.                                                             *)
(***************************************************************************)

TypeOK ==
    /\ gateway \in GatewayPCs
    /\ destructor \in DestructorPCs
    /\ running = (gateway \notin {"starting", "gone"})
    /\ should_stop = (destructor # "idle")
    /\ subscribers \subseteq Calls
    /\ queue \in [Calls -> Seq(1 .. published)]
    /\ \A c \in Calls : Len(queue[c]) <= Capacity /\ Len(point[c]) <= 1
    /\ active \in [Calls -> BOOLEAN]
    /\ call \in [Calls -> CallPCs]
    /\ point \in [Calls -> Seq(1 .. published)]
    /\ cancelled \in [Calls -> BOOLEAN]
    /\ published \in 0 .. MaxPoints
    /\ since \in [Calls -> 0 .. published]
    /\ sent \in [Calls -> Seq(1 .. published)]
    /\ dropped \in [Calls -> SUBSET (1 .. published)]

\* Everything a call has taken in, in the order in which its client gets it.
Taken(c) == sent[c] \o point[c] \o queue[c]

\* A client gets the points in the order of the feed, each at most once, and its call
\* accounts for every point broadcast while it is subscribed: written, in hand,
\* queued, or dropped because the queue was full.
StreamIsExact ==
    \A c \in Calls :
        /\ \A i, j \in 1 .. Len(Taken(c)) : i < j => Taken(c)[i] < Taken(c)[j]
        /\ Range(Taken(c)) \cap dropped[c] = {}
        /\ c \in subscribers =>
              Range(Taken(c)) \cup dropped[c] = (since[c] + 1) .. published

\* A point that a subscription has queued gets to the client, however fast the feed goes,
\* unless the client leaves or the feed ends: StreamPrices then returns with what is queued.
PointsAreStreamed ==
    \A c \in Calls, p \in 1 .. MaxPoints :
        (p \in Range(queue[c]) /\ Streaming(c)) ~>
            (p \in Range(sent[c]) \/ cancelled[c] \/ ~active[c])

\* A call returns and gives up its subscription when its client has gone, and when the end
\* of the feed found its subscription in the list.
CallsEnd ==
    \A c \in Calls :
        (cancelled[c] \/ (gateway = "closing" /\ Streaming(c)))
            ~> (call[c] = "done" /\ c \notin subscribers)
=============================================================================
