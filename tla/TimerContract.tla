---------------------------- MODULE TimerContract ----------------------------
(***************************************************************************)
(* What TimerManager promises to the program that uses it, without its     *)
(* threads, its lock, its clock and its condition variables: a timer is    *)
(* pending from CreateTimer until its last callback is over, callbacks are *)
(* executed one at a time, each timer as often as it was asked for,        *)
(* WaitTillLast(r) returns only when at most r timers are pending, and     *)
(* after the destructor has begun no callback starts, after it has ended   *)
(* none is running.                                                        *)
(***************************************************************************)
EXTENDS Integers

CONSTANTS Tasks, Users, Repeats, Rests, None

\* The number of elements of a finite set.
CONSTANT Size(_)

Forever == -1

\* What a user that is not in WaitTillLast waits for.
NotWaiting == -1

VARIABLES
    used,      \* the timers that were ever created
    pending,   \* the timers that are not finished
    left,      \* how many times each of them must still be started
    busy,      \* the timer whose callback is being executed
    waiting,   \* what each user's WaitTillLast waits for
    phase      \* "open", "closing" once ~TimerManager began, "closed" at its end

vars == <<used, pending, left, busy, waiting, phase>>

Init ==
    /\ used = {}
    /\ pending = {}
    /\ left = [t \in Tasks |-> 0]
    /\ busy = None
    /\ waiting = [u \in Users |-> NotWaiting]
    /\ phase = "open"

\* By a user while the manager is open, or by a callback.
Create(t, n) ==
    /\ phase = "open" \/ busy # None
    /\ t \notin used
    /\ used' = used \cup {t}
    /\ pending' = pending \cup {t}
    /\ left' = [left EXCEPT ![t] = n]
    /\ UNCHANGED <<busy, waiting, phase>>

Begin(t) ==
    /\ phase = "open"
    /\ busy = None
    /\ t \in pending
    /\ left[t] # 0
    /\ busy' = t
    /\ left' = IF left[t] = Forever THEN left ELSE [left EXCEPT ![t] = @ - 1]
    /\ UNCHANGED <<used, pending, waiting, phase>>

End ==
    /\ busy # None
    /\ busy' = None
    /\ pending' = IF left[busy] = 0 THEN pending \ {busy} ELSE pending
    /\ UNCHANGED <<used, left, waiting, phase>>

Wait(u, r) ==
    /\ phase = "open"
    /\ waiting[u] = NotWaiting
    /\ waiting' = [waiting EXCEPT ![u] = r]
    /\ UNCHANGED <<used, pending, left, busy, phase>>

Return(u) ==
    /\ waiting[u] # NotWaiting
    /\ Size(pending) <= waiting[u]
    /\ waiting' = [waiting EXCEPT ![u] = NotWaiting]
    /\ UNCHANGED <<used, pending, left, busy, phase>>

BeginClose ==
    /\ phase = "open"
    /\ \A u \in Users : waiting[u] = NotWaiting
    /\ phase' = "closing"
    /\ UNCHANGED <<used, pending, left, busy, waiting>>

EndClose ==
    /\ phase = "closing"
    /\ busy = None
    /\ phase' = "closed"
    /\ UNCHANGED <<used, pending, left, busy, waiting>>

Next ==
    \/ \E t \in Tasks, n \in Repeats : Create(t, n)
    \/ \E t \in Tasks : Begin(t)
    \/ End
    \/ \E u \in Users, r \in Rests : Wait(u, r)
    \/ \E u \in Users : Return(u)
    \/ BeginClose
    \/ EndClose

Spec == Init /\ [][Next]_vars
=============================================================================
