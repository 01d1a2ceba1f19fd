--------------------------- MODULE ReactOnService ---------------------------
(***************************************************************************)
(* The market-data reactions of a generated script                         *)
(* (backend/includes/services/reacton_service.h and                        *)
(* backend/src/services/reacton_service.cc): the constructor starts one    *)
(* reader thread that streams price updates and calls, for each update,    *)
(* every reaction that is not exhausted.  Reactions are appended to a plain*)
(* std::vector, without a lock, by the threads of the script and by the    *)
(* callbacks themselves.                                                   *)
(*                                                                         *)
(* The range-for over the vector takes its begin and end once.  When a     *)
(* push_back replaces the buffer meanwhile, each later use of the loop's   *)
(* reference is undefined: freed memory may still hold the old elements, or*)
(* the process crashes.  Both outcomes are modelled.                       *)
(*                                                                         *)
(* Granularity.  ShouldStopReading loops over the vector too; it is one    *)
(* step here: a registration it misses could as well have come after it.   *)
(***************************************************************************)
EXTENDS Integers, Sequences

CONSTANTS
    Reactions,    \* identities of the reactions that may be registered
    MaxCounts,    \* the repetition counts they are registered with, -1 = for ever
    InitCapacity, \* capacity of the vector at the start (0 in the code)
    CountCap      \* bound: where the count of an endless reaction stops

ASSUME ReactOnAssumption ==
    /\ MaxCounts \subseteq {-1} \cup Nat
    /\ InitCapacity \in Nat
    /\ CountCap \in Nat

VARIABLES
    reactions,      \* reactions_
    capacity,       \* the capacity of that vector
    max_count,      \* Reaction::max_count
    current_count,  \* Reaction::current_count
    stop,           \* stop_
    stream,         \* the RPC's server side: "open" or "ended"
    reader,         \* where the reader thread is
    at,             \* the range-for: position of `reaction'
    end,            \* the range-for: its end, taken when it began
    stale,          \* was the buffer replaced since the range-for began?
    owner,          \* the thread that constructs, waits and destroys
    due,            \* history: reactions not exhausted when the update came
    called          \* history: reactions called for this update

loop == <<at, end, stale>>
registered == <<reactions, capacity, max_count>>
history == <<due, called>>
vars == <<registered, current_count, stop, stream, reader, loop, owner, history>>

\* In Read, in the loop between two reactions, in a callback, in Finish, returned
\* from the thread's function; or the process is dead.
ReaderPCs == {"read", "scan", "call", "finish", "gone", "crashed"}

\* Outside, in WaitForCompletion, back from it, in the destructor, done with it.
OwnerPCs == {"out", "joining", "joined", "destroying", "destroyed"}

Forever == -1

Elements == {reactions[i] : i \in 1 .. Len(reactions)}

\* A limit that is passed before it stops the reaction.
ExhaustedLate(r) == max_count[r] # Forever /\ current_count[r] > max_count[r]

\* Has the reaction been executed as often as it was asked for?
Exhausted(r) == max_count[r] # Forever /\ current_count[r] >= max_count[r]

Init ==
    /\ reactions = <<>>
    /\ capacity = InitCapacity
    /\ max_count = [r \in Reactions |-> 0]
    /\ current_count = [r \in Reactions |-> 0]
    /\ stop = FALSE
    /\ stream = "open"
    /\ reader = "read"
    /\ at = 1
    /\ end = 0
    /\ stale = FALSE
    /\ owner = "out"
    /\ due = {}
    /\ called = {}

-----------------------------------------------------------------------------
(***************************************************************************)
(* Registration.                                                           *)
(***************************************************************************)

InLoop == reader \in {"scan", "call"}

\* A buffer that starts empty and is doubled.
DoubledCapacity == 2 * capacity

\* The capacity after push_back has replaced the buffer.
GrownCapacity == IF capacity = 0 THEN 1 ELSE 2 * capacity

\* push_back doubles the buffer of a full vector, which invalidates what the
\* reader's loop holds.
RegisterReaction(r, n) ==
    /\ reader # "crashed"
    /\ r \notin Elements
    /\ reactions' = Append(reactions, r)
    /\ max_count' = [max_count EXCEPT ![r] = n]
    /\ IF Len(reactions) < capacity
       THEN UNCHANGED <<capacity, stale>>
       ELSE /\ capacity' = GrownCapacity
            /\ stale' = (stale \/ InLoop)
    /\ UNCHANGED <<current_count, stop, stream, reader, at, end, owner, history>>

\* Some thread of the script other than the reader, while the service lives.
ThreadRegisters(r, n) == owner # "destroyed" /\ RegisterReaction(r, n)

\* A ReactOn inside a ReactOn.
CallbackRegisters(r, n) == reader = "call" /\ RegisterReaction(r, n)

-----------------------------------------------------------------------------
(***************************************************************************)
(* ReadMarketDataStream, the reader thread.                                *)
(***************************************************************************)

\* A loop that skips every other element.
SecondNext == at + 2

\* A loop that does not advance.
SameElement == at

\* The next element of the range-for.
NextElement == at + 1

ReadsUpdate ==
    /\ reader = "read"
    /\ stream = "open"
    /\ reader' = "scan"
    /\ at' = 1
    /\ end' = Len(reactions)
    /\ stale' = FALSE
    /\ due' = {r \in Elements : ~Exhausted(r)}
    /\ called' = {}
    /\ UNCHANGED <<registered, current_count, stop, stream, owner>>

ReadFails ==
    /\ reader = "read"
    /\ stream = "ended"
    /\ reader' = "finish"
    /\ UNCHANGED <<registered, current_count, stop, stream, loop, owner, history>>

SkipsExhausted ==
    /\ reader = "scan" /\ at <= end
    /\ Exhausted(reactions[at])
    /\ at' = NextElement
    /\ UNCHANGED <<registered, current_count, stop, stream, reader, end, stale, owner,
                   history>>

CallsReaction ==
    /\ reader = "scan" /\ at <= end
    /\ ~Exhausted(reactions[at])
    /\ reader' = "call"
    /\ called' = called \cup {reactions[at]}
    /\ UNCHANGED <<registered, current_count, stop, stream, loop, owner, due>>

\* reaction->current_count++
NextCount(r) ==
    IF max_count[r] = Forever /\ current_count[r] = CountCap
    THEN CountCap
    ELSE current_count[r] + 1

CallbackReturns ==
    /\ reader = "call"
    /\ current_count' = [current_count EXCEPT ![reactions[at]] = NextCount(reactions[at])]
    /\ at' = NextElement
    /\ reader' = "scan"
    /\ UNCHANGED <<registered, stop, stream, end, stale, owner, history>>

\* The loop uses an element of a buffer that is no longer the vector's.
UsesFreedElement == stale /\ (reader = "call" \/ (reader = "scan" /\ at <= end))

Crashes ==
    /\ UsesFreedElement
    /\ reader' = "crashed"
    /\ UNCHANGED <<registered, current_count, stop, stream, loop, owner, history>>

\* The stop flag ignored.
StopsWhenExhausted == \A r \in Elements : Exhausted(r)

\* One finished reaction taken for all of them.
StopsAtFirst == stop \/ Elements = {} \/ \E r \in Elements : Exhausted(r)

ShouldStopReading == stop \/ \A r \in Elements : Exhausted(r)

\* TryCancel and break, or Read again.
Decides ==
    /\ reader = "scan" /\ at > end
    /\ reader' = IF ShouldStopReading THEN "finish" ELSE "read"
    /\ UNCHANGED <<registered, current_count, stop, stream, loop, owner, history>>

Finishes ==
    /\ reader = "finish"
    /\ reader' = "gone"
    /\ UNCHANGED <<registered, current_count, stop, stream, loop, owner, history>>

-----------------------------------------------------------------------------
(***************************************************************************)
(* The owner.                                                              *)
(***************************************************************************)

WaitForCompletion ==
    /\ reader # "crashed"
    /\ owner = "out"
    /\ owner' = "joining"
    /\ UNCHANGED <<registered, current_count, stop, stream, reader, loop, history>>

Joined ==
    /\ owner = "joining"
    /\ reader = "gone"
    /\ owner' = "joined"
    /\ UNCHANGED <<registered, current_count, stop, stream, reader, loop, history>>

Destroy ==
    /\ reader # "crashed"
    /\ owner \in {"out", "joined"}
    /\ stop' = TRUE
    /\ owner' = "destroying"
    /\ UNCHANGED <<registered, current_count, stream, reader, loop, history>>

Destroyed ==
    /\ owner = "destroying"
    /\ reader = "gone"
    /\ owner' = "destroyed"
    /\ UNCHANGED <<registered, current_count, stop, stream, reader, loop, history>>

-----------------------------------------------------------------------------
\* The server ends the stream, or the connection is lost.
StreamEnds ==
    /\ stream = "open"
    /\ stream' = "ended"
    /\ UNCHANGED <<registered, current_count, stop, reader, loop, owner, history>>

ReaderStep ==
    \/ ReadsUpdate \/ ReadFails
    \/ SkipsExhausted \/ CallsReaction \/ CallbackReturns
    \/ Decides \/ Finishes

OwnerStep == Joined \/ Destroyed

Next ==
    \/ \E r \in Reactions, n \in MaxCounts : ThreadRegisters(r, n) \/ CallbackRegisters(r, n)
    \/ ReaderStep
    \/ Crashes
    \/ WaitForCompletion \/ Destroy
    \/ OwnerStep
    \/ StreamEnds

Spec == Init /\ [][Next]_vars

\* The reader runs, callbacks return, and a stream that is open brings another
\* update; a join that can return does.  Nobody has to register, wait or destroy,
\* and the stream does not have to end.
Fairness == WF_vars(ReaderStep) /\ WF_vars(OwnerStep)

FairSpec == Spec /\ Fairness

-----------------------------------------------------------------------------
(***************************************************************************)
(* Properties.                                                             *)
(***************************************************************************)

TypeOK ==
    /\ reactions \in Seq(Reactions)
    /\ \A i, j \in 1 .. Len(reactions) : reactions[i] = reactions[j] => i = j
    /\ capacity \in Nat /\ Len(reactions) <= capacity
    /\ max_count \in [Reactions -> Int]
    /\ current_count \in [Reactions -> Nat]
    /\ stop \in BOOLEAN
    /\ stream \in {"open", "ended"}
    /\ reader \in ReaderPCs
    /\ at \in Nat \ {0}
    /\ end \in 0 .. Len(reactions)
    /\ stale \in BOOLEAN
    /\ owner \in OwnerPCs
    /\ due \subseteq Reactions
    /\ called \subseteq Reactions

\* ReactOn(id, n) executes its block at most n times, although the count is
\* advanced after the callback and reactions are added while others run.
FiresWithinMax ==
    \A r \in Elements :
        max_count[r] # Forever =>
            current_count[r] + (IF reader = "call" /\ reactions[at] = r THEN 1 ELSE 0)
                <= max_count[r]

\* When the loop over an update is over, the reactions called are those that were
\* registered and not exhausted when the update came: a reaction registered during
\* the loop waits for the next update, and makes the loop skip none.
UpdateReachesAll == reader = "scan" /\ at > end => called = due

\* No reaction is called twice for one update.
OncePerUpdate ==
    [][reader = "scan" /\ reader' = "call" => reactions[at] \in due \ called]_vars

\* ReactOn(id, n) executes its block n times (README.md:88), whoever registers it and
\* wherever the reader is, be it in the middle of its loop: every reaction with a count is
\* executed that often in the end, unless the stream ends, the service is destroyed or the
\* process dies first.  A reaction that comes when the reader has made up its mind to quit
\* is too late: nothing executes it.
ReactionsComplete ==
    \A r \in Reactions :
        (r \in Elements /\ max_count[r] # Forever /\ reader \notin {"finish", "gone"}) ~>
            (Exhausted(r) \/ stream = "ended" \/ stop \/ reader = "crashed")

\* The joins return.  WaitForCompletion does when no reaction is endless: the reader quits,
\* if not after an update then when the stream ends.  The destructor does although reactions
\* are endless, as long as updates come or the stream ends: stop_ is read after each update.
JoinsReturn ==
    /\ (owner = "joining") ~>
          \/ owner = "joined"
          \/ reader = "crashed"
          \/ \E r \in Elements : max_count[r] = Forever
    /\ (owner = "destroying") ~> (owner = "destroyed" \/ reader = "crashed")

\* "ThreadSafeRegistration" (backend/test/services/reacton_service_test.cc:76): while
\* the reader runs, registering a reaction leaves what the reader uses intact.
RegistrationIsSafe == ~UsesFreedElement
=============================================================================
