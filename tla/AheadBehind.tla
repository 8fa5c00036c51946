----------------------------- MODULE AheadBehind -----------------------------
(***************************************************************************)
(* The ahead/behind store of AppStore (native/github_desktop/store.py):    *)
(* the branch list asks for the ahead/behind counts of pairs of commits,   *)
(* answers come from an LRU cache or from git, and at most one `git        *)
(* rev-list` runs at a time (MaxConcurrent = 1).                           *)
(*                                                                         *)
(* Two threads touch the state.  Everything the GTK thread does            *)
(* (request_ahead_behind, try_get_ahead_behind, cancel, done) is one step: *)
(* GTK callbacks do not interleave, and while one of them is past its      *)
(* first lock section either the single job is not on a worker or the      *)
(* pump that follows does nothing.  A pool worker runs work() in two       *)
(* steps, the look at the waiters under the lock and the git call.         *)
(*                                                                         *)
(* A request for a missing or for two equal commits never reaches this     *)
(* state (store.py:3957-3962) and is left out.  A waiter list is a set:    *)
(* the order of the callbacks of one lookup is no property's business.     *)
(***************************************************************************)
EXTENDS Integers, Sequences

CONSTANTS
    Keys,       \* (repository path, from, to) triples
    Requests,   \* one identity for each call of request_ahead_behind
    MaxCache    \* 2500 in the code

ASSUME MaxCacheAssumption == MaxCache \in Nat \ {0}

VARIABLES
    lru,        \* _ahead_behind_cache's keys, least recently used first
    value,      \* what the cache holds for the keys of lru
    waiters,    \* _ahead_behind_workers; {} stands for an absent key
    pending,    \* _ahead_behind_pending
    inflight,   \* _ahead_behind_inflight
    jobs,       \* the work()/done() pairs handed to _run and not finished
    cancelled,  \* the requests whose cancel closure was called
    asked,      \* the requests made so far
    calls       \* how many times the callback of a request was called

vars == <<lru, value, waiters, pending, inflight, jobs, cancelled, asked, calls>>

\* "none" is the Python None that stands for a failed lookup.
Results == {"counts", "none"}

\* submitted: before work() looks at the waiters; looking: git runs;
\* the others: work() has returned and done() is queued on the GTK loop.
Phases == {"submitted", "looking", "skipped"} \cup Results

Jobs == [key : Keys, phase : Phases]

Members(s) == {s[i] : i \in 1..Len(s)}

NoDuplicates(s) == \A i, j \in 1..Len(s) : s[i] = s[j] => i = j

RemoveIndex(s, i) == [j \in 1..(Len(s) - 1) |-> IF j < i THEN s[j] ELSE s[j + 1]]

\* Bug variant of MoveToEnd: the key is appended without being moved.
MoveToEndDuplicates(s, k) == Append(s, k)

\* OrderedDict: insert k, or move it to the end when it is there already.
MoveToEnd(s, k) ==
    IF k \in Members(s)
    THEN Append(RemoveIndex(s, CHOOSE i \in 1..Len(s) : s[i] = k), k)
    ELSE Append(s, k)

\* One insertion needs at most one popitem(last=False).
Evict(s) == IF Len(s) > MaxCache THEN Tail(s) ELSE s

-----------------------------------------------------------------------------
Init ==
    /\ lru = <<>>
    /\ value = [k \in Keys |-> "none"]
    /\ waiters = [k \in Keys |-> {}]
    /\ pending = <<>>
    /\ inflight = 0
    /\ jobs = {}
    /\ cancelled = {}
    /\ asked = {}
    /\ calls = [r \in Requests |-> 0]

\* Bug variant of AtCapacity: MaxConcurrent is not looked at.
NeverAtCapacity(n) == FALSE

AtCapacity(n) == n >= 1

\* _pump_ahead_behind, from the given queue, n lookups and jobs js.
Pump(queue, n, js) ==
    IF AtCapacity(n) \/ queue = <<>>
    THEN /\ pending' = queue
         /\ inflight' = n
         /\ jobs' = js
    ELSE /\ pending' = Tail(queue)
         /\ inflight' = n + 1
         /\ jobs' = js \cup {[key |-> Head(queue), phase |-> "submitted"]}

\* Join the waiters of k, or queue k with its first one; then pump.
Enlist(r, k) ==
    /\ waiters' = [waiters EXCEPT ![k] = @ \cup {r}]
    /\ Pump(IF waiters[k] = {} THEN Append(pending, k) ELSE pending, inflight, jobs)

\* Bug variant of Cached: a cached failure is taken for a miss.
CachedCounts(k) == k \in Members(lru) /\ value[k] = "counts"

Cached(k) == k \in Members(lru)

\* The call of r's callback when a cached key is asked for.
AnswerFromCache(r, k) ==
    /\ asked' = asked \cup {r}
    /\ lru' = MoveToEnd(lru, k)
    /\ calls' = IF value[k] = "counts" THEN [calls EXCEPT ![r] = @ + 1] ELSE calls

\* Bug variant of RequestCached: the early return after a hit is missing.
RequestCachedFallsThrough(r, k) ==
    /\ r \notin asked
    /\ Cached(k)
    /\ AnswerFromCache(r, k)
    /\ Enlist(r, k)
    /\ UNCHANGED <<value, cancelled>>

\* request_ahead_behind when the key is cached: a failure stays silent.
RequestCached(r, k) ==
    /\ r \notin asked
    /\ Cached(k)
    /\ AnswerFromCache(r, k)
    /\ UNCHANGED <<value, waiters, pending, inflight, jobs, cancelled>>

\* request_ahead_behind otherwise.
RequestLookup(r, k) ==
    /\ r \notin asked
    /\ ~ Cached(k)
    /\ asked' = asked \cup {r}
    /\ Enlist(r, k)
    /\ UNCHANGED <<lru, value, cancelled, calls>>

\* try_get_ahead_behind of a cached key.
TryGet(k) ==
    /\ Cached(k)
    /\ lru' = MoveToEnd(lru, k)
    /\ UNCHANGED <<value, waiters, pending, inflight, jobs, cancelled, asked, calls>>

\* The closure request_ahead_behind returned; the branch list calls it for
\* every request it made each time it is rebuilt.
Cancel(r) ==
    /\ r \in asked \ cancelled
    /\ cancelled' = cancelled \cup {r}
    /\ UNCHANGED <<lru, value, waiters, pending, inflight, jobs, asked, calls>>

Advance(j, phase) == jobs' = (jobs \ {j}) \cup {[j EXCEPT !.phase = phase]}

\* work(), under the lock: nobody is interested any more, or git is called.
WorkLooks(j) ==
    /\ j.phase = "submitted"
    /\ Advance(j, IF waiters[j.key] \subseteq cancelled THEN "skipped" ELSE "looking")
    /\ UNCHANGED <<lru, value, waiters, pending, inflight, cancelled, asked, calls>>

\* work(): get_ahead_behind_range returns the counts, or fails.
WorkReturns(j) ==
    /\ j.phase = "looking"
    /\ \E res \in Results : Advance(j, res)
    /\ UNCHANGED <<lru, value, waiters, pending, inflight, cancelled, asked, calls>>

\* Bug variants of the two helpers of done(): the waiter list is kept, the
\* slot is not given back.
WaitersKept(k) == waiters
SlotKept == inflight

\* workers.pop(key) and the decrement under the lock.
WaitersWithout(k) == [waiters EXCEPT ![k] = {}]
SlotFreed == IF inflight > 0 THEN inflight - 1 ELSE 0

\* Bug variant of ToAnswer: the cancelled flags are not looked at.
ToAnswerAll(k) == waiters[k]

ToAnswer(k) == waiters[k] \ cancelled

\* done() after a skip: the waiter list goes, with whoever joined it since.
DoneSkipped(j) ==
    /\ j.phase = "skipped"
    /\ waiters' = WaitersWithout(j.key)
    /\ Pump(pending, SlotFreed, jobs \ {j})
    /\ UNCHANGED <<lru, value, cancelled, asked, calls>>

\* done() after a lookup: fill the cache, answer the waiters, start the next.
DoneLookup(j) ==
    /\ j.phase \in Results
    /\ lru' = Evict(MoveToEnd(lru, j.key))
    /\ value' = [value EXCEPT ![j.key] = j.phase]
    /\ waiters' = WaitersWithout(j.key)
    /\ calls' = [r \in Requests |->
                    IF j.phase = "counts" /\ r \in ToAnswer(j.key)
                    THEN calls[r] + 1 ELSE calls[r]]
    /\ Pump(pending, SlotFreed, jobs \ {j})
    /\ UNCHANGED <<cancelled, asked>>

JobStep == \E j \in jobs : WorkLooks(j) \/ WorkReturns(j) \/ DoneSkipped(j) \/ DoneLookup(j)

Next ==
    \/ \E r \in Requests, k \in Keys : RequestCached(r, k) \/ RequestLookup(r, k)
    \/ \E k \in Keys : TryGet(k)
    \/ \E r \in Requests : Cancel(r)
    \/ JobStep

Spec == Init /\ [][Next]_vars

\* The pool has workers to spare in the end, git returns, and the GTK loop
\* runs its idle callbacks.  Nothing is assumed of the user interface.
FairSpec == Spec /\ WF_vars(JobStep)

-----------------------------------------------------------------------------
\* Properties.  The "Bug variant" operators above are what each of them has
\* to reject; no specification uses them.

InFlightKeys == {j.key : j \in jobs}

\* Everything has its type; the cache never exceeds its limit nor holds a
\* key twice (store.py:4013-4016).
TypeOK ==
    /\ lru \in Seq(Keys)
    /\ Len(lru) <= MaxCache
    /\ NoDuplicates(lru)
    /\ value \in [Keys -> Results]
    /\ waiters \in [Keys -> SUBSET Requests]
    /\ pending \in Seq(Keys)
    /\ inflight \in Nat
    /\ jobs \subseteq Jobs
    /\ cancelled \subseteq asked
    /\ asked \subseteq Requests
    /\ calls \in [Requests -> Nat]

\* MaxConcurrent = 1: no two lookups are ever in flight, and the counter
\* the pump trusts (store.py:3987) agrees with the jobs there really are.
OneLookup ==
    /\ \A i, j \in jobs : i = j
    /\ inflight = 0 <=> jobs = {}
    /\ inflight <= 1

\* A waiter list always has someone to serve it: its key is queued or in
\* flight.  A list left behind would swallow every later request for its
\* key, because request_ahead_behind joins it instead of queueing the key.
NoOrphanList ==
    \A k \in Keys : waiters[k] # {} => k \in Members(pending) \cup InFlightKeys

\* Git is never asked for what the cache knows, a known failure included
\* ("Failed lookups are stored as None and are not retried").
NoLookupOfCachedKey ==
    (Members(pending) \cup InFlightKeys) \cap Members(lru) = {}

\* A request is answered at most once, whichever of the cache and the
\* lookup it joined answers it.
AnsweredAtMostOnce == \A r \in Requests : calls[r] <= 1

\* The inductive invariant AheadBehindProofs works with.  A key has a waiter
\* list exactly while it is queued, once, or in flight, never both; a waiter
\* was asked for, is not answered yet, and waits for one key only.
QueueWellFormed ==
    /\ \A k \in Keys : waiters[k] # {} <=> k \in Members(pending) \cup InFlightKeys
    /\ Members(pending) \cap InFlightKeys = {}
    /\ NoDuplicates(pending)

WaitersUnanswered ==
    /\ \A k \in Keys : \A r \in waiters[k] : r \in asked /\ calls[r] = 0
    /\ \A r \in Requests \ asked : calls[r] = 0
    /\ \A k1, k2 \in Keys : waiters[k1] \cap waiters[k2] # {} => k1 = k2

Inv ==
    /\ TypeOK
    /\ OneLookup
    /\ QueueWellFormed
    /\ NoLookupOfCachedKey
    /\ WaitersUnanswered
    /\ AnsweredAtMostOnce

\* Once cancel() has returned, the callback (it writes to a label of a row
\* that may be gone) is never called.
SilentAfterCancel ==
    [][\A r \in cancelled : calls'[r] = calls[r]]_vars

\* Every waiter list is served in the end: a queue that is no longer pumped,
\* or a counter that never returns to 0, would leave it there for good.
EveryListIsServed == \A k \in Keys : waiters[k] # {} ~> waiters[k] = {}

\* What the original's comment promises of a request that is not cancelled:
\* it leaves its waiter list answered, or because git failed.
NoWaiterDropped ==
    [][\A k \in Keys : \A r \in waiters[k] \ (waiters'[k] \cup cancelled) :
          \/ calls'[r] = 1
          \/ k \in Members(lru') /\ value'[k] = "none"]_vars
=============================================================================
