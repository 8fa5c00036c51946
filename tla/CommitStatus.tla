---------------------------- MODULE CommitStatus -----------------------------
(***************************************************************************)
(* The status of the checks of commits: lib/stores/commit-status-store.ts. *)
(* Components subscribe to a ref; refreshes are queued, at most            *)
(* MaxConcurrentFetches run at a time, each for the branch name it found   *)
(* when it began.                                                          *)
(*                                                                         *)
(* A subscription object is replaced by one with another branch name that  *)
(* shares its Set of callbacks, so the sets have an identity of their own  *)
(* here.  Of the cache only the age of an entry is kept.                   *)
(***************************************************************************)
EXTENDS Naturals, Sequences, FiniteSets

CONSTANTS Refs,                 \* cache keys of refs of a repository
          StatusCallbacks,      \* the callbacks of components
          BranchNames,          \* undefined among them
          MaxConcurrentFetches, \* as in the code
          NoSubscription

ASSUME RefsAssumption == IsFiniteSet(Refs)

ASSUME LimitAssumption == MaxConcurrentFetches \in Nat

ASSUME NoSubscriptionAssumption ==
  \A id \in 1..Cardinality(Refs) :
    /\ \A branch \in BranchNames : [set |-> id, branch |-> branch] # NoSubscription
    /\ \A ref \in Refs : [ref |-> ref, set |-> id] # NoSubscription

VARIABLES subscriptions,        \* subscriptions
          callbackSets,         \* the Sets of callbacks
          disposables,          \* what a component has to dispose of
          cached,               \* age of the entry of cache
          queue,                \* queue
          limited,              \* those that wait for limit, in order
          fetches,              \* refreshSubscription after its first await
          refreshQueued,        \* refreshQueued
          background,           \* backgroundRefreshHandle is set
          signedIn              \* there is an account for the endpoint

statusVars == <<subscriptions, callbackSets, disposables, cached, queue, limited,
                fetches, refreshQueued, background, signedIn>>

\* a set for each subscription; those of fetches under way are not needed,
\* whom a fetch tells is not modelled
SetId == 1..Cardinality(Refs)

NoFetch == [at |-> "none"]

Running == {ref \in Refs : fetches[ref] # NoFetch}

Subscribed == {ref \in Refs : subscriptions[ref] # NoSubscription}

SetsInUse == {subscriptions[ref].set : ref \in Subscribed}

\* new Set()
NewSet == CHOOSE id \in SetId : id \notin SetsInUse

QueueRefresh == refreshQueued' = TRUE

-----------------------------------------------------------------------------
StartBackgroundRefresh ==
  /\ ~background
  /\ background' = TRUE
  /\ QueueRefresh
  /\ UNCHANGED <<subscriptions, callbackSets, disposables, cached, queue, limited,
                 fetches, signedIn>>

StopBackgroundRefresh ==
  /\ background
  /\ background' = FALSE
  /\ UNCHANGED <<subscriptions, callbackSets, disposables, cached, queue, limited,
                 fetches, refreshQueued, signedIn>>

\* the interval of startBackgroundRefresh
Interval ==
  /\ background
  /\ QueueRefresh
  /\ UNCHANGED <<subscriptions, callbackSets, disposables, cached, queue, limited,
                 fetches, background, signedIn>>

\* entryIsEligibleForRefresh: a minute has passed
Age(ref) ==
  /\ cached[ref] = "fresh"
  /\ cached' = [cached EXCEPT ![ref] = "stale"]
  /\ UNCHANGED <<subscriptions, callbackSets, disposables, queue, limited, fetches,
                 refreshQueued, background, signedIn>>

Eligible(ref) ==
  subscriptions[ref] # NoSubscription /\ ref \notin queue /\ cached[ref] # "fresh"

\* refreshEligibleSubscriptions, in the order of the subscriptions
RefreshEligibleSubscriptions ==
  /\ refreshQueued
  /\ refreshQueued' = FALSE
  /\ LET eligible == {ref \in Refs : Eligible(ref)}
     IN  /\ queue' = queue \cup eligible
         /\ \E order \in [1..Cardinality(eligible) -> eligible] :
              /\ \A ref \in eligible : \E i \in DOMAIN order : order[i] = ref
              /\ limited' = limited \o order
  /\ UNCHANGED <<subscriptions, callbackSets, disposables, cached, fetches, background,
                 signedIn>>

\* .then(() => this.queue.delete(key))
Dequeue(ref) == queue' = queue \ {ref}

\* refreshSubscription up to the requests, when limit has room
BeginFetch ==
  /\ limited # <<>> /\ Cardinality(Running) < MaxConcurrentFetches
  /\ LET ref == Head(limited)
     IN  IF subscriptions[ref] = NoSubscription \/ ~signedIn
         THEN Dequeue(ref) /\ UNCHANGED fetches
         ELSE /\ fetches' = [fetches EXCEPT ![ref] =
                    [at |-> "checks", branch |-> subscriptions[ref].branch]]
              /\ UNCHANGED queue
  /\ limited' = Tail(limited)
  /\ UNCHANGED <<subscriptions, callbackSets, disposables, cached, refreshQueued,
                 background, signedIn>>

EndFetch(ref) == Dequeue(ref) /\ fetches' = [fetches EXCEPT ![ref] = NoFetch]

\* the status is cached and the subscribers are told, or both requests have
\* failed and nobody is told
FetchEnds(ref) ==
  /\ ref \in Running
  /\ EndFetch(ref)
  /\ cached' = [cached EXCEPT ![ref] = "fresh"]
  /\ UNCHANGED <<subscriptions, callbackSets, disposables, limited, refreshQueued,
                 background, signedIn>>

\* the checks have arrived and the workflow runs of the branch are asked for
FetchWorkflows(ref) ==
  /\ fetches[ref].at = "checks" /\ fetches[ref].branch # "undefined"
  /\ fetches' = [fetches EXCEPT ![ref].at = "workflows"]
  /\ UNCHANGED <<subscriptions, callbackSets, disposables, cached, queue, limited,
                 refreshQueued, background, signedIn>>

\* (mutant) an exception skips what follows
AfterThrow(ref) == UNCHANGED queue /\ fetches' = [fetches EXCEPT ![ref] = NoFetch]

\* catch, then the same as without an exception
AfterCatch(ref) == EndFetch(ref)

FetchThrows(ref) ==
  /\ ref \in Running
  /\ AfterCatch(ref)
  /\ UNCHANGED <<subscriptions, callbackSets, disposables, cached, limited,
                 refreshQueued, background, signedIn>>

\* manualRefreshSubscription: a check is set to pending
ManualRefresh(ref) ==
  /\ subscriptions[ref] # NoSubscription /\ cached[ref] # "none"
  /\ cached' = [cached EXCEPT ![ref] = "fresh"]
  /\ UNCHANGED <<subscriptions, callbackSets, disposables, queue, limited, fetches,
                 refreshQueued, background, signedIn>>

\* (mutant) the new subscription has a copy of the callbacks
CallbacksCopied(ref, branch) ==
  IF subscriptions[ref].branch = branch THEN subscriptions[ref].set ELSE NewSet

\* { ...subscription, branchName }
CallbacksShared(ref, branch) == subscriptions[ref].set

\* subscribe with getOrCreateSubscription
Subscribe(cb, ref, branch) ==
  /\ disposables[cb] = NoSubscription
  /\ LET exists == subscriptions[ref] # NoSubscription
         set == IF exists THEN CallbacksShared(ref, branch) ELSE NewSet
         before == IF exists THEN callbackSets[subscriptions[ref].set] ELSE {}
         renamed == exists /\ subscriptions[ref].branch # branch
     IN  /\ subscriptions' = [subscriptions EXCEPT ![ref] = [set |-> set, branch |-> branch]]
         /\ callbackSets' = [callbackSets EXCEPT ![set] = before \cup {cb}]
         /\ disposables' = [disposables EXCEPT ![cb] = [ref |-> ref, set |-> set]]
         /\ cached' = IF renamed /\ cached[ref] = "fresh"
                      THEN [cached EXCEPT ![ref] = "stale"] ELSE cached
  /\ QueueRefresh
  /\ UNCHANGED <<queue, limited, fetches, background, signedIn>>

\* the component disposes: the last of a set removes the subscription
Dispose(cb) ==
  /\ disposables[cb] # NoSubscription
  /\ LET mine == disposables[cb]
         left == callbackSets[mine.set] \ {cb}
     IN  /\ callbackSets' = [callbackSets EXCEPT ![mine.set] = left]
         /\ subscriptions' = IF left = {}
                             THEN [subscriptions EXCEPT ![mine.ref] = NoSubscription]
                             ELSE subscriptions
  /\ disposables' = [disposables EXCEPT ![cb] = NoSubscription]
  /\ UNCHANGED <<cached, queue, limited, fetches, refreshQueued, background, signedIn>>

\* onAccountsUpdated
OnAccountsUpdated ==
  /\ signedIn' = ~signedIn
  /\ UNCHANGED <<subscriptions, callbackSets, disposables, cached, queue, limited,
                 fetches, refreshQueued, background>>

StatusInit ==
  /\ subscriptions = [ref \in Refs |-> NoSubscription]
  /\ callbackSets = [id \in SetId |-> {}]
  /\ disposables = [cb \in StatusCallbacks |-> NoSubscription]
  /\ cached = [ref \in Refs |-> "none"]
  /\ queue = {} /\ limited = <<>> /\ fetches = [ref \in Refs |-> NoFetch]
  /\ refreshQueued = FALSE /\ background = FALSE /\ signedIn = TRUE

StatusNext ==
  \/ StartBackgroundRefresh \/ StopBackgroundRefresh \/ Interval
  \/ RefreshEligibleSubscriptions \/ BeginFetch
  \/ \E ref \in Refs : \/ Age(ref) \/ FetchEnds(ref) \/ FetchWorkflows(ref) \/ FetchThrows(ref)
                       \/ ManualRefresh(ref)
                       \/ \E cb \in StatusCallbacks, branch \in BranchNames :
                            Subscribe(cb, ref, branch)
  \/ \E cb \in StatusCallbacks : Dispose(cb)
  \/ OnAccountsUpdated

\* the event loop and the timer run, and the API answers or fails
StatusFairness ==
  /\ WF_statusVars(Interval) /\ WF_statusVars(RefreshEligibleSubscriptions)
  /\ WF_statusVars(BeginFetch)
  /\ \A ref \in Refs : /\ WF_statusVars(FetchEnds(ref) \/ FetchThrows(ref))
                        /\ WF_statusVars(Age(ref))

StatusSpec == StatusInit /\ [][StatusNext]_statusVars /\ StatusFairness
-----------------------------------------------------------------------------
StatusTypeOK ==
  /\ \A ref \in Refs :
       /\ subscriptions[ref] \in {NoSubscription} \cup [set : SetId, branch : BranchNames]
       /\ cached[ref] \in {"none", "fresh", "stale"}
  /\ queue = Running \cup {limited[i] : i \in DOMAIN limited}
  /\ \A i, j \in DOMAIN limited : i # j => limited[i] # limited[j]
  /\ Cardinality(Running) <= MaxConcurrentFetches

(* A component that has subscribed is among the callbacks of the           *)
(* subscription the next refresh will tell, whoever subscribed with other  *)
(* branch names or disposed meanwhile (commit-status-store.ts:407-483).    *)
SubscribersReached ==
  \A cb \in StatusCallbacks :
    disposables[cb] # NoSubscription =>
      LET current == subscriptions[disposables[cb].ref]
      IN  current # NoSubscription /\ cb \in callbackSets[current.set]

(* In the foreground every ref somebody subscribes to is fetched again and *)
(* again, even after fetches that threw (commit-status-store.ts:184-329).  *)
EveryRefFetched ==
  \A ref \in Refs :
    []<>(\/ fetches[ref] # NoFetch \/ subscriptions[ref] = NoSubscription
         \/ ~background \/ ~signedIn \/ cached[ref] = "fresh")
=============================================================================
