-------------------------- MODULE StashCheckoutProofs --------------------------
(***************************************************************************)
(* What is proved of StashCheckout, for any branches, edits and bounds:    *)
(* types for any number of operations that overlap, and that an operation  *)
(* no other one overlaps, beside any refreshes and edits, loses no change  *)
(* of the user and drops the old stash entry of a branch, and no other,    *)
(* only for a new one.                                                     *)
(***************************************************************************)
EXTENDS StashCheckout, ListProofs

\* What may come after a step of an operation.
After == [step \in {"try", "list", "push", "find", "drop", "checkout", "lookup", "pop", "done"} |->
            CASE step = "try"      -> {"list"}
              [] step = "list"     -> {"push"}
              [] step = "push"     -> {"find", "done"}
              [] step = "find"     -> {"drop"}
              [] step = "drop"     -> {"checkout", "done"}
              [] step = "checkout" -> {"lookup", "done"}
              [] step = "lookup"   -> {"pop"}
              [] step = "pop"      -> {"done"}
              [] OTHER             -> {}]

OpSteps == DOMAIN After

\* The steps of an operation that are left: each may follow the one before.
Plan(todo) ==
  /\ todo \in Seq(OpSteps) /\ Len(todo) > 0 /\ todo[Len(todo)] = "done"
  /\ \A k \in 1..(Len(todo) - 1) : todo[k + 1] \in After[todo[k]]

OpJobs == [kind : Kinds \ {"refresh"}, todo : Seq(OpSteps), target : Branches, result : Results,
           current : Branches, prev : 0..MaxSha, at : 1..MaxSha, alone : BOOLEAN,
           carried : SUBSET Edits, meant : 0..MaxSha]

RefreshJobs == [kind : {"refresh"},
                todo : {<<"status", "stashes", "apply">>, <<"stashes", "apply">>, <<"apply">>},
                snapshot : Views \cup {Unread}]

\* What runs, or nothing, once these edits were made.
Runs(j, edits) ==
  \/ j = Idle
  \/ j \in RefreshJobs /\ (Head(j.todo) # "status" => j.snapshot \in Views)
  \/ j \in OpJobs /\ Plan(j.todo) /\ j.carried \subseteq edits

JobInv ==
  /\ job = [s \in Slots \cup Refreshers |-> job[s]]
  /\ \A s \in Slots \cup Refreshers : Runs(job[s], made)
  /\ \A s \in Slots \cup Refreshers : job[s] \in OpJobs => s \in Slots

\* The stash: entries of known edits, no two with one sha.
StashInv ==
  /\ stash \in Seq(Entries) /\ lastSha \in 0..MaxSha /\ Len(stash) <= lastSha
  /\ \A i \in DOMAIN stash : stash[i].sha <= lastSha /\ stash[i].edits \subseteq made
  /\ \A i, k \in DOMAIN stash : stash[i].sha = stash[k].sha => i = k

RestInv ==
  /\ head \in Branches /\ tree \subseteq made /\ made \subseteq Edits
  /\ shown \in Views /\ popups \subseteq Popups

IInv == JobInv /\ StashInv /\ RestInv

-----------------------------------------------------------------------------
\* Beside an operation that is alone no other one runs.
AloneInv ==
  \A s, t \in Slots : job[s] \in OpJobs /\ job[s].alone /\ job[t] \in OpJobs => s = t

\* What an operation knows of the stash when it is to push, to look for the
\* previous entry and to drop it.
Knows(j) ==
  /\ Head(j.todo) = "push" /\ j.todo[2] = "find" /\ j.prev # 0 =>
       \E i \in DOMAIN stash : stash[i].sha = j.prev /\ stash[i].label = j.current
  /\ Head(j.todo) = "find" =>
       /\ stash # <<>> /\ stash[1].label = j.current
       /\ j.prev # 0 => /\ stash[1].sha > j.prev
                        /\ \A i \in DOMAIN stash : stash[i].sha = j.prev => stash[i].label = j.current
  /\ Head(j.todo) = "drop" /\ j.kind # "discard" =>
       /\ 1 < j.at /\ j.at <= Len(stash)
       /\ stash[1].label = j.current /\ stash[1].sha > j.prev
       /\ stash[j.at].label = j.current /\ stash[j.at].sha = j.prev

KnowsInv == \A s \in Slots : job[s] \in OpJobs /\ job[s].alone => Knows(job[s])

SafeInv == AloneInv /\ KnowsInv

-----------------------------------------------------------------------------
(* Sequences: an entry that is looked for, and an element taken out.       *)

(* get_last_desktop_stash_entry_for_branch and the search for an entry.    *)
LEMMA IndexForFacts ==
  ASSUME NEW q \in Seq(Entries), NEW b
  PROVE  \/ IndexFor(q, b) = 0 /\ \A k \in 1..Len(q) : q[k].label # b
         \/ IndexFor(q, b) \in 1..Len(q) /\ q[IndexFor(q, b)].label = b
<1> DEFINE I == {i \in 1..Len(q) : q[i].label = b}
<1>1. IndexFor(q, b) = IF I # {} THEN Min(I) ELSE 0
  BY DEF IndexFor, SelectInSeq
<1>2. I # {} => Min(I) \in I
  <2>1. I \subseteq Nat
    OBVIOUS
  <2> HIDE DEF I
  <2> QED
    BY <2>1, MinIn
<1> QED
  BY <1>1, <1>2

LEMMA IndexOfFacts ==
  ASSUME NEW q \in Seq(Entries), NEW sha
  PROVE  \/ IndexOf(q, sha) = 0 /\ \A k \in 1..Len(q) : q[k].sha # sha
         \/ IndexOf(q, sha) \in 1..Len(q) /\ q[IndexOf(q, sha)].sha = sha
<1> DEFINE I == {i \in 1..Len(q) : q[i].sha = sha}
<1>1. IndexOf(q, sha) = IF I # {} THEN Min(I) ELSE 0
  BY DEF IndexOf, SelectInSeq
<1>2. I # {} => Min(I) \in I
  <2>1. I \subseteq Nat
    OBVIOUS
  <2> HIDE DEF I
  <2> QED
    BY <2>1, MinIn
<1> QED
  BY <1>1, <1>2

\* Where the k-th element is that is left without the n-th one.
Beside(n, k) == IF k < n THEN k ELSE k + 1

LEMMA RemoveAtFacts ==
  ASSUME NEW S, NEW q \in Seq(S), NEW n \in 1..Len(q)
  PROVE  /\ RemoveAt(q, n) \in Seq(S) /\ Len(RemoveAt(q, n)) = Len(q) - 1
         /\ \A k \in 1..(Len(q) - 1) : RemoveAt(q, n)[k] = q[Beside(n, k)]
<1> DEFINE a == SubSeq(q, 1, n - 1)
           c == SubSeq(q, n + 1, Len(q))
<1>1. Len(q) \in Nat /\ n \in Int /\ 1 <= n /\ n <= Len(q) /\ \A i \in 1..Len(q) : q[i] \in S
  OBVIOUS
<1>2. /\ a \in Seq(S)
      /\ Len(a) = IF 1 <= n - 1 THEN (n - 1) - 1 + 1 ELSE 0
      /\ \A i \in 1..((n - 1) - 1 + 1) : a[i] = q[1 + i - 1]
  <2>1. 1 \in Int /\ n - 1 \in Int /\ \A i \in 1..(n - 1) : q[i] \in S
    BY <1>1
  <2> QED
    BY <2>1, SubSeqProperties
<1>3. /\ c \in Seq(S)
      /\ Len(c) = IF n + 1 <= Len(q) THEN Len(q) - (n + 1) + 1 ELSE 0
      /\ \A i \in 1..(Len(q) - (n + 1) + 1) : c[i] = q[(n + 1) + i - 1]
  <2>1. n + 1 \in Int /\ Len(q) \in Int /\ \A i \in (n + 1)..Len(q) : q[i] \in S
    BY <1>1
  <2> QED
    BY <2>1, SubSeqProperties
<1> HIDE DEF a, c
<1>4. Len(a) = n - 1 /\ Len(c) = Len(q) - n
  <2>1. \A m \in Int : m >= 1 => (IF 1 <= m - 1 THEN (m - 1) - 1 + 1 ELSE 0) = m - 1
    OBVIOUS
  <2>2. \A m, l \in Int : m <= l => (IF m + 1 <= l THEN l - (m + 1) + 1 ELSE 0) = l - m
    OBVIOUS
  <2> QED
    BY <1>1, <1>2, <1>3, <2>1, <2>2
<1>5. /\ \A i \in 1..(n - 1) : a[i] = q[i]
      /\ \A i \in 1..(Len(q) - n) : c[i] = q[n + i]
  <2>1. ASSUME NEW i \in 1..(n - 1) PROVE a[i] = q[i]
    <3>1. i \in 1..((n - 1) - 1 + 1) /\ 1 + i - 1 = i
      BY <1>1
    <3> QED
      BY <3>1, <1>2
  <2>2. ASSUME NEW i \in 1..(Len(q) - n) PROVE c[i] = q[n + i]
    <3>1. i \in 1..(Len(q) - (n + 1) + 1) /\ (n + 1) + i - 1 = n + i
      BY <1>1
    <3> QED
      BY <3>1, <1>3
  <2> QED
    BY <2>1, <2>2
<1>6. RemoveAt(q, n) = a \o c
  BY DEF RemoveAt, a, c
<1>7. /\ a \o c \in Seq(S) /\ Len(a \o c) = Len(q) - 1
      /\ \A k \in 1..(Len(q) - 1) : (a \o c)[k] = IF k <= n - 1 THEN a[k] ELSE c[k - (n - 1)]
  <2>0. a \in Seq(S) /\ c \in Seq(S)
    BY <1>2, <1>3
  <2>1. a \o c \in Seq(S) /\ Len(a \o c) = Len(a) + Len(c)
    BY <2>0
  <2>2. \A k \in 1..(Len(a) + Len(c)) : (a \o c)[k] = IF k <= Len(a) THEN a[k] ELSE c[k - Len(a)]
    BY <2>0
  <2>3. Len(a) + Len(c) = Len(q) - 1
    BY <1>1, <1>4
  <2> QED
    BY <1>4, <2>1, <2>2, <2>3
<1>8. ASSUME NEW k \in 1..(Len(q) - 1) PROVE (a \o c)[k] = q[Beside(n, k)]
  <2>1. CASE k < n
    <3>1. k \in 1..(n - 1) /\ k <= n - 1
      BY <1>1, <2>1
    <3> QED
      BY <3>1, <2>1, <1>5, <1>7 DEF Beside
  <2>2. CASE ~(k < n)
    <3>1. k - (n - 1) \in 1..(Len(q) - n) /\ ~(k <= n - 1) /\ n + (k - (n - 1)) = k + 1
      BY <1>1, <2>2
    <3> QED
      BY <3>1, <2>2, <1>5, <1>7 DEF Beside
  <2> QED
    BY <2>1, <2>2
<1> QED
  BY <1>6, <1>7, <1>8

\* Every other element is still there.
LEMMA RemoveAtKeeps ==
  ASSUME NEW S, NEW q \in Seq(S), NEW n \in 1..Len(q), NEW i \in 1..Len(q), i # n
  PROVE  \E k \in 1..(Len(q) - 1) : RemoveAt(q, n)[k] = q[i] /\ (i < n => k = i)
<1> DEFINE r == RemoveAt(q, n)
<1>0. \A k \in 1..(Len(q) - 1) : r[k] = q[Beside(n, k)]
  BY RemoveAtFacts
<1> HIDE DEF r
<1>1. CASE i < n
  <2>1. i \in 1..(Len(q) - 1) /\ Beside(n, i) = i
    BY <1>1 DEF Beside
  <2>2. r[i] = q[i]
    BY <1>0, <2>1
  <2> QED
    BY <2>1, <2>2 DEF r
<1>2. CASE ~(i < n)
  <2>1. i - 1 \in 1..(Len(q) - 1) /\ Beside(n, i - 1) = i
    BY <1>2 DEF Beside
  <2>2. r[i - 1] = q[i]
    BY <1>0, <2>1
  <2> QED
    BY <2>1, <2>2, <1>2 DEF r
<1> QED
  BY <1>1, <1>2
-----------------------------------------------------------------------------
(* Plans.                                                                  *)
LEMMA PlanFacts ==
  ASSUME NEW t, Plan(t)
  PROVE  /\ Head(t) \in OpSteps /\ Head(t) = t[1] /\ Len(t) \in Nat \ {0}
         /\ Head(t) # "done" => /\ Plan(Tail(t)) /\ Head(Tail(t)) \in After[Head(t)]
                                /\ Head(Tail(t)) = t[2]
<1>1. Head(t) \in OpSteps /\ Head(t) = t[1] /\ Len(t) \in Nat \ {0}
  BY DEF Plan
<1>2. ASSUME Head(t) # "done"
      PROVE  Plan(Tail(t)) /\ Head(Tail(t)) \in After[Head(t)] /\ Head(Tail(t)) = t[2]
  <2>1. Len(t) # 1
    BY <1>1, <1>2 DEF Plan
  <2>2. /\ Tail(t) \in Seq(OpSteps) /\ Len(Tail(t)) = Len(t) - 1
        /\ \A k \in 1..(Len(t) - 1) : Tail(t)[k] = t[k + 1]
    BY <1>1 DEF Plan
  <2>3. Len(Tail(t)) > 0 /\ Len(Tail(t)) \in 1..(Len(t) - 1) /\ Len(Tail(t)) + 1 = Len(t)
    BY <1>1, <2>1, <2>2
  <2>4. Tail(t)[Len(Tail(t))] = "done"
    BY <2>2, <2>3 DEF Plan
  <2>5. ASSUME NEW k \in 1..(Len(Tail(t)) - 1) PROVE Tail(t)[k + 1] \in After[Tail(t)[k]]
    <3>1. k \in 1..(Len(t) - 1) /\ k + 1 \in 1..(Len(t) - 1)
      BY <1>1, <2>2
    <3> QED
      BY <3>1, <2>2 DEF Plan
  <2>6. Plan(Tail(t))
    BY <2>2, <2>3, <2>4, <2>5 DEF Plan
  <2>7. Head(Tail(t)) = t[2] /\ 1 \in 1..(Len(t) - 1)
    BY <1>1, <2>1, <2>2, <2>3
  <2>8. Head(t) = t[1] /\ t[2] \in After[t[1]]
    BY <1>1, <2>7 DEF Plan
  <2> QED
    BY <2>1, <2>6, <2>7, <2>8
<1> QED
  BY <1>1, <1>2

LEMMA Successors ==
  /\ OpSteps = {"try", "list", "push", "find", "drop", "checkout", "lookup", "pop", "done"}
  /\ After["try"] = {"list"} /\ After["list"] = {"push"} /\ After["push"] = {"find", "done"}
  /\ After["find"] = {"drop"} /\ After["drop"] = {"checkout", "done"}
  /\ After["checkout"] = {"lookup", "done"} /\ After["lookup"] = {"pop"}
  /\ After["pop"] = {"done"} /\ After["done"] = {}
BY DEF After, OpSteps

\* A step before a plan.
LEMMA PlanBefore ==
  ASSUME NEW t, Plan(t), NEW step \in OpSteps, t[1] \in After[step]
  PROVE  Plan(<<step>> \o t) /\ (<<step>> \o t)[1] = step
<1> DEFINE u == <<step>> \o t
<1>1. /\ u \in Seq(OpSteps) /\ Len(u) = Len(t) + 1 /\ u[1] = step
      /\ \A k \in 1..Len(t) : u[k + 1] = t[k]
      /\ Len(t) \in Nat \ {0}
  BY DEF Plan
<1> HIDE DEF u
<1>2. u[Len(u)] = "done"
  BY <1>1 DEF Plan
<1>3. ASSUME NEW k \in 1..(Len(u) - 1) PROVE u[k + 1] \in After[u[k]]
  <2>1. CASE k = 1
    BY <2>1, <1>1
  <2>2. CASE k # 1
    <3>1. k - 1 \in 1..(Len(t) - 1) /\ k - 1 + 1 = k /\ k \in 1..Len(t) /\ k - 1 \in 1..Len(t)
      BY <1>1, <2>2
    <3>2. u[k] = t[k - 1] /\ u[k + 1] = t[k]
      BY <1>1, <3>1
    <3> QED
      BY <3>1, <3>2 DEF Plan
  <2> QED
    BY <2>1, <2>2
<1> QED
  BY <1>1, <1>2, <1>3 DEF Plan, u

(* The plans the operations begin with.                                    *)
LEMMA Plans ==
  /\ Plan(<<"done">>) /\ Plan(<<"checkout", "done">>) /\ Plan(<<"push", "done">>)
  /\ Plan(<<"pop", "done">>) /\ Plan(<<"drop", "done">>)
  /\ Plan(StashAndDropPrevious \o <<"done">>)
  /\ Plan(StashAndDropPrevious \o <<"checkout", "done">>)
  /\ Plan(<<"try">> \o StashAndDropPrevious \o <<"checkout", "lookup", "pop", "done">>)
  /\ Plan(<<>> \o <<"checkout", "done">>)
<1>1. Plan(<<"done">>)
  BY DEF Plan, After, OpSteps
<1>2. Plan(<<"checkout", "done">>) /\ Plan(<<"push", "done">>)
      /\ Plan(<<"pop", "done">>) /\ Plan(<<"drop", "done">>)
  BY Successors DEF Plan
<1>3. Plan(<<"lookup", "pop", "done">>)
  <2> DEFINE t == <<"pop", "done">>
  <2>1. Plan(t) /\ t[1] \in After["lookup"] /\ "lookup" \in OpSteps
    BY <1>2, Successors
  <2>2. <<"lookup", "pop", "done">> = <<"lookup">> \o t
    OBVIOUS
  <2> HIDE DEF t
  <2>3. Plan(<<"lookup">> \o t)
    BY <2>1, PlanBefore
  <2> QED
    BY <2>2, <2>3
<1>4. Plan(<<"checkout", "lookup", "pop", "done">>)
  <2> DEFINE t == <<"lookup", "pop", "done">>
  <2>1. Plan(t) /\ t[1] \in After["checkout"] /\ "checkout" \in OpSteps
    BY <1>3, Successors
  <2>2. <<"checkout", "lookup", "pop", "done">> = <<"checkout">> \o t
    OBVIOUS
  <2> HIDE DEF t
  <2>3. Plan(<<"checkout">> \o t)
    BY <2>1, PlanBefore
  <2> QED
    BY <2>2, <2>3
<1>5. ASSUME NEW t, Plan(t), t[1] \in {"checkout", "done"}
      PROVE  Plan(StashAndDropPrevious \o t) /\ (StashAndDropPrevious \o t)[1] = "list"
  <2>1. Plan(<<"drop">> \o t) /\ (<<"drop">> \o t)[1] = "drop"
    BY <1>5, PlanBefore, Successors
  <2>2. Plan(<<"find">> \o (<<"drop">> \o t)) /\ (<<"find">> \o (<<"drop">> \o t))[1] = "find"
    BY <2>1, PlanBefore, Successors
  <2>3. /\ Plan(<<"push">> \o (<<"find">> \o (<<"drop">> \o t)))
        /\ (<<"push">> \o (<<"find">> \o (<<"drop">> \o t)))[1] = "push"
    BY <2>2, PlanBefore, Successors
  <2>4. /\ Plan(<<"list">> \o (<<"push">> \o (<<"find">> \o (<<"drop">> \o t))))
        /\ (<<"list">> \o (<<"push">> \o (<<"find">> \o (<<"drop">> \o t))))[1] = "list"
    BY <2>3, PlanBefore, Successors
  <2>5. <<"list">> \o (<<"push">> \o (<<"find">> \o (<<"drop">> \o t))) = StashAndDropPrevious \o t
    BY <1>5 DEF StashAndDropPrevious, Plan
  <2> QED
    BY <2>4, <2>5
<1>6. Plan(StashAndDropPrevious \o <<"done">>) /\ Plan(StashAndDropPrevious \o <<"checkout", "done">>)
  BY <1>1, <1>2, <1>5
<1>7. Plan(<<"try">> \o StashAndDropPrevious \o <<"checkout", "lookup", "pop", "done">>)
  <2> DEFINE t == <<"checkout", "lookup", "pop", "done">>
  <2>1. Plan(t) /\ t[1] \in {"checkout", "done"}
    BY <1>4
  <2> HIDE DEF t
  <2>2. Plan(StashAndDropPrevious \o t) /\ (StashAndDropPrevious \o t)[1] = "list"
    BY <2>1, <1>5
  <2>3. Plan(<<"try">> \o (StashAndDropPrevious \o t))
    BY <2>2, PlanBefore, Successors
  <2>4. <<"try">> \o (StashAndDropPrevious \o t) = <<"try">> \o StashAndDropPrevious \o t
    BY <2>1 DEF StashAndDropPrevious, Plan
  <2> QED
    BY <2>3, <2>4 DEF t
<1> QED
  BY <1>1, <1>2, <1>6, <1>7
-----------------------------------------------------------------------------
(* Jobs.                                                                   *)
LEMMA Apart ==
  /\ Idle \notin OpJobs /\ Idle \notin RefreshJobs
  /\ \A j \in OpJobs : j \notin RefreshJobs /\ j # Idle
BY DEF Idle, OpJobs, RefreshJobs, Kinds

\* What the job of one slot becomes; the other jobs stay.
LEMMA JobChange ==
  ASSUME JobInv, NEW s \in Slots \cup Refreshers, NEW n, Runs(n, made'),
         n \in OpJobs => s \in Slots, made \subseteq made', job' = [job EXCEPT ![s] = n]
  PROVE  /\ JobInv' /\ job'[s] = n
         /\ \A t \in Slots \cup Refreshers : t # s => job'[t] = job[t]
<1>1. job'[s] = n /\ \A t \in Slots \cup Refreshers : t # s => job'[t] = job[t]
  BY DEF JobInv
<1>2. job' = [t \in Slots \cup Refreshers |-> job'[t]]
  BY DEF JobInv
<1>3. \A t \in Slots \cup Refreshers : Runs(job'[t], made')
  BY <1>1 DEF JobInv, Runs
<1> QED
  BY <1>1, <1>2, <1>3 DEF JobInv

LEMMA AtOp ==
  ASSUME JobInv, NEW s \in Slots \cup Refreshers, NEW step \in OpSteps, AtStep(s, step)
  PROVE  /\ job[s] \in OpJobs /\ Plan(job[s].todo) /\ job[s].carried \subseteq made
         /\ s \in Slots
<1>1. Runs(job[s], made) /\ job[s] # Idle
  BY DEF JobInv, AtStep
<1>2. job[s] \notin RefreshJobs
  <2>1. SUFFICES ASSUME job[s] \in RefreshJobs PROVE FALSE
    OBVIOUS
  <2>2. \/ job[s].todo = <<"status", "stashes", "apply">> \/ job[s].todo = <<"stashes", "apply">>
        \/ job[s].todo = <<"apply">>
    BY <2>1 DEF RefreshJobs
  <2>3. Head(job[s].todo) \in {"status", "stashes", "apply"}
    BY <2>2
  <2> QED
    BY <2>3, Successors DEF AtStep
<1> QED
  BY <1>1, <1>2 DEF Runs, JobInv

LEMMA AtRefresh ==
  ASSUME JobInv, NEW s \in Slots \cup Refreshers
  PROVE  /\ AtStep(s, "status") => job[s] \in RefreshJobs /\ Rest(s) = <<"stashes", "apply">>
         /\ AtStep(s, "stashes") => /\ job[s] \in RefreshJobs /\ Rest(s) = <<"apply">>
                                    /\ job[s].snapshot \in Views
         /\ AtStep(s, "apply") => job[s] \in RefreshJobs /\ job[s].snapshot \in Views
<1>1. Runs(job[s], made)
  BY DEF JobInv
<1>2. AtStep(s, "status") \/ AtStep(s, "stashes") \/ AtStep(s, "apply") => job[s] \in RefreshJobs
  <2>1. job[s] \in OpJobs /\ Plan(job[s].todo) => Head(job[s].todo) \in OpSteps
    BY PlanFacts
  <2> QED
    BY <1>1, <2>1, Successors DEF AtStep, Runs
<1>3. job[s] \in RefreshJobs => \/ job[s].todo = <<"status", "stashes", "apply">>
                                \/ job[s].todo = <<"stashes", "apply">>
                                \/ job[s].todo = <<"apply">>
  BY DEF RefreshJobs
<1>4. /\ AtStep(s, "status") => Rest(s) = <<"stashes", "apply">>
      /\ AtStep(s, "stashes") => Rest(s) = <<"apply">>
  <2>1. /\ Head(<<"status", "stashes", "apply">>) = "status" /\ Head(<<"stashes", "apply">>) = "stashes"
        /\ Head(<<"apply">>) = "apply"
    OBVIOUS
  <2>2. /\ Tail(<<"status", "stashes", "apply">>) = <<"stashes", "apply">>
        /\ Tail(<<"stashes", "apply">>) = <<"apply">>
    OBVIOUS
  <2>3. /\ AtStep(s, "status") => job[s].todo = <<"status", "stashes", "apply">>
        /\ AtStep(s, "stashes") => job[s].todo = <<"stashes", "apply">>
    BY <1>2, <1>3, <2>1, Zenon DEF AtStep
  <2> QED
    BY <2>2, <2>3, Zenon DEF Rest
<1>5. AtStep(s, "stashes") \/ AtStep(s, "apply") => job[s].snapshot \in Views
  BY <1>1, <1>2, Apart DEF Runs, AtStep
<1> QED
  BY <1>2, <1>4, <1>5, Zenon

\* An operation goes on.
GoesOn(s) ==
  /\ JobInv' /\ job'[s] \in OpJobs /\ Plan(job'[s].todo)
  /\ job'[s].kind = job[s].kind /\ job'[s].current = job[s].current
  /\ job'[s].alone = job[s].alone
  /\ \A t \in Slots \cup Refreshers : t # s => job'[t] = job[t]

LEMMA ContinueStep ==
  ASSUME JobInv, NEW s \in Slots, job[s] \in OpJobs, job[s].carried \subseteq made,
         NEW t, Plan(t), Continue(s, t), made' = made
  PROVE  /\ GoesOn(s) /\ job'[s].todo = t
         /\ job'[s].prev = job[s].prev /\ job'[s].at = job[s].at
<1> DEFINE n == [job[s] EXCEPT !.todo = t]
<1>1. /\ n \in OpJobs /\ n.todo = t /\ n.carried = job[s].carried /\ n.kind = job[s].kind
      /\ n.current = job[s].current /\ n.alone = job[s].alone /\ n.prev = job[s].prev /\ n.at = job[s].at
  BY DEF OpJobs, Plan
<1>2. job' = [job EXCEPT ![s] = n]
  BY DEF Continue, JobInv
<1> HIDE DEF n
<1>3. Runs(n, made')
  BY <1>1 DEF Runs
<1>4. /\ JobInv' /\ job'[s] = n
      /\ \A u \in Slots \cup Refreshers : u # s => job'[u] = job[u]
  BY <1>2, <1>3, JobChange
<1> QED
  BY <1>1, <1>4 DEF GoesOn

LEMMA FinishStep ==
  ASSUME JobInv, NEW s \in Slots, job[s] \in OpJobs, job[s].carried \subseteq made,
         NEW result \in Results, Finish(s, result), made' = made
  PROVE  GoesOn(s) /\ job'[s].todo = <<"done">>
<1> DEFINE n == [job[s] EXCEPT !.todo = <<"done">>, !.result = result]
<1>0. Plan(<<"done">>) /\ <<"done">> \in Seq(OpSteps)
  BY Plans DEF Plan
<1>1. /\ n \in OpJobs /\ n.todo = <<"done">> /\ n.carried = job[s].carried /\ n.kind = job[s].kind
      /\ n.current = job[s].current /\ n.alone = job[s].alone
  BY <1>0 DEF OpJobs
<1>2. job' = [job EXCEPT ![s] = n]
  BY DEF Finish, JobInv
<1> HIDE DEF n
<1>3. Runs(n, made')
  BY <1>0, <1>1 DEF Runs
<1>4. /\ JobInv' /\ job'[s] = n
      /\ \A u \in Slots \cup Refreshers : u # s => job'[u] = job[u]
  BY <1>2, <1>3, JobChange
<1> QED
  BY <1>0, <1>1, <1>4 DEF GoesOn

\* The steps that look something up in the stash.
LEMMA LookStep ==
  ASSUME JobInv, NEW s \in Slots, job[s] \in OpJobs, job[s].carried \subseteq made,
         NEW t, Plan(t), made' = made, NEW prev \in 0..MaxSha, NEW at \in 1..MaxSha,
         \/ job' = [job EXCEPT ![s].todo = t, ![s].prev = prev] /\ at = job[s].at
         \/ job' = [job EXCEPT ![s].todo = t, ![s].at = at] /\ prev = job[s].prev
  PROVE  GoesOn(s) /\ job'[s].todo = t /\ job'[s].prev = prev /\ job'[s].at = at
<1>1. CASE job' = [job EXCEPT ![s].todo = t, ![s].prev = prev] /\ at = job[s].at
  <2> DEFINE n == [job[s] EXCEPT !.todo = t, !.prev = prev]
  <2>1. /\ n \in OpJobs /\ n.todo = t /\ n.carried = job[s].carried /\ n.kind = job[s].kind
        /\ n.current = job[s].current /\ n.alone = job[s].alone /\ n.prev = prev /\ n.at = job[s].at
    BY DEF OpJobs, Plan
  <2>2. job' = [job EXCEPT ![s] = n]
    BY <1>1 DEF JobInv
  <2> HIDE DEF n
  <2>3. Runs(n, made')
    BY <2>1 DEF Runs
  <2>4. /\ JobInv' /\ job'[s] = n
        /\ \A u \in Slots \cup Refreshers : u # s => job'[u] = job[u]
    BY <2>2, <2>3, JobChange
  <2> QED
    BY <1>1, <2>1, <2>4 DEF GoesOn
<1>2. CASE job' = [job EXCEPT ![s].todo = t, ![s].at = at] /\ prev = job[s].prev
  <2> DEFINE n == [job[s] EXCEPT !.todo = t, !.at = at]
  <2>1. /\ n \in OpJobs /\ n.todo = t /\ n.carried = job[s].carried /\ n.kind = job[s].kind
        /\ n.current = job[s].current /\ n.alone = job[s].alone /\ n.prev = job[s].prev /\ n.at = at
    BY DEF OpJobs, Plan
  <2>2. job' = [job EXCEPT ![s] = n]
    BY <1>2 DEF JobInv
  <2> HIDE DEF n
  <2>3. Runs(n, made')
    BY <2>1 DEF Runs
  <2>4. /\ JobInv' /\ job'[s] = n
        /\ \A u \in Slots \cup Refreshers : u # s => job'[u] = job[u]
    BY <2>2, <2>3, JobChange
  <2> QED
    BY <1>2, <2>1, <2>4 DEF GoesOn
<1> QED
  BY <1>1, <1>2
-----------------------------------------------------------------------------
(* The stash.                                                              *)
LEMMA StashRemoved ==
  ASSUME StashInv, NEW n \in 1..Len(stash), stash' = RemoveAt(stash, n), made' = made,
         lastSha' = lastSha
  PROVE  StashInv'
<1>1. /\ stash \in Seq(Entries) /\ Len(stash) \in Nat /\ n \in Nat /\ DOMAIN stash = 1..Len(stash)
  BY DEF StashInv
<1>2. /\ stash' \in Seq(Entries) /\ Len(stash') = Len(stash) - 1
      /\ \A k \in 1..(Len(stash) - 1) : stash'[k] = stash[Beside(n, k)]
  BY <1>1, RemoveAtFacts
<1>3. /\ DOMAIN stash' = 1..(Len(stash) - 1)
      /\ \A k \in 1..(Len(stash) - 1) : Beside(n, k) \in 1..Len(stash)
      /\ \A i, k \in 1..(Len(stash) - 1) : Beside(n, i) = Beside(n, k) => i = k
  BY <1>1, <1>2 DEF Beside
<1>4. \A i \in DOMAIN stash' : stash'[i].sha <= lastSha /\ stash'[i].edits \subseteq made
  BY <1>1, <1>2, <1>3 DEF StashInv
<1>5. \A i, k \in DOMAIN stash' : stash'[i].sha = stash'[k].sha => i = k
  <2> TAKE i, k \in DOMAIN stash'
  <2>1. /\ stash'[i] = stash[Beside(n, i)] /\ stash'[k] = stash[Beside(n, k)]
        /\ Beside(n, i) \in DOMAIN stash /\ Beside(n, k) \in DOMAIN stash
    BY <1>1, <1>2, <1>3
  <2>2. stash'[i].sha = stash'[k].sha => Beside(n, i) = Beside(n, k)
    BY <2>1 DEF StashInv
  <2> QED
    BY <1>3, <2>2
<1>6. lastSha' \in 0..MaxSha /\ Len(stash') <= lastSha'
  BY <1>1, <1>2 DEF StashInv
<1> QED
  BY <1>2, <1>4, <1>5, <1>6 DEF StashInv

LEMMA StashPushed ==
  ASSUME StashInv, RestInv, NEW label \in Branches, lastSha < MaxSha, made' = made,
         lastSha' = lastSha + 1,
         stash' = <<[sha |-> lastSha + 1, label |-> label, edits |-> tree]>> \o stash
  PROVE  /\ StashInv' /\ stash' # <<>> /\ 1 \in DOMAIN stash'
         /\ stash'[1] = [sha |-> lastSha + 1, label |-> label, edits |-> tree]
         /\ \A i \in DOMAIN stash : i + 1 \in DOMAIN stash' /\ stash'[i + 1] = stash[i]
         /\ \A i \in DOMAIN stash' : i = 1 \/ (i - 1 \in DOMAIN stash /\ stash'[i] = stash[i - 1])
<1> DEFINE e == [sha |-> lastSha + 1, label |-> label, edits |-> tree]
<1>0. MaxSha \in Nat
  BY BoundAssumption
<1>1. /\ e \in Entries /\ e.sha = lastSha + 1 /\ e.edits \subseteq made /\ lastSha \in Nat
      /\ lastSha + 1 \in 0..MaxSha
  BY <1>0 DEF Entries, StashInv, RestInv
<1>2. stash' = <<e>> \o stash
  OBVIOUS
<1> HIDE DEF e
<1>3. stash \in Seq(Entries) /\ DOMAIN stash = 1..Len(stash) /\ Len(stash) \in Nat
  BY DEF StashInv
<1>4. stash' \in Seq(Entries) /\ Len(stash') = Len(stash) + 1 /\ DOMAIN stash' = 1..(Len(stash) + 1)
  BY <1>1, <1>2, <1>3
<1>5. stash'[1] = e /\ \A i \in 1..Len(stash) : stash'[i + 1] = stash[i]
  BY <1>1, <1>2, <1>3
<1>6. \A i \in DOMAIN stash' : i = 1 \/ (i - 1 \in 1..Len(stash) /\ (i - 1) + 1 = i)
  BY <1>3, <1>4
<1>7. \A i \in DOMAIN stash' : i = 1 \/ (i - 1 \in DOMAIN stash /\ stash'[i] = stash[i - 1])
  BY <1>3, <1>5, <1>6
<1>8. \A i \in DOMAIN stash' : stash'[i].sha <= lastSha' /\ stash'[i].edits \subseteq made
  <2> TAKE i \in DOMAIN stash'
  <2>1. CASE i = 1
    BY <2>1, <1>1, <1>5
  <2>2. CASE i - 1 \in DOMAIN stash /\ stash'[i] = stash[i - 1]
    <3>1. stash[i - 1].sha <= lastSha /\ stash[i - 1].edits \subseteq made /\ stash[i - 1] \in Entries
      BY <2>2, <1>3 DEF StashInv
    <3>2. \A x \in 1..MaxSha : x <= lastSha => x <= lastSha + 1
      BY <1>0, <1>1
    <3> QED
      BY <2>2, <3>1, <3>2 DEF Entries
  <2> QED
    BY <1>7, <2>1, <2>2
<1>9. \A i \in DOMAIN stash : stash[i].sha # lastSha + 1
  <2> TAKE i \in DOMAIN stash
  <2>1. stash[i].sha <= lastSha /\ stash[i] \in Entries
    BY <1>3 DEF StashInv
  <2>2. \A x \in 1..MaxSha : x <= lastSha => x # lastSha + 1
    BY <1>0, <1>1
  <2> QED
    BY <2>1, <2>2 DEF Entries
<1>10. \A i, k \in DOMAIN stash' : stash'[i].sha = stash'[k].sha => i = k
  <2> TAKE i, k \in DOMAIN stash'
  <2>1. CASE i = 1 /\ k = 1
    BY <2>1
  <2>2. CASE i - 1 \in DOMAIN stash /\ stash'[i] = stash[i - 1] /\ k = 1
    BY <2>2, <1>1, <1>5, <1>9
  <2>3. CASE k - 1 \in DOMAIN stash /\ stash'[k] = stash[k - 1] /\ i = 1
    BY <2>3, <1>1, <1>5, <1>9
  <2>4. CASE /\ i - 1 \in DOMAIN stash /\ stash'[i] = stash[i - 1]
             /\ k - 1 \in DOMAIN stash /\ stash'[k] = stash[k - 1]
    <3>1. stash[i - 1].sha = stash[k - 1].sha => i - 1 = k - 1
      BY <2>4 DEF StashInv
    <3> QED
      BY <2>4, <3>1, <1>3, <1>4
  <2> QED
    BY <1>7, <2>1, <2>2, <2>3, <2>4
<1>11. StashInv'
  <2>1. Len(stash) <= lastSha
    BY DEF StashInv
  <2>2. lastSha' \in 0..MaxSha /\ Len(stash') <= lastSha'
    BY <1>1, <1>3, <1>4, <2>1
  <2>3. \A i \in DOMAIN stash' : stash'[i].sha <= lastSha' /\ stash'[i].edits \subseteq made'
    BY <1>8
  <2> QED
    BY <1>4, <1>10, <2>2, <2>3 DEF StashInv
<1>12. /\ stash' # <<>> /\ 1 \in DOMAIN stash'
       /\ \A i \in DOMAIN stash : i + 1 \in DOMAIN stash' /\ stash'[i + 1] = stash[i]
  BY <1>3, <1>4, <1>5
<1>13. stash'[1] = [sha |-> lastSha + 1, label |-> label, edits |-> tree]
  BY <1>5 DEF e
<1> QED
  BY <1>7, <1>11, <1>12, <1>13
-----------------------------------------------------------------------------
(* Where operations begin.                                                 *)

\* Nothing has to be known of the stash to begin here.
Ready(j) ==
  \/ Head(j.todo) \in {"try", "list", "checkout", "lookup", "pop", "done"}
  \/ Head(j.todo) = "push" /\ j.todo[2] = "done"
  \/ Head(j.todo) = "drop" /\ j.kind = "discard"

\* Slot s begins something, or ends what it did: an operation that begins beside
\* others is not alone, nor are they.
Begins(s) ==
  /\ JobInv'
  /\ job'[s] \in OpJobs => Ready(job'[s])
  /\ \A t \in Slots \cup Refreshers : t # s =>
       \/ job'[t] = job[t]
       \/ job[t] \in OpJobs /\ job'[t] \in OpJobs /\ ~ job'[t].alone
  /\ job'[s] \in OpJobs =>
       \A t \in Slots : t # s /\ job'[t] \in OpJobs => ~ job'[t].alone /\ ~ job'[s].alone

LEMMA BeginsSafe ==
  ASSUME SafeInv, NEW s \in Slots \cup Refreshers, Begins(s), stash' = stash
  PROVE  SafeInv'
<1>1. ASSUME NEW r \in Slots, NEW t \in Slots, job'[r] \in OpJobs, job'[r].alone, job'[t] \in OpJobs
      PROVE  r = t
  <2>1. CASE r = s
    BY <1>1, <2>1 DEF Begins
  <2>2. CASE t = s
    BY <1>1, <2>2 DEF Begins
  <2>3. CASE r # s /\ t # s
    <3>1. job'[r] = job[r] /\ job[t] \in OpJobs
      BY <1>1, <2>3 DEF Begins
    <3> QED
      BY <1>1, <3>1 DEF SafeInv, AloneInv
  <2> QED
    BY <2>1, <2>2, <2>3
<1>2. AloneInv'
  BY <1>1 DEF AloneInv
<1>3. ASSUME NEW t \in Slots, job'[t] \in OpJobs, job'[t].alone PROVE Knows(job[t])'
  <2>1. CASE t = s
    BY <1>3, <2>1 DEF Begins, Ready, Knows
  <2>2. CASE t # s
    <3>1. job'[t] = job[t]
      BY <1>3, <2>2 DEF Begins
    <3> QED
      BY <1>3, <3>1 DEF SafeInv, KnowsInv, Knows
  <2> QED
    BY <2>1, <2>2
<1> QED
  BY <1>2, <1>3 DEF SafeInv, KnowsInv

LEMMA StartStep ==
  ASSUME JobInv, RestInv, NEW s \in Slots, NEW kind \in Kinds \ {"refresh"}, NEW todo, Plan(todo),
         NEW target \in Branches, kind = "discard" => shown.stash # <<>>,
         Start(s, kind, todo, target), made' = made,
         \/ todo[1] \in {"try", "list", "checkout", "pop", "done"}
         \/ todo[1] = "push" /\ todo[2] = "done"
         \/ todo[1] = "drop" /\ kind = "discard"
  PROVE  Begins(s)
<1> DEFINE n == NewJob(s, kind, todo, target)
<1>1. shown.head \in Branches /\ shown.stash \in Seq(Entries)
  BY DEF RestInv, Views
<1>2. 0 \in 0..MaxSha /\ 1 \in 1..MaxSha /\ 1..MaxSha \subseteq 0..MaxSha
  BY BoundAssumption
<1>3. kind = "discard" => Head(shown.stash).sha \in 0..MaxSha
  <2>1. kind = "discard" => Head(shown.stash) \in Entries
    BY <1>1
  <2> QED
    BY <2>1, <1>2 DEF Entries
<1>4. tree \subseteq made /\ made \subseteq Edits /\ todo \in Seq(OpSteps)
  BY DEF RestInv, Plan
<1>5. (IF kind = "bring" THEN tree ELSE {}) \subseteq made
      /\ (IF kind = "discard" THEN Head(shown.stash).sha ELSE 0) \in 0..MaxSha
  BY <1>2, <1>3, <1>4
<1> DEFINE lone == NothingElseWorks(s)
<1>6. lone \in BOOLEAN
  BY DEF NothingElseWorks
<1>7. /\ n \in OpJobs /\ n.todo = todo /\ n.kind = kind /\ n.carried \subseteq made
      /\ n.alone = lone
  <2> HIDE DEF lone
  <2>1. n = [kind |-> kind, todo |-> todo, target |-> target, result |-> "ok",
             current |-> shown.head, prev |-> 0, at |-> 1, alone |-> lone,
             carried |-> IF kind = "bring" THEN tree ELSE {},
             meant |-> IF kind = "discard" THEN Head(shown.stash).sha ELSE 0]
    BY DEF NewJob, lone
  <2> HIDE DEF n
  <2> QED
    BY <1>1, <1>2, <1>4, <1>5, <1>6, <2>1 DEF OpJobs, Results
<1>8. /\ job' = [t \in Slots \cup Refreshers |-> job'[t]] /\ job'[s] = n
      /\ \A t \in Slots \cup Refreshers : t # s =>
           job'[t] = IF Works(job[t]) THEN [job[t] EXCEPT !.alone = FALSE] ELSE job[t]
  BY DEF Start, JobInv
<1> HIDE DEF n
<1>9. Runs(n, made')
  BY <1>7 DEF Runs
<1>10. \A t \in Slots \cup Refreshers : job[t] \in OpJobs <=> Works(job[t])
  <2> TAKE t \in Slots \cup Refreshers
  <2>1. Runs(job[t], made)
    BY DEF JobInv
  <2> QED
    BY <2>1 DEF Runs, Works, OpJobs, RefreshJobs, Idle, Kinds
<1>11. ASSUME NEW t \in Slots \cup Refreshers, t # s
       PROVE  /\ Runs(job'[t], made')
              /\ \/ job'[t] = job[t] /\ job[t] \notin OpJobs
                 \/ job[t] \in OpJobs /\ job'[t] \in OpJobs /\ ~ job'[t].alone
  <2>1. CASE ~ Works(job[t])
    BY <1>8, <1>10, <1>11, <2>1 DEF JobInv, Runs
  <2>2. CASE Works(job[t])
    <3> DEFINE m == [job[t] EXCEPT !.alone = FALSE]
    <3>1. job[t] \in OpJobs /\ job'[t] = m
      BY <1>8, <1>10, <1>11, <2>2
    <3>2. /\ m \in OpJobs /\ m.todo = job[t].todo /\ m.carried = job[t].carried
          /\ m.alone = FALSE
      BY <3>1 DEF OpJobs
    <3>3. Plan(job[t].todo) /\ job[t].carried \subseteq made
      BY <3>1, Apart DEF JobInv, Runs
    <3> HIDE DEF m
    <3> QED
      BY <3>1, <3>2, <3>3 DEF Runs
  <2> QED
    BY <2>1, <2>2
<1>12. JobInv'
  <2>1. \A t \in Slots \cup Refreshers : Runs(job'[t], made')
    BY <1>8, <1>9, <1>11
  <2>2. \A t \in Slots \cup Refreshers : job'[t] \in OpJobs => t \in Slots
    <3> SUFFICES ASSUME NEW t \in Slots \cup Refreshers, job'[t] \in OpJobs PROVE t \in Slots
      OBVIOUS
    <3>1. t = s \/ job[t] \in OpJobs
      BY <1>11
    <3> QED
      BY <3>1 DEF JobInv
  <2> QED
    BY <1>8, <2>1, <2>2 DEF JobInv
<1>13. ASSUME NEW t \in Slots, t # s, job'[t] \in OpJobs
       PROVE  ~ job'[t].alone /\ ~ n.alone
  <2>1. job[t] \in OpJobs /\ ~ job'[t].alone
    BY <1>11, <1>13
  <2>2. Works(job[t])
    BY <1>10, <2>1
  <2>3. ~ lone
    BY <1>13, <2>2 DEF NothingElseWorks
  <2> QED
    BY <1>7, <2>1, <2>3
<1>14. Head(todo) = todo[1]
  BY PlanFacts
<1>15. Ready(n)
  BY <1>7, <1>14 DEF Ready
<1> QED
  BY <1>8, <1>11, <1>12, <1>13, <1>15 DEF Begins

LEMMA RestStep ==
  ASSUME JobInv, NEW s \in Slots \cup Refreshers, made' = made, StartRefresh(s) \/ NoJob(s)
  PROVE  Begins(s)
<1>1. RefreshJob \in RefreshJobs /\ Head(RefreshJob.todo) = "status"
  <2>1. Head(<<"status", "stashes", "apply">>) = "status"
    OBVIOUS
  <2> QED
    BY <2>1 DEF RefreshJob, RefreshJobs
<1>2. PICK n : n \in {RefreshJob, Idle} /\ job' = [job EXCEPT ![s] = n]
  BY DEF StartRefresh, NoJob
<1>3. Runs(n, made') /\ n \notin OpJobs
  BY <1>1, <1>2, Apart DEF Runs
<1>4. /\ JobInv' /\ job'[s] = n
      /\ \A t \in Slots \cup Refreshers : t # s => job'[t] = job[t]
  BY <1>2, <1>3, JobChange
<1> QED
  BY <1>3, <1>4 DEF Begins

LEMMA PopupFacts ==
  ASSUME NEW b \in Branches, NEW has \in BOOLEAN
  PROVE  /\ [type |-> "overwriteStash", target |-> b] \in Popups
         /\ [type |-> "switch", target |-> b, hasStash |-> has] \in Popups
         /\ [type |-> "localChanges", target |-> b, hasStash |-> has] \in Popups
BY DEF Popups

LEMMA PlanHeads ==
  /\ (<<"try">> \o StashAndDropPrevious \o <<"checkout", "lookup", "pop", "done">>)[1] = "try"
  /\ (StashAndDropPrevious \o <<"checkout", "done">>)[1] = "list"
  /\ (StashAndDropPrevious \o <<"done">>)[1] = "list"
  /\ (<<>> \o <<"checkout", "done">>)[1] = "checkout"
BY DEF StashAndDropPrevious

LEMMA BringStep ==
  ASSUME JobInv, RestInv, NEW s \in Slots, NEW b \in Branches, made' = made
  PROVE  /\ StartBring(s, b) => Begins(s)
         /\ StartStashCheckout(s, b) => Begins(s)
<1>1. "bring" \in Kinds \ {"refresh"} /\ "stashCheckout" \in Kinds \ {"refresh"}
  BY DEF Kinds
<1>2. ASSUME StartBring(s, b) PROVE Begins(s)
  <2> DEFINE t == <<"try">> \o StashAndDropPrevious \o <<"checkout", "lookup", "pop", "done">>
  <2>1. Plan(t) /\ t[1] = "try" /\ Start(s, "bring", t, b)
    BY <1>2, Plans, PlanHeads DEF StartBring
  <2> HIDE DEF t
  <2> QED
    BY <1>1, <2>1, StartStep
<1>3. ASSUME StartStashCheckout(s, b) PROVE Begins(s)
  <2> DEFINE t == StashAndDropPrevious \o <<"checkout", "done">>
  <2>1. Plan(t) /\ t[1] = "list" /\ Start(s, "stashCheckout", t, b)
    BY <1>3, Plans, PlanHeads DEF StartStashCheckout
  <2> HIDE DEF t
  <2> QED
    BY <1>1, <2>1, StartStep
<1> QED
  BY <1>2, <1>3

LEMMA CheckoutStep ==
  ASSUME JobInv, RestInv, NEW s \in Slots, NEW b \in Branches, Checkout(s, b), made' = made
  PROVE  Begins(s) /\ popups' \subseteq Popups
<1>0. PICK strategy \in Strategies, protected \in BOOLEAN : CheckoutBy(s, b, strategy, protected)
  BY DEF Checkout
<1> DEFINE leave == shown.dirty /\ strategy = "stash"
           has == ShownStashFor(shown.head)
           t == (IF leave THEN StashAndDropPrevious ELSE <<>>) \o <<"checkout", "done">>
<1>1. popups \subseteq Popups /\ has \in BOOLEAN
  BY DEF RestInv, ShownStashFor
<1>2. CASE NoJob(s) /\ popups' = popups \cup {[type |-> "overwriteStash", target |-> b]}
  BY <1>1, <1>2, RestStep, PopupFacts
<1>3. CASE NoJob(s) /\ popups' = popups \cup {[type |-> "switch", target |-> b, hasStash |-> has]}
  <2> HIDE DEF has
  <2>1. Begins(s)
    BY <1>3, RestStep
  <2>2. [type |-> "switch", target |-> b, hasStash |-> has] \in Popups
    BY <1>1, PopupFacts
  <2> QED
    BY <1>1, <1>3, <2>1, <2>2
<1>4. CASE StartBring(s, b) /\ UNCHANGED popups
  BY <1>1, <1>4, BringStep
<1>5. CASE Start(s, "checkout", t, b) /\ UNCHANGED popups
  <2>1. Plan(t) /\ t[1] \in {"list", "checkout"}
    BY Plans, PlanHeads
  <2>2. "checkout" \in Kinds \ {"refresh"}
    BY DEF Kinds
  <2> HIDE DEF t
  <2> QED
    BY <1>1, <1>5, <2>1, <2>2, StartStep
<1> QED
  BY <1>0, <1>2, <1>3, <1>4, <1>5 DEF CheckoutBy, Present
-----------------------------------------------------------------------------
(* The user.                                                               *)
LEMMA StashUnchanged ==
  ASSUME StashInv, stash' = stash, lastSha' = lastSha, made \subseteq made'
  PROVE  StashInv'
<1>1. /\ stash' \in Seq(Entries) /\ lastSha' \in 0..MaxSha /\ Len(stash') <= lastSha'
      /\ \A i, k \in DOMAIN stash' : stash'[i].sha = stash'[k].sha => i = k
  BY DEF StashInv
<1>2. \A i \in DOMAIN stash' : stash'[i].sha <= lastSha' /\ stash'[i].edits \subseteq made'
  BY DEF StashInv
<1> QED
  BY <1>1, <1>2 DEF StashInv

LEMMA UserStep ==
  ASSUME IInv, User
  PROVE  IInv' /\ (SafeInv => SafeInv')
<1>0. JobInv /\ StashInv /\ RestInv
  BY DEF IInv
<1>1. ASSUME NEW e \in Edits, Edit(e)
      PROVE  IInv' /\ (SafeInv => SafeInv')
  <2>1. made \subseteq made' /\ UNCHANGED <<stash, lastSha, job>>
    BY <1>1 DEF Edit
  <2>2. \A t \in Slots \cup Refreshers : Runs(job[t], made) => Runs(job[t], made')
    BY <2>1 DEF Runs
  <2>3. JobInv'
    BY <1>0, <2>1, <2>2 DEF JobInv
  <2>4. StashInv'
    BY <1>0, <2>1, StashUnchanged
  <2>5. RestInv'
    BY <1>0, <1>1 DEF Edit, RestInv
  <2>6. SafeInv => SafeInv'
    BY <2>1 DEF SafeInv, AloneInv, KnowsInv, Knows
  <2> QED
    BY <2>3, <2>4, <2>5, <2>6 DEF IInv
<1>2. ASSUME NEW p \in popups, ClosePopup(p)
      PROVE  IInv' /\ (SafeInv => SafeInv')
  <2>1. UNCHANGED <<git, made, shown, job>> /\ popups' \subseteq popups
    BY <1>2 DEF ClosePopup
  <2>2. JobInv'
    BY <1>0, <2>1 DEF JobInv
  <2>3. StashInv'
    BY <1>0, <2>1, StashUnchanged DEF git
  <2>4. RestInv'
    BY <1>0, <2>1 DEF RestInv, git
  <2>5. SafeInv => SafeInv'
    BY <2>1 DEF SafeInv, AloneInv, KnowsInv, Knows, git
  <2> QED
    BY <2>2, <2>3, <2>4, <2>5 DEF IInv
<1>3. ASSUME NEW s \in Slots \cup Refreshers, Begins(s), popups' \subseteq Popups,
             UNCHANGED <<git, made, shown>>
      PROVE  IInv' /\ (SafeInv => SafeInv')
  <2>1. JobInv' /\ (SafeInv => SafeInv')
    BY <1>3, BeginsSafe DEF Begins, git
  <2>2. StashInv'
    BY <1>0, <1>3, StashUnchanged DEF git
  <2>3. RestInv'
    BY <1>0, <1>3 DEF RestInv, git
  <2> QED
    BY <2>1, <2>2, <2>3 DEF IInv
<1>4. popups \subseteq Popups /\ shown.head \in Branches
  BY <1>0 DEF RestInv, Views
<1>5. \A p \in popups : p.target \in Branches
  BY <1>4 DEF Popups
<1>6. ASSUME NEW s \in Slots, NEW b \in Branches, UserChecksOut(s, b)
      PROVE  Begins(s) /\ popups' \subseteq Popups /\ UNCHANGED <<git, made, shown>>
  BY <1>0, <1>6, CheckoutStep DEF UserChecksOut
<1>7. ASSUME NEW s \in Slots, NEW p \in popups, AnswerSwitch(s, p)
      PROVE  Begins(s) /\ popups' \subseteq Popups /\ UNCHANGED <<git, made, shown>>
  <2>1. [type |-> "overwriteStash", target |-> p.target] \in Popups
    BY <1>5, PopupFacts
  <2>2. made' = made /\ UNCHANGED <<git, made, shown>>
    BY <1>7 DEF AnswerSwitch
  <2>3. CASE NoJob(s) /\ popups' = (popups \ {p}) \cup {[type |-> "overwriteStash", target |-> p.target]}
    BY <1>0, <1>4, <2>1, <2>2, <2>3, RestStep
  <2>4. CASE popups' = popups \ {p} /\ (StartStashCheckout(s, p.target) \/ StartBring(s, p.target))
    BY <1>0, <1>4, <1>5, <2>2, <2>4, BringStep
  <2> QED
    BY <1>7, <2>3, <2>4 DEF AnswerSwitch
<1>8. ASSUME NEW s \in Slots, NEW p \in popups, AnswerOverwrite(s, p)
      PROVE  Begins(s) /\ popups' \subseteq Popups /\ UNCHANGED <<git, made, shown>>
  BY <1>0, <1>4, <1>5, <1>8, BringStep DEF AnswerOverwrite
<1>9. ASSUME NEW s \in Slots, NEW p \in popups, AnswerRetry(s, p)
      PROVE  Begins(s) /\ popups' \subseteq Popups /\ UNCHANGED <<git, made, shown>>
  <2> DEFINE t == <<"push", "done">>
  <2>1. Plan(t) /\ t[1] = "push" /\ t[2] = "done" /\ Start(s, "stashRetry", t, p.target)
    BY <1>9, Plans DEF AnswerRetry
  <2> HIDE DEF t
  <2>2. "stashRetry" \in Kinds \ {"refresh"} /\ "stashRetry" # "discard"
    BY DEF Kinds
  <2>3. made' = made /\ popups' \subseteq popups /\ UNCHANGED <<git, made, shown>>
    BY <1>9 DEF AnswerRetry
  <2> QED
    BY <1>0, <1>4, <1>5, <2>1, <2>2, <2>3, StartStep
<1>10. ASSUME NEW s \in Slots, StashAll(s)
       PROVE  Begins(s) /\ popups' \subseteq Popups /\ UNCHANGED <<git, made, shown>>
  <2> DEFINE t == StashAndDropPrevious \o <<"done">>
  <2>1. Plan(t) /\ t[1] = "list" /\ Start(s, "stashAll", t, shown.head)
    BY <1>10, Plans, PlanHeads DEF StashAll
  <2> HIDE DEF t
  <2>2. "stashAll" \in Kinds \ {"refresh"} /\ "stashAll" # "discard"
    BY DEF Kinds
  <2>3. popups' = popups /\ UNCHANGED <<git, made, shown>>
    BY <1>10 DEF StashAll
  <2> QED
    BY <1>0, <1>4, <2>1, <2>2, <2>3, StartStep
<1>11. ASSUME NEW s \in Slots, RestoreOrDiscard(s)
       PROVE  Begins(s) /\ popups' \subseteq Popups /\ UNCHANGED <<git, made, shown>>
  <2>1. /\ {"restore", "discard"} \subseteq Kinds \ {"refresh"} /\ "restore" # "discard"
        /\ shown.stash # <<>> /\ popups' = popups /\ UNCHANGED <<git, made, shown>>
    BY <1>11 DEF RestoreOrDiscard, Kinds
  <2>2. CASE Start(s, "restore", <<"pop", "done">>, shown.head)
    <3> DEFINE t == <<"pop", "done">>
    <3>1. Plan(t) /\ t[1] = "pop" /\ Start(s, "restore", t, shown.head)
      BY <2>2, Plans
    <3> HIDE DEF t
    <3> QED
      BY <1>0, <1>4, <2>1, <3>1, StartStep
  <2>3. CASE Start(s, "discard", <<"drop", "done">>, shown.head)
    <3> DEFINE t == <<"drop", "done">>
    <3>1. Plan(t) /\ t[1] = "drop" /\ Start(s, "discard", t, shown.head)
      BY <2>3, Plans
    <3> HIDE DEF t
    <3> QED
      BY <1>0, <1>4, <2>1, <3>1, StartStep
  <2> QED
    BY <1>11, <2>2, <2>3 DEF RestoreOrDiscard
<1>12. ASSUME NEW s \in Slots \cup Refreshers, Refresh(s)
       PROVE  Begins(s) /\ popups' \subseteq Popups /\ UNCHANGED <<git, made, shown>>
  BY <1>0, <1>4, <1>12, RestStep DEF Refresh
<1> QED
  BY <1>1, <1>2, <1>3, <1>6, <1>7, <1>8, <1>9, <1>10, <1>11, <1>12 DEF User
-----------------------------------------------------------------------------
(* The worker.                                                             *)
\* An operation that is alone and goes on knows again what it has to: the other
\* operations are where they were, and none is alone.
LEMMA OnlyKnows ==
  ASSUME NEW s \in Slots, SafeInv, job[s] \in OpJobs, GoesOn(s),
         job[s].alone => Knows(job[s])'
  PROVE  SafeInv'
<1>1. \A t \in Slots : t # s => job'[t] = job[t]
  BY DEF GoesOn
<1>2. AloneInv'
  BY <1>1 DEF SafeInv, AloneInv, GoesOn
<1>3. ASSUME NEW t \in Slots, job'[t] \in OpJobs, job'[t].alone PROVE Knows(job[t])'
  <2>1. CASE t = s
    BY <1>3, <2>1 DEF GoesOn
  <2>2. CASE t # s
    BY <1>1, <1>3, <2>2 DEF SafeInv, AloneInv
  <2> QED
    BY <2>1, <2>2
<1> QED
  BY <1>2, <1>3 DEF SafeInv, KnowsInv

LEMMA OnlyReady ==
  ASSUME NEW s \in Slots, SafeInv, job[s] \in OpJobs, GoesOn(s), Ready(job'[s])
  PROVE  SafeInv'
<1>1. Knows(job[s])'
  BY DEF Ready, Knows
<1> QED
  BY <1>1, OnlyKnows

\* A step of an operation: the step it is at, and what is left after it.
LEMMA AtOpRest ==
  ASSUME JobInv, NEW s \in Slots \cup Refreshers, NEW step \in OpSteps, AtStep(s, step)
  PROVE  /\ s \in Slots /\ job[s] \in OpJobs /\ Plan(job[s].todo) /\ job[s].carried \subseteq made
         /\ Head(job[s].todo) = step /\ job[s].todo[1] = step
         /\ step # "done" => /\ Plan(Rest(s)) /\ Head(Rest(s)) \in After[step]
                             /\ Head(Rest(s)) = job[s].todo[2]
BY AtOp, PlanFacts DEF AtStep, Rest

LEMMA GitCheckoutStep ==
  ASSUME IInv, NEW s \in Slots \cup Refreshers, GitCheckout(s)
  PROVE  IInv' /\ (SafeInv => SafeInv')
<1>0. JobInv /\ StashInv /\ RestInv
  BY DEF IInv
<1>1. UNCHANGED <<tree, stash, lastSha, made, shown, popups>>
  BY DEF GitCheckout
<1>2. /\ s \in Slots /\ job[s] \in OpJobs /\ job[s].carried \subseteq made
      /\ Plan(Rest(s)) /\ Head(Rest(s)) \in {"list", "lookup", "done"}
  <2>1. CASE AtStep(s, "try")
    BY <1>0, <2>1, AtOpRest, Successors
  <2>2. CASE AtStep(s, "checkout")
    BY <1>0, <2>2, AtOpRest, Successors
  <2> QED
    BY <2>1, <2>2 DEF GitCheckout
<1>3. \/ Continue(s, Rest(s))
      \/ \E result \in Results : Finish(s, result)
  BY DEF GitCheckout, Results
<1>4. GoesOn(s) /\ Ready(job'[s])
  <2>1. CASE Continue(s, Rest(s))
    <3>1. GoesOn(s) /\ job'[s].todo = Rest(s)
      BY <1>0, <1>1, <1>2, <2>1, ContinueStep
    <3> QED
      BY <1>2, <3>1 DEF GoesOn, Ready
  <2>2. CASE \E result \in Results : Finish(s, result)
    <3>1. GoesOn(s) /\ job'[s].todo = <<"done">>
      BY <1>0, <1>1, <1>2, <2>2, FinishStep
    <3> QED
      BY <3>1 DEF GoesOn, Ready
  <2> QED
    BY <1>3, <2>1, <2>2
<1>5. StashInv'
  BY <1>0, <1>1, StashUnchanged
<1>6. head' \in Branches
  <2>1. job[s].target \in Branches
    BY <1>2 DEF OpJobs
  <2> QED
    BY <1>0, <2>1 DEF GitCheckout, RestInv
<1>7. RestInv'
  BY <1>0, <1>1, <1>6 DEF RestInv
<1> QED
  BY <1>2, <1>4, <1>5, <1>7, OnlyReady DEF IInv, GoesOn

\* Steps that leave git alone.
LEMMA GitUnchanged ==
  ASSUME StashInv, RestInv, UNCHANGED <<git, made, shown, popups>>
  PROVE  StashInv' /\ RestInv'
<1>1. StashInv'
  BY StashUnchanged DEF git
<1>2. RestInv'
  BY DEF RestInv, git
<1> QED
  BY <1>1, <1>2

LEMMA GitListStep ==
  ASSUME IInv, NEW s \in Slots \cup Refreshers, GitList(s)
  PROVE  IInv' /\ (SafeInv => SafeInv')
<1>0. JobInv /\ StashInv /\ RestInv /\ stash \in Seq(Entries)
  BY DEF IInv, StashInv
<1>1. UNCHANGED <<git, made, shown, popups>> /\ AtStep(s, "list")
  BY DEF GitList
<1>2. /\ s \in Slots /\ job[s] \in OpJobs /\ job[s].carried \subseteq made
      /\ Plan(Rest(s)) /\ Head(Rest(s)) = "push"
  BY <1>0, <1>1, AtOpRest, Successors
<1> DEFINE i == IndexFor(stash, job[s].current)
           p == IF i = 0 THEN 0 ELSE stash[i].sha
           t == Rest(s)
<1>10. Plan(t) /\ Head(t) = "push"
  BY <1>2
<1>3. job' = [job EXCEPT ![s].todo = t, ![s].prev = p]
  BY DEF GitList
<1>4. \/ p = 0
      \/ i \in DOMAIN stash /\ stash[i].sha = p /\ stash[i].label = job[s].current /\ stash[i] \in Entries
  <2>1. \/ i = 0
        \/ i \in 1..Len(stash) /\ stash[i].label = job[s].current
    BY <1>0, IndexForFacts
  <2>2. \A k \in 1..Len(stash) : k # 0 /\ stash[k] \in Entries /\ k \in DOMAIN stash
    BY <1>0
  <2> QED
    BY <2>1, <2>2
<1>5. p \in 0..MaxSha
  <2>1. 0 \in 0..MaxSha /\ 1..MaxSha \subseteq 0..MaxSha
    BY BoundAssumption
  <2> QED
    BY <1>4, <2>1 DEF Entries
<1> HIDE DEF p, i, t
<1> DEFINE n == job[s].at
<1>6. n \in 1..MaxSha /\ n = job[s].at
  BY <1>2 DEF OpJobs
<1> HIDE DEF n
<1>7. GoesOn(s) /\ job'[s].todo = t /\ job'[s].prev = p
  <2>1. made' = made
    BY <1>1
  <2>2. \/ job' = [job EXCEPT ![s].todo = t, ![s].prev = p] /\ n = job[s].at
        \/ job' = [job EXCEPT ![s].todo = t, ![s].at = n] /\ p = job[s].prev
    BY <1>3, <1>6
  <2>3. /\ JobInv /\ s \in Slots /\ job[s] \in OpJobs /\ job[s].carried \subseteq made /\ Plan(t)
        /\ p \in 0..MaxSha /\ n \in 1..MaxSha
    BY <1>0, <1>2, <1>5, <1>6, <1>10
  <2> QED
    BY <2>1, <2>2, <2>3, LookStep
<1>8. Knows(job[s])'
  <2>1. Head(job'[s].todo) = "push" /\ job'[s].current = job[s].current /\ stash' = stash
    BY <1>1, <1>10, <1>7 DEF GoesOn, git
  <2>2. p # 0 => \E k \in DOMAIN stash : stash[k].sha = p /\ stash[k].label = job[s].current
    BY <1>4
  <2> QED
    BY <1>7, <2>1, <2>2 DEF Knows
<1>9. SafeInv => SafeInv'
  BY <1>2, <1>7, <1>8, OnlyKnows
<1> QED
  BY <1>0, <1>1, <1>7, <1>9, GitUnchanged DEF IInv, GoesOn

LEMMA GitLookupStep ==
  ASSUME IInv, NEW s \in Slots \cup Refreshers, GitLookup(s)
  PROVE  IInv' /\ (SafeInv => SafeInv')
<1>0. JobInv /\ StashInv /\ RestInv /\ stash \in Seq(Entries) /\ Len(stash) <= MaxSha
  BY BoundAssumption DEF IInv, StashInv
<1>1. UNCHANGED <<git, made, shown, popups>> /\ AtStep(s, "lookup")
  BY DEF GitLookup
<1>2. /\ s \in Slots /\ job[s] \in OpJobs /\ job[s].carried \subseteq made
      /\ Plan(Rest(s)) /\ Head(Rest(s)) = "pop"
  BY <1>0, <1>1, AtOpRest, Successors
<1>3. Plan(Tail(Rest(s))) /\ Head(Tail(Rest(s))) = "done"
  BY <1>2, PlanFacts, Successors
<1> DEFINE i == IndexFor(stash, job[s].target)
           t == IF i = 0 THEN Tail(Rest(s)) ELSE Rest(s)
           n == IF i = 0 THEN job[s].at ELSE i
<1>4. job' = [job EXCEPT ![s].todo = t, ![s].at = n]
  BY <1>2 DEF GitLookup, JobInv, OpJobs
<1>5. Plan(t) /\ Head(t) \in {"pop", "done"}
  BY <1>2, <1>3
<1>6. n \in 1..MaxSha
  <2>1. i = 0 \/ i \in 1..Len(stash)
    BY <1>0, IndexForFacts
  <2>2. \A k \in 1..Len(stash) : k \in 1..MaxSha
    BY <1>0, BoundAssumption
  <2>3. job[s].at \in 1..MaxSha
    BY <1>2 DEF OpJobs
  <2> QED
    BY <2>1, <2>2, <2>3
<1> HIDE DEF t, n, i
<1>7. job[s].prev \in 0..MaxSha
  BY <1>2 DEF OpJobs
<1>8. GoesOn(s) /\ job'[s].todo = t
  BY <1>0, <1>1, <1>2, <1>4, <1>5, <1>6, <1>7, LookStep
<1>9. SafeInv => SafeInv'
  BY <1>2, <1>5, <1>8, OnlyReady DEF Ready
<1> QED
  BY <1>0, <1>1, <1>8, <1>9, GitUnchanged DEF IInv, GoesOn

LEMMA GitStashPushStep ==
  ASSUME IInv, NEW s \in Slots \cup Refreshers, GitStashPush(s)
  PROVE  IInv' /\ (SafeInv => SafeInv')
<1>0. JobInv /\ StashInv /\ RestInv /\ stash \in Seq(Entries)
  BY DEF IInv, StashInv
<1>1. UNCHANGED <<head, made, shown, popups>> /\ AtStep(s, "push")
  BY DEF GitStashPush
<1>2. /\ s \in Slots /\ job[s] \in OpJobs /\ job[s].carried \subseteq made
      /\ Plan(job[s].todo) /\ Head(job[s].todo) = "push"
      /\ Plan(Rest(s)) /\ Head(Rest(s)) \in {"find", "done"} /\ Head(Rest(s)) = job[s].todo[2]
  BY <1>0, <1>1, AtOpRest, Successors
<1>3. CASE /\ UNCHANGED <<tree, stash, lastSha>>
           /\ \/ \E result \in Results : Finish(s, result)
              \/ Continue(s, AfterNoStash(s))
  <2>1. UNCHANGED <<git, made, shown, popups>>
    BY <1>1, <1>3 DEF git
  <2>2. ASSUME \E result \in Results : Finish(s, result)
        PROVE  GoesOn(s) /\ Ready(job'[s])
    <3>1. GoesOn(s) /\ job'[s].todo = <<"done">>
      BY <1>0, <1>1, <1>2, <2>2, FinishStep
    <3> QED
      BY <3>1 DEF GoesOn, Ready
  <2>3. ASSUME Continue(s, AfterNoStash(s))
        PROVE  GoesOn(s) /\ Ready(job'[s])
    <3> DEFINE r == Rest(s)
               a == AfterNoStash(s)
    <3>1. a = IF Head(r) = "find" THEN Tail(Tail(r)) ELSE r
      BY DEF AfterNoStash
    <3>2. Plan(r) /\ Head(r) \in {"find", "done"}
      BY <1>2
    <3> HIDE DEF r
    <3>3. Head(r) = "find" => Plan(Tail(r)) /\ Head(Tail(r)) = "drop"
      BY <3>2, PlanFacts, Successors
    <3>4. Head(r) = "find" => Plan(Tail(Tail(r))) /\ Head(Tail(Tail(r))) \in {"checkout", "done"}
      BY <3>3, PlanFacts, Successors
    <3>5. Plan(a) /\ Head(a) \in {"checkout", "done"}
      BY <3>1, <3>2, <3>4
    <3>6. Continue(s, a)
      BY <2>3
    <3> HIDE DEF a
    <3>7. GoesOn(s) /\ job'[s].todo = a
      BY <1>0, <1>1, <1>2, <3>5, <3>6, ContinueStep
    <3> QED
      BY <3>5, <3>7 DEF GoesOn, Ready
  <2>4. GoesOn(s) /\ Ready(job'[s])
    BY <1>3, <2>2, <2>3
  <2> QED
    BY <1>0, <1>2, <2>1, <2>4, GitUnchanged, OnlyReady DEF IInv, GoesOn
<1>4. CASE /\ lastSha < MaxSha /\ lastSha' = lastSha + 1 /\ tree' = {}
           /\ stash' = <<[sha |-> lastSha + 1, label |-> job[s].current,
                          edits |-> tree]>> \o stash
           /\ Continue(s, Rest(s))
  <2>1. GoesOn(s) /\ job'[s].todo = Rest(s) /\ job'[s].prev = job[s].prev
    BY <1>0, <1>1, <1>2, <1>4, ContinueStep
  <2> DEFINE label == job[s].current
  <2>2. label \in Branches /\ made' = made
    BY <1>1, <1>2 DEF OpJobs
  <2> HIDE DEF label
  <2>3. stash' = <<[sha |-> lastSha + 1, label |-> label, edits |-> tree]>> \o stash
    BY <1>4 DEF label
  <2>4. /\ StashInv' /\ stash' # <<>> /\ 1 \in DOMAIN stash'
        /\ stash'[1] = [sha |-> lastSha + 1, label |-> label, edits |-> tree]
        /\ \A i \in DOMAIN stash : i + 1 \in DOMAIN stash' /\ stash'[i + 1] = stash[i]
        /\ \A i \in DOMAIN stash' : i = 1 \/ (i - 1 \in DOMAIN stash /\ stash'[i] = stash[i - 1])
    BY <1>0, <1>4, <2>2, <2>3, StashPushed
  <2>5. stash'[1].sha = lastSha + 1 /\ stash'[1].label = label /\ stash'[1].edits = tree
    BY <2>4
  <2>6. RestInv'
    BY <1>0, <1>1, <1>4 DEF RestInv
  <2>8. ASSUME SafeInv, job[s].alone PROVE Knows(job[s])'
    <3>1. Knows(job[s])
      BY <1>2, <2>8 DEF SafeInv, KnowsInv
    <3>2. CASE Head(Rest(s)) = "done"
      BY <2>1, <3>2 DEF Knows
    <3>3. CASE Head(Rest(s)) = "find"
      <4>1. /\ job'[s].current = label /\ job'[s].prev = job[s].prev
            /\ Head(job'[s].todo) = "find"
        BY <2>1, <3>3 DEF GoesOn, label
      <4>2. ASSUME job[s].prev # 0
            PROVE  /\ stash'[1].sha > job[s].prev
                   /\ \A i \in DOMAIN stash' : stash'[i].sha = job[s].prev => stash'[i].label = label
        <5>1. PICK k \in DOMAIN stash : stash[k].sha = job[s].prev /\ stash[k].label = label
          BY <1>2, <3>1, <3>3, <4>2 DEF Knows, label
        <5>2. job[s].prev # lastSha + 1 /\ lastSha + 1 > job[s].prev
          <6>1. stash[k].sha <= lastSha /\ stash[k].sha \in 1..MaxSha /\ lastSha \in 0..MaxSha
            <7>1. stash[k] \in Entries
              BY <1>0
            <7> QED
              BY <1>0, <7>1 DEF StashInv, Entries
          <6>2. \A x \in 1..MaxSha, l \in 0..MaxSha : x <= l => x # l + 1 /\ l + 1 > x
            BY BoundAssumption
          <6> QED
            BY <5>1, <6>1, <6>2
        <5>3. k + 1 \in DOMAIN stash' /\ stash'[k + 1].sha = job[s].prev /\ stash'[k + 1].label = label
          BY <2>4, <5>1
        <5>4. \A i \in DOMAIN stash' : stash'[i].sha = job[s].prev => i = k + 1
          BY <2>4, <5>3 DEF StashInv
        <5> QED
          BY <2>5, <5>2, <5>3, <5>4
      <4> QED
        BY <2>4, <2>5, <4>1, <4>2 DEF Knows
    <3> QED
      BY <1>2, <3>2, <3>3
  <2>9. SafeInv => SafeInv'
    BY <1>2, <2>1, <2>8, OnlyKnows
  <2> QED
    BY <2>1, <2>4, <2>6, <2>9 DEF IInv, GoesOn
<1>5. {"ok", "error", "overwritten"} = Results
  BY DEF Results
<1> QED
  BY <1>3, <1>4, <1>5 DEF GitStashPush

LEMMA GitFindStep ==
  ASSUME IInv, NEW s \in Slots \cup Refreshers, GitFind(s)
  PROVE  IInv' /\ (SafeInv => SafeInv')
<1>0. JobInv /\ StashInv /\ RestInv /\ stash \in Seq(Entries) /\ Len(stash) <= MaxSha
  BY BoundAssumption DEF IInv, StashInv
<1>1. UNCHANGED <<git, made, shown, popups>> /\ AtStep(s, "find")
  BY DEF GitFind
<1>2. /\ s \in Slots /\ job[s] \in OpJobs /\ job[s].carried \subseteq made
      /\ Head(job[s].todo) = "find" /\ Plan(Rest(s)) /\ Head(Rest(s)) = "drop"
  BY <1>0, <1>1, AtOpRest, Successors
<1>3. Plan(Tail(Rest(s))) /\ Head(Tail(Rest(s))) \in {"checkout", "done"}
  BY <1>2, PlanFacts, Successors
<1> DEFINE i == IndexOf(stash, job[s].prev)
           t == IF i = 0 THEN Tail(Rest(s)) ELSE Rest(s)
           n == IF i = 0 THEN job[s].at ELSE i
<1>4. job' = [job EXCEPT ![s].todo = t, ![s].at = n]
  BY <1>2 DEF GitFind, JobInv, OpJobs
<1>5. Plan(t) /\ Head(t) \in {"checkout", "done", "drop"}
  BY <1>2, <1>3
<1>6. i = 0 \/ (i \in 1..Len(stash) /\ stash[i].sha = job[s].prev)
  BY <1>0, IndexOfFacts
<1>7. n \in 1..MaxSha
  <2>1. \A k \in 1..Len(stash) : k \in 1..MaxSha
    BY <1>0, BoundAssumption
  <2>2. job[s].at \in 1..MaxSha
    BY <1>2 DEF OpJobs
  <2> QED
    BY <1>6, <2>1, <2>2
<1>8. Head(t) = "drop" => i # 0 /\ n = i
  BY <1>3
<1> HIDE DEF t, n, i
<1>9. job[s].prev \in 0..MaxSha
  BY <1>2 DEF OpJobs
<1>10. GoesOn(s) /\ job'[s].todo = t /\ job'[s].at = n /\ job'[s].prev = job[s].prev
  <2> DEFINE p == job[s].prev
  <2>1. p \in 0..MaxSha /\ made' = made /\ p = job[s].prev
    BY <1>1, <1>9
  <2> HIDE DEF p
  <2>2. \/ job' = [job EXCEPT ![s].todo = t, ![s].prev = p] /\ n = job[s].at
        \/ job' = [job EXCEPT ![s].todo = t, ![s].at = n] /\ p = job[s].prev
    BY <1>4, <2>1
  <2>3. JobInv /\ job[s].carried \subseteq made /\ Plan(t)
    BY <1>0, <1>2, <1>5
  <2> QED
    BY <1>2, <1>7, <2>1, <2>2, <2>3, LookStep
<1>11. ASSUME SafeInv, job[s].alone PROVE Knows(job[s])'
  <2>1. Knows(job[s])
    BY <1>2, <1>11 DEF SafeInv, KnowsInv
  <2>2. stash # <<>> /\ stash[1].label = job[s].current
    BY <1>2, <2>1 DEF Knows
  <2>3. CASE Head(t) # "drop"
    BY <1>5, <1>10, <2>3 DEF Knows
  <2>4. CASE Head(t) = "drop"
    <3>1. n \in 1..Len(stash) /\ stash[n].sha = job[s].prev /\ n \in DOMAIN stash
      BY <1>0, <1>6, <1>8, <2>4
    <3>2. job[s].prev # 0
      <4>1. stash[n] \in Entries
        BY <1>0, <3>1
      <4>2. stash[n].sha \in 1..MaxSha
        BY <4>1 DEF Entries
      <4> QED
        BY <3>1, <4>2, BoundAssumption
    <3>3. stash[1].sha > job[s].prev /\ stash[n].label = job[s].current
      BY <1>2, <2>1, <3>1, <3>2 DEF Knows
    <3>4. 1 < n /\ n <= Len(stash)
      BY <1>9, <3>1, <3>3
    <3>5. /\ Head(job'[s].todo) = "drop" /\ job'[s].at = n /\ job'[s].current = job[s].current
          /\ job'[s].prev = job[s].prev /\ stash' = stash
      BY <1>1, <1>10, <2>4 DEF GoesOn, git
    <3> QED
      BY <2>2, <3>1, <3>3, <3>4, <3>5 DEF Knows
  <2> QED
    BY <2>3, <2>4
<1>12. SafeInv => SafeInv'
  BY <1>2, <1>10, <1>11, OnlyKnows
<1> QED
  BY <1>0, <1>1, <1>10, <1>12, GitUnchanged DEF IInv, GoesOn

LEMMA GitStashDropStep ==
  ASSUME IInv, NEW s \in Slots \cup Refreshers, GitStashDrop(s)
  PROVE  IInv' /\ (SafeInv => SafeInv')
<1>0. JobInv /\ StashInv /\ RestInv /\ stash \in Seq(Entries)
  BY DEF IInv, StashInv
<1>1. UNCHANGED <<head, tree, lastSha, made, shown, popups>> /\ AtStep(s, "drop")
  BY DEF GitStashDrop
<1>2. /\ s \in Slots /\ job[s] \in OpJobs /\ job[s].carried \subseteq made
      /\ Head(job[s].todo) = "drop" /\ Plan(Rest(s)) /\ Head(Rest(s)) \in {"checkout", "done"}
  BY <1>0, <1>1, AtOpRest, Successors
<1>3. "error" \in Results
  BY DEF Results
<1>4. CASE Finish(s, "error") /\ UNCHANGED stash
  <2>1. GoesOn(s) /\ job'[s].todo = <<"done">>
    BY <1>0, <1>1, <1>2, <1>3, <1>4, FinishStep
  <2>2. Ready(job'[s])
    BY <2>1 DEF Ready
  <2>3. UNCHANGED <<git, made, shown, popups>>
    BY <1>1, <1>4 DEF git
  <2> QED
    BY <1>0, <1>2, <2>1, <2>2, <2>3, GitUnchanged, OnlyReady DEF IInv, GoesOn
<1>5. CASE /\ job[s].at <= Len(stash) /\ stash' = RemoveAt(stash, job[s].at)
           /\ Continue(s, Rest(s))
  <2> DEFINE n == job[s].at
  <2>1. n \in 1..Len(stash)
    <3>1. n \in 1..MaxSha /\ MaxSha \in Nat /\ Len(stash) \in Nat
      BY <1>0, <1>2, BoundAssumption DEF OpJobs
    <3> QED
      BY <1>5, <3>1
  <2>2. GoesOn(s) /\ job'[s].todo = Rest(s)
    BY <1>0, <1>1, <1>2, <1>5, ContinueStep
  <2>3. Ready(job'[s])
    BY <1>2, <2>2 DEF Ready
  <2> HIDE DEF n
  <2>4. stash' = RemoveAt(stash, n)
    BY <1>5 DEF n
  <2>5. StashInv'
    BY <1>0, <1>1, <2>1, <2>4, StashRemoved
  <2>6. RestInv'
    BY <1>0, <1>1 DEF RestInv
  <2> QED
    BY <1>2, <2>2, <2>3, <2>5, <2>6, OnlyReady DEF IInv, GoesOn
<1> QED
  BY <1>4, <1>5 DEF GitStashDrop

LEMMA GitStashPopStep ==
  ASSUME IInv, NEW s \in Slots \cup Refreshers, GitStashPop(s)
  PROVE  IInv' /\ (SafeInv => SafeInv')
<1>0. JobInv /\ StashInv /\ RestInv /\ stash \in Seq(Entries)
  BY DEF IInv, StashInv
<1>1. UNCHANGED <<head, lastSha, made, shown, popups>> /\ AtStep(s, "pop")
  BY DEF GitStashPop
<1>2. /\ s \in Slots /\ job[s] \in OpJobs /\ job[s].carried \subseteq made
      /\ Plan(Rest(s)) /\ Head(Rest(s)) = "done"
  BY <1>0, <1>1, AtOpRest, Successors
<1>3. Continue(s, Rest(s)) \/ Finish(s, "error")
  BY DEF GitStashPop
<1>4. GoesOn(s) /\ Ready(job'[s])
  <2>1. CASE Continue(s, Rest(s))
    <3>1. GoesOn(s) /\ job'[s].todo = Rest(s)
      BY <1>0, <1>1, <1>2, <2>1, ContinueStep
    <3> QED
      BY <1>2, <3>1 DEF GoesOn, Ready
  <2>2. CASE Finish(s, "error")
    <3>1. "error" \in Results
      BY DEF Results
    <3>2. GoesOn(s) /\ job'[s].todo = <<"done">>
      BY <1>0, <1>1, <1>2, <2>2, <3>1, FinishStep
    <3> QED
      BY <3>2 DEF GoesOn, Ready
  <2> QED
    BY <1>3, <2>1, <2>2
<1>5. StashInv' /\ RestInv'
  <2> DEFINE n == job[s].at
  <2>1. CASE n <= Len(stash) /\ tree' = tree \cup stash[n].edits
             /\ (stash' = RemoveAt(stash, n) \/ stash' = stash)
    <3>1. n \in 1..Len(stash)
      <4>1. n \in 1..MaxSha /\ MaxSha \in Nat /\ Len(stash) \in Nat
        BY <1>0, <1>2, BoundAssumption DEF OpJobs
      <4> QED
        BY <2>1, <4>1
    <3> HIDE DEF n
    <3>2. n \in DOMAIN stash /\ stash[n].edits \subseteq made
      BY <1>0, <3>1 DEF StashInv
    <3>3. RestInv'
      BY <1>0, <1>1, <2>1, <3>2 DEF RestInv
    <3>4. StashInv'
      BY <1>0, <1>1, <2>1, <3>1, StashRemoved, StashUnchanged
    <3> QED
      BY <3>3, <3>4
  <2>2. CASE UNCHANGED <<tree, stash>>
    BY <1>0, <1>1, <2>2, GitUnchanged DEF git
  <2> QED
    BY <2>1, <2>2 DEF GitStashPop
<1> QED
  BY <1>2, <1>4, <1>5, OnlyReady DEF IInv, GoesOn

\* A refresh goes on.
LEMMA RefreshGoesOn ==
  ASSUME IInv, NEW s \in Slots \cup Refreshers, UNCHANGED <<git, made, shown, popups>>,
         job[s] \in RefreshJobs, NEW view \in Views,
         NEW todo \in {<<"stashes", "apply">>, <<"apply">>},
         job' = [job EXCEPT ![s].todo = todo, ![s].snapshot = view]
  PROVE  IInv' /\ (SafeInv => SafeInv')
<1>0. JobInv /\ StashInv /\ RestInv
  BY DEF IInv
<1> DEFINE n == [job[s] EXCEPT !.todo = todo, !.snapshot = view]
<1>1. n \in RefreshJobs /\ n.snapshot = view
  BY DEF RefreshJobs
<1>2. job' = [job EXCEPT ![s] = n]
  BY <1>0 DEF JobInv
<1> HIDE DEF n
<1>3. Runs(n, made') /\ n \notin OpJobs
  BY <1>1, Apart DEF Runs
<1>4. /\ JobInv' /\ job'[s] = n
      /\ \A t \in Slots \cup Refreshers : t # s => job'[t] = job[t]
  BY <1>0, <1>2, <1>3, JobChange
<1>5. Begins(s) /\ stash' = stash
  BY <1>3, <1>4 DEF Begins, git
<1> QED
  BY <1>0, <1>4, <1>5, BeginsSafe, GitUnchanged DEF IInv

LEMMA RefreshReadsStep ==
  ASSUME IInv, NEW s \in Slots \cup Refreshers, RefreshStatus(s) \/ RefreshStashes(s)
  PROVE  IInv' /\ (SafeInv => SafeInv')
<1>0. JobInv /\ head \in Branches /\ stash \in Seq(Entries) /\ <<>> \in Seq(Entries)
  BY DEF IInv, RestInv, StashInv
<1>1. UNCHANGED <<git, made, shown, popups>>
  BY DEF RefreshStatus, RefreshStashes
<1>2. CASE RefreshStatus(s)
  <2> DEFINE view == [head |-> head, dirty |-> tree # {}, stash |-> <<>>]
             t == <<"stashes", "apply">>
  <2>1. job[s] \in RefreshJobs /\ Rest(s) = t
    BY <1>0, <1>2, AtRefresh DEF RefreshStatus
  <2>2. view \in Views /\ t \in {<<"stashes", "apply">>, <<"apply">>}
    BY <1>0 DEF Views
  <2>3. job' = [job EXCEPT ![s].todo = t, ![s].snapshot = view]
    BY <1>2, <2>1 DEF RefreshStatus
  <2> HIDE DEF view, t
  <2> QED
    BY <1>1, <2>1, <2>2, <2>3, RefreshGoesOn
<1>3. CASE RefreshStashes(s)
  <2> DEFINE view == [job[s].snapshot EXCEPT !.stash = stash]
             t == <<"apply">>
  <2>1. job[s] \in RefreshJobs /\ Rest(s) = t /\ job[s].snapshot \in Views
    BY <1>0, <1>3, AtRefresh DEF RefreshStashes
  <2>2. view \in Views /\ t \in {<<"stashes", "apply">>, <<"apply">>}
    BY <1>0, <2>1 DEF Views
  <2>3. job' = [job EXCEPT ![s].todo = t, ![s].snapshot = view]
    BY <1>0, <1>3, <2>1 DEF RefreshStashes, JobInv, RefreshJobs
  <2> HIDE DEF view, t
  <2> QED
    BY <1>1, <2>1, <2>2, <2>3, RefreshGoesOn
<1> QED
  BY <1>2, <1>3

LEMMA RefreshApplyStep ==
  ASSUME IInv, NEW s \in Slots \cup Refreshers, RefreshApply(s)
  PROVE  IInv' /\ (SafeInv => SafeInv')
<1>0. JobInv /\ StashInv /\ RestInv
  BY DEF IInv
<1>1. /\ UNCHANGED <<git, made, popups>> /\ AtStep(s, "apply")
      /\ shown' \in {job[s].snapshot, shown} /\ NoJob(s)
  BY DEF RefreshApply, NoJob
<1>2. shown' \in Views
  BY <1>0, <1>1, AtRefresh DEF RestInv
<1>3. Begins(s)
  BY <1>0, <1>1, RestStep
<1>4. StashInv'
  BY <1>0, <1>1, StashUnchanged DEF git
<1>5. RestInv'
  BY <1>0, <1>1, <1>2 DEF RestInv, git
<1>6. SafeInv => SafeInv'
  BY <1>1, <1>3, BeginsSafe DEF git
<1> QED
  BY <1>3, <1>4, <1>5, <1>6 DEF IInv, Begins

LEMMA DoneStep ==
  ASSUME IInv, NEW s \in Slots \cup Refreshers, Done(s)
  PROVE  IInv' /\ (SafeInv => SafeInv')
<1>0. JobInv /\ StashInv /\ RestInv
  BY DEF IInv
<1>1. UNCHANGED <<git, made, shown>> /\ AtStep(s, "done")
  BY DEF Done
<1>2. s \in Slots /\ job[s] \in OpJobs
  BY <1>0, <1>1, AtOpRest, Successors
<1>3. job[s].target \in Branches
  BY <1>2 DEF OpJobs
<1>4. Begins(s) /\ popups' \subseteq Popups
  <2>1. CASE Checkout(s, job[s].target)
    BY <1>0, <1>1, <1>2, <1>3, <2>1, CheckoutStep
  <2>2. CASE /\ StartRefresh(s) \/ NoJob(s)
             /\ \/ Present([type |-> "localChanges", target |-> job[s].target,
                            hasStash |-> ShownStashFor(shown.head)])
                \/ UNCHANGED popups
    <3> DEFINE has == ShownStashFor(shown.head)
    <3>1. has \in BOOLEAN
      BY DEF ShownStashFor
    <3> HIDE DEF has
    <3>2. [type |-> "localChanges", target |-> job[s].target, hasStash |-> has] \in Popups
      BY <1>3, <3>1, PopupFacts
    <3>3. popups \subseteq Popups
      BY <1>0 DEF RestInv
    <3>4. popups' \subseteq Popups
      BY <2>2, <3>2, <3>3 DEF Present, has
    <3> QED
      BY <1>0, <1>1, <2>2, <3>4, RestStep
  <2> QED
    BY <2>1, <2>2 DEF Done
<1>5. RestInv'
  BY <1>0, <1>1, <1>4 DEF RestInv, git
<1>6. StashInv'
  BY <1>0, <1>1, StashUnchanged DEF git
<1>7. SafeInv => SafeInv'
  BY <1>1, <1>4, BeginsSafe DEF git
<1> QED
  BY <1>4, <1>5, <1>6, <1>7 DEF IInv, Begins
-----------------------------------------------------------------------------
(* The specification.                                                      *)
LEMMA InitIInv ==
  ASSUME Init
  PROVE  IInv /\ SafeInv
<1>1. \A s \in Slots \cup Refreshers : job[s] = Idle
  BY DEF Init
<1>2. JobInv /\ SafeInv
  <2>1. job = [s \in Slots \cup Refreshers |-> job[s]]
    BY DEF Init
  <2> QED
    BY <1>1, <2>1, Apart DEF JobInv, SafeInv, AloneInv, KnowsInv, Runs
<1>3. StashInv
  BY BoundAssumption DEF Init, StashInv
<1>4. RestInv
  <2>1. <<>> \in Seq(Entries)
    OBVIOUS
  <2> QED
    BY <2>1 DEF Init, RestInv, Views
<1> QED
  BY <1>2, <1>3, <1>4 DEF IInv

LEMMA JobStepSafe ==
  ASSUME IInv, NEW s \in Slots \cup Refreshers, JobStep(s)
  PROVE  IInv' /\ (SafeInv => SafeInv')
<1>1. CASE GitCheckout(s)
  BY <1>1, GitCheckoutStep
<1>2. CASE GitList(s)
  BY <1>2, GitListStep
<1>3. CASE GitStashPush(s)
  BY <1>3, GitStashPushStep
<1>4. CASE GitFind(s)
  BY <1>4, GitFindStep
<1>5. CASE GitStashDrop(s)
  BY <1>5, GitStashDropStep
<1>6. CASE GitLookup(s)
  BY <1>6, GitLookupStep
<1>7. CASE GitStashPop(s)
  BY <1>7, GitStashPopStep
<1>8. CASE RefreshStatus(s) \/ RefreshStashes(s)
  BY <1>8, RefreshReadsStep
<1>9. CASE RefreshApply(s)
  BY <1>9, RefreshApplyStep
<1>10. CASE Done(s)
  BY <1>10, DoneStep
<1> QED
  BY <1>1, <1>2, <1>3, <1>4, <1>5, <1>6, <1>7, <1>8, <1>9, <1>10 DEF JobStep

LEMMA StepSafe ==
  ASSUME IInv, [Next]_vars
  PROVE  IInv' /\ (SafeInv => SafeInv')
<1>1. CASE User
  BY <1>1, UserStep
<1>2. ASSUME NEW s \in DOMAIN job, JobStep(s)
      PROVE  IInv' /\ (SafeInv => SafeInv')
  <2>1. s \in Slots \cup Refreshers
    BY DEF IInv, JobInv
  <2> QED
    BY <1>2, <2>1, JobStepSafe
<1>3. ASSUME UNCHANGED vars
      PROVE  IInv' /\ (SafeInv => SafeInv')
  <2>1. IInv'
    <3>1. UNCHANGED <<git, made, shown, popups, job>>
      BY <1>3 DEF vars, git
    <3>2. JobInv'
      BY <3>1 DEF IInv, JobInv
    <3> QED
      BY <3>1, <3>2, GitUnchanged DEF IInv
  <2>2. SafeInv => SafeInv'
    BY <1>3 DEF vars, SafeInv, AloneInv, KnowsInv, Knows
  <2> QED
    BY <2>1, <2>2
<1> QED
  BY <1>1, <1>2, <1>3 DEF Next

LEMMA StashCheckoutInvariance == Spec => [](IInv /\ SafeInv)
<1>1. Init => IInv /\ SafeInv
  BY InitIInv
<1>2. IInv /\ SafeInv /\ [Next]_vars => (IInv /\ SafeInv)'
  BY StepSafe
<1> QED
  BY <1>1, <1>2, PTL DEF Spec

-----------------------------------------------------------------------------
LEMMA InvTypes == ASSUME IInv PROVE TypeOK
<1>0. JobInv /\ StashInv /\ RestInv
  BY DEF IInv
<1>1. ASSUME NEW j \in Running
      PROVE  /\ j.kind \in Kinds /\ Len(j.todo) > 0 /\ Range(j.todo) \subseteq Steps
             /\ IF j.kind = "refresh" THEN j.snapshot \in Views \cup {Unread}
                ELSE /\ j.result \in Results /\ {j.target, j.current} \subseteq Branches
                     /\ {j.prev, j.meant} \subseteq 0..MaxSha /\ j.at \in 1..MaxSha
                     /\ j.carried \subseteq made /\ j.alone \in BOOLEAN
  <2>1. j # Idle /\ Runs(j, made)
    BY <1>0 DEF Running, Range, JobInv
  <2>2. CASE j \in RefreshJobs
    <3>1. /\ j.kind = "refresh" /\ j.snapshot \in Views \cup {Unread}
          /\ \/ j.todo = <<"status", "stashes", "apply">> \/ j.todo = <<"stashes", "apply">>
             \/ j.todo = <<"apply">>
      BY <2>2 DEF RefreshJobs
    <3>2. Len(j.todo) > 0 /\ Range(j.todo) \subseteq {"status", "stashes", "apply"}
      <4> DEFINE Reads == {"status", "stashes", "apply"}
      <4>1. /\ \A t \in {<<"status", "stashes", "apply">>, <<"stashes", "apply">>, <<"apply">>} :
                 Len(t) > 0 /\ \A i \in DOMAIN t : t[i] \in Reads
        OBVIOUS
      <4>2. Len(j.todo) > 0 /\ \A i \in DOMAIN j.todo : j.todo[i] \in Reads
        BY <3>1, <4>1
      <4> QED
        BY <4>2 DEF Range
    <3> QED
      BY <3>1, <3>2 DEF Steps, Kinds
  <2>3. CASE j \in OpJobs /\ Plan(j.todo) /\ j.carried \subseteq made
    <3>1. Len(j.todo) > 0 /\ j.todo \in Seq(OpSteps)
      BY <2>3 DEF Plan
    <3>2. Range(j.todo) \subseteq OpSteps /\ OpSteps \subseteq Steps
      BY <3>1, Successors DEF Range, Steps
    <3> QED
      BY <2>3, <3>1, <3>2 DEF OpJobs
  <2> QED
    BY <2>1, <2>2, <2>3 DEF Runs
<1>2. /\ head \in Branches /\ tree \subseteq made /\ made \subseteq Edits
      /\ shown \in Views /\ popups \subseteq Popups
  BY <1>0 DEF RestInv
<1>3. /\ stash \in Seq(Entries) /\ lastSha \in 0..MaxSha
      /\ \A i, k \in DOMAIN stash : stash[i].sha = stash[k].sha => i = k
  BY <1>0 DEF StashInv
<1> QED
  BY <1>1, <1>2, <1>3 DEF TypeOK

(* However many operations and refreshes overlap, every part of the state  *)
(* keeps its type: a job is always at a step of a plan that ends in done() *)
(* with an index and a sha git can have, and refs/stash holds no entry     *)
(* twice (store.py, checkout and the stash operations).                    *)
THEOREM StashCheckoutTyped == Spec => []TypeOK
<1>1. IInv /\ SafeInv => TypeOK
  BY InvTypes
<1> QED
  BY <1>1, StashCheckoutInvariance, PTL

\* The steps that change the stash or take from the work tree are git's.
LEMMA WhoStashes ==
  ASSUME IInv, SafeInv, [Next]_vars, NEW s \in Slots, Alone(s),
         stash' # stash \/ ~ tree \subseteq tree'
  PROVE  /\ job[s] \in OpJobs /\ job[s].alone
         /\ GitStashPush(s) \/ GitStashDrop(s) \/ GitStashPop(s)
<1>0. JobInv
  BY DEF IInv
<1>1. ~ User /\ ~ UNCHANGED vars
  BY DEF User, vars, git, Edit, ClosePopup, UserChecksOut, AnswerSwitch, AnswerOverwrite,
         AnswerRetry, StashAll, RestoreOrDiscard, Refresh
<1>2. PICK t \in Slots \cup Refreshers : JobStep(t)
  BY <1>0, <1>1 DEF Next, JobInv
<1>3. GitStashPush(t) \/ GitStashDrop(t) \/ GitStashPop(t)
  BY <1>2 DEF JobStep, git, GitCheckout, GitList, GitFind, GitLookup, RefreshStatus, RefreshStashes,
              RefreshApply, Done
<1>4. AtStep(t, "push") \/ AtStep(t, "drop") \/ AtStep(t, "pop")
  BY <1>3 DEF GitStashPush, GitStashDrop, GitStashPop
<1>5. t \in Slots /\ job[t] \in OpJobs
  BY <1>0, <1>4, AtOp, Successors
<1>6. job[s] \in OpJobs /\ job[s].alone
  <2>1. Runs(job[s], made)
    BY <1>0 DEF JobInv
  <2> QED
    BY <2>1 DEF Runs, Alone, Works, OpJobs, RefreshJobs, Idle
<1>7. t = s
  BY <1>5, <1>6 DEF SafeInv, AloneInv
<1> QED
  BY <1>3, <1>6, <1>7

\* An operation that is alone drops the entry it found, beside a newer one.
LEMMA WhatIsDropped ==
  ASSUME IInv, SafeInv, NEW s \in Slots, job[s] \in OpJobs, job[s].alone, GitStashDrop(s),
         job[s].kind # "discard", stash' # stash
  PROVE  /\ job[s].at \in 1..Len(stash) /\ stash' = RemoveAt(stash, job[s].at)
         /\ stash[job[s].at].sha = job[s].prev /\ stash[job[s].at].label = job[s].current
         /\ \E n \in Range(stash') : n.label = job[s].current /\ n.sha > job[s].prev
<1>0. JobInv /\ StashInv /\ stash \in Seq(Entries) /\ Len(stash) \in Nat
  BY DEF IInv, StashInv
<1> DEFINE n == job[s].at
<1>1. n <= Len(stash) /\ stash' = RemoveAt(stash, n) /\ AtStep(s, "drop")
  BY DEF GitStashDrop
<1>2. Head(job[s].todo) = "drop" /\ Knows(job[s])
  BY <1>0, <1>1, AtOpRest, Successors DEF SafeInv, KnowsInv
<1>3. /\ 1 < n /\ n \in Nat /\ stash[1].label = job[s].current /\ stash[1].sha > job[s].prev
      /\ stash[n].sha = job[s].prev /\ stash[n].label = job[s].current
  BY <1>2 DEF Knows, OpJobs
<1> HIDE DEF n
<1>4. n \in 1..Len(stash) /\ 1 \in 1..Len(stash) /\ 1 # n
  BY <1>0, <1>1, <1>3
<1>5. stash' \in Seq(Entries) /\ Len(stash') = Len(stash) - 1
  BY <1>0, <1>1, <1>4, RemoveAtFacts
<1>6. \E k \in 1..(Len(stash) - 1) : stash'[k] = stash[1]
  <2>1. \E k \in 1..(Len(stash) - 1) : RemoveAt(stash, n)[k] = stash[1]
    BY <1>0, <1>4, RemoveAtKeeps, ZenonT(60)
  <2> QED
    BY <1>1, <2>1, Zenon
<1>7. stash[1] \in Range(stash')
  <2>1. DOMAIN stash' = 1..(Len(stash) - 1)
    BY <1>0, <1>5
  <2> QED
    BY <1>6, <2>1 DEF Range
<1> QED
  BY <1>1, <1>3, <1>4, <1>7 DEF n

\* The elements a sequence loses with its n-th one.
LEMMA LostAt ==
  ASSUME NEW S, NEW q \in Seq(S), NEW n \in 1..Len(q), NEW e \in Range(q) \ Range(RemoveAt(q, n))
  PROVE  e = q[n]
<1>1. PICK i \in 1..Len(q) : e = q[i]
  BY DEF Range
<1>2. ASSUME i # n PROVE FALSE
  <2>1. \E k \in 1..(Len(q) - 1) : RemoveAt(q, n)[k] = q[i]
    BY <1>2, RemoveAtKeeps, ZenonT(60)
  <2>2. DOMAIN RemoveAt(q, n) = 1..(Len(q) - 1)
    BY RemoveAtFacts
  <2> QED
    BY <1>1, <2>1, <2>2 DEF Range
<1> QED
  BY <1>1, <1>2

LEMMA WorkStep ==
  ASSUME IInv, SafeInv, [Next]_vars, NEW s \in Slots, Alone(s), job[s].kind # "discard"
  PROVE  /\ tree \ tree' \subseteq StashedEdits'
         /\ \A e \in Range(stash) \ Range(stash') : e.edits \subseteq tree' \/ MadeWay(e)
<1>0. StashInv /\ RestInv /\ stash \in Seq(Entries) /\ Len(stash) \in Nat
  BY DEF IInv, StashInv
<1>1. CASE stash' = stash /\ tree \subseteq tree'
  BY <1>1
<1>2. CASE stash' # stash \/ ~ tree \subseteq tree'
  <2>0. /\ job[s] \in OpJobs /\ job[s].alone
        /\ GitStashPush(s) \/ GitStashDrop(s) \/ GitStashPop(s)
    BY <1>2, WhoStashes
  <2> DEFINE n == job[s].at
  <2>1. n \in Nat \ {0}
    BY <2>0, BoundAssumption DEF OpJobs
  <2>2. CASE GitStashPush(s)
    <3>1. /\ lastSha < MaxSha /\ lastSha' = lastSha + 1
          /\ stash' = <<[sha |-> lastSha', label |-> job[s].current, edits |-> tree]>> \o stash
      BY <1>2, <2>2 DEF GitStashPush
    <3> DEFINE label == job[s].current
    <3>2. label \in Branches /\ made' = made
      BY <2>0, <2>2 DEF OpJobs, GitStashPush
    <3>3. /\ 1 \in DOMAIN stash' /\ stash'[1].edits = tree
          /\ \A i \in DOMAIN stash : i + 1 \in DOMAIN stash' /\ stash'[i + 1] = stash[i]
      <4>1. stash' = <<[sha |-> lastSha + 1, label |-> label, edits |-> tree]>> \o stash
        BY <3>1
      <4> HIDE DEF label
      <4>2. /\ 1 \in DOMAIN stash'
            /\ stash'[1] = [sha |-> lastSha + 1, label |-> label, edits |-> tree]
            /\ \A i \in DOMAIN stash : i + 1 \in DOMAIN stash' /\ stash'[i + 1] = stash[i]
        BY <1>0, <3>1, <3>2, <4>1, StashPushed
      <4> QED
        BY <4>2
    <3>4. tree \subseteq StashedEdits'
      BY <3>3 DEF StashedEdits
    <3>5. Range(stash) \subseteq Range(stash')
      BY <3>3 DEF Range
    <3> QED
      BY <3>4, <3>5
  <2>3. CASE GitStashDrop(s)
    <3>1. tree' = tree /\ stash' # stash
      BY <1>2, <2>3 DEF GitStashDrop
    <3>2. /\ n \in 1..Len(stash) /\ stash' = RemoveAt(stash, n)
          /\ stash[n].sha = job[s].prev /\ stash[n].label = job[s].current
          /\ \E k \in Range(stash') : k.label = job[s].current /\ k.sha > job[s].prev
      BY <2>0, <2>3, <3>1, WhatIsDropped
    <3>3. MadeWay(stash[n])
      BY <3>2 DEF MadeWay
    <3> HIDE DEF n
    <3>4. \A e \in Range(stash) \ Range(stash') : e = stash[n]
      BY <1>0, <3>2, LostAt
    <3> QED
      BY <3>1, <3>3, <3>4
  <2>4. CASE GitStashPop(s)
    <3>1. CASE stash' = RemoveAt(stash, n) /\ n <= Len(stash) /\ tree' = tree \cup stash[n].edits
      <4>1. n \in 1..Len(stash)
        BY <1>0, <2>1, <3>1
      <4> HIDE DEF n
      <4>2. \A e \in Range(stash) \ Range(stash') : e = stash[n]
        BY <1>0, <3>1, <4>1, LostAt
      <4> QED
        BY <3>1, <4>2
    <3>2. CASE stash' = stash /\ tree \subseteq tree'
      BY <3>2
    <3> QED
      BY <2>4, <3>1, <3>2 DEF GitStashPop
  <2> QED
    BY <2>0, <2>2, <2>3, <2>4
<1> QED
  BY <1>1, <1>2

(* Whatever git refuses and wherever it stops, an operation that no other  *)
(* one overlaps, unless it is to discard an entry, loses no change of the  *)
(* user: what leaves the work tree is in the stash, and an entry leaves    *)
(* the stash for the work tree or for a newer one of its branch            *)
(* (store.py, stash_and_drop_previous and the checkouts).                  *)
THEOREM WorkIsKept == Spec => WorkSurvives
<1>1. IInv /\ SafeInv /\ [Next]_vars =>
        [(\E s \in Slots : Alone(s) /\ job[s].kind # "discard") =>
           /\ tree \ tree' \subseteq StashedEdits'
           /\ \A e \in Range(stash) \ Range(stash') : e.edits \subseteq tree' \/ MadeWay(e)]_vars
  BY WorkStep
<1> QED
  BY <1>1, StashCheckoutInvariance, PTL DEF Spec, WorkSurvives

LEMMA DropStep ==
  ASSUME IInv, SafeInv, [Next]_vars, NEW s \in Slots,
         Alone(s), job[s].kind \notin {"discard", "restore"}, AtStep(s, "drop"),
         Len(stash') < Len(stash)
  PROVE  /\ stash[job[s].at].sha = job[s].prev
         /\ \E n \in Range(stash') : n.label = job[s].current /\ n.sha > job[s].prev
<1>1. stash' # stash
  BY DEF IInv, StashInv
<1>2. /\ job[s] \in OpJobs /\ job[s].alone
      /\ GitStashPush(s) \/ GitStashDrop(s) \/ GitStashPop(s)
  BY <1>1, WhoStashes
<1>3. GitStashDrop(s)
  BY <1>2 DEF GitStashPush, GitStashPop, AtStep
<1> QED
  BY <1>1, <1>2, <1>3, WhatIsDropped

(* stash_and_drop_previous, when no other operation overlaps it, drops the *)
(* entry that was the branch's last one before, wherever it is by then,    *)
(* and only when the new one is in the stash ("created and previous",      *)
(* store.py:5945).                                                         *)
THEOREM OldStashMakesWayForNew == Spec => DroppedOnlyWhenReplaced
<1>1. IInv /\ SafeInv /\ [Next]_vars =>
        [\A s \in Slots : Alone(s) /\ job[s].kind \notin {"discard", "restore"}
            /\ AtStep(s, "drop") /\ Len(stash') < Len(stash)
            => /\ stash[job[s].at].sha = job[s].prev
               /\ \E n \in Range(stash') : n.label = job[s].current /\ n.sha > job[s].prev]_vars
  BY DropStep
<1> QED
  BY <1>1, StashCheckoutInvariance, PTL DEF Spec, DroppedOnlyWhenReplaced
=============================================================================
