-------------------------- MODULE AheadBehindProofs --------------------------
(***************************************************************************)
(* Theorems about AheadBehind for every set of keys and requests and every *)
(* size of the cache.  Inv (in AheadBehind) is the inductive invariant:    *)
(* NoOrphanList alone is not inductive, because it does not say that a     *)
(* queued key has a waiter list, so a request could queue a key twice and  *)
(* the first lookup to finish would leave the second one without one.      *)
(***************************************************************************)
EXTENDS AheadBehind, TLAPS

-----------------------------------------------------------------------------
(* Sequences. *)

LEMMA AppendFacts ==
    ASSUME NEW S, NEW s \in Seq(S), NEW k \in S
    PROVE  /\ Append(s, k) \in Seq(S)
           /\ Len(Append(s, k)) = Len(s) + 1
           /\ Members(Append(s, k)) = Members(s) \cup {k}
           /\ NoDuplicates(s) /\ k \notin Members(s) => NoDuplicates(Append(s, k))
<1>1. /\ Append(s, k) \in Seq(S)
      /\ Len(Append(s, k)) = Len(s) + 1
      /\ \A i \in 1..Len(s) : Append(s, k)[i] = s[i]
      /\ Append(s, k)[Len(s) + 1] = k
  OBVIOUS
<1>2. Len(s) \in Nat /\ 1..(Len(s) + 1) = (1..Len(s)) \cup {Len(s) + 1}
  OBVIOUS
<1>3. Members(Append(s, k)) = Members(s) \cup {k}
  BY <1>1, <1>2 DEF Members
<1>4. ASSUME NoDuplicates(s), k \notin Members(s)
      PROVE  NoDuplicates(Append(s, k))
  BY <1>1, <1>2, <1>4 DEF Members, NoDuplicates
<1> QED
  BY <1>1, <1>3, <1>4

LEMMA TailFacts ==
    ASSUME NEW S, NEW s \in Seq(S), s # <<>>
    PROVE  /\ Tail(s) \in Seq(S)
           /\ Len(Tail(s)) = Len(s) - 1
           /\ Head(s) \in Members(s)
           /\ Members(s) \subseteq S
           /\ Members(s) = Members(Tail(s)) \cup {Head(s)}
           /\ NoDuplicates(s) => NoDuplicates(Tail(s)) /\ Head(s) \notin Members(Tail(s))
<1>1. /\ Tail(s) \in Seq(S)
      /\ Len(s) \in Nat /\ Len(s) >= 1
      /\ Len(Tail(s)) = Len(s) - 1
      /\ \A i \in 1..Len(Tail(s)) : i + 1 \in 1..Len(s) /\ Tail(s)[i] = s[i + 1]
      /\ Head(s) = s[1]
      /\ \A i \in 1..Len(s) : s[i] \in S
  OBVIOUS
<1>2. \A i \in 1..Len(s) : i = 1 \/ (i - 1 \in 1..Len(Tail(s)) /\ Tail(s)[i - 1] = s[i])
  BY <1>1
<1>3. Members(s) = Members(Tail(s)) \cup {Head(s)}
  <2>1. ASSUME NEW x \in Members(s) PROVE x \in Members(Tail(s)) \cup {Head(s)}
    <3>1. PICK i \in 1..Len(s) : x = s[i]
      BY DEF Members
    <3>2. CASE i = 1
      BY <1>1, <3>1, <3>2
    <3>3. CASE i - 1 \in 1..Len(Tail(s)) /\ Tail(s)[i - 1] = s[i]
      BY <3>1, <3>3 DEF Members
    <3> QED
      BY <1>2, <3>2, <3>3
  <2>2. ASSUME NEW x \in Members(Tail(s)) \cup {Head(s)} PROVE x \in Members(s)
    BY <1>1 DEF Members
  <2> QED
    BY <2>1, <2>2
<1>4. ASSUME NoDuplicates(s)
      PROVE  NoDuplicates(Tail(s)) /\ Head(s) \notin Members(Tail(s))
  <2>1. NoDuplicates(Tail(s))
    BY <1>1, <1>4 DEF NoDuplicates
  <2>2. Head(s) \notin Members(Tail(s))
    BY <1>1, <1>4 DEF NoDuplicates, Members
  <2> QED
    BY <2>1, <2>2
<1> QED
  BY <1>1, <1>3, <1>4 DEF Members

\* move_to_end keeps the members, adds the key, and never holds it twice.
LEMMA MoveToEndFacts ==
    ASSUME NEW S, NEW s \in Seq(S), NEW k \in S, NoDuplicates(s)
    PROVE  /\ MoveToEnd(s, k) \in Seq(S)
           /\ Members(MoveToEnd(s, k)) = Members(s) \cup {k}
           /\ NoDuplicates(MoveToEnd(s, k))
           /\ Len(MoveToEnd(s, k)) = IF k \in Members(s) THEN Len(s) ELSE Len(s) + 1
<1>1. CASE k \notin Members(s)
  BY <1>1, AppendFacts DEF MoveToEnd
<1>2. CASE k \in Members(s)
  <2> DEFINE p == CHOOSE i \in 1..Len(s) : s[i] = k
             t == RemoveIndex(s, p)
  <2>1. p \in 1..Len(s) /\ s[p] = k
    BY <1>2 DEF Members
  <2>2. /\ t \in Seq(S)
        /\ Len(s) \in Nat \ {0}
        /\ Len(t) = Len(s) - 1
        /\ \A j \in 1..Len(t) : t[j] = IF j < p THEN s[j] ELSE s[j + 1]
    <3>1. Len(s) \in Nat \ {0}
      BY <2>1
    <3>2. \A j \in 1..(Len(s) - 1) : (IF j < p THEN s[j] ELSE s[j + 1]) \in S
      BY <2>1, <3>1
    <3>3. t = [j \in 1..(Len(s) - 1) |-> IF j < p THEN s[j] ELSE s[j + 1]]
      BY DEF RemoveIndex
    <3> HIDE DEF t, p
    <3>4. t \in [1..(Len(s) - 1) -> S]
      BY <3>2, <3>3
    <3> QED
      BY <3>1, <3>3, <3>4
  <2> HIDE DEF t, p
  <2>3. k \notin Members(t)
    BY <2>1, <2>2 DEF Members, NoDuplicates
  <2>4. Members(t) \cup {k} = Members(s)
    <3>1. ASSUME NEW x \in Members(t) PROVE x \in Members(s)
      BY <2>1, <2>2 DEF Members
    <3>2. ASSUME NEW x \in Members(s), x # k PROVE x \in Members(t)
      <4>1. PICK i \in 1..Len(s) : x = s[i]
        BY DEF Members
      <4>2. CASE i < p
        <5>1. i \in 1..Len(t) /\ t[i] = x
          BY <2>1, <2>2, <4>1, <4>2
        <5> QED
          BY <5>1 DEF Members
      <4>3. CASE i > p
        <5>1. i - 1 \in 1..Len(t) /\ t[i - 1] = x
          BY <2>1, <2>2, <4>1, <4>3
        <5> QED
          BY <5>1 DEF Members
      <4> QED
        BY <2>1, <3>2, <4>1, <4>2, <4>3
    <3> QED
      BY <1>2, <3>1, <3>2
  <2>5. NoDuplicates(t)
    <3> SUFFICES ASSUME NEW i \in 1..Len(t), NEW j \in 1..Len(t), t[i] = t[j]
                 PROVE  i = j
      BY DEF NoDuplicates
    <3> DEFINE a == IF i < p THEN i ELSE i + 1
               b == IF j < p THEN j ELSE j + 1
    <3>1. a \in 1..Len(s) /\ b \in 1..Len(s) /\ t[i] = s[a] /\ t[j] = s[b]
      BY <2>1, <2>2
    <3>2. a = b
      BY <3>1 DEF NoDuplicates
    <3> QED
      BY <2>1, <3>2
  <2>6. MoveToEnd(s, k) = Append(t, k)
    BY <1>2 DEF MoveToEnd, t, p
  <2> QED
    BY <1>2, <2>2, <2>3, <2>4, <2>5, <2>6, AppendFacts
<1> QED
  BY <1>1, <1>2

\* One insertion followed by the eviction stays within the limit.
LEMMA EvictFacts ==
    ASSUME NEW S, NEW s \in Seq(S), NEW k \in S, NoDuplicates(s), Len(s) <= MaxCache
    PROVE  LET t == Evict(MoveToEnd(s, k))
           IN  /\ t \in Seq(S)
               /\ Members(t) \subseteq Members(s) \cup {k}
               /\ NoDuplicates(t)
               /\ Len(t) <= MaxCache
<1> DEFINE m == MoveToEnd(s, k)
<1>1. /\ m \in Seq(S) /\ NoDuplicates(m)
      /\ Members(m) = Members(s) \cup {k}
      /\ Len(m) <= Len(s) + 1
      /\ Len(m) \in Nat /\ Len(s) \in Nat
  BY MoveToEndFacts
<1> HIDE DEF m
<1>2. CASE Len(m) > MaxCache
  <2>1. m # <<>>
    BY <1>1, <1>2, MaxCacheAssumption
  <2> QED
    BY <1>1, <1>2, <2>1, TailFacts, MaxCacheAssumption DEF Evict, m
<1>3. CASE ~ (Len(m) > MaxCache)
  BY <1>1, <1>3, MaxCacheAssumption DEF Evict, m
<1> QED
  BY <1>2, <1>3

-----------------------------------------------------------------------------
(* The pump. *)

KeysOf(js) == {j.key : j \in js}

\* What one call of _pump_ahead_behind keeps, whichever branch it takes: no
\* key is lost or doubled, and one job runs at most.
LEMMA PumpFacts ==
    ASSUME NEW queue \in Seq(Keys), NEW n \in Nat, NEW js \in SUBSET Jobs,
           NoDuplicates(queue),
           Members(queue) \cap KeysOf(js) = {},
           \A i, j \in js : i = j,
           n = 0 <=> js = {},
           n <= 1,
           Pump(queue, n, js)
    PROVE  /\ pending' \in Seq(Keys)
           /\ NoDuplicates(pending)'
           /\ inflight' \in Nat
           /\ jobs' \subseteq Jobs
           /\ OneLookup'
           /\ Members(pending)' \cap InFlightKeys' = {}
           /\ Members(pending)' \cup InFlightKeys' = Members(queue) \cup KeysOf(js)
<1>1. CASE AtCapacity(n) \/ queue = <<>>
  <2>1. pending' = queue /\ inflight' = n /\ jobs' = js
    BY <1>1 DEF Pump
  <2> QED
    BY <2>1 DEF OneLookup, InFlightKeys, KeysOf, Members, NoDuplicates
<1>2. CASE ~ (AtCapacity(n) \/ queue = <<>>)
  <2> DEFINE j == [key |-> Head(queue), phase |-> "submitted"]
  <2>1. /\ n = 0 /\ js = {}
        /\ queue # <<>>
    BY <1>2 DEF AtCapacity
  <2>2. pending' = Tail(queue) /\ inflight' = 1 /\ jobs' = {j}
    BY <1>2, <2>1 DEF Pump
  <2>3. /\ pending' \in Seq(Keys)
        /\ Head(queue) \in Members(queue)
        /\ Members(queue) \subseteq Keys
        /\ Members(queue) = Members(pending') \cup {Head(queue)}
        /\ NoDuplicates(pending')
        /\ Head(queue) \notin Members(pending')
    BY <2>1, <2>2, TailFacts
  <2>4. j \in Jobs
    BY <2>3 DEF Jobs, Phases
  <2>5. InFlightKeys' = {Head(queue)} /\ KeysOf(js) = {}
    BY <2>1, <2>2 DEF InFlightKeys, KeysOf
  <2>6. Members(pending)' = Members(pending') /\ NoDuplicates(pending)' = NoDuplicates(pending')
    BY DEF Members, NoDuplicates
  <2>7. OneLookup'
    <3> HIDE DEF j
    <3> QED
      BY <2>2 DEF OneLookup
  <2> QED
    BY <2>2, <2>3, <2>4, <2>5, <2>6, <2>7
<1> QED
  BY <1>1, <1>2

-----------------------------------------------------------------------------
(* The invariant. *)

LEMMA InitInv == Init => Inv
<1> SUFFICES ASSUME Init PROVE Inv
  OBVIOUS
<1> USE DEF Init
<1>1. TypeOK
  BY MaxCacheAssumption DEF TypeOK, NoDuplicates, Results
<1>2. OneLookup
  BY DEF OneLookup
<1>3. QueueWellFormed
  BY DEF QueueWellFormed, NoDuplicates, Members, InFlightKeys
<1>4. NoLookupOfCachedKey
  BY DEF NoLookupOfCachedKey, Members, InFlightKeys
<1>5. WaitersUnanswered /\ AnsweredAtMostOnce
  BY DEF WaitersUnanswered, AnsweredAtMostOnce
<1> QED
  BY <1>1, <1>2, <1>3, <1>4, <1>5 DEF Inv

\* A step that only touches the order of the cache.
LEMMA TouchFacts ==
    ASSUME Inv, NEW k \in Keys, Cached(k), lru' = MoveToEnd(lru, k)
    PROVE  /\ lru' \in Seq(Keys)
           /\ Len(lru') <= MaxCache
           /\ NoDuplicates(lru')
           /\ Members(lru') = Members(lru)
<1>1. lru \in Seq(Keys) /\ NoDuplicates(lru) /\ Len(lru) <= MaxCache /\ k \in Members(lru)
  BY DEF Inv, TypeOK, Cached
<1>2. /\ MoveToEnd(lru, k) \in Seq(Keys)
      /\ Members(MoveToEnd(lru, k)) = Members(lru) \cup {k}
      /\ NoDuplicates(MoveToEnd(lru, k))
      /\ Len(MoveToEnd(lru, k)) = Len(lru)
  BY <1>1, MoveToEndFacts
<1>3. Members(lru) \cup {k} = Members(lru)
  BY <1>1
<1> QED
  BY <1>1, <1>2, <1>3

\* Nothing about the queue depends on the order of the cache.
LEMMA QueueUnchangedFacts ==
    ASSUME Inv, Members(lru') = Members(lru), UNCHANGED <<waiters, pending, jobs>>
    PROVE  QueueWellFormed' /\ NoLookupOfCachedKey'
<1>1. /\ Members(lru)' = Members(lru) /\ Members(pending)' = Members(pending)
      /\ NoDuplicates(pending)' = NoDuplicates(pending)
      /\ InFlightKeys' = InFlightKeys
  BY DEF Members, NoDuplicates, InFlightKeys
<1>2. QueueWellFormed'
  BY <1>1 DEF Inv, QueueWellFormed
<1>3. NoLookupOfCachedKey'
  BY <1>1 DEF Inv, NoLookupOfCachedKey
<1> QED
  BY <1>2, <1>3

LEMMA RequestCachedInv ==
    ASSUME Inv, NEW r \in Requests, NEW k \in Keys, RequestCached(r, k)
    PROVE  Inv'
<1>1. /\ r \notin asked /\ Cached(k)
      /\ asked' = asked \cup {r} /\ lru' = MoveToEnd(lru, k)
      /\ calls' = IF value[k] = "counts" THEN [calls EXCEPT ![r] = @ + 1] ELSE calls
      /\ UNCHANGED <<value, waiters, pending, inflight, jobs, cancelled>>
  BY DEF RequestCached, AnswerFromCache
<1>2. /\ lru' \in Seq(Keys) /\ Len(lru') <= MaxCache /\ NoDuplicates(lru')
      /\ Members(lru') = Members(lru)
  BY <1>1, TouchFacts
<1>3. TypeOK' /\ OneLookup'
  BY <1>1, <1>2 DEF Inv, TypeOK, OneLookup, NoDuplicates
<1>4. QueueWellFormed' /\ NoLookupOfCachedKey'
  BY <1>1, <1>2, QueueUnchangedFacts
<1>5. calls \in [Requests -> Nat] /\ calls[r] = 0 /\ \A kk \in Keys : r \notin waiters[kk]
  BY <1>1 DEF Inv, TypeOK, WaitersUnanswered
<1>6. \A q \in Requests : calls'[q] = calls[q] \/ (q = r /\ calls'[q] = 1)
  BY <1>1, <1>5
<1>7. WaitersUnanswered' /\ AnsweredAtMostOnce'
  BY <1>1, <1>5, <1>6 DEF Inv, TypeOK, WaitersUnanswered, AnsweredAtMostOnce
<1> QED
  BY <1>3, <1>4, <1>7 DEF Inv

LEMMA RequestLookupInv ==
    ASSUME Inv, NEW r \in Requests, NEW k \in Keys, RequestLookup(r, k)
    PROVE  Inv'
<1> DEFINE queue == IF waiters[k] = {} THEN Append(pending, k) ELSE pending
<1>1. /\ r \notin asked /\ k \notin Members(lru)
      /\ asked' = asked \cup {r}
      /\ waiters' = [waiters EXCEPT ![k] = @ \cup {r}]
      /\ Pump(queue, inflight, jobs)
      /\ UNCHANGED <<lru, value, cancelled, calls>>
  BY DEF RequestLookup, Enlist, Cached
<1>2. /\ pending \in Seq(Keys) /\ NoDuplicates(pending)
      /\ inflight \in Nat /\ inflight <= 1
      /\ jobs \in SUBSET Jobs
      /\ \A i, j \in jobs : i = j
      /\ inflight = 0 <=> jobs = {}
      /\ InFlightKeys = KeysOf(jobs)
      /\ Members(pending) \cap InFlightKeys = {}
      /\ \A kk \in Keys : waiters[kk] # {} <=> kk \in Members(pending) \cup InFlightKeys
      /\ waiters \in [Keys -> SUBSET Requests]
  BY DEF Inv, TypeOK, OneLookup, QueueWellFormed, InFlightKeys, KeysOf
<1>3. /\ queue \in Seq(Keys) /\ NoDuplicates(queue)
      /\ Members(queue) \cap KeysOf(jobs) = {}
      /\ Members(queue) \cup KeysOf(jobs) = Members(pending) \cup InFlightKeys \cup {k}
  <2>1. CASE waiters[k] = {}
    BY <1>2, <2>1, AppendFacts
  <2>2. CASE waiters[k] # {}
    BY <1>2, <2>2
  <2> QED
    BY <2>1, <2>2
<1> HIDE DEF queue
<1>4. /\ pending' \in Seq(Keys) /\ NoDuplicates(pending)'
      /\ inflight' \in Nat /\ jobs' \subseteq Jobs /\ OneLookup'
      /\ Members(pending)' \cap InFlightKeys' = {}
      /\ Members(pending)' \cup InFlightKeys' = Members(pending) \cup InFlightKeys \cup {k}
  BY <1>1, <1>2, <1>3, PumpFacts
<1>5. \A kk \in Keys : waiters'[kk] = IF kk = k THEN waiters[k] \cup {r} ELSE waiters[kk]
  BY <1>1, <1>2
<1>6. TypeOK'
  BY <1>1, <1>2, <1>4, <1>5 DEF Inv, TypeOK, NoDuplicates
<1>7. QueueWellFormed'
  BY <1>2, <1>4, <1>5 DEF QueueWellFormed
<1>8. NoLookupOfCachedKey'
  <2>1. Members(lru)' = Members(lru)
    BY <1>1 DEF Members
  <2> QED
    BY <1>1, <1>4, <2>1 DEF Inv, NoLookupOfCachedKey
<1>9. WaitersUnanswered' /\ AnsweredAtMostOnce'
  BY <1>1, <1>2, <1>5 DEF Inv, TypeOK, WaitersUnanswered, AnsweredAtMostOnce
<1> QED
  BY <1>4, <1>6, <1>7, <1>8, <1>9 DEF Inv

LEMMA TryGetInv ==
    ASSUME Inv, NEW k \in Keys, TryGet(k)
    PROVE  Inv'
<1>1. /\ lru' \in Seq(Keys) /\ Len(lru') <= MaxCache /\ NoDuplicates(lru')
      /\ Members(lru') = Members(lru)
      /\ UNCHANGED <<value, waiters, pending, inflight, jobs, cancelled, asked, calls>>
  BY TouchFacts DEF TryGet
<1>2. TypeOK' /\ OneLookup'
  BY <1>1 DEF Inv, TypeOK, OneLookup, NoDuplicates
<1>3. QueueWellFormed' /\ NoLookupOfCachedKey'
  BY <1>1, QueueUnchangedFacts
<1>4. WaitersUnanswered' /\ AnsweredAtMostOnce'
  BY <1>1 DEF Inv, WaitersUnanswered, AnsweredAtMostOnce
<1> QED
  BY <1>2, <1>3, <1>4 DEF Inv

LEMMA CancelInv ==
    ASSUME Inv, NEW r \in Requests, Cancel(r)
    PROVE  Inv'
<1>1. /\ r \in asked /\ cancelled' = cancelled \cup {r}
      /\ UNCHANGED <<lru, value, waiters, pending, inflight, jobs, asked, calls>>
  BY DEF Cancel
<1>2. TypeOK' /\ OneLookup'
  BY <1>1 DEF Inv, TypeOK, OneLookup, NoDuplicates
<1>3. QueueWellFormed' /\ NoLookupOfCachedKey'
  BY <1>1, QueueUnchangedFacts
<1>4. WaitersUnanswered' /\ AnsweredAtMostOnce'
  BY <1>1 DEF Inv, WaitersUnanswered, AnsweredAtMostOnce
<1> QED
  BY <1>2, <1>3, <1>4 DEF Inv

\* The two steps of the worker change the phase of the only job.
LEMMA AdvanceInv ==
    ASSUME Inv, NEW j \in jobs, NEW phase \in Phases, Advance(j, phase),
           UNCHANGED <<lru, value, waiters, pending, inflight, cancelled, asked, calls>>
    PROVE  Inv'
<1> DEFINE jj == [j EXCEPT !.phase = phase]
<1>1. jobs = {j} /\ j \in Jobs /\ inflight # 0 /\ inflight <= 1
  BY DEF Inv, TypeOK, OneLookup
<1>2. jj \in Jobs /\ jj.key = j.key
  BY <1>1 DEF Jobs
<1>3. jobs' = {jj}
  BY <1>1 DEF Advance
<1> HIDE DEF jj
<1>4. InFlightKeys' = {j.key} /\ InFlightKeys = {j.key}
  BY <1>1, <1>2, <1>3 DEF InFlightKeys
<1>5. TypeOK'
  BY <1>2, <1>3 DEF Inv, TypeOK, NoDuplicates
<1>6. OneLookup'
  BY <1>1, <1>3 DEF OneLookup
<1>7. Members(lru)' = Members(lru) /\ Members(pending)' = Members(pending)
      /\ NoDuplicates(pending)' = NoDuplicates(pending)
  BY DEF Members, NoDuplicates
<1>8. QueueWellFormed' /\ NoLookupOfCachedKey'
  BY <1>4, <1>7 DEF Inv, QueueWellFormed, NoLookupOfCachedKey
<1>9. WaitersUnanswered' /\ AnsweredAtMostOnce'
  BY DEF Inv, WaitersUnanswered, AnsweredAtMostOnce
<1> QED
  BY <1>5, <1>6, <1>8, <1>9 DEF Inv

\* Both branches of done() take the only job and its waiters away and pump.
LEMMA FinishFacts ==
    ASSUME Inv, NEW j \in jobs,
           waiters' = WaitersWithout(j.key),
           Pump(pending, SlotFreed, jobs \ {j})
    PROVE  /\ j.key \in Keys
           /\ waiters' \in [Keys -> SUBSET Requests]
           /\ \A k \in Keys : waiters'[k] = IF k = j.key THEN {} ELSE waiters[k]
           /\ pending' \in Seq(Keys) /\ inflight' \in Nat /\ jobs' \subseteq Jobs
           /\ OneLookup' /\ QueueWellFormed'
           /\ Members(pending)' \cup InFlightKeys' = Members(pending)
           /\ j.key \notin Members(pending)
<1>1. /\ pending \in Seq(Keys) /\ NoDuplicates(pending)
      /\ jobs = {j} /\ jobs \subseteq Jobs /\ j.key \in Keys
      /\ inflight \in Nat /\ inflight = 1
      /\ waiters \in [Keys -> SUBSET Requests]
  BY DEF Inv, TypeOK, OneLookup, QueueWellFormed, Jobs
<1>2. /\ InFlightKeys = {j.key}
      /\ Members(pending) \cap InFlightKeys = {}
      /\ \A k \in Keys : waiters[k] # {} <=> k \in Members(pending) \cup {j.key}
  <2>1. InFlightKeys = {j.key}
    BY <1>1 DEF InFlightKeys
  <2> QED
    BY <2>1 DEF Inv, QueueWellFormed
<1>3. SlotFreed = 0 /\ jobs \ {j} = {} /\ KeysOf(jobs \ {j}) = {}
  BY <1>1 DEF SlotFreed, KeysOf
<1>4. /\ pending' \in Seq(Keys) /\ NoDuplicates(pending)'
      /\ inflight' \in Nat /\ jobs' \subseteq Jobs /\ OneLookup'
      /\ Members(pending)' \cap InFlightKeys' = {}
      /\ Members(pending)' \cup InFlightKeys' = Members(pending)
  <2> DEFINE n == SlotFreed
             js == jobs \ {j}
  <2>1. n = 0 /\ js = {} /\ KeysOf(js) = {} /\ Pump(pending, n, js)
    BY <1>3
  <2> HIDE DEF n, js
  <2> QED
    BY <1>1, <2>1, PumpFacts
<1>5. /\ waiters' \in [Keys -> SUBSET Requests]
      /\ \A k \in Keys : waiters'[k] = IF k = j.key THEN {} ELSE waiters[k]
  BY <1>1 DEF WaitersWithout
<1>6. QueueWellFormed'
  BY <1>2, <1>4, <1>5 DEF QueueWellFormed
<1> QED
  BY <1>1, <1>2, <1>4, <1>5, <1>6

LEMMA DoneSkippedInv ==
    ASSUME Inv, NEW j \in jobs, DoneSkipped(j)
    PROVE  Inv'
<1>1. /\ waiters' = WaitersWithout(j.key)
      /\ Pump(pending, SlotFreed, jobs \ {j})
      /\ UNCHANGED <<lru, value, cancelled, asked, calls>>
  BY DEF DoneSkipped
<1>2. /\ j.key \in Keys
      /\ waiters' \in [Keys -> SUBSET Requests]
      /\ \A k \in Keys : waiters'[k] = IF k = j.key THEN {} ELSE waiters[k]
      /\ pending' \in Seq(Keys) /\ inflight' \in Nat /\ jobs' \subseteq Jobs
      /\ OneLookup' /\ QueueWellFormed'
      /\ Members(pending)' \cup InFlightKeys' = Members(pending)
  BY <1>1, FinishFacts
<1>3. TypeOK'
  BY <1>1, <1>2 DEF Inv, TypeOK, NoDuplicates
<1>4. NoLookupOfCachedKey'
  <2>1. Members(lru)' = Members(lru)
    BY <1>1 DEF Members
  <2> QED
    BY <1>2, <2>1 DEF Inv, NoLookupOfCachedKey
<1>5. WaitersUnanswered' /\ AnsweredAtMostOnce'
  BY <1>1, <1>2 DEF Inv, WaitersUnanswered, AnsweredAtMostOnce
<1> QED
  BY <1>2, <1>3, <1>4, <1>5 DEF Inv

LEMMA DoneLookupInv ==
    ASSUME Inv, NEW j \in jobs, DoneLookup(j)
    PROVE  Inv'
<1>1. /\ j.phase \in Results
      /\ lru' = Evict(MoveToEnd(lru, j.key))
      /\ value' = [value EXCEPT ![j.key] = j.phase]
      /\ waiters' = WaitersWithout(j.key)
      /\ calls' = [r \in Requests |->
                     IF j.phase = "counts" /\ r \in waiters[j.key] \ cancelled
                     THEN calls[r] + 1 ELSE calls[r]]
      /\ Pump(pending, SlotFreed, jobs \ {j})
      /\ UNCHANGED <<cancelled, asked>>
  BY DEF DoneLookup, ToAnswer
<1>2. /\ j.key \in Keys
      /\ waiters' \in [Keys -> SUBSET Requests]
      /\ \A k \in Keys : waiters'[k] = IF k = j.key THEN {} ELSE waiters[k]
      /\ pending' \in Seq(Keys) /\ inflight' \in Nat /\ jobs' \subseteq Jobs
      /\ OneLookup' /\ QueueWellFormed'
      /\ Members(pending)' \cup InFlightKeys' = Members(pending)
      /\ j.key \notin Members(pending)
  BY <1>1, FinishFacts
<1>3. /\ lru' \in Seq(Keys)
      /\ Members(lru') \subseteq Members(lru) \cup {j.key}
      /\ NoDuplicates(lru')
      /\ Len(lru') <= MaxCache
  <2>1. lru \in Seq(Keys) /\ NoDuplicates(lru) /\ Len(lru) <= MaxCache
    BY DEF Inv, TypeOK
  <2> QED
    BY <1>1, <1>2, <2>1, EvictFacts
<1>4. /\ calls' \in [Requests -> Nat]
      /\ \A r \in Requests :
            \/ calls'[r] = calls[r]
            \/ r \in waiters[j.key] /\ calls'[r] = calls[r] + 1
  BY <1>1 DEF Inv, TypeOK
<1>5. TypeOK'
  <2>1. value' \in [Keys -> Results]
    BY <1>1, <1>2 DEF Inv, TypeOK
  <2>2. NoDuplicates(lru)' = NoDuplicates(lru')
    BY DEF NoDuplicates
  <2> QED
    BY <1>1, <1>2, <1>3, <1>4, <2>1, <2>2 DEF Inv, TypeOK
<1>6. NoLookupOfCachedKey'
  <2>1. Members(lru)' = Members(lru')
    BY DEF Members
  <2> QED
    BY <1>2, <1>3, <2>1 DEF Inv, NoLookupOfCachedKey
<1>7. \A r \in waiters[j.key] : calls[r] = 0 /\ r \in asked
  BY <1>2 DEF Inv, WaitersUnanswered
<1>8. \A k \in Keys : \A r \in waiters'[k] :
         k # j.key /\ r \in waiters[k] /\ r \notin waiters[j.key] /\ r \in Requests
  BY <1>2 DEF Inv, TypeOK, WaitersUnanswered
<1>9. WaitersUnanswered'
  <2>1. \A k \in Keys : \A r \in waiters'[k] : r \in asked' /\ calls'[r] = 0
    BY <1>1, <1>4, <1>8 DEF Inv, WaitersUnanswered
  <2>2. \A r \in Requests \ asked' : calls'[r] = 0
    BY <1>1, <1>4, <1>7 DEF Inv, WaitersUnanswered
  <2>3. \A k1, k2 \in Keys : waiters'[k1] \cap waiters'[k2] # {} => k1 = k2
    BY <1>2 DEF Inv, WaitersUnanswered
  <2> QED
    BY <2>1, <2>2, <2>3 DEF WaitersUnanswered
<1>10. AnsweredAtMostOnce'
  BY <1>4, <1>7 DEF Inv, TypeOK, AnsweredAtMostOnce
<1> QED
  BY <1>2, <1>5, <1>6, <1>9, <1>10 DEF Inv

LEMMA StepInv == Inv /\ [Next]_vars => Inv'
<1> SUFFICES ASSUME Inv, [Next]_vars PROVE Inv'
  OBVIOUS
<1>1. ASSUME NEW r \in Requests, NEW k \in Keys, RequestCached(r, k) PROVE Inv'
  BY <1>1, RequestCachedInv
<1>2. ASSUME NEW r \in Requests, NEW k \in Keys, RequestLookup(r, k) PROVE Inv'
  BY <1>2, RequestLookupInv
<1>3. ASSUME NEW k \in Keys, TryGet(k) PROVE Inv'
  BY <1>3, TryGetInv
<1>4. ASSUME NEW r \in Requests, Cancel(r) PROVE Inv'
  BY <1>4, CancelInv
<1>5. ASSUME NEW j \in jobs, WorkLooks(j) PROVE Inv'
  <2> DEFINE phase == IF waiters[j.key] \subseteq cancelled THEN "skipped" ELSE "looking"
  <2>1. phase \in Phases /\ Advance(j, phase)
    BY <1>5 DEF WorkLooks, Phases
  <2>2. UNCHANGED <<lru, value, waiters, pending, inflight, cancelled, asked, calls>>
    BY <1>5 DEF WorkLooks
  <2> QED
    BY <2>1, <2>2, AdvanceInv
<1>6. ASSUME NEW j \in jobs, WorkReturns(j) PROVE Inv'
  <2>1. PICK res \in Results : Advance(j, res)
    BY <1>6 DEF WorkReturns
  <2>2. res \in Phases
    BY DEF Phases
  <2>3. UNCHANGED <<lru, value, waiters, pending, inflight, cancelled, asked, calls>>
    BY <1>6 DEF WorkReturns
  <2> QED
    BY <2>1, <2>2, <2>3, AdvanceInv
<1>7. ASSUME NEW j \in jobs, DoneSkipped(j) PROVE Inv'
  BY <1>7, DoneSkippedInv
<1>8. ASSUME NEW j \in jobs, DoneLookup(j) PROVE Inv'
  BY <1>8, DoneLookupInv
<1>9. CASE UNCHANGED vars
  <2>1. Members(lru') = Members(lru) /\ UNCHANGED <<waiters, pending, jobs>>
    BY <1>9 DEF vars
  <2>2. QueueWellFormed' /\ NoLookupOfCachedKey'
    BY <2>1, QueueUnchangedFacts
  <2> QED
    BY <1>9, <2>2 DEF vars, Inv, TypeOK, OneLookup, WaitersUnanswered, AnsweredAtMostOnce,
                      NoDuplicates
<1> QED
  BY <1>1, <1>2, <1>3, <1>4, <1>5, <1>6, <1>7, <1>8, <1>9 DEF Next, JobStep

-----------------------------------------------------------------------------
(* The theorems. *)

\* The inductive invariant holds of every behaviour of the store.
THEOREM Invariance == Spec => []Inv
<1>1. Init => Inv
  BY InitInv
<1>2. Inv /\ [Next]_vars => Inv'
  BY StepInv
<1> QED
  BY <1>1, <1>2, PTL DEF Spec

\* Types, and the cache that neither exceeds its limit nor repeats a key.
THEOREM TypeCorrect == Spec => []TypeOK
<1>1. Inv => TypeOK
  BY DEF Inv
<1> QED
  BY <1>1, Invariance, PTL

\* MaxConcurrent = 1: at most one git lookup, and a counter that says so.
THEOREM SingleLookup == Spec => []OneLookup
<1>1. Inv => OneLookup
  BY DEF Inv
<1> QED
  BY <1>1, Invariance, PTL

\* Every waiter list has a queued key or a running job to serve it.
THEOREM ListsAreServed == Spec => []NoOrphanList
<1>1. Inv => NoOrphanList
  BY DEF Inv, QueueWellFormed, NoOrphanList
<1> QED
  BY <1>1, Invariance, PTL

\* Git is never asked for a pair the cache holds, a failed one included.
THEOREM CachedIsNotLookedUp == Spec => []NoLookupOfCachedKey
<1>1. Inv => NoLookupOfCachedKey
  BY DEF Inv
<1> QED
  BY <1>1, Invariance, PTL

\* The callback of a request is called at most once.
THEOREM OneAnswer == Spec => []AnsweredAtMostOnce
<1>1. Inv => AnsweredAtMostOnce
  BY DEF Inv
<1> QED
  BY <1>1, Invariance, PTL

\* The callback of a cancelled request is never called.
THEOREM CancelIsFinal == Spec => SilentAfterCancel
<1> DEFINE Quiet == \A r \in cancelled : calls'[r] = calls[r]
<1>1. Inv /\ [Next]_vars => [Quiet]_vars
  <2> SUFFICES ASSUME Inv, Next, NEW q \in cancelled PROVE calls'[q] = calls[q]
    OBVIOUS
  <2>1. q \in asked /\ q \in Requests /\ calls \in [Requests -> Nat]
    BY DEF Inv, TypeOK
  <2>2. ASSUME NEW r \in Requests, NEW k \in Keys, RequestCached(r, k)
        PROVE  calls'[q] = calls[q]
    BY <2>1, <2>2 DEF RequestCached, AnswerFromCache
  <2>3. ASSUME NEW r \in Requests, NEW k \in Keys, RequestLookup(r, k)
        PROVE  calls'[q] = calls[q]
    BY <2>3 DEF RequestLookup
  <2>4. ASSUME NEW k \in Keys, TryGet(k) PROVE calls'[q] = calls[q]
    BY <2>4 DEF TryGet
  <2>5. ASSUME NEW r \in Requests, Cancel(r) PROVE calls'[q] = calls[q]
    BY <2>5 DEF Cancel
  <2>6. ASSUME NEW j \in jobs, WorkLooks(j) \/ WorkReturns(j) PROVE calls'[q] = calls[q]
    BY <2>6 DEF WorkLooks, WorkReturns
  <2>7. ASSUME NEW j \in jobs, DoneSkipped(j) PROVE calls'[q] = calls[q]
    BY <2>7 DEF DoneSkipped
  <2>8. ASSUME NEW j \in jobs, DoneLookup(j) PROVE calls'[q] = calls[q]
    BY <2>1, <2>8 DEF DoneLookup, ToAnswer
  <2> QED
    BY <2>2, <2>3, <2>4, <2>5, <2>6, <2>7, <2>8 DEF Next, JobStep
<1> QED
  BY <1>1, Invariance, PTL DEF Spec, SilentAfterCancel
=============================================================================
