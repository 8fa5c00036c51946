--------------------------- MODULE RemoteSyncProofs ---------------------------
(***************************************************************************)
(* Theorems about RemoteSync for every number of commits, every set of     *)
(* tags and any number of overlapping jobs.  Inv (in RemoteSync) is the    *)
(* inductive invariant.                                                    *)
(***************************************************************************)
EXTENDS RemoteSync, TLAPS

-----------------------------------------------------------------------------
(* How the steps change the jobs. *)

LEMMA IdleFacts ==
    /\ Idle \in Jobs /\ Idle.kind = "none" /\ Idle.at = "idle" /\ Idle.alone = FALSE
    /\ Idle.result = "ok"
    /\ \A clears \in BOOLEAN :
          LET j == RefreshJob(clears) IN
          /\ j \in Jobs /\ j.kind = "refresh" /\ j.at = "read" /\ j.alone = FALSE
          /\ j.result = "ok" /\ j.clears = clears
BY DEF Idle, RefreshJob, Jobs, NoView, Views, Heads, Results, Steps

LEMMA NewJobFacts ==
    ASSUME TypeOK, NEW kind \in Operations, NEW tags \in SUBSET Tags, NEW force \in BOOLEAN
    PROVE  LET j == NewJob(kind, tags, force) IN
           /\ j \in Jobs /\ j.kind = kind /\ j.at = FirstStep(kind)
           /\ j.result = "ok" \/ (kind = "push" /\ j.result = "refused")
           /\ j.tags = tags /\ j.alone = NothingRuns
<1>1. NothingRuns \in BOOLEAN /\ shown \in Views
  BY DEF NothingRuns, TypeOK
<1>2. NoView \in Views /\ {"ok", "refused"} \subseteq Results /\ FirstStep(kind) \in Steps
  BY DEF NoView, Views, Heads, Results, FirstStep, Operations, Steps
<1>3. Cached(kind) \in Views
  BY <1>1, <1>2 DEF Cached, Views
<1> HIDE DEF Cached
<1> QED
  BY <1>1, <1>2, <1>3 DEF NewJob, Jobs

LEMMA BeginFacts ==
    ASSUME TypeOK, NEW s \in Slots, NEW kind \in Operations, NEW tags \in SUBSET Tags,
           NEW force \in BOOLEAN, Begin(s, kind, tags, force)
    PROVE  /\ job[s] = Idle
           /\ job' \in [Slots -> Jobs]
           /\ job'[s] = NewJob(kind, tags, force)
           /\ \A u \in Slots \ {s} :
                 /\ job'[u].alone = FALSE
                 /\ job'[u].kind = job[u].kind /\ job'[u].at = job[u].at
                 /\ job'[u].result = job[u].result /\ job'[u].clears = job[u].clears
<1>1. \A j \in Jobs : LET k == [j EXCEPT !.alone = FALSE] IN
        /\ k \in Jobs /\ k.alone = FALSE /\ k.kind = j.kind /\ k.at = j.at
        /\ k.result = j.result /\ k.clears = j.clears
  BY DEF Jobs
<1>2. NewJob(kind, tags, force) \in Jobs
  BY NewJobFacts
<1>3. job \in [Slots -> Jobs]
  BY DEF TypeOK
<1> QED
  BY <1>1, <1>2, <1>3 DEF Begin

LEMMA AfterFacts ==
    /\ After["refetch"] = "done" /\ After["pull"] = "tags" /\ After["fetch"] = "tags"
    /\ After["tag"] = "done" /\ After["untag"] = "done" /\ After["rewrite"] = "done"
BY DEF After

\* A job that goes on to another step, and no other job changes.
Moved(s, at, result) ==
    /\ job' \in [Slots -> Jobs]
    /\ job'[s].kind = job[s].kind /\ job'[s].alone = job[s].alone
    /\ job'[s].clears = job[s].clears
    /\ job'[s].at = at /\ job'[s].result = result
    /\ \A u \in Slots \ {s} : job'[u] = job[u]

LEMMA ContinueFacts ==
    ASSUME TypeOK, NEW s \in Slots, Continue(s), After[job[s].at] \in Steps
    PROVE  Moved(s, After[job[s].at], job[s].result) /\ job'[s].tags = job[s].tags
<1>1. \A j \in Jobs, at \in Steps : LET k == [j EXCEPT !.at = at] IN
        /\ k \in Jobs /\ k.alone = j.alone /\ k.kind = j.kind /\ k.at = at
        /\ k.result = j.result /\ k.clears = j.clears /\ k.tags = j.tags
  BY DEF Jobs
<1>2. job \in [Slots -> Jobs]
  BY DEF TypeOK
<1> QED
  BY <1>1, <1>2 DEF Continue, Moved

LEMMA FinishFacts ==
    ASSUME TypeOK, NEW s \in Slots, NEW result \in Results, Finish(s, result)
    PROVE  Moved(s, "done", result)
<1>1. \A j \in Jobs :
        LET k == [j EXCEPT !.at = "done", !.result = result, !.force = FALSE, !.tags = {},
                           !.snapshot = NoView] IN
        /\ k \in Jobs /\ k.alone = j.alone /\ k.kind = j.kind /\ k.at = "done"
        /\ k.result = result /\ k.clears = j.clears
  BY ZenonT(60) DEF Jobs, Steps, NoView, Views, Heads
<1>2. job \in [Slots -> Jobs]
  BY DEF TypeOK
<1> QED
  BY <1>1, <1>2 DEF Finish, Moved

\* GitPush, when the push succeeds.
Pushed(s) == job' = [job EXCEPT ![s] = [@ EXCEPT !.at = "refetch", !.snapshot = NoView]]

LEMMA PushedFacts ==
    ASSUME TypeOK, NEW s \in Slots, Pushed(s)
    PROVE  Moved(s, "refetch", job[s].result) /\ job'[s].tags = job[s].tags
<1>1. \A j \in Jobs : LET k == [j EXCEPT !.at = "refetch", !.snapshot = NoView] IN
        /\ k \in Jobs /\ k.alone = j.alone /\ k.kind = j.kind /\ k.at = "refetch"
        /\ k.result = j.result /\ k.clears = j.clears /\ k.tags = j.tags
  BY ZenonT(60) DEF Jobs, Steps, NoView, Views, Heads
<1>2. job \in [Slots -> Jobs]
  BY DEF TypeOK
<1> QED
  BY <1>1, <1>2 DEF Pushed, Moved

-----------------------------------------------------------------------------
(* The steps of Next, grouped by what they do to the jobs. *)

Works(s) ==
    \/ GitPush(s) \/ GitRefetch(s) \/ GitFetch(s) \/ GitPull(s) \/ ReadTags(s)
    \/ GitTag(s) \/ GitRewrite(s) \/ RefreshRead(s)

\* A step of the worker takes the job to its next step, or to done().
WorkMoves(s) ==
    /\ job[s].at \in {"push", "refetch", "pull", "fetch", "tags", "tag", "untag", "rewrite", "read"}
    /\ \/ job[s].at = "push" /\ Moved(s, "refetch", "ok")
       \/ job[s].at = "tags" /\ Moved(s, "done", "ok")
       \/ job[s].at = "read" /\ Moved(s, "apply", "ok")
       \/ job[s].at \notin {"push", "tags", "read"} /\ Moved(s, After[job[s].at], "ok")
       \/ job[s].at # "read" /\ \E result \in Results : Moved(s, "done", result)
    /\ UNCHANGED <<tagsToPush, inFlight>>

LEMMA WorkFacts ==
    ASSUME TypeOK, JobsInOrder, NEW s \in Slots, Works(s)
    PROVE  WorkMoves(s)
<1> USE AfterFacts
<1>a. /\ job[s].at \in {"refetch", "pull", "fetch", "tags", "tag", "untag", "rewrite", "read"}
         => job[s].result = "ok"
      /\ job[s].at \in {"refetch", "pull", "fetch", "tag", "untag", "rewrite"}
         => After[job[s].at] \in Steps
      /\ job[s].at = "push" => job[s].result \in {"ok", "refused"}
      /\ {"ok", "error", "rejected", "refused"} = Results
  BY DEF JobsInOrder, Steps, Results
<1>b. job \in [Slots -> Jobs]
  BY DEF TypeOK
<1>c. local \in SUBSET Commits /\ tracking \in SUBSET Commits
  BY CommitAssumption DEF TypeOK, Made, Commits
<1>1. CASE GitPush(s)
  <2>1. job[s].at = "push" /\ UNCHANGED <<tagsToPush, inFlight>>
    BY <1>1 DEF GitPush, AtStep
  <2>2. \/ Pushed(s) /\ job[s].result = "ok"
        \/ \E result \in Results : Finish(s, result)
    BY <1>1, <1>a, <2>1 DEF GitPush, Pushed
  <2> QED
    BY <2>1, <2>2, PushedFacts, FinishFacts DEF WorkMoves
<1>2. CASE GitRefetch(s)
  BY <1>2, <1>a, ContinueFacts DEF GitRefetch, AtStep, WorkMoves, store
<1>3. CASE GitFetch(s)
  <2>1. job[s].at = "fetch" /\ UNCHANGED <<tagsToPush, inFlight>>
    BY <1>3 DEF GitFetch, AtStep
  <2>2. Continue(s) \/ Finish(s, "error")
    BY <1>3 DEF GitFetch
  <2> QED
    BY <2>1, <2>2, <1>a, ContinueFacts, FinishFacts DEF WorkMoves
<1>4. CASE GitPull(s)
  <2>1. job[s].at = "pull" /\ UNCHANGED <<tagsToPush, inFlight>>
    BY <1>4 DEF GitPull, AtStep
  <2>2. Continue(s) \/ Finish(s, "error")
    BY <1>4 DEF GitPull
  <2> QED
    BY <2>1, <2>2, <1>a, ContinueFacts, FinishFacts DEF WorkMoves
<1>5. CASE ReadTags(s)
  <2>0. PICK named \in Present(shown.head) : \E found \in TagsRead(named) :
            job' = [job EXCEPT ![s] = [@ EXCEPT !.at = "done", !.tags = found, !.named = named]]
    BY <1>5 DEF ReadTags
  <2>1. PICK found \in TagsRead(named) :
            job' = [job EXCEPT ![s] = [@ EXCEPT !.at = "done", !.tags = found, !.named = named]]
    BY <2>0
  <2>2. /\ found \in SUBSET Tags /\ job[s].at = "tags" /\ UNCHANGED <<tagsToPush, inFlight>>
        /\ named \in BOOLEAN
    BY <1>5 DEF ReadTags, AtStep, Present, TagsRead, Unpushed, TypeOK, store
  <2>4. \A j \in Jobs : LET k == [j EXCEPT !.at = "done", !.tags = found, !.named = named] IN
          /\ k \in Jobs /\ k.alone = j.alone /\ k.kind = j.kind /\ k.at = "done"
          /\ k.result = j.result /\ k.clears = j.clears
    BY <2>2 DEF Jobs, Steps
  <2>5. Moved(s, "done", "ok")
    BY <2>1, <2>2, <2>4, <1>a, <1>b DEF Moved
  <2> QED
    BY <2>2, <2>5 DEF WorkMoves
<1>6. CASE GitTag(s)
  <2>1. job[s].at \in {"tag", "untag"} /\ UNCHANGED <<tagsToPush, inFlight>>
    BY <1>6 DEF GitTag, AtStep, store
  <2>2. Continue(s) \/ Finish(s, "error")
    BY <1>6 DEF GitTag
  <2> QED
    BY <2>1, <2>2, <1>a, ContinueFacts, FinishFacts DEF WorkMoves
<1>7. CASE GitRewrite(s)
  <2>1. job[s].at = "rewrite" /\ UNCHANGED <<tagsToPush, inFlight>>
    BY <1>7 DEF GitRewrite, AtStep, store
  <2>2. Continue(s) \/ Finish(s, "error")
    BY <1>7 DEF GitRewrite
  <2> QED
    BY <2>1, <2>2, <1>a, ContinueFacts, FinishFacts DEF WorkMoves
<1>8. CASE RefreshRead(s)
  <2>1. job[s].at = "read" /\ UNCHANGED <<tagsToPush, inFlight>>
    BY <1>8 DEF RefreshRead, AtStep, store
  <2>3. PICK view \in ReadView :
            job' = [job EXCEPT ![s] = [@ EXCEPT !.at = "apply", !.snapshot = view]]
    BY <1>8 DEF RefreshRead
  <2>2. view \in Views
    BY <1>c DEF ReadView, NoView, Views, Heads
  <2>4. \A j \in Jobs : LET k == [j EXCEPT !.at = "apply", !.snapshot = view] IN
          /\ k \in Jobs /\ k.alone = j.alone /\ k.kind = j.kind /\ k.at = "apply"
          /\ k.result = j.result /\ k.clears = j.clears
    BY <2>2 DEF Jobs, Steps
  <2>5. Moved(s, "apply", "ok")
    BY <2>1, <2>3, <2>4, <1>a, <1>b DEF Moved
  <2> QED
    BY <2>1, <2>5 DEF WorkMoves
<1> QED
  BY <1>1, <1>2, <1>3, <1>4, <1>5, <1>6, <1>7, <1>8 DEF Works

\* A user or a timer starts an operation.
Starts(s, kind, tags, force) ==
    /\ Begin(s, kind, tags, force)
    /\ kind = "push" => tags = tagsToPush
    /\ kind = "untag" => \E t \in Tags : tags = {t}
    /\ kind = "background" => ~ inFlight
    /\ inFlight' = (inFlight \/ kind = "background")
    /\ UNCHANGED <<git, tagsToPush, progress>>

StartsRefresh(s) ==
    /\ job[s] = Idle
    /\ job' = [job EXCEPT ![s] = RefreshJob(FALSE)]
    /\ UNCHANGED <<git, tagsToPush, progress, inFlight>>

LeavesJobs == UNCHANGED <<job, tagsToPush, remoteTags, tagAt, progress, inFlight>>

LEMMA EnvironmentFacts ==
    ASSUME TypeOK, Environment
    PROVE  \/ LeavesJobs /\ (Commit \/ UNCHANGED local)
           \/ \E s \in Slots, kind \in Operations, tags \in SUBSET Tags, force \in BOOLEAN :
                 Starts(s, kind, tags, force)
           \/ \E s \in Slots : StartsRefresh(s)
           \/ Restart
<1> DEFINE SomeStart == \E s \in Slots, kind \in Operations, tags \in SUBSET Tags, force \in BOOLEAN :
                            Starts(s, kind, tags, force)
<1>1. CASE Commit \/ TeammatePushes \/ CloseForcePush
  BY <1>1 DEF Commit, TeammatePushes, CloseForcePush, LeavesJobs, git, store
<1>2. CASE Restart
  BY <1>2
<1>3. ASSUME NEW s \in Slots, NEW force \in BOOLEAN, BeginPush(s, force),
             UNCHANGED <<git, tagsToPush, progress, inFlight>>
      PROVE  SomeStart
  <2>1. tagsToPush \in SUBSET Tags /\ inFlight \in BOOLEAN /\ "push" \in Operations
    BY DEF TypeOK, Operations
  <2>2. Starts(s, "push", tagsToPush, force)
    BY <1>3, <2>1 DEF BeginPush, Starts
  <2> QED
    BY <2>1, <2>2
<1>4. ASSUME NEW s \in Slots, NEW kind \in Operations \ {"push", "background"},
             NEW tags \in SUBSET Tags, Begin(s, kind, tags, FALSE),
             kind = "untag" => \E t \in Tags : tags = {t},
             UNCHANGED <<git, tagsToPush, progress, inFlight>>
      PROVE  SomeStart
  <2>1. inFlight \in BOOLEAN
    BY DEF TypeOK
  <2>2. Starts(s, kind, tags, FALSE)
    BY <1>4, <2>1 DEF Starts
  <2> QED
    BY <2>2
<1>5. ASSUME NEW s \in Slots, ConfirmOrForcePush(s),
             UNCHANGED <<git, tagsToPush, progress, inFlight>>
      PROVE  (LeavesJobs /\ UNCHANGED local) \/ SomeStart
  <2>1. CASE UNCHANGED job
    BY <1>5, <2>1 DEF LeavesJobs, git
  <2>2. CASE BeginPush(s, TRUE)
    BY <1>5, <1>3, <2>2
  <2> QED
    BY <1>5, <2>1, <2>2 DEF ConfirmOrForcePush
<1>6. ASSUME NEW s \in Slots, UserPushes(s) \/ UserForcePushes(s) \/ AnswerForcePush(s)
      PROVE  (LeavesJobs /\ UNCHANGED local) \/ SomeStart
  <2>1. UNCHANGED <<git, tagsToPush, progress, inFlight>>
    BY <1>6 DEF UserPushes, UserForcePushes, AnswerForcePush
  <2>2. ConfirmOrForcePush(s) \/ BeginPush(s, FALSE) \/ BeginPush(s, TRUE)
    BY <1>6 DEF UserPushes, UserForcePushes, AnswerForcePush
  <2> QED
    BY <2>1, <2>2, <1>3, <1>5
<1>7. ASSUME NEW s \in Slots, UserPulls(s) \/ UserFetches(s) \/ UserRewrites(s)
      PROVE  SomeStart
  <2>1. UNCHANGED <<git, tagsToPush, progress, inFlight>>
    BY <1>7 DEF UserPulls, UserFetches, UserRewrites, store
  <2>2. PICK kind \in {"pull", "fetch", "rewrite"} : Begin(s, kind, {}, FALSE)
    BY <1>7 DEF UserPulls, UserFetches, UserRewrites
  <2>3. kind \in Operations \ {"push", "background"} /\ kind # "untag" /\ {} \in SUBSET Tags
    BY <2>2 DEF Operations
  <2> HIDE DEF SomeStart
  <2> QED
    BY <2>1, <2>2, <2>3, <1>4
<1>8. ASSUME NEW s \in Slots, NEW t \in Tags, UserTags(s, t)
      PROVE  SomeStart
  <2>1. UNCHANGED <<git, tagsToPush, progress, inFlight>>
    BY <1>8 DEF UserTags, store
  <2>2. PICK kind \in {"tag", "untag"} : Begin(s, kind, {t}, FALSE)
    BY <1>8 DEF UserTags
  <2>3. kind \in Operations \ {"push", "background"} /\ {t} \in SUBSET Tags
    BY <2>2 DEF Operations
  <2> HIDE DEF SomeStart
  <2> QED
    BY <2>1, <2>2, <2>3, <1>4
<1>9. ASSUME NEW s \in Slots, BackgroundFetch(s)
      PROVE  SomeStart
  <2>1. "background" \in Operations /\ "background" # "push" /\ inFlight \in BOOLEAN
    BY DEF Operations, TypeOK
  <2>2. Starts(s, "background", {}, FALSE)
    BY <1>9, <2>1 DEF BackgroundFetch, Starts
  <2> QED
    BY <2>1, <2>2
<1>10. ASSUME NEW s \in Slots, UserRefreshes(s)
       PROVE  StartsRefresh(s)
  BY <1>10 DEF UserRefreshes, StartsRefresh, store
<1> QED
  BY <1>1, <1>2, <1>6, <1>7, <1>8, <1>9, <1>10 DEF Environment

\* done() turns the job into a refresh or empties the slot.
LEMMA DoneFacts ==
    ASSUME TypeOK, JobsInOrder, NEW s \in Slots, Done(s)
    PROVE  /\ job[s].at = "done" /\ Runs(s)
           /\ job' \in [Slots -> Jobs]
           /\ job'[s] = IF job[s].result = "ok"
                        THEN RefreshJob(job[s].kind \in {"push", "pull", "fetch"}) ELSE Idle
           /\ \A u \in Slots \ {s} : job'[u] = job[u]
<1>1. job \in [Slots -> Jobs]
  BY DEF TypeOK
<1>2. job[s].at = "done"
  BY DEF Done, AtStep
<1>3. Runs(s)
  BY <1>1, <1>2 DEF JobsInOrder, Runs, Jobs
<1>4. (job[s].kind \in {"push", "pull", "fetch"}) \in BOOLEAN
  OBVIOUS
<1>5. RefreshJob(job[s].kind \in {"push", "pull", "fetch"}) \in Jobs /\ Idle \in Jobs
  BY <1>4, IdleFacts
<1> QED
  BY <1>1, <1>2, <1>3, <1>5 DEF Done

LEMMA RefreshApplyFacts ==
    ASSUME TypeOK, NEW s \in Slots, RefreshApply(s)
    PROVE  /\ job[s].at = "apply"
           /\ job' \in [Slots -> Jobs]
           /\ job'[s] = Idle
           /\ \A u \in Slots \ {s} : job'[u] = job[u]
BY IdleFacts DEF RefreshApply, AtStep, TypeOK

\* Next, by what it does to the jobs.
LEMMA NextCases ==
    ASSUME TypeOK, JobsInOrder, Next
    PROVE  \/ LeavesJobs /\ (Commit \/ UNCHANGED local)
           \/ \E s \in Slots, kind \in Operations, tags \in SUBSET Tags, force \in BOOLEAN :
                 Starts(s, kind, tags, force)
           \/ \E s \in Slots : StartsRefresh(s)
           \/ Restart
           \/ \E s \in Slots : Works(s) \/ RefreshApply(s) \/ Done(s)
BY EnvironmentFacts DEF Next, JobStep, Works

-----------------------------------------------------------------------------
(* TypeOK. *)

LEMMA JobsTyped ==
    ASSUME TypeOK, JobsInOrder, Next
    PROVE  job' \in [Slots -> Jobs]
<1>1. CASE LeavesJobs
  BY <1>1 DEF LeavesJobs, TypeOK
<1>2. ASSUME NEW s \in Slots, NEW kind \in Operations, NEW tags \in SUBSET Tags,
             NEW force \in BOOLEAN, Starts(s, kind, tags, force)
      PROVE  job' \in [Slots -> Jobs]
  BY <1>2, BeginFacts DEF Starts
<1>3. ASSUME NEW s \in Slots, StartsRefresh(s)
      PROVE  job' \in [Slots -> Jobs]
  BY <1>3, IdleFacts DEF StartsRefresh, TypeOK
<1>4. CASE Restart
  BY <1>4, IdleFacts DEF Restart
<1>5. ASSUME NEW s \in Slots, Works(s) \/ RefreshApply(s) \/ Done(s)
      PROVE  job' \in [Slots -> Jobs]
  BY <1>5, WorkFacts, RefreshApplyFacts, DoneFacts DEF WorkMoves, Moved
<1> QED
  BY <1>1, <1>2, <1>3, <1>4, <1>5, NextCases

GitTyped ==
    /\ lastCommit \in Commits
    /\ local \subseteq Made /\ tracking \subseteq Made /\ remote \subseteq Made
    /\ tagAt \in [Tags -> Made \cup {0}]

LEMMA OneMore ==
    ASSUME TypeOK, lastCommit < MaxCommit, lastCommit' = lastCommit + 1
    PROVE  lastCommit' \in Commits /\ lastCommit' \in Made' /\ Made \subseteq Made'
BY CommitAssumption DEF TypeOK, Made, Commits

LEMMA GitStaysTyped ==
    ASSUME TypeOK, JobsInOrder, Next
    PROVE  GitTyped' /\ remoteTags' \subseteq Tags
<1> USE DEF GitTyped
<1>1. CASE UNCHANGED git
  BY <1>1 DEF git, TypeOK, Made
<1>2. CASE Commit \/ TeammatePushes
  <2>1. lastCommit' \in Commits /\ lastCommit' \in Made' /\ Made \subseteq Made'
    BY <1>2, OneMore DEF Commit, TeammatePushes
  <2> QED
    BY <1>2, <2>1 DEF Commit, TeammatePushes, TypeOK
<1>3. ASSUME NEW s \in Slots, GitPush(s) \/ GitRefetch(s) \/ GitFetch(s) \/ GitPull(s)
      PROVE  GitTyped' /\ remoteTags' \subseteq Tags
  <2>1. UNCHANGED <<lastCommit, tagAt>>
    BY <1>3 DEF GitPush, GitRefetch, GitFetch, GitPull, git
  <2>2. /\ local' \in {local, local \cup remote} /\ remote' \in {remote, local}
        /\ tracking' \in {tracking, remote, local}
    BY <1>3 DEF GitPush, GitRefetch, GitFetch, GitPull, git
  <2>3. remoteTags' \in {remoteTags, remoteTags \cup job[s].tags}
    BY <1>3 DEF GitPush, GitRefetch, GitFetch, GitPull, git
  <2>4. job[s].tags \subseteq Tags
    BY DEF TypeOK, Jobs
  <2> QED
    BY <2>1, <2>2, <2>3, <2>4 DEF TypeOK, Made
<1>4. ASSUME NEW s \in Slots, GitTag(s)
      PROVE  GitTyped' /\ remoteTags' \subseteq Tags
  <2>1. UNCHANGED <<local, tracking, remote, lastCommit, remoteTags>>
    BY <1>4 DEF GitTag
  <2>2. tagAt' = tagAt \/ \E t \in job[s].tags, c \in local \cup {0} : tagAt' = [tagAt EXCEPT ![t] = c]
    BY <1>4 DEF GitTag
  <2> QED
    BY <2>1, <2>2 DEF TypeOK, Made
<1>5. ASSUME NEW s \in Slots, GitRewrite(s)
      PROVE  GitTyped' /\ remoteTags' \subseteq Tags
  <2>1. UNCHANGED <<tracking, remote, tagAt, remoteTags>>
    BY <1>5 DEF GitRewrite
  <2>2. CASE UNCHANGED <<local, lastCommit>>
    BY <2>1, <2>2 DEF TypeOK, Made
  <2>3. CASE /\ lastCommit < MaxCommit /\ lastCommit' = lastCommit + 1
             /\ \E c \in local : local' = (local \ {c}) \cup {lastCommit'}
    <3>1. lastCommit' \in Commits /\ lastCommit' \in Made' /\ Made \subseteq Made'
      BY <2>3, OneMore
    <3> QED
      BY <2>1, <2>3, <3>1 DEF TypeOK
  <2> QED
    BY <1>5, <2>2, <2>3 DEF GitRewrite
<1>6. ASSUME NEW s \in Slots, ReadTags(s) \/ RefreshRead(s) \/ RefreshApply(s) \/ Done(s)
      PROVE  UNCHANGED git
  BY <1>6 DEF ReadTags, RefreshRead, RefreshApply, Done
<1>7. CASE Environment
  <2>1. Commit \/ TeammatePushes \/ UNCHANGED git
    BY <1>7 DEF Environment, CloseForcePush, Restart, UserPushes, UserForcePushes, UserPulls,
         UserFetches, AnswerForcePush, BackgroundFetch, UserTags, UserRewrites, UserRefreshes
  <2> QED
    BY <2>1, <1>1, <1>2
<1> QED
  BY <1>1, <1>3, <1>4, <1>5, <1>6, <1>7 DEF Next, JobStep

LEMMA StoreStaysTyped ==
    ASSUME TypeOK, JobsInOrder, Next
    PROVE  /\ tagsToPush' \subseteq Tags
           /\ shown' \in Views /\ leaseOn' \in [Names -> SUBSET Commits] /\ pending' \subseteq Commits
           /\ progress' \in BOOLEAN /\ inFlight' \in BOOLEAN /\ confirming' \in BOOLEAN
<1> DEFINE Typed ==
      /\ tagsToPush' \subseteq Tags
      /\ shown' \in Views /\ leaseOn' \in [Names -> SUBSET Commits] /\ pending' \subseteq Commits
      /\ progress' \in BOOLEAN /\ inFlight' \in BOOLEAN /\ confirming' \in BOOLEAN
<1>a. /\ tagsToPush \subseteq Tags
      /\ shown \in Views /\ leaseOn \in [Names -> SUBSET Commits] /\ pending \subseteq Commits
      /\ progress \in BOOLEAN /\ inFlight \in BOOLEAN /\ confirming \in BOOLEAN
      /\ local \subseteq Commits /\ tracking \subseteq Commits
      /\ \A s \in Slots : job[s].tags \subseteq Tags /\ job[s].snapshot \in Views
  BY CommitAssumption DEF TypeOK, Made, Commits, Jobs
<1>1. CASE Environment
  <2>1. CASE Restart
    <3>1. shown' \in Views
      BY <1>a, <2>1 DEF Restart, NoView, ReadView, Views, Heads
    <3>2. leaseOn' \in [Names -> SUBSET Commits] /\ pending' \subseteq Commits
      BY <2>1 DEF Restart, NoTip, NoLease
    <3>3. progress' \in BOOLEAN /\ inFlight' \in BOOLEAN /\ confirming' \in BOOLEAN
      BY <2>1 DEF Restart
    <3> QED
      BY <1>a, <2>1, <3>1, <3>2, <3>3 DEF Restart
  <2>2. CASE ~ Restart
    <3>1. UNCHANGED <<tagsToPush, shown, leaseOn, pending, progress>>
          /\ inFlight' \in {inFlight, TRUE} /\ confirming' \in {confirming, TRUE, FALSE}
      BY <1>1, <2>2 DEF Environment, Commit, TeammatePushes, CloseForcePush, UserPushes,
           UserForcePushes, ConfirmOrForcePush, UserPulls, UserFetches, AnswerForcePush,
           BackgroundFetch, UserTags, UserRewrites, UserRefreshes, store
    <3> QED
      BY <1>a, <3>1
  <2> QED
    BY <2>1, <2>2
<1>2. ASSUME NEW s \in Slots, Works(s)
      PROVE  Typed
  <2>1. /\ UNCHANGED <<tagsToPush, shown, leaseOn, pending, inFlight, confirming>>
        /\ progress' = progress \/ \E kind \in {"push", "pull", job[s].kind} : Shows(kind)
    BY <1>2 DEF Works, GitPush, GitRefetch, GitFetch, GitPull, ReadTags, GitTag, GitRewrite,
         RefreshRead, store
  <2>2. progress' \in BOOLEAN
    BY <1>a, <2>1 DEF Shows
  <2> QED
    BY <1>a, <2>1, <2>2
<1>3. ASSUME NEW s \in Slots, RefreshApply(s)
      PROVE  Typed
  <2>1. UNCHANGED <<tagsToPush, inFlight, confirming>> /\ progress' \in BOOLEAN
    BY <1>3 DEF RefreshApply
  <2>2. CASE UNCHANGED <<shown, leaseOn, pending>>
    BY <1>a, <2>1, <2>2
  <2>3. CASE /\ shown' = job[s].snapshot
             /\ leaseOn' = IF pending # NoTip /\ shown'.local # pending
                           THEN [leaseOn EXCEPT ![shown'.head] = shown'.local] ELSE leaseOn
             /\ pending' = NoTip
    <3>1. job[s].snapshot.local \subseteq Commits
      BY <1>a DEF Views
    <3> QED
      BY <1>a, <2>1, <2>3, <3>1 DEF NoTip
  <2> QED
    BY <1>3, <2>2, <2>3 DEF RefreshApply
<1>4. ASSUME NEW s \in Slots, Done(s)
      PROVE  Typed
  <2>1. tagsToPush' \subseteq Tags
    <3>1. tagsToPush' = TagsAfter(job[s]) /\ Runs(s)
      BY <1>4, DoneFacts DEF Done
    <3> QED
      BY <1>a, <3>1 DEF TagsAfter, Runs, Operations
  <2>2. leaseOn' \in {[leaseOn EXCEPT ![shown.head] = NoTip], leaseOn} /\ pending' \in {pending, job[s].snapshot.local}
    BY <1>4 DEF Done
  <2>3. progress' \in BOOLEAN /\ inFlight' \in BOOLEAN /\ confirming' \in BOOLEAN
    BY <1>a, <1>4 DEF Done, ProgressAfter, InFlightAfter
  <2>4. shown' = shown /\ job[s].snapshot.local \subseteq Commits
    BY <1>a, <1>4 DEF Done, Views
  <2> QED
    BY <1>a, <2>1, <2>2, <2>3, <2>4 DEF NoTip
<1> QED
  BY <1>1, <1>2, <1>3, <1>4 DEF Next, JobStep, Works

LEMMA TypeStep ==
    ASSUME TypeOK, JobsInOrder, Next
    PROVE  TypeOK'
BY JobsTyped, GitStaysTyped, StoreStaysTyped DEF TypeOK, GitTyped

-----------------------------------------------------------------------------
(* JobsInOrder, ProgressEnds and OneBackgroundFetch. *)

\* JobsInOrder is a statement about each job.
InOrder(j) ==
    /\ j.kind = "none" <=> j.at = "idle"
    /\ j.kind = "refresh" <=> j.at \in {"read", "apply"}
    /\ j.at \in Steps \ {"push", "done"} => j.result = "ok"
    /\ j.at = "push" => j.result \in {"ok", "refused"}
    /\ j.at \in {"push", "refetch"} => j.kind = "push"
    /\ j.at = "fetch" => j.kind \in {"fetch", "background"}
    /\ j.at = "pull" => j.kind = "pull"
    /\ j.at = "tags" => j.kind \in {"pull", "fetch", "background"}
    /\ j.at \in {"tag", "untag", "rewrite"} => j.kind = j.at

LEMMA OrderStep ==
    ASSUME TypeOK, JobsInOrder, Next
    PROVE  JobsInOrder'
<1> SUFFICES ASSUME NEW u \in Slots
             PROVE  InOrder(job'[u])
  BY DEF JobsInOrder, InOrder
<1>a. InOrder(job[u])
  BY DEF JobsInOrder, InOrder
<1>b. InOrder(Idle) /\ \A clears \in BOOLEAN : InOrder(RefreshJob(clears))
  BY IdleFacts DEF InOrder, Steps
<1>1. CASE UNCHANGED job
  BY <1>1, <1>a
<1>2. ASSUME NEW s \in Slots, NEW kind \in Operations, NEW tags \in SUBSET Tags,
             NEW force \in BOOLEAN, Starts(s, kind, tags, force)
      PROVE  InOrder(job'[u])
  <2> DEFINE new == NewJob(kind, tags, force)
  <2>1. CASE u = s
    <3>1. job'[s] = new
      BY <1>2, BeginFacts DEF Starts
    <3>2. /\ new.kind = kind /\ new.at = FirstStep(kind)
          /\ new.result = "ok" \/ (kind = "push" /\ new.result = "refused")
      BY NewJobFacts
    <3> HIDE DEF new
    <3> QED
      BY <2>1, <3>1, <3>2 DEF InOrder, FirstStep, Operations, Steps
  <2>2. CASE u # s
    <3>0. TypeOK /\ Begin(s, kind, tags, force)
      BY <1>2 DEF Starts
    <3>1. job'[u].kind = job[u].kind /\ job'[u].at = job[u].at /\ job'[u].result = job[u].result
      BY <2>2, <3>0, BeginFacts, ZenonT(60)
    <3> QED
      BY <1>a, <3>1 DEF InOrder
  <2> QED
    BY <2>1, <2>2
<1>3. ASSUME NEW s \in Slots, StartsRefresh(s)
      PROVE  InOrder(job'[u])
  BY <1>3, <1>a, <1>b DEF StartsRefresh, TypeOK
<1>4. CASE Restart
  BY <1>4, <1>b DEF Restart
<1>5. ASSUME NEW s \in Slots, Works(s)
      PROVE  InOrder(job'[u])
  <2>1. WorkMoves(s) /\ InOrder(job[s])
    BY <1>5, WorkFacts DEF JobsInOrder, InOrder
  <2>2. CASE u = s
    BY <2>1, <2>2, AfterFacts DEF WorkMoves, Moved, InOrder, Steps
  <2>3. CASE u # s
    BY <1>a, <2>1, <2>3 DEF WorkMoves, Moved
  <2> QED
    BY <2>2, <2>3
<1>6. ASSUME NEW s \in Slots, RefreshApply(s)
      PROVE  InOrder(job'[u])
  BY <1>6, <1>a, <1>b, RefreshApplyFacts
<1>7. ASSUME NEW s \in Slots, Done(s)
      PROVE  InOrder(job'[u])
  <2>1. (job[s].kind \in {"push", "pull", "fetch"}) \in BOOLEAN
    OBVIOUS
  <2> QED
    BY <1>7, <1>a, <1>b, <2>1, DoneFacts
<1> QED
  BY <1>1, <1>2, <1>3, <1>4, <1>5, <1>6, <1>7, NextCases DEF LeavesJobs

\* A job that accounts for the progress on screen.
Accounts(j) ==
    \/ j.kind \in {"push", "pull", "fetch"}
    \/ (j.kind = "refresh" /\ j.clears)

LEMMA ProgressStep ==
    ASSUME TypeOK, JobsInOrder, ProgressEnds, Next
    PROVE  ProgressEnds'
<1> SUFFICES ASSUME progress'
             PROVE  \E u \in Slots : Accounts(job'[u])
  BY DEF ProgressEnds, Accounts
<1> DEFINE Goal == \E u \in Slots : Accounts(job'[u])
<1>a. progress => \E u \in Slots : Accounts(job[u])
  BY DEF ProgressEnds, Accounts
<1>b. progress \in BOOLEAN
  BY DEF TypeOK
<1>1. CASE LeavesJobs
  BY <1>1, <1>a DEF LeavesJobs
<1>2. ASSUME NEW s \in Slots, NEW kind \in Operations, NEW tags \in SUBSET Tags,
             NEW force \in BOOLEAN, Starts(s, kind, tags, force)
      PROVE  Goal
  <2>1. PICK u \in Slots : Accounts(job[u])
    BY <1>2, <1>a DEF Starts
  <2>2. u # s
    BY <1>2, <2>1, BeginFacts, IdleFacts DEF Starts, Accounts
  <2>3. TypeOK /\ Begin(s, kind, tags, force)
    BY <1>2 DEF Starts
  <2>4. job'[u].kind = job[u].kind /\ job'[u].clears = job[u].clears
    BY <2>2, <2>3, BeginFacts, ZenonT(60)
  <2> QED
    BY <2>1, <2>4 DEF Accounts
<1>3. ASSUME NEW s \in Slots, StartsRefresh(s)
      PROVE  Goal
  <2>1. PICK u \in Slots : Accounts(job[u])
    BY <1>3, <1>a DEF StartsRefresh
  <2>2. u # s
    BY <1>3, <2>1, IdleFacts DEF StartsRefresh, Accounts
  <2> QED
    BY <1>3, <2>1, <2>2 DEF StartsRefresh, TypeOK
<1>4. CASE Restart
  BY <1>4 DEF Restart
<1>5. ASSUME NEW s \in Slots, Works(s)
      PROVE  Goal
  <2>1. /\ job'[s].kind = job[s].kind /\ job'[s].clears = job[s].clears
        /\ \A u \in Slots \ {s} : job'[u] = job[u]
    BY <1>5, WorkFacts DEF WorkMoves, Moved
  <2>2. progress \/ Accounts(job[s])
    <3>1. CASE GitPush(s)
      BY <3>1 DEF GitPush, AtStep, JobsInOrder, Accounts
    <3>2. CASE GitPull(s)
      BY <3>2 DEF GitPull, AtStep, JobsInOrder, Accounts
    <3>3. CASE GitFetch(s)
      BY <3>3, <1>b DEF GitFetch, AtStep, JobsInOrder, Accounts, Shows
    <3>4. CASE GitRefetch(s)
      BY <3>4 DEF GitRefetch, AtStep, JobsInOrder, Accounts
    <3>5. CASE ReadTags(s) \/ GitTag(s) \/ GitRewrite(s) \/ RefreshRead(s)
      BY <3>5 DEF ReadTags, GitTag, GitRewrite, RefreshRead, store
    <3> QED
      BY <1>5, <3>1, <3>2, <3>3, <3>4, <3>5 DEF Works
  <2>3. PICK u \in Slots : Accounts(job[u])
    BY <2>2, <1>a
  <2> QED
    BY <2>1, <2>3 DEF Accounts
<1>6. ASSUME NEW s \in Slots, RefreshApply(s)
      PROVE  Goal
  <2>1. progress /\ ~ job[s].clears /\ job[s].kind = "refresh"
    BY <1>6 DEF RefreshApply, AtStep, JobsInOrder
  <2>2. PICK u \in Slots : Accounts(job[u])
    BY <2>1, <1>a
  <2>3. u # s
    BY <2>1, <2>2 DEF Accounts
  <2> QED
    BY <1>6, <2>2, <2>3, RefreshApplyFacts
<1>7. ASSUME NEW s \in Slots, Done(s)
      PROVE  Goal
  <2>1. progress' = ProgressAfter(job[s])
    BY <1>7 DEF Done
  <2>2. CASE job[s].kind \in {"push", "pull", "fetch"}
    <3>1. job[s].result = "ok"
      BY <2>1, <2>2 DEF ProgressAfter
    <3>2. job'[s] = RefreshJob(TRUE)
      BY <1>7, <2>2, <3>1, DoneFacts
    <3> QED
      BY <3>2, IdleFacts DEF Accounts
  <2>3. CASE job[s].kind \notin {"push", "pull", "fetch"}
    <3>1. PICK u \in Slots : Accounts(job[u])
      BY <2>1, <2>3, <1>a DEF ProgressAfter
    <3>2. u # s
      BY <1>7, <2>3, <3>1, DoneFacts DEF Accounts, Runs, Operations
    <3> QED
      BY <1>7, <3>1, <3>2, DoneFacts
  <2> QED
    BY <2>2, <2>3
<1> QED
  BY <1>1, <1>2, <1>3, <1>4, <1>5, <1>6, <1>7, NextCases

LEMMA BackgroundStep ==
    ASSUME TypeOK, JobsInOrder, OneBackgroundFetch, Next
    PROVE  OneBackgroundFetch'
<1> DEFINE fetches(u) == job[u].kind = "background"
           fetchesNext(u) == job'[u].kind = "background"
<1>a. /\ inFlight <=> \E u \in Slots : fetches(u)
      /\ \A u, v \in Slots : fetches(u) /\ fetches(v) => u = v
      /\ inFlight \in BOOLEAN
  BY DEF OneBackgroundFetch, TypeOK
<1> SUFFICES /\ inFlight' <=> \E u \in Slots : fetchesNext(u)
             /\ \A u, v \in Slots : fetchesNext(u) /\ fetchesNext(v) => u = v
  BY DEF OneBackgroundFetch
<1> DEFINE Goal == /\ inFlight' <=> \E u \in Slots : fetchesNext(u)
                   /\ \A u, v \in Slots : fetchesNext(u) /\ fetchesNext(v) => u = v
<1>b. ASSUME inFlight' = inFlight, \A u \in Slots : fetchesNext(u) <=> fetches(u)
      PROVE  Goal
  BY <1>a, <1>b
<1>1. CASE LeavesJobs
  BY <1>1, <1>b DEF LeavesJobs
<1>2. ASSUME NEW s \in Slots, NEW kind \in Operations, NEW tags \in SUBSET Tags,
             NEW force \in BOOLEAN, Starts(s, kind, tags, force)
      PROVE  Goal
  <2> DEFINE new == NewJob(kind, tags, force)
  <2>1. /\ job'[s] = new /\ job[s].kind = "none"
        /\ \A u \in Slots \ {s} : job'[u].kind = job[u].kind
    BY <1>2, BeginFacts, IdleFacts DEF Starts
  <2>2. new.kind = kind
    BY NewJobFacts
  <2>3. kind = "background" => ~ inFlight
    BY <1>2 DEF Starts
  <2>4. inFlight' = (inFlight \/ kind = "background")
    BY <1>2 DEF Starts
  <2> HIDE DEF new
  <2>5. CASE kind = "background"
    BY <1>a, <2>1, <2>2, <2>3, <2>4, <2>5
  <2>6. CASE kind # "background"
    <3>1. inFlight' = inFlight
      BY <1>a, <2>4, <2>6
    <3>2. \A u \in Slots : fetchesNext(u) <=> fetches(u)
      BY <2>1, <2>2, <2>6
    <3> QED
      BY <1>b, <3>1, <3>2
  <2> QED
    BY <2>5, <2>6
<1>3. ASSUME NEW s \in Slots, StartsRefresh(s)
      PROVE  Goal
  BY <1>3, <1>b, IdleFacts DEF StartsRefresh, TypeOK
<1>4. CASE Restart
  BY <1>4, IdleFacts DEF Restart
<1>5. ASSUME NEW s \in Slots, Works(s)
      PROVE  Goal
  BY <1>5, <1>b, WorkFacts DEF WorkMoves, Moved
<1>6. ASSUME NEW s \in Slots, RefreshApply(s)
      PROVE  Goal
  <2>1. job[s].kind = "refresh" /\ inFlight' = inFlight
    BY <1>6 DEF RefreshApply, AtStep, JobsInOrder
  <2> QED
    BY <1>6, <1>b, <2>1, RefreshApplyFacts, IdleFacts
<1>7. ASSUME NEW s \in Slots, Done(s)
      PROVE  Goal
  <2>1. /\ job'[s].kind # "background"
        /\ \A u \in Slots \ {s} : job'[u] = job[u]
    <3>1. (job[s].kind \in {"push", "pull", "fetch"}) \in BOOLEAN
      OBVIOUS
    <3> QED
      BY <1>7, <3>1, DoneFacts, IdleFacts
  <2>2. inFlight' = (inFlight /\ job[s].kind # "background")
    BY <1>7 DEF Done, InFlightAfter
  <2> QED
    BY <1>a, <2>1, <2>2
<1> QED
  BY <1>1, <1>2, <1>3, <1>4, <1>5, <1>6, <1>7, NextCases

-----------------------------------------------------------------------------
(* What an operation that runs alone knows. *)

LEMMA AloneStep ==
    ASSUME TypeOK, JobsInOrder, AloneIsAlone, Next
    PROVE  AloneIsAlone'
<1> DEFINE Goal == \A u, v \in Slots : job'[u].alone /\ v # u => job'[v].kind \notin Operations
<1> SUFFICES Goal
  BY DEF AloneIsAlone, Runs
<1>a. \A u, v \in Slots : job[u].alone /\ v # u => job[v].kind \notin Operations
  BY DEF AloneIsAlone, Runs
<1>b. ASSUME NEW s \in Slots, ~ job'[s].alone, job'[s].kind \notin Operations,
             \A u \in Slots \ {s} : job'[u] = job[u]
      PROVE  Goal
  BY <1>a, <1>b
<1>c. /\ ~ Idle.alone /\ Idle.kind \notin Operations
      /\ \A clears \in BOOLEAN :
            ~ RefreshJob(clears).alone /\ RefreshJob(clears).kind \notin Operations
  BY IdleFacts DEF Operations
<1>1. CASE LeavesJobs
  BY <1>1, <1>a DEF LeavesJobs
<1>2. ASSUME NEW s \in Slots, NEW kind \in Operations, NEW tags \in SUBSET Tags,
             NEW force \in BOOLEAN, Starts(s, kind, tags, force)
      PROVE  Goal
  <2> DEFINE new == NewJob(kind, tags, force)
  <2>0. TypeOK /\ Begin(s, kind, tags, force)
    BY <1>2 DEF Starts
  <2>1. /\ job'[s] = new
        /\ \A u \in Slots \ {s} : job'[u].alone = FALSE /\ job'[u].kind = job[u].kind
    BY <2>0, BeginFacts, ZenonT(60)
  <2>2. new.alone = NothingRuns
    BY NewJobFacts
  <2>3. NothingRuns => \A u \in Slots : job[u].kind \notin Operations
    BY DEF NothingRuns, Runs
  <2> HIDE DEF new
  <2> QED
    BY <2>1, <2>2, <2>3
<1>3. ASSUME NEW s \in Slots, StartsRefresh(s)
      PROVE  Goal
  BY <1>3, <1>b, <1>c DEF StartsRefresh, TypeOK
<1>4. CASE Restart
  BY <1>4, <1>c DEF Restart
<1>5. ASSUME NEW s \in Slots, Works(s)
      PROVE  Goal
  <2>1. \A u \in Slots : job'[u].kind = job[u].kind /\ job'[u].alone = job[u].alone
    BY <1>5, WorkFacts DEF WorkMoves, Moved
  <2> QED
    BY <1>a, <2>1
<1>6. ASSUME NEW s \in Slots, RefreshApply(s)
      PROVE  Goal
  BY <1>6, <1>b, <1>c, RefreshApplyFacts
<1>7. ASSUME NEW s \in Slots, Done(s)
      PROVE  Goal
  <2>1. (job[s].kind \in {"push", "pull", "fetch"}) \in BOOLEAN
    OBVIOUS
  <2> QED
    BY <1>7, <1>b, <1>c, <2>1, DoneFacts
<1> QED
  BY <1>1, <1>2, <1>3, <1>4, <1>5, <1>6, <1>7, NextCases

\* LeavesRightly and TagsKnown of a job j under the given values.
Right(t, tagged, server, branch) == t \in server \/ tagged[t] = 0 \/ tagged[t] \notin branch

Knows(j, toPush, tagged, server, branch) ==
    /\ j.kind = "push" /\ j.result = "ok" => j.tags = toPush
    /\ j.kind = "untag" /\ j.result = "ok" => \E t \in Tags : j.tags = {t}
    /\ j.kind = "push" /\ (j.at = "refetch" \/ (j.at = "done" /\ j.result = "ok"))
         => j.tags \subseteq server
    /\ j.kind \in {"pull", "fetch", "background"} /\ j.at = "done" /\ j.result = "ok" /\ j.named
         => \A t \in toPush \ j.tags : Right(t, tagged, server, branch)
    /\ j.kind = "untag" /\ j.at = "done" /\ j.result = "ok"
         => \A t \in j.tags : tagged[t] = 0

LEMMA KnowsMeans ==
    AloneKnows <=> \A s \in Slots : job[s].alone =>
        job[s].kind \in Operations /\ Knows(job[s], tagsToPush, tagAt, remoteTags, local)
BY DEF AloneKnows, TagsKnown, Knows, Right, LeavesRightly, Exists, Runs

\* The worker's steps of an operation that runs alone.
LEMMA WorkKnows ==
    ASSUME TypeOK, JobsInOrder, NEW s \in Slots, Works(s),
           Knows(job[s], tagsToPush, tagAt, remoteTags, local)
    PROVE  Knows(job'[s], tagsToPush', tagAt', remoteTags', local')
<1> USE AfterFacts
<1> DEFINE old == job[s]
           new == job'[s]
<1>a. InOrder(old)
  BY DEF JobsInOrder, InOrder
<1>b. job \in [Slots -> Jobs] /\ tagAt \in [Tags -> Made \cup {0}]
  BY DEF TypeOK
<1>m. new.kind = old.kind /\ tagsToPush' = tagsToPush
  BY WorkFacts DEF WorkMoves, Moved
<1>1. CASE GitPush(s)
  <2>1. old.at = "push" /\ old.kind = "push"
    BY <1>1, <1>a DEF GitPush, AtStep, InOrder
  <2>2. \/ Pushed(s) /\ remoteTags' = remoteTags \cup old.tags
        \/ \E result \in Results \ {"ok"} : Finish(s, result)
    BY <1>1 DEF GitPush, Pushed, Results
  <2>3. CASE Pushed(s) /\ remoteTags' = remoteTags \cup old.tags
    <3>1. new.at = "refetch" /\ new.tags = old.tags /\ new.result = old.result
      BY <2>1, <2>3, PushedFacts DEF Moved
    <3> QED
      BY <1>m, <2>1, <2>3, <3>1 DEF Knows
  <2>4. ASSUME NEW result \in Results \ {"ok"}, Finish(s, result)
        PROVE  Knows(new, tagsToPush', tagAt', remoteTags', local')
    <3>1. new.at = "done" /\ new.result # "ok"
      BY <2>4, FinishFacts DEF Moved
    <3> QED
      BY <1>m, <2>1, <3>1 DEF Knows
  <2> QED
    BY <2>2, <2>3, <2>4
<1>2. CASE GitRefetch(s)
  <2>1. old.at = "refetch" /\ old.kind = "push" /\ remoteTags' = remoteTags
    BY <1>2, <1>a DEF GitRefetch, AtStep, InOrder
  <2>2. new.at = "done" /\ new.tags = old.tags /\ new.result = old.result
    BY <1>2, <2>1, ContinueFacts DEF GitRefetch, Moved, Steps
  <2> QED
    BY <1>m, <2>1, <2>2 DEF Knows
<1>3. CASE GitFetch(s) \/ GitPull(s)
  <2>1. old.at \in {"fetch", "pull"} /\ old.kind \in {"pull", "fetch", "background"}
    BY <1>3, <1>a DEF GitFetch, GitPull, AtStep, InOrder
  <2>2. Continue(s) \/ Finish(s, "error")
    BY <1>3 DEF GitFetch, GitPull
  <2>3. CASE Continue(s)
    <3>1. new.at = "tags"
      BY <2>1, <2>3, ContinueFacts DEF Moved, Steps
    <3> QED
      BY <1>m, <2>1, <3>1 DEF Knows
  <2>4. CASE Finish(s, "error")
    <3>1. new.at = "done" /\ new.result = "error"
      BY <2>4, FinishFacts DEF Moved, Results
    <3> QED
      BY <1>m, <2>1, <3>1 DEF Knows
  <2> QED
    BY <2>2, <2>3, <2>4
<1>5. CASE ReadTags(s)
  <2>1. /\ old.at = "tags" /\ old.kind \in {"pull", "fetch", "background"}
        /\ UNCHANGED <<tagAt, remoteTags, local>>
    BY <1>5, <1>a DEF ReadTags, AtStep, InOrder, git
  <2>2. /\ new.named \in Present(shown.head)
        /\ new.tags \in TagsRead(new.named)
    <3>0. PICK named \in Present(shown.head) : \E found \in TagsRead(named) :
              job' = [job EXCEPT ![s] = [@ EXCEPT !.at = "done", !.tags = found, !.named = named]]
      BY <1>5 DEF ReadTags
    <3>1. PICK found \in TagsRead(named) :
              job' = [job EXCEPT ![s] = [@ EXCEPT !.at = "done", !.tags = found, !.named = named]]
      BY <3>0
    <3>2. \A j \in Jobs : LET k == [j EXCEPT !.at = "done", !.tags = found, !.named = named] IN
            k.tags = found /\ k.named = named
      BY DEF Jobs
    <3> QED
      BY <1>b, <3>1, <3>2
  <2>3. new.named => \A t \in tagsToPush \ new.tags : Right(t, tagAt, remoteTags, local)
    <3>1. shown \in Views /\ tagsToPush \subseteq Tags
      BY DEF TypeOK
    <3>2. CASE shown.head = NoBranch
      BY <2>2, <3>2, NamesAssumption DEF Present
    <3>3. CASE shown.head # NoBranch
      BY <2>2, <3>1, <3>3 DEF TagsRead, Unpushed, Right
    <3> QED
      BY <3>2, <3>3
  <2> QED
    BY <1>m, <2>1, <2>3 DEF Knows
<1>6. CASE GitTag(s)
  <2>1. old.at = old.kind /\ old.kind \in {"tag", "untag"}
    BY <1>6, <1>a DEF GitTag, AtStep, InOrder
  <2>2. CASE old.kind = "tag"
    BY <1>m, <2>2 DEF Knows
  <2>3. CASE old.kind = "untag"
    <3>1. PICK t \in Tags : old.tags = {t}
      BY <1>a, <2>1, <2>3 DEF Knows, InOrder, Steps
    <3>2. CASE Finish(s, "error")
      <4>1. new.at = "done" /\ new.result = "error"
        BY <3>2, FinishFacts DEF Moved, Results
      <4> QED
        BY <1>m, <2>3, <3>1, <4>1 DEF Knows
    <3>3. CASE Continue(s) /\ tagAt' = [tagAt EXCEPT ![t] = 0]
      <4>1. new.tags = old.tags /\ new.at = "done"
        BY <2>1, <2>3, <3>3, ContinueFacts DEF Moved, Steps
      <4> QED
        BY <1>b, <1>m, <2>3, <3>1, <3>3, <4>1 DEF Knows
    <3> QED
      BY <1>6, <2>1, <2>3, <3>1, <3>2, <3>3 DEF GitTag, AtStep
  <2> QED
    BY <2>1, <2>2, <2>3
<1>7. CASE GitRewrite(s) \/ RefreshRead(s)
  <2>1. old.kind \in {"rewrite", "refresh"}
    BY <1>7, <1>a DEF GitRewrite, RefreshRead, AtStep, InOrder
  <2> QED
    BY <1>m, <2>1 DEF Knows
<1> QED
  BY <1>1, <1>2, <1>3, <1>5, <1>6, <1>7 DEF Works

LEMMA AloneKnowsStep ==
    ASSUME Inv, Next
    PROVE  AloneKnows'
<1> USE DEF Inv
<1> DEFINE known(j) == Knows(j, tagsToPush, tagAt, remoteTags, local)
           knownNext(j) == Knows(j, tagsToPush', tagAt', remoteTags', local')
<1> SUFFICES ASSUME NEW u \in Slots, job'[u].alone
             PROVE  job'[u].kind \in Operations /\ knownNext(job'[u])
  BY DEF AloneKnows, TagsKnown, Knows, Right, LeavesRightly, Exists, Runs
<1> DEFINE Goal == job'[u].kind \in Operations /\ knownNext(job'[u])
<1>a. job[u].alone => /\ job[u].kind \in Operations /\ known(job[u])
                      /\ \A v \in Slots \ {u} : job[v].kind \notin Operations
  BY KnowsMeans DEF AloneIsAlone, Runs
<1>b. ~ Idle.alone /\ \A clears \in BOOLEAN : ~ RefreshJob(clears).alone
  BY IdleFacts
<1>c. ASSUME job'[u] = job[u], UNCHANGED <<git, tagsToPush>>
      PROVE  Goal
  BY <1>a, <1>c DEF git
<1>1. CASE LeavesJobs /\ (Commit \/ UNCHANGED local)
  <2>1. job' = job /\ tagsToPush' = tagsToPush /\ remoteTags' = remoteTags /\ tagAt' = tagAt
    BY <1>1 DEF LeavesJobs
  <2>2. \A t \in Tags : tagAt[t] \notin local => tagAt[t] = 0 \/ tagAt[t] \notin local'
    <3>1. CASE UNCHANGED local
      BY <3>1
    <3>2. CASE Commit
      <4>1. local' = local \cup {lastCommit + 1}
        BY <3>2 DEF Commit
      <4>2. \A t \in Tags : tagAt[t] # lastCommit + 1
        BY CommitAssumption DEF TypeOK, Made, Commits
      <4> QED
        BY <4>1, <4>2
    <3> QED
      BY <1>1, <3>1, <3>2
  <2>3. tagsToPush \subseteq Tags
    BY DEF TypeOK
  <2>4. \A t \in Tags : Right(t, tagAt, remoteTags, local) => Right(t, tagAt, remoteTags, local')
    BY <2>2 DEF Right
  <2>5. known(job[u]) => Knows(job[u], tagsToPush, tagAt, remoteTags, local')
    BY <2>3, <2>4 DEF Knows
  <2> QED
    BY <1>a, <2>1, <2>5
<1>2. ASSUME NEW s \in Slots, NEW kind \in Operations, NEW tags \in SUBSET Tags,
             NEW force \in BOOLEAN, Starts(s, kind, tags, force)
      PROVE  Goal
  <2> DEFINE new == NewJob(kind, tags, force)
  <2>a. TypeOK /\ Begin(s, kind, tags, force)
    BY <1>2 DEF Starts
  <2>b. job'[s] = new /\ \A v \in Slots \ {s} : job'[v].alone = FALSE
    BY <2>a, BeginFacts, ZenonT(60)
  <2>1. job'[s] = new /\ \A v \in Slots \ {s} : ~ job'[v].alone
    BY <2>b
  <2>2. new.kind = kind /\ new.at = FirstStep(kind) /\ new.tags = tags
    BY NewJobFacts
  <2>3. /\ kind = "push" => tags = tagsToPush'
        /\ kind = "untag" => \E t \in Tags : tags = {t}
    BY <1>2 DEF Starts
  <2>4. FirstStep(kind) \notin {"refetch", "done"}
    BY DEF FirstStep, Operations
  <2> HIDE DEF new
  <2>5. knownNext(new)
    BY <2>2, <2>3, <2>4 DEF Knows
  <2>6. u = s
    BY <2>1
  <2> HIDE DEF knownNext
  <2> QED
    BY <2>1, <2>2, <2>5, <2>6
<1>3. ASSUME NEW s \in Slots, StartsRefresh(s)
      PROVE  Goal
  <2>1. u # s
    BY <1>3, <1>b DEF StartsRefresh, TypeOK
  <2>2. job'[u] = job[u] /\ UNCHANGED <<git, tagsToPush>>
    BY <1>3, <2>1 DEF StartsRefresh, TypeOK
  <2> QED
    BY <1>c, <2>2
<1>4. CASE Restart
  BY <1>4, <1>b DEF Restart
<1>5. ASSUME NEW s \in Slots, Works(s)
      PROVE  Goal
  <2>1. /\ job'[s].kind = job[s].kind /\ job'[s].alone = job[s].alone
        /\ \A v \in Slots \ {s} : job'[v] = job[v]
    BY <1>5, WorkFacts DEF WorkMoves, Moved
  <2>2. CASE u = s
    BY <1>5, <1>a, <2>1, <2>2, WorkKnows
  <2>3. CASE u # s
    <3>1. job[s].kind \notin Operations
      BY <1>a, <2>1, <2>3
    <3>2. RefreshRead(s)
      BY <1>5, <3>1 DEF Works, GitPush, GitRefetch, GitFetch, GitPull, ReadTags, GitTag,
           GitRewrite, AtStep, JobsInOrder, Operations
    <3> QED
      BY <1>c, <2>1, <2>3, <3>2 DEF RefreshRead, store
  <2> QED
    BY <2>2, <2>3
<1>6. ASSUME NEW s \in Slots, RefreshApply(s)
      PROVE  Goal
  <2>1. u # s /\ job'[u] = job[u]
    BY <1>6, <1>b, RefreshApplyFacts
  <2> QED
    BY <1>6, <1>c, <2>1 DEF RefreshApply
<1>7. ASSUME NEW s \in Slots, Done(s)
      PROVE  Goal
  <2>1. (job[s].kind \in {"push", "pull", "fetch"}) \in BOOLEAN
    OBVIOUS
  <2>2. u # s /\ job'[u] = job[u]
    BY <1>7, <1>b, <2>1, DoneFacts
  <2>3. job[s].kind \in Operations
    BY <1>7, DoneFacts DEF Runs
  <2> QED
    BY <1>a, <2>2, <2>3
<1> QED
  BY <1>1, <1>2, <1>3, <1>4, <1>5, <1>6, <1>7, NextCases

-----------------------------------------------------------------------------
(* The theorems. *)

LEMMA InvInit == Init => Inv
<1> SUFFICES ASSUME Init
             PROVE  Inv
  OBVIOUS
<1>1. /\ \A s \in Slots : job[s] = Idle
      /\ ~ progress /\ ~ inFlight
  BY DEF Init
<1>2. TypeOK
  <2>1. 1 \in Commits /\ Made = {1}
    BY CommitAssumption DEF Init, Commits, Made
  <2>2. job \in [Slots -> Jobs]
    BY IdleFacts DEF Init
  <2> QED
    BY <2>1, <2>2 DEF Init, TypeOK, Views, Heads, ReadView, NoTip, NoLease
<1>3. JobsInOrder
  BY <1>1, IdleFacts DEF JobsInOrder, Steps
<1>4. ProgressEnds /\ OneBackgroundFetch
  BY <1>1, IdleFacts DEF ProgressEnds, OneBackgroundFetch
<1>5. AloneIsAlone /\ AloneKnows
  BY <1>1, IdleFacts DEF AloneIsAlone, AloneKnows
<1> QED
  BY <1>2, <1>3, <1>4, <1>5 DEF Inv

LEMMA InvStep == Inv /\ [Next]_vars => Inv'
<1> SUFFICES ASSUME Inv, [Next]_vars
             PROVE  Inv'
  OBVIOUS
<1>1. CASE Next
  BY <1>1, TypeStep, OrderStep, ProgressStep, BackgroundStep, AloneStep, AloneKnowsStep DEF Inv
<1>2. CASE UNCHANGED vars
  BY <1>2 DEF vars, git, store, Inv, TypeOK, JobsInOrder, ProgressEnds, OneBackgroundFetch,
       AloneIsAlone, AloneKnows, TagsKnown, LeavesRightly, Exists, Runs, Made
<1> QED
  BY <1>1, <1>2

\* The inductive invariant: the types, where each job is, and what an operation
\* that nothing overlapped knows of the tags.
THEOREM Invariance == Spec => []Inv
BY InvInit, InvStep, PTL DEF Spec

\* The lists, the views and the jobs of native/github_desktop/store.py keep their types.
THEOREM TypeCorrect == Spec => []TypeOK
<1>1. Inv => TypeOK
  BY DEF Inv
<1> QED
  BY <1>1, Invariance, PTL

\* Whatever overlaps and whatever fails, _clear_network_progress is still to come
\* while the progress disables push, pull, fetch and the background fetch.
THEOREM ProgressIsCleared == Spec => []ProgressEnds
<1>1. Inv => ProgressEnds
  BY DEF Inv
<1> QED
  BY <1>1, Invariance, PTL

\* Two background fetches never overlap and the flag that prevents it always falls.
THEOREM SingleBackgroundFetch == Spec => []OneBackgroundFetch
<1>1. Inv => OneBackgroundFetch
  BY DEF Inv
<1> QED
  BY <1>1, Invariance, PTL

\* No push, forced or not, drops a commit of the server that was not fetched.
THEOREM NoBlindPush == Spec => UnfetchedSurvives
<1>1. ASSUME Next
      PROVE  remote \ remote' \subseteq tracking
  <2>1. ASSUME NEW s \in Slots, GitPush(s)
        PROVE  remote \ remote' \subseteq tracking
    BY <2>1 DEF GitPush, Accepts, git
  <2>2. ASSUME NEW s \in Slots, JobStep(s), ~ GitPush(s)
        PROVE  remote' = remote
    BY <2>2 DEF JobStep, GitRefetch, GitFetch, GitPull, ReadTags, GitTag, GitRewrite,
         RefreshRead, RefreshApply, Done, git
  <2>3. ASSUME Environment
        PROVE  remote \subseteq remote'
    BY <2>3 DEF Environment, Commit, TeammatePushes, CloseForcePush, Restart, UserPushes,
         UserForcePushes, UserPulls, UserFetches, AnswerForcePush, BackgroundFetch, UserTags,
         UserRewrites, UserRefreshes, git
  <2> QED
    BY <1>1, <2>1, <2>2, <2>3 DEF Next
<1>2. [Next]_vars => [remote \ remote' \subseteq tracking]_vars
  BY <1>1
<1> QED
  BY <1>2, PTL DEF Spec, UnfetchedSurvives

\* The done() of an operation that nothing overlapped, and whose list of tags was
\* of a branch, forgets no tag that is still to be pushed.
THEOREM NoTagForgotten == Spec => TagLeavesWhenPushed
<1> DEFINE Kept == \A s \in Slots : Ends(s) /\ job[s].alone /\ job[s].named
                      => \A t \in tagsToPush \ tagsToPush' : LeavesRightly(t)
<1>1. ASSUME Inv, Next
      PROVE  Kept
  <2> SUFFICES ASSUME NEW s \in Slots, Done(s), job[s].at = "done", job[s].alone, job[s].named,
                      NEW t \in tagsToPush \ tagsToPush'
               PROVE  LeavesRightly(t)
    BY DEF Ends, AtStep
  <2>1. TagsKnown(s) /\ Runs(s)
    BY <1>1 DEF Inv, AloneKnows
  <2>2. tagsToPush' = TagsAfter(job[s])
    BY DEF Done
  <2>3. job[s].result = "ok"
    BY <2>2 DEF TagsAfter
  <2>4. CASE job[s].kind = "push"
    BY <2>1, <2>3, <2>4 DEF TagsKnown, LeavesRightly
  <2>5. CASE job[s].kind \in {"pull", "fetch", "background"}
    BY <2>1, <2>2, <2>3, <2>5 DEF TagsKnown, TagsAfter
  <2>6. CASE job[s].kind = "untag"
    <3>1. t \in job[s].tags
      BY <2>2, <2>3, <2>6 DEF TagsAfter
    <3> QED
      BY <2>1, <2>3, <2>6, <3>1 DEF TagsKnown, LeavesRightly
  <2>7. CASE job[s].kind \in {"tag", "rewrite"}
    BY <2>2, <2>3, <2>7 DEF TagsAfter
  <2> QED
    BY <2>1, <2>4, <2>5, <2>6, <2>7 DEF Runs, Operations
<1>2. Inv /\ [Next]_vars => [Kept]_vars
  BY <1>1
<1> QED
  BY <1>2, Invariance, PTL DEF Spec, TagLeavesWhenPushed
=============================================================================
