------------------------ MODULE RepositoryIndicators -------------------------
(***************************************************************************)
(* The refresh of the indicators in the list of repositories:              *)
(* lib/stores/helpers/repository-indicator-updater.ts with its callers in  *)
(* app-store.ts.  refreshAllRepositories is an asynchronous loop of which  *)
(* several may be alive: stopping ends none of them at once, and starting  *)
(* again sets a timer for another.                                         *)
(***************************************************************************)
EXTENDS Naturals, FiniteSets

CONSTANTS Repos,        \* the repositories, the selected one among them
          MaxLoops,     \* bound on loops that are alive at a time
          MaxThrows     \* bound on refreshes that throw

ASSUME MaxThrowsAssumption == MaxThrows \in Nat

VARIABLES running,      \* between start and stop
          timer,        \* refreshTimeoutId is set
          paused,       \* the window has lost the focus
          opened,       \* selectedRepository
          loops,        \* the loops alive: where they wait and what is done
          throws        \* refreshes that have thrown

indicatorVars == <<running, timer, paused, opened, loops, throws>>

Loop == 1..MaxLoops

Idle == [at |-> "none", done |-> {}]

Starting == [at |-> "starting", done |-> {}]

Refreshing(done, r) == [at |-> "refreshing", done |-> done, repo |-> r]

Waiting(done, r) == [at |-> "waiting", done |-> done, repo |-> r]

\* (mutant) the end of a loop does not set a timer
ScheduleForgotten == UNCHANGED timer

\* scheduleRefresh
ScheduleRefresh == timer' = (timer \/ running)

\* what getNextRepository may find: the list is in any order
Remaining(done) == (Repos \ {opened}) \ done

\* (mutant) no repository is ever done
NoneDone(done, r) == done

\* done.add
WithDone(done, r) == done \cup {r}

\* the loop goes on with another repository, or ends and sets a timer
GoOn(l, done) ==
  \/ /\ running /\ Remaining(done) # {}
     /\ \E r \in Remaining(done) : loops' = [loops EXCEPT ![l] = Refreshing(done, r)]
     /\ UNCHANGED timer
  \/ /\ ~(running /\ Remaining(done) # {})
     /\ loops' = [loops EXCEPT ![l] = Idle]
     /\ ScheduleRefresh

-----------------------------------------------------------------------------
\* start: at launch, with the setting, and when the list is opened
Start ==
  /\ ~running
  /\ running' = TRUE /\ timer' = TRUE
  /\ UNCHANGED <<paused, opened, loops, throws>>

\* stop, with the setting
Stop ==
  /\ running
  /\ running' = FALSE /\ timer' = FALSE
  /\ UNCHANGED <<paused, opened, loops, throws>>

\* the timer calls refreshAllRepositories, up to its first await
Fire(l) ==
  /\ timer /\ loops[l] = Idle
  /\ IF paused
     THEN loops' = [loops EXCEPT ![l] = Starting] /\ timer' = FALSE
     ELSE IF Remaining({}) = {}
     THEN timer' = TRUE /\ UNCHANGED loops
     ELSE /\ timer' = FALSE
          /\ \E r \in Remaining({}) : loops' = [loops EXCEPT ![l] = Refreshing({}, r)]
  /\ UNCHANGED <<running, paused, opened, throws>>

\* (mutant) the pause is looked at only before the first refresh
PauseSeenAtStart == FALSE

\* if (this.paused) after each refresh
PauseSeen == paused

\* refreshRepositoryIndicators has ended
RefreshEnds(l) ==
  /\ loops[l].at = "refreshing"
  /\ LET r == loops[l].repo
         done == loops[l].done
     IN  IF PauseSeen
         THEN loops' = [loops EXCEPT ![l] = Waiting(done, r)] /\ UNCHANGED timer
         ELSE GoOn(l, WithDone(done, r))
  /\ UNCHANGED <<running, paused, opened, throws>>

\* it throws, and nothing catches: the loop is gone and no timer is set
RefreshThrows(l) ==
  /\ loops[l].at = "refreshing" /\ throws < MaxThrows
  /\ loops' = [loops EXCEPT ![l] = Idle]
  /\ throws' = throws + 1
  /\ UNCHANGED <<running, timer, paused, opened>>

\* the window loses the focus
Pause ==
  /\ ~paused
  /\ paused' = TRUE
  /\ UNCHANGED <<running, timer, opened, loops, throws>>

\* what a loop does once the promise of the pause is resolved: the one that
\* has not begun gives up if it was stopped; otherwise it counts its last
\* repository as done and goes on
Resumed(loop, wasRunning) ==
  LET done == IF loop.at = "waiting" THEN WithDone(loop.done, loop.repo) ELSE {}
  IN  IF wasRunning /\ Remaining(done) # {}
      THEN {Refreshing(done, r) : r \in Remaining(done)}
      ELSE {Idle}

\* the window has the focus again: all loops that wait go on, before any
\* other event
Resume ==
  /\ paused
  /\ paused' = FALSE
  /\ LET waits == {l \in Loop : loops[l].at \in {"starting", "waiting"}}
     IN  /\ \E next \in [Loop -> UNION {Resumed(loops[l], running) : l \in waits}
                                  \cup {loops[l] : l \in Loop \ waits}] :
              /\ \A l \in waits : next[l] \in Resumed(loops[l], running)
              /\ \A l \in Loop \ waits : next[l] = loops[l]
              /\ loops' = next
              /\ timer' = (timer \/ (running /\ \E l \in waits : next[l] = Idle))
  /\ UNCHANGED <<running, opened, throws>>

\* another repository is selected
Open(r) ==
  /\ opened # r
  /\ opened' = r
  /\ UNCHANGED <<running, timer, paused, loops, throws>>

IndicatorInit ==
  /\ running = FALSE /\ timer = FALSE /\ paused = FALSE
  /\ opened \in Repos
  /\ loops = [l \in Loop |-> Idle]
  /\ throws = 0

IndicatorNext ==
  \/ Start \/ Stop \/ Pause \/ Resume
  \/ \E l \in Loop : Fire(l) \/ RefreshEnds(l) \/ RefreshThrows(l)
  \/ \E r \in Repos : Open(r)

\* timers fire and refreshes end; that the user returns is not assumed
IndicatorFairness ==
  /\ WF_indicatorVars(\E l \in Loop : Fire(l))
  /\ \A l \in Loop : WF_indicatorVars(RefreshEnds(l))

IndicatorSpec == IndicatorInit /\ [][IndicatorNext]_indicatorVars /\ IndicatorFairness
-----------------------------------------------------------------------------
IndicatorTypeOK ==
  /\ {running, timer, paused} \subseteq BOOLEAN
  /\ opened \in Repos /\ throws \in 0..MaxThrows
  /\ \A l \in Loop : /\ loops[l].at \in {"none", "starting", "refreshing", "waiting"}
                     /\ loops[l].done \subseteq Repos
  /\ timer => running

(* While the window is in the background no refresh begins, however many   *)
(* loops there are (repository-indicator-updater.ts:71-80, 96-106).        *)
PausedStartsNothing ==
  [][paused /\ paused' =>
       \A l \in Loop : loops'[l].at = "refreshing" => loops'[l] = loops[l]]_indicatorVars

(* Between start and stop a timer is set or a loop is alive, whatever was  *)
(* stopped, started and paused meanwhile: no start is needed to go on      *)
(* (repository-indicator-updater.ts:34-65, 111-124).                       *)
ChainUnbroken ==
  running /\ throws = 0 => timer \/ \E l \in Loop : loops[l].at # "none"

(* Unless the indicators are switched off, the window is in the background *)
(* or a refresh has thrown, every repository but the selected one is       *)
(* refreshed again and again (repository-indicator-updater.ts:43-124).     *)
EveryRepositoryRefreshed ==
  \A r \in Repos :
    []<>(\/ \E l \in Loop : loops[l].at = "refreshing" /\ loops[l].repo = r
         \/ ~running \/ paused \/ opened = r \/ throws > 0)
=============================================================================
