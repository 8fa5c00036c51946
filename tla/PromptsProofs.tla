----------------------------- MODULE PromptsProofs -----------------------------
(***************************************************************************)
(* What is proved of Prompts, for any operations, servers and dialogs: the *)
(* prompts implement Questions, nobody loses a sign-in session without a   *)
(* word, and an operation that ended leaves nothing in the maps.           *)
(***************************************************************************)
EXTENDS Prompts, PopupStackProofs, TLAPS

Ended == {"done", "failed", "killed"}

\* A promise for every operation.
IsAnswers(ans) ==
  /\ ans = [o \in Askers |-> ans[o]]
  /\ \A o \in Askers : ans[o].is \in {"unasked", "pending", "refused", "given"}

\* The operations, their questions and the command that is served for each.
TypeInv ==
  /\ op \in [Askers -> {"absent", "ready", "running"} \cup Ended]
  /\ request \in [Askers -> {"idle", "lookup", "decide", "asking"}]
  /\ recent \in [Askers -> BOOLEAN] /\ rejected \subseteq Askers
  /\ IsAnswers(answer)

\* A session is a record with these fields.
SessionInv ==
  session = [kind |-> session.kind, endpoint |-> session.endpoint,
             caller |-> session.caller, code |-> session.code]

\* Only operations that began are served, and those that ended by themselves
\* are not served any more.
ServedInv ==
  \A o \in Askers :
    /\ op[o] \in {"absent", "ready"} => request[o] = "idle"
    /\ op[o] \in {"done", "failed"} => request[o] = "idle"

\* Only passphrases are hashed.
HashingInv == \A h \in hashing : h.op \in Askers /\ Kind[h.op] = "key"

IInv == TypeInv /\ SessionInv /\ ServedInv /\ HashingInv /\ EnvironmentCleared

\* What a step may do to the questions: answer them.
Answering ==
  \A o \in Askers :
    \/ answer'[o] = answer[o]
    \/ answer[o].is = "pending" /\ answer'[o].is \in {"given", "refused"}

\* Who loses the session is told, or a sign-out goes on.
CallersTold ==
  \A o \in Askers :
    (/\ answer[o].is = "pending" /\ session.caller = o
     /\ session'.caller # o)
    => \/ answer'[o].is # "pending"
       \/ \E t \in tasks \ tasks' : t.is = "signOut" /\ t.next = "browser"
-----------------------------------------------------------------------------
(* A promise is settled at most once, whoever calls its resolver.          *)
LEMMA SettledOnce ==
  ASSUME NEW ans, IsAnswers(ans), NEW c, NEW r, r.is \in {"given", "refused"}
  PROVE  /\ IsAnswers(Settled(ans, c, r))
         /\ \A o \in Askers :
              \/ Settled(ans, c, r)[o] = ans[o]
              \/ ans[o].is = "pending" /\ Settled(ans, c, r)[o].is \in {"given", "refused"}
         /\ c \in Askers => Settled(ans, c, r)[c].is # "pending"
<1>1. CASE c \in Askers /\ ans[c].is = "pending"
  <2>1. Settled(ans, c, r) = [ans EXCEPT ![c] = r]
    BY <1>1 DEF Settled
  <2>2. \A o \in Askers : Settled(ans, c, r)[o] = IF o = c THEN r ELSE ans[o]
    BY <1>1, <2>1 DEF IsAnswers
  <2>3. Settled(ans, c, r) = [o \in Askers |-> Settled(ans, c, r)[o]]
    BY <1>1, <2>1 DEF IsAnswers
  <2> QED
    BY <1>1, <2>2, <2>3 DEF IsAnswers
<1>2. CASE ~(c \in Askers /\ ans[c].is = "pending")
  BY <1>2 DEF Settled
<1> QED
  BY <1>1, <1>2

(* Resetting the sign-in store answers its caller, and nobody else.        *)
LEMMA ResetAnswers ==
  ASSUME IsAnswers(answer)
  PROVE  /\ IsAnswers(ResetAnswer(answer))
         /\ \A o \in Askers :
              \/ ResetAnswer(answer)[o] = answer[o]
              \/ answer[o].is = "pending" /\ ResetAnswer(answer)[o].is \in {"given", "refused"}
         /\ session.caller \in Askers => ResetAnswer(answer)[session.caller].is # "pending"
BY SettledOnce DEF ResetAnswer, Refused
-----------------------------------------------------------------------------
(* The steps of the sign-in store and its dialog answer questions.         *)
LEMMA SignInStep ==
  ASSUME IsAnswers(answer), SessionInv, SignInNext
  PROVE  SessionInv' /\ IsAnswers(answer)' /\ Answering /\ CallersTold
<1> DEFINE Goal == SessionInv' /\ IsAnswers(answer)' /\ Answering /\ CallersTold
           Reset == SessionInv' /\ answer' = ResetAnswer(answer)
           Quiet == answer' = answer /\ SessionInv' /\ session'.caller = session.caller
           Same == answer' = answer /\ session' = session
<1>2. Reset => Goal
  BY ResetAnswers DEF Answering, CallersTold
<1>3. Quiet => Goal
  BY DEF Answering, CallersTold, IsAnswers
<1>4. Same => Quiet
  BY DEF SessionInv
<1>a. Same => Goal
  BY <1>3, <1>4
<1> HIDE DEF Goal, Reset, Quiet, Same
<1>5. ASSUME NEW e \in Endpoints, ShowSignInDialog(e) PROVE Goal
  <2>1. Reset
    BY <1>5 DEF Reset, ShowSignInDialog, Session, SessionInv
  <2> QED
    BY <2>1, <1>2
<1>6. ASSUME NEW e \in Endpoints, BeginInBrowser(e) PROVE Goal
  <2>1. Reset
    BY <1>6 DEF Reset, BeginInBrowser, Session, SessionInv
  <2> QED
    BY <2>1, <1>2
<1>7. ASSUME NEW e \in Endpoints, SubmitEndpoint(e) PROVE Goal
  <2>1. Reset \/ Quiet
    BY <1>7 DEF Reset, Quiet, SubmitEndpoint, Session, SessionInv
  <2> QED
    BY <2>1, <1>2, <1>3
<1>8. ASSUME SubmitExisting PROVE Goal
  BY <1>8, <1>a DEF Same, SubmitExisting
<1>9. ASSUME SubmitAuthentication PROVE Goal
  <2>1. Quiet
    BY <1>9 DEF Quiet, SubmitAuthentication, OpenBrowser, Session, SessionInv
  <2> QED
    BY <2>1, <1>3
<1>10. ASSUME NEW i \in DOMAIN popups, DismissSignIn(i) PROVE Goal
  <2>1. Reset
    BY <1>10 DEF Reset, DismissSignIn, NoSession, SessionInv
  <2> QED
    BY <2>1, <1>2
<1>11. ASSUME NEW t \in tasks, NEW done \in BOOLEAN, SignedOutToBrowser(t, done) PROVE Goal
  <2>1. answer' = answer /\ SessionInv'
    BY <1>11 DEF SignedOutToBrowser, OpenBrowser, Session, SessionInv
  <2>2. t \in tasks \ tasks' /\ t.is = "signOut" /\ t.next = "browser"
    BY <1>11 DEF SignedOutToBrowser
  <2> QED
    BY <2>1, <2>2 DEF Goal, Answering, CallersTold, IsAnswers
<1>12. ASSUME NEW t \in tasks, NEW done \in BOOLEAN, SignedOutToEndpoint(t, done) PROVE Goal
  <2>1. Reset \/ Quiet \/ Same
    BY <1>12 DEF Reset, Quiet, Same, SignedOutToEndpoint, Session, SessionInv
  <2> QED
    BY <2>1, <1>2, <1>3, <1>a
<1>13. ASSUME NEW t \in tasks, AccountFetched(t) PROVE Goal
  <2>1. ASSUME Same PROVE Goal
    BY <2>1, <1>a
  <2>2. ASSUME ~Same PROVE Goal
    <3>1. /\ answer' = Settled(answer, session.caller, Given(t.e))
          /\ session' = [session EXCEPT !.kind = "Success", !.code = 0]
      BY <1>13, <2>2 DEF Same, AccountFetched
    <3>2. SessionInv' /\ session'.caller = session.caller
      BY <3>1 DEF SessionInv
    <3>3. IsAnswers(answer)' /\ Answering
      BY <3>1, SettledOnce DEF Given, Answering
    <3> QED
      BY <3>2, <3>3 DEF Goal, CallersTold
  <2> QED
    BY <2>1, <2>2
<1>14. ASSUME NEW t \in tasks, TokenDenied(t) \/ AccountLost(t) \/ AccountsRefreshed(t) PROVE Goal
  BY <1>14, <1>a DEF Same, TokenDenied, AccountLost, AccountsRefreshed
<1>15. ASSUME NEW t \in tasks, NEW done \in BOOLEAN, AccountAdded(t, done) PROVE Goal
  BY <1>15, <1>a DEF Same, AccountAdded
<1>16. ASSUME NEW code \in pages, PageCallsBack(code) PROVE Goal
  BY <1>16, <1>a DEF Same, PageCallsBack
<1>17. Goal
  BY <1>5, <1>6, <1>7, <1>8, <1>9, <1>10, <1>11, <1>12, <1>13, <1>14, <1>15, <1>16 DEF SignInNext
<1> QED
  BY <1>17 DEF Goal
-----------------------------------------------------------------------------
(* The steps of Prompts, by what they do to the questions.                 *)

\* Nobody asks and no operation begins or ends.
Answers == op' = op /\ IsAnswers(answer)' /\ Answering

\* A command of a running operation, or of a killed one, asks the user.
Asks(o) ==
  /\ op' = op /\ IsAnswers(answer)' /\ answer'[o].is = "pending"
  /\ op[o] \in {"running", "killed"} /\ (op[o] = "running" => o \notin InBackground)
  /\ \A other \in Askers \ {o} :
       \/ answer'[other] = answer[other]
       \/ answer[other].is = "pending" /\ answer'[other].is \in {"given", "refused"}

\* An operation begins or ends.
Moves(o) ==
  /\ answer' = answer
  /\ \/ op[o] = "ready" /\ op' = [op EXCEPT ![o] = "running"]
     \/ \E how \in Ended : op[o] = "running" /\ op' = [op EXCEPT ![o] = how]

Step == Answers \/ (\E o \in Askers : Asks(o)) \/ (\E o \in Askers : Moves(o))

Effect == IInv' /\ Step /\ CallersTold

\* The handlers of a command do not change these.
Served == UNCHANGED <<op, hashing>> /\ SessionInv'

(* A step that serves a command of one operation keeps the invariant.      *)
LEMMA ServedKeeps ==
  ASSUME IInv, Served, NEW o \in Askers,
         \/ request[o] # "idle"
         \/ op[o] = "running" /\ UNCHANGED <<recent, rejected>>,
         NEW r \in {"idle", "lookup", "decide", "asking"},
         request' = [request EXCEPT ![o] = r],
         recent' \in [Askers -> BOOLEAN], rejected' \subseteq Askers,
         \A other \in Askers \ {o} : /\ recent'[other] = recent[other]
                                     /\ other \in rejected' => other \in rejected,
         IsAnswers(answer)'
  PROVE  IInv'
<1>1. TypeInv'
  BY DEF Served, IInv, TypeInv
<1>2. op[o] \notin {"absent", "ready", "done", "failed"}
  BY DEF IInv, ServedInv
<1>3. ServedInv'
  BY <1>2 DEF Served, IInv, ServedInv, TypeInv
<1>4. HashingInv'
  BY DEF Served, IInv, HashingInv
<1>5. EnvironmentCleared'
  BY <1>2 DEF Served, IInv, EnvironmentCleared
<1> QED
  BY <1>1, <1>3, <1>4, <1>5 DEF IInv, Served

(* Nothing but the dialogs and the stores moves.                           *)
LEMMA OutsideKeeps ==
  ASSUME IInv, UNCHANGED <<op, request, recent, rejected, hashing>>,
         SessionInv', IsAnswers(answer)'
  PROVE  IInv'
BY DEF IInv, TypeInv, ServedInv, HashingInv, EnvironmentCleared

LEMMA NoQuestion ==
  ASSUME IsAnswers(answer), UNCHANGED <<op, answer, session>>
  PROVE  Answers /\ CallersTold /\ IsAnswers(answer)'
BY DEF Answers, Answering, CallersTold, IsAnswers
-----------------------------------------------------------------------------
(* A promise is made for an operation.                                     *)
LEMMA NewPromise ==
  ASSUME NEW ans, IsAnswers(ans), NEW o \in Askers
  PROVE  /\ IsAnswers([ans EXCEPT ![o] = Pending])
         /\ [ans EXCEPT ![o] = Pending][o].is = "pending"
         /\ \A other \in Askers \ {o} : [ans EXCEPT ![o] = Pending][other] = ans[other]
<1> DEFINE new == [ans EXCEPT ![o] = Pending]
<1>1. \A x \in Askers : new[x] = IF x = o THEN Pending ELSE ans[x]
  BY DEF IsAnswers
<1>2. new = [x \in Askers |-> new[x]]
  BY DEF IsAnswers
<1> HIDE DEF new
<1>3. IsAnswers(new) /\ new[o].is = "pending" /\ \A x \in Askers \ {o} : new[x] = ans[x]
  BY <1>1, <1>2 DEF IsAnswers, Pending
<1> QED
  BY <1>3 DEF new

LEMMA StartEffect == ASSUME IInv, NEW o \in Askers, Start(o) PROVE Effect
<1>1. /\ op[o] = "ready" /\ op' = [op EXCEPT ![o] = "running"]
      /\ UNCHANGED <<request, recent, rejected, hashing, answer, session>>
  BY DEF Start, signInVars
<1>2. TypeInv' /\ SessionInv' /\ HashingInv'
  BY <1>1 DEF IInv, TypeInv, SessionInv, HashingInv, IsAnswers
<1>3. ServedInv' /\ EnvironmentCleared'
  BY <1>1 DEF IInv, TypeInv, ServedInv, EnvironmentCleared
<1>4. Moves(o) /\ CallersTold
  BY <1>1 DEF Moves, CallersTold
<1> QED
  BY <1>2, <1>3, <1>4 DEF IInv, Effect, Step

LEMMA CommandEffect == ASSUME IInv, NEW o \in Askers, Command(o) PROVE Effect
<1>1. /\ op[o] = "running" /\ request' = [request EXCEPT ![o] = "lookup"]
      /\ UNCHANGED <<op, recent, rejected, hashing, answer, session>>
  BY DEF Command, Serving, signInVars
<1>2. Answers /\ CallersTold /\ IsAnswers(answer)'
  BY <1>1, NoQuestion DEF IInv, TypeInv
<1>3. Served /\ recent' \in [Askers -> BOOLEAN] /\ rejected' \subseteq Askers
  BY <1>1 DEF Served, IInv, TypeInv, SessionInv
<1>4. IInv'
  BY <1>1, <1>2, <1>3, ServedKeeps
<1> QED
  BY <1>2, <1>4 DEF Effect, Step

LEMMA LookupEffect == ASSUME IInv, NEW o \in Askers, Lookup(o) PROVE Effect
<1>1. request[o] = "lookup" /\ UNCHANGED <<op, hashing>>
  BY DEF Lookup
<1>2. CASE UNCHANGED <<answer, session>>
  <2>1. Answers /\ CallersTold /\ IsAnswers(answer)'
    BY <1>1, <1>2, NoQuestion DEF IInv, TypeInv
  <2>2. /\ Served
        /\ \/ request' = [request EXCEPT ![o] = "idle"]
           \/ request' = [request EXCEPT ![o] = "asking"]
    <3>1. Served
      BY <1>1, <1>2 DEF Served, IInv, SessionInv
    <3>2. Serving(o, "idle") \/ Serving(o, "asking")
      BY DEF Lookup, NoCredential, AskUser
    <3> QED
      BY <3>1, <3>2 DEF Serving
  <2>3. recent' \in [Askers -> BOOLEAN] /\ \A x \in Askers \ {o} : recent'[x] = recent[x]
    <3>1. recent' = recent \/ recent' = [recent EXCEPT ![o] = TRUE]
      BY DEF Lookup
    <3> QED
      BY <3>1 DEF IInv, TypeInv
  <2>4. rejected' \subseteq Askers /\ \A x \in Askers \ {o} : x \in rejected' => x \in rejected
    BY DEF Lookup, NoCredential, AskUser, IInv, TypeInv
  <2>5. IInv'
    BY <1>1, <2>1, <2>2, <2>3, <2>4, ServedKeeps
  <2> QED
    BY <2>1, <2>5 DEF Effect, Step
<1>3. CASE ~UNCHANGED <<answer, session>>
  <2>1. /\ answer' = [answer EXCEPT ![o] = Pending]
        /\ request' = [request EXCEPT ![o] = "asking"]
        /\ UNCHANGED <<session, recent, rejected>>
        /\ ~IsBackground(o)
    BY <1>3 DEF Lookup, AskUser, Serving, signInVars
  <2>2. /\ IsAnswers(answer)' /\ answer'[o].is = "pending"
        /\ \A other \in Askers \ {o} : answer'[other] = answer[other]
    <3>1. IsAnswers(answer)
      BY DEF IInv, TypeInv
    <3>2. /\ IsAnswers([answer EXCEPT ![o] = Pending])
          /\ [answer EXCEPT ![o] = Pending][o].is = "pending"
          /\ \A other \in Askers \ {o} : [answer EXCEPT ![o] = Pending][other] = answer[other]
      BY <3>1, NewPromise
    <3> QED
      BY <2>1, <3>2 DEF IsAnswers
  <2>3. Asks(o)
    BY <1>1, <2>1, <2>2 DEF Asks, IsBackground, IInv, ServedInv, TypeInv, Ended
  <2>4. Served /\ recent' \in [Askers -> BOOLEAN] /\ rejected' \subseteq Askers
    BY <1>1, <2>1 DEF Served, IInv, TypeInv, SessionInv
  <2>5. IInv'
    BY <1>1, <2>1, <2>2, <2>4, ServedKeeps
  <2>6. CallersTold
    BY <2>1 DEF CallersTold
  <2> QED
    BY <2>3, <2>5, <2>6 DEF Effect, Step
<1> QED
  BY <1>2, <1>3

LEMMA LookupAccountEffect == ASSUME IInv, NEW o \in Askers, LookupAccount(o) PROVE Effect
<1>1. /\ request[o] = "lookup"
      /\ \/ request' = [request EXCEPT ![o] = "idle"]
         \/ request' = [request EXCEPT ![o] = "decide"]
      /\ UNCHANGED <<op, recent, rejected, hashing, answer, session>>
  BY DEF LookupAccount, Serving, signInVars
<1>2. Answers /\ CallersTold /\ IsAnswers(answer)'
  BY <1>1, NoQuestion DEF IInv, TypeInv
<1>3. Served /\ recent' \in [Askers -> BOOLEAN] /\ rejected' \subseteq Askers
  BY <1>1 DEF Served, IInv, TypeInv, SessionInv
<1>4. IInv'
  BY <1>1, <1>2, <1>3, ServedKeeps
<1> QED
  BY <1>2, <1>4 DEF Effect, Step

LEMMA DecideAccountEffect == ASSUME IInv, NEW o \in Askers, DecideAccount(o) PROVE Effect
<1>1. request[o] = "decide" /\ UNCHANGED <<op, hashing, recent>>
  BY DEF DecideAccount
<1>2. CASE /\ UNCHANGED <<answer, session>> /\ request' = [request EXCEPT ![o] = "idle"]
           /\ NoCredential(o)
  <2>1. Answers /\ CallersTold /\ IsAnswers(answer)'
    BY <1>1, <1>2, NoQuestion DEF IInv, TypeInv
  <2>2. Served /\ recent' \in [Askers -> BOOLEAN]
    BY <1>1, <1>2 DEF Served, IInv, TypeInv, SessionInv
  <2>3. rejected' \subseteq Askers /\ \A x \in Askers \ {o} : x \in rejected' => x \in rejected
    BY <1>2 DEF NoCredential, IInv, TypeInv
  <2>4. IInv'
    BY <1>1, <1>2, <2>1, <2>2, <2>3, ServedKeeps
  <2> QED
    BY <2>1, <2>4 DEF Effect, Step
<1>3. CASE /\ ~IsBackground(o) /\ PromptForGitHubSignIn(o, Server[o])
           /\ request' = [request EXCEPT ![o] = "asking"] /\ UNCHANGED rejected
  <2>1. /\ answer' = [ResetAnswer(answer) EXCEPT ![o] = Pending]
        /\ SessionInv' /\ session'.caller = o
    BY <1>3 DEF PromptForGitHubSignIn, Session, SessionInv
  <2>2. /\ IsAnswers(ResetAnswer(answer))
        /\ \A x \in Askers :
              \/ ResetAnswer(answer)[x] = answer[x]
              \/ answer[x].is = "pending" /\ ResetAnswer(answer)[x].is \in {"given", "refused"}
        /\ session.caller \in Askers => ResetAnswer(answer)[session.caller].is # "pending"
    BY ResetAnswers DEF IInv, TypeInv
  <2>3. /\ IsAnswers(answer)' /\ answer'[o].is = "pending"
        /\ \A other \in Askers \ {o} : answer'[other] = ResetAnswer(answer)[other]
    <3> DEFINE reset == ResetAnswer(answer)
    <3>1. /\ IsAnswers([reset EXCEPT ![o] = Pending])
          /\ [reset EXCEPT ![o] = Pending][o].is = "pending"
          /\ \A other \in Askers \ {o} : [reset EXCEPT ![o] = Pending][other] = reset[other]
      BY <2>2, NewPromise
    <3> QED
      BY <2>1, <3>1 DEF IsAnswers
  <2>4. Asks(o)
    BY <1>1, <1>3, <2>2, <2>3 DEF Asks, IsBackground, IInv, ServedInv, TypeInv, Ended
  <2>5. Served /\ recent' \in [Askers -> BOOLEAN] /\ rejected' \subseteq Askers
    BY <1>1, <1>3, <2>1 DEF Served, IInv, TypeInv
  <2>6. IInv'
    BY <1>1, <1>3, <2>3, <2>5, ServedKeeps
  <2>7. CallersTold
    BY <2>1, <2>2, <2>3 DEF CallersTold
  <2> QED
    BY <2>4, <2>6, <2>7 DEF Effect, Step
<1> QED
  BY <1>2, <1>3 DEF DecideAccount, NoCredential, Serving, signInVars

LEMMA ResumeEffect ==
  ASSUME IInv, NEW o \in Askers, ResumeSSH(o) \/ ResumeOther(o)
  PROVE  Effect
<1>1. /\ request[o] = "asking" /\ request' = [request EXCEPT ![o] = "idle"]
      /\ UNCHANGED <<op, answer, session>>
  BY DEF ResumeSSH, ResumeOther, NoCredential, Serving, signInVars
<1>2. Answers /\ CallersTold /\ IsAnswers(answer)'
  BY <1>1, NoQuestion DEF IInv, TypeInv
<1>3. /\ recent' \in [Askers -> BOOLEAN]
      /\ \A x \in Askers \ {o} : recent'[x] = recent[x]
  <2>1. \/ recent' = recent \/ recent' = [recent EXCEPT ![o] = TRUE]
        \/ recent' = [recent EXCEPT ![o] = FALSE]
    BY DEF ResumeSSH, ResumeOther
  <2> QED
    BY <2>1 DEF IInv, TypeInv
<1>4. rejected' \subseteq Askers /\ \A x \in Askers \ {o} : x \in rejected' => x \in rejected
  BY DEF ResumeSSH, ResumeOther, NoCredential, IInv, TypeInv
<1>5. TypeInv' /\ ServedInv' /\ EnvironmentCleared'
  <2>1. TypeInv'
    BY <1>1, <1>2, <1>3, <1>4 DEF IInv, TypeInv
  <2>2. op[o] \notin {"absent", "ready", "done", "failed"}
    BY <1>1 DEF IInv, ServedInv
  <2>3. ServedInv'
    BY <1>1, <2>2 DEF IInv, ServedInv, TypeInv
  <2>4. EnvironmentCleared'
    BY <1>1, <1>3, <1>4, <2>2 DEF IInv, EnvironmentCleared
  <2> QED
    BY <2>1, <2>3, <2>4
<1>6. SessionInv'
  BY <1>1 DEF IInv, SessionInv
<1>7. HashingInv'
  <2>1. \A h \in hashing' : h \in hashing \/ (h.op = o /\ Kind[o] = "key")
    <3>1. \/ hashing' = hashing
          \/ Kind[o] = "key" /\ hashing' = hashing \cup {[op |-> o, secret |-> choice[o].secret]}
      BY DEF ResumeSSH, ResumeOther
    <3> QED
      BY <3>1
  <2> QED
    BY <2>1 DEF IInv, HashingInv
<1> QED
  BY <1>2, <1>5, <1>6, <1>7 DEF Effect, Step, IInv

LEMMA KeyHashedEffect == ASSUME IInv, NEW h \in hashing, KeyHashed(h) PROVE Effect
<1>1. /\ recent' = [recent EXCEPT ![h.op] = TRUE] /\ hashing' = hashing \ {h}
      /\ UNCHANGED <<op, request, rejected, answer, session>>
  BY DEF KeyHashed, signInVars
<1>2. h.op \in Askers /\ Kind[h.op] = "key"
  BY DEF IInv, HashingInv
<1>3. Answers /\ CallersTold /\ IsAnswers(answer)'
  BY <1>1, NoQuestion DEF IInv, TypeInv
<1>4. TypeInv' /\ SessionInv' /\ ServedInv' /\ HashingInv'
  BY <1>1, <1>3 DEF IInv, TypeInv, SessionInv, ServedInv, HashingInv
<1>5. \A x \in Askers : x # h.op => recent'[x] = recent[x]
  BY <1>1 DEF IInv, TypeInv
<1>6. EnvironmentCleared'
  BY <1>1, <1>2, <1>5 DEF IInv, EnvironmentCleared
<1> QED
  BY <1>3, <1>4, <1>6 DEF Effect, Step, IInv

LEMMA EndEffect ==
  ASSUME IInv, NEW o \in Askers, Succeed(o) \/ AuthenticationFails(o) \/ Killed(o)
  PROVE  Effect
<1>1. PICK how \in Ended : End(o, how)
  BY DEF Succeed, AuthenticationFails, Killed, Ended
<1>2. /\ op[o] = "running"
      /\ how # "killed" => request[o] = "idle"
      /\ UNCHANGED <<request, hashing, answer, session>>
  <2>1. op[o] = "running" /\ UNCHANGED <<request, hashing, answer, session>>
    BY DEF Succeed, AuthenticationFails, Killed, signInVars
  <2>2. CASE request[o] = "idle"
    BY <2>1, <2>2
  <2>3. CASE request[o] # "idle"
    <3>1. Killed(o)
      BY <2>3 DEF Succeed, AuthenticationFails
    <3>2. op' = [op EXCEPT ![o] = "killed"] /\ op' = [op EXCEPT ![o] = how]
      BY <1>1, <3>1 DEF Killed, End
    <3>3. how = "killed"
      BY <3>2 DEF IInv, TypeInv
    <3> QED
      BY <2>1, <3>3
  <2> QED
    BY <2>2, <2>3
<1>3. /\ op' = [op EXCEPT ![o] = how] /\ recent' = [recent EXCEPT ![o] = FALSE]
      /\ rejected' = rejected \ {o}
  BY <1>1 DEF End
<1>4. TypeInv' /\ SessionInv' /\ HashingInv'
  BY <1>2, <1>3 DEF IInv, TypeInv, SessionInv, HashingInv, IsAnswers, Ended
<1>5. ServedInv'
  BY <1>2, <1>3 DEF IInv, TypeInv, ServedInv, Ended
<1>6. EnvironmentCleared'
  <2> SUFFICES ASSUME NEW x \in Askers, op'[x] \in {"done", "failed"},
                      recent'[x] \/ x \in rejected'
               PROVE  Kind[x] = "key"
    BY DEF EnvironmentCleared
  <2>1. x # o
    BY <1>3, Zenon DEF IInv, TypeInv
  <2>2. op'[x] = op[x] /\ recent'[x] = recent[x] /\ (x \in rejected' => x \in rejected)
    BY <1>3, <2>1 DEF IInv, TypeInv
  <2> QED
    BY <2>2 DEF IInv, EnvironmentCleared
<1>7. Moves(o) /\ CallersTold
  BY <1>2, <1>3 DEF Moves, CallersTold
<1> QED
  BY <1>4, <1>5, <1>6, <1>7 DEF IInv, Effect, Step

LEMMA AnswerDialogEffect ==
  ASSUME IInv, NEW secret, NEW remember, AnswerDialog(secret, remember)
  PROVE  Effect
<1> DEFINE o == Top(popups).asker
           r == IF secret = "none" THEN Refused ELSE Given(Server[o])
<1>1. /\ answer' = Settled(answer, o, r)
      /\ UNCHANGED <<op, request, recent, rejected, hashing, session>>
  BY DEF AnswerDialog
<1>2. r.is \in {"given", "refused"}
  BY DEF Refused, Given
<1> HIDE DEF r, o
<1>3. IsAnswers(answer)' /\ Answering
  <2>1. IsAnswers(answer)
    BY DEF IInv, TypeInv
  <2>2. /\ IsAnswers(Settled(answer, o, r))
        /\ \A x \in Askers :
              \/ Settled(answer, o, r)[x] = answer[x]
              \/ answer[x].is = "pending" /\ Settled(answer, o, r)[x].is \in {"given", "refused"}
    BY <1>2, <2>1, SettledOnce
  <2> QED
    BY <1>1, <2>2 DEF IsAnswers, Answering
<1>4. SessionInv' /\ CallersTold
  BY <1>1 DEF IInv, SessionInv, CallersTold
<1>5. IInv'
  BY <1>1, <1>3, <1>4, OutsideKeeps
<1> QED
  BY <1>1, <1>3, <1>4, <1>5 DEF Effect, Step, Answers

LEMMA OtherEffect ==
  ASSUME IInv, \/ KeychainActs \/ ShowError \/ DismissError \/ ShowMultiCommitOperation
               \/ EndMultiCommitOperation \/ UNCHANGED vars
  PROVE  Effect
<1>1. UNCHANGED <<op, request, recent, rejected, hashing, answer, session>>
  BY DEF KeychainActs, ShowError, DismissError, ShowMultiCommitOperation, Another,
         EndMultiCommitOperation, vars, opVars, signInVars
<1>2. Answers /\ CallersTold /\ IsAnswers(answer)'
  BY <1>1, NoQuestion DEF IInv, TypeInv
<1>3. SessionInv'
  BY <1>1 DEF IInv, SessionInv
<1>4. IInv'
  BY <1>1, <1>2, <1>3, OutsideKeeps
<1> QED
  BY <1>2, <1>4 DEF Effect, Step

LEMMA SignInEffect == ASSUME IInv, SignInNext, UNCHANGED opVars PROVE Effect
<1>1. SessionInv' /\ IsAnswers(answer)' /\ Answering /\ CallersTold
  BY SignInStep DEF IInv, TypeInv
<1>2. UNCHANGED <<op, request, recent, rejected, hashing>>
  BY DEF opVars
<1>3. IInv'
  BY <1>1, <1>2, OutsideKeeps
<1> QED
  BY <1>1, <1>2, <1>3 DEF Effect, Step, Answers

LEMMA EveryStep == ASSUME IInv, [Next]_vars PROVE Effect
<1>1. ASSUME NEW o \in Askers, Start(o) \/ Handler(o) \/ Git(o) \/ Killed(o)
      PROVE  Effect
  BY <1>1, StartEffect, CommandEffect, LookupEffect, LookupAccountEffect, DecideAccountEffect,
     ResumeEffect, EndEffect DEF Handler, Git
<1>2. ASSUME NEW secret, NEW remember, AnswerDialog(secret, remember)
      PROVE  Effect
  BY <1>2, AnswerDialogEffect
<1>3. ASSUME NEW h \in hashing, KeyHashed(h)
      PROVE  Effect
  BY <1>3, KeyHashedEffect
<1> QED
  BY <1>1, <1>2, <1>3, SignInEffect, OtherEffect DEF Next
-----------------------------------------------------------------------------
LEMMA InitIInv == Init => IInv
<1> SUFFICES ASSUME Init PROVE IInv
  OBVIOUS
<1>1. answer = [o \in Askers |-> Unasked] /\ session = NoSession
  BY DEF Init, SignInInit
<1>2. IsAnswers(answer) /\ SessionInv
  BY <1>1 DEF IsAnswers, SessionInv, Unasked, NoSession
<1>3. /\ request = [o \in Askers |-> "idle"] /\ recent = [o \in Askers |-> FALSE]
      /\ rejected = {} /\ hashing = {}
      /\ \E scene \in Scenes : op = [o \in Askers |-> IF o \in scene.ops THEN "ready" ELSE "absent"]
  BY DEF Init
<1>4. op \in [Askers -> {"absent", "ready"}]
  BY <1>3
<1>5. TypeInv
  BY <1>2, <1>3, <1>4 DEF TypeInv
<1>6. ServedInv /\ HashingInv
  BY <1>3 DEF ServedInv, HashingInv
<1>7. EnvironmentCleared
  BY <1>4 DEF EnvironmentCleared
<1> QED
  BY <1>2, <1>5, <1>6, <1>7 DEF IInv

(* The invariant of the prompts: who is served, and what is left behind.   *)
THEOREM Invariance == Spec => []IInv
<1>1. IInv /\ [Next]_vars => IInv'
  BY EveryStep DEF Effect
<1> QED
  BY InitIInv, <1>1, PTL DEF Spec

(* An operation that ended by itself leaves nothing in the maps kept per   *)
(* token, whatever operations run (trampoline-environment.ts:195-200).     *)
THEOREM NothingLeftBehind == Spec => []EnvironmentCleared
<1>1. IInv => EnvironmentCleared
  BY DEF IInv
<1> QED
  BY Invariance, <1>1, PTL

(* Whoever loses the sign-in session while waiting is told                 *)
(* (sign-in-store.ts:276-303).                                             *)
THEOREM CallersAreTold == Spec => NoCallerForgotten
<1>1. IInv /\ [Next]_vars => CallersTold
  BY EveryStep DEF Effect
<1>2. CallersTold =>
      [ \A o \in Askers :
          (/\ answer[o].is = "pending" /\ session.caller = o
           /\ session'.caller # o)
          => \/ answer'[o].is # "pending"
             \/ \E t \in tasks \ tasks' : t.is = "signOut" /\ t.next = "browser" ]_vars
  BY DEF CallersTold
<1> QED
  BY Invariance, <1>1, <1>2, PTL DEF Spec, NoCallerForgotten
-----------------------------------------------------------------------------
(* The refinement: what the operations see of their questions.             *)
Seen(o) == IF op[o] \in {"done", "failed", "killed"} THEN "over"
           ELSE IF answer[o].is = "unasked" THEN "quiet" ELSE answer[o].is

LEMMA SeenType == ASSUME TypeInv, NEW o \in Askers PROVE Seen(o) \in Q!States
BY DEF TypeInv, IsAnswers, Seen, Q!States

(* Every step gives each question a state Questions allows it.             *)
LEMMA SeenBecomes ==
  ASSUME IInv, Step, TypeInv', NEW o \in Askers
  PROVE  Seen(o)' = Seen(o) \/ Q!MayBecome(o, Seen(o), Seen(o)')
<1>1. answer[o].is \in {"unasked", "pending", "refused", "given"}
  BY DEF IInv, TypeInv, IsAnswers
<1>2. op[o] \in {"absent", "ready", "running"} \cup Ended
  BY DEF IInv, TypeInv
<1>3. ASSUME op' = op, \/ answer'[o] = answer[o]
                       \/ answer[o].is = "pending" /\ answer'[o].is \in {"given", "refused"}
      PROVE  Seen(o)' = Seen(o) \/ Q!MayBecome(o, Seen(o), Seen(o)')
  BY <1>1, <1>2, <1>3 DEF Seen, Q!MayBecome
<1>4. CASE Answers
  BY <1>3, <1>4 DEF Answers, Answering
<1>5. ASSUME NEW asker \in Askers, Asks(asker)
      PROVE  Seen(o)' = Seen(o) \/ Q!MayBecome(o, Seen(o), Seen(o)')
  <2>1. CASE o = asker
    <3>1. answer'[o].is = "pending" /\ op'[o] = op[o]
      BY <1>5, <2>1 DEF Asks
    <3>2. CASE op[o] = "killed"
      BY <3>1, <3>2 DEF Seen
    <3>3. CASE op[o] = "running" /\ o \notin InBackground
      BY <1>1, <3>1, <3>3 DEF Seen, Q!MayBecome, Q!MayAsk
    <3> QED
      BY <1>5, <2>1, <3>2, <3>3 DEF Asks
  <2>2. CASE o # asker
    BY <1>3, <1>5, <2>2 DEF Asks
  <2> QED
    BY <2>1, <2>2
<1>6. ASSUME NEW moved \in Askers, Moves(moved)
      PROVE  Seen(o)' = Seen(o) \/ Q!MayBecome(o, Seen(o), Seen(o)')
  <2>1. CASE o # moved
    BY <1>6, <2>1 DEF Moves, Seen, IInv, TypeInv
  <2>2. CASE o = moved /\ op'[o] = "running" /\ op[o] = "ready"
    BY <1>6, <2>2 DEF Moves, Seen
  <2>3. CASE o = moved /\ op'[o] \in Ended
    BY <2>3 DEF Seen, Ended, Q!MayBecome
  <2> QED
    BY <1>6, <2>1, <2>2, <2>3 DEF Moves, IInv, TypeInv
<1> QED
  BY <1>4, <1>5, <1>6 DEF Step

(* The prompts of any operations implement Questions: an answer stands     *)
(* until the operation asks again, and a running operation of the          *)
(* background is never put to the user (trampoline-ui-helper.ts:20-105).   *)
THEOREM Refinement == Spec => AnswersStand
<1>1. Init => Q!Init
  <2> SUFFICES ASSUME Init PROVE Q!Init
    OBVIOUS
  <2>1. answer = [o \in Askers |-> Unasked]
    BY DEF Init, SignInInit
  <2>2. op \in [Askers -> {"absent", "ready"}]
    BY DEF Init
  <2> QED
    BY <2>1, <2>2 DEF Q!Init, Unasked
<1>2. IInv /\ [Next]_vars => [Q!Next]_([o \in Askers |-> Seen(o)])
  <2> SUFFICES ASSUME IInv, [Next]_vars PROVE Q!Next
    BY DEF Q!Next
  <2>1. IInv' /\ Step
    BY EveryStep DEF Effect
  <2>2. TypeInv /\ TypeInv'
    BY <2>1 DEF IInv
  <2>3. \A o \in Askers : /\ Seen(o)' \in Q!States
                          /\ Seen(o)' = Seen(o) \/ Q!MayBecome(o, Seen(o), Seen(o)')
    <3> TAKE o \in Askers
    <3>1. Seen(o)' = Seen(o) \/ Q!MayBecome(o, Seen(o), Seen(o)')
      BY <2>1, <2>2, SeenBecomes
    <3>2. Seen(o) \in Q!States
      BY <2>2, SeenType
    <3>3. Seen(o)' \in Q!States
      BY <2>2 DEF TypeInv, IsAnswers, Seen, Q!States
    <3> QED
      BY <3>1, <3>3
  <2> QED
    BY <2>3 DEF Q!Next, Seen
<1>3. [Q!Next]_([o \in Askers |-> Seen(o)]) <=>
      [Q!Next]_([o \in Askers |->
                   IF op[o] \in {"done", "failed", "killed"} THEN "over"
                   ELSE IF answer[o].is = "unasked" THEN "quiet" ELSE answer[o].is])
  BY DEF Seen
<1> QED
  BY Invariance, <1>1, <1>2, <1>3, PTL DEF Spec, AnswersStand, Q!Spec
-----------------------------------------------------------------------------
(* Types, dialogs and passwords: a second invariant above the first.       *)
Secret == {"none", "good", "bad"}

SessionKinds == {"None", "EndpointEntry", "ExistingAccountWarning", "Authentication", "Success"}

\* A session for an endpoint; only operations that want an account call for one.
GoodSession(s) ==
  /\ s.endpoint \in Endpoints
  /\ s.caller \in Askers => Kind[s.caller] = "github"

GoodTask(t) ==
  /\ t.is = "refresh" => t.list \subseteq Endpoints
  /\ t.is = "signOut" => GoodSession(t.s)
  /\ t.is \in {"oauth", "add"} => t.e \in Endpoints

Reply == [is : {"unasked", "pending", "refused", "given"}, of : Endpoints]

SignInInv ==
  /\ session.kind \in SessionKinds /\ GoodSession(session)
  /\ accounts \subseteq Endpoints
  /\ answer \in [Askers -> Reply]
  /\ codes \in Nat /\ pages \subseteq 1..codes /\ unsettled \subseteq 1..codes
  /\ \A t \in tasks : GoodTask(t)

StackInv == Sound(popups, Askers \cup {Nobody})

\* A dialog on the stack is the question of an operation that still waits.
Asking(p) ==
  p.asker \in Askers => /\ Kind[p.asker] # "github" /\ p.type = PopupType(p.asker)
                        /\ answer[p.asker].is = "pending"
DialogInv ==
  /\ \A i \in DOMAIN popups : Asking(popups[i])
  /\ \A o \in Askers : request[o] = "decide" => Kind[o] = "github"

\* What the keychain is called for.
Calls == [is : Secret, by : Askers \cup {Nobody}, of : Secrets]

SecretInv ==
  /\ last \in [Askers -> [is : Secret, from : {"typed", "vault", "remembered"}]]
  /\ choice \in [Askers -> [secret : Secret, remember : BOOLEAN]]
  /\ hashing \subseteq [op : Askers, secret : Secret]
  /\ keychain \in Seq(Calls)
  /\ vault \in [Secrets -> [is : Secret, by : Askers \cup {Nobody}]]

\* Who refuses remembers nothing; a secret that is not typed is the recent one.
RecentInv ==
  \A o \in Askers :
    /\ IsSSH(o) /\ answer[o].is = "refused" => ~choice[o].remember
    /\ Kind[o] = "password" /\ op[o] = "running" /\ last[o].from # "typed" => recent[o]
    /\ op[o] \in {"absent", "ready"} => last[o].from = "typed"

\* A later call takes the place of what the operation o stored.
Overwritten(o, i) ==
  \E j \in DOMAIN keychain : /\ i < j /\ keychain[j].of = "password" /\ keychain[j].by # o

\* The operation failed with a password that was, or is now, remembered.
Rejected(o) ==
  op[o] = "failed" /\ Kind[o] = "password" /\ last[o].from # "typed" /\ o \notin InBackground

ForgottenInv ==
  \A o \in Askers :
    Rejected(o) => /\ vault["password"].by = o => Overwritten(o, 0)
                   /\ \A i \in DOMAIN keychain : keychain[i].by = o => Overwritten(o, i)
-----------------------------------------------------------------------------
(* What the sign-in store makes of the stack and of the answers: at most   *)
(* its own dialog is new, and only who wants an account is answered.       *)
SignInDialog == Popup("SignIn", Nobody)

FromSignIn(stack, ans) ==
  /\ Sound(stack, Askers \cup {Nobody}) /\ OnlyFrom(stack, popups, SignInDialog)
  /\ ans \in [Askers -> Reply]
  /\ \A o \in Askers : Kind[o] # "github" => ans[o] = answer[o]

\* Only an operation that wants an account decides.
DecidesKept == \A o \in Askers : request'[o] = "decide" => Kind[o] = "github"

LEMMA DialogsKept ==
  ASSUME DialogInv, FromSignIn(popups', answer'), DecidesKept
  PROVE  StackInv' /\ DialogInv'
<1>1. Nobody \notin Askers
  BY SignInAssumption
<1>2. ASSUME NEW p, p = SignInDialog PROVE Asking(p)'
  BY <1>1, <1>2 DEF Asking, SignInDialog, Popup
<1>3. ASSUME NEW p, NEW j \in DOMAIN popups, p = popups[j] PROVE Asking(p)'
  <2>1. Asking(p)
    BY <1>3 DEF DialogInv
  <2> QED
    BY <2>1 DEF Asking, FromSignIn, PopupType
<1>4. \A i \in DOMAIN popups' : Asking(popups[i])'
  BY <1>2, <1>3 DEF FromSignIn, OnlyFrom
<1> QED
  BY <1>4 DEF DialogInv, StackInv, FromSignIn, DecidesKept

LEMMA RepliesTyped ==
  /\ Refused \in Reply /\ Pending \in Reply /\ Unasked \in Reply
  /\ \A e \in Endpoints : Given(e) \in Reply
BY SignInAssumption DEF Refused, Pending, Unasked, Given, Reply

LEMMA SettledTyped ==
  ASSUME NEW ans \in [Askers -> Reply], NEW c, NEW r \in Reply
  PROVE  /\ Settled(ans, c, r) \in [Askers -> Reply]
         /\ \A o \in Askers : o # c => Settled(ans, c, r)[o] = ans[o]
BY DEF Settled

LEMMA SameFrom ==
  ASSUME SignInInv, StackInv
  PROVE  FromSignIn(popups, answer)
BY DEF SignInInv, StackInv, FromSignIn, OnlyFrom

(* The caller of the session is answered and its dialog closed.            *)
LEMMA CallbackFrom ==
  ASSUME SignInInv, StackInv, NEW r \in Reply
  PROVE  /\ FromSignIn(AfterCallback(popups, session.caller), Settled(answer, session.caller, r))
         /\ Sound(AfterCallback(popups, session.caller), Askers \cup {Nobody})
<1>1. /\ Sound(ClosedType(popups, "SignIn"), Askers \cup {Nobody})
      /\ Within(ClosedType(popups, "SignIn"), popups)
  BY ClosedSound DEF StackInv
<1>2. /\ Sound(AfterCallback(popups, session.caller), Askers \cup {Nobody})
      /\ OnlyFrom(AfterCallback(popups, session.caller), popups, SignInDialog)
  BY <1>1 DEF StackInv, AfterCallback, Within, OnlyFrom
<1>3. /\ Settled(answer, session.caller, r) \in [Askers -> Reply]
      /\ \A o \in Askers : o # session.caller => Settled(answer, session.caller, r)[o] = answer[o]
  BY SettledTyped DEF SignInInv
<1>4. \A o \in Askers : Kind[o] # "github" => o # session.caller
  BY DEF SignInInv, GoodSession
<1> QED
  BY <1>2, <1>3, <1>4 DEF FromSignIn

LEMMA ResetFrom ==
  ASSUME SignInInv, StackInv
  PROVE  /\ FromSignIn(ResetPopups(popups), ResetAnswer(answer))
         /\ FromSignIn(Added(ResetPopups(popups), SignInDialog), ResetAnswer(answer))
         /\ FromSignIn(WithoutType(popups, "SignIn"), ResetAnswer(answer))
         /\ ResetPromises \subseteq unsettled
<1>1. /\ FromSignIn(ResetPopups(popups), ResetAnswer(answer))
      /\ Sound(ResetPopups(popups), Askers \cup {Nobody})
  BY CallbackFrom, RepliesTyped DEF ResetPopups, ResetAnswer
<1>2. SignInDialog \in PopupsOf(Askers \cup {Nobody})
  BY DEF SignInDialog, Popup, PopupsOf, Types
<1>3. /\ Sound(Added(ResetPopups(popups), SignInDialog), Askers \cup {Nobody})
      /\ OnlyFrom(Added(ResetPopups(popups), SignInDialog), ResetPopups(popups), SignInDialog)
  BY <1>1, <1>2, AddedSound
<1>4. OnlyFrom(Added(ResetPopups(popups), SignInDialog), popups, SignInDialog)
  BY <1>1, <1>3 DEF FromSignIn, OnlyFrom
<1>5. FromSignIn(Added(ResetPopups(popups), SignInDialog), ResetAnswer(answer))
  BY <1>1, <1>3, <1>4 DEF FromSignIn
<1>6. FromSignIn(WithoutType(popups, "SignIn"), ResetAnswer(answer))
  <2>1. /\ Sound(WithoutType(popups, "SignIn"), Askers \cup {Nobody})
        /\ Within(WithoutType(popups, "SignIn"), popups)
    BY ClosedSound DEF StackInv
  <2> QED
    BY <1>1, <2>1 DEF FromSignIn, Within, OnlyFrom
<1> QED
  BY <1>1, <1>5, <1>6 DEF ResetPromises
-----------------------------------------------------------------------------
(* The steps of the sign-in store keep types, stack and dialogs.           *)
SignedIn == SignInInv' /\ FromSignIn(popups', answer')

LEMMA SignInTyped ==
  ASSUME SignInInv, StackInv, SessionInv, SignInNext
  PROVE  SignedIn
<1>0. \A e : e \in Endpoints => StepFor(e) \in SessionKinds
  BY DEF StepFor, SessionKinds
<1>a. DotCom \in Endpoints /\ Nobody \notin Askers
  BY SignInAssumption
<1>b. /\ FromSignIn(ResetPopups(popups), ResetAnswer(answer))
      /\ FromSignIn(Added(ResetPopups(popups), SignInDialog), ResetAnswer(answer))
      /\ FromSignIn(WithoutType(popups, "SignIn"), ResetAnswer(answer))
      /\ ResetPromises \subseteq unsettled
  BY ResetFrom
<1>c. FromSignIn(popups, answer)
  BY SameFrom
<1>d. /\ session.kind \in SessionKinds /\ GoodSession(session)
      /\ accounts \subseteq Endpoints
      /\ codes \in Nat /\ pages \subseteq 1..codes /\ unsettled \subseteq 1..codes
      /\ \A t \in tasks : GoodTask(t)
  BY DEF SignInInv
<1>e. ASSUME FromSignIn(popups', answer'), session'.kind \in SessionKinds, GoodSession(session'),
             accounts' \subseteq Endpoints, codes' \in Nat, pages' \subseteq 1..codes',
             unsettled' \subseteq 1..codes', \A t \in tasks' : GoodTask(t)
      PROVE  SignedIn
  <2>1. answer' \in [Askers -> Reply]
    BY <1>e DEF FromSignIn
  <2> QED
    BY <1>e, <2>1 DEF SignedIn, SignInInv
<1>f. \A n \in Nat : n + 1 \in Nat /\ 1..n \subseteq 1..(n + 1) /\ n + 1 \in 1..(n + 1)
  OBVIOUS
<1>5. ASSUME NEW e \in Endpoints, ShowSignInDialog(e) PROVE SignedIn
  <2>1. FromSignIn(popups', answer')
    BY <1>5, <1>b DEF ShowSignInDialog, SignInDialog
  <2>2. session'.kind \in SessionKinds /\ GoodSession(session')
    BY <1>5, <1>0, <1>a DEF ShowSignInDialog, Session, GoodSession, SessionKinds
  <2> QED
    BY <1>5, <2>1, <2>2, <1>b, <1>d, <1>e DEF ShowSignInDialog
<1>6. ASSUME NEW e \in Endpoints, BeginInBrowser(e) PROVE SignedIn
  <2>1. FromSignIn(popups', answer') /\ accounts' = accounts
    BY <1>6, <1>b DEF BeginInBrowser
  <2>2. session'.kind \in SessionKinds /\ GoodSession(session')
    BY <1>6, <1>0, <1>a DEF BeginInBrowser, Session, GoodSession, SessionKinds
  <2>3. /\ codes' \in Nat /\ pages' \subseteq 1..codes' /\ unsettled' \subseteq 1..codes'
    <3>1. CASE codes' = codes /\ pages' = pages /\ unsettled' = ResetPromises
      BY <3>1, <1>b, <1>d
    <3>2. CASE /\ codes' = codes + 1 /\ pages' = pages \cup {codes'}
               /\ unsettled' = ResetPromises \cup {codes'}
      BY <3>2, <1>b, <1>d, <1>f
    <3> QED
      BY <1>6, <3>1, <3>2 DEF BeginInBrowser
  <2>4. \A t \in tasks' : GoodTask(t)
    <3>1. GoodSession(Session(StepFor(e), e, Nobody, 0))
      BY <1>a DEF Session, GoodSession
    <3>2. GoodTask([is |-> "signOut", next |-> "browser", s |-> Session(StepFor(e), e, Nobody, 0)])
      BY <3>1 DEF GoodTask
    <3> QED
      BY <1>6, <1>d, <3>2 DEF BeginInBrowser, SignOutFirst
  <2> QED
    BY <2>1, <2>2, <2>3, <2>4, <1>d, <1>e
<1>7. ASSUME NEW e \in Endpoints, SubmitEndpoint(e) PROVE SignedIn
  <2>1. FromSignIn(popups', answer')
    BY <1>7, <1>b, <1>c DEF SubmitEndpoint
  <2>2. session'.kind \in SessionKinds /\ GoodSession(session')
    BY <1>7, <1>0, <1>d DEF SubmitEndpoint, Session, GoodSession
  <2> QED
    BY <1>7, <2>1, <2>2, <1>d, <1>e DEF SubmitEndpoint
<1>8. ASSUME SubmitExisting PROVE SignedIn
  <2>1. GoodTask([is |-> "signOut", next |-> "endpoint", s |-> session])
    BY <1>d DEF GoodTask
  <2>2. \A t \in tasks' : GoodTask(t)
    BY <1>8, <1>d, <2>1 DEF SubmitExisting, SignOutFirst
  <2>3. UNCHANGED <<popups, session, accounts, answer, codes, pages, unsettled>>
    BY <1>8 DEF SubmitExisting
  <2> QED
    BY <2>2, <2>3, <1>c, <1>d, <1>e
<1>9. ASSUME SubmitAuthentication PROVE SignedIn
  <2>1. FromSignIn(popups', answer') /\ accounts' = accounts /\ tasks' = tasks
    BY <1>9, <1>c DEF SubmitAuthentication
  <2>2. session'.kind \in SessionKinds /\ GoodSession(session')
    BY <1>9, <1>d DEF SubmitAuthentication, OpenBrowser, Session, GoodSession, SessionKinds
  <2>3. /\ codes' \in Nat /\ pages' \subseteq 1..codes' /\ unsettled' \subseteq 1..codes'
    BY <1>9, <1>d, <1>f DEF SubmitAuthentication, OpenBrowser
  <2> QED
    BY <2>1, <2>2, <2>3, <1>d, <1>e
<1>10. ASSUME NEW i \in DOMAIN popups, DismissSignIn(i) PROVE SignedIn
  <2>1. FromSignIn(popups', answer')
    BY <1>10, <1>b DEF DismissSignIn
  <2>2. session'.kind \in SessionKinds /\ GoodSession(session')
    BY <1>10, <1>a DEF DismissSignIn, NoSession, GoodSession, SessionKinds
  <2> QED
    BY <1>10, <2>1, <2>2, <1>b, <1>d, <1>e DEF DismissSignIn
<1>11. ASSUME NEW t \in tasks, NEW done \in BOOLEAN, SignedOutToBrowser(t, done) PROVE SignedIn
  <2>1. GoodSession(t.s)
    BY <1>11, <1>d DEF SignedOutToBrowser, GoodTask
  <2>2. FromSignIn(popups', answer') /\ tasks' \subseteq tasks /\ accounts' \subseteq Endpoints
    BY <1>11, <1>c, <1>d DEF SignedOutToBrowser
  <2>3. session'.kind \in SessionKinds /\ GoodSession(session')
    BY <1>11, <2>1 DEF SignedOutToBrowser, OpenBrowser, Session, GoodSession, SessionKinds
  <2>4. /\ codes' \in Nat /\ pages' \subseteq 1..codes' /\ unsettled' \subseteq 1..codes'
    BY <1>11, <1>d, <1>f DEF SignedOutToBrowser, OpenBrowser
  <2> QED
    BY <2>2, <2>3, <2>4, <1>d, <1>e
<1>12. ASSUME NEW t \in tasks, NEW done \in BOOLEAN, SignedOutToEndpoint(t, done) PROVE SignedIn
  <2>1. GoodSession(t.s)
    BY <1>12, <1>d DEF SignedOutToEndpoint, GoodTask
  <2>2. tasks' \subseteq tasks /\ accounts' \subseteq Endpoints /\ UNCHANGED <<codes, pages, unsettled>>
    BY <1>12, <1>d DEF SignedOutToEndpoint
  <2>3. FromSignIn(popups', answer')
    BY <1>12, <1>b, <1>c DEF SignedOutToEndpoint
  <2>4. session'.kind \in SessionKinds /\ GoodSession(session')
    BY <1>12, <1>d, <2>1 DEF SignedOutToEndpoint, Session, GoodSession, SessionKinds
  <2> QED
    BY <2>2, <2>3, <2>4, <1>d, <1>e
<1>13. ASSUME NEW t \in tasks, AccountFetched(t) PROVE SignedIn
  <2>1. t.e \in Endpoints
    BY <1>13, <1>d DEF AccountFetched, GoodTask
  <2>2. accounts' = accounts /\ codes' = codes /\ pages' = pages /\ unsettled' \subseteq unsettled
    BY <1>13 DEF AccountFetched
  <2>3. \A u \in tasks' : GoodTask(u)
    <3>1. GoodTask([is |-> "add", e |-> t.e])
      BY <2>1 DEF GoodTask
    <3> QED
      BY <1>13, <1>d, <3>1 DEF AccountFetched
  <2>4. FromSignIn(popups', answer')
    <3>1. Given(t.e) \in Reply
      BY <2>1, RepliesTyped
    <3>2. FromSignIn(AfterCallback(popups, session.caller), Settled(answer, session.caller, Given(t.e)))
      BY <3>1, CallbackFrom
    <3> QED
      BY <1>13, <3>2, <1>c DEF AccountFetched
  <2>5. session'.kind \in SessionKinds /\ GoodSession(session')
    <3>1. CASE session' = session
      BY <3>1, <1>d
    <3>2. CASE session' = [session EXCEPT !.kind = "Success", !.code = 0]
      BY <3>2, <1>d DEF SessionInv, GoodSession, SessionKinds
    <3> QED
      BY <1>13, <3>1, <3>2 DEF AccountFetched
  <2> QED
    BY <2>2, <2>3, <2>4, <2>5, <1>d, <1>e
<1>14. ASSUME NEW t \in tasks, TokenDenied(t) \/ AccountLost(t) \/ AccountsRefreshed(t) PROVE SignedIn
  <2>1. /\ UNCHANGED <<popups, answer, session, codes, pages>>
        /\ tasks' \subseteq tasks /\ unsettled' \subseteq unsettled
    BY <1>14 DEF TokenDenied, AccountLost, AccountsRefreshed
  <2>2. accounts' \subseteq Endpoints
    BY <1>14, <1>d DEF TokenDenied, AccountLost, AccountsRefreshed, GoodTask
  <2> QED
    BY <2>1, <2>2, <1>c, <1>d, <1>e
<1>15. ASSUME NEW t \in tasks, NEW done \in BOOLEAN, AccountAdded(t, done) PROVE SignedIn
  <2>1. accounts' \subseteq Endpoints /\ tasks' \subseteq tasks
    BY <1>15, <1>d DEF AccountAdded, GoodTask
  <2>2. UNCHANGED <<popups, answer, session, codes, pages, unsettled>>
    BY <1>15 DEF AccountAdded
  <2> QED
    BY <2>1, <2>2, <1>c, <1>d, <1>e
<1>16. ASSUME NEW code \in pages, PageCallsBack(code) PROVE SignedIn
  <2>1. UNCHANGED <<popups, answer, session, accounts, codes, unsettled>> /\ pages' \subseteq pages
    BY <1>16 DEF PageCallsBack
  <2>2. \A t \in tasks' : GoodTask(t)
    <3>1. GoodTask([is |-> "oauth", e |-> session.endpoint])
      BY <1>d DEF GoodTask, GoodSession
    <3> QED
      BY <1>16, <1>d, <3>1 DEF PageCallsBack
  <2> QED
    BY <2>1, <2>2, <1>c, <1>d, <1>e
<1> QED
  BY <1>5, <1>6, <1>7, <1>8, <1>9, <1>10, <1>11, <1>12, <1>13, <1>14, <1>15, <1>16 DEF SignInNext
-----------------------------------------------------------------------------
(* What the steps of operations and dialogs make of stack and answers.     *)
DialogsInv == SignInInv /\ StackInv /\ DialogInv
PasswordsInv == SecretInv /\ RecentInv /\ ForgottenInv

\* The stores of the accounts are left alone.
StoresSame == UNCHANGED <<session, accounts, tasks, codes, pages, unsettled>>

LEMMA FrontSame ==
  ASSUME DialogsInv, StoresSame, popups' = popups, answer' = answer, DecidesKept
  PROVE  DialogsInv'
<1>1. SignInInv' /\ StackInv'
  BY DEF DialogsInv, StoresSame, SignInInv, StackInv
<1>2. \A i \in DOMAIN popups' : Asking(popups[i])'
  BY DEF DialogsInv, DialogInv, Asking
<1> QED
  BY <1>1, <1>2 DEF DecidesKept, DialogInv, DialogsInv

(* A question comes up: the operation waits for its dialog.                *)
LEMMA FrontAsks ==
  ASSUME DialogsInv, StoresSame, DecidesKept, NEW o \in Askers, Kind[o] # "github",
         answer' = [answer EXCEPT ![o] = Pending],
         popups' = Added(popups, Popup(PopupType(o), o))
  PROVE  DialogsInv'
<1> DEFINE q == Popup(PopupType(o), o)
<1>1. q \in PopupsOf(Askers \cup {Nobody}) /\ q.asker = o /\ q.type = PopupType(o)
  BY DEF Popup, PopupType, PopupsOf, Types
<1> HIDE DEF q
<1>2. Sound(Added(popups, q), Askers \cup {Nobody}) /\ OnlyFrom(Added(popups, q), popups, q)
  BY <1>1, AddedSound DEF DialogsInv, StackInv
<1>3. popups' = Added(popups, q)
  BY DEF q
<1>4. /\ answer' \in [Askers -> Reply] /\ answer'[o].is = "pending"
      /\ \A x \in Askers : x # o => answer'[x] = answer[x]
  BY RepliesTyped DEF DialogsInv, SignInInv, Pending
<1>5. SignInInv'
  BY <1>4 DEF DialogsInv, StoresSame, SignInInv
<1>6. StackInv'
  BY <1>2, <1>3 DEF StackInv
<1>7. Asking(q)'
  BY <1>1, <1>4 DEF Asking, PopupType
<1>8. ASSUME NEW j \in DOMAIN popups, NEW p, p = popups[j] PROVE Asking(p)'
  <2>1. Asking(p)
    BY <1>8 DEF DialogsInv, DialogInv
  <2> QED
    BY <2>1, <1>4 DEF Asking, PopupType
<1>9. \A i \in DOMAIN popups' : Asking(popups[i])'
  <2> SUFFICES ASSUME NEW i \in DOMAIN popups' PROVE Asking(popups[i])'
    OBVIOUS
  <2>1. popups'[i] = q \/ \E j \in DOMAIN popups : popups'[i] = popups[j]
    BY <1>2, <1>3 DEF OnlyFrom
  <2> QED
    BY <2>1, <1>7, <1>8
<1> QED
  BY <1>5, <1>6, <1>9 DEF DecidesKept, DialogInv, DialogsInv

(* The dialog on top is answered and closed: no other one asks for the     *)
(* same operation, since no type comes twice.                              *)
LEMMA FrontAnswers ==
  ASSUME DialogsInv, StoresSame, request' = request, popups # <<>>, Top(popups).asker \in Askers,
         NEW r \in Reply, answer' = Settled(answer, Top(popups).asker, r),
         popups' = ClosedTop(popups)
  PROVE  DialogsInv' /\ answer[Top(popups).asker].is = "pending"
<1> DEFINE o == Top(popups).asker
<1>1. /\ popups \in Seq(PopupsOf(Askers \cup {Nobody})) /\ Shaped(popups)
      /\ Len(popups) \in DOMAIN popups /\ Top(popups) = popups[Len(popups)]
      /\ DOMAIN popups = 1..Len(popups) /\ Len(popups) \in Nat
  BY DEF DialogsInv, StackInv, Sound, Top
<1>2. /\ Sound(ClosedTop(popups), Askers \cup {Nobody})
      /\ Len(ClosedTop(popups)) = Len(popups) - 1
      /\ \A i \in 1..(Len(popups) - 1) : ClosedTop(popups)[i] = popups[i]
  <2>1. Sound(ClosedTop(popups), Askers \cup {Nobody})
    BY ClosedSound DEF DialogsInv, StackInv
  <2>2. /\ Len(Front(popups)) = Len(popups) - 1
        /\ \A i \in 1..Len(Front(popups)) : Front(popups)[i] = popups[i]
    BY <1>1, FrontFacts
  <2> QED
    BY <2>1, <2>2 DEF ClosedTop
<1>3. Asking(Top(popups))
  BY <1>1 DEF DialogsInv, DialogInv
<1>4. ~IsError(Top(popups))
  BY <1>3, Zenon DEF Asking, PopupType, IsError
<1>5. /\ answer' \in [Askers -> Reply] /\ \A x \in Askers : x # o => answer'[x] = answer[x]
  BY SettledTyped DEF DialogsInv, SignInInv
<1>6. ASSUME NEW i \in DOMAIN popups' PROVE Asking(popups[i])'
  <2>1. i \in 1..(Len(popups) - 1) /\ popups'[i] = popups[i]
    BY <1>2 DEF Sound
  <2>2. Asking(popups[i]) /\ i \in DOMAIN popups /\ i # Len(popups)
    BY <1>1, <2>1 DEF DialogsInv, DialogInv
  <2>3. popups[i].asker # o
    <3>1. SUFFICES ASSUME popups[i].asker = o PROVE FALSE
      OBVIOUS
    <3>2. popups[i].type = Top(popups).type
      BY <2>2, <3>1, <1>3 DEF Asking
    <3> QED
      BY <3>2, <2>2, <1>1, <1>4 DEF Shaped, IsError
  <2> QED
    BY <2>1, <2>2, <2>3, <1>5 DEF Asking, PopupType
<1>7. SignInInv'
  BY <1>5 DEF DialogsInv, StoresSame, SignInInv
<1>8. DialogInv'
  BY <1>6 DEF DialogsInv, DialogInv
<1> QED
  BY <1>2, <1>3, <1>7, <1>8 DEF DialogsInv, StackInv, Asking

(* Other dialogs come and go: nobody's question is answered.               *)
LEMMA FrontOthers ==
  ASSUME DialogsInv, StoresSame, answer' = answer, request' = request,
         \/ \E type \in Types : popups' = Added(popups, Popup(type, Nobody))
         \/ popups' = ClosedTop(popups)
  PROVE  DialogsInv'
<1>1. ASSUME NEW type \in Types
      PROVE  /\ Sound(Added(popups, Popup(type, Nobody)), Askers \cup {Nobody})
             /\ OnlyFrom(Added(popups, Popup(type, Nobody)), popups, Popup(type, Nobody))
  <2>1. Popup(type, Nobody) \in PopupsOf(Askers \cup {Nobody})
    BY DEF Popup, PopupsOf
  <2> QED
    BY <2>1, AddedSound DEF DialogsInv, StackInv
<1>2. Sound(ClosedTop(popups), Askers \cup {Nobody}) /\ Within(ClosedTop(popups), popups)
  BY ClosedSound DEF DialogsInv, StackInv
<1>3. StackInv'
  BY <1>1, <1>2 DEF StackInv
<1>4. ASSUME NEW i \in DOMAIN popups'
      PROVE  popups'[i].asker = Nobody \/ \E j \in DOMAIN popups : popups'[i] = popups[j]
  <2>1. CASE popups' = ClosedTop(popups)
    BY <2>1, <1>2 DEF Within
  <2>2. ASSUME NEW type \in Types, popups' = Added(popups, Popup(type, Nobody))
        PROVE  popups'[i].asker = Nobody \/ \E j \in DOMAIN popups : popups'[i] = popups[j]
    <3>1. popups'[i] = Popup(type, Nobody) \/ \E j \in DOMAIN popups : popups'[i] = popups[j]
      BY <2>2, <1>1 DEF OnlyFrom
    <3> QED
      BY <3>1 DEF Popup
  <2> QED
    BY <2>1, <2>2
<1>5. ASSUME NEW i \in DOMAIN popups' PROVE Asking(popups[i])'
  BY <1>4, <1>5, SignInAssumption DEF Asking, PopupType, DialogsInv, DialogInv
<1>6. SignInInv'
  BY DEF DialogsInv, StoresSame, SignInInv
<1> QED
  BY <1>3, <1>5, <1>6 DEF DialogsInv, DialogInv
-----------------------------------------------------------------------------
(* What the steps make of secrets and the keychain.                        *)

\* No operation becomes rejected that was not.
NoneRejected == \A o \in Askers : Rejected(o)' => Rejected(o)

\* Nobody's refusal is new among the operations that use a key or a password.
NoneRefused ==
  \A o \in Askers : IsSSH(o) /\ answer'[o].is = "refused" => answer[o].is = "refused"

\* What is called next is not by an operation that is rejected.
CallsNext(c) == keychain' = Append(keychain, c) /\ \A o \in Askers : Rejected(o) => c.by # o

LEMMA AppendFacts ==
  ASSUME NEW S, NEW s \in Seq(S), NEW c \in S
  PROVE  /\ Append(s, c) \in Seq(S) /\ DOMAIN Append(s, c) = 1..(Len(s) + 1)
         /\ \A i \in DOMAIN s : i \in DOMAIN Append(s, c) /\ Append(s, c)[i] = s[i]
         /\ \A i \in DOMAIN Append(s, c) : i \in DOMAIN s \/ (i = Len(s) + 1 /\ Append(s, c)[i] = c)
OBVIOUS

LEMMA ForgottenKept ==
  ASSUME SecretInv, ForgottenInv, NoneRejected, vault'["password"] = vault["password"],
         keychain' = keychain \/ \E c \in Calls : CallsNext(c)
  PROVE  ForgottenInv'
<1>1. /\ DOMAIN keychain \subseteq DOMAIN keychain'
      /\ \A i \in DOMAIN keychain : keychain'[i] = keychain[i]
      /\ \A i \in DOMAIN keychain' :
           \/ i \in DOMAIN keychain
           \/ \A o \in Askers : Rejected(o) => keychain'[i].by # o
  <2>1. CASE keychain' = keychain
    BY <2>1
  <2>2. ASSUME NEW c \in Calls, CallsNext(c)
        PROVE  /\ \A i \in DOMAIN keychain : i \in DOMAIN keychain' /\ keychain'[i] = keychain[i]
               /\ \A i \in DOMAIN keychain' : i \in DOMAIN keychain \/ keychain'[i] = c
    BY <2>2, AppendFacts DEF CallsNext, SecretInv
  <2>3. ASSUME NEW c \in Calls, CallsNext(c)
        PROVE  \A o \in Askers : Rejected(o) => c.by # o
    BY <2>3 DEF CallsNext
  <2>4. CASE \E c \in Calls : CallsNext(c)
    <3>1. PICK c \in Calls : CallsNext(c)
      BY <2>4
    <3> QED
      BY <3>1, <2>2, <2>3
  <2> QED
    BY <2>1, <2>4
<1>2. ASSUME NEW o, NEW i, Overwritten(o, i) PROVE Overwritten(o, i)'
  BY <1>1, <1>2 DEF Overwritten
<1>3. ASSUME NEW o \in Askers, Rejected(o)'
      PROVE  /\ vault'["password"].by = o => Overwritten(o, 0)'
             /\ \A i \in DOMAIN keychain' : keychain'[i].by = o => Overwritten(o, i)'
  <2>1. Rejected(o)
    BY <1>3 DEF NoneRejected
  <2>2. /\ vault["password"].by = o => Overwritten(o, 0)
        /\ \A i \in DOMAIN keychain : keychain[i].by = o => Overwritten(o, i)
    BY <2>1 DEF ForgottenInv
  <2>3. ASSUME NEW i \in DOMAIN keychain', keychain'[i].by = o PROVE Overwritten(o, i)'
    BY <2>1, <2>2, <2>3, <1>1, <1>2
  <2> QED
    BY <2>2, <2>3, <1>2
<1> QED
  BY <1>3 DEF ForgottenInv

LEMMA PasswordsSame ==
  ASSUME PasswordsInv, UNCHANGED <<last, choice, hashing, keychain, vault, recent, op>>, NoneRefused
  PROVE  PasswordsInv'
<1>1. SecretInv'
  BY DEF PasswordsInv, SecretInv
<1>2. RecentInv'
  BY DEF PasswordsInv, RecentInv, NoneRefused
<1>3. NoneRejected
  BY DEF NoneRejected, Rejected
<1>4. ForgottenInv'
  BY <1>3, ForgottenKept DEF PasswordsInv
<1> QED
  BY <1>1, <1>2, <1>4 DEF PasswordsInv

\* The command of an operation is answered with a secret.
LEMMA SentKeeps ==
  ASSUME IInv, PasswordsInv, NEW o \in Askers, request[o] # "idle",
         UNCHANGED <<op, answer, choice, vault>>,
         NEW is \in Secret, NEW from \in {"typed", "vault", "remembered"},
         last' = last \/ Sent(o, is, from),
         hashing' \subseteq [op : Askers, secret : Secret],
         recent' \in [Askers -> BOOLEAN],
         \A x \in Askers : x # o => recent'[x] = recent[x],
         Kind[o] = "password" => \/ last' = last /\ recent'[o] = recent[o]
                                 \/ from = "typed" /\ Sent(o, is, from)
                                 \/ recent'[o],
         NEW s \in Secret, keychain' = keychain \/ keychain' = Append(keychain, Put(o, s)),
         Kind[o] \in Secrets \/ keychain' = keychain
  PROVE  PasswordsInv'
<1>1. op[o] \notin {"absent", "ready", "done", "failed"}
  BY DEF IInv, ServedInv
<1>2. last' \in [Askers -> [is : Secret, from : {"typed", "vault", "remembered"}]]
      /\ \A x \in Askers : x # o => last'[x] = last[x]
  BY DEF Sent, PasswordsInv, SecretInv
<1>3. SecretInv'
  <2>1. keychain' \in Seq(Calls)
    <3>1. CASE keychain' = keychain
      BY <3>1 DEF PasswordsInv, SecretInv
    <3>2. CASE keychain' = Append(keychain, Put(o, s)) /\ Kind[o] \in Secrets
      <4>1. Put(o, s) \in Calls
        BY <3>2 DEF Put, Calls
      <4> QED
        BY <3>2, <4>1, AppendFacts DEF PasswordsInv, SecretInv
    <3> QED
      BY <3>1, <3>2
  <2> QED
    BY <1>2, <2>1 DEF PasswordsInv, SecretInv
<1>4. RecentInv'
  <2> SUFFICES ASSUME NEW x \in Askers
               PROVE  /\ IsSSH(x) /\ answer'[x].is = "refused" => ~choice'[x].remember
                      /\ Kind[x] = "password" /\ op'[x] = "running" /\ last'[x].from # "typed" => recent'[x]
                      /\ op'[x] \in {"absent", "ready"} => last'[x].from = "typed"
    BY DEF RecentInv
  <2>1. CASE x # o
    BY <2>1, <1>2 DEF PasswordsInv, RecentInv
  <2>2. CASE x = o
    <3>1. IsSSH(x) /\ answer'[x].is = "refused" => ~choice'[x].remember
      BY DEF PasswordsInv, RecentInv
    <3>2. ASSUME Kind[o] = "password", op[o] = "running", last'[o].from # "typed"
          PROVE  recent'[o]
      <4>1. Sent(o, is, from) => last'[o].from = from
        BY DEF Sent, PasswordsInv, SecretInv
      <4>2. last[o].from # "typed" => recent[o]
        BY <3>2 DEF PasswordsInv, RecentInv
      <4> QED
        BY <3>2, <4>1, <4>2
    <3> QED
      BY <2>2, <3>1, <3>2, <1>1
  <2> QED
    BY <2>1, <2>2
<1>5. NoneRejected
  BY <1>1, <1>2 DEF NoneRejected, Rejected
<1>6. ForgottenInv'
  <2>1. CASE keychain' = keychain
    BY <2>1, <1>5, ForgottenKept DEF PasswordsInv
  <2>2. CASE keychain' = Append(keychain, Put(o, s))
    <3>1. CallsNext(Put(o, s))
      BY <2>2, <1>1 DEF CallsNext, Put, Rejected
    <3>2. Put(o, s) \in Calls \/ keychain' = keychain
      BY DEF Put, Calls
    <3> QED
      BY <3>1, <3>2, <1>5, ForgottenKept DEF PasswordsInv
  <2> QED
    BY <2>1, <2>2
<1> QED
  BY <1>3, <1>4, <1>6 DEF PasswordsInv

LEMMA LookupSecrets ==
  ASSUME IInv, PasswordsInv, NEW o \in Askers, Lookup(o), NoneRefused
  PROVE  PasswordsInv'
<1>1. request[o] = "lookup" /\ UNCHANGED <<op, vault, hashing, keychain, choice>>
  BY DEF Lookup
<1>2. CASE Kind[o] \in Secrets /\ vault[Kind[o]].is # "none"
  <2>1. /\ Sent(o, vault[Kind[o]].is, "vault") /\ answer' = answer
        /\ recent' = IF IsSSH(o) THEN [recent EXCEPT ![o] = TRUE] ELSE recent
    BY <1>2 DEF Lookup, signInVars
  <2>2. vault[Kind[o]].is \in Secret
    BY <1>2 DEF PasswordsInv, SecretInv
  <2>3. /\ recent' \in [Askers -> BOOLEAN]
        /\ \A x \in Askers : x # o => recent'[x] = recent[x]
        /\ Kind[o] = "password" => recent'[o]
    BY <2>1 DEF IInv, TypeInv, IsSSH
  <2>4. hashing' \subseteq [op : Askers, secret : Secret] /\ keychain' = keychain
    BY <1>1 DEF PasswordsInv, SecretInv
  <2> QED
    BY <1>1, <2>1, <2>2, <2>3, <2>4, SentKeeps DEF Secret
<1>3. CASE ~(Kind[o] \in Secrets /\ vault[Kind[o]].is # "none")
  <2>1. UNCHANGED <<last, recent>>
    BY <1>3 DEF Lookup
  <2> QED
    BY <1>1, <2>1, PasswordsSame
<1> QED
  BY <1>2, <1>3

LEMMA LookupAccountSecrets ==
  ASSUME IInv, PasswordsInv, NEW o \in Askers, LookupAccount(o)
  PROVE  PasswordsInv'
<1>1. /\ request[o] = "lookup" /\ Kind[o] = "github"
      /\ UNCHANGED <<op, answer, choice, vault, hashing, keychain, recent>>
      /\ last' = last \/ Sent(o, "good", "vault")
  BY DEF LookupAccount, signInVars
<1>2. /\ hashing' \subseteq [op : Askers, secret : Secret] /\ recent' \in [Askers -> BOOLEAN]
      /\ keychain' = keychain /\ Kind[o] # "password"
      /\ \A x \in Askers : x # o => recent'[x] = recent[x]
  BY <1>1 DEF IInv, TypeInv, PasswordsInv, SecretInv
<1>3. request[o] # "idle" /\ "good" \in Secret /\ "vault" \in {"typed", "vault", "remembered"}
  BY <1>1 DEF Secret
<1> QED
  BY <1>1, <1>2, <1>3, SentKeeps

LEMMA ResumeSSHSecrets ==
  ASSUME IInv, PasswordsInv, NEW o \in Askers, ResumeSSH(o)
  PROVE  PasswordsInv'
<1> DEFINE s == choice[o].secret
           from == IF choice[o].remember THEN "remembered" ELSE "typed"
<1>1. /\ request[o] = "asking" /\ IsSSH(o) /\ answer[o].is \in {"given", "refused"}
      /\ UNCHANGED <<op, answer, choice, vault>>
      /\ Sent(o, s, from)
  BY DEF ResumeSSH, signInVars
<1>2. s \in Secret /\ from \in {"typed", "vault", "remembered"} /\ choice[o].remember \in BOOLEAN
  BY DEF PasswordsInv, SecretInv
<1>3. answer[o].is = "given" \/ ~choice[o].remember
  BY <1>1 DEF PasswordsInv, RecentInv
<1>4. hashing' \subseteq [op : Askers, secret : Secret]
  BY <1>2 DEF ResumeSSH, PasswordsInv, SecretInv
<1>5. /\ recent' \in [Askers -> BOOLEAN]
      /\ \A x \in Askers : x # o => recent'[x] = recent[x]
  BY DEF ResumeSSH, IInv, TypeInv
<1>6. Kind[o] = "password" => from = "typed" \/ recent'[o]
  BY <1>3 DEF ResumeSSH, IInv, TypeInv
<1>7. keychain' = keychain \/ keychain' = Append(keychain, Put(o, s))
  BY DEF ResumeSSH, Call
<1>8. Kind[o] \in Secrets
  BY <1>1 DEF IsSSH, Secrets
<1> HIDE DEF s, from
<1> QED
  BY <1>1, <1>2, <1>4, <1>5, <1>6, <1>7, <1>8, SentKeeps

LEMMA ResumeOtherSecrets ==
  ASSUME IInv, PasswordsInv, NEW o \in Askers, ResumeOther(o)
  PROVE  PasswordsInv'
<1> DEFINE s == CASE Kind[o] = "generic" -> choice[o].secret
                  [] Kind[o] = "github" /\ answer[o].of # Server[o] -> "bad"
                  [] OTHER -> "good"
<1>1. /\ request[o] = "asking" /\ ~IsSSH(o)
      /\ UNCHANGED <<op, answer, choice, vault, hashing, keychain, recent>>
      /\ last' = last \/ Sent(o, s, "typed")
  BY DEF ResumeOther, NoCredential, signInVars
<1>2. s \in Secret
  <2>1. choice[o].secret \in Secret
    BY DEF PasswordsInv, SecretInv
  <2> QED
    BY <2>1, Zenon DEF Secret
<1> HIDE DEF s
<1>3. /\ hashing' \subseteq [op : Askers, secret : Secret] /\ recent' \in [Askers -> BOOLEAN]
      /\ keychain' = keychain /\ Kind[o] # "password"
      /\ \A x \in Askers : x # o => recent'[x] = recent[x]
  BY <1>1 DEF IInv, TypeInv, PasswordsInv, SecretInv, IsSSH
<1>4. request[o] # "idle" /\ "typed" \in {"typed", "vault", "remembered"}
  BY <1>1
<1> QED
  BY <1>1, <1>2, <1>3, <1>4, SentKeeps

(* The user answers: who refuses has not asked to remember.                *)
LEMMA AnswerDialogSecrets ==
  ASSUME IInv, SignInInv, PasswordsInv, NEW secret \in Secret, NEW remember \in BOOLEAN,
         AnswerDialog(secret, remember), answer[Top(popups).asker].is = "pending"
  PROVE  PasswordsInv'
<1> DEFINE o == Top(popups).asker
           r == IF secret = "none" THEN Refused ELSE Given(Server[o])
<1>1. /\ o \in Askers /\ (remember => secret # "none")
      /\ answer' = Settled(answer, o, r)
      /\ choice' = [choice EXCEPT ![o] = [secret |-> secret, remember |-> remember]]
      /\ UNCHANGED <<op, last, vault, recent, hashing, keychain>>
  BY DEF AnswerDialog
<1>2. answer' = [answer EXCEPT ![o] = r]
  BY <1>1 DEF Settled
<1>3. answer'[o] = r /\ \A x \in Askers : x # o => answer'[x] = answer[x] /\ choice'[x] = choice[x]
  BY <1>1, <1>2 DEF SignInInv, PasswordsInv, SecretInv
<1>4. /\ choice' \in [Askers -> [secret : Secret, remember : BOOLEAN]]
      /\ choice'[o].remember = remember
  BY <1>1 DEF PasswordsInv, SecretInv
<1>5. SecretInv'
  BY <1>1, <1>4 DEF PasswordsInv, SecretInv
<1>6. r.is = "refused" => ~remember
  BY <1>1 DEF Given
<1> HIDE DEF r, o
<1>7. RecentInv'
  BY <1>1, <1>3, <1>4, <1>6 DEF PasswordsInv, RecentInv
<1>8. NoneRejected
  BY <1>1 DEF NoneRejected, Rejected
<1>9. ForgottenInv'
  BY <1>1, <1>8, ForgottenKept DEF PasswordsInv
<1> QED
  BY <1>5, <1>7, <1>9 DEF PasswordsInv

LEMMA KeyHashedSecrets ==
  ASSUME IInv, PasswordsInv, NEW h \in hashing, KeyHashed(h)
  PROVE  PasswordsInv'
<1>1. /\ h.op \in Askers /\ Kind[h.op] = "key" /\ h.secret \in Secret
      /\ recent' = [recent EXCEPT ![h.op] = TRUE] /\ hashing' \subseteq hashing
      /\ keychain' = Append(keychain, Put(h.op, h.secret))
      /\ UNCHANGED <<op, last, vault, choice, answer>>
  BY DEF KeyHashed, Call, signInVars, IInv, HashingInv, PasswordsInv, SecretInv
<1>2. Put(h.op, h.secret) \in Calls
  BY <1>1 DEF Put, Calls, Secrets
<1>3. SecretInv'
  <2>1. keychain' \in Seq(Calls)
    BY <1>1, <1>2, AppendFacts DEF PasswordsInv, SecretInv
  <2> QED
    BY <1>1, <2>1 DEF PasswordsInv, SecretInv
<1>4. RecentInv'
  BY <1>1 DEF PasswordsInv, RecentInv, IInv, TypeInv
<1>5. NoneRejected
  BY <1>1 DEF NoneRejected, Rejected
<1>6. CallsNext(Put(h.op, h.secret))
  BY <1>1 DEF CallsNext, Put, Rejected
<1>7. ForgottenInv'
  BY <1>1, <1>2, <1>5, <1>6, ForgottenKept DEF PasswordsInv
<1> QED
  BY <1>3, <1>4, <1>7 DEF PasswordsInv

(* The keychain catches up: what overwrites a password stays behind it.    *)
LEMMA KeychainActsSecrets ==
  ASSUME PasswordsInv, KeychainActs
  PROVE  PasswordsInv'
<1>1. /\ keychain # <<>> /\ keychain' = Tail(keychain)
      /\ vault' = [vault EXCEPT ![Head(keychain).of] = [is |-> Head(keychain).is, by |-> Head(keychain).by]]
      /\ UNCHANGED <<op, last, choice, answer, hashing, recent>>
  BY DEF KeychainActs, signInVars
<1>2. /\ Head(keychain) = keychain[1] /\ Head(keychain) \in Calls
      /\ Tail(keychain) \in Seq(Calls) /\ DOMAIN keychain = 1..Len(keychain)
      /\ DOMAIN Tail(keychain) = 1..(Len(keychain) - 1)
      /\ \A i \in 1..(Len(keychain) - 1) : Tail(keychain)[i] = keychain[i + 1]
      /\ Len(keychain) \in Nat \ {0}
  BY <1>1 DEF PasswordsInv, SecretInv
<1>3. SecretInv'
  BY <1>1, <1>2 DEF PasswordsInv, SecretInv, Calls
<1>4. RecentInv'
  BY <1>1 DEF PasswordsInv, RecentInv
<1>5. ASSUME NEW o, NEW i \in Nat, i >= 1, Overwritten(o, i) PROVE Overwritten(o, i - 1)'
  <2>1. PICK j \in DOMAIN keychain : /\ i < j /\ keychain[j].of = "password" /\ keychain[j].by # o
    BY <1>5 DEF Overwritten
  <2>2. j - 1 \in 1..(Len(keychain) - 1) /\ i - 1 < j - 1 /\ (j - 1) + 1 = j
    BY <1>2, <1>5, <2>1
  <2>3. keychain'[j - 1] = keychain[j] /\ j - 1 \in DOMAIN keychain'
    BY <1>1, <1>2, <2>2
  <2> QED
    BY <2>1, <2>2, <2>3 DEF Overwritten
<1>6. ASSUME NEW o \in Askers, Rejected(o)
      PROVE  /\ vault'["password"].by = o => Overwritten(o, 0)'
             /\ \A i \in DOMAIN keychain' : keychain'[i].by = o => Overwritten(o, i)'
  <2>1. /\ vault["password"].by = o => Overwritten(o, 0)
        /\ \A i \in DOMAIN keychain : keychain[i].by = o => Overwritten(o, i)
    BY <1>6 DEF PasswordsInv, ForgottenInv
  <2>2. ASSUME NEW i \in DOMAIN keychain', keychain'[i].by = o PROVE Overwritten(o, i)'
    <3>1. /\ i + 1 \in DOMAIN keychain /\ keychain[i + 1].by = o
          /\ i + 1 \in Nat /\ i + 1 >= 1 /\ (i + 1) - 1 = i
      BY <2>2, <1>1, <1>2
    <3>2. Overwritten(o, i + 1)
      BY <3>1, <2>1
    <3>3. Overwritten(o, (i + 1) - 1)'
      BY <3>1, <3>2, <1>5
    <3> QED
      BY <3>1, <3>3
  <2>3. ASSUME vault'["password"].by = o PROVE Overwritten(o, 0)'
    <3>1. CASE Head(keychain).of = "password"
      <4>1. keychain[1].by = o /\ 1 \in DOMAIN keychain
        BY <2>3, <3>1, <1>1, <1>2 DEF PasswordsInv, SecretInv, Secrets
      <4>2. Overwritten(o, 1) /\ 1 - 1 = 0
        BY <4>1, <2>1
      <4>3. Overwritten(o, 1 - 1)'
        BY <4>2, <1>5
      <4> QED
        BY <4>2, <4>3
    <3>2. CASE Head(keychain).of # "password"
      <4>1. vault["password"].by = o
        BY <2>3, <3>2, <1>1, <1>2 DEF PasswordsInv, SecretInv, Secrets, Calls
      <4>2. PICK j \in DOMAIN keychain : 0 < j /\ keychain[j].of = "password" /\ keychain[j].by # o
        BY <4>1, <2>1 DEF Overwritten
      <4>3. j # 1
        BY <4>2, <3>2, <1>2
      <4>4. j - 1 \in 1..(Len(keychain) - 1) /\ 0 < j - 1 /\ (j - 1) + 1 = j
        BY <1>2, <4>2, <4>3
      <4>5. keychain'[j - 1] = keychain[j] /\ j - 1 \in DOMAIN keychain'
        BY <1>1, <1>2, <4>4
      <4> QED
        BY <4>2, <4>4, <4>5 DEF Overwritten
    <3> QED
      BY <3>1, <3>2
  <2> QED
    BY <2>2, <2>3
<1>7. \A o \in Askers : Rejected(o)' => Rejected(o)
  BY <1>1 DEF Rejected
<1>8. ForgottenInv'
  BY <1>6, <1>7 DEF ForgottenInv
<1> QED
  BY <1>3, <1>4, <1>8 DEF PasswordsInv

LEMMA StartSecrets ==
  ASSUME IInv, PasswordsInv, NEW o \in Askers, Start(o)
  PROVE  PasswordsInv'
<1>1. /\ op[o] = "ready" /\ op' = [op EXCEPT ![o] = "running"]
      /\ UNCHANGED <<last, choice, answer, hashing, recent, vault, keychain>>
  BY DEF Start, signInVars
<1>2. SecretInv'
  BY <1>1 DEF PasswordsInv, SecretInv
<1>3. RecentInv'
  BY <1>1 DEF PasswordsInv, RecentInv, IInv, TypeInv
<1>4. NoneRejected
  BY <1>1 DEF NoneRejected, Rejected, IInv, TypeInv
<1>5. ForgottenInv'
  BY <1>1, <1>4, ForgottenKept DEF PasswordsInv
<1> QED
  BY <1>2, <1>3, <1>5 DEF PasswordsInv

\* An operation that is over needs no recent credential.
LEMMA EndRecent ==
  ASSUME IInv, RecentInv, NEW o \in Askers, NEW how \in Ended, End(o, how),
         UNCHANGED <<answer, choice, last>>
  PROVE  RecentInv'
<1>1. /\ op'[o] = how /\ \A x \in Askers : x # o => op'[x] = op[x] /\ recent'[x] = recent[x]
  BY DEF End, IInv, TypeInv, Ended
<1> QED
  BY <1>1 DEF RecentInv, Ended

LEMMA KilledSecrets ==
  ASSUME IInv, PasswordsInv, NEW o \in Askers, Killed(o) \/ Succeed(o)
  PROVE  PasswordsInv'
<1>1. PICK how \in {"done", "killed"} : End(o, how)
  BY DEF Killed, Succeed
<1>2. /\ UNCHANGED <<last, choice, answer, hashing, keychain>>
      /\ \/ vault' = vault
         \/ vault' = [vault EXCEPT !["generic"] = [is |-> "good", by |-> o]]
  BY DEF Killed, Succeed, signInVars
<1>3. SecretInv' /\ vault'["password"] = vault["password"]
  BY <1>2 DEF PasswordsInv, SecretInv, Secrets, Secret
<1>4. RecentInv'
  BY <1>1, <1>2, EndRecent DEF PasswordsInv, Ended
<1>5. NoneRejected
  BY <1>1, <1>2 DEF NoneRejected, Rejected, End, IInv, TypeInv
<1>6. ForgottenInv'
  BY <1>2, <1>3, <1>5, ForgottenKept DEF PasswordsInv
<1> QED
  BY <1>3, <1>4, <1>6 DEF PasswordsInv

(* The server refuses a password that was remembered or stored: it is the  *)
(* recent one, so the keychain is told to forget it, last of all.          *)
LEMMA AuthenticationFailsSecrets ==
  ASSUME IInv, PasswordsInv, NEW o \in Askers, AuthenticationFails(o)
  PROVE  PasswordsInv'
<1>1. /\ op[o] = "running" /\ End(o, "failed")
      /\ UNCHANGED <<last, choice, answer, hashing>>
      /\ vault' = vault \/ vault' = [vault EXCEPT !["generic"] = Empty]
      /\ IF IsSSH(o) /\ recent[o] /\ ~IsBackground(o)
         THEN keychain' = Append(keychain, Delete(Kind[o])) ELSE keychain' = keychain
  BY DEF AuthenticationFails, Call, signInVars
<1>2. Nobody \notin Askers
  BY SignInAssumption
<1>3. IsSSH(o) => Delete(Kind[o]) \in Calls
  BY DEF Delete, Calls, IsSSH, Secrets, Secret
<1>4. SecretInv'
  <2>1. Empty \in [is : Secret, by : Askers \cup {Nobody}]
    BY DEF Empty, Secret
  <2>2. vault' \in [Secrets -> [is : Secret, by : Askers \cup {Nobody}]]
    <3>1. vault \in [Secrets -> [is : Secret, by : Askers \cup {Nobody}]]
      BY DEF PasswordsInv, SecretInv
    <3>2. vault' = vault \/ vault' = [vault EXCEPT !["generic"] = Empty]
      BY <1>1
    <3> QED
      BY <2>1, <3>1, <3>2
  <2>3. keychain' \in Seq(Calls)
    <3>1. keychain \in Seq(Calls)
      BY DEF PasswordsInv, SecretInv
    <3>2. keychain' = keychain \/ (IsSSH(o) /\ keychain' = Append(keychain, Delete(Kind[o])))
      BY <1>1
    <3> QED
      BY <1>3, <3>1, <3>2, AppendFacts
  <2> QED
    BY <1>1, <2>2, <2>3 DEF PasswordsInv, SecretInv
<1>5. vault'["password"] = vault["password"]
  BY <1>1 DEF PasswordsInv, SecretInv, Secrets
<1>6. RecentInv'
  BY <1>1, EndRecent DEF PasswordsInv, Ended
<1>7. \A x \in Askers : x # o => (Rejected(x)' <=> Rejected(x))
  BY <1>1 DEF Rejected, End, IInv, TypeInv
<1>8. ASSUME Rejected(o)' PROVE IsSSH(o) /\ recent[o] /\ ~IsBackground(o) /\ Kind[o] = "password"
  BY <1>1, <1>8 DEF Rejected, IsSSH, IsBackground, PasswordsInv, RecentInv
<1>9. CASE ~Rejected(o)'
  <2>1. NoneRejected
    BY <1>7, <1>9 DEF NoneRejected
  <2>2. keychain' = keychain \/ \E c \in Calls : CallsNext(c)
    <3>1. ~Rejected(o)
      BY <1>1 DEF Rejected
    <3>2. CASE keychain' = Append(keychain, Delete(Kind[o])) /\ IsSSH(o)
      <4>1. CallsNext(Delete(Kind[o]))
        BY <3>2, <1>2 DEF CallsNext, Delete
      <4> QED
        BY <3>2, <4>1, <1>3
    <3> QED
      BY <3>2, <1>1
  <2>3. ForgottenInv'
    BY <1>5, <2>1, <2>2, ForgottenKept DEF PasswordsInv
  <2> QED
    BY <1>4, <1>6, <2>3 DEF PasswordsInv
<1>10. CASE Rejected(o)'
  <2> DEFINE c == Delete("password")
             n == Len(keychain) + 1
  <2>1. keychain' = Append(keychain, c) /\ c \in Calls /\ c.of = "password" /\ c.by = Nobody
    BY <1>1, <1>3, <1>8, <1>10 DEF Delete
  <2> HIDE DEF c
  <2>2. /\ n \in DOMAIN keychain' /\ keychain'[n] = c /\ n > 0
        /\ \A i \in DOMAIN keychain : i < n /\ i \in DOMAIN keychain' /\ keychain'[i] = keychain[i]
        /\ \A i \in DOMAIN keychain' : i \in DOMAIN keychain \/ i = n
    BY <2>1 DEF PasswordsInv, SecretInv
  <2> HIDE DEF n
  <2>3. ASSUME NEW x \in Askers, NEW i, i < n PROVE Overwritten(x, i)'
    BY <2>1, <2>2, <2>3, <1>2 DEF Overwritten
  <2>4. ASSUME NEW x \in Askers
        PROVE  /\ vault'["password"].by = x => Overwritten(x, 0)'
               /\ \A i \in DOMAIN keychain' : keychain'[i].by = x => Overwritten(x, i)'
    <3>1. Overwritten(x, 0)'
      BY <2>2, <2>3
    <3>2. ASSUME NEW i \in DOMAIN keychain', keychain'[i].by = x PROVE Overwritten(x, i)'
      <4>1. i # n
        BY <3>2, <2>1, <2>2, <1>2
      <4> QED
        BY <4>1, <2>2, <2>3
    <3> QED
      BY <3>1, <3>2
  <2>5. ForgottenInv'
    BY <2>4 DEF ForgottenInv
  <2> QED
    BY <1>4, <1>6, <2>5 DEF PasswordsInv
<1> QED
  BY <1>9, <1>10
-----------------------------------------------------------------------------
(* Every step keeps the second invariant.                                  *)
PromptsInv == DialogsInv /\ PasswordsInv

LEMMA Decides ==
  ASSUME TypeInv, DialogInv, NEW o \in Askers,
         \/ request' = request
         \/ \E r \in {"idle", "lookup", "asking"} : request' = [request EXCEPT ![o] = r]
         \/ Kind[o] = "github" /\ request' = [request EXCEPT ![o] = "decide"]
  PROVE  DecidesKept
BY DEF TypeInv, DialogInv, DecidesKept

LEMMA StillAnswered ==
  ASSUME FromSignIn(popups', answer')
  PROVE  NoneRefused
BY DEF FromSignIn, NoneRefused, IsSSH

LEMMA StoresStep ==
  ASSUME IInv, PromptsInv, SignInNext, UNCHANGED opVars
  PROVE  PromptsInv'
<1>1. SignInInv /\ StackInv /\ DialogInv /\ SessionInv
  BY DEF PromptsInv, DialogsInv, IInv
<1>2. SignInInv' /\ FromSignIn(popups', answer')
  BY <1>1, SignInTyped DEF SignedIn
<1>3. DecidesKept
  BY <1>1 DEF opVars, DecidesKept, DialogInv
<1>4. StackInv' /\ DialogInv'
  BY <1>1, <1>2, <1>3, DialogsKept
<1>5. PasswordsInv'
  BY <1>2, StillAnswered, PasswordsSame DEF PromptsInv, opVars
<1> QED
  BY <1>2, <1>4, <1>5 DEF PromptsInv, DialogsInv

LEMMA DecideStep ==
  ASSUME IInv, PromptsInv, NEW o \in Askers, DecideAccount(o)
  PROVE  PromptsInv'
<1>1. SignInInv /\ StackInv /\ DialogInv /\ TypeInv
  BY DEF PromptsInv, DialogsInv, IInv
<1>2. /\ Kind[o] = "github" /\ Server[o] \in Endpoints /\ DotCom \in Endpoints
      /\ UNCHANGED <<last, choice, hashing, keychain, vault, recent, op>>
  BY <1>1, PromptsAssumption, SignInAssumption DEF DecideAccount, DialogInv
<1>3. DecidesKept
  <2>1. \E r \in {"idle", "lookup", "asking"} : request' = [request EXCEPT ![o] = r]
    BY DEF DecideAccount, NoCredential, Serving
  <2> QED
    BY <1>1, <2>1, Decides
<1>4. CASE UNCHANGED <<popups, signInVars>>
  <2>1. DialogsInv'
    BY <1>3, <1>4, FrontSame DEF PromptsInv, StoresSame, signInVars
  <2>2. PasswordsInv'
    BY <1>2, <1>4, PasswordsSame DEF PromptsInv, signInVars, NoneRefused
  <2> QED
    BY <2>1, <2>2 DEF PromptsInv
<1>5. CASE PromptForGitHubSignIn(o, Server[o])
  <2>1. /\ answer' = [ResetAnswer(answer) EXCEPT ![o] = Pending]
        /\ popups' = Added(ResetPopups(popups), SignInDialog)
        /\ session' = Session(StepFor(Server[o]), Server[o], o, 0)
        /\ unsettled' = ResetPromises
        /\ UNCHANGED <<accounts, tasks, codes, pages>>
    BY <1>5 DEF PromptForGitHubSignIn, SignInDialog
  <2>2. /\ FromSignIn(Added(ResetPopups(popups), SignInDialog), ResetAnswer(answer))
        /\ ResetPromises \subseteq unsettled
    BY <1>1, ResetFrom
  <2>3. FromSignIn(popups', answer')
    <3>1. /\ answer' \in [Askers -> Reply]
          /\ \A x \in Askers : x # o => answer'[x] = ResetAnswer(answer)[x]
      BY <2>1, <2>2, RepliesTyped DEF FromSignIn
    <3> QED
      BY <1>2, <2>1, <2>2, <3>1 DEF FromSignIn
  <2>4. session'.kind \in SessionKinds /\ GoodSession(session')
    BY <1>2, <2>1 DEF Session, StepFor, SessionKinds, GoodSession
  <2>5. SignInInv'
    BY <1>1, <2>1, <2>2, <2>3, <2>4 DEF SignInInv, FromSignIn
  <2>6. StackInv' /\ DialogInv'
    BY <1>1, <1>3, <2>3, DialogsKept
  <2>7. PasswordsInv'
    BY <1>2, <2>3, StillAnswered, PasswordsSame DEF PromptsInv
  <2> QED
    BY <2>5, <2>6, <2>7 DEF PromptsInv, DialogsInv
<1> QED
  BY <1>4, <1>5 DEF DecideAccount

LEMMA LookupStep ==
  ASSUME IInv, PromptsInv, NEW o \in Askers, Lookup(o)
  PROVE  PromptsInv'
<1>1. DialogsInv /\ PasswordsInv /\ TypeInv /\ DialogInv /\ Kind[o] # "github"
  BY DEF PromptsInv, DialogsInv, IInv, Lookup
<1>2. DecidesKept
  <2>1. \E r \in {"idle", "lookup", "asking"} : request' = [request EXCEPT ![o] = r]
    BY DEF Lookup, NoCredential, AskUser, Serving
  <2> QED
    BY <1>1, <2>1, Decides
<1>3. CASE popups' = popups /\ UNCHANGED signInVars
  <2>1. DialogsInv' /\ NoneRefused
    BY <1>1, <1>2, <1>3, FrontSame DEF StoresSame, signInVars, NoneRefused
  <2> QED
    BY <1>1, <2>1, LookupSecrets DEF PromptsInv
<1>4. CASE AskUser(o)
  <2>1. /\ answer' = [answer EXCEPT ![o] = Pending] /\ StoresSame
        /\ popups' = Added(popups, Popup(PopupType(o), o))
    BY <1>4 DEF AskUser, StoresSame
  <2>2. DialogsInv'
    BY <1>1, <1>2, <2>1, FrontAsks
  <2>3. NoneRefused
    BY <1>1, <2>1 DEF NoneRefused, Pending, DialogsInv, SignInInv
  <2> QED
    BY <1>1, <2>2, <2>3, LookupSecrets DEF PromptsInv
<1> QED
  BY <1>3, <1>4 DEF Lookup

LEMMA AnswerStep ==
  ASSUME IInv, PromptsInv, NEW secret \in Secret, NEW remember \in BOOLEAN,
         AnswerDialog(secret, remember)
  PROVE  PromptsInv'
<1> DEFINE r == IF secret = "none" THEN Refused ELSE Given(Server[Top(popups).asker])
<1>1. /\ popups # <<>> /\ Top(popups).asker \in Askers
      /\ answer' = Settled(answer, Top(popups).asker, r)
      /\ popups' = ClosedTop(popups) /\ StoresSame /\ request' = request
  BY DEF AnswerDialog, StoresSame
<1>2. r \in Reply
  BY <1>1, RepliesTyped, PromptsAssumption
<1> HIDE DEF r
<1>3. DialogsInv' /\ answer[Top(popups).asker].is = "pending"
  BY <1>1, <1>2, FrontAnswers DEF PromptsInv
<1>4. PasswordsInv'
  BY <1>3, AnswerDialogSecrets DEF PromptsInv, DialogsInv
<1> QED
  BY <1>3, <1>4 DEF PromptsInv

LEMMA DialogStep ==
  ASSUME IInv, PromptsInv, \/ ShowError \/ DismissError \/ ShowMultiCommitOperation
                           \/ EndMultiCommitOperation
  PROVE  PromptsInv'
<1>1. /\ StoresSame /\ answer' = answer /\ request' = request
      /\ UNCHANGED <<last, choice, hashing, keychain, vault, recent, op>>
  BY DEF ShowError, DismissError, ShowMultiCommitOperation, EndMultiCommitOperation, Another,
         signInVars, opVars, StoresSame
<1>2. \/ \E type \in Types : popups' = Added(popups, Popup(type, Nobody))
      \/ popups' = ClosedTop(popups)
  <2>1. "Error" \in Types /\ "MultiCommitOperation" \in Types
    BY DEF Types
  <2> QED
    BY <2>1 DEF ShowError, DismissError, ShowMultiCommitOperation, EndMultiCommitOperation
<1>3. DialogsInv'
  BY <1>1, <1>2, FrontOthers DEF PromptsInv
<1>4. PasswordsInv'
  BY <1>1, PasswordsSame DEF PromptsInv, NoneRefused
<1> QED
  BY <1>3, <1>4 DEF PromptsInv

\* The other steps of operations and stores leave the dialogs alone.
LEMMA QuietStep ==
  ASSUME IInv, PromptsInv, UNCHANGED <<popups, signInVars>>, NEW o \in Askers,
         \/ request' = request
         \/ \E r \in {"idle", "lookup", "asking"} : request' = [request EXCEPT ![o] = r]
         \/ Kind[o] = "github" /\ request' = [request EXCEPT ![o] = "decide"],
         PasswordsInv'
  PROVE  PromptsInv'
<1>1. DecidesKept
  BY Decides DEF IInv, PromptsInv, DialogsInv
<1>2. DialogsInv'
  BY <1>1, FrontSame DEF PromptsInv, StoresSame, signInVars
<1> QED
  BY <1>2 DEF PromptsInv

LEMMA OperationStep ==
  ASSUME IInv, PromptsInv, NEW o \in Askers, Start(o) \/ Handler(o) \/ Git(o) \/ Killed(o)
  PROVE  PromptsInv'
<1>0. PasswordsInv
  BY DEF PromptsInv
<1>1. CASE Start(o)
  <2>1. PasswordsInv'
    BY <1>0, <1>1, StartSecrets
  <2> QED
    BY <1>1, <2>1, QuietStep DEF Start
<1>2. CASE Command(o)
  <2>1. PasswordsInv'
    BY <1>0, <1>2, PasswordsSame DEF Command, NoneRefused, signInVars
  <2>2. request' = [request EXCEPT ![o] = "lookup"] /\ UNCHANGED <<popups, signInVars>>
    BY <1>2 DEF Command, Serving
  <2> QED
    BY <2>1, <2>2, QuietStep
<1>3. CASE LookupAccount(o)
  <2>1. PasswordsInv'
    BY <1>0, <1>3, LookupAccountSecrets
  <2>2. /\ UNCHANGED <<popups, signInVars>> /\ Kind[o] = "github"
        /\ \/ request' = [request EXCEPT ![o] = "idle"]
           \/ request' = [request EXCEPT ![o] = "decide"]
    BY <1>3 DEF LookupAccount, Serving
  <2> QED
    BY <2>1, <2>2, QuietStep
<1>4. CASE ResumeSSH(o) \/ ResumeOther(o)
  <2>1. PasswordsInv'
    BY <1>0, <1>4, ResumeSSHSecrets, ResumeOtherSecrets
  <2>2. request' = [request EXCEPT ![o] = "idle"] /\ UNCHANGED <<popups, signInVars>>
    BY <1>4 DEF ResumeSSH, ResumeOther, NoCredential, Serving
  <2> QED
    BY <2>1, <2>2, QuietStep
<1>5. CASE Succeed(o) \/ AuthenticationFails(o) \/ Killed(o)
  <2>1. PasswordsInv'
    BY <1>0, <1>5, KilledSecrets, AuthenticationFailsSecrets
  <2>2. request' = request /\ UNCHANGED <<popups, signInVars>>
    BY <1>5 DEF Succeed, AuthenticationFails, Killed
  <2> QED
    BY <2>1, <2>2, QuietStep
<1> QED
  BY <1>1, <1>2, <1>3, <1>4, <1>5, LookupStep, DecideStep DEF Handler, Git

\* The keychain and the hash of a key; nobody needs to be served for them.
LEMMA KeysStep ==
  ASSUME IInv, PromptsInv, KeychainActs \/ (\E h \in hashing : KeyHashed(h)) \/ UNCHANGED vars
  PROVE  PromptsInv'
<1>1. PasswordsInv'
  BY KeychainActsSecrets, KeyHashedSecrets, PasswordsSame
     DEF PromptsInv, vars, opVars, signInVars, NoneRefused
<1>2. request' = request /\ UNCHANGED <<popups, signInVars>>
  BY DEF KeychainActs, KeyHashed, vars, opVars
<1>3. DecidesKept
  BY <1>2 DEF PromptsInv, DialogsInv, DialogInv, DecidesKept
<1>4. DialogsInv'
  BY <1>2, <1>3, FrontSame DEF PromptsInv, StoresSame, signInVars
<1> QED
  BY <1>1, <1>4 DEF PromptsInv

LEMMA PromptsStep == ASSUME IInv, PromptsInv, [Next]_vars PROVE PromptsInv'
BY OperationStep, AnswerStep, KeysStep, StoresStep, DialogStep DEF Next, Secret

LEMMA InitPrompts == Init => PromptsInv
<1> SUFFICES ASSUME Init PROVE PromptsInv
  OBVIOUS
<1>1. /\ session = NoSession /\ accounts \subseteq Endpoints
      /\ answer = [o \in Askers |-> Unasked]
      /\ tasks = {[is |-> "refresh", list |-> accounts]}
      /\ codes = 0 /\ pages = {} /\ unsettled = {} /\ popups = <<>>
      /\ DotCom \in Endpoints /\ Nobody \notin Askers /\ PopupLimit \in Nat
  BY SignInAssumption, PopupLimitAssumption DEF Init, SignInInit
<1>2. SignInInv
  <2>1. \A t \in tasks : GoodTask(t)
    BY <1>1 DEF GoodTask
  <2>2. session.kind \in SessionKinds /\ GoodSession(session)
    BY <1>1 DEF NoSession, GoodSession, SessionKinds
  <2> QED
    BY <1>1, <2>1, <2>2, RepliesTyped DEF SignInInv
<1>3. StackInv
  BY <1>1 DEF StackInv, Sound, Shaped
<1>4. DialogInv
  BY <1>1 DEF DialogInv, Init
<1>5. /\ last = [o \in Askers |-> [is |-> "none", from |-> "typed"]]
      /\ vault = [s \in Secrets |-> Empty] /\ hashing = {} /\ keychain = <<>>
      /\ choice = [o \in Askers |-> [secret |-> "none", remember |-> FALSE]]
      /\ op \in [Askers -> {"ready", "absent"}]
  BY DEF Init
<1>6. SecretInv
  BY <1>5 DEF SecretInv, Secret, Empty
<1>7. RecentInv
  BY <1>1, <1>5 DEF RecentInv, Unasked
<1>8. ForgottenInv
  BY <1>5 DEF ForgottenInv, Rejected
<1> QED
  BY <1>2, <1>3, <1>4, <1>6, <1>7, <1>8 DEF PromptsInv, DialogsInv, PasswordsInv

(* The second invariant: dialogs and the questions behind them, secrets    *)
(* and the calls of the keychain that nobody awaits.                       *)
THEOREM PromptsInvariance == Spec => []PromptsInv
BY Invariance, InitPrompts, PromptsStep, PTL DEF Spec

(* The state of the prompts stays well formed, whatever the scenes, the    *)
(* limit of the stack and the operations.                                  *)
THEOREM PromptsTyped == Spec => []PromptsTypeOK
<1>1. IInv /\ PromptsInv => PromptsTypeOK
  <2> SUFFICES ASSUME IInv, PromptsInv PROVE PromptsTypeOK
    OBVIOUS
  <2>1. StackTypeOK
    BY SoundMeans DEF PromptsInv, DialogsInv, StackInv
  <2>2. SignInInv
    BY DEF PromptsInv, DialogsInv
  <2> QED
    BY <2>1, <2>2 DEF PromptsTypeOK, SignInInv, SessionKinds, Reply, IInv, TypeInv, Ended
<1> QED
  BY Invariance, PromptsInvariance, <1>1, PTL

(* Errors stay above all other dialogs and no other type is there twice,   *)
(* whatever operations, users and errors come in (popup-manager.ts:15-20). *)
THEOREM StackInShape == Spec => []StackShape
<1>1. PromptsInv => StackShape
  BY SoundMeans DEF PromptsInv, DialogsInv, StackInv
<1> QED
  BY PromptsInvariance, <1>1, PTL

(* A password that a server refused does not stay in the keychain once the *)
(* keychain has caught up, whatever operations overtake one another        *)
(* (trampoline-environment.ts:149-157).                                    *)
THEOREM PasswordForgotten == Spec => []RejectedPasswordForgotten
<1>1. PromptsInv => RejectedPasswordForgotten
  <2> SUFFICES ASSUME PromptsInv, NEW o \in Askers \ InBackground, op[o] = "failed",
                      Kind[o] = "password", last[o].from # "typed", keychain = <<>>
               PROVE  vault["password"] # [is |-> "bad", by |-> o]
    BY DEF RejectedPasswordForgotten
  <2>1. Rejected(o)
    BY DEF Rejected
  <2>2. ~Overwritten(o, 0)
    BY DEF Overwritten
  <2> QED
    BY <2>1, <2>2 DEF PromptsInv, PasswordsInv, ForgottenInv
<1> QED
  BY PromptsInvariance, <1>1, PTL
=============================================================================
