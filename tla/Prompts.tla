------------------------------- MODULE Prompts -------------------------------
(***************************************************************************)
(* Git operations of the TypeScript application that ask for credentials:  *)
(* src/app/src/lib/trampoline and lib/ssh.  Every operation has a token;   *)
(* its Git talks to the trampoline server, one command at a time, and the  *)
(* handler of a command looks in the stores, asks the user, and replies.   *)
(* Git may be killed meanwhile: the handler goes on for a dead operation.  *)
(***************************************************************************)
EXTENDS SignIn

CONSTANTS Kind,         \* what each operation is asked for
          Server,       \* the endpoint of the operations asked for "github"
          InBackground, \* operations with isBackgroundTask
          Scenes,       \* bound: what happens together, see Scene
          MaxAsks       \* bound: questions per operation

\* the operations that run, how often the user signs in, how often Git is
\* killed, how many dialogs of other parts of the application come up
Scene == [ops : SUBSET Askers, signIns : 0..MaxUser, kills : Nat, others : Nat]

ASSUME PromptsAssumption ==
  /\ Kind \in [Askers -> {"github", "generic", "key", "password", "host"}]
  /\ Server \in [Askers -> Endpoints]
  /\ InBackground \subseteq Askers
  /\ \A scene \in Scenes : scene \in Scene
  /\ MaxAsks \in Nat

VARIABLES op,           \* "ready" or "absent", "running", "done", "failed", "killed"
          request,      \* the command the trampoline serves for an operation
          asks,         \* questions so far
          last,         \* the last secret sent to Git: is it good, who had it
          vault,        \* TokenStore, one secret per kind and who stored it
          recent,       \* mostRecentSSHCredentials
          rejected,     \* keys of hasRejectedCredentialsForEndpoint
          hashing,      \* remembered passphrases whose key file is being hashed
          keychain,     \* calls of the keychain nobody awaits, in order
          choice,       \* what the user typed and whether to remember it
          kills,        \* how often Git may still be killed
          others        \* how many other dialogs may still come up

opVars == <<op, request, asks, last, vault, recent, rejected, hashing, keychain, choice, kills, others>>
vars == <<popups, signInVars, opVars>>

Secrets == {"generic", "key", "password"}
IsSSH(o) == Kind[o] \in {"key", "password"}
Empty == [is |-> "none", by |-> Nobody]
PopupType(o) == CASE Kind[o] = "generic"  -> "GenericGitAuthentication"
                  [] Kind[o] = "key"      -> "SSHKeyPassphrase"
                  [] Kind[o] = "password" -> "SSHUserPassword"
                  [] Kind[o] = "host"     -> "AddSSHHost"
                  [] OTHER                -> "SignIn"

\* (mutant) the flag is set only once the operation has ended
IsBackgroundLate(o) == o \in InBackground /\ op[o] # "running"

\* getIsBackgroundTaskEnvironment: an operation that is over counts as foreground
IsBackground(o) == o \in InBackground /\ op[o] = "running"

Serving(o, r) == request' = [request EXCEPT ![o] = r]
Sent(o, secret, from) == last' = [last EXCEPT ![o] = [is |-> secret, from |-> from]]
Call(c) == keychain' = Append(keychain, c)
Put(o, secret) == [is |-> secret, by |-> o, of |-> Kind[o]]
Delete(s) == [is |-> "none", by |-> Nobody, of |-> s]

\* withTrampolineEnv begins: a token, the background flag, the path
Start(o) ==
  /\ op[o] = "ready"
  /\ op' = [op EXCEPT ![o] = "running"]
  /\ UNCHANGED <<popups, signInVars, request, asks, last, vault, recent, rejected,
                 hashing, keychain, choice, kills, others>>

\* processCommand: Git asks, with a valid token, once or (ssh) again
Command(o) ==
  /\ op[o] = "running" /\ request[o] = "idle"
  /\ asks[o] < MaxAsks
  /\ last[o].is = "none" \/ (IsSSH(o) /\ last[o].is = "bad")
  /\ asks' = [asks EXCEPT ![o] = @ + 1]
  /\ Serving(o, "lookup")
  /\ UNCHANGED <<popups, signInVars, op, last, vault, recent, rejected, hashing,
                 keychain, choice, kills, others>>

\* the promise of the trampoline UI helper, and its popup, which may be dropped
AskUser(o) ==
  /\ answer' = [answer EXCEPT ![o] = Pending]
  /\ popups' = Added(popups, Popup(PopupType(o), o))
  /\ Serving(o, "asking")
  /\ UNCHANGED <<session, accounts, tasks, codes, pages, unsettled, begun, rejected>>

\* no credential: only the credential helper notes that the endpoint was rejected
NoCredential(o) ==
  /\ rejected' = IF Kind[o] \in {"github", "generic"} THEN rejected \cup {o} ELSE rejected
  /\ Serving(o, "idle")

\* handleSSH..., getGenericCredential: what is stored, or the user, or nothing
Lookup(o) ==
  /\ request[o] = "lookup" /\ Kind[o] # "github"
  /\ Kind[o] \in Secrets => keychain = <<>>       \* the read comes after older calls
  /\ IF Kind[o] \in Secrets /\ vault[Kind[o]].is # "none"
     THEN /\ Sent(o, vault[Kind[o]].is, "vault")
          /\ recent' = IF IsSSH(o) THEN [recent EXCEPT ![o] = TRUE] ELSE recent
          /\ Serving(o, "idle")
          /\ UNCHANGED <<popups, signInVars, rejected>>
     ELSE /\ IF IsBackground(o)
             THEN NoCredential(o) /\ UNCHANGED <<popups, signInVars>>
             ELSE AskUser(o)
          /\ UNCHANGED <<last, recent>>
  /\ UNCHANGED <<op, asks, vault, hashing, keychain, choice, kills, others>>

\* getCredential: an account of the store, before the kind of endpoint is known
LookupAccount(o) ==
  /\ request[o] = "lookup" /\ Kind[o] = "github"
  /\ IF Server[o] \in accounts
     THEN Sent(o, "good", "vault") /\ Serving(o, "idle")
     ELSE Serving(o, "decide") /\ UNCHANGED last
  /\ UNCHANGED <<popups, signInVars, op, asks, vault, recent, rejected, hashing,
                 keychain, choice, kills, others>>

\* ... and after: sign in, unless an account came up meanwhile
DecideAccount(o) ==
  /\ request[o] = "decide"
  /\ IF Server[o] \in accounts \/ IsBackground(o)
     THEN NoCredential(o) /\ UNCHANGED <<popups, signInVars>>
     ELSE /\ PromptForGitHubSignIn(o, Server[o])
          /\ Serving(o, "asking")
          /\ UNCHANGED rejected
  /\ UNCHANGED <<op, asks, last, vault, recent, hashing, keychain, choice, kills, others>>

\* the dialog on top is submitted or dismissed; both close it by its id
AnswerDialog(secret, remember) ==
  /\ popups # <<>> /\ Top(popups).asker \in Askers
  /\ remember => IsSSH(Top(popups).asker) /\ secret # "none"
  /\ secret = "bad" => Kind[Top(popups).asker] \in Secrets
  /\ LET o == Top(popups).asker IN
     /\ answer' = Settled(answer, o, IF secret = "none" THEN Refused ELSE Given(Server[o]))
     /\ choice' = [choice EXCEPT ![o] = [secret |-> secret, remember |-> remember]]
  /\ popups' = ClosedTop(popups)
  /\ UNCHANGED <<session, accounts, tasks, codes, pages, unsettled, begun, op, request,
                 asks, last, vault, recent, rejected, hashing, keychain, kills, others>>

\* the handler goes on with the secret the user typed
ResumeSSH(o) ==
  /\ request[o] = "asking" /\ IsSSH(o) /\ answer[o].is \in {"given", "refused"}
  /\ IF answer[o].is = "given" /\ choice[o].remember
     THEN \* setSSHKeyPassphrase hashes the key first, setSSHUserPassword does not
          IF Kind[o] = "key"
          THEN /\ hashing' = hashing \cup {[op |-> o, secret |-> choice[o].secret]}
               /\ UNCHANGED <<recent, keychain>>
          ELSE /\ recent' = [recent EXCEPT ![o] = TRUE]
               /\ Call(Put(o, choice[o].secret))
               /\ UNCHANGED hashing
     ELSE recent' = [recent EXCEPT ![o] = FALSE] /\ UNCHANGED <<hashing, keychain>>
  /\ Sent(o, choice[o].secret, IF choice[o].remember THEN "remembered" ELSE "typed")
  /\ Serving(o, "idle")
  /\ UNCHANGED <<popups, signInVars, op, asks, vault, rejected, choice, kills, others>>

\* credential helper and host question: the answer, or a rejected endpoint
ResumeOther(o) ==
  /\ request[o] = "asking" /\ ~IsSSH(o) /\ answer[o].is \in {"given", "refused"}
  /\ IF answer[o].is = "given"
     THEN /\ Sent(o, CASE Kind[o] = "generic" -> choice[o].secret
                       [] Kind[o] = "github" /\ answer[o].of # Server[o] -> "bad"
                       [] OTHER -> "good", "typed")
          /\ Serving(o, "idle")
          /\ UNCHANGED rejected
     ELSE NoCredential(o) /\ UNCHANGED last
  /\ UNCHANGED <<popups, signInVars, op, asks, vault, recent, hashing, keychain, choice, kills, others>>

\* the passphrase's key is hashed: it is the most recent one from now on
KeyHashed(h) ==
  /\ h \in hashing
  /\ hashing' = hashing \ {h}
  /\ recent' = [recent EXCEPT ![h.op] = TRUE]
  /\ Call(Put(h.op, h.secret))
  /\ UNCHANGED <<popups, signInVars, op, request, asks, last, vault, rejected, choice, kills, others>>

\* the keychain carries out its oldest call
KeychainActs ==
  /\ keychain # <<>>
  /\ keychain' = Tail(keychain)
  /\ LET c == Head(keychain) IN vault' = [vault EXCEPT ![c.of] = [is |-> c.is, by |-> c.by]]
  /\ UNCHANGED <<popups, signInVars, op, request, asks, last, recent, rejected, hashing,
                 choice, kills, others>>

\* (mutant) the rejected endpoints stay behind
EndKeepsRejected(o, how) ==
  /\ op' = [op EXCEPT ![o] = how]
  /\ recent' = [recent EXCEPT ![o] = FALSE]
  /\ UNCHANGED rejected

\* the finally block: nothing of the operation stays in the maps
End(o, how) ==
  /\ op' = [op EXCEPT ![o] = how]
  /\ recent' = [recent EXCEPT ![o] = FALSE]
  /\ rejected' = rejected \ {o}

\* Git succeeds; for a generic server it has its credential stored first
Succeed(o) ==
  /\ op[o] = "running" /\ request[o] = "idle" /\ last[o].is # "bad"
  /\ vault' = IF Kind[o] = "generic" /\ last[o].is = "good"
              THEN [vault EXCEPT !["generic"] = [is |-> "good", by |-> o]] ELSE vault
  /\ End(o, "done")
  /\ UNCHANGED <<popups, signInVars, request, asks, last, hashing, keychain, choice, kills, others>>

\* (mutant) the most recent credential is gone before it is deleted
AuthenticationFailsCleared(o) ==
  /\ op[o] = "running" /\ request[o] = "idle" /\ last[o].is # "good" /\ asks[o] > 0
  /\ End(o, "failed")
  /\ UNCHANGED <<popups, signInVars, request, asks, last, vault, hashing, keychain, choice,
                 kills, others>>

\* the server refuses the last secret, or there was none
AuthenticationFails(o) ==
  /\ op[o] = "running" /\ request[o] = "idle" /\ last[o].is # "good" /\ asks[o] > 0
  /\ vault' = IF Kind[o] = "generic" /\ last[o].is = "bad"
              THEN [vault EXCEPT !["generic"] = Empty] ELSE vault    \* 'erase'
  /\ IF IsSSH(o) /\ recent[o] /\ ~IsBackground(o)
     THEN Call(Delete(Kind[o]))
     ELSE UNCHANGED keychain
  /\ End(o, "failed")
  /\ UNCHANGED <<popups, signInVars, request, asks, last, hashing, choice, kills, others>>

\* Git is killed; whatever is served for it is served on
Killed(o) ==
  /\ op[o] = "running" /\ kills > 0
  /\ kills' = kills - 1
  /\ End(o, "killed")
  /\ UNCHANGED <<popups, signInVars, request, asks, last, vault, hashing, keychain, choice, others>>

\* other parts of the application: an error, its dismissal, the dialog of a
\* multi-commit operation and the end of one, which closes what is on top
Another ==
  /\ others > 0
  /\ others' = others - 1
  /\ UNCHANGED <<signInVars, op, request, asks, last, vault, recent, rejected, hashing,
                 keychain, choice, kills>>

ShowError ==
  /\ Another
  /\ popups' = Added(popups, Popup("Error", Nobody))

DismissError ==
  /\ popups # <<>> /\ IsError(Top(popups))
  /\ popups' = ClosedTop(popups)
  /\ UNCHANGED <<signInVars, opVars>>

ShowMultiCommitOperation ==
  /\ Another
  /\ popups' = Added(popups, Popup("MultiCommitOperation", Nobody))

EndMultiCommitOperation ==
  /\ HasType(popups, "MultiCommitOperation")
  /\ popups' = ClosedTop(popups)
  /\ UNCHANGED <<signInVars, opVars>>

Init ==
  /\ popups = <<>>
  /\ SignInInit
  /\ \E scene \in Scenes :
       /\ op = [o \in Askers |-> IF o \in scene.ops THEN "ready" ELSE "absent"]
       /\ begun = MaxUser - scene.signIns
       /\ kills = scene.kills /\ others = scene.others
  /\ request = [o \in Askers |-> "idle"]
  /\ asks = [o \in Askers |-> 0]
  /\ last = [o \in Askers |-> [is |-> "none", from |-> "typed"]]
  /\ vault = [s \in Secrets |-> Empty]
  /\ recent = [o \in Askers |-> FALSE]
  /\ rejected = {} /\ hashing = {} /\ keychain = <<>>
  /\ choice = [o \in Askers |-> [secret |-> "none", remember |-> FALSE]]

Handler(o) == \/ Lookup(o) \/ LookupAccount(o) \/ DecideAccount(o)
              \/ ResumeSSH(o) \/ ResumeOther(o)
Git(o) == Command(o) \/ Succeed(o) \/ AuthenticationFails(o)

Next ==
  \/ \E o \in Askers : Start(o) \/ Handler(o) \/ Git(o) \/ Killed(o)
  \/ \E secret \in {"none", "good", "bad"}, remember \in BOOLEAN :
       AnswerDialog(secret, remember)
  \/ \E h \in hashing : KeyHashed(h)
  \/ KeychainActs
  \/ SignInNext /\ UNCHANGED opVars
  \/ ShowError \/ DismissError
  \/ ShowMultiCommitOperation \/ EndMultiCommitOperation

(* Handlers run once what they await arrives, the keychain answers, and    *)
(* Git ends once it has its reply; users, browsers and other dialogs need  *)
(* not move.                                                               *)
Fairness == /\ \A o \in Askers : WF_vars(Handler(o)) /\ WF_vars(Git(o))
            /\ WF_vars(KeychainActs)

Spec == Init /\ [][Next]_vars /\ Fairness
-----------------------------------------------------------------------------
PromptsTypeOK ==
  /\ StackTypeOK
  /\ session.kind \in {"None", "EndpointEntry", "ExistingAccountWarning",
                       "Authentication", "Success"}
  /\ accounts \subseteq Endpoints
  /\ answer \in [Askers -> [is : {"unasked", "pending", "refused", "given"}, of : Endpoints]]
  /\ pages \cup unsettled \subseteq 1..codes
  /\ op \in [Askers -> {"absent", "ready", "running", "done", "failed", "killed"}]
  /\ request \in [Askers -> {"idle", "lookup", "decide", "asking"}]
  /\ recent \in [Askers -> BOOLEAN] /\ rejected \subseteq Askers

(* When an operation has ended by itself nothing is left of it in the maps *)
(* kept per token, however late its prompts were answered; a passphrase    *)
(* whose key file is hashed after the end is the exception                 *)
(* (trampoline-environment.ts:195-200).                                    *)
EnvironmentCleared ==
  \A o \in Askers :
    op[o] \in {"done", "failed"} /\ (recent[o] \/ o \in rejected) => Kind[o] = "key"

(* A remembered password is not left in the keychain by the operation it   *)
(* did not authenticate, once the keychain has caught up                   *)
(* (trampoline-environment.ts:149-157).                                    *)
RejectedPasswordForgotten ==
  \A o \in Askers \ InBackground :
    op[o] = "failed" /\ Kind[o] = "password" /\ last[o].from # "typed" /\ keychain = <<>>
      => vault["password"] # [is |-> "bad", by |-> o]

(* Nobody takes over the sign-in session a Git operation waits for without *)
(* telling the operation, except the continuation of a sign-out, which     *)
(* restores its own session (sign-in-store.ts:276-303).                    *)
NoCallerForgotten ==
  [][ \A o \in Askers :
        (/\ answer[o].is = "pending" /\ session.caller = o
         /\ session'.caller # o)
        => \/ answer'[o].is # "pending"
           \/ \E t \in tasks \ tasks' : t.is = "signOut" /\ t.next = "browser" ]_vars

\* What the operations see of their questions
Q == INSTANCE Questions WITH question <-
       [o \in Askers |->
          IF op[o] \in {"done", "failed", "killed"} THEN "over"
          ELSE IF answer[o].is = "unasked" THEN "quiet" ELSE answer[o].is]

(* The prompts implement Questions: an answer stands, late callbacks and   *)
(* second clicks change nothing, and a running operation of the background *)
(* is never put to the user.                                               *)
AnswersStand == Q!Spec

(* An operation of the background ends without the user                    *)
(* (trampoline-askpass-handler.ts:39-44, 85-90).                           *)
BackgroundEnds ==
  \A o \in InBackground : op[o] = "running" ~> op[o] # "running"
=============================================================================
