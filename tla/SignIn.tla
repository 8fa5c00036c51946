------------------------------- MODULE SignIn -------------------------------
(***************************************************************************)
(* Signing in to GitHub.com or to an Enterprise server in the TypeScript   *)
(* application: src/app/src/lib/stores/sign-in-store.ts, the list of       *)
(* accounts-store.ts and the dialog of ui/sign-in.  There is one session   *)
(* at a time; whoever begins another one cancels it.  Everything awaited   *)
(* (the keychain, the OAuth token, the API) is a task that ends in a step  *)
(* of its own, and finds whatever session there is by then.                *)
(***************************************************************************)
EXTENDS PopupStack

CONSTANTS Endpoints,    \* the servers one can sign in to
          DotCom,       \* the one of them that is GitHub.com
          Askers,       \* operations that may ask for an account
          MaxAuth,      \* bound: visits to the browser
          MaxUser       \* bound: sign-ins the user begins

ASSUME SignInAssumption ==
  /\ DotCom \in Endpoints /\ Nobody \notin Askers
  /\ MaxAuth \in Nat /\ MaxUser \in Nat

VARIABLES session,      \* SignInStore.state, with what the browser was told
          accounts,     \* AccountsStore.accounts, by endpoint
          answer,       \* the promise an operation waits on, once it is asked
          tasks,        \* what the stores are waiting for
          codes,        \* csrf tokens handed out so far
          pages,        \* csrf tokens whose browser page may still call back
          unsettled,    \* csrf tokens whose promise is neither kept nor broken
          begun         \* sign-ins the user began

signInVars == <<session, accounts, answer, tasks, codes, pages, unsettled, begun>>

NoSession == [kind |-> "None", endpoint |-> DotCom, caller |-> Nobody, code |-> 0]
Session(kind, e, c, code) == [kind |-> kind, endpoint |-> e, caller |-> c, code |-> code]

Unasked == [is |-> "unasked", of |-> DotCom]
Pending == [is |-> "pending", of |-> DotCom]
Refused == [is |-> "refused", of |-> DotCom]
Given(e) == [is |-> "given", of |-> e]

\* (mutant) a later call replaces the answer
SettledAgain(ans, c, r) ==
  IF c \in Askers /\ ans[c].is # "unasked" THEN [ans EXCEPT ![c] = r] ELSE ans

\* resolve(): only the first call of a promise's resolver has an effect
Settled(ans, c, r) ==
  IF c \in Askers /\ ans[c].is = "pending" THEN [ans EXCEPT ![c] = r] ELSE ans

\* resultCallback of a credential prompt closes the dialog; others do nothing
AfterCallback(stack, c) == IF c \in Askers THEN ClosedType(stack, "SignIn") ELSE stack

\* (mutant) the state is dropped without a word to the caller
ResetSilently(ans) == ans

\* reset(): the caller is told, the state is gone, the promise is broken
ResetAnswer(ans) == Settled(ans, session.caller, Refused)
ResetPopups(stack) == AfterCallback(stack, session.caller)
ResetPromises == IF session.kind = "Authentication" THEN unsettled \ {session.code}
                 ELSE unsettled

\* the step an endpoint leads to
StepFor(e) == IF e \in accounts THEN "ExistingAccountWarning" ELSE "Authentication"

\* promptForGitHubSignIn: dotcom begins at once, Enterprise through setEndpoint
PromptForGitHubSignIn(o, e) ==
  /\ session' = Session(StepFor(e), e, o, 0)
  /\ answer' = [ResetAnswer(answer) EXCEPT ![o] = Pending]
  /\ popups' = Added(ResetPopups(popups), Popup("SignIn", Nobody))
  /\ unsettled' = ResetPromises
  /\ UNCHANGED <<accounts, tasks, codes, pages, begun>>

\* showDotComSignInDialog, showEnterpriseSignInDialog (no endpoint given)
ShowSignInDialog(e) ==
  /\ begun < MaxUser
  /\ begun' = begun + 1
  /\ session' = Session(IF e = DotCom THEN StepFor(e) ELSE "EndpointEntry", e, Nobody, 0)
  /\ answer' = ResetAnswer(answer)
  /\ popups' = Added(ResetPopups(popups), Popup("SignIn", Nobody))
  /\ unsettled' = ResetPromises
  /\ UNCHANGED <<accounts, tasks, codes, pages>>

\* the browser is opened for a session that goes on with a new csrf token
OpenBrowser(s) ==
  /\ codes < MaxAuth
  /\ codes' = codes + 1
  /\ session' = Session("Authentication", s.endpoint, s.caller, codes')
  /\ pages' = pages \cup {codes'}
  /\ unsettled' = unsettled \cup {codes'}

\* authenticateWithBrowser while the keychain forgets the existing account
SignOutFirst(s, next) ==
  /\ [is |-> "signOut", next |-> next, s |-> s] \notin tasks
  /\ tasks' = tasks \cup {[is |-> "signOut", next |-> next, s |-> s]}

\* beginBrowserBasedSignIn, requestBrowserAuthenticationToDotcom
BeginInBrowser(e) ==
  /\ begun < MaxUser
  /\ begun' = begun + 1
  /\ answer' = ResetAnswer(answer)
  /\ popups' = ResetPopups(popups)
  /\ LET s == Session(StepFor(e), e, Nobody, 0) IN
     IF e \in accounts
     THEN /\ SignOutFirst(s, "browser")
          /\ session' = s
          /\ unsettled' = ResetPromises
          /\ UNCHANGED <<codes, pages>>
     ELSE /\ codes < MaxAuth
          /\ codes' = codes + 1
          /\ session' = Session("Authentication", e, Nobody, codes')
          /\ pages' = pages \cup {codes'}
          /\ unsettled' = ResetPromises \cup {codes'}
          /\ UNCHANGED tasks
  /\ UNCHANGED accounts

DialogUp == popups # <<>> /\ Top(popups).type = "SignIn"

\* the dialog's button in the EndpointEntry step: setSignInEndpoint
SubmitEndpoint(e) ==
  /\ DialogUp /\ session.kind = "EndpointEntry"
  /\ session' = Session(StepFor(e), e, session.caller, 0)
  /\ IF e = DotCom            \* redirected to beginDotComSignIn, which resets
     THEN /\ answer' = ResetAnswer(answer)
          /\ popups' = ResetPopups(popups)
     ELSE UNCHANGED <<answer, popups>>
  /\ UNCHANGED <<accounts, tasks, codes, pages, unsettled, begun>>

\* ... in the ExistingAccountWarning step: sign out, then setSignInEndpoint
SubmitExisting ==
  /\ DialogUp /\ session.kind = "ExistingAccountWarning"
  /\ SignOutFirst(session, "endpoint")
  /\ UNCHANGED <<popups, session, accounts, answer, codes, pages, unsettled, begun>>

\* ... in the Authentication step, disabled while the browser is open
SubmitAuthentication ==
  /\ DialogUp /\ session.kind = "Authentication"
  /\ session.code \notin unsettled
  /\ OpenBrowser(session)
  /\ UNCHANGED <<popups, accounts, answer, tasks, begun>>

\* onDismissed, by the user or because the step is Success: reset, close
DismissSignIn(i) ==
  /\ popups[i].type = "SignIn"
  /\ i = Len(popups) \/ session.kind = "Success"
  /\ session' = NoSession
  /\ answer' = ResetAnswer(answer)
  /\ popups' = WithoutType(popups, "SignIn")
  /\ unsettled' = ResetPromises
  /\ UNCHANGED <<accounts, tasks, codes, pages, begun>>

\* removeAccount came back (with a keychain error the account stays) and
\* authenticateWithBrowser goes on with the session it began with
SignedOutToBrowser(t, removed) ==
  /\ t \in tasks /\ t.is = "signOut" /\ t.next = "browser"
  /\ tasks' = tasks \ {t}
  /\ accounts' = IF removed THEN accounts \ {t.s.endpoint} ELSE accounts
  /\ OpenBrowser(t.s)
  /\ UNCHANGED <<popups, answer, begun>>

\* the same for setSignInEndpoint, which looks at the session of the moment
SignedOutToEndpoint(t, removed) ==
  /\ t \in tasks /\ t.is = "signOut" /\ t.next = "endpoint"
  /\ tasks' = tasks \ {t}
  /\ accounts' = IF removed THEN accounts \ {t.s.endpoint} ELSE accounts
  /\ LET e == t.s.endpoint
         kind == IF e \in accounts' THEN "ExistingAccountWarning" ELSE "Authentication" IN
     IF session.kind \notin {"EndpointEntry", "ExistingAccountWarning"}
     THEN UNCHANGED <<session, answer, popups>>          \* fatalError
     ELSE /\ session' = Session(kind, e, session.caller, 0)
          /\ IF e = DotCom
             THEN answer' = ResetAnswer(answer) /\ popups' = ResetPopups(popups)
             ELSE UNCHANGED <<answer, popups>>
  /\ UNCHANGED <<codes, pages, unsettled, begun>>

\* resolveOAuthRequest: a page calls back, now or after the session changed
PageCallsBack(code) ==
  /\ code \in pages
  /\ pages' = pages \ {code}
  /\ tasks' = IF session.kind = "Authentication" /\ session.code = code
              THEN tasks \cup {[is |-> "oauth", e |-> session.endpoint]} ELSE tasks
  /\ UNCHANGED <<popups, session, accounts, answer, codes, unsettled, begun>>

\* its token and account arrive and complete the session of the moment
AccountFetched(t) ==
  /\ t \in tasks /\ t.is = "oauth"
  /\ IF session.kind = "Authentication" /\ session.code \in unsettled
     THEN /\ tasks' = (tasks \ {t}) \cup {[is |-> "add", e |-> t.e]}
          /\ answer' = Settled(answer, session.caller, Given(t.e))
          /\ popups' = AfterCallback(popups, session.caller)
          /\ session' = [session EXCEPT !.kind = "Success", !.code = 0]
          /\ unsettled' = unsettled \ {session.code}
     ELSE /\ tasks' = tasks \ {t}
          /\ UNCHANGED <<answer, popups, session, unsettled>>
  /\ UNCHANGED <<accounts, codes, pages, begun>>

\* no token: the promise of the session of the moment is broken
TokenDenied(t) ==
  /\ t \in tasks /\ t.is = "oauth"
  /\ tasks' = tasks \ {t}
  /\ unsettled' = IF session.kind = "Authentication" THEN unsettled \ {session.code}
                  ELSE unsettled
  /\ UNCHANGED <<popups, session, accounts, answer, codes, pages, begun>>

\* the account cannot be fetched: an exception, the session waits on
AccountLost(t) ==
  /\ t \in tasks /\ t.is = "oauth"
  /\ tasks' = tasks \ {t}
  /\ UNCHANGED <<popups, session, accounts, answer, codes, pages, unsettled, begun>>

\* addAccount: the keychain took the token, or not
AccountAdded(t, stored) ==
  /\ t \in tasks /\ t.is = "add"
  /\ tasks' = tasks \ {t}
  /\ accounts' = IF stored THEN accounts \cup {t.e} ELSE accounts
  /\ UNCHANGED <<popups, session, answer, codes, pages, unsettled, begun>>

\* refresh: the list as it was when the application started replaces the list
AccountsRefreshed(t) ==
  /\ t \in tasks /\ t.is = "refresh"
  /\ tasks' = tasks \ {t}
  /\ accounts' = t.list
  /\ UNCHANGED <<popups, session, answer, codes, pages, unsettled, begun>>

SignInInit ==
  /\ session = NoSession
  /\ accounts \in SUBSET Endpoints
  /\ answer = [o \in Askers |-> Unasked]
  /\ tasks = {[is |-> "refresh", list |-> accounts]}
  /\ codes = 0 /\ pages = {} /\ unsettled = {} /\ begun \in 0..MaxUser

SignInNext ==
  \/ \E e \in Endpoints : ShowSignInDialog(e) \/ BeginInBrowser(e) \/ SubmitEndpoint(e)
  \/ SubmitExisting \/ SubmitAuthentication
  \/ \E i \in DOMAIN popups : DismissSignIn(i)
  \/ \E t \in tasks : \/ \E done \in BOOLEAN : \/ SignedOutToBrowser(t, done)
                                               \/ SignedOutToEndpoint(t, done)
                                               \/ AccountAdded(t, done)
                      \/ AccountFetched(t) \/ TokenDenied(t) \/ AccountLost(t)
                      \/ AccountsRefreshed(t)
  \/ \E code \in pages : PageCallsBack(code)
=============================================================================
