------------------------------ MODULE MCPrompts ------------------------------
EXTENDS Prompts, TLC

CONSTANTS dotcom, ghe,              \* GitHub.com and an Enterprise server
          pull, push,               \* ask for an account
          fetch,                    \* asks for the password of an SSH user
          clone, peek,              \* ask for a passphrase, peek in the background
          lfs, greet                \* a generic server; an unknown host

KindOf == pull :> "github" @@ push :> "github" @@ fetch :> "password"
          @@ clone :> "key" @@ peek :> "key" @@ lfs :> "generic" @@ greet :> "host"
ServerOf == [o \in Askers |-> IF o = push THEN dotcom ELSE ghe]

Play(ops, signIns, killed, dialogs) ==
  [ops |-> ops, signIns |-> signIns, kills |-> killed, others |-> dialogs]

ScenesPlayed == {Play({pull}, 1, 0, 0), Play({pull}, 0, 0, 2), Play({pull, push}, 0, 0, 0),
                 Play({fetch}, 0, 1, 2),
                 Play({fetch, greet}, 0, 0, 1), Play({clone, peek}, 0, 0, 1),
                 Play({lfs}, 0, 1, 3)}
=============================================================================
