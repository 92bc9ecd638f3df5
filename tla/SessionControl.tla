---------------------------- MODULE SessionControl ----------------------------
(***************************************************************************)
(* The broker session: the token checks and logins of                      *)
(* services/auth_manager.py with the callback of routers/auth.py and the   *)
(* start of the process in main.py.  Checks and logins are coroutines of   *)
(* the main loop: they interleave with each other, and with the kill       *)
(* switch, at their awaits, and set the system state from what they knew.  *)
(***************************************************************************)
CONSTANTS Tokens,      \* access tokens of the broker
          NoToken,     \* no row of AuthToken is active
          Tasks,       \* bound: checks and logins in flight
          NoTask

TaskRecords == [kind : {"check", "login"}, token : Tokens \cup {NoToken},
                step : {"session", "profile", "valid", "invalid", "error", "margins"}]

ASSUME SessionAssumption == NoToken \notin Tokens /\ NoTask \notin TaskRecords

VARIABLES serverState,  \* state_manager
          boot,         \* the lifespan: "new", "checked" once its token check has
                        \* begun, "served" when it is over
          activeToken,  \* the active row of AuthToken
          validTokens,  \* external: tokens the broker accepts
          tasks,        \* checks and logins in flight
          crowded       \* history: two tasks were in flight together, and no check
                        \* has begun alone since

sessionVars == <<serverState, boot, activeToken, validTokens, tasks, crowded>>

SessionTypeOK ==
    /\ serverState \in {"INITIALIZING", "AUTH_REQUIRED", "READY", "TRADING_DISABLED"}
    /\ boot \in {"new", "checked", "served"}
    /\ activeToken \in Tokens \cup {NoToken}
    /\ validTokens \subseteq Tokens
    /\ tasks \in [Tasks -> {NoTask} \cup TaskRecords]
    /\ crowded \in BOOLEAN

SessionInit ==
    /\ serverState = "INITIALIZING"
    /\ boot = "new"
    /\ activeToken \in Tokens \cup {NoToken}
    /\ validTokens \in SUBSET Tokens
    /\ tasks = [j \in Tasks |-> NoTask]
    /\ crowded = FALSE

InFlight == {j \in Tasks : tasks[j] # NoTask}

At(j, kind, step) == j \in InFlight /\ tasks[j].kind = kind /\ tasks[j].step = step

Begin(j, task) ==
    /\ tasks[j] = NoTask
    /\ tasks' = [tasks EXCEPT ![j] = task]
    /\ crowded' = (InFlight # {} \/ (crowded /\ task.kind = "login"))

Goes(j, step) == tasks' = [tasks EXCEPT ![j].step = step]

Ends(j) == tasks' = [tasks EXCEPT ![j] = NoTask]

-----------------------------------------------------------------------------
(* validate_current_token: at startup and by daily_token_check *)

CheckBegins(j) ==
    /\ boot # "checked"
    /\ boot' = IF boot = "new" THEN "checked" ELSE boot
    /\ IF activeToken = NoToken
       THEN /\ serverState' = "AUTH_REQUIRED"
            /\ crowded' = (crowded /\ InFlight # {})
            /\ UNCHANGED tasks
       ELSE /\ Begin(j, [kind |-> "check", token |-> activeToken, step |-> "profile"])
            /\ UNCHANGED serverState
    /\ UNCHANGED <<activeToken, validTokens>>

\* The broker answers get_profile() of either coroutine.
ProfileAnswered(j, step) ==
    /\ j \in InFlight /\ tasks[j].step = "profile"
    /\ step \in {"error", IF tasks[j].token \in validTokens THEN "valid" ELSE "invalid"}
    /\ Goes(j, step)
    /\ UNCHANGED <<serverState, boot, activeToken, validTokens, crowded>>

\* Mutant: an invalid token is put out of use and the state is left alone.
CheckKeepsState(j) ==
    /\ \/ At(j, "check", "valid") /\ serverState' = "READY" /\ UNCHANGED activeToken
       \/ At(j, "check", "invalid") /\ UNCHANGED serverState
          /\ activeToken' = IF activeToken = tasks[j].token THEN NoToken ELSE activeToken
       \/ At(j, "check", "error") /\ UNCHANGED <<serverState, activeToken>>
    /\ Ends(j)
    /\ UNCHANGED <<boot, validTokens, crowded>>

\* Mutant: any failing check is taken for an invalid token.
CheckDistrusts(j) ==
    /\ \/ At(j, "check", "valid") /\ serverState' = "READY" /\ UNCHANGED activeToken
       \/ At(j, "check", "invalid") /\ serverState' = "AUTH_REQUIRED"
          /\ activeToken' = IF activeToken = tasks[j].token THEN NoToken ELSE activeToken
       \/ At(j, "check", "error") /\ serverState' = "AUTH_REQUIRED" /\ UNCHANGED activeToken
    /\ Ends(j)
    /\ UNCHANGED <<boot, validTokens, crowded>>

\* The check goes on after its await, whatever the state is by now.  An error other
\* than an invalid token changes nothing, and neither does a commit that fails; at the
\* start of the process that one ends it (RestartProcess).
CheckEnds(j) ==
    /\ \/ At(j, "check", "valid") /\ serverState' = "READY" /\ UNCHANGED activeToken
       \/ At(j, "check", "invalid") /\ serverState' = "AUTH_REQUIRED"
          /\ activeToken' = IF activeToken = tasks[j].token THEN NoToken ELSE activeToken
       \/ \/ At(j, "check", "error")
          \/ At(j, "check", "invalid") /\ boot = "served"
          /\ UNCHANGED <<serverState, activeToken>>
    /\ Ends(j)
    /\ UNCHANGED <<boot, validTokens, crowded>>

-----------------------------------------------------------------------------
(* The login callback *)

LoginBegins(j) ==
    /\ boot = "served"
    /\ Begin(j, [kind |-> "login", token |-> NoToken, step |-> "session"])
    /\ UNCHANGED <<serverState, boot, activeToken, validTokens>>

\* generate_session() returned a token: it replaces the active one, here, and
\* perhaps at the broker.
LoginStores(j, k) ==
    /\ At(j, "login", "session")
    /\ k # activeToken
    /\ activeToken' = k
    /\ validTokens' \in {{k}, validTokens \cup {k}}
    /\ tasks' = [tasks EXCEPT ![j].token = k, ![j].step = "profile"]
    /\ UNCHANGED <<serverState, boot, crowded>>

\* No token, or an exception of any kind.
LoginFails(j) ==
    /\ \E step \in {"session", "invalid", "error"} : At(j, "login", step)
    /\ serverState' = "AUTH_REQUIRED"
    /\ Ends(j)
    /\ UNCHANGED <<boot, activeToken, validTokens, crowded>>

LoginSucceeds(j) ==
    /\ At(j, "login", "valid")
    /\ serverState' = "READY"
    /\ Goes(j, "margins")
    /\ UNCHANGED <<boot, activeToken, validTokens, crowded>>

\* The margins came, or they did not; what follows is the stream's (TickStream).
LoginEnds(j) ==
    /\ At(j, "login", "margins")
    /\ Ends(j)
    /\ UNCHANGED <<serverState, boot, activeToken, validTokens, crowded>>

-----------------------------------------------------------------------------
\* The lifespan after its check, whatever that found, starts to serve.
BootEnds ==
    /\ boot = "checked" /\ InFlight = {}
    /\ boot' = "served"
    /\ UNCHANGED <<serverState, activeToken, validTokens, tasks, crowded>>

\* The process ends at any point and starts again: only the database is left.
RestartProcess ==
    /\ boot # "new"
    /\ serverState' = "INITIALIZING"
    /\ boot' = "new"
    /\ tasks' = [j \in Tasks |-> NoTask]
    /\ crowded' = FALSE
    /\ UNCHANGED <<activeToken, validTokens>>

\* EMERGENCY_LIQUIDATE from the route or from reconciliation.
KillSwitchFalls ==
    /\ boot = "served" /\ serverState = "READY"
    /\ serverState' = "TRADING_DISABLED"
    /\ UNCHANGED <<boot, activeToken, validTokens, tasks, crowded>>

\* The broker ends a session: the day is over, or the account logged in elsewhere.
TokenExpires(k) ==
    /\ k \in validTokens
    /\ validTokens' = validTokens \ {k}
    /\ UNCHANGED <<serverState, boot, activeToken, tasks, crowded>>

SessionNext ==
    \/ \E j \in Tasks : CheckBegins(j)
    \/ \E j \in Tasks, step \in {"valid", "invalid", "error"} : ProfileAnswered(j, step)
    \/ \E j \in Tasks : CheckEnds(j)
    \/ \E j \in Tasks : LoginBegins(j)
    \/ \E j \in Tasks, k \in Tokens : LoginStores(j, k)
    \/ \E j \in Tasks : LoginFails(j)
    \/ \E j \in Tasks : LoginSucceeds(j)
    \/ \E j \in Tasks : LoginEnds(j)
    \/ BootEnds
    \/ RestartProcess
    \/ KillSwitchFalls
    \/ \E k \in Tokens : TokenExpires(k)

SessionSpec == SessionInit /\ [][SessionNext]_sessionVars

-----------------------------------------------------------------------------
\* The system is READY only with an active token, unless two checks or logins
\* overlapped: then one may report what the other has refuted meanwhile, until a check
\* begins alone.
\* About auth_manager.py:79-107 and 125-152.
ReadyHasToken == serverState = "READY" /\ activeToken = NoToken => crowded

\* A session the broker accepts is not given up by a token check, whatever happens
\* to its request: only by a login that fails, or by overlapping tasks.
\* About auth_manager.py:142-152.
ChecksSpareGoodTokens ==
    [][serverState = "READY" /\ serverState' = "AUTH_REQUIRED" /\ activeToken \in validTokens
         => crowded \/ \E j \in InFlight : tasks[j].kind = "login"]_sessionVars
=============================================================================
