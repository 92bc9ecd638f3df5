--------------------------- MODULE StrategyStore ---------------------------
(***************************************************************************)
(* Stored strategies and what runs of them: the strategy-store routes of   *)
(* routers/dashboard.py, services/user_strategy_runtime.py, the registry   *)
(* (services/strategy_registry.py) and the restore at startup (main.py).   *)
(* A route has no await, so each is one step of the main loop; registering *)
(* comes before the commit, so a failing commit leaves the two apart.      *)
(*                                                                         *)
(* An instrument stands for its token (instrument_to_token), a strategy's  *)
(* runtime name for its id: the ids of nowId are not changed by            *)
(* runtime_name_for.  The built-in strategies have no row (see TickStream). *)
(***************************************************************************)
CONSTANTS Ids,          \* strategy ids
          Instruments,  \* instrument tokens
          NoRow,        \* no strategy is stored under an id
          NoSymbol      \* runtime_symbol of a strategy that is not deployed

Rows == [instrument : Instruments, deployed : BOOLEAN,
         symbol : Instruments \cup {NoSymbol}]

ASSUME StoreAssumption == NoSymbol \notin Instruments /\ NoRow \notin Rows

VARIABLES rows,      \* table of StrategyDefinition
          registry,  \* StrategyRegistry._routes: pairs <<symbol, id>>
          torn       \* history: ids of which the last route or the restore did
                     \* not commit, or left another route running

storeVars == <<rows, registry, torn>>

StoreTypeOK ==
    /\ rows \in [Ids -> Rows \cup {NoRow}]
    /\ registry \subseteq Instruments \X Ids
    /\ torn \subseteq Ids

StoreInit ==
    /\ rows = [id \in Ids |-> NoRow]
    /\ registry = {}
    /\ torn = {}

Stored(id) == rows[id] # NoRow

RunningOn(id) == {s \in Instruments : <<s, id>> \in registry}

\* POST /strategy-store: creates a row, or changes one and leaves it deployed.
StoreRow(id, s) ==
    /\ rows' = [rows EXCEPT ![id] =
                  IF Stored(id) THEN [@ EXCEPT !.instrument = s]
                  ELSE [instrument |-> s, deployed |-> FALSE, symbol |-> NoSymbol]]
    /\ UNCHANGED <<registry, torn>>

\* deploy_user_strategy replaces what runs under the row's present instrument; what
\* runs under another one, since the row was moved, goes on beside it.
DeployRow(id, commits) ==
    LET s == rows[id].instrument IN
    /\ Stored(id)
    /\ registry' = registry \cup {<<s, id>>}
    /\ rows' = IF commits
               THEN [rows EXCEPT ![id].deployed = TRUE, ![id].symbol = s]
               ELSE rows
    /\ torn' = IF commits /\ RunningOn(id) \subseteq {s} THEN torn \ {id}
               ELSE torn \cup {id}

\* Unregisters what the row says it runs as; the strategy of a
\* deployment that did not commit is not in the row, and goes on.
UnregisterRow(id) ==
    registry' = IF rows[id].symbol = NoSymbol THEN registry
                ELSE registry \ {<<rows[id].symbol, id>>}

EndRow(id, commits, row) ==
    /\ Stored(id)
    /\ UnregisterRow(id)
    /\ rows' = IF commits THEN [rows EXCEPT ![id] = row] ELSE rows
    /\ torn' = IF commits /\ RunningOn(id) \subseteq {rows[id].symbol} THEN torn \ {id}
               ELSE IF commits THEN torn ELSE torn \cup {id}

UndeployRow(id, commits) ==
    EndRow(id, commits, [rows[id] EXCEPT !.deployed = FALSE, !.symbol = NoSymbol])

DeleteRow(id, commits) == EndRow(id, commits, NoRow)

Deployed == {id \in Ids : Stored(id) /\ rows[id].deployed}

RoutesOf(S) == {<<rows[id].instrument, id>> : id \in S}

\* A new process registers every deployed row under its present instrument.
RestoreRows ==
    /\ registry' = RoutesOf(Deployed)
    /\ rows' = [id \in Ids |-> IF id \in Deployed
                               THEN [rows[id] EXCEPT !.symbol = rows[id].instrument]
                               ELSE rows[id]]
    /\ torn' = {}

\* "User strategy restore skipped": the query, a registration or the commit raises
\* once the strategies of R are registered; the table stays as it was.
RestoreSkips(R) ==
    /\ R \subseteq Deployed
    /\ registry' = RoutesOf(R)
    /\ torn' = (Deployed \ R) \cup {id \in R : rows[id].symbol # rows[id].instrument}
    /\ UNCHANGED rows

-----------------------------------------------------------------------------
\* A strategy runs, on the symbol its row names and nowhere else, exactly if its row
\* says it is deployed; unless the last route that changed it, or the restore, did not
\* commit, or it was moved to another instrument and deployed again while it ran.
\* Deploying it once more, or a restart that restores, repairs it.
\* About dashboard.py:308-318 and 337-344, and main.py:131-160.
RunsIffDeployed ==
    \A id \in Ids \ torn :
        RunningOn(id) = IF id \in Deployed THEN {rows[id].symbol} ELSE {}
=============================================================================
