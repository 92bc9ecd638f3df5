---------------------------- MODULE StrategyDesk ----------------------------
(***************************************************************************)
(* The strategies of the dashboard: ShellApp, StrategyBuilderPage and      *)
(* StrategiesPage of App.jsx, on top of the strategy store.  Every change  *)
(* is a POST followed by a refresh of the whole list; nothing orders the   *)
(* refreshes of two clicks, and a failing POST does not refresh at all.    *)
(***************************************************************************)
EXTENDS StrategyStore

CONSTANTS Slots,     \* bound: calls in flight at a time
          NoCall     \* no call in a slot

VARIABLES calls,        \* the calls in flight
          myStrategies, \* the list on display
          strategyError,
          strategyBusy,
          overlapped    \* history: the last call began while another was in flight

deskUiVars == <<calls, myStrategies, strategyError, strategyBusy, overlapped>>
deskVars == <<rows, registry, torn, calls, myStrategies, strategyError,
              strategyBusy, overlapped>>

\* What fromApiStrategy keeps of a row, as far as the buttons go.
Shown == {"absent", "idle", "deployed"}

View == [id \in Ids |-> IF ~Stored(id) THEN "absent"
                        ELSE IF rows[id].deployed THEN "deployed" ELSE "idle"]

Posts == {"template", "builder", "deploy", "undeploy"}

\* A call is sent, then answered: a list with what the table held.
Calls == [op : Posts, id : Ids, status : {"sent", "ok", "error"}]
           \cup [op : {"list"}, status : {"sent", "ok", "error"},
                 list : [Ids -> Shown]]

ASSUME DeskAssumption == NoCall \notin Calls

DeskTypeOK ==
    /\ calls \in [Slots -> Calls \cup {NoCall}]
    /\ myStrategies \in [Ids -> Shown]
    /\ strategyError \in BOOLEAN
    /\ strategyBusy \in BOOLEAN
    /\ overlapped \in BOOLEAN

Nothing == [id \in Ids |-> "absent"]

ListCall == [op |-> "list", status |-> "sent", list |-> Nothing]

Idle(c) == calls[c] = NoCall

Posting == {d \in Slots : ~Idle(d) /\ calls[d].op \in Posts}

\* The component mounts and loads the list.
DeskInit ==
    /\ StoreInit
    /\ calls \in {[c \in Slots |-> IF c = d THEN ListCall ELSE NoCall] : d \in Slots}
    /\ myStrategies = Nothing
    /\ strategyError = FALSE
    /\ strategyBusy = TRUE
    /\ overlapped = FALSE

-----------------------------------------------------------------------------
Overlaps(c) == \E d \in Slots \ {c} : ~Idle(d)

Start(c, call) ==
    /\ Idle(c)
    /\ calls' = [calls EXCEPT ![c] = call]
    /\ overlapped' = Overlaps(c)

Post(c, op, id) == Start(c, [op |-> op, id |-> id, status |-> "sent"])

\* addTemplateAsStrategy and the builder's createStrategy take a new id on every
\* click; only the latter clears the error first.
ClickCreate(c, op, id) ==
    /\ ~Stored(id)
    /\ id \notin {calls[d].id : d \in Posting}
    /\ Post(c, op, id)
    /\ strategyError' = (strategyError /\ op = "template")
    /\ UNCHANGED <<storeVars, myStrategies, strategyBusy>>

\* "My Strategies" offers Deploy on every card, a deployed one's too; "Deployed
\* Strategies" offers Undeploy.
Offered(op, id) ==
    \/ op = "deploy" /\ myStrategies[id] # "absent"
    \/ op = "undeploy" /\ myStrategies[id] = "deployed"

ClickDeploy(c, op, id) ==
    /\ Offered(op, id)
    /\ Post(c, op, id)
    /\ strategyError' = FALSE
    /\ UNCHANGED <<storeVars, myStrategies, strategyBusy>>

\* The Refresh link.
ClickRefresh(c) ==
    /\ Start(c, ListCall)
    /\ strategyBusy' = TRUE
    /\ strategyError' = FALSE
    /\ UNCHANGED <<storeVars, myStrategies>>

Answer(c, status) == calls' = [calls EXCEPT ![c].status = status]

\* What a POST does to the table; the payload of a new strategy names its
\* instrument, never an existing id.
Handle(call, commits) ==
    CASE call.op = "deploy" -> DeployRow(call.id, commits)
      [] call.op = "undeploy" -> UndeployRow(call.id, commits)
      [] OTHER -> commits /\ \E s \in Instruments : StoreRow(call.id, s)

\* The route is carried out; its answer may still be lost on the way.
ServePost(c, status) ==
    /\ c \in Posting /\ calls[c].status = "sent"
    /\ Handle(calls[c], TRUE)
    /\ Answer(c, status)
    /\ UNCHANGED <<myStrategies, strategyError, strategyBusy, overlapped>>

\* The commit raises: the route answers 500.
CommitFails(c) ==
    /\ c \in Posting /\ calls[c].op \in {"deploy", "undeploy"} /\ calls[c].status = "sent"
    /\ Handle(calls[c], FALSE)
    /\ Answer(c, "error")
    /\ UNCHANGED <<myStrategies, strategyError, strategyBusy, overlapped>>

\* The call fails before it reaches the table.
CallFails(c) ==
    /\ ~Idle(c) /\ calls[c].status = "sent"
    /\ Answer(c, "error")
    /\ UNCHANGED <<storeVars, myStrategies, strategyError, strategyBusy, overlapped>>

ServeList(c) ==
    /\ ~Idle(c) /\ calls[c].op = "list" /\ calls[c].status = "sent"
    /\ calls' = [calls EXCEPT ![c].status = "ok", ![c].list = View]
    /\ UNCHANGED <<storeVars, myStrategies, strategyError, strategyBusy, overlapped>>

\* Mutant: a deployed or undeployed strategy does not refresh the list.
PostSucceedsQuietly(c) ==
    /\ c \in Posting /\ calls[c].status = "ok"
    /\ calls' = [calls EXCEPT ![c] = NoCall]
    /\ UNCHANGED <<storeVars, myStrategies, strategyError, strategyBusy, overlapped>>

\* A POST that succeeded goes on with refreshStrategies.
PostSucceeds(c) ==
    /\ c \in Posting /\ calls[c].status = "ok"
    /\ calls' = [calls EXCEPT ![c] = ListCall]
    /\ strategyBusy' = TRUE
    /\ strategyError' = FALSE
    /\ UNCHANGED <<storeVars, myStrategies, overlapped>>

\* A POST that failed shows its error and leaves the list.
PostFails(c) ==
    /\ c \in Posting /\ calls[c].status = "error"
    /\ calls' = [calls EXCEPT ![c] = NoCall]
    /\ strategyError' = TRUE
    /\ UNCHANGED <<storeVars, myStrategies, strategyBusy, overlapped>>

\* The list arrives, or its error; busy ends with the first of several.
ListArrives(c) ==
    /\ ~Idle(c) /\ calls[c].op = "list" /\ calls[c].status \in {"ok", "error"}
    /\ calls' = [calls EXCEPT ![c] = NoCall]
    /\ IF calls[c].status = "ok"
       THEN myStrategies' = calls[c].list /\ UNCHANGED strategyError
       ELSE strategyError' = TRUE /\ UNCHANGED myStrategies
    /\ strategyBusy' = FALSE
    /\ UNCHANGED <<storeVars, overlapped>>

\* The backend restarts, with or without its restore; calls that wait for an answer
\* fail.
RestartServer ==
    /\ RestoreRows \/ \E R \in SUBSET Ids : RestoreSkips(R)
    /\ calls' = [c \in Slots |->
                   IF ~Idle(c) /\ calls[c].status = "sent"
                   THEN [calls[c] EXCEPT !.status = "error"] ELSE calls[c]]
    /\ UNCHANGED <<myStrategies, strategyError, strategyBusy, overlapped>>

DeskNext ==
    \/ \E c \in Slots, op \in {"template", "builder"}, id \in Ids : ClickCreate(c, op, id)
    \/ \E c \in Slots, op \in {"deploy", "undeploy"}, id \in Ids : ClickDeploy(c, op, id)
    \/ \E c \in Slots : ClickRefresh(c)
    \/ \E c \in Slots, status \in {"ok", "error"} : ServePost(c, status)
    \/ \E c \in Slots : CommitFails(c)
    \/ \E c \in Slots : CallFails(c)
    \/ \E c \in Slots : ServeList(c)
    \/ \E c \in Slots : PostSucceeds(c)
    \/ \E c \in Slots : PostFails(c)
    \/ \E c \in Slots : ListArrives(c)
    \/ RestartServer

DeskSpec == DeskInit /\ [][DeskNext]_deskVars

-----------------------------------------------------------------------------
\* Once nothing is in flight, "Syncing strategies..." is gone.  If no error is shown
\* either, the list on display is the table, and the strategies it calls deployed
\* are those that run; unless the last call began while another was in flight (then an
\* older list may have arrived last, or one call's refresh cleared another's error, until
\* a click that finds the page at rest); and RunsIffDeployed names the ids whose commit or
\* restore failed.
\* About App.jsx:1217-1233, 1291-1321, dashboard.py:305-358 and main.py:131-160.
QuietDeskIsTrue ==
    (\A c \in Slots : Idle(c)) =>
        /\ ~strategyBusy
        /\ ~strategyError /\ ~overlapped => myStrategies = View
        /\ RunsIffDeployed
=============================================================================
