------------------------------ MODULE MCConsole ------------------------------
(***************************************************************************)
(* The parts of the browser's console, one open at a time: a page shares   *)
(* no state with another, and React drops a page's state when it is left.  *)
(***************************************************************************)
EXTENDS AccessGate, StrategyDesk, ManualOrders, RiskDesk, LimitForm, EmotionGuard,
        BacktestLab, LiveStream, PollViews

VARIABLE page   \* the one that is open

pageVars == <<page, accessVars, deskVars, ordersVars, riskVars,
             limitVars, guardVars, labVars, liveVars, pollVars>>

ConsoleInit ==
    /\ page \in {"gate", "desk", "orders", "risk", "limits",
                "guard", "lab", "live", "views"}
    /\ AccessInit /\ DeskInit /\ OrdersInit /\ RiskInit /\ LimitInit
    /\ GuardInit /\ LabInit /\ LiveInit /\ PollInit

    \* the others rest in one of their initial states
    /\ page = "gate" \/ (stored = NoKey /\ serverKey = CHOOSE k \in Keys : TRUE)
    /\ page = "desk" \/ calls[CHOOSE c \in Slots : TRUE] # NoCall
    /\ page = "orders" \/ orderPage = "broker"
    /\ page = "risk" \/ serverRules = params
    /\ page = "guard" \/ cooldownSeconds = Longest
    /\ page = "lab" \/ labPage = "lab"
    /\ page = "views" \/ pollView = "auth"

Gate(A) ==
    /\ page = "gate" /\ A
    /\ UNCHANGED <<page, deskVars, ordersVars, riskVars, limitVars, guardVars,
                   labVars, liveVars, pollVars>>

Desk(A) ==
    /\ page = "desk" /\ A
    /\ UNCHANGED <<page, accessVars, ordersVars, riskVars, limitVars, guardVars,
                   labVars, liveVars, pollVars>>

Orders(A) ==
    /\ page = "orders" /\ A
    /\ UNCHANGED <<page, accessVars, deskVars, riskVars, limitVars, guardVars,
                   labVars, liveVars, pollVars>>

Risk(A) ==
    /\ page = "risk" /\ A
    /\ UNCHANGED <<page, accessVars, deskVars, ordersVars, limitVars, guardVars,
                   labVars, liveVars, pollVars>>

Limit(A) ==
    /\ page = "limits" /\ A
    /\ UNCHANGED <<page, accessVars, deskVars, ordersVars, riskVars, guardVars,
                   labVars, liveVars, pollVars>>

Guard(A) ==
    /\ page = "guard" /\ A
    /\ UNCHANGED <<page, accessVars, deskVars, ordersVars, riskVars, limitVars,
                   labVars, liveVars, pollVars>>

Lab(A) ==
    /\ page = "lab" /\ A
    /\ UNCHANGED <<page, accessVars, deskVars, ordersVars, riskVars, limitVars,
                   guardVars, liveVars, pollVars>>

Live(A) ==
    /\ page = "live" /\ A
    /\ UNCHANGED <<page, accessVars, deskVars, ordersVars, riskVars, limitVars,
                   guardVars, labVars, pollVars>>

Views(A) ==
    /\ page = "views" /\ A
    /\ UNCHANGED <<page, accessVars, deskVars, ordersVars, riskVars, limitVars,
                   guardVars, labVars, liveVars>>

ConsoleNext ==
    \/ \E t \in Tabs, k \in Keys : Gate(Unlock(t, k))
    \/ \E t \in Tabs, kind \in {"poll", "admin"} : Gate(SendRequest(t, kind))
    \/ \E r \in requests : Gate(Serve(r))
    \/ \E r \in requests : Gate(ServeFails(r))
    \/ \E r \in requests : Gate(Deliver(r))
    \/ \E t \in Tabs : Gate(Reload(t))
    \/ Gate(RotateKey)
    \/ \E c \in Slots, op \in {"template", "builder"}, id \in Ids :
          Desk(ClickCreate(c, op, id))
    \/ \E c \in Slots, op \in {"deploy", "undeploy"}, id \in Ids :
          Desk(ClickDeploy(c, op, id))
    \/ \E c \in Slots : Desk(ClickRefresh(c))
    \/ \E c \in Slots, status \in {"ok", "error"} : Desk(ServePost(c, status))
    \/ \E c \in Slots : Desk(CommitFails(c))
    \/ \E c \in Slots : Desk(CallFails(c))
    \/ \E c \in Slots : Desk(ServeList(c))
    \/ \E c \in Slots : Desk(PostSucceeds(c))
    \/ \E c \in Slots : Desk(PostFails(c))
    \/ \E c \in Slots : Desk(ListArrives(c))
    \/ Desk(RestartServer)
    \/ Orders(ReopenPage)
    \/ \E t \in Tickets : Orders(FillForm(t))
    \/ \E s \in Submits : Orders(PlaceOrder(s))
    \/ \E s \in Submits : Orders(RouteAccepts(s))
    \/ \E s \in Submits, dropped \in BOOLEAN : Orders(AnswerIsLost(s, dropped))
    \/ \E s \in Submits : Orders(RouteRefuses(s))
    \/ \E s \in Submits : Orders(SubmitSucceeds(s))
    \/ \E s \in Submits : Orders(SubmitFails(s))
    \/ Orders(PollOrders)
    \/ Orders(FetchOrders)
    \/ Orders(StoreOrders)
    \/ Orders(StoreBroken)
    \/ \E l \in Loads : Orders(ServeOrders(l))
    \/ \E l \in Loads : Orders(ServeBroken(l))
    \/ \E l \in Loads : Orders(OrdersFail(l))
    \/ Orders(OrderCacheExpires)
    \/ \E l \in Loads : Orders(ShowOrders(l))
    \/ \E b \in Bases : Risk(EditParam(1, b))
    \/ \E c \in Caps : Risk(EditParam(2, c))
    \/ Risk(SendRiskPoll)
    \/ Risk(RiskPollArrives)
    \/ Risk(RiskPollFails)
    \/ Risk(Simulate)
    \/ \E shows \in BOOLEAN : Risk(SimulationEnds(shows))
    \/ Risk(InitiateAction)
    \/ Risk(CancelAction)
    \/ Risk(ButtonTick)
    \/ \E c \in Commits : Risk(TickExecutes(c))
    \/ \E c \in Commits, i \in 1..2 : Risk(RouteStores(c, i))
    \/ \E c \in Commits, i \in 1..2, how \in {"refused", "lost"} :
          Risk(RouteFails(c, i, how))
    \/ \E c \in Commits : Risk(ApplySucceeds(c))
    \/ \E c \in Commits : Risk(ApplyFails(c))
    \/ Risk(ConfirmedEnds)
    \/ \E value \in Limits : Limit(LiveLimitsArrive(value))
    \/ Limit(LiveLimitsFail)
    \/ \E i \in 1..2, value \in Limits : Limit(HandleChange(i, value))
    \/ Limit(HandleApply)
    \/ Limit(CancelApply)
    \/ Limit(CountdownTick)
    \/ Limit(CountdownApplies)
    \/ Guard(EditReason)
    \/ Guard(RequestOverride)
    \/ Guard(CancelOverride)
    \/ Guard(CooldownTick)
    \/ Guard(ParentTriggers)
    \/ Guard(ParentReleases)
    \/ Guard(ParentChanges)
    \/ Guard(ResetTimer)
    \/ Guard(OverlayTick)
    \/ \E enabled, some \in BOOLEAN : Lab(LoadArrives(enabled, some))
    \/ Lab(LoadFails)
    \/ \E s \in Strategies : Lab(Choose(s))
    \/ \E s \in Strategies \cup {NoStrategy} : Lab(ShellChooses(s))
    \/ Lab(RunSimulation)
    \/ Lab(RunSucceeds)
    \/ \E disabled \in BOOLEAN : Lab(RunRefused(disabled))
    \/ Lab(FallbackArrives)
    \/ Lab(RunFails)
    \/ Lab(ShellRunFails)
    \/ Lab(Save)
    \/ Lab(SaveEnds)
    \/ \E e \in Effects : Live(MountStream(e))
    \/ Live(UnmountStream)
    \/ \E e \in Effects : Live(SocketOpens(e))
    \/ \E e \in Effects : Live(SocketCloses(e))
    \/ \E e \in Effects : Live(RetryFires(e))
    \/ Views(DataChanges)
    \/ Views(ServerStops)
    \/ Views(ServerReturns)
    \/ \E p \in Polls : Views(TimerPolls(p))
    \/ \E p \in Polls : Views(RefreshNow(p))
    \/ Views(ToggleAutoRefresh)
    \/ \E p \in Polls : Views(PollServed(p))
    \/ \E p \in Polls : Views(PollLost(p))
    \/ \E p \in Polls : Views(PollShows(p))
    \/ \E p \in Polls : Views(PollFails(p))
    \/ \E p \in Polls : Views(OpenFeed(p))
    \/ \E p \in Polls : Views(OverviewArrives(p))
    \/ Views(FrameArrives)
    \/ Views(Flush)
    \/ Views(FlushThrows)
    \/ Views(FeedDrops)

\* The conditions of each part's own fairness; those of one kind are one condition
\* here, to which only the open page contributes.
OpenPage ==
    CASE page = "gate" -> accessVars
      [] page = "orders" -> ordersVars
      [] page = "live" -> liveVars
      [] page = "views" -> pollVars
      [] OTHER -> <<>>

On(p, A) == page = p /\ UNCHANGED page /\ A

TimerRuns ==
    \/ On("gate", AnyPolls)
    \/ On("orders", PollOrders)
    \/ On("live", AnyRetry)
    \/ On("views", AnyTimer)

BackendMoves ==
    \/ On("orders", StoreOrders)
    \/ On("orders", OrderCacheExpires)
    \/ On("views", (serverDown /\ AnyPollEnds) \/ FrameArrives)

ServerAnswers ==
    \/ On("gate", AnyServed)
    \/ On("orders", ListServed)
    \/ On("live", AnyOpens)
    \/ On("views", AnyPollServed)

AnswerArrives ==
    \/ On("gate", AnyDelivered)
    \/ On("orders", AnyListShown)
    \/ On("live", AnyEnds)
    \/ On("views", AnyPollFails)

AnswerCounts ==
    \/ On("gate", AnyAnswered)
    \/ On("orders", ListShown)
    \/ On("views", AnyPollShows)

ConsoleFairness ==
    /\ WF_OpenPage(TimerRuns)
    /\ WF_OpenPage(BackendMoves)
    /\ SF_OpenPage(ServerAnswers)
    /\ WF_OpenPage(AnswerArrives)
    /\ SF_OpenPage(AnswerCounts)

ConsoleSpec == ConsoleInit /\ [][ConsoleNext]_pageVars /\ ConsoleFairness

-----------------------------------------------------------------------------
\* The state of each part has its type; no countdown runs below zero.
\* About the state of the pages.
ConsoleTypeOK ==
    /\ AccessTypeOK /\ StoreTypeOK /\ DeskTypeOK /\ OrdersTypeOK /\ RiskTypeOK
    /\ LimitTypeOK /\ GuardTypeOK /\ LabTypeOK /\ LiveTypeOK /\ PollTypeOK

\* No countdown of the console is cut short: neither that of a commit of risk rules,
\* nor the review of limits, nor the cooldowns that guard manual controls, whatever
\* was cancelled, hidden, aborted or edited before.
\* About FrictionAction.jsx:34-63, RiskControl.jsx:23-80, EmotionGuard.jsx:10-37 and
\* EmotionGuardOverlay.jsx:8-32.
CountdownsServed == DelayIsServed /\ AppliedAsReviewed /\ []NoShortcut

\* The console recovers: it drops a key that the server rejects, lists every order,
\* streams again after any disconnection, and its views follow the backend.
\* About the timers of App.jsx:128-180 and 1087-1117, and LiveExecution.jsx:75-79.
PagesCatchUp ==
    /\ BadKeyIsDropped
    /\ AcceptedIsListed
    /\ StreamReturns
    /\ page = "views" => ViewsFollow
=============================================================================
