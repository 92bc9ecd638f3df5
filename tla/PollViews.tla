------------------------------ MODULE PollViews ------------------------------
(***************************************************************************)
(* The views that show what a poll of the backend brought: useAuthStatus-  *)
(* Poll and useOverviewPoll of App.jsx, SystemHealth, PortfolioView,       *)
(* StrategyPanel and AuditLogPage.  A timer sends the next request whether *)
(* or not the last one was answered, so answers may overtake each other.   *)
(* The views differ in what they make of an answer that is no data, and    *)
(* the audit log can be paused and refreshed by hand.  OverviewDashboard   *)
(* asks once, and follows a web socket whose frames it buffers between two *)
(* renderings; the late answer and a frame write the same figure, and a    *)
(* socket that ended is not opened again.                                  *)
(*                                                                         *)
(* What the backend would report is a version, which only grows; the two   *)
(* requests that SystemHealth and StrategyPanel send at a time are one.    *)
(***************************************************************************)
EXTENDS Naturals

CONSTANTS Polls,       \* bound: requests under way
          MaxVersion,  \* bound: changes at the backend
          NoPolling,   \* an idle slot
          Initial,     \* what a view shows at first
          NoData,      \* "no connection", "critical", empty tables
          NoFrame      \* an empty buffer

ASSUME PollAssumption == MaxVersion \in Nat /\ {Initial, NoData, NoFrame} \cap Nat = {}

VARIABLES pollView,    \* the view that is open
          version,     \* of what the backend would report
          serverDown,  \* the backend answers nobody
          polls,       \* requests under way
          shownData,   \* on display: a version, or what there is without data
          autoRefresh, \* of AuditLogPage
          feed,        \* the web socket of OverviewDashboard
          frame        \* its buffer: the latest frame not yet rendered

feedVars == <<feed, frame>>
pollVars == <<pollView, version, serverDown, polls, shownData, autoRefresh, feedVars>>

\* These show that there is no data when an answer has none; the others leave what
\* they have.
Resets == {"auth", "health", "portfolio"}
PollingViews == Resets \cup {"overview", "panel", "audit", "feed"}

PollTypeOK ==
    /\ pollView \in PollingViews
    /\ version \in 0..MaxVersion
    /\ serverDown \in BOOLEAN
    /\ polls \in [Polls -> {NoPolling} \cup
                    [status : {"sent", "ok", "error"}, version : 0..MaxVersion]]
    /\ shownData \in (0..MaxVersion) \cup {Initial, NoData}
    /\ autoRefresh \in BOOLEAN
    /\ feed \in {"new", "open", "closed", "gone"}
    /\ frame \in (0..MaxVersion) \cup {NoFrame}

PollInit ==
    /\ pollView \in PollingViews
    /\ version = 0
    /\ serverDown = FALSE
    /\ polls = [p \in Polls |-> NoPolling]
    /\ shownData = Initial
    /\ autoRefresh = TRUE
    /\ feed = "new"
    /\ frame = NoFrame

PollStatus(p) == IF polls[p] = NoPolling THEN "idle" ELSE polls[p].status

-----------------------------------------------------------------------------
DataChanges ==
    /\ version < MaxVersion
    /\ version' = version + 1
    /\ UNCHANGED <<pollView, serverDown, polls, shownData, autoRefresh, feedVars>>

ServerStops ==
    /\ ~serverDown
    /\ serverDown' = TRUE
    /\ UNCHANGED <<pollView, version, polls, shownData, autoRefresh, feedVars>>

ServerReturns ==
    /\ serverDown
    /\ serverDown' = FALSE
    /\ UNCHANGED <<pollView, version, polls, shownData, autoRefresh, feedVars>>

SendPoll(p) ==
    /\ PollStatus(p) = "idle"
    /\ polls' = [polls EXCEPT ![p] = [status |-> "sent", version |-> 0]]
    /\ UNCHANGED <<pollView, version, serverDown, shownData, autoRefresh, feedVars>>

\* The view's timer; the first request is sent when the view opens.
TimerPolls(p) == pollView # "feed" /\ autoRefresh /\ SendPoll(p)

\* "Refresh" of AuditLogPage.
RefreshNow(p) == pollView = "audit" /\ SendPoll(p)

\* "Live" and "Paused" of AuditLogPage.
ToggleAutoRefresh ==
    /\ pollView = "audit"
    /\ autoRefresh' = ~autoRefresh
    /\ UNCHANGED <<pollView, version, serverDown, polls, shownData, feedVars>>

PollServed(p) ==
    /\ PollStatus(p) = "sent" /\ ~serverDown
    /\ polls' = [polls EXCEPT ![p] = [status |-> "ok", version |-> version]]
    /\ UNCHANGED <<pollView, version, serverDown, shownData, autoRefresh, feedVars>>

\* An error status, a body that is no JSON, or no answer at all.
PollLost(p) ==
    /\ PollStatus(p) = "sent"
    /\ polls' = [polls EXCEPT ![p].status = "error"]
    /\ UNCHANGED <<pollView, version, serverDown, shownData, autoRefresh, feedVars>>

PollShows(p) ==
    /\ PollStatus(p) = "ok" /\ pollView # "feed"
    /\ shownData' = polls[p].version
    /\ polls' = [polls EXCEPT ![p] = NoPolling]
    /\ UNCHANGED <<pollView, version, serverDown, autoRefresh, feedVars>>

PollFails(p) ==
    /\ PollStatus(p) = "error"
    /\ shownData' = IF pollView \in Resets THEN NoData ELSE shownData
    /\ polls' = [polls EXCEPT ![p] = NoPolling]
    /\ UNCHANGED <<pollView, version, serverDown, autoRefresh, feedVars>>

-----------------------------------------------------------------------------
(* OverviewDashboard *)

\* The effect of the page asks for the overview and opens the socket.
OpenFeed(p) ==
    /\ pollView = "feed" /\ feed = "new"
    /\ PollStatus(p) = "idle"
    /\ polls' = [polls EXCEPT ![p] = [status |-> "sent", version |-> 0]]
    /\ feed' = "open"
    /\ UNCHANGED <<pollView, version, serverDown, shownData, autoRefresh, frame>>

\* The overview's answer, perhaps after newer frames.
OverviewArrives(p) ==
    /\ pollView = "feed" /\ PollStatus(p) = "ok"
    /\ shownData' = IF feed = "gone" THEN shownData ELSE polls[p].version
    /\ polls' = [polls EXCEPT ![p] = NoPolling]
    /\ UNCHANGED <<pollView, version, serverDown, autoRefresh, feedVars>>

\* A later frame replaces one that was not rendered yet.
FrameArrives ==
    /\ feed = "open" /\ ~serverDown
    /\ frame' = version
    /\ UNCHANGED <<pollView, version, serverDown, polls, shownData, autoRefresh, feed>>

\* 250 ms after the last time the buffer is shown and emptied.
Flush ==
    /\ frame # NoFrame
    /\ shownData' = frame
    /\ frame' = NoFrame
    /\ UNCHANGED <<pollView, version, serverDown, polls, autoRefresh, feed>>

\* React runs the updater at once, as above, or with the next rendering, when the
\* buffer it reads is empty: it throws, nothing catches that, and the page is gone.
FlushThrows ==
    /\ frame # NoFrame
    /\ feed' = "gone"
    /\ frame' = NoFrame
    /\ shownData' = NoData
    /\ UNCHANGED <<pollView, version, serverDown, polls, autoRefresh>>

\* The socket ends, or never opened: nothing listens to that.
FeedDrops ==
    /\ feed = "open"
    /\ feed' = "closed"
    /\ UNCHANGED <<pollView, version, serverDown, polls, shownData, autoRefresh, frame>>

PollNext ==
    \/ DataChanges
    \/ ServerStops
    \/ ServerReturns
    \/ \E p \in Polls : TimerPolls(p)
    \/ \E p \in Polls : RefreshNow(p)
    \/ ToggleAutoRefresh
    \/ \E p \in Polls : PollServed(p)
    \/ \E p \in Polls : PollLost(p)
    \/ \E p \in Polls : PollShows(p)
    \/ \E p \in Polls : PollFails(p)
    \/ \E p \in Polls : OpenFeed(p)
    \/ \E p \in Polls : OverviewArrives(p)
    \/ FrameArrives
    \/ Flush
    \/ FlushThrows
    \/ FeedDrops

PollSpec == PollInit /\ [][PollNext]_pollVars

AnyTimer == (\E p \in Polls : TimerPolls(p) \/ OpenFeed(p)) \/ Flush
AnyPollServed == \E p \in Polls : PollServed(p)
AnyPollEnds == \E p \in Polls : PollLost(p)
AnyPollShows == \E p \in Polls : PollShows(p) \/ OverviewArrives(p)
AnyPollFails == \E p \in Polls : PollFails(p)

\* Timers run; a request to a backend that is down fails; of the requests to one
\* that is up not all fail; what was answered is shown; a stream that is up streams.
PollFairness ==
    /\ WF_pollVars(AnyTimer)
    /\ WF_pollVars(FrameArrives)
    /\ WF_pollVars(serverDown /\ AnyPollEnds)
    /\ SF_pollVars(AnyPollServed)
    /\ WF_pollVars(AnyPollShows)
    /\ WF_pollVars(AnyPollFails)

FairPollSpec == PollSpec /\ PollFairness

-----------------------------------------------------------------------------
\* While the backend is up and the view neither paused nor cut off from its stream,
\* the view shows what the backend has, again and again: neither a failure, nor a
\* pause, nor an older answer that overtook a newer one or a frame is the end of it.
\* While the backend stays down, the views that should say so do, and no late answer
\* hides it.  About App.jsx:128-154, SystemHealth.jsx:19-57, AuditLogPage.jsx:30-51
\* and OverviewDashboard.jsx:62-133.
ViewsFollow ==
    /\ <>[](~serverDown /\ autoRefresh /\ (pollView = "feed" => feed = "open"))
       => []<>(shownData = version)
    /\ pollView \in Resets /\ <>[]serverDown => <>[](shownData = NoData)
=============================================================================
