------------------------------ MODULE RiskDesk ------------------------------
(***************************************************************************)
(* Changing the risk rules: pages/RiskControlPanel with the delayed button *)
(* components/shared/FrictionAction, and what the two routes it posts to   *)
(* store (dashboard risk-params, governance settings).  Rules are edited,  *)
(* projected, and committed by a button that counts down first; what it    *)
(* commits is the form as it is by then, in two independent POSTs.  The    *)
(* form is also written by a poll that runs every three seconds.           *)
(*                                                                         *)
(* A rule set is a pair <<base, cap>>: the base risk goes to the first     *)
(* route, the caps to the second.                                          *)
(***************************************************************************)
EXTENDS Naturals

CONSTANTS Delay,      \* seconds of the countdown
          DefaultBase,\* 1.5, the form's initial base risk
          NoBase,     \* 0, what is read of an answer without a base risk
          Bases,      \* base risks, these two among them
          LiveCap,    \* 5.0, the cap every poll reports or falls back to
          Caps,       \* caps, the live one among them
          Commits,    \* bound: commits in flight
          NoCommit, NoRules, NoPoll

RuleSets == Bases \X Caps

\* The two POSTs of a commit, each sent, accepted, refused (an error status) or lost.
PostStates == {"sent", "ok", "refused", "lost"}

CommitRecords == [rules : RuleSets, post : [1..2 -> PostStates],
                  watch : {"button", "page", "none"}]

ASSUME RiskAssumption == /\ Delay \in Nat \ {0}
                         /\ {DefaultBase, NoBase} \subseteq Bases /\ LiveCap \in Caps
                         /\ NoRules \notin RuleSets
                         /\ NoCommit \notin CommitRecords

VARIABLES params,      \* the form
          projection,  \* the result card, and with it the commit button, is shown
          projecting,  \* a simulation is under way
          stage,       \* of the button
          timeLeft,    \* of the button
          waited,      \* history: seconds since the button was clicked
          commits,     \* commits under way
          serverRules, \* what the backend has
          lastRules,   \* history: the rules of the last commit
          riskPoll,    \* base risk in the answer to a poll
          troubled     \* history: a POST failed, or two commits overlapped, since
                       \* the last commit that began alone

riskVars == <<params, projection, projecting, stage, timeLeft, waited, commits,
              serverRules, lastRules, riskPoll, troubled>>

RiskTypeOK ==
    /\ params \in RuleSets
    /\ projection \in BOOLEAN
    /\ projecting \in BOOLEAN
    /\ stage \in {"idle", "confirming", "executing", "done"}
    /\ timeLeft \in 0..Delay
    /\ waited \in 0..Delay
    /\ commits \in [Commits -> {NoCommit} \cup CommitRecords]
    /\ serverRules \in RuleSets
    /\ lastRules \in RuleSets \cup {NoRules}
    /\ riskPoll \in Bases \cup {NoPoll}
    /\ troubled \in BOOLEAN

RiskInit ==
    /\ params \in {<<DefaultBase, c>> : c \in Caps \ {LiveCap}}
    /\ projection = FALSE
    /\ projecting = FALSE
    /\ stage = "idle"
    /\ timeLeft = Delay
    /\ waited = 0
    /\ commits = [c \in Commits |-> NoCommit]
    /\ serverRules \in RuleSets
    /\ lastRules = NoRules
    /\ riskPoll = NoPoll
    /\ troubled = FALSE

Committing == {c \in Commits : commits[c] # NoCommit}

-----------------------------------------------------------------------------
\* A change of one field of the form.
EditParam(i, value) ==
    /\ params[i] # value
    /\ params' = [params EXCEPT ![i] = value]
    /\ UNCHANGED <<projection, projecting, stage, timeLeft, waited, commits,
                   serverRules, lastRules, riskPoll, troubled>>

\* The poll reads the backend, and its answer arrives some time later.
SendRiskPoll ==
    /\ riskPoll = NoPoll
    /\ riskPoll' = serverRules[1]
    /\ UNCHANGED <<params, projection, projecting, stage, timeLeft, waited,
                   commits, serverRules, lastRules, troubled>>

\* It writes the form, the cap with it, for as long as the base risk is the default.
Written(base) == IF params[1] = DefaultBase THEN <<base, LiveCap>> ELSE params

RiskPollArrives ==
    /\ riskPoll # NoPoll
    /\ riskPoll' = NoPoll
    /\ params' = Written(riskPoll)
    /\ UNCHANGED <<projection, projecting, stage, timeLeft, waited, commits,
                   serverRules, lastRules, troubled>>

\* No answer, or none of JSON, leaves the form alone; an error status with a body of JSON
\* is read as any answer.
RiskPollFails ==
    /\ riskPoll # NoPoll
    /\ riskPoll' = NoPoll
    /\ params' \in {params, Written(NoBase)}
    /\ UNCHANGED <<projection, projecting, stage, timeLeft, waited,
                   commits, serverRules, lastRules, troubled>>

\* The card goes away, and the button in it: a countdown stops, a commit goes on.
ButtonUnmounts ==
    /\ stage' = "idle"
    /\ timeLeft' = Delay
    /\ waited' = 0

\* Who waits for a commit: the button, only the page, nobody any more.
Unwatched(cs) == [c \in Commits |-> IF cs[c] # NoCommit /\ cs[c].watch = "button"
                                 THEN [cs[c] EXCEPT !.watch = "page"] ELSE cs[c]]

Simulate ==
    /\ ~projecting
    /\ projecting' = TRUE
    /\ projection' = FALSE
    /\ ButtonUnmounts
    /\ commits' = Unwatched(commits)
    /\ UNCHANGED <<params, serverRules, lastRules, riskPoll, troubled>>

\* A result is shown, whatever its status; no answer, no result.
SimulationEnds(shows) ==
    /\ projecting
    /\ projecting' = FALSE
    /\ projection' = (projection \/ shows)
    /\ UNCHANGED <<params, stage, timeLeft, waited, commits,
                   serverRules, lastRules, riskPoll, troubled>>

\* Mutant: the countdown is not set again.
InitiateWithoutReset ==
    /\ projection /\ stage = "idle"
    /\ stage' = "confirming"
    /\ waited' = 0
    /\ UNCHANGED <<params, projection, projecting, timeLeft, commits,
                   serverRules, lastRules, riskPoll, troubled>>

InitiateAction ==
    /\ projection /\ stage = "idle"
    /\ stage' = "confirming"
    /\ timeLeft' = Delay
    /\ waited' = 0
    /\ UNCHANGED <<params, projection, projecting, commits,
                   serverRules, lastRules, riskPoll, troubled>>

CancelAction ==
    /\ stage = "confirming"
    /\ stage' = "idle"
    /\ timeLeft' = Delay
    /\ waited' = 0
    /\ UNCHANGED <<params, projection, projecting, commits,
                   serverRules, lastRules, riskPoll, troubled>>

ButtonTick ==
    /\ stage = "confirming" /\ timeLeft > 1
    /\ timeLeft' = timeLeft - 1
    /\ waited' = waited + 1
    /\ UNCHANGED <<params, projection, projecting, stage, commits,
                   serverRules, lastRules, riskPoll, troubled>>

\* The last second runs handleApply on the form of that moment.
TickExecutes(c) ==
    /\ stage = "confirming" /\ timeLeft <= 1
    /\ commits[c] = NoCommit
    /\ stage' = "executing"
    /\ timeLeft' = 0
    /\ waited' = waited + 1
    /\ commits' = [commits EXCEPT ![c] =
                     [rules |-> params, post |-> <<"sent", "sent">>, watch |-> "button"]]
    /\ lastRules' = params
    /\ troubled' = (Committing # {})
    /\ UNCHANGED <<params, projection, projecting, serverRules, riskPoll>>

PostOpen(c, i) == c \in Committing /\ commits[c].post[i] = "sent"

PostAnswered(c, i, answer) ==
    LET commit == [commits[c] EXCEPT !.post[i] = answer]
        over == commit.watch = "none" /\ \A k \in 1..2 : commit.post[k] # "sent"
    IN  commits' = [commits EXCEPT ![c] = IF over THEN NoCommit ELSE commit]

\* Mutant: the second route leaves its cap as it is.
StoresBaseOnly(c, i) ==
    /\ PostOpen(c, i)
    /\ PostAnswered(c, i, "ok")
    /\ serverRules' = IF i = 1 THEN [serverRules EXCEPT ![1] = commits[c].rules[1]]
                      ELSE serverRules
    /\ UNCHANGED <<params, projection, projecting, stage, timeLeft, waited,
                   lastRules, riskPoll, troubled>>

\* A route stores its part, in either order.
RouteStores(c, i) ==
    /\ PostOpen(c, i)
    /\ PostAnswered(c, i, "ok")
    /\ serverRules' = [serverRules EXCEPT ![i] = commits[c].rules[i]]
    /\ UNCHANGED <<params, projection, projecting, stage, timeLeft, waited,
                   lastRules, riskPoll, troubled>>

\* A status other than 2xx (a field that is no number, a refused key), or no answer.
RouteFails(c, i, how) ==
    /\ PostOpen(c, i)
    /\ PostAnswered(c, i, how)
    /\ troubled' = TRUE
    /\ UNCHANGED <<params, projection, projecting, stage, timeLeft, waited,
                   serverRules, lastRules, riskPoll>>

\* Promise.all is settled by both answers, of whatever status: the success message
\* is shown and the card goes away.
ApplySucceeds(c) ==
    /\ c \in Committing
    /\ \A i \in 1..2 : commits[c].post[i] \in {"ok", "refused"}
    /\ commits' = Unwatched([commits EXCEPT ![c] = NoCommit])
    /\ projection' = FALSE
    /\ ButtonUnmounts
    /\ UNCHANGED <<params, projecting, serverRules, lastRules, riskPoll, troubled>>

\* One POST without an answer rejects it.  The error is caught and logged, so the
\* button goes on to "Confirmed"; the other POST may still be served.
ApplyFails(c) ==
    /\ c \in Committing /\ commits[c].watch # "none"
    /\ \E i \in 1..2 : commits[c].post[i] = "lost"
    /\ stage' = IF commits[c].watch = "button" THEN "done" ELSE stage
    /\ commits' = [commits EXCEPT ![c] =
                     IF \E i \in 1..2 : @.post[i] = "sent"
                     THEN [@ EXCEPT !.watch = "none"] ELSE NoCommit]
    /\ UNCHANGED <<params, projection, projecting, timeLeft, waited,
                   serverRules, lastRules, riskPoll, troubled>>

\* "Confirmed" goes away after two seconds.
ConfirmedEnds ==
    /\ stage = "done"
    /\ stage' = "idle"
    /\ UNCHANGED <<params, projection, projecting, timeLeft, waited, commits,
                   serverRules, lastRules, riskPoll, troubled>>

RiskNext ==
    \/ \E b \in Bases : EditParam(1, b)
    \/ \E c \in Caps : EditParam(2, c)
    \/ SendRiskPoll
    \/ RiskPollArrives
    \/ RiskPollFails
    \/ Simulate
    \/ \E shows \in BOOLEAN : SimulationEnds(shows)
    \/ InitiateAction
    \/ CancelAction
    \/ ButtonTick
    \/ \E c \in Commits : TickExecutes(c)
    \/ \E c \in Commits, i \in 1..2 : RouteStores(c, i)
    \/ \E c \in Commits, i \in 1..2, how \in {"refused", "lost"} : RouteFails(c, i, how)
    \/ \E c \in Commits : ApplySucceeds(c)
    \/ \E c \in Commits : ApplyFails(c)
    \/ ConfirmedEnds

RiskSpec == RiskInit /\ [][RiskNext]_riskVars

-----------------------------------------------------------------------------
\* A commit leaves the page only after the whole countdown, counted from the click
\* that started it: no cancelled, failed or hidden countdown shortens a later one.
\* About FrictionAction.jsx:34-63.
DelayIsServed ==
    [][\A c \in Commits : commits[c] = NoCommit /\ commits'[c] # NoCommit
          => waited' = Delay]_riskVars

\* With no commit under way the backend has the two halves of one form: that of the
\* last commit, unless one of its POSTs failed or it overlapped another commit; then
\* halves of two forms may stay there, until a commit that begins alone repairs it.
\* About RiskControlPanel.jsx:92-119.
RulesTogether ==
    Committing = {} /\ ~troubled /\ lastRules # NoRules => serverRules = lastRules
=============================================================================
