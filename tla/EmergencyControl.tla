-------------------------- MODULE EmergencyControl --------------------------
(***************************************************************************)
(* The emergency path around the trade pipeline: the kill switch route,    *)
(* the broker reconciliation job, the synchronous EMERGENCY_LIQUIDATE      *)
(* event with its subscribers ExecutionEngine and KillSwitch, and the      *)
(* exit_all_positions tasks the event leaves behind.  All of it runs on    *)
(* the main event loop, interleaved at its awaits with itself and at every *)
(* step with the strategy worker's thread.                                 *)
(***************************************************************************)
EXTENDS TradePipeline

CONSTANTS
    MaxTasks,           \* bound: liquidation tasks alive at once
    MaxKillRequests,    \* operators pressing the button at once
    ReconEnabled,       \* the reconciliation job is scheduled
    Asked               \* the broker was asked for its positions

ASSUME ControlAssumption ==
    /\ MaxTasks \in Nat /\ MaxKillRequests \in Nat
    /\ ReconEnabled \in BOOLEAN
    /\ None # Asked
    /\ "TRADING_DISABLED" \in HaltedStates

VARIABLES
    killRequests,       \* kill switch requests past their READY dependency
    reconSeen,          \* broker positions a cycle has fetched, Asked, or None
    mismatchWatch,      \* symbols whose grace period is running
    created,            \* exit_all_positions tasks that have not run yet
    selling             \* per running task, the positions still to be closed

control == <<killRequests, reconSeen, mismatchWatch, created, selling>>
allVars == <<vars, control>>

ControlTypeOK ==
    /\ TypeOK
    /\ killRequests \in 0..MaxKillRequests
    /\ reconSeen \in [Symbols -> Int] \cup {None, Asked}
    /\ mismatchWatch \subseteq Symbols
    /\ created \in 0..MaxTasks
    /\ selling \in Seq([Symbols -> Int])

ControlInit ==
    /\ Init
    /\ killRequests = 0 /\ reconSeen = None /\ mismatchWatch = {}
    /\ created = 0 /\ selling = <<>>

Liquidating == created > 0 \/ selling # <<>>

\* Publishing EMERGENCY_LIQUIDATE n times: each time the execution engine
\* schedules a task and forgets it, then the kill switch disables trading.
PublishEmergency(n) ==
    /\ created + Len(selling) + n <= MaxTasks
    /\ created' = created + n
    /\ sysState' = "TRADING_DISABLED"
    /\ UNCHANGED selling

-----------------------------------------------------------------------------
(* Kill switch route: its READY check runs in the thread pool before the    *)
(* endpoint runs on the event loop.                                         *)

KillRequested ==
    /\ sysState = "READY"
    /\ killRequests < MaxKillRequests
    /\ killRequests' = killRequests + 1
    /\ UNCHANGED <<vars, reconSeen, mismatchWatch, created, selling>>

KillSwitch ==
    /\ killRequests > 0
    /\ killRequests' = killRequests - 1
    /\ PublishEmergency(1)
    /\ UNCHANGED <<peakEquity, lockState, budget, positions, broker, worker,
                   reconSeen, mismatchWatch>>

-----------------------------------------------------------------------------
(* Reconciliation cycle: check, ask, compare with what is local by then     *)

\* A cycle that finds another state ends here, as one without an access token does;
\* while the system stays READY it has one (ReadyHasToken).
ReconStart ==
    /\ ReconEnabled
    /\ sysState = "READY" /\ reconSeen = None
    /\ reconSeen' = Asked
    /\ UNCHANGED <<vars, killRequests, mismatchWatch, created, selling>>

\* The broker answers, whatever became of the system's state in between.
ReconFetch ==
    /\ reconSeen = Asked
    /\ reconSeen' = brokerQty
    /\ UNCHANGED <<vars, killRequests, mismatchWatch, created, selling>>

Fetched == reconSeen \notin {None, Asked}

\* get_positions raises: the cycle ends without a comparison.
ReconFails ==
    /\ "positions_error" \in Disturbances
    /\ reconSeen = Asked
    /\ reconSeen' = None
    /\ UNCHANGED <<vars, killRequests, mismatchWatch, created, selling>>

Held(s) == positions[s] # Flat
Phantom(s) == reconSeen[s] # 0 /\ ~Held(s)
Mismatch(s) == Held(s) /\ positions[s].qty # reconSeen[s]

\* Cycles are 15 seconds apart, so a grace period of 3 seconds that an earlier
\* cycle started is over.
Overdue == {s \in mismatchWatch : Mismatch(s)}

ReconPhantom ==
    /\ Fetched
    /\ \E s \in Symbols : Phantom(s)
    /\ reconSeen' = None
    /\ PublishEmergency(1)
    /\ UNCHANGED <<peakEquity, lockState, budget, positions, broker, worker,
                   killRequests, mismatchWatch>>

\* Mutant: every mismatch starts its grace period anew.
ReconRestartsGrace ==
    /\ Fetched
    /\ \A s \in Symbols : ~Phantom(s)
    /\ reconSeen' = None
    /\ mismatchWatch' = {s \in Symbols : IF Held(s) THEN Mismatch(s) ELSE s \in mismatchWatch}
    /\ UNCHANGED <<sysState, peakEquity, lockState, budget, positions, broker, worker,
                   killRequests, created, selling>>

\* One event per overdue symbol; a symbol without a local position is not
\* looked at, so its grace period is not cleared.
ReconCompare ==
    /\ Fetched
    /\ \A s \in Symbols : ~Phantom(s)
    /\ reconSeen' = None
    /\ mismatchWatch' = {s \in Symbols : IF Held(s) THEN Mismatch(s) ELSE s \in mismatchWatch}
    /\ IF Overdue = {} THEN UNCHANGED <<sysState, created, selling>>
                       ELSE PublishEmergency(Cardinality(Overdue))
    /\ UNCHANGED <<peakEquity, lockState, budget, positions, broker, worker,
                   killRequests>>

-----------------------------------------------------------------------------
(* KiteService.exit_all_positions, one task per event                       *)

\* Mutant: the loop returns after its first order.
OnlyFirst(i, left) == RemoveAt(selling, i)

TasksAfter(i, left) ==
    IF \A s \in Symbols : left[s] = 0 THEN RemoveAt(selling, i)
                                      ELSE ReplaceAt(selling, i, left)

\* Mutant: a liquidation runs that no event asked for.
LiquidationReadsUnasked ==
    /\ created' = created - 1
    /\ selling' = IF \E s \in Symbols : brokerQty[s] # 0
                  THEN Append(selling, brokerQty) ELSE selling
    /\ UNCHANGED <<vars, killRequests, reconSeen, mismatchWatch>>

LiquidationReads ==
    /\ created > 0
    /\ created' = created - 1
    /\ selling' = IF \E s \in Symbols : brokerQty[s] # 0
                  THEN Append(selling, brokerQty) ELSE selling
    /\ UNCHANGED <<vars, killRequests, reconSeen, mismatchWatch>>

ExitSide(qty) == IF qty > 0 THEN "SELL" ELSE "BUY"

\* Mutant: the liquidation books the local position too.
LiquidationBooks(i, s) ==
    LET qty == selling[i][s] IN
    /\ qty # 0
    /\ AcceptOrder(s, ExitSide(qty), AbsInt(qty))
    /\ positions' = [positions EXCEPT ![s] = Flat]
    /\ selling' = TasksAfter(i, [selling[i] EXCEPT ![s] = 0])
    /\ UNCHANGED <<sysState, peakEquity, lockState, budget, worker,
                   killRequests, reconSeen, mismatchWatch, created>>

LiquidationSells(i, s) ==
    LET qty == selling[i][s] IN
    /\ qty # 0
    /\ AcceptOrder(s, ExitSide(qty), AbsInt(qty))
    /\ selling' = TasksAfter(i, [selling[i] EXCEPT ![s] = 0])
    /\ UNCHANGED <<sysState, peakEquity, lockState, budget, positions, worker,
                   killRequests, reconSeen, mismatchWatch, created>>

\* place_order raises: nothing catches it, the rest of the list is dropped.
LiquidationDies(i) ==
    /\ "liquidation_error" \in Disturbances
    /\ selling' = RemoveAt(selling, i)
    /\ UNCHANGED <<vars, killRequests, reconSeen, mismatchWatch, created>>

-----------------------------------------------------------------------------
\* A login or a token check makes the system READY from any state; a lost token
\* is noticed in any state.
SessionChanges ==
    \/ \E st \in SystemState \ {"TRADING_DISABLED"} : StateChanges(st)
    \/ \E c \in Capitals : BalanceFetched(c)

ReconStep == ReconStart \/ ReconFetch \/ ReconFails \/ ReconPhantom \/ ReconCompare

LiquidationStep ==
    \/ LiquidationReads
    \/ \E i \in DOMAIN selling :
          LiquidationDies(i) \/ \E s \in Symbols : LiquidationSells(i, s)

OperatorTrades ==
    \E s \in Symbols, side \in Sides, n \in ManualSizes : ManualOrder(s, side, n)

ControlNext ==
    \/ (WorkerStep \/ SessionChanges \/ OperatorTrades \/ ExchangeStep) /\ UNCHANGED control
    \/ KillRequested \/ KillSwitch \/ ReconStep \/ LiquidationStep

ControlSpec == ControlInit /\ [][ControlNext]_allVars

\* The worker thread runs on, and every call to the broker returns or raises (the
\* client library has a timeout); the scheduler keeps running the job and its fetch does
\* not fail for ever; the event loop runs its tasks; the exchange ends what it accepted.
FairControlSpec ==
    /\ ControlSpec
    /\ WF_allVars(WorkerStep /\ UNCHANGED control)
    /\ WF_allVars(ReconStart)
    /\ SF_allVars(ReconFetch)
    /\ WF_allVars(ReconPhantom \/ ReconCompare)
    /\ WF_allVars(LiquidationStep)
    /\ WF_allVars(ExchangeStep /\ UNCHANGED control)

-----------------------------------------------------------------------------
(* Safety *)

\* The emergency has run its course: no liquidation left, no decision in
\* flight, nothing the exchange still has to fill.
Quiesced ==
    /\ sysState = "TRADING_DISABLED" /\ killRequests = 0 /\ ~Liquidating
    /\ pc = "idle" /\ \A s \in Symbols : NoneOpen(s)

BrokerFlat == \A s \in Symbols : brokerQty[s] = 0

\* The emergency exit "flattens all positions" (execution_engine.py:45): when
\* it has run its course the broker holds nothing.
LiquidationFlattens == Quiesced => BrokerFlat

\* Reconciliation tolerates "microsecond desyncs during active flight"
\* (broker_reconciliation.py:13): if nobody presses the kill switch and
\* nothing disturbs the broker, it never raises an emergency.
GraceToleratesFlight ==
    (MaxKillRequests = 0 /\ Disturbances = {}) => sysState # "TRADING_DISABLED"

\* To the trade pipeline the emergency path is no more than the environment it
\* was checked under: state changes and orders by others.
PipelineUndisturbed == Spec

(* Liveness *)

\* The reconciliation job catches what does not go away: the system does not
\* stay READY with one local quantity and another, unchanging one at the broker.
DesyncHalts ==
    \A s \in Symbols, q, b \in -MaxExposure..MaxExposure :
        q # b => ~<>[](sysState = "READY" /\ OpenQtyLocal(s) = q /\ brokerQty[s] = b)
=============================================================================
