---------------------------- MODULE TradePipeline ----------------------------
(***************************************************************************)
(* The path of a trade: StrategyWorker (the one thread that runs the       *)
(* strategies of a closed candle in turn), RiskEngine.evaluate_intent,     *)
(* ExecutionEngine.execute_decision and the components they call.  The     *)
(* worker blocks until a decision has ended, so there is at most one       *)
(* decision in flight; the system state, the balance and the broker change *)
(* under it at every step.  Each value of pc is a point between two reads  *)
(* or writes of state that somebody else can change or see:                *)
(*   idle      the queue is polled                                         *)
(*   candle    a candle is held, strategiesLeft strategies still to run    *)
(*   evaluate  a strategy returned an intent                               *)
(*   size      an entry passed the state and lock checks                   *)
(*   precheck  it has a size                                               *)
(*   reserve   it has the symbol's lock                                    *)
(*   sniff     the decision is approved and handed to execute_decision     *)
(*   place     attempt number `attempt` at the broker                      *)
(*   placed    the broker answered with an order id                        *)
(*   fill      ORDER_SUCCESS was published, the local fill is next         *)
(*   failed    every attempt failed                                        *)
(*   finally   the finally block of execute_decision                       *)
(***************************************************************************)
EXTENDS SymbolLock, CapitalRegistry, Broker

CONSTANTS
    Prices,             \* closing prices
    RawSizes,           \* sizes the volatility formula may produce; 0 is refused
    ManualSizes,        \* quantities the operator orders by hand
    MaxStrategies,      \* strategies registered for one symbol
    MaxRetries,         \* max_retries of the execution engine
    HaltedStates,       \* system states other than READY that occur
    Disturbances,       \* what the environment may do, see DisturbanceKinds
    None

DisturbanceKinds == {"lost_response", "exchange_reject", "manual_order", "sniff_error",
                     "liquidation_error", "positions_error"}

ASSUME PipelineAssumption ==
    /\ Prices \subseteq Nat \ {0}
    /\ RawSizes \subseteq Nat /\ ManualSizes \subseteq Nat \ {0}
    /\ MaxStrategies \in Nat \ {0}
    /\ MaxRetries \in Nat \ {0}
    /\ HaltedStates \subseteq {"AUTH_REQUIRED", "TRADING_DISABLED"}
    /\ Disturbances \subseteq DisturbanceKinds
    /\ None \notin ReservationIds

VARIABLES
    sysState, peakEquity,
    pc, symbol, strategiesLeft, intent, size, resId, attempt

decision == <<symbol, intent, size, resId>>
worker == <<pc, strategiesLeft, decision, attempt>>
vars == <<sysState, peakEquity, lockState, budget, positions, broker, worker>>

\* The worker starts after startup has left INITIALIZING.
SystemState == {"READY"} \cup HaltedStates

\* A strategy emits BUY entries and SELL exits only; evaluate_intent refuses
\* the two other combinations.
Intent == [side : Sides, price : Nat]
NoIntent == [side |-> "BUY", price |-> 0]

\* From the acquisition of the lock to its release.
Flying == {"reserve", "sniff", "place", "placed", "fill", "failed", "finally"}
PCs == {"idle", "candle", "evaluate", "size", "precheck"} \cup Flying

TypeOK ==
    /\ LockTypeOK /\ CapitalTypeOK /\ MtmTypeOK
    /\ sysState \in SystemState
    /\ peakEquity \in Nat
    /\ pc \in PCs
    /\ symbol \in Symbols
    /\ strategiesLeft \in 0..MaxStrategies
    /\ intent \in Intent
    /\ size \in Nat
    /\ resId \in ReservationIds \cup {None}
    /\ attempt \in 0..MaxRetries

Init ==
    /\ LockInit /\ BudgetInit /\ MtmInit /\ BrokerInit
    /\ sysState = "READY"
    /\ peakEquity \in {0, totalCapital}  \* 0 when no balance was fetched at startup
    /\ pc = "idle"
    /\ symbol \in Symbols
    /\ strategiesLeft = 0
    /\ intent = NoIntent
    /\ size = 0
    /\ resId = None
    /\ attempt = 0

IsExit == intent.side = "SELL"
Cost == intent.price * size
OpenQtyLocal(s) == positions[s].qty

-----------------------------------------------------------------------------
(* Strategy worker *)

\* _consume_loop past its READY check; without strategies nothing happens.
TakeCandle(s) ==
    /\ pc = "idle" /\ sysState = "READY"
    /\ pc' = "candle"
    /\ symbol' = s
    /\ strategiesLeft' \in 1..MaxStrategies
    /\ UNCHANGED <<sysState, peakEquity, lockState, budget, positions, broker,
                   intent, size, resId, attempt>>

\* Mutant: the entry engine runs although a position is open.
SignalsEntryAnyway(side, price) ==
    /\ pc = "candle" /\ strategiesLeft > 0
    /\ side = "BUY" \/ OpenQtyLocal(symbol) > 0
    /\ pc' = "evaluate"
    /\ intent' = [side |-> side, price |-> price]
    /\ strategiesLeft' = strategiesLeft - 1
    /\ UNCHANGED <<sysState, peakEquity, lockState, budget, positions, broker,
                   symbol, size, resId, attempt>>

\* on_candle_close of the next strategy: an exit is only signalled for an open
\* position, an entry only for a flat symbol.
StrategySignals(side, price) ==
    /\ pc = "candle" /\ strategiesLeft > 0
    /\ side = (IF OpenQtyLocal(symbol) > 0 THEN "SELL" ELSE "BUY")
    /\ pc' = "evaluate"
    /\ intent' = [side |-> side, price |-> price]
    /\ strategiesLeft' = strategiesLeft - 1
    /\ UNCHANGED <<sysState, peakEquity, lockState, budget, positions, broker,
                   symbol, size, resId, attempt>>

StrategySilent ==
    /\ pc = "candle" /\ strategiesLeft > 0
    /\ strategiesLeft' = strategiesLeft - 1
    /\ UNCHANGED <<sysState, peakEquity, lockState, budget, positions, broker,
                   pc, decision, attempt>>

CandleDone ==
    /\ pc = "candle" /\ strategiesLeft = 0
    /\ pc' = "idle"
    /\ UNCHANGED <<sysState, peakEquity, lockState, budget, positions, broker,
                   strategiesLeft, decision, attempt>>

\* Back to the loop over strategies; the decision's local variables die.
NextStrategy ==
    /\ pc' = "candle"
    /\ intent' = NoIntent /\ size' = 0 /\ resId' = None /\ attempt' = 0
    /\ UNCHANGED <<symbol, strategiesLeft>>

-----------------------------------------------------------------------------
(* RiskEngine.evaluate_intent *)

\* Mutant: the READY check is left to the worker's loop.
LockIsNormal == lockState[symbol] = "NORMAL"

Admitted == sysState = "READY" /\ lockState[symbol] = "NORMAL"

\* State, lock and open-quantity checks.
RefuseIntent ==
    /\ pc = "evaluate"
    /\ ~Admitted \/ (IsExit /\ OpenQtyLocal(symbol) <= 0)
    /\ NextStrategy
    /\ UNCHANGED <<sysState, peakEquity, lockState, budget, positions, broker>>

\* An exit takes the whole open quantity and holds no capital.
ApproveExit ==
    /\ pc = "evaluate" /\ IsExit
    /\ Admitted /\ OpenQtyLocal(symbol) > 0
    /\ AcquireExecutionLock(symbol)
    /\ pc' = "sniff"
    /\ size' = OpenQtyLocal(symbol)
    /\ resId' = None
    /\ UNCHANGED <<sysState, peakEquity, budget, positions, broker,
                   symbol, intent, strategiesLeft, attempt>>

\* The emotion guard and the drift monitor, next in the pipeline, are never
\* armed in the live system.
AdmitEntry ==
    /\ pc = "evaluate" /\ ~IsExit
    /\ Admitted
    /\ pc' = "size"
    /\ UNCHANGED <<sysState, peakEquity, lockState, budget, positions, broker,
                   decision, strategiesLeft, attempt>>

\* GovernanceGuard: limits in percent.
MonthlyDrawdownLimit == 15
MaxStrategyConcentration == 40
MaxDrawdownPercent == 5

Equity == totalCapital + RealtimePnl
Peak == IF peakEquity <= 0 THEN totalCapital ELSE peakEquity
RaisedPeak == IF Equity >= Peak THEN Equity ELSE Peak

LossCapReached == (RaisedPeak - Equity) * 100 >= MonthlyDrawdownLimit * RaisedPeak
DrawdownExceeded == (totalCapital - Equity) * 100 >= MaxDrawdownPercent * totalCapital

MaxAllowedSize(raw) ==
    Least(raw, (Equity * MaxStrategyConcentration) \div (100 * intent.price))

\* Mutant: a size of zero is not refused.
SizeEntryToZero(raw) ==
    /\ pc = "size"
    /\ peakEquity' = IF Equity >= Peak THEN Equity ELSE peakEquity
    /\ IF LossCapReached \/ DrawdownExceeded \/ MaxAllowedSize(raw) < 0
       THEN NextStrategy
       ELSE /\ size' = MaxAllowedSize(raw)
            /\ pc' = "precheck"
            /\ UNCHANGED <<symbol, intent, resId, strategiesLeft, attempt>>
    /\ UNCHANGED <<sysState, lockState, budget, positions, broker>>

\* Peak update, loss caps, sizing and the concentration cap; the volatility
\* formula yields some raw size.
SizeEntry(raw) ==
    /\ pc = "size"
    /\ peakEquity' = IF Equity >= Peak THEN Equity ELSE peakEquity
    /\ IF LossCapReached \/ DrawdownExceeded \/ MaxAllowedSize(raw) <= 0
       THEN NextStrategy
       ELSE /\ size' = MaxAllowedSize(raw)
            /\ pc' = "precheck"
            /\ UNCHANGED <<symbol, intent, resId, strategiesLeft, attempt>>
    /\ UNCHANGED <<sysState, lockState, budget, positions, broker>>

\* Capital pre-check, then the symbol lock.
PreCheck ==
    /\ pc = "precheck"
    /\ IF AvailableCapital < Cost \/ lockState[symbol] # "NORMAL"
       THEN NextStrategy /\ UNCHANGED lockState
       ELSE /\ AcquireExecutionLock(symbol)
            /\ pc' = "reserve"
            /\ UNCHANGED <<decision, strategiesLeft, attempt>>
    /\ UNCHANGED <<sysState, peakEquity, budget, positions, broker>>

ReserveForEntry(r) ==
    /\ pc = "reserve"
    /\ ReserveCapital(r, Cost, 0)
    /\ resId' = r
    /\ pc' = "sniff"
    /\ UNCHANGED <<sysState, peakEquity, lockState, positions, broker,
                   symbol, intent, size, strategiesLeft, attempt>>

\* Mutant: the lock is not given back.
ReserveFailsLocked ==
    /\ pc = "reserve"
    /\ AvailableCapital < Cost
    /\ NextStrategy
    /\ UNCHANGED <<sysState, peakEquity, lockState, budget, positions, broker>>

\* The balance shrank since the pre-check.
ReserveFails ==
    /\ pc = "reserve"
    /\ AvailableCapital < Cost
    /\ ReleaseExecutionLock(symbol)
    /\ NextStrategy
    /\ UNCHANGED <<sysState, peakEquity, budget, positions, broker>>

-----------------------------------------------------------------------------
(* ExecutionEngine.execute_decision *)


\* Mutant: an adopted order does not settle the hold.
AdoptUnsettled ==
    /\ pc = "sniff"
    /\ \E i \in DOMAIN orders : Matches(orders[i], symbol, intent.side, size)
    /\ ReleaseExecutionLock(symbol)
    /\ NextStrategy
    /\ UNCHANGED <<sysState, peakEquity, budget, positions, broker>>

\* The list the order cache hands to the sniffer can be fresh, up to a second
\* old, or, after a failed fetch, arbitrarily old or empty: a matching order at
\* the broker, rejected since or not, is found (SniffAdopts) or not
\* (SniffFindsNothing).
SniffAdopts ==
    /\ pc = "sniff"
    /\ \E i \in DOMAIN orders : Matches(orders[i], symbol, intent.side, size)
    /\ ConfirmReservation(resId)
    /\ ReleaseExecutionLock(symbol)
    /\ NextStrategy
    /\ UNCHANGED <<sysState, peakEquity, positions, broker>>

SniffFindsNothing ==
    /\ pc = "sniff"
    /\ pc' = "place" /\ attempt' = 1
    /\ UNCHANGED <<sysState, peakEquity, lockState, budget, positions, broker,
                   decision, strategiesLeft>>

\* A malformed order record makes the sniffer raise: ORDER_FAILED, no lock.
SniffRaises ==
    /\ "sniff_error" \in Disturbances
    /\ pc = "sniff"
    /\ ReleaseReservation(resId)
    /\ pc' = "finally"
    /\ UNCHANGED <<sysState, peakEquity, lockState, positions, broker,
                   decision, strategiesLeft, attempt>>

\* Mutant: one attempt too many.
AttemptsOffByOne ==
    /\ IF attempt > MaxRetries THEN pc' = "failed" /\ UNCHANGED attempt
                               ELSE attempt' = attempt + 1 /\ UNCHANGED pc
    /\ UNCHANGED <<sysState, peakEquity, lockState, budget, positions,
                   decision, strategiesLeft>>

\* Mutant: failed attempts are not counted.
AttemptsUncounted ==
    UNCHANGED <<sysState, peakEquity, lockState, budget, positions,
                decision, strategiesLeft, attempt, pc>>

\* The next attempt follows at once: the order book is not sniffed again.
AttemptFailed ==
    /\ IF attempt = MaxRetries THEN pc' = "failed" /\ UNCHANGED attempt
                               ELSE attempt' = attempt + 1 /\ UNCHANGED pc
    /\ UNCHANGED <<sysState, peakEquity, lockState, budget, positions,
                   decision, strategiesLeft>>

PlaceAccepted ==
    /\ pc = "place"
    /\ AcceptOrder(symbol, intent.side, size)
    /\ pc' = "placed"
    /\ UNCHANGED <<sysState, peakEquity, lockState, budget, positions,
                   decision, strategiesLeft, attempt>>

\* The broker took the order, the answer was lost: place_order raises.
PlaceResponseLost ==
    /\ "lost_response" \in Disturbances
    /\ pc = "place"
    /\ AcceptOrder(symbol, intent.side, size)
    /\ AttemptFailed

\* place_order raises, or answers without an order id, and nothing was placed.
PlaceRefused ==
    /\ pc = "place"
    /\ AttemptFailed
    /\ UNCHANGED broker

\* Mutant: an exit gives back what it is sold for.
EmitReleasesProceeds ==
    /\ pc = "placed"
    /\ IF IsExit THEN ReleaseDeployed(Cost) ELSE ConfirmReservation(resId)
    /\ pc' = "fill"
    /\ UNCHANGED <<sysState, peakEquity, lockState, positions, broker,
                   decision, strategiesLeft, attempt>>

\* Mutant: the local fill is skipped, as for an adopted order.
EmitWithoutFill ==
    /\ pc = "placed"
    /\ IF IsExit THEN ReleaseDeployed(ReleaseNotional(symbol, intent.side, size))
                 ELSE ConfirmReservation(resId)
    /\ pc' = "finally"
    /\ UNCHANGED <<sysState, peakEquity, lockState, positions, broker,
                   decision, strategiesLeft, attempt>>

\* _emit_success: the registry confirms the hold of an entry and takes back
\* the deployed capital of an exit.
EmitSuccess ==
    /\ pc = "placed"
    /\ IF IsExit THEN ReleaseDeployed(ReleaseNotional(symbol, intent.side, size))
                 ELSE ConfirmReservation(resId)
    /\ pc' = "fill"
    /\ UNCHANGED <<sysState, peakEquity, lockState, positions, broker,
                   decision, strategiesLeft, attempt>>

ApplyFill ==
    /\ pc = "fill"
    /\ ApplyOrderFill(symbol, intent.side, size, intent.price)
    /\ pc' = "finally"
    /\ UNCHANGED <<sysState, peakEquity, lockState, budget, broker,
                   decision, strategiesLeft, attempt>>

\* Mutant: ORDER_FAILED is not published when the symbol is locked out.
GiveUpSilently ==
    /\ pc = "failed"
    /\ LockCritical(symbol)
    /\ pc' = "finally"
    /\ UNCHANGED <<sysState, peakEquity, budget, positions, broker,
                   decision, strategiesLeft, attempt>>

\* Attempts exhausted: ORDER_FAILED returns the hold, the symbol is locked out.
GiveUp ==
    /\ pc = "failed"
    /\ ReleaseReservation(resId)
    /\ LockCritical(symbol)
    /\ pc' = "finally"
    /\ UNCHANGED <<sysState, peakEquity, positions, broker,
                   decision, strategiesLeft, attempt>>

ReleaseLock ==
    /\ pc = "finally"
    /\ ReleaseExecutionLock(symbol)
    /\ NextStrategy
    /\ UNCHANGED <<sysState, peakEquity, budget, positions, broker>>

WorkerStep ==
    \/ \E s \in Symbols : TakeCandle(s)
    \/ \E side \in Sides, p \in Prices : StrategySignals(side, p)
    \/ StrategySilent \/ CandleDone
    \/ RefuseIntent \/ ApproveExit \/ AdmitEntry
    \/ \E raw \in RawSizes : SizeEntry(raw)
    \/ PreCheck
    \/ \E r \in ReservationIds : ReserveForEntry(r)
    \/ ReserveFails
    \/ SniffAdopts \/ SniffFindsNothing \/ SniffRaises
    \/ PlaceAccepted \/ PlaceResponseLost \/ PlaceRefused
    \/ EmitSuccess \/ ApplyFill \/ GiveUp \/ ReleaseLock

-----------------------------------------------------------------------------
(* What the main loop and the broker do meanwhile *)

\* The kill switch, a lost token, a successful login or token check.
StateChanges(st) ==
    /\ sysState' = st
    /\ UNCHANGED <<peakEquity, lockState, budget, positions, broker, worker>>

\* The login callback copies the live balance into total_capital; the peak of
\* the governance guard stays.
BalanceFetched(c) ==
    /\ SeedCapital(c)
    /\ UNCHANGED <<sysState, peakEquity, lockState, positions, broker, worker>>

\* The dashboard's manual order; its READY check was made before the call to
\* the broker, so the order can arrive in any state.
ManualOrder(s, side, n) ==
    /\ "manual_order" \in Disturbances
    /\ AcceptOrder(s, side, n)
    /\ UNCHANGED <<sysState, peakEquity, lockState, budget, positions, worker>>

ExchangeStep ==
    /\ \E i \in DOMAIN orders :
          \/ FillOrder(i)
          \/ "exchange_reject" \in Disturbances /\ RejectOrder(i)
          \/ OrderAges(i)
    /\ UNCHANGED <<sysState, peakEquity, lockState, budget, positions, worker>>

EnvironmentStep ==
    \/ \E st \in SystemState : StateChanges(st)
    \/ \E c \in Capitals : BalanceFetched(c)
    \/ \E s \in Symbols, side \in Sides, n \in ManualSizes : ManualOrder(s, side, n)
    \/ ExchangeStep

Next == WorkerStep \/ EnvironmentStep

Spec == Init /\ [][Next]_vars

-----------------------------------------------------------------------------
(* Safety *)

Settled == pc \notin {"placed", "fill"}

\* The lock protocol of execute_decision (execution_engine.py:128-132) and of
\* the approval steps: a symbol is IN_EXECUTION exactly while its decision is
\* between acquiring the lock and the finally block, on every path through
\* adoption, success, exhaustion and exception, so no lock leaks.
LockMatchesFlight ==
    /\ \A s \in Symbols :
          lockState[s] = "IN_EXECUTION" => s = symbol /\ pc \in Flying
    /\ pc \in Flying \ {"finally"} => lockState[symbol] = "IN_EXECUTION"

\* No orphaned reservation (capital_registry.py:75): the only hold is that of
\* the entry in flight, for the very notional it was sized to, and it is gone
\* once ORDER_SUCCESS or ORDER_FAILED was published.
HoldMatchesFlight ==
    IF pc \in {"sniff", "place", "placed", "failed"} /\ ~IsExit
    THEN /\ DOMAIN reservations = {resId}
         /\ reservations[resId].amount = Cost
    ELSE DOMAIN reservations = {}

\* The worker never trades a symbol short and never adds to a position, though
\* several strategies share it: an entry that is about to be booked finds the
\* symbol flat and an exit about to be booked takes the whole position.
OneLongPerSymbol ==
    /\ \A s \in Symbols : OpenQtyLocal(s) >= 0
    /\ pc \in Flying \ {"finally"} =>
          OpenQtyLocal(symbol) = (IF IsExit THEN size ELSE 0)

\* What a decision still rests on when it is sized and reserved for: an entry's
\* symbol is flat although the check was made by the strategy, steps earlier,
\* an exit never reaches the sizing steps, and nothing of size zero is locked,
\* held or sent.
DecisionSound ==
    /\ pc \in {"size", "precheck", "reserve"} => ~IsExit
    /\ pc \in {"evaluate", "size", "precheck"} /\ ~IsExit => OpenQtyLocal(symbol) = 0
    /\ pc \notin {"idle", "candle"} => intent.price \in Nat \ {0}
    /\ pc \in {"precheck"} \cup Flying => size > 0

\* Positions once the fill that ORDER_SUCCESS announced is booked.
BookedPositions ==
    IF pc = "fill"
    THEN [positions EXCEPT ![symbol] = Filled(@, intent.side, size, intent.price)]
    ELSE positions

CostOf(pos) == pos.qty * pos.avg
DeployedCost == MapThenSumSet(LAMBDA s : CostOf(BookedPositions[s]), Symbols)

\* Used capital covers the cost of every local position, so the clamp at zero
\* in capital_registry.py:101 never hides an exit that returns more than was
\* deployed.
UsedCoversPositions == usedCapital >= DeployedCost

\* The pipeline never overdraws the budget, whatever it read before it
\* reserved; only a smaller fetched balance does.
NeverOverdrawn ==
    [][ (totalCapital' >= totalCapital /\ AvailableCapital >= 0)
        => AvailableCapital' >= 0 ]_vars

\* With none of the disturbances, a local position equals the broker's once the
\* worker has booked it and the exchange has filled every order of the symbol.
InSyncAtRest ==
    \A s \in Symbols : (Settled \/ s # symbol) /\ NoneOpen(s)
                        => OpenQtyLocal(s) = brokerQty[s]

\* "Exit orders must always be allowed to de-risk if we have an open position"
\* (risk_engine.py:36): while the system is READY no exit of one is refused.
ExitAlwaysAllowed ==
    [][ RefuseIntent /\ IsExit /\ OpenQtyLocal(symbol) > 0 => sysState # "READY" ]_vars

\* A symbol that exhausted its attempts is never traded by the worker again
\* (symbol_lock.py:14, nothing unlocks it).
CriticalIsFinal ==
    [][ \A s \in Symbols : lockState[s] = "CRITICAL_LOCKED"
           => /\ lockState'[s] = "CRITICAL_LOCKED"
              /\ positions'[s] = positions[s] ]_vars

\* The pipeline implements the escrow of one order at a time.
Escrow == INSTANCE OrderEscrow WITH
    Balances <- Capitals, gate <- lockState, total <- totalCapital,
    held <- Reserved, deployed <- usedCapital

ImplementsEscrow == Escrow!Spec

(* Liveness *)

\* An approved decision always ends and gives its symbol back or locks it out,
\* whatever the broker answers.
DecisionEnds == (pc \in Flying) ~> (pc \notin Flying)

\* Capital withheld for an order is always settled without the sweeper.
HoldSettles == (DOMAIN reservations # {}) ~> (DOMAIN reservations = {})
=============================================================================
