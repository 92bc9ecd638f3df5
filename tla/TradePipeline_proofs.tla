------------------------- MODULE TradePipeline_proofs -------------------------
(***************************************************************************)
(* Proofs about TradePipeline, for every value of its constants.           *)
(***************************************************************************)
EXTENDS MCTradePipeline, CapitalRegistry_proofs

\* The inductive invariant: the lock and the hold alone are not inductive,
\* they need to know that an entry in preparation still finds its symbol flat.
IInv ==
    /\ TypeOK
    /\ LockMatchesFlight
    /\ HoldMatchesFlight
    /\ OneLongPerSymbol
    /\ DecisionSound

\* A fill booked on a flat position opens it at the fill price.
LEMMA FilledFromFlat ==
    ASSUME NEW pos \in Position, pos.qty = 0, NEW n \in Nat, n > 0, NEW price \in Nat
    PROVE  Filled(pos, "BUY", n, price) = [qty |-> n, avg |-> price]
<1>1. Signed("BUY", n) = n /\ pos.qty + Signed("BUY", n) = n
  BY DEF Signed
<1>2. pos.qty * n = 0
  BY <1>1
<1> QED
  BY <1>1, <1>2 DEF Filled

\* A sell of the whole quantity leaves nothing.
LEMMA FilledWhole ==
    ASSUME NEW pos \in Position, NEW n \in Nat, n > 0, pos.qty = n, NEW price \in Nat
    PROVE  Filled(pos, "SELL", n, price) = Flat
<1>1. pos.qty + Signed("SELL", n) = 0
  BY DEF Signed, Position
<1> QED
  BY <1>1 DEF Filled

LEMMA InitInvariant == Init => IInv
<1> SUFFICES ASSUME Init PROVE IInv
  OBVIOUS
<1>1. TypeOK
  BY PipelineAssumption, CapitalAssumption
  DEF Init, TypeOK, LockInit, BudgetInit, MtmInit, LockTypeOK, CapitalTypeOK, MtmTypeOK,
      SymbolState, Position, Flat, SystemState, PCs, Intent, NoIntent, Sides
<1>2. LockMatchesFlight
  BY DEF Init, LockInit, LockMatchesFlight, Flying
<1>3. HoldMatchesFlight
  BY DEF Init, BudgetInit, HoldMatchesFlight
<1>4. OneLongPerSymbol
  BY DEF Init, MtmInit, Flat, OneLongPerSymbol, OpenQtyLocal, Flying
<1>5. DecisionSound
  BY DEF Init, DecisionSound, Flying
<1> QED
  BY <1>1, <1>2, <1>3, <1>4, <1>5 DEF IInv
\* Every step of the strategy worker preserves the invariant.
LEMMA WorkerStepInvariant == ASSUME IInv, WorkerStep PROVE IInv'
<1> USE PipelineAssumption
    DEF IInv, TypeOK, LockTypeOK, CapitalTypeOK, MtmTypeOK, LockMatchesFlight,
        HoldMatchesFlight, OneLongPerSymbol, DecisionSound, budget, broker, decision,
        Flying, PCs, OpenQtyLocal, IsExit, Cost, Intent, NoIntent, Position, Sides,
        SymbolState
<1>1. CASE \E s \in Symbols : TakeCandle(s)
  BY <1>1 DEF TakeCandle
<1>2. CASE \E side \in Sides, p \in Prices : StrategySignals(side, p)
  BY <1>2 DEF StrategySignals
<1>3. CASE StrategySilent \/ CandleDone
  BY <1>3 DEF StrategySilent, CandleDone
<1>4. CASE RefuseIntent
  BY <1>4 DEF RefuseIntent, NextStrategy
<1>5. CASE ApproveExit
  BY <1>5 DEF ApproveExit, Admitted, AcquireExecutionLock
<1>6. CASE AdmitEntry
  BY <1>6 DEF AdmitEntry
<1>7. CASE \E raw \in RawSizes : SizeEntry(raw)
  <2> PICK raw \in RawSizes : SizeEntry(raw)
    BY <1>7
  <2>1. peakEquity' \in Nat
    BY CapitalAssumption DEF SizeEntry, Equity, RealtimePnl
  <2>2. CASE ~(MaxAllowedSize(raw) <= 0) /\ ~NextStrategy
    <3>1. MaxAllowedSize(raw) \in Int
      BY CapitalAssumption
      DEF SizeEntry, MaxAllowedSize, Least, Equity, RealtimePnl, MaxStrategyConcentration
    <3> QED
      BY <2>1, <2>2, <3>1 DEF SizeEntry, NextStrategy
  <2>3. CASE NextStrategy
    BY <2>1, <2>3 DEF SizeEntry, NextStrategy
  <2> QED
    BY <2>2, <2>3 DEF SizeEntry
<1>8. CASE PreCheck
  <2>1. CASE NextStrategy /\ UNCHANGED lockState
    BY <1>8, <2>1 DEF PreCheck, NextStrategy
  <2>2. CASE AcquireExecutionLock(symbol) /\ pc' = "reserve" /\ UNCHANGED decision
    BY <1>8, <2>2 DEF PreCheck, AcquireExecutionLock
  <2> QED
    BY <1>8, <2>1, <2>2 DEF PreCheck
<1>9. CASE \E r \in ReservationIds : ReserveForEntry(r)
  BY <1>9 DEF ReserveForEntry, ReserveCapital, Reservation
<1>10. CASE ReserveFails
  BY <1>10 DEF ReserveFails, ReleaseExecutionLock, NextStrategy
<1>11. CASE SniffAdopts
  BY <1>11 DEF SniffAdopts, ConfirmReservation, Forget, Restrict, ReleaseExecutionLock,
               NextStrategy, Reservation
<1>12. CASE SniffFindsNothing
  BY <1>12 DEF SniffFindsNothing
<1>13. CASE SniffRaises
  BY <1>13 DEF SniffRaises, ReleaseReservation, Forget, Restrict
<1>14. CASE PlaceAccepted
  BY <1>14 DEF PlaceAccepted
<1>15. CASE PlaceResponseLost \/ PlaceRefused
  <2>1. /\ pc = "place" /\ AttemptFailed
    BY <1>15 DEF PlaceResponseLost, PlaceRefused
  <2>2. CASE attempt = MaxRetries
    BY <2>1, <2>2 DEF AttemptFailed
  <2>3. CASE attempt # MaxRetries
    <3>1. attempt' \in 0..MaxRetries
      BY <2>1, <2>3 DEF AttemptFailed
    <3> QED
      BY <2>1, <2>3, <3>1 DEF AttemptFailed
  <2> QED
    BY <2>2, <2>3
<1>16. CASE EmitSuccess
  <2>1. CASE IsExit
    <3>1. ReleaseNotional(symbol, intent.side, size) \in Int
      BY DEF ReleaseNotional, Least
    <3> QED
      BY <1>16, <2>1, <3>1 DEF EmitSuccess, ReleaseDeployed
  <2>2. CASE ~IsExit
    <3>1. DOMAIN reservations = {resId} /\ reservations[resId].amount \in Nat
      BY <1>16, <2>2 DEF EmitSuccess, Reservation
    <3>2. ConfirmReservation(resId)
      BY <1>16, <2>2 DEF EmitSuccess
    <3>3. DOMAIN reservations' = {}
      BY <3>1, <3>2 DEF ConfirmReservation, Forget, Restrict
    <3>4. usedCapital' \in Nat /\ totalCapital' = totalCapital
      BY <3>1, <3>2 DEF ConfirmReservation
    <3> QED
      BY <1>16, <2>2, <3>3, <3>4 DEF EmitSuccess
  <2> QED
    BY <2>1, <2>2
<1>17. CASE ApplyFill
  <2>1. positions[symbol] \in Position /\ size \in Nat /\ size > 0 /\ intent.price \in Nat
    BY <1>17 DEF ApplyFill
  <2>2. Filled(positions[symbol], intent.side, size, intent.price)
          = IF IsExit THEN Flat ELSE [qty |-> size, avg |-> intent.price]
    <3>1. CASE IsExit
      BY <1>17, <2>1, <3>1, FilledWhole DEF ApplyFill
    <3>2. CASE ~IsExit
      BY <1>17, <2>1, <3>2, FilledFromFlat DEF ApplyFill
    <3> QED
      BY <3>1, <3>2
  <2> QED
    BY <1>17, <2>1, <2>2 DEF ApplyFill, ApplyOrderFill, Flat
<1>18. CASE GiveUp
  BY <1>18 DEF GiveUp, ReleaseReservation, Forget, Restrict, LockCritical
<1>19. CASE ReleaseLock
  BY <1>19 DEF ReleaseLock, ReleaseExecutionLock, NextStrategy
<1> QED
  BY <1>1, <1>2, <1>3, <1>4, <1>5, <1>6, <1>7, <1>8, <1>9, <1>10, <1>11, <1>12, <1>13,
     <1>14, <1>15, <1>16, <1>17, <1>18, <1>19
  DEF WorkerStep

\* The environment changes what the invariant does not rest on.
LEMMA EnvironmentStepInvariant == ASSUME IInv, EnvironmentStep PROVE IInv'
<1>1. /\ UNCHANGED <<peakEquity, lockState, usedCapital, reservations, positions, worker>>
      /\ sysState' \in SystemState
      /\ totalCapital' \in Capitals
  BY DEF IInv, TypeOK, CapitalTypeOK, EnvironmentStep, StateChanges, BalanceFetched,
         SeedCapital, ManualOrder, ExchangeStep, budget
<1>2. TypeOK'
  BY <1>1 DEF IInv, TypeOK, LockTypeOK, CapitalTypeOK, MtmTypeOK, worker, decision
<1>3. LockMatchesFlight' /\ HoldMatchesFlight' /\ OneLongPerSymbol' /\ DecisionSound'
  BY <1>1 DEF IInv, LockMatchesFlight, HoldMatchesFlight, OneLongPerSymbol, DecisionSound,
              worker, decision, IsExit, Cost, OpenQtyLocal
<1> QED
  BY <1>2, <1>3 DEF IInv

LEMMA StutterInvariant == ASSUME IInv, UNCHANGED vars PROVE IInv'
BY DEF IInv, TypeOK, LockTypeOK, CapitalTypeOK, MtmTypeOK, LockMatchesFlight,
       HoldMatchesFlight, OneLongPerSymbol, DecisionSound, vars, budget, worker, decision,
       IsExit, Cost, OpenQtyLocal

LEMMA NextInvariant == IInv /\ [Next]_vars => IInv'
BY WorkerStepInvariant, EnvironmentStepInvariant, StutterInvariant DEF Next

\* The inductive invariant holds in every reachable state, whatever the
\* broker, the operator and the other threads do in between.
THEOREM Invariance == Spec => []IInv
<1>1. Init => IInv
  BY InitInvariant
<1>2. IInv /\ [Next]_vars => IInv'
  BY NextInvariant
<1> QED
  BY <1>1, <1>2, PTL DEF Spec

\* Every variable keeps its type.
THEOREM TypeCorrect == Spec => []TypeOK
<1>1. IInv => TypeOK
  BY DEF IInv
<1> QED
  BY <1>1, Invariance, PTL

\* No path through a decision leaks its symbol's lock (execution_engine.py:128-132).
THEOREM NoLockLeaks == Spec => []LockMatchesFlight
<1>1. IInv => LockMatchesFlight
  BY DEF IInv
<1> QED
  BY <1>1, Invariance, PTL

\* No path through a decision orphans its capital hold (capital_registry.py:75).
THEOREM NoHoldOrphaned == Spec => []HoldMatchesFlight
<1>1. IInv => HoldMatchesFlight
  BY DEF IInv
<1> QED
  BY <1>1, Invariance, PTL

\* However many strategies share a symbol, no fill adds to a position, takes
\* only a part of it or turns it short.
THEOREM LongOrFlat == Spec => []OneLongPerSymbol
<1>1. IInv => OneLongPerSymbol
  BY DEF IInv
<1> QED
  BY <1>1, Invariance, PTL

\* What was checked of a decision steps before still holds when it is sized, locked
\* and sent: its symbol is flat, its size positive (governance_guard.py:91).
THEOREM DecisionsStaySound == Spec => []DecisionSound
<1>1. IInv => DecisionSound
  BY DEF IInv
<1> QED
  BY <1>1, Invariance, PTL

\* A symbol that was locked out stays locked out, and its local position is
\* never booked again.
THEOREM LockoutIsFinal == Spec => CriticalIsFinal
<1>1. ASSUME IInv, [Next]_vars, NEW s \in Symbols, lockState[s] = "CRITICAL_LOCKED"
      PROVE  lockState'[s] = "CRITICAL_LOCKED" /\ positions'[s] = positions[s]
  <2> USE <1>1 DEF IInv, TypeOK, LockTypeOK, MtmTypeOK
  <2>1. CASE WorkerStep
    <3>1. CASE ApproveExit \/ PreCheck
      BY <3>1 DEF ApproveExit, PreCheck, AcquireExecutionLock
    <3>2. CASE ReserveFails \/ SniffAdopts \/ ReleaseLock
      BY <3>2 DEF ReserveFails, SniffAdopts, ReleaseLock, ReleaseExecutionLock
    <3>3. CASE GiveUp
      BY <3>3 DEF GiveUp, LockCritical
    <3>4. CASE ApplyFill
      BY <3>4 DEF ApplyFill, ApplyOrderFill, LockMatchesFlight, Flying
    <3>5. CASE UNCHANGED <<lockState, positions>>
      BY <3>5
    <3> QED
      BY <2>1, <3>1, <3>2, <3>3, <3>4, <3>5
      DEF WorkerStep, TakeCandle, StrategySignals, StrategySilent, CandleDone, RefuseIntent,
          AdmitEntry, SizeEntry, ReserveForEntry, SniffFindsNothing, SniffRaises,
          PlaceAccepted, PlaceResponseLost, PlaceRefused, AttemptFailed, EmitSuccess
  <2>2. CASE EnvironmentStep
    BY <2>2 DEF EnvironmentStep, StateChanges, BalanceFetched, ManualOrder, ExchangeStep
  <2>3. CASE UNCHANGED vars
    BY <2>3 DEF vars
  <2> QED
    BY <2>1, <2>2, <2>3 DEF Next
<1>2. IInv /\ [Next]_vars
      => [\A s \in Symbols : lockState[s] = "CRITICAL_LOCKED"
             => /\ lockState'[s] = "CRITICAL_LOCKED"
                /\ positions'[s] = positions[s]]_vars
  BY <1>1
<1> QED
  BY <1>2, Invariance, PTL DEF Spec, CriticalIsFinal

-----------------------------------------------------------------------------
(* The budget.  With at most one hold, the sum of the reservations is the   *)
(* cost of the entry in flight.                                             *)

Holding == pc \in {"sniff", "place", "placed", "failed"} /\ ~IsExit
HoldAmount == IF Holding THEN Cost ELSE 0

LEMMA ReservedIsHold == IInv => Reserved = HoldAmount
<1> SUFFICES ASSUME IInv PROVE Reserved = HoldAmount
  OBVIOUS
<1>1. CASE Holding
  <2>1. DOMAIN reservations = {resId} /\ reservations[resId].amount = Cost
    BY <1>1 DEF IInv, HoldMatchesFlight, Holding
  <2>2. reservations[resId].amount \in Int
    BY <2>1 DEF IInv, TypeOK, CapitalTypeOK, Reservation
  <2> QED
    BY <1>1, <2>1, <2>2, ReservedOne DEF HoldAmount
<1>2. CASE ~Holding
  BY <1>2, ReservedNone DEF IInv, HoldMatchesFlight, Holding, HoldAmount
<1> QED
  BY <1>1, <1>2

\* What an exit gives back is never negative.
LEMMA ReleaseNotionalNat ==
    IInv => ReleaseNotional(symbol, intent.side, size) \in Nat
<1> SUFFICES ASSUME IInv PROVE ReleaseNotional(symbol, intent.side, size) \in Nat
  OBVIOUS
<1>1. positions[symbol].qty \in Int /\ positions[symbol].avg \in Nat /\ size \in Nat
  BY DEF IInv, TypeOK, MtmTypeOK, Position
<1>2. \A a, b \in Nat : a * b \in Nat
  OBVIOUS
<1>3. positions[symbol].qty > 0 => Least(positions[symbol].qty, size) \in Nat
  BY <1>1 DEF Least
<1> QED
  BY <1>1, <1>2, <1>3 DEF ReleaseNotional

LEMMA CostNat == IInv => Cost \in Nat
<1> SUFFICES ASSUME IInv PROVE Cost \in Nat
  OBVIOUS
<1>1. intent.price \in Nat /\ size \in Nat
  BY DEF IInv, TypeOK, Intent
<1> QED
  BY <1>1 DEF Cost

\* How a step moves the budget and the gate: everything the two theorems below
\* need to know of the pipeline.
BudgetStep ==
    \/ UNCHANGED <<lockState, totalCapital, usedCapital, HoldAmount>>
    \/ /\ UNCHANGED <<lockState, usedCapital, HoldAmount>>
       /\ totalCapital' \in Capitals
    \/ /\ AcquireExecutionLock(symbol) /\ pc \notin Flying
       /\ UNCHANGED <<totalCapital, usedCapital, HoldAmount>>
    \/ /\ lockState[symbol] = "IN_EXECUTION"
       /\ HoldAmount = 0 /\ HoldAmount' = Cost
       /\ totalCapital - usedCapital >= Cost
       /\ UNCHANGED <<lockState, totalCapital, usedCapital>>
    \/ /\ lockState[symbol] = "IN_EXECUTION"
       /\ usedCapital' = usedCapital + HoldAmount /\ HoldAmount' = 0
       /\ (UNCHANGED lockState \/ ReleaseExecutionLock(symbol))
       /\ UNCHANGED totalCapital
    \/ /\ lockState[symbol] = "IN_EXECUTION"
       /\ HoldAmount' = 0
       /\ (UNCHANGED lockState \/ LockCritical(symbol))
       /\ UNCHANGED <<totalCapital, usedCapital>>
    \/ /\ lockState[symbol] = "IN_EXECUTION"
       /\ HoldAmount = 0 /\ HoldAmount' = 0
       /\ \E a \in 0..usedCapital : usedCapital' = usedCapital - a
       /\ UNCHANGED <<lockState, totalCapital>>
    \/ /\ HoldAmount = 0 /\ HoldAmount' = 0
       /\ ReleaseExecutionLock(symbol)
       /\ UNCHANGED <<totalCapital, usedCapital>>

LEMMA StepMovesBudget == ASSUME IInv, [Next]_vars PROVE BudgetStep
<1> USE DEF HoldAmount, Holding, Cost, IsExit, budget, decision
<1>1. CASE WorkerStep
  <2>1. pc \in Flying \ {"finally"} => lockState[symbol] = "IN_EXECUTION"
    BY DEF IInv, LockMatchesFlight
  <2>2. usedCapital \in Nat /\ totalCapital \in Int
    BY CapitalAssumption DEF IInv, TypeOK, CapitalTypeOK
  <2>3. CASE \/ \E s \in Symbols : TakeCandle(s)
             \/ \E side \in Sides, p \in Prices : StrategySignals(side, p)
             \/ StrategySilent \/ CandleDone \/ RefuseIntent \/ AdmitEntry
             \/ \E raw \in RawSizes : SizeEntry(raw)
    BY <2>3 DEF BudgetStep, TakeCandle, StrategySignals, StrategySilent, CandleDone,
                RefuseIntent, AdmitEntry, SizeEntry, NextStrategy
  <2>4. CASE ApproveExit
    BY <2>4 DEF BudgetStep, ApproveExit, Flying
  <2>5. CASE PreCheck
    BY <2>5 DEF BudgetStep, PreCheck, NextStrategy, Flying
  <2>6. CASE \E r \in ReservationIds : ReserveForEntry(r)
    <3>1. Reserved = 0 /\ ~IsExit
      BY <2>6, ReservedIsHold DEF ReserveForEntry, IInv, DecisionSound
    <3>2. totalCapital - usedCapital >= Cost
      BY <2>2, <2>6, <3>1 DEF ReserveForEntry, ReserveCapital, AvailableCapital
    <3> QED
      BY <2>1, <2>6, <3>1, <3>2 DEF BudgetStep, ReserveForEntry, ReserveCapital, Flying
  <2>7. CASE ReserveFails
    BY <2>7 DEF BudgetStep, ReserveFails, NextStrategy
  <2>8. ASSUME ConfirmReservation(resId), pc \in {"sniff", "placed"},
               pc = "placed" => ~IsExit
        PROVE  usedCapital' = usedCapital + HoldAmount
    <3>1. CASE ~IsExit
      BY <2>8, <3>1 DEF ConfirmReservation, IInv, HoldMatchesFlight
    <3>2. CASE IsExit
      BY <2>2, <2>8, <3>2 DEF ConfirmReservation, IInv, HoldMatchesFlight
    <3> QED
      BY <3>1, <3>2
  <2>9. CASE SniffAdopts
    BY <2>1, <2>8, <2>9 DEF BudgetStep, SniffAdopts, ConfirmReservation, NextStrategy, Flying
  <2>10. CASE SniffFindsNothing \/ PlaceAccepted \/ PlaceResponseLost \/ PlaceRefused
    BY <2>10 DEF BudgetStep, SniffFindsNothing, PlaceAccepted, PlaceResponseLost,
                 PlaceRefused, AttemptFailed
  <2>11. CASE SniffRaises
    BY <2>1, <2>11 DEF BudgetStep, SniffRaises, ReleaseReservation, Flying
  <2>12. CASE EmitSuccess
    <3>1. CASE IsExit
      <4> DEFINE a == ReleaseNotional(symbol, intent.side, size)
                 b == IF usedCapital >= a THEN a ELSE usedCapital
      <4>1. a \in Nat
        BY ReleaseNotionalNat
      <4>2. b \in 0..usedCapital /\ usedCapital' = usedCapital - b
        BY <2>2, <2>12, <3>1, <4>1 DEF EmitSuccess, ReleaseDeployed
      <4> QED
        BY <2>1, <2>12, <3>1, <4>2 DEF BudgetStep, EmitSuccess, ReleaseDeployed, Flying
    <3>2. CASE ~IsExit
      BY <2>1, <2>8, <2>12, <3>2 DEF BudgetStep, EmitSuccess, ConfirmReservation, Flying
    <3> QED
      BY <3>1, <3>2
  <2>13. CASE ApplyFill
    BY <2>13 DEF BudgetStep, ApplyFill
  <2>14. CASE GiveUp
    BY <2>1, <2>14 DEF BudgetStep, GiveUp, ReleaseReservation, Flying
  <2>15. CASE ReleaseLock
    BY <2>15 DEF BudgetStep, ReleaseLock, NextStrategy
  <2> QED
    BY <1>1, <2>3, <2>4, <2>5, <2>6, <2>7, <2>9, <2>10, <2>11, <2>12, <2>13, <2>14, <2>15
    DEF WorkerStep
<1>2. CASE EnvironmentStep
  BY <1>2 DEF EnvironmentStep, StateChanges, BalanceFetched, SeedCapital, ManualOrder,
              ExchangeStep, worker, BudgetStep
<1>3. CASE UNCHANGED vars
  BY <1>3 DEF vars, worker, BudgetStep
<1> QED
  BY <1>1, <1>2, <1>3 DEF Next

LEMMA BudgetTypes ==
    IInv => /\ totalCapital \in Nat /\ usedCapital \in Nat /\ HoldAmount \in Nat
            /\ Reserved = HoldAmount
<1> SUFFICES ASSUME IInv
             PROVE  /\ totalCapital \in Nat /\ usedCapital \in Nat /\ HoldAmount \in Nat
                    /\ Reserved = HoldAmount
  OBVIOUS
<1>1. totalCapital \in Nat /\ usedCapital \in Nat
  BY CapitalAssumption DEF IInv, TypeOK, CapitalTypeOK
<1> QED
  BY <1>1, CostNat, ReservedIsHold DEF HoldAmount

\* Whatever the risk engine read before it reserved, and whoever halts the
\* system or trades by hand meanwhile, only a smaller balance overdraws.
THEOREM BudgetSafe == Spec => NeverOverdrawn
<1>1. IInv /\ IInv' /\ [Next]_vars
      => [ (totalCapital' >= totalCapital /\ AvailableCapital >= 0)
           => AvailableCapital' >= 0 ]_vars
  <2> SUFFICES ASSUME IInv, IInv', [Next]_vars,
                      totalCapital' >= totalCapital, AvailableCapital >= 0
               PROVE  AvailableCapital' >= 0
    OBVIOUS
  <2>1. /\ totalCapital \in Nat /\ usedCapital \in Nat /\ HoldAmount \in Nat
        /\ Reserved = HoldAmount /\ Cost \in Nat
    BY BudgetTypes, CostNat
  <2>2. (IInv => /\ totalCapital \in Nat /\ usedCapital \in Nat /\ HoldAmount \in Nat
                 /\ Reserved = HoldAmount)'
    BY BudgetTypes, PTL
  <2>3. /\ totalCapital' \in Nat /\ usedCapital' \in Nat /\ HoldAmount' \in Nat
        /\ Reserved' = HoldAmount'
    BY <2>2
  <2>4. totalCapital - usedCapital - HoldAmount >= 0 /\ totalCapital' >= totalCapital
    BY <2>1 DEF AvailableCapital
  <2>5. CASE usedCapital' + HoldAmount' <= usedCapital + HoldAmount
    <3>1. \A t, u, h, t2, u2, h2 \in Nat :
             t - u - h >= 0 /\ t2 >= t /\ u2 + h2 <= u + h => t2 - u2 - h2 >= 0
      OBVIOUS
    <3>2. totalCapital' - usedCapital' - HoldAmount' >= 0
      BY ONLY <2>1, <2>3, <2>4, <2>5, <3>1
    <3> QED
      BY <2>3, <3>2 DEF AvailableCapital
  <2>6. CASE /\ HoldAmount' = Cost /\ totalCapital - usedCapital >= Cost
             /\ UNCHANGED <<totalCapital, usedCapital>>
    BY <2>1, <2>3, <2>6 DEF AvailableCapital
  <2>7. \A u, h, u2, h2 \in Nat :
           \/ u2 = u /\ h2 = h
           \/ u2 = u + h /\ h2 = 0
           \/ u2 = u /\ h2 = 0
           \/ (\E a \in 0..u : u2 = u - a) /\ h2 = 0
           => u2 + h2 <= u + h
    OBVIOUS
  <2>8. \/ usedCapital' = usedCapital /\ HoldAmount' = HoldAmount
        \/ usedCapital' = usedCapital + HoldAmount /\ HoldAmount' = 0
        \/ usedCapital' = usedCapital /\ HoldAmount' = 0
        \/ (\E a \in 0..usedCapital : usedCapital' = usedCapital - a) /\ HoldAmount' = 0
        \/ /\ HoldAmount' = Cost /\ totalCapital - usedCapital >= Cost
           /\ UNCHANGED <<totalCapital, usedCapital>>
    <3>1. BudgetStep
      BY StepMovesBudget
    <3> QED
      BY <3>1 DEF BudgetStep
  <2> QED
    BY ONLY <2>1, <2>3, <2>5, <2>6, <2>7, <2>8
<1> QED
  BY <1>1, Invariance, PTL DEF Spec, NeverOverdrawn

LEMMA EscrowInit == Init => Escrow!Init
<1> SUFFICES ASSUME Init PROVE Escrow!Init
  OBVIOUS
<1>1. Reserved = 0
  BY ReservedNone DEF Init, BudgetInit
<1> QED
  BY <1>1 DEF Init, LockInit, BudgetInit, Escrow!Init

LEMMA EscrowStep ==
    ASSUME IInv, IInv', [Next]_vars PROVE [Escrow!Next]_Escrow!escrowVars
<1>1. /\ totalCapital \in Nat /\ usedCapital \in Nat /\ HoldAmount \in Nat
      /\ Reserved = HoldAmount /\ Cost \in Nat
  BY BudgetTypes, CostNat
<1>2. (IInv => /\ totalCapital \in Nat /\ usedCapital \in Nat /\ HoldAmount \in Nat
               /\ Reserved = HoldAmount)'
  BY BudgetTypes, PTL
<1>3. Reserved' = HoldAmount'
  BY <1>2
<1>4. symbol \in Symbols /\ lockState \in [Symbols -> SymbolState]
  BY DEF IInv, TypeOK, LockTypeOK
<1>5. \A t \in Symbols : lockState[t] = "IN_EXECUTION" => t = symbol /\ pc \in Flying
  BY DEF IInv, LockMatchesFlight
<1> HIDE DEF IInv, HoldAmount
<1> USE <1>1, <1>3, <1>4 DEF Escrow!Inside, Escrow!escrowVars
<1>6. BudgetStep
  BY StepMovesBudget
<1>7. CASE UNCHANGED <<lockState, totalCapital, usedCapital, HoldAmount>>
  BY <1>7
<1>8. CASE UNCHANGED <<lockState, usedCapital, HoldAmount>> /\ totalCapital' \in Capitals
  BY <1>8 DEF Escrow!Next, Escrow!Rebalance
<1>9. CASE /\ AcquireExecutionLock(symbol) /\ pc \notin Flying
           /\ UNCHANGED <<totalCapital, usedCapital, HoldAmount>>
  <2>1. Escrow!Enter(symbol)
    BY <1>5, <1>9 DEF AcquireExecutionLock, Escrow!Enter
  <2> QED
    BY <2>1 DEF Escrow!Next
<1>10. CASE /\ lockState[symbol] = "IN_EXECUTION"
            /\ HoldAmount = 0 /\ HoldAmount' = Cost
            /\ totalCapital - usedCapital >= Cost
            /\ UNCHANGED <<lockState, totalCapital, usedCapital>>
  <2>1. Escrow!Hold(symbol, Cost) /\ Cost \in 0..totalCapital
    BY <1>10 DEF Escrow!Hold
  <2> QED
    BY <2>1 DEF Escrow!Next
<1>11. CASE /\ lockState[symbol] = "IN_EXECUTION"
            /\ usedCapital' = usedCapital + HoldAmount /\ HoldAmount' = 0
            /\ (UNCHANGED lockState \/ ReleaseExecutionLock(symbol))
            /\ UNCHANGED totalCapital
  <2>1. Escrow!Deploy(symbol) \/ Escrow!DeployAndLeave(symbol)
    BY <1>11 DEF ReleaseExecutionLock, Escrow!Deploy, Escrow!DeployAndLeave
  <2> QED
    BY <2>1 DEF Escrow!Next
<1>12. CASE /\ lockState[symbol] = "IN_EXECUTION"
            /\ HoldAmount' = 0
            /\ (UNCHANGED lockState \/ LockCritical(symbol))
            /\ UNCHANGED <<totalCapital, usedCapital>>
  <2>1. Escrow!GiveBack(symbol) \/ Escrow!Bar(symbol)
    BY <1>12 DEF LockCritical, Escrow!GiveBack, Escrow!Bar
  <2> QED
    BY <2>1 DEF Escrow!Next
<1>13. CASE /\ lockState[symbol] = "IN_EXECUTION"
            /\ HoldAmount = 0 /\ HoldAmount' = 0
            /\ \E a \in 0..usedCapital : usedCapital' = usedCapital - a
            /\ UNCHANGED <<lockState, totalCapital>>
  <2>1. PICK a \in 0..usedCapital : usedCapital' = usedCapital - a
    BY <1>13
  <2>2. Escrow!Recover(symbol, a)
    BY <1>13, <2>1 DEF Escrow!Recover
  <2> QED
    BY <2>2 DEF Escrow!Next
<1>14. CASE /\ HoldAmount = 0 /\ HoldAmount' = 0
            /\ ReleaseExecutionLock(symbol)
            /\ UNCHANGED <<totalCapital, usedCapital>>
  <2>1. CASE lockState[symbol] = "IN_EXECUTION"
    <3>1. Escrow!Leave(symbol)
      BY <1>14, <2>1 DEF ReleaseExecutionLock, Escrow!Leave
    <3> QED
      BY <3>1 DEF Escrow!Next
  <2>2. CASE lockState[symbol] # "IN_EXECUTION"
    BY <1>14, <2>2 DEF ReleaseExecutionLock
  <2> QED
    BY <2>1, <2>2
<1> QED
  BY <1>6, <1>7, <1>8, <1>9, <1>10, <1>11, <1>12, <1>13, <1>14 DEF BudgetStep

\* The pipeline, with its retries, adoptions, lockouts and exceptions, is an
\* escrow of one order at a time.
THEOREM Implementation == Spec => ImplementsEscrow
<1>1. Init => Escrow!Init
  BY EscrowInit
<1>2. IInv /\ IInv' /\ [Next]_vars => [Escrow!Next]_Escrow!escrowVars
  BY EscrowStep
<1> QED
  BY <1>1, <1>2, Invariance, PTL DEF Spec, ImplementsEscrow, Escrow!Spec
-----------------------------------------------------------------------------
(* Deployed capital.  Used capital covers the cost of the booked positions *)
(* because only the fill of an entry deploys, the very cost it opens, and  *)
(* only an exit of a whole position takes deployed capital back.           *)

DeployedIn(pos) == MapThenSumSet(LAMBDA s : CostOf(pos[s]), Symbols)
CostsOf(pos) == [s \in Symbols |-> CostOf(pos[s])]

\* The recursive function that DeployedIn unfolds to.
AddsCosts(pos, g) ==
    g = [t \in SUBSET Symbols |->
            IF t = {} THEN 0
            ELSE LET x == CHOOSE x \in t : TRUE IN CostOf(pos[x]) + g[t \ {x}]]

LEMMA DeployedSum ==
    ASSUME NEW pos
    PROVE  DeployedIn(pos) = SumOf(CostsOf(pos), Symbols)
<1> DEFINE f == CostsOf(pos)
           iter == CHOOSE g : AddsCosts(pos, g)
<1>1. \A g : AddsCosts(pos, g) <=> Adds(f, Symbols, g)
  <2> TAKE g
  <2>1. \A t \in SUBSET Symbols : t # {} => f[Chosen(t)] = CostOf(pos[Chosen(t)])
    BY ChosenFacts DEF CostsOf
  <2> HIDE DEF f
  <2> QED
    BY <2>1 DEF Adds, AddsCosts, Chosen
<1> HIDE DEF f
<1>2. IsFiniteSet(Symbols)
  BY SymbolsAssumption
<1>3. \E g : AddsCosts(pos, g)
  BY <1>1, <1>2, AddsExists
<1>4. AddsCosts(pos, iter)
  BY <1>3, Zenon
<1>5. DeployedIn(pos) = iter[Symbols]
  BY DEF DeployedIn, MapThenSumSet, MapThenFoldSet, AddsCosts
<1> HIDE DEF iter
<1>6. Adds(f, Symbols, iter)
  BY <1>1, <1>4
<1>7. iter[Symbols] = SumOf(f, Symbols)
  BY <1>2, <1>6, SumOfAny
<1> QED
  BY <1>5, <1>7 DEF f

\* Positions whose costs add up to something the registry can hold.
Costed(pos) == \A s \in Symbols : CostOf(pos[s]) \in Nat

\* Booking one symbol moves the deployed cost by that symbol's difference.
LEMMA DeployedChange ==
    ASSUME NEW pos, Costed(pos), NEW new, NEW s \in Symbols,
           CostOf(new[s]) \in Nat, \A t \in Symbols \ {s} : new[t] = pos[t]
    PROVE  DeployedIn(new) = DeployedIn(pos) - CostOf(pos[s]) + CostOf(new[s])
<1> DEFINE f == CostsOf(pos)
           g == CostsOf(new)
<1>1. \A t \in Symbols : f[t] = CostOf(pos[t]) /\ g[t] = CostOf(new[t])
  BY DEF CostsOf
<1>2. DeployedIn(pos) = SumOf(f, Symbols) /\ DeployedIn(new) = SumOf(g, Symbols)
  BY DeployedSum
<1> HIDE DEF f, g
<1>3. (\A t \in Symbols : f[t] \in Int) /\ g[s] \in Int /\ \A t \in Symbols \ {s} : g[t] = f[t]
  BY <1>1 DEF Costed
<1>4. IsFiniteSet(Symbols)
  BY SymbolsAssumption
<1>5. SumOf(g, Symbols) = SumOf(f, Symbols) - f[s] + g[s]
  BY <1>3, <1>4, SumChange
<1> QED
  BY <1>1, <1>2, <1>5

LEMMA DeployedNat ==
    ASSUME NEW pos, Costed(pos) PROVE DeployedIn(pos) \in Nat
<1>1. \A t \in Symbols : CostsOf(pos)[t] \in Nat
  BY DEF CostsOf, Costed
<1> QED
  BY <1>1, DeployedSum, SumNat, SymbolsAssumption

LEMMA DeployedNothing ==
    ASSUME NEW pos, \A s \in Symbols : CostOf(pos[s]) = 0
    PROVE  DeployedIn(pos) = 0
<1> DEFINE f == CostsOf(pos)
           B == {T \in SUBSET Symbols : SumOf(f, T) # 0}
<1>1. \A s \in Symbols : f[s] = 0
  BY DEF CostsOf
<1> HIDE DEF f
<1>2. B = {}
  <2> SUFFICES ASSUME B # {} PROVE FALSE
    OBVIOUS
  <2>1. B \in SUBSET (SUBSET Symbols) /\ IsFiniteSet(Symbols)
    BY SymbolsAssumption
  <2> HIDE DEF B
  <2>2. PICK T \in B : \A U \in SUBSET T : U # T => U \notin B
    BY <2>1, SmallestSet
  <2>3. T \subseteq Symbols /\ SumOf(f, T) # 0
    BY <2>2 DEF B
  <2>4. IsFiniteSet(T) /\ T # {}
    BY <2>1, <2>3, FS_Subset, SumEmpty
  <2> DEFINE U == T \ {Chosen(T)}
  <2>5. Chosen(T) \in T /\ U \subseteq T /\ U # T
    BY <2>4, ChosenFacts
  <2>6. SumOf(f, T) = f[Chosen(T)] + SumOf(f, U)
    BY <2>4, SumStep
  <2>7. SumOf(f, U) = 0
    BY <2>2, <2>3, <2>5 DEF B
  <2> QED
    BY <1>1, <2>3, <2>5, <2>6, <2>7
<1> QED
  BY <1>2, DeployedSum DEF f

\* How a step books: not at all, the opening of the entry's position for what
\* the registry just deployed, or the end of the exit's whole position.
Opens ==
    /\ usedCapital' = usedCapital + Cost
    /\ CostOf(BookedPositions[symbol]) = 0
    /\ BookedPositions' = [BookedPositions EXCEPT ![symbol] = [qty |-> size, avg |-> intent.price]]
Closes ==
    /\ LET back == CostOf(BookedPositions[symbol])
       IN  usedCapital' = IF usedCapital >= back THEN usedCapital - back ELSE 0
    /\ BookedPositions' = [BookedPositions EXCEPT ![symbol] = Flat]
BooksStep ==
    \/ usedCapital' >= usedCapital /\ BookedPositions' = BookedPositions
    \/ Opens
    \/ Closes

LEMMA BookedTypes ==
    IInv => BookedPositions \in [Symbols -> Position] /\ Costed(BookedPositions)
<1> SUFFICES ASSUME IInv
             PROVE  BookedPositions \in [Symbols -> Position] /\ Costed(BookedPositions)
  OBVIOUS
<1>1. /\ positions \in [Symbols -> Position] /\ symbol \in Symbols
      /\ size \in Nat /\ intent \in Intent
      /\ \A s \in Symbols : positions[s].qty >= 0
  BY DEF IInv, TypeOK, MtmTypeOK, OneLongPerSymbol, OpenQtyLocal
<1>2. \A pos \in Position : pos.qty \in Int /\ pos.avg \in Nat
  BY DEF Position
<1>3. \A q \in Int, a \in Nat : q >= 0 => q * a \in Nat
  OBVIOUS
<1>4. \A pos \in Position : pos.qty >= 0 => CostOf(pos) \in Nat
  BY <1>2, <1>3 DEF CostOf
<1>5. CASE pc # "fill"
  BY <1>1, <1>4, <1>5 DEF BookedPositions, Costed
<1>6. CASE pc = "fill"
  <2>1. Filled(positions[symbol], intent.side, size, intent.price)
          \in {Flat, [qty |-> size, avg |-> intent.price]}
    <3>1. size > 0 /\ positions[symbol].qty = (IF IsExit THEN size ELSE 0)
          /\ positions[symbol] \in Position /\ intent.price \in Nat
      BY <1>1, <1>6 DEF IInv, DecisionSound, OneLongPerSymbol, Flying, OpenQtyLocal, Intent
    <3>2. intent.side \in {"BUY", "SELL"}
      BY <1>1 DEF Intent, Sides
    <3> QED
      BY <1>1, <3>1, <3>2, FilledWhole, FilledFromFlat DEF IsExit
  <2>2. Flat \in Position /\ Flat.qty >= 0
    BY DEF Flat, Position
  <2>3. /\ [qty |-> size, avg |-> intent.price] \in Position
        /\ [qty |-> size, avg |-> intent.price].qty >= 0
    BY <1>1 DEF Position, Intent
  <2> DEFINE new == Filled(positions[symbol], intent.side, size, intent.price)
  <2>4. new \in Position /\ new.qty >= 0
    BY <2>1, <2>2, <2>3
  <2>5. BookedPositions = [positions EXCEPT ![symbol] = new]
    BY <1>6 DEF BookedPositions
  <2> HIDE DEF new
  <2>6. /\ BookedPositions \in [Symbols -> Position]
        /\ \A s \in Symbols : BookedPositions[s].qty >= 0
    BY <1>1, <2>4, <2>5
  <2> QED
    BY <1>4, <2>6 DEF Costed
<1> QED
  BY <1>5, <1>6

LEMMA StepBooks == ASSUME IInv, [Next]_vars PROVE BooksStep
<1> USE DEF BookedPositions, decision, budget
<1>1. usedCapital \in Nat
  BY DEF IInv, TypeOK, CapitalTypeOK
<1>2. \A r \in DOMAIN reservations : reservations[r].amount \in Nat
  BY DEF IInv, TypeOK, CapitalTypeOK, Reservation
<1>3. CASE WorkerStep
  <2>1. CASE \/ \E s \in Symbols : TakeCandle(s)
             \/ \E side \in Sides, p \in Prices : StrategySignals(side, p)
             \/ StrategySilent \/ CandleDone \/ RefuseIntent \/ ApproveExit \/ AdmitEntry
             \/ \E raw \in RawSizes : SizeEntry(raw)
             \/ PreCheck
             \/ \E r \in ReservationIds : ReserveForEntry(r)
             \/ ReserveFails
             \/ SniffFindsNothing \/ SniffRaises
             \/ PlaceAccepted \/ PlaceResponseLost \/ PlaceRefused
             \/ GiveUp \/ ReleaseLock
    <3>1. pc # "fill" /\ pc' # "fill" /\ positions' = positions /\ usedCapital' = usedCapital
      BY <2>1 DEF TakeCandle, StrategySignals, StrategySilent, CandleDone, RefuseIntent,
                  ApproveExit, AdmitEntry, SizeEntry, PreCheck, ReserveForEntry, ReserveCapital,
                  ReserveFails, SniffFindsNothing, SniffRaises, PlaceAccepted,
                  PlaceResponseLost, PlaceRefused, AttemptFailed, GiveUp, ReleaseReservation,
                  ReleaseLock, NextStrategy
    <3> QED
      BY <1>1, <3>1 DEF BooksStep
  <2>2. CASE SniffAdopts
    <3>1. pc # "fill" /\ pc' # "fill" /\ positions' = positions /\ ConfirmReservation(resId)
      BY <2>2 DEF SniffAdopts, NextStrategy
    <3>2. usedCapital' >= usedCapital
      BY <1>1, <1>2, <3>1 DEF ConfirmReservation
    <3> QED
      BY <3>1, <3>2 DEF BooksStep
  <2>3. CASE EmitSuccess /\ ~IsExit
    <3>1. /\ pc = "placed" /\ pc' = "fill" /\ ConfirmReservation(resId)
          /\ UNCHANGED <<positions, symbol, intent, size>>
      BY <2>3 DEF EmitSuccess
    <3>2. resId \in DOMAIN reservations /\ reservations[resId].amount = Cost
      BY <2>3, <3>1 DEF IInv, HoldMatchesFlight
    <3>3. usedCapital' = usedCapital + Cost
      BY <3>1, <3>2 DEF ConfirmReservation
    <3>4. /\ positions[symbol] \in Position /\ positions[symbol].qty = 0
          /\ size \in Nat /\ size > 0 /\ intent.price \in Nat /\ intent.side = "BUY"
      BY <2>3, <3>1 DEF IInv, TypeOK, MtmTypeOK, OneLongPerSymbol, DecisionSound, Flying,
                        OpenQtyLocal, Intent, Sides, IsExit
    <3>5. Filled(positions[symbol], intent.side, size, intent.price)
            = [qty |-> size, avg |-> intent.price]
      BY <3>4, FilledFromFlat
    <3>6. BookedPositions' = [positions EXCEPT ![symbol] = [qty |-> size, avg |-> intent.price]]
      BY <3>1, <3>5
    <3>7. BookedPositions = positions
      BY <3>1
    <3>8. CostOf(positions[symbol]) = 0
      BY <3>4 DEF CostOf, Position
    <3> QED
      BY <3>3, <3>6, <3>7, <3>8 DEF BooksStep, Opens
  <2>4. CASE EmitSuccess /\ IsExit
    <3> DEFINE back == ReleaseNotional(symbol, intent.side, size)
    <3>1. /\ pc = "placed" /\ pc' = "fill" /\ ReleaseDeployed(back)
          /\ UNCHANGED <<positions, symbol, intent, size>>
      BY <2>4 DEF EmitSuccess
    <3>2. /\ positions[symbol] \in Position /\ positions[symbol].qty = size
          /\ size \in Nat /\ size > 0 /\ intent.price \in Nat /\ intent.side = "SELL"
      BY <2>4, <3>1 DEF IInv, TypeOK, MtmTypeOK, OneLongPerSymbol, DecisionSound, Flying,
                        OpenQtyLocal, Intent, IsExit
    <3>3. back = CostOf(positions[symbol])
      BY <3>2 DEF ReleaseNotional, Least, CostOf
    <3> HIDE DEF back
    <3>4. Filled(positions[symbol], intent.side, size, intent.price) = Flat
      BY <3>2, FilledWhole
    <3>5. BookedPositions' = [positions EXCEPT ![symbol] = Flat]
      BY <3>1, <3>4
    <3>6. BookedPositions = positions
      BY <3>1
    <3> QED
      BY <3>1, <3>3, <3>5, <3>6 DEF BooksStep, Closes, ReleaseDeployed
  <2>5. CASE ApplyFill
    <3>1. /\ pc = "fill" /\ pc' # "fill" /\ usedCapital' = usedCapital
          /\ ApplyOrderFill(symbol, intent.side, size, intent.price)
      BY <2>5 DEF ApplyFill
    <3>2. BookedPositions' = BookedPositions
      BY <3>1 DEF ApplyOrderFill
    <3> QED
      BY <1>1, <3>1, <3>2 DEF BooksStep
  <2> QED
    BY <1>3, <2>1, <2>2, <2>3, <2>4, <2>5 DEF WorkerStep
<1>4. CASE EnvironmentStep \/ UNCHANGED vars
  <2>1. UNCHANGED <<positions, pc, symbol, size, intent, usedCapital>>
    BY <1>4 DEF vars, worker, EnvironmentStep, StateChanges, BalanceFetched, SeedCapital,
                ManualOrder, ExchangeStep
  <2> QED
    BY <1>1, <2>1 DEF BooksStep
<1> QED
  BY <1>3, <1>4 DEF Next

LEMMA DeployedIs == DeployedCost = DeployedIn(BookedPositions)
  BY DEF DeployedCost, DeployedIn

\* Every step keeps the used capital above the cost of the booked positions.
LEMMA StepKeepsCover ==
    ASSUME IInv, IInv', [Next]_vars, usedCapital >= DeployedIn(BookedPositions)
    PROVE  usedCapital' >= DeployedIn(BookedPositions)'
<1> DEFINE old == BookedPositions
           new == BookedPositions'
<1>1. Costed(old) /\ old \in [Symbols -> Position]
  BY BookedTypes
<1>2. (IInv => BookedPositions \in [Symbols -> Position] /\ Costed(BookedPositions))'
  BY BookedTypes, PTL
<1>3. Costed(BookedPositions)'
  BY <1>2
<1>4. Costed(new)
  BY <1>3 DEF Costed
<1>5. DeployedIn(BookedPositions)' = DeployedIn(new)
  BY Zenon DEF DeployedIn, MapThenSumSet, MapThenFoldSet
<1>6. /\ symbol \in Symbols /\ usedCapital \in Nat /\ usedCapital' \in Nat
      /\ size \in Nat /\ intent.price \in Nat
  BY DEF IInv, TypeOK, CapitalTypeOK, Intent
<1>7. BooksStep
  BY StepBooks
<1>8. DeployedIn(old) \in Nat /\ DeployedIn(new) \in Nat
  BY <1>1, <1>4, DeployedNat
<1>9. usedCapital >= DeployedIn(old)
  OBVIOUS
<1>10. \A p \in Position : [old EXCEPT ![symbol] = p][symbol] = p
          /\ \A t \in Symbols \ {symbol} : [old EXCEPT ![symbol] = p][t] = old[t]
  BY <1>1, <1>6
<1>11. CostOf(old[symbol]) \in Nat /\ CostOf(new[symbol]) \in Nat
  BY <1>1, <1>4, <1>6 DEF Costed
<1> SUFFICES usedCapital' >= DeployedIn(new)
  BY <1>5
<1>12. CASE usedCapital' >= usedCapital /\ new = old
  <2>1. DeployedIn(new) = DeployedIn(old)
    BY <1>12
  <2> HIDE DEF old, new
  <2> QED
    BY <1>6, <1>8, <1>9, <1>12, <2>1
<1>13. CASE Opens
  <2>1. new[symbol] = [qty |-> size, avg |-> intent.price]
        /\ \A t \in Symbols \ {symbol} : new[t] = old[t]
    BY <1>1, <1>6, <1>13 DEF Opens
  <2>2. CostOf(new[symbol]) = Cost
    BY <1>6, <2>1 DEF CostOf, Cost
  <2>3. usedCapital' = usedCapital + Cost /\ CostOf(old[symbol]) = 0
    BY <1>13 DEF Opens
  <2> HIDE DEF old, new
  <2>4. DeployedIn(new) = DeployedIn(old) - CostOf(old[symbol]) + CostOf(new[symbol])
    BY <1>1, <1>6, <1>11, <2>1, DeployedChange
  <2> QED
    BY <1>6, <1>8, <1>9, <1>11, <2>2, <2>3, <2>4
<1>14. CASE Closes
  <2>1. new[symbol] = Flat /\ \A t \in Symbols \ {symbol} : new[t] = old[t]
    BY <1>1, <1>6, <1>14 DEF Closes
  <2>2. CostOf(new[symbol]) = 0
    BY <2>1 DEF CostOf, Flat
  <2>3. usedCapital' = IF usedCapital >= CostOf(old[symbol])
                       THEN usedCapital - CostOf(old[symbol]) ELSE 0
    BY <1>14 DEF Closes
  <2> HIDE DEF old, new
  <2>4. DeployedIn(new) = DeployedIn(old) - CostOf(old[symbol]) + CostOf(new[symbol])
    BY <1>1, <1>6, <1>11, <2>1, DeployedChange
  <2> QED
    BY <1>6, <1>8, <1>9, <1>11, <2>2, <2>3, <2>4
<1> HIDE DEF old, new
<1> QED
  BY <1>7, <1>12, <1>13, <1>14 DEF BooksStep, old, new

\* Used capital covers what the local positions cost, so no exit ever gives
\* back more than was deployed and the clamp of capital_registry.py:101 never
\* hides a difference.
THEOREM DeploymentsCovered == Spec => []UsedCoversPositions
<1> DEFINE Cover == usedCapital >= DeployedIn(BookedPositions)
<1>1. Init => Cover
  <2> SUFFICES ASSUME Init PROVE Cover
    OBVIOUS
  <2>1. \A s \in Symbols : CostOf(BookedPositions[s]) = 0
    BY DEF Init, MtmInit, BookedPositions, CostOf, Flat
  <2>2. DeployedIn(BookedPositions) = 0
    BY <2>1, DeployedNothing
  <2> QED
    BY <2>2 DEF Init, BudgetInit
<1>2. Cover /\ IInv /\ IInv' /\ [Next]_vars => Cover'
  BY StepKeepsCover
<1>3. Cover => UsedCoversPositions
  BY DeployedIs DEF UsedCoversPositions
<1> HIDE DEF Cover
<1> QED
  BY <1>1, <1>2, <1>3, Invariance, PTL DEF Spec

-----------------------------------------------------------------------------
(* What a list of orders will still move, as running totals: f[j] is the total of the    *)
(* first j entries, and entries that are all zero leave it as it was.  With that much in *)
(* the invariant, no induction over the list is needed.                                  *)

ZeroFrom(c, j, k) == \A i \in (j + 1)..k : c[i] = 0

Tally(n, c, f) ==
    /\ f \in [0..n -> Int] /\ f[0] = 0
    /\ \A i \in 1..n : f[i] = f[i - 1] + c[i]
    /\ \A j, k \in 0..n : j <= k /\ ZeroFrom(c, j, k) => f[k] = f[j]

Totals(n, c, total) == \E f : Tally(n, c, f) /\ f[n] = total

LEMMA TotalsOfNothing ==
    ASSUME NEW n \in Nat, NEW c \in [1..n -> Int], NEW total, Totals(n, c, total),
           \A i \in 1..n : c[i] = 0
    PROVE  total = 0
<1>1. PICK f : Tally(n, c, f) /\ f[n] = total
  BY DEF Totals
<1>2. 0 \in 0..n /\ n \in 0..n /\ 0 <= n /\ ZeroFrom(c, 0, n)
  BY DEF ZeroFrom
<1> QED
  BY <1>1, <1>2 DEF Tally

LEMMA TotalsOfNone == ASSUME NEW c PROVE Totals(0, c, 0)
<1> DEFINE f == [j \in 0..0 |-> 0]
<1>1. Tally(0, c, f) /\ f[0] = 0
  BY DEF Tally
<1> QED
  BY <1>1 DEF Totals

LEMMA TotalsAppend ==
    ASSUME NEW n \in Nat, NEW c \in [1..n -> Int], NEW total, Totals(n, c, total),
           NEW e \in [1..(n + 1) -> Int], \A i \in 1..n : e[i] = c[i]
    PROVE  Totals(n + 1, e, total + e[n + 1])
<1>1. PICK f : Tally(n, c, f) /\ f[n] = total
  BY DEF Totals
<1> DEFINE g == [j \in 0..(n + 1) |-> IF j <= n THEN f[j] ELSE f[n] + e[n + 1]]
<1>2. f \in [0..n -> Int] /\ f[0] = 0 /\ \A i \in 1..n : f[i] = f[i - 1] + c[i]
  BY <1>1 DEF Tally
<1>3. /\ g \in [0..(n + 1) -> Int] /\ g[0] = 0
      /\ \A j \in 0..n : g[j] = f[j]
      /\ g[n + 1] = f[n] + e[n + 1]
  BY <1>2
<1> HIDE DEF g
<1>4. \A i \in 1..(n + 1) : g[i] = g[i - 1] + e[i]
  <2> SUFFICES ASSUME NEW i \in 1..(n + 1) PROVE g[i] = g[i - 1] + e[i]
    OBVIOUS
  <2>1. CASE i \in 1..n
    BY <1>2, <1>3, <2>1
  <2>2. CASE i = n + 1
    BY <1>3, <2>2
  <2> QED
    BY <2>1, <2>2
<1>5. ASSUME NEW j \in 0..(n + 1), NEW k \in 0..(n + 1), j <= k, ZeroFrom(e, j, k)
      PROVE  g[k] = g[j]
  <2>1. CASE k <= n
    <3>1. ZeroFrom(c, j, k)
      BY <1>5, <2>1 DEF ZeroFrom
    <3>2. j \in 0..n /\ k \in 0..n
      BY <1>5, <2>1
    <3> QED
      BY <1>1, <1>3, <1>5, <3>1, <3>2 DEF Tally
  <2>2. CASE k = n + 1 /\ j <= n
    <3>1. ZeroFrom(c, j, n) /\ e[n + 1] = 0
      BY <1>5, <2>2 DEF ZeroFrom
    <3>2. j \in 0..n /\ n \in 0..n
      BY <2>2
    <3>3. f[n] = f[j]
      BY <1>1, <2>2, <3>1, <3>2 DEF Tally
    <3> QED
      BY <1>2, <1>3, <2>2, <3>1, <3>2, <3>3
  <2> QED
    BY <1>5, <2>1, <2>2
<1>6. Tally(n + 1, e, g)
  BY <1>3, <1>4, <1>5 DEF Tally
<1> QED
  BY <1>1, <1>3, <1>6 DEF Totals

LEMMA TotalsReplace ==
    ASSUME NEW n \in Nat, NEW c \in [1..n -> Int], NEW total, Totals(n, c, total),
           NEW i \in 1..n, NEW e \in [1..n -> Int], \A m \in (1..n) \ {i} : e[m] = c[m]
    PROVE  Totals(n, e, total - c[i] + e[i])
<1>1. PICK f : Tally(n, c, f) /\ f[n] = total
  BY DEF Totals
<1> DEFINE g == [j \in 0..n |-> IF j < i THEN f[j] ELSE f[j] - c[i] + e[i]]
<1>2. f \in [0..n -> Int] /\ f[0] = 0 /\ \A m \in 1..n : f[m] = f[m - 1] + c[m]
  BY <1>1 DEF Tally
<1>3. /\ g \in [0..n -> Int] /\ g[0] = 0
      /\ \A j \in 0..n : j < i => g[j] = f[j]
      /\ \A j \in 0..n : j >= i => g[j] = f[j] - c[i] + e[i]
  BY <1>2
<1> HIDE DEF g
<1>4. ASSUME NEW m \in 1..n PROVE g[m] = g[m - 1] + e[m]
  <2>1. m - 1 \in 0..n /\ m \in 0..n /\ f[m] = f[m - 1] + c[m]
    BY <1>2
  <2>2. CASE m < i
    BY <1>2, <1>3, <2>1, <2>2
  <2>3. CASE m = i
    BY <1>2, <1>3, <2>1, <2>3
  <2>4. CASE m > i
    <3>1. e[m] = c[m] /\ g[m] = f[m] - c[i] + e[i] /\ g[m - 1] = f[m - 1] - c[i] + e[i]
      BY <1>3, <2>1, <2>4
    <3>2. f[m - 1] \in Int /\ c[m] \in Int /\ c[i] \in Int /\ e[i] \in Int
      BY <1>2, <2>1
    <3> QED
      BY <2>1, <3>1, <3>2
  <2> QED
    BY <2>2, <2>3, <2>4
<1>5. ASSUME NEW j \in 0..n, NEW k \in 0..n, j <= k, ZeroFrom(e, j, k)
      PROVE  g[k] = g[j]
  <2>1. CASE k < i \/ j >= i
    <3>1. ZeroFrom(c, j, k)
      BY <1>5, <2>1 DEF ZeroFrom
    <3>2. f[k] = f[j]
      BY <1>1, <1>5, <3>1 DEF Tally
    <3>3. \/ g[j] = f[j] /\ g[k] = f[k]
          \/ g[j] = f[j] - c[i] + e[i] /\ g[k] = f[k] - c[i] + e[i]
      BY <1>3, <1>5, <2>1
    <3> QED
      BY <3>2, <3>3
  <2>2. CASE j < i /\ i <= k
    <3>1. e[i] = 0 /\ ZeroFrom(c, j, i - 1) /\ ZeroFrom(c, i, k)
      BY <1>5, <2>2 DEF ZeroFrom
    <3>2. f[i - 1] = f[j] /\ f[k] = f[i]
      BY <1>1, <2>2, <3>1 DEF Tally
    <3>3. f[k] = f[j] + c[i] /\ f[j] \in Int /\ c[i] \in Int
      BY <1>2, <3>2
    <3>4. g[j] = f[j] /\ g[k] = f[k] - c[i] + e[i]
      BY <1>3, <2>2
    <3> QED
      BY <3>1, <3>3, <3>4
  <2> QED
    BY <2>1, <2>2
<1>6. Tally(n, e, g)
  BY <1>3, <1>4, <1>5 DEF Tally
<1>7. g[n] = total - c[i] + e[i]
  BY <1>1, <1>3
<1> QED
  BY <1>6, <1>7 DEF Totals

LEMMA TotalsRemove ==
    ASSUME NEW n \in Nat, NEW c \in [1..n -> Int], NEW total, Totals(n, c, total),
           NEW i \in 1..n, NEW e \in [1..(n - 1) -> Int],
           \A m \in 1..(n - 1) : e[m] = IF m < i THEN c[m] ELSE c[m + 1]
    PROVE  Totals(n - 1, e, total - c[i])
<1>1. PICK f : Tally(n, c, f) /\ f[n] = total
  BY DEF Totals
<1> DEFINE g == [j \in 0..(n - 1) |-> IF j < i THEN f[j] ELSE f[j + 1] - c[i]]
<1>2. f \in [0..n -> Int] /\ f[0] = 0 /\ \A m \in 1..n : f[m] = f[m - 1] + c[m]
  BY <1>1 DEF Tally
<1>3. /\ g \in [0..(n - 1) -> Int] /\ g[0] = 0
      /\ \A j \in 0..(n - 1) : j < i => g[j] = f[j]
      /\ \A j \in 0..(n - 1) : j >= i => g[j] = f[j + 1] - c[i]
  <2>1. \A j \in 0..(n - 1) : j \in 0..n /\ j + 1 \in 0..n
    OBVIOUS
  <2>2. 0 \in 0..(n - 1) /\ 0 < i /\ c[i] \in Int
    OBVIOUS
  <2>3. \A j \in 0..(n - 1) : f[j] \in Int /\ f[j + 1] - c[i] \in Int
    BY <1>2, <2>1, <2>2
  <2>4. g \in [0..(n - 1) -> Int]
    BY <2>3
  <2>5. g[0] = 0
    BY <1>2, <2>2
  <2>6. \A j \in 0..(n - 1) : g[j] = IF j < i THEN f[j] ELSE f[j + 1] - c[i]
    OBVIOUS
  <2>7. \A j \in 0..(n - 1) : j < i => g[j] = f[j]
    BY <2>6
  <2>8. \A j \in 0..(n - 1) : j >= i => g[j] = f[j + 1] - c[i]
    BY <2>6
  <2> QED
    BY <2>4, <2>5, <2>7, <2>8, Zenon
<1> HIDE DEF g
<1>4. ASSUME NEW m \in 1..(n - 1) PROVE g[m] = g[m - 1] + e[m]
  <2>1. m - 1 \in 0..(n - 1) /\ m \in 0..(n - 1)
    OBVIOUS
  <2>2. CASE m < i
    BY <1>2, <1>3, <2>1, <2>2
  <2>3. CASE m = i
    <3>1. f[m + 1] = f[m] + c[m + 1] /\ f[m] = f[m - 1] + c[m]
      BY <1>2
    <3>2. e[m] = c[m + 1]
      BY <2>3
    <3>3. g[m] = f[m + 1] - c[m] /\ g[m - 1] = f[m - 1]
      BY <1>3, <2>1, <2>3
    <3>4. f[m - 1] \in Int /\ c[m] \in Int /\ c[m + 1] \in Int
      BY <1>2
    <3> QED
      BY <3>1, <3>2, <3>3, <3>4
  <2>4. CASE m > i
    <3>1. f[m + 1] = f[m] + c[m + 1] /\ e[m] = c[m + 1]
      BY <1>2, <2>4
    <3>2. g[m] = f[m + 1] - c[i] /\ g[m - 1] = f[m] - c[i]
      BY <1>3, <2>1, <2>4
    <3>3. f[m] \in Int /\ c[i] \in Int /\ c[m + 1] \in Int
      BY <1>2
    <3> QED
      BY <3>1, <3>2, <3>3
  <2> QED
    BY <2>2, <2>3, <2>4
<1>5. ASSUME NEW j \in 0..(n - 1), NEW k \in 0..(n - 1), j <= k, ZeroFrom(e, j, k)
      PROVE  g[k] = g[j]
  <2>1. CASE k < i
    <3>1. ZeroFrom(c, j, k)
      BY <1>5, <2>1 DEF ZeroFrom
    <3>2. f[k] = f[j]
      BY <1>1, <1>5, <3>1 DEF Tally
    <3>3. g[j] = f[j] /\ g[k] = f[k]
      BY <1>3, <1>5, <2>1
    <3> QED
      BY <3>2, <3>3
  <2>2. CASE j >= i
    <3>1. ASSUME NEW m \in (j + 2)..(k + 1) PROVE c[m] = 0
      <4>1. m - 1 \in (j + 1)..k /\ m - 1 \in 1..(n - 1) /\ ~(m - 1 < i) /\ (m - 1) + 1 = m
        BY <1>5, <2>2
      <4>2. e[m - 1] = 0
        BY <1>5, <4>1 DEF ZeroFrom
      <4> QED
        BY <4>1, <4>2
    <3>2. ZeroFrom(c, j + 1, k + 1)
      BY <3>1 DEF ZeroFrom
    <3>3. j + 1 \in 0..n /\ k + 1 \in 0..n /\ j + 1 <= k + 1
      BY <1>5
    <3>4. f[k + 1] = f[j + 1]
      BY <1>1, <3>2, <3>3 DEF Tally
    <3>5. g[j] = f[j + 1] - c[i] /\ g[k] = f[k + 1] - c[i]
      BY <1>3, <1>5, <2>2
    <3> QED
      BY <3>4, <3>5
  <2>3. CASE j < i /\ i <= k
    <3>1. ZeroFrom(c, j, i - 1)
      BY <1>5, <2>3 DEF ZeroFrom
    <3>2. ASSUME NEW m \in (i + 1)..(k + 1) PROVE c[m] = 0
      <4>1. m - 1 \in (j + 1)..k /\ m - 1 \in 1..(n - 1) /\ ~(m - 1 < i) /\ (m - 1) + 1 = m
        BY <1>5, <2>3
      <4>2. e[m - 1] = 0
        BY <1>5, <4>1 DEF ZeroFrom
      <4> QED
        BY <4>1, <4>2
    <3>3. ZeroFrom(c, i, k + 1)
      BY <3>2 DEF ZeroFrom
    <3>4. j \in 0..n /\ k + 1 \in 0..n /\ i <= k + 1
      BY <1>5, <2>3
    <3>a. f[i - 1] = f[j] /\ f[k + 1] = f[i]
      BY <1>1, <2>3, <3>1, <3>3, <3>4 DEF Tally
    <3>5. f[k + 1] = f[j] + c[i]
      BY <1>2, <3>a
    <3>6. f[j] \in Int /\ c[i] \in Int
      BY <1>2, <3>4
    <3>7. g[j] = f[j] /\ g[k] = f[k + 1] - c[i]
      BY <1>3, <1>5, <2>3
    <3> QED
      BY <3>5, <3>6, <3>7
  <2> QED
    BY <2>1, <2>2, <2>3
<1>6. Tally(n - 1, e, g)
  BY <1>3, <1>4, <1>5 DEF Tally
<1>7. g[n - 1] = total - c[i]
  <2>1. CASE n - 1 < i
    <3>1. i = n
      BY <2>1
    <3>2. f[n] = f[n - 1] + c[n] /\ f[n - 1] \in Int /\ c[n] \in Int
      BY <1>2, <3>1
    <3>3. g[n - 1] = f[n - 1]
      BY <1>3, <2>1
    <3> QED
      BY <1>1, <3>1, <3>2, <3>3
  <2>2. CASE n - 1 >= i
    <3>1. n - 1 \in 0..(n - 1) /\ (n - 1) + 1 = n
      OBVIOUS
    <3> QED
      BY <1>1, <1>3, <2>2, <3>1
  <2> QED
    BY <2>1, <2>2
<1> QED
  BY <1>6, <1>7 DEF Totals

-----------------------------------------------------------------------------
(* The broker's orders *)

LEMMA RemovedFrom ==
    ASSUME NEW S, NEW q \in Seq(S), NEW i \in DOMAIN q
    PROVE  /\ RemoveAt(q, i) \in Seq(S)
           /\ Len(RemoveAt(q, i)) = Len(q) - 1
           /\ \A m \in 1..(Len(q) - 1) :
                 RemoveAt(q, i)[m] = IF m < i THEN q[m] ELSE q[m + 1]
<1>1. i \in 1..Len(q) /\ Len(q) \in Nat
  OBVIOUS
<1> DEFINE a == SubSeq(q, 1, i - 1)
           b == SubSeq(q, i + 1, Len(q))
<1>2. a \in Seq(S) /\ Len(a) = i - 1 /\ \A m \in 1..(i - 1) : a[m] = q[m]
  BY <1>1
<1>3. b \in Seq(S) /\ Len(b) = Len(q) - i /\ \A m \in 1..(Len(q) - i) : b[m] = q[i + m]
  BY <1>1
<1>4. RemoveAt(q, i) = a \o b
  BY DEF RemoveAt
<1> HIDE DEF a, b
<1>5. a \o b \in Seq(S) /\ Len(a \o b) = Len(q) - 1
  BY <1>1, <1>2, <1>3
<1>6. \A m \in 1..(Len(q) - 1) : (a \o b)[m] = IF m < i THEN q[m] ELSE q[m + 1]
  <2> SUFFICES ASSUME NEW m \in 1..(Len(q) - 1)
               PROVE  (a \o b)[m] = IF m < i THEN q[m] ELSE q[m + 1]
    OBVIOUS
  <2>1. CASE m < i
    BY <1>1, <1>2, <1>3, <2>1
  <2>2. CASE m >= i
    <3>1. (a \o b)[m] = b[m - (i - 1)]
      BY <1>1, <1>2, <1>3, <2>2
    <3>2. m - (i - 1) \in 1..(Len(q) - i) /\ i + (m - (i - 1)) = m + 1
      BY <1>1, <2>2
    <3> QED
      BY <1>3, <2>2, <3>1, <3>2
  <2>3. m < i \/ m >= i
    BY <1>1
  <2> QED
    BY <2>1, <2>2, <2>3
<1> QED
  BY <1>4, <1>5, <1>6

LEMMA ReplacedIn ==
    ASSUME NEW S, NEW q \in Seq(S), NEW i \in DOMAIN q, NEW o \in S
    PROVE  /\ ReplaceAt(q, i, o) \in Seq(S)
           /\ Len(ReplaceAt(q, i, o)) = Len(q)
           /\ ReplaceAt(q, i, o)[i] = o
           /\ \A m \in (1..Len(q)) \ {i} : ReplaceAt(q, i, o)[m] = q[m]
  BY DEF ReplaceAt

\* What an order will still move of a symbol's position at the broker.
Moves(s, o) == IF o.symbol = s /\ o.status = "OPEN" THEN Signed(o.side, o.qty) ELSE 0

MovesOf(s, q) == [i \in 1..Len(q) |-> Moves(s, q[i])]

\* The open orders of q move s by total.
StillMoves(s, q, total) == Totals(Len(q), MovesOf(s, q), total)

LEMMA OrderFacts ==
    \A o \in OrderRecord :
        /\ o.symbol \in Symbols /\ o.side \in Sides /\ o.qty \in Nat
        /\ o.status \in {"OPEN", "COMPLETE", "REJECTED"} /\ o.recent \in BOOLEAN
  BY DEF OrderRecord

LEMMA OrderChanged ==
    ASSUME NEW o \in OrderRecord
    PROVE  /\ [o EXCEPT !.status = "COMPLETE"] \in OrderRecord
           /\ [o EXCEPT !.status = "COMPLETE"].status = "COMPLETE"
           /\ [o EXCEPT !.status = "REJECTED"] \in OrderRecord
           /\ [o EXCEPT !.recent = FALSE] \in OrderRecord
           /\ [o EXCEPT !.recent = FALSE].status = o.status
           /\ [o EXCEPT !.recent = FALSE].symbol = o.symbol
           /\ [o EXCEPT !.recent = FALSE].side = o.side
           /\ [o EXCEPT !.recent = FALSE].qty = o.qty
  BY DEF OrderRecord

LEMMA NewOrder ==
    ASSUME NEW s \in Symbols, NEW side \in Sides, NEW n \in Nat
    PROVE  /\ Order(s, side, n) \in OrderRecord
           /\ Order(s, side, n).symbol = s /\ Order(s, side, n).status = "OPEN"
           /\ Order(s, side, n).side = side /\ Order(s, side, n).qty = n
  BY DEF Order, OrderRecord

LEMMA MovesInt ==
    /\ \A s : \A o \in OrderRecord : Moves(s, o) \in Int
    /\ \A s : \A q \in Seq(OrderRecord) :
          /\ MovesOf(s, q) \in [1..Len(q) -> Int]
          /\ Len(q) \in Nat
          /\ \A i \in 1..Len(q) : MovesOf(s, q)[i] = Moves(s, q[i])
<1>1. \A s : \A o \in OrderRecord : Moves(s, o) \in Int
  BY OrderFacts DEF Moves, Signed
<1>2. ASSUME NEW q \in Seq(OrderRecord), NEW s
      PROVE  /\ MovesOf(s, q) \in [1..Len(q) -> Int]
             /\ Len(q) \in Nat
             /\ \A i \in 1..Len(q) : MovesOf(s, q)[i] = Moves(s, q[i])
  <2>1. \A i \in 1..Len(q) : q[i] \in OrderRecord
    OBVIOUS
  <2>2. Len(q) \in Nat
    OBVIOUS
  <2> QED
    BY <1>1, <2>1, <2>2 DEF MovesOf
<1> QED
  BY <1>1, <1>2

LEMMA AppendMoves ==
    ASSUME NEW q \in Seq(OrderRecord), NEW o \in OrderRecord, NEW s, NEW total,
           StillMoves(s, q, total)
    PROVE  StillMoves(s, Append(q, o), total + Moves(s, o))
<1> DEFINE r == Append(q, o)
           n == Len(q)
<1>1. r \in Seq(OrderRecord) /\ Len(r) = n + 1 /\ r[n + 1] = o /\ \A i \in 1..n : r[i] = q[i]
      /\ n \in Nat
  OBVIOUS
<1> HIDE DEF r
<1>2. /\ MovesOf(s, q) \in [1..n -> Int] /\ MovesOf(s, r) \in [1..(n + 1) -> Int]
      /\ \A i \in 1..n : MovesOf(s, r)[i] = MovesOf(s, q)[i]
      /\ MovesOf(s, r)[n + 1] = Moves(s, o)
  BY <1>1, MovesInt
<1>3. Totals(n, MovesOf(s, q), total)
  BY DEF StillMoves
<1> DEFINE c == MovesOf(s, q)
           e == MovesOf(s, r)
<1>n. n \in Nat
  OBVIOUS
<1> HIDE DEF n, c, e
<1>4. Totals(n + 1, MovesOf(s, r), total + MovesOf(s, r)[n + 1])
  <2>1. c \in [1..n -> Int] /\ e \in [1..(n + 1) -> Int] /\ \A i \in 1..n : e[i] = c[i]
    BY <1>2 DEF c, e
  <2>2. Totals(n, c, total)
    BY <1>3 DEF c
  <2>3. Totals(n + 1, e, total + e[n + 1])
    BY <1>n, <2>1, <2>2, TotalsAppend
  <2> QED
    BY <2>3 DEF e
<1>5. StillMoves(s, r, total + Moves(s, o))
  BY <1>1, <1>2, <1>4 DEF StillMoves
<1> QED
  BY <1>5 DEF r

LEMMA ReplaceMoves ==
    ASSUME NEW q \in Seq(OrderRecord), NEW i \in DOMAIN q, NEW o \in OrderRecord, NEW s,
           NEW total, StillMoves(s, q, total)
    PROVE  StillMoves(s, ReplaceAt(q, i, o), total - Moves(s, q[i]) + Moves(s, o))
<1> DEFINE r == ReplaceAt(q, i, o)
           n == Len(q)
<1>1. r \in Seq(OrderRecord) /\ Len(r) = n /\ r[i] = o /\ \A m \in (1..n) \ {i} : r[m] = q[m]
  BY ReplacedIn
<1>2. n \in Nat /\ i \in 1..n
  OBVIOUS
<1> HIDE DEF r
<1>3. /\ MovesOf(s, q) \in [1..n -> Int] /\ MovesOf(s, r) \in [1..n -> Int]
      /\ \A m \in (1..n) \ {i} : MovesOf(s, r)[m] = MovesOf(s, q)[m]
      /\ MovesOf(s, r)[i] = Moves(s, o) /\ MovesOf(s, q)[i] = Moves(s, q[i])
  BY <1>1, <1>2, MovesInt
<1>4. Totals(n, MovesOf(s, q), total)
  BY DEF StillMoves
<1> HIDE DEF n
<1>5. Totals(n, MovesOf(s, r), total - MovesOf(s, q)[i] + MovesOf(s, r)[i])
  BY <1>2, <1>3, <1>4, TotalsReplace
<1>6. StillMoves(s, r, total - Moves(s, q[i]) + Moves(s, o))
  BY <1>1, <1>3, <1>5 DEF StillMoves
<1> QED
  BY <1>6 DEF r

LEMMA RemoveMoves ==
    ASSUME NEW q \in Seq(OrderRecord), NEW i \in DOMAIN q, NEW s, NEW total,
           StillMoves(s, q, total)
    PROVE  StillMoves(s, RemoveAt(q, i), total - Moves(s, q[i]))
<1> DEFINE r == RemoveAt(q, i)
           n == Len(q)
<1>1. r \in Seq(OrderRecord) /\ Len(r) = n - 1
      /\ \A m \in 1..(n - 1) : r[m] = IF m < i THEN q[m] ELSE q[m + 1]
  BY RemovedFrom
<1>2. n \in Nat /\ i \in 1..n
  OBVIOUS
<1> HIDE DEF r
<1>3. /\ MovesOf(s, q) \in [1..n -> Int] /\ MovesOf(s, r) \in [1..(n - 1) -> Int]
      /\ MovesOf(s, q)[i] = Moves(s, q[i])
      /\ \A m \in 1..(n - 1) :
            MovesOf(s, r)[m] = IF m < i THEN MovesOf(s, q)[m] ELSE MovesOf(s, q)[m + 1]
  <2>1. \A m \in 1..(n - 1) : m \in 1..n /\ m + 1 \in 1..n
    BY <1>2
  <2> QED
    BY <1>1, <1>2, <2>1, MovesInt
<1>4. Totals(n, MovesOf(s, q), total)
  BY DEF StillMoves
<1> HIDE DEF n
<1>5. Totals(n - 1, MovesOf(s, r), total - MovesOf(s, q)[i])
  BY <1>2, <1>3, <1>4, TotalsRemove
<1>6. StillMoves(s, r, total - Moves(s, q[i]))
  BY <1>1, <1>3, <1>5 DEF StillMoves
<1> QED
  BY <1>6 DEF r

\* The exchange moves the broker's position by what the order will move no more.
LEMMA ExchangeKeeps ==
    ASSUME BrokerTypeOK, NEW i \in DOMAIN orders,
           FillOrder(i) \/ RejectOrder(i) \/ OrderAges(i)
    PROVE  BrokerTypeOK'
<1>1. orders \in Seq(OrderRecord) /\ orders[i] \in OrderRecord
      /\ brokerQty \in [Symbols -> Int]
  BY DEF BrokerTypeOK
<1>2. RemoveAt(orders, i) \in Seq(OrderRecord)
  BY <1>1, RemovedFrom
<1>3. \A o \in OrderRecord : ReplaceAt(orders, i, o) \in Seq(OrderRecord)
  BY <1>1, ReplacedIn
<1>4. Signed(orders[i].side, orders[i].qty) \in Int /\ orders[i].symbol \in Symbols
  BY <1>1, OrderFacts DEF Signed
<1> DEFINE filled == [orders[i] EXCEPT !.status = "COMPLETE"]
           rejected == [orders[i] EXCEPT !.status = "REJECTED"]
           aged == [orders[i] EXCEPT !.recent = FALSE]
<1>5. orders' \in Seq(OrderRecord)
  <2>1. filled \in OrderRecord /\ rejected \in OrderRecord /\ aged \in OrderRecord
    BY <1>1, OrderChanged
  <2>2. orders' \in {RemoveAt(orders, i), ReplaceAt(orders, i, filled),
                     ReplaceAt(orders, i, rejected), ReplaceAt(orders, i, aged)}
    BY DEF FillOrder, RejectOrder, OrderAges, OrderEnds
  <2> HIDE DEF filled, rejected, aged
  <2> QED
    BY <1>2, <1>3, <2>1, <2>2
<1>6. brokerQty' \in [Symbols -> Int]
  BY <1>1, <1>4 DEF FillOrder, RejectOrder, OrderAges
<1> QED
  BY <1>5, <1>6 DEF BrokerTypeOK

LEMMA AcceptKeeps ==
    ASSUME BrokerTypeOK, NEW s \in Symbols, NEW side \in Sides, NEW n \in Nat,
           AcceptOrder(s, side, n)
    PROVE  BrokerTypeOK'
<1>1. orders' = Append(orders, Order(s, side, n)) /\ brokerQty' = brokerQty
  BY DEF AcceptOrder
<1>2. Order(s, side, n) \in OrderRecord
  BY NewOrder
<1> QED
  BY <1>1, <1>2 DEF BrokerTypeOK

LEMMA AcceptMoves ==
    ASSUME BrokerTypeOK, NEW s \in Symbols, NEW side \in Sides, NEW n \in Nat,
           AcceptOrder(s, side, n), NEW y \in Symbols, NEW total, StillMoves(y, orders, total)
    PROVE  StillMoves(y, orders', total + IF y = s THEN Signed(side, n) ELSE 0)
<1>1. orders' = Append(orders, Order(s, side, n))
  BY DEF AcceptOrder
<1>2. /\ Order(s, side, n) \in OrderRecord
      /\ Moves(y, Order(s, side, n)) = IF y = s THEN Signed(side, n) ELSE 0
  BY NewOrder DEF Moves
<1> QED
  BY <1>1, <1>2, AppendMoves DEF BrokerTypeOK

LEMMA ExchangeMoves ==
    ASSUME BrokerTypeOK, NEW i \in DOMAIN orders, FillOrder(i) \/ OrderAges(i),
           NEW y \in Symbols, NEW total \in Int, StillMoves(y, orders, total)
    PROVE  StillMoves(y, orders', total - (brokerQty'[y] - brokerQty[y]))
<1> DEFINE o == orders[i]
<1>1. orders \in Seq(OrderRecord) /\ o \in OrderRecord
      /\ brokerQty \in [Symbols -> Int] /\ o.symbol \in Symbols
  BY OrderFacts DEF BrokerTypeOK
<1>2. Moves(y, o) \in Int
  BY <1>1, MovesInt
<1>3. StillMoves(y, RemoveAt(orders, i), total - Moves(y, o))
  BY <1>1, RemoveMoves
<1>4. \A r \in OrderRecord : StillMoves(y, ReplaceAt(orders, i, r), total - Moves(y, o) + Moves(y, r))
  BY <1>1, ReplaceMoves
<1>5. CASE FillOrder(i)
  <2> DEFINE new == [o EXCEPT !.status = "COMPLETE"]
  <2>1. new \in OrderRecord /\ new.status = "COMPLETE"
    BY <1>1, OrderChanged
  <2>2. o.status = "OPEN" /\ brokerQty' = [brokerQty EXCEPT ![o.symbol] = @ + Signed(o.side, o.qty)]
        /\ orders' = IF o.recent THEN ReplaceAt(orders, i, new) ELSE RemoveAt(orders, i)
    BY <1>5 DEF FillOrder, OrderEnds
  <2> HIDE DEF new
  <2>3. Moves(y, new) = 0
    BY <2>1 DEF Moves
  <2>4. Signed(o.side, o.qty) \in Int
    BY <1>1, OrderFacts DEF Signed
  <2> HIDE DEF o
  <2>5. brokerQty'[y] - brokerQty[y] = Moves(y, o)
    BY <1>1, <2>2, <2>4 DEF Moves
  <2>6. StillMoves(y, orders', total - Moves(y, o))
    <3>1. CASE o.recent
      <4>1. StillMoves(y, orders', total - Moves(y, o) + Moves(y, new))
        BY <1>4, <2>1, <2>2, <3>1
      <4>2. total - Moves(y, o) + Moves(y, new) = total - Moves(y, o)
        BY <1>2, <2>3
      <4> QED
        BY <4>1, <4>2
    <3>2. CASE ~o.recent
      BY <1>3, <2>2, <3>2
    <3> QED
      BY <3>1, <3>2
  <2> QED
    BY <2>5, <2>6
<1>6. CASE OrderAges(i)
  <2> DEFINE new == [o EXCEPT !.recent = FALSE]
  <2>1. new \in OrderRecord /\ new.status = o.status /\ new.symbol = o.symbol
        /\ new.side = o.side /\ new.qty = o.qty
    BY <1>1, OrderChanged
  <2>2. /\ brokerQty' = brokerQty
        /\ orders' = IF o.status = "OPEN" THEN ReplaceAt(orders, i, new) ELSE RemoveAt(orders, i)
    BY <1>6 DEF OrderAges
  <2> HIDE DEF new
  <2>3. Moves(y, new) = Moves(y, o)
    BY <2>1 DEF Moves
  <2> HIDE DEF o
  <2>4. brokerQty'[y] - brokerQty[y] = 0
    BY <1>1, <2>2
  <2>5. StillMoves(y, orders', total)
    <3>1. CASE o.status = "OPEN"
      <4>1. StillMoves(y, orders', total - Moves(y, o) + Moves(y, o))
        BY <1>4, <2>1, <2>2, <2>3, <3>1
      <4>2. total - Moves(y, o) + Moves(y, o) = total
        BY <1>2
      <4> QED
        BY <4>1, <4>2
    <3>2. CASE o.status # "OPEN"
      <4>1. Moves(y, o) = 0 /\ total - Moves(y, o) = total
        BY <3>2 DEF Moves
      <4> QED
        BY <1>3, <2>2, <3>2, <4>1
    <3> QED
      BY <3>1, <3>2
  <2>6. total - 0 = total
    OBVIOUS
  <2> QED
    BY <2>4, <2>5, <2>6
<1> QED
  BY <1>5, <1>6

LEMMA NothingMoves ==
    ASSUME BrokerTypeOK, NEW s \in Symbols, NoneOpen(s), NEW total, StillMoves(s, orders, total)
    PROVE  total = 0
<1>1. orders \in Seq(OrderRecord) /\ DOMAIN orders = 1..Len(orders)
  BY DEF BrokerTypeOK
<1>2. MovesOf(s, orders) \in [1..Len(orders) -> Int] /\ Len(orders) \in Nat
      /\ \A i \in 1..Len(orders) : MovesOf(s, orders)[i] = Moves(s, orders[i])
  BY <1>1, MovesInt
<1>3. \A i \in 1..Len(orders) : Moves(s, orders[i]) = 0
  BY <1>1 DEF NoneOpen, Moves
<1> QED
  BY <1>2, <1>3, TotalsOfNothing DEF StillMoves

-----------------------------------------------------------------------------
(* The local positions and the broker's.  What the worker has sent and not yet booked,   *)
(* and what the exchange has yet to fill, is all that can part them.                     *)

Unbooked(s) == IF s = symbol /\ pc \in {"placed", "fill"} THEN Signed(intent.side, size) ELSE 0

Ahead(s) == positions[s].qty + Unbooked(s) - brokerQty[s]

SyncInv == \A s \in Symbols : StillMoves(s, orders, Ahead(s))

LEMMA AheadInt ==
    ASSUME IInv, BrokerTypeOK, NEW s \in Symbols
    PROVE  /\ positions[s].qty \in Int /\ brokerQty[s] \in Int /\ Unbooked(s) \in Int
           /\ Ahead(s) \in Int /\ Signed(intent.side, size) \in Int
<1>1. positions[s].qty \in Int /\ brokerQty[s] \in Int
  BY DEF IInv, TypeOK, MtmTypeOK, Position, BrokerTypeOK
<1>2. size \in Nat
  BY DEF IInv, TypeOK
<1>3. Signed(intent.side, size) \in Int
  BY <1>2 DEF Signed
<1> QED
  BY <1>1, <1>3 DEF Unbooked, Ahead

\* Of the worker's steps only the call to place_order reaches the broker, and only
\* ApplyFill the local positions.
WorkerSends ==
    \/ UNCHANGED <<broker, positions>> /\ (\A s \in Symbols : Unbooked(s)' = Unbooked(s))
    \/ /\ AcceptOrder(symbol, intent.side, size)
       /\ pc = "place" /\ UNCHANGED <<positions, symbol, intent, size>>
       /\ pc' = "placed" \/ ("lost_response" \in Disturbances /\ pc' \notin {"placed", "fill"})
    \/ /\ pc = "fill" /\ pc' = "finally" /\ UNCHANGED broker
       /\ ApplyOrderFill(symbol, intent.side, size, intent.price)

LEMMA WorkerReachesBroker == ASSUME WorkerStep PROVE WorkerSends
<1> USE DEF WorkerSends, Unbooked, decision
<1>1. CASE PlaceAccepted
  BY <1>1 DEF PlaceAccepted
<1>2. CASE PlaceResponseLost
  BY <1>2 DEF PlaceResponseLost, AttemptFailed
<1>3. CASE ApplyFill
  BY <1>3 DEF ApplyFill
<1>4. CASE EmitSuccess
  BY <1>4 DEF EmitSuccess
<1>5. CASE PlaceRefused \/ GiveUp \/ ReleaseLock \/ ReserveFails
           \/ SniffAdopts \/ SniffFindsNothing \/ SniffRaises
  BY <1>5 DEF PlaceRefused, AttemptFailed, GiveUp, ReleaseLock, ReserveFails, NextStrategy,
              SniffAdopts, SniffFindsNothing, SniffRaises
<1>6. CASE \/ \E s \in Symbols : TakeCandle(s)
           \/ \E side \in Sides, p \in Prices : StrategySignals(side, p)
           \/ StrategySilent \/ CandleDone \/ RefuseIntent \/ ApproveExit \/ AdmitEntry
           \/ \E raw \in RawSizes : SizeEntry(raw)
           \/ PreCheck \/ \E r \in ReservationIds : ReserveForEntry(r)
  BY <1>6 DEF TakeCandle, StrategySignals, StrategySilent, CandleDone, RefuseIntent,
              ApproveExit, AdmitEntry, SizeEntry, PreCheck, ReserveForEntry, NextStrategy
<1> QED
  BY <1>1, <1>2, <1>3, <1>4, <1>5, <1>6 DEF WorkerStep

LEMMA BrokerTypeNext == ASSUME IInv, BrokerTypeOK, [Next]_vars PROVE BrokerTypeOK'
<1>1. /\ symbol \in Symbols /\ size \in Nat /\ intent.side \in Sides
  BY DEF IInv, TypeOK, Intent
<1>2. CASE WorkerStep
  <2>1. UNCHANGED broker \/ AcceptOrder(symbol, intent.side, size)
    BY <1>2, WorkerReachesBroker DEF WorkerSends
  <2>2. CASE UNCHANGED broker
    BY <2>2 DEF BrokerTypeOK, broker
  <2> QED
    BY <1>1, <2>1, <2>2, AcceptKeeps
<1>3. CASE \E i \in DOMAIN orders : FillOrder(i) \/ RejectOrder(i) \/ OrderAges(i)
  BY <1>3, ExchangeKeeps
<1>4. CASE \E s \in Symbols, side \in Sides, n \in ManualSizes : ManualOrder(s, side, n)
  <2>1. ManualSizes \subseteq Nat
    BY PipelineAssumption
  <2> QED
    BY <1>4, <2>1, AcceptKeeps DEF ManualOrder
<1>5. CASE UNCHANGED broker
  BY <1>5 DEF BrokerTypeOK, broker
<1> QED
  BY <1>2, <1>3, <1>4, <1>5
  DEF Next, EnvironmentStep, StateChanges, BalanceFetched, ExchangeStep, vars

LEMMA BrokerTypeInit == Init => BrokerTypeOK
  BY DEF Init, BrokerInit, BrokerTypeOK

LEMMA SyncNext ==
    ASSUME IInv, BrokerTypeOK, SyncInv, [Next]_vars,
           Disturbances \cap {"lost_response", "exchange_reject", "manual_order"} = {}
    PROVE  SyncInv'
<1> SUFFICES ASSUME NEW y \in Symbols PROVE StillMoves(y, orders', Ahead(y)')
  BY DEF SyncInv
<1>1. /\ symbol \in Symbols /\ size \in Nat /\ intent.side \in Sides
      /\ positions[symbol] \in Position /\ intent.price \in Nat
      /\ positions \in [Symbols -> Position]
  BY DEF IInv, TypeOK, MtmTypeOK, Intent
<1>2. StillMoves(y, orders, Ahead(y)) /\ Ahead(y) \in Int
  BY AheadInt DEF SyncInv
<1>3. positions[y].qty \in Int /\ brokerQty[y] \in Int /\ Unbooked(y) \in Int
      /\ Signed(intent.side, size) \in Int
  BY AheadInt
<1>4. CASE UNCHANGED <<broker, positions>> /\ Unbooked(y)' = Unbooked(y)
  <2>1. Ahead(y)' = Ahead(y) /\ orders' = orders
    BY <1>4 DEF Ahead, broker
  <2> QED
    BY <1>2, <2>1
<1>5. CASE WorkerStep
  <2>1. WorkerSends
    BY <1>5, WorkerReachesBroker
  <2>2. CASE /\ AcceptOrder(symbol, intent.side, size) /\ pc = "place" /\ pc' = "placed"
             /\ UNCHANGED <<positions, symbol, intent, size>>
    <3> DEFINE d == IF y = symbol THEN Signed(intent.side, size) ELSE 0
    <3>1. StillMoves(y, orders', Ahead(y) + d)
      BY <1>1, <1>2, <2>2, AcceptMoves
    <3>2. Unbooked(y) = 0 /\ Unbooked(y)' = d /\ brokerQty' = brokerQty
      BY <2>2 DEF Unbooked, AcceptOrder
    <3>3. d \in Int
      BY <1>3
    <3> HIDE DEF d
    <3>4. Ahead(y)' = Ahead(y) + d
      BY <1>3, <2>2, <3>2, <3>3 DEF Ahead
    <3> QED
      BY <3>1, <3>4
  <2>3. CASE /\ pc = "fill" /\ pc' = "finally" /\ UNCHANGED broker
             /\ ApplyOrderFill(symbol, intent.side, size, intent.price)
    <3>1. size > 0
      BY <2>3 DEF IInv, DecisionSound, Flying
    <3>2. Filled(positions[symbol], intent.side, size, intent.price).qty
            = positions[symbol].qty + Signed(intent.side, size)
      <4>1. positions[symbol].qty \in Int
        BY <1>1 DEF Position
      <4> QED
        BY <1>1, <1>3, <3>1, <4>1 DEF Filled, Flat
    <3>3. positions'[y].qty = positions[y].qty + Unbooked(y)
      BY <1>1, <1>3, <2>3, <3>2 DEF ApplyOrderFill, Unbooked
    <3>4. Unbooked(y)' = 0 /\ orders' = orders /\ brokerQty' = brokerQty
      BY <2>3 DEF Unbooked, broker
    <3>5. Ahead(y)' = Ahead(y)
      BY <1>3, <3>3, <3>4 DEF Ahead
    <3> QED
      BY <1>2, <3>4, <3>5
  <2> QED
    BY <1>4, <2>1, <2>2, <2>3 DEF WorkerSends
<1>6. CASE ExchangeStep
  <2>1. PICK i \in DOMAIN orders : FillOrder(i) \/ OrderAges(i)
    BY <1>6 DEF ExchangeStep
  <2>2. StillMoves(y, orders', Ahead(y) - (brokerQty'[y] - brokerQty[y]))
    BY <1>2, <2>1, ExchangeMoves
  <2>3. UNCHANGED <<positions, pc, symbol, intent, size>>
    BY <1>6 DEF ExchangeStep, worker, decision
  <2>4. Unbooked(y)' = Unbooked(y)
    BY <2>3 DEF Unbooked
  <2>5. BrokerTypeOK'
    BY BrokerTypeNext
  <2>6. brokerQty'[y] \in Int
    BY <2>5 DEF BrokerTypeOK
  <2>7. Ahead(y)' = Ahead(y) - (brokerQty'[y] - brokerQty[y])
    BY <1>3, <2>3, <2>4, <2>6 DEF Ahead
  <2> QED
    BY <2>2, <2>7
<1>7. CASE \/ \E st \in SystemState : StateChanges(st)
           \/ \E c \in Capitals : BalanceFetched(c)
           \/ UNCHANGED vars
  <2>1. UNCHANGED <<broker, positions, pc, symbol, intent, size>>
    BY <1>7 DEF StateChanges, BalanceFetched, vars, worker, decision
  <2> QED
    BY <1>4, <2>1 DEF Unbooked
<1> QED
  BY <1>5, <1>6, <1>7 DEF Next, EnvironmentStep, ManualOrder

LEMMA SyncInit == Init => SyncInv
<1> SUFFICES ASSUME Init, NEW s \in Symbols PROVE StillMoves(s, orders, Ahead(s))
  BY DEF SyncInv
<1>1. orders = <<>> /\ positions[s].qty = 0 /\ brokerQty[s] = 0 /\ pc = "idle"
  BY DEF Init, BrokerInit, MtmInit, Flat
<1>2. Ahead(s) = 0
  BY <1>1 DEF Ahead, Unbooked
<1>3. Totals(0, MovesOf(s, orders), 0)
  BY TotalsOfNone
<1>4. Len(orders) = 0
  BY <1>1
<1> QED
  BY <1>2, <1>3, <1>4 DEF StillMoves

\* With no answer lost, no order rejected after it was accepted and none placed by hand,
\* the local position of a symbol is the broker's whenever nothing of it is in flight:
\* booking at the answer, and adopting an order instead of sending one, loses and doubles
\* nothing, for any number of open orders.  About execution_engine.py:68-132.
THEOREM BooksMatchBroker ==
    ASSUME Disturbances \cap {"lost_response", "exchange_reject", "manual_order"} = {}
    PROVE  Spec => []InSyncAtRest
<1>1. IInv /\ BrokerTypeOK /\ SyncInv => InSyncAtRest
  <2> SUFFICES ASSUME IInv, BrokerTypeOK, SyncInv, NEW s \in Symbols,
                      Settled \/ s # symbol, NoneOpen(s)
               PROVE  OpenQtyLocal(s) = brokerQty[s]
    BY DEF InSyncAtRest
  <2>1. Unbooked(s) = 0
    BY DEF Unbooked, Settled
  <2>2. Ahead(s) = 0
    BY NothingMoves DEF SyncInv
  <2> QED
    BY <2>1, <2>2, AheadInt DEF Ahead, OpenQtyLocal
<1>2. Init => BrokerTypeOK /\ SyncInv
  BY BrokerTypeInit, SyncInit
<1>3. IInv /\ BrokerTypeOK /\ SyncInv /\ [Next]_vars => (BrokerTypeOK /\ SyncInv)'
  BY BrokerTypeNext, SyncNext
<1> QED
  BY <1>1, <1>2, <1>3, Invariance, PTL DEF Spec

-----------------------------------------------------------------------------
(* The kill switch stops the pipeline: at most one straggler, for every     *)
(* number of strategies, symbols and retries.                               *)

\* A second decision would have to pass the READY check that stands between the
\* evaluation of an intent and the steps that lead to the broker.
StragglerInv ==
    /\ stragglers \in {0, 1}
    /\ sysState = "READY" => stragglers = 0
    /\ stragglers = 1 => pc \notin {"size", "precheck", "reserve", "sniff"}

LEMMA StragglerNext == ASSUME StragglerInv, [MCNext]_mcVars PROVE StragglerInv'
<1> USE DEF StragglerInv, CountStragglers, Least
<1>1. CASE sysState' = "READY" /\ MCNext
  BY <1>1 DEF MCNext
<1>2. CASE sysState' # "READY" /\ WorkerStep /\ CountStragglers
  <2>1. sysState' = sysState
    BY <1>2
    DEF WorkerStep, TakeCandle, StrategySignals, StrategySilent, CandleDone, RefuseIntent,
        ApproveExit, AdmitEntry, SizeEntry, PreCheck, ReserveForEntry, ReserveFails,
        SniffAdopts, SniffFindsNothing, SniffRaises, PlaceAccepted, PlaceResponseLost,
        PlaceRefused, AttemptFailed, EmitSuccess, ApplyFill, GiveUp, ReleaseLock
  <2>2. CASE pc \in {"size", "precheck", "reserve", "sniff"}
    <3>1. stragglers = 0
      BY <2>2
    <3>2. CASE pc = "sniff" /\ pc' = "place"
      BY <1>2, <2>1, <3>1, <3>2
    <3>3. CASE ~(pc = "sniff" /\ pc' = "place")
      BY <1>2, <2>1, <3>1, <3>3
    <3> QED
      BY <3>2, <3>3
  <2>3. CASE pc \notin {"size", "precheck", "reserve", "sniff"}
    <3>1. pc' \notin {"size", "precheck", "reserve", "sniff"}
      BY <1>2, <2>1, <2>3
      DEF WorkerStep, TakeCandle, StrategySignals, StrategySilent, CandleDone, RefuseIntent,
          ApproveExit, AdmitEntry, SizeEntry, PreCheck, ReserveForEntry, ReserveFails,
          SniffAdopts, SniffFindsNothing, SniffRaises, PlaceAccepted, PlaceResponseLost,
          PlaceRefused, AttemptFailed, EmitSuccess, ApplyFill, GiveUp, ReleaseLock,
          NextStrategy, Admitted
    <3>2. stragglers' = stragglers
      BY <1>2, <2>3
    <3> QED
      BY <2>1, <3>1, <3>2
  <2> QED
    BY <2>2, <2>3
<1>3. CASE sysState' # "READY" /\ EnvironmentStep /\ CountStragglers
  <2>1. pc' = pc
    BY <1>3 DEF EnvironmentStep, StateChanges, BalanceFetched, ManualOrder, ExchangeStep, worker
  <2>2. stragglers' = stragglers
    BY <1>3, <2>1
  <2>3. stragglers = 1 => pc' \notin {"size", "precheck", "reserve", "sniff"}
    BY <2>1
  <2> QED
    BY <1>3, <2>2, <2>3
<1>4. CASE UNCHANGED mcVars
  BY <1>4 DEF mcVars, vars, worker
<1> QED
  BY <1>1, <1>2, <1>3, <1>4 DEF MCNext, Next

\* After the system has left READY at most one more decision reaches the broker.
THEOREM KillSwitchStops == MCSpec => []OneStraggler
<1>1. MCInit => StragglerInv
  BY DEF MCInit, Init, StragglerInv
<1>2. StragglerInv /\ [MCNext]_mcVars => StragglerInv'
  BY StragglerNext
<1>3. StragglerInv => OneStraggler
  BY DEF StragglerInv, OneStraggler
<1> QED
  BY <1>1, <1>2, <1>3, PTL DEF MCSpec
=============================================================================
