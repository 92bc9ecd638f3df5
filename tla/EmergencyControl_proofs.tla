------------------------- MODULE EmergencyControl_proofs -------------------------
(***************************************************************************)
(* Proofs about the emergency path, for every number of symbols, waiting   *)
(* operators and liquidations alive at once.  They rest on the invariants  *)
(* of the trade pipeline and, for the quantities the exit sells, on the    *)
(* running totals of the open orders.                                      *)
(***************************************************************************)
EXTENDS MCEmergencyControl, TradePipeline_proofs

ControlInv == ControlTypeOK /\ IInv /\ BrokerTypeOK

\* An order by the liquidation: what the pipeline does not decide itself.
LiquidationTrades ==
    /\ UNCHANGED <<sysState, peakEquity, lockState, budget, positions, worker>>
    /\ \E s \in Symbols, side \in Sides, n \in Nat \ {0} : AcceptOrder(s, side, n)

LEMMA ExitOrder ==
    ASSUME NEW qty \in Int, qty # 0
    PROVE  /\ ExitSide(qty) \in Sides /\ AbsInt(qty) \in Nat \ {0}
           /\ Signed(ExitSide(qty), AbsInt(qty)) = -qty
  BY DEF ExitSide, AbsInt, Sides, Signed

LEMMA SellingFacts ==
    ASSUME ControlTypeOK, NEW i \in DOMAIN selling
    PROVE  /\ selling[i] \in [Symbols -> Int] /\ i \in 1..Len(selling) /\ Len(selling) \in Nat
           /\ \A s \in Symbols : [selling[i] EXCEPT ![s] = 0] \in [Symbols -> Int]
           /\ RemoveAt(selling, i) \in Seq([Symbols -> Int])
           /\ Len(RemoveAt(selling, i)) = Len(selling) - 1
<1>1. selling \in Seq([Symbols -> Int])
  BY DEF ControlTypeOK
<1>2. selling[i] \in [Symbols -> Int] /\ i \in 1..Len(selling) /\ Len(selling) \in Nat
  BY <1>1
<1>3. \A s \in Symbols : [selling[i] EXCEPT ![s] = 0] \in [Symbols -> Int]
  BY <1>2
<1>4. RemoveAt(selling, i) \in Seq([Symbols -> Int]) /\ Len(RemoveAt(selling, i)) = Len(selling) - 1
  BY <1>1, RemovedFrom
<1> QED
  BY <1>2, <1>3, <1>4

\* To the trade pipeline every step of the emergency path is a stutter, a change of the
\* system's state or an order by somebody else.
LEMMA ControlStep ==
    ASSUME ControlTypeOK, [ControlNext]_allVars
    PROVE  [Next]_vars \/ LiquidationTrades
<1>1. "TRADING_DISABLED" \in SystemState
  BY ControlAssumption DEF SystemState
<1>2. CASE (WorkerStep \/ SessionChanges \/ OperatorTrades \/ ExchangeStep) /\ UNCHANGED control
  BY <1>2 DEF SessionChanges, OperatorTrades, Next, EnvironmentStep
<1>3. CASE KillRequested \/ ReconStart \/ ReconFetch \/ ReconFails \/ LiquidationReads
           \/ (\E i \in DOMAIN selling : LiquidationDies(i)) \/ UNCHANGED allVars
  BY <1>3 DEF KillRequested, ReconStart, ReconFetch, ReconFails, LiquidationReads, LiquidationDies, allVars
<1>4. CASE KillSwitch \/ ReconPhantom
  <2>1. StateChanges("TRADING_DISABLED")
    BY <1>4 DEF KillSwitch, ReconPhantom, PublishEmergency, StateChanges
  <2> QED
    BY <1>1, <2>1 DEF Next, EnvironmentStep
<1>5. CASE ReconCompare
  <2>1. UNCHANGED vars \/ StateChanges("TRADING_DISABLED")
    BY <1>5 DEF ReconCompare, PublishEmergency, StateChanges, vars
  <2> QED
    BY <1>1, <2>1 DEF Next, EnvironmentStep
<1>6. ASSUME NEW i \in DOMAIN selling, NEW s \in Symbols, LiquidationSells(i, s)
      PROVE  LiquidationTrades
  <2>1. selling[i][s] \in Int
    BY SellingFacts
  <2>2. selling[i][s] # 0 /\ AcceptOrder(s, ExitSide(selling[i][s]), AbsInt(selling[i][s]))
        /\ UNCHANGED <<sysState, peakEquity, lockState, budget, positions, worker>>
    BY <1>6 DEF LiquidationSells
  <2> QED
    BY <2>1, <2>2, ExitOrder DEF LiquidationTrades
<1> QED
  BY <1>2, <1>3, <1>4, <1>5, <1>6 DEF ControlNext, ReconStep, LiquidationStep

LEMMA PipelineKept ==
    ASSUME ControlInv, [ControlNext]_allVars
    PROVE  IInv' /\ BrokerTypeOK'
<1>1. CASE [Next]_vars
  BY <1>1, NextInvariant, BrokerTypeNext DEF ControlInv
<1>2. CASE LiquidationTrades
  <2>1. BrokerTypeOK'
    <3>1. PICK s \in Symbols, side \in Sides, n \in Nat \ {0} : AcceptOrder(s, side, n)
      BY <1>2 DEF LiquidationTrades
    <3> QED
      BY <3>1, AcceptKeeps DEF ControlInv
  <2>2. UNCHANGED <<sysState, peakEquity, lockState, budget, positions, worker>> /\ IInv
    BY <1>2 DEF LiquidationTrades, ControlInv
  <2>3. IInv'
    BY <2>2
    DEF IInv, TypeOK, LockTypeOK, CapitalTypeOK, MtmTypeOK, LockMatchesFlight,
        HoldMatchesFlight, OneLongPerSymbol, DecisionSound, budget, worker, decision,
        IsExit, Cost, OpenQtyLocal
  <2> QED
    BY <2>1, <2>3
<1> QED
  BY <1>1, <1>2, ControlStep DEF ControlInv

\* The emergency path's own state.
EmergencyTypeOK ==
    /\ killRequests \in 0..MaxKillRequests
    /\ reconSeen \in [Symbols -> Int] \cup {None, Asked}
    /\ mismatchWatch \subseteq Symbols
    /\ created \in 0..MaxTasks
    /\ selling \in Seq([Symbols -> Int])

LEMMA PublishKeeps ==
    ASSUME ControlTypeOK, NEW n \in Nat, PublishEmergency(n)
    PROVE  created' \in 0..MaxTasks /\ selling' \in Seq([Symbols -> Int])
<1>1. created \in Nat /\ Len(selling) \in Nat /\ MaxTasks \in Nat
  BY ControlAssumption DEF ControlTypeOK
<1>2. selling \in Seq([Symbols -> Int])
  BY DEF ControlTypeOK
<1> QED
  BY <1>1, <1>2 DEF PublishEmergency

LEMMA EmergencyTypeNext ==
    ASSUME ControlInv, [ControlNext]_allVars
    PROVE  EmergencyTypeOK'
<1>1. EmergencyTypeOK /\ ControlTypeOK
  BY DEF ControlInv, ControlTypeOK, EmergencyTypeOK
<1> USE DEF EmergencyTypeOK
<1>2. CASE UNCHANGED control
  BY <1>1, <1>2 DEF control
<1>3. CASE KillRequested
  BY <1>1, <1>3, ControlAssumption DEF KillRequested
<1>4. CASE KillSwitch
  <2>1. created' \in 0..MaxTasks /\ selling' \in Seq([Symbols -> Int])
    BY <1>1, <1>4, PublishKeeps DEF KillSwitch
  <2>2. killRequests' \in 0..MaxKillRequests
    BY <1>1, <1>4, ControlAssumption DEF KillSwitch
  <2> QED
    BY <1>1, <1>4, <2>1, <2>2 DEF KillSwitch
<1>5. CASE ReconStart \/ ReconFetch \/ ReconFails
  <2>1. brokerQty \in [Symbols -> Int]
    BY DEF ControlInv, BrokerTypeOK
  <2> QED
    BY <1>1, <1>5, <2>1 DEF ReconStart, ReconFetch, ReconFails
<1>6. CASE ReconPhantom
  <2>1. created' \in 0..MaxTasks /\ selling' \in Seq([Symbols -> Int])
    BY <1>1, <1>6, PublishKeeps DEF ReconPhantom
  <2> QED
    BY <1>1, <1>6, <2>1 DEF ReconPhantom
<1>7. CASE ReconCompare
  <2>1. Overdue \subseteq Symbols
    BY <1>1 DEF Overdue
  <2>2. IsFiniteSet(Overdue)
    BY <2>1, SymbolsAssumption, FS_Subset
  <2>3. Cardinality(Overdue) \in Nat
    BY <2>2, FS_CardinalityType
  <2>4. created' \in 0..MaxTasks /\ selling' \in Seq([Symbols -> Int])
    <3>1. CASE Overdue = {}
      BY <1>1, <1>7, <3>1 DEF ReconCompare
    <3>2. CASE Overdue # {}
      BY <1>1, <1>7, <2>3, <3>2, PublishKeeps DEF ReconCompare
    <3> QED
      BY <3>1, <3>2
  <2> QED
    BY <1>1, <1>7, <2>4 DEF ReconCompare
<1>8. CASE LiquidationReads
  <2>1. brokerQty \in [Symbols -> Int]
    BY DEF ControlInv, BrokerTypeOK
  <2>2. selling' \in Seq([Symbols -> Int])
    BY <1>1, <1>8, <2>1 DEF LiquidationReads
  <2>3. created' \in 0..MaxTasks
    BY <1>1, <1>8, ControlAssumption DEF LiquidationReads
  <2> QED
    BY <1>1, <1>8, <2>2, <2>3 DEF LiquidationReads
<1>9. ASSUME NEW i \in DOMAIN selling, LiquidationDies(i) PROVE EmergencyTypeOK'
  BY <1>1, <1>9, SellingFacts DEF LiquidationDies
<1>10. ASSUME NEW i \in DOMAIN selling, NEW s \in Symbols, LiquidationSells(i, s)
       PROVE  EmergencyTypeOK'
  <2> DEFINE left == [selling[i] EXCEPT ![s] = 0]
  <2>1. left \in [Symbols -> Int] /\ RemoveAt(selling, i) \in Seq([Symbols -> Int])
    BY <1>1, SellingFacts
  <2>2. selling \in Seq([Symbols -> Int])
    BY <1>1
  <2>3. selling' = TasksAfter(i, left)
    BY <1>10 DEF LiquidationSells
  <2> HIDE DEF left
  <2>4. ReplaceAt(selling, i, left) \in Seq([Symbols -> Int])
    BY <2>1, <2>2, ReplacedIn
  <2>5. selling' \in Seq([Symbols -> Int])
    BY <2>1, <2>3, <2>4 DEF TasksAfter
  <2> QED
    BY <1>1, <1>10, <2>5 DEF LiquidationSells
<1> QED
  BY <1>2, <1>3, <1>4, <1>5, <1>6, <1>7, <1>8, <1>9, <1>10
  DEF ControlNext, ReconStep, LiquidationStep, allVars

LEMMA ControlInitInvariant == ControlInit => ControlInv
<1> SUFFICES ASSUME ControlInit PROVE ControlInv
  OBVIOUS
<1>1. IInv /\ BrokerTypeOK
  BY InitInvariant, BrokerTypeInit DEF ControlInit
<1>2. ControlTypeOK
  BY <1>1, ControlAssumption DEF IInv, ControlInit, ControlTypeOK
<1> QED
  BY <1>1, <1>2 DEF ControlInv

LEMMA ControlNextInvariant == ControlInv /\ [ControlNext]_allVars => ControlInv'
<1> SUFFICES ASSUME ControlInv, [ControlNext]_allVars PROVE ControlInv'
  OBVIOUS
<1>1. IInv' /\ BrokerTypeOK'
  BY PipelineKept
<1>2. EmergencyTypeOK'
  BY EmergencyTypeNext
<1>3. TypeOK'
  BY <1>1 DEF IInv
<1> QED
  BY <1>1, <1>2, <1>3 DEF ControlInv, ControlTypeOK, EmergencyTypeOK

\* The invariants of the pipeline survive everything the emergency path does to it.
THEOREM ControlInvariance == ControlSpec => []ControlInv
<1>1. ControlInit => ControlInv
  BY ControlInitInvariant
<1>2. ControlInv /\ [ControlNext]_allVars => ControlInv'
  BY ControlNextInvariant
<1> QED
  BY <1>1, <1>2, PTL DEF ControlSpec

\* Every variable of the pipeline and of the emergency path keeps its type, whatever the
\* operator, the reconciliation job and the liquidations do to the pipeline in between.
THEOREM ControlTypesHold == ControlSpec => []ControlTypeOK
<1>1. ControlInv => ControlTypeOK
  BY DEF ControlInv
<1> QED
  BY <1>1, ControlInvariance, PTL

\* The emergency path is no new environment for the trade pipeline: what it does is to
\* change the system's state and to order, in quantities nobody else chose.
THEOREM EmergencyIsEnvironment ==
    ASSUME "manual_order" \in Disturbances, Nat \ {0} \subseteq ManualSizes
    PROVE  ControlSpec => PipelineUndisturbed
<1>1. ControlInit => Init
  BY DEF ControlInit
<1>2. ControlInv /\ [ControlNext]_allVars => [Next]_vars
  <2> SUFFICES ASSUME ControlInv, [ControlNext]_allVars, LiquidationTrades PROVE [Next]_vars
    BY ControlStep DEF ControlInv
  <2>1. PICK s \in Symbols, side \in Sides, n \in Nat \ {0} : AcceptOrder(s, side, n)
    BY DEF LiquidationTrades
  <2>2. ManualOrder(s, side, n)
    BY <2>1 DEF ManualOrder, LiquidationTrades
  <2> QED
    BY <2>2 DEF Next, EnvironmentStep
<1> QED
  BY <1>1, <1>2, ControlInvariance, PTL DEF ControlSpec, PipelineUndisturbed, Spec

\* Kill switch, reconciliation and liquidations, in whatever quantities they sell, leak no
\* lock, orphan no hold and let no decision trade on what is no longer so: what the
\* pipeline keeps alone it keeps under the emergency path.
\* About kill_switch.py, broker_reconciliation.py and kite_service.py:235-262.
THEOREM PipelineSurvives ==
    ControlSpec => [](LockMatchesFlight /\ HoldMatchesFlight /\ OneLongPerSymbol /\ DecisionSound)
<1>1. ControlInv => LockMatchesFlight /\ HoldMatchesFlight /\ OneLongPerSymbol /\ DecisionSound
  BY DEF ControlInv, IInv
<1> QED
  BY <1>1, ControlInvariance, PTL

-----------------------------------------------------------------------------
(* The exit flattens.  While nothing overlaps with the one emergency, what the   *)
(* liquidation still has to sell of a symbol is what the broker holds once its   *)
(* open orders are filled.                                                       *)

\* What the one liquidation has left to sell.
LeftToSell(s) == IF selling = <<>> THEN 0 ELSE selling[1][s]

ExitInv ==
    emergency = "quiet" =>
        /\ sysState = "TRADING_DISABLED" /\ pc = "idle"
        /\ \/ created = 1 /\ selling = <<>> /\ \A s \in Symbols : NoneOpen(s)
           \/ /\ created = 0 /\ Len(selling) \in {0, 1}
              /\ \A s \in Symbols : StillMoves(s, orders, LeftToSell(s) - brokerQty[s])

LEMMA NothingOpenMoves ==
    ASSUME BrokerTypeOK, NEW s \in Symbols, NoneOpen(s)
    PROVE  StillMoves(s, orders, 0)
<1> DEFINE n == Len(orders)
           c == MovesOf(s, orders)
           f == [j \in 0..n |-> 0]
<1>1. orders \in Seq(OrderRecord) /\ DOMAIN orders = 1..n /\ n \in Nat
  BY DEF BrokerTypeOK
<1>2. \A i \in 1..n : c[i] = 0
  BY <1>1 DEF NoneOpen, Moves, MovesOf
<1> HIDE DEF c, n
<1>3. /\ f \in [0..n -> Int] /\ f[0] = 0 /\ f[n] = 0
      /\ \A i \in 1..n : f[i] = f[i - 1] + c[i]
      /\ \A j, k \in 0..n : f[k] = f[j]
  BY <1>1, <1>2
<1> HIDE DEF f
<1>4. Tally(n, c, f)
  BY <1>3 DEF Tally
<1> QED
  BY <1>3, <1>4 DEF Totals, StillMoves, n, c

\* Only one event, and only one that nothing overlaps with, begins a quiet emergency.
LEMMA QuietBegins ==
    ASSUME ControlInv, ControlNext, Published, Quiet
    PROVE  /\ sysState' = "TRADING_DISABLED" /\ pc' = "idle"
           /\ created' = 1 /\ selling' = <<>>
           /\ \A s \in Symbols : NoneOpen(s)'
<1>1. created \in Nat /\ ControlTypeOK
  BY DEF ControlInv, ControlTypeOK
<1>2. KillSwitch \/ ReconPhantom \/ ReconCompare
  <2>1. CASE UNCHANGED control \/ KillRequested \/ ReconStart \/ ReconFetch \/ ReconFails
    BY <1>1, <2>1 DEF Published, control, KillRequested, ReconStart, ReconFetch, ReconFails
  <2>2. CASE LiquidationReads
    BY <1>1, <2>2 DEF Published, LiquidationReads
  <2>3. CASE \E i \in DOMAIN selling :
                LiquidationDies(i) \/ \E s \in Symbols : LiquidationSells(i, s)
    <3>1. created' = created
      BY <2>3, Zenon DEF LiquidationDies, LiquidationSells
    <3> QED
      BY <1>1, <3>1 DEF Published
  <2> QED
    BY <2>1, <2>2, <2>3 DEF ControlNext, ReconStep, LiquidationStep
<1>3. sysState' = "TRADING_DISABLED" /\ UNCHANGED <<selling, broker, worker>>
  BY <1>1, <1>2 DEF KillSwitch, ReconPhantom, ReconCompare, PublishEmergency, Published
<1>4. selling = <<>> /\ pc = "idle" /\ created' = 1 /\ \A s \in Symbols : NoneOpen(s)
  BY DEF Quiet, Liquidating
<1>5. orders' = orders /\ pc' = pc
  BY <1>3 DEF broker, worker
<1>6. \A s \in Symbols : NoneOpen(s)'
  BY <1>4, <1>5 DEF NoneOpen
<1> QED
  BY <1>3, <1>4, <1>5, <1>6

\* The liquidation's own order moves the broker by what is no longer left to sell.
LEMMA ExitSells ==
    ASSUME ControlInv, NEW i \in DOMAIN selling, NEW s \in Symbols, LiquidationSells(i, s),
           Len(selling) \in {0, 1},
           \A y \in Symbols : StillMoves(y, orders, LeftToSell(y) - brokerQty[y])
    PROVE  /\ Len(selling') \in {0, 1}
           /\ \A y \in Symbols : StillMoves(y, orders', LeftToSell(y)' - brokerQty'[y])
<1> DEFINE left == [selling[i] EXCEPT ![s] = 0]
           qty == selling[i][s]
<1>1. /\ ControlTypeOK /\ BrokerTypeOK /\ brokerQty \in [Symbols -> Int]
      /\ selling \in Seq([Symbols -> Int])
  BY DEF ControlInv, ControlTypeOK, BrokerTypeOK
<1>2. i = 1 /\ Len(selling) = 1 /\ selling[i] \in [Symbols -> Int]
  BY <1>1, SellingFacts
<1>a. selling # <<>>
  OBVIOUS
<1>3. \A y \in Symbols : LeftToSell(y) = selling[1][y] /\ LeftToSell(y) \in Int
  BY <1>2, <1>a DEF LeftToSell
<1>4. /\ left \in [Symbols -> Int] /\ left[s] = 0
      /\ \A y \in Symbols \ {s} : left[y] = selling[1][y]
  BY <1>2
<1>5. /\ qty \in Int /\ qty # 0 /\ brokerQty' = brokerQty
      /\ AcceptOrder(s, ExitSide(qty), AbsInt(qty))
      /\ selling' = TasksAfter(i, left)
  BY <1>2 DEF LiquidationSells, AcceptOrder
<1>6. LeftToSell(s) = qty
  BY <1>2, <1>3
<1> HIDE DEF left, qty
<1>7. ExitSide(qty) \in Sides /\ AbsInt(qty) \in Nat /\ Signed(ExitSide(qty), AbsInt(qty)) = -qty
  BY <1>5, ExitOrder
<1>8. Len(selling') \in {0, 1} /\ \A y \in Symbols : LeftToSell(y)' = left[y]
  <2>1. CASE \A y \in Symbols : left[y] = 0
    <3>1. selling' = RemoveAt(selling, i)
      BY <1>5, <2>1 DEF TasksAfter
    <3>2. selling' \in Seq([Symbols -> Int]) /\ Len(selling') = 0
      BY <1>1, <1>2, <3>1, SellingFacts
    <3>3. selling' = <<>>
      BY <3>2
    <3> QED
      BY <2>1, <3>2, <3>3 DEF LeftToSell
  <2>2. CASE ~ \A y \in Symbols : left[y] = 0
    <3>1. selling' = ReplaceAt(selling, i, left)
      BY <1>5, <2>2 DEF TasksAfter
    <3>2. Len(selling') = 1 /\ selling'[1] = left /\ selling' \in Seq([Symbols -> Int])
      <4>1. i \in DOMAIN selling /\ left \in [Symbols -> Int] /\ selling \in Seq([Symbols -> Int])
        BY <1>1, <1>4
      <4>2. /\ ReplaceAt(selling, i, left) \in Seq([Symbols -> Int])
            /\ Len(ReplaceAt(selling, i, left)) = Len(selling)
            /\ ReplaceAt(selling, i, left)[i] = left
        BY <4>1, ReplacedIn
      <4> QED
        BY <1>2, <3>1, <4>2
    <3>3. selling' # <<>>
      BY <3>2
    <3> QED
      BY <3>2, <3>3 DEF LeftToSell
  <2> QED
    BY <2>1, <2>2
<1>9. ASSUME NEW y \in Symbols PROVE StillMoves(y, orders', LeftToSell(y)' - brokerQty'[y])
  <2>1. StillMoves(y, orders, LeftToSell(y) - brokerQty[y])
    OBVIOUS
  <2>2. StillMoves(y, orders', (LeftToSell(y) - brokerQty[y])
                                  + IF y = s THEN Signed(ExitSide(qty), AbsInt(qty)) ELSE 0)
    BY <1>1, <1>5, <1>7, <2>1, AcceptMoves
  <2>3. LeftToSell(y) \in Int /\ brokerQty[y] \in Int /\ left[y] \in Int
        /\ brokerQty'[y] = brokerQty[y] /\ LeftToSell(y)' = left[y]
    BY <1>1, <1>3, <1>4, <1>5, <1>8
  <2>4. left[y] = IF y = s THEN 0 ELSE LeftToSell(y)
    BY <1>3, <1>4
  <2>5. (LeftToSell(y) - brokerQty[y])
            + (IF y = s THEN Signed(ExitSide(qty), AbsInt(qty)) ELSE 0)
          = LeftToSell(y)' - brokerQty'[y]
    BY <1>5, <1>6, <1>7, <2>3, <2>4
  <2> QED
    BY <2>2, <2>5
<1> QED
  BY <1>8, <1>9

\* A quiet emergency that a step leaves quiet keeps the account.
LEMMA QuietGoesOn ==
    ASSUME ControlInv, ControlInv', ExitInv, ControlNext, ObserveEmergency,
           ~Published, emergency = "quiet", emergency' = "quiet",
           Disturbances \cap {"exchange_reject", "liquidation_error"} = {}
    PROVE  ExitInv'
<1>1. /\ sysState = "TRADING_DISABLED" /\ pc = "idle"
      /\ sysState' = "TRADING_DISABLED" /\ ~OthersOrder
      /\ ControlTypeOK /\ BrokerTypeOK
  BY DEF ExitInv, ObserveEmergency, ControlInv
<1>2. \/ created = 1 /\ selling = <<>> /\ \A s \in Symbols : NoneOpen(s)
      \/ /\ created = 0 /\ Len(selling) \in {0, 1}
         /\ \A s \in Symbols : StillMoves(s, orders, LeftToSell(s) - brokerQty[s])
  BY DEF ExitInv
<1>3. selling \in Seq([Symbols -> Int]) /\ created \in Nat /\ brokerQty \in [Symbols -> Int]
  BY <1>1 DEF ControlTypeOK, BrokerTypeOK
<1>4. CASE UNCHANGED <<created, selling, broker, worker>>
  <2>1. pc' = pc /\ orders' = orders /\ brokerQty' = brokerQty
    BY <1>4 DEF broker, worker
  <2>2. \A s \in Symbols : LeftToSell(s)' = LeftToSell(s)
    BY <1>4 DEF LeftToSell
  <2>3. \A s \in Symbols : NoneOpen(s)' <=> NoneOpen(s)
    BY <2>1 DEF NoneOpen
  <2> QED
    BY <1>1, <1>2, <1>4, <2>1, <2>2, <2>3 DEF ExitInv
<1>5. CASE ExchangeStep /\ UNCHANGED control
  <2>1. UNCHANGED <<created, selling>> /\ pc' = pc
    BY <1>5 DEF ExchangeStep, control, worker
  <2>2. PICK i \in DOMAIN orders : FillOrder(i) \/ OrderAges(i)
    BY <1>5 DEF ExchangeStep
  <2>3. brokerQty' \in [Symbols -> Int] /\ \A s \in Symbols : LeftToSell(s)' = LeftToSell(s)
    BY <2>1 DEF ControlInv, BrokerTypeOK, LeftToSell
  <2>4. ASSUME \A s \in Symbols : NoneOpen(s)
        PROVE  \A s \in Symbols : NoneOpen(s)'
    <3>1. orders \in Seq(OrderRecord) /\ orders[i] \in OrderRecord
          /\ DOMAIN orders = 1..Len(orders) /\ Len(orders) \in Nat
      BY <1>1 DEF BrokerTypeOK
    <3>2. \A j \in DOMAIN orders : orders[j].status # "OPEN"
      BY <2>4, <3>1, OrderFacts DEF NoneOpen
    <3>3. orders' = RemoveAt(orders, i)
      BY <2>2, <3>2 DEF FillOrder, OrderEnds, OrderAges
    <3>4. /\ orders' \in Seq(OrderRecord) /\ Len(orders') = Len(orders) - 1
          /\ \A m \in 1..(Len(orders) - 1) :
                orders'[m] = IF m < i THEN orders[m] ELSE orders[m + 1]
      BY <3>1, <3>3, RemovedFrom
    <3>5. \A m \in DOMAIN orders' : orders'[m].status # "OPEN"
      <4> SUFFICES ASSUME NEW m \in DOMAIN orders' PROVE orders'[m].status # "OPEN"
        OBVIOUS
      <4>1. m \in 1..(Len(orders) - 1)
        BY <3>4
      <4>2. m \in DOMAIN orders /\ m + 1 \in DOMAIN orders
        BY <3>1, <4>1
      <4> QED
        BY <3>2, <3>4, <4>1, <4>2
    <3> QED
      BY <3>5 DEF NoneOpen
  <2>5. ASSUME NEW s \in Symbols, LeftToSell(s) \in Int,
               StillMoves(s, orders, LeftToSell(s) - brokerQty[s])
        PROVE  StillMoves(s, orders', LeftToSell(s)' - brokerQty'[s])
    <3>1. /\ LeftToSell(s) - brokerQty[s] \in Int
          /\ (LeftToSell(s) - brokerQty[s]) - (brokerQty'[s] - brokerQty[s])
               = LeftToSell(s)' - brokerQty'[s]
      BY <1>3, <2>3, <2>5
    <3>2. StillMoves(s, orders',
                     (LeftToSell(s) - brokerQty[s]) - (brokerQty'[s] - brokerQty[s]))
      BY <1>1, <2>2, <2>5, <3>1, ExchangeMoves
    <3> QED
      BY <3>1, <3>2
  <2>6. \A s \in Symbols : LeftToSell(s) \in Int
    BY <1>3 DEF LeftToSell
  <2>7. CASE created = 1 /\ selling = <<>> /\ \A s \in Symbols : NoneOpen(s)
    BY <1>1, <2>1, <2>4, <2>7 DEF ExitInv
  <2>8. CASE /\ created = 0 /\ Len(selling) \in {0, 1}
             /\ \A s \in Symbols : StillMoves(s, orders, LeftToSell(s) - brokerQty[s])
    <3>1. \A s \in Symbols : StillMoves(s, orders', LeftToSell(s)' - brokerQty'[s])
      BY <2>5, <2>6, <2>8
    <3> QED
      BY <1>1, <2>1, <2>8, <3>1 DEF ExitInv
  <2> QED
    BY <1>2, <2>7, <2>8
<1>6. CASE LiquidationReads
  <2>1. created = 1 /\ selling = <<>> /\ created' = 0 /\ \A s \in Symbols : NoneOpen(s)
    BY <1>2, <1>6 DEF LiquidationReads
  <2>2. pc' = pc /\ orders' = orders /\ brokerQty' = brokerQty
        /\ selling' = IF \E s \in Symbols : brokerQty[s] # 0
                      THEN Append(selling, brokerQty) ELSE selling
    BY <1>6 DEF LiquidationReads, vars, broker, worker
  <2>3. Len(selling') \in {0, 1} /\ \A s \in Symbols : LeftToSell(s)' = brokerQty[s]
    <3>1. CASE \E s \in Symbols : brokerQty[s] # 0
      <4>1. selling' = <<brokerQty>>
        BY <2>1, <2>2, <3>1
      <4>2. Len(selling') = 1 /\ selling' # <<>> /\ selling'[1] = brokerQty
        BY <4>1
      <4> QED
        BY <4>2 DEF LeftToSell
    <3>2. CASE \A s \in Symbols : brokerQty[s] = 0
      BY <2>1, <2>2, <3>2 DEF LeftToSell
    <3> QED
      BY <3>1, <3>2
  <2>4. \A s \in Symbols : StillMoves(s, orders, 0)
    BY <1>1, <2>1, NothingOpenMoves
  <2>5. \A s \in Symbols : StillMoves(s, orders', LeftToSell(s)' - brokerQty'[s])
    <3> SUFFICES ASSUME NEW s \in Symbols
                 PROVE  StillMoves(s, orders', LeftToSell(s)' - brokerQty'[s])
      OBVIOUS
    <3>1. LeftToSell(s)' - brokerQty'[s] = 0
      BY <1>3, <2>2, <2>3
    <3> QED
      BY <2>2, <2>4, <3>1
  <2> QED
    BY <1>1, <2>1, <2>2, <2>3, <2>5 DEF ExitInv
<1>7. ASSUME NEW i \in DOMAIN selling, NEW s \in Symbols, LiquidationSells(i, s) PROVE ExitInv'
  <2>1. selling # <<>>
    BY <1>3
  <2>2. created = 0 /\ Len(selling) \in {0, 1}
        /\ \A y \in Symbols : StillMoves(y, orders, LeftToSell(y) - brokerQty[y])
    BY <1>2, <2>1
  <2>3. Len(selling') \in {0, 1}
        /\ \A y \in Symbols : StillMoves(y, orders', LeftToSell(y)' - brokerQty'[y])
    BY <1>7, <2>2, ExitSells
  <2>4. created' = created /\ pc' = pc
    BY <1>7 DEF LiquidationSells, worker
  <2> QED
    BY <1>1, <2>2, <2>3, <2>4 DEF ExitInv
<1>8. CASE WorkerStep
  BY <1>1, <1>8
  DEF WorkerStep, TakeCandle, StrategySignals, StrategySilent, CandleDone, RefuseIntent,
      ApproveExit, AdmitEntry, SizeEntry, PreCheck, ReserveForEntry, ReserveFails,
      SniffAdopts, SniffFindsNothing, SniffRaises, PlaceAccepted, PlaceResponseLost,
      PlaceRefused, EmitSuccess, ApplyFill, GiveUp, ReleaseLock
<1>9. CASE OperatorTrades /\ UNCHANGED control
  <2>1. PICK s \in Symbols, side \in Sides, n \in ManualSizes : AcceptOrder(s, side, n)
    BY <1>9 DEF OperatorTrades, ManualOrder
  <2>2. Len(orders') = Len(orders) + 1 /\ Len(orders) \in Nat
    BY <1>1, <2>1 DEF AcceptOrder, BrokerTypeOK
  <2> QED
    BY <1>1, <1>9, <2>2 DEF OthersOrder, control
<1>10. CASE SessionChanges /\ UNCHANGED control
  BY <1>4, <1>10 DEF SessionChanges, StateChanges, BalanceFetched, control
<1>11. CASE KillRequested \/ ReconStart \/ ReconFetch \/ ReconFails
  BY <1>4, <1>11 DEF KillRequested, ReconStart, ReconFetch, ReconFails, vars, broker, worker
<1>12. CASE KillSwitch
  BY <1>3, <1>12 DEF KillSwitch, PublishEmergency, Published
<1>13. CASE ReconPhantom
  BY <1>3, <1>13 DEF ReconPhantom, PublishEmergency, Published
<1>14. CASE ReconCompare
  <2>1. Cardinality(Overdue) \in Nat
    <3>1. Overdue \subseteq Symbols
      BY <1>1 DEF Overdue, ControlTypeOK
    <3> QED
      BY <3>1, SymbolsAssumption, FS_Subset, FS_CardinalityType
  <2>2. created' = created
    <3>1. CASE Overdue = {}
      BY <1>14, <3>1 DEF ReconCompare
    <3>2. CASE Overdue # {}
      <4>1. created' = created + Cardinality(Overdue)
        BY <1>14, <3>2 DEF ReconCompare, PublishEmergency
      <4> QED
        BY <1>3, <2>1, <4>1 DEF Published
    <3> QED
      BY <3>1, <3>2
  <2>3. UNCHANGED <<selling, broker, worker>>
    BY <1>14 DEF ReconCompare, PublishEmergency
  <2> QED
    BY <1>4, <2>2, <2>3
<1> QED
  BY <1>5, <1>6, <1>7, <1>8, <1>9, <1>10, <1>11, <1>12, <1>13, <1>14
  DEF ControlNext, ReconStep, LiquidationStep, LiquidationDies

LEMMA ExitNext ==
    ASSUME ControlInv, ControlInv', ExitInv, [WatchedNext]_watchedVars,
           Disturbances \cap {"exchange_reject", "liquidation_error"} = {}
    PROVE  ExitInv'
<1>1. CASE UNCHANGED watchedVars
  <2>1. UNCHANGED <<sysState, pc, created, selling, orders, brokerQty, emergency>>
    BY <1>1 DEF watchedVars, allVars, vars, broker, worker, control
  <2>2. \A s \in Symbols : LeftToSell(s)' = LeftToSell(s) /\ (NoneOpen(s)' <=> NoneOpen(s))
    BY <2>1 DEF LeftToSell, NoneOpen
  <2> QED
    BY <2>1, <2>2 DEF ExitInv
<1>2. CASE WatchedNext /\ emergency' = "quiet"
  <2>1. CASE Published
    <3>1. Quiet
      BY <1>2, <2>1 DEF WatchedNext, ObserveEmergency
    <3> QED
      BY <1>2, <2>1, <3>1, QuietBegins DEF WatchedNext, ExitInv
  <2>2. CASE ~Published
    <3>1. emergency = "quiet"
      BY <1>2, <2>2 DEF WatchedNext, ObserveEmergency
    <3> QED
      BY <1>2, <2>2, <3>1, QuietGoesOn DEF WatchedNext
  <2> QED
    BY <2>1, <2>2
<1> QED
  BY <1>1, <1>2 DEF ExitInv

\* One emergency event that meets a quiet pipeline flattens the broker: whatever was bought
\* or sold short before, for any number of symbols and whatever the exchange fills in what
\* order, provided that it fills what it accepted and no call of the exit itself fails
\* (kite_service.py:235).
THEOREM QuietEmergencyFlattens ==
    ASSUME Disturbances \cap {"exchange_reject", "liquidation_error"} = {}
    PROVE  WatchedSpec => []QuietLiquidationFlattens
<1>1. WatchedInit => ControlInv /\ ExitInv
  BY ControlInitInvariant DEF WatchedInit, ExitInv
<1>2. ControlInv /\ ExitInv /\ [WatchedNext]_watchedVars => (ControlInv /\ ExitInv)'
  <2> SUFFICES ASSUME ControlInv, ExitInv, [WatchedNext]_watchedVars
               PROVE  ControlInv' /\ ExitInv'
    OBVIOUS
  <2>1. [ControlNext]_allVars
    BY DEF WatchedNext, watchedVars
  <2>2. ControlInv'
    BY <2>1, ControlNextInvariant
  <2> QED
    BY <2>2, ExitNext
<1>3. ControlInv /\ ExitInv => QuietLiquidationFlattens
  <2> SUFFICES ASSUME ControlInv, ExitInv, emergency = "quiet", Quiesced, NEW s \in Symbols
               PROVE  brokerQty[s] = 0
    BY DEF QuietLiquidationFlattens, BrokerFlat
  <2>1. created \in Nat /\ selling = <<>> /\ ~(created > 0) /\ NoneOpen(s)
        /\ BrokerTypeOK /\ brokerQty[s] \in Int
    BY DEF ControlInv, ControlTypeOK, Quiesced, Liquidating, BrokerTypeOK
  <2>2. StillMoves(s, orders, LeftToSell(s) - brokerQty[s])
    BY <2>1 DEF ExitInv
  <2>3. LeftToSell(s) - brokerQty[s] = 0
    BY <2>1, <2>2, NothingMoves
  <2> QED
    BY <2>1, <2>3 DEF LeftToSell
<1> QED
  BY <1>1, <1>2, <1>3, PTL DEF WatchedSpec
=============================================================================
