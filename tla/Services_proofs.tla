----------------------------- MODULE Services_proofs -----------------------------
(***************************************************************************)
(* The services of the backend beside the trading pipeline: the capital    *)
(* registry under its clients, the shared order cache, the session and the *)
(* tick stream, each for any number of clients, callers, tasks, tickers    *)
(* and strategies; and their composition, which implements each of them    *)
(* and so has their properties.                                            *)
(***************************************************************************)
EXTENDS MCServices, CapitalRegistry_proofs, StrategyStore_proofs

-----------------------------------------------------------------------------
(* The capital registry and its clients *)

LEMMA ClientsNextType == ASSUME ClientsTypeOK, [ClientsNext]_clientVars PROVE ClientsTypeOK'
<1> USE CapitalAssumption, ClientsAssumption DEF ClientsTypeOK, CapitalTypeOK, Reservation
<1>1. CASE Reserve /\ UNCHANGED now
  <2>1. PICK r \in ReservationIds, a \in Amounts : ReserveCapital(r, a, now)
    BY <1>1 DEF Reserve
  <2> DEFINE hold == [amount |-> a, at |-> now]
  <2>2. hold \in Reservation /\ hold.at = now
    OBVIOUS
  <2>3. reservations' = [x \in DOMAIN reservations \cup {r} |->
                            IF x = r THEN hold ELSE reservations[x]]
    BY <2>1 DEF ReserveCapital
  <2> HIDE DEF hold
  <2>4. /\ DOMAIN reservations' = DOMAIN reservations \cup {r}
        /\ \A x \in DOMAIN reservations' :
              reservations'[x] = IF x = r THEN hold ELSE reservations[x]
    BY <2>3
  <2>5. UNCHANGED <<totalCapital, usedCapital>>
    BY <2>1 DEF ReserveCapital
  <2> QED
    BY <1>1, <2>2, <2>4, <2>5
<1>2. CASE OrderSucceeded /\ UNCHANGED now
  <2>1. PICK r \in ReservationIds : ConfirmReservation(r)
    BY <1>2 DEF OrderSucceeded
  <2>2. usedCapital' \in Nat
    BY <2>1 DEF ConfirmReservation
  <2> QED
    BY <1>2, <2>1, <2>2 DEF ConfirmReservation, Forget, Restrict
<1>3. CASE OrderFailed /\ UNCHANGED now
  BY <1>3 DEF OrderFailed, ReleaseReservation, Forget, Restrict
<1>4. CASE ExitSucceeded /\ UNCHANGED now
  BY <1>4 DEF ExitSucceeded, ReleaseDeployed
<1>5. CASE BalanceFetched /\ UNCHANGED now
  BY <1>5 DEF BalanceFetched, SeedCapital
<1>6. CASE SweepExpired /\ UNCHANGED now
  BY <1>6 DEF SweepExpired, Forget, Restrict
<1>7. CASE Tick
  BY <1>7 DEF Tick, budget
<1>8. CASE UNCHANGED clientVars
  BY <1>8 DEF clientVars, budget
<1> QED
  BY <1>1, <1>2, <1>3, <1>4, <1>5, <1>6, <1>7, <1>8 DEF ClientsNext

\* The types, and that no hold is dated in the future.
THEOREM ClientsTypeCorrect == ClientsSpec => []ClientsTypeOK
<1>1. ClientsInit => ClientsTypeOK
  BY CapitalAssumption
  DEF ClientsInit, BudgetInit, ClientsTypeOK, CapitalTypeOK, Reservation
<1>2. ClientsTypeOK /\ [ClientsNext]_clientVars => ClientsTypeOK'
  BY ClientsNextType
<1> QED
  BY <1>1, <1>2, PTL DEF ClientsSpec

\* Capital is only deployed by consuming one hold, so a repeated, late or swept
\* ORDER_SUCCESS deploys nothing.
THEOREM DeploymentsConsumeHolds == ClientsSpec => DeployedOnlyFromHold
<1>1. ASSUME ClientsTypeOK, [ClientsNext]_clientVars, usedCapital' > usedCapital
      PROVE  \E r \in DOMAIN reservations :
                /\ DOMAIN reservations' = DOMAIN reservations \ {r}
                /\ usedCapital' = usedCapital + reservations[r].amount
  <2> USE <1>1 DEF ClientsTypeOK, CapitalTypeOK, Reservation
  <2>1. CASE OrderSucceeded
    <3>1. PICK r \in ReservationIds : ConfirmReservation(r)
      BY <2>1 DEF OrderSucceeded
    <3>2. r \in DOMAIN reservations
      BY <3>1 DEF ConfirmReservation
    <3>3. DOMAIN reservations' = DOMAIN reservations \ {r}
      BY <3>1 DEF ConfirmReservation, Forget, Restrict
    <3>4. usedCapital' = usedCapital + reservations[r].amount
      BY <3>1, <3>2 DEF ConfirmReservation
    <3> QED
      BY <3>2, <3>3, <3>4
  <2>2. CASE ExitSucceeded
    <3>1. usedCapital' \in Nat /\ usedCapital' <= usedCapital
      BY <2>2, ClientsAssumption DEF ExitSucceeded, ReleaseDeployed
    <3> QED
      BY <3>1
  <2>3. CASE usedCapital' = usedCapital
    BY <2>3
  <2> QED
    BY <2>1, <2>2, <2>3
    DEF ClientsNext, Reserve, ReserveCapital, OrderFailed, ReleaseReservation, BalanceFetched,
        SeedCapital, SweepExpired, Tick, clientVars, budget
<1>2. ClientsTypeOK /\ [ClientsNext]_clientVars
      => [usedCapital' > usedCapital
          => \E r \in DOMAIN reservations :
                /\ DOMAIN reservations' = DOMAIN reservations \ {r}
                /\ usedCapital' = usedCapital + reservations[r].amount]_clientVars
  BY <1>1
<1> QED
  BY <1>2, ClientsTypeCorrect, PTL DEF ClientsSpec, DeployedOnlyFromHold

\* Only finitely many reservations are ever held, so their sum is defined.
FinitelyReserved == IsFiniteSet(DOMAIN reservations)

LEMMA ClientsReservable == ClientsTypeOK /\ FinitelyReserved => Reservable(reservations)
  BY DEF ClientsTypeOK, CapitalTypeOK, Reservation, FinitelyReserved, Reservable

LEMMA FinitelyReservedNext ==
    ASSUME FinitelyReserved, [ClientsNext]_clientVars PROVE FinitelyReserved'
<1> USE DEF FinitelyReserved
<1>1. CASE Reserve
  <2>1. PICK r \in ReservationIds : DOMAIN reservations' = DOMAIN reservations \cup {r}
    BY <1>1 DEF Reserve, ReserveCapital
  <2> QED
    BY <2>1, FS_AddElement
<1>2. CASE OrderSucceeded \/ OrderFailed \/ SweepExpired
  <2>1. PICK ids : Forget(ids)
    BY <1>2 DEF OrderSucceeded, OrderFailed, SweepExpired, ConfirmReservation, ReleaseReservation
  <2>2. DOMAIN reservations' \subseteq DOMAIN reservations
    BY <2>1 DEF Forget, Restrict
  <2> QED
    BY <2>2, FS_Subset
<1>3. CASE UNCHANGED reservations
  BY <1>3
<1> QED
  BY <1>1, <1>2, <1>3
  DEF ClientsNext, ExitSucceeded, ReleaseDeployed, BalanceFetched, SeedCapital, Tick, clientVars,
      budget

\* One step never overdraws a budget whose balance it leaves alone.
LEMMA StepSpendsOnce ==
    ASSUME ClientsTypeOK, FinitelyReserved, [ClientsNext]_clientVars,
           totalCapital' = totalCapital, AvailableCapital >= 0
    PROVE  AvailableCapital' >= 0
<1> DEFINE R == ReservedIn(reservations)
           S == ReservedIn(reservations')
<1>1. Reservable(reservations)
  BY ClientsReservable
<1>2. Reservable(reservations')
  <2>1. ClientsTypeOK' /\ FinitelyReserved'
    BY ClientsNextType, FinitelyReservedNext
  <2> QED
    BY <2>1 DEF ClientsTypeOK, CapitalTypeOK, Reservation, FinitelyReserved, Reservable
<1>3. R \in Nat /\ S \in Nat
  BY <1>1, <1>2, ReservedNat
<1>4. AvailableCapital = totalCapital - usedCapital - R
      /\ AvailableCapital' = totalCapital' - usedCapital' - S
  <2>1. Reserved = R
    BY Zenon DEF Reserved, ReservedIn
  <2>2. Reserved' = S
    BY Zenon DEF Reserved, ReservedIn, MapThenSumSet, MapThenFoldSet
  <2>3. AvailableCapital = totalCapital - usedCapital - Reserved
    BY Zenon DEF AvailableCapital
  <2>4. AvailableCapital' = totalCapital' - usedCapital' - Reserved'
    BY Zenon DEF AvailableCapital
  <2> QED
    BY Zenon, <2>1, <2>2, <2>3, <2>4
<1>5. totalCapital \in Nat /\ usedCapital \in Nat /\ usedCapital' \in Nat
  <2>1. CapitalTypeOK /\ ClientsTypeOK'
    BY ClientsNextType DEF ClientsTypeOK
  <2> QED
    BY <2>1, CapitalAssumption DEF ClientsTypeOK, CapitalTypeOK
<1> HIDE DEF R, S
<1>6. totalCapital - usedCapital - R >= 0
  BY <1>4
<1> SUFFICES totalCapital - usedCapital' - S >= 0
  BY <1>4
<1>7. CASE Reserve
  <2>1. PICK r \in ReservationIds, a \in Amounts : ReserveCapital(r, a, now)
    BY <1>7 DEF Reserve
  <2> DEFINE rec == [amount |-> a, at |-> now]
  <2>2. /\ r \notin DOMAIN reservations /\ AvailableCapital >= a /\ usedCapital' = usedCapital
        /\ reservations' = [x \in DOMAIN reservations \cup {r} |->
                               IF x = r THEN rec ELSE reservations[x]]
    BY <2>1 DEF ReserveCapital, Fresh
  <2>3. rec.amount = a /\ a \in Nat
    BY ClientsAssumption
  <2> HIDE DEF rec
  <2>4. S = R + rec.amount
    BY <1>1, <2>2, <2>3, ReservedAdd DEF R, S
  <2> QED
    BY <1>3, <1>4, <1>5, <2>2, <2>3, <2>4
<1>8. CASE OrderSucceeded
  <2>1. PICK r \in ReservationIds : ConfirmReservation(r)
    BY <1>8 DEF OrderSucceeded
  <2>2. reservations' = Restrict(reservations, DOMAIN reservations \ {r})
    BY <2>1 DEF ConfirmReservation, Forget
  <2>3. CASE r \in DOMAIN reservations
    <3>1. S = R - reservations[r].amount
      BY <1>1, <2>2, <2>3, ReservedDrop DEF R, S
    <3>2. usedCapital' = usedCapital + reservations[r].amount
      BY <2>1, <2>3 DEF ConfirmReservation
    <3>3. reservations[r].amount \in Nat
      BY <1>1, <2>3 DEF Reservable
    <3> QED
      BY <1>3, <1>5, <1>6, <3>1, <3>2, <3>3
  <2>4. CASE r \notin DOMAIN reservations
    <3>1. usedCapital' = usedCapital
      BY <1>5, <2>1, <2>4 DEF ConfirmReservation
    <3>2. S <= R
      BY <1>1, <2>2, ReservedForget DEF R, S
    <3> QED
      BY <1>3, <1>5, <1>6, <3>1, <3>2
  <2> QED
    BY <2>3, <2>4
<1>9. CASE OrderFailed \/ SweepExpired
  <2>1. usedCapital' = usedCapital
    BY <1>9 DEF OrderFailed, SweepExpired, ReleaseReservation
  <2>2. PICK ids : reservations' = Restrict(reservations, DOMAIN reservations \ ids)
    BY <1>9 DEF OrderFailed, SweepExpired, ReleaseReservation, Forget
  <2>3. S <= R
    BY <1>1, <2>2, ReservedForget DEF R, S
  <2> QED
    BY <1>3, <1>5, <1>6, <2>1, <2>3
<1>10. CASE ExitSucceeded
  <2>1. PICK a \in Amounts : ReleaseDeployed(a)
    BY <1>10 DEF ExitSucceeded
  <2>2. a \in Nat
    BY ClientsAssumption
  <2>3. usedCapital' <= usedCapital
    BY <1>5, <2>1, <2>2 DEF ReleaseDeployed
  <2>4. S = R
    BY <2>1 DEF ReleaseDeployed, R, S
  <2>5. \A t, u, v, x \in Nat : t - u - x >= 0 /\ v <= u => t - v - x >= 0
    OBVIOUS
  <2>6. totalCapital - usedCapital' - R >= 0
    BY <1>3, <1>5, <1>6, <2>3, <2>5
  <2> QED
    BY Zenon, <2>4, <2>6
<1>11. CASE BalanceFetched \/ Tick \/ UNCHANGED clientVars
  <2>1. usedCapital' = usedCapital /\ S = R
    BY <1>11 DEF BalanceFetched, SeedCapital, Tick, clientVars, budget, R, S
  <2> QED
    BY <1>6, <2>1
<1> QED
  BY <1>7, <1>8, <1>9, <1>10, <1>11 DEF ClientsNext

\* No double spending: no sequence of calls by any number of concurrent clients
\* takes a budget that was not overdrawn below zero while its balance stays.
THEOREM NoDoubleSpending == ClientsSpec => NoDoubleSpend
<1>1. ClientsInit => FinitelyReserved
  BY FS_EmptySet DEF ClientsInit, BudgetInit, FinitelyReserved
<1>2. FinitelyReserved /\ [ClientsNext]_clientVars => FinitelyReserved'
  BY FinitelyReservedNext
<1>3. ClientsTypeOK /\ FinitelyReserved /\ [ClientsNext]_clientVars
      => [(totalCapital' = totalCapital /\ AvailableCapital >= 0)
          => AvailableCapital' >= 0]_clientVars
  BY StepSpendsOnce
<1> QED
  BY <1>1, <1>2, <1>3, ClientsTypeCorrect, PTL DEF ClientsSpec, NoDoubleSpend

-----------------------------------------------------------------------------
(* The shared order cache *)

\* Nothing is known of an order before it is placed.
NothingAhead ==
    /\ announced <= placed
    /\ \A c \in Callers : ownFetch[c] <= placed /\ due[c] <= announced /\ due[c] >= 0
    /\ \A c \in Callers : answer[c] >= 0

\* A request of its own belongs to a call that fetches or has fetched, and its
\* answer is no older.
OwnRequests ==
    \A c \in Callers :
        /\ phase[c] \in {"idle", "missed"} => ownFetch[c] = -1
        /\ phase[c] \in {"answered", "returned"} /\ ownFetch[c] >= 0 => answer[c] >= ownFetch[c]

\* Without an overlap both what is cached and what is about to be cached hold all
\* that was announced.
CachedIsFresh ==
    ~overlapped =>
        /\ withinTTL => lastOrders >= announced
        /\ \A c \in Callers : /\ phase[c] = "answered" => answer[c] >= announced
                              /\ phase[c] = "returned" => answer[c] >= due[c]

CacheInv == CacheTypeOK /\ NothingAhead /\ OwnRequests /\ CachedIsFresh

LEMMA CacheInvInit == CacheInit => CacheInv
<1> SUFFICES ASSUME CacheInit PROVE CacheInv
  OBVIOUS
<1> USE CacheAssumption DEF CacheInit
<1>1. 0 \in 0..MaxOrders /\ 0 \in -1..MaxOrders /\ -1 \in -1..MaxOrders
  OBVIOUS
<1>2. /\ phase \in [Callers -> Phases]
      /\ answer \in [Callers -> -1..MaxOrders]
      /\ due \in [Callers -> -1..MaxOrders]
      /\ ownFetch \in [Callers -> -1..MaxOrders]
  BY <1>1 DEF Phases
<1>3. CacheTypeOK
  BY <1>1, <1>2 DEF CacheTypeOK
<1>4. NothingAhead /\ OwnRequests /\ CachedIsFresh
  BY DEF NothingAhead, OwnRequests, CachedIsFresh
<1> QED
  BY <1>3, <1>4 DEF CacheInv

USE DEF CacheInv, CacheTypeOK, Phases, NothingAhead, OwnRequests, CachedIsFresh,
        calls, history

\* One step of the cache keeps the invariant: one step per action.
LEMMA CacheInvNext == CacheInv /\ [CacheNext]_cacheVars => CacheInv'
<1> SUFFICES ASSUME CacheInv, [CacheNext]_cacheVars PROVE CacheInv'
  OBVIOUS
<1> USE CacheAssumption
<1>1. ASSUME NEW c \in Callers, GetOrders(c) PROVE CacheInv'
  <2>1. overlapped' = (overlapped /\ (withinTTL \/ ~ReadersIdle))
    BY <1>1 DEF GetOrders
  <2>2. overlapped' \in BOOLEAN
    BY <2>1, Zenon
  <2>3. ~overlapped' => ~overlapped \/ (~withinTTL /\ ReadersIdle)
    BY <2>1, Zenon
  <2>4. /\ UNCHANGED <<placed, lastOrders, withinTTL, ownFetch, placing, announced>>
        /\ due' = [due EXCEPT ![c] = announced]
        /\ phase[c] = "idle"
        /\ \/ /\ withinTTL /\ phase' = [phase EXCEPT ![c] = "returned"]
              /\ answer' = [answer EXCEPT ![c] = lastOrders]
           \/ /\ ~withinTTL /\ phase' = [phase EXCEPT ![c] = "missed"]
              /\ answer' = answer
    BY <1>1 DEF GetOrders, Return, Move
  <2>5. CacheTypeOK' /\ NothingAhead' /\ OwnRequests'
    BY <2>2, <2>4
  <2>6. ~overlapped' => \/ ~overlapped
                       \/ (~withinTTL /\ \A d \in Callers : phase[d] = "idle")
    BY <2>3 DEF ReadersIdle
  <2>7. CachedIsFresh'
    BY <2>4, <2>6
  <2> QED
    BY <2>5, <2>7
<1>2. ASSUME NEW c \in Callers, Recheck(c) PROVE CacheInv'
  <2>1. CASE withinTTL
    BY <1>2, <2>1 DEF Recheck, Return, Move
  <2>2. CASE ~withinTTL
    BY <1>2, <2>2 DEF Recheck, Return, Move
  <2> QED
    BY <2>1, <2>2
<1>3. ASSUME NEW c \in Callers, BrokerAnswers(c) PROVE CacheInv'
  BY <1>3 DEF BrokerAnswers, Move
<1>4. ASSUME NEW c \in Callers, FetchFails(c) PROVE CacheInv'
  BY <1>4 DEF FetchFails, Return, Move
<1>5. ASSUME NEW c \in Callers, Store(c) PROVE CacheInv'
  BY <1>5 DEF Store, Return, Move
<1>6. ASSUME NEW c \in Callers, Consume(c) PROVE CacheInv'
  BY <1>6 DEF Consume, Move
<1>7. CASE TTLExpires
  BY <1>7 DEF TTLExpires
<1>8. ASSUME NEW p \in Placers, PlaceOrder(p) PROVE CacheInv'
  BY <1>8 DEF PlaceOrder
<1>9. ASSUME NEW p \in Placers, Invalidate(p) PROVE CacheInv'
  <2>1. /\ announced' = placed /\ withinTTL' = FALSE
        /\ placing' \subseteq Placers
        /\ UNCHANGED <<placed, lastOrders, phase, answer, due, ownFetch>>
    BY <1>9 DEF Invalidate
  <2>2. overlapped' = (~ReadersIdle)
    BY <1>9 DEF Invalidate
  <2>3. overlapped' \in BOOLEAN
    BY <2>2
  <2>4. CacheTypeOK'
    BY <2>1, <2>3
  <2>5. (NothingAhead /\ OwnRequests)'
    BY <2>1
  <2>6. CachedIsFresh'
    BY <2>1, <2>2 DEF ReadersIdle
  <2> QED
    BY <2>4, <2>5, <2>6
<1>10. CASE UNCHANGED cacheVars
  BY <1>10 DEF cacheVars
<1> QED
  BY <1>1, <1>2, <1>3, <1>4, <1>5, <1>6, <1>7, <1>8, <1>9, <1>10 DEF CacheNext

\* The cache's state keeps its type, and nothing in it is newer than the broker's.
\* About SharedOrderCache, order_cache.py.
THEOREM CacheInvariance == CacheSpec => []CacheInv
<1>1. CacheInit => CacheInv
  BY CacheInvInit
<1>2. CacheInv /\ [CacheNext]_cacheVars => CacheInv'
  BY CacheInvNext
<1> QED
  BY <1>1, <1>2, PTL DEF CacheSpec

\* A caller that fetched for itself gets a list no older than its own request, for
\* any number of concurrent callers.  About the unlocked fetch, order_cache.py:40.
THEOREM OwnFetches == CacheSpec => []OwnFetchIsFresh
<1>1. CacheInv => OwnFetchIsFresh
  BY DEF OwnFetchIsFresh
<1> QED
  BY <1>1, CacheInvariance, PTL

\* Unless invalidate() overlapped a call, or a fetch failed since, and what that left
\* behind is not over, later calls see every order placed before it.
\* About invalidate(), order_cache.py:60-68.
THEOREM InvalidationWorks == CacheSpec => []FreshUnlessOverlapped
<1>1. CacheInv => FreshUnlessOverlapped
  BY DEF FreshUnlessOverlapped, FreshAfterInvalidate
<1> QED
  BY <1>1, CacheInvariance, PTL

HIDE DEF CacheInv, CacheTypeOK, Phases, NothingAhead, OwnRequests, CachedIsFresh,
         calls, history

-----------------------------------------------------------------------------
(* The session *)

\* What a task that is alone knows: it is about the active token, and a check that
\* found it invalid is right.
TaskKnows(task) ==
    /\ task.kind = "login" => \/ task.step = "session"
                              \/ activeToken # NoToken
    /\ task.kind = "check" => /\ activeToken # NoToken
                              /\ task.token = activeToken
                              /\ task.step = "invalid" => activeToken \notin validTokens

SessionInv ==
    /\ SessionTypeOK
    /\ ~crowded =>
          /\ \A i, j \in Tasks : tasks[i] # NoTask /\ tasks[j] # NoTask => i = j
          /\ \A j \in Tasks : tasks[j] # NoTask => TaskKnows(tasks[j])
          /\ serverState = "READY" => activeToken # NoToken

LEMMA SessionInvInit == SessionInit => SessionInv
<1> SUFFICES ASSUME SessionInit PROVE SessionInv
  OBVIOUS
<1>1. SessionTypeOK
  BY DEF SessionInit, SessionTypeOK
<1> QED
  BY <1>1 DEF SessionInit, SessionInv

USE DEF SessionInv, SessionTypeOK, InFlight, At

\* A task that goes on is the same task with another token or step.
LEMMA TaskParts ==
    \A task \in TaskRecords,
       step \in {"session", "profile", "valid", "invalid", "error", "margins"} :
        LET n == [task EXCEPT !.step = step]
        IN  n \in TaskRecords /\ n.kind = task.kind /\ n.token = task.token /\ n.step = step
  BY DEF TaskRecords

\* A task begins: alone, with the active token, or it crowds.
LEMMA CheckBeginsKeeps ==
    ASSUME SessionInv, NEW j \in Tasks, CheckBegins(j)
    PROVE  SessionInv'
<1> USE SessionAssumption DEF CheckBegins
<1>1. boot' \in {"new", "checked", "served"}
  OBVIOUS
<1>2. CASE activeToken = NoToken
  BY <1>1, <1>2 DEF TaskKnows
<1>3. CASE activeToken # NoToken
  <2> DEFINE new == [kind |-> "check", token |-> activeToken, step |-> "profile"]
  <2>1. /\ new \in TaskRecords /\ new.kind = "check" /\ new.token = activeToken
        /\ new.step = "profile"
    BY DEF TaskRecords
  <2> HIDE DEF new
  <2>2. /\ tasks' = [tasks EXCEPT ![j] = new] /\ tasks[j] = NoTask
        /\ crowded' = (InFlight # {})
        /\ UNCHANGED <<serverState, activeToken, validTokens>>
    <3>1. Begin(j, new) /\ UNCHANGED <<serverState, activeToken, validTokens>>
      BY <1>3 DEF new
    <3> QED
      BY <2>1, <3>1, Zenon DEF Begin
  <2> QED
    BY <1>1, <1>3, <2>1, <2>2 DEF TaskKnows
<1> QED
  BY <1>2, <1>3

\* The broker's answer about a token is true when it is given.
LEMMA AnswerKeeps ==
    ASSUME SessionInv, NEW j \in Tasks, NEW step \in {"valid", "invalid", "error"},
           ProfileAnswered(j, step)
    PROVE  SessionInv'
<1> USE SessionAssumption DEF ProfileAnswered
<1> DEFINE task == tasks[j]
           new == [task EXCEPT !.step = step]
<1>1. /\ task \in TaskRecords /\ task.step = "profile"
      /\ step \in {"session", "profile", "valid", "invalid", "error", "margins"}
  OBVIOUS
<1>2. new \in TaskRecords /\ new.kind = task.kind /\ new.token = task.token /\ new.step = step
  BY <1>1, TaskParts, Zenon
<1>3. tasks' = [tasks EXCEPT ![j] = new]
  BY DEF Goes
<1> HIDE DEF new
<1>4. SessionTypeOK'
  BY <1>2, <1>3
<1>5. tasks'[j] = new /\ \A i \in Tasks \ {j} : tasks'[i] = tasks[i]
  BY <1>3
<1>6. ~crowded => TaskKnows(tasks[j])'
  BY <1>1, <1>2, <1>5 DEF TaskKnows
<1> QED
  BY <1>2, <1>4, <1>5, <1>6 DEF TaskKnows

\* A check sets the state from what it knows.
LEMMA CheckEndsKeeps ==
    ASSUME SessionInv, NEW j \in Tasks, CheckEnds(j)
    PROVE  SessionInv'
<1> USE SessionAssumption DEF CheckEnds, Ends
<1>1. tasks' = [tasks EXCEPT ![j] = NoTask]
      /\ serverState' \in {serverState, "READY", "AUTH_REQUIRED"}
      /\ activeToken' \in {activeToken, NoToken}
  OBVIOUS
<1>2. SessionTypeOK'
  BY <1>1
<1>3. ~crowded => /\ \A i \in Tasks : tasks'[i] = NoTask
                  /\ serverState' = "READY" => activeToken' # NoToken
  BY <1>1 DEF TaskKnows
<1> QED
  BY <1>2, <1>3

\* A login begins and knows nothing yet.
LEMMA LoginBeginsKeeps ==
    ASSUME SessionInv, NEW j \in Tasks, LoginBegins(j)
    PROVE  SessionInv'
<1> USE SessionAssumption DEF LoginBegins
<1> DEFINE new == [kind |-> "login", token |-> NoToken, step |-> "session"]
<1>1. new \in TaskRecords /\ new.kind = "login" /\ new.step = "session"
  BY DEF TaskRecords
<1> HIDE DEF new
<1>2. /\ tasks' = [tasks EXCEPT ![j] = new] /\ tasks[j] = NoTask
      /\ crowded' = (InFlight # {} \/ crowded)
      /\ UNCHANGED <<serverState, boot, activeToken, validTokens>>
  <2>1. Begin(j, new) /\ UNCHANGED <<serverState, boot, activeToken, validTokens>>
    BY DEF new
  <2> QED
    BY <1>1, <2>1, Zenon DEF Begin
<1> QED
  BY <1>1, <1>2 DEF TaskKnows

\* A login stores the token it was given.
LEMMA LoginStoresKeeps ==
    ASSUME SessionInv, NEW j \in Tasks, NEW k \in Tokens, LoginStores(j, k)
    PROVE  SessionInv'
<1> USE SessionAssumption DEF LoginStores
<1> DEFINE new == [tasks[j] EXCEPT !.token = k, !.step = "profile"]
<1>1. new \in TaskRecords /\ new.kind = "login"
  BY DEF TaskRecords
<1> HIDE DEF new
<1>2. tasks' = [tasks EXCEPT ![j] = new]
  BY DEF new
<1>3. activeToken' = k /\ k # NoToken /\ validTokens' \subseteq Tokens
  OBVIOUS
<1>4. SessionTypeOK'
  BY <1>1, <1>2, <1>3
<1> QED
  BY <1>1, <1>2, <1>3, <1>4 DEF TaskKnows

\* A login that succeeds has a token.
LEMMA LoginSucceedsKeeps ==
    ASSUME SessionInv, NEW j \in Tasks, LoginSucceeds(j)
    PROVE  SessionInv'
<1> USE SessionAssumption DEF LoginSucceeds
<1> DEFINE task == tasks[j]
           new == [task EXCEPT !.step = "margins"]
<1>1. task \in TaskRecords /\ task.kind = "login" /\ task.step = "valid"
  OBVIOUS
<1>2. new \in TaskRecords /\ new.kind = "login" /\ new.step = "margins"
  BY <1>1, TaskParts, Zenon
<1>3. tasks' = [tasks EXCEPT ![j] = new]
  BY DEF Goes
<1> HIDE DEF new
<1>4. ~crowded => activeToken # NoToken
  BY <1>1 DEF TaskKnows
<1>5. SessionTypeOK'
  BY <1>2, <1>3
<1> QED
  BY <1>2, <1>3, <1>4, <1>5 DEF TaskKnows

\* One step of the session keeps the invariant.
LEMMA SessionInvNext == SessionInv /\ [SessionNext]_sessionVars => SessionInv'
<1> SUFFICES ASSUME SessionInv, [SessionNext]_sessionVars PROVE SessionInv'
  OBVIOUS
<1> USE SessionAssumption
<1>1. ASSUME NEW j \in Tasks, CheckBegins(j) PROVE SessionInv'
  BY <1>1, CheckBeginsKeeps
<1>2. ASSUME NEW j \in Tasks, NEW step \in {"valid", "invalid", "error"},
             ProfileAnswered(j, step)
      PROVE  SessionInv'
  BY <1>2, AnswerKeeps
<1>3. ASSUME NEW j \in Tasks, CheckEnds(j) PROVE SessionInv'
  BY <1>3, CheckEndsKeeps
<1>4. ASSUME NEW j \in Tasks, LoginBegins(j) PROVE SessionInv'
  BY <1>4, LoginBeginsKeeps
<1>5. ASSUME NEW j \in Tasks, NEW k \in Tokens, LoginStores(j, k) PROVE SessionInv'
  BY <1>5, LoginStoresKeeps
<1>6. ASSUME NEW j \in Tasks, LoginFails(j) PROVE SessionInv'
  BY <1>6 DEF LoginFails, Ends, TaskKnows
<1>7. ASSUME NEW j \in Tasks, LoginSucceeds(j) PROVE SessionInv'
  BY <1>7, LoginSucceedsKeeps
<1>8. ASSUME NEW j \in Tasks, LoginEnds(j) PROVE SessionInv'
  BY <1>8 DEF LoginEnds, Ends, TaskKnows
<1>9. CASE BootEnds
  BY <1>9 DEF BootEnds, TaskKnows
<1>10. CASE RestartProcess
  BY <1>10 DEF RestartProcess, TaskKnows
<1>11. CASE KillSwitchFalls
  BY <1>11 DEF KillSwitchFalls, TaskKnows
<1>12. ASSUME NEW k \in Tokens, TokenExpires(k) PROVE SessionInv'
  BY <1>12 DEF TokenExpires, TaskKnows
<1>13. CASE UNCHANGED sessionVars
  BY <1>13 DEF sessionVars, TaskKnows
<1> QED
  BY <1>1, <1>2, <1>3, <1>4, <1>5, <1>6, <1>7, <1>8, <1>9, <1>10, <1>11, <1>12, <1>13
  DEF SessionNext

\* In every reachable state a task that is alone is about the active token.
\* About auth_manager.py:79-152.
THEOREM SessionInvariance == SessionSpec => []SessionInv
  BY SessionInvInit, SessionInvNext, PTL DEF SessionSpec

\* READY without an active token takes two overlapping tasks, and lasts until a check
\* begins alone, however often the process restarts and tokens expire.
\* About auth_manager.py:79-107 and 125-152.
THEOREM ReadyNeedsToken == SessionSpec => []ReadyHasToken
<1>1. SessionInv => ReadyHasToken
  BY DEF ReadyHasToken
<1> QED
  BY <1>1, SessionInvariance, PTL

\* A check alone never ends a session the broker accepts, whatever becomes of its
\* request.  About auth_manager.py:142-152.
THEOREM GoodTokensSpared == SessionSpec => ChecksSpareGoodTokens
<1> DEFINE Spared == serverState = "READY" /\ serverState' = "AUTH_REQUIRED"
                       /\ activeToken \in validTokens
                     => crowded \/ \E j \in InFlight : tasks[j].kind = "login"
<1>1. ASSUME SessionInv, [SessionNext]_sessionVars PROVE [Spared]_sessionVars
  <2> SUFFICES ASSUME serverState = "READY", serverState' = "AUTH_REQUIRED",
                      activeToken \in validTokens, ~crowded
               PROVE  \E j \in Tasks : tasks[j] # NoTask /\ tasks[j].kind = "login"
    OBVIOUS
  <2> USE <1>1, SessionAssumption
  <2>1. ASSUME NEW j \in Tasks, CheckBegins(j) PROVE FALSE
    BY <2>1 DEF CheckBegins
  <2>2. ASSUME NEW j \in Tasks, CheckEnds(j) PROVE FALSE
    BY <2>2 DEF CheckEnds, TaskKnows
  <2>3. ASSUME NEW j \in Tasks, LoginFails(j)
        PROVE  tasks[j] # NoTask /\ tasks[j].kind = "login"
    BY <2>3 DEF LoginFails
  <2>4. serverState' # serverState
    OBVIOUS
  <2> QED
    BY <2>1, <2>2, <2>3, <2>4
    DEF SessionNext, sessionVars, ProfileAnswered, LoginBegins, LoginStores,
        LoginSucceeds, LoginEnds, BootEnds, RestartProcess, KillSwitchFalls, TokenExpires
<1> QED
  BY <1>1, SessionInvariance, PTL DEF SessionSpec, ChecksSpareGoodTokens

HIDE DEF SessionInv, SessionTypeOK, InFlight, At

-----------------------------------------------------------------------------
(* The tick stream *)

\* The symbols the stream must carry.
Wanted == Registered \ missed

\* Whichever list is stored last, it has them; the list of the ticker's thread is never
\* longer than the one it will replace, the list of the main loop never shorter.
ListsHoldWanted ==
    /\ mainMerge = NoMerge => Wanted \subseteq subscribed
    /\ mainMerge # NoMerge => subscribed \subseteq mainMerge /\ Wanted \subseteq mainMerge
    /\ tickMerge # NoMerge => tickMerge \subseteq subscribed /\ Wanted \subseteq tickMerge

WireHoldsWanted == isConnected /\ link[ticker] = "open" => Wanted \subseteq wire[ticker]

TickerKnown ==
    /\ isConnected => ticker \in Tickers
    /\ \A t \in Tickers : link[t] # "none" => ticker \in Tickers

\* Before the startup has prepared the subscriptions there is no ticker.
NoStream ==
    /\ ~isConnected /\ mainMerge = NoMerge /\ tickMerge = NoMerge
    /\ \A t \in Tickers : link[t] = "none"

FeedInv ==
    /\ StreamTypeOK /\ TickerKnown
    /\ serving => ListsHoldWanted /\ WireHoldsWanted
    /\ ~serving => NoStream

\* Before the startup has restored them the rows only agree with themselves.
StreamInv ==
    /\ StoreTypeOK /\ RowsAgree
    /\ serving => RunsIffDeployed
    /\ FeedInv

LEMMA StreamInvInit == StreamInit => StreamInv
<1> SUFFICES ASSUME StreamInit PROVE StreamInv
  OBVIOUS
<1>1. StoreInv
  BY StoreInitInv DEF StreamInit
<1>2. StreamTypeOK
  BY DEF StreamInit, StreamTypeOK
<1>3. TickerKnown /\ NoStream
  BY DEF StreamInit, TickerKnown, NoStream
<1>4. FeedInv
  BY <1>2, <1>3 DEF StreamInit, FeedInv
<1> QED
  BY <1>1, <1>4 DEF StreamInv, StoreInv, StreamInit

\* An operation on the store that does not reach the stream: what it adds to the
\* registry is missed.
LEMMA StoreStepFeeds ==
    ASSUME StreamInv, serving' = serving, ready' \in BOOLEAN,
           UNCHANGED <<ticker, link, wire, isConnected, subscribed, mainMerge, tickMerge>>,
           missed' \subseteq Instruments,
           Wanted' \subseteq Wanted
    PROVE  FeedInv'
<1>1. StreamTypeOK' /\ TickerKnown'
  BY DEF StreamInv, FeedInv, StreamTypeOK, TickerKnown
<1>2. serving => (ListsHoldWanted /\ WireHoldsWanted)'
  BY DEF StreamInv, FeedInv, ListsHoldWanted, WireHoldsWanted
<1>3. ~serving => NoStream'
  BY DEF StreamInv, FeedInv, NoStream
<1> QED
  BY <1>1, <1>2, <1>3 DEF FeedInv

\* subscribe(), whoever calls it on the main loop, up to the store of the list.
LEMMA SubscribeFeeds ==
    ASSUME StreamInv, MainFree, NEW symbols \in SUBSET Instruments, Subscribe(symbols),
           serving' = TRUE, ready' = ready,
           Registered' \subseteq Registered \cup symbols,
           serving \/ Registered' \subseteq symbols
    PROVE  FeedInv'
<1>0. StreamTypeOK /\ TickerKnown /\ mainMerge = NoMerge
  BY DEF StreamInv, FeedInv, MainFree
<1>1. CASE /\ isConnected /\ missed' = missed \cup symbols
           /\ UNCHANGED <<ticker, link, wire, isConnected, subscribed, mainMerge, tickMerge>>
  <2>1. serving
    BY <1>1 DEF StreamInv, FeedInv, NoStream
  <2>2. Wanted' \subseteq Wanted
    BY <1>1 DEF Wanted
  <2>3. missed' \subseteq Instruments
    BY <1>0, <1>1 DEF StreamTypeOK
  <2>4. ready' \in BOOLEAN
    BY <1>0 DEF StreamTypeOK
  <2> QED
    BY <1>1, <2>1, <2>2, <2>3, <2>4, StoreStepFeeds
<1>2. CASE /\ mainMerge' = subscribed \cup symbols
           /\ \/ ~isConnected /\ UNCHANGED wire
              \/ isConnected /\ link[ticker] = "open"
                 /\ wire' = [wire EXCEPT ![ticker] = @ \cup symbols]
           /\ missed' = (missed \ symbols)
                        \cup (IF tickMerge = NoMerge THEN {} ELSE symbols \ tickMerge)
           /\ UNCHANGED <<ticker, link, isConnected, subscribed, tickMerge>>
  <2>1. mainMerge' \in SUBSET Instruments /\ mainMerge' # NoMerge
    BY <1>0, <1>2, StreamAssumption DEF StreamTypeOK
  <2>2. wire' \in [Tickers -> SUBSET Instruments] /\ missed' \subseteq Instruments
    BY <1>0, <1>2 DEF StreamTypeOK
  <2>3. StreamTypeOK' /\ TickerKnown'
    BY <1>0, <1>2, <2>1, <2>2 DEF StreamTypeOK, TickerKnown
  <2>4. Wanted' \subseteq symbols \cup (IF serving THEN Wanted ELSE {})
    BY <1>2 DEF Wanted
  <2>5. tickMerge # NoMerge => serving
    BY DEF StreamInv, FeedInv, NoStream
  <2>6. isConnected => serving
    BY DEF StreamInv, FeedInv, NoStream
  <2>7. serving => ListsHoldWanted /\ WireHoldsWanted
    BY DEF StreamInv, FeedInv
  <2>8. ListsHoldWanted'
    <3>1. subscribed' \subseteq mainMerge'
      BY <1>2
    <3>2. Wanted' \subseteq mainMerge'
      BY <1>0, <1>2, <2>4, <2>7 DEF ListsHoldWanted
    <3>3. ASSUME tickMerge # NoMerge PROVE tickMerge \subseteq subscribed /\ Wanted' \subseteq tickMerge
      <4>1. serving /\ tickMerge \subseteq subscribed /\ Wanted \subseteq tickMerge
        BY <2>5, <2>7, <3>3 DEF ListsHoldWanted
      <4>2. \A s \in symbols : s \in tickMerge \/ s \in missed'
        BY <1>2, <3>3
      <4> QED
        BY <2>4, <4>1, <4>2 DEF Wanted
    <3> QED
      BY <1>2, <2>1, <3>1, <3>2, <3>3 DEF ListsHoldWanted
  <2>9. WireHoldsWanted'
    <3> SUFFICES ASSUME isConnected, link[ticker] = "open" PROVE Wanted' \subseteq wire'[ticker]
      BY <1>2 DEF WireHoldsWanted
    <3>1. Wanted \subseteq wire[ticker] /\ serving /\ ticker \in Tickers
      BY <1>0, <2>6, <2>7 DEF WireHoldsWanted, TickerKnown
    <3>2. wire'[ticker] = wire[ticker] \cup symbols
      BY <1>0, <1>2, <3>1 DEF StreamTypeOK
    <3> QED
      BY <2>4, <3>1, <3>2
  <2> QED
    BY <2>3, <2>8, <2>9 DEF FeedInv
<1> QED
  BY <1>1, <1>2 DEF Subscribe

\* subscribe() stores the list, and a stream is started if none is connected.
LEMMA SubscribeEndsFeeds == ASSUME StreamInv, SubscribeEnds PROVE FeedInv'
<1>0. StreamTypeOK /\ TickerKnown
  BY DEF StreamInv, FeedInv
<1>1. mainMerge \in SUBSET Instruments /\ mainMerge # NoMerge /\ mainMerge' = NoMerge
      /\ subscribed' \in {mainMerge, mainMerge \cup subscribed}
      /\ UNCHANGED <<storeVars, serving, ready, wire, isConnected, tickMerge, missed>>
  BY <1>0 DEF StreamTypeOK, SubscribeEnds, Merged
<1>2. serving /\ ListsHoldWanted /\ WireHoldsWanted
  BY <1>1 DEF StreamInv, FeedInv, NoStream
<1>3. \/ UNCHANGED <<ticker, link>>
      \/ ~isConnected /\ \E t \in Tickers : NewTicker(t)
  BY DEF SubscribeEnds, StreamWanted
<1>4. /\ ticker' \in Tickers \cup {NoTicker}
      /\ link' \in [Tickers -> {"none", "connecting", "open"}]
  BY <1>0, <1>3 DEF StreamTypeOK, NewTicker
<1>5. StreamTypeOK'
  BY <1>0, <1>1, <1>4 DEF StreamTypeOK
<1>6. TickerKnown' /\ (isConnected' => UNCHANGED <<ticker, link>>)
  BY <1>0, <1>1, <1>3 DEF TickerKnown, NewTicker
<1>7. Wanted' = Wanted
  BY <1>1 DEF Wanted, Registered, storeVars
<1>8. ListsHoldWanted'
  BY <1>1, <1>2, <1>7 DEF ListsHoldWanted
<1>9. WireHoldsWanted'
  BY <1>1, <1>2, <1>6, <1>7 DEF WireHoldsWanted
<1> QED
  BY <1>1, <1>2, <1>5, <1>6, <1>8, <1>9 DEF FeedInv

\* A ticker connects: it subscribes to the stored list.
LEMMA ConnectFeeds == ASSUME StreamInv, NEW t \in Tickers, TickerConnects(t) PROVE FeedInv'
<1>0. StreamTypeOK /\ TickerKnown
  BY DEF StreamInv, FeedInv
<1>1. /\ link[t] = "connecting" /\ tickMerge = NoMerge
      /\ link' = [link EXCEPT ![t] = "open"]
      /\ isConnected' = TRUE
      /\ missed' = IF link'[ticker] = "open" THEN missed \cup Overtaken ELSE missed
      /\ UNCHANGED <<storeVars, serving, ready, ticker, subscribed, mainMerge>>
  BY DEF TickerConnects
<1>2. serving /\ ListsHoldWanted
  BY <1>1 DEF StreamInv, FeedInv, NoStream
<1>3. wire' \in [Tickers -> SUBSET Instruments]
  BY <1>0 DEF StreamTypeOK, TickerConnects
<1>4. tickMerge' = IF subscribed # {} /\ link'[ticker] = "open" THEN subscribed ELSE NoMerge
  BY DEF TickerConnects
<1>5. Overtaken \subseteq Instruments
  BY <1>0 DEF Overtaken, StreamTypeOK
<1>6. missed' \subseteq Instruments /\ link' \in [Tickers -> {"none", "connecting", "open"}]
  BY <1>0, <1>1, <1>5 DEF StreamTypeOK
<1>7. StreamTypeOK'
  BY <1>0, <1>1, <1>3, <1>4, <1>6 DEF StreamTypeOK
<1>8. ticker \in Tickers
  BY <1>0, <1>1 DEF TickerKnown
<1>9. TickerKnown'
  BY <1>1, <1>8 DEF TickerKnown
<1>10. Wanted' \subseteq Wanted
  BY <1>1 DEF Wanted, Registered, storeVars
<1>11. ASSUME link'[ticker] = "open" PROVE Wanted' \subseteq subscribed
  <2>1. Wanted' = Wanted \ Overtaken
    BY <1>1, <1>11 DEF Wanted, Registered, storeVars
  <2> QED
    BY <1>2, <2>1 DEF ListsHoldWanted, Overtaken
<1>12. ListsHoldWanted'
  BY <1>1, <1>2, <1>4, <1>10, <1>11 DEF ListsHoldWanted
<1>13. WireHoldsWanted'
  <2> SUFFICES ASSUME link'[ticker] = "open" PROVE Wanted' \subseteq wire'[ticker]
    BY <1>1 DEF WireHoldsWanted
  <2>1. wire'[ticker] = wire[ticker] \cup subscribed
    BY <1>0, <1>8 DEF TickerConnects, StreamTypeOK
  <2> QED
    BY <1>11, <2>1
<1> QED
  BY <1>1, <1>2, <1>7, <1>9, <1>12, <1>13 DEF FeedInv

LEMMA ConnectEndsFeeds == ASSUME StreamInv, ConnectEnds PROVE FeedInv'
<1>0. StreamTypeOK /\ TickerKnown
  BY DEF StreamInv, FeedInv
<1>1. /\ tickMerge \in SUBSET Instruments /\ tickMerge # NoMerge /\ tickMerge' = NoMerge
      /\ subscribed' \in {tickMerge, tickMerge \cup subscribed}
      /\ UNCHANGED <<storeVars, serving, ready, ticker, link, wire, isConnected,
                     mainMerge, missed>>
  BY <1>0 DEF StreamTypeOK, ConnectEnds, Merged
<1>2. serving /\ ListsHoldWanted /\ WireHoldsWanted
  BY <1>1 DEF StreamInv, FeedInv, NoStream
<1>3. StreamTypeOK' /\ TickerKnown'
  BY <1>0, <1>1 DEF StreamTypeOK, TickerKnown
<1>4. Wanted' = Wanted
  BY <1>1 DEF Wanted, Registered, storeVars
<1>5. ListsHoldWanted'
  BY <1>1, <1>2, <1>4 DEF ListsHoldWanted
<1>6. WireHoldsWanted'
  BY <1>1, <1>2, <1>4 DEF WireHoldsWanted
<1> QED
  BY <1>1, <1>2, <1>3, <1>5, <1>6 DEF FeedInv

LEMMA CloseFeeds == ASSUME StreamInv, NEW t \in Tickers, TickerCloses(t) PROVE FeedInv'
<1>0. StreamTypeOK /\ TickerKnown
  BY DEF StreamInv, FeedInv
<1>1. /\ link[t] = "open" /\ link' = [link EXCEPT ![t] = "connecting"]
      /\ isConnected' = FALSE
      /\ UNCHANGED <<storeVars, serving, ready, ticker, wire, subscribed, mainMerge,
                     tickMerge, missed>>
  BY DEF TickerCloses
<1>2. serving /\ ListsHoldWanted
  BY <1>1 DEF StreamInv, FeedInv, NoStream
<1>3. StreamTypeOK'
  BY <1>0, <1>1 DEF StreamTypeOK
<1>4. TickerKnown'
  BY <1>0, <1>1 DEF TickerKnown, StreamTypeOK
<1>5. Wanted' = Wanted
  BY <1>1 DEF Wanted, Registered, storeVars
<1>6. ListsHoldWanted'
  BY <1>1, <1>2, <1>5 DEF ListsHoldWanted
<1>7. WireHoldsWanted'
  BY <1>1 DEF WireHoldsWanted
<1> QED
  BY <1>1, <1>2, <1>3, <1>4, <1>6, <1>7 DEF FeedInv

LEMMA RestartFeeds == ASSUME StreamInv, RestartStream PROVE FeedInv'
<1>1. StreamTypeOK'
  BY DEF StreamInv, FeedInv, StreamTypeOK, RestartStream
<1>2. TickerKnown' /\ NoStream'
  BY DEF RestartStream, TickerKnown, NoStream
<1> QED
  BY <1>1, <1>2 DEF FeedInv, RestartStream

\* The restore raised: only the built-in symbols are subscribed to, and the others
\* are known to be missed.
LEMMA SkipFeeds == ASSUME StreamInv, NEW R \in SUBSET Ids, BootSkips(R) PROVE FeedInv'
<1>0. StreamTypeOK /\ TickerKnown /\ NoStream /\ StoreTypeOK
  BY DEF StreamInv, FeedInv, BootSkips
<1>1. /\ mainMerge' = subscribed \cup AutoSymbols
      /\ missed' = {rows[id].instrument : id \in R} \ AutoSymbols
      /\ R \subseteq Deployed /\ registry' = {<<rows[id].instrument, id>> : id \in R}
      /\ serving' = TRUE
      /\ UNCHANGED <<ready, ticker, link, wire, isConnected, subscribed, tickMerge>>
  BY DEF BootSkips, RestoreSkips, RoutesOf
<1>2. \A id \in R : rows[id].instrument \in Instruments
  BY <1>0, <1>1, RowFacts DEF Deployed, Stored, StoreTypeOK
<1>3. mainMerge' \in SUBSET Instruments /\ mainMerge' # NoMerge
  BY <1>0, <1>1, StreamAssumption DEF StreamTypeOK
<1>4. missed' \subseteq Instruments
  BY <1>1, <1>2
<1>5. StreamTypeOK' /\ TickerKnown'
  BY <1>0, <1>1, <1>3, <1>4 DEF StreamTypeOK, TickerKnown
<1>6. Wanted' \subseteq AutoSymbols
  BY <1>1 DEF Wanted, Registered
<1>7. ListsHoldWanted' /\ WireHoldsWanted'
  BY <1>0, <1>1, <1>3, <1>6 DEF ListsHoldWanted, WireHoldsWanted, NoStream
<1> QED
  BY <1>1, <1>5, <1>7 DEF FeedInv

\* Unregistering only takes away.
LEMMA UnregisterTakes ==
    ASSUME NEW id \in Ids, UnregisterRow(id)
    PROVE  registry' \subseteq registry
  BY DEF UnregisterRow

\* One step of the stream keeps the invariant: one step per action.
LEMMA StreamInvNext == ASSUME StreamInv, [StreamNext]_streamVars PROVE StreamInv'
<1>0. StoreTypeOK /\ RowsAgree /\ StreamTypeOK
  BY DEF StreamInv, FeedInv
<1>r. serving => StoreInv
  BY <1>0 DEF StreamInv, StoreInv
<1>s. ASSUME UNCHANGED storeVars PROVE StoreTypeOK' /\ RowsAgree' /\ (RunsIffDeployed => RunsIffDeployed')
  BY <1>0, <1>s DEF storeVars, StoreTypeOK, RowsAgree, RunsIffDeployed, Stored, Deployed,
                    RunningOn
<1>t. StoreInv' => (StoreTypeOK /\ RowsAgree /\ RunsIffDeployed)'
  BY DEF StoreInv
<1>m. ASSUME serving' = serving, ready' \in BOOLEAN \/ ready' = ready, Wanted' \subseteq Wanted,
             missed' = missed \/ \E s \in Instruments : missed' = missed \cup {s},
             UNCHANGED <<ticker, link, wire, isConnected, subscribed, mainMerge, tickMerge>>
      PROVE  FeedInv'
  <2>1. missed' \subseteq Instruments /\ ready' \in BOOLEAN
    BY <1>0, <1>m DEF StreamTypeOK
  <2> QED
    BY <1>m, <2>1, StoreStepFeeds
<1>1. CASE SubscribeEnds
  <2>1. UNCHANGED storeVars /\ UNCHANGED serving
    BY <1>1 DEF SubscribeEnds
  <2> QED
    BY <1>1, <1>s, <2>1, SubscribeEndsFeeds DEF StreamInv
<1>2. CASE LoginStreams
  <2>1. UNCHANGED storeVars /\ serving /\ UNCHANGED serving /\ ready' = ready /\ MainFree
        /\ Subscribe(Registered)
    BY <1>2 DEF LoginStreams, Route
  <2>2. Registered \in SUBSET Instruments
    BY <1>0, StreamAssumption DEF Registered, StoreTypeOK
  <2>3. Registered' \subseteq Registered
    BY <2>1 DEF Registered, storeVars
  <2>4. FeedInv'
    BY <2>1, <2>2, <2>3, SubscribeFeeds
  <2> QED
    BY <1>s, <2>1, <2>4 DEF StreamInv
<1>3. ASSUME NEW id \in Ids, NEW s \in Instruments, SaveStrategy(id, s) PROVE StreamInv'
  <2>1. serving /\ StoreRow(id, s) /\ UNCHANGED <<serving, ready, feedVars>>
    BY <1>3 DEF SaveStrategy, Route
  <2>2. StoreInv'
    BY <1>r, <2>1, StoreRowKeeps
  <2>3. Wanted' \subseteq Wanted
    BY <2>1 DEF StoreRow, Wanted, Registered, feedVars
  <2>4. FeedInv'
    BY <1>m, <2>1, <2>3 DEF feedVars
  <2> QED
    BY <1>t, <2>2, <2>4 DEF StreamInv
<1>4. ASSUME NEW id \in Ids, DeployStrategy(id) PROVE StreamInv'
  <2> DEFINE symbol == rows[id].instrument
  <2>1. /\ serving /\ MainFree /\ DeployRow(id, TRUE) /\ Subscribe({symbol})
        /\ UNCHANGED <<serving, ready>>
    BY <1>4 DEF DeployStrategy, Route
  <2>2. StoreInv'
    BY <1>r, <2>1, DeployRowKeeps
  <2>3. Stored(id) /\ registry' = registry \cup {<<symbol, id>>}
    BY <2>1 DEF DeployRow
  <2>4. {symbol} \in SUBSET Instruments
    BY <1>0, <2>3, RowFacts DEF StoreTypeOK, Stored
  <2> HIDE DEF symbol
  <2>5. Registered' \subseteq Registered \cup {symbol}
    BY <2>3 DEF Registered
  <2>6. FeedInv'
    BY <2>1, <2>4, <2>5, SubscribeFeeds
  <2> QED
    BY <1>t, <2>2, <2>6 DEF StreamInv
<1>5. ASSUME NEW id \in Ids, DeployTears(id) PROVE StreamInv'
  <2> DEFINE symbol == rows[id].instrument
  <2>1. /\ serving /\ DeployRow(id, FALSE)
        /\ missed' = missed \cup {symbol}
        /\ UNCHANGED <<serving, ready, ticker, link, wire, isConnected, subscribed,
                       mainMerge, tickMerge>>
    BY <1>5 DEF DeployTears, Route
  <2>2. StoreInv'
    BY <1>r, <2>1, DeployRowKeeps
  <2>3. Stored(id) /\ registry' = registry \cup {<<symbol, id>>}
    BY <2>1 DEF DeployRow
  <2>4. symbol \in Instruments
    BY <1>0, <2>3, RowFacts DEF StoreTypeOK, Stored
  <2> HIDE DEF symbol
  <2>5. Wanted' \subseteq Wanted
    BY <2>1, <2>3 DEF Wanted, Registered
  <2>6. FeedInv'
    BY <1>m, <2>1, <2>4, <2>5
  <2> QED
    BY <1>t, <2>2, <2>6 DEF StreamInv
<1>6. ASSUME NEW id \in Ids, NEW commits \in BOOLEAN,
             UndeployStrategy(id, commits) \/ DeleteStrategy(id, commits)
      PROVE  StreamInv'
  <2>1. /\ serving /\ UNCHANGED <<serving, ready, feedVars>>
        /\ UndeployRow(id, commits) \/ DeleteRow(id, commits)
    BY <1>6 DEF UndeployStrategy, DeleteStrategy, Route
  <2>2. StoreInv'
    BY <1>r, <2>1, UndeployRowKeeps, DeleteRowKeeps
  <2>3. UnregisterRow(id)
    BY <2>1 DEF UndeployRow, DeleteRow, EndRow
  <2>4. registry' \subseteq registry
    BY <2>3, UnregisterTakes
  <2>5. Wanted' \subseteq Wanted
    BY <2>1, <2>4 DEF Wanted, Registered, feedVars
  <2>6. FeedInv'
    BY <1>m, <2>1, <2>5 DEF feedVars
  <2> QED
    BY <1>t, <2>2, <2>6 DEF StreamInv
<1>7. ASSUME NEW t \in Tickers, TickerConnects(t) PROVE StreamInv'
  <2>1. UNCHANGED storeVars /\ UNCHANGED serving
    BY <1>7 DEF TickerConnects
  <2> QED
    BY <1>7, <1>s, <2>1, ConnectFeeds DEF StreamInv
<1>8. CASE ConnectEnds
  <2>1. UNCHANGED storeVars /\ UNCHANGED serving
    BY <1>8 DEF ConnectEnds
  <2> QED
    BY <1>8, <1>s, <2>1, ConnectEndsFeeds DEF StreamInv
<1>9. ASSUME NEW t \in Tickers, TickerCloses(t) PROVE StreamInv'
  <2>1. UNCHANGED storeVars /\ UNCHANGED serving
    BY <1>9 DEF TickerCloses
  <2> QED
    BY <1>9, <1>s, <2>1, CloseFeeds DEF StreamInv
<1>10. CASE BootStreams
  <2> DEFINE all == AutoSymbols \cup {route[1] : route \in registry'}
  <2>1. RestoreRows /\ MainFree /\ Subscribe(all) /\ serving' = TRUE /\ ready' = ready
    BY <1>10 DEF BootStreams
  <2>2. StoreInv'
    BY <1>0, <2>1, RestoreRowsRepairs
  <2>3. all \in SUBSET Instruments
    BY <2>2, StreamAssumption DEF StoreInv, StoreTypeOK
  <2>4. Registered' \subseteq all
    BY DEF Registered
  <2> HIDE DEF all
  <2>5. FeedInv'
    BY <2>1, <2>3, <2>4, SubscribeFeeds
  <2> QED
    BY <1>t, <2>2, <2>5 DEF StreamInv
<1>14. ASSUME NEW R \in SUBSET Ids, BootSkips(R) PROVE StreamInv'
  <2>1. RestoreSkips(R)
    BY <1>14 DEF BootSkips
  <2>2. StoreInv'
    BY <1>0, <2>1, RestoreSkipsKeeps
  <2> QED
    BY <1>14, <1>t, <2>2, SkipFeeds DEF StreamInv
<1>11. CASE RestartStream
  <2>1. /\ registry' = {} /\ serving' = FALSE /\ rows' = rows /\ torn' = torn
    BY <1>11 DEF RestartStream
  <2>2. StoreTypeOK' /\ RowsAgree'
    BY <1>0, <2>1 DEF StoreTypeOK, RowsAgree, Stored
  <2> QED
    BY <1>11, <2>1, <2>2, RestartFeeds DEF StreamInv
<1>12. CASE ReadyChanges
  <2>1. UNCHANGED storeVars /\ UNCHANGED <<serving, feedVars>> /\ ready' \in BOOLEAN
    BY <1>12 DEF ReadyChanges
  <2>2. Wanted' \subseteq Wanted
    BY <2>1 DEF Wanted, Registered, storeVars, feedVars
  <2>3. FeedInv'
    BY <1>m, <2>1, <2>2 DEF feedVars
  <2> QED
    BY <1>s, <2>1, <2>3 DEF StreamInv
<1>13. CASE UNCHANGED streamVars
  <2>1. UNCHANGED storeVars /\ UNCHANGED <<serving, ready, feedVars>>
    BY <1>13 DEF streamVars
  <2>2. Wanted' \subseteq Wanted
    BY <2>1 DEF Wanted, Registered, storeVars, feedVars
  <2>3. FeedInv'
    BY <1>m, <2>1, <2>2 DEF feedVars
  <2> QED
    BY <1>s, <2>1, <2>3 DEF StreamInv
<1> QED
  BY <1>1, <1>2, <1>3, <1>4, <1>5, <1>6, <1>7, <1>8, <1>9, <1>10, <1>11, <1>12, <1>13, <1>14
  DEF StreamNext

\* In every reachable state the stores and the registry agree, and each of the two
\* lists in the making, the stored list and the ticker hold every symbol that is not
\* known to be missed.  About websocket_manager.py:109-148 and main.py:121-170.
THEOREM StreamInvariance == StreamSpec => []StreamInv
  BY StreamInvInit, StreamInvNext, PTL DEF StreamSpec

\* A connected stream carries every registered symbol whose own subscription did not
\* raise or meet a connection, for any number of strategies, tickers, reconnects,
\* restarts and restores, be they complete or not.
\* About dashboard.py:308-323, websocket_manager.py:109-148 and main.py:121-170.
THEOREM StreamFeedsStrategies == StreamSpec => []StrategiesAreFed
<1>1. ASSUME StreamInv PROVE StrategiesAreFed
  <2>1. isConnected => serving
    BY <1>1 DEF StreamInv, FeedInv, NoStream
  <2> QED
    BY <1>1, <2>1 DEF StreamInv, FeedInv, WireHoldsWanted, Wanted, StrategiesAreFed
<1> QED
  BY <1>1, StreamInvariance, PTL

-----------------------------------------------------------------------------
(* The services together *)

\* A step of the composition is a step of one service or leaves it alone.
LEMMA ServicesStep ==
    ASSUME [ServicesNext]_serviceVars
    PROVE  /\ [ClientsNext]_clientVars
           /\ [CacheNext]_cacheVars
           /\ [SessionNext]_sessionVars
           /\ [StreamNext]_streamVars
<1>1. CASE service = "registry" /\ ServicesNext
  <2>1. ClientsNext /\ UNCHANGED <<service, cacheVars, sessionVars, streamVars>>
    BY <1>1 DEF ServicesNext, Registry, Cache, Session, Stream, ClientsNext
  <2> QED
    BY <2>1
<1>2. CASE service = "cache" /\ ServicesNext
  <2>1. CacheNext /\ UNCHANGED <<service, clientVars, sessionVars, streamVars>>
    BY <1>2 DEF ServicesNext, Registry, Cache, Session, Stream, CacheNext
  <2> QED
    BY <2>1
<1>3. CASE service = "session" /\ ServicesNext
  <2>1. SessionNext /\ UNCHANGED <<service, clientVars, cacheVars, streamVars>>
    BY <1>3 DEF ServicesNext, Registry, Cache, Session, Stream, SessionNext
  <2> QED
    BY <2>1
<1>4. CASE service = "stream" /\ ServicesNext
  <2>1. StreamNext /\ UNCHANGED <<service, clientVars, cacheVars, sessionVars>>
    BY <1>4 DEF ServicesNext, Registry, Cache, Session, Stream, StreamNext
  <2> QED
    BY <2>1
<1>5. CASE UNCHANGED serviceVars
  BY <1>5 DEF serviceVars
<1> QED
  BY <1>1, <1>2, <1>3, <1>4, <1>5 DEF ServicesNext, Registry, Cache, Session, Stream

\* The services as they run beside each other implement each of the four modules:
\* what is proved of one of them alone holds of the composition.
\* About the variables the four share with nothing else (MCServices).
THEOREM ServicesImplement ==
    ServicesSpec => ClientsSpec /\ CacheSpec /\ SessionSpec /\ StreamSpec
<1>1. ServicesInit => ClientsInit /\ CacheInit /\ SessionInit /\ StreamInit
  BY DEF ServicesInit
<1> QED
  BY <1>1, ServicesStep, PTL
  DEF ServicesSpec, ClientsSpec, CacheSpec, SessionSpec, StreamSpec

\* The state of every service keeps its type.  About the variables of the four modules.
THEOREM ServicesTypesHold == ServicesSpec => []ServicesTypeOK
<1>1. ClientsTypeOK /\ CacheInv /\ SessionInv /\ StreamInv => ServicesTypeOK
  BY DEF ServicesTypeOK, CacheInv, SessionInv, StreamInv, FeedInv
<1> QED
  BY <1>1, ServicesImplement, ClientsTypeCorrect, CacheInvariance, SessionInvariance,
     StreamInvariance, PTL

\* Beside each other the services keep what each promises alone: fresh order lists, a
\* token behind READY, fed strategies, and a budget no client overdraws.
\* About order_cache.py, auth_manager.py, ws_client.py and capital_registry.py together.
THEOREM ServicesSafe ==
    ServicesSpec => /\ [](OwnFetchIsFresh /\ FreshUnlessOverlapped)
                    /\ []ReadyHasToken /\ ChecksSpareGoodTokens
                    /\ []StrategiesAreFed
                    /\ NoDoubleSpend /\ DeployedOnlyFromHold
  BY ServicesImplement, OwnFetches, InvalidationWorks, ReadyNeedsToken, GoodTokensSpared,
     StreamFeedsStrategies, NoDoubleSpending, DeploymentsConsumeHolds, PTL
================================================================================
