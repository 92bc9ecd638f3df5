--------------------------- MODULE CapitalRegistry ---------------------------
(***************************************************************************)
(* CapitalRegistry (src/app/services/capital_registry.py): the budget an   *)
(* entry order reserves before it is sent and turns into used capital when *)
(* the broker takes it.  Amounts are whole currency units; the time of a   *)
(* reservation is the caller's.  Every operator but SeedCapital is one     *)
(* critical section of the registry's mutex.                               *)
(***************************************************************************)
EXTENDS Integers, FiniteSets, FiniteSetsExt, Functions

CONSTANTS
    ReservationIds,     \* uuid4 values; an id is only reused once it is free
    Capitals            \* balances the broker may report

ASSUME CapitalAssumption == Capitals \subseteq Nat \ {0}

VARIABLES
    totalCapital, usedCapital,
    reservations        \* id -> [amount, at], for the ids in its domain

budget == <<totalCapital, usedCapital, reservations>>

Reserved == MapThenSumSet(LAMBDA r : reservations[r].amount, DOMAIN reservations)

AvailableCapital == totalCapital - usedCapital - Reserved

Reservation == [amount : Nat, at : Nat]

CapitalTypeOK ==
    /\ totalCapital \in Capitals
    /\ usedCapital \in Nat
    /\ DOMAIN reservations \subseteq ReservationIds
    /\ \A r \in DOMAIN reservations : reservations[r] \in Reservation

BudgetInit ==
    /\ totalCapital \in Capitals
    /\ usedCapital = 0
    /\ reservations = [r \in {} |-> [amount |-> 0, at |-> 0]]

Fresh(r) == r \in ReservationIds \ DOMAIN reservations

\* Mutant: the re-validation under the lock is dropped.
ReserveUnchecked(r, amount, time) ==
    /\ Fresh(r)
    /\ reservations' = [x \in DOMAIN reservations \cup {r} |->
                           IF x = r THEN [amount |-> amount, at |-> time]
                                    ELSE reservations[x]]
    /\ UNCHANGED <<totalCapital, usedCapital>>

\* The successful half of reserve: the check and the hold are one critical
\* section.  The other half changes nothing.
ReserveCapital(r, amount, time) ==
    /\ Fresh(r)
    /\ AvailableCapital >= amount
    /\ reservations' = [x \in DOMAIN reservations \cup {r} |->
                           IF x = r THEN [amount |-> amount, at |-> time]
                                    ELSE reservations[x]]
    /\ UNCHANGED <<totalCapital, usedCapital>>

Forget(ids) == reservations' = Restrict(reservations, DOMAIN reservations \ ids)

\* Mutant: the hold is read but not popped.
ConfirmWithoutPop(r) ==
    /\ usedCapital' = usedCapital +
          (IF r \in DOMAIN reservations THEN reservations[r].amount ELSE 0)
    /\ UNCHANGED <<totalCapital, reservations>>

\* An unknown id (None, or one already settled) is ignored.
ConfirmReservation(r) ==
    /\ Forget({r})
    /\ usedCapital' = usedCapital +
          (IF r \in DOMAIN reservations THEN reservations[r].amount ELSE 0)
    /\ UNCHANGED totalCapital

ReleaseReservation(r) ==
    /\ Forget({r})
    /\ UNCHANGED <<totalCapital, usedCapital>>

\* Mutant: the clamp at zero is forgotten.
ReleaseUnclamped(amount) ==
    /\ usedCapital' = usedCapital - amount
    /\ UNCHANGED <<totalCapital, reservations>>

\* The tail of _handle_order_success: an exit gives deployed capital back.
ReleaseDeployed(amount) ==
    /\ usedCapital' = IF usedCapital >= amount THEN usedCapital - amount ELSE 0
    /\ UNCHANGED <<totalCapital, reservations>>

\* total_capital is assigned without the lock when a balance is fetched.
SeedCapital(balance) ==
    /\ totalCapital' = balance
    /\ UNCHANGED <<usedCapital, reservations>>
=============================================================================
