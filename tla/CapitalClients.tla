--------------------------- MODULE CapitalClients ---------------------------
(***************************************************************************)
(* The capital registry under any number of concurrent clients: each may   *)
(* reserve, settle any id any number of times, give deployed capital back, *)
(* or sweep, while the balance is re-read and time passes.                 *)
(***************************************************************************)
EXTENDS CapitalRegistry

CONSTANTS
    Amounts,                    \* notionals of the clients' orders
    ReservationExpirySeconds,
    MaxTime                     \* bound on the clock

ASSUME ClientsAssumption ==
    /\ Amounts \subseteq Nat \ {0}
    /\ ReservationExpirySeconds \in Nat
    /\ MaxTime \in Nat

VARIABLE now

clientVars == <<budget, now>>

ClientsInit == BudgetInit /\ now = 0

Reserve == \E r \in ReservationIds, a \in Amounts : ReserveCapital(r, a, now)
OrderSucceeded == \E r \in ReservationIds : ConfirmReservation(r)
OrderFailed == \E r \in ReservationIds : ReleaseReservation(r)
ExitSucceeded == \E a \in Amounts : ReleaseDeployed(a)
BalanceFetched == \E c \in Capitals : SeedCapital(c)

\* sweep_expired_reservations, written as a background job; nothing schedules it.
SweepExpired ==
    /\ Forget({r \in DOMAIN reservations :
                  now - reservations[r].at > ReservationExpirySeconds})
    /\ UNCHANGED <<totalCapital, usedCapital>>

Tick == now < MaxTime /\ now' = now + 1 /\ UNCHANGED budget

ClientsNext ==
    \/ Reserve /\ UNCHANGED now
    \/ OrderSucceeded /\ UNCHANGED now
    \/ OrderFailed /\ UNCHANGED now
    \/ ExitSucceeded /\ UNCHANGED now
    \/ BalanceFetched /\ UNCHANGED now
    \/ SweepExpired /\ UNCHANGED now
    \/ Tick

ClientsSpec == ClientsInit /\ [][ClientsNext]_clientVars

-----------------------------------------------------------------------------
\* Types, and no hold dated in the future.
ClientsTypeOK ==
    /\ CapitalTypeOK
    /\ now \in Nat
    /\ \A r \in DOMAIN reservations : reservations[r].at <= now

\* No double spending (capital_registry.py:16): while the balance stays, no
\* sequence of reserve, confirm, release and sweep calls by concurrent clients
\* takes a budget that was not overdrawn below zero.
NoDoubleSpend ==
    [][ (totalCapital' = totalCapital /\ AvailableCapital >= 0)
        => AvailableCapital' >= 0 ]_clientVars

\* confirm_reservation moves held capital to used capital exactly once: used
\* capital only rises in a step that consumes one hold, by that hold's amount,
\* so a repeated or late ORDER_SUCCESS deploys nothing.
DeployedOnlyFromHold ==
    [][ usedCapital' > usedCapital
        => \E r \in DOMAIN reservations :
              /\ DOMAIN reservations' = DOMAIN reservations \ {r}
              /\ usedCapital' = usedCapital + reservations[r].amount ]_clientVars
=============================================================================
