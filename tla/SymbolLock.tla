----------------------------- MODULE SymbolLock -----------------------------
(***************************************************************************)
(* SymbolLockManager (src/app/services/symbol_lock.py): the per-symbol     *)
(* lock that keeps a second execution of a symbol out while the first is   *)
(* in flight, and the circuit breaker that takes a failing symbol out of   *)
(* trading.  Every method body runs under the manager's mutex, so each is  *)
(* one operator here.  unlock_critical has no caller in the system.        *)
(***************************************************************************)
EXTENDS Instruments

VARIABLE lockState

SymbolState == {"NORMAL", "IN_EXECUTION", "CRITICAL_LOCKED"}

LockTypeOK == lockState \in [Symbols -> SymbolState]

\* A symbol without an entry reads as NORMAL.
LockInit == lockState = [s \in Symbols |-> "NORMAL"]

AcquireExecutionLock(s) ==
    /\ lockState[s] = "NORMAL"
    /\ lockState' = [lockState EXCEPT ![s] = "IN_EXECUTION"]

\* Mutant: the release does not look at the current state.
ReleaseAnyLock(s) == lockState' = [lockState EXCEPT ![s] = "NORMAL"]

\* Only an IN_EXECUTION symbol goes back to NORMAL; any other call is a no-op.
ReleaseExecutionLock(s) ==
    lockState' = [lockState EXCEPT ![s] = IF @ = "IN_EXECUTION" THEN "NORMAL" ELSE @]

LockCritical(s) == lockState' = [lockState EXCEPT ![s] = "CRITICAL_LOCKED"]
=============================================================================
