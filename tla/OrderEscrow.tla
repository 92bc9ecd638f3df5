----------------------------- MODULE OrderEscrow -----------------------------
(***************************************************************************)
(* What the trade pipeline promises, without its steps: one order at a     *)
(* time passes the gate of its symbol; inside the gate it may put capital  *)
(* in escrow, never more than is free; the escrow is settled once, by      *)
(* deploying it or giving it back, before the order leaves; a symbol whose *)
(* gate was barred never opens again.                                      *)
(***************************************************************************)
EXTENDS Integers

CONSTANTS Symbols, Balances

VARIABLES gate, total, held, deployed

escrowVars == <<gate, total, held, deployed>>

Inside(s) == gate[s] = "IN_EXECUTION"

Init ==
    /\ gate = [s \in Symbols |-> "NORMAL"]
    /\ total \in Balances
    /\ held = 0 /\ deployed = 0

Enter(s) ==
    /\ gate[s] = "NORMAL" /\ \A t \in Symbols : ~Inside(t)
    /\ gate' = [gate EXCEPT ![s] = "IN_EXECUTION"]
    /\ UNCHANGED <<total, held, deployed>>

Hold(s, a) ==
    /\ Inside(s) /\ held = 0
    /\ deployed + a <= total
    /\ held' = a
    /\ UNCHANGED <<gate, total, deployed>>

Deploy(s) ==
    /\ Inside(s)
    /\ deployed' = deployed + held /\ held' = 0
    /\ UNCHANGED <<gate, total>>

GiveBack(s) ==
    /\ Inside(s)
    /\ held' = 0
    /\ UNCHANGED <<gate, total, deployed>>

\* An exit frees deployed capital; it holds none.
Recover(s, a) ==
    /\ Inside(s) /\ held = 0
    /\ deployed' = deployed - a
    /\ UNCHANGED <<gate, total, held>>

Leave(s) ==
    /\ Inside(s) /\ held = 0
    /\ gate' = [gate EXCEPT ![s] = "NORMAL"]
    /\ UNCHANGED <<total, held, deployed>>

\* An adopted order is deployed and leaves at once.
DeployAndLeave(s) ==
    /\ Inside(s)
    /\ deployed' = deployed + held /\ held' = 0
    /\ gate' = [gate EXCEPT ![s] = "NORMAL"]
    /\ UNCHANGED total

Bar(s) ==
    /\ Inside(s)
    /\ held' = 0
    /\ gate' = [gate EXCEPT ![s] = "CRITICAL_LOCKED"]
    /\ UNCHANGED <<total, deployed>>

Rebalance(b) == total' = b /\ UNCHANGED <<gate, held, deployed>>

Next ==
    \/ \E s \in Symbols :
          \/ Enter(s) \/ Deploy(s) \/ GiveBack(s) \/ Leave(s) \/ DeployAndLeave(s) \/ Bar(s)
          \/ \E a \in 0..total : Hold(s, a)
          \/ \E a \in 0..deployed : Recover(s, a)
    \/ \E b \in Balances : Rebalance(b)

Spec == Init /\ [][Next]_escrowVars
=============================================================================
