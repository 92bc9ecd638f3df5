-------------------------- MODULE MCEmergencyControl --------------------------
(***************************************************************************)
(* TLC instances of EmergencyControl, with a history variable: whether the *)
(* one emergency so far found the pipeline quiet.                          *)
(***************************************************************************)
EXTENDS EmergencyControl

VARIABLE emergency      \* "none", "quiet", or "busy" once anything overlapped

watchedVars == <<allVars, emergency>>

WatchedInit == ControlInit /\ emergency = "none"

\* Nothing is in flight, at the exchange or waiting to be published, and one
\* event is published, not one for each of several mismatching symbols.
Quiet == pc = "idle" /\ ~Liquidating /\ killRequests' = 0 /\ created' = 1
         /\ \A s \in Symbols : NoneOpen(s)

Published == created' > created

\* Somebody else's order: liquidation tasks shrink by each order they place.
OthersOrder == Len(orders') > Len(orders) /\ selling' = selling

ObserveEmergency ==
    emergency' = CASE Published -> IF emergency = "none" /\ Quiet THEN "quiet" ELSE "busy"
                   [] emergency = "quiet"
                      /\ (sysState' # "TRADING_DISABLED" \/ OthersOrder) -> "busy"
                   [] OTHER -> emergency

WatchedNext == ControlNext /\ ObserveEmergency

WatchedSpec == WatchedInit /\ [][WatchedNext]_watchedVars

\* One emergency event that meets a quiet pipeline, and is not followed by a login
\* before it is over, does flatten the broker, longs and shorts, whatever the
\* operator bought or sold before (kite_service.py:235).
QuietLiquidationFlattens == emergency = "quiet" /\ Quiesced => BrokerFlat
=============================================================================
