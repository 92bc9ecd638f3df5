--------------------------- MODULE MCTradePipeline ---------------------------
(***************************************************************************)
(* TLC instances of TradePipeline, with two history variables: the         *)
(* decisions that went to the broker since the system last stopped being   *)
(* READY, and the orders the broker took for the decision in flight.  Both *)
(* count up to 2, enough to tell "at most one" from "more".                *)
(***************************************************************************)
EXTENDS TradePipeline

VARIABLES stragglers, sent

mcVars == <<vars, stragglers, sent>>

MCInit == Init /\ stragglers = 0 /\ sent = 0

CountStragglers ==
    stragglers' = IF sysState' = "READY" THEN 0
                  ELSE IF pc = "sniff" /\ pc' = "place" THEN Least(stragglers + 1, 2)
                  ELSE stragglers

BrokerTook == pc = "place" /\ worker' # worker /\ broker' # broker

CountSent ==
    sent' = IF pc' = "candle" THEN 0
            ELSE IF BrokerTook THEN Least(sent + 1, 2)
            ELSE sent

MCNext == Next /\ CountStragglers /\ CountSent

MCSpec == MCInit /\ [][MCNext]_mcVars

\* The kill switch freezes the pipeline (kill_switch.py:10-11): after the state
\* left READY at most the one decision already admitted still reaches the
\* broker, however many strategies and candles are waiting.
OneStraggler == stragglers <= 1

\* Sniffing "prevents duplicate market orders caused by network retries"
\* (idempotency_manager.py:25): the broker takes one order per decision.
OneOrderPerDecision == sent <= 1
=============================================================================
