-------------------------------- MODULE Broker --------------------------------
(***************************************************************************)
(* The broker behind KiteService (an external service, modelled from how   *)
(* src/ uses it): place_order answers with an order id as soon as the      *)
(* order is accepted; the exchange fills it or rejects it later, and only  *)
(* a fill moves the position that positions() reports.  orders() lists the *)
(* orders of the day; one that is no longer open and was placed outside    *)
(* the idempotency window can match nothing and is forgotten.              *)
(***************************************************************************)
EXTENDS MtmEngine, Sequences, SequencesExt

CONSTANTS
    MaxOrders,      \* bound: orders the broker still has to fill or to list
    MaxExposure     \* bound: the margin caps the position an order may lead to

ASSUME BrokerAssumption == MaxOrders \in Nat /\ MaxExposure \in Nat

VARIABLES orders, brokerQty

broker == <<orders, brokerQty>>

Order(s, side, n) == [symbol |-> s, side |-> side, qty |-> n,
                      status |-> "OPEN", recent |-> TRUE]

OrderRecord == [symbol : Symbols, side : Sides, qty : Nat,
                status : {"OPEN", "COMPLETE", "REJECTED"}, recent : BOOLEAN]

BrokerTypeOK ==
    /\ orders \in Seq(OrderRecord)
    /\ brokerQty \in [Symbols -> Int]

BrokerInit == orders = <<>> /\ brokerQty = [s \in Symbols |-> 0]

OpenQty(s) ==
    FoldSeq(LAMBDA o, sum : IF o.symbol = s /\ o.status = "OPEN"
                            THEN sum + Signed(o.side, o.qty) ELSE sum, 0, orders)

HasMargin(s, side, n) ==
    /\ Len(orders) < MaxOrders
    /\ AbsInt(brokerQty[s] + OpenQty(s) + Signed(side, n)) <= MaxExposure

AcceptOrder(s, side, n) ==
    /\ HasMargin(s, side, n)
    /\ orders' = Append(orders, Order(s, side, n))
    /\ UNCHANGED brokerQty

OrderEnds(i, status) ==
    LET o == orders[i] IN
    /\ o.status = "OPEN"
    /\ orders' = IF o.recent THEN ReplaceAt(orders, i, [o EXCEPT !.status = status])
                             ELSE RemoveAt(orders, i)

\* The exchange fills the i-th order.
FillOrder(i) ==
    LET o == orders[i] IN
    /\ OrderEnds(i, "COMPLETE")
    /\ brokerQty' = [brokerQty EXCEPT ![o.symbol] = @ + Signed(o.side, o.qty)]

\* The exchange rejects (or cancels) an order the broker had accepted.
RejectOrder(i) ==
    /\ OrderEnds(i, "REJECTED")
    /\ UNCHANGED brokerQty

\* The order's timestamp leaves the 15 second sniff window.
OrderAges(i) ==
    LET o == orders[i] IN
    /\ o.recent
    /\ orders' = IF o.status = "OPEN" THEN ReplaceAt(orders, i, [o EXCEPT !.recent = FALSE])
                                      ELSE RemoveAt(orders, i)
    /\ UNCHANGED brokerQty

\* IdempotencyManager's match: instrument, side and quantity, within the window, in a
\* list that may be of a time when a rejected order was still open.
Matches(o, s, side, n) == o.symbol = s /\ o.side = side /\ o.qty = n /\ o.recent

NoneOpen(s) == \A i \in DOMAIN orders : orders[i].symbol = s => orders[i].status # "OPEN"
=============================================================================
