---------------------------- MODULE ManualOrders ----------------------------
(***************************************************************************)
(* Orders placed by hand: BrokerPage of App.jsx and pages/LiveExecution,   *)
(* with the manual-order and orders routes of routers/dashboard.py and the *)
(* shared order cache.  The two pages differ where it matters:             *)
(* LiveExecution allows one submission at a time and polls the order list; *)
(* BrokerPage allows several, loads the list only when it is opened and    *)
(* after a success, and clears its form then.                              *)
(*                                                                         *)
(* A ticket is one thing the operator means to order; the operator submits *)
(* it again until some answer says it was placed.  The broker's list only  *)
(* grows, oldest order first, so a list is known by its length.            *)
(***************************************************************************)
EXTENDS Naturals, Sequences, FiniteSets

CONSTANTS Tickets,      \* what the operator means to order
          Blank,        \* a blank form
          Submits,      \* bound: submissions in flight
          Loads,        \* bound: order lists in flight
          MaxBook,      \* bound: orders at the broker
          LiveCut, BrokerCut,  \* rows of the two order tables: 50 and 12
          NoneInFlight, \* an idle slot
          NoFetch       \* the order cache is not being filled

Submissions == [ticket : Tickets, status : {"sent", "ok", "error", "orphan"}]

OrderLists == [status : {"sent", "ok", "error"}, length : 0..MaxBook]

ASSUME OrdersAssumption == /\ Blank \notin Tickets /\ MaxBook \in Nat
                           /\ {LiveCut, BrokerCut} \subseteq Nat
                           /\ IsFiniteSet(Submits)
                           /\ NoneInFlight \notin Submissions \cup OrderLists

VARIABLES orderPage,  \* which of the two pages is open
          form,       \* ticket in the form
          submits,    \* POST /manual-order in flight
          loads,      \* GET /orders in flight, for the open page
          feedback,   \* the message under the form
          told,       \* tickets the operator was told are placed
          shownOrders,\* length of the order list the page holds and counts
          book,       \* the broker: tickets in the order they were accepted
          orderCache, \* shared_order_cache: list, freshness, fetch under way
          untold,     \* history, per ticket: orders with no answer saying so
          blurred     \* history: a list failed, overlapped another one, or was
                      \* fetched while an order was placed, and no list was asked
                      \* for by itself, with nothing cached, since

ordersVars == <<orderPage, form, submits, loads, feedback, told, shownOrders,
                book, orderCache, untold, blurred>>

OrdersTypeOK ==
    /\ orderPage \in {"broker", "live"}
    /\ form \in Tickets \cup {Blank}
    /\ submits \in [Submits -> {NoneInFlight} \cup Submissions]
    /\ loads \in [Loads -> {NoneInFlight} \cup OrderLists]
    /\ feedback \in {"none", "placed", "failed"}
    /\ told \subseteq Tickets
    /\ shownOrders \in 0..MaxBook
    /\ book \in Seq(Tickets) /\ Len(book) <= MaxBook
    /\ orderCache \in [length : 0..MaxBook, fresh : BOOLEAN,
                       fetch : (0..MaxBook) \cup {NoFetch}]
    /\ untold \in [Tickets -> Nat]
    /\ blurred \in BOOLEAN

SentLoad == [status |-> "sent", length |-> 0]

\* A page is opened with a blank form; both load the order list.
Opened(p) ==
    /\ orderPage' = p
    /\ form' = Blank
    /\ feedback' = "none"
    /\ shownOrders' = 0

OneLoad ==
    LET first == CHOOSE l \in Loads : TRUE
    IN  [l \in Loads |-> IF l = first THEN SentLoad ELSE NoneInFlight]

OrdersInit ==
    /\ orderPage \in {"broker", "live"}
    /\ form = Blank
    /\ submits = [s \in Submits |-> NoneInFlight]
    /\ loads = OneLoad
    /\ feedback = "none"
    /\ told = {}
    /\ shownOrders = 0
    /\ book = <<>>
    /\ orderCache = [length |-> 0, fresh |-> FALSE, fetch |-> NoFetch]
    /\ untold = [t \in Tickets |-> 0]
    /\ blurred = FALSE

Status(s) == IF submits[s] = NoneInFlight THEN "idle" ELSE submits[s].status

\* Submissions of the page that is open now.
Submitting == {s \in Submits : Status(s) \in {"sent", "ok", "error"}}

Loading == {l \in Loads : loads[l] # NoneInFlight}

OrdersOf(t) == Cardinality({i \in DOMAIN book : book[i] = t})

\* The table shows the first rows of the list.
Cut == IF orderPage = "live" THEN LiveCut ELSE BrokerCut
Listed == {i \in 1..shownOrders : i <= Cut}

Unheard(t) == [untold EXCEPT ![t] = @ + 1]

-----------------------------------------------------------------------------
\* The operator goes to another page and comes back.  What was sent is served
\* all the same, but its answer reaches no page.
ReopenPage ==
    /\ Opened(orderPage)
    /\ loads' = OneLoad
    /\ submits' = [s \in Submits |->
                     CASE Status(s) = "sent" -> [submits[s] EXCEPT !.status = "orphan"]
                       [] Status(s) \in {"ok", "error"} -> NoneInFlight
                       [] OTHER -> submits[s]]
    /\ untold' = [t \in Tickets |->
                    untold[t] + Cardinality({s \in Submits :
                                   Status(s) = "ok" /\ submits[s].ticket = t})]
    /\ blurred' = FALSE
    /\ UNCHANGED <<orderPage, told, book, orderCache>>

FillForm(t) ==
    /\ form # t /\ t \notin told
    /\ form' = t
    /\ UNCHANGED <<orderPage, submits, loads, feedback, told, shownOrders, book,
                   orderCache, untold, blurred>>

\* Mutant: LiveExecution without its loading flag.
MaySubmitAlways == form # Blank

\* A blank form is refused by both pages; the buttons of LiveExecution are
\* disabled while it submits, BrokerPage's never.
MaySubmit == form # Blank /\ (orderPage = "live" => Submitting = {})

PlaceOrder(s) ==
    /\ MaySubmit
    /\ form \notin told
    /\ Status(s) = "idle"
    /\ submits' = [submits EXCEPT ![s] = [ticket |-> form, status |-> "sent"]]
    /\ feedback' = "none"
    /\ UNCHANGED <<orderPage, form, loads, told, shownOrders, book, orderCache,
                   untold, blurred>>

Served(s) == Status(s) \in {"sent", "orphan"}

AnsweredAs(s, status) ==
    submits' = [submits EXCEPT ![s] = IF @.status = "orphan" THEN NoneInFlight
                                      ELSE [@ EXCEPT !.status = status]]

Accepted(s) ==
    /\ Served(s) /\ Len(book) < MaxBook
    /\ book' = Append(book, submits[s].ticket)
    /\ blurred' = (blurred \/ orderCache.fetch # NoFetch)

\* Mutant: the cached order list outlives a manual order.
RouteKeepsCache(s) ==
    /\ Accepted(s)
    /\ AnsweredAs(s, "ok")
    /\ untold' = IF Status(s) = "orphan" THEN Unheard(submits[s].ticket) ELSE untold
    /\ UNCHANGED <<orderPage, form, loads, feedback, told, shownOrders, orderCache>>

\* The route places the order and drops the cached list.
RouteAccepts(s) ==
    /\ Accepted(s)
    /\ orderCache' = [orderCache EXCEPT !.fresh = FALSE]
    /\ AnsweredAs(s, "ok")
    /\ untold' = IF Status(s) = "orphan" THEN Unheard(submits[s].ticket) ELSE untold
    /\ UNCHANGED <<orderPage, form, loads, feedback, told, shownOrders>>

\* The broker takes the order, but its answer is lost before the backend (400,
\* the cached list stays) or before the browser (the list was dropped).
AnswerIsLost(s, dropped) ==
    /\ Accepted(s)
    /\ orderCache' = [orderCache EXCEPT !.fresh = @ /\ ~dropped]
    /\ AnsweredAs(s, "error")
    /\ untold' = Unheard(submits[s].ticket)
    /\ UNCHANGED <<orderPage, form, loads, feedback, told, shownOrders>>

\* Not READY, no admin token, no session, a bad field, a refusal, no connection.
RouteRefuses(s) ==
    /\ Served(s)
    /\ AnsweredAs(s, "error")
    /\ UNCHANGED <<orderPage, form, loads, feedback, told, shownOrders, book,
                   orderCache, untold, blurred>>

Cached == orderCache.fresh \/ orderCache.fetch # NoFetch

AskForList ==
    /\ Loading # Loads
    /\ loads' = [loads EXCEPT ![CHOOSE l \in Loads \ Loading : TRUE] = SentLoad]
    /\ blurred' = (Loading # {} \/ (blurred /\ Cached))

\* "Order placed": the form is cleared on BrokerPage, whatever it holds by now,
\* and the list is loaded.
SubmitSucceeds(s) ==
    /\ Status(s) = "ok"
    /\ submits' = [submits EXCEPT ![s] = NoneInFlight]
    /\ feedback' = "placed"
    /\ told' = told \cup {submits[s].ticket}
    /\ form' = IF orderPage = "broker" THEN Blank ELSE form
    /\ AskForList
    /\ UNCHANGED <<orderPage, shownOrders, book, orderCache, untold>>

SubmitFails(s) ==
    /\ Status(s) = "error"
    /\ submits' = [submits EXCEPT ![s] = NoneInFlight]
    /\ feedback' = "failed"
    /\ UNCHANGED <<orderPage, form, loads, told, shownOrders, book, orderCache,
                   untold, blurred>>

\* LiveExecution polls every second whatever is in flight.
PollOrders ==
    /\ orderPage = "live"
    /\ AskForList
    /\ UNCHANGED <<orderPage, form, submits, feedback, told, shownOrders, book,
                   orderCache, untold>>

Asked(l) == loads[l] # NoneInFlight /\ loads[l].status = "sent"

\* A reader of the shared cache finds it stale and asks the broker; what it gets is
\* stored when it arrives.  (Of many readers at a time see OrderCache.)
FetchOrders ==
    /\ ~orderCache.fresh /\ orderCache.fetch = NoFetch
    /\ orderCache' = [orderCache EXCEPT !.fetch = Len(book)]
    /\ UNCHANGED <<orderPage, form, submits, loads, feedback, told, shownOrders,
                   book, untold, blurred>>

StoreOrders ==
    /\ orderCache.fetch # NoFetch
    /\ orderCache' = [length |-> orderCache.fetch, fresh |-> TRUE, fetch |-> NoFetch]
    /\ UNCHANGED <<orderPage, form, submits, loads, feedback, told, shownOrders,
                   book, untold, blurred>>

\* GET /orders answers with the cached list within its second, else with the
\* broker's, which it stores.
ServeOrders(l) ==
    LET length == IF orderCache.fresh THEN orderCache.length ELSE Len(book) IN
    /\ Asked(l)
    /\ orderCache' = [orderCache EXCEPT !.length = length, !.fresh = TRUE]
    /\ loads' = [loads EXCEPT ![l] = [status |-> "ok", length |-> length]]
    /\ UNCHANGED <<orderPage, form, submits, feedback, told, shownOrders, book,
                   untold, blurred>>

\* get_orders without the broker's list.  If the fetch raises, the list it has is
\* returned, and stays stale; if it has none, or there is no session, or the answer is
\* no list, an empty one is stored as fresh.
FetchBreaks(fetch) ==
    orderCache' \in {[length |-> 0, fresh |-> TRUE, fetch |-> fetch]}
                    \cup IF orderCache.length = 0 THEN {}
                         ELSE {[orderCache EXCEPT !.fetch = fetch]}

StoreBroken ==
    /\ orderCache.fetch # NoFetch
    /\ FetchBreaks(NoFetch)
    /\ blurred' = TRUE
    /\ UNCHANGED <<orderPage, form, submits, loads, feedback, told, shownOrders,
                   book, untold>>

\* The page cannot tell such a list from the broker's.
ServeBroken(l) ==
    /\ Asked(l) /\ ~orderCache.fresh
    /\ FetchBreaks(orderCache.fetch)
    /\ loads' = [loads EXCEPT ![l] = [status |-> "ok", length |-> orderCache'.length]]
    /\ blurred' = TRUE
    /\ UNCHANGED <<orderPage, form, submits, feedback, told, shownOrders, book, untold>>

AnyBroken == StoreBroken \/ \E l \in Loads : ServeBroken(l)

\* The answer is not 2xx, or there is none.
OrdersFail(l) ==
    /\ Asked(l)
    /\ loads' = [loads EXCEPT ![l].status = "error"]
    /\ blurred' = TRUE
    /\ UNCHANGED <<orderPage, form, submits, feedback, told, shownOrders, book,
                   orderCache, untold>>

\* Mutant: the second starts again with every request.
ExpiresUnlessRead ==
    /\ orderCache.fresh /\ Loading = {}
    /\ orderCache' = [orderCache EXCEPT !.fresh = FALSE]
    /\ UNCHANGED <<orderPage, form, submits, loads, feedback, told, shownOrders,
                   book, untold, blurred>>

\* The second of the cache is over.
OrderCacheExpires ==
    /\ orderCache.fresh
    /\ orderCache' = [orderCache EXCEPT !.fresh = FALSE]
    /\ UNCHANGED <<orderPage, form, submits, loads, feedback, told, shownOrders,
                   book, untold, blurred>>

\* LiveExecution keeps its list when an answer is no list; BrokerPage shows an
\* empty one for an error status, and keeps its own only if there is no answer.
ShowOrders(l) ==
    /\ l \in Loading /\ ~Asked(l)
    /\ loads' = [loads EXCEPT ![l] = NoneInFlight]
    /\ shownOrders' \in IF loads[l].status = "ok" THEN {loads[l].length}
                        ELSE IF orderPage = "live" THEN {shownOrders}
                        ELSE {shownOrders, 0}
    /\ UNCHANGED <<orderPage, form, submits, feedback, told, book, orderCache,
                   untold, blurred>>

OrdersNext ==
    \/ ReopenPage
    \/ \E t \in Tickets : FillForm(t)
    \/ \E s \in Submits : PlaceOrder(s)
    \/ \E s \in Submits : RouteAccepts(s)
    \/ \E s \in Submits, dropped \in BOOLEAN : AnswerIsLost(s, dropped)
    \/ \E s \in Submits : RouteRefuses(s)
    \/ \E s \in Submits : SubmitSucceeds(s)
    \/ \E s \in Submits : SubmitFails(s)
    \/ PollOrders
    \/ FetchOrders
    \/ StoreOrders
    \/ StoreBroken
    \/ \E l \in Loads : ServeOrders(l)
    \/ \E l \in Loads : ServeBroken(l)
    \/ \E l \in Loads : OrdersFail(l)
    \/ OrderCacheExpires
    \/ \E l \in Loads : ShowOrders(l)

OrdersSpec == OrdersInit /\ [][OrdersNext]_ordersVars

\* LiveExecution's timer runs (LiveExecution.jsx:77), the cache's second passes,
\* answers arrive; not every list fails, nor does the operator leave the page
\* before every answer, for ever.
ListServed == \E l \in Loads : ServeOrders(l)
AnyListShown == \E l \in Loads : ShowOrders(l)
ListShown == \E l \in Loads : loads[l] # NoneInFlight /\ loads[l].status = "ok" /\ ShowOrders(l)

OrdersFairness ==
    /\ WF_ordersVars(PollOrders)
    /\ WF_ordersVars(StoreOrders)
    /\ WF_ordersVars(OrderCacheExpires)
    /\ WF_ordersVars(AnyListShown)
    /\ SF_ordersVars(ListServed)
    /\ SF_ordersVars(ListShown)

FairOrdersSpec == OrdersSpec /\ OrdersFairness

-----------------------------------------------------------------------------
\* On LiveExecution an operator who submits a ticket until told it is placed gets
\* one order for it, and one more for each answer that was lost, or that came when the
\* page was left.  (BrokerPage promises no such thing: its button stays enabled.)
\* About LiveExecution.jsx:102-139 and 233-248.
OneOrderPerTicket ==
    orderPage = "live" => \A t \in Tickets : OrdersOf(t) <= 1 + untold[t]

\* Once no list is under way, the page counts every order that it said was placed, and
\* its table shows it unless it is beyond the rows of the table: the cached list must
\* not hide a new order.  It may for as long as a list has failed (for the backend, too,
\* which answers 200 all the same), overlapped another, or was being fetched when an
\* order was placed, and no list was asked for by itself with nothing cached since.
\* About dashboard.py:173, App.jsx:501 and 645, LiveExecution.jsx:51 and 132, and
\* order_cache.py:34-62.
PlacedIsListed ==
    feedback = "placed" /\ Loading = {} /\ ~blurred
        => \A t \in told : \E i \in 1..shownOrders :
              book[i] = t /\ (i \in Listed \/ i > Cut)

\* On LiveExecution every order at the broker is counted sooner or later, and is in the
\* table if it is among the first LiveCut, however the lists overtake each other and
\* whatever the backend could not fetch, once that ends.
\* About LiveExecution.jsx:51-79 and order_cache.py:34-62.
AcceptedIsListed ==
    <>[][~AnyBroken]_ordersVars =>
        \A n \in 1..MaxBook :
            []<>(orderPage = "live" /\ Len(book) >= n
                     => n <= shownOrders /\ (n \in Listed \/ n > LiveCut))
=============================================================================
