------------------------- MODULE ManualOrders_proofs -------------------------
(***************************************************************************)
(* Orders placed by hand, for any tickets, submissions and lists in        *)
(* flight: what is lost, retried, cached or overtaken, LiveExecution       *)
(* places a ticket once, and the list a page shows after "Order placed"    *)
(* has the order.                                                          *)
(***************************************************************************)
EXTENDS ManualOrders, FiniteSetTheorems, TLAPS

\* On LiveExecution one submission of the page is under way; a ticket with more orders
\* than answers were lost is one the operator was told of, or is about to be.
OneTicket ==
    orderPage = "live" =>
        /\ \A s, u \in Submitting : s = u
        /\ \A t \in Tickets :
              /\ OrdersOf(t) <= 1 + untold[t]
              /\ OrdersOf(t) > untold[t] =>
                    t \in told \/ \E s \in Submits : Status(s) = "ok" /\ submits[s].ticket = t
        /\ \A s \in Submits, t \in Tickets :
              Status(s) = "sent" /\ submits[s].ticket = t => OrdersOf(t) <= untold[t]

\* The first n orders of a book b hold one for each ticket of T.
Lists(b, n, T) == \A t \in T : \E i \in 1..n : i \in DOMAIN b /\ b[i] = t

\* Tickets the operator was told of, or is about to be.
Promised == told \cup {submits[s].ticket : s \in {u \in Submits : Status(u) = "ok"}}

Awaiting == feedback = "placed" \/ \E s \in Submits : Status(s) = "ok"

\* As long as no list failed, overlapped another or was being fetched during an order,
\* the cached list, the one that is fetched and the one that is loaded have every order
\* the page promises.
ListsKeepUp ==
    ~blurred =>
        /\ \A l, m \in Loading : l = m
        /\ \A l \in Loading : loads[l].status # "error"
        /\ feedback = "placed" =>
              /\ \A l \in Loading : loads[l].status = "ok" => Lists(book, loads[l].length, told)
              /\ Loading = {} => Lists(book, shownOrders, told)
        /\ Awaiting =>
              /\ orderCache.fresh => Lists(book, orderCache.length, Promised)
              /\ orderCache.fetch # NoFetch => Lists(book, orderCache.fetch, Promised)

OrdersInv ==
    /\ OrdersTypeOK
    /\ OneTicket
    /\ Lists(book, Len(book), Promised)
    /\ ListsKeepUp

\* Submissions, lists and the cache as records.
LEMMA SubmissionFacts ==
    \A r \in Submissions : /\ r # NoneInFlight
                           /\ r.ticket \in Tickets
                           /\ r.status \in {"sent", "ok", "error", "orphan"}
<1>1. \A r \in Submissions : r # NoneInFlight
  BY OrdersAssumption
<1>2. \A r \in Submissions : r.ticket \in Tickets
                             /\ r.status \in {"sent", "ok", "error", "orphan"}
  BY DEF Submissions
<1> QED
  BY <1>1, <1>2

LEMMA NewSubmission ==
    ASSUME NEW t \in Tickets
    PROVE  /\ [ticket |-> t, status |-> "sent"] \in Submissions
           /\ [ticket |-> t, status |-> "sent"].ticket = t
           /\ [ticket |-> t, status |-> "sent"].status = "sent"
  BY DEF Submissions

LEMMA SubmissionAnswered ==
    ASSUME NEW r \in Submissions, NEW status \in {"sent", "ok", "error", "orphan"}
    PROVE  /\ [r EXCEPT !.status = status] \in Submissions
           /\ [r EXCEPT !.status = status].ticket = r.ticket
           /\ [r EXCEPT !.status = status].status = status
  BY DEF Submissions

LEMMA ListFacts ==
    \A r \in OrderLists : /\ r # NoneInFlight
                          /\ r.status \in {"sent", "ok", "error"}
                          /\ r.length \in 0..MaxBook
<1>1. \A r \in OrderLists : r # NoneInFlight
  BY OrdersAssumption
<1>2. \A r \in OrderLists : r.status \in {"sent", "ok", "error"} /\ r.length \in 0..MaxBook
  BY DEF OrderLists
<1> QED
  BY <1>1, <1>2

LEMMA NewList ==
    ASSUME NEW n \in 0..MaxBook, NEW status \in {"sent", "ok", "error"}
    PROVE  /\ [status |-> status, length |-> n] \in OrderLists
           /\ [status |-> status, length |-> n].status = status
           /\ [status |-> status, length |-> n].length = n
  BY DEF OrderLists

LEMMA ListAnsweredWith ==
    ASSUME NEW r \in OrderLists, NEW status \in {"sent", "ok", "error"}
    PROVE  /\ [r EXCEPT !.status = status] \in OrderLists
           /\ [r EXCEPT !.status = status].status = status
  BY DEF OrderLists

LEMMA SentLoadFacts == SentLoad \in OrderLists /\ SentLoad.status = "sent"
<1>1. 0 \in 0..MaxBook /\ "sent" \in {"sent", "ok", "error"}
  BY OrdersAssumption
<1> QED
  BY <1>1, NewList DEF SentLoad

CacheRecords == [length : 0..MaxBook, fresh : BOOLEAN, fetch : (0..MaxBook) \cup {NoFetch}]

LEMMA CacheFacts ==
    /\ \A c \in CacheRecords :
          /\ c.length \in 0..MaxBook /\ c.fresh \in BOOLEAN
          /\ c.fetch \in (0..MaxBook) \cup {NoFetch}
          /\ c = [length |-> c.length, fresh |-> c.fresh, fetch |-> c.fetch]
    /\ \A n \in 0..MaxBook, f \in BOOLEAN, m \in (0..MaxBook) \cup {NoFetch} :
          LET new == [length |-> n, fresh |-> f, fetch |-> m]
          IN  new \in CacheRecords /\ new.length = n /\ new.fresh = f /\ new.fetch = m
  BY DEF CacheRecords

\* What becomes of a submission changes no other one.
LEMMA Resubmitted ==
    ASSUME OrdersTypeOK, NEW s \in Submits, NEW new \in {NoneInFlight} \cup Submissions,
           submits' = [submits EXCEPT ![s] = new]
    PROVE  /\ submits' \in [Submits -> {NoneInFlight} \cup Submissions]
           /\ submits'[s] = new
           /\ Status(s)' = IF new = NoneInFlight THEN "idle" ELSE new.status
           /\ \A u \in Submits \ {s} : submits'[u] = submits[u] /\ Status(u)' = Status(u)
  BY DEF OrdersTypeOK, Status

LEMMA SubmissionOf ==
    ASSUME OrdersTypeOK, NEW s \in Submits, Status(s) # "idle"
    PROVE  /\ submits[s] \in Submissions
           /\ submits[s].ticket \in Tickets
           /\ Status(s) = submits[s].status
           /\ Status(s) \in {"sent", "ok", "error", "orphan"}
  BY SubmissionFacts DEF OrdersTypeOK, Status

\* An answer reaches the page that sent the submission, or nobody.
LEMMA Answered ==
    ASSUME OrdersTypeOK, NEW s \in Submits, Served(s), NEW status \in {"ok", "error"},
           AnsweredAs(s, status)
    PROVE  /\ submits' \in [Submits -> {NoneInFlight} \cup Submissions]
           /\ Status(s)' = IF Status(s) = "orphan" THEN "idle" ELSE status
           /\ Status(s) = "sent" => submits'[s].ticket = submits[s].ticket
           /\ \A u \in Submits \ {s} : submits'[u] = submits[u] /\ Status(u)' = Status(u)
<1> DEFINE old == submits[s]
           new == [old EXCEPT !.status = status]
<1>1. old \in Submissions /\ Status(s) = old.status /\ old # NoneInFlight
      /\ Status(s) \in {"sent", "orphan"}
  BY SubmissionOf, SubmissionFacts DEF Served
<1>a. status \in {"sent", "ok", "error", "orphan"}
  OBVIOUS
<1>2. new \in Submissions /\ new.ticket = old.ticket /\ new.status = status
      /\ new # NoneInFlight
  BY <1>1, <1>a, SubmissionFacts, SubmissionAnswered
<1>3. submits' = [submits EXCEPT ![s] = IF old.status = "orphan" THEN NoneInFlight ELSE new]
  BY DEF AnsweredAs, OrdersTypeOK
<1> HIDE DEF new
<1>4. CASE old.status = "orphan"
  <2>1. submits' = [submits EXCEPT ![s] = NoneInFlight]
    BY <1>3, <1>4
  <2> QED
    BY <1>1, <1>4, <2>1, Resubmitted
<1>5. CASE old.status = "sent"
  <2>1. submits' = [submits EXCEPT ![s] = new]
    BY <1>3, <1>5
  <2> QED
    BY <1>1, <1>2, <1>5, <2>1, Resubmitted
<1> QED
  BY <1>1, <1>4, <1>5

-----------------------------------------------------------------------------
\* The book grows by one order.
LEMMA BookGrows ==
    ASSUME OrdersTypeOK, NEW t \in Tickets, book' = Append(book, t), Len(book) < MaxBook
    PROVE  /\ book' \in Seq(Tickets) /\ Len(book') = Len(book) + 1 /\ Len(book') <= MaxBook
           /\ DOMAIN book = 1..Len(book) /\ DOMAIN book' = 1..(Len(book) + 1)
           /\ book'[Len(book) + 1] = t
           /\ \A i \in DOMAIN book : book'[i] = book[i]
  BY OrdersAssumption DEF OrdersTypeOK

LEMMA OrdersCounted ==
    ASSUME OrdersTypeOK, NEW t
    PROVE  OrdersOf(t) \in Nat /\ IsFiniteSet({i \in DOMAIN book : book[i] = t})
<1>1. DOMAIN book = 1..Len(book) /\ Len(book) \in Nat
  BY DEF OrdersTypeOK
<1>2. IsFiniteSet(1..Len(book))
  BY <1>1, FS_Interval
<1>3. IsFiniteSet({i \in DOMAIN book : book[i] = t})
  BY <1>1, <1>2, FS_Subset
<1> QED
  BY <1>3, FS_CardinalityType DEF OrdersOf

LEMMA OrdersGrow ==
    ASSUME OrdersTypeOK, NEW t \in Tickets, book' = Append(book, t), Len(book) < MaxBook
    PROVE  /\ OrdersOf(t)' = OrdersOf(t) + 1
           /\ \A u : u # t => OrdersOf(u)' = OrdersOf(u)
<1> DEFINE Of(u) == {i \in DOMAIN book : book[i] = u}
           OfNew(u) == {i \in DOMAIN book' : book'[i] = u}
           n == Len(book) + 1
<1>1. /\ DOMAIN book = 1..Len(book) /\ DOMAIN book' = 1..n /\ Len(book) \in Nat
      /\ book'[n] = t
      /\ \A i \in DOMAIN book : book'[i] = book[i]
  BY BookGrows DEF OrdersTypeOK
<1>2. DOMAIN book' = DOMAIN book \cup {n} /\ n \notin DOMAIN book
  BY <1>1
<1>3. OfNew(t) = Of(t) \cup {n} /\ n \notin Of(t)
  BY <1>1, <1>2
<1>4. \A u : u # t => OfNew(u) = Of(u)
  BY <1>1, <1>2
<1>5. IsFiniteSet(Of(t))
  BY OrdersCounted
<1>6. Cardinality(OfNew(t)) = Cardinality(Of(t)) + 1
  BY <1>3, <1>5, FS_AddElement
<1> QED
  BY <1>4, <1>6 DEF OrdersOf

LEMMA ListsGrow ==
    ASSUME OrdersTypeOK, NEW t \in Tickets, book' = Append(book, t), Len(book) < MaxBook,
           NEW n, NEW T, Lists(book, n, T)
    PROVE  Lists(book', n, T)
<1>1. /\ DOMAIN book \subseteq DOMAIN book' /\ \A i \in DOMAIN book : book'[i] = book[i]
  <2>1. Len(book) \in Nat
    BY DEF OrdersTypeOK
  <2> QED
    BY <2>1, BookGrows
<1> QED
  BY <1>1 DEF Lists

\* A longer list holds no less, and for fewer tickets it is enough.
LEMMA ListsMonotone ==
    ASSUME NEW b, NEW n \in Nat, NEW m \in Nat, n <= m, NEW T, NEW U, U \subseteq T,
           Lists(b, n, T)
    PROVE  Lists(b, m, U)
  BY DEF Lists

\* What is promised after a step that promises nothing new.
LEMMA NothingPromised ==
    ASSUME told' \subseteq Promised,
           \A u \in Submits : Status(u)' = "ok" =>
              Status(u) = "ok" /\ submits'[u].ticket = submits[u].ticket
    PROVE  Promised' \subseteq Promised
<1>1. Promised' = told' \cup {submits'[u].ticket : u \in {v \in Submits : Status(v)' = "ok"}}
  BY DEF Promised
<1>2. ASSUME NEW u \in Submits, Status(u)' = "ok" PROVE submits'[u].ticket \in Promised
  BY <1>2 DEF Promised
<1> QED
  BY <1>1, <1>2

\* A step that leaves orders, submissions and their message alone.
LEMMA SubmissionsAlone ==
    ASSUME OrdersInv, UNCHANGED <<orderPage, submits, feedback, told, book, untold>>
    PROVE  /\ OneTicket'
           /\ Lists(book', Len(book'), Promised')
           /\ Promised' = Promised
           /\ Awaiting' <=> Awaiting
<1>1. \A u \in Submits : Status(u)' = Status(u)
  BY DEF Status
<1>2. Submitting' = Submitting
  BY <1>1 DEF Submitting
<1>3. \A t : OrdersOf(t)' = OrdersOf(t)
  BY DEF OrdersOf
<1>4. Promised' = Promised
  BY <1>1 DEF Promised
<1>5. Awaiting' <=> Awaiting
  BY <1>1 DEF Awaiting
<1>6. OneTicket'
  BY <1>1, <1>2, <1>3 DEF OneTicket, OrdersInv
<1> QED
  BY <1>4, <1>5, <1>6 DEF OrdersInv

LEMMA FillKeeps == ASSUME OrdersInv, NEW t \in Tickets, FillForm(t) PROVE OrdersInv'
<1>1. /\ form' = t
      /\ UNCHANGED <<orderPage, submits, loads, feedback, told, shownOrders, book,
                     orderCache, untold, blurred>>
  BY DEF FillForm
<1>2. OrdersTypeOK'
  BY <1>1 DEF OrdersInv, OrdersTypeOK
<1>3. Loading' = Loading
  BY <1>1 DEF Loading
<1> QED
  BY <1>1, <1>2, <1>3, SubmissionsAlone DEF OrdersInv, ListsKeepUp

\* The list is asked for in an idle slot; if another one is under way they overlap, and
\* if none is and nothing is cached, what was missed before is over.
LEMMA ListAskedFor ==
    ASSUME OrdersTypeOK, AskForList
    PROVE  /\ loads' \in [Loads -> {NoneInFlight} \cup OrderLists]
           /\ Loading' # {}
           /\ blurred' \in BOOLEAN
           /\ ~blurred' => ~blurred \/ (~orderCache.fresh /\ orderCache.fetch = NoFetch)
           /\ ~blurred' => \A l, m \in Loading' : l = m
           /\ ~blurred' => \A l \in Loading' : loads'[l].status = "sent"
<1> DEFINE l == CHOOSE l \in Loads \ Loading : TRUE
<1>1. Loading # Loads /\ loads' = [loads EXCEPT ![l] = SentLoad]
      /\ blurred' = (Loading # {} \/ (blurred /\ Cached))
  BY DEF AskForList
<1>2. l \in Loads /\ l \notin Loading
  BY <1>1 DEF Loading
<1> HIDE DEF l
<1>3. SentLoad \in OrderLists /\ SentLoad # NoneInFlight /\ SentLoad.status = "sent"
  BY SentLoadFacts, ListFacts
<1>4. /\ loads' \in [Loads -> {NoneInFlight} \cup OrderLists]
      /\ loads'[l] = SentLoad
      /\ \A m \in Loads \ {l} : loads'[m] = loads[m]
  BY <1>1, <1>2, <1>3 DEF OrdersTypeOK
<1>5. Loading' = Loading \cup {l}
  BY <1>2, <1>3, <1>4 DEF Loading
<1>6. blurred' \in BOOLEAN
  BY <1>1, Zenon
<1>7. ~blurred' => Loading = {} /\ (~blurred \/ ~Cached)
  BY <1>1, Zenon
<1>8. ~Cached => ~orderCache.fresh /\ orderCache.fetch = NoFetch
  BY DEF Cached
<1> QED
  BY <1>3, <1>4, <1>5, <1>6, <1>7, <1>8 DEF Loading

\* A list that is asked for by itself keeps up: nothing is shown yet, and what is
\* cached kept up before.
LEMMA AskKeepsLists ==
    ASSUME OrdersInv, AskForList, UNCHANGED <<orderCache, book>>, Awaiting' => Awaiting,
           Promised' \subseteq Promised
    PROVE  ListsKeepUp'
<1>1. /\ Loading' # {}
      /\ ~blurred' => ~blurred \/ (~orderCache.fresh /\ orderCache.fetch = NoFetch)
      /\ ~blurred' => \A l, m \in Loading' : l = m
      /\ ~blurred' => \A l \in Loading' : loads'[l].status = "sent"
  BY ListAskedFor DEF OrdersInv
<1>2. ASSUME ~blurred', Awaiting', orderCache'.fresh
      PROVE  Lists(book', orderCache'.length, Promised')
  BY <1>1, <1>2 DEF OrdersInv, ListsKeepUp, Lists
<1>3. ASSUME ~blurred', Awaiting', orderCache'.fetch # NoFetch
      PROVE  Lists(book', orderCache'.fetch, Promised')
  BY <1>1, <1>3 DEF OrdersInv, ListsKeepUp, Lists
<1> QED
  BY <1>1, <1>2, <1>3 DEF ListsKeepUp

LEMMA PollKeeps == ASSUME OrdersInv, PollOrders PROVE OrdersInv'
<1>1. /\ AskForList
      /\ UNCHANGED <<orderPage, form, submits, feedback, told, shownOrders, book,
                     orderCache, untold>>
  BY DEF PollOrders
<1>2. OrdersTypeOK
  BY DEF OrdersInv
<1>3. OrdersTypeOK'
  BY <1>1, <1>2, ListAskedFor DEF OrdersTypeOK
<1>4. ListsKeepUp'
  BY <1>1, SubmissionsAlone, AskKeepsLists
<1> QED
  BY <1>1, <1>3, <1>4, SubmissionsAlone DEF OrdersInv

LEMMA CacheTyped ==
    OrdersTypeOK => /\ orderCache \in CacheRecords
                    /\ orderCache.length \in 0..MaxBook
                    /\ orderCache.fresh \in BOOLEAN
                    /\ orderCache.fetch \in (0..MaxBook) \cup {NoFetch}
  BY DEF OrdersTypeOK, CacheRecords

LEMMA CacheChanges ==
    ASSUME NEW c \in CacheRecords
    PROVE  /\ \A m : [c EXCEPT !.fetch = m]
                        = [length |-> c.length, fresh |-> c.fresh, fetch |-> m]
           /\ \A f : [c EXCEPT !.fresh = f]
                        = [length |-> c.length, fresh |-> f, fetch |-> c.fetch]
  BY DEF CacheRecords

LEMMA CacheServes ==
    ASSUME NEW c \in CacheRecords, NEW n \in 0..MaxBook
    PROVE  [c EXCEPT !.length = n, !.fresh = TRUE]
              = [length |-> n, fresh |-> TRUE, fetch |-> c.fetch]
<1> DEFINE new == [c EXCEPT !.length = n, !.fresh = TRUE]
<1>1. DOMAIN c = {"length", "fresh", "fetch"}
      /\ c = [x \in {"length", "fresh", "fetch"} |-> c[x]]
  BY DEF CacheRecords
<1>2. new = [x \in {"length", "fresh", "fetch"} |->
                IF x = "fresh" THEN TRUE ELSE IF x = "length" THEN n ELSE c[x]]
  BY <1>1
<1>3. new.length = n /\ new.fresh = TRUE /\ new.fetch = c.fetch
  BY <1>2
<1>4. c.fetch \in (0..MaxBook) \cup {NoFetch}
  BY CacheFacts
<1>5. new \in CacheRecords
  BY <1>2, <1>3, <1>4 DEF CacheRecords
<1> HIDE DEF new
<1>6. new = [length |-> new.length, fresh |-> new.fresh, fetch |-> new.fetch]
  BY <1>5, CacheFacts
<1>7. new = [length |-> n, fresh |-> TRUE, fetch |-> c.fetch]
  BY <1>3, <1>6
<1> QED
  BY <1>7 DEF new

\* A step of the cache alone: what it holds, and what is fetched for it, is what one
\* of them or the book held.
LEMMA CacheStepKeeps ==
    ASSUME OrdersInv,
           UNCHANGED <<orderPage, form, submits, loads, feedback, told, shownOrders, book,
                       untold, blurred>>,
           NEW n \in 0..MaxBook, NEW f \in BOOLEAN, NEW m \in (0..MaxBook) \cup {NoFetch},
           orderCache' = [length |-> n, fresh |-> f, fetch |-> m],
           f => \/ orderCache.fresh /\ n = orderCache.length
                \/ orderCache.fetch # NoFetch /\ n = orderCache.fetch,
           m # NoFetch => m \in {orderCache.fetch, Len(book)}
                          /\ (m = orderCache.fetch \/ m = Len(book))
    PROVE  OrdersInv'
<1>1. /\ orderCache'.length = n /\ orderCache'.fresh = f /\ orderCache'.fetch = m
  OBVIOUS
<1>2. orderCache' \in [length : 0..MaxBook, fresh : BOOLEAN, fetch : (0..MaxBook) \cup {NoFetch}]
  OBVIOUS
<1>3. OrdersTypeOK'
  BY <1>2 DEF OrdersInv, OrdersTypeOK
<1>4. Loading' = Loading
  BY DEF Loading
<1>5. Promised' = Promised /\ (Awaiting' <=> Awaiting)
  BY SubmissionsAlone
<1>6. ASSUME ~blurred, Awaiting
      PROVE  /\ f => Lists(book, n, Promised)
             /\ m # NoFetch => Lists(book, m, Promised)
  BY <1>6 DEF OrdersInv, ListsKeepUp
<1>7. ListsKeepUp'
  BY <1>1, <1>4, <1>5, <1>6 DEF OrdersInv, ListsKeepUp
<1> QED
  BY <1>3, <1>7, SubmissionsAlone DEF OrdersInv

LEMMA CacheKeeps ==
    ASSUME OrdersInv, FetchOrders \/ StoreOrders \/ OrderCacheExpires
    PROVE  OrdersInv'
<1>1. /\ orderCache \in CacheRecords
      /\ orderCache.length \in 0..MaxBook
      /\ orderCache.fresh \in BOOLEAN
      /\ orderCache.fetch \in (0..MaxBook) \cup {NoFetch}
      /\ Len(book) \in 0..MaxBook
  <2>1. OrdersTypeOK
    BY DEF OrdersInv
  <2>2. Len(book) \in 0..MaxBook
    BY <2>1 DEF OrdersTypeOK
  <2> QED
    BY <2>1, <2>2, CacheTyped
<1>2. CASE FetchOrders
  <2>1. orderCache' = [length |-> orderCache.length, fresh |-> orderCache.fresh,
                       fetch |-> Len(book)]
    BY <1>1, <1>2, CacheChanges DEF FetchOrders
  <2> QED
    BY <1>1, <1>2, <2>1, CacheStepKeeps DEF FetchOrders
<1>3. CASE StoreOrders
  <2>1. /\ orderCache' = [length |-> orderCache.fetch, fresh |-> TRUE, fetch |-> NoFetch]
        /\ orderCache.fetch # NoFetch /\ orderCache.fetch \in 0..MaxBook
    BY <1>1, <1>3 DEF StoreOrders
  <2> QED
    BY <1>1, <1>3, <2>1, CacheStepKeeps DEF StoreOrders
<1>4. CASE OrderCacheExpires
  <2>1. orderCache' = [length |-> orderCache.length, fresh |-> FALSE,
                       fetch |-> orderCache.fetch]
    BY <1>1, <1>4, CacheChanges DEF OrderCacheExpires
  <2> QED
    BY <1>1, <1>4, <2>1, CacheStepKeeps DEF OrderCacheExpires
<1> QED
  BY <1>2, <1>3, <1>4

\* A list of the page changes no other one.
LEMMA ListMoves ==
    ASSUME OrdersTypeOK, NEW l \in Loading, NEW new \in {NoneInFlight} \cup OrderLists,
           loads' = [loads EXCEPT ![l] = new]
    PROVE  /\ loads' \in [Loads -> {NoneInFlight} \cup OrderLists]
           /\ l \in Loads /\ loads'[l] = new
           /\ \A m \in Loads \ {l} : loads'[m] = loads[m]
           /\ Loading' = IF new = NoneInFlight THEN Loading \ {l} ELSE Loading
           /\ loads[l] \in OrderLists
  BY DEF OrdersTypeOK, Loading

LEMMA ServeKeeps == ASSUME OrdersInv, NEW l \in Loads, ServeOrders(l) PROVE OrdersInv'
<1> DEFINE n == IF orderCache.fresh THEN orderCache.length ELSE Len(book)
           new == [status |-> "ok", length |-> n]
<1>1. /\ l \in Loading
      /\ orderCache' = [orderCache EXCEPT !.length = n, !.fresh = TRUE]
      /\ loads' = [loads EXCEPT ![l] = new]
      /\ UNCHANGED <<orderPage, form, submits, feedback, told, shownOrders, book,
                     untold, blurred>>
  BY DEF ServeOrders, Asked, Loading
<1>2. OrdersTypeOK /\ Len(book) \in 0..MaxBook
  BY DEF OrdersInv, OrdersTypeOK
<1>3. /\ orderCache \in CacheRecords
      /\ orderCache.length \in 0..MaxBook
      /\ orderCache.fetch \in (0..MaxBook) \cup {NoFetch}
  BY <1>2, CacheTyped
<1>4. n \in 0..MaxBook
  BY <1>2, <1>3
<1>5. (~blurred /\ Awaiting => Lists(book, n, Promised))
  BY DEF OrdersInv, ListsKeepUp
<1>6. ~blurred /\ feedback = "placed" => Lists(book, n, told)
  BY <1>5 DEF Awaiting, Lists, Promised
<1>7. new \in OrderLists /\ new.status = "ok" /\ new.length = n /\ new # NoneInFlight
  BY <1>4, NewList, ListFacts
<1> HIDE DEF n, new
<1>8. orderCache' = [length |-> n, fresh |-> TRUE, fetch |-> orderCache.fetch]
  BY <1>1, <1>3, CacheServes
<1>9. /\ orderCache'.length = n /\ orderCache'.fresh = TRUE
      /\ orderCache'.fetch = orderCache.fetch
      /\ orderCache' \in [length : 0..MaxBook, fresh : BOOLEAN,
                          fetch : (0..MaxBook) \cup {NoFetch}]
  BY <1>3, <1>4, <1>8
<1>10. /\ loads' \in [Loads -> {NoneInFlight} \cup OrderLists]
       /\ loads'[l] = new /\ Loading' = Loading
       /\ \A m \in Loads \ {l} : loads'[m] = loads[m]
  BY <1>1, <1>2, <1>7, ListMoves
<1>11. OrdersTypeOK'
  BY <1>1, <1>2, <1>9, <1>10 DEF OrdersTypeOK
<1>12. Promised' = Promised /\ (Awaiting' <=> Awaiting) /\ OneTicket'
       /\ Lists(book', Len(book'), Promised')
  BY <1>1, SubmissionsAlone
<1>13. ASSUME ~blurred, feedback = "placed", NEW k \in Loading, loads'[k].status = "ok"
       PROVE  Lists(book, loads'[k].length, told)
  BY <1>6, <1>7, <1>10, <1>13 DEF OrdersInv, ListsKeepUp, Loading
<1>14. ASSUME ~blurred PROVE \A k \in Loading : loads'[k].status # "error"
  BY <1>7, <1>10, <1>14 DEF OrdersInv, ListsKeepUp, Loading
<1>15. ListsKeepUp'
  BY <1>1, <1>5, <1>9, <1>10, <1>12, <1>13, <1>14 DEF OrdersInv, ListsKeepUp
<1> QED
  BY <1>11, <1>12, <1>15 DEF OrdersInv

\* While a list was not the broker's, nothing is claimed of what is shown.
LEMMA BlurredKeeps ==
    ASSUME OrdersInv, blurred' = TRUE,
           loads' \in [Loads -> {NoneInFlight} \cup OrderLists],
           orderCache' \in CacheRecords,
           UNCHANGED <<orderPage, form, submits, feedback, told, shownOrders, book, untold>>
    PROVE  OrdersInv'
<1>1. OrdersTypeOK'
  BY DEF OrdersInv, OrdersTypeOK, CacheRecords
<1> QED
  BY <1>1, SubmissionsAlone DEF OrdersInv, ListsKeepUp

LEMMA FetchBroken ==
    ASSUME OrdersTypeOK, NEW m \in (0..MaxBook) \cup {NoFetch}, FetchBreaks(m)
    PROVE  orderCache' \in CacheRecords /\ orderCache'.length \in 0..MaxBook
<1>1. /\ orderCache \in CacheRecords /\ orderCache.length \in 0..MaxBook
      /\ orderCache.fresh \in BOOLEAN /\ 0 \in 0..MaxBook
  BY CacheTyped, OrdersAssumption
<1>2. \/ orderCache' = [length |-> 0, fresh |-> TRUE, fetch |-> m]
      \/ orderCache' = [orderCache EXCEPT !.fetch = m]
  BY DEF FetchBreaks
<1>3. \/ orderCache' = [length |-> 0, fresh |-> TRUE, fetch |-> m]
      \/ orderCache' = [length |-> orderCache.length, fresh |-> orderCache.fresh,
                        fetch |-> m]
  BY <1>1, <1>2, CacheChanges
<1>4. \A n \in 0..MaxBook, f \in BOOLEAN :
          [length |-> n, fresh |-> f, fetch |-> m] \in CacheRecords
  BY DEF CacheRecords
<1>5. orderCache' \in CacheRecords
  BY <1>1, <1>3, <1>4
<1> QED
  BY <1>5, CacheFacts

LEMMA BrokenKeeps == ASSUME OrdersInv, AnyBroken PROVE OrdersInv'
<1>1. OrdersTypeOK
  BY DEF OrdersInv
<1>2. CASE StoreBroken
  <2>1. /\ FetchBreaks(NoFetch) /\ blurred' = TRUE
        /\ UNCHANGED <<orderPage, form, submits, loads, feedback, told, shownOrders,
                       book, untold>>
    BY <1>2 DEF StoreBroken
  <2>2. orderCache' \in CacheRecords
    BY <1>1, <2>1, FetchBroken
  <2>3. loads' \in [Loads -> {NoneInFlight} \cup OrderLists]
    BY <1>1, <2>1 DEF OrdersTypeOK
  <2> QED
    BY <2>1, <2>2, <2>3, BlurredKeeps
<1>3. ASSUME NEW l \in Loads, ServeBroken(l) PROVE OrdersInv'
  <2> DEFINE new == [status |-> "ok", length |-> orderCache'.length]
  <2>1. /\ l \in Loading /\ FetchBreaks(orderCache.fetch) /\ blurred' = TRUE
        /\ loads' = [loads EXCEPT ![l] = new]
        /\ UNCHANGED <<orderPage, form, submits, feedback, told, shownOrders, book, untold>>
    BY <1>3 DEF ServeBroken, Asked, Loading
  <2>2. orderCache' \in CacheRecords /\ orderCache'.length \in 0..MaxBook
    BY <1>1, <2>1, CacheTyped, FetchBroken
  <2>3. new \in OrderLists
    BY <2>2, NewList
  <2> HIDE DEF new
  <2>4. loads' \in [Loads -> {NoneInFlight} \cup OrderLists]
    BY <1>1, <2>1, <2>3, ListMoves
  <2> QED
    BY <2>1, <2>2, <2>4, BlurredKeeps
<1> QED
  BY <1>2, <1>3 DEF AnyBroken

LEMMA ListFailsKeeps == ASSUME OrdersInv, NEW l \in Loads, OrdersFail(l) PROVE OrdersInv'
<1> DEFINE old == loads[l]
           new == [old EXCEPT !.status = "error"]
<1>1. /\ l \in Loading /\ blurred' = TRUE
      /\ loads' = [loads EXCEPT ![l] = new]
      /\ UNCHANGED <<orderPage, form, submits, feedback, told, shownOrders, book,
                     orderCache, untold>>
  BY DEF OrdersFail, Asked, Loading, OrdersInv, OrdersTypeOK
<1>2. OrdersTypeOK /\ old \in OrderLists
  BY <1>1 DEF OrdersInv, OrdersTypeOK, Loading
<1>3. new \in OrderLists
  BY <1>2, ListAnsweredWith
<1> HIDE DEF new
<1>4. loads' \in [Loads -> {NoneInFlight} \cup OrderLists]
  BY <1>1, <1>2, <1>3, ListMoves
<1>5. OrdersTypeOK'
  BY <1>1, <1>2, <1>4 DEF OrdersTypeOK
<1> QED
  BY <1>1, <1>5, SubmissionsAlone DEF OrdersInv, ListsKeepUp

LEMMA ShowKeeps == ASSUME OrdersInv, NEW l \in Loads, ShowOrders(l) PROVE OrdersInv'
<1>1. /\ l \in Loading /\ ~Asked(l)
      /\ loads' = [loads EXCEPT ![l] = NoneInFlight]
      /\ shownOrders' \in IF loads[l].status = "ok" THEN {loads[l].length}
                          ELSE IF orderPage = "live" THEN {shownOrders}
                          ELSE {shownOrders, 0}
      /\ UNCHANGED <<orderPage, form, submits, feedback, told, book, orderCache,
                     untold, blurred>>
  BY DEF ShowOrders
<1>2. OrdersTypeOK
  BY DEF OrdersInv
<1>3. /\ loads' \in [Loads -> {NoneInFlight} \cup OrderLists]
      /\ Loading' = Loading \ {l}
      /\ \A m \in Loads \ {l} : loads'[m] = loads[m]
      /\ loads[l] \in OrderLists
  BY <1>1, <1>2, ListMoves
<1>4. loads[l].length \in 0..MaxBook /\ loads[l].status \in {"ok", "error"}
  BY <1>1, <1>3, ListFacts DEF Asked, Loading
<1>5. shownOrders' \in 0..MaxBook
  BY <1>1, <1>2, <1>4, OrdersAssumption DEF OrdersTypeOK
<1>6. OrdersTypeOK'
  BY <1>1, <1>2, <1>3, <1>5 DEF OrdersTypeOK
<1>7. Promised' = Promised /\ (Awaiting' <=> Awaiting) /\ OneTicket'
      /\ Lists(book', Len(book'), Promised')
  BY <1>1, SubmissionsAlone
<1>8. ASSUME ~blurred, feedback = "placed" PROVE Lists(book, shownOrders', told)
  <2>1. loads[l].status = "ok"
    BY <1>1, <1>4, <1>8 DEF OrdersInv, ListsKeepUp
  <2>2. shownOrders' = loads[l].length
    BY <1>1, <2>1
  <2> QED
    BY <1>1, <1>8, <2>1, <2>2 DEF OrdersInv, ListsKeepUp
<1>9. \A m \in Loading' : m \in Loading /\ loads'[m] = loads[m]
  BY <1>3 DEF Loading
<1>10. ListsKeepUp'
  BY <1>1, <1>7, <1>8, <1>9 DEF OrdersInv, ListsKeepUp
<1> QED
  BY <1>6, <1>7, <1>10 DEF OrdersInv

-----------------------------------------------------------------------------
\* A page that was just opened promises nothing and loads one list.
LeftBehind(t) == {s \in Submits : Status(s) = "ok" /\ submits[s].ticket = t}

LEMMA AnswersLeftBehind ==
    ASSUME NEW t
    PROVE  /\ Cardinality(LeftBehind(t)) \in Nat
           /\ LeftBehind(t) # {} => Cardinality(LeftBehind(t)) >= 1
<1>1. IsFiniteSet(LeftBehind(t))
  BY OrdersAssumption, FS_Subset DEF LeftBehind
<1>2. /\ Cardinality(LeftBehind(t)) \in Nat
      /\ Cardinality(LeftBehind(t)) = 0 <=> LeftBehind(t) = {}
  BY <1>1, FS_CardinalityType, FS_EmptySet
<1> QED
  BY <1>2

LEMMA ReopenKeeps == ASSUME OrdersInv, ReopenPage PROVE OrdersInv'
<1>1. /\ form' = Blank /\ feedback' = "none" /\ shownOrders' = 0 /\ loads' = OneLoad
      /\ blurred' = FALSE
      /\ untold' = [t \in Tickets |-> untold[t] + Cardinality(LeftBehind(t))]
      /\ UNCHANGED <<orderPage, told, book, orderCache>>
  BY DEF ReopenPage, Opened, LeftBehind
<1>2. OrdersTypeOK
  BY DEF OrdersInv
<1>3. ASSUME NEW s \in Submits
      PROVE  /\ submits'[s] \in {NoneInFlight} \cup Submissions
             /\ Status(s)' \in {"idle", "orphan"}
  <2>1. submits'[s] = CASE Status(s) = "sent" -> [submits[s] EXCEPT !.status = "orphan"]
                        [] Status(s) \in {"ok", "error"} -> NoneInFlight
                        [] OTHER -> submits[s]
    BY DEF ReopenPage
  <2>2. CASE Status(s) = "sent"
    <3> DEFINE new == [submits[s] EXCEPT !.status = "orphan"]
    <3>1. submits[s] \in Submissions
      BY <1>2, <2>2, SubmissionOf
    <3>2. "orphan" \in {"sent", "ok", "error", "orphan"}
      OBVIOUS
    <3>3. new \in Submissions /\ new.status = "orphan" /\ new # NoneInFlight
      BY <3>1, <3>2, SubmissionAnswered, SubmissionFacts
    <3>4. submits'[s] = new
      BY <2>1, <2>2
    <3> QED
      BY <3>3, <3>4 DEF Status
  <2>3. CASE Status(s) \in {"ok", "error"}
    BY <2>1, <2>3 DEF Status
  <2>4. CASE Status(s) \notin {"sent", "ok", "error"}
    <3>1. submits'[s] = submits[s]
      BY <2>1, <2>4
    <3>2. Status(s)' = Status(s)
      BY <3>1 DEF Status
    <3>3. Status(s) = "idle" \/ Status(s) \in {"sent", "ok", "error", "orphan"}
      BY <1>2, SubmissionOf
    <3> QED
      BY <1>2, <2>4, <3>1, <3>2, <3>3 DEF OrdersTypeOK
  <2> QED
    BY <2>2, <2>3, <2>4
<1>4. submits' \in [Submits -> {NoneInFlight} \cup Submissions]
  <2>1. submits' = [s \in Submits |-> submits'[s]]
    BY DEF ReopenPage
  <2> QED
    BY <1>3, <2>1
<1>5. \A t \in Tickets :
          /\ untold[t] \in Nat /\ untold'[t] \in Nat
          /\ untold'[t] >= untold[t]
          /\ LeftBehind(t) # {} => untold'[t] >= untold[t] + 1
  <2> SUFFICES ASSUME NEW t \in Tickets
               PROVE  /\ untold[t] \in Nat /\ untold'[t] \in Nat
                      /\ untold'[t] >= untold[t]
                      /\ LeftBehind(t) # {} => untold'[t] >= untold[t] + 1
    OBVIOUS
  <2>1. untold[t] \in Nat
    BY <1>2 DEF OrdersTypeOK
  <2>2. untold'[t] = untold[t] + Cardinality(LeftBehind(t))
    BY <1>1
  <2> QED
    BY <2>1, <2>2, AnswersLeftBehind
<1>b. untold' \in [Tickets -> Nat]
  BY <1>1, <1>5
<1> DEFINE first == CHOOSE l \in Loads : TRUE
<1>6. /\ loads' \in [Loads -> {NoneInFlight} \cup OrderLists]
      /\ \A l \in Loading' : l = first /\ loads'[l] = SentLoad
  BY <1>1, SentLoadFacts DEF OneLoad, Loading
<1> HIDE DEF first
<1>a. 0 \in 0..MaxBook
  BY OrdersAssumption
<1>7. OrdersTypeOK'
  BY <1>1, <1>2, <1>4, <1>b, <1>6, <1>a DEF OrdersTypeOK
<1>8. Submitting' = {}
  BY <1>3 DEF Submitting
<1>9. ~Awaiting' /\ feedback' # "placed"
  BY <1>1, <1>3 DEF Awaiting
<1>10. Promised' = told
  BY <1>1, <1>3 DEF Promised
<1>11. Lists(book', Len(book'), Promised')
  BY <1>1, <1>10 DEF OrdersInv, Lists, Promised
<1>12. \A t : OrdersOf(t)' = OrdersOf(t)
  BY <1>1 DEF OrdersOf
<1>13. ASSUME orderPage = "live", NEW t \in Tickets
       PROVE  /\ OrdersOf(t) <= 1 + untold'[t]
              /\ OrdersOf(t) > untold'[t] => t \in told
  <2>1. /\ OrdersOf(t) <= 1 + untold[t]
        /\ OrdersOf(t) > untold[t] => t \in told \/ LeftBehind(t) # {}
    BY <1>13 DEF OrdersInv, OneTicket, LeftBehind
  <2>2. OrdersOf(t) \in Nat
    BY <1>2, OrdersCounted
  <2> QED
    BY <1>5, <2>1, <2>2
<1>14. OneTicket'
  BY <1>1, <1>3, <1>8, <1>12, <1>13 DEF OneTicket
<1>15. ListsKeepUp'
  BY <1>6, <1>9, SentLoadFacts DEF ListsKeepUp
<1> QED
  BY <1>7, <1>11, <1>14, <1>15 DEF OrdersInv

\* The page sends a ticket nobody was told of.  LiveExecution sends one at a time, so
\* an order for it is one whose answer was lost.
LEMMA PlaceKeeps == ASSUME OrdersInv, NEW s \in Submits, PlaceOrder(s) PROVE OrdersInv'
<1> DEFINE new == [ticket |-> form, status |-> "sent"]
<1>1. /\ MaySubmit /\ form \notin told /\ Status(s) = "idle"
      /\ submits' = [submits EXCEPT ![s] = new]
      /\ feedback' = "none"
      /\ UNCHANGED <<orderPage, form, loads, told, shownOrders, book, orderCache,
                     untold, blurred>>
  BY DEF PlaceOrder
<1>2. OrdersTypeOK
  BY DEF OrdersInv
<1>3. form \in Tickets
  BY <1>1, <1>2 DEF MaySubmit, OrdersTypeOK
<1>4. new \in Submissions /\ new.ticket = form /\ new.status = "sent" /\ new # NoneInFlight
  BY <1>3, NewSubmission, SubmissionFacts
<1> HIDE DEF new
<1>5. /\ submits' \in [Submits -> {NoneInFlight} \cup Submissions]
      /\ submits'[s] = new /\ Status(s)' = "sent"
      /\ \A u \in Submits \ {s} : submits'[u] = submits[u] /\ Status(u)' = Status(u)
  BY <1>1, <1>2, <1>4, Resubmitted
<1>6. OrdersTypeOK'
  BY <1>1, <1>2, <1>5 DEF OrdersTypeOK
<1>7. \A u \in Submits : Status(u)' = "ok" <=> Status(u) = "ok"
  BY <1>1, <1>5
<1>8. \A u \in Submits : Status(u)' = "ok" => submits'[u].ticket = submits[u].ticket
  BY <1>1, <1>5
<1>9. Promised' = Promised
  BY <1>1, <1>7, <1>8 DEF Promised
<1>10. Awaiting' => Awaiting
  BY <1>1, <1>7 DEF Awaiting
<1>11. \A t : OrdersOf(t)' = OrdersOf(t)
  BY <1>1 DEF OrdersOf
<1>12. Submitting' = Submitting \cup {s}
  BY <1>1, <1>5 DEF Submitting
<1>13. ASSUME orderPage = "live" PROVE Submitting = {}
  BY <1>1, <1>13 DEF MaySubmit
<1>14. ASSUME orderPage = "live" PROVE OrdersOf(form) <= untold[form]
  <2>1. ~\E u \in Submits : Status(u) = "ok"
    BY <1>13, <1>14 DEF Submitting
  <2>2. ~(OrdersOf(form) > untold[form])
    BY <1>1, <1>3, <1>14, <2>1 DEF OrdersInv, OneTicket
  <2>3. OrdersOf(form) \in Nat /\ untold[form] \in Nat
    BY <1>2, <1>3, OrdersCounted DEF OrdersTypeOK
  <2> QED
    BY <2>2, <2>3
<1>15. \A u \in Submits : orderPage = "live" /\ Status(u)' = "sent" => u = s
  BY <1>5, <1>13 DEF Submitting
<1>16. OneTicket'
  <2>1. SUFFICES ASSUME orderPage = "live"
                 PROVE  /\ \A v, u \in Submitting' : v = u
                        /\ \A t \in Tickets :
                              /\ OrdersOf(t) <= 1 + untold[t]
                              /\ OrdersOf(t) > untold[t] =>
                                    t \in told \/ \E u \in Submits :
                                        Status(u)' = "ok" /\ submits'[u].ticket = t
                        /\ \A u \in Submits, t \in Tickets :
                              Status(u)' = "sent" /\ submits'[u].ticket = t
                                => OrdersOf(t) <= untold[t]
    BY <1>1, <1>11 DEF OneTicket
  <2>2. \A v, u \in Submitting' : v = u
    BY <1>12, <1>13, <2>1
  <2>3. \A u \in Submits, t \in Tickets :
              Status(u)' = "sent" /\ submits'[u].ticket = t => OrdersOf(t) <= untold[t]
    BY <1>4, <1>5, <1>14, <1>15, <2>1
  <2>4. \A t \in Tickets :
              /\ OrdersOf(t) <= 1 + untold[t]
              /\ OrdersOf(t) > untold[t] =>
                    t \in told \/ \E u \in Submits : Status(u) = "ok" /\ submits[u].ticket = t
    BY <2>1 DEF OrdersInv, OneTicket
  <2> QED
    BY <1>7, <1>8, <2>2, <2>3, <2>4
<1>17. Loading' = Loading
  BY <1>1 DEF Loading
<1>18. ListsKeepUp'
  BY <1>1, <1>9, <1>10, <1>17 DEF OrdersInv, ListsKeepUp
<1> QED
  BY <1>1, <1>6, <1>9, <1>16, <1>18 DEF OrdersInv

\* A submission ends without an order: it fails, or its failure is shown.
LEMMA EndKeeps ==
    ASSUME OrdersInv, NEW s \in Submits,
           submits' \in [Submits -> {NoneInFlight} \cup Submissions],
           \A u \in Submits \ {s} : submits'[u] = submits[u] /\ Status(u)' = Status(u),
           Status(s) # "ok", Status(s)' \in {"idle", "error"},
           Status(s)' = "error" => Status(s) = "sent",
           feedback' \in {feedback, "failed"},
           UNCHANGED <<orderPage, form, loads, told, shownOrders, book, orderCache, untold,
                       blurred>>
    PROVE  OrdersInv'
<1>1. OrdersTypeOK'
  BY DEF OrdersInv, OrdersTypeOK
<1>2. \A u \in Submits : /\ Status(u)' = "ok" <=> Status(u) = "ok"
                         /\ Status(u)' \in {"ok", "sent"} => submits'[u] = submits[u]
                         /\ Status(u)' = "sent" => Status(u) = "sent"
  OBVIOUS
<1>3. Promised' = Promised
  BY <1>2 DEF Promised
<1>4. Awaiting' => Awaiting
  BY <1>2 DEF Awaiting
<1>5. feedback' = "placed" => feedback = "placed"
  OBVIOUS
<1>6. Submitting' \subseteq Submitting
  BY DEF Submitting
<1>7. \A t : OrdersOf(t)' = OrdersOf(t)
  BY DEF OrdersOf
<1>8. OneTicket'
  BY <1>2, <1>6, <1>7 DEF OrdersInv, OneTicket
<1>9. Loading' = Loading
  BY DEF Loading
<1>10. ListsKeepUp'
  BY <1>3, <1>4, <1>5, <1>9 DEF OrdersInv, ListsKeepUp
<1> QED
  BY <1>1, <1>3, <1>8, <1>10 DEF OrdersInv

LEMMA RefuseKeeps == ASSUME OrdersInv, NEW s \in Submits, RouteRefuses(s) PROVE OrdersInv'
<1>1. /\ Served(s) /\ AnsweredAs(s, "error") /\ feedback' = feedback
      /\ UNCHANGED <<orderPage, form, loads, told, shownOrders, book, orderCache, untold,
                     blurred>>
  BY DEF RouteRefuses
<1>2. OrdersTypeOK
  BY DEF OrdersInv
<1>3. Status(s) \in {"sent", "orphan"}
  BY <1>1 DEF Served
<1>4. /\ submits' \in [Submits -> {NoneInFlight} \cup Submissions]
      /\ Status(s)' = IF Status(s) = "orphan" THEN "idle" ELSE "error"
      /\ \A u \in Submits \ {s} : submits'[u] = submits[u] /\ Status(u)' = Status(u)
  BY <1>1, <1>2, Answered
<1> QED
  BY <1>1, <1>3, <1>4, EndKeeps

LEMMA FailKeeps == ASSUME OrdersInv, NEW s \in Submits, SubmitFails(s) PROVE OrdersInv'
<1>1. /\ Status(s) = "error" /\ feedback' = "failed"
      /\ submits' = [submits EXCEPT ![s] = NoneInFlight]
      /\ UNCHANGED <<orderPage, form, loads, told, shownOrders, book, orderCache, untold,
                     blurred>>
  BY DEF SubmitFails
<1>2. OrdersTypeOK
  BY DEF OrdersInv
<1>3. /\ submits' \in [Submits -> {NoneInFlight} \cup Submissions]
      /\ Status(s)' = "idle"
      /\ \A u \in Submits \ {s} : submits'[u] = submits[u] /\ Status(u)' = Status(u)
  BY <1>1, <1>2, Resubmitted
<1> QED
  BY <1>1, <1>3, EndKeeps

\* The broker takes an order: its ticket is one the page will be told of, or one whose
\* answer is lost.
LEMMA AcceptKeepsTickets ==
    ASSUME OrdersInv, NEW s \in Submits, Accepted(s),
           NEW t0 \in Tickets, t0 = submits[s].ticket,
           NEW status \in {"ok", "error"}, AnsweredAs(s, status),
           untold' = IF Status(s) = "orphan" \/ status = "error"
                     THEN Unheard(t0) ELSE untold,
           UNCHANGED <<orderPage, told>>
    PROVE  /\ OneTicket'
           /\ Lists(book', Len(book'), Promised')
<1>1. OrdersTypeOK /\ Served(s) /\ book' = Append(book, t0) /\ Len(book) < MaxBook
  BY DEF OrdersInv, Accepted
<1>2. Status(s) \in {"sent", "orphan"}
  BY <1>1 DEF Served
<1>3. /\ Status(s)' = IF Status(s) = "orphan" THEN "idle" ELSE status
      /\ Status(s) = "sent" => submits'[s].ticket = t0
      /\ \A u \in Submits \ {s} : submits'[u] = submits[u] /\ Status(u)' = Status(u)
  BY <1>1, Answered
<1>4. /\ OrdersOf(t0)' = OrdersOf(t0) + 1
      /\ \A u : u # t0 => OrdersOf(u)' = OrdersOf(u)
  BY <1>1, <1>2, OrdersGrow
<1>5. Submitting' \subseteq Submitting
  BY <1>2, <1>3 DEF Submitting
<1>a. \A t \in Tickets :
          /\ untold[t] \in Nat /\ OrdersOf(t) \in Nat
          /\ untold'[t] = IF t = t0 /\ (Status(s) = "orphan" \/ status = "error")
                          THEN untold[t] + 1 ELSE untold[t]
  <2>1. untold \in [Tickets -> Nat]
    BY <1>1 DEF OrdersTypeOK
  <2> QED
    BY <1>1, <2>1, OrdersCounted DEF Unheard
<1>6. ASSUME orderPage = "live", NEW t \in Tickets
      PROVE  /\ OrdersOf(t)' <= 1 + untold'[t]
             /\ OrdersOf(t)' > untold'[t] =>
                   t \in told \/ \E u \in Submits : Status(u)' = "ok" /\ submits'[u].ticket = t
  <2>1. /\ OrdersOf(t) <= 1 + untold[t]
        /\ OrdersOf(t) > untold[t] =>
              t \in told \/ \E u \in Submits : Status(u) = "ok" /\ submits[u].ticket = t
    BY <1>6 DEF OrdersInv, OneTicket
  <2>2. \A u \in Submits : Status(u) = "ok" => u # s
    BY <1>2
  <2>3. untold[t] \in Nat /\ OrdersOf(t) \in Nat
    BY <1>a
  <2>4. CASE t = t0 /\ Status(s) = "sent" /\ status = "ok"
    <3>1. OrdersOf(t) <= untold[t]
      BY <1>6, <2>4 DEF OrdersInv, OneTicket
    <3>2. OrdersOf(t)' = OrdersOf(t) + 1 /\ untold'[t] = untold[t]
      BY <1>4, <1>a, <2>4
    <3>3. Status(s)' = "ok" /\ submits'[s].ticket = t
      BY <1>3, <2>4
    <3> QED
      BY <2>3, <3>1, <3>2, <3>3
  <2>5. CASE t = t0 /\ (Status(s) = "orphan" \/ status = "error")
    <3>1. OrdersOf(t)' = OrdersOf(t) + 1 /\ untold'[t] = untold[t] + 1
      BY <1>4, <1>a, <2>5
    <3>2. OrdersOf(t)' <= 1 + untold'[t] /\ (OrdersOf(t)' > untold'[t] => OrdersOf(t) > untold[t])
      BY <2>1, <2>3, <3>1
    <3> QED
      BY <1>3, <2>1, <2>2, <3>2
  <2>6. CASE t # t0
    <3>1. OrdersOf(t)' = OrdersOf(t) /\ untold'[t] = untold[t]
      BY <1>4, <1>a, <2>6
    <3> QED
      BY <1>3, <2>1, <2>2, <3>1
  <2> QED
    BY <1>2, <2>4, <2>5, <2>6
<1>7. ASSUME orderPage = "live", NEW u \in Submits, NEW t \in Tickets,
             Status(u)' = "sent", submits'[u].ticket = t
      PROVE  OrdersOf(t)' <= untold'[t]
  <2>1. u # s
    BY <1>2, <1>3, <1>7
  <2>2. Status(u) = "sent" /\ submits[u].ticket = t
    BY <1>3, <1>7, <2>1
  <2>3. Status(s) = "orphan"
    BY <1>2, <1>7, <2>1, <2>2 DEF OrdersInv, OneTicket, Submitting
  <2>4. OrdersOf(t) <= untold[t]
    BY <1>7, <2>2 DEF OrdersInv, OneTicket
  <2>5. /\ t = t0 => OrdersOf(t)' = OrdersOf(t) + 1 /\ untold'[t] = untold[t] + 1
        /\ t # t0 => OrdersOf(t)' = OrdersOf(t) /\ untold'[t] = untold[t]
    BY <1>4, <1>a, <2>3
  <2>6. untold[t] \in Nat /\ OrdersOf(t) \in Nat
    BY <1>a
  <2> QED
    BY <2>4, <2>5, <2>6
<1>8. OneTicket'
  <2>1. ASSUME orderPage = "live" PROVE \A v, u \in Submitting' : v = u
    BY <1>5, <2>1 DEF OrdersInv, OneTicket
  <2> QED
    BY <1>6, <1>7, <2>1 DEF OneTicket
<1>9. Lists(book', Len(book'), Promised')
  <2>1. /\ Len(book) \in Nat /\ Len(book') = Len(book) + 1
        /\ DOMAIN book' = 1..(Len(book) + 1) /\ book'[Len(book) + 1] = t0
    BY <1>1, <1>2, BookGrows DEF OrdersTypeOK
  <2>2. Lists(book', Len(book), Promised)
    BY <1>1, <1>2, ListsGrow DEF OrdersInv
  <2>3. Promised' \subseteq Promised \cup {t0}
    BY <1>2, <1>3 DEF Promised
  <2>4. \A n \in Nat : \A i \in 1..n : i \in 1..(n + 1)
    OBVIOUS
  <2>5. \A n \in Nat : n + 1 \in 1..(n + 1)
    OBVIOUS
  <2> QED
    BY <2>1, <2>2, <2>3, <2>4, <2>5 DEF Lists
<1> QED
  BY <1>8, <1>9

LEMMA AcceptKeepsLists ==
    ASSUME OrdersInv, NEW t \in Tickets, book' = Append(book, t), Len(book) < MaxBook,
           UNCHANGED <<loads, feedback, told, shownOrders>>,
           ~blurred' => ~blurred /\ orderCache.fetch = NoFetch,
           orderCache'.fetch = orderCache.fetch,
           orderCache'.fresh => /\ orderCache.fresh /\ orderCache'.length = orderCache.length
                                /\ Promised' \subseteq Promised /\ (Awaiting' => Awaiting)
    PROVE  ListsKeepUp'
<1>1. Loading' = Loading
  BY DEF Loading
<1>2. \A n, T : Lists(book, n, T) => Lists(book', n, T)
  BY ListsGrow DEF OrdersInv
<1>3. \A b, n, T, U : Lists(b, n, T) /\ U \subseteq T => Lists(b, n, U)
  BY DEF Lists
<1>4. ASSUME ~blurred', Awaiting', orderCache'.fresh
      PROVE  Lists(book', orderCache'.length, Promised')
  <2>1. Lists(book, orderCache.length, Promised)
    BY <1>4 DEF OrdersInv, ListsKeepUp
  <2> QED
    BY <1>2, <1>3, <1>4, <2>1
<1> QED
  BY <1>1, <1>2, <1>4 DEF OrdersInv, ListsKeepUp

LEMMA AcceptKeeps ==
    ASSUME OrdersInv, NEW s \in Submits, RouteAccepts(s) PROVE OrdersInv'
<1>1. /\ Accepted(s) /\ AnsweredAs(s, "ok")
      /\ orderCache' = [orderCache EXCEPT !.fresh = FALSE]
      /\ untold' = IF Status(s) = "orphan" \/ "ok" = "error"
                   THEN Unheard(submits[s].ticket) ELSE untold
      /\ UNCHANGED <<orderPage, form, loads, feedback, told, shownOrders>>
  BY DEF RouteAccepts
<1>2. /\ OrdersTypeOK /\ Served(s) /\ Len(book) < MaxBook
      /\ book' = Append(book, submits[s].ticket)
      /\ blurred' = (blurred \/ orderCache.fetch # NoFetch)
  BY <1>1 DEF OrdersInv, Accepted
<1>3. PICK t \in Tickets : t = submits[s].ticket
  BY <1>2, SubmissionOf DEF Served
<1>4. OneTicket' /\ Lists(book', Len(book'), Promised')
  BY <1>1, <1>3, AcceptKeepsTickets
<1>5. orderCache \in CacheRecords /\ orderCache.length \in 0..MaxBook
      /\ orderCache.fetch \in (0..MaxBook) \cup {NoFetch}
  BY <1>2, CacheTyped
<1>6. orderCache' = [length |-> orderCache.length, fresh |-> FALSE, fetch |-> orderCache.fetch]
  BY <1>1, <1>5, CacheChanges
<1>7. /\ orderCache' \in [length : 0..MaxBook, fresh : BOOLEAN,
                          fetch : (0..MaxBook) \cup {NoFetch}]
      /\ orderCache'.fetch = orderCache.fetch /\ orderCache'.fresh = FALSE
  BY <1>5, <1>6
<1>8. blurred' \in BOOLEAN /\ (~blurred' => ~blurred /\ orderCache.fetch = NoFetch)
  BY <1>2, Zenon
<1>9. book' \in Seq(Tickets) /\ Len(book') <= MaxBook
  BY <1>2, <1>3, BookGrows
<1>10. submits' \in [Submits -> {NoneInFlight} \cup Submissions]
  BY <1>1, <1>2, Answered
<1>11. untold' \in [Tickets -> Nat]
  BY <1>1, <1>2, <1>3 DEF OrdersTypeOK, Unheard
<1>12. OrdersTypeOK'
  BY <1>1, <1>2, <1>7, <1>8, <1>9, <1>10, <1>11 DEF OrdersTypeOK
<1>13. ListsKeepUp'
  BY <1>1, <1>2, <1>3, <1>7, <1>8, AcceptKeepsLists
<1> QED
  BY <1>4, <1>12, <1>13 DEF OrdersInv

LEMMA LossKeeps ==
    ASSUME OrdersInv, NEW s \in Submits, NEW dropped \in BOOLEAN, AnswerIsLost(s, dropped)
    PROVE  OrdersInv'
<1>1. /\ Accepted(s) /\ AnsweredAs(s, "error")
      /\ orderCache' = [orderCache EXCEPT !.fresh = orderCache.fresh /\ ~dropped]
      /\ untold' = IF Status(s) = "orphan" \/ "error" = "error"
                   THEN Unheard(submits[s].ticket) ELSE untold
      /\ UNCHANGED <<orderPage, form, loads, feedback, told, shownOrders>>
  BY CacheTyped DEF AnswerIsLost, OrdersInv, CacheRecords
<1>2. /\ OrdersTypeOK /\ Served(s) /\ Len(book) < MaxBook
      /\ book' = Append(book, submits[s].ticket)
      /\ blurred' = (blurred \/ orderCache.fetch # NoFetch)
  BY <1>1 DEF OrdersInv, Accepted
<1>3. PICK t \in Tickets : t = submits[s].ticket
  BY <1>2, SubmissionOf DEF Served
<1>4. OneTicket' /\ Lists(book', Len(book'), Promised')
  BY <1>1, <1>3, AcceptKeepsTickets
<1>5. /\ orderCache \in CacheRecords /\ orderCache.length \in 0..MaxBook
      /\ orderCache.fetch \in (0..MaxBook) \cup {NoFetch} /\ orderCache.fresh \in BOOLEAN
  BY <1>2, CacheTyped
<1> DEFINE f == orderCache.fresh /\ ~dropped
<1>6. f \in BOOLEAN /\ (f => orderCache.fresh)
  BY Zenon
<1> HIDE DEF f
<1>7. orderCache' = [length |-> orderCache.length, fresh |-> f, fetch |-> orderCache.fetch]
  BY <1>1, <1>5, CacheChanges DEF f
<1>8. /\ orderCache' \in [length : 0..MaxBook, fresh : BOOLEAN,
                          fetch : (0..MaxBook) \cup {NoFetch}]
      /\ orderCache'.fetch = orderCache.fetch /\ orderCache'.fresh = f
      /\ orderCache'.length = orderCache.length
  BY <1>5, <1>6, <1>7
<1>9. blurred' \in BOOLEAN /\ (~blurred' => ~blurred /\ orderCache.fetch = NoFetch)
  BY <1>2, Zenon
<1>10. book' \in Seq(Tickets) /\ Len(book') <= MaxBook
  BY <1>2, <1>3, BookGrows
<1>11. /\ submits' \in [Submits -> {NoneInFlight} \cup Submissions]
       /\ Status(s)' = IF Status(s) = "orphan" THEN "idle" ELSE "error"
       /\ \A u \in Submits \ {s} : submits'[u] = submits[u] /\ Status(u)' = Status(u)
  BY <1>1, <1>2, Answered
<1>12. untold' \in [Tickets -> Nat]
  BY <1>1, <1>2, <1>3 DEF OrdersTypeOK, Unheard
<1>13. OrdersTypeOK'
  BY <1>1, <1>2, <1>8, <1>9, <1>10, <1>11, <1>12 DEF OrdersTypeOK
<1>14. \A u \in Submits : Status(u)' = "ok" => Status(u) = "ok" /\ submits'[u] = submits[u]
  BY <1>11
<1>15. Promised' \subseteq Promised /\ (Awaiting' => Awaiting)
  BY <1>1, <1>14 DEF Promised, Awaiting
<1>16. ListsKeepUp'
  BY <1>1, <1>2, <1>3, <1>6, <1>8, <1>9, <1>15, AcceptKeepsLists
<1> QED
  BY <1>4, <1>13, <1>16 DEF OrdersInv

\* The operator is told, and the list is asked for.
LEMMA PlacedKeeps ==
    ASSUME OrdersInv, NEW s \in Submits, SubmitSucceeds(s) PROVE OrdersInv'
<1>1. /\ Status(s) = "ok" /\ submits' = [submits EXCEPT ![s] = NoneInFlight]
      /\ feedback' = "placed" /\ told' = told \cup {submits[s].ticket}
      /\ form' = IF orderPage = "broker" THEN Blank ELSE form
      /\ AskForList
      /\ UNCHANGED <<orderPage, shownOrders, book, orderCache, untold>>
  BY DEF SubmitSucceeds
<1>2. OrdersTypeOK /\ submits[s].ticket \in Tickets
  BY <1>1, SubmissionOf DEF OrdersInv
<1>3. /\ submits' \in [Submits -> {NoneInFlight} \cup Submissions]
      /\ Status(s)' = "idle"
      /\ \A u \in Submits \ {s} : submits'[u] = submits[u] /\ Status(u)' = Status(u)
  BY <1>1, <1>2, Resubmitted
<1>4. loads' \in [Loads -> {NoneInFlight} \cup OrderLists] /\ blurred' \in BOOLEAN
  BY <1>1, <1>2, ListAskedFor
<1>5. OrdersTypeOK'
  BY <1>1, <1>2, <1>3, <1>4 DEF OrdersTypeOK
<1>6. \A u \in Submits : Status(u)' \in {"ok", "sent"} =>
          Status(u)' = Status(u) /\ submits'[u] = submits[u]
  BY <1>3
<1>7. Promised' \subseteq Promised
  BY <1>1, <1>6 DEF Promised
<1>8. Awaiting
  BY <1>1 DEF Awaiting
<1>9. Submitting' \subseteq Submitting
  BY <1>3 DEF Submitting
<1>10. \A t : OrdersOf(t)' = OrdersOf(t)
  BY <1>1 DEF OrdersOf
<1>11. ASSUME orderPage = "live", NEW t \in Tickets
       PROVE  /\ OrdersOf(t) <= 1 + untold[t]
              /\ OrdersOf(t) > untold[t] =>
                    t \in told' \/ \E u \in Submits : Status(u)' = "ok" /\ submits'[u].ticket = t
  <2>1. /\ OrdersOf(t) <= 1 + untold[t]
        /\ OrdersOf(t) > untold[t] =>
              t \in told \/ \E u \in Submits : Status(u) = "ok" /\ submits[u].ticket = t
    BY <1>11 DEF OrdersInv, OneTicket
  <2> QED
    BY <1>1, <1>3, <2>1
<1>12. OneTicket'
  BY <1>1, <1>6, <1>9, <1>10, <1>11 DEF OrdersInv, OneTicket
<1>13. \A b, n, T, U : Lists(b, n, T) /\ U \subseteq T => Lists(b, n, U)
  BY DEF Lists
<1>14. Lists(book', Len(book'), Promised')
  BY <1>1, <1>7, <1>13 DEF OrdersInv
<1>16. ListsKeepUp'
  BY <1>1, <1>7, <1>8, AskKeepsLists
<1> QED
  BY <1>5, <1>12, <1>14, <1>16 DEF OrdersInv

-----------------------------------------------------------------------------
LEMMA OrdersInit_Inv == OrdersInit => OrdersInv
<1> SUFFICES ASSUME OrdersInit PROVE OrdersInv
  OBVIOUS
<1>1. /\ orderPage \in {"broker", "live"} /\ form = Blank
      /\ submits = [s \in Submits |-> NoneInFlight] /\ loads = OneLoad
      /\ feedback = "none" /\ told = {} /\ shownOrders = 0 /\ book = <<>>
      /\ orderCache = [length |-> 0, fresh |-> FALSE, fetch |-> NoFetch]
      /\ untold = [t \in Tickets |-> 0] /\ blurred = FALSE
  BY DEF OrdersInit
<1>2. 0 \in 0..MaxBook /\ 0 <= MaxBook
  BY OrdersAssumption
<1> DEFINE first == CHOOSE l \in Loads : TRUE
<1>3. /\ loads \in [Loads -> {NoneInFlight} \cup OrderLists]
      /\ \A l \in Loading : l = first /\ loads[l] = SentLoad
  BY <1>1, SentLoadFacts DEF OneLoad, Loading
<1> HIDE DEF first
<1>4. \A s \in Submits : Status(s) = "idle"
  BY <1>1 DEF Status
<1>5. orderCache \in [length : 0..MaxBook, fresh : BOOLEAN, fetch : (0..MaxBook) \cup {NoFetch}]
  BY <1>1, <1>2
<1>6. OrdersTypeOK
  <2>1. submits \in [Submits -> {NoneInFlight} \cup Submissions]
    BY <1>1
  <2>2. book \in Seq(Tickets) /\ Len(book) = 0
    BY <1>1
  <2> QED
    BY <1>1, <1>2, <1>3, <1>5, <2>1, <2>2 DEF OrdersTypeOK
<1>a. \A t \in Tickets : untold[t] = 0
  BY <1>1
<1>7. Submitting = {} /\ Promised = {} /\ ~Awaiting
  BY <1>1, <1>4 DEF Submitting, Promised, Awaiting
<1>8. ASSUME NEW t \in Tickets PROVE OrdersOf(t) = 0
  <2>1. {i \in DOMAIN book : book[i] = t} = {}
    BY <1>1
  <2> QED
    BY <2>1, FS_EmptySet DEF OrdersOf
<1>9. OneTicket
  BY <1>4, <1>7, <1>8, <1>a DEF OneTicket
<1>10. Lists(book, Len(book), Promised)
  BY <1>7 DEF Lists
<1>11. ListsKeepUp
  BY <1>1, <1>3, <1>7, SentLoadFacts DEF ListsKeepUp
<1> QED
  BY <1>6, <1>9, <1>10, <1>11 DEF OrdersInv

LEMMA OrdersNextKeeps == OrdersInv /\ [OrdersNext]_ordersVars => OrdersInv'
<1> SUFFICES ASSUME OrdersInv, [OrdersNext]_ordersVars PROVE OrdersInv'
  OBVIOUS
<1>1. CASE UNCHANGED ordersVars
  <2>1. UNCHANGED <<orderPage, form, submits, loads, feedback, told, shownOrders, book,
                    orderCache, untold, blurred>>
    BY <1>1 DEF ordersVars
  <2>2. OrdersTypeOK'
    BY <2>1 DEF OrdersInv, OrdersTypeOK
  <2>3. Loading' = Loading
    BY <2>1 DEF Loading
  <2> QED
    BY <2>1, <2>2, <2>3, SubmissionsAlone DEF OrdersInv, ListsKeepUp
<1>2. CASE OrdersNext
  BY <1>2, ReopenKeeps, FillKeeps, PlaceKeeps, AcceptKeeps, LossKeeps, RefuseKeeps,
     PlacedKeeps, FailKeeps, PollKeeps, CacheKeeps, ServeKeeps, BrokenKeeps, ListFailsKeeps,
     ShowKeeps DEF OrdersNext, AnyBroken
<1> QED
  BY <1>1, <1>2

THEOREM OrdersInvariance == OrdersSpec => []OrdersInv
  BY OrdersInit_Inv, OrdersNextKeeps, PTL DEF OrdersSpec

\* However often LiveExecution's button is pressed and whatever is lost, a ticket has one
\* order, and one more for each answer that was lost or left behind
\* (LiveExecution.jsx:102-139).
THEOREM TicketsPlacedOnce == OrdersSpec => []OneOrderPerTicket
<1>1. OrdersInv => OneOrderPerTicket
  BY DEF OrdersInv, OneTicket, OneOrderPerTicket
<1> QED
  BY <1>1, OrdersInvariance, PTL

\* The list a page shows after "Order placed" counts the order, and the table has it if
\* it has that many rows: the route drops the cached list before it answers
\* (dashboard.py:173).
THEOREM PlacedAreListed == OrdersSpec => []PlacedIsListed
<1>1. ASSUME OrdersInv PROVE PlacedIsListed
  <2>1. Cut \in Nat
    BY OrdersAssumption DEF Cut
  <2>2. \A i \in 1..shownOrders : i \in Listed \/ i > Cut
    BY <1>1, <2>1 DEF Listed, OrdersInv, OrdersTypeOK
  <2> QED
    BY <1>1, <2>2 DEF OrdersInv, ListsKeepUp, PlacedIsListed, Lists
<1> QED
  BY <1>1, OrdersInvariance, PTL
==============================================================================
