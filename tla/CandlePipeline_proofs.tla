------------------------ MODULE CandlePipeline_proofs ------------------------
(***************************************************************************)
(* Proofs about CandlePipeline, for every value of its constants.          *)
(***************************************************************************)
EXTENDS CandlePipeline, SequenceTheorems, TLAPS

(* The store and the queue as functions of the ticks processed so far, so  *)
(* that the lemmas speak of a sequence p before and after it grows.        *)

\* TicksOf over a given history.
TicksIn(p, s, m) ==
    {i \in DOMAIN p : /\ p[i].symbol = s /\ p[i].minute = m
                      /\ \A j \in 1..i : p[j].symbol = s => p[j].minute <= m}

\* Summarises over a given history.
SummaryOf(c, s, p) ==
    LET T == TicksIn(p, s, c.minute) IN
    /\ T # {}
    /\ \E i \in T : c.open = p[i].price /\ \A j \in T : i <= j
    /\ \E i \in T : c.close = p[i].price /\ \A j \in T : j <= i
    /\ \E i \in T : c.high = p[i].price /\ \A j \in T : p[j].price <= c.high
    /\ \E i \in T : c.low = p[i].price /\ \A j \in T : c.low <= p[j].price

GoodHistory(q, s, p) ==
    /\ Increasing(q)
    /\ \A i \in DOMAIN q : SummaryOf(q[i], s, p) /\ q[i].closed = (i # Len(q))

\* No tick of the symbol is later than the symbol's newest candle.
Covers(q, s, p) ==
    \A i \in DOMAIN p : p[i].symbol = s => q # <<>> /\ p[i].minute <= LastOf(q).minute

LEMMA TickFacts ==
    \A t \in Tick : t.symbol \in Symbols /\ t.minute \in Nat /\ t.price \in Nat
<1> SUFFICES ASSUME NEW t, t \in Tick
             PROVE  t.symbol \in Symbols /\ t.minute \in Nat /\ t.price \in Nat
  OBVIOUS
<1>1. t.symbol \in Symbols /\ t.minute \in 0..LastMinute /\ t.price \in TickPrices
  BY DEF Tick
<1>2. t.minute \in Nat
  BY <1>1, CandleAssumption
<1>3. t.price \in Nat
  BY <1>1, CandleAssumption
<1> QED
  BY <1>1, <1>2, <1>3

LEMMA CandleFacts ==
    \A c \in Candle : /\ c.minute \in Nat /\ c.open \in Nat /\ c.high \in Nat
                     /\ c.low \in Nat /\ c.close \in Nat /\ c.closed \in BOOLEAN
  BY CandleAssumption DEF Candle

\* A tick at the end of the history joins the ticks of its minute unless a
\* tick of a later minute came before it.
LEMMA TicksInAppend ==
    ASSUME NEW p \in Seq(Tick), NEW t \in Tick, NEW s, NEW m
    PROVE  TicksIn(Append(p, t), s, m) =
              IF /\ t.symbol = s /\ t.minute = m
                 /\ \A j \in DOMAIN p : p[j].symbol = s => p[j].minute <= m
              THEN TicksIn(p, s, m) \cup {Len(p) + 1}
              ELSE TicksIn(p, s, m)
<1> DEFINE r == Append(p, t)
           n == Len(p)
<1>1. /\ n \in Nat /\ DOMAIN p = 1..n /\ DOMAIN r = 1..(n + 1)
      /\ \A i \in 1..n : r[i] = p[i]
      /\ r[n + 1] = t
      /\ t.minute \in Int
  BY TickFacts, AppendProperties, LenProperties
<1> HIDE DEF r, n
<1>2. \A i \in 1..n : i \in TicksIn(r, s, m) <=> i \in TicksIn(p, s, m)
  BY <1>1 DEF TicksIn
<1>3. n + 1 \in TicksIn(r, s, m) <=> /\ t.symbol = s /\ t.minute = m
                                     /\ \A j \in 1..n : p[j].symbol = s => p[j].minute <= m
  BY <1>1 DEF TicksIn
<1>4. TicksIn(r, s, m) \subseteq 1..(n + 1) /\ TicksIn(p, s, m) \subseteq 1..n
  BY <1>1 DEF TicksIn
<1> DEFINE joins == /\ t.symbol = s /\ t.minute = m
                    /\ \A j \in DOMAIN p : p[j].symbol = s => p[j].minute <= m
<1>5. joins => TicksIn(r, s, m) = TicksIn(p, s, m) \cup {n + 1}
  BY <1>1, <1>2, <1>3, <1>4
<1>6. ~joins => TicksIn(r, s, m) = TicksIn(p, s, m)
  <2> SUFFICES ASSUME ~joins PROVE \A i \in 1..(n + 1) : i \in TicksIn(r, s, m) <=> i \in TicksIn(p, s, m)
    BY <1>4, <1>1
  <2>1. \A i \in 1..(n + 1) : i \in 1..n \/ i = n + 1
    BY <1>1
  <2>2. n + 1 \notin 1..n
    BY <1>1
  <2>3. n + 1 \notin TicksIn(r, s, m) /\ n + 1 \notin TicksIn(p, s, m)
    BY <1>1, <1>3, <1>4, <2>2
  <2> QED
    BY <1>2, <2>1, <2>3
<1> HIDE DEF joins
<1>7. TicksIn(r, s, m) = IF joins THEN TicksIn(p, s, m) \cup {n + 1} ELSE TicksIn(p, s, m)
  BY <1>5, <1>6
<1> QED
  BY <1>7, Zenon DEF r, n, joins

LEMMA TicksInFacts ==
    ASSUME NEW p \in Seq(Tick), NEW s, NEW m
    PROVE  \A i \in TicksIn(p, s, m) : i \in 1..Len(p) /\ p[i] \in Tick /\ p[i].price \in Nat
<1> TAKE i \in TicksIn(p, s, m)
<1>1. i \in 1..Len(p)
  BY LenProperties DEF TicksIn
<1>2. p[i] \in Tick
  BY <1>1, ElementOfSeq
<1> QED
  BY <1>1, <1>2, TickFacts

\* A candle is not touched by a tick of another symbol or minute, nor by one
\* that comes after a tick of a later minute.
LEMMA SummaryKept ==
    ASSUME NEW p \in Seq(Tick), NEW t \in Tick, NEW c, NEW s,
           \/ t.symbol # s \/ t.minute # c.minute
           \/ \E j \in DOMAIN p : p[j].symbol = s /\ ~(p[j].minute <= c.minute),
           SummaryOf(c, s, p)
    PROVE  SummaryOf(c, s, Append(p, t))
<1>1. TicksIn(Append(p, t), s, c.minute) = TicksIn(p, s, c.minute)
  BY TicksInAppend
<1>2. \A i \in TicksIn(p, s, c.minute) : Append(p, t)[i] = p[i]
  BY TicksInFacts, AppendProperties
<1> QED
  BY <1>1, <1>2 DEF SummaryOf

\* A tick of the newest candle's minute updates it to what the ticks say.
LEMMA SummaryUpdated ==
    ASSUME NEW p \in Seq(Tick), NEW t \in Tick, NEW c \in Candle, NEW s,
           t.symbol = s, t.minute = c.minute,
           \A j \in DOMAIN p : p[j].symbol = s => p[j].minute <= c.minute,
           SummaryOf(c, s, p)
    PROVE  SummaryOf(UpdatedCandle(c, t), s, Append(p, t))
<1> DEFINE r == Append(p, t)
           n == Len(p) + 1
           T == TicksIn(p, s, c.minute)
           d == UpdatedCandle(c, t)
<1>1. TicksIn(r, s, c.minute) = T \cup {n}
  BY TicksInAppend
<1>2. /\ n \in Nat /\ r[n] = t /\ t.price \in Nat
      /\ \A i \in T : i \in Nat /\ i < n /\ r[i] = p[i] /\ p[i].price \in Nat
  <2>1. n \in Nat /\ r[n] = t
    BY AppendProperties, LenProperties
  <2>2. t.price \in Nat
    BY TickFacts
  <2>3. \A i \in T : i \in 1..Len(p) /\ p[i].price \in Nat
    BY TicksInFacts
  <2>4. \A i \in 1..Len(p) : r[i] = p[i]
    BY AppendProperties
  <2> QED
    BY <2>1, <2>2, <2>3, <2>4, LenProperties
<1>3. /\ d.minute = c.minute /\ d.open = c.open /\ d.close = t.price
      /\ d.high = IF t.price > c.high THEN t.price ELSE c.high
      /\ d.low = IF t.price < c.low THEN t.price ELSE c.low
      /\ c.high \in Nat /\ c.low \in Nat
  BY DEF UpdatedCandle, Candle
<1> HIDE DEF r, n, d
<1>4. /\ T # {}
      /\ \E i \in T : c.open = p[i].price /\ \A j \in T : i <= j
      /\ \E i \in T : c.high = p[i].price /\ \A j \in T : p[j].price <= c.high
      /\ \E i \in T : c.low = p[i].price /\ \A j \in T : c.low <= p[j].price
  BY DEF SummaryOf
<1> DEFINE U == T \cup {n}
<1> HIDE DEF T
<1>5. \E i \in U : d.open = r[i].price /\ \A j \in U : i <= j
  BY <1>2, <1>3, <1>4
<1>6. \E i \in U : d.close = r[i].price /\ \A j \in U : j <= i
  <2>1. n \in U /\ d.close = r[n].price /\ \A j \in U : j <= n
    BY <1>2, <1>3
  <2> QED
    BY <2>1
<1>7. \E i \in U : d.high = r[i].price /\ \A j \in U : r[j].price <= d.high
  <2>1. CASE t.price > c.high
    <3>1. n \in U /\ d.high = r[n].price /\ \A j \in U : r[j].price <= d.high
      BY <1>2, <1>3, <1>4, <2>1
    <3> QED
      BY <3>1
  <2>2. CASE ~(t.price > c.high)
    BY <1>2, <1>3, <1>4, <2>2
  <2> QED
    BY <2>1, <2>2
<1>8. \E i \in U : d.low = r[i].price /\ \A j \in U : d.low <= r[j].price
  <2>1. CASE t.price < c.low
    <3>1. n \in U /\ d.low = r[n].price /\ \A j \in U : d.low <= r[j].price
      BY <1>2, <1>3, <1>4, <2>1
    <3> QED
      BY <3>1
  <2>2. CASE ~(t.price < c.low)
    BY <1>2, <1>3, <1>4, <2>2
  <2> QED
    BY <2>1, <2>2
<1>9. TicksIn(r, s, d.minute) = U /\ U # {}
  BY <1>1, <1>3
<1> QED
  BY <1>5, <1>6, <1>7, <1>8, <1>9 DEF SummaryOf, r, d

\* The first tick of a new minute opens a candle that summarises it.
LEMMA SummaryFresh ==
    ASSUME NEW p \in Seq(Tick), NEW t \in Tick,
           \A j \in DOMAIN p : p[j].symbol = t.symbol => p[j].minute < t.minute
    PROVE  SummaryOf(FreshCandle(t), t.symbol, Append(p, t))
<1> DEFINE r == Append(p, t)
           n == Len(p) + 1
           d == FreshCandle(t)
<1>1. /\ t.minute \in Int /\ t.price \in Nat
      /\ n \in Nat /\ r[n] = t
      /\ \A j \in DOMAIN p : p[j].minute \in Int
  <2>1. \A j \in DOMAIN p : p[j] \in Tick
    BY LenProperties, ElementOfSeq
  <2>2. n \in Nat /\ r[n] = t
    BY AppendProperties, LenProperties
  <2> QED
    BY <2>1, <2>2, TickFacts
<1>2. TicksIn(p, t.symbol, t.minute) = {}
  BY <1>1 DEF TicksIn
<1>3. TicksIn(r, t.symbol, t.minute) = {n}
  BY <1>1, <1>2, TicksInAppend
<1>4. /\ d.minute = t.minute /\ d.open = t.price /\ d.close = t.price
      /\ d.high = t.price /\ d.low = t.price
  BY DEF FreshCandle
<1> HIDE DEF r, n, d
<1> QED
  <2>1. SummaryOf(d, t.symbol, r)
    BY <1>1, <1>3, <1>4 DEF SummaryOf
  <2> QED
    BY <2>1 DEF d, r

-----------------------------------------------------------------------------
(* Histories of one symbol *)

LEMMA NewestFacts ==
    ASSUME NEW S, NEW q \in Seq(S), NEW n \in Nat \ {0}
    PROVE  /\ Newest(n, q) \in Seq(S)
           /\ Len(Newest(n, q)) = IF Len(q) > n THEN n ELSE Len(q)
           /\ \A i \in 1..Len(Newest(n, q)) :
                 Newest(n, q)[i] = q[i + (Len(q) - Len(Newest(n, q)))]
<1> DEFINE k == IF Len(q) > n THEN Len(q) - n + 1 ELSE 1
           r == SubSeq(q, k, Len(q))
<1>1. Len(q) \in Nat /\ k \in 1..(Len(q) + 1)
  BY LenProperties
<1>2. \A i \in k..Len(q) : q[i] \in S
  BY <1>1, ElementOfSeq
<1> HIDE DEF k
<1>3. /\ r \in Seq(S)
      /\ Len(r) = IF k <= Len(q) THEN Len(q) - k + 1 ELSE 0
      /\ \A i \in 1..(Len(q) - k + 1) : r[i] = q[k + i - 1]
  BY <1>1, <1>2, SubSeqProperties
<1> HIDE DEF r
<1>4. Len(r) = Len(q) - k + 1 /\ Len(r) = IF Len(q) > n THEN n ELSE Len(q)
  <2>1. Len(r) = Len(q) - k + 1
    BY <1>1, <1>3
  <2>2. Len(q) > n => k = Len(q) - n + 1
    BY DEF k
  <2>3. ~(Len(q) > n) => k = 1
    BY DEF k
  <2> QED
    BY <1>1, <2>1, <2>2, <2>3
<1>5. \A i \in 1..Len(r) : r[i] = q[i + (Len(q) - Len(r))]
  <2> TAKE i \in 1..Len(r)
  <2>1. k + i - 1 = i + (Len(q) - Len(r))
    BY <1>1, <1>4
  <2> QED
    BY <1>3, <1>4, <2>1
<1>6. Newest(n, q) = r
  BY DEF Newest, r, k
<1> QED
  BY <1>3, <1>4, <1>5, <1>6

LEMMA NewestLast ==
    ASSUME NEW S, NEW q \in Seq(S), NEW n \in Nat \ {0}, q # <<>>
    PROVE  Newest(n, q) # <<>> /\ LastOf(Newest(n, q)) = LastOf(q)
<1>1. Len(q) \in Nat \ {0}
  BY EmptySeq
<1>2. Len(Newest(n, q)) \in 1..Len(q)
  BY <1>1, NewestFacts
<1>3. Newest(n, q)[Len(Newest(n, q))] = q[Len(q)]
  <2> DEFINE m == Len(Newest(n, q))
  <2>1. \A i \in 1..m : Newest(n, q)[i] = q[i + (Len(q) - m)]
    BY NewestFacts
  <2> HIDE DEF m
  <2>2. m \in 1..m /\ m + (Len(q) - m) = Len(q)
    BY <1>1, <1>2 DEF m
  <2> QED
    BY <2>1, <2>2 DEF m
<1> QED
  BY <1>2, <1>3, EmptySeq DEF LastOf

LEMMA NewestGood ==
    ASSUME NEW q \in Seq(Candle), NEW n \in Nat \ {0}, NEW s, NEW p, GoodHistory(q, s, p)
    PROVE  GoodHistory(Newest(n, q), s, p)
<1> DEFINE r == Newest(n, q)
           d == Len(q) - Len(r)
<1>1. /\ Len(q) \in Nat /\ Len(r) \in Nat /\ d \in Nat
      /\ DOMAIN q = 1..Len(q) /\ DOMAIN r = 1..Len(r)
      /\ \A i \in 1..Len(r) : r[i] = q[i + d]
  <2>1. r \in Seq(Candle) /\ Len(q) \in Nat /\ DOMAIN q = 1..Len(q)
    BY NewestFacts, LenProperties
  <2>2. Len(r) = IF Len(q) > n THEN n ELSE Len(q)
    BY NewestFacts
  <2>3. \A i \in 1..Len(r) : r[i] = q[i + d]
    BY NewestFacts
  <2>4. DOMAIN r = 1..Len(r) /\ Len(r) \in Nat /\ Len(r) <= Len(q)
    BY <2>1, <2>2, LenProperties
  <2> QED
    BY <2>1, <2>3, <2>4
<1> HIDE DEF r
<1>2. \A i \in 1..Len(r) : i + d \in 1..Len(q) /\ (i + d = Len(q) <=> i = Len(r))
  <2> SUFFICES ASSUME NEW m \in Nat, NEW k \in Nat, m - k \in Nat, NEW i \in 1..k
               PROVE  i + (m - k) \in 1..m /\ (i + (m - k) = m <=> i = k)
    BY <1>1
  <2> QED
    OBVIOUS
<1> HIDE DEF d
<1>3. Increasing(r)
  <2> SUFFICES ASSUME NEW i \in 1..Len(r), NEW j \in 1..Len(r), i < j
               PROVE  r[i].minute < r[j].minute
    BY <1>1 DEF Increasing
  <2>1. i + d < j + d
    BY <1>1
  <2> QED
    BY <1>1, <1>2, <2>1 DEF GoodHistory, Increasing
<1>4. \A i \in 1..Len(r) : SummaryOf(r[i], s, p) /\ r[i].closed = (i # Len(r))
  <2> TAKE i \in 1..Len(r)
  <2>1. SummaryOf(q[i + d], s, p) /\ q[i + d].closed = (i + d # Len(q))
    BY <1>1, <1>2 DEF GoodHistory
  <2>2. r[i] = q[i + d]
    BY <1>1
  <2>3. (i + d # Len(q)) = (i # Len(r))
    BY <1>2
  <2> QED
    BY <2>1, <2>2, <2>3, Zenon
<1>5. GoodHistory(r, s, p)
  BY <1>1, <1>3, <1>4, Zenon DEF GoodHistory
<1> QED
  BY <1>5 DEF r

\* The newest candle is closed and nothing else of the history changes.
LEMMA ClosedFacts ==
    ASSUME NEW q \in Seq(Candle), q # <<>>
    PROVE  /\ Closed(q) \in Seq(Candle) /\ Len(Closed(q)) = Len(q)
           /\ \A i \in 1..Len(q) :
                 /\ i # Len(q) => Closed(q)[i] = q[i]
                 /\ i = Len(q) => Closed(q)[i] = [q[i] EXCEPT !.closed = TRUE]
<1> DEFINE n == Len(q)
           e == [q[n] EXCEPT !.closed = TRUE]
<1>1. n \in 1..n
  BY EmptySeq
<1>2. e \in Candle
  <2>1. q[n] \in Candle
    BY <1>1, ElementOfSeq
  <2> QED
    BY <2>1 DEF Candle
<1>3. Closed(q) = [q EXCEPT ![n] = e]
  BY DEF Closed
<1> HIDE DEF n, e
<1>4. /\ [q EXCEPT ![n] = e] \in Seq(Candle) /\ Len([q EXCEPT ![n] = e]) = Len(q)
      /\ \A j \in 1..Len(q) : [q EXCEPT ![n] = e][j] = IF j = n THEN e ELSE q[j]
  BY <1>1, <1>2, ExceptSeq DEF n
<1> QED
  BY <1>3, <1>4 DEF n, e

\* Closing a candle leaves its prices alone.
LEMMA ClosedSummary ==
    ASSUME NEW c \in Candle, NEW s, NEW p
    PROVE  /\ [c EXCEPT !.closed = TRUE] \in Candle
           /\ [c EXCEPT !.closed = TRUE].minute = c.minute
           /\ [c EXCEPT !.closed = TRUE].closed
           /\ SummaryOf(c, s, p) => SummaryOf([c EXCEPT !.closed = TRUE], s, p)
<1> DEFINE d == [c EXCEPT !.closed = TRUE]
<1>1. /\ d \in Candle /\ d.closed
      /\ d.minute = c.minute /\ d.open = c.open /\ d.high = c.high
      /\ d.low = c.low /\ d.close = c.close
  BY DEF Candle
<1> HIDE DEF d
<1>2. SummaryOf(c, s, p) => SummaryOf(d, s, p)
  BY <1>1 DEF SummaryOf
<1> QED
  BY <1>1, <1>2, Zenon DEF d

\* A tick of a new minute closes the newest candle and opens the next.
LEMMA HistoryOpens ==
    ASSUME NEW p \in Seq(Tick), NEW t \in Tick, NEW q \in Seq(Candle), q # <<>>,
           LastOf(q).minute < t.minute,
           Covers(q, t.symbol, p), GoodHistory(q, t.symbol, p)
    PROVE  GoodHistory(Append(Closed(q), FreshCandle(t)), t.symbol, Append(p, t))
<1> DEFINE s == t.symbol
           n == Len(q)
           r == Append(Closed(q), FreshCandle(t))
<1>1. n \in Nat \ {0} /\ DOMAIN q = 1..n /\ LastOf(q) = q[n] /\ t.minute \in Nat
      /\ \A i \in 1..n : q[i] \in Candle /\ q[i].minute \in Nat
  BY EmptySeq, LenProperties, ElementOfSeq, TickFacts, CandleFacts DEF LastOf
<1>2. FreshCandle(t) \in Candle /\ FreshCandle(t).minute = t.minute /\ ~FreshCandle(t).closed
  <2>1. t.minute \in 0..LastMinute /\ t.price \in Nat
    BY TickFacts DEF Tick
  <2> QED
    BY <2>1 DEF FreshCandle, Candle
<1>3. /\ r \in Seq(Candle) /\ Len(r) = n + 1 /\ DOMAIN r = 1..(n + 1)
      /\ \A i \in 1..n : r[i] = Closed(q)[i]
      /\ r[n + 1] = FreshCandle(t)
  <2>1. Closed(q) \in Seq(Candle) /\ Len(Closed(q)) = n
    BY ClosedFacts
  <2>2. /\ r \in Seq(Candle) /\ Len(r) = n + 1 /\ r[n + 1] = FreshCandle(t)
        /\ \A i \in 1..n : r[i] = Closed(q)[i]
    BY <1>2, <2>1, AppendProperties
  <2> QED
    BY <2>2, LenProperties
<1>4. \A i \in 1..n : \/ i # n /\ r[i] = q[i]
                      \/ i = n /\ r[i] = [q[i] EXCEPT !.closed = TRUE]
  BY <1>3, ClosedFacts
<1>5. \A i \in 1..n : r[i].minute = q[i].minute
  BY <1>1, <1>4, ClosedSummary
<1>6. \A i \in 1..n : SummaryOf(r[i], s, p)
  <2> TAKE i \in 1..n
  <2>1. SummaryOf(q[i], s, p) /\ q[i] \in Candle
    BY <1>1 DEF GoodHistory
  <2>2. SummaryOf([q[i] EXCEPT !.closed = TRUE], s, p)
    BY <2>1, ClosedSummary
  <2>3. r[i] = q[i] \/ r[i] = [q[i] EXCEPT !.closed = TRUE]
    BY <1>4
  <2> QED
    BY <2>1, <2>2, <2>3, Zenon
<1>7. \A i \in 1..n : r[i].closed = TRUE
  <2> TAKE i \in 1..n
  <2>1. CASE i = n
    <3>1. r[i] = [q[i] EXCEPT !.closed = TRUE] /\ q[i] \in Candle
      BY <1>1, <1>4, <2>1
    <3> QED
      BY <3>1 DEF Candle
  <2>2. CASE i # n
    <3>1. q[i].closed = (i # n)
      BY <1>1 DEF GoodHistory
    <3>2. r[i].closed = q[i].closed
      BY <1>4, <2>2
    <3>3. (i # n) = TRUE
      BY <2>2
    <3> QED
      BY <3>1, <3>2, <3>3, Zenon
  <2> QED
    BY <2>1, <2>2
<1>8. r[n + 1].closed = FALSE
  BY <1>3 DEF FreshCandle
<1>9. \A i \in 1..n : q[i].minute < t.minute
  BY <1>1 DEF GoodHistory, Increasing
<1>10. \A i \in 1..n : SummaryOf(r[i], s, Append(p, t))
  <2> TAKE i \in 1..n
  <2>1. q[i].minute \in Nat /\ t.minute \in Nat /\ q[i].minute < t.minute
    BY <1>1, <1>9
  <2>2. \A a, b \in Nat : a < b => b # a
    OBVIOUS
  <2>3. t.minute # q[i].minute
    BY <2>1, <2>2, Zenon
  <2>4. t.minute # r[i].minute
    BY <1>5, <2>3, Zenon
  <2> QED
    BY <1>6, <2>4, SummaryKept
<1>11. SummaryOf(r[n + 1], s, Append(p, t))
  <2>1. \A j \in DOMAIN p : p[j].symbol = s => p[j].minute < t.minute
    <3> SUFFICES ASSUME NEW j \in DOMAIN p, p[j].symbol = s PROVE p[j].minute < t.minute
      OBVIOUS
    <3>1. p[j].minute \in Nat
      BY LenProperties, ElementOfSeq, TickFacts
    <3>2. p[j].minute <= LastOf(q).minute
      BY DEF Covers
    <3> QED
      BY <1>1, <3>1, <3>2
  <2> QED
    BY <1>3, <2>1, SummaryFresh
<1>12. n \in Nat /\ \A i \in 1..(n + 1) : i \in 1..n \/ i = n + 1
  BY <1>1
<1>13. n + 1 \notin 1..n
  BY <1>12
<1>14. Increasing(r)
  <2> SUFFICES ASSUME NEW i \in 1..(n + 1), NEW j \in 1..(n + 1), i < j
               PROVE  r[i].minute < r[j].minute
    BY <1>3 DEF Increasing
  <2>1. i \in 1..n
    BY <1>12
  <2>2. CASE j = n + 1
    BY <1>2, <1>3, <1>5, <1>9, <2>1, <2>2
  <2>3. CASE j \in 1..n
    <3>1. q[i].minute < q[j].minute
      BY <1>1, <2>1, <2>3 DEF GoodHistory, Increasing
    <3> QED
      BY <1>5, <2>1, <2>3, <3>1
  <2> QED
    BY <1>12, <2>2, <2>3
<1>15. \A i \in 1..(n + 1) : SummaryOf(r[i], s, Append(p, t))
  BY <1>10, <1>11, <1>12
<1>16. \A i \in 1..(n + 1) : r[i].closed = (i # n + 1)
  <2> TAKE i \in 1..(n + 1)
  <2>1. CASE i = n + 1
    <3>1. (i # n + 1) = FALSE
      BY <2>1
    <3> QED
      BY <1>8, <2>1, <3>1
  <2>2. CASE i \in 1..n
    <3>1. (i # n + 1) = TRUE
      BY <1>13, <2>2
    <3> QED
      BY <1>7, <2>2, <3>1
  <2> QED
    BY <1>12, <2>1, <2>2
<1> HIDE DEF n, r, s
<1>17. GoodHistory(r, s, Append(p, t))
  BY <1>3, <1>14, <1>15, <1>16 DEF GoodHistory
<1> QED
  BY <1>17 DEF r, s

\* The first tick of a symbol starts its history.
LEMMA HistoryStarts ==
    ASSUME NEW p \in Seq(Tick), NEW t \in Tick, Covers(<<>>, t.symbol, p)
    PROVE  GoodHistory(Append(<<>>, FreshCandle(t)), t.symbol, Append(p, t))
<1> DEFINE s == t.symbol
           d == FreshCandle(t)
           r == Append(<<>>, d)
<1>1. SummaryOf(d, s, Append(p, t))
  BY SummaryFresh DEF Covers
<1>2. d.closed = FALSE
  BY DEF FreshCandle
<1>3. Len(r) = 1 /\ DOMAIN r = {1} /\ r[1] = d
  OBVIOUS
<1> HIDE DEF r, d, s
<1>4. Increasing(r)
  BY <1>3 DEF Increasing
<1>5. (1 # Len(r)) = FALSE
  BY <1>3
<1>6. \A i \in DOMAIN r : SummaryOf(r[i], s, Append(p, t)) /\ r[i].closed = (i # Len(r))
  BY <1>1, <1>2, <1>3, <1>5
<1>7. GoodHistory(r, s, Append(p, t))
  BY <1>4, <1>6 DEF GoodHistory
<1> QED
  BY <1>7 DEF r, s, d

\* The newest candle of a history has a tick.
LEMMA NewestHasTick ==
    ASSUME NEW p \in Seq(Tick), NEW q \in Seq(Candle), q # <<>>, NEW s,
           GoodHistory(q, s, p)
    PROVE  \E j \in DOMAIN p : p[j].symbol = s /\ p[j].minute = LastOf(q).minute
<1>1. Len(q) \in DOMAIN q
  BY EmptySeq, LenProperties
<1>2. SummaryOf(LastOf(q), s, p)
  BY <1>1 DEF GoodHistory, LastOf
<1>3. PICK j \in TicksIn(p, s, LastOf(q).minute) : TRUE
  BY <1>2 DEF SummaryOf
<1> QED
  BY <1>3 DEF TicksIn

\* All but the newest candle of a history are out of reach of any tick.
LEMMA OlderKept ==
    ASSUME NEW p \in Seq(Tick), NEW t \in Tick, NEW q \in Seq(Candle), q # <<>>, NEW s,
           GoodHistory(q, s, p),
           NEW c, c.minute \in Nat, c.minute < LastOf(q).minute, SummaryOf(c, s, p)
    PROVE  SummaryOf(c, s, Append(p, t))
<1>1. PICK j \in DOMAIN p : p[j].symbol = s /\ p[j].minute = LastOf(q).minute
  BY NewestHasTick
<1>2. p[j].minute \in Nat
  BY LenProperties, ElementOfSeq, TickFacts
<1>3. ~(p[j].minute <= c.minute)
  BY <1>1, <1>2
<1> QED
  BY <1>1, <1>3, SummaryKept

\* A tick of another symbol, or of a minute that is over, changes no candle.
LEMMA HistoryKept ==
    ASSUME NEW p \in Seq(Tick), NEW t \in Tick, NEW q \in Seq(Candle), NEW s,
           t.symbol = s => q # <<>> /\ t.minute < LastOf(q).minute,
           GoodHistory(q, s, p)
    PROVE  GoodHistory(q, s, Append(p, t))
<1>1. Increasing(q) /\ \A i \in DOMAIN q : q[i].closed = (i # Len(q))
  BY DEF GoodHistory
<1>2. \A i \in DOMAIN q : SummaryOf(q[i], s, Append(p, t))
  <2> TAKE i \in DOMAIN q
  <2>1. /\ Len(q) \in Nat /\ DOMAIN q = 1..Len(q) /\ i \in 1..Len(q) /\ Len(q) \in 1..Len(q)
        /\ q # <<>>
    BY LenProperties, EmptySeq
  <2>2. q[i].minute \in Nat /\ LastOf(q).minute \in Nat /\ t.minute \in Nat
    BY <2>1, ElementOfSeq, CandleFacts, TickFacts DEF LastOf
  <2>3. SummaryOf(q[i], s, p)
    BY DEF GoodHistory
  <2>4. CASE t.symbol # s
    BY <2>3, <2>4, SummaryKept
  <2>5. CASE t.symbol = s /\ i = Len(q)
    <3>1. t.minute < q[i].minute
      BY <2>5 DEF LastOf
    <3>2. t.minute # q[i].minute
      BY <2>2, <3>1
    <3> QED
      BY <2>3, <3>2, SummaryKept
  <2>6. CASE i # Len(q)
    <3>1. q[i].minute < LastOf(q).minute
      BY <1>1, <2>1, <2>6 DEF Increasing, LastOf
    <3> QED
      BY <2>1, <2>2, <2>3, <3>1, OlderKept
  <2> QED
    BY <2>4, <2>5, <2>6
<1> QED
  BY <1>1, <1>2 DEF GoodHistory

\* A tick of the newest candle's minute updates that candle only.
LEMMA HistoryUpdates ==
    ASSUME NEW p \in Seq(Tick), NEW t \in Tick, NEW q \in Seq(Candle), q # <<>>,
           LastOf(q).minute = t.minute,
           Covers(q, t.symbol, p), GoodHistory(q, t.symbol, p)
    PROVE  LET r == [q EXCEPT ![Len(q)] = UpdatedCandle(@, t)] IN
           /\ r \in Seq(Candle) /\ Len(r) = Len(q) /\ LastOf(r).minute = t.minute
           /\ GoodHistory(r, t.symbol, Append(p, t))
<1> DEFINE s == t.symbol
           n == Len(q)
           d == UpdatedCandle(q[n], t)
           r == [q EXCEPT ![n] = d]
<1>1. n \in Nat \ {0} /\ DOMAIN q = 1..n /\ LastOf(q) = q[n] /\ n \in 1..n
  BY EmptySeq, LenProperties DEF LastOf
<1>2. q[n] \in Candle
  BY <1>1, ElementOfSeq
<1>3. d \in Candle /\ d.minute = q[n].minute /\ d.closed = q[n].closed
  <2>1. t.price \in Nat
    BY TickFacts
  <2> QED
    BY <1>2, <2>1 DEF UpdatedCandle, Candle
<1>4. SummaryOf(d, s, Append(p, t))
  <2>1. SummaryOf(q[n], s, p)
    BY <1>1 DEF GoodHistory
  <2>2. t.minute = q[n].minute /\ \A j \in DOMAIN p : p[j].symbol = s => p[j].minute <= q[n].minute
    BY <1>1 DEF Covers
  <2> QED
    BY <1>2, <2>1, <2>2, SummaryUpdated
<1> HIDE DEF d
<1>5. /\ r \in Seq(Candle) /\ Len(r) = n /\ DOMAIN r = 1..n
      /\ \A j \in 1..n : r[j] = IF j = n THEN d ELSE q[j]
  BY <1>1, <1>3, ExceptSeq, LenProperties
<1>6. LastOf(r).minute = t.minute
  BY <1>1, <1>3, <1>5 DEF LastOf
<1> HIDE DEF r
<1>7. \A i \in 1..n : r[i].minute = q[i].minute /\ r[i].closed = q[i].closed
  BY <1>3, <1>5
<1>8. Increasing(r)
  BY <1>1, <1>5, <1>7 DEF GoodHistory, Increasing
<1>9. \A i \in 1..n : r[i].closed = (i # n)
  BY <1>1, <1>7 DEF GoodHistory
<1>10. \A i \in 1..n : SummaryOf(r[i], s, Append(p, t))
  <2> TAKE i \in 1..n
  <2>1. CASE i = n
    BY <1>4, <1>5, <2>1
  <2>2. CASE i # n
    <3>1. i < n
      <4>1. n \in Nat /\ i \in 1..n /\ i # n
        BY <1>1, <2>2
      <4> QED
        BY <4>1
    <3>2. q[i].minute < LastOf(q).minute /\ SummaryOf(q[i], s, p)
      BY <1>1, <3>1 DEF GoodHistory, Increasing
    <3>3. q[i].minute \in Nat
      BY <1>1, ElementOfSeq, CandleFacts
    <3>4. r[i] = q[i]
      BY <1>5, <2>2
    <3> QED
      BY <3>2, <3>3, <3>4, OlderKept
  <2> QED
    BY <2>1, <2>2
<1>11. GoodHistory(r, s, Append(p, t))
  BY <1>5, <1>8, <1>9, <1>10 DEF GoodHistory
<1>12. [q EXCEPT ![Len(q)] = UpdatedCandle(@, t)] = r
  BY DEF r, d
<1> QED
  BY <1>5, <1>6, <1>11, <1>12

\* The symbol's newest candle stays the latest its ticks have reached.
LEMMA CoversAppend ==
    ASSUME NEW p \in Seq(Tick), NEW t \in Tick, NEW q, NEW r, NEW s,
           Covers(q, s, p),
           q # <<>> => r # <<>> /\ LastOf(q).minute <= LastOf(r).minute,
           t.symbol = s => r # <<>> /\ t.minute <= LastOf(r).minute,
           q # <<>> => LastOf(q).minute \in Nat, r # <<>> => LastOf(r).minute \in Nat
    PROVE  Covers(r, s, Append(p, t))
<1> SUFFICES ASSUME NEW i \in DOMAIN Append(p, t), Append(p, t)[i].symbol = s
             PROVE  r # <<>> /\ Append(p, t)[i].minute <= LastOf(r).minute
  BY DEF Covers
<1>1. i \in 1..(Len(p) + 1)
  BY AppendProperties, LenProperties
<1>2. CASE i = Len(p) + 1
  <2>1. Append(p, t)[i] = t
    BY <1>2, AppendProperties
  <2> QED
    BY <2>1
<1>3. CASE i \in 1..Len(p)
  <2>1. Append(p, t)[i] = p[i] /\ p[i] \in Tick /\ i \in DOMAIN p
    BY <1>3, AppendProperties, ElementOfSeq, LenProperties
  <2>2. q # <<>> /\ p[i].minute <= LastOf(q).minute /\ p[i].minute \in Nat
    BY <2>1, TickFacts DEF Covers
  <2> QED
    BY <2>1, <2>2
<1> QED
  BY <1>1, <1>2, <1>3, LenProperties

-----------------------------------------------------------------------------
(* Events *)

FinalEvents(es, cs, p) ==
    /\ \A i \in DOMAIN es :
          /\ es[i].candle.closed
          /\ SummaryOf(es[i].candle, es[i].symbol, p)
          /\ es[i].candle.minute < LastOf(cs[es[i].symbol]).minute
    /\ \A i, j \in DOMAIN es :
          i < j /\ es[i].symbol = es[j].symbol => es[i].candle.minute < es[j].candle.minute

LEMMA EventFacts ==
    \A e \in Event : e.symbol \in Symbols /\ e.candle \in Candle /\ e.candle.minute \in Nat
  BY CandleFacts DEF Event

LEMMA TailFacts ==
    ASSUME NEW es \in Seq(Event), es # <<>>
    PROVE  \A i \in DOMAIN Tail(es) : i + 1 \in DOMAIN es /\ Tail(es)[i] = es[i + 1]
<1>1. /\ Len(es) \in Nat /\ DOMAIN es = 1..Len(es)
      /\ Tail(es) \in Seq(Event) /\ Len(Tail(es)) = Len(es) - 1
      /\ \A i \in 1..(Len(es) - 1) : Tail(es)[i] = es[i + 1]
  BY HeadTailProperties, LenProperties
<1>2. DOMAIN Tail(es) = 1..(Len(es) - 1)
  BY <1>1, LenProperties
<1> QED
  BY <1>1, <1>2

LEMMA FinalTail ==
    ASSUME NEW es \in Seq(Event), es # <<>>, NEW cs, NEW p, FinalEvents(es, cs, p)
    PROVE  FinalEvents(Tail(es), cs, p)
<1> DEFINE r == Tail(es)
<1>1. /\ Len(es) \in Nat /\ DOMAIN es = 1..Len(es) /\ r \in Seq(Event) /\ Len(r) = Len(es) - 1
      /\ \A i \in 1..Len(r) : r[i] = es[i + 1]
  BY HeadTailProperties, LenProperties
<1>2. DOMAIN r = 1..Len(r)
  BY <1>1, LenProperties
<1>3. \A i \in DOMAIN r : i + 1 \in DOMAIN es /\ r[i] = es[i + 1]
  BY <1>1, <1>2
<1>4. \A i, j \in DOMAIN r : i < j => i + 1 < j + 1
  BY <1>1, <1>2
<1> HIDE DEF r
<1>5. FinalEvents(r, cs, p)
  BY <1>3, <1>4 DEF FinalEvents
<1> QED
  BY <1>5 DEF r

LEMMA FinalAppend ==
    ASSUME NEW es \in Seq(Event), NEW cs, NEW p, NEW e \in Event,
           FinalEvents(es, cs, p),
           e.candle.closed, SummaryOf(e.candle, e.symbol, p),
           e.candle.minute < LastOf(cs[e.symbol]).minute,
           \A i \in DOMAIN es : es[i].symbol = e.symbol => es[i].candle.minute < e.candle.minute
    PROVE  FinalEvents(Append(es, e), cs, p)
<1> DEFINE r == Append(es, e)
           n == Len(es)
<1>1. /\ n \in Nat /\ DOMAIN es = 1..n /\ DOMAIN r = 1..(n + 1) /\ r[n + 1] = e
      /\ \A i \in 1..n : r[i] = es[i]
  BY AppendProperties, LenProperties
<1>2. \A i \in DOMAIN r : i \in DOMAIN es \/ i = n + 1
  BY <1>1
<1>3. \A i, j \in DOMAIN r : i < j => i \in DOMAIN es
  BY <1>1
<1>4. \A i \in DOMAIN es : r[i] = es[i]
  BY <1>1
<1>5. r[n + 1] = e
  BY <1>1
<1> HIDE DEF r, n
<1>6. FinalEvents(r, cs, p)
  BY <1>2, <1>3, <1>4, <1>5 DEF FinalEvents
<1> QED
  BY <1>6 DEF r

\* The event in the worker's hands comes before those in its queue.
LEMMA PrependFacts ==
    ASSUME NEW e \in Event, NEW q \in Seq(Event)
    PROVE  /\ <<e>> \o q \in Seq(Event) /\ <<e>> \o q # <<>>
           /\ Head(<<e>> \o q) = e
           /\ Tail(<<e>> \o q) = q
<1> DEFINE r == <<e>> \o q
<1>1. <<e>> \in Seq(Event) /\ Len(<<e>>) = 1 /\ <<e>>[1] = e
  OBVIOUS
<1>2. /\ r \in Seq(Event) /\ Len(r) = Len(q) + 1
      /\ \A i \in 1..Len(r) : r[i] = IF i <= 1 THEN e ELSE q[i - 1]
  BY <1>1, ConcatProperties
<1>3. Len(q) \in Nat
  BY LenProperties
<1> HIDE DEF r
<1>4. r # <<>> /\ r[1] = e
  BY <1>2, <1>3, EmptySeq
<1>5. /\ Tail(r) \in Seq(Event) /\ Len(Tail(r)) = Len(q)
      /\ \A i \in 1..Len(q) : Tail(r)[i] = r[i + 1]
  BY <1>2, <1>3, <1>4, HeadTailProperties
<1>6. \A i \in 1..Len(q) : Tail(r)[i] = q[i]
  BY <1>2, <1>3, <1>5
<1>7. Tail(r) = q
  BY <1>5, <1>6, SeqEqual
<1>8. Head(r) = e
  BY <1>2, <1>4
<1> QED
  BY <1>2, <1>4, <1>7, <1>8 DEF r

\* Taking an event from the queue leaves the events as they are.
LEMMA TakeKeepsEvents ==
    ASSUME NEW q \in Seq(Event), q # <<>>
    PROVE  <<Head(q)>> \o Tail(q) = q
<1> DEFINE r == <<Head(q)>> \o Tail(q)
<1>1. /\ Head(q) \in Event /\ Tail(q) \in Seq(Event) /\ Len(Tail(q)) = Len(q) - 1
      /\ \A i \in 1..(Len(q) - 1) : Tail(q)[i] = q[i + 1]
      /\ Len(q) \in Nat \ {0} /\ Head(q) = q[1]
  BY HeadTailProperties, EmptySeq
<1>2. <<Head(q)>> \in Seq(Event) /\ Len(<<Head(q)>>) = 1 /\ <<Head(q)>>[1] = q[1]
  BY <1>1
<1>3. /\ r \in Seq(Event) /\ Len(r) = Len(q)
      /\ \A i \in 1..Len(q) : r[i] = IF i <= 1 THEN q[1] ELSE Tail(q)[i - 1]
  BY <1>1, <1>2, ConcatProperties
<1> HIDE DEF r
<1>4. \A i \in 1..Len(q) : r[i] = q[i]
  <2> TAKE i \in 1..Len(q)
  <2>1. CASE i = 1
    BY <1>3, <2>1
  <2>2. CASE i # 1
    <3>1. i - 1 \in 1..(Len(q) - 1) /\ ~(i <= 1) /\ (i - 1) + 1 = i
      BY <1>1, <2>2
    <3> QED
      BY <1>1, <1>3, <3>1
  <2> QED
    BY <2>1, <2>2
<1>5. r = q
  BY <1>3, <1>4, SeqEqual
<1> QED
  BY <1>5 DEF r

-----------------------------------------------------------------------------
(* What becomes of an event's candle in the store *)

NewerThan(c, q) == \A j \in DOMAIN q : q[j].minute > c.minute

\* The candle is in the history, or fell out of it for MaxHistory newer ones.
Stored(c, q) == \/ \E j \in DOMAIN q : q[j] = c
                \/ Len(q) = MaxHistory /\ NewerThan(c, q)

\* A candle of a history is among its newest n, or these are n newer ones.
LEMMA NewestHolds ==
    ASSUME NEW q \in Seq(Candle), Increasing(q), NEW n \in Nat \ {0}, NEW c \in Candle,
           \E j \in DOMAIN q : q[j] = c
    PROVE  \/ \E j \in DOMAIN Newest(n, q) : Newest(n, q)[j] = c
           \/ Len(Newest(n, q)) = n /\ NewerThan(c, Newest(n, q))
<1> DEFINE r == Newest(n, q)
           d == Len(q) - Len(r)
<1>1. /\ r \in Seq(Candle) /\ Len(r) = IF Len(q) > n THEN n ELSE Len(q)
      /\ \A i \in 1..Len(r) : r[i] = q[i + d]
  BY NewestFacts
<1>2. /\ DOMAIN q = 1..Len(q) /\ DOMAIN r = 1..Len(r) /\ Len(q) \in Nat /\ Len(r) \in Nat
  BY <1>1, LenProperties
<1>3. d \in Nat /\ Len(q) = Len(r) + d /\ (d > 0 => Len(r) = n)
  BY <1>1, <1>2
<1>4. PICK j \in 1..Len(q) : q[j] = c
  BY <1>2
<1> HIDE DEF r, d
<1>5. CASE j > d
  <2>1. j - d \in 1..Len(r) /\ (j - d) + d = j
    <3>1. \A m, k \in Nat : \A a \in 1..(m + k) :
             a > k => a - k \in 1..m /\ (a - k) + k = a
      OBVIOUS
    <3>2. j \in 1..(Len(r) + d)
      BY <1>3
    <3> QED
      BY <1>2, <1>3, <1>5, <3>1, <3>2, Zenon
  <2>2. r[j - d] = c
    BY <1>1, <1>4, <2>1
  <2> QED
    BY <1>2, <2>1, <2>2 DEF r
<1>6. CASE ~(j > d)
  <2>0. j \in Nat /\ j <= d /\ d > 0
    <3>1. \A m, k \in Nat : \A a \in 1..m : ~(a > k) => a \in Nat /\ a <= k /\ k > 0
      OBVIOUS
    <3> QED
      BY <1>2, <1>3, <1>6, <3>1, Zenon
  <2>1. Len(r) = n
    BY <1>3, <2>0
  <2>2. ASSUME NEW i \in 1..Len(r) PROVE r[i].minute > c.minute
    <3>1. i + d \in 1..Len(q) /\ j < i + d
      <4>1. \A m, k, b \in Nat : \A a \in 1..m : a + k \in 1..(m + k) /\ (b <= k => b < a + k)
        OBVIOUS
      <4>2. i + d \in 1..(Len(r) + d) /\ j < i + d
        BY <1>2, <1>3, <2>0, <4>1, Zenon
      <4> QED
        BY <1>3, <4>2
    <3>2. q[j].minute < q[i + d].minute
      BY <1>2, <3>1 DEF Increasing
    <3>3. q[i + d] \in Candle
      BY <3>1, ElementOfSeq
    <3>4. c.minute \in Nat /\ q[i + d].minute \in Nat
      BY <3>3, CandleFacts
    <3>5. r[i] = q[i + d]
      BY <1>1
    <3> QED
      BY <1>4, <3>2, <3>4, <3>5
  <2>3. NewerThan(c, r)
    BY <1>2, <2>2 DEF NewerThan
  <2> QED
    BY <2>1, <2>3 DEF r
<1> QED
  BY <1>2, <1>3, <1>5, <1>6

\* What is newer stays so.
LEMMA NewestNewer ==
    ASSUME NEW q \in Seq(Candle), NEW n \in Nat \ {0}, NEW c, NewerThan(c, q)
    PROVE  NewerThan(c, Newest(n, q))
<1> DEFINE r == Newest(n, q)
           d == Len(q) - Len(r)
<1>1. /\ r \in Seq(Candle) /\ Len(r) = IF Len(q) > n THEN n ELSE Len(q)
      /\ \A i \in 1..Len(r) : r[i] = q[i + d]
  BY NewestFacts
<1>2. /\ DOMAIN q = 1..Len(q) /\ DOMAIN r = 1..Len(r) /\ Len(q) \in Nat /\ Len(r) \in Nat
      /\ d \in Nat
  BY <1>1, LenProperties
<1> HIDE DEF r
<1>3. \A i \in 1..Len(r) : i + d \in 1..Len(q)
  BY <1>2
<1>4. NewerThan(c, r)
  BY <1>1, <1>2, <1>3 DEF NewerThan
<1> QED
  BY <1>4 DEF r

\* A history that opens a candle keeps the candle just closed, and every older
\* one it held, or has MaxHistory newer ones.
LEMMA StoredOpens ==
    ASSUME NEW q \in Seq(Candle), q # <<>>, NEW t \in Tick, LastOf(q).minute < t.minute,
           Increasing(Append(Closed(q), FreshCandle(t))),
           NEW c \in Candle,
           \/ c.minute < LastOf(q).minute /\ Stored(c, q)
           \/ c = [LastOf(q) EXCEPT !.closed = TRUE]
    PROVE  Stored(c, Newest(MaxHistory, Append(Closed(q), FreshCandle(t))))
<1> DEFINE n == Len(q)
           f == Append(Closed(q), FreshCandle(t))
<1>1. n \in Nat \ {0} /\ n \in 1..n /\ DOMAIN q = 1..n /\ LastOf(q) = q[n]
  BY EmptySeq, LenProperties DEF LastOf
<1>2. /\ Closed(q) \in Seq(Candle) /\ Len(Closed(q)) = n
      /\ \A i \in 1..n : /\ i # n => Closed(q)[i] = q[i]
                         /\ i = n => Closed(q)[i] = [q[i] EXCEPT !.closed = TRUE]
  BY ClosedFacts
<1>3. FreshCandle(t) \in Candle /\ FreshCandle(t).minute = t.minute
  <2>1. t.minute \in 0..LastMinute /\ t.price \in Nat
    BY TickFacts DEF Tick
  <2> QED
    BY <2>1 DEF FreshCandle, Candle
<1>4. /\ f \in Seq(Candle) /\ Len(f) = n + 1 /\ f[n + 1] = FreshCandle(t)
      /\ \A i \in 1..n : f[i] = Closed(q)[i]
  BY <1>2, <1>3, AppendProperties
<1>5. DOMAIN f = 1..(n + 1)
  BY <1>4, LenProperties
<1>6. MaxHistory \in Nat \ {0}
  BY CandleAssumption
<1>7. c.minute \in Nat /\ LastOf(q).minute \in Nat /\ t.minute \in Nat
  BY <1>1, ElementOfSeq, CandleFacts, TickFacts
<1> HIDE DEF f
<1>8. CASE c = [LastOf(q) EXCEPT !.closed = TRUE]
  <2>1. f[n] = c /\ n \in DOMAIN f
    BY <1>1, <1>2, <1>4, <1>5, <1>8
  <2> QED
    BY <1>4, <1>6, <2>1, NewestHolds DEF f, Stored
<1>9. CASE c.minute < LastOf(q).minute /\ \E j \in DOMAIN q : q[j] = c
  <2>1. PICK j \in 1..n : q[j] = c
    BY <1>1, <1>9
  <2>2. j # n
    BY <1>1, <1>7, <1>9, <2>1
  <2>3. f[j] = c
    BY <1>2, <1>4, <2>1, <2>2
  <2>4. j \in DOMAIN f
    <3>1. \A m \in Nat : \A k \in 1..m : k \in 1..(m + 1)
      OBVIOUS
    <3> QED
      BY <1>1, <1>5, <2>1, <3>1
  <2> QED
    BY <1>4, <1>6, <2>3, <2>4, NewestHolds DEF f, Stored
<1>10. CASE /\ c.minute < LastOf(q).minute
            /\ Len(q) = MaxHistory /\ NewerThan(c, q)
  <2>1. ASSUME NEW i \in 1..(n + 1) PROVE f[i].minute > c.minute
    <3>1. CASE i = n + 1
      <4>1. f[i].minute = t.minute
        BY <1>3, <1>4, <3>1
      <4> QED
        BY <1>7, <1>10, <4>1
    <3>2. CASE i \in 1..n
      <4>1. q[i] \in Candle /\ q[i].minute > c.minute
        BY <1>1, <1>10, <3>2, ElementOfSeq DEF NewerThan
      <4>2. f[i] = q[i] \/ f[i] = [q[i] EXCEPT !.closed = TRUE]
        BY <1>2, <1>4, <3>2
      <4>3. f[i].minute = q[i].minute
        BY <4>1, <4>2, ClosedSummary
      <4> QED
        BY <4>1, <4>3
    <3> QED
      BY <1>1, <3>1, <3>2
  <2>2. NewerThan(c, f)
    BY <1>5, <2>1 DEF NewerThan
  <2>3. NewerThan(c, Newest(MaxHistory, f))
    BY <1>4, <1>6, <2>2, NewestNewer
  <2>4. Len(Newest(MaxHistory, f)) = IF Len(f) > MaxHistory THEN MaxHistory ELSE Len(f)
    BY <1>4, <1>6, NewestFacts
  <2>5. Len(Newest(MaxHistory, f)) = MaxHistory
    BY <1>1, <1>4, <1>6, <1>10, <2>4
  <2> QED
    BY <2>3, <2>5 DEF Stored, f
<1> QED
  BY <1>8, <1>9, <1>10 DEF Stored

\* An update of the newest candle touches no older one.
LEMMA StoredUpdates ==
    ASSUME NEW q \in Seq(Candle), q # <<>>, NEW d \in Candle, d.minute = LastOf(q).minute,
           NEW c \in Candle, c.minute < LastOf(q).minute, Stored(c, q)
    PROVE  Stored(c, [q EXCEPT ![Len(q)] = d])
<1> DEFINE n == Len(q)
           r == [q EXCEPT ![n] = d]
<1>1. n \in Nat \ {0} /\ n \in 1..n /\ DOMAIN q = 1..n /\ LastOf(q) = q[n]
  BY EmptySeq, LenProperties DEF LastOf
<1>2. /\ r \in Seq(Candle) /\ Len(r) = n /\ DOMAIN r = 1..n
      /\ \A j \in 1..n : r[j] = IF j = n THEN d ELSE q[j]
  BY <1>1, ExceptSeq, LenProperties
<1>3. c.minute \in Nat /\ LastOf(q).minute \in Nat
  BY <1>1, ElementOfSeq, CandleFacts
<1> HIDE DEF r
<1>4. CASE \E j \in DOMAIN q : q[j] = c
  <2>1. PICK j \in 1..n : q[j] = c
    BY <1>1, <1>4
  <2>2. j # n
    <3>1. \A a, b \in Nat : a < b => a # b
      OBVIOUS
    <3>2. c.minute # LastOf(q).minute
      BY <1>3, <3>1, Zenon
    <3> QED
      BY <1>1, <2>1, <3>2, Zenon
  <2>3. r[j] = c
    BY <1>2, <2>1, <2>2
  <2> QED
    BY <1>2, <2>3 DEF Stored, r
<1>5. CASE Len(q) = MaxHistory /\ NewerThan(c, q)
  <2>1. \A j \in 1..n : r[j].minute = q[j].minute
    BY <1>1, <1>2
  <2>2. NewerThan(c, r)
    BY <1>1, <1>2, <1>5, <2>1 DEF NewerThan
  <2> QED
    BY <1>2, <1>5, <2>2 DEF Stored, r
<1> QED
  BY <1>4, <1>5 DEF Stored

-----------------------------------------------------------------------------
(* The invariant *)

\* No tick the builder was given is later than its symbol's newest candle.
NewestIsLatest == \A s \in Symbols : Covers(candles[s], s, processed)

\* An event's candle is still in the store, or MaxHistory newer ones are.
EventsStored ==
    \A i \in DOMAIN Events : Stored(Events[i].candle, candles[Events[i].symbol])

\* The four properties of the runs are inductive together with two facts.  The
\* newest candle is as late as the latest tick: without it a tick could open a
\* candle for a minute whose ticks are already counted.  And an event's candle
\* waits in the store too: without it a window could lack the candle it is for.
CandleInv ==
    /\ CandleTypeOK
    /\ NewestIsLatest
    /\ StoreSummarisesTicks
    /\ EventsAreFinal
    /\ EventsStored
    /\ WindowReachesEvent

LEMMA StoreAsHistories ==
    StoreSummarisesTicks <=> \A s \in Symbols : GoodHistory(candles[s], s, processed)
  BY DEF StoreSummarisesTicks, GoodHistory, Summarises, SummaryOf, TicksOf, TicksIn

LEMMA EventsAsSequence ==
    EventsAreFinal <=> FinalEvents(Events, candles, processed)
  BY DEF EventsAreFinal, FinalEvents, Summarises, SummaryOf, TicksOf, TicksIn

\* What a tick does to each symbol's history.
LEMMA TickStep ==
    ASSUME CandleTypeOK, NewestIsLatest, StoreSummarisesTicks, ProcessTick, NEW s \in Symbols
    PROVE  /\ candles'[s] \in Seq(Candle) /\ Len(candles'[s]) <= MaxHistory
           /\ GoodHistory(candles'[s], s, processed')
           /\ Covers(candles'[s], s, processed')
           /\ candles[s] # <<>> => /\ candles'[s] # <<>>
                                   /\ LastOf(candles[s]).minute <= LastOf(candles'[s]).minute
<1> DEFINE q == candles[s]
           r == candles'[s]
           t == tick
           p == processed
<1>1. /\ t \in Tick /\ p \in Seq(Tick) /\ q \in Seq(Candle) /\ Len(q) <= MaxHistory
      /\ candles \in [Symbols -> Seq(Candle)] /\ processed' = Append(p, t)
  BY DEF CandleTypeOK, ProcessTick
<1>2. GoodHistory(q, s, p) /\ Covers(q, s, p)
  BY StoreAsHistories DEF NewestIsLatest
<1>3. MaxHistory \in Nat \ {0}
  BY CandleAssumption
<1>4. t.minute \in Nat /\ (q # <<>> => LastOf(q).minute \in Nat)
  BY <1>1, TickFacts, EmptySeq, ElementOfSeq, CandleFacts DEF LastOf
<1> SUFFICES /\ r \in Seq(Candle) /\ Len(r) <= MaxHistory
             /\ GoodHistory(r, s, Append(p, t))
             /\ q # <<>> => r # <<>> /\ LastOf(q).minute <= LastOf(r).minute
             /\ t.symbol = s => r # <<>> /\ t.minute <= LastOf(r).minute
             /\ r # <<>> => LastOf(r).minute \in Nat
  BY <1>1, <1>2, <1>4, CoversAppend
<1>5. CASE t.symbol # s
  <2>1. r = q
    BY <1>1, <1>5 DEF ProcessTick
  <2> QED
    BY <1>1, <1>2, <1>4, <1>5, <2>1, HistoryKept
<1>6. CASE t.symbol = s /\ q = <<>>
  <2> DEFINE f == Append(<<>>, FreshCandle(t))
  <2>1. r = Newest(MaxHistory, f)
    BY <1>1, <1>6 DEF ProcessTick, OpensCandle
  <2>2. GoodHistory(f, s, Append(p, t))
    BY <1>1, <1>2, <1>6, HistoryStarts
  <2>3. FreshCandle(t) \in Candle /\ FreshCandle(t).minute = t.minute
    <3>1. t.minute \in 0..LastMinute /\ t.price \in Nat
      BY <1>1, TickFacts DEF Tick
    <3> QED
      BY <3>1 DEF FreshCandle, Candle
  <2>4. f \in Seq(Candle) /\ f # <<>> /\ LastOf(f) = FreshCandle(t)
    BY <2>3 DEF LastOf
  <2> HIDE DEF f
  <2>5. r \in Seq(Candle) /\ Len(r) <= MaxHistory
    BY <1>3, <2>1, <2>4, NewestFacts
  <2>6. r # <<>> /\ LastOf(r) = FreshCandle(t)
    BY <1>3, <2>1, <2>4, NewestLast
  <2>7. GoodHistory(r, s, Append(p, t))
    BY <1>3, <2>1, <2>2, <2>4, NewestGood
  <2> QED
    BY <1>4, <1>6, <2>3, <2>5, <2>6, <2>7
<1>7. CASE t.symbol = s /\ q # <<>> /\ LastOf(q).minute < t.minute
  <2> DEFINE f == Append(Closed(q), FreshCandle(t))
  <2>1. r = Newest(MaxHistory, f)
    BY <1>1, <1>7 DEF ProcessTick, OpensCandle
  <2>2. GoodHistory(f, s, Append(p, t))
    BY <1>1, <1>2, <1>7, HistoryOpens
  <2>3. FreshCandle(t) \in Candle /\ FreshCandle(t).minute = t.minute
    <3>1. t.minute \in 0..LastMinute /\ t.price \in Nat
      BY <1>1, TickFacts DEF Tick
    <3> QED
      BY <3>1 DEF FreshCandle, Candle
  <2>4. f \in Seq(Candle) /\ f # <<>> /\ LastOf(f) = FreshCandle(t)
    <3>1. Closed(q) \in Seq(Candle)
      BY <1>1, <1>7, ClosedFacts
    <3> QED
      BY <2>3, <3>1, AppendProperties DEF LastOf
  <2> HIDE DEF f
  <2>5. r \in Seq(Candle) /\ Len(r) <= MaxHistory
    BY <1>3, <2>1, <2>4, NewestFacts
  <2>6. r # <<>> /\ LastOf(r) = FreshCandle(t)
    BY <1>3, <2>1, <2>4, NewestLast
  <2>7. GoodHistory(r, s, Append(p, t))
    BY <1>3, <2>1, <2>2, <2>4, NewestGood
  <2> QED
    BY <1>4, <1>7, <2>3, <2>5, <2>6, <2>7
<1>8. CASE t.symbol = s /\ q # <<>> /\ LastOf(q).minute = t.minute
  <2>1. r = [q EXCEPT ![Len(q)] = UpdatedCandle(@, t)]
    BY <1>1, <1>4, <1>8 DEF ProcessTick, OpensCandle
  <2>2. /\ r \in Seq(Candle) /\ Len(r) = Len(q) /\ LastOf(r).minute = t.minute
        /\ GoodHistory(r, s, Append(p, t))
    BY <1>1, <1>2, <1>8, <2>1, HistoryUpdates
  <2>3. r # <<>>
    BY <1>1, <1>8, <2>2, EmptySeq
  <2> QED
    BY <1>1, <1>4, <1>8, <2>2, <2>3
<1>9. CASE t.symbol = s /\ q # <<>> /\ t.minute < LastOf(q).minute
  <2>1. r = q
    BY <1>1, <1>4, <1>9 DEF ProcessTick, OpensCandle
  <2> QED
    BY <1>1, <1>2, <1>4, <1>9, <2>1, HistoryKept
<1> QED
  BY <1>4, <1>5, <1>6, <1>7, <1>8, <1>9

LEMMA EventsFacts ==
    ASSUME CandleTypeOK
    PROVE  /\ Events \in Seq(Event)
           /\ worker \in {"evaluate", "decide"} =>
                 /\ Events = <<candle>> \o strategyQueue /\ candle \in Event
                 /\ Events # <<>> /\ Head(Events) = candle /\ Tail(Events) = strategyQueue
           /\ worker \notin {"evaluate", "decide"} => Events = strategyQueue
<1>1. strategyQueue \in Seq(Event)
  BY DEF CandleTypeOK
<1>2. CASE worker \in {"evaluate", "decide"}
  <2>1. candle \in Event /\ Events = <<candle>> \o strategyQueue
    BY <1>2 DEF CandleTypeOK, Events
  <2> QED
    BY <1>1, <1>2, <2>1, PrependFacts
<1>3. CASE worker \notin {"evaluate", "decide"}
  <2>1. Events = <<>> \o strategyQueue
    BY <1>3 DEF Events
  <2> QED
    BY <1>1, <1>3, <2>1, ConcatEmptySeq
<1> QED
  BY <1>2, <1>3

\* A symbol that has an event has a history, and it reaches past the event.
LEMMA EventHasHistory ==
    ASSUME CandleInv, NEW i \in DOMAIN Events
    PROVE  /\ Events[i] \in Event
           /\ candles[Events[i].symbol] \in Seq(Candle)
           /\ candles[Events[i].symbol] # <<>>
           /\ Events[i].candle.minute < LastOf(candles[Events[i].symbol]).minute
           /\ SummaryOf(Events[i].candle, Events[i].symbol, processed)
<1> DEFINE e == Events[i]
<1>1. e \in Event /\ e.symbol \in Symbols
  BY EventsFacts, LenProperties, ElementOfSeq, EventFacts DEF CandleInv
<1>2. e.candle.minute < LastOf(candles[e.symbol]).minute
      /\ SummaryOf(e.candle, e.symbol, processed)
  BY EventsAsSequence DEF CandleInv, FinalEvents
<1>3. PICK j \in TicksIn(processed, e.symbol, e.candle.minute) : TRUE
  BY <1>2 DEF SummaryOf
<1>4. j \in DOMAIN processed /\ processed[j].symbol = e.symbol
  BY <1>3 DEF TicksIn
<1>5. candles[e.symbol] # <<>>
  BY <1>1, <1>4 DEF CandleInv, NewestIsLatest, Covers
<1>6. candles[e.symbol] \in Seq(Candle)
  BY <1>1 DEF CandleInv, CandleTypeOK
<1> QED
  BY <1>1, <1>2, <1>5, <1>6

LEMMA CandleInitInvariant == CandleInit => CandleInv
<1> SUFFICES ASSUME CandleInit PROVE CandleInv
  OBVIOUS
<1> USE DEF CandleInit
<1>1. <<>> \in Seq(Tick) /\ <<>> \in Seq(Event) /\ <<>> \in Seq(Candle) /\ Len(<<>>) = 0
  BY EmptySeq
<1>2. 0 \in 0..LastMinute /\ \A n \in Nat \ {0} : 0 <= n
  BY CandleAssumption
<1>3. {TickQueueSize, StrategyQueueSize, MaxHistory, Lookback} \subseteq Nat \ {0}
  BY CandleAssumption
<1>4. 0 <= TickQueueSize /\ 0 <= StrategyQueueSize /\ 0 <= MaxHistory /\ 0 <= Lookback
  BY <1>2, <1>3
<1>5. candles \in [Symbols -> Seq(Candle)]
  BY <1>1
<1>6. CandleTypeOK
  BY <1>1, <1>2, <1>4, <1>5 DEF CandleTypeOK
<1>7. NewestIsLatest
  BY DEF NewestIsLatest, Covers
<1>8. StoreSummarisesTicks
  <2>1. \A s \in Symbols : candles[s] = <<>>
    OBVIOUS
  <2>2. DOMAIN <<>> = {}
    BY <1>1, LenProperties
  <2>3. \A s \in Symbols : DOMAIN candles[s] = {}
    BY <2>1, <2>2
  <2> QED
    BY <2>3 DEF StoreSummarisesTicks, Increasing
<1>9. EventsAreFinal
  <2>1. DOMAIN Events = {}
    BY <1>6, EventsFacts
  <2> QED
    BY <2>1 DEF EventsAreFinal
<1>10. EventsStored
  <2>1. DOMAIN Events = {}
    BY <1>6, EventsFacts
  <2> QED
    BY <2>1 DEF EventsStored
<1>11. WindowReachesEvent
  BY DEF WindowReachesEvent
<1> QED
  BY <1>6, <1>7, <1>8, <1>9, <1>10, <1>11 DEF CandleInv

\* The three sequences grow and shrink within their types.
LEMMA QueueFacts ==
    ASSUME NEW S, NEW q \in Seq(S)
    PROVE  /\ q # <<>> => /\ Head(q) \in S /\ Tail(q) \in Seq(S)
                          /\ Len(Tail(q)) < Len(q)
           /\ \A e \in S, n \in Nat : Len(q) < n => Append(q, e) \in Seq(S) /\ Len(Append(q, e)) <= n
<1>1. Len(q) \in Nat
  BY LenProperties
<1>2. q # <<>> => Head(q) \in S /\ Tail(q) \in Seq(S) /\ Len(Tail(q)) = Len(q) - 1
  BY HeadTailProperties
<1>3. \A e \in S : Append(q, e) \in Seq(S) /\ Len(Append(q, e)) = Len(q) + 1
  BY AppendProperties
<1>4. \A k, n \in Nat : k < n => k + 1 <= n
  OBVIOUS
<1> QED
  BY <1>1, <1>2, <1>3, <1>4

LEMMA CandleTypePreserved ==
    ASSUME CandleInv, [CandleNext]_candleVars
    PROVE  CandleTypeOK'
<1> USE DEF CandleInv, CandleTypeOK, feed, tickSide, workerSide
<1>1. CASE MinutePasses
  BY <1>1, CandleAssumption DEF MinutePasses
<1>2. CASE StateChanges
  <2>1. ready' \in BOOLEAN
    BY <1>2, Zenon DEF StateChanges
  <2> QED
    BY <1>2, <2>1 DEF StateChanges
<1>3. ASSUME NEW batch \in Batches, OnTicks(batch) PROVE CandleTypeOK'
  <2>1. batch \in Seq(Tick)
    BY CandleAssumption, SeqDef DEF Batches
  <2> QED
    BY <1>3, <2>1 DEF OnTicks
<1>4. CASE EnqueueTick
  <2>1. TickQueueSize \in Nat
    BY CandleAssumption
  <2> DEFINE longer == Append(tickQueue, Head(incoming))
  <2>2. Tail(incoming) \in Seq(Tick) /\ Head(incoming) \in Tick
    BY <1>4, QueueFacts DEF EnqueueTick
  <2>3. Len(tickQueue) < TickQueueSize => longer \in Seq(Tick) /\ Len(longer) <= TickQueueSize
    BY <2>1, <2>2, QueueFacts
  <2> HIDE DEF longer
  <2>4. tickQueue' = IF Len(tickQueue) < TickQueueSize THEN longer ELSE tickQueue
    BY <1>4 DEF EnqueueTick, longer
  <2>5. incoming' \in Seq(Tick) /\ tickQueue' \in Seq(Tick) /\ Len(tickQueue') <= TickQueueSize
    BY <1>4, <2>2, <2>3, <2>4 DEF EnqueueTick
  <2> QED
    BY <1>4, <2>5 DEF EnqueueTick
<1>5. CASE ConsumerChecks
  BY <1>5 DEF ConsumerChecks
<1>6. CASE ConsumerTimesOut
  BY <1>6 DEF ConsumerTimesOut
<1>7. CASE ConsumerGets
  <2>1. /\ Tail(tickQueue) \in Seq(Tick) /\ Head(tickQueue) \in Tick
        /\ Len(Tail(tickQueue)) < Len(tickQueue)
    BY <1>7, QueueFacts DEF ConsumerGets
  <2>2. Len(tickQueue) \in Nat /\ Len(Tail(tickQueue)) \in Nat /\ TickQueueSize \in Nat
    BY <2>1, LenProperties, CandleAssumption
  <2>3. tickQueue' \in Seq(Tick) /\ Len(tickQueue') <= TickQueueSize /\ tick' \in Tick
    BY <1>7, <2>1, <2>2 DEF ConsumerGets
  <2> QED
    BY <1>7, <2>3 DEF ConsumerGets
<1>8. CASE SkipTick
  BY <1>8 DEF SkipTick
<1>9. CASE ProcessTick
  <2>1. \A s \in Symbols : candles'[s] \in Seq(Candle) /\ Len(candles'[s]) <= MaxHistory
    BY <1>9, TickStep
  <2>2. candles' \in [Symbols -> Seq(Candle)]
    <3>1. DOMAIN candles' = Symbols /\ candles' = [s \in Symbols |-> candles'[s]]
      BY <1>9 DEF ProcessTick
    <3> QED
      BY <2>1, <3>1
  <2>3. processed' \in Seq(Tick)
    BY <1>9, AppendProperties DEF ProcessTick
  <2>4. strategyQueue' \in Seq(Event) /\ Len(strategyQueue') <= StrategyQueueSize
    <3>1. CASE UNCHANGED strategyQueue
      BY <3>1
    <3>2. CASE candles[tick.symbol] # <<>> /\ PutClosedCandle(tick.symbol, LastOf(candles[tick.symbol]))
      <4> DEFINE e == [symbol |-> tick.symbol,
                       candle |-> [LastOf(candles[tick.symbol]) EXCEPT !.closed = TRUE]]
      <4>1. tick.symbol \in Symbols /\ StrategyQueueSize \in Nat
        BY <1>9, TickFacts, CandleAssumption DEF ProcessTick
      <4>2. LastOf(candles[tick.symbol]) \in Candle
        BY <3>2, <4>1, EmptySeq, ElementOfSeq DEF LastOf
      <4>3. e \in Event
        BY <4>1, <4>2, ClosedSummary DEF Event
      <4> DEFINE longer == Append(strategyQueue, e)
      <4> HIDE DEF e
      <4>4. Len(strategyQueue) < StrategyQueueSize =>
               longer \in Seq(Event) /\ Len(longer) <= StrategyQueueSize
        BY <4>1, <4>3, QueueFacts
      <4> HIDE DEF longer
      <4>5. strategyQueue' = IF Len(strategyQueue) < StrategyQueueSize THEN longer ELSE strategyQueue
        BY <3>2 DEF PutClosedCandle, longer, e
      <4> QED
        BY <4>4, <4>5
    <3> QED
      BY <1>9, <3>1, <3>2 DEF ProcessTick, OpensCandle
  <2>5. UNCHANGED <<feed, incoming, tickQueue, workerSide>> /\ consumer' = "check" /\ tick' = Nothing
    BY <1>9 DEF ProcessTick
  <2> QED
    BY <2>1, <2>2, <2>3, <2>4, <2>5
<1>10. CASE WorkerChecks
  BY <1>10 DEF WorkerChecks
<1>11. CASE WorkerDiscards \/ WorkerGets
  <2>1. /\ Tail(strategyQueue) \in Seq(Event) /\ Head(strategyQueue) \in Event
        /\ Len(Tail(strategyQueue)) < Len(strategyQueue)
    BY <1>11, QueueFacts DEF WorkerDiscards, WorkerGets
  <2>2. /\ Len(strategyQueue) \in Nat /\ Len(Tail(strategyQueue)) \in Nat
        /\ StrategyQueueSize \in Nat
    BY <2>1, LenProperties, CandleAssumption
  <2>3. strategyQueue' \in Seq(Event) /\ Len(strategyQueue') <= StrategyQueueSize
    <3>1. strategyQueue' = Tail(strategyQueue)
      BY <1>11 DEF WorkerDiscards, WorkerGets
    <3>2. \A a, b, c \in Nat : a < b /\ b <= c => a <= c
      OBVIOUS
    <3>3. Len(Tail(strategyQueue)) <= StrategyQueueSize
      BY <2>1, <2>2, <3>2
    <3> QED
      BY <2>1, <3>1, <3>3
  <2>4. CASE WorkerDiscards
    BY <2>3, <2>4 DEF WorkerDiscards
  <2>5. CASE WorkerGets
    BY <2>1, <2>3, <2>5 DEF WorkerGets
  <2> QED
    BY <1>11, <2>4, <2>5
<1>12. CASE WorkerTimesOut
  BY <1>12 DEF WorkerTimesOut
<1>13. CASE StrategyReads
  <2>1. Lookback \in Nat \ {0} /\ candles[candle.symbol] \in Seq(Candle)
    BY <1>13, CandleAssumption, EventFacts DEF StrategyReads
  <2>2. window' \in Seq(Candle) /\ Len(window') <= Lookback
    BY <1>13, <2>1, NewestFacts, LenProperties DEF StrategyReads, LastNCandles
  <2> QED
    BY <1>13, <2>2 DEF StrategyReads
<1>14. CASE StrategyDone
  <2>1. <<>> \in Seq(Candle) /\ Len(<<>>) <= Lookback
    <3>1. <<>> \in Seq(Candle) /\ Len(<<>>) = 0
      BY EmptySeq
    <3>2. \A n \in Nat : 0 <= n
      OBVIOUS
    <3>3. Lookback \in Nat
      BY CandleAssumption
    <3> QED
      BY <3>1, <3>2, <3>3
  <2> QED
    BY <1>14, <2>1 DEF StrategyDone
<1>15. CASE UNCHANGED candleVars
  BY <1>15 DEF candleVars
<1> QED
  BY <1>1, <1>2, <1>3, <1>4, <1>5, <1>6, <1>7, <1>8, <1>9, <1>10, <1>11, <1>12, <1>13,
     <1>14, <1>15 DEF CandleNext, ConsumerStep, WorkerStep

\* The candle of a waiting event stays in the store, or goes for newer ones.
LEMMA StoredStays ==
    ASSUME CandleInv, ProcessTick, NEW i \in DOMAIN Events
    PROVE  Stored(Events[i].candle, candles'[Events[i].symbol])
<1> DEFINE e == Events[i]
           s == e.symbol
           q == candles[s]
           r == candles'[s]
           t == tick
<1>1. /\ e \in Event /\ q \in Seq(Candle) /\ q # <<>>
      /\ e.candle.minute < LastOf(q).minute
  BY EventHasHistory
<1>2. s \in Symbols /\ e.candle \in Candle
  BY <1>1, EventFacts
<1>3. Stored(e.candle, q)
  BY DEF CandleInv, EventsStored
<1>4. /\ t \in Tick /\ processed \in Seq(Tick) /\ candles \in [Symbols -> Seq(Candle)]
      /\ t.minute \in Nat /\ LastOf(q).minute \in Nat
  BY <1>1, TickFacts, EmptySeq, ElementOfSeq, CandleFacts
  DEF CandleInv, CandleTypeOK, ProcessTick, LastOf
<1>5. GoodHistory(q, s, processed) /\ Covers(q, s, processed)
  BY <1>2, StoreAsHistories DEF CandleInv, NewestIsLatest
<1>6. CASE r = q
  BY <1>3, <1>6
<1>7. CASE t.symbol = s /\ LastOf(q).minute < t.minute
  <2>1. r = Newest(MaxHistory, Append(Closed(q), FreshCandle(t)))
    BY <1>1, <1>2, <1>4, <1>7 DEF ProcessTick, OpensCandle
  <2>2. Increasing(Append(Closed(q), FreshCandle(t)))
    BY <1>1, <1>4, <1>5, <1>7, HistoryOpens DEF GoodHistory
  <2>3. Stored(e.candle, Newest(MaxHistory, Append(Closed(q), FreshCandle(t))))
    BY <1>1, <1>2, <1>3, <1>4, <1>7, <2>2, StoredOpens
  <2> QED
    BY <2>1, <2>3
<1>8. CASE t.symbol = s /\ LastOf(q).minute = t.minute
  <2> DEFINE d == UpdatedCandle(LastOf(q), t)
  <2>1. r = [q EXCEPT ![Len(q)] = d]
    BY <1>1, <1>2, <1>4, <1>8 DEF ProcessTick, OpensCandle, LastOf
  <2>2. LastOf(q) \in Candle /\ t.price \in Nat
    BY <1>1, <1>4, EmptySeq, ElementOfSeq, TickFacts DEF LastOf
  <2>3. d \in Candle /\ d.minute = LastOf(q).minute
    BY <2>2 DEF UpdatedCandle, Candle
  <2>4. Stored(e.candle, [q EXCEPT ![Len(q)] = d])
    BY <1>1, <1>2, <1>3, <2>3, StoredUpdates
  <2> QED
    BY <2>1, <2>4
<1>9. CASE t.symbol # s \/ t.minute < LastOf(q).minute
  <2>1. r = q
    BY <1>1, <1>2, <1>4, <1>9 DEF ProcessTick, OpensCandle
  <2> QED
    BY <1>6, <2>1
<1>10. \/ t.symbol # s \/ t.minute < LastOf(q).minute
       \/ t.symbol = s /\ LastOf(q).minute < t.minute
       \/ t.symbol = s /\ LastOf(q).minute = t.minute
  BY <1>4
<1> QED
  BY <1>7, <1>8, <1>9, <1>10

\* The candle a tick closes is in the store when its event is queued.
LEMMA ClosedIsStored ==
    ASSUME CandleInv, ProcessTick, tick.symbol \in Symbols,
           candles[tick.symbol] # <<>>, OpensCandle(candles[tick.symbol], tick)
    PROVE  Stored([LastOf(candles[tick.symbol]) EXCEPT !.closed = TRUE], candles'[tick.symbol])
<1> DEFINE s == tick.symbol
           q == candles[s]
           t == tick
<1>1. /\ t \in Tick /\ processed \in Seq(Tick) /\ candles \in [Symbols -> Seq(Candle)]
      /\ q \in Seq(Candle)
  BY DEF CandleInv, CandleTypeOK, ProcessTick
<1>2. LastOf(q) \in Candle
  BY <1>1, EmptySeq, ElementOfSeq DEF LastOf
<1>3. [LastOf(q) EXCEPT !.closed = TRUE] \in Candle
  BY <1>2, ClosedSummary
<1>4. LastOf(q).minute < t.minute
  BY DEF OpensCandle
<1>5. candles'[s] = Newest(MaxHistory, Append(Closed(q), FreshCandle(t)))
  BY <1>1 DEF ProcessTick
<1>6. GoodHistory(q, s, processed) /\ Covers(q, s, processed)
  BY StoreAsHistories DEF CandleInv, NewestIsLatest
<1>7. Increasing(Append(Closed(q), FreshCandle(t)))
  BY <1>1, <1>4, <1>6, HistoryOpens DEF GoodHistory
<1> HIDE DEF q, t
<1>8. Stored([LastOf(q) EXCEPT !.closed = TRUE],
             Newest(MaxHistory, Append(Closed(q), FreshCandle(t))))
  BY <1>1, <1>3, <1>4, <1>7, StoredOpens DEF q
<1> QED
  BY <1>5, <1>8 DEF q, s

\* The candle builder's step: the store and the events that were waiting.
LEMMA TickKeepsProperties ==
    ASSUME CandleInv, ProcessTick
    PROVE  NewestIsLatest' /\ StoreSummarisesTicks' /\ EventsAreFinal' /\ EventsStored'
<1> USE DEF CandleInv
<1>1. NewestIsLatest'
  BY TickStep DEF NewestIsLatest
<1>2. StoreSummarisesTicks'
  <2>1. \A s \in Symbols : GoodHistory(candles'[s], s, processed')
    BY TickStep
  <2> QED
    BY <2>1 DEF StoreSummarisesTicks, GoodHistory, Summarises, SummaryOf, TicksOf, TicksIn
<1>3. /\ tick \in Tick /\ tick.symbol \in Symbols /\ tick.minute \in Nat
      /\ processed \in Seq(Tick) /\ processed' = Append(processed, tick)
      /\ candles \in [Symbols -> Seq(Candle)]
  BY TickFacts DEF CandleTypeOK, ProcessTick
\* An event that was final stays final.
<1>4. FinalEvents(Events, candles', processed')
  <2>1. \A i, j \in DOMAIN Events :
           i < j /\ Events[i].symbol = Events[j].symbol
           => Events[i].candle.minute < Events[j].candle.minute
    BY DEF EventsAreFinal
  <2> SUFFICES ASSUME NEW i \in DOMAIN Events
               PROVE  /\ Events[i].candle.closed
                      /\ SummaryOf(Events[i].candle, Events[i].symbol, processed')
                      /\ Events[i].candle.minute < LastOf(candles'[Events[i].symbol]).minute
    BY <2>1 DEF FinalEvents
  <2> DEFINE e == Events[i]
             q == candles[e.symbol]
             r == candles'[e.symbol]
  <2>2. /\ e \in Event /\ e.symbol \in Symbols /\ q \in Seq(Candle) /\ q # <<>>
        /\ e.candle.minute \in Nat /\ e.candle.minute < LastOf(q).minute
        /\ SummaryOf(e.candle, e.symbol, processed)
    BY EventHasHistory, EventFacts
  <2>3. /\ r \in Seq(Candle) /\ r # <<>> /\ LastOf(q).minute <= LastOf(r).minute
    BY <2>2, TickStep
  <2>4. LastOf(q).minute \in Nat /\ LastOf(r).minute \in Nat
    BY <2>2, <2>3, EmptySeq, ElementOfSeq, CandleFacts DEF LastOf
  <2>5. GoodHistory(q, e.symbol, processed)
    BY <2>2, StoreAsHistories
  <2>6. e.candle.closed
    BY DEF EventsAreFinal
  <2>7. SummaryOf(e.candle, e.symbol, processed')
    BY <1>3, <2>2, <2>5, OlderKept
  <2>8. e.candle.minute < LastOf(r).minute
    BY <2>2, <2>3, <2>4
  <2> QED
    BY <2>6, <2>7, <2>8
<1>5. FinalEvents(Events', candles', processed') /\ EventsStored'
  <2>1. UNCHANGED workerSide
    BY DEF ProcessTick
  <2>2. CASE UNCHANGED strategyQueue
    <3>1. Events' = Events
      BY <2>1, <2>2 DEF Events, workerSide
    <3>2. \A i \in DOMAIN Events : Stored(Events[i].candle, candles'[Events[i].symbol])
      BY StoredStays
    <3> QED
      BY <1>4, <3>1, <3>2 DEF EventsStored
  <2>3. CASE ~ UNCHANGED strategyQueue
    <3> DEFINE s == tick.symbol
               q == candles[s]
               c == LastOf(q)
               e == [symbol |-> s, candle |-> [c EXCEPT !.closed = TRUE]]
    <3>1. q # <<>> /\ OpensCandle(q, tick) /\ strategyQueue' = Append(strategyQueue, e)
      BY <2>3 DEF ProcessTick, PutClosedCandle
    <3>2. c \in Candle /\ c.minute \in Nat /\ c.minute < tick.minute
      BY <1>3, <3>1, EmptySeq, ElementOfSeq, CandleFacts DEF LastOf, OpensCandle
    <3>3. GoodHistory(q, s, processed) /\ c = q[Len(q)] /\ Len(q) \in DOMAIN q
      BY <1>3, <3>1, StoreAsHistories, EmptySeq, LenProperties DEF LastOf
    <3>4. SummaryOf(c, s, processed)
      BY <3>3 DEF GoodHistory
    <3>5. tick.minute # c.minute
      BY <1>3, <3>2
    <3>6. SummaryOf(c, s, processed')
      BY <1>3, <3>4, <3>5, SummaryKept
    <3> HIDE DEF c
    <3>7. e \in Event /\ e.symbol = s /\ e.candle.minute = c.minute /\ e.candle.closed
      BY <1>3, <3>2, ClosedSummary DEF Event
    <3>8. SummaryOf(e.candle, s, processed')
      BY <3>2, <3>6, ClosedSummary
    <3>9. c.minute < LastOf(candles'[s]).minute
      <4>1. candles'[s] \in Seq(Candle) /\ Covers(candles'[s], s, processed')
        BY <1>3, TickStep
      <4>2. Len(processed) + 1 \in DOMAIN processed' /\ processed'[Len(processed) + 1] = tick
        BY <1>3, AppendProperties, LenProperties
      <4>3. candles'[s] # <<>> /\ tick.minute <= LastOf(candles'[s]).minute
        BY <4>1, <4>2 DEF Covers
      <4>4. LastOf(candles'[s]).minute \in Nat
        BY <4>1, <4>3, EmptySeq, ElementOfSeq, CandleFacts DEF LastOf
      <4> QED
        BY <1>3, <3>2, <4>3, <4>4
    <3>10. \A i \in DOMAIN Events : Events[i].symbol = s => Events[i].candle.minute < c.minute
      BY EventHasHistory DEF c
    <3>11. Events \in Seq(Event) /\ Events' = Append(Events, e)
      <4> HIDE DEF e
      <4>1. Events \in Seq(Event) /\ strategyQueue \in Seq(Event)
        BY EventsFacts DEF CandleTypeOK
      <4>2. CASE worker \in {"evaluate", "decide"}
        <5>1. Events = <<candle>> \o strategyQueue /\ candle \in Event
          BY <4>2, EventsFacts
        <5>2. Events' = <<candle>> \o Append(strategyQueue, e)
          BY <2>1, <3>1, <4>2 DEF Events, workerSide
        <5>3. <<candle>> \in Seq(Event) /\ <<e>> \in Seq(Event)
          BY <3>7, <5>1
        <5>4. /\ Append(strategyQueue, e) = strategyQueue \o <<e>>
              /\ Append(Events, e) = Events \o <<e>>
          BY <3>7, <4>1, AppendIsConcat
        <5> QED
          BY <4>1, <5>1, <5>2, <5>3, <5>4, ConcatAssociative
      <4>3. CASE worker \notin {"evaluate", "decide"}
        <5>1. Events = strategyQueue
          BY <4>3, EventsFacts
        <5>2. Events' = <<>> \o Append(strategyQueue, e)
          BY <2>1, <3>1, <4>3 DEF Events, workerSide
        <5>3. Append(strategyQueue, e) \in Seq(Event)
          BY <3>7, <4>1, AppendProperties
        <5> QED
          BY <5>1, <5>2, <5>3, ConcatEmptySeq
      <4> QED
        BY <4>1, <4>2, <4>3
    <3>12. Stored(e.candle, candles'[s])
      BY <1>3, <3>1, ClosedIsStored DEF c
    <3> HIDE DEF e, s
    <3>13. FinalEvents(Events', candles', processed')
      BY <1>4, <3>7, <3>8, <3>9, <3>10, <3>11, FinalAppend
    <3>14. EventsStored'
      <4>1. \A i \in DOMAIN Events : Stored(Events[i].candle, candles'[Events[i].symbol])
        BY StoredStays
      <4>2. Stored(e.candle, candles'[e.symbol])
        BY <3>7, <3>12
      <4>3. \A i \in DOMAIN Events' : \/ i \in DOMAIN Events /\ Events'[i] = Events[i]
                                     \/ Events'[i] = e
        <5>1. /\ Len(Events) \in Nat /\ DOMAIN Events = 1..Len(Events)
              /\ DOMAIN Events' = 1..(Len(Events) + 1)
              /\ Events'[Len(Events) + 1] = e
              /\ \A i \in 1..Len(Events) : Events'[i] = Events[i]
          BY <3>7, <3>11, AppendProperties, LenProperties
        <5> QED
          BY <5>1
      <4> QED
        BY <4>1, <4>2, <4>3 DEF EventsStored
    <3> QED
      BY <3>13, <3>14
  <2> QED
    BY <2>2, <2>3
<1>6. EventsAreFinal'
  BY <1>5 DEF EventsAreFinal, FinalEvents, Summarises, SummaryOf, TicksOf, TicksIn
<1> QED
  BY <1>1, <1>2, <1>5, <1>6

\* Every other step leaves the ticks processed and the candles alone; it keeps
\* the events, or takes the first of them away.
LEMMA OtherStepEvents ==
    ASSUME CandleInv, [CandleNext]_candleVars, ~ProcessTick
    PROVE  /\ UNCHANGED <<processed, candles>>
           /\ Events' = Events \/ (Events # <<>> /\ Events' = Tail(Events))
<1> USE DEF CandleInv, feed, tickSide, workerSide
<1>1. CASE UNCHANGED <<processed, candles, strategyQueue, candle>>
           /\ (worker' \in {"evaluate", "decide"} <=> worker \in {"evaluate", "decide"})
  BY <1>1 DEF Events
<1>2. CASE WorkerDiscards
  <2>1. worker = "check" /\ strategyQueue # <<>> /\ UNCHANGED <<processed, candles, worker>>
        /\ strategyQueue' = Tail(strategyQueue)
    BY <1>2 DEF WorkerDiscards
  <2>2. Events = strategyQueue
    BY <2>1, EventsFacts
  <2>3. Events' = <<>> \o Tail(strategyQueue)
    BY <2>1 DEF Events
  <2>4. Tail(strategyQueue) \in Seq(Event)
    BY <2>1, QueueFacts DEF CandleTypeOK
  <2> QED
    BY <2>1, <2>2, <2>3, <2>4, ConcatEmptySeq
<1>3. CASE WorkerGets
  <2>1. /\ worker = "get" /\ worker' = "evaluate" /\ strategyQueue # <<>>
        /\ UNCHANGED <<processed, candles>>
        /\ candle' = Head(strategyQueue) /\ strategyQueue' = Tail(strategyQueue)
    BY <1>3 DEF WorkerGets
  <2>2. Events = strategyQueue
    BY <2>1, EventsFacts
  <2>3. Events' = <<Head(strategyQueue)>> \o Tail(strategyQueue)
    BY <2>1 DEF Events
  <2> QED
    BY <2>1, <2>2, <2>3, TakeKeepsEvents DEF CandleTypeOK
<1>4. CASE StrategyDone
  <2>1. /\ worker = "decide" /\ worker' = "check"
        /\ UNCHANGED <<processed, candles, strategyQueue>>
    BY <1>4 DEF StrategyDone
  <2>2. Events # <<>> /\ Tail(Events) = strategyQueue
    BY <2>1, EventsFacts
  <2>3. Events' = <<>> \o strategyQueue
    BY <2>1 DEF Events
  <2> QED
    BY <2>1, <2>2, <2>3, ConcatEmptySeq DEF CandleTypeOK
<1>5. CASE MinutePasses \/ StateChanges \/ (\E batch \in Batches : OnTicks(batch)) \/ EnqueueTick
  BY <1>1, <1>5 DEF MinutePasses, StateChanges, OnTicks, EnqueueTick
<1>6. CASE ConsumerChecks \/ ConsumerTimesOut \/ ConsumerGets \/ SkipTick
  BY <1>1, <1>6 DEF ConsumerChecks, ConsumerTimesOut, ConsumerGets, SkipTick
<1>7. CASE WorkerChecks \/ WorkerTimesOut \/ StrategyReads
  BY <1>1, <1>7 DEF WorkerChecks, WorkerTimesOut, StrategyReads
<1>8. CASE UNCHANGED candleVars
  BY <1>1, <1>8 DEF candleVars
<1> QED
  BY <1>2, <1>3, <1>4, <1>5, <1>6, <1>7, <1>8 DEF CandleNext, ConsumerStep, WorkerStep

\* The window is the newest part of a store that holds the event's candle, or newer ones.
LEMMA ReadReachesEvent ==
    ASSUME CandleInv, StrategyReads
    PROVE  WindowReachesEvent'
<1> DEFINE q == candles[candle.symbol]
           c == candle.candle
           w == Newest(Lookback, q)
<1>1. Events \in Seq(Event) /\ Events # <<>> /\ Head(Events) = candle /\ candle \in Event
  BY EventsFacts DEF CandleInv, StrategyReads
<1>2. 1 \in DOMAIN Events /\ Events[1] = candle
  BY <1>1, EmptySeq, LenProperties
<1>3. q \in Seq(Candle) /\ q # <<>>
  BY <1>2, EventHasHistory
<1>4. Stored(c, q) /\ c \in Candle
  BY <1>1, <1>2, EventFacts DEF CandleInv, EventsStored
<1>5. GoodHistory(q, candle.symbol, processed)
  BY <1>1, EventFacts, StoreAsHistories DEF CandleInv
<1>6. Lookback \in Nat \ {0} /\ MaxHistory \in Nat
  BY CandleAssumption
<1>7. Increasing(q) /\ Increasing(w)
  BY <1>3, <1>5, <1>6, NewestGood DEF GoodHistory
<1>8. window' = w /\ candle' = candle
  BY DEF StrategyReads, LastNCandles
<1>9. Len(w) = IF Len(q) > Lookback THEN Lookback ELSE Len(q)
  BY <1>3, <1>6, NewestFacts
<1> HIDE DEF c, q
<1>10. \/ \E i \in DOMAIN w : w[i] = c
       \/ Len(w) \in {Lookback, MaxHistory} /\ NewerThan(c, w)
  <2>1. CASE \E j \in DOMAIN q : q[j] = c
    BY <1>3, <1>4, <1>6, <1>7, <2>1, NewestHolds
  <2>2. CASE Len(q) = MaxHistory /\ NewerThan(c, q)
    BY <1>3, <1>6, <1>9, <2>2, NewestNewer
  <2> QED
    BY <1>4, <2>1, <2>2 DEF Stored
<1> HIDE DEF w
<1>11. /\ Increasing(window')
       /\ \/ \E i \in DOMAIN window' : window'[i] = candle'.candle
          \/ /\ Len(window') \in {Lookback, MaxHistory}
             /\ \A i \in DOMAIN window' : window'[i].minute > candle'.candle.minute
  BY <1>7, <1>8, <1>10 DEF c, NewerThan
<1> QED
  BY <1>11 DEF WindowReachesEvent, Increasing

LEMMA CandleStepInvariant == CandleInv /\ [CandleNext]_candleVars => CandleInv'
<1> SUFFICES ASSUME CandleInv, [CandleNext]_candleVars PROVE CandleInv'
  OBVIOUS
<1>1. CandleTypeOK'
  BY CandleTypePreserved
<1>2. NewestIsLatest' /\ StoreSummarisesTicks' /\ EventsAreFinal' /\ EventsStored'
  <2>1. CASE ProcessTick
    BY <2>1, TickKeepsProperties
  <2>2. CASE ~ProcessTick
    <3>1. UNCHANGED <<processed, candles>>
      BY <2>2, OtherStepEvents
    <3>2. NewestIsLatest'
      BY <3>1 DEF CandleInv, NewestIsLatest
    <3>3. StoreSummarisesTicks'
      BY <3>1 DEF CandleInv, StoreSummarisesTicks, Summarises, TicksOf
    <3>4. FinalEvents(Events', candles, processed)
      <4>1. FinalEvents(Events, candles, processed) /\ Events \in Seq(Event)
        BY EventsAsSequence, EventsFacts DEF CandleInv
      <4> QED
        BY <2>2, <4>1, OtherStepEvents, FinalTail
    <3>5. FinalEvents(Events', candles', processed')
      BY <3>1, <3>4
    <3>6. EventsAreFinal'
      BY <3>5 DEF EventsAreFinal, FinalEvents, Summarises, SummaryOf, TicksOf, TicksIn
    <3>7. EventsStored'
      <4>1. Events \in Seq(Event) /\ EventsStored
        BY EventsFacts DEF CandleInv
      <4>2. Events # <<>> => \A i \in DOMAIN Tail(Events) :
                               i + 1 \in DOMAIN Events /\ Tail(Events)[i] = Events[i + 1]
        BY <4>1, TailFacts
      <4>3. Events' = Events \/ (Events # <<>> /\ Events' = Tail(Events))
        BY <2>2, OtherStepEvents
      <4> QED
        BY <3>1, <4>1, <4>2, <4>3 DEF EventsStored
    <3> QED
      BY <3>2, <3>3, <3>6, <3>7
  <2> QED
    BY <2>1, <2>2
<1>3. WindowReachesEvent'
  <2>1. CASE StrategyReads
    BY <2>1, ReadReachesEvent
  <2>2. CASE UNCHANGED <<window, candle, worker>>
    BY <2>2 DEF CandleInv, WindowReachesEvent
  <2>3. CASE worker' # "decide"
    BY <2>3 DEF WindowReachesEvent
  <2> QED
    BY <2>1, <2>2, <2>3
    DEF CandleNext, ConsumerStep, WorkerStep, MinutePasses, StateChanges, OnTicks, EnqueueTick,
        ConsumerChecks, ConsumerTimesOut, ConsumerGets, SkipTick, ProcessTick, WorkerChecks,
        WorkerDiscards, WorkerTimesOut, WorkerGets, StrategyDone, candleVars, workerSide
<1> QED
  BY <1>1, <1>2, <1>3 DEF CandleInv

THEOREM CandleInvariant == CandleSpec => []CandleInv
<1>1. CandleInit => CandleInv
  BY CandleInitInvariant
<1>2. CandleInv /\ [CandleNext]_candleVars => CandleInv'
  BY CandleStepInvariant
<1> QED
  BY <1>1, <1>2, PTL DEF CandleSpec

\* Queues and histories stay within their bounds and hold what they should.
THEOREM CandleTypesHold == CandleSpec => []CandleTypeOK
<1>1. CandleInv => CandleTypeOK
  BY DEF CandleInv
<1> QED
  BY <1>1, CandleInvariant, PTL

\* Every candle in the store is what the ticks in time for its minute say,
\* however they were delayed, reordered, lost or refused.
THEOREM CandlesSummariseTicks == CandleSpec => []StoreSummarisesTicks
<1>1. CandleInv => StoreSummarisesTicks
  BY DEF CandleInv
<1> QED
  BY <1>1, CandleInvariant, PTL

\* An event in the worker's queue or hands is final and in order.
THEOREM EventsStayFinal == CandleSpec => []EventsAreFinal
<1>1. CandleInv => EventsAreFinal
  BY DEF CandleInv
<1> QED
  BY <1>1, CandleInvariant, PTL

\* The window a strategy computes on holds the very candle it handles, or is full of
\* newer ones.
THEOREM WindowsReachEvents == CandleSpec => []WindowReachesEvent
<1>1. CandleInv => WindowReachesEvent
  BY DEF CandleInv
<1> QED
  BY <1>1, CandleInvariant, PTL
=============================================================================
