------------------------ MODULE StrategyStore_proofs ------------------------
(***************************************************************************)
(* What each operation on the stored strategies preserves, for the two     *)
(* modules that are built on the store: the desk of the console and the    *)
(* tick stream.                                                            *)
(***************************************************************************)
EXTENDS StrategyStore, TLAPS

\* A row names the symbol it runs on exactly while it is deployed.
RowsAgree ==
    \A id \in Ids : Stored(id) => (rows[id].deployed <=> rows[id].symbol # NoSymbol)

StoreInv == StoreTypeOK /\ RowsAgree /\ RunsIffDeployed

\* Rows are records, never NoRow.
LEMMA RowFacts ==
    /\ \A row \in Rows : /\ row.instrument \in Instruments
                         /\ row.deployed \in BOOLEAN
                         /\ row.symbol \in Instruments \cup {NoSymbol}
                         /\ row # NoRow
    /\ \A s \in Instruments, d \in BOOLEAN, y \in Instruments \cup {NoSymbol} :
          [instrument |-> s, deployed |-> d, symbol |-> y] \in Rows
  BY StoreAssumption DEF Rows

LEMMA RowMoved ==
    \A row \in Rows, s \in Instruments :
        [row EXCEPT !.instrument = s]
           = [instrument |-> s, deployed |-> row.deployed, symbol |-> row.symbol]
  BY DEF Rows

LEMMA RowRestarted ==
    \A row \in Rows, y \in Instruments \cup {NoSymbol} :
        [row EXCEPT !.symbol = y]
           = [instrument |-> row.instrument, deployed |-> row.deployed, symbol |-> y]
  BY DEF Rows

LEMMA RowSwitched ==
    ASSUME NEW row \in Rows, NEW d \in BOOLEAN, NEW y \in Instruments \cup {NoSymbol}
    PROVE  [row EXCEPT !.deployed = d, !.symbol = y]
              = [instrument |-> row.instrument, deployed |-> d, symbol |-> y]
<1> DEFINE new == [row EXCEPT !.deployed = d, !.symbol = y]
<1>1. DOMAIN row = {"instrument", "deployed", "symbol"}
      /\ row = [x \in {"instrument", "deployed", "symbol"} |-> row[x]]
  BY DEF Rows
<1>2. new = [x \in {"instrument", "deployed", "symbol"} |->
                IF x = "symbol" THEN y ELSE IF x = "deployed" THEN d ELSE row[x]]
  BY <1>1
<1>3. new.instrument = row.instrument /\ new.deployed = d /\ new.symbol = y
  BY <1>2
<1> QED
  BY <1>2, <1>3

LEMMA StoreInitInv == StoreInit => StoreInv
  BY DEF StoreInit, StoreInv, StoreTypeOK, RowsAgree, RunsIffDeployed, Stored, Deployed,
         RunningOn

-----------------------------------------------------------------------------
(* One row changes, and with it what runs under its id.                     *)

ChangesRow(id, row) == rows' = [rows EXCEPT ![id] = row]

\* What must be true of the row that id gets, and of what runs as id then.
GoodRow(row) == row # NoRow => (row.deployed <=> row.symbol # NoSymbol)
GoodRun(id, row) ==
    id \notin torn' =>
        \A s \in Instruments :
            <<s, id>> \in registry' <=> row # NoRow /\ row.deployed /\ s = row.symbol

LEMMA RowChange ==
    ASSUME StoreInv, NEW id \in Ids, NEW row \in Rows \cup {NoRow},
           ChangesRow(id, row), GoodRow(row), GoodRun(id, row),
           registry' \subseteq Instruments \X Ids,
           torn' \subseteq Ids, \A i \in Ids \ {id} : i \in torn' <=> i \in torn,
           \A s \in Instruments, i \in Ids \ {id} :
               <<s, i>> \in registry' <=> <<s, i>> \in registry
    PROVE  StoreInv'
<1>1. StoreTypeOK'
  BY DEF StoreInv, StoreTypeOK, ChangesRow
<1>2. rows'[id] = row /\ \A i \in Ids \ {id} : rows'[i] = rows[i]
  BY DEF StoreInv, StoreTypeOK, ChangesRow
<1>4. RowsAgree'
  <2> SUFFICES ASSUME NEW i \in Ids, rows'[i] # NoRow
               PROVE  rows'[i].deployed <=> rows'[i].symbol # NoSymbol
    BY DEF RowsAgree, Stored
  <2>1. CASE i = id
    BY <1>2, <2>1 DEF GoodRow
  <2>2. CASE i # id
    BY <1>2, <2>2 DEF StoreInv, RowsAgree, Stored
  <2> QED
    BY <2>1, <2>2
<1>5. \A i \in Ids : i \in Deployed' <=> rows'[i] # NoRow /\ rows'[i].deployed
  BY DEF Deployed, Stored
<1>6. RunsIffDeployed'
  <2> SUFFICES ASSUME NEW i \in Ids \ torn'
               PROVE  RunningOn(i)' = IF i \in Deployed' THEN {rows'[i].symbol} ELSE {}
    BY DEF RunsIffDeployed
  <2>1. CASE i = id
    <3>1. RunningOn(i)' = {s \in Instruments : <<s, id>> \in registry'}
      BY <2>1 DEF RunningOn
    <3>2. row # NoRow /\ row.deployed => row.symbol \in Instruments
      BY RowFacts DEF GoodRow
    <3> QED
      BY <1>2, <1>5, <2>1, <3>1, <3>2 DEF GoodRun
  <2>2. CASE i # id
    <3>1. RunningOn(i)' = RunningOn(i)
      BY <2>2 DEF RunningOn
    <3>2. i \in Deployed' <=> i \in Deployed
      BY <1>2, <1>5, <2>2 DEF Deployed, Stored
    <3>3. RunningOn(i) = IF i \in Deployed THEN {rows[i].symbol} ELSE {}
      BY <2>2 DEF StoreInv, RunsIffDeployed
    <3> QED
      BY <1>2, <2>2, <3>1, <3>2, <3>3
  <2> QED
    BY <2>1, <2>2
<1> QED
  BY <1>1, <1>4, <1>6 DEF StoreInv

\* POST /strategy-store: a new row, or another instrument for one.
LEMMA StoreRowKeeps ==
    ASSUME StoreInv, NEW id \in Ids, NEW s \in Instruments, StoreRow(id, s) PROVE StoreInv'
<1>1. registry \subseteq Instruments \X Ids /\ registry' = registry /\ torn \subseteq Ids
  BY DEF StoreInv, StoreTypeOK, StoreRow
<1>2. torn' = torn
  BY DEF StoreRow
<1>3. id \notin torn => RunningOn(id) = IF id \in Deployed THEN {rows[id].symbol} ELSE {}
  BY DEF StoreInv, RunsIffDeployed
<1>4. CASE Stored(id)
  <2> DEFINE old == rows[id]
             row == [instrument |-> s, deployed |-> old.deployed, symbol |-> old.symbol]
  <2>1. old \in Rows
    BY <1>4 DEF StoreInv, StoreTypeOK, Stored
  <2>2. row \in Rows /\ ChangesRow(id, row)
    BY <1>4, <2>1, RowFacts, RowMoved DEF StoreRow, ChangesRow, StoreInv, StoreTypeOK
  <2>3. row # NoRow /\ row.deployed = old.deployed /\ row.symbol = old.symbol /\ row.instrument = s
    BY <2>2, RowFacts
  <2>4. old.deployed <=> old.symbol # NoSymbol
    BY <1>4 DEF StoreInv, RowsAgree
  <2>5. id \in Deployed <=> old.deployed
    BY <1>4 DEF Deployed
  <2> HIDE DEF row, old
  <2>6. GoodRow(row)
    BY <2>3, <2>4 DEF GoodRow, old
  <2>7. GoodRun(id, row)
    BY <1>1, <1>2, <1>3, <2>3, <2>5 DEF GoodRun, RunningOn, old
  <2> QED
    BY <1>1, <1>2, <2>2, <2>6, <2>7, RowChange
<1>5. CASE ~Stored(id)
  <2> DEFINE row == [instrument |-> s, deployed |-> FALSE, symbol |-> NoSymbol]
  <2>1. row \in Rows /\ ChangesRow(id, row)
    BY <1>5, RowFacts DEF StoreRow, ChangesRow
  <2>2. row # NoRow /\ row.deployed = FALSE /\ row.symbol = NoSymbol
    BY <2>1, RowFacts
  <2>3. id \notin Deployed
    BY <1>5 DEF Deployed
  <2> HIDE DEF row
  <2>4. GoodRow(row)
    BY <2>2 DEF GoodRow
  <2>5. GoodRun(id, row)
    BY <1>1, <1>2, <1>3, <1>5, <2>2, <2>3 DEF GoodRun, RunningOn
  <2> QED
    BY <1>1, <1>2, <2>1, <2>4, <2>5, RowChange
<1> QED
  BY <1>4, <1>5

LEMMA DeployRowKeeps ==
    ASSUME StoreInv, NEW id \in Ids, NEW commits \in BOOLEAN, DeployRow(id, commits)
    PROVE  StoreInv'
<1> DEFINE old == rows[id]
           s == old.instrument
<1>1. old \in Rows /\ Stored(id) /\ s \in Instruments /\ rows[id] = old
  BY RowFacts DEF StoreInv, StoreTypeOK, DeployRow, Stored
<1>2. /\ registry' = registry \cup {<<s, id>>} /\ registry \subseteq Instruments \X Ids
      /\ torn' = IF commits /\ RunningOn(id) \subseteq {s} THEN torn \ {id}
                 ELSE torn \cup {id}
  BY DEF DeployRow, StoreInv, StoreTypeOK
<1>3. /\ registry' \subseteq Instruments \X Ids
      /\ torn' \subseteq Ids /\ \A i \in Ids \ {id} : i \in torn' <=> i \in torn
  BY <1>1, <1>2 DEF StoreInv, StoreTypeOK
<1>4. old.deployed <=> old.symbol # NoSymbol
  BY <1>1 DEF StoreInv, RowsAgree
<1>6. CASE commits
  <2> DEFINE row == [instrument |-> s, deployed |-> TRUE, symbol |-> s]
  <2>1. row \in Rows
    BY <1>1, RowFacts
  <2>2. ChangesRow(id, row)
    <3>1. rows' = [rows EXCEPT ![id].deployed = TRUE, ![id].symbol = s]
      BY <1>6 DEF DeployRow
    <3>2. rows' = [rows EXCEPT ![id] = [old EXCEPT !.deployed = TRUE, !.symbol = s]]
      BY <3>1 DEF StoreInv, StoreTypeOK
    <3> QED
      BY <1>1, <3>2, RowSwitched DEF ChangesRow
  <2>3. row # NoRow /\ row.deployed = TRUE /\ row.symbol = s /\ row.instrument = s
    BY <2>1, RowFacts
  <2> HIDE DEF row, s
  <2>4. GoodRow(row)
    BY <1>1, <2>3, StoreAssumption DEF GoodRow
  <2>5. id \notin torn' => \A x \in Instruments : <<x, id>> \in registry => x = s
    BY <1>2, <1>6 DEF RunningOn
  <2>6. GoodRun(id, row)
    BY <1>2, <2>3, <2>5 DEF GoodRun
  <2> QED
    BY <1>2, <1>3, <2>1, <2>2, <2>4, <2>6, RowChange
<1>7. CASE ~commits
  <2>1. ChangesRow(id, old)
    BY <1>7 DEF DeployRow, ChangesRow, StoreInv, StoreTypeOK
  <2>2. id \in torn'
    BY <1>2, <1>7
  <2>3. GoodRow(old) /\ GoodRun(id, old)
    BY <1>4, <2>2 DEF GoodRow, GoodRun
  <2> QED
    BY <1>1, <1>2, <1>3, <2>1, <2>3, RowChange
<1> QED
  BY <1>6, <1>7

\* The two routes that end a strategy leave nothing running, unless it was torn.
LEMMA EndRowKeeps ==
    ASSUME StoreInv, NEW id \in Ids, NEW commits \in BOOLEAN,
           NEW row \in Rows \cup {NoRow},
           row # NoRow => row.deployed = FALSE /\ row.symbol = NoSymbol,
           EndRow(id, commits, row)
    PROVE  StoreInv'
<1> DEFINE old == rows[id]
           clean == RunningOn(id) \subseteq {old.symbol}
<1>1. /\ old \in Rows /\ rows[id] = old
      /\ registry' = IF old.symbol = NoSymbol THEN registry ELSE registry \ {<<old.symbol, id>>}
      /\ torn' = IF commits /\ clean THEN torn \ {id} ELSE IF commits THEN torn ELSE torn \cup {id}
      /\ rows' = IF commits THEN [rows EXCEPT ![id] = row] ELSE rows
  BY DEF StoreInv, StoreTypeOK, EndRow, UnregisterRow, Stored
<1>2. old.deployed <=> old.symbol # NoSymbol
  BY DEF StoreInv, RowsAgree, EndRow
<1>3. id \notin torn => RunningOn(id) = IF old.deployed THEN {old.symbol} ELSE {}
  BY DEF StoreInv, RunsIffDeployed, Deployed, EndRow
<1>4. /\ registry' \subseteq Instruments \X Ids
      /\ \A s \in Instruments, i \in Ids \ {id} :
            <<s, i>> \in registry' <=> <<s, i>> \in registry
      /\ torn' \subseteq Ids /\ \A i \in Ids \ {id} : i \in torn' <=> i \in torn
  BY <1>1 DEF StoreInv, StoreTypeOK
<1>5. id \notin torn => clean
  BY <1>3
<1>6. clean => \A s \in Instruments : <<s, id>> \notin registry'
  BY <1>1, StoreAssumption DEF RunningOn
<1> HIDE DEF clean
<1>7. CASE commits
  <2>1. ChangesRow(id, row)
    BY <1>1, <1>7 DEF ChangesRow
  <2>2. GoodRow(row)
    BY DEF GoodRow
  <2>3. id \notin torn' => \A s \in Instruments : <<s, id>> \notin registry'
    BY <1>1, <1>5, <1>6, <1>7
  <2>4. row # NoRow => row.deployed = FALSE
    OBVIOUS
  <2>5. GoodRun(id, row)
    BY <2>3, <2>4 DEF GoodRun
  <2> QED
    BY <1>4, <2>1, <2>2, <2>5, RowChange
<1>8. CASE ~commits
  <2>1. ChangesRow(id, old)
    BY <1>1, <1>8 DEF ChangesRow, StoreInv, StoreTypeOK
  <2>2. id \in torn'
    BY <1>1, <1>8
  <2>3. GoodRow(old) /\ GoodRun(id, old)
    BY <1>2, <2>2 DEF GoodRow, GoodRun
  <2> QED
    BY <1>1, <1>4, <2>1, <2>3, RowChange
<1> QED
  BY <1>7, <1>8

LEMMA UndeployRowKeeps ==
    ASSUME StoreInv, NEW id \in Ids, NEW commits \in BOOLEAN, UndeployRow(id, commits)
    PROVE  StoreInv'
<1> DEFINE old == rows[id]
           new == [old EXCEPT !.deployed = FALSE, !.symbol = NoSymbol]
           row == [instrument |-> old.instrument, deployed |-> FALSE, symbol |-> NoSymbol]
<1>1. old \in Rows
  BY DEF StoreInv, StoreTypeOK, UndeployRow, EndRow, Stored
<1>2. new = row
  BY <1>1, RowSwitched
<1>3. row \in Rows
  BY <1>1, RowFacts
<1>4. row.deployed = FALSE /\ row.symbol = NoSymbol
  OBVIOUS
<1>5. EndRow(id, commits, new)
  BY DEF UndeployRow
<1> HIDE DEF row, new, old
<1> QED
  BY <1>2, <1>3, <1>4, <1>5, EndRowKeeps

LEMMA DeleteRowKeeps ==
    ASSUME StoreInv, NEW id \in Ids, NEW commits \in BOOLEAN, DeleteRow(id, commits)
    PROVE  StoreInv'
  BY EndRowKeeps DEF DeleteRow

-----------------------------------------------------------------------------
(* A restart, which needs no more than the types and where rows run.        *)

\* What the restored table says of a row.
LEMMA RestoredRow ==
    ASSUME StoreTypeOK, RestoreRows, NEW id \in Ids
    PROVE  /\ rows'[id] \in Rows \cup {NoRow}
           /\ rows'[id] # NoRow <=> rows[id] # NoRow
           /\ rows[id] # NoRow => /\ rows'[id].deployed = rows[id].deployed
                                  /\ rows'[id].instrument = rows[id].instrument
                                  /\ rows'[id].symbol = IF rows[id].deployed THEN rows[id].instrument
                                                        ELSE rows[id].symbol
<1> DEFINE old == rows[id]
<1>1. old \in Rows \cup {NoRow}
  BY DEF StoreTypeOK
<1>2. id \in Deployed <=> old # NoRow /\ old.deployed
  BY DEF Deployed, Stored
<1>3. rows'[id] = IF id \in Deployed THEN [old EXCEPT !.symbol = old.instrument] ELSE old
  BY DEF RestoreRows
<1>4. CASE id \in Deployed
  <2> DEFINE new == [instrument |-> old.instrument, deployed |-> old.deployed, symbol |-> old.instrument]
  <2>1. old \in Rows
    BY <1>1, <1>2, <1>4
  <2>2. rows'[id] = new /\ new \in Rows
    BY <1>3, <1>4, <2>1, RowFacts, RowRestarted
  <2>3. new # NoRow
    BY <2>2, RowFacts
  <2> QED
    BY <1>2, <1>4, <2>2, <2>3
<1>5. CASE id \notin Deployed
  <2>1. rows'[id] = old
    BY <1>3, <1>5
  <2> QED
    BY <1>1, <1>2, <1>5, <2>1
<1> QED
  BY <1>4, <1>5

LEMMA RestoreRowsRepairs ==
    ASSUME StoreTypeOK, RowsAgree, RestoreRows PROVE StoreInv'
<1>1. StoreTypeOK'
  <2>1. rows' \in [Ids -> Rows \cup {NoRow}]
    <3>1. rows' = [id \in Ids |-> rows'[id]]
      BY DEF RestoreRows
    <3>2. \A id \in Ids : rows'[id] \in Rows \cup {NoRow}
      BY RestoredRow
    <3> QED
      BY <3>1, <3>2
  <2>2. registry' \subseteq Instruments \X Ids
    BY RowFacts DEF RestoreRows, RoutesOf, Deployed, Stored, StoreTypeOK
  <2>3. torn' \subseteq Ids
    BY DEF RestoreRows
  <2> QED
    BY <2>1, <2>2, <2>3 DEF StoreTypeOK
<1>2. RowsAgree'
  <2> SUFFICES ASSUME NEW id \in Ids, rows'[id] # NoRow
               PROVE  rows'[id].deployed <=> rows'[id].symbol # NoSymbol
    BY DEF RowsAgree, Stored
  <2>1. /\ rows[id] # NoRow /\ rows'[id].deployed = rows[id].deployed
        /\ rows'[id].instrument = rows[id].instrument
        /\ rows'[id].symbol = IF rows[id].deployed THEN rows[id].instrument ELSE rows[id].symbol
    BY RestoredRow
  <2>2. rows[id].deployed <=> rows[id].symbol # NoSymbol
    BY <2>1 DEF RowsAgree, Stored
  <2>3. rows[id].instrument # NoSymbol
    BY <2>1, RowFacts, StoreAssumption DEF StoreTypeOK
  <2> QED
    BY <2>1, <2>2, <2>3
<1>3. RunsIffDeployed'
  <2> SUFFICES ASSUME NEW id \in Ids
               PROVE  RunningOn(id)' = IF id \in Deployed' THEN {rows'[id].symbol} ELSE {}
    BY DEF RunsIffDeployed
  <2>1. id \in Deployed' <=> id \in Deployed
    BY RestoredRow DEF Deployed, Stored
  <2>2. id \in Deployed => rows'[id].symbol = rows[id].instrument
                           /\ rows[id].instrument \in Instruments
    BY RestoredRow, RowFacts DEF Deployed, Stored, StoreTypeOK
  <2>3. registry' = {<<rows[i].instrument, i>> : i \in Deployed}
    BY DEF RestoreRows, RoutesOf
  <2>4. \A y : <<y, id>> \in registry' <=> id \in Deployed /\ y = rows[id].instrument
    BY <2>3
  <2>5. RunningOn(id)' = {y \in Instruments : <<y, id>> \in registry'}
    BY DEF RunningOn
  <2> QED
    BY <2>1, <2>2, <2>4, <2>5
<1> QED
  BY <1>1, <1>2, <1>3 DEF StoreInv

\* A restore that is skipped half-way leaves the table, and marks what it missed.
LEMMA RestoreSkipsKeeps ==
    ASSUME StoreTypeOK, RowsAgree, NEW R \in SUBSET Ids, RestoreSkips(R) PROVE StoreInv'
<1>1. /\ rows' = rows /\ R \subseteq Deployed
      /\ registry' = {<<rows[i].instrument, i>> : i \in R}
      /\ torn' = (Deployed \ R) \cup {i \in R : rows[i].symbol # rows[i].instrument}
  BY DEF RestoreSkips, RoutesOf
<1>2. \A i \in R : rows[i].instrument \in Instruments
  BY <1>1, RowFacts DEF Deployed, Stored, StoreTypeOK
<1>3. StoreTypeOK'
  <2>1. registry' \subseteq Instruments \X Ids
    BY <1>1, <1>2
  <2>2. torn' \subseteq Ids
    BY <1>1 DEF Deployed
  <2> QED
    BY <1>1, <2>1, <2>2 DEF StoreTypeOK
<1>4. RowsAgree'
  BY <1>1 DEF RowsAgree, Stored
<1>5. RunsIffDeployed'
  <2> SUFFICES ASSUME NEW id \in Ids \ torn'
               PROVE  RunningOn(id)' = IF id \in Deployed' THEN {rows'[id].symbol} ELSE {}
    BY DEF RunsIffDeployed
  <2>1. Deployed' = Deployed
    BY <1>1 DEF Deployed, Stored
  <2>2. id \in Deployed <=> id \in R
    BY <1>1
  <2>3. id \in R => rows[id].symbol = rows[id].instrument
    BY <1>1
  <2>4. \A y : <<y, id>> \in registry' <=> id \in R /\ y = rows[id].instrument
    BY <1>1
  <2>5. RunningOn(id)' = {y \in Instruments : <<y, id>> \in registry'}
    BY DEF RunningOn
  <2> QED
    BY <1>1, <1>2, <2>1, <2>2, <2>3, <2>4, <2>5
<1> QED
  BY <1>3, <1>4, <1>5 DEF StoreInv
=============================================================================
