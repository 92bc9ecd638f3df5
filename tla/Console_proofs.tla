--------------------------- MODULE Console_proofs ---------------------------
(***************************************************************************)
(* The pages of the console, for any number of tabs, keys, requests,       *)
(* strategies, rules, effects and countdowns: what each page promises on   *)
(* its own, and that the console, where the operator goes from page to     *)
(* page, implements each of them.                                          *)
(***************************************************************************)
EXTENDS MCConsole, StrategyStore_proofs, ManualOrders_proofs

-----------------------------------------------------------------------------
(* The access gate *)

\* A tab that verifies a key is locked, and it verifies one key.
VerifyingIsLocked ==
    \A r \in requests : r.kind = "verify" =>
        /\ ~unlocked[r.tab]
        /\ \A q \in requests : q.kind = "verify" /\ q.tab = r.tab => q = r

\* A key that is being verified is stored, unless an answer crossed the check.
VerifiedKeyIsStored ==
    stored = NoKey => \A r \in requests : r.kind = "verify" => r.tab \in crossed

AccessInv ==
    /\ AccessTypeOK
    /\ VerifyingIsLocked
    /\ VerifiedKeyIsStored
    /\ UnlockedHasKey

LEMMA AccessInvInit == AccessInit => AccessInv
<1> SUFFICES ASSUME AccessInit PROVE AccessInv
  OBVIOUS
<1>1. AccessTypeOK
  <2>1. [t \in Tabs |-> stored # NoKey] \in [Tabs -> BOOLEAN]
    BY Zenon
  <2>2. unlocked \in [Tabs -> BOOLEAN]
    BY <2>1, Zenon DEF AccessInit
  <2>3. rotations \in 0..MaxRotations
    BY AccessAssumption DEF AccessInit
  <2> QED
    BY <2>2, <2>3 DEF AccessInit, AccessTypeOK
<1>2. VerifyingIsLocked /\ VerifiedKeyIsStored
  BY DEF AccessInit, VerifyingIsLocked, VerifiedKeyIsStored
<1>3. \A t \in Tabs : unlocked[t] = (stored # NoKey)
  BY DEF AccessInit
<1>4. UnlockedHasKey
  BY <1>3, Zenon DEF UnlockedHasKey
<1> QED
  BY <1>1, <1>2, <1>4 DEF AccessInv

USE DEF AccessInv, AccessTypeOK, VerifyingIsLocked, VerifiedKeyIsStored, UnlockedHasKey

\* The gate's form: a new key, and one check of it.
LEMMA UnlockKeeps ==
    ASSUME AccessInv, NEW t \in Tabs, NEW k \in Keys, Unlock(t, k)
    PROVE  AccessInv'
<1> USE AccessAssumption DEF Unlock
<1> DEFINE new == Sent(t, k, "verify")
<1>1. new \in Requests /\ new.kind = "verify" /\ new.tab = t
  BY DEF Sent, Requests
<1>2. AccessTypeOK'
  BY <1>1
<1>3. requests' = requests \cup {new} /\ UNCHANGED unlocked
  OBVIOUS
<1>4. \A q \in requests : q.kind = "verify" => q.tab # t
  BY DEF Verifying
<1>5. VerifyingIsLocked'
  BY <1>1, <1>3, <1>4
<1>6. stored' # NoKey
  OBVIOUS
<1> QED
  BY <1>2, <1>5, <1>6

\* A page's request changes no check and no key.
LEMMA SendKeeps ==
    ASSUME AccessInv, NEW t \in Tabs, NEW kind \in {"poll", "admin"}, SendRequest(t, kind)
    PROVE  AccessInv'
<1> USE AccessAssumption DEF SendRequest
<1> DEFINE new == Sent(t, stored, kind)
<1>1. new \in Requests /\ new.kind # "verify"
  BY DEF Sent, Requests
<1>2. requests' = requests \cup {new}
      /\ UNCHANGED <<stored, unlocked, serverKey, rotations, crossed>>
  OBVIOUS
<1>3. AccessTypeOK'
  BY <1>1, <1>2
<1>4. VerifyingIsLocked' /\ VerifiedKeyIsStored' /\ UnlockedHasKey'
  BY <1>1, <1>2
<1> QED
  BY <1>3, <1>4

\* An answer on its way changes the status of its request only.
LEMMA AnswerKeeps ==
    ASSUME AccessInv, NEW r \in requests,
           NEW status \in {"ok", "denied", "failed"}, AnsweredWith(r, status)
    PROVE  AccessInv'
<1> DEFINE answered == [r EXCEPT !.status = status]
<1>1. r \in Requests
  OBVIOUS
<1>2. answered \in Requests /\ answered.kind = r.kind /\ answered.tab = r.tab
  BY <1>1 DEF Requests
<1>3. requests' = (requests \ {r}) \cup {answered}
      /\ UNCHANGED <<stored, unlocked, serverKey, rotations, crossed>>
  BY DEF AnsweredWith
<1>4. AccessTypeOK'
  BY <1>2, <1>3
<1>5. VerifyingIsLocked'
  <2> SUFFICES ASSUME NEW p \in requests', p.kind = "verify"
               PROVE  /\ ~unlocked[p.tab]
                      /\ \A q \in requests' : q.kind = "verify" /\ q.tab = p.tab => q = p
    BY <1>3
  <2>1. CASE p = answered
    <3>1. r.kind = "verify" /\ p.tab = r.tab
      BY <1>2, <2>1
    <3>2. \A q \in requests \ {r} : ~(q.kind = "verify" /\ q.tab = r.tab)
      BY <3>1
    <3> QED
      BY <1>3, <2>1, <3>1, <3>2
  <2>2. CASE p \in requests \ {r}
    <3>1. ~(answered.kind = "verify" /\ answered.tab = p.tab)
      BY <1>2, <2>2
    <3> HIDE DEF answered
    <3> QED
      BY <1>3, <2>2, <3>1
  <2> QED
    BY <1>3, <2>1, <2>2
<1>6. VerifiedKeyIsStored' /\ UnlockedHasKey'
  BY <1>2, <1>3
<1> QED
  BY <1>4, <1>5, <1>6

\* An answer arrives: what it clears, it clears knowing whom it crosses.
LEMMA DeliverKeeps ==
    ASSUME AccessInv, NEW r \in requests, Deliver(r)
    PROVE  AccessInv'
<1> USE DEF Deliver
<1>1. r \in Requests /\ r.tab \in Tabs
  BY DEF Requests
<1>2. /\ requests' = requests \ {r}
      /\ stored' = IF Clears(r) THEN NoKey ELSE stored
      /\ crossed' = IF Clears(r) THEN crossed \cup Crosses(r) ELSE crossed
      /\ UNCHANGED <<serverKey, rotations>>
  OBVIOUS
<1>3. /\ unlocked' \in [Tabs -> BOOLEAN]
      /\ \A t \in Tabs \ {r.tab} : unlocked'[t] = unlocked[t]
      /\ unlocked'[r.tab] <=> \/ unlocked[r.tab] /\ r.status # "denied"
                              \/ r.kind = "verify" /\ r.status = "ok"
  BY <1>1
<1>4. crossed' \subseteq Tabs /\ crossed \subseteq crossed'
  BY <1>2 DEF Crosses
<1>5. AccessTypeOK'
  BY <1>2, <1>3, <1>4
<1>6. \A q \in requests' : q \in requests /\ q # r /\ q.tab \in Tabs
  BY <1>2 DEF Requests
<1>7. VerifyingIsLocked'
  <2> SUFFICES ASSUME NEW q \in requests', q.kind = "verify"
               PROVE  ~unlocked'[q.tab]
    BY <1>6
  <2>1. ~unlocked[q.tab]
    BY <1>6
  <2>2. CASE q.tab # r.tab
    BY <1>3, <1>6, <2>1, <2>2
  <2>3. CASE q.tab = r.tab
    <3>1. r.kind # "verify"
      BY <1>6, <2>3
    <3> QED
      BY <1>3, <2>1, <2>3, <3>1
  <2> QED
    BY <2>2, <2>3
<1>8. CASE Clears(r)
  <2>1. Crosses(r) \subseteq crossed'
    BY <1>2, <1>8
  <2>2. VerifiedKeyIsStored'
    <3>1. ASSUME NEW q \in requests', q.kind = "verify" PROVE q.tab \in crossed'
      BY <1>6, <2>1, <3>1 DEF Crosses
    <3> QED
      BY <3>1
  <2>3. ~unlocked'[r.tab]
    BY <1>3, <1>8 DEF Clears
  <2>4. ASSUME NEW t \in Tabs, unlocked'[t] PROVE t \in crossed'
    <3>1. t # r.tab /\ unlocked[t]
      BY <1>3, <2>3, <2>4
    <3> QED
      BY <2>1, <3>1 DEF Crosses
  <2> QED
    BY <1>5, <1>7, <2>2, <2>4
<1>9. CASE ~Clears(r)
  <2>1. stored' = stored
    BY <1>2, <1>9
  <2>2. VerifiedKeyIsStored'
    BY <1>4, <1>6, <2>1
  <2>3. ASSUME NEW t \in Tabs, unlocked'[t], stored' = NoKey PROVE t \in crossed'
    <3>1. CASE unlocked[t]
      BY <1>4, <2>1, <2>3, <3>1
    <3>2. CASE ~unlocked[t]
      <4>1. r.kind = "verify" /\ t = r.tab
        BY <1>3, <2>3, <3>2
      <4> QED
        BY <1>4, <2>1, <2>3, <4>1
    <3> QED
      BY <3>1, <3>2
  <2> QED
    BY <1>5, <1>7, <2>2, <2>3
<1> QED
  BY <1>8, <1>9

\* One step of the gate keeps the invariant.
LEMMA AccessInvNext == AccessInv /\ [AccessNext]_accessVars => AccessInv'
<1> SUFFICES ASSUME AccessInv, [AccessNext]_accessVars PROVE AccessInv'
  OBVIOUS
<1>1. ASSUME NEW t \in Tabs, NEW k \in Keys, Unlock(t, k) PROVE AccessInv'
  BY <1>1, UnlockKeeps
<1>2. ASSUME NEW t \in Tabs, NEW kind \in {"poll", "admin"}, SendRequest(t, kind)
      PROVE  AccessInv'
  BY <1>2, SendKeeps
<1>3. ASSUME NEW r \in requests, Serve(r) PROVE AccessInv'
  <2>1. PICK status \in Statuses(r) : AnsweredWith(r, status)
    BY <1>3 DEF Serve
  <2>2. status \in {"ok", "denied", "failed"}
    BY <2>1 DEF Statuses
  <2> QED
    BY <2>1, <2>2, AnswerKeeps
<1>4. ASSUME NEW r \in requests, ServeFails(r) PROVE AccessInv'
  BY <1>4, AnswerKeeps DEF ServeFails
<1>5. ASSUME NEW r \in requests, Deliver(r) PROVE AccessInv'
  BY <1>5, DeliverKeeps
<1>6. ASSUME NEW t \in Tabs, Reload(t) PROVE AccessInv'
  <2>1. \A q \in requests' : q \in requests /\ q.tab # t /\ q.tab \in Tabs
    BY <1>6 DEF Reload, Requests
  <2>2. /\ unlocked' \in [Tabs -> BOOLEAN]
        /\ unlocked'[t] <=> stored # NoKey
        /\ \A u \in Tabs \ {t} : unlocked'[u] = unlocked[u]
    BY <1>6 DEF Reload
  <2>3. UNCHANGED <<stored, serverKey, rotations>> /\ crossed' = crossed \ {t}
    BY <1>6 DEF Reload
  <2>4. AccessTypeOK' /\ VerifyingIsLocked'
    BY <2>1, <2>2, <2>3
  <2>5. VerifiedKeyIsStored' /\ UnlockedHasKey'
    BY <2>1, <2>2, <2>3
  <2> QED
    BY <2>4, <2>5
<1>7. CASE RotateKey
  BY <1>7, AccessAssumption DEF RotateKey
<1>8. CASE UNCHANGED accessVars
  BY <1>8 DEF accessVars
<1> QED
  BY <1>1, <1>2, <1>3, <1>4, <1>5, <1>6, <1>7, <1>8 DEF AccessNext

\* In every reachable state the gate keeps its types, and a check under way stands
\* for its tab and for the stored key.  About App.jsx:1400-1463.
THEOREM AccessInvariance == AccessSpec => []AccessInv
  BY AccessInvInit, AccessInvNext, PTL DEF AccessSpec

\* However late the 401s arrive, a tab is unlocked without a key only if the answer to
\* another request cleared the key under it or under its check, and none was stored since.
\* About appAccess.js:44-47.
THEOREM UnlockedTabsHaveKeys == AccessSpec => []UnlockedHasKey
<1>1. AccessInv => UnlockedHasKey
  OBVIOUS
<1> QED
  BY <1>1, AccessInvariance, PTL

HIDE DEF AccessInv, AccessTypeOK, VerifyingIsLocked, VerifiedKeyIsStored, UnlockedHasKey

-----------------------------------------------------------------------------
(* The risk rules and their delayed commit *)

\* While the button counts, what is left and what has passed make the delay.
Countdown == stage = "confirming" => timeLeft >= 1 /\ waited + timeLeft = Delay

\* Short of trouble one commit at most is under way, that of the last form; what its
\* answered POSTs say is stored, and when it is over both halves are.
OneForm ==
    ~troubled =>
        /\ \A c \in Commits : commits[c] # NoCommit =>
              /\ commits[c].rules = lastRules
              /\ commits[c].watch # "none"
              /\ \A i \in 1..2 : \/ commits[c].post[i] = "sent"
                                 \/ commits[c].post[i] = "ok" /\ serverRules[i] = lastRules[i]
              /\ \A d \in Commits : commits[d] # NoCommit => d = c
        /\ RulesTogether

RiskInv == RiskTypeOK /\ Countdown /\ OneForm

\* Rules with one half of other rules are rules.
LEMMA HalfReplaced ==
    \A r, s \in RuleSets, i \in 1..2 : [r EXCEPT ![i] = s[i]] \in RuleSets
  BY DEF RuleSets

\* Rules whose two halves agree are the same; a new base or cap makes other rules.
LEMMA HalvesMakeRules ==
    /\ \A r, s \in RuleSets : (\A i \in 1..2 : r[i] = s[i]) => r = s
    /\ \A r \in RuleSets, b \in Bases : [r EXCEPT ![1] = b] \in RuleSets
    /\ \A r \in RuleSets, c \in Caps : [r EXCEPT ![2] = c] \in RuleSets
<1>1. \A r, s \in RuleSets : (\A i \in 1..2 : r[i] = s[i]) => r = s
  BY DEF RuleSets
<1>2. \A r \in RuleSets, b \in Bases : [r EXCEPT ![1] = b] \in RuleSets
  BY DEF RuleSets
<1>3. \A r \in RuleSets, c \in Caps : [r EXCEPT ![2] = c] \in RuleSets
  BY DEF RuleSets
<1> QED
  BY <1>1, <1>2, <1>3

\* Who watches a commit is independent of the rest of it.
LEMMA WatchIsApart ==
    \A m \in CommitRecords, w \in {"button", "page", "none"} :
        LET n == [m EXCEPT !.watch = w]
        IN  /\ n \in CommitRecords
            /\ n.rules = m.rules /\ n.post = m.post /\ n.watch = w
  BY DEF CommitRecords

LEMMA RiskInvInit == RiskInit => RiskInv
<1> SUFFICES ASSUME RiskInit PROVE RiskInv
  OBVIOUS
<1> USE RiskAssumption DEF RiskInit
<1>1. params \in RuleSets
  BY DEF RuleSets
<1>2. timeLeft \in 0..Delay /\ waited \in 0..Delay
  OBVIOUS
<1>3. commits \in [Commits -> {NoCommit} \cup CommitRecords]
  OBVIOUS
<1>4. RiskTypeOK
  BY <1>1, <1>2, <1>3 DEF RiskTypeOK
<1>5. Countdown /\ OneForm
  BY DEF Countdown, OneForm, RulesTogether
<1> QED
  BY <1>4, <1>5 DEF RiskInv

USE DEF RiskInv, RiskTypeOK, Countdown, OneForm, RulesTogether, Committing

\* The button and the result card change nothing that was committed.
LEMMA UnwatchedCommits ==
    ASSUME RiskInv, commits' = Unwatched(commits),
           UNCHANGED <<serverRules, lastRules, troubled>>
    PROVE  commits' \in [Commits -> {NoCommit} \cup CommitRecords] /\ OneForm'
<1>1. \A c \in Commits :
          \/ commits'[c] = commits[c]
          \/ commits[c] \in CommitRecords /\ commits'[c] = [commits[c] EXCEPT !.watch = "page"]
  BY DEF Unwatched
<1>2. DOMAIN commits' = Commits /\ commits' = [c \in Commits |-> commits'[c]]
  BY DEF Unwatched
<1>3. \A c \in Commits :
          /\ commits'[c] \in {NoCommit} \cup CommitRecords
          /\ commits'[c] = NoCommit <=> commits[c] = NoCommit
          /\ commits[c] # NoCommit => /\ commits'[c].rules = commits[c].rules
                                      /\ commits'[c].post = commits[c].post
                                      /\ commits'[c].watch \in {commits[c].watch, "page"}
  <2> SUFFICES ASSUME NEW c \in Commits
               PROVE  /\ commits'[c] \in {NoCommit} \cup CommitRecords
                      /\ commits'[c] = NoCommit <=> commits[c] = NoCommit
                      /\ commits[c] # NoCommit =>
                            /\ commits'[c].rules = commits[c].rules
                            /\ commits'[c].post = commits[c].post
                            /\ commits'[c].watch \in {commits[c].watch, "page"}
    OBVIOUS
  <2>1. CASE commits'[c] = commits[c]
    BY <2>1
  <2>2. CASE commits[c] \in CommitRecords /\ commits'[c] = [commits[c] EXCEPT !.watch = "page"]
    <3> DEFINE m == commits[c]
               n == [m EXCEPT !.watch = "page"]
    <3>1. n \in CommitRecords /\ n.rules = m.rules /\ n.post = m.post /\ n.watch = "page"
      BY <2>2, WatchIsApart
    <3> HIDE DEF n
    <3>2. commits'[c] = n
      BY <2>2 DEF n
    <3> QED
      BY <2>2, <3>1, <3>2, RiskAssumption
  <2> QED
    BY <1>1, <2>1, <2>2
<1>4. commits' \in [Commits -> {NoCommit} \cup CommitRecords]
  BY <1>2, <1>3
<1>5. OneForm'
  BY <1>3
<1> QED
  BY <1>4, <1>5

\* The last second commits the form.
LEMMA ExecuteKeeps ==
    ASSUME RiskInv, NEW c \in Commits, TickExecutes(c)
    PROVE  RiskInv'
<1> USE RiskAssumption DEF TickExecutes
<1> DEFINE new == [rules |-> params, post |-> <<"sent", "sent">>, watch |-> "button"]
<1>1. /\ new \in CommitRecords
      /\ new.rules = params /\ new.watch = "button"
      /\ \A i \in 1..2 : new.post[i] = "sent"
  BY DEF CommitRecords, PostStates
<1> HIDE DEF new
<1>2. commits' = [commits EXCEPT ![c] = new] /\ lastRules' = params
  BY DEF new
<1>3. RiskTypeOK'
  BY <1>1, <1>2
<1>4. Countdown'
  OBVIOUS
<1>5. OneForm'
  <2> SUFFICES ASSUME ~troubled' PROVE OneForm'
    OBVIOUS
  <2>1. Committing = {}
    OBVIOUS
  <2>2. \A d \in Commits : commits'[d] # NoCommit => d = c
    BY <1>2, <2>1
  <2>3. commits'[c] = new /\ commits'[c] # NoCommit
    BY <1>1, <1>2
  <2> QED
    BY <1>1, <1>2, <2>2, <2>3
<1> QED
  BY <1>3, <1>4, <1>5

\* What an answer makes of its commit.
LEMMA AnsweredCommit ==
    ASSUME RiskInv, NEW c \in Commits, NEW i \in 1..2, PostOpen(c, i),
           NEW answer \in {"ok", "refused", "lost"}, PostAnswered(c, i, answer)
    PROVE  /\ commits' \in [Commits -> {NoCommit} \cup CommitRecords]
           /\ \A d \in Commits \ {c} : commits'[d] = commits[d]
           /\ ~troubled => /\ commits'[c] # NoCommit
                           /\ commits'[c].rules = commits[c].rules
                           /\ commits'[c].watch = commits[c].watch
                           /\ commits'[c].post[i] = answer
                           /\ \A k \in 1..2 \ {i} : commits'[c].post[k] = commits[c].post[k]
<1> USE RiskAssumption
<1> DEFINE answered == [commits[c] EXCEPT !.post[i] = answer]
           over == answered.watch = "none" /\ \A k \in 1..2 : answered.post[k] # "sent"
<1>1. commits[c] \in CommitRecords
  BY DEF PostOpen
<1>2. /\ answered \in CommitRecords
      /\ answered.rules = commits[c].rules /\ answered.watch = commits[c].watch
      /\ answered.post[i] = answer
      /\ \A k \in 1..2 \ {i} : answered.post[k] = commits[c].post[k]
  BY <1>1 DEF CommitRecords, PostStates
<1>3. commits' = [commits EXCEPT ![c] = IF over THEN NoCommit ELSE answered]
  BY DEF PostAnswered
<1>4. ~troubled => ~over
  BY <1>2 DEF PostOpen
<1> HIDE DEF answered, over
<1>5. commits' \in [Commits -> {NoCommit} \cup CommitRecords]
  BY <1>2, <1>3
<1>6. ~troubled => commits'[c] = answered /\ answered # NoCommit
  BY <1>2, <1>3, <1>4
<1> QED
  BY <1>2, <1>3, <1>5, <1>6

\* A route stores its half of the one form.
LEMMA StoreKeeps ==
    ASSUME RiskInv, NEW c \in Commits, NEW i \in 1..2, RouteStores(c, i)
    PROVE  RiskInv'
<1> USE DEF RouteStores
<1>1. /\ commits' \in [Commits -> {NoCommit} \cup CommitRecords]
      /\ \A d \in Commits \ {c} : commits'[d] = commits[d]
      /\ ~troubled => /\ commits'[c] # NoCommit
                      /\ commits'[c].rules = commits[c].rules
                      /\ commits'[c].watch = commits[c].watch
                      /\ commits'[c].post[i] = "ok"
                      /\ \A k \in 1..2 \ {i} : commits'[c].post[k] = commits[c].post[k]
  BY AnsweredCommit
<1>2. commits[c] \in CommitRecords /\ commits[c].rules \in RuleSets
  BY DEF PostOpen, CommitRecords
<1>3. /\ serverRules' \in RuleSets
      /\ serverRules'[i] = commits[c].rules[i]
      /\ \A k \in 1..2 \ {i} : serverRules'[k] = serverRules[k]
  <2>1. serverRules' = [serverRules EXCEPT ![i] = commits[c].rules[i]]
    OBVIOUS
  <2>2. serverRules' \in RuleSets
    <3>1. serverRules \in RuleSets
      OBVIOUS
    <3>2. [serverRules EXCEPT ![i] = commits[c].rules[i]] \in RuleSets
      BY <1>2, <3>1, HalfReplaced, Zenon
    <3> QED
      BY <2>1, <3>2
  <2> QED
    BY <2>1, <2>2, <1>2 DEF RuleSets
<1>4. RiskTypeOK' /\ Countdown'
  BY <1>1, <1>3
<1>5. OneForm'
  <2> SUFFICES ASSUME ~troubled PROVE OneForm'
    OBVIOUS
  <2>1. commits[c] # NoCommit /\ commits[c].rules = lastRules /\ commits[c].watch # "none"
    BY DEF PostOpen
  <2>2. \A d \in Commits : commits'[d] # NoCommit => d = c
    BY <1>1, <2>1
  <2>3. \A k \in 1..2 : \/ commits'[c].post[k] = "sent"
                        \/ commits'[c].post[k] = "ok" /\ serverRules'[k] = lastRules[k]
    BY <1>1, <1>3, <2>1
  <2> QED
    BY <1>1, <2>1, <2>2, <2>3
<1> QED
  BY <1>4, <1>5

\* Both answers are there: the commit is over, and both halves are stored.
LEMMA SuccessKeeps ==
    ASSUME RiskInv, NEW c \in Commits, ApplySucceeds(c)
    PROVE  RiskInv'
<1> USE RiskAssumption DEF ApplySucceeds
<1> DEFINE left == [commits EXCEPT ![c] = NoCommit]
<1>1. \A d \in Commits :
          \/ commits'[d] = left[d]
          \/ left[d] \in CommitRecords /\ commits'[d] = [left[d] EXCEPT !.watch = "page"]
  BY DEF Unwatched
<1>2. commits' = [d \in Commits |-> commits'[d]]
  BY DEF Unwatched
<1>3. \A d \in Commits : left[d] \in {NoCommit} \cup CommitRecords
  OBVIOUS
<1>4. \A d \in Commits : commits'[d] \in {NoCommit} \cup CommitRecords
  <2> SUFFICES ASSUME NEW d \in Commits PROVE commits'[d] \in {NoCommit} \cup CommitRecords
    OBVIOUS
  <2>1. CASE left[d] \in CommitRecords /\ commits'[d] = [left[d] EXCEPT !.watch = "page"]
    <3> DEFINE n == [left[d] EXCEPT !.watch = "page"]
    <3>1. n \in CommitRecords
      BY <2>1, WatchIsApart, Zenon
    <3>2. commits'[d] = n
      BY <2>1
    <3> HIDE DEF n
    <3> QED
      BY <3>1, <3>2
  <2> QED
    BY <1>1, <1>3, <2>1
<1>5. commits' \in [Commits -> {NoCommit} \cup CommitRecords]
  BY <1>2, <1>4
<1>6. RiskTypeOK' /\ Countdown'
  <2>1. stage' = "idle" /\ timeLeft' \in 0..Delay /\ waited' \in 0..Delay
    BY DEF ButtonUnmounts
  <2> QED
    BY <1>5, <2>1
<1>7. OneForm'
  <2> SUFFICES ASSUME ~troubled PROVE OneForm'
    OBVIOUS
  <2>1. /\ commits[c] # NoCommit /\ commits[c].rules = lastRules
        /\ \A i \in 1..2 : serverRules[i] = lastRules[i]
        /\ \A d \in Commits : commits[d] # NoCommit => d = c
    OBVIOUS
  <2>2. lastRules \in RuleSets
    BY <2>1 DEF CommitRecords
  <2>3. serverRules = lastRules
    BY <2>1, <2>2, HalvesMakeRules
  <2>4. \A d \in Commits : left[d] = NoCommit
    BY <2>1
  <2>5. \A d \in Commits : commits'[d] = NoCommit
    BY <2>4 DEF Unwatched
  <2> QED
    BY <2>3, <2>5
<1> QED
  BY <1>6, <1>7

\* An answer is missing: there was trouble, and the commit is left to its own.
LEMMA FailureKeeps ==
    ASSUME RiskInv, NEW c \in Commits, ApplyFails(c)
    PROVE  RiskInv'
<1> USE RiskAssumption DEF ApplyFails
<1>1. commits[c] \in CommitRecords /\ troubled
  OBVIOUS
<1>2. [commits[c] EXCEPT !.watch = "none"] \in CommitRecords
  BY <1>1 DEF CommitRecords
<1>3. commits' \in [Commits -> {NoCommit} \cup CommitRecords]
  BY <1>1, <1>2
<1> QED
  BY <1>1, <1>3

\* One step of the desk keeps the invariant.
LEMMA RiskInvNext == RiskInv /\ [RiskNext]_riskVars => RiskInv'
<1> SUFFICES ASSUME RiskInv, [RiskNext]_riskVars PROVE RiskInv'
  OBVIOUS
<1> USE RiskAssumption
<1>1. ASSUME NEW b \in Bases, EditParam(1, b) PROVE RiskInv'
  <2>1. params' \in RuleSets
    BY <1>1, HalvesMakeRules DEF EditParam
  <2> QED
    BY <1>1, <2>1 DEF EditParam
<1>2. ASSUME NEW c \in Caps, EditParam(2, c) PROVE RiskInv'
  <2>1. params' \in RuleSets
    BY <1>2, HalvesMakeRules DEF EditParam
  <2> QED
    BY <1>2, <2>1 DEF EditParam
<1>3. CASE SendRiskPoll
  <2>1. serverRules[1] \in Bases
    BY DEF RuleSets
  <2> QED
    BY <1>3, <2>1 DEF SendRiskPoll
<1>4. CASE RiskPollArrives
  <2>1. params' \in RuleSets
    BY <1>4 DEF RiskPollArrives, Written, RuleSets
  <2> QED
    BY <1>4, <2>1 DEF RiskPollArrives
<1>5. CASE RiskPollFails
  <2>1. params' \in RuleSets
    BY <1>5 DEF RiskPollFails, Written, RuleSets
  <2> QED
    BY <1>5, <2>1 DEF RiskPollFails
<1>6. CASE Simulate
  <2>1. commits' \in [Commits -> {NoCommit} \cup CommitRecords] /\ OneForm'
    BY <1>6, UnwatchedCommits DEF Simulate
  <2>2. stage' = "idle" /\ timeLeft' \in 0..Delay /\ waited' \in 0..Delay
    BY <1>6 DEF Simulate, ButtonUnmounts
  <2>3. RiskTypeOK' /\ Countdown'
    BY <1>6, <2>1, <2>2 DEF Simulate
  <2> QED
    BY <2>1, <2>3
<1>7. ASSUME NEW shows \in BOOLEAN, SimulationEnds(shows) PROVE RiskInv'
  <2>1. projection' \in BOOLEAN
    BY <1>7, Zenon DEF SimulationEnds
  <2> QED
    BY <1>7, <2>1 DEF SimulationEnds
<1>8. CASE InitiateAction
  BY <1>8 DEF InitiateAction
<1>9. CASE CancelAction
  BY <1>9 DEF CancelAction
<1>10. CASE ButtonTick
  BY <1>10 DEF ButtonTick
<1>11. ASSUME NEW c \in Commits, TickExecutes(c) PROVE RiskInv'
  BY <1>11, ExecuteKeeps
<1>12. ASSUME NEW c \in Commits, NEW i \in 1..2, RouteStores(c, i) PROVE RiskInv'
  BY <1>12, StoreKeeps
<1>13. ASSUME NEW c \in Commits, NEW i \in 1..2, NEW how \in {"refused", "lost"},
              RouteFails(c, i, how)
       PROVE  RiskInv'
  <2>1. commits' \in [Commits -> {NoCommit} \cup CommitRecords]
    BY <1>13, AnsweredCommit DEF RouteFails
  <2> QED
    BY <1>13, <2>1 DEF RouteFails
<1>14. ASSUME NEW c \in Commits, ApplySucceeds(c) PROVE RiskInv'
  BY <1>14, SuccessKeeps
<1>15. ASSUME NEW c \in Commits, ApplyFails(c) PROVE RiskInv'
  BY <1>15, FailureKeeps
<1>16. CASE ConfirmedEnds
  BY <1>16 DEF ConfirmedEnds
<1>17. CASE UNCHANGED riskVars
  BY <1>17 DEF riskVars
<1> QED
  BY <1>1, <1>2, <1>3, <1>4, <1>5, <1>6, <1>7, <1>8, <1>9, <1>10, <1>11, <1>12, <1>13,
     <1>14, <1>15, <1>16, <1>17 DEF RiskNext

\* In every reachable state the desk keeps its types, the countdown its sum, and a
\* commit its one form.  About RiskControlPanel.jsx:92-119 and FrictionAction.jsx.
THEOREM RiskInvariance == RiskSpec => []RiskInv
  BY RiskInvInit, RiskInvNext, PTL DEF RiskSpec

\* After a commit that began alone, of which no POST failed, the backend has both halves of the
\* last form committed.  About RiskControlPanel.jsx:92-119.
THEOREM HalvesStayTogether == RiskSpec => []RulesTogether
<1>1. RiskInv => RulesTogether
  <2> SUFFICES ASSUME RiskInv, ~troubled PROVE RulesTogether
    OBVIOUS
  <2> QED
    OBVIOUS
<1> QED
  BY <1>1, RiskInvariance, PTL

\* No commit leaves the page before its whole countdown has passed, for any delay
\* and any cancelled, failed or hidden countdown before.  About FrictionAction.jsx:34-63.
THEOREM NoShorterDelay == RiskSpec => DelayIsServed
<1> DEFINE InFull == \A c \in Commits : commits[c] = NoCommit /\ commits'[c] # NoCommit
                                            => waited' = Delay
<1>1. ASSUME RiskInv, [RiskNext]_riskVars PROVE [InFull]_riskVars
  <2> SUFFICES ASSUME NEW c \in Commits, commits[c] = NoCommit, commits'[c] # NoCommit
               PROVE  waited' = Delay
    OBVIOUS
  <2> USE RiskAssumption
  <2>1. ASSUME NEW d \in Commits, TickExecutes(d) PROVE waited' = Delay
    BY <1>1, <2>1 DEF TickExecutes
  <2>2. ASSUME NEW d \in Commits, NEW i \in 1..2, PostOpen(d, i),
               NEW answer \in {"ok", "refused", "lost"}, PostAnswered(d, i, answer)
        PROVE  FALSE
    BY <2>2 DEF PostOpen, PostAnswered
  <2>3. ~Simulate
    BY DEF Simulate, Unwatched
  <2>4. ASSUME NEW d \in Commits, ApplySucceeds(d) PROVE FALSE
    BY <2>4 DEF ApplySucceeds, Unwatched
  <2>5. ASSUME NEW d \in Commits, ApplyFails(d) PROVE FALSE
    BY <2>5 DEF ApplyFails
  <2>6. commits' # commits
    OBVIOUS
  <2> QED
    BY <1>1, <2>1, <2>2, <2>3, <2>4, <2>5, <2>6
    DEF RiskNext, riskVars, EditParam, SendRiskPoll, RiskPollArrives, RiskPollFails,
        SimulationEnds, InitiateAction, CancelAction, ButtonTick, RouteStores,
        RouteFails, ConfirmedEnds
<1> QED
  BY <1>1, RiskInvariance, PTL DEF RiskSpec, DelayIsServed

HIDE DEF RiskInv, RiskTypeOK, Countdown, OneForm, RulesTogether, Committing

-----------------------------------------------------------------------------
(* The simulator's stream *)

\* The page that is mounted is the one whose cleanup has not run; a timer is set only
\* while its effect has no socket.
LiveInv ==
    /\ LiveTypeOK
    /\ \A e \in Effects : closed[e] <=> e # mountedAs
    /\ \A e \in Effects : retryTimer[e] => socket[e] = "none"
    /\ \A e \in Effects :
          socket[e] \in {"connecting", "open"} \/ retryTimer[e] <=> e = mountedAs
    /\ connected <=> mountedAs # NoEffect /\ socket[mountedAs] = "open"

LEMMA LiveInvNext == ASSUME LiveInv, [LiveNext]_liveVars PROVE LiveInv'
<1> USE LiveAssumption DEF LiveInv, LiveTypeOK
<1>1. ASSUME NEW e \in Effects, MountStream(e) PROVE LiveInv'
  BY <1>1 DEF MountStream
<1>2. CASE UnmountStream
  <2>1. mountedAs \in Effects
    BY <1>2 DEF UnmountStream
  <2>2. /\ closed' = [closed EXCEPT ![mountedAs] = TRUE]
        /\ retryTimer' = [retryTimer EXCEPT ![mountedAs] = FALSE]
        /\ mountedAs' = NoEffect /\ connected' = FALSE
    BY <1>2 DEF UnmountStream
  <2>3. /\ socket' \in [Effects -> {"none", "connecting", "open", "closing"}]
        /\ \A e \in Effects \ {mountedAs} : socket'[e] = socket[e]
        /\ socket'[mountedAs] \in {"none", "closing"}
    BY <1>2, <2>1 DEF UnmountStream
  <2>4. closed' \in [Effects -> BOOLEAN] /\ retryTimer' \in [Effects -> BOOLEAN]
    BY <2>1, <2>2
  <2>5. \A e \in Effects : closed'[e]
    BY <2>1, <2>2
  <2>6. \A e \in Effects : ~retryTimer'[e] /\ socket'[e] \notin {"connecting", "open"}
    BY <2>1, <2>2, <2>3
  <2> QED
    BY <2>2, <2>3, <2>4, <2>5, <2>6
<1>3. ASSUME NEW e \in Effects, SocketOpens(e) PROVE LiveInv'
  <2>1. /\ socket[e] = "connecting" /\ e = mountedAs
        /\ socket' = [socket EXCEPT ![e] = "open"]
        /\ UNCHANGED <<mountedAs, retryTimer, closed>>
    BY <1>3 DEF SocketOpens
  <2>2. connected' = TRUE
    BY <1>3, <2>1, Zenon DEF SocketOpens
  <2> QED
    BY <2>1, <2>2
<1>4. ASSUME NEW e \in Effects, SocketCloses(e) PROVE LiveInv'
  <2>1. /\ socket[e] # "none"
        /\ socket' = [socket EXCEPT ![e] = "none"]
        /\ UNCHANGED <<mountedAs, closed>>
    BY <1>4 DEF SocketCloses
  <2>2. /\ retryTimer' \in [Effects -> BOOLEAN]
        /\ \A d \in Effects \ {e} : retryTimer'[d] = retryTimer[d]
        /\ retryTimer'[e] <=> ~closed[e]
    <3>1. retryTimer' = [retryTimer EXCEPT ![e] = ~closed[e]]
      BY <1>4 DEF SocketCloses
    <3> QED
      BY <3>1
  <2>3. connected' \in BOOLEAN /\ (connected' <=> connected /\ mountedAs # e)
    <3>1. connected' = (connected /\ mountedAs # e)
      BY <1>4 DEF SocketCloses
    <3> QED
      BY <3>1, Zenon
  <2>4. LiveTypeOK'
    BY <2>1, <2>2, <2>3
  <2> QED
    BY <2>1, <2>2, <2>3, <2>4
<1>5. ASSUME NEW e \in Effects, RetryFires(e) PROVE LiveInv'
  BY <1>5 DEF RetryFires
<1>6. CASE UNCHANGED liveVars
  BY <1>6 DEF liveVars
<1> QED
  BY <1>1, <1>2, <1>3, <1>4, <1>5, <1>6 DEF LiveNext

\* In every reachable state a mounted page and its one socket or timer belong together.
\* About App.jsx:1082-1119.
THEOREM LiveInvariance == LiveSpec => []LiveInv
<1>1. LiveInit => LiveInv
  BY LiveAssumption DEF LiveInit, LiveInv, LiveTypeOK
<1> QED
  BY <1>1, LiveInvNext, PTL DEF LiveSpec

\* At most one socket streams or is going to, that of the mounted page, for any number
\* of sockets still ending.  About App.jsx:1082-1119.
THEOREM OnePageStreams == LiveSpec => []OneStreamOfThePage
<1>1. LiveInv => OneStreamOfThePage
  BY LiveAssumption DEF LiveInv, LiveTypeOK, OneStreamOfThePage
<1> QED
  BY <1>1, LiveInvariance, PTL

-----------------------------------------------------------------------------
(* The backtest page *)

\* A run under way has cleared what the one before it showed.
LabInv ==
    /\ LabTypeOK
    /\ labRun # "no" => ~hasRun /\ simStats = NoResult /\ labRuns \in 1..MaxRuns
    /\ hasRun => simData = simStats
    /\ RunsStayApart

LEMMA LabInvNext == ASSUME LabInv, [LabNext]_labVars PROVE LabInv'
<1> USE LabAssumption DEF LabInv, LabTypeOK, RunsStayApart
<1>0. NoResult \in RunResults /\ \A n \in 1..MaxRuns : n \in RunResults
  BY DEF RunResults
<1>1. ASSUME NEW enabled \in BOOLEAN, NEW some \in BOOLEAN, LoadArrives(enabled, some)
      PROVE  LabInv'
  BY <1>1 DEF LoadArrives
<1>2. CASE LoadFails
  BY <1>2 DEF LoadFails
<1>3. ASSUME NEW s \in Strategies \cup {NoStrategy}, Choose(s) \/ ShellChooses(s)
      PROVE  LabInv'
  BY <1>3 DEF Choose, ShellChooses
<1>4. CASE RunSimulation
  <2>1. labRuns' \in 1..MaxRuns
    BY <1>4 DEF RunSimulation, MayRun
  <2>2. labRuns' \in 0..MaxRuns
    BY <2>1
  <2>3. /\ saves' = saves /\ simData' = NoResult /\ simStats' = NoResult
        /\ hasRun' = FALSE /\ labRun' = "run"
    BY <1>4 DEF RunSimulation
  <2>4. LabTypeOK'
    BY <1>0, <1>4, <2>2, <2>3 DEF RunSimulation
  <2> QED
    BY <2>1, <2>3, <2>4
<1>5. CASE RunSucceeds
  BY <1>0, <1>5 DEF RunSucceeds
<1>6. ASSUME NEW disabled \in BOOLEAN, RunRefused(disabled) PROVE LabInv'
  <2>1. backtestEnabled' \in BOOLEAN
    BY <1>6, Zenon DEF RunRefused
  <2> QED
    BY <1>6, <2>1 DEF RunRefused
<1>7. CASE FallbackArrives
  BY <1>0, <1>7 DEF FallbackArrives
<1>8. CASE RunFails \/ ShellRunFails
  BY <1>0, <1>8 DEF RunFails, ShellRunFails
<1>9. CASE Save
  BY <1>9 DEF Save
<1>10. CASE SaveEnds
  BY <1>10 DEF SaveEnds
<1>11. CASE UNCHANGED labVars
  BY <1>11 DEF labVars
<1> QED
  BY <1>1, <1>2, <1>3, <1>4, <1>5, <1>6, <1>7, <1>8, <1>9, <1>10, <1>11 DEF LabNext

\* In every reachable state of the page the curve and the statistics of a finished run
\* are the same run's.  About BacktestLab.jsx:65-143.
THEOREM LabInvariance == LabSpec => []LabInv
<1>1. LabInit => LabInv
  <2>1. NoResult \in RunResults /\ 0 \in 0..MaxRuns
    BY LabAssumption DEF RunResults
  <2>2. <<NoResult, NoResult>> \in (RunResults \cup {Overview}) \X RunResults
    BY <2>1
  <2>3. LabInit => LabTypeOK
    BY <2>1, <2>2 DEF LabInit, LabTypeOK
  <2> QED
    BY <2>1, <2>2, <2>3 DEF LabInit, LabInv, RunsStayApart
<1> QED
  BY <1>1, LabInvNext, PTL DEF LabSpec

\* What is shown and what is saved is never mixed from two runs, for any number of runs.
\* About BacktestLab.jsx:65-143 and 328-362.
THEOREM RunsNeverMix == LabSpec => []RunsStayApart
<1>1. LabInv => RunsStayApart
  BY DEF LabInv
<1> QED
  BY <1>1, LabInvariance, PTL

-----------------------------------------------------------------------------
(* The review of the limits *)

\* During a countdown what was reviewed is what is pending, and the seconds add up.
LimitInv ==
    /\ LimitTypeOK
    /\ isConfirming => /\ pendingParams # NotPending
                       /\ reviewed = pendingParams
                       /\ countdown + reviewedFor = ReviewDelay

LEMMA LimitChanged ==
    \A p \in LimitSets, i \in 1..2, value \in Limits : [p EXCEPT ![i] = value] \in LimitSets
  BY DEF LimitSets

LEMMA LimitInvNext == ASSUME LimitInv, [LimitNext]_limitVars PROVE LimitInv'
<1> USE LimitAssumption DEF LimitInv, LimitTypeOK
<1>1. ASSUME NEW value \in Limits, LiveLimitsArrive(value) PROVE LimitInv'
  BY <1>1 DEF LiveLimitsArrive, LimitSets
<1>2. CASE LiveLimitsFail
  BY <1>2 DEF LiveLimitsFail
<1>3. ASSUME NEW i \in 1..2, NEW value \in Limits, HandleChange(i, value) PROVE LimitInv'
  <2> DEFINE old == IF pendingParams = NotPending THEN limits ELSE pendingParams
  <2>1. old \in LimitSets
    OBVIOUS
  <2>2. [old EXCEPT ![i] = value] \in LimitSets
    BY <2>1, LimitChanged
  <2>3. pendingParams' = [old EXCEPT ![i] = value]
        /\ UNCHANGED <<limits, isConfirming, countdown, liveDue, reviewed, reviewedFor>>
        /\ ~isConfirming
    BY <1>3 DEF HandleChange
  <2> HIDE DEF old
  <2> QED
    BY <2>2, <2>3
<1>4. CASE HandleApply
  BY <1>4 DEF HandleApply
<1>5. CASE CancelApply
  <2>1. 0 \in 0..ReviewDelay
    OBVIOUS
  <2> QED
    BY <1>5, <2>1 DEF CancelApply
<1>6. CASE CountdownTick
  BY <1>6 DEF CountdownTick
<1>7. CASE CountdownApplies
  BY <1>7 DEF CountdownApplies
<1>8. CASE UNCHANGED limitVars
  BY <1>8 DEF limitVars
<1> QED
  BY <1>1, <1>2, <1>3, <1>4, <1>5, <1>6, <1>7, <1>8 DEF LimitNext

\* In every reachable state a countdown is that of the set that was reviewed.
\* About RiskControl.jsx:23-80.
THEOREM LimitInvariance == LimitSpec => []LimitInv
<1>1. LimitInit => LimitInv
  <2>1. <<DefaultLimit, DefaultLimit>> \in LimitSets /\ 0 \in 0..ReviewDelay
    BY LimitAssumption DEF LimitSets
  <2> QED
    BY <2>1 DEF LimitInit, LimitInv, LimitTypeOK
<1> QED
  BY <1>1, LimitInvNext, PTL DEF LimitSpec

\* Limits change only to what was reviewed, after the whole review, or by the backend's
\* first answer, for any limits and any delay.  About RiskControl.jsx:23-80 and 99-127.
THEOREM ReviewsAreKept == LimitSpec => AppliedAsReviewed
<1> DEFINE Kept == limits' # limits => \/ liveDue /\ ~liveDue'
                                       \/ limits' = reviewed /\ reviewedFor = ReviewDelay
<1>1. ASSUME LimitInv, [LimitNext]_limitVars PROVE [Kept]_limitVars
  BY <1>1, LimitAssumption
  DEF LimitInv, LimitTypeOK, LimitNext, limitVars, LiveLimitsArrive, LiveLimitsFail,
      HandleChange, HandleApply, CancelApply, CountdownTick, CountdownApplies
<1> QED
  BY <1>1, LimitInvariance, PTL DEF LimitSpec, AppliedAsReviewed

-----------------------------------------------------------------------------
(* The two cooldowns *)

\* While a cooldown runs, what is left and what has passed make its length; the
\* overlay's counts from its reset timer on.
GuardInv ==
    /\ GuardTypeOK
    /\ overrideState = "COOLDOWN" => reason /\ cooldown >= 1 /\ cooldown + reflected = Cooldown
    /\ overlayTicking /\ ~resetDue =>
          overlayLeft >= 1 /\ overlayLeft + overlayEndured = cooldownSeconds
    /\ resetDue => overlayTicking /\ overlayEndured = 0
    /\ completed => ~overlayTicking
    /\ NoShortcut

LEMMA LongestIsBound ==
    /\ Longest \in Nat
    /\ \A n \in Lengths : n \in Nat /\ n >= 1 /\ n <= Longest
<1>1. \E n \in Lengths : \A m \in Lengths : m <= n
  BY GuardAssumption
<1>2. Longest \in Lengths /\ \A m \in Lengths : m <= Longest
  BY <1>1, Zenon DEF Longest
<1> QED
  BY <1>2, GuardAssumption

LEMMA GuardInvInit == GuardInit => GuardInv
<1> SUFFICES ASSUME GuardInit PROVE GuardInv
  OBVIOUS
<1>1. Cooldown \in 0..Cooldown /\ 0 \in 0..Cooldown /\ 0 \in 0..Longest
      /\ cooldownSeconds \in 0..Longest
  BY GuardAssumption, LongestIsBound DEF GuardInit
<1> QED
  BY <1>1 DEF GuardInit, GuardInv, GuardTypeOK, NoShortcut

LEMMA GuardInvNext == ASSUME GuardInv, [GuardNext]_guardVars PROVE GuardInv'
<1> USE GuardAssumption, LongestIsBound
    DEF GuardInv, GuardTypeOK, NoShortcut, bypassVars, overlayVars
<1>1. CASE EditReason
  BY <1>1 DEF EditReason
<1>2. CASE RequestOverride
  BY <1>2 DEF RequestOverride
<1>3. CASE CancelOverride
  BY <1>3 DEF CancelOverride
<1>4. CASE CooldownTick
  BY <1>4 DEF CooldownTick
<1>5. CASE ParentTriggers \/ ParentReleases \/ ParentChanges
  <2>1. /\ isTriggered' \in BOOLEAN /\ cooldownSeconds' \in Lengths
        /\ UNCHANGED <<overlayLeft, bypassVars>>
        /\ EffectRuns
    BY <1>5 DEF ParentTriggers, ParentReleases, ParentChanges
  <2>2. /\ overlayTicking' = isTriggered' /\ resetDue' = isTriggered'
        /\ overlayEndured' = 0 /\ completed' = FALSE
    BY <2>1 DEF EffectRuns
  <2>3. overlayTicking' \in BOOLEAN /\ resetDue' \in BOOLEAN
        /\ (resetDue' => overlayTicking') /\ (overlayTicking' => resetDue')
    BY <2>1, <2>2
  <2>4. 0 \in 0..Longest
    OBVIOUS
  <2>5. GuardTypeOK'
    BY <2>1, <2>2, <2>3, <2>4
  <2> QED
    BY <2>1, <2>2, <2>3, <2>5
<1>8. CASE ResetTimer
  <2>1. /\ resetDue /\ resetDue' = FALSE /\ overlayLeft' = cooldownSeconds
        /\ UNCHANGED <<isTriggered, cooldownSeconds, overlayTicking, overlayEndured,
                       completed, bypassVars>>
    BY <1>8 DEF ResetTimer
  <2>2. overlayLeft' \in 0..Longest /\ overlayLeft' >= 1
    BY <2>1
  <2>3. GuardTypeOK'
    BY <2>1, <2>2
  <2>4. overlayLeft' + overlayEndured' = cooldownSeconds'
    BY <2>1
  <2> QED
    BY <2>1, <2>2, <2>3, <2>4
<1>9. CASE OverlayTick
  BY <1>9 DEF OverlayTick
<1>10. CASE UNCHANGED guardVars
  BY <1>10 DEF guardVars
<1> QED
  BY <1>1, <1>2, <1>3, <1>4, <1>5, <1>8, <1>9, <1>10 DEF GuardNext

\* In every reachable state a running cooldown adds up to its length.
\* About EmotionGuard.jsx:10-37 and EmotionGuardOverlay.jsx:8-32.
THEOREM GuardInvariance == GuardSpec => []GuardInv
  BY GuardInvInit, GuardInvNext, PTL DEF GuardSpec

\* Neither cooldown is cut short, whatever its length and whatever was aborted or
\* changed before.  About EmotionGuard.jsx:10-37 and EmotionGuardOverlay.jsx:8-32.
THEOREM CooldownsAreServed == GuardSpec => []NoShortcut
<1>1. GuardInv => NoShortcut
  BY DEF GuardInv
<1> QED
  BY <1>1, GuardInvariance, PTL

-----------------------------------------------------------------------------
(* The strategies on display *)

\* "Syncing" stands for a list in flight; a desk whose last call began alone has one
\* call at most, and only that call can part the list from the table.
DeskInv ==
    /\ StoreInv
    /\ DeskTypeOK
    /\ strategyBusy => \E c \in Slots : ~Idle(c) /\ calls[c].op = "list"
    /\ ~overlapped =>
          /\ \A c, d \in Slots : ~Idle(c) /\ ~Idle(d) => c = d
          /\ \A c \in Slots :
                ~Idle(c) /\ calls[c].op = "list" /\ calls[c].status = "ok"
                   => calls[c].list = View
          /\ (\A c \in Slots : Idle(c)) /\ ~strategyError => myStrategies = View

\* What a call is, and what an answer makes of it.
LEMMA CallFacts ==
    \A call \in Calls :
        /\ call # NoCall
        /\ call.op \in Posts \/ call.op = "list"
        /\ call.op \in Posts => call.id \in Ids
        /\ call.op = "list" => call.list \in [Ids -> Shown]
  BY DeskAssumption DEF Calls, Posts

LEMMA PostIsNoList == "list" \notin Posts
  BY DEF Posts

LEMMA CallAnswered ==
    ASSUME NEW call \in Calls, NEW status \in {"sent", "ok", "error"}
    PROVE  /\ [call EXCEPT !.status = status] \in Calls
           /\ [call EXCEPT !.status = status].op = call.op
           /\ [call EXCEPT !.status = status].status = status
           /\ call.op = "list" => [call EXCEPT !.status = status].list = call.list
  BY DEF Calls, Posts

LEMMA ListAnswered ==
    ASSUME NEW call \in Calls, call.op = "list", NEW list \in [Ids -> Shown]
    PROVE  /\ [call EXCEPT !.status = "ok", !.list = list] \in Calls
           /\ [call EXCEPT !.status = "ok", !.list = list].op = "list"
           /\ [call EXCEPT !.status = "ok", !.list = list].list = list
<1> DEFINE new == [call EXCEPT !.status = "ok", !.list = list]
<1>1. call \in [op : {"list"}, status : {"sent", "ok", "error"}, list : [Ids -> Shown]]
  BY DEF Calls, Posts
<1>2. DOMAIN call = {"op", "status", "list"}
      /\ call = [x \in {"op", "status", "list"} |-> call[x]]
  BY <1>1
<1>3. new = [x \in {"op", "status", "list"} |->
                IF x = "list" THEN list ELSE IF x = "status" THEN "ok" ELSE call[x]]
  BY <1>2
<1>4. new.op = "list" /\ new.status = "ok" /\ new.list = list
  BY <1>3
<1>5. new \in [op : {"list"}, status : {"sent", "ok", "error"}, list : [Ids -> Shown]]
  BY <1>3
<1> QED
  BY <1>4, <1>5 DEF Calls

LEMMA ListCallIsCall ==
    /\ ListCall \in Calls
    /\ ListCall.op = "list" /\ ListCall.status = "sent"
<1>1. Nothing \in [Ids -> Shown]
  BY DEF Nothing, Shown
<1> QED
  BY <1>1 DEF ListCall, Calls

LEMMA ViewIsShown == View \in [Ids -> Shown]
  BY DEF View, Shown

\* Restoring changes nothing that is on display.
LEMMA RestoredView == StoreTypeOK /\ RestoreRows => View' = View
<1> SUFFICES ASSUME StoreTypeOK, RestoreRows PROVE View' = View
  OBVIOUS
<1>1. ASSUME NEW id \in Ids
      PROVE  /\ Stored(id)' <=> Stored(id)
             /\ Stored(id) => rows'[id].deployed = rows[id].deployed
  BY RestoredRow DEF Stored
<1> QED
  BY <1>1 DEF View

LEMMA HandleKeeps ==
    ASSUME StoreInv, NEW call \in Calls, call.op \in Posts, NEW stores \in BOOLEAN,
           Handle(call, stores)
    PROVE  StoreInv'
<1>1. call.id \in Ids
  BY CallFacts
<1>2. CASE call.op = "deploy"
  BY <1>1, <1>2, DeployRowKeeps DEF Handle
<1>3. CASE call.op = "undeploy"
  BY <1>1, <1>3, UndeployRowKeeps DEF Handle
<1>4. CASE call.op # "deploy" /\ call.op # "undeploy"
  BY <1>1, <1>4, StoreRowKeeps DEF Handle
<1> QED
  BY <1>2, <1>3, <1>4

LEMMA StoreStays == ASSUME UNCHANGED storeVars PROVE View' = View /\ (StoreInv => StoreInv')
<1>1. UNCHANGED <<rows, registry, torn>>
  BY DEF storeVars
<1> QED
  BY <1>1 DEF View, Stored, StoreInv, StoreTypeOK, RowsAgree, RunsIffDeployed, Deployed,
              RunningOn

\* A call starts: alone, or it overlaps.
LEMMA StartKeeps ==
    ASSUME DeskInv, UNCHANGED storeVars, NEW c \in Slots, NEW call \in Calls, Start(c, call),
           call.status = "sent",
           strategyError' \in BOOLEAN, UNCHANGED myStrategies,
           strategyBusy' \in {strategyBusy, call.op = "list"}
    PROVE  DeskInv'
<1> USE DEF DeskInv
<1>1. StoreInv' /\ View' = View
  BY StoreStays
<1>2. /\ calls' = [calls EXCEPT ![c] = call] /\ Idle(c)
      /\ overlapped' = Overlaps(c)
      /\ call # NoCall
  BY CallFacts DEF Start
<1>3. /\ calls' \in [Slots -> Calls \cup {NoCall}]
      /\ calls'[c] = call
      /\ \A d \in Slots \ {c} : calls'[d] = calls[d]
  BY <1>2 DEF DeskTypeOK
<1>4. overlapped' \in BOOLEAN /\ strategyBusy' \in BOOLEAN
  <2>1. overlapped' \in BOOLEAN
    BY <1>2, Zenon DEF Overlaps
  <2>2. strategyBusy' \in BOOLEAN
    BY DEF DeskTypeOK
  <2> QED
    BY <2>1, <2>2
<1>5. DeskTypeOK'
  BY <1>3, <1>4 DEF DeskTypeOK
<1>6. strategyBusy' => \E d \in Slots : ~Idle(d)' /\ calls'[d].op = "list"
  BY <1>2, <1>3 DEF Idle
<1>7. ASSUME ~overlapped'
      PROVE  \A d \in Slots \ {c} : Idle(d)' /\ Idle(d)
  BY <1>2, <1>3, <1>7 DEF Overlaps, Idle
<1>8. ~Idle(c)' /\ calls'[c].status = "sent"
  BY <1>2, <1>3 DEF Idle
<1> QED
  BY <1>1, <1>5, <1>6, <1>7, <1>8

\* The call of one slot goes on as another one, or ends; no other call is touched.
LEMMA CallGoesOn ==
    ASSUME DeskInv, NEW c \in Slots, ~Idle(c), NEW new \in Calls \cup {NoCall},
           calls' = [calls EXCEPT ![c] = new],
           StoreInv', UNCHANGED overlapped,
           strategyError' \in BOOLEAN, strategyBusy' \in BOOLEAN,
           myStrategies' \in [Ids -> Shown],
           strategyBusy' => \/ new # NoCall /\ new.op = "list"
                            \/ strategyBusy /\ calls[c].op # "list",
           ~overlapped =>
              /\ new # NoCall /\ new.op = "list" /\ new.status = "ok" => new.list = View'
              /\ new = NoCall /\ ~strategyError' => myStrategies' = View'
    PROVE  DeskInv'
<1> USE DEF DeskInv
<1>1. /\ calls' \in [Slots -> Calls \cup {NoCall}]
      /\ calls'[c] = new
      /\ \A d \in Slots \ {c} : calls'[d] = calls[d]
  BY DEF DeskTypeOK
<1>2. DeskTypeOK'
  BY <1>1 DEF DeskTypeOK
<1>3. strategyBusy' => \E d \in Slots : ~Idle(d)' /\ calls'[d].op = "list"
  BY <1>1 DEF Idle
<1>4. ASSUME ~overlapped PROVE \A d \in Slots \ {c} : Idle(d) /\ Idle(d)'
  BY <1>1, <1>4 DEF Idle
<1>5. ASSUME ~overlapped'
      PROVE  \A d, e \in Slots : ~Idle(d)' /\ ~Idle(e)' => d = e
  BY <1>4, <1>5
<1>6. ASSUME ~overlapped', NEW d \in Slots, ~Idle(d)', calls'[d].op = "list",
             calls'[d].status = "ok"
      PROVE  calls'[d].list = View'
  BY <1>1, <1>4, <1>6 DEF Idle
<1>7. ASSUME ~overlapped', \A d \in Slots : Idle(d)', ~strategyError'
      PROVE  myStrategies' = View'
  BY <1>1, <1>7 DEF Idle
<1> QED
  BY <1>2, <1>3, <1>5, <1>6, <1>7

LEMMA RestartKeeps == ASSUME DeskInv, RestartServer PROVE DeskInv'
<1> USE DEF DeskInv
<1>1. StoreInv' /\ View' = View
  <2>1. CASE RestoreRows
    BY <2>1, RestoreRowsRepairs, RestoredView DEF StoreInv
  <2>2. ASSUME NEW R \in SUBSET Ids, RestoreSkips(R) PROVE StoreInv' /\ View' = View
    <3>1. StoreInv'
      BY <2>2, RestoreSkipsKeeps DEF StoreInv
    <3> QED
      BY <2>2, <3>1 DEF RestoreSkips, View, Stored
  <2> QED
    BY <2>1, <2>2 DEF RestartServer
<1>2. UNCHANGED <<myStrategies, strategyError, strategyBusy, overlapped>>
  BY DEF RestartServer
<1>3. calls' = [c \in Slots |-> IF ~Idle(c) /\ calls[c].status = "sent"
                                THEN [calls[c] EXCEPT !.status = "error"] ELSE calls[c]]
  BY DEF RestartServer
<1>4. ASSUME NEW c \in Slots
      PROVE  /\ calls'[c] \in Calls \cup {NoCall}
             /\ Idle(c)' <=> Idle(c)
             /\ ~Idle(c) =>
                   /\ calls'[c].op = calls[c].op
                   /\ calls'[c].status = "ok" => calls'[c] = calls[c]
  <2>1. CASE ~Idle(c) /\ calls[c].status = "sent"
    <3> DEFINE call == calls[c]
               new == [call EXCEPT !.status = "error"]
    <3>1. call \in Calls
      BY <2>1 DEF DeskTypeOK, Idle
    <3>2. new \in Calls /\ new.op = call.op /\ new.status = "error"
      BY <3>1, CallAnswered
    <3>3. new # NoCall
      BY <3>2, CallFacts
    <3>4. calls'[c] = new
      BY <1>3, <2>1
    <3> HIDE DEF new
    <3> QED
      BY <2>1, <3>2, <3>3, <3>4 DEF Idle
  <2>2. CASE ~(~Idle(c) /\ calls[c].status = "sent")
    <3>1. calls'[c] = calls[c]
      BY <1>3, <2>2
    <3> QED
      BY <3>1 DEF Idle, DeskTypeOK
  <2> QED
    BY <2>1, <2>2
<1>5. calls' \in [Slots -> Calls \cup {NoCall}]
  <2>1. calls' = [c \in Slots |-> calls'[c]]
    BY <1>3
  <2> QED
    BY <1>4, <2>1
<1>6. DeskTypeOK'
  BY <1>2, <1>5 DEF DeskTypeOK
<1>7. strategyBusy' => \E c \in Slots : ~Idle(c)' /\ calls'[c].op = "list"
  BY <1>2, <1>4
<1>8. ASSUME ~overlapped', NEW c \in Slots, ~Idle(c)', calls'[c].op = "list",
             calls'[c].status = "ok"
      PROVE  calls'[c].list = View'
  BY <1>1, <1>2, <1>4, <1>8
<1>9. ~overlapped' => /\ \A c, d \in Slots : ~Idle(c)' /\ ~Idle(d)' => c = d
                      /\ (\A c \in Slots : Idle(c)') /\ ~strategyError' => myStrategies' = View'
  BY <1>1, <1>2, <1>4
<1> QED
  BY <1>1, <1>6, <1>7, <1>8, <1>9

\* One step of the desk keeps the invariant.
LEMMA DeskInvNext == ASSUME DeskInv, [DeskNext]_deskVars PROVE DeskInv'
<1>0. /\ StoreInv /\ calls \in [Slots -> Calls \cup {NoCall}]
      /\ myStrategies \in [Ids -> Shown]
      /\ strategyError \in BOOLEAN /\ strategyBusy \in BOOLEAN
  BY DEF DeskInv, DeskTypeOK
<1>c. ASSUME NEW c \in Slots, ~Idle(c) PROVE calls[c] \in Calls
  BY <1>0, <1>c DEF Idle
<1>d. ASSUME NEW c \in Posting PROVE c \in Slots /\ ~Idle(c) /\ calls[c].op \in Posts
  BY DEF Posting
<1>1. ASSUME NEW c \in Slots, NEW op \in {"template", "builder", "deploy", "undeploy"},
             NEW id \in Ids, ClickCreate(c, op, id) \/ ClickDeploy(c, op, id)
      PROVE  DeskInv'
  <2> DEFINE call == [op |-> op, id |-> id, status |-> "sent"]
  <2>1. call \in Calls /\ call.status = "sent"
    BY DEF Calls, Posts
  <2>2. Start(c, call) /\ UNCHANGED <<storeVars, myStrategies, strategyBusy>>
    BY <1>1 DEF ClickCreate, ClickDeploy, Post
  <2>3. strategyError' \in BOOLEAN
    BY <1>0, <1>1 DEF ClickCreate, ClickDeploy
  <2> HIDE DEF call
  <2> QED
    BY <2>1, <2>2, <2>3, StartKeeps
<1>2. ASSUME NEW c \in Slots, ClickRefresh(c) PROVE DeskInv'
  <2>1. /\ Start(c, ListCall) /\ UNCHANGED <<storeVars, myStrategies>>
        /\ strategyBusy' = TRUE /\ strategyError' = FALSE
    BY <1>2 DEF ClickRefresh
  <2>2. strategyBusy' = (ListCall.op = "list")
    BY <2>1, ListCallIsCall
  <2> QED
    BY <2>1, <2>2, ListCallIsCall, StartKeeps
<1>3. ASSUME NEW c \in Slots, NEW status \in {"ok", "error"},
             ServePost(c, status) \/ (CommitFails(c) /\ status = "error")
      PROVE  DeskInv'
  <2> DEFINE call == calls[c]
             new == [call EXCEPT !.status = status]
  <2>1. /\ c \in Posting /\ Answer(c, status)
        /\ \E stores \in BOOLEAN : Handle(call, stores)
        /\ UNCHANGED <<myStrategies, strategyError, strategyBusy, overlapped>>
    BY <1>3 DEF ServePost, CommitFails
  <2>2. call \in Calls /\ ~Idle(c) /\ call.op \in Posts
    BY <1>c, <1>d, <2>1
  <2>3. StoreInv'
    BY <1>0, <2>1, <2>2, HandleKeeps
  <2>4. new \in Calls /\ new.op = call.op
    BY <2>2, CallAnswered
  <2>5. calls' = [calls EXCEPT ![c] = new]
    BY <2>1 DEF Answer
  <2>6. new.op # "list" /\ call.op # "list" /\ new # NoCall
    BY <2>2, <2>4, PostIsNoList, CallFacts
  <2> HIDE DEF new
  <2> QED
    BY <1>0, <2>1, <2>2, <2>3, <2>4, <2>5, <2>6, CallGoesOn
<1>4. ASSUME NEW c \in Slots, CallFails(c) PROVE DeskInv'
  <2> DEFINE call == calls[c]
             new == [call EXCEPT !.status = "error"]
  <2>1. /\ ~Idle(c) /\ Answer(c, "error")
        /\ UNCHANGED <<storeVars, myStrategies, strategyError, strategyBusy, overlapped>>
    BY <1>4 DEF CallFails
  <2>2. call \in Calls
    BY <1>c, <2>1
  <2>3. StoreInv'
    BY <1>0, <2>1, StoreStays
  <2>4. new \in Calls /\ new.op = call.op /\ new.status = "error"
    BY <2>2, CallAnswered
  <2>5. calls' = [calls EXCEPT ![c] = new]
    BY <2>1 DEF Answer
  <2>6. new # NoCall
    BY <2>4, CallFacts
  <2> HIDE DEF new
  <2> QED
    BY <1>0, <2>1, <2>2, <2>3, <2>4, <2>5, <2>6, CallGoesOn
<1>5. ASSUME NEW c \in Slots, ServeList(c) PROVE DeskInv'
  <2> DEFINE call == calls[c]
             new == [call EXCEPT !.status = "ok", !.list = View]
  <2>1. /\ ~Idle(c) /\ call.op = "list"
        /\ calls' = [calls EXCEPT ![c].status = "ok", ![c].list = View]
        /\ UNCHANGED <<storeVars, myStrategies, strategyError, strategyBusy, overlapped>>
    BY <1>5 DEF ServeList
  <2>2. call \in Calls
    BY <1>c, <2>1
  <2>3. StoreInv' /\ View' = View
    BY <1>0, <2>1, StoreStays
  <2>4. new \in Calls /\ new.op = "list" /\ new.list = View
    BY <2>1, <2>2, ListAnswered, ViewIsShown
  <2>5. calls' = [calls EXCEPT ![c] = new]
    BY <1>0, <2>1
  <2>6. new # NoCall
    BY <2>4, CallFacts
  <2> HIDE DEF new
  <2> QED
    BY <1>0, <2>1, <2>2, <2>3, <2>4, <2>5, <2>6, CallGoesOn
<1>6. ASSUME NEW c \in Slots, PostSucceeds(c) PROVE DeskInv'
  <2>1. /\ c \in Posting /\ calls' = [calls EXCEPT ![c] = ListCall]
        /\ strategyBusy' = TRUE /\ strategyError' = FALSE
        /\ UNCHANGED <<storeVars, myStrategies, overlapped>>
    BY <1>6 DEF PostSucceeds
  <2>2. StoreInv'
    BY <1>0, <2>1, StoreStays
  <2>3. ListCall # NoCall
    BY ListCallIsCall, CallFacts
  <2> QED
    BY <1>0, <1>d, <2>1, <2>2, <2>3, ListCallIsCall, CallGoesOn
<1>7. ASSUME NEW c \in Slots, PostFails(c) PROVE DeskInv'
  <2>1. /\ c \in Posting /\ calls' = [calls EXCEPT ![c] = NoCall]
        /\ strategyError' = TRUE
        /\ UNCHANGED <<storeVars, myStrategies, strategyBusy, overlapped>>
    BY <1>7 DEF PostFails
  <2>2. StoreInv'
    BY <1>0, <2>1, StoreStays
  <2>3. calls[c].op # "list"
    BY <1>d, <2>1, PostIsNoList
  <2> QED
    BY <1>0, <1>d, <2>1, <2>2, <2>3, CallGoesOn
<1>8. ASSUME NEW c \in Slots, ListArrives(c) PROVE DeskInv'
  <2>1. /\ ~Idle(c) /\ calls[c].op = "list" /\ calls[c].status \in {"ok", "error"}
        /\ calls' = [calls EXCEPT ![c] = NoCall]
        /\ strategyBusy' = FALSE
        /\ UNCHANGED <<storeVars, overlapped>>
    BY <1>8 DEF ListArrives
  <2>2. StoreInv' /\ View' = View
    BY <1>0, <2>1, StoreStays
  <2>3. calls[c].list \in [Ids -> Shown]
    BY <1>c, <2>1, CallFacts
  <2>4. myStrategies' \in [Ids -> Shown] /\ strategyError' \in BOOLEAN
    BY <1>0, <1>8, <2>3 DEF ListArrives
  <2>5. ~overlapped /\ ~strategyError' => myStrategies' = View'
    BY <1>8, <2>1, <2>2 DEF ListArrives, DeskInv
  <2> QED
    BY <2>1, <2>2, <2>4, <2>5, CallGoesOn
<1>9. CASE RestartServer
  BY <1>9, RestartKeeps
<1>10. CASE UNCHANGED deskVars
  <2>1. UNCHANGED storeVars
        /\ UNCHANGED <<calls, myStrategies, strategyError, strategyBusy, overlapped>>
    BY <1>10 DEF deskVars, storeVars
  <2>2. StoreInv' /\ View' = View
    BY <1>0, <2>1, StoreStays
  <2> QED
    BY <2>1, <2>2 DEF DeskInv, DeskTypeOK, Idle
<1>11. ASSUME NEW c \in Slots, NEW op \in {"template", "builder"}, NEW id \in Ids,
              ClickCreate(c, op, id)
       PROVE  DeskInv'
  BY <1>1, <1>11
<1>12. ASSUME NEW c \in Slots, NEW op \in {"deploy", "undeploy"}, NEW id \in Ids,
              ClickDeploy(c, op, id)
       PROVE  DeskInv'
  BY <1>1, <1>12
<1>13. ASSUME NEW c \in Slots, CommitFails(c) PROVE DeskInv'
  BY <1>3, <1>13
<1>14. ASSUME NEW c \in Slots, NEW status \in {"ok", "error"}, ServePost(c, status)
       PROVE  DeskInv'
  BY <1>3, <1>14
<1> QED
  BY <1>2, <1>4, <1>5, <1>6, <1>7, <1>8, <1>9, <1>10, <1>11, <1>12, <1>13, <1>14
  DEF DeskNext

\* In every reachable state of the desk rows and registry agree, and short of an overlap
\* one call at a time stands between the table and its display.
\* About App.jsx:1217-1233 and 1291-1321.
THEOREM DeskInvariance == DeskSpec => []DeskInv
<1>1. ASSUME DeskInit PROVE DeskInv
  <2>1. StoreInv
    BY <1>1, StoreInitInv DEF DeskInit
  <2>2. PICK d \in Slots : calls = [c \in Slots |-> IF c = d THEN ListCall ELSE NoCall]
    BY <1>1 DEF DeskInit
  <2>3. ListCall \in Calls /\ ListCall # NoCall /\ ListCall.op = "list"
        /\ ListCall.status = "sent"
    BY ListCallIsCall, CallFacts
  <2>4. calls \in [Slots -> Calls \cup {NoCall}]
    BY <2>2, <2>3
  <2>5. DeskTypeOK
    BY <1>1, <2>4 DEF DeskInit, DeskTypeOK, Nothing, Shown
  <2>6. \A c \in Slots : Idle(c) <=> c # d
    BY <2>2, <2>3 DEF Idle
  <2>7. calls[d].op = "list" /\ calls[d].status # "ok"
    BY <2>2, <2>3
  <2> QED
    BY <2>1, <2>5, <2>6, <2>7 DEF DeskInv
<1> QED
  BY <1>1, DeskInvNext, PTL DEF DeskSpec

\* A desk with nothing in flight shows the table, and the strategies it calls deployed
\* are those that run, for any strategies and any number of calls.
\* About App.jsx:1217-1233, 1291-1321 and dashboard.py:305-358.
THEOREM QuietDesksAreTrue == DeskSpec => []QuietDeskIsTrue
<1>1. DeskInv => QuietDeskIsTrue
  BY DEF DeskInv, QuietDeskIsTrue, StoreInv
<1> QED
  BY <1>1, DeskInvariance, PTL

-----------------------------------------------------------------------------
(* The views that poll *)

PollRecords == [status : {"sent", "ok", "error"}, version : 0..MaxVersion]

LEMMA PollFacts ==
    /\ \A r \in PollRecords : r.version \in 0..MaxVersion
    /\ \A r \in PollRecords, status \in {"sent", "ok", "error"} :
          [r EXCEPT !.status = status] \in PollRecords
    /\ \A n \in 0..MaxVersion, status \in {"sent", "ok", "error"} :
          [status |-> status, version |-> n] \in PollRecords
<1>1. \A r \in PollRecords : r.version \in 0..MaxVersion
  BY DEF PollRecords
<1>2. \A r \in PollRecords, status \in {"sent", "ok", "error"} :
          [r EXCEPT !.status = status] \in PollRecords
  BY DEF PollRecords
<1>3. \A n \in 0..MaxVersion, status \in {"sent", "ok", "error"} :
          [status |-> status, version |-> n] \in PollRecords
  BY DEF PollRecords
<1> QED
  BY <1>1, <1>2, <1>3

\* A request moves on; the others stay.
LEMMA PollMoves ==
    ASSUME PollTypeOK, NEW p \in Polls, NEW new \in {NoPolling} \cup PollRecords,
           polls' = [polls EXCEPT ![p] = new],
           version' \in 0..MaxVersion, shownData' \in (0..MaxVersion) \cup {Initial, NoData},
           feed' \in {"new", "open", "closed", "gone"},
           UNCHANGED <<pollView, serverDown, autoRefresh, frame>>
    PROVE  PollTypeOK'
<1>1. polls' \in [Polls -> {NoPolling} \cup PollRecords]
  BY DEF PollTypeOK, PollRecords
<1> QED
  BY <1>1 DEF PollTypeOK, PollRecords

LEMMA PollKeepsType == ASSUME PollTypeOK, [PollNext]_pollVars PROVE PollTypeOK'
<1>t. /\ version \in 0..MaxVersion /\ 0 \in 0..MaxVersion
      /\ shownData \in (0..MaxVersion) \cup {Initial, NoData}
      /\ polls \in [Polls -> {NoPolling} \cup PollRecords]
      /\ autoRefresh \in BOOLEAN
      /\ feed \in {"new", "open", "closed", "gone"}
      /\ frame \in (0..MaxVersion) \cup {NoFrame}
  BY PollAssumption DEF PollTypeOK, PollRecords
<1>r. ASSUME NEW p \in Polls, PollStatus(p) # "idle" PROVE polls[p] \in PollRecords
  BY <1>t, <1>r DEF PollStatus
<1>1. CASE DataChanges
  <2>1. version' \in 0..MaxVersion
    BY <1>1, <1>t, PollAssumption DEF DataChanges
  <2> QED
    BY <1>1, <2>1 DEF DataChanges, PollTypeOK, feedVars
<1>2. CASE ServerStops \/ ServerReturns
  <2>1. /\ serverDown' \in BOOLEAN
        /\ UNCHANGED <<pollView, version, polls, shownData, autoRefresh, feed, frame>>
    BY <1>2 DEF ServerStops, ServerReturns, feedVars
  <2> QED
    BY <2>1 DEF PollTypeOK
<1>3. CASE ToggleAutoRefresh
  <2>1. autoRefresh' \in BOOLEAN
    BY <1>3, Zenon DEF ToggleAutoRefresh
  <2>2. UNCHANGED <<pollView, version, serverDown, polls, shownData, feed, frame>>
    BY <1>3 DEF ToggleAutoRefresh, feedVars
  <2> QED
    BY <2>1, <2>2 DEF PollTypeOK
<1>4. ASSUME NEW p \in Polls, SendPoll(p) PROVE PollTypeOK'
  BY <1>4, <1>t, PollFacts, PollMoves DEF SendPoll, feedVars
<1>5. ASSUME NEW p \in Polls, PollServed(p) PROVE PollTypeOK'
  BY <1>5, <1>t, PollFacts, PollMoves DEF PollServed, feedVars
<1>6. ASSUME NEW p \in Polls, PollLost(p) PROVE PollTypeOK'
  <2> DEFINE new == [polls[p] EXCEPT !.status = "error"]
  <2>1. new \in PollRecords
    BY <1>6, <1>r, PollFacts DEF PollLost
  <2>2. polls' = [polls EXCEPT ![p] = new]
    BY <1>6, <1>t DEF PollLost
  <2> HIDE DEF new
  <2> QED
    BY <1>6, <1>t, <2>1, <2>2, PollMoves DEF PollLost, feedVars
<1>7. ASSUME NEW p \in Polls, PollShows(p) PROVE PollTypeOK'
  <2>1. shownData' \in 0..MaxVersion
    BY <1>7, <1>r, PollFacts DEF PollShows
  <2> QED
    BY <1>7, <1>t, <2>1, PollMoves DEF PollShows, feedVars
<1>8. ASSUME NEW p \in Polls, PollFails(p) PROVE PollTypeOK'
  <2>1. shownData' \in (0..MaxVersion) \cup {Initial, NoData}
    BY <1>8, <1>t DEF PollFails
  <2> QED
    BY <1>8, <1>t, <2>1, PollMoves DEF PollFails, feedVars
<1>9. CASE UNCHANGED pollVars
  BY <1>9 DEF pollVars, feedVars, PollTypeOK
<1>10. ASSUME NEW p \in Polls, OpenFeed(p) PROVE PollTypeOK'
  BY <1>10, <1>t, PollFacts, PollMoves DEF OpenFeed
<1>11. ASSUME NEW p \in Polls, OverviewArrives(p) PROVE PollTypeOK'
  <2>1. polls[p].version \in 0..MaxVersion
    BY <1>11, <1>r, PollFacts DEF OverviewArrives
  <2>2. shownData' \in (0..MaxVersion) \cup {Initial, NoData}
    BY <1>11, <1>t, <2>1 DEF OverviewArrives
  <2> QED
    BY <1>11, <1>t, <2>2, PollMoves DEF OverviewArrives, feedVars
<1>12. CASE FrameArrives \/ Flush \/ FlushThrows \/ FeedDrops
  <2>1. /\ feed' \in {"new", "open", "closed", "gone"}
        /\ frame' \in (0..MaxVersion) \cup {NoFrame}
        /\ shownData' \in (0..MaxVersion) \cup {Initial, NoData}
        /\ UNCHANGED <<pollView, version, serverDown, polls, autoRefresh>>
    BY <1>12, <1>t DEF FrameArrives, Flush, FlushThrows, FeedDrops
  <2> QED
    BY <2>1 DEF PollTypeOK
<1> QED
  BY <1>1, <1>2, <1>3, <1>4, <1>5, <1>6, <1>7, <1>8, <1>9, <1>10, <1>11, <1>12
  DEF PollNext, TimerPolls, RefreshNow

\* What a view shows is a version of the backend's data, or one of its two other faces.
\* About App.jsx:128-180.
LEMMA PollTypesHold == PollSpec => []PollTypeOK
<1>1. ASSUME PollInit PROVE PollTypeOK
  <2>1. 0 \in 0..MaxVersion
    BY PollAssumption
  <2>2. polls \in [Polls -> {NoPolling} \cup PollRecords]
    BY <1>1 DEF PollInit
  <2> QED
    BY <1>1, <2>1, <2>2 DEF PollInit, PollTypeOK, PollRecords, feedVars
<1> QED
  BY <1>1, PollKeepsType, PTL DEF PollSpec

-----------------------------------------------------------------------------
(* The console *)

\* A step of the console is a step of the open page; the others' state stays.
LEMMA ConsoleStep ==
    ASSUME [ConsoleNext]_pageVars
    PROVE  /\ [AccessNext]_accessVars
           /\ [DeskNext]_deskVars
           /\ [OrdersNext]_ordersVars
           /\ [RiskNext]_riskVars
           /\ [LimitNext]_limitVars
           /\ [GuardNext]_guardVars
           /\ [LabNext]_labVars
           /\ [LiveNext]_liveVars
           /\ [PollNext]_pollVars
<1>1. CASE page = "gate" /\ ConsoleNext
  <2>1. AccessNext /\ UNCHANGED <<deskVars, ordersVars, riskVars, limitVars, guardVars,
                                  labVars, liveVars, pollVars>>
    BY <1>1 DEF ConsoleNext, Gate, Desk, Orders, Risk, Limit, Guard, Lab, Live, Views, AccessNext
  <2> QED
    BY <2>1
<1>2. CASE page = "desk" /\ ConsoleNext
  <2>1. DeskNext /\ UNCHANGED <<accessVars, ordersVars, riskVars, limitVars, guardVars,
                                labVars, liveVars, pollVars>>
    BY <1>2 DEF ConsoleNext, Gate, Desk, Orders, Risk, Limit, Guard, Lab, Live, Views, DeskNext
  <2> QED
    BY <2>1
<1>3. CASE page = "orders" /\ ConsoleNext
  <2>1. OrdersNext /\ UNCHANGED <<accessVars, deskVars, riskVars, limitVars, guardVars,
                                  labVars, liveVars, pollVars>>
    BY <1>3 DEF ConsoleNext, Gate, Desk, Orders, Risk, Limit, Guard, Lab, Live, Views, OrdersNext
  <2> QED
    BY <2>1
<1>4. CASE page = "risk" /\ ConsoleNext
  <2>1. RiskNext /\ UNCHANGED <<accessVars, deskVars, ordersVars, limitVars, guardVars,
                                labVars, liveVars, pollVars>>
    BY <1>4 DEF ConsoleNext, Gate, Desk, Orders, Risk, Limit, Guard, Lab, Live, Views, RiskNext
  <2> QED
    BY <2>1
<1>5. CASE page = "limits" /\ ConsoleNext
  <2>1. LimitNext /\ UNCHANGED <<accessVars, deskVars, ordersVars, riskVars, guardVars,
                                 labVars, liveVars, pollVars>>
    BY <1>5 DEF ConsoleNext, Gate, Desk, Orders, Risk, Limit, Guard, Lab, Live, Views, LimitNext
  <2> QED
    BY <2>1
<1>6. CASE page = "guard" /\ ConsoleNext
  <2>1. GuardNext /\ UNCHANGED <<accessVars, deskVars, ordersVars, riskVars, limitVars,
                                 labVars, liveVars, pollVars>>
    BY <1>6 DEF ConsoleNext, Gate, Desk, Orders, Risk, Limit, Guard, Lab, Live, Views, GuardNext
  <2> QED
    BY <2>1
<1>7. CASE page = "lab" /\ ConsoleNext
  <2>1. LabNext /\ UNCHANGED <<accessVars, deskVars, ordersVars, riskVars, limitVars,
                               guardVars, liveVars, pollVars>>
    BY <1>7 DEF ConsoleNext, Gate, Desk, Orders, Risk, Limit, Guard, Lab, Live, Views, LabNext
  <2> QED
    BY <2>1
<1>8. CASE page = "live" /\ ConsoleNext
  <2>1. LiveNext /\ UNCHANGED <<accessVars, deskVars, ordersVars, riskVars, limitVars,
                                guardVars, labVars, pollVars>>
    BY <1>8 DEF ConsoleNext, Gate, Desk, Orders, Risk, Limit, Guard, Lab, Live, Views, LiveNext
  <2> QED
    BY <2>1
<1>9. CASE page = "views" /\ ConsoleNext
  <2>1. PollNext /\ UNCHANGED <<accessVars, deskVars, ordersVars, riskVars, limitVars,
                                guardVars, labVars, liveVars>>
    BY <1>9 DEF ConsoleNext, Gate, Desk, Orders, Risk, Limit, Guard, Lab, Live, Views, PollNext
  <2> QED
    BY <2>1
<1>10. CASE UNCHANGED pageVars
  BY <1>10 DEF pageVars
<1>11. ConsoleNext => page \in {"gate", "desk", "orders", "risk", "limits", "guard", "lab",
                                "live", "views"}
  BY DEF ConsoleNext, Gate, Desk, Orders, Risk, Limit, Guard, Lab, Live, Views
<1> QED
  BY <1>1, <1>2, <1>3, <1>4, <1>5, <1>6, <1>7, <1>8, <1>9, <1>10, <1>11

\* The pages, one open at a time, implement each of the modules: what is proved of one of
\* them alone holds in the console.  About React dropping a page's state, which no other
\* page reads (MCConsole).
THEOREM ConsoleImplements ==
    ConsoleSpec => /\ AccessSpec /\ DeskSpec /\ OrdersSpec /\ RiskSpec /\ LimitSpec
                   /\ GuardSpec /\ LabSpec /\ LiveSpec /\ PollSpec
<1>1. ConsoleInit => /\ AccessInit /\ DeskInit /\ OrdersInit /\ RiskInit /\ LimitInit
                     /\ GuardInit /\ LabInit /\ LiveInit /\ PollInit
  BY DEF ConsoleInit
<1> QED
  BY <1>1, ConsoleStep, PTL
  DEF ConsoleSpec, AccessSpec, DeskSpec, OrdersSpec, RiskSpec, LimitSpec, GuardSpec, LabSpec,
      LiveSpec, PollSpec

\* The state of every page keeps its type.  About the variables of the pages' modules.
THEOREM ConsoleTypesHold == ConsoleSpec => []ConsoleTypeOK
<1>1. AccessInv /\ DeskInv /\ OrdersInv /\ RiskInv /\ LimitInv /\ GuardInv /\ LabInv /\ LiveInv
      /\ PollTypeOK => ConsoleTypeOK
  BY DEF ConsoleTypeOK, AccessInv, DeskInv, StoreInv, OrdersInv, RiskInv, LimitInv, GuardInv,
         LabInv, LiveInv
<1> QED
  BY <1>1, ConsoleImplements, AccessInvariance, DeskInvariance, OrdersInvariance,
     RiskInvariance, LimitInvariance, GuardInvariance, LabInvariance, LiveInvariance,
     PollTypesHold, PTL

\* No countdown of the console is cut short, whatever page is opened in between: neither
\* that of the risk rules, nor the review of limits, nor a cooldown.
\* About FrictionAction.jsx:34-63, RiskControl.jsx:23-80, EmotionGuard.jsx:10-37 and
\* EmotionGuardOverlay.jsx:8-32.
THEOREM CountdownsAreServed == ConsoleSpec => CountdownsServed
  BY ConsoleImplements, NoShorterDelay, ReviewsAreKept, CooldownsAreServed, PTL
  DEF CountdownsServed, DelayIsServed, AppliedAsReviewed

\* In the console every page keeps what it promises alone, whatever page was open before.
\* About App.jsx, LiveExecution.jsx, RiskControlPanel.jsx and BacktestLab.jsx together.
THEOREM ConsoleSafe ==
    ConsoleSpec => [](/\ UnlockedHasKey /\ QuietDeskIsTrue /\ OneOrderPerTicket
                      /\ PlacedIsListed /\ RulesTogether /\ RunsStayApart
                      /\ OneStreamOfThePage)
  BY ConsoleImplements, UnlockedTabsHaveKeys, QuietDesksAreTrue, TicketsPlacedOnce,
     PlacedAreListed, HalvesStayTogether, RunsNeverMix, OnePageStreams, PTL
=============================================================================
