----------------------------- MODULE AccessGate -----------------------------
(***************************************************************************)
(* The dashboard's access gate: App and AppAccessGate of App.jsx with the  *)
(* fetch interceptor of config/appAccess.js.  The key lives in the         *)
(* browser's localStorage, which all tabs share; whether a tab is unlocked *)
(* is a React state of that tab.  Any request sent with a key locks its    *)
(* tab and clears the storage when it is answered 401, however late.       *)
(*                                                                         *)
(* A request without a key has no effect on the gate whatever its answer,  *)
(* so only requests that carry a key are in the model.                     *)
(***************************************************************************)
EXTENDS FiniteSets, Naturals

CONSTANTS Tabs,           \* browser tabs on one origin
          Keys,           \* what an operator may type
          NoKey,          \* an empty storage; as server key: access is open
          MaxRequests,    \* bound: keyed requests in flight
          MaxRotations    \* bound: restarts of the server with another key

ASSUME AccessAssumption == /\ NoKey \notin Keys
                           /\ MaxRequests \in Nat
                           /\ MaxRotations \in Nat

VARIABLES stored,     \* localStorage["algo_sassy_app_token"]
          unlocked,   \* isAccessUnlocked of each tab
          requests,   \* requests sent with a key and not yet delivered
          serverKey,  \* APP_ACCESS_TOKEN of the server
          rotations,
          crossed     \* history: tabs under which, or under whose check, an answer
                      \* to another request cleared the key, and none was stored since

accessVars == <<stored, unlocked, requests, serverKey, rotations, crossed>>

\* "verify" is the gate's own check, "poll" any other guarded route, "admin" one
\* that answers 401 for reasons of its own as well (admin token, broker session).
Requests == [tab : Tabs, key : Keys, kind : {"verify", "poll", "admin"},
             status : {"sent", "ok", "denied", "failed"}]

AccessTypeOK ==
    /\ stored \in Keys \cup {NoKey}
    /\ unlocked \in [Tabs -> BOOLEAN]
    /\ requests \subseteq Requests
    /\ serverKey \in Keys \cup {NoKey}
    /\ rotations \in 0..MaxRotations
    /\ crossed \subseteq Tabs

AccessInit ==
    /\ stored \in Keys \cup {NoKey}
    /\ unlocked = [t \in Tabs |-> stored # NoKey]
    /\ requests = {}
    /\ serverKey \in Keys
    /\ rotations = 0
    /\ crossed = {}

Accepts(k) == serverKey \in {NoKey, k}

Verifying(t) == \E r \in requests : r.tab = t /\ r.kind = "verify"

Sent(t, k, kind) == [tab |-> t, key |-> k, kind |-> kind, status |-> "sent"]

CanSend == Cardinality(requests) < MaxRequests

-----------------------------------------------------------------------------
\* The form is submitted with a key; its button is disabled while it verifies.
\* The key is stored before it is known to be good.
Unlock(t, k) ==
    /\ ~unlocked[t] /\ ~Verifying(t) /\ CanSend
    /\ stored' = k
    /\ requests' = requests \cup {Sent(t, k, "verify")}
    /\ crossed' = {}
    /\ UNCHANGED <<unlocked, serverKey, rotations>>

\* A page of an unlocked tab calls the API; the interceptor attaches the key.
SendRequest(t, kind) ==
    /\ unlocked[t] /\ stored # NoKey /\ CanSend
    /\ requests' = requests \cup {Sent(t, stored, kind)}
    /\ UNCHANGED <<stored, unlocked, serverKey, rotations, crossed>>

\* The server answers with the key it has at that time; only the answer to an
\* admin request may be 401 for a good key.
Statuses(r) ==
    IF ~Accepts(r.key) THEN {"denied"}
    ELSE IF r.kind = "admin" THEN {"ok", "denied"} ELSE {"ok"}

AnsweredWith(r, status) ==
    /\ r \in requests /\ r.status = "sent"
    /\ requests' = (requests \ {r}) \cup {[r EXCEPT !.status = status]}
    /\ UNCHANGED <<stored, unlocked, serverKey, rotations, crossed>>

Serve(r) == \E status \in Statuses(r) : AnsweredWith(r, status)

\* A server error or no answer at all.
ServeFails(r) == AnsweredWith(r, "failed")

Clears(r) == r.status = "denied" \/ (r.status = "failed" /\ r.kind = "verify")

\* Tabs that are open, or about to be, and did not send r.
Crosses(r) == {t \in Tabs : \/ t # r.tab /\ unlocked[t]
                            \/ \E q \in requests \ {r} : q.tab = t /\ q.kind = "verify"}

\* Mutant: the 401 clears the key without the event that locks the tab.
DeliverUnnoticed(r) ==
    /\ r \in requests /\ r.status # "sent"
    /\ requests' = requests \ {r}
    /\ stored' = IF Clears(r) THEN NoKey ELSE stored
    /\ unlocked' = [unlocked EXCEPT ![r.tab] =
                       @ \/ (r.kind = "verify" /\ r.status = "ok")]
    /\ crossed' = IF Clears(r) THEN crossed \cup Crosses(r) ELSE crossed
    /\ UNCHANGED <<serverKey, rotations>>

\* The answer reaches the interceptor, then the caller.  A 401 clears the key,
\* whichever key that is by now, and locks the tab; the gate unlocks its tab on
\* success and clears the key on any failure.
Deliver(r) ==
    /\ r \in requests /\ r.status # "sent"
    /\ requests' = requests \ {r}
    /\ stored' = IF Clears(r) THEN NoKey ELSE stored
    /\ unlocked' = [unlocked EXCEPT ![r.tab] =
                       \/ @ /\ r.status # "denied"
                       \/ r.kind = "verify" /\ r.status = "ok"]
    /\ crossed' = IF Clears(r) THEN crossed \cup Crosses(r) ELSE crossed
    /\ UNCHANGED <<serverKey, rotations>>

\* The tab is reloaded: whatever is stored unlocks it, checked or not.
Reload(t) ==
    /\ requests' = {r \in requests : r.tab # t}
    /\ unlocked' = [unlocked EXCEPT ![t] = stored # NoKey]
    /\ crossed' = crossed \ {t}
    /\ UNCHANGED <<stored, serverKey, rotations>>

\* The server comes back with another key, or with none.
RotateKey ==
    /\ rotations < MaxRotations
    /\ rotations' = rotations + 1
    /\ serverKey' \in Keys \cup {NoKey}
    /\ UNCHANGED <<stored, unlocked, requests, crossed>>

AccessNext ==
    \/ \E t \in Tabs, k \in Keys : Unlock(t, k)
    \/ \E t \in Tabs, kind \in {"poll", "admin"} : SendRequest(t, kind)
    \/ \E r \in requests : Serve(r)
    \/ \E r \in requests : ServeFails(r)
    \/ \E r \in requests : Deliver(r)
    \/ \E t \in Tabs : Reload(t)
    \/ RotateKey

AccessSpec == AccessInit /\ [][AccessNext]_accessVars

AnyPolls == \E t \in Tabs : SendRequest(t, "poll")
AnyServed == \E r \in requests : Serve(r)
AnyDelivered == \E r \in requests : Deliver(r)
AnyAnswered == \E r \in requests : r.status # "failed" /\ Deliver(r)

\* Open tabs poll (App.jsx:149 and 175); not every request fails, and the operator
\* does not reload before every answer, for ever.
AccessFairness ==
    /\ WF_accessVars(AnyPolls)
    /\ SF_accessVars(AnyServed)
    /\ WF_accessVars(AnyDelivered)
    /\ SF_accessVars(AnyAnswered)

FairAccessSpec == AccessSpec /\ AccessFairness

-----------------------------------------------------------------------------
\* An unlocked tab has a key to send, unless the answer to a request of another tab, or
\* to an older one of its own, cleared the key under it; then that tab, and no other,
\* shows a dashboard whose calls all fail, and no 401 locks it any more, until it is
\* reloaded or some tab stores a key again.
\* About config/appAccess.js:44-47 and App.jsx:195-209, which clear and lock.
UnlockedHasKey == \A t \in Tabs : unlocked[t] /\ stored = NoKey => t \in crossed

\* A stored key that the server rejects does not stay: some poll of an unlocked
\* tab or the gate's own check removes it.  About App.jsx:203-209 and 1456-1463.
BadKeyIsDropped ==
    []<>(stored = NoKey \/ Accepts(stored))
=============================================================================
