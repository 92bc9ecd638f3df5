------------------------------ MODULE OrderCache ------------------------------
(***************************************************************************)
(* SharedOrderCache (src/app/services/order_cache.py): the broker's order  *)
(* list, kept for one second for the idempotency sniffer (strategy worker  *)
(* thread) and the dashboard routes (main loop).  A caller is a thread or  *)
(* coroutine between the call of get_orders and its return; the mutex is   *)
(* held for the re-check and for the store, not for the fetch.  A list is  *)
(* represented by how many orders it holds: the broker only adds orders.   *)
(***************************************************************************)
EXTENDS Integers, FiniteSets

CONSTANTS
    Callers, Placers,   \* who reads the list, who places orders
    FetchMayFail,
    MaxOrders           \* bound on the orders of the day

ASSUME CacheAssumption ==
    /\ MaxOrders \in Nat
    /\ FetchMayFail \in BOOLEAN

VARIABLES
    placed,             \* orders the broker has
    lastOrders,         \* the cached list
    withinTTL,          \* _last_fetch_time is less than a second ago
    phase, answer,      \* per caller
    placing,            \* placers between the broker's answer and invalidate()
    announced,          \* history: orders placed when invalidate() last returned
    overlapped,         \* history: a call was under way then, or a fetch failed since,
                        \* and no call has begun alone with nothing cached since
    due, ownFetch       \* history, per caller: announced and placed at its call

calls == <<phase, answer, due, ownFetch>>
history == <<announced, overlapped>>
cacheVars == <<placed, lastOrders, withinTTL, calls, placing, history>>

Phases == {"idle", "missed", "fetching", "answered", "returned"}

CacheTypeOK ==
    /\ {placed, lastOrders, announced} \subseteq 0..MaxOrders
    /\ withinTTL \in BOOLEAN
    /\ phase \in [Callers -> Phases]
    /\ {answer, due, ownFetch} \subseteq [Callers -> -1..MaxOrders]
    /\ placing \subseteq Placers
    /\ overlapped \in BOOLEAN

CacheInit ==
    /\ placed = 0 /\ lastOrders = 0 /\ withinTTL = FALSE
    /\ phase = [c \in Callers |-> "idle"]
    /\ answer = [c \in Callers |-> 0]
    /\ due = [c \in Callers |-> 0]
    /\ ownFetch = [c \in Callers |-> -1]
    /\ placing = {} /\ announced = 0 /\ overlapped = FALSE

Move(c, to) == phase' = [phase EXCEPT ![c] = to]
Return(c, list) == Move(c, "returned") /\ answer' = [answer EXCEPT ![c] = list]

ReadersIdle == \A c \in Callers : phase[c] = "idle"

\* The dirty read.  force_refresh has no caller.  With nothing cached and nobody else
\* inside, whatever an overlap left behind is over.
GetOrders(c) ==
    /\ phase[c] = "idle"
    /\ due' = [due EXCEPT ![c] = announced]
    /\ IF withinTTL THEN Return(c, lastOrders) ELSE Move(c, "missed") /\ UNCHANGED answer
    /\ overlapped' = (overlapped /\ (withinTTL \/ ~ReadersIdle))
    /\ UNCHANGED <<placed, lastOrders, withinTTL, ownFetch, placing, announced>>

\* The re-check under the mutex, which is then given back.
Recheck(c) ==
    /\ phase[c] = "missed"
    /\ IF withinTTL
       THEN Return(c, lastOrders) /\ UNCHANGED ownFetch
       ELSE /\ Move(c, "fetching") /\ UNCHANGED answer
            /\ ownFetch' = [ownFetch EXCEPT ![c] = placed]
    /\ UNCHANGED <<placed, lastOrders, withinTTL, due, placing, history>>

\* The broker composes its answer; it reaches the caller later.
BrokerAnswers(c) ==
    /\ phase[c] = "fetching"
    /\ Move(c, "answered")
    /\ answer' = [answer EXCEPT ![c] = placed]
    /\ UNCHANGED <<placed, lastOrders, withinTTL, due, ownFetch, placing, history>>

\* A failed fetch returns the stale list as it is, or stores an empty one if
\* there is none; without a session the empty list is stored in any case.
FetchFails(c) ==
    /\ FetchMayFail
    /\ phase[c] = "fetching"
    /\ \/ lastOrders # 0 /\ Return(c, lastOrders)
       \/ Move(c, "answered") /\ answer' = [answer EXCEPT ![c] = 0]
    /\ ownFetch' = [ownFetch EXCEPT ![c] = -1]
    /\ overlapped' = TRUE
    /\ UNCHANGED <<placed, lastOrders, withinTTL, due, placing, announced>>

\* Mutant: the list cached by somebody else meanwhile is returned.
StoreReturnsCached(c) ==
    /\ phase[c] = "answered"
    /\ lastOrders' = answer[c]
    /\ withinTTL' = TRUE
    /\ Return(c, lastOrders)
    /\ UNCHANGED <<placed, due, ownFetch, placing, history>>

Store(c) ==
    /\ phase[c] = "answered"
    /\ lastOrders' = answer[c]
    /\ withinTTL' = TRUE
    /\ Return(c, answer[c])
    /\ UNCHANGED <<placed, due, ownFetch, placing, history>>

Consume(c) ==
    /\ phase[c] = "returned"
    /\ Move(c, "idle")
    /\ ownFetch' = [ownFetch EXCEPT ![c] = -1]
    /\ answer' = [answer EXCEPT ![c] = 0] /\ due' = [due EXCEPT ![c] = 0]
    /\ UNCHANGED <<placed, lastOrders, withinTTL, placing, history>>

TTLExpires ==
    /\ withinTTL
    /\ withinTTL' = FALSE
    /\ UNCHANGED <<placed, lastOrders, calls, placing, history>>

\* The engine's and the manual order's placement, then their invalidate().
PlaceOrder(p) ==
    /\ p \notin placing /\ placed < MaxOrders
    /\ placed' = placed + 1
    /\ placing' = placing \cup {p}
    /\ UNCHANGED <<lastOrders, withinTTL, calls, history>>

\* Mutant: the fetch time is not reset.
InvalidateKeepsTime(p) ==
    /\ p \in placing
    /\ placing' = placing \ {p}
    /\ announced' = placed /\ overlapped' = ~ReadersIdle
    /\ UNCHANGED <<placed, lastOrders, withinTTL, calls>>

Invalidate(p) ==
    /\ p \in placing
    /\ withinTTL' = FALSE
    /\ placing' = placing \ {p}
    /\ announced' = placed /\ overlapped' = ~ReadersIdle
    /\ UNCHANGED <<placed, lastOrders, calls>>

CacheNext ==
    \/ \E c \in Callers :
          GetOrders(c) \/ Recheck(c) \/ BrokerAnswers(c) \/ FetchFails(c) \/ Store(c) \/ Consume(c)
    \/ TTLExpires
    \/ \E p \in Placers : PlaceOrder(p) \/ Invalidate(p)

CacheSpec == CacheInit /\ [][CacheNext]_cacheVars

-----------------------------------------------------------------------------
\* invalidate() "forces the next caller to fetch fresh data (e.g. after we
\* place an order)" (order_cache.py:65): a call that starts after it sees the
\* orders placed before it.
FreshAfterInvalidate ==
    \A c \in Callers : phase[c] = "returned" => answer[c] >= due[c]

\* Within the limits the code keeps: a call inside get_orders as invalidate() ran, or a
\* fetch that failed, may leave an old list behind, but for no longer than until a call
\* begins alone after the second of that list; the calls that start from then on see
\* every order placed before invalidate(), whoever else fetches or lets it expire.
FreshUnlessOverlapped == ~overlapped => FreshAfterInvalidate

\* A caller that fetched for itself gets a list no older than its own request,
\* whatever other callers store, fail or invalidate in the meantime.
OwnFetchIsFresh ==
    \A c \in Callers : phase[c] = "returned" /\ ownFetch[c] >= 0 => answer[c] >= ownFetch[c]
=============================================================================
