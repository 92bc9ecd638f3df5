----------------------------- MODULE MCServices -----------------------------
(***************************************************************************)
(* The services of the backend that share no state with one another, one   *)
(* at a time: the capital registry with its clients, the shared order      *)
(* cache, the session, and the tick stream of the deployed strategies.     *)
(***************************************************************************)
EXTENDS CapitalClients, OrderCache, SessionControl, TickStream

VARIABLE service   \* the one that runs

serviceVars == <<service, clientVars, cacheVars, sessionVars, streamVars>>

ServicesInit ==
    /\ service \in {"registry", "cache", "session", "stream"}
    /\ ClientsInit /\ CacheInit /\ SessionInit /\ StreamInit

    \* the others rest in one of their initial states
    /\ service = "registry" \/ totalCapital = CHOOSE c \in Capitals : TRUE
    /\ service = "session" \/ (activeToken = NoToken /\ validTokens = {})
    /\ service = "stream" \/ ~ready

Registry(A) ==
    /\ service = "registry" /\ A
    /\ UNCHANGED <<service, cacheVars, sessionVars, streamVars>>

Cache(A) ==
    /\ service = "cache" /\ A
    /\ UNCHANGED <<service, clientVars, sessionVars, streamVars>>

Session(A) ==
    /\ service = "session" /\ A
    /\ UNCHANGED <<service, clientVars, cacheVars, streamVars>>

Stream(A) ==
    /\ service = "stream" /\ A
    /\ UNCHANGED <<service, clientVars, cacheVars, sessionVars>>

ServicesNext ==
    \/ Registry(Reserve /\ UNCHANGED now)
    \/ Registry(OrderSucceeded /\ UNCHANGED now)
    \/ Registry(OrderFailed /\ UNCHANGED now)
    \/ Registry(ExitSucceeded /\ UNCHANGED now)
    \/ Registry(BalanceFetched /\ UNCHANGED now)
    \/ Registry(SweepExpired /\ UNCHANGED now)
    \/ Registry(Tick)
    \/ \E c \in Callers : Cache(GetOrders(c))
    \/ \E c \in Callers : Cache(Recheck(c))
    \/ \E c \in Callers : Cache(BrokerAnswers(c))
    \/ \E c \in Callers : Cache(FetchFails(c))
    \/ \E c \in Callers : Cache(Store(c))
    \/ \E c \in Callers : Cache(Consume(c))
    \/ Cache(TTLExpires)
    \/ \E p \in Placers : Cache(PlaceOrder(p))
    \/ \E p \in Placers : Cache(Invalidate(p))
    \/ \E j \in Tasks : Session(CheckBegins(j))
    \/ \E j \in Tasks, step \in {"valid", "invalid", "error"} :
          Session(ProfileAnswered(j, step))
    \/ \E j \in Tasks : Session(CheckEnds(j))
    \/ \E j \in Tasks : Session(LoginBegins(j))
    \/ \E j \in Tasks, k \in Tokens : Session(LoginStores(j, k))
    \/ \E j \in Tasks : Session(LoginFails(j))
    \/ \E j \in Tasks : Session(LoginSucceeds(j))
    \/ \E j \in Tasks : Session(LoginEnds(j))
    \/ Session(BootEnds)
    \/ Session(RestartProcess)
    \/ Session(KillSwitchFalls)
    \/ \E k \in Tokens : Session(TokenExpires(k))
    \/ Stream(SubscribeEnds)
    \/ Stream(LoginStreams)
    \/ \E id \in Ids, s \in Instruments : Stream(SaveStrategy(id, s))
    \/ \E id \in Ids : Stream(DeployStrategy(id))
    \/ \E id \in Ids : Stream(DeployTears(id))
    \/ \E id \in Ids, commits \in BOOLEAN : Stream(UndeployStrategy(id, commits))
    \/ \E id \in Ids, commits \in BOOLEAN : Stream(DeleteStrategy(id, commits))
    \/ \E t \in Tickers : Stream(TickerConnects(t))
    \/ Stream(ConnectEnds)
    \/ \E t \in Tickers : Stream(TickerCloses(t))
    \/ Stream(BootStreams)
    \/ \E R \in SUBSET Ids : Stream(BootSkips(R))
    \/ Stream(RestartStream)
    \/ Stream(ReadyChanges)

ServicesSpec == ServicesInit /\ [][ServicesNext]_serviceVars

-----------------------------------------------------------------------------
\* The state of each service has its type; the budget's is that it never goes below
\* zero (see ClientsTypeOK).  About the variables of the four modules.
ServicesTypeOK ==
    /\ ClientsTypeOK /\ CacheTypeOK /\ SessionTypeOK /\ StoreTypeOK /\ StreamTypeOK
=============================================================================
