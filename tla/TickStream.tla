------------------------------ MODULE TickStream ------------------------------
(***************************************************************************)
(* The tick stream of services/websocket_manager.py with its callers: the  *)
(* strategy-store routes, the startup of main.py and the login callback.   *)
(* Callers run on the main loop; a KiteTicker calls back in a thread of    *)
(* its own, so subscribe() and _on_connect() share the subscription list   *)
(* without a lock.  The session is any (SessionControl).                   *)
(***************************************************************************)
EXTENDS StrategyStore

CONSTANTS AutoSymbols, \* AUTOTRADE_SYMBOLS: each has a built-in strategy
          Tickers,     \* bound: KiteTicker objects of one process
          NoTicker,
          NoMerge      \* the thread is not inside subscribe()

ASSUME StreamAssumption ==
    /\ AutoSymbols \subseteq Instruments
    /\ NoTicker \notin Tickers
    /\ \A merge \in SUBSET Instruments : merge # NoMerge

VARIABLES serving,      \* the startup is over: routes are served
          ready,        \* the system is READY and a token is active
          ticker,       \* websocket_manager.kws
          link,         \* external: connection of each ticker
          wire,         \* external: what each ticker is subscribed to
          isConnected,
          subscribed,   \* subscribed_tokens
          mainMerge, tickMerge,  \* list the main loop, the ticker is to store
          missed        \* history: symbols whose last subscription did not
                        \* happen, raised, or met a connection

feedVars == <<ticker, link, wire, isConnected, subscribed, mainMerge, tickMerge, missed>>
streamVars == <<storeVars, serving, ready, feedVars>>

StreamTypeOK ==
    /\ serving \in BOOLEAN
    /\ ready \in BOOLEAN
    /\ ticker \in Tickers \cup {NoTicker}
    /\ link \in [Tickers -> {"none", "connecting", "open"}]
    /\ wire \in [Tickers -> SUBSET Instruments]
    /\ isConnected \in BOOLEAN
    /\ subscribed \subseteq Instruments
    /\ mainMerge \in (SUBSET Instruments) \cup {NoMerge}
    /\ tickMerge \in (SUBSET Instruments) \cup {NoMerge}
    /\ missed \subseteq Instruments

StreamInit ==
    /\ StoreInit
    /\ ready \in BOOLEAN
    /\ serving = FALSE
    /\ ticker = NoTicker
    /\ link = [t \in Tickers |-> "none"]
    /\ wire = [t \in Tickers |-> {}]
    /\ isConnected = FALSE
    /\ subscribed = {}
    /\ mainMerge = NoMerge /\ tickMerge = NoMerge
    /\ missed = {}

\* The main loop runs one thing at a time between two awaits.
MainFree == mainMerge = NoMerge

-----------------------------------------------------------------------------
(* websocket_manager: subscribe() on the main loop, then start_stream() *)

\* subscribe() up to the store of the merged list: prepares it, or sends it to the
\* ticker first, which raises if its socket is gone.  A connection that is being
\* handled stores the list it has read, which lacks what is new in this one.
Subscribe(symbols) ==
    \/ /\ mainMerge' = subscribed \cup symbols
       /\ \/ ~isConnected /\ UNCHANGED wire
          \/ isConnected /\ link[ticker] = "open"
             /\ wire' = [wire EXCEPT ![ticker] = @ \cup symbols]
       /\ missed' = (missed \ symbols)
                      \cup (IF tickMerge = NoMerge THEN {} ELSE symbols \ tickMerge)
       /\ UNCHANGED <<ticker, link, isConnected, subscribed, tickMerge>>
    \/ /\ isConnected
       /\ missed' = missed \cup symbols
       /\ UNCHANGED <<ticker, link, wire, isConnected, subscribed, mainMerge, tickMerge>>

\* The list that is stored may have been read before or after the other thread's
\* store.
Merged(list) == {list, list \cup subscribed}

StreamWanted == ready /\ ~isConnected

NewTicker(t) ==
    /\ link[t] = "none"
    /\ ticker' = t
    /\ link' = [link EXCEPT ![t] = "connecting"]

\* subscribe() stores the list; its callers then start a stream unless the flag says
\* one is connected.
SubscribeEnds ==
    /\ mainMerge # NoMerge
    /\ subscribed' \in Merged(mainMerge)
    /\ mainMerge' = NoMerge
    /\ \/ StreamWanted /\ \E t \in Tickers : NewTicker(t)
       \/ ~StreamWanted /\ UNCHANGED <<ticker, link>>
    /\ UNCHANGED <<storeVars, serving, ready, wire, isConnected, tickMerge, missed>>

Route == MainFree /\ serving

\* get_all_registered_symbols
Registered == AutoSymbols \cup {route[1] : route \in registry}

\* The end of the login callback: all symbols once more.
LoginStreams ==
    /\ Route
    /\ Subscribe(Registered)
    /\ UNCHANGED <<storeVars, serving, ready>>

-----------------------------------------------------------------------------
(* Routes of the strategy store *)

SaveStrategy(id, s) ==
    /\ Route
    /\ StoreRow(id, s)
    /\ UNCHANGED <<serving, ready, feedVars>>

\* Subscribes to the symbol once the row is committed.
DeployStrategy(id) ==
    /\ Route
    /\ DeployRow(id, TRUE)
    /\ Subscribe({rows[id].instrument})
    /\ UNCHANGED <<serving, ready>>

\* The commit raises: the strategy is registered, and not subscribed to.
DeployTears(id) ==
    /\ Route
    /\ DeployRow(id, FALSE)
    /\ missed' = missed \cup {rows[id].instrument}
    /\ UNCHANGED <<serving, ready, ticker, link, wire, isConnected, subscribed,
                   mainMerge, tickMerge>>

UndeployStrategy(id, commits) ==
    /\ Route
    /\ UndeployRow(id, commits)
    /\ UNCHANGED <<serving, ready, feedVars>>

DeleteStrategy(id, commits) ==
    /\ Route
    /\ DeleteRow(id, commits)
    /\ UNCHANGED <<serving, ready, feedVars>>

-----------------------------------------------------------------------------
(* The ticker's thread *)

\* What is lost if the connection restores a list that the main loop is about to
\* replace by a longer one.
Overtaken == IF mainMerge = NoMerge THEN {} ELSE mainMerge \ subscribed

\* Mutant: a connection does not restore the subscriptions.
TickerConnectsBare(t) ==
    /\ link[t] = "connecting" /\ tickMerge = NoMerge
    /\ link' = [link EXCEPT ![t] = "open"]
    /\ isConnected' = TRUE
    /\ tickMerge' = IF subscribed # {} /\ link'[ticker] = "open" THEN subscribed ELSE NoMerge
    /\ missed' = IF link'[ticker] = "open" THEN missed \cup Overtaken ELSE missed
    /\ UNCHANGED <<storeVars, serving, ready, ticker, wire, subscribed,
                   mainMerge>>

\* _on_connect() of any ticker sets the flag and subscribes on the newest one; a
\* ticker restores by itself what it had before it was disconnected.
TickerConnects(t) ==
    /\ link[t] = "connecting" /\ tickMerge = NoMerge
    /\ link' = [link EXCEPT ![t] = "open"]
    /\ isConnected' = TRUE
    /\ wire' = IF link'[ticker] = "open"
               THEN [wire EXCEPT ![ticker] = @ \cup subscribed] ELSE wire
    /\ tickMerge' = IF subscribed # {} /\ link'[ticker] = "open" THEN subscribed ELSE NoMerge
    /\ missed' = IF link'[ticker] = "open" THEN missed \cup Overtaken ELSE missed
    /\ UNCHANGED <<storeVars, serving, ready, ticker, subscribed, mainMerge>>

ConnectEnds ==
    /\ tickMerge # NoMerge
    /\ subscribed' \in Merged(tickMerge)
    /\ tickMerge' = NoMerge
    /\ UNCHANGED <<storeVars, serving, ready, ticker, link, wire,
                   isConnected, mainMerge, missed>>

\* _on_close() of any ticker clears the flag; the ticker reconnects by itself.
TickerCloses(t) ==
    /\ link[t] = "open" /\ tickMerge = NoMerge
    /\ link' = [link EXCEPT ![t] = "connecting"]
    /\ isConnected' = FALSE
    /\ UNCHANGED <<storeVars, serving, ready, ticker, wire, subscribed,
                   mainMerge, tickMerge, missed>>

-----------------------------------------------------------------------------
\* The lifespan registers the built-in and the deployed strategies, prepares the
\* subscriptions and starts the stream.
BootStreams ==
    /\ ~serving /\ MainFree
    /\ serving' = TRUE
    /\ RestoreRows
    /\ Subscribe(AutoSymbols \cup {route[1] : route \in registry'})
    /\ UNCHANGED ready

\* The restore raises: what it had registered runs, but only the built-in symbols are
\* subscribed to.
BootSkips(R) ==
    /\ ~serving /\ MainFree
    /\ serving' = TRUE
    /\ RestoreSkips(R)
    /\ mainMerge' = subscribed \cup AutoSymbols
    /\ missed' = {rows[id].instrument : id \in R} \ AutoSymbols
    /\ UNCHANGED <<ready, ticker, link, wire, isConnected, subscribed, tickMerge>>

\* The process ends at any point and starts again: only the database is left.
RestartStream ==
    /\ serving
    /\ registry' = {}
    /\ serving' = FALSE
    /\ ticker' = NoTicker
    /\ link' = [t \in Tickers |-> "none"]
    /\ wire' = [t \in Tickers |-> {}]
    /\ isConnected' = FALSE
    /\ subscribed' = {}
    /\ mainMerge' = NoMerge /\ tickMerge' = NoMerge
    /\ missed' = {}
    /\ UNCHANGED <<rows, torn, ready>>

\* A login, a token check or the kill switch changes the system state.
ReadyChanges ==
    /\ MainFree
    /\ ready' = ~ready
    /\ UNCHANGED <<storeVars, serving, feedVars>>

StreamNext ==
    \/ SubscribeEnds
    \/ LoginStreams
    \/ \E id \in Ids, s \in Instruments : SaveStrategy(id, s)
    \/ \E id \in Ids : DeployStrategy(id)
    \/ \E id \in Ids : DeployTears(id)
    \/ \E id \in Ids, commits \in BOOLEAN : UndeployStrategy(id, commits)
    \/ \E id \in Ids, commits \in BOOLEAN : DeleteStrategy(id, commits)
    \/ \E t \in Tickers : TickerConnects(t)
    \/ ConnectEnds
    \/ \E t \in Tickers : TickerCloses(t)
    \/ BootStreams
    \/ \E R \in SUBSET Ids : BootSkips(R)
    \/ RestartStream
    \/ ReadyChanges

StreamSpec == StreamInit /\ [][StreamNext]_streamVars

-----------------------------------------------------------------------------
\* While the stream is connected it carries every symbol that a strategy is registered
\* for, whatever was deployed, restored, disconnected and reconnected in which order,
\* and on however many tickers; except the symbols whose own subscription was never
\* made (the commit or the restore before it raised), raised, or met a connection of
\* the other thread, until a deployment or the next login asks for them again.
\* About websocket_manager.py:109-148, dashboard.py:308-323 and main.py:121-170.
StrategiesAreFed ==
    isConnected /\ link[ticker] = "open" /\ mainMerge = NoMerge /\ tickMerge = NoMerge
        => Registered \ missed \subseteq wire[ticker]
=============================================================================
