------------------------------ MODULE LiveStream ------------------------------
(***************************************************************************)
(* The web socket of SimulatorPage in App.jsx.  The effect of a mounted    *)
(* page connects, and connects again two seconds after its socket closed;  *)
(* its cleanup closes the socket and stops the timer.  Sockets and timers  *)
(* outlive the page that made them, and the page may be back before the    *)
(* old socket has reported its end.                                        *)
(***************************************************************************)
EXTENDS FiniteSets

CONSTANTS Effects,   \* bound: effects with a socket that has not ended
          NoEffect   \* the page is not mounted

ASSUME LiveAssumption == NoEffect \notin Effects

VARIABLES mountedAs,   \* the effect of the page that is mounted
          socket,      \* of each effect
          retryTimer,  \* of each effect: its timer is set
          closed,      \* of each effect: its cleanup has run
          connected    \* LIVE STREAM or DISCONNECTED

liveVars == <<mountedAs, socket, retryTimer, closed, connected>>

LiveTypeOK ==
    /\ mountedAs \in Effects \cup {NoEffect}
    /\ socket \in [Effects -> {"none", "connecting", "open", "closing"}]
    /\ retryTimer \in [Effects -> BOOLEAN]
    /\ closed \in [Effects -> BOOLEAN]
    /\ connected \in BOOLEAN

LiveInit ==
    /\ mountedAs = NoEffect
    /\ socket = [e \in Effects |-> "none"]
    /\ retryTimer = [e \in Effects |-> FALSE]
    /\ closed = [e \in Effects |-> TRUE]
    /\ connected = FALSE

\* A page is a new instance each time: it starts disconnected.
MountStream(e) ==
    /\ mountedAs = NoEffect
    /\ closed[e] /\ socket[e] = "none" /\ ~retryTimer[e]
    /\ mountedAs' = e
    /\ socket' = [socket EXCEPT ![e] = "connecting"]
    /\ closed' = [closed EXCEPT ![e] = FALSE]
    /\ connected' = FALSE
    /\ UNCHANGED retryTimer

UnmountStream ==
    /\ mountedAs # NoEffect
    /\ mountedAs' = NoEffect
    /\ closed' = [closed EXCEPT ![mountedAs] = TRUE]
    /\ retryTimer' = [retryTimer EXCEPT ![mountedAs] = FALSE]
    /\ socket' = [socket EXCEPT ![mountedAs] = IF @ = "none" THEN @ ELSE "closing"]
    /\ connected' = FALSE

SocketOpens(e) ==
    /\ socket[e] = "connecting"
    /\ socket' = [socket EXCEPT ![e] = "open"]
    /\ connected' = (connected \/ mountedAs = e)
    /\ UNCHANGED <<mountedAs, retryTimer, closed>>

\* Mutant: the handler of onclose does not look at the flag of the cleanup.
ClosesUnflagged(e) ==
    /\ socket[e] # "none"
    /\ socket' = [socket EXCEPT ![e] = "none"]
    /\ connected' = (connected /\ mountedAs # e)
    /\ retryTimer' = [retryTimer EXCEPT ![e] = TRUE]
    /\ UNCHANGED <<mountedAs, closed>>

\* onclose, for whatever reason: refused, dropped by the server, or closed here.
SocketCloses(e) ==
    /\ socket[e] # "none"
    /\ socket' = [socket EXCEPT ![e] = "none"]
    /\ connected' = (connected /\ mountedAs # e)
    /\ retryTimer' = [retryTimer EXCEPT ![e] = ~closed[e]]
    /\ UNCHANGED <<mountedAs, closed>>

RetryFires(e) ==
    /\ retryTimer[e]
    /\ retryTimer' = [retryTimer EXCEPT ![e] = FALSE]
    /\ socket' = [socket EXCEPT ![e] = "connecting"]
    /\ UNCHANGED <<mountedAs, closed, connected>>

LiveNext ==
    \/ \E e \in Effects : MountStream(e)
    \/ UnmountStream
    \/ \E e \in Effects : SocketOpens(e)
    \/ \E e \in Effects : SocketCloses(e)
    \/ \E e \in Effects : RetryFires(e)

AnyOpens == \E e \in Effects : SocketOpens(e)
AnyRetry == \E e \in Effects : RetryFires(e)
AnyEnds == \E e \in Effects : socket[e] = "closing" /\ SocketCloses(e)

\* Timers fire, closing sockets end, and not every attempt to connect fails for ever.
LiveFairness == WF_liveVars(AnyRetry) /\ WF_liveVars(AnyEnds) /\ SF_liveVars(AnyOpens)

LiveSpec == LiveInit /\ [][LiveNext]_liveVars

FairLiveSpec == LiveSpec /\ LiveFairness

-----------------------------------------------------------------------------
\* At most one socket streams, or is going to: that of the mounted page, however
\* quickly the page is left and opened again while connections fail.  What the page
\* says of it is true.  About App.jsx:1082-1119.
OneStreamOfThePage ==
    LET live == {e \in Effects : socket[e] \in {"connecting", "open"} \/ retryTimer[e]}
    IN  /\ live = {mountedAs} \ {NoEffect}
        /\ connected <=> mountedAs # NoEffect /\ socket[mountedAs] = "open"

\* A page that stays open is connected again and again.  About App.jsx:1095-1100.
StreamReturns == []<>(connected \/ mountedAs = NoEffect)
=============================================================================
