------------------------------- MODULE LimitForm -------------------------------
(***************************************************************************)
(* pages/RiskControl: limits are edited on a pending copy, reviewed, and   *)
(* applied after a countdown that can be cancelled.  They stay in the      *)
(* page: nothing is posted.  The backend's limits arrive once, at any time.*)
(*                                                                         *)
(* A limit set is a pair: a limit the backend reports and one it does not. *)
(***************************************************************************)
EXTENDS Naturals

CONSTANTS Limits,        \* values of a limit
          DefaultLimit,  \* what the form starts with
          ReviewDelay,   \* seconds of the countdown (5 in the code)
          NotPending, NotReviewed

ASSUME LimitAssumption ==
    /\ DefaultLimit \in Limits
    /\ ReviewDelay \in Nat \ {0}
    /\ {NotPending, NotReviewed} \cap (Limits \X Limits) = {}

VARIABLES limits,        \* params
          pendingParams, isConfirming, countdown,
          liveDue,       \* the backend's answer has not arrived
          reviewed,      \* history: what the form showed when it was reviewed
          reviewedFor        \* history: seconds since then

limitVars == <<limits, pendingParams, isConfirming, countdown, liveDue, reviewed, reviewedFor>>

LimitSets == Limits \X Limits

LimitTypeOK ==
    /\ limits \in LimitSets
    /\ pendingParams \in LimitSets \cup {NotPending}
    /\ isConfirming \in BOOLEAN
    /\ countdown \in 0..ReviewDelay
    /\ liveDue \in BOOLEAN
    /\ reviewed \in LimitSets \cup {NotReviewed}
    /\ reviewedFor \in 0..ReviewDelay

LimitInit ==
    /\ limits = <<DefaultLimit, DefaultLimit>>
    /\ pendingParams = NotPending
    /\ isConfirming = FALSE
    /\ countdown = 0
    /\ liveDue = TRUE
    /\ reviewed = NotReviewed
    /\ reviewedFor = 0

\* The answer sets the limits, never the pending copy; the other field is a constant.
LiveLimitsArrive(value) ==
    /\ liveDue
    /\ liveDue' = FALSE
    /\ limits' = <<value, DefaultLimit>>
    /\ UNCHANGED <<pendingParams, isConfirming, countdown, reviewed, reviewedFor>>

LiveLimitsFail ==
    /\ liveDue
    /\ liveDue' = FALSE
    /\ UNCHANGED <<limits, pendingParams, isConfirming, countdown, reviewed, reviewedFor>>

\* The fields are disabled during the countdown.
HandleChange(i, value) ==
    /\ ~isConfirming
    /\ pendingParams' = [IF pendingParams = NotPending THEN limits ELSE pendingParams
                           EXCEPT ![i] = value]
    /\ UNCHANGED <<limits, isConfirming, countdown, liveDue, reviewed, reviewedFor>>

\* "Review Changes" is there while something is pending.
HandleApply ==
    /\ pendingParams # NotPending /\ ~isConfirming
    /\ isConfirming' = TRUE
    /\ countdown' = ReviewDelay
    /\ reviewed' = pendingParams
    /\ reviewedFor' = 0
    /\ UNCHANGED <<limits, pendingParams, liveDue>>

\* "Discard" before, CANCEL during the countdown.
CancelApply ==
    /\ pendingParams # NotPending
    /\ isConfirming' = FALSE
    /\ countdown' = 0
    /\ pendingParams' = NotPending
    /\ reviewed' = NotReviewed
    /\ UNCHANGED <<limits, liveDue, reviewedFor>>

CountdownTick ==
    /\ isConfirming /\ countdown > 0
    /\ countdown' = countdown - 1
    /\ reviewedFor' = reviewedFor + 1
    /\ UNCHANGED <<limits, pendingParams, isConfirming, liveDue, reviewed>>

CountdownApplies ==
    /\ isConfirming /\ countdown = 0
    /\ limits' = pendingParams
    /\ isConfirming' = FALSE
    /\ pendingParams' = NotPending
    /\ reviewed' = NotReviewed
    /\ UNCHANGED <<countdown, liveDue, reviewedFor>>

LimitNext ==
    \/ \E value \in Limits : LiveLimitsArrive(value)
    \/ LiveLimitsFail
    \/ \E i \in 1..2, value \in Limits : HandleChange(i, value)
    \/ HandleApply
    \/ CancelApply
    \/ CountdownTick
    \/ CountdownApplies

LimitSpec == LimitInit /\ [][LimitNext]_limitVars

-----------------------------------------------------------------------------
\* Limits change only to what was on display when the operator asked for a review,
\* after the whole countdown of that review, or by the backend's first answer: no
\* late answer, edit, or earlier, cancelled review gets mixed in.
\* About RiskControl.jsx:23-80 and 99-127.
AppliedAsReviewed ==
    [][limits' # limits
         => \/ liveDue /\ ~liveDue'
            \/ limits' = reviewed /\ reviewedFor = ReviewDelay]_limitVars
=============================================================================
