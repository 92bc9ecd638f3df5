---------------------------- MODULE EmotionGuard ----------------------------
(***************************************************************************)
(* The two cooldowns that keep an operator from acting in haste:           *)
(* pages/EmotionGuard, which unlocks manual controls some time after a     *)
(* reason was given, and components/EmotionGuardOverlay, which its parent  *)
(* shows on a trigger and which reports when the cooldown is over.  Both   *)
(* count down in a state updater run by a one-second interval.             *)
(*                                                                         *)
(* The parent of the overlay is not in the source; it may raise and lower  *)
(* the trigger and change the length of the cooldown at any time.  No part *)
(* of the program shows either component yet.                              *)
(***************************************************************************)
EXTENDS Naturals

CONSTANTS Cooldown,   \* seconds of the page's cooldown (30 in the code)
          Lengths     \* seconds a parent may ask of the overlay

ASSUME GuardAssumption == /\ Cooldown \in Nat \ {0}
                          /\ Lengths \subseteq Nat \ {0}
                          /\ \E n \in Lengths : \A m \in Lengths : m <= n

VARIABLES overrideState, \* LOCKED, COOLDOWN or UNLOCKED
          cooldown,      \* seconds left
          reason,        \* the reason field is not blank
          reflected,     \* history: seconds since the cooldown was requested
          isTriggered, cooldownSeconds,   \* the overlay's properties
          overlayLeft,   \* timeLeft of the overlay
          resetDue,      \* the overlay's reset timer has not run yet
          overlayTicking,\* the overlay's interval runs
          overlayEndured,       \* history: seconds since the overlay was triggered
          completed      \* onCooldownComplete was called for this trigger

guardVars == <<overrideState, cooldown, reason, reflected, isTriggered, cooldownSeconds,
               overlayLeft, resetDue, overlayTicking, overlayEndured, completed>>

bypassVars == <<overrideState, cooldown, reason, reflected>>
overlayVars == <<isTriggered, cooldownSeconds, overlayLeft, resetDue, overlayTicking,
                 overlayEndured, completed>>

Longest == CHOOSE n \in Lengths : \A m \in Lengths : m <= n

GuardTypeOK ==
    /\ overrideState \in {"LOCKED", "COOLDOWN", "UNLOCKED"}
    /\ cooldown \in 0..Cooldown
    /\ reason \in BOOLEAN
    /\ reflected \in 0..Cooldown
    /\ isTriggered \in BOOLEAN
    /\ cooldownSeconds \in Lengths
    /\ overlayLeft \in 0..Longest
    /\ resetDue \in BOOLEAN
    /\ overlayTicking \in BOOLEAN
    /\ overlayEndured \in 0..Longest
    /\ completed \in BOOLEAN

GuardInit ==
    /\ overrideState = "LOCKED"
    /\ cooldown = Cooldown
    /\ reason = FALSE
    /\ reflected = 0
    /\ isTriggered = FALSE
    /\ cooldownSeconds \in Lengths
    /\ overlayLeft = cooldownSeconds
    /\ resetDue = FALSE
    /\ overlayTicking = FALSE
    /\ overlayEndured = 0
    /\ completed = FALSE

-----------------------------------------------------------------------------
\* The text field is there only while the page is locked.
EditReason ==
    /\ overrideState = "LOCKED"
    /\ reason' = ~reason
    /\ UNCHANGED <<overrideState, cooldown, reflected, overlayVars>>

RequestOverride ==
    /\ overrideState = "LOCKED" /\ reason
    /\ overrideState' = "COOLDOWN"
    /\ cooldown' = Cooldown
    /\ reflected' = 0
    /\ UNCHANGED <<reason, overlayVars>>

\* "Abort Intent", and "Restore Auto-Pilot" once unlocked.
CancelOverride ==
    /\ overrideState # "LOCKED"
    /\ overrideState' = "LOCKED"
    /\ reason' = FALSE
    /\ UNCHANGED <<cooldown, reflected, overlayVars>>

CooldownTick ==
    /\ overrideState = "COOLDOWN"
    /\ cooldown' = IF cooldown <= 1 THEN 0 ELSE cooldown - 1
    /\ overrideState' = IF cooldown <= 1 THEN "UNLOCKED" ELSE "COOLDOWN"
    /\ reflected' = reflected + 1
    /\ UNCHANGED <<reason, overlayVars>>

\* The effect of the overlay, run whenever one of its inputs changed: the old timers
\* are cleared, new ones started.
EffectRuns ==
    /\ overlayTicking' = isTriggered'
    /\ resetDue' = isTriggered'
    /\ overlayEndured' = 0
    /\ completed' = FALSE

ParentTriggers ==
    /\ ~isTriggered
    /\ isTriggered' = TRUE
    /\ cooldownSeconds' \in Lengths
    /\ EffectRuns
    /\ UNCHANGED <<overlayLeft, bypassVars>>

ParentReleases ==
    /\ isTriggered
    /\ isTriggered' = FALSE
    /\ EffectRuns
    /\ UNCHANGED <<cooldownSeconds, overlayLeft, bypassVars>>

\* Another length, or another callback, while it is triggered: all over again.
ParentChanges ==
    /\ isTriggered
    /\ cooldownSeconds' \in Lengths
    /\ UNCHANGED isTriggered
    /\ EffectRuns
    /\ UNCHANGED <<overlayLeft, bypassVars>>

\* The timer of no delay, always before the interval's first second.
ResetTimer ==
    /\ resetDue
    /\ resetDue' = FALSE
    /\ overlayLeft' = cooldownSeconds
    /\ UNCHANGED <<isTriggered, cooldownSeconds, overlayTicking, overlayEndured, completed,
                   bypassVars>>

\* Mutant: the interval is not cleared at the end.
OverlayTicksOn ==
    /\ overlayTicking /\ ~resetDue
    /\ overlayLeft' = overlayLeft - 1
    /\ completed' = (overlayLeft <= 1)
    /\ overlayEndured' = overlayEndured + 1
    /\ UNCHANGED <<isTriggered, cooldownSeconds, resetDue, overlayTicking, bypassVars>>

OverlayTick ==
    /\ overlayTicking /\ ~resetDue
    /\ overlayLeft' = IF overlayLeft <= 1 THEN 0 ELSE overlayLeft - 1
    /\ overlayTicking' = (overlayLeft > 1)
    /\ completed' = (overlayLeft <= 1)
    /\ overlayEndured' = overlayEndured + 1
    /\ UNCHANGED <<isTriggered, cooldownSeconds, resetDue, bypassVars>>

GuardNext ==
    \/ EditReason
    \/ RequestOverride
    \/ CancelOverride
    \/ CooldownTick
    \/ ParentTriggers
    \/ ParentReleases
    \/ ParentChanges
    \/ ResetTimer
    \/ OverlayTick

GuardSpec == GuardInit /\ [][GuardNext]_guardVars

-----------------------------------------------------------------------------
\* Controls are unlocked, and the overlay reports its end, only after the whole
\* cooldown was spent without a break, whatever was aborted, released or changed
\* before.  About EmotionGuard.jsx:10-37 and EmotionGuardOverlay.jsx:8-32.
NoShortcut ==
    /\ overrideState = "UNLOCKED" => reason /\ reflected = Cooldown
    /\ completed => overlayEndured = cooldownSeconds
=============================================================================
