---------------------------- MODULE BacktestLab ----------------------------
(***************************************************************************)
(* The two pages that run a backtest.  pages/BacktestLab: a run resets the *)
(* results of the one before, shows the overview's equity curve when the   *)
(* server does not run it, and a finished run is saved under the strategy  *)
(* that is selected by then.  BacktestPage of App.jsx shows what a run     *)
(* answered or that it failed; a strategy can be selected during a run.    *)
(*                                                                         *)
(* A result is known by the number of its run.  The progress bar is        *)
(* decoration and left out.                                                *)
(***************************************************************************)
EXTENDS Naturals

CONSTANTS Strategies,  \* names in the drop-down list
          NoStrategy,  \* no strategy is chosen yet
          MaxRuns,     \* bound: runs
          NoResult,    \* an empty chart, or no statistics
          Overview     \* the overview's equity curve

ASSUME LabAssumption == NoStrategy \notin Strategies /\ MaxRuns \in Nat

VARIABLES labPage,     \* which of the two: "lab" or "shell"
          listed,      \* the first load has ended
          config,      \* the strategy selected
          backtestEnabled,
          labRuns,     \* runs started
          labRun,      \* what the run under way waits for
          hasRun, isSaving,
          simData,     \* the curve on display
          simStats,    \* the statistics on display
          saves        \* history: what the last save posted

labVars == <<labPage, listed, config, backtestEnabled, labRuns, labRun, hasRun, isSaving,
             simData, simStats, saves>>

RunResults == (1..MaxRuns) \cup {NoResult}

LabTypeOK ==
    /\ labPage \in {"lab", "shell"}
    /\ listed \in BOOLEAN
    /\ config \in Strategies \cup {NoStrategy}
    /\ backtestEnabled \in BOOLEAN
    /\ labRuns \in 0..MaxRuns
    /\ labRun \in {"no", "run", "fallback"}
    /\ hasRun \in BOOLEAN
    /\ isSaving \in BOOLEAN
    /\ simData \in RunResults \cup {Overview}
    /\ simStats \in RunResults
    /\ saves \in (RunResults \cup {Overview}) \X RunResults

LabInit ==
    /\ labPage \in {"lab", "shell"}
    /\ listed = FALSE
    /\ config = NoStrategy
    /\ backtestEnabled = TRUE
    /\ labRuns = 0
    /\ labRun = "no"
    /\ hasRun = FALSE
    /\ isSaving = FALSE
    /\ simData = NoResult
    /\ simStats = NoResult
    /\ saves = <<NoResult, NoResult>>

-----------------------------------------------------------------------------
\* loadInitialData ends: with a list (perhaps empty) and a status, whatever runs by
\* then; or with an error.
LoadArrives(enabled, some) ==
    /\ labPage = "lab" /\ ~listed
    /\ listed' = TRUE
    /\ backtestEnabled' = enabled
    /\ config' \in IF some THEN Strategies ELSE {config}
    /\ UNCHANGED <<labPage, labRuns, labRun, hasRun, isSaving, simData, simStats, saves>>

LoadFails ==
    /\ labPage = "lab" /\ ~listed
    /\ listed' = TRUE
    /\ backtestEnabled' = FALSE
    /\ UNCHANGED <<labPage, config, labRuns, labRun, hasRun, isSaving, simData, simStats,
                   saves>>

\* The drop-down list is disabled during a run, and empty until the list arrived.
Choose(s) ==
    /\ labPage = "lab" /\ config # NoStrategy /\ labRun = "no"
    /\ config' = s
    /\ UNCHANGED <<labPage, listed, backtestEnabled, labRuns, labRun, hasRun, isSaving,
                   simData, simStats, saves>>

\* That of BacktestPage is never disabled, and its first choice is none.
ShellChooses(s) ==
    /\ labPage = "shell"
    /\ config' = s
    /\ UNCHANGED <<labPage, listed, backtestEnabled, labRuns, labRun, hasRun, isSaving,
                   simData, simStats, saves>>

ShellMayRun == labPage = "shell" /\ config # NoStrategy

MayRun ==
    /\ labRun = "no" /\ labRuns < MaxRuns
    /\ ShellMayRun \/ (labPage = "lab" /\ backtestEnabled)

\* Mutant: a run leaves the results of the one before until it has its own.
RunKeepsResults ==
    /\ MayRun
    /\ labRuns' = labRuns + 1
    /\ labRun' = "run"
    /\ UNCHANGED <<labPage, listed, config, backtestEnabled, hasRun, isSaving,
                   simData, simStats, saves>>

RunSimulation ==
    /\ MayRun
    /\ labRuns' = labRuns + 1
    /\ labRun' = "run"
    /\ hasRun' = FALSE
    /\ simData' = NoResult
    /\ simStats' = NoResult
    /\ UNCHANGED <<labPage, listed, config, backtestEnabled, isSaving, saves>>

RunSucceeds ==
    /\ labRun = "run"
    /\ labRun' = "no"
    /\ hasRun' = TRUE
    /\ simData' = labRuns
    /\ simStats' = labRuns
    /\ UNCHANGED <<labPage, listed, config, backtestEnabled, labRuns, isSaving, saves>>

\* A status other than 2xx, 503 among them: BacktestLab asks the overview for its curve.
RunRefused(disabled) ==
    /\ labPage = "lab" /\ labRun = "run"
    /\ labRun' = "fallback"
    /\ backtestEnabled' = (backtestEnabled /\ ~disabled)
    /\ UNCHANGED <<labPage, listed, config, labRuns, hasRun, isSaving, simData, simStats,
                   saves>>

FallbackArrives ==
    /\ labRun = "fallback"
    /\ labRun' = "no"
    /\ simData' = Overview
    /\ simStats' = NoResult
    /\ UNCHANGED <<labPage, listed, config, backtestEnabled, labRuns, hasRun, isSaving, saves>>

\* No answer, to the run or to the fallback.
RunFails ==
    /\ labPage = "lab" /\ labRun # "no"
    /\ labRun' = "no"
    /\ simStats' = NoResult
    /\ UNCHANGED <<labPage, listed, config, backtestEnabled, labRuns, hasRun, isSaving,
                   simData, saves>>

\* BacktestPage: no answer, a status other than 2xx, or a body that is no JSON.
ShellRunFails ==
    /\ labPage = "shell" /\ labRun = "run"
    /\ labRun' = "no"
    /\ UNCHANGED <<labPage, listed, config, backtestEnabled, labRuns, hasRun, isSaving,
                   simData, simStats, saves>>

\* "Save Run" posts the curve and the statistics; its button is disabled without a
\* finished run.  A run may start while the save is under way.
Save ==
    /\ labPage = "lab" /\ hasRun /\ ~isSaving
    /\ isSaving' = TRUE
    /\ saves' = <<simData, simStats>>
    /\ UNCHANGED <<labPage, listed, config, backtestEnabled, labRuns, labRun, hasRun,
                   simData, simStats>>

SaveEnds ==
    /\ isSaving
    /\ isSaving' = FALSE
    /\ UNCHANGED <<labPage, listed, config, backtestEnabled, labRuns, labRun, hasRun,
                   simData, simStats, saves>>

LabNext ==
    \/ \E enabled, some \in BOOLEAN : LoadArrives(enabled, some)
    \/ LoadFails
    \/ \E s \in Strategies : Choose(s)
    \/ \E s \in Strategies \cup {NoStrategy} : ShellChooses(s)
    \/ RunSimulation
    \/ RunSucceeds
    \/ \E disabled \in BOOLEAN : RunRefused(disabled)
    \/ FallbackArrives
    \/ RunFails
    \/ ShellRunFails
    \/ Save
    \/ SaveEnds

LabSpec == LabInit /\ [][LabNext]_labVars

-----------------------------------------------------------------------------
\* Statistics are on display only beside the curve of the same run, and the last one;
\* what is saved is the curve and the statistics of one run: never the overview's
\* curve, never a part of an earlier run.  (Its name may be another's: it is the
\* strategy selected when the button is clicked.)
\* About BacktestLab.jsx:65-143 and 328-362, and App.jsx:1348-1373.
RunsStayApart ==
    /\ simStats # NoResult => simStats = labRuns /\ simData = labRuns /\ hasRun
    /\ saves[1] = saves[2]
=============================================================================
