--------------------------- MODULE ArbiterSurfaces ---------------------------
(***************************************************************************)
(* The arbiter as a whole: the shared queue with its executor (Arbiter)    *)
(* and the terminal UI with the queue of its Arbiter tab (TuiApp), side by *)
(* side as aether-terminal/src/main.rs starts them.  App::new receives the *)
(* world, the diagnostics and the predictions but not the shared queue, so *)
(* the two components have no variable in common and take steps of their   *)
(* own.  The action for a diagnostic goes by the diagnostic's name in both *)
(* queues, so Diags is a part of Ids.                                      *)
(***************************************************************************)
EXTENDS Naturals, Sequences, SequencesExt

CONSTANTS Ids, Diags, Executable, HistoryCapacity, VisibleRows, MaxEntries

VARIABLES
  pending, approved, denied, batch, executorUp, cancelled, executed,
  okApprove, okDeny,
  source, diagnostics, diagSelected, diagScroll, entries, arbSelected, tab, pc, frame,
  submissions, decisions

Shared == INSTANCE Arbiter
Tui == INSTANCE TuiApp

sharedVars == <<pending, approved, denied, batch, executorUp, cancelled,
                executed, okApprove, okDeny>>
tuiVars == <<source, diagnostics, diagSelected, diagScroll, entries, arbSelected, tab, pc,
             frame, submissions, decisions>>
vars == <<sharedVars, tuiVars>>

Init == Shared!Init /\ Tui!Init

Next ==
  \/ Shared!Next /\ UNCHANGED tuiVars
  \/ Tui!Next /\ UNCHANGED sharedVars

\* Each component with its own fairness: the executor is polled, and the loop of
\* the terminal turns for ever and samples the shared vector every 60 frames; no
\* key is ever certain.
FairSpec ==
  /\ Init /\ [][Next]_vars
  /\ WF_sharedVars(Shared!DrainApproved) /\ WF_sharedVars(Shared!ExecuteAction)
  /\ WF_sharedVars(Shared!ExecutorStops)
  /\ WF_tuiVars(Tui!Sample) /\ WF_tuiVars(Tui!Draw) /\ WF_tuiVars(Tui!KeyTurn)
  /\ SF_tuiVars(Tui!Sample /\ diagnostics' = source)
-----------------------------------------------------------------------------
\* An action that the human approves in the terminal is executed, unless the
\* program ends.
TerminalApprovalExecuted ==
  \A d \in Diags :
    (\E e \in ToSet(entries) : e.diag = d /\ e.status = "Approved") ~>
      (cancelled \/ d \in ToSet(executed))
=============================================================================
