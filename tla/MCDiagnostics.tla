---------------------------- MODULE MCDiagnostics ----------------------------
(***************************************************************************)
(* From findings to messages on small instances, in two parts that share   *)
(* no state: the life of the diagnostics of two processes and two instant  *)
(* rules of one category (Diagnostics), and the dispatch of diagnostics to *)
(* a sink for everything and a sink for critical ones (OutputPipeline).  A *)
(* behaviour is one of them.                                               *)
(***************************************************************************)
EXTENDS Diagnostics, OutputPipeline

CONSTANTS p1, p2, f1, f2

MCPids == {p1, p2}
MCBands == 0 .. 2
MCRules == <<[min |-> 2, sustained |-> 0, severity |-> 2, category |-> "CpuSaturation"],
             [min |-> 1, sustained |-> 0, severity |-> 1, category |-> "CpuSaturation"]>>
OnTime == {1}

\* The dispatches: a sink for everything and one for what is critical.
MCFindings == {f1, f2}
MCMinSeverity == <<0, 2>>

VARIABLE part

MCInit ==
  /\ part \in {"life", "outputs"}
  /\ Init /\ DispatchInit

\* The bounds on dispatches and time are used up.
OutputsOver ==
  now = MaxTime /\ Len(tasks) = MaxTasks /\ UNCHANGED dispatchVars

MCNext ==
  \/ /\ part = "life" /\ Next
     /\ UNCHANGED <<part, dispatchVars>>
  \/ /\ part = "outputs" /\ (DispatchNext \/ OutputsOver)
     /\ UNCHANGED <<part, vars>>

MCSpec == MCInit /\ [][MCNext]_<<part, vars, dispatchVars>>
=============================================================================
