--------------------------- MODULE OutputPipeline ---------------------------
(***************************************************************************)
(* OutputPipeline::dispatch of aether-output/src/pipeline.rs, which the    *)
(* collector spawns as a task of its own for every diagnostic of every     *)
(* batch: a test of the deduplication window under one mutex, then for     *)
(* each sink in turn the severity filter and the rate limit under another, *)
(* and in the end the sends, all at the same time, whose outcome is logged *)
(* and otherwise ignored.                                                  *)
(*                                                                         *)
(* A unit of time is long compared with the code between two awaits, so    *)
(* the clock moves only while no task is between its start and its sends;  *)
(* tasks interleave there, and a send may take any time.                   *)
(***************************************************************************)
EXTENDS Integers, FiniteSets, Sequences, Functions

CONSTANTS
  Findings,             \* the (target, category) pairs
  MinSeverity,          \* the min_severity of the sinks, in their order
  DedupWindow,          \* dedup_window
  Minute,               \* the period of the rate limit
  MaxPerMinute,         \* max_per_minute
  MaxTasks, MaxTime     \* bounds: dispatches, and the clock

Levels == 0 .. 2
Sinks == DOMAIN MinSeverity

ASSUME OutputAssumption ==
  /\ MinSeverity \in Seq(Levels)
  /\ DedupWindow \in Nat /\ Minute \in Nat /\ MaxPerMinute \in Nat
  /\ MaxTasks \in Nat /\ MaxTime \in Nat

VARIABLES
  now,
  tasks,                \* the dispatches spawned so far, in order
  lastSent,             \* last_sent: when a pair last passed the window
  granted,              \* rate_state: the recent grants of every sink
  grants                \* history: every grant, by task and sink, with its time

dispatchVars == <<now, tasks, lastSent, granted, grants>>

\* Where a dispatch is past the last sink; it is at 0 before the window is tested.
Finished == Len(MinSeverity) + 1

DispatchInit ==
  /\ now = 0 /\ tasks = <<>>
  /\ lastSent = <<>>
  /\ granted = [s \in Sinks |-> {}]
  /\ grants = {}
-----------------------------------------------------------------------------
Spawn(f, sev) ==
  /\ Len(tasks) < MaxTasks
  /\ tasks' = Append(tasks, [finding |-> f, severity |-> sev, next |-> 0])
  /\ UNCHANGED <<now, lastSent, granted, grants>>

WithinWindow(f) == f \in DOMAIN lastSent /\ now - lastSent[f] < DedupWindow

\* Mutant: the time of sending is not noted.
TestWindowOnly(t) ==
  /\ tasks[t].next = 0
  /\ tasks' = [tasks EXCEPT ![t].next = IF WithinWindow(tasks[t].finding) THEN Finished ELSE 1]
  /\ UNCHANGED <<now, lastSent, granted, grants>>

\* The pair is noted as sent before any sink has been looked at.
TestWindow(t) ==
  /\ tasks[t].next = 0
  /\ LET f == tasks[t].finding
     IN  IF WithinWindow(f)
         THEN /\ tasks' = [tasks EXCEPT ![t].next = Finished]
              /\ UNCHANGED lastSent
         ELSE /\ tasks' = [tasks EXCEPT ![t].next = 1]
              /\ lastSent' = [g \in DOMAIN lastSent \cup {f} |->
                                IF g = f THEN now ELSE lastSent[g]]
  /\ UNCHANGED <<now, granted, grants>>

\* Mutant: the minute is one unit short.
RecentShort(s) == {g \in granted[s] : now - g.at + 1 < Minute}

\* The code keeps the times only; of two grants at one time both count.
Recent(s) == {g \in granted[s] : now - g.at < Minute}

ConsiderSink(t) ==
  /\ tasks[t].next \in Sinks
  /\ LET s == tasks[t].next
         severe == tasks[t].severity >= MinSeverity[s]
         allowed == severe /\ Cardinality(Recent(s)) < MaxPerMinute
         grant == [task |-> t, sink |-> s, at |-> now]
     IN  /\ tasks' = [tasks EXCEPT ![t].next = s + 1]
         /\ granted' = IF ~severe THEN granted
                       ELSE [granted EXCEPT ![s] =
                               IF allowed THEN Recent(s) \cup {grant} ELSE Recent(s)]
         /\ grants' = IF allowed THEN grants \cup {grant} ELSE grants
  /\ UNCHANGED <<now, lastSent>>

Clock ==
  /\ now < MaxTime
  /\ \A t \in DOMAIN tasks : tasks[t].next \in {0, Finished}
  /\ now' = now + 1
  /\ UNCHANGED <<tasks, lastSent, granted, grants>>

DispatchNext ==
  \/ \E f \in Findings, sev \in Levels : Spawn(f, sev)
  \/ \E t \in DOMAIN tasks : TestWindow(t) \/ ConsiderSink(t)
  \/ Clock

DispatchSpec == DispatchInit /\ [][DispatchNext]_dispatchVars
-----------------------------------------------------------------------------
\* However the dispatches interleave, no sink gets more than max_per_minute
\* messages in any period of a minute.
RateLimited ==
  \A s \in Sinks, from \in 0 .. MaxTime :
    Cardinality({g \in grants : g.sink = s /\ g.at >= from /\ g.at < from + Minute})
      <= MaxPerMinute

\* Two dispatches of one (target, category) pair that reach a sink are a
\* window apart, also when they run at the same time.
Deduplicated ==
  \A g, h \in grants :
    /\ g.sink = h.sink /\ g.task # h.task
    /\ tasks[g.task].finding = tasks[h.task].finding
    => g.at >= h.at + DedupWindow \/ h.at >= g.at + DedupWindow
=============================================================================
