---------------------------- MODULE StartupProofs ----------------------------
(***************************************************************************)
(* Theorems about Startup: the terminal is given back, and the failure of  *)
(* a task takes nothing with it but what served it, for every command      *)
(* line, every file and any number of failures; and about KernelEvents,    *)
(* that what the kernel's rings took arrives, for rings, a channel and a   *)
(* number of processes and connections of any size.                        *)
(***************************************************************************)
EXTENDS Startup, KernelEvents, TLAPS

-----------------------------------------------------------------------------
(* The terminal.  Between the call that sets a mode and the one that       *)
(* resets it main returns only by a call that the terminal refuses.        *)

Quiet == {"configuration", "rules", "sources", "stdio", "end"}

TerminalInv ==
  /\ raw => phase \in {"enterScreen", "newTerminal", "display", "tui", "leaveRaw"}
  /\ alternate => phase \in {"newTerminal", "display", "tui", "leaveRaw", "leaveScreen"}
  /\ exit # "none" /\ ~refused => phase \in Quiet

LEMMA InitTerminal == Init => TerminalInv
BY DEF Init, TerminalInv

\* Only the calls to the terminal change its modes; the other steps of main
\* are taken, or end it, where no mode is set.
LEMMA NextTerminal == TerminalInv /\ [Next]_vars => TerminalInv'
<1> SUFFICES ASSUME TerminalInv, [Next]_vars PROVE TerminalInv'
    OBVIOUS
<1> USE DEF TerminalInv, terminal, Quiet
<1>1. CASE LoadConfig
    BY <1>1 DEF LoadConfig, At, Abort, Return, tasks
<1>2. CASE StartIngestion
    BY <1>2 DEF StartIngestion, At, Spawn
<1>3. CASE StartRules
    BY <1>3 DEF StartRules, At, Abort, Return, Spawn
<1>4. CASE StartCore
    BY <1>4 DEF StartCore, At, Spawn
<1>5. CASE StartSources
    BY <1>5 DEF StartSources, At, Abort, Return, Spawn
<1>6. CASE StartAnalysis
    BY <1>6 DEF StartAnalysis, At, Spawn
<1>7. CASE StartServers
    BY <1>7 DEF StartServers, At, Spawn
<1>8. CASE AnswerOnStdout
    BY <1>8 DEF AnswerOnStdout
<1>9. CASE StdioEnds
    BY <1>9 DEF StdioEnds, Return
<1>10. CASE StartInterfaces
    BY <1>10 DEF StartInterfaces, At, Spawn
<1>11. CASE EnterTerminal
    BY <1>11 DEF EnterTerminal, TerminalCall, At, Abort, Return
<1>12. CASE StartDisplay
    BY <1>12 DEF StartDisplay, At, Spawn
<1>13. CASE Draw
    BY <1>13 DEF Draw
<1>14. CASE TuiEnds
    BY <1>14 DEF TuiEnds, At
<1>15. CASE LeaveTerminal
    BY <1>15 DEF LeaveTerminal, TerminalCall, At, Abort, Return
<1>16. CASE Finish
    BY <1>16 DEF Finish, Return
<1>17. ASSUME NEW severity \in 0 .. 2, SinkWrites(severity) PROVE TerminalInv'
    BY <1>17 DEF SinkWrites
<1>18. ASSUME NEW t \in running, Leaves(t) PROVE TerminalInv'
    BY <1>18 DEF Leaves
<1>19. ASSUME NEW t \in running, Fails(t) PROVE TerminalInv'
    BY <1>19 DEF Fails
<1>20. CASE UNCHANGED vars
    BY <1>20 DEF vars
<1> QED
    BY <1>1, <1>2, <1>3, <1>4, <1>5, <1>6, <1>7, <1>8, <1>9, <1>10, <1>11, <1>12, <1>13, <1>14,
       <1>15, <1>16, <1>17, <1>18, <1>19, <1>20 DEF Next, Ended

\* However the program ends, and whatever its tasks did, the terminal is as
\* it was, unless it has refused a call.
THEOREM TerminalIsRestored == Spec => []TerminalRestored
<1>1. TerminalInv => TerminalRestored
    BY DEF TerminalInv, TerminalRestored, Quiet
<1> QED
    BY <1>1, InitTerminal, NextTerminal, PTL DEF Spec
-----------------------------------------------------------------------------
(* The tasks.  A task can only take with it what its failure closes a      *)
(* channel to or from, if tasks are spawned once, and a loop over a        *)
(* channel that has no sender but a task is spawned along with that task.  *)

IngestionTasks == {"pipeline", "ringReader", "bridge", "rediscovery"}
RuleTasks == {"watcher", "scriptEngine", "ruleForwarder"}
CoreTasks == {"updater", "executor", "forwarder", "predictor", "predictionCollector"}
SourceTasks == {"scraper", "prober", "consumer"}
AnalysisTasks == {"analyzer", "collector"}
ServerTasks == {"exporterUpdate", "exporter", "grpc"}
InterfaceTasks == {"mcpSse", "webMetrics", "web"}

\* The tasks that may have been spawned before a step of main.
SpawnedBefore(step) ==
  CASE step \in {"configuration", "ingestion"} -> {}
    [] step = "rules" -> IngestionTasks
    [] step = "core" -> IngestionTasks \cup RuleTasks
    [] step = "sources" -> IngestionTasks \cup RuleTasks \cup CoreTasks
    [] step = "analysis" -> IngestionTasks \cup RuleTasks \cup CoreTasks \cup SourceTasks
    [] step = "servers" ->
         IngestionTasks \cup RuleTasks \cup CoreTasks \cup SourceTasks \cup AnalysisTasks
    [] step \in {"stdio", "interfaces"} ->
         IngestionTasks \cup RuleTasks \cup CoreTasks \cup SourceTasks \cup AnalysisTasks
           \cup ServerTasks
    [] step \in {"rawMode", "enterScreen", "newTerminal", "display"} ->
         IngestionTasks \cup RuleTasks \cup CoreTasks \cup SourceTasks \cup AnalysisTasks
           \cup ServerTasks \cup InterfaceTasks
    [] step \in {"tui", "leaveRaw", "leaveScreen", "end"} ->
         IngestionTasks \cup RuleTasks \cup CoreTasks \cup SourceTasks \cup AnalysisTasks
           \cup ServerTasks \cup InterfaceTasks \cup {"predictionDisplay"}

Steps == {"configuration", "ingestion", "rules", "core", "sources", "analysis", "servers",
          "stdio", "interfaces", "rawMode", "enterScreen", "newTerminal", "display", "tui",
          "leaveRaw", "leaveScreen", "end"}

\* The tasks that end by themselves.
Failable == {"pipeline", "ringReader", "exporter", "grpc", "mcpSse", "web", "rediscovery",
             "scraper", "prober", "analyzer"}

SpawnedInOrder == phase \in Steps /\ started \subseteq SpawnedBefore(phase)
FailedForGood == failed \subseteq started \cap Failable /\ failed \cap running = {}
ServedTogether ==
  /\ "bridge" \in started => "ringReader" \in started
  /\ "predictionCollector" \in started => "predictor" \in started
  /\ "collector" \in started => "analyzer" \in started

TaskInv ==
  /\ SpawnedInOrder
  /\ running \subseteq started
  /\ FailedForGood
  /\ ServedTogether
  /\ FailureStaysLocal

LEMMA InitTasks == Init => TaskInv
BY DEF Init, TaskInv, SpawnedInOrder, SpawnedBefore, Steps, FailedForGood, ServedTogether,
       FailureStaysLocal

\* A step of main that spawns tasks which have not been there before.
LEMMA SpawnTasks ==
  ASSUME TaskInv, NEW new, Spawn(new), exit = "none", exit' = exit,
         new \cap started = {},
         SpawnedInOrder', ServedTogether'
  PROVE  TaskInv'
BY DEF TaskInv, FailedForGood, FailureStaysLocal, Spawn

\* A step that spawns nothing, and may end the program.
LEMMA OtherTasks ==
  ASSUME TaskInv, UNCHANGED <<started, failed>>,
         \/ running' = running /\ exit' = exit
         \/ running' = {} /\ exit' # "none",
         SpawnedInOrder'
  PROVE  TaskInv'
BY DEF TaskInv, FailedForGood, ServedTogether, FailureStaysLocal

LEMMA FailingTask ==
  ASSUME TaskInv, NEW t \in running, Fails(t)
  PROVE  TaskInv'
<1>1. t \in Failable
    BY DEF Fails, MayFail, Panics, Failable
<1> QED
    BY <1>1 DEF Fails, TaskInv, SpawnedInOrder, FailedForGood, ServedTogether, FailureStaysLocal

\* A task that leaves is a casualty of one that has failed.
LEMMA LeavingTask ==
  ASSUME TaskInv, NEW t \in running, Leaves(t)
  PROVE  TaskInv'
<1>1. PICK ch \in Channels :
        \/ ReceiverOf[ch] = t /\ LeavesOnClose(ch) /\ Closed(ch)
        \/ t \in SendersOf[ch] /\ LeavesOnRefusal(ch) /\ ReceiverGone(ch)
    BY DEF Leaves
<1>2. \A u \in started \ running : u \in failed \/ \E f \in failed : u \in Casualties(f)
    BY DEF Leaves, TaskInv, FailureStaysLocal
<1>3. failed \subseteq Failable /\ t \notin failed /\ t \in started
    BY DEF TaskInv, FailedForGood
<1>4. \E f \in failed : t \in Casualties(f)
  <2>1. CASE ch = "events"
    BY <1>1, <1>2, <1>3, <2>1
       DEF ReceiverOf, SendersOf, LeavesOnClose, LeavesOnRefusal, Closed, ReceiverGone, HeldByMain,
           Casualties, Failable
  <2>2. CASE ch = "actions"
    BY <1>1, <1>2, <1>3, <2>2
       DEF ReceiverOf, SendersOf, LeavesOnClose, LeavesOnRefusal, Closed, ReceiverGone, HeldByMain,
           Casualties, Failable
  <2>3. CASE ch = "raw"
    BY <1>1, <1>2, <1>3, <2>3
       DEF ReceiverOf, SendersOf, LeavesOnClose, LeavesOnRefusal, Closed, ReceiverGone,
           Casualties, Failable, TaskInv, ServedTogether
  <2>4. CASE ch = "predictions"
    BY <1>1, <1>2, <1>3, <2>4
       DEF ReceiverOf, SendersOf, LeavesOnClose, LeavesOnRefusal, Closed, ReceiverGone,
           Casualties, Failable, TaskInv, ServedTogether
  <2>5. CASE ch = "metrics"
    BY <1>1, <1>2, <1>3, <2>5
       DEF ReceiverOf, SendersOf, LeavesOnClose, LeavesOnRefusal, Closed, ReceiverGone,
           Casualties, Failable, TaskInv, ServedTogether
  <2>6. CASE ch = "diagnostics"
    BY <1>1, <1>2, <1>3, <2>6
       DEF ReceiverOf, SendersOf, LeavesOnClose, LeavesOnRefusal, Closed, ReceiverGone,
           Casualties, Failable, TaskInv, ServedTogether
  <2> QED
    BY <1>1, <2>1, <2>2, <2>3, <2>4, <2>5, <2>6 DEF LeavesOnClose, LeavesOnRefusal
<1> QED
    BY <1>2, <1>4 DEF Leaves, TaskInv, SpawnedInOrder, FailedForGood, ServedTogether,
                      FailureStaysLocal
\* A step of main that spawns only tasks of its own.
LEMMA NextTasks == TaskInv /\ [Next]_vars => TaskInv'
<1> SUFFICES ASSUME TaskInv, [Next]_vars PROVE TaskInv'
    OBVIOUS
<1>a. SpawnedInOrder /\ ServedTogether
    BY DEF TaskInv
<1> USE DEF SpawnedInOrder, SpawnedBefore, Steps, ServedTogether, IngestionTasks, RuleTasks,
            CoreTasks, SourceTasks, AnalysisTasks, ServerTasks, InterfaceTasks, terminal, tasks
<1>1. CASE LoadConfig
    BY <1>a, <1>1, OtherTasks DEF LoadConfig, At, Abort, Return
<1>2. CASE StartIngestion
  <2>1. PICK new \in SUBSET IngestionTasks : Spawn(new) /\ ("bridge" \in new => "ringReader" \in new)
    BY <1>2 DEF StartIngestion
  <2>2. new \cap started = {} /\ exit = "none" /\ exit' = exit /\ SpawnedInOrder' /\ ServedTogether'
    BY <1>a, <1>2, <2>1 DEF StartIngestion, At, Spawn
  <2> QED
    BY <2>1, <2>2, SpawnTasks
<1>3. CASE StartRules
  <2>1. CASE Abort("rules")
    BY <1>a, <2>1, OtherTasks DEF Abort, Return
  <2>2. CASE ~ Abort("rules")
    <3>1. PICK new \in SUBSET RuleTasks : Spawn(new)
      BY <1>3, <2>2 DEF StartRules
    <3>2. new \cap started = {} /\ exit = "none" /\ exit' = exit /\ SpawnedInOrder' /\ ServedTogether'
      BY <1>a, <1>3, <2>2, <3>1 DEF StartRules, At, Spawn
    <3> QED
      BY <3>1, <3>2, SpawnTasks
  <2> QED
    BY <2>1, <2>2
<1>4. CASE StartCore
  <2>1. PICK new \in SUBSET CoreTasks : Spawn(new)
                                     /\ ("predictionCollector" \in new => "predictor" \in new)
    BY <1>4 DEF StartCore
  <2>2. new \cap started = {} /\ exit = "none" /\ exit' = exit /\ SpawnedInOrder' /\ ServedTogether'
    BY <1>a, <1>4, <2>1 DEF StartCore, At, Spawn
  <2> QED
    BY <2>1, <2>2, SpawnTasks
<1>5. CASE StartSources
  <2>1. CASE Abort("sources")
    BY <1>a, <2>1, OtherTasks DEF Abort, Return
  <2>2. CASE ~ Abort("sources")
    <3>1. PICK new \in SUBSET SourceTasks : Spawn(new)
      BY <1>5, <2>2 DEF StartSources
    <3>2. new \cap started = {} /\ exit = "none" /\ exit' = exit /\ SpawnedInOrder' /\ ServedTogether'
      BY <1>a, <1>5, <2>2, <3>1 DEF StartSources, At, Spawn
    <3> QED
      BY <3>1, <3>2, SpawnTasks
  <2> QED
    BY <2>1, <2>2
<1>6. CASE StartAnalysis
  <2>1. PICK new \in SUBSET AnalysisTasks : Spawn(new)
                                         /\ ("collector" \in new => "analyzer" \in new)
    BY <1>6 DEF StartAnalysis
  <2>2. new \cap started = {} /\ exit = "none" /\ exit' = exit /\ SpawnedInOrder' /\ ServedTogether'
    BY <1>a, <1>6, <2>1 DEF StartAnalysis, At, Spawn
  <2> QED
    BY <2>1, <2>2, SpawnTasks
<1>7. CASE StartServers
  <2>1. PICK new \in SUBSET ServerTasks : Spawn(new)
    BY <1>7 DEF StartServers
  <2>2. new \cap started = {} /\ exit = "none" /\ exit' = exit /\ SpawnedInOrder' /\ ServedTogether'
    BY <1>a, <1>7, <2>1 DEF StartServers, At, Spawn
  <2> QED
    BY <2>1, <2>2, SpawnTasks
<1>8. CASE AnswerOnStdout
    BY <1>a, <1>8, OtherTasks DEF AnswerOnStdout
<1>9. CASE StdioEnds
    BY <1>a, <1>9, OtherTasks DEF StdioEnds, Return
<1>10. CASE StartInterfaces
  <2>1. PICK new \in SUBSET InterfaceTasks : Spawn(new)
    BY <1>10 DEF StartInterfaces
  <2>2. new \cap started = {} /\ exit = "none" /\ exit' = exit /\ SpawnedInOrder' /\ ServedTogether'
    BY <1>a, <1>10, <2>1 DEF StartInterfaces, At, Spawn
  <2> QED
    BY <2>1, <2>2, SpawnTasks
<1>11. CASE EnterTerminal
    BY <1>a, <1>11, OtherTasks DEF EnterTerminal, TerminalCall, At, Abort, Return
<1>12. CASE StartDisplay
  <2>1. PICK new \in SUBSET {"predictionDisplay"} : Spawn(new)
    BY <1>12 DEF StartDisplay
  <2>2. new \cap started = {} /\ exit = "none" /\ exit' = exit /\ SpawnedInOrder' /\ ServedTogether'
    BY <1>a, <1>12, <2>1 DEF StartDisplay, At, Spawn
  <2> QED
    BY <2>1, <2>2, SpawnTasks
<1>13. CASE Draw
    BY <1>a, <1>13, OtherTasks DEF Draw
<1>14. CASE TuiEnds
    BY <1>a, <1>14, OtherTasks DEF TuiEnds, At
<1>15. CASE LeaveTerminal
    BY <1>a, <1>15, OtherTasks DEF LeaveTerminal, TerminalCall, At, Abort, Return
<1>16. CASE Finish
    BY <1>a, <1>16, OtherTasks DEF Finish, Return
<1>17. ASSUME NEW severity \in 0 .. 2, SinkWrites(severity) PROVE TaskInv'
    BY <1>a, <1>17, OtherTasks DEF SinkWrites
<1>18. ASSUME NEW t \in running, Leaves(t) PROVE TaskInv'
    BY <1>18, LeavingTask
<1>19. ASSUME NEW t \in running, Fails(t) PROVE TaskInv'
    BY <1>19, FailingTask
<1>20. CASE UNCHANGED vars
    BY <1>a, <1>20, OtherTasks DEF vars
<1> QED
    BY <1>1, <1>2, <1>3, <1>4, <1>5, <1>6, <1>7, <1>8, <1>9, <1>10, <1>11, <1>12, <1>13, <1>14,
       <1>15, <1>16, <1>17, <1>18, <1>19, <1>20 DEF Next, Ended

\* A task that has failed takes nothing with it but the tasks that only served
\* it, whatever the command line asks for and whichever tasks fail.
THEOREM FailuresStayLocal == Spec => []FailureStaysLocal
<1>1. TaskInv => FailureStaysLocal
    BY DEF TaskInv
<1> QED
    BY <1>1, InitTasks, NextTasks, PTL DEF Spec

\* The graph updater, the executor of approved actions and the script engine
\* are there from their start to the end of the program.
THEOREM UpdaterAndExecutorGoOn ==
  Spec => [](exit = "none" => {"updater", "executor", "scriptEngine"} \cap started \subseteq running)
<1>1. TaskInv => (exit = "none" => {"updater", "executor", "scriptEngine"} \cap started \subseteq running)
    BY DEF TaskInv, FailedForGood, FailureStaysLocal, Failable, Casualties
<1> QED
    BY <1>1, InitTasks, NextTasks, PTL DEF Spec
-----------------------------------------------------------------------------
(* Kernel events.  The events of each kind are numbered without a gap from *)
(* what was delivered to what is still in the ring.  While the reader has  *)
(* drained one ring and not the other, what it holds is not yet behind the *)
(* rest, so the numbers go on from the front to the rear (Continuous); an  *)
(* exit that is ahead of its fork has come with the poll before the one    *)
(* that will bring the fork (AheadOfFork).                                 *)

Event == [kind : {"fork", "exit"}, pid : Nat, no : Nat, poll : Nat]

\* The events of a kind in s are those with the numbers after lo up to hi, in order.
Numbered(s, kind, lo, hi) ==
  LET own == {i \in DOMAIN s : s[i].kind = kind}
  IN /\ {s[i].no : i \in own} = lo + 1 .. hi
     /\ \A i, j \in own : i < j => s[i].no < s[j].no

LEMMA NoneIsNumbered ==
  ASSUME NEW s \in Seq(Event), NEW kind, NEW n \in Nat, \A i \in DOMAIN s : s[i].kind # kind
  PROVE  Numbered(s, kind, n, n)
BY DEF Numbered

LEMMA NumberedConcat ==
  ASSUME NEW s \in Seq(Event), NEW t \in Seq(Event), NEW kind,
         NEW a \in Nat, NEW b \in Nat, NEW c \in Nat, a <= b, b <= c,
         Numbered(s, kind, a, b), Numbered(t, kind, b, c)
  PROVE  Numbered(s \o t, kind, a, c)
<1> DEFINE w == s \o t
           L == Len(s)
           own(x) == {i \in DOMAIN x : x[i].kind = kind}
<1>1. /\ w \in Seq(Event) /\ L \in Nat /\ Len(t) \in Nat
      /\ DOMAIN s = 1 .. L /\ DOMAIN t = 1 .. Len(t) /\ DOMAIN w = 1 .. L + Len(t)
      /\ \A i \in DOMAIN s : w[i] = s[i]
      /\ \A i \in DOMAIN t : w[L + i] = t[i]
      /\ \A i \in DOMAIN w : i \in DOMAIN s \/ i - L \in DOMAIN t
    OBVIOUS
<1> HIDE DEF w, L
<1>2. own(w) = own(s) \cup {L + i : i \in own(t)}
  <2>1. \A i \in DOMAIN w : i \in own(w) <=> i \in own(s) \/ i \in {L + j : j \in own(t)}
    <3> TAKE i \in DOMAIN w
    <3>1. CASE i \in DOMAIN s
      BY <1>1, <3>1
    <3>2. CASE i \notin DOMAIN s
      <4>1. i - L \in DOMAIN t /\ i = L + (i - L) /\ w[i] = t[i - L]
        BY <1>1, <3>2
      <4> QED
        BY <1>1, <3>2, <4>1
    <3> QED
      BY <3>1, <3>2
  <2>2. own(s) \subseteq DOMAIN w /\ {L + j : j \in own(t)} \subseteq DOMAIN w
    BY <1>1, SMTT(30)
  <2> QED
    BY <2>1, <2>2
<1>3. /\ {s[i].no : i \in own(s)} = a + 1 .. b /\ \A i, j \in own(s) : i < j => s[i].no < s[j].no
      /\ {t[i].no : i \in own(t)} = b + 1 .. c /\ \A i, j \in own(t) : i < j => t[i].no < t[j].no
    BY DEF Numbered
<1>4. {w[i].no : i \in own(w)} = {s[i].no : i \in own(s)} \cup {t[i].no : i \in own(t)}
  <2>1. \A i \in own(s) : w[i].no = s[i].no
    BY <1>1
  <2>2. \A i \in own(t) : w[L + i].no = t[i].no
    BY <1>1
  <2> HIDE DEF own
  <2> QED
    BY <1>2, <2>1, <2>2
<1>5. ASSUME NEW i \in own(w), NEW j \in own(w), i < j PROVE w[i].no < w[j].no
  <2>1. CASE i \in own(s) /\ j \in own(s)
    BY <1>1, <1>3, <1>5, <2>1
  <2>2. CASE i \in own(s) /\ j \notin own(s)
    <3>1. PICK l \in own(t) : j = L + l
      BY <1>2, <2>2
    <3>2. s[i].no \in a + 1 .. b /\ t[l].no \in b + 1 .. c
      BY <1>3, <2>2, <3>1
    <3> QED
      BY <1>1, <2>2, <3>1, <3>2, SMTT(30)
  <2>3. CASE i \notin own(s) /\ j \notin own(s)
    <3>1. PICK k \in own(t) : i = L + k
      BY <1>2, <2>3
    <3>2. PICK l \in own(t) : j = L + l
      BY <1>2, <2>3
    <3>3. k < l
      BY <1>1, <1>5, <3>1, <3>2
    <3> QED
      BY <1>1, <1>3, <3>1, <3>2, <3>3
  <2>4. CASE i \notin own(s) /\ j \in own(s)
    <3>1. PICK k \in own(t) : i = L + k
      BY <1>2, <2>4
    <3> QED
      BY <1>1, <1>5, <2>4, <3>1
  <2> QED
    BY <2>1, <2>2, <2>3, <2>4
<1>6. (a + 1 .. b) \cup (b + 1 .. c) = a + 1 .. c
    OBVIOUS
<1> QED
    BY <1>3, <1>4, <1>5, <1>6 DEF Numbered, w

\* The same events, but for the poll that they came with.
LEMMA NumberedSame ==
  ASSUME NEW s, NEW t, NEW kind, NEW lo, NEW hi, Numbered(s, kind, lo, hi),
         DOMAIN t = DOMAIN s, \A i \in DOMAIN s : t[i].kind = s[i].kind /\ t[i].no = s[i].no
  PROVE  Numbered(t, kind, lo, hi)
BY DEF Numbered

LEMMA OneMoreNumbered ==
  ASSUME NEW s \in Seq(Event), NEW e \in Event, NEW kind, NEW lo \in Nat, NEW hi \in Nat, lo <= hi,
         Numbered(s, kind, lo, hi), e.kind = kind, e.no = hi + 1
  PROVE  Numbered(Append(s, e), kind, lo, hi + 1)
<1> DEFINE t == <<e>>
<1>1. t \in Seq(Event) /\ DOMAIN t = {1} /\ t[1] = e /\ Append(s, e) = s \o t
    OBVIOUS
<1> HIDE DEF t
<1>2. Numbered(t, kind, hi, hi + 1)
    BY <1>1 DEF Numbered
<1> QED
    BY <1>1, <1>2, NumberedConcat
-----------------------------------------------------------------------------
\* An exit in s whose fork is in t has come with the poll before.
OnePollBefore(s, t) ==
  \A i \in DOMAIN s, j \in DOMAIN t :
    s[i].kind = "exit" /\ t[j].kind = "fork" /\ s[i].pid = t[j].pid => t[j].poll = s[i].poll + 1

Overtakes(s) ==
  \A i, j \in DOMAIN s :
    i < j /\ s[i].kind = "exit" /\ s[j].kind = "fork" /\ s[i].pid = s[j].pid =>
      s[j].poll = s[i].poll + 1

LEMMA OvertakesConcat ==
  ASSUME NEW s \in Seq(Event), NEW t \in Seq(Event), Overtakes(s), Overtakes(t), OnePollBefore(s, t)
  PROVE  Overtakes(s \o t)
<1> DEFINE w == s \o t
           L == Len(s)
<1>1. /\ L \in Nat /\ Len(t) \in Nat
      /\ DOMAIN s = 1 .. L /\ DOMAIN t = 1 .. Len(t) /\ DOMAIN w = 1 .. L + Len(t)
      /\ \A i \in DOMAIN s : w[i] = s[i]
      /\ \A i \in DOMAIN w \ DOMAIN s : i - L \in DOMAIN t /\ w[i] = t[i - L]
    OBVIOUS
<1> HIDE DEF w, L
<1>2. SUFFICES ASSUME NEW i \in DOMAIN w, NEW j \in DOMAIN w, i < j,
                      w[i].kind = "exit", w[j].kind = "fork", w[i].pid = w[j].pid
               PROVE  w[j].poll = w[i].poll + 1
    BY DEF Overtakes, w
<1>3. CASE j \in DOMAIN s
  <2>1. i \in DOMAIN s
    BY <1>1, <1>2, <1>3
  <2> QED
    BY <1>1, <1>2, <1>3, <2>1 DEF Overtakes
<1>4. CASE i \in DOMAIN s /\ j \notin DOMAIN s
    BY <1>1, <1>2, <1>4 DEF OnePollBefore
<1>5. CASE i \notin DOMAIN s /\ j \notin DOMAIN s
  <2>1. i - L < j - L
    BY <1>1, <1>2
  <2> QED
    BY <1>1, <1>2, <1>5, <2>1 DEF Overtakes
<1> QED
    BY <1>3, <1>4, <1>5
-----------------------------------------------------------------------------
ProcessKinds == {"fork", "exit"}

\* While the reader drains its rings, what it holds is not behind the rest yet.
Draining == reader \in {"forks drained", "exits drained"}
Front == IF Draining THEN delivered \o rawEvents ELSE OnTheWay
Rear == IF Draining THEN batch ELSE <<>>

Known(s) == \A i \in DOMAIN s : s[i].pid <= lastPid

KernelTyped ==
  /\ accepted \in [Kinds -> Nat] /\ rings = [k \in Kinds |-> rings[k]]
  /\ polls \in Nat /\ lastPid \in Nat /\ living \in SUBSET (1 .. lastPid)
  /\ delivered \in Seq(Event) /\ rawEvents \in Seq(Event) /\ batch \in Seq(Event)
  /\ \A k \in ProcessKinds : /\ rings[k] \in Seq(Event) /\ Known(rings[k])
                             /\ \A i \in DOMAIN rings[k] : rings[k][i].kind = k
  /\ reader \in {"loading", "polling"} => batch = <<>>
  /\ reader = "forks drained" => \A i \in DOMAIN batch : batch[i].kind = "fork"
  /\ reader = "exits drained" => \A i \in DOMAIN batch : batch[i].kind = "exit"
  /\ reader = "gone" => attached = 0 /\ \A k \in ProcessKinds : rings[k] = <<>>

\* The numbers go on from the front to the rear and to the ring.
Continuous(kind) ==
  \E c, m \in Nat :
    /\ c <= m /\ m <= accepted[kind]
    /\ Numbered(Front, kind, 0, c) /\ Numbered(Rear, kind, c, m)
    /\ reader # "gone" => Numbered(rings[kind], kind, m, accepted[kind])

\* An exit that is ahead of its fork came with the last poll, and none is while the
\* reader has drained the forks only.
AheadOfFork ==
  \A i \in DOMAIN Front, j \in DOMAIN rings["fork"] :
    Front[i].kind = "exit" /\ Front[i].pid = rings["fork"][j].pid =>
      reader # "forks drained" /\ Front[i].poll = polls

EventInv ==
  /\ KernelTyped
  /\ Known(Front) /\ Known(Rear)
  /\ Continuous("fork") /\ Continuous("exit")
  /\ Overtakes(Front) /\ OnePollBefore(Front, Rear)
  /\ AheadOfFork

LEMMA Parts ==
  ASSUME KernelTyped
  PROVE  /\ delivered \o rawEvents \in Seq(Event) /\ batch \in Seq(Event) /\ <<>> \in Seq(Event)
         /\ OnTheWay = (delivered \o rawEvents) \o batch /\ OnTheWay \in Seq(Event)
         /\ Front \in Seq(Event) /\ Rear \in Seq(Event) /\ OnTheWay = Front \o Rear
         /\ \A k \in ProcessKinds : k \in Kinds /\ accepted[k] \in Nat
<1>1. delivered \in Seq(Event) /\ rawEvents \in Seq(Event) /\ batch \in Seq(Event)
    BY DEF KernelTyped
<1>2. delivered \o rawEvents \in Seq(Event) /\ <<>> \in Seq(Event)
    BY <1>1
<1>3. OnTheWay = (delivered \o rawEvents) \o batch /\ OnTheWay \in Seq(Event)
    BY <1>1, <1>2 DEF OnTheWay
<1>4. OnTheWay \o <<>> = OnTheWay
    BY <1>3
<1>5. Front \in Seq(Event) /\ Rear \in Seq(Event) /\ OnTheWay = Front \o Rear
  <2>1. CASE Draining
    BY <1>1, <1>2, <1>3, <2>1 DEF Front, Rear
  <2>2. CASE ~ Draining
    BY <1>2, <1>3, <1>4, <2>2 DEF Front, Rear
  <2> QED
    BY <2>1, <2>2
<1>6. \A k \in ProcessKinds : k \in Kinds /\ accepted[k] \in Nat
    BY DEF KernelTyped, ProcessKinds, Kinds
<1> QED
    BY <1>1, <1>2, <1>3, <1>5, <1>6

LEMMA EventInvSuffices == EventInv => NoneLost("fork") /\ NoneLost("exit") /\ OvertakenByOnePoll
<1> SUFFICES ASSUME EventInv PROVE NoneLost("fork") /\ NoneLost("exit") /\ OvertakenByOnePoll
    OBVIOUS
<1>1. /\ OnTheWay \in Seq(Event) /\ Front \in Seq(Event) /\ Rear \in Seq(Event)
      /\ OnTheWay = Front \o Rear /\ \A k \in ProcessKinds : accepted[k] \in Nat
    BY Parts DEF EventInv
<1>2. ASSUME NEW kind \in ProcessKinds PROVE NoneLost(kind)
  <2>1. PICK c \in Nat, m \in Nat :
          /\ c <= m /\ m <= accepted[kind]
          /\ Numbered(Front, kind, 0, c) /\ Numbered(Rear, kind, c, m)
          /\ reader # "gone" => Numbered(rings[kind], kind, m, accepted[kind])
    BY <1>2 DEF EventInv, Continuous, ProcessKinds
  <2>2. Numbered(OnTheWay, kind, 0, m)
    <3>1. Numbered(Front \o Rear, kind, 0, m)
      BY <1>1, <2>1, NumberedConcat, SMTT(30)
    <3> QED
      BY <1>1, <3>1
  <2>3. OnTheWay \in Seq(Event) /\ rings[kind] \in Seq(Event) /\ accepted[kind] \in Nat
    BY <1>1, <1>2 DEF EventInv, KernelTyped
  <2>4. CASE reader = "gone"
    <3>1. OnTheWay \o rings[kind] = OnTheWay
      <4>1. rings[kind] = <<>>
        BY <1>2, <2>4 DEF EventInv, KernelTyped
      <4> QED
        BY <1>1, <4>1
    <3>2. m \in 0 .. accepted[kind]
      BY <2>1, <2>3
    <3> QED
      BY <2>2, <2>4, <3>1, <3>2 DEF NoneLost, Numbered
  <2>5. CASE reader # "gone"
    <3>1. Numbered(OnTheWay \o rings[kind], kind, 0, accepted[kind])
      BY <2>1, <2>2, <2>3, <2>5, NumberedConcat
    <3> QED
      BY <2>5, <3>1, SMTT(30) DEF NoneLost, Numbered
  <2> QED
    BY <2>4, <2>5
<1>3. OvertakenByOnePoll
  <2>1. Overtakes(OnTheWay)
    <3>1. CASE Draining
      <4>1. Overtakes(Rear)
        BY <3>1 DEF EventInv, KernelTyped, Rear, Draining, Overtakes
      <4>2. Overtakes(Front \o Rear)
        BY <1>1, <4>1, OvertakesConcat DEF EventInv
      <4> QED
        BY <1>1, <4>2
    <3>2. CASE ~ Draining
      BY <3>2 DEF EventInv, Front
    <3> QED
      BY <3>1, <3>2
  <2> QED
    BY <2>1 DEF Overtakes, OvertakenByOnePoll
<1> QED
    BY <1>2, <1>3 DEF ProcessKinds
-----------------------------------------------------------------------------
LEMMA Counting ==
  \A n \in Nat : 0 \in Nat /\ 0 <= n /\ n <= n /\ n + 1 \in Nat /\ n <= n + 1
OBVIOUS

LEMMA EventFields ==
  ASSUME NEW s \in Seq(Event), NEW i \in DOMAIN s
  PROVE  s[i] \in Event /\ s[i].pid \in Nat /\ s[i].no \in Nat /\ s[i].poll \in Nat
<1>1. s[i] \in Event
    OBVIOUS
<1> QED
    BY <1>1 DEF Event

LEMMA InitEvents == KernelInit => EventInv
<1> SUFFICES ASSUME KernelInit PROVE EventInv
    OBVIOUS
<1> USE DEF KernelInit
<1>1. <<>> \in Seq(Event) /\ DOMAIN <<>> = {}
    OBVIOUS
<1>2. KernelTyped
  <2>1. rings = [k \in Kinds |-> <<>>] /\ accepted \in [Kinds -> Nat]
    BY DEF NoEvents
  <2>2. \A k \in ProcessKinds : rings[k] = <<>>
    BY <2>1 DEF ProcessKinds, Kinds
  <2> QED
    BY <1>1, <2>1, <2>2 DEF KernelTyped, Known
<1>3. Front = <<>> /\ Rear = <<>>
  <2>1. ~ Draining
    BY DEF Draining
  <2>2. OnTheWay = <<>>
    BY DEF OnTheWay
  <2> QED
    BY <2>1, <2>2 DEF Front, Rear
<1>4. ASSUME NEW k \in ProcessKinds PROVE Continuous(k)
  <2>1. rings[k] = <<>> /\ accepted[k] = 0
    BY DEF NoEvents, ProcessKinds, Kinds
  <2>2. Numbered(<<>>, k, 0, 0)
    BY <1>1, NoneIsNumbered
  <2> QED
    BY <1>3, <2>1, <2>2 DEF Continuous
<1> QED
    BY <1>1, <1>2, <1>3, <1>4
    DEF EventInv, Known, Overtakes, OnePollBefore, AheadOfFork, ProcessKinds

LEMMA KnownLater ==
  ASSUME NEW s \in Seq(Event), lastPid \in Nat, lastPid' \in Nat, lastPid <= lastPid', Known(s)
  PROVE  \A i \in DOMAIN s : s[i].pid \in Nat /\ s[i].pid <= lastPid'
<1> TAKE i \in DOMAIN s
<1>1. s[i].pid \in Nat /\ s[i].pid <= lastPid
    BY EventFields DEF Known
<1> QED
    BY <1>1

\* Steps after which everything is where it was.
LEMMA EventsStay ==
  ASSUME EventInv, KernelTyped', Front' = Front, Rear' = Rear, polls' = polls, lastPid' \in {lastPid, lastPid + 1},
         \A k \in ProcessKinds : rings'[k] = rings[k] /\ accepted'[k] = accepted[k],
         (reader' = "forks drained") <=> (reader = "forks drained"),
         reader = "gone" => reader' = "gone"
  PROVE  EventInv'
<1>1. Known(Front)' /\ Known(Rear)'
  <2>1. Front \in Seq(Event) /\ Rear \in Seq(Event) /\ lastPid \in Nat
    BY Parts DEF EventInv, KernelTyped
  <2>2. lastPid' \in Nat /\ lastPid <= lastPid'
    <3>1. lastPid' = lastPid \/ lastPid' = lastPid + 1
      OBVIOUS
    <3> QED
      BY <2>1, <3>1, Counting, Zenon
  <2>3. /\ \A i \in DOMAIN Front : Front[i].pid <= lastPid'
        /\ \A i \in DOMAIN Rear : Rear[i].pid <= lastPid'
    BY <2>1, <2>2, KnownLater DEF EventInv
  <2> QED
    BY <2>3 DEF Known
<1>2. Continuous("fork")' /\ Continuous("exit")'
    BY DEF EventInv, Continuous, ProcessKinds
<1>3. Overtakes(Front)' /\ OnePollBefore(Front, Rear)'
  <2>1. Overtakes(Front) /\ OnePollBefore(Front, Rear)
    BY DEF EventInv
  <2>2. Overtakes(Front')
    BY <2>1
  <2>3. OnePollBefore(Front', Rear')
    BY <2>1
  <2> QED
    BY <2>2, <2>3
<1>4. AheadOfFork'
    BY DEF EventInv, AheadOfFork, ProcessKinds
<1> QED
    BY <1>1, <1>2, <1>3, <1>4 DEF EventInv

LEMMA Joined == \A s, t \in Seq(Event) : s \o t \in Seq(Event)
OBVIOUS

LEMMA Regrouped == \A s, t, u \in Seq(Event) : (s \o t) \o u = s \o (t \o u)
OBVIOUS

\* The two numbers that Continuous asks for.
LEMMA GoesOn ==
  ASSUME NEW k, NEW c \in Nat, NEW m \in Nat, c <= m, m <= accepted'[k],
         Numbered(Front', k, 0, c), Numbered(Rear', k, c, m),
         reader' # "gone" => Numbered(rings'[k], k, m, accepted'[k])
  PROVE  Continuous(k)'
BY DEF Continuous

LEMMA MovesOn ==
  ASSUME NEW a \in Seq(Event), NEW b \in Seq(Event), b # <<>>
  PROVE  Append(a, Head(b)) \o Tail(b) = a \o b
OBVIOUS

LEMMA SendEvents == EventInv /\ Send => EventInv'
<1> SUFFICES ASSUME EventInv, Send PROVE EventInv'
    OBVIOUS
<1>1. /\ delivered \in Seq(Event) /\ rawEvents \in Seq(Event) /\ batch \in Seq(Event) /\ batch # <<>>
      /\ reader = "sending"
    BY DEF EventInv, KernelTyped, Send
<1>2. /\ rawEvents' = Append(rawEvents, Head(batch)) /\ batch' = Tail(batch)
      /\ UNCHANGED <<monitor, kernel, reader, bridge, polls, delivered>>
    BY DEF Send
<1>3. rawEvents' \in Seq(Event) /\ batch' \in Seq(Event)
    BY <1>1, <1>2
<1>4. KernelTyped'
    BY <1>1, <1>2, <1>3 DEF EventInv, KernelTyped, Known, monitor, kernel
<1>5. OnTheWay' = OnTheWay
  <2>1. rawEvents' \o batch' = rawEvents \o batch
    BY <1>1, <1>2, MovesOn
  <2>2. OnTheWay = delivered \o (rawEvents \o batch)
    BY <1>1, Regrouped, Zenon DEF OnTheWay
  <2>3. OnTheWay' = delivered \o (rawEvents' \o batch')
    <3>1. OnTheWay' = (delivered \o rawEvents') \o batch'
      BY <1>2 DEF OnTheWay
    <3>2. delivered \in Seq(Event) /\ rawEvents' \in Seq(Event) /\ batch' \in Seq(Event)
      BY <1>1, <1>3, Zenon
    <3>3. (delivered \o rawEvents') \o batch' = delivered \o (rawEvents' \o batch')
      BY <3>2, Regrouped, Zenon
    <3> QED
      BY <3>1, <3>3, Zenon
  <2> QED
    BY <2>1, <2>2, <2>3
<1>6. ~ Draining /\ ~ Draining'
    BY <1>1, <1>2 DEF Draining
<1> QED
    BY <1>2, <1>4, <1>5, <1>6, EventsStay DEF Front, Rear, monitor, kernel

LEMMA BridgeEvents == EventInv /\ BridgeTakes => EventInv'
<1> SUFFICES ASSUME EventInv, BridgeTakes PROVE EventInv'
    OBVIOUS
<1>1. /\ delivered \in Seq(Event) /\ rawEvents \in Seq(Event) /\ batch \in Seq(Event)
      /\ rawEvents # <<>>
    BY DEF EventInv, KernelTyped, BridgeTakes
<1>2. /\ delivered' = Append(delivered, Head(rawEvents)) /\ rawEvents' = Tail(rawEvents)
      /\ UNCHANGED <<monitor, kernel, reader, batch, bridge, polls>>
    BY DEF BridgeTakes
<1>3. rawEvents' \in Seq(Event) /\ delivered' \in Seq(Event)
    BY <1>1, <1>2
<1>4. KernelTyped'
    BY <1>2, <1>3 DEF EventInv, KernelTyped, Known, monitor, kernel
<1>5. delivered' \o rawEvents' = delivered \o rawEvents
    BY <1>1, <1>2, MovesOn
<1>6. OnTheWay' = OnTheWay
    BY <1>2, <1>5 DEF OnTheWay
<1>7. Front' = Front /\ Rear' = Rear
    BY <1>2, <1>5, <1>6 DEF Front, Rear, Draining
<1> QED
    BY <1>2, <1>4, <1>7, EventsStay DEF monitor, kernel

LEMMA AppendIs ==
  ASSUME NEW s \in Seq(Event), NEW e \in Event
  PROVE  /\ Append(s, e) \in Seq(Event)
         /\ \A i \in DOMAIN Append(s, e) :
              Append(s, e)[i] = e \/ (i \in DOMAIN s /\ Append(s, e)[i] = s[i])
OBVIOUS

\* A ring takes an event; the fork of a process is the first that is heard of it.
LEMMA RingGrows ==
  ASSUME EventInv, KernelTyped', UNCHANGED <<reader, delivered, rawEvents, batch, polls>>,
         lastPid' \in Nat, lastPid <= lastPid', reader # "gone",
         NEW kind \in ProcessKinds, NEW e \in Event,
         e.kind = kind, e.no = accepted[kind] + 1, kind = "fork" => e.pid > lastPid,
         rings'[kind] = Append(rings[kind], e), accepted'[kind] = accepted[kind] + 1,
         \A k \in ProcessKinds \ {kind} : rings'[k] = rings[k] /\ accepted'[k] = accepted[k]
  PROVE  EventInv'
<1>1. Front' = Front /\ Rear' = Rear
    BY DEF Front, Rear, Draining, OnTheWay
<1>2. Front \in Seq(Event) /\ Rear \in Seq(Event) /\ lastPid \in Nat
    BY Parts DEF EventInv, KernelTyped
<1>3. Known(Front)' /\ Known(Rear)'
    BY <1>1, <1>2, KnownLater DEF EventInv, Known
<1>4. ASSUME NEW k \in ProcessKinds PROVE Continuous(k)'
  <2>1. PICK c \in Nat, m \in Nat :
          /\ c <= m /\ m <= accepted[k]
          /\ Numbered(Front, k, 0, c) /\ Numbered(Rear, k, c, m)
          /\ Numbered(rings[k], k, m, accepted[k])
    BY DEF EventInv, Continuous, ProcessKinds
  <2>2. rings[k] \in Seq(Event) /\ accepted[k] \in Nat
    BY Parts DEF EventInv, KernelTyped
  <2>3. CASE k = kind
    <3>1. Numbered(rings'[k], k, m, accepted'[k])
      <4>1. Numbered(Append(rings[k], e), k, m, accepted[k] + 1)
        BY <2>1, <2>2, <2>3, OneMoreNumbered
      <4> QED
        BY <2>3, <4>1
    <3>2. m <= accepted'[k]
      BY <2>1, <2>2, <2>3
    <3> QED
      BY <1>1, <2>1, <3>1, <3>2 DEF Continuous
  <2>4. CASE k # kind
    BY <1>1, <2>1, <2>4 DEF Continuous
  <2> QED
    BY <2>3, <2>4
<1>5. Overtakes(Front)' /\ OnePollBefore(Front, Rear)'
    BY <1>1 DEF EventInv, Overtakes, OnePollBefore
<1>6. AheadOfFork'
  <2>1. CASE kind = "exit"
    BY <1>1, <2>1 DEF EventInv, AheadOfFork, ProcessKinds
  <2>2. CASE kind = "fork"
    <3> DEFINE r == rings["fork"]
    <3>1. /\ r \in Seq(Event) /\ rings'["fork"] = Append(r, e) /\ Len(r) \in Nat
          /\ DOMAIN rings'["fork"] = 1 .. Len(r) + 1 /\ DOMAIN r = 1 .. Len(r)
          /\ rings'["fork"][Len(r) + 1] = e
          /\ \A i \in 1 .. Len(r) : rings'["fork"][i] = r[i]
      <4>1. r \in Seq(Event) /\ rings'["fork"] = Append(r, e)
        BY <2>2 DEF EventInv, KernelTyped, ProcessKinds
      <4> HIDE DEF r
      <4> QED
        BY <4>1
    <3>2. \A i \in DOMAIN Front : Front[i].pid \in Nat /\ Front[i].pid <= lastPid
      BY <1>2, EventFields DEF EventInv, Known
    <3>3. \A i \in DOMAIN Front : Front[i].pid # e.pid
      <4>1. e.pid > lastPid /\ e.pid \in Nat
        BY <2>2 DEF Event
      <4> QED
        BY <1>2, <3>2, <4>1
    <3> HIDE DEF r
    <3>4. ASSUME NEW i \in DOMAIN Front, NEW j \in DOMAIN rings'["fork"],
                 Front[i].kind = "exit", Front[i].pid = rings'["fork"][j].pid
          PROVE  reader # "forks drained" /\ Front[i].poll = polls
      <4>1. j # Len(r) + 1
        BY <3>1, <3>3, <3>4
      <4>2. j \in DOMAIN r /\ rings'["fork"][j] = r[j]
        BY <3>1, <3>4, <4>1
      <4> QED
        BY <3>4, <4>2 DEF EventInv, AheadOfFork, r
    <3> QED
      BY <1>1, <3>4 DEF AheadOfFork
  <2> QED
    BY <2>1, <2>2 DEF ProcessKinds
<1> QED
    BY <1>3, <1>4, <1>5, <1>6 DEF EventInv, ProcessKinds
-----------------------------------------------------------------------------
LEMMA NoNumbers ==
  ASSUME NEW s \in Seq(Event), NEW kind, NEW c \in Nat, NEW m \in Nat, c <= m,
         Numbered(s, kind, c, m), \A i \in DOMAIN s : s[i].kind # kind
  PROVE  c = m
<1> SUFFICES ASSUME c < m PROVE FALSE
    OBVIOUS
<1>1. c + 1 \in c + 1 .. m
    OBVIOUS
<1>2. PICK i \in DOMAIN s : s[i].kind = kind /\ s[i].no = c + 1
    BY <1>1 DEF Numbered
<1> QED
    BY <1>2

\* What is drained is what was in the ring, stamped with the poll.
LEMMA DrainedIs ==
  ASSUME EventInv, NEW kind \in ProcessKinds
  PROVE  /\ Drained(kind) \in Seq(Event) /\ DOMAIN Drained(kind) = DOMAIN rings[kind]
         /\ \A i \in DOMAIN rings[kind] :
              /\ Drained(kind)[i].kind = kind /\ Drained(kind)[i].poll = polls + 1
              /\ Drained(kind)[i].pid = rings[kind][i].pid
              /\ Drained(kind)[i].no = rings[kind][i].no
         /\ Known(Drained(kind))
         /\ \A lo, hi : Numbered(rings[kind], kind, lo, hi) => Numbered(Drained(kind), kind, lo, hi)
<1> DEFINE r == rings[kind]
           d == Drained(kind)
<1>1. /\ r \in Seq(Event) /\ polls \in Nat /\ \A i \in DOMAIN r : r[i].kind = kind
      /\ Known(r)
    BY DEF EventInv, KernelTyped
<1>2. d = [i \in DOMAIN r |-> [r[i] EXCEPT !.poll = polls + 1]]
    BY DEF Drained
<1> HIDE DEF d, r
<1>3. ASSUME NEW i \in DOMAIN r
      PROVE  /\ d[i] \in Event /\ d[i].kind = kind /\ d[i].poll = polls + 1
             /\ d[i].pid = r[i].pid /\ d[i].no = r[i].no
  <2>1. r[i] \in Event /\ r[i].kind = kind
    BY <1>1
  <2>2. d[i] = [r[i] EXCEPT !.poll = polls + 1]
    BY <1>2
  <2> QED
    <3>1. polls + 1 \in Nat
      BY <1>1
    <3>2. d[i] \in Event
      BY <2>1, <2>2, <3>1 DEF Event
    <3>3. d[i].kind = r[i].kind /\ d[i].pid = r[i].pid /\ d[i].no = r[i].no
      BY <2>1, <2>2 DEF Event
    <3>4. d[i].poll = polls + 1
      BY <2>1, <2>2 DEF Event
    <3> QED
      BY <2>1, <3>2, <3>3, <3>4
<1>4. d \in Seq(Event) /\ DOMAIN d = DOMAIN r
  <2>1. DOMAIN r = 1 .. Len(r) /\ Len(r) \in Nat
    BY <1>1
  <2>2. d \in [1 .. Len(r) -> Event]
    BY <1>2, <1>3, <2>1
  <2> QED
    BY <2>1, <2>2
<1>5. Known(d)
    BY <1>1, <1>3, <1>4 DEF Known
<1>6. \A i \in DOMAIN r : d[i].kind = r[i].kind
    BY <1>1, <1>3
<1>7. \A lo, hi : Numbered(r, kind, lo, hi) => Numbered(d, kind, lo, hi)
    BY <1>3, <1>4, <1>6, NumberedSame
<1> QED
    BY <1>3, <1>4, <1>5, <1>7 DEF d, r

LEMMA ElementsOfBoth ==
  ASSUME NEW s \in Seq(Event), NEW t \in Seq(Event), NEW i \in DOMAIN (s \o t)
  PROVE  \/ \E j \in DOMAIN s : (s \o t)[i] = s[j]
         \/ \E j \in DOMAIN t : (s \o t)[i] = t[j]
<1>1. CASE i \in 1 .. Len(s)
    BY <1>1
<1>2. CASE i \notin 1 .. Len(s)
  <2>1. i - Len(s) \in DOMAIN t /\ (s \o t)[i] = t[i - Len(s)]
    BY <1>2
  <2> QED
    BY <2>1
<1> QED
    BY <1>1, <1>2

LEMMA KnownConcat ==
  ASSUME NEW s \in Seq(Event), NEW t \in Seq(Event), Known(s), Known(t)
  PROVE  Known(s \o t)
BY ElementsOfBoth DEF Known

\* One kind only overtakes nothing.
LEMMA OneKind ==
  ASSUME NEW s, NEW kind \in ProcessKinds, \A i \in DOMAIN s : s[i].kind = kind
  PROVE  Overtakes(s)
BY DEF Overtakes, ProcessKinds

LEMMA NoForkBehind ==
  ASSUME NEW s, NEW t, \A i \in DOMAIN t : t[i].kind = "exit"
  PROVE  OnePollBefore(s, t)
BY DEF OnePollBefore

LEMMA NothingIn ==
  /\ <<>> \in Seq(Event) /\ DOMAIN <<>> = {}
  /\ \A s \in Seq(Event) : s \o <<>> = s
OBVIOUS

LEMMA DrainFirstEvents ==
  ASSUME EventInv, NEW kind \in ProcessKinds, reader = "polling",
         batch' = Drained(kind), rings' = [rings EXCEPT ![kind] = <<>>],
         reader' = IF kind = "fork" THEN "forks drained" ELSE "exits drained",
         UNCHANGED <<attached, accepted, kernel, rawEvents, bridge, polls, delivered>>
  PROVE  EventInv'
<1> DEFINE d == Drained(kind)
<1>1. /\ d \in Seq(Event) /\ DOMAIN d = DOMAIN rings[kind] /\ Known(d)
      /\ \A i \in DOMAIN d : /\ d[i].kind = kind /\ d[i].poll = polls + 1
                             /\ d[i].pid = rings[kind][i].pid
      /\ \A lo, hi : Numbered(rings[kind], kind, lo, hi) => Numbered(d, kind, lo, hi)
    BY ONLY EventInv, kind \in ProcessKinds, DrainedIs
<1>0. DOMAIN <<>> = {}
    BY NothingIn
<1>2. /\ delivered \o rawEvents \in Seq(Event) /\ <<>> \in Seq(Event)
      /\ OnTheWay = (delivered \o rawEvents) \o batch /\ Front \in Seq(Event)
    BY Parts DEF EventInv
<1>13. \A k \in ProcessKinds : k \in Kinds /\ accepted[k] \in Nat
    BY Parts DEF EventInv
<1>3. batch = <<>> /\ ~ Draining
    BY DEF EventInv, KernelTyped, Draining
<1>4. Front = delivered \o rawEvents /\ Rear = <<>>
  <2>1. (delivered \o rawEvents) \o <<>> = delivered \o rawEvents
    BY <1>2, NothingIn
  <2> QED
    BY <1>2, <1>3, <2>1 DEF Front, Rear
<1> HIDE DEF d
<1>5. Draining' /\ Front' = Front /\ Rear' = d
  <2>1. Draining'
    BY DEF Draining
  <2> QED
    BY <1>4, <2>1 DEF Front, Rear, d
<1>6. /\ rings' = [k \in Kinds |-> rings'[k]]
      /\ rings'[kind] = <<>> /\ \A k \in ProcessKinds \ {kind} : rings'[k] = rings[k]
    BY <1>13 DEF EventInv, KernelTyped
<1>7. KernelTyped'
  <2>1. \A k \in ProcessKinds : /\ rings'[k] \in Seq(Event)
                                /\ \A i \in DOMAIN rings'[k] : rings'[k][i].kind = k /\ rings'[k][i].pid <= lastPid
    BY <1>0, <1>2, <1>6 DEF EventInv, KernelTyped, Known
  <2>2. batch' = d
    BY DEF d
  <2>3. reader' = "forks drained" => kind = "fork"
    OBVIOUS
  <2>4. reader' = "exits drained" => kind = "exit"
    BY DEF ProcessKinds
  <2> QED
    <3>1. accepted' \in [Kinds -> Nat] /\ polls' \in Nat /\ lastPid' = lastPid /\ lastPid' \in Nat
          /\ living' \in SUBSET (1 .. lastPid') /\ delivered' \in Seq(Event) /\ rawEvents' \in Seq(Event)
      BY DEF EventInv, KernelTyped, kernel
    <3>2. \A i \in DOMAIN batch' : batch'[i].kind = kind
      BY <1>1, <2>2
    <3>3. reader' \notin {"loading", "polling", "gone"} /\ batch' \in Seq(Event)
      BY <1>1, <2>2
    <3>4. \A k \in ProcessKinds : /\ rings'[k] \in Seq(Event)
                                  /\ \A i \in DOMAIN rings'[k] : rings'[k][i].pid <= lastPid'
                                  /\ \A i \in DOMAIN rings'[k] : rings'[k][i].kind = k
      <4> TAKE k \in ProcessKinds
      <4>1. /\ rings'[k] \in Seq(Event)
            /\ \A i \in DOMAIN rings'[k] : rings'[k][i].kind = k /\ rings'[k][i].pid <= lastPid
        BY <2>1, Zenon
      <4>2. ASSUME NEW i \in DOMAIN rings'[k] PROVE rings'[k][i].pid <= lastPid'
        <5>1. rings'[k][i].pid <= lastPid /\ lastPid' = lastPid
          BY <3>1, <4>1, Zenon
        <5> QED
          BY <5>1, Zenon
      <4> QED
        BY <4>1, <4>2, Zenon
    <3>5. /\ reader' = "forks drained" => \A i \in DOMAIN batch' : batch'[i].kind = "fork"
          /\ reader' = "exits drained" => \A i \in DOMAIN batch' : batch'[i].kind = "exit"
      BY <2>3, <2>4, <3>2
    <3> QED
      BY <1>6, <3>1, <3>3, <3>4, <3>5 DEF KernelTyped, Known
<1>8. Known(Front)' /\ Known(Rear)'
    BY <1>1, <1>5 DEF EventInv, Known, kernel
<1>9. ASSUME NEW k \in ProcessKinds PROVE Continuous(k)'
  <2>1. PICK c \in Nat, m \in Nat :
          /\ c <= m /\ m <= accepted[k]
          /\ Numbered(Front, k, 0, c) /\ Numbered(Rear, k, c, m)
          /\ Numbered(rings[k], k, m, accepted[k])
    BY DEF EventInv, Continuous, ProcessKinds
  <2>2. c = m
    BY <1>0, <1>2, <1>4, <2>1, NoNumbers
  <2>3. CASE k = kind
    <3>1. Numbered(d, k, c, accepted[k]) /\ Numbered(<<>>, k, accepted[k], accepted[k])
      BY <1>0, <1>1, <1>2, <1>13, <2>1, <2>2, <2>3, NoneIsNumbered
    <3>2. accepted[k] \in Nat
      BY <1>13
    <3>3. c <= accepted[k] /\ accepted[k] <= accepted[k]
      BY <2>1, <2>2, <3>2, Counting, Zenon
    <3>4. /\ Numbered(Front', k, 0, c) /\ Numbered(Rear', k, c, accepted[k])
          /\ Numbered(rings'[k], k, accepted[k], accepted[k]) /\ accepted'[k] = accepted[k]
      BY <1>5, <1>6, <2>1, <2>3, <3>1
    <3> QED
      BY <2>1, <3>2, <3>3, <3>4, GoesOn
  <2>4. CASE k # kind
    <3>1. Numbered(d, k, c, c)
      BY <1>1, <2>4, NoneIsNumbered
    <3>2. /\ Numbered(Front', k, 0, c) /\ Numbered(Rear', k, c, c)
          /\ rings'[k] = rings[k] /\ accepted'[k] = accepted[k]
      BY <1>5, <1>6, <2>1, <2>4, <3>1
    <3>3. c <= c /\ c <= accepted[k] /\ Numbered(rings'[k], k, c, accepted'[k])
      BY <2>1, <2>2, <3>2
    <3> QED
      BY <2>1, <3>2, <3>3, GoesOn
  <2> QED
    BY <2>3, <2>4
<1>10. Overtakes(Front)'
  <2>1. Overtakes(Front)
    BY DEF EventInv
  <2>2. Overtakes(Front')
    BY <1>5, <2>1
  <2> QED
    BY <2>2
<1>11. OnePollBefore(Front, Rear)'
  <2>1. CASE kind = "exit"
    BY <1>1, <1>5, <2>1, NoForkBehind
  <2>2. CASE kind = "fork"
    <3>1. ASSUME NEW i \in DOMAIN Front, NEW j \in DOMAIN d,
                 Front[i].kind = "exit", Front[i].pid = d[j].pid
          PROVE  d[j].poll = Front[i].poll + 1
      <4>1. d[j].poll = polls + 1 /\ d[j].pid = rings["fork"][j].pid /\ j \in DOMAIN rings["fork"]
        BY <1>1, <2>2
      <4>2. Front[i].poll = polls
        BY <3>1, <4>1 DEF EventInv, AheadOfFork
      <4> QED
        BY <4>1, <4>2
    <3>2. OnePollBefore(Front, d)
      BY <3>1 DEF OnePollBefore
    <3> QED
      BY <1>5, <3>2
  <2> QED
    BY <2>1, <2>2 DEF ProcessKinds
<1>12. AheadOfFork'
  <2>1. CASE kind = "exit"
    BY <1>5, <1>6, <2>1 DEF EventInv, AheadOfFork, ProcessKinds
  <2>2. CASE kind = "fork"
    BY <1>0, <1>6, <2>2 DEF AheadOfFork
  <2> QED
    BY <2>1, <2>2 DEF ProcessKinds
<1> QED
    BY <1>7, <1>8, <1>9, <1>10, <1>11, <1>12 DEF EventInv, ProcessKinds
\* When the second ring has been drained as well, all is in front.
LEMMA DrainSecondEvents ==
  ASSUME EventInv, NEW first \in ProcessKinds, NEW kind \in ProcessKinds, kind # first,
         reader = IF first = "fork" THEN "forks drained" ELSE "exits drained",
         batch' = ForksFirst(IF first = "fork" THEN batch ELSE Drained("fork"),
                             IF first = "fork" THEN Drained("exit") ELSE batch),
         rings' = [rings EXCEPT ![kind] = <<>>],
         reader' = "sending", polls' = polls + 1,
         UNCHANGED <<attached, accepted, kernel, rawEvents, bridge, delivered>>
  PROVE  EventInv'
<1> DEFINE d == Drained(kind)
           ahead == delivered \o rawEvents
           forks == IF first = "fork" THEN batch ELSE d
           exits == IF first = "fork" THEN d ELSE batch
<1>1. /\ d \in Seq(Event) /\ DOMAIN d = DOMAIN rings[kind] /\ Known(d)
      /\ \A i \in DOMAIN d : /\ d[i].kind = kind /\ d[i].poll = polls + 1
                             /\ d[i].pid = rings[kind][i].pid
      /\ \A lo, hi : Numbered(rings[kind], kind, lo, hi) => Numbered(d, kind, lo, hi)
    BY ONLY EventInv, kind \in ProcessKinds, DrainedIs
<1>2. /\ delivered \in Seq(Event) /\ rawEvents \in Seq(Event) /\ batch \in Seq(Event)
      /\ ahead \in Seq(Event) /\ polls \in Nat
    BY Parts DEF EventInv, KernelTyped
<1>3. \A k \in ProcessKinds : k \in Kinds /\ accepted[k] \in Nat
    BY Parts DEF EventInv
<1>4. \/ first = "fork" /\ kind = "exit" /\ reader = "forks drained"
      \/ first = "exit" /\ kind = "fork" /\ reader = "exits drained"
    BY DEF ProcessKinds
<1>5. Draining /\ Front = ahead /\ Rear = batch
    BY <1>4 DEF Draining, Front, Rear
<1>6. \A i \in DOMAIN batch : batch[i].kind = first
    BY <1>4 DEF EventInv, KernelTyped
<1>7. batch' = forks \o exits
    BY <1>4 DEF ForksFirst
<1> HIDE DEF d, ahead
<1>8. forks \in Seq(Event) /\ exits \in Seq(Event) /\ Known(forks) /\ Known(exits)
    BY <1>1, <1>2, <1>5 DEF EventInv
<1>9. /\ \A i \in DOMAIN forks : forks[i].kind = "fork"
      /\ \A i \in DOMAIN exits : exits[i].kind = "exit"
  <2>1. CASE first = "fork"
    BY <1>1, <1>4, <1>6, <2>1
  <2>2. CASE first = "exit"
    BY <1>1, <1>4, <1>6, <2>2
  <2> QED
    BY <2>1, <2>2 DEF ProcessKinds
<1> HIDE DEF forks, exits
<1>10. Front' = (ahead \o forks) \o exits /\ Rear' = <<>>
  <2>1. ~ Draining'
    BY DEF Draining
  <2>2. OnTheWay' = ahead \o (forks \o exits)
    BY <1>7 DEF OnTheWay, ahead
  <2>3. Front' = OnTheWay' /\ Rear' = <<>>
    BY <2>1 DEF Front, Rear
  <2>4. ahead \o (forks \o exits) = (ahead \o forks) \o exits
    <3>1. ahead \in Seq(Event) /\ forks \in Seq(Event) /\ exits \in Seq(Event)
      BY <1>2, <1>8, Zenon
    <3> QED
      BY <3>1, Regrouped, Zenon
  <2> QED
    BY <2>2, <2>3, <2>4, Zenon
<1>11. ahead \o forks \in Seq(Event) /\ (ahead \o forks) \o exits \in Seq(Event)
  <2>1. ahead \o forks \in Seq(Event)
    BY <1>2, <1>8, Joined, Zenon
  <2> QED
    BY <1>8, <2>1, Joined, Zenon
<1>12. /\ rings' = [k \in Kinds |-> rings'[k]]
       /\ rings'[kind] = <<>> /\ \A k \in ProcessKinds \ {kind} : rings'[k] = rings[k]
    BY <1>3 DEF EventInv, KernelTyped
<1>13. DOMAIN <<>> = {} /\ <<>> \in Seq(Event)
    BY NothingIn
<1>14. KernelTyped'
  <2>1. \A k \in ProcessKinds : /\ rings'[k] \in Seq(Event)
                                /\ \A i \in DOMAIN rings'[k] : rings'[k][i].pid <= lastPid
                                /\ \A i \in DOMAIN rings'[k] : rings'[k][i].kind = k
    <3>1. \A k \in ProcessKinds : /\ rings[k] \in Seq(Event)
                                  /\ \A i \in DOMAIN rings[k] : rings[k][i].pid <= lastPid
                                  /\ \A i \in DOMAIN rings[k] : rings[k][i].kind = k
      BY ONLY EventInv DEF EventInv, KernelTyped, Known
    <3> SUFFICES ASSUME NEW k \in ProcessKinds
                 PROVE  /\ rings'[k] \in Seq(Event)
                        /\ \A i \in DOMAIN rings'[k] : rings'[k][i].pid <= lastPid
                        /\ \A i \in DOMAIN rings'[k] : rings'[k][i].kind = k
      OBVIOUS
    <3>2. CASE k = kind
      <4>1. rings'[k] = <<>> /\ DOMAIN rings'[k] = {}
        BY ONLY <1>12, <1>13, <3>2
      <4> QED
        BY ONLY <1>13, <4>1
    <3>3. CASE k # kind
      <4>1. rings'[k] = rings[k]
        BY ONLY <1>12, <3>3, k \in ProcessKinds
      <4> QED
        BY ONLY <3>1, <4>1, k \in ProcessKinds
    <3> QED
      BY <3>2, <3>3, Zenon
  <2>2. forks \o exits \in Seq(Event)
    BY <1>8, Joined, Zenon
  <2>3. batch' \in Seq(Event)
    BY <1>7, <2>2
  <2>4. polls' \in Nat
    BY <1>2, Counting, Zenon
  <2>5. /\ accepted' \in [Kinds -> Nat] /\ lastPid' = lastPid /\ lastPid' \in Nat
        /\ living' \in SUBSET (1 .. lastPid') /\ delivered' \in Seq(Event) /\ rawEvents' \in Seq(Event)
    BY DEF EventInv, KernelTyped, kernel
  <2>6. reader' \notin {"loading", "polling", "gone", "forks drained", "exits drained"}
    OBVIOUS
  <2>7. ASSUME NEW k \in ProcessKinds, NEW i \in DOMAIN rings'[k]
        PROVE  rings'[k][i].pid <= lastPid'
    <3>1. rings'[k][i].pid <= lastPid /\ lastPid' = lastPid
      BY <2>1, <2>5, Zenon
    <3> QED
      BY <3>1, Zenon
  <2> QED
    BY <1>12, <2>1, <2>3, <2>4, <2>5, <2>6, <2>7 DEF KernelTyped, Known
<1>15. Known(Front)' /\ Known(Rear)'
  <2>1. Known(ahead)
    BY <1>5 DEF EventInv
  <2>2. Known((ahead \o forks) \o exits)
    BY <1>2, <1>8, <1>11, <2>1, KnownConcat
  <2> QED
    BY <1>10, <1>13, <2>2 DEF Known, kernel
<1>16. ASSUME NEW k \in ProcessKinds PROVE Continuous(k)'
  <2>1. PICK c \in Nat, m \in Nat :
          /\ c <= m /\ m <= accepted[k]
          /\ Numbered(ahead, k, 0, c) /\ Numbered(batch, k, c, m)
          /\ Numbered(rings[k], k, m, accepted[k])
    BY <1>4, <1>5 DEF EventInv, Continuous, ProcessKinds
  <2>2. ASSUME NEW n \in Nat, n <= accepted[k], c <= n,
               Numbered(forks \o exits, k, c, n),
               Numbered(rings'[k], k, n, accepted[k])
        PROVE  Continuous(k)'
    <3>1. ahead \o (forks \o exits) = (ahead \o forks) \o exits /\ forks \o exits \in Seq(Event)
      <4>1. ahead \in Seq(Event) /\ forks \in Seq(Event) /\ exits \in Seq(Event)
        BY <1>2, <1>8, Zenon
      <4>2. ahead \o (forks \o exits) = (ahead \o forks) \o exits
        BY <4>1, Regrouped, Zenon
      <4>3. forks \o exits \in Seq(Event)
        BY <4>1, Joined, Zenon
      <4> QED
        BY <4>2, <4>3
    <3>2. Numbered(ahead \o (forks \o exits), k, 0, n)
      <4>1. 0 \in Nat /\ 0 <= c
        BY <2>1, Counting, Zenon
      <4> QED
        BY <1>2, <2>1, <2>2, <3>1, <4>1, NumberedConcat
    <3>3. Numbered(<<>>, k, n, n)
      BY <1>13, NoneIsNumbered
    <3>4. n <= n
      BY Counting
    <3> QED
      BY <1>10, <2>2, <3>1, <3>2, <3>3, <3>4 DEF Continuous
  <2>3. CASE k = first
    <3>1. Numbered(d, k, c, c) /\ Numbered(d, k, m, m)
      BY <1>1, <2>3, NoneIsNumbered
    <3>2. Numbered(forks \o exits, k, c, m)
      <4>1. CASE first = "fork"
        <5>1. forks = batch /\ exits = d
          BY <4>1 DEF forks, exits
        <5> QED
          BY <1>1, <1>2, <2>1, <3>1, <5>1, NumberedConcat, Counting
      <4>2. CASE first # "fork"
        <5>1. forks = d /\ exits = batch
          BY <4>2 DEF forks, exits
        <5> QED
          BY <1>1, <1>2, <2>1, <3>1, <5>1, NumberedConcat, Counting
      <4> QED
        BY <4>1, <4>2
    <3>3. rings'[k] = rings[k]
      BY <1>12, <2>3
    <3> QED
      BY <2>1, <2>2, <3>2, <3>3
  <2>4. CASE k = kind
    <3>1. c = m
      BY <1>2, <1>6, <2>1, <2>4, NoNumbers
    <3>2. Numbered(d, k, m, accepted[k])
      BY <1>1, <2>1, <2>4
    <3>3. accepted[k] \in Nat /\ Numbered(batch, k, accepted[k], accepted[k])
      BY <1>2, <1>3, <1>6, <2>4, NoneIsNumbered
    <3>4. Numbered(forks \o exits, k, c, accepted[k])
      <4>1. CASE first = "fork"
        <5>1. forks = batch /\ exits = d
          BY <4>1 DEF forks, exits
        <5> QED
          BY <1>1, <1>2, <2>1, <3>1, <3>2, <3>3, <5>1, NumberedConcat, Counting
      <4>2. CASE first # "fork"
        <5>1. forks = d /\ exits = batch
          BY <4>2 DEF forks, exits
        <5> QED
          BY <1>1, <1>2, <2>1, <3>1, <3>2, <3>3, <5>1, NumberedConcat, Counting
      <4> QED
        BY <4>1, <4>2
    <3>5. rings'[k] = <<>> /\ Numbered(<<>>, k, accepted[k], accepted[k])
      BY <1>12, <1>13, <2>4, <3>3, NoneIsNumbered
    <3>6. accepted[k] <= accepted[k] /\ c <= accepted[k]
      BY <2>1, <3>1, <3>3, Counting, Zenon
    <3> QED
      BY <2>2, <3>3, <3>4, <3>5, <3>6
  <2> QED
    BY <1>4, <2>3, <2>4 DEF ProcessKinds
<1>17. Overtakes(Front)'
  <2>1. Overtakes(ahead \o forks)
    <3>1. Overtakes(forks)
      BY <1>9, OneKind DEF ProcessKinds
    <3>2. OnePollBefore(ahead, forks)
      <4>1. CASE first = "fork"
        BY <1>5, <4>1 DEF EventInv, forks
      <4>2. CASE first = "exit"
        <5>1. kind = "fork" /\ forks = d
          BY <1>4, <4>2 DEF forks
        <5>2. ASSUME NEW i \in DOMAIN ahead, NEW j \in DOMAIN d,
                     ahead[i].kind = "exit", ahead[i].pid = d[j].pid
              PROVE  d[j].poll = ahead[i].poll + 1
          BY <1>1, <1>5, <5>1, <5>2 DEF EventInv, AheadOfFork
        <5> QED
          BY <5>1, <5>2 DEF OnePollBefore
      <4> QED
        BY <4>1, <4>2 DEF ProcessKinds
    <3>3. Overtakes(ahead)
      BY <1>5 DEF EventInv
    <3> QED
      BY <1>2, <1>8, <3>1, <3>2, <3>3, OvertakesConcat
  <2>2. Overtakes(exits)
    BY <1>9, OneKind DEF ProcessKinds
  <2>3. OnePollBefore(ahead \o forks, exits)
    BY <1>9, NoForkBehind
  <2>4. Overtakes((ahead \o forks) \o exits)
    BY <1>8, <1>11, <2>1, <2>2, <2>3, OvertakesConcat
  <2> QED
    BY <1>10, <2>4 DEF Overtakes
<1>18. OnePollBefore(Front, Rear)'
    BY <1>10, <1>13 DEF OnePollBefore
<1>19. AheadOfFork'
  <2>1. CASE kind = "fork"
    BY <1>12, <1>13, <2>1 DEF AheadOfFork
  <2>2. CASE kind = "exit"
    <3>1. first = "fork" /\ exits = d /\ rings'["fork"] = rings["fork"]
      BY <1>4, <1>12, <2>2 DEF exits, ProcessKinds
    <3> DEFINE all == (ahead \o forks) \o exits
    <3>2. ASSUME NEW i \in DOMAIN all, NEW j \in DOMAIN rings["fork"],
                 all[i].kind = "exit", all[i].pid = rings["fork"][j].pid
          PROVE  all[i].poll = polls + 1
      <4>1. \/ \E l \in DOMAIN (ahead \o forks) : all[i] = (ahead \o forks)[l]
            \/ \E l \in DOMAIN exits : all[i] = exits[l]
        BY <1>8, <1>11, <3>2, ElementsOfBoth
      <4> HIDE DEF all
      <4>2. CASE \E l \in DOMAIN (ahead \o forks) : all[i] = (ahead \o forks)[l]
        <5>1. PICK l \in DOMAIN (ahead \o forks) : all[i] = (ahead \o forks)[l]
          BY <4>2
        <5>2. \/ \E n \in DOMAIN ahead : all[i] = ahead[n]
              \/ \E n \in DOMAIN forks : all[i] = forks[n]
          <6>1. \/ \E n \in DOMAIN ahead : (ahead \o forks)[l] = ahead[n]
                \/ \E n \in DOMAIN forks : (ahead \o forks)[l] = forks[n]
            BY <1>2, <1>8, ElementsOfBoth
          <6> QED
            BY <5>1, <6>1, Zenon
        <5>3. ASSUME NEW n \in DOMAIN ahead, all[i] = ahead[n] PROVE FALSE
          BY <1>4, <1>5, <2>2, <3>2, <5>3 DEF EventInv, AheadOfFork
        <5>4. ASSUME NEW n \in DOMAIN forks, all[i] = forks[n] PROVE FALSE
          BY <1>9, <3>2, <5>4
        <5> QED
          BY <5>2, <5>3, <5>4
      <4>3. CASE \E l \in DOMAIN exits : all[i] = exits[l]
        BY <1>1, <3>1, <4>3
      <4> QED
        BY <4>1, <4>2, <4>3
    <3> HIDE DEF all
    <3>3. Front' = all
      BY <1>10 DEF all
    <3>4. reader' # "forks drained" /\ polls' = polls + 1
      OBVIOUS
    <3> QED
      BY <3>1, <3>2, <3>3, <3>4 DEF AheadOfFork
  <2> QED
    BY <2>1, <2>2 DEF ProcessKinds
<1> QED
    BY <1>14, <1>15, <1>16, <1>17, <1>18, <1>19 DEF EventInv, ProcessKinds
-----------------------------------------------------------------------------
LEMMA DrainEvents == EventInv /\ (DrainFirst \/ DrainSecond) => EventInv'
<1> SUFFICES ASSUME EventInv, DrainFirst \/ DrainSecond PROVE EventInv'
    OBVIOUS
<1>1. CASE DrainFirst
    BY <1>1, DrainFirstEvents DEF DrainFirst, ProcessKinds
<1>2. CASE DrainSecond
  <2>1. CASE reader = "forks drained"
    <3> DEFINE first == "fork"
               kind == "exit"
    <3>1. /\ batch' = ForksFirst(batch, Drained("exit")) /\ rings' = [rings EXCEPT ![kind] = <<>>]
          /\ first \in ProcessKinds /\ kind \in ProcessKinds /\ kind # first
      BY <1>2, <2>1 DEF DrainSecond, ProcessKinds
    <3> QED
      BY <1>2, <2>1, <3>1, DrainSecondEvents DEF DrainSecond
  <2>2. CASE reader = "exits drained"
    <3> DEFINE first == "exit"
               kind == "fork"
    <3>1. /\ batch' = ForksFirst(Drained("fork"), batch) /\ rings' = [rings EXCEPT ![kind] = <<>>]
          /\ first \in ProcessKinds /\ kind \in ProcessKinds /\ kind # first
      BY <1>2, <2>2 DEF DrainSecond, ProcessKinds
    <3> QED
      BY <1>2, <2>2, <3>1, DrainSecondEvents DEF DrainSecond
  <2> QED
    BY <1>2, <2>1, <2>2 DEF DrainSecond
<1> QED
    BY <1>1, <1>2

\* The rings are lost with the probes; what was sent goes on.
LEMMA DetachedEvents == EventInv /\ (AttachFails \/ ReaderEnds) => EventInv'
<1> SUFFICES ASSUME EventInv, AttachFails \/ ReaderEnds PROVE EventInv'
    OBVIOUS
<1>1. /\ reader' = "gone" /\ attached' = 0 /\ rings' = NoEvents
      /\ UNCHANGED <<accepted, lastPid, living, batch, rawEvents, polls, delivered>>
    BY DEF AttachFails, ReaderEnds, Detached
<1>2. ~ Draining /\ ~ Draining'
    BY <1>1 DEF Draining, AttachFails, ReaderEnds
<1>3. Front' = Front /\ Rear' = Rear
    BY <1>1, <1>2 DEF Front, Rear, OnTheWay
<1>4. rings' = [k \in Kinds |-> rings'[k]] /\ \A k \in ProcessKinds : rings'[k] = <<>>
    BY <1>1 DEF NoEvents, Kinds, ProcessKinds
<1>5. KernelTyped'
    BY <1>1, <1>4, NothingIn DEF EventInv, KernelTyped, Known
<1>6. Known(Front)' /\ Known(Rear)' /\ Overtakes(Front)' /\ OnePollBefore(Front, Rear)'
    BY <1>1, <1>3 DEF EventInv, Known, Overtakes, OnePollBefore
<1>7. Continuous("fork")' /\ Continuous("exit")'
    BY <1>1, <1>3 DEF EventInv, Continuous
<1>8. AheadOfFork'
    BY <1>4, NothingIn DEF AheadOfFork, ProcessKinds
<1> QED
    BY <1>5, <1>6, <1>7, <1>8 DEF EventInv

\* The process monitor writes, or finds no room, or is not attached.
LEMMA ProcessEmits ==
  ASSUME EventInv, NEW kind \in ProcessKinds, NEW pid \in Nat,
         lastPid' \in {lastPid, lastPid + 1}, living' \in SUBSET (1 .. lastPid'),
         pid <= lastPid', kind = "fork" => pid > lastPid,
         Emit("process", kind, ProcessEvent(kind, pid)), UNCHANGED <<attached, task>>
  PROVE  EventInv'
<1> DEFINE e == ProcessEvent(kind, pid)
<1>1. /\ UNCHANGED <<reader, batch, rawEvents, polls, delivered>>
      /\ Front' = Front /\ Rear' = Rear
    BY DEF task, Front, Rear, Draining, OnTheWay
<1>2. lastPid \in Nat /\ lastPid' \in Nat /\ lastPid <= lastPid'
  <2>1. lastPid \in Nat
    BY DEF EventInv, KernelTyped
  <2>2. lastPid' = lastPid \/ lastPid' = lastPid + 1
    OBVIOUS
  <2> QED
    BY <2>1, <2>2
<1>3. \A k \in ProcessKinds : k \in Kinds /\ accepted[k] \in Nat /\ rings[k] \in Seq(Event)
    BY Parts DEF EventInv, KernelTyped
<1>4. \A k \in ProcessKinds : \A i \in DOMAIN rings[k] : rings[k][i].pid <= lastPid'
    BY <1>2, <1>3, KnownLater DEF EventInv, KernelTyped
<1>5. CASE ~ (Attached("process") /\ Room(kind))
  <2>1. rings' = rings /\ accepted' = accepted
    BY <1>5 DEF Emit
  <2>2. KernelTyped'
    BY <1>1, <1>2, <1>4, <2>1 DEF EventInv, KernelTyped, Known
  <2> QED
    BY <1>1, <2>1, <2>2, EventsStay
<1>6. CASE Attached("process") /\ Room(kind)
  <2>1. /\ rings' = [rings EXCEPT ![kind] = Append(@, e)]
        /\ accepted' = [accepted EXCEPT ![kind] = @ + 1]
    BY <1>6 DEF Emit
  <2>2. e \in Event /\ e.kind = kind /\ e.no = accepted[kind] + 1 /\ e.pid = pid
    BY <1>3 DEF ProcessEvent, Event, ProcessKinds
  <2>3. reader # "gone"
    <3>1. PICK i \in 1 .. attached : Programs[i] = "process"
      BY <1>6 DEF Attached
    <3>2. attached # 0
      BY <3>1
    <3> QED
      BY <3>2 DEF EventInv, KernelTyped
  <2> HIDE DEF e
  <2>4. /\ rings' = [k \in Kinds |-> rings'[k]] /\ accepted' \in [Kinds -> Nat]
        /\ rings'[kind] = Append(rings[kind], e) /\ accepted'[kind] = accepted[kind] + 1
        /\ \A k \in ProcessKinds \ {kind} : rings'[k] = rings[k] /\ accepted'[k] = accepted[k]
    <3>1. accepted \in [Kinds -> Nat] /\ rings = [k \in Kinds |-> rings[k]]
      BY DEF EventInv, KernelTyped
    <3>2. accepted[kind] + 1 \in Nat /\ kind \in Kinds
      BY <1>3, Counting
    <3> QED
      BY <1>3, <2>1, <3>1, <3>2
  <2>5. /\ rings'[kind] \in Seq(Event)
        /\ \A i \in DOMAIN rings'[kind] :
             rings'[kind][i] = e \/ (i \in DOMAIN rings[kind] /\ rings'[kind][i] = rings[kind][i])
    BY <1>3, <2>2, <2>4, AppendIs
  <2>6. \A k \in ProcessKinds : /\ rings'[k] \in Seq(Event)
                                /\ \A i \in DOMAIN rings'[k] : rings'[k][i].pid <= lastPid'
                                /\ \A i \in DOMAIN rings'[k] : rings'[k][i].kind = k
    <3> SUFFICES ASSUME NEW k \in ProcessKinds
                 PROVE  /\ rings'[k] \in Seq(Event)
                        /\ \A i \in DOMAIN rings'[k] : rings'[k][i].pid <= lastPid'
                        /\ \A i \in DOMAIN rings'[k] : rings'[k][i].kind = k
      OBVIOUS
    <3>1. \A i \in DOMAIN rings[k] : rings[k][i].kind = k
      BY DEF EventInv, KernelTyped
    <3>2. CASE k = kind
      BY <1>4, <2>2, <2>5, <3>1, <3>2
    <3>3. CASE k # kind
      BY <1>3, <1>4, <2>4, <3>1, <3>3
    <3> QED
      BY <3>2, <3>3
  <2>7. KernelTyped'
    BY <1>1, <1>2, <2>3, <2>4, <2>6 DEF EventInv, KernelTyped, Known
  <2> QED
    BY <1>1, <1>2, <2>2, <2>3, <2>4, <2>7, RingGrows
<1> QED
    BY <1>5, <1>6

LEMMA ProcessEvents == EventInv /\ (Fork \/ Exit) => EventInv'
<1> SUFFICES ASSUME EventInv, Fork \/ Exit PROVE EventInv'
    OBVIOUS
<1>1. lastPid \in Nat /\ living \in SUBSET (1 .. lastPid)
    BY DEF EventInv, KernelTyped
<1>2. CASE Fork
  <2>1. /\ lastPid' = lastPid + 1 /\ living' = living \cup {lastPid'}
        /\ Emit("process", "fork", ProcessEvent("fork", lastPid')) /\ UNCHANGED <<attached, task>>
    BY <1>2 DEF Fork
  <2>2. /\ lastPid' \in Nat /\ lastPid' <= lastPid' /\ lastPid' > lastPid
        /\ living' \in SUBSET (1 .. lastPid') /\ "fork" \in ProcessKinds
    BY <1>1, <2>1 DEF ProcessKinds
  <2> QED
    BY <2>1, <2>2, ProcessEmits
<1>3. CASE Exit
  <2>1. PICK pid \in living : /\ living' = living \ {pid}
                              /\ Emit("process", "exit", ProcessEvent("exit", pid))
    BY <1>3 DEF Exit
  <2>2. lastPid' = lastPid /\ UNCHANGED <<attached, task>>
    BY <1>3 DEF Exit
  <2>3. /\ pid \in Nat /\ pid <= lastPid' /\ living' \in SUBSET (1 .. lastPid')
        /\ "exit" \in ProcessKinds
    BY <1>1, <2>1, <2>2 DEF ProcessKinds
  <2> QED
    BY <2>1, <2>2, <2>3, ProcessEmits
<1> QED
    BY <1>2, <1>3

LEMMA ElsewhereEmits ==
  ASSUME EventInv, NEW program, NEW kind \in Kinds \ ProcessKinds, NEW event,
         Emit(program, kind, event)
  PROVE  /\ rings' = [k \in Kinds |-> rings'[k]] /\ accepted' \in [Kinds -> Nat]
         /\ \A k \in ProcessKinds : rings'[k] = rings[k] /\ accepted'[k] = accepted[k]
<1>1. rings = [k \in Kinds |-> rings[k]] /\ accepted \in [Kinds -> Nat] /\ ProcessKinds \subseteq Kinds
    BY DEF EventInv, KernelTyped, ProcessKinds, Kinds
<1>2. CASE Attached(program) /\ Room(kind)
    BY <1>1, <1>2 DEF Emit
<1>3. CASE ~ (Attached(program) /\ Room(kind))
    BY <1>1, <1>3 DEF Emit
<1> QED
    BY <1>2, <1>3

\* Steps of the other probes, of the loader and of the bridge.
LEMMA OtherEvents ==
  EventInv /\ (AttachNext \/ ReaderStarts \/ Connect \/ Accept \/ Close \/ AllSent \/ BridgeEnds
               \/ UNCHANGED eventVars) => EventInv'
<1> SUFFICES ASSUME EventInv,
                    \/ AttachNext \/ ReaderStarts \/ Connect \/ Accept \/ Close \/ AllSent
                    \/ BridgeEnds \/ UNCHANGED eventVars
             PROVE  EventInv'
    OBVIOUS
<1> USE DEF monitor, kernel, task, eventVars
<1>1. /\ rings' = [k \in Kinds |-> rings'[k]] /\ accepted' \in [Kinds -> Nat]
      /\ \A k \in ProcessKinds : rings'[k] = rings[k] /\ accepted'[k] = accepted[k]
  <2>1. CASE Connect
    <3>1. PICK s \in Sockets \ DOMAIN open :
            Emit("net", "connect", [kind |-> "connect", socket |-> s])
      BY <2>1 DEF Connect
    <3>2. "connect" \in Kinds \ ProcessKinds
      BY DEF Kinds, ProcessKinds
    <3> QED
      BY <3>1, <3>2, ElsewhereEmits
  <2>2. CASE Close
    <3>1. \E event : Emit("net", "close", event)
      BY <2>2 DEF Close
    <3>2. "close" \in Kinds \ ProcessKinds
      BY DEF Kinds, ProcessKinds
    <3> QED
      BY <3>1, <3>2, ElsewhereEmits
  <2>3. CASE ~ Connect /\ ~ Close
    <3>1. rings' = rings /\ accepted' = accepted
      BY <2>3 DEF AttachNext, ReaderStarts, Accept, AllSent, BridgeEnds
    <3> QED
      BY <3>1 DEF EventInv, KernelTyped
  <2> QED
    BY <2>1, <2>2, <2>3
<1>2. UNCHANGED <<batch, rawEvents, delivered, polls, lastPid, living>>
    BY DEF AttachNext, ReaderStarts, Connect, Accept, Close, AllSent, BridgeEnds
<1>3. \/ reader' = reader /\ (attached' = attached \/ reader = "loading")
      \/ /\ reader = "loading" \/ (reader = "sending" /\ batch = <<>>)
         /\ reader' = "polling"
    BY DEF AttachNext, ReaderStarts, Connect, Accept, Close, AllSent, BridgeEnds
<1>4. KernelTyped'
    BY <1>1, <1>2, <1>3 DEF EventInv, KernelTyped, Known
<1>5. Front' = Front /\ Rear' = Rear
    BY <1>2, <1>3 DEF Front, Rear, Draining, OnTheWay
<1> QED
    BY <1>1, <1>2, <1>3, <1>4, <1>5, EventsStay

LEMMA EventStep == EventInv /\ [KernelNext]_eventVars => EventInv'
BY SendEvents, BridgeEvents, DrainEvents, DetachedEvents, ProcessEvents, OtherEvents DEF KernelNext
-----------------------------------------------------------------------------
CloseEvent ==
  [kind : {"close"}, socket : Sockets, start : Nat, opened : Nat, leaked : BOOLEAN]

Measured(close) == close.start \in {0, close.opened} \/ close.leaked

\* A start that is kept is that of the connection now open on its socket, or the
\* close it was for found no room.
ConnectionInv ==
  /\ clock \in Nat /\ rings["close"] \in Seq(CloseEvent)
  /\ DOMAIN open \subseteq Sockets /\ \A s \in DOMAIN open : open[s] \in Nat
  /\ \A s \in DOMAIN connStart :
       connStart[s] \in Nat /\ (s \in leaked \/ (s \in DOMAIN open /\ connStart[s] = open[s]))
  /\ \A i \in DOMAIN rings["close"] : Measured(rings["close"][i])

LEMMA InitConnections == KernelInit => ConnectionInv
<1> SUFFICES ASSUME KernelInit PROVE ConnectionInv
    OBVIOUS
<1>1. /\ DOMAIN open = {} /\ DOMAIN connStart = {} /\ clock = 1 /\ rings["close"] = <<>>
    BY DEF KernelInit, NoEvents, Kinds
<1>2. <<>> \in Seq(CloseEvent) /\ DOMAIN <<>> = {}
    OBVIOUS
<1> QED
    BY <1>1, <1>2 DEF ConnectionInv

\* Only the close of a connection writes to that ring.
LEMMA ConnectStep == EventInv /\ ConnectionInv /\ (Connect \/ Accept) => ConnectionInv'
<1> SUFFICES ASSUME EventInv, ConnectionInv, Connect \/ Accept PROVE ConnectionInv'
    OBVIOUS
<1>1. rings = [k \in Kinds |-> rings[k]] /\ "close" \in Kinds
    BY DEF EventInv, KernelTyped, Kinds
<1>2. rings'["close"] = rings["close"]
  <2>1. CASE Connect
    <3>1. PICK event : Emit("net", "connect", event)
      BY <2>1 DEF Connect
    <3> QED
      BY <1>1, <3>1 DEF Emit
  <2>2. CASE Accept
    BY <2>2 DEF Accept, monitor
  <2> QED
    BY <2>1, <2>2
<1>3. clock' \in Nat /\ clock \in Nat
    BY DEF ConnectionInv, Connect, Accept
<1>4. PICK s \in Sockets \ DOMAIN open, t \in Nat :
        /\ open' = With(open, s, t)
        /\ \/ connStart' = With(connStart, s, t) /\ leaked' = leaked \ {s}
           \/ UNCHANGED <<connStart, leaked>>
  <2>1. CASE Connect
    BY <1>3, <2>1 DEF Connect
  <2>2. CASE Accept
    BY <2>2 DEF Accept
  <2> QED
    BY <2>1, <2>2
<1>5. /\ DOMAIN open' = DOMAIN open \cup {s} /\ open'[s] = t
      /\ \A x \in DOMAIN open : open'[x] = open[x]
    BY <1>4 DEF With
<1>6. DOMAIN open' \subseteq Sockets /\ \A x \in DOMAIN open' : open'[x] \in Nat
    BY <1>4, <1>5 DEF ConnectionInv
<1>7. ASSUME NEW x \in DOMAIN connStart'
      PROVE  connStart'[x] \in Nat /\ (x \in leaked' \/ (x \in DOMAIN open' /\ connStart'[x] = open'[x]))
  <2>1. CASE connStart' = With(connStart, s, t) /\ leaked' = leaked \ {s}
    <3>1. /\ DOMAIN connStart' = DOMAIN connStart \cup {s} /\ connStart'[s] = t
          /\ \A y \in DOMAIN connStart \ {s} : connStart'[y] = connStart[y]
      BY <2>1 DEF With
    <3>2. CASE x = s
      BY <1>5, <3>1, <3>2
    <3>3. CASE x # s
      BY <1>5, <1>7, <2>1, <3>1, <3>3 DEF ConnectionInv
    <3> QED
      BY <3>2, <3>3
  <2>2. CASE UNCHANGED <<connStart, leaked>>
    BY <1>4, <1>5, <1>7, <2>2 DEF ConnectionInv
  <2> QED
    BY <1>4, <2>1, <2>2
<1> QED
    BY <1>2, <1>3, <1>6, <1>7 DEF ConnectionInv, Measured

LEMMA CloseStep == EventInv /\ ConnectionInv /\ Close => ConnectionInv'
<1> SUFFICES ASSUME EventInv, ConnectionInv, Close PROVE ConnectionInv'
    OBVIOUS
<1> DEFINE event(s) == [kind |-> "close", socket |-> s,
                        start |-> IF s \in DOMAIN connStart THEN connStart[s] ELSE 0,
                        opened |-> open[s], leaked |-> s \in leaked]
           written == Attached("net") /\ Room("close")
<1>1. PICK s \in DOMAIN open :
        /\ open' = Without(open, s) /\ Emit("net", "close", event(s))
        /\ connStart' = IF written THEN Without(connStart, s) ELSE connStart
        /\ leaked' = IF written THEN leaked \ {s} ELSE leaked \cup (DOMAIN connStart \cap {s})
    BY DEF Close
<1>2. rings = [k \in Kinds |-> rings[k]] /\ "close" \in Kinds
    BY DEF EventInv, KernelTyped, Kinds
<1>3. rings'["close"] = IF written THEN Append(rings["close"], event(s)) ELSE rings["close"]
    BY <1>1, <1>2 DEF Emit
<1>4. event(s) \in CloseEvent /\ Measured(event(s))
  <2>1. open[s] \in Nat /\ s \in Sockets
    BY DEF ConnectionInv
  <2>2. s \in DOMAIN connStart => connStart[s] \in Nat /\ (s \in leaked \/ connStart[s] = open[s])
    BY DEF ConnectionInv
  <2>3. event(s) \in CloseEvent
    <3>1. (IF s \in DOMAIN connStart THEN connStart[s] ELSE 0) \in Nat
      BY <2>2
    <3>2. (s \in leaked) \in BOOLEAN
      OBVIOUS
    <3> QED
      BY <2>1, <3>1, <3>2 DEF CloseEvent
  <2> QED
    BY <2>2, <2>3 DEF Measured
<1> HIDE DEF event, written
<1>5. rings["close"] \in Seq(CloseEvent) /\ \A i \in DOMAIN rings["close"] : Measured(rings["close"][i])
    BY DEF ConnectionInv
<1>6. rings'["close"] \in Seq(CloseEvent) /\ \A i \in DOMAIN rings'["close"] : Measured(rings'["close"][i])
  <2>1. CASE written
    <3> DEFINE r == rings["close"]
               e == event(s)
    <3>1. r \in Seq(CloseEvent) /\ e \in CloseEvent /\ rings'["close"] = Append(r, e)
          /\ Measured(e) /\ \A i \in DOMAIN r : Measured(r[i])
      BY <1>3, <1>4, <1>5, <2>1
    <3> HIDE DEF r, e
    <3>2. /\ Append(r, e) \in Seq(CloseEvent)
          /\ \A i \in DOMAIN Append(r, e) :
               Append(r, e)[i] = e \/ (i \in DOMAIN r /\ Append(r, e)[i] = r[i])
      BY <3>1
    <3> QED
      BY <3>1, <3>2
  <2>2. CASE ~ written
    BY <1>3, <1>5, <2>2
  <2> QED
    BY <2>1, <2>2
<1>7. /\ DOMAIN open' = DOMAIN open \ {s} /\ \A x \in DOMAIN open' : open'[x] = open[x]
    BY <1>1 DEF Without
<1>8. DOMAIN open' \subseteq Sockets /\ \A x \in DOMAIN open' : open'[x] \in Nat
    BY <1>7 DEF ConnectionInv
<1>9. ASSUME NEW x \in DOMAIN connStart'
      PROVE  connStart'[x] \in Nat /\ (x \in leaked' \/ (x \in DOMAIN open' /\ connStart'[x] = open'[x]))
  <2>1. CASE written
    <3>1. /\ DOMAIN connStart' = DOMAIN connStart \ {s} /\ leaked' = leaked \ {s}
          /\ \A y \in DOMAIN connStart' : connStart'[y] = connStart[y]
      BY <1>1, <2>1 DEF Without
    <3> QED
      BY <1>7, <1>9, <3>1 DEF ConnectionInv
  <2>2. CASE ~ written
    <3>1. connStart' = connStart /\ leaked' = leaked \cup (DOMAIN connStart \cap {s})
      BY <1>1, <2>2
    <3> QED
      BY <1>7, <1>9, <3>1 DEF ConnectionInv
  <2> QED
    BY <2>1, <2>2
<1>10. clock' \in Nat
    BY DEF ConnectionInv, Close
<1> QED
    BY <1>6, <1>8, <1>9, <1>10 DEF ConnectionInv

LEMMA ConnectionStep == EventInv /\ ConnectionInv /\ [KernelNext]_eventVars => ConnectionInv'
<1> SUFFICES ASSUME EventInv, ConnectionInv, [KernelNext]_eventVars PROVE ConnectionInv'
    OBVIOUS
<1>1. rings = [k \in Kinds |-> rings[k]] /\ "close" \in Kinds
    BY DEF EventInv, KernelTyped, Kinds
<1>2. CASE Connect \/ Accept
    BY <1>2, ConnectStep
<1>3. CASE Close
    BY <1>3, CloseStep
<1>4. CASE AttachFails \/ ReaderEnds
  <2>1. /\ rings' = NoEvents /\ connStart' = [s \in {} |-> 0] /\ UNCHANGED <<open, clock>>
    BY <1>4 DEF AttachFails, ReaderEnds, Detached
  <2>2. rings'["close"] = <<>> /\ <<>> \in Seq(CloseEvent) /\ DOMAIN <<>> = {} /\ DOMAIN connStart' = {}
    BY <1>1, <2>1 DEF NoEvents
  <2> QED
    BY <2>1, <2>2 DEF ConnectionInv
<1>5. CASE \/ AttachNext \/ ReaderStarts \/ Fork \/ Exit \/ DrainFirst \/ DrainSecond \/ Send
           \/ AllSent \/ BridgeTakes \/ BridgeEnds \/ UNCHANGED eventVars
  <2>1. UNCHANGED <<open, connStart, clock, leaked>>
    BY <1>5 DEF AttachNext, ReaderStarts, Fork, Exit, DrainFirst, DrainSecond, Send, AllSent,
                BridgeTakes, BridgeEnds, eventVars, kernel
  <2>2. rings'["close"] = rings["close"]
    BY <1>1, <1>5 DEF AttachNext, ReaderStarts, Fork, Exit, DrainFirst, DrainSecond, Send, AllSent,
                      BridgeTakes, BridgeEnds, eventVars, monitor, Emit
  <2> QED
    BY <2>1, <2>2 DEF ConnectionInv
<1> QED
    BY <1>2, <1>3, <1>4, <1>5 DEF KernelNext

\* What the rings of the process monitor took arrives, once and in the order of
\* their numbers, up to some event when the reader is gone; an exit overtakes its
\* fork by one poll at most; and a close measures from the connect of its own
\* connection, or not at all, unless a close on that socket was not written.
THEOREM KernelEventsDoArrive == KernelSpec => []KernelEventsArrive
<1>1. KernelInit => EventInv /\ ConnectionInv
    BY InitEvents, InitConnections
<1>2. EventInv /\ ConnectionInv /\ [KernelNext]_eventVars => EventInv' /\ ConnectionInv'
    BY EventStep, ConnectionStep
<1>3. EventInv /\ ConnectionInv => KernelEventsArrive
    BY EventInvSuffices DEF KernelEventsArrive, ConnectionInv, Measured, MeasuresItself
<1> QED
    BY <1>1, <1>2, <1>3, PTL DEF KernelSpec
=============================================================================
