--------------------------- MODULE ScriptRuntime ---------------------------
(***************************************************************************)
(* The script engine of aether-script: the watcher that reloads the rule   *)
(* file when it changes (hot_reload.rs), the duration timers (runtime.rs)  *)
(* and the evaluation of one snapshot (engine.rs).                         *)
(*                                                                         *)
(* A file is a model of its contents; Accepted are those that tokenize,    *)
(* parse, type-check and compile, and Rules what they compile to.  A       *)
(* missing file is one that is not accepted.  A compiled condition is the  *)
(* set of the process states for which it holds.  Two files that are       *)
(* written one after the other, as by an editor that truncates the file    *)
(* first, are two steps of Write.                                          *)
(***************************************************************************)
EXTENDS Integers, Sequences

CONSTANTS
  Pids, ProcStates,     \* the pids, and what a rule can tell of a process
  Files, Accepted,      \* the contents of the rule file, those without an error
  Rules,                \* the compiled rules of every accepted file
  InitialFile,          \* the file that was loaded at the start
  Names,                \* the names of rules
  Horizon,              \* the longest duration of any rule
  Elapsed,              \* the time that may lie between two snapshots
  EventCap,             \* capacity of the channel of file events
  MaxWrites             \* bound: changes of the file

NoDuration == -1        \* Rule::duration_secs is None
Stopped == -1           \* no Instant in DurationTracker.timers

CompiledRules ==
  Seq([name : Names, holds : SUBSET ProcStates, seconds : {NoDuration} \cup 0 .. Horizon])

ASSUME ReloadAssumption ==
  /\ Accepted \subseteq Files /\ InitialFile \in Accepted
  /\ EventCap \in Nat \ {0} /\ MaxWrites \in Nat
ASSUME EngineAssumption ==
  /\ Rules \in [Accepted -> CompiledRules]
  /\ Horizon \in Nat /\ Elapsed \subseteq Nat

VARIABLES
  disk,                 \* the contents of the rule file
  writes,               \* how often it was changed
  raised,               \* file events on the way to the callback of the watcher
  chan,                 \* file events in the channel to the reloader
  watcher,              \* where HotReloader::watch stands
  source,               \* what recompile has read
  active,               \* the ArcSwap: the file whose rules are in force
  missed,               \* changes that no event was raised for, since the last reading
  cancelled,            \* the CancellationToken
  timers,               \* DurationTracker.timers, as ages
  fired                 \* the actions of the last evaluation: <<rule, pid>>

reloadVars == <<disk, writes, raised, chan, watcher, source, active, missed, cancelled>>
engineVars == <<timers, fired>>
scriptVars == <<reloadVars, engineVars>>

Snapshots == UNION {[ps -> ProcStates] : ps \in SUBSET Pids}

\* init_rules_engine has loaded the file; the watch task has not begun.
Init ==
  /\ disk = InitialFile /\ source = InitialFile /\ active = InitialFile
  /\ writes = 0 /\ raised = 0 /\ chan = 0
  /\ watcher = "starting"
  /\ missed = 0 /\ cancelled = FALSE
  /\ timers = [k \in Names \X Pids |-> Stopped]
  /\ fired = {}
-----------------------------------------------------------------------------
\* The file is changed.  Before the watch is set up nothing tells of it.
Write(c) ==
  /\ writes < MaxWrites /\ c # disk
  /\ disk' = c /\ writes' = writes + 1
  /\ IF watcher = "starting" THEN missed' = missed + 1 /\ UNCHANGED raised
     ELSE raised' = raised + 1 /\ UNCHANGED missed
  /\ UNCHANGED <<chan, watcher, source, active, cancelled, engineVars>>

\* create_watcher and watcher.watch.
StartWatch ==
  /\ watcher = "starting"
  /\ watcher' = "idle"
  /\ UNCHANGED <<disk, writes, raised, chan, source, active, missed, cancelled, engineVars>>

\* blocking_send in the callback: an event waits while the channel is full.
Deliver ==
  /\ raised > 0 /\ chan < EventCap
  /\ raised' = raised - 1 /\ chan' = chan + 1
  /\ UNCHANGED <<disk, writes, watcher, source, active, missed, cancelled, engineVars>>

\* The select of watch takes an event, and the 100 ms begin.
BeginDebounce ==
  /\ watcher = "idle" /\ chan > 0
  /\ watcher' = "debouncing" /\ chan' = chan - 1
  /\ UNCHANGED <<disk, writes, raised, source, active, missed, cancelled, engineVars>>

Absorb ==
  /\ watcher = "debouncing" /\ chan > 0
  /\ chan' = chan - 1
  /\ UNCHANGED <<disk, writes, raised, watcher, source, active, missed, cancelled, engineVars>>

\* The deadline is over: recompile reads the file.  Nothing in the debounce
\* looks at the cancellation.
ReadFile ==
  /\ watcher = "debouncing"
  /\ watcher' = "compiling" /\ source' = disk /\ missed' = 0
  /\ UNCHANGED <<disk, writes, raised, chan, active, cancelled, engineVars>>

\* Mutant: events that came in while the rules were compiled are thrown away.
StoreAndDrain ==
  /\ watcher = "compiling"
  /\ watcher' = "idle" /\ chan' = 0
  /\ active' = IF source \in Accepted THEN source ELSE active
  /\ UNCHANGED <<disk, writes, raised, source, missed, cancelled, engineVars>>

\* Mutant: the watch returns on the first file that is refused.
StoreOrStop ==
  /\ watcher = "compiling"
  /\ watcher' = IF source \in Accepted THEN "idle" ELSE "stopped"
  /\ active' = IF source \in Accepted THEN source ELSE active
  /\ UNCHANGED <<disk, writes, raised, chan, source, missed, cancelled, engineVars>>

\* The rest of recompile: the new rules are stored at once, or not at all.
Store ==
  /\ watcher = "compiling"
  /\ watcher' = "idle"
  /\ active' = IF source \in Accepted THEN source ELSE active
  /\ UNCHANGED <<disk, writes, raised, chan, source, missed, cancelled, engineVars>>

Cancel ==
  /\ ~cancelled /\ cancelled' = TRUE
  /\ UNCHANGED <<disk, writes, raised, chan, watcher, source, active, missed, engineVars>>

StopWatch ==
  /\ cancelled /\ watcher = "idle"
  /\ watcher' = "stopped"
  /\ UNCHANGED <<disk, writes, raised, chan, source, active, missed, cancelled, engineVars>>

Reload ==
  \/ \E c \in Files : Write(c)
  \/ StartWatch \/ Deliver \/ BeginDebounce \/ Absorb \/ ReadFile \/ Store
  \/ Cancel \/ StopWatch
-----------------------------------------------------------------------------
Aged(age, dt) ==
  IF age = Stopped THEN Stopped ELSE IF age + dt < Horizon THEN age + dt ELSE Horizon

\* Mutant: a false condition leaves the timer running.
TimerKept(age, rule, proc) ==
  IF rule.seconds = NoDuration \/ proc \notin rule.holds \/ age # Stopped THEN age ELSE 0

\* check_duration: a false condition removes the timer, a true one starts it.
TimerAfter(age, rule, proc) ==
  IF rule.seconds = NoDuration THEN age
  ELSE IF proc \notin rule.holds THEN Stopped
  ELSE IF age = Stopped THEN 0 ELSE age

\* The timer of a name and pid after the first i of the active rules.  Rules
\* of one name share it; it runs on for a name or pid that is not looked at.
TimerAt(n, p, snap, dt) ==
  LET after[i \in 0 .. Len(Rules[active])] ==
        IF i = 0 THEN Aged(timers[<<n, p>>], dt)
        ELSE IF p \in DOMAIN snap /\ Rules[active][i].name = n
        THEN TimerAfter(after[i - 1], Rules[active][i], snap[p])
        ELSE after[i - 1]
  IN after

\* evaluate_with_tracker of one rule for one process.
Fires(i, p, snap, dt) ==
  LET rule == Rules[active][i]
  IN /\ snap[p] \in rule.holds
     /\ \/ rule.seconds = NoDuration
        \/ TimerAt(rule.name, p, snap, dt)[i] >= rule.seconds

\* collect_actions: one version of the rules for all processes of a snapshot.
EvaluateSnapshot(snap, dt) ==
  /\ ~cancelled
  /\ timers' = [k \in Names \X Pids |-> TimerAt(k[1], k[2], snap, dt)[Len(Rules[active])]]
  /\ fired' = {ip \in (DOMAIN Rules[active]) \X (DOMAIN snap) : Fires(ip[1], ip[2], snap, dt)}
  /\ UNCHANGED reloadVars

Next == Reload \/ \E snap \in Snapshots, dt \in Elapsed : EvaluateSnapshot(snap, dt)

\* notify and tokio run the callback, the reloader and its timer.
ReloadFairness ==
  /\ WF_scriptVars(StartWatch) /\ WF_scriptVars(Deliver) /\ WF_scriptVars(BeginDebounce)
  /\ WF_scriptVars(ReadFile) /\ WF_scriptVars(Store)

Spec == Init /\ [][Next]_scriptVars

FairSpec == Spec /\ ReloadFairness
-----------------------------------------------------------------------------
\* The types of what the reloader works on.
TypeOK ==
  /\ disk \in Files /\ source \in Files /\ active \in Accepted
  /\ writes \in Nat /\ raised \in Nat /\ chan \in 0 .. EventCap
  /\ watcher \in {"starting", "idle", "debouncing", "compiling", "stopped"}
  /\ missed \in Nat /\ cancelled \in BOOLEAN

\* When the watcher is idle and no event is on its way, the rules in force
\* are those of the file, unless the file is refused; however the changes of
\* the file, the debounce, the reading and the compiling were interleaved.
\* Only a change from before the watch was set up may still be missed.
NoReloadLost ==
  watcher = "idle" /\ raised = 0 /\ chan = 0 /\ missed = 0 /\ disk \in Accepted
    => active = disk

\* A change the watcher was told of comes into force, or is overtaken by
\* another change, unless the program is ended.
EditTakesEffect ==
  \A c \in Accepted :
    (disk = c /\ missed = 0 /\ watcher # "starting") ~> (active = c \/ disk # c \/ cancelled)
-----------------------------------------------------------------------------
(* The runtime with a record of the snapshots that were evaluated, and     *)
(* what "for" means in terms of that record.                               *)

CONSTANT MaxSteps       \* bound: evaluations and changes of the file together

VARIABLE log            \* the evaluations: their time, the active file, the snapshot

histVars == <<scriptVars, log>>

Now == IF log = <<>> THEN 0 ELSE log[Len(log)].time

HistInit == Init /\ log = <<>>

HistReload == Reload /\ Len(log) + writes' <= MaxSteps /\ UNCHANGED log

HistEvaluate(snap, dt) ==
  /\ Len(log) + writes < MaxSteps
  /\ EvaluateSnapshot(snap, dt)
  /\ log' = Append(log, [time |-> Now + dt, file |-> active, snap |-> snap])

HistNext == HistReload \/ \E snap \in Snapshots, dt \in Elapsed : HistEvaluate(snap, dt)

HistSpec == HistInit /\ [][HistNext]_histVars
HistFairSpec == HistSpec /\ ReloadFairness
-----------------------------------------------------------------------------
\* The evaluations in which a rule with a duration looked at the name n and
\* pid p: the number of the snapshot and of the rule, and their order.
Checks(n, p) ==
  {ji \in UNION {{j} \X (DOMAIN Rules[log[j].file]) : j \in DOMAIN log} :
     /\ p \in DOMAIN log[ji[1]].snap
     /\ Rules[log[ji[1]].file][ji[2]].name = n
     /\ Rules[log[ji[1]].file][ji[2]].seconds # NoDuration}

Holds(c, p) == log[c[1]].snap[p] \in Rules[log[c[1]].file][c[2]].holds

NotAfter(b, c) == b[1] < c[1] \/ (b[1] = c[1] /\ b[2] <= c[2])

\* Every look of a rule of this name at this pid, from one that lies the
\* duration back to the look c, has found its condition true.
HeldAtEveryCheck(c, p) ==
  LET rule == Rules[log[c[1]].file][c[2]]
  IN \E b \in Checks(rule.name, p) :
       /\ NotAfter(b, c) /\ Now - log[b[1]].time >= rule.seconds
       /\ \A d \in Checks(rule.name, p) : NotAfter(b, d) /\ NotAfter(d, c) => Holds(d, p)

Latest == log[Len(log)]

\* A rule fires exactly when the condition of every rule of its name was true
\* at each look at the pid for the duration, across reloads, whatever
\* snapshots the pid was missing from: the timers know names and pids only.
FiresIffHeldAtEveryCheck ==
  log # <<>> =>
    \A i \in DOMAIN Rules[Latest.file], p \in DOMAIN Latest.snap :
      LET rule == Rules[Latest.file][i]
      IN <<i, p>> \in fired <=>
           /\ Latest.snap[p] \in rule.holds
           /\ rule.seconds = NoDuration \/ HeldAtEveryCheck(<<Len(log), i>>, p)
=============================================================================
