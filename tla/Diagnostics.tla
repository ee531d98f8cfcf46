----------------------------- MODULE Diagnostics -----------------------------
(***************************************************************************)
(* The life of a diagnostic: the tick of the analysis engine               *)
(* (aether-analyze/src/engine.rs) turns the findings of RuleEngine into    *)
(* active diagnostics and sends all of them over a bounded channel; the    *)
(* collector of aether-terminal/src/main.rs announces each one on the      *)
(* event bus and upserts it into the vector that the TUI, the web page,    *)
(* the gRPC service and the exporter show; the forwarder of the script     *)
(* rules upserts into the same vector; and the web page dismisses from it. *)
(*                                                                         *)
(* A diagnostic is its id, its target (a pid), its category and its        *)
(* severity; the evidence and the recommendation are overwritten together  *)
(* with the severity everywhere and are left out.                          *)
(***************************************************************************)
EXTENDS RuleEngine, SequencesExt

CONSTANTS
  ChannelCapacity,      \* of diag_tx: 32 in main
  MaxDiagnostics,       \* MAX_DIAGNOSTICS of upsert_diagnostics: 200
  ScriptBase,           \* the first SCRIPT_DIAG_ID: 1_000_000
  MaxId, MaxScripts     \* bounds: ids that the generator and the scripts take

ASSUME DiagnosticsAssumption ==
  /\ ChannelCapacity \in Nat \ {0} /\ MaxDiagnostics \in Nat \ {0}
  /\ ScriptBase \in Nat /\ MaxId \in Nat /\ MaxScripts \in Nat
  /\ \A r \in RuleIds : Rules[r].category # "ScriptRule"

VARIABLES
  active,               \* AnalyzeEngine.active_diagnostics
  nextId,               \* RecommendationGenerator.next_id
  sending,              \* the engine is at diag_tx.send(..).await
  channel,              \* the batches on their way to the collector
  shared,               \* the shared diagnostics vector
  scripts,              \* how many ids SCRIPT_DIAG_ID has handed out
  dropped               \* history: keys taken out of shared and not put back

engineVars == <<ruleVars, active, nextId, sending>>
vars == <<engineVars, channel, shared, scripts, dropped>>

Key(d) == <<d.target, d.category>>
Keys(ds) == {Key(d) : d \in ToSet(ds)}

\* Vec::retain: those that are in S, in their order.
Retain(ds, S) ==
  LET kept[n \in 0 .. Len(ds)] ==
        IF n = 0 THEN <<>>
        ELSE IF ds[n] \in S THEN Append(kept[n - 1], ds[n]) ELSE kept[n - 1]
  IN kept[Len(ds)]

Init ==
  /\ RuleInit
  /\ active = <<>> /\ nextId = 1 /\ sending = FALSE
  /\ channel = <<>> /\ shared = <<>> /\ scripts = 0
  /\ dropped = {}
-----------------------------------------------------------------------------
(* The engine.                                                             *)

WorldChanges ==
  /\ Snapshot
  /\ UNCHANGED <<active, nextId, sending, channel, shared, scripts, dropped>>

\* The findings as the vector that evaluate returns: the pids come out of a
\* hash set in any order, the rules of a pid in the order of loading.
FindingsInOrder(n) ==
  {fs \in [1 .. n -> findings'] :
     /\ ToSet(fs) = findings'
     /\ \A i, j \in 1 .. n : i < j =>
          \/ fs[i][2] = fs[j][2] /\ fs[i][1] < fs[j][1]
          \/ \A k \in j .. n : fs[k][2] # fs[i][2]}

\* RecommendationGenerator::generate: every finding takes a new id, also one
\* whose diagnostic is active already.
Generate(fs) ==
  [i \in DOMAIN fs |-> [id |-> nextId + i - 1, target |-> fs[i][2],
                        category |-> Rules[fs[i][1]].category,
                        severity |-> Rules[fs[i][1]].severity]]

\* Mutant of the merge: the first finding's severity stays.
MergeKeepsSeverity(ds, new) == IF Key(new) \in Keys(ds) THEN ds ELSE Append(ds, new)

\* One step of the merge: a diagnostic that is active already keeps its id
\* and takes the new severity, another one joins the end.
MergeOne(ds, new) ==
  IF Key(new) \in Keys(ds)
  THEN [i \in DOMAIN ds |->
          IF Key(ds[i]) = Key(new) THEN [ds[i] EXCEPT !.severity = new.severity] ELSE ds[i]]
  ELSE Append(ds, new)

Merge(ds, new) ==
  LET merged[n \in 0 .. Len(new)] ==
        IF n = 0 THEN ds ELSE MergeOne(merged[n - 1], new[n])
  IN merged[Len(new)]

Tick(dt) ==
  /\ ~sending
  /\ Evaluate(dt)
  /\ \E n \in 0 .. MaxId + 1 - nextId : \E fs \in FindingsInOrder(n) :
       LET new == Generate(fs)
           kept == Retain(active, {d \in ToSet(active) : Key(d) \in Keys(new)})
       IN  /\ active' = Merge(kept, new)
           /\ nextId' = nextId + n
  /\ sending' = TRUE
  /\ UNCHANGED <<channel, shared, scripts, dropped>>

Send ==
  /\ sending /\ Len(channel) < ChannelCapacity
  /\ channel' = Append(channel, active)
  /\ sending' = FALSE
  /\ UNCHANGED <<ruleVars, active, nextId, shared, scripts, dropped>>
-----------------------------------------------------------------------------
(* The shared vector.                                                      *)

\* Mutants: every diagnostic is pushed; one that is shown already is kept as
\* it is; the oldest go, without a sort by severity.
PushOne(ds, new) == Append(ds, new)

KeepOne(ds, new) == IF Key(new) \in Keys(ds) THEN ds ELSE Append(ds, new)

EvictOldest(ds) ==
  IF Len(ds) > MaxDiagnostics
  THEN SubSeq(ds, Len(ds) - MaxDiagnostics + 1, Len(ds)) ELSE ds

UpsertOne(ds, new) ==
  IF Key(new) \in Keys(ds)
  THEN [i \in DOMAIN ds |-> IF Key(ds[i]) = Key(new) THEN new ELSE ds[i]]
  ELSE Append(ds, new)

UpsertAll(ds, batch) ==
  LET upserted[n \in 0 .. Len(batch)] ==
        IF n = 0 THEN ds ELSE UpsertOne(upserted[n - 1], batch[n])
  IN upserted[Len(batch)]

\* A stable sort by severity.
BySeverity(ds) ==
  LET Of(s) == Retain(ds, {d \in ToSet(ds) : d.severity = s})
  IN  Of(0) \o Of(1) \o Of(2)

\* Over capacity the excess goes from the front of the sorted vector.
Evict(ds) ==
  IF Len(ds) > MaxDiagnostics
  THEN SubSeq(BySeverity(ds), Len(ds) - MaxDiagnostics + 1, Len(ds)) ELSE ds

Upsert(batch) ==
  /\ shared' = Evict(UpsertAll(shared, batch))
  /\ dropped' = (dropped \cup Keys(shared) \cup Keys(batch)) \ Keys(shared')

Collect ==
  /\ channel # <<>>
  /\ channel' = Tail(channel)
  /\ Upsert(Head(channel))
  /\ UNCHANGED <<engineVars, scripts>>

\* A script rule fired: rule_action_to_diagnostic and upsert.
Bridge(p, severity) ==
  /\ scripts < MaxScripts
  /\ scripts' = scripts + 1
  /\ Upsert(<<[id |-> ScriptBase + scripts, target |-> p,
               category |-> "ScriptRule", severity |-> severity]>>)
  /\ UNCHANGED <<engineVars, channel>>

\* POST /api/diagnostics/:id/dismiss; "not found" changes nothing.
Dismiss(id) ==
  /\ \E d \in ToSet(shared) : d.id = id
  /\ shared' = Retain(shared, {d \in ToSet(shared) : d.id # id})
  /\ dropped' = dropped \cup (Keys(shared) \ Keys(shared'))
  /\ UNCHANGED <<engineVars, channel, scripts>>

Next ==
  \/ WorldChanges
  \/ \E dt \in Elapsed : Tick(dt)
  \/ Send \/ Collect
  \/ \E p \in Pids, s \in Severities : Bridge(p, s)
  \/ \E d \in ToSet(shared) : Dismiss(d.id)

Spec == Init /\ [][Next]_vars
-----------------------------------------------------------------------------
\* One diagnostic per target and category, in the engine and in what is
\* shown, and never more than MAX_DIAGNOSTICS of them.
OnePerTargetAndCategory ==
  /\ \A i, j \in DOMAIN active : Key(active[i]) = Key(active[j]) => i = j
  /\ \A i, j \in DOMAIN shared : Key(shared[i]) = Key(shared[j]) => i = j
  /\ Len(shared) <= MaxDiagnostics

\* After a tick the active diagnostics are the findings: each has a rule of
\* its category and severity that has just matched its process, and no
\* finding is without a diagnostic.
ActiveIsWhatMatched ==
  /\ Keys(active) = {<<f[2], Rules[f[1]].category>> : f \in findings}
  /\ \A d \in ToSet(active) :
       \E f \in findings : /\ f[2] = d.target
                           /\ Rules[f[1]].category = d.category
                           /\ Rules[f[1]].severity = d.severity

\* When nothing is under way, what is shown is up to date: every active
\* diagnostic is in the shared vector as it is in the engine, except for those
\* that were dismissed or evicted since.
ShownIsCurrent ==
  ~sending /\ channel = <<>> =>
    \A d \in ToSet(active) : d \in ToSet(shared) \/ Key(d) \in dropped

\* What the vector would hold after an upsert if it had no bound.
LastSeen ==
  LET batch == IF Len(channel') < Len(channel) THEN Head(channel) ELSE <<>>
  IN  {d \in ToSet(shared) : Key(d) \notin Keys(batch)} \cup ToSet(batch)

\* Eviction takes the least severe: whatever an upsert pushes out of the
\* vector was, as last seen, no more severe than anything that stays.
EvictionSparesTheWorse ==
  [][Len(shared') = MaxDiagnostics =>
       \A d \in LastSeen : Key(d) \notin Keys(shared') =>
         \A e \in ToSet(shared') : d.severity <= e.severity]_vars
=============================================================================
