----------------------------- MODULE RuleEngine -----------------------------
(***************************************************************************)
(* Rule evaluation of aether-analyze: the metric store that is fed from    *)
(* the world graph (store.rs), the threshold rules with their "sustained"  *)
(* timers (rules/engine.rs) and the findings of one evaluation.            *)
(*                                                                         *)
(* A process is a pid and the band its metric is in: 0 below every         *)
(* threshold, then one band per threshold in rising order.  Time is        *)
(* counted in units of the analysis interval; a timer is represented by    *)
(* the time that has passed since its Instant, up to the duration its rule *)
(* asks for, which is all that check_sustained compares.                   *)
(***************************************************************************)
EXTENDS Integers, FiniteSets, Sequences, Functions

CONSTANTS
  Pids,                 \* the pids that the operating system hands out
  Bands,                \* 0 .. the number of thresholds
  Rules,                \* the enabled rules, in the order they were loaded
  Elapsed               \* the time that may lie between two evaluations

Severities == 0 .. 2    \* Severity: Info, Warning, Critical, in this order

ASSUME RuleAssumption ==
  /\ Bands \subseteq Nat /\ Elapsed \subseteq Nat
  /\ Rules \in Seq([min : Bands \ {0}, sustained : Nat, severity : Severities,
                    category : STRING])

VARIABLES
  world,                \* the processes of the WorldGraph and their bands
  last,                 \* MetricStore: the last sample of every pid it has seen
  timers,               \* RuleEngine.sustained_state, as ages
  findings              \* the findings of the last evaluation

ruleVars == <<world, last, timers, findings>>

Worlds == UNION {[ps -> Bands] : ps \in SUBSET Pids}
RuleIds == DOMAIN Rules
RulePids(ps) == {<<r, p>> : r \in RuleIds, p \in ps}

RuleInit ==
  /\ world = <<>> /\ last = <<>>
  /\ timers = <<>>
  /\ findings = {}
-----------------------------------------------------------------------------
\* apply_snapshot has replaced the processes of the world graph.  A pid may
\* die, come back as another process, or stay and change its band.
Snapshot ==
  /\ world' \in Worlds
  /\ UNCHANGED <<last, timers, findings>>

\* ingest_world_state: a sample for every process there is.  Nothing removes
\* the series of a process that is gone.
Ingest == [p \in DOMAIN last \cup DOMAIN world |->
             IF p \in DOMAIN world THEN world[p] ELSE last[p]]

Exceeds(r, p, sample) == sample[p] >= Rules[r].min

\* Mutant: a sample below the threshold leaves the timer running.
TimersUncleared(sample, dt) ==
  [k \in {rp \in RulePids(DOMAIN sample) :
            /\ Rules[rp[1]].sustained > 0
            /\ rp \in DOMAIN timers \/ Exceeds(rp[1], rp[2], sample)} |->
     IF k \notin DOMAIN timers THEN 0
     ELSE IF timers[k] + dt < Rules[k[1]].sustained THEN timers[k] + dt
     ELSE Rules[k[1]].sustained]

\* A timer starts with the first sample over the threshold and is cleared by
\* the first one that is not; a rule without "sustained" keeps no timer.
TimersAfter(sample, dt) ==
  [k \in {rp \in RulePids(DOMAIN sample) :
            Rules[rp[1]].sustained > 0 /\ Exceeds(rp[1], rp[2], sample)} |->
     IF k \notin DOMAIN timers THEN 0
     ELSE IF timers[k] + dt < Rules[k[1]].sustained THEN timers[k] + dt
     ELSE Rules[k[1]].sustained]

Matches(r, p, sample, ages) ==
  /\ Exceeds(r, p, sample)
  /\ Rules[r].sustained > 0 => ages[<<r, p>>] >= Rules[r].sustained

\* RuleEngine::evaluate over every pid that the store has ever seen.
Evaluate(dt) ==
  /\ last' = Ingest
  /\ timers' = TimersAfter(last', dt)
  /\ findings' = {rp \in RulePids(DOMAIN last') : Matches(rp[1], rp[2], last', timers')}
  /\ UNCHANGED world

=============================================================================
