-------------------------- MODULE RuleEngineHistory --------------------------
(***************************************************************************)
(* RuleEngine with a history variable that records every sample of every   *)
(* process and when it was taken, and what "sustained" means in terms of   *)
(* that record.  The engine itself keeps one Instant per rule and pid.     *)
(***************************************************************************)
EXTENDS RuleEngine

CONSTANT MaxTicks       \* bound: evaluations

VARIABLE samples        \* the evaluations so far: their time and the store's samples

histVars == <<ruleVars, samples>>

Now == IF samples = <<>> THEN 0 ELSE samples[Len(samples)].time

HistInit == RuleInit /\ samples = <<>>

HistSnapshot == Snapshot /\ UNCHANGED samples

HistEvaluate(dt) ==
  /\ Len(samples) < MaxTicks
  /\ Evaluate(dt)
  /\ samples' = Append(samples, [time |-> Now + dt, sample |-> last'])

HistNext == HistSnapshot \/ \E dt \in Elapsed : HistEvaluate(dt)

HistSpec == HistInit /\ [][HistNext]_histVars
-----------------------------------------------------------------------------
Over(r, p, i) == p \in DOMAIN samples[i].sample /\ samples[i].sample[p] >= Rules[r].min

\* The value of p has been over the threshold of r at every sample from some
\* moment on that lies at least the required duration back.
SustainedBySamples(r, p) ==
  \E i \in DOMAIN samples :
    /\ Now - samples[i].time >= Rules[r].sustained
    /\ \A j \in i .. Len(samples) : Over(r, p, j)

\* A rule with "sustained" fires for a pid exactly when every sample of the
\* store in a period of that length up to now has been over its threshold,
\* whatever the intervals between the evaluations were.  The samples are the
\* store's: a pid whose process is gone goes on with its last sample, and one
\* that was taken over by another process goes on with that one's.
FiresIffSustained ==
  samples # <<>> =>
    \A r \in RuleIds, p \in DOMAIN last :
      <<r, p>> \in findings <=> SustainedBySamples(r, p)
=============================================================================
