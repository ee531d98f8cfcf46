---------------------------- MODULE AnalysisTick ----------------------------
(***************************************************************************)
(* One engine of aether-analyze at work (engine.rs, store.rs): at every    *)
(* tick it drains the batches of the metric channel, takes over the world  *)
(* graph, collects profiles and limits, evaluates all built-in rules at    *)
(* every process it has ever seen, makes diagnostics of the findings,      *)
(* groups them and merges them with the active ones.                       *)
(*                                                                         *)
(* A series has the key <<pid, metric>>, with NoPid for the host.  World   *)
(* states and machines (what /proc and the cgroup file system show during  *)
(* a tick) come from small sets; the time is the engine's, in seconds.     *)
(***************************************************************************)
EXTENDS RuleConditions

CONSTANTS
  LastPid,         \* the pids are 1 .. LastPid
  WorldStates,     \* states of the graph: functions from pids to [cpu, mem]
  Batches,         \* remote batches, sequences of [pid, metric, value]
  Machines,        \* records [host, proc, fs]
  Gaps,            \* the times a tick may come after the one before
  TopN,            \* how many processes are profiled
  Capacity,        \* samples in a series
  LastTime, MaxInbox

NoPid == 0

\* A counter of requests counts from 0.
Counter == "http_requests_total"

ASSUME EngineAssumption ==
  /\ LastPid \in Nat /\ Capacity \in Nat /\ Gaps \subseteq Nat
  /\ \A state \in WorldStates :
       DOMAIN state \subseteq 1 .. LastPid /\ \A p \in DOMAIN state : state[p] \in [cpu : Int, mem : Int]
  /\ Batches \subseteq Seq([pid : 0 .. LastPid, metric : STRING, value : Int])
  /\ \A batch \in Batches : \A i \in DOMAIN batch :
       batch[i].metric = Counter => batch[i].value >= 0

VARIABLES
  clock, graph,
  inbox,           \* the metric channel
  store,           \* MetricStore: key -> series
  sustainedState,  \* sustained_state: <<rule, pid>> -> start
  diags, groups,   \* the last tick's diagnostics and their groups
  activeDiags      \* active_diagnostics

analysisVars == <<clock, graph, inbox, store, sustainedState, diags, groups, activeDiags>>
-----------------------------------------------------------------------------
\* push_sample for every key that there is a value for; a series starts
\* with its first sample.
PushAll(st, t, values) ==
  [key \in DOMAIN st \cup DOMAIN values |->
     IF key \notin DOMAIN values THEN st[key]
     ELSE PushSample(IF key \in DOMAIN st THEN st[key] ELSE <<>>, [t |-> t, v |-> values[key]], Capacity)]

\* The values of one process, or of the host, by the keys of their series.
Named(pid, values) == [key \in {pid} \X (DOMAIN values) |-> values[key[2]]]

\* ingest_remote, of all batches: a sample keeps its own time.
IngestRemote(st, samples) ==
  LET after[i \in 0 .. Len(samples)] ==
        IF i = 0 THEN st
        ELSE PushAll(after[i - 1], samples[i].t,
                     [key \in {<<samples[i].pid, samples[i].metric>>} |-> samples[i].v])
  IN  after[Len(samples)]

Sum(field) == Total([p \in 1 .. LastPid |-> IF p \in DOMAIN graph THEN graph[p][field] ELSE 0])

IngestWorld(st, t) ==
  LET processes == [key \in (DOMAIN graph) \X {"cpu_percent", "mem_bytes"} |->
                      IF key[2] = "cpu_percent" THEN graph[key[1]].cpu ELSE graph[key[1]].mem]
      host == [total_cpu |-> Sum("cpu"), total_memory |-> Sum("mem"),
               process_count |-> Cardinality(DOMAIN graph)]
  IN PushAll(PushAll(st, t, processes), t, Named(NoPid, host))

ProcessPids(st) == {key[1] : key \in DOMAIN st} \ {NoPid}

SeriesOf(st, pid) == [metric \in {key[2] : key \in {k \in DOMAIN st : k[1] = pid}} |-> st[<<pid, metric>>]]
-----------------------------------------------------------------------------
HostSamples(host) ==
  [loadavg_1 |-> host.loadavg[1], loadavg_5 |-> host.loadavg[2], loadavg_15 |-> host.loadavg[3],
   mem_total |-> host.total, mem_available |-> host.available, swap_total |-> host.swapTotal,
   swap_free |-> SaturatingSub(host.swapTotal, host.swapUsed)]

ProfileSamples(profile) ==
  IF profile.io = Missing THEN [threads |-> profile.threads, open_fds |-> profile.fds]
  ELSE [threads |-> profile.threads, open_fds |-> profile.fds,
        io_read_bytes |-> profile.io.read, io_write_bytes |-> profile.io.write]

\* What is read of a process is numbers: /proc is there for every pid, and
\* what cannot be read is missing.
ASSUME MachineAssumption ==
  \A machine \in Machines :
    /\ HostProfile(machine.host) # Missing =>
         \A metric \in DOMAIN HostSamples(HostProfile(machine.host)) :
           HostSamples(HostProfile(machine.host))[metric] \in Int
    /\ \A p \in 1 .. LastPid :
         LET profile == ProcessProfile(machine.proc[p].dir)
         IN profile # Missing =>
              \A metric \in DOMAIN ProfileSamples(profile) : ProfileSamples(profile)[metric] \in Int

Cpu(st, pid) == LET s == st[<<pid, "cpu_percent">>] IN s[Len(s)].v

\* top_pids_by_cpu: any N of which no other has more; processes that only a
\* remote source knows have no cpu_percent and are left out.
TopPids(st) ==
  LET pids == {p \in ProcessPids(st) : <<p, "cpu_percent">> \in DOMAIN st}
  IN {top \in SUBSET pids :
        /\ Cardinality(top) = Min({TopN, Cardinality(pids)})
        /\ \A p \in top, q \in pids \ top : Cpu(st, p) >= Cpu(st, q)}

\* collect_profiles, the samples: what cannot be read leaves no sample.
CollectSamples(st, t, machine, top) ==
  LET host == HostProfile(machine.host)
      hosted == IF host = Missing THEN st ELSE PushAll(st, t, Named(NoPid, HostSamples(host)))
      profile(p) == ProcessProfile(machine.proc[p].dir)
      readable == {p \in top : profile(p) # Missing}
      sampled == UNION {{p} \X (DOMAIN ProfileSamples(profile(p))) : p \in readable}
  IN PushAll(hosted, t, [key \in sampled |-> ProfileSamples(profile(key[1]))[key[2]]])

\* collect_profiles, the limits: those of the top processes that have a
\* cgroup, with the default limit of descriptors (0) without a profile.
CollectLimits(machine, top) ==
  LET limits(p) == CgroupLimits(machine.fs, machine.proc[p].cgroup)
      profile(p) == ProcessProfile(machine.proc[p].dir)
  IN [p \in {q \in top : limits(q) # Missing} |->
        ProcessLimits(limits(p), IF profile(p) = Missing THEN 0 ELSE profile(p).softLimit)]
-----------------------------------------------------------------------------
TimerOf(rule, p) == IF <<rule, p>> \in DOMAIN sustainedState THEN sustainedState[<<rule, p>>] ELSE Stopped

\* RuleEngine::evaluate at one process, for every rule; no two of them have
\* a timer in common.
EvaluateRules(series, t, p, limits) ==
  LET ctx == [series |-> series, now |-> t,
              limits |-> IF p \in DOMAIN limits THEN limits[p] ELSE NoLimits]
  IN [r \in DOMAIN BuiltinRules |->
        EvaluateRule(BuiltinRules[r], ctx, TimerOf(BuiltinRules[r].id, p))]

TimersOf(results) ==
  LET running == {k \in (DOMAIN BuiltinRules) \X (DOMAIN results) : results[k[2]][k[1]].timer # Stopped}
      named(k) == <<BuiltinRules[k[1]].id, k[2]>>
  IN [n \in {named(k) : k \in running} |->
        LET k == CHOOSE k \in running : named(k) = n IN results[k[2]][k[1]].timer]

\* What the generator makes of the findings at a process, in rule order.
DiagsAt(series, t, p, results) ==
  LET found == Ascending(Len(BuiltinRules), {r \in DOMAIN BuiltinRules : results[r].met})
  IN [i \in DOMAIN found |->
        DiagnosticOf(BuiltinRules[found[i]], p, results[found[i]].matched, series, t)]

\* The reason of a diagnostic gets a note for each of its groups.
Annotated(found, grouped) == [i \in DOMAIN found |-> [found[i] EXCEPT !.notes = Notes(grouped, i)]]

SameIssue(a, b) == a.target = b.target /\ a.category = b.category

\* Resolve what was not found again, then merge: what is known keeps its
\* place and its time and takes over the rest.
Merged(old, new) ==
  LET still == SelectSeq(old, LAMBDA a : \E i \in DOMAIN new : SameIssue(a, new[i]))
      step(acc, d) ==
        IF \A i \in DOMAIN acc : ~SameIssue(acc[i], d) THEN Append(acc, d)
        ELSE [i \in DOMAIN acc |->
                IF SameIssue(acc[i], d) THEN [d EXCEPT !.at = acc[i].at, !.rule = acc[i].rule]
                ELSE acc[i]]
  IN FoldLeft(step, still, new)
-----------------------------------------------------------------------------
EngineInit ==
  /\ clock = 0 /\ graph = <<>> /\ inbox = <<>>
  /\ store = <<>> /\ sustainedState = <<>>
  /\ diags = <<>> /\ groups = <<>> /\ activeDiags = <<>>

\* The graph updater applies a snapshot.
GraphUpdates ==
  /\ graph' \in WorldStates
  /\ UNCHANGED <<clock, inbox, store, sustainedState, diags, groups, activeDiags>>

\* A scraper, a consumer or a prober sends a batch of what it has just seen.
Remote ==
  /\ Len(inbox) < MaxInbox
  /\ \E batch \in Batches :
       inbox' = Append(inbox, [i \in DOMAIN batch |->
                  [pid |-> batch[i].pid, metric |-> batch[i].metric, t |-> clock, v |-> batch[i].value]])
  /\ UNCHANGED <<clock, graph, store, sustainedState, diags, groups, activeDiags>>

\* tick at the time t, after the channel has been drained; the pids come
\* out of a hash set in any order.
EngineTickAt(t, machine) ==
  LET drained == IngestRemote(store, FlattenSeq(inbox))
      ingested == IngestWorld(drained, t)
  IN /\ t <= LastTime
     /\ clock' = t
     /\ inbox' = <<>>
     /\ UNCHANGED graph
     /\ \E top \in TopPids(ingested) :
          LET collected == CollectSamples(ingested, t, machine, top)
              limits == CollectLimits(machine, top)
              series == [p \in ProcessPids(ingested) |-> SeriesOf(collected, p)]
              results == [p \in DOMAIN series |-> EvaluateRules(series[p], t, p, limits)]
          IN /\ store' = collected
             /\ sustainedState' = TimersOf(results)
             /\ \E order \in SetToSeqs(DOMAIN series) :
                  LET found == FlattenSeq([i \in DOMAIN order |->
                                 DiagsAt(series[order[i]], t, order[i], results[order[i]])])
                  IN /\ groups' = Correlate(found)
                     /\ diags' = Annotated(found, groups')
             /\ activeDiags' = Merged(activeDiags, diags')

EngineTick == \E gap \in Gaps, machine \in Machines : EngineTickAt(clock + gap, machine)

EngineNext == GraphUpdates \/ Remote \/ EngineTick

EngineSpec == EngineInit /\ [][EngineNext]_analysisVars
-----------------------------------------------------------------------------
\* The sum of the products of the differences of all pairs.
OverPairs(xs, ys) ==
  Total([j \in DOMAIN xs |-> Total([i \in 1 .. j - 1 |-> (xs[j] - xs[i]) * (ys[j] - ys[i])])])

\* The slope that every series is reported with is the one of the least
\* squares line, here over all pairs of samples: the sum of the products of
\* their differences by the sum of the squares of their distances in time.
RegressionAgrees ==
  \A key \in DOMAIN store :
    LET p == WindowedPoints(store[key], 300)
        xx == OverPairs(p.x, p.x)
    IN LinearRegression(p) = IF xx = 0 THEN <<0, 1>> ELSE <<OverPairs(p.x, p.y), xx>>

DiagsOf(rule) == {i \in DOMAIN diags : diags[i].rule = rule}

\* The rule for a drop of the throughput looks at a counter that only grows
\* while its process lives: it fires only if the counter was reset to less,
\* by a restart, among the samples of its window.
DropOnlyAfterReset ==
  \A i \in DiagsOf("app_throughput_drop") :
    LET s == store[<<diags[i].target, Counter>>]
    IN \E k \in 1 .. Len(s) - 1 : s[k + 1].v < s[k].v /\ clock - s[k].t <= 300

InGroups(i) == {g \in DOMAIN groups : i \in ToSet(groups[g].members)}

\* The groups of a tick account for its diagnostics: at most one stays
\* alone, only the first of several causal pairs is in more than one group,
\* a pair is of a known cause and effect in one order or the other, and a
\* compound group is of one target and differs from its first in category.
CorrelationAccounts ==
  /\ Cardinality({i \in DOMAIN diags : InGroups(i) = {}}) <= 1
  /\ \A i \in DOMAIN diags :
       Cardinality(InGroups(i)) > 1 =>
         \A g \in InGroups(i) : groups[g].kind = "causal" /\ groups[g].members[1] = i
  /\ \A g \in DOMAIN groups :
       LET members == groups[g].members
           first == diags[members[1]]
           others == {diags[members[k]] : k \in 2 .. Len(members)}
       IN /\ others # {}
          /\ groups[g].kind = "causal" =>
               \A d \in others : {<<first.category, d.category>>, <<d.category, first.category>>}
                                   \cap CausalPatterns # {}
          /\ groups[g].kind = "compound" =>
               \A d \in others : d.target = first.target /\ d.category # first.category
=============================================================================
