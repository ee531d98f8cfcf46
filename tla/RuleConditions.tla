--------------------------- MODULE RuleConditions ---------------------------
(***************************************************************************)
(* The rules that aether-analyze comes with (rules/builtin.rs and          *)
(* rules/app_rules.rs), as terms of the condition language of              *)
(* rules/types.rs; the evaluation of a rule for one process                *)
(* (rules/engine.rs): all kinds of conditions, the timer that the rule and *)
(* the process have in common and the values that matched; and what the    *)
(* recommendation generator makes of a finding                             *)
(* (recommendations/generator.rs).                                         *)
(*                                                                         *)
(* Times are in seconds, amounts of memory and of disk in megabytes; a     *)
(* bound is a fraction <<num, den>>.                                       *)
(*                                                                         *)
(* ctx has the process's series by metric, its limits by source and the    *)
(* time; st is [met, timer, matched]: a timer is the time at which it was  *)
(* started or Stopped, matched a sequence of [metric, value].              *)
(***************************************************************************)
EXTENDS Analyzers

Always == -1            \* sustained: None

Threshold(metric, op, num, den, sustained) ==
  [kind |-> "threshold", metric |-> metric, op |-> op, bound |-> <<num, den>>,
   sustained |-> sustained]
Above(metric, n, sustained) == Threshold(metric, ">", n, 1, sustained)
Below(metric, n) == Threshold(metric, "<", n, 1, Always)
RateOfChange(metric, num, den, sustained) ==
  [kind |-> "rate_of_change", metric |-> metric, bound |-> <<num, den>>, sustained |-> sustained]
GrowthTrend(metric, window, num, sustained) ==
  [kind |-> "growth_trend", metric |-> metric, window |-> window, bound |-> <<num, 1>>,
   sustained |-> sustained]
CapacityPercent(metric, source, percent) ==
  [kind |-> "capacity", metric |-> metric, source |-> source, bound |-> <<percent, 1>>]
RateChange(metric, window, percent) ==
  [kind |-> "rate_change", metric |-> metric, window |-> window, bound |-> <<percent, 1>>]
\* Count: every built-in counter rule asks for more than a number.
Count(metric, n) == [kind |-> "count", metric |-> metric, op |-> ">", bound |-> <<n, 1>>]
AllOf(legs) == [kind |-> "all", legs |-> legs]
AnyOf(legs) == [kind |-> "any", legs |-> legs]

Rule(id, category, severity, condition) ==
  [id |-> id, category |-> category, severity |-> severity, condition |-> condition]

Core == <<
  Rule("mem_approaching_oom", "MemoryPressure", "critical",
       CapacityPercent("mem_bytes", "cgroup_memory_max", 90)),
  Rule("mem_leak_suspected", "MemoryLeak", "warning", RateOfChange("mem_bytes", 1, 60, 900)),
  Rule("cpu_saturated", "CpuSaturation", "critical", Above("cpu_percent", 95, 120)),
  Rule("cpu_sustained_high", "CpuSaturation", "warning", Above("cpu_percent", 80, 600)),
  Rule("disk_almost_full", "DiskPressure", "critical",
       CapacityPercent("disk_usage_bytes", "disk_total", 90)),
  Rule("fd_approaching_limit", "FdExhaustion", "warning",
       CapacityPercent("open_fds", "ulimit_nofile", 80)),
  Rule("zombie_accumulation", "ZombieAccumulation", "warning", Count("zombie_count", 5)),
  Rule("thread_explosion", "ThreadExplosion", "warning", Above("thread_count", 1000, Always)),
  Rule("crash_loop", "CrashLoop", "critical",
       AllOf(<<Below("uptime_seconds", 60), Count("restart_count", 3)>>)),
  Rule("connections_growing", "ConnectionSurge", "info",
       RateOfChange("established_connections", 10, 60, 300)) >>

Resources == <<
  Rule("mem_swap_growing", "MemoryPressure", "warning", RateOfChange("swap_bytes", 10, 60, 300)),
  Rule("mem_rss_doubled", "MemoryLeak", "warning", Above("mem_growth_ratio", 2, Always)),
  Rule("cpu_cgroup_throttled", "CpuSaturation", "warning",
       RateOfChange("cpu_throttled_count", 0, 1, 60)),
  Rule("cpu_context_switches", "CpuSpike", "info",
       Above("nonvoluntary_ctxt_switches", 10000, Always)),
  Rule("disk_heavy_write", "DiskIoHeavy", "warning", Above("disk_write_bytes_per_sec", 100, 300)),
  Rule("disk_heavy_read", "DiskIoHeavy", "info", Above("disk_read_bytes_per_sec", 100, 300)),
  Rule("disk_inode_exhaustion", "DiskPressure", "critical",
       CapacityPercent("inode_usage", "disk_total", 90)),
  Rule("net_tcp_retransmits", "ConnectionSurge", "warning",
       Above("tcp_retransmit_rate", 5, Always)),
  Rule("net_established_high", "ConnectionSurge", "warning",
       Above("established_connections", 10000, Always)),
  Rule("proc_state_d_stuck", "CapacityRisk", "warning", Above("d_state_seconds", 30, Always)) >>

System == <<
  Rule("system_load_extreme", "CpuSaturation", "critical",
       Above("load_avg_1m_per_core", 4, Always)),
  Rule("system_memory_pressure", "MemoryPressure", "critical",
       CapacityPercent("host_mem_used", "hundred", 90)),
  Rule("system_oom_kills", "MemoryPressure", "critical", Count("oom_kills", 0)),
  Rule("config_cpu_underprovisioned", "ConfigMismatch", "warning",
       CapacityPercent("cpu_usage", "cgroup_cpu_quota", 90)),
  Rule("config_memory_tight", "ConfigMismatch", "warning",
       Below("cgroup_memory_headroom_bytes", 50)),
  Rule("config_pids_approaching", "ConfigMismatch", "warning",
       CapacityPercent("pids_current", "cgroup_pids_max", 80)),
  Rule("io_wait_high", "DiskIoHeavy", "warning", Above("io_wait_percent", 30, 120)),
  Rule("net_listen_backlog", "ConnectionSurge", "warning", Count("listen_queue_overflows", 0)),
  Rule("proc_uptime_short", "CrashLoop", "info",
       AllOf(<<Below("uptime_seconds", 10), Count("restart_count", 0)>>)),
  Rule("correlated_anomaly", "CorrelatedAnomaly", "info",
       Threshold("correlation_score", ">", 9, 10, Always)) >>

Application == <<
  Rule("app_throughput_drop", "ThroughputDrop", "warning",
       RateChange("http_requests_total", 300, -30)),
  Rule("app_latency_p99_high", "LatencyHigh", "warning",
       Above("http_latency_p99_ms", 500, Always)),
  Rule("app_latency_growing", "LatencyHigh", "warning",
       GrowthTrend("http_latency_p99_ms", 600, 0, 600)),
  Rule("app_connpool_saturated", "ConnectionSurge", "warning",
       Above("connection_pool_usage_percent", 80, Always)),
  Rule("app_error_rate_spike", "ErrorRateHigh", "critical", Above("error_rate_percent", 5, Always)),
  Rule("app_health_check_failed", "HealthCheckFailed", "critical", Below("probe_success", 1)),
  Rule("app_tcp_latency_degraded", "NetworkDegradation", "warning",
       Above("probe_latency_ms", 200, Always)),
  Rule("app_tls_expiry_warning", "CertificateExpiry", "warning", Below("tls_days_remaining", 30)),
  Rule("app_dns_resolution_slow", "NetworkDegradation", "info",
       Above("dns_latency_ms", 100, Always)),
  Rule("app_disk_io_saturated", "DiskIoHeavy", "critical",
       Above("disk_io_time_percent", 90, Always)) >>

BuiltinRules == Core \o Resources \o System \o Application

\* The table speaks of the categories of the correlator, and no rule of it
\* nests All or Any, which the evaluation below rests on.
ASSUME RuleTableAssumption ==
  \A i \in DOMAIN BuiltinRules :
    /\ BuiltinRules[i].category \in DiagCategories
    /\ BuiltinRules[i].condition.kind \in {"all", "any"} =>
         \A leg \in ToSet(BuiltinRules[i].condition.legs) : leg.kind \notin {"all", "any"}
-----------------------------------------------------------------------------
(* The evaluation of a condition.                                          *)

Stopped == -1
Unlimited == 0          \* no limit of this kind; a limit of 0 counts as none

Compare(a, op, b) ==
  CASE op = ">" -> Less(b, a)
    [] op = ">=" -> LessEq(b, a)
    [] op = "<" -> Less(a, b)
    [] op = "<=" -> LessEq(a, b)
    [] op = "=" -> LessEq(a, b) /\ LessEq(b, a)

LastValue(ctx, metric) == LET s == ctx.series[metric] IN <<s[Len(s)].v, 1>>

Limit(ctx, source) == IF source = "hundred" THEN 100 ELSE ctx.limits[source]

\* Mutant: the change is measured backwards.
ChangeBackwards(s, now, window) ==
  LET vs == Values(Since(s, now - window))
      mid == Len(vs) \div 2
      first == Total(SubSeq(vs, 1, mid)) second == Total(SubSeq(vs, mid + 1, Len(vs)))
  IN IF Len(vs) < 2 \/ second = 0 THEN None
     ELSE Frac(100 * (first * (Len(vs) - mid) - second * mid), second * mid)

\* The change from the average of the first half of the samples to that of
\* the second half, in percent.
ChangePercent(s, now, window) ==
  LET vs == Values(Since(s, now - window))
      mid == Len(vs) \div 2
      first == Total(SubSeq(vs, 1, mid)) second == Total(SubSeq(vs, mid + 1, Len(vs)))
  IN IF Len(vs) < 2 \/ first = 0 THEN None
     ELSE Frac(100 * (second * mid - first * (Len(vs) - mid)), first * (Len(vs) - mid))

\* What a condition other than All and Any looks at; None when there is
\* nothing to look at, and then its timer is left as it is.
Observed(c, ctx) ==
  IF c.metric \notin DOMAIN ctx.series THEN None
  ELSE CASE c.kind \in {"threshold", "count"} -> LastValue(ctx, c.metric)
         [] c.kind = "rate_of_change" -> Slope(ctx.series[c.metric], 60)
         [] c.kind = "growth_trend" -> Slope(ctx.series[c.metric], c.window)
         [] c.kind = "capacity" ->
              IF Limit(ctx, c.source) = Unlimited THEN None
              ELSE <<100 * LastValue(ctx, c.metric)[1], Limit(ctx, c.source)>>
         [] c.kind = "rate_change" -> ChangePercent(ctx.series[c.metric], ctx.now, c.window)

Satisfies(c, value) ==
  CASE c.kind \in {"threshold", "count"} -> Compare(value, c.op, c.bound)
    [] c.kind \in {"rate_of_change", "capacity"} -> LessEq(c.bound, value)
    [] c.kind = "growth_trend" -> Less(c.bound, value)
    [] c.kind = "rate_change" ->
         IF c.bound[1] < 0 THEN LessEq(value, c.bound) ELSE LessEq(c.bound, value)

\* The conditions that may be "sustained": a false one stops the timer.
Timed == {"threshold", "rate_of_change", "growth_trend"}

EvalLeaf(c, ctx, st) ==
  LET value == Observed(c, ctx)
      start == IF st.timer = Stopped THEN ctx.now ELSE st.timer
      matched == Append(st.matched, [metric |-> c.metric, value |-> value])
  IN IF value = None THEN [st EXCEPT !.met = FALSE]
     ELSE IF ~Satisfies(c, value)
     THEN [st EXCEPT !.met = FALSE, !.timer = IF c.kind \in Timed THEN Stopped ELSE @]
     ELSE IF c.kind \in Timed /\ c.sustained # Always
     THEN [met |-> ctx.now - start >= c.sustained, timer |-> start, matched |-> matched]
     ELSE [met |-> TRUE, timer |-> st.timer, matched |-> matched]

\* All stops at the first leg that is false, Any at the first that is true.
EvalLegs(legs, ctx, st, stopAt) ==
  LET after[n \in 0 .. Len(legs)] ==
        IF n = 0 THEN [st EXCEPT !.met = ~stopAt]
        ELSE IF after[n - 1].met = stopAt THEN after[n - 1] ELSE EvalLeaf(legs[n], ctx, after[n - 1])
  IN  after[Len(legs)]

EvalCondition(c, ctx, st) ==
  CASE c.kind = "all" -> EvalLegs(c.legs, ctx, st, FALSE)
    [] c.kind = "any" -> EvalLegs(c.legs, ctx, st, TRUE)
    [] OTHER -> EvalLeaf(c, ctx, st)

EvaluateRule(rule, ctx, timer) ==
  EvalCondition(rule.condition, ctx, [met |-> FALSE, timer |-> timer, matched |-> <<>>])
-----------------------------------------------------------------------------
(* The recommendation generator.  Texts are left out; an amount that the   *)
(* text of an action names is kept.                                        *)

Ceiling(f) == IF f[1] % f[2] = 0 THEN f[1] \div f[2] ELSE f[1] \div f[2] + 1

\* finding_value: 0 when the metric did not match.
FindingValue(matched, metric) ==
  LET found == SelectSeq(matched, LAMBDA m : m.metric = metric)
  IN IF found = <<>> THEN <<0, 1>> ELSE Head(found).value

Advice(action, urgency, auto) == [action |-> action, urgency |-> urgency, auto |-> auto]

\* A limit is taken to be what the current value is the rule's share of, and
\* is to be doubled.
Doubling(action, urgency, auto, limit) ==
  [action |-> action, urgency |-> urgency, auto |-> auto, from |-> limit, to |-> 2 * limit]

RuleAction(rule, pid, matched) ==
  LET memory == FindingValue(matched, "mem_bytes")
      fds == FindingValue(matched, "open_fds")
  IN CASE rule = "mem_approaching_oom" ->
            Doubling("scale_up", "immediate", TRUE, Ceiling(<<10 * memory[1], 9 * memory[2]>>))
       [] rule = "fd_approaching_limit" ->
            Doubling("raise_limits", "soon", FALSE, Ceiling(<<10 * (fds[1] \div fds[2]), 8>>))
       [] rule = "zombie_accumulation" ->
            [action |-> "kill", urgency |-> "planning", auto |-> TRUE, pid |-> pid]
       [] rule \in {"cpu_saturated", "crash_loop"} -> Advice("investigate", "immediate", FALSE)
       [] rule = "disk_almost_full" -> Advice("reduce_load", "immediate", FALSE)
       [] rule = "connections_growing" -> Advice("no_action", "informational", FALSE)
       [] OTHER -> Advice("investigate", "soon", FALSE)

\* metric_trend: a slope of 0 is no trend.
Trend(series, metric) ==
  IF metric \notin DOMAIN series \/ Slope(series[metric], 300)[1] = 0 THEN None
  ELSE Slope(series[metric], 300)

\* build_evidence: the value is the one that the condition compared.
Evidence(matched, series) ==
  [i \in DOMAIN matched |->
     [metric |-> matched[i].metric, current |-> matched[i].value,
      trend |-> Trend(series, matched[i].metric)]]

DiagnosticOf(rule, pid, matched, series, now) ==
  [target |-> pid, category |-> rule.category, severity |-> rule.severity, rule |-> rule.id,
   evidence |-> Evidence(matched, series), advice |-> RuleAction(rule.id, pid, matched),
   notes |-> 0, at |-> now]
=============================================================================
