------------------------------ MODULE Analyzers -----------------------------
(***************************************************************************)
(* The time series of aether-core (metrics.rs) and the analyzers over them *)
(* (aether-analyze/src/analyzers: trend, capacity, anomaly, correlation),  *)
(* the correlator of a tick's diagnostics (analyzers/correlator.rs), and   *)
(* the collectors (collectors/procfs.rs, cgroup.rs).                       *)
(*                                                                         *)
(* A series is a sequence of [t, v], integers; a result that the code      *)
(* computes in floating point is an exact fraction <<num, den>>, den > 0.  *)
(* Standard deviations are compared by their squares.                      *)
(***************************************************************************)
EXTENDS Integers, Sequences, FiniteSets, TLC, SequencesExt, FiniteSetsExt

None == <<>>
Frac(num, den) == IF den > 0 THEN <<num, den>> ELSE <<-num, -den>>
LessEq(a, b) == a[1] * b[2] <= b[1] * a[2]
Less(a, b) == a[1] * b[2] < b[1] * a[2]
Magnitude(n) == IF n < 0 THEN -n ELSE n

SaturatingSub(a, b) == IF a > b THEN a - b ELSE 0

\* The numbers up to n that are in S, in order.
Ascending(n, S) ==
  LET found[i \in 0 .. n] ==
        IF i = 0 THEN <<>> ELSE IF i \in S THEN Append(found[i - 1], i) ELSE found[i - 1]
  IN  found[n]

Total(xs) ==
  LET upTo[i \in 0 .. Len(xs)] == IF i = 0 THEN 0 ELSE upTo[i - 1] + xs[i]
  IN  upTo[Len(xs)]

Values(s) == [i \in DOMAIN s |-> s[i].v]
Products(xs, ys) == [i \in DOMAIN xs |-> xs[i] * ys[i]]
-----------------------------------------------------------------------------
\* push_sample: the oldest sample makes room.
PushSample(s, sample, capacity) ==
  Append(IF Len(s) >= capacity /\ s # <<>> THEN Tail(s) ELSE s, sample)

\* The samples from a time on.
Since(s, from) ==
  LET kept == Ascending(Len(s), {i \in DOMAIN s : s[i].t >= from}) IN [k \in DOMAIN kept |-> s[kept[k]]]

\* The samples of the window that ends with the latest one.
Window(s, window) == IF s = <<>> THEN s ELSE Since(s, s[Len(s)].t - window)

\* rate: None with one sample, or none, or when no time has passed.
Rate(s, window) ==
  LET w == Window(s, window)
  IN IF Len(w) < 2 \/ w[Len(w)].t <= w[1].t THEN None
     ELSE <<w[Len(w)].v - w[1].v, w[Len(w)].t - w[1].t>>

Average(s, window) ==
  LET w == Window(s, window) IN IF w = <<>> THEN <<0, 1>> ELSE <<Total(Values(w)), Len(w)>>

MinMax(s, window) ==
  LET vs == ToSet(Values(Window(s, window))) IN IF vs = {} THEN <<0, 0>> ELSE <<Min(vs), Max(vs)>>
-----------------------------------------------------------------------------
\* The number of pairs times the sum of the products of the deviations.
Comoment(xs, ys) == Len(xs) * Total(Products(xs, ys)) - Total(xs) * Total(ys)

\* A sample that is older than the first one counts as of its time.
WindowedPoints(s, window) ==
  LET w == Window(s, window)
  IN [x |-> [i \in DOMAIN w |-> SaturatingSub(w[i].t, w[1].t)], y |-> Values(w)]

\* Mutant: the slope of the regression of x on y.
InverseRegression(p) ==
  LET xy == Comoment(p.x, p.y) yy == Comoment(p.y, p.y)
  IN IF Len(p.x) < 2 \/ yy = 0 THEN <<0, 1>> ELSE <<xy, yy>>

\* linear_regression: the slope, 0 without two times.
LinearRegression(p) ==
  LET xy == Comoment(p.x, p.y) xx == Comoment(p.x, p.x)
  IN IF Len(p.x) < 2 \/ xx = 0 THEN <<0, 1>> ELSE <<xy, xx>>

\* linear_regression: the coefficient of determination.
Determination(p) ==
  LET xy == Comoment(p.x, p.y) xx == Comoment(p.x, p.x) yy == Comoment(p.y, p.y)
  IN IF Len(p.x) < 2 \/ xx = 0 THEN <<0, 1>> ELSE IF yy = 0 THEN <<1, 1>> ELSE <<xy * xy, xx * yy>>

Slope(s, window) == LinearRegression(WindowedPoints(s, window))

\* The time until the line of the last 300 s reaches the threshold.
TimeToThreshold(s, threshold) ==
  IF s = <<>> THEN None
  ELSE LET slope == Slope(s, 300) current == s[Len(s)].v
       IN IF slope[1] <= 0 \/ current >= threshold THEN None
          ELSE <<(threshold - current) * slope[2], slope[1]>>

\* |last - mean| > k standard deviations.
Beyond(vs, k) ==
  LET off == Len(vs) * vs[Len(vs)] - Total(vs) IN off * off > k * k * Comoment(vs, vs)

\* classify: a spike above all, then the direction of a line that fits.
Classify(s, window) ==
  LET p == WindowedPoints(s, window)
      slope == LinearRegression(p)
      fits == Less(<<1, 2>>, Determination(p))
  IN CASE Len(p.y) < 2 -> "stable"
       [] Len(p.y) >= 2 /\ Beyond(p.y, 3) /\ Len(p.y) * p.y[Len(p.y)] > Total(p.y) -> "spike"
       [] Less(<<Magnitude(slope[1]), slope[2]>>,
               <<Magnitude(Total(p.y)), 1000 * Len(p.y)>>) -> "stable"
       [] slope[1] > 0 /\ fits -> "growing"
       [] slope[1] < 0 /\ fits -> "declining"
       [] OTHER -> "stable"
-----------------------------------------------------------------------------
\* round_up_nice of a positive value: a power of two or one and a half of one.
RoundUpNice(value) ==
  LET nice(m) == Min({n \in {m * 2 ^ k : k \in 0 .. 24} : n >= value})
  IN IF value <= 0 THEN 0 ELSE Min({nice(1), nice(3)})

\* CapacityAnalyzer::analyze.
CapacityReport(current, limit, s) ==
  [usage |-> IF limit > 0 THEN <<current * 100, limit>> ELSE <<0, 1>>,
   headroom |-> Max({limit - current, 0}),
   trend |-> Classify(s, 300),
   exhaustion |-> TimeToThreshold(s, limit),
   recommended |-> IF limit > 0 /\ current * 100 > 80 * limit THEN <<RoundUpNice(2 * limit)>>
                   ELSE None]
-----------------------------------------------------------------------------
\* is_outlier_zscore; z_score is 0 when the deviation is.
OutlierZScore(s, k) ==
  LET vs == Values(Window(s, 300)) IN vs # <<>> /\ Comoment(vs, vs) > 0 /\ Beyond(vs, k)

\* interpolated_percentile p/q of a sorted sequence, as a fraction.
Interpolated(sorted, p, q) ==
  LET at == p * (Len(sorted) - 1)
      lo == at \div q + 1
      rest == at % q
      hi == IF rest = 0 THEN lo ELSE lo + 1
  IN <<sorted[lo] * (q - rest) + sorted[hi] * rest, q>>

Percentile(s, p, q) ==
  IF s = <<>> THEN <<0, 1>> ELSE Interpolated(SortSeq(Values(s), <=), p, q)

\* is_outlier_iqr: with fewer than four samples nothing is an outlier.
OutlierIqr(s) ==
  LET q1 == Percentile(s, 1, 4)[1] q3 == Percentile(s, 3, 4)[1] last == s[Len(s)].v
  IN /\ Len(s) >= 4
     /\ \/ 8 * last > 2 * q3 + 3 * (q3 - q1)
        \/ 8 * last < 2 * q1 - 3 * (q3 - q1)

\* change_points with windows of the given size on both sides of an index.
ChangePoints(s, sensitivity, size) ==
  LET vs == Values(s) n == Len(vs)
      step(i) == Total(SubSeq(vs, i + 1, i + size)) - Total(SubSeq(vs, i - size + 1, i))
      spread == Comoment(vs, vs)
  IN IF n < 2 * size \/ spread = 0 THEN {}
     ELSE {i \in size .. n - size - 1 :
             n * n * step(i) * step(i) > sensitivity * sensitivity * size * size * spread}
-----------------------------------------------------------------------------
\* Mutant: the first sample that is near enough.
AlignFirst(a, b, window) ==
  LET near == {i \in DOMAIN b : Magnitude(a.t - b[i].t) <= window}
  IN IF near = {} THEN 0 ELSE Min(near)

\* The index of the sample of b that is nearest in time to a, the later of
\* two at the same distance; 0 when all are further away than the window.
Align(a, b, window) ==
  LET near == {i \in DOMAIN b :
                 /\ Magnitude(a.t - b[i].t) <= window
                 /\ \A j \in DOMAIN b : Magnitude(a.t - b[i].t) <= Magnitude(a.t - b[j].t)}
  IN IF near = {} THEN 0 ELSE Max(near)

AlignSamples(a, b, window) ==
  LET matched == SelectSeq(a, LAMBDA x : Align(x, b, window) # 0)
  IN [x |-> Values(matched),
      y |-> [i \in DOMAIN matched |-> b[Align(matched[i], b, window)].v]]

\* find_correlated of two series: the Pearson coefficient of the aligned
\* samples is above p/q in magnitude; a coefficient without spread is 0.
Correlated(a, b, window, p, q) ==
  LET pairs == AlignSamples(a, b, window)
      ab == Comoment(pairs.x, pairs.y)
      spread == Comoment(pairs.x, pairs.x) * Comoment(pairs.y, pairs.y)
  IN Len(pairs.x) >= 2 /\ spread > 0 /\ ab * ab * q * q > p * p * spread

Interpret(a, b, window) ==
  IF Correlated(a, b, window, 9, 10) THEN "very strongly"
  ELSE IF Correlated(a, b, window, 7, 10) THEN "strongly"
  ELSE IF Correlated(a, b, window, 5, 10) THEN "moderately" ELSE "weakly"
-----------------------------------------------------------------------------
(* The correlator groups pairs of a known cause and its effect, several    *)
(* issues of one target, and what is close in time.  A diagnostic has a    *)
(* target, a category and the time at (detected_at); a group is [kind,     *)
(* members], members a sequence of the indexes, the one it was started for *)
(* first.                                                                  *)

DiagCategories == {
  "MemoryLeak", "MemoryPressure", "CpuSaturation", "CpuSpike", "DiskPressure", "DiskIoHeavy",
  "FdExhaustion", "ConnectionSurge", "ZombieAccumulation", "ThreadExplosion", "CrashLoop",
  "ConfigMismatch", "CapacityRisk", "CorrelatedAnomaly", "ScriptRule", "ThroughputDrop",
  "LatencyHigh", "ErrorRateHigh", "HealthCheckFailed", "CertificateExpiry",
  "NetworkDegradation"}

\* Pairs of categories of which the first is known to cause the second.
CausalPatterns == {
  <<"ConnectionSurge", "ThroughputDrop">>, <<"HealthCheckFailed", "ErrorRateHigh">>,
  <<"MemoryLeak", "LatencyHigh">>, <<"MemoryPressure", "CpuSaturation">>,
  <<"DiskIoHeavy", "LatencyHigh">>, <<"ThreadExplosion", "CpuSaturation">>,
  <<"FdExhaustion", "ConnectionSurge">>, <<"NetworkDegradation", "ErrorRateHigh">>,
  <<"DiskPressure", "CrashLoop">>}

ASSUME CausalAssumption ==
  /\ CausalPatterns \subseteq DiagCategories \X DiagCategories
  /\ \A pair \in CausalPatterns : <<pair[2], pair[1]>> \notin CausalPatterns

TimeWindow == 60

WithinTimeWindow(a, b) == a.at - b.at \in -TimeWindow .. TimeWindow

Causal(a, b) ==
  /\ WithinTimeWindow(a, b)
  /\ <<a.category, b.category>> \in CausalPatterns \/ <<b.category, a.category>> \in CausalPatterns

Compound(a, b) == a.target = b.target /\ a.category # b.category /\ WithinTimeWindow(a, b)

Related(kind, a, b) ==
  CASE kind = "causal" -> Causal(a, b)
    [] kind = "compound" -> Compound(a, b)
    [] kind = "temporal" -> WithinTimeWindow(a, b)

\* The indexes after i that are not used and are related to i, in order.
Partners(ds, i, used, kind) ==
  Ascending(Len(ds), {j \in i + 1 .. Len(ds) : j \notin used /\ Related(kind, ds[i], ds[j])})

\* Each free diagnostic makes a pair with every free one after it that its
\* category causes or is caused by.
CausalRound(ds, acc, i) ==
  LET js == IF i \in acc.used THEN <<>> ELSE Partners(ds, i, acc.used, "causal")
  IN IF js = <<>> THEN acc
     ELSE [used |-> acc.used \cup {i} \cup ToSet(js),
           groups |-> acc.groups \o
             [k \in DOMAIN js |-> [kind |-> "causal", members |-> <<i, js[k]>>]]]

CausalStep(ds) ==
  LET after[i \in 0 .. Len(ds)] ==
        IF i = 0 THEN [used |-> {}, groups |-> <<>>] ELSE CausalRound(ds, after[i - 1], i)
  IN  after[Len(ds)]

\* Mutant: a diagnostic that was looked at is used, in a group or not.
GatherGreedy(ds, acc, i, kind) ==
  LET js == IF i \in acc.used THEN <<>> ELSE Partners(ds, i, acc.used, kind)
  IN IF js = <<>> THEN [acc EXCEPT !.used = @ \cup {i}]
     ELSE [used |-> acc.used \cup {i} \cup ToSet(js),
           groups |-> Append(acc.groups, [kind |-> kind, members |-> <<i>> \o js])]

\* Each free diagnostic takes all free ones after it that are related to it
\* into one group; alone it stays free.
GatherRound(ds, acc, i, kind) ==
  LET js == IF i \in acc.used THEN <<>> ELSE Partners(ds, i, acc.used, kind)
  IN IF js = <<>> THEN acc
     ELSE [used |-> acc.used \cup {i} \cup ToSet(js),
           groups |-> Append(acc.groups, [kind |-> kind, members |-> <<i>> \o js])]

Gather(ds, start, kind) ==
  LET after[i \in 0 .. Len(ds)] ==
        IF i = 0 THEN start ELSE GatherRound(ds, after[i - 1], i, kind)
  IN  after[Len(ds)]

\* All confidences (0.9, 0.7 and 0.4) are above the least one of 0.3.
Correlate(ds) ==
  Gather(ds, Gather(ds, CausalStep(ds), "compound"), "temporal").groups

\* correlation_note is appended to the reason of a diagnostic per group.
Notes(groups, i) == Cardinality({g \in DOMAIN groups : i \in ToSet(groups[g].members)})
-----------------------------------------------------------------------------
(* The collectors: what they make of the files of /proc and of the cgroup  *)
(* file system.  A directory is a function from the files that can be read *)
(* in it to their contents, a file a function from labels to values.  A    *)
(* directory of the cgroup file system has a controller and a path.        *)

Missing == [missing |-> TRUE]
Field(file, label) == IF label \in DOMAIN file THEN file[label] ELSE 0
Contents(dir, name) == IF name \in DOMAIN dir THEN dir[name] ELSE <<>>

\* process_profile fails without the status file only; what cannot be read
\* of the rest is 0, and io is missing without the permission to read it.
ProcessProfile(dir) ==
  IF "status" \notin DOMAIN dir THEN Missing
  ELSE [state |-> IF "State" \in DOMAIN dir["status"] THEN dir["status"]["State"] ELSE "?",
        threads |-> Field(dir["status"], "Threads"),
        rss |-> Field(Contents(dir, "smaps_rollup"), "Rss"),
        swap |-> Field(Contents(dir, "smaps_rollup"), "Swap"),
        fds |-> IF "fd" \in DOMAIN dir THEN dir["fd"]["entries"] ELSE 0,
        softLimit |-> Field(Contents(dir, "limits"), "Max open files"),
        io |-> IF "io" \notin DOMAIN dir THEN Missing
               ELSE [read |-> Field(dir["io"], "read_bytes"),
                     write |-> Field(dir["io"], "write_bytes")],
        stack |-> SelectSeq(Contents(dir, "stack"), LAMBDA f : f # "0")]

\* host_profile fails without loadavg or meminfo; disks are those that are
\* mounted from a device that is no loop device and answer statvfs.
HostProfile(dir) ==
  IF \/ {"loadavg", "meminfo"} \ DOMAIN dir # {}
     \/ Len(dir["loadavg"]) < 3
  THEN Missing
  ELSE LET mem == dir["meminfo"]
       IN [loadavg |-> SubSeq(dir["loadavg"], 1, 3),
           total |-> Field(mem, "MemTotal"), available |-> Field(mem, "MemAvailable"),
           used |-> SaturatingSub(Field(mem, "MemTotal"), Field(mem, "MemAvailable")),
           swapTotal |-> Field(mem, "SwapTotal"),
           swapUsed |-> SaturatingSub(Field(mem, "SwapTotal"), Field(mem, "SwapFree")),
           disks |-> SelectSeq(Contents(dir, "mounts"),
                               LAMBDA m : (m.device \/ m.real) /\ ~m.loop /\ m.statvfs)]
-----------------------------------------------------------------------------
Unbounded == -1         \* the text "max", and what version 1 has for it

\* 0 stands for no limit, as it does for the rule engine, which takes no
\* limit of 0.
MaxValue(dir, name) == IF name \notin DOMAIN dir \/ dir[name] = Unbounded THEN 0 ELSE dir[name]

\* detect_version: one line "0::path" is version 2.
Version(cgroup) == IF Len(cgroup) = 1 /\ cgroup[1].controllers = {} THEN "v2" ELSE "v1"

\* cgroup_path: the path of the only line, or of the first one with the
\* memory controller; the root when there is none.
CgroupPath(cgroup) ==
  IF Version(cgroup) = "v2" THEN cgroup[1].path
  ELSE LET memory == SelectSeq(cgroup, LAMBDA l : "memory" \in l.controllers)
       IN IF memory = <<>> THEN "/" ELSE memory[1].path

\* limits: fails without /proc/pid/cgroup, nothing without the directory.
\* Version 2 has one directory under a path, version 1 one for each
\* controller.
CgroupLimits(fs, cgroup) ==
  LET at(controller) == <<IF Version(cgroup) = "v2" THEN "unified" ELSE controller, CgroupPath(cgroup)>>
      dir(controller) == IF at(controller) \in DOMAIN fs THEN fs[at(controller)] ELSE <<>>
  IN IF cgroup = <<>> \/ at("memory") \notin DOMAIN fs THEN Missing
     ELSE [memoryMax |-> MaxValue(dir("memory"), "memory.max"),
           cpuQuota |-> MaxValue(dir("cpu"), "cpu.max"),
           pidsMax |-> MaxValue(dir("pids"), "pids.max")]

\* to_process_limits: the limit of the disks is never known.
ProcessLimits(limits, softLimit) ==
  [cgroup_memory_max |-> limits.memoryMax, cgroup_cpu_quota |-> limits.cpuQuota,
   cgroup_pids_max |-> limits.pidsMax, ulimit_nofile |-> softLimit, disk_total |-> 0]

NoLimits ==
  [cgroup_memory_max |-> 0, cgroup_cpu_quota |-> 0, cgroup_pids_max |-> 0,
   ulimit_nofile |-> 0, disk_total |-> 0]
=============================================================================
