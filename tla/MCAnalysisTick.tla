--------------------------- MODULE MCAnalysisTick ---------------------------
(***************************************************************************)
(* An engine with a tick every 130 s (--analyze-interval), two processes   *)
(* and a handful of remote batches; and, as behaviours of their own, three *)
(* rules with and without "sustained" over the samples of one process, at  *)
(* any intervals (RuleEngineHistory).  The two share no state.             *)
(***************************************************************************)
EXTENDS AnalysisTick, RuleEngineHistory

MCWorlds == {
  1 :> [cpu |-> 97, mem |-> 600] @@ 2 :> [cpu |-> 10, mem |-> 950],
  2 :> [cpu |-> 97, mem |-> 980] }

MCBatches == {
  <<[pid |-> 1, metric |-> "http_requests_total", value |-> 100],
    [pid |-> 1, metric |-> "listen_queue_overflows", value |-> 1],
    [pid |-> 2, metric |-> "uptime_seconds", value |-> 30]>>,
  <<[pid |-> 1, metric |-> "http_requests_total", value |-> 300],
    [pid |-> 2, metric |-> "restart_count", value |-> 4]>>,
  <<[pid |-> 1, metric |-> "error_rate_percent", value |-> 9],
    [pid |-> 2, metric |-> "probe_success", value |-> 0],
    [pid |-> NoPid, metric |-> "error_rate_percent", value |-> 9]>> }

LoadedHost == [loadavg |-> <<3, 2, 1>>,
               meminfo |-> [MemTotal |-> 4000, MemAvailable |-> 1000, SwapTotal |-> 100, SwapFree |-> 60]]

ProcFiles(threads) ==
  [status |-> [State |-> "S", Threads |-> threads],
   limits |-> "Max open files" :> 50,
   fd |-> [entries |-> 45],
   io |-> [read_bytes |-> 7, write_bytes |-> 0]]

CgroupDirs == <<"unified", "/app">> :> ("memory.max" :> 1000 @@ "cpu.max" :> Unbounded)
                @@ <<"memory", "/old">> :> ("memory.max" :> 970)

InV2 == <<[controllers |-> {}, path |-> "/app"]>>
InV1 == <<[controllers |-> {"cpu"}, path |-> "/old/cpu"], [controllers |-> {"memory"}, path |-> "/old"]>>

\* Both processes are there, or the first has gone and the host's files
\* cannot be read.
MCMachines == {
  [host |-> LoadedHost, fs |-> CgroupDirs,
   proc |-> 1 :> [dir |-> ProcFiles(3), cgroup |-> InV2] @@ 2 :> [dir |-> ProcFiles(4), cgroup |-> InV1]],
  [host |-> <<>>, fs |-> CgroupDirs,
   proc |-> 1 :> [dir |-> <<>>, cgroup |-> <<>>]
              @@ 2 :> [dir |-> "status" :> <<>>, cgroup |-> InV1]] }
-----------------------------------------------------------------------------
\* The two CPU rules and one instant rule; a unit of time is scaled so that
\* cpu_saturated waits for one and cpu_sustained_high for two units.
SustainedRules ==
  <<[min |-> 2, sustained |-> 1, severity |-> 2, category |-> "CpuSaturation"],
    [min |-> 1, sustained |-> 2, severity |-> 1, category |-> "CpuSaturation"],
    [min |-> 2, sustained |-> 0, severity |-> 1, category |-> "CpuSpike"]>>

MCPids == {1}
MCBands == 0 .. 2

\* Evaluations may come in a burst (0), on time (1) or late (2).
MCElapsed == 0 .. 2

VARIABLE part

MCInit == part \in {"ticks", "sustained"} /\ EngineInit /\ HistInit

MCNext == \/ part = "ticks" /\ EngineNext /\ UNCHANGED <<part, histVars>>
          \/ part = "sustained" /\ HistNext /\ UNCHANGED <<part, analysisVars>>

MCSpec == MCInit /\ [][MCNext]_<<part, analysisVars, histVars>>
-----------------------------------------------------------------------------
\* The analyzers over all short series with a sample every 30 s.
Levels == {0, 3, 7}
Regular(values) == [i \in DOMAIN values |-> [t |-> 30 * i, v |-> values[i]]]
Short == {Regular(f) : f \in UNION {[1 .. n -> Levels] : n \in 1 .. 5}}
Latest(s) == s[Len(s)].v

\* A forecast is made for a threshold that lies ahead of a rising line, and
\* tells when the line, not the last sample, gets there.
ASSUME \A s \in Short : \A threshold \in 1 .. 8 :
  LET time == TimeToThreshold(s, threshold) slope == Slope(s, 300)
  IN /\ (time = None) <=> (slope[1] <= 0 \/ Latest(s) >= threshold)
     /\ time # None => time[1] * slope[1] = (threshold - Latest(s)) * time[2] * slope[2]

\* What the trend is called follows the slope; no line fits better than one
\* through all samples.
ASSUME \A s \in Short :
  /\ Classify(s, 300) = "growing" => Slope(s, 300)[1] > 0
  /\ Classify(s, 300) = "declining" => Slope(s, 300)[1] < 0
  /\ LessEq(Determination(WindowedPoints(s, 300)), <<1, 1>>)

\* The measures of a window lie between its least and its greatest sample,
\* a percentile between the least and the greatest of all.
ASSUME \A s \in Short : \A window \in {0, 60, 300} :
  LET bounds == MinMax(s, window) mean == Average(s, window) rate == Rate(s, window)
  IN /\ LessEq(<<bounds[1], 1>>, mean) /\ LessEq(mean, <<bounds[2], 1>>)
     /\ rate = None <=> (window = 0 \/ Len(s) = 1)
     /\ rate # None => Magnitude(rate[1]) <= bounds[2] - bounds[1]
     /\ \A p \in 0 .. 4 : LET q == Percentile(s, p, 4)
                         IN /\ MinMax(s, 300)[1] * q[2] <= q[1]
                            /\ q[1] <= MinMax(s, 300)[2] * q[2]

\* A recommended limit is above twice the old one by less than half; it is
\* asked for above 80 % only.
ASSUME \A limit \in 1 .. 40 : \A current \in 0 .. 40 :
  LET report == CapacityReport(current, limit, Regular(<<current>>))
  IN /\ (report.recommended = None) <=> current * 5 <= limit * 4
     /\ report.recommended # None =>
          2 * limit <= report.recommended[1] /\ report.recommended[1] < 3 * limit

\* An outlier by its z-score of 1 takes three samples, by the quartiles
\* four; a flat series has neither outliers nor steps.
ASSUME \A s \in Short :
  /\ OutlierZScore(s, 1) => Len(s) > 2
  /\ OutlierIqr(s) => Len(s) >= 4
  /\ MinMax(s, 300)[1] = MinMax(s, 300)[2] =>
       ~OutlierZScore(s, 1) /\ ~OutlierIqr(s) /\ ChangePoints(s, 1, 2) = {}
  /\ ChangePoints(s, 1, 2) \subseteq 2 .. Len(s) - 3

\* Two series correlate with each other whichever is named first, and fully
\* with themselves; the samples of one are all used when their times agree.
ASSUME \A a \in {s \in Short : Len(s) = 4} :
  /\ Interpret(a, a, 10) = IF MinMax(a, 300)[1] = MinMax(a, 300)[2] THEN "weakly" ELSE "very strongly"
  /\ \A b \in {s \in Short : Len(s) = 3} :
       /\ Len(AlignSamples(a, b, 10).x) = 3
       /\ Correlated(a, b, 10, 1, 2) = Correlated(b, a, 10, 1, 2)
=============================================================================
