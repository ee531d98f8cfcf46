------------------------------ MODULE Prediction ------------------------------
(***************************************************************************)
(* The prediction engine of aether-predict on the world that ProcessWorld  *)
(* describes, and the tasks of main.rs that carry what it predicts to the  *)
(* screen.  A tick takes the features of all processes under the graph's   *)
(* lock, brings the windows up to date and runs the model on the windows   *)
(* of the processes with the most varied features; each prediction goes    *)
(* through a bounded channel to a collector.                               *)
(*                                                                         *)
(* Features are whole numbers: a value between the batch's least and       *)
(* largest is scaled to 0 .. Scale.  Of the nine, the six that are always  *)
(* 0 are left out of the vector and counted in its variance.  The model is *)
(* a file that is not in the repository: it scores a window in any way, or *)
(* fails.  Scores are percentages.                                         *)
(***************************************************************************)
EXTENDS ProcessWorld, Integers, Sequences, FiniteSets, FiniteSetsExt

CONSTANTS
  Scale,                \* what 1.0 is of a feature
  Scores,               \* what the model may say
  WindowSize,           \* SlidingWindow.capacity
  TopN,                 \* config.top_n: processes that are scored in a tick
  ChannelSize,          \* the prediction channel
  Cap,                  \* predictions that are kept (50)
  MaxTicks              \* bound: ticks of the engine

ASSUME PredictionAssumption ==
  /\ Data \subseteq [cpu : Nat, mem : Nat]
  /\ {Scale, WindowSize, TopN, ChannelSize, Cap} \subseteq Nat \ {0}
  /\ Scores \subseteq Int /\ MaxTicks \in Nat

VARIABLES
  prevMem,              \* FeatureExtractor.prev_mem: pid -> memory at the last tick
  windows,              \* SlidingWindow.windows: pid -> its features, oldest first
  todo,                 \* the processes that this tick has still to score
  channel,              \* predictions on their way to the collector
  predictions,          \* the shared vector: the latest predictions
  shown,                \* the copy that the terminal UI polls
  ticks,
  trail,                \* history: pid -> its features in every tick since it came
  emitted               \* history: all predictions

engine == <<prevMem, windows, todo, ticks, trail>>
predictVars == <<worldVars, engine, channel, predictions, shown, emitted>>

PredictInit ==
  /\ WorldInit
  /\ prevMem = [p \in {} |-> 0] /\ windows = [p \in {} |-> <<>>]
  /\ todo = <<>> /\ ticks = 0
  /\ channel = <<>> /\ predictions = <<>> /\ shown = <<>>
  /\ trail = [p \in {} |-> <<>>] /\ emitted = <<>>

SnapshotTaken ==
  /\ \E ps \in UNION {[qs -> Data] : qs \in SUBSET Pids} : Replace(ps, {})
  /\ UNCHANGED <<engine, channel, predictions, shown, emitted>>
-----------------------------------------------------------------------------
(* The features.                                                           *)

Raw == [p \in DOMAIN procs |->
          <<procs[p].cpu, procs[p].mem,
            IF p \in DOMAIN prevMem THEN procs[p].mem - prevMem[p] ELSE 0>>]

\* RunningStats::normalize over the batch; a dimension in which all are equal
\* is 0.
Features ==
  LET Values(i) == {Raw[p][i] : p \in DOMAIN Raw}
      Normal(x, lo, hi) == IF hi = lo THEN 0 ELSE ((x - lo) * Scale) \div (hi - lo)
  IN  [p \in DOMAIN Raw |->
         [i \in 1 .. 3 |-> Normal(Raw[p][i], Min(Values(i)), Max(Values(i)))]]

\* The variance of the nine features, times 81.
Variance(fv) ==
  LET Sum(f) == f[1] + f[2] + f[3]
  IN  9 * Sum([i \in 1 .. 3 |-> fv[i] * fv[i]]) - Sum(fv) * Sum(fv)

\* select_top_n: the most varied first, equals in any order.
TopOrders(features) ==
  LET n == Min({TopN, Cardinality(DOMAIN features)})
  IN  {s \in [1 .. n -> DOMAIN features] :
         /\ IsInjective(s)
         /\ \A i \in 1 .. n : \A p \in DOMAIN features \ {s[j] : j \in 1 .. i} :
              Variance(features[p]) <= Variance(features[s[i]])}

\* Mutants: a full window keeps its oldest sample; a window outlives its
\* process.
PushKeepsOldest(w, fv) == IF Len(w) = WindowSize THEN w ELSE Append(w, fv)
KeepAll(ws, alive) == ws

\* SlidingWindow::push and cleanup.
Push(w, fv) == Append(IF Len(w) = WindowSize THEN Tail(w) ELSE w, fv)
Cleanup(ws, alive) == [p \in DOMAIN ws \cap alive |-> ws[p]]

OrEmpty(f, p) == IF p \in DOMAIN f THEN f[p] ELSE <<>>

\* A world without processes ends the tick before the windows are looked at.
EmptyTick ==
  /\ todo = <<>> /\ ticks < MaxTicks
  /\ DOMAIN procs = {}
  /\ prevMem' = [p \in {} |-> 0]
  /\ ticks' = ticks + 1
  /\ UNCHANGED <<worldVars, windows, todo, trail, channel, predictions, shown, emitted>>

Tick ==
  /\ todo = <<>> /\ ticks < MaxTicks
  /\ DOMAIN procs # {}
  /\ prevMem' = [p \in DOMAIN procs |-> procs[p].mem]
  /\ windows' = Cleanup([p \in DOMAIN windows \cup DOMAIN procs |->
                           IF p \in DOMAIN procs THEN Push(OrEmpty(windows, p), Features[p])
                           ELSE windows[p]],
                        DOMAIN procs)
  /\ todo' \in TopOrders(Features)
  /\ ticks' = ticks + 1
  /\ trail' = [p \in DOMAIN procs |-> Append(OrEmpty(trail, p), Features[p])]
  /\ UNCHANGED <<worldVars, channel, predictions, shown, emitted>>
-----------------------------------------------------------------------------
(* From the model to the screen.                                           *)

Thresholds == <<[type |-> "OomRisk", least |-> 75], [type |-> "CpuSpike", least |-> 70],
                [type |-> "MemoryLeak", least |-> 80], [type |-> "Deadlock", least |-> 85],
                [type |-> "DiskExhaustion", least |-> 78]>>

Clamped(score) == Max({0, Min({100, score})})

\* ConfidenceScorer::classify with the one score given for every type: the
\* first whose threshold is met, for none is then more confident.
Classify(score) ==
  LET met == {i \in DOMAIN Thresholds : Clamped(score) >= Thresholds[i].least}
  IN  IF met = {} THEN {} ELSE {Thresholds[Min(met)].type}

Skip ==
  /\ todo # <<>>
  /\ \/ Len(OrEmpty(windows, Head(todo))) # WindowSize    \* to_tensor: None
     \/ \E s \in Scores : Classify(s) = {}            \* or detect fails
  /\ todo' = Tail(todo)
  /\ UNCHANGED <<worldVars, prevMem, windows, ticks, trail, channel, predictions, shown, emitted>>

\* The send waits for room in the channel.
Predict ==
  /\ todo # <<>>
  /\ Len(OrEmpty(windows, Head(todo))) = WindowSize
  /\ Len(channel) < ChannelSize
  /\ \E s \in Scores : \E type \in Classify(s) :
       LET anomaly == [num |-> Len(emitted) + 1, pid |-> Head(todo), type |-> type]
       IN  /\ channel' = Append(channel, anomaly)
           /\ emitted' = Append(emitted, anomaly)
  /\ todo' = Tail(todo)
  /\ UNCHANGED <<worldVars, prevMem, windows, ticks, trail, predictions, shown>>

LastOf(s, n) == SubSeq(s, Max({1, Len(s) - n + 1}), Len(s))

\* preds.drain(..excess)
KeepLatest(s, n) == LastOf(s, n)

Collect ==
  /\ channel # <<>>
  /\ channel' = Tail(channel)
  /\ predictions' = KeepLatest(Append(predictions, Head(channel)), Cap)
  /\ UNCHANGED <<worldVars, engine, shown, emitted>>

\* Every two seconds the whole vector is copied for the terminal UI.
Show ==
  /\ shown' = predictions
  /\ UNCHANGED <<worldVars, engine, channel, predictions, emitted>>

PredictNext == SnapshotTaken \/ EmptyTick \/ Tick \/ Skip \/ Predict \/ Collect \/ Show

PredictSpec == PredictInit /\ [][PredictNext]_predictVars
-----------------------------------------------------------------------------
\* What the model sees of a process is its last samples, one for each of the
\* ticks that had any process, all of them since the pid came and none of a
\* process that had the pid before it was seen to be gone.
WindowIsRecentHistory ==
  /\ DOMAIN windows = DOMAIN trail
  /\ \A p \in DOMAIN windows : windows[p] = LastOf(trail[p], WindowSize)

\* What the screen shows is what the engine predicted last, in its order and
\* without a gap, but for what is still on the way.
ShowsTheNewest ==
  /\ predictions = LastOf(SubSeq(emitted, 1, Len(emitted) - Len(channel)), Cap)
  /\ \E n \in 0 .. Len(emitted) - Len(channel) : shown = LastOf(SubSeq(emitted, 1, n), Cap)

\* The model sees a process's last samples and none of a process that had its pid
\* before, and the screen shows the last predictions in order and without a gap.
PredictionsAreRecent == WindowIsRecentHistory /\ ShowsTheNewest
=============================================================================
