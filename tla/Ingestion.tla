------------------------------ MODULE Ingestion ------------------------------
(***************************************************************************)
(* How what happens on the machine reaches the world graph and the script  *)
(* rules: the ingestion pipeline and the eBPF bridge (aether-ingestion),   *)
(* the graph updater and the rule forwarder of aether-terminal/src/main.rs *)
(* and the loop of the script engine (aether-script/src/engine.rs), each a *)
(* task of its own with a bounded channel to the next, and the token that  *)
(* stops them.                                                             *)
(*                                                                         *)
(* A snapshot is its number, counted from 1; Other stands for every event  *)
(* that the graph updater ignores.  What a task holds in its hand while it *)
(* awaits room in a channel or a lock is a sequence of at most one event.  *)
(* A task that leaves its loop drops its receiver, and with it everything  *)
(* that is in the channel.                                                 *)
(***************************************************************************)
EXTENDS Naturals, Sequences, SequencesExt

CONSTANTS
  EventCapacity,        \* of the event channel: 256
  EngineCapacity,       \* of the script engine's event channel: 256
  ActionCapacity,       \* of the rule action channel: 128
  MaxSnapshots,         \* bound: snapshots taken
  MaxActions            \* bound: rule actions triggered by one snapshot

ASSUME IngestionAssumption ==
  /\ EventCapacity \in Nat \ {0} /\ EngineCapacity \in Nat \ {0}
  /\ ActionCapacity \in Nat \ {0}
  /\ MaxSnapshots \in Nat /\ MaxActions \in Nat

Tasks == {"pipeline", "bridge", "updater", "engine", "forwarder"}
Other == 0              \* TopologyChange, ProcessCreated or ProcessExited

VARIABLES
  cancelled,            \* the root cancellation token
  running,              \* the tasks that have not left their loops
  bridgeActive,         \* bridge_active: the pipeline still watches the bridge
  taken,                \* how many snapshots the probe has delivered
  sending,              \* what the pipeline is sending
  bridging,             \* what the eBPF bridge is sending
  events,               \* the event channel
  applying,             \* the snapshot the updater has forwarded and not applied
  world,                \* the snapshot that the world graph shows
  engineQueue,          \* the snapshots on their way to the script engine
  evaluated,            \* the last snapshot the script engine evaluated
  todo,                 \* the rule actions of it that are still to be sent
  actions,              \* the rule actions in their channel
  triggered, submitted  \* history: actions collected by the engine, submitted

feed == <<bridgeActive, taken, sending, bridging>>
script == <<evaluated, todo, actions, triggered, submitted>>
vars == <<cancelled, running, feed, events, applying, world, engineQueue, script>>

Runs(task) == task \in running
Leave(task) == running' = running \ {task}

\* Without --ebpf, or when eBPF cannot be set up, there is no bridge.
Init ==
  /\ cancelled = FALSE
  /\ running \in {Tasks, Tasks \ {"bridge"}}
  /\ bridgeActive = Runs("bridge")
  /\ taken = 0 /\ sending = <<>> /\ bridging = <<>>
  /\ events = <<>> /\ applying = <<>> /\ world = 0
  /\ engineQueue = <<>> /\ evaluated = 0 /\ todo = 0
  /\ actions = 0 /\ triggered = 0 /\ submitted = 0
-----------------------------------------------------------------------------
(* The ingestion pipeline.                                                 *)

\* A failed probe is logged and skipped, so this need not happen on a tick.
FastTick ==
  /\ Runs("pipeline") /\ sending = <<>>
  /\ taken < MaxSnapshots
  /\ taken' = taken + 1 /\ sending' = <<taken + 1>>
  /\ UNCHANGED <<cancelled, running, bridgeActive, bridging, events, applying,
                 world, engineQueue, script>>

SlowTick ==
  /\ Runs("pipeline") /\ sending = <<>>
  /\ sending' = <<Other>>
  /\ UNCHANGED <<cancelled, running, bridgeActive, taken, bridging, events,
                 applying, world, engineQueue, script>>

\* Mutants: a snapshot that finds the channel full is dropped, as the updater
\* does; the event is sent, and sent again.
PipelineTrySends ==
  /\ Runs("pipeline") /\ sending # <<>>
  /\ events' = IF Runs("updater") /\ Len(events) < EventCapacity
               THEN events \o sending ELSE events
  /\ sending' = <<>>
  /\ UNCHANGED <<cancelled, running, bridgeActive, taken, bridging, applying, world,
                 engineQueue, script>>

\* send().await returns when there is room or when the receiver is gone; in
\* that case run returns ChannelClosed.
PipelineSends ==
  /\ Runs("pipeline") /\ sending # <<>>
  /\ IF Runs("updater")
     THEN /\ Len(events) < EventCapacity
          /\ events' = events \o sending
          /\ UNCHANGED running
     ELSE /\ Leave("pipeline") /\ UNCHANGED events
  /\ sending' = <<>>
  /\ UNCHANGED <<cancelled, bridgeActive, taken, bridging, applying, world,
                 engineQueue, script>>

\* The bridge has ended: go on with sysinfo alone.
PipelineSeesBridgeEnd ==
  /\ Runs("pipeline") /\ sending = <<>>
  /\ bridgeActive /\ ~Runs("bridge")
  /\ bridgeActive' = FALSE
  /\ UNCHANGED <<cancelled, running, taken, sending, bridging, events, applying,
                 world, engineQueue, script>>

PipelineStops ==
  /\ Runs("pipeline") /\ sending = <<>> /\ cancelled
  /\ Leave("pipeline")
  /\ UNCHANGED <<cancelled, feed, events, applying, world, engineQueue, script>>
-----------------------------------------------------------------------------
(* The eBPF bridge: it translates raw kernel events, into events that the  *)
(* updater ignores, and ends when their channel closes.                    *)

KernelEvent ==
  /\ Runs("bridge") /\ bridging = <<>>
  /\ bridging' = <<Other>>
  /\ UNCHANGED <<cancelled, running, bridgeActive, taken, sending, events,
                 applying, world, engineQueue, script>>

BridgeSends ==
  /\ Runs("bridge") /\ bridging # <<>>
  /\ IF Runs("updater")
     THEN /\ Len(events) < EventCapacity
          /\ events' = events \o bridging
          /\ UNCHANGED running
     ELSE /\ Leave("bridge") /\ UNCHANGED events
  /\ bridging' = <<>>
  /\ UNCHANGED <<cancelled, bridgeActive, taken, sending, applying, world,
                 engineQueue, script>>

\* Cancelled, or the raw channel was closed by a failed ring buffer reader.
BridgeStops ==
  /\ Runs("bridge") /\ bridging = <<>>
  /\ Leave("bridge")
  /\ UNCHANGED <<cancelled, feed, events, applying, world, engineQueue, script>>
-----------------------------------------------------------------------------
(* The graph updater.                                                      *)

UpdaterIgnores ==
  /\ Runs("updater") /\ applying = <<>>
  /\ events # <<>> /\ Head(events) = Other
  /\ events' = Tail(events)
  /\ UNCHANGED <<cancelled, running, feed, applying, world, engineQueue, script>>

\* try_send: when the script engine's channel is full or closed, the snapshot
\* is not forwarded to it.
UpdaterForwards ==
  /\ Runs("updater") /\ applying = <<>>
  /\ events # <<>> /\ Head(events) # Other
  /\ events' = Tail(events)
  /\ applying' = <<Head(events)>>
  /\ engineQueue' = IF Runs("engine") /\ Len(engineQueue) < EngineCapacity
                    THEN Append(engineQueue, Head(events)) ELSE engineQueue
  /\ UNCHANGED <<cancelled, running, feed, world, script>>

\* apply_snapshot, once the world's lock is free.
UpdaterApplies ==
  /\ applying # <<>>
  /\ world' = Head(applying) /\ applying' = <<>>
  /\ UNCHANGED <<cancelled, running, feed, events, engineQueue, script>>

UpdaterStops ==
  /\ Runs("updater") /\ applying = <<>> /\ cancelled
  /\ Leave("updater") /\ events' = <<>>
  /\ UNCHANGED <<cancelled, feed, applying, world, engineQueue, script>>
-----------------------------------------------------------------------------
(* The script engine and the forwarder of its actions.                     *)

EngineEvaluates ==
  /\ Runs("engine") /\ todo = 0
  /\ engineQueue # <<>>
  /\ evaluated' = Head(engineQueue) /\ engineQueue' = Tail(engineQueue)
  /\ todo' \in 0 .. MaxActions
  /\ triggered' = triggered + todo'
  /\ UNCHANGED <<cancelled, running, feed, events, applying, world, actions, submitted>>

\* Mutants: the engine drops what finds the channel full; it waits for room in
\* the channel of a forwarder that has gone.
EngineTrySends ==
  /\ Runs("engine") /\ todo > 0
  /\ actions' = IF actions < ActionCapacity THEN actions + 1 ELSE actions
  /\ todo' = todo - 1
  /\ UNCHANGED <<cancelled, running, feed, events, applying, world, engineQueue,
                 evaluated, triggered, submitted>>

EngineWaits ==
  /\ Runs("engine") /\ todo > 0
  /\ Runs("forwarder") /\ actions < ActionCapacity
  /\ actions' = actions + 1 /\ todo' = todo - 1
  /\ UNCHANGED <<cancelled, running, feed, events, applying, world, engineQueue,
                 evaluated, triggered, submitted>>

\* One action is sent, or the channel turns out to be closed and the rest of
\* the snapshot's actions is given up.
EngineSends ==
  /\ Runs("engine") /\ todo > 0
  /\ IF Runs("forwarder")
     THEN /\ actions < ActionCapacity
          /\ actions' = actions + 1 /\ todo' = todo - 1
     ELSE todo' = 0 /\ UNCHANGED actions
  /\ UNCHANGED <<cancelled, running, feed, events, applying, world, engineQueue,
                 evaluated, triggered, submitted>>

EngineStops ==
  /\ Runs("engine") /\ todo = 0 /\ cancelled
  /\ Leave("engine") /\ engineQueue' = <<>>
  /\ UNCHANGED <<cancelled, feed, events, applying, world, script>>

\* Count in the display, submit to the arbiter, upsert the diagnostic.
ForwarderSubmits ==
  /\ Runs("forwarder") /\ actions > 0
  /\ actions' = actions - 1 /\ submitted' = submitted + 1
  /\ UNCHANGED <<cancelled, running, feed, events, applying, world, engineQueue,
                 evaluated, todo, triggered>>

ForwarderStops ==
  /\ Runs("forwarder") /\ cancelled
  /\ Leave("forwarder") /\ actions' = 0
  /\ UNCHANGED <<cancelled, feed, events, applying, world, engineQueue,
                 evaluated, todo, triggered, submitted>>

Cancel ==
  /\ ~cancelled /\ cancelled' = TRUE
  /\ UNCHANGED <<running, feed, events, applying, world, engineQueue, script>>
-----------------------------------------------------------------------------
Next ==
  \/ FastTick \/ SlowTick \/ PipelineSends \/ PipelineSeesBridgeEnd \/ PipelineStops
  \/ KernelEvent \/ BridgeSends \/ BridgeStops
  \/ UpdaterIgnores \/ UpdaterForwards \/ UpdaterApplies \/ UpdaterStops
  \/ EngineEvaluates \/ EngineSends \/ EngineStops
  \/ ForwarderSubmits \/ ForwarderStops
  \/ Cancel

Spec == Init /\ [][Next]_vars

\* The runtime polls every task that can go on.  select! picks among the ready
\* branches at random, so a branch that is ready again and again is taken in
\* the end: strong fairness for the branches that compete.
Fairness ==
  /\ SF_vars(PipelineSends) /\ SF_vars(PipelineStops) /\ SF_vars(PipelineSeesBridgeEnd)
  /\ SF_vars(BridgeSends) /\ SF_vars(cancelled /\ BridgeStops)
  /\ WF_vars(UpdaterIgnores \/ UpdaterForwards) /\ WF_vars(UpdaterApplies)
  /\ SF_vars(UpdaterStops)
  /\ WF_vars(EngineEvaluates) /\ SF_vars(EngineSends) /\ SF_vars(EngineStops)
  /\ WF_vars(ForwarderSubmits) /\ WF_vars(ForwarderStops)

FairSpec == Spec /\ Fairness
-----------------------------------------------------------------------------
\* The events between the probe and the graph, the oldest first: in the
\* updater's hand, in the channel and in the pipeline's hand.
Transit == applying \o events \o sending

\* Apart from events that the updater ignores, s is the numbers after low up
\* to high, each once and in their order.
Consecutive(s, low, high) ==
  /\ \A i \in DOMAIN s : s[i] # Other => s[i] \in low + 1 .. high
  /\ \A n \in low + 1 .. high : \E i \in DOMAIN s : s[i] = n
  /\ \A i, j \in DOMAIN s : i < j /\ s[i] # Other /\ s[j] # Other => s[i] < s[j]

\* The world graph misses no snapshot and takes none out of order: those that
\* are not in it yet are on their way to it, in their order.  (The updater
\* drops them when it stops.)
NoSnapshotLost ==
  Runs("updater") /\ Runs("pipeline") => Consecutive(Transit, world, taken)

\* Back-pressure loses no rule action: until the program is shut down, every
\* action that the rules triggered is submitted or on its way.
NoRuleActionLost == Runs("forwarder") => triggered = submitted + actions + todo

\* Every snapshot reaches the world graph, unless the program is shut down.
WorldCatchesUp == \A n \in 1 .. MaxSnapshots : taken = n ~> (world >= n \/ cancelled)

\* Cancelling the root token ends every task, also one that is waiting for
\* room in the channel of a task that has ended.
ShutdownCompletes == cancelled ~> running = {}
=============================================================================
