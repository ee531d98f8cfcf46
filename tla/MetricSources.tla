---------------------------- MODULE MetricSources ---------------------------
(***************************************************************************)
(* The tasks that main starts around the list of targets and the metric    *)
(* channel: periodic re-discovery, the consumer of a Prometheus server,    *)
(* the scraper and the prober, and the analysis engine that drains the     *)
(* channel at its ticks.  With --no-analyze nobody does, but the receiver  *)
(* lives on with main.                                                     *)
(*                                                                         *)
(* A source waits for its tick, takes the endpoints from the list of       *)
(* targets, looks at one after another and awaits room for its batch.  It  *)
(* sees the cancellation while it waits only; main returns soon after it   *)
(* and the runtime drops what is left of the tasks.                        *)
(***************************************************************************)
EXTENDS Discovery

CONSTANTS
  Config,          \* the configured targets
  ScanPorts,       \* the ports that are scanned, in order
  ServiceStates,   \* what may listen on this host: functions from ports to pages by path
  Responses,       \* answers of the Prometheus server
  ChannelSize,     \* 128 batches in main
  MaxRounds        \* bound: rounds of each source that yield something

ASSUME SourcesAssumption ==
  /\ Config \in Seq(ToSet(Config))      \* a sequence, of whatever records
  /\ ScanPorts \in Seq(Nat)

Sources == {"consumer", "scraper", "prober"}

VARIABLES
  services,        \* what listens now
  targets,         \* the shared list
  served,          \* the copy of it that the gRPC server answers from
  finder,          \* the re-discovery task: [at, ports, found]
  tasks,           \* the sources: [at, asked, left, series]
  channel,         \* batches [source, round, series]
  store,           \* the series that remote batches made: key -> samples
  engine,          \* none with --no-analyze, running or stopped
  cancelled, up,   \* up: main has not returned
  rounds,          \* history: the batches that each source has made
  taken            \* history: the batches [source, round] that were ingested, in order

vars == <<services, targets, served, finder, tasks, channel, store, engine, cancelled, up, rounds, taken>>
env == <<services, engine, cancelled, up>>

Idle == [at |-> "waiting", asked |-> <<>>, left |-> <<>>, series |-> <<>>]
FinderIdle == [at |-> "waiting", ports |-> <<>>, found |-> <<>>]
-----------------------------------------------------------------------------
\* The first discovery is over before any task is started.
Init ==
  /\ services \in ServiceStates
  /\ targets = MergeTargets([i \in DOMAIN Config |-> TargetFromConfig(Config[i])],
                            Discover(services, ScanPorts))
  /\ served = targets
  /\ finder = FinderIdle
  /\ tasks = [s \in Sources |-> Idle]
  /\ channel = <<>> /\ store = <<>>
  /\ engine \in {"none", "running"}
  /\ cancelled = FALSE /\ up = TRUE
  /\ rounds = [s \in Sources |-> 0] /\ taken = <<>>

\* Services are started and stopped.
ServicesChange ==
  /\ services' \in ServiceStates
  /\ UNCHANGED <<targets, served, finder, tasks, channel, store, engine, cancelled, up, rounds, taken>>
-----------------------------------------------------------------------------
FinderBegins ==
  /\ up /\ finder.at = "waiting"
  /\ ScanPorts # <<>>
  /\ finder' = [at |-> "scanning", ports |-> ScanPorts, found |-> <<>>]
  /\ UNCHANGED <<env, targets, served, tasks, channel, store, rounds, taken>>

\* The scan looks at every port before a page is asked for.
FinderScans ==
  /\ up /\ finder.at = "scanning"
  /\ LET port == Head(finder.ports)
         open == IF port \in DOMAIN services THEN Append(finder.found, port) ELSE finder.found
     IN finder' = IF Len(finder.ports) > 1 THEN [finder EXCEPT !.ports = Tail(@), !.found = open]
                  ELSE IF open = <<>> THEN FinderIdle
                  ELSE [at |-> "probing", ports |-> open, found |-> <<>>]
  /\ UNCHANGED <<env, targets, served, tasks, channel, store, rounds, taken>>

\* A port that was open is a target, although it may be closed by now; the
\* last one is followed by the merge.
FinderProbes ==
  /\ up /\ finder.at = "probing"
  /\ LET found == Append(finder.found, PortTarget(services, Head(finder.ports)))
     IN IF Len(finder.ports) > 1
        THEN /\ finder' = [finder EXCEPT !.ports = Tail(@), !.found = found]
             /\ UNCHANGED targets
        ELSE /\ finder' = FinderIdle
             /\ targets' = MergeTargets(targets, found)
  /\ UNCHANGED <<env, served, tasks, channel, store, rounds, taken>>

FinderStops ==
  /\ up /\ cancelled /\ finder.at = "waiting"
  /\ finder' = [finder EXCEPT !.at = "done"]
  /\ UNCHANGED <<env, targets, served, tasks, channel, store, rounds, taken>>
-----------------------------------------------------------------------------
\* The endpoints that a source is for, with their targets.
EndpointsFor(s) ==
  LET wanted == CASE s = "scraper" -> {"prometheus"}
                  [] s = "prober" -> DOMAIN Checks
                  [] s = "consumer" -> {}
      of(t) == LET eps == SelectSeq(t.endpoints, LAMBDA e : e.type \in wanted)
               IN [i \in DOMAIN eps |-> [target |-> t.id, type |-> eps[i].type, url |-> eps[i].url]]
  IN IF s = "consumer" THEN <<[target |-> "server", type |-> "query", url |-> "server"]>>
     ELSE FlattenSeq([i \in DOMAIN targets |-> of(targets[i])])

\* The page at an endpoint; nothing is known of what does not run here.
PagesAt(url) ==
  IF Len(url) = 2 /\ url[1] \in DOMAIN services
  THEN IF url[2] \in DOMAIN services[url[1]] THEN {services[url[1]][url[2]]} ELSE {Unreachable}
  ELSE {Unreachable}

Outcomes(e) ==
  IF e.type = "tcp" THEN IF e.url \in DOMAIN services THEN {"connected"} ELSE {"refused", "no answer"}
  ELSE DOMAIN Checks[e.type]

\* What a look at an endpoint can yield; an error yields nothing.
Seen(e) ==
  CASE e.type = "query" -> {QueriedSeries(r) : r \in Responses}
    [] e.type = "prometheus" -> {ScrapedSeries(page, e.target) : page \in PagesAt(e.url)}
    [] OTHER -> {ProbedSeries(e.type, e.target, o) : o \in Outcomes(e)}

\* The list is copied under its lock, which is released before the first
\* look; without endpoints the round is over.
Begin(s) ==
  /\ up /\ tasks[s].at = "waiting" /\ rounds[s] < MaxRounds
  /\ EndpointsFor(s) # <<>>
  /\ tasks' = [tasks EXCEPT ![s] = [at |-> "looking", asked |-> EndpointsFor(s),
                                    left |-> EndpointsFor(s), series |-> <<>>]]
  /\ UNCHANGED <<env, targets, served, finder, channel, store, rounds, taken>>

\* The last look of a round ends it; an empty batch is not sent.
AfterLook(s, seen) ==
  LET series == tasks[s].series \o seen
  IN IF Len(tasks[s].left) > 1 THEN [tasks[s] EXCEPT !.left = Tail(@), !.series = series]
     ELSE IF series = <<>> THEN Idle
     ELSE [tasks[s] EXCEPT !.left = <<>>, !.series = series, !.at = "sending"]

Look(s) ==
  /\ up /\ tasks[s].at = "looking"
  /\ \E seen \in Seen(Head(tasks[s].left)) : tasks' = [tasks EXCEPT ![s] = AfterLook(s, seen)]
  /\ rounds' = [rounds EXCEPT ![s] = IF tasks'[s].at = "sending" THEN @ + 1 ELSE @]
  /\ UNCHANGED <<env, targets, served, finder, channel, store, taken>>

BatchOf(s) == [source |-> s, round |-> rounds[s], series |-> tasks[s].series]

\* Mutant: what does not fit is dropped.
SendIfRoom(s) ==
  /\ up /\ tasks[s].at = "sending"
  /\ channel' = IF Len(channel) < ChannelSize THEN Append(channel, BatchOf(s)) ELSE channel
  /\ tasks' = [tasks EXCEPT ![s] = Idle]
  /\ UNCHANGED <<env, targets, served, finder, store, rounds, taken>>

\* The receiver is the engine's or, without one, main's.
Send(s) ==
  /\ up /\ tasks[s].at = "sending" /\ engine # "stopped"
  /\ Len(channel) < ChannelSize
  /\ channel' = Append(channel, BatchOf(s))
  /\ tasks' = [tasks EXCEPT ![s] = Idle]
  /\ UNCHANGED <<env, targets, served, finder, store, rounds, taken>>

\* At the cancellation, or because the receiver has gone.
SourceStops(s) ==
  /\ up
  /\ \/ cancelled /\ tasks[s].at = "waiting"
     \/ engine = "stopped" /\ tasks[s].at = "sending"
  /\ tasks' = [tasks EXCEPT ![s].at = "done"]
  /\ UNCHANGED <<env, targets, served, finder, channel, store, rounds, taken>>
-----------------------------------------------------------------------------
IngestSeries(st, series) ==
  LET key == StoreKey(series)
  IN (key :> (IF key \in DOMAIN st THEN st[key] ELSE <<>>) \o series.samples) @@ st

IngestBatches(st, batches) ==
  FoldLeft(LAMBDA acc, b : FoldLeft(IngestSeries, acc, b.series), st, batches)

Labels(batches) ==
  [i \in DOMAIN batches |-> [source |-> batches[i].source, round |-> batches[i].round]]

\* Mutant: the engine leaves the channel alone while it is full.
EngineTickUnlessFull ==
  /\ up /\ engine = "running" /\ channel # <<>> /\ Len(channel) < ChannelSize
  /\ store' = IngestBatches(store, channel)
  /\ taken' = taken \o Labels(channel)
  /\ channel' = <<>>
  /\ UNCHANGED <<env, targets, served, finder, tasks, rounds>>

\* The engine's tick takes all batches that are there.
EngineTick ==
  /\ up /\ engine = "running" /\ channel # <<>>
  /\ store' = IngestBatches(store, channel)
  /\ taken' = taken \o Labels(channel)
  /\ channel' = <<>>
  /\ UNCHANGED <<env, targets, served, finder, tasks, rounds>>

\* The engine sees the cancellation and drops the receiver with what is in
\* the channel.
EngineStops ==
  /\ up /\ cancelled /\ engine = "running"
  /\ engine' = "stopped" /\ channel' = <<>>
  /\ UNCHANGED <<services, targets, served, finder, tasks, store, cancelled, up, rounds, taken>>

\* The user quits; main returns soon after, and all tasks are dropped.
Cancel ==
  /\ ~cancelled /\ cancelled' = TRUE
  /\ UNCHANGED <<services, targets, served, finder, tasks, channel, store, engine, up, rounds, taken>>

MainReturns ==
  /\ cancelled /\ up /\ up' = FALSE
  /\ channel' = <<>> /\ tasks' = [s \in Sources |-> Idle] /\ finder' = FinderIdle
  /\ UNCHANGED <<services, targets, served, store, engine, cancelled, rounds, taken>>
-----------------------------------------------------------------------------
Finder == FinderBegins \/ FinderScans \/ FinderProbes \/ FinderStops
Source(s) == Begin(s) \/ Look(s) \/ Send(s) \/ SourceStops(s)

Next ==
  \/ ServicesChange
  \/ Finder
  \/ \E s \in Sources : Source(s)
  \/ EngineTick \/ EngineStops \/ Cancel \/ MainReturns

\* The runtime polls every task, and every request that scraper and prober
\* make has a timeout.  The consumer's has none.
Fairness ==
  /\ WF_vars(EngineTick)
  /\ \A s \in Sources : SF_vars(Send(s))

Spec == Init /\ [][Next]_vars /\ Fairness
-----------------------------------------------------------------------------
\* The batches that the sources have handed over, in their order.
Way == taken \o Labels(channel)
Own(s) == {i \in DOMAIN Way : Way[i].source = s}

HandedOver(s) == IF tasks[s].at = "sending" THEN rounds[s] - 1 ELSE rounds[s]

\* While the program runs, no batch is lost, repeated or taken out of order
\* on its way: but for the one that waits for room, all that a source has
\* made are with the engine or in the channel, once each and in order.
NoBatchLost ==
  (up /\ engine # "stopped") => \A s \in Sources :
    /\ {Way[i].round : i \in Own(s)} = 1 .. HandedOver(s)
    /\ \A i, j \in Own(s) : i < j => Way[i].round < Way[j].round

\* The list of targets only grows, at its end, so that the copy that the gRPC
\* server was given stays a part of it; and no target that is discovered is
\* named twice or has the name of another.  Of configured targets nobody
\* asks for names that differ.
TargetListGrows ==
  [][/\ IsPrefix(targets, targets') /\ IsPrefix(served, targets')
     /\ \A i, j \in DOMAIN targets' :
          targets'[i].id = targets'[j].id => i = j \/ {i, j} \subseteq DOMAIN Config]_vars

\* With the analysis enabled every batch that was made is taken in the end,
\* however full the channel was, unless the program is quit before.
BatchesReachTheStore ==
  \A s \in Sources : \A n \in 1 .. MaxRounds :
    (engine = "running" /\ rounds[s] >= n) ~> ([source |-> s, round |-> n] \in ToSet(taken) \/ cancelled)
=============================================================================
