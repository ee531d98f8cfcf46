----------------------------- MODULE SharedState -----------------------------
(***************************************************************************)
(* The state that the program's tasks share (SharedState of aether-web,    *)
(* the Arcs of main) and the tasks that read it: the pushes of two open    *)
(* pages (aether-web/src/ws.rs), the exporter's updates (main.rs) and a    *)
(* client of the REST interface, against the graph updater, the collector  *)
(* of diagnostics and the humans' dismissals.                              *)
(*                                                                         *)
(* A handler that locks once is one step.  Those that lock twice are two,  *)
(* and what they keep in between is in held; the read lock of the graph is *)
(* the only one that is held while another is taken.                       *)
(***************************************************************************)
EXTENDS SurfaceViews

CONSTANTS
  Pages,                \* tasks that push to an open page
  Client,               \* a task that answers the requests of a client
  Worlds,               \* snapshots of the graph
  NoWorld,              \* no snapshot waits to be applied
  Findings,             \* diagnostics that the collector may bring
  Capacity,             \* samples that a series keeps: 3600
  MaxDiagnostics, MaxNow   \* bounds of the model

ASSUME SharedStateAssumption ==
  /\ {Capacity, MaxDiagnostics, MaxNow} \subseteq Nat
  /\ Capacity > 0
  /\ NoWorld \notin Worlds
  /\ \A w \in Worlds :
       /\ IsFiniteSet(DOMAIN w.procs) /\ DOMAIN w.procs \subseteq 0 .. PidWidth - 1
       /\ w.procs \in [DOMAIN w.procs -> [cpu : Nat, mem : Nat, hp : Nat, zombie : BOOLEAN]]
  /\ \A d \in Findings : d.severity \in 0 .. 2

VARIABLES
  now,                  \* the wall clock
  world,                \* the graph behind its RwLock
  readers,              \* tasks that hold its read lock
  writer,               \* the snapshot that waits for its write lock
  diagnostics,          \* the shared vector of diagnostics
  series,               \* the timestamps of one series of the page's MetricStore
  gauges,               \* the exporter's registry: a process for every labelled pid
  pc, held              \* where each task stands and what it has read

sharedVars == <<now, world, readers, writer, diagnostics, series, gauges, pc, held>>

Tasks == Pages \cup {Client}
Nothing == [at |-> 0, world |-> NoWorld, entry |-> NoAction]

SharedInit ==
  /\ now = 0
  /\ world \in Worlds
  /\ readers = {} /\ writer = NoWorld
  /\ diagnostics = << >> /\ series = << >>
  /\ gauges = << >>
  /\ pc = [t \in Tasks |-> "idle"]
  /\ held = [t \in Tasks |-> Nothing]

Goto(t, label, what) ==
  /\ pc' = [pc EXCEPT ![t] = label]
  /\ held' = [held EXCEPT ![t] = what]
-----------------------------------------------------------------------------
(* The locks of the graph.  A writer that waits keeps new readers out.     *)

MayRead == writer = NoWorld

\* One that is like the graph changes nothing.
SnapshotArrives(w) ==
  /\ writer = NoWorld /\ w # world
  /\ writer' = w
  /\ UNCHANGED <<now, world, readers, diagnostics, series, gauges, pc, held>>

SnapshotApplied ==
  /\ writer # NoWorld
  /\ readers = {}
  /\ world' = writer /\ writer' = NoWorld
  /\ UNCHANGED <<now, readers, diagnostics, series, gauges, pc, held>>
-----------------------------------------------------------------------------
(* The push to a page.                                                     *)

\* Mutant: the graph is released before the diagnostics are locked.
PageReadsAndLeaves(p) ==
  /\ pc[p] = "idle" /\ MayRead
  /\ Goto(p, "reading", [Nothing EXCEPT !.world = world, !.at = now])
  /\ UNCHANGED <<now, world, readers, writer, diagnostics, series, gauges>>

PageReads(p) ==
  /\ pc[p] = "idle" /\ MayRead
  /\ readers' = readers \cup {p}
  /\ Goto(p, "reading", [Nothing EXCEPT !.world = world, !.at = now])
  /\ UNCHANGED <<now, world, writer, diagnostics, series, gauges>>

\* Mutant: the graph is locked again for the second half of the update.
PageReadsTwice(p) ==
  /\ pc[p] = "reading" /\ MayRead
  /\ readers' = readers \ {p}
  /\ Goto(p, "pushing", [Nothing EXCEPT !.at = held[p].at])
  /\ UNCHANGED <<now, world, writer, diagnostics, series, gauges>>

\* The diagnostics are copied and counted while the graph is still locked.
PageReadsDiagnostics(p) ==
  /\ pc[p] = "reading"
  /\ readers' = readers \ {p}
  /\ Goto(p, "pushing", [Nothing EXCEPT !.at = held[p].at])
  /\ UNCHANGED <<now, world, writer, diagnostics, series, gauges>>

\* MetricStore::push.
Pushed(s, at) == Append(IF Len(s) >= Capacity THEN Tail(s) ELSE s, at)

\* record_metrics: with the timestamp that was taken under the graph's lock.
PageRecords(p) ==
  /\ pc[p] = "pushing"
  /\ series' = Pushed(series, held[p].at)
  /\ Goto(p, "idle", Nothing)
  /\ UNCHANGED <<now, world, readers, writer, diagnostics, gauges>>

\* Mutant: the samples are taken from the end of the series up to the first older one.
HistoryFromTheEnd(s, d) ==
  LET from == CHOOSE n \in 1 .. Len(s) + 1 :
                /\ \A i \in n .. Len(s) : s[i] >= s[Len(s)] - d
                /\ n = 1 \/ s[n - 1] < s[Len(s)] - d
  IN IF d = 0 \/ s = << >> THEN s ELSE SubSeq(s, from, Len(s))

\* MetricStore::history: the window ends at the sample that was recorded last.
History(s, d) ==
  IF d = 0 \/ s = << >> THEN s
  ELSE LET cutoff == IF s[Len(s)] >= d THEN s[Len(s)] - d ELSE 0
           recent[n \in 0 .. Len(s)] ==
             IF n = 0 THEN << >>
             ELSE IF s[n] >= cutoff THEN Append(recent[n - 1], s[n]) ELSE recent[n - 1]
       IN recent[Len(s)]
-----------------------------------------------------------------------------
(* The exporter: gauges are set for the processes there are, and none is   *)
(* ever taken out of the registry.                                         *)

\* The graph is locked from the first to the last: one step.
ExporterUpdates ==
  /\ MayRead
  /\ gauges' = [p \in DOMAIN world.procs \cup DOMAIN gauges |->
                  IF p \in DOMAIN world.procs THEN world.procs[p] ELSE gauges[p]]
  /\ UNCHANGED <<now, world, readers, writer, diagnostics, series, pc, held>>
-----------------------------------------------------------------------------
(* A client of the REST interface.                                         *)

PositionsOf(id) == {i \in DOMAIN diagnostics : diagnostics[i].id = id}
Found(id) == diagnostics[CHOOSE i \in PositionsOf(id) : \A j \in PositionsOf(id) : i <= j]

Entry(source, action, pid) == [source |-> source, action |-> action, pid |-> pid]

\* execute_diagnostic answers with an error, and changes nothing, when there is no
\* such diagnostic or nothing to be executed for it; ArbiterQueue::submit takes the pid
\* of the entry from the action.
ExecuteLooksUp(id) ==
  /\ pc[Client] = "idle"
  /\ PositionsOf(id) # {}
  /\ ActionOf(Found(id)) # NoAction
  /\ Goto(Client, "submitting", [Nothing EXCEPT !.entry =
       Entry("diagnostic-engine", ActionOf(Found(id)), ActionOf(Found(id)).pid)])
  /\ UNCHANGED <<now, world, readers, writer, diagnostics, series, gauges>>

\* The entry is queued: from here on it is an entry of Arbiter.
Submits ==
  /\ pc[Client] = "submitting"
  /\ Goto(Client, "idle", Nothing)
  /\ UNCHANGED <<now, world, readers, writer, diagnostics, series, gauges>>
-----------------------------------------------------------------------------
(* The other writers, one step each.                                       *)

\* The collector: a finding replaces the one with its id or is appended.
Collected(d) ==
  /\ PositionsOf(d.id) # {} \/ Len(diagnostics) < MaxDiagnostics
  /\ diagnostics' = IF PositionsOf(d.id) = {} THEN Append(diagnostics, d)
                    ELSE [i \in DOMAIN diagnostics |->
                            IF i \in PositionsOf(d.id) THEN d ELSE diagnostics[i]]
  /\ UNCHANGED <<now, world, readers, writer, series, gauges, pc, held>>

Dismissed(id) ==
  /\ PositionsOf(id) # {}
  /\ diagnostics' = Kept(diagnostics, {d \in ToSet(diagnostics) : d.id # id})
  /\ UNCHANGED <<now, world, readers, writer, series, gauges, pc, held>>

Tick ==
  /\ now < MaxNow
  /\ now' = now + 1
  /\ UNCHANGED <<world, readers, writer, diagnostics, series, gauges, pc, held>>

Ids == {d.id : d \in Findings}

SharedNext ==
  \/ \E w \in Worlds : SnapshotArrives(w)
  \/ SnapshotApplied
  \/ \E p \in Pages : PageReads(p) \/ PageReadsDiagnostics(p) \/ PageRecords(p)
  \/ ExporterUpdates
  \/ \E id \in Ids : ExecuteLooksUp(id) \/ Dismissed(id)
  \/ Submits
  \/ \E d \in Findings : Collected(d)
  \/ Tick

\* Tasks that hold the graph go on, for they wait for short critical sections only.
SharedFairness ==
  /\ WF_sharedVars(SnapshotApplied)
  /\ \A p \in Pages : WF_sharedVars(PageReadsDiagnostics(p))

SharedSpec == SharedInit /\ [][SharedNext]_sharedVars /\ SharedFairness
-----------------------------------------------------------------------------
(* Properties.                                                             *)

\* The graph and the diagnostics of a page's update belong to one moment: the graph that
\* was read is still the graph when the diagnostics are read (ws.rs build_world_update).
UpdateIsOneMoment ==
  [][\A t \in Pages :
       (pc[t] = "reading" /\ pc'[t] # "reading") => held[t].world = world]_sharedVars

\* What the history of a series leaves out of a window is older than the window, although
\* two pages may record out of order (state.rs history, ws.rs record_metrics).
HistoryMissesNothing ==
  \A d \in 0 .. MaxNow : \A i \in DOMAIN series :
    (\A j \in DOMAIN series : series[i] + d >= series[j])
      => Cardinality({j \in DOMAIN series : series[j] = series[i]}) =
         Cardinality({j \in DOMAIN History(series, d) : History(series, d)[j] = series[i]})

\* A snapshot that waits for the graph gets in: no task that holds the read lock waits for
\* a lock that the waiting snapshot keeps from it, and new readers do not overtake it.
SnapshotGetsIn == writer # NoWorld ~> writer = NoWorld

\* A finding is listed by all surfaces or by none, for every way of writing a severity,
\* and the stream of events tells of what the service lists.
ListsAgree ==
  LET everyone == {d.host : d \in Findings}
      kinds == {d.category : d \in Findings}
      targets == {d.target : d \in Findings}
  IN \A text \in {t \in SeverityTexts : t.says # Nonsense} :
       /\ RestList(diagnostics, text, everyone) = McpList(diagnostics, everyone, text, kinds)
       /\ RestList(diagnostics, text, everyone) = GrpcList(diagnostics, text, targets)
       /\ text.lower =>
            LET listed == GrpcList(diagnostics, text, targets)
                streamed == Streamed(Published(diagnostics), text)
            IN [i \in DOMAIN listed |-> ServiceDiagnostic(listed[i]).id]
                 = [i \in DOMAIN streamed |-> streamed[i].id]

\* The program's own scraper reads from the exporter's page what was set there.
PageReadsBack ==
  LET page == MetricsPage(Gauges(gauges, diagnostics))
      read == ParsePage(page)
  IN /\ IsPrometheusFormat(page)
     /\ {[name |-> m.name, labels |-> m.labels, value |-> m.value] : m \in ToSet(read)}
          = Gauges(gauges, diagnostics)
     /\ \A i \in DOMAIN read : read[i].type = "gauge"

\* The surfaces count alike.
CountsAgree ==
  /\ RestCounts(diagnostics) = McpCounts(diagnostics)
  /\ RestCounts(diagnostics) = ExportedCounts(diagnostics)

\* What the tools say of the graph is what the pages say of it.
GraphViewsAgree ==
  /\ \A s \in Summaries(world, diagnostics) :
       /\ s.counts = McpCounts(diagnostics) /\ s.memory = RestStats(world).memory
       /\ \E t \in Topologies(world) : s.top \subseteq DOMAIN t.processes
  /\ \A t \in Topologies(world) :
       /\ t.summary.memory = RestStats(world).memory
       /\ \A p \in DOMAIN t.processes : \A one \in ProcessDetail(world, p) :
            /\ one.process = t.processes[p]
            /\ {l \in one.connections : l.from = p} = {l \in t.connections : l.from = p}
  /\ \A p \in DOMAIN world.procs : \A one \in InspectProcess(world, p) :
       \A seen \in ProcessDetail(world, p) : one.connections = seen.connections

\* No process with a critical anomaly is left out of the list or put behind a warning.
CriticalComeFirst ==
  \A l \in AnomalyLists(world), p \in DOMAIN world.procs :
    (world.procs[p].zombie \/ world.procs[p].hp < 25) =>
      \E i \in DOMAIN l : l[i].pid = p /\ \A j \in 1 .. i : l[j].critical

\* A kill that the page offers for a finding is the one that the terminal offers, and one
\* that a tool or the service is asked for is one and the same.
ActionsAgree ==
  /\ \A p \in DOMAIN world.procs : \A kind \in {"kill", "inspect"} :
       {e.action : e \in ToolEntry(kind, p)} = {e.action : e \in ServiceEntry(kind, p, p)}
  /\ \A d \in Findings : ActionOf(d).kind = "kill" => TerminalActionOf(d) = ActionOf(d)

\* A tool that is listed refuses a call exactly when something is missing that its schema
\* requires, and one that is not listed is not found.
RefusesWhatIsMissing ==
  \A name \in DOMAIN ToolDefinitions \cup {"kill_process"}, present \in SUBSET {"pid", "action"} :
    LET args == [a \in present |-> IF a = "pid" THEN 1 ELSE "kill"]
        answer == JsonRpc(world, "tools/call", {[name |-> name, arguments |-> args]})
    IN  /\ (answer.code = MethodNotFound) = (name \notin DOMAIN ToolDefinitions)
        /\ name \in DOMAIN ToolDefinitions =>
             (answer.code = InvalidParams) = ~(ToolDefinitions[name] \subseteq present)

\* Whatever surface is asked, the answers about one state are one (api.rs, tools.rs,
\* aether-mcp/server.rs, aether-api/server.rs, exporter/server.rs, scrape/parser.rs,
\* tui/diagnostics.rs).
SurfacesAgree ==
  /\ ListsAgree /\ PageReadsBack /\ CountsAgree
  /\ GraphViewsAgree /\ CriticalComeFirst
  /\ ActionsAgree /\ RefusesWhatIsMissing
=============================================================================
