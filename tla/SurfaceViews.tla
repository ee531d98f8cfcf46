---------------------------- MODULE SurfaceViews ----------------------------
(***************************************************************************)
(* What the program's surfaces tell of one and the same state: the REST    *)
(* handlers (aether-web/src/api.rs), the WebSocket's update (ws.rs), the   *)
(* tools of the MCP server (aether-mcp/src/tools.rs), the gRPC service     *)
(* (aether-api/src/server.rs) and the exporter.  A handler that takes one  *)
(* lock and changes nothing is an operator on what the lock protects.      *)
(*                                                                         *)
(* A world is [procs, links]: procs a function from pids to processes      *)
(* [cpu, mem, hp, zombie], links a set of [from, to, rate].  A diagnostic  *)
(* is [id, host, target, severity, category, action]; a vector is a        *)
(* sequence.  Names, JSON and the order of the graph's nodes are left out. *)
(***************************************************************************)
EXTENDS Exposition, FiniteSets

CONSTANTS
  MaxProcesses,         \* MAX_PROCESSES of the topology tool: 50
  TopCount,             \* the processes named by the summary: 5
  HighMem,              \* HIGH_MEM_THRESHOLD: 1 GiB
  PidWidth              \* 2^32: a pid argument is cast to u32

ASSUME SurfaceViewsAssumption ==
  {MaxProcesses, TopCount, HighMem, PidWidth} \subseteq Nat /\ TopCount <= MaxProcesses

-----------------------------------------------------------------------------
(* The graph.                                                              *)

CpuTotal(w) == MapThenSumSet(LAMBDA p : w.procs[p].cpu, DOMAIN w.procs)
MemTotal(w) == MapThenSumSet(LAMBDA p : w.procs[p].mem, DOMAIN w.procs)
HpTotal(w)  == MapThenSumSet(LAMBDA p : w.procs[p].hp, DOMAIN w.procs)
Count(w)    == Cardinality(DOMAIN w.procs)

ConnectionsOf(w, pid) == {l \in w.links : pid \in {l.from, l.to}}

\* The set of the one answer, empty for "not found".
ProcessDetail(w, pid) ==
  {[process |-> w.procs[p], connections |-> ConnectionsOf(w, p)] :
     p \in {pid} \cap DOMAIN w.procs}

\* get_stats and the update of the page; the average is a whole number here.
RestStats(w) ==
  [processes |-> Count(w), cpu |-> CpuTotal(w), memory |-> MemTotal(w),
   hp |-> IF Count(w) > 0 THEN HpTotal(w) \div Count(w) ELSE 0]

\* The pids that a sort by falling CPU usage may leave in the first n places:
\* equal usages keep the order of the graph's nodes.
Heaviest(procs, n) ==
  {top \in kSubset(IF Cardinality(DOMAIN procs) < n THEN Cardinality(DOMAIN procs) ELSE n,
                   DOMAIN procs) :
     \A p \in top, q \in DOMAIN procs \ top : procs[p].cpu >= procs[q].cpu}

\* The answers that get_system_topology may give.
Topologies(w) ==
  {[processes |-> [p \in top |-> w.procs[p]],
    connections |-> {l \in w.links : l.from \in top},
    summary |-> [processes |-> Count(w), connections |-> Cardinality(w.links),
                 avgCpu |-> IF Count(w) > 0 THEN CpuTotal(w) \div Count(w) ELSE 0,
                 memory |-> MemTotal(w)]] : top \in Heaviest(w.procs, MaxProcesses)}

\* build_recommendations.
Advice(p) ==
  {a \in {"cpu", "hp", "zombie", "memory"} :
     \/ a = "cpu" /\ p.cpu > 80
     \/ a = "hp" /\ p.hp < 30
     \/ a = "zombie" /\ p.zombie
     \/ a = "memory" /\ p.mem > HighMem}

\* The argument loses the bits above 32 before the pid is looked up.
InspectProcess(w, arg) ==
  {[process |-> w.procs[p], connections |-> ConnectionsOf(w, p), advice |-> Advice(w.procs[p])] :
     p \in {arg % PidWidth} \cap DOMAIN w.procs}

\* detect_anomalies: up to three for one process, the critical ones marked.
AnomaliesOf(pid, p) ==
  {[pid |-> pid, hp |-> p.hp, what |-> a, critical |-> a = "zombie" \/ (a = "hp" /\ p.hp < 25)] :
     a \in {b \in {"zombie", "hp", "cpu"} :
              \/ b = "zombie" /\ p.zombie
              \/ b = "hp" /\ p.hp < 50
              \/ b = "cpu" /\ p.cpu > 90}}

Anomalies(w) == UNION {AnomaliesOf(pid, w.procs[pid]) : pid \in DOMAIN w.procs}

\* The order of list_anomalies; the sort is stable, so equals may come in any order.
Before(a, b) == (a.critical /\ ~b.critical) \/ (a.critical = b.critical /\ a.hp <= b.hp)

AnomalyLists(w) ==
  {s \in SetToSeqs(Anomalies(w)) : \A i, j \in DOMAIN s : i < j => Before(s[i], s[j])}
-----------------------------------------------------------------------------
(* The diagnostics.  A text that should name a severity is [says, lower]:  *)
(* the severity it names in whatever letters, Nonsense when it names none, *)
(* and whether it is in lower case; NoText stands for an absent one.  The  *)
(* other filters are the sets of what they let through.                    *)

Nonsense == 3
NoText == [says |-> 4, lower |-> TRUE]
SeverityTexts == [says : 0 .. Nonsense, lower : BOOLEAN] \cup {NoText}

\* Mutant: the text is compared as it is.
RestListExact(ds, text, hosts) ==
  Kept(ds, {d \in ToSet(ds) : /\ text = NoText \/ (text.lower /\ d.severity = text.says)
                              /\ d.host \in hosts})

\* list_diagnostics: the text is folded to lower case and compared, so one that
\* names no severity lets nothing through.
RestList(ds, text, hosts) ==
  Kept(ds, {d \in ToSet(ds) : (text = NoText \/ d.severity = text.says) /\ d.host \in hosts})

\* parse_severity, the same in MCP and gRPC: a text that names no severity is
\* as good as none.
Severities(text) == IF text.says >= Nonsense THEN 0 .. 2 ELSE {text.says}

McpList(ds, hosts, text, categories) ==
  Kept(ds, {d \in ToSet(ds) : /\ d.host \in hosts
                              /\ d.severity \in Severities(text)
                              /\ d.category \in categories})

\* get_diagnostics of the service: nothing sets resolved_at, so the filter on it
\* lets everything through; a target filter stands for the targets whose name has it.
GrpcList(ds, text, targets) ==
  Kept(ds, {d \in ToSet(ds) : d.severity \in Severities(text) /\ d.target \in targets})

CountOf(ds, severities) == Len(Kept(ds, {d \in ToSet(ds) : d.severity \in severities}))

\* compute_diagnostic_stats: whatever is neither critical nor a warning is info.
RestCounts(ds) == <<CountOf(ds, {2}), CountOf(ds, {1}), CountOf(ds, Int \ {1, 2})>>

\* count_severities of the tool, over the names in its own answer.
McpCounts(ds) == <<CountOf(ds, {2}), CountOf(ds, {1}), CountOf(ds, {0})>>

\* The gauges aether_diagnostics_active of update_from_world.
ExportedCounts(ds) == <<CountOf(ds, {2}), CountOf(ds, {1}), CountOf(ds, Int \ {1, 2})>>

\* The answers of get_metrics_summary to a graph and the diagnostics it finds after it
\* has released the graph; the sizes and loads of the host, which a task of main
\* refreshes every two seconds, are left out.
Summaries(w, ds) ==
  {[cpu |-> CpuTotal(w), memory |-> MemTotal(w), processes |-> Count(w),
    top |-> top, counts |-> RestCounts(ds)] : top \in Heaviest(w.procs, TopCount)}
-----------------------------------------------------------------------------
(* The service's messages.                                                 *)

\* A diagnostic loses its host and what is recommended for it.
ServiceDiagnostic(d) ==
  [id |-> d.id, target |-> d.target, severity |-> d.severity, category |-> d.category]

\* The collector publishes every diagnostic of a batch as created, new or not.
Published(ds) ==
  [i \in DOMAIN ds |->
     [kind |-> "DiagnosticCreated", id |-> ds[i].id, severity |-> ds[i].severity]]

EventTypes ==
  [DiagnosticCreated |-> "diagnostic_created", DiagnosticResolved |-> "diagnostic_resolved",
   ActionProposed |-> "action_proposed", ActionApproved |-> "action_approved",
   ActionDenied |-> "action_denied", ActionExecuted |-> "action_executed",
   TargetDiscovered |-> "target_discovered", TargetLost |-> "target_lost"]

\* The payload has what the event has.
ServiceEvent(e) == [e EXCEPT !.kind = EventTypes[e.kind]]

\* What stream_events lets through: all events but the diagnostics whose severity is
\* named otherwise; the text is compared as it is, and the names are in lower case.
Streamed(events, text) ==
  LET wanted == Kept(events, {e \in ToSet(events) : e.kind = "DiagnosticCreated" =>
                                text = NoText \/ (text.lower /\ e.severity = text.says)})
  IN [i \in DOMAIN wanted |-> ServiceEvent(wanted[i])]
-----------------------------------------------------------------------------
(* The exporter's page, in the terms of Exposition: gauges of processes    *)
(* [name, labels, value], without their names.                             *)

\* register_defaults.
RegisteredMetrics == <<
  <<"aether_process_cpu_percent", "gauge">>, <<"aether_process_memory_bytes", "gauge">>,
  <<"aether_process_hp", "gauge">>, <<"aether_host_cpu_percent", "gauge">>,
  <<"aether_host_memory_used_bytes", "gauge">>, <<"aether_host_load_avg_1m", "gauge">>,
  <<"aether_diagnostics_active", "gauge">>, <<"aether_analyze_evaluations_total", "counter">> >>

Gauge(name, label, key, value) == [name |-> name, labels |-> [l \in {label} |-> key], value |-> value]

\* update_from_world.
Gauges(procs, ds) ==
  (UNION {{Gauge("aether_process_cpu_percent", "pid", p, procs[p].cpu),
           Gauge("aether_process_memory_bytes", "pid", p, procs[p].mem),
           Gauge("aether_process_hp", "pid", p, procs[p].hp)} : p \in DOMAIN procs})
  \cup {Gauge("aether_diagnostics_active", "severity",
              <<"critical", "warning", "info">>[i], ExportedCounts(ds)[i]) : i \in 1 .. 3}

\* set_gauge drops what is not registered; snapshot and encode_openmetrics write a
\* family for each that is.
MetricsPage(gauges) ==
  LET SampleLine(g) ==
        LET label == CHOOSE l \in DOMAIN g.labels : TRUE
        IN [form |-> "sample", name |-> g.name, family |-> g.name, value |-> g.value,
            labels |-> <<[key |-> label, value |-> g.labels[label], form |-> "quoted"]>>]
      Family(m) ==
        LET samples == SetToSeq({g \in gauges : g.name = m[1]})
        IN <<[form |-> "help", name |-> m[1], text |-> "help"],
             [form |-> "type", name |-> m[1], text |-> m[2]]>>
           \o [i \in DOMAIN samples |-> SampleLine(samples[i])]
  IN FlattenSeq([i \in DOMAIN RegisteredMetrics |-> Family(RegisteredMetrics[i])])
-----------------------------------------------------------------------------
(* The actions that the surfaces submit: [kind, pid], pid 0 for those      *)
(* without one.                                                            *)

NoAction == [kind |-> "none", pid |-> 0]

\* recommended_to_agent_action of the page.
ActionOf(d) ==
  CASE d.action = "kill"        -> [kind |-> "kill", pid |-> d.target]
    [] d.action = "restart"     -> [kind |-> "restart", pid |-> 0]
    [] d.action = "investigate" -> [kind |-> "script", pid |-> 0]
    [] OTHER                    -> NoAction

\* diagnostic_to_agent_action of the terminal, for a diagnostic of a process.
TerminalActionOf(d) ==
  CASE d.action \in {"kill", "restart"} -> [kind |-> "kill", pid |-> d.target]
    [] d.action = "none"               -> NoAction
    [] OTHER                           -> [kind |-> "inspect", pid |-> d.target]

\* What execute_action of the tool queues: a pid that is missing counts as 0, and
\* the name of the service to restart is made of the pid.
ToolEntry(name, arg) ==
  {[source |-> "mcp-agent", action |-> [kind |-> k, pid |-> arg % PidWidth],
    pid |-> arg % PidWidth] : k \in {name} \cap {"kill", "restart", "inspect"}}

\* What execute_action of the service queues: the pid of the entry is the request's
\* target, or 0 for one that is no number, and the pid of the action a parameter.
ServiceEntry(type, parameter, target) ==
  {[source |-> "grpc-api",
    action |-> [kind |-> k, pid |-> IF k \in {"kill", "inspect"} THEN parameter ELSE 0],
    pid |-> target] : k \in {type} \cap {"kill", "restart", "inspect", "script"}}
-----------------------------------------------------------------------------
(* The tools over JSON-RPC.  The arguments of a call are a function from   *)
(* the names of those that have the type that is asked for: a pid that is  *)
(* no number is as good as none.                                           *)

\* What the schema of a tool requires.
Required == [empty |-> {}, pid |-> {"pid"}, diagnostics |-> {}, action |-> {"action"}]

ToolDefinitions ==
  [get_system_topology |-> Required.empty, inspect_process |-> Required.pid,
   list_anomalies |-> Required.empty, execute_action |-> Required.action,
   predict_anomalies |-> Required.empty, get_diagnostics |-> Required.diagnostics]

MethodNotFound == -32601
InvalidParams == -32602

\* dispatch_tool: the code of the error, or 0 for a result, which may say that the tool
\* itself failed.
DispatchTool(w, name, args) ==
  LET pid == IF "pid" \in DOMAIN args THEN args.pid ELSE 0
      Says(fine) == [code |-> 0, failed |-> ~fine]
      Refused(code) == [code |-> code, failed |-> TRUE]
  IN  CASE name = "inspect_process" ->
             IF "pid" \in DOMAIN args THEN Says(InspectProcess(w, pid) # {})
             ELSE Refused(InvalidParams)
        [] name = "execute_action" ->
             IF "action" \in DOMAIN args THEN Says(ToolEntry(args.action, pid) # {})
             ELSE Refused(InvalidParams)
        [] name \in {"get_system_topology", "list_anomalies", "predict_anomalies",
                     "get_diagnostics"} -> Says(TRUE)
        [] OTHER -> Refused(MethodNotFound)

\* handle_tools_call of the HTTP transport; params is the set of the one there is.
ToolsCall(w, params) ==
  IF \E p \in params : "name" \in DOMAIN p
  THEN LET p == CHOOSE p \in params : TRUE IN DispatchTool(w, p.name, p.arguments)
  ELSE [code |-> InvalidParams, failed |-> TRUE]

\* jsonrpc_handler; a notification is answered as well.
JsonRpc(w, method, params) ==
  CASE method \in {"initialize", "notifications/initialized", "tools/list"} ->
         [code |-> 0, failed |-> FALSE]
    [] method = "tools/call" -> ToolsCall(w, params)
    [] OTHER -> [code |-> MethodNotFound, failed |-> TRUE]
=============================================================================
