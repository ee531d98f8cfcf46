------------------------------- MODULE Startup -------------------------------
(***************************************************************************)
(* The binary from its command line to its end (main.rs): the steps of     *)
(* main in their order, each of which may fail, the tasks they spawn, the  *)
(* channels between these, the terminal, and who writes to the standard    *)
(* output.                                                                 *)
(*                                                                         *)
(* What a task does is the matter of other modules.  Here it runs, fails   *)
(* (an error it returns, a port in use, a panic over an interval of zero,  *)
(* which tokio confines to the task), or leaves because a channel of its   *)
(* has been closed from the other end.  When main returns, the runtime     *)
(* drops all tasks.                                                        *)
(***************************************************************************)
EXTENDS Configuration, FiniteSets

CONSTANTS
  Clis,                 \* command lines: records of the flags
  Files,                \* what the file of --config may be
  MaxFailures           \* bound: tasks that fail in one life

VARIABLES
  cli, file,            \* chosen by the user
  config,
  phase,                \* the step that main has come to
  started, running,     \* the tasks spawned so far, and those still alive
  failed,               \* history: the tasks that failed by themselves
  raw, alternate,       \* the modes the terminal is in
  refused,              \* history: a call to the terminal has failed
  wrote,                \* history: who wrote to the standard output
  exit                  \* "none", "ok" or "error"

vars == <<cli, file, config, phase, started, running, failed, raw, alternate, refused,
          wrote, exit>>
tasks == <<started, running, failed>>
terminal == <<raw, alternate, refused>>
given == <<cli, file, config>>

Init ==
  /\ cli \in Clis /\ file \in Files
  /\ config = DefaultConfig
  /\ phase = "configuration"
  /\ started = {} /\ running = {} /\ failed = {}
  /\ raw = FALSE /\ alternate = FALSE /\ refused = FALSE
  /\ wrote = {} /\ exit = "none"
-----------------------------------------------------------------------------
(* The channels.                                                           *)

SendersOf == [
  events |-> {"pipeline", "bridge"}, actions |-> {"mcpSse"}, raw |-> {"ringReader"},
  engineEvents |-> {"updater"}, ruleActions |-> {"scriptEngine"},
  predictions |-> {"predictor"}, metrics |-> {"consumer", "scraper", "prober"},
  diagnostics |-> {"analyzer"} ]

ReceiverOf == [
  events |-> "updater", actions |-> "forwarder", raw |-> "bridge",
  engineEvents |-> "scriptEngine", ruleActions |-> "ruleForwarder",
  predictions |-> "predictionCollector", metrics |-> "analyzer",
  diagnostics |-> "collector" ]

Channels == DOMAIN ReceiverOf

\* Mutant: event_tx is moved into the pipeline instead of cloned.
MovesEvents == IF cli.mcpSse /\ "mcpSse" \in started THEN {} ELSE {"actions"}

\* The senders that main itself holds on to: event_tx has been cloned for the
\* pipeline, action_tx is moved into the MCP server if there is one.
HeldByMain == {"events"} \cup (IF cli.mcpSse /\ "mcpSse" \in started THEN {} ELSE {"actions"})

Closed(ch) == ch \notin HeldByMain /\ SendersOf[ch] \cap running = {}

ReceiverGone(ch) == ReceiverOf[ch] \in started \ running

\* The loops that end when recv yields None, and those that end when send
\* fails.  The script engine and the forwarder of its actions do neither.
LeavesOnClose(ch) == ch \in {"events", "actions", "raw", "predictions", "diagnostics"}
LeavesOnRefusal(ch) == ch \in {"events", "raw", "metrics", "diagnostics"}

Leaves(t) ==
  /\ t \in running /\ exit = "none"
  /\ \E ch \in Channels :
       \/ ReceiverOf[ch] = t /\ LeavesOnClose(ch) /\ Closed(ch)
       \/ t \in SendersOf[ch] /\ LeavesOnRefusal(ch) /\ ReceiverGone(ch)
  /\ running' = running \ {t}
  /\ UNCHANGED <<given, phase, started, failed, terminal, wrote, exit>>

\* tokio::time::interval panics over a period of zero.
Panics(t) ==
  \/ t = "rediscovery" /\ config.discovery.interval_seconds = 0
  \/ t = "scraper" /\ config.scrape.interval_seconds = 0
  \/ t = "prober" /\ config.probe.interval_seconds = 0
  \/ t = "analyzer" /\ cli.analyzeInterval = 0

\* A probe that fails, a ring buffer that cannot be read, an address that
\* cannot be bound.
MayFail(t) == t \in {"pipeline", "ringReader", "exporter", "grpc", "mcpSse", "web"}

Fails(t) ==
  /\ t \in running /\ exit = "none"
  /\ MayFail(t) \/ Panics(t)
  /\ Cardinality(failed) < MaxFailures
  /\ running' = running \ {t} /\ failed' = failed \cup {t}
  /\ UNCHANGED <<given, phase, started, terminal, wrote, exit>>
-----------------------------------------------------------------------------
(* The steps of main.                                                      *)

At(here, next) == exit = "none" /\ phase = here /\ phase' = next

Spawn(new) ==
  /\ started' = started \cup new /\ running' = running \cup new
  /\ UNCHANGED failed

\* main returns; what has been spawned is dropped with the runtime.
Return(result) ==
  /\ exit' = result /\ running' = {}
  /\ UNCHANGED <<started, failed>>

Abort(here) ==
  /\ exit = "none" /\ phase = here /\ UNCHANGED phase
  /\ Return("error")

LoadConfig ==
  /\ IF ~cli.config \/ Loads(file)
     THEN /\ At("configuration", "ingestion")
          /\ config' = IF cli.config THEN Parsed(file.content) ELSE config
          /\ UNCHANGED <<tasks, exit>>
     ELSE Abort("configuration") /\ UNCHANGED config
  /\ UNCHANGED <<cli, file, terminal, wrote>>

\* Without the programs or the privileges for eBPF the pipeline does without.
StartIngestion ==
  /\ At("ingestion", "rules")
  /\ \E loaded \in IF cli.ebpf THEN BOOLEAN ELSE {FALSE} :
       Spawn({"pipeline"} \cup (IF loaded THEN {"ringReader", "bridge"} ELSE {})
                          \cup (IF config.discovery.enabled THEN {"rediscovery"} ELSE {}))
  /\ UNCHANGED <<given, terminal, wrote, exit>>

\* The rule file is read, parsed, checked and compiled; any error ends main.
StartRules ==
  /\ \/ /\ cli.rules /\ Abort("rules")
     \/ /\ At("rules", "core") /\ UNCHANGED exit
        /\ Spawn(IF cli.rules THEN {"watcher", "scriptEngine", "ruleForwarder"} ELSE {})
  /\ UNCHANGED <<given, terminal, wrote>>

StartCore ==
  /\ At("core", "sources")
  /\ Spawn({"updater", "executor", "forwarder"}
           \cup (IF cli.predict THEN {"predictor", "predictionCollector"} ELSE {}))
  /\ UNCHANGED <<given, terminal, wrote, exit>>

\* The address of --prometheus must be a URL.
StartSources ==
  /\ \/ /\ cli.prometheus /\ Abort("sources")
     \/ /\ At("sources", "analysis") /\ UNCHANGED exit
        /\ Spawn({"scraper", "prober"} \cup (IF cli.prometheus THEN {"consumer"} ELSE {}))
  /\ UNCHANGED <<given, terminal, wrote>>

\* With --no-analyze main keeps the receiver of the metrics and never reads.
StartAnalysis ==
  /\ At("analysis", "servers")
  /\ Spawn(IF cli.noAnalyze THEN {} ELSE {"analyzer", "collector"})
  /\ UNCHANGED <<given, terminal, wrote, exit>>

StartServers ==
  /\ At("servers", IF cli.mcpStdio THEN "stdio" ELSE "interfaces")
  /\ Spawn((IF cli.metrics THEN {"exporterUpdate", "exporter"} ELSE {})
           \cup (IF config.grpc.enabled THEN {"grpc"} ELSE {}))
  /\ UNCHANGED <<given, terminal, wrote, exit>>

\* --mcp-stdio: requests are answered on the standard output until its peer
\* leaves or the transport fails; there is no terminal UI.
AnswerOnStdout ==
  /\ exit = "none" /\ phase = "stdio"
  /\ wrote' = wrote \cup {"jsonrpc"}
  /\ UNCHANGED <<given, phase, tasks, terminal, exit>>

StdioEnds ==
  /\ exit = "none" /\ phase = "stdio" /\ UNCHANGED phase
  /\ \E result \in {"ok", "error"} : Return(result)
  /\ UNCHANGED <<given, terminal, wrote>>

StartInterfaces ==
  /\ At("interfaces", "rawMode")
  /\ Spawn((IF cli.mcpSse THEN {"mcpSse"} ELSE {})
           \cup (IF cli.web THEN {"webMetrics", "web"} ELSE {}))
  /\ UNCHANGED <<given, terminal, wrote, exit>>

\* A call that changes the terminal, or fails and ends main.
TerminalCall(here, next, rawAfter, alternateAfter) ==
  \/ /\ At(here, next)
     /\ raw' = rawAfter /\ alternate' = alternateAfter
     /\ UNCHANGED <<refused, tasks, exit>>
  \/ /\ Abort(here)
     /\ refused' = TRUE /\ UNCHANGED <<raw, alternate>>

\* The TUI takes over the terminal: raw mode, the alternate screen, and the
\* size of the screen, which Terminal::new asks for.
EnterTerminal ==
  /\ \/ TerminalCall("rawMode", "enterScreen", TRUE, alternate)
     \/ TerminalCall("enterScreen", "newTerminal", raw, TRUE)
     \/ TerminalCall("newTerminal", "display", raw, alternate)
  /\ UNCHANGED <<given, wrote>>

StartDisplay ==
  /\ At("display", "tui")
  /\ Spawn(IF cli.predict THEN {"predictionDisplay"} ELSE {})
  /\ UNCHANGED <<given, terminal, wrote, exit>>

Draw ==
  /\ exit = "none" /\ phase = "tui"
  /\ wrote' = wrote \cup {"tui"}
  /\ UNCHANGED <<given, phase, tasks, terminal, exit>>

\* Mutant: an error of the TUI is passed on before the terminal is restored.
TuiPassesOn ==
  /\ \/ At("tui", "leaveRaw") /\ UNCHANGED <<tasks, exit>>
     \/ Abort("tui")
  /\ UNCHANGED <<given, terminal, wrote>>

\* app.run returns, with or without an error, and main keeps the result.
TuiEnds ==
  /\ At("tui", "leaveRaw")
  /\ UNCHANGED <<given, tasks, terminal, wrote, exit>>

LeaveTerminal ==
  /\ \/ TerminalCall("leaveRaw", "leaveScreen", FALSE, alternate)
     \/ TerminalCall("leaveScreen", "end", raw, FALSE)
  /\ UNCHANGED <<given, wrote>>

Finish ==
  /\ exit = "none" /\ phase = "end" /\ UNCHANGED phase
  /\ \E result \in {"ok", "error"} : Return(result)
  /\ UNCHANGED <<given, terminal, wrote>>

\* A diagnostic is dispatched to the sinks.
SinkWrites(severity) ==
  /\ exit = "none" /\ "collector" \in running
  /\ "stdout" \in SinksOf(config) /\ severity >= MinSeverity(config, "stdout")
  /\ wrote' = wrote \cup {"sink"}
  /\ UNCHANGED <<given, phase, tasks, terminal, exit>>

Ended == exit # "none" /\ UNCHANGED vars

Next ==
  \/ LoadConfig \/ StartIngestion \/ StartRules \/ StartCore \/ StartSources
  \/ StartAnalysis \/ StartServers \/ AnswerOnStdout \/ StdioEnds \/ StartInterfaces
  \/ EnterTerminal \/ StartDisplay \/ Draw \/ TuiEnds \/ LeaveTerminal \/ Finish
  \/ \E severity \in 0 .. 2 : SinkWrites(severity)
  \/ \E t \in running : Leaves(t) \/ Fails(t)
  \/ Ended

Spec == Init /\ [][Next]_vars
-----------------------------------------------------------------------------
\* What the failure of a task may take with it.
Casualties(t) ==
  CASE t = "analyzer" -> {"collector", "consumer", "scraper", "prober"}
    [] t = "mcpSse" -> {"forwarder"}
    [] t = "ringReader" -> {"bridge"}
    [] OTHER -> {}

\* A server without its port, a rule file's engine, a metric source, the
\* analysis or the kernel's events may fail: the others go on, but for those
\* that only served the one that failed.  The graph updater and the executor
\* of approved actions never stop while the program runs.
FailureStaysLocal ==
  exit = "none" =>
    \A t \in started \ running : t \in failed \/ \E f \in failed : t \in Casualties(f)

\* Once the program has ended the terminal is as it was, whether the TUI
\* failed or not, if only the terminal did what it was told.
TerminalRestored == exit # "none" /\ ~refused => ~raw /\ ~alternate

\* "Stdout is exclusively owned by JSON-RPC" in the stdio mode.
StdoutIsJsonRpc == cli.mcpStdio => wrote \subseteq {"jsonrpc"}
=============================================================================
