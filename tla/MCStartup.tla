------------------------------ MODULE MCStartup ------------------------------
(* Command lines with everything on, in the three ways of use, and files    *)
(* with an interval of zero, all sinks, or a fault that load must refuse;   *)
(* and, in behaviours of their own, the probes that --ebpf attaches.        *)
EXTENDS Startup, KernelEvents

Plain == [config |-> FALSE, mcpStdio |-> FALSE, mcpSse |-> FALSE, rules |-> FALSE,
          predict |-> FALSE, ebpf |-> FALSE, web |-> FALSE, noAnalyze |-> FALSE,
          metrics |-> FALSE, prometheus |-> FALSE, analyzeInterval |-> 5]
Full == [config |-> TRUE, mcpStdio |-> FALSE, mcpSse |-> TRUE, rules |-> TRUE,
         predict |-> TRUE, ebpf |-> TRUE, web |-> TRUE, noAnalyze |-> FALSE,
         metrics |-> TRUE, prometheus |-> TRUE, analyzeInterval |-> 0]

MCClis == {Plain, Full, [Full EXCEPT !.noAnalyze = TRUE, !.mcpSse = FALSE],
           [Full EXCEPT !.mcpStdio = TRUE, !.analyzeInterval = 5]}

MCVariables == {"${SERVICE}", "${HOST}"}
MCEnv == "${SERVICE}" :> "api"

File(form, content) == [form |-> form, content |-> content]
Named(name) == [targets |-> <<[name |-> name, health |-> "${HOST}"]>>]
Sinks == [stdout |-> [format |-> "text"], file |-> [path |-> "f"],
          slack |-> [webhook_url |-> "u", severity |-> "critical"]]

MCFiles == {
  File("toml", Named("${SERVICE}") @@ [scrape |-> [interval_seconds |-> 0],
                                       output |-> Sinks, api |-> [grpc |-> [enabled |-> TRUE]]]),
  File("yaml", [discovery |-> [enabled |-> TRUE, interval_seconds |-> 0],
                probe |-> [interval_seconds |-> 0],
                output |-> [stdout |-> [enabled |-> FALSE]]]),
  File("toml", Named("${HOST}")),
  File("yaml", [discovery |-> [scan_ports |-> <<80, 0>>]]),
  File("json", Named("x")) }

MCPrograms == <<"process", "net", "syscall">>
MCSockets == {"socket"}

VARIABLE part

\* The part that is not run stays at one initial state.
MCInit ==
  /\ KernelInit /\ Init
  /\ \/ part = "startup"
     \/ part = "kernel" /\ cli = Plain /\ file = File("json", Named("x"))

MCNext == \/ part = "startup" /\ Next /\ UNCHANGED <<part, eventVars>>
          \/ part = "kernel" /\ KernelNext /\ UNCHANGED <<part, vars>>

MCSpec == MCInit /\ [][MCNext]_<<part, vars, eventVars>>
=============================================================================
