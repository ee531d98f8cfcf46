---------------------------- MODULE Configuration ----------------------------
(***************************************************************************)
(* aether-config: what load makes of a configuration file.  A file has a   *)
(* form ("toml", "yaml", or one that cannot be loaded) and a content: a    *)
(* record of the sections that are written in it, each a record of the     *)
(* fields that are.  A text of the form "${NAME}" stands for an            *)
(* environment variable and is replaced before the file is parsed.         *)
(***************************************************************************)
EXTENDS Naturals, Sequences, TLC

CONSTANTS
  Variables,            \* the texts that refer to an environment variable
  Env                   \* those of them that are set, with their values

DiscoveryDefaults ==
  [enabled |-> TRUE, scan_ports |-> <<5432, 6379, 8080, 9090, 9200, 27017>>,
   kubernetes |-> FALSE, interval_seconds |-> 60]

ThresholdDefaults ==
  [throughput_drop_percent |-> 30, latency_p99_ms |-> 500, connection_pool_percent |-> 80,
   error_rate_percent |-> 5, tls_expiry_days |-> 30, health_check_timeout_ms |-> 5000]

ScrapeDefaults == [interval_seconds |-> 15, timeout_seconds |-> 5]
ProbeDefaults == [interval_seconds |-> 30, timeout_seconds |-> 5]
GrpcDefaults == [enabled |-> TRUE, bind |-> "0.0.0.0:50051"]

\* What a sink's section has when it is written at all.
SinkDefaults ==
  [slack |-> [severity |-> "warning"],
   discord |-> [severity |-> "warning"],
   telegram |-> [severity |-> "warning"],
   stdout |-> [enabled |-> TRUE, format |-> "json", severity |-> "info"],
   file |-> [severity |-> "info", max_size_mb |-> 100]]

\* An unset variable becomes the empty text.
Interpolate(text) ==
  IF text \notin Variables THEN text
  ELSE IF text \in DOMAIN Env THEN Env[text] ELSE ""

Target(written) == [field \in DOMAIN written |-> Interpolate(written[field])]

Section(content, name) == IF name \in DOMAIN content THEN content[name] ELSE [none \in {} |-> none]

\* AetherConfig as serde fills it in.
Parsed(content) ==
  LET targets == IF "targets" \in DOMAIN content THEN content.targets ELSE <<>>
      output == Section(content, "output")
      api == Section(content, "api")
  IN [discovery |-> Section(content, "discovery") @@ DiscoveryDefaults,
      targets |-> [i \in DOMAIN targets |-> Target(targets[i])],
      thresholds |-> Section(content, "thresholds") @@ ThresholdDefaults,
      output |-> [sink \in DOMAIN output |-> output[sink] @@ SinkDefaults[sink]],
      grpc |-> IF "grpc" \in DOMAIN api THEN api.grpc @@ GrpcDefaults
               ELSE [enabled |-> FALSE],
      scrape |-> Section(content, "scrape") @@ ScrapeDefaults,
      probe |-> Section(content, "probe") @@ ProbeDefaults]

\* validate: that is all it looks at; an interval may be zero.
Valid(config) ==
  /\ \A i \in DOMAIN config.targets : config.targets[i].name # ""
  /\ \A i \in DOMAIN config.discovery.scan_ports : config.discovery.scan_ports[i] # 0

\* AetherConfig::default, without a file.
DefaultConfig == Parsed([none \in {} |-> none])

Loads(file) == file.form \in {"toml", "yaml"} /\ Valid(Parsed(file.content))

\* A sink that is written but not enabled is left out; an unknown severity
\* is the lowest one.
Severity(text) == CASE text = "critical" -> 2 [] text = "warning" -> 1 [] OTHER -> 0

SinksOf(config) ==
  {sink \in DOMAIN config.output : sink = "stdout" => config.output.stdout.enabled}

MinSeverity(config, sink) == Severity(config.output[sink].severity)
=============================================================================
