----------------------------- MODULE Discovery ------------------------------
(***************************************************************************)
(* Where the targets come from: the configuration (target_from_config), a  *)
(* scan of the ports of this host (aether-discovery: engine.rs, scanner.rs *)
(* and probe.rs), the Kubernetes API (kubernetes.rs), and how main merges  *)
(* what it finds.                                                          *)
(*                                                                         *)
(* A target is [id, name, kind, endpoints], an endpoint [type, url].  A    *)
(* port of the host is a number; what listens there is a function from     *)
(* paths to pages, a page a sequence of lines (Exposition).                *)
(***************************************************************************)
EXTENDS Integers, Sequences, TLC, SequencesExt, Exposition

Endpoint(type, url) == [type |-> type, url |-> url]
NoPath == "none"

\* build_known_patterns: the name and, for some, the path of the metrics.
Pattern(name, path) == [name |-> name, path |-> path]
KnownPatterns ==
  5432 :> Pattern("postgresql", NoPath) @@ 6379 :> Pattern("redis", NoPath) @@
  3306 :> Pattern("mysql", NoPath) @@ 27017 :> Pattern("mongodb", NoPath) @@
  9200 :> Pattern("elasticsearch", "/_prometheus/metrics") @@
  80 :> Pattern("nginx", NoPath) @@ 443 :> Pattern("nginx-tls", NoPath) @@
  9090 :> Pattern("prometheus", "/metrics") @@ 8080 :> Pattern("http-service", "/metrics")

\* Ports without a pattern that are asked for /metrics all the same.
GenericHttp == {8080, 9090, 3000, 4000}

MetricsPath(port) ==
  IF port \in DOMAIN KnownPatterns THEN KnownPatterns[port].path
  ELSE IF port \in GenericHttp THEN "/metrics" ELSE NoPath

\* known_service names the ports of the patterns only, so a port without a
\* pattern has no hint either.
ServiceName(port) ==
  IF port \in DOMAIN KnownPatterns THEN KnownPatterns[port].name ELSE <<"unknown", port>>

\* MetricsProbe::check: nothing listens, there is no such page, or it does
\* not have a line of help or of a type.
ServesMetrics(services, port, path) ==
  /\ port \in DOMAIN services
  /\ path \in DOMAIN services[port]
  /\ IsPrometheusFormat(services[port][path])

\* The target of an open port, with what the probe finds at this moment.
PortTarget(services, port) ==
  LET path == MetricsPath(port)
      probed == IF path # NoPath /\ ServesMetrics(services, port, path)
                THEN <<Endpoint("prometheus", <<port, path>>)>> ELSE <<>>
  IN [id |-> <<"disc", port>>, name |-> ServiceName(port), kind |-> "service",
      endpoints |-> <<Endpoint("tcp", port)>> \o probed]

\* The scan of the ports one after another: those that are open.
OpenPorts(services, ports) ==
  LET open[n \in 0 .. Len(ports)] ==
        IF n = 0 THEN <<>>
        ELSE IF ports[n] \in DOMAIN services THEN Append(open[n - 1], ports[n])
        ELSE open[n - 1]
  IN open[Len(ports)]

\* DiscoveryEngine::discover, when nothing changes meanwhile.
Discover(services, ports) ==
  LET open == OpenPorts(services, ports)
  IN [i \in DOMAIN open |-> PortTarget(services, open[i])]
-----------------------------------------------------------------------------
Optional(config, field, type) ==
  IF field \in DOMAIN config THEN <<Endpoint(type, config[field])>> ELSE <<>>

\* target_from_config: a kind that it does not know is a service.
TargetFromConfig(config) ==
  [id |-> <<"cfg", config.name>>, name |-> config.name,
   kind |-> IF "kind" \in DOMAIN config /\ config.kind \in {"container", "pod", "process"}
            THEN config.kind ELSE "service",
   endpoints |-> Optional(config, "prometheus", "prometheus") \o Optional(config, "health", "health")
                 \o Optional(config, "probe_tcp", "tcp") \o Optional(config, "logs", "logs")]

\* KubernetesDiscovery: every port of every container of a pod that has an
\* address, every port of a service under its DNS name, or that name alone.
KubernetesTarget(object) ==
  LET own(field, default) == IF field \in DOMAIN object THEN object[field] ELSE default
      name == own("name", "unknown")
      endpoints ==
        CASE object.kind = "pod" ->
               IF "ip" \notin DOMAIN object THEN <<>>
               ELSE [i \in DOMAIN own("ports", <<>>) |-> Endpoint("tcp", <<object.ip, object.ports[i]>>)]
          [] object.kind = "service" ->
               IF "ports" \notin DOMAIN object THEN <<Endpoint("tcp", <<name, "default port">>)>>
               ELSE [i \in DOMAIN object.ports |-> Endpoint("tcp", <<name, object.ports[i]>>)]
  IN [id |-> <<"k8s", object.kind, name>>, name |-> name, kind |-> object.kind,
      endpoints |-> IF own("spec", TRUE) THEN endpoints ELSE <<>>]

\* Both lists or, when one of the two requests fails, an error.
KubernetesDiscover(pods, svcs) ==
  IF pods = Unreachable \/ svcs = Unreachable THEN Unreachable
  ELSE [i \in DOMAIN (pods \o svcs) |-> KubernetesTarget((pods \o svcs)[i])]
-----------------------------------------------------------------------------
\* Mutant: a target that is found again is taken over as it is found now.
OrReplace(list, t) ==
  IF \E i \in DOMAIN list : list[i].id = t.id
  THEN [i \in DOMAIN list |-> IF list[i].id = t.id THEN t ELSE list[i]]
  ELSE Append(list, t)

\* A target with a new id is added; a known one stays as it was first seen.
WithTarget(list, t) ==
  IF \E i \in DOMAIN list : list[i].id = t.id THEN list ELSE Append(list, t)

\* merge_targets: the discovered targets are taken one after another.
MergeTargets(existing, discovered) ==
  LET merged[n \in 0 .. Len(discovered)] ==
        IF n = 0 THEN existing ELSE WithTarget(merged[n - 1], discovered[n])
  IN merged[Len(discovered)]
=============================================================================
