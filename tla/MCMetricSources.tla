--------------------------- MODULE MCMetricSources --------------------------
(***************************************************************************)
(* Two configured pages of one name, of which one is gone, a service on a  *)
(* scanned port that is there or not, a channel for one batch.             *)
(***************************************************************************)
EXTENDS MetricSources

Line(form, name, text) == [form |-> form, name |-> name, text |-> text]
SampleLine(name, labels, value) ==
  [form |-> "sample", name |-> name, family |-> name, labels |-> labels, value |-> value]
Quoted(key, value) == [key |-> key, value |-> value, form |-> "quoted"]

MetricsPage == <<
  Line("help", "up", "text"), Line("type", "up", "gauge"),
  SampleLine("up", <<Quoted("pid", 7)>>, 1),
  SampleLine("up", <<[key |-> "path", value |-> "a}b", form |-> "brace"]>>, 1),
  SampleLine("load", <<Quoted("pid", 7), [key |-> "x", value |-> "y", form |-> "unquoted"]>>, Bad) >>

MCConfig == << [name |-> "api", prometheus |-> <<3001, "/m">>],
               [name |-> "api", kind |-> "pod", prometheus |-> <<3000, "/m">>] >>
MCPorts == <<8080>>
OwnPage == 3000 :> ("/m" :> MetricsPage)
MCServices == {OwnPage, OwnPage @@ 8080 :> ("/metrics" :> MetricsPage)}
MCResponses == {
  << [metric |-> [job |-> "node"], values |-> <<Bad, 4>>],
     [metric |-> [job |-> "node", host |-> "other"], value |-> Bad] >> }

\* What the parser and the cluster's discovery yield on a few inputs.
ASSUME ParsePage(MetricsPage) =
  <<[name |-> "up", labels |-> "pid" :> 7, value |-> 1, type |-> "gauge", help |-> "text"]>>
ASSUME
  LET pod == [kind |-> "pod", name |-> "p", ip |-> "ip", ports |-> <<80, 443>>]
      pending == [kind |-> "pod", name |-> "q", ports |-> <<80>>]
      headless == [kind |-> "service", name |-> "s"]
  IN /\ KubernetesDiscover(<<pod>>, Unreachable) = Unreachable
     /\ LET found == KubernetesDiscover(<<pod, pending>>, <<headless>>)
        IN [i \in DOMAIN found |-> Len(found[i].endpoints)] = <<2, 0, 1>>
=============================================================================
