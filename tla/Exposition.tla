----------------------------- MODULE Exposition -----------------------------
(***************************************************************************)
(* What the metric sources make of what they are told: the Prometheus text *)
(* format (scrape/parser.rs, scraper.rs), the answers of a Prometheus      *)
(* server (consumer/client.rs), the outcomes of probes (aether-prober),    *)
(* and the key under which the store files a series (store.rs).            *)
(*                                                                         *)
(* A line of text is a record with its form: blank, comment, help or type  *)
(* of a metric, or a sample [name, labels, value]; a number that does not  *)
(* parse is Bad.  A label is [key, value, form], where the form tells what *)
(* is wrong with it.  A series is [name, labels, samples], labels a        *)
(* function.                                                               *)
(***************************************************************************)
EXTENDS Integers, Sequences, TLC, SequencesExt, FiniteSetsExt

Unreachable == <<[form |-> "unreachable"]>>    \* for a page or an answer
Bad == -999999          \* stands for text that is no number
Label(labels, key, default) == IF key \in DOMAIN labels THEN labels[key] ELSE default

\* What a filter lets through, in its order.
Kept(s, wanted) ==
  LET kept[n \in 0 .. Len(s)] ==
        IF n = 0 THEN <<>>
        ELSE IF s[n] \in wanted THEN Append(kept[n - 1], s[n]) ELSE kept[n - 1]
  IN  kept[Len(s)]

\* is_prometheus_format
IsPrometheusFormat(page) == \E i \in DOMAIN page : page[i].form \in {"help", "type"}

\* Of two pairs with one key the later counts; one without a key is left out.
LabelsOf(pairs) ==
  LET labels[n \in 0 .. Len(pairs)] ==
        IF n = 0 THEN <<>>
        ELSE IF pairs[n].key = "" THEN labels[n - 1]
        ELSE [k \in {pairs[n].key} \cup DOMAIN labels[n - 1] |->
                IF k = pairs[n].key THEN pairs[n].value ELSE labels[n - 1][k]]
  IN labels[Len(pairs)]

\* parse_labels: the pairs up to the first that is not closed or not quoted.
ParseLabels(pairs) ==
  LET broken == {i \in DOMAIN pairs : pairs[i].form # "quoted"}
  IN LabelsOf(IF broken = {} THEN pairs ELSE SubSeq(pairs, 1, Min(broken) - 1))

\* parse_sample_line fails without a name or a value.  The labels end at
\* the first closing brace: one inside a value makes the rest of the value
\* the number, which then does not parse.
SampleParses(line) ==
  /\ line.form = "sample"
  /\ line.name # ""
  /\ line.value # Bad
  /\ \A i \in DOMAIN line.labels : line.labels[i].form # "brace"

\* lookup_type and lookup_help: those of the latest such line, when it is
\* for this name or for the family that the name belongs to.
MetaOf(page, i, form, default) ==
  LET before == {k \in 1 .. i - 1 : page[k].form = form}
  IN IF before = {} THEN default
     ELSE LET meta == page[Max(before)]
          IN IF meta.name \in {page[i].name, page[i].family} THEN meta.text ELSE default

\* parse_prometheus_text
ParsePage(page) ==
  LET parsed == Kept([i \in DOMAIN page |-> i], {i \in DOMAIN page : SampleParses(page[i])})
      sample(i) == [name |-> page[i].name, labels |-> ParseLabels(page[i].labels),
                    value |-> page[i].value, type |-> MetaOf(page, i, "type", "untyped"),
                    help |-> MetaOf(page, i, "help", "none")]
  IN [k \in DOMAIN parsed |-> sample(parsed[k])]

\* scrape_endpoint: one sample in each series, labelled with the target.
ScrapedSeries(page, target) ==
  IF page = Unreachable THEN <<>>
  ELSE LET samples == ParsePage(page)
       IN [i \in DOMAIN samples |->
             [name |-> samples[i].name, labels |-> ("target" :> target) @@ samples[i].labels,
              samples |-> <<samples[i].value>>]]
-----------------------------------------------------------------------------
\* PrometheusConsumer::query: every result that has a number becomes a
\* series; __name__ names it and is no label of it.
QueriedSeries(response) ==
  LET numbers(r) == SelectSeq(IF "values" \in DOMAIN r THEN r.values
                              ELSE IF "value" \in DOMAIN r THEN <<r.value>> ELSE <<>>,
                              LAMBDA v : v # Bad)
      series(r) == [name |-> Label(r.metric, "__name__", "unknown"),
                    labels |-> [k \in (DOMAIN r.metric) \ {"__name__"} |-> r.metric[k]],
                    samples |-> numbers(r)]
  IN IF response = Unreachable THEN <<>>
     ELSE LET usable == SelectSeq(response, LAMBDA r : numbers(r) # <<>>)
          IN [i \in DOMAIN usable |-> series(usable[i])]
-----------------------------------------------------------------------------
\* What can come of a probe, and the status that it has then.
HttpCheck == "2xx" :> "ok" @@ "3xx or 4xx" :> "degraded" @@ "5xx" :> "failed" @@
             "no answer" :> "timeout" @@ "error" :> "failed"
TcpCheck == "connected" :> "ok" @@ "refused" :> "failed" @@ "no answer" :> "timeout"
DnsCheck == "addresses" :> "ok" @@ "no address" :> "failed" @@ "error" :> "failed" @@
            "no answer" :> "timeout"
TlsCheck == "answered" :> "ok" @@ "refused" :> "failed" @@ "no answer" :> "timeout" @@
            "bad certificate" :> "failed" @@ "no http" :> "degraded"

Checks == "health" :> HttpCheck @@ "tcp" :> TcpCheck @@ "dns" :> DnsCheck @@ "tls" :> TlsCheck

\* probe_result_to_metrics and collected_to_timeseries.
ProbedSeries(type, target, outcome) ==
  LET labels == [target |-> target, check_type |-> type]
      up == IF Checks[type][outcome] = "ok" THEN 1 ELSE 0
  IN << [name |-> "probe_latency_ms", labels |-> labels,
         samples |-> <<IF Checks[type][outcome] = "timeout" THEN "the timeout" ELSE "measured">>],
        [name |-> "probe_up", labels |-> labels, samples |-> <<up>>] >>
-----------------------------------------------------------------------------
\* ingest_remote files a series by host, pid and name; all other labels are
\* dropped.  0 stands for no pid, which one that is no number counts as.
StoreKey(series) ==
  <<Label(series.labels, "host", "local"), Label(series.labels, "pid", 0),
    Label(series.labels, "__name__", series.name)>>
=============================================================================
