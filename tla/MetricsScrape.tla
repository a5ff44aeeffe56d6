---------------------------- MODULE MetricsScrape ----------------------------
(***************************************************************************)
(* lsp/metrics/prometheus.py: which of the metrics the lab relies on can   *)
(* be read from a scrape of the server.  A metric has several names in     *)
(* different versions of vLLM, and a sample's name may go on behind it.    *)
(* Names are sequences of words, cut at the underscores.                   *)
(***************************************************************************)
EXTENDS SequencesExt

CONSTANT Scrapes    (* the scrapes: sets of lines                             *)

(* _EXPECTED_METRICS                                                         *)
ExpectedMetrics ==
  [ttft_seconds |-> {<<"vllm:time", "to", "first", "token", "seconds">>},
   time_per_output_token_seconds |->
     {<<"vllm:request", "time", "per", "output", "token", "seconds">>,
      <<"vllm:time", "per", "output", "token", "seconds">>},
   e2e_request_latency_seconds |-> {<<"vllm:e2e", "request", "latency", "seconds">>},
   requests_running |-> {<<"vllm:num", "requests", "running">>,
                         <<"vllm:requests", "running">>},
   queue_depth |-> {<<"vllm:num", "requests", "waiting">>, <<"vllm:requests", "waiting">>},
   gpu_cache_usage_perc |-> {<<"vllm:kv", "cache", "usage", "perc">>,
                             <<"vllm:gpu", "cache", "usage", "perc">>},
   request_success_total |-> {<<"vllm:request", "success">>,
                              <<"vllm:request", "success", "total">>}]

Metrics == DOMAIN ExpectedMetrics

(* A line is a sample of one of these metrics or of another, has a name, and *)
(* can be read or not: the parser passes over a line with a closing brace in *)
(* a label value, or whose value is no float.  The server may send nothing.  *)
ASSUME ScrapeAssumption ==
  /\ {} \in Scrapes
  /\ \A scrape \in Scrapes : \A line \in scrape :
       line.metric \in Metrics \cup {"other"} /\ line.readable \in BOOLEAN

(* seen_metric_names                                                         *)
SeenNames(scrape) == { line.name : line \in { l \in scrape : l.readable } }


(* _has_metric_family: the name itself, or one that goes on behind it with   *)
(* an underscore.                                                            *)
HasFamily(names, family) == \E name \in names : IsPrefix(family, name)

(* parse_prometheus_metrics: the metrics that get a row with missing=True,   *)
(* and so the official_metrics_missing of a probe and of a run.              *)
Missing(scrape) ==
  { m \in Metrics : \A family \in ExpectedMetrics[m] : ~HasFamily(SeenNames(scrape), family) }

=============================================================================
