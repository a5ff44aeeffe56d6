------------------------------ MODULE MCPreflight ------------------------------
(***************************************************************************)
(* Backend and workload configs around one that is good, each with a part  *)
(* of it varied in every way: the endpoint, the launch block, the          *)
(* hardware; the arrivals, the lengths and the prefixes.                   *)
(***************************************************************************)
EXTENDS Preflight

URL(root, path, slash) == [root |-> root, path |-> path, slash |-> slash, valid |-> TRUE]

GoodBackend ==
  [kind |-> "vllm", sound |-> TRUE,
   base |-> URL("endpoint", "", TRUE), local |-> "none",
   scrape |-> URL("endpoint", "/metrics", FALSE),
   command |-> "absent", template |-> "strings", attach |-> "absent",
   settings |-> TRUE, hardware |-> "machine"]

EndpointChoices ==
  { [GoodBackend EXCEPT !.base = u, !.local = l, !.scrape = s] :
      u \in [root : {"example", "endpoint"}, path : {"", "/v1"}, slash : BOOLEAN,
             valid : BOOLEAN] \cup {None},
      l \in {"none", "partial", "full"},
      s \in [root : {"example", "endpoint", "local"}, path : {"", "/v1", "/metrics"},
             slash : BOOLEAN, valid : {TRUE}] \cup {None} }

LaunchChoices ==
  { [GoodBackend EXCEPT !.command = c, !.template = t, !.attach = a, !.settings = s] :
      c \in Lists, t \in {"absent", "strings", "mixed", "scalar"},
      a \in {"absent", "external", "spawn", "other"}, s \in BOOLEAN }

OtherChoices ==
  { [GoodBackend EXCEPT !.kind = k, !.sound = s, !.hardware = h] :
      k \in {"vllm", "sglang", "other"}, s \in BOOLEAN,
      h \in {"absent", "malformed", "placeholder", "modal", "machine"} }

MCConfigs == EndpointChoices \cup LaunchChoices \cup OtherChoices

GoodWorkload ==
  [kind |-> "synthetic", sound |-> TRUE, request_count |-> 2,
   arrival |-> [pattern |-> "poisson", numbers |-> "positive",
                burst_every |-> 1, burst_duration |-> 1],
   lengths |-> {"good"},
   prefix |-> [enabled |-> "no", probability |-> "less", pool |-> 2]]

(* Two ticks to the second: bursts every 0.5 to 2.5 s, of 0.5 to 1.5 s or    *)
(* longer than their period.                                                 *)
Bursts ==
  { [GoodWorkload EXCEPT !.request_count = 4,
                         !.arrival = [pattern |-> "bursty_poisson", numbers |-> n,
                                      burst_every |-> e, burst_duration |-> d]] :
      n \in {"positive", "unusable"}, e \in {1, 2, 4, 5, 6}, d \in {1, 2, 3, 4, 8} }

Sharings ==
  { [GoodWorkload EXCEPT !.request_count = 3, !.prefix.enabled = e,
                         !.prefix.probability = p, !.prefix.pool = n] :
      e \in {"yes", "no", "invalid"}, p \in {"one", "less", "invalid", "huge"},
      n \in 0 .. 2 }

(* Only a mixture can be refused for some of its draws.                      *)
OtherWorkloads ==
  LET Varied == { [GoodWorkload EXCEPT !.kind = k, !.sound = s, !.request_count = c,
                                       !.arrival.pattern = p, !.arrival.numbers = n,
                                       !.lengths = l] :
                    k \in {"synthetic", "workload_shaped", "other"}, s \in BOOLEAN,
                    c \in {0, 2}, p \in {"poisson", "other"},
                    n \in {"positive", "invalid", "unusable"},
                    l \in SUBSET Ends \ {{}} }
  IN  { w \in Varied : w.kind = "synthetic" /\ "refused" \in w.lengths =>
                         w.lengths = {"refused"} }

MCWorkloads == Bursts \cup Sharings \cup OtherWorkloads

(* Every metric under each of its names, by itself or as a histogram's       *)
(* bucket, and other metrics whose names begin like one of these.            *)
ScrapeLines ==
  UNION { { [metric |-> m, name |-> family \o ending, readable |-> r] :
              family \in ExpectedMetrics[m], ending \in {<<>>, <<"bucket">>},
              r \in BOOLEAN } : m \in Metrics }
    \cup { [metric |-> "other", name |-> n, readable |-> TRUE] :
              n \in {<<"vllm:num", "requests", "swapped">>, <<"vllm:request", "prompt">>,
                     <<"vllm:time", "to", "first">>} }

(* Two lines of one metric, or one beside another metric's.                  *)
MCScrapes ==
  {{}} \cup { {pair[1], pair[2]} :
               pair \in { p \in ScrapeLines \X ScrapeLines :
                           p[2].metric \in {p[1].metric, "other"} } }

=============================================================================
