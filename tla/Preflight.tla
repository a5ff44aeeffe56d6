------------------------------- MODULE Preflight -------------------------------
(***************************************************************************)
(* What happens to a backend and a workload config before and after the    *)
(* traffic, as the Makefile and lsp/cli/main.py string it together:        *)
(* `make reproduce RUN=m2-real` checks the readiness and then starts `lsp  *)
(* run`; `lsp run` alone does not.  The launch plan and the probe may be   *)
(* asked for before.  After the run the GuideLLM cross-check is planned,   *)
(* and the report of it is validated.  Every command loads the config      *)
(* anew.                                                                   *)
(***************************************************************************)
EXTENDS BackendSetup, MetricsScrape, WorkloadGenerator, GuideReport

CONSTANT Configs     (* the backend configs                                  *)

ASSUME PreflightAssumption ==
  Configs \subseteq Backends /\ None \notin Backends \cup Plans \cup URLs

VARIABLES
  via,        (* "make" reproduce, or the commands of "lsp" one by one       *)
  stage,      (* how far the commands have come                              *)
  backend,    (* the backend config, once loaded as it was resolved          *)
  tools,      (* the tools check-m2-readiness found                          *)
  plan,       (* the launch plan, if somebody asked for it                   *)
  scraped,    (* the lines a probe was sent                                  *)
  missing,    (* official_metrics_missing of the probe                       *)
  expected,   (* request_count of the cross-check plan, 0 before             *)
  summary,    (* the summary of benchmark.json                               *)
  verdict     (* the status of its validation                                *)

setupVars == <<backend, tools, plan>>
probeVars == <<scraped, missing>>
reportVars == <<expected, summary, verdict>>
vars == <<via, stage, setupVars, probeVars, genVars, reportVars>>

PreflightTypeOK ==
  /\ via \in {"make", "lsp"}
  /\ stage \in {"config", "loaded", "ready", "blocked", "probed", "running", "traffic",
                "planned", "validated", "refused"}
  /\ backend \in Backends \cup {None}
  /\ tools \in SUBSET Tools
  /\ plan \in Plans \cup {None}
  /\ scraped \in Scrapes
  /\ missing \in SUBSET Metrics
  /\ GenTypeOK
  /\ expected \in Nat
  /\ summary \in Summaries \cup {None}
  /\ verdict \in {"none", "passed", "artifact_incomplete"}

Init ==
  /\ via \in {"make", "lsp"}
  /\ stage = "config"
  /\ backend \in Configs
  /\ tools = {} /\ plan = None
  /\ scraped = {} /\ missing = {}
  /\ GenInit
  /\ expected = 0 /\ summary = None /\ verdict = "none"

-----------------------------------------------------------------------------
(* load_config and BackendConfig.from_dict; the first command to load the    *)
(* config rejects it, or all of them take it.                                *)
LoadBackend ==
  /\ stage = "config"
  /\ IF Accepts(backend)
       THEN stage' = "loaded" /\ backend' = Resolved(backend)
       ELSE stage' = "refused" /\ UNCHANGED backend
  /\ UNCHANGED <<via, tools, plan, probeVars, genVars, reportVars>>

(* render-vllm-launch                                                        *)
RenderLaunch ==
  /\ via = "lsp" /\ stage = "loaded"
  /\ CanPlan(backend)
  /\ plan' = LaunchPlan(backend)
  /\ UNCHANGED <<via, stage, backend, tools, probeVars, genVars, reportVars>>

(* check-m2-readiness, on a machine with some of the tools.  reproduce goes  *)
(* on only with exit code 0.                                                 *)
CheckReadiness ==
  /\ via = "make" /\ stage = "loaded"
  /\ \E found \in SUBSET Tools :
       /\ tools' = found
       /\ stage' = IF backend.kind # "vllm" \/ ~HardwareExplicit(backend) THEN "refused"
                   ELSE IF Blockers(backend, found) # {} THEN "blocked" ELSE "ready"
  /\ UNCHANGED <<via, backend, plan, probeVars, genVars, reportVars>>

(* probe-vllm-target, when the server answers; nothing follows it, so what   *)
(* it knew of the backend is let go.                                         *)
Probe ==
  /\ via = "lsp" /\ stage = "loaded"
  /\ CanAdapt(backend)
  /\ scraped' \in Scrapes
  /\ missing' = Missing(scraped')
  /\ stage' = "probed"
  /\ backend' = None /\ plan' = None
  /\ UNCHANGED <<via, tools, genVars, reportVars>>

(* `lsp run`: the hardware, the adapter and the workload config, before the  *)
(* first request is made up.                                                 *)
BeginRun ==
  /\ stage = IF via = "make" THEN "ready" ELSE "loaded"
  /\ \E w \in Workloads :
       IF HardwareExplicit(backend) /\ CanAdapt(backend) /\ AcceptsWorkload(w)
         THEN stage' = "running" /\ StartGeneration(w)
         ELSE stage' = "refused" /\ UNCHANGED genVars
  /\ UNCHANGED <<via, setupVars, probeVars, reportVars>>

Generate ==
  /\ stage = "running"
  /\ GenStep
  /\ UNCHANGED <<via, stage, setupVars, probeVars, reportVars>>

(* adapter.launch() and the first submit                                     *)
StartTraffic ==
  /\ stage = "running"
  /\ outcome = "generated"
  /\ stage' = "traffic"
  /\ UNCHANGED <<via, setupVars, probeVars, genVars, reportVars>>

(* build_guidellm_cross_check_plan makes the same requests again, from the   *)
(* seed, and counts them.  What the run knew is gone with its process.       *)
PlanCrossCheck ==
  /\ stage = "traffic"
  /\ expected' = Len(requests)
  /\ stage' = "planned"
  /\ backend' = None /\ tools' = {} /\ plan' = None
  /\ workload' = NoWorkload /\ requests' = <<>> /\ outcome' = "none"
  /\ UNCHANGED <<via, probeVars, summary, verdict>>

(* validate_guidellm_cross_check_artifact                                    *)
ValidateReport ==
  /\ stage = "planned"
  /\ summary' \in Summaries
  /\ verdict' = Verdict(summary', expected)
  /\ stage' = "validated"
  /\ UNCHANGED <<via, setupVars, probeVars, genVars, expected>>

Next ==
  \/ LoadBackend \/ RenderLaunch \/ CheckReadiness \/ Probe \/ BeginRun
  \/ Generate \/ StartTraffic \/ PlanCrossCheck \/ ValidateReport

Spec == Init /\ [][Next]_vars

-----------------------------------------------------------------------------
(* "The stable `make` entrypoint now runs check-m2-readiness first so [that] *)
(* placeholder Modal URLs ... and missing cross-check tooling fail before    *)
(* workload traffic starts" (README).                                        *)
ReproduceIsReady ==
  stage = "traffic" /\ via = "make" =>
    /\ EndpointRoot(backend) # "example" /\ backend.scrape.root # "example"
    /\ backend.hardware \notin {"absent", "placeholder"}
    /\ "guidellm" \in tools
    /\ backend.hardware = "modal" => {"modal", "modal_auth"} \subseteq tools

(* No traffic for a part of a workload: a rejection in the middle of the     *)
(* generation, or a crash, comes before the launch of the server.            *)
TrafficIsWholeWorkload ==
  stage = "traffic" => Len(requests) = workload.request_count

(* A launch plan and the adapter agree on whether there is a command to      *)
(* spawn, for every launch block that both take.  On the mode they agree     *)
(* only where attach_mode is not set: with "external" and a command the plan *)
(* says external and the adapter spawns.                                     *)
PlanMatchesLaunch ==
  stage \in {"running", "traffic"} /\ plan # None =>
    /\ plan.has_spawn_command <=> Spawns(backend)
    /\ plan.command = "command" <=> Spawns(backend)
    /\ backend.attach = "absent" => (plan.attach = "spawn" <=> Spawns(backend))


(* The eight comparisons of the validation accept exactly the reports whose  *)
(* every planned request was closed cleanly.                                 *)
PassedIffClean ==
  verdict # "none" => (verdict = "passed" <=> Clean(summary, expected))

=============================================================================
