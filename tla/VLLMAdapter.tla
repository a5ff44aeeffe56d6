----------------------------- MODULE VLLMAdapter -----------------------------
(***************************************************************************)
(* lsp/backends/vllm_adapter.py: the life of one VLLMAdapter per run.      *)
(* launch() starts the configured command, if there is one, and probes     *)
(* /health and /version until both answer or the deadline passes; submit() *)
(* and collect_metrics() are one HTTP exchange each; stop() terminates,    *)
(* then kills the process.  Every call that touches the host is an action  *)
(* of its own, so anything may happen between two of them.                 *)
(***************************************************************************)
EXTENDS ServingHost

CONSTANTS
  Spawn,      (* the runs whose config has launch.command                    *)
  MaxProbes   (* startup_timeout_seconds / healthcheck_interval_seconds: a   *)
              (* failed probe sleeps one interval, so no more fit            *)

ASSUME AdapterAssumption ==
  /\ Spawn \subseteq Runs
  /\ MaxProbes \in Nat \ {0}

VARIABLES
  apc,        (* apc[r]: where adapter r is, see AdapterStates               *)
  probes,     (* probes[r]: health probes launch() has begun                 *)
  lastError,  (* lastError[r]: the phase of last_error in launch()           *)
  raised,     (* raised[r]: the exception of an operation of r nobody has    *)
              (* handled                                                     *)
  handle,     (* handle[r]: self.process is not None                         *)
  answered,   (* answered[r]: completions received (len(responses))          *)
  servedBy    (* servedBy[r]: the processes that gave those completions      *)

adapterOnly == <<apc, probes, lastError, raised, handle, answered, servedBy>>
adapterVars == <<hostVars, adapterOnly>>

(* The phases of BackendLifecycleError.  "escaped" is any other exception.   *)
ProbePhases == {"healthcheck_failed", "launch_timeout", "invalid_json"}
Phases == ProbePhases \cup {"launch_process_exit", "request_failed", "metrics_failed"}

AdapterStates == {"fresh", "polling", "probing", "fetching", "ready",
                  "collected", "failed", "terminating", "killing",
                  "stopped", "stop_failed"}

AdapterTypeOK ==
  /\ HostTypeOK
  /\ apc \in [Runs -> AdapterStates]
  /\ probes \in [Runs -> 0..MaxProbes]
  /\ lastError \in [Runs -> ProbePhases \cup {"none"}]
  /\ raised \in [Runs -> Phases \cup {"none", "escaped"}]
  /\ handle \in [Runs -> BOOLEAN]
  /\ answered \in [Runs -> 0..NumRequests]
  /\ servedBy \in [Runs -> SUBSET Procs]

AdapterInit ==
  /\ HostInit
  /\ apc = [r \in Runs |-> "fresh"]
  /\ probes = [r \in Runs |-> 0]
  /\ lastError = [r \in Runs |-> "none"]
  /\ raised = [r \in Runs |-> "none"]
  /\ handle = [r \in Runs |-> FALSE]
  /\ answered = [r \in Runs |-> 0]
  /\ servedBy = [r \in Runs |-> {}]

-----------------------------------------------------------------------------
Goto(r, state) == apc' = [apc EXCEPT ![r] = state]

(* An operation of adapter r raises.                                         *)
Raise(r, phase) ==
  /\ Goto(r, "failed")
  /\ raised' = [raised EXCEPT ![r] = phase]

(* launch() is left, and its locals with it.                                 *)
LeaveLaunch(r) ==
  /\ probes' = [probes EXCEPT ![r] = 0]
  /\ lastError' = [lastError EXCEPT ![r] = "none"]

(* What healthcheck() raises for a reply, "none" if it returns.              *)
HealthError(reply) ==
  CASE reply = "accepted"                     -> "none"
    [] reply \in {"rejected", "non200",
                  "http_error"}               -> "healthcheck_failed"
    [] reply \in {"unreachable", "not_json"}  -> "launch_timeout"
    [] reply = "not_object"                   -> "invalid_json"
    [] reply = "dropped"                      -> "escaped"

(* What _fetch_runtime_metadata() raises: a failing /version is tolerated,   *)
(* one that answers with JSON that is not an object is not.                  *)
VersionError(reply) ==
  CASE reply = "not_object" -> "invalid_json"
    [] reply = "dropped"    -> "escaped"
    [] OTHER                -> "none"

SubmitError(reply) ==
  CASE reply = "accepted"   -> "none"
    [] reply = "not_object" -> "invalid_json"
    [] reply = "dropped"    -> "escaped"
    [] OTHER                -> "request_failed"

(* The scrape reads text, so any 200 body will do, except that one with a    *)
(* label that unicode_escape cannot decode escapes like a dropped reply.     *)
MetricsError(reply) ==
  CASE reply \in {"non200", "http_error", "unreachable"} -> "metrics_failed"
    [] reply = "dropped"                                 -> "escaped"
    [] OTHER                                             -> "none"

-----------------------------------------------------------------------------
(* launch(): Popen, which may itself raise OSError, before the loop.         *)
StartProcess(r) ==
  /\ r \in Spawn
  /\ proc' = [proc EXCEPT ![r] = "booting"]
  /\ handle' = [handle EXCEPT ![r] = TRUE]
  /\ Goto(r, "polling")
  /\ UNCHANGED raised

LaunchCall(r) ==
  /\ apc[r] = "fresh"
  /\ \/ StartProcess(r)
     \/ /\ r \in Spawn
        /\ Raise(r, "escaped")
        /\ UNCHANGED <<proc, handle>>
     \/ /\ r \notin Spawn
        /\ Goto(r, "polling")
        /\ UNCHANGED <<proc, handle, raised>>
  /\ UNCHANGED <<signal, bound, probes, lastError, answered, servedBy>>

(* What launch() raises once the deadline has passed.                        *)
TimeoutPhase(r) ==
  IF lastError[r] = "healthcheck_failed" THEN "healthcheck_failed" ELSE "launch_timeout"

(* The head of the loop finds the deadline passed ...                        *)
DeadlinePassed(r) ==
  /\ apc[r] = "polling"
  /\ Raise(r, TimeoutPhase(r))
  /\ LeaveLaunch(r)
  /\ UNCHANGED <<hostVars, handle, answered, servedBy>>

(* ... or the process it started gone ...                                    *)
ProcessGone(r) ==
  /\ apc[r] = "polling"
  /\ probes[r] < MaxProbes
  /\ handle[r]
  /\ ~Alive(r)
  /\ Raise(r, "launch_process_exit")
  /\ LeaveLaunch(r)
  /\ UNCHANGED <<hostVars, handle, answered, servedBy>>

(* A mutant of BeginProbe: the deadline is not looked at.                    *)
BeginProbeLate(r) ==
  /\ apc[r] = "polling"
  /\ handle[r] => Alive(r)
  /\ probes' = [probes EXCEPT ![r] = @ + 1]
  /\ Goto(r, "probing")
  /\ UNCHANGED <<hostVars, lastError, raised, handle, answered, servedBy>>

(* A mutant of BeginProbe: the deadline is set anew in every iteration.      *)
BeginProbeForever(r) ==
  /\ apc[r] = "polling"
  /\ handle[r] => Alive(r)
  /\ Goto(r, "probing")
  /\ UNCHANGED <<hostVars, probes, lastError, raised, handle, answered, servedBy>>

(* ... or goes on to probe.                                                  *)
BeginProbe(r) ==
  /\ apc[r] = "polling"
  /\ probes[r] < MaxProbes
  /\ handle[r] => Alive(r)
  /\ probes' = [probes EXCEPT ![r] = @ + 1]
  /\ Goto(r, "probing")
  /\ UNCHANGED <<hostVars, lastError, raised, handle, answered, servedBy>>

(* A lifecycle error of a probe becomes last_error, and the loop sleeps and  *)
(* starts over; any other exception leaves launch().                         *)
ProbeFailed(r, err) ==
  IF err = "escaped"
    THEN Raise(r, "escaped") /\ LeaveLaunch(r)
    ELSE /\ Goto(r, "polling")
         /\ lastError' = [lastError EXCEPT ![r] = err]
         /\ UNCHANGED <<probes, raised>>

HealthProbe(r) ==
  /\ apc[r] = "probing"
  /\ \E reply \in PossibleReplies :
       IF HealthError(reply) = "none"
         THEN Goto(r, "fetching") /\ UNCHANGED <<probes, lastError, raised>>
         ELSE ProbeFailed(r, HealthError(reply))
  /\ UNCHANGED <<hostVars, handle, answered, servedBy>>

VersionProbe(r) ==
  /\ apc[r] = "fetching"
  /\ \E reply \in PossibleReplies :
       IF VersionError(reply) = "none"
         THEN Goto(r, "ready") /\ LeaveLaunch(r) /\ UNCHANGED raised
         ELSE ProbeFailed(r, VersionError(reply))
  /\ UNCHANGED <<hostVars, handle, answered, servedBy>>

(* A mutant of Submit: a failed request is counted as done.                  *)
SubmitSkipsFailure(r) ==
  /\ apc[r] = "ready"
  /\ answered[r] < NumRequests
  /\ answered' = [answered EXCEPT ![r] = @ + 1]
  /\ \E reply \in PossibleReplies :
       servedBy' = IF SubmitError(reply) = "none"
                     THEN [servedBy EXCEPT ![r] = @ \cup {bound}] ELSE servedBy
  /\ UNCHANGED <<hostVars, apc, probes, lastError, raised, handle>>

Submit(r) ==
  /\ apc[r] = "ready"
  /\ answered[r] < NumRequests
  /\ \E reply \in PossibleReplies :
       IF SubmitError(reply) = "none"
         THEN /\ answered' = [answered EXCEPT ![r] = @ + 1]
              /\ servedBy' = [servedBy EXCEPT ![r] = @ \cup {bound}]
              /\ UNCHANGED <<apc, raised>>
         ELSE /\ Raise(r, SubmitError(reply))
              /\ UNCHANGED <<answered, servedBy>>
  /\ UNCHANGED <<hostVars, probes, lastError, handle>>

(* A mutant of CollectMetrics: the replay may break off.                     *)
CollectMetricsEarly(r) ==
  /\ apc[r] = "ready"
  /\ Goto(r, "collected")
  /\ UNCHANGED <<hostVars, probes, lastError, raised, handle, answered, servedBy>>

CollectMetrics(r) ==
  /\ apc[r] = "ready"
  /\ answered[r] = NumRequests
  /\ \E reply \in PossibleReplies :
       IF MetricsError(reply) = "none"
         THEN Goto(r, "collected") /\ UNCHANGED raised
         ELSE Raise(r, MetricsError(reply))
  /\ UNCHANGED <<hostVars, probes, lastError, handle, answered, servedBy>>

-----------------------------------------------------------------------------
(* stop(): nothing to do without a process, or with one that is gone;        *)
(* otherwise SIGTERM.                                                        *)
StopCall(r) ==
  /\ apc[r] \in {"fresh", "ready", "collected", "failed"}
  /\ IF handle[r] /\ Alive(r)
       THEN /\ signal' = [signal EXCEPT ![r] = "term"]
            /\ Goto(r, "terminating")
            /\ UNCHANGED handle
       ELSE /\ handle' = [handle EXCEPT ![r] = FALSE]
            /\ Goto(r, "stopped")
            /\ UNCHANGED signal
  /\ UNCHANGED <<proc, bound, probes, lastError, raised, answered, servedBy>>

(* wait(timeout=5) saw the process end.                                      *)
Reaped(r) ==
  /\ ~Alive(r)
  /\ handle' = [handle EXCEPT ![r] = FALSE]
  /\ Goto(r, "stopped")
  /\ UNCHANGED signal

WaitTerm(r) ==
  /\ apc[r] = "terminating"
  /\ \/ Reaped(r)
     \/ /\ Alive(r)
        /\ signal' = [signal EXCEPT ![r] = "kill"]
        /\ Goto(r, "killing")
        /\ UNCHANGED handle
  /\ UNCHANGED <<proc, bound, probes, lastError, raised, answered, servedBy>>

(* A mutant of WaitKill: the second TimeoutExpired is swallowed.             *)
WaitKillSwallowed(r) ==
  /\ apc[r] = "killing"
  /\ handle' = [handle EXCEPT ![r] = FALSE]
  /\ Goto(r, "stopped")
  /\ UNCHANGED <<hostVars, probes, lastError, raised, answered, servedBy>>

(* The wait after kill() has a timeout as well, and its TimeoutExpired       *)
(* leaves stop() with self.process still set.                                *)
WaitKill(r) ==
  /\ apc[r] = "killing"
  /\ \/ Reaped(r)
     \/ /\ Alive(r)
        /\ Goto(r, "stop_failed")
        /\ UNCHANGED <<signal, handle>>
  /\ UNCHANGED <<proc, bound, probes, lastError, raised, answered, servedBy>>

LaunchStep(r) ==
  \/ LaunchCall(r) \/ DeadlinePassed(r) \/ ProcessGone(r) \/ BeginProbe(r)
  \/ HealthProbe(r) \/ VersionProbe(r)
ServeStep(r) == LaunchStep(r) \/ Submit(r) \/ CollectMetrics(r)
StopStep(r) == StopCall(r) \/ WaitTerm(r) \/ WaitKill(r)

=============================================================================
