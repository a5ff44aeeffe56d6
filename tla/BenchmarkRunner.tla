--------------------------- MODULE BenchmarkRunner ---------------------------
(***************************************************************************)
(* lsp/benchmark_runner.py under `lsp run` (lsp/cli/main.py): every run    *)
(* drives its adapter through the replay and writes one artifact bundle.   *)
(* The runs share the machine, the endpoint and the artifact tree, and     *)
(* interleave in any way; each may be killed at any point.                 *)
(***************************************************************************)
EXTENDS VLLMAdapter, ArtifactStore

CONSTANT DryRuns    (* the runs invoked with --dry-run                       *)

ASSUME RunnerAssumption == DryRuns \subseteq Runs

VARIABLES
  pc,       (* pc[c]: where run c is in run_benchmark                        *)
  exit      (* exit[c]: how the process of run c ended, or will end          *)

vars == <<adapterVars, storeVars, pc, exit>>

(* What the command line reports: exit code 0, 1 (BenchmarkRunFailed) or 2   *)
(* (ValidationError), an unhandled exception, or death by a signal.          *)
Exits == {"none", "ok", "failed", "refused", "traceback", "killed"}

TypeOK ==
  /\ AdapterTypeOK
  /\ StoreTypeOK
  /\ pc \in [Runs -> {"start", "serve", "save", "stop", "end"}]
  /\ exit \in [Runs -> Exits]

Init ==
  /\ AdapterInit
  /\ StoreInit
  /\ pc = [c \in Runs |-> "start"]
  /\ exit = [c \in Runs |-> "none"]

-----------------------------------------------------------------------------
Advance(c, place) == pc' = [pc EXCEPT ![c] = place]
ExitWith(c, how) == exit' = [exit EXCEPT ![c] = how]

DryBundle == [status |-> "success", responses |-> NumRequests, scraped |-> FALSE]
FailureBundle == [status |-> "failed", responses |-> 0, scraped |-> FALSE]
SuccessBundle(c) == [status |-> "success", responses |-> answered[c], scraped |-> TRUE]

(* run_benchmark up to its first side effect: a config that does not         *)
(* validate or lacks hardware metadata, a run directory that exists, or a    *)
(* git that fails ends the run here.                                         *)
RefuseRun(c) ==
  /\ pc[c] = "start"
  /\ Advance(c, "end")
  /\ \/ ExitWith(c, "refused")
     \/ /\ owner[Target[c]] = None
        /\ ExitWith(c, "traceback")
  /\ UNCHANGED <<adapterVars, storeVars>>

(* The run directory did not exist when the run looked.  A dry run makes its *)
(* rows up and goes on to write them.                                        *)
BeginDryRun(c) ==
  /\ pc[c] = "start"
  /\ c \in DryRuns
  /\ owner[Target[c]] = None
  /\ BeginBundle(c, DryBundle)
  /\ Advance(c, "save")
  /\ UNCHANGED <<adapterVars, exit>>

BeginRealRun(c) ==
  /\ pc[c] = "start"
  /\ c \notin DryRuns
  /\ owner[Target[c]] = None
  /\ Advance(c, "serve")
  /\ UNCHANGED <<adapterVars, storeVars, exit>>

(* launch, the replay and the scrape                                         *)
Serve(c) ==
  /\ pc[c] = "serve"
  /\ ServeStep(c)
  /\ UNCHANGED <<storeVars, pc, exit>>

RecordSuccess(c) ==
  /\ pc[c] = "serve"
  /\ apc[c] = "collected"
  /\ BeginBundle(c, SuccessBundle(c))
  /\ Advance(c, "save")
  /\ UNCHANGED <<adapterVars, exit>>

(* except BackendLifecycleError: what was measured so far is dropped and a   *)
(* failure artifact is written.                                              *)
RecordFailure(c) ==
  /\ pc[c] = "serve"
  /\ apc[c] = "failed"
  /\ raised[c] \in Phases
  /\ BeginBundle(c, FailureBundle)
  /\ raised' = [raised EXCEPT ![c] = "none"]
  /\ Advance(c, "save")
  /\ UNCHANGED <<hostVars, apc, probes, lastError, handle, answered, servedBy, exit>>

(* A mutant of Escape: no finally clause.                                    *)
EscapeWithoutFinally(c) ==
  /\ pc[c] = "serve"
  /\ apc[c] = "failed"
  /\ raised[c] \notin Phases
  /\ Advance(c, "end")
  /\ ExitWith(c, "traceback")
  /\ UNCHANGED <<adapterVars, storeVars>>

(* Any other exception goes through the finally clause only.                 *)
Escape(c) ==
  /\ pc[c] = "serve"
  /\ apc[c] = "failed"
  /\ raised[c] \notin Phases
  /\ Advance(c, "stop")
  /\ ExitWith(c, "traceback")
  /\ UNCHANGED <<adapterVars, storeVars>>

Save(c) ==
  /\ pc[c] = "save"
  /\ WriteStep(c)
  /\ UNCHANGED <<adapterVars, pc, exit>>

(* A mutant of SaveOutcome: a directory that is there counts as saved.       *)
SaveOutcomeIfThere(c) ==
  CASE wpc[c] \in {"published", "refused"} /\ bundle[c].status = "success" -> "ok"
    [] wpc[c] \in {"published", "refused"} /\ bundle[c].status = "failed"  -> "failed"
    [] wpc[c] = "rejected"                                                 -> "refused"
    [] OTHER                                                               -> "traceback"

(* A mutant of SaveOutcome: a failure artifact that cannot be written is     *)
(* passed over, and the failure is still reported by the code.               *)
SaveOutcomeUnwritten(c) ==
  CASE bundle[c].status = "failed" /\ wpc[c] # "rejected" -> "failed"
    [] wpc[c] = "published" /\ bundle[c].status = "success" -> "ok"
    [] wpc[c] = "rejected"                                  -> "refused"
    [] OTHER                                                -> "traceback"

(* How write_artifact_bundle and the return or raise behind it turn out.     *)
SaveOutcome(c) ==
  CASE wpc[c] = "published" /\ bundle[c].status = "success" -> "ok"
    [] wpc[c] = "published" /\ bundle[c].status = "failed"  -> "failed"
    [] wpc[c] = "rejected"                                  -> "refused"
    [] OTHER                                                -> "traceback"

(* A dry run is over; a real one still has its finally clause to run.        *)
Saved(c) ==
  /\ pc[c] = "save"
  /\ wpc[c] \in {"published", "refused", "rejected", "broken"}
  /\ ExitWith(c, SaveOutcome(c))
  /\ Advance(c, IF c \in DryRuns THEN "end" ELSE "stop")
  /\ UNCHANGED <<adapterVars, storeVars>>

(* finally: adapter.stop()                                                   *)
Stop(c) ==
  /\ pc[c] = "stop"
  /\ StopStep(c)
  /\ UNCHANGED <<storeVars, pc, exit>>

(* An exception of stop() replaces the result, whatever it was.              *)
Stopped(c) ==
  /\ pc[c] = "stop"
  /\ apc[c] \in {"stopped", "stop_failed"}
  /\ Advance(c, "end")
  /\ exit' = [exit EXCEPT ![c] = IF apc[c] = "stop_failed" THEN "traceback" ELSE @]
  /\ UNCHANGED <<adapterVars, storeVars>>

(* SIGKILL, out of memory, a lost machine: no finally clause runs.      *)
Kill(c) ==
  /\ pc[c] \in {"serve", "save", "stop"}
  /\ Advance(c, "end")
  /\ ExitWith(c, "killed")
  /\ UNCHANGED <<adapterVars, storeVars>>

RunStep(c) ==
  \/ RefuseRun(c) \/ BeginDryRun(c) \/ BeginRealRun(c)
  \/ Serve(c) \/ RecordSuccess(c) \/ RecordFailure(c) \/ Escape(c)
  \/ Save(c) \/ Saved(c) \/ Stop(c) \/ Stopped(c)

Host == HostStep /\ UNCHANGED <<adapterOnly, storeVars, pc, exit>>

Next == Host \/ \E c \in Runs : RunStep(c) \/ Kill(c)

Spec == Init /\ [][Next]_vars

(* The interpreter of a run goes on as long as it can.  Nothing is assumed   *)
(* of the servers, and nobody has to kill a run.                             *)
Fairness == \A c \in Runs : WF_vars(RunStep(c))

FairSpec == Spec /\ Fairness

-----------------------------------------------------------------------------
(* Where the parts of a run are in each place of run_benchmark.              *)
Phased(c) ==
  /\ pc[c] \in {"start", "serve"} => wpc[c] = "idle" /\ exit[c] = "none"
  /\ pc[c] = "save" => wpc[c] # "idle" /\ exit[c] = "none"
  /\ pc[c] = "start" \/ c \in DryRuns => apc[c] = "fresh"
  /\ pc[c] \in {"serve", "stop"} => c \notin DryRuns
  /\ wpc[c] = "idle" => bundle[c] = NoBundle

(* What an exit code says about the call of write_artifact_bundle.           *)
Reported(c) ==
  /\ exit[c] = "ok" => wpc[c] = "published" /\ bundle[c].status = "success"
  /\ exit[c] = "failed" => wpc[c] = "published" /\ bundle[c].status = "failed"
  /\ exit[c] = "refused" => wpc[c] = "idle"
  /\ exit[c] = "traceback" /\ wpc[c] = "published" => apc[c] = "stop_failed"
  /\ wpc[c] # "rejected"

(* What a bundle of status success says about the replay.                    *)
Backed(c) ==
  /\ answered[c] > 0 => servedBy[c] # {}
  /\ apc[c] = "collected" => answered[c] = NumRequests
  /\ bundle[c].status = "success" =>
       /\ bundle[c].responses = NumRequests
       /\ c \notin DryRuns => answered[c] = NumRequests /\ bundle[c].scraped

(* What the adapter knows about the process it started.                      *)
Handled(c) ==
  /\ Alive(c) => handle[c]
  /\ apc[c] = "fresh" => proc[c] = "absent"
  /\ apc[c] = "stopped" => ~Alive(c)
  /\ apc[c] \in {"killing", "stop_failed"} => signal[c] = "kill"
  /\ pc[c] = "end" /\ exit[c] # "killed" =>
       \/ apc[c] \in {"fresh", "stopped"}
       \/ apc[c] = "stop_failed" /\ exit[c] = "traceback"

(* The invariant behind the three claims below.                              *)
RunnerInv ==
  /\ StoreInv
  /\ \A c \in Runs : Phased(c) /\ Reported(c) /\ Backed(c) /\ Handled(c)

(* The exit code of `lsp run` and the artifact tree tell the same story.     *)
(* Code 0 or 1 is only returned when the run directory holds this run's own  *)
(* artifact with that verdict, whatever other runs with the same run id do;  *)
(* code 2 leaves no directory of this run behind; and a traceback disowns a  *)
(* finished artifact only when adapter.stop() failed after it was written.   *)
ExitMatchesArtifact ==
  \A c \in Runs :
    /\ exit[c] = "ok"      => Seen(Target[c]) = [by |-> c, state |-> "success"]
    /\ exit[c] = "failed"  => Seen(Target[c]) = [by |-> c, state |-> "failed"]
    /\ exit[c] = "refused" => owner[Target[c]] # c
    /\ exit[c] = "traceback" /\ wpc[c] = "published" => apc[c] = "stop_failed"

(* An artifact that reads as a success is backed by a whole replay: every    *)
(* request of the workload has its response and, unless it is a dry run's,   *)
(* the responses came from a server and the /metrics scrape is in it.        *)
SuccessIsBacked ==
  \A d \in Dirs : Seen(d).state = "success" =>
    LET w == owner[d] IN
      /\ bundle[w].responses = NumRequests
      /\ w \notin DryRuns =>
           answered[w] = NumRequests /\ servedBy[w] # {} /\ bundle[w].scraped

(* The finally clause does its work: a run that was not killed ends with its *)
(* server process gone.  The exception is a server that outlived the wait    *)
(* after SIGKILL, and then the run ends with a traceback, never with a code. *)
NoServerLeftBehind ==
  \A c \in Runs : pc[c] = "end" /\ exit[c] # "killed" /\ Alive(c) =>
    exit[c] = "traceback" /\ signal[c] = "kill"

(* No failure of a backend operation is passed over.  A run that has begun   *)
(* to work with its backend and came to no success never returns 0 or 2 and  *)
(* leaves nothing of its own that reads as a success.  Either its failure    *)
(* artifact is there, whatever stop() did after that; or the artifact was to *)
(* be written and could not be, which a traceback shows; or the exception    *)
(* was no BackendLifecycleError, and then there is a traceback and no file.  *)
FailureIsTold ==
  \A c \in Runs :
    pc[c] = "end" /\ exit[c] # "killed" /\ apc[c] # "fresh" /\ bundle[c].status # "success" =>
      /\ exit[c] \in {"failed", "traceback"}
      /\ Seen(Target[c]) # [by |-> c, state |-> "success"]
      /\ \/ raised[c] = "none" /\ Seen(Target[c]) = [by |-> c, state |-> "failed"]
         \/ raised[c] = "none" /\ exit[c] = "traceback" /\ wpc[c] \in {"refused", "broken"}
         \/ raised[c] = "escaped" /\ exit[c] = "traceback" /\ owner[Target[c]] # c

(* Every run comes to an end: the launch loop by its deadline, the replay    *)
(* by the length of the workload, stop() by its two bounded waits.           *)
RunEnds == \A c \in Runs : <>(pc[c] = "end")

(* A server that a run started does not stay: it ends by itself, or stop()   *)
(* goes as far as SIGKILL, unless the run was killed.                        *)
ServerReaped ==
  \A c \in Runs : Alive(c) ~> (~Alive(c) \/ signal[c] = "kill" \/ exit[c] = "killed")

(* "real-mode vLLM adapter path with ... failure artifacts" (README.md): no  *)
(* exception of a backend operation goes unrecorded, except when the run is  *)
(* killed.                                                                   *)
BackendFailureIsRecorded ==
  \A c \in Runs : pc[c] = "end" /\ exit[c] # "killed" => raised[c] = "none"

(* A run configured "to spawn and stop the server itself" (the notes of      *)
(* build_vllm_launch_plan) reports on that server.                           *)
MeasuresOwnServer ==
  \A c \in Spawn : exit[c] = "ok" => servedBy[c] \subseteq {c}

=============================================================================
