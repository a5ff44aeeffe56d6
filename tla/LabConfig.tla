------------------------------ MODULE LabConfig ------------------------------
(***************************************************************************)
(* The parameters every module about a benchmark run shares.  A run is one *)
(* invocation of `lsp run`: a Python process with its backend config, its  *)
(* workload config and its run id.                                         *)
(***************************************************************************)
EXTENDS Naturals

CONSTANTS
  Runs,         (* the invocations of `lsp run` that share one machine       *)
  None,         (* "no run", "no process", "no file"                         *)
  NumRequests   (* request_count of the workload, the length of the replay   *)

(* request_count is checked by _ensure_positive_int before a run starts.     *)
ASSUME LabAssumption ==
  /\ None \notin Runs
  /\ NumRequests \in Nat \ {0}

=============================================================================
