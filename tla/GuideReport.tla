----------------------------- MODULE GuideReport -----------------------------
(***************************************************************************)
(* lsp/m2_scaffolding.py, validate_guidellm_cross_check_artifact: what the *)
(* counters summed up from GuideLLM's benchmark.json must satisfy for a    *)
(* cross-check to count.  GuideLLM and its file are an input.              *)
(***************************************************************************)
EXTENDS Naturals

CONSTANT Counts     (* the values a counter of the report takes              *)

ASSUME CountsAssumption == Counts \subseteq Nat

Summaries == [created : Counts, processed : Counts, successful : Counts,
              errored : Counts, cancelled : Counts, successfulEntries : Counts,
              erroredEntries : Counts, incompleteEntries : Counts]

(* A mutant of Issues: incomplete entries are not looked at.                 *)
IssuesButIncomplete(s, n) ==
  { issue \in {"created", "processed", "entries", "component total", "failures"} :
      \/ issue = "created"         /\ n > 0 /\ s.created # n
      \/ issue = "processed"       /\ s.processed # s.created
      \/ issue = "entries"         /\ \/ s.successful # s.successfulEntries
                                      \/ s.errored # s.erroredEntries
      \/ issue = "component total" /\ s.processed # s.successful + s.errored + s.cancelled
      \/ issue = "failures"        /\ s.errored + s.cancelled # 0 }

(* Every comparison of the validator that fails adds an issue.               *)
Issues(s, n) ==
  { issue \in {"created", "processed", "successful entries", "errored entries",
               "component total", "errored", "cancelled", "incomplete"} :
      \/ issue = "created"            /\ n > 0 /\ s.created # n
      \/ issue = "processed"          /\ s.processed # s.created
      \/ issue = "successful entries" /\ s.successful # s.successfulEntries
      \/ issue = "errored entries"    /\ s.errored # s.erroredEntries
      \/ issue = "component total"
           /\ s.processed # s.successful + s.errored + s.cancelled
      \/ issue = "errored"            /\ s.errored # 0
      \/ issue = "cancelled"          /\ s.cancelled # 0
      \/ issue = "incomplete"         /\ s.incompleteEntries # 0 }

Verdict(s, n) == IF Issues(s, n) = {} THEN "passed" ELSE "artifact_incomplete"

-----------------------------------------------------------------------------
(* "must also close all expected requests cleanly" (the plan's notes): all   *)
(* requests the plan expects were made, every one of them succeeded and has  *)
(* its entry in the report, and the report has no other entries.             *)
Clean(s, n) ==
  /\ n > 0 => s.created = n
  /\ s.created = s.successful /\ s.successful = s.successfulEntries
  /\ s.processed = s.successful
  /\ s.errored = 0 /\ s.cancelled = 0
  /\ s.erroredEntries = 0 /\ s.incompleteEntries = 0

=============================================================================
