--------------------------- MODULE CrossCheckOutcome ---------------------------
(***************************************************************************)
(* What executions of the GuideLLM cross-check promise their callers,      *)
(* without tools, timeouts and files of others: an execution ends once,    *)
(* and leaves at most one record, with which its exit code agrees.         *)
(***************************************************************************)
EXTENDS Naturals

CONSTANTS Execs, None

VARIABLES
  ended,   (* ended[e]: how execution e ended                                *)
  exit,    (* exit[e]: the exit code it returned                             *)
  record   (* the last record that was left                                  *)

Init ==
  /\ ended = [e \in Execs |-> "open"]
  /\ exit = [e \in Execs |-> None]
  /\ record = None

(* The exit code says what the record says.  A tool that fails chooses its   *)
(* code itself, but never 0.                                                 *)
Agrees(status, code) ==
  \/ status = "completed" /\ code = 0
  \/ status \in {"artifact_invalid", "artifact_incomplete"} /\ code = 3
  \/ status = "timed_out" /\ code = 124
  \/ status = "failed" /\ code \in Nat \ {0}

End(e, how) == ended[e] = "open" /\ ended' = [ended EXCEPT ![e] = how]

(* Only an execution whose requests were all closed cleanly is completed.    *)
Return(e) ==
  /\ End(e, "returned")
  /\ \E status \in {"completed", "artifact_invalid", "artifact_incomplete",
                    "timed_out", "failed"} :
       /\ Agrees(status, exit'[e])
       /\ record' = [by |-> e, status |-> status, clean |-> status = "completed"]
  /\ exit' = [exit EXCEPT ![e] = exit'[e]]

(* The tool could not be started, and the record says so.                    *)
Refuse(e) ==
  /\ End(e, "raised")
  /\ \E status \in {"not_executable", "execution_error"} :
       record' = [by |-> e, status |-> status, clean |-> FALSE]
  /\ UNCHANGED exit

(* It ends without a record, and what others have recorded stays.            *)
Abandon(e) ==
  /\ End(e, "raised") \/ End(e, "killed")
  /\ UNCHANGED <<exit, record>>

Next == \E e \in Execs : Return(e) \/ Refuse(e) \/ Abandon(e)

Spec == Init /\ [][Next]_<<ended, exit, record>>

=============================================================================
