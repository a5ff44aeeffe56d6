------------------------------ MODULE CrossCheck ------------------------------
(***************************************************************************)
(* lsp/m2_scaffolding.py, execute_guidellm_cross_check: executions of the  *)
(* external GuideLLM tool, each in a session (process group) of its own,   *)
(* all writing to one output directory, artifacts/<run_id>/guidellm.  An   *)
(* execution waits for the tool with a timeout, terminates it when it is   *)
(* late, validates the tool's report and leaves a record.  The M3 report   *)
(* (lsp/reporting/m3.py) reads the directory at any time.                  *)
(*                                                                         *)
(* The tool is external.  Its leader is the process the execution started; *)
(* a worker is a child of it in the same group, which may have inherited   *)
(* the output pipes (piped) or not (detached).                             *)
(***************************************************************************)
EXTENDS Naturals

CONSTANTS Execs, None

VARIABLES
  xpc,      (* xpc[e]: where execution e is                                  *)
  leader,   (* leader[e]: the tool's first process                           *)
  worker,   (* worker[e]: the leader's child                                 *)
  code,     (* code[e]: the exit code of the leader                          *)
  sent,     (* sent[e]: the strongest signal sent to the group               *)
  verdict,  (* verdict[e]: what the validation of the report came to         *)
  plan,     (* repo_cross_check_plan.json: the execution that wrote it       *)
  report,   (* benchmark.json: who wrote it and how good it is               *)
  csv,      (* benchmark.csv exists                                          *)
  record,   (* repo_cross_check_execution.json                               *)
  ret       (* ret[e]: the exit code of execution e                          *)

toolVars == <<leader, worker, code>>
fileVars == <<plan, report, csv, record>>
vars == <<xpc, toolVars, sent, verdict, fileVars, ret>>

(* A report that sums up to a clean or an unclean replay, one that is not a  *)
(* GuideLLM report, and one that is not even UTF-8.                          *)
Qualities == {"clean", "unclean", "junk", "undecodable"}
Reports == [by : Execs, quality : Qualities]

(* A verdict: its status, and the summary of the report if it has one.       *)
NoVerdict == [status |-> "none", summary |-> None]
Verdicts == [status : {"none", "artifact_invalid", "passed", "artifact_incomplete"},
             summary : Reports \cup {None}]

Statuses == {"not_executable", "execution_error", "timed_out", "failed", "completed",
             "artifact_invalid", "artifact_incomplete"}
Records == [by : Execs, status : Statuses, summary : Reports \cup {None}]

ASSUME CrossCheckAssumption == None \notin Execs /\ None \notin Records

TypeOK ==
  /\ xpc \in [Execs -> {"idle", "planned", "communicating", "terminating", "killing",
                        "timed_out", "exited", "validated", "done", "raised", "killed"}]
  /\ leader \in [Execs -> {"absent", "running", "gone"}]
  /\ worker \in [Execs -> {"absent", "piped", "detached", "gone"}]
  /\ code \in [Execs -> {0, 1}]
  /\ sent \in [Execs -> {"none", "term", "kill"}]
  /\ verdict \in [Execs -> Verdicts]
  /\ plan \in Execs \cup {None}
  /\ report \in Reports \cup {None}
  /\ csv \in BOOLEAN
  /\ record \in Records \cup {None}
  /\ ret \in [Execs -> {0, 1, 3, 124, None}]

Init ==
  /\ xpc = [e \in Execs |-> "idle"]
  /\ leader = [e \in Execs |-> "absent"]
  /\ worker = [e \in Execs |-> "absent"]
  /\ code = [e \in Execs |-> 0]
  /\ sent = [e \in Execs |-> "none"]
  /\ verdict = [e \in Execs |-> NoVerdict]
  /\ plan = None
  /\ report = None
  /\ csv = FALSE
  /\ record = None
  /\ ret = [e \in Execs |-> None]

-----------------------------------------------------------------------------
Goto(e, place) == xpc' = [xpc EXCEPT ![e] = place]
Record(e, status, summary) ==
  record' = [by |-> e, status |-> status, summary |-> summary]

(* mkdir(exist_ok=True): a directory with old files in it will do.           *)
Prepare(e) ==
  /\ xpc[e] = "idle"
  /\ plan' = e
  /\ Goto(e, "planned")
  /\ UNCHANGED <<toolVars, sent, verdict, report, csv, record, ret>>

(* shutil.which finds no tool, or Popen raises OSError: both leave a record  *)
(* and an exception.                                                         *)
ToolUnusable(e) ==
  /\ xpc[e] = "planned"
  /\ \E status \in {"not_executable", "execution_error"} : Record(e, status, None)
  /\ Goto(e, "raised")
  /\ UNCHANGED <<toolVars, sent, verdict, plan, report, csv, ret>>

StartTool(e) ==
  /\ xpc[e] = "planned"
  /\ leader' = [leader EXCEPT ![e] = "running"]
  /\ Goto(e, "communicating")
  /\ UNCHANGED <<worker, code, sent, verdict, fileVars, ret>>

(* A mutant of CommunicateReturns: closed pipes are taken for the end.       *)
CommunicateReturnsEarly(e) ==
  /\ xpc[e] = "communicating"
  /\ Goto(e, "exited")
  /\ UNCHANGED <<toolVars, sent, verdict, fileVars, ret>>

(* communicate() returns when the leader is gone and no process holds the    *)
(* pipes any more ...                                                        *)
CommunicateReturns(e) ==
  /\ xpc[e] = "communicating"
  /\ leader[e] = "gone"
  /\ worker[e] # "piped"
  /\ Goto(e, "exited")
  /\ UNCHANGED <<toolVars, sent, verdict, fileVars, ret>>

(* A mutant of TimeoutExpired: only a running tool is timed out.             *)
TimeoutExpiredIfRunning(e) ==
  /\ xpc[e] = "communicating"
  /\ leader[e] = "running"
  /\ Goto(e, "terminating")
  /\ sent' = [sent EXCEPT ![e] = "term"]
  /\ UNCHANGED <<toolVars, verdict, fileVars, ret>>

(* ... or the timeout expires, and _terminate_process_group sends SIGTERM to *)
(* the group, unless poll() finds the leader gone.                           *)
TimeoutExpired(e) ==
  /\ xpc[e] = "communicating"
  /\ IF leader[e] = "gone"
       THEN Goto(e, "timed_out") /\ UNCHANGED sent
       ELSE Goto(e, "terminating") /\ sent' = [sent EXCEPT ![e] = "term"]
  /\ UNCHANGED <<toolVars, verdict, fileVars, ret>>

WaitTerm(e) ==
  /\ xpc[e] = "terminating"
  /\ IF leader[e] = "gone"
       THEN Goto(e, "timed_out") /\ UNCHANGED sent
       ELSE Goto(e, "killing") /\ sent' = [sent EXCEPT ![e] = "kill"]
  /\ UNCHANGED <<toolVars, verdict, fileVars, ret>>

(* A mutant of WaitKill: its TimeoutExpired is swallowed.                    *)
WaitKillSwallowed(e) ==
  /\ xpc[e] = "killing"
  /\ Goto(e, "timed_out")
  /\ UNCHANGED <<toolVars, sent, verdict, fileVars, ret>>

(* The second wait may time out too; then there is no record.                *)
WaitKill(e) ==
  /\ xpc[e] = "killing"
  /\ Goto(e, IF leader[e] = "gone" THEN "timed_out" ELSE "raised")
  /\ UNCHANGED <<toolVars, sent, verdict, fileVars, ret>>

(* A mutant of RecordTimeout: without `return 124` the function goes on as   *)
(* for a tool that has ended in time, and records that too.                  *)
RecordTimeoutGoesOn(e) ==
  /\ xpc[e] = "timed_out"
  /\ Record(e, "timed_out", None)
  /\ Goto(e, "exited")
  /\ UNCHANGED <<toolVars, sent, verdict, plan, report, csv, ret>>

(* A mutant of RecordTimeout: the code of the terminated tool is returned.   *)
RecordTimeoutSignalCode(e) ==
  /\ xpc[e] = "timed_out"
  /\ Record(e, "timed_out", None)
  /\ ret' = [ret EXCEPT ![e] = 143]
  /\ Goto(e, "done")
  /\ UNCHANGED <<toolVars, sent, verdict, plan, report, csv>>

RecordTimeout(e) ==
  /\ xpc[e] = "timed_out"
  /\ Record(e, "timed_out", None)
  /\ ret' = [ret EXCEPT ![e] = 124]
  /\ Goto(e, "done")
  /\ UNCHANGED <<toolVars, sent, verdict, plan, report, csv>>

(* Missing files are noticed before the report is decoded; a report that is  *)
(* not UTF-8 raises an exception the validation does not expect.             *)
Readable == ~(report # None /\ csv /\ report.quality = "undecodable")

(* A mutant of Validation: the counters are not looked at.                   *)
ValidationOfShape ==
  IF report = None \/ ~csv \/ report.quality = "junk"
    THEN [status |-> "artifact_invalid", summary |-> None]
    ELSE [status |-> "passed", summary |-> report]

(* validate_guidellm_cross_check_artifact on what the directory holds now.   *)
Validation ==
  IF report = None \/ ~csv THEN [status |-> "artifact_invalid", summary |-> None]
  ELSE CASE report.quality = "junk"    -> [status |-> "artifact_invalid", summary |-> None]
         [] report.quality = "clean"   -> [status |-> "passed", summary |-> report]
         [] report.quality = "unclean" -> [status |-> "artifact_incomplete",
                                           summary |-> report]

ValidateOutput(e) ==
  /\ xpc[e] = "exited"
  /\ code[e] = 0
  /\ Readable
  /\ verdict' = [verdict EXCEPT ![e] = Validation]
  /\ Goto(e, "validated")
  /\ UNCHANGED <<toolVars, sent, fileVars, ret>>

(* The record of an execution whose tool ended in time.                      *)
RecordExit(e) ==
  /\ \/ /\ xpc[e] = "exited"
        /\ code[e] # 0
        /\ Record(e, "failed", None)
        /\ ret' = [ret EXCEPT ![e] = code[e]]
     \/ /\ xpc[e] = "validated"
        /\ IF verdict[e].status = "passed"
             THEN /\ Record(e, "completed", verdict[e].summary)
                  /\ ret' = [ret EXCEPT ![e] = 0]
             ELSE /\ Record(e, verdict[e].status, verdict[e].summary)
                  /\ ret' = [ret EXCEPT ![e] = 3]
  /\ Goto(e, "done")
  /\ UNCHANGED <<toolVars, sent, verdict, plan, report, csv>>

(* What no handler is prepared for: the output of the tool or its report is  *)
(* not UTF-8, or a file of the repository's own cannot be written.           *)
LeaveUnrecorded(e) ==
  /\ xpc[e] \in {"exited", "validated", "timed_out"}
  /\ Goto(e, "raised")
  /\ UNCHANGED <<toolVars, sent, verdict, fileVars, ret>>

RepoStep(e) ==
  \/ Prepare(e) \/ ToolUnusable(e) \/ StartTool(e)
  \/ CommunicateReturns(e) \/ TimeoutExpired(e) \/ WaitTerm(e) \/ WaitKill(e)
  \/ RecordTimeout(e) \/ ValidateOutput(e) \/ RecordExit(e)
  \/ LeaveUnrecorded(e)

(* The process of an execution is killed.  The tool has a session of its own *)
(* and does not notice.                                                      *)
Kill(e) ==
  /\ xpc[e] \notin {"idle", "done", "raised", "killed"}
  /\ Goto(e, "killed")
  /\ UNCHANGED <<toolVars, sent, verdict, fileVars, ret>>

-----------------------------------------------------------------------------
(* The tool: it may start a worker, writes its two files or not, and its     *)
(* processes end on their own or because of a signal.                        *)
ToolForks(e) ==
  /\ leader[e] = "running"
  /\ worker[e] = "absent"
  /\ \E kind \in {"piped", "detached"} : worker' = [worker EXCEPT ![e] = kind]
  /\ UNCHANGED <<xpc, leader, code, sent, verdict, fileVars, ret>>

ToolWritesReport(e) ==
  /\ leader[e] = "running"
  /\ \E q \in Qualities : report' = [by |-> e, quality |-> q]
  /\ UNCHANGED <<xpc, toolVars, sent, verdict, plan, csv, record, ret>>

ToolWritesCsv(e) ==
  /\ leader[e] = "running"
  /\ csv' = TRUE
  /\ UNCHANGED <<xpc, toolVars, sent, verdict, plan, report, record, ret>>

LeaderExits(e) ==
  /\ leader[e] = "running"
  /\ leader' = [leader EXCEPT ![e] = "gone"]
  /\ \E c \in {0, 1} : code' = [code EXCEPT ![e] = c]
  /\ UNCHANGED <<xpc, worker, sent, verdict, fileVars, ret>>

WorkerExits(e) ==
  /\ worker[e] \in {"piped", "detached"}
  /\ worker' = [worker EXCEPT ![e] = "gone"]
  /\ UNCHANGED <<xpc, leader, code, sent, verdict, fileVars, ret>>

ToolStep(e) ==
  \/ ToolForks(e) \/ ToolWritesReport(e) \/ ToolWritesCsv(e)
  \/ LeaderExits(e) \/ WorkerExits(e)

Next == \E e \in Execs : RepoStep(e) \/ Kill(e) \/ ToolStep(e)

Spec == Init /\ [][Next]_vars

(* Nothing is assumed of the tool; the repository's own process runs.        *)
FairSpec == Spec /\ \A e \in Execs : WF_vars(RepoStep(e))

-----------------------------------------------------------------------------
Clean(summary) == summary # None /\ summary.quality = "clean"

(* Where an execution is and what that says about its tool.                  *)
ExecutionInv(e) ==
  /\ xpc[e] \in {"idle", "planned"} => leader[e] = "absent" /\ worker[e] = "absent"
  /\ xpc[e] \in {"exited", "validated"} => leader[e] = "gone" /\ worker[e] # "piped"
  /\ xpc[e] = "validated" => code[e] = 0 /\ verdict[e].status # "none"
  /\ xpc[e] = "timed_out" => leader[e] = "gone"
  /\ xpc[e] \in {"communicating", "terminating", "killing"} => leader[e] # "absent"
  /\ verdict[e].status = "passed" <=> Clean(verdict[e].summary)

(* A record of status "completed" was earned: the tool it names ended with   *)
(* code 0, nothing of it still writes to the pipes, and the report that was  *)
(* validated closed every request cleanly; only then does the command end    *)
(* with code 0.                                                              *)
CompletedIsVerified ==
  record # None /\ record.status = "completed" =>
    /\ Clean(record.summary)
    /\ leader[record.by] = "gone" /\ code[record.by] = 0
    /\ worker[record.by] # "piped"

(* A record of status "timed_out" is written after the tool process has been *)
(* seen to end; a tool that survives SIGKILL gets no record.                 *)
TimedOutToolIsGone ==
  record # None /\ record.status = "timed_out" => leader[record.by] = "gone"

(* How the executions end, and what the record in the directory says.        *)
Ended == [e \in Execs |->
            CASE xpc[e] = "done" -> "returned"
              [] xpc[e] \in {"raised", "killed"} -> xpc[e]
              [] xpc[e] \notin {"done", "raised", "killed"} -> "open"]
Recorded == IF record = None THEN None
            ELSE [by |-> record.by, status |-> record.status,
                  clean |-> Clean(record.summary)]

Outcome == INSTANCE CrossCheckOutcome
             WITH ended <- Ended, exit <- ret, record <- Recorded

(* Every execution ends once, leaves one record at most, and its exit code   *)
(* says what that record says: 0 only for a cross-check whose report closed  *)
(* all requests cleanly ("a zero exit code [of the tool is] insufficient     *)
(* proof by itself", the plan's notes).  An execution that has returned      *)
(* leaves the record of a later one alone.                                   *)
OutcomeSpec == Outcome!Spec

(* What the two claims above rest on.                                        *)
CrossCheckInv ==
  /\ \A e \in Execs : ExecutionInv(e)
  /\ CompletedIsVerified
  /\ TimedOutToolIsGone

(* An execution ends whatever the tool does: a tool that hangs, ignores      *)
(* SIGTERM or leaves a worker on the pipes is given up after the timeout.    *)
CrossCheckEnds ==
  \A e \in Execs : xpc[e] # "idle" ~> xpc[e] \in {"done", "raised", "killed"}

(* "the saved GuideLLM artifact must also close all expected requests        *)
(* cleanly" (the plan's notes): the report that a completed execution has    *)
(* validated is the one its own tool has written.                            *)
CompletedIsFresh ==
  record # None /\ record.status = "completed" => record.summary.by = record.by

(* "the repo terminated the local process group" (the failure reason of a    *)
(* timed_out record): the worker that has kept communicate() waiting, since  *)
(* it holds the output pipes, has been sent a signal.                        *)
TimedOutGroupWasSignalled ==
  record # None /\ record.status = "timed_out" /\ worker[record.by] = "piped" =>
    sent[record.by] # "none"

=============================================================================
