--------------------------- MODULE CrossCheckProofs ---------------------------
(***************************************************************************)
(* For any number of executions on one output directory, with TLAPS: the   *)
(* types, what a completed and a timed out record say about the tool, and  *)
(* that executions end as CrossCheckOutcome says.                          *)
(***************************************************************************)
EXTENDS CrossCheck, TLAPS

USE DEF Goto, Record, Clean

(* The validation of a readable report is a verdict, and it passes just the  *)
(* reports that exist and are clean.                                         *)
LEMMA ValidationVerdict ==
  ASSUME TypeOK, Readable
  PROVE  /\ Validation \in Verdicts
         /\ Validation.status # "none"
         /\ Validation.status = "passed" <=> Clean(Validation.summary)
<1>1. CASE report = None \/ ~csv
  BY <1>1 DEF Validation, Verdicts
<1>2. CASE report # None /\ csv
  <2>1. report \in Reports /\ report.quality \in {"clean", "unclean", "junk"}
    BY <1>2 DEF TypeOK, Readable, Reports, Qualities
  <2>2. CASE report.quality = "clean"
    BY <1>2, <2>1, <2>2 DEF Validation, Verdicts
  <2>3. CASE report.quality = "unclean"
    BY <1>2, <2>1, <2>3 DEF Validation, Verdicts
  <2>4. CASE report.quality = "junk"
    BY <1>2, <2>1, <2>4 DEF Validation, Verdicts
  <2>5. QED BY <2>1, <2>2, <2>3, <2>4
<1>3. QED BY <1>1, <1>2

(* The types alone are not inductive: that a record has a status rests on an *)
(* execution being "validated" only when it has a verdict.                   *)
LEMMA TypeStep == TypeOK /\ CrossCheckInv /\ [Next]_vars => TypeOK'
<1> SUFFICES ASSUME TypeOK, CrossCheckInv, [Next]_vars PROVE TypeOK'
  OBVIOUS
<1>1. CASE UNCHANGED vars
  BY <1>1 DEF TypeOK, vars, toolVars, fileVars
<1>2. ASSUME NEW e \in Execs, RepoStep(e) PROVE TypeOK'
  <2> USE DEF TypeOK, toolVars, fileVars
  <2>1. CASE Prepare(e)
    BY <2>1 DEF Prepare
  <2>2. CASE ToolUnusable(e)
    BY <2>2 DEF ToolUnusable, Records, Statuses
  <2>3. CASE StartTool(e)
    BY <2>3 DEF StartTool
  <2>4. CASE CommunicateReturns(e)
    BY <2>4 DEF CommunicateReturns
  <2>5. CASE TimeoutExpired(e)
    BY <2>5 DEF TimeoutExpired
  <2>6. CASE WaitTerm(e)
    BY <2>6 DEF WaitTerm
  <2>7. CASE WaitKill(e)
    BY <2>7 DEF WaitKill
  <2>8. CASE RecordTimeout(e)
    BY <2>8 DEF RecordTimeout, Records, Statuses
  <2>9. CASE ValidateOutput(e)
    <3>1. Validation \in Verdicts
      BY <2>9, ValidationVerdict DEF ValidateOutput
    <3>2. QED BY <2>9, <3>1 DEF ValidateOutput
  <2>10. CASE RecordExit(e)
    <3>1. CASE xpc[e] = "exited"
      BY <2>10, <3>1 DEF RecordExit, Records, Statuses
    <3>2. CASE xpc[e] = "validated"
      <4>1. verdict[e] \in Verdicts /\ verdict[e].status # "none"
        BY <3>2 DEF CrossCheckInv, ExecutionInv
      <4>2. record' \in Records
        BY <2>10, <3>2, <4>1 DEF RecordExit, Records, Statuses, Verdicts
      <4>3. QED BY <2>10, <3>2, <4>2 DEF RecordExit
    <3>3. QED BY <2>10, <3>1, <3>2 DEF RecordExit
  <2>11. CASE LeaveUnrecorded(e)
    BY <2>11 DEF LeaveUnrecorded
  <2>12. QED
    BY <1>2, <2>1, <2>2, <2>3, <2>4, <2>5, <2>6, <2>7, <2>8, <2>9, <2>10, <2>11
    DEF RepoStep
<1>3. ASSUME NEW e \in Execs, Kill(e) PROVE TypeOK'
  BY <1>3 DEF TypeOK, toolVars, fileVars, Kill
<1>4. ASSUME NEW e \in Execs, ToolStep(e) PROVE TypeOK'
  <2> USE DEF TypeOK, toolVars, fileVars
  <2>1. CASE ToolForks(e)
    BY <2>1 DEF ToolForks
  <2>2. CASE ToolWritesReport(e)
    BY <2>2 DEF ToolWritesReport, Reports
  <2>3. CASE ToolWritesCsv(e)
    BY <2>3 DEF ToolWritesCsv
  <2>4. CASE LeaderExits(e)
    BY <2>4 DEF LeaderExits
  <2>5. CASE WorkerExits(e)
    BY <2>5 DEF WorkerExits
  <2>6. QED BY <1>4, <2>1, <2>2, <2>3, <2>4, <2>5 DEF ToolStep
<1>5. QED BY <1>1, <1>2, <1>3, <1>4 DEF Next

-----------------------------------------------------------------------------
(* A step on behalf of one execution leaves the place, the tool and the      *)
(* verdict of every other execution alone.                                   *)
Untouched(f) ==
  /\ xpc'[f] = xpc[f] /\ leader'[f] = leader[f] /\ worker'[f] = worker[f]
  /\ code'[f] = code[f] /\ verdict'[f] = verdict[f]

LEMMA Locality ==
  ASSUME TypeOK, NEW e \in Execs, RepoStep(e) \/ Kill(e) \/ ToolStep(e),
         NEW f \in Execs, f # e
  PROVE  Untouched(f)
BY DEF TypeOK, toolVars, fileVars, Untouched, RepoStep, Kill, ToolStep, Prepare,
  ToolUnusable, StartTool, CommunicateReturns, TimeoutExpired, WaitTerm, WaitKill,
  RecordTimeout, ValidateOutput, RecordExit, LeaveUnrecorded, ToolForks,
  ToolWritesReport, ToolWritesCsv, LeaderExits, WorkerExits

(* The part of the invariant that speaks of the acting execution alone.      *)
LEMMA ActingStep ==
  ASSUME TypeOK, NEW e \in Execs, ExecutionInv(e),
         RepoStep(e) \/ Kill(e) \/ ToolStep(e)
  PROVE  ExecutionInv(e)'
<1> USE DEF TypeOK, toolVars, fileVars, ExecutionInv
<1>1. CASE Prepare(e)
  BY <1>1 DEF Prepare
<1>2. CASE ToolUnusable(e)
  BY <1>2 DEF ToolUnusable
<1>3. CASE StartTool(e)
  BY <1>3 DEF StartTool
<1>4. CASE CommunicateReturns(e)
  BY <1>4 DEF CommunicateReturns
<1>5. CASE TimeoutExpired(e)
  BY <1>5 DEF TimeoutExpired
<1>6. CASE WaitTerm(e)
  BY <1>6 DEF WaitTerm
<1>7. CASE WaitKill(e)
  BY <1>7 DEF WaitKill
<1>8. CASE RecordTimeout(e)
  BY <1>8 DEF RecordTimeout
<1>9. CASE ValidateOutput(e)
  <2>1. /\ Validation.status # "none"
        /\ Validation.status = "passed" <=> Clean(Validation.summary)
    BY <1>9, ValidationVerdict DEF ValidateOutput
  <2>2. QED BY <1>9, <2>1 DEF ValidateOutput
<1>10. CASE RecordExit(e)
  BY <1>10 DEF RecordExit
<1>11. CASE LeaveUnrecorded(e)
  BY <1>11 DEF LeaveUnrecorded
<1>12. CASE Kill(e)
  BY <1>12 DEF Kill
<1>13. CASE ToolStep(e)
  BY <1>13 DEF ToolStep, ToolForks, ToolWritesReport, ToolWritesCsv, LeaderExits,
    WorkerExits
<1>14. QED
  BY <1>1, <1>2, <1>3, <1>4, <1>5, <1>6, <1>7, <1>8, <1>9, <1>10, <1>11, <1>12, <1>13
  DEF RepoStep

(* Nothing starts a tool that is gone, changes the code it ended with, or    *)
(* gives it a worker on the pipes.                                           *)
LEMMA GoneIsFinal ==
  ASSUME TypeOK, [Next]_vars, \A e \in Execs : ExecutionInv(e),
         NEW f \in Execs, leader[f] = "gone"
  PROVE  /\ leader'[f] = "gone" /\ code'[f] = code[f]
         /\ worker[f] # "piped" => worker'[f] # "piped"
<1>1. CASE UNCHANGED vars
  BY <1>1 DEF vars, toolVars
<1>2. ASSUME NEW e \in Execs, RepoStep(e) \/ Kill(e) \/ ToolStep(e), e # f
      PROVE  leader'[f] = leader[f] /\ code'[f] = code[f] /\ worker'[f] = worker[f]
  BY <1>2, Locality DEF Untouched
<1>3. ASSUME RepoStep(f) \/ Kill(f)
      PROVE  leader'[f] = leader[f] /\ code'[f] = code[f] /\ worker'[f] = worker[f]
  BY <1>3 DEF ExecutionInv, TypeOK, toolVars, fileVars, RepoStep, Kill, Prepare,
    ToolUnusable, StartTool, CommunicateReturns, TimeoutExpired, WaitTerm, WaitKill,
    RecordTimeout, ValidateOutput, RecordExit, LeaveUnrecorded
<1>4. ASSUME ToolStep(f)
      PROVE  /\ leader'[f] = leader[f] /\ code'[f] = code[f]
             /\ worker[f] # "piped" => worker'[f] # "piped"
  BY <1>4 DEF TypeOK, toolVars, fileVars, ToolStep, ToolForks, ToolWritesReport,
    ToolWritesCsv, LeaderExits, WorkerExits
<1>5. QED BY <1>1, <1>2, <1>3, <1>4 DEF Next

(* The step that writes a record finds what the record claims.               *)
LEMMA RecordStep ==
  ASSUME TypeOK, NEW e \in Execs, ExecutionInv(e),
         RepoStep(e) \/ Kill(e) \/ ToolStep(e)
  PROVE  \/ record' = record
         \/ /\ record'.by = e
            /\ record'.status \in {"completed", "timed_out"} => leader[e] = "gone"
            /\ record'.status = "completed" =>
                 /\ Clean(record'.summary)
                 /\ code[e] = 0 /\ worker[e] # "piped"
<1>1. CASE ToolUnusable(e)
  BY <1>1 DEF ToolUnusable
<1>2. CASE RecordTimeout(e)
  BY <1>2 DEF RecordTimeout, ExecutionInv
<1>3. CASE RecordExit(e)
  <2>1. verdict[e].status \in {"none", "artifact_invalid", "passed", "artifact_incomplete"}
    BY DEF TypeOK, Verdicts
  <2>2. QED BY <1>3, <2>1 DEF RecordExit, ExecutionInv
<1>4. CASE ~(ToolUnusable(e) \/ RecordTimeout(e) \/ RecordExit(e))
  BY <1>4 DEF toolVars, fileVars, RepoStep, Kill, Prepare, StartTool,
    CommunicateReturns, TimeoutExpired, WaitTerm, WaitKill, ValidateOutput,
    LeaveUnrecorded, ToolStep, ToolForks, ToolWritesReport, ToolWritesCsv,
    LeaderExits, WorkerExits
<1>5. QED BY <1>1, <1>2, <1>3, <1>4

LEMMA InvStep == TypeOK /\ CrossCheckInv /\ [Next]_vars => CrossCheckInv'
<1> SUFFICES ASSUME TypeOK, CrossCheckInv, [Next]_vars PROVE CrossCheckInv'
  OBVIOUS
<1>0. \A f \in Execs : ExecutionInv(f)
  BY DEF CrossCheckInv
<1>1. CASE UNCHANGED vars
  BY <1>1 DEF CrossCheckInv, ExecutionInv, CompletedIsVerified, TimedOutToolIsGone,
    vars, toolVars, fileVars
<1>2. ASSUME NEW e \in Execs, RepoStep(e) \/ Kill(e) \/ ToolStep(e)
      PROVE  CrossCheckInv'
  <2>1. ASSUME NEW f \in Execs PROVE ExecutionInv(f)'
    <3>1. CASE f = e
      BY <1>0, <1>2, <3>1, ActingStep
    <3>2. CASE f # e
      <4>1. Untouched(f)
        BY <1>2, <3>2, Locality
      <4>2. QED BY <1>0, <4>1 DEF Untouched, ExecutionInv
    <3>3. QED BY <3>1, <3>2
  <2>2. CASE record' = record
    <3>1. ASSUME record # None, record.status \in {"completed", "timed_out"}
          PROVE  record.by \in Execs /\ leader[record.by] = "gone"
      BY <3>1 DEF CrossCheckInv, CompletedIsVerified, TimedOutToolIsGone, TypeOK, Records
    <3>2. CompletedIsVerified'
      BY <2>2, <3>1, <1>0, GoneIsFinal DEF CrossCheckInv, CompletedIsVerified
    <3>3. TimedOutToolIsGone'
      BY <2>2, <3>1, <1>0, GoneIsFinal DEF CrossCheckInv, TimedOutToolIsGone
    <3>4. QED BY <2>1, <3>2, <3>3 DEF CrossCheckInv
  <2>3. CASE /\ record'.by = e
             /\ record'.status \in {"completed", "timed_out"} => leader[e] = "gone"
             /\ record'.status = "completed" =>
                  /\ Clean(record'.summary)
                  /\ code[e] = 0 /\ worker[e] # "piped"
    <3>1. CompletedIsVerified'
      BY <2>3, <1>0, GoneIsFinal DEF CompletedIsVerified
    <3>2. TimedOutToolIsGone'
      BY <2>3, <1>0, GoneIsFinal DEF TimedOutToolIsGone
    <3>3. QED BY <2>1, <3>1, <3>2 DEF CrossCheckInv
  <2>4. QED BY <1>0, <1>2, <2>2, <2>3, RecordStep
<1>3. QED BY <1>1, <1>2 DEF Next

LEMMA InitInv == Init => TypeOK /\ CrossCheckInv
<1> SUFFICES ASSUME Init PROVE TypeOK /\ CrossCheckInv
  OBVIOUS
<1>1. TypeOK
  BY DEF Init, TypeOK, NoVerdict, Verdicts
<1>2. CrossCheckInv
  BY DEF Init, CrossCheckInv, ExecutionInv, CompletedIsVerified, TimedOutToolIsGone,
    NoVerdict
<1>3. QED BY <1>1, <1>2

-----------------------------------------------------------------------------
(* Types and invariant of execute_guidellm_cross_check hold at every moment, *)
(* for any number of executions, tools and interleavings.                    *)
THEOREM CrossCheckCorrect == Spec => [](TypeOK /\ CrossCheckInv)
<1>1. Init => TypeOK /\ CrossCheckInv
  BY InitInv
<1>2. (TypeOK /\ CrossCheckInv) /\ [Next]_vars => (TypeOK /\ CrossCheckInv)'
  BY TypeStep, InvStep
<1>3. QED BY <1>1, <1>2, PTL DEF Spec

(* The executions, the tools and the files keep to their sets of states.     *)
THEOREM CrossCheckTypes == Spec => []TypeOK
BY CrossCheckCorrect, PTL

(* A completed record was earned by the tool it names.                       *)
THEOREM CompletedVerified == Spec => []CompletedIsVerified
<1>1. TypeOK /\ CrossCheckInv => CompletedIsVerified
  BY DEF CrossCheckInv
<1>2. QED BY <1>1, CrossCheckCorrect, PTL

(* A timed out record names a tool process that has ended.                   *)
THEOREM TimedOutGone == Spec => []TimedOutToolIsGone
<1>1. TypeOK /\ CrossCheckInv => TimedOutToolIsGone
  BY DEF CrossCheckInv
<1>2. QED BY <1>1, CrossCheckCorrect, PTL

-----------------------------------------------------------------------------
(* How an execution ends is seen from where it goes.                         *)
LEMMA EndedStep ==
  ASSUME TypeOK, NEW e \in Execs, NEW place, xpc' = [xpc EXCEPT ![e] = place],
         xpc[e] \notin {"done", "raised", "killed"}
  PROVE  /\ place = "done" => Outcome!End(e, "returned")
         /\ place \in {"raised", "killed"} => Outcome!End(e, place)
         /\ place \notin {"done", "raised", "killed"} => UNCHANGED Ended
BY DEF TypeOK, Ended, Outcome!End

(* A step that ends an execution ends it in a way the outcome allows, and    *)
(* the caller sees nothing of any other step.                                *)
LEMMA OutcomeStep ==
  ASSUME TypeOK, TypeOK', CrossCheckInv, NEW e \in Execs,
         RepoStep(e) \/ Kill(e) \/ ToolStep(e)
  PROVE  [Outcome!Next]_<<Ended, ret, Recorded>>
<1>0. ASSUME NEW status \in Statuses, NEW summary \in Reports \cup {None},
             Record(e, status, summary)
      PROVE  Recorded' = [by |-> e, status |-> status, clean |-> Clean(summary)]
  <2>1. record' \in Records
    BY <1>0 DEF Records
  <2>2. record' # None
    BY <2>1, CrossCheckAssumption
  <2>3. QED BY <1>0, <2>2 DEF Recorded
<1>1. CASE ToolUnusable(e)
  <2>1. Outcome!End(e, "raised")
    BY <1>1, EndedStep DEF ToolUnusable
  <2>2. \E status \in {"not_executable", "execution_error"} :
          Recorded' = [by |-> e, status |-> status, clean |-> FALSE]
    BY <1>0, <1>1 DEF ToolUnusable, Statuses
  <2>3. Outcome!Refuse(e)
    BY <1>1, <2>1, <2>2 DEF Outcome!Refuse, ToolUnusable
  <2>4. QED BY <2>3 DEF Outcome!Next
<1>2. CASE RecordTimeout(e)
  <2>1. Outcome!End(e, "returned")
    BY <1>2, EndedStep DEF RecordTimeout
  <2>2. Recorded' = [by |-> e, status |-> "timed_out", clean |-> FALSE]
    BY <1>0, <1>2 DEF RecordTimeout, Statuses
  <2>3. ret'[e] = 124 /\ ret' = [ret EXCEPT ![e] = ret'[e]]
    BY <1>2 DEF RecordTimeout, TypeOK
  <2>4. Outcome!Return(e)
    BY <2>1, <2>2, <2>3 DEF Outcome!Return, Outcome!Agrees
  <2>5. QED BY <2>4 DEF Outcome!Next
<1>3. CASE RecordExit(e)
  <2>1. Outcome!End(e, "returned")
    BY <1>3, EndedStep DEF RecordExit
  <2>2. ret' = [ret EXCEPT ![e] = ret'[e]]
    BY <1>3 DEF RecordExit, TypeOK
  <2>3. /\ verdict[e].status \in {"none", "artifact_invalid", "passed", "artifact_incomplete"}
        /\ code[e] \in {0, 1} /\ verdict[e].summary \in Reports \cup {None}
    BY DEF TypeOK, Verdicts
  <2>4. PICK status \in {"completed", "artifact_invalid", "artifact_incomplete", "failed"},
             summary \in Reports \cup {None} :
          /\ Record(e, status, summary)
          /\ Outcome!Agrees(status, ret'[e])
          /\ Clean(summary) <=> status = "completed"
    BY <1>3, <2>3 DEF RecordExit, CrossCheckInv, ExecutionInv, TypeOK, Outcome!Agrees
  <2>5. Recorded' = [by |-> e, status |-> status, clean |-> status = "completed"]
    BY <1>0, <2>4 DEF Statuses
  <2>6. Outcome!Return(e)
    BY <2>1, <2>2, <2>4, <2>5 DEF Outcome!Return
  <2>7. QED BY <2>6 DEF Outcome!Next
<1>4. CASE LeaveUnrecorded(e) \/ Kill(e) \/ (WaitKill(e) /\ leader[e] # "gone")
  <2>1. Outcome!End(e, "raised") \/ Outcome!End(e, "killed")
    BY <1>4, EndedStep DEF LeaveUnrecorded, Kill, WaitKill, TypeOK
  <2>2. UNCHANGED <<ret, Recorded>>
    BY <1>4 DEF LeaveUnrecorded, Kill, WaitKill, Recorded, fileVars
  <2>3. Outcome!Abandon(e)
    BY <2>1, <2>2 DEF Outcome!Abandon
  <2>4. QED BY <2>3 DEF Outcome!Next
<1>5. CASE \/ Prepare(e) \/ StartTool(e) \/ CommunicateReturns(e) \/ TimeoutExpired(e)
           \/ WaitTerm(e) \/ ValidateOutput(e) \/ (WaitKill(e) /\ leader[e] = "gone")
  <2> USE DEF Prepare, StartTool, CommunicateReturns, TimeoutExpired, WaitTerm, WaitKill,
    ValidateOutput
  <2>1. \E place \in {"planned", "communicating", "terminating", "killing", "timed_out",
                     "exited", "validated"} : Goto(e, place)
    BY <1>5
  <2>2. /\ xpc[e] \notin {"done", "raised", "killed"}
        /\ UNCHANGED <<ret, record>>
    BY <1>5 DEF fileVars
  <2>3. UNCHANGED Ended
    BY <2>1, <2>2, EndedStep
  <2>4. QED BY <2>2, <2>3 DEF Recorded
<1>6. CASE ToolStep(e)
  BY <1>6 DEF Ended, Recorded, ToolStep, ToolForks, ToolWritesReport, ToolWritesCsv,
    LeaderExits, WorkerExits, fileVars
<1>7. QED BY <1>1, <1>2, <1>3, <1>4, <1>5, <1>6 DEF RepoStep

(* execute_guidellm_cross_check keeps what CrossCheckOutcome promises its    *)
(* callers: however many executions share a directory, each ends once, with  *)
(* at most one record, and its exit code says what the record says.          *)
THEOREM CrossCheckImplementsOutcome == Spec => OutcomeSpec
<1>1. Init => Outcome!Init
  BY DEF Init, Outcome!Init, Ended, Recorded
<1>2. ASSUME TypeOK, TypeOK', CrossCheckInv, [Next]_vars
      PROVE  [Outcome!Next]_<<Ended, ret, Recorded>>
  <2>1. CASE UNCHANGED vars
    BY <2>1 DEF vars, fileVars, Ended, Recorded
  <2>2. QED BY <1>2, <2>1, OutcomeStep DEF Next
<1>3. QED
  BY <1>1, <1>2, CrossCheckCorrect, PTL DEF Spec, OutcomeSpec, Outcome!Spec

=============================================================================
