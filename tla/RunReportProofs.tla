---------------------------- MODULE RunReportProofs ----------------------------
(***************************************************************************)
(* For any number of runs, cross-checks and report builders on one run     *)
(* directory, with TLAPS: what the M3 documents rest on, and that no run   *)
(* gets a directory a cross-check was in before.  Until a second           *)
(* cross-check begins, also that the documents quote one report.           *)
(***************************************************************************)
EXTENDS RunReport, CrossCheckProofs

USE DEF Goto, Record, Clean, Register!Absent

(* A checkpoint whose run measured a server and published a success.         *)
Backed(doc) ==
  /\ doc.run \in Runs \ (DryRuns \cup FakeRuns)
  /\ pub[RunId] = [by |-> doc.run, state |-> "success"]

(* A builder past its first read holds a checkpoint like that, and a record  *)
(* it has taken over was validated.                                          *)
BuilderInv ==
  \A b \in Builders :
    /\ bpc[b] \notin {"idle", "raised"} => Backed(draft[b])
    /\ draft[b].check # None => Validated(draft[b].check)

(* Only a verdict of a validated report carries its summary, and so does     *)
(* only the record of one.                                                   *)
SummaryInv ==
  /\ \A e \in Execs : verdict[e].summary # None =>
       verdict[e].status \in {"passed", "artifact_incomplete"}
  /\ record # None /\ record.summary # None => Validated(record)

(* Who has made the directory.                                               *)
DirInv ==
  /\ pub[RunId].state # "absent" => pub[RunId].by \in Runs
  /\ \A e \in early : xpc[e] # "idle"
  /\ CheckFollowsRun

ReportInv ==
  /\ CrossCheckInv /\ SummaryInv /\ DirInv
  /\ BuilderInv /\ AnswerIsBacked /\ QuotedCheckWasValidated

-----------------------------------------------------------------------------
(* Seen from the executions alone, a step is one of theirs or none.          *)
LEMMA StepOfCheck == [ReportNext]_allVars => [Next]_vars
BY DEF ReportNext, allVars, Next, CheckStep, RunStep, StartRun, ClaimDir, PublishDir,
  RunBreaks, BuilderStep, ReadArtifact, LookForCheck, ReadBenchmark, ReadExecution,
  WriteReport, WriteSummary, BuilderRaises

LEMMA RunTypeStep == RunTypeOK /\ [ReportNext]_allVars => RunTypeOK'
<1> SUFFICES ASSUME RunTypeOK, [ReportNext]_allVars PROVE RunTypeOK'
  OBVIOUS
<1> USE DEF RunTypeOK, Register!TypeOK
<1>1. CASE UNCHANGED allVars
  BY <1>1 DEF allVars, runVars
<1>2. ASSUME NEW w \in Runs, RunStep(w) PROVE RunTypeOK'
  <2> USE DEF RunGoto
  <2>1. CASE StartRun(w)
    BY <2>1 DEF StartRun
  <2>2. CASE ClaimDir(w)
    BY <2>2 DEF ClaimDir, Register!Claim
  <2>3. CASE PublishDir(w)
    BY <2>3 DEF PublishDir, Register!Publish
  <2>4. CASE RunBreaks(w)
    BY <2>4 DEF RunBreaks
  <2>5. QED BY <1>2, <2>1, <2>2, <2>3, <2>4 DEF RunStep
<1>3. ASSUME NEW e \in Execs, CheckStep(e) PROVE RunTypeOK'
  BY <1>3 DEF CheckStep
<1>4. ASSUME NEW b \in Builders, BuilderStep(b) PROVE RunTypeOK'
  BY <1>4 DEF BuilderStep, ReadArtifact, LookForCheck, ReadBenchmark, ReadExecution,
    WriteReport, WriteSummary, BuilderRaises, runVars
<1>5. QED BY <1>1, <1>2, <1>3, <1>4 DEF ReportNext

(* The files of the report builder.                                          *)
M3TypeOK ==
  /\ bpc \in [Builders -> {"idle", "read", "benchmark", "execution", "ready",
                           "reported", "done", "raised"}]
  /\ draft \in [Builders -> Checkpoints]
  /\ m3_report \in Checkpoints \cup {None}
  /\ m3_summary \in Checkpoints \cup {None}

LEMMA M3TypeStep ==
  TypeOK /\ RunTypeOK /\ M3TypeOK /\ [ReportNext]_allVars => M3TypeOK'
<1> SUFFICES ASSUME TypeOK, RunTypeOK, M3TypeOK, [ReportNext]_allVars PROVE M3TypeOK'
  OBVIOUS
<1> USE DEF M3TypeOK, Checkpoints
<1>1. CASE UNCHANGED allVars
  BY <1>1 DEF allVars, m3Vars
<1>2. ASSUME NEW w \in Runs, RunStep(w) PROVE M3TypeOK'
  BY <1>2 DEF RunStep, StartRun, ClaimDir, PublishDir, RunBreaks, m3Vars
<1>3. ASSUME NEW e \in Execs, CheckStep(e) PROVE M3TypeOK'
  BY <1>3 DEF CheckStep, m3Vars
<1>4. ASSUME NEW b \in Builders, BuilderStep(b) PROVE M3TypeOK'
  <2> USE DEF BuilderGoto
  <2>1. CASE ReadArtifact(b)
    <3>1. pub[RunId].by \in Runs \cup {None}
      BY DEF RunTypeOK, Register!TypeOK
    <3>2. QED BY <2>1, <3>1 DEF ReadArtifact
  <2>2. CASE LookForCheck(b)
    BY <2>2 DEF LookForCheck
  <2>3. CASE ReadBenchmark(b)
    <3>1. /\ report \in Reports \cup {None}
          /\ bpc \in [Builders -> {"idle", "read", "benchmark", "execution", "ready",
                                   "reported", "done", "raised"}]
          /\ draft \in [Builders -> Checkpoints] /\ draft[b] \in Checkpoints
      BY DEF TypeOK
    <3>2. [draft[b] EXCEPT !.latencies = report] \in Checkpoints
      BY <3>1
    <3>3. bpc' \in [Builders -> {"idle", "read", "benchmark", "execution", "ready",
                                "reported", "done", "raised"}]
      BY <2>3, <3>1 DEF ReadBenchmark
    <3>4. draft' \in [Builders -> Checkpoints]
      <4>1. draft' = draft \/ draft' = [draft EXCEPT ![b] = [@ EXCEPT !.latencies = report]]
        BY <2>3 DEF ReadBenchmark
      <4>2. QED BY <3>1, <3>2, <4>1
    <3>5. QED BY <2>3, <3>3, <3>4 DEF ReadBenchmark
  <2>4. CASE ReadExecution(b)
    <3>1. /\ record \in Records \cup {None}
          /\ bpc \in [Builders -> {"idle", "read", "benchmark", "execution", "ready",
                                   "reported", "done", "raised"}]
          /\ draft \in [Builders -> Checkpoints] /\ draft[b] \in Checkpoints
      BY DEF TypeOK
    <3>2. [draft[b] EXCEPT !.check = record] \in Checkpoints
      BY <3>1
    <3>3. bpc' \in [Builders -> {"idle", "read", "benchmark", "execution", "ready",
                                "reported", "done", "raised"}]
      BY <2>4, <3>1 DEF ReadExecution
    <3>4. draft' \in [Builders -> Checkpoints]
      <4>1. draft' = draft \/ draft' = [draft EXCEPT ![b] = [@ EXCEPT !.check = record]]
        BY <2>4 DEF ReadExecution
      <4>2. QED BY <3>1, <3>2, <4>1
    <3>5. QED BY <2>4, <3>3, <3>4 DEF ReadExecution
  <2>5. CASE WriteReport(b)
    BY <2>5 DEF WriteReport
  <2>6. CASE WriteSummary(b)
    BY <2>6 DEF WriteSummary
  <2>7. CASE BuilderRaises(b)
    BY <2>7 DEF BuilderRaises
  <2>8. QED
    BY <1>4, <2>1, <2>2, <2>3, <2>4, <2>5, <2>6, <2>7 DEF BuilderStep
<1>5. QED BY <1>1, <1>2, <1>3, <1>4 DEF ReportNext

LEMMA ReportTypeStep ==
  ReportTypeOK /\ CrossCheckInv /\ [ReportNext]_allVars => ReportTypeOK'
<1>1. ReportTypeOK <=> TypeOK /\ RunTypeOK /\ M3TypeOK
  BY DEF ReportTypeOK, M3TypeOK
<1>2. (TypeOK /\ RunTypeOK /\ M3TypeOK)' => ReportTypeOK'
  BY DEF ReportTypeOK, M3TypeOK
<1>3. QED BY <1>1, <1>2, StepOfCheck, TypeStep, RunTypeStep, M3TypeStep

-----------------------------------------------------------------------------
(* A validated record stays validated: its tool is gone for good.            *)
LEMMA ValidatedIsFinal ==
  ASSUME TypeOK, [Next]_vars, \A e \in Execs : ExecutionInv(e),
         NEW r \in Records, Validated(r)
  PROVE  Validated(r)'
<1>1. r.by \in Execs /\ leader[r.by] = "gone"
  BY DEF Records, Validated
<1>2. QED BY <1>1, GoneIsFinal DEF Validated

(* The validation sums up the report that is there, and only a GuideLLM one. *)
LEMMA ValidationSummary ==
  ASSUME TypeOK, Readable, Validation.summary # None
  PROVE  /\ Validation.summary = report
         /\ Validation.status \in {"passed", "artifact_incomplete"}
<1>1. CASE report = None \/ ~csv
  BY <1>1 DEF Validation
<1>2. CASE report # None /\ csv
  <2>1. report.quality \in {"clean", "unclean", "junk"}
    BY <1>2 DEF Readable, TypeOK, Reports, Qualities
  <2>2. QED BY <1>2, <2>1 DEF Validation
<1>3. QED BY <1>1, <1>2

(* The step that writes a record with a summary has validated the report.    *)
LEMMA SummaryStep ==
  ASSUME TypeOK, CrossCheckInv, SummaryInv, [Next]_vars
  PROVE  SummaryInv'
<1>0. \A f \in Execs : ExecutionInv(f)
  BY DEF CrossCheckInv
<1>1. CASE UNCHANGED vars
  BY <1>1 DEF SummaryInv, Validated, vars, toolVars, fileVars
<1>2. ASSUME NEW e \in Execs, RepoStep(e) \/ Kill(e) \/ ToolStep(e)
      PROVE  SummaryInv'
  <2>1. ASSUME NEW f \in Execs, verdict'[f].summary # None
        PROVE  verdict'[f].status \in {"passed", "artifact_incomplete"}
    <3>1. CASE verdict'[f] = verdict[f]
      BY <2>1, <3>1 DEF SummaryInv
    <3>2. CASE f = e /\ ValidateOutput(e)
      <4>1. verdict'[e] = Validation
        BY <3>2 DEF ValidateOutput, TypeOK
      <4>2. Validation.summary # None =>
              Validation.status \in {"passed", "artifact_incomplete"}
        BY <3>2, ValidationSummary DEF ValidateOutput
      <4>3. QED BY <2>1, <3>2, <4>1, <4>2
    <3>3. CASE f # e
      BY <1>2, <3>1, <3>3, Locality DEF Untouched
    <3>4. CASE f = e /\ ~ValidateOutput(e)
      <4>1. verdict' = verdict
        BY <1>2, <3>4 DEF RepoStep, Kill, ToolStep, Prepare, ToolUnusable, StartTool,
          CommunicateReturns, TimeoutExpired, WaitTerm, WaitKill, RecordTimeout,
          RecordExit, LeaveUnrecorded, ToolForks, ToolWritesReport, ToolWritesCsv,
          LeaderExits, WorkerExits
      <4>2. QED BY <3>1, <4>1
    <3>5. QED BY <3>2, <3>3, <3>4
  <2>2. ASSUME record' # None, record'.summary # None
        PROVE  Validated(record)'
    <3>1. CASE record' = record
      <4>1. record \in Records /\ Validated(record)
        BY <2>2, <3>1 DEF TypeOK, SummaryInv
      <4>2. QED BY <1>0, <1>2, <3>1, <4>1, ValidatedIsFinal DEF Validated, Next
    <3>2. CASE RecordExit(e)
      <4>1. xpc[e] = "validated" /\ record'.by = e /\ record'.summary = verdict[e].summary
        BY <2>2, <3>2 DEF RecordExit
      <4>2. leader[e] = "gone" /\ code[e] = 0 /\ worker[e] # "piped"
        BY <4>1, <1>0 DEF ExecutionInv
      <4>3. verdict[e].status \in {"passed", "artifact_incomplete"}
        BY <2>2, <4>1 DEF SummaryInv
      <4>4. record'.status \in {"completed", "artifact_incomplete"}
        BY <3>2, <4>1, <4>3 DEF RecordExit
      <4>5. UNCHANGED toolVars
        BY <3>2 DEF RecordExit
      <4>6. QED BY <2>2, <4>1, <4>2, <4>4, <4>5 DEF Validated, toolVars
    <3>3. CASE record' # record /\ ~RecordExit(e)
      BY <1>2, <2>2, <3>3 DEF toolVars, fileVars, RepoStep, Kill, ToolStep, Prepare,
        ToolUnusable, StartTool, CommunicateReturns, TimeoutExpired, WaitTerm, WaitKill,
        RecordTimeout, ValidateOutput, LeaveUnrecorded, ToolForks, ToolWritesReport,
        ToolWritesCsv, LeaderExits, WorkerExits
    <3>4. QED BY <3>1, <3>2, <3>3
  <2>3. QED BY <2>1, <2>2 DEF SummaryInv
<1>3. QED BY <1>1, <1>2 DEF Next

(* An execution that has taken a step has begun.                             *)
LEMMA ActingHasBegun ==
  ASSUME TypeOK, NEW e \in Execs, ExecutionInv(e),
         RepoStep(e) \/ Kill(e) \/ ToolStep(e)
  PROVE  xpc'[e] # "idle"
<1>1. CASE RepoStep(e)
  BY <1>1 DEF TypeOK, RepoStep, Prepare, ToolUnusable, StartTool, CommunicateReturns,
    TimeoutExpired, WaitTerm, WaitKill, RecordTimeout, ValidateOutput, RecordExit,
    LeaveUnrecorded
<1>2. CASE Kill(e)
  BY <1>2 DEF TypeOK, Kill
<1>3. CASE ToolStep(e)
  BY <1>3 DEF ExecutionInv, ToolStep, ToolForks, ToolWritesReport, ToolWritesCsv,
    LeaderExits, WorkerExits
<1>4. QED BY <1>1, <1>2, <1>3

(* Whoever makes the directory keeps the others out of it.                   *)
LEMMA DirStep ==
  ASSUME ReportTypeOK, CrossCheckInv, DirInv, [ReportNext]_allVars
  PROVE  DirInv'
<1> USE DEF DirInv, CheckFollowsRun, ReportTypeOK, RunTypeOK, Register!TypeOK
<1>1. CASE UNCHANGED allVars
  BY <1>1 DEF allVars, runVars, vars
<1>2. ASSUME NEW w \in Runs, RunStep(w) PROVE DirInv'
  <2> USE DEF RunGoto
  <2>1. CASE StartRun(w) \/ RunBreaks(w)
    BY <2>1 DEF StartRun, RunBreaks, vars
  <2>2. CASE ClaimDir(w)
    <3>1. CASE DirExists
      BY <2>2, <3>1 DEF ClaimDir, vars
    <3>2. CASE ~DirExists
      <4>1. early = {}
        BY <3>2 DEF DirExists
      <4>2. early' = {} /\ pub'[RunId].by = w
        BY <2>2, <3>2, <4>1 DEF ClaimDir, Register!Claim
      <4>3. QED BY <4>2
    <3>3. QED BY <3>1, <3>2
  <2>3. CASE PublishDir(w)
    <3>1. pub[RunId] # Register!Absent /\ pub'[RunId].by = w
      BY <2>3 DEF PublishDir, Register!Publish
    <3>2. UNCHANGED <<early, xpc>>
      BY <2>3 DEF PublishDir, vars
    <3>3. QED BY <3>1, <3>2
  <2>4. QED BY <1>2, <2>1, <2>2, <2>3 DEF RunStep
<1>3. ASSUME NEW e \in Execs, CheckStep(e) PROVE DirInv'
  <2>1. RepoStep(e) \/ Kill(e) \/ ToolStep(e)
    BY <1>3 DEF CheckStep
  <2>2. xpc'[e] # "idle"
    BY <2>1, ActingHasBegun DEF CrossCheckInv
  <2>3. \A f \in Execs : f # e => xpc'[f] = xpc[f]
    BY <2>1, Locality DEF Untouched
  <2>4. \A f \in early' : xpc'[f] # "idle"
    BY <1>3, <2>2, <2>3 DEF CheckStep
  <2>5. pub' = pub /\ CheckFollowsRun'
    BY <1>3 DEF CheckStep, DirExists
  <2>6. QED BY <2>4, <2>5
<1>4. ASSUME NEW b \in Builders, BuilderStep(b) PROVE DirInv'
  BY <1>4 DEF BuilderStep, ReadArtifact, LookForCheck, ReadBenchmark, ReadExecution,
    WriteReport, WriteSummary, BuilderRaises, runVars, vars
<1>5. QED BY <1>1, <1>2, <1>3, <1>4 DEF ReportNext

-----------------------------------------------------------------------------
(* What a reader has found of a successful run does not change.              *)
LEMMA BackedIsFinal ==
  ASSUME ReportTypeOK, [ReportNext]_allVars, NEW doc, Backed(doc)
  PROVE  Backed(doc)'
<1> USE DEF Backed
<1>1. CASE UNCHANGED pub
  BY <1>1
<1>2. ASSUME NEW w \in Runs, ClaimDir(w) PROVE UNCHANGED pub
  BY <1>2 DEF ClaimDir, Register!Claim
<1>3. ASSUME NEW w \in Runs, PublishDir(w) PROVE FALSE
  BY <1>3 DEF PublishDir, Register!Publish
<1>4. QED
  BY <1>1, <1>2, <1>3 DEF ReportNext, RunStep, StartRun, RunBreaks, CheckStep, BuilderStep,
    ReadArtifact, LookForCheck, ReadBenchmark, ReadExecution, WriteReport, WriteSummary,
    BuilderRaises, allVars, runVars

(* Everything the builder needs is only in the artifact of a success.        *)
LEMMA RequiredMeansMeasured ==
  ASSUME NEW w \in Runs, NEW status, Required \subseteq Contents(w, status)
  PROVE  w \notin DryRuns \cup FakeRuns /\ status # "failed"
BY DEF Required, Contents, FakeContents, DryContents, RealContents, FailedContents

LEMMA BuilderInvStep ==
  ASSUME ReportTypeOK, ReportInv, [ReportNext]_allVars
  PROVE  BuilderInv'
<1>0. TypeOK /\ [Next]_vars /\ \A e \in Execs : ExecutionInv(e)
  BY StepOfCheck DEF ReportTypeOK, ReportInv, CrossCheckInv
<1>1. ASSUME NEW b \in Builders, draft'[b] = draft[b],
             bpc[b] \in {"idle", "raised"} => bpc'[b] \in {"idle", "raised"}
      PROVE  /\ bpc'[b] \notin {"idle", "raised"} => Backed(draft[b])'
             /\ draft'[b].check # None => Validated(draft[b].check)'
  <2>1. bpc'[b] \notin {"idle", "raised"} => Backed(draft[b])'
    BY <1>1, BackedIsFinal DEF ReportInv, BuilderInv, Backed
  <2>2. ASSUME draft[b].check # None PROVE Validated(draft[b].check)'
    <3>1. draft[b].check \in Records /\ Validated(draft[b].check)
      BY <2>2 DEF ReportInv, BuilderInv, ReportTypeOK, Checkpoints
    <3>2. QED BY <1>0, <1>1, <3>1, ValidatedIsFinal DEF Validated
  <2>3. QED BY <1>1, <2>1, <2>2
<1>2. ASSUME NEW a \in Builders, BuilderStep(a), NEW b \in Builders, a # b
      PROVE  draft'[b] = draft[b] /\ bpc'[b] = bpc[b]
  BY <1>2 DEF ReportTypeOK, BuilderGoto, BuilderStep, ReadArtifact, LookForCheck,
    ReadBenchmark, ReadExecution, WriteReport, WriteSummary, BuilderRaises
<1>3. ASSUME NEW b \in Builders, BuilderStep(b)
      PROVE  /\ bpc'[b] \notin {"idle", "raised"} => Backed(draft[b])'
             /\ draft'[b].check # None => Validated(draft[b].check)'
  <2> USE DEF BuilderGoto
  <2>0. draft \in [Builders -> Checkpoints] /\ DOMAIN bpc = Builders
    BY DEF ReportTypeOK
  <2>1. CASE ReadArtifact(b)
    <3>1. CASE bpc'[b] = "raised"
      BY <1>1, <2>0, <2>1, <3>1 DEF ReadArtifact
    <3>2. CASE bpc'[b] # "raised"
      <4> DEFINE found == pub[RunId]
      <4>1. /\ found.state \in {"success", "failed"}
            /\ Required \subseteq Contents(found.by, found.state)
            /\ draft'[b] = [draft[b] EXCEPT !.run = found.by]
            /\ UNCHANGED <<vars, pub>>
        BY <2>0, <2>1, <3>2 DEF ReadArtifact, runVars
      <4>2. found.by \in Runs /\ found = [by |-> found.by, state |-> found.state]
        BY <4>1 DEF ReportInv, DirInv, ReportTypeOK, RunTypeOK, Register!TypeOK
      <4>3. found.by \notin DryRuns \cup FakeRuns /\ found.state = "success"
        BY <4>1, <4>2, RequiredMeansMeasured
      <4>4. draft'[b].run = found.by /\ draft'[b].check = draft[b].check
        BY <2>0, <4>1 DEF Checkpoints
      <4>5. Backed(draft[b])'
        BY <4>1, <4>2, <4>3, <4>4 DEF Backed
      <4>6. draft'[b].check # None => Validated(draft[b].check)'
        BY <4>1, <4>4 DEF ReportInv, BuilderInv, Validated, vars, toolVars
      <4>7. QED BY <4>5, <4>6
    <3>3. QED BY <3>1, <3>2
  <2>2. CASE ReadBenchmark(b)
    <3>1. /\ draft'[b].run = draft[b].run /\ draft'[b].check = draft[b].check
          /\ bpc[b] = "benchmark" /\ UNCHANGED <<vars, pub>>
      BY <2>0, <2>2 DEF ReadBenchmark, Checkpoints, runVars
    <3>2. QED
      BY <3>1 DEF ReportInv, BuilderInv, Backed, Validated, vars, toolVars
  <2>3. CASE ReadExecution(b)
    <3>1. /\ bpc[b] = "execution" /\ UNCHANGED <<vars, pub>>
          /\ \/ draft'[b] = draft[b]
             \/ /\ draft'[b] = [draft[b] EXCEPT !.check = record]
                /\ record # None /\ record.summary # None
      BY <2>0, <2>3 DEF ReadExecution, runVars
    <3>2. draft'[b].run = draft[b].run
      BY <2>0, <3>1 DEF Checkpoints
    <3>3. \/ draft'[b].check = draft[b].check
          \/ draft'[b].check = record /\ record # None /\ record.summary # None
      BY <2>0, <3>1 DEF Checkpoints
    <3>4. QED
      BY <3>1, <3>2, <3>3
      DEF ReportInv, BuilderInv, SummaryInv, Backed, Validated, vars, toolVars
  <2>4. CASE LookForCheck(b) \/ WriteReport(b) \/ WriteSummary(b) \/ BuilderRaises(b)
    BY <1>1, <2>4 DEF LookForCheck, WriteReport, WriteSummary, BuilderRaises
  <2>5. QED BY <1>3, <2>1, <2>2, <2>3, <2>4 DEF BuilderStep
<1>4. CASE UNCHANGED <<bpc, draft>>
  BY <1>1, <1>4 DEF BuilderInv
<1>5. CASE \E b \in Builders : BuilderStep(b)
  BY <1>1, <1>2, <1>3, <1>5 DEF BuilderInv
<1>6. QED
  BY <1>4, <1>5 DEF ReportNext, RunStep, StartRun, ClaimDir, PublishDir, RunBreaks,
    CheckStep, allVars, m3Vars

(* A document presents the checkpoint of the builder that wrote it.          *)
LEMMA DocumentStep ==
  ASSUME ReportTypeOK, ReportInv, [ReportNext]_allVars
  PROVE  AnswerIsBacked' /\ QuotedCheckWasValidated'
<1>0. TypeOK /\ [Next]_vars /\ \A e \in Execs : ExecutionInv(e)
  BY StepOfCheck DEF ReportTypeOK, ReportInv, CrossCheckInv
<1>1. ASSUME NEW doc \in Documents
      PROVE  Backed(doc)' /\ (doc.check # None => Validated(doc.check)')
  <2>1. Backed(doc)'
    BY <1>1, BackedIsFinal DEF ReportInv, AnswerIsBacked, Backed
  <2>2. ASSUME doc.check # None PROVE Validated(doc.check)'
    <3>1. doc.check \in Records /\ Validated(doc.check)
      BY <2>2 DEF ReportInv, QuotedCheckWasValidated, Documents, ReportTypeOK, Checkpoints
    <3>2. QED BY <1>0, <3>1, ValidatedIsFinal
  <2>3. QED BY <2>1, <2>2
<1>2. ASSUME NEW b \in Builders, bpc[b] \in {"ready", "reported"},
             UNCHANGED <<vars, pub, draft>>
      PROVE  /\ Backed(draft[b])'
             /\ draft[b].check # None => Validated(draft[b].check)'
  BY <1>2 DEF ReportInv, BuilderInv, Backed, Validated, vars, toolVars
<1>3. ASSUME NEW doc \in Documents', doc \notin Documents
      PROVE  \E b \in Builders : /\ bpc[b] \in {"ready", "reported"} /\ doc = draft[b]
                                /\ UNCHANGED <<vars, pub, draft>>
  <2>1. ~UNCHANGED <<m3_report, m3_summary>>
    BY <1>3 DEF Documents
  <2>2. PICK b \in Builders : WriteReport(b) \/ WriteSummary(b)
    BY <2>1 DEF ReportNext, RunStep, StartRun, ClaimDir, PublishDir, RunBreaks, CheckStep,
      BuilderStep, ReadArtifact, LookForCheck, ReadBenchmark, ReadExecution, BuilderRaises,
      allVars, m3Vars
  <2>3. bpc[b] \in {"ready", "reported"} /\ UNCHANGED <<vars, pub, draft>>
    BY <2>2 DEF WriteReport, WriteSummary, runVars
  <2>4. doc = draft[b]
    BY <1>3, <2>2 DEF Documents, WriteReport, WriteSummary
  <2>5. QED BY <2>3, <2>4
<1>4. ASSUME NEW doc \in Documents'
      PROVE  Backed(doc)' /\ (doc.check # None => Validated(doc.check)')
  <2>1. CASE doc \in Documents
    BY <1>1, <2>1
  <2>2. CASE doc \notin Documents
    <3>1. PICK b \in Builders : /\ bpc[b] \in {"ready", "reported"} /\ doc = draft[b]
                               /\ UNCHANGED <<vars, pub, draft>>
      BY <1>3, <2>2
    <3>2. QED BY <1>2, <3>1
  <2>3. QED BY <2>1, <2>2
<1>5. QED
  BY <1>4 DEF AnswerIsBacked, QuotedCheckWasValidated, Backed

LEMMA ReportInitInv == ReportInit => ReportTypeOK /\ ReportInv
<1> SUFFICES ASSUME ReportInit PROVE ReportTypeOK /\ ReportInv
  OBVIOUS
<1>1. TypeOK /\ CrossCheckInv /\ record = None /\ verdict = [e \in Execs |-> NoVerdict]
  BY InitInv DEF ReportInit, Init
<1>2. ReportTypeOK
  BY <1>1 DEF ReportInit, ReportTypeOK, RunTypeOK, Register!Init, Register!TypeOK,
    Checkpoints, NoCheckpoint
<1>3. DirInv
  BY DEF ReportInit, Register!Init, DirInv, CheckFollowsRun
<1>4. SummaryInv
  BY <1>1 DEF SummaryInv, NoVerdict
<1>5. BuilderInv /\ AnswerIsBacked /\ QuotedCheckWasValidated
  BY DEF ReportInit, NoCheckpoint, BuilderInv, Documents, AnswerIsBacked,
    QuotedCheckWasValidated
<1>6. QED BY <1>1, <1>2, <1>3, <1>4, <1>5 DEF ReportInv

LEMMA ReportStep == ReportTypeOK /\ ReportInv /\ [ReportNext]_allVars => ReportInv'
<1> SUFFICES ASSUME ReportTypeOK, ReportInv, [ReportNext]_allVars PROVE ReportInv'
  OBVIOUS
<1>1. TypeOK /\ CrossCheckInv /\ SummaryInv /\ DirInv
  BY DEF ReportTypeOK, ReportInv
<1>2. CrossCheckInv' /\ SummaryInv'
  BY <1>1, StepOfCheck, InvStep, SummaryStep
<1>3. DirInv'
  BY <1>1, DirStep
<1>4. QED BY <1>2, <1>3, BuilderInvStep, DocumentStep DEF ReportInv

(* Types and invariant of the run directory and its users.                   *)
THEOREM ReportCorrect == ReportSpec => [](ReportTypeOK /\ ReportInv)
<1>1. ReportTypeOK /\ ReportInv /\ [ReportNext]_allVars => (ReportTypeOK /\ ReportInv)'
  BY ReportTypeStep, ReportStep DEF ReportInv
<1>2. QED BY <1>1, ReportInitInv, PTL DEF ReportSpec

(* The types hold.                                                           *)
THEOREM ReportTypes == ReportSpec => []ReportTypeOK
BY ReportCorrect, PTL

(* The documents of `lsp build-m3-report` answer for a measured success.     *)
THEOREM AnswersBacked == ReportSpec => []AnswerIsBacked
<1>1. ReportInv => AnswerIsBacked
  BY DEF ReportInv
<1>2. QED BY <1>1, ReportCorrect, PTL

(* The cross-checks they quote were validated.                               *)
THEOREM QuotedChecksValidated == ReportSpec => []QuotedCheckWasValidated
<1>1. ReportInv => QuotedCheckWasValidated
  BY DEF ReportInv
<1>2. QED BY <1>1, ReportCorrect, PTL

(* No run gets a directory that a cross-check was in before.                 *)
THEOREM ChecksFollowRuns == ReportSpec => []CheckFollowsRun
<1>1. ReportInv => CheckFollowsRun
  BY DEF ReportInv, DirInv
<1>2. QED BY <1>1, ReportCorrect, PTL

(* Whatever the runs and the builders do, the cross-checks of a run          *)
(* directory behave as CrossCheck says ...                                   *)
THEOREM RunsKeepCrossChecks == ReportSpec => Spec
<1>1. ReportInit => Init
  BY DEF ReportInit
<1>2. QED BY <1>1, StepOfCheck, PTL DEF ReportSpec, Spec

(* ... so that what they promise their callers, and what their records claim *)
(* of their tools, holds there too.                                          *)
THEOREM RecordsHoldInRuns ==
  ReportSpec => OutcomeSpec /\ [](CompletedIsVerified /\ TimedOutToolIsGone)
BY RunsKeepCrossChecks, CrossCheckImplementsOutcome, CompletedVerified, TimedOutGone, PTL

(* All documents of a run directory are about one run, for ever: a builder   *)
(* that is started later replaces a document by one about the same run.      *)
THEOREM DocumentsKeepTheirRun ==
  ReportSpec => [][\A old \in Documents, new \in Documents' : new.run = old.run]_allVars
<1>1. ASSUME ReportTypeOK, AnswerIsBacked, AnswerIsBacked', [ReportNext]_allVars,
             NEW old \in Documents, NEW new \in Documents'
      PROVE  new.run = old.run
  <2>1. Backed(old)'
    BY <1>1, BackedIsFinal DEF AnswerIsBacked, Backed
  <2>2. pub'[RunId] = [by |-> old.run, state |-> "success"]
    BY <2>1 DEF Backed
  <2>3. pub'[RunId] = [by |-> new.run, state |-> "success"]
    BY <1>1 DEF AnswerIsBacked
  <2>4. QED BY <2>2, <2>3
<1>2. ReportTypeOK /\ AnswerIsBacked /\ AnswerIsBacked' /\ [ReportNext]_allVars
        => [\A old \in Documents, new \in Documents' : new.run = old.run]_allVars
  BY <1>1
<1>3. QED BY <1>2, ReportTypes, AnswersBacked, PTL DEF ReportSpec

-----------------------------------------------------------------------------
(* As long as one execution at most has begun, reports and records agree.    *)
Alone(e) == \A f \in Execs \ {e} : xpc[f] = "idle"
SoleExecution == \E e \in Execs : Alone(e)

(* The report and the record are that execution's, a report that has been    *)
(* validated is not written again, and a record is final: its tool is gone,  *)
(* and the execution is at its end.                                          *)
OneReport(e) ==
  /\ report # None => report.by = e
  /\ record # None => record.by = e /\ xpc[e] \in {"done", "raised"}
  /\ record # None /\ record.summary # None => record.summary = report
  /\ xpc[e] = "validated" /\ verdict[e].summary # None => verdict[e].summary = report

(* A builder that has seen a record reads the report the record counts.      *)
OneQuote ==
  /\ \A b \in Builders :
       /\ bpc[b] \in {"idle", "read", "benchmark", "execution"} => draft[b].check = None
       /\ bpc[b] \in {"benchmark", "execution"} => record # None
       /\ bpc[b] = "execution" /\ record.summary # None =>
            draft[b].latencies = record.summary
       /\ draft[b].check # None => draft[b].latencies = draft[b].check.summary
  /\ QuotedFromOneReport

SoleInv == \A e \in Execs : Alone(e) => OneReport(e) /\ OneQuote

(* Whoever is alone after a step was alone before, and took it if anybody    *)
(* did.                                                                      *)
LEMMA AloneStep ==
  ASSUME TypeOK, CrossCheckInv, [Next]_vars, NEW e \in Execs, Alone(e)'
  PROVE  Alone(e) /\ (RepoStep(e) \/ Kill(e) \/ ToolStep(e) \/ UNCHANGED vars)
<1>1. CASE UNCHANGED vars
  BY <1>1 DEF Alone, vars
<1>2. ASSUME NEW f \in Execs, RepoStep(f) \/ Kill(f) \/ ToolStep(f)
      PROVE  f = e /\ Alone(e)
  <2>1. xpc'[f] # "idle"
    BY <1>2, ActingHasBegun DEF CrossCheckInv
  <2>2. f = e
    BY <2>1 DEF Alone
  <2>3. \A g \in Execs \ {e} : xpc'[g] = xpc[g]
    BY <1>2, <2>2, Locality DEF Untouched
  <2>4. QED BY <2>2, <2>3 DEF Alone
<1>3. QED BY <1>1, <1>2 DEF Next

LEMMA OneReportStep ==
  ASSUME NEW e \in Execs, Alone(e)', TypeOK, CrossCheckInv, SummaryInv,
         OneReport(e), [Next]_vars
  PROVE  /\ OneReport(e)'
         /\ record # None => UNCHANGED record
<1> USE DEF OneReport
<1>1. CASE UNCHANGED vars
  BY <1>1 DEF vars, toolVars, fileVars
<1>2. CASE RepoStep(e) \/ Kill(e)
  <2>1. ExecutionInv(e)
    BY DEF CrossCheckInv
  <2>2. CASE ValidateOutput(e)
    <3>1. Validation.summary # None => Validation.summary = report
      BY <2>2, ValidationSummary DEF ValidateOutput
    <3>2. QED BY <2>2, <3>1 DEF ValidateOutput, TypeOK, fileVars
  <2>3. CASE RecordExit(e)
    BY <2>3 DEF RecordExit, TypeOK
  <2>4. CASE RecordTimeout(e) \/ ToolUnusable(e)
    BY <2>4 DEF RecordTimeout, ToolUnusable, TypeOK
  <2>5. CASE ~(ValidateOutput(e) \/ RecordExit(e) \/ RecordTimeout(e) \/ ToolUnusable(e))
    BY <1>2, <2>5 DEF TypeOK, toolVars, fileVars, RepoStep, Kill, Prepare, StartTool,
      CommunicateReturns, TimeoutExpired, WaitTerm, WaitKill, LeaveUnrecorded
  <2>6. QED BY <2>2, <2>3, <2>4, <2>5
<1>3. CASE ToolStep(e)
  <2>1. CASE ToolWritesReport(e)
    <3>1. xpc[e] # "validated"
      BY <2>1 DEF ToolWritesReport, CrossCheckInv, ExecutionInv
    <3>2. ~(record # None /\ record.summary # None)
      <4>1. leader[e] = "running"
        BY <2>1 DEF ToolWritesReport
      <4>2. QED BY <4>1 DEF SummaryInv, Validated
    <3>3. QED BY <2>1, <3>1, <3>2 DEF ToolWritesReport
  <2>2. CASE ~ToolWritesReport(e)
    BY <1>3, <2>2 DEF ToolStep, ToolForks, ToolWritesCsv, LeaderExits, WorkerExits, fileVars
  <2>3. QED BY <2>1, <2>2
<1>4. QED BY <1>1, <1>2, <1>3, AloneStep

LEMMA OneQuoteStep ==
  ASSUME NEW e \in Execs, Alone(e)', ReportTypeOK, ReportInv, OneReport(e), OneQuote,
         [ReportNext]_allVars
  PROVE  OneQuote'
<1>0. record # None => UNCHANGED record
  BY OneReportStep, StepOfCheck DEF ReportTypeOK, ReportInv
<1> USE DEF OneQuote, QuotedFromOneReport, Documents
<1>1. CASE UNCHANGED m3Vars
  BY <1>0, <1>1 DEF m3Vars
<1>2. ASSUME NEW b \in Builders, BuilderStep(b) PROVE OneQuote'
  <2> USE DEF BuilderGoto
  <2>0. /\ draft \in [Builders -> Checkpoints] /\ DOMAIN bpc = Builders
        /\ \A c \in Builders : draft[c] \in Checkpoints
    BY DEF ReportTypeOK
  <2>1. UNCHANGED <<record, report>>
    BY <1>2 DEF BuilderStep, ReadArtifact, LookForCheck, ReadBenchmark, ReadExecution,
      WriteReport, WriteSummary, BuilderRaises, vars, fileVars
  <2>2. ASSUME NEW c \in Builders, c # b PROVE draft'[c] = draft[c] /\ bpc'[c] = bpc[c]
    BY <1>2, <2>0, <2>2 DEF BuilderStep, ReadArtifact, LookForCheck, ReadBenchmark,
      ReadExecution, WriteReport, WriteSummary, BuilderRaises
  <2>3. CASE ReadArtifact(b)
    <3>1. /\ bpc[b] = "idle" /\ bpc'[b] \in {"read", "raised"}
          /\ draft'[b].check = draft[b].check
      BY <2>0, <2>3 DEF ReadArtifact, Checkpoints
    <3>2. QED BY <2>1, <2>2, <2>3, <3>1 DEF ReadArtifact
  <2>4. CASE LookForCheck(b)
    BY <2>0, <2>1, <2>2, <2>4 DEF LookForCheck
  <2>5. CASE ReadBenchmark(b)
    <3>1. /\ bpc[b] = "benchmark" /\ draft'[b].check = draft[b].check
          /\ \/ bpc'[b] = "raised" /\ draft' = draft
             \/ bpc'[b] = "execution" /\ draft'[b].latencies = report
      BY <2>0, <2>5 DEF ReadBenchmark, Checkpoints
    <3>2. record # None /\ (record.summary # None => record.summary = report)
      BY <3>1 DEF OneReport
    <3>3. QED BY <2>1, <2>2, <2>5, <3>1, <3>2 DEF ReadBenchmark
  <2>6. CASE ReadExecution(b)
    <3>1. /\ bpc[b] = "execution" /\ bpc'[b] \in {"ready", "raised"}
          /\ draft'[b].latencies = draft[b].latencies
          /\ \/ draft' = draft
             \/ draft'[b].check = record /\ record.summary # None
      BY <2>0, <2>6 DEF ReadExecution, Checkpoints
    <3>2. QED BY <2>1, <2>2, <2>6, <3>1 DEF ReadExecution
  <2>7. CASE WriteReport(b)
    BY <2>0, <2>1, <2>2, <2>7 DEF WriteReport
  <2>8. CASE WriteSummary(b)
    BY <2>0, <2>1, <2>2, <2>8 DEF WriteSummary
  <2>9. CASE BuilderRaises(b)
    BY <2>0, <2>1, <2>2, <2>9 DEF BuilderRaises
  <2>10. QED
    BY <1>2, <2>3, <2>4, <2>5, <2>6, <2>7, <2>8, <2>9 DEF BuilderStep
<1>3. QED
  BY <1>1, <1>2 DEF ReportNext, RunStep, StartRun, ClaimDir, PublishDir, RunBreaks,
    CheckStep, allVars

LEMMA SoleStep ==
  ReportTypeOK /\ ReportInv /\ SoleInv /\ [ReportNext]_allVars => SoleInv'
<1> SUFFICES ASSUME ReportTypeOK, ReportInv, SoleInv, [ReportNext]_allVars,
                    NEW e \in Execs, Alone(e)'
             PROVE  OneReport(e)' /\ OneQuote'
  BY DEF SoleInv
<1>1. TypeOK /\ CrossCheckInv /\ SummaryInv /\ [Next]_vars
  BY StepOfCheck DEF ReportTypeOK, ReportInv
<1>2. OneReport(e) /\ OneQuote
  BY <1>1, AloneStep DEF SoleInv
<1>3. QED BY <1>1, <1>2, OneReportStep, OneQuoteStep

(* The invariant of a run directory, together with what it says of one that  *)
(* has seen one execution so far.                                            *)
THEOREM SoleCorrect == ReportSpec => [](ReportTypeOK /\ ReportInv /\ SoleInv)
<1>1. ReportInit => SoleInv
  BY DEF ReportInit, Init, Register!Init, NoCheckpoint, NoVerdict, SoleInv, OneReport,
    OneQuote, QuotedFromOneReport, Documents
<1>2. QED BY <1>1, SoleStep, ReportCorrect, PTL DEF ReportSpec

(* Until a second execution begins in a run directory, the latencies and the *)
(* counts in the documents of `lsp build-m3-report` are one report's,        *)
(* however many builders read and write at the same time as the execution.   *)
THEOREM DocumentsQuoteOneReport ==
  ReportSpec => [](SoleExecution => QuotedFromOneReport)
<1>1. SoleInv => (SoleExecution => QuotedFromOneReport)
  BY DEF SoleInv, SoleExecution, OneQuote
<1>2. QED BY <1>1, SoleCorrect, PTL

=============================================================================
