------------------------------- MODULE RunReport -------------------------------
(***************************************************************************)
(* One run directory, artifacts/<run_id>, and everyone who uses it: the    *)
(* runs that were given this run id (`lsp run`, `lsp run --dry-run`, `lsp  *)
(* fake-run`), the cross-checks executed into its guidellm/ subdirectory,  *)
(* and `lsp build-m3-report`, which reads the artifact and the cross-check *)
(* and writes m3_report.md and m3_summary.md.                              *)
(*                                                                         *)
(* The bundle of a run stands for the register that ArtifactStore is shown *)
(* to implement: a reader finds nothing, a claimed directory it rejects,   *)
(* or the finished artifact of one run, whose files do not change again.   *)
(***************************************************************************)
EXTENDS CrossCheck

CONSTANTS
  Runs, RunId,
  DryRuns, FakeRuns,   (* the others of Runs measure a server                *)
  Builders             (* the invocations of build-m3-report                 *)

ASSUME RunReportAssumption ==
  /\ None \notin Runs
  /\ DryRuns \subseteq Runs /\ FakeRuns \subseteq Runs

VARIABLES
  pub,        (* pub[RunId]: the artifact a reader finds                     *)
  rpc,        (* rpc[w]: where run w is                                      *)
  early,      (* the executions that found no run directory and made it      *)
  bpc,        (* bpc[b]: where builder b is                                  *)
  draft,      (* draft[b]: the ReportingCheckpoint it has read so far        *)
  m3_report,  (* m3_report.md: the checkpoint it presents                    *)
  m3_summary  (* m3_summary.md                                               *)

runVars == <<pub, rpc, early>>
m3Vars == <<bpc, draft, m3_report, m3_summary>>
allVars == <<vars, runVars, m3Vars>>

Register == INSTANCE ArtifactRegister
              WITH Dirs <- {RunId}, Target <- [w \in Runs |-> RunId]

(* The run, and of the cross-check the latencies of benchmark.json and the   *)
(* record the request counts are taken from.                                 *)
Checkpoints == [run : Runs \cup {None}, latencies : Reports \cup {None},
                check : Records \cup {None}]
NoCheckpoint == [run |-> None, latencies |-> None, check |-> None]

RunTypeOK ==
  /\ Register!TypeOK
  /\ rpc \in [Runs -> {"idle", "working", "claimed", "done", "ended"}]
  /\ early \subseteq Execs

ReportTypeOK ==
  /\ TypeOK
  /\ RunTypeOK
  /\ bpc \in [Builders -> {"idle", "read", "benchmark", "execution", "ready",
                           "reported", "done", "raised"}]
  /\ draft \in [Builders -> Checkpoints]
  /\ m3_report \in Checkpoints \cup {None}
  /\ m3_summary \in Checkpoints \cup {None}

ReportInit ==
  /\ Init
  /\ Register!Init
  /\ rpc = [w \in Runs |-> "idle"]
  /\ early = {}
  /\ bpc = [b \in Builders |-> "idle"]
  /\ draft = [b \in Builders |-> NoCheckpoint]
  /\ m3_report = None
  /\ m3_summary = None

-----------------------------------------------------------------------------
(* A run makes the directory, and so does an execution: its mkdir of the     *)
(* guidellm subdirectory has parents=True.                                   *)
DirExists == pub[RunId] # Register!Absent \/ \E e \in Execs : xpc[e] # "idle"

RunGoto(w, place) == rpc' = [rpc EXCEPT ![w] = place]

(* if run_dir.exists(): raise ValidationError, the first look.               *)
StartRun(w) ==
  /\ rpc[w] = "idle"
  /\ RunGoto(w, IF DirExists THEN "ended" ELSE "working")
  /\ UNCHANGED <<vars, pub, early, m3Vars>>

(* A mutant of ClaimDir: only a directory another run has made is noticed.   *)
ClaimDirOfRuns(w) ==
  /\ rpc[w] = "working"
  /\ IF pub[RunId] # Register!Absent
       THEN RunGoto(w, "ended") /\ UNCHANGED pub
       ELSE RunGoto(w, "claimed") /\ Register!Claim(w)
  /\ UNCHANGED <<vars, early, m3Vars>>

(* The work is done, and mkdir(exist_ok=False) takes the second look.        *)
ClaimDir(w) ==
  /\ rpc[w] = "working"
  /\ IF DirExists
       THEN RunGoto(w, "ended") /\ UNCHANGED pub
       ELSE RunGoto(w, "claimed") /\ Register!Claim(w)
  /\ UNCHANGED <<vars, early, m3Vars>>

(* A mutant of PublishDir: an interrupted run says so in its artifact.       *)
PublishDirInterrupted(w) ==
  /\ rpc[w] = "claimed"
  /\ \E status \in {"success", "interrupted"} : Register!Publish(w, status)
  /\ RunGoto(w, "done")
  /\ UNCHANGED <<vars, early, m3Vars>>

(* Only a run that measures a server can fail and say so in an artifact.     *)
PublishDir(w) ==
  /\ rpc[w] = "claimed"
  /\ \/ Register!Publish(w, "success")
     \/ w \notin DryRuns \cup FakeRuns /\ Register!Publish(w, "failed")
  /\ RunGoto(w, "done")
  /\ UNCHANGED <<vars, early, m3Vars>>

(* The run is killed, or an error nobody handles ends it.                    *)
RunBreaks(w) ==
  /\ rpc[w] \in {"working", "claimed"}
  /\ RunGoto(w, "ended")
  /\ UNCHANGED <<vars, pub, early, m3Vars>>

RunStep(w) == StartRun(w) \/ ClaimDir(w) \/ PublishDir(w) \/ RunBreaks(w)

(* A step of an execution, its tool, or its death.  `early` remembers who    *)
(* made the run directory.                                                   *)
CheckStep(e) ==
  /\ RepoStep(e) \/ Kill(e) \/ ToolStep(e)
  /\ early' = IF xpc[e] = "idle" /\ ~DirExists THEN early \cup {e} ELSE early
  /\ UNCHANGED <<pub, rpc, m3Vars>>

-----------------------------------------------------------------------------
(* What the scorecard and metrics.parquet of an artifact hold of the things  *)
(* the report needs.                                                         *)
FakeContents == {"request_count"}
DryContents == {"request_count", "response_count"}
RealContents == {"request_count", "response_count", "official_metrics_missing",
                 "client_request_latency_seconds"}

(* A mutant of FailedContents: it keeps what was measured until then.        *)
FailedContentsKept == RealContents

FailedContents == {}

Contents(w, status) ==
  CASE w \in FakeRuns -> FakeContents
    [] w \in DryRuns \ FakeRuns -> DryContents
    [] w \notin DryRuns \cup FakeRuns ->
         IF status = "failed" THEN FailedContents ELSE RealContents

Required == {"request_count", "response_count", "official_metrics_missing",
             "client_request_latency_seconds"}

BuilderGoto(b, place) == bpc' = [bpc EXCEPT ![b] = place]

(* validate_artifact_dir, the scorecard and the latencies.  Neither the      *)
(* status nor the mode of run.json is looked at.                             *)
ReadArtifact(b) ==
  /\ bpc[b] = "idle"
  /\ LET found == pub[RunId] IN
     IF found.state \in {"success", "failed"}
          /\ Required \subseteq Contents(found.by, found.state)
       THEN draft' = [draft EXCEPT ![b].run = found.by] /\ BuilderGoto(b, "read")
       ELSE BuilderGoto(b, "raised") /\ UNCHANGED draft
  /\ UNCHANGED <<vars, runVars, m3_report, m3_summary>>

(* A mutant of LookForCheck: the record is not looked for.                   *)
LookForBenchmark(b) ==
  /\ bpc[b] = "read"
  /\ BuilderGoto(b, IF report = None THEN "ready" ELSE "benchmark")
  /\ UNCHANGED <<vars, runVars, draft, m3_report, m3_summary>>

(* _extract_guidellm_summary: no cross-check unless both files exist.        *)
LookForCheck(b) ==
  /\ bpc[b] = "read"
  /\ BuilderGoto(b, IF report = None \/ record = None THEN "ready" ELSE "benchmark")
  /\ UNCHANGED <<vars, runVars, draft, m3_report, m3_summary>>

ReadBenchmark(b) ==
  /\ bpc[b] = "benchmark"
  /\ IF report # None /\ report.quality \in {"clean", "unclean"}
       THEN draft' = [draft EXCEPT ![b].latencies = report] /\ BuilderGoto(b, "execution")
       ELSE BuilderGoto(b, "raised") /\ UNCHANGED draft
  /\ UNCHANGED <<vars, runVars, m3_report, m3_summary>>

(* A mutant of ReadExecution: a record without a summary will do.            *)
ReadExecutionAnyway(b) ==
  /\ bpc[b] = "execution"
  /\ draft' = [draft EXCEPT ![b].check = record]
  /\ BuilderGoto(b, "ready")
  /\ UNCHANGED <<vars, runVars, m3_report, m3_summary>>

(* The counts come from the summary in the record.  The status of the record *)
(* is not looked at.                                                         *)
ReadExecution(b) ==
  /\ bpc[b] = "execution"
  /\ IF record # None /\ record.summary # None
       THEN draft' = [draft EXCEPT ![b].check = record] /\ BuilderGoto(b, "ready")
       ELSE BuilderGoto(b, "raised") /\ UNCHANGED draft
  /\ UNCHANGED <<vars, runVars, m3_report, m3_summary>>

WriteReport(b) ==
  /\ bpc[b] = "ready"
  /\ m3_report' = draft[b]
  /\ BuilderGoto(b, "reported")
  /\ UNCHANGED <<vars, runVars, draft, m3_summary>>

WriteSummary(b) ==
  /\ bpc[b] = "reported"
  /\ m3_summary' = draft[b]
  /\ BuilderGoto(b, "done")
  /\ UNCHANGED <<vars, runVars, draft, m3_report>>

(* A file that is being written, a benchmark without the latencies, a full   *)
(* disk, or the builder is killed.                                           *)
BuilderRaises(b) ==
  /\ bpc[b] \in {"read", "benchmark", "execution", "ready", "reported"}
  /\ BuilderGoto(b, "raised")
  /\ UNCHANGED <<vars, runVars, draft, m3_report, m3_summary>>

BuilderStep(b) ==
  \/ ReadArtifact(b) \/ LookForCheck(b) \/ ReadBenchmark(b) \/ ReadExecution(b)
  \/ WriteReport(b) \/ WriteSummary(b) \/ BuilderRaises(b)

ReportNext ==
  \/ \E w \in Runs : RunStep(w)
  \/ \E e \in Execs : CheckStep(e)
  \/ \E b \in Builders : BuilderStep(b)

ReportSpec == ReportInit /\ [][ReportNext]_allVars

(* As in CrossCheck, the process of an execution runs and the tool need not. *)
FairReportSpec == ReportSpec /\ \A e \in Execs : WF_vars(RepoStep(e))

-----------------------------------------------------------------------------
Documents == {m3_report, m3_summary} \ {None}

(* "Answer: yes. The controller path completed ..." is only said of a run    *)
(* that measured a server and succeeded, and stays true: no artifact of a    *)
(* dry run, a fake run or a failed run gets through, although the builder    *)
(* looks at neither the mode nor the status.                                 *)
AnswerIsBacked ==
  \A doc \in Documents :
    /\ doc.run \in Runs \ (DryRuns \cup FakeRuns)
    /\ pub[RunId] = [by |-> doc.run, state |-> "success"]

(* "the saved GuideLLM run also completed ...": the record a document quotes *)
(* counts a report that was validated after its tool had ended with code 0.  *)
Validated(check) ==
  /\ check.summary # None
  /\ check.status \in {"completed", "artifact_incomplete"}
  /\ leader[check.by] = "gone" /\ code[check.by] = 0 /\ worker[check.by] # "piped"

QuotedCheckWasValidated ==
  \A doc \in Documents : doc.check # None => Validated(doc.check)

(* The latencies and the request counts a document quotes as one GuideLLM    *)
(* run belong to one report, provided the directory has seen one execution.  *)
QuotedFromOneReport ==
  \A doc \in Documents : doc.check # None => doc.latencies = doc.check.summary

(* The cross-checks of a run directory follow the run: an execution that was *)
(* there first keeps every run out of the directory.                         *)
CheckFollowsRun == pub[RunId] # Register!Absent => early = {}

=============================================================================
