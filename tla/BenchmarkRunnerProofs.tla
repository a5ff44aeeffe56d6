------------------------- MODULE BenchmarkRunnerProofs -------------------------
(***************************************************************************)
(* Proofs about BenchmarkRunner, for any number of runs, directories,      *)
(* requests and probes, and any assignment of run ids, launch commands and *)
(* --dry-run flags to the runs.                                            *)
(***************************************************************************)
EXTENDS BenchmarkRunner, ArtifactStoreProofs

-----------------------------------------------------------------------------
(* The steps of a run are steps of the artifact store, or leave it alone.    *)
LEMMA BundlesOfRuns ==
  /\ DryBundle \in Bundles /\ FailureBundle \in Bundles
  /\ AdapterTypeOK => \A c \in Runs : SuccessBundle(c) \in Bundles
BY LabAssumption DEF DryBundle, FailureBundle, SuccessBundle, Bundles, AdapterTypeOK

LEMMA RunIsStoreStep ==
  ASSUME AdapterTypeOK, [Next]_vars
  PROVE  [StoreNext]_storeVars
<1>1. CASE UNCHANGED vars
  BY <1>1 DEF vars
<1>2. CASE Host
  BY <1>2 DEF Host
<1>3. ASSUME NEW c \in Runs, RunStep(c)
      PROVE  [StoreNext]_storeVars
  <2>1. ASSUME NEW b \in Bundles, BeginBundle(c, b)  PROVE StoreNext
    BY <2>1 DEF StoreNext
  <2>2. CASE BeginDryRun(c)
    BY <2>1, <2>2, BundlesOfRuns DEF BeginDryRun
  <2>3. CASE RecordSuccess(c)
    BY <2>1, <2>3, BundlesOfRuns DEF RecordSuccess
  <2>4. CASE RecordFailure(c)
    BY <2>1, <2>4, BundlesOfRuns DEF RecordFailure
  <2>5. CASE Save(c)
    BY <2>5 DEF Save, StoreNext
  <2>6. CASE RefuseRun(c) \/ BeginRealRun(c) \/ Serve(c) \/ Escape(c)
               \/ Saved(c) \/ Stop(c) \/ Stopped(c)
    BY <2>6 DEF RefuseRun, BeginRealRun, Serve, Escape, Saved, Stop, Stopped
  <2> QED BY <1>3, <2>2, <2>3, <2>4, <2>5, <2>6 DEF RunStep
<1>4. ASSUME NEW c \in Runs, Kill(c)
      PROVE  UNCHANGED storeVars
  BY <1>4 DEF Kill
<1> QED BY <1>1, <1>2, <1>3, <1>4 DEF Next

-----------------------------------------------------------------------------
(* Type correctness of the adapters.                                         *)
LEMMA HostTypeStep ==
  ASSUME HostTypeOK, HostStep
  PROVE  HostTypeOK'
BY HostAssumption DEF HostTypeOK, HostStep, StartExternal, Bind, ProcExit, Procs

LEMMA LaunchType ==
  ASSUME AdapterTypeOK, NEW r \in Runs, LaunchStep(r)
  PROVE  AdapterTypeOK'
<1> USE DEF AdapterTypeOK, HostTypeOK, hostVars, Goto, Raise, AdapterStates, Phases,
            ProbePhases
<1>1. CASE LaunchCall(r)
  <2>1. r \in Procs
    BY DEF Procs
  <2>2. /\ proc' \in [Procs -> {"absent", "booting", "serving", "exited"}]
        /\ handle' \in [Runs -> BOOLEAN]
    <3>1. \/ proc' = [proc EXCEPT ![r] = "booting"] /\ handle' = [handle EXCEPT ![r] = TRUE]
          \/ UNCHANGED <<proc, handle>>
      BY <1>1 DEF LaunchCall, StartProcess
    <3>2. [proc EXCEPT ![r] = "booting"] \in [Procs -> {"absent", "booting", "serving", "exited"}]
      BY <2>1
    <3>3. [handle EXCEPT ![r] = TRUE] \in [Runs -> BOOLEAN]
      BY Zenon
    <3> QED BY <3>1, <3>2, <3>3
  <2>3. apc' \in [Runs -> AdapterStates] /\ raised' \in [Runs -> Phases \cup {"none", "escaped"}]
    BY <1>1 DEF LaunchCall, StartProcess
  <2> QED BY <1>1, <2>2, <2>3 DEF LaunchCall
<1>2. CASE DeadlinePassed(r)
  <2>1. TimeoutPhase(r) \in Phases
    BY DEF TimeoutPhase
  <2> QED BY <1>2, <2>1, AdapterAssumption DEF DeadlinePassed, LeaveLaunch
<1>3. CASE ProcessGone(r)
  BY <1>3, AdapterAssumption DEF ProcessGone, LeaveLaunch
<1>4. CASE BeginProbe(r)
  BY <1>4, AdapterAssumption DEF BeginProbe
<1>5. ASSUME NEW err, err \in ProbePhases \cup {"escaped"}, ProbeFailed(r, err),
             UNCHANGED <<hostVars, handle, answered, servedBy>>
      PROVE  AdapterTypeOK'
  BY <1>5, AdapterAssumption DEF ProbeFailed, LeaveLaunch
<1>6. CASE HealthProbe(r)
  <2>1. ASSUME NEW reply \in PossibleReplies
        PROVE  HealthError(reply) \in ProbePhases \cup {"none", "escaped"}
    BY DEF HealthError, PossibleReplies, Replies
  <2> QED BY <1>5, <1>6, <2>1 DEF HealthProbe
<1>7. CASE VersionProbe(r)
  <2>1. ASSUME NEW reply \in PossibleReplies
        PROVE  VersionError(reply) \in ProbePhases \cup {"none", "escaped"}
    BY DEF VersionError
  <2> QED BY <1>5, <1>7, <2>1, AdapterAssumption DEF VersionProbe, LeaveLaunch
<1> QED BY <1>1, <1>2, <1>3, <1>4, <1>6, <1>7 DEF LaunchStep

LEMMA ReplayType ==
  ASSUME AdapterTypeOK, NEW r \in Runs, Submit(r) \/ CollectMetrics(r)
  PROVE  AdapterTypeOK'
<1> USE DEF AdapterTypeOK, HostTypeOK, hostVars, Goto, Raise, AdapterStates, Phases,
            ProbePhases
<1>1. CASE Submit(r)
  <2>1. PICK reply \in PossibleReplies :
          IF SubmitError(reply) = "none"
            THEN /\ answered' = [answered EXCEPT ![r] = @ + 1]
                 /\ servedBy' = [servedBy EXCEPT ![r] = @ \cup {bound}]
                 /\ UNCHANGED <<apc, raised>>
            ELSE /\ Raise(r, SubmitError(reply))
                 /\ UNCHANGED <<answered, servedBy>>
    BY <1>1 DEF Submit
  <2>2. SubmitError(reply) \in Phases \cup {"none", "escaped"}
    BY DEF SubmitError
  <2>3. CASE SubmitError(reply) = "none"
    <3>1. bound # None
      BY <2>3 DEF SubmitError, PossibleReplies
    <3>2. bound \in Procs
      BY <3>1
    <3>3. answered' \in [Runs -> 0 .. NumRequests]
      BY <1>1, <2>1, <2>3, LabAssumption DEF Submit
    <3> QED BY <1>1, <2>1, <2>3, <3>2, <3>3 DEF Submit
  <2>4. CASE SubmitError(reply) # "none"
    BY <1>1, <2>1, <2>2, <2>4 DEF Submit
  <2> QED BY <2>3, <2>4
<1>2. CASE CollectMetrics(r)
  <2>1. ASSUME NEW reply \in PossibleReplies
        PROVE  MetricsError(reply) \in Phases \cup {"none", "escaped"}
    BY DEF MetricsError
  <2> QED BY <1>2, <2>1 DEF CollectMetrics
<1> QED BY <1>1, <1>2

LEMMA StopType ==
  ASSUME AdapterTypeOK, NEW r \in Runs, StopStep(r)
  PROVE  AdapterTypeOK'
<1> USE DEF AdapterTypeOK, HostTypeOK, Procs, Goto, AdapterStates, Reaped
<1>1. CASE StopCall(r)
  BY <1>1 DEF StopCall
<1>2. CASE WaitTerm(r)
  BY <1>2 DEF WaitTerm
<1>3. CASE WaitKill(r)
  BY <1>3 DEF WaitKill
<1> QED BY <1>1, <1>2, <1>3 DEF StopStep

LEMMA ServeType ==
  ASSUME AdapterTypeOK, NEW r \in Runs, ServeStep(r)
  PROVE  AdapterTypeOK'
BY LaunchType, ReplayType DEF ServeStep

LEMMA TypeInit == Init => TypeOK
<1> SUFFICES ASSUME Init  PROVE TypeOK
  OBVIOUS
<1>1. AdapterTypeOK
  BY LabAssumption, AdapterAssumption
  DEF Init, AdapterInit, HostInit, AdapterTypeOK, HostTypeOK, AdapterStates
<1>2. StoreTypeOK
  BY StoreTypeInit DEF Init
<1> QED BY <1>1, <1>2 DEF Init, TypeOK, Exits

LEMMA TypeStep ==
  ASSUME TypeOK, StoreInv, [Next]_vars
  PROVE  TypeOK'
<1>1. StoreTypeOK'
  BY RunIsStoreStep, StoreTypeStep DEF TypeOK, StoreInv
<1>2. AdapterTypeOK'
  <2>1. ASSUME UNCHANGED adapterVars  PROVE AdapterTypeOK'
    BY <2>1 DEF TypeOK, AdapterTypeOK, HostTypeOK, adapterVars, hostVars, adapterOnly
  <2>2. CASE Host
    BY <2>2, HostTypeStep DEF Host, adapterOnly, TypeOK, AdapterTypeOK
  <2>3. ASSUME NEW c \in Runs, Serve(c) \/ Stop(c)  PROVE AdapterTypeOK'
    BY <2>3, ServeType, StopType DEF Serve, Stop, TypeOK
  <2>4. ASSUME NEW c \in Runs, RecordFailure(c)  PROVE AdapterTypeOK'
    BY <2>4 DEF RecordFailure, TypeOK, AdapterTypeOK, HostTypeOK, hostVars
  <2>5. ASSUME NEW c \in Runs,
               \/ RefuseRun(c) \/ BeginDryRun(c) \/ BeginRealRun(c) \/ RecordSuccess(c)
               \/ Escape(c) \/ Save(c) \/ Saved(c) \/ Stopped(c) \/ Kill(c)
        PROVE  UNCHANGED adapterVars
    BY <2>5 DEF RefuseRun, BeginDryRun, BeginRealRun, RecordSuccess, Escape, Save, Saved,
                Stopped, Kill
  <2> QED BY <2>1, <2>2, <2>3, <2>4, <2>5 DEF Next, RunStep, vars
<1>3. /\ pc' \in [Runs -> {"start", "serve", "save", "stop", "end"}]
      /\ exit' \in [Runs -> Exits]
  <2> USE DEF TypeOK, Exits, Advance, ExitWith
  <2>1. ASSUME NEW c \in Runs, Saved(c)
        PROVE  /\ pc' \in [Runs -> {"start", "serve", "save", "stop", "end"}]
               /\ exit' \in [Runs -> Exits]
    <3>1. SaveOutcome(c) \in Exits
      BY DEF SaveOutcome
    <3> QED BY <2>1, <3>1 DEF Saved
  <2>2. ASSUME NEW c \in Runs,
               \/ RefuseRun(c) \/ BeginDryRun(c) \/ BeginRealRun(c) \/ RecordSuccess(c)
               \/ RecordFailure(c) \/ Escape(c) \/ Stopped(c) \/ Kill(c)
        PROVE  /\ pc' \in [Runs -> {"start", "serve", "save", "stop", "end"}]
               /\ exit' \in [Runs -> Exits]
    BY <2>2 DEF RefuseRun, BeginDryRun, BeginRealRun, RecordSuccess, RecordFailure, Escape,
                Stopped, Kill
  <2>3. ASSUME NEW c \in Runs, Serve(c) \/ Save(c) \/ Stop(c)  PROVE UNCHANGED <<pc, exit>>
    BY <2>3 DEF Serve, Save, Stop
  <2> QED BY <2>1, <2>2, <2>3 DEF Next, RunStep, Host, vars
<1> QED BY <1>1, <1>2, <1>3 DEF TypeOK

LEMMA TypeAndStore == Spec => [](TypeOK /\ StoreInv)
<1>1. Init => TypeOK /\ StoreInv
  BY TypeInit, StoreInvInit DEF Init
<1>2. TypeOK /\ StoreInv /\ [Next]_vars => TypeOK' /\ StoreInv'
  BY TypeStep, RunIsStoreStep, StoreInvStep DEF TypeOK
<1> QED BY <1>1, <1>2, PTL DEF Spec

(* Every state of the runs, their adapters, the machine and the artifact     *)
(* tree is well typed.                                                       *)
THEOREM TypeCorrect == Spec => []TypeOK
BY TypeAndStore, PTL

(* The runs use the artifact store as it is meant to be used ...             *)
THEOREM RunsUseStore == Spec => StoreSpec
<1>1. Init => StoreInit
  BY DEF Init
<1>2. TypeOK /\ [Next]_vars => [StoreNext]_storeVars
  BY RunIsStoreStep DEF TypeOK
<1> QED BY <1>1, <1>2, TypeCorrect, PTL DEF Spec, StoreSpec

(* ... and so a run directory is a write-once register of verdicts also for  *)
(* runs that race, fail, leave servers behind or are killed ...              *)
THEOREM RunsImplementRegister == Spec => RegisterSpec
BY RunsUseStore, StoreImplementsRegister, PTL

(* ... and readers accept complete artifacts only.                           *)
THEOREM RunsValidComplete == Spec => []ValidIsComplete
BY RunsUseStore, ValidComplete, PTL

(* ... which no run changes any more.                                        *)
THEOREM RunsAcceptedFrozen == Spec => AcceptedIsFrozen
BY RunsUseStore, AcceptedFrozen, PTL

-----------------------------------------------------------------------------
(* The invariant RunnerInv.  Every part of it is about one run at a time, so *)
(* the lemmas say what a step does to the run that takes it, and that it     *)
(* leaves the parts of every other run alone.                                *)
PartsSame(r) ==
  /\ pc'[r] = pc[r] /\ exit'[r] = exit[r]
  /\ wpc'[r] = wpc[r] /\ bundle'[r] = bundle[r]
  /\ apc'[r] = apc[r] /\ answered'[r] = answered[r] /\ servedBy'[r] = servedBy[r]
  /\ handle'[r] = handle[r] /\ proc'[r] = proc[r] /\ signal'[r] = signal[r]

LEMMA ServeFrame ==
  ASSUME AdapterTypeOK, NEW c \in Runs, ServeStep(c), NEW r \in Runs, r # c
  PROVE  /\ apc'[r] = apc[r] /\ answered'[r] = answered[r] /\ servedBy'[r] = servedBy[r]
         /\ handle'[r] = handle[r] /\ proc'[r] = proc[r] /\ signal'[r] = signal[r]
<1> USE DEF AdapterTypeOK, HostTypeOK, hostVars, Goto, Raise, LeaveLaunch, Procs
<1>1. CASE LaunchCall(c)
  BY <1>1 DEF LaunchCall, StartProcess
<1>2. CASE DeadlinePassed(c) \/ ProcessGone(c) \/ BeginProbe(c)
  BY <1>2 DEF DeadlinePassed, ProcessGone, BeginProbe
<1>3. CASE HealthProbe(c)
  BY <1>3 DEF HealthProbe, ProbeFailed
<1>4. CASE VersionProbe(c)
  BY <1>4 DEF VersionProbe, ProbeFailed
<1>5. CASE Submit(c)
  BY <1>5 DEF Submit
<1>6. CASE CollectMetrics(c)
  BY <1>6 DEF CollectMetrics
<1> QED BY <1>1, <1>2, <1>3, <1>4, <1>5, <1>6 DEF ServeStep, LaunchStep

LEMMA StopFrame ==
  ASSUME AdapterTypeOK, NEW c \in Runs, StopStep(c), NEW r \in Runs, r # c
  PROVE  /\ apc'[r] = apc[r] /\ answered'[r] = answered[r] /\ servedBy'[r] = servedBy[r]
         /\ handle'[r] = handle[r] /\ proc'[r] = proc[r] /\ signal'[r] = signal[r]
BY DEF AdapterTypeOK, HostTypeOK, StopStep, StopCall, WaitTerm, WaitKill, Reaped, Goto, Procs

LEMMA WriteFrame ==
  ASSUME StoreTypeOK, NEW c \in Runs, NEW r \in Runs, r # c,
         WriteStep(c) \/ \E b \in Bundles : BeginBundle(c, b)
  PROVE  wpc'[r] = wpc[r] /\ bundle'[r] = bundle[r]
BY DEF StoreTypeOK, WriteStep, BeginBundle, Claim, CreateEntry, FillEntry, WriteError,
       Validate, WriterGoto

LEMMA RunFrame ==
  ASSUME TypeOK, NEW c \in Runs, RunStep(c) \/ Kill(c), NEW r \in Runs, r # c
  PROVE  PartsSame(r)
<1> USE DEF TypeOK, PartsSame, Advance, ExitWith, adapterVars, hostVars, adapterOnly, storeVars
<1>1. CASE RefuseRun(c) \/ BeginRealRun(c) \/ Escape(c) \/ Saved(c) \/ Stopped(c) \/ Kill(c)
  BY <1>1 DEF RefuseRun, BeginRealRun, Escape, Saved, Stopped, Kill
<1>2. CASE BeginDryRun(c) \/ RecordSuccess(c) \/ RecordFailure(c)
  <2>1. wpc'[r] = wpc[r] /\ bundle'[r] = bundle[r]
    BY <1>2, WriteFrame, BundlesOfRuns DEF BeginDryRun, RecordSuccess, RecordFailure
  <2> QED BY <1>2, <2>1 DEF BeginDryRun, RecordSuccess, RecordFailure
<1>3. CASE Serve(c)
  BY <1>3, ServeFrame DEF Serve
<1>4. CASE Save(c)
  BY <1>4, WriteFrame DEF Save
<1>5. CASE Stop(c)
  BY <1>5, StopFrame DEF Stop
<1> QED BY <1>1, <1>2, <1>3, <1>4, <1>5 DEF RunStep

LEMMA HostFrame ==
  ASSUME TypeOK, Host, NEW r \in Runs
  PROVE  /\ pc' = pc /\ exit' = exit /\ wpc' = wpc /\ bundle' = bundle
         /\ apc' = apc /\ answered' = answered /\ servedBy' = servedBy
         /\ handle' = handle /\ signal' = signal
         /\ Alive(r)' => Alive(r)
         /\ proc[r] = "absent" => proc'[r] = "absent"
BY HostAssumption DEF TypeOK, AdapterTypeOK, HostTypeOK, Host, HostStep, StartExternal, Bind,
   ProcExit, Alive, adapterOnly, storeVars, Procs

(* What the steps do to the run that takes them.                             *)
LEMMA ServeEffect ==
  ASSUME TypeOK, NEW c \in Runs, Backed(c), Handled(c), ServeStep(c)
  PROVE  /\ apc'[c] \in {"polling", "probing", "fetching", "ready", "collected", "failed"}
         /\ answered'[c] > 0 => servedBy'[c] # {}
         /\ apc'[c] = "collected" => answered'[c] = NumRequests
         /\ Alive(c)' => handle'[c]
<1> USE DEF TypeOK, AdapterTypeOK, HostTypeOK, hostVars, Goto, Raise, LeaveLaunch, Procs,
            Alive
<1>1. CASE LaunchCall(c)
  BY <1>1 DEF LaunchCall, StartProcess, Backed, Handled
<1>2. CASE DeadlinePassed(c) \/ ProcessGone(c) \/ BeginProbe(c)
  BY <1>2 DEF DeadlinePassed, ProcessGone, BeginProbe, Backed, Handled
<1>3. CASE HealthProbe(c)
  BY <1>3 DEF HealthProbe, ProbeFailed, Backed, Handled
<1>4. CASE VersionProbe(c)
  BY <1>4 DEF VersionProbe, ProbeFailed, Backed, Handled
<1>5. CASE Submit(c)
  <2>1. PICK reply \in PossibleReplies :
          IF SubmitError(reply) = "none"
            THEN /\ answered' = [answered EXCEPT ![c] = @ + 1]
                 /\ servedBy' = [servedBy EXCEPT ![c] = @ \cup {bound}]
                 /\ UNCHANGED <<apc, raised>>
            ELSE /\ Raise(c, SubmitError(reply))
                 /\ UNCHANGED <<answered, servedBy>>
    BY <1>5 DEF Submit
  <2>2. apc[c] = "ready" /\ UNCHANGED <<proc, handle>>
    BY <1>5 DEF Submit
  <2>3. CASE SubmitError(reply) = "none"
    <3>1. UNCHANGED apc /\ bound \in servedBy'[c]
      BY <2>1, <2>3
    <3> QED BY <2>2, <3>1 DEF Handled
  <2>4. CASE SubmitError(reply) # "none"
    <3>1. apc'[c] = "failed" /\ UNCHANGED <<answered, servedBy>>
      BY <2>1, <2>4
    <3> QED BY <2>2, <3>1 DEF Backed, Handled
  <2> QED BY <2>3, <2>4
<1>6. CASE CollectMetrics(c)
  BY <1>6 DEF CollectMetrics, Backed, Handled
<1> QED BY <1>1, <1>2, <1>3, <1>4, <1>5, <1>6 DEF ServeStep, LaunchStep

LEMMA StopEffect ==
  ASSUME TypeOK, NEW c \in Runs, Handled(c), StopStep(c)
  PROVE  /\ apc[c] # "stop_failed"
         /\ apc'[c] \in {"terminating", "killing", "stopped", "stop_failed"}
         /\ answered'[c] = answered[c] /\ servedBy'[c] = servedBy[c]
         /\ Alive(c)' => handle'[c]
         /\ apc'[c] = "stopped" => ~Alive(c)'
         /\ apc'[c] \in {"killing", "stop_failed"} => signal'[c] = "kill"
<1> USE DEF TypeOK, AdapterTypeOK, HostTypeOK, Goto, Procs, Alive, Reaped, Handled
<1>1. CASE StopCall(c)
  BY <1>1 DEF StopCall
<1>2. CASE WaitTerm(c)
  BY <1>2 DEF WaitTerm
<1>3. CASE WaitKill(c)
  BY <1>3 DEF WaitKill
<1> QED BY <1>1, <1>2, <1>3 DEF StopStep

(* Validation accepts what the runs write.                                   *)
LEMMA NeverRejected ==
  ASSUME StoreTypeOK, StoreInv, NEW c \in Runs, Backed(c), Validate(c)
  PROVE  wpc'[c] = "published"
<1>1. owner[Target[c]] = c /\ Target[c] \in Dirs /\ step[c] = NumEntries /\ c # None
  BY LabAssumption, StoreAssumption DEF StoreInv, Owned, Progress, Validate
<1>2. content[Target[c]]["report.md"] = c
  <2>1. NumEntries \in 1 .. NumEntries /\ NumEntries <= step[c]
    BY <1>1 DEF NumEntries
  <2> QED BY <1>1, <2>1, OrderFacts DEF StoreInv, FrontToBack
<1>3. bundle[c].status = "success" => HasMetrics(bundle[c])
  BY LabAssumption DEF Backed, HasMetrics
<1>4. Valid(Target[c])
  BY <1>1, <1>2, <1>3, ValidIsFinished DEF Finished
<1> QED BY <1>4 DEF Validate, WriterGoto, StoreTypeOK

LEMMA WriteEffect ==
  ASSUME TypeOK, StoreInv, NEW c \in Runs, Backed(c), WriteStep(c)
  PROVE  wpc'[c] \notin {"idle", "rejected"} /\ bundle' = bundle /\ wpc[c] # "published"
<1> USE DEF TypeOK, StoreTypeOK, WriterGoto
<1>1. CASE Validate(c)
  BY <1>1, NeverRejected DEF Validate
<1>2. CASE Claim(c) \/ CreateEntry(c) \/ FillEntry(c) \/ WriteError(c)
  BY <1>2 DEF Claim, CreateEntry, FillEntry, WriteError
<1> QED BY <1>1, <1>2 DEF WriteStep

-----------------------------------------------------------------------------
(* RunnerInv holds at the start, and every step keeps it.                    *)
InvAt(c) == Phased(c) /\ Reported(c) /\ Backed(c) /\ Handled(c)

LEMMA InvInit == Init => RunnerInv
<1> SUFFICES ASSUME Init  PROVE RunnerInv
  OBVIOUS
<1>1. StoreInv
  BY StoreInvInit DEF Init
<1>2. ASSUME NEW c \in Runs  PROVE InvAt(c)
  BY LabAssumption
  DEF Init, AdapterInit, HostInit, StoreInit, NoBundle, InvAt, Phased, Reported, Backed,
      Handled, Alive, Procs
<1> QED BY <1>1, <1>2 DEF RunnerInv, InvAt

LEMMA InvOfOthers ==
  ASSUME NEW r \in Runs, InvAt(r), PartsSame(r)
  PROVE  InvAt(r)'
BY DEF InvAt, Phased, Reported, Backed, Handled, PartsSame, Alive

LEMMA InvOfHost ==
  ASSUME TypeOK, Host, NEW r \in Runs, InvAt(r)
  PROVE  InvAt(r)'
BY HostFrame DEF InvAt, Phased, Reported, Backed, Handled

LEMMA InvOfBegin ==
  ASSUME TypeOK, NEW c \in Runs, InvAt(c), RefuseRun(c) \/ BeginDryRun(c) \/ BeginRealRun(c)
  PROVE  InvAt(c)'
<1> USE DEF TypeOK, StoreTypeOK, Advance, ExitWith, adapterVars, hostVars, adapterOnly, storeVars
<1>1. CASE RefuseRun(c)
  BY <1>1 DEF RefuseRun, InvAt, Phased, Reported, Backed, Handled, Alive
<1>2. CASE BeginDryRun(c)
  BY <1>2 DEF BeginDryRun, BeginBundle, WriterGoto, DryBundle, InvAt, Phased, Reported,
              Backed, Handled, Alive
<1>3. CASE BeginRealRun(c)
  BY <1>3 DEF BeginRealRun, InvAt, Phased, Reported, Backed, Handled, Alive
<1> QED BY <1>1, <1>2, <1>3

LEMMA InvOfReplay ==
  ASSUME TypeOK, RunnerInv, NEW c \in Runs, Serve(c)
  PROVE  InvAt(c)'
<1>1. InvAt(c)
  BY DEF RunnerInv, InvAt
<1>2. UNCHANGED <<pc, exit, wpc, bundle>> /\ pc[c] = "serve"
  BY DEF Serve, storeVars
<1>3. bundle[c] = NoBundle /\ wpc[c] = "idle" /\ exit[c] = "none" /\ c \notin DryRuns
  BY <1>1, <1>2 DEF InvAt, Phased
<1>4. /\ apc'[c] \in {"polling", "probing", "fetching", "ready", "collected", "failed"}
      /\ answered'[c] > 0 => servedBy'[c] # {}
      /\ apc'[c] = "collected" => answered'[c] = NumRequests
      /\ Alive(c)' => handle'[c]
  BY <1>1, ServeEffect DEF Serve, InvAt
<1>5. Phased(c)' /\ Reported(c)'
  BY <1>2, <1>3 DEF Phased, Reported
<1>6. Backed(c)'
  BY <1>2, <1>3, <1>4 DEF Backed, NoBundle
<1>7. Handled(c)'
  BY <1>2, <1>4 DEF Handled
<1> QED BY <1>5, <1>6, <1>7 DEF InvAt

LEMMA InvOfRecord ==
  ASSUME TypeOK, NEW c \in Runs, InvAt(c), RecordSuccess(c) \/ RecordFailure(c) \/ Escape(c)
  PROVE  InvAt(c)'
<1> USE DEF TypeOK, StoreTypeOK, Advance, ExitWith, adapterVars, hostVars, adapterOnly, storeVars
<1>1. CASE RecordSuccess(c)
  BY <1>1 DEF RecordSuccess, BeginBundle, WriterGoto, SuccessBundle, InvAt, Phased,
              Reported, Backed, Handled, Alive
<1>2. CASE RecordFailure(c)
  BY <1>2 DEF RecordFailure, BeginBundle, WriterGoto, FailureBundle, InvAt, Phased,
              Reported, Backed, Handled, Alive
<1>3. CASE Escape(c)
  BY <1>3 DEF Escape, InvAt, Phased, Reported, Backed, Handled, Alive
<1> QED BY <1>1, <1>2, <1>3

LEMMA InvOfSave ==
  ASSUME TypeOK, RunnerInv, NEW c \in Runs, Save(c) \/ Saved(c)
  PROVE  InvAt(c)'
<1> USE DEF TypeOK, StoreTypeOK, Advance, ExitWith, adapterVars, hostVars, adapterOnly, storeVars
<1>0. InvAt(c) /\ StoreInv
  BY DEF RunnerInv, InvAt
<1>1. CASE Save(c)
  <2>1. wpc'[c] \notin {"idle", "rejected"} /\ bundle' = bundle
    BY <1>0, <1>1, WriteEffect DEF Save, InvAt
  <2> QED BY <1>0, <1>1, <2>1
          DEF Save, InvAt, Phased, Reported, Backed, Handled, Alive
<1>2. CASE Saved(c)
  <2>1. /\ SaveOutcome(c) = "ok" => wpc[c] = "published" /\ bundle[c].status = "success"
        /\ SaveOutcome(c) = "failed" => wpc[c] = "published" /\ bundle[c].status = "failed"
        /\ SaveOutcome(c) = "refused" => wpc[c] = "rejected"
        /\ SaveOutcome(c) \in {"ok", "failed", "refused", "traceback"}
    BY Zenon DEF SaveOutcome
  <2>2. wpc[c] = "published" => SaveOutcome(c) \in {"ok", "failed"}
    <3>1. wpc[c] # "idle" => bundle[c].status \in {"success", "failed"}
      BY <1>0 DEF StoreInv, Progress, Bundles
    <3> QED BY <3>1, Zenon DEF SaveOutcome
  <2> QED BY <1>0, <1>2, <2>1, <2>2
          DEF Saved, InvAt, Phased, Reported, Backed, Handled, Alive
<1> QED BY <1>1, <1>2

LEMMA InvOfStop ==
  ASSUME TypeOK, RunnerInv, NEW c \in Runs, Stop(c) \/ Stopped(c) \/ Kill(c)
  PROVE  InvAt(c)'
<1> USE DEF TypeOK, StoreTypeOK, Advance, ExitWith, adapterVars, hostVars, adapterOnly, storeVars
<1>0. InvAt(c)
  BY DEF RunnerInv, InvAt
<1>1. CASE Stop(c)
  BY <1>0, <1>1, StopEffect
  DEF Stop, InvAt, Phased, Reported, Backed, Handled
<1>2. CASE Stopped(c)
  BY <1>0, <1>2 DEF Stopped, InvAt, Phased, Reported, Backed, Handled, Alive
<1>3. CASE Kill(c)
  BY <1>0, <1>3 DEF Kill, InvAt, Phased, Reported, Backed, Handled, Alive
<1> QED BY <1>1, <1>2, <1>3

LEMMA InvStep ==
  ASSUME TypeOK, RunnerInv, [Next]_vars
  PROVE  RunnerInv'
<1>1. StoreInv'
  BY RunIsStoreStep, StoreInvStep DEF RunnerInv, TypeOK
<1>2. \A r \in Runs : InvAt(r)
  BY DEF RunnerInv, InvAt
<1>3. ASSUME NEW r \in Runs  PROVE InvAt(r)'
  <2>1. CASE UNCHANGED vars
    <3>1. PartsSame(r)
      BY <2>1 DEF vars, adapterVars, hostVars, adapterOnly, storeVars, PartsSame
    <3> QED BY <1>2, <3>1, InvOfOthers
  <2>2. CASE Host
    BY <1>2, <2>2, InvOfHost
  <2>3. ASSUME NEW c \in Runs, RunStep(c) \/ Kill(c)  PROVE InvAt(r)'
    <3>1. CASE r # c
      BY <1>2, <2>3, <3>1, RunFrame, InvOfOthers
    <3>2. CASE r = c
      BY <1>2, <2>3, <3>2, InvOfBegin, InvOfReplay, InvOfRecord, InvOfSave, InvOfStop
      DEF RunStep
    <3> QED BY <3>1, <3>2
  <2> QED BY <2>1, <2>2, <2>3 DEF Next
<1> QED BY <1>1, <1>3 DEF RunnerInv, InvAt

(* What a run has claimed, measured and started fits where it has come, for  *)
(* any number of runs, kills and foreign servers.                            *)
THEOREM RunnerInvariant == Spec => [](TypeOK /\ RunnerInv)
<1>1. Init => TypeOK /\ RunnerInv
  BY TypeInit, InvInit
<1>2. TypeOK /\ RunnerInv /\ [Next]_vars => TypeOK' /\ RunnerInv'
  BY TypeStep, InvStep DEF RunnerInv
<1> QED BY <1>1, <1>2, PTL DEF Spec

-----------------------------------------------------------------------------
(* A published directory, as its readers see it.                             *)
LEMMA PublishedIsSeen ==
  ASSUME TypeOK, RunnerInv, NEW c \in Runs, wpc[c] = "published"
  PROVE  Seen(Target[c]) = [by |-> c, state |-> bundle[c].status]
<1> DEFINE d == Target[c]
<1>1. /\ owner[d] = c /\ d \in Dirs /\ c # None
      /\ step[c] = NumEntries /\ bundle[c] \in Bundles
  BY LabAssumption, StoreAssumption DEF RunnerInv, StoreInv, Owned, Progress
<1>2. content[d]["report.md"] = c
  <2>1. NumEntries \in 1 .. NumEntries /\ NumEntries <= step[c]
    BY <1>1 DEF NumEntries
  <2> QED BY <1>1, <2>1, OrderFacts DEF RunnerInv, StoreInv, FrontToBack
<1>3. bundle[c].status = "success" => HasMetrics(bundle[c])
  BY LabAssumption DEF RunnerInv, Backed, HasMetrics
<1>4. Finished(d)
  BY <1>1, <1>2, <1>3 DEF Finished
<1>5. Seen(d) = View(d)
  BY <1>1, SeenIsView DEF Viewed, RunnerInv, TypeOK
<1> QED BY <1>1, <1>4, <1>5 DEF View

(* Exit codes 0 and 1 mean that the run directory holds this run's verdict,  *)
(* code 2 that it is not this run's, whatever the other runs do.             *)
THEOREM ExitMatches == Spec => []ExitMatchesArtifact
<1>1. TypeOK /\ RunnerInv => ExitMatchesArtifact
  <2> SUFFICES ASSUME TypeOK, RunnerInv, NEW c \in Runs
               PROVE  /\ exit[c] = "ok" =>
                           Seen(Target[c]) = [by |-> c, state |-> "success"]
                      /\ exit[c] = "failed" =>
                           Seen(Target[c]) = [by |-> c, state |-> "failed"]
                      /\ exit[c] = "refused" => owner[Target[c]] # c
                      /\ exit[c] = "traceback" /\ wpc[c] = "published" =>
                           apc[c] = "stop_failed"
    BY DEF ExitMatchesArtifact
  <2>1. Reported(c)
    BY DEF RunnerInv
  <2>2. wpc[c] = "idle" => owner[Target[c]] # c
    BY LabAssumption, StoreAssumption DEF RunnerInv, StoreInv, Owned
  <2> QED BY <2>1, <2>2, PublishedIsSeen DEF Reported
<1> QED BY <1>1, RunnerInvariant, PTL

(* A directory that reads as a success holds a whole replay.                 *)
THEOREM SuccessBacked == Spec => []SuccessIsBacked
<1>1. TypeOK /\ RunnerInv => SuccessIsBacked
  <2> SUFFICES ASSUME TypeOK, RunnerInv, NEW d \in Dirs, Seen(d).state = "success"
               PROVE  /\ bundle[owner[d]].responses = NumRequests
                      /\ owner[d] \notin DryRuns =>
                           /\ answered[owner[d]] = NumRequests
                           /\ servedBy[owner[d]] # {}
                           /\ bundle[owner[d]].scraped
    BY DEF SuccessIsBacked
  <2>1. Seen(d) = View(d)
    BY SeenIsView DEF Viewed, RunnerInv, TypeOK
  <2>2. owner[d] # None /\ bundle[owner[d]].status = "success"
    BY <2>1 DEF View
  <2>3. owner[d] \in Runs
    BY <2>2 DEF TypeOK, StoreTypeOK
  <2> QED BY <2>2, <2>3, LabAssumption DEF RunnerInv, Backed
<1> QED BY <1>1, RunnerInvariant, PTL

(* Only a killed run, or one whose stop() gave up on a process that SIGKILL  *)
(* did not end in time, leaves a server behind.                              *)
THEOREM NoServerLeft == Spec => []NoServerLeftBehind
<1>1. TypeOK /\ RunnerInv => NoServerLeftBehind
  BY DEF RunnerInv, Handled, NoServerLeftBehind, Alive
<1> QED BY <1>1, RunnerInvariant, PTL

-----------------------------------------------------------------------------
(* A run that is past its measurement has an exception that nobody handled,  *)
(* and wrote nothing, or it has called write_artifact_bundle, and an error   *)
(* of that is its exit.                                                      *)
Decided(c) ==
  /\ exit[c] # "none"
  /\ \/ raised[c] = "escaped" /\ exit[c] = "traceback" /\ wpc[c] = "idle"
     \/ /\ raised[c] = "none" /\ wpc[c] \in {"published", "refused", "broken"}
        /\ wpc[c] # "published" => exit[c] = "traceback"

(* Where an exception can be on its way.                                     *)
Told(c) ==
  /\ pc[c] \in {"start", "save"} => raised[c] = "none"
  /\ pc[c] = "serve" => (raised[c] = "none" <=> apc[c] # "failed")
  /\ pc[c] = "stop" => exit[c] # "killed" /\ Decided(c)
  /\ pc[c] = "end" /\ exit[c] # "killed" /\ apc[c] # "fresh" => Decided(c)

(* An operation that raises leaves the adapter in "failed".                  *)
LEMMA ServeRaises ==
  ASSUME AdapterTypeOK, NEW c \in Runs, ServeStep(c)
  PROVE  /\ \A r \in Runs \ {c} : raised'[r] = raised[r] /\ apc'[r] = apc[r]
         /\ apc[c] # "failed"
         /\ raised[c] = "none" => (raised'[c] = "none" <=> apc'[c] # "failed")
<1> USE DEF AdapterTypeOK, Goto, Raise, LeaveLaunch
<1>1. CASE LaunchCall(c)
  BY <1>1 DEF LaunchCall, StartProcess
<1>2. CASE DeadlinePassed(c) \/ ProcessGone(c) \/ BeginProbe(c)
  BY <1>2 DEF DeadlinePassed, TimeoutPhase, ProcessGone, BeginProbe
<1>3. CASE HealthProbe(c)
  BY <1>3 DEF HealthProbe, ProbeFailed
<1>4. CASE VersionProbe(c)
  BY <1>4 DEF VersionProbe, ProbeFailed
<1>5. CASE Submit(c)
  BY <1>5 DEF Submit
<1>6. CASE CollectMetrics(c)
  BY <1>6 DEF CollectMetrics
<1> QED BY <1>1, <1>2, <1>3, <1>4, <1>5, <1>6 DEF ServeStep, LaunchStep

LEMMA ToldStep ==
  ASSUME TypeOK, RunnerInv, NEW r \in Runs, Told(r), [Next]_vars
  PROVE  Told(r)'
<1> USE DEF TypeOK, AdapterTypeOK, Told, Decided, Advance, ExitWith
<1>1. CASE UNCHANGED vars \/ Host
  BY <1>1 DEF vars, Host, adapterVars, adapterOnly, storeVars
<1>2. ASSUME NEW c \in Runs, RunStep(c) \/ Kill(c), r # c  PROVE Told(r)'
  <2>1. PartsSame(r)
    BY <1>2, RunFrame
  <2>2. raised'[r] = raised[r]
    BY <1>2, ServeRaises
    DEF RunStep, RefuseRun, BeginDryRun, BeginRealRun, Serve, RecordSuccess, RecordFailure,
        Escape, Save, Saved, Stop, StopStep, StopCall, WaitTerm, WaitKill, Stopped, Kill,
        adapterVars, adapterOnly
  <2> QED BY <2>1, <2>2 DEF PartsSame
<1>3. Phased(r)
  BY DEF RunnerInv
<1>4. CASE RefuseRun(r) \/ BeginDryRun(r) \/ BeginRealRun(r) \/ Kill(r)
  BY <1>3, <1>4
  DEF Phased, RefuseRun, BeginDryRun, BeginRealRun, Kill, adapterVars, adapterOnly, storeVars
<1>5. CASE Serve(r)
  BY <1>5, ServeRaises DEF Serve, storeVars
<1>6. CASE RecordSuccess(r) \/ RecordFailure(r)
  BY <1>6 DEF RecordSuccess, RecordFailure, adapterVars, adapterOnly
<1>7. CASE Escape(r)
  <2>1. raised[r] = "escaped" /\ wpc[r] = "idle"
    BY <1>3, <1>7 DEF Escape, Phased
  <2> QED BY <1>7, <2>1 DEF Escape, adapterVars, adapterOnly, storeVars
<1>8. CASE Save(r) \/ Saved(r)
  <2>1. /\ SaveOutcome(r) \in {"ok", "failed", "refused", "traceback"}
        /\ wpc[r] \in {"refused", "broken"} => SaveOutcome(r) = "traceback"
    BY Zenon DEF SaveOutcome
  <2>2. wpc[r] # "rejected" /\ (r \in DryRuns => apc[r] = "fresh")
    BY <1>3 DEF RunnerInv, Reported, Phased
  <2>3. CASE Save(r)
    BY <2>3 DEF Save, adapterVars, adapterOnly
  <2>4. CASE Saved(r)
    BY <2>1, <2>2, <2>4 DEF Saved, adapterVars, adapterOnly, storeVars
  <2> QED BY <1>8, <2>3, <2>4
<1>9. CASE Stop(r)
  BY <1>9 DEF Stop, StopStep, StopCall, WaitTerm, WaitKill, storeVars
<1>10. CASE Stopped(r)
  BY <1>10 DEF Stopped, adapterVars, adapterOnly, storeVars
<1> HIDE DEF TypeOK, AdapterTypeOK, Told, Decided, Advance, ExitWith
<1>11. ASSUME RunStep(r) \/ Kill(r)  PROVE Told(r)'
  BY <1>4, <1>5, <1>6, <1>7, <1>8, <1>9, <1>10, <1>11 DEF RunStep
<1> QED BY <1>1, <1>2, <1>11 DEF Next

(* No failure of a backend operation is passed over: it ends in this run's   *)
(* failure artifact, in a traceback that its writing was refused or broke,   *)
(* or, for an exception that is not handled, in a traceback over no file.    *)
THEOREM FailureTold == Spec => []FailureIsTold
<1>1. Init => \A c \in Runs : Told(c)
  BY DEF Init, AdapterInit, Told
<1>2. TypeOK /\ RunnerInv /\ (\A c \in Runs : Told(c)) /\ [Next]_vars
        => (\A c \in Runs : Told(c))'
  BY ToldStep
<1>3. TypeOK /\ RunnerInv /\ (\A c \in Runs : Told(c)) => FailureIsTold
  <2> SUFFICES ASSUME TypeOK, RunnerInv, NEW c \in Runs, Told(c), pc[c] = "end",
                      exit[c] # "killed", apc[c] # "fresh", bundle[c].status # "success"
               PROVE  /\ exit[c] \in {"failed", "traceback"}
                      /\ Seen(Target[c]) # [by |-> c, state |-> "success"]
                      /\ \/ /\ raised[c] = "none"
                            /\ Seen(Target[c]) = [by |-> c, state |-> "failed"]
                         \/ /\ raised[c] = "none" /\ exit[c] = "traceback"
                            /\ wpc[c] \in {"refused", "broken"}
                         \/ /\ raised[c] = "escaped" /\ exit[c] = "traceback"
                            /\ owner[Target[c]] # c
    BY DEF FailureIsTold
  <2>1. Decided(c)
    BY DEF Told
  <2>2. exit[c] \in {"failed", "traceback"}
    BY <2>1 DEF Decided, RunnerInv, Reported, TypeOK, Exits
  <2>3. Seen(Target[c]) # [by |-> c, state |-> "success"]
    <3>1. Seen(Target[c]) = View(Target[c])
      BY SeenIsView, LabAssumption, StoreAssumption DEF Viewed, RunnerInv, TypeOK
    <3> QED BY <3>1 DEF View
  <2>4. wpc[c] = "idle" => owner[Target[c]] # c
    BY LabAssumption, StoreAssumption DEF RunnerInv, StoreInv, Owned
  <2>5. wpc[c] = "published" => Seen(Target[c]) = [by |-> c, state |-> "failed"]
    <3>1. wpc[c] # "idle" => bundle[c].status \in {"success", "failed"}
      BY DEF RunnerInv, StoreInv, Progress, Bundles
    <3> QED BY <3>1, PublishedIsSeen
  <2> QED BY <2>1, <2>2, <2>3, <2>4, <2>5 DEF Decided
<1> QED BY <1>1, <1>2, <1>3, RunnerInvariant, PTL DEF Spec

=============================================================================
