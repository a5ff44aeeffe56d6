SPECIFICATION FairReportSpec
CONSTANTS
  None = None
  Execs = {e1}
  RunId = run_id
  Runs = {r1, r2, r3}
  DryRuns = {r2}
  FakeRuns = {r3}
  Builders = {b1}
INVARIANTS
  ReportTypeOK
  AnswerIsBacked
  QuotedCheckWasValidated
  QuotedFromOneReport
  CheckFollowsRun
PROPERTIES
  CrossCheckEnds
CHECK_DEADLOCK FALSE
