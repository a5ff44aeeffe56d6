--------------------------- MODULE GuideReportProofs ---------------------------
(***************************************************************************)
(* For counters of any size, with TLAPS: the validation of a GuideLLM      *)
(* report accepts exactly the clean ones.                                  *)
(***************************************************************************)
EXTENDS GuideReport, TLAPS

(* No issue is raised exactly when the report is clean.                      *)
LEMMA NoIssuesIffClean ==
  ASSUME NEW s \in Summaries, NEW n \in Nat
  PROVE  Issues(s, n) = {} <=> Clean(s, n)
<1> USE CountsAssumption
<1>1. /\ s.created \in Nat /\ s.processed \in Nat /\ s.successful \in Nat
      /\ s.errored \in Nat /\ s.cancelled \in Nat /\ s.successfulEntries \in Nat
      /\ s.erroredEntries \in Nat /\ s.incompleteEntries \in Nat /\ n \in Nat
  BY DEF Summaries
<1>2. ASSUME Issues(s, n) = {} PROVE Clean(s, n)
  <2>1. n > 0 => s.created = n
    BY <1>2 DEF Issues
  <2>2. s.processed = s.created
    BY <1>2 DEF Issues
  <2>3. s.successful = s.successfulEntries /\ s.errored = s.erroredEntries
    BY <1>2 DEF Issues
  <2>4. s.processed = s.successful + s.errored + s.cancelled
    BY <1>2 DEF Issues
  <2>5. s.errored = 0 /\ s.cancelled = 0 /\ s.incompleteEntries = 0
    BY <1>2 DEF Issues
  <2>6. s.processed = s.successful
    BY <1>1, <2>4, <2>5
  <2>7. QED BY <2>1, <2>2, <2>3, <2>5, <2>6 DEF Clean
<1>3. ASSUME Clean(s, n) PROVE Issues(s, n) = {}
  <2>1. s.processed = s.successful + s.errored + s.cancelled
    BY <1>1, <1>3 DEF Clean
  <2>2. QED BY <1>3, <2>1 DEF Clean, Issues
<1>4. QED BY <1>2, <1>3

=============================================================================
