-------------------------- MODULE ArtifactStoreProofs --------------------------
(***************************************************************************)
(* Proofs about ArtifactStore, for any number of runs and directories.     *)
(***************************************************************************)
EXTENDS ArtifactStore, TLAPS

(* What the proofs need of the order of the bundle: it lists every entry     *)
(* once and ends with report.md.                                             *)
LEMMA OrderFacts ==
  /\ \A i \in 1 .. NumEntries : BundleOrder[i] \in Entries
  /\ \A i, j \in 1 .. NumEntries : BundleOrder[i] = BundleOrder[j] => i = j
  /\ \A e \in Entries : \E i \in 1 .. NumEntries : BundleOrder[i] = e
  /\ BundleOrder[NumEntries] = "report.md"
<1>1. \A i \in 1 .. NumEntries : BundleOrder[i] \in Entries
  BY DEF BundleOrder, Entries, NumEntries
<1>2. \A i, j \in 1 .. NumEntries : BundleOrder[i] = BundleOrder[j] => i = j
  BY DEF BundleOrder, NumEntries
<1>3. \A e \in Entries : \E i \in 1 .. NumEntries : BundleOrder[i] = e
  BY DEF BundleOrder, Entries, NumEntries
<1>4. BundleOrder[NumEntries] = "report.md"
  BY DEF BundleOrder, NumEntries
<1> QED BY <1>1, <1>2, <1>3, <1>4

-----------------------------------------------------------------------------
(* Type correctness.                                                         *)
LEMMA StoreTypeInit == StoreInit => StoreTypeOK
BY LabAssumption DEF StoreInit, StoreTypeOK, WriterStates, NumEntries

LEMMA NextEntryType ==
  ASSUME StoreTypeOK, NEW w \in Runs, step[w] < NumEntries
  PROVE  NextEntry(w) \in Entries /\ step[w] + 1 \in 1 .. NumEntries
BY OrderFacts DEF StoreTypeOK, NextEntry, NumEntries

LEMMA StoreTypeStep ==
  ASSUME StoreTypeOK, Progress, [StoreNext]_storeVars
  PROVE  StoreTypeOK'
<1> USE StoreAssumption DEF StoreTypeOK, WriterStates, WriterGoto
<1>1. ASSUME NEW w \in Runs, NEW b \in Bundles, BeginBundle(w, b)  PROVE StoreTypeOK'
  BY <1>1 DEF BeginBundle
<1>2. ASSUME NEW w \in Runs, Claim(w)  PROVE StoreTypeOK'
  BY <1>2 DEF Claim
<1>3. ASSUME NEW w \in Runs, CreateEntry(w)  PROVE StoreTypeOK'
  BY <1>3, NextEntryType DEF CreateEntry
<1>4. ASSUME NEW w \in Runs, FillEntry(w)  PROVE StoreTypeOK'
  <2>1. step[w] < NumEntries
    BY <1>4 DEF FillEntry, Progress
  <2>2. step[w] + 1 \in 0 .. NumEntries /\ NextEntry(w) \in Entries
    BY <2>1, NextEntryType DEF NumEntries
  <2> QED BY <1>4, <2>2 DEF FillEntry
<1>5. ASSUME NEW w \in Runs, WriteError(w)  PROVE StoreTypeOK'
  BY <1>5 DEF WriteError
<1>6. ASSUME NEW w \in Runs, Validate(w)  PROVE StoreTypeOK'
  BY <1>6 DEF Validate
<1>7. CASE UNCHANGED storeVars
  BY <1>7 DEF storeVars
<1> QED BY <1>1, <1>2, <1>3, <1>4, <1>5, <1>6, <1>7 DEF StoreNext, WriteStep

-----------------------------------------------------------------------------
(* The writers' discipline.                                                  *)
LEMMA StoreInvInit == StoreInit => StoreInv
BY LabAssumption, StoreAssumption, OrderFacts
DEF StoreInit, StoreInv, Owned, OneAuthor, FrontToBack, Progress, NumEntries

LEMMA BeginBundleKeepsInv ==
  ASSUME StoreTypeOK, StoreInv, NEW w \in Runs, NEW b \in Bundles, BeginBundle(w, b)
  PROVE  StoreInv'
<1> USE LabAssumption, StoreAssumption DEF StoreTypeOK, BeginBundle, WriterGoto
<1>1. Owned'
  BY DEF StoreInv, Owned
<1>2. OneAuthor'
  BY DEF StoreInv, OneAuthor
<1>3. FrontToBack'
  BY DEF StoreInv, Owned, FrontToBack
<1>4. Progress'
  BY DEF StoreInv, Progress, NextEntry
<1> QED BY <1>1, <1>2, <1>3, <1>4 DEF StoreInv

LEMMA ClaimKeepsInv ==
  ASSUME StoreTypeOK, StoreInv, NEW w \in Runs, Claim(w)
  PROVE  StoreInv'
<1> USE LabAssumption, StoreAssumption DEF StoreTypeOK, Claim, WriterGoto
<1>0. owner[Target[w]] = None => \A e \in Entries : content[Target[w]][e] = None
  BY DEF StoreInv, OneAuthor
<1>1. Owned'
  <2>1. CASE owner[Target[w]] = None
    <3>1. \A v \in Runs : wpc'[v] = IF v = w THEN "writing" ELSE wpc[v]
      BY <2>1
    <3>2. \A d \in Dirs : owner'[d] = IF d = Target[w] THEN w ELSE owner[d]
      BY <2>1
    <3>3. ASSUME NEW d \in Dirs, owner'[d] # None
          PROVE  /\ Target[owner'[d]] = d
                 /\ wpc'[owner'[d]] \notin {"idle", "claiming", "refused"}
      BY <3>1, <3>2, <3>3 DEF StoreInv, Owned
    <3>4. ASSUME NEW v \in Runs,
                 wpc'[v] \in {"writing", "filling", "validating", "published", "rejected"}
          PROVE  owner'[Target[v]] = v
      <4>1. CASE v = w
        BY <3>2, <4>1
      <4>2. CASE v # w
        <5>1. owner[Target[v]] = v /\ Target[v] \in Dirs /\ v # None
          BY <3>1, <3>4, <4>2 DEF StoreInv, Owned
        <5> QED BY <2>1, <3>2, <5>1
      <4> QED BY <4>1, <4>2
    <3> QED BY <3>3, <3>4 DEF Owned
  <2>2. CASE owner[Target[w]] # None
    BY <2>2 DEF StoreInv, Owned
  <2> QED BY <2>1, <2>2
<1>2. OneAuthor'
  BY <1>0 DEF StoreInv, OneAuthor
<1>3. FrontToBack'
  <2>1. CASE owner[Target[w]] # None
    BY <2>1 DEF StoreInv, Owned, FrontToBack
  <2>2. CASE owner[Target[w]] = None
    <3>1. step[w] = 0
      BY DEF StoreInv, Progress
    <3>2. SUFFICES ASSUME NEW d \in Dirs, owner'[d] # None, NEW i \in 1 .. NumEntries
                   PROVE  LET k == step'[owner'[d]] IN
                          /\ i <= k => /\ content'[d][BundleOrder[i]] = owner'[d]
                                       /\ BundleOrder[i] \in whole'[d]
                          /\ i = k + 1 => \/ content'[d][BundleOrder[i]] = None
                                          \/ wpc'[owner'[d]] \in {"filling", "broken"}
                          /\ i > k + 1 => content'[d][BundleOrder[i]] = None
      BY DEF FrontToBack
    <3>3. CASE d = Target[w]
      BY <1>0, <2>2, <3>1, <3>3, OrderFacts DEF NumEntries
    <3>4. CASE d # Target[w]
      <4>1. owner'[d] = owner[d] /\ owner[d] # w /\ owner[d] \in Runs
        BY <3>2, <3>4 DEF StoreInv, Owned
      <4> QED BY <3>2, <4>1 DEF StoreInv, FrontToBack
    <3> QED BY <3>3, <3>4
  <2> QED BY <2>1, <2>2
<1>4. Progress'
  BY DEF StoreInv, Progress, NextEntry, NumEntries
<1> QED BY <1>1, <1>2, <1>3, <1>4 DEF StoreInv

LEMMA CreateEntryKeepsInv ==
  ASSUME StoreTypeOK, StoreInv, NEW w \in Runs, CreateEntry(w)
  PROVE  StoreInv'
<1> DEFINE d0 == Target[w]
           k0 == step[w] + 1
<1> USE LabAssumption, StoreAssumption DEF StoreTypeOK
<1>1. /\ owner[d0] = w /\ d0 \in Dirs
      /\ k0 \in 1 .. NumEntries /\ NextEntry(w) = BundleOrder[k0] /\ NextEntry(w) \in Entries
      /\ UNCHANGED <<owner, bundle, step>>
  BY NextEntryType DEF StoreInv, Owned, CreateEntry, NextEntry
<1>2. \A v \in Runs : wpc'[v] = IF v = w THEN "filling" ELSE wpc[v]
  BY DEF CreateEntry, WriterGoto
<1>3. \A d \in Dirs : \A e \in Entries :
        content'[d][e] = IF d = d0 /\ e = NextEntry(w) THEN w ELSE content[d][e]
  BY <1>1 DEF CreateEntry
<1>4. \A d \in Dirs : \A e \in Entries :
        ~(d = d0 /\ e = NextEntry(w)) => (e \in whole'[d] <=> e \in whole[d])
  BY <1>1 DEF CreateEntry
<1>5. Owned'
  BY <1>1, <1>2 DEF StoreInv, Owned, CreateEntry
<1>6. OneAuthor'
  BY <1>1, <1>3 DEF StoreInv, OneAuthor
<1>7. FrontToBack'
  <2>1. SUFFICES ASSUME NEW d \in Dirs, owner[d] # None, NEW i \in 1 .. NumEntries
                 PROVE  LET k == step[owner[d]] IN
                        /\ i <= k => /\ content'[d][BundleOrder[i]] = owner[d]
                                     /\ BundleOrder[i] \in whole'[d]
                        /\ i = k + 1 => \/ content'[d][BundleOrder[i]] = None
                                        \/ wpc'[owner[d]] \in {"filling", "broken"}
                        /\ i > k + 1 => content'[d][BundleOrder[i]] = None
    BY <1>1 DEF FrontToBack
  <2>2. BundleOrder[i] \in Entries
    BY OrderFacts
  <2>3. CASE d = d0
    <3>1. BundleOrder[i] = NextEntry(w) <=> i = step[w] + 1
      BY <1>1, OrderFacts
    <3>2. owner[d] = w /\ step[w] \in Nat /\ i \in Nat
      BY <1>1, <2>3 DEF NumEntries
    <3>3. /\ i <= step[w] => /\ content[d][BundleOrder[i]] = w
                             /\ BundleOrder[i] \in whole[d]
          /\ i > step[w] + 1 => content[d][BundleOrder[i]] = None
      BY <2>1, <3>2 DEF StoreInv, FrontToBack
    <3>4. i # step[w] + 1 => /\ content'[d][BundleOrder[i]] = content[d][BundleOrder[i]]
                             /\ BundleOrder[i] \in whole'[d] <=> BundleOrder[i] \in whole[d]
      BY <1>3, <1>4, <2>2, <3>1
    <3>5. wpc'[owner[d]] = "filling"
      BY <1>2, <3>2
    <3> QED BY <3>2, <3>3, <3>4, <3>5
  <2>4. CASE d # d0
    <3>1. owner[d] \in Runs \ {w}
      BY <2>1, <2>4 DEF StoreInv, Owned
    <3> QED BY <1>2, <1>3, <1>4, <2>1, <2>2, <2>4, <3>1 DEF StoreInv, FrontToBack
  <2> QED BY <2>3, <2>4
<1>8. Progress'
  <2>1. ASSUME NEW v \in Runs, wpc'[v] = "filling"
        PROVE  content'[Target[v]][NextEntry(v)] = v
    <3>1. CASE v = w
      BY <1>1, <1>3, <3>1
    <3>2. CASE v # w
      <4>1. /\ wpc[v] = "filling" /\ content[Target[v]][NextEntry(v)] = v
            /\ owner[Target[v]] = v /\ Target[v] \in Dirs /\ NextEntry(v) \in Entries
        BY <1>2, <2>1, <3>2, NextEntryType DEF StoreInv, Progress, Owned
      <4> QED BY <1>1, <1>3, <3>2, <4>1
    <3> QED BY <3>1, <3>2
  <2> QED BY <1>1, <1>2, <2>1 DEF StoreInv, Progress, NextEntry, CreateEntry
<1> QED BY <1>5, <1>6, <1>7, <1>8 DEF StoreInv

LEMMA FillEntryKeepsInv ==
  ASSUME StoreTypeOK, StoreInv, NEW w \in Runs, FillEntry(w)
  PROVE  StoreInv'
<1> DEFINE d0 == Target[w]
<1> USE LabAssumption, StoreAssumption DEF StoreTypeOK
<1>1. /\ step[w] \in 0 .. NumEntries /\ step[w] < NumEntries
      /\ owner[d0] = w /\ d0 \in Dirs
      /\ NextEntry(w) = BundleOrder[step[w] + 1] /\ NextEntry(w) \in Entries
      /\ content[d0][NextEntry(w)] = w
      /\ UNCHANGED <<owner, content, bundle>>
  BY NextEntryType DEF StoreInv, Owned, Progress, FillEntry, NextEntry
<1>2. \A v \in Runs : v # w => wpc'[v] = wpc[v] /\ step'[v] = step[v]
  BY DEF FillEntry, WriterGoto
<1>3. /\ step'[w] = step[w] + 1
      /\ wpc'[w] = IF step[w] + 1 = NumEntries THEN "validating" ELSE "writing"
  BY DEF FillEntry, WriterGoto
<1>4. \A d \in Dirs : whole[d] \subseteq whole'[d]
  BY DEF FillEntry
<1>5. NextEntry(w) \in whole'[d0]
  BY <1>1 DEF FillEntry
<1>6. Owned'
  BY <1>1, <1>2, <1>3 DEF StoreInv, Owned, FillEntry
<1>7. OneAuthor'
  BY <1>1 DEF StoreInv, OneAuthor
<1>8. FrontToBack'
  <2>1. SUFFICES ASSUME NEW d \in Dirs, owner[d] # None, NEW i \in 1 .. NumEntries
                 PROVE  LET k == step'[owner[d]] IN
                        /\ i <= k => /\ content[d][BundleOrder[i]] = owner[d]
                                     /\ BundleOrder[i] \in whole'[d]
                        /\ i = k + 1 => \/ content[d][BundleOrder[i]] = None
                                        \/ wpc'[owner[d]] \in {"filling", "broken"}
                        /\ i > k + 1 => content[d][BundleOrder[i]] = None
    BY <1>1 DEF FrontToBack
  <2>2. CASE owner[d] = w
    <3>1. d = d0
      BY <2>2 DEF StoreInv, Owned
    <3>2. /\ i <= step[w] => /\ content[d][BundleOrder[i]] = w
                             /\ BundleOrder[i] \in whole[d]
          /\ i > step[w] + 1 => content[d][BundleOrder[i]] = None
      BY <2>1, <2>2 DEF StoreInv, FrontToBack
    <3>3. step[w] \in Nat /\ i \in Nat
      BY <1>1 DEF NumEntries
    <3>4. i = step[w] + 1 => /\ content[d][BundleOrder[i]] = w
                             /\ BundleOrder[i] \in whole'[d]
      BY <1>1, <1>5, <3>1
    <3>5. BundleOrder[i] \in whole[d] => BundleOrder[i] \in whole'[d]
      BY <1>4
    <3>6. i <= step[w] + 1 <=> i <= step[w] \/ i = step[w] + 1
      BY <3>3
    <3>7. i >= step[w] + 2 => i > step[w] + 1
      BY <3>3
    <3> QED BY <1>3, <2>2, <3>2, <3>3, <3>4, <3>5, <3>6, <3>7
  <2>3. CASE owner[d] # w
    <3>1. owner[d] \in Runs
      BY <2>1
    <3> QED BY <1>2, <1>4, <2>1, <2>3, <3>1 DEF StoreInv, FrontToBack
  <2> QED BY <2>2, <2>3
<1>9. Progress'
  <2>1. SUFFICES ASSUME NEW v \in Runs
                 PROVE  /\ wpc'[v] \in {"idle", "claiming", "refused"} => step'[v] = 0
                        /\ wpc'[v] \in {"writing", "filling"} => step'[v] < NumEntries
                        /\ wpc'[v] \in {"validating", "published", "rejected"} =>
                             step'[v] = NumEntries
                        /\ wpc'[v] = "filling" =>
                             content[Target[v]][BundleOrder[step'[v] + 1]] = v
                        /\ wpc'[v] # "idle" => bundle[v] \in Bundles
    BY <1>1 DEF Progress, NextEntry
  <2>2. CASE v = w
    BY <1>1, <1>3, <2>2 DEF StoreInv, Progress, FillEntry, NumEntries
  <2>3. CASE v # w
    BY <1>2, <2>3 DEF StoreInv, Progress, NextEntry
  <2> QED BY <2>2, <2>3
<1> QED BY <1>6, <1>7, <1>8, <1>9 DEF StoreInv

(* The steps that only move a writer that has its directory.                 *)
LEMMA WriterMoveKeepsInv ==
  ASSUME StoreTypeOK, StoreInv, NEW w \in Runs, WriteError(w) \/ Validate(w)
  PROVE  StoreInv'
<1> USE LabAssumption, StoreAssumption DEF StoreTypeOK
<1>1. \A v \in Runs : v # w => wpc'[v] = wpc[v]
  BY DEF WriteError, Validate, WriterGoto
<1>2. \/ wpc[w] \in {"claiming", "writing", "filling"} /\ wpc'[w] = "broken"
      \/ wpc[w] = "validating" /\ wpc'[w] \in {"published", "rejected"}
  BY DEF WriteError, Validate, WriterGoto
<1>3. UNCHANGED <<owner, content, whole, bundle, step>>
  BY DEF WriteError, Validate
<1>4. Owned'
  BY <1>1, <1>2, <1>3 DEF StoreInv, Owned
<1>5. OneAuthor'
  BY <1>3 DEF StoreInv, OneAuthor
<1>6. FrontToBack'
  <2>1. ASSUME NEW d \in Dirs, owner[d] # None, wpc[owner[d]] \in {"filling", "broken"},
               owner[d] \in Runs
        PROVE  wpc'[owner[d]] \in {"filling", "broken"}
    BY <1>1, <1>2, <2>1
  <2> QED BY <1>3, <2>1 DEF StoreInv, FrontToBack
<1>7. Progress'
  BY <1>1, <1>2, <1>3 DEF StoreInv, Progress, NextEntry
<1> QED BY <1>4, <1>5, <1>6, <1>7 DEF StoreInv

LEMMA StoreInvStep ==
  ASSUME StoreTypeOK, StoreInv, [StoreNext]_storeVars
  PROVE  StoreInv'
<1>1. CASE UNCHANGED storeVars
  BY <1>1 DEF storeVars, StoreInv, Owned, OneAuthor, FrontToBack, Progress, NextEntry
<1>2. CASE StoreNext
  BY <1>2, BeginBundleKeepsInv, ClaimKeepsInv, CreateEntryKeepsInv, FillEntryKeepsInv,
     WriterMoveKeepsInv DEF StoreNext, WriteStep
<1> QED BY <1>1, <1>2

(* Every state the writers can reach is well typed, and in it every run      *)
(* directory has one author who works front to back.                         *)
THEOREM StoreCorrect == StoreSpec => [](StoreTypeOK /\ StoreInv)
<1>1. StoreInit => StoreTypeOK /\ StoreInv
  BY StoreTypeInit, StoreInvInit
<1>2. StoreTypeOK /\ StoreInv /\ [StoreNext]_storeVars => StoreTypeOK' /\ StoreInv'
  BY StoreTypeStep, StoreInvStep DEF StoreInv
<1> QED BY <1>1, <1>2, PTL DEF StoreSpec

(* The writers keep to their sets of states and values.                      *)
THEOREM StoreTypes == StoreSpec => []StoreTypeOK
BY StoreCorrect, PTL

-----------------------------------------------------------------------------
(* What readers see.  Under the discipline a directory is valid as soon as   *)
(* its report.md exists, if its author's claim of success has metrics.       *)
Finished(d) ==
  /\ owner[d] # None
  /\ content[d]["report.md"] # None
  /\ bundle[owner[d]].status = "success" => HasMetrics(bundle[owner[d]])

LEMMA ReportIsLast ==
  ASSUME StoreTypeOK, StoreInv, NEW d \in Dirs, content[d]["report.md"] # None
  PROVE  /\ owner[d] \in Runs
         /\ \A e \in Entries : content[d][e] = owner[d]
         /\ Entries \ {"report.md"} \subseteq whole[d]
<1> USE LabAssumption DEF StoreTypeOK
<1>1. "report.md" \in Entries
  BY DEF Entries
<1>2. owner[d] # None /\ content[d]["report.md"] = owner[d] /\ owner[d] \in Runs
  BY <1>1 DEF StoreInv, OneAuthor
<1>3. step[owner[d]] + 1 >= NumEntries
  BY <1>2, OrderFacts DEF StoreInv, FrontToBack, NumEntries
<1>4. ASSUME NEW e \in Entries, e # "report.md"
      PROVE  content[d][e] = owner[d] /\ e \in whole[d]
  <2>1. PICK i \in 1 .. NumEntries : BundleOrder[i] = e
    BY OrderFacts
  <2>2. i # NumEntries
    BY <1>4, <2>1, OrderFacts
  <2>3. i <= step[owner[d]]
    BY <1>2, <1>3, <2>2 DEF NumEntries
  <2> QED BY <1>2, <2>1, <2>3 DEF StoreInv, FrontToBack
<1> QED BY <1>2, <1>4

LEMMA ValidIsFinished ==
  ASSUME StoreTypeOK, StoreInv, NEW d \in Dirs
  PROVE  Valid(d) <=> Finished(d)
<1>1. {"report.md", "run.json", "metrics.parquet"} \subseteq Entries
  BY DEF Entries
<1>2. CASE content[d]["report.md"] = None
  BY <1>1, <1>2 DEF Valid, Finished
<1>3. CASE content[d]["report.md"] # None
  <2>1. /\ owner[d] # None
        /\ \A e \in Entries : content[d][e] = owner[d]
        /\ "run.json" \in whole[d] /\ "metrics.parquet" \in whole[d]
    BY <1>1, <1>3, ReportIsLast, LabAssumption
  <2> QED BY <1>1, <1>3, <2>1 DEF Valid, Finished
<1> QED BY <1>2, <1>3

(* Whoever reads a run directory, and whenever: if validate_artifact_dir     *)
(* accepts it, it is one run's complete work.                                *)
THEOREM ValidComplete == StoreSpec => []ValidIsComplete
<1>1. StoreTypeOK /\ StoreInv => ValidIsComplete
  <2> SUFFICES ASSUME StoreTypeOK, StoreInv, NEW d \in Dirs, Valid(d)
               PROVE  /\ \A e \in Entries : content[d][e] = owner[d]
                      /\ Entries \ {"report.md"} \subseteq whole[d]
    BY DEF ValidIsComplete
  <2> QED BY ValidIsFinished, ReportIsLast DEF Finished
<1> QED BY <1>1, StoreCorrect, PTL

(* What write_artifact_bundle returns is the caller's own bundle.            *)
THEOREM PublishedMine == StoreSpec => []PublishedIsMine
<1>1. StoreTypeOK /\ StoreInv => PublishedIsMine
  <2> SUFFICES ASSUME StoreTypeOK, StoreInv, NEW w \in Runs, wpc[w] = "published"
               PROVE  /\ owner[Target[w]] = w
                      /\ \A e \in Entries : content[Target[w]][e] = w
                      /\ Entries \subseteq whole[Target[w]]
    BY DEF PublishedIsMine
  <2>1. owner[Target[w]] = w /\ step[w] = NumEntries /\ w # None /\ Target[w] \in Dirs
    BY LabAssumption, StoreAssumption DEF StoreInv, Owned, Progress
  <2>2. ASSUME NEW e \in Entries
        PROVE  content[Target[w]][e] = w /\ e \in whole[Target[w]]
    <3>1. PICK i \in 1 .. NumEntries : BundleOrder[i] = e
      BY OrderFacts
    <3>2. i <= step[w]
      BY <2>1 DEF NumEntries
    <3> QED BY <2>1, <3>1, <3>2 DEF StoreInv, FrontToBack
  <2> QED BY <2>1, <2>2
<1> QED BY <1>1, StoreCorrect, PTL

(* A step leaves an accepted directory as it is: its author has no entry to  *)
(* open any more, and nobody else has one in it.                             *)
LEMMA AcceptedStep ==
  ASSUME StoreTypeOK, StoreInv, [StoreNext]_storeVars, NEW d \in Dirs, Valid(d)
  PROVE  /\ owner'[d] = owner[d] /\ bundle'[owner[d]] = bundle[owner[d]]
         /\ content'[d] = content[d] /\ whole[d] \subseteq whole'[d]
<1> USE LabAssumption, StoreAssumption DEF StoreTypeOK
<1>1. /\ owner[d] \in Runs /\ owner[d] # None
      /\ content[d]["report.md"] = owner[d] /\ "report.md" \in Entries
  BY ValidIsFinished, ReportIsLast DEF Finished, Entries
<1>2. ASSUME NEW w \in Runs, NEW b \in Bundles, BeginBundle(w, b)
      PROVE  bundle'[owner[d]] = bundle[owner[d]] /\ UNCHANGED <<owner, content, whole>>
  BY <1>1, <1>2 DEF BeginBundle, StoreInv, Owned
<1>3. ASSUME NEW w \in Runs, Claim(w)
      PROVE  owner'[d] = owner[d] /\ UNCHANGED <<bundle, content, whole>>
  BY <1>1, <1>3 DEF Claim
<1>4. ASSUME NEW w \in Runs, CreateEntry(w)
      PROVE  Target[w] # d
  <2>1. SUFFICES ASSUME Target[w] = d  PROVE FALSE
    OBVIOUS
  <2>2. owner[d] = w /\ wpc[w] = "writing" /\ step[w] < NumEntries
    BY <1>4, <2>1 DEF CreateEntry, StoreInv, Owned
  <2>3. NumEntries \in 1 .. NumEntries /\ step[w] \in Nat
    BY DEF NumEntries
  <2>4. content[d][BundleOrder[NumEntries]] = None
    BY <1>1, <2>2, <2>3 DEF StoreInv, FrontToBack, NumEntries
  <2> QED BY <1>1, <2>4, OrderFacts
<1>5. ASSUME NEW w \in Runs, CreateEntry(w)
      PROVE  content'[d] = content[d] /\ whole'[d] = whole[d] /\ UNCHANGED <<owner, bundle>>
  BY <1>4, <1>5 DEF CreateEntry
<1>6. ASSUME NEW w \in Runs, FillEntry(w)
      PROVE  whole[d] \subseteq whole'[d] /\ UNCHANGED <<owner, content, bundle>>
  BY <1>6 DEF FillEntry
<1>7. ASSUME NEW w \in Runs, WriteError(w) \/ Validate(w)
      PROVE  UNCHANGED <<owner, content, whole, bundle>>
  BY <1>7 DEF WriteError, Validate
<1>8. CASE UNCHANGED storeVars
  BY <1>8 DEF storeVars
<1> QED BY <1>2, <1>3, <1>5, <1>6, <1>7, <1>8 DEF StoreNext, WriteStep

(* Between the validation of an artifact and the last read of it, its files  *)
(* stay what they were.                                                      *)
THEOREM AcceptedFrozen == StoreSpec => AcceptedIsFrozen
<1>1. StoreTypeOK /\ StoreInv /\ [StoreNext]_storeVars
        => [\A d \in Dirs : Valid(d) =>
              /\ owner'[d] = owner[d] /\ bundle'[owner[d]] = bundle[owner[d]]
              /\ content'[d] = content[d] /\ whole[d] \subseteq whole'[d]]_storeVars
  BY AcceptedStep
<1> QED BY <1>1, StoreCorrect, PTL DEF StoreSpec, AcceptedIsFrozen

-----------------------------------------------------------------------------
(* The store implements the write-once registers of ArtifactRegister.        *)
View(d) ==
  [by    |-> owner[d],
   state |-> IF owner[d] = None THEN "absent"
             ELSE IF Finished(d) THEN bundle[owner[d]].status
             ELSE "claimed"]

Viewed == \A d \in Dirs : Seen(d) = View(d)

LEMMA SeenIsView == StoreTypeOK /\ StoreInv => Viewed
<1> SUFFICES ASSUME StoreTypeOK, StoreInv, NEW d \in Dirs
             PROVE  Seen(d) = View(d)
  BY DEF Viewed
<1>1. Finished(d) => content[d]["run.json"] = owner[d]
  BY ReportIsLast DEF Finished, Entries
<1> QED BY <1>1, ValidIsFinished DEF Seen, View

LEMMA RegisterInit == StoreInit => Register!Init
BY DEF StoreInit, Seen, Register!Init, Register!Absent

(* A step that leaves alone what View looks at is not seen.                  *)
LEMMA UnseenStep ==
  ASSUME Viewed, Viewed', UNCHANGED owner,
         \A d \in Dirs : owner[d] # None => bundle'[owner[d]] = bundle[owner[d]],
         \A d \in Dirs : content'[d]["report.md"] = content[d]["report.md"]
  PROVE  UNCHANGED [d \in Dirs |-> Seen(d)]
<1>1. ASSUME NEW d \in Dirs  PROVE Seen(d)' = Seen(d)
  <2>1. Finished(d)' <=> Finished(d)
    BY DEF Finished, HasMetrics
  <2> QED BY <2>1 DEF Viewed, View
<1> QED BY <1>1

(* mkdir: the register goes from absent to claimed.                          *)
LEMMA ClaimIsSeen ==
  ASSUME StoreTypeOK, StoreInv, Viewed, Viewed', NEW w \in Runs, Claim(w)
  PROVE  [Register!Next]_([d \in Dirs |-> Seen(d)])
<1> DEFINE d0 == Target[w]
<1> USE LabAssumption, StoreAssumption DEF StoreTypeOK
<1>1. CASE owner[d0] # None
  BY <1>1, UnseenStep DEF Claim
<1>2. CASE owner[d0] = None
  <2>1. d0 \in Dirs /\ owner' = [owner EXCEPT ![d0] = w] /\ UNCHANGED <<content, bundle>>
    BY <1>2 DEF Claim
  <2>2. content[d0]["report.md"] = None
    BY <1>2, <2>1 DEF StoreInv, OneAuthor, Entries
  <2>3. Seen(d0) = Register!Absent
    BY <1>2, <2>1 DEF Viewed, View, Register!Absent
  <2>4. Seen(d0)' = [by |-> w, state |-> "claimed"]
    BY <2>1, <2>2 DEF Viewed, View, Finished
  <2>5. ASSUME NEW d \in Dirs, d # d0  PROVE Seen(d)' = Seen(d)
    BY <2>1, <2>5 DEF Viewed, View, Finished, HasMetrics
  <2>6. Register!Claim(w)
    BY <2>1, <2>3, <2>4, <2>5 DEF Register!Claim
  <2> QED BY <2>6 DEF Register!Next
<1> QED BY <1>1, <1>2

(* The creation of report.md publishes the verdict; that of any other entry  *)
(* is not seen.                                                              *)
LEMMA CreateIsSeen ==
  ASSUME StoreTypeOK, StoreInv, Viewed, Viewed', NEW w \in Runs, CreateEntry(w)
  PROVE  [Register!Next]_([d \in Dirs |-> Seen(d)])
<1> DEFINE d0 == Target[w]
<1> USE LabAssumption, StoreAssumption DEF StoreTypeOK
<1>1. /\ owner[d0] = w /\ d0 \in Dirs /\ w # None
      /\ step[w] + 1 \in 1 .. NumEntries /\ NextEntry(w) \in Entries
      /\ NextEntry(w) = BundleOrder[step[w] + 1]
      /\ bundle[w] \in Bundles
      /\ UNCHANGED <<owner, bundle>>
      /\ content' = [content EXCEPT ![d0][NextEntry(w)] = w]
  BY NextEntryType DEF StoreInv, Owned, Progress, CreateEntry, NextEntry
<1>2. CASE NextEntry(w) # "report.md"
  <2>1. \A d \in Dirs : content'[d]["report.md"] = content[d]["report.md"]
    BY <1>1, <1>2 DEF Entries
  <2> QED BY <1>1, <2>1, UnseenStep
<1>3. CASE NextEntry(w) = "report.md"
  <2>1. step[w] + 1 = NumEntries
    <3>1. NumEntries \in 1 .. NumEntries
      BY DEF NumEntries
    <3>2. BundleOrder[step[w] + 1] = BundleOrder[NumEntries]
      BY <1>1, <1>3, OrderFacts
    <3> QED BY <1>1, <3>1, <3>2, OrderFacts
  <2>2. content[d0]["report.md"] \in {None, w}
    BY <1>1, <1>3 DEF StoreInv, OneAuthor
  <2>3. content[d0]["report.md"] = None
    <3>1. wpc[w] = "writing"
      BY DEF CreateEntry
    <3>2. content[d0][BundleOrder[step[w] + 1]] = None
      BY <1>1, <3>1 DEF StoreInv, FrontToBack
    <3> QED BY <1>1, <1>3, <3>2
  <2>4. Seen(d0) = [by |-> w, state |-> "claimed"]
    BY <1>1, <2>3 DEF Viewed, View, Finished
  <2>5. content'[d0]["report.md"] = w
    BY <1>1, <1>3
  <2>6. Seen(d0)' = [by |-> w, state |-> IF Finished(d0)' THEN bundle[w].status ELSE "claimed"]
    BY <1>1 DEF Viewed, View
  <2>7. ASSUME NEW d \in Dirs, d # d0  PROVE Seen(d)' = Seen(d)
    <3>1. content'[d] = content[d]
      BY <1>1, <2>7
    <3> QED BY <1>1, <2>7, <3>1 DEF Viewed, View, Finished, HasMetrics
  <2>8. CASE Finished(d0)'
    <3>1. bundle[w].status \in {"success", "failed"}
      BY <1>1 DEF Bundles
    <3>2. Register!Publish(w, bundle[w].status)
      BY <1>1, <2>4, <2>6, <2>7, <2>8 DEF Register!Publish
    <3> QED BY <3>1, <3>2 DEF Register!Next
  <2>9. CASE ~Finished(d0)'
    BY <2>4, <2>6, <2>7, <2>9
  <2> QED BY <2>8, <2>9
<1> QED BY <1>2, <1>3

LEMMA RegisterStep ==
  ASSUME StoreTypeOK, StoreInv, Viewed, Viewed', [StoreNext]_storeVars
  PROVE  [Register!Next]_([d \in Dirs |-> Seen(d)])
<1>1. ASSUME NEW w \in Runs, NEW b \in Bundles, BeginBundle(w, b)
      PROVE  UNCHANGED [d \in Dirs |-> Seen(d)]
  <2>1. \A d \in Dirs : owner[d] # None => owner[d] # w
    BY <1>1 DEF BeginBundle, StoreInv, Owned
  <2> QED BY <1>1, <2>1, UnseenStep DEF BeginBundle, StoreTypeOK
<1>2. ASSUME NEW w \in Runs, FillEntry(w) \/ WriteError(w) \/ Validate(w)
      PROVE  UNCHANGED [d \in Dirs |-> Seen(d)]
  BY <1>2, UnseenStep DEF FillEntry, WriteError, Validate
<1>3. CASE UNCHANGED storeVars
  BY <1>3, UnseenStep DEF storeVars
<1> QED BY <1>1, <1>2, <1>3, ClaimIsSeen, CreateIsSeen DEF StoreNext, WriteStep

(* However many runs share an artifact tree, fail in it or are killed in it, *)
(* each run directory goes from absent to claimed to at most one verdict,    *)
(* and every one of these steps is taken by one and the same run.            *)
THEOREM StoreImplementsRegister == StoreSpec => RegisterSpec
<1>1. StoreInit => Register!Init
  BY RegisterInit
<1>2. StoreTypeOK /\ StoreInv => Viewed
  BY SeenIsView
<1>3. StoreTypeOK /\ StoreInv /\ Viewed /\ Viewed' /\ [StoreNext]_storeVars
        => [Register!Next]_([d \in Dirs |-> Seen(d)])
  BY RegisterStep
<1> QED BY <1>1, <1>2, <1>3, StoreCorrect, PTL DEF StoreSpec, RegisterSpec, Register!Spec

=============================================================================
