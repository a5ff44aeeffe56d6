---------------------------- MODULE ArtifactStore ----------------------------
(***************************************************************************)
(* lsp/artifacts: the directory tree that the runs write their artifact    *)
(* bundles to.  write_artifact_bundle claims the run directory with a      *)
(* mkdir that fails when the directory exists, writes the entries of the   *)
(* bundle one after the other, and validates what it wrote.  Files are not *)
(* written atomically: opening one creates or truncates it, closing it     *)
(* makes it whole.  A writer may fail, or its process may be killed, after *)
(* any of these steps.                                                     *)
(*                                                                         *)
(* A run writes at most one bundle, so what a file holds is given by the   *)
(* run that wrote it.                                                      *)
(***************************************************************************)
EXTENDS LabConfig, Sequences

CONSTANTS
  Dirs,     (* the run directories                                           *)
  Target    (* Target[w]: the directory run w resolves its run id to         *)

ASSUME StoreAssumption == Target \in [Runs -> Dirs]

VARIABLES
  owner,    (* owner[d]: the run whose mkdir made directory d, or None       *)
  content,  (* content[d][e]: the run that wrote entry e of d, or None       *)
  whole,    (* whole[d]: the entries of d whose writer finished them         *)
  bundle,   (* bundle[w]: what run w passes to write_artifact_bundle         *)
  wpc,      (* wpc[w]: where w is in write_artifact_bundle                   *)
  step      (* step[w]: the entries w has finished                           *)

storeVars == <<owner, content, whole, bundle, wpc, step>>

(* A mutant of BundleOrder: the report before the tables it sums up.         *)
ReportBeforeTables == << "plots", "run.json", "backend_config_resolved.json",
                         "system_info.json", "scorecard.json", "report.md",
                         "requests.parquet", "responses.parquet", "metrics.parquet" >>

(* The order write_artifact_bundle writes in.  The first entry is the plots  *)
(* directory, whole once it has its .gitkeep.                                *)
BundleOrder == << "plots", "run.json", "backend_config_resolved.json",
                  "system_info.json", "scorecard.json", "requests.parquet",
                  "responses.parquet", "metrics.parquet", "report.md" >>

NumEntries == 9
Entries == { "plots", "run.json", "backend_config_resolved.json",
             "system_info.json", "scorecard.json", "requests.parquet",
             "responses.parquet", "metrics.parquet", "report.md" }

(* A bundle: the status in run.json, the rows of responses.parquet, and      *)
(* whether metrics.parquet has, next to a row per response, a scrape.        *)
Bundles == [status : {"success", "failed"},
            responses : 0 .. NumRequests, scraped : BOOLEAN]
NoBundle == [status |-> "none", responses |-> 0, scraped |-> FALSE]
HasMetrics(b) == b.responses > 0 \/ b.scraped

WriterStates == {"idle", "claiming", "writing", "filling", "validating",
                 "published", "refused", "rejected", "broken"}

StoreTypeOK ==
  /\ owner \in [Dirs -> Runs \cup {None}]
  /\ content \in [Dirs -> [Entries -> Runs \cup {None}]]
  /\ whole \in [Dirs -> SUBSET Entries]
  /\ bundle \in [Runs -> Bundles \cup {NoBundle}]
  /\ wpc \in [Runs -> WriterStates]
  /\ step \in [Runs -> 0 .. NumEntries]

StoreInit ==
  /\ owner = [d \in Dirs |-> None]
  /\ content = [d \in Dirs |-> [e \in Entries |-> None]]
  /\ whole = [d \in Dirs |-> {}]
  /\ bundle = [w \in Runs |-> NoBundle]
  /\ wpc = [w \in Runs |-> "idle"]
  /\ step = [w \in Runs |-> 0]

-----------------------------------------------------------------------------
(* validate_artifact_dir: the names it requires exist, run.json parses, and  *)
(* a run that says it succeeded has metrics that parse and are not empty.    *)
(* The other files are never opened.                                         *)
Valid(d) ==
  /\ \A e \in Entries : content[d][e] # None
  /\ "run.json" \in whole[d]
  /\ bundle[content[d]["run.json"]].status = "success" =>
       /\ "metrics.parquet" \in whole[d]
       /\ HasMetrics(bundle[content[d]["metrics.parquet"]])

WriterGoto(w, state) == wpc' = [wpc EXCEPT ![w] = state]

(* A mutant of BeginBundle: the table's header is counted as a row.          *)
BeginBundleCountsHeader(w, b) ==
  /\ wpc[w] = "idle"
  /\ bundle' = [bundle EXCEPT ![w] = [b EXCEPT !.responses = @ + 1]]
  /\ WriterGoto(w, "claiming")
  /\ UNCHANGED <<owner, content, whole, step>>

(* The call of write_artifact_bundle.                                        *)
BeginBundle(w, b) ==
  /\ wpc[w] = "idle"
  /\ bundle' = [bundle EXCEPT ![w] = b]
  /\ WriterGoto(w, "claiming")
  /\ UNCHANGED <<owner, content, whole, step>>

(* A mutant of Claim: the directory of a writer that failed is taken over.   *)
ClaimAbandoned(w) ==
  /\ wpc[w] = "claiming"
  /\ IF owner[Target[w]] = None \/ wpc[owner[Target[w]]] = "broken"
       THEN /\ owner' = [owner EXCEPT ![Target[w]] = w]
            /\ WriterGoto(w, "writing")
       ELSE /\ WriterGoto(w, "refused")
            /\ UNCHANGED owner
  /\ UNCHANGED <<content, whole, bundle, step>>

(* run_dir.mkdir(parents=True, exist_ok=False)                               *)
Claim(w) ==
  /\ wpc[w] = "claiming"
  /\ IF owner[Target[w]] = None
       THEN /\ owner' = [owner EXCEPT ![Target[w]] = w]
            /\ WriterGoto(w, "writing")
       ELSE /\ WriterGoto(w, "refused")
            /\ UNCHANGED owner
  /\ UNCHANGED <<content, whole, bundle, step>>

NextEntry(w) == BundleOrder[step[w] + 1]

(* The next file is opened, and from then on it exists ...                   *)
CreateEntry(w) ==
  /\ wpc[w] = "writing"
  /\ step[w] < NumEntries
  /\ content' = [content EXCEPT ![Target[w]][NextEntry(w)] = w]
  /\ whole' = [whole EXCEPT ![Target[w]] = @ \ {NextEntry(w)}]
  /\ WriterGoto(w, "filling")
  /\ UNCHANGED <<owner, bundle, step>>

(* A mutant of FillEntry: the last file is left out.                         *)
FillEntryOneShort(w) ==
  /\ wpc[w] = "filling"
  /\ whole' = [whole EXCEPT ![Target[w]] = @ \cup {NextEntry(w)}]
  /\ step' = [step EXCEPT ![w] = @ + 1]
  /\ WriterGoto(w, IF step[w] + 2 = NumEntries THEN "validating" ELSE "writing")
  /\ UNCHANGED <<owner, content, bundle>>

(* ... and it is closed with all its bytes.                                  *)
FillEntry(w) ==
  /\ wpc[w] = "filling"
  /\ whole' = [whole EXCEPT ![Target[w]] = @ \cup {NextEntry(w)}]
  /\ step' = [step EXCEPT ![w] = @ + 1]
  /\ WriterGoto(w, IF step[w] + 1 = NumEntries THEN "validating" ELSE "writing")
  /\ UNCHANGED <<owner, content, bundle>>

(* A mutant of WriteError: the error is caught and the next file written.    *)
WriteErrorSwallowed(w) ==
  /\ wpc[w] = "filling"
  /\ step' = [step EXCEPT ![w] = @ + 1]
  /\ WriterGoto(w, IF step[w] + 1 = NumEntries THEN "validating" ELSE "writing")
  /\ UNCHANGED <<owner, content, whole, bundle>>

(* A mutant of WriteError: the half-written directory is removed.            *)
WriteErrorCleansUp(w) ==
  /\ wpc[w] \in {"claiming", "writing", "filling"}
  /\ WriterGoto(w, "broken")
  /\ owner' = [owner EXCEPT ![Target[w]] = None]
  /\ content' = [content EXCEPT ![Target[w]] = [e \in Entries |-> None]]
  /\ whole' = [whole EXCEPT ![Target[w]] = {}]
  /\ UNCHANGED <<bundle, step>>

(* A full disk, a denied permission: OSError leaves write_artifact_bundle.   *)
WriteError(w) ==
  /\ wpc[w] \in {"claiming", "writing", "filling"}
  /\ WriterGoto(w, "broken")
  /\ UNCHANGED <<owner, content, whole, bundle, step>>

(* return validate_artifact_dir(run_dir)                                     *)
Validate(w) ==
  /\ wpc[w] = "validating"
  /\ WriterGoto(w, IF Valid(Target[w]) THEN "published" ELSE "rejected")
  /\ UNCHANGED <<owner, content, whole, bundle, step>>

WriteStep(w) ==
  Claim(w) \/ CreateEntry(w) \/ FillEntry(w) \/ WriteError(w) \/ Validate(w)

StoreNext == \E w \in Runs : WriteStep(w) \/ \E b \in Bundles : BeginBundle(w, b)

StoreSpec == StoreInit /\ [][StoreNext]_storeVars

-----------------------------------------------------------------------------
(* What the bundle's author has to do with the directory.                    *)
Owned ==
  /\ \A d \in Dirs : owner[d] # None =>
       Target[owner[d]] = d /\ wpc[owner[d]] \notin {"idle", "claiming", "refused"}
  /\ \A w \in Runs :
       wpc[w] \in {"writing", "filling", "validating", "published", "rejected"} =>
         owner[Target[w]] = w

(* Nobody but the owner has written to a directory.                          *)
OneAuthor ==
  \A d \in Dirs : \A e \in Entries : content[d][e] \in {None, owner[d]}

(* The owner writes front to back: the entries it has finished are whole,    *)
(* those behind the current one do not exist.                                *)
FrontToBack ==
  \A d \in Dirs : owner[d] # None =>
    LET k == step[owner[d]] IN
    \A i \in 1 .. NumEntries :
      /\ i <= k     => content[d][BundleOrder[i]] = owner[d] /\ BundleOrder[i] \in whole[d]
      /\ i = k + 1  => \/ content[d][BundleOrder[i]] = None
                       \/ wpc[owner[d]] \in {"filling", "broken"}
      /\ i > k + 1  => content[d][BundleOrder[i]] = None

(* How many entries a writer can have finished where it is.                  *)
Progress ==
  \A w \in Runs :
    /\ wpc[w] \in {"idle", "claiming", "refused"} => step[w] = 0
    /\ wpc[w] \in {"writing", "filling"} => step[w] < NumEntries
    /\ wpc[w] \in {"validating", "published", "rejected"} => step[w] = NumEntries
    /\ wpc[w] = "filling" => content[Target[w]][NextEntry(w)] = w
    /\ wpc[w] # "idle" => bundle[w] \in Bundles

(* The discipline the writers keep between them, and what the claims about   *)
(* readers rest on: a directory has one author, who works front to back.     *)
StoreInv == Owned /\ OneAuthor /\ FrontToBack /\ Progress

(* A directory a reader accepts, with `lsp validate-artifact` or as input of *)
(* the M3 report and at whatever moment, is the finished work of one run:    *)
(* every table and document of the bundle is there in full and comes from    *)
(* the run that made the directory.  Only report.md, which is written last   *)
(* and no reader parses, may still be open.                                  *)
ValidIsComplete ==
  \A d \in Dirs : Valid(d) =>
    /\ \A e \in Entries : content[d][e] = owner[d]
    /\ Entries \ {"report.md"} \subseteq whole[d]

(* write_artifact_bundle returns a bundle only for a directory whose every   *)
(* file is its own, finished, and says what the caller passed in.            *)
PublishedIsMine ==
  \A w \in Runs : wpc[w] = "published" =>
    /\ owner[Target[w]] = w
    /\ \A e \in Entries : content[Target[w]][e] = w
    /\ Entries \subseteq whole[Target[w]]

(* What a reader has accepted is what it goes on to read, however long that  *)
(* takes: load_json and read_parquet of the M3 report come after             *)
(* validate_artifact_dir, and by then no writer, retried, late or racing,    *)
(* has touched a file of the directory.  Only the report.md that was still   *)
(* open may be finished.                                                     *)
AcceptedIsFrozen ==
  [][\A d \in Dirs : Valid(d) =>
       /\ owner'[d] = owner[d] /\ bundle'[owner[d]] = bundle[owner[d]]
       /\ content'[d] = content[d] /\ whole[d] \subseteq whole'[d]]_storeVars

(* What a reader sees of a directory: nothing, a claimed directory it        *)
(* rejects, or an artifact with a status; and by whom.                       *)
Seen(d) ==
  [by    |-> owner[d],
   state |-> IF owner[d] = None THEN "absent"
             ELSE IF Valid(d) THEN bundle[content[d]["run.json"]].status
             ELSE "claimed"]

Register == INSTANCE ArtifactRegister WITH pub <- [d \in Dirs |-> Seen(d)]

(* The artifact store promises write-once registers: a run directory is      *)
(* claimed by one run, only that run can publish in it, and a published      *)
(* verdict never changes.                                                    *)
RegisterSpec == Register!Spec

=============================================================================
