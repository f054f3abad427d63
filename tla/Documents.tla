------------------------------ MODULE Documents ------------------------------
(***************************************************************************)
(* Quotes and invoices (src/price_parser/documents/service.py, the         *)
(* commercial_documents and budget_updates tables of db/models.py, the     *)
(* /documents calls of api/app.py).  Every API call has a session of its   *)
(* own and calls run at the same time; each SELECT sees what was committed *)
(* when it ran, and all a call writes to the database is in its COMMIT.    *)
(*                                                                         *)
(* The hash of a payload is modelled by the payload, since it covers that  *)
(* and what is calculated from it: neither the type nor the deal is part   *)
(* of it.  The id of a document is modelled by its key and version.        *)
(***************************************************************************)
EXTENDS DocumentTotals, FiniteSets, FiniteSetsExt

CONSTANTS
  Keys, Payloads, Types, Deals,
  Sessions,       \* API calls in progress at the same time
  MaxVersions,    \* bound: versions of a key
  MaxRenderings,  \* bound: PDF files written
  None

ASSUME DocumentsAssumption == MaxVersions \in Nat

VARIABLES
  documents,   \* commercial_documents
  budget,      \* budget_updates, in the order of their commits
  disk,        \* the PDF at the path of a document: 0 none, Torn, or the number of its rendering
  renderings,  \* renderings so far: no two write the same bytes (a PDF holds its time and id)
  disturbed,   \* documents with a rendering that was cut short or met another one
  pc, work     \* where each call is and what it has read

tables == <<documents, budget>>
files  == <<disk, renderings, disturbed>>
vars   == <<documents, budget, disk, renderings, disturbed, pc, work>>

Torn  == -1
Ids   == Keys \X (1..MaxVersions)
IdOf(d) == <<d.key, d.version>>

\* id: the document of a rendering or budget update; new: the row to insert; version:
\* the highest one read; digest: of the rendering, then of the file as it was read back.
NoWork == [id |-> None, new |-> None, version |-> 0, deal |-> None, digest |-> 0]

Init ==
  /\ documents = {} /\ budget = <<>>
  /\ disk = [i \in Ids |-> 0] /\ renderings = 0 /\ disturbed = {}
  /\ pc = [s \in Sessions |-> "idle"]
  /\ work = [s \in Sessions |-> NoWork]

-----------------------------------------------------------------------------
Move(s, from, to, w) ==
  /\ pc[s] = from
  /\ pc' = [pc EXCEPT ![s] = to]
  /\ work' = [work EXCEPT ![s] = w]

VersionsOf(k) == {d.version : d \in {e \in documents : e.key = k}}

\* An existing document with this payload answers the call, whatever its type.
StartCreate(s, k, p, t, deal) ==
  /\ ~IsRefused(p)
  /\ ~\E d \in documents : d.key = k /\ d.payload = p
  /\ Move(s, "idle", "numbering",
          [NoWork EXCEPT !.new = [key |-> k, payload |-> p, type |-> t, deal |-> deal]])
  /\ UNCHANGED <<tables, files>>

ReadVersion(s) ==
  /\ Move(s, "numbering", "creating",
          [work[s] EXCEPT !.version = Max(VersionsOf(work[s].new.key) \cup {0})])
  /\ UNCHANGED <<tables, files>>

\* Mutant: the pair of key and version is not unique.
NeverTaken(k, v) == FALSE

\* uq_commercial_documents_key_version.
IsTaken(k, v) == v \in VersionsOf(k)

NewDocument(w) ==
  [key |-> w.new.key, version |-> w.version + 1, type |-> w.new.type, deal |-> w.new.deal,
   payload |-> w.new.payload, total |-> Calculate(w.new.payload).grand,
   status |-> "DRAFT", pdf |-> 0]

CommitCreate(s) ==
  LET d == NewDocument(work[s])
  IN  /\ Move(s, "creating", "idle", NoWork)
      /\ d.version <= MaxVersions
      /\ documents' = IF IsTaken(d.key, d.version) THEN documents ELSE documents \cup {d}
      /\ UNCHANGED <<budget, files>>

-----------------------------------------------------------------------------
Rendering(i) == {s \in Sessions : work[s].id = i /\ pc[s] \in {"writing", "reading", "finalising"}}

\* The status of the document is not looked at: a final one is rendered again.
\* Opening the file empties it.
StartRender(s, d) ==
  LET i == IdOf(d)
  IN  /\ renderings < MaxRenderings
      /\ Move(s, "idle", "writing", [NoWork EXCEPT !.id = i, !.digest = renderings + 1])
      /\ renderings' = renderings + 1
      /\ disk' = [disk EXCEPT ![i] = Torn]
      /\ disturbed' = IF Rendering(i) = {} THEN disturbed ELSE disturbed \cup {i}
      /\ UNCHANGED tables

WritePdf(s) ==
  /\ Move(s, "writing", "reading", work[s])
  /\ disk' = [disk EXCEPT ![work[s].id] = work[s].digest]
  /\ UNCHANGED <<tables, renderings, disturbed>>

ReadBack(s) ==
  /\ Move(s, "reading", "finalising", [work[s] EXCEPT !.digest = disk[work[s].id]])
  /\ UNCHANGED <<tables, files>>

\* Mutant: the hash of the first rendering stays.
FinalisedOnce(d, digest) ==
  [d EXCEPT !.status = "FINALIZED", !.pdf = IF d.status = "DRAFT" THEN digest ELSE @]

Finalised(d, digest) == [d EXCEPT !.status = "FINALIZED", !.pdf = digest]

CommitRender(s) ==
  /\ Move(s, "finalising", "idle", NoWork)
  /\ documents' = {IF IdOf(d) = work[s].id THEN Finalised(d, work[s].digest) ELSE d : d \in documents}
  /\ UNCHANGED <<budget, files>>

-----------------------------------------------------------------------------
Covers(b, i, deal) == b.id = i /\ b.deal = deal

MayUpdate(d) == d.status = "FINALIZED"

StartBudget(s, d, deal) ==
  /\ MayUpdate(d)
  /\ ~\E b \in Range(budget) : Covers(b, IdOf(d), deal)
  /\ Move(s, "idle", "updating", [NoWork EXCEPT !.id = IdOf(d), !.deal = deal])
  /\ UNCHANGED <<tables, files>>

\* idempotency_key is unique, in the update and in its audit event.
CommitBudget(s) ==
  LET i == work[s].id
      d == CHOOSE e \in documents : IdOf(e) = i
  IN  /\ Move(s, "updating", "idle", NoWork)
      /\ budget' = IF \E b \in Range(budget) : Covers(b, i, work[s].deal)
                   THEN budget
                   ELSE Append(budget, [id |-> i, deal |-> work[s].deal, amount |-> d.total])
      /\ UNCHANGED <<documents, files>>

\* A call dies, or its COMMIT fails: nothing is recorded, the file stays as it is.
Abort(s) ==
  /\ pc[s] # "idle"
  /\ disturbed' = IF pc[s] \in {"writing", "reading", "finalising"}
                  THEN disturbed \cup {work[s].id} ELSE disturbed
  /\ Move(s, pc[s], "idle", NoWork)
  /\ UNCHANGED <<tables, disk, renderings>>

Step(s) ==
  \/ \E k \in Keys, p \in Payloads, t \in Types, deal \in Deals : StartCreate(s, k, p, t, deal)
  \/ ReadVersion(s) \/ CommitCreate(s)
  \/ \E d \in documents : StartRender(s, d) \/ \E deal \in Deals : StartBudget(s, d, deal)
  \/ WritePdf(s) \/ ReadBack(s) \/ CommitRender(s) \/ CommitBudget(s) \/ Abort(s)

Next == \E s \in Sessions : Step(s)

Spec == Init /\ [][Next]_vars

-----------------------------------------------------------------------------
Version(k, v) == CHOOSE d \in documents : d.key = k /\ d.version = v

\* The register these tables stand for.
VersionSeen(k, v) ==
  [content |-> Version(k, v).payload, final |-> Version(k, v).status = "FINALIZED"]

VersionsSeen == [k \in Keys |-> [v \in VersionsOf(k) |-> VersionSeen(k, v)]]

UpdateSeen(b) == [key |-> b.id[1], version |-> b.id[2], deal |-> b.deal, amount |-> b.amount]

BudgetSeen == [j \in DOMAIN budget |-> UpdateSeen(budget[j])]

Grand(p) == Calculate(p).grand

Register == INSTANCE DocumentRegister WITH
  Contents <- Payloads, TotalOf <- Grand, versions <- VersionsSeen, budget <- BudgetSeen

\* The tables are the register: concurrent creations of a key never give two
\* documents one version nor leave a number out, a version keeps its content, and
\* a deal's budget holds each final version at most once, with its grand total.
ImplementsRegister == Register!RegisterSpec

\* The hash stored with a final document is that of the PDF on the disk, while no
\* call renders it, unless a rendering of it was cut short (the file is written
\* before the commit) or met another one.
PdfIsTheFile ==
  \A d \in documents :
    d.status = "FINALIZED" /\ Rendering(IdOf(d)) = {} /\ IdOf(d) \notin disturbed
      => disk[IdOf(d)] = d.pdf

-----------------------------------------------------------------------------
(***************************************************************************)
(* The inductive invariant behind both: versions are numbered without a    *)
(* gap, what a call read of them is out of date only in ways its COMMIT    *)
(* notices, and who renders a document alone knows what is on the disk.    *)
(***************************************************************************)
Totals    == {Grand(p) : p \in Payloads}
Contents  == [key : Keys, payload : Payloads, type : Types, deal : Deals]
Documented ==
  [key : Keys, version : 1..MaxVersions, type : Types, deal : Deals, payload : Payloads,
   total : Totals, status : {"DRAFT", "FINALIZED"}, pdf : Int]

DocumentsTypeOK ==
  /\ documents \subseteq Documented
  /\ budget \in Seq([id : Ids, deal : Deals, amount : Totals])
  /\ disk \in [Ids -> Int] /\ renderings \in Nat /\ disturbed \subseteq Ids
  /\ pc \in [Sessions -> {"idle", "numbering", "creating", "writing", "reading", "finalising",
                           "updating"}]
  /\ work \in [Sessions -> [id : Ids \cup {None}, new : Contents \cup {None},
                            version : 0..MaxVersions, deal : Deals \cup {None}, digest : Int]]

IsUnique == \A d, e \in documents : IdOf(d) = IdOf(e) => d = e

HasNoGap == \A k \in Keys : \A v \in VersionsOf(k) : 1..v \subseteq VersionsOf(k)

TotalIsOfContent == \A d \in documents : d.total = Grand(d.payload)

\* What a call has read.
Read(s) ==
  /\ pc[s] \in {"numbering", "creating"} => work[s].new \in Contents
  /\ pc[s] = "creating" => work[s].version \in VersionsOf(work[s].new.key) \cup {0}
  /\ pc[s] \in {"writing", "reading", "finalising", "updating"} =>
       \E d \in documents : /\ IdOf(d) = work[s].id
                            /\ pc[s] = "updating" => MayUpdate(d) /\ work[s].deal \in Deals

\* A rendering that was not disturbed is alone, and the file is its own.
RendersAlone(s) ==
  pc[s] \in {"writing", "reading", "finalising"} /\ work[s].id \notin disturbed =>
    /\ Rendering(work[s].id) = {s}
    /\ pc[s] # "writing" => disk[work[s].id] = work[s].digest

DocumentsInv ==
  /\ DocumentsTypeOK
  /\ IsUnique /\ HasNoGap /\ TotalIsOfContent
  /\ \A s \in Sessions : Read(s) /\ RendersAlone(s)
  /\ PdfIsTheFile
=============================================================================
