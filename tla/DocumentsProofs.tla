--------------------------- MODULE DocumentsProofs ---------------------------
(***************************************************************************)
(* Theorems about Documents, for any number of keys, payloads and calls:   *)
(* its type invariant, the numbering of versions, the PDF behind a final   *)
(* document, and that the tables implement the abstract DocumentRegister.  *)
(***************************************************************************)
EXTENDS Documents, NaturalLemmas, SequenceTheorems

Places == {"idle", "numbering", "creating", "writing", "reading", "finalising", "updating"}

Works == [id : Ids \cup {None}, new : Contents \cup {None}, version : 0..MaxVersions,
          deal : Deals \cup {None}, digest : Int]

Updates == [id : Ids, deal : Deals, amount : Totals]

\* The highest version a call reads: one there is, or 0.
LEMMA HighestVersion ==
  ASSUME DocumentsTypeOK, NEW k \in Keys
  PROVE  /\ VersionsOf(k) \subseteq 1..MaxVersions
         /\ Max(VersionsOf(k) \cup {0}) \in VersionsOf(k) \cup {0}
         /\ Max(VersionsOf(k) \cup {0}) \in 0..MaxVersions
<1>1. VersionsOf(k) \subseteq 1..MaxVersions
  BY DEF VersionsOf, DocumentsTypeOK, Documented
<1>2. PICK m \in VersionsOf(k) \cup {0} : \A v \in VersionsOf(k) \cup {0} : m >= v
  <2>1. CASE VersionsOf(k) = {}
    BY <2>1
  <2>2. CASE VersionsOf(k) # {}
    <3>1. PICK m \in VersionsOf(k) : \A v \in VersionsOf(k) : v <= m
      BY <1>1, <2>2, GreatestExists, DocumentsAssumption
    <3> QED BY <1>1, <3>1, DocumentsAssumption
  <2> QED BY <2>1, <2>2
<1>3. Max(VersionsOf(k) \cup {0}) \in VersionsOf(k) \cup {0}
  BY <1>2 DEF Max
<1> QED BY <1>1, <1>3, DocumentsAssumption

-----------------------------------------------------------------------------
(***************************************************************************)
(* What each action does to the work of a call.                            *)
(***************************************************************************)
LEMMA MoveType ==
  ASSUME DocumentsTypeOK, NEW s \in Sessions, NEW from, NEW to \in Places, NEW w \in Works,
         Move(s, from, to, w)
  PROVE  /\ pc' \in [Sessions -> Places]
         /\ work' \in [Sessions -> Works]
         /\ pc[s] = from /\ pc'[s] = to /\ work'[s] = w
         /\ \A t \in Sessions \ {s} : pc'[t] = pc[t] /\ work'[t] = work[t]
BY DEF DocumentsTypeOK, Move, Places, Works

\* A call with nothing in hand has a type.
LEMMA NoWorkType == NoWork \in Works
BY DocumentsAssumption DEF NoWork, Works

\* A call at a document holds its id, and a digest or a deal.
LEMMA WorkAtDocument ==
  ASSUME NEW i \in Ids
  PROVE  /\ \A n \in Int : [NoWork EXCEPT !.id = i, !.digest = n] \in Works
         /\ \A deal \in Deals : [NoWork EXCEPT !.id = i, !.deal = deal] \in Works
<1>1. ASSUME NEW w \in Works
      PROVE  /\ \A n \in Int : [w EXCEPT !.id = i, !.digest = n] \in Works
             /\ \A deal \in Deals : [w EXCEPT !.id = i, !.deal = deal] \in Works
  BY DEF Works
<1> QED BY <1>1, NoWorkType

\* A new document within the bound on versions is a document.
LEMMA NewDocumentType ==
  ASSUME NEW w \in Works, w.new \in Contents, w.version + 1 <= MaxVersions
  PROVE  NewDocument(w) \in Documented
BY DocumentsAssumption DEF Works, Contents, NewDocument, Documented, Totals, Grand

\* Finalising changes the status and the hash of a document and nothing else.
LEMMA FinalisedType ==
  ASSUME NEW d \in Documented, NEW digest \in Int
  PROVE  /\ Finalised(d, digest) \in Documented
         /\ IdOf(Finalised(d, digest)) = IdOf(d)
         /\ Finalised(d, digest).key = d.key /\ Finalised(d, digest).version = d.version
         /\ Finalised(d, digest).payload = d.payload /\ Finalised(d, digest).total = d.total
         /\ Finalised(d, digest).status = "FINALIZED" /\ Finalised(d, digest).pdf = digest
BY DEF Documented, Finalised, IdOf

\* A document is known by its key and version.
LEMMA IdType ==
  ASSUME NEW d \in Documented
  PROVE  IdOf(d) \in Ids /\ IdOf(d)[1] = d.key /\ IdOf(d)[2] = d.version
BY DEF Documented, IdOf, Ids

-----------------------------------------------------------------------------
\* Every step keeps the types.
LEMMA TypeStep == DocumentsInv /\ [Next]_vars => DocumentsTypeOK'
<1> SUFFICES ASSUME DocumentsInv, [Next]_vars PROVE DocumentsTypeOK'
  OBVIOUS
<1> USE DEF DocumentsInv
<1>0. CASE UNCHANGED vars
  BY <1>0 DEF vars, DocumentsTypeOK
<1>1. ASSUME NEW s \in Sessions, Step(s) PROVE DocumentsTypeOK'
  <2>0. work[s] \in Works /\ pc[s] \in Places
    BY DEF DocumentsTypeOK, Works, Places
  <2>1. ASSUME NEW k \in Keys, NEW p \in Payloads, NEW t \in Types, NEW deal \in Deals,
               StartCreate(s, k, p, t, deal)
        PROVE  DocumentsTypeOK'
    <3>1. [NoWork EXCEPT !.new = [key |-> k, payload |-> p, type |-> t, deal |-> deal]] \in Works
      BY DocumentsAssumption DEF NoWork, Works, Contents
    <3> QED BY <2>1, <3>1, MoveType DEF StartCreate, DocumentsTypeOK, Works, Places, tables, files
  <2>2. CASE ReadVersion(s)
    <3>1. work[s].new.key \in Keys
      BY <2>2 DEF ReadVersion, Move, Read, Contents
    <3>2. [work[s] EXCEPT !.version = Max(VersionsOf(work[s].new.key) \cup {0})] \in Works
      BY <2>0, <3>1, HighestVersion DEF Works
    <3> QED BY <2>2, <3>2, MoveType DEF ReadVersion, DocumentsTypeOK, Works, Places, tables, files
  <2>3. CASE CommitCreate(s)
    <3>1. work[s].new \in Contents
      BY <2>3 DEF CommitCreate, Move, Read
    <3>2. NewDocument(work[s]) \in Documented
      BY <2>0, <2>3, <3>1, NewDocumentType DEF CommitCreate, NewDocument
    <3>3. documents' \subseteq Documented
      BY <2>3, <3>2 DEF CommitCreate, DocumentsTypeOK
    <3> QED BY <2>3, <3>3, MoveType, NoWorkType DEF CommitCreate, DocumentsTypeOK, Works, Places, files
  <2>4. ASSUME NEW d \in documents, StartRender(s, d) PROVE DocumentsTypeOK'
    <3>1. IdOf(d) \in Ids
      BY IdType DEF DocumentsTypeOK
    <3>2. [NoWork EXCEPT !.id = IdOf(d), !.digest = renderings + 1] \in Works
      <4>1. renderings + 1 \in Int
        BY DEF DocumentsTypeOK
      <4> QED BY <3>1, <4>1, WorkAtDocument
    <3>3. disk' \in [Ids -> Int] /\ renderings' \in Nat /\ disturbed' \subseteq Ids
      BY <2>4, <3>1 DEF StartRender, DocumentsTypeOK, Torn
    <3> QED BY <2>4, <3>2, <3>3, MoveType DEF StartRender, DocumentsTypeOK, Works, Places, tables
  <2>5. ASSUME NEW d \in documents, NEW deal \in Deals, StartBudget(s, d, deal)
        PROVE  DocumentsTypeOK'
    <3>1. [NoWork EXCEPT !.id = IdOf(d), !.deal = deal] \in Works
      <4>1. IdOf(d) \in Ids
        BY IdType DEF DocumentsTypeOK
      <4> QED BY <4>1, WorkAtDocument
    <3> QED BY <2>5, <3>1, MoveType DEF StartBudget, DocumentsTypeOK, Works, Places, tables, files
  <2>6. CASE WritePdf(s)
    <3>1. disk' \in [Ids -> Int]
      BY <2>0, <2>6 DEF WritePdf, DocumentsTypeOK, Works
    <3> QED BY <2>0, <2>6, <3>1, MoveType DEF WritePdf, DocumentsTypeOK, Works, Places, tables
  <2>7. CASE ReadBack(s)
    <3>1. work[s].id \in Ids
      BY <2>7, IdType DEF ReadBack, Move, Read, DocumentsTypeOK
    <3>2. [work[s] EXCEPT !.digest = disk[work[s].id]] \in Works
      BY <2>0, <3>1 DEF DocumentsTypeOK, Works
    <3> QED BY <2>7, <3>2, MoveType DEF ReadBack, DocumentsTypeOK, Works, Places, tables, files
  <2>8. CASE CommitRender(s)
    <3>1. documents' \subseteq Documented
      <4>1. work[s].digest \in Int /\ documents \subseteq Documented
        BY <2>0 DEF DocumentsTypeOK, Works
      <4>2. \A d \in documents : Finalised(d, work[s].digest) \in Documented
        BY <4>1, FinalisedType
      <4> QED BY <2>8, <4>1, <4>2 DEF CommitRender
    <3> QED BY <2>8, <3>1, MoveType, NoWorkType DEF CommitRender, DocumentsTypeOK, Works, Places, files
  <2>9. CASE CommitBudget(s)
    <3>1. PICK d \in documents : IdOf(d) = work[s].id /\ MayUpdate(d) /\ work[s].deal \in Deals
      BY <2>9 DEF CommitBudget, Move, Read
    <3>2. d = (CHOOSE e \in documents : IdOf(e) = work[s].id)
      BY <3>1 DEF IsUnique
    <3>3. [id |-> work[s].id, deal |-> work[s].deal, amount |-> d.total] \in Updates
      BY <3>1, IdType DEF DocumentsTypeOK, Documented, Updates
    <3>4. budget' \in Seq(Updates)
      BY <2>9, <3>2, <3>3, AppendProperties DEF CommitBudget, DocumentsTypeOK, Updates
    <3> QED BY <2>9, <3>4, MoveType, NoWorkType
            DEF CommitBudget, DocumentsTypeOK, Works, Places, files, Updates
  <2>10. CASE Abort(s)
    <3>1. disturbed' \subseteq Ids
      <4>1. CASE pc[s] \in {"writing", "reading", "finalising"}
        BY <2>10, <4>1, IdType DEF Abort, Read, DocumentsTypeOK
      <4>2. CASE pc[s] \notin {"writing", "reading", "finalising"}
        BY <2>10, <4>2 DEF Abort, DocumentsTypeOK
      <4> QED BY <4>1, <4>2
    <3> QED BY <2>10, <3>1, MoveType, NoWorkType DEF Abort, DocumentsTypeOK, Works, Places, tables
  <2> QED BY <1>1, <2>1, <2>2, <2>3, <2>4, <2>5, <2>6, <2>7, <2>8, <2>9, <2>10 DEF Step
<1> QED BY <1>0, <1>1 DEF Next

-----------------------------------------------------------------------------
(***************************************************************************)
(* Only two actions change the documents: one adds the next version of a   *)
(* key, one makes a version final and changes nothing else.                *)
(***************************************************************************)
IsNext(d) ==
  /\ d \in Documented
  /\ VersionsOf(d.key) = 1 .. d.version - 1
  /\ d.status = "DRAFT" /\ d.total = Grand(d.payload)

\* A creation inserts the next version of its key, or the unique key refuses it.
LEMMA CreateAddsNext ==
  ASSUME DocumentsInv, NEW s \in Sessions, CommitCreate(s)
  PROVE  \/ UNCHANGED documents
         \/ \E d : IsNext(d) /\ documents' = documents \cup {d}
<1> DEFINE d == NewDocument(work[s])
           n == work[s].version
<1>1. CASE IsTaken(d.key, d.version)
  BY <1>1 DEF CommitCreate
<1>2. CASE ~IsTaken(d.key, d.version)
  <2>1. work[s] \in Works /\ work[s].new \in Contents
    BY DEF DocumentsInv, DocumentsTypeOK, Works, CommitCreate, Move, Read
  <2>2. /\ d.key = work[s].new.key /\ d.version = n + 1 /\ d.status = "DRAFT"
        /\ d.total = Grand(d.payload)
    BY DEF NewDocument, Grand
  <2>3. d \in Documented /\ d.key \in Keys /\ n \in 0..MaxVersions
    BY <2>1, <2>2, NewDocumentType DEF CommitCreate, Contents, Works
  <2>4. n \in VersionsOf(d.key) \cup {0} /\ n + 1 \notin VersionsOf(d.key)
    BY <1>2, <2>2 DEF DocumentsInv, Read, CommitCreate, Move, IsTaken
  <2> HIDE DEF d, n
  <2>5. \A v \in VersionsOf(d.key) : v \in 1..n
    <3> SUFFICES ASSUME NEW v \in VersionsOf(d.key), v \notin 1..n PROVE FALSE
      OBVIOUS
    <3>0. v \in 1..MaxVersions
      BY <2>3, HighestVersion DEF DocumentsInv
    <3>1. n + 1 \in 1..v
      BY <2>3, <3>0, DocumentsAssumption
    <3> QED BY <2>3, <2>4, <3>1 DEF DocumentsInv, HasNoGap
  <2>6. 1..n \subseteq VersionsOf(d.key)
    <3>1. CASE n = 0
      BY <3>1
    <3>2. CASE n # 0
      BY <2>3, <2>4, <3>2 DEF DocumentsInv, HasNoGap
    <3> QED BY <3>1, <3>2
  <2>7. VersionsOf(d.key) = 1 .. d.version - 1
    <3>1. d.version - 1 = n
      BY <2>2, <2>3, DocumentsAssumption
    <3> QED BY <2>5, <2>6, <3>1
  <2>8. documents' = documents \cup {d}
    BY <1>2 DEF CommitCreate, d
  <2> QED BY <2>2, <2>3, <2>7, <2>8 DEF IsNext
<1> QED BY <1>1, <1>2

\* The next version of a key is the only change of the numbering.
LEMMA AddedDocument ==
  ASSUME DocumentsTypeOK, NEW d, IsNext(d), documents' = documents \cup {d}
  PROVE  /\ \A e \in documents : IdOf(e) # IdOf(d)
         /\ VersionsOf(d.key)' = 1 .. d.version
         /\ \A k \in Keys \ {d.key} : VersionsOf(k)' = VersionsOf(k)
<1>1. d.version \in 1..MaxVersions /\ d.version \notin VersionsOf(d.key)
  BY DocumentsAssumption DEF IsNext, Documented
<1>2. \A e \in documents : IdOf(e) # IdOf(d)
  BY <1>1 DEF VersionsOf, IdOf
<1>3. VersionsOf(d.key)' = VersionsOf(d.key) \cup {d.version}
  BY DEF VersionsOf
<1>4. \A k \in Keys \ {d.key} : VersionsOf(k)' = VersionsOf(k)
  BY DEF VersionsOf
<1> QED BY <1>1, <1>2, <1>3, <1>4, DocumentsAssumption DEF IsNext

IsFinalised(i, digest) ==
  documents' = {IF IdOf(d) = i THEN Finalised(d, digest) ELSE d : d \in documents}

\* A rendering keeps the documents apart from status and hash of its own.
LEMMA RenderFinalises ==
  ASSUME DocumentsTypeOK, NEW i, NEW digest \in Int, IsFinalised(i, digest)
  PROVE  /\ \A d \in documents :
              \E e \in documents' : /\ IdOf(e) = IdOf(d)
                                    /\ e = IF IdOf(d) = i THEN Finalised(d, digest) ELSE d
         /\ \A e \in documents' :
              \E d \in documents : /\ IdOf(e) = IdOf(d)
                                   /\ e = IF IdOf(d) = i THEN Finalised(d, digest) ELSE d
         /\ \A k : VersionsOf(k)' = VersionsOf(k)
<1>1. \A d \in documents : LET e == IF IdOf(d) = i THEN Finalised(d, digest) ELSE d
                           IN  IdOf(e) = IdOf(d) /\ e.key = d.key /\ e.version = d.version
  BY FinalisedType DEF DocumentsTypeOK
<1>2. \A d \in documents :
        \E e \in documents' : /\ IdOf(e) = IdOf(d) /\ e.key = d.key /\ e.version = d.version
                              /\ e = IF IdOf(d) = i THEN Finalised(d, digest) ELSE d
  BY <1>1 DEF IsFinalised
<1>3. \A e \in documents' :
        \E d \in documents : /\ IdOf(e) = IdOf(d) /\ e.key = d.key /\ e.version = d.version
                             /\ e = IF IdOf(d) = i THEN Finalised(d, digest) ELSE d
  BY <1>1 DEF IsFinalised
<1>4. \A k : VersionsOf(k)' = VersionsOf(k)
  BY <1>2, <1>3 DEF VersionsOf
<1> QED BY <1>2, <1>3, <1>4

\* Nothing else changes the table of documents.
LEMMA DocumentsChange ==
  ASSUME DocumentsInv, [Next]_vars
  PROVE  \/ UNCHANGED documents
         \/ \E d : IsNext(d) /\ documents' = documents \cup {d}
         \/ \E s \in Sessions : /\ CommitRender(s) /\ work[s].digest \in Int
                                /\ IsFinalised(work[s].id, work[s].digest)
<1>1. CASE UNCHANGED vars
  BY <1>1 DEF vars
<1>2. ASSUME NEW s \in Sessions, CommitRender(s)
      PROVE  work[s].digest \in Int /\ IsFinalised(work[s].id, work[s].digest)
  BY <1>2 DEF CommitRender, IsFinalised, DocumentsInv, DocumentsTypeOK
<1>3. ASSUME NEW s \in Sessions, Step(s)
      PROVE  UNCHANGED documents \/ CommitCreate(s) \/ CommitRender(s)
  BY <1>3 DEF Step, StartCreate, ReadVersion, StartRender, StartBudget, WritePdf, ReadBack,
              CommitBudget, Abort, tables
<1> QED BY <1>1, <1>2, <1>3, CreateAddsNext DEF Next

-----------------------------------------------------------------------------
\* Every step keeps the numbering and the totals.
LEMMA NumberingStep ==
  DocumentsInv /\ [Next]_vars => IsUnique' /\ HasNoGap' /\ TotalIsOfContent'
<1> SUFFICES ASSUME DocumentsInv, [Next]_vars
             PROVE  IsUnique' /\ HasNoGap' /\ TotalIsOfContent'
  OBVIOUS
<1> USE DEF DocumentsInv
<1>1. CASE UNCHANGED documents
  BY <1>1 DEF IsUnique, HasNoGap, TotalIsOfContent, VersionsOf
<1>2. ASSUME NEW d, IsNext(d), documents' = documents \cup {d}
      PROVE  IsUnique' /\ HasNoGap' /\ TotalIsOfContent'
  <2>1. IsUnique'
    BY <1>2, AddedDocument DEF IsUnique
  <2>2. HasNoGap'
    <3> SUFFICES ASSUME NEW k \in Keys, NEW v \in VersionsOf(k)'
                 PROVE  1..v \subseteq VersionsOf(k)'
      BY DEF HasNoGap
    <3>1. CASE k = d.key
      <4>1. VersionsOf(k)' = 1 .. d.version /\ d.version \in Int
        BY <1>2, <3>1, AddedDocument DEF IsNext, Documented
      <4> QED BY <4>1
    <3>2. CASE k # d.key
      BY <1>2, <3>2, AddedDocument DEF HasNoGap
    <3> QED BY <3>1, <3>2
  <2>3. TotalIsOfContent'
    BY <1>2 DEF TotalIsOfContent, IsNext
  <2> QED BY <2>1, <2>2, <2>3
<1>3. ASSUME NEW i, NEW digest \in Int, IsFinalised(i, digest)
      PROVE  IsUnique' /\ HasNoGap' /\ TotalIsOfContent'
  <2>1. IsUnique'
    BY <1>3, RenderFinalises DEF IsUnique
  <2>2. HasNoGap'
    BY <1>3, RenderFinalises DEF HasNoGap
  <2>3. TotalIsOfContent'
    <3> SUFFICES ASSUME NEW e \in documents' PROVE e.total = Grand(e.payload)
      BY DEF TotalIsOfContent
    <3>1. PICK d \in documents : e = IF IdOf(d) = i THEN Finalised(d, digest) ELSE d
      BY <1>3, RenderFinalises
    <3>2. e.total = d.total /\ e.payload = d.payload
      BY <1>3, <3>1, FinalisedType DEF DocumentsTypeOK
    <3> QED BY <3>2 DEF TotalIsOfContent
  <2> QED BY <2>1, <2>2, <2>3
<1> QED BY <1>1, <1>2, <1>3, DocumentsChange

\* A version that exists stays, and a final one stays final.
LEMMA VersionsStay ==
  ASSUME DocumentsInv, [Next]_vars
  PROVE  /\ \A d \in documents : \E e \in documents' :
              IdOf(e) = IdOf(d) /\ (MayUpdate(d) => MayUpdate(e))
         /\ \A k \in Keys : VersionsOf(k) \subseteq VersionsOf(k)'
<1> USE DEF DocumentsInv
<1>1. CASE UNCHANGED documents
  BY <1>1 DEF VersionsOf
<1>2. ASSUME NEW d, documents' = documents \cup {d}
      PROVE  /\ documents \subseteq documents'
             /\ \A k \in Keys : VersionsOf(k) \subseteq VersionsOf(k)'
  BY <1>2 DEF VersionsOf
<1>3. ASSUME NEW i, NEW digest \in Int, IsFinalised(i, digest)
      PROVE  /\ \A d \in documents : \E e \in documents' :
                  IdOf(e) = IdOf(d) /\ (MayUpdate(d) => MayUpdate(e))
             /\ \A k \in Keys : VersionsOf(k) \subseteq VersionsOf(k)'
  <2>1. ASSUME NEW d \in documents
        PROVE  \E e \in documents' : IdOf(e) = IdOf(d) /\ (MayUpdate(d) => MayUpdate(e))
    <3>1. PICK e \in documents' : /\ IdOf(e) = IdOf(d)
                                  /\ e = IF IdOf(d) = i THEN Finalised(d, digest) ELSE d
      BY <1>3, RenderFinalises
    <3>2. MayUpdate(d) => MayUpdate(e)
      BY <1>3, <3>1, FinalisedType DEF MayUpdate, DocumentsTypeOK
    <3> QED BY <3>1, <3>2
  <2> QED BY <1>3, <2>1, RenderFinalises
<1> QED BY <1>1, <1>2, <1>3, DocumentsChange

\* What a call has read stays true enough while others commit.
LEMMA ReadStep ==
  ASSUME DocumentsInv, [Next]_vars, NEW t \in Sessions
  PROVE  Read(t)'
<1> USE DEF DocumentsInv
<1>1. CASE pc'[t] = pc[t] /\ work'[t] = work[t]
  <2>1. work[t].new \in Contents => work[t].new.key \in Keys
    BY DEF Contents
  <2> QED BY <1>1, <2>1, VersionsStay DEF Read
<1>2. ASSUME Step(t) PROVE Read(t)'
  <2>0. work[t] \in Works
    BY DEF DocumentsTypeOK, Works
  <2>1. ASSUME NEW k \in Keys, NEW p \in Payloads, NEW u \in Types, NEW deal \in Deals,
               StartCreate(t, k, p, u, deal)
        PROVE  Read(t)'
    <3>1. [NoWork EXCEPT !.new = [key |-> k, payload |-> p, type |-> u, deal |-> deal]].new \in Contents
      BY DEF NoWork, Contents
    <3> QED BY <2>1, <3>1 DEF StartCreate, Move, Read, DocumentsTypeOK
  <2>2. CASE ReadVersion(t)
    <3>1. work[t].new \in Contents /\ work[t].new.key \in Keys
      BY <2>2 DEF ReadVersion, Move, Read, Contents
    <3>2. \A k : VersionsOf(k)' = VersionsOf(k)
      BY <2>2 DEF ReadVersion, tables, VersionsOf
    <3> DEFINE w == [work[t] EXCEPT !.version = Max(VersionsOf(work[t].new.key) \cup {0})]
    <3>3. w.new = work[t].new /\ w.version = Max(VersionsOf(work[t].new.key) \cup {0})
      BY <2>0 DEF Works
    <3>4. pc'[t] = "creating" /\ work'[t] = w
      BY <2>2 DEF ReadVersion, Move, DocumentsTypeOK
    <3> HIDE DEF w
    <3> QED BY <3>1, <3>2, <3>3, <3>4, HighestVersion DEF Read
  <2>3. ASSUME NEW d \in documents, StartRender(t, d) PROVE Read(t)'
    <3>1. [NoWork EXCEPT !.id = IdOf(d), !.digest = renderings + 1].id = IdOf(d)
      BY NoWorkType DEF Works
    <3>2. pc'[t] = "writing" /\ work'[t].id = IdOf(d) /\ documents' = documents
      BY <2>3, <3>1 DEF StartRender, Move, DocumentsTypeOK, tables
    <3> QED BY <3>2 DEF Read
  <2>4. ASSUME NEW d \in documents, NEW deal \in Deals, StartBudget(t, d, deal) PROVE Read(t)'
    <3>1. /\ [NoWork EXCEPT !.id = IdOf(d), !.deal = deal].id = IdOf(d)
          /\ [NoWork EXCEPT !.id = IdOf(d), !.deal = deal].deal = deal
      BY NoWorkType DEF Works
    <3>2. /\ pc'[t] = "updating" /\ work'[t].id = IdOf(d) /\ work'[t].deal = deal
          /\ documents' = documents /\ MayUpdate(d)
      BY <2>4, <3>1 DEF StartBudget, Move, DocumentsTypeOK, tables
    <3> QED BY <3>2 DEF Read
  <2>5. CASE WritePdf(t)
    BY <2>5 DEF WritePdf, Move, Read, DocumentsTypeOK, tables
  <2>6. CASE ReadBack(t)
    <3>1. [work[t] EXCEPT !.digest = disk[work[t].id]].id = work[t].id
      BY <2>0 DEF Works
    <3>2. /\ pc[t] = "reading" /\ pc'[t] = "finalising" /\ work'[t].id = work[t].id
          /\ documents' = documents
      BY <2>6, <3>1 DEF ReadBack, Move, DocumentsTypeOK, tables
    <3> QED BY <3>2 DEF Read
  <2>7. CASE CommitCreate(t) \/ CommitRender(t) \/ CommitBudget(t) \/ Abort(t)
    BY <2>7 DEF CommitCreate, CommitRender, CommitBudget, Abort, Move, Read, DocumentsTypeOK
  <2> QED BY <1>2, <2>1, <2>2, <2>3, <2>4, <2>5, <2>6, <2>7 DEF Step
<1>3. ASSUME NEW s \in Sessions \ {t}, Step(s) PROVE pc'[t] = pc[t] /\ work'[t] = work[t]
  BY <1>3 DEF Step, StartCreate, ReadVersion, CommitCreate, StartRender, StartBudget, WritePdf,
              ReadBack, CommitRender, CommitBudget, Abort, Move, DocumentsTypeOK
<1> QED BY <1>1, <1>2, <1>3 DEF Next, vars

-----------------------------------------------------------------------------
(***************************************************************************)
(* Who renders what, and what the disk holds.                              *)
(***************************************************************************)
Writing == {"writing", "reading", "finalising"}

\* Who renders a document changes only by the call that moves.
LEMMA RenderingMoves ==
  ASSUME DocumentsTypeOK, NEW s \in Sessions, NEW from, NEW to, NEW w, Move(s, from, to, w), NEW j
  PROVE  /\ from \in Writing /\ work[s].id = j => s \in Rendering(j)
         /\ from \notin Writing \/ work[s].id # j => s \notin Rendering(j)
         /\ Rendering(j)' = IF to \in Writing /\ w.id = j THEN Rendering(j) \cup {s}
                            ELSE Rendering(j) \ {s}
<1>1. pc[s] = from /\ pc'[s] = to /\ work'[s] = w
  BY DEF Move, DocumentsTypeOK
<1>2. \A t \in Sessions \ {s} : pc'[t] = pc[t] /\ work'[t] = work[t]
  BY DEF Move, DocumentsTypeOK
<1> QED BY <1>1, <1>2 DEF Rendering, Writing

\* A rendering starts with the id of its document in hand.
LEMMA StartRenderMoves ==
  ASSUME NEW s \in Sessions, NEW d \in documents, StartRender(s, d)
  PROVE  \E w : w.id = IdOf(d) /\ Move(s, "idle", "writing", w)
<1> DEFINE w == [NoWork EXCEPT !.id = IdOf(d), !.digest = renderings + 1]
<1>1. w.id = IdOf(d)
  BY NoWorkType DEF Works
<1>2. Move(s, "idle", "writing", w)
  BY DEF StartRender
<1> HIDE DEF w
<1> QED BY <1>1, <1>2

\* Reading the file back puts what is on the disk at that time into the hash.
LEMMA ReadBackMoves ==
  ASSUME DocumentsTypeOK, NEW s \in Sessions, ReadBack(s)
  PROVE  \E w : /\ w.id = work[s].id /\ w.digest = disk[work[s].id]
                /\ Move(s, "reading", "finalising", w)
<1> DEFINE w == [work[s] EXCEPT !.digest = disk[work[s].id]]
<1>1. w.id = work[s].id /\ w.digest = disk[work[s].id]
  BY DEF DocumentsTypeOK
<1>2. Move(s, "reading", "finalising", w)
  BY DEF ReadBack
<1> HIDE DEF w
<1> QED BY <1>1, <1>2

\* Calls that neither begin nor end a rendering.
Elsewhere(s) ==
  \/ \E k \in Keys, p \in Payloads, t \in Types, deal \in Deals : StartCreate(s, k, p, t, deal)
  \/ ReadVersion(s) \/ CommitCreate(s) \/ CommitBudget(s)
  \/ \E d \in documents, deal \in Deals : StartBudget(s, d, deal)

\* Calls that do not render leave the files and who renders them alone.
LEMMA ElsewhereKeepsFiles ==
  ASSUME DocumentsTypeOK, NEW s \in Sessions, Elsewhere(s)
  PROVE  /\ UNCHANGED files
         /\ pc[s] \notin Writing /\ pc'[s] \notin Writing
         /\ \A j : Rendering(j)' = Rendering(j)
<1>1. UNCHANGED files
  BY DEF Elsewhere, StartCreate, ReadVersion, CommitCreate, CommitBudget, StartBudget
<1>2. PICK from, to, w : Move(s, from, to, w) /\ from \notin Writing /\ to \notin Writing
  <2>1. ASSUME NEW k \in Keys, NEW p \in Payloads, NEW t \in Types, NEW deal \in Deals,
               StartCreate(s, k, p, t, deal)
        PROVE  \E w : Move(s, "idle", "numbering", w)
    BY <2>1 DEF StartCreate
  <2>2. ReadVersion(s) => \E w : Move(s, "numbering", "creating", w)
    BY DEF ReadVersion
  <2>3. CommitCreate(s) => \E w : Move(s, "creating", "idle", w)
    BY DEF CommitCreate
  <2>4. CommitBudget(s) => \E w : Move(s, "updating", "idle", w)
    BY DEF CommitBudget
  <2>5. ASSUME NEW d \in documents, NEW deal \in Deals, StartBudget(s, d, deal)
        PROVE  \E w : Move(s, "idle", "updating", w)
    BY <2>5 DEF StartBudget
  <2>6. {"idle", "numbering", "creating", "updating"} \cap Writing = {}
    BY DEF Writing
  <2> QED BY <2>1, <2>2, <2>3, <2>4, <2>5, <2>6 DEF Elsewhere
<1>3. pc[s] \notin Writing /\ pc'[s] \notin Writing
  BY <1>2 DEF Move, DocumentsTypeOK
<1> QED BY <1>1, <1>2, <1>3, RenderingMoves

\* A step renders, is given up, or leaves all files alone.
LEMMA StepKinds ==
  ASSUME NEW s \in Sessions, Step(s)
  PROVE  \/ Elsewhere(s)
         \/ \E d \in documents : StartRender(s, d)
         \/ WritePdf(s) \/ ReadBack(s) \/ CommitRender(s) \/ Abort(s)
BY DEF Step, Elsewhere

\* An undisturbed rendering stays alone with its file.
LEMMA RendersAloneStep ==
  ASSUME DocumentsInv, [Next]_vars, NEW t \in Sessions
  PROVE  RendersAlone(t)'
<1> USE DEF DocumentsInv
<1> SUFFICES ASSUME NEW j, pc'[t] \in Writing, work'[t].id = j, j \notin disturbed'
             PROVE  Rendering(j)' = {t} /\ (pc'[t] # "writing" => disk'[j] = work'[t].digest)
  BY DEF RendersAlone, Rendering, Writing
<1>0. CASE UNCHANGED vars
  BY <1>0 DEF vars, RendersAlone, Rendering, Writing
<1>1. ASSUME NEW s \in Sessions \ {t}, Step(s)
      PROVE  Rendering(j)' = {t} /\ (pc'[t] # "writing" => disk'[j] = work'[t].digest)
  <2>1. pc'[t] = pc[t] /\ work'[t] = work[t]
    BY <1>1 DEF Step, StartCreate, ReadVersion, CommitCreate, StartRender, StartBudget, WritePdf,
                ReadBack, CommitRender, CommitBudget, Abort, Move, DocumentsTypeOK
  <2>2. disturbed \subseteq disturbed'
    BY <1>1, StepKinds, ElsewhereKeepsFiles
       DEF files, StartRender, WritePdf, ReadBack, CommitRender, Abort
  <2>3. Rendering(j) = {t} /\ (pc[t] # "writing" => disk[j] = work[t].digest)
    BY <2>1, <2>2 DEF RendersAlone, Writing
  <2>4. s \notin Rendering(j)
    BY <2>3
  <2>5. CASE Elsewhere(s)
    BY <2>1, <2>3, <2>5, ElsewhereKeepsFiles DEF files
  <2>6. ASSUME NEW d \in documents, StartRender(s, d)
        PROVE  Rendering(j)' = {t} /\ disk'[j] = disk[j]
    <3>1. IdOf(d) # j
      BY <2>2, <2>3, <2>6 DEF StartRender
    <3>2. PICK w : w.id = IdOf(d) /\ Move(s, "idle", "writing", w)
      BY <2>6, StartRenderMoves
    <3>3. Rendering(j)' = Rendering(j) \ {s}
      BY <3>1, <3>2, RenderingMoves
    <3>4. disk'[j] = disk[j]
      BY <2>6, <3>1 DEF StartRender, DocumentsTypeOK
    <3> QED BY <2>3, <2>4, <3>3, <3>4
  <2>7. ASSUME WritePdf(s) PROVE Rendering(j)' = {t} /\ disk'[j] = disk[j]
    <3>1. work[s].id # j
      BY <2>4, <2>7, RenderingMoves DEF WritePdf, Writing
    <3>2. Rendering(j)' = Rendering(j) \ {s}
      BY <2>7, <3>1, RenderingMoves DEF WritePdf
    <3>3. disk'[j] = disk[j]
      BY <2>7, <3>1 DEF WritePdf, DocumentsTypeOK
    <3> QED BY <2>3, <2>4, <3>2, <3>3
  <2>8. ASSUME ReadBack(s) PROVE Rendering(j)' = {t} /\ disk'[j] = disk[j]
    <3>1. work[s].id # j
      BY <2>4, <2>8, RenderingMoves DEF ReadBack, Writing
    <3>2. PICK w : w.id = work[s].id /\ Move(s, "reading", "finalising", w)
      BY <2>8, ReadBackMoves
    <3>3. Rendering(j)' = Rendering(j) \ {s}
      BY <3>1, <3>2, RenderingMoves
    <3> QED BY <2>3, <2>4, <2>8, <3>3 DEF ReadBack, files
  <2>9. ASSUME CommitRender(s) \/ Abort(s) PROVE Rendering(j)' = {t} /\ disk'[j] = disk[j]
    <3>1. Rendering(j)' = Rendering(j) \ {s}
      BY <2>9, RenderingMoves DEF CommitRender, Abort, Writing
    <3> QED BY <2>3, <2>4, <2>9, <3>1 DEF CommitRender, Abort, files
  <2> QED BY <1>1, <2>1, <2>3, <2>5, <2>6, <2>7, <2>8, <2>9, StepKinds
<1>2. ASSUME Step(t)
      PROVE  Rendering(j)' = {t} /\ (pc'[t] # "writing" => disk'[j] = work'[t].digest)
  <2>1. ~Elsewhere(t) /\ ~CommitRender(t) /\ ~Abort(t)
    <3>1. ~Elsewhere(t)
      BY ElsewhereKeepsFiles
    <3>2. CommitRender(t) \/ Abort(t) => pc'[t] = "idle"
      BY DEF CommitRender, Abort, Move, DocumentsTypeOK
    <3> QED BY <3>1, <3>2 DEF Writing
  <2>2. ASSUME NEW d \in documents, StartRender(t, d)
        PROVE  Rendering(j)' = {t} /\ pc'[t] = "writing"
    <3>1. PICK w : w.id = IdOf(d) /\ Move(t, "idle", "writing", w)
      BY <2>2, StartRenderMoves
    <3>2. pc'[t] = "writing" /\ j = IdOf(d)
      BY <3>1 DEF Move, DocumentsTypeOK
    <3>3. Rendering(j) = {}
      BY <2>2, <3>2 DEF StartRender
    <3>4. Rendering(j)' = {t}
      BY <3>1, <3>2, <3>3, RenderingMoves DEF Writing
    <3> QED BY <3>2, <3>4
  <2>3. CASE WritePdf(t)
    <3>1. /\ pc[t] = "writing" /\ pc'[t] = "reading" /\ work'[t] = work[t]
          /\ disturbed' = disturbed
      BY <2>3 DEF WritePdf, Move, DocumentsTypeOK
    <3>2. j \in Ids
      BY <3>1, IdType DEF Read, DocumentsTypeOK
    <3>3. disk'[j] = work'[t].digest
      BY <2>3, <3>1, <3>2 DEF WritePdf, DocumentsTypeOK
    <3>4. Rendering(j) = {t}
      BY <3>1 DEF RendersAlone
    <3>5. Rendering(j)' = {t}
      BY <2>3, <3>1, <3>4, RenderingMoves DEF WritePdf, Writing
    <3> QED BY <3>3, <3>5
  <2>4. CASE ReadBack(t)
    <3>1. PICK w : /\ w.id = work[t].id /\ w.digest = disk[work[t].id]
                   /\ Move(t, "reading", "finalising", w)
      BY <2>4, ReadBackMoves
    <3>2. /\ pc[t] = "reading" /\ pc'[t] = "finalising" /\ work[t].id = j
          /\ work'[t].digest = disk[j] /\ disk' = disk /\ disturbed' = disturbed
      BY <2>4, <3>1 DEF ReadBack, Move, DocumentsTypeOK, files
    <3>3. Rendering(j) = {t}
      BY <3>2 DEF RendersAlone
    <3>4. Rendering(j)' = {t}
      BY <3>1, <3>2, <3>3, RenderingMoves DEF Writing
    <3> QED BY <3>2, <3>4
  <2> QED BY <1>2, <2>1, <2>2, <2>3, <2>4, StepKinds
<1> QED BY <1>0, <1>1, <1>2 DEF Next

\* A final document keeps its file, or gets that of the rendering that commits.
LEMMA PdfStep == DocumentsInv /\ [Next]_vars => PdfIsTheFile'
<1> USE DEF DocumentsInv
<1> SUFFICES ASSUME DocumentsInv, [Next]_vars, NEW e \in documents', NEW j, j = IdOf(e),
                    e.status = "FINALIZED", Rendering(j)' = {}, j \notin disturbed'
             PROVE  disk'[j] = e.pdf
  BY DEF PdfIsTheFile, IdOf
<1>0. CASE UNCHANGED vars
  BY <1>0 DEF vars, PdfIsTheFile, Rendering
<1>1. ASSUME NEW s \in Sessions, Step(s) PROVE disk'[j] = e.pdf
  <2>1. ASSUME e \in documents, Rendering(j) = {}, disturbed \subseteq disturbed',
               disk'[j] = disk[j]
        PROVE  disk'[j] = e.pdf
    BY <2>1 DEF PdfIsTheFile
  <2>2. CASE Elsewhere(s)
    <3>1. e \in documents
      <4>1. CASE CommitCreate(s)
        BY <4>1, CreateAddsNext DEF IsNext
      <4>2. CASE ~CommitCreate(s)
        BY <2>2, <4>2
           DEF Elsewhere, StartCreate, ReadVersion, CommitBudget, StartBudget, tables
      <4> QED BY <4>1, <4>2
    <3> QED BY <2>1, <2>2, <3>1, ElsewhereKeepsFiles DEF files
  <2>3. ASSUME NEW d \in documents, StartRender(s, d) PROVE disk'[j] = e.pdf
    <3>1. PICK w : w.id = IdOf(d) /\ Move(s, "idle", "writing", w)
      BY <2>3, StartRenderMoves
    <3>2. IdOf(d) # j /\ Rendering(j) = {}
      BY <3>1, RenderingMoves DEF Writing
    <3> QED BY <2>1, <2>3, <3>2 DEF StartRender, DocumentsTypeOK, tables
  <2>4. CASE WritePdf(s)
    <3>1. work[s].id # j /\ Rendering(j) = {}
      BY <2>4, RenderingMoves DEF WritePdf, Writing
    <3> QED BY <2>1, <2>4, <3>1 DEF WritePdf, DocumentsTypeOK, tables
  <2>5. CASE ReadBack(s)
    <3>1. PICK w : w.id = work[s].id /\ Move(s, "reading", "finalising", w)
      BY <2>5, ReadBackMoves
    <3>2. Rendering(j) = {}
      BY <3>1, RenderingMoves DEF Writing
    <3> QED BY <2>1, <2>5, <3>2 DEF ReadBack, tables, files
  <2>6. CASE CommitRender(s)
    <3>0. work[s].digest \in Int /\ IsFinalised(work[s].id, work[s].digest)
      BY <2>6 DEF CommitRender, IsFinalised, DocumentsTypeOK
    <3>1. PICK d \in documents :
             /\ IdOf(d) = j
             /\ e = IF IdOf(d) = work[s].id THEN Finalised(d, work[s].digest) ELSE d
      BY <3>0, RenderFinalises
    <3>2. CASE j = work[s].id
      <4>1. e.pdf = work[s].digest
        <5>1. d \in Documented /\ e = Finalised(d, work[s].digest)
          BY <3>1, <3>2 DEF DocumentsTypeOK
        <5> QED BY <3>0, <5>1, FinalisedType
      <4>2. disk[j] = work[s].digest /\ disk' = disk /\ disturbed' = disturbed
        BY <2>6, <3>2 DEF CommitRender, Move, files, RendersAlone
      <4> QED BY <4>1, <4>2
    <3>3. CASE j # work[s].id
      <4>1. Rendering(j) = {}
        BY <2>6, <3>3, RenderingMoves DEF CommitRender, Writing
      <4> QED BY <2>1, <2>6, <3>1, <3>3, <4>1 DEF CommitRender, files
    <3> QED BY <3>2, <3>3
  <2>7. CASE Abort(s)
    <3>1. documents' = documents /\ disk' = disk /\ disturbed \subseteq disturbed'
      BY <2>7 DEF Abort, tables
    <3>2. pc[s] \in Writing => work[s].id # j
      BY <2>7 DEF Abort, Writing
    <3>3. Rendering(j) = {}
      BY <2>7, <3>2, RenderingMoves DEF Abort
    <3> QED BY <2>1, <3>1, <3>3
  <2> QED BY <1>1, <2>2, <2>3, <2>4, <2>5, <2>6, <2>7, StepKinds
<1> QED BY <1>0, <1>1 DEF Next

-----------------------------------------------------------------------------
\* Empty tables satisfy the invariant.
LEMMA InitEstablishesInv == Init => DocumentsInv
<1> SUFFICES ASSUME Init PROVE DocumentsInv
  OBVIOUS
<1>1. DocumentsTypeOK
  BY NoWorkType DEF Init, DocumentsTypeOK, Works
<1>2. IsUnique /\ TotalIsOfContent /\ PdfIsTheFile
  BY DEF Init, IsUnique, TotalIsOfContent, PdfIsTheFile
<1>3. HasNoGap
  BY DEF Init, HasNoGap, VersionsOf
<1>4. \A s \in Sessions : Read(s) /\ RendersAlone(s)
  BY DEF Init, Read, RendersAlone
<1> QED BY <1>1, <1>2, <1>3, <1>4 DEF DocumentsInv

\* Numbering, what calls have read and the files stay consistent, however calls that
\* create, render and update meet, and wherever they die.
THEOREM DocumentsInvariant == Spec => []DocumentsInv
<1>1. DocumentsInv /\ [Next]_vars => DocumentsInv'
  BY TypeStep, NumberingStep, ReadStep, RendersAloneStep, PdfStep DEF DocumentsInv
<1> QED BY <1>1, InitEstablishesInv, PTL DEF Spec

\* The variables of the documents stay within their types.
THEOREM DocumentsTypeCorrect == Spec => []DocumentsTypeOK
<1>1. DocumentsInv => DocumentsTypeOK
  BY DEF DocumentsInv
<1> QED BY <1>1, DocumentsInvariant, PTL

\* However many calls create versions of a key, no two documents have one key and
\* version, and none is left out below another.
THEOREM VersionsAreNumbered == Spec => [](IsUnique /\ HasNoGap)
<1>1. DocumentsInv => IsUnique /\ HasNoGap
  BY DEF DocumentsInv
<1> QED BY <1>1, DocumentsInvariant, PTL

\* The hash of a final document is that of its file while nobody renders it, unless
\* a rendering was cut short or met another one.
THEOREM PdfStaysTheFile == Spec => []PdfIsTheFile
<1>1. DocumentsInv => PdfIsTheFile
  BY DEF DocumentsInv
<1> QED BY <1>1, DocumentsInvariant, PTL

-----------------------------------------------------------------------------
(***************************************************************************)
(* The register the tables stand for.                                      *)
(***************************************************************************)
\* A function on 1..n+1 that extends one on 1..n is an Append.
LEMMA AppendFunction ==
  ASSUME NEW n \in Nat, NEW f, NEW g, NEW x,
         DOMAIN f = 1..n, f = [i \in 1..n |-> f[i]],
         DOMAIN g = 1..n+1, g = [i \in 1..n+1 |-> g[i]],
         \A i \in 1..n : g[i] = f[i], g[n + 1] = x
  PROVE  Append(f, x) = g
<1> DEFINE S == {f[i] : i \in 1..n} \cup {x}
<1>1. f \in Seq(S) /\ Len(f) = n
  BY IsASeq, LenProperties
<1>2. /\ Append(f, x) \in Seq(S) /\ Len(Append(f, x)) = n + 1
      /\ \A i \in 1..n : Append(f, x)[i] = f[i]
      /\ Append(f, x)[n + 1] = x
  BY <1>1, AppendProperties
<1>3. Append(f, x) = [i \in 1..n+1 |-> Append(f, x)[i]]
  BY <1>2, LenProperties
<1>4. \A i \in 1..n+1 : Append(f, x)[i] = g[i]
  <2>1. \A i \in 1..n+1 : i \in 1..n \/ i = n + 1
    OBVIOUS
  <2> QED BY <1>2, <2>1
<1>5. [i \in 1..n+1 |-> Append(f, x)[i]] = [i \in 1..n+1 |-> g[i]]
  BY <1>4
<1> QED BY <1>3, <1>5

\* A version made final keeps its content.
LEMMA FinalRecord ==
  ASSUME NEW c, NEW f
  PROVE  [[content |-> c, final |-> f] EXCEPT !.final = TRUE] = [content |-> c, final |-> TRUE]
<1>1. ASSUME NEW y PROVE [[content |-> c, final |-> f] EXCEPT !.final = y] = [content |-> c, final |-> y]
  OBVIOUS
<1> QED BY <1>1, Zenon

\* A key and a version name one document.
LEMMA VersionIs ==
  ASSUME IsUnique, NEW d \in documents
  PROVE  Version(d.key, d.version) = d
BY DEF Version, IsUnique, IdOf

\* A version of the register is a document of the table.
LEMMA VersionExists ==
  ASSUME NEW k, NEW v \in VersionsOf(k)
  PROVE  /\ Version(k, v) \in documents
         /\ Version(k, v).key = k /\ Version(k, v).version = v
BY DEF Version, VersionsOf

\* Adding the next document of a key adds a version at the end.
LEMMA AddIsAddVersion ==
  ASSUME DocumentsInv, IsUnique', NEW d, IsNext(d), documents' = documents \cup {d},
         UNCHANGED budget
  PROVE  Register!AddVersion(d.key, d.payload)
<1> DEFINE n == d.version - 1
           x == [content |-> d.payload, final |-> FALSE]
<1>1. d.key \in Keys /\ d.version \in 1..MaxVersions
  BY DEF IsNext, Documented
<1>2. n \in Nat /\ d.version = n + 1
  BY <1>1, DocumentsAssumption
<1>3. VersionsOf(d.key) = 1..n /\ VersionsOf(d.key)' = 1..n+1
  BY <1>2, AddedDocument DEF DocumentsInv, IsNext
<1>4. \A k \in Keys : \A v \in VersionsOf(k) : VersionSeen(k, v)' = VersionSeen(k, v)
  <2> SUFFICES ASSUME NEW k \in Keys, NEW v \in VersionsOf(k)
               PROVE  Version(k, v)' = Version(k, v)
    BY DEF VersionSeen
  <2> DEFINE e == Version(k, v)
  <2>1. e \in documents /\ e.key = k /\ e.version = v
    BY VersionExists
  <2> HIDE DEF e
  <2>2. (CHOOSE c \in documents' : c.key = k /\ c.version = v) = e
    BY <2>1 DEF IsUnique, IdOf
  <2> QED BY <2>2 DEF Version, e
<1>5. VersionSeen(d.key, n + 1)' = x
  <2>1. (CHOOSE c \in documents' : c.key = d.key /\ c.version = n + 1) = d
    BY <1>2 DEF IsUnique, IdOf
  <2>2. Version(d.key, n + 1)' = d
    BY <2>1 DEF Version
  <2> QED BY <2>2 DEF VersionSeen, IsNext
<1>6. VersionsSeen[d.key] = [v \in 1..n |-> VersionSeen(d.key, v)]
  BY <1>1, <1>3 DEF VersionsSeen
<1>7. VersionsSeen' = [k \in Keys |-> IF k = d.key THEN [v \in 1..n+1 |-> VersionSeen(d.key, v)']
                                     ELSE VersionsSeen[k]]
  <2>1. ASSUME NEW k \in Keys \ {d.key}
        PROVE  [v \in VersionsOf(k)' |-> VersionSeen(k, v)'] = VersionsSeen[k]
    BY <1>4, AddedDocument DEF DocumentsInv, VersionsSeen
  <2>2. VersionsSeen' = [k \in Keys |-> [v \in VersionsOf(k)' |-> VersionSeen(k, v)']]
    BY DEF VersionsSeen
  <2> QED BY <1>3, <2>1, <2>2
<1>8. Append(VersionsSeen[d.key], x) = [v \in 1..n+1 |-> VersionSeen(d.key, v)']
  BY <1>1, <1>2, <1>3, <1>4, <1>5, <1>6, AppendFunction
<1>9. BudgetSeen' = BudgetSeen
  BY DEF BudgetSeen, UpdateSeen
<1>10. VersionsSeen' = [VersionsSeen EXCEPT ![d.key] = Append(VersionsSeen[d.key], x)]
  BY <1>1, <1>7, <1>8 DEF VersionsSeen
<1> QED BY <1>9, <1>10 DEF Register!AddVersion, Register!Draft

\* Rendering a document makes its version final, or leaves it so.
LEMMA RenderIsFinalise ==
  ASSUME DocumentsInv, IsUnique', NEW d \in documents, NEW digest \in Int,
         IsFinalised(IdOf(d), digest), UNCHANGED budget
  PROVE  Register!Finalise(d.key, d.version)
<1> USE DEF DocumentsInv
<1>1. d \in Documented /\ d.key \in Keys /\ d.version \in VersionsOf(d.key)
  BY DEF DocumentsTypeOK, Documented, VersionsOf
<1>2. \A k \in Keys : VersionsOf(k)' = VersionsOf(k)
  BY RenderFinalises
<1>3. ASSUME NEW k \in Keys, NEW v \in VersionsOf(k)
      PROVE  VersionSeen(k, v)' = IF k = d.key /\ v = d.version
                                  THEN [VersionSeen(k, v) EXCEPT !.final = TRUE]
                                  ELSE VersionSeen(k, v)
  <2>1. PICK c \in documents : c = Version(k, v) /\ c.key = k /\ c.version = v
    BY VersionExists
  <2>2. PICK e \in documents' : /\ IdOf(e) = IdOf(c)
                                /\ e = IF IdOf(c) = IdOf(d) THEN Finalised(c, digest) ELSE c
    BY RenderFinalises
  <2>3. e.key = k /\ e.version = v
    BY <2>1, <2>2 DEF IdOf
  <2>4. (CHOOSE x \in documents' : x.key = k /\ x.version = v) = e
    BY <2>3 DEF IsUnique, IdOf
  <2>5. Version(k, v)' = e
    BY <2>4 DEF Version
  <2>6. VersionSeen(k, v)' = [content |-> e.payload, final |-> e.status = "FINALIZED"]
    BY <2>5 DEF VersionSeen
  <2>7. VersionSeen(k, v) = [content |-> c.payload, final |-> c.status = "FINALIZED"]
    BY <2>1 DEF VersionSeen
  <2>8. IdOf(c) = IdOf(d) <=> k = d.key /\ v = d.version
    BY <2>1 DEF IdOf
  <2>9. c \in Documented
    BY DEF DocumentsTypeOK
  <2>10. CASE IdOf(c) = IdOf(d)
    <3>1. e.payload = c.payload /\ e.status = "FINALIZED"
      BY <2>2, <2>9, <2>10, FinalisedType
    <3>2. VersionSeen(k, v)' = [content |-> c.payload, final |-> TRUE]
      BY <2>6, <3>1
    <3>3. [[content |-> c.payload, final |-> c.status = "FINALIZED"] EXCEPT !.final = TRUE] =
            [content |-> c.payload, final |-> TRUE]
      BY FinalRecord
    <3> QED BY <2>7, <2>8, <2>10, <3>2, <3>3
  <2>11. CASE IdOf(c) # IdOf(d)
    BY <2>2, <2>6, <2>7, <2>8, <2>11
  <2> QED BY <2>10, <2>11
<1>4. VersionsSeen' = [VersionsSeen EXCEPT ![d.key][d.version].final = TRUE]
  <2>1. VersionsSeen' = [k \in Keys |-> [v \in VersionsOf(k) |-> VersionSeen(k, v)']]
    BY <1>2 DEF VersionsSeen
  <2>2. ASSUME NEW k \in Keys \ {d.key}
        PROVE  [v \in VersionsOf(k) |-> VersionSeen(k, v)'] = VersionsSeen[k]
    BY <1>3 DEF VersionsSeen
  <2>3. [v \in VersionsOf(d.key) |-> VersionSeen(d.key, v)'] =
          [VersionsSeen[d.key] EXCEPT ![d.version] = [VersionSeen(d.key, d.version) EXCEPT !.final = TRUE]]
    BY <1>1, <1>3 DEF VersionsSeen
  <2>4. VersionsSeen[d.key][d.version] = VersionSeen(d.key, d.version)
    BY <1>1 DEF VersionsSeen
  <2>5. VersionsSeen' = [VersionsSeen EXCEPT ![d.key] = [VersionsSeen[d.key] EXCEPT
                           ![d.version] = [VersionsSeen[d.key][d.version] EXCEPT !.final = TRUE]]]
    <3> DEFINE f == [VersionsSeen[d.key] EXCEPT
                       ![d.version] = [VersionsSeen[d.key][d.version] EXCEPT !.final = TRUE]]
    <3>1. VersionsSeen' = [k \in Keys |-> IF k = d.key THEN f ELSE VersionsSeen[k]]
      BY <2>1, <2>2, <2>3, <2>4
    <3>2. VersionsSeen = [k \in Keys |-> VersionsSeen[k]]
      BY DEF VersionsSeen
    <3> HIDE DEF f
    <3>3. VersionsSeen' = [VersionsSeen EXCEPT ![d.key] = f]
      BY <3>1, <3>2
    <3> QED BY <3>3 DEF f
  <2> QED BY <2>5
<1>5. BudgetSeen' = BudgetSeen
  BY DEF BudgetSeen, UpdateSeen
<1>6. d.version \in DOMAIN VersionsSeen[d.key]
  BY <1>1 DEF VersionsSeen
<1> QED BY <1>4, <1>5, <1>6 DEF Register!Finalise

\* The budget holds a final version with the total of its content, once for a deal.
LEMMA UpdateIsUpdateBudget ==
  ASSUME DocumentsInv, NEW s \in Sessions, CommitBudget(s)
  PROVE  UNCHANGED <<documents, budget>> \/ Register!RegisterNext
<1> USE DEF DocumentsInv
<1>1. PICK d \in documents : IdOf(d) = work[s].id /\ MayUpdate(d) /\ work[s].deal \in Deals
  BY DEF CommitBudget, Move, Read
<1>2. d = (CHOOSE e \in documents : IdOf(e) = work[s].id)
  BY <1>1 DEF IsUnique
<1> DEFINE k == d.key
           v == d.version
           deal == work[s].deal
           b == [id |-> work[s].id, deal |-> deal, amount |-> d.total]
<1>3. /\ k \in Keys /\ v \in VersionsOf(k) /\ Version(k, v) = d
      /\ work[s].id[1] = k /\ work[s].id[2] = v /\ work[s].id = <<k, v>>
  BY <1>1, VersionIs DEF DocumentsTypeOK, Documented, VersionsOf, IdOf
<1>4. CASE \E u \in Range(budget) : Covers(u, work[s].id, deal)
  BY <1>4 DEF CommitBudget
<1>5. CASE ~\E u \in Range(budget) : Covers(u, work[s].id, deal)
  <2>1. budget' = Append(budget, b) /\ documents' = documents
    BY <1>2, <1>5 DEF CommitBudget
  <2>2. VersionsSeen' = VersionsSeen
    BY <2>1 DEF VersionsSeen, VersionSeen, VersionsOf, Version
  <2>3. VersionsSeen[k][v] = [content |-> d.payload, final |-> TRUE] /\ v \in DOMAIN VersionsSeen[k]
    BY <1>1, <1>3 DEF VersionsSeen, VersionSeen, MayUpdate
  <2>4. \A i \in DOMAIN BudgetSeen :
          <<BudgetSeen[i].key, BudgetSeen[i].version, BudgetSeen[i].deal>> # <<k, v, deal>>
    <3> SUFFICES ASSUME NEW i \in DOMAIN budget,
                        budget[i].id[1] = k, budget[i].id[2] = v, budget[i].deal = deal
                 PROVE  FALSE
      BY DEF BudgetSeen, UpdateSeen
    <3>1. budget[i].id \in Keys \X (1..MaxVersions)
      <4>1. budget \in Seq(Updates) /\ i \in 1..Len(budget)
        BY LenProperties DEF DocumentsTypeOK, Updates
      <4>2. budget[i] \in Updates
        BY <4>1, ElementOfSeq
      <4> QED BY <4>2 DEF Updates, Ids
    <3>2. budget[i].id = <<k, v>>
      BY <3>1
    <3> QED BY <1>3, <1>5, <3>2 DEF Covers, Range
  <2>5. BudgetSeen' = Append(BudgetSeen, [key |-> k, version |-> v, deal |-> deal,
                                          amount |-> Grand(d.payload)])
    <3> DEFINE n == Len(budget)
               x == [key |-> k, version |-> v, deal |-> deal, amount |-> Grand(d.payload)]
    <3>1. n \in Nat /\ DOMAIN budget = 1..n
      BY LenProperties DEF DocumentsTypeOK
    <3>2. b \in [id : Ids, deal : Deals, amount : Totals]
      BY <1>1, IdType DEF DocumentsTypeOK, Documented
    <3>3. /\ DOMAIN budget' = 1..n+1
          /\ \A i \in 1..n : budget'[i] = budget[i]
          /\ budget'[n + 1] = b
      <4>1. budget' \in Seq([id : Ids, deal : Deals, amount : Totals]) /\ Len(budget') = n + 1
        BY <2>1, <3>2, AppendProperties DEF DocumentsTypeOK
      <4> QED BY <2>1, <3>2, <4>1, AppendProperties, LenProperties DEF DocumentsTypeOK
    <3>4. UpdateSeen(b) = x
      BY <1>1, <1>3 DEF UpdateSeen, TotalIsOfContent
    <3> HIDE DEF n, x, b
    <3>5. DOMAIN BudgetSeen = 1..n /\ BudgetSeen = [i \in 1..n |-> BudgetSeen[i]]
      BY <3>1 DEF BudgetSeen
    <3>6. BudgetSeen' = [i \in 1..n+1 |-> UpdateSeen(budget'[i])]
      BY <3>3 DEF BudgetSeen, UpdateSeen
    <3>7. /\ DOMAIN BudgetSeen' = 1..n+1 /\ BudgetSeen' = [i \in 1..n+1 |-> BudgetSeen'[i]]
          /\ \A i \in 1..n : BudgetSeen'[i] = BudgetSeen[i]
          /\ BudgetSeen'[n + 1] = x
      BY <3>1, <3>3, <3>4, <3>6 DEF BudgetSeen
    <3>8. Append(BudgetSeen, x) = BudgetSeen'
      BY <3>1, <3>5, <3>7, AppendFunction
    <3> QED BY <3>8 DEF x
  <2>6. Register!UpdateBudget(k, v, deal)
    BY <2>2, <2>3, <2>4, <2>5 DEF Register!UpdateBudget
  <2> QED BY <1>1, <1>3, <2>3, <2>6 DEF Register!RegisterNext
<1> QED BY <1>4, <1>5

\* Every step of the documents is one of the register, or leaves it alone; what its
\* calls promise holds of any number of them at once.
THEOREM RegisterImplemented == Spec => ImplementsRegister
<1>1. Init => Register!RegisterInit
  <2> SUFFICES ASSUME Init PROVE Register!RegisterInit
    OBVIOUS
  <2>1. \A k \in Keys : VersionsOf(k) = {}
    BY DEF Init, VersionsOf
  <2>2. VersionsSeen = [k \in Keys |-> <<>>]
    BY <2>1 DEF VersionsSeen
  <2>3. BudgetSeen = <<>>
    BY DEF Init, BudgetSeen
  <2> QED BY <2>2, <2>3 DEF Register!RegisterInit
<1>2. DocumentsInv /\ DocumentsInv' /\ [Next]_vars => [Register!RegisterNext]_(Register!registerVars)
  <2> SUFFICES ASSUME DocumentsInv, DocumentsInv', [Next]_vars
               PROVE  Register!RegisterNext \/ UNCHANGED Register!registerVars
    OBVIOUS
  <2>0. UNCHANGED <<documents, budget>> => UNCHANGED Register!registerVars
    BY DEF Register!registerVars, VersionsSeen, VersionSeen, VersionsOf, Version, BudgetSeen, UpdateSeen
  <2>1. CASE UNCHANGED vars
    BY <2>0, <2>1 DEF vars
  <2>2. ASSUME NEW s \in Sessions, CommitCreate(s)
        PROVE  Register!RegisterNext \/ UNCHANGED Register!registerVars
    <3>1. ASSUME NEW d, IsNext(d), documents' = documents \cup {d} PROVE Register!RegisterNext
      <4>1. Register!AddVersion(d.key, d.payload)
        BY <2>2, <3>1, AddIsAddVersion DEF DocumentsInv, CommitCreate
      <4>2. d.key \in Keys /\ d.payload \in Payloads
        BY <3>1 DEF IsNext, Documented
      <4> QED BY <4>1, <4>2 DEF Register!RegisterNext
    <3> QED BY <2>0, <2>2, <3>1, CreateAddsNext DEF CommitCreate
  <2>3. ASSUME NEW s \in Sessions, CommitRender(s) PROVE Register!RegisterNext
    <3>1. PICK d \in documents : IdOf(d) = work[s].id
      BY <2>3 DEF DocumentsInv, CommitRender, Move, Read
    <3>2. work[s].digest \in Int /\ IsFinalised(work[s].id, work[s].digest) /\ UNCHANGED budget
      BY <2>3 DEF CommitRender, IsFinalised, DocumentsInv, DocumentsTypeOK
    <3>3. Register!Finalise(d.key, d.version)
      BY <3>1, <3>2, RenderIsFinalise DEF DocumentsInv
    <3>4. d.key \in Keys /\ d.version \in DOMAIN VersionsSeen[d.key]
      BY DEF DocumentsInv, DocumentsTypeOK, Documented, VersionsSeen, VersionsOf
    <3> QED BY <3>3, <3>4 DEF Register!RegisterNext
  <2>4. ASSUME NEW s \in Sessions, Step(s), ~CommitCreate(s), ~CommitRender(s), ~CommitBudget(s)
        PROVE  UNCHANGED <<documents, budget>>
    BY <2>4 DEF Step, StartCreate, ReadVersion, StartRender, StartBudget, WritePdf, ReadBack,
                Abort, tables
  <2> QED BY <2>0, <2>1, <2>2, <2>3, <2>4, UpdateIsUpdateBudget DEF Next
<1> QED
  BY <1>1, <1>2, DocumentsInvariant, PTL DEF Spec, ImplementsRegister, Register!RegisterSpec
=============================================================================
