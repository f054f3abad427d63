------------------------ MODULE PersistedReviewProofs ------------------------
(***************************************************************************)
(* Theorems about PersistedReview, for any number of offers and commands:  *)
(* first the invariants that hold however requests interleave, then those  *)
(* of offers on which they never overlapped: what a request has loaded of  *)
(* such an offer is still true when it commits.                            *)
(***************************************************************************)
EXTENDS PersistedOverlap, NaturalLemmas, SequenceTheorems

\* What LatestIndex returns: 0 when no decision is on the offer, and otherwise
\* the last place of one that is.
LEMMA LatestIndexProperty ==
  ASSUME NEW ds \in Seq(Decisions), NEW o
  PROVE  \/ /\ LatestIndex(ds, o) = 0
            /\ \A i \in DOMAIN ds : OfferOf(ds[i]) # o
         \/ /\ LatestIndex(ds, o) \in DOMAIN ds
            /\ LatestIndex(ds, o) # 0
            /\ OfferOf(ds[LatestIndex(ds, o)]) = o
            /\ \A j \in DOMAIN ds : OfferOf(ds[j]) = o => j <= LatestIndex(ds, o)
<1> DEFINE places == {i \in DOMAIN ds : OfferOf(ds[i]) = o}
<1>1. CASE places = {}
  BY <1>1 DEF LatestIndex
<1>2. CASE places # {}
  <2>1. Len(ds) \in Nat /\ DOMAIN ds = 1..Len(ds) /\ places \in SUBSET (1..Len(ds))
    BY LenProperties
  <2>2. \E m \in places : \A k \in places : k <= m
    <3> HIDE DEF places
    <3> QED BY <1>2, <2>1, GreatestExists
  <2>3. LatestIndex(ds, o) = CHOOSE i \in places : \A j \in places : j <= i
    BY <1>2 DEF LatestIndex
  <2>4. /\ LatestIndex(ds, o) \in places
        /\ \A k \in places : k <= LatestIndex(ds, o)
    BY <2>2, <2>3
  <2>5. LatestIndex(ds, o) # 0
    BY <2>1, <2>4
  <2> QED BY <2>4, <2>5
<1> QED BY <1>1, <1>2

\* Whether an offer has a decision, without its place.
LEMMA NoLatest ==
  ASSUME NEW ds \in Seq(Decisions), NEW o
  PROVE  LatestIndex(ds, o) = 0 <=> \A i \in DOMAIN ds : OfferOf(ds[i]) # o
BY LatestIndexProperty

-----------------------------------------------------------------------------
(***************************************************************************)
(* Decisions are only added, and an applied one stays applied.             *)
(***************************************************************************)
Extends(longer, ds) ==
  \A i \in DOMAIN ds :
    /\ i \in DOMAIN longer
    /\ longer[i].key = ds[i].key
    /\ longer[i].previous = ds[i].previous
    /\ IsApplied(ds[i]) => IsApplied(longer[i])

\* A value that was decided stays decided when decisions are added.
LEMMA DecidedStays ==
  ASSUME NEW ds, NEW longer, Extends(longer, ds), NEW o, NEW fp, NEW f, NEW c,
         DecidedIn(ds, o, fp, f, c)
  PROVE  DecidedIn(longer, o, fp, f, c)
BY DEF DecidedIn, Extends, OfferOf, IsConfirmed

\* So does a row whose values all were.
LEMMA RowStaysDecided ==
  ASSUME NEW ds, NEW longer, Extends(longer, ds), NEW o, NEW fp, NEW row,
         RowDecided(ds, o, fp, row)
  PROVE  RowDecided(longer, o, fp, row)
BY DecidedStays DEF RowDecided

\* What appending a decision does to the table.
LEMMA AppendedDecision ==
  ASSUME NEW ds \in Seq(Decisions), NEW d \in Decisions
  PROVE  /\ Append(ds, d) \in Seq(Decisions)
         /\ DOMAIN Append(ds, d) = DOMAIN ds \cup {Len(ds) + 1}
         /\ Len(ds) + 1 \notin DOMAIN ds
         /\ \A i \in DOMAIN ds : Append(ds, d)[i] = ds[i] /\ i < Len(ds) + 1
         /\ Append(ds, d)[Len(ds) + 1] = d
<1>1. Len(ds) \in Nat /\ DOMAIN ds = 1..Len(ds)
  BY LenProperties
<1>2. /\ Append(ds, d) \in Seq(Decisions)
      /\ Len(Append(ds, d)) = Len(ds) + 1
      /\ \A i \in 1..Len(ds) : Append(ds, d)[i] = ds[i]
      /\ Append(ds, d)[Len(ds) + 1] = d
  BY AppendProperties
<1>3. DOMAIN Append(ds, d) = 1..(Len(ds) + 1)
  BY <1>2, LenProperties
<1> QED BY <1>1, <1>2, <1>3

\* What marking decision i applied does to the table.
LEMMA AppliedDecision ==
  ASSUME NEW ds \in Seq(Decisions), NEW i \in DOMAIN ds, NEW by \in Operators
  PROVE  LET applied == [ds EXCEPT ![i].appliedBy = by]
         IN  /\ applied \in Seq(Decisions)
             /\ DOMAIN applied = DOMAIN ds
             /\ \A j \in DOMAIN ds : /\ applied[j].key = ds[j].key
                                     /\ applied[j].previous = ds[j].previous
                                     /\ j # i => applied[j] = ds[j]
             /\ IsApplied(applied[i])
<1> DEFINE applied == [ds EXCEPT ![i].appliedBy = by]
<1>1. Len(ds) \in Nat /\ DOMAIN ds = 1..Len(ds)
  BY LenProperties
<1>2. \A j \in DOMAIN ds : ds[j] \in Decisions
  BY ElementOfSeq
<1>3. DOMAIN applied = DOMAIN ds
  OBVIOUS
<1>4. applied[i] = [ds[i] EXCEPT !.appliedBy = by] /\ \A j \in DOMAIN ds : j # i => applied[j] = ds[j]
  OBVIOUS
<1> HIDE DEF applied
<1>5. /\ applied[i] \in Decisions
      /\ applied[i].key = ds[i].key
      /\ applied[i].previous = ds[i].previous
      /\ applied[i].appliedBy = by
  BY <1>2, <1>4 DEF Decisions
<1>6. \A j \in DOMAIN ds : applied[j] \in Decisions
  BY <1>2, <1>4, <1>5
<1>7. applied \in [1..Len(ds) -> Decisions]
  <2>1. applied = [j \in 1..Len(ds) |-> applied[j]]
    BY <1>1, <1>3 DEF applied
  <2> QED BY <1>1, <1>6, <2>1
<1>8. applied \in Seq(Decisions)
  BY <1>1, <1>7, SeqDef
<1>9. IsApplied(applied[i])
  BY <1>5, NoneIsNothing DEF IsApplied
<1> QED BY <1>3, <1>4, <1>5, <1>8, <1>9 DEF applied

-----------------------------------------------------------------------------
(***************************************************************************)
(* What a request has loaded stays usable while others commit.             *)
(***************************************************************************)
Growth ==
  /\ \A o \in Offers : review[o] # None =>
       /\ review'[o] # None
       /\ review'[o].fp = review[o].fp
       /\ review[o].status # "OPEN" => review'[o].status # "OPEN"
  /\ \A o \in Offers : offer'[o].columns.requiresReview => offer[o].columns.requiresReview
  /\ Extends(decisions', decisions)

\* What a request has loaded still holds after another request commits.
LEMMA StaysLoaded ==
  ASSUME Growth, NEW s \in Sessions, Loaded(s), pc'[s] = pc[s], req'[s] = req[s]
  PROVE  Loaded(s)'
<1>1. CASE pc[s] = "idle"
  BY <1>1 DEF Loaded, Recording, Applying, RowRead, DecisionRead
<1>2. CASE pc[s] # "idle"
  <2> DEFINE r == req[s]
  <2>1. r \in Requests /\ r.offer \in Offers /\ ItemLoaded(r)
    BY <1>2 DEF Loaded, Requests
  <2>2. ItemLoaded(r)'
    BY <2>1 DEF ItemLoaded, Growth
  <2>3. CommandLoaded(r) => CommandLoaded(r)'
    BY <2>1 DEF CommandLoaded, Growth, Extends, OfferOf
  <2>4. RowLoaded(r) => RowLoaded(r)'
    <3>1. RowDecided(decisions, r.offer, r.review.fp, r.row)
            => RowDecided(decisions', r.offer, r.review.fp, r.row)
      BY RowStaysDecided DEF Growth
    <3> QED BY <2>1, <3>1 DEF RowLoaded, Growth
  <2>5. DecisionLoaded(r) => DecisionLoaded(r)'
    BY <2>1 DEF DecisionLoaded, Growth, Extends, OfferOf, IsConfirmed
  <2> QED BY <2>1, <2>2, <2>3, <2>4, <2>5 DEF Loaded
<1> QED BY <1>1, <1>2

\* A step that leaves the tables alone takes nothing out of them.
LEMMA UnchangedGrows ==
  ASSUME UNCHANGED tables
  PROVE  Growth
BY DEF tables, Growth, Extends

\* A step of request s that leaves the tables alone.
LEMMA ReadingStep ==
  ASSUME ReviewInv, UNCHANGED tables, NEW s \in Sessions,
         NEW place \in Places, pc' = [pc EXCEPT ![s] = place],
         NEW r \in Requests \cup {None}, req' = [req EXCEPT ![s] = r],
         Loaded(s)'
  PROVE  ReviewInv'
<1>1. pc \in [Sessions -> Places] /\ req \in [Sessions -> Requests \cup {None}]
  BY DEF ReviewInv, TypeOK
<1>2. TypeOK'
  BY <1>1 DEF ReviewInv, TypeOK, tables
<1>3. AuditTrail' /\ StatusFollowsDecisions' /\ FieldsAreDecided' /\ DecisionsAreSound'
  BY DEF ReviewInv, tables, AuditTrail, StatusFollowsDecisions, FieldsAreDecided, DecisionsAreSound
<1>4. ASSUME NEW t \in Sessions PROVE Loaded(t)'
  <2>1. CASE t = s
    BY <2>1
  <2>2. CASE t # s
    <3>1. pc'[t] = pc[t] /\ req'[t] = req[t]
      BY <1>1, <2>2
    <3>2. Loaded(t)
      BY DEF ReviewInv
    <3> QED BY <3>1, <3>2, UnchangedGrows, StaysLoaded
  <2> QED BY <2>1, <2>2
<1> QED BY <1>2, <1>3, <1>4 DEF ReviewInv

\* A request that ends without writing.
LEMMA EndingStep ==
  ASSUME ReviewInv, UNCHANGED tables, NEW s \in Sessions, End(s)
  PROVE  ReviewInv'
<1>1. pc' = [pc EXCEPT ![s] = "idle"] /\ req' = [req EXCEPT ![s] = None]
  BY DEF End, GoTo
<1>2. pc'[s] = "idle"
  BY <1>1 DEF ReviewInv, TypeOK
<1>3. Loaded(s)'
  BY <1>2 DEF Loaded, Recording, Applying, RowRead, DecisionRead
<1>4. "idle" \in Places
  BY DEF Places
<1> QED BY <1>1, <1>3, <1>4, ReadingStep

-----------------------------------------------------------------------------
(***************************************************************************)
(* The steps that read.                                                    *)
(***************************************************************************)
LEMMA RequestTyped ==
  ASSUME NEW o \in Offers, NEW i \in Reviews
  PROVE  /\ NoRequest(o, i) \in Requests
         /\ ImportedRow \in Rows
<1>1. KeyFields \subseteq ReviewChangeFields
  BY DEF KeyFields, ReviewChangeFields
<1>2. NothingSet \in Fields
  BY DEF NothingSet, Fields, Values
<1>3. [requiresReview |-> TRUE, fields |-> NothingSet] \in Contents
  BY <1>2 DEF Contents
<1>4. [f \in KeyFields |-> None] \in [KeyFields -> Values]
  BY DEF Values
<1>5. ImportedRow \in Rows
  BY <1>3, <1>4 DEF ImportedRow, Rows
<1>6. None \in Values /\ None \in Operators \cup {None} /\ 0 \in Nat
  BY DEF Values
<1>7. NoRequest(o, i) \in Requests
  <2> HIDE DEF ImportedRow
  <2> QED BY <1>5, <1>6 DEF NoRequest, Requests
<1> QED BY <1>5, <1>7

\* StartRecord loads the item and keeps the invariant.
LEMMA StartRecordStep ==
  ASSUME ReviewInv, NEW s \in Sessions, NEW c \in Commands, StartRecord(s, c)
  PROVE  ReviewInv'
<1>0. PICK r : r = [NoRequest(c.offer, review[c.offer]) EXCEPT !.command = c]
  OBVIOUS
<1>1. c.offer \in Offers /\ review[c.offer] \in Reviews
  BY OffersOfCommands DEF StartRecord, ReviewInv, TypeOK
<1>2. /\ r \in Requests
      /\ r.offer = c.offer /\ r.command = c /\ r.latest = 0
      /\ r.review = review[c.offer]
  <2>1. NoRequest(c.offer, review[c.offer]) \in Requests
    BY <1>1, RequestTyped
  <2>2. c \in Values
    BY DEF Values
  <2>3. r \in Requests
    BY <1>0, <2>1, <2>2 DEF Requests
  <2>4. r.offer = c.offer /\ r.command = c /\ r.latest = 0 /\ r.review = review[c.offer]
    BY <1>0 DEF NoRequest
  <2> QED BY <2>3, <2>4
<1>3. pc' = [pc EXCEPT ![s] = "deciding"] /\ UNCHANGED tables
  BY DEF StartRecord, GoTo
<1>4. req' = [req EXCEPT ![s] = r]
  BY <1>0 DEF StartRecord
<1>5. pc'[s] = "deciding" /\ req'[s] = r
  BY <1>3, <1>4 DEF ReviewInv, TypeOK
<1>6. ItemLoaded(r)' /\ CommandLoaded(r)'
  BY <1>1, <1>2, <1>3 DEF tables, ItemLoaded, CommandLoaded, StartRecord
<1>7. Loaded(s)'
  BY <1>2, <1>5, <1>6 DEF Loaded, Recording, Applying, RowRead, DecisionRead
<1>8. "deciding" \in Places
  BY DEF Places
<1> QED BY <1>2, <1>3, <1>4, <1>7, <1>8, ReadingStep

\* ReadLatest finds the predecessor and keeps the invariant.
LEMMA ReadLatestStep ==
  ASSUME ReviewInv, NEW s \in Sessions, ReadLatest(s)
  PROVE  ReviewInv'
<1>0. PICK r : r = [req[s] EXCEPT !.latest = LatestIndex(decisions, req[s].offer)]
  OBVIOUS
<1>1. req[s] \in Requests /\ ItemLoaded(req[s]) /\ CommandLoaded(req[s])
  BY DEF ReadLatest, ReviewInv, Loaded, Recording
<1>2. \/ LatestIndex(decisions, req[s].offer) = 0
      \/ /\ LatestIndex(decisions, req[s].offer) \in DOMAIN decisions
         /\ OfferOf(decisions[LatestIndex(decisions, req[s].offer)]) = req[s].offer
  BY LatestIndexProperty DEF ReviewInv, TypeOK
<1>3. LatestIndex(decisions, req[s].offer) \in Nat
  BY <1>2, LenProperties DEF ReviewInv, TypeOK
<1>4. /\ r \in Requests
      /\ r.offer = req[s].offer /\ r.command = req[s].command /\ r.review = req[s].review
      /\ r.latest = LatestIndex(decisions, req[s].offer)
  BY <1>0, <1>1, <1>3 DEF Requests
<1>5. pc' = [pc EXCEPT ![s] = "latest read"] /\ UNCHANGED tables
  BY DEF ReadLatest, GoTo
<1>6. req' = [req EXCEPT ![s] = r]
  BY <1>0 DEF ReadLatest
<1>7. pc'[s] = "latest read" /\ req'[s] = r
  BY <1>5, <1>6 DEF ReviewInv, TypeOK
<1>8. ItemLoaded(r)' /\ CommandLoaded(r)'
  BY <1>1, <1>2, <1>4, <1>5 DEF tables, ItemLoaded, CommandLoaded
<1>9. Loaded(s)'
  BY <1>4, <1>7, <1>8 DEF Loaded, Recording, Applying, RowRead, DecisionRead
<1>10. "latest read" \in Places
  BY DEF Places
<1> QED BY <1>4, <1>5, <1>6, <1>9, <1>10, ReadingStep

\* FindExisting looks for the same decision and keeps the invariant.
LEMMA FindExistingStep ==
  ASSUME ReviewInv, NEW s \in Sessions, FindExisting(s)
  PROVE  ReviewInv'
<1>1. UNCHANGED tables
  BY DEF FindExisting
<1>2. CASE End(s)
  BY <1>1, <1>2, EndingStep
<1>3. CASE GoTo(s, "recording") /\ UNCHANGED req
  <2>1. req[s] \in Requests /\ ItemLoaded(req[s]) /\ CommandLoaded(req[s])
    BY DEF FindExisting, ReviewInv, Loaded, Recording
  <2>2. pc' = [pc EXCEPT ![s] = "recording"] /\ req' = [req EXCEPT ![s] = req[s]]
    BY <1>3 DEF GoTo, ReviewInv, TypeOK
  <2>3. pc'[s] = "recording" /\ req'[s] = req[s]
    BY <1>3, <2>2 DEF ReviewInv, TypeOK
  <2>4. ItemLoaded(req[s])' /\ CommandLoaded(req[s])'
    BY <1>1, <1>3, <2>1 DEF tables, ItemLoaded, CommandLoaded
  <2>5. Loaded(s)'
    BY <2>1, <2>3, <2>4, <1>3 DEF Loaded, Recording, Applying, RowRead, DecisionRead
  <2>6. "recording" \in Places
    BY DEF Places
  <2> QED BY <1>1, <2>1, <2>2, <2>5, <2>6, ReadingStep
<1> QED BY <1>2, <1>3 DEF FindExisting

\* StartApply loads the item and keeps the invariant.
LEMMA StartApplyStep ==
  ASSUME ReviewInv, NEW s \in Sessions, NEW o \in Offers, NEW by \in Operators,
         StartApply(s, o, by)
  PROVE  ReviewInv'
<1>0. PICK r : r = [NoRequest(o, review[o]) EXCEPT !.by = by]
  OBVIOUS
<1>1. review[o] \in Reviews
  BY DEF StartApply, ReviewInv, TypeOK
<1>2. r \in Requests /\ r.offer = o /\ r.by = by /\ r.review = review[o]
  <2>1. NoRequest(o, review[o]) \in Requests
    BY <1>1, RequestTyped
  <2>2. r \in Requests
    BY <1>0, <2>1 DEF Requests
  <2> QED BY <1>0, <2>2 DEF NoRequest
<1>3. pc' = [pc EXCEPT ![s] = "applying"] /\ UNCHANGED tables
  BY DEF StartApply, GoTo
<1>4. req' = [req EXCEPT ![s] = r]
  BY <1>0 DEF StartApply
<1>5. pc'[s] = "applying" /\ req'[s] = r
  BY <1>3, <1>4 DEF ReviewInv, TypeOK
<1>6. ItemLoaded(r)'
  BY <1>2, <1>3 DEF tables, ItemLoaded, StartApply
<1>7. Loaded(s)'
  BY <1>2, <1>5, <1>6 DEF Loaded, Recording, Applying, RowRead, DecisionRead
<1>8. "applying" \in Places
  BY DEF Places
<1> QED BY <1>2, <1>3, <1>4, <1>7, <1>8, ReadingStep

\* ReadOffer loads the row and keeps the invariant.
LEMMA ReadOfferStep ==
  ASSUME ReviewInv, NEW s \in Sessions, ReadOffer(s)
  PROVE  ReviewInv'
<1>0. PICK r : r = [req[s] EXCEPT !.row = offer[req[s].offer]]
  OBVIOUS
<1>1. /\ req[s] \in Requests /\ req[s].offer \in Offers
      /\ ItemLoaded(req[s]) /\ req[s].by \in Operators
  BY DEF ReadOffer, ReviewInv, Loaded, Applying, Requests
<1>2. offer[req[s].offer] \in Rows
  BY <1>1 DEF ReviewInv, TypeOK
<1>3. /\ r \in Requests
      /\ r.offer = req[s].offer /\ r.by = req[s].by /\ r.review = req[s].review
      /\ r.row = offer[req[s].offer]
  BY <1>0, <1>1, <1>2 DEF Requests
<1>4. pc' = [pc EXCEPT ![s] = "offer read"] /\ UNCHANGED tables
  BY DEF ReadOffer, GoTo
<1>5. req' = [req EXCEPT ![s] = r]
  BY <1>0 DEF ReadOffer
<1>6. pc'[s] = "offer read" /\ req'[s] = r
  BY <1>4, <1>5 DEF ReviewInv, TypeOK
<1>7. ItemLoaded(r)'
  BY <1>1, <1>3, <1>4 DEF tables, ItemLoaded
<1>8. RowLoaded(r)
  <2>1. RowDecided(decisions, r.offer, review[r.offer].fp, offer[r.offer])
    BY <1>1, <1>3 DEF ReviewInv, FieldsAreDecided
  <2>2. RowDecided(decisions, r.offer, r.review.fp, r.row)
    BY <1>1, <1>3, <2>1 DEF ItemLoaded
  <2> QED BY <1>3, <2>2 DEF RowLoaded
<1>9. RowLoaded(r)'
  BY <1>4, <1>8 DEF tables, RowLoaded
<1>10. Loaded(s)'
  BY <1>1, <1>3, <1>6, <1>7, <1>9 DEF Loaded, Recording, Applying, RowRead, DecisionRead
<1>11. "offer read" \in Places
  BY DEF Places
<1> QED BY <1>3, <1>4, <1>5, <1>10, <1>11, ReadingStep

\* ReadDecision loads the newest decision and keeps the invariant.
LEMMA ReadDecisionStep ==
  ASSUME ReviewInv, NEW s \in Sessions, ReadDecision(s)
  PROVE  ReviewInv'
<1>0. PICK i : i = LatestIndex(decisions, req[s].offer)
  OBVIOUS
<1>1. UNCHANGED tables
  BY DEF ReadDecision
<1>2. CASE End(s)
  BY <1>1, <1>2, EndingStep
<1>3. CASE Applicable(i, req[s]) /\ GoTo(s, "decision read") /\ req' = [req EXCEPT ![s].latest = i]
  <2>0. PICK r : r = [req[s] EXCEPT !.latest = i]
    OBVIOUS
  <2>1. /\ req[s] \in Requests /\ req[s].by \in Operators
        /\ ItemLoaded(req[s]) /\ RowLoaded(req[s])
    BY DEF ReadDecision, ReviewInv, Loaded, Applying, RowRead
  <2>2. i \in DOMAIN decisions /\ OfferOf(decisions[i]) = req[s].offer
    BY <1>0, <1>3, LatestIndexProperty DEF ReviewInv, TypeOK, Applicable
  <2>3. i \in Nat
    BY <2>2, LenProperties DEF ReviewInv, TypeOK
  <2>4. IsConfirmed(decisions[i]) /\ decisions[i].key.fp = req[s].review.fp
    BY <1>3 DEF Applicable
  <2>5. req' = [req EXCEPT ![s] = r]
    BY <1>3, <2>0
  <2>6. /\ r \in Requests
        /\ r.offer = req[s].offer /\ r.by = req[s].by /\ r.review = req[s].review
        /\ r.row = req[s].row /\ r.latest = i
    BY <2>0, <2>1, <2>3 DEF Requests
  <2>7. pc' = [pc EXCEPT ![s] = "decision read"]
    BY <1>3 DEF GoTo
  <2>8. pc'[s] = "decision read" /\ req'[s] = r
    BY <2>5, <2>7 DEF ReviewInv, TypeOK
  <2>9. ItemLoaded(r)' /\ RowLoaded(r)' /\ DecisionLoaded(r)'
    BY <1>1, <2>1, <2>2, <2>4, <2>6 DEF tables, ItemLoaded, RowLoaded, DecisionLoaded
  <2>10. Loaded(s)'
    BY <2>1, <2>6, <2>8, <2>9 DEF Loaded, Recording, Applying, RowRead, DecisionRead
  <2>11. "decision read" \in Places
    BY DEF Places
  <2> QED BY <1>1, <2>5, <2>6, <2>7, <2>10, <2>11, ReadingStep
<1> QED BY <1>0, <1>2, <1>3 DEF ReadDecision

\* FindEvent looks for an earlier application and keeps the invariant.
LEMMA FindEventStep ==
  ASSUME ReviewInv, NEW s \in Sessions, FindEvent(s)
  PROVE  ReviewInv'
<1>1. PICK place \in {"event found", "event missing"} : pc' = [pc EXCEPT ![s] = place]
  BY DEF FindEvent, GoTo
<1>2. UNCHANGED tables /\ req' = req
  BY DEF FindEvent
<1>3. /\ req[s] \in Requests /\ req[s].by \in Operators
      /\ ItemLoaded(req[s]) /\ RowLoaded(req[s]) /\ DecisionLoaded(req[s])
  BY DEF FindEvent, ReviewInv, Loaded, Applying, RowRead, DecisionRead
<1>4. req' = [req EXCEPT ![s] = req[s]]
  BY <1>2 DEF ReviewInv, TypeOK
<1>5. pc'[s] = place
  BY <1>1 DEF ReviewInv, TypeOK
<1>6. ItemLoaded(req[s])' /\ RowLoaded(req[s])' /\ DecisionLoaded(req[s])'
  BY <1>2, <1>3 DEF tables, ItemLoaded, RowLoaded, DecisionLoaded
<1>7. Loaded(s)'
  BY <1>2, <1>3, <1>5, <1>6 DEF Loaded, Recording, Applying, RowRead, DecisionRead
<1>8. place \in Places
  BY DEF Places
<1> QED BY <1>1, <1>2, <1>3, <1>4, <1>7, <1>8, ReadingStep

-----------------------------------------------------------------------------
(***************************************************************************)
(* The steps that commit.                                                  *)
(***************************************************************************)
\* The decisions on o that were applied.
AppliedOn(ds, o) == {i \in DOMAIN ds : OfferOf(ds[i]) = o /\ IsApplied(ds[i])}

\* A step of s that ends it, keeps the tables sound and only lets them grow.
LEMMA CommittingStep ==
  ASSUME ReviewInv, Growth, NEW s \in Sessions, End(s),
         review' \in [Offers -> Reviews \cup {None}],
         offer' \in [Offers -> Rows],
         decisions' \in Seq(Decisions),
         audit' \subseteq Events,
         AuditTrail', StatusFollowsDecisions', FieldsAreDecided', DecisionsAreSound'
  PROVE  ReviewInv'
<1>1. pc' = [pc EXCEPT ![s] = "idle"] /\ req' = [req EXCEPT ![s] = None]
  BY DEF End, GoTo
<1>2. pc \in [Sessions -> Places] /\ req \in [Sessions -> Requests \cup {None}]
  BY DEF ReviewInv, TypeOK
<1>3. "idle" \in Places
  BY DEF Places
<1>4. TypeOK'
  BY <1>1, <1>2, <1>3 DEF TypeOK
<1>5. ASSUME NEW t \in Sessions PROVE Loaded(t)'
  <2>1. CASE t = s
    <3>1. pc'[t] = "idle"
      BY <1>1, <1>2, <2>1
    <3> QED BY <3>1 DEF Loaded, Recording, Applying, RowRead, DecisionRead
  <2>2. CASE t # s
    <3>1. pc'[t] = pc[t] /\ req'[t] = req[t] /\ Loaded(t)
      BY <1>1, <1>2, <2>2 DEF ReviewInv
    <3> QED BY <3>1, StaysLoaded
  <2> QED BY <2>1, <2>2
<1> QED BY <1>4, <1>5 DEF ReviewInv

\* A decision is recorded: it is the newest on its offer, and not applied.
LEMMA CommitDecisionStep ==
  ASSUME ReviewInv, NEW s \in Sessions, CommitDecision(s)
  PROVE  ReviewInv'
<1>1. End(s)
  BY DEF CommitDecision
<1>2. CASE UNCHANGED tables
  BY <1>1, <1>2, EndingStep
<1>3. CASE KeyOf(req[s]) \notin KeysOf(decisions)
  <2>1. PICK r : r = req[s]
    OBVIOUS
  <2>2. /\ r \in Requests /\ r.offer \in Offers /\ r.review \in Reviews /\ r.latest \in Nat
        /\ ItemLoaded(r) /\ CommandLoaded(r)
    BY <2>1 DEF CommitDecision, ReviewInv, Loaded, Recording, Requests
  <2>3. PICK k : k = KeyOf(r)
    OBVIOUS
  <2>4. /\ k \in Keys /\ k \notin KeysOf(decisions)
        /\ k.command = r.command /\ k.command.offer = r.offer
    BY <1>3, <2>1, <2>2, <2>3 DEF KeyOf, Keys, CommandLoaded, Reviews
  <2>5. PICK d : d = [key |-> k, previous |-> r.latest, appliedBy |-> None]
    OBVIOUS
  <2>6. /\ d \in Decisions /\ d.key = k /\ d.previous = r.latest
        /\ ~IsApplied(d) /\ OfferOf(d) = r.offer
    BY <2>2, <2>4, <2>5 DEF Decisions, IsApplied, OfferOf
  <2>7. PICK status : status = Written(StatusFor(r.command), r.review.status, review[r.offer].status)
    OBVIOUS
  <2>8. /\ decisions' = Append(decisions, d)
        /\ review' = [review EXCEPT ![r.offer].status = status]
        /\ audit' = audit \cup {Recorded(k)}
        /\ UNCHANGED offer
    BY <1>3, <2>1, <2>3, <2>5, <2>7 DEF CommitDecision
  <2>9. /\ review[r.offer] \in Reviews
        /\ status \in Statuses /\ status # "OPEN"
        /\ status = "RESOLVED" => review[r.offer].status = "RESOLVED"
    <3>1. review[r.offer] \in Reviews
      BY <2>2 DEF ReviewInv, TypeOK, ItemLoaded
    <3> QED BY <3>1, <2>2, <2>7 DEF Written, StatusFor, Reviews, Statuses, ItemLoaded
  <2>10. /\ decisions' \in Seq(Decisions)
         /\ DOMAIN decisions' = DOMAIN decisions \cup {Len(decisions) + 1}
         /\ Len(decisions) + 1 \notin DOMAIN decisions
         /\ \A i \in DOMAIN decisions : decisions'[i] = decisions[i] /\ i < Len(decisions) + 1
         /\ decisions'[Len(decisions) + 1] = d
    BY <2>6, <2>8, AppendedDecision DEF ReviewInv, TypeOK
  <2>11. PICK n : n = Len(decisions) + 1
    OBVIOUS
  <2>12. /\ DOMAIN decisions' = DOMAIN decisions \cup {n} /\ n \notin DOMAIN decisions
         /\ \A i \in DOMAIN decisions : decisions'[i] = decisions[i] /\ i < n
         /\ decisions'[n] = d
    BY <2>10, <2>11
  <2>13. /\ review' \in [Offers -> Reviews \cup {None}]
         /\ review'[r.offer] \in Reviews
         /\ review'[r.offer].status = status
         /\ review'[r.offer].fp = review[r.offer].fp
         /\ \A o \in Offers : o # r.offer => review'[o] = review[o]
    <3>1. PICK item : item = [review[r.offer] EXCEPT !.status = status]
      OBVIOUS
    <3>2. item \in Reviews /\ item.status = status /\ item.fp = review[r.offer].fp
      BY <2>9, <3>1 DEF Reviews
    <3>3. review \in [Offers -> Reviews \cup {None}] /\ review' = [review EXCEPT ![r.offer] = item]
      BY <2>8, <3>1 DEF ReviewInv, TypeOK
    <3> QED BY <2>2, <3>2, <3>3
  <2>14. Extends(decisions', decisions)
    BY <2>12 DEF Extends
  <2>15. Growth
    <3>1. \A o \in Offers : review[o] # None =>
            /\ review'[o] # None
            /\ review'[o].fp = review[o].fp
            /\ review[o].status # "OPEN" => review'[o].status # "OPEN"
      BY <2>9, <2>13, NoneIsNothing
    <3> QED BY <2>8, <2>14, <3>1 DEF Growth
  <2>16. audit' \subseteq Events
    BY <2>4, <2>8 DEF ReviewInv, TypeOK, Events, Recorded
  <2>17. AuditTrail'
    <3> SUFFICES ASSUME NEW e \in Events
                 PROVE  e \in audit' <=> \E i \in DOMAIN decisions' :
                                           /\ decisions'[i].key = e.key
                                           /\ e.type = "APPLIED" => IsApplied(decisions'[i])
      BY DEF AuditTrail, IsApplied
    <3>1. e \in audit <=> \E i \in DOMAIN decisions :
                            /\ decisions[i].key = e.key
                            /\ e.type = "APPLIED" => IsApplied(decisions[i])
      BY DEF ReviewInv, AuditTrail
    <3>2. e = Recorded(k) <=> e.type # "APPLIED" /\ e.key = k
      BY DEF Events, Recorded
    <3> QED BY <2>6, <2>8, <2>12, <3>1, <3>2
  <2>18. StatusFollowsDecisions'
    <3> SUFFICES ASSUME NEW o \in Offers, review'[o] # None
                 PROVE  /\ review'[o].status = "OPEN" <=> LatestIndex(decisions', o) = 0
                        /\ review'[o].status = "RESOLVED" => AppliedOn(decisions', o) # {}
                        /\ offer'[o].columns.requiresReview <=> AppliedOn(decisions', o) = {}
      BY DEF StatusFollowsDecisions, AppliedOn, OfferOf, IsApplied, LatestIndex
    <3>1. AppliedOn(decisions', o) = AppliedOn(decisions, o)
      BY <2>6, <2>12 DEF AppliedOn
    <3>2. review[o] # None
      BY <2>2, <2>13 DEF ItemLoaded
    <3>3. /\ review[o].status = "OPEN" <=> LatestIndex(decisions, o) = 0
          /\ review[o].status = "RESOLVED" => AppliedOn(decisions, o) # {}
          /\ offer[o].columns.requiresReview <=> AppliedOn(decisions, o) = {}
      BY <3>2 DEF ReviewInv, StatusFollowsDecisions, AppliedOn
    <3>4. CASE o = r.offer
      <4>1. LatestIndex(decisions', o) # 0
        BY <2>6, <2>10, <2>12, <3>4, NoLatest
      <4> QED BY <2>8, <2>9, <2>13, <3>1, <3>3, <3>4, <4>1
    <3>5. CASE o # r.offer
      <4>1. LatestIndex(decisions', o) = 0 <=> LatestIndex(decisions, o) = 0
        <5>1. decisions \in Seq(Decisions)
          BY DEF ReviewInv, TypeOK
        <5>2. LatestIndex(decisions, o) = 0 <=> \A i \in DOMAIN decisions : OfferOf(decisions[i]) # o
          BY <5>1, NoLatest
        <5>3. LatestIndex(decisions', o) = 0 <=> \A i \in DOMAIN decisions' : OfferOf(decisions'[i]) # o
          BY <2>10, NoLatest
        <5> QED BY <2>6, <2>12, <3>5, <5>2, <5>3
      <4> QED BY <2>8, <2>13, <3>1, <3>3, <3>5, <4>1
    <3> QED BY <3>4, <3>5
  <2>19. FieldsAreDecided'
    <3> SUFFICES ASSUME NEW o \in Offers
                 PROVE  RowDecided(decisions', o, review'[o].fp, offer'[o])
      BY DEF FieldsAreDecided
    <3>1. RowDecided(decisions, o, review[o].fp, offer[o])
      BY DEF ReviewInv, FieldsAreDecided
    <3>2. review'[o].fp = review[o].fp /\ offer'[o] = offer[o]
      BY <2>8, <2>13
    <3> QED BY <2>14, <3>1, <3>2, RowStaysDecided
  <2>20. DecisionsAreSound'
    <3>1. \A i \in DOMAIN decisions : decisions[i].key # k
      BY <2>4 DEF KeysOf
    <3>2. DecisionsAreSound
      BY DEF ReviewInv
    <3>3. \A i, j \in DOMAIN decisions' : decisions'[i].key = decisions'[j].key => i = j
      BY <2>6, <2>12, <3>1, <3>2 DEF DecisionsAreSound
    <3>4. r.latest # 0 => r.latest \in DOMAIN decisions /\ OfferOf(decisions[r.latest]) = r.offer
      BY <2>2 DEF CommandLoaded
    <3>5. n \in Nat /\ 0 < n
      BY <2>11, LenProperties DEF ReviewInv, TypeOK
    <3>6. ASSUME NEW i \in DOMAIN decisions'
          PROVE  /\ IsApplied(decisions'[i]) => IsConfirmed(decisions'[i])
                 /\ decisions'[i].previous < i
                 /\ decisions'[i].previous # 0 =>
                      OfferOf(decisions'[decisions'[i].previous]) = OfferOf(decisions'[i])
      <4>1. CASE i = n
        BY <2>6, <2>12, <3>4, <3>5, <4>1
      <4>2. CASE i \in DOMAIN decisions
        <5>1. /\ IsApplied(decisions[i]) => IsConfirmed(decisions[i])
              /\ decisions[i].previous < i
              /\ decisions[i].previous # 0 =>
                   OfferOf(decisions[decisions[i].previous]) = OfferOf(decisions[i])
          BY <3>2, <4>2 DEF DecisionsAreSound
        <5>2. decisions[i].previous # 0 => decisions[i].previous \in DOMAIN decisions
          <6>1. decisions \in Seq(Decisions)
            BY DEF ReviewInv, TypeOK
          <6>2. DOMAIN decisions = 1..Len(decisions) /\ Len(decisions) \in Nat
            BY <6>1, LenProperties
          <6>3. decisions[i] \in Decisions
            BY <4>2, <6>1, <6>2, ElementOfSeq
          <6>4. decisions[i].previous \in Nat
            BY <6>3 DEF Decisions
          <6> QED BY <4>2, <5>1, <6>2, <6>4
        <5> QED BY <2>12, <4>2, <5>1, <5>2
      <4> QED BY <2>12, <4>1, <4>2
    <3> QED BY <3>3, <3>6 DEF DecisionsAreSound, OfferOf, IsApplied, IsConfirmed
  <2> QED BY <1>1, <2>8, <2>10, <2>13, <2>15, <2>16, <2>17, <2>18, <2>19, <2>20,
             CommittingStep DEF ReviewInv, TypeOK
<1> QED BY <1>2, <1>3 DEF CommitDecision

\* A row with a decision applied to it holds only what decisions account for,
\* however out of date the row it was computed from was.
LEMMA UpdatedRowDecided ==
  ASSUME NEW ds, NEW o, NEW fp, NEW c, NEW now, NEW loaded,
         RowDecided(ds, o, fp, now), RowDecided(ds, o, fp, loaded),
         \A f \in c.changes : DecidedIn(ds, o, fp, f, c)
  PROVE  RowDecided(ds, o, fp, UpdatedRow(now, loaded, RowAfter(loaded, c)))
<1>1. PICK new : new = RowAfter(loaded, c)
  OBVIOUS
<1>2. \A f \in ReviewChangeFields :
        /\ new.columns.fields[f] = IF f \in c.changes THEN c ELSE loaded.columns.fields[f]
        /\ new.payload.fields[f] = IF f \in c.changes THEN c ELSE loaded.payload.fields[f]
  BY <1>1 DEF RowAfter, Accepted
<1>3. RowDecided(ds, o, fp, new)
  BY <1>2 DEF RowDecided
<1>4. PICK row : row = UpdatedRow(now, loaded, new)
  OBVIOUS
<1>5. \A f \in ReviewChangeFields :
        row.columns.fields[f] = Written(new.columns.fields[f], loaded.columns.fields[f],
                                        now.columns.fields[f])
  BY <1>4 DEF UpdatedRow
<1>6. row.payload = new.payload \/ row.payload = now.payload
  BY <1>4 DEF UpdatedRow, Written
<1>7. \A f \in ReviewChangeFields :
        row.columns.fields[f] = new.columns.fields[f] \/ row.columns.fields[f] = now.columns.fields[f]
  BY <1>5 DEF Written
<1>8. RowDecided(ds, o, fp, row)
  BY <1>3, <1>6, <1>7 DEF RowDecided
<1> QED BY <1>1, <1>4, <1>8

\* Such a row is a row, and it requires no review unless the loaded one did not
\* and the present one does.
LEMMA UpdatedRowTyped ==
  ASSUME NEW c \in Commands, NEW now \in Rows, NEW loaded \in Rows,
         now.columns.requiresReview => loaded.columns.requiresReview
  PROVE  LET row == UpdatedRow(now, loaded, RowAfter(loaded, c))
         IN  /\ row \in Rows
             /\ ~row.columns.requiresReview
<1>1. KeyFields \subseteq ReviewChangeFields
  BY DEF KeyFields, ReviewChangeFields
<1>2. c \in Values
  BY DEF Values
<1>3. ASSUME NEW contents \in Contents
      PROVE  Accepted(contents, c) \in Contents
  <2>1. contents.fields \in [ReviewChangeFields -> Values]
    BY <1>3 DEF Contents, Fields
  <2>2. [f \in ReviewChangeFields |-> IF f \in c.changes THEN c ELSE contents.fields[f]] \in Fields
    BY <1>2, <2>1 DEF Fields
  <2> QED BY <2>2 DEF Accepted, Contents
<1>4. /\ loaded.columns \in Contents /\ loaded.payload \in Contents
      /\ loaded.nomenclatureKey \in [KeyFields -> Values]
      /\ now.columns \in Contents /\ now.payload \in Contents
      /\ now.nomenclatureKey \in [KeyFields -> Values]
  BY DEF Rows
<1>5. PICK new : new = RowAfter(loaded, c)
  OBVIOUS
<1>6. PICK columns : columns = Accepted(loaded.columns, c)
  OBVIOUS
<1>7. columns \in Contents /\ ~columns.requiresReview
  BY <1>3, <1>4, <1>6 DEF Accepted
<1>8. [f \in KeyFields |-> columns.fields[f]] \in [KeyFields -> Values]
  <2>1. columns.fields \in [ReviewChangeFields -> Values]
    BY <1>7 DEF Contents, Fields
  <2> QED BY <1>1, <2>1
<1>9. /\ new.columns = columns
      /\ new.payload \in Contents
      /\ new.nomenclatureKey \in [KeyFields -> Values]
  <2>1. new = [columns |-> columns,
               payload |-> Accepted(loaded.payload, c),
               nomenclatureKey |-> IF c.changes \cap KeyFields = {} THEN loaded.nomenclatureKey
                                   ELSE [f \in KeyFields |-> columns.fields[f]]]
    BY <1>5, <1>6 DEF RowAfter
  <2> QED BY <1>3, <1>4, <1>8, <2>1
<1>10. PICK row : row = UpdatedRow(now, loaded, new)
  OBVIOUS
<1>11. PICK fields : fields = [f \in ReviewChangeFields |->
                                 Written(columns.fields[f], loaded.columns.fields[f],
                                         now.columns.fields[f])]
  OBVIOUS
<1>12. fields \in Fields
  <2>1. /\ columns.fields \in [ReviewChangeFields -> Values]
        /\ now.columns.fields \in [ReviewChangeFields -> Values]
    BY <1>4, <1>7 DEF Contents, Fields
  <2>2. \A f \in ReviewChangeFields :
          Written(columns.fields[f], loaded.columns.fields[f], now.columns.fields[f]) \in Values
    BY <2>1 DEF Written
  <2> QED BY <1>11, <2>2 DEF Fields
<1>13. PICK required : required = Written(columns.requiresReview, loaded.columns.requiresReview,
                                          now.columns.requiresReview)
  OBVIOUS
<1>14. required = FALSE
  <2>1. /\ columns.requiresReview = FALSE
        /\ now.columns.requiresReview \in BOOLEAN /\ loaded.columns.requiresReview \in BOOLEAN
    BY <1>4, <1>7 DEF Contents
  <2> QED BY <1>13, <2>1 DEF Written
<1>15. row = [columns |-> [requiresReview |-> required, fields |-> fields],
              payload |-> Written(new.payload, loaded.payload, now.payload),
              nomenclatureKey |-> Written(new.nomenclatureKey, loaded.nomenclatureKey,
                                          now.nomenclatureKey)]
  BY <1>9, <1>10, <1>11, <1>13 DEF UpdatedRow
<1>16. [requiresReview |-> required, fields |-> fields] \in Contents
  BY <1>12, <1>14 DEF Contents
<1>17. /\ Written(new.payload, loaded.payload, now.payload) \in Contents
       /\ Written(new.nomenclatureKey, loaded.nomenclatureKey, now.nomenclatureKey)
            \in [KeyFields -> Values]
  BY <1>4, <1>9 DEF Written
<1>18. row \in Rows /\ ~row.columns.requiresReview
  BY <1>14, <1>15, <1>16, <1>17 DEF Rows
<1> QED BY <1>5, <1>10, <1>18

\* A decision is applied, from whatever the request had loaded.
LEMMA CommitApplyStep ==
  ASSUME ReviewInv, NEW s \in Sessions, CommitApply(s)
  PROVE  ReviewInv'
<1>1. End(s)
  BY DEF CommitApply
<1>2. CASE UNCHANGED tables
  BY <1>1, <1>2, EndingStep
<1>3. CASE ~ UNCHANGED tables
  <2>1. PICK r : r = req[s]
    OBVIOUS
  <2>2. /\ r \in Requests /\ r.offer \in Offers /\ r.review \in Reviews /\ r.row \in Rows
        /\ r.by \in Operators
        /\ ItemLoaded(r) /\ RowLoaded(r) /\ DecisionLoaded(r)
    BY <2>1 DEF CommitApply, ReviewInv, Loaded, Applying, RowRead, DecisionRead, Requests
  <2>3. PICK i, k, c : i = r.latest /\ k = decisions[i].key /\ c = k.command
    OBVIOUS
  <2>4. decisions \in Seq(Decisions) /\ i \in DOMAIN decisions /\ decisions[i] \in Decisions
    <3>1. decisions \in Seq(Decisions)
      BY DEF ReviewInv, TypeOK
    <3>2. i \in DOMAIN decisions
      BY <2>2, <2>3 DEF DecisionLoaded
    <3> QED BY <3>1, <3>2, ElementOfSeq, LenProperties
  <2>5. /\ k \in Keys /\ c \in Commands /\ c.offer = r.offer
        /\ k = [command |-> c, fp |-> r.review.fp]
        /\ IsConfirmed(decisions[i]) /\ OfferOf(decisions[i]) = r.offer
    <3>1. k \in Keys /\ c \in Commands
      BY <2>3, <2>4 DEF Decisions, Keys
    <3>2. k = [command |-> c, fp |-> k.fp]
      BY <2>3, <3>1 DEF Keys
    <3> QED BY <2>2, <2>3, <3>1, <3>2 DEF DecisionLoaded, OfferOf
  <2>6. PICK row : row = UpdatedRow(offer[r.offer], r.row, RowAfter(r.row, c))
    OBVIOUS
  <2>7. PICK status : status = Written("RESOLVED", r.review.status, review[r.offer].status)
    OBVIOUS
  <2>8. /\ offer' = [offer EXCEPT ![r.offer] = row]
        /\ review' = [review EXCEPT ![r.offer].status = status]
        /\ decisions' = [decisions EXCEPT ![i].appliedBy = r.by]
        /\ audit' = audit \cup {Applied(k)}
    <3>1. /\ offer' = [offer EXCEPT ![r.offer] = UpdatedRow(@, r.row, RowAfter(r.row, k.command))]
          /\ review' = [review EXCEPT ![r.offer].status = Written("RESOLVED", r.review.status, @)]
          /\ decisions' = [decisions EXCEPT ![r.latest].appliedBy = r.by]
          /\ audit' = audit \cup {Applied(k)}
      BY <1>3, <2>1, <2>3 DEF CommitApply
    <3> QED BY <2>3, <2>6, <2>7, <3>1
  <2>9. /\ decisions' \in Seq(Decisions)
        /\ DOMAIN decisions' = DOMAIN decisions
        /\ \A j \in DOMAIN decisions : /\ decisions'[j].key = decisions[j].key
                                       /\ decisions'[j].previous = decisions[j].previous
                                       /\ j # i => decisions'[j] = decisions[j]
        /\ IsApplied(decisions'[i])
    BY <2>2, <2>4, <2>8, AppliedDecision
  <2>10. /\ review[r.offer] \in Reviews
         /\ status \in Statuses /\ status # "OPEN"
    <3>1. review[r.offer] \in Reviews
      BY <2>2 DEF ReviewInv, TypeOK, ItemLoaded
    <3> QED BY <3>1, <2>2, <2>7 DEF Written, Reviews, Statuses, ItemLoaded
  <2>11. /\ review' \in [Offers -> Reviews \cup {None}]
         /\ review'[r.offer] \in Reviews
         /\ review'[r.offer].status = status
         /\ review'[r.offer].fp = review[r.offer].fp
         /\ \A o \in Offers : o # r.offer => review'[o] = review[o]
    <3>1. PICK item : item = [review[r.offer] EXCEPT !.status = status]
      OBVIOUS
    <3>2. item \in Reviews /\ item.status = status /\ item.fp = review[r.offer].fp
      BY <2>10, <3>1 DEF Reviews
    <3>3. review \in [Offers -> Reviews \cup {None}] /\ review' = [review EXCEPT ![r.offer] = item]
      BY <2>8, <3>1 DEF ReviewInv, TypeOK
    <3> QED BY <2>2, <3>2, <3>3
  <2>12. /\ offer \in [Offers -> Rows] /\ offer' \in [Offers -> Rows]
         /\ offer'[r.offer] = row /\ ~row.columns.requiresReview
         /\ \A o \in Offers : o # r.offer => offer'[o] = offer[o]
    <3>1. offer \in [Offers -> Rows]
      BY DEF ReviewInv, TypeOK
    <3>2. offer[r.offer] \in Rows
      BY <2>2, <3>1
    <3>3. row \in Rows /\ ~row.columns.requiresReview
      BY <2>2, <2>5, <2>6, <3>2, UpdatedRowTyped DEF RowLoaded
    <3> QED BY <2>2, <2>8, <3>1, <3>3
  <2>13. Extends(decisions', decisions)
    BY <2>9 DEF Extends
  <2>14. Growth
    <3>1. \A o \in Offers : review[o] # None =>
            /\ review'[o] # None
            /\ review'[o].fp = review[o].fp
            /\ review[o].status # "OPEN" => review'[o].status # "OPEN"
      BY <2>10, <2>11, NoneIsNothing
    <3>2. \A o \in Offers : offer'[o].columns.requiresReview => offer[o].columns.requiresReview
      BY <2>12
    <3> QED BY <2>13, <3>1, <3>2 DEF Growth
  <2>15. audit' \subseteq Events
    BY <2>5, <2>8 DEF ReviewInv, TypeOK, Events, Applied
  <2>16. AuditTrail'
    <3> SUFFICES ASSUME NEW e \in Events
                 PROVE  e \in audit' <=> \E j \in DOMAIN decisions' :
                                           /\ decisions'[j].key = e.key
                                           /\ e.type = "APPLIED" => IsApplied(decisions'[j])
      BY DEF AuditTrail, IsApplied
    <3>1. e \in audit <=> \E j \in DOMAIN decisions :
                            /\ decisions[j].key = e.key
                            /\ e.type = "APPLIED" => IsApplied(decisions[j])
      BY DEF ReviewInv, AuditTrail
    <3>2. e = Applied(k) <=> e.type = "APPLIED" /\ e.key = k
      BY DEF Events, Applied
    <3>3. CASE e.key = k
      <4>1. CASE e.type = "APPLIED"
        BY <2>3, <2>4, <2>8, <2>9, <3>2, <3>3, <4>1
      <4>2. CASE e.type # "APPLIED"
        BY <2>8, <2>9, <3>1, <3>2, <4>2
      <4> QED BY <4>1, <4>2
    <3>4. CASE e.key # k
      BY <2>3, <2>8, <2>9, <3>1, <3>2, <3>4
    <3> QED BY <3>3, <3>4
  <2>17. StatusFollowsDecisions'
    <3> SUFFICES ASSUME NEW o \in Offers, review'[o] # None
                 PROVE  /\ review'[o].status = "OPEN" <=> LatestIndex(decisions', o) = 0
                        /\ review'[o].status = "RESOLVED" => AppliedOn(decisions', o) # {}
                        /\ offer'[o].columns.requiresReview <=> AppliedOn(decisions', o) = {}
      BY DEF StatusFollowsDecisions, AppliedOn, OfferOf, IsApplied, LatestIndex
    <3>1. \A j \in DOMAIN decisions : OfferOf(decisions'[j]) = OfferOf(decisions[j])
      BY <2>9 DEF OfferOf
    <3>2. CASE o = r.offer
      <4>1. i \in AppliedOn(decisions', o)
        BY <2>4, <2>5, <2>9, <3>1, <3>2 DEF AppliedOn
      <4>2. LatestIndex(decisions', o) # 0
        BY <2>4, <2>5, <2>9, <3>1, <3>2, NoLatest
      <4> QED BY <2>10, <2>11, <2>12, <3>2, <4>1, <4>2
    <3>3. CASE o # r.offer
      <4>1. AppliedOn(decisions', o) = AppliedOn(decisions, o)
        BY <2>5, <2>9, <3>1, <3>3 DEF AppliedOn
      <4>2. LatestIndex(decisions', o) = 0 <=> LatestIndex(decisions, o) = 0
        <5>1. LatestIndex(decisions, o) = 0 <=> \A j \in DOMAIN decisions : OfferOf(decisions[j]) # o
          BY <2>4, NoLatest
        <5>2. LatestIndex(decisions', o) = 0 <=> \A j \in DOMAIN decisions' : OfferOf(decisions'[j]) # o
          BY <2>9, NoLatest
        <5> QED BY <2>9, <3>1, <5>1, <5>2
      <4>3. review[o] # None
        BY <2>11, <3>3
      <4>4. /\ review[o].status = "OPEN" <=> LatestIndex(decisions, o) = 0
            /\ review[o].status = "RESOLVED" => AppliedOn(decisions, o) # {}
            /\ offer[o].columns.requiresReview <=> AppliedOn(decisions, o) = {}
        BY <4>3 DEF ReviewInv, StatusFollowsDecisions, AppliedOn
      <4> QED BY <2>11, <2>12, <3>3, <4>1, <4>2, <4>4
    <3> QED BY <3>2, <3>3
  <2>18. FieldsAreDecided'
    <3> SUFFICES ASSUME NEW o \in Offers
                 PROVE  RowDecided(decisions', o, review'[o].fp, offer'[o])
      BY DEF FieldsAreDecided
    <3>1. RowDecided(decisions, o, review[o].fp, offer[o])
      BY DEF ReviewInv, FieldsAreDecided
    <3>2. RowDecided(decisions', o, review[o].fp, offer[o])
      BY <2>13, <3>1, RowStaysDecided
    <3>3. CASE o # r.offer
      BY <2>11, <2>12, <3>2, <3>3
    <3>4. CASE o = r.offer
      <4>1. review[o].fp = r.review.fp
        BY <2>2, <3>4 DEF ItemLoaded
      <4>2. RowDecided(decisions', o, r.review.fp, r.row)
        BY <2>2, <2>13, <3>4, RowStaysDecided DEF RowLoaded
      <4>3. \A f \in c.changes : DecidedIn(decisions', o, r.review.fp, f, c)
        BY <2>3, <2>4, <2>5, <2>9, <3>4 DEF DecidedIn, OfferOf, IsConfirmed
      <4>4. RowDecided(decisions', o, r.review.fp, row)
        BY <2>6, <3>2, <3>4, <4>1, <4>2, <4>3, UpdatedRowDecided
      <4> QED BY <2>11, <2>12, <3>4, <4>1, <4>4
    <3> QED BY <3>3, <3>4
  <2>19. DecisionsAreSound'
    <3>1. DecisionsAreSound
      BY DEF ReviewInv
    <3>2. \A j, l \in DOMAIN decisions' : decisions'[j].key = decisions'[l].key => j = l
      BY <2>9, <3>1 DEF DecisionsAreSound
    <3>3. ASSUME NEW j \in DOMAIN decisions'
          PROVE  /\ IsApplied(decisions'[j]) => IsConfirmed(decisions'[j])
                 /\ decisions'[j].previous < j
                 /\ decisions'[j].previous # 0 =>
                      OfferOf(decisions'[decisions'[j].previous]) = OfferOf(decisions'[j])
      <4>1. j \in DOMAIN decisions /\ decisions[j] \in Decisions
        BY <2>4, <2>9, ElementOfSeq, LenProperties
      <4>2. /\ IsApplied(decisions[j]) => IsConfirmed(decisions[j])
            /\ decisions[j].previous < j
            /\ decisions[j].previous # 0 =>
                 OfferOf(decisions[decisions[j].previous]) = OfferOf(decisions[j])
        BY <3>1, <4>1 DEF DecisionsAreSound
      <4>3. decisions[j].previous # 0 => decisions[j].previous \in DOMAIN decisions
        <5>1. DOMAIN decisions = 1..Len(decisions) /\ Len(decisions) \in Nat
          BY <2>4, LenProperties
        <5>2. decisions[j].previous \in Nat
          BY <4>1 DEF Decisions
        <5> QED BY <4>1, <4>2, <5>1, <5>2
      <4>4. IsApplied(decisions'[j]) => IsConfirmed(decisions'[j])
        BY <2>5, <2>9, <4>1, <4>2 DEF IsConfirmed
      <4> QED BY <2>9, <4>1, <4>2, <4>3, <4>4 DEF OfferOf
    <3> QED BY <3>2, <3>3 DEF DecisionsAreSound, OfferOf, IsApplied, IsConfirmed
  <2> QED BY <1>1, <2>9, <2>11, <2>12, <2>14, <2>15, <2>16, <2>17, <2>18, <2>19, CommittingStep
<1> QED BY <1>2, <1>3

-----------------------------------------------------------------------------
\* The invariant holds before the first request.
LEMMA InitReview == Init => ReviewInv
<1> SUFFICES ASSUME Init PROVE ReviewInv
  OBVIOUS
<1>1. ImportedRow \in Rows
  <2>1. PICK o \in Offers : review[o] # None
    BY DEF Init
  <2>2. review[o] \in Reviews
    BY <2>1 DEF Init, Reviews, Statuses
  <2> QED BY <2>2, RequestTyped
<1>2. decisions = <<>> /\ <<>> \in Seq(Decisions) /\ DOMAIN decisions = {}
  BY EmptySeq, LenProperties DEF Init
<1>3. review \in [Offers -> Reviews \cup {None}]
  BY DEF Init, Reviews, Statuses
<1>4. TypeOK
  BY <1>1, <1>2, <1>3 DEF Init, TypeOK, Places
<1>5. AuditTrail
  BY <1>2 DEF Init, AuditTrail
<1>6. \A o \in Offers : LatestIndex(decisions, o) = 0
  BY <1>2, NoLatest
<1>7. ImportedRow.columns.requiresReview = TRUE
  BY DEF ImportedRow
<1>8. \A f \in ReviewChangeFields : /\ ImportedRow.columns.fields[f] = None
                                    /\ ImportedRow.payload.fields[f] = None
  BY DEF ImportedRow, NothingSet
<1>9. StatusFollowsDecisions
  BY <1>2, <1>6, <1>7 DEF Init, StatusFollowsDecisions
<1>10. FieldsAreDecided
  BY <1>8 DEF Init, FieldsAreDecided, RowDecided
<1>11. DecisionsAreSound
  BY <1>2 DEF DecisionsAreSound
<1>12. \A s \in Sessions : Loaded(s)
  BY DEF Init, Loaded, Recording, Applying, RowRead, DecisionRead
<1> QED BY <1>4, <1>5, <1>9, <1>10, <1>11, <1>12 DEF ReviewInv

\* Every step keeps the invariant.
LEMMA NextReview == ReviewInv /\ [Next]_vars => ReviewInv'
<1> SUFFICES ASSUME ReviewInv, [Next]_vars PROVE ReviewInv'
  OBVIOUS
<1>1. CASE UNCHANGED vars
  <2>1. UNCHANGED tables /\ pc' = pc /\ req' = req
    BY <1>1 DEF vars, tables
  <2>2. \A s \in Sessions : Loaded(s)'
    BY <2>1, UnchangedGrows, StaysLoaded DEF ReviewInv
  <2>3. TypeOK' /\ AuditTrail' /\ StatusFollowsDecisions' /\ FieldsAreDecided' /\ DecisionsAreSound'
    BY <2>1 DEF ReviewInv, tables, TypeOK, AuditTrail, StatusFollowsDecisions, FieldsAreDecided,
                DecisionsAreSound
  <2> QED BY <2>2, <2>3 DEF ReviewInv
<1>2. CASE Next
  <2>1. PICK s \in Sessions :
          \/ \E c \in Commands : StartRecord(s, c)
          \/ ReadLatest(s)
          \/ FindExisting(s)
          \/ CommitDecision(s)
          \/ \E o \in Offers, by \in Operators : StartApply(s, o, by)
          \/ ReadOffer(s)
          \/ ReadDecision(s)
          \/ FindEvent(s)
          \/ CommitApply(s)
          \/ Abort(s)
    BY <1>2 DEF Next
  <2>2. CASE \E c \in Commands : StartRecord(s, c)
    BY <2>2, StartRecordStep
  <2>3. CASE ReadLatest(s)
    BY <2>3, ReadLatestStep
  <2>4. CASE FindExisting(s)
    BY <2>4, FindExistingStep
  <2>5. CASE CommitDecision(s)
    BY <2>5, CommitDecisionStep
  <2>6. CASE \E o \in Offers, by \in Operators : StartApply(s, o, by)
    BY <2>6, StartApplyStep
  <2>7. CASE ReadOffer(s)
    BY <2>7, ReadOfferStep
  <2>8. CASE ReadDecision(s)
    BY <2>8, ReadDecisionStep
  <2>9. CASE FindEvent(s)
    BY <2>9, FindEventStep
  <2>10. CASE CommitApply(s)
    BY <2>10, CommitApplyStep
  <2>11. CASE Abort(s)
    BY <2>11, EndingStep DEF Abort
  <2> QED BY <2>1, <2>2, <2>3, <2>4, <2>5, <2>6, <2>7, <2>8, <2>9, <2>10, <2>11
<1> QED BY <1>1, <1>2

\* What every request has loaded, and what the tables hold, stays sound however
\* the requests of record_review_decision and apply_review_decision interleave
\* and wherever they are cut off.
THEOREM ReviewInvariant == Spec => []ReviewInv
BY InitReview, NextReview, PTL DEF Spec

\* Every table row and every request keeps its type.
THEOREM PersistedTypeCorrect == Spec => []TypeOK
<1>1. ReviewInv => TypeOK
  BY DEF ReviewInv
<1> QED BY <1>1, ReviewInvariant, PTL

\* audit_events holds one event for each decision recorded and one for each
\* applied, and no other.
THEOREM AuditIsExact == Spec => []AuditTrail
<1>1. ReviewInv => AuditTrail
  BY DEF ReviewInv
<1> QED BY <1>1, ReviewInvariant, PTL

\* An item leaves OPEN with its first decision, and the offer stops requiring
\* review with the first one applied.
THEOREM StatusIsEarned == Spec => []StatusFollowsDecisions
<1>1. ReviewInv => StatusFollowsDecisions
  BY DEF ReviewInv
<1> QED BY <1>1, ReviewInvariant, PTL

\* No field of an offer is ever changed but by a confirmed, applied decision on
\* that offer and that source.
THEOREM FieldsOnlyDecided == Spec => []FieldsAreDecided
<1>1. ReviewInv => FieldsAreDecided
  BY DEF ReviewInv
<1> QED BY <1>1, ReviewInvariant, PTL

\* No decision is stored twice, only confirmed ones are applied, and each names
\* an earlier decision on its offer as its previous one.
THEOREM DecisionsSound == Spec => []DecisionsAreSound
<1>1. ReviewInv => DecisionsAreSound
  BY DEF ReviewInv
<1> QED BY <1>1, ReviewInvariant, PTL

-----------------------------------------------------------------------------
(***************************************************************************)
(* The newest decision on an offer.                                        *)
(***************************************************************************)
\* The place LatestIndex takes of those of the decisions on an offer.
LastOf(places) == IF places = {} THEN 0 ELSE CHOOSE i \in places : \A j \in places : j <= i

PlacesOf(ds, o) == {i \in DOMAIN ds : OfferOf(ds[i]) = o}

\* LatestIndex by its two parts.
LEMMA LatestIsLast ==
  ASSUME NEW ds, NEW o
  PROVE  LatestIndex(ds, o) = LastOf(PlacesOf(ds, o))
BY Zenon DEF LatestIndex, LastOf, PlacesOf

\* It depends only on the offers the decisions are on.
LEMMA SameLatest ==
  ASSUME NEW ds, NEW es, NEW o,
         DOMAIN es = DOMAIN ds, \A i \in DOMAIN ds : OfferOf(es[i]) = OfferOf(ds[i])
  PROVE  LatestIndex(es, o) = LatestIndex(ds, o)
<1>1. PlacesOf(es, o) = PlacesOf(ds, o)
  BY DEF PlacesOf
<1> QED BY <1>1, LatestIsLast

\* A decision on the offer with none after it is the newest.
LEMMA LatestIs ==
  ASSUME NEW ds \in Seq(Decisions), NEW o, NEW i \in DOMAIN ds, OfferOf(ds[i]) = o,
         \A j \in DOMAIN ds : OfferOf(ds[j]) = o => j <= i
  PROVE  LatestIndex(ds, o) = i
<1>1. DOMAIN ds = 1..Len(ds) /\ Len(ds) \in Nat
  BY LenProperties
<1>2. LatestIndex(ds, o) \in DOMAIN ds /\ i <= LatestIndex(ds, o) /\ LatestIndex(ds, o) <= i
  BY LatestIndexProperty
<1> QED BY <1>1, <1>2

\* A decision that is appended becomes the newest on its offer and on no other.
LEMMA LatestAppended ==
  ASSUME NEW ds \in Seq(Decisions), NEW d \in Decisions, NEW o
  PROVE  LatestIndex(Append(ds, d), o) = IF OfferOf(d) = o THEN Len(ds) + 1 ELSE LatestIndex(ds, o)
<1>1. PICK es, n : es = Append(ds, d) /\ n = Len(ds) + 1
  OBVIOUS
<1>2. /\ es \in Seq(Decisions)
      /\ DOMAIN es = DOMAIN ds \cup {n} /\ n \notin DOMAIN ds
      /\ \A i \in DOMAIN ds : es[i] = ds[i] /\ i < n
      /\ es[n] = d
  BY <1>1, AppendedDecision
<1>3. n \in Nat /\ DOMAIN ds = 1..Len(ds) /\ Len(ds) \in Nat
  BY <1>1, LenProperties
<1>4. CASE OfferOf(d) = o
  <2>1. \A j \in DOMAIN es : j <= n
    BY <1>2, <1>3
  <2>2. LatestIndex(es, o) = n
    BY <1>2, <1>4, <2>1, LatestIs
  <2> QED BY <1>1, <1>4, <2>2
<1>5. CASE OfferOf(d) # o
  <2>1. PlacesOf(es, o) = PlacesOf(ds, o)
    BY <1>2, <1>5 DEF PlacesOf
  <2> QED BY <1>1, <1>5, <2>1, LatestIsLast
<1> QED BY <1>4, <1>5

-----------------------------------------------------------------------------
(***************************************************************************)
(* Steps that read, on the offers where requests came one at a time.       *)
(***************************************************************************)
\* What a step of s leaves alone, and what it notes of the offers it meets others on.
StepOf(s) ==
  /\ overlapped' = overlapped \cup Together'
  /\ \A t \in Sessions \ {s} : pc'[t] = pc[t] /\ req'[t] = req[t]

\* Every action of a session leaves the others where they are.
LEMMA OthersStay ==
  ASSUME TypeOK, overlapped' = overlapped \cup Together', NEW s \in Sessions,
         \/ \E c \in Commands : StartRecord(s, c)
         \/ ReadLatest(s)
         \/ FindExisting(s)
         \/ CommitDecision(s)
         \/ \E o \in Offers, by \in Operators : StartApply(s, o, by)
         \/ ReadOffer(s)
         \/ ReadDecision(s)
         \/ FindEvent(s)
         \/ CommitApply(s)
         \/ Abort(s)
  PROVE  StepOf(s)
<1>1. (\E place : GoTo(s, place)) /\ (req' = req \/ \E r : req' = [req EXCEPT ![s] = r])
  BY Zenon DEF StartRecord, ReadLatest, FindExisting, CommitDecision, StartApply, ReadOffer,
               ReadDecision, FindEvent, CommitApply, Abort, End
<1>2. pc \in [Sessions -> Places] /\ req \in [Sessions -> Requests \cup {None}]
  BY DEF TypeOK
<1> QED BY <1>1, <1>2 DEF StepOf, GoTo

\* A step that leaves the tables alone and the session up to date with them.
LEMMA SerialReading ==
  ASSUME SerialInv, ReviewInv', UNCHANGED tables, NEW s \in Sessions, StepOf(s),
         Apart(s)' => UpToDate(s)'
  PROVE  SerialInv'
<1>1. overlapped \subseteq overlapped' /\ Together' \subseteq overlapped'
  BY DEF StepOf
<1>2. RowIsConsistent' /\ StatusIsLatest' /\ ChainIsLinear'
  BY <1>1 DEF SerialInv, tables, RowIsConsistent, StatusIsLatest, ChainIsLinear
<1>3. ASSUME NEW t \in Sessions, t # s, Apart(t)' PROVE UpToDate(t)'
  <2>1. pc'[t] = pc[t] /\ req'[t] = req[t]
    BY <1>3 DEF StepOf
  <2>2. UpToDate(t)
    BY <1>1, <1>3, <2>1 DEF Apart, SerialInv
  <2> QED BY <2>1, <2>2 DEF UpToDate, tables, IsApplied
<1> QED BY <1>1, <1>2, <1>3 DEF SerialInv

\* A request that ends without writing.
LEMMA SerialAbandoned ==
  ASSUME SerialInv, ReviewInv', NEW s \in Sessions, End(s), UNCHANGED tables, StepOf(s)
  PROVE  SerialInv'
<1>1. pc'[s] = "idle"
  BY DEF End, GoTo, SerialInv, ReviewInv, TypeOK
<1>2. ~Apart(s)'
  BY <1>1 DEF Apart
<1> QED BY <1>2, SerialReading

\* What the steps that only read leave the session with.
LEMMA SerialReadingSteps ==
  ASSUME SerialInv, ReviewInv', NEW s \in Sessions, StepOf(s),
         \/ \E c \in Commands : StartRecord(s, c)
         \/ ReadLatest(s)
         \/ FindExisting(s)
         \/ \E o \in Offers, by \in Operators : StartApply(s, o, by)
         \/ ReadOffer(s)
         \/ ReadDecision(s)
         \/ FindEvent(s)
         \/ Abort(s)
  PROVE  SerialInv'
<1>1. /\ pc \in [Sessions -> Places] /\ req \in [Sessions -> Requests \cup {None}]
      /\ pc[s] # "idle" => req[s] \in Requests
  BY DEF SerialInv, ReviewInv, TypeOK, Loaded
\* A request that goes on, on an offer no other came to meanwhile, was up to date.
<1>10. pc[s] # "idle" /\ req'[s].offer = req[s].offer /\ Apart(s)' => UpToDate(s)
  <2>1. overlapped \subseteq overlapped'
    BY DEF StepOf
  <2> QED BY <2>1 DEF Apart, SerialInv
<1>2. ASSUME NEW c \in Commands, StartRecord(s, c) PROVE SerialInv'
  <2>1. PICK r : r = [NoRequest(c.offer, review[c.offer]) EXCEPT !.command = c]
    OBVIOUS
  <2>2. r.offer = c.offer /\ r.command = c /\ r.review = review[c.offer]
    BY <2>1 DEF NoRequest
  <2>3. pc'[s] = "deciding" /\ req'[s] = r /\ UNCHANGED tables
    BY <1>1, <1>2, <2>1 DEF StartRecord, GoTo
  <2>4. c.action \in SupportedReviewActions
    BY <1>2 DEF StartRecord, ValidDecision
  <2>5. UpToDate(s)'
    BY <2>2, <2>3, <2>4 DEF UpToDate, tables, Recording, RowRead, DecisionRead
  <2> QED BY <2>3, <2>5, SerialReading
<1>3. CASE ReadLatest(s)
  <2>1. PICK r : r = [req[s] EXCEPT !.latest = LatestIndex(decisions, req[s].offer)]
    OBVIOUS
  <2>2. /\ r.offer = req[s].offer /\ r.command = req[s].command /\ r.review = req[s].review
        /\ r.latest = LatestIndex(decisions, r.offer)
    BY <1>1, <1>3, <2>1 DEF Requests, ReadLatest
  <2>3. pc'[s] = "latest read" /\ req'[s] = r /\ UNCHANGED tables
    BY <1>1, <1>3, <2>1 DEF ReadLatest, GoTo
  <2>5. ASSUME Apart(s)' PROVE UpToDate(s)'
    <3>1. UpToDate(s)
      BY <1>3, <1>10, <2>2, <2>3, <2>5 DEF ReadLatest
    <3>2. req[s].review = review[req[s].offer] /\ req[s].command.action \in SupportedReviewActions
      BY <1>1, <1>3, <3>1 DEF ReadLatest, UpToDate, Recording
    <3> QED BY <2>2, <2>3, <3>2 DEF UpToDate, tables, RowRead, DecisionRead
  <2> QED BY <2>3, <2>5, SerialReading
<1>4. CASE FindExisting(s)
  <2>1. UNCHANGED tables /\ (End(s) \/ (pc'[s] = "recording" /\ req' = req))
    BY <1>1, <1>4 DEF FindExisting, GoTo
  <2>2. CASE End(s)
    BY <2>1, <2>2, SerialAbandoned
  <2>3. CASE pc'[s] = "recording" /\ req' = req
    <3>1. ASSUME Apart(s)' PROVE UpToDate(s)'
      <4>1. UpToDate(s)
        BY <1>4, <1>10, <2>3, <3>1 DEF FindExisting
      <4> QED BY <1>1, <1>4, <2>1, <2>3, <4>1
                 DEF FindExisting, UpToDate, tables, Recording, RowRead, DecisionRead
    <3> QED BY <2>1, <3>1, SerialReading
  <2> QED BY <2>1, <2>2, <2>3
<1>5. ASSUME NEW o \in Offers, NEW by \in Operators, StartApply(s, o, by) PROVE SerialInv'
  <2>1. PICK r : r = [NoRequest(o, review[o]) EXCEPT !.by = by]
    OBVIOUS
  <2>2. r.offer = o /\ r.review = review[o]
    BY <2>1 DEF NoRequest
  <2>3. pc'[s] = "applying" /\ req'[s] = r /\ UNCHANGED tables
    BY <1>1, <1>5, <2>1 DEF StartApply, GoTo
  <2>4. UpToDate(s)'
    BY <2>2, <2>3 DEF UpToDate, tables, Recording, RowRead, DecisionRead
  <2> QED BY <2>3, <2>4, SerialReading
<1>6. CASE ReadOffer(s)
  <2>1. PICK r : r = [req[s] EXCEPT !.row = offer[req[s].offer]]
    OBVIOUS
  <2>2. r.offer = req[s].offer /\ r.review = req[s].review /\ r.row = offer[r.offer]
    BY <1>1, <1>6, <2>1 DEF Requests, ReadOffer
  <2>3. pc'[s] = "offer read" /\ req'[s] = r /\ UNCHANGED tables
    BY <1>1, <1>6, <2>1 DEF ReadOffer, GoTo
  <2>5. ASSUME Apart(s)' PROVE UpToDate(s)'
    <3>1. UpToDate(s)
      BY <1>6, <1>10, <2>2, <2>3, <2>5 DEF ReadOffer
    <3>2. req[s].review = review[req[s].offer]
      BY <1>1, <1>6, <3>1 DEF ReadOffer, UpToDate
    <3> QED BY <2>2, <2>3, <3>2 DEF UpToDate, tables, Recording, RowRead, DecisionRead
  <2> QED BY <2>3, <2>5, SerialReading
<1>7. CASE ReadDecision(s)
  <2>1. PICK i : i = LatestIndex(decisions, req[s].offer)
    OBVIOUS
  <2>2. UNCHANGED tables
    BY <1>7 DEF ReadDecision
  <2>3. CASE End(s)
    BY <2>2, <2>3, SerialAbandoned
  <2>4. CASE Applicable(i, req[s]) /\ GoTo(s, "decision read") /\ req' = [req EXCEPT ![s].latest = i]
    <3>1. PICK r : r = [req[s] EXCEPT !.latest = i]
      OBVIOUS
    <3>2. /\ r.offer = req[s].offer /\ r.review = req[s].review /\ r.row = req[s].row
          /\ r.latest = i
      BY <1>1, <1>7, <3>1 DEF Requests, ReadDecision
    <3>3. pc'[s] = "decision read" /\ req'[s] = r
      BY <1>1, <2>4, <3>1 DEF GoTo
    <3>5. ~IsApplied(decisions[i])
      BY <2>4 DEF Applicable, IsApplied
    <3>6. ASSUME Apart(s)' PROVE UpToDate(s)'
      <4>1. UpToDate(s)
        BY <1>7, <1>10, <3>2, <3>3, <3>6 DEF ReadDecision
      <4>2. req[s].review = review[req[s].offer] /\ req[s].row = offer[req[s].offer]
        BY <1>1, <1>7, <4>1 DEF ReadDecision, UpToDate, RowRead
      <4> QED BY <2>1, <2>2, <3>2, <3>3, <3>5, <4>2
                 DEF UpToDate, tables, IsApplied, Recording, RowRead, DecisionRead
    <3> QED BY <2>2, <3>6, SerialReading
  <2> QED BY <1>7, <2>1, <2>3, <2>4 DEF ReadDecision
<1>8. CASE FindEvent(s)
  <2>1. pc'[s] \in {"event found", "event missing"} /\ req' = req /\ UNCHANGED tables
    BY <1>1, <1>8 DEF FindEvent, GoTo
  <2>2. ASSUME Apart(s)' PROVE UpToDate(s)'
    <3>1. UpToDate(s)
      BY <1>8, <1>10, <2>1, <2>2 DEF FindEvent
    <3> QED BY <1>1, <1>8, <2>1, <3>1
               DEF FindEvent, UpToDate, tables, IsApplied, Recording, RowRead, DecisionRead
  <2> QED BY <2>1, <2>2, SerialReading
<1>9. CASE Abort(s)
  BY <1>9, SerialAbandoned DEF Abort
<1> QED BY <1>2, <1>3, <1>4, <1>5, <1>6, <1>7, <1>8, <1>9

-----------------------------------------------------------------------------
(***************************************************************************)
(* Steps that commit, on the offers where requests came one at a time.     *)
(***************************************************************************)
\* The status StatusIsLatest asks for.
StatusOf(d) ==
  CASE IsApplied(d)                       -> "RESOLVED"
    [] ~IsApplied(d) /\ IsConfirmed(d)    -> "DECIDED"
    [] ~IsApplied(d) /\ ~IsConfirmed(d)   -> "DEFERRED"

\* An UPDATE that sets what was loaded, and is still there, leaves nothing undone.
LEMMA WrittenUpToDate ==
  ASSUME NEW new, NEW now
  PROVE  Written(new, now, now) = new
BY DEF Written

\* A consistent row stays consistent when a command is applied to it as it is.
LEMMA AppliedRowConsistent ==
  ASSUME NEW x \in Rows, NEW c \in Commands,
         x.payload = x.columns,
         \A f \in KeyFields : x.nomenclatureKey[f] = x.columns.fields[f]
  PROVE  LET row == UpdatedRow(x, x, RowAfter(x, c))
         IN  /\ row.payload = row.columns
             /\ \A f \in KeyFields : row.nomenclatureKey[f] = row.columns.fields[f]
<1>1. PICK a : a = Accepted(x.columns, c)
  OBVIOUS
<1>2. PICK fs : fs = [f \in ReviewChangeFields |->
                       IF f \in c.changes THEN c ELSE x.columns.fields[f]]
  OBVIOUS
<1>3. a = [requiresReview |-> FALSE, fields |-> fs]
  BY <1>1, <1>2 DEF Accepted
<1>4. PICK new : new = RowAfter(x, c)
  OBVIOUS
<1>5. /\ new.columns = a /\ new.payload = a
      /\ new.nomenclatureKey = IF c.changes \cap KeyFields = {} THEN x.nomenclatureKey
                               ELSE [f \in KeyFields |-> a.fields[f]]
  BY <1>1, <1>4 DEF RowAfter
<1>6. PICK row : row = UpdatedRow(x, x, new)
  OBVIOUS
<1>7. /\ row.columns = [requiresReview |-> a.requiresReview,
                        fields |-> [f \in ReviewChangeFields |-> a.fields[f]]]
      /\ row.payload = a
      /\ row.nomenclatureKey = new.nomenclatureKey
  BY <1>5, <1>6, WrittenUpToDate DEF UpdatedRow
<1>8. [f \in ReviewChangeFields |-> a.fields[f]] = fs
  BY <1>2, <1>3
<1>9. row.columns = a
  <2>1. a.requiresReview = FALSE
    BY <1>3
  <2>2. row.columns = [requiresReview |-> FALSE, fields |-> fs]
    BY Zenon, <1>7, <1>8, <2>1
  <2> QED BY Zenon, <1>3, <2>2
<1>10. KeyFields \subseteq ReviewChangeFields
  BY DEF KeyFields, ReviewChangeFields
<1>11. ASSUME NEW f \in KeyFields PROVE row.nomenclatureKey[f] = a.fields[f]
  <2>1. a.fields[f] = IF f \in c.changes THEN c ELSE x.columns.fields[f]
    BY <1>2, <1>3, <1>10
  <2>2. CASE c.changes \cap KeyFields = {}
    BY <1>5, <1>7, <2>1, <2>2
  <2>3. CASE c.changes \cap KeyFields # {}
    BY <1>5, <1>7, <2>3
  <2> QED BY <2>2, <2>3
<1>12. /\ row.payload = row.columns
       /\ \A f \in KeyFields : row.nomenclatureKey[f] = row.columns.fields[f]
  BY <1>7, <1>9, <1>11
<1> QED BY <1>4, <1>6, <1>12

\* A commit of s that touches only its own offer leaves every other request on an offer
\* of its own up to date.
TouchesOnly(o) ==
  /\ \A p \in Offers \ {o} : /\ review'[p] = review[p] /\ offer'[p] = offer[p]
                             /\ LatestIndex(decisions', p) = LatestIndex(decisions, p)
  /\ \A i \in DOMAIN decisions : OfferOf(decisions[i]) # o => decisions'[i] = decisions[i]

LEMMA SerialEnding ==
  ASSUME SerialInv, ReviewInv', NEW s \in Sessions, pc[s] # "idle", End(s), StepOf(s),
         TouchesOnly(req[s].offer), RowIsConsistent', StatusIsLatest', ChainIsLinear'
  PROVE  SerialInv'
<1>1. overlapped \subseteq overlapped' /\ Together' \subseteq overlapped'
  BY DEF StepOf
<1>2. pc'[s] = "idle"
  BY DEF End, GoTo, SerialInv, ReviewInv, TypeOK
<1>3. \A u \in Sessions : pc[u] # "idle" => req[u].offer \in Offers
  BY DEF SerialInv, ReviewInv, Loaded, Requests
<1>4. ASSUME NEW t \in Sessions, Apart(t)' PROVE UpToDate(t)'
  <2>1. t # s
    BY <1>2, <1>4 DEF Apart
  <2>2. pc'[t] = pc[t] /\ req'[t] = req[t]
    BY <2>1 DEF StepOf
  <2>3. Apart(t) /\ UpToDate(t)
    BY <1>1, <1>4, <2>2 DEF Apart, SerialInv
  <2>4. req[t].offer \in Offers \ {req[s].offer}
    BY <1>3, <2>1, <2>3 DEF Apart, Together, SerialInv
  <2>5. /\ review'[req[t].offer] = review[req[t].offer] /\ offer'[req[t].offer] = offer[req[t].offer]
        /\ LatestIndex(decisions', req[t].offer) = LatestIndex(decisions, req[t].offer)
    BY <2>4 DEF TouchesOnly
  <2>6. pc[t] \in DecisionRead => decisions'[req[t].latest] = decisions[req[t].latest]
    BY <2>4 DEF TouchesOnly, SerialInv, ReviewInv, Loaded, DecisionLoaded
  <2> QED BY <2>2, <2>3, <2>5, <2>6 DEF UpToDate, IsApplied
<1> QED BY <1>1, <1>4 DEF SerialInv

\* The newest decision on its offer is recorded, and its item gets its status.
LEMMA SerialCommitDecision ==
  ASSUME SerialInv, ReviewInv', NEW s \in Sessions, CommitDecision(s), StepOf(s)
  PROVE  SerialInv'
<1>1. End(s)
  BY DEF CommitDecision
<1>2. CASE UNCHANGED tables
  BY <1>1, <1>2, SerialAbandoned
<1>3. CASE KeyOf(req[s]) \notin KeysOf(decisions)
  <2>1. PICK r : r = req[s]
    OBVIOUS
  <2>2. /\ r \in Requests /\ r.offer \in Offers /\ r.review \in Reviews /\ r.latest \in Nat
        /\ ItemLoaded(r) /\ CommandLoaded(r)
    BY <2>1 DEF CommitDecision, SerialInv, ReviewInv, Loaded, Recording, Requests
  <2>3. r.offer \notin overlapped =>
           /\ r.review = review[r.offer] /\ r.command.action \in SupportedReviewActions
           /\ r.latest = LatestIndex(decisions, r.offer)
    BY <2>1 DEF CommitDecision, SerialInv, Apart, UpToDate, Recording
  <2>4. PICK d : d = [key |-> KeyOf(r), previous |-> r.latest, appliedBy |-> None]
    OBVIOUS
  <2>5. /\ d \in Decisions /\ d.previous = r.latest /\ ~IsApplied(d)
        /\ OfferOf(d) = r.offer
        /\ IsConfirmed(d) <=> r.command.action \in ConfirmedReviewActions
    BY <2>2, <2>4 DEF Decisions, Keys, KeyOf, IsApplied, OfferOf, IsConfirmed, CommandLoaded, Reviews
  <2>6. /\ decisions' = Append(decisions, d)
        /\ \E status : /\ review' = [review EXCEPT ![r.offer].status = status]
                       /\ r.offer \notin overlapped => status = StatusFor(r.command)
        /\ UNCHANGED offer
    <3>1. PICK status : status = Written(StatusFor(r.command), r.review.status, review[r.offer].status)
      OBVIOUS
    <3>2. decisions' = Append(decisions, d) /\ review' = [review EXCEPT ![r.offer].status = status]
          /\ UNCHANGED offer
      BY <1>3, <2>1, <2>4, <3>1 DEF CommitDecision
    <3>3. r.offer \notin overlapped => status = StatusFor(r.command)
      BY <2>3, <3>1, WrittenUpToDate
    <3> QED BY <3>2, <3>3
  <2>7. decisions \in Seq(Decisions) /\ review \in [Offers -> Reviews \cup {None}]
    BY DEF SerialInv, ReviewInv, TypeOK
  <2>8. PICK n : n = Len(decisions) + 1
    OBVIOUS
  <2>9. /\ DOMAIN decisions' = DOMAIN decisions \cup {n} /\ n \notin DOMAIN decisions
        /\ \A i \in DOMAIN decisions : decisions'[i] = decisions[i] /\ i < n
        /\ decisions'[n] = d
    BY <2>5, <2>6, <2>7, <2>8, AppendedDecision
  <2>10. n \in Nat /\ n # 0 /\ DOMAIN decisions = 1..(n - 1) /\ Len(decisions) = n - 1
    BY <2>7, <2>8, LenProperties
  <2>11. \A o : LatestIndex(decisions', o) = IF r.offer = o THEN n ELSE LatestIndex(decisions, o)
    BY <2>5, <2>6, <2>7, <2>8, LatestAppended
  <2>15. overlapped \subseteq overlapped'
    BY DEF StepOf
  <2>12. RowIsConsistent'
    BY <2>6, <2>15 DEF SerialInv, RowIsConsistent
  <2>13. StatusIsLatest'
    <3> SUFFICES ASSUME NEW o \in Offers \ overlapped, review'[o] # None,
                        LatestIndex(decisions', o) # 0
                 PROVE  review'[o].status = StatusOf(decisions'[LatestIndex(decisions', o)])
      BY <2>15 DEF StatusIsLatest, StatusOf, IsApplied, IsConfirmed
    <3>1. CASE o = r.offer
      <4>1. review'[o].status = StatusFor(r.command)
        BY <2>2, <2>6, <2>7, <3>1 DEF ItemLoaded, Reviews
      <4>2. decisions'[LatestIndex(decisions', o)] = d
        BY <2>9, <2>11, <3>1
      <4>3. r.command.action \in SupportedReviewActions
        BY <2>3, <3>1
      <4>4. StatusOf(d) = StatusFor(r.command)
        BY <2>2, <2>3, <2>5, <3>1, <4>3 DEF StatusOf, StatusFor, SupportedReviewActions, ConfirmedReviewActions
      <4> QED BY <4>1, <4>2, <4>4
    <3>2. CASE o # r.offer
      <4>1. LatestIndex(decisions', o) = LatestIndex(decisions, o) /\ review'[o] = review[o]
        BY <2>6, <2>7, <2>11, <3>2
      <4>2. review[o].status = StatusOf(decisions[LatestIndex(decisions, o)])
        BY <4>1 DEF SerialInv, StatusIsLatest, StatusOf
      <4>3. LatestIndex(decisions, o) \in DOMAIN decisions
        BY <2>7, <4>1, LatestIndexProperty
      <4> QED BY <2>9, <4>1, <4>2, <4>3
    <3> QED BY <3>1, <3>2
  <2>14. ChainIsLinear'
    <3> SUFFICES ASSUME NEW i \in DOMAIN decisions', OfferOf(decisions'[i]) \notin overlapped
                 PROVE  decisions'[i].previous =
                          LatestIndex(SubSeq(decisions', 1, i - 1), OfferOf(decisions'[i]))
      BY <2>15 DEF ChainIsLinear, OfferOf, LatestIndex
    <3>1. \A m \in 0..(n - 1) : SubSeq(decisions', 1, m) = SubSeq(decisions, 1, m)
      <4>1. decisions' \in Seq(Decisions)
        BY <2>5, <2>6, <2>7, AppendedDecision
      <4> QED BY <2>7, <2>9, <2>10, <4>1, SubSeqProperties
    <3>2. CASE i = n
      <4>1. SubSeq(decisions', 1, i - 1) = decisions
        BY <2>7, <2>10, <3>1, <3>2, SubSeqFull
      <4> QED BY <2>3, <2>5, <2>9, <3>2, <4>1
    <3>3. CASE i \in DOMAIN decisions
      <4>1. decisions[i].previous = LatestIndex(SubSeq(decisions, 1, i - 1), OfferOf(decisions[i]))
        BY <2>9, <3>3 DEF SerialInv, ChainIsLinear
      <4>2. i - 1 \in 0..(n - 1)
        BY <2>10, <3>3
      <4> QED BY <2>9, <3>1, <3>3, <4>1, <4>2
    <3> QED BY <2>9, <3>2, <3>3
  <2>16. TouchesOnly(r.offer)
    BY <2>6, <2>7, <2>9, <2>11 DEF TouchesOnly
  <2>17. pc[s] # "idle"
    BY DEF CommitDecision
  <2> QED BY <1>1, <2>1, <2>12, <2>13, <2>14, <2>16, <2>17, SerialEnding
<1> QED BY <1>2, <1>3 DEF CommitDecision

\* The newest decision is applied to the row as it is: one that was not applied yet.
LEMMA SerialCommitApply ==
  ASSUME SerialInv, ReviewInv', NEW s \in Sessions, CommitApply(s), StepOf(s)
  PROVE  SerialInv' /\ KeepsApplied
<1>1. End(s)
  BY DEF CommitApply
<1>2. CASE UNCHANGED tables
  <2>1. SerialInv'
    BY <1>1, <1>2, SerialAbandoned
  <2> QED BY <1>2, <2>1 DEF tables, KeepsApplied
<1>3. CASE ~ UNCHANGED tables
  <2>1. PICK r, i, c : r = req[s] /\ i = r.latest /\ c = decisions[i].key.command
    OBVIOUS
  <2>2. /\ r \in Requests /\ r.offer \in Offers /\ r.by \in Operators
        /\ ItemLoaded(r) /\ DecisionLoaded(r)
    BY <2>1 DEF CommitApply, SerialInv, ReviewInv, Loaded, Applying, RowRead, DecisionRead, Requests
  <2>3. r.offer \notin overlapped =>
           /\ r.review = review[r.offer] /\ r.row = offer[r.offer]
           /\ i = LatestIndex(decisions, r.offer) /\ ~IsApplied(decisions[i])
    BY <2>1 DEF CommitApply, SerialInv, Apart, UpToDate, RowRead, DecisionRead
  <2>4. /\ decisions \in Seq(Decisions)
        /\ review \in [Offers -> Reviews \cup {None}]
        /\ offer \in [Offers -> Rows]
    BY DEF SerialInv, ReviewInv, TypeOK
  <2>5. i \in DOMAIN decisions /\ decisions[i] \in Decisions /\ c \in Commands
    <3>1. i \in DOMAIN decisions
      BY <2>1, <2>2 DEF DecisionLoaded
    <3>2. decisions[i] \in Decisions
      BY <2>4, <3>1, ElementOfSeq, LenProperties
    <3> QED BY <2>1, <3>1, <3>2 DEF Decisions, Keys
  <2>6. PICK row, status : /\ row = UpdatedRow(offer[r.offer], r.row, RowAfter(r.row, c))
                           /\ status = Written("RESOLVED", r.review.status, review[r.offer].status)
    OBVIOUS
  <2>7. /\ offer' = [offer EXCEPT ![r.offer] = row]
        /\ review' = [review EXCEPT ![r.offer].status = status]
        /\ decisions' = [decisions EXCEPT ![i].appliedBy = r.by]
        /\ r.offer \notin overlapped => status = "RESOLVED"
    <3>1. /\ offer' = [offer EXCEPT ![r.offer] = UpdatedRow(@, r.row, RowAfter(r.row, c))]
          /\ review' = [review EXCEPT ![r.offer].status = Written("RESOLVED", r.review.status, @)]
          /\ decisions' = [decisions EXCEPT ![i].appliedBy = r.by]
      BY <1>3, <2>1 DEF CommitApply
    <3>2. r.offer \notin overlapped => status = "RESOLVED"
      BY <2>3, <2>6, WrittenUpToDate
    <3> QED BY <2>6, <3>1, <3>2
  <2>8. /\ DOMAIN decisions' = DOMAIN decisions
        /\ \A j \in DOMAIN decisions : /\ decisions'[j].key = decisions[j].key
                                       /\ decisions'[j].previous = decisions[j].previous
                                       /\ j # i => decisions'[j] = decisions[j]
        /\ IsApplied(decisions'[i])
        /\ decisions' \in Seq(Decisions)
    BY <2>2, <2>4, <2>5, <2>7, AppliedDecision
  <2>9. \A j \in DOMAIN decisions : OfferOf(decisions'[j]) = OfferOf(decisions[j])
    BY <2>8 DEF OfferOf
  <2>10. \A o : LatestIndex(decisions', o) = LatestIndex(decisions, o)
    BY <2>8, <2>9, SameLatest
  <2>15. overlapped \subseteq overlapped'
    BY DEF StepOf
  <2>11. RowIsConsistent'
    <3> SUFFICES ASSUME NEW o \in Offers \ overlapped
                 PROVE  /\ offer'[o].payload = offer'[o].columns
                        /\ \A f \in KeyFields : offer'[o].nomenclatureKey[f] = offer'[o].columns.fields[f]
      BY <2>15 DEF RowIsConsistent
    <3>1. /\ offer[o].payload = offer[o].columns
          /\ \A f \in KeyFields : offer[o].nomenclatureKey[f] = offer[o].columns.fields[f]
      BY DEF SerialInv, RowIsConsistent
    <3>2. CASE o = r.offer
      <4>1. r.row \in Rows /\ r.row = offer[o]
        BY <2>2, <2>3, <2>4, <3>2
      <4>2. /\ row.payload = row.columns
            /\ \A f \in KeyFields : row.nomenclatureKey[f] = row.columns.fields[f]
        <5>1. row = UpdatedRow(r.row, r.row, RowAfter(r.row, c))
          BY <2>6, <3>2, <4>1
        <5>2. /\ r.row.payload = r.row.columns
              /\ \A f \in KeyFields : r.row.nomenclatureKey[f] = r.row.columns.fields[f]
          BY <3>1, <4>1
        <5> QED BY <2>5, <4>1, <5>1, <5>2, AppliedRowConsistent
      <4> QED BY <2>4, <2>7, <3>2, <4>2
    <3>3. CASE o # r.offer
      BY <2>4, <2>7, <3>1, <3>3
    <3> QED BY <3>2, <3>3
  <2>12. StatusIsLatest'
    <3> SUFFICES ASSUME NEW o \in Offers \ overlapped, review'[o] # None,
                        LatestIndex(decisions', o) # 0
                 PROVE  review'[o].status = StatusOf(decisions'[LatestIndex(decisions', o)])
      BY <2>15 DEF StatusIsLatest, StatusOf, IsApplied, IsConfirmed
    <3>1. CASE o = r.offer
      <4>1. review'[o].status = "RESOLVED"
        BY <2>2, <2>4, <2>7, <3>1 DEF ItemLoaded, Reviews
      <4>2. LatestIndex(decisions', o) = i
        BY <2>3, <2>10, <3>1
      <4> QED BY <2>8, <4>1, <4>2 DEF StatusOf
    <3>2. CASE o # r.offer
      <4>1. LatestIndex(decisions', o) = LatestIndex(decisions, o) /\ review'[o] = review[o]
        BY <2>4, <2>7, <2>10, <3>2
      <4>2. review[o].status = StatusOf(decisions[LatestIndex(decisions, o)])
        BY <4>1 DEF SerialInv, StatusIsLatest, StatusOf
      <4>3. /\ LatestIndex(decisions, o) \in DOMAIN decisions
            /\ OfferOf(decisions[LatestIndex(decisions, o)]) = o
        BY <2>4, <4>1, LatestIndexProperty
      <4>4. LatestIndex(decisions, o) # i
        BY <2>1, <2>2, <3>2, <4>3 DEF DecisionLoaded
      <4> QED BY <2>8, <4>1, <4>2, <4>3, <4>4
    <3> QED BY <3>1, <3>2
  <2>13. ChainIsLinear'
    <3> SUFFICES ASSUME NEW j \in DOMAIN decisions, OfferOf(decisions[j]) \notin overlapped
                 PROVE  decisions'[j].previous =
                          LatestIndex(SubSeq(decisions', 1, j - 1), OfferOf(decisions'[j]))
      BY <2>8, <2>9, <2>15 DEF ChainIsLinear, OfferOf, LatestIndex
    <3>1. PICK m : m = j - 1
      OBVIOUS
    <3>2. DOMAIN decisions = 1..Len(decisions) /\ Len(decisions) \in Nat
      BY <2>4, LenProperties
    <3>3. m \in Nat /\ 1..m \subseteq DOMAIN decisions
      BY <3>1, <3>2
    <3>4. \A k \in 1..m : decisions[k] \in Decisions /\ decisions'[k] \in Decisions
      BY <2>4, <2>8, <3>2, <3>3, ElementOfSeq, LenProperties
    <3>5. PICK ds, es : ds = SubSeq(decisions, 1, m) /\ es = SubSeq(decisions', 1, m)
      OBVIOUS
    <3>6. /\ ds \in Seq(Decisions) /\ es \in Seq(Decisions) /\ Len(ds) = m /\ Len(es) = m
          /\ \A k \in 1..m : ds[k] = decisions[k] /\ es[k] = decisions'[k]
      BY <3>3, <3>4, <3>5, SubSeqProperties
    <3>7. DOMAIN ds = 1..m /\ DOMAIN es = 1..m
      BY <3>6, LenProperties
    <3>8. \A k \in DOMAIN ds : OfferOf(es[k]) = OfferOf(ds[k])
      BY <2>9, <3>3, <3>6, <3>7
    <3>9. LatestIndex(es, OfferOf(decisions[j])) = LatestIndex(ds, OfferOf(decisions[j]))
      BY <3>7, <3>8, SameLatest
    <3>10. decisions[j].previous = LatestIndex(ds, OfferOf(decisions[j]))
      BY <3>1, <3>5 DEF SerialInv, ChainIsLinear
    <3> QED BY <2>8, <2>9, <3>1, <3>5, <3>9, <3>10
  <2>14. KeepsApplied
    <3>1. OfferOf(decisions[i]) = r.offer
      BY <2>1, <2>2 DEF DecisionLoaded
    <3> QED BY <2>3, <2>8, <3>1 DEF KeepsApplied
  <2>16. TouchesOnly(r.offer)
    <3>1. OfferOf(decisions[i]) = r.offer
      BY <2>1, <2>2 DEF DecisionLoaded
    <3> QED BY <2>4, <2>7, <2>8, <2>10, <3>1 DEF TouchesOnly
  <2>17. pc[s] # "idle"
    BY DEF CommitApply
  <2> QED BY <1>1, <2>1, <2>11, <2>12, <2>13, <2>14, <2>16, <2>17, SerialEnding
<1> QED BY <1>2, <1>3

-----------------------------------------------------------------------------
\* With nothing decided, every row is as it was imported.
LEMMA InitSerial == OverlapInit => SerialInv
<1> SUFFICES ASSUME OverlapInit PROVE SerialInv
  OBVIOUS
<1> USE DEF OverlapInit
<1>1. ReviewInv
  BY InitReview
<1>2. decisions = <<>> /\ <<>> \in Seq(Decisions) /\ DOMAIN decisions = {}
  BY EmptySeq, LenProperties DEF Init
<1>3. \A o \in Offers : LatestIndex(decisions, o) = 0
  BY <1>2, NoLatest
<1>4. StatusIsLatest /\ ChainIsLinear
  BY <1>2, <1>3 DEF StatusIsLatest, ChainIsLinear
<1>5. RowIsConsistent
  <2>1. KeyFields \subseteq ReviewChangeFields
    BY DEF KeyFields, ReviewChangeFields
  <2>2. /\ ImportedRow.payload = ImportedRow.columns
        /\ \A f \in KeyFields : ImportedRow.nomenclatureKey[f] = ImportedRow.columns.fields[f]
    BY <2>1 DEF ImportedRow, NothingSet
  <2> QED BY <2>2 DEF Init, RowIsConsistent
<1>6. Together = {} /\ \A s \in Sessions : ~Apart(s)
  BY DEF Init, Together, Apart
<1> QED BY <1>1, <1>4, <1>5, <1>6 DEF SerialInv

\* The steps of SerialInv and AppliedOnceApart, for every action.
LEMMA NextSerial ==
  ASSUME SerialInv, [OverlapNext]_overlapVars
  PROVE  SerialInv' /\ KeepsApplied
<1>1. ReviewInv'
  BY NextReview DEF SerialInv, OverlapNext, overlapVars, vars
<1>2. CASE UNCHANGED overlapVars
  <2>1. RowIsConsistent' /\ StatusIsLatest' /\ ChainIsLinear'
    BY <1>2 DEF SerialInv, overlapVars, vars, RowIsConsistent, StatusIsLatest, ChainIsLinear
  <2>2. \A s \in Sessions : Apart(s)' => UpToDate(s)'
    BY <1>2 DEF SerialInv, overlapVars, vars, Apart, UpToDate, IsApplied
  <2>3. (Together \subseteq overlapped)'
    BY <1>2 DEF SerialInv, overlapVars, vars, Together
  <2> QED BY <1>1, <1>2, <2>1, <2>2, <2>3 DEF SerialInv, overlapVars, vars, KeepsApplied
<1>3. CASE OverlapNext
  <2>1. PICK s \in Sessions :
          \/ \/ \E c \in Commands : StartRecord(s, c)
             \/ ReadLatest(s)
             \/ FindExisting(s)
             \/ \E o \in Offers, by \in Operators : StartApply(s, o, by)
             \/ ReadOffer(s)
             \/ ReadDecision(s)
             \/ FindEvent(s)
             \/ Abort(s)
          \/ CommitDecision(s)
          \/ CommitApply(s)
    BY <1>3 DEF OverlapNext, Next
  <2>2. StepOf(s)
    <3>1. TypeOK /\ overlapped' = overlapped \cup Together'
      BY <1>3 DEF OverlapNext, SerialInv, ReviewInv
    <3> QED BY <2>1, <3>1, OthersStay
  <2>3. CASE CommitApply(s)
    BY <1>1, <2>2, <2>3, SerialCommitApply
  <2>4. CASE CommitDecision(s)
    <3>1. SerialInv'
      BY <1>1, <2>2, <2>4, SerialCommitDecision
    <3>2. \A j \in DOMAIN decisions : decisions'[j] = decisions[j]
      <4>1. decisions \in Seq(Decisions)
        BY DEF SerialInv, ReviewInv, TypeOK
      <4>2. UNCHANGED decisions \/ \E d : decisions' = Append(decisions, d)
        BY <2>4 DEF CommitDecision, tables
      <4> QED BY <4>1, <4>2
    <3> QED BY <3>1, <3>2 DEF KeepsApplied
  <2>5. CASE ~CommitApply(s) /\ ~CommitDecision(s)
    <3>1. SerialInv'
      BY <1>1, <2>1, <2>2, <2>5, SerialReadingSteps
    <3>2. UNCHANGED decisions
      BY <2>1, <2>5 DEF StartRecord, ReadLatest, FindExisting, StartApply, ReadOffer, ReadDecision,
                        FindEvent, Abort, tables
    <3> QED BY <3>1, <3>2 DEF KeepsApplied
  <2> QED BY <2>1, <2>3, <2>4, <2>5
<1> QED BY <1>2, <1>3

\* On an offer where requests come one at a time, what each has loaded is still true
\* when it commits, so the row, the status and the chain of decisions stay exact.
THEOREM SerialInvariant == OverlapSpec => []SerialInv
<1>1. SerialInv /\ [OverlapNext]_overlapVars => SerialInv'
  BY NextSerial
<1> QED BY <1>1, InitSerial, PTL DEF OverlapSpec

\* The history variable changes nothing of what the program does: what is proved of
\* Spec holds of OverlapSpec.
THEOREM OverlapIsHistory == OverlapSpec => Spec
<1>1. OverlapInit => Init
  BY DEF OverlapInit
<1>2. [OverlapNext]_overlapVars => [Next]_vars
  BY DEF OverlapNext, overlapVars
<1> QED BY <1>1, <1>2, PTL DEF Spec, OverlapSpec

\* The columns of an offer, their copy in payload_json and its nomenclature_key
\* agree after every review, as long as no two requests on that offer overlap.
THEOREM RowStaysConsistent == OverlapSpec => []RowIsConsistent
<1>1. SerialInv => RowIsConsistent
  BY DEF SerialInv
<1> QED BY <1>1, SerialInvariant, PTL

\* A review item has the status of the newest decision on its offer, as long as no two
\* requests on that offer overlap.
THEOREM StatusStaysLatest == OverlapSpec => []StatusIsLatest
<1>1. SerialInv => StatusIsLatest
  BY DEF SerialInv
<1> QED BY <1>1, SerialInvariant, PTL

\* previous_decision_id chains the decisions on an offer one by one, as long as no two
\* requests on that offer overlap.
THEOREM ChainStaysLinear == OverlapSpec => []ChainIsLinear
<1>1. SerialInv => ChainIsLinear
  BY DEF SerialInv
<1> QED BY <1>1, SerialInvariant, PTL

\* apply_review_decision never applies a decision over again, as long as no two
\* requests on its offer overlap.
THEOREM AppliedOnlyOnce == OverlapSpec => AppliedOnceApart
<1>1. SerialInv /\ [OverlapNext]_overlapVars => [KeepsApplied]_decisions
  BY NextSerial
<1> QED BY <1>1, SerialInvariant, PTL DEF OverlapSpec, AppliedOnceApart
=============================================================================
