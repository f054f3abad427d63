--------------------------- MODULE PersistedReview ---------------------------
(***************************************************************************)
(* The operator's review in the database (src/price_parser/db/services.py): *)
(* record_review_decision and apply_review_decision, each request with a   *)
(* session of its own.  A request reads with one SELECT after another,     *)
(* each seeing what is committed by then, and writes in one transaction at *)
(* its end: its INSERTs fail on a taken unique key, and its UPDATEs write  *)
(* only the attributes whose new value differs from the one it loaded.     *)
(*                                                                         *)
(* decided_at is the place of a decision in `decisions`; the value an      *)
(* UPDATE_FIELDS command gives to a field is the command itself.           *)
(***************************************************************************)
EXTENDS Naturals, Sequences

CONSTANTS
  Offers,        \* the imported offers
  Fingerprints,  \* contents of a source row, as review_item_fingerprint sees it
  Commands,      \* what operators may send, valid or not
  Sessions,      \* requests in progress at the same time
  Operators,     \* who asks for a decision to be applied ("applied_by")
  None,
  MaxDecisions   \* bound: no new command is begun once there are this many decisions

ASSUME OffersOfCommands == \A c \in Commands : c.offer \in Offers

SupportedReviewActions == {"ACCEPT_AS_IS", "UPDATE_FIELDS", "DEFER"}
ConfirmedReviewActions == {"ACCEPT_AS_IS", "UPDATE_FIELDS"}
ReviewChangeFields ==
  {"profile", "grade", "dim1", "dim2", "dim3", "display_name", "comment",
   "quantity_value", "quantity_unit", "dim1_unit"}

\* The fields nomenclature_key is computed from.
KeyFields == {"profile", "grade", "dim1", "dim2", "dim3"}

Statuses == {"OPEN", "DEFERRED", "DECIDED", "RESOLVED"}
Reviews  == [status : Statuses, fp : Fingerprints]

\* An offer: its columns, the copy of them in payload_json, its nomenclature_key.
\* A field holds the command that set it, None while it is as parsed.
Values   == Commands \cup {None}
Fields   == [ReviewChangeFields -> Values]
Contents == [requiresReview : BOOLEAN, fields : Fields]
Rows     == [columns : Contents, payload : Contents, nomenclatureKey : [KeyFields -> Values]]

\* idempotency_key: a hash of the command and of the source.
Keys      == [command : Commands, fp : Fingerprints]
Decisions == [key : Keys, previous : Nat, appliedBy : Operators \cup {None}]
Events    == [type : {"RECORDED", "APPLIED"}, key : Keys]

ASSUME NoneIsNothing == None \notin Operators \cup Commands \cup Reviews

VARIABLES
  review,     \* review_items: the item of an offer, None if it has none
  offer,      \* offers
  decisions,  \* review_decisions, by decided_at
  audit,      \* audit_events of the review
  pc,         \* where each request is
  req         \* what it was asked and has loaded

tables == <<review, offer, decisions, audit>>
vars   == <<review, offer, decisions, audit, pc, req>>

NothingSet  == [f \in ReviewChangeFields |-> None]
ImportedRow ==
  [columns |-> [requiresReview |-> TRUE, fields |-> NothingSet],
   payload |-> [requiresReview |-> TRUE, fields |-> NothingSet],
   nomenclatureKey |-> [f \in KeyFields |-> None]]

\* latest: 0, or the place of the decision loaded; row, review: as loaded.
NoRequest(o, r) ==
  [offer |-> o, command |-> None, by |-> None, review |-> r, row |-> ImportedRow, latest |-> 0]

\* After an import that left something to review.
Init ==
  /\ review \in [Offers -> [status : {"OPEN"}, fp : Fingerprints] \cup {None}]
  /\ \E o \in Offers : review[o] # None
  /\ offer = [o \in Offers |-> ImportedRow]
  /\ decisions = <<>>
  /\ audit = {}
  /\ pc = [s \in Sessions |-> "idle"]
  /\ req = [s \in Sessions |-> None]

-----------------------------------------------------------------------------
OfferOf(d)     == d.key.command.offer
IsConfirmed(d) == d.key.command.action \in ConfirmedReviewActions
KeysOf(ds)     == {ds[i].key : i \in DOMAIN ds}

\* Mutant: the newest decision on any offer.
LatestOfAny(ds, o) == Len(ds)

\* ORDER BY decided_at DESC LIMIT 1: the place of the newest decision on o, or 0.
LatestIndex(ds, o) ==
  LET places == {i \in DOMAIN ds : OfferOf(ds[i]) = o}
  IN  IF places = {} THEN 0
      ELSE CHOOSE i \in places : \A j \in places : j <= i

Recorded(k) == [type |-> "RECORDED", key |-> k]

\* Mutant: both events of a decision get the same idempotency key.
SharedEvent(k) == Recorded(k)

Applied(k) == [type |-> "APPLIED", key |-> k]

\* What record_review_decision accepts.
ValidDecision(c) ==
  /\ c.action \in SupportedReviewActions
  /\ c.note # ""
  /\ c.changes # {} <=> c.action = "UPDATE_FIELDS"
  /\ c.changes \subseteq ReviewChangeFields
  /\ c.action = "UPDATE_FIELDS" => c.rule # ""

\* Mutant: the source is left out of the idempotency key.
KeyWithoutSource(r) == [command |-> r.command, fp |-> None]

KeyOf(r) == [command |-> r.command, fp |-> r.review.fp]

GoTo(s, place) == pc' = [pc EXCEPT ![s] = place]

\* The request is answered or raises; a session that has not committed leaves
\* nothing behind.
End(s) == GoTo(s, "idle") /\ req' = [req EXCEPT ![s] = None]

-----------------------------------------------------------------------------
(***************************************************************************)
(* record_review_decision                                                  *)
(***************************************************************************)
StartRecord(s, c) ==
  /\ pc[s] = "idle"
  /\ \/ Len(decisions) < MaxDecisions
     \/ c \in {decisions[i].key.command : i \in DOMAIN decisions}   \* sent again
  /\ review[c.offer] # None
  /\ ValidDecision(c)
  /\ GoTo(s, "deciding")
  /\ req' = [req EXCEPT ![s] = [NoRequest(c.offer, review[c.offer]) EXCEPT !.command = c]]
  /\ UNCHANGED tables

\* Mutant: the previous decision is not looked up.
LatestNotRead(s) ==
  /\ pc[s] = "deciding"
  /\ GoTo(s, "latest read")
  /\ UNCHANGED <<tables, req>>

ReadLatest(s) ==
  /\ pc[s] = "deciding"
  /\ GoTo(s, "latest read")
  /\ req' = [req EXCEPT ![s].latest = LatestIndex(decisions, req[s].offer)]
  /\ UNCHANGED tables

\* The same decision, however old, answers the request: nothing changes.
FindExisting(s) ==
  /\ pc[s] = "latest read"
  /\ IF KeyOf(req[s]) \in KeysOf(decisions)
     THEN End(s)
     ELSE GoTo(s, "recording") /\ UNCHANGED req
  /\ UNCHANGED tables

\* Mutant: a deferred decision leaves the status as it is.
StatusKeptOnDefer(c) == IF c.action = "DEFER" THEN "OPEN" ELSE "DECIDED"

\* Mutant: every decision, deferred or not, makes the item DECIDED.
DeferIsDecided(c) == "DECIDED"

\* The status a recorded command gives the review item.
StatusFor(c) == IF c.action = "DEFER" THEN "DEFERRED" ELSE "DECIDED"

\* An attribute is written if the value set differs from the one loaded.
Written(new, loaded, now) == IF new # loaded THEN new ELSE now

CommitDecision(s) ==
  /\ pc[s] = "recording"
  /\ IF KeyOf(req[s]) \in KeysOf(decisions)
     THEN UNCHANGED tables                        \* IntegrityError
     ELSE LET r == req[s]
              status == Written(StatusFor(r.command), r.review.status, review[r.offer].status)
          IN  /\ decisions' = Append(decisions, [key       |-> KeyOf(r),
                                                 previous  |-> r.latest,
                                                 appliedBy |-> None])
              /\ review' = [review EXCEPT ![r.offer].status = status]
              /\ audit' = audit \cup {Recorded(KeyOf(r))}
              /\ UNCHANGED offer
  /\ End(s)

-----------------------------------------------------------------------------
(***************************************************************************)
(* apply_review_decision                                                   *)
(***************************************************************************)
StartApply(s, o, by) ==
  /\ pc[s] = "idle"
  /\ review[o] # None
  /\ GoTo(s, "applying")
  /\ req' = [req EXCEPT ![s] = [NoRequest(o, review[o]) EXCEPT !.by = by]]
  /\ UNCHANGED tables

ReadOffer(s) ==
  /\ pc[s] = "applying"
  /\ GoTo(s, "offer read")
  /\ req' = [req EXCEPT ![s].row = offer[req[s].offer]]
  /\ UNCHANGED tables

\* Mutant: the latest decision is applied whatever its status.
EvenDeferred(i, r) ==
  /\ i # 0
  /\ decisions[i].key.fp = r.review.fp
  /\ decisions[i].appliedBy = None

\* Mutant: a decision that was applied already is applied again.
EvenApplied(i, r) ==
  /\ i # 0
  /\ IsConfirmed(decisions[i])
  /\ decisions[i].key.fp = r.review.fp

\* The decision apply_review_decision goes on with.
Applicable(i, r) ==
  /\ i # 0
  /\ IsConfirmed(decisions[i])
  /\ decisions[i].key.fp = r.review.fp
  /\ decisions[i].appliedBy = None

ReadDecision(s) ==
  /\ pc[s] = "offer read"
  /\ LET i == LatestIndex(decisions, req[s].offer)
     IN  IF Applicable(i, req[s])
         THEN GoTo(s, "decision read") /\ req' = [req EXCEPT ![s].latest = i]
         ELSE End(s)
  /\ UNCHANGED tables

\* _append_audit looks for the event before it adds one.
FindEvent(s) ==
  /\ pc[s] = "decision read"
  /\ GoTo(s, IF Applied(decisions[req[s].latest].key) \in audit
             THEN "event found" ELSE "event missing")
  /\ UNCHANGED <<tables, req>>

\* The contents of a row once command c is applied to what was loaded.
Accepted(contents, c) ==
  [requiresReview |-> FALSE,
   fields |-> [f \in ReviewChangeFields |-> IF f \in c.changes THEN c ELSE contents.fields[f]]]

\* Mutant: nomenclature_key is left as it was.
KeyNotRefreshed(row, c) ==
  [row EXCEPT !.columns = Accepted(row.columns, c), !.payload = Accepted(row.payload, c)]

\* The row with c applied, computed from the row as it was loaded.
RowAfter(row, c) ==
  LET columns == Accepted(row.columns, c)
  IN  [columns |-> columns,
       payload |-> Accepted(row.payload, c),
       nomenclatureKey |-> IF c.changes \cap KeyFields = {} THEN row.nomenclatureKey
                           ELSE [f \in KeyFields |-> columns.fields[f]]]

\* The row after the UPDATE: each column on its own, payload_json and the key whole.
UpdatedRow(now, loaded, new) ==
  [columns |->
     [requiresReview |-> Written(new.columns.requiresReview, loaded.columns.requiresReview,
                                 now.columns.requiresReview),
      fields |-> [f \in ReviewChangeFields |->
                    Written(new.columns.fields[f], loaded.columns.fields[f],
                            now.columns.fields[f])]],
   payload |-> Written(new.payload, loaded.payload, now.payload),
   nomenclatureKey |-> Written(new.nomenclatureKey, loaded.nomenclatureKey,
                               now.nomenclatureKey)]

CommitApply(s) ==
  /\ pc[s] \in {"event found", "event missing"}
  /\ LET r == req[s]
         k == decisions[r.latest].key
     IN  IF pc[s] = "event missing" /\ Applied(k) \in audit
         THEN UNCHANGED tables                    \* IntegrityError
         ELSE /\ offer' = [offer EXCEPT ![r.offer] =
                             UpdatedRow(@, r.row, RowAfter(r.row, k.command))]
              /\ review' = [review EXCEPT ![r.offer].status =
                              Written("RESOLVED", r.review.status, @)]
              /\ decisions' = [decisions EXCEPT ![r.latest].appliedBy = r.by]
              /\ audit' = audit \cup {Applied(k)}
  /\ End(s)

\* The connection or the process is lost before the commit.
Abort(s) ==
  /\ pc[s] # "idle"
  /\ End(s)
  /\ UNCHANGED tables

Next ==
  \E s \in Sessions :
    \/ \E c \in Commands : StartRecord(s, c)
    \/ ReadLatest(s)
    \/ FindExisting(s)
    \/ CommitDecision(s)
    \/ \E o \in Offers, by \in Operators : StartApply(s, o, by)
    \/ ReadOffer(s)
    \/ ReadDecision(s)
    \/ FindEvent(s)
    \/ CommitApply(s)
    \/ Abort(s)

Spec == Init /\ [][Next]_vars

-----------------------------------------------------------------------------
(***************************************************************************)
(* Properties that hold however requests interleave.                       *)
(***************************************************************************)
Places == {"idle", "deciding", "latest read", "recording", "applying", "offer read",
           "decision read", "event found", "event missing"}

Requests ==
  [offer : Offers, command : Values, by : Operators \cup {None}, review : Reviews,
   row : Rows, latest : Nat]

TypeOK ==
  /\ review \in [Offers -> Reviews \cup {None}]
  /\ offer \in [Offers -> Rows]
  /\ decisions \in Seq(Decisions)
  /\ audit \subseteq Events
  /\ pc \in [Sessions -> Places]
  /\ req \in [Sessions -> Requests \cup {None}]

IsApplied(d) == d.appliedBy # None

\* The audit tells exactly what the tables hold: one event for each decision
\* recorded and one for each applied, whatever requests raced or were cut off.
AuditTrail ==
  \A e \in Events :
    e \in audit <=> \E i \in DOMAIN decisions :
                      /\ decisions[i].key = e.key
                      /\ e.type = "APPLIED" => IsApplied(decisions[i])

\* An item is OPEN exactly until a decision on its offer is recorded, it is
\* RESOLVED only if one was applied, and the offer stops requiring review
\* exactly when one was.
StatusFollowsDecisions ==
  \A o \in Offers : review[o] # None =>
    LET applied == {i \in DOMAIN decisions : OfferOf(decisions[i]) = o /\ IsApplied(decisions[i])}
    IN  /\ review[o].status = "OPEN" <=> LatestIndex(decisions, o) = 0
        /\ review[o].status = "RESOLVED" => applied # {}
        /\ offer[o].columns.requiresReview <=> applied = {}

\* Journal ds holds an applied decision that sets field f of o by command c.
DecidedIn(ds, o, fp, f, c) ==
  \E i \in DOMAIN ds :
    /\ ds[i].key = [command |-> c, fp |-> fp]
    /\ OfferOf(ds[i]) = o
    /\ IsConfirmed(ds[i]) /\ IsApplied(ds[i])
    /\ f \in c.changes

\* A row holds only values that decisions of ds on offer o account for.
RowDecided(ds, o, fp, row) ==
  \A f \in ReviewChangeFields :
    \A c \in {row.columns.fields[f], row.payload.fields[f]} \ {None} : DecidedIn(ds, o, fp, f, c)

\* A field differs from what was parsed only where a confirmed and applied
\* decision on this very offer and source changed it, in the columns as in the
\* payload.
FieldsAreDecided ==
  \A o \in Offers : RowDecided(decisions, o, review[o].fp, offer[o])

\* Only confirmed decisions are ever applied, no decision is stored twice, and
\* previous_decision_id names an earlier decision on the same offer.
DecisionsAreSound ==
  /\ \A i, j \in DOMAIN decisions : decisions[i].key = decisions[j].key => i = j
  /\ \A i \in DOMAIN decisions :
       /\ IsApplied(decisions[i]) => IsConfirmed(decisions[i])
       /\ decisions[i].previous < i
       /\ decisions[i].previous # 0 =>
            OfferOf(decisions[decisions[i].previous]) = OfferOf(decisions[i])

-----------------------------------------------------------------------------
\* Not so (docs and tests say that it is).  Applying is idempotent: a decision applied once is answered, never applied
\* over again by whoever asks next.
AppliedOnce ==
  [][\A i \in DOMAIN decisions :
       IsApplied(decisions[i]) => decisions'[i].appliedBy = decisions[i].appliedBy]_decisions

-----------------------------------------------------------------------------
(***************************************************************************)
(* The inductive invariant behind the properties that hold however         *)
(* requests interleave: what a request has loaded may be out of date when  *)
(* it commits, but only in ways that can no longer do harm.                *)
(***************************************************************************)
Recording    == {"deciding", "latest read", "recording"}
DecisionRead == {"decision read", "event found", "event missing"}
RowRead      == {"offer read"} \cup DecisionRead
Applying     == {"applying"} \cup RowRead

\* The review item a request loaded is still there, with the same source, and
\* it has not been opened again.
ItemLoaded(r) ==
  /\ review[r.offer] # None
  /\ r.review.fp = review[r.offer].fp
  /\ r.review.status # "OPEN" => review[r.offer].status # "OPEN"

CommandLoaded(r) ==
  /\ r.command \in Commands
  /\ r.command.offer = r.offer
  /\ r.latest # 0 => r.latest \in DOMAIN decisions /\ OfferOf(decisions[r.latest]) = r.offer

RowLoaded(r) ==
  /\ offer[r.offer].columns.requiresReview => r.row.columns.requiresReview
  /\ RowDecided(decisions, r.offer, r.review.fp, r.row)

DecisionLoaded(r) ==
  /\ r.latest \in DOMAIN decisions
  /\ OfferOf(decisions[r.latest]) = r.offer
  /\ IsConfirmed(decisions[r.latest])
  /\ decisions[r.latest].key.fp = r.review.fp

Loaded(s) ==
  /\ pc[s] # "idle" => req[s] \in Requests /\ ItemLoaded(req[s])
  /\ pc[s] \in Recording => CommandLoaded(req[s])
  /\ pc[s] \in Applying => req[s].by \in Operators
  /\ pc[s] \in RowRead => RowLoaded(req[s])
  /\ pc[s] \in DecisionRead => DecisionLoaded(req[s])

ReviewInv ==
  /\ TypeOK
  /\ AuditTrail
  /\ StatusFollowsDecisions
  /\ FieldsAreDecided
  /\ DecisionsAreSound
  /\ \A s \in Sessions : Loaded(s)

=============================================================================
