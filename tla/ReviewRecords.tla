---------------------------- MODULE ReviewRecords ----------------------------
(***************************************************************************)
(* The data of the operator's review of parsed price-list rows             *)
(* (src/price_parser/operator_review.py) and the pure functions on it:     *)
(* which decision is the latest for an offer, and what applying the        *)
(* decisions to the parsed rows produces.                                  *)
(*                                                                         *)
(* A command is what the operator types (offer, action, note, changes,     *)
(* rule).  The idempotency key of a decision is the SHA-256 of the command *)
(* and the fingerprint of the source row; a hash is modelled by the value  *)
(* it is computed from.                                                    *)
(***************************************************************************)
EXTENDS Naturals, Sequences

CONSTANTS
  Offers,        \* identifiers of the parsed rows ("id")
  Fingerprints,  \* contents of a source row, as review_item_fingerprint sees it
  Reasons,       \* review reasons the parser may attach to a row
  Commands,      \* the command lines operators may give, valid or not
  None

ASSUME CommandsAssumption == \A c \in Commands : c.offer \in Offers

SupportedActions == {"ACCEPT_AS_IS", "UPDATE_FIELDS", "DEFER"}
ConfirmedActions == {"ACCEPT_AS_IS", "UPDATE_FIELDS"}
AllowedChangeFields ==
  {"profile", "grade", "dim1", "dim2", "dim3", "display_name", "comment",
   "quantity_value", "quantity_unit", "dim1_display", "dim1_unit", "dim1_role"}

\* The checks record_decision makes before it looks at the journal: a known
\* action, operator and comment given (together the note), and changes exactly
\* for UPDATE_FIELDS, of permitted fields, under a versioned rule.
ValidCommand(c) ==
  /\ c.action \in SupportedActions
  /\ c.note # ""
  /\ c.changes # {} <=> c.action = "UPDATE_FIELDS"
  /\ c.changes \subseteq AllowedChangeFields
  /\ c.action = "UPDATE_FIELDS" => c.rule # ""

Keys  == [command : Commands, fp : Fingerprints]
Items == [fp : Fingerprints, reasons : SUBSET Reasons]

\* A line of the decision journal.  "reasons" is resolved_review_reasons, the
\* reasons the operator saw; "previous" is previous_decision_id.
Decisions == [key : Keys, reasons : SUBSET Reasons, previous : Keys \cup {None}]

OfferOf(k)     == k.command.offer
IsConfirmed(d) == d.key.command.action \in ConfirmedActions

\* The place in journal s of the last decision on offer o, 0 if there is none.
LatestIndex(s, o) ==
  LET places == {i \in DOMAIN s : OfferOf(s[i].key) = o}
  IN  IF places = {} THEN 0
      ELSE CHOOSE i \in places : \A j \in places : j <= i

\* Mutant: the previous record itself is stored instead of its id.
PreviousRecord(s, o) ==
  IF LatestIndex(s, o) = 0 THEN None ELSE s[LatestIndex(s, o)]

PreviousKey(s, o) ==
  IF LatestIndex(s, o) = 0 THEN None ELSE s[LatestIndex(s, o)].key

KeysOf(s) == {s[i].key : i \in DOMAIN s}

\* No decision id occurs twice: _load_decisions refuses a journal where one does.
UniqueIds(s) == \A i, j \in DOMAIN s : s[i].key = s[j].key => i = j

-----------------------------------------------------------------------------
(***************************************************************************)
(* Applying decisions.  A row of the reviewed output keeps the reasons its *)
(* source row raised, those still open, and the decision applied to it.    *)
(***************************************************************************)
Rows == [fp : Fingerprints, raised : SUBSET Reasons, open : SUBSET Reasons,
         decision : Keys \cup {None}]

\* "No row", "no decision": not the value of any.
ASSUME NoneAssumption == None \notin Keys \cup Items \cup Rows

RequiresReview(row) == row.open # {}

UntouchedRow(item) ==
  [fp |-> item.fp, raised |-> item.reasons, open |-> item.reasons, decision |-> None]

\* Mutant: a decision closes every reason of the row, seen or not.
ClosesEveryReason(item, d) ==
  [UntouchedRow(item) EXCEPT !.open = {}, !.decision = d.key]

ApplyDecisionToItem(item, d) ==
  [UntouchedRow(item) EXCEPT !.open = item.reasons \ d.reasons, !.decision = d.key]

ConfirmedDecision(s, o) ==
  LatestIndex(s, o) # 0 /\ IsConfirmed(s[LatestIndex(s, o)])

\* What becomes of the latest confirmed decision d on a row that is now `item`.
ApplicationStatus(item, d) ==
  IF item = None THEN "SKIPPED_ITEM_NOT_FOUND"
  ELSE IF item.fp # d.key.fp THEN "SKIPPED_SOURCE_MISMATCH"
  ELSE "APPLIED"

Statuses == {"APPLIED", "SKIPPED_SOURCE_MISMATCH", "SKIPPED_ITEM_NOT_FOUND"}

\* An audit row, identified by its application_id: decision, the fingerprint
\* found, and the status.
Applications == [decision : Keys, fp : Fingerprints \cup {None}, status : Statuses]

OutputRow(item, s, o) ==
  IF item = None THEN None
  ELSE IF /\ ConfirmedDecision(s, o)
          /\ ApplicationStatus(item, s[LatestIndex(s, o)]) = "APPLIED"
       THEN ApplyDecisionToItem(item, s[LatestIndex(s, o)])
       ELSE UntouchedRow(item)

OutputRows(items, s) == [o \in Offers |-> OutputRow(items[o], s, o)]

ApplicationsOf(items, s) ==
  { LET d == s[LatestIndex(s, o)]
    IN  [decision |-> d.key,
         fp       |-> IF items[o] = None THEN None ELSE items[o].fp,
         status   |-> ApplicationStatus(items[o], d)] :
    o \in {x \in Offers : ConfirmedDecision(s, x)} }

\* Mutant: a row leaves the queue as soon as a decision was applied to it.
UndecidedRows(rows) ==
  [o \in Offers |-> IF /\ rows[o] # None
                       /\ RequiresReview(rows[o])
                       /\ rows[o].decision = None
                    THEN rows[o] ELSE None]

\* The rows that stay in the review queue.
RemainingOf(rows) ==
  [o \in Offers |-> IF rows[o] # None /\ RequiresReview(rows[o]) THEN rows[o] ELSE None]

-----------------------------------------------------------------------------
\* How list_review_items shows the state of an offer of the queue.
ReviewState(s, o) ==
  IF LatestIndex(s, o) = 0 THEN "UNRESOLVED"
  ELSE IF IsConfirmed(s[LatestIndex(s, o)]) THEN "RESOLVED"
  ELSE "DEFERRED"
=============================================================================
