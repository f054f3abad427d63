------------------------------ MODULE LlmRows ------------------------------
(***************************************************************************)
(* What becomes of the rows a language model answers: the guardrails       *)
(* (src/price_parser/llm/safe_pipeline.py), the reconciliation of its      *)
(* decision (llm/result_reconciliation.py) and the application to the      *)
(* items (llm/application.py).                                             *)
(*                                                                         *)
(* A row of an answer: [id, decision, values, evidence, confidence, basis, *)
(* research, warnings].  Its evidence is a set of [field, quote]; a quote  *)
(* maps each field to the values that may be read from it.  The warning    *)
(* FalseConflict is the one that only says the grade is written otherwise. *)
(***************************************************************************)
EXTENDS ItemParsing, FiniteSets

CONSTANTS
  SpaceNormal(_),  \* normalize_space of a source id
  Grades           \* the texts a grade is written as, by the parser or by a model

\* normalize_grade leaves alone what it wrote, and writes ASSUMED for an empty text
\* only.  Grades has no texts that begin or end in a bracket, a comma or a semicolon:
\* normalize_grade takes the outer ones off first, and a second time the inner ones.
ASSUME GradesAssumption ==
  \A g \in Grades : NormalGrade(NormalGrade(g)) = NormalGrade(g) /\ NormalGrade(g) # ASSUMED

FalseConflict == "false grade conflict"
MinimumConfidence == 80
Unverified == {"MODEL_KNOWLEDGE", "INSUFFICIENT"}

\* The row of the payload that shows an item to the model.  It is the folder command's:
\* the assignment's has neither the material nor the supplier's columns.
Shown(item) == [item.values EXCEPT !.grade = IF @ = ASSUMED THEN None ELSE @]

Key(field, v) == IF field = "grade" /\ v # None THEN GradeKey(v) ELSE v

ChangedFields(values, current) == {f \in Fields : Key(f, values[f]) # Key(f, current[f])}

-----------------------------------------------------------------------------
\* _evidence_present and _evidence_matches_value.
IsQuoted(quote, item) == quote \in item.quotes

ShowsValue(quote, field, v) ==
  /\ v # None
  /\ field = "profile" => v \in KnownProfiles
  /\ \E shown \in quote[field] : Key(field, v) = Key(field, shown)

\* Mutant: a quotation counts without the text it is taken from.
ConfirmsUnquoted(e, field, v, item) == e.field = field /\ ShowsValue(e.quote, field, v)

Confirms(e, field, v, item) ==
  e.field = field /\ IsQuoted(e.quote, item) /\ ShowsValue(e.quote, field, v)

ConfirmedFields(row, item) ==
  {f \in ChangedFields(row.values, Shown(item)) :
     \E e \in row.evidence : Confirms(e, f, row.values[f], item)}

\* Why a row is forced to REVIEW.
GuardReasons(row, item) ==
  LET changed == ChangedFields(row.values, Shown(item))
      If(reason, condition) == IF condition THEN {reason} ELSE {}
  IN  If("LOW_CONFIDENCE", row.confidence < MinimumConfidence)
      \cup If("UNVERIFIED_EVIDENCE", row.basis \in Unverified)
      \cup If("RESEARCH_REQUIRED", row.research)
      \cup If("UNEXPLAINED_CHANGE",
              row.decision = "PROPOSE_CHANGE" /\ changed # {} /\ row.evidence = {})
      \cup If("FIELD_EVIDENCE", changed # ConfirmedFields(row, item))

Guarded(row, item) ==
  LET reasons == GuardReasons(row, item)
  IN  [id |-> row.id, values |-> row.values, current |-> Shown(item),
       confidence |-> row.confidence, research |-> row.research,
       confirmed |-> ConfirmedFields(row, item),
       decision |-> IF reasons = {} THEN row.decision ELSE "REVIEW",
       warnings |-> row.warnings \cup reasons,
       modelDecision |-> None, modelWarnings |-> None, changed |-> {}]

\* What the schema of an answer asks of a row, as far as the code relies on it.
FitsSchema(row) ==
  /\ row.decision \in {"KEEP", "PROPOSE_CHANGE", "REVIEW", "NOT_PRODUCT"}
  /\ DOMAIN row.values = Fields
  /\ row.values.grade \in Grades \cup {None}

\* An answer is refused as a whole: it is a list of rows that fit the schema, and
\* their ids are those asked about, each once.
Answers(rows, items) ==
  LET ids == [i \in DOMAIN rows |-> rows[i].id]
  IN  /\ rows \in Seq(Range(rows)) /\ \A i \in DOMAIN rows : FitsSchema(rows[i])
      /\ IsInjective(ids) /\ Range(ids) = {items[i].id : i \in DOMAIN items}

-----------------------------------------------------------------------------
\* Reconciliation compares grades as normalize_grade writes them.
Canonical(values) == [values EXCEPT !.grade = IF @ = None THEN None ELSE NormalizeGrade(@)]

\* Mutant: grades are compared before they are normalised.
ChangesAsWritten(row) == ChangedFields(row.values, row.current)

FinalChanges(row) == ChangedFields(Canonical(row.values), Canonical(row.current))

Warnings(row) == IF row.modelWarnings = None THEN row.warnings ELSE row.modelWarnings

Remaining(row) ==
  IF "grade" \in FinalChanges(row) THEN Warnings(row) ELSE Warnings(row) \ {FalseConflict}

ModelDecision(row) == IF row.modelDecision = None THEN row.decision ELSE row.modelDecision

DecisionFor(row, warnings) ==
  IF row.research \/ warnings # {} \/ ModelDecision(row) = "REVIEW" THEN "REVIEW"
  ELSE IF FinalChanges(row) # {} THEN "PROPOSE_CHANGE" ELSE "KEEP"

Reconcile(row) ==
  LET decision == DecisionFor(row, Remaining(row))
  IN  [row EXCEPT !.values = Canonical(@), !.changed = FinalChanges(row),
                  !.decision = decision,
                  !.modelDecision = IF decision = ModelDecision(row) THEN None ELSE ModelDecision(row),
                  !.warnings = Remaining(row),
                  !.modelWarnings = IF Remaining(row) = Warnings(row) THEN None ELSE Warnings(row)]

\* What expected_decision recomputes from a reconciled row.
ExpectedDecision(row) ==
  DecisionFor(row, IF "grade" \in FinalChanges(row) THEN row.warnings ELSE row.warnings \ {FalseConflict})

\* run_safe_pipeline: each row of an accepted answer, in the order of the answer.
ItemOf(items, id) == CHOOSE item \in Range(items) : item.id = id

SafeRows(rows, items) == [i \in DOMAIN rows |-> Reconcile(Guarded(rows[i], ItemOf(items, rows[i].id)))]

-----------------------------------------------------------------------------
\* Whether a value can be written to an item.
IsUsable(field, v) == v # None /\ (field = "profile" => v \in KnownProfiles)

Applied(row) == {f \in row.changed \cap row.confirmed : IsUsable(f, row.values[f])}

Resolved ==
  [profile  |-> {"profile_unparsed"},
   grade    |-> {"unconfirmed_grade", "grade_conflict", "unverified_designation"},
   dim1     |-> {"dimension_unparsed", "multiple_dimension_sets"},
   dim2     |-> {"multiple_dimension_sets"},
   dim3     |-> {"multiple_dimension_sets"},
   material |-> {}]

NewValue(row, f) == IF f = "grade" THEN NormalizeGrade(row.values[f]) ELSE row.values[f]

Updated(item, row) ==
  LET applied == Applied(row)
  IN  IF row.decision # "PROPOSE_CHANGE" \/ applied = {} THEN item
      ELSE [item EXCEPT
              !.values = [f \in Fields |-> IF f \in applied THEN NewValue(row, f) ELSE @[f]],
              !.reasons = @ \ UNION {Resolved[f] : f \in applied},
              !.confidence = IF @ >= 95 THEN @
                             ELSE LET c == IF row.confidence < 95 THEN row.confidence ELSE 95
                                  IN  IF c > @ THEN c ELSE @]

\* Rows are looked up by their id with its spaces normalised, items by the id as it is.
RowsFor(item, rows) == {i \in DOMAIN rows : SpaceNormal(rows[i].id) = item.id}

\* apply_verified_llm_results; ids are unique, so one row at most finds an item.
ApplyRows(items, rows) ==
  [n \in DOMAIN items |->
     LET found == RowsFor(items[n], rows)
     IN  IF found = {} THEN items[n] ELSE Updated(items[n], rows[CHOOSE i \in found : TRUE])]

Lost(items, rows) ==
  {i \in DOMAIN rows : ~\E n \in DOMAIN items : SpaceNormal(rows[i].id) = items[n].id}

Counts(items, rows) ==
  LET found == DOMAIN rows \ Lost(items, rows)
  IN  [applied |-> Cardinality({i \in found : rows[i].decision = "PROPOSE_CHANGE"
                                              /\ Applied(rows[i]) # {}}),
       review  |-> Cardinality({i \in found : rows[i].decision = "REVIEW"}),
       keep    |-> Cardinality({i \in found : rows[i].decision = "KEEP"}),
       lost    |-> Cardinality(Lost(items, rows))]
=============================================================================
