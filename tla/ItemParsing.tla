----------------------------- MODULE ItemParsing -----------------------------
(***************************************************************************)
(* From a row of a price list to an item (src/price_parser/                *)
(* normalization.py: parse_raw_item and what it calls).  Profile names are *)
(* transliterated.  What the patterns recognise in a description is data:  *)
(*   names     known profiles whose word occurs in it                      *)
(*   first     its first word, taken for the profile if none is known      *)
(*   verified  grades of the registry found in it, in order                *)
(*   grades    other grade notations found, each with the grade it gives   *)
(*   sizes     size notations found, each with its sizes in order          *)
(*   second    a length or "t." written apart from the sizes, or None      *)
(*   material  the material named in it, or None                           *)
(*   quotes    what a quotation from the row may be read as, per field     *)
(* The modelled code chooses between these, in the order the rules below   *)
(* are written.  Ranges and alternatives of a size count as the size.      *)
(***************************************************************************)
EXTENDS Naturals, Sequences, Functions, SequencesExt

CONSTANTS
  NormalGrade(_),  \* normalize_grade of a text that is not empty
  GradeKey(_),     \* grade_match_key
  None

Fields == {"profile", "material", "grade", "dim1", "dim2", "dim3"}

ASSUMED    == "predpol."
NOT_STATED == "NE UKAZANA"
BRB2       == "BRB2"

PatternOrder ==
  << "TRUBA", "LIST", "PLITA", "KRUG", "PRUTOK", "PROVOLOKA", "LENTA", "POLOSA", "KVADRAT",
     "SHESTIGRANNIK", "POKOVKA", "UGOLOK", "SHVELLER", "ANOD", "KATOD", "FOLGA", "SHINA",
     "GRANULY", "VTULKA", "DISK", "KOLCO", "PROVODNIK", "SETKA", "OTVOD", "TROJNIK", "PEREHOD",
     "FLANEC", "BOLT", "VINT", "GAJKA", "SHAJBA", "SHPILKA", "ELEKTROD", "ZAGOTOVKA", "SLITOK",
     "SHIHTA", "LOM" >>

KnownProfiles == Range(PatternOrder)
Fasteners     == {"BOLT", "VINT", "GAJKA", "SHAJBA", "SHPILKA"}
RoundBar      == {"KRUG", "PRUTOK"}
DimensionOptional == {"LOM", "SHIHTA"}

\* The first element of a sequence that satisfies a test; Else if none does.
FirstOr(s, Test(_), Else) ==
  LET i == SelectInSeq(s, Test) IN IF i = 0 THEN Else ELSE s[i]

At(s, i) == IF i \in DOMAIN s THEN s[i] ELSE None

-----------------------------------------------------------------------------
CanonicalProfile(text) ==
  FirstOr(PatternOrder, LAMBDA p : p \in text.names,
          IF text.first = None THEN "NE OPREDELEN" ELSE text.first)

\* The supplier has a column for the profile and left it empty.
ProfileMissing(raw) == raw.profileColumn /\ raw.profileHint = None

Profile(raw) ==
  CASE ProfileMissing(raw) /\ CanonicalProfile(raw.text) \in KnownProfiles
         -> CanonicalProfile(raw.text)
    [] ProfileMissing(raw) /\ CanonicalProfile(raw.text) \notin KnownProfiles
         -> "NE UKAZAN"
    [] raw.profileHint # None    -> CanonicalProfile(raw.profileHint)
    [] OTHER                     -> CanonicalProfile(raw.text)

-----------------------------------------------------------------------------
NormalizeGrade(g) == IF g = None THEN ASSUMED ELSE NormalGrade(g)

\* Notations of a grade, the first that occurs is taken; a fastener class counts
\* only for fasteners.
GradeNotations ==
  << "aluminium 1340", "composite", "verified", "fastener", "AISI", "steel", "split alloy",
     "leading word", "full X", "X after size", "alloy prefix", "unverified designation" >>

DescriptionGrade(text, profile) ==
  LET Occurs(n) == /\ n \in DOMAIN text.grades \/ (n = "verified" /\ text.verified # <<>>)
                   /\ n = "fastener" => profile \in Fasteners
      n == FirstOr(GradeNotations, Occurs, None)
  IN  CASE n = None       -> ASSUMED
        [] n = "verified" -> Head(text.verified)
        [] n \in {"aluminium 1340", "composite", "unverified designation"} -> text.grades[n]
        [] OTHER          -> NormalizeGrade(text.grades[n])

\* The supplier's grade column and the description disagree.
GradesConflict(raw) ==
  /\ raw.gradeHint # None /\ Profile(raw) # "LOM"
  /\ raw.text.verified # <<>>
  /\ NormalizeGrade(raw.gradeHint) \notin Range(raw.text.verified)
  /\ ~raw.hintRepeated

Grade(raw) ==
  LET profile == Profile(raw)
      grade ==
        CASE profile = "LOM" /\ raw.text.scrapGroup # None -> raw.text.scrapGroup
          [] profile # "LOM" /\ raw.gradeHint # None ->
               IF GradesConflict(raw) /\ BRB2 \in Range(raw.text.verified)
               THEN BRB2 ELSE NormalizeGrade(raw.gradeHint)
          [] OTHER -> DescriptionGrade(raw.text, profile)
  IN  IF profile = "SETKA" /\ raw.text.meshCode /\ grade = ASSUMED THEN NOT_STATED ELSE grade

-----------------------------------------------------------------------------
Rule(profiles, notation, doubt) == [profiles |-> profiles, notation |-> notation, doubt |-> doubt]

\* doubt: "none", "note" for a comment, or the reason of a review.
DimensionRules ==
  LET Every == KnownProfiles \cup {"other"}
      Wire  == {"PROVOLOKA", "SHESTIGRANNIK"}
      Flat  == {"LIST", "PLITA", "LENTA", "POLOSA", "KVADRAT", "POKOVKA", "ANOD", "SHINA",
               "PROVODNIK", "KOLCO"}
  IN << Rule(Every, "two sets", "multiple_dimension_sets"),
        Rule({"POLOSA", "LENTA"}, "sequence", "none"),
        Rule({"PROVODNIK"}, "OD x ID", "note"),
        Rule({"LIST", "DISK"}, "disc", "business_rule_pending"),
        Rule({"FLANEC"}, "DN PN", "note"),
        Rule({"SETKA"}, "width", "note"),
        Rule({"SHESTIGRANNIK"}, "S", "business_rule_pending"),
        Rule({"PLITA", "KOLCO"}, "ring", "business_rule_pending"),
        Rule({"PRUTOK"}, "ND", "note"),
        Rule({"TRUBA"}, "after profile", "none"),
        Rule({"TRUBA"}, "diameter pair", "none"),
        Rule({"TRUBA"}, "inch", "note"),
        Rule({"BOLT", "VINT", "SHPILKA"}, "M pair", "none"),
        Rule({"GAJKA", "SHAJBA"}, "M", "none"),
        Rule({"TRUBA"}, "OD ID L", "note"),
        Rule(RoundBar, "diameter pair", "none"),
        Rule(RoundBar \cup Wire, "diameter", "none"),
        Rule(RoundBar \cup Wire, "number", "none"),
        Rule(RoundBar \cup Wire, "sequence", "none"),
        Rule(RoundBar \cup Wire, "mm", "none"),
        Rule({"TRUBA"} \cup Flat, "sequence", "none"),
        Rule({"KVADRAT"}, "number", "none"),
        Rule({"TRUBA"} \cup Flat, "diameter", "none"),
        Rule(Every, "sequence", "note"),
        Rule(Every, "diameter", "none"),
        Rule(Every, "number", "none") >>

NoRule == Rule({}, "nothing", "none")

RuleFor(text, profile) ==
  LET kind == IF profile \in KnownProfiles THEN profile ELSE "other"
  IN  FirstOr(DimensionRules,
              LAMBDA r : kind \in r.profiles /\ r.notation \in DOMAIN text.sizes, NoRule)

\* Half of what the inside leaves of the outside, if it leaves something.
Wall(outside, inside) ==
  IF inside # None /\ outside > inside THEN (outside - inside) \div 2 ELSE None

ExtractedSizes(text, profile) ==
  LET rule == RuleFor(text, profile)
      s    == text.sizes[rule.notation]
  IN  CASE rule = NoRule -> <<None, None, None>>
        [] rule.notation = "OD ID L" -> <<s[1], Wall(s[1], s[2]), s[3]>>
        [] profile \in RoundBar /\ rule.notation \in {"diameter", "number", "mm"} ->
             <<s[1], text.second, None>>
        [] profile \in RoundBar /\ rule.notation = "sequence" /\ Len(s) = 1 ->
             <<s[1], text.second, None>>
        [] OTHER -> <<At(s, 1), At(s, 2), At(s, 3)>>

\* Sizes from the supplier's own columns win over those of the description.
HasColumnSizes(raw) == raw.columnSizes # None

Sizes(raw) ==
  LET s == IF HasColumnSizes(raw) THEN raw.columnSizes
           ELSE ExtractedSizes(raw.text, Profile(raw))
  IN  IF Profile(raw) = "TRUBA" /\ "inch" \in DOMAIN raw.text.sizes
      THEN [s EXCEPT ![1] = raw.text.sizes["inch"][1]] ELSE s

SizeDoubt(raw) == IF HasColumnSizes(raw) THEN "none" ELSE RuleFor(raw.text, Profile(raw)).doubt

SizeMissing(raw) == Sizes(raw)[1] = None /\ Profile(raw) \notin DimensionOptional

-----------------------------------------------------------------------------
ReviewReasons(raw) ==
  LET If(reason, condition) == IF condition THEN {reason} ELSE {}
  IN  If("profile_unparsed", Profile(raw) = "NE UKAZAN")
      \cup If("grade_conflict", GradesConflict(raw))
      \cup ({SizeDoubt(raw)} \ {"none", "note"})
      \cup If("unconfirmed_grade", Grade(raw) = ASSUMED)
      \cup If("dimension_unparsed", SizeMissing(raw))

\* In hundredths.  A fourth size or a length after "t." would each cost 5 more; with
\* no reason given they never bring an item below 90.
Confidence(raw) ==
  LET Less(points, condition) == IF condition THEN points ELSE 0
  IN  100 - Less(25, Grade(raw) = ASSUMED) - Less(25, SizeMissing(raw))
          - Less(35, GradesConflict(raw))
          - Less(15, SizeDoubt(raw) = "business_rule_pending")
          - Less(5, SizeDoubt(raw) # "none")

ParseRawItem(raw) ==
  [id         |-> raw.id,
   values     |-> [profile |-> Profile(raw), material |-> raw.text.material, grade |-> Grade(raw),
                   dim1 |-> Sizes(raw)[1], dim2 |-> Sizes(raw)[2], dim3 |-> Sizes(raw)[3]],
   reasons    |-> ReviewReasons(raw),
   conflict   |-> GradesConflict(raw),
   confidence |-> Confidence(raw),
   columns    |-> raw.columns,
   quotes     |-> raw.text.quotes]

\* Why the model is asked about an item (llm/enrichment.py); <<>> if it is not.
CandidateReasons(item) ==
  LET named == item.reasons
               \cup (IF item.values.grade = ASSUMED THEN {"unconfirmed_grade"} ELSE {})
               \cup (IF item.conflict THEN {"grade_conflict"} ELSE {})
  IN  IF named = {} /\ item.confidence < 90 THEN {"low_validation_score"} ELSE named

IsCandidate(item) == CandidateReasons(item) # {}
=============================================================================
