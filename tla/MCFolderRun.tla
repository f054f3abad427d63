----------------------------- MODULE MCFolderRun -----------------------------
(***************************************************************************)
(* FolderRun for TLC: four rows of a price list, three of them in doubt,   *)
(* and every answer made of a row's own values, a changed grade or size,   *)
(* with or without a quotation, real or invented, and each kind of doubt.  *)
(***************************************************************************)
EXTENDS FolderRun, TLC

\* "m-1" is "M1" in another layout, "C17200" another name of BRB2.
MCNormalGrade(g) == CASE g = "C17200" -> "BRB2" [] g = "m-1" -> "M1" [] OTHER -> g
MCGradeKey(g)    == IF g = "m-1" THEN "M1" ELSE g

\* The second source id holds two spaces in a row.
MCGrades == {"C17200", "m-1", "M1", "BRB2"}

MCSpaceNormal(id) == IF id = "price  2" THEN "price 2" ELSE id

MCSpelling(p) ==
  CASE p = "TRUBA"  -> <<"T", "R", "U", "B", "A">>
    [] p = "KRUG"   -> <<"K", "R", "U", "G">>
    [] p = "PRUTOK" -> <<"P", "R", "U", "T", "O", "K">>
    [] OTHER        -> <<p>>

Reads(field, v) == [f \in Fields |-> IF f = field THEN {v} ELSE {}]

Text(name, verified, sizes, quotes) ==
  [names |-> {name}, first |-> name, verified |-> verified, grades |-> <<>>, sizes |-> sizes,
   second |-> None, material |-> None, scrapGroup |-> None, meshCode |-> FALSE, quotes |-> quotes]

Raw(id, text, hint, columns) ==
  [id |-> id, text |-> text, gradeHint |-> hint, hintRepeated |-> FALSE, profileColumn |-> FALSE,
   profileHint |-> None, columnSizes |-> None, columns |-> columns]

MCFolder ==
  << Raw("price 1", Text("TRUBA", <<>>, [s \in {"sequence"} |-> <<57, 4>>],
                         {Reads("grade", "C17200")}), None, FALSE),
     Raw("price  2", Text("PRUTOK", <<"M1">>, <<>>, {Reads("dim1", 20), Reads("grade", "M1")}),
         None, TRUE),
     Raw("price 3", Text("KRUG", <<"M1">>, [s \in {"diameter"} |-> <<30>>], {Reads("grade", "M1")}),
         None, FALSE),
     Raw("price 4", Text("LIST", <<"BRB2">>, [s \in {"sequence"} |-> <<2, 600>>],
                         {Reads("grade", "BRB2"), Reads("grade", "m-1")}), "M1", FALSE) >>

Kept(item) ==
  [id |-> item.id, decision |-> "KEEP", values |-> Shown(item), evidence |-> {},
   confidence |-> 90, basis |-> "SOURCE_TEXT", research |-> FALSE, warnings |-> {}]

Changes(item) == IF item.id = "price  2" THEN {<<"dim1", 20>>, <<"grade", "m-1">>}
                 ELSE {<<"grade", "C17200">>, <<"grade", "m-1">>}

Changed(item, c, decision, evidence) ==
  [Kept(item) EXCEPT !.values[c[1]] = c[2], !.decision = decision, !.evidence = evidence]

Quotations(c) == {{}, {[field |-> c[1], quote |-> Reads(c[1], c[2])]}}

MCRowsFor(item) ==
  LET proposals == {Changed(item, c, d, e) : c \in Changes(item), d \in {"PROPOSE_CHANGE", "KEEP"},
                                             e \in UNION {Quotations(x) : x \in Changes(item)}}
      best == {r \in proposals : r.evidence # {} /\ r.decision = "PROPOSE_CHANGE"}
  IN  {Kept(item), [Kept(item) EXCEPT !.decision = "REVIEW"], [Kept(item) EXCEPT !.decision = "NOT_PRODUCT"],
       [Kept(item) EXCEPT !.warnings = {FalseConflict}], [Kept(item) EXCEPT !.values.dim1 = None]}
      \cup proposals
      \cup {[r EXCEPT !.confidence = 79] : r \in best}
      \cup {[r EXCEPT !.basis = "MODEL_KNOWLEDGE"] : r \in best}
      \cup {[r EXCEPT !.research = TRUE] : r \in best}
      \cup {[r EXCEPT !.warnings = {FalseConflict}] : r \in best}

\* One row at a time is varied; besides, both rows in the other order, and a row
\* missing, repeated, of no item or against the schema.
MCAnswersTo(batch) ==
  LET best == [i \in DOMAIN batch |->
                 CHOOSE r \in MCRowsFor(batch[i]) : r.decision = "PROPOSE_CHANGE" /\ r.evidence # {}]
      kept == [i \in DOMAIN batch |-> Kept(batch[i])]
  IN  {[rest EXCEPT ![i] = r] : rest \in {kept, best}, i \in DOMAIN batch,
                                r \in UNION {MCRowsFor(batch[i]) : i \in DOMAIN batch}}
      \cup {Reverse(best), Tail(kept), kept \o kept, [kept EXCEPT ![1].id = "price 9"],
           [kept EXCEPT ![1].decision = "MAYBE"]}

Live == [command |-> "folder", provider |-> "openai", key |-> TRUE, required |-> TRUE,
         confirmed |-> TRUE, batchSize |-> 2, maxCases |-> 0, replayDir |-> FALSE,
         fullQuery |-> FALSE, query |-> <<>>]

MCRuns ==
  { Live,
    [Live EXCEPT !.provider = "auto", !.required = FALSE, !.query = <<"K", "R", "U", "K">>],
    [Live EXCEPT !.provider = "auto", !.key = FALSE, !.required = FALSE,
                 !.query = <<"T", "R", "U">>],
    [Live EXCEPT !.provider = "auto", !.key = FALSE],
    [Live EXCEPT !.provider = "mock", !.query = <<"K", "R", "U", "G">>],
    [Live EXCEPT !.maxCases = 1],
    [Live EXCEPT !.confirmed = FALSE, !.required = FALSE],
    [Live EXCEPT !.batchSize = 11, !.required = FALSE],
    [Live EXCEPT !.provider = "none", !.required = FALSE, !.fullQuery = TRUE],
    [Live EXCEPT !.provider = "none"],
    [Live EXCEPT !.provider = "gpt"],
    [Live EXCEPT !.provider = "replay", !.required = FALSE, !.replayDir = TRUE, !.batchSize = 1,
                 !.maxCases = 2],
    [Live EXCEPT !.command = "assignment", !.maxCases = 2, !.required = FALSE],
    [Live EXCEPT !.command = "assignment", !.provider = "none", !.maxCases = 2, !.required = FALSE],
    [Live EXCEPT !.command = "assignment", !.provider = "mock", !.maxCases = 0, !.required = FALSE] }

MCWords   == {"TRUBA", "KRUG", "PRUTOK", "LIST"}
MCQueries == {r.query : r \in MCRuns}
=============================================================================
