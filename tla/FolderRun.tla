------------------------------ MODULE FolderRun ------------------------------
(***************************************************************************)
(* A run over a folder of price lists (src/price_parser/interactive_run.py:*)
(* run_input_folder) and the run of the assignment (assignment.py:         *)
(* run_test_assignment), which exports before it asks the model and never  *)
(* applies what it answers.  Both are sequential; a run may end with an    *)
(* exception, or die, between any two steps.                               *)
(***************************************************************************)
EXTENDS LlmStage, ProfileQuery

VARIABLES
  xlsx,    \* the workbooks of the items written, each with its rows
  counts,  \* the summary of the application, None before it
  status,  \* the status of the run
  report   \* processing_report.json, None before it is written

outVars == <<xlsx, counts, status, report>>
vars    == <<run, pc, provider, items, stageVars, outVars>>

NoCounts == [applied |-> 0, review |-> 0, keep |-> 0, lost |-> 0]
Ended    == {"done", "raised", "dead"}

Init ==
  /\ run \in Runs
  /\ pc = "start" /\ provider = "none" /\ items = <<>>
  /\ StageInit
  /\ xlsx = <<>> /\ counts = None /\ status = "SUCCESS" /\ report = None

-----------------------------------------------------------------------------
\* What _resolve_llm_provider makes of "auto"; None where it raises.
ProviderToUse ==
  LET given == run.command = "folder" /\ run.provider \in {"none", "mock", "openai", "replay"}
      auto  == run.command = "folder" /\ run.provider = "auto"
  IN  CASE run.command = "assignment" -> run.provider
        [] auto /\ run.key            -> "openai"
        [] auto /\ ~run.key           -> IF run.required THEN None ELSE "none"
        [] given -> IF run.provider = "none" /\ run.required THEN None ELSE run.provider
        [] OTHER -> None

Start ==
  /\ pc = "start"
  /\ IF ProviderToUse = None THEN pc' = "raised" /\ UNCHANGED provider
     ELSE pc' = "parse" /\ provider' = ProviderToUse
  /\ UNCHANGED <<run, items, stageVars, outVars>>

Parse ==
  /\ pc = "parse"
  /\ items' = Parsed
  /\ pc' = IF run.command = "folder" THEN "stage" ELSE "export"
  /\ UNCHANGED <<run, provider, stageVars, outVars>>

-----------------------------------------------------------------------------
\* Mutant: a part of the candidates is enough.
MetByAnyRow ==
  provider = "openai" /\ stage.status = "VERIFIED" /\ stage.sent > 0 /\ ~stage.error

RequirementMet ==
  /\ provider = "openai" /\ stage.status = "VERIFIED"
  /\ stage.sent > 0 /\ stage.coverage /\ ~stage.error

RunStatus ==
  CASE run.required /\ ~RequirementMet -> "FAILED_LLM_REQUIRED"
    [] stage.error /\ ~(run.required /\ ~RequirementMet) -> "SUCCESS_WITH_LLM_ERROR"
    [] OTHER -> "SUCCESS"

MayApply == ~stage.error /\ stage.status = "VERIFIED" /\ stage.rows # <<>>

\* The rows are applied whatever status the run was given.
Decide ==
  /\ pc = "decide"
  /\ IF run.command = "assignment" THEN pc' = "report" /\ UNCHANGED <<items, counts, status>>
     ELSE /\ pc' = "export"
          /\ status' = RunStatus
          /\ items'  = IF MayApply THEN ApplyRows(items, stage.rows) ELSE items
          /\ counts' = IF MayApply THEN Counts(items, stage.rows) ELSE NoCounts
  /\ UNCHANGED <<run, provider, stageVars, xlsx, report>>

-----------------------------------------------------------------------------
Profiles == {items[n].values.profile : n \in DOMAIN items}

\* A search, and the assignment, list every item.
RunResolution ==
  IF run.fullQuery \/ run.command = "assignment" THEN Resolution("ALL", {})
  ELSE Resolve(Profiles, run.query)

Export ==
  /\ pc = "export"
  /\ xlsx' = IF status = "FAILED_LLM_REQUIRED" THEN xlsx
             ELSE Append(xlsx, OutputRows(items, RunResolution))
  /\ pc' = IF run.command = "folder" THEN "report" ELSE "stage"
  /\ UNCHANGED <<run, provider, items, stageVars, counts, status, report>>

WriteReport ==
  /\ pc = "report"
  /\ pc' = "done"
  /\ report' = [status |-> status, llm |-> stage.status, sent |-> stage.sent, counts |-> counts,
                required |-> RequirementMet,
                rows |-> IF status = "FAILED_LLM_REQUIRED" THEN 0
                         ELSE Cardinality(OutputRows(items, RunResolution))]
  /\ UNCHANGED <<run, provider, items, stageVars, xlsx, counts, status>>

\* A workbook that cannot be read, a file that cannot be written.
Raise ==
  /\ pc \in {"parse", "decide", "export", "report"}
  /\ pc' = "raised"
  /\ UNCHANGED <<run, provider, items, stageVars, outVars>>

Die ==
  /\ pc \notin Ended
  /\ pc' = "dead"
  /\ UNCHANGED <<run, provider, items, stageVars, outVars>>

Work == \/ Start \/ Parse \/ (StageStep /\ UNCHANGED outVars)
        \/ Decide \/ Export \/ WriteReport \/ Raise

Next == Work \/ Die

\* The process goes on by itself until it ends.
Spec == Init /\ [][Next]_vars /\ WF_vars(Work)

-----------------------------------------------------------------------------
\* What a value read from a quotation may be written as: a grade as normalize_grade
\* writes one of its spellings.
Written(f, v) ==
  IF f = "grade" THEN {NormalizeGrade(g) : g \in {h \in Grades : Key(f, h) = Key(f, v)}} ELSE {v}

\* Whatever the model answers, a value of an item only changes where its own row of
\* the price list states the new one, and only if the parser was in doubt about it.
SourceStatesEveryChange ==
  \A n \in DOMAIN items : \A f \in Fields :
    items[n].values[f] # Parsed[n].values[f]
      => /\ IsCandidate(Parsed[n])
         /\ \E quote \in Parsed[n].quotes : \E v \in quote[f] : items[n].values[f] \in Written(f, v)

\* The answers are applied in one step and only when every batch was verified: a
\* batch that fails leaves the items as they were parsed, and so does the assignment.
AllOrNothing ==
  [][items # <<>> /\ items' # items
       => /\ run.command = "folder" /\ counts = None
          /\ \A b \in DOMAIN manifest : manifest[b] = "VERIFIED"
          /\ {stage.rows[i].id : i \in DOMAIN stage.rows} =
             {selected[i].id : i \in DOMAIN selected}]_vars

\* The rows handed on are settled: reconciling one again changes nothing, and the
\* decision recomputed from it is its decision.
RowsAreSettled ==
  \A i \in DOMAIN rows : Reconcile(rows[i]) = rows[i] /\ ExpectedDecision(rows[i]) = rows[i].decision

\* A finished report is true.  A run that had to have a live model but did not get
\* every doubtful row verified by it leaves no XLSX; in every other run the XLSX
\* holds the items as they are now, all of them unless a profile was asked for, and
\* the changes it counts were made.
ReportIsTrue ==
  pc = "done" =>
    /\ report.status = "FAILED_LLM_REQUIRED" <=> xlsx = <<>>
    /\ run.required /\ run.command = "folder" /\ xlsx # <<>> =>
         /\ provider = "openai"
         /\ \A n \in DOMAIN Parsed : IsCandidate(Parsed[n])
              => \E i \in DOMAIN stage.rows : stage.rows[i].id = Parsed[n].id
    /\ xlsx # <<>> =>
         /\ Len(xlsx) = 1 /\ report.rows = Cardinality(xlsx[1])
         /\ \A row \in xlsx[1] : row.item \in Range(items)
         /\ RunResolution.status = "ALL" => {row.item : row \in xlsx[1]} = Range(items)
    /\ run.command = "folder" => report.counts.applied =
         Cardinality({n \in DOMAIN items : items[n].values # Parsed[n].values})

\* Every run that does not die ends, with its report or with an exception.
RunEnds == <>(pc \in Ended)
=============================================================================
