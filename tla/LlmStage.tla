------------------------------ MODULE LlmStage ------------------------------
(***************************************************************************)
(* The stage of a run that asks a language model about doubtful items      *)
(* (src/price_parser/interactive_run.py and assignment.py: _run_llm_stage; *)
(* the providers of llm/pilot_provider.py and llm/safe_pipeline.py).       *)
(*                                                                         *)
(* A run is a record of its arguments:                                     *)
(*   command      "folder" or "assignment"                                 *)
(*   provider     "auto", "none", "mock", "openai", "replay" or a mistake  *)
(*   key          the API key resolve_openai_api_key finds: TRUE or FALSE  *)
(*   required     require_live_llm                                         *)
(*   confirmed    confirm_live_api                                         *)
(*   batchSize, maxCases (0: every candidate), replayDir                   *)
(*   fullQuery    whether a search is asked for                            *)
(*   query        the letters of the profile asked for                     *)
(* Reports of progress, tokens and cost are left out.                      *)
(***************************************************************************)
EXTENDS LlmRows, Integers

CONSTANTS
  Runs,
  Folder,        \* the rows read from the price lists, in order
  AnswersTo(_),  \* what a model may answer about a sequence of items
  MaxRetries     \* max_retries

ASSUME LlmStageAssumption ==
  /\ MaxRetries \in Nat
  /\ \A r \in Runs : r.command \in {"folder", "assignment"} /\ r.maxCases \in Int
  /\ Folder \in Seq(Range(Folder))

VARIABLES
  run,
  pc,        \* where the run is
  provider,  \* the provider in use
  items,     \* what was parsed from the folder, then changed
  selected,  \* the candidates sent to the model
  manifest,  \* the status of each batch begun, as llm_batches.json has it once written
  attempt,   \* retries of the current request
  rows,      \* the safe rows of the batches that ended well
  stage      \* what the stage returned, None before it ends

stageVars == <<selected, manifest, attempt, rows, stage>>

Parsed == [n \in DOMAIN Folder |-> ParseRawItem(Folder[n])]

\* A source id names a file, a sheet and a row: it is not repeated, and spaces are
\* not all that tells two of them apart.
ASSUME SourcesAssumption ==
  \A m, n \in DOMAIN Parsed :
    Parsed[n].id \in {Parsed[m].id, SpaceNormal(Parsed[m].id)} => m = n

\* Nor does the parser write a grade that is not in Grades.
ASSUME ParsedAssumption == \A n \in DOMAIN Parsed : Parsed[n].values.grade \in Grades \cup {ASSUMED}

\* The elements of s that are in T, in their order.
Only(s, T) ==
  LET upTo[n \in 0..Len(s)] ==
        IF n = 0 THEN <<>>
        ELSE upTo[n - 1] \o IF s[n] \in T THEN <<s[n]>> ELSE <<>>
  IN  upTo[Len(s)]

Candidates == Only(items, {item \in Range(items) : IsCandidate(item)})

\* Rows with the supplier's columns first, then in the order of the files, which is
\* the order they are read in.  The code orders the rows of a file by their number:
\* the same, but for a workbook of several sheets, whose rows come out mixed.  A
\* Folder here has no such workbook.
Ordered ==
  LET read == {item \in Range(Candidates) : item.columns}
  IN  Only(Candidates, read) \o Only(Candidates, Range(Candidates) \ read)

Selection ==
  LET all == IF run.command = "folder" THEN Ordered ELSE Candidates
  IN  IF run.maxCases = 0 THEN all ELSE SubSeq(all, 1, IF Len(all) < run.maxCases THEN Len(all) ELSE run.maxCases)

BatchSize == IF run.command = "folder" THEN run.batchSize ELSE Len(selected)

Batch ==
  LET first == (Len(manifest) - 1) * BatchSize + 1
      last  == first + BatchSize - 1
  IN  SubSeq(selected, first, IF last < Len(selected) THEN last ELSE Len(selected))

StageInit ==
  /\ selected = <<>> /\ manifest = <<>> /\ attempt = 0 /\ rows = <<>> /\ stage = None

-----------------------------------------------------------------------------
Result(status, sent, coverage, verified) ==
  [status |-> status, error |-> status = "FAILED", sent |-> sent, coverage |-> coverage,
   rows |-> verified]

EndStage(result) == stage' = result /\ pc' = "decide"

\* Mutant: the rows of the batches before the one that failed are returned.
PartialStage == Result("VERIFIED", Len(selected), TRUE, rows)

FailedStage == Result("FAILED", 0, FALSE, <<>>)

\* run_input_folder turns an exception of the stage into a FAILED summary;
\* run_test_assignment ends with it.
StageFails ==
  IF run.command = "folder" THEN EndStage(FailedStage) ELSE pc' = "raised" /\ UNCHANGED stage

StageArgumentsFail ==
  \/ run.command = "folder" /\ (run.batchSize \notin 1..10 \/ run.maxCases < 0)
  \/ run.command = "assignment" /\ run.maxCases < 1

ProviderFails ==
  \/ provider = "openai" /\ (~run.confirmed \/ ~run.key)
  \/ provider = "replay" /\ ~run.replayDir
  \/ provider \notin {"mock", "openai", "replay"}

SetManifest(status) == manifest' = [manifest EXCEPT ![Len(manifest)] = status]

StartStage ==
  /\ pc = "stage"
  /\ attempt' = 0 /\ rows' = <<>>
  /\ CASE provider = "none" ->
            /\ EndStage(Result("NOT_RUN", 0, Candidates = <<>>, <<>>))
            /\ UNCHANGED <<selected, manifest>>
       [] provider # "none" /\ StageArgumentsFail ->
            StageFails /\ UNCHANGED <<selected, manifest>>
       [] provider # "none" /\ ~StageArgumentsFail /\ Selection = <<>> ->
            /\ EndStage(Result("NOT_NEEDED", 0, Candidates = <<>>, <<>>))
            /\ UNCHANGED <<selected, manifest>>
       [] OTHER ->
            IF ProviderFails THEN StageFails /\ UNCHANGED <<selected, manifest>>
            ELSE /\ selected' = Selection
                 /\ manifest' = <<"PROCESSING">>
                 /\ pc' = "request"
                 /\ UNCHANGED stage
  /\ UNCHANGED <<run, provider, items>>

\* The answer of the provider without a model.
MockRows(batch) ==
  [i \in DOMAIN batch |->
    LET review == CandidateReasons(batch[i]) # {}
    IN  [id |-> batch[i].id, decision |-> IF review THEN "REVIEW" ELSE "KEEP",
         values |-> Shown(batch[i]), evidence |-> {}, confidence |-> IF review THEN 50 ELSE 100,
         basis |-> IF review THEN "INSUFFICIENT" ELSE "SOURCE_TEXT", research |-> review,
         warnings |-> IF review THEN {"operator decides"} ELSE {}]]

Possible == IF provider = "mock" THEN {MockRows(Batch)} ELSE AnswersTo(Batch)

\* An accepted answer ends the batch; its rows are written before the next begins.
TakeAnswer(answer) ==
  LET all == rows \o SafeRows(answer, Batch)
  IN  /\ rows' = all
      /\ IF Len(all) < Len(selected)
         THEN /\ manifest' = Append([manifest EXCEPT ![Len(manifest)] = "VERIFIED"], "PROCESSING")
              /\ pc' = "request"
              /\ UNCHANGED stage
         ELSE /\ SetManifest("VERIFIED")
              /\ EndStage(Result("VERIFIED", Len(selected), Len(selected) = Len(Candidates), all))

Request ==
  /\ pc = "request"
  /\ \E answer \in Possible :
       IF Answers(answer, Batch) THEN TakeAnswer(answer)
       ELSE SetManifest("FAILED") /\ StageFails /\ UNCHANGED rows
  /\ attempt' = 0
  /\ UNCHANGED <<run, provider, items, selected>>

\* Mutant: the bound on the retries is not looked at.
RetriesForever == provider = "openai"

MayRetry == provider = "openai" /\ attempt < MaxRetries

\* A timeout, a lost connection or an overloaded service: retried after a pause.
RequestTimesOut ==
  /\ pc = "request" /\ MayRetry
  /\ pc' = "pause"
  /\ attempt' = IF attempt < MaxRetries THEN attempt + 1 ELSE attempt
  /\ UNCHANGED <<run, provider, items, selected, manifest, rows, stage>>

Resume ==
  /\ pc = "pause" /\ pc' = "request"
  /\ UNCHANGED <<run, provider, items, stageVars>>

\* Any other error, the last retry, a missing replay file, or results that cannot be
\* written to the disk.  When it is llm_batches.json that cannot be written, before
\* the request or after an accepted answer, nothing marks the batch FAILED.
RequestFails ==
  /\ pc = "request"
  /\ \/ SetManifest("FAILED")
     \/ run.command = "folder" /\ UNCHANGED manifest
     \/ /\ run.command = "folder" /\ SetManifest("VERIFIED")
        /\ \E answer \in Possible : Answers(answer, Batch)
  /\ StageFails
  /\ attempt' = 0
  /\ UNCHANGED <<run, provider, items, selected, rows>>

StageStep == StartStage \/ Request \/ RequestTimesOut \/ Resume \/ RequestFails
=============================================================================
