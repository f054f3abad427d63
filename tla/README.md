# A TLA+ model of price-parser

price-parser reads suppliers' price lists, normalises their rows, lets an operator review
what is doubtful, keeps the result in a database behind a local HTTP API, asks a language
model for help under strict limits, mails suppliers and writes commercial documents. This
directory holds TLA+ specifications of its parts that keep state, the configurations with
which TLC checks them on small instances, and proofs, checked by TLAPS, of their main
safety properties for every value of the constants.

Paths are relative to `src/`; package paths (`db/services.py`) to `src/src/price_parser/`.

## 1. Inventory

| Component | State it keeps | Operations | Hard behaviour | What makes it correct |
|---|---|---|---|---|
| Operator review journal (`operator_review.py`, `review_routing.py`) | JSONL journal, lock file, queue file | `record_decision`, `list_review_items` | several processes, a lock left behind, an append broken off anywhere, a source that is parsed again | one line per decision, chained to its predecessor; every call ends |
| Application of decisions (`operator_review.py`) | reviewed output, remaining queue, audit file | `apply_confirmed_decisions` | reads without the lock, three files replaced one by one | output faithful to the journal; the files agree |
| Persisted review (`db/services.py`, `db/models.py`) | `review_items`, `offers`, `review_decisions`, `audit_events` | `record_review_decision`, `apply_review_decision` | sessions that interleave between SELECT and COMMIT, stale ORM objects | audit is exact, fields only as decided, statuses earned |
| Pilot import (`db/services.py`) | `import_jobs`, `offers`, `import_job_offers`, `review_items`, `reference_research_tasks` | `import_pilot_report` | job committed ahead of its rows, concurrent imports, rollback, death of the process | all or nothing; nothing overwritten; a job ends |
| LLM run registry (`db/services.py`) | `llm_runs` | `record_llm_run` | a repeated fingerprint | one row per fingerprint |
| Mail (`mail/`) | `mail_requests`, `mail_messages`, attachments, files | create, send, replay | sent but not committed, retries, redelivery, torn files | SENT is true; a message stored once, whole and linked |
| Commercial documents (`documents/service.py`) | `commercial_documents`, `budget_updates`, PDF files | create, render, update budget | versions by max+1, file and hash written apart, four roundings | versions without gap or repeat; the hash is the file's; totals add up |
| LLM pipeline (`interactive_run.py`, `assignment.py`, `llm/`) | manifest of batches, verified rows, items, XLSX, report | ask, verify, reconcile, apply, export | a batch that fails after others succeeded, rows left out or invented, retries, a required model that is not there | nothing applied that the source does not say; all or nothing; the report is true |
| Parsing, normalisation, free search (`parser.py`, `suppliers/`, `normalization.py`, `search.py`) | the header in force, the last name read | read a workbook, decide an item's fields, search | cells carried from row to row, notations that contradict one another, grades that contain each other | no row lost, mixed or read twice; a query finds what it means |
| Nomenclature (`nomenclature/`) | catalogue in memory | resolve, search | statuses and directions of relations, ties | what needs no review is vouched for |
| Database search (`db/services.py`) | none | load offers, search them | - | as nomenclature |
| HTTP API (`api/`) | a session per request | dispatch | a request cut off | the session is closed, nothing half committed |
| Offline audit, XLSX export, CLI, configuration, migrations | files written once | - | - | - |

How they interact: a parse writes the files of rows and the review queue; the review
journal is keyed by a fingerprint of the row it decided on; application joins rows and
journal by that fingerprint. The import copies the same files into the database and opens
a review item for every queued row; the API records and applies decisions on those. The
run over a folder parses it, asks the model about the doubtful rows, applies what survives
the guardrails, and exports the rows. Mail replay stores attachments that are parsed next;
documents are built from what a client sends. The free search and the nomenclature search
read items and write nothing.

## 2. Modules

| Module | Models | Code |
|---|---|---|
| `ReviewRecords` | commands, decisions, rows; `ApplyDecisionToItem`, `LatestIndex`, `ReviewState` and the other pure functions | `operator_review.py` 15-32, 79-134, 149-223, 252-313, 351-397, 466-510 |
| `DecisionJournal` | what the journal promises: `Record` adds a decision once, whole, chained; after `Lose` it is left alone | abstract |
| `OperatorReview` | `record_decision`, step by step, in any number of processes | 137-226, 526-549 |
| `ReviewApplication` | `apply_confirmed_decisions` beside those writers (EXTENDS `OperatorReview`) | 229-329 |
| `PersistedReview` | `record_review_decision`, `apply_review_decision` in any number of sessions | `db/services.py` 385-532, 766-796 |
| `PersistedOverlap` | the same with the history of which offers had overlapping requests, and what holds of the others (EXTENDS `PersistedReview`) | |
| `PilotImport` | `import_pilot_report` in any number of sessions, with decisions applied meanwhile | `db/services.py` 72-284 |
| `MailStore` | mail tables, files, the sessions at work on them | `mail/service.py` 482-526, 602-614, `db/models.py` 309-418 |
| `MailOutbox` | `create_mail_request`, `send_mail_request` | `mail/service.py` 38-202 |
| `MailInbox` | `replay_eml` | 218-338, 451-479 |
| `MailExchange` | both at once, and what they promise together | |
| `DocumentRegister` | what documents promise: versions 1, 2, 3, ..., content that never changes, one budget entry per final version and deal | abstract |
| `DocumentTotals` | `calculate_document`, exactly | `documents/service.py` 34-110 |
| `Documents` | `create_document`, `render_document_pdf`, `mock_update_budget` in any number of calls; implements `DocumentRegister` | 113-312, `api/app.py` 328-400 |
| `ItemParsing` | `parse_raw_item`: which of the notations found in a row decide its fields, reasons and confidence | `normalization.py`, `llm/enrichment.py` |
| `LlmRows` | guardrails, reconciliation and application of one answered row | `llm/safe_pipeline.py`, `llm/result_reconciliation.py`, `llm/application.py` |
| `LlmStage` | `_run_llm_stage` of both commands: batches, manifest, retries, failures | `interactive_run.py`, `assignment.py`, `llm/pilot_provider.py` |
| `ProfileQuery` | `resolve_profile_query`, `damerau_levenshtein`, `build_output_rows` | `interactive_run.py` 44-239 |
| `FolderRun` | `run_input_folder` and `run_test_assignment` as a whole | `interactive_run.py`, `assignment.py` |
| `PriceReading` | the four parsers: which cells of which row become an item | `parser.py`, `suppliers/` |
| `OfferSearch` | `parse_search_query`, `search_items` | `search.py` |
| `Nomenclature` | catalogue, scores, matching, ranking (EXTENDS `OfferSearch`, whose lexicographic order and variants of a round bar it shares) | `nomenclature/` |
| `PriceAlgorithms` | a task, answered by one of the pure modules above, which it EXTENDS; their reference properties | `cli.py` 583-765 |
| `MC*` | the small instances TLC checks | |
| `ReviewApplicationProofs` | theorems about `OperatorReview` and `ReviewApplication` | |
| `PersistedReviewProofs` | theorems about `PersistedReview` and `PersistedOverlap` | |
| `PilotImportProofs`, `MailExchangeProofs`, `DocumentsProofs`, `FolderRunProofs`, `PriceAlgorithmsProofs` | theorems about the module each is named after | |
| `NaturalLemmas` | least and greatest elements, which take the place of induction in the proofs | |

### How state and actions correspond to the code

`OperatorReview`: `items` and `queue` are the two files a parse writes, replaced one after
the other by `Reparse` and `Requeue`; `decisions` and `tail` are the journal: its records
that stand alone on their lines, and how the file ends (`newline`; `cut` inside a record;
`unended`, a whole record without its newline; `glued`, two records on one line); `lock` is
the lock file, which `O_EXCL` creates. `Begin` reads the queue row and validates (137-177),
`AcquireLock`/`GiveUp` are the waiting loop, `LoadJournal` the load and the search for the
same decision. `StartAppend`, `FinishRecord` and `EndLine` write the first bytes, the rest of
the record and the newline; `AppendFails` stops before any of them. As in the code, a journal
that ends `unended` loads (`Readable`), and the next append starts on that line.
`ReleaseLock` is the `finally`, `Die` the death of the process at any place, which leaves the
lock file and what was written of a line behind.

`ReviewApplication`: `ReadItems`, `ReadDecisions`, `ReadAudit` take the three files as they
are when read (the journal without the lock); `WriteOutput`, `WriteRemaining`, `WriteAudit`
are the three atomic replacements in the code's order; `StopApply` ends the run anywhere.

`PersistedReview`: a request is its SELECTs, each an action that stores what it saw, and a
commit that writes from what was stored. `Written` is SQLAlchemy's UPDATE: a column is set
only if it differs from the value that was loaded, so a stale object overwrites less than a
whole row but `payload_json`, one JSON column, whole. Unique keys turn a race into an
aborted transaction.

`PilotImport`: `Start` looks for the key, `CommitRunning` commits the job alone, `Load`
reads the files (again: they were hashed before, and may differ by now), `ReadRow` treats
one row, `ReadQueues` both queues, `Commit` inserts everything or meets a unique key,
`CommitFailed` is the `except` block, `Crash` the death of the process. `ApplyDecision` is
what `apply_review_decision` does to an imported offer: its payload hash changes.

`MailExchange`: `StartSend` loads the request, `Refused`/`Delivered` is `transport.send` (a
refusal may be an answer that got lost), `CheckPath`, `OpenFile`, `FinishFile` are
`path.exists()` and `write_bytes`, `LookUpSent` the two SELECTs, `CommitSent` the commit,
`CommitSendFailure` the `except` block with its own commit. `StartReplay` looks for the
message and links it, `InsertMessage` is the flush, `AddAttachment` one turn of the loop,
`CommitReplay` and `CommitReplayFailure` the two ends. `Abort` is the death of a call, and
also a commit that fails: SQLAlchemy refuses the handler's second commit on a transaction
that has failed, so nothing is recorded.

`Documents`: an API call has its own session. `StartCreate` is the lookup by key and payload
hash, `ReadVersion` the `max(version)`, `CommitCreate` the insert, which loses if the version
was taken meanwhile. `StartRender` opens (and so empties) the PDF at its final path,
`WritePdf` fills it, `ReadBack` reads it again for its hash, `CommitRender` stores that hash
and FINALIZED. `StartBudget` and `CommitBudget` are lookup and insert of the update. `Abort`
ends a call anywhere and leaves the file as it is.

`FolderRun`: `Start` resolves the provider or raises, `Parse` is the loop over the files,
`StartStage` to `RequestFails` (in `LlmStage`) are the model stage with its `try`, `Decide`
the status of the run and `apply_verified_llm_results`, `Export` the XLSX, `WriteReport` the
report, `Raise` an exception outside the stage, `Die` the death of the process. `run.command`
tells the two commands apart: the assignment exports before it asks, lets an exception of the
stage end the run and never applies an answer. An answer of the model is any row sequence
`AnswersTo` gives, checked as a whole (`Answers`) and then row by row (`Guarded`,
`Reconcile`, `Updated`).

`PriceAlgorithms`: its state is a task and its answer; the work is in the operators it calls,
which are read beside the code: `ReadRow` is one turn of the loop in `_extract_mapped_rows`,
which carries the last name from row to row, and `ReadSheet` one turn of the loop in
`GenericParser.extract`, which carries the header from sheet to sheet; `ParseQuery` takes tokens out of a query in the code's
order, `Search` resolves, scores, filters and ranks in the code's order.

### Abstractions

- A hash (fingerprint, decision key, idempotency key, payload hash) is what it is computed
  from: equal exactly when the hashed content is.
- Values of fields are not modelled; which command set a field is. Two commands that set
  different values are two commands.
- In the files, warnings and search keys are left out. `requires_review` is "has a reason",
  the way the parser writes it.
- In the database, flush and commit are one atomic step, so `decided_at` orders decisions
  as their commits do; a unique key violated at a flush is a failed transaction all the
  same. A review item's fingerprint is written once at import, so the check at
  `db/services.py:489` never fails in this model.
- In an import, documents, suppliers and source rows are found or added by content; they
  appear as one more reason to fail. The two queues are read in one step (their SELECTs
  touch tables only imports write). `decided` marks a payload an applied decision rewrote,
  which is taken to differ from every parsed row.
- In mail, a SELECT does not fail. An attachment is its content and safe file name; whether
  it is accepted is a property of it. Bodies, dates and addresses are left out. A mail names a
  request only after a delivery of it, its ids being hashes.
- In documents, the hash of a payload is the payload (neither type nor deal is part of it).
  Rendered files differ in every rendering, as their timestamps make them. Money is in whole
  hundredths, inputs in whole thousandths and rates in whole percents, which is where the
  rounding of `Decimal` can be seen; `disturbed` is history.
- In parsing, what a regular expression recognises is data: a cell says whether it is a
  number, begins like a size or names a profile; a row lists the notations found in it. The
  model is of what the code does with them: which one wins, what the others cause, what is
  carried on to the next row. A cell that holds the number 0 is a number without a text, as
  `normalize_space` has it: it counts as a stock where the code asks for a number, and as
  nothing where it asks for a text. `NormalGrade`, `GradeKey`, `Spelling`, `Similarity` and the
  like are constants for the same reason. Display texts and hints are left out.
- In the LLM pipeline, a quotation is what may be read from it; tokens, costs, progress and
  the text of prompts are left out. A request fails with anything that is not retried. The
  row shown to the model is that of the folder command (the assignment's has no material and no
  columns, and its rows are only counted); no workbook has several sheets of doubtful rows,
  which the folder command would send mixed by row number.
- `HeaderRows` is 3 in the instance and 500 in the code: the place where the search for a
  header stops is reached by short sheets.
- `delivered` is the server's knowledge, `failures` counts audit events; `unfinished`, `orphans` and the `report` of a job are history: no action's guard reads
  them.

Definitions commented `Mutant:` stand beside the definition they are a faulty variant of.
No specification uses them: replacing the real one by the variant must break a property,
which shows that the property depends on that piece of the code.

## 3. Checks

| Run | Instance | States | Shows |
|---|---|---|---|
| `review_recording` | 2 processes, 2 offers, 3 parses, 5 commands, journal <= 2 | 156 thousand | `RecordTypeOK`, `JournalChained`, `TornLineIsLast`; implements `DecisionJournal`; `EveryCallEnds` |
| `review_list` | the same | - | counterexample to `ResolvedIsBoundToSource` |
| `review_application` | 1 writer, 1 applier, 3 parses, journal <= 2 | 3.4 million | `OutputIsFaithful`, `FilesAgree`, `AuditFollowsOutput`, `AuditOnlyGrows` |
| `persisted_review` | 2 sessions, 2 offers, 5 commands, <= 2 decisions | 881 thousand | `AuditTrail`, `StatusFollowsDecisions`, `FieldsAreDecided`, `DecisionsAreSound` however requests interleave; `RowIsConsistent`, `StatusIsLatest`, `ChainIsLinear`, `AppliedOnceApart` of offers on which they never overlapped |
| `applied_twice` | 2 sessions | - | counterexample to `AppliedOnce` |
| `mail_exchange` | 2 sessions, 2 requests with one key, 2 of 4 mails, <= 2 failures | 2.2 million | `SentIsTrue`, `DeadLettersTried`, `RepliesAreLinked`, `MessagesAreWhole`, `StoredOnce` |
| `mail_original` | the same with one mail | - | counterexample to `OriginalIsKept` |
| `pilot_import` | 2 imports at a time, 3 keys, 3 reports | 70 thousand | `AllOrNothing`, `LinksAreTrue`, `CountsAreTrue`, `OffersAreKept`, `JobsEnd` |
| `documents` | 2 calls, 1 key, 3 payloads, <= 2 versions, <= 3 renderings | 424 thousand | implements `DocumentRegister`; `PdfIsTheFile` |
| `folder_run` | 15 sets of arguments, 4 rows, batches of 1 and 2, 2 retries | 51 thousand | `SourceStatesEveryChange`, `AllOrNothing`, `RowsAreSettled`, `ReportIsTrue`, `RunEnds` |
| `price_algorithms` | some 20 thousand tasks | 40 thousand | `ReadingIsFaithful`, `SearchFindsWhatIsMeant`, `MatchesAreJustified`, `TotalsAddUp` |
| `confirmed_matches` | the same | - | counterexample to `OnlyConfirmedMatches` |

Bounds, and why they are enough to meet the interesting cases:

- `MaxJournal = 2` lets a second decision on the same offer follow, repeat or contradict
  the first while a third call waits for the lock or finds the journal unreadable, and lets
  a second record be written behind a missing newline; the offer's chain, repetition and
  staleness need no more. `MaxDecisions = 2` leaves room to send a recorded command again:
  confirm, defer, confirm again and apply on one offer, alone or across another's request.
- The parses change a row's source, add a reason, close the reasons, and remove the row.
- The commands confirm, defer, change one or another field, and include two the code
  refuses (a change without a rule, a field outside the permitted ones).
- The reports repeat a row, share a row, contradict one another about a row and queue an
  offer that is missing unless another import brought it; three keys let two imports race
  after a first one has completed.
- The mails: a reply with a rejected and an accepted attachment, another mail with its
  Message-ID and a repeated attachment, one without Message-ID, a copy of a request. Any two
  of them meet (`MaxMails`); `MaxRetries = 2` and `MaxFailures = 2` reach RETRY, DEAD_LETTER,
  a lost increment, and a late failure over a SENT request.

- Documents: with two versions, a second call may number the version the first is about to
  commit, or lose to it; with three renderings, two may meet on one file after it was final.
  One key is enough: keys share no row and no file.
- The arguments of `folder_run` hold every provider, a key that is missing, a live model that
  is required or not, a cap below the number of candidates, a batch size the code refuses, a
  replay, the mock, queries that are exact, corrected and unknown, and both commands. An
  answer varies one row at a time (a changed grade or size, quoted, unquoted or with another
  row's words, low confidence, knowledge instead of the source, a warning), swaps two rows,
  leaves one out, repeats them or invents an id.
- The tasks: sheets of two rows with a header above, between or in no row, followed by a
  second sheet; product rows with a name, without one, with a remark, a total, a delivery
  note, a size for a name, a block shifted to the left; inventories whose grades contain one
  another and a bare number; catalogues with every pair of statuses of alias and relation;
  amounts at the half, a discount equal to the subtotal, rates 0, 100 and beyond.

Deadlock is not checked in the mail runs and in `documents`, which stop once everything
within the bounds is settled, nor in `folder_run` and `price_algorithms`, where a run ends
and a task is answered. Sessions are symmetric in `persisted_review`, `mail_exchange` and
`documents`, whose properties have no liveness part and name no session; the runs with
liveness properties use no symmetry, which would make them unsound.

### Fairness

`FairRecordSpec` and the `FairSpec` of `PilotImport` assume weak fairness of `Step(p)` for
each process: a call that has begun goes on executing. That is the operating system's
scheduling of a running program. Nothing is assumed of new commands, new imports, parses,
crashes or of which branch a step takes: `Fail` and `AppendFails` may be taken every time,
or never. The waiting loop needs no fairness of the lock: `GiveUp` is enabled whenever
`AcquireLock` is not, as the code's deadline makes it. Safety properties are checked under
the same specifications; fairness does not restrict them. `FolderRun` assumes `WF_vars(Work)`:
one sequential program goes on by itself. Its choice of what the model answers, of a timeout
and of a failure stays free, so `RunEnds` rests on the bound on retries, not on an answer;
`Die` is outside `Work` and ends the run as well.

### Findings

- The decision journal may be lost, with decisions that were reported as recorded.
  `record_decision` (`operator_review.py:224`) writes `json + "\n"` behind whatever the file
  ends in, and no load looks at the final newline. A line broken off inside its record makes
  every later load raise, and nothing more is written. A line broken off just before its newline
  loads; the next decision is written behind it, on the same line, its call answers that it is
  recorded, and from then on every load raises. `docs/OPERATOR_REVIEW.md:10` and
  `CHANGELOG.md:261` call the journal append-only. It is: nothing is taken out of it. But
  `review_recording` shows that it implements only an abstract journal with the step `Lose`.
- `review list` hides a row that must be decided again. `list_review_items`
  (`operator_review.py:112`) does not compare the fingerprint of the latest confirmed
  decision with that of the row; `docs/OPERATOR_REVIEW.md:76-77` says the decision is bound
  to the source row's fingerprint, and `review apply` does compare them. The row stays in
  REVIEW and is listed as resolved (run `review_list`).
- `apply_review_decision` is idempotent for calls one after the other, as
  `tests/test_db_api.py:153` requires, not for calls that overlap: both report that they
  applied, and the later one replaces `applied_by` (run `applied_twice`).
- A nomenclature match may ask for no review although a name it rests on is only proposed, or
  its grade is rejected. `_match_grade` (`nomenclature/service.py:220`) looks a relation up by
  the ids the two grades resolve to and forgets by what they resolved; `_relation_match` looks
  at the relation's status alone. `docs/SEARCH_DATA_FORMAT.md:58-59` allows PROPOSED only with a
  review and excludes REJECTED, and the branch for aliases (202-217) demands the review (run
  `confirmed_matches`).

- The original of a mail may be lost. `_store_raw` (`mail/service.py:612`) writes in place
  and trusts any file it finds at the path: a write that stops half way leaves a torn file
  which the retry records as the mail, with the hash of the whole one.
  `docs/MAIL_PIPELINE_V0_6_0_RC1.md:10` lists the original `.eml` as kept (run
  `mail_original`).

More consequences of the code that contradict no document:

- Import: a key whose import failed or died answers its job for ever and is never retried
  (`db/services.py:95`); a row whose offer was decided collides when it is imported under
  another key (159).
- Mail: a request is sent at least once, not at most once; a late failure turns SENT into
  RETRY, and a DEAD_LETTER request is sent when asked for. A mail that failed once answers as
  DEAD_LETTER for ever (`mail/service.py:243`), and one that holds an attachment twice can
  never be stored. When a copy of a request is received before its sender has recorded it,
  the copy is the only message of the request.
- Documents (`documents/service.py`): payload A, then B, then A again answers version 1 while
  version 2 is the newest, and a QUOTE answers a call for an INVOICE with the same payload
  (135); a final document is rendered again, over the file whose hash is stored (227); the
  budget of a deal may be set back by an older version (259).
- Reading and search: in a block shifted to the left the stock is that of the fifth column,
  whatever the header says (`suppliers/generic.py:193`); of several unmarked numbers
  in a query the last one is the size (`search.py:388`) and the others are dropped, as every
  token of digits is (470): the query then has a name without terms, and finds only what is
  of the profile it names, or nothing (414); a near grade with the exact size hides the exact
  grade with a near size (`nomenclature/service.py:70-150`), and the warning
  `AMBIGUOUS_FUZZY_TIE` of a response is never added: the test compares the bare word with
  the whole text of a row's warning (155).
- Database review: the guarantees of `PersistedOverlap` are lost when two requests on one offer
  overlap: a stale payload loses a field, an item ends RESOLVED under a deferral, a chain forks.
- Folder run: when `llm_batches.json` cannot be written, the run fails and nothing
  marks the batch FAILED in it (`interactive_run.py:932`, 989).

## 4. Proofs

All theorems hold for arbitrary sets of processes, offers, rows, keys and commands.

**Journal** (`ReviewApplicationProofs`, from `RecordInv`). That an append is safe depends on
the journal having kept still since it was loaded; `LockHeld` and `AppendIsPrepared` say
so. With them: `JournalIsChained`; `TornLineStaysLast`: a line that does not load changes only
when the call that is writing it completes it; and `JournalImplemented`: every step of
`RecordSpec` is a `Record` of the abstract journal, its `Lose`, or a stutter. `Lose` is a line
cut inside its record by a call that is gone, or a line begun behind a missing newline.

**Application** (`ReviewApplicationProofs` as well). `ReviewImplementsRecord` carries the journal's
theorems over to the composition. `FaithfulInv` adds that rows computed but not yet written
are faithful to a journal that only grows: `OutputFaithful`, for any number of appliers.
`ProgressInv` says how far the applier is and what its local rows and audit already cover;
from it, and from the assumption that there is one applier, follow `OneApplierFilesAgree`,
`OneApplierAuditOnlyGrows` and `OneApplierAuditFollowsOutput`. With two appliers they are
false: the code takes no lock there.

**Database review** (`PersistedReviewProofs`, from `ReviewInv`). A request acts on what it
loaded; `Loaded(s)` says which of it still holds: the item is there with the same source and
was not opened again, the command's predecessor is a decision on the same offer, every
value in the loaded row is accounted for by applied decisions. That is enough for
`AuditIsExact`, `StatusIsEarned`, `FieldsOnlyDecided` and `DecisionsSound`.

**Database review, requests apart** (`PersistedReviewProofs`, from `SerialInv`, for any number
of sessions, offers, commands and decisions). `overlapped` is history: the offers on which two
requests were ever in progress together. What a request has loaded of any other offer is what
the tables still hold (`UpToDate`): the item, the row, the newest decision, and that it was not
applied yet. An UPDATE then writes all it set, so `RowStaysConsistent`, `StatusStaysLatest`,
`ChainStaysLinear` and `AppliedOnlyOnce` follow, whatever requests do on other offers. The
restriction is needed: run `applied_twice` refutes the last of them without it.

**Import** (`PilotImportProofs`, from `ImportInv`). `OneWorker` gives a RUNNING job to one
session; `WorkSound` says what that session holds: each link agrees with the payload it saw
and is marked CREATED exactly for the offers it created; links and offers account for the
rows read so far (`CountsSound` counts them); the queues are covered. `SoundnessKept` is the
heart: tables only grow, so all this survives other imports' commits, and a commit without a
conflict turns it into `ImportIsAtomic`, `LinksTellTheTruth`, `CountsTellTheTruth`;
`ImportKeepsOffers` is the action property.

**Mail** (`MailExchangeProofs`, from `MailInv`). Nothing is ever taken out of the tables or
off the disk (`TablesGrow`), so what a session has done stays true while others move:
`SenderSound` (the request is there, its counter was not invented, what is recorded as SENT
was accepted), `ReceiverSound` (the mail is linked, the attachments so far are its first
ones and have their files), `PenSound` (who holds a pen has a file). `MessagesApart` says of
messages inserted but not committed what the unique keys say of committed ones: a flush
waits for another's, so no two calls hold the same message. A step adds one message at most,
with new keys, linked and whole (`Adds`). Theorems: `SentIsAlwaysTrue`,
`DeadLettersAreTried`, `RepliesAreAlwaysLinked`, `MessagesStayWhole`, `MessagesStoredOnce`,
`MailTypeCorrect` (of `MailTypeOK`, which no run lists any more).

**Documents** (`DocumentsProofs`, from `DocumentsInv`). `Read(s)` says that what a call has
read is out of date only in ways its commit notices: the version it counted from is still
there, so the number it takes is the next one or is refused. `RendersAlone(s)` says that a
rendering nobody disturbed is alone and the file is its own. From them follow
`VersionsAreNumbered`, `PdfStaysTheFile`, and `RegisterImplemented`: every step of `Spec` is
a step of `DocumentRegister` or a stutter.

**Folder run** (`FolderRunProofs`, from `FolderInv`, for every folder, every set of arguments
and every answer a model may give). The properties say little of how they come about, so the
invariant has a part for each stretch of the run:

- `AreSafe(rows)`: a row kept so far belongs to one item in doubt, is a fixed point of
  `Reconcile`, bears the decision recomputed from it, and each value it confirms is written in
  a quotation of that item's own row. `SafeRow` proves this of any answer that fits the schema,
  whatever is in it; guarding and reconciling are what makes it so.
- `SelectedInv`, `BatchesInv`: the selected items are in doubt and differ; while a batch is
  asked about, every batch before it is VERIFIED and the rows are exactly those of the items
  before it. This is why a batch that fails after others succeeded cannot leave a part behind.
- `StageInv`, `ItemsInv`, `OutputInv`: a VERIFIED stage has a row for each item selected; the
  items are those parsed until the rows are applied, all in one step; the workbook holds the
  items the status allows.

From it follow `EveryChangeIsStated`, `RowsStaySettled`, `ReportStaysTrue`, and the action
property `AppliedAllOrNothing`. Three assumptions on constants are needed and say what lies
outside: `GradesAssumption` (normalising a grade twice is normalising it once; a text like
`[ X`, of which the first time strips the bracket only, is outside), `SourcesAssumption` (no two rows have source ids that differ
only by spaces) and `ParsedAssumption` (the parser writes only grades of `Grades` or the
assumed one).

**Totals** (`TotalsAlwaysAddUp`, for every payload with amounts in whole hundredths).
`HalfUpIs` characterises the rounding as the whole number less than or just a half away,
`VatOnTopIsInside` and `VatInsideIsOnTop` relate the two ways to compute a VAT with it, and
`SumTableExists` unfolds the fold behind the subtotal, so that it may be compared, summand by
summand, with the sum of the lines.

**Matching** (`MatchesAlwaysJustified`, for every catalogue, request and list of items).
`Resolved` and `RelationFound` say which record a grade or a relation was found by,
`MatchIsJustified` that a match without a review rests on confirmed ones. For equivalents this
is said only where no proposed name and no rejected grade stands behind either spelling
(`IsSettled`): elsewhere it is false, as run `confirmed_matches` shows. `ResultsOfOneKind`
is why near sizes never stand beside exact ones. `MarkedResults` shows that no two results
have one sort key, the id of the item being its last part; then `OrderedByKeys` (a finite set
whose keys differ is listed once each, in the order of the keys) gives the order, which the
limit cuts off without disturbing. `IsInquiry` is what loaders and request classes guarantee:
ids that are unique, sizes that are positive, a similarity that is a percentage, a limit of 1
to 200.

**Free search** (`SearchAlwaysListsMatches`, for every list and every query). The property,
`SearchListsMatches`, is stated beside the proof: there is a one-to-one correspondence between
the places of the answer and the items that match the parsed query, exact sizes stand before
near ones, smaller differences before larger, and items of one rank keep the order of the
list, as Python's stable sort has it. `SizesAreWhole` bounds what a query can ask for at three
sizes; `OrderedByKeys` does the rest.

**Reading** (`ReadingAlwaysFaithful`, for every workbook of any number of sheets and rows). The
property has three parts, and so has what is carried through the folds:

- Order. `InOrder` says that of any two items of a list the first stands before the second,
  not only of neighbours; so it is kept when a list is put behind another all of whose items
  come earlier (`ConcatInOrder`, `Flattened`), and rows, the two sides of a row and sheets
  are added in that order.
- Origin. `RowsRead` says that the last name held, if any, was read in a row of the same sheet
  and above, under the same header; with `ColumnsAre` (what a row is taken to hold is in its
  cells, and evidence of a product stands under a header other than those of name and grade)
  each item a row adds satisfies `ComesFrom`.
- Completeness. `PricedIsProduct`: a row with a name and a price under the header that holds is
  a product, whatever else it holds and whatever was read before. `Carried(sheets, k)` is the
  header found last in the first k sheets; `InForceIs` relates it to the header `InForce`
  defines at each row, above, below and without a header of its own. `SheetIsRead` shows
  sheet after sheet that the mapping held is the one carried (`SheetsRead`).

`GenericRead`, for unknown suppliers, and `SupplierRead`, for the three known ones, put these
together in `WorkbookIsRead`. `IsWorkbook` is all that is assumed of a workbook: it has a
sheet, rows are sequences of cells, and what begins like a size has a text.

Assumptions: the named ASSUMEs on constants (`ParsesAssumption`, `FreeAssumption`,
`CommandsAssumption`, `NoneAssumption`, `ReportsAssumption`, `MailsAssumption`,
`NamesAssumption`, `DocumentsAssumption`, `LlmStageAssumption`, `SourcesAssumption`,
`ParsedAssumption`, `GradesAssumption`, `BlankAssumption`, `TasksAssumption`), which TLC evaluates on the
instances. The totals of `DocumentTotals` enter the proofs about documents as a function of
the content; nothing is assumed of its values there.

What a fold or a recursive function computes is proved without induction over data: the least
place at which a statement fails is taken, and the place before it refutes it (`Bad` in the
proofs, `Counting` as a lemma). That a fold has a value at all is a theorem too:
`FoldTableExists` builds the table it is read from, one place at a time. `Ordered` and `Only`
are written out because the library's `SortSeq` and `SelectSeq` are opaque to the provers.

Only model-checked: `EveryCallEnds`, `JobsEnd` and `RunEnds` (liveness is out of the prover's
reach); and `SearchFindsWhatIsMeant`, which compares an answer with what the queries of the
instance were written to mean, and has no meaning for other queries (`SearchAlwaysListsMatches`
is what can be said of every query).

## 5. Plan

Done, in the order of importance: recording, application, persisted review, import, mail,
documents, the LLM pipeline, and the pure algorithms of reading, search, matching and money;
every safety property the runs check is proved but the one named above.

1. `pilot_runner.py`: the evaluation run with its budget, beside `LlmStage`.
2. Larger inventories and catalogues for `price_algorithms`, as the time of a run allows.

## 6. Not modelled, and why

- The regular expressions of `normalization.py` and `search.py`: text heuristics whose
  correctness is a matter of examples; what is done with what they find is modelled.
- XLSX and PDF layout, argument parsing, printing, logging, API schemas: translation without
  state. The precedence of environment files (`config.py`) is a chain of defaults.
- `llm/offline_audit.py`: a fixed list of self-checks on invented rows, run one after another on
  functions `LlmRows` models; it has no input and no state.
- `record_llm_run`: one lookup and one insert by fingerprint that nothing reads again;
  `list_reviews` and the counts of the API are single queries.
- `enrich_items`, `openai_provider.py`, `replay.py` (the older `parse --llm`) and
  `pilot_runner.py`: the same request and checks as `LlmStage`, with measurements around them.
- Migrations: the unique keys they create are assumed by the database modules.
- `IMAPMailbox`: nothing in the repository calls it; it reads without marking or deleting.
- Some rows of `parse_raw_item` that only write texts (display, hints, warnings).
