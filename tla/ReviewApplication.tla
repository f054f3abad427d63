-------------------------- MODULE ReviewApplication --------------------------
(***************************************************************************)
(* apply_confirmed_decisions (src/price_parser/operator_review.py), running *)
(* beside the processes of OperatorReview that record decisions.  It takes *)
(* no lock: it reads the parsed rows, the journal and the audit one after  *)
(* the other, computes the result, and replaces three files in turn, each  *)
(* by an atomic rename.  It may stop, by an error or a crash, between any  *)
(* two of these steps.                                                     *)
(***************************************************************************)
EXTENDS OperatorReview

CONSTANTS Appliers  \* processes that run "review apply"

VARIABLES
  output,     \* normalized_items_reviewed.jsonl
  remaining,  \* normalization_review_queue_remaining.jsonl
  audit,      \* operator_review_audit.jsonl: its rows, each under its application_id
  place,      \* how far each applier is
  work,       \* what it has read and computed
  unfinished  \* history: who began to replace the files and did not complete

fileVars   == <<output, remaining, audit>>
applyVars  == <<output, remaining, audit, place, work, unfinished>>
reviewVars == <<items, queue, decisions, tail, lock, pc, call,
                output, remaining, audit, place, work, unfinished>>

RowsOrNone == [Offers -> Rows \cup {None}]
NoRows     == [o \in Offers |-> None]
NoWork     == [items |-> NoRows, rows |-> NoRows, new |-> {}, audit |-> {}]

Stages == {"idle", "items read", "decisions read", "audit read",
           "output written", "remaining written"}

ApplyTypeOK ==
  /\ output \in RowsOrNone
  /\ remaining \in RowsOrNone
  /\ audit \subseteq Applications
  /\ place \in [Appliers -> Stages]
  /\ work \in [Appliers -> [items : [Offers -> Items \cup {None}], rows : RowsOrNone,
                            new : SUBSET Applications, audit : SUBSET Applications]]
  /\ unfinished \subseteq Appliers

ReviewTypeOK == RecordTypeOK /\ ApplyTypeOK

ApplyInit ==
  /\ output = NoRows
  /\ remaining = NoRows
  /\ audit = {}
  /\ place = [a \in Appliers |-> "idle"]
  /\ work = [a \in Appliers |-> NoWork]
  /\ unfinished = {}

-----------------------------------------------------------------------------
Move(a, from, to) ==
  /\ place[a] = from
  /\ place' = [place EXCEPT ![a] = to]

ReadItems(a) ==
  /\ Move(a, "idle", "items read")
  /\ work' = [work EXCEPT ![a].items = items]
  /\ UNCHANGED <<recordVars, fileVars, unfinished>>

\* The journal is read without the lock, so a line that is just being appended
\* makes it unreadable, as a lost one is: the call then ends with an error (StopApply).
ReadDecisions(a) ==
  /\ Readable
  /\ Move(a, "items read", "decisions read")
  /\ work' = [work EXCEPT ![a] = [NoWork EXCEPT
                 !.rows = OutputRows(work[a].items, decisions),
                 !.new  = ApplicationsOf(work[a].items, decisions)]]
  /\ UNCHANGED <<recordVars, fileVars, unfinished>>

\* Mutant: the audit is written from this run's applications alone.
AuditNotRead(a) ==
  /\ Move(a, "decisions read", "audit read")
  /\ work' = [work EXCEPT ![a].audit = work[a].new, ![a].new = {}]
  /\ UNCHANGED <<recordVars, fileVars, unfinished>>

\* Rows already audited are kept; an application is added unless its id is there.
ReadAudit(a) ==
  /\ Move(a, "decisions read", "audit read")
  /\ work' = [work EXCEPT ![a].audit = audit \cup work[a].new, ![a].new = {}]
  /\ UNCHANGED <<recordVars, fileVars, unfinished>>

WriteOutput(a) ==
  /\ Move(a, "audit read", "output written")
  /\ output' = work[a].rows
  /\ unfinished' = unfinished \cup {a}
  /\ UNCHANGED <<recordVars, remaining, audit, work>>

WriteRemaining(a) ==
  /\ Move(a, "output written", "remaining written")
  /\ remaining' = RemainingOf(work[a].rows)
  /\ UNCHANGED <<recordVars, output, audit, work, unfinished>>

\* Mutant: the audit is replaced before the output.
AuditWrittenFirst(a) ==
  /\ Move(a, "audit read", "idle")
  /\ audit' = work[a].audit
  /\ work' = [work EXCEPT ![a] = NoWork]
  /\ unfinished' = unfinished \ {a}
  /\ UNCHANGED <<recordVars, output, remaining>>

WriteAudit(a) ==
  /\ Move(a, "remaining written", "idle")
  /\ audit' = work[a].audit
  /\ work' = [work EXCEPT ![a] = NoWork]
  /\ unfinished' = unfinished \ {a}
  /\ UNCHANGED <<recordVars, output, remaining>>

\* An error (an unreadable journal, a write that fails) or the death of the
\* process: the files replaced so far stay, the others keep their old contents.
StopApply(a) ==
  /\ place[a] # "idle"
  /\ place' = [place EXCEPT ![a] = "idle"]
  /\ work' = [work EXCEPT ![a] = NoWork]
  /\ UNCHANGED <<recordVars, fileVars, unfinished>>

ApplyNext ==
  \E a \in Appliers :
    \/ ReadItems(a)
    \/ ReadDecisions(a)
    \/ ReadAudit(a)
    \/ WriteOutput(a)
    \/ WriteRemaining(a)
    \/ WriteAudit(a)
    \/ StopApply(a)

ReviewInit == RecordInit /\ ApplyInit

ReviewNext ==
  \/ RecordNext /\ UNCHANGED applyVars
  \/ ApplyNext

ReviewSpec == ReviewInit /\ [][ReviewNext]_reviewVars

-----------------------------------------------------------------------------
(***************************************************************************)
(* Properties.                                                             *)
(***************************************************************************)

\* A row of the reviewed output carries a decision only if that decision was in
\* the journal, confirmed, on this offer and on exactly this source; and it closes
\* no review reason the operator had not seen when deciding.
FaithfulRow(s, o, row) ==
  IF row.decision = None THEN row.open = row.raised
  ELSE \E i \in DOMAIN s :
         /\ s[i].key = row.decision
         /\ OfferOf(s[i].key) = o
         /\ IsConfirmed(s[i])
         /\ s[i].key.fp = row.fp
         /\ row.raised \ row.open \subseteq s[i].reasons

OutputIsFaithful == \A o \in Offers : output[o] # None => FaithfulRow(decisions, o, output[o])

\* Unless an application is under way or was broken off, the three files agree:
\* what is left in the queue is what the output still wants reviewed, and every
\* decision the output carries is in the audit.  A later run repairs what a
\* broken-off one left.
FilesAgree ==
  unfinished = {} =>
    /\ \A o \in Offers :
         remaining[o] = IF output[o] # None /\ output[o].open # {} THEN output[o] ELSE None
    /\ \A o \in Offers : output[o] # None /\ output[o].decision # None =>
         [decision |-> output[o].decision, fp |-> output[o].fp, status |-> "APPLIED"] \in audit

\* The audit is written last: a row that claims an application is added only
\* when the output already carries it.
AuditFollowsOutput ==
  [][\A r \in audit' \ audit : r.status = "APPLIED" =>
       /\ output[OfferOf(r.decision)] # None
       /\ output[OfferOf(r.decision)].decision = r.decision]_audit

\* With one applier at a time no run ever drops a row of an earlier run's audit,
\* whatever it was broken off by.
AuditOnlyGrows == [][audit \subseteq audit']_audit

-----------------------------------------------------------------------------
(***************************************************************************)
(* The inductive invariants behind these properties.                       *)
(***************************************************************************)
\* Rows computed but not yet written are as faithful as the written ones.
WorkIsFaithful ==
  \A a \in Appliers, o \in Offers :
    work[a].rows[o] # None => FaithfulRow(decisions, o, work[a].rows[o])

FaithfulInv == ReviewTypeOK /\ WorkIsFaithful /\ OutputIsFaithful

\* The applications `rows` stand for: each decision they carry is among `apps`,
\* and each "APPLIED" of `apps` is a decision they carry.
Covers(apps, rows) ==
  \A o \in Offers : rows[o] # None /\ rows[o].decision # None =>
    [decision |-> rows[o].decision, fp |-> rows[o].fp, status |-> "APPLIED"] \in apps

Carries(rows, apps) ==
  \A r \in apps : r.status = "APPLIED" =>
    rows[OfferOf(r.decision)] # None /\ rows[OfferOf(r.decision)].decision = r.decision

AuditRead == {"audit read", "output written", "remaining written"}

\* How far applier a is, when it is the only one.
Progress(a) ==
  /\ place[a] = "decisions read" =>
       Covers(work[a].new, work[a].rows) /\ Carries(work[a].rows, work[a].new)
  /\ place[a] \in AuditRead =>
       /\ Covers(work[a].audit, work[a].rows)
       /\ Carries(work[a].rows, work[a].audit \ audit)
       /\ audit \subseteq work[a].audit
  /\ place[a] \in {"output written", "remaining written"} =>
       output = work[a].rows /\ a \in unfinished
  /\ place[a] = "remaining written" => remaining = RemainingOf(work[a].rows)

ProgressInv == ReviewTypeOK /\ FilesAgree /\ \A a \in Appliers : Progress(a)
=============================================================================
