----------------------------- MODULE PilotImport -----------------------------
(***************************************************************************)
(* import_pilot_report (src/price_parser/db/services.py): a report of      *)
(* parsed rows is imported into the database under an idempotency key.     *)
(* The job is committed as RUNNING on its own; the rows follow in one      *)
(* transaction that ends with the job COMPLETED, or is rolled back and the *)
(* job committed as FAILED.  Imports run at the same time, in sessions of  *)
(* their own that see what is committed when they read; a process may die  *)
(* at any step; and decisions are applied to imported offers meanwhile.    *)
(*                                                                         *)
(* A hash is modelled by what it is computed from.  Documents, suppliers   *)
(* and source rows are looked up or added by their content; an import they *)
(* make fail is one of the failures of Fail.                               *)
(***************************************************************************)
EXTENDS Naturals, Sequences, FiniteSets

CONSTANTS
  Offers,    \* identifiers of parsed rows
  Parsed,    \* contents of a row, as parsed
  Reports,   \* contents a report directory may have
  Keys,      \* idempotency keys
  Sessions,  \* imports in progress at the same time
  None

\* A report: the rows of normalized_items.jsonl, in order, and the offers named
\* by its review queue and by its reference queue.
ReportRows == [offer : Offers, parsed : Parsed]

ASSUME ReportsAssumption ==
  \A r \in Reports : /\ r.rows \in Seq(ReportRows)
                     /\ r.review \subseteq Offers
                     /\ r.reference \subseteq Offers

Counts  == [input : Nat, created : Nat, existing : Nat, links : Nat]
Jobs    == [status : {"RUNNING", "COMPLETED", "FAILED"},
            counts : Counts \cup {None},
            report : Reports \cup {None}]   \* history: what a completed job imported

\* payload: the row as stored; a decision applied to it changes it.
Payloads == [parsed : Parsed, decided : BOOLEAN]
Stored   == [payload : Payloads, job : Keys]
Links    == [job : Keys, offer : Offers, state : {"CREATED", "EXISTING"}, parsed : Parsed]

ASSUME NoneAssumption == None \notin Jobs \cup Stored \cup Payloads \cup Keys \cup Reports \cup Counts

VARIABLES
  jobs,     \* import_jobs: the job of a key, None if there is none
  offers,   \* offers
  links,    \* import_job_offers
  reviews,  \* offers with a row in review_items
  tasks,    \* offers with a row in reference_research_tasks
  audit,    \* keys of the jobs with a PILOT_IMPORT_COMPLETED event
  pc,       \* where each import is
  work,     \* what it has read, and has to insert
  orphans   \* history: jobs whose process died

tables == <<offers, links, reviews, tasks, audit>>
vars   == <<jobs, offers, links, reviews, tasks, audit, pc, work, orphans>>

NoCounts == [input |-> 0, created |-> 0, existing |-> 0, links |-> 0]

\* seen: the identity map, the payload of each offer the session has loaded or
\* created; fresh: those it created; links, reviews, tasks: rows to insert.
NoWork(k) ==
  [key |-> k, report |-> None, next |-> 1, seen |-> [o \in Offers |-> None], fresh |-> {},
   links |-> {}, reviews |-> {}, tasks |-> {}, counts |-> NoCounts]

Init ==
  /\ jobs = [k \in Keys |-> None]
  /\ offers = [o \in Offers |-> None]
  /\ links = {} /\ reviews = {} /\ tasks = {} /\ audit = {}
  /\ pc = [s \in Sessions |-> "idle"]
  /\ work = [s \in Sessions |-> NoWork(None)]
  /\ orphans = {}

-----------------------------------------------------------------------------
GoTo(s, place) == pc' = [pc EXCEPT ![s] = place]

End(s) == GoTo(s, "idle") /\ work' = [work EXCEPT ![s] = NoWork(None)]

\* Mutant: the status is left at the column's default.
PendingJob == [status |-> "PENDING", counts |-> None, report |-> None]

NewJob == [status |-> "RUNNING", counts |-> None, report |-> None]

\* The files are there and hashed.  An existing job answers the call, whatever
\* its status: nothing is imported again.
Start(s, k) ==
  /\ pc[s] = "idle"
  /\ IF jobs[k] # None
     THEN UNCHANGED <<pc, work>>
     ELSE GoTo(s, "new key") /\ work' = [work EXCEPT ![s] = NoWork(k)]
  /\ UNCHANGED <<jobs, tables, orphans>>

\* The job is committed; its key may have been taken since (IntegrityError).
CommitRunning(s) ==
  /\ pc[s] = "new key"
  /\ IF jobs[work[s].key] # None
     THEN End(s) /\ UNCHANGED jobs
     ELSE /\ jobs' = [jobs EXCEPT ![work[s].key] = NewJob]
          /\ GoTo(s, "running")
          /\ UNCHANGED work
  /\ UNCHANGED <<tables, orphans>>

\* The files are read again; they need not be those that were hashed.
Load(s, r) ==
  /\ pc[s] = "running"
  /\ GoTo(s, "rows")
  /\ work' = [work EXCEPT ![s].report = r, ![s].counts.input = Len(r.rows)]
  /\ UNCHANGED <<jobs, tables, orphans>>

\* session.get(Offer, id): from the identity map, else from the table.
Found(s, o) ==
  IF work[s].seen[o] # None THEN work[s].seen[o]
  ELSE IF offers[o] # None THEN offers[o].payload
  ELSE None

\* Mutant: an offer that is there is taken to be the one in the report.
NeverCollides(payload, parsed) == FALSE

\* The offer is there, with another payload than the row of the report.
Collides(payload, parsed) == payload # [parsed |-> parsed, decided |-> FALSE]

\* Mutant: the link of a repeated row is counted again.
CountedTwice(c, created, linked) ==
  [c EXCEPT !.created  = IF created THEN @ + 1 ELSE @,
            !.existing = IF created THEN @ ELSE @ + 1,
            !.links    = @ + 1]

CountRow(c, created, linked) ==
  [c EXCEPT !.created  = IF created THEN @ + 1 ELSE @,
            !.existing = IF created THEN @ ELSE @ + 1,
            !.links    = IF linked THEN @ ELSE @ + 1]

\* What the session holds after row `row` of its report.
AfterRow(s, row) ==
  LET w       == work[s]
      created == Found(s, row.offer) = None
      linked  == \E l \in w.links : l.offer = row.offer
      link    == [job |-> w.key, offer |-> row.offer, parsed |-> row.parsed,
                  state |-> IF created THEN "CREATED" ELSE "EXISTING"]
  IN  [w EXCEPT !.next   = @ + 1,
                !.seen   = [@ EXCEPT ![row.offer] = [parsed |-> row.parsed, decided |-> FALSE]],
                !.fresh  = IF created THEN @ \cup {row.offer} ELSE @,
                !.links  = IF linked THEN @ ELSE @ \cup {link},
                !.counts = CountRow(@, created, linked)]

ReadRow(s) ==
  /\ pc[s] = "rows"
  /\ work[s].next \in DOMAIN work[s].report.rows
  /\ LET row   == work[s].report.rows[work[s].next]
         found == Found(s, row.offer)
     IN  IF found # None /\ Collides(found, row.parsed)
         THEN GoTo(s, "failing") /\ UNCHANGED work
         ELSE work' = [work EXCEPT ![s] = AfterRow(s, row)] /\ UNCHANGED pc
  /\ UNCHANGED <<jobs, tables, orphans>>

\* The queues: every offer they name must be there; the rows missing in
\* review_items and reference_research_tasks are to be inserted.
ReadQueues(s) ==
  /\ pc[s] = "rows"
  /\ work[s].next \notin DOMAIN work[s].report.rows
  /\ IF \E o \in work[s].report.review \cup work[s].report.reference : Found(s, o) = None
     THEN GoTo(s, "failing") /\ UNCHANGED work
     ELSE /\ GoTo(s, "complete")
          /\ work' = [work EXCEPT ![s].reviews = work[s].report.review \ reviews,
                                  ![s].tasks   = work[s].report.reference \ tasks]
  /\ UNCHANGED <<jobs, tables, orphans>>

\* Mutant: rows that are there by now are overwritten.
NoConflict(s) == FALSE

\* Another import has inserted one of these rows since it was looked for.
Conflict(s) ==
  \/ \E o \in work[s].fresh : offers[o] # None
  \/ work[s].reviews \cap reviews # {}
  \/ work[s].tasks \cap tasks # {}

\* Inserting the rows of session s, without regard to its job.
InsertRows(s) ==
  /\ offers' = [o \in Offers |-> IF o \in work[s].fresh
                                 THEN [payload |-> work[s].seen[o], job |-> work[s].key]
                                 ELSE offers[o]]
  /\ links' = links \cup work[s].links
  /\ reviews' = reviews \cup work[s].reviews
  /\ tasks' = tasks \cup work[s].tasks

Commit(s) ==
  /\ pc[s] = "complete"
  /\ IF Conflict(s)
     THEN GoTo(s, "failing") /\ UNCHANGED <<jobs, tables, work>>
     ELSE /\ InsertRows(s)
          /\ audit' = audit \cup {work[s].key}
          /\ jobs' = [jobs EXCEPT ![work[s].key] = [status |-> "COMPLETED",
                                                    counts |-> work[s].counts,
                                                    report |-> work[s].report]]
          /\ End(s)
  /\ UNCHANGED orphans

\* Anything else raises: a malformed file or row, a lost connection, a lock.
Fail(s) ==
  /\ pc[s] \in {"running", "rows", "complete"}
  /\ GoTo(s, "failing")
  /\ UNCHANGED <<jobs, tables, work, orphans>>

\* Mutant: the failed import is committed without a rollback.
FailWithoutRollback(s) ==
  /\ pc[s] = "failing"
  /\ ~Conflict(s)
  /\ InsertRows(s)
  /\ jobs' = [jobs EXCEPT ![work[s].key].status = "FAILED"]
  /\ End(s)
  /\ UNCHANGED <<audit, orphans>>

\* Mutant: the rollback is the only thing done.
FailSilently(s) == pc[s] = "failing" /\ End(s) /\ UNCHANGED <<jobs, tables, orphans>>

\* The rows are rolled back and the failure is committed.
CommitFailed(s) ==
  /\ pc[s] = "failing"
  /\ jobs' = [jobs EXCEPT ![work[s].key].status = "FAILED"]
  /\ End(s)
  /\ UNCHANGED <<tables, orphans>>

\* The process dies, or cannot even commit the failure: its rows are rolled
\* back and nobody takes over its job.
Crash(s) ==
  /\ pc[s] # "idle"
  /\ orphans' = IF pc[s] = "new key" THEN orphans ELSE orphans \cup {work[s].key}
  /\ End(s)
  /\ UNCHANGED <<jobs, tables>>

\* apply_review_decision rewrites the payload of an offer under review.
ApplyDecision(o) ==
  /\ o \in reviews
  /\ ~offers[o].payload.decided
  /\ offers' = [offers EXCEPT ![o].payload.decided = TRUE]
  /\ UNCHANGED <<jobs, links, reviews, tasks, audit, pc, work, orphans>>

\* What a started import goes on with.
Step(s) ==
  \/ CommitRunning(s)
  \/ \E r \in Reports : Load(s, r)
  \/ ReadRow(s)
  \/ ReadQueues(s)
  \/ Commit(s)
  \/ Fail(s)
  \/ CommitFailed(s)

Next ==
  \/ \E s \in Sessions : \/ \E k \in Keys : Start(s, k)
                         \/ Step(s)
                         \/ Crash(s)
  \/ \E o \in Offers : ApplyDecision(o)

Spec == Init /\ [][Next]_vars

\* A started import runs on; nobody owes the system a new one.
FairSpec == Spec /\ \A s \in Sessions : WF_vars(Step(s))

-----------------------------------------------------------------------------
(***************************************************************************)
(* Properties.                                                             *)
(***************************************************************************)
Places == {"idle", "new key", "running", "rows", "complete", "failing"}

Works ==
  [key : Keys \cup {None}, report : Reports \cup {None}, next : Nat,
   seen : [Offers -> Payloads \cup {None}], fresh : SUBSET Offers, links : SUBSET Links,
   reviews : SUBSET Offers, tasks : SUBSET Offers, counts : Counts]

ImportTypeOK ==
  /\ jobs \in [Keys -> Jobs \cup {None}]
  /\ offers \in [Offers -> Stored \cup {None}]
  /\ links \subseteq Links
  /\ reviews \subseteq Offers /\ tasks \subseteq Offers /\ audit \subseteq Keys
  /\ pc \in [Sessions -> Places]
  /\ work \in [Sessions -> Works]
  /\ orphans \subseteq Keys

IsCompleted(k) == jobs[k] # None /\ jobs[k].status = "COMPLETED"

\* An import is all or nothing: what is in the tables was put there by a
\* completed job, and a completed job has put there everything its report held,
\* however many imports raced, failed or died.
AllOrNothing ==
  /\ \A l \in links : IsCompleted(l.job)
  /\ audit = {k \in Keys : IsCompleted(k)}
  /\ \A o \in Offers : offers[o] # None =>
       \E l \in links : l.offer = o /\ l.job = offers[o].job /\ l.state = "CREATED"
  /\ \A k \in Keys : IsCompleted(k) =>
       /\ \A i \in DOMAIN jobs[k].report.rows :
            \E l \in links : l.job = k /\ l.offer = jobs[k].report.rows[i].offer
       /\ jobs[k].report.review \subseteq reviews
       /\ jobs[k].report.reference \subseteq tasks

\* Every link tells the truth: the offer is stored as this job's report had it
\* (a decision may have been applied to it since), and only the one job that
\* inserted it claims to have created it.
LinksAreTrue ==
  \A l \in links :
    /\ offers[l.offer] # None
    /\ offers[l.offer].payload.parsed = l.parsed
    /\ l.state = "CREATED" <=> l.job = offers[l.offer].job

\* The counts a completed job reports are those of the rows it left behind.
CountsAreTrue ==
  \A k \in Keys : IsCompleted(k) =>
    LET c == jobs[k].counts
    IN  /\ c.input = Len(jobs[k].report.rows)
        /\ c.created + c.existing = c.input
        /\ c.links = Cardinality({l \in links : l.job = k})
        /\ c.created = Cardinality({o \in Offers : offers[o] # None /\ offers[o].job = k})

\* No import overwrites an offer that is there, least of all one an operator has
\* decided on.
OffersAreKept ==
  [][\A o \in Offers : offers[o] # None =>
       /\ offers'[o] # None
       /\ offers'[o].job = offers[o].job
       /\ offers'[o].payload.parsed = offers[o].payload.parsed
       /\ offers[o].payload.decided => offers'[o].payload.decided]_offers

IsRunning(k) == jobs[k] # None /\ jobs[k].status = "RUNNING"

\* A job does not stay RUNNING unless its process died.
JobsEnd == \A k \in Keys : IsRunning(k) ~> ~IsRunning(k) \/ k \in orphans

-----------------------------------------------------------------------------
(***************************************************************************)
(* The inductive invariant behind the properties: a job has one worker at  *)
(* most, and what a worker holds, although other imports commit meanwhile, *)
(* is sound whenever nothing of it conflicts with the tables at its commit.*)
(***************************************************************************)
Owning  == {"running", "rows", "complete", "failing"}
Reading == {"rows", "complete"}

\* A job that is worked on is RUNNING, and by one session only.
OneWorker ==
  /\ \A s \in Sessions : pc[s] # "idle" => work[s].key \in Keys
  /\ \A s \in Sessions : pc[s] \in Owning => IsRunning(work[s].key)
  /\ \A s, t \in Sessions :
       pc[s] \in Owning /\ pc[t] \in Owning /\ work[s].key = work[t].key => s = t

\* Nothing is read before the job is committed as RUNNING.
NotStarted == \A s \in Sessions : pc[s] \in {"new key", "running"} => work[s] = NoWork(work[s].key)

\* A link to insert: of this job, with the payload the session has seen, and
\* marked by whether the session created the offer or found it.
LinkSound(w, l) ==
  /\ l.job = w.key
  /\ w.seen[l.offer] = [parsed |-> l.parsed, decided |-> FALSE]
  /\ l.state = "CREATED" <=> l.offer \in w.fresh
  /\ l.offer \notin w.fresh =>
       offers[l.offer] # None /\ offers[l.offer].payload.parsed = l.parsed

\* The links and offers to insert account for the rows read so far.
RowsSound(w) ==
  /\ w.report \in Reports
  /\ \A l \in w.links : LinkSound(w, l)
  /\ \A o \in Offers : w.seen[o] # None => \E l \in w.links : l.offer = o
  /\ \A o \in w.fresh : w.seen[o] # None
  /\ \A i \in DOMAIN w.report.rows :
       i < w.next => \E l \in w.links : l.offer = w.report.rows[i].offer

CountsSound(w) ==
  /\ w.next > 0
  /\ w.counts.input = Len(w.report.rows)
  /\ w.counts.created + w.counts.existing + 1 = w.next
  /\ w.next <= Len(w.report.rows) + 1
  /\ IsFiniteSet(w.links) /\ w.counts.links = Cardinality(w.links)
  /\ IsFiniteSet(w.fresh) /\ w.counts.created = Cardinality(w.fresh)

\* All rows are read, and the queues are or will be in the tables.
QueuesSound(w) ==
  /\ w.next = Len(w.report.rows) + 1
  /\ w.report.review \subseteq reviews \cup w.reviews
  /\ w.report.reference \subseteq tasks \cup w.tasks
  /\ \A o \in w.reviews : offers[o] # None \/ o \in w.fresh

WorkSound ==
  \A s \in Sessions :
    /\ pc[s] \in Reading => RowsSound(work[s]) /\ CountsSound(work[s])
    /\ pc[s] = "complete" => QueuesSound(work[s])

\* Only offers that are there are under review.
ReviewedAreThere == \A o \in reviews : offers[o] # None

ImportInv ==
  /\ ImportTypeOK
  /\ AllOrNothing
  /\ LinksAreTrue
  /\ CountsAreTrue
  /\ OneWorker
  /\ NotStarted
  /\ WorkSound
  /\ ReviewedAreThere
=============================================================================
