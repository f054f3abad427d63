---------------------------- MODULE OperatorReview ----------------------------
(***************************************************************************)
(* record_decision (src/price_parser/operator_review.py): several operator *)
(* processes append decisions to one shared JSONL journal under a lock     *)
(* file that is created exclusively and removed when the call ends.        *)
(*                                                                         *)
(* Each call is the steps of the code: read the queue row and validate;    *)
(* wait for the lock or give up; load the journal; append the record and   *)
(* its newline, which is not one atomic write; remove the lock file.  A    *)
(* process may die between any two of them, and the append may fail at any *)
(* byte: inside the record, or between the record and its newline.  The    *)
(* next call looks at the lines of the journal, not at how it ends.        *)
(***************************************************************************)
EXTENDS ReviewRecords

CONSTANTS
  Writers,     \* operator processes
  Parses,      \* the files normalized_items.jsonl that parsing may produce
  Free,        \* "the lock file does not exist"
  MaxJournal   \* bound: no call begins once the journal is this long

ASSUME ParsesAssumption == Parses \subseteq [Offers -> Items \cup {None}]
ASSUME FreeAssumption   == Free \notin Writers

VARIABLES
  items,      \* normalized_items.jsonl: row of each offer, None if it has none
  queue,      \* normalization_review_queue.jsonl
  decisions,  \* the records of operator_review_decisions.jsonl, each alone on its line
  tail,       \* how that file ends, see Tails
  lock,       \* the process that created the lock file, or Free
  pc,         \* where each process is in record_decision
  call        \* the call's local state: key, reasons seen, previous decision

journalVars == <<decisions, tail, lock>>
sourceVars  == <<items, queue>>
recordVars  == <<items, queue, decisions, tail, lock, pc, call>>

NoCall == [key |-> None, reasons |-> {}, previous |-> None]
Calls  == [key : Keys \cup {None}, reasons : SUBSET Reasons, previous : Keys \cup {None}]

\* newline: every line is ended, or there is none.  cut: a record is there in part.
\* unended: a record is whole, only its newline is missing.  glued: something was
\* written behind a line that was not ended, and shares the line with it.
Tails == {"newline", "cut", "unended", "glued"}

\* Places at which a process holds the lock.
Holding == {"locked", "loaded", "appending", "ending", "releasing"}
Writing == {"loaded", "appending", "ending"}
Places  == {"idle", "waiting"} \cup Holding

RecordTypeOK ==
  /\ items \in [Offers -> Items \cup {None}]
  /\ queue \in [Offers -> Items \cup {None}]
  /\ decisions \in Seq(Decisions)
  /\ tail \in Tails
  /\ lock \in Writers \cup {Free}
  /\ pc \in [Writers -> Places]
  /\ call \in [Writers -> Calls]

\* The rows of a parse that its review queue holds.
QueueOf(parse) ==
  [o \in Offers |-> IF parse[o] # None /\ parse[o].reasons # {} THEN parse[o] ELSE None]

RecordInit ==
  /\ items \in Parses
  /\ queue = QueueOf(items)
  /\ decisions = <<>>
  /\ tail = "newline"
  /\ lock = Free
  /\ pc = [w \in Writers |-> "idle"]
  /\ call = [w \in Writers |-> NoCall]

-----------------------------------------------------------------------------
(***************************************************************************)
(* The environment: a later parse of the price lists replaces both files,  *)
(* one after the other.                                                    *)
(***************************************************************************)
Reparse ==
  /\ items' \in Parses
  /\ items' # items
  /\ UNCHANGED <<queue, decisions, tail, lock, pc, call>>

Requeue ==
  /\ queue # QueueOf(items)
  /\ queue' = QueueOf(items)
  /\ UNCHANGED <<items, decisions, tail, lock, pc, call>>

-----------------------------------------------------------------------------
GoTo(w, place) == pc' = [pc EXCEPT ![w] = place]

\* The command is validated against the queue as it is now.  A command that
\* ValidCommand or the missing row refuses ends here and changes nothing.
Begin(w, c) ==
  /\ pc[w] = "idle"
  /\ Len(decisions) < MaxJournal
  /\ ValidCommand(c)
  /\ queue[c.offer] # None
  /\ call' = [call EXCEPT ![w] = [key      |-> [command |-> c, fp |-> queue[c.offer].fp],
                                  reasons  |-> queue[c.offer].reasons,
                                  previous |-> None]]
  /\ GoTo(w, "waiting")
  /\ UNCHANGED <<sourceVars, journalVars>>

\* Mutant: the file is opened without O_EXCL, so the call always succeeds.
LockIgnored == TRUE

\* os.open(lock, O_CREAT | O_EXCL): fails while the file exists.
LockAvailable == lock = Free

AcquireLock(w) ==
  /\ pc[w] = "waiting"
  /\ LockAvailable
  /\ lock' = w
  /\ GoTo(w, "locked")
  /\ UNCHANGED <<sourceVars, decisions, tail, call>>

\* Mutant: the waiting loop has no deadline.
NeverGivesUp(w) == pc[w] = "waiting" /\ FALSE

\* The lock file was still there at the deadline: ReviewError.
GiveUp(w) ==
  /\ pc[w] = "waiting"
  /\ ~LockAvailable
  /\ GoTo(w, "idle")
  /\ call' = [call EXCEPT ![w] = NoCall]
  /\ UNCHANGED <<sourceVars, journalVars>>

\* Mutant: a line that is not JSON is skipped instead of refused.
TornLineSkipped == UniqueIds(decisions)

\* _load_decisions succeeds: every line is one record and no decision id is
\* repeated.  Whether the last line is ended is not looked at.
Readable == tail \in {"newline", "unended"} /\ UniqueIds(decisions)

\* Mutant: only the latest decision on the offer is compared.
RepeatsLatest(w) == call[w].key = PreviousKey(decisions, OfferOf(call[w].key))

\* Any earlier line with the key, not only the latest of the offer, answers the call.
AlreadyRecorded(w) == call[w].key \in KeysOf(decisions)

LoadJournal(w) ==
  /\ pc[w] = "locked"
  /\ IF Readable /\ ~AlreadyRecorded(w)
     THEN /\ call' = [call EXCEPT ![w].previous =
                        PreviousKey(decisions, OfferOf(call[w].key))]
          /\ GoTo(w, "loaded")
     ELSE /\ GoTo(w, "releasing")
          /\ UNCHANGED call
  /\ UNCHANGED <<sourceVars, journalVars>>

\* The first bytes of the line are in the file, behind whatever it ends in.
StartAppend(w) ==
  /\ pc[w] = "loaded"
  /\ tail' = IF tail = "newline" THEN "cut" ELSE "glued"
  /\ GoTo(w, "appending")
  /\ UNCHANGED <<sourceVars, decisions, lock, call>>

\* The record is in the file up to its last byte; it counts unless it shares its line.
FinishRecord(w) ==
  /\ pc[w] = "appending"
  /\ IF tail = "cut"
     THEN tail' = "unended" /\ decisions' = Append(decisions, call[w])
     ELSE UNCHANGED <<decisions, tail>>
  /\ GoTo(w, "ending")
  /\ UNCHANGED <<sourceVars, lock, call>>

\* The newline: the call returns the record as recorded, even one that is glued.
EndLine(w) ==
  /\ pc[w] = "ending"
  /\ tail' = IF tail = "unended" THEN "newline" ELSE tail
  /\ GoTo(w, "releasing")
  /\ UNCHANGED <<sourceVars, decisions, lock, call>>

\* Opening or writing the file raises: what was written of the line stays.
AppendFails(w) ==
  /\ pc[w] \in Writing
  /\ GoTo(w, "releasing")
  /\ UNCHANGED <<sourceVars, journalVars, call>>

\* The lock's finally: reached on every return and every error after AcquireLock.
ReleaseLock(w) ==
  /\ pc[w] = "releasing"
  /\ lock' = Free
  /\ GoTo(w, "idle")
  /\ call' = [call EXCEPT ![w] = NoCall]
  /\ UNCHANGED <<sourceVars, decisions, tail>>

\* The process dies: its lock file and what it wrote of a line stay behind.
Die(w) ==
  /\ pc[w] # "idle"
  /\ GoTo(w, "idle")
  /\ call' = [call EXCEPT ![w] = NoCall]
  /\ UNCHANGED <<sourceVars, journalVars>>

\* What the running code of a process does next; the only steps it is sure to take.
Step(w) ==
  \/ AcquireLock(w)
  \/ GiveUp(w)
  \/ LoadJournal(w)
  \/ StartAppend(w)
  \/ FinishRecord(w)
  \/ EndLine(w)
  \/ AppendFails(w)
  \/ ReleaseLock(w)

RecordNext ==
  \/ Reparse
  \/ Requeue
  \/ \E w \in Writers : \/ \E c \in Commands : Begin(w, c)
                        \/ Step(w)
                        \/ Die(w)

RecordSpec == RecordInit /\ [][RecordNext]_recordVars

\* A started call runs on until it returns; nobody owes the system a new command.
FairRecordSpec == RecordSpec /\ \A w \in Writers : WF_recordVars(Step(w))

-----------------------------------------------------------------------------
(***************************************************************************)
(* Properties.                                                             *)
(***************************************************************************)

\* No decision is in the journal twice, and each line's previous_decision_id
\* names the decision on the same offer that was the latest when the line was
\* written.  Two processes that both load before either appends break it.
JournalChained ==
  /\ UniqueIds(decisions)
  /\ \A i \in DOMAIN decisions :
       decisions[i].previous =
         PreviousKey(SubSeq(decisions, 1, i - 1), OfferOf(decisions[i].key))

\* The call that is writing the last line has it complete.
CompletesItsLine(w) ==
  /\ tail = "cut" /\ tail' = "unended"
  /\ lock = w /\ pc[w] = "appending" /\ pc'[w] = "ending"

\* Nothing is ever appended behind a line that does not load.  While the journal
\* ends in one, the only change is that the call which is writing that line, and
\* holds the lock, completes it; a line that two records share is never touched.
TornLineIsLast ==
  [][(tail \in {"cut", "glued"}) => \E w \in Writers : CompletesItsLine(w)]_<<decisions, tail>>

\* A line does not load and nobody is about to complete it.
JournalLost ==
  \/ tail = "glued"
  \/ tail = "cut" /\ \A w \in Writers : pc[w] # "appending"

\* The journal behaves as the abstract one: the lock, the waiting and most crashes
\* are invisible steps; each record completed on a line of its own is one Record;
\* a write broken off inside a record, or begun behind a missing newline, is Lose.
Journal == INSTANCE DecisionJournal WITH lost <- JournalLost
ImplementsJournal == Journal!Spec

\* A row that "review list" hides as RESOLVED was decided on the source it has
\* now: the decision is bound to the fingerprint of the row.
ResolvedIsBoundToSource ==
  \A o \in Offers :
    queue[o] # None /\ ReviewState(decisions, o) = "RESOLVED" =>
      decisions[LatestIndex(decisions, o)].key.fp = queue[o].fp

\* Every call of record_decision ends, with an answer or an error, even when the
\* lock file was left behind by a process that died.
EveryCallEnds == \A w \in Writers : pc[w] # "idle" ~> pc[w] = "idle"

-----------------------------------------------------------------------------
(***************************************************************************)
(* The inductive invariant behind JournalChained and TornLineIsLast.  They *)
(* are not inductive alone: that an append is safe depends on the lock     *)
(* having kept the journal still since this process loaded it.             *)
(***************************************************************************)
CallsCarryKeys == \A w \in Writers : pc[w] # "idle" => call[w].key \in Keys

LockHeld == \A w \in Writers : pc[w] \in Holding => lock = w

\* What w found when it loaded the journal still holds.
Fresh(w) ==
  /\ call[w].key \notin KeysOf(decisions)
  /\ call[w].previous = PreviousKey(decisions, OfferOf(call[w].key))

AppendIsPrepared ==
  \A w \in Writers :
    /\ pc[w] \in {"loaded", "appending"} => Fresh(w)
    /\ pc[w] = "loaded" => tail \in {"newline", "unended"}
    /\ pc[w] = "appending" => tail \in {"cut", "glued"}
    /\ pc[w] = "ending" => tail \in {"unended", "glued"}

RecordInv ==
  /\ RecordTypeOK
  /\ CallsCarryKeys
  /\ LockHeld
  /\ AppendIsPrepared
  /\ JournalChained
=============================================================================
