------------------------------ MODULE MailStore ------------------------------
(***************************************************************************)
(* What sending and receiving mail share (src/price_parser/mail/service.py *)
(* and the mail tables of db/models.py): the stored messages, the files    *)
(* kept beside them, and the sessions at work on both.                     *)
(*                                                                         *)
(* A hash is modelled by what it is computed from: a request stands for    *)
(* its idempotency key, its Message-ID and its subject token, a received   *)
(* mail for its raw bytes, an attachment for its content and file name.    *)
(* A SELECT is assumed not to fail.                                        *)
(***************************************************************************)
EXTENDS Naturals, Sequences, FiniteSets

CONSTANTS
  Requests,     \* contents of a mail request
  RequestKey,   \* the request_key of each
  Mails,        \* mails the mailbox may hold
  MessageIds,   \* Message-IDs other programs give
  Attachments,
  Accepted,     \* attachments that pass _validate_attachment
  Sessions,     \* calls in progress at the same time
  MaxRetries,   \* max_retries
  MaxFailures,  \* bound: failed attempts to send one request
  MaxMails,     \* bound: mails received in one behaviour
  None

ASSUME MailsAssumption ==
  /\ Accepted \subseteq Attachments
  /\ MaxRetries \in Nat \ {0}
  /\ \A m \in Mails : /\ m.mid \in Requests \cup MessageIds \cup {None}
                      /\ m.replyTo \in Requests \cup MessageIds \cup {None}
                      /\ m.references \in Seq(Requests \cup MessageIds)
                      /\ m.token \in Requests \cup {None}
                      /\ m.attachments \in Seq(Attachments)

VARIABLES
  requests,     \* mail_requests: the row of a request, None if there is none
  messages,     \* mail_messages, each with its mail_attachments
  sentEvents,   \* requests with a MAIL_REQUEST_SENT event
  failures,     \* number of MAIL_REQUEST_SEND_FAILED events of a request
  delivered,    \* requests the mail server has accepted at least once
  disk,         \* stored files: "none", "torn" or "whole"
  pc,           \* where each session is
  pen,          \* how far a session is with the file it stores
  work          \* what it has loaded and prepared

tables == <<requests, messages, sentEvents, failures>>
vars   == <<requests, messages, sentEvents, failures, delivered, disk, pc, pen, work>>

Rows   == [status : {"DRAFT", "SENT", "RETRY", "DEAD_LETTER"}, retries : Nat]
Files  == Requests \cup Mails \cup Attachments

ASSUME NamesAssumption == None \notin Requests /\ Requests \cap Mails = {} /\ None \notin Rows

NoLink == [request |-> None, method |-> None]

\* item: the request or mail; row: the request's row as loaded; found: what the
\* SELECTs before the commit found; link: the request a mail belongs to; stored:
\* attachments ready to be inserted.
NoWork == [item |-> None, row |-> None, found |-> {}, link |-> NoLink, stored |-> <<>>]

Init ==
  /\ requests = [r \in Requests |-> None]
  /\ messages = {} /\ sentEvents = {} /\ delivered = {}
  /\ failures = [r \in Requests |-> 0]
  /\ disk = [f \in Files |-> "none"]
  /\ pc = [s \in Sessions |-> "idle"]
  /\ pen = [s \in Sessions |-> "up"]
  /\ work = [s \in Sessions |-> NoWork]

-----------------------------------------------------------------------------
GoTo(s, place) == pc' = [pc EXCEPT ![s] = place]
PenUp(s)       == pen' = [pen EXCEPT ![s] = "up"]

Begin(s, place, w) == GoTo(s, place) /\ work' = [work EXCEPT ![s] = w] /\ UNCHANGED pen

End(s) == GoTo(s, "idle") /\ PenUp(s) /\ work' = [work EXCEPT ![s] = NoWork]

\* A call dies, raises outside its handler, or its COMMIT fails (the handler then
\* commits the same dead transaction again): nothing is recorded, what it wrote to
\* the disk stays.
Abort(s) ==
  /\ pc[s] # "idle"
  /\ End(s)
  /\ UNCHANGED <<tables, delivered, disk>>

\* dedupe_key
DedupeKey(mid, raw) == IF mid # None THEN mid ELSE raw

\* The unique keys of mail_messages: dedupe_key and raw_sha256.
IsSame(mid, raw, m) == m.raw = raw \/ DedupeKey(m.mid, m.raw) = DedupeKey(mid, raw)

IsStored(mid, raw) == \E m \in messages : IsSame(mid, raw, m)

\* Another session has inserted such a message and not committed yet: an insert
\* waits for it.
IsPending(s, mid, raw) ==
  \E t \in Sessions \ {s} :
    /\ pc[t] \in {"storing_attachments", "replay_failed"}
    /\ IsSame(mid, raw, [raw |-> work[t].item, mid |-> work[t].item.mid])

-----------------------------------------------------------------------------
(***************************************************************************)
(* _store_raw and _store_attachment: a file is written only if its path    *)
(* does not exist; opening it creates it empty, and nothing is renamed.    *)
(***************************************************************************)
\* The file session s is storing.
FileOf(s) == IF pc[s] = "storing_attachments"
             THEN work[s].item.attachments[Len(work[s].stored) + 1]
             ELSE work[s].item

IsStoring(s) ==
  \/ pc[s] \in {"storing_sent", "storing_received"}
  \/ pc[s] = "storing_attachments" /\ Len(work[s].stored) < Len(work[s].item.attachments)

Pen(s, from, to) ==
  /\ IsStoring(s)
  /\ pen[s] = from
  /\ pen' = [pen EXCEPT ![s] = to]
  /\ UNCHANGED <<tables, delivered, pc, work>>

CheckPath(s) ==
  /\ Pen(s, "up", IF disk[FileOf(s)] = "none" THEN "ready" ELSE "done")
  /\ UNCHANGED disk

OpenFile(s)   == Pen(s, "ready", "down") /\ disk' = [disk EXCEPT ![FileOf(s)] = "torn"]
FinishFile(s) == Pen(s, "down", "done")  /\ disk' = [disk EXCEPT ![FileOf(s)] = "whole"]

StoreFile(s) == CheckPath(s) \/ OpenFile(s) \/ FinishFile(s)
=============================================================================
