------------------------------- MODULE MailInbox -------------------------------
(***************************************************************************)
(* replay_eml: a mail is stored once, with the request it answers and its  *)
(* attachments.  Files are written outside the transaction; the row is     *)
(* inserted before the attachments are read and committed after them.      *)
(***************************************************************************)
EXTENDS MailStore, Functions

\* The requests a mail names as those it belongs to.
Named(m) == Requests \cap ({m.replyTo, m.token} \cup Range(m.references))

\* Their ids are hashes nobody makes up: a mail that holds one, or is a copy of the
\* request, follows a delivery of it.
Arrived(m) == Named(m) \cup (Requests \cap {m.mid}) \subseteq delivered

-----------------------------------------------------------------------------
IsKnown(r) == r \in Requests /\ requests[r] # None

\* Mutant: replies to requests that are not SENT are not looked for.
LinkToSent(m) ==
  IF \E r \in Named(m) : requests[r] # None /\ requests[r].status = "SENT"
  THEN [request |-> CHOOSE r \in Named(m) : requests[r] # None /\ requests[r].status = "SENT",
        method  |-> "IN_REPLY_TO"]
  ELSE NoLink

\* _link_request: In-Reply-To, then the latest known reference, then the token.
LinkOf(m) ==
  LET known == {i \in DOMAIN m.references : IsKnown(m.references[i])}
      last  == CHOOSE i \in known : \A j \in known : j <= i
  IN  CASE IsKnown(m.replyTo) -> [request |-> m.replyTo, method |-> "IN_REPLY_TO"]
        [] ~IsKnown(m.replyTo) /\ known # {} ->
             [request |-> m.references[last], method |-> "REFERENCES"]
        [] ~IsKnown(m.replyTo) /\ known = {} /\ IsKnown(m.token) ->
             [request |-> m.token, method |-> "REQUEST_TOKEN"]
        [] OTHER -> NoLink

\* The mails a call has begun to store.
Begun == {m \in Mails : disk[m] # "none" \/ \E s \in Sessions : work[s].item = m}

\* A stored mail answers the call.
StartReplay(s, m) ==
  /\ pc[s] = "idle"
  /\ Cardinality(Begun \cup {m}) <= MaxMails
  /\ Arrived(m)
  /\ ~IsStored(m.mid, m)
  /\ Begin(s, "storing_received", [NoWork EXCEPT !.item = m, !.link = LinkOf(m)])
  /\ UNCHANGED <<tables, delivered, disk>>

\* The row is flushed before anything is caught: a conflict ends the call.
InsertMessage(s) ==
  /\ pc[s] = "storing_received" /\ pen[s] = "done"
  /\ ~IsPending(s, work[s].item.mid, work[s].item)
  /\ IF IsStored(work[s].item.mid, work[s].item)
     THEN End(s)
     ELSE GoTo(s, "storing_attachments") /\ PenUp(s) /\ UNCHANGED work
  /\ UNCHANGED <<tables, delivered, disk>>

AddAttachment(s) ==
  /\ pc[s] = "storing_attachments" /\ pen[s] = "done"
  /\ work' = [work EXCEPT ![s].stored = Append(@, FileOf(s))]
  /\ PenUp(s)
  /\ UNCHANGED <<tables, delivered, disk, pc>>

\* Decoding or storing an attachment raises: the handler keeps those before it.
AttachmentFails(s) ==
  /\ pc[s] = "storing_attachments"
  /\ Len(work[s].stored) < Len(work[s].item.attachments)
  /\ GoTo(s, "replay_failed") /\ PenUp(s)
  /\ UNCHANGED <<tables, delivered, disk, work>>

-----------------------------------------------------------------------------
\* uq_mail_attachments_message_hash_name
HasRepeats(seq) == ~IsInjective(seq)

Record(s, status) ==
  /\ IF HasRepeats(work[s].stored)
     THEN UNCHANGED messages
     ELSE messages' = messages \cup
            {[raw |-> work[s].item, mid |-> work[s].item.mid, direction |-> "INBOUND",
              request |-> work[s].link.request, method |-> work[s].link.method,
              status |-> status, attachments |-> work[s].stored]}
  /\ End(s)
  /\ UNCHANGED <<requests, sentEvents, failures, delivered, disk>>

\* Mutant: the status follows the last attachment.
StatusOfLast(seq) ==
  IF seq = <<>> \/ seq[Len(seq)] \in Accepted THEN "PROCESSED" ELSE "REVIEW"

ReceivedStatus(seq) == IF Range(seq) \subseteq Accepted THEN "PROCESSED" ELSE "REVIEW"

CommitReplay(s) ==
  /\ pc[s] = "storing_attachments"
  /\ Len(work[s].stored) = Len(work[s].item.attachments)
  /\ Record(s, ReceivedStatus(work[s].stored))

CommitReplayFailure(s) == pc[s] = "replay_failed" /\ Record(s, "DEAD_LETTER")

ReplayStep(s) ==
  \/ InsertMessage(s)
  \/ AddAttachment(s)
  \/ AttachmentFails(s)
  \/ CommitReplay(s)
  \/ CommitReplayFailure(s)
=============================================================================
