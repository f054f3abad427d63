------------------------------ MODULE MailOutbox ------------------------------
(***************************************************************************)
(* create_mail_request and send_mail_request.  Sending happens outside the *)
(* transaction that records it: the server may have accepted the mail of a *)
(* call that fails, is refused by a unique key or dies afterwards, and two *)
(* calls may send the same request.                                        *)
(***************************************************************************)
EXTENDS MailStore

\* A request with this content answers the call, one with its key and another
\* content refuses it.  The lookup and the commit are one step: a request
\* committed between them makes the insert fail, which changes nothing either.
CreateRequest(r) ==
  /\ \A q \in Requests : requests[q] # None => RequestKey[q] # RequestKey[r]
  /\ requests' = [requests EXCEPT ![r] = [status |-> "DRAFT", retries |-> 0]]
  /\ UNCHANGED <<messages, sentEvents, failures, delivered, disk, pc, pen, work>>

\* A SENT request answers the call; any other is sent, a DEAD_LETTER one too.
StartSend(s, r) ==
  /\ pc[s] = "idle"
  /\ requests[r] # None
  /\ requests[r].status # "SENT"
  /\ failures[r] < MaxFailures
  /\ Begin(s, "sending", [NoWork EXCEPT !.item = r, !.row = requests[r]])
  /\ UNCHANGED <<tables, delivered, disk>>

\* Mutant: an error of the server goes unnoticed.
RefusalIgnored(s) ==
  /\ pc[s] = "sending"
  /\ GoTo(s, "storing_sent")
  /\ UNCHANGED <<tables, disk, pen, work, delivered>>

\* The server refuses the mail, or accepts it and its answer is lost.
Refused(s) ==
  /\ pc[s] = "sending"
  /\ GoTo(s, "send_failed")
  /\ delivered' \in {delivered, delivered \cup {work[s].item}}
  /\ UNCHANGED <<tables, disk, pen, work>>

Delivered(s) ==
  /\ pc[s] = "sending"
  /\ GoTo(s, "storing_sent")
  /\ delivered' = delivered \cup {work[s].item}
  /\ UNCHANGED <<tables, disk, pen, work>>

\* Storing the file raises: the mail is out, the handler records a failure.
StoreSentFails(s) ==
  /\ pc[s] = "storing_sent"
  /\ GoTo(s, "send_failed") /\ PenUp(s)
  /\ UNCHANGED <<tables, delivered, disk, work>>

\* The message and the audit event are looked for before they are added.
LookUpSent(s) ==
  /\ pc[s] = "storing_sent" /\ pen[s] = "done"
  /\ GoTo(s, "sent") /\ PenUp(s)
  /\ LET r == work[s].item
     IN  work' = [work EXCEPT ![s].found = {t \in {"message", "event"} :
                    \/ t = "message" /\ \E m \in messages : DedupeKey(m.mid, m.raw) = r
                    \/ t = "event" /\ r \in sentEvents}]
  /\ UNCHANGED <<tables, delivered, disk>>

\* Mutant: no unique key on the messages.
EventConflicts(s) == "event" \notin work[s].found /\ work[s].item \in sentEvents

\* A message or an event that was not there has been added meanwhile.
SentConflicts(s) ==
  \/ "message" \notin work[s].found /\ IsStored(work[s].item, work[s].item)
  \/ "event" \notin work[s].found /\ work[s].item \in sentEvents

SentMessage(r) ==
  [raw |-> r, mid |-> r, direction |-> "OUTBOUND", request |-> r, method |-> "REQUEST",
   status |-> "SENT", attachments |-> <<>>]

\* On a conflict the flush fails, and so does the commit of the handler, which
\* does not roll back first: nothing is recorded.
CommitSent(s) ==
  /\ pc[s] = "sent"
  /\ "message" \in work[s].found \/ ~IsPending(s, work[s].item, work[s].item)
  /\ LET r == work[s].item
     IN  IF SentConflicts(s)
         THEN UNCHANGED tables
         ELSE /\ requests' = [requests EXCEPT ![r].status = "SENT"]
              /\ messages' = IF "message" \in work[s].found THEN messages
                             ELSE messages \cup {SentMessage(r)}
              /\ sentEvents' = sentEvents \cup {r}
              /\ UNCHANGED failures
  /\ End(s)
  /\ UNCHANGED <<delivered, disk>>

\* Mutant: one attempt too few.
GivesUpEarly(retries) == IF retries + 1 >= MaxRetries THEN "DEAD_LETTER" ELSE "RETRY"

StatusAfterFailure(retries) == IF retries >= MaxRetries THEN "DEAD_LETTER" ELSE "RETRY"

\* The handler counts from the row as loaded; a status equal to the loaded one is
\* not written.
CommitSendFailure(s) ==
  /\ pc[s] = "send_failed"
  /\ LET r       == work[s].item
         row     == work[s].row
         retries == row.retries + 1
         status  == StatusAfterFailure(retries)
     IN  /\ requests' = [requests EXCEPT
              ![r] = [retries |-> retries,
                      status  |-> IF status = row.status THEN @.status ELSE status]]
         /\ failures' = [failures EXCEPT ![r] = @ + 1]
  /\ End(s)
  /\ UNCHANGED <<messages, sentEvents, delivered, disk>>

SendStep(s) ==
  \/ Refused(s)
  \/ Delivered(s)
  \/ StoreSentFails(s)
  \/ LookUpSent(s)
  \/ CommitSent(s)
  \/ CommitSendFailure(s)
=============================================================================
