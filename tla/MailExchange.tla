----------------------------- MODULE MailExchange -----------------------------
(***************************************************************************)
(* Requests are created and sent while mail is received, by sessions that  *)
(* see of one another only what is committed and what is on the disk.      *)
(***************************************************************************)
EXTENDS MailOutbox, MailInbox

Next ==
  \/ \E r \in Requests : CreateRequest(r)
  \/ \E s \in Sessions, r \in Requests : StartSend(s, r)
  \/ \E s \in Sessions, m \in Mails : StartReplay(s, m)
  \/ \E s \in Sessions : SendStep(s) \/ ReplayStep(s) \/ StoreFile(s) \/ Abort(s)

Spec == Init /\ [][Next]_vars

-----------------------------------------------------------------------------
Messages ==
  [raw : Requests \cup Mails, mid : Requests \cup MessageIds \cup {None},
   direction : {"INBOUND", "OUTBOUND"}, request : Requests \cup {None},
   method : {"REQUEST", "IN_REPLY_TO", "REFERENCES", "REQUEST_TOKEN", None},
   status : {"SENT", "PROCESSED", "REVIEW", "DEAD_LETTER"},
   attachments : Seq(Attachments)]

Works ==
  [item : Requests \cup Mails \cup {None}, row : Rows \cup {None},
   found : SUBSET {"message", "event"},
   link : [request : Requests \cup {None},
           method : {"IN_REPLY_TO", "REFERENCES", "REQUEST_TOKEN", None}],
   stored : Seq(Attachments)]

\* The types of the variables.
MailTypeOK ==
  /\ requests \in [Requests -> Rows \cup {None}]
  /\ messages \subseteq Messages
  /\ sentEvents \subseteq Requests
  /\ delivered \subseteq Requests
  /\ failures \in [Requests -> Nat]
  /\ disk \in [Files -> {"none", "torn", "whole"}]
  /\ pc \in [Sessions -> {"idle", "sending", "storing_sent", "sent", "send_failed",
                          "storing_received", "storing_attachments", "replay_failed"}]
  /\ pen \in [Sessions -> {"up", "ready", "down", "done"}]
  /\ work \in [Sessions -> Works]

\* A request marked SENT, or with a MAIL_REQUEST_SENT event, has been accepted by
\* the server and a message with its Message-ID is stored, whatever other senders
\* of the same request recorded before or after.
SentIsTrue ==
  \A r \in Requests :
    (r \in sentEvents \/ (requests[r] # None /\ requests[r].status = "SENT")) =>
      /\ r \in sentEvents
      /\ r \in delivered
      /\ \E m \in messages : m.mid = r

\* A request is given up only after max_retries recorded failures, and its counter
\* never exceeds them: senders that overwrite each other lose attempts, they never
\* invent one.
DeadLettersTried ==
  \A r \in Requests : requests[r] # None =>
    /\ requests[r].retries <= failures[r]
    /\ requests[r].status = "DEAD_LETTER" => failures[r] >= MaxRetries

\* A received mail that answers a request, refers to one or carries its token is
\* linked to a request it names, even when it arrives before the call that sent
\* the request has recorded it; and no mail is linked to a request it does not name.
RepliesAreLinked ==
  \A m \in messages : m.direction = "INBOUND" =>
    IF Named(m.raw) = {} THEN m.request = None ELSE m.request \in Named(m.raw)

\* A message recorded as processed or under review has all the attachments of its
\* mail, in order, and is under review exactly when one was rejected; a dead letter
\* has the first of them.  Their files and its own are on the disk.
MessagesAreWhole ==
  \A m \in messages :
    /\ disk[m.raw] # "none"
    /\ \A a \in Range(m.attachments) : disk[a] # "none"
    /\ m.direction = "INBOUND" =>
         /\ m.status \in {"PROCESSED", "REVIEW"} => m.attachments = m.raw.attachments
         /\ m.status = "PROCESSED" => Range(m.attachments) \subseteq Accepted
         /\ m.status = "REVIEW" => ~(Range(m.attachments) \subseteq Accepted)
         /\ m.status = "DEAD_LETTER" =>
              m.attachments = SubSeq(m.raw.attachments, 1, Len(m.attachments))

\* Two stored messages never share their bytes or their Message-ID, also when a
\* copy of a request comes back while the request is being recorded.
StoredOnce ==
  \A m, n \in messages :
    (m.raw = n.raw \/ (m.mid # None /\ m.mid = n.mid)) => m = n

\* The stored original of every message is the whole mail, unless a call is writing it
\* at the moment: the original .eml is kept.
OriginalIsKept ==
  \A m \in messages :
    disk[m.raw] = "whole" \/ \E s \in Sessions : pen[s] = "down" /\ FileOf(s) = m.raw

-----------------------------------------------------------------------------
(***************************************************************************)
(* The inductive invariant behind the properties that hold: what a call    *)
(* has done so far and still is true, and that no two calls have one       *)
(* message in hand.                                                        *)
(***************************************************************************)
Sending  == {"sending", "storing_sent", "sent", "send_failed"}
Inserted == {"storing_attachments", "replay_failed"}

IsLinked(m, r) == IF Named(m) = {} THEN r = None ELSE r \in Named(m)

SenderSound(s) ==
  LET r == work[s].item
  IN  /\ r \in Requests /\ requests[r] \in Rows
      /\ work[s].row \in Rows /\ work[s].row.retries <= failures[r]
      /\ pc[s] \in {"storing_sent", "sent"} => r \in delivered
      /\ pc[s] = "sent" => /\ disk[r] # "none"
                           /\ "message" \in work[s].found => \E m \in messages : m.mid = r

ReceiverSound(s) ==
  LET m == work[s].item
  IN  /\ m \in Mails /\ IsLinked(m, work[s].link.request)
      /\ pc[s] = "storing_received" => work[s].stored = <<>>
      /\ pc[s] \in Inserted =>
           /\ disk[m] # "none"
           /\ Len(work[s].stored) <= Len(m.attachments)
           /\ work[s].stored = SubSeq(m.attachments, 1, Len(work[s].stored))
           /\ \A a \in Range(work[s].stored) : disk[a] # "none"

PenSound(s) ==
  /\ pen[s] # "up" => IsStoring(s)
  /\ pen[s] \in {"down", "done"} => disk[FileOf(s)] # "none"

SessionSound(s) ==
  /\ pc[s] \in Sending => SenderSound(s)
  /\ pc[s] \in {"storing_received"} \cup Inserted => ReceiverSound(s)
  /\ PenSound(s)

\* The unique keys, among stored messages and those about to be committed.
MessagesApart ==
  /\ \A m, n \in messages : IsSame(m.mid, m.raw, n) => m = n
  /\ \A s \in Sessions : pc[s] \in Inserted =>
       ~IsStored(work[s].item.mid, work[s].item) /\ ~IsPending(s, work[s].item.mid, work[s].item)

OriginIsKnown ==
  /\ \A r \in delivered : requests[r] # None
  /\ \A m \in messages : m.mid = None => m.raw \in Mails

MailInv ==
  /\ MailTypeOK
  /\ SentIsTrue /\ DeadLettersTried /\ RepliesAreLinked /\ MessagesAreWhole
  /\ \A s \in Sessions : SessionSound(s)
  /\ MessagesApart /\ OriginIsKnown
=============================================================================
