-------------------------- MODULE MailExchangeProofs --------------------------
(***************************************************************************)
(* Theorems about MailExchange, for any requests, mails and sessions: the  *)
(* type invariant, that SENT is true, that a request is given up only      *)
(* after its retries, and that messages are stored once, whole and linked. *)
(***************************************************************************)
EXTENDS MailExchange, NaturalLemmas, SequenceTheorems

Places == {"idle", "sending", "storing_sent", "sent", "send_failed",
           "storing_received", "storing_attachments", "replay_failed"}

Pens == {"up", "ready", "down", "done"}

Methods == {"IN_REPLY_TO", "REFERENCES", "REQUEST_TOKEN", None}

\* A step of a session.
Moves(s) ==
  \/ \E r \in Requests : StartSend(s, r)
  \/ \E m \in Mails : StartReplay(s, m)
  \/ SendStep(s) \/ ReplayStep(s) \/ StoreFile(s) \/ Abort(s)

\* It moves nobody else.
Moved(s) ==
  /\ pc' \in [Sessions -> Places] /\ work' \in [Sessions -> Works] /\ pen' \in [Sessions -> Pens]
  /\ \A t \in Sessions \ {s} : pc'[t] = pc[t] /\ work'[t] = work[t] /\ pen'[t] = pen[t]

-----------------------------------------------------------------------------
\* What an idle call holds has the type of work.
LEMMA NoWorkType == NoWork \in Works
BY EmptySeq DEF NoWork, Works, NoLink

\* What a session holds, and where it is, after it moves.
LEMMA MoveType ==
  ASSUME MailTypeOK, NEW s \in Sessions, NEW place \in Places, NEW w \in Works, NEW p \in Pens,
         pc' = pc \/ pc' = [pc EXCEPT ![s] = place],
         work' = work \/ work' = [work EXCEPT ![s] = w],
         pen' = pen \/ pen' = [pen EXCEPT ![s] = p]
  PROVE  Moved(s)
<1>1. pc' \in [Sessions -> Places] /\ \A t \in Sessions \ {s} : pc'[t] = pc[t]
  BY DEF MailTypeOK, Places
<1>2. work' \in [Sessions -> Works] /\ \A t \in Sessions \ {s} : work'[t] = work[t]
  BY DEF MailTypeOK
<1>3. pen' \in [Sessions -> Pens] /\ \A t \in Sessions \ {s} : pen'[t] = pen[t]
  BY DEF MailTypeOK, Pens
<1> QED BY <1>1, <1>2, <1>3 DEF Moved

\* The file of a session that stores one.
LEMMA FileType ==
  ASSUME MailInv, NEW s \in Sessions, IsStoring(s)
  PROVE  /\ FileOf(s) \in Files
         /\ pc[s] = "storing_attachments" =>
              /\ work[s].item.attachments \in Seq(Attachments)
              /\ Len(work[s].stored) + 1 \in 1 .. Len(work[s].item.attachments)
              /\ FileOf(s) \in Attachments
<1>1. CASE pc[s] = "storing_attachments"
  <2>1. work[s].item \in Mails /\ work[s].stored \in Seq(Attachments)
    BY <1>1 DEF MailInv, MailTypeOK, Works, SessionSound, ReceiverSound, Inserted
  <2>2. work[s].item.attachments \in Seq(Attachments)
    BY <2>1, MailsAssumption
  <2>3. Len(work[s].stored) + 1 \in 1 .. Len(work[s].item.attachments)
    <3>1. Len(work[s].stored) \in Nat /\ Len(work[s].item.attachments) \in Nat
      BY <2>1, <2>2, LenProperties
    <3>2. Len(work[s].stored) < Len(work[s].item.attachments)
      BY <1>1 DEF IsStoring
    <3> QED BY <3>1, <3>2
  <2>4. FileOf(s) \in Attachments
    BY <1>1, <2>2, <2>3, ElementOfSeq DEF FileOf
  <2> QED BY <2>2, <2>3, <2>4 DEF Files
<1>2. CASE pc[s] # "storing_attachments"
  <2>1. pc[s] \in {"storing_sent", "storing_received"} /\ FileOf(s) = work[s].item
    BY <1>2 DEF IsStoring, FileOf
  <2>2. work[s].item \in Requests \cup Mails
    BY <2>1 DEF MailInv, SessionSound, SenderSound, ReceiverSound, Sending
  <2> QED BY <1>2, <2>1, <2>2 DEF Files
<1> QED BY <1>1, <1>2

\* The request a mail is linked to is one it names, and there is one if it names any:
\* whoever answers a request knows it from its delivery.
LEMMA LinkIsNamed ==
  ASSUME OriginIsKnown, NEW m \in Mails, Arrived(m)
  PROVE  /\ IsLinked(m, LinkOf(m).request)
         /\ LinkOf(m) \in [request : Requests \cup {None}, method : Methods]
<1> DEFINE known == {i \in DOMAIN m.references : IsKnown(m.references[i])}
           last  == CHOOSE i \in known : \A j \in known : j <= i
<1>1. Named(m) = {r \in Requests : r = m.replyTo \/ r = m.token \/ \E i \in DOMAIN m.references : r = m.references[i]}
  BY DEF Named, Range
<1>2. \A r \in Named(m) : IsKnown(r)
  BY <1>1 DEF Arrived, OriginIsKnown, IsKnown
<1>3. \A r : IsKnown(r) => r \in Requests
  BY DEF IsKnown
<1>4. CASE IsKnown(m.replyTo)
  <2>1. LinkOf(m) = [request |-> m.replyTo, method |-> "IN_REPLY_TO"]
    BY <1>4 DEF LinkOf
  <2> QED BY <1>1, <1>3, <1>4, <2>1 DEF IsLinked, Methods
<1>5. CASE ~IsKnown(m.replyTo) /\ known # {}
  <2>1. PICK i \in known : \A j \in known : j <= i
    <3>1. m.references \in Seq(Requests \cup MessageIds)
      BY MailsAssumption
    <3>2. Len(m.references) \in Nat /\ known \subseteq 1 .. Len(m.references)
      BY <3>1, LenProperties
    <3> HIDE DEF known
    <3> QED BY <1>5, <3>2, GreatestExists
  <2>2. last \in known
    BY <2>1
  <2>3. LinkOf(m) = [request |-> m.references[last], method |-> "REFERENCES"]
    BY <1>5 DEF LinkOf
  <2> HIDE DEF last
  <2>4. last \in DOMAIN m.references /\ m.references[last] \in Requests
    BY <1>3, <2>2
  <2>5. m.references[last] \in Named(m)
    BY <1>1, <2>4
  <2>6. IsLinked(m, LinkOf(m).request)
    BY <2>3, <2>5 DEF IsLinked
  <2> QED BY <2>3, <2>4, <2>6 DEF Methods
<1>6. CASE ~IsKnown(m.replyTo) /\ known = {} /\ IsKnown(m.token)
  <2>1. LinkOf(m) = [request |-> m.token, method |-> "REQUEST_TOKEN"]
    BY <1>6 DEF LinkOf
  <2> QED BY <1>1, <1>3, <1>6, <2>1 DEF IsLinked, Methods
<1>7. CASE ~IsKnown(m.replyTo) /\ known = {} /\ ~IsKnown(m.token)
  <2>1. LinkOf(m) = NoLink
    BY <1>7 DEF LinkOf
  <2>2. Named(m) = {}
    BY <1>1, <1>2, <1>7
  <2> QED BY <2>1, <2>2 DEF IsLinked, Methods, NoLink
<1> QED BY <1>4, <1>5, <1>6, <1>7

-----------------------------------------------------------------------------
\* A call that ends is idle and holds nothing.
LEMMA EndMoves ==
  ASSUME MailTypeOK, NEW s \in Sessions, End(s)
  PROVE  Moved(s) /\ pc'[s] = "idle" /\ pen'[s] = "up"
BY MoveType, NoWorkType DEF End, GoTo, PenUp, Places, Pens, MailTypeOK

\* A session moves by itself, and keeps its types.
LEMMA MovesOneSession ==
  ASSUME MailInv, NEW s \in Sessions, Moves(s)
  PROVE  Moved(s)
<1> USE DEF GoTo, PenUp, Begin, Places, Pens
<1>0. MailTypeOK /\ work[s] \in Works
  BY DEF MailInv, MailTypeOK
<1>1. ASSUME NEW r \in Requests, StartSend(s, r) PROVE Moved(s)
  <2>1. requests[r] \in Rows
    BY <1>0, <1>1 DEF StartSend, MailTypeOK
  <2>2. [NoWork EXCEPT !.item = r, !.row = requests[r]] \in Works
    BY <2>1, EmptySeq DEF NoWork, Works, NoLink
  <2> QED BY <1>0, <1>1, <2>2, MoveType DEF StartSend
<1>2. ASSUME NEW m \in Mails, StartReplay(s, m) PROVE Moved(s)
  <2>1. LinkOf(m) \in [request : Requests \cup {None}, method : Methods]
    BY <1>2, LinkIsNamed DEF StartReplay, MailInv
  <2>2. [NoWork EXCEPT !.item = m, !.link = LinkOf(m)] \in Works
    BY <2>1, EmptySeq DEF NoWork, Works, Methods
  <2> QED BY <1>0, <1>2, <2>2, MoveType DEF StartReplay
<1>3. CASE Refused(s) \/ Delivered(s) \/ StoreSentFails(s) \/ AttachmentFails(s)
  BY <1>0, <1>3, MoveType, SMTT(30) DEF Refused, Delivered, StoreSentFails, AttachmentFails
<1>4. CASE LookUpSent(s)
  <2> DEFINE found == {t \in {"message", "event"} :
                        \/ t = "message" /\ \E m \in messages : DedupeKey(m.mid, m.raw) = work[s].item
                        \/ t = "event" /\ work[s].item \in sentEvents}
  <2>1. found \in SUBSET {"message", "event"}
    OBVIOUS
  <2>2. work' = [work EXCEPT ![s] = [work[s] EXCEPT !.found = found]]
    BY <1>4 DEF LookUpSent
  <2> HIDE DEF found
  <2>3. [work[s] EXCEPT !.found = found] \in Works
    BY <1>0, <2>1 DEF Works
  <2> QED BY <1>0, <1>4, <2>2, <2>3, MoveType DEF LookUpSent
<1>5. CASE CommitSent(s) \/ CommitSendFailure(s) \/ CommitReplay(s) \/ CommitReplayFailure(s) \/ Abort(s)
  <2>1. End(s)
    BY <1>5 DEF CommitSent, CommitSendFailure, CommitReplay, CommitReplayFailure, Record, Abort
  <2> QED BY <1>0, <2>1, EndMoves
<1>6. CASE InsertMessage(s)
  <2>1. CASE End(s)
    BY <1>0, <2>1, EndMoves
  <2>2. CASE GoTo(s, "storing_attachments") /\ PenUp(s) /\ UNCHANGED work
    BY <1>0, <2>2, MoveType
  <2> QED BY <1>6, <2>1, <2>2 DEF InsertMessage
<1>7. CASE AddAttachment(s)
  <2>1. IsStoring(s) /\ pc[s] = "storing_attachments"
    BY <1>7 DEF AddAttachment, MailInv, SessionSound, PenSound
  <2>2. FileOf(s) \in Attachments
    BY <2>1, FileType
  <2>3. [work[s] EXCEPT !.stored = Append(@, FileOf(s))] \in Works
    BY <1>0, <2>2, AppendProperties DEF Works
  <2> QED BY <1>0, <1>7, <2>3, MoveType DEF AddAttachment
<1>8. CASE StoreFile(s)
  BY <1>0, <1>8, MoveType DEF StoreFile, CheckPath, OpenFile, FinishFile, Pen
<1> QED BY <1>1, <1>2, <1>3, <1>4, <1>5, <1>6, <1>7, <1>8 DEF Moves, SendStep, ReplayStep

-----------------------------------------------------------------------------
\* The rows a session may add.
LEMMA RecordedType ==
  ASSUME MailInv, NEW s \in Sessions, pc[s] \in Inserted, NEW status \in {"PROCESSED", "REVIEW", "DEAD_LETTER"}
  PROVE  [raw |-> work[s].item, mid |-> work[s].item.mid, direction |-> "INBOUND",
          request |-> work[s].link.request, method |-> work[s].link.method,
          status |-> status, attachments |-> work[s].stored] \in Messages
<1>1. work[s].item \in Mails /\ work[s] \in Works
  BY DEF MailInv, MailTypeOK, SessionSound, ReceiverSound
<1>2. work[s].item.mid \in Requests \cup MessageIds \cup {None}
  BY <1>1, MailsAssumption
<1> QED BY <1>1, <1>2 DEF Works, Messages

\* What can happen to the tables and the files: all of it only grows, and a request
\* changes by its own sender alone.
TablesType ==
  /\ requests' \in [Requests -> Rows \cup {None}]
  /\ messages' \subseteq Messages /\ sentEvents' \subseteq Requests /\ delivered' \subseteq Requests
  /\ failures' \in [Requests -> Nat]
  /\ disk' \in [Files -> {"none", "torn", "whole"}]

TablesGrow ==
  /\ messages \subseteq messages' /\ sentEvents \subseteq sentEvents' /\ delivered \subseteq delivered'
  /\ \A r \in Requests : /\ requests[r] \in Rows => requests'[r] \in Rows
                         /\ failures[r] <= failures'[r]
  /\ \A f \in Files : disk[f] # "none" => disk'[f] # "none"

\* A session that sends has a request with a row.
LEMMA SenderIs ==
  ASSUME MailInv, NEW s \in Sessions, pc[s] \in Sending
  PROVE  /\ work[s].item \in Requests /\ requests[work[s].item] \in Rows /\ work[s].row \in Rows
         /\ work[s].row.retries <= failures[work[s].item]
BY DEF MailInv, SessionSound, SenderSound

\* A step that leaves tables and files alone keeps them, too.
LEMMA SameTables ==
  ASSUME MailInv, UNCHANGED <<tables, delivered, disk>>
  PROVE  TablesType /\ TablesGrow
<1>1. TablesType
  BY DEF MailInv, MailTypeOK, TablesType, tables
<1>2. UNCHANGED <<requests, messages, sentEvents, failures, delivered, disk>>
  BY DEF tables
<1>3. \A r \in Requests : failures[r] <= failures'[r]
  BY <1>2 DEF MailInv, MailTypeOK
<1>4. TablesGrow
  BY <1>2, <1>3 DEF TablesGrow
<1> QED BY <1>1, <1>4

\* A new request is a draft.
LEMMA CreateStep ==
  ASSUME MailInv, NEW r \in Requests, CreateRequest(r)
  PROVE  TablesType /\ TablesGrow /\ requests[r] = None
<1>1. [status |-> "DRAFT", retries |-> 0] \in Rows
  BY DEF Rows
<1>2. requests[r] = None
  BY DEF CreateRequest
<1> QED BY <1>1, <1>2 DEF CreateRequest, MailInv, MailTypeOK, TablesType, TablesGrow

\* Recording a success adds a message at most, and an event.
LEMMA CommitSentStep ==
  ASSUME MailInv, NEW s \in Sessions, CommitSent(s)
  PROVE  TablesType /\ TablesGrow
<1> DEFINE r == work[s].item
<1>1. pc[s] \in Sending /\ r \in Requests /\ requests[r] \in Rows
  BY SenderIs DEF CommitSent, Sending
<1>2. SentMessage(r) \in Messages
  BY <1>1, EmptySeq DEF SentMessage, Messages
<1>3. CASE SentConflicts(s)
  BY <1>3, SameTables DEF CommitSent
<1>4. CASE ~SentConflicts(s)
  <2>1. /\ requests' = [requests EXCEPT ![r].status = "SENT"]
        /\ messages' \in {messages, messages \cup {SentMessage(r)}}
        /\ sentEvents' = sentEvents \cup {r}
        /\ UNCHANGED <<failures, delivered, disk>>
    BY <1>4 DEF CommitSent
  <2>2. [requests[r] EXCEPT !.status = "SENT"] \in Rows
    BY <1>1 DEF Rows
  <2>3. /\ requests' \in [Requests -> Rows \cup {None}]
        /\ \A q \in Requests : requests[q] \in Rows => requests'[q] \in Rows
    BY <1>1, <2>1, <2>2 DEF MailInv, MailTypeOK
  <2> HIDE DEF r
  <2> QED BY <1>1, <1>2, <2>1, <2>3 DEF MailInv, MailTypeOK, TablesType, TablesGrow
<1> QED BY <1>3, <1>4

\* Recording a failure adds one to the failures.
LEMMA CommitSendFailureStep ==
  ASSUME MailInv, NEW s \in Sessions, CommitSendFailure(s)
  PROVE  TablesType /\ TablesGrow
<1> DEFINE r       == work[s].item
           row     == work[s].row
           retries == row.retries + 1
           status  == StatusAfterFailure(retries)
           new     == [retries |-> retries,
                       status  |-> IF status = row.status THEN requests[r].status ELSE status]
<1>1. r \in Requests /\ requests[r] \in Rows /\ row \in Rows
  BY SenderIs DEF CommitSendFailure, Sending
<1>2. new \in Rows
  BY <1>1 DEF Rows, StatusAfterFailure
<1>3. /\ requests' = [requests EXCEPT ![r] = new]
      /\ failures' = [failures EXCEPT ![r] = @ + 1]
      /\ UNCHANGED <<messages, sentEvents, delivered, disk>>
  BY <1>1 DEF CommitSendFailure, MailInv, MailTypeOK
<1>4. failures' \in [Requests -> Nat] /\ \A q \in Requests : failures[q] <= failures'[q]
  BY <1>1, <1>3 DEF MailInv, MailTypeOK
<1> HIDE DEF r, new
<1>5. /\ requests' \in [Requests -> Rows \cup {None}]
      /\ \A q \in Requests : requests[q] \in Rows => requests'[q] \in Rows
  BY <1>1, <1>2, <1>3 DEF MailInv, MailTypeOK
<1>6. UNCHANGED <<messages, sentEvents, delivered, disk>>
  BY <1>3
<1>7. TablesType
  BY <1>4, <1>5, <1>6 DEF MailInv, MailTypeOK, TablesType
<1>8. TablesGrow
  BY <1>4, <1>5, <1>6 DEF TablesGrow
<1> QED BY <1>7, <1>8

\* Recording a mail adds a message at most.
LEMMA RecordStep ==
  ASSUME MailInv, NEW s \in Sessions, pc[s] \in Inserted,
         NEW status \in {"PROCESSED", "REVIEW", "DEAD_LETTER"}, Record(s, status)
  PROVE  TablesType /\ TablesGrow
<1>1. PICK m \in Messages : messages' \in {messages, messages \cup {m}}
  BY RecordedType DEF Record
<1>2. UNCHANGED <<requests, sentEvents, failures, delivered, disk>>
  BY DEF Record
<1>3. TablesType
  BY <1>1, <1>2 DEF MailInv, MailTypeOK, TablesType
<1>4. \A r \in Requests : failures[r] <= failures'[r]
  BY <1>2 DEF MailInv, MailTypeOK
<1>5. TablesGrow
  BY <1>1, <1>2, <1>4 DEF TablesGrow
<1> QED BY <1>3, <1>5

\* Every step keeps the tables' types and lets them grow only.
LEMMA TablesStep ==
  ASSUME MailInv, [Next]_vars
  PROVE  TablesType /\ TablesGrow
<1>0. CASE UNCHANGED vars
  BY <1>0, SameTables DEF vars, tables
<1>1. ASSUME NEW r \in Requests, CreateRequest(r) PROVE TablesType /\ TablesGrow
  BY <1>1, CreateStep
<1>2. ASSUME NEW s \in Sessions, Moves(s) PROVE TablesType /\ TablesGrow
  <2>1. CASE \/ \E r \in Requests : StartSend(s, r)
             \/ \E m \in Mails : StartReplay(s, m)
             \/ StoreSentFails(s) \/ LookUpSent(s) \/ InsertMessage(s) \/ AddAttachment(s)
             \/ AttachmentFails(s) \/ CheckPath(s) \/ Abort(s)
    BY <2>1, SameTables
       DEF StartSend, StartReplay, StoreSentFails, LookUpSent, InsertMessage, AddAttachment,
           AttachmentFails, CheckPath, Pen, Abort
  <2>2. CASE Refused(s) \/ Delivered(s)
    <3>1. work[s].item \in Requests
      BY <2>2, SenderIs DEF Refused, Delivered, Sending
    <3> QED BY <2>2, <3>1
            DEF Refused, Delivered, MailInv, MailTypeOK, TablesType, TablesGrow, tables
  <2>3. CASE OpenFile(s) \/ FinishFile(s)
    <3>1. FileOf(s) \in Files
      BY <2>3, FileType DEF OpenFile, FinishFile, Pen
    <3> QED BY <2>3, <3>1
            DEF OpenFile, FinishFile, Pen, MailInv, MailTypeOK, TablesType, TablesGrow, tables
  <2>4. CASE CommitSent(s)
    BY <2>4, CommitSentStep
  <2>5. CASE CommitSendFailure(s)
    BY <2>5, CommitSendFailureStep
  <2>6. CASE CommitReplay(s)
    BY <2>6, RecordStep DEF CommitReplay, ReceivedStatus, Inserted
  <2>7. CASE CommitReplayFailure(s)
    BY <2>7, RecordStep DEF CommitReplayFailure, Inserted
  <2> QED BY <1>2, <2>1, <2>2, <2>3, <2>4, <2>5, <2>6, <2>7 DEF Moves, SendStep, ReplayStep, StoreFile
<1> QED BY <1>0, <1>1, <1>2 DEF Next, Moves

-----------------------------------------------------------------------------
\* Every step keeps the types.
LEMMA TypeStep == MailInv /\ [Next]_vars => MailTypeOK'
<1> SUFFICES ASSUME MailInv, [Next]_vars PROVE MailTypeOK'
  OBVIOUS
<1>1. TablesType
  BY TablesStep
<1>2. /\ pc' \in [Sessions -> Places] /\ work' \in [Sessions -> Works]
      /\ pen' \in [Sessions -> Pens]
  <2>1. CASE UNCHANGED <<pc, work, pen>>
    BY <2>1 DEF MailInv, MailTypeOK, Places, Pens
  <2>2. ASSUME NEW s \in Sessions, Moves(s) PROVE <1>2
    BY <2>2, MovesOneSession DEF Moved
  <2> QED BY <2>1, <2>2 DEF Next, Moves, CreateRequest, vars
<1> QED BY <1>1, <1>2 DEF MailTypeOK, TablesType, Places, Pens

\* What a session has done stays true while others move.
LEMMA OthersStaySound ==
  ASSUME MailInv, TablesType, TablesGrow, NEW t \in Sessions,
         pc'[t] = pc[t], work'[t] = work[t], pen'[t] = pen[t]
  PROVE  SessionSound(t)'
<1>0. MailTypeOK /\ SessionSound(t)
  BY DEF MailInv
<1>1. ASSUME pc[t] \in Sending PROVE SenderSound(t)'
  <2> DEFINE r == work[t].item
  <2>1. /\ r \in Requests /\ requests[r] \in Rows
        /\ work[t].row \in Rows /\ work[t].row.retries <= failures[r]
    BY <1>1, SenderIs
  <2>2. work[t].row.retries <= failures'[r]
    BY <2>1 DEF Rows, MailTypeOK, TablesType, TablesGrow, MailInv
  <2>3. requests'[r] \in Rows /\ r \in Files
    BY <2>1 DEF TablesGrow, Files
  <2>4. pc[t] \in {"storing_sent", "sent"} => r \in delivered'
    BY <1>0, <1>1 DEF SessionSound, SenderSound, TablesGrow
  <2>5. pc[t] = "sent" => /\ disk'[r] # "none"
                          /\ "message" \in work[t].found => \E m \in messages' : m.mid = r
    BY <1>0, <1>1, <2>3 DEF SessionSound, SenderSound, TablesGrow
  <2> DEFINE w == work'[t]
  <2>6. w = work[t] /\ pc'[t] = pc[t] /\ r = w.item
    OBVIOUS
  <2> HIDE DEF r
  <2>7. w.item \in Requests /\ requests'[w.item] \in Rows /\ w.row \in Rows /\ w.row.retries <= failures'[w.item]
    BY <2>1, <2>2, <2>3, <2>6
  <2>8. pc'[t] \in {"storing_sent", "sent"} => w.item \in delivered'
    BY <2>4, <2>6
  <2>9. pc'[t] = "sent" => disk'[w.item] # "none"
    BY <2>5, <2>6
  <2>10. pc'[t] = "sent" /\ "message" \in w.found => \E m \in messages' : m.mid = w.item
    BY <2>5, <2>6
  <2> QED BY <2>7, <2>8, <2>9, <2>10 DEF SenderSound
<1>2. ASSUME pc[t] \in {"storing_received"} \cup Inserted PROVE ReceiverSound(t)'
  <2>1. ReceiverSound(t)
    BY <1>0, <1>2 DEF SessionSound
  <2>2. work[t].item \in Files
    BY <2>1 DEF ReceiverSound, Files
  <2>3. \A a \in Range(work[t].stored) : a \in Files
    <3>1. work[t].stored \in Seq(Attachments)
      BY <1>0 DEF MailTypeOK, Works
    <3> QED BY <3>1 DEF Range, Files
  <2> QED BY <2>1, <2>2, <2>3 DEF ReceiverSound, TablesGrow
<1>3. PenSound(t)'
  <2>1. PenSound(t)
    BY <1>0 DEF SessionSound
  <2>2. IsStoring(t)' = IsStoring(t) /\ FileOf(t)' = FileOf(t)
    BY DEF IsStoring, FileOf
  <2>3. IsStoring(t) => FileOf(t) \in Files
    BY FileType
  <2> QED BY <2>1, <2>2, <2>3 DEF PenSound, TablesGrow
<1> QED BY <1>1, <1>2, <1>3 DEF SessionSound

\* Who stores no file has no pen in hand.
LEMMA PenAtRest ==
  ASSUME MailInv, NEW s \in Sessions, ~IsStoring(s)
  PROVE  pen[s] = "up"
BY DEF MailInv, SessionSound, PenSound

\* The Message-ID of a request is that of a message sent for it.
LEMMA KeyIsMid ==
  ASSUME OriginIsKnown, NEW r \in Requests, NEW m \in messages, DedupeKey(m.mid, m.raw) = r
  PROVE  m.mid = r
BY NamesAssumption DEF OriginIsKnown, DedupeKey

\* After the lookup, a message that was found is there.
LEMMA LookUpSound ==
  ASSUME MailInv, NEW s \in Sessions, LookUpSent(s), Moved(s), TablesType, TablesGrow
  PROVE  SessionSound(s)'
<1> DEFINE r == work[s].item
<1>1. pc[s] \in Sending /\ SenderSound(s) /\ pen[s] = "done" /\ FileOf(s) = r /\ disk[r] # "none"
  BY DEF LookUpSent, Sending, MailInv, SessionSound, PenSound, FileOf
<1>2. pc'[s] = "sent" /\ pen'[s] = "up"
  BY DEF LookUpSent, GoTo, PenUp, MailInv, MailTypeOK
<1>3. /\ work'[s].item = r /\ work'[s].row = work[s].row
      /\ "message" \in work'[s].found => \E m \in messages : DedupeKey(m.mid, m.raw) = r
  BY DEF LookUpSent, MailInv, MailTypeOK, Works
<1>4. "message" \in work'[s].found => \E m \in messages : m.mid = r
  BY <1>1, <1>3, KeyIsMid DEF MailInv, SenderSound
<1>5. UNCHANGED <<requests, messages, failures, delivered, disk>>
  BY DEF LookUpSent, tables
<1>6. r \in delivered
  BY <1>1 DEF SenderSound, LookUpSent
<1>7. SenderSound(s)'
  BY <1>1, <1>2, <1>3, <1>4, <1>5, <1>6 DEF SenderSound
<1> QED BY <1>2, <1>7 DEF SessionSound, PenSound, Inserted

\* After the insert, the mail's file is there and no attachment is stored.
LEMMA InsertSound ==
  ASSUME MailInv, NEW s \in Sessions, InsertMessage(s)
  PROVE  SessionSound(s)'
<1> DEFINE m == work[s].item
<1>1. ReceiverSound(s) /\ pen[s] = "done" /\ FileOf(s) = m /\ disk[m] # "none"
  BY DEF InsertMessage, MailInv, SessionSound, PenSound, FileOf
<1>2. CASE IsStored(m.mid, m)
  <2>1. pc'[s] = "idle" /\ pen'[s] = "up"
    BY <1>2 DEF InsertMessage, End, GoTo, PenUp, MailInv, MailTypeOK
  <2> QED BY <2>1 DEF SessionSound, PenSound, Sending, Inserted
<1>3. CASE ~IsStored(m.mid, m)
  <2>1. pc'[s] = "storing_attachments" /\ pen'[s] = "up" /\ work' = work /\ disk' = disk
    BY <1>3 DEF InsertMessage, GoTo, PenUp, MailInv, MailTypeOK
  <2>2. work[s].stored = <<>> /\ m \in Mails
    BY <1>1 DEF InsertMessage, ReceiverSound
  <2>3. m.attachments \in Seq(Attachments)
    BY <2>2, MailsAssumption
  <2>4. Len(work[s].stored) = 0 /\ Len(work[s].stored) <= Len(m.attachments)
    BY <2>2, <2>3, LenProperties, EmptySeq
  <2>5. work[s].stored = SubSeq(m.attachments, 1, Len(work[s].stored))
    BY <2>2, <2>4, SubSeqEmpty
  <2>6. Range(work[s].stored) = {}
    BY <2>2 DEF Range
  <2>7. ReceiverSound(s)'
    BY <1>1, <2>1, <2>4, <2>5, <2>6 DEF ReceiverSound
  <2> QED BY <2>1, <2>7 DEF SessionSound, PenSound, Sending
<1> QED BY <1>2, <1>3

\* One more attachment is stored: the next of the mail, with its file.
LEMMA AddAttachmentSound ==
  ASSUME MailInv, NEW s \in Sessions, AddAttachment(s)
  PROVE  SessionSound(s)'
<1> DEFINE m   == work[s].item
           seq == work[s].stored
           n   == Len(seq)
<1>1. /\ ReceiverSound(s) /\ IsStoring(s) /\ pc[s] = "storing_attachments"
      /\ FileOf(s) = m.attachments[n + 1] /\ disk[FileOf(s)] # "none"
  BY DEF AddAttachment, MailInv, SessionSound, PenSound, FileOf, Inserted
<1>2. /\ m.attachments \in Seq(Attachments) /\ n + 1 \in 1 .. Len(m.attachments)
      /\ FileOf(s) \in Attachments
  BY <1>1, FileType
<1>3. seq \in Seq(Attachments) /\ n \in Nat /\ Len(m.attachments) \in Nat
  BY <1>2, LenProperties DEF MailInv, MailTypeOK, Works
<1>4. /\ pc'[s] = "storing_attachments" /\ pen'[s] = "up" /\ disk' = disk
      /\ work'[s].item = m /\ work'[s].link = work[s].link
      /\ work'[s].stored = Append(seq, FileOf(s))
  BY <1>1 DEF AddAttachment, PenUp, MailInv, MailTypeOK, Works
<1>5. /\ Append(seq, FileOf(s)) = seq \o <<FileOf(s)>>
      /\ Len(Append(seq, FileOf(s))) = n + 1
      /\ \A i \in 1 .. n + 1 : Append(seq, FileOf(s))[i] = IF i <= n THEN seq[i] ELSE FileOf(s)
      /\ DOMAIN Append(seq, FileOf(s)) = 1 .. n + 1
  BY <1>2, <1>3, AppendProperties, AppendIsConcat, LenProperties, SMTT(30)
<1>6. Append(seq, FileOf(s)) = SubSeq(m.attachments, 1, n + 1)
  <2>1. SubSeq(m.attachments, 1, n + 1) = SubSeq(m.attachments, 1, n) \o <<m.attachments[n + 1]>>
    <3>1. 1 \in 1 .. Len(m.attachments) /\ n + 1 \in 1 .. Len(m.attachments) /\ (n + 1) - 1 = n
      BY <1>2, <1>3
    <3> QED BY <1>2, <3>1, SubSeqRecursiveSecond
  <2>2. seq = SubSeq(m.attachments, 1, n)
    BY <1>1 DEF ReceiverSound, Inserted
  <2> QED BY <1>1, <1>5, <2>1, <2>2
<1>7. \A a \in Range(Append(seq, FileOf(s))) : disk[a] # "none"
  <2>1. \A i \in 1 .. n : disk[seq[i]] # "none"
    <3>1. \A a \in Range(seq) : disk[a] # "none"
      BY <1>1 DEF ReceiverSound, Inserted
    <3>2. DOMAIN seq = 1 .. n
      BY <1>3, LenProperties
    <3> QED BY <3>1, <3>2 DEF Range
  <2> DEFINE new == Append(seq, FileOf(s))
  <2>2. \A i \in 1 .. n + 1 : disk[new[i]] # "none"
    <3> SUFFICES ASSUME NEW i \in 1 .. n + 1 PROVE disk[new[i]] # "none"
      OBVIOUS
    <3>1. CASE i <= n
      BY <1>3, <1>5, <2>1, <3>1
    <3>2. CASE ~(i <= n)
      BY <1>1, <1>5, <3>2
    <3> QED BY <3>1, <3>2
  <2>3. DOMAIN new = 1 .. n + 1
    BY <1>5
  <2> HIDE DEF new
  <2>4. \A a \in Range(new) : disk[a] # "none"
    BY <2>2, <2>3 DEF Range
  <2> QED BY <2>4 DEF new
<1>8. ReceiverSound(s)'
  <2> DEFINE new == Append(seq, FileOf(s))
  <2>1. work'[s].stored = new /\ Len(new) = n + 1 /\ n + 1 <= Len(m.attachments)
    BY <1>2, <1>3, <1>4, <1>5
  <2>2. new = SubSeq(m.attachments, 1, n + 1) /\ \A a \in Range(new) : disk[a] # "none"
    BY <1>6, <1>7
  <2>3. m \in Mails /\ IsLinked(m, work[s].link.request) /\ disk[m] # "none"
    BY <1>1 DEF ReceiverSound, Inserted
  <2> HIDE DEF new, m, n
  <2> QED BY <1>4, <2>1, <2>2, <2>3 DEF ReceiverSound
<1> QED BY <1>4, <1>8 DEF SessionSound, PenSound, Sending

\* What a session has done is true after it moves, too.
LEMMA MoverSound ==
  ASSUME MailInv, NEW s \in Sessions, Moves(s), Moved(s), TablesType, TablesGrow
  PROVE  SessionSound(s)'
<1> USE DEF GoTo, PenUp, Begin
<1>0. MailTypeOK /\ SessionSound(s) /\ OriginIsKnown /\ DeadLettersTried
  BY DEF MailInv
<1>1. ASSUME NEW r \in Requests, StartSend(s, r) PROVE SessionSound(s)'
  <2>1. requests[r] \in Rows /\ requests[r].retries <= failures[r]
    BY <1>0, <1>1 DEF StartSend, MailTypeOK, DeadLettersTried
  <2>2. pen[s] = "up"
    BY <1>1, PenAtRest DEF StartSend, IsStoring
  <2>3. pc'[s] = "sending" /\ pen'[s] = "up" /\ work'[s].item = r /\ work'[s].row = requests[r]
    BY <1>0, <1>1, <2>2 DEF StartSend, MailTypeOK, NoWork
  <2>4. UNCHANGED <<requests, failures>>
    BY <1>1 DEF StartSend, tables
  <2>5. SenderSound(s)'
    BY <2>1, <2>3, <2>4 DEF SenderSound
  <2> QED BY <2>3, <2>5 DEF SessionSound, PenSound, Inserted
<1>2. ASSUME NEW m \in Mails, StartReplay(s, m) PROVE SessionSound(s)'
  <2>1. IsLinked(m, LinkOf(m).request)
    BY <1>0, <1>2, LinkIsNamed DEF StartReplay
  <2>2. pen[s] = "up"
    BY <1>2, PenAtRest DEF StartReplay, IsStoring
  <2>3. /\ pc'[s] = "storing_received" /\ pen'[s] = "up"
        /\ work'[s].item = m /\ work'[s].link = LinkOf(m) /\ work'[s].stored = <<>>
    BY <1>0, <1>2, <2>2 DEF StartReplay, MailTypeOK, NoWork
  <2>4. ReceiverSound(s)'
    BY <2>1, <2>3 DEF ReceiverSound, Inserted
  <2> QED BY <2>3, <2>4 DEF SessionSound, PenSound, Sending
<1>3. CASE Refused(s) \/ Delivered(s)
  <2>1. pen[s] = "up" /\ SenderSound(s)
    BY <1>0, <1>3, PenAtRest DEF Refused, Delivered, IsStoring, SessionSound, Sending
  <2>2. /\ pc'[s] = IF Refused(s) THEN "send_failed" ELSE "storing_sent"
        /\ pen'[s] = "up" /\ work' = work
        /\ UNCHANGED <<requests, failures, disk, messages>>
        /\ Delivered(s) => work[s].item \in delivered'
    BY <1>0, <1>3, <2>1 DEF Refused, Delivered, MailTypeOK, tables
  <2>3. SenderSound(s)'
    BY <1>3, <2>1, <2>2 DEF SenderSound
  <2> QED BY <2>2, <2>3 DEF SessionSound, PenSound, Inserted
<1>4. CASE StoreSentFails(s)
  <2>1. SenderSound(s)
    BY <1>0, <1>4 DEF StoreSentFails, SessionSound, Sending
  <2>2. /\ pc'[s] = "send_failed" /\ pen'[s] = "up" /\ work' = work
        /\ UNCHANGED <<requests, failures>>
    BY <1>0, <1>4 DEF StoreSentFails, MailTypeOK, tables
  <2>3. SenderSound(s)'
    BY <2>1, <2>2 DEF SenderSound
  <2> QED BY <2>2, <2>3 DEF SessionSound, PenSound, Inserted
<1>5. CASE LookUpSent(s)
  BY <1>5, LookUpSound
<1>6. ASSUME End(s) PROVE SessionSound(s)'
  BY <1>0, <1>6, EndMoves DEF SessionSound, PenSound, Sending, Inserted
<1>7. CASE InsertMessage(s)
  BY <1>7, InsertSound
<1>8. CASE AddAttachment(s)
  BY <1>8, AddAttachmentSound
<1>9. CASE AttachmentFails(s)
  <2>1. ReceiverSound(s)
    BY <1>0, <1>9 DEF AttachmentFails, SessionSound, Inserted
  <2>2. pc[s] = "storing_attachments" /\ pc'[s] = "replay_failed" /\ pen'[s] = "up" /\ work' = work /\ disk' = disk
    BY <1>0, <1>9 DEF AttachmentFails, MailTypeOK
  <2>3. ReceiverSound(s)'
    BY <2>1, <2>2 DEF ReceiverSound, Inserted
  <2> QED BY <2>2, <2>3 DEF SessionSound, PenSound, Sending
<1>10. CASE StoreFile(s)
  <2>1. IsStoring(s) /\ pc' = pc /\ work' = work
    BY <1>10 DEF StoreFile, CheckPath, OpenFile, FinishFile, Pen
  <2>2. IsStoring(s)' /\ FileOf(s)' = FileOf(s)
    BY <2>1 DEF IsStoring, FileOf
  <2>3. FileOf(s) \in Files
    BY <2>1, FileType
  <2>4. pen'[s] \in {"down", "done"} => disk'[FileOf(s)] # "none"
    BY <1>0, <1>10, <2>3 DEF StoreFile, CheckPath, OpenFile, FinishFile, Pen, MailTypeOK
  <2>5. PenSound(s)'
    BY <2>2, <2>4 DEF PenSound
  <2>6. UNCHANGED <<requests, messages, failures, delivered>>
    BY <1>10 DEF StoreFile, CheckPath, OpenFile, FinishFile, Pen, tables
  <2>7. ASSUME pc[s] \in Sending PROVE SenderSound(s)'
    <3>1. SenderSound(s) /\ work[s].item \in Files
      BY <1>0, <2>7 DEF SessionSound, SenderSound, Files
    <3> QED BY <2>1, <2>6, <3>1 DEF SenderSound, TablesGrow
  <2>8. ASSUME pc[s] \in {"storing_received"} \cup Inserted PROVE ReceiverSound(s)'
    <3>1. ReceiverSound(s) /\ work[s].item \in Files
      BY <1>0, <2>8 DEF SessionSound, ReceiverSound, Files
    <3>2. \A a \in Range(work[s].stored) : a \in Files
      <4>1. work[s].stored \in Seq(Attachments)
        BY <1>0 DEF MailTypeOK, Works
      <4> QED BY <4>1 DEF Range, Files
    <3> QED BY <2>1, <3>1, <3>2 DEF ReceiverSound, TablesGrow
  <2> QED BY <2>1, <2>5, <2>7, <2>8 DEF SessionSound
<1> QED BY <1>1, <1>2, <1>3, <1>4, <1>5, <1>6, <1>7, <1>8, <1>9, <1>10
        DEF Moves, SendStep, ReplayStep, CommitSent, CommitSendFailure, CommitReplay,
            CommitReplayFailure, Record, Abort

\* Every step keeps what sessions have done true.
LEMMA SoundStep ==
  ASSUME MailInv, [Next]_vars, NEW t \in Sessions
  PROVE  SessionSound(t)'
<1>1. TablesType /\ TablesGrow
  BY TablesStep
<1>2. CASE UNCHANGED <<pc, work, pen>>
  BY <1>1, <1>2, OthersStaySound
<1>3. ASSUME NEW s \in Sessions, Moves(s) PROVE SessionSound(t)'
  <2>1. Moved(s)
    BY <1>3, MovesOneSession
  <2>2. CASE s = t
    BY <1>1, <1>3, <2>1, <2>2, MoverSound
  <2>3. CASE s # t
    BY <1>1, <2>1, <2>3, OthersStaySound DEF Moved
  <2> QED BY <2>2, <2>3
<1> QED BY <1>2, <1>3 DEF Next, Moves, CreateRequest, vars

-----------------------------------------------------------------------------
(***************************************************************************)
(* Messages: a step adds one at most, which no other has its keys, and     *)
(* which is linked and whole.                                              *)
(***************************************************************************)
WholeMessage(m) ==
  /\ disk[m.raw] # "none"
  /\ \A a \in Range(m.attachments) : disk[a] # "none"
  /\ m.direction = "INBOUND" =>
       /\ m.status \in {"PROCESSED", "REVIEW"} => m.attachments = m.raw.attachments
       /\ m.status = "PROCESSED" => Range(m.attachments) \subseteq Accepted
       /\ m.status = "REVIEW" => ~(Range(m.attachments) \subseteq Accepted)
       /\ m.status = "DEAD_LETTER" =>
            m.attachments = SubSeq(m.raw.attachments, 1, Len(m.attachments))

LinkedMessage(m) == m.direction = "INBOUND" => IsLinked(m.raw, m.request)

\* Nobody else has a message with its keys, stored or about to be.
HasNewKeys(m, s) == ~IsStored(m.mid, m.raw) /\ ~IsPending(s, m.mid, m.raw)

Adds(m, s) ==
  /\ messages' = messages \cup {m}
  /\ HasNewKeys(m, s) /\ LinkedMessage(m) /\ WholeMessage(m)
  /\ m.mid = None => m.raw \in Mails

\* The message of a request that is recorded as sent.
LEMMA SentAdds ==
  ASSUME MailInv, NEW s \in Sessions, CommitSent(s), messages' # messages
  PROVE  Adds(SentMessage(work[s].item), s)
<1> DEFINE r == work[s].item
           m == SentMessage(r)
<1>1. /\ "message" \notin work[s].found /\ ~IsStored(r, r) /\ ~IsPending(s, r, r)
      /\ messages' = messages \cup {m}
  BY DEF CommitSent, SentConflicts, tables
<1>2. r \in Requests /\ disk[r] # "none"
  BY DEF CommitSent, MailInv, SessionSound, SenderSound, Sending
<1>3. m.raw = r /\ m.mid = r /\ m.direction = "OUTBOUND" /\ m.attachments = <<>>
  BY DEF SentMessage
<1>4. Range(<<>>) = {}
  BY DEF Range
<1>5. r # None
  BY <1>2, NamesAssumption
<1> HIDE DEF m, r
<1> QED BY <1>1, <1>2, <1>3, <1>4, <1>5 DEF Adds, HasNewKeys, LinkedMessage, WholeMessage, m, r

Received(s, status) ==
  [raw |-> work[s].item, mid |-> work[s].item.mid, direction |-> "INBOUND",
   request |-> work[s].link.request, method |-> work[s].link.method,
   status |-> status, attachments |-> work[s].stored]

\* The message of a mail that is recorded, with the status that fits it.
LEMMA ReceivedAdds ==
  ASSUME MailInv, NEW s \in Sessions, CommitReplay(s) \/ CommitReplayFailure(s),
         messages' # messages
  PROVE  \E status : Adds(Received(s, status), s)
<1> DEFINE m       == work[s].item
           seq     == work[s].stored
           status == IF CommitReplay(s) THEN ReceivedStatus(seq) ELSE "DEAD_LETTER"
           new    == Received(s, status)
<1>1. pc[s] \in Inserted /\ messages' = messages \cup {new}
  BY DEF CommitReplay, CommitReplayFailure, Record, Inserted, Received
<1>2. /\ m \in Mails /\ IsLinked(m, work[s].link.request) /\ disk[m] # "none"
      /\ seq = SubSeq(m.attachments, 1, Len(seq)) /\ \A a \in Range(seq) : disk[a] # "none"
  BY <1>1 DEF MailInv, SessionSound, ReceiverSound
<1>3. ~IsStored(m.mid, m) /\ ~IsPending(s, m.mid, m)
  BY <1>1 DEF MailInv, MessagesApart
<1>4. /\ new.raw = m /\ new.mid = m.mid /\ new.request = work[s].link.request
      /\ new.status = status /\ new.attachments = seq
  BY DEF Received
<1>5. CommitReplay(s) => seq = m.attachments
  <2>1. m.attachments \in Seq(Attachments)
    BY <1>2, MailsAssumption
  <2>2. SubSeq(m.attachments, 1, Len(m.attachments)) = m.attachments
    BY <2>1, SubSeqFull
  <2> QED BY <1>2, <2>2 DEF CommitReplay
<1>6. /\ status \in {"PROCESSED", "REVIEW"} => seq = m.attachments
      /\ status = "PROCESSED" => Range(seq) \subseteq Accepted
      /\ status = "REVIEW" => ~(Range(seq) \subseteq Accepted)
  BY <1>5 DEF ReceivedStatus
<1> HIDE DEF new, m, seq, status
<1>7. HasNewKeys(new, s) /\ LinkedMessage(new)
  BY <1>2, <1>3, <1>4 DEF HasNewKeys, LinkedMessage, m
<1>8. WholeMessage(new)
  BY <1>2, <1>4, <1>6 DEF WholeMessage
<1>9. Adds(new, s)
  BY <1>1, <1>2, <1>4, <1>7, <1>8 DEF Adds
<1> QED BY <1>9 DEF new

\* Only the three commits that record a message add one.
LEMMA MessagesChange ==
  ASSUME MailInv, [Next]_vars, messages' # messages
  PROVE  \E s \in Sessions : \E m : Moves(s) /\ Adds(m, s) /\ pc'[s] = "idle"
<1>1. PICK s \in Sessions : CommitSent(s) \/ CommitReplay(s) \/ CommitReplayFailure(s)
  BY DEF Next, CreateRequest, StartSend, StartReplay, SendStep, ReplayStep, StoreFile, Abort,
         Refused, Delivered, StoreSentFails, LookUpSent, CommitSendFailure, InsertMessage,
         AddAttachment, AttachmentFails, CheckPath, OpenFile, FinishFile, Pen, vars, tables
<1>2. pc'[s] = "idle"
  BY <1>1, EndMoves DEF CommitSent, CommitReplay, CommitReplayFailure, Record, MailInv
<1>3. \E m : Adds(m, s)
  BY <1>1, SentAdds, ReceivedAdds
<1>4. Moves(s)
  BY <1>1, ZenonT(40) DEF Moves, SendStep, ReplayStep
<1> QED BY <1>2, <1>3, <1>4, ZenonT(40)

\* Every step keeps messages linked and whole.
LEMMA MessagesStep ==
  MailInv /\ [Next]_vars => RepliesAreLinked' /\ MessagesAreWhole'
<1> SUFFICES ASSUME MailInv, [Next]_vars, NEW m \in messages'
             PROVE  LinkedMessage(m)' /\ WholeMessage(m)'
  BY DEF RepliesAreLinked, MessagesAreWhole, LinkedMessage, WholeMessage, IsLinked
<1>1. TablesType /\ TablesGrow
  BY TablesStep
<1>2. LinkedMessage(m) /\ WholeMessage(m)
  <2>1. CASE m \in messages
    BY <2>1 DEF MailInv, RepliesAreLinked, MessagesAreWhole, LinkedMessage, WholeMessage, IsLinked
  <2>2. CASE m \notin messages
    BY <2>2, MessagesChange DEF Adds
  <2> QED BY <2>1, <2>2
<1>3. m.raw \in Files /\ \A a \in Range(m.attachments) : a \in Files
  BY <1>1 DEF TablesType, Messages, Files, Range
<1> QED BY <1>1, <1>2, <1>3 DEF LinkedMessage, WholeMessage, TablesGrow, IsLinked

-----------------------------------------------------------------------------
\* The keys of one message and another collide either way round.
Clash(s, t) ==
  IsSame(work[s].item.mid, work[s].item, [raw |-> work[t].item, mid |-> work[t].item.mid])

\* Two calls clash either way round.
LEMMA ClashIsSymmetric ==
  ASSUME NEW s, NEW t, Clash(s, t)
  PROVE  Clash(t, s)
BY DEF Clash, IsSame

IsAlone(s) ==
  ~IsStored(work[s].item.mid, work[s].item) /\ ~IsPending(s, work[s].item.mid, work[s].item)

\* Whoever has inserted a message is alone with it, and so is who inserts one now.
LEMMA InsertedIsAlone ==
  ASSUME MailInv, NEW s \in Sessions, Moves(s), pc'[s] \in Inserted
  PROVE  /\ messages' = messages /\ work'[s].item = work[s].item
         /\ ~IsStored(work[s].item.mid, work[s].item)
         /\ ~IsPending(s, work[s].item.mid, work[s].item)
<1>0. MailTypeOK
  BY DEF MailInv
<1>1. ASSUME End(s) PROVE FALSE
  BY <1>0, <1>1, EndMoves DEF Inserted
<1>2. ~\E r \in Requests : StartSend(s, r)
  BY <1>0 DEF StartSend, Begin, GoTo, MailTypeOK, Inserted
<1>3. ~\E m \in Mails : StartReplay(s, m)
  BY <1>0 DEF StartReplay, Begin, GoTo, MailTypeOK, Inserted
<1>4. ~Refused(s) /\ ~Delivered(s) /\ ~StoreSentFails(s) /\ ~LookUpSent(s)
  BY <1>0 DEF Refused, Delivered, StoreSentFails, LookUpSent, GoTo, MailTypeOK, Inserted
<1>5. CASE InsertMessage(s)
  BY <1>1, <1>5 DEF InsertMessage, tables
<1>6. CASE AddAttachment(s) \/ AttachmentFails(s) \/ StoreFile(s)
  <2>1. pc[s] \in Inserted /\ messages' = messages
    BY <1>6 DEF AddAttachment, AttachmentFails, StoreFile, CheckPath, OpenFile, FinishFile, Pen,
                tables, Inserted
  <2>2. work'[s].item = work[s].item
    BY <1>0, <1>6 DEF AddAttachment, AttachmentFails, StoreFile, CheckPath, OpenFile, FinishFile,
                      Pen, MailTypeOK, Works
  <2> QED BY <2>1, <2>2 DEF MailInv, MessagesApart
<1> QED BY <1>1, <1>2, <1>3, <1>4, <1>5, <1>6
        DEF Moves, SendStep, ReplayStep, StoreFile, CommitSent, CommitSendFailure, CommitReplay,
            CommitReplayFailure, Record, Abort

\* Every step keeps messages, and those in hand, apart.
LEMMA ApartStep == MailInv /\ [Next]_vars => MessagesApart'
<1> SUFFICES ASSUME MailInv, [Next]_vars PROVE MessagesApart'
  OBVIOUS
<1>1. \A m, n \in messages' : IsSame(m.mid, m.raw, n) => m = n
  <2>1. \A m, n \in messages : IsSame(m.mid, m.raw, n) => m = n
    BY DEF MailInv, MessagesApart
  <2>2. CASE messages' = messages
    BY <2>1, <2>2
  <2>3. CASE messages' # messages
    <3>1. PICK s \in Sessions : \E m : Adds(m, s)
      BY <2>3, MessagesChange
    <3> PICK x : Adds(x, s)
      BY <3>1
    <3>2. messages' = messages \cup {x} /\ \A n \in messages : ~IsSame(x.mid, x.raw, n)
      BY DEF Adds, HasNewKeys, IsStored
    <3>3. \A n \in messages : ~IsSame(n.mid, n.raw, x)
      BY <3>2 DEF IsSame
    <3> QED BY <2>1, <3>2, <3>3
  <2> QED BY <2>2, <2>3
<1>2. ASSUME NEW t \in Sessions, pc'[t] \in Inserted
      PROVE  IsAlone(t)'
  <2>1. CASE UNCHANGED <<pc, work, messages>>
    <3>1. ~IsStored(work[t].item.mid, work[t].item) /\ ~IsPending(t, work[t].item.mid, work[t].item)
      BY <1>2, <2>1 DEF MailInv, MessagesApart
    <3>2. ~IsStored(work[t].item.mid, work[t].item)'
      BY <2>1, <3>1 DEF IsStored
    <3>3. ~IsPending(t, work[t].item.mid, work[t].item)'
      BY <2>1, <3>1 DEF IsPending
    <3> QED BY <3>2, <3>3 DEF IsAlone
  <2>2. ASSUME NEW s \in Sessions, Moves(s)
        PROVE  IsAlone(t)'
    <3>0. \A u \in Sessions \ {s} : pc'[u] = pc[u] /\ work'[u] = work[u]
      BY <2>2, MovesOneSession DEF Moved
    <3>1. /\ pc'[s] \in Inserted => /\ messages' = messages /\ work'[s].item = work[s].item
                                    /\ ~IsStored(work[s].item.mid, work[s].item)
                                    /\ ~IsPending(s, work[s].item.mid, work[s].item)
      BY <2>2, InsertedIsAlone
    <3>2. \A u \in Sessions : pc[u] \in Inserted =>
            /\ ~IsStored(work[u].item.mid, work[u].item)
            /\ ~IsPending(u, work[u].item.mid, work[u].item)
      BY DEF MailInv, MessagesApart
    <3>3. work'[t].item = work[t].item /\ ~IsStored(work[t].item.mid, work[t].item)
          /\ ~IsPending(t, work[t].item.mid, work[t].item)
      BY <1>2, <3>0, <3>1, <3>2
    <3>4. \A u \in Sessions \ {t} : pc'[u] \in Inserted => ~Clash(t, u) /\ work'[u].item = work[u].item
      <4> SUFFICES ASSUME NEW u \in Sessions \ {t}, pc'[u] \in Inserted
                   PROVE  ~Clash(t, u) /\ work'[u].item = work[u].item
        OBVIOUS
      <4>1. CASE u # s
        <5>1. pc[u] \in Inserted /\ work'[u].item = work[u].item
          BY <3>0, <4>1
        <5> QED BY <3>3, <5>1 DEF IsPending, Clash, Inserted
      <4>2. CASE u = s
        <5>1. pc[t] \in Inserted
          BY <1>2, <3>0, <4>2
        <5>2. ~Clash(s, t) /\ work'[s].item = work[s].item
          BY <3>1, <4>2, <5>1 DEF IsPending, Clash, Inserted
        <5> QED BY <4>2, <5>2, ClashIsSymmetric
      <4> QED BY <4>1, <4>2
    <3>5. ~IsPending(t, work[t].item.mid, work[t].item)'
      BY <3>3, <3>4 DEF IsPending, Clash, Inserted
    <3>6. ~IsStored(work[t].item.mid, work[t].item)'
      <4>1. CASE messages' = messages
        BY <3>3, <4>1 DEF IsStored
      <4>2. CASE messages' # messages
        <5>0. PICK q \in Sessions : \E m : Moves(q) /\ Adds(m, q) /\ pc'[q] = "idle"
          BY <4>2, MessagesChange
        <5>1. PICK x : Moves(q) /\ Adds(x, q) /\ pc'[q] = "idle"
          BY <5>0
        <5>2. t # q
          BY <1>2, <5>1 DEF Inserted
        <5>3. pc[t] \in Inserted /\ work'[t] = work[t]
          BY <1>2, <5>1, <5>2, MovesOneSession DEF Moved
        <5>4. ~IsSame(x.mid, x.raw, [raw |-> work[t].item, mid |-> work[t].item.mid])
          BY <5>1, <5>2, <5>3 DEF Adds, HasNewKeys, IsPending, Inserted
        <5>5. ~IsSame(work[t].item.mid, work[t].item, x)
          BY <5>4 DEF IsSame
        <5>6. messages' = messages \cup {x}
          BY <5>1, ZenonT(40) DEF Adds
        <5> QED BY <3>3, <5>5, <5>6 DEF IsStored
      <4> QED BY <4>1, <4>2
    <3> QED BY <3>5, <3>6 DEF IsAlone
  <2> QED BY <2>1, <2>2 DEF Next, Moves, CreateRequest, vars
<1> QED BY <1>1, <1>2 DEF MessagesApart, IsAlone

-----------------------------------------------------------------------------
\* All but three actions leave the requests and what is recorded of them alone.
LEMMA RequestsChange ==
  ASSUME MailInv, [Next]_vars
  PROVE  \/ UNCHANGED <<requests, sentEvents, failures>>
         \/ \E r \in Requests : CreateRequest(r)
         \/ \E s \in Sessions : CommitSent(s) \/ CommitSendFailure(s)
BY DEF Next, StartSend, StartReplay, SendStep, ReplayStep, StoreFile, Abort, Refused, Delivered,
       StoreSentFails, LookUpSent, InsertMessage, AddAttachment, AttachmentFails, CommitReplay,
       CommitReplayFailure, Record, CheckPath, OpenFile, FinishFile, Pen, vars, tables

\* A failure that is recorded: the counter of its attempt, and the status that follows,
\* or the one the row has by now.
LEMMA FailureRecorded ==
  ASSUME MailInv, NEW s \in Sessions, CommitSendFailure(s)
  PROVE  \E r \in Requests, n \in Nat :
           /\ n <= failures[r] + 1
           /\ requests'[r].retries = n
           /\ \/ requests'[r].status = requests[r].status
              \/ requests'[r].status = "RETRY"
              \/ requests'[r].status = "DEAD_LETTER" /\ n >= MaxRetries
           /\ requests[r] \in Rows
           /\ failures'[r] = failures[r] + 1 /\ sentEvents' = sentEvents
           /\ \A q \in Requests \ {r} : requests'[q] = requests[q] /\ failures'[q] = failures[q]
<1> DEFINE r      == work[s].item
           row    == work[s].row
           n      == row.retries + 1
           status == StatusAfterFailure(n)
           new    == [retries |-> n,
                      status  |-> IF status = row.status THEN requests[r].status ELSE status]
<1>1. r \in Requests /\ requests[r] \in Rows /\ row \in Rows /\ row.retries <= failures[r]
  BY SenderIs DEF CommitSendFailure, Sending
<1>2. n \in Nat /\ n <= failures[r] + 1
  BY <1>1 DEF Rows, MailInv, MailTypeOK
<1>3. status = "RETRY" \/ (status = "DEAD_LETTER" /\ n >= MaxRetries)
  BY DEF StatusAfterFailure
<1>4. requests' = [requests EXCEPT ![r] = new] /\ failures' = [failures EXCEPT ![r] = @ + 1]
  BY <1>1 DEF CommitSendFailure, MailInv, MailTypeOK
<1>5. /\ failures'[r] = failures[r] + 1
      /\ \A q \in Requests \ {r} : requests'[q] = requests[q] /\ failures'[q] = failures[q]
  BY <1>1, <1>4 DEF MailInv, MailTypeOK
<1>6. requests'[r] = new
  BY <1>1, <1>4 DEF MailInv, MailTypeOK
<1>7. sentEvents' = sentEvents
  BY DEF CommitSendFailure
<1> HIDE DEF r, n, status
<1> QED BY <1>1, <1>2, <1>3, <1>5, <1>6, <1>7

\* A success that is recorded: status, event and message together.
LEMMA SuccessRecorded ==
  ASSUME MailInv, NEW s \in Sessions, CommitSent(s)
  PROVE  \/ UNCHANGED <<requests, sentEvents, failures>>
         \/ \E r \in Requests :
              /\ r \in delivered /\ \E m \in messages' : m.mid = r
              /\ requests[r] \in Rows /\ requests' = [requests EXCEPT ![r].status = "SENT"]
              /\ sentEvents' = sentEvents \cup {r} /\ failures' = failures
<1> DEFINE r == work[s].item
<1>1. SenderSound(s) /\ pc[s] = "sent"
  BY DEF CommitSent, MailInv, SessionSound, Sending
<1>2. r \in Requests /\ r \in delivered /\ requests[r] \in Rows
  BY <1>1 DEF SenderSound
<1>3. CASE SentConflicts(s)
  BY <1>3 DEF CommitSent, tables
<1>4. CASE ~SentConflicts(s)
  <2>1. /\ requests' = [requests EXCEPT ![r].status = "SENT"]
        /\ sentEvents' = sentEvents \cup {r} /\ failures' = failures
        /\ messages' = IF "message" \in work[s].found THEN messages ELSE messages \cup {SentMessage(r)}
    BY <1>4 DEF CommitSent
  <2>2. \E m \in messages' : m.mid = r
    <3>1. CASE "message" \in work[s].found
      BY <1>1, <2>1, <3>1 DEF SenderSound
    <3>2. CASE "message" \notin work[s].found
      <4>1. SentMessage(r) \in messages'
        BY <2>1, <3>2
      <4>2. SentMessage(r).mid = r
        BY DEF SentMessage
      <4> QED BY <4>1, <4>2
    <3> QED BY <3>1, <3>2
  <2> QED BY <1>2, <2>1, <2>2
<1> QED BY <1>3, <1>4

\* Every step keeps SENT true.
LEMMA SentStep == MailInv /\ [Next]_vars => SentIsTrue'
<1> SUFFICES ASSUME MailInv, [Next]_vars, NEW q \in Requests,
                    q \in sentEvents' \/ (requests'[q] # None /\ requests'[q].status = "SENT")
             PROVE  q \in sentEvents' /\ q \in delivered' /\ \E m \in messages' : m.mid = q
  BY DEF SentIsTrue
<1>0. MailTypeOK /\ SentIsTrue
  BY DEF MailInv
<1>1. TablesGrow
  BY TablesStep
<1>2. ASSUME q \in sentEvents \/ (requests[q] # None /\ requests[q].status = "SENT")
      PROVE  q \in sentEvents' /\ q \in delivered' /\ \E m \in messages' : m.mid = q
  BY <1>0, <1>1, <1>2 DEF SentIsTrue, TablesGrow
<1>3. CASE UNCHANGED <<requests, sentEvents, failures>>
  BY <1>2, <1>3
<1>4. ASSUME NEW r \in Requests, CreateRequest(r)
      PROVE  q \in sentEvents \/ (requests[q] # None /\ requests[q].status = "SENT")
  BY <1>0, <1>4 DEF CreateRequest, MailTypeOK
<1>5. ASSUME NEW s \in Sessions, CommitSent(s)
      PROVE  q \in sentEvents' /\ q \in delivered' /\ \E m \in messages' : m.mid = q
  <2>1. CASE UNCHANGED <<requests, sentEvents, failures>>
    BY <1>3, <2>1
  <2>2. ASSUME NEW r \in Requests, r \in delivered, \E m \in messages' : m.mid = r,
               requests' = [requests EXCEPT ![r].status = "SENT"], sentEvents' = sentEvents \cup {r}
        PROVE  q \in sentEvents' /\ q \in delivered' /\ \E m \in messages' : m.mid = q
    <3>1. CASE q = r
      BY <1>1, <2>2, <3>1 DEF TablesGrow
    <3>2. CASE q # r
      <4>1. requests'[q] = requests[q] /\ (q \in sentEvents' => q \in sentEvents)
        BY <1>0, <2>2, <3>2 DEF MailTypeOK
      <4> QED BY <1>2, <4>1
    <3> QED BY <3>1, <3>2
  <2> QED BY <1>5, <2>1, <2>2, SuccessRecorded
<1>6. ASSUME NEW s \in Sessions, CommitSendFailure(s)
      PROVE  q \in sentEvents \/ (requests[q] # None /\ requests[q].status = "SENT")
  BY <1>6, FailureRecorded, NamesAssumption
<1> QED BY <1>2, <1>3, <1>4, <1>5, <1>6, RequestsChange

\* Every step keeps the retries counted.
LEMMA RetriesStep == MailInv /\ [Next]_vars => DeadLettersTried'
<1> SUFFICES ASSUME MailInv, [Next]_vars, NEW q \in Requests, requests'[q] # None
             PROVE  /\ requests'[q].retries <= failures'[q]
                    /\ requests'[q].status = "DEAD_LETTER" => failures'[q] >= MaxRetries
  BY DEF DeadLettersTried
<1>0. MailTypeOK /\ DeadLettersTried /\ MaxRetries \in Nat \ {0}
  BY MailsAssumption DEF MailInv
<1>1. ASSUME requests'[q] = requests[q], failures'[q] = failures[q]
      PROVE  /\ requests'[q].retries <= failures'[q]
             /\ requests'[q].status = "DEAD_LETTER" => failures'[q] >= MaxRetries
  BY <1>0, <1>1 DEF DeadLettersTried
<1>2. ASSUME NEW r \in Requests, CreateRequest(r)
      PROVE  /\ requests'[q].retries <= failures'[q]
             /\ requests'[q].status = "DEAD_LETTER" => failures'[q] >= MaxRetries
  <2>1. CASE q = r
    BY <1>0, <1>2, <2>1 DEF CreateRequest, MailTypeOK
  <2>2. CASE q # r
    BY <1>0, <1>1, <1>2, <2>2 DEF CreateRequest, MailTypeOK
  <2> QED BY <2>1, <2>2
<1>3. ASSUME NEW s \in Sessions, CommitSent(s)
      PROVE  /\ requests'[q].retries <= failures'[q]
             /\ requests'[q].status = "DEAD_LETTER" => failures'[q] >= MaxRetries
  <2>1. CASE UNCHANGED <<requests, sentEvents, failures>>
    BY <1>1, <2>1
  <2>2. ASSUME NEW r \in Requests, requests[r] \in Rows,
               requests' = [requests EXCEPT ![r].status = "SENT"], failures' = failures
        PROVE  /\ requests'[q].retries <= failures'[q]
               /\ requests'[q].status = "DEAD_LETTER" => failures'[q] >= MaxRetries
    <3>1. CASE q = r
      <4>1. requests'[q].retries = requests[q].retries /\ requests'[q].status = "SENT"
        BY <1>0, <2>2, <3>1 DEF MailTypeOK, Rows
      <4>2. requests[q] # None
        BY <2>2, <3>1, NamesAssumption
      <4> QED BY <1>0, <2>2, <4>1, <4>2 DEF DeadLettersTried
    <3>2. CASE q # r
      <4>1. requests'[q] = requests[q] /\ failures'[q] = failures[q]
        BY <1>0, <2>2, <3>2 DEF MailTypeOK
      <4> QED BY <1>1, <4>1
    <3> QED BY <3>1, <3>2
  <2> QED BY <1>3, <2>1, <2>2, SuccessRecorded
<1>4. ASSUME NEW s \in Sessions, CommitSendFailure(s)
      PROVE  /\ requests'[q].retries <= failures'[q]
             /\ requests'[q].status = "DEAD_LETTER" => failures'[q] >= MaxRetries
  <2>1. PICK r \in Requests, n \in Nat :
           /\ n <= failures[r] + 1
           /\ requests'[r].retries = n
           /\ \/ requests'[r].status = requests[r].status
              \/ requests'[r].status = "RETRY"
              \/ requests'[r].status = "DEAD_LETTER" /\ n >= MaxRetries
           /\ requests[r] \in Rows
           /\ failures'[r] = failures[r] + 1
           /\ \A p \in Requests \ {r} : requests'[p] = requests[p] /\ failures'[p] = failures[p]
    BY <1>4, FailureRecorded
  <2>2. CASE q = r
    <3>1. failures[r] \in Nat /\ (requests[r].status = "DEAD_LETTER" => failures[r] >= MaxRetries)
      BY <1>0, <2>1, NamesAssumption DEF MailTypeOK, DeadLettersTried
    <3> QED BY <1>0, <2>1, <2>2, <3>1
  <2>3. CASE q # r
    BY <1>1, <2>1, <2>3
  <2> QED BY <2>2, <2>3
<1> QED BY <1>1, <1>2, <1>3, <1>4, RequestsChange

\* Every step keeps known what was delivered and received.
LEMMA OriginStep == MailInv /\ [Next]_vars => OriginIsKnown'
<1> SUFFICES ASSUME MailInv, [Next]_vars PROVE OriginIsKnown'
  OBVIOUS
<1>0. MailTypeOK /\ OriginIsKnown
  BY DEF MailInv
<1>1. TablesType /\ TablesGrow
  BY TablesStep
<1>2. \A r \in Requests : requests[r] \in Rows => requests'[r] # None
  BY <1>1, NamesAssumption, ZenonT(40) DEF TablesGrow
<1>3. delivered' = delivered \/ \E s \in Sessions : pc[s] \in Sending /\ delivered' \subseteq delivered \cup {work[s].item}
  BY DEF Next, CreateRequest, StartSend, StartReplay, SendStep, ReplayStep, StoreFile, Abort,
         Refused, Delivered, StoreSentFails, LookUpSent, CommitSent, CommitSendFailure,
         InsertMessage, AddAttachment, AttachmentFails, CommitReplay, CommitReplayFailure, Record,
         CheckPath, OpenFile, FinishFile, Pen, vars, tables, Sending
<1>4. \A r \in delivered' : requests[r] \in Rows /\ r \in Requests
  <2>1. \A r \in delivered : requests[r] \in Rows /\ r \in Requests
    BY <1>0 DEF OriginIsKnown, MailTypeOK
  <2> QED BY <1>3, <2>1, SenderIs
<1>5. \A m \in messages' : m.mid = None => m.raw \in Mails
  <2>1. CASE messages' = messages
    BY <1>0, <2>1 DEF OriginIsKnown
  <2>2. CASE messages' # messages
    BY <1>0, <2>2, MessagesChange DEF OriginIsKnown, Adds
  <2> QED BY <2>1, <2>2
<1> QED BY <1>2, <1>4, <1>5 DEF OriginIsKnown

-----------------------------------------------------------------------------
\* The empty store satisfies the invariant.
LEMMA InitEstablishesInv == Init => MailInv
<1> SUFFICES ASSUME Init PROVE MailInv
  OBVIOUS
<1>1. MailTypeOK
  BY NoWorkType DEF Init, MailTypeOK
<1>2. SentIsTrue /\ DeadLettersTried /\ RepliesAreLinked /\ MessagesAreWhole /\ OriginIsKnown
  BY DEF Init, SentIsTrue, DeadLettersTried, RepliesAreLinked, MessagesAreWhole, OriginIsKnown
<1>3. MessagesApart
  BY DEF Init, MessagesApart, Inserted
<1>4. \A s \in Sessions : SessionSound(s)
  BY DEF Init, SessionSound, PenSound, Sending, Inserted
<1> QED BY <1>1, <1>2, <1>3, <1>4 DEF MailInv

\* Whatever calls send and receive at once, and wherever they die, each works on what
\* is still true, and no two have one message in hand.
THEOREM MailInvariant == Spec => []MailInv
<1>1. MailInv /\ [Next]_vars => MailInv'
  BY TypeStep, SentStep, RetriesStep, MessagesStep, SoundStep, ApartStep, OriginStep DEF MailInv
<1> QED BY <1>1, InitEstablishesInv, PTL DEF Spec

\* Tables, files and what calls hold keep their types.
THEOREM MailTypeCorrect == Spec => []MailTypeOK
<1>1. MailInv => MailTypeOK
  BY DEF MailInv
<1> QED BY <1>1, MailInvariant, PTL

\* SENT is recorded with its event and its message, after a delivery.
THEOREM SentIsAlwaysTrue == Spec => []SentIsTrue
<1>1. MailInv => SentIsTrue
  BY DEF MailInv
<1> QED BY <1>1, MailInvariant, PTL

\* A request is given up after its retries, however many calls count them.
THEOREM DeadLettersAreTried == Spec => []DeadLettersTried
<1>1. MailInv => DeadLettersTried
  BY DEF MailInv
<1> QED BY <1>1, MailInvariant, PTL

\* A stored reply is linked to a request it names.
THEOREM RepliesAreAlwaysLinked == Spec => []RepliesAreLinked
<1>1. MailInv => RepliesAreLinked
  BY DEF MailInv
<1> QED BY <1>1, MailInvariant, PTL

\* A stored message has the attachments its status says, and their files.
THEOREM MessagesStayWhole == Spec => []MessagesAreWhole
<1>1. MailInv => MessagesAreWhole
  BY DEF MailInv
<1> QED BY <1>1, MailInvariant, PTL

\* No two stored messages share bytes or Message-ID.
THEOREM MessagesStoredOnce == Spec => []StoredOnce
<1>1. MailInv => StoredOnce
  BY DEF MailInv, MessagesApart, IsSame, DedupeKey, StoredOnce
<1> QED BY <1>1, MailInvariant, PTL
=============================================================================
