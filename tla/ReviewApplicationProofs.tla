------------------------ MODULE ReviewApplicationProofs ------------------------
(***************************************************************************)
(* Theorems about OperatorReview and ReviewApplication, for any number of  *)
(* processes, appliers, offers, commands and parses.  Of recording: its    *)
(* type invariant, the shape of the journal under every interleaving,      *)
(* crash and failed write, and that it implements DecisionJournal.  Of     *)
(* application: the recording protocol is untouched by appliers, the       *)
(* reviewed output is faithful to the journal, and, with a single applier, *)
(* the three files it replaces agree whenever no application was left      *)
(* unfinished.                                                             *)
(***************************************************************************)
EXTENDS ReviewApplication, NaturalLemmas, SequenceTheorems

\* What LatestIndex returns: 0 when the journal holds nothing on the offer, and
\* otherwise the last of the offer's positions.
LEMMA LatestIndexProperty ==
  ASSUME NEW s \in Seq(Decisions), NEW o
  PROVE  \/ /\ LatestIndex(s, o) = 0
            /\ \A i \in DOMAIN s : OfferOf(s[i].key) # o
         \/ /\ LatestIndex(s, o) \in DOMAIN s
            /\ OfferOf(s[LatestIndex(s, o)].key) = o
            /\ \A j \in DOMAIN s : OfferOf(s[j].key) = o => j <= LatestIndex(s, o)
<1> DEFINE places == {i \in DOMAIN s : OfferOf(s[i].key) = o}
<1>1. CASE places = {}
  BY <1>1 DEF LatestIndex
<1>2. CASE places # {}
  <2>1. Len(s) \in Nat /\ places \in SUBSET (1..Len(s))
    BY LenProperties
  <2>2. \E m \in places : \A k \in places : k <= m
    <3> HIDE DEF places
    <3> QED BY <1>2, <2>1, GreatestExists
  <2>3. LatestIndex(s, o) = CHOOSE i \in places : \A j \in places : j <= i
    BY <1>2 DEF LatestIndex
  <2>4. /\ LatestIndex(s, o) \in places
        /\ \A k \in places : k <= LatestIndex(s, o)
    BY <2>2, <2>3
  <2> QED BY <2>4
<1> QED BY <1>1, <1>2

\* The previous decision on an offer is a key of the journal, or None.
LEMMA PreviousKeyType ==
  ASSUME NEW s \in Seq(Decisions), NEW o
  PROVE  PreviousKey(s, o) \in Keys \cup {None}
<1>1. \A i \in DOMAIN s : s[i] \in Decisions
  BY ElementOfSeq
<1> QED BY <1>1, LatestIndexProperty DEF PreviousKey, Decisions

-----------------------------------------------------------------------------
(***************************************************************************)
(* The inductive invariant, one part at a time: the types, with the key    *)
(* that every running call carries; the lock; the prepared append; and the *)
(* chain.                                                                  *)
(***************************************************************************)
TypeInv == RecordTypeOK /\ CallsCarryKeys

\* The initial state satisfies the invariant.
LEMMA InitEstablishesInv == RecordInit => RecordInv
<1> SUFFICES ASSUME RecordInit PROVE RecordInv
  OBVIOUS
<1>1. items \in [Offers -> Items \cup {None}] /\ queue \in [Offers -> Items \cup {None}]
  BY ParsesAssumption DEF RecordInit, QueueOf
<1>2. call \in [Writers -> Calls]
  BY DEF RecordInit, NoCall, Calls
<1>3. decisions \in Seq(Decisions)
  BY EmptySeq DEF RecordInit
<1>4. RecordTypeOK
  BY <1>1, <1>2, <1>3 DEF RecordInit, RecordTypeOK, Places, Tails
<1>5. CallsCarryKeys /\ LockHeld /\ AppendIsPrepared
  BY DEF RecordInit, CallsCarryKeys, LockHeld, AppendIsPrepared, Holding
<1>6. JournalChained
  BY DEF RecordInit, JournalChained, UniqueIds
<1> QED BY <1>4, <1>5, <1>6 DEF RecordInv

\* Types: a call's key is set before the process leaves "idle", so only keys
\* are ever appended.
LEMMA TypeInvStep == TypeInv /\ [RecordNext]_recordVars => TypeInv'
<1> SUFFICES ASSUME TypeInv, [RecordNext]_recordVars PROVE TypeInv'
  OBVIOUS
<1> USE DEF TypeInv, RecordTypeOK, CallsCarryKeys, Places, Holding, GoTo, Tails,
            sourceVars, journalVars
<1>1. CASE Reparse
  BY <1>1, ParsesAssumption DEF Reparse
<1>2. CASE Requeue
  BY <1>2 DEF Requeue, QueueOf
<1>3. ASSUME NEW w \in Writers, NEW c \in Commands, Begin(w, c) PROVE TypeInv'
  <2>1. c.offer \in Offers /\ queue[c.offer] \in Items
    BY <1>3, CommandsAssumption DEF Begin
  <2>2. [command |-> c, fp |-> queue[c.offer].fp] \in Keys
    BY <2>1 DEF Items, Keys
  <2>3. [key |-> [command |-> c, fp |-> queue[c.offer].fp],
         reasons |-> queue[c.offer].reasons, previous |-> None] \in Calls
    BY <2>1, <2>2 DEF Items, Calls
  <2> QED BY <1>3, <2>2, <2>3 DEF Begin
<1>4. ASSUME NEW w \in Writers, AcquireLock(w) PROVE TypeInv'
  BY <1>4 DEF AcquireLock
<1>5. ASSUME NEW w \in Writers, GiveUp(w) PROVE TypeInv'
  BY <1>5 DEF GiveUp, NoCall, Calls
<1>6. ASSUME NEW w \in Writers, LoadJournal(w) PROVE TypeInv'
  <2>1. PreviousKey(decisions, OfferOf(call[w].key)) \in Keys \cup {None}
    BY PreviousKeyType
  <2>2. CASE UNCHANGED call
    BY <1>6, <2>2 DEF LoadJournal
  <2>3. CASE call' = [call EXCEPT ![w].previous =
                        PreviousKey(decisions, OfferOf(call[w].key))]
    <3>1. call' \in [Writers -> Calls]
      BY <2>1, <2>3, ZenonT(40) DEF Calls
    <3>2. \A v \in Writers : call'[v].key = call[v].key
      BY <2>3 DEF Calls
    <3> QED BY <1>6, <3>1, <3>2 DEF LoadJournal
  <2> QED BY <1>6, <2>2, <2>3 DEF LoadJournal
<1>7. ASSUME NEW w \in Writers, StartAppend(w) PROVE TypeInv'
  BY <1>7 DEF StartAppend
<1>8. ASSUME NEW w \in Writers, FinishRecord(w) PROVE TypeInv'
  <2>1. call[w] \in Decisions
    BY <1>8 DEF FinishRecord, Calls, Decisions
  <2>2. CASE tail = "cut"
    <3>1. decisions' \in Seq(Decisions)
      BY <1>8, <2>1, <2>2, AppendProperties DEF FinishRecord
    <3> QED BY <1>8, <2>2, <3>1 DEF FinishRecord
  <2>3. CASE tail # "cut"
    BY <1>8, <2>3 DEF FinishRecord
  <2> QED BY <2>2, <2>3
<1>13. ASSUME NEW w \in Writers, EndLine(w) PROVE TypeInv'
  BY <1>13 DEF EndLine
<1>9. ASSUME NEW w \in Writers, AppendFails(w) PROVE TypeInv'
  BY <1>9 DEF AppendFails, Writing
<1>10. ASSUME NEW w \in Writers, ReleaseLock(w) PROVE TypeInv'
  BY <1>10 DEF ReleaseLock, NoCall, Calls
<1>11. ASSUME NEW w \in Writers, Die(w) PROVE TypeInv'
  BY <1>11 DEF Die, NoCall, Calls
<1>12. CASE UNCHANGED recordVars
  BY <1>12 DEF recordVars
<1> QED
  BY <1>1, <1>2, <1>3, <1>4, <1>5, <1>6, <1>7, <1>8, <1>9, <1>10, <1>11, <1>12, <1>13
     DEF RecordNext, Step

\* The lock: O_EXCL lets one process in, and nobody removes another's lock file.
LEMMA LockHeldStep ==
  RecordTypeOK /\ LockHeld /\ [RecordNext]_recordVars => LockHeld'
<1> SUFFICES ASSUME RecordTypeOK, LockHeld, [RecordNext]_recordVars PROVE LockHeld'
  OBVIOUS
<1> USE FreeAssumption DEF RecordTypeOK, LockHeld, Holding, GoTo, journalVars
<1>1. CASE Reparse \/ Requeue
  BY <1>1 DEF Reparse, Requeue
<1>2. ASSUME NEW w \in Writers, NEW c \in Commands, Begin(w, c) PROVE LockHeld'
  BY <1>2 DEF Begin
<1>3. ASSUME NEW w \in Writers, AcquireLock(w) PROVE LockHeld'
  BY <1>3 DEF AcquireLock, LockAvailable
<1>4. ASSUME NEW w \in Writers, GiveUp(w) PROVE LockHeld'
  BY <1>4 DEF GiveUp
<1>5. ASSUME NEW w \in Writers, LoadJournal(w) PROVE LockHeld'
  BY <1>5 DEF LoadJournal
<1>6. ASSUME NEW w \in Writers, StartAppend(w) \/ FinishRecord(w) \/ EndLine(w)
      PROVE  LockHeld'
  BY <1>6 DEF StartAppend, FinishRecord, EndLine
<1>7. ASSUME NEW w \in Writers, AppendFails(w) PROVE LockHeld'
  BY <1>7 DEF AppendFails, Writing
<1>8. ASSUME NEW w \in Writers, ReleaseLock(w) PROVE LockHeld'
  BY <1>8 DEF ReleaseLock
<1>9. ASSUME NEW w \in Writers, Die(w) PROVE LockHeld'
  BY <1>9 DEF Die
<1>10. CASE UNCHANGED recordVars
  BY <1>10 DEF recordVars
<1> QED
  BY <1>1, <1>2, <1>3, <1>4, <1>5, <1>6, <1>7, <1>8, <1>9, <1>10 DEF RecordNext, Step

\* What a process found when it loaded the journal holds until it appends:
\* nobody else can hold the lock, and only a holder changes the journal.
LEMMA AppendIsPreparedStep ==
  RecordTypeOK /\ LockHeld /\ AppendIsPrepared /\ [RecordNext]_recordVars
    => AppendIsPrepared'
<1> SUFFICES ASSUME RecordTypeOK, LockHeld, AppendIsPrepared, [RecordNext]_recordVars
             PROVE  AppendIsPrepared'
  OBVIOUS
<1> USE DEF RecordTypeOK, AppendIsPrepared, Fresh, GoTo, journalVars
<1>1. CASE Reparse \/ Requeue
  BY <1>1 DEF Reparse, Requeue
<1>2. ASSUME NEW w \in Writers, NEW c \in Commands, Begin(w, c) PROVE AppendIsPrepared'
  BY <1>2 DEF Begin
<1>3. ASSUME NEW w \in Writers, AcquireLock(w) PROVE AppendIsPrepared'
  BY <1>3 DEF AcquireLock
<1>4. ASSUME NEW w \in Writers, GiveUp(w) PROVE AppendIsPrepared'
  BY <1>4 DEF GiveUp
<1>5. ASSUME NEW w \in Writers, LoadJournal(w) PROVE AppendIsPrepared'
  <2>1. CASE Readable /\ ~AlreadyRecorded(w)
    <3>1. /\ call' = [call EXCEPT ![w].previous =
                         PreviousKey(decisions, OfferOf(call[w].key))]
          /\ pc' = [pc EXCEPT ![w] = "loaded"]
          /\ decisions' = decisions /\ tail' = tail
          /\ pc[w] = "locked"
      BY <1>5, <2>1 DEF LoadJournal
    <3>2. /\ call'[w].key = call[w].key
          /\ call'[w].previous = PreviousKey(decisions, OfferOf(call[w].key))
      BY <3>1 DEF Calls
    <3>3. tail \in {"newline", "unended"} /\ call[w].key \notin KeysOf(decisions)
      BY <2>1 DEF Readable, AlreadyRecorded
    <3>4. ASSUME NEW v \in Writers, v # w, pc'[v] \in Writing
          PROVE  FALSE
      BY <3>1, <3>4 DEF LockHeld, Holding, Writing
    <3> QED BY <3>1, <3>2, <3>3, <3>4 DEF Writing
  <2>2. CASE ~(Readable /\ ~AlreadyRecorded(w))
    BY <1>5, <2>2 DEF LoadJournal
  <2> QED BY <2>1, <2>2
<1>6. ASSUME NEW w \in Writers, StartAppend(w) PROVE AppendIsPrepared'
  BY <1>6 DEF StartAppend, LockHeld, Holding
<1>7. ASSUME NEW w \in Writers, FinishRecord(w) PROVE AppendIsPrepared'
  BY <1>7 DEF FinishRecord, LockHeld, Holding
<1>12. ASSUME NEW w \in Writers, EndLine(w) PROVE AppendIsPrepared'
  BY <1>12 DEF EndLine, LockHeld, Holding
<1>8. ASSUME NEW w \in Writers, AppendFails(w) PROVE AppendIsPrepared'
  BY <1>8 DEF AppendFails
<1>9. ASSUME NEW w \in Writers, ReleaseLock(w) PROVE AppendIsPrepared'
  BY <1>9 DEF ReleaseLock
<1>10. ASSUME NEW w \in Writers, Die(w) PROVE AppendIsPrepared'
  BY <1>10 DEF Die
<1>11. CASE UNCHANGED recordVars
  BY <1>11 DEF recordVars
<1> QED
  BY <1>1, <1>2, <1>3, <1>4, <1>5, <1>6, <1>7, <1>8, <1>9, <1>10, <1>11, <1>12
     DEF RecordNext, Step

\* Appending a line prepared on the whole journal keeps ids unique and the
\* chain of previous decisions intact.
LEMMA AppendKeepsChain ==
  ASSUME JournalChained, decisions \in Seq(Decisions),
         NEW d \in Decisions,
         d.key \notin KeysOf(decisions),
         d.previous = PreviousKey(decisions, OfferOf(d.key)),
         decisions' = Append(decisions, d)
  PROVE  JournalChained'
<1> DEFINE n == Len(decisions)
<1>1. /\ n \in Nat
      /\ DOMAIN decisions = 1..n
      /\ DOMAIN decisions' = 1..(n + 1)
      /\ decisions'[n + 1] = d
      /\ \A i \in 1..n : decisions'[i] = decisions[i]
  BY AppendProperties, LenProperties
<1>2. \A i \in 1..n : decisions[i].key # d.key
  BY <1>1 DEF KeysOf
<1>3. UniqueIds(decisions')
  BY <1>1, <1>2 DEF UniqueIds, JournalChained
<1>4. ASSUME NEW i \in 1..(n + 1)
      PROVE  SubSeq(decisions', 1, i - 1) = SubSeq(decisions, 1, i - 1)
  BY <1>1, <1>4, SubSeqProperties
<1>5. SubSeq(decisions, 1, n) = decisions
  BY SubSeqFull
<1>6. ASSUME NEW i \in DOMAIN decisions'
      PROVE  decisions'[i].previous =
               PreviousKey(SubSeq(decisions', 1, i - 1), OfferOf(decisions'[i].key))
  <2>1. CASE i = n + 1
    <3>1. SubSeq(decisions', 1, i - 1) = decisions
      BY <1>1, <1>4, <1>5, <2>1
    <3> QED BY <1>1, <2>1, <3>1
  <2>2. CASE i \in 1..n
    <3>1. decisions'[i] = decisions[i]
      BY <1>1, <2>2
    <3>2. SubSeq(decisions', 1, i - 1) = SubSeq(decisions, 1, i - 1)
      BY <1>1, <1>4, <2>2
    <3> QED BY <1>1, <2>2, <3>1, <3>2 DEF JournalChained
  <2> QED BY <1>1, <1>6, <2>1, <2>2
<1> QED BY <1>3, <1>6 DEF JournalChained

\* A record comes into the journal only when its last byte is written, on a line
\* that was begun on an ended journal.
Completes(w) == FinishRecord(w) /\ tail = "cut"

LEMMA JournalStep ==
  ASSUME [RecordNext]_recordVars
  PROVE  \/ UNCHANGED decisions
         \/ \E w \in Writers : Completes(w)
BY DEF RecordNext, Step, recordVars, sourceVars, journalVars, Reparse, Requeue, Begin,
       AcquireLock, GiveUp, LoadJournal, StartAppend, FinishRecord, EndLine, AppendFails,
       ReleaseLock, Die, Completes

\* RecordInv is inductive.
LEMMA RecordInvStep == RecordInv /\ [RecordNext]_recordVars => RecordInv'
<1> SUFFICES ASSUME RecordInv, [RecordNext]_recordVars PROVE RecordInv'
  OBVIOUS
<1>1. TypeInv' /\ LockHeld' /\ AppendIsPrepared'
  BY TypeInvStep, LockHeldStep, AppendIsPreparedStep DEF RecordInv, TypeInv
<1>2. JournalChained'
  <2>1. CASE UNCHANGED decisions
    BY <2>1 DEF RecordInv, JournalChained
  <2>2. ASSUME NEW w \in Writers, Completes(w) PROVE JournalChained'
    <3>1. call[w] \in Decisions
      BY <2>2 DEF RecordInv, RecordTypeOK, CallsCarryKeys, Completes, FinishRecord, Calls,
                  Decisions
    <3>2. Fresh(w)
      BY <2>2 DEF RecordInv, AppendIsPrepared, Completes, FinishRecord
    <3> QED
      BY <2>2, <3>1, <3>2, AppendKeepsChain
         DEF RecordInv, RecordTypeOK, Fresh, Completes, FinishRecord
  <2> QED BY <2>1, <2>2, JournalStep
<1> QED BY <1>1, <1>2 DEF RecordInv, TypeInv

\* What makes an append safe, for any number of writers: the inductive invariant of the
\* journal (record_decision).
THEOREM RecordInvariant == RecordSpec => []RecordInv
BY InitEstablishesInv, RecordInvStep, PTL DEF RecordSpec

-----------------------------------------------------------------------------
\* Every variable of the recording protocol stays within its type.
THEOREM RecordTypeCorrect == RecordSpec => []RecordTypeOK
<1>1. RecordInv => RecordTypeOK
  BY DEF RecordInv
<1> QED BY <1>1, RecordInvariant, PTL

\* However the processes interleave, crash or fail to write, no decision is
\* journalled twice and each line names the decision it followed.
THEOREM JournalIsChained == RecordSpec => []JournalChained
<1>1. RecordInv => JournalChained
  BY DEF RecordInv
<1> QED BY <1>1, RecordInvariant, PTL

\* How the end of the file changes: by the steps of a writer, which holds the lock.
LEMMA TailStep ==
  ASSUME [RecordNext]_recordVars, tail' # tail
  PROVE  \E w \in Writers : \/ StartAppend(w)
                            \/ Completes(w)
                            \/ EndLine(w)
BY DEF RecordNext, Step, recordVars, sourceVars, journalVars, Reparse, Requeue, Begin,
       AcquireLock, GiveUp, LoadJournal, StartAppend, FinishRecord, EndLine, AppendFails,
       ReleaseLock, Die, Completes

\* A line that does not load is completed by the call that is writing it or is the
\* last line ever: nothing is appended behind it, nor to a line that two records share.
THEOREM TornLineStaysLast == RecordSpec => TornLineIsLast
<1> DEFINE A == (tail \in {"cut", "glued"}) => \E w \in Writers : CompletesItsLine(w)
<1>1. RecordInv /\ [RecordNext]_recordVars => [A]_<<decisions, tail>>
  <2> SUFFICES ASSUME RecordInv, [RecordNext]_recordVars, tail \in {"cut", "glued"},
                      <<decisions, tail>>' # <<decisions, tail>>
               PROVE  \E w \in Writers : CompletesItsLine(w)
    OBVIOUS
  <2>1. PICK w \in Writers : StartAppend(w) \/ Completes(w) \/ EndLine(w)
    BY JournalStep, TailStep
  <2>2. ~StartAppend(w)
    BY DEF RecordInv, AppendIsPrepared, StartAppend
  <2>3. CASE Completes(w)
    BY <2>3 DEF Completes, FinishRecord, GoTo, CompletesItsLine, RecordInv, LockHeld, Holding,
                RecordTypeOK
  <2>4. CASE EndLine(w)
    BY <2>4 DEF RecordInv, AppendIsPrepared, EndLine
  <2> QED BY <2>1, <2>2, <2>3, <2>4
<1> QED BY <1>1, RecordInvariant, PTL DEF RecordSpec, TornLineIsLast

\* The recording protocol implements the abstract journal: a record completed on its
\* own line is its Record, a write that breaks off inside a record or starts behind
\* a missing newline is its Lose, every other step leaves the journal alone.
THEOREM JournalImplemented == RecordSpec => ImplementsJournal
<1> USE DEF Journal!KeysOf, KeysOf, Journal!PreviousKey, PreviousKey,
            Journal!LatestIndex, LatestIndex, Journal!OfferOf, OfferOf, Journal!Keys, Keys
<1>1. RecordInit => Journal!Init
  BY DEF RecordInit, Journal!Init, JournalLost
<1>2. ASSUME RecordInv, NEW w \in Writers, Completes(w), JournalLost' = JournalLost
      PROVE  Journal!Next
  <2>1. call[w].key \in Keys /\ call[w].reasons \in SUBSET Reasons
    BY <1>2, SMTT(30) DEF RecordInv, RecordTypeOK, CallsCarryKeys, Completes, FinishRecord, Calls
  <2>2. call[w] = [key      |-> call[w].key,
                   reasons  |-> call[w].reasons,
                   previous |-> PreviousKey(decisions, OfferOf(call[w].key))]
    BY <1>2, ZenonT(40)
       DEF RecordInv, RecordTypeOK, AppendIsPrepared, Fresh, Completes, FinishRecord, Calls
  <2>3. call[w].key \notin KeysOf(decisions)
    BY <1>2 DEF RecordInv, AppendIsPrepared, Fresh, Completes, FinishRecord
  <2>4. ~JournalLost
    BY <1>2 DEF JournalLost, Completes, FinishRecord
  <2>5. decisions' = Append(decisions, call[w])
    BY <1>2 DEF Completes, FinishRecord
  <2>6. Journal!Record(call[w].key, call[w].reasons)
    BY <1>2, <2>2, <2>3, <2>4, <2>5, ZenonT(40) DEF Journal!Record
  <2> QED BY <2>1, <2>6 DEF Journal!Next
<1>3. ASSUME RecordInv, [RecordNext]_recordVars, JournalLost' # JournalLost
      PROVE  Journal!Lose
  <2>1. ~JournalLost
    <3> SUFFICES ASSUME JournalLost PROVE JournalLost'
      BY <1>3 DEF JournalLost
    <3>1. tail \in {"cut", "glued"}
      BY DEF JournalLost
    <3>2. tail' = tail
      BY <1>3, <3>1, TailStep
         DEF RecordInv, AppendIsPrepared, StartAppend, Completes, FinishRecord, EndLine, JournalLost
    <3>3. ASSUME NEW v \in Writers, pc'[v] = "appending", pc[v] # "appending" PROVE FALSE
      BY <1>3, <3>1, <3>3, ZenonT(40)
      DEF RecordInv, RecordTypeOK, AppendIsPrepared, GoTo, RecordNext, Step,
         recordVars, Reparse, Requeue, Begin, AcquireLock, GiveUp, LoadJournal, StartAppend,
         FinishRecord, EndLine, AppendFails, ReleaseLock, Die
    <3> QED BY <3>1, <3>2, <3>3 DEF JournalLost
  <2>2. JournalLost' /\ JournalLost' = TRUE
    BY <1>3, <2>1 DEF JournalLost
  <2>3. ASSUME NEW w \in Writers, Completes(w) PROVE FALSE
    BY <2>2, <2>3 DEF Completes, FinishRecord, JournalLost
  <2> QED BY <1>3, <2>1, <2>2, <2>3, JournalStep DEF Journal!Lose
<1>4. ASSUME RecordInv, [RecordNext]_recordVars
      PROVE  [Journal!Next]_<<decisions, JournalLost>>
  <2>1. CASE JournalLost' # JournalLost
    BY <1>3, <1>4, <2>1 DEF Journal!Next
  <2>2. CASE JournalLost' = JournalLost
    BY <1>2, <1>4, <2>2, JournalStep
  <2> QED BY <2>1, <2>2
<1> QED
  BY <1>1, <1>4, RecordInvariant, PTL DEF RecordSpec, ImplementsJournal, Journal!Spec

-----------------------------------------------------------------------------
\* Each step of the review either is a step of the recording protocol, with
\* the appliers idle, or leaves the recording protocol alone.
LEMMA ReviewStep ==
  ASSUME [ReviewNext]_reviewVars
  PROVE  \/ RecordNext /\ UNCHANGED applyVars
         \/ UNCHANGED recordVars /\ (ApplyNext \/ UNCHANGED applyVars)
BY DEF ReviewNext, ApplyNext, reviewVars, recordVars, applyVars, ReadItems, ReadDecisions,
       ReadAudit, WriteOutput, WriteRemaining, WriteAudit, StopApply, fileVars

\* Recording beside appliers is recording: every theorem
\* above holds of the composed system.
THEOREM ReviewImplementsRecord == ReviewSpec => RecordSpec
<1>1. ReviewInit => RecordInit
  BY DEF ReviewInit
<1>2. [ReviewNext]_reviewVars => [RecordNext]_recordVars
  BY ReviewStep
<1> QED BY <1>1, <1>2, PTL DEF ReviewSpec, RecordSpec

\* Decisions are never removed, changed or moved.
LEMMA JournalGrows ==
  ASSUME [RecordNext]_recordVars, RecordInv
  PROVE  \A i \in DOMAIN decisions : i \in DOMAIN decisions' /\ decisions'[i] = decisions[i]
<1>1. CASE UNCHANGED decisions
  BY <1>1
<1>2. ASSUME NEW w \in Writers, Completes(w)
      PROVE  \A i \in DOMAIN decisions :
               i \in DOMAIN decisions' /\ decisions'[i] = decisions[i]
  <2>1. decisions \in Seq(Decisions) /\ call[w] \in Decisions
    BY <1>2 DEF RecordInv, RecordTypeOK, CallsCarryKeys, Completes, FinishRecord, Calls, Decisions
  <2> QED BY <1>2, <2>1, AppendProperties, LenProperties DEF Completes, FinishRecord
<1> QED BY <1>1, <1>2, JournalStep

-----------------------------------------------------------------------------
(***************************************************************************)
(* What one application computes from a journal s.                         *)
(***************************************************************************)

\* The confirmed decision on offer o, when there is one, is a record of the
\* journal, about o, and has a key.
LEMMA ConfirmedDecisionProperty ==
  ASSUME NEW s \in Seq(Decisions), NEW o, ConfirmedDecision(s, o)
  PROVE  /\ LatestIndex(s, o) \in DOMAIN s
         /\ s[LatestIndex(s, o)] \in Decisions
         /\ s[LatestIndex(s, o)].key \in Keys
         /\ s[LatestIndex(s, o)].key # None
         /\ OfferOf(s[LatestIndex(s, o)].key) = o
         /\ IsConfirmed(s[LatestIndex(s, o)])
<1>1. LatestIndex(s, o) \in DOMAIN s /\ OfferOf(s[LatestIndex(s, o)].key) = o
  BY LatestIndexProperty DEF ConfirmedDecision
<1>2. s[LatestIndex(s, o)] \in Decisions
  BY <1>1, ElementOfSeq
<1>3. ASSUME NEW d \in Decisions PROVE d.key \in Keys
  BY DEF Decisions
<1>4. s[LatestIndex(s, o)].key \in Keys
  BY <1>2, <1>3
<1>5. s[LatestIndex(s, o)].key # None
  BY <1>4, NoneAssumption
<1> QED BY <1>1, <1>2, <1>4, <1>5 DEF ConfirmedDecision

\* A row of the output is of its type: closing reasons only shrinks them.
LEMMA OutputRowType ==
  ASSUME NEW s \in Seq(Decisions), NEW o, NEW item \in Items \cup {None}
  PROVE  OutputRow(item, s, o) \in Rows \cup {None}
<1>1. CASE item = None
  BY <1>1 DEF OutputRow
<1>2. CASE item # None
  <2>1. item \in Items
    BY <1>2
  <2>2. UntouchedRow(item) \in Rows
    BY <2>1 DEF UntouchedRow, Items, Rows
  <2>3. ASSUME ConfirmedDecision(s, o)
        PROVE  ApplyDecisionToItem(item, s[LatestIndex(s, o)]) \in Rows
    <3>1. s[LatestIndex(s, o)] \in Decisions
      BY <2>3, ConfirmedDecisionProperty
    <3> QED BY <2>1, <2>2, <3>1
            DEF ApplyDecisionToItem, UntouchedRow, Items, Rows, Decisions
  <2> QED BY <1>2, <2>2, <2>3 DEF OutputRow
<1> QED BY <1>1, <1>2

\* The applications of a journal are audit rows.
LEMMA ApplicationsType ==
  ASSUME NEW s \in Seq(Decisions), NEW its \in [Offers -> Items \cup {None}]
  PROVE  ApplicationsOf(its, s) \subseteq Applications
<1> SUFFICES ASSUME NEW r \in ApplicationsOf(its, s) PROVE r \in Applications
  OBVIOUS
<1>0. PICK o \in Offers :
        /\ ConfirmedDecision(s, o)
        /\ r = [decision |-> s[LatestIndex(s, o)].key,
                fp |-> IF its[o] = None THEN None ELSE its[o].fp,
                status |-> ApplicationStatus(its[o], s[LatestIndex(s, o)])]
  BY Zenon DEF ApplicationsOf
<1>1. s[LatestIndex(s, o)].key \in Keys
  BY <1>0, ConfirmedDecisionProperty
<1>2. its[o] # None => its[o].fp \in Fingerprints
  BY DEF Items
<1>3. ApplicationStatus(its[o], s[LatestIndex(s, o)]) \in Statuses
  BY DEF ApplicationStatus, Statuses
<1> QED BY <1>0, <1>1, <1>2, <1>3 DEF Applications

\* A computed row is faithful to the journal it was computed from.
LEMMA ComputedRowIsFaithful ==
  ASSUME NEW s \in Seq(Decisions), NEW o, NEW item \in Items \cup {None},
         OutputRow(item, s, o) # None
  PROVE  FaithfulRow(s, o, OutputRow(item, s, o))
<1> DEFINE i == LatestIndex(s, o)
           d == s[i]
<1>1. item \in Items
  BY DEF OutputRow
<1>2. CASE ConfirmedDecision(s, o) /\ ApplicationStatus(item, d) = "APPLIED"
  <2>1. /\ i \in DOMAIN s
        /\ OfferOf(d.key) = o
        /\ IsConfirmed(d)
        /\ d.key # None
    BY <1>2, ConfirmedDecisionProperty
  <2>2. OutputRow(item, s, o) = ApplyDecisionToItem(item, d)
    BY <1>1, <1>2 DEF OutputRow, ApplicationStatus
  <2>3. item.fp = d.key.fp
    BY <1>2 DEF ApplicationStatus
  <2>4. /\ ApplyDecisionToItem(item, d).decision = d.key
        /\ ApplyDecisionToItem(item, d).fp = item.fp
        /\ ApplyDecisionToItem(item, d).raised = item.reasons
        /\ ApplyDecisionToItem(item, d).open = item.reasons \ d.reasons
    BY DEF ApplyDecisionToItem, UntouchedRow
  <2> HIDE DEF i
  <2> QED BY <2>1, <2>2, <2>3, <2>4 DEF FaithfulRow
<1>3. CASE ~(ConfirmedDecision(s, o) /\ ApplicationStatus(item, d) = "APPLIED")
  <2>1. OutputRow(item, s, o) = UntouchedRow(item)
    BY <1>3 DEF OutputRow
  <2> QED BY <2>1 DEF FaithfulRow, UntouchedRow
<1> QED BY <1>2, <1>3

\* A row faithful to a journal is faithful to every longer one.
LEMMA FaithfulToLongerJournal ==
  ASSUME NEW s, NEW t, NEW o, NEW row,
         \A i \in DOMAIN s : i \in DOMAIN t /\ t[i] = s[i],
         FaithfulRow(s, o, row)
  PROVE  FaithfulRow(t, o, row)
BY DEF FaithfulRow

-----------------------------------------------------------------------------
(***************************************************************************)
(* The reviewed output is faithful, with any number of appliers.           *)
(***************************************************************************)

\* The invariant of the files holds at the start.
LEMMA InitEstablishesFaithful == ReviewInit /\ RecordInv => FaithfulInv
<1> SUFFICES ASSUME ReviewInit, RecordInv PROVE FaithfulInv
  OBVIOUS
<1>1. ReviewTypeOK
  BY DEF ReviewInit, ApplyInit, RecordInv, ReviewTypeOK, ApplyTypeOK, RowsOrNone, NoRows,
         NoWork, Stages
<1>2. WorkIsFaithful /\ OutputIsFaithful
  BY DEF ReviewInit, ApplyInit, WorkIsFaithful, OutputIsFaithful, NoWork, NoRows
<1> QED BY <1>1, <1>2 DEF FaithfulInv

\* What ReadDecisions leaves in the applier's memory is of its type.
LEMMA ReadDecisionsType ==
  ASSUME NEW s \in Seq(Decisions), NEW its \in [Offers -> Items \cup {None}]
  PROVE  OutputRows(its, s) \in RowsOrNone /\ ApplicationsOf(its, s) \in SUBSET Applications
<1>1. ASSUME NEW o \in Offers PROVE OutputRow(its[o], s, o) \in Rows \cup {None}
  <2>1. its[o] \in Items \cup {None}
    OBVIOUS
  <2> QED BY <2>1, OutputRowType
<1>2. OutputRows(its, s) \in RowsOrNone
  BY <1>1 DEF OutputRows, RowsOrNone
<1> QED BY <1>2, ApplicationsType

\* What remains of some rows are rows.
LEMMA RemainingType ==
  ASSUME NEW rows \in RowsOrNone PROVE RemainingOf(rows) \in RowsOrNone
BY DEF RemainingOf, RowsOrNone

\* An applier's step keeps the types.  Only its own slot of `place` and `work`
\* changes, and each file it replaces is replaced by what is in its slot.
LEMMA ApplyTypeStep ==
  ASSUME ReviewTypeOK, ApplyNext
  PROVE  ApplyTypeOK'
<1> USE DEF ReviewTypeOK, ApplyTypeOK, Move, fileVars
<1>n. NoWork.new = {} /\ NoWork.audit = {} /\ NoWork.items = NoRows /\ NoWork.rows = NoRows
  BY DEF NoWork
<1>r. NoRows \in RowsOrNone /\ NoRows \in [Offers -> Items \cup {None}]
  BY DEF NoRows, RowsOrNone
<1> DEFINE Slots == [items : [Offers -> Items \cup {None}], rows : RowsOrNone,
                     new : SUBSET Applications, audit : SUBSET Applications]
<1>s. NoWork \in Slots
  BY <1>r DEF NoWork
<1> PICK a \in Appliers : \/ ReadItems(a) \/ ReadDecisions(a) \/ ReadAudit(a) \/ WriteOutput(a)
                         \/ WriteRemaining(a) \/ WriteAudit(a) \/ StopApply(a)
  BY DEF ApplyNext
<1>1. CASE ReadItems(a)
  BY <1>1 DEF ReadItems, Stages, RecordTypeOK
<1>2. CASE ReadDecisions(a)
  <2> DEFINE rows == OutputRows(work[a].items, decisions)
             new  == ApplicationsOf(work[a].items, decisions)
             slot == [NoWork EXCEPT !.rows = rows, !.new = new]
  <2>1. rows \in RowsOrNone /\ new \in SUBSET Applications
    BY ReadDecisionsType DEF RecordTypeOK
  <2>2. slot \in Slots
    <3> HIDE DEF rows, new
    <3> QED BY <1>s, <2>1
  <2>3. work' = [work EXCEPT ![a] = slot]
    BY <1>2 DEF ReadDecisions
  <2>4. work' \in [Appliers -> Slots]
    <3> HIDE DEF slot, Slots
    <3> QED BY <2>2, <2>3 DEF Slots
  <2> QED BY <1>2, <2>4 DEF ReadDecisions, Stages
<1>3. CASE ReadAudit(a)
  BY <1>3, ZenonT(40) DEF ReadAudit, Stages
<1>4. CASE WriteOutput(a)
  BY <1>4 DEF WriteOutput, Stages
<1>5. CASE WriteRemaining(a)
  <2>1. RemainingOf(work[a].rows) \in RowsOrNone
    BY RemainingType
  <2> QED BY <1>5, <2>1 DEF WriteRemaining, Stages
<1>6. CASE WriteAudit(a)
  BY <1>6, <1>s DEF WriteAudit, Stages
<1>7. CASE StopApply(a)
  BY <1>7, <1>s DEF StopApply, Stages
<1> QED BY <1>1, <1>2, <1>3, <1>4, <1>5, <1>6, <1>7

\* Every step of writers and appliers keeps the types.
LEMMA ReviewTypeStep ==
  ASSUME ReviewTypeOK, RecordInv', [ReviewNext]_reviewVars
  PROVE  ReviewTypeOK'
<1>1. RecordTypeOK'
  BY DEF RecordInv
<1>2. CASE UNCHANGED applyVars
  BY <1>1, <1>2 DEF ReviewTypeOK, ApplyTypeOK, applyVars
<1>3. CASE ApplyNext
  BY <1>1, <1>3, ApplyTypeStep DEF ReviewTypeOK
<1> QED BY <1>2, <1>3, ReviewStep

\* Every step keeps the invariant of the files.
LEMMA FaithfulStep ==
  ASSUME FaithfulInv, RecordInv, RecordInv', [ReviewNext]_reviewVars
  PROVE  FaithfulInv'
<1>1. ReviewTypeOK'
  BY ReviewTypeStep DEF FaithfulInv
<1>2. CASE RecordNext /\ UNCHANGED applyVars
  <2>1. \A i \in DOMAIN decisions : i \in DOMAIN decisions' /\ decisions'[i] = decisions[i]
    BY <1>2, JournalGrows
  <2>2. ASSUME NEW o \in Offers, output'[o] # None
        PROVE  FaithfulRow(decisions', o, output'[o])
    <3>1. FaithfulRow(decisions, o, output[o]) /\ output' = output
      BY <1>2, <2>2 DEF FaithfulInv, OutputIsFaithful, applyVars
    <3> QED BY <2>1, <3>1, FaithfulToLongerJournal
  <2>3. ASSUME NEW a \in Appliers, NEW o \in Offers, work'[a].rows[o] # None
        PROVE  FaithfulRow(decisions', o, work'[a].rows[o])
    <3>1. FaithfulRow(decisions, o, work[a].rows[o]) /\ work' = work
      BY <1>2, <2>3 DEF FaithfulInv, WorkIsFaithful, applyVars
    <3> QED BY <2>1, <3>1, FaithfulToLongerJournal
  <2> QED BY <1>1, <2>2, <2>3 DEF FaithfulInv, OutputIsFaithful, WorkIsFaithful
<1>3. CASE UNCHANGED recordVars /\ UNCHANGED applyVars
  BY <1>1, <1>3 DEF FaithfulInv, OutputIsFaithful, WorkIsFaithful, recordVars, applyVars
<1>4. CASE UNCHANGED recordVars /\ ApplyNext
  <2>0. decisions' = decisions
    BY <1>4 DEF recordVars
  <2> PICK a \in Appliers : \/ ReadItems(a) \/ ReadDecisions(a) \/ ReadAudit(a)
                           \/ WriteOutput(a) \/ WriteRemaining(a) \/ WriteAudit(a)
                           \/ StopApply(a)
    BY <1>4 DEF ApplyNext
  <2> USE DEF FaithfulInv, ReviewTypeOK, ApplyTypeOK
  <2>1. \A b \in Appliers : b # a => work'[b] = work[b]
    BY DEF ReadItems, ReadDecisions, ReadAudit, WriteOutput, WriteRemaining, WriteAudit,
           StopApply
  <2>2. ASSUME NEW o \in Offers, work'[a].rows[o] # None
        PROVE  FaithfulRow(decisions, o, work'[a].rows[o])
    <3>1. CASE ReadDecisions(a)
      <4> DEFINE rows == OutputRows(work[a].items, decisions)
                 new  == ApplicationsOf(work[a].items, decisions)
      <4>0. work'[a] = [NoWork EXCEPT !.rows = rows, !.new = new]
        BY <3>1 DEF ReadDecisions
      <4>1. work'[a].rows = rows
        <5> HIDE DEF rows, new
        <5> QED BY <4>0 DEF NoWork
      <4>2. work'[a].rows[o] = OutputRow(work[a].items[o], decisions, o)
        BY <4>1 DEF OutputRows
      <4>3. work[a].items[o] \in Items \cup {None} /\ decisions \in Seq(Decisions)
        BY DEF RecordTypeOK
      <4> QED BY <2>2, <4>2, <4>3, ComputedRowIsFaithful
    <3>2. CASE WriteAudit(a) \/ StopApply(a)
      <4>1. work'[a] = NoWork
        BY <3>2 DEF WriteAudit, StopApply
      <4> QED BY <2>2, <4>1 DEF NoWork, NoRows
    <3>3. CASE ReadItems(a) \/ ReadAudit(a) \/ WriteOutput(a) \/ WriteRemaining(a)
      <4>1. work'[a].rows = work[a].rows
        BY <3>3 DEF ReadItems, ReadAudit, WriteOutput, WriteRemaining
      <4> QED BY <2>2, <4>1 DEF WorkIsFaithful
    <3> QED BY <3>1, <3>2, <3>3
  <2>3. WorkIsFaithful'
    BY <2>0, <2>1, <2>2 DEF WorkIsFaithful
  <2>4. output' = output \/ output' = work[a].rows
    BY DEF ReadItems, ReadDecisions, ReadAudit, WriteOutput, WriteRemaining, WriteAudit,
           StopApply, fileVars
  <2>5. OutputIsFaithful'
    BY <2>0, <2>4 DEF OutputIsFaithful, WorkIsFaithful
  <2> QED BY <1>1, <2>3, <2>5
<1> QED BY <1>2, <1>3, <1>4, ReviewStep

\* The recording invariant holds beside appliers, and with it the faithfulness
\* of what they have written and are about to write.
THEOREM FaithfulInvariant == ReviewSpec => []FaithfulInv
<1>1. ReviewSpec => []RecordInv
  BY ReviewImplementsRecord, RecordInvariant, PTL
<1>2. ReviewInit /\ RecordInv => FaithfulInv
  BY InitEstablishesFaithful
<1>3. FaithfulInv /\ RecordInv /\ RecordInv' /\ [ReviewNext]_reviewVars => FaithfulInv'
  BY FaithfulStep
<1> QED BY <1>1, <1>2, <1>3, PTL DEF ReviewSpec

\* Every variable of the review keeps its type: what parsing, recording and
\* applying write is what list, show and apply expect to read.
THEOREM ReviewTypeCorrect == ReviewSpec => []ReviewTypeOK
<1>1. FaithfulInv => ReviewTypeOK
  BY DEF FaithfulInv
<1> QED BY <1>1, FaithfulInvariant, PTL

\* Whatever parses, writers, appliers and crashes interleave, a row of the
\* reviewed output carries a decision only if it was confirmed, on this offer
\* and on this very source, and closes only reasons the operator had seen.
THEOREM OutputFaithful == ReviewSpec => []OutputIsFaithful
<1>1. FaithfulInv => OutputIsFaithful
  BY DEF FaithfulInv
<1> QED BY <1>1, FaithfulInvariant, PTL

-----------------------------------------------------------------------------
(***************************************************************************)
(* With a single applier the files it replaces one by one agree, and its   *)
(* audit neither runs ahead of the output nor loses a row.                 *)
(***************************************************************************)

\* What one application computes is consistent: its rows and its audit rows
\* tell of the same decisions.
LEMMA RowsMatchApplications ==
  ASSUME NEW s \in Seq(Decisions), NEW its \in [Offers -> Items \cup {None}]
  PROVE  /\ Covers(ApplicationsOf(its, s), OutputRows(its, s))
         /\ Carries(OutputRows(its, s), ApplicationsOf(its, s))
<1> DEFINE d(o) == s[LatestIndex(s, o)]
           app(o) == [decision |-> d(o).key,
                      fp |-> IF its[o] = None THEN None ELSE its[o].fp,
                      status |-> ApplicationStatus(its[o], d(o))]
<1>1. ASSUME NEW o \in Offers, ConfirmedDecision(s, o), its[o] # None,
             ApplicationStatus(its[o], d(o)) = "APPLIED"
      PROVE  /\ OutputRow(its[o], s, o) # None
             /\ OutputRow(its[o], s, o).decision = d(o).key
             /\ OutputRow(its[o], s, o).fp = its[o].fp
  <2>1. d(o) \in Decisions
    BY <1>1, ConfirmedDecisionProperty
  <2>2. its[o] \in Items
    BY <1>1
  <2>3. OutputRow(its[o], s, o) = ApplyDecisionToItem(its[o], d(o))
    BY <1>1 DEF OutputRow
  <2>4. /\ ApplyDecisionToItem(its[o], d(o)).decision = d(o).key
        /\ ApplyDecisionToItem(its[o], d(o)).fp = its[o].fp
    BY DEF ApplyDecisionToItem, UntouchedRow
  <2>5. d(o).key # None
    BY <1>1, ConfirmedDecisionProperty
  <2>6. ApplyDecisionToItem(its[o], d(o)) \in Rows
    BY <2>1, <2>2 DEF ApplyDecisionToItem, UntouchedRow, Items, Rows, Decisions
  <2> HIDE DEF d
  <2> QED BY <2>3, <2>4, <2>6, NoneAssumption
<1>2. Covers(ApplicationsOf(its, s), OutputRows(its, s))
  <2> SUFFICES ASSUME NEW o \in Offers, OutputRow(its[o], s, o) # None,
                      OutputRow(its[o], s, o).decision # None
               PROVE  [decision |-> OutputRow(its[o], s, o).decision,
                       fp |-> OutputRow(its[o], s, o).fp,
                       status |-> "APPLIED"] \in ApplicationsOf(its, s)
    BY DEF Covers, OutputRows
  <2>1. /\ its[o] # None
        /\ ConfirmedDecision(s, o)
        /\ ApplicationStatus(its[o], d(o)) = "APPLIED"
    BY DEF OutputRow, UntouchedRow
  <2>2. app(o) \in ApplicationsOf(its, s)
    BY <2>1 DEF ApplicationsOf
  <2> HIDE DEF d
  <2> QED BY <1>1, <2>1, <2>2
<1>3. Carries(OutputRows(its, s), ApplicationsOf(its, s))
  <2> SUFFICES ASSUME NEW r \in ApplicationsOf(its, s), r.status = "APPLIED"
               PROVE  /\ OutputRows(its, s)[OfferOf(r.decision)] # None
                      /\ OutputRows(its, s)[OfferOf(r.decision)].decision = r.decision
    BY DEF Carries
  <2>1. PICK o \in Offers : ConfirmedDecision(s, o) /\ r = app(o)
    BY Zenon DEF ApplicationsOf
  <2>2. OfferOf(d(o).key) = o
    BY <2>1, ConfirmedDecisionProperty
  <2>3. r.decision = d(o).key /\ ApplicationStatus(its[o], d(o)) = "APPLIED"
    BY <2>1
  <2>4. its[o] # None
    BY <2>3 DEF ApplicationStatus
  <2>5. OutputRows(its, s)[o] = OutputRow(its[o], s, o)
    BY DEF OutputRows
  <2> HIDE DEF d
  <2> QED BY <1>1, <2>1, <2>2, <2>3, <2>4, <2>5
<1> QED BY <1>2, <1>3

\* The invariant of one applier holds at the start.
LEMMA InitEstablishesProgress == ReviewInit /\ ReviewTypeOK => ProgressInv
BY DEF ReviewInit, ApplyInit, ProgressInv, FilesAgree, Progress, AuditRead, NoRows

\* Nothing an applier has read or written changes while it is not stepping.
LEMMA ProgressStutter ==
  ASSUME ProgressInv, UNCHANGED applyVars, ReviewTypeOK'
  PROVE  ProgressInv'
<1>1. FilesAgree'
  BY DEF ProgressInv, FilesAgree, applyVars
<1>2. ASSUME NEW a \in Appliers PROVE Progress(a)'
  BY Zenon DEF ProgressInv, Progress, Covers, Carries, RemainingOf, RequiresReview, applyVars
<1> QED BY <1>1, <1>2 DEF ProgressInv

\* Every step of one applier keeps its invariant, and only WriteAudit changes the audit.
LEMMA ProgressStep ==
  ASSUME NEW a, Appliers = {a}, ProgressInv, ReviewTypeOK', ApplyNext
  PROVE  ProgressInv' /\ (audit # audit' => WriteAudit(a))
<1>0. place \in [Appliers -> Stages] /\ unfinished \subseteq Appliers /\ a \in DOMAIN work
  BY DEF ProgressInv, ReviewTypeOK, ApplyTypeOK
<1>p. Progress(a)
  BY DEF ProgressInv
<1>q. SUFFICES /\ FilesAgree' /\ Progress(a)'
               /\ audit # audit' => WriteAudit(a)
  BY DEF ProgressInv
<1>n. \/ ReadItems(a) \/ ReadDecisions(a) \/ ReadAudit(a) \/ WriteOutput(a)
      \/ WriteRemaining(a) \/ WriteAudit(a) \/ StopApply(a)
  BY DEF ApplyNext
<1>f. ASSUME UNCHANGED fileVars, UNCHANGED unfinished
      PROVE  FilesAgree' /\ audit = audit'
  BY <1>f DEF ProgressInv, FilesAgree, fileVars
<1>1. CASE ReadItems(a) \/ StopApply(a)
  <2>1. place'[a] \in {"idle", "items read"} /\ UNCHANGED <<fileVars, unfinished>>
    BY <1>0, <1>1 DEF ReadItems, StopApply, Move
  <2> QED BY <1>f, <2>1 DEF Progress, AuditRead
<1>2. CASE ReadDecisions(a)
  <2> DEFINE rows == OutputRows(work[a].items, decisions)
             new  == ApplicationsOf(work[a].items, decisions)
  <2>1. work'[a] = [NoWork EXCEPT !.rows = rows, !.new = new]
    BY <1>0, <1>2 DEF ReadDecisions
  <2>2. work'[a].rows = rows /\ work'[a].new = new
    <3> HIDE DEF rows, new
    <3> QED BY <2>1 DEF NoWork
  <2>3. work[a].items \in [Offers -> Items \cup {None}] /\ decisions \in Seq(Decisions)
    BY DEF ProgressInv, ReviewTypeOK, ApplyTypeOK, RecordTypeOK
  <2>4. Covers(new, rows) /\ Carries(rows, new)
    BY <2>3, RowsMatchApplications
  <2>5. place'[a] = "decisions read" /\ UNCHANGED <<fileVars, unfinished>>
    BY <1>0, <1>2 DEF ReadDecisions, Move
  <2> QED BY <1>f, <2>2, <2>4, <2>5 DEF Progress, AuditRead
<1>3. CASE ReadAudit(a)
  <2>1. /\ place[a] = "decisions read" /\ place'[a] = "audit read"
        /\ UNCHANGED <<fileVars, unfinished>>
        /\ work'[a].audit = audit \cup work[a].new
        /\ work'[a].rows = work[a].rows
    <3>1. work[a] \in [items : [Offers -> Items \cup {None}], rows : RowsOrNone,
                       new : SUBSET Applications, audit : SUBSET Applications]
      BY DEF ProgressInv, ReviewTypeOK, ApplyTypeOK
    <3>2. work' = [work EXCEPT ![a].audit = audit \cup work[a].new, ![a].new = {}]
      BY <1>3 DEF ReadAudit
    <3>3. /\ work'[a].audit = audit \cup work[a].new
          /\ work'[a].rows = work[a].rows
      BY <1>0, <3>1, <3>2
    <3> QED BY <1>0, <1>3, <3>3 DEF ReadAudit, Move
  <2>2. Covers(work[a].new, work[a].rows) /\ Carries(work[a].rows, work[a].new)
    BY <1>p, <2>1 DEF Progress
  <2>3. audit' = audit
    BY <2>1 DEF fileVars
  <2>4. Covers(work'[a].audit, work'[a].rows)
    BY <2>1, <2>2 DEF Covers
  <2>5. Carries(work'[a].rows, work'[a].audit \ audit')
    BY <2>1, <2>2, <2>3 DEF Carries
  <2>6. audit' \subseteq work'[a].audit
    BY <2>1, <2>3
  <2> QED BY <1>f, <2>1, <2>4, <2>5, <2>6 DEF Progress, AuditRead
<1>4. CASE WriteOutput(a)
  <2>1. /\ place[a] = "audit read" /\ place'[a] = "output written"
        /\ output' = work[a].rows /\ work' = work /\ audit' = audit
        /\ a \in unfinished'
    BY <1>0, <1>4 DEF WriteOutput, Move
  <2> QED BY <1>p, <2>1 DEF Progress, AuditRead, FilesAgree
<1>5. CASE WriteRemaining(a)
  <2>1. /\ place[a] = "output written" /\ place'[a] = "remaining written"
        /\ output' = output /\ work' = work /\ audit' = audit
        /\ remaining' = RemainingOf(work[a].rows) /\ unfinished' = unfinished
    BY <1>0, <1>5 DEF WriteRemaining, Move
  <2> QED BY <1>p, <2>1 DEF Progress, AuditRead, FilesAgree
<1>6. CASE WriteAudit(a)
  <2>1. /\ place[a] = "remaining written" /\ place'[a] = "idle"
        /\ output' = output /\ remaining' = remaining /\ audit' = work[a].audit
    BY <1>0, <1>6 DEF WriteAudit, Move
  <2>2. /\ output = work[a].rows /\ remaining = RemainingOf(work[a].rows)
        /\ Covers(work[a].audit, work[a].rows)
    BY <1>p, <2>1 DEF Progress, AuditRead
  <2>3. FilesAgree'
    BY <2>1, <2>2 DEF FilesAgree, RemainingOf, RequiresReview, Covers
  <2> QED BY <1>6, <2>1, <2>3 DEF Progress, AuditRead
<1> QED BY <1>n, <1>1, <1>2, <1>3, <1>4, <1>5, <1>6

\* The audit an only applier is about to write extends the one in the file, and
\* adds nothing the output does not carry.
LEMMA AuditStep ==
  ASSUME NEW a, Appliers = {a}, ProgressInv, WriteAudit(a)
  PROVE  /\ audit \subseteq audit'
         /\ \A r \in audit' \ audit : r.status = "APPLIED" =>
              /\ output[OfferOf(r.decision)] # None
              /\ output[OfferOf(r.decision)].decision = r.decision
<1>1. Progress(a) /\ place[a] = "remaining written" /\ audit' = work[a].audit
  BY DEF ProgressInv, WriteAudit, Move
<1> QED BY <1>1 DEF Progress, AuditRead, Carries

\* How far one applier is, and what its rows and audit cover by then.
LEMMA ProgressInvariant ==
  ASSUME NEW CONSTANT a, Appliers = {a}
  PROVE  ReviewSpec => []ProgressInv
<1>1. ReviewInit /\ ReviewTypeOK => ProgressInv
  BY InitEstablishesProgress
<1>2. ProgressInv /\ ReviewTypeOK' /\ [ReviewNext]_reviewVars => ProgressInv'
  BY ReviewStep, ProgressStutter, ProgressStep
<1> QED BY <1>1, <1>2, ReviewTypeCorrect, PTL DEF ReviewSpec

\* With one applier, the queue that remains is exactly what the output still
\* wants reviewed and the audit has every decision the output carries, unless
\* an application is under way or was broken off and not yet repeated.
THEOREM OneApplierFilesAgree ==
  ASSUME NEW CONSTANT a, Appliers = {a}
  PROVE  ReviewSpec => []FilesAgree
<1>1. ProgressInv => FilesAgree
  BY DEF ProgressInv
<1> QED BY <1>1, ProgressInvariant, PTL

\* With one applier, no row ever disappears from the audit.
THEOREM OneApplierAuditOnlyGrows ==
  ASSUME NEW CONSTANT a, Appliers = {a}
  PROVE  ReviewSpec => AuditOnlyGrows
<1>1. ProgressInv /\ ReviewTypeOK' /\ [ReviewNext]_reviewVars => [audit \subseteq audit']_audit
  BY ReviewStep, ProgressStep, AuditStep DEF applyVars
<1> QED BY <1>1, ProgressInvariant, ReviewTypeCorrect, PTL DEF ReviewSpec, AuditOnlyGrows

\* With one applier, the audit claims an application only once the output has it.
THEOREM OneApplierAuditFollowsOutput ==
  ASSUME NEW CONSTANT a, Appliers = {a}
  PROVE  ReviewSpec => AuditFollowsOutput
<1>1. ProgressInv /\ ReviewTypeOK' /\ [ReviewNext]_reviewVars =>
        [\A r \in audit' \ audit : r.status = "APPLIED" =>
           /\ output[OfferOf(r.decision)] # None
           /\ output[OfferOf(r.decision)].decision = r.decision]_audit
  BY ReviewStep, ProgressStep, AuditStep DEF applyVars
<1> QED BY <1>1, ProgressInvariant, ReviewTypeCorrect, PTL DEF ReviewSpec, AuditFollowsOutput
=============================================================================
