-------------------------- MODULE PilotImportProofs --------------------------
(***************************************************************************)
(* Theorems about PilotImport, for any reports, keys and number of imports *)
(* at the same time.                                                       *)
(***************************************************************************)
EXTENDS PilotImport, FiniteSetTheorems, SequenceTheorems, TLAPS

\* What other imports have read stays sound while the tables only grow.
TablesGrow ==
  /\ \A o \in Offers : offers[o] # None =>
       offers'[o] # None /\ offers'[o].payload.parsed = offers[o].payload.parsed
  /\ reviews \subseteq reviews'
  /\ tasks \subseteq tasks'

\* What an import has done so far stays true while the tables grow.
LEMMA SoundnessKept ==
  ASSUME TablesGrow, NEW w \in Works
  PROVE  /\ RowsSound(w) => RowsSound(w)'
         /\ QueuesSound(w) => QueuesSound(w)'
<1>1. \A l \in w.links : l.offer \in Offers
  BY DEF Works, Links
<1>2. \A l \in w.links : LinkSound(w, l) => LinkSound(w, l)'
  BY <1>1 DEF TablesGrow, LinkSound
<1>3. RowsSound(w) => RowsSound(w)'
  BY <1>2 DEF RowsSound
<1>4. w.reviews \subseteq Offers
  BY DEF Works
<1>5. QueuesSound(w) => QueuesSound(w)'
  BY <1>4 DEF TablesGrow, QueuesSound
<1> QED BY <1>3, <1>5

\* A step of session s to `place`, holding w: what is left to show when the
\* tables grow and the jobs of the other sessions are left alone.
LEMMA StepOfSession ==
  ASSUME ImportInv, TablesGrow,
         NEW s \in Sessions, NEW place \in Places, NEW w \in Works,
         pc' = [pc EXCEPT ![s] = place],
         work' = [work EXCEPT ![s] = w],
         place # "idle" => w.key \in Keys,
         place \in {"new key", "running"} => w = NoWork(w.key),
         place \in Owning => IsRunning(w.key)',
         place \in Reading => RowsSound(w)' /\ CountsSound(w),
         place = "complete" => QueuesSound(w)',
         \A t \in Sessions : t # s /\ pc[t] \in Owning =>
           /\ jobs'[work[t].key] = jobs[work[t].key]
           /\ place \in Owning => work[t].key # w.key,
         ImportTypeOK', AllOrNothing', LinksAreTrue', CountsAreTrue', ReviewedAreThere'
  PROVE  ImportInv'
<1>1. pc \in [Sessions -> Places] /\ work \in [Sessions -> Works]
  BY DEF ImportInv, ImportTypeOK
<1>2. /\ pc'[s] = place /\ work'[s] = w
      /\ \A t \in Sessions : t # s => pc'[t] = pc[t] /\ work'[t] = work[t]
  BY <1>1
<1>3. OneWorker'
  <2>1. \A t \in Sessions : pc'[t] # "idle" => work'[t].key \in Keys
    BY <1>2 DEF ImportInv, OneWorker
  <2>2. ASSUME NEW t \in Sessions, pc'[t] \in Owning PROVE IsRunning(work[t].key)'
    <3>1. CASE t = s
      BY <1>2, <2>2, <3>1
    <3>2. CASE t # s
      <4>1. pc[t] \in Owning /\ work'[t] = work[t]
        BY <1>2, <2>2, <3>2
      <4>2. IsRunning(work[t].key)
        BY <4>1 DEF ImportInv, OneWorker
      <4>3. jobs'[work[t].key] = jobs[work[t].key]
        BY <3>2, <4>1
      <4> QED BY <4>1, <4>2, <4>3 DEF IsRunning
    <3> QED BY <3>1, <3>2
  <2>3. ASSUME NEW t \in Sessions, NEW u \in Sessions,
               pc'[t] \in Owning, pc'[u] \in Owning, work'[t].key = work'[u].key
        PROVE  t = u
    <3>1. \A v \in Sessions : v # s /\ pc'[v] \in Owning =>
            pc[v] \in Owning /\ work'[v] = work[v]
      BY <1>2
    <3>2. \A v \in Sessions :
            v # s /\ pc'[v] \in Owning /\ place \in Owning => work[v].key # w.key
      BY <3>1
    <3>3. CASE t = s /\ u # s
      <4>1. pc'[t] = place /\ work'[t] = w
        BY <1>2, <3>3
      <4>2. place \in Owning /\ w.key = work'[u].key
        BY <2>3, <4>1
      <4>3. work[u].key # w.key /\ work'[u] = work[u]
        BY <2>3, <3>1, <3>2, <3>3, <4>2
      <4> QED BY <4>2, <4>3
    <3>4. CASE t # s /\ u = s
      <4>1. pc'[u] = place /\ work'[u] = w
        BY <1>2, <3>4
      <4>2. place \in Owning /\ w.key = work'[t].key
        BY <2>3, <4>1
      <4>3. work[t].key # w.key /\ work'[t] = work[t]
        BY <2>3, <3>1, <3>2, <3>4, <4>2
      <4> QED BY <4>2, <4>3
    <3>5. CASE t # s /\ u # s
      BY <2>3, <3>1, <3>5 DEF ImportInv, OneWorker
    <3> QED BY <3>3, <3>4, <3>5
  <2> QED BY <2>1, <2>2, <2>3 DEF OneWorker
<1>4. NotStarted'
  BY <1>2 DEF ImportInv, NotStarted
<1>5. WorkSound'
  <2> SUFFICES ASSUME NEW t \in Sessions
               PROVE  /\ pc'[t] \in Reading => RowsSound(work[t])' /\ CountsSound(work[t])'
                      /\ pc'[t] = "complete" => QueuesSound(work[t])'
    BY DEF WorkSound, CountsSound
  <2>1. CASE t = s
    BY <1>2, <2>1, ZenonT(40)
  <2>2. CASE t # s
    <3>1. PICK v \in Works : v = work[t] /\ v = work'[t] /\ pc'[t] = pc[t]
      BY <1>1, <1>2, <2>2
    <3>2. /\ pc[t] \in Reading => RowsSound(v) /\ CountsSound(v)
          /\ pc[t] = "complete" => QueuesSound(v)
      BY <3>1 DEF ImportInv, WorkSound
    <3>3. /\ RowsSound(v) => RowsSound(v)'
          /\ QueuesSound(v) => QueuesSound(v)'
      BY SoundnessKept
    <3> QED BY <3>1, <3>2, <3>3
  <2> QED BY <2>1, <2>2
<1> QED BY <1>3, <1>4, <1>5 DEF ImportInv

\* A step of session s that leaves the tables and the completed jobs alone.
LEMMA QuietStep ==
  ASSUME ImportInv, UNCHANGED tables, orphans' \subseteq Keys,
         jobs' \in [Keys -> Jobs \cup {None}],
         \A h \in Keys : IsCompleted(h)' <=> IsCompleted(h),
         \A h \in Keys : IsCompleted(h) => jobs'[h] = jobs[h],
         NEW s \in Sessions, NEW place \in Places, NEW w \in Works,
         pc' = [pc EXCEPT ![s] = place],
         work' = [work EXCEPT ![s] = w],
         place # "idle" => w.key \in Keys,
         place \in {"new key", "running"} => w = NoWork(w.key),
         place \in Owning => IsRunning(w.key)',
         place \in Reading => RowsSound(w) /\ CountsSound(w),
         place = "complete" => QueuesSound(w),
         \A t \in Sessions : t # s /\ pc[t] \in Owning =>
           /\ jobs'[work[t].key] = jobs[work[t].key]
           /\ place \in Owning => work[t].key # w.key
  PROVE  ImportInv'
<1>1. /\ offers' = offers /\ links' = links /\ reviews' = reviews
      /\ tasks' = tasks /\ audit' = audit
  BY DEF tables
<1>2. TablesGrow
  BY <1>1 DEF TablesGrow
<1>3. ImportTypeOK'
  BY <1>1 DEF ImportInv, ImportTypeOK
<1>4. AllOrNothing'
  <2>1. \A l \in links : l.job \in Keys
    BY DEF ImportInv, ImportTypeOK, Links
  <2>2. \A l \in links' : IsCompleted(l.job)'
    BY <1>1, <2>1 DEF ImportInv, AllOrNothing
  <2>3. audit' = {k \in Keys : IsCompleted(k)'}
    BY <1>1 DEF ImportInv, AllOrNothing
  <2>4. \A o \in Offers : offers'[o] # None =>
          \E l \in links' : l.offer = o /\ l.job = offers'[o].job /\ l.state = "CREATED"
    BY <1>1 DEF ImportInv, AllOrNothing
  <2>5. ASSUME NEW k \in Keys, IsCompleted(k)'
        PROVE  /\ \A i \in DOMAIN jobs'[k].report.rows :
                    \E l \in links' : l.job = k /\ l.offer = jobs'[k].report.rows[i].offer
               /\ jobs'[k].report.review \subseteq reviews'
               /\ jobs'[k].report.reference \subseteq tasks'
    <3>1. IsCompleted(k) /\ jobs'[k] = jobs[k]
      BY <2>5
    <3>2. PICK j : j = jobs[k]
      OBVIOUS
    <3>3. /\ \A i \in DOMAIN j.report.rows :
               \E l \in links : l.job = k /\ l.offer = j.report.rows[i].offer
          /\ j.report.review \subseteq reviews
          /\ j.report.reference \subseteq tasks
      <4>1. AllOrNothing
        BY DEF ImportInv
      <4>2. \A i \in DOMAIN jobs[k].report.rows :
              \E l \in links : l.job = k /\ l.offer = jobs[k].report.rows[i].offer
        BY <3>1, <4>1, Zenon DEF AllOrNothing
      <4>3. /\ jobs[k].report.review \subseteq reviews
            /\ jobs[k].report.reference \subseteq tasks
        BY <3>1, <4>1, Zenon DEF AllOrNothing
      <4> QED BY <3>2, <4>2, <4>3, Zenon
    <3>4. jobs'[k] = j
      BY <3>1, <3>2
    <3> QED BY <1>1, <3>3, <3>4
  <2> QED BY <2>2, <2>3, <2>4, <2>5 DEF AllOrNothing
<1>5. LinksAreTrue'
  BY <1>1 DEF ImportInv, LinksAreTrue
<1>6. CountsAreTrue'
  <2> SUFFICES ASSUME NEW k \in Keys, IsCompleted(k)'
               PROVE  LET c == jobs'[k].counts
                      IN  /\ c.input = Len(jobs'[k].report.rows)
                          /\ c.created + c.existing = c.input
                          /\ c.links = Cardinality({l \in links' : l.job = k})
                          /\ c.created =
                               Cardinality({o \in Offers : offers'[o] # None /\ offers'[o].job = k})
    BY DEF CountsAreTrue
  <2>1. IsCompleted(k) /\ jobs'[k] = jobs[k]
    OBVIOUS
  <2> QED BY <1>1, <2>1 DEF ImportInv, CountsAreTrue
<1>7. ReviewedAreThere'
  BY <1>1 DEF ImportInv, ReviewedAreThere
<1>8. /\ RowsSound(w) => RowsSound(w)'
      /\ QueuesSound(w) => QueuesSound(w)'
  BY <1>2, SoundnessKept
<1> QED BY <1>2, <1>3, <1>4, <1>5, <1>6, <1>7, <1>8, StepOfSession

\* A step of session s that changes nothing but what it holds.
LEMMA LocalStep ==
  ASSUME ImportInv, UNCHANGED <<jobs, tables>>, orphans' \subseteq Keys,
         NEW s \in Sessions, NEW place \in Places, NEW w \in Works,
         pc' = [pc EXCEPT ![s] = place],
         work' = [work EXCEPT ![s] = w],
         place # "idle" => w.key \in Keys,
         place \in {"new key", "running"} => w = NoWork(w.key),
         place \in Owning => pc[s] \in Owning /\ w.key = work[s].key,
         place \in Reading => RowsSound(w) /\ CountsSound(w),
         place = "complete" => QueuesSound(w)
  PROVE  ImportInv'
<1>1. UNCHANGED tables /\ jobs' = jobs
  OBVIOUS
<1>2. jobs' \in [Keys -> Jobs \cup {None}]
  BY <1>1 DEF ImportInv, ImportTypeOK
<1>3. \A h \in Keys : IsCompleted(h)' <=> IsCompleted(h)
  BY <1>1 DEF IsCompleted
<1>4. \A h \in Keys : IsCompleted(h) => jobs'[h] = jobs[h]
  BY <1>1
<1>5. place \in Owning => IsRunning(w.key)'
  <2> SUFFICES ASSUME place \in Owning PROVE IsRunning(w.key)'
    OBVIOUS
  <2>1. IsRunning(work[s].key) /\ w.key = work[s].key
    BY DEF ImportInv, OneWorker
  <2>2. IsRunning(w.key)
    BY <2>1
  <2> QED BY <1>1, <2>2 DEF IsRunning
<1>6. \A t \in Sessions : t # s /\ pc[t] \in Owning =>
        /\ jobs'[work[t].key] = jobs[work[t].key]
        /\ place \in Owning => work[t].key # w.key
  BY <1>1 DEF ImportInv, OneWorker
<1> QED BY <1>1, <1>2, <1>3, <1>4, <1>5, <1>6, QuietStep

\* A stutter keeps the invariant.
LEMMA NothingChanges ==
  ASSUME ImportInv, UNCHANGED vars
  PROVE  ImportInv'
<1>1. /\ jobs' = jobs /\ offers' = offers /\ links' = links /\ reviews' = reviews
      /\ tasks' = tasks /\ audit' = audit /\ pc' = pc /\ work' = work /\ orphans' = orphans
  BY DEF vars
<1>2. ImportTypeOK' /\ AllOrNothing'
  BY <1>1 DEF ImportInv, ImportTypeOK, AllOrNothing, IsCompleted
<1>3. LinksAreTrue' /\ CountsAreTrue'
  BY <1>1 DEF ImportInv, LinksAreTrue, CountsAreTrue, IsCompleted
<1>4. OneWorker' /\ NotStarted' /\ ReviewedAreThere'
  BY <1>1 DEF ImportInv, OneWorker, IsRunning, NotStarted, ReviewedAreThere
<1>5. WorkSound'
  BY <1>1 DEF ImportInv, WorkSound, RowsSound, LinkSound, CountsSound, QueuesSound
<1> QED BY <1>2, <1>3, <1>4, <1>5 DEF ImportInv

\* A session with nothing in hand has a type.
LEMMA NoWorkType == \A k \in Keys \cup {None} : NoWork(k) \in Works
BY DEF NoWork, Works, NoCounts, Counts

\* Start, the lookup of the key, keeps the invariant.
LEMMA StartKeeps ==
  ASSUME ImportInv, NEW s \in Sessions, NEW k \in Keys, Start(s, k)
  PROVE  ImportInv'
<1>1. CASE jobs[k] # None
  BY <1>1, NothingChanges DEF Start, vars, tables
<1>2. CASE jobs[k] = None
  <2>1. NoWork(k) \in Works /\ NoWork(k).key = k
    BY NoWorkType DEF NoWork
  <2>2. /\ pc' = [pc EXCEPT ![s] = "new key"]
        /\ work' = [work EXCEPT ![s] = NoWork(k)]
        /\ UNCHANGED <<jobs, tables>> /\ orphans' \subseteq Keys
    BY <1>2 DEF Start, GoTo, ImportInv, ImportTypeOK
  <2> QED BY <2>1, <2>2, LocalStep DEF Places, Owning, Reading
<1> QED BY <1>1, <1>2

\* Ending a session.
LEMMA EndKeeps ==
  ASSUME ImportInv, NEW s \in Sessions, End(s), UNCHANGED <<jobs, tables>>,
         orphans' \subseteq Keys
  PROVE  ImportInv'
<1>1. NoWork(None) \in Works
  BY NoWorkType
<1>2. /\ pc' = [pc EXCEPT ![s] = "idle"]
      /\ work' = [work EXCEPT ![s] = NoWork(None)]
  BY DEF End, GoTo
<1> QED BY <1>1, <1>2, LocalStep DEF Places, Owning, Reading

\* The death of a session keeps the invariant.
LEMMA CrashKeeps ==
  ASSUME ImportInv, NEW s \in Sessions, Crash(s)
  PROVE  ImportInv'
<1>1. orphans' \subseteq Keys
  BY DEF Crash, ImportInv, ImportTypeOK, OneWorker
<1> QED BY <1>1, EndKeeps DEF Crash

\* A failure before the commit keeps the invariant.
LEMMA FailKeeps ==
  ASSUME ImportInv, NEW s \in Sessions, pc[s] \in Owning, GoTo(s, "failing"),
         UNCHANGED <<jobs, tables, work, orphans>>
  PROVE  ImportInv'
<1>1. work[s] \in Works /\ work[s].key \in Keys
  BY DEF ImportInv, ImportTypeOK, OneWorker, Owning
<1>2. work' = [work EXCEPT ![s] = work[s]]
  BY DEF ImportInv, ImportTypeOK
<1>3. pc' = [pc EXCEPT ![s] = "failing"] /\ orphans' \subseteq Keys /\ UNCHANGED <<jobs, tables>>
  BY DEF GoTo, ImportInv, ImportTypeOK
<1>4. PICK w \in Works : w = work[s]
  BY <1>1
<1> QED BY <1>1, <1>2, <1>3, <1>4, LocalStep DEF Places, Reading

\* CommitRunning, which gives the job to one session, keeps the invariant.
LEMMA CommitRunningKeeps ==
  ASSUME ImportInv, NEW s \in Sessions, CommitRunning(s)
  PROVE  ImportInv'
<1>1. CASE jobs[work[s].key] # None
  BY <1>1, EndKeeps DEF CommitRunning, ImportInv, ImportTypeOK
<1>2. CASE jobs[work[s].key] = None
  <2>1. PICK k \in Keys : k = work[s].key
    BY DEF CommitRunning, ImportInv, OneWorker
  <2>2. /\ pc[s] = "new key" /\ jobs[k] = None
        /\ jobs' = [jobs EXCEPT ![k] = NewJob]
        /\ pc' = [pc EXCEPT ![s] = "running"]
        /\ work' = work /\ UNCHANGED tables /\ orphans' = orphans
    BY <1>2, <2>1 DEF CommitRunning, GoTo
  <2>3. work[s] = NoWork(k)
    BY <2>1, <2>2 DEF ImportInv, NotStarted
  <2>4. NoWork(k) \in Works /\ NoWork(k).key = k
    BY NoWorkType DEF NoWork
  <2>5. PICK w \in Works : w = NoWork(k) /\ w.key = k /\ work' = [work EXCEPT ![s] = w]
    BY <2>2, <2>3, <2>4 DEF ImportInv, ImportTypeOK
  <2>6. NewJob \in Jobs /\ NewJob # None /\ NewJob.status = "RUNNING"
    BY NoneAssumption DEF NewJob, Jobs
  <2>7. jobs \in [Keys -> Jobs \cup {None}]
    BY DEF ImportInv, ImportTypeOK
  <2>8. jobs' \in [Keys -> Jobs \cup {None}] /\ jobs'[k] = NewJob
    BY <2>2, <2>6, <2>7
  <2>9. \A h \in Keys : h # k => jobs'[h] = jobs[h]
    BY <2>2, <2>7
  <2>10. \A h \in Keys : IsCompleted(h)' <=> IsCompleted(h)
    BY <2>2, <2>6, <2>8, <2>9 DEF IsCompleted
  <2>11. \A h \in Keys : IsCompleted(h) => jobs'[h] = jobs[h]
    BY <2>2, <2>9 DEF IsCompleted
  <2>12. IsRunning(k)'
    BY <2>6, <2>8 DEF IsRunning
  <2>13. ASSUME NEW t \in Sessions, t # s, pc[t] \in Owning
         PROVE  jobs'[work[t].key] = jobs[work[t].key] /\ work[t].key # k
    <3>1. IsRunning(work[t].key) /\ work[t].key \in Keys
      BY <2>13 DEF ImportInv, OneWorker, Owning
    <3>2. work[t].key # k
      BY <2>2, <3>1 DEF IsRunning
    <3> QED BY <2>9, <3>1, <3>2
  <2>14. orphans' \subseteq Keys
    BY <2>2 DEF ImportInv, ImportTypeOK
  <2>15. PICK place \in Places : place = "running" /\ place \notin Reading
    BY DEF Places, Reading
  <2>16. pc' = [pc EXCEPT ![s] = place] /\ UNCHANGED tables
    BY <2>2, <2>15
  <2>17. \A t \in Sessions : t # s /\ pc[t] \in Owning =>
           /\ jobs'[work[t].key] = jobs[work[t].key]
           /\ place \in Owning => work[t].key # w.key
    BY <2>5, <2>13
  <2>18. /\ place # "idle" => w.key \in Keys
         /\ place \in {"new key", "running"} => w = NoWork(w.key)
         /\ place \in Owning => IsRunning(w.key)'
         /\ place \in Reading => RowsSound(w) /\ CountsSound(w)
         /\ place = "complete" => QueuesSound(w)
    BY <2>5, <2>12, <2>15
  <2> QED BY <2>5, <2>8, <2>10, <2>11, <2>14, <2>16, <2>17, <2>18, QuietStep
<1> QED BY <1>1, <1>2

\* CommitFailed, which closes the job, keeps the invariant.
LEMMA CommitFailedKeeps ==
  ASSUME ImportInv, NEW s \in Sessions, CommitFailed(s)
  PROVE  ImportInv'
<1>1. PICK k \in Keys : k = work[s].key
  BY DEF CommitFailed, ImportInv, OneWorker
<1>2. jobs \in [Keys -> Jobs \cup {None}] /\ jobs[k] # None /\ jobs[k].status = "RUNNING"
  BY <1>1 DEF CommitFailed, ImportInv, ImportTypeOK, OneWorker, IsRunning, Owning
<1>3. PICK j \in Jobs : j = [jobs[k] EXCEPT !.status = "FAILED"]
  BY <1>2 DEF Jobs
<1>4. j.status = "FAILED" /\ j # None
  BY <1>2, <1>3, NoneAssumption DEF Jobs
<1>5. /\ jobs' = [jobs EXCEPT ![k] = j]
      /\ pc' = [pc EXCEPT ![s] = "idle"]
      /\ work' = [work EXCEPT ![s] = NoWork(None)]
      /\ UNCHANGED tables /\ orphans' \subseteq Keys
  BY <1>1, <1>3 DEF CommitFailed, End, GoTo, ImportInv, ImportTypeOK
<1>6. jobs' \in [Keys -> Jobs \cup {None}] /\ jobs'[k] = j
  BY <1>2, <1>5
<1>7. \A h \in Keys : h # k => jobs'[h] = jobs[h]
  BY <1>2, <1>5
<1>8. \A h \in Keys : IsCompleted(h)' <=> IsCompleted(h)
  <2>1. ~IsCompleted(k) /\ ~IsCompleted(k)'
    BY <1>2, <1>4, <1>6 DEF IsCompleted
  <2>2. \A h \in Keys : h # k => (IsCompleted(h)' <=> IsCompleted(h))
    BY <1>7 DEF IsCompleted
  <2> QED BY <2>1, <2>2
<1>9. \A h \in Keys : IsCompleted(h) => jobs'[h] = jobs[h]
  <2>1. ~IsCompleted(k)
    BY <1>2 DEF IsCompleted
  <2> QED BY <1>7, <2>1
<1>10. \A t \in Sessions : t # s /\ pc[t] \in Owning => jobs'[work[t].key] = jobs[work[t].key]
  <2> SUFFICES ASSUME NEW t \in Sessions, t # s, pc[t] \in Owning
               PROVE  work[t].key \in Keys /\ work[t].key # k
    BY <1>7
  <2>1. pc[s] \in Owning
    BY DEF CommitFailed, Owning
  <2> QED BY <1>1, <2>1 DEF ImportInv, OneWorker, Owning
<1>11. PICK w \in Works, place \in Places :
         w = NoWork(None) /\ place = "idle"
  BY NoWorkType DEF Places
<1>12. place \notin Owning /\ place \notin Reading
  BY <1>11 DEF Owning, Reading
<1>13. pc' = [pc EXCEPT ![s] = place] /\ work' = [work EXCEPT ![s] = w]
  BY <1>5, <1>11
<1>14. \A t \in Sessions : t # s /\ pc[t] \in Owning =>
         /\ jobs'[work[t].key] = jobs[work[t].key]
         /\ place \in Owning => work[t].key # w.key
  BY <1>10, <1>12
<1>15. /\ place # "idle" => w.key \in Keys
       /\ place \in {"new key", "running"} => w = NoWork(w.key)
       /\ place \in Owning => IsRunning(w.key)'
       /\ place \in Reading => RowsSound(w) /\ CountsSound(w)
       /\ place = "complete" => QueuesSound(w)
  BY <1>11, <1>12
<1>16. UNCHANGED tables /\ orphans' \subseteq Keys /\ jobs' \in [Keys -> Jobs \cup {None}]
  BY <1>5, <1>6
<1> QED BY <1>8, <1>9, <1>13, <1>14, <1>15, <1>16, QuietStep

\* The rows of a report are rows, one at every place from 1 to its length.
LEMMA RowsOfReport ==
  ASSUME NEW r \in Reports
  PROVE  /\ r.rows \in Seq(ReportRows)
         /\ Len(r.rows) \in Nat
         /\ DOMAIN r.rows = 1 .. Len(r.rows)
         /\ \A i \in 1 .. Len(r.rows) : r.rows[i] \in ReportRows
<1>1. r.rows \in Seq(ReportRows)
  BY ReportsAssumption
<1> QED BY <1>1, LenProperties, ElementOfSeq

\* Load, which reads the files, keeps the invariant.
LEMMA LoadKeeps ==
  ASSUME ImportInv, NEW s \in Sessions, NEW r \in Reports, Load(s, r)
  PROVE  ImportInv'
<1>1. PICK k \in Keys : k = work[s].key
  BY DEF Load, ImportInv, OneWorker
<1>2. work[s] = NoWork(k) /\ pc[s] = "running"
  BY <1>1 DEF Load, ImportInv, NotStarted
<1>3. Len(r.rows) \in Nat /\ DOMAIN r.rows = 1 .. Len(r.rows)
  BY RowsOfReport
<1>4. PICK w : w = [NoWork(k) EXCEPT !.report = r, !.counts.input = Len(r.rows)]
  OBVIOUS
<1>5. /\ w.key = k /\ w.report = r /\ w.next = 1
      /\ w.seen = [o \in Offers |-> None] /\ w.fresh = {} /\ w.links = {}
      /\ w.counts.input = Len(r.rows) /\ w.counts.created = 0
      /\ w.counts.existing = 0 /\ w.counts.links = 0
  BY <1>4 DEF NoWork, NoCounts
<1>6. w \in Works
  BY <1>3, <1>4 DEF NoWork, NoCounts, Works, Counts
<1>7. work' = [work EXCEPT ![s] = w]
  BY <1>2, <1>4 DEF Load, ImportInv, ImportTypeOK
<1>8. RowsSound(w)
  BY <1>3, <1>5 DEF RowsSound
<1>9. CountsSound(w)
  BY <1>3, <1>5, FS_EmptySet DEF CountsSound
<1>10. pc' = [pc EXCEPT ![s] = "rows"] /\ UNCHANGED <<jobs, tables>> /\ orphans' \subseteq Keys
  BY DEF Load, GoTo, ImportInv, ImportTypeOK
<1>11. pc[s] \in Owning /\ w.key = work[s].key
  BY <1>1, <1>2, <1>5 DEF Owning
<1> QED BY <1>5, <1>6, <1>7, <1>8, <1>9, <1>10, <1>11, LocalStep DEF Places

\* ReadQueues covers the queued rows and keeps the invariant.
LEMMA ReadQueuesKeeps ==
  ASSUME ImportInv, NEW s \in Sessions, ReadQueues(s)
  PROVE  ImportInv'
<1>1. pc[s] = "rows" /\ pc[s] \in Owning /\ pc[s] \in Reading
  BY DEF ReadQueues, Owning, Reading
<1>2. PICK v \in Works : v = work[s]
  BY DEF ImportInv, ImportTypeOK
<1>3. RowsSound(v) /\ CountsSound(v) /\ v.key \in Keys
  BY <1>1, <1>2 DEF ImportInv, WorkSound, OneWorker
<1>4. CASE \E o \in v.report.review \cup v.report.reference : Found(s, o) = None
  BY <1>1, <1>2, <1>4, FailKeeps DEF ReadQueues
<1>5. CASE ~ \E o \in v.report.review \cup v.report.reference : Found(s, o) = None
  <2>1. PICK w : w = [v EXCEPT !.reviews = v.report.review \ reviews,
                               !.tasks   = v.report.reference \ tasks]
    OBVIOUS
  <2>2. v.report \in Reports /\ v.report.review \subseteq Offers /\ v.report.reference \subseteq Offers
    BY <1>3, ReportsAssumption DEF RowsSound
  <2>3. w \in Works
    BY <2>1, <2>2 DEF Works
  <2>4. /\ w.key = v.key /\ w.report = v.report /\ w.next = v.next /\ w.seen = v.seen
        /\ w.fresh = v.fresh /\ w.links = v.links /\ w.counts = v.counts
        /\ w.reviews = v.report.review \ reviews /\ w.tasks = v.report.reference \ tasks
    BY <2>1 DEF Works
  <2>5. RowsSound(w)
    BY <1>3, <2>4 DEF RowsSound, LinkSound
  <2>6. CountsSound(w)
    BY <1>3, <2>4 DEF CountsSound
  <2>7. work' = [work EXCEPT ![s] = w] /\ pc' = [pc EXCEPT ![s] = "complete"]
    BY <1>2, <1>5, <2>1 DEF ReadQueues, GoTo, ImportInv, ImportTypeOK
  <2>8. QueuesSound(w)
    <3>1. Len(v.report.rows) \in Nat /\ DOMAIN v.report.rows = 1 .. Len(v.report.rows)
      BY <2>2, RowsOfReport
    <3>2. v.next \in Nat /\ v.next > 0 /\ v.next <= Len(v.report.rows) + 1
      BY <1>3 DEF CountsSound, Works
    <3>3. v.next \notin DOMAIN v.report.rows
      BY <1>2 DEF ReadQueues
    <3>4. w.next = Len(w.report.rows) + 1
      BY <2>4, <3>1, <3>2, <3>3
    <3>5. \A o \in w.reviews : offers[o] # None \/ o \in w.fresh
      <4> SUFFICES ASSUME NEW o \in Offers, o \in v.report.review, o \notin v.fresh
                   PROVE  offers[o] # None
        BY <2>2, <2>4
      <4>1. Found(s, o) # None
        BY <1>5
      <4>2. CASE v.seen[o] = None
        BY <1>2, <4>1, <4>2 DEF Found
      <4>3. CASE v.seen[o] # None
        <5>1. PICK l \in v.links : l.offer = o /\ LinkSound(v, l)
          BY <1>3, <4>3 DEF RowsSound
        <5> QED BY <5>1 DEF LinkSound
      <4> QED BY <4>2, <4>3
    <3> QED BY <2>4, <3>4, <3>5 DEF QueuesSound
  <2>9. UNCHANGED <<jobs, tables>> /\ orphans' \subseteq Keys
    BY DEF ReadQueues, ImportInv, ImportTypeOK
  <2>10. w.key \in Keys /\ w.key = work[s].key
    BY <1>2, <1>3, <2>4
  <2> QED BY <1>1, <2>3, <2>5, <2>6, <2>7, <2>8, <2>9, <2>10, LocalStep DEF Places
<1> QED BY <1>4, <1>5

\* ReadRow finds or adds the offer of one row and keeps the invariant.
LEMMA ReadRowKeeps ==
  ASSUME ImportInv, NEW s \in Sessions, ReadRow(s)
  PROVE  ImportInv'
<1>1. pc[s] = "rows" /\ pc[s] \in Owning /\ pc[s] \in Reading
  BY DEF ReadRow, Owning, Reading
<1>2. PICK v \in Works : v = work[s]
  BY DEF ImportInv, ImportTypeOK
<1>3. RowsSound(v) /\ CountsSound(v) /\ v.key \in Keys
  BY <1>1, <1>2 DEF ImportInv, WorkSound, OneWorker
<1>4. v.report \in Reports
  BY <1>3 DEF RowsSound
<1>5. /\ Len(v.report.rows) \in Nat
      /\ DOMAIN v.report.rows = 1 .. Len(v.report.rows)
      /\ \A i \in 1 .. Len(v.report.rows) : v.report.rows[i] \in ReportRows
  BY <1>4, RowsOfReport
<1>6. v.next \in 1 .. Len(v.report.rows)
  BY <1>2, <1>5 DEF ReadRow
<1>7. PICK row \in ReportRows : row = v.report.rows[v.next]
  BY <1>5, <1>6
<1>8. row.offer \in Offers /\ row.parsed \in Parsed
  BY DEF ReportRows
<1>9. PICK found : found = Found(s, row.offer)
  OBVIOUS
<1>10. PICK seen : seen = [parsed |-> row.parsed, decided |-> FALSE]
  OBVIOUS
<1>11. seen \in Payloads /\ seen # None
  <2>1. seen \in Payloads
    BY <1>8, <1>10 DEF Payloads
  <2> QED BY <2>1, NoneAssumption
<1>12. CASE found # None /\ Collides(found, row.parsed)
  BY <1>1, <1>2, <1>7, <1>9, <1>12, FailKeeps DEF ReadRow
<1>13. CASE ~ (found # None /\ Collides(found, row.parsed))
  <2>1. found # None => found = seen
    BY <1>10, <1>13 DEF Collides
  <2>2. v.seen[row.offer] # None => v.seen[row.offer] = found
    BY <1>2, <1>9 DEF Found
  <2>3. v.seen[row.offer] = None /\ found # None =>
          offers[row.offer] # None /\ offers[row.offer].payload = found
    BY <1>2, <1>9 DEF Found
  <2>4. row.offer \in v.fresh => v.seen[row.offer] # None
    BY <1>3 DEF RowsSound
  <2>5. PICK linked \in BOOLEAN : linked <=> \E l \in v.links : l.offer = row.offer
    OBVIOUS
  <2>6. v.seen[row.offer] # None => linked
    BY <1>3, <1>8, <2>5 DEF RowsSound
  <2>7. linked => v.seen[row.offer] # None
    <3> SUFFICES ASSUME NEW l \in v.links, l.offer = row.offer PROVE v.seen[row.offer] # None
      BY <2>5
    <3>1. l \in Links /\ LinkSound(v, l)
      BY <1>3 DEF Works, RowsSound
    <3>2. [parsed |-> l.parsed, decided |-> FALSE] \in Payloads
      BY <3>1 DEF Links, Payloads
    <3> QED BY <3>1, <3>2, NoneAssumption DEF LinkSound
  <2>8. PICK link : link = [job |-> v.key, offer |-> row.offer, parsed |-> row.parsed,
                            state |-> IF found = None THEN "CREATED" ELSE "EXISTING"]
    OBVIOUS
  <2>9. link \in Links
    BY <1>3, <1>8, <2>8 DEF Links
  <2>10. PICK w : w = [v EXCEPT !.next   = @ + 1,
                                !.seen   = [@ EXCEPT ![row.offer] = seen],
                                !.fresh  = IF found = None THEN @ \cup {row.offer} ELSE @,
                                !.links  = IF linked THEN @ ELSE @ \cup {link},
                                !.counts = CountRow(@, found = None, linked)]
    OBVIOUS
  <2>11. w = AfterRow(s, row)
    BY <1>2, <1>9, <1>10, <2>5, <2>8, <2>10 DEF AfterRow
  <2>12. /\ w.key = v.key /\ w.report = v.report /\ w.next = v.next + 1
         /\ w.seen = [v.seen EXCEPT ![row.offer] = seen]
         /\ w.fresh = IF found = None THEN v.fresh \cup {row.offer} ELSE v.fresh
         /\ w.links = IF linked THEN v.links ELSE v.links \cup {link}
         /\ w.counts = CountRow(v.counts, found = None, linked)
         /\ w.reviews = v.reviews /\ w.tasks = v.tasks
    BY <2>10 DEF Works
  <2>13. w.counts \in Counts
    <3>1. PICK c \in Counts : c = v.counts
      BY DEF Works
    <3>2. PICK m \in Nat : m = IF found = None THEN c.created + 1 ELSE c.created
      BY DEF Counts
    <3>3. PICK n \in Nat : n = IF found = None THEN c.existing ELSE c.existing + 1
      BY DEF Counts
    <3>4. PICK x \in Nat : x = IF linked THEN c.links ELSE c.links + 1
      BY DEF Counts
    <3>5. w.counts = [c EXCEPT !.created = m, !.existing = n, !.links = x]
      BY <2>12, <3>1, <3>2, <3>3, <3>4 DEF CountRow, Counts
    <3> QED BY <3>5 DEF Counts
  <2>14. w \in Works
    <3>1. w.seen \in [Offers -> Payloads \cup {None}]
      BY <1>8, <1>11, <2>12 DEF Works
    <3>2. w.fresh \in SUBSET Offers /\ w.links \in SUBSET Links /\ w.next \in Nat
      BY <1>8, <2>9, <2>12 DEF Works
    <3>3. w = [v EXCEPT !.next = w.next, !.seen = w.seen, !.fresh = w.fresh,
                        !.links = w.links, !.counts = w.counts]
      BY <2>10 DEF Works
    <3> QED BY <2>13, <3>1, <3>2, <3>3 DEF Works
  <2>15. /\ w.seen[row.offer] = seen
         /\ \A o \in Offers : o # row.offer => w.seen[o] = v.seen[o]
    BY <1>8, <2>12 DEF Works
  <2>16. RowsSound(w)
    <3>1. \A l \in w.links : LinkSound(w, l)
      <4>1. ASSUME NEW l \in v.links PROVE LinkSound(w, l)
        <5>1. l \in Links /\ LinkSound(v, l)
          BY <1>3 DEF Works, RowsSound
        <5>2. CASE l.offer = row.offer
          <6>1. found # None /\ v.seen[row.offer] = seen
            BY <2>1, <2>2, <2>5, <2>7, <5>2
          <6> QED BY <2>12, <2>15, <5>1, <5>2, <6>1 DEF LinkSound
        <5>3. CASE l.offer # row.offer
          BY <2>12, <2>15, <5>1, <5>3 DEF LinkSound, Links
        <5> QED BY <5>2, <5>3
      <4>2. ASSUME ~linked PROVE LinkSound(w, link)
        <5>1. v.seen[row.offer] = None /\ row.offer \notin v.fresh
          BY <2>4, <2>6, <4>2
        <5>2. w.seen[link.offer] = [parsed |-> link.parsed, decided |-> FALSE]
          BY <1>10, <2>8, <2>15
        <5>3. link.state = "CREATED" <=> link.offer \in w.fresh
          BY <2>8, <2>12, <5>1
        <5>4. link.offer \notin w.fresh =>
                offers[link.offer] # None /\ offers[link.offer].payload.parsed = link.parsed
          BY <1>10, <2>1, <2>3, <2>8, <2>12, <5>1
        <5> QED BY <2>8, <2>12, <5>2, <5>3, <5>4 DEF LinkSound
      <4> QED BY <2>12, <4>1, <4>2
    <3>2. \E l \in w.links : l.offer = row.offer
      BY <2>5, <2>8, <2>12
    <3>3. \A o \in Offers : w.seen[o] # None => \E l \in w.links : l.offer = o
      BY <1>3, <2>12, <2>15, <3>2 DEF RowsSound
    <3>4. \A o \in w.fresh : w.seen[o] # None
      BY <1>3, <1>11, <2>12, <2>15 DEF RowsSound, Works
    <3>5. ASSUME NEW i \in DOMAIN w.report.rows, i < w.next
          PROVE  \E l \in w.links : l.offer = w.report.rows[i].offer
      <4>1. CASE i = v.next
        BY <1>7, <2>12, <3>2, <4>1
      <4>2. CASE i # v.next
        <5>1. i \in DOMAIN v.report.rows /\ i < v.next
          BY <1>5, <1>6, <2>12, <3>5, <4>2
        <5>2. \E l \in v.links : l.offer = v.report.rows[i].offer
          BY <1>3, <5>1 DEF RowsSound
        <5> QED BY <2>12, <5>2
      <4> QED BY <4>1, <4>2
    <3> QED BY <1>4, <2>12, <3>1, <3>3, <3>4, <3>5 DEF RowsSound
  <2>17. CountsSound(w)
    <3>1. /\ w.counts.input = v.counts.input
          /\ w.counts.created = IF found = None THEN v.counts.created + 1 ELSE v.counts.created
          /\ w.counts.existing = IF found = None THEN v.counts.existing ELSE v.counts.existing + 1
          /\ w.counts.links = IF linked THEN v.counts.links ELSE v.counts.links + 1
      BY <2>12 DEF CountRow, Works, Counts
    <3>2. /\ v.counts.created \in Nat /\ v.counts.existing \in Nat /\ v.counts.links \in Nat
          /\ v.next \in Nat
      BY DEF Works, Counts
    <3>3. IsFiniteSet(w.links) /\ w.counts.links = Cardinality(w.links)
      <4>1. ~linked => link \notin v.links
        BY <2>5, <2>8
      <4>2. IsFiniteSet(v.links) /\ v.counts.links = Cardinality(v.links)
        BY <1>3 DEF CountsSound
      <4>3. ~linked => IsFiniteSet(v.links \cup {link})
                       /\ Cardinality(v.links \cup {link}) = Cardinality(v.links) + 1
        BY <4>1, <4>2, FS_AddElement
      <4> QED BY <2>12, <3>1, <4>2, <4>3
    <3>4. IsFiniteSet(w.fresh) /\ w.counts.created = Cardinality(w.fresh)
      <4>1. found = None => row.offer \notin v.fresh
        BY <2>2, <2>4
      <4>2. IsFiniteSet(v.fresh) /\ v.counts.created = Cardinality(v.fresh)
        BY <1>3 DEF CountsSound
      <4>3. found = None => IsFiniteSet(v.fresh \cup {row.offer})
                            /\ Cardinality(v.fresh \cup {row.offer}) = Cardinality(v.fresh) + 1
        BY <4>1, <4>2, FS_AddElement
      <4> QED BY <2>12, <3>1, <4>2, <4>3
    <3>5. w.counts.created + w.counts.existing + 1 = w.next
      BY <1>3, <2>12, <3>1, <3>2 DEF CountsSound
    <3>6. w.next > 0 /\ w.next <= Len(w.report.rows) + 1
      BY <1>5, <1>6, <2>12
    <3>7. w.counts.input = Len(w.report.rows)
      BY <1>3, <2>12, <3>1 DEF CountsSound
    <3> QED BY <3>3, <3>4, <3>5, <3>6, <3>7 DEF CountsSound
  <2>18. work' = [work EXCEPT ![s] = w] /\ pc' = [pc EXCEPT ![s] = "rows"]
    BY <1>1, <1>2, <1>7, <1>9, <1>13, <2>11 DEF ReadRow, ImportInv, ImportTypeOK
  <2>19. UNCHANGED <<jobs, tables>> /\ orphans' \subseteq Keys
    BY DEF ReadRow, ImportInv, ImportTypeOK
  <2>20. w.key \in Keys /\ w.key = work[s].key
    BY <1>2, <1>3, <2>12
  <2> QED BY <1>1, <2>14, <2>16, <2>17, <2>18, <2>19, <2>20, LocalStep DEF Places
<1> QED BY <1>12, <1>13

\* What a commit without a conflict leaves behind.
LEMMA CommitKeeps ==
  ASSUME ImportInv, NEW s \in Sessions, Commit(s)
  PROVE  ImportInv'
<1>1. pc[s] = "complete" /\ pc[s] \in Owning /\ pc[s] \in Reading
  BY DEF Commit, Owning, Reading
<1>2. PICK v \in Works : v = work[s]
  BY DEF ImportInv, ImportTypeOK
<1>3. PICK k \in Keys : k = v.key /\ k = work[s].key
  BY <1>1, <1>2 DEF ImportInv, OneWorker
<1>4. RowsSound(v) /\ CountsSound(v) /\ QueuesSound(v)
  BY <1>1, <1>2 DEF ImportInv, WorkSound
<1>5. CASE Conflict(s)
  BY <1>1, <1>5, FailKeeps DEF Commit
<1>6. CASE ~Conflict(s)
  <2>1. PICK j : j = [status |-> "COMPLETED", counts |-> v.counts, report |-> v.report]
    OBVIOUS
  <2>2. /\ offers' = [o \in Offers |-> IF o \in v.fresh
                                       THEN [payload |-> v.seen[o], job |-> k] ELSE offers[o]]
        /\ links' = links \cup v.links
        /\ reviews' = reviews \cup v.reviews
        /\ tasks' = tasks \cup v.tasks
        /\ audit' = audit \cup {k}
        /\ jobs' = [jobs EXCEPT ![k] = j]
        /\ pc' = [pc EXCEPT ![s] = "idle"]
        /\ work' = [work EXCEPT ![s] = NoWork(None)]
        /\ orphans' = orphans
    BY <1>2, <1>3, <1>6, <2>1 DEF Commit, InsertRows, End, GoTo
  <2>3. /\ jobs \in [Keys -> Jobs \cup {None}] /\ offers \in [Offers -> Stored \cup {None}]
        /\ links \subseteq Links /\ reviews \subseteq Offers /\ tasks \subseteq Offers
        /\ audit \subseteq Keys
    BY DEF ImportInv, ImportTypeOK
  <2>4. j \in Jobs /\ j # None /\ j.status = "COMPLETED" /\ j.report = v.report /\ j.counts = v.counts
    <3>1. j \in Jobs
      BY <1>4, <2>1 DEF Jobs, Works, RowsSound
    <3> QED BY <2>1, <3>1, NoneAssumption
  <2>5. jobs'[k] = j /\ \A h \in Keys : h # k => jobs'[h] = jobs[h]
    BY <2>2, <2>3
  <2>6. IsRunning(k) /\ ~IsCompleted(k)
    BY <1>1, <1>3 DEF ImportInv, OneWorker, IsRunning, IsCompleted
  <2>7. IsCompleted(k)' /\ \A h \in Keys : h # k => (IsCompleted(h)' <=> IsCompleted(h))
    BY <2>4, <2>5 DEF IsCompleted
  <2>8. \A o \in v.fresh : /\ o \in Offers /\ offers[o] = None /\ v.seen[o] \in Payloads
    BY <1>2, <1>4, <1>6 DEF Conflict, RowsSound, Works
  <2>9. /\ \A o \in v.fresh : /\ offers'[o] = [payload |-> v.seen[o], job |-> k]
                              /\ offers'[o] \in Stored /\ offers'[o] # None
        /\ \A o \in Offers : o \notin v.fresh => offers'[o] = offers[o]
        /\ \A o \in Offers : offers[o] # None => offers'[o] = offers[o]
    <3>1. \A o \in v.fresh : offers'[o] = [payload |-> v.seen[o], job |-> k]
      BY <2>2, <2>8
    <3>2. ASSUME NEW o \in v.fresh PROVE offers'[o] \in Stored
      <4>1. PICK p \in Payloads : p = v.seen[o]
        BY <2>8
      <4>2. offers'[o] = [payload |-> p, job |-> k]
        BY <3>1, <4>1
      <4> QED BY <4>2 DEF Stored
    <3>3. \A o \in v.fresh : offers'[o] # None
      BY <3>2, NoneAssumption
    <3> QED BY <2>2, <2>8, <3>1, <3>2, <3>3
  <2>10. \A l \in v.links : /\ l \in Links /\ l.offer \in Offers /\ l.job = k /\ LinkSound(v, l)
    BY <1>3, <1>4 DEF RowsSound, LinkSound, Works, Links
  <2>11. \A l \in links : /\ l.job \in Keys /\ l.job # k /\ l.offer \in Offers
                          /\ IsCompleted(l.job)
    BY <2>3, <2>6 DEF ImportInv, AllOrNothing, Links
  <2>12. \A o \in Offers : offers[o] # None => offers[o].job \in Keys /\ offers[o].job # k
    BY <2>11 DEF ImportInv, AllOrNothing
  <2>13. TablesGrow
    BY <2>2, <2>9 DEF TablesGrow
  <2>14. ImportTypeOK'
    <3>1. jobs' \in [Keys -> Jobs \cup {None}]
      BY <2>2, <2>3, <2>4
    <3>2. offers' \in [Offers -> Stored \cup {None}]
      BY <2>2, <2>3, <2>9
    <3>3. /\ links' \subseteq Links /\ reviews' \subseteq Offers /\ tasks' \subseteq Offers
          /\ audit' \subseteq Keys
      BY <2>2, <2>3, <2>10 DEF Works
    <3>4. pc' \in [Sessions -> Places] /\ orphans' \subseteq Keys
      BY <2>2 DEF ImportInv, ImportTypeOK, Places
    <3>5. work' \in [Sessions -> Works]
      BY <2>2, NoWorkType DEF ImportInv, ImportTypeOK
    <3> QED BY <3>1, <3>2, <3>3, <3>4, <3>5 DEF ImportTypeOK
  <2>15. AllOrNothing'
    <3>1. \A l \in links' : IsCompleted(l.job)'
      BY <2>2, <2>7, <2>10, <2>11
    <3>2. audit' = {h \in Keys : IsCompleted(h)'}
      BY <2>2, <2>7 DEF ImportInv, AllOrNothing
    <3>3. ASSUME NEW o \in Offers, offers'[o] # None
          PROVE  \E l \in links' : l.offer = o /\ l.job = offers'[o].job /\ l.state = "CREATED"
      <4>1. CASE o \in v.fresh
        <5>1. PICK l \in v.links : l.offer = o
          BY <1>4, <4>1 DEF RowsSound, Works
        <5>2. l.job = k /\ l.state = "CREATED"
          BY <2>10, <4>1, <5>1 DEF LinkSound
        <5> QED BY <2>2, <2>9, <4>1, <5>1, <5>2
      <4>2. CASE o \notin v.fresh
        <5>1. \E l \in links : l.offer = o /\ l.job = offers[o].job /\ l.state = "CREATED"
          BY <2>9, <3>3, <4>2 DEF ImportInv, AllOrNothing
        <5> QED BY <2>2, <2>9, <4>2, <5>1
      <4> QED BY <4>1, <4>2
    <3>4. ASSUME NEW h \in Keys, IsCompleted(h)'
          PROVE  /\ \A i \in DOMAIN jobs'[h].report.rows :
                      \E l \in links' : l.job = h /\ l.offer = jobs'[h].report.rows[i].offer
                 /\ jobs'[h].report.review \subseteq reviews'
                 /\ jobs'[h].report.reference \subseteq tasks'
      <4>1. PICK r : r = jobs'[h].report
        OBVIOUS
      <4>2. CASE h = k
        <5>1. r = v.report
          BY <2>4, <2>5, <4>1, <4>2
        <5>2. ASSUME NEW i \in DOMAIN r.rows
              PROVE  \E l \in links' : l.job = h /\ l.offer = r.rows[i].offer
          <6>1. i < v.next
            BY <1>4, <5>1, <5>2, RowsOfReport DEF RowsSound, QueuesSound
          <6>2. \E l \in v.links : l.offer = r.rows[i].offer
            BY <1>4, <5>1, <5>2, <6>1 DEF RowsSound
          <6> QED BY <2>2, <2>10, <4>2, <6>2
        <5>3. r.review \subseteq reviews' /\ r.reference \subseteq tasks'
          BY <1>4, <2>2, <5>1 DEF QueuesSound
        <5> QED BY <4>1, <5>2, <5>3
      <4>3. CASE h # k
        <5>1. IsCompleted(h) /\ r = jobs[h].report
          BY <2>5, <2>7, <3>4, <4>1, <4>3
        <5>2. AllOrNothing
          BY DEF ImportInv
        <5>3. /\ \A i \in DOMAIN jobs[h].report.rows :
                   \E l \in links : l.job = h /\ l.offer = jobs[h].report.rows[i].offer
              /\ jobs[h].report.review \subseteq reviews
              /\ jobs[h].report.reference \subseteq tasks
          BY <5>1, <5>2, Zenon DEF AllOrNothing
        <5>4. /\ \A i \in DOMAIN r.rows : \E l \in links : l.job = h /\ l.offer = r.rows[i].offer
              /\ r.review \subseteq reviews /\ r.reference \subseteq tasks
          BY <5>1, <5>3, Zenon
        <5> QED BY <2>2, <4>1, <5>4
      <4> QED BY <4>2, <4>3
    <3> QED BY <3>1, <3>2, <3>3, <3>4 DEF AllOrNothing
  <2>16. LinksAreTrue'
    <3> SUFFICES ASSUME NEW l \in links'
                 PROVE  /\ offers'[l.offer] # None
                        /\ offers'[l.offer].payload.parsed = l.parsed
                        /\ l.state = "CREATED" <=> l.job = offers'[l.offer].job
      BY DEF LinksAreTrue
    <3>1. CASE l \in links
      <4>1. /\ offers[l.offer] # None
            /\ offers[l.offer].payload.parsed = l.parsed
            /\ l.state = "CREATED" <=> l.job = offers[l.offer].job
        BY <3>1 DEF ImportInv, LinksAreTrue
      <4> QED BY <2>9, <2>11, <3>1, <4>1
    <3>2. CASE l \in v.links /\ l.offer \in v.fresh
      <4>1. offers'[l.offer] = [payload |-> v.seen[l.offer], job |-> k] /\ offers'[l.offer] # None
        BY <2>9, <3>2
      <4>2. l.job = k /\ LinkSound(v, l)
        BY <2>10, <3>2
      <4>3. l.state = "CREATED" /\ v.seen[l.offer] = [parsed |-> l.parsed, decided |-> FALSE]
        BY <3>2, <4>2, Zenon DEF LinkSound
      <4> QED BY <4>1, <4>2, <4>3
    <3>3. CASE l \in v.links /\ l.offer \notin v.fresh
      <4>1. /\ offers[l.offer] # None /\ offers[l.offer].payload.parsed = l.parsed
            /\ l.job = k /\ l.state # "CREATED" /\ l.offer \in Offers
        BY <2>10, <3>3 DEF LinkSound
      <4>2. offers'[l.offer] = offers[l.offer] /\ offers[l.offer].job # k
        BY <2>9, <2>12, <4>1
      <4> QED BY <4>1, <4>2
    <3> QED BY <2>2, <3>1, <3>2, <3>3
  <2>17. CountsAreTrue'
    <3> SUFFICES ASSUME NEW h \in Keys, IsCompleted(h)'
                 PROVE  LET c == jobs'[h].counts
                        IN  /\ c.input = Len(jobs'[h].report.rows)
                            /\ c.created + c.existing = c.input
                            /\ c.links = Cardinality({l \in links' : l.job = h})
                            /\ c.created =
                                 Cardinality({o \in Offers : offers'[o] # None /\ offers'[o].job = h})
      BY DEF CountsAreTrue
    <3>1. CASE h = k
      <4>1. {l \in links' : l.job = h} = v.links
        BY <2>2, <2>10, <2>11, <3>1
      <4>2. {o \in Offers : offers'[o] # None /\ offers'[o].job = h} = v.fresh
        <5>1. \A o \in v.fresh : o \in Offers /\ offers'[o] # None /\ offers'[o].job = h
          <6> SUFFICES ASSUME NEW o \in v.fresh
                       PROVE  o \in Offers /\ offers'[o] # None /\ offers'[o].job = k
            BY <3>1
          <6>1. offers'[o] = [payload |-> v.seen[o], job |-> k] /\ offers'[o] # None
            BY <2>9
          <6> QED BY <2>8, <6>1
        <5>2. \A o \in Offers : o \notin v.fresh => ~(offers'[o] # None /\ offers'[o].job = h)
          BY <2>9, <2>12, <3>1
        <5> QED BY <5>1, <5>2
      <4>3. /\ v.counts.input = Len(v.report.rows)
            /\ v.counts.created + v.counts.existing = v.counts.input
            /\ v.counts.links = Cardinality(v.links)
            /\ v.counts.created = Cardinality(v.fresh)
        <5>1. Len(v.report.rows) \in Nat /\ v.counts \in Counts
          BY <1>4, RowsOfReport DEF RowsSound, Works
        <5> QED BY <1>4, <5>1 DEF CountsSound, QueuesSound, Counts
      <4> QED BY <2>4, <2>5, <3>1, <4>1, <4>2, <4>3
    <3>2. CASE h # k
      <4>1. IsCompleted(h) /\ jobs'[h] = jobs[h]
        BY <2>5, <2>7, <3>2
      <4>2. {l \in links' : l.job = h} = {l \in links : l.job = h}
        BY <2>2, <2>10, <3>2
      <4>3. {o \in Offers : offers'[o] # None /\ offers'[o].job = h}
              = {o \in Offers : offers[o] # None /\ offers[o].job = h}
        <5>1. ASSUME NEW o \in v.fresh PROVE offers[o] = None /\ offers'[o].job # h
          <6>1. offers'[o] = [payload |-> v.seen[o], job |-> k]
            BY <2>9
          <6> QED BY <2>8, <3>2, <6>1
        <5>2. \A o \in Offers : (offers'[o] # None /\ offers'[o].job = h)
                                <=> (offers[o] # None /\ offers[o].job = h)
          BY <2>9, <5>1
        <5> QED BY <5>2
      <4> QED BY <4>1, <4>2, <4>3 DEF ImportInv, CountsAreTrue
    <3> QED BY <3>1, <3>2
  <2>18. ReviewedAreThere'
    <3>1. \A o \in reviews : o \in Offers /\ offers[o] # None
      BY <2>3 DEF ImportInv, ReviewedAreThere
    <3>2. \A o \in v.reviews : o \in Offers /\ (offers[o] # None \/ o \in v.fresh)
      BY <1>4 DEF QueuesSound, Works
    <3> QED BY <2>2, <2>9, <3>1, <3>2 DEF ReviewedAreThere
  <2>19. PICK w \in Works, place \in Places : w = NoWork(None) /\ place = "idle"
    BY NoWorkType DEF Places
  <2>20. pc' = [pc EXCEPT ![s] = place] /\ work' = [work EXCEPT ![s] = w]
    BY <2>2, <2>19
  <2>21. place \notin Owning /\ place \notin Reading
    BY <2>19 DEF Owning, Reading
  <2>22. /\ place # "idle" => w.key \in Keys
         /\ place \in {"new key", "running"} => w = NoWork(w.key)
         /\ place \in Owning => IsRunning(w.key)'
         /\ place \in Reading => RowsSound(w)' /\ CountsSound(w)
         /\ place = "complete" => QueuesSound(w)'
    BY <2>19, <2>21
  <2>23. \A t \in Sessions : t # s /\ pc[t] \in Owning =>
           /\ jobs'[work[t].key] = jobs[work[t].key]
           /\ place \in Owning => work[t].key # w.key
    <3>1. \A t \in Sessions : t # s /\ pc[t] \in Owning => work[t].key \in Keys /\ work[t].key # k
      BY <1>1, <1>3 DEF ImportInv, OneWorker, Owning
    <3> QED BY <2>5, <2>21, <3>1
  <2> QED BY <2>13, <2>14, <2>15, <2>16, <2>17, <2>18, <2>20, <2>22, <2>23, StepOfSession
<1> QED BY <1>5, <1>6

\* A decision applied to an offer meanwhile keeps the invariant.
LEMMA ApplyDecisionKeeps ==
  ASSUME ImportInv, NEW o \in Offers, ApplyDecision(o)
  PROVE  ImportInv'
<1>1. offers[o] # None /\ offers \in [Offers -> Stored \cup {None}]
  BY DEF ApplyDecision, ImportInv, ReviewedAreThere, ImportTypeOK
<1>2. PICK old \in Stored : old = offers[o]
  BY <1>1
<1>3. PICK new : new = [old EXCEPT !.payload.decided = TRUE]
  OBVIOUS
<1>4. /\ new.job = old.job /\ new.payload.parsed = old.payload.parsed
      /\ new.payload.decided
  BY <1>3 DEF Stored, Payloads
<1>5. new \in Stored
  BY <1>3 DEF Stored, Payloads
<1>6. new # None
  BY <1>5, NoneAssumption
<1>7. /\ jobs' = jobs /\ links' = links /\ reviews' = reviews /\ tasks' = tasks
      /\ audit' = audit /\ pc' = pc /\ work' = work /\ orphans' = orphans
      /\ offers' = [offers EXCEPT ![o] = new]
  BY <1>2, <1>3 DEF ApplyDecision
<1>8. offers'[o] = new /\ \A q \in Offers : q # o => offers'[q] = offers[q]
  BY <1>1, <1>7
<1>9. \A q \in Offers : /\ offers'[q] # None <=> offers[q] # None
                        /\ offers[q] # None => /\ offers'[q].job = offers[q].job
                                               /\ offers'[q].payload.parsed = offers[q].payload.parsed
  BY <1>1, <1>2, <1>4, <1>6, <1>8
<1>10. TablesGrow
  BY <1>7, <1>9 DEF TablesGrow
<1>11. ImportTypeOK'
  BY <1>5, <1>7 DEF ImportInv, ImportTypeOK
<1>12. \A k \in Keys : IsCompleted(k)' <=> IsCompleted(k)
  BY <1>7 DEF IsCompleted
<1>13. \A l \in links : l.offer \in Offers /\ l.job \in Keys
  BY DEF ImportInv, ImportTypeOK, Links
<1>14. AllOrNothing'
  <2>1. \A l \in links' : IsCompleted(l.job)'
    BY <1>7, <1>12, <1>13 DEF ImportInv, AllOrNothing
  <2>2. audit' = {k \in Keys : IsCompleted(k)'}
    BY <1>7, <1>12 DEF ImportInv, AllOrNothing
  <2>3. \A q \in Offers : offers'[q] # None =>
          \E l \in links' : l.offer = q /\ l.job = offers'[q].job /\ l.state = "CREATED"
    BY <1>7, <1>9 DEF ImportInv, AllOrNothing
  <2>4. \A k \in Keys : IsCompleted(k)' =>
          /\ \A i \in DOMAIN jobs'[k].report.rows :
               \E l \in links' : l.job = k /\ l.offer = jobs'[k].report.rows[i].offer
          /\ jobs'[k].report.review \subseteq reviews'
          /\ jobs'[k].report.reference \subseteq tasks'
    <3>1. AllOrNothing
      BY DEF ImportInv
    <3> QED BY <1>7, <1>12, <3>1 DEF AllOrNothing
  <2> QED BY <2>1, <2>2, <2>3, <2>4 DEF AllOrNothing
<1>15. LinksAreTrue'
  BY <1>7, <1>9, <1>13 DEF ImportInv, LinksAreTrue
<1>16. CountsAreTrue'
  <2>1. \A k \in Keys : {q \in Offers : offers'[q] # None /\ offers'[q].job = k}
                          = {q \in Offers : offers[q] # None /\ offers[q].job = k}
    BY <1>9
  <2> QED BY <1>7, <1>12, <2>1 DEF ImportInv, CountsAreTrue
<1>17. OneWorker' /\ NotStarted'
  BY <1>7 DEF ImportInv, OneWorker, IsRunning, NotStarted
<1>18. ReviewedAreThere'
  BY <1>7, <1>9 DEF ImportInv, ReviewedAreThere, ImportTypeOK
<1>19. WorkSound'
  <2> SUFFICES ASSUME NEW s \in Sessions
               PROVE  /\ pc[s] \in Reading => RowsSound(work[s])' /\ CountsSound(work[s])'
                      /\ pc[s] = "complete" => QueuesSound(work[s])'
    BY <1>7 DEF WorkSound
  <2>1. PICK v \in Works : v = work[s] /\ v = work'[s]
    BY <1>7 DEF ImportInv, ImportTypeOK
  <2>2. /\ pc[s] \in Reading => RowsSound(v) /\ CountsSound(v)
        /\ pc[s] = "complete" => QueuesSound(v)
    BY <2>1 DEF ImportInv, WorkSound
  <2>3. /\ RowsSound(v) => RowsSound(v)'
        /\ QueuesSound(v) => QueuesSound(v)'
    BY <1>10, SoundnessKept
  <2> QED BY <2>1, <2>2, <2>3
<1> QED BY <1>11, <1>14, <1>15, <1>16, <1>17, <1>18, <1>19 DEF ImportInv

-----------------------------------------------------------------------------
(***************************************************************************)
(* The theorems.                                                           *)
(***************************************************************************)
LEMMA InitImport == Init => ImportInv
<1> SUFFICES ASSUME Init PROVE ImportInv
  OBVIOUS
<1>1. ImportTypeOK
  BY NoWorkType DEF Init, ImportTypeOK, Places
<1>2. AllOrNothing /\ LinksAreTrue /\ CountsAreTrue /\ ReviewedAreThere
  BY DEF Init, AllOrNothing, LinksAreTrue, CountsAreTrue, ReviewedAreThere, IsCompleted
<1>3. OneWorker /\ WorkSound
  BY DEF Init, OneWorker, WorkSound, Owning, Reading
<1>4. NotStarted
  BY DEF Init, NotStarted
<1> QED BY <1>1, <1>2, <1>3, <1>4 DEF ImportInv

\* Every step of a session keeps the invariant.
LEMMA StepKeeps ==
  ASSUME ImportInv, NEW s \in Sessions, Step(s)
  PROVE  ImportInv'
<1>1. CASE CommitRunning(s)
  BY <1>1, CommitRunningKeeps
<1>2. CASE \E r \in Reports : Load(s, r)
  BY <1>2, LoadKeeps
<1>3. CASE ReadRow(s)
  BY <1>3, ReadRowKeeps
<1>4. CASE ReadQueues(s)
  BY <1>4, ReadQueuesKeeps
<1>5. CASE Commit(s)
  BY <1>5, CommitKeeps
<1>6. CASE Fail(s)
  BY <1>6, FailKeeps DEF Fail, Owning
<1>7. CASE CommitFailed(s)
  BY <1>7, CommitFailedKeeps
<1> QED BY <1>1, <1>2, <1>3, <1>4, <1>5, <1>6, <1>7 DEF Step

\* Every step keeps the invariant.
LEMMA NextKeeps == ImportInv /\ [Next]_vars => ImportInv'
<1> SUFFICES ASSUME ImportInv, [Next]_vars PROVE ImportInv'
  OBVIOUS
<1>1. CASE \E s \in Sessions, k \in Keys : Start(s, k)
  BY <1>1, StartKeeps
<1>2. CASE \E s \in Sessions : Step(s)
  BY <1>2, StepKeeps
<1>3. CASE \E s \in Sessions : Crash(s)
  BY <1>3, CrashKeeps
<1>4. CASE \E o \in Offers : ApplyDecision(o)
  BY <1>4, ApplyDecisionKeeps
<1>5. CASE UNCHANGED vars
  BY <1>5, NothingChanges
<1> QED BY <1>1, <1>2, <1>3, <1>4, <1>5 DEF Next

\* The invariant is inductive, so every reachable state satisfies it.
THEOREM ImportInvariant == Spec => []ImportInv
<1> QED BY InitImport, NextKeeps, PTL DEF Spec

\* Every table, and what every import holds, has its type.
THEOREM ImportTypeCorrect == Spec => []ImportTypeOK
<1>1. ImportInv => ImportTypeOK
  BY DEF ImportInv
<1> QED BY <1>1, ImportInvariant, PTL

\* import_pilot_report leaves nothing of a job that did not complete, and the
\* whole report of one that did.
THEOREM ImportIsAtomic == Spec => []AllOrNothing
<1>1. ImportInv => AllOrNothing
  BY DEF ImportInv
<1> QED BY <1>1, ImportInvariant, PTL

\* import_job_offers tells who created an offer and what the report said of it.
THEOREM LinksTellTheTruth == Spec => []LinksAreTrue
<1>1. ImportInv => LinksAreTrue
  BY DEF ImportInv
<1> QED BY <1>1, ImportInvariant, PTL

\* counts_json agrees with the rows a completed job left behind.
THEOREM CountsTellTheTruth == Spec => []CountsAreTrue
<1>1. ImportInv => CountsAreTrue
  BY DEF ImportInv
<1> QED BY <1>1, ImportInvariant, PTL

\* No step of any import, and no decision, takes an offer away or rewrites what
\* was imported.
THEOREM ImportKeepsOffers == Spec => OffersAreKept
<1> DEFINE Kept == \A o \in Offers : offers[o] # None =>
                     /\ offers'[o] # None
                     /\ offers'[o].job = offers[o].job
                     /\ offers'[o].payload.parsed = offers[o].payload.parsed
                     /\ offers[o].payload.decided => offers'[o].payload.decided
<1>1. ImportInv /\ [Next]_vars => [Kept]_offers
  <2> SUFFICES ASSUME ImportInv, [Next]_vars, offers' # offers PROVE Kept
    OBVIOUS
  <2>1. offers \in [Offers -> Stored \cup {None}]
    BY DEF ImportInv, ImportTypeOK
  <2>2. ASSUME NEW s \in Sessions, NEW k \in Keys, Start(s, k) PROVE FALSE
    BY <2>2 DEF Start, tables
  <2>3. ASSUME NEW s \in Sessions, Crash(s) PROVE FALSE
    BY <2>3 DEF Crash, tables
  <2>4. ASSUME NEW s \in Sessions, Step(s) PROVE Kept
    <3>1. ~ \/ CommitRunning(s)
            \/ \E r \in Reports : Load(s, r)
            \/ ReadRow(s)
            \/ ReadQueues(s)
            \/ Fail(s)
            \/ CommitFailed(s)
      BY DEF CommitRunning, Load, ReadRow, ReadQueues, Fail, CommitFailed, tables
    <3>2. Commit(s) /\ ~Conflict(s)
      BY <2>4, <3>1 DEF Step, Commit, tables
    <3>3. /\ \A o \in work[s].fresh : offers[o] = None
          /\ \A o \in Offers : o \notin work[s].fresh => offers'[o] = offers[o]
      BY <3>2 DEF Commit, Conflict, InsertRows
    <3> QED BY <3>3
  <2>5. ASSUME NEW o \in Offers, ApplyDecision(o) PROVE Kept
    <3>1. o \in reviews /\ offers[o] # None
      BY <2>5 DEF ApplyDecision, ImportInv, ReviewedAreThere
    <3>2. PICK old \in Stored : old = offers[o]
      BY <2>1, <3>1
    <3>3. PICK new : new = [old EXCEPT !.payload.decided = TRUE]
      OBVIOUS
    <3>4. new \in Stored /\ new.job = old.job /\ new.payload.parsed = old.payload.parsed
          /\ new.payload.decided
      BY <3>3 DEF Stored, Payloads
    <3>5. new # None
      BY <3>4, NoneAssumption
    <3>6. offers' = [offers EXCEPT ![o] = new]
      BY <2>5, <3>2, <3>3 DEF ApplyDecision
    <3>7. offers'[o] = new /\ \A q \in Offers : q # o => offers'[q] = offers[q]
      BY <2>1, <3>6
    <3> QED BY <3>2, <3>4, <3>5, <3>7
  <2>6. ~ UNCHANGED vars
    BY DEF vars
  <2> QED BY <2>2, <2>3, <2>4, <2>5, <2>6 DEF Next
<1> QED BY <1>1, ImportInvariant, PTL DEF Spec, OffersAreKept
=============================================================================
