--------------------------- MODULE FolderRunProofs ---------------------------
(***************************************************************************)
(* What a run over a folder may change, apply and report, proved of        *)
(* FolderRun for every folder, every answer of a model and every run.      *)
(***************************************************************************)
EXTENDS FolderRun, NaturalLemmas, SequenceTheorems, FiniteSetTheorems

-----------------------------------------------------------------------------
\* What Only keeps.  Its table, built from the left, exists, and holds in entry n what
\* the first n elements give.
OnlyTable(f, s, T, m) ==
  f = [n \in 0..m |-> IF n = 0 THEN <<>>
                      ELSE f[n - 1] \o IF s[n] \in T THEN <<s[n]>> ELSE <<>>]

\* There is such a table for every length, so Only has one.
LEMMA OnlyTableExists ==
  ASSUME NEW s, NEW T, NEW N \in Nat
  PROVE  \E f : OnlyTable(f, s, T, N)
<1> DEFINE Bad == {m \in 0..N : ~ \E f : OnlyTable(f, s, T, m)}
<1>1. Bad # {} => FALSE
  <2> SUFFICES ASSUME Bad # {} PROVE FALSE
    OBVIOUS
  <2>1. Bad \in SUBSET Nat
    OBVIOUS
  <2>2. PICK m \in Bad : \A k \in Bad : m <= k
    <3> HIDE DEF Bad
    <3> QED BY <2>1, LeastExists
  <2>3. m \in 0..N
    OBVIOUS
  <2>4. CASE m = 0
    <3> DEFINE f == [n \in 0..0 |-> <<>>]
    <3>1. OnlyTable(f, s, T, 0)
      BY DEF OnlyTable
    <3> QED BY <3>1, <2>4
  <2>5. CASE m # 0
    <3>1. m - 1 \in 0..N /\ m - 1 < m
      BY <2>3, <2>5
    <3>2. PICK f : OnlyTable(f, s, T, m - 1)
      BY <3>1, <2>2
    <3> DEFINE piece(n) == IF s[n] \in T THEN <<s[n]>> ELSE <<>>
               g == [n \in 0..m |-> IF n = m THEN f[m - 1] \o piece(m) ELSE f[n]]
    <3>3. \A n \in 0..(m - 1) : f[n] = IF n = 0 THEN <<>> ELSE f[n - 1] \o piece(n)
      BY <3>2 DEF OnlyTable
    <3>4. \A n \in 0..m : g[n] = IF n = 0 THEN <<>> ELSE g[n - 1] \o piece(n)
      <4> SUFFICES ASSUME NEW n \in 0..m
                   PROVE  g[n] = IF n = 0 THEN <<>> ELSE g[n - 1] \o piece(n)
        OBVIOUS
      <4>1. CASE n = m
        <5> HIDE DEF piece
        <5>a. m \in 0..m /\ m - 1 \in 0..m /\ m - 1 # m
          BY <2>3, <2>5
        <5>b. g[m] = f[m - 1] \o piece(m) /\ g[m - 1] = f[m - 1]
          BY <5>a
        <5>1. g[n] = f[m - 1] \o piece(m) /\ g[n - 1] = f[m - 1] /\ n # 0
          BY <4>1, <5>b, <2>5
        <5>2. g[n] = g[n - 1] \o piece(n)
          <6> HIDE DEF g, piece
          <6> QED BY <5>1, <4>1
        <5> HIDE DEF g, piece
        <5> QED BY <5>1, <5>2
      <4>2. CASE n # m
        <5>1. n \in 0..(m - 1) /\ g[n] = f[n]
          BY <4>2, <2>3
        <5>2. n # 0 => g[n - 1] = f[n - 1]
          BY <4>2, <2>3
        <5> QED BY <5>1, <5>2, <3>3
      <4> QED BY <4>1, <4>2
    <3>5. g = [n \in 0..m |-> IF n = 0 THEN <<>> ELSE g[n - 1] \o piece(n)]
      <4> DEFINE h == [n \in 0..m |-> IF n = 0 THEN <<>> ELSE g[n - 1] \o piece(n)]
      <4>1. \A n \in 0..m : g[n] = h[n]
        BY <3>4
      <4>2. g = [n \in 0..m |-> g[n]] /\ h = [n \in 0..m |-> h[n]]
        OBVIOUS
      <4> HIDE DEF g, h
      <4>3. g = h
        BY <4>1, <4>2
      <4> QED BY <4>3 DEF h
    <3>6. OnlyTable(g, s, T, m)
      BY <3>5 DEF OnlyTable
    <3> HIDE DEF g
    <3> QED BY <3>6
  <2> QED BY <2>4, <2>5
<1> QED BY <1>1

\* Only is the last entry of its table.
LEMMA OnlyIs ==
  ASSUME NEW s, NEW T, Len(s) \in Nat
  PROVE  \E f : OnlyTable(f, s, T, Len(s)) /\ Only(s, T) = f[Len(s)]
<1> DEFINE f == CHOOSE f : OnlyTable(f, s, T, Len(s))
<1>1. OnlyTable(f, s, T, Len(s))
  BY OnlyTableExists
<1>2. Only(s, T) = f[Len(s)]
  BY Zenon DEF Only, OnlyTable
<1> QED BY <1>1, <1>2

\* Two sequences one after the other.
LEMMA Joined ==
  ASSUME NEW E, NEW t \in Seq(E), NEW u \in Seq(E)
  PROVE  /\ t \o u \in Seq(E)
         /\ Len(t \o u) = Len(t) + Len(u)
         /\ \A i \in DOMAIN t : (t \o u)[i] = t[i]
         /\ \A i \in DOMAIN u : (t \o u)[Len(t) + i] = u[i]
         /\ Range(t \o u) = Range(t) \cup Range(u)
         /\ IsInjective(t) /\ IsInjective(u) /\ Range(t) \cap Range(u) = {} => IsInjective(t \o u)
<1> DEFINE j == t \o u
<1>1. j \in Seq(E) /\ Len(j) = Len(t) + Len(u) /\ DOMAIN j = 1..(Len(t) + Len(u))
  OBVIOUS
<1>2. DOMAIN t = 1..Len(t) /\ DOMAIN u = 1..Len(u) /\ Len(t) \in Nat /\ Len(u) \in Nat
  OBVIOUS
<1>3. \A i \in 1..Len(t) : j[i] = t[i]
  OBVIOUS
<1>4. \A i \in 1..Len(u) : j[Len(t) + i] = u[i]
  OBVIOUS
<1>5. \A i \in DOMAIN j : i \in 1..Len(t) \/ i - Len(t) \in 1..Len(u)
  BY <1>1, <1>2
<1>6. \A i \in DOMAIN j : i - Len(t) \in 1..Len(u) => j[i] = u[i - Len(t)]
  BY <1>4, <1>1, <1>2
<1> HIDE DEF j
<1>7. Range(j) = Range(t) \cup Range(u)
  <2>1. \A i \in DOMAIN j : j[i] \in Range(t) \cup Range(u)
    BY <1>2, <1>3, <1>5, <1>6 DEF Range
  <2>2. \A i \in DOMAIN t : t[i] \in Range(j)
    <3>1. \A i \in DOMAIN t : i \in DOMAIN j
      BY <1>1, <1>2
    <3> QED BY <3>1, <1>2, <1>3 DEF Range
  <2>3. \A i \in DOMAIN u : u[i] \in Range(j)
    <3>1. \A i \in DOMAIN u : Len(t) + i \in DOMAIN j
      BY <1>1, <1>2
    <3> QED BY <3>1, <1>2, <1>4 DEF Range
  <2> QED BY <2>1, <2>2, <2>3 DEF Range
<1>8. ASSUME IsInjective(t), IsInjective(u), Range(t) \cap Range(u) = {}
      PROVE  IsInjective(j)
  <2>1. \A i \in DOMAIN t, k \in DOMAIN u : t[i] # u[k]
    BY <1>8 DEF Range
  <2> SUFFICES ASSUME NEW a \in DOMAIN j, NEW b \in DOMAIN j, j[a] = j[b] PROVE a = b
    BY DEF IsInjective
  <2>2. CASE a \in 1..Len(t) /\ b \in 1..Len(t)
    BY <2>2, <1>2, <1>3, <1>8 DEF IsInjective
  <2>3. CASE a \in 1..Len(t) /\ b - Len(t) \in 1..Len(u)
    BY <2>3, <1>2, <1>3, <1>6, <2>1
  <2>4. CASE a - Len(t) \in 1..Len(u) /\ b \in 1..Len(t)
    BY <2>4, <1>2, <1>3, <1>6, <2>1
  <2>5. CASE a - Len(t) \in 1..Len(u) /\ b - Len(t) \in 1..Len(u)
    <3>1. a - Len(t) = b - Len(t)
      BY <2>5, <1>2, <1>6, <1>8 DEF IsInjective
    <3>2. a \in Int /\ b \in Int
      BY <1>1, <1>2
    <3> QED BY <3>1, <3>2, <1>2
  <2> QED BY <1>5, <2>2, <2>3, <2>4, <2>5
<1>9. /\ \A i \in DOMAIN t : j[i] = t[i]
      /\ \A i \in DOMAIN u : j[Len(t) + i] = u[i]
  BY <1>2, <1>3, <1>4
<1> QED BY <1>1, <1>7, <1>8, <1>9 DEF j

\* The elements kept are those of the set, none twice if none was.
LEMMA OnlyKeeps ==
  ASSUME NEW E, NEW s \in Seq(E), NEW T
  PROVE  /\ Only(s, T) \in Seq(E)
         /\ Range(Only(s, T)) = Range(s) \cap T
         /\ IsInjective(s) => IsInjective(Only(s, T))
<1>1. Len(s) \in Nat /\ DOMAIN s = 1..Len(s)
  OBVIOUS
<1>2. PICK f : OnlyTable(f, s, T, Len(s)) /\ Only(s, T) = f[Len(s)]
  BY <1>1, OnlyIs
<1> DEFINE piece(n) == IF s[n] \in T THEN <<s[n]>> ELSE <<>>
           First(n) == {s[i] : i \in 1..n}
           Good(n) == /\ f[n] \in Seq(E)
                      /\ Range(f[n]) = First(n) \cap T
                      /\ IsInjective(s) => IsInjective(f[n])
           Bad == {n \in 0..Len(s) : ~Good(n)}
<1>3. f[0] = <<>> /\ \A n \in 1..Len(s) : f[n] = f[n - 1] \o piece(n)
  <2>1. \A n \in 0..Len(s) : f[n] = IF n = 0 THEN <<>> ELSE f[n - 1] \o piece(n)
    BY <1>2 DEF OnlyTable
  <2> HIDE DEF piece
  <2>2. f[0] = <<>>
    BY <2>1, <1>1
  <2>3. ASSUME NEW n \in 1..Len(s) PROVE f[n] = f[n - 1] \o piece(n)
    <3>1. n \in 0..Len(s) /\ n # 0
      BY <1>1
    <3> QED BY <3>1, <2>1
  <2> QED BY <2>2, <2>3
<1>4. Good(0)
  <2>1. First(0) = {}
    OBVIOUS
  <2>2. f[0] \in Seq(E) /\ DOMAIN f[0] = {}
    BY <1>3
  <2>3. Range(f[0]) = {} /\ IsInjective(f[0])
    BY <2>2 DEF Range, IsInjective
  <2> QED BY <2>1, <2>2, <2>3
<1>5. ASSUME NEW n \in 1..Len(s), Good(n - 1) PROVE Good(n)
  <2>1. First(n) = First(n - 1) \cup {s[n]}
    <3>1. 1..n = (1..(n - 1)) \cup {n}
      BY <1>1
    <3> QED BY <3>1
  <2>2. s[n] \in E /\ n \in DOMAIN s /\ f[n] = f[n - 1] \o piece(n)
    <3>1. s[n] \in E /\ n \in DOMAIN s
      BY <1>1
    <3> HIDE DEF piece
    <3> QED BY <3>1, <1>3
  <2>3. IsInjective(s) => s[n] \notin First(n - 1)
    <3>1. \A i \in 1..(n - 1) : i \in DOMAIN s /\ i # n
      BY <1>1
    <3> QED BY <3>1, <2>2 DEF IsInjective
  <2> DEFINE p == f[n - 1]
  <2>4. p \in Seq(E) /\ Range(p) = First(n - 1) \cap T /\ (IsInjective(s) => IsInjective(p))
    BY <1>5
  <2> HIDE DEF p, First, Good
  <2>5. CASE s[n] \in T
    <3> DEFINE q == <<s[n]>>
    <3>1. f[n] = p \o q
      BY <2>2, <2>5 DEF p
    <3>2. q \in Seq(E) /\ Range(q) = {s[n]} /\ IsInjective(q)
      BY <2>2 DEF Range, IsInjective
    <3> HIDE DEF q
    <3>3. /\ f[n] \in Seq(E)
          /\ Range(f[n]) = Range(p) \cup {s[n]}
          /\ IsInjective(p) /\ Range(p) \cap {s[n]} = {} => IsInjective(f[n])
      BY <3>1, <3>2, <2>4, Joined
    <3>4. Range(f[n]) = First(n) \cap T
      BY <3>3, <2>4, <2>1, <2>5
    <3>5. IsInjective(s) => IsInjective(f[n])
      BY <3>3, <2>3, <2>4
    <3> QED BY <3>3, <3>4, <3>5 DEF Good
  <2>6. CASE s[n] \notin T
    <3>1. f[n] = p
      BY <2>2, <2>4, <2>6 DEF p
    <3>2. Range(p) = First(n) \cap T
      BY <2>4, <2>1, <2>6
    <3> QED BY <3>1, <3>2, <2>4 DEF Good
  <2> QED BY <2>5, <2>6
<1>6. Bad = {}
  <2> SUFFICES ASSUME Bad # {} PROVE FALSE
    OBVIOUS
  <2> HIDE DEF Good
  <2>1. Bad \in SUBSET Nat
    OBVIOUS
  <2>2. PICK n \in Bad : \A k \in Bad : n <= k
    <3> HIDE DEF Bad
    <3> QED BY <2>1, LeastExists
  <2>3. n \in 0..Len(s) /\ ~Good(n)
    OBVIOUS
  <2>4. n # 0
    BY <2>3, <1>4
  <2>5. n \in 1..Len(s) /\ n - 1 \in 0..Len(s) /\ n - 1 < n
    BY <2>3, <2>4, <1>1
  <2>6. Good(n - 1)
    BY <2>5, <2>2, <1>1
  <2> QED BY <2>6, <2>5, <2>3, <1>5
<1>7. Good(Len(s))
  <2> HIDE DEF Good
  <2> QED BY <1>6, <1>1
<1>8. First(Len(s)) = Range(s)
  BY <1>1 DEF Range
<1> QED BY <1>2, <1>7, <1>8

\* Two lists without repetition of the same things are equally long.
LEMMA SameLength ==
  ASSUME NEW m \in Nat, NEW n \in Nat, NEW f, NEW g,
         f = [i \in 1..m |-> f[i]], g = [i \in 1..n |-> g[i]],
         IsInjective(f), IsInjective(g), Range(f) = Range(g)
  PROVE  m = n
<1> DEFINE R == Range(f)
<1>1. f \in [1..m -> R] /\ g \in [1..n -> R]
  BY DEF Range
<1>2. f \in Bijection(1..m, R) /\ g \in Bijection(1..n, R)
  <2>1. DOMAIN f = 1..m /\ DOMAIN g = 1..n
    BY <1>1
  <2>2. f \in Bijection(1..m, R)
    BY <1>1, <2>1 DEF Bijection, Injection, Surjection, IsInjective, Range
  <2>3. g \in Bijection(1..n, R)
    BY <1>1, <2>1 DEF Bijection, Injection, Surjection, IsInjective, Range
  <2> QED BY <2>2, <2>3
<1> HIDE DEF R
<1>4. ExistsBijection(1..m, R) /\ ExistsBijection(1..n, R)
  BY <1>2 DEF ExistsBijection
<1>5. Cardinality(R) = m /\ Cardinality(R) = n
  BY <1>4, FS_CountingElements
<1> QED BY <1>5

-----------------------------------------------------------------------------
\* The parts of the values compared: a grade as normalize_grade writes it, and no
\* grade where the parser assumed one.
LEMMA CanonicalIs ==
  ASSUME NEW values, DOMAIN values = Fields
  PROVE  /\ DOMAIN Canonical(values) = Fields
         /\ \A f \in Fields : f # "grade" => Canonical(values)[f] = values[f]
         /\ values.grade = None => Canonical(values).grade = None
         /\ values.grade # None => Canonical(values).grade = NormalGrade(values.grade)
<1>1. "grade" \in DOMAIN values
  BY DEF Fields
<1> QED BY <1>1 DEF Canonical, NormalizeGrade

\* A row shows an item's values, an assumed grade as none.
LEMMA ShownIs ==
  ASSUME NEW item, DOMAIN item.values = Fields
  PROVE  /\ DOMAIN Shown(item) = Fields
         /\ \A f \in Fields : f # "grade" => Shown(item)[f] = item.values[f]
         /\ item.values.grade = ASSUMED => Shown(item).grade = None
         /\ item.values.grade # ASSUMED => Shown(item).grade = item.values.grade
<1>1. "grade" \in DOMAIN item.values
  BY DEF Fields
<1> QED BY <1>1 DEF Shown

\* Writing grades once is enough.
LEMMA CanonicalTwice ==
  ASSUME NEW values, DOMAIN values = Fields, values.grade \in Grades \cup {None}
  PROVE  Canonical(Canonical(values)) = Canonical(values)
<1> DEFINE c == Canonical(values)
           d == Canonical(c)
<1>1. /\ DOMAIN c = Fields
      /\ values.grade = None => c.grade = None
      /\ values.grade # None => c.grade = NormalGrade(values.grade)
  BY CanonicalIs
<1>2. /\ DOMAIN d = Fields
      /\ \A f \in Fields : f # "grade" => d[f] = c[f]
      /\ c.grade = None => d.grade = None
      /\ c.grade # None => d.grade = NormalGrade(c.grade)
  <2> HIDE DEF c
  <2> QED BY <1>1, CanonicalIs
<1>3. c = [f \in Fields |-> c[f]] /\ d = [f \in Fields |-> d[f]]
  <2>1. c = [f \in DOMAIN c |-> c[f]] /\ d = [f \in DOMAIN d |-> d[f]]
    BY DEF Canonical
  <2> HIDE DEF c, d
  <2> QED BY <2>1, <1>1, <1>2
<1> HIDE DEF c, d
<1>4. c.grade = d.grade
  BY <1>1, <1>2, GradesAssumption
<1>5. \A f \in Fields : c[f] = d[f]
  BY <1>2, <1>4
<1> QED BY <1>3, <1>5 DEF c, d

-----------------------------------------------------------------------------
RowFields == {"id", "values", "current", "confidence", "research", "confirmed", "decision",
              "warnings", "modelDecision", "modelWarnings", "changed"}

\* The fields of a reconciled row.
LEMMA ReconciledIs ==
  ASSUME NEW row, DOMAIN row = RowFields
  PROVE  LET r == Reconcile(row)
             decision == DecisionFor(row, Remaining(row))
         IN  /\ DOMAIN r = RowFields
             /\ r = [f \in RowFields |-> r[f]]
             /\ r.id = row.id /\ r.current = row.current /\ r.confidence = row.confidence
             /\ r.research = row.research /\ r.confirmed = row.confirmed
             /\ r.values = Canonical(row.values) /\ r.changed = FinalChanges(row)
             /\ r.decision = decision
             /\ r.modelDecision = IF decision = ModelDecision(row) THEN None ELSE ModelDecision(row)
             /\ r.warnings = Remaining(row)
             /\ r.modelWarnings = IF Remaining(row) = Warnings(row) THEN None ELSE Warnings(row)
BY DEF Reconcile, RowFields

\* Reconciling a row of the model a second time changes nothing.
LEMMA ReconciledTwice ==
  ASSUME NEW row, DOMAIN row = RowFields, row.modelDecision = None, row.modelWarnings = None,
         DOMAIN row.values = Fields, row.values.grade \in Grades \cup {None}
  PROVE  LET r == Reconcile(row)
         IN  Reconcile(r) = r /\ ExpectedDecision(r) = r.decision
<1> DEFINE r == Reconcile(row)
           d == DecisionFor(row, Remaining(row))
           q == Reconcile(r)
<1>1. /\ DOMAIN r = RowFields
      /\ r = [f \in RowFields |-> r[f]]
      /\ r.current = row.current /\ r.research = row.research
      /\ r.values = Canonical(row.values) /\ r.changed = FinalChanges(row)
      /\ r.decision = d
      /\ r.modelDecision = IF d = ModelDecision(row) THEN None ELSE ModelDecision(row)
      /\ r.warnings = Remaining(row)
      /\ r.modelWarnings = IF Remaining(row) = Warnings(row) THEN None ELSE Warnings(row)
  BY ReconciledIs
<1>2. /\ DOMAIN q = RowFields
      /\ q = [f \in RowFields |-> q[f]]
      /\ q.id = r.id /\ q.current = r.current /\ q.confidence = r.confidence
      /\ q.research = r.research /\ q.confirmed = r.confirmed
      /\ q.values = Canonical(r.values) /\ q.changed = FinalChanges(r)
      /\ q.decision = DecisionFor(r, Remaining(r))
      /\ q.modelDecision = IF DecisionFor(r, Remaining(r)) = ModelDecision(r) THEN None ELSE ModelDecision(r)
      /\ q.warnings = Remaining(r)
      /\ q.modelWarnings = IF Remaining(r) = Warnings(r) THEN None ELSE Warnings(r)
  <2> HIDE DEF r
  <2> QED BY <1>1, ReconciledIs
<1> HIDE DEF r, q, d
<1>3. Canonical(r.values) = r.values
  BY <1>1, CanonicalTwice
<1>4. FinalChanges(r) = FinalChanges(row)
  BY <1>1, <1>3 DEF FinalChanges
<1>5. Warnings(row) = row.warnings /\ ModelDecision(row) = row.decision
  BY DEF Warnings, ModelDecision
<1>6. Remaining(r) = Remaining(row) /\ (Warnings(r) = Warnings(row) \/ Warnings(r) = Remaining(row))
  <2>1. Warnings(r) = Warnings(row) \/ Warnings(r) = Remaining(row)
    BY <1>1 DEF Warnings
  <2>2. CASE Warnings(r) = Warnings(row)
    BY <2>2, <1>4 DEF Remaining
  <2>3. CASE Warnings(r) = Remaining(row)
    <3>1. Remaining(r) = IF "grade" \in FinalChanges(row) THEN Remaining(row)
                         ELSE Remaining(row) \ {FalseConflict}
      BY <2>3, <1>4 DEF Remaining
    <3>2. "grade" \notin FinalChanges(row) => Remaining(row) \ {FalseConflict} = Remaining(row)
      BY DEF Remaining
    <3> QED BY <3>1, <3>2, <2>3
  <2> QED BY <2>1, <2>2, <2>3
<1>7. DecisionFor(r, Remaining(row)) = d
  <2>1. d = DecisionFor(row, Remaining(row))
    BY DEF d
  <2>2. ModelDecision(r) = IF r.modelDecision = None THEN d ELSE r.modelDecision
    BY <1>1 DEF ModelDecision
  <2>3. ModelDecision(r) = ModelDecision(row) \/ ModelDecision(r) = d
    BY <2>2, <1>1
  <2>4. CASE ModelDecision(r) = ModelDecision(row)
    BY <2>1, <2>4, <1>1, <1>4 DEF DecisionFor
  <2>5. CASE ModelDecision(r) = d
    <3>1. CASE row.research \/ Remaining(row) # {}
      BY <3>1, <2>1, <1>1 DEF DecisionFor
    <3>2. CASE ~(row.research \/ Remaining(row) # {}) /\ ModelDecision(row) = "REVIEW"
      BY <3>2, <2>1, <2>5, <1>1 DEF DecisionFor
    <3>3. CASE ~(row.research \/ Remaining(row) # {} \/ ModelDecision(row) = "REVIEW")
      <4>1. d = IF FinalChanges(row) # {} THEN "PROPOSE_CHANGE" ELSE "KEEP"
        BY <3>3, <2>1 DEF DecisionFor
      <4>2. d # "REVIEW"
        BY <4>1
      <4>3. DecisionFor(r, Remaining(row)) = IF FinalChanges(row) # {} THEN "PROPOSE_CHANGE" ELSE "KEEP"
        BY <3>3, <4>2, <2>5, <1>1, <1>4 DEF DecisionFor
      <4> QED BY <4>1, <4>3
    <3> QED BY <3>1, <3>2, <3>3
  <2> QED BY <2>3, <2>4, <2>5
<1>8. q = r
  <2>1. q.modelDecision = r.modelDecision
    <3>1. ModelDecision(r) = IF r.modelDecision = None THEN d ELSE r.modelDecision
      BY <1>1 DEF ModelDecision
    <3>2. q.modelDecision = IF d = ModelDecision(r) THEN None ELSE ModelDecision(r)
      BY <1>2, <1>6, <1>7
    <3> QED BY <3>1, <3>2, <1>1
  <2>2. q.modelWarnings = r.modelWarnings
    <3>1. Warnings(r) = IF r.modelWarnings = None THEN Remaining(row) ELSE r.modelWarnings
      BY <1>1 DEF Warnings
    <3>2. q.modelWarnings = IF Remaining(row) = Warnings(r) THEN None ELSE Warnings(r)
      BY <1>2, <1>6
    <3> QED BY <3>1, <3>2, <1>1
  <2>3. /\ q.values = r.values /\ q.changed = r.changed /\ q.warnings = r.warnings
        /\ q.decision = r.decision
    BY <1>1, <1>2, <1>3, <1>4, <1>6, <1>7
  <2>4. \A f \in RowFields : q[f] = r[f]
    BY <2>1, <2>2, <2>3, <1>2 DEF RowFields
  <2> QED BY <2>4, <1>1, <1>2
<1>9. ExpectedDecision(r) = r.decision
  <2>1. r.warnings = IF "grade" \in FinalChanges(r) THEN r.warnings ELSE r.warnings \ {FalseConflict}
    BY <1>1, <1>4 DEF Remaining
  <2> QED BY <2>1, <1>1, <1>7 DEF ExpectedDecision
<1> QED BY <1>8, <1>9 DEF q, r

-----------------------------------------------------------------------------
\* What the pipeline may hand on about an item: a settled row whose grade is written
\* as normalize_grade does and whose confirmed values the source of the item states.
IsSafe(row, item) ==
  /\ row.id = item.id
  /\ DOMAIN row.values = Fields
  /\ row.values.grade \in {NormalGrade(g) : g \in Grades} \cup {None}
  /\ row.changed = ChangedFields(row.values, Canonical(Shown(item)))
  /\ \A f \in row.confirmed :
       /\ f \in Fields
       /\ \E quote \in item.quotes : \E v \in quote[f] : row.values[f] \in Written(f, v)
  /\ Reconcile(row) = row /\ ExpectedDecision(row) = row.decision

\* A confirmed value is one the source states.
LEMMA ConfirmedIsWritten ==
  ASSUME NEW row, FitsSchema(row), NEW item, NEW f \in ConfirmedFields(row, item)
  PROVE  /\ f \in Fields
         /\ \E quote \in item.quotes : \E v \in quote[f] :
              Canonical(row.values)[f] \in Written(f, v)
<1>1. f \in Fields /\ \E e \in row.evidence : Confirms(e, f, row.values[f], item)
  BY DEF ConfirmedFields, ChangedFields
<1>2. PICK e \in row.evidence : Confirms(e, f, row.values[f], item)
  BY <1>1
<1>3. /\ e.quote \in item.quotes /\ row.values[f] # None
      /\ \E v \in e.quote[f] : Key(f, row.values[f]) = Key(f, v)
  BY <1>2 DEF Confirms, IsQuoted, ShowsValue
<1>4. PICK v \in e.quote[f] : Key(f, row.values[f]) = Key(f, v)
  BY <1>3
<1>5. DOMAIN row.values = Fields /\ row.values.grade \in Grades \cup {None}
  BY DEF FitsSchema
<1>6. Canonical(row.values)[f] \in Written(f, v)
  <2>1. CASE f = "grade"
    <3>1. row.values.grade \in Grades /\ Canonical(row.values).grade = NormalGrade(row.values.grade)
      BY <1>3, <1>5, <2>1, CanonicalIs
    <3>2. NormalizeGrade(row.values.grade) = NormalGrade(row.values.grade)
      BY <1>3, <2>1 DEF NormalizeGrade
    <3>3. row.values.grade \in {h \in Grades : Key(f, h) = Key(f, v)}
      BY <3>1, <1>4, <2>1
    <3>4. Written(f, v) = {NormalizeGrade(g) : g \in {h \in Grades : Key(f, h) = Key(f, v)}}
      BY <2>1 DEF Written
    <3>5. NormalizeGrade(row.values.grade) \in Written(f, v)
      BY <3>3, <3>4
    <3> QED BY <3>1, <3>2, <3>5, <2>1
  <2>2. CASE f # "grade"
    <3>1. Canonical(row.values)[f] = row.values[f]
      BY <1>1, <1>5, <2>2, CanonicalIs
    <3>2. row.values[f] = v
      BY <1>4, <2>2 DEF Key
    <3> QED BY <3>1, <3>2, <2>2 DEF Written
  <2> QED BY <2>1, <2>2
<1> QED BY <1>1, <1>3, <1>6

\* Every answer that fits the schema is safe once it was guarded and reconciled.
LEMMA SafeRow ==
  ASSUME NEW row, FitsSchema(row), NEW item, row.id = item.id
  PROVE  IsSafe(Reconcile(Guarded(row, item)), item)
<1> DEFINE g == Guarded(row, item)
           r == Reconcile(g)
<1>1. DOMAIN row.values = Fields /\ row.values.grade \in Grades \cup {None}
  BY DEF FitsSchema
<1>2. /\ DOMAIN g = RowFields
      /\ g.id = row.id /\ g.values = row.values /\ g.current = Shown(item)
      /\ g.confirmed = ConfirmedFields(row, item)
      /\ g.modelDecision = None /\ g.modelWarnings = None
  BY DEF Guarded, RowFields
<1> HIDE DEF g
<1>3. /\ r.id = g.id /\ r.confirmed = g.confirmed
      /\ r.values = Canonical(g.values) /\ r.changed = FinalChanges(g)
  BY <1>2, ReconciledIs
<1>4. Reconcile(r) = r /\ ExpectedDecision(r) = r.decision
  BY <1>1, <1>2, ReconciledTwice
<1> HIDE DEF r
<1>5. r.id = item.id /\ r.changed = ChangedFields(r.values, Canonical(Shown(item)))
  BY <1>2, <1>3 DEF FinalChanges
<1>6. /\ DOMAIN r.values = Fields
      /\ r.values.grade \in {NormalGrade(h) : h \in Grades} \cup {None}
  BY <1>1, <1>2, <1>3, CanonicalIs
<1>7. \A f \in r.confirmed :
        /\ f \in Fields
        /\ \E quote \in item.quotes : \E v \in quote[f] : r.values[f] \in Written(f, v)
  BY <1>2, <1>3, ConfirmedIsWritten
<1>8. IsSafe(r, item)
  BY <1>4, <1>5, <1>6, <1>7 DEF IsSafe
<1> QED BY <1>8 DEF r, g

\* A value applied from a safe row is written as the row has it; it is another value
\* than the item had, and the source of the item states it.
LEMMA AppliedField ==
  ASSUME NEW item, DOMAIN item.values = Fields, NEW row, IsSafe(row, item),
         NEW f \in Applied(row)
  PROVE  /\ f \in Fields
         /\ NewValue(row, f) = row.values[f]
         /\ row.values[f] # item.values[f]
         /\ \E quote \in item.quotes : \E v \in quote[f] : NewValue(row, f) \in Written(f, v)
<1>1. f \in row.changed /\ f \in row.confirmed /\ row.values[f] # None
  BY DEF Applied, IsUsable
<1>2. /\ f \in Fields
      /\ Key(f, row.values[f]) # Key(f, Canonical(Shown(item))[f])
      /\ \E quote \in item.quotes : \E v \in quote[f] : row.values[f] \in Written(f, v)
  BY <1>1 DEF IsSafe, ChangedFields
<1>3. /\ DOMAIN Shown(item) = Fields
      /\ \A x \in Fields : x # "grade" => Shown(item)[x] = item.values[x]
      /\ item.values.grade = ASSUMED => Shown(item).grade = None
      /\ item.values.grade # ASSUMED => Shown(item).grade = item.values.grade
  BY ShownIs
<1>4. /\ \A x \in Fields : x # "grade" => Canonical(Shown(item))[x] = Shown(item)[x]
      /\ Shown(item).grade = None => Canonical(Shown(item)).grade = None
      /\ Shown(item).grade # None => Canonical(Shown(item)).grade = NormalGrade(Shown(item).grade)
  BY <1>3, CanonicalIs
<1>5. CASE f # "grade"
  <2>1. Canonical(Shown(item))[f] = item.values[f]
    BY <1>2, <1>3, <1>4, <1>5
  <2>2. row.values[f] # item.values[f]
    BY <2>1, <1>2
  <2>3. NewValue(row, f) = row.values[f]
    BY <1>5 DEF NewValue
  <2> QED BY <2>2, <2>3, <1>2
<1>6. CASE f = "grade"
  <2>1. row.values.grade \in {NormalGrade(g) : g \in Grades}
    BY <1>1, <1>6 DEF IsSafe
  <2>2. PICK g \in Grades : row.values.grade = NormalGrade(g)
    BY <2>1
  <2>3. NormalGrade(row.values.grade) = row.values.grade /\ row.values.grade # ASSUMED
    BY <2>2, GradesAssumption
  <2>4. NewValue(row, f) = row.values[f]
    BY <2>3, <1>1, <1>6 DEF NewValue, NormalizeGrade
  <2>5. row.values[f] # item.values[f]
    BY <2>3, <1>1, <1>2, <1>3, <1>4, <1>6
  <2> QED BY <2>4, <2>5, <1>2
<1> QED BY <1>5, <1>6

-----------------------------------------------------------------------------
ItemFields == {"id", "values", "reasons", "conflict", "confidence", "columns", "quotes"}

\* The items parsed: a sequence of records, told apart by their ids.
LEMMA ParsedItems ==
  /\ Len(Parsed) \in Nat /\ DOMAIN Parsed = 1..Len(Parsed)
  /\ Parsed \in Seq(Range(Parsed))
  /\ \A n \in DOMAIN Parsed : DOMAIN Parsed[n] = ItemFields /\ DOMAIN Parsed[n].values = Fields
  /\ \A m, n \in DOMAIN Parsed : Parsed[m].id = Parsed[n].id => m = n
  /\ IsInjective(Parsed)
<1>1. Len(Folder) \in Nat /\ DOMAIN Folder = 1..Len(Folder)
  BY LlmStageAssumption
<1>2. Parsed = [n \in 1..Len(Folder) |-> ParseRawItem(Folder[n])]
  BY <1>1 DEF Parsed
<1>3. Parsed \in Seq(Range(Parsed)) /\ Len(Parsed) \in Nat /\ DOMAIN Parsed = 1..Len(Parsed)
  <2>1. \A n \in 1..Len(Folder) : Parsed[n] \in Range(Parsed)
    BY <1>2 DEF Range
  <2>2. Parsed = [n \in 1..Len(Folder) |-> Parsed[n]]
    BY <1>2
  <2>3. Parsed \in [1..Len(Folder) -> Range(Parsed)]
    BY <2>1, <2>2
  <2> QED BY <2>3, <1>1
<1>4. ASSUME NEW raw
      PROVE  DOMAIN ParseRawItem(raw) = ItemFields /\ DOMAIN ParseRawItem(raw).values = Fields
  BY DEF ParseRawItem, ItemFields, Fields
<1>5. \A n \in DOMAIN Parsed : DOMAIN Parsed[n] = ItemFields /\ DOMAIN Parsed[n].values = Fields
  BY <1>2, <1>4
<1>6. \A m, n \in DOMAIN Parsed : Parsed[m].id = Parsed[n].id => m = n
  BY SourcesAssumption
<1>7. IsInjective(Parsed)
  BY <1>6 DEF IsInjective
<1> QED BY <1>3, <1>5, <1>6, <1>7

\* What a safe row makes of its item.
LEMMA UpdatedItem ==
  ASSUME NEW item, DOMAIN item = ItemFields, DOMAIN item.values = Fields,
         NEW row, IsSafe(row, item)
  PROVE  /\ \A f \in Fields : Updated(item, row).values[f] # item.values[f]
               => f \in Applied(row) /\ Updated(item, row).values[f] = NewValue(row, f)
         /\ Updated(item, row).values # item.values
              <=> row.decision = "PROPOSE_CHANGE" /\ Applied(row) # {}
<1> DEFINE new == Updated(item, row)
<1>1. CASE row.decision # "PROPOSE_CHANGE" \/ Applied(row) = {}
  <2>1. new = item
    BY <1>1 DEF Updated
  <2> QED BY <2>1, <1>1
<1>2. CASE row.decision = "PROPOSE_CHANGE" /\ Applied(row) # {}
  <2>1. new.values = [f \in Fields |-> IF f \in Applied(row) THEN NewValue(row, f) ELSE item.values[f]]
    BY <1>2 DEF Updated, ItemFields
  <2> HIDE DEF new
  <2>2. PICK f \in Applied(row) : TRUE
    BY <1>2
  <2>3. f \in Fields /\ NewValue(row, f) # item.values[f]
    BY <2>2, AppliedField
  <2>4. new.values[f] # item.values[f]
    BY <2>1, <2>2, <2>3
  <2>5. \A x \in Fields : new.values[x] # item.values[x]
                         => x \in Applied(row) /\ new.values[x] = NewValue(row, x)
    BY <2>1
  <2> QED BY <2>4, <2>5, <1>2 DEF new
<1> QED BY <1>1, <1>2

\* The rows of verified batches: at most one for each item, safe, and of an item in
\* doubt.
AreSafe(rs) ==
  /\ rs \in Seq(Range(rs))
  /\ \A i, j \in DOMAIN rs : rs[i].id = rs[j].id => i = j
  /\ \A i \in DOMAIN rs : \E n \in DOMAIN Parsed :
       IsCandidate(Parsed[n]) /\ IsSafe(rs[i], Parsed[n])

\* The row an item finds is its own, and the only one it finds.
LEMMA OwnRow ==
  ASSUME NEW rs, AreSafe(rs), NEW n \in DOMAIN Parsed, NEW i \in RowsFor(Parsed[n], rs)
  PROVE  /\ IsCandidate(Parsed[n]) /\ IsSafe(rs[i], Parsed[n])
         /\ RowsFor(Parsed[n], rs) = {i}
         /\ ApplyRows(Parsed, rs)[n] = Updated(Parsed[n], rs[i])
<1>1. \A j \in RowsFor(Parsed[n], rs) :
        j \in DOMAIN rs /\ IsCandidate(Parsed[n]) /\ IsSafe(rs[j], Parsed[n])
  <2> SUFFICES ASSUME NEW j \in RowsFor(Parsed[n], rs)
               PROVE  j \in DOMAIN rs /\ IsCandidate(Parsed[n]) /\ IsSafe(rs[j], Parsed[n])
    OBVIOUS
  <2>1. j \in DOMAIN rs /\ SpaceNormal(rs[j].id) = Parsed[n].id
    BY DEF RowsFor
  <2>2. PICK m \in DOMAIN Parsed : IsCandidate(Parsed[m]) /\ IsSafe(rs[j], Parsed[m])
    BY <2>1 DEF AreSafe
  <2>3. rs[j].id = Parsed[m].id
    BY <2>2 DEF IsSafe
  <2>4. m = n
    BY <2>1, <2>3, SourcesAssumption
  <2> QED BY <2>1, <2>2, <2>4
<1>2. \A j \in RowsFor(Parsed[n], rs) : j = i
  <2>1. \A j \in RowsFor(Parsed[n], rs) : rs[j].id = Parsed[n].id
    BY <1>1 DEF IsSafe
  <2> QED BY <2>1, <1>1 DEF AreSafe
<1>3. RowsFor(Parsed[n], rs) = {i}
  BY <1>2
<1>4. ApplyRows(Parsed, rs)[n] = Updated(Parsed[n], rs[CHOOSE j \in {i} : TRUE])
  BY <1>3 DEF ApplyRows
<1>5. (CHOOSE j \in {i} : TRUE) = i
  OBVIOUS
<1> QED BY <1>1, <1>3, <1>4, <1>5

\* An item without a row of its own keeps what its parser found.
LEMMA NoRow ==
  ASSUME NEW rs, NEW n \in DOMAIN Parsed, RowsFor(Parsed[n], rs) = {}
  PROVE  ApplyRows(Parsed, rs)[n] = Parsed[n]
BY DEF ApplyRows

\* Safe rows only make changes the source states.
LEMMA ChangesAreStated ==
  ASSUME NEW rs, AreSafe(rs), NEW n \in DOMAIN Parsed, NEW f \in Fields,
         ApplyRows(Parsed, rs)[n].values[f] # Parsed[n].values[f]
  PROVE  /\ IsCandidate(Parsed[n])
         /\ \E quote \in Parsed[n].quotes : \E v \in quote[f] :
              ApplyRows(Parsed, rs)[n].values[f] \in Written(f, v)
<1>1. RowsFor(Parsed[n], rs) # {}
  BY NoRow
<1>2. PICK i \in RowsFor(Parsed[n], rs) : TRUE
  BY <1>1
<1>3. /\ IsCandidate(Parsed[n]) /\ IsSafe(rs[i], Parsed[n])
      /\ ApplyRows(Parsed, rs)[n] = Updated(Parsed[n], rs[i])
  BY <1>2, OwnRow
<1>4. DOMAIN Parsed[n] = ItemFields /\ DOMAIN Parsed[n].values = Fields
  BY ParsedItems
<1>5. /\ f \in Applied(rs[i])
      /\ ApplyRows(Parsed, rs)[n].values[f] = NewValue(rs[i], f)
  BY <1>3, <1>4, UpdatedItem
<1>6. \E quote \in Parsed[n].quotes : \E v \in quote[f] : NewValue(rs[i], f) \in Written(f, v)
  BY <1>3, <1>4, <1>5, AppliedField
<1> QED BY <1>3, <1>5, <1>6

\* The rows counted as applied are as many as the items they changed.
LEMMA CountIsTrue ==
  ASSUME NEW rs, AreSafe(rs)
  PROVE  Counts(Parsed, rs).applied =
           Cardinality({n \in DOMAIN Parsed : ApplyRows(Parsed, rs)[n].values # Parsed[n].values})
<1> DEFINE A == {i \in DOMAIN rs \ Lost(Parsed, rs) :
                   rs[i].decision = "PROPOSE_CHANGE" /\ Applied(rs[i]) # {}}
           B == {n \in DOMAIN Parsed : ApplyRows(Parsed, rs)[n].values # Parsed[n].values}
           Owner(i) == {n \in DOMAIN Parsed : SpaceNormal(rs[i].id) = Parsed[n].id}
           h == [i \in A |-> CHOOSE n \in Owner(i) : TRUE]
<1>1. Counts(Parsed, rs).applied = Cardinality(A)
  BY DEF Counts
<1>2. ASSUME NEW i \in A
      PROVE  h[i] \in B /\ i \in RowsFor(Parsed[h[i]], rs)
  <2>1. i \in DOMAIN rs /\ rs[i].decision = "PROPOSE_CHANGE" /\ Applied(rs[i]) # {}
    OBVIOUS
  <2>2. Owner(i) # {}
    BY <1>2 DEF Lost
  <2>3. h[i] \in Owner(i)
    BY <2>2
  <2> DEFINE n == h[i]
  <2> HIDE DEF h, A
  <2>4. n \in DOMAIN Parsed /\ i \in RowsFor(Parsed[n], rs)
    BY <2>1, <2>3 DEF RowsFor
  <2>5. IsSafe(rs[i], Parsed[n]) /\ ApplyRows(Parsed, rs)[n] = Updated(Parsed[n], rs[i])
    BY <2>4, OwnRow
  <2>6. DOMAIN Parsed[n] = ItemFields /\ DOMAIN Parsed[n].values = Fields
    BY <2>4, ParsedItems
  <2>7. ApplyRows(Parsed, rs)[n].values # Parsed[n].values
    BY <2>1, <2>5, <2>6, UpdatedItem
  <2> QED BY <2>4, <2>7
<1>3. ASSUME NEW n \in B PROVE \E i \in A : h[i] = n
  <2>1. n \in DOMAIN Parsed /\ ApplyRows(Parsed, rs)[n].values # Parsed[n].values
    OBVIOUS
  <2>2. RowsFor(Parsed[n], rs) # {}
    BY <2>1, NoRow
  <2>3. PICK i \in RowsFor(Parsed[n], rs) : TRUE
    BY <2>2
  <2>4. IsSafe(rs[i], Parsed[n]) /\ ApplyRows(Parsed, rs)[n] = Updated(Parsed[n], rs[i])
    BY <2>1, <2>3, OwnRow
  <2>5. DOMAIN Parsed[n] = ItemFields /\ DOMAIN Parsed[n].values = Fields
    BY <2>1, ParsedItems
  <2>6. rs[i].decision = "PROPOSE_CHANGE" /\ Applied(rs[i]) # {}
    BY <2>1, <2>4, <2>5, UpdatedItem
  <2>7. i \in DOMAIN rs /\ SpaceNormal(rs[i].id) = Parsed[n].id
    BY <2>3 DEF RowsFor
  <2>8. i \in A
    BY <2>1, <2>6, <2>7 DEF Lost
  <2>9. Owner(i) = {n}
    BY <2>1, <2>7, ParsedItems
  <2>10. h[i] = n
    BY <2>8, <2>9
  <2> QED BY <2>8, <2>10
<1>4. ASSUME NEW i \in A, NEW j \in A, h[i] = h[j] PROVE i = j
  <2>1. h[i] \in DOMAIN Parsed
    BY <1>2
  <2>2. i \in RowsFor(Parsed[h[i]], rs) /\ j \in RowsFor(Parsed[h[i]], rs)
    BY <1>2, <1>4
  <2> HIDE DEF h, A
  <2>3. RowsFor(Parsed[h[i]], rs) = {i}
    BY <2>1, <2>2, OwnRow
  <2> QED BY <2>2, <2>3
<1>5. h \in Bijection(A, B)
  <2>1. h \in [A -> B]
    BY <1>2
  <2> HIDE DEF h, A, B
  <2> QED BY <2>1, <1>3, <1>4 DEF Bijection, Injection, Surjection, IsInjective
<1>6. IsFiniteSet(A)
  <2>1. DOMAIN rs = 1..Len(rs) /\ Len(rs) \in Nat
    BY DEF AreSafe
  <2>2. IsFiniteSet(1..Len(rs)) /\ A \subseteq 1..Len(rs)
    BY <2>1, FS_Interval
  <2> HIDE DEF A
  <2> QED BY <2>2, FS_Subset
<1> HIDE DEF A, B, h
<1>7. Cardinality(B) = Cardinality(A)
  BY <1>5, <1>6, FS_Bijection DEF ExistsBijection
<1> QED BY <1>1, <1>7 DEF B

\* With nothing applied nothing has changed.
LEMMA NothingChanged == NoCounts.applied = Cardinality({n \in DOMAIN Parsed : Parsed[n].values # Parsed[n].values})
<1>1. {n \in DOMAIN Parsed : Parsed[n].values # Parsed[n].values} = {}
  OBVIOUS
<1> QED BY <1>1, FS_EmptySet DEF NoCounts

-----------------------------------------------------------------------------
(***************************************************************************)
(* The inductive invariant.                                                *)
(***************************************************************************)
IdsOf(s) == {s[i].id : i \in DOMAIN s}

InStage    == pc \in {"stage", "request", "pause", "decide"}
InBatches  == pc \in {"request", "pause"}
InRun(c)   == run.command = c
AfterStage == pc \in {"decide", "report", "done"} \/ (pc = "export" /\ InRun("folder"))
AfterApply == pc \in {"export", "report", "done"} /\ InRun("folder")
Exported   == pc \in {"report", "done"} \/ (InStage /\ InRun("assignment"))

\* The items are those parsed until the rows are applied to them, all at once.
ItemsInv ==
  /\ pc \in {"start", "parse"} => items = <<>>
  /\ InStage => items = Parsed
  /\ pc \in {"start", "parse"} \/ InStage => counts = None
  /\ pc \in {"export", "report", "done"} /\ InRun("assignment") => items = Parsed /\ counts = None
  /\ AfterApply => \/ items = Parsed /\ counts = NoCounts
                   \/ items = ApplyRows(Parsed, rows) /\ counts = Counts(Parsed, rows)
  /\ items \in {<<>>, Parsed, ApplyRows(Parsed, rows)}

\* What was selected: items in doubt, all of them if there are as many as candidates.
SelectedInv ==
  InBatches =>
    /\ selected \in Seq(Range(Parsed)) /\ IsInjective(selected)
    /\ \A i \in DOMAIN selected : IsCandidate(selected[i])
    /\ Len(selected) = Len(Candidates)
         => \A n \in DOMAIN Parsed : IsCandidate(Parsed[n]) => Parsed[n].id \in IdsOf(selected)

\* While batches are asked about, every batch before the last has its rows.
BatchesInv ==
  InBatches =>
    /\ manifest \in Seq({"PROCESSING", "VERIFIED"}) /\ manifest # <<>>
    /\ manifest[Len(manifest)] = "PROCESSING"
    /\ \A b \in 1..(Len(manifest) - 1) : manifest[b] = "VERIFIED"
    /\ BatchSize \in Nat \ {0}
    /\ Len(rows) = (Len(manifest) - 1) * BatchSize /\ Len(rows) < Len(selected)
    /\ IdsOf(rows) = {selected[i].id : i \in 1..Len(rows)}

\* A verified stage returns a row for each item selected.
StageInv ==
  AfterStage =>
    /\ stage.error => stage.status # "VERIFIED"
    /\ stage.status = "VERIFIED" =>
         /\ stage.rows = rows
         /\ \A b \in DOMAIN manifest : manifest[b] = "VERIFIED"
         /\ IdsOf(rows) = IdsOf(selected)
         /\ stage.coverage =>
              \A n \in DOMAIN Parsed : IsCandidate(Parsed[n]) => Parsed[n].id \in IdsOf(rows)

\* The status follows from the stage; the workbook holds the items, or is not there.
OutputInv ==
  /\ InRun("assignment") \/ InStage \/ pc \in {"start", "parse"} => status = "SUCCESS"
  /\ AfterApply => status = RunStatus
  /\ ~Exported /\ pc \notin {"raised", "dead"} => xlsx = <<>>
  /\ Exported => xlsx = IF status = "FAILED_LLM_REQUIRED" THEN <<>>
                        ELSE <<OutputRows(items, RunResolution)>>

FolderInv ==
  /\ run \in Runs
  /\ AreSafe(rows)
  /\ ItemsInv /\ SelectedInv /\ BatchesInv /\ StageInv /\ OutputInv /\ ReportIsTrue

-----------------------------------------------------------------------------
\* A sequence is one over its own elements.
LEMMA OwnRange ==
  ASSUME NEW E, NEW s \in Seq(E)
  PROVE  s \in Seq(Range(s)) /\ Range(s) \subseteq E
<1>1. DOMAIN s = 1..Len(s) /\ Len(s) \in Nat /\ s = [i \in 1..Len(s) |-> s[i]]
  OBVIOUS
<1>2. s \in [1..Len(s) -> Range(s)]
  BY <1>1 DEF Range
<1>3. Range(s) \subseteq E
  BY DEF Range
<1> QED BY <1>1, <1>2, <1>3

\* The candidates, in either order: the items in doubt, each once.
LEMMA CandidatesAre ==
  ASSUME items = Parsed
  PROVE  /\ Candidates \in Seq(Range(Parsed)) /\ IsInjective(Candidates)
         /\ Range(Candidates) = {item \in Range(Parsed) : IsCandidate(item)}
         /\ Ordered \in Seq(Range(Parsed)) /\ IsInjective(Ordered)
         /\ Range(Ordered) = Range(Candidates) /\ Len(Ordered) = Len(Candidates)
<1> DEFINE E == Range(Parsed)
           T == {item \in Range(items) : IsCandidate(item)}
           C == Candidates
           R == {item \in Range(C) : item.columns}
           S == Range(C) \ R
<1>1. Parsed \in Seq(E) /\ IsInjective(Parsed)
  BY ParsedItems
<1>2. C = Only(items, T)
  BY Zenon DEF Candidates
<1>3. C \in Seq(E) /\ Range(C) = T /\ IsInjective(C)
  <2> HIDE DEF C
  <2>1. /\ Only(Parsed, T) \in Seq(E) /\ Range(Only(Parsed, T)) = E \cap T
        /\ IsInjective(Only(Parsed, T))
    <3> HIDE DEF E, T
    <3>1. Range(Parsed) = E
      BY DEF E
    <3> QED BY <1>1, <3>1, OnlyKeeps
  <2>2. E \cap T = T
    OBVIOUS
  <2> HIDE DEF E, T
  <2> QED BY <1>2, <2>1, <2>2
<1> DEFINE read == Only(C, R)
           rest == Only(C, S)
<1>4. Ordered = read \o rest
  BY Zenon DEF Ordered
<1> HIDE DEF C, E
<1>5. /\ read \in Seq(E) /\ Range(read) = R /\ IsInjective(read)
      /\ rest \in Seq(E) /\ Range(rest) = S /\ IsInjective(rest)
  <2>1. Range(C) \cap R = R /\ Range(C) \cap S = S
    OBVIOUS
  <2> HIDE DEF R, S
  <2> QED BY <1>3, <2>1, OnlyKeeps
<1>6. R \cap S = {} /\ R \cup S = Range(C)
  OBVIOUS
<1> HIDE DEF R, S, read, rest
<1>7. Ordered \in Seq(E) /\ Range(Ordered) = Range(C) /\ IsInjective(Ordered)
  <2>1. /\ read \o rest \in Seq(E) /\ Range(read \o rest) = Range(read) \cup Range(rest)
        /\ IsInjective(read) /\ IsInjective(rest) /\ Range(read) \cap Range(rest) = {}
             => IsInjective(read \o rest)
    BY <1>5, Joined
  <2> QED BY <1>4, <1>5, <1>6, <2>1
<1>8. Len(Ordered) = Len(C)
  <2>1. /\ Len(Ordered) \in Nat /\ Ordered = [i \in 1..Len(Ordered) |-> Ordered[i]]
        /\ Len(C) \in Nat /\ C = [i \in 1..Len(C) |-> C[i]]
    BY <1>3, <1>7
  <2> QED BY <2>1, <1>3, <1>7, SameLength
<1>9. T = {item \in Range(Parsed) : IsCandidate(item)}
  OBVIOUS
<1> HIDE DEF T
<1> QED BY <1>3, <1>7, <1>8, <1>9 DEF C, E

\* The selection: some of the candidates, and all of them if it is as long.
LEMMA SelectionIs ==
  ASSUME run \in Runs, items = Parsed
  PROVE  /\ Selection \in Seq(Range(Parsed)) /\ IsInjective(Selection)
         /\ \A i \in DOMAIN Selection : IsCandidate(Selection[i])
         /\ Len(Selection) = Len(Candidates)
              => \A n \in DOMAIN Parsed : IsCandidate(Parsed[n]) => Parsed[n].id \in IdsOf(Selection)
<1> DEFINE all == IF run.command = "folder" THEN Ordered ELSE Candidates
           k == IF Len(all) < run.maxCases THEN Len(all) ELSE run.maxCases
           E == Range(Parsed)
<1>1. /\ all \in Seq(E) /\ IsInjective(all)
      /\ Range(all) = {item \in E : IsCandidate(item)}
      /\ Len(all) = Len(Candidates)
  BY CandidatesAre
<1>2. Selection = IF run.maxCases = 0 THEN all ELSE SubSeq(all, 1, k)
  BY DEF Selection
<1>3. run.maxCases \in Int
  BY LlmStageAssumption
<1> HIDE DEF all, E
<1>4. Len(all) \in Nat /\ DOMAIN all = 1..Len(all)
  BY <1>1
<1>5. k \in Int /\ k <= Len(all)
  BY <1>3, <1>4
<1> HIDE DEF k
<1>6. PICK m \in 0..Len(all) : /\ Selection \in Seq(E) /\ Len(Selection) = m
                               /\ \A i \in 1..m : Selection[i] = all[i]
  <2>1. CASE run.maxCases = 0
    <3>1. Selection = all
      BY <2>1, <1>2
    <3>2. Len(all) \in 0..Len(all) /\ Selection \in Seq(E) /\ Len(Selection) = Len(all)
      BY <3>1, <1>1, <1>4
    <3> QED BY <3>1, <3>2
  <2>2. CASE run.maxCases # 0 /\ k >= 1
    <3>1. SubSeq(all, 1, k) \in Seq(E) /\ Len(SubSeq(all, 1, k)) = k
          /\ \A i \in 1..k : SubSeq(all, 1, k)[i] = all[i]
      BY <2>2, <1>1, <1>4, <1>5
    <3>2. Selection = SubSeq(all, 1, k) /\ k \in 0..Len(all)
      BY <2>2, <1>2, <1>4, <1>5
    <3> QED BY <3>1, <3>2
  <2>3. CASE run.maxCases # 0 /\ k < 1
    <3>1. SubSeq(all, 1, k) = <<>>
      BY <2>3, <1>1, <1>4, <1>5
    <3>2. Selection = <<>> /\ 0 \in 0..Len(all)
      BY <3>1, <2>3, <1>2, <1>4
    <3>3. Selection \in Seq(E) /\ Len(Selection) = 0 /\ \A i \in 1..0 : Selection[i] = all[i]
      BY <3>2
    <3> QED BY <3>2, <3>3
  <2> QED BY <2>1, <2>2, <2>3, <1>5
<1>7. DOMAIN Selection = 1..m /\ \A i \in 1..m : i \in DOMAIN all
  BY <1>4, <1>6
<1>8. IsInjective(Selection)
  BY <1>1, <1>6, <1>7 DEF IsInjective
<1>9. \A i \in DOMAIN Selection : IsCandidate(Selection[i])
  <2>1. \A i \in DOMAIN all : IsCandidate(all[i])
    BY <1>1 DEF Range
  <2> QED BY <2>1, <1>6, <1>7
<1>10. ASSUME Len(Selection) = Len(Candidates), NEW n \in DOMAIN Parsed, IsCandidate(Parsed[n])
       PROVE  Parsed[n].id \in IdsOf(Selection)
  <2>1. m = Len(all)
    BY <1>10, <1>1, <1>6
  <2>2. Parsed[n] \in Range(all)
    BY <1>10, <1>1 DEF E, Range
  <2>3. PICK i \in DOMAIN all : all[i] = Parsed[n]
    BY <2>2 DEF Range
  <2>4. i \in DOMAIN Selection /\ Selection[i] = Parsed[n]
    BY <2>1, <2>3, <1>4, <1>6, <1>7
  <2> QED BY <2>4 DEF IdsOf
<1> QED BY <1>6, <1>8, <1>9, <1>10 DEF E

\* The rows of one more batch.
More(answer) == rows \o SafeRows(answer, Batch)

\* The batch under way: the items after those that have their rows.
LEMMA BatchIs ==
  ASSUME SelectedInv, BatchesInv, InBatches, AreSafe(rows)
  PROVE  \E size \in 1..BatchSize :
           /\ Len(rows) + size <= Len(selected)
           /\ Len(rows) + size < Len(selected) => size = BatchSize
           /\ Batch \in Seq(Range(Parsed)) /\ Len(Batch) = size
           /\ \A i \in 1..size : Batch[i] = selected[Len(rows) + i]
<1> DEFINE first == (Len(manifest) - 1) * BatchSize + 1
           last  == first + BatchSize - 1
           end   == IF last < Len(selected) THEN last ELSE Len(selected)
           size  == end - Len(rows)
<1>1. /\ selected \in Seq(Range(Parsed)) /\ Len(selected) \in Nat /\ Len(rows) \in Nat
      /\ BatchSize \in Nat /\ BatchSize >= 1 /\ Len(rows) < Len(selected)
      /\ Len(rows) = (Len(manifest) - 1) * BatchSize
  BY DEF SelectedInv, BatchesInv, AreSafe
<1>2. first = Len(rows) + 1
  BY <1>1
<1>3. Batch = SubSeq(selected, first, end)
  BY DEF Batch
<1> HIDE DEF first
<1>4. /\ end \in Nat /\ first <= end /\ end <= Len(selected) /\ end <= Len(rows) + BatchSize
      /\ end < Len(selected) => end = Len(rows) + BatchSize
  BY <1>1, <1>2
<1> HIDE DEF end
<1>5. /\ Batch \in Seq(Range(Parsed)) /\ Len(Batch) = end - first + 1
      /\ \A i \in 1..(end - first + 1) : Batch[i] = selected[first + i - 1]
  BY <1>1, <1>2, <1>3, <1>4
<1>6. /\ size \in 1..BatchSize /\ size = end - first + 1
      /\ Len(rows) + size <= Len(selected)
      /\ Len(rows) + size < Len(selected) => size = BatchSize
  BY <1>1, <1>2, <1>4
<1>7. \A i \in 1..size : Batch[i] = selected[Len(rows) + i]
  <2>1. \A i \in 1..size : first + i - 1 = Len(rows) + i
    BY <1>1, <1>2, <1>6
  <2> HIDE DEF size
  <2> QED BY <2>1, <1>5, <1>6
<1> HIDE DEF size
<1> QED BY <1>5, <1>6, <1>7

\* An accepted answer has a safe row for each item of the batch.
LEMMA AnswerIsSafe ==
  ASSUME SelectedInv, BatchesInv, InBatches, AreSafe(rows),
         NEW answer, Answers(answer, Batch)
  PROVE  LET safe == SafeRows(answer, Batch)
         IN  /\ safe \in Seq(Range(safe)) /\ Len(safe) = Len(Batch)
             /\ \A i, j \in DOMAIN safe : safe[i].id = safe[j].id => i = j
             /\ IdsOf(safe) = IdsOf(Batch)
             /\ \A i \in DOMAIN safe : \E n \in DOMAIN Parsed :
                  IsCandidate(Parsed[n]) /\ IsSafe(safe[i], Parsed[n])
<1> DEFINE safe == SafeRows(answer, Batch)
           ids == [i \in DOMAIN answer |-> answer[i].id]
           asked == [i \in DOMAIN Batch |-> Batch[i].id]
<1>1. /\ answer \in Seq(Range(answer)) /\ \A i \in DOMAIN answer : FitsSchema(answer[i])
      /\ IsInjective(ids) /\ Range(ids) = IdsOf(Batch)
  BY DEF Answers, IdsOf
<1>2. Len(answer) \in Nat /\ DOMAIN answer = 1..Len(answer)
  BY <1>1
<1>3. PICK size \in 1..BatchSize :
        /\ Len(rows) + size <= Len(selected)
        /\ Batch \in Seq(Range(Parsed)) /\ Len(Batch) = size
        /\ \A i \in 1..size : Batch[i] = selected[Len(rows) + i]
  BY BatchIs
<1>4. Len(rows) \in Nat /\ size \in Nat /\ DOMAIN Batch = 1..size
  <2>1. BatchSize \in Nat
    BY DEF BatchesInv
  <2> QED BY <2>1, <1>3 DEF AreSafe
<1>5. /\ selected \in Seq(Range(Parsed)) /\ IsInjective(selected)
      /\ DOMAIN selected = 1..Len(selected) /\ Len(selected) \in Nat
      /\ \A i \in DOMAIN selected : IsCandidate(selected[i])
  BY DEF SelectedInv
<1>6. ASSUME NEW i \in 1..size
      PROVE  /\ Len(rows) + i \in DOMAIN selected
             /\ IsCandidate(Batch[i])
             /\ \E n \in DOMAIN Parsed : Batch[i] = Parsed[n]
  <2>1. Len(rows) + i \in DOMAIN selected
    BY <1>3, <1>4, <1>5
  <2> QED BY <2>1, <1>3, <1>5 DEF Range
<1>7. \A i, j \in 1..size : Batch[i].id = Batch[j].id => i = j
  <2> SUFFICES ASSUME NEW i \in 1..size, NEW j \in 1..size, Batch[i].id = Batch[j].id
               PROVE  i = j
    OBVIOUS
  <2>1. Batch[i] = Batch[j]
    <3>1. PICK m \in DOMAIN Parsed, n \in DOMAIN Parsed : Batch[i] = Parsed[m] /\ Batch[j] = Parsed[n]
      BY <1>6
    <3>2. Parsed[m].id = Parsed[n].id
      BY <3>1
    <3> QED BY <3>1, <3>2, ParsedItems
  <2>2. selected[Len(rows) + i] = selected[Len(rows) + j]
    BY <2>1, <1>3
  <2>3. Len(rows) + i = Len(rows) + j
    BY <2>2, <1>5, <1>6 DEF IsInjective
  <2> QED BY <2>3, <1>4
<1>8. Len(answer) = size
  <2>1. IsInjective(asked) /\ Range(asked) = IdsOf(Batch)
    BY <1>4, <1>7 DEF IsInjective, Range, IdsOf
  <2>2. ids = [i \in 1..Len(answer) |-> ids[i]] /\ asked = [i \in 1..size |-> asked[i]]
    BY <1>2, <1>4
  <2> HIDE DEF ids, asked
  <2> QED BY <2>1, <2>2, <1>1, <1>2, <1>4, SameLength
<1>9. safe = [i \in 1..size |-> Reconcile(Guarded(answer[i], ItemOf(Batch, answer[i].id)))]
  BY <1>2, <1>8 DEF SafeRows
<1>10. ASSUME NEW i \in 1..size
       PROVE  /\ safe[i].id = answer[i].id
              /\ \E n \in DOMAIN Parsed : IsCandidate(Parsed[n]) /\ IsSafe(safe[i], Parsed[n])
  <2> DEFINE item == ItemOf(Batch, answer[i].id)
  <2>1. i \in DOMAIN answer /\ answer[i].id \in Range(ids)
    BY <1>2, <1>8 DEF Range
  <2>2. \E b \in Range(Batch) : b.id = answer[i].id
    <3> HIDE DEF ids
    <3> QED BY <2>1, <1>1 DEF IdsOf, Range
  <2>3. item \in Range(Batch) /\ item.id = answer[i].id
    BY <2>2 DEF ItemOf
  <2> HIDE DEF item
  <2>4. \E n \in DOMAIN Parsed : IsCandidate(Parsed[n]) /\ item = Parsed[n]
    BY <2>3, <1>4, <1>6 DEF Range
  <2>5. IsSafe(Reconcile(Guarded(answer[i], item)), item)
    BY <2>1, <2>3, <1>1, SafeRow
  <2>6. safe[i] = Reconcile(Guarded(answer[i], item))
    BY <1>9 DEF item
  <2>7. IsSafe(safe[i], item)
    BY <2>5, <2>6
  <2>8. safe[i].id = answer[i].id
    BY <2>7, <2>3 DEF IsSafe
  <2> HIDE DEF safe
  <2> QED BY <2>4, <2>7, <2>8
<1> HIDE DEF safe
<1>11. safe \in Seq(Range(safe)) /\ Len(safe) = size /\ DOMAIN safe = 1..size
  <2>1. safe = [i \in 1..size |-> safe[i]] /\ DOMAIN safe = 1..size
    BY <1>9
  <2>2. safe \in [1..size -> Range(safe)]
    BY <2>1 DEF Range
  <2> QED BY <2>1, <2>2, <1>4
<1>12. \A i, j \in DOMAIN safe : safe[i].id = safe[j].id => i = j
  <2>1. \A i, j \in DOMAIN answer : answer[i].id = answer[j].id => i = j
    BY <1>1 DEF IsInjective
  <2> QED BY <2>1, <1>2, <1>8, <1>10, <1>11
<1>13. IdsOf(safe) = IdsOf(Batch)
  <2>1. IdsOf(safe) = Range(ids)
    BY <1>2, <1>8, <1>10, <1>11 DEF IdsOf, Range
  <2> QED BY <2>1, <1>1
<1>14. \A i \in DOMAIN safe : \E n \in DOMAIN Parsed :
         IsCandidate(Parsed[n]) /\ IsSafe(safe[i], Parsed[n])
  BY <1>10, <1>11
<1> QED BY <1>3, <1>11, <1>12, <1>13, <1>14 DEF safe

\* With one more batch there is a row for each item up to the end of that batch.
LEMMA MoreRows ==
  ASSUME SelectedInv, BatchesInv, InBatches, AreSafe(rows),
         NEW answer, Answers(answer, Batch)
  PROVE  LET more == More(answer)
         IN  /\ AreSafe(more) /\ Len(more) <= Len(selected)
             /\ IdsOf(more) = {selected[i].id : i \in 1..Len(more)}
             /\ Len(more) < Len(selected) => Len(more) = Len(manifest) * BatchSize
<1> DEFINE safe == SafeRows(answer, Batch)
           more == rows \o safe
           E == Range(rows) \cup Range(safe)
<1>1. PICK size \in 1..BatchSize :
        /\ Len(rows) + size <= Len(selected)
        /\ Len(rows) + size < Len(selected) => size = BatchSize
        /\ Batch \in Seq(Range(Parsed)) /\ Len(Batch) = size
        /\ \A i \in 1..size : Batch[i] = selected[Len(rows) + i]
  BY BatchIs
<1>2. /\ safe \in Seq(Range(safe)) /\ Len(safe) = Len(Batch)
      /\ \A i, j \in DOMAIN safe : safe[i].id = safe[j].id => i = j
      /\ IdsOf(safe) = IdsOf(Batch)
      /\ \A i \in DOMAIN safe : \E n \in DOMAIN Parsed :
           IsCandidate(Parsed[n]) /\ IsSafe(safe[i], Parsed[n])
  BY AnswerIsSafe
<1> HIDE DEF safe
<1>3. /\ rows \in Seq(Range(rows))
      /\ \A i, j \in DOMAIN rows : rows[i].id = rows[j].id => i = j
      /\ \A i \in DOMAIN rows : \E n \in DOMAIN Parsed :
           IsCandidate(Parsed[n]) /\ IsSafe(rows[i], Parsed[n])
  BY DEF AreSafe
<1>4. /\ selected \in Seq(Range(Parsed)) /\ IsInjective(selected)
      /\ DOMAIN selected = 1..Len(selected) /\ Len(selected) \in Nat
      /\ BatchSize \in Nat /\ manifest \in Seq({"PROCESSING", "VERIFIED"})
      /\ Len(rows) = (Len(manifest) - 1) * BatchSize
      /\ IdsOf(rows) = {selected[i].id : i \in 1..Len(rows)}
  BY DEF SelectedInv, BatchesInv
<1>5. /\ Len(rows) \in Nat /\ DOMAIN rows = 1..Len(rows)
      /\ size \in Nat /\ size >= 1 /\ DOMAIN safe = 1..size /\ Len(safe) = size
      /\ DOMAIN Batch = 1..size
  BY <1>1, <1>2, <1>3, <1>4
<1>6. rows \in Seq(E) /\ safe \in Seq(E)
  BY <1>2, <1>3
<1> HIDE DEF E
<1>7. /\ more \in Seq(E) /\ Len(more) = Len(rows) + size
      /\ \A i \in 1..Len(rows) : more[i] = rows[i]
      /\ \A i \in 1..size : more[Len(rows) + i] = safe[i]
  BY <1>5, <1>6, Joined
<1> HIDE DEF more
<1>8. more \in Seq(Range(more)) /\ DOMAIN more = 1..(Len(rows) + size)
  BY <1>7, OwnRange
<1>9. ASSUME NEW i \in DOMAIN more
      PROVE  \/ i \in 1..Len(rows)
             \/ \E j \in 1..size : i = Len(rows) + j
  <2>1. i \in 1..Len(rows) \/ (i - Len(rows) \in 1..size /\ i = Len(rows) + (i - Len(rows)))
    BY <1>5, <1>8
  <2> QED BY <2>1
<1>10. \A i \in DOMAIN more : \E n \in DOMAIN Parsed :
         IsCandidate(Parsed[n]) /\ IsSafe(more[i], Parsed[n])
  <2> SUFFICES ASSUME NEW i \in DOMAIN more
               PROVE  \E n \in DOMAIN Parsed : IsCandidate(Parsed[n]) /\ IsSafe(more[i], Parsed[n])
    OBVIOUS
  <2>1. CASE i \in 1..Len(rows)
    <3>1. more[i] = rows[i] /\ i \in DOMAIN rows
      BY <2>1, <1>5, <1>7
    <3> QED BY <3>1, <1>3
  <2>2. CASE i \notin 1..Len(rows)
    <3>1. PICK j \in 1..size : i = Len(rows) + j
      BY <2>2, <1>9
    <3>2. more[i] = safe[j] /\ j \in DOMAIN safe
      BY <3>1, <1>5, <1>7
    <3> QED BY <3>2, <1>2
  <2> QED BY <2>1, <2>2
<1>11. \A i \in 1..size : safe[i].id \in {selected[Len(rows) + j].id : j \in 1..size}
  <2> SUFFICES ASSUME NEW i \in 1..size
               PROVE  safe[i].id \in {selected[Len(rows) + j].id : j \in 1..size}
    OBVIOUS
  <2>1. safe[i].id \in IdsOf(Batch)
    BY <1>2, <1>5 DEF IdsOf
  <2>2. PICK j \in 1..size : safe[i].id = Batch[j].id
    BY <2>1, <1>5 DEF IdsOf
  <2> QED BY <2>2, <1>1
<1>12. \A i \in 1..Len(rows), j \in 1..size : rows[i].id # safe[j].id
  <2> SUFFICES ASSUME NEW i \in 1..Len(rows), NEW j \in 1..size, rows[i].id = safe[j].id
               PROVE  FALSE
    OBVIOUS
  <2>1. PICK a \in 1..Len(rows) : rows[i].id = selected[a].id
    BY <1>4, <1>5 DEF IdsOf
  <2>2. PICK b \in 1..size : safe[j].id = selected[Len(rows) + b].id
    BY <1>11
  <2>3. a \in DOMAIN selected /\ Len(rows) + b \in DOMAIN selected /\ a # Len(rows) + b
    BY <1>1, <1>4, <1>5
  <2>4. selected[a] \in Range(Parsed) /\ selected[Len(rows) + b] \in Range(Parsed)
    BY <2>3, <1>4
  <2>5. selected[a] = selected[Len(rows) + b]
    <3>1. PICK m \in DOMAIN Parsed, n \in DOMAIN Parsed :
            selected[a] = Parsed[m] /\ selected[Len(rows) + b] = Parsed[n]
      BY <2>4 DEF Range
    <3>2. Parsed[m].id = Parsed[n].id
      BY <2>1, <2>2, <3>1
    <3> QED BY <3>1, <3>2, ParsedItems
  <2> QED BY <2>3, <2>5, <1>4 DEF IsInjective
<1>13. \A i, j \in DOMAIN more : more[i].id = more[j].id => i = j
  <2> SUFFICES ASSUME NEW i \in DOMAIN more, NEW j \in DOMAIN more, more[i].id = more[j].id
               PROVE  i = j
    OBVIOUS
  <2>1. CASE i \in 1..Len(rows) /\ j \in 1..Len(rows)
    BY <2>1, <1>3, <1>5, <1>7
  <2>2. CASE i \in 1..Len(rows) /\ j \notin 1..Len(rows)
    BY <2>2, <1>7, <1>9, <1>12
  <2>3. CASE i \notin 1..Len(rows) /\ j \in 1..Len(rows)
    <3>1. PICK a \in 1..size : i = Len(rows) + a
      BY <2>3, <1>9
    <3>2. more[i] = safe[a] /\ more[j] = rows[j]
      BY <2>3, <3>1, <1>7
    <3> QED BY <2>3, <3>2, <1>12
  <2>4. CASE i \notin 1..Len(rows) /\ j \notin 1..Len(rows)
    <3>1. PICK a \in 1..size : i = Len(rows) + a
      BY <2>4, <1>9
    <3>2. PICK b \in 1..size : j = Len(rows) + b
      BY <2>4, <1>9
    <3>3. safe[a].id = safe[b].id /\ a \in DOMAIN safe /\ b \in DOMAIN safe
      BY <3>1, <3>2, <1>5, <1>7
    <3> QED BY <3>1, <3>2, <3>3, <1>2
  <2> QED BY <2>1, <2>2, <2>3, <2>4
<1>14. IdsOf(more) = {selected[i].id : i \in 1..Len(more)}
  <2>1. ASSUME NEW i \in DOMAIN more
        PROVE  more[i].id \in {selected[k].id : k \in 1..Len(more)}
    <3>1. CASE i \in 1..Len(rows)
      <4>1. more[i].id \in IdsOf(rows)
        BY <3>1, <1>5, <1>7 DEF IdsOf
      <4>2. PICK a \in 1..Len(rows) : more[i].id = selected[a].id
        BY <4>1, <1>4
      <4>3. a \in 1..Len(more)
        BY <1>5, <1>7
      <4> QED BY <4>2, <4>3
    <3>2. CASE i \notin 1..Len(rows)
      <4>1. PICK j \in 1..size : more[i].id = safe[j].id
        BY <3>2, <1>7, <1>9
      <4>2. PICK b \in 1..size : safe[j].id = selected[Len(rows) + b].id
        BY <1>11
      <4>3. Len(rows) + b \in 1..Len(more)
        BY <1>5, <1>7
      <4> QED BY <4>1, <4>2, <4>3
    <3> QED BY <3>1, <3>2
  <2>2. ASSUME NEW i \in 1..Len(more)
        PROVE  selected[i].id \in IdsOf(more)
    <3>0. i \in DOMAIN more
      BY <1>7, <1>8
    <3>1. CASE i \in 1..Len(rows)
      <4>1. selected[i].id \in IdsOf(rows)
        BY <3>1, <1>4
      <4>2. PICK a \in 1..Len(rows) : selected[i].id = rows[a].id
        BY <4>1, <1>5 DEF IdsOf
      <4>3. a \in DOMAIN more /\ more[a] = rows[a]
        BY <1>5, <1>7, <1>8
      <4> QED BY <4>2, <4>3 DEF IdsOf
    <3>2. CASE i \notin 1..Len(rows)
      <4>1. PICK j \in 1..size : i = Len(rows) + j
        BY <3>0, <3>2, <1>9
      <4>2. selected[i].id \in IdsOf(safe)
        BY <4>1, <1>1, <1>2, <1>5 DEF IdsOf
      <4>3. PICK b \in 1..size : selected[i].id = safe[b].id
        BY <4>2, <1>5 DEF IdsOf
      <4>4. Len(rows) + b \in DOMAIN more /\ more[Len(rows) + b] = safe[b]
        BY <1>5, <1>7, <1>8
      <4> QED BY <4>3, <4>4 DEF IdsOf
    <3> QED BY <3>1, <3>2
  <2>3. \A id \in IdsOf(more) : id \in {selected[k].id : k \in 1..Len(more)}
    BY <2>1 DEF IdsOf
  <2>4. \A id \in {selected[k].id : k \in 1..Len(more)} : id \in IdsOf(more)
    BY <2>2
  <2> QED BY <2>3, <2>4
<1>15. Len(more) < Len(selected) => Len(more) = Len(manifest) * BatchSize
  <2>1. Len(manifest) \in Nat
    BY <1>4
  <2>2. (Len(manifest) - 1) * BatchSize + BatchSize = Len(manifest) * BatchSize
    BY <2>1, <1>4
  <2> QED BY <2>2, <1>1, <1>4, <1>5, <1>7
<1>16. AreSafe(more)
  BY <1>8, <1>10, <1>13 DEF AreSafe
<1>17. Len(more) <= Len(selected)
  BY <1>1, <1>7
<1>18. More(answer) = more
  BY DEF More, more, safe
<1> QED BY <1>14, <1>15, <1>16, <1>17, <1>18

-----------------------------------------------------------------------------
(***************************************************************************)
(* Each step preserves it.                                                 *)
(***************************************************************************)
LEMMA NoRows == AreSafe(<<>>)
<1>1. DOMAIN <<>> = {} /\ <<>> \in Seq(Range(<<>>))
  OBVIOUS
<1> QED BY <1>1 DEF AreSafe

\* The invariant holds before a run starts.
LEMMA InitFolder == Init => FolderInv
<1> SUFFICES ASSUME Init PROVE FolderInv
  OBVIOUS
<1>1. /\ run \in Runs /\ pc = "start" /\ items = <<>> /\ rows = <<>> /\ xlsx = <<>>
      /\ status = "SUCCESS" /\ counts = None
  BY DEF Init, StageInit
<1>2. AreSafe(rows)
  BY <1>1, NoRows
<1>3. ItemsInv
  BY <1>1 DEF ItemsInv, InStage, AfterApply
<1>4. SelectedInv /\ BatchesInv
  BY <1>1 DEF SelectedInv, BatchesInv, InBatches
<1>5. StageInv
  BY <1>1 DEF StageInv, AfterStage
<1>6. OutputInv
  BY <1>1 DEF OutputInv, InStage, AfterApply, Exported
<1>7. ReportIsTrue
  BY <1>1 DEF ReportIsTrue
<1> QED BY <1>1, <1>2, <1>3, <1>4, <1>5, <1>6, <1>7 DEF FolderInv

\* What depends on the run and its items stays when they do.
LEMMA SameItems ==
  ASSUME UNCHANGED <<run, items>>
  PROVE  RunResolution' = RunResolution /\ OutputRows(items, RunResolution)' = OutputRows(items, RunResolution)
<1>1. RunResolution' = RunResolution
  BY DEF RunResolution, Profiles
<1> QED BY <1>1

\* Status and batch size depend on the arguments and the stage alone.
LEMMA SameStage ==
  ASSUME UNCHANGED <<run, provider, stageVars>>
  PROVE  RunStatus' = RunStatus /\ BatchSize' = BatchSize
<1>1. RequirementMet' = RequirementMet
  BY DEF RequirementMet, stageVars
<1>2. run' = run /\ stage' = stage /\ selected' = selected
  BY DEF stageVars
<1>3. RunStatus' = RunStatus
  BY <1>1, <1>2, Zenon DEF RunStatus
<1> QED BY <1>2, <1>3 DEF BatchSize

\* A run may end, with an exception or killed, wherever it is.
LEMMA StopsFolder ==
  ASSUME FolderInv, pc' \in {"raised", "dead"}, UNCHANGED <<run, items, status>>,
         AreSafe(rows)', rows' = rows \/ items = Parsed
  PROVE  FolderInv'
<1>1. run \in Runs /\ ItemsInv
  BY DEF FolderInv
<1>2. run' \in Runs
  BY <1>1
<1>3. ItemsInv'
  BY <1>1 DEF ItemsInv, InStage, AfterApply
<1>4. SelectedInv' /\ BatchesInv'
  BY DEF SelectedInv, BatchesInv, InBatches
<1>5. StageInv'
  BY DEF StageInv, AfterStage
<1>6. OutputInv'
  BY DEF FolderInv, OutputInv, InStage, AfterApply, Exported, InRun
<1>7. ReportIsTrue'
  BY DEF ReportIsTrue
<1> QED BY <1>2, <1>3, <1>4, <1>5, <1>6, <1>7 DEF FolderInv

\* A stutter keeps the invariant.
LEMMA SameFolder == ASSUME FolderInv, UNCHANGED vars PROVE FolderInv'
<1>1. /\ UNCHANGED <<run, pc, provider, items, stageVars, xlsx, counts, status, report>>
      /\ UNCHANGED <<selected, manifest, attempt, rows, stage>>
  BY DEF vars, outVars, stageVars
<1>2. /\ RunResolution' = RunResolution /\ RunStatus' = RunStatus /\ BatchSize' = BatchSize
      /\ OutputRows(items, RunResolution)' = OutputRows(items, RunResolution)
  BY <1>1, SameItems, SameStage
<1>3. run' \in Runs /\ AreSafe(rows)'
  BY <1>1 DEF FolderInv, AreSafe
<1>4. ItemsInv'
  BY <1>1 DEF FolderInv, ItemsInv, InStage, AfterApply, InRun
<1>5. SelectedInv'
  BY <1>1 DEF FolderInv, SelectedInv, InBatches, Candidates
<1>6. BatchesInv'
  BY <1>1, <1>2 DEF FolderInv, BatchesInv, InBatches
<1>7. StageInv'
  BY <1>1 DEF FolderInv, StageInv, AfterStage, InRun
<1>8. OutputInv'
  BY <1>1, <1>2 DEF FolderInv, OutputInv, InStage, AfterApply, Exported, InRun
<1>9. ReportIsTrue'
  BY <1>1, <1>2 DEF FolderInv, ReportIsTrue
<1> QED BY <1>3, <1>4, <1>5, <1>6, <1>7, <1>8, <1>9 DEF FolderInv

\* Start resolves the provider or raises.
LEMMA StartFolder == ASSUME FolderInv, Start PROVE FolderInv'
<1>1. /\ pc = "start" /\ pc' \in {"parse", "raised"}
      /\ UNCHANGED <<run, items, xlsx, counts, status, report, rows>>
  BY DEF Start, outVars, stageVars
<1>2. CASE pc' = "raised"
  <2>1. AreSafe(rows)'
    BY <1>1 DEF FolderInv, AreSafe
  <2> QED BY <1>1, <1>2, <2>1, StopsFolder
<1>3. CASE pc' = "parse"
  <2>1. run' \in Runs /\ AreSafe(rows)'
    BY <1>1 DEF FolderInv, AreSafe
  <2>2. ItemsInv'
    BY <1>1, <1>3 DEF FolderInv, ItemsInv, InStage, AfterApply
  <2>3. SelectedInv' /\ BatchesInv' /\ StageInv' /\ ReportIsTrue'
    BY <1>3 DEF SelectedInv, BatchesInv, InBatches, StageInv, AfterStage, ReportIsTrue
  <2>4. OutputInv'
    BY <1>1, <1>3 DEF FolderInv, OutputInv, InStage, AfterApply, Exported
  <2> QED BY <2>1, <2>2, <2>3, <2>4 DEF FolderInv
<1> QED BY <1>1, <1>2, <1>3

\* Parse leaves the items as the parser found them.
LEMMA ParseFolder == ASSUME FolderInv, Parse PROVE FolderInv'
<1>1. /\ pc = "parse" /\ items' = Parsed
      /\ pc' = IF run.command = "folder" THEN "stage" ELSE "export"
      /\ UNCHANGED <<run, xlsx, counts, status, report, rows>>
  BY DEF Parse, outVars, stageVars
<1>2. run' \in Runs /\ AreSafe(rows)'
  BY <1>1 DEF FolderInv, AreSafe
<1>3. ItemsInv'
  BY <1>1 DEF FolderInv, ItemsInv, InStage, AfterApply, InRun
<1>4. SelectedInv' /\ BatchesInv' /\ StageInv' /\ ReportIsTrue'
  BY <1>1 DEF SelectedInv, BatchesInv, InBatches, StageInv, AfterStage, ReportIsTrue, InRun
<1>5. OutputInv'
  BY <1>1 DEF FolderInv, OutputInv, InStage, AfterApply, Exported, InRun
<1> QED BY <1>2, <1>3, <1>4, <1>5 DEF FolderInv

\* Within the stage the output does not change.
LEMMA StageKeepsOutput ==
  ASSUME FolderInv, InStage, InStage', UNCHANGED <<run, items, outVars>>
  PROVE  OutputInv' /\ ItemsInv'
<1>1. /\ items = Parsed /\ counts = None /\ status = "SUCCESS"
      /\ Exported <=> InRun("assignment")
      /\ Exported => xlsx = <<OutputRows(items, RunResolution)>>
      /\ ~Exported => xlsx = <<>>
  BY DEF FolderInv, ItemsInv, OutputInv, InStage, Exported
<1>2. /\ UNCHANGED <<xlsx, counts, status>>
      /\ RunResolution' = RunResolution
      /\ InRun("assignment")' <=> InRun("assignment")
      /\ Exported' <=> InRun("assignment")
      /\ ~AfterApply'
  BY SameItems DEF outVars, InStage, Exported, InRun, AfterApply
<1>3. ItemsInv'
  BY <1>1, <1>2 DEF ItemsInv, InStage
<1>4. OutputInv'
  BY <1>1, <1>2 DEF OutputInv, InStage
<1> QED BY <1>3, <1>4

\* The stage ends with a result.
LEMMA StageEnds ==
  ASSUME FolderInv, pc \in {"stage", "request"}, UNCHANGED <<run, items, outVars>>,
         AreSafe(rows)', pc' = "decide", StageInv'
  PROVE  FolderInv'
<1>1. OutputInv' /\ ItemsInv'
  BY StageKeepsOutput DEF InStage
<1>2. SelectedInv' /\ BatchesInv' /\ ReportIsTrue'
  BY DEF SelectedInv, BatchesInv, InBatches, ReportIsTrue
<1>3. run' \in Runs
  BY DEF FolderInv
<1> QED BY <1>1, <1>2, <1>3 DEF FolderInv

\* Or with an error.
LEMMA StageFailsFolder ==
  ASSUME FolderInv, pc \in {"stage", "request"}, UNCHANGED <<run, items, outVars>>,
         AreSafe(rows)', StageFails
  PROVE  FolderInv'
<1>1. items = Parsed
  BY DEF FolderInv, ItemsInv, InStage
<1>2. CASE pc' = "raised"
  <2>1. UNCHANGED status
    BY DEF outVars
  <2> QED BY <1>1, <1>2, <2>1, StopsFolder
<1>3. CASE pc' = "decide" /\ stage' = FailedStage
  <2>1. stage'.status = "FAILED"
    BY <1>3 DEF FailedStage, Result
  <2>2. StageInv'
    BY <2>1 DEF StageInv
  <2> QED BY <1>3, <2>2, StageEnds
<1> QED BY <1>2, <1>3 DEF StageFails, EndStage

\* StartStage selects candidates, the first of those in doubt.
LEMMA StartStageFolder == ASSUME FolderInv, StartStage, UNCHANGED outVars PROVE FolderInv'
<1>1. /\ pc = "stage" /\ rows' = <<>> /\ UNCHANGED <<run, provider, items, outVars>>
  BY Zenon DEF StartStage
<1>2. \/ \E coverage : EndStage(Result("NOT_RUN", 0, coverage, <<>>))
      \/ \E coverage : EndStage(Result("NOT_NEEDED", 0, coverage, <<>>))
      \/ StageFails
      \/ /\ ~StageArgumentsFail /\ Selection # <<>> /\ selected' = Selection
         /\ manifest' = <<"PROCESSING">> /\ pc' = "request"
  <2> DEFINE N == provider = "none"
             A == StageArgumentsFail
             S == Selection = <<>>
  <2>1. CASE N
    BY <2>1, Zenon DEF StartStage
  <2>2. CASE ~N /\ A
    BY <2>2, Zenon DEF StartStage
  <2>3. CASE ~N /\ ~A /\ S
    BY <2>3, Zenon DEF StartStage
  <2>4. CASE ~N /\ ~A /\ ~S
    BY <2>4, Zenon DEF StartStage
  <2> QED BY <2>1, <2>2, <2>3, <2>4
<1>3. AreSafe(rows)'
  BY <1>1, NoRows DEF AreSafe
<1>4. ASSUME NEW st \in {"NOT_RUN", "NOT_NEEDED"}, NEW coverage,
             EndStage(Result(st, 0, coverage, <<>>))
      PROVE  FolderInv'
  <2>1. stage'.status = st /\ stage'.error = (st = "FAILED") /\ pc' = "decide"
    BY <1>4 DEF EndStage, Result
  <2>2. StageInv'
    BY <2>1 DEF StageInv
  <2> QED BY <1>1, <1>3, <2>1, <2>2, StageEnds
<1>5. CASE StageFails
  BY <1>1, <1>3, <1>5, StageFailsFolder
<1>6. CASE /\ ~StageArgumentsFail /\ Selection # <<>> /\ selected' = Selection
           /\ manifest' = <<"PROCESSING">> /\ pc' = "request"
  <2>1. run \in Runs /\ items = Parsed
    BY <1>1 DEF FolderInv, ItemsInv, InStage
  <2>2. OutputInv' /\ ItemsInv'
    BY <1>1, <1>6, StageKeepsOutput DEF InStage
  <2>3. /\ Selection \in Seq(Range(Parsed)) /\ IsInjective(Selection)
        /\ \A i \in DOMAIN Selection : IsCandidate(Selection[i])
        /\ Len(Selection) = Len(Candidates)
             => \A n \in DOMAIN Parsed : IsCandidate(Parsed[n]) => Parsed[n].id \in IdsOf(Selection)
    BY <2>1, SelectionIs
  <2>4. Candidates' = Candidates
    BY <1>1 DEF Candidates
  <2>5. SelectedInv'
    BY <1>6, <2>3, <2>4 DEF SelectedInv
  <2>6. Len(Selection) \in Nat \ {0}
    BY <1>6, <2>3, EmptySeq
  <2>7. BatchSize' \in Nat \ {0}
    <3>1. run.command \in {"folder", "assignment"}
      BY <2>1, LlmStageAssumption
    <3>2. run.command = "folder" => run.batchSize \in 1..10
      BY <1>6 DEF StageArgumentsFail
    <3> QED BY <3>1, <3>2, <2>6, <1>1, <1>6 DEF BatchSize
  <2>8. BatchesInv'
    <3>1. Len(manifest') = 1 /\ manifest'[1] = "PROCESSING" /\ manifest' \in Seq({"PROCESSING", "VERIFIED"})
          /\ manifest' # <<>>
      BY <1>6
    <3>2. Len(rows') = 0 /\ IdsOf(rows') = {} /\ {selected'[i].id : i \in 1..Len(rows')} = {}
      BY <1>1 DEF IdsOf
    <3>3. (Len(manifest') - 1) * BatchSize' = 0
      <4>1. Len(manifest') - 1 = 0
        BY <3>1
      <4>2. \A k \in Nat : 0 * k = 0
        OBVIOUS
      <4> QED BY <4>1, <4>2, <2>7
    <3>4. Len(selected') \in Nat \ {0} /\ \A b \in 1..(Len(manifest') - 1) : manifest'[b] = "VERIFIED"
      BY <3>1, <2>6, <1>6
    <3>5. Len(rows') = (Len(manifest') - 1) * BatchSize' /\ Len(rows') < Len(selected')
      BY <3>2, <3>3, <3>4
    <3>6. manifest'[Len(manifest')] = "PROCESSING"
      BY <3>1
    <3>7. IdsOf(rows)' = {selected'[i].id : i \in 1..Len(rows')}
      BY <3>2 DEF IdsOf
    <3> QED BY <3>1, <3>4, <3>5, <3>6, <3>7, <2>7, Zenon DEF BatchesInv
  <2>9. StageInv' /\ ReportIsTrue'
    BY <1>6 DEF StageInv, AfterStage, ReportIsTrue
  <2> QED BY <1>1, <1>3, <2>1, <2>2, <2>5, <2>8, <2>9 DEF FolderInv
<1> QED BY <1>2, <1>4, <1>5, <1>6

\* The batch whose answer is accepted is the last, or the next one begins.
LEMMA NextBatch ==
  ASSUME FolderInv, pc = "request", UNCHANGED <<run, provider, items, selected, outVars>>,
         NEW answer, Answers(answer, Batch), TakeAnswer(answer)
  PROVE  FolderInv'
<1> DEFINE more == More(answer)
           done == [manifest EXCEPT ![Len(manifest)] = "VERIFIED"]
<1>1. /\ run \in Runs /\ items = Parsed /\ AreSafe(rows)
      /\ SelectedInv /\ BatchesInv /\ InBatches
  BY DEF FolderInv, ItemsInv, InStage, InBatches
<1>2. /\ AreSafe(more) /\ Len(more) <= Len(selected)
      /\ IdsOf(more) = {selected[i].id : i \in 1..Len(more)}
      /\ Len(more) < Len(selected) => Len(more) = Len(manifest) * BatchSize
  BY <1>1, MoreRows
<1>3. /\ rows' = more
      /\ \/ /\ Len(more) < Len(selected)
            /\ manifest' = Append(done, "PROCESSING") /\ pc' = "request"
         \/ /\ ~(Len(more) < Len(selected))
            /\ manifest' = done /\ pc' = "decide"
            /\ stage' = Result("VERIFIED", Len(selected), Len(selected) = Len(Candidates), more)
  BY DEF TakeAnswer, More, SetManifest, EndStage
<1> HIDE DEF more
<1>4. AreSafe(rows)'
  <2>1. AreSafe(rows')
    BY <1>2, <1>3
  <2> QED BY <2>1 DEF AreSafe
<1>5. /\ done \in Seq({"PROCESSING", "VERIFIED"}) /\ Len(done) = Len(manifest)
      /\ Len(manifest) \in Nat /\ Len(manifest) >= 1
      /\ \A b \in 1..Len(manifest) : done[b] = "VERIFIED"
  BY <1>1 DEF BatchesInv
<1>6. selected' = selected /\ Candidates' = Candidates /\ BatchSize' = BatchSize
  BY DEF Candidates, BatchSize
<1>7. /\ BatchSize \in Nat \ {0} /\ Len(selected) \in Nat /\ DOMAIN selected = 1..Len(selected)
      /\ Len(more) \in Nat
  BY <1>1, <1>2 DEF BatchesInv, SelectedInv, AreSafe
<1> HIDE DEF done
<1>8. CASE /\ Len(more) < Len(selected)
           /\ manifest' = Append(done, "PROCESSING") /\ pc' = "request"
  <2>1. OutputInv' /\ ItemsInv'
    BY <1>8, StageKeepsOutput DEF InStage
  <2>2. SelectedInv'
    BY <1>1, <1>6 DEF SelectedInv
  <2>3. /\ manifest' \in Seq({"PROCESSING", "VERIFIED"}) /\ manifest' # <<>>
        /\ Len(manifest') = Len(manifest) + 1 /\ manifest'[Len(manifest')] = "PROCESSING"
        /\ \A b \in 1..(Len(manifest') - 1) : manifest'[b] = "VERIFIED"
    BY <1>5, <1>8
  <2>4. Len(rows') = (Len(manifest') - 1) * BatchSize' /\ Len(rows') < Len(selected')
    <3>1. Len(manifest') - 1 = Len(manifest)
      BY <2>3, <1>5
    <3> QED BY <3>1, <1>2, <1>3, <1>6, <1>8
  <2>5. IdsOf(rows)' = {selected'[i].id : i \in 1..Len(rows')}
    <3>1. IdsOf(rows') = {selected'[i].id : i \in 1..Len(rows')}
      BY <1>2, <1>3, <1>6
    <3> QED BY <3>1 DEF IdsOf
  <2>6. BatchesInv'
    BY <2>3, <2>4, <2>5, <1>6, <1>7, Zenon DEF BatchesInv
  <2>7. StageInv' /\ ReportIsTrue'
    BY <1>8 DEF StageInv, AfterStage, ReportIsTrue
  <2> QED BY <1>1, <1>4, <2>1, <2>2, <2>6, <2>7 DEF FolderInv
<1>9. CASE /\ ~(Len(more) < Len(selected))
           /\ manifest' = done /\ pc' = "decide"
           /\ stage' = Result("VERIFIED", Len(selected), Len(selected) = Len(Candidates), more)
  <2>1. Len(more) = Len(selected)
    BY <1>9, <1>2, <1>7
  <2>2. IdsOf(more) = IdsOf(selected)
    BY <2>1, <1>2, <1>7 DEF IdsOf
  <2>3. /\ stage'.status = "VERIFIED" /\ stage'.error = FALSE /\ stage'.rows = more
        /\ stage'.coverage = (Len(selected) = Len(Candidates))
    BY <1>9 DEF Result
  <2>4. \A b \in DOMAIN manifest' : manifest'[b] = "VERIFIED"
    BY <1>5, <1>9
  <2>5. Len(selected) = Len(Candidates)
          => \A n \in DOMAIN Parsed : IsCandidate(Parsed[n]) => Parsed[n].id \in IdsOf(more)
    BY <1>1, <2>2 DEF SelectedInv
  <2>6. IdsOf(rows)' = IdsOf(more) /\ IdsOf(selected)' = IdsOf(selected)
    BY <1>3, <1>6 DEF IdsOf
  <2>7. stage'.rows = rows' /\ ~stage'.error
    BY <2>3, <1>3
  <2>8. IdsOf(rows)' = IdsOf(selected)'
    BY <2>2, <2>6
  <2>9. stage'.coverage
          => \A n \in DOMAIN Parsed : IsCandidate(Parsed[n]) => Parsed[n].id \in IdsOf(rows)'
    BY <2>3, <2>5, <2>6
  <2>10. StageInv'
    BY <2>4, <2>7, <2>8, <2>9 DEF StageInv
  <2> QED BY <1>4, <1>9, <2>10, StageEnds
<1> QED BY <1>3, <1>8, <1>9

\* Request verifies a batch as a whole before its rows are kept.
LEMMA RequestFolder == ASSUME FolderInv, Request, UNCHANGED outVars PROVE FolderInv'
<1>1. /\ pc = "request" /\ UNCHANGED <<run, provider, items, selected>>
      /\ \E answer \in Possible :
           \/ Answers(answer, Batch) /\ TakeAnswer(answer)
           \/ StageFails /\ UNCHANGED rows
  BY Zenon DEF Request
<1>2. PICK answer \in Possible : \/ Answers(answer, Batch) /\ TakeAnswer(answer)
                                 \/ StageFails /\ UNCHANGED rows
  BY <1>1
<1>3. CASE Answers(answer, Batch) /\ TakeAnswer(answer)
  BY <1>1, <1>3, NextBatch
<1>4. CASE StageFails /\ UNCHANGED rows
  <2>1. AreSafe(rows)'
    BY <1>4 DEF FolderInv, AreSafe
  <2> QED BY <1>1, <1>4, <2>1, StageFailsFolder
<1> QED BY <1>2, <1>3, <1>4

\* RequestFails retries or ends the stage without rows.
LEMMA RequestFailsFolder == ASSUME FolderInv, RequestFails, UNCHANGED outVars PROVE FolderInv'
<1>1. pc = "request" /\ StageFails /\ UNCHANGED <<run, items, rows>>
  BY DEF RequestFails
<1>2. AreSafe(rows)'
  BY <1>1 DEF FolderInv, AreSafe
<1> QED BY <1>1, <1>2, StageFailsFolder

\* A pause before the request is made again.
LEMMA PauseFolder ==
  ASSUME FolderInv, InBatches, InBatches', UNCHANGED outVars,
         UNCHANGED <<run, provider, items, selected, manifest, rows>>
  PROVE  FolderInv'
<1>1. OutputInv' /\ ItemsInv'
  BY StageKeepsOutput DEF InStage, InBatches
<1>2. run' \in Runs /\ AreSafe(rows)'
  BY DEF FolderInv, AreSafe
<1>3. SelectedInv'
  BY DEF FolderInv, SelectedInv, Candidates
<1>4. BatchesInv'
  <2>1. BatchSize' = BatchSize
    BY DEF BatchSize
  <2>2. BatchesInv
    BY DEF FolderInv
  <2> QED BY <2>1, <2>2 DEF BatchesInv
<1>5. StageInv' /\ ReportIsTrue'
  BY DEF StageInv, AfterStage, ReportIsTrue, InBatches
<1> QED BY <1>1, <1>2, <1>3, <1>4, <1>5 DEF FolderInv

\* Each step of the stage keeps the invariant.
LEMMA StageStepFolder == ASSUME FolderInv, StageStep, UNCHANGED outVars PROVE FolderInv'
<1>1. CASE StartStage
  BY <1>1, StartStageFolder
<1>2. CASE Request
  BY <1>2, RequestFolder
<1>3. CASE RequestTimesOut
  BY <1>3, PauseFolder DEF RequestTimesOut, InBatches
<1>4. CASE Resume
  BY <1>4, PauseFolder DEF Resume, InBatches, stageVars
<1>5. CASE RequestFails
  BY <1>5, RequestFailsFolder
<1> QED BY <1>1, <1>2, <1>3, <1>4, <1>5 DEF StageStep

\* What a stage returned stays as it was when the stage is over and left alone.
LEMMA StageStays ==
  ASSUME UNCHANGED <<selected, manifest, rows, stage>>, StageInv, AfterStage
  PROVE  StageInv'
<1>1. selected' = selected /\ manifest' = manifest /\ rows' = rows /\ stage' = stage
  OBVIOUS
<1>2. IdsOf(rows)' = IdsOf(rows) /\ IdsOf(selected)' = IdsOf(selected)
  BY <1>1
<1>3. /\ stage.error => stage.status # "VERIFIED"
      /\ stage.status = "VERIFIED" =>
           /\ stage.rows = rows
           /\ \A b \in DOMAIN manifest : manifest[b] = "VERIFIED"
           /\ IdsOf(rows) = IdsOf(selected)
           /\ stage.coverage =>
                \A n \in DOMAIN Parsed : IsCandidate(Parsed[n]) => Parsed[n].id \in IdsOf(rows)
  BY DEF StageInv
<1> QED BY <1>1, <1>2, <1>3 DEF StageInv

\* Decide applies all rows or none.
LEMMA DecideFolder == ASSUME FolderInv, Decide PROVE FolderInv'
<1>1. /\ pc = "decide" /\ UNCHANGED <<run, provider, stageVars, xlsx, report>>
      /\ UNCHANGED <<selected, manifest, rows, stage>>
  BY DEF Decide, stageVars
<1>2. /\ run \in Runs /\ AreSafe(rows) /\ items = Parsed /\ counts = None /\ status = "SUCCESS"
      /\ StageInv /\ AfterStage
      /\ Exported <=> InRun("assignment")
      /\ Exported => xlsx = <<OutputRows(items, RunResolution)>>
      /\ ~Exported => xlsx = <<>>
  BY <1>1 DEF FolderInv, ItemsInv, OutputInv, InStage, Exported, AfterStage
<1>3. InRun("folder") \/ InRun("assignment")
  BY <1>2, LlmStageAssumption DEF InRun
<1>4. run' \in Runs /\ AreSafe(rows)'
  BY <1>1, <1>2 DEF AreSafe
<1>5. pc' \in {"export", "report"}
  BY <1>1, Zenon DEF Decide
<1>6. SelectedInv' /\ BatchesInv' /\ ReportIsTrue'
  BY <1>5 DEF SelectedInv, BatchesInv, InBatches, ReportIsTrue
<1>7. StageInv'
  BY <1>1, <1>2, StageStays
<1>8. CASE InRun("assignment")
  <2>1. pc' = "report" /\ UNCHANGED <<items, counts, status>>
    BY <1>8 DEF Decide, InRun
  <2>2. InRun("assignment")' /\ ~InRun("folder")' /\ Exported'
    BY <1>1, <1>8, <2>1 DEF InRun, Exported
  <2>3. ItemsInv'
    BY <1>2, <2>1, <2>2 DEF ItemsInv, InStage, AfterApply
  <2>4. OutputRows(items, RunResolution)' = OutputRows(items, RunResolution)
    BY <1>1, <2>1, SameItems
  <2>5. xlsx' = <<OutputRows(items, RunResolution)>>' /\ status' = "SUCCESS"
    BY <1>1, <1>2, <1>8, <2>1, <2>4
  <2>6. OutputInv'
    BY <2>2, <2>5 DEF OutputInv, AfterApply
  <2> QED BY <1>4, <1>6, <1>7, <2>3, <2>6 DEF FolderInv
<1>9. CASE InRun("folder")
  <2>1. /\ pc' = "export" /\ status' = RunStatus
        /\ items' = IF MayApply THEN ApplyRows(items, stage.rows) ELSE items
        /\ counts' = IF MayApply THEN Counts(items, stage.rows) ELSE NoCounts
    BY <1>9, Zenon DEF Decide, InRun
  <2>2. InRun("folder")' /\ ~InRun("assignment")' /\ ~Exported'
    BY <1>1, <1>9, <2>1 DEF InRun, Exported, InStage
  <2>3. MayApply => stage.rows = rows
    BY <1>2 DEF MayApply, StageInv
  <2>4. \/ items' = Parsed /\ counts' = NoCounts
        \/ items' = ApplyRows(Parsed, rows') /\ counts' = Counts(Parsed, rows')
    <3>1. CASE MayApply
      BY <3>1, <1>1, <1>2, <2>1, <2>3
    <3>2. CASE ~MayApply
      BY <3>2, <1>2, <2>1
    <3> QED BY <3>1, <3>2
  <2>5. ItemsInv'
    BY <2>1, <2>2, <2>4 DEF ItemsInv, InStage
  <2>6. RunStatus' = RunStatus
    BY <1>1, SameStage
  <2>7. xlsx' = <<>>
    BY <1>1, <1>2, <1>9 DEF InRun
  <2>8. OutputInv'
    BY <2>1, <2>2, <2>6, <2>7 DEF OutputInv, InStage
  <2> QED BY <1>4, <1>6, <1>7, <2>5, <2>8 DEF FolderInv
<1> QED BY <1>3, <1>8, <1>9

\* Export puts the items as they are into the workbook.
LEMMA ExportFolder == ASSUME FolderInv, Export PROVE FolderInv'
<1> DEFINE book == OutputRows(items, RunResolution)
<1>1. /\ pc = "export" /\ UNCHANGED <<run, provider, items, stageVars, counts, status, report>>
      /\ UNCHANGED <<selected, manifest, rows, stage>>
      /\ xlsx' = IF status = "FAILED_LLM_REQUIRED" THEN xlsx ELSE Append(xlsx, book)
      /\ pc' = IF run.command = "folder" THEN "report" ELSE "stage"
  BY DEF Export, stageVars
<1>2. /\ run \in Runs /\ AreSafe(rows) /\ ItemsInv /\ StageInv /\ OutputInv
  BY DEF FolderInv
<1>3. InRun("folder") \/ InRun("assignment")
  BY <1>2, LlmStageAssumption DEF InRun
<1>4. run' \in Runs /\ AreSafe(rows)'
  BY <1>1, <1>2 DEF AreSafe
<1>5. SelectedInv' /\ BatchesInv' /\ ReportIsTrue'
  BY <1>1 DEF SelectedInv, BatchesInv, InBatches, ReportIsTrue
<1>6. xlsx = <<>>
  BY <1>1, <1>2 DEF OutputInv, Exported, InStage
<1>7. book' = book
  BY <1>1, SameItems
<1> HIDE DEF book
<1>8. xlsx' = IF status = "FAILED_LLM_REQUIRED" THEN <<>> ELSE <<book>>
  <2>1. Append(<<>>, book) = <<book>>
    OBVIOUS
  <2> QED BY <1>1, <1>6, <2>1
<1>9. CASE InRun("folder")
  <2>1. pc' = "report" /\ InRun("folder")' /\ ~InRun("assignment")'
    BY <1>1, <1>9 DEF InRun
  <2>2. ItemsInv'
    BY <1>1, <1>2, <1>9, <2>1 DEF ItemsInv, InStage, AfterApply
  <2>3. StageInv'
    <3>1. AfterStage
      BY <1>1, <1>9 DEF AfterStage
    <3> QED BY <1>1, <1>2, <3>1, StageStays
  <2>4. status' = RunStatus'
    BY <1>1, <1>2, <1>9, SameStage DEF OutputInv, AfterApply
  <2>5. OutputInv'
    BY <1>1, <1>7, <1>8, <2>1, <2>4 DEF OutputInv, InStage, Exported, book
  <2> QED BY <1>4, <1>5, <2>2, <2>3, <2>5 DEF FolderInv
<1>10. CASE InRun("assignment")
  <2>1. pc' = "stage" /\ InRun("assignment")' /\ ~InRun("folder")'
    BY <1>1, <1>10 DEF InRun
  <2>2. ItemsInv'
    BY <1>1, <1>2, <1>10, <2>1 DEF ItemsInv, InStage, AfterApply
  <2>3. StageInv'
    BY <2>1 DEF StageInv, AfterStage
  <2>4. status' = "SUCCESS"
    BY <1>1, <1>2, <1>10 DEF OutputInv
  <2>5. OutputInv'
    BY <1>1, <1>7, <1>8, <2>1, <2>4 DEF OutputInv, InStage, Exported, AfterApply, book
  <2> QED BY <1>4, <1>5, <2>2, <2>3, <2>5 DEF FolderInv
<1> QED BY <1>3, <1>9, <1>10

\* What is listed is an item, and every item is listed unless a profile is asked for.
LEMMA OutputIs ==
  /\ \A row \in OutputRows(items, RunResolution) : row.item \in Range(items)
  /\ RunResolution.status = "ALL" => {row.item : row \in OutputRows(items, RunResolution)} = Range(items)
<1>1. ASSUME NEW item, NEW st, NEW row \in RowsOf(item, st) PROVE row.item = item
  BY DEF RowsOf
<1>2. ASSUME NEW row \in OutputRows(items, RunResolution)
      PROVE  \E n \in DOMAIN items : row \in RowsOf(items[n], RunResolution.status)
  BY DEF OutputRows
<1>3. \A row \in OutputRows(items, RunResolution) : row.item \in Range(items)
  BY <1>1, <1>2 DEF Range
<1>4. ASSUME RunResolution.status = "ALL", NEW n \in DOMAIN items
      PROVE  \E row \in OutputRows(items, RunResolution) : row.item = items[n]
  <2> DEFINE row == [item |-> items[n], label |-> items[n].values.profile, isAlias |-> FALSE]
  <2>1. row \in RowsOf(items[n], RunResolution.status)
    BY <1>4 DEF RowsOf
  <2>2. row \in OutputRows(items, RunResolution)
    BY <1>4, <2>1 DEF OutputRows
  <2> QED BY <2>2
<1>5. RunResolution.status = "ALL"
        => {row.item : row \in OutputRows(items, RunResolution)} = Range(items)
  BY <1>3, <1>4 DEF Range
<1> QED BY <1>3, <1>5

\* WriteReport writes what the run holds.
LEMMA WriteReportFolder == ASSUME FolderInv, WriteReport PROVE FolderInv'
<1> DEFINE book == OutputRows(items, RunResolution)
           failed == status = "FAILED_LLM_REQUIRED"
<1>1. /\ pc = "report" /\ pc' = "done"
      /\ UNCHANGED <<run, provider, items, stageVars, xlsx, counts, status>>
      /\ UNCHANGED <<selected, manifest, rows, stage>>
      /\ report'.status = status /\ report'.counts = counts
      /\ report'.rows = IF failed THEN 0 ELSE Cardinality(book)
  BY DEF WriteReport, stageVars
<1>2. /\ run \in Runs /\ AreSafe(rows) /\ ItemsInv /\ StageInv /\ OutputInv
  BY DEF FolderInv
<1>3. run' \in Runs /\ AreSafe(rows)'
  BY <1>1, <1>2 DEF AreSafe
<1>4. ItemsInv'
  BY <1>1, <1>2 DEF ItemsInv, InStage, AfterApply, InRun
<1>5. SelectedInv' /\ BatchesInv'
  BY <1>1 DEF SelectedInv, BatchesInv, InBatches
<1>6. StageInv'
  <2>1. AfterStage
    BY <1>1 DEF AfterStage
  <2> QED BY <1>1, <1>2, <2>1, StageStays
<1>7. xlsx = IF failed THEN <<>> ELSE <<book>>
  BY <1>1, <1>2 DEF OutputInv, Exported
<1>8. book' = book /\ RunResolution' = RunResolution /\ RunStatus' = RunStatus
  BY <1>1, SameItems, SameStage
<1>9. /\ \A row \in book : row.item \in Range(items)
      /\ RunResolution.status = "ALL" => {row.item : row \in book} = Range(items)
  BY OutputIs
<1>10. OutputInv'
  BY <1>1, <1>2, <1>7, <1>8 DEF OutputInv, InStage, Exported, AfterApply, InRun
<1> HIDE DEF book
<1>11. xlsx' = IF failed THEN <<>> ELSE <<book>>
  BY <1>1, <1>7
<1>12. report'.status = "FAILED_LLM_REQUIRED" <=> xlsx' = <<>>
  BY <1>1, <1>11
<1>13. ASSUME run'.required, run'.command = "folder", xlsx' # <<>>
       PROVE  /\ provider' = "openai"
              /\ \A n \in DOMAIN Parsed : IsCandidate(Parsed[n])
                   => \E i \in DOMAIN stage'.rows : stage'.rows[i].id = Parsed[n].id
  <2>1. ~failed /\ status = RunStatus /\ run.required
    BY <1>13, <1>1, <1>2, <1>11 DEF OutputInv, AfterApply, InRun
  <2>2. RequirementMet
    BY <2>1 DEF RunStatus
  <2>3. provider = "openai" /\ stage.status = "VERIFIED" /\ stage.coverage
    BY <2>2 DEF RequirementMet
  <2>4. /\ stage.rows = rows
        /\ \A n \in DOMAIN Parsed : IsCandidate(Parsed[n]) => Parsed[n].id \in IdsOf(rows)
    BY <2>3, <1>1, <1>2 DEF StageInv, AfterStage
  <2> QED BY <1>1, <2>3, <2>4 DEF IdsOf
<1>14. ASSUME xlsx' # <<>>
       PROVE  /\ Len(xlsx') = 1 /\ report'.rows = Cardinality(xlsx'[1])
              /\ \A row \in xlsx'[1] : row.item \in Range(items')
              /\ RunResolution'.status = "ALL" => {row.item : row \in xlsx'[1]} = Range(items')
  <2>1. ~failed /\ Len(xlsx') = 1 /\ xlsx'[1] = book
    BY <1>14, <1>11
  <2> QED BY <2>1, <1>1, <1>8, <1>9
<1>15. ASSUME run'.command = "folder"
       PROVE  report'.counts.applied =
                Cardinality({n \in DOMAIN items' : items'[n].values # Parsed[n].values})
  <2>1. \/ items = Parsed /\ counts = NoCounts
        \/ items = ApplyRows(Parsed, rows) /\ counts = Counts(Parsed, rows)
    BY <1>15, <1>1, <1>2 DEF ItemsInv, AfterApply, InRun
  <2>2. CASE items = Parsed /\ counts = NoCounts
    BY <2>2, <1>1, NothingChanged
  <2>3. CASE items = ApplyRows(Parsed, rows) /\ counts = Counts(Parsed, rows)
    <3>1. DOMAIN items = DOMAIN Parsed
      BY <2>3 DEF ApplyRows
    <3>2. Counts(Parsed, rows).applied =
            Cardinality({n \in DOMAIN Parsed : ApplyRows(Parsed, rows)[n].values # Parsed[n].values})
      BY <1>2, CountIsTrue
    <3> QED BY <2>3, <3>1, <3>2, <1>1
  <2> QED BY <2>1, <2>2, <2>3
<1>16. ReportIsTrue'
  BY <1>12, <1>13, <1>14, <1>15 DEF ReportIsTrue
<1> QED BY <1>3, <1>4, <1>5, <1>6, <1>10, <1>16 DEF FolderInv

\* Every step keeps the invariant.
LEMMA NextFolder == FolderInv /\ [Next]_vars => FolderInv'
<1> SUFFICES ASSUME FolderInv, [Next]_vars PROVE FolderInv'
  OBVIOUS
<1>1. ASSUME pc' \in {"raised", "dead"}, UNCHANGED <<run, provider, items, stageVars, outVars>>
      PROVE  FolderInv'
  <2>1. UNCHANGED <<run, items, status, rows>>
    BY <1>1 DEF stageVars, outVars
  <2>2. AreSafe(rows)'
    BY <2>1 DEF FolderInv, AreSafe
  <2> QED BY <1>1, <2>1, <2>2, StopsFolder
<1>2. CASE Start
  BY <1>2, StartFolder
<1>3. CASE Parse
  BY <1>3, ParseFolder
<1>4. CASE StageStep /\ UNCHANGED outVars
  BY <1>4, StageStepFolder
<1>5. CASE Decide
  BY <1>5, DecideFolder
<1>6. CASE Export
  BY <1>6, ExportFolder
<1>7. CASE WriteReport
  BY <1>7, WriteReportFolder
<1>8. CASE Raise
  BY <1>8, <1>1 DEF Raise
<1>9. CASE Die
  BY <1>9, <1>1 DEF Die
<1>10. CASE UNCHANGED vars
  BY <1>10, SameFolder
<1> QED BY <1>2, <1>3, <1>4, <1>5, <1>6, <1>7, <1>8, <1>9, <1>10 DEF Next, Work

-----------------------------------------------------------------------------
(***************************************************************************)
(* The theorems.                                                           *)
(***************************************************************************)
\* In every run, whatever is read from the folder and whatever the model answers: the
\* rows handed on are safe rows of items in doubt, there is a row for each item of the
\* batches that were verified, the items are those parsed until the rows are applied
\* to them all at once, and status and workbook follow from what the stage returned.
THEOREM FolderInvariant == Spec => []FolderInv
BY InitFolder, NextFolder, PTL DEF Spec

\* run_safe_pipeline hands on settled rows: reconcile_llm_row changes none of them
\* again, and expected_decision recomputes the decision each one has.
THEOREM RowsStaySettled == Spec => []RowsAreSettled
<1>1. FolderInv => RowsAreSettled
  <2> SUFFICES ASSUME FolderInv, NEW i \in DOMAIN rows
               PROVE  Reconcile(rows[i]) = rows[i] /\ ExpectedDecision(rows[i]) = rows[i].decision
    BY DEF RowsAreSettled
  <2>1. AreSafe(rows)
    BY DEF FolderInv
  <2>2. PICK n \in DOMAIN Parsed : IsSafe(rows[i], Parsed[n])
    BY <2>1 DEF AreSafe
  <2> QED BY <2>2 DEF IsSafe
<1> QED BY <1>1, FolderInvariant, PTL

\* apply_verified_llm_results changes a value of an item only if its parser was in
\* doubt about it, and only to what a quotation of its own row of the price list
\* states: the row of another item, an invented quotation or a value the quotation
\* does not show changes nothing.
THEOREM EveryChangeIsStated == Spec => []SourceStatesEveryChange
<1>1. FolderInv => SourceStatesEveryChange
  <2> SUFFICES ASSUME FolderInv, NEW n \in DOMAIN items, NEW f \in Fields,
                      items[n].values[f] # Parsed[n].values[f]
               PROVE  /\ IsCandidate(Parsed[n])
                      /\ \E quote \in Parsed[n].quotes : \E v \in quote[f] :
                           items[n].values[f] \in Written(f, v)
    BY DEF SourceStatesEveryChange
  <2>1. AreSafe(rows) /\ items \in {<<>>, Parsed, ApplyRows(Parsed, rows)}
    BY DEF FolderInv, ItemsInv
  <2>2. items = ApplyRows(Parsed, rows)
    <3>1. items # Parsed
      OBVIOUS
    <3>2. items # <<>>
      OBVIOUS
    <3> QED BY <3>1, <3>2, <2>1
  <2>3. n \in DOMAIN Parsed
    BY <2>2 DEF ApplyRows
  <2> QED BY <2>1, <2>2, <2>3, ChangesAreStated
<1> QED BY <1>1, FolderInvariant, PTL

\* run_input_folder applies the rows of a stage in one step, and only when the answers
\* to all its batches were accepted: no batch that fails leaves some of them applied,
\* and run_test_assignment applies none.
THEOREM AppliedAllOrNothing == Spec => AllOrNothing
<1> DEFINE Whole == items # <<>> /\ items' # items
                      => /\ run.command = "folder" /\ counts = None
                         /\ \A b \in DOMAIN manifest : manifest[b] = "VERIFIED"
                         /\ {stage.rows[i].id : i \in DOMAIN stage.rows} =
                            {selected[i].id : i \in DOMAIN selected}
<1>1. FolderInv /\ [Next]_vars => [Whole]_vars
  <2> SUFFICES ASSUME FolderInv, Next, items # <<>>, items' # items
               PROVE  /\ run.command = "folder" /\ counts = None
                      /\ \A b \in DOMAIN manifest : manifest[b] = "VERIFIED"
                      /\ {stage.rows[i].id : i \in DOMAIN stage.rows} =
                         {selected[i].id : i \in DOMAIN selected}
    OBVIOUS
  <2>1. Decide
    <3>1. ~Parse
      BY DEF FolderInv, ItemsInv, Parse
    <3>2. ~(StageStep /\ UNCHANGED outVars)
      <4>1. ~StartStage
        BY Zenon DEF StartStage
      <4> QED BY <4>1 DEF StageStep, Request, RequestTimesOut, Resume, RequestFails
    <3>3. ~Start /\ ~Export /\ ~WriteReport /\ ~Raise /\ ~Die
      BY DEF Start, Export, WriteReport, Raise, Die
    <3> QED BY <3>1, <3>2, <3>3 DEF Next, Work
  <2>2. pc = "decide" /\ run.command # "assignment" /\ MayApply
    BY <2>1, Zenon DEF Decide
  <2>3. run.command = "folder"
    BY <2>2, LlmStageAssumption DEF FolderInv
  <2>4. counts = None
    BY <2>2 DEF FolderInv, ItemsInv, InStage
  <2>5. stage.status = "VERIFIED"
    BY <2>2 DEF MayApply
  <2>6. /\ stage.rows = rows /\ IdsOf(rows) = IdsOf(selected)
        /\ \A b \in DOMAIN manifest : manifest[b] = "VERIFIED"
    BY <2>2, <2>5 DEF FolderInv, StageInv, AfterStage
  <2> QED BY <2>3, <2>4, <2>6 DEF IdsOf
<1> QED BY <1>1, FolderInvariant, PTL DEF Spec, AllOrNothing

\* The report and the workbook of a run that ended agree with the items: no workbook
\* without the live model a run had to have, one row for an item as it is now, and the
\* changes counted are those made.
THEOREM ReportStaysTrue == Spec => []ReportIsTrue
<1>1. FolderInv => ReportIsTrue
  BY DEF FolderInv
<1> QED BY <1>1, FolderInvariant, PTL
=============================================================================
