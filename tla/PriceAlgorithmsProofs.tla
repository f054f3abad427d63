------------------------- MODULE PriceAlgorithmsProofs -------------------------
(***************************************************************************)
(* What PriceAlgorithms computes, for every task: the amounts of a         *)
(* document add up (DocumentTotals), what the search with the catalogue    *)
(* says of its results is justified (Nomenclature), the free search lists  *)
(* all that matches, once and in order (OfferSearch), and the reading of a *)
(* workbook neither loses, mixes nor repeats its rows (PriceReading).      *)
(***************************************************************************)
EXTENDS PriceAlgorithms, NaturalLemmas, FiniteSetTheorems, SequenceTheorems

-----------------------------------------------------------------------------
\* What \div computes, and that nothing else is it.
LEMMA DivIs ==
  ASSUME NEW a \in Int, NEW b \in Nat \ {0}
  PROVE  /\ a \div b \in Int
         /\ b * (a \div b) <= a /\ a < b * (a \div b) + b
         /\ \A h \in Int : b * h <= a /\ a < b * h + b => h = a \div b
<1>1. a \div b \in Int /\ b * (a \div b) <= a /\ a < b * (a \div b) + b
  OBVIOUS
<1> DEFINE q == a \div b
<1>2. q \in Int /\ b * q <= a /\ a < b * q + b
  BY <1>1
<1> HIDE DEF q
<1>3. ASSUME NEW h \in Int, b * h <= a, a < b * h + b PROVE h = q
  <2>1. b * h < b * q + b /\ b * q < b * h + b
    BY <1>2, <1>3
  <2>2. b * (h - q) < b /\ b * (q - h) < b
    BY <2>1, <1>2
  <2>3. ASSUME NEW k \in Int, b * k < b PROVE k < 1
    BY <2>3
  <2>4. h - q < 1 /\ q - h < 1
    BY <2>2, <2>3, <1>2
  <2> QED BY <2>4, <1>2
<1> QED BY <1>2, <1>3 DEF q

\* What Max returns.
LEMMA MaxIs ==
  ASSUME NEW n \in Nat, NEW s \in SUBSET (1..n), s # {}
  PROVE  Max(s) \in s /\ \A x \in s : x <= Max(s)
<1>1. PICK m \in s : \A k \in s : k <= m
  BY GreatestExists
<1>2. \E x \in s : \A y \in s : x >= y
  BY <1>1
<1>3. Max(s) \in s /\ \A y \in s : Max(s) >= y
  BY <1>2 DEF Max
<1> QED BY <1>3

\* What Min returns.
LEMMA MinIs ==
  ASSUME NEW s \in SUBSET Nat, s # {}
  PROVE  Min(s) \in s /\ \A x \in s : Min(s) <= x
<1>1. PICK m \in s : \A k \in s : m <= k
  BY LeastExists
<1>2. \E x \in s : \A y \in s : x =< y
  BY <1>1
<1> QED BY <1>2 DEF Min

-----------------------------------------------------------------------------
\* Rounding half up: the whole number no more than a half above and less than a half below.
LEMMA HalfUpIs ==
  ASSUME NEW n \in Nat, NEW d \in Nat \ {0}
  PROVE  /\ HalfUp(n, d) \in Int
         /\ 2 * (d * HalfUp(n, d)) <= 2 * n + d /\ 2 * n + d < 2 * (d * HalfUp(n, d)) + 2 * d
         /\ \A h \in Int : 2 * (d * h) <= 2 * n + d /\ 2 * n + d < 2 * (d * h) + 2 * d => h = HalfUp(n, d)
<1> DEFINE a == 2 * n + d
           b == 2 * d
           q == HalfUp(n, d)
<1>1. a \in Int /\ b \in Nat \ {0}
  OBVIOUS
<1>2. q = a \div b
  BY DEF HalfUp
<1>3. \A h \in Int : b * h = 2 * (d * h)
  OBVIOUS
<1> HIDE DEF a, b, q
<1>4. /\ q \in Int /\ b * q <= a /\ a < b * q + b
      /\ \A h \in Int : b * h <= a /\ a < b * h + b => h = q
  BY <1>1, <1>2, DivIs
<1>5. /\ q \in Int /\ 2 * (d * q) <= a /\ a < 2 * (d * q) + b
      /\ \A h \in Int : 2 * (d * h) <= a /\ a < 2 * (d * h) + b => h = q
  BY <1>3, <1>4
<1> QED BY <1>5 DEF a, b, q

\* A rounded amount is whole.
LEMMA HalfUpWhole ==
  ASSUME NEW n \in Int, NEW d \in Nat \ {0}
  PROVE  HalfUp(n, d) \in Int
<1>1. CASE n >= 0
  BY <1>1, HalfUpIs
<1>2. CASE n < 0
  <2>1. 2 * (-n) + d \in Int /\ 2 * d \in Nat \ {0}
    OBVIOUS
  <2>2. (2 * (-n) + d) \div (2 * d) \in Int
    BY <2>1, DivIs
  <2> QED BY <2>2, <1>2 DEF HalfUp
<1> QED BY <1>1, <1>2

\* VAT put on top of a base is the VAT found again inside the total.
LEMMA VatOnTopIsInside ==
  ASSUME NEW base \in Nat, NEW rate \in 0..100
  PROVE  LET vat == Vat(base, rate, FALSE)
         IN  vat \in Nat /\ Vat(base + vat, rate, TRUE) = vat
<1> DEFINE v == HalfUp(base * rate, 100)
<1>1. base * rate \in Nat /\ rate \in Nat /\ rate <= 100
  OBVIOUS
<1>2. v \in Int /\ 2 * (100 * v) <= 2 * (base * rate) + 100 /\ 2 * (base * rate) + 100 < 2 * (100 * v) + 2 * 100
  BY <1>1, HalfUpIs
<1> HIDE DEF v
<1>3. v \in Nat
  BY <1>1, <1>2
<1>4. (base + v) * rate = base * rate + v * rate /\ v * rate \in Nat /\ (100 + rate) * v = 100 * v + v * rate
  BY <1>1, <1>3
<1>5. /\ 2 * ((100 + rate) * v) <= 2 * ((base + v) * rate) + (100 + rate)
      /\ 2 * ((base + v) * rate) + (100 + rate) < 2 * ((100 + rate) * v) + 2 * (100 + rate)
  BY <1>1, <1>2, <1>3, <1>4
<1>6. (base + v) * rate \in Nat /\ 100 + rate \in Nat \ {0}
  BY <1>1, <1>3, <1>4
<1>7. v = HalfUp((base + v) * rate, 100 + rate)
  <2> DEFINE n == (base + v) * rate
             d == 100 + rate
  <2>1. n \in Nat /\ d \in Nat \ {0}
    BY <1>6
  <2>2. 2 * (d * v) <= 2 * n + d /\ 2 * n + d < 2 * (d * v) + 2 * d
    BY <1>5
  <2> HIDE DEF n, d
  <2>3. v = HalfUp(n, d)
    BY <2>1, <2>2, <1>2, HalfUpIs
  <2> QED BY <2>3 DEF n, d
<1>8. Vat(base, rate, FALSE) = v /\ Vat(base + v, rate, TRUE) = HalfUp((base + v) * rate, 100 + rate)
  BY DEF Vat, v
<1> QED BY <1>3, <1>7, <1>8

\* VAT taken out of a total is, to a hundredth, the VAT of the rest.
LEMMA VatInsideIsOnTop ==
  ASSUME NEW total \in Nat, NEW rate \in 0..100
  PROVE  LET vat == Vat(total, rate, TRUE)
         IN  /\ vat \in Nat /\ vat <= total
             /\ vat - HalfUp((total - vat) * rate, 100) \in -1..1
<1> DEFINE v == HalfUp(total * rate, 100 + rate)
<1>1. total * rate \in Nat /\ rate \in Nat /\ rate <= 100 /\ 100 + rate \in Nat \ {0}
  OBVIOUS
<1>2. /\ v \in Int
      /\ 2 * ((100 + rate) * v) <= 2 * (total * rate) + (100 + rate)
      /\ 2 * (total * rate) + (100 + rate) < 2 * ((100 + rate) * v) + 2 * (100 + rate)
  BY <1>1, HalfUpIs
<1> HIDE DEF v
<1>3. (100 + rate) * v = 100 * v + v * rate /\ v * rate \in Int
  BY <1>1, <1>2
<1>4. v >= 0
  <2>1. (100 + rate) * v > -(100 + rate)
    BY <1>1, <1>2
  <2> QED BY <2>1, <1>1, <1>2
<1>5. v <= total
  <2>1. total * rate <= total * 100
    BY <1>1
  <2> SUFFICES ASSUME v > total PROVE FALSE
    BY <1>2
  <2>2. v >= total + 1
    BY <1>2
  <2>3. (100 + rate) * v >= (100 + rate) * (total + 1)
    BY <2>2, <1>1, <1>2
  <2>4. (100 + rate) * (total + 1) = 100 * total + total * rate + 100 + rate
    BY <1>1
  <2> QED BY <2>1, <2>3, <2>4, <1>1, <1>2
<1> DEFINE m == (total - v) * rate
           w == HalfUp(m, 100)
<1>6. m \in Nat /\ m = total * rate - v * rate
  BY <1>1, <1>2, <1>3, <1>5
<1>7. /\ w \in Int
      /\ 2 * (100 * w) <= 2 * m + 100 /\ 2 * m + 100 < 2 * (100 * w) + 2 * 100
  <2> HIDE DEF m
  <2> QED BY <1>6, HalfUpIs
<1> HIDE DEF m, w
<1>8. v - w \in -1..1
  BY <1>1, <1>2, <1>3, <1>6, <1>7
<1>9. Vat(total, rate, TRUE) = v
  BY DEF Vat, v
<1>10. w = HalfUp((total - v) * rate, 100)
  BY DEF m, w
<1>11. v - HalfUp((total - v) * rate, 100) \in -1..1
  BY <1>8, <1>10
<1>12. v \in Nat
  BY <1>2, <1>4
<1> QED BY <1>5, <1>9, <1>11, <1>12

-----------------------------------------------------------------------------
\* The table a sum over a sequence is read from.
SumTable(f, v, n) ==
  f = [s \in SUBSET (1..n) |-> IF s = {} THEN 0 ELSE f[s \ {Max(s)}] + v[Max(s)]]

\* There is such a table for every length, so the fold that chooses one has it.
LEMMA SumTableExists ==
  ASSUME NEW v, NEW N \in Nat
  PROVE  \E f : SumTable(f, v, N)
<1> DEFINE Bad == {n \in 0..N : ~ \E f : SumTable(f, v, n)}
<1>1. Bad # {} => FALSE
  <2> SUFFICES ASSUME Bad # {} PROVE FALSE
    OBVIOUS
  <2>1. Bad \in SUBSET Nat
    OBVIOUS
  <2>2. PICK n \in Bad : \A k \in Bad : n <= k
    <3> HIDE DEF Bad
    <3> QED BY <2>1, LeastExists
  <2>3. n \in 0..N /\ ~ \E f : SumTable(f, v, n)
    OBVIOUS
  <2>4. CASE n = 0
    <3> DEFINE f == [s \in SUBSET (1..0) |-> 0]
    <3>1. \A s \in SUBSET (1..0) : s = {}
      OBVIOUS
    <3>2. SumTable(f, v, 0)
      BY <3>1 DEF SumTable
    <3> QED BY <3>2, <2>3, <2>4
  <2>5. CASE n # 0
    <3>1. n - 1 \in 0..N /\ n - 1 < n /\ n \in Nat
      BY <2>3, <2>5
    <3>2. PICK f : SumTable(f, v, n - 1)
      BY <3>1, <2>2
    <3> DEFINE g == [s \in SUBSET (1..n) |-> IF n \in s THEN f[s \ {n}] + v[n] ELSE f[s]]
    <3>3. \A s \in SUBSET (1..(n - 1)) : f[s] = IF s = {} THEN 0 ELSE f[s \ {Max(s)}] + v[Max(s)]
      BY <3>2, Zenon DEF SumTable
    <3>4. ASSUME NEW s \in SUBSET (1..n)
          PROVE  g[s] = IF s = {} THEN 0 ELSE g[s \ {Max(s)}] + v[Max(s)]
      <4>1. CASE n \in s
        <5>1. Max(s) = n
          <6>1. Max(s) \in s /\ n <= Max(s)
            BY <4>1, <3>1, MaxIs
          <6>2. \A x \in s : x \in Nat /\ x <= n
            BY <3>1
          <6>3. Max(s) \in Nat /\ Max(s) <= n
            BY <6>1, <6>2
          <6> QED BY <6>1, <6>3, <3>1
        <5>2. s \ {n} \in SUBSET (1..n) /\ n \notin s \ {n}
          OBVIOUS
        <5>3. g[s] = f[s \ {n}] + v[n] /\ g[s \ {n}] = f[s \ {n}]
          BY <4>1, <5>2
        <5> HIDE DEF g
        <5> QED BY <5>1, <5>3, <4>1
      <4>2. CASE n \notin s
        <5>1. s \in SUBSET (1..(n - 1))
          BY <4>2, <3>1
        <5>2. g[s] = f[s]
          BY <4>2
        <5>3. s # {} => g[s \ {Max(s)}] = f[s \ {Max(s)}]
          <6>1. s \ {Max(s)} \in SUBSET (1..n) /\ n \notin s \ {Max(s)}
            BY <4>2
          <6> QED BY <6>1
        <5> HIDE DEF g
        <5> QED BY <5>1, <5>2, <5>3, <3>3
      <4> QED BY <4>1, <4>2
    <3>5. g = [s \in SUBSET (1..n) |-> IF s = {} THEN 0 ELSE g[s \ {Max(s)}] + v[Max(s)]]
      <4> DEFINE h == [s \in SUBSET (1..n) |-> IF s = {} THEN 0 ELSE g[s \ {Max(s)}] + v[Max(s)]]
      <4>1. \A s \in SUBSET (1..n) : g[s] = h[s]
        BY <3>4
      <4>2. g = [s \in SUBSET (1..n) |-> g[s]] /\ h = [s \in SUBSET (1..n) |-> h[s]]
        OBVIOUS
      <4> HIDE DEF g, h
      <4>3. g = h
        BY <4>1, <4>2
      <4> QED BY <4>3 DEF h
    <3>6. SumTable(g, v, n)
      BY <3>5 DEF SumTable
    <3> HIDE DEF g
    <3> QED BY <3>6, <2>3
  <2> QED BY <2>4, <2>5
<1>2. N \in 0..N
  OBVIOUS
<1> QED BY <1>1, <1>2

\* The sum of whole numbers is whole.
LEMMA SumIsWhole ==
  ASSUME NEW n \in Nat, NEW v \in [1..n -> Int]
  PROVE  SumOf(v) \in Int
<1> DEFINE f == CHOOSE f : SumTable(f, v, n)
<1>1. SumTable(f, v, n)
  BY SumTableExists
<1>2. SumOf(v) = f[1..n]
  <2>1. DOMAIN v = 1..n
    OBVIOUS
  <2>2. SumOf(v) = (CHOOSE g : g = [s \in SUBSET DOMAIN v |-> IF s = {} THEN 0 ELSE g[s \ {Max(s)}] + v[Max(s)]])[DOMAIN v]
    BY Zenon DEF SumOf, FoldLeft, MapThenFoldSet
  <2> QED BY <2>1, <2>2, Zenon DEF SumTable
<1> HIDE DEF f
<1>3. \A s \in SUBSET (1..n) : f[s] = IF s = {} THEN 0 ELSE f[s \ {Max(s)}] + v[Max(s)]
  BY <1>1, Zenon DEF SumTable
<1> DEFINE Bad == {k \in 0..n : f[1..k] \notin Int}
<1>4. Bad = {}
  <2> SUFFICES ASSUME Bad # {} PROVE FALSE
    OBVIOUS
  <2>1. Bad \in SUBSET Nat
    OBVIOUS
  <2>2. PICK k \in Bad : \A j \in Bad : k <= j
    <3> HIDE DEF Bad
    <3> QED BY <2>1, LeastExists
  <2>3. k \in 0..n /\ f[1..k] \notin Int
    OBVIOUS
  <2>4. k # 0
    <3>1. 1..0 = {} /\ 1..0 \in SUBSET (1..n)
      OBVIOUS
    <3>2. f[1..0] = 0
      BY <3>1, <1>3
    <3> QED BY <3>2, <2>3
  <2>5. k - 1 \in 0..n /\ k - 1 < k /\ k \in 1..n
    BY <2>3, <2>4
  <2>6. f[1..(k - 1)] \in Int
    BY <2>5, <2>2
  <2>7. 1..k \in SUBSET (1..n) /\ 1..k # {} /\ k \in 1..k
    <3>1. k \in 1..k /\ \A x \in 1..k : x \in 1..n
      BY <2>5
    <3> QED BY <3>1
  <2>8. Max(1..k) = k
    <3>1. Max(1..k) \in 1..k /\ k <= Max(1..k)
      BY <2>7, MaxIs
    <3> QED BY <3>1, <2>5
  <2>9. (1..k) \ {k} = 1..(k - 1)
    BY <2>5
  <2>10. f[1..k] = f[1..(k - 1)] + v[k]
    BY <2>7, <2>8, <2>9, <1>3
  <2>11. v[k] \in Int
    BY <2>5
  <2> QED BY <2>10, <2>11, <2>6, <2>3
<1>5. n \in 0..n
  OBVIOUS
<1>6. f[1..n] \in Int
  BY <1>4, <1>5
<1> QED BY <1>2, <1>6

\* The line totals, as calculate_document lists them.
Lines(p) == [i \in DOMAIN p.items |-> LineTotal(p.items[i])]

\* The subtotal is the sum of the lines.
LEMMA SubtotalIsSum ==
  ASSUME NEW p, NEW n \in Nat, DOMAIN p.items = 1..n
  PROVE  Subtotal(p) = SumOf(Lines(p))
<1> DEFINE P(f) == f = [s \in SUBSET (1..n) |-> IF s = {} THEN 0 ELSE f[s \ {Max(s)}] + LineTotal(p.items[Max(s)])]
           Q(f) == f = [s \in SUBSET (1..n) |-> IF s = {} THEN 0 ELSE f[s \ {Max(s)}] + Lines(p)[Max(s)]]
<1>1. Subtotal(p) = (CHOOSE f : P(f))[1..n]
  <2>1. Subtotal(p) = (CHOOSE f : f = [s \in SUBSET DOMAIN p.items |->
            IF s = {} THEN 0 ELSE f[s \ {Max(s)}] + LineTotal(p.items[Max(s)])])[DOMAIN p.items]
    BY Zenon DEF Subtotal, FoldLeft, MapThenFoldSet
  <2> QED BY <2>1, Zenon
<1>2. SumOf(Lines(p)) = (CHOOSE f : Q(f))[1..n]
  <2>1. DOMAIN Lines(p) = 1..n
    BY DEF Lines
  <2>2. \A v : SumOf(v) = (CHOOSE f : f = [s \in SUBSET DOMAIN v |->
            IF s = {} THEN 0 ELSE f[s \ {Max(s)}] + v[Max(s)]])[DOMAIN v]
    BY Zenon DEF SumOf, FoldLeft, MapThenFoldSet
  <2> QED BY <2>1, <2>2, Zenon
<1>3. ASSUME NEW f, NEW s \in SUBSET (1..n)
      PROVE  (IF s = {} THEN 0 ELSE f[s \ {Max(s)}] + LineTotal(p.items[Max(s)]))
             = (IF s = {} THEN 0 ELSE f[s \ {Max(s)}] + Lines(p)[Max(s)])
  <2>1. CASE s # {}
    <3>1. Max(s) \in 1..n
      BY <2>1, MaxIs
    <3>2. Lines(p)[Max(s)] = LineTotal(p.items[Max(s)])
      BY <3>1 DEF Lines
    <3> QED BY <2>1, <3>2
  <2> QED BY <2>1
<1>4. \A f : P(f) <=> Q(f)
  <2> SUFFICES ASSUME NEW f PROVE P(f) <=> Q(f)
    OBVIOUS
  <2> DEFINE a == [s \in SUBSET (1..n) |-> IF s = {} THEN 0 ELSE f[s \ {Max(s)}] + LineTotal(p.items[Max(s)])]
             b == [s \in SUBSET (1..n) |-> IF s = {} THEN 0 ELSE f[s \ {Max(s)}] + Lines(p)[Max(s)]]
  <2>1. \A s \in SUBSET (1..n) : a[s] = b[s]
    BY <1>3
  <2>2. a = [s \in SUBSET (1..n) |-> a[s]] /\ b = [s \in SUBSET (1..n) |-> b[s]]
    OBVIOUS
  <2> HIDE DEF a, b
  <2>3. a = b
    BY <2>1, <2>2
  <2>4. (P(f) <=> f = a) /\ (Q(f) <=> f = b)
    BY Zenon DEF a, b
  <2> QED BY <2>3, <2>4
<1> HIDE DEF P, Q
<1>5. (CHOOSE f : P(f)) = (CHOOSE f : Q(f))
  BY <1>4
<1> QED BY <1>1, <1>2, <1>5

-----------------------------------------------------------------------------
\* The amounts of an accepted payload.
LEMMA CalculatedAddsUp ==
  ASSUME NEW p, IsPayload(p), ~IsRefused(p)
  PROVE  LET t == Calculate(p)
         IN  /\ t.subtotal = SumOf(t.lines)
             /\ t.base >= 0 /\ t.vat >= 0 /\ t.vat <= t.grand
             /\ IF p.vatIncluded
                THEN t.vat - HalfUp((t.grand - t.vat) * p.vatRate, 100) \in -1..1
                ELSE /\ t.grand = t.base + t.vat
                     /\ t.vat = Vat(t.grand, p.vatRate, TRUE)
<1> DEFINE t == Calculate(p)
           base == TaxableBase(p)
           vat == Vat(base, p.vatRate, p.vatIncluded)
<1>1. /\ t.lines = Lines(p) /\ t.subtotal = Subtotal(p) /\ t.base = base /\ t.vat = vat
      /\ t.grand = IF p.vatIncluded THEN base ELSE base + vat
  BY DEF Calculate, Lines
<1>2. Len(p.items) \in Nat /\ DOMAIN p.items = 1..Len(p.items)
  BY DEF IsPayload
<1>3. Subtotal(p) = SumOf(Lines(p))
  BY <1>2, SubtotalIsSum
<1>4. Subtotal(p) \in Int
  <2>1. ASSUME NEW i \in DOMAIN p.items PROVE LineTotal(p.items[i]) \in Int
    <3> DEFINE item == p.items[i]
    <3>1. item.quantity \in Int /\ item.price \in Int /\ item.markup \in Int
      BY DEF IsPayload
    <3> HIDE DEF item
    <3>2. Money(item.quantity) \in Int /\ Money(item.price) \in Int
      BY <3>1, HalfUpWhole DEF Money
    <3>3. SalePrice(item) \in Int
      <4>1. Money(item.price) * (100 + item.markup) \in Int
        BY <3>1, <3>2
      <4> QED BY <4>1, HalfUpWhole DEF SalePrice
    <3>4. LineTotal(item) \in Int
      <4>1. Money(item.quantity) * SalePrice(item) \in Int
        BY <3>2, <3>3
      <4> QED BY <4>1, HalfUpWhole DEF LineTotal
    <3> QED BY <3>4 DEF item
  <2>2. Lines(p) \in [1..Len(p.items) -> Int]
    BY <2>1, <1>2 DEF Lines
  <2> QED BY <2>2, <1>2, <1>3, SumIsWhole
<1>5. base \in Nat
  <2>1. Money(p.discount) \in Int /\ Money(p.delivery) \in Int
    <3>1. p.discount \in Int /\ p.delivery \in Int
      BY DEF IsPayload
    <3> QED BY <3>1, HalfUpWhole DEF Money
  <2>2. Money(p.delivery) >= 0 /\ Money(p.discount) <= Subtotal(p)
    BY <2>1, <1>4 DEF IsRefused
  <2> QED BY <2>1, <2>2, <1>4 DEF TaxableBase
<1>6. p.vatRate \in 0..100 /\ p.vatIncluded \in BOOLEAN
  BY DEF IsRefused, IsPayload
<1>7. SUFFICES /\ t.subtotal = SumOf(t.lines)
               /\ t.base >= 0 /\ t.vat >= 0 /\ t.vat <= t.grand
               /\ IF p.vatIncluded
                  THEN t.vat - HalfUp((t.grand - t.vat) * p.vatRate, 100) \in -1..1
                  ELSE /\ t.grand = t.base + t.vat
                       /\ t.vat = Vat(t.grand, p.vatRate, TRUE)
  BY Zenon DEF t
<1> HIDE DEF t, base
<1>8. CASE p.vatIncluded
  <2>1. vat = Vat(base, p.vatRate, TRUE) /\ t.grand = base
    BY <1>1, <1>6, <1>8
  <2>2. /\ vat \in Nat /\ vat <= base
        /\ vat - HalfUp((base - vat) * p.vatRate, 100) \in -1..1
    BY <2>1, <1>5, <1>6, VatInsideIsOnTop
  <2> HIDE DEF vat
  <2>3. t.base >= 0 /\ t.vat >= 0 /\ t.vat <= t.grand
    <3>1. t.base = base /\ t.vat = vat /\ t.grand = base
      BY <2>1, <1>1
    <3>2. base >= 0 /\ vat >= 0 /\ vat <= base
      BY <2>2, <1>5
    <3> QED BY <3>1, <3>2
  <2> QED BY <2>1, <2>2, <2>3, <1>1, <1>3, <1>8
<1>9. CASE ~p.vatIncluded
  <2>1. vat = Vat(base, p.vatRate, FALSE) /\ t.grand = base + vat
    BY <1>1, <1>6, <1>9
  <2>2. vat \in Nat /\ Vat(base + vat, p.vatRate, TRUE) = vat
    BY <2>1, <1>5, <1>6, VatOnTopIsInside
  <2> HIDE DEF vat
  <2>3. vat >= 0 /\ vat <= base + vat
    BY <2>2, <1>5
  <2>4. t.base >= 0 /\ t.vat >= 0 /\ t.vat <= t.grand
    <3>1. t.base = base /\ t.vat = vat /\ t.grand = base + vat
      BY <2>1, <1>1
    <3>2. base >= 0
      BY <1>5
    <3> QED BY <3>1, <3>2, <2>3
  <2> QED BY <2>1, <2>2, <2>4, <1>1, <1>3, <1>9
<1> QED BY <1>8, <1>9

\* An answered document was calculated from its payload.
TotalsInv ==
  /\ task \in Tasks
  /\ IsAnswered("total") /\ ~IsRefused(task.payload) => answer = <<Calculate(task.payload)>>

\* No step answers a document with anything else.
LEMMA TotalsInvariant == Spec => []TotalsInv
<1>1. Init => TotalsInv
  BY DEF Init, TotalsInv, IsAnswered
<1>2. TotalsInv /\ [Next]_<<task, answer>> => TotalsInv'
  <2> SUFFICES ASSUME TotalsInv, [Next]_<<task, answer>> PROVE TotalsInv'
    OBVIOUS
  <2>1. CASE ReadWorkbook \/ SearchOffers \/ MatchGrades
    <3>1. task' = task /\ task.kind # "total"
      BY <2>1 DEF ReadWorkbook, SearchOffers, MatchGrades, Answer
    <3> QED BY <3>1 DEF TotalsInv, IsAnswered
  <2>2. CASE TotalDocument
    BY <2>2 DEF TotalDocument, Answer, TotalsInv, IsAnswered
  <2>3. CASE RefuseDocument
    BY <2>3 DEF RefuseDocument, Answer, TotalsInv, IsAnswered
  <2>4. CASE UNCHANGED <<task, answer>>
    BY <2>4 DEF TotalsInv, IsAnswered
  <2> QED BY <2>1, <2>2, <2>3, <2>4 DEF Next
<1> QED BY <1>1, <1>2, PTL DEF Spec

\* calculate_document, for every payload it accepts: the subtotal is the sum of the
\* line totals, base and VAT are never negative, VAT put on top of a price is the VAT
\* found again inside the total, and VAT taken out of a total is, to a hundredth, the
\* VAT of the rest, though every amount was rounded half up.
THEOREM TotalsAlwaysAddUp == Spec => []TotalsAddUp
<1>1. TotalsInv => TotalsAddUp
  <2> SUFFICES ASSUME TotalsInv, IsAnswered("total"), ~IsRefused(task.payload) PROVE TotalsAddUp
    BY DEF TotalsAddUp
  <2> DEFINE t == Calculate(task.payload)
  <2>1. answer[1] = t
    BY DEF TotalsInv
  <2>2. IsPayload(task.payload)
    BY TasksAssumption DEF TotalsInv, IsAnswered
  <2> QED BY <2>1, <2>2, CalculatedAddsUp DEF TotalsAddUp
<1> QED BY <1>1, TotalsInvariant, PTL

-----------------------------------------------------------------------------
\* Sequences of numbers of one length are totally ordered.
LEMMA RanksInOrder ==
  ASSUME NEW N \in Nat
  PROVE  /\ \A k \in [1..N -> Int] : ~Ranks(k, k)
         /\ \A k, l, m \in [1..N -> Int] : Ranks(k, l) /\ Ranks(l, m) => Ranks(k, m)
         /\ \A k, l \in [1..N -> Int] : k # l => Ranks(k, l) \/ Ranks(l, k)
<1>1. ASSUME NEW k \in [1..N -> Int] PROVE ~Ranks(k, k)
  BY DEF Ranks
<1>2. ASSUME NEW k \in [1..N -> Int], NEW l \in [1..N -> Int], NEW m \in [1..N -> Int],
             Ranks(k, l), Ranks(l, m)
      PROVE  Ranks(k, m)
  <2>1. PICK a \in 1..N : k[a] < l[a] /\ \A i \in 1..a-1 : k[i] = l[i]
    BY <1>2 DEF Ranks
  <2>2. PICK b \in 1..N : l[b] < m[b] /\ \A i \in 1..b-1 : l[i] = m[i]
    BY <1>2 DEF Ranks
  <2>3. CASE a <= b
    <3>1. k[a] < m[a]
      BY <2>1, <2>2, <2>3
    <3>2. \A i \in 1..a-1 : k[i] = m[i]
      BY <2>1, <2>2, <2>3
    <3> QED BY <3>1, <3>2 DEF Ranks
  <2>4. CASE b < a
    <3>1. k[b] < m[b]
      BY <2>1, <2>2, <2>4
    <3>2. \A i \in 1..b-1 : k[i] = m[i]
      BY <2>1, <2>2, <2>4
    <3> QED BY <3>1, <3>2 DEF Ranks
  <2> QED BY <2>3, <2>4
<1>3. ASSUME NEW k \in [1..N -> Int], NEW l \in [1..N -> Int], k # l
      PROVE  Ranks(k, l) \/ Ranks(l, k)
  <2> DEFINE Differ == {i \in 1..N : k[i] # l[i]}
  <2>1. Differ # {} /\ Differ \in SUBSET Nat
    BY SMTT(30), <1>3
  <2>2. PICK i \in Differ : \A j \in Differ : i <= j
    <3> HIDE DEF Differ
    <3> QED BY <2>1, LeastExists
  <2>3. i \in 1..N /\ k[i] # l[i] /\ \A j \in 1..i-1 : k[j] = l[j]
    BY <2>2
  <2>4. k[i] < l[i] \/ l[i] < k[i]
    BY <2>3
  <2> QED BY <2>3, <2>4 DEF Ranks
<1> QED BY <1>1, <1>2, <1>3

\* A finite set whose keys differ, listed by its keys: each element once, in their order.
LEMMA OrderedByKeys ==
  ASSUME NEW keys, IsFiniteSet(DOMAIN keys), NEW N \in Nat,
         \A x \in DOMAIN keys : keys[x] \in [1..N -> Int],
         \A x, y \in DOMAIN keys : keys[x] = keys[y] => x = y
  PROVE  LET S == DOMAIN keys
             n == Cardinality(S)
         IN  /\ n \in Nat /\ Ordered(keys) \in [1..n -> S]
             /\ \A i, j \in 1..n : i < j => Ranks(keys[Ordered(keys)[i]], keys[Ordered(keys)[j]])
             /\ \A x \in S : \E i \in 1..n : Ordered(keys)[i] = x
<1> DEFINE S == DOMAIN keys
           n == Cardinality(S)
           Less(x, y) == Ranks(keys[x], keys[y])
           Before(x) == {y \in S : Less(y, x)}
           rank == [x \in S |-> Cardinality(Before(x)) + 1]
           First(i) == CHOOSE x \in S : Cardinality(Before(x)) = i - 1
           list == [i \in 1..n |-> First(i)]
<1>12. /\ \A x \in S : ~Less(x, x)
       /\ \A x, y, z \in S : Less(x, y) /\ Less(y, z) => Less(x, z)
       /\ \A x, y \in S : x # y => Less(x, y) \/ Less(y, x)
  <2> DEFINE K == [1..N -> Int]
  <2>1. /\ \A k \in K : ~Ranks(k, k)
        /\ \A k, l, m \in K : Ranks(k, l) /\ Ranks(l, m) => Ranks(k, m)
        /\ \A k, l \in K : k # l => Ranks(k, l) \/ Ranks(l, k)
    BY RanksInOrder
  <2>2. \A x \in S : keys[x] \in K
    OBVIOUS
  <2> HIDE DEF K
  <2> QED BY <2>1, <2>2
<1>13. Ordered(keys) = list
  BY Zenon DEF Ordered
<1>14. IsFiniteSet(S)
  OBVIOUS
<1> HIDE DEF S, Less
<1>1. n \in Nat
  BY <1>14, FS_CardinalityType
<1>2. \A x \in S : IsFiniteSet(Before(x)) /\ Cardinality(Before(x)) \in Nat
  <2> SUFFICES ASSUME NEW x \in S PROVE IsFiniteSet(Before(x)) /\ Cardinality(Before(x)) \in Nat
    OBVIOUS
  <2>1. Before(x) \in SUBSET S
    OBVIOUS
  <2> HIDE DEF Before
  <2> QED BY <1>14, <2>1, FS_Subset, FS_CardinalityType
<1>3. ASSUME NEW x \in S, NEW y \in S, Less(x, y)
      PROVE  Cardinality(Before(x)) < Cardinality(Before(y))
  <2>1. Before(x) \in SUBSET Before(y) /\ x \in Before(y) /\ x \notin Before(x)
    BY <1>3, <1>12
  <2> HIDE DEF Before
  <2>2. /\ Cardinality(Before(x)) <= Cardinality(Before(y))
        /\ Cardinality(Before(x)) # Cardinality(Before(y))
    BY <2>1, <1>2, FS_Subset
  <2> QED BY <2>2, <1>2
<1>4. rank \in [S -> 1..n]
  <2> SUFFICES ASSUME NEW x \in S PROVE Cardinality(Before(x)) + 1 \in 1..n
    OBVIOUS
  <2>1. Before(x) \in SUBSET (S \ {x})
    BY <1>12
  <2>2. IsFiniteSet(S \ {x}) /\ Cardinality(S \ {x}) = n - 1
    BY <1>14, FS_RemoveElement
  <2> HIDE DEF Before, n
  <2>3. Cardinality(Before(x)) <= n - 1
    BY <2>1, <2>2, FS_Subset
  <2> QED BY <2>3, <1>1, <1>2
<1>5. rank \in Injection(S, 1..n)
  <2>1. \A x, y \in S : x # y => rank[x] # rank[y]
    <3> SUFFICES ASSUME NEW x \in S, NEW y \in S, x # y PROVE rank[x] # rank[y]
      OBVIOUS
    <3>1. rank[x] = Cardinality(Before(x)) + 1 /\ rank[y] = Cardinality(Before(y)) + 1
      OBVIOUS
    <3>2. Cardinality(Before(x)) # Cardinality(Before(y))
      <4>1. Less(x, y) \/ Less(y, x)
        BY <1>12
      <4>2. Cardinality(Before(x)) \in Nat /\ Cardinality(Before(y)) \in Nat
        BY <1>2
      <4> HIDE DEF Before
      <4> QED BY <4>1, <4>2, <1>3
    <3> HIDE DEF Before, rank
    <3> QED BY <3>1, <3>2, <1>2
  <2> HIDE DEF rank
  <2> QED BY <2>1, <1>4 DEF Injection, IsInjective
<1>6. IsFiniteSet(1..n) /\ Cardinality(1..n) = n
  BY <1>1, FS_Interval
<1>7. rank \in Surjection(S, 1..n)
  <2> HIDE DEF rank
  <2> QED BY <1>5, <1>6, <1>14, FS_Injection
<1>8. \A i \in 1..n : list[i] \in S /\ Cardinality(Before(list[i])) = i - 1
  <2> SUFFICES ASSUME NEW i \in 1..n PROVE list[i] \in S /\ Cardinality(Before(list[i])) = i - 1
    OBVIOUS
  <2>1. \E x \in S : rank[x] = i
    <3> HIDE DEF rank
    <3> QED BY <1>7 DEF Surjection
  <2>2. \E x \in S : Cardinality(Before(x)) = i - 1
    <3>1. \A x \in S : rank[x] = Cardinality(Before(x)) + 1
      OBVIOUS
    <3> HIDE DEF rank, Before, n
    <3>2. PICK x \in S : rank[x] = i
      BY <2>1
    <3>3. Cardinality(Before(x)) = i - 1
      BY <3>1, <3>2, <1>1, <1>2
    <3> QED BY <3>3
  <2>3. list[i] = CHOOSE x \in S : Cardinality(Before(x)) = i - 1
    OBVIOUS
  <2> DEFINE P(x) == Cardinality(Before(x)) = i - 1
  <2>4. (\E x \in S : P(x)) /\ list[i] = CHOOSE x \in S : P(x)
    BY <2>2, <2>3
  <2> HIDE DEF list, First, Before, P
  <2>5. list[i] \in S /\ P(list[i])
    BY <2>4
  <2> QED BY <2>5 DEF P
<1>9. list \in [1..n -> S]
  BY <1>8
<1>10. ASSUME NEW i \in 1..n, NEW j \in 1..n, i < j PROVE Less(list[i], list[j])
  <2> HIDE DEF list, Before, n
  <2>1. Cardinality(Before(list[i])) < Cardinality(Before(list[j]))
    BY <1>8, <1>10
  <2>2. list[i] # list[j] /\ ~Less(list[j], list[i])
    BY <2>1, <1>2, <1>3, <1>8
  <2> QED BY <2>2, <1>8, <1>12
<1>11. ASSUME NEW x \in S PROVE \E i \in 1..n : list[i] = x
  <2> HIDE DEF list, Before, n
  <2>1. PICK i \in 1..n : i = Cardinality(Before(x)) + 1
    BY <1>4
  <2>2. list[i] \in S /\ Cardinality(Before(list[i])) = Cardinality(Before(x))
    BY <1>2, <1>8, <2>1
  <2>3. list[i] = x
    BY <1>2, <1>3, <1>12, <2>2
  <2> QED BY <2>3
<1> HIDE DEF list
<1>15. \A i, j \in 1..n : i < j => Ranks(keys[list[i]], keys[list[j]])
  <2> HIDE DEF list
  <2> QED BY <1>10 DEF Less
<1> HIDE DEF list, n
<1> QED BY <1>13, <1>1, <1>9, <1>15, <1>11 DEF S, n

-----------------------------------------------------------------------------
\* A key resolves to a record of the catalogue that bears it, or to nothing.
LEMMA Resolved ==
  ASSUME NEW c, NEW key, c.aliases \in Seq(Range(c.aliases))
  PROVE  LET r == ResolveGrade(c, key)
         IN  \/ r = Unknown
             \/ /\ r.id \in Names(c, key)
                /\ r.status = "CONFIRMED" => IsConfirmed(c, key, r.id)
<1> DEFINE direct == {g \in c.grades : g.key = key}
           named == {i \in DOMAIN c.aliases : c.aliases[i].key = key /\ c.aliases[i].status # "REJECTED"}
           r == ResolveGrade(c, key)
<1>1. CASE direct # {}
  <2> DEFINE g == CHOOSE h \in direct : TRUE
  <2>1. g \in c.grades /\ g.key = key
    BY <1>1
  <2>2. r.id = g.id /\ r.status = g.status
    BY <1>1 DEF ResolveGrade
  <2> HIDE DEF g, r
  <2>3. r.id \in Names(c, key)
    BY <2>1, <2>2 DEF Names
  <2>4. r.status = "CONFIRMED" => IsConfirmed(c, key, r.id)
    BY <2>1, <2>2 DEF IsConfirmed
  <2> QED BY <2>3, <2>4 DEF r
<1>2. CASE direct = {} /\ named # {}
  <2> DEFINE a == c.aliases[Max(named)]
  <2>1. Max(named) \in named
    <3>1. Len(c.aliases) \in Nat /\ DOMAIN c.aliases = 1..Len(c.aliases)
      OBVIOUS
    <3>2. named \in SUBSET (1..Len(c.aliases))
      BY <3>1
    <3> HIDE DEF named
    <3> QED BY <1>2, <3>1, <3>2, MaxIs
  <2>2. a \in Range(c.aliases) /\ a.key = key /\ a.status # "REJECTED"
    BY <2>1 DEF Range
  <2>3. r.id = a.id /\ r.status = a.status
    BY <1>2 DEF ResolveGrade
  <2> HIDE DEF a, r
  <2>4. r.id \in Names(c, key)
    BY <2>2, <2>3 DEF Names
  <2>5. r.status = "CONFIRMED" => IsConfirmed(c, key, r.id)
    BY <2>2, <2>3 DEF IsConfirmed
  <2> QED BY <2>4, <2>5 DEF r
<1>3. CASE direct = {} /\ named = {}
  BY SMTT(30), <1>3 DEF ResolveGrade
<1> HIDE DEF r
<1> QED BY <1>1, <1>2, <1>3 DEF r

\* A relation that is found holds in the direction asked for and is not rejected.
LEMMA RelationFound ==
  ASSUME NEW c, NEW source, NEW target, c.relations \in Seq(Range(c.relations)),
         Relation(c, source, target) # 0
  PROVE  LET r == c.relations[Relation(c, source, target)]
         IN  r \in Range(c.relations) /\ r.status # "REJECTED" /\ Relates(r, source, target)
<1> DEFINE I == {i \in 1..Len(c.relations) :
                   c.relations[i].status # "REJECTED" /\ Relates(c.relations[i], source, target)}
<1>1. Relation(c, source, target) = IF I # {} THEN Min(I) ELSE 0
  BY Zenon DEF Relation, SelectInSeq
<1>2. I # {} /\ I \in SUBSET Nat
  BY <1>1
<1>3. Min(I) \in I
  <2> HIDE DEF I
  <2> QED BY <1>2, MinIs
<1>4. Len(c.relations) \in Nat /\ DOMAIN c.relations = 1..Len(c.relations)
  OBVIOUS
<1> QED BY <1>1, <1>2, <1>3, <1>4 DEF Range

\* What MatchGrade may find.
MatchTypes == {"EXACT", "ALIAS", "CONFIRMED_EQUIVALENT", "PROPOSED_EQUIVALENT", "FUZZY", "NONE"}

\* How well a spelling fits is a percentage.
LEMMA FuzzyIsPercentage ==
  ASSUME NEW c, NEW wanted, NEW grade,
         Similarity(wanted, grade) \in 0..100,
         \A g \in c.grades : Similarity(wanted, g.key) \in 0..100,
         \A a \in Range(c.aliases) : Similarity(wanted, a.key) \in 0..100
  PROVE  BestFuzzy(c, wanted, grade) \in 0..100
<1> DEFINE keys == {grade} \cup MatchValues(c, ResolveGrade(c, grade).id)
           values == {Similarity(wanted, key) : key \in keys}
<1>1. \A key \in keys : Similarity(wanted, key) \in 0..100
  BY DEF MatchValues
<1>2. values \in SUBSET (0..100) /\ values # {}
  <2> HIDE DEF keys
  <2>1. grade \in keys
    BY DEF keys
  <2> QED BY <1>1, <2>1
<1>3. \E m \in values : \A k \in values : m >= k
  <2> DEFINE S == {v + 1 : v \in values}
  <2> HIDE DEF values
  <2>1. S \in SUBSET (1..101) /\ S # {}
    <3>1. \A v \in values : v + 1 \in 1..101
      BY <1>2
    <3> QED BY ZenonT(40), <1>2, <3>1
  <2>2. PICK m \in S : \A k \in S : k <= m
    <3> HIDE DEF S
    <3> QED BY <2>1, GreatestExists
  <2>3. PICK v \in values : m = v + 1
    OBVIOUS
  <2>4. \A k \in values : v >= k
    <3>1. \A k \in values : k + 1 \in S /\ k \in Int
      BY <1>2
    <3> HIDE DEF S
    <3> QED BY <2>2, <2>3, <1>2, <3>1
  <2> QED BY <2>4
<1>4. BestFuzzy(c, wanted, grade) = Max(values)
  BY DEF BestFuzzy
<1> HIDE DEF values
<1>5. Max(values) \in values
  BY <1>3 DEF Max
<1> QED BY <1>2, <1>4, <1>5

\* How a grade matches another: a score, and a review unless the catalogue vouches.
LEMMA MatchIsJustified ==
  ASSUME NEW c, NEW o, NEW wanted, NEW grade,
         c.aliases \in Seq(Range(c.aliases)), c.relations \in Seq(Range(c.relations)),
         BestFuzzy(c, wanted, grade) \in 0..100
  PROVE  LET m == MatchGrade(c, o, wanted, grade)
         IN  /\ m.score \in Int /\ m.type \in MatchTypes /\ m.review \in BOOLEAN
             /\ ~m.review => IsJustified(c, wanted, grade, m.type)
<1> DEFINE m == MatchGrade(c, o, wanted, grade)
           asked == ResolveGrade(c, wanted)
           found == ResolveGrade(c, grade)
           relation == IF asked.id = "" \/ found.id = "" THEN 0 ELSE Relation(c, asked.id, found.id)
           fuzzy == BestFuzzy(c, wanted, grade)
           Goal(x) == /\ x.score \in Int /\ x.type \in MatchTypes /\ x.review \in BOOLEAN
                      /\ ~x.review => IsJustified(c, wanted, grade, x.type)
<1>1. /\ asked = Unknown \/ (asked.id \in Names(c, wanted) /\ (asked.status = "CONFIRMED" => IsConfirmed(c, wanted, asked.id)))
      /\ found = Unknown \/ (found.id \in Names(c, grade) /\ (found.status = "CONFIRMED" => IsConfirmed(c, grade, found.id)))
  <2> HIDE DEF asked, found
  <2> QED BY Resolved DEF asked, found
<1>2. CASE wanted = grade
  <2>1. m = GradeMatch("EXACT", 100, FALSE)
    BY <1>2 DEF MatchGrade
  <2> HIDE DEF m
  <2> QED BY <2>1, <1>2 DEF GradeMatch, MatchTypes, IsJustified, IsVouchedFor, m
<1>3. CASE wanted # grade /\ asked.id # "" /\ asked.id = found.id
  <2>1. m = GradeMatch("ALIAS", 97, {asked.status, found.status} # {"CONFIRMED"})
    BY <1>3 DEF MatchGrade
  <2> HIDE DEF m, asked, found
  <2>2. ASSUME {asked.status, found.status} = {"CONFIRMED"} PROVE IsJustified(c, wanted, grade, m.type)
    <3>1. asked.status = "CONFIRMED" /\ found.status = "CONFIRMED"
      BY <2>2
    <3>2. Unknown.status = ""
      BY DEF Unknown
    <3>3. asked # Unknown /\ found # Unknown
      BY <3>1, <3>2
    <3>4. /\ asked.id \in Names(c, wanted) /\ IsConfirmed(c, wanted, asked.id)
          /\ asked.id \in Names(c, grade) /\ IsConfirmed(c, grade, asked.id)
      BY <1>1, <1>3, <3>1, <3>3
    <3> QED BY <3>4 DEF IsVouchedFor, IsJustified
  <2>3. m.score = 97 /\ m.type = "ALIAS" /\ m.review = ({asked.status, found.status} # {"CONFIRMED"})
    BY <2>1 DEF GradeMatch
  <2>4. Goal(m)
    <3>1. m.score \in Int /\ m.type \in MatchTypes
      BY <2>3 DEF MatchTypes
    <3>2. m.review \in BOOLEAN /\ (~m.review => IsJustified(c, wanted, grade, m.type))
      BY <2>2, <2>3, Zenon
    <3> QED BY <3>1, <3>2
  <2> QED BY <2>4 DEF m
<1>4. CASE asked.id # found.id /\ relation # 0
  <2> DEFINE r == c.relations[relation]
  <2>1. m = RelationMatch(r, o)
    BY <1>4 DEF MatchGrade
  <2>2. asked.id # "" /\ found.id # "" /\ relation = Relation(c, asked.id, found.id)
    BY <1>4
  <2> HIDE DEF m, asked, found, relation
  <2>3. r \in Range(c.relations) /\ Relates(r, asked.id, found.id)
    BY <2>2, <1>4, RelationFound
  <2>4. asked.id \in Names(c, wanted) /\ found.id \in Names(c, grade)
    <3>1. Unknown.id = ""
      BY DEF Unknown
    <3> QED BY <2>2, <1>1, <3>1
  <2> HIDE DEF r
  <2>5. ASSUME r.status = "CONFIRMED", r.type = "EQUIVALENT", m.type = "CONFIRMED_EQUIVALENT"
        PROVE  IsJustified(c, wanted, grade, m.type)
    <3> SUFFICES ASSUME IsSettled(c, wanted), IsSettled(c, grade) PROVE IsVouchedFor(c, wanted, grade)
      BY <2>5 DEF IsJustified
    <3>1. IsConfirmed(c, wanted, asked.id) /\ IsConfirmed(c, grade, found.id)
      BY <2>4 DEF IsSettled
    <3> QED BY <2>3, <2>5, <3>1 DEF IsVouchedFor, Relates
  <2>6. CASE r.status = "CONFIRMED"
    <3>1. m.score = 90 /\ m.type = "CONFIRMED_EQUIVALENT" /\ m.review = (r.type # "EQUIVALENT")
      BY <2>1, <2>6 DEF RelationMatch, GradeMatch
    <3>2. Goal(m)
      <4>1. m.score \in Int /\ m.type \in MatchTypes
        BY <3>1 DEF MatchTypes
      <4>2. m.review \in BOOLEAN /\ (~m.review => IsJustified(c, wanted, grade, m.type))
        BY <3>1, <2>5, <2>6, Zenon
      <4> QED BY <4>1, <4>2
    <3> QED BY <3>2 DEF m
  <2>7. CASE r.status = "PROPOSED" /\ o.proposed
    <3>1. m.score = 72 /\ m.type = "PROPOSED_EQUIVALENT" /\ m.review = TRUE
      BY <2>1, <2>7 DEF RelationMatch, GradeMatch
    <3>2. Goal(m)
      <4>1. m.score \in Int /\ m.type \in MatchTypes
        BY <3>1 DEF MatchTypes
      <4>2. m.review \in BOOLEAN /\ m.review
        BY <3>1, Zenon
      <4> QED BY <4>1, <4>2
    <3> QED BY <3>2 DEF m
  <2>8. CASE r.status # "CONFIRMED" /\ ~(r.status = "PROPOSED" /\ o.proposed)
    BY <2>1, <2>8 DEF RelationMatch, GradeMatch, NoMatch, MatchTypes, m
  <2> QED BY <2>6, <2>7, <2>8
<1>5. CASE ~(wanted = grade) /\ ~(asked.id # "" /\ asked.id = found.id) /\ ~(asked.id # found.id /\ relation # 0)
  <2>1. m = IF o.fuzzy /\ fuzzy >= o.threshold
            THEN GradeMatch("FUZZY", IF fuzzy < 84 THEN fuzzy ELSE 84, TRUE) ELSE NoMatch
    BY <1>5 DEF MatchGrade
  <2> HIDE DEF m, fuzzy
  <2>2. fuzzy \in 0..100
    BY DEF fuzzy
  <2> QED BY <2>1, <2>2 DEF GradeMatch, NoMatch, MatchTypes, m
<1> QED BY <1>2, <1>3, <1>4, <1>5

-----------------------------------------------------------------------------
\* The closeness of two sizes is a whole number of hundredths.
LEMMA ClosenessIsWhole ==
  ASSUME NEW q, NEW item, q.sizes \in [1..3 -> Nat], item.sizes \in [1..3 -> Nat],
         Given(q.sizes) # {}
  PROVE  Closeness(q, item) \in Int
<1> DEFINE Asked == Given(q.sizes)
           Of(i) == Max({0, 100 - (100 * Absolute(q.sizes[i] - item.sizes[i])) \div q.sizes[i]})
           Part(i) == IF i \in Asked THEN Of(i) ELSE 0
<1>1. ASSUME NEW i \in 1..3 PROVE Part(i) \in Int
  <2>1. CASE i \in Asked
    <3> DEFINE a == 100 * Absolute(q.sizes[i] - item.sizes[i])
               b == q.sizes[i]
    <3>1. b \in Nat \ {0} /\ item.sizes[i] \in Nat
      BY <2>1 DEF Given
    <3>2. a \in Int
      BY <3>1 DEF Absolute
    <3> HIDE DEF a, b
    <3>3. a \div b \in Int
      BY <3>1, <3>2, DivIs
    <3> DEFINE d == 100 - a \div b
    <3>4. d \in Int
      BY <3>3
    <3> HIDE DEF d
    <3>5. \E x \in {0, d} : \A y \in {0, d} : x >= y
      BY <3>4
    <3>6. Max({0, d}) \in {0, d}
      BY <3>5 DEF Max
    <3>7. Max({0, d}) \in Int
      BY <3>4, <3>6
    <3>8. Part(i) = Max({0, d})
      BY <2>1 DEF a, b, d
    <3> QED BY <3>7, <3>8
  <2>2. CASE i \notin Asked
    BY <2>2
  <2> QED BY <2>1, <2>2
<1>2. Cardinality(Asked) \in Nat \ {0}
  <2>1. Asked \in SUBSET (1..3) /\ Asked # {}
    BY DEF Given
  <2> HIDE DEF Asked
  <2>2. Asked \in SUBSET Nat /\ \A i \in Asked : i <= 3
    BY <2>1
  <2>3. IsFiniteSet(Asked)
    BY <2>2, FS_BoundedSetOfNaturals
  <2> QED BY <2>1, <2>3, FS_CardinalityType, FS_EmptySet
<1>3. Closeness(q, item) = IF \E i \in Asked : item.sizes[i] = 0 THEN 0
                           ELSE (Part(1) + Part(2) + Part(3)) \div Cardinality(Asked)
  BY DEF Closeness
<1>4. Part(1) \in Int /\ Part(2) \in Int /\ Part(3) \in Int
  <2> HIDE DEF Part
  <2> QED BY <1>1
<1> HIDE DEF Part, Asked
<1>5. Part(1) + Part(2) + Part(3) \in Int
  BY <1>4
<1>6. (Part(1) + Part(2) + Part(3)) \div Cardinality(Asked) \in Int
  BY <1>5, <1>2, DivIs
<1> QED BY <1>3, <1>6

\* What a result says of its item, of the sizes in it and of the grade's match.
IsResultOf(r, item, near, c, o, q) ==
  /\ r = Result(item, MatchGrade(c, o, q.grade, item.grade), near, q)
  /\ IF near THEN ~IsExactSize(q, item) ELSE IsExactSize(q, item) \/ q.sizes = <<0, 0, 0>>

\* The results of a request are all of them near or none.
LEMMA ResultsOfOneKind ==
  ASSUME NEW c, NEW o, NEW q, NEW items, IsInquiry(c, o, q, items)
  PROVE  \E near \in BOOLEAN : \A r \in Results(c, o, q, items) :
           \E item \in items : IsResultOf(r, item, near, c, o, q)
<1> DEFINE Match(item) == MatchGrade(c, o, q.grade, item.grade)
           candidates == {item \in items : item.profile \in Variants(q.profile) /\ Match(item) # NoMatch}
           exact == {item \in candidates : IsExactSize(q, item)}
           near == {item \in candidates \ exact : IsNearSize(c, o, q, item)}
           sized == Given(q.sizes) # {}
<1>1. CASE ~sized
  <2>1. Results(c, o, q, items) = {Result(item, Match(item), FALSE, q) : item \in candidates}
    BY <1>1 DEF Results
  <2>2. q.sizes = <<0, 0, 0>>
    <3>1. q.sizes \in [1..3 -> Nat] /\ \A i \in 1..3 : q.sizes[i] = 0
      BY <1>1 DEF IsInquiry, Given
    <3>2. <<0, 0, 0>> \in [1..3 -> Nat] /\ \A i \in 1..3 : <<0, 0, 0>>[i] = 0
      OBVIOUS
    <3> QED BY <3>1, <3>2
  <2>3. \A r \in Results(c, o, q, items) : \E item \in items : IsResultOf(r, item, FALSE, c, o, q)
    BY <2>1, <2>2 DEF IsResultOf
  <2> QED BY <2>3
<1>2. CASE sized /\ exact # {}
  <2>1. Results(c, o, q, items) = {Result(item, Match(item), FALSE, q) : item \in exact}
    BY <1>2 DEF Results
  <2>2. \A r \in Results(c, o, q, items) : \E item \in items : IsResultOf(r, item, FALSE, c, o, q)
    BY <2>1 DEF IsResultOf
  <2> QED BY <2>2
<1>3. CASE sized /\ exact = {}
  <2>1. Results(c, o, q, items) = {Result(item, Match(item), TRUE, q) : item \in near}
    BY <1>3 DEF Results
  <2>2. \A r \in Results(c, o, q, items) : \E item \in items : IsResultOf(r, item, TRUE, c, o, q)
    BY <2>1 DEF IsResultOf
  <2> QED BY <2>2
<1> QED BY <1>1, <1>2, <1>3

\* The parts of a result.
LEMMA ResultParts ==
  ASSUME NEW c, NEW o, NEW q, NEW items, IsInquiry(c, o, q, items),
         NEW item \in items, NEW near \in BOOLEAN, NEW r, IsResultOf(r, item, near, c, o, q)
  PROVE  /\ r.item = item /\ r.score \in Int /\ r.deltas \in [1..3 -> Int] /\ r.review \in BOOLEAN
         /\ r.type \in MatchTypes \cup {"NEAR_DIMENSION"} /\ (r.type = "NEAR_DIMENSION" <=> near)
         /\ ~r.review => /\ IsExactSize(q, item) \/ q.sizes = <<0, 0, 0>>
                         /\ IsJustified(c, q.grade, item.grade, r.type)
         /\ \A tie : LET t == [r EXCEPT !.tie = tie]
                     IN  /\ t.tie = tie /\ t.item = r.item /\ t.score = r.score /\ t.deltas = r.deltas
                         /\ t.review = r.review /\ t.type = r.type /\ t.gradeScore = r.gradeScore
<1> DEFINE m == MatchGrade(c, o, q.grade, item.grade)
<1>1. /\ m.score \in Int /\ m.type \in MatchTypes /\ m.review \in BOOLEAN
      /\ ~m.review => IsJustified(c, q.grade, item.grade, m.type)
  <2>1. c.aliases \in Seq(Range(c.aliases)) /\ c.relations \in Seq(Range(c.relations))
    BY SMTT(30) DEF IsInquiry
  <2>2. BestFuzzy(c, q.grade, item.grade) \in 0..100
    <3>1. /\ Similarity(q.grade, item.grade) \in 0..100
          /\ \A g \in c.grades : Similarity(q.grade, g.key) \in 0..100
          /\ \A a \in Range(c.aliases) : Similarity(q.grade, a.key) \in 0..100
      <4> DEFINE Keys == {q.grade} \cup {i.grade : i \in items} \cup {g.key : g \in c.grades}
                         \cup {a.key : a \in Range(c.aliases)}
      <4>1. \A key \in Keys : Similarity(q.grade, key) \in 0..100
        BY DEF IsInquiry
      <4>2. /\ item.grade \in Keys /\ \A g \in c.grades : g.key \in Keys
            /\ \A a \in Range(c.aliases) : a.key \in Keys
        OBVIOUS
      <4> HIDE DEF Keys
      <4> QED BY <4>1, <4>2
    <3> QED BY <3>1, FuzzyIsPercentage
  <2> HIDE DEF m
  <2> QED BY <2>1, <2>2, MatchIsJustified DEF m
<1>2. q.sizes \in [1..3 -> Nat] /\ item.sizes \in [1..3 -> Nat]
  BY DEF IsInquiry
<1>3. r = Result(item, m, near, q)
  BY DEF IsResultOf
<1> HIDE DEF m
<1>4. Score(m, q, item) \in Int
  <2>1. CASE Given(q.sizes) = {}
    BY <2>1, <1>1 DEF Score
  <2>2. CASE Given(q.sizes) # {}
    <3>1. Closeness(q, item) \in Int
      BY <2>2, <1>2, ClosenessIsWhole
    <3> QED BY <2>2, <3>1, <1>1 DEF Score
  <2> QED BY <2>1, <2>2
<1> DEFINE d == [i \in 1..3 |-> IF q.sizes[i] = 0 \/ item.sizes[i] = 0 THEN Unlimited
                                ELSE Absolute(q.sizes[i] - item.sizes[i])]
<1>5. d \in [1..3 -> Int]
  BY <1>2 DEF Unlimited, Absolute
<1>6. /\ r.item = item /\ r.type = (IF near THEN "NEAR_DIMENSION" ELSE m.type)
      /\ r.review = (near \/ m.review) /\ r.score = Score(m, q, item) /\ r.deltas = d
  BY <1>3 DEF Result
<1>7. \A tie : LET t == [r EXCEPT !.tie = tie]
              IN  /\ t.tie = tie /\ t.item = r.item /\ t.score = r.score /\ t.deltas = r.deltas
                  /\ t.review = r.review /\ t.type = r.type /\ t.gradeScore = r.gradeScore
  <2> HIDE DEF d
  <2> QED BY <1>3 DEF Result
<1> HIDE DEF d
<1>8. r.type \in MatchTypes \cup {"NEAR_DIMENSION"} /\ (r.type = "NEAR_DIMENSION" <=> near)
  BY <1>1, <1>6 DEF MatchTypes
<1>9. r.review \in BOOLEAN
  BY <1>1, <1>6, Zenon
<1>10. ~r.review => ~near /\ ~m.review
  BY <1>1, <1>6, Zenon
<1>11. ~r.review => /\ IsExactSize(q, item) \/ q.sizes = <<0, 0, 0>>
                    /\ IsJustified(c, q.grade, item.grade, r.type)
  BY <1>1, <1>6, <1>10 DEF IsResultOf
<1> QED BY <1>4, <1>5, <1>6, <1>7, <1>8, <1>9, <1>11

-----------------------------------------------------------------------------
\* The image of a finite set is finite.
LEMMA ImageIsFinite ==
  ASSUME NEW S, IsFiniteSet(S), NEW f, f = [x \in S |-> f[x]]
  PROVE  IsFiniteSet({f[x] : x \in S})
<1> DEFINE T == {f[x] : x \in S}
<1>1. f \in Surjection(S, T)
  BY DEF Surjection
<1> QED BY <1>1, FS_Surjection

\* A result marked as a tie or not, and the result it was.
IsMarkOf(t, r, results) ==
  t = [r EXCEPT !.tie = \E s \in results :
         /\ r.type = "FUZZY" /\ s.type = "FUZZY" /\ r.item.grade # s.item.grade
         /\ r.gradeScore = s.gradeScore /\ r.score = s.score]

\* A marked result is a result with its mark.
LEMMA MarkedIs ==
  ASSUME NEW results, NEW t \in MarkTies(results)
  PROVE  \E r \in results : IsMarkOf(t, r, results)
BY DEF MarkTies, IsMarkOf

\* The type of a result as a place in the order of types.
LEMMA PriorityIsWhole ==
  ASSUME NEW type
  PROVE  PriorityOf(type) \in Int
<1> DEFINE I == {i \in 1..Len(Priority) : Priority[i] = type}
<1>1. PriorityOf(type) = IF I # {} THEN Min(I) ELSE 0
  BY Zenon DEF PriorityOf, SelectInSeq
<1>2. I \in SUBSET Nat
  OBVIOUS
<1> HIDE DEF I
<1>3. I # {} => Min(I) \in Nat
  BY <1>2, MinIs
<1> QED BY <1>1, <1>3

\* What a marked result is sorted by: whole numbers, with the item's id at the end.
LEMMA SortKeyIs ==
  ASSUME NEW t, t.score \in Int, t.deltas \in [1..3 -> Int], t.item.supplier \in Int, t.item.id \in Int
  PROVE  /\ SortKey(t) \in [1..8 -> Int]
         /\ SortKey(t)[1] = PriorityOf(t.type)
         /\ SortKey(t)[2] = (IF t.review THEN 1 ELSE 0)
         /\ SortKey(t)[8] = t.item.id
<1> DEFINE p == PriorityOf(t.type)
           v == IF t.review THEN 1 ELSE 0
<1>1. SortKey(t) = <<p, v, -t.score, t.deltas[1], t.deltas[2], t.deltas[3], t.item.supplier, t.item.id>>
  BY Zenon DEF SortKey
<1>2. p \in Int
  BY PriorityIsWhole
<1>3. v \in Int
  OBVIOUS
<1>4. -t.score \in Int /\ t.deltas[1] \in Int /\ t.deltas[2] \in Int /\ t.deltas[3] \in Int
  OBVIOUS
<1> DEFINE n == -t.score
           d1 == t.deltas[1]
           d2 == t.deltas[2]
           d3 == t.deltas[3]
           s == t.item.supplier
           i == t.item.id
<1>5. p \in Int /\ v \in Int /\ n \in Int /\ d1 \in Int /\ d2 \in Int /\ d3 \in Int /\ s \in Int /\ i \in Int
  BY <1>2, <1>3, <1>4
<1>6. SortKey(t) = <<p, v, n, d1, d2, d3, s, i>>
  BY <1>1
<1> HIDE DEF p, v, n, d1, d2, d3, s, i
<1>7. SortKey(t) \in [1..8 -> Int]
  BY <1>5, <1>6
<1>8. SortKey(t)[1] = p /\ SortKey(t)[2] = v /\ SortKey(t)[8] = i
  BY <1>6
<1> QED BY <1>7, <1>8 DEF p, v, i

-----------------------------------------------------------------------------
\* The marked results of a request, of finite number and each with a key of its own.
LEMMA MarkedResults ==
  ASSUME NEW c, NEW o, NEW q, NEW items, IsInquiry(c, o, q, items)
  PROVE  LET marked == MarkTies(Results(c, o, q, items))
         IN  /\ IsFiniteSet(marked)
             /\ \A t \in marked : SortKey(t) \in [1..8 -> Int]
             /\ \A t, u \in marked : SortKey(t) = SortKey(u) => t = u
<1> DEFINE R == Results(c, o, q, items)
           marked == MarkTies(R)
<1>1. PICK near \in BOOLEAN : \A r \in R : \E item \in items : IsResultOf(r, item, near, c, o, q)
  BY ResultsOfOneKind
<1> HIDE DEF R
<1> DEFINE plain == [item \in items |-> Result(item, MatchGrade(c, o, q.grade, item.grade), near, q)]
           Tie(r) == \E s \in R : /\ r.type = "FUZZY" /\ s.type = "FUZZY" /\ r.item.grade # s.item.grade
                                 /\ r.gradeScore = s.gradeScore /\ r.score = s.score
           ties == [item \in items |-> [plain[item] EXCEPT !.tie = Tie(plain[item])]]
<1>2. ASSUME NEW t \in marked PROVE \E item \in items : IsResultOf(plain[item], item, near, c, o, q) /\ t = ties[item]
  <2>1. PICK r \in R : IsMarkOf(t, r, R)
    BY MarkedIs
  <2>2. PICK item \in items : IsResultOf(r, item, near, c, o, q)
    BY <1>1
  <2>3. r = plain[item]
    BY <2>2 DEF IsResultOf
  <2> HIDE DEF plain
  <2>4. t = [r EXCEPT !.tie = Tie(r)]
    BY <2>1 DEF IsMarkOf
  <2>5. t = ties[item]
    BY <2>3, <2>4
  <2> QED BY <2>2, <2>3, <2>5
<1>3. IsFiniteSet(marked)
  <2>1. IsFiniteSet(items)
    BY DEF IsInquiry
  <2>2. ties = [item \in items |-> ties[item]]
    OBVIOUS
  <2> HIDE DEF ties, marked
  <2>3. IsFiniteSet({ties[item] : item \in items})
    BY <2>1, <2>2, ImageIsFinite
  <2>4. marked \in SUBSET {ties[item] : item \in items}
    BY <1>2
  <2> QED BY <2>3, <2>4, FS_Subset
<1>4. ASSUME NEW item \in items, IsResultOf(plain[item], item, near, c, o, q)
      PROVE  SortKey(ties[item]) \in [1..8 -> Int] /\ SortKey(ties[item])[8] = item.id
  <2>1. ties[item] = [plain[item] EXCEPT !.tie = Tie(plain[item])]
    OBVIOUS
  <2> HIDE DEF plain, ties, Tie
  <2> DEFINE t == ties[item]
             r == plain[item]
  <2>2. r.item = item /\ r.score \in Int /\ r.deltas \in [1..3 -> Int]
    BY <1>4, ResultParts
  <2>3. t.item = r.item /\ t.score = r.score /\ t.deltas = r.deltas
    BY <1>4, <2>1, ResultParts
  <2>4. item.supplier \in Int /\ item.id \in Int
    BY DEF IsInquiry
  <2> HIDE DEF t, r
  <2>5. SortKey(t) \in [1..8 -> Int] /\ SortKey(t)[8] = t.item.id
    BY <2>2, <2>3, <2>4, SortKeyIs
  <2> QED BY <2>2, <2>3, <2>5 DEF t
<1> HIDE DEF marked, ties, plain
<1>5. \A t \in marked : SortKey(t) \in [1..8 -> Int]
  BY <1>2, <1>4
<1>6. ASSUME NEW t \in marked, NEW u \in marked, SortKey(t) = SortKey(u) PROVE t = u
  <2>1. PICK i \in items : IsResultOf(plain[i], i, near, c, o, q) /\ t = ties[i]
    BY <1>2
  <2>2. PICK j \in items : IsResultOf(plain[j], j, near, c, o, q) /\ u = ties[j]
    BY <1>2
  <2>3. i.id = j.id
    BY <2>1, <2>2, <1>4, <1>6
  <2>4. i = j
    BY <2>3 DEF IsInquiry
  <2> QED BY <2>1, <2>2, <2>4
<1> QED BY <1>3, <1>5, <1>6 DEF marked, R

\* A search returns marked results in the order of their keys.
LEMMA FoundInOrder ==
  ASSUME NEW c, NEW o, NEW q, NEW items, IsInquiry(c, o, q, items)
  PROVE  LET found == Search(c, o, q, items)
         IN  /\ found \in Seq(MarkTies(Results(c, o, q, items)))
             /\ \A n \in 2..Len(found) : /\ SortKey(found[n-1]) \in [1..8 -> Int]
                                         /\ SortKey(found[n]) \in [1..8 -> Int]
                                         /\ Ranks(SortKey(found[n-1]), SortKey(found[n]))
<1> DEFINE marked == MarkTies(Results(c, o, q, items))
           keys == [r \in marked |-> SortKey(r)]
           sorted == Ordered(keys)
           n == Cardinality(marked)
           found == Search(c, o, q, items)
<1>1. /\ IsFiniteSet(marked) /\ \A t \in marked : SortKey(t) \in [1..8 -> Int]
      /\ \A t, u \in marked : SortKey(t) = SortKey(u) => t = u
  BY MarkedResults
<1>2. found = SubSeq(sorted, 1, Min({Len(sorted), o.limit}))
  BY Zenon DEF Search
<1>3. o.limit \in 1..200
  BY DEF IsInquiry
<1> HIDE DEF marked, found
<1>4. keys \in [marked -> [1..8 -> Int]] /\ \A t \in marked : keys[t] = SortKey(t)
  BY <1>1
<1>5. \A t, u \in marked : keys[t] = keys[u] => t = u
  BY <1>1, <1>4
<1> HIDE DEF keys
<1>6. /\ n \in Nat /\ sorted \in [1..n -> marked]
      /\ \A i, j \in 1..n : i < j => Ranks(keys[sorted[i]], keys[sorted[j]])
  <2>1. DOMAIN keys = marked
    BY <1>4
  <2> QED BY <1>1, <1>4, <1>5, <2>1, OrderedByKeys
<1> HIDE DEF sorted, n
<1>7. Len(sorted) = n
  BY <1>6
<1> DEFINE k == Min({Len(sorted), o.limit})
<1>8. k \in Nat /\ k <= n
  <2> DEFINE S == {Len(sorted), o.limit}
  <2>1. S \in SUBSET Nat /\ S # {}
    <3>1. Len(sorted) \in Nat
      BY <1>6, <1>7
    <3>2. o.limit \in Nat
      BY <1>3
    <3> QED BY <3>1, <3>2
  <2>2. n \in S
    BY <1>7
  <2> HIDE DEF S
  <2>3. Min(S) \in S /\ \A x \in S : Min(S) <= x
    BY <2>1, MinIs
  <2>4. Min(S) \in Nat /\ Min(S) <= n
    BY <2>1, <2>2, <2>3
  <2> QED BY <2>4 DEF S
<1> HIDE DEF k
<1>9. found \in Seq(marked) /\ Len(found) = k /\ \A i \in 1..k : found[i] = sorted[i]
  <2>1. found = SubSeq(sorted, 1, k)
    BY <1>2 DEF k
  <2>2. \A i \in 1..k : sorted[i] \in marked
    BY <1>6, <1>7, <1>8
  <2>3. /\ SubSeq(sorted, 1, k) \in Seq(marked)
        /\ Len(SubSeq(sorted, 1, k)) = IF 1 <= k THEN k - 1 + 1 ELSE 0
        /\ \A i \in 1..(k - 1 + 1) : SubSeq(sorted, 1, k)[i] = sorted[1 + i - 1]
    BY <2>2, <1>8, SubSeqProperties
  <2>4. k - 1 + 1 = k /\ (~(1 <= k) => k = 0) /\ \A i \in 1..k : 1 + i - 1 = i
    BY <1>8
  <2>5. \A i \in 1..k : SubSeq(sorted, 1, k)[i] = sorted[i]
    BY <2>3, <2>4
  <2> QED BY <2>1, <2>3, <2>4, <2>5
<1>10. ASSUME NEW i \in 2..Len(found)
       PROVE  /\ SortKey(found[i-1]) \in [1..8 -> Int] /\ SortKey(found[i]) \in [1..8 -> Int]
              /\ Ranks(SortKey(found[i-1]), SortKey(found[i]))
  <2>1. i - 1 \in 1..n /\ i \in 1..n /\ i - 1 < i /\ i - 1 \in 1..k /\ i \in 1..k
    BY <1>6, <1>8, <1>9
  <2>2. found[i-1] = sorted[i-1] /\ found[i] = sorted[i]
    BY <2>1, <1>9
  <2>3. Ranks(keys[sorted[i-1]], keys[sorted[i]])
    BY <2>1, <1>6
  <2>4. found[i-1] \in marked /\ found[i] \in marked
    BY <2>1, <2>2, <1>6
  <2> QED BY <2>2, <2>3, <2>4, <1>1, <1>4
<1> QED BY <1>9, <1>10 DEF marked, found

-----------------------------------------------------------------------------
\* What a search returns may be used as its marks say.
LEMMA SearchIsJustified ==
  ASSUME NEW c, NEW o, NEW q, NEW items, IsInquiry(c, o, q, items)
  PROVE  LET found == Search(c, o, q, items)
             Near(r) == r.type = "NEAR_DIMENSION"
         IN  /\ \A r \in Range(found) :
                  ~r.review => /\ IsExactSize(q, r.item) \/ q.sizes = <<0, 0, 0>>
                               /\ IsJustified(c, q.grade, r.item.grade, r.type)
             /\ \A r, s \in Range(found) :
                  /\ Near(r) => Near(s) /\ ~IsExactSize(q, s.item)
                  /\ (/\ r.type = "FUZZY" /\ s.type = "FUZZY"
                      /\ r.gradeScore = s.gradeScore /\ r.score = s.score)
                     => r.item.grade = s.item.grade \/ (r.tie /\ s.tie)
             /\ \A n \in 2..Len(found) :
                  ~(found[n-1].review /\ ~found[n].review /\ found[n-1].type = found[n].type)
<1> DEFINE found == Search(c, o, q, items)
           R == Results(c, o, q, items)
           marked == MarkTies(R)
<1>1. /\ found \in Seq(marked)
      /\ \A n \in 2..Len(found) : /\ SortKey(found[n-1]) \in [1..8 -> Int]
                                  /\ SortKey(found[n]) \in [1..8 -> Int]
                                  /\ Ranks(SortKey(found[n-1]), SortKey(found[n]))
  BY FoundInOrder
<1>2. PICK near \in BOOLEAN : \A r \in R : \E item \in items : IsResultOf(r, item, near, c, o, q)
  BY ResultsOfOneKind
<1> DEFINE Tied(r, s) == /\ r.type = "FUZZY" /\ s.type = "FUZZY" /\ r.item.grade # s.item.grade
                         /\ r.gradeScore = s.gradeScore /\ r.score = s.score
           Tie(r) == \E s \in R : Tied(r, s)
           Same(t, r) == /\ t.item = r.item /\ t.score = r.score /\ t.deltas = r.deltas /\ t.review = r.review
                         /\ t.type = r.type /\ t.gradeScore = r.gradeScore
<1> HIDE DEF found, R
<1>3. ASSUME NEW t \in marked
      PROVE  \E r \in R, item \in items : IsResultOf(r, item, near, c, o, q) /\ Same(t, r) /\ t.tie = Tie(r)
  <2>1. PICK r \in R : IsMarkOf(t, r, R)
    BY MarkedIs
  <2>2. PICK item \in items : IsResultOf(r, item, near, c, o, q)
    BY <1>2
  <2>3. t = [r EXCEPT !.tie = Tie(r)]
    BY <2>1 DEF IsMarkOf
  <2> HIDE DEF Tie
  <2>4. Same(t, r) /\ t.tie = Tie(r)
    BY <2>2, <2>3, ResultParts
  <2> QED BY <2>2, <2>4
<1> HIDE DEF marked
<1>4. Range(found) \in SUBSET marked /\ \A n \in 1..Len(found) : found[n] \in marked
  BY <1>1 DEF Range
<1>5. ASSUME NEW t \in marked, ~t.review
      PROVE  /\ IsExactSize(q, t.item) \/ q.sizes = <<0, 0, 0>>
             /\ IsJustified(c, q.grade, t.item.grade, t.type)
  <2>1. PICK r \in R, item \in items : IsResultOf(r, item, near, c, o, q) /\ Same(t, r)
    BY <1>3
  <2>2. /\ r.item = item
        /\ ~r.review => /\ IsExactSize(q, item) \/ q.sizes = <<0, 0, 0>>
                        /\ IsJustified(c, q.grade, item.grade, r.type)
    BY <2>1, ResultParts
  <2>3. ~r.review /\ t.item = item /\ t.type = r.type
    BY <1>5, <2>1, <2>2
  <2> QED BY <2>2, <2>3
<1>6. ASSUME NEW t \in marked, NEW u \in marked, t.type = "NEAR_DIMENSION"
      PROVE  u.type = "NEAR_DIMENSION" /\ ~IsExactSize(q, u.item)
  <2>1. PICK r \in R, item \in items : IsResultOf(r, item, near, c, o, q) /\ Same(t, r)
    BY <1>3
  <2>2. PICK s \in R, other \in items : IsResultOf(s, other, near, c, o, q) /\ Same(u, s)
    BY <1>3
  <2>3. near
    BY <1>6, <2>1, ResultParts
  <2>4. s.type = "NEAR_DIMENSION" /\ s.item = other
    <3>1. s.item = other /\ (s.type = "NEAR_DIMENSION" <=> near)
      BY <2>2, ResultParts
    <3> QED BY <3>1, <2>3
  <2>5. ~IsExactSize(q, other)
    BY <2>2, <2>3 DEF IsResultOf
  <2> QED BY <2>2, <2>4, <2>5
<1>7. ASSUME NEW t \in marked, NEW u \in marked, Tied(t, u)
      PROVE  t.tie /\ u.tie
  <2>1. PICK r \in R, item \in items : IsResultOf(r, item, near, c, o, q) /\ Same(t, r) /\ t.tie = Tie(r)
    BY <1>3
  <2>2. PICK s \in R, other \in items : IsResultOf(s, other, near, c, o, q) /\ Same(u, s) /\ u.tie = Tie(s)
    BY <1>3
  <2>3. Tied(r, s) /\ Tied(s, r)
    BY <1>7, <2>1, <2>2
  <2>4. Tie(r) /\ Tie(s)
    BY <2>3
  <2> HIDE DEF Tie
  <2> QED BY <2>1, <2>2, <2>4, Zenon
<1>8. ASSUME NEW n \in 2..Len(found)
      PROVE  ~(found[n-1].review /\ ~found[n].review /\ found[n-1].type = found[n].type)
  <2> SUFFICES ASSUME found[n-1].review, ~found[n].review, found[n-1].type = found[n].type
               PROVE  FALSE
    OBVIOUS
  <2> DEFINE t == found[n-1]
             u == found[n]
             k == SortKey(t)
             l == SortKey(u)
  <2>1. t \in marked /\ u \in marked
    <3>1. n - 1 \in 1..Len(found) /\ n \in 1..Len(found)
      BY <1>1
    <3> QED BY <3>1, <1>4
  <2>2. k \in [1..8 -> Int] /\ l \in [1..8 -> Int] /\ Ranks(k, l)
    BY <1>1
  <2> HIDE DEF t, u
  <2>3. ASSUME NEW x \in marked
        PROVE  SortKey(x)[1] = PriorityOf(x.type) /\ SortKey(x)[2] = (IF x.review THEN 1 ELSE 0)
    <3>1. PICK r \in R, item \in items : IsResultOf(r, item, near, c, o, q) /\ Same(x, r)
      BY <1>3
    <3>2. r.item = item /\ r.score \in Int /\ r.deltas \in [1..3 -> Int]
      BY <3>1, ResultParts
    <3>3. item.supplier \in Int /\ item.id \in Int
      BY DEF IsInquiry
    <3> QED BY <3>1, <3>2, <3>3, SortKeyIs
  <2>4. t.review /\ ~u.review /\ t.type = u.type
    BY DEF t, u
  <2>5. k[1] = l[1] /\ k[2] = 1 /\ l[2] = 0
    BY <2>1, <2>3, <2>4
  <2> HIDE DEF k, l
  <2>6. PICK i \in 1..8 : k[i] < l[i] /\ \A j \in 1..i-1 : k[j] = l[j]
    BY <2>2 DEF Ranks
  <2>7. i # 1 /\ i # 2
    <3>1. l[1] \in Int
      BY <2>2
    <3>2. ~(l[1] < l[1]) /\ ~(1 < 0)
      BY <3>1
    <3> QED BY <2>5, <2>6, <3>2
  <2>8. 2 \in 1..i-1
    BY <2>6, <2>7
  <2> QED BY <2>5, <2>6, <2>8
<1> QED BY <1>4, <1>5, <1>6, <1>7, <1>8 DEF found

\* An answered request was searched for.
MatchesInv ==
  /\ task \in Tasks
  /\ IsAnswered("match") => answer = <<Search(task.catalog, task.options, task.query, task.items)>>

\* No step answers a request with anything else.
LEMMA MatchesInvariant == Spec => []MatchesInv
<1>1. Init => MatchesInv
  BY DEF Init, MatchesInv, IsAnswered
<1>2. MatchesInv /\ [Next]_<<task, answer>> => MatchesInv'
  <2> SUFFICES ASSUME MatchesInv, [Next]_<<task, answer>> PROVE MatchesInv'
    OBVIOUS
  <2>1. CASE ReadWorkbook \/ SearchOffers \/ TotalDocument \/ RefuseDocument
    <3>1. task' = task /\ task.kind # "match"
      BY <2>1 DEF ReadWorkbook, SearchOffers, TotalDocument, RefuseDocument, Answer
    <3> QED BY <3>1 DEF MatchesInv, IsAnswered
  <2>2. CASE MatchGrades
    BY <2>2 DEF MatchGrades, Answer, MatchesInv, IsAnswered
  <2>3. CASE UNCHANGED <<task, answer>>
    BY <2>3 DEF MatchesInv, IsAnswered
  <2> QED BY <2>1, <2>2, <2>3 DEF Next
<1> QED BY <1>1, <1>2, PTL DEF Spec

\* NomenclatureSearchService.search, for every catalogue, request and list of items: a
\* result that asks for no review has the exact sizes and a grade the catalogue vouches
\* for (an equivalent only where nothing unconfirmed names either grade); near sizes come only without exact ones; ties are marked; and what needs no
\* review comes first among its kind, also where the limit cuts the list off.
THEOREM MatchesAlwaysJustified == Spec => []MatchesAreJustified
<1>1. MatchesInv => MatchesAreJustified
  <2> SUFFICES ASSUME MatchesInv, IsAnswered("match") PROVE MatchesAreJustified
    BY DEF MatchesAreJustified
  <2>1. answer[1] = Search(task.catalog, task.options, task.query, task.items)
    BY DEF MatchesInv
  <2>2. IsInquiry(task.catalog, task.options, task.query, task.items)
    BY TasksAssumption DEF MatchesInv, IsAnswered
  <2> QED BY <2>1, <2>2, SearchIsJustified DEF MatchesAreJustified
<1> QED BY <1>1, MatchesInvariant, PTL
-----------------------------------------------------------------------------
\* What stands in a query with a part of it cut out is what stood there, or a gap.
LEMMA WithoutIs ==
  ASSUME NEW n \in Nat, NEW query, DOMAIN query = 1..n, NEW a, NEW b,
         \A i \in 1..n : query[i].number \in Int
  PROVE  /\ DOMAIN Without(query, a, b) = 1..n
         /\ \A i \in 1..n : Without(query, a, b)[i].number \in Int
<1>1. Gap.number \in Int
  BY DEF Gap
<1>2. \A i \in 1..n : Without(query, a, b)[i] \in {Gap, query[i]}
  BY DEF Without
<1> QED BY <1>1, <1>2 DEF Without

\* A query gives at most three sizes, all of them numbers that stand in it.
LEMMA SizesAreWhole ==
  ASSUME NEW n \in Nat, NEW query, DOMAIN query = 1..n, \A i \in 1..n : query[i].number \in Int
  PROVE  \E L \in 0..3 : QuerySizes(query).sizes \in [1..L -> Int]
<1> DEFINE Number(i) == i \in DOMAIN query /\ query[i].number # 0
           Joined(i) == Number(i) /\ query[i].joined # "" /\ Number(i + 1)
           blocks == {i \in DOMAIN query : Joined(i)}
           Having(marks) == {i \in DOMAIN query : Number(i) /\ query[i].mark \in marks}
           loose == Having({"", "boxes"})
           Span(i, last) == [sizes |-> [m \in 1..last-i+1 |-> query[i + m - 1].number],
                             first |-> i, last |-> last]
           First(S) == Span(Min(S), Min(S))
           start == Min(blocks)
           none == [sizes |-> <<>>, first |-> 1, last |-> 0]
           s == QuerySizes(query)
           Of(L) == s.sizes \in [1..L -> Int]
<1>1. s = CASE blocks # {} -> Span(start, IF Joined(start + 1) THEN start + 2 ELSE start + 1)
            [] blocks = {} /\ Having({"size"}) # {} -> First(Having({"size"}))
            [] blocks = {} /\ Having({"size"}) = {} /\ Having({"unit"}) # {} -> First(Having({"unit"}))
            [] OTHER -> IF loose = {} THEN none ELSE Span(Max(loose), Max(loose))
  BY Zenon DEF QuerySizes
<1>2. /\ blocks \in SUBSET Nat /\ \A mark : Having(mark) \in SUBSET (1..n)
      /\ \A i \in blocks : Joined(i)
  <2>1. blocks \in SUBSET (1..n) /\ \A i \in blocks : Joined(i)
    <3> HIDE DEF Joined
    <3> QED OBVIOUS
  <2>2. \A mark : Having(mark) \in SUBSET (1..n)
    <3> HIDE DEF Number
    <3> QED OBVIOUS
  <2>3. (1..n) \in SUBSET Nat
    OBVIOUS
  <2> HIDE DEF blocks, Having, Joined
  <2> QED BY <2>1, <2>2, <2>3
<1>3. ASSUME NEW i \in 1..n PROVE Span(i, i).sizes \in [1..1 -> Int]
  <2>1. \A m \in 1..1 : i + m - 1 = i
    OBVIOUS
  <2>2. i - i + 1 = 1
    OBVIOUS
  <2>3. Span(i, i).sizes = [m \in 1..1 |-> query[i + m - 1].number]
    BY <2>2
  <2> QED BY <2>1, <2>3
<1>4. ASSUME blocks # {} PROVE \E L \in 0..3 : Of(L)
  <2>1. start \in blocks
    <3> HIDE DEF blocks
    <3> QED BY <1>2, <1>4, MinIs
  <2>2. Joined(start)
    BY <2>1
  <2>3. start \in Nat /\ start \in 1..n /\ start + 1 \in 1..n
    <3>1. Number(start) /\ Number(start + 1)
      BY <2>2, Zenon
    <3>2. start \in DOMAIN query /\ start + 1 \in DOMAIN query
      BY <3>1
    <3> HIDE DEF start
    <3> QED BY <3>2
  <2> DEFINE last == IF Joined(start + 1) THEN start + 2 ELSE start + 1
  <2>4. last \in {start + 1, start + 2} /\ last \in 1..n
    <3>1. Joined(start + 1) => start + 1 + 1 \in 1..n
      <4> HIDE DEF start
      <4> QED OBVIOUS
    <3> HIDE DEF start, Joined
    <3> QED BY <2>3, <3>1
  <2>5. s = Span(start, last)
    BY Zenon, <1>1, <1>4
  <2> HIDE DEF start, last, s
  <2> DEFINE L == last - start + 1
  <2>6. L \in 2..3 /\ \A m \in 1..L : start + m - 1 \in 1..n
    BY <2>3, <2>4
  <2>7. s.sizes = [m \in 1..L |-> query[start + m - 1].number]
    BY <2>5
  <2>8. s.sizes \in [1..L -> Int]
    <3> HIDE DEF L
    <3> QED BY <2>6, <2>7
  <2>9. L \in 0..3 /\ Of(L)
    BY <2>6, <2>8
  <2> HIDE DEF L, Of
  <2> QED BY <2>9
<1>5. ASSUME NEW mark, Having(mark) # {}
      PROVE  /\ Min(Having(mark)) \in 1..n
             /\ Max(Having(mark)) \in 1..n
  <2>1. Having(mark) \in SUBSET (1..n) /\ Having(mark) \in SUBSET Nat
    OBVIOUS
  <2> DEFINE H == Having(mark)
  <2> HIDE DEF Having, H
  <2>2. Min(H) \in H
    BY <2>1, <1>5, MinIs DEF H
  <2>3. Max(H) \in H
    BY <2>1, <1>5, MaxIs DEF H
  <2> QED BY <2>1, <2>2, <2>3 DEF H
<1>6. ASSUME blocks = {} /\ Having({"size"}) # {} PROVE \E L \in 0..3 : Of(L)
  <2>1. s = First(Having({"size"}))
    BY Zenon, <1>1, <1>6
  <2> HIDE DEF s, Having, Span
  <2> DEFINE m == Min(Having({"size"}))
  <2>2. 1 \in 0..3 /\ Of(1)
    <3>1. s = Span(m, m) /\ m \in 1..n
      BY Zenon, <2>1, <1>5, <1>6
    <3> HIDE DEF m
    <3>2. s.sizes \in [1..1 -> Int]
      BY <3>1, <1>3
    <3> QED BY <3>2
  <2> HIDE DEF Of
  <2> QED BY <2>2
<1>7. ASSUME blocks = {} /\ Having({"size"}) = {} /\ Having({"unit"}) # {} PROVE \E L \in 0..3 : Of(L)
  <2>1. s = First(Having({"unit"}))
    BY Zenon, <1>1, <1>7
  <2> HIDE DEF s, Having, Span
  <2> DEFINE m == Min(Having({"unit"}))
  <2>2. 1 \in 0..3 /\ Of(1)
    <3>1. s = Span(m, m) /\ m \in 1..n
      BY Zenon, <2>1, <1>5, <1>7
    <3> HIDE DEF m
    <3>2. s.sizes \in [1..1 -> Int]
      BY <3>1, <1>3
    <3> QED BY <3>2
  <2> HIDE DEF Of
  <2> QED BY <2>2
<1>8. ASSUME blocks = {} /\ Having({"size"}) = {} /\ Having({"unit"}) = {} PROVE \E L \in 0..3 : Of(L)
  <2>1. s = IF loose = {} THEN none ELSE Span(Max(loose), Max(loose))
    BY Zenon, <1>1, <1>8
  <2>2. none.sizes \in [1..0 -> Int]
    OBVIOUS
  <2> HIDE DEF s, Having, Span, none
  <2>3. CASE loose = {}
    <3>1. s = none
      BY Zenon, <2>1, <2>3
    <3>2. 0 \in 0..3 /\ Of(0)
      BY <3>1, <2>2
    <3> HIDE DEF Of
    <3> QED BY <3>2
  <2>4. CASE loose # {}
    <3>1. s = Span(Max(loose), Max(loose))
      BY Zenon, <2>1, <2>4
    <3> DEFINE m == Max(loose)
    <3>3. m \in 1..n
      BY <2>4, <1>5
    <3> HIDE DEF m
    <3>4. Span(m, m).sizes \in [1..1 -> Int]
      BY <3>3, <1>3
    <3>2. 1 \in 0..3 /\ Of(1)
      <4>1. s = Span(m, m)
        BY <3>1 DEF m
      <4>2. s.sizes \in [1..1 -> Int]
        BY <4>1, <3>4
      <4> QED BY <4>2
    <3> HIDE DEF Of
    <3> QED BY <3>2
  <2> HIDE DEF Of
  <2> QED BY <2>3, <2>4
<1>9. \E L \in 0..3 : Of(L)
  <2> HIDE DEF Of, blocks, Having
  <2> QED BY <1>4, <1>6, <1>7, <1>8
<1> QED BY <1>9

\* What an item is ranked by: first whether a size differs, then by how much in all.
LEMMA RankIs ==
  ASSUME NEW item, NEW wanted, NEW L \in 0..3, wanted.sizes \in [1..L -> Int],
         \A i \in 1..L : ItemSize(item, i) \in Int, item.supplier \in Int, item.row \in Int
  PROVE  LET k == RankOf(item, wanted)
         IN  /\ k \in [1..(6 + L) -> Int] /\ Len(k) = 6 + L /\ k \in Seq(Int)
             /\ k[1] = IF IsExact(item, wanted) THEN 0 ELSE 1
             /\ k[2] = SumOf(Deltas(item, wanted.sizes))
<1> DEFINE d == Deltas(item, wanted.sizes)
           e == IF IsExact(item, wanted) THEN 0 ELSE 1
           sum == SumOf(d)
           most == IF d = <<>> THEN 0 ELSE Max(Range(d))
           penalty == IF wanted.profile \in {None, item.values.profile} THEN 0 ELSE 1
           s == item.supplier
           r == item.row
<1>1. RankOf(item, wanted) = <<e, sum, most>> \o d \o <<penalty, s, r>>
  BY Zenon DEF RankOf, SumOf
<1>2. d \in [1..L -> Nat]
  <2>1. ASSUME NEW i \in 1..L
        PROVE  (IF ItemSize(item, i) < wanted.sizes[i] THEN wanted.sizes[i] - ItemSize(item, i)
                ELSE ItemSize(item, i) - wanted.sizes[i]) \in Nat
    OBVIOUS
  <2> QED BY <2>1 DEF Deltas
<1> HIDE DEF d
<1>3. sum \in Int
  <2>1. L \in Nat /\ d \in [1..L -> Int]
    BY <1>2
  <2> QED BY <2>1, SumIsWhole
<1>4. most \in Int
  <2>1. CASE L = 0
    <3>1. d = <<>>
      BY <1>2, <2>1
    <3> QED BY <3>1
  <2>2. CASE L # 0
    <3>1. Range(d) \in SUBSET Nat /\ d[1] \in Range(d)
      BY <1>2, <2>2 DEF Range
    <3>2. \E m \in Range(d) : \A x \in Range(d) : m >= x
      <4>1. Range(d) = {d[i] : i \in 1..L}
        BY <1>2 DEF Range
      <4>2. L \in 1..3
        BY <2>2
      <4>3. \E j \in 1..L : \A i \in 1..L : d[j] >= d[i]
        <5>1. CASE L = 1
          BY <5>1, <1>2
        <5>2. CASE L = 2
          <6>1. d[1] \in Nat /\ d[2] \in Nat /\ 1..2 = {1, 2}
            BY <5>2, <1>2
          <6>2. d[1] >= d[2] \/ d[2] >= d[1]
            BY <6>1
          <6> QED BY <6>1, <6>2, <5>2
        <5>3. CASE L = 3
          <6>1. d[1] \in Nat /\ d[2] \in Nat /\ d[3] \in Nat /\ 1..3 = {1, 2, 3}
            BY <5>3, <1>2
          <6>2. \/ d[1] >= d[2] /\ d[1] >= d[3]
                \/ d[2] >= d[1] /\ d[2] >= d[3]
                \/ d[3] >= d[1] /\ d[3] >= d[2]
            BY <6>1
          <6> QED BY <6>1, <6>2, <5>3
        <5> QED BY <4>2, <5>1, <5>2, <5>3
      <4> QED BY <4>1, <4>3
    <3>3. Max(Range(d)) \in Range(d)
      BY <3>2 DEF Max
    <3> QED BY <3>1, <3>3
  <2> QED BY <2>1, <2>2
<1>5. e \in Int /\ penalty \in Int /\ s \in Int /\ r \in Int
  OBVIOUS
<1> HIDE DEF e, sum, most, penalty, s, r
<1> DEFINE front == <<e, sum, most>>
           back == <<penalty, s, r>>
           k == RankOf(item, wanted)
<1>6. front \in Seq(Int) /\ Len(front) = 3 /\ front[1] = e /\ front[2] = sum
  BY <1>3, <1>4, <1>5
<1>7. back \in Seq(Int) /\ Len(back) = 3
  BY <1>5
<1>8. d \in Seq(Int) /\ Len(d) = L
  BY <1>2
<1> HIDE DEF front, back
<1>9. front \o d \in Seq(Int) /\ Len(front \o d) = 3 + L /\ (front \o d)[1] = e /\ (front \o d)[2] = sum
  <2>1. /\ front \o d \in Seq(Int) /\ Len(front \o d) = Len(front) + Len(d)
        /\ \A i \in 1..Len(front) + Len(d) :
             (front \o d)[i] = IF i <= Len(front) THEN front[i] ELSE d[i - Len(front)]
    BY <1>6, <1>8, ConcatProperties
  <2>2. 1 \in 1..Len(front) + Len(d) /\ 2 \in 1..Len(front) + Len(d)
    BY <1>6, <1>8
  <2>3. 1 <= Len(front) /\ 2 <= Len(front)
    BY <1>6
  <2>4. (front \o d)[1] = front[1] /\ (front \o d)[2] = front[2]
    BY <2>1, <2>2, <2>3
  <2> QED BY <2>1, <2>4, <1>6, <1>8
<1> DEFINE fd == front \o d
<1>10. k = fd \o back
  BY <1>1 DEF front, back
<1> HIDE DEF fd, k
<1>11. /\ fd \o back \in Seq(Int) /\ Len(fd \o back) = 6 + L
       /\ (fd \o back)[1] = e /\ (fd \o back)[2] = sum
  <2>1. fd \in Seq(Int) /\ Len(fd) = 3 + L /\ fd[1] = e /\ fd[2] = sum
    BY <1>9 DEF fd
  <2>2. /\ fd \o back \in Seq(Int) /\ Len(fd \o back) = Len(fd) + Len(back)
        /\ \A i \in 1..Len(fd) + Len(back) :
             (fd \o back)[i] = IF i <= Len(fd) THEN fd[i] ELSE back[i - Len(fd)]
    BY <2>1, <1>7, ConcatProperties
  <2>3. 1 \in 1..Len(fd) + Len(back) /\ 2 \in 1..Len(fd) + Len(back) /\ 1 <= Len(fd) /\ 2 <= Len(fd)
    BY <2>1, <1>7
  <2>4. (fd \o back)[1] = fd[1] /\ (fd \o back)[2] = fd[2]
    BY <2>2, <2>3
  <2> QED BY <2>1, <2>2, <2>4, <1>7
<1>12. k \in Seq(Int) /\ Len(k) = 6 + L /\ k[1] = e /\ k[2] = sum
  BY <1>10, <1>11
<1>13. k \in [1..(6 + L) -> Int]
  BY <1>12
<1> QED BY <1>12, <1>13 DEF k, e, sum, d
\* The keys the matching items are sorted by all differ: the place is in them.
LEMMA PlaceKeys ==
  ASSUME NEW query, NEW items, IsFreeSearch(query, items)
  PROVE  LET wanted == ParseQuery(query, items)
             matching == {m \in DOMAIN items : Matches(items[m], wanted)}
             keys == [m \in matching |-> Append(RankOf(items[m], wanted), m)]
         IN  /\ IsFiniteSet(matching)
             /\ \E N \in Nat : /\ N >= 3 /\ \A m \in matching : keys[m] \in [1..N -> Int]
                               /\ \A m \in matching : /\ Len(RankOf(items[m], wanted)) = N - 1
                                                      /\ RankOf(items[m], wanted) \in Seq(Int)
             /\ \A m, l \in matching : keys[m] = keys[l] => m = l
             /\ \A m \in matching :
                  /\ keys[m][1] = IF IsExact(items[m], wanted) THEN 0 ELSE 1
                  /\ keys[m][2] = SumOf(Deltas(items[m], wanted.sizes))
                  /\ keys[m][2] \in Int
<1> DEFINE wanted == ParseQuery(query, items)
           grade == QueryGrade(query, items)
           left == Without(query, grade.first, grade.last)
           matching == {m \in DOMAIN items : Matches(items[m], wanted)}
           rank == [m \in matching |-> RankOf(items[m], wanted)]
           keys == [m \in matching |-> Append(RankOf(items[m], wanted), m)]
<1>1. PICK L \in 0..3 : wanted.sizes \in [1..L -> Int]
  <2>1. DOMAIN query = 1..Len(query) /\ Len(query) \in Nat
    BY DEF IsFreeSearch
  <2>2. \A i \in 1..Len(query) : query[i].number \in Int
    BY <2>1 DEF IsFreeSearch
  <2>3. DOMAIN left = 1..Len(query) /\ \A i \in 1..Len(query) : left[i].number \in Int
    BY <2>1, <2>2, WithoutIs
  <2>4. wanted.sizes = QuerySizes(left).sizes
    BY DEF ParseQuery
  <2> HIDE DEF left, wanted
  <2> QED BY <2>1, <2>3, <2>4, SizesAreWhole
<1>2. DOMAIN items = 1..Len(items) /\ Len(items) \in Nat
  BY DEF IsFreeSearch
<1> HIDE DEF wanted
<1>3. IsFiniteSet(matching) /\ matching \in SUBSET (1..Len(items))
  <2>1. matching \in SUBSET (1..Len(items))
    BY <1>2
  <2>2. IsFiniteSet(1..Len(items))
    BY <1>2, FS_Interval
  <2> HIDE DEF matching
  <2> QED BY <2>1, <2>2, FS_Subset
<1>4. ASSUME NEW m \in matching
      PROVE  /\ rank[m] \in Seq(Int) /\ Len(rank[m]) = 6 + L
             /\ rank[m][1] = IF IsExact(items[m], wanted) THEN 0 ELSE 1
             /\ rank[m][2] = SumOf(Deltas(items[m], wanted.sizes))
  <2>1. m \in DOMAIN items /\ Matches(items[m], wanted)
    OBVIOUS
  <2>2. items[m].supplier \in Int /\ items[m].row \in Int
    BY <2>1 DEF IsFreeSearch
  <2>3. \A i \in 1..L : ItemSize(items[m], i) \in Int
    <3>1. DOMAIN wanted.sizes = 1..L
      BY <1>1
    <3>2. \A i \in 1..L : ItemSize(items[m], i) # None
      BY <2>1, <3>1 DEF Matches
    <3>3. \A i \in 1..L : i \in 1..3
      OBVIOUS
    <3>4. \A i \in 1..3 : ItemSize(items[m], i) \in Int \cup {None}
      BY <2>1 DEF IsFreeSearch
    <3> QED BY <3>2, <3>3, <3>4
  <2>4. rank[m] = RankOf(items[m], wanted)
    OBVIOUS
  <2> DEFINE item == items[m]
  <2> HIDE DEF rank, matching, item
  <2>5. /\ RankOf(item, wanted) \in Seq(Int) /\ Len(RankOf(item, wanted)) = 6 + L
        /\ RankOf(item, wanted)[1] = IF IsExact(item, wanted) THEN 0 ELSE 1
        /\ RankOf(item, wanted)[2] = SumOf(Deltas(item, wanted.sizes))
    BY <2>2, <2>3, <1>1, RankIs DEF item
  <2> QED BY <2>4, <2>5 DEF item
<1>5. \A m \in matching : keys[m] = Append(rank[m], m) /\ rank[m] = RankOf(items[m], wanted)
  OBVIOUS
<1> HIDE DEF keys, rank, matching
<1>6. ASSUME NEW m \in matching
      PROVE  /\ keys[m] \in [1..(7 + L) -> Int] /\ keys[m][7 + L] = m
             /\ keys[m][1] = rank[m][1] /\ keys[m][2] = rank[m][2] /\ rank[m][2] \in Int
  <2> DEFINE k == rank[m]
  <2>1. k \in Seq(Int) /\ Len(k) = 6 + L /\ m \in Int /\ keys[m] = Append(k, m)
    BY <1>3, <1>4, <1>5
  <2> HIDE DEF k
  <2>2. /\ Append(k, m) \in Seq(Int) /\ Len(Append(k, m)) = 7 + L
        /\ Append(k, m)[7 + L] = m /\ Append(k, m)[1] = k[1] /\ Append(k, m)[2] = k[2] /\ k[2] \in Int
    BY <2>1
  <2>3. Append(k, m) \in [1..(7 + L) -> Int]
    BY <2>2, LenProperties
  <2> QED BY <2>1, <2>2, <2>3 DEF k
<1>7. \A m, l \in matching : keys[m] = keys[l] => m = l
  BY <1>6
<1>8. \E N \in Nat : /\ N >= 3 /\ \A m \in matching : keys[m] \in [1..N -> Int]
                     /\ \A m \in matching : /\ Len(RankOf(items[m], wanted)) = N - 1
                                            /\ RankOf(items[m], wanted) \in Seq(Int)
  <2> DEFINE N == 7 + L
  <2>1. N \in Nat /\ N >= 3 /\ N - 1 = 6 + L
    OBVIOUS
  <2>2. \A m \in matching : keys[m] \in [1..N -> Int]
    BY <1>6
  <2> HIDE DEF N
  <2>3. \A m \in matching : /\ Len(RankOf(items[m], wanted)) = N - 1
                            /\ RankOf(items[m], wanted) \in Seq(Int)
    BY <2>1, <1>4, <1>5
  <2> QED BY <2>1, <2>2, <2>3
<1>9. \A m \in matching :
        /\ keys[m][1] = IF IsExact(items[m], wanted) THEN 0 ELSE 1
        /\ keys[m][2] = SumOf(Deltas(items[m], wanted.sizes)) /\ keys[m][2] \in Int
  BY <1>4, <1>6
<1>10. IsFiniteSet(matching)
  BY <1>3
<1> QED BY Zenon, <1>7, <1>8, <1>9, <1>10 DEF keys, matching, wanted
\* What a free search lists, by place: every match once, in the order of the ranks, and
\* items of one rank as they stand in the list.
LEMMA PlacesInOrder ==
  ASSUME NEW query, NEW items, IsFreeSearch(query, items)
  PROVE  LET wanted == ParseQuery(query, items)
             matching == {m \in DOMAIN items : Matches(items[m], wanted)}
             places == FoundPlaces(items, wanted)
             n == Cardinality(matching)
             Distance(item) == SumOf(Deltas(item, wanted.sizes))
         IN  /\ n \in Nat /\ places \in Bijection(1..n, matching)
             /\ \A i, j \in 1..n : i < j =>
                  LET v == items[places[i]]
                      w == items[places[j]]
                  IN  /\ IsExact(w, wanted) => IsExact(v, wanted)
                      /\ IsExact(v, wanted) = IsExact(w, wanted) => Distance(v) <= Distance(w)
                      /\ RankOf(v, wanted) = RankOf(w, wanted) => places[i] < places[j]
<1> DEFINE wanted == ParseQuery(query, items)
           matching == {m \in DOMAIN items : Matches(items[m], wanted)}
           keys == [m \in matching |-> Append(RankOf(items[m], wanted), m)]
           places == FoundPlaces(items, wanted)
           n == Cardinality(matching)
           Distance(item) == SumOf(Deltas(item, wanted.sizes))
<1>1. places = Ordered(keys) /\ DOMAIN keys = matching
  BY Zenon DEF FoundPlaces
<1>2. \A m \in matching : m \in Int
  <2>1. DOMAIN items = 1..Len(items) /\ Len(items) \in Nat
    BY DEF IsFreeSearch
  <2> QED BY <2>1
<1>3. \A m \in matching : keys[m] = Append(RankOf(items[m], wanted), m)
  OBVIOUS
<1>4. /\ IsFiniteSet(matching)
      /\ \E N \in Nat : /\ N >= 3 /\ \A m \in matching : keys[m] \in [1..N -> Int]
                        /\ \A m \in matching : /\ Len(RankOf(items[m], wanted)) = N - 1
                                               /\ RankOf(items[m], wanted) \in Seq(Int)
      /\ \A m, l \in matching : keys[m] = keys[l] => m = l
      /\ \A m \in matching :
           /\ keys[m][1] = IF IsExact(items[m], wanted) THEN 0 ELSE 1
           /\ keys[m][2] = Distance(items[m])
           /\ keys[m][2] \in Int
  BY PlaceKeys
<1> HIDE DEF keys, matching, wanted, places, Distance
<1>5. PICK N \in Nat : /\ N >= 3 /\ \A m \in matching : keys[m] \in [1..N -> Int]
                       /\ \A m \in matching : /\ Len(RankOf(items[m], wanted)) = N - 1
                                              /\ RankOf(items[m], wanted) \in Seq(Int)
  BY <1>4
<1>6. /\ n \in Nat /\ places \in [1..n -> matching]
      /\ \A i, j \in 1..n : i < j => Ranks(keys[places[i]], keys[places[j]])
      /\ \A m \in matching : \E i \in 1..n : places[i] = m
  <2>1. IsFiniteSet(matching) /\ \A m, l \in matching : keys[m] = keys[l] => m = l
    BY <1>4
  <2>2. \A m \in matching : keys[m] \in [1..N -> Int]
    BY <1>5
  <2> QED BY <1>1, <2>1, <2>2, OrderedByKeys
<1> HIDE DEF n
<1>7. ASSUME NEW i \in 1..n, NEW j \in 1..n, i < j
      PROVE  LET v == items[places[i]]
                 w == items[places[j]]
             IN  /\ IsExact(w, wanted) => IsExact(v, wanted)
                 /\ IsExact(v, wanted) = IsExact(w, wanted) => Distance(v) <= Distance(w)
                 /\ RankOf(v, wanted) = RankOf(w, wanted) => places[i] < places[j]
                 /\ places[i] # places[j]
  <2> DEFINE a == places[i]
             b == places[j]
  <2>1. a \in matching /\ b \in matching /\ Ranks(keys[a], keys[b])
    BY <1>6, <1>7
  <2> HIDE DEF a, b
  <2>2. keys[a] \in [1..N -> Int] /\ keys[b] \in [1..N -> Int] /\ a \in Int /\ b \in Int
    BY <2>1, <1>2, <1>5
  <2>3. PICK m \in 1..N : keys[a][m] < keys[b][m] /\ \A l \in 1..m-1 : keys[a][l] = keys[b][l]
    BY <2>1, <2>2 DEF Ranks
  <2>4. a # b
    BY <2>2, <2>3
  <2>5. /\ keys[a][1] < keys[b][1] \/ keys[a][1] = keys[b][1]
        /\ keys[a][1] = keys[b][1] => keys[a][2] <= keys[b][2]
    <3>1. m = 1 \/ m = 2 \/ m > 2
      OBVIOUS
    <3>2. /\ keys[a][1] \in Int /\ keys[b][1] \in Int
          /\ keys[a][2] \in Int /\ keys[b][2] \in Int
      BY <2>2, <1>5
    <3>3. m # 1 => keys[a][1] = keys[b][1]
      BY <2>3
    <3>4. m > 2 => keys[a][2] = keys[b][2]
      BY <2>3
    <3> QED BY <2>3, <3>1, <3>2, <3>3, <3>4
  <2>6. /\ keys[a][1] = IF IsExact(items[a], wanted) THEN 0 ELSE 1
        /\ keys[b][1] = IF IsExact(items[b], wanted) THEN 0 ELSE 1
        /\ keys[a][2] = Distance(items[a]) /\ keys[b][2] = Distance(items[b])
    BY <1>4, <2>1
  <2>7. IsExact(items[b], wanted) => IsExact(items[a], wanted)
    BY <2>5, <2>6
  <2>8. IsExact(items[a], wanted) = IsExact(items[b], wanted) => Distance(items[a]) <= Distance(items[b])
    BY <2>5, <2>6
  <2>9. ASSUME RankOf(items[a], wanted) = RankOf(items[b], wanted) PROVE a < b
    <3> DEFINE k == RankOf(items[a], wanted)
    <3>1. k \in Seq(Int) /\ Len(k) = N - 1
      BY <2>1, <1>5
    <3>2. keys[a] = Append(k, a) /\ keys[b] = Append(k, b)
      BY <2>1, <2>9, <1>3
    <3> HIDE DEF k
    <3>3. \A l \in 1..N-1 : keys[a][l] = keys[b][l]
      BY <3>1, <3>2
    <3>4. m = N
      BY <2>2, <2>3, <3>3
    <3>5. keys[a][N] = a /\ keys[b][N] = b
      BY <3>1, <3>2
    <3> QED BY <2>3, <3>4, <3>5
  <2> QED BY <2>4, <2>7, <2>8, <2>9 DEF a, b
<1>8. places \in Bijection(1..n, matching)
  <2>1. \A i, j \in 1..n : places[i] = places[j] => i = j
    <3>1. \A i, j \in 1..n : i < j => places[i] # places[j]
      BY <1>7
    <3> QED BY <3>1, <1>6
  <2> QED BY <2>1, <1>6 DEF Bijection, Injection, Surjection, IsInjective
<1>9. \A i, j \in 1..n : i < j =>
        LET v == items[places[i]]
            w == items[places[j]]
        IN  /\ IsExact(w, wanted) => IsExact(v, wanted)
            /\ IsExact(v, wanted) = IsExact(w, wanted) => Distance(v) <= Distance(w)
            /\ RankOf(v, wanted) = RankOf(w, wanted) => places[i] < places[j]
  BY <1>7
<1>10. n \in Nat
  BY <1>6
<1> QED BY Zenon, <1>8, <1>9, <1>10 DEF n, places, matching, wanted, Distance

\* An answered query was searched for.
SearchesInv ==
  /\ task \in Tasks
  /\ IsAnswered("search") => answer = <<SearchItems(task.query, task.items)>>

\* No step answers a query with anything else.
LEMMA SearchesInvariant == Spec => []SearchesInv
<1>1. Init => SearchesInv
  BY DEF Init, SearchesInv, IsAnswered
<1>2. SearchesInv /\ [Next]_<<task, answer>> => SearchesInv'
  <2> SUFFICES ASSUME SearchesInv, [Next]_<<task, answer>> PROVE SearchesInv'
    OBVIOUS
  <2>1. CASE ReadWorkbook \/ MatchGrades \/ TotalDocument \/ RefuseDocument
    <3>1. task' = task /\ task.kind # "search"
      BY <2>1 DEF ReadWorkbook, MatchGrades, TotalDocument, RefuseDocument, Answer
    <3> QED BY <3>1 DEF SearchesInv, IsAnswered
  <2>2. CASE SearchOffers
    BY <2>2 DEF SearchOffers, Answer, SearchesInv, IsAnswered
  <2>3. CASE UNCHANGED <<task, answer>>
    BY <2>3 DEF SearchesInv, IsAnswered
  <2> QED BY <2>1, <2>2, <2>3 DEF Next
<1> QED BY <1>1, <1>2, PTL DEF Spec

\* search_items, for every list of items and every query: each item that matches what the
\* query was parsed to is listed once, and no other; exact sizes come before near ones,
\* then smaller differences before larger ones, and items of one rank keep their order.
SearchListsMatches ==
  IsAnswered("search") /\ task.query # <<>> =>
    LET found  == answer[1]
        items  == task.items
        wanted == ParseQuery(task.query, items)
        matching == {m \in DOMAIN items : Matches(items[m], wanted)}
        Distance(item) == SumOf(Deltas(item, wanted.sizes))
    IN  \E n \in Nat : \E places \in Bijection(1..n, matching) :
          /\ found = [i \in 1..n |-> items[places[i]]]
          /\ \A i, j \in 1..n : i < j =>
               LET v == items[places[i]]
                   w == items[places[j]]
               IN  /\ IsExact(w, wanted) => IsExact(v, wanted)
                   /\ IsExact(v, wanted) = IsExact(w, wanted) => Distance(v) <= Distance(w)
                   /\ RankOf(v, wanted) = RankOf(w, wanted) => places[i] < places[j]

\* The list of a free search is complete, without repetition, and in order.
THEOREM SearchAlwaysListsMatches == Spec => []SearchListsMatches
<1>1. SearchesInv => SearchListsMatches
  <2> SUFFICES ASSUME SearchesInv, IsAnswered("search"), task.query # <<>> PROVE SearchListsMatches
    BY DEF SearchListsMatches
  <2> DEFINE wanted == ParseQuery(task.query, task.items)
             places == FoundPlaces(task.items, wanted)
             n == Cardinality({m \in DOMAIN task.items : Matches(task.items[m], wanted)})
  <2>1. answer[1] = [i \in DOMAIN places |-> task.items[places[i]]]
    <3>1. answer[1] = SearchItems(task.query, task.items)
      BY DEF SearchesInv
    <3> QED BY Zenon, <3>1 DEF SearchItems
  <2>2. IsFreeSearch(task.query, task.items)
    BY TasksAssumption DEF SearchesInv, IsAnswered
  <2>3. /\ n \in Nat /\ places \in Bijection(1..n, {m \in DOMAIN task.items : Matches(task.items[m], wanted)})
        /\ \A i, j \in 1..n : i < j =>
             LET v == task.items[places[i]]
                 w == task.items[places[j]]
             IN  /\ IsExact(w, wanted) => IsExact(v, wanted)
                 /\ IsExact(v, wanted) = IsExact(w, wanted)
                      => SumOf(Deltas(v, wanted.sizes)) <= SumOf(Deltas(w, wanted.sizes))
                 /\ RankOf(v, wanted) = RankOf(w, wanted) => places[i] < places[j]
    BY <2>2, PlacesInOrder
  <2>4. DOMAIN places = 1..n
    BY <2>3 DEF Bijection, Injection
  <2>5. answer[1] = [i \in 1..n |-> task.items[places[i]]]
    BY <2>1, <2>4
  <2> HIDE DEF n, places, wanted
  <2>6. IsAnswered("search") /\ task.query # <<>>
    OBVIOUS
  <2> QED BY Zenon, <2>3, <2>5 DEF SearchListsMatches, wanted
<1> QED BY <1>1, SearchesInvariant, PTL

-----------------------------------------------------------------------------
\* What holds of 0 and, with any number below n, of the next one, holds up to n.
LEMMA Counting ==
  ASSUME NEW n \in Nat, NEW Good, 0 \in Good,
         \A k \in 1..n : k - 1 \in Good => k \in Good
  PROVE  \A k \in 0..n : k \in Good
<1> DEFINE Bad == {k \in 0..n : k \notin Good}
<1>1. SUFFICES ASSUME Bad # {} PROVE FALSE
  OBVIOUS
<1>2. Bad \in SUBSET Nat
  OBVIOUS
<1>3. PICK k \in Bad : \A j \in Bad : k <= j
  <2> HIDE DEF Bad
  <2> QED BY <1>1, <1>2, LeastExists
<1>4. k \in 0..n /\ k \notin Good /\ k # 0
  OBVIOUS
<1>5. k \in 1..n /\ k - 1 \in 0..n /\ k - 1 < k
  BY <1>4
<1>6. k - 1 \in Good
  BY <1>3, <1>5
<1> QED BY <1>4, <1>5, <1>6

\* The first k places are the first k-1 and the k-th, their greatest.
LEMMA PrefixIs ==
  ASSUME NEW n \in Nat, NEW k \in 1..n
  PROVE  /\ 1..k \in SUBSET (1..n) /\ 1..k # {} /\ Max(1..k) = k
         /\ (1..k) \ {k} = 1..(k - 1)
<1>1. 1..k \in SUBSET (1..n) /\ k \in 1..k /\ k \in Nat
  <2>1. k \in 1..k /\ \A x \in 1..k : x \in 1..n
    OBVIOUS
  <2> QED BY <2>1
<1>2. Max(1..k) \in 1..k /\ k <= Max(1..k)
  <2>1. 1..k # {}
    BY <1>1
  <2>2. Max(1..k) \in 1..k /\ \A x \in 1..k : x <= Max(1..k)
    BY <1>1, <2>1, MaxIs
  <2> QED BY <1>1, <2>2
<1>3. Max(1..k) = k
  BY <1>1, <1>2
<1>4. (1..k) \ {k} = 1..(k - 1)
  OBVIOUS
<1> QED BY <1>1, <1>3, <1>4

\* The table a fold is read from, its operator being the function step.
FoldTable(f, base, step, n) ==
  f = [s \in SUBSET (1..n) |-> IF s = {} THEN base ELSE step[f[s \ {Max(s)}], Max(s)]]

\* There is such a table for every length, and its values are of the type step has.
LEMMA FoldTableExists ==
  ASSUME NEW n \in Nat, NEW D, NEW base \in D, NEW step \in [D \X (1..n) -> D]
  PROVE  \E f \in [SUBSET (1..n) -> D] : FoldTable(f, base, step, n)
<1> DEFINE Good == {k \in 0..n : \E f \in [SUBSET (1..k) -> D] : FoldTable(f, base, step, k)}
<1>1. 0 \in Good
  <2> DEFINE f == [s \in SUBSET (1..0) |-> base]
  <2>1. \A s \in SUBSET (1..0) : s = {}
    OBVIOUS
  <2>2. FoldTable(f, base, step, 0) /\ f \in [SUBSET (1..0) -> D]
    BY <2>1 DEF FoldTable
  <2>3. \E h \in [SUBSET (1..0) -> D] : FoldTable(h, base, step, 0)
    <3> HIDE DEF f
    <3> QED BY <2>2
  <2>4. 0 \in 0..n
    OBVIOUS
  <2> QED BY <2>3, <2>4, Zenon
<1>2. ASSUME NEW k \in 1..n, k - 1 \in Good PROVE k \in Good
  <2>1. PICK f \in [SUBSET (1..(k - 1)) -> D] : FoldTable(f, base, step, k - 1)
    BY <1>2
  <2> DEFINE g == [s \in SUBSET (1..k) |-> IF k \in s THEN step[f[s \ {k}], k] ELSE f[s]]
  <2>2. \A s \in SUBSET (1..(k - 1)) : f[s] = IF s = {} THEN base ELSE step[f[s \ {Max(s)}], Max(s)]
    BY <2>1, Zenon DEF FoldTable
  <2>3. ASSUME NEW s \in SUBSET (1..k)
        PROVE  g[s] \in D /\ g[s] = IF s = {} THEN base ELSE step[g[s \ {Max(s)}], Max(s)]
    <3>1. CASE k \in s
      <4>1. Max(s) = k
        <5>1. k \in Nat /\ s # {}
          BY <3>1
        <5>2. Max(s) \in s /\ k <= Max(s)
          BY <3>1, <5>1, MaxIs
        <5>3. Max(s) \in 1..k
          BY <5>2
        <5> QED BY <5>1, <5>2, <5>3
      <4>2. s \ {k} \in SUBSET (1..(k - 1)) /\ s \ {k} \in SUBSET (1..k) /\ k \notin s \ {k}
        OBVIOUS
      <4>3. g[s] = step[f[s \ {k}], k] /\ g[s \ {k}] = f[s \ {k}] /\ f[s \ {k}] \in D
        BY <3>1, <4>2
      <4>4. step[f[s \ {k}], k] \in D
        BY <4>3
      <4> HIDE DEF g
      <4> QED BY <4>1, <4>3, <4>4, <3>1
    <3>2. CASE k \notin s
      <4>1. s \in SUBSET (1..(k - 1))
        BY <3>2
      <4>2. g[s] = f[s] /\ g[s] \in D
        BY <3>2, <4>1
      <4>3. s # {} => g[s \ {Max(s)}] = f[s \ {Max(s)}]
        <5>1. s \ {Max(s)} \in SUBSET (1..k) /\ k \notin s \ {Max(s)}
          BY <3>2
        <5> QED BY <5>1
      <4> HIDE DEF g
      <4> QED BY <4>1, <4>2, <4>3, <2>2
    <3> QED BY <3>1, <3>2
  <2>4. g = [s \in SUBSET (1..k) |-> IF s = {} THEN base ELSE step[g[s \ {Max(s)}], Max(s)]]
    <3> DEFINE h == [s \in SUBSET (1..k) |-> IF s = {} THEN base ELSE step[g[s \ {Max(s)}], Max(s)]]
    <3>1. \A s \in SUBSET (1..k) : g[s] = h[s]
      BY <2>3
    <3>2. g = [s \in SUBSET (1..k) |-> g[s]] /\ h = [s \in SUBSET (1..k) |-> h[s]]
      OBVIOUS
    <3> HIDE DEF g, h
    <3>3. g = h
      BY <3>1, <3>2
    <3> QED BY <3>3 DEF h
  <2>5. g \in [SUBSET (1..k) -> D]
    <3>1. g = [s \in SUBSET (1..k) |-> g[s]]
      OBVIOUS
    <3> HIDE DEF g
    <3> QED BY <2>3, <3>1
  <2>6. FoldTable(g, base, step, k)
    BY <2>4 DEF FoldTable
  <2> HIDE DEF g
  <2> QED BY <2>5, <2>6
<1>3. n \in Good
  <2>1. n \in 0..n
    OBVIOUS
  <2> HIDE DEF Good
  <2> QED BY <1>1, <1>2, <2>1, Counting
<1> QED BY <1>3

-----------------------------------------------------------------------------
\* An item stands before another, and a list of items is in the order of their places.
Before(i, j) == Ranks(Place(i), Place(j))

InOrder(list) == \A a, b \in DOMAIN list : a < b => Before(list[a], list[b])

\* A place is before another if its sheet is, or its row in that sheet, or its side in that row.
LEMMA BeforeIf ==
  ASSUME NEW i, NEW j,
         \/ i.sheet < j.sheet
         \/ i.sheet = j.sheet /\ i.row < j.row
         \/ i.sheet = j.sheet /\ i.row = j.row /\ i.block # "right" /\ j.block = "right"
  PROVE  Before(i, j)
<1> DEFINE p == Place(i)
           q == Place(j)
<1>1. /\ DOMAIN p = 1..3 /\ p[1] = i.sheet /\ q[1] = j.sheet /\ p[2] = i.row /\ q[2] = j.row
      /\ p[3] = (IF i.block = "right" THEN 1 ELSE 0) /\ q[3] = (IF j.block = "right" THEN 1 ELSE 0)
  BY DEF Place
<1> HIDE DEF p, q
<1>2. SUFFICES \E n \in DOMAIN p : p[n] < q[n] /\ \A m \in 1..n-1 : p[m] = q[m]
  BY DEF Before, Ranks, p, q
<1>3. CASE i.sheet < j.sheet
  <2>1. 1 \in DOMAIN p /\ p[1] < q[1] /\ \A m \in 1..1-1 : p[m] = q[m]
    BY <1>1, <1>3
  <2> QED BY <2>1
<1>4. CASE i.sheet = j.sheet /\ i.row < j.row
  <2>1. 2 \in DOMAIN p /\ p[2] < q[2] /\ \A m \in 1..2-1 : p[m] = q[m]
    <3>1. \A m \in 1..2-1 : m = 1
      OBVIOUS
    <3> QED BY <1>1, <1>4, <3>1
  <2> QED BY <2>1
<1>5. CASE i.sheet = j.sheet /\ i.row = j.row /\ i.block # "right" /\ j.block = "right"
  <2>1. 3 \in DOMAIN p /\ p[3] < q[3] /\ \A m \in 1..3-1 : p[m] = q[m]
    <3>1. \A m \in 1..3-1 : m = 1 \/ m = 2
      OBVIOUS
    <3> QED BY <1>1, <1>5, <3>1
  <2> QED BY <2>1
<1> QED BY <1>3, <1>4, <1>5

\* A list put behind another whose items are all before its own.
LEMMA ConcatInOrder ==
  ASSUME NEW T, NEW s \in Seq(T), NEW t \in Seq(T), InOrder(s), InOrder(t),
         \A i \in Range(s) : \A j \in Range(t) : Before(i, j)
  PROVE  s \o t \in Seq(T) /\ InOrder(s \o t) /\ Range(s \o t) = Range(s) \cup Range(t)
<1> DEFINE u == s \o t
<1>1. /\ u \in Seq(T) /\ Len(u) = Len(s) + Len(t)
      /\ \A i \in 1 .. Len(s) + Len(t) : u[i] = IF i <= Len(s) THEN s[i] ELSE t[i - Len(s)]
  BY ConcatProperties
<1>2. /\ Len(s) \in Nat /\ Len(t) \in Nat /\ DOMAIN s = 1..Len(s) /\ DOMAIN t = 1..Len(t)
      /\ DOMAIN u = 1..(Len(s) + Len(t))
  BY <1>1, LenProperties
<1> HIDE DEF u
<1>3. ASSUME NEW a \in DOMAIN u, a <= Len(s) PROVE a \in DOMAIN s /\ u[a] = s[a]
  BY <1>1, <1>2, <1>3
<1>4. ASSUME NEW a \in DOMAIN u, ~(a <= Len(s))
      PROVE  a - Len(s) \in DOMAIN t /\ u[a] = t[a - Len(s)]
  BY <1>1, <1>2, <1>4
<1>5. ASSUME NEW a \in DOMAIN u, NEW b \in DOMAIN u, a < b PROVE Before(u[a], u[b])
  <2>0. a \in Nat /\ b \in Nat
    BY <1>2
  <2>1. CASE b <= Len(s)
    <3>1. a <= Len(s)
      BY <2>0, <2>1, <1>2, <1>5
    <3> QED BY <3>1, <2>1, <1>3, <1>5 DEF InOrder
  <2>2. CASE a <= Len(s) /\ ~(b <= Len(s))
    <3>1. u[a] \in Range(s) /\ u[b] \in Range(t)
      BY <2>2, <1>3, <1>4 DEF Range
    <3> QED BY <3>1
  <2>3. CASE ~(a <= Len(s))
    <3>1. ~(b <= Len(s)) /\ a - Len(s) < b - Len(s)
      BY <2>0, <2>3, <1>2, <1>5
    <3> QED BY <3>1, <2>3, <1>4 DEF InOrder
  <2> QED BY <2>1, <2>2, <2>3
<1>6. Range(u) = Range(s) \cup Range(t)
  <2>1. \A a \in DOMAIN u : u[a] \in Range(s) \cup Range(t)
    BY <1>3, <1>4 DEF Range
  <2>2. \A a \in DOMAIN s : a \in DOMAIN u /\ u[a] = s[a]
    BY <1>1, <1>2
  <2>3. \A a \in DOMAIN t : Len(s) + a \in DOMAIN u /\ u[Len(s) + a] = t[a]
    BY <1>1, <1>2
  <2> QED BY <2>1, <2>2, <2>3 DEF Range
<1> QED BY <1>1, <1>5, <1>6 DEF InOrder, u

\* Lists in order of which all the items of one are before those of the next.
ListsInOrder(lists, n, T) ==
  /\ lists \in [1..n -> Seq(T)]
  /\ \A r \in 1..n : InOrder(lists[r])
  /\ \A r, q \in 1..n : r < q => \A i \in Range(lists[r]) : \A j \in Range(lists[q]) : Before(i, j)

\* Such lists put one behind the other.
LEMMA Flattened ==
  ASSUME NEW T, NEW n \in Nat, NEW lists, ListsInOrder(lists, n, T)
  PROVE  /\ FlattenSeq(lists) \in Seq(T) /\ InOrder(FlattenSeq(lists))
         /\ Range(FlattenSeq(lists)) = UNION {Range(lists[r]) : r \in 1..n}
<1> USE DEF ListsInOrder
<1>0. lists \in Seq(Seq(T)) /\ Len(lists) = n
  <2>1. lists \in Seq(Seq(T))
    OBVIOUS
  <2> QED BY <2>1, LenProperties
<1>1. CASE n = 0
  <2>1. FlattenSeq(lists) = lists /\ lists = <<>>
    BY <1>0, <1>1 DEF FlattenSeq
  <2>2. DOMAIN lists = {} /\ Range(lists) = {} /\ lists \in Seq(T)
    BY <1>1, <2>1 DEF Range
  <2> QED BY <2>1, <2>2, <1>1 DEF InOrder
<1>2. CASE n # 0
  <2> DEFINE P(f, k) == f = [i \in 1..k |-> IF i = 1 THEN lists[i] ELSE f[i - 1] \o lists[i]]
             Good == {k \in 0..n : \E f \in [1..k -> Seq(T)] : P(f, k)}
  <2>1. 0 \in Good
    <3> DEFINE f == [i \in 1..0 |-> <<>>]
    <3>1. P(f, 0) /\ f \in [1..0 -> Seq(T)]
      OBVIOUS
    <3>2. \E h \in [1..0 -> Seq(T)] : P(h, 0)
      <4> HIDE DEF f
      <4> QED BY <3>1
    <3>3. 0 \in 0..n
      OBVIOUS
    <3> HIDE DEF P
    <3> QED BY <3>2, <3>3
  <2>2. ASSUME NEW k \in 1..n, k - 1 \in Good PROVE k \in Good
    <3>1. PICK f \in [1..(k - 1) -> Seq(T)] : P(f, k - 1)
      BY <2>2
    <3> DEFINE g == [i \in 1..k |-> IF i < k THEN f[i] ELSE IF i = 1 THEN lists[i] ELSE f[i - 1] \o lists[i]]
    <3>2. \A i \in 1..(k - 1) : f[i] = IF i = 1 THEN lists[i] ELSE f[i - 1] \o lists[i]
      BY <3>1, Zenon
    <3> HIDE DEF P
    <3>3. ASSUME NEW i \in 1..k
          PROVE  g[i] \in Seq(T) /\ g[i] = IF i = 1 THEN lists[i] ELSE g[i - 1] \o lists[i]
      <4>0. i \in Nat /\ k \in Nat /\ lists[i] \in Seq(T)
        OBVIOUS
      <4>1. i # 1 => i - 1 \in 1..(k - 1) /\ i - 1 < k /\ i - 1 \in 1..k
        OBVIOUS
      <4>2. i # 1 => g[i - 1] = f[i - 1] /\ f[i - 1] \in Seq(T)
        BY <4>1
      <4>3. CASE i < k
        <5>1. i \in 1..(k - 1)
          BY <4>3, <4>0
        <5>2. g[i] = f[i] /\ f[i] \in Seq(T)
          BY <4>3, <5>1
        <5> HIDE DEF g
        <5> QED BY <3>2, <4>2, <5>1, <5>2
      <4>4. CASE ~(i < k)
        <5>1. g[i] = IF i = 1 THEN lists[i] ELSE f[i - 1] \o lists[i]
          BY <4>4
        <5>2. i # 1 => f[i - 1] \o lists[i] \in Seq(T)
          BY <4>0, <4>2, ConcatProperties
        <5> HIDE DEF g
        <5> QED BY <4>0, <4>2, <5>1, <5>2
      <4> QED BY <4>3, <4>4
    <3>4. g = [i \in 1..k |-> IF i = 1 THEN lists[i] ELSE g[i - 1] \o lists[i]]
      <4> DEFINE h == [i \in 1..k |-> IF i = 1 THEN lists[i] ELSE g[i - 1] \o lists[i]]
      <4>1. \A i \in 1..k : g[i] = h[i]
        BY <3>3
      <4>2. g = [i \in 1..k |-> g[i]] /\ h = [i \in 1..k |-> h[i]]
        OBVIOUS
      <4> HIDE DEF g, h
      <4>3. g = h
        BY <4>1, <4>2
      <4> QED BY <4>3 DEF h
    <3>5. g \in [1..k -> Seq(T)]
      <4>1. g = [i \in 1..k |-> g[i]]
        OBVIOUS
      <4> HIDE DEF g
      <4> QED BY <3>3, <4>1
    <3>6. P(g, k)
      BY <3>4, Zenon DEF P
    <3>7. k \in 0..n
      OBVIOUS
    <3> HIDE DEF g
    <3> QED BY <3>5, <3>6, <3>7
  <2>3. \E f : P(f, n)
    <3>1. n \in 0..n
      OBVIOUS
    <3>2. n \in Good
      <4> HIDE DEF Good
      <4> QED BY <2>1, <2>2, <3>1, Counting
    <3> HIDE DEF P
    <3> QED BY <3>2
  <2> DEFINE f == CHOOSE h : P(h, n)
  <2>4. P(f, n)
    <3> HIDE DEF P
    <3> QED BY <2>3
  <2>5. FlattenSeq(lists) = f[n]
    <3>1. FlattenSeq(lists) = (CHOOSE h : h = [i \in 1..Len(lists) |-> IF i = 1 THEN lists[i]
                                                ELSE h[i - 1] \o lists[i]])[Len(lists)]
      <4>1. Len(lists) # 0
        BY <1>0, <1>2
      <4> QED BY <4>1, Zenon DEF FlattenSeq
    <3> QED BY <3>1, <1>0, Zenon
  <2>6. \A i \in 1..n : f[i] = IF i = 1 THEN lists[i] ELSE f[i - 1] \o lists[i]
    <3> HIDE DEF f
    <3> QED BY <2>4, Zenon
  <2> HIDE DEF f, P, Good
  <2> DEFINE Sound == {k \in 1..n : /\ f[k] \in Seq(T) /\ InOrder(f[k])
                                   /\ Range(f[k]) = UNION {Range(lists[r]) : r \in 1..k}}
  <2>7. 1 \in Sound
    <3>1. 1 \in 1..n /\ f[1] = lists[1]
      BY <1>2, <2>6
    <3>2. 1..1 = {1}
      OBVIOUS
    <3> QED BY <3>1, <3>2
  <2>8. ASSUME NEW k \in 1..n, k - 1 \in Sound PROVE k \in Sound
    <3>0. k # 1
      <4>1. k - 1 \in 1..n
        BY <2>8
      <4> QED BY <4>1
    <3>1. f[k] = f[k - 1] \o lists[k] /\ lists[k] \in Seq(T) /\ InOrder(lists[k])
      <4>1. f[k] = IF k = 1 THEN lists[k] ELSE f[k - 1] \o lists[k]
        BY <2>6
      <4> QED BY <3>0, <4>1
    <3>2. /\ f[k - 1] \in Seq(T) /\ InOrder(f[k - 1])
          /\ Range(f[k - 1]) = UNION {Range(lists[r]) : r \in 1..(k - 1)}
      BY <2>8
    <3>3. \A r \in 1..(k - 1) : r \in 1..n /\ r < k
      OBVIOUS
    <3>4. \A i \in Range(f[k - 1]) : \A j \in Range(lists[k]) : Before(i, j)
      BY <3>2, <3>3
    <3>5. /\ f[k] \in Seq(T) /\ InOrder(f[k])
          /\ Range(f[k]) = Range(f[k - 1]) \cup Range(lists[k])
      BY <3>1, <3>2, <3>4, ConcatInOrder
    <3>6. 1..k = (1..(k - 1)) \cup {k}
      OBVIOUS
    <3>7. UNION {Range(lists[r]) : r \in 1..k} = (UNION {Range(lists[r]) : r \in 1..(k - 1)}) \cup Range(lists[k])
      BY <3>6
    <3> QED BY <3>2, <3>5, <3>7
  <2>9. n \in Sound
    <3> DEFINE All == {0} \cup Sound
    <3>1. \A k \in 1..n : k - 1 \in All => k \in All
      <4> SUFFICES ASSUME NEW k \in 1..n, k - 1 \in All PROVE k \in Sound
        OBVIOUS
      <4>1. CASE k - 1 = 0
        <5>1. k = 1
          BY <4>1
        <5> QED BY <5>1, <2>7
      <4>2. CASE k - 1 # 0
        <5>1. k - 1 \in Sound
          <6> HIDE DEF Sound
          <6> QED BY <4>2
        <5> QED BY <5>1, <2>8
      <4> QED BY <4>1, <4>2
    <3>2. n \in All
      <4>1. n \in 0..n /\ 0 \in All
        OBVIOUS
      <4> HIDE DEF All
      <4> QED BY <3>1, <4>1, Counting
    <3> HIDE DEF Sound
    <3> QED BY <3>2, <1>2
  <2> QED BY <2>5, <2>9
<1> QED BY <1>1, <1>2

-----------------------------------------------------------------------------
\* A cell of a row, or a blank where the row has none.
LEMMA ColumnIs ==
  ASSUME NEW row, NEW n
  PROVE  /\ Column(row, n) \in Range(row) \cup {Blank}
         /\ ~Missing(Column(row, n)) => Column(row, n) \in Range(row)
         /\ IsRow(row) => (Missing(Column(row, n)) => ~Column(row, n).size)
<1>1. CASE n \in DOMAIN row
  <2>1. Column(row, n) = row[n] /\ row[n] \in Range(row)
    BY <1>1 DEF Column, Range
  <2>2. IsRow(row) => (Missing(row[n]) => ~row[n].size)
    <3>1. SUFFICES ASSUME IsRow(row) PROVE Missing(row[n]) => ~row[n].size
      OBVIOUS
    <3> DEFINE C == {c \in Range(row) : c.length \in Nat /\ (Missing(c) => ~c.size)}
    <3>2. row \in Seq(C)
      BY <3>1, Zenon DEF IsRow
    <3>3. row[n] \in C
      <4> HIDE DEF C
      <4> QED BY <1>1, <3>2
    <3> QED BY <3>3
  <2> QED BY <2>1, <2>2
<1>2. CASE n \notin DOMAIN row
  BY <1>2, BlankAssumption DEF Column, Missing
<1> QED BY <1>1, <1>2

\* The cell under a header: it is of the row, and there is a column for it, if it has a text.
LEMMA UnderIs ==
  ASSUME NEW row, NEW mapping, NEW field
  PROVE  /\ Under(row, mapping, field) \in Range(row) \cup {Blank}
         /\ ~Missing(Under(row, mapping, field)) =>
              Under(row, mapping, field) \in Range(row) /\ field \in DOMAIN mapping
         /\ IsRow(row) => (Missing(Under(row, mapping, field)) => ~Under(row, mapping, field).size)
<1>1. CASE field \in DOMAIN mapping
  <2>1. Under(row, mapping, field) = Column(row, mapping[field])
    BY <1>1 DEF Under
  <2> QED BY <2>1, <1>1, ColumnIs
<1>2. CASE field \notin DOMAIN mapping
  BY <1>2, BlankAssumption DEF Under, Missing
<1> QED BY <1>1, <1>2

\* The price: with VAT before one of which it is not said before one without.
LEMMA SelectPriceIs ==
  ASSUME NEW row, NEW mapping
  PROVE  LET with == Under(row, mapping, "price_with_vat")
             plain == Under(row, mapping, "price")
             price == SelectPrice(row, mapping)
         IN  /\ price \in Range(row) \cup {Blank}
             /\ ~Missing(price) => \E f \in DOMAIN mapping \ {"description", "grade"} :
                                      ~Missing(Under(row, mapping, f))
             /\ ~Missing(with) \/ ~Missing(plain) =>
                  ~Missing(price) /\ price = IF Missing(with) THEN plain ELSE with
<1> DEFINE with == Under(row, mapping, "price_with_vat")
           plain == Under(row, mapping, "price")
           without == Under(row, mapping, "price_without_vat")
           prices == <<with, plain, without>>
           price == SelectPrice(row, mapping)
<1>1. price = IF Present(prices) = {} THEN Blank ELSE prices[Min(Present(prices))]
  BY Zenon DEF SelectPrice
<1>2. /\ DOMAIN prices = 1..3 /\ prices[1] = with /\ prices[2] = plain /\ prices[3] = without
      /\ Present(prices) = {n \in 1..3 : ~Missing(prices[n])}
  BY DEF Present
<1>3. /\ {with, plain, without} \subseteq Range(row) \cup {Blank}
      /\ ~Missing(with) => "price_with_vat" \in DOMAIN mapping
      /\ ~Missing(plain) => "price" \in DOMAIN mapping
      /\ ~Missing(without) => "price_without_vat" \in DOMAIN mapping
  BY UnderIs
<1>4. \A f \in {"price_with_vat", "price", "price_without_vat"} : f \notin {"description", "grade"}
  OBVIOUS
<1> HIDE DEF prices
<1>5. CASE Present(prices) = {}
  <2>1. price = Blank
    BY <1>1, <1>5
  <2>2. 1 \notin Present(prices) /\ 2 \notin Present(prices) /\ 1 \in 1..3 /\ 2 \in 1..3
    BY <1>5
  <2>3. Missing(with) /\ Missing(plain)
    BY <2>2, <1>2
  <2> QED BY <2>1, <2>3 DEF Missing
<1>6. CASE Present(prices) # {}
  <2> DEFINE m == Min(Present(prices))
  <2>1. Present(prices) \in SUBSET Nat
    BY <1>2
  <2>2. m \in Present(prices) /\ \A x \in Present(prices) : m <= x
    BY <1>6, <2>1, MinIs
  <2>3. price = prices[m] /\ ~Missing(prices[m]) /\ m \in 1..3
    BY <1>1, <1>6, <1>2, <2>2
  <2> HIDE DEF m
  <2>4. m = 1 \/ m = 2 \/ m = 3
    BY <2>3
  <2>5. ~Missing(with) => m = 1
    <3>1. ~Missing(with) => 1 \in Present(prices)
      BY <1>2
    <3> QED BY <2>2, <2>4, <3>1
  <2>6. ~Missing(plain) => m = 1 \/ m = 2
    <3>1. ~Missing(plain) => 2 \in Present(prices)
      BY <1>2
    <3> QED BY <2>2, <2>4, <3>1
  <2>7. ~Missing(price) /\ price \in {with, plain, without}
    BY <2>3, <2>4, <1>2
  <2>8. ~Missing(with) \/ ~Missing(plain) => price = IF Missing(with) THEN plain ELSE with
    <3>1. CASE m = 1
      BY <3>1, <2>3, <1>2
    <3>2. CASE m = 2
      BY <3>2, <2>3, <2>5, <1>2
    <3>3. CASE m = 3
      BY <3>3, <2>5, <2>6
    <3> QED BY <2>4, <3>1, <3>2, <3>3
  <2>9. \E f \in DOMAIN mapping \ {"description", "grade"} : ~Missing(Under(row, mapping, f))
    <3>1. ~Missing(with) \/ ~Missing(plain) \/ ~Missing(without)
      BY <2>7
    <3> QED BY <3>1, <1>3, <1>4
  <2>10. price \in Range(row) \cup {Blank}
    BY <2>7, <1>3
  <2> HIDE DEF with, plain, price
  <2>11. /\ price \in Range(row) \cup {Blank}
         /\ ~Missing(price) => \E f \in DOMAIN mapping \ {"description", "grade"} :
                                      ~Missing(Under(row, mapping, f))
         /\ ~Missing(with) \/ ~Missing(plain) =>
                  ~Missing(price) /\ price = IF Missing(with) THEN plain ELSE with
    BY <2>7, <2>8, <2>9, <2>10
  <2> QED BY <2>11, Zenon DEF with, plain, price
<1> QED BY <1>5, <1>6

\* The greatest of places that may be 0.
LEMMA MaxFromZero ==
  ASSUME NEW n \in Nat, NEW S \in SUBSET (0..n), S # {}
  PROVE  Max(S) \in S /\ \A x \in S : x <= Max(S)
<1>1. \E m \in S : \A k \in S : m >= k
  <2>1. CASE S \ {0} = {}
    <3>0. \A k \in S : k = 0
      BY <2>1
    <3>1. 0 \in S /\ \A k \in S : 0 >= k
      <4>1. PICK x \in S : TRUE
        OBVIOUS
      <4>2. x = 0
        BY <3>0
      <4> QED BY <3>0, <4>1, <4>2
    <3> QED BY <3>1
  <2>2. CASE S \ {0} # {}
    <3>1. S \ {0} \in SUBSET (1..n)
      OBVIOUS
    <3>2. PICK m \in S \ {0} : \A k \in S \ {0} : k <= m
      BY <2>2, <3>1, GreatestExists
    <3>3. m \in S /\ m \in Nat /\ \A k \in S : k \in Nat /\ m >= k
      BY <3>1, <3>2
    <3> QED BY <3>3
  <2> QED BY <2>1, <2>2
<1>2. Max(S) \in S /\ \A x \in S : Max(S) >= x
  BY <1>1 DEF Max
<1>3. Max(S) \in Nat /\ \A x \in S : x \in Nat
  <2>1. \A x \in S : x \in Nat
    OBVIOUS
  <2> QED BY <2>1, <1>2
<1> QED BY <1>2, <1>3

\* A row that is a header heads a description.
LEMMA HeaderRowIs ==
  ASSUME NEW sheet, NEW n \in Nat, DOMAIN sheet = 1..n
  PROVE  /\ HeaderRow(sheet) \in 0..n
         /\ HeaderRow(sheet) > 0 => HeaderMapping(sheet[HeaderRow(sheet)]) # <<>>
<1> DEFINE rows == {r \in DOMAIN sheet : r <= HeaderRows}
           Points(r) == HeaderScore(HeaderMapping(sheet[r]))
           best == {r \in rows : /\ "description" \in DOMAIN HeaderMapping(sheet[r])
                                 /\ \A q \in rows : IF q < r THEN Points(q) < Points(r)
                                                    ELSE Points(q) <= Points(r)}
           h == HeaderRow(sheet)
<1>1. h = Max({0} \cup best)
  BY Zenon DEF HeaderRow
<1>2. best \in SUBSET (1..n)
  OBVIOUS
<1>3. \A r \in best : "description" \in DOMAIN HeaderMapping(sheet[r])
  OBVIOUS
<1> HIDE DEF best, h
<1>4. {0} \cup best \in SUBSET (0..n) /\ {0} \cup best # {}
  BY <1>2
<1>5. h \in {0} \cup best
  BY <1>1, <1>4, MaxFromZero
<1>6. h > 0 => h \in best
  BY <1>5
<1>7. h > 0 => HeaderMapping(sheet[h]) # <<>>
  <2>1. "description" \notin DOMAIN <<>>
    OBVIOUS
  <2> QED BY <2>1, <1>3, <1>6
<1> QED BY <1>4, <1>5, <1>7 DEF h

-----------------------------------------------------------------------------
\* A line that is no title or total has a text.
LEMMA ServiceLine ==
  ASSUME NEW cells, NEW numeric, ~IsServiceLine(cells, numeric)
  PROVE  \E n \in DOMAIN cells : ~Missing(cells[n])
<1>1. Present(cells) # {}
  BY DEF IsServiceLine
<1> QED BY <1>1 DEF Present

\* The columns of a row: where they are from, and that a value of a product in them
\* stands under a header other than those of the name and the grade.
LEMMA ColumnsAre ==
  ASSUME NEW row, NEW r, NEW mapping, IsRow(row)
  PROVE  LET c == Columns(row, r, mapping)
         IN  /\ c.row = r /\ c.name = Under(row, mapping, "description")
             /\ c.price = SelectPrice(row, mapping)
             /\ {c.stock, c.price} \subseteq Range(row) \cup {Blank}
             /\ Missing(c.shown) \/ ~c.shown.service \/ Under(row, mapping, "profile").service
             /\ Evidence(c) => \E f \in DOMAIN mapping \ {"description", "grade"} :
                                 ~Missing(Under(row, mapping, f))
<1> DEFINE C(field) == Under(row, mapping, field)
           shifted == C("profile").size
           c == Columns(row, r, mapping)
           Valued == \E f \in DOMAIN mapping \ {"description", "grade"} : ~Missing(Under(row, mapping, f))
<1>1. /\ c.row = r /\ c.name = C("description") /\ c.price = SelectPrice(row, mapping)
      /\ c.primary = IF shifted THEN C("profile") ELSE C("dim_primary")
      /\ c.sizes = IF shifted /\ ~C("dimensions").expression THEN Blank ELSE C("dimensions")
      /\ c.stock = IF shifted /\ Missing(C("availability")) /\ ~Missing(Column(row, 5))
                   THEN Column(row, 5) ELSE C("availability")
      /\ c.shown = IF shifted THEN [Blank EXCEPT !.text = C("description").profile] ELSE C("profile")
  BY DEF Columns
<1>2. \A f \in {"profile", "dim_primary", "dimensions", "availability"} : ~Missing(C(f)) => Valued
  <2>1. \A f \in {"profile", "dim_primary", "dimensions", "availability"} :
          f \notin {"description", "grade"}
    OBVIOUS
  <2>2. \A f : ~Missing(Under(row, mapping, f)) => f \in DOMAIN mapping
    BY UnderIs
  <2> QED BY <2>1, <2>2
<1>3. shifted => ~Missing(C("profile"))
  <2>1. Missing(C("profile")) => ~C("profile").size
    BY UnderIs
  <2> QED BY <2>1
<1>4. {c.stock, c.price} \subseteq Range(row) \cup {Blank}
  <2>1. Column(row, 5) \in Range(row) \cup {Blank} /\ C("availability") \in Range(row) \cup {Blank}
    BY ColumnIs, UnderIs
  <2>2. SelectPrice(row, mapping) \in Range(row) \cup {Blank}
    BY SelectPriceIs
  <2>3. c.stock \in Range(row) \cup {Blank}
    <3> HIDE DEF c
    <3> QED BY <1>1, <2>1
  <2> HIDE DEF c
  <2> QED BY <1>1, <2>2, <2>3
<1>5. Missing(c.shown) \/ ~c.shown.service \/ Under(row, mapping, "profile").service
  <2>1. CASE shifted
    <3>1. c.shown = [Blank EXCEPT !.text = C("description").profile]
      BY <1>1, <2>1
    <3>2. c.shown.service = Blank.service
      <4> HIDE DEF c, C
      <4> QED BY <3>1, BlankAssumption
    <3> HIDE DEF c
    <3> QED BY <3>2, BlankAssumption
  <2>2. CASE ~shifted
    <3>1. c.shown = C("profile")
      BY <1>1, <2>2
    <3> HIDE DEF c
    <3> QED BY <3>1
  <2> QED BY <2>1, <2>2
<1>6. Evidence(c) => Valued
  <2> SUFFICES ASSUME Evidence(c) PROVE Valued
    OBVIOUS
  <2> DEFINE cells == <<c.shown, c.primary, c.sizes, c.stock, c.price>>
  <2>1. PICK n \in DOMAIN cells : ~Missing(cells[n])
    <3>1. Present(cells) # {}
      BY DEF Evidence
    <3> HIDE DEF cells
    <3> QED BY <3>1 DEF Present
  <2>2. ~Missing(c.shown) \/ ~Missing(c.primary) \/ ~Missing(c.sizes) \/ ~Missing(c.stock) \/ ~Missing(c.price)
    <3>1. n \in 1..5
      OBVIOUS
    <3>2. n = 1 \/ n = 2 \/ n = 3 \/ n = 4 \/ n = 5
      BY <3>1
    <3> HIDE DEF c
    <3> QED BY <2>1, <3>2
  <2>3. CASE shifted
    BY <2>3, <1>2, <1>3
  <2>4. CASE ~shifted
    <3>1. /\ c.shown = C("profile") /\ c.primary = C("dim_primary") /\ c.sizes = C("dimensions")
          /\ c.stock = C("availability") /\ c.price = SelectPrice(row, mapping)
      BY <1>1, <2>4
    <3>2. ~Missing(SelectPrice(row, mapping)) => Valued
      BY SelectPriceIs
    <3> HIDE DEF c, Valued, C
    <3> QED BY <2>2, <3>1, <3>2, <1>2
  <2> QED BY <2>3, <2>4
<1> HIDE DEF c
<1>7. /\ c.row = r /\ c.name = Under(row, mapping, "description")
      /\ c.price = SelectPrice(row, mapping)
  BY <1>1
<1> QED BY <1>4, <1>5, <1>6, <1>7 DEF c

\* A row with a name and a price is a product, and its price is the one with VAT if it has one.
LEMMA PricedIsProduct ==
  ASSUME NEW row, NEW r, NEW mapping, NEW last, IsRow(row), IsPriced(row, mapping)
  PROVE  LET c == Columns(row, r, mapping)
         IN  /\ NameOf(c, last) = Under(row, mapping, "description") /\ IsProduct(c, NameOf(c, last))
             /\ c.price = IF Missing(Under(row, mapping, "price_with_vat"))
                          THEN Under(row, mapping, "price") ELSE Under(row, mapping, "price_with_vat")
<1> DEFINE c == Columns(row, r, mapping)
           name == Under(row, mapping, "description")
           with == Under(row, mapping, "price_with_vat")
           plain == Under(row, mapping, "price")
<1>1. /\ ~Missing(name) /\ ~name.service /\ ~Under(row, mapping, "profile").service
      /\ ~Missing(with) \/ ~Missing(plain)
  <2>1. /\ ~Missing(name) /\ ~name.service /\ ~Under(row, mapping, "profile").service
        /\ \E f \in {"price", "price_with_vat"} : ~Missing(Under(row, mapping, f))
    BY DEF IsPriced
  <2> QED BY <2>1
<1>2. ~Missing(c.price) /\ c.price = IF Missing(with) THEN plain ELSE with
  <2>1. c.price = SelectPrice(row, mapping)
    BY ColumnsAre
  <2> HIDE DEF c
  <2> QED BY <1>1, <2>1, SelectPriceIs
<1>3. c.name = name /\ (Missing(c.shown) \/ ~c.shown.service)
  BY <1>1, ColumnsAre
<1> HIDE DEF c, name, with, plain
<1>4. NameOf(c, last) = name
  BY <1>1, <1>3 DEF NameOf
<1> DEFINE cells == <<c.shown, name, c.primary, c.sizes>>
           values == <<c.stock, c.price, c.primary, c.sizes>>
           numeric == Present(values) # {}
<1>5. numeric
  <2>1. 2 \in DOMAIN values /\ values[2] = c.price
    OBVIOUS
  <2> HIDE DEF values
  <2> QED BY <1>2, <2>1 DEF Present
<1>6. ~IsServiceLine(cells, numeric)
  <2>1. DOMAIN cells = 1..4 /\ cells[1] = c.shown /\ cells[2] = name
    OBVIOUS
  <2> HIDE DEF cells
  <2> DEFINE parts == Present(cells)
             m == Min(parts)
  <2>2. parts \in SUBSET Nat /\ 2 \in parts
    BY <2>1, <1>1 DEF Present
  <2>3. m \in parts /\ m <= 2 /\ m \in 1..4
    <3>1. m \in parts /\ \A x \in parts : m <= x
      <4> HIDE DEF parts
      <4> QED BY <2>2, MinIs
    <3> QED BY <3>1, <2>1, <2>2 DEF Present
  <2>4. ~cells[m].service
    <3> HIDE DEF m
    <3>1. ~Missing(cells[m])
      BY <2>3 DEF Present
    <3>2. CASE m = 1
      BY <3>1, <3>2, <2>1, <1>3
    <3>3. CASE m = 2
      BY <3>3, <2>1, <1>1
    <3> QED BY <2>3, <3>2, <3>3
  <2> QED BY <2>2, <2>4 DEF IsServiceLine
<1>7. IsProduct(c, name)
  BY <1>1, <1>5, <1>6 DEF IsProduct
<1> HIDE DEF cells, values, numeric
<1> QED BY <1>2, <1>4, <1>7 DEF c, name, with, plain

-----------------------------------------------------------------------------
\* The header found last in the first k sheets.
Carried(sheets, k) ==
  LET holding == {t \in 1..k : HeaderRow(sheets[t]) > 0}
  IN  IF holding = {} THEN <<>>
      ELSE HeaderMapping(sheets[Max(holding)][HeaderRow(sheets[Max(holding)])])

\* Sheets of rows.
AreSheets(sheets, n) == DOMAIN sheets = 1..n /\ \A t \in 1..n : sheets[t] \in Seq(Range(sheets[t]))

\* The header that holds at a row: that of its sheet below it, the one carried from the
\* sheets before elsewhere; and what a sheet carries on.
LEMMA InForceIs ==
  ASSUME NEW sheets, NEW n \in Nat, AreSheets(sheets, n), NEW s \in 1..n, NEW r \in Nat
  PROVE  LET h == HeaderRow(sheets[s])
         IN  /\ h \in 0..Len(sheets[s])
             /\ h > 0 /\ r > h => InForce(sheets, s, r) = HeaderMapping(sheets[s][h])
             /\ h = 0 \/ r <= h => InForce(sheets, s, r) = Carried(sheets, s - 1)
             /\ Carried(sheets, s) = IF h > 0 THEN HeaderMapping(sheets[s][h])
                                     ELSE Carried(sheets, s - 1)
             /\ h > 0 => HeaderMapping(sheets[s][h]) # <<>>
<1> DEFINE h == HeaderRow(sheets[s])
           holding == {t \in 1..s : HeaderRow(sheets[t]) > 0 /\ (t < s \/ r > HeaderRow(sheets[t]))}
           carried == {t \in 1..s : HeaderRow(sheets[t]) > 0}
           before == {t \in 1..(s - 1) : HeaderRow(sheets[t]) > 0}
           Heading(t) == HeaderMapping(sheets[t][HeaderRow(sheets[t])])
<1>1. /\ InForce(sheets, s, r) = IF holding = {} THEN <<>> ELSE Heading(Max(holding))
      /\ Carried(sheets, s) = IF carried = {} THEN <<>> ELSE Heading(Max(carried))
      /\ Carried(sheets, s - 1) = IF before = {} THEN <<>> ELSE Heading(Max(before))
  BY Zenon DEF InForce, Carried
<1>2. \A t \in 1..n : HeaderRow(sheets[t]) \in 0..Len(sheets[t]) /\ (HeaderRow(sheets[t]) > 0 => Heading(t) # <<>>)
  <2> SUFFICES ASSUME NEW t \in 1..n
               PROVE  HeaderRow(sheets[t]) \in 0..Len(sheets[t]) /\ (HeaderRow(sheets[t]) > 0 => Heading(t) # <<>>)
    OBVIOUS
  <2>1. Len(sheets[t]) \in Nat /\ DOMAIN sheets[t] = 1..Len(sheets[t])
    BY LenProperties DEF AreSheets
  <2> QED BY <2>1, HeaderRowIs
<1>3. s \in Nat /\ s \in 1..s /\ h \in Nat
  BY <1>2, LenProperties DEF AreSheets
<1>4. \A t \in 1..(s - 1) : t \in 1..s /\ t < s
  OBVIOUS
<1>5. \A t \in 1..s : t # s => t \in 1..(s - 1)
  OBVIOUS
<1>6. h > 0 /\ r > h => Max(holding) = s /\ holding # {}
  <2> SUFFICES ASSUME h > 0, r > h PROVE Max(holding) = s /\ holding # {}
    OBVIOUS
  <2>1. s \in holding /\ holding \in SUBSET (1..s)
    BY <1>3
  <2> HIDE DEF holding
  <2>2. Max(holding) \in holding /\ s <= Max(holding)
    BY <1>3, <2>1, MaxIs
  <2>3. Max(holding) \in Nat /\ Max(holding) <= s
    <3>1. \A t \in holding : t \in Nat /\ t <= s
      BY <2>1, <1>3
    <3> QED BY <2>2, <3>1
  <2>4. Max(holding) = s
    BY <1>3, <2>2, <2>3
  <2> QED BY <2>1, <2>4
<1>7. h > 0 => Max(carried) = s /\ carried # {}
  <2> SUFFICES ASSUME h > 0 PROVE Max(carried) = s /\ carried # {}
    OBVIOUS
  <2>1. s \in carried /\ carried \in SUBSET (1..s)
    BY <1>3
  <2> HIDE DEF carried
  <2>2. Max(carried) \in carried /\ s <= Max(carried)
    BY <1>3, <2>1, MaxIs
  <2>3. Max(carried) \in Nat /\ Max(carried) <= s
    <3>1. \A t \in carried : t \in Nat /\ t <= s
      BY <2>1, <1>3
    <3> QED BY <2>2, <3>1
  <2>4. Max(carried) = s
    BY <1>3, <2>2, <2>3
  <2> QED BY <2>1, <2>4
<1>8. h = 0 \/ r <= h => holding = before
  <2> SUFFICES ASSUME h = 0 \/ r <= h PROVE holding = before
    OBVIOUS
  <2>1. s \notin holding
    BY <1>3
  <2>2. \A t : t \in holding => t \in before
    BY <2>1, <1>5
  <2>3. \A t : t \in before => t \in holding
    BY <1>4
  <2> HIDE DEF holding, before
  <2> QED BY <2>2, <2>3
<1>9. ~(h > 0) => carried = before
  <2> SUFFICES ASSUME ~(h > 0) PROVE carried = before
    OBVIOUS
  <2>1. \A t : t \in carried => t \in before
    BY <1>5
  <2>2. \A t : t \in before => t \in carried
    BY <1>4
  <2> HIDE DEF carried, before
  <2> QED BY <2>1, <2>2
<1> HIDE DEF holding, carried, before
<1>10. h \in 0..Len(sheets[s]) /\ (h > 0 => Heading(s) # <<>>)
  BY <1>2
<1>11. h > 0 /\ r > h => InForce(sheets, s, r) = Heading(s)
  BY <1>1, <1>6
<1>12. h = 0 \/ r <= h => InForce(sheets, s, r) = Carried(sheets, s - 1)
  BY <1>1, <1>8
<1>13. Carried(sheets, s) = IF h > 0 THEN Heading(s) ELSE Carried(sheets, s - 1)
  BY <1>1, <1>7, <1>9
<1> QED BY <1>10, <1>11, <1>12, <1>13

\* What comes before the first sheet.
LEMMA NothingCarried ==
  ASSUME NEW sheets
  PROVE  Carried(sheets, 0) = <<>>
<1>1. {t \in 1..0 : HeaderRow(sheets[t]) > 0} = {}
  OBVIOUS
<1> QED BY <1>1, Zenon DEF Carried

-----------------------------------------------------------------------------
\* Items made of the cells of a set.
ItemsOf(U) == [sheet : Nat, row : Nat, block : {"", "left", "right"}, name : U, stock : U, price : U]

\* Items of the rows from first to last of a sheet: in order, of cells where they may be
\* from, and none of the rows with a name and a price left out.
Covered(sheets, s, first, last, mapping, list) ==
  /\ InOrder(list)
  /\ \A i \in Range(list) : i.sheet = s /\ i.row \in first..last /\ ComesFrom(sheets, i)
  /\ \A r \in first..last : IsPriced(sheets[s][r], mapping) =>
       \E i \in Range(list) : i.sheet = s /\ i.row = r /\ Takes(i, sheets[s][r], mapping)

\* What is held after k rows: a name of one of them, if any, and their items.
RowsRead(sheets, s, first, k, mapping, state) ==
  /\ ~Missing(state.last) => \E q \in first..first + k - 1 : state.last \in Range(sheets[s][q])
  /\ Covered(sheets, s, first, first + k - 1, mapping, state.items)

\* A row read keeps the types of what is held.
LEMMA ReadRowType ==
  ASSUME NEW U, Blank \in U, NEW s \in Nat, NEW r \in Nat, NEW mapping, NEW row, IsRow(row),
         Range(row) \subseteq U, NEW state \in [last : U, items : Seq(ItemsOf(U))]
  PROVE  /\ ReadRow(s, state, Columns(row, r, mapping)) \in [last : U, items : Seq(ItemsOf(U))]
         /\ LET c == Columns(row, r, mapping)
            IN  Item(s, c.row, "", NameOf(c, state.last), c.stock, c.price) \in ItemsOf(U)
<1> DEFINE c == Columns(row, r, mapping)
           name == NameOf(c, state.last)
           item == Item(s, c.row, "", name, c.stock, c.price)
<1>1. c.row = r /\ c.name \in U /\ c.stock \in U /\ c.price \in U
  <2>1. /\ c.row = r /\ c.name = Under(row, mapping, "description")
        /\ {c.stock, c.price} \subseteq Range(row) \cup {Blank}
    BY ColumnsAre
  <2>2. Under(row, mapping, "description") \in Range(row) \cup {Blank}
    BY UnderIs
  <2> HIDE DEF c
  <2> QED BY <2>1, <2>2
<1> HIDE DEF c
<1>2. name \in U
  BY <1>1 DEF NameOf
<1> HIDE DEF name
<1>3. item \in ItemsOf(U)
  BY <1>1, <1>2 DEF Item, ItemsOf
<1>4. Append(state.items, item) \in Seq(ItemsOf(U))
  <2> HIDE DEF item
  <2> QED BY <1>3, AppendProperties
<1>5. ReadRow(s, state, c) = [last  |-> IF Missing(c.name) THEN state.last ELSE c.name,
                              items |-> IF IsProduct(c, name) THEN Append(state.items, item) ELSE state.items]
  BY Zenon DEF ReadRow, name
<1> HIDE DEF item
<1>6. ReadRow(s, state, c) \in [last : U, items : Seq(ItemsOf(U))]
  BY <1>1, <1>4, <1>5
<1> QED BY <1>3, <1>6 DEF item, name, c

\* Reading the next row keeps that.
LEMMA RowIsRead ==
  ASSUME NEW U, Blank \in U, NEW sheets, NEW s \in Nat, NEW first \in Nat \ {0}, NEW k \in Nat \ {0},
         NEW mapping, NEW r, r = first + k - 1, IsRow(sheets[s][r]), Range(sheets[s][r]) \subseteq U,
         InForce(sheets, s, r) = mapping,
         NEW state \in [last : U, items : Seq(ItemsOf(U))],
         RowsRead(sheets, s, first, k - 1, mapping, state)
  PROVE  RowsRead(sheets, s, first, k, mapping, ReadRow(s, state, Columns(sheets[s][r], r, mapping)))
<1> DEFINE row == sheets[s][r]
           c == Columns(row, r, mapping)
           name == NameOf(c, state.last)
           item == Item(s, c.row, "", name, c.stock, c.price)
           next == ReadRow(s, state, c)
<1>1. /\ r \in Nat /\ first + (k - 1) - 1 = r - 1 /\ first + k - 1 = r /\ r \in first..r
      /\ \A q \in first..r - 1 : q \in first..r /\ q < r /\ q \in 1..r - 1
      /\ \A q \in first..r : q # r => q \in first..r - 1
  OBVIOUS
<1>2. /\ c.row = r /\ c.name = Under(row, mapping, "description")
      /\ {c.stock, c.price} \subseteq Range(row) \cup {Blank}
      /\ Evidence(c) => \E f \in DOMAIN mapping \ {"description", "grade"} : ~Missing(Under(row, mapping, f))
  BY ColumnsAre
<1>3. item \in ItemsOf(U)
  BY <1>1, ReadRowType
<1>4. /\ next.last = IF Missing(c.name) THEN state.last ELSE c.name
      /\ next.items = IF IsProduct(c, name) THEN Append(state.items, item) ELSE state.items
  BY Zenon DEF ReadRow
<1>5. item.sheet = s /\ item.row = r /\ item.block = "" /\ item.name = name
      /\ item.stock = c.stock /\ item.price = c.price
  BY <1>2 DEF Item
<1>6. ~Missing(c.name) => c.name \in Range(row)
  BY <1>2, UnderIs
<1>7. IsPriced(row, mapping) =>
        IsProduct(c, name) /\ name = Under(row, mapping, "description")
        /\ c.price = IF Missing(Under(row, mapping, "price_with_vat"))
                     THEN Under(row, mapping, "price") ELSE Under(row, mapping, "price_with_vat")
  BY PricedIsProduct
<1>8. /\ ~Missing(state.last) => \E q \in first..r - 1 : state.last \in Range(sheets[s][q])
      /\ InOrder(state.items)
      /\ \A i \in Range(state.items) : i.sheet = s /\ i.row \in first..r - 1 /\ ComesFrom(sheets, i)
      /\ \A q \in first..r - 1 : IsPriced(sheets[s][q], mapping) =>
           \E i \in Range(state.items) : i.sheet = s /\ i.row = q /\ Takes(i, sheets[s][q], mapping)
  BY <1>1 DEF RowsRead, Covered
<1> HIDE DEF c, item, next
<1>9. ~Missing(next.last) => \E q \in first..r : next.last \in Range(sheets[s][q])
  <2>1. CASE Missing(c.name)
    <3>1. next.last = state.last
      BY <2>1, <1>4
    <3> QED BY <3>1, <1>8, <1>1
  <2>2. CASE ~Missing(c.name)
    <3>1. next.last \in Range(sheets[s][r])
      BY <2>2, <1>4, <1>6
    <3> QED BY <3>1, <1>1
  <2> QED BY <2>1, <2>2
<1>10. CASE ~IsProduct(c, name)
  <2>1. next.items = state.items
    BY <1>4, <1>10
  <2>2. \A i \in Range(next.items) : i.sheet = s /\ i.row \in first..r /\ ComesFrom(sheets, i)
    BY <2>1, <1>8, <1>1
  <2>3. \A q \in first..r : IsPriced(sheets[s][q], mapping) =>
           \E i \in Range(next.items) : i.sheet = s /\ i.row = q /\ Takes(i, sheets[s][q], mapping)
    <3> SUFFICES ASSUME NEW q \in first..r, IsPriced(sheets[s][q], mapping)
                 PROVE  \E i \in Range(next.items) : i.sheet = s /\ i.row = q /\ Takes(i, sheets[s][q], mapping)
      OBVIOUS
    <3>1. q # r
      BY <1>7, <1>10
    <3> QED BY <3>1, <2>1, <1>8, <1>1
  <2> QED BY <2>1, <2>2, <2>3, <1>1, <1>8, <1>9 DEF RowsRead, Covered, next, c
<1>11. CASE IsProduct(c, name)
  <2>1. next.items = state.items \o <<item>>
    <3>1. next.items = Append(state.items, item)
      BY <1>4, <1>11
    <3> QED BY <3>1, <1>3, AppendIsConcat
  <2>2. /\ <<item>> \in Seq(ItemsOf(U)) /\ Range(<<item>>) = {item} /\ InOrder(<<item>>)
    <3>1. DOMAIN <<item>> = {1} /\ <<item>>[1] = item
      OBVIOUS
    <3>2. Range(<<item>>) = {item} /\ InOrder(<<item>>)
      BY <3>1 DEF Range, InOrder
    <3> QED BY <1>3, <3>2
  <2>3. \A i \in Range(state.items) : Before(i, item)
    <3> SUFFICES ASSUME NEW i \in Range(state.items) PROVE Before(i, item)
      OBVIOUS
    <3>1. i.sheet = s /\ i.row \in first..r - 1 /\ item.sheet = s /\ item.row = r
      BY Zenon, <1>8, <1>5
    <3>2. i.sheet = item.sheet /\ i.row < item.row
      BY <3>1, <1>1
    <3> QED BY <3>2, BeforeIf
  <2>4. InOrder(next.items) /\ Range(next.items) = Range(state.items) \cup {item}
    <3>1. \A i \in Range(state.items) : \A j \in Range(<<item>>) : Before(i, j)
      BY <2>2, <2>3
    <3>2. state.items \in Seq(ItemsOf(U))
      OBVIOUS
    <3> DEFINE one == <<item>>
               list == state.items
    <3>3. /\ one \in Seq(ItemsOf(U)) /\ InOrder(one) /\ list \in Seq(ItemsOf(U)) /\ InOrder(list)
          /\ \A i \in Range(list) : \A j \in Range(one) : Before(i, j)
      BY <3>1, <3>2, <2>2, <1>8
    <3> HIDE DEF one, list
    <3>4. InOrder(list \o one) /\ Range(list \o one) = Range(list) \cup Range(one)
      BY <3>3, ConcatInOrder
    <3> QED BY <3>4, <2>1, <2>2 DEF one, list
  <2>5. ComesFrom(sheets, item)
    <3>1. ~Missing(name)
      BY <1>11 DEF IsProduct
    <3>2. CASE ~Missing(c.name)
      <4>1. name = c.name
        BY <3>2 DEF NameOf
      <4>2. item.name \in Range(sheets[item.sheet][item.row]) /\ ~Missing(item.name)
        BY <3>1, <4>1, <1>5, <1>6, <3>2
      <4>3. {item.stock, item.price} \subseteq Range(sheets[item.sheet][item.row]) \cup {Blank}
        BY ZenonT(40), <1>2, <1>5
      <4> QED BY <4>2, <4>3 DEF ComesFrom
    <3>3. CASE Missing(c.name)
      <4>1. Evidence(c) /\ name = state.last
        <5>1. ~Missing(Blank) => FALSE
          BY DEF Missing
        <5> QED BY <3>1, <3>3, <5>1 DEF NameOf
      <4>2. PICK q \in 1..r - 1 : state.last \in Range(sheets[s][q])
        BY <3>1, <4>1, <1>8, <1>1
      <4>3. \E f \in DOMAIN mapping \ {"description", "grade"} : ~Missing(Under(row, mapping, f))
        BY <4>1, <1>2
      <4>4. /\ ~Missing(item.name)
            /\ {item.stock, item.price} \subseteq Range(sheets[item.sheet][item.row]) \cup {Blank}
            /\ \E p \in 1..item.row - 1 : item.name \in Range(sheets[item.sheet][p])
        BY ZenonT(40), <3>1, <4>1, <4>2, <1>2, <1>5
      <4>5. InForce(sheets, item.sheet, item.row) = mapping
        BY <1>5
      <4>6. \E f \in DOMAIN mapping \ {"description", "grade"} :
              ~Missing(Under(sheets[item.sheet][item.row], mapping, f))
        BY <4>3, <1>5
      <4> QED BY <4>4, <4>5, <4>6 DEF ComesFrom
    <3> QED BY <3>2, <3>3
  <2>6. \A i \in Range(next.items) : i.sheet = s /\ i.row \in first..r /\ ComesFrom(sheets, i)
    BY <2>4, <2>5, <1>8, <1>1, <1>5
  <2>7. \A q \in first..r : IsPriced(sheets[s][q], mapping) =>
           \E i \in Range(next.items) : i.sheet = s /\ i.row = q /\ Takes(i, sheets[s][q], mapping)
    <3> SUFFICES ASSUME NEW q \in first..r, IsPriced(sheets[s][q], mapping)
                 PROVE  \E i \in Range(next.items) : i.sheet = s /\ i.row = q /\ Takes(i, sheets[s][q], mapping)
      OBVIOUS
    <3>1. CASE q = r
      <4>1. Takes(item, row, mapping)
        BY <3>1, <1>5, <1>7 DEF Takes
      <4> QED BY <3>1, <4>1, <2>4, <1>5
    <3>2. CASE q # r
      BY <3>2, <2>4, <1>8, <1>1
    <3> QED BY <3>1, <3>2
  <2> QED BY <2>4, <2>6, <2>7, <1>1, <1>9 DEF RowsRead, Covered, next, c
<1> QED BY <1>10, <1>11

-----------------------------------------------------------------------------
\* An empty list covers no rows.
LEMMA NothingRead ==
  ASSUME NEW T
  PROVE  <<>> \in Seq(T) /\ InOrder(<<>>) /\ Range(<<>>) = {}
BY DEF InOrder, Range

\* A header holds at every row from first to last.
Holds(sheets, s, first, last, mapping) == \A r \in first..last : InForce(sheets, s, r) = mapping

\* The rows read under one header are covered, where that is the header that holds.
LEMMA MappedCovered ==
  ASSUME NEW U, Blank \in U, NEW sheets, NEW s \in Nat, NEW first \in Nat \ {0}, NEW last \in Nat,
         first <= last + 1, NEW mapping,
         \A r \in first..last : IsRow(sheets[s][r]) /\ Range(sheets[s][r]) \subseteq U
  PROVE  LET list == MappedRows(s, sheets[s], first, last, mapping)
         IN  /\ list \in Seq(ItemsOf(U))
             /\ Holds(sheets, s, first, last, mapping) => Covered(sheets, s, first, last, mapping, list)
<1> DEFINE rows == sheets[s]
           n == last + 1 - first
           cols == [k \in 1..n |-> Columns(rows[first + k - 1], first + k - 1, mapping)]
           base == [last |-> Blank, items |-> <<>>]
           D == [last : U, items : Seq(ItemsOf(U))]
           step == [p \in D \X (1..n) |-> ReadRow(s, p[1], cols[p[2]])]
           P(f) == f = [t \in SUBSET (1..n) |-> IF t = {} THEN base ELSE ReadRow(s, f[t \ {Max(t)}], cols[Max(t)])]
<1>1. n \in Nat /\ first + n - 1 = last
  OBVIOUS
<1>2. base \in D
  BY NothingRead
<1>3. ASSUME NEW k \in 1..n
      PROVE  /\ k \in Nat \ {0} /\ first + k - 1 \in Nat /\ IsRow(rows[first + k - 1])
             /\ Range(rows[first + k - 1]) \subseteq U
             /\ Holds(sheets, s, first, last, mapping) => InForce(sheets, s, first + k - 1) = mapping
             /\ cols[k] = Columns(rows[first + k - 1], first + k - 1, mapping)
  <2>1. k \in Nat \ {0} /\ first + k - 1 \in first..last /\ first + k - 1 \in Nat
    OBVIOUS
  <2> QED BY <2>1 DEF Holds
<1>4. MappedRows(s, rows, first, last, mapping) = (CHOOSE f : P(f))[1..n].items
  <2>1. DOMAIN cols = 1..n
    OBVIOUS
  <2>2. MappedRows(s, rows, first, last, mapping) =
          (CHOOSE f : f = [t \in SUBSET DOMAIN cols |->
             IF t = {} THEN base ELSE ReadRow(s, f[t \ {Max(t)}], cols[Max(t)])])[DOMAIN cols].items
    BY Zenon DEF MappedRows, FoldLeft, MapThenFoldSet
  <2> HIDE DEF cols, base
  <2> QED BY <2>1, <2>2, Zenon
<1> HIDE DEF cols, n, D
<1>5. ASSUME NEW x \in D, NEW k \in 1..n PROVE ReadRow(s, x, cols[k]) \in D
  <2>1. ReadRow(s, x, Columns(rows[first + k - 1], first + k - 1, mapping)) \in D
    BY <1>3, ReadRowType DEF D
  <2> QED BY <2>1, <1>3
<1>6. step \in [D \X (1..n) -> D]
  BY <1>5
<1>7. \A x \in D : \A k \in 1..n : step[x, k] = ReadRow(s, x, cols[k])
  OBVIOUS
<1> HIDE DEF step, base
<1>8. \E f : P(f)
  <2>1. PICK f \in [SUBSET (1..n) -> D] : FoldTable(f, base, step, n)
    BY <1>1, <1>2, <1>6, FoldTableExists
  <2> DEFINE a == [t \in SUBSET (1..n) |-> IF t = {} THEN base ELSE step[f[t \ {Max(t)}], Max(t)]]
             b == [t \in SUBSET (1..n) |-> IF t = {} THEN base ELSE ReadRow(s, f[t \ {Max(t)}], cols[Max(t)])]
  <2>2. ASSUME NEW t \in SUBSET (1..n) PROVE a[t] = b[t]
    <3>1. t # {} => Max(t) \in 1..n /\ f[t \ {Max(t)}] \in D
      BY <1>1, MaxIs
    <3> QED BY <3>1, <1>7
  <2>3. a = [t \in SUBSET (1..n) |-> a[t]] /\ b = [t \in SUBSET (1..n) |-> b[t]]
    OBVIOUS
  <2>4. f = a
    BY <2>1, Zenon DEF FoldTable
  <2> HIDE DEF a, b
  <2>5. f = b
    BY <2>2, <2>3, <2>4
  <2> QED BY <2>5, Zenon DEF b
<1> DEFINE f == CHOOSE h : P(h)
<1>9. P(f)
  <2> HIDE DEF P
  <2> QED BY <1>8
<1>10. \A t \in SUBSET (1..n) : f[t] = IF t = {} THEN base ELSE ReadRow(s, f[t \ {Max(t)}], cols[Max(t)])
  <2> HIDE DEF f
  <2> QED BY <1>9, Zenon
<1> HIDE DEF f, P
<1> DEFINE Held == Holds(sheets, s, first, last, mapping)
           Good == {k \in 0..n : /\ f[1..k] \in D
                                 /\ Held => RowsRead(sheets, s, first, k, mapping, f[1..k])}
<1>11. 0 \in Good
  <2>1. 1..0 = {} /\ 1..0 \in SUBSET (1..n) /\ 0 \in 0..n
    BY <1>1
  <2>2. f[1..0] = base
    BY <2>1, <1>10
  <2>3. first..first + 0 - 1 = {}
    OBVIOUS
  <2>4. Missing(base.last) /\ base.items = <<>>
    BY DEF base, Missing
  <2>5. RowsRead(sheets, s, first, 0, mapping, base)
    BY <2>3, <2>4, NothingRead DEF RowsRead, Covered
  <2> QED BY <2>1, <2>2, <2>5, <1>2
<1>12. ASSUME NEW k \in 1..n, k - 1 \in Good PROVE k \in Good
  <2>1. /\ 1..k \in SUBSET (1..n) /\ 1..k # {} /\ Max(1..k) = k /\ (1..k) \ {k} = 1..(k - 1)
    BY <1>1, PrefixIs
  <2>2. f[1..k] = ReadRow(s, f[1..(k - 1)], cols[k])
    BY <2>1, <1>10
  <2>3. f[1..(k - 1)] \in D /\ (Held => RowsRead(sheets, s, first, k - 1, mapping, f[1..(k - 1)]))
    BY <1>12
  <2>4. f[1..k] \in D
    BY <2>2, <2>3, <1>5
  <2>5. Held => RowsRead(sheets, s, first, k, mapping, ReadRow(s, f[1..(k - 1)], Columns(rows[first + k - 1], first + k - 1, mapping)))
    BY <2>3, <1>3, RowIsRead DEF D
  <2>6. k \in 0..n
    BY <1>1
  <2> QED BY <2>2, <2>4, <2>5, <2>6, <1>3
<1>13. n \in Good
  <2>1. n \in 0..n
    BY <1>1
  <2> HIDE DEF Good
  <2> QED BY <1>1, <1>11, <1>12, <2>1, Counting
<1>14. f[1..n] \in D /\ (Held => RowsRead(sheets, s, first, n, mapping, f[1..n]))
  BY <1>13
<1>15. /\ f[1..n].items \in Seq(ItemsOf(U))
       /\ Held => Covered(sheets, s, first, last, mapping, f[1..n].items)
  BY <1>14, <1>1 DEF RowsRead, D
<1>16. MappedRows(s, sheets[s], first, last, mapping) = f[1..n].items
  BY <1>4 DEF f
<1> QED BY <1>15, <1>16

-----------------------------------------------------------------------------
\* Items of one row of a sheet: in order, of cells where they may be from.
OfRow(sheets, s, r, U, list) ==
  /\ list \in Seq(ItemsOf(U)) /\ InOrder(list)
  /\ \A i \in Range(list) : i.sheet = s /\ i.row = r /\ ComesFrom(sheets, i)

\* One item of a row, or none.
LEMMA OneOrNone ==
  ASSUME NEW sheets, NEW s, NEW r, NEW U, NEW item \in ItemsOf(U),
         item.sheet = s, item.row = r, ComesFrom(sheets, item)
  PROVE  OfRow(sheets, s, r, U, <<item>>)
<1> DEFINE one == <<item>>
<1>1. one \in Seq(ItemsOf(U)) /\ DOMAIN one = {1} /\ one[1] = item
  OBVIOUS
<1> HIDE DEF one
<1>2. Range(one) = {item} /\ InOrder(one)
  BY <1>1 DEF Range, InOrder
<1>3. OfRow(sheets, s, r, U, one)
  BY <1>1, <1>2 DEF OfRow
<1> QED BY <1>3 DEF one

\* A row without an item.
LEMMA NoneOfRow ==
  ASSUME NEW sheets, NEW s, NEW r, NEW U
  PROVE  OfRow(sheets, s, r, U, <<>>)
BY NothingRead DEF OfRow

\* Such lists for the first n rows of a sheet.
OfRows(sheets, s, n, U, read) ==
  /\ read \in [1..n -> Seq(ItemsOf(U))]
  /\ \A r \in 1..n : OfRow(sheets, s, r, U, read[r])

\* The items of row after row, one behind the other.
LEMMA RowsTogether ==
  ASSUME NEW sheets, NEW s \in Nat, NEW n \in Nat, NEW U, NEW read, OfRows(sheets, s, n, U, read)
  PROVE  /\ FlattenSeq(read) \in Seq(ItemsOf(U)) /\ InOrder(FlattenSeq(read))
         /\ \A i \in Range(FlattenSeq(read)) : i.sheet = s /\ i.row \in 1..n /\ ComesFrom(sheets, i)
<1> DEFINE T == ItemsOf(U)
<1>1. read \in [1..n -> Seq(T)] /\ \A r \in 1..n : InOrder(read[r])
  BY DEF OfRow, OfRows
<1>2. \A r \in 1..n : \A i \in Range(read[r]) : i.sheet = s /\ i.row = r /\ ComesFrom(sheets, i)
  BY DEF OfRow, OfRows
<1>3. \A r, q \in 1..n : r < q => \A i \in Range(read[r]) : \A j \in Range(read[q]) : Before(i, j)
  <2> SUFFICES ASSUME NEW r \in 1..n, NEW q \in 1..n, r < q, NEW i \in Range(read[r]), NEW j \in Range(read[q])
               PROVE  Before(i, j)
    OBVIOUS
  <2>1. i.sheet = j.sheet /\ i.row < j.row
    BY <1>2
  <2> QED BY <2>1, BeforeIf
<1>4. /\ FlattenSeq(read) \in Seq(T) /\ InOrder(FlattenSeq(read))
      /\ Range(FlattenSeq(read)) = UNION {Range(read[r]) : r \in 1..n}
  <2>1. ListsInOrder(read, n, T)
    BY <1>1, <1>3 DEF ListsInOrder
  <2> HIDE DEF T
  <2> QED BY <2>1, Flattened
<1> QED BY <1>2, <1>4

\* The same below the first rows.
LEMMA BelowTogether ==
  ASSUME NEW sheets, NEW s \in Nat, NEW n \in Nat, NEW U, NEW skipped, NEW read, DOMAIN read = 1..n,
         \A r \in 1..n : OfRow(sheets, s, r, U, read[r])
  PROVE  /\ Below(skipped, read) \in Seq(ItemsOf(U)) /\ InOrder(Below(skipped, read))
         /\ \A i \in Range(Below(skipped, read)) : i.sheet = s /\ i.row \in 1..n /\ ComesFrom(sheets, i)
<1> DEFINE kept == [r \in 1..n |-> IF r <= skipped THEN <<>> ELSE read[r]]
<1>1. Below(skipped, read) = FlattenSeq(kept)
  BY Zenon DEF Below
<1>2. ASSUME NEW r \in 1..n PROVE OfRow(sheets, s, r, U, kept[r])
  <2>1. kept[r] = IF r <= skipped THEN <<>> ELSE read[r]
    OBVIOUS
  <2> HIDE DEF kept
  <2> QED BY <2>1, NoneOfRow
<1>3. OfRows(sheets, s, n, U, kept)
  <2>1. kept = [r \in 1..n |-> kept[r]]
    OBVIOUS
  <2> HIDE DEF kept
  <2> QED BY <1>2, <2>1 DEF OfRow, OfRows
<1> HIDE DEF kept
<1> QED BY <1>1, <1>3, RowsTogether

\* Of some cells of a row, one has the longest text.
LEMMA LongestIs ==
  ASSUME NEW row, IsRow(row), NEW texts \in SUBSET DOMAIN row, texts # {}
  PROVE  \E n \in texts : \A m \in texts : row[m].length <= row[n].length
<1> DEFINE C == {c \in Range(row) : c.length \in Nat /\ (Missing(c) => ~c.size)}
<1>1. row \in Seq(C)
  BY Zenon DEF IsRow
<1> HIDE DEF C
<1>2. Len(row) \in Nat /\ DOMAIN row = 1..Len(row)
  BY <1>1, LenProperties
<1>3. \A n \in DOMAIN row : row[n].length \in Nat
  <2>1. \A n \in DOMAIN row : row[n] \in C
    BY <1>1, <1>2, ElementOfSeq
  <2> QED BY <2>1 DEF C
<1> DEFINE Best(n, k) == n \in texts /\ n <= k /\ \A m \in texts : m <= k => row[m].length <= row[n].length
           Good == {k \in 0..Len(row) : (\A m \in texts : m > k) \/ \E n \in texts : Best(n, k)}
<1>4. 0 \in Good
  <2>1. \A m \in texts : m > 0
    BY <1>2
  <2> QED BY <1>2, <2>1
<1>5. ASSUME NEW k \in 1..Len(row), k - 1 \in Good PROVE k \in Good
  <2>0. \A m \in texts : m \in Nat /\ row[m].length \in Nat /\ (m <= k <=> m <= k - 1 \/ m = k)
    BY <1>2, <1>3
  <2>1. CASE k \notin texts
    <3>1. \A m \in texts : (m <= k <=> m <= k - 1) /\ (m > k <=> m > k - 1)
      BY <2>0, <2>1
    <3> QED BY <3>1, <1>5, <1>2
  <2>2. CASE k \in texts /\ \A m \in texts : m > k - 1
    <3>1. \A m \in texts : m <= k => m = k
      BY <2>0, <2>2
    <3>2. Best(k, k)
      BY <3>1, <2>0, <2>2
    <3> QED BY <3>2, <2>2, <1>2
  <2>3. CASE k \in texts /\ \E n \in texts : Best(n, k - 1)
    <3>1. PICK n \in texts : Best(n, k - 1)
      BY <2>3
    <3>2. CASE row[k].length <= row[n].length
      <4>1. Best(n, k)
        BY <3>1, <3>2, <2>0
      <4> QED BY <4>1, <1>2
    <3>3. CASE ~(row[k].length <= row[n].length)
      <4>1. \A m \in texts : m <= k => row[m].length <= row[k].length
        BY SMTT(30), <3>1, <3>3, <2>0, <2>3
      <4>2. Best(k, k)
        BY <4>1, <2>0, <2>3
      <4> QED BY SMTT(30), <4>2, <2>3, <1>2
    <3> QED BY <3>2, <3>3
  <2> QED BY <2>1, <2>2, <2>3, <1>5
<1>6. Len(row) \in Good
  <2>1. Len(row) \in 0..Len(row)
    BY <1>2
  <2> HIDE DEF Good
  <2> QED BY <1>2, <1>4, <1>5, <2>1, Counting
<1>7. \A m \in texts : m \in Nat /\ m <= Len(row)
  BY <1>2
<1>8. \E n \in texts : Best(n, Len(row))
  BY <1>6, <1>7, <1>2
<1> QED BY <1>7, <1>8

\* Rows read without a header.
LEMMA TextCovered ==
  ASSUME NEW sheets, NEW s \in Nat, NEW n \in Nat, NEW U, Blank \in U, DOMAIN sheets[s] = 1..n,
         \A r \in 1..n : IsRow(sheets[s][r]) /\ Range(sheets[s][r]) \subseteq U
  PROVE  LET list == TextRows(s, sheets[s])
         IN  /\ list \in Seq(ItemsOf(U)) /\ InOrder(list)
             /\ \A i \in Range(list) : i.sheet = s /\ i.row \in 1..n /\ ComesFrom(sheets, i)
<1> DEFINE rows == sheets[s]
           Numbers(row) == {m \in DOMAIN row : row[m].number \/ row[m].unit}
           Texts(row)   == {m \in DOMAIN row : ~Missing(row[m]) /\ ~row[m].number}
           Longest(row) == Min({m \in Texts(row) : \A k \in Texts(row) : row[k].length <= row[m].length})
           Kept(row)    == /\ Texts(row) # {}
                           /\ ~IsServiceLine(<<row[Longest(row)]>>, Numbers(row) # {})
                           /\ row[Longest(row)].length >= 4
           Stock(row)   == IF Numbers(row) = {} THEN Blank ELSE row[Min(Numbers(row))]
           Price(row)   == IF Cardinality(Numbers(row)) < 2 THEN Blank ELSE row[Max(Numbers(row))]
           Read(row, r) == Item(s, r, "", row[Longest(row)], Stock(row), Price(row))
           read == [r \in 1..n |-> IF Kept(rows[r]) THEN <<Read(rows[r], r)>> ELSE <<>>]
<1>1. TextRows(s, rows) = FlattenSeq(read)
  BY Zenon DEF TextRows
<1>2. ASSUME NEW r \in 1..n PROVE OfRow(sheets, s, r, U, read[r])
  <2> DEFINE row == rows[r]
  <2>1. /\ IsRow(row) /\ Range(row) \subseteq U /\ r \in Nat
        /\ read[r] = IF Kept(row) THEN <<Read(row, r)>> ELSE <<>>
    <3> HIDE DEF Kept, Read
    <3> QED OBVIOUS
  <2>2. Len(row) \in Nat /\ DOMAIN row = 1..Len(row)
    <3> HIDE DEF row
    <3>1. row \in Seq({c \in Range(row) : c.length \in Nat /\ (Missing(c) => ~c.size)})
      BY <2>1, Zenon DEF IsRow
    <3> QED BY <3>1, LenProperties
  <2>3. \A m \in DOMAIN row : row[m] \in Range(row)
    BY DEF Range
  <2>4. Texts(row) \subseteq DOMAIN row /\ Numbers(row) \subseteq DOMAIN row
        /\ \A m \in Texts(row) : ~Missing(row[m])
    OBVIOUS
  <2> HIDE DEF read, row
  <2>5. CASE Kept(row)
    <3> DEFINE longest == {m \in Texts(row) : \A k \in Texts(row) : row[k].length <= row[m].length}
    <3>1. longest # {}
      <4>1. Texts(row) # {}
        BY <2>5
      <4> HIDE DEF Texts
      <4>2. \E m \in Texts(row) : \A k \in Texts(row) : row[k].length <= row[m].length
        BY <4>1, <2>1, <2>4, LongestIs
      <4> QED BY <4>2
    <3>2. longest \subseteq Texts(row)
      OBVIOUS
    <3>3. Longest(row) = Min(longest)
      OBVIOUS
    <3>4. Longest(row) \in Texts(row)
      <4> HIDE DEF longest, Texts, Longest
      <4>1. longest \in SUBSET Nat
        BY <3>2, <2>4, <2>2
      <4> QED BY <4>1, <3>1, <3>2, <3>3, MinIs
    <3>5. Stock(row) \in Range(row) \cup {Blank}
      <4> HIDE DEF Numbers
      <4>1. Numbers(row) \in SUBSET Nat
        BY <2>2, <2>4
      <4>2. Numbers(row) # {} => Min(Numbers(row)) \in DOMAIN row
        BY <4>1, <2>4, MinIs
      <4> QED BY <4>2, <2>3
    <3>6. Price(row) \in Range(row) \cup {Blank}
      <4> HIDE DEF Numbers
      <4>1. Numbers(row) = {} => Cardinality(Numbers(row)) = 0
        BY FS_EmptySet
      <4>2. Numbers(row) # {} => Max(Numbers(row)) \in DOMAIN row
        BY <2>2, <2>4, MaxIs
      <4>3. ~(Cardinality(Numbers(row)) < 2) => Numbers(row) # {}
        BY <4>1
      <4> QED BY <4>2, <4>3, <2>3
    <3>7. row[Longest(row)] \in Range(row) /\ ~Missing(row[Longest(row)])
      <4> HIDE DEF Texts, Longest
      <4> QED BY <3>4, <2>3, <2>4
    <3> DEFINE name == row[Longest(row)]
               stock == Stock(row)
               price == Price(row)
               item == Item(s, r, "", name, stock, price)
    <3>8. Read(row, r) = item
      OBVIOUS
    <3> HIDE DEF name, stock, price, longest, Longest, Stock, Price
    <3>9. name \in Range(row) /\ ~Missing(name) /\ stock \in Range(row) \cup {Blank} /\ price \in Range(row) \cup {Blank}
      BY <3>5, <3>6, <3>7 DEF name, stock, price
    <3>10. /\ item \in ItemsOf(U) /\ item.sheet = s /\ item.row = r /\ item.name = name
           /\ item.stock = stock /\ item.price = price
      BY <3>9, <2>1 DEF Item, ItemsOf
    <3> HIDE DEF item
    <3>11. sheets[item.sheet][item.row] = row
      BY <3>10 DEF row
    <3>12. ComesFrom(sheets, item)
      BY <3>9, <3>10, <3>11 DEF ComesFrom
    <3>13. OfRow(sheets, s, r, U, <<item>>)
      BY <3>10, <3>12, OneOrNone
    <3>14. read[r] = <<Read(row, r)>>
      BY <2>1, <2>5
    <3> QED BY <3>8, <3>13, <3>14
  <2>6. CASE ~Kept(row)
    <3> HIDE DEF Kept, Read
    <3>1. read[r] = <<>>
      BY <2>1, <2>6
    <3> QED BY <3>1, NoneOfRow
  <2> HIDE DEF Kept
  <2> QED BY <2>5, <2>6
<1> HIDE DEF Kept, Read
<1>3. OfRows(sheets, s, n, U, read)
  <2>1. read = [r \in 1..n |-> read[r]]
    OBVIOUS
  <2> HIDE DEF read
  <2> QED BY <1>2, <2>1 DEF OfRow, OfRows
<1> HIDE DEF read
<1> QED BY <1>1, <1>3, RowsTogether

-----------------------------------------------------------------------------
\* A line of one cell that is no title or total is the text of that cell.
LEMMA OneCellLine ==
  ASSUME NEW cell, NEW numeric, ~IsServiceLine(<<cell>>, numeric)
  PROVE  ~Missing(cell)
<1> DEFINE cells == <<cell>>
<1>1. DOMAIN cells = {1} /\ cells[1] = cell
  OBVIOUS
<1> HIDE DEF cells
<1>2. \E n \in DOMAIN cells : ~Missing(cells[n])
  BY ServiceLine DEF cells
<1> QED BY <1>1, <1>2

\* An item made of cells of its own row only.
LEMMA OwnItem ==
  ASSUME NEW sheets, NEW s \in Nat, NEW r \in Nat, NEW U, Blank \in U, NEW row, row = sheets[s][r],
         Range(row) \subseteq U, NEW block \in {"", "left", "right"}, NEW name \in Range(row), ~Missing(name),
         NEW stock \in Range(row) \cup {Blank}, NEW price \in Range(row) \cup {Blank}
  PROVE  OfRow(sheets, s, r, U, <<Item(s, r, block, name, stock, price)>>)
<1> DEFINE item == Item(s, r, block, name, stock, price)
<1>1. /\ item \in ItemsOf(U) /\ item.sheet = s /\ item.row = r /\ item.name = name
      /\ item.stock = stock /\ item.price = price
  BY DEF Item, ItemsOf
<1> HIDE DEF item
<1>2. sheets[item.sheet][item.row] = row
  BY <1>1
<1>3. ComesFrom(sheets, item)
  BY <1>1, <1>2 DEF ComesFrom
<1>4. OfRow(sheets, s, r, U, <<item>>)
  BY <1>1, <1>3, OneOrNone
<1> QED BY <1>4 DEF item

\* Items of one table of a row.
OfBlock(sheets, r, U, block, list) ==
  OfRow(sheets, 1, r, U, list) /\ \A i \in Range(list) : i.block = block

\* A row of one of the two tables side by side.
LEMMA AlphaBlockRead ==
  ASSUME NEW sheets, NEW r \in Nat, NEW U, Blank \in U, NEW row, row = sheets[1][r],
         Range(row) \subseteq U, NEW block \in {"left", "right"}, NEW n
  PROVE  OfBlock(sheets, r, U, block, AlphaBlock(row, r, block, n))
<1> DEFINE name == Column(row, n)
           stock == Column(row, n + 1)
           price == Column(row, n + 2)
           numeric == Present(<<stock, price>>) # {}
           item == Item(1, r, block, name, stock, price)
           list == AlphaBlock(row, r, block, n)
<1>1. list = IF numeric /\ ~IsServiceLine(<<name>>, numeric) THEN <<item>> ELSE <<>>
  BY Zenon DEF AlphaBlock
<1>2. /\ stock \in Range(row) \cup {Blank} /\ price \in Range(row) \cup {Blank}
      /\ ~Missing(name) => name \in Range(row)
  BY ColumnIs
<1> HIDE DEF list, numeric, name, stock, price
<1>3. CASE numeric /\ ~IsServiceLine(<<name>>, numeric)
  <2>1. ~Missing(name) /\ name \in Range(row)
    BY <1>2, <1>3, OneCellLine
  <2>2. OfRow(sheets, 1, r, U, <<item>>)
    <3>1. 1 \in Nat /\ block \in {"", "left", "right"}
      OBVIOUS
    <3> QED BY <1>2, <2>1, <3>1, OwnItem
  <2>3. item.block = block
    BY DEF Item
  <2> HIDE DEF item
  <2> DEFINE one == <<item>>
  <2>4. Range(one) = {item}
    <3>1. DOMAIN one = {1} /\ one[1] = item
      OBVIOUS
    <3> HIDE DEF one
    <3> QED BY <3>1 DEF Range
  <2>5. list = one
    BY <1>1, <1>3
  <2>6. OfRow(sheets, 1, r, U, one)
    BY <2>2
  <2> HIDE DEF one
  <2> QED BY <2>3, <2>4, <2>5, <2>6 DEF list, OfBlock
<1>4. CASE ~(numeric /\ ~IsServiceLine(<<name>>, numeric))
  <2>1. list = <<>>
    BY <1>1, <1>4
  <2> QED BY <2>1, NoneOfRow, NothingRead DEF list, OfBlock
<1> QED BY <1>3, <1>4

\* A row of both tables: the left one's item before the right one's.
LEMMA AlphaRowRead ==
  ASSUME NEW sheets, NEW r \in Nat, NEW U, Blank \in U, NEW row, row = sheets[1][r], Range(row) \subseteq U
  PROVE  OfRow(sheets, 1, r, U, AlphaRow(row, r))
<1> DEFINE left == AlphaBlock(row, r, "left", 1)
           right == AlphaBlock(row, r, "right", 5)
           T == ItemsOf(U)
<1>1. /\ OfRow(sheets, 1, r, U, left) /\ \A i \in Range(left) : i.block = "left"
      /\ OfRow(sheets, 1, r, U, right) /\ \A i \in Range(right) : i.block = "right"
  <2>1. OfBlock(sheets, r, U, "left", left) /\ OfBlock(sheets, r, U, "right", right)
    BY AlphaBlockRead
  <2> QED BY <2>1 DEF OfBlock
<1>2. AlphaRow(row, r) = left \o right
  BY Zenon DEF AlphaRow
<1> HIDE DEF left, right
<1>3. \A i \in Range(left) : \A j \in Range(right) : Before(i, j)
  <2> SUFFICES ASSUME NEW i \in Range(left), NEW j \in Range(right) PROVE Before(i, j)
    OBVIOUS
  <2>1. i.sheet = j.sheet /\ i.row = j.row /\ i.block # "right" /\ j.block = "right"
    BY <1>1 DEF OfRow
  <2> QED BY <2>1, BeforeIf
<1>4. left \in Seq(T) /\ right \in Seq(T) /\ InOrder(left) /\ InOrder(right)
  BY <1>1 DEF OfRow
<1> HIDE DEF T
<1>5. /\ left \o right \in Seq(T) /\ InOrder(left \o right)
      /\ Range(left \o right) = Range(left) \cup Range(right)
  BY <1>3, <1>4, ConcatInOrder
<1> QED BY <1>1, <1>2, <1>5 DEF OfRow, T

\* A row of the beta supplier.
LEMMA BetaRowRead ==
  ASSUME NEW sheets, NEW r \in Nat, NEW U, Blank \in U, NEW row, row = sheets[1][r], Range(row) \subseteq U
  PROVE  OfRow(sheets, 1, r, U, BetaRow(row, r))
<1> DEFINE name == Column(row, 2)
           stock == Column(row, 5)
           numeric == \E n \in 3..5 : Column(row, n).number
           item == Item(1, r, "", name, stock, Blank)
<1>1. BetaRow(row, r) = IF numeric /\ ~IsServiceLine(<<name>>, numeric) THEN <<item>> ELSE <<>>
  BY Zenon DEF BetaRow
<1>2. stock \in Range(row) \cup {Blank} /\ (~Missing(name) => name \in Range(row))
  BY ColumnIs
<1> HIDE DEF numeric, name, stock
<1>3. CASE numeric /\ ~IsServiceLine(<<name>>, numeric)
  <2>1. ~Missing(name) /\ name \in Range(row)
    BY <1>2, <1>3, OneCellLine
  <2>2. 1 \in Nat /\ "" \in {"", "left", "right"} /\ Blank \in Range(row) \cup {Blank}
    OBVIOUS
  <2>3. OfRow(sheets, 1, r, U, <<item>>)
    BY <1>2, <2>1, <2>2, OwnItem
  <2> HIDE DEF item
  <2> QED BY <2>3, <1>1, <1>3
<1>4. CASE ~(numeric /\ ~IsServiceLine(<<name>>, numeric))
  <2>1. BetaRow(row, r) = <<>>
    BY <1>1, <1>4
  <2> QED BY <2>1, NoneOfRow
<1> QED BY <1>3, <1>4

\* A row of the gamma supplier.
LEMMA GammaRowRead ==
  ASSUME NEW sheets, NEW r \in Nat, NEW U, Blank \in U, NEW row, row = sheets[1][r], Range(row) \subseteq U
  PROVE  OfRow(sheets, 1, r, U, GammaRow(row, r))
<1> DEFINE name == Column(row, 3)
           stock == GammaStock(row)
           kept == /\ ~Missing(name) /\ ~name.total
                   /\ ~Missing(Column(row, 2)) \/ Column(row, 4).number \/ Column(row, 6).number
           item == Item(1, r, "", name, stock, Blank)
<1>1. GammaRow(row, r) = IF kept THEN <<item>> ELSE <<>>
  BY Zenon DEF GammaRow
<1>2. stock \in Range(row) \cup {Blank}
  <2>1. Column(row, 4) \in Range(row) \cup {Blank} /\ Column(row, 6) \in Range(row) \cup {Blank}
    BY ColumnIs
  <2>2. stock \in {Column(row, 4), Column(row, 6), Blank}
    BY DEF GammaStock
  <2> HIDE DEF stock
  <2> QED BY <2>1, <2>2
<1>3. kept => ~Missing(name) /\ name \in Range(row)
  BY ColumnIs
<1> HIDE DEF kept, name, stock
<1>4. CASE kept
  <2>1. 1 \in Nat /\ "" \in {"", "left", "right"} /\ Blank \in Range(row) \cup {Blank}
    OBVIOUS
  <2>2. OfRow(sheets, 1, r, U, <<item>>)
    BY <1>2, <1>3, <1>4, <2>1, OwnItem
  <2> HIDE DEF item
  <2> QED BY <2>2, <1>1, <1>4
<1>5. CASE ~kept
  <2>1. GammaRow(row, r) = <<>>
    BY <1>1, <1>5
  <2> QED BY <2>1, NoneOfRow
<1> QED BY <1>4, <1>5

\* The items of a sheet in the layout of a known supplier.
LEMMA SupplierRead ==
  ASSUME NEW sheets, NEW n \in Nat, NEW U, Blank \in U, DOMAIN sheets[1] = 1..n,
         \A r \in 1..n : Range(sheets[1][r]) \subseteq U,
         NEW list, LET first == sheets[1]
                   IN  \/ list = Below(0, [r \in DOMAIN first |-> BetaRow(first[r], r)])
                       \/ list = Below(5, [r \in DOMAIN first |-> AlphaRow(first[r], r)])
                       \/ list = Below(8, [r \in DOMAIN first |-> GammaRow(first[r], r)])
  PROVE  /\ list \in Seq(ItemsOf(U)) /\ InOrder(list)
         /\ \A i \in Range(list) : ComesFrom(sheets, i)
<1> DEFINE first == sheets[1]
           beta == [r \in DOMAIN first |-> BetaRow(first[r], r)]
           alpha == [r \in DOMAIN first |-> AlphaRow(first[r], r)]
           gamma == [r \in DOMAIN first |-> GammaRow(first[r], r)]
<1>1. DOMAIN beta = 1..n /\ DOMAIN alpha = 1..n /\ DOMAIN gamma = 1..n /\ 1 \in Nat
  OBVIOUS
<1>2. ASSUME NEW r \in 1..n
      PROVE  /\ OfRow(sheets, 1, r, U, beta[r]) /\ OfRow(sheets, 1, r, U, alpha[r])
             /\ OfRow(sheets, 1, r, U, gamma[r])
  <2>1. r \in Nat /\ Range(sheets[1][r]) \subseteq U
    OBVIOUS
  <2>2. beta[r] = BetaRow(sheets[1][r], r) /\ alpha[r] = AlphaRow(sheets[1][r], r)
        /\ gamma[r] = GammaRow(sheets[1][r], r)
    OBVIOUS
  <2> HIDE DEF beta, alpha, gamma
  <2> QED BY <2>1, <2>2, BetaRowRead, AlphaRowRead, GammaRowRead
<1>3. list = Below(0, beta) \/ list = Below(5, alpha) \/ list = Below(8, gamma)
  BY Zenon
<1> HIDE DEF beta, alpha, gamma
<1>4. CASE list = Below(0, beta)
  <2>1. DOMAIN beta = 1..n /\ \A r \in 1..n : OfRow(sheets, 1, r, U, beta[r])
    BY <1>1, <1>2
  <2>2. /\ Below(0, beta) \in Seq(ItemsOf(U)) /\ InOrder(Below(0, beta))
        /\ \A i \in Range(Below(0, beta)) : i.sheet = 1 /\ i.row \in 1..n /\ ComesFrom(sheets, i)
    BY ZenonT(40), <1>1, <2>1, BelowTogether
  <2> QED BY <1>4, <2>2
<1>5. CASE list = Below(5, alpha)
  <2>1. DOMAIN alpha = 1..n /\ \A r \in 1..n : OfRow(sheets, 1, r, U, alpha[r])
    BY <1>1, <1>2
  <2>2. /\ Below(5, alpha) \in Seq(ItemsOf(U)) /\ InOrder(Below(5, alpha))
        /\ \A i \in Range(Below(5, alpha)) : i.sheet = 1 /\ i.row \in 1..n /\ ComesFrom(sheets, i)
    BY ZenonT(40), <1>1, <2>1, BelowTogether
  <2> QED BY <1>5, <2>2
<1>6. CASE list = Below(8, gamma)
  <2>1. DOMAIN gamma = 1..n /\ \A r \in 1..n : OfRow(sheets, 1, r, U, gamma[r])
    BY <1>1, <1>2
  <2>2. /\ Below(8, gamma) \in Seq(ItemsOf(U)) /\ InOrder(Below(8, gamma))
        /\ \A i \in Range(Below(8, gamma)) : i.sheet = 1 /\ i.row \in 1..n /\ ComesFrom(sheets, i)
    BY ZenonT(40), <1>1, <2>1, BelowTogether
  <2> QED BY <1>6, <2>2
<1> QED BY <1>3, <1>4, <1>5, <1>6

-----------------------------------------------------------------------------
\* A workbook of n sheets, its cells and the blank in a set.
IsBook(sheets, n, U) ==
  /\ AreSheets(sheets, n) /\ Blank \in U
  /\ \A s \in 1..n : \A r \in DOMAIN sheets[s] : IsRow(sheets[s][r]) /\ Range(sheets[s][r]) \subseteq U

\* No row with a name and a price of a sheet is left out of a list.
RowsFound(sheets, s, list) ==
  \A r \in DOMAIN sheets[s] \ {HeaderRow(sheets[s])} : \A mapping \in {InForce(sheets, s, r)} :
    IsPriced(sheets[s][r], mapping) =>
      \E i \in Range(list) : i.sheet = s /\ i.row = r /\ Takes(i, sheets[s][r], mapping)

\* The items of one sheet: in order, of its cells, none left out.
OfSheet(sheets, s, list) ==
  /\ InOrder(list) /\ RowsFound(sheets, s, list)
  /\ \A i \in Range(list) : i.sheet = s /\ ComesFrom(sheets, i)

\* What is held after k sheets: the header found last, and the items of all of them.
SheetsRead(sheets, k, state) ==
  /\ state.mapping = Carried(sheets, k) /\ InOrder(state.items)
  /\ \A i \in Range(state.items) : i.sheet \in 1..k /\ ComesFrom(sheets, i)
  /\ \A s \in 1..k : RowsFound(sheets, s, state.items)

\* The items of the next sheet put behind those of the sheets before.
LEMMA SheetAdded ==
  ASSUME NEW T, NEW sheets, NEW k \in Nat \ {0}, NEW state, NEW next, NEW more \in Seq(T),
         state.items \in Seq(T), SheetsRead(sheets, k - 1, state), OfSheet(sheets, k, more),
         next.mapping = Carried(sheets, k), next.items = state.items \o more
  PROVE  next.items \in Seq(T) /\ SheetsRead(sheets, k, next)
<1> DEFINE list == state.items
<1>1. /\ list \in Seq(T) /\ InOrder(list) /\ InOrder(more)
      /\ \A i \in Range(list) : i.sheet \in 1..(k - 1) /\ ComesFrom(sheets, i)
      /\ \A i \in Range(more) : i.sheet = k /\ ComesFrom(sheets, i)
  BY DEF SheetsRead, OfSheet
<1>2. \A i \in Range(list) : \A j \in Range(more) : Before(i, j)
  <2> SUFFICES ASSUME NEW i \in Range(list), NEW j \in Range(more) PROVE Before(i, j)
    OBVIOUS
  <2>1. i.sheet \in 1..(k - 1) /\ j.sheet = k
    BY <1>1
  <2>2. i.sheet < j.sheet
    BY <2>1
  <2> QED BY <2>2, BeforeIf
<1> HIDE DEF list
<1>3. /\ list \o more \in Seq(T) /\ InOrder(list \o more)
      /\ Range(list \o more) = Range(list) \cup Range(more)
  BY <1>1, <1>2, ConcatInOrder
<1>4. next.items = list \o more
  BY DEF list
<1>5. \A i \in Range(next.items) : i.sheet \in 1..k /\ ComesFrom(sheets, i)
  <2>1. \A i \in Range(list) : i.sheet \in 1..k
    BY <1>1
  <2>2. k \in 1..k
    OBVIOUS
  <2> QED BY <1>1, <1>3, <1>4, <2>1, <2>2
<1>6. ASSUME NEW s \in 1..k PROVE RowsFound(sheets, s, next.items)
  <2>1. CASE s = k
    <3>1. RowsFound(sheets, s, more)
      BY <2>1 DEF OfSheet
    <3> QED BY <3>1, <1>3, <1>4 DEF RowsFound
  <2>2. CASE s # k
    <3>1. s \in 1..(k - 1)
      BY <2>2
    <3>2. RowsFound(sheets, s, list)
      BY <3>1 DEF SheetsRead, list
    <3> QED BY <3>2, <1>3, <1>4 DEF RowsFound
  <2> QED BY <2>1, <2>2
<1> QED BY <1>3, <1>4, <1>5, <1>6 DEF SheetsRead

\* The rows above and below the header of a sheet.
LEMMA AboveAndBelow ==
  ASSUME NEW T, NEW sheets, NEW s \in Nat, NEW h \in Nat \ {0}, NEW last \in Nat, h <= last,
         DOMAIN sheets[s] = 1..last, HeaderRow(sheets[s]) = h,
         NEW known, NEW own, NEW above \in Seq(T), NEW below \in Seq(T),
         Holds(sheets, s, 1, h - 1, known), Holds(sheets, s, h + 1, last, own),
         Covered(sheets, s, 1, h - 1, known, above), Covered(sheets, s, h + 1, last, own, below)
  PROVE  above \o below \in Seq(T) /\ OfSheet(sheets, s, above \o below)
<1>1. /\ InOrder(above) /\ InOrder(below)
      /\ \A i \in Range(above) : i.sheet = s /\ i.row \in 1..h - 1 /\ ComesFrom(sheets, i)
      /\ \A i \in Range(below) : i.sheet = s /\ i.row \in h + 1..last /\ ComesFrom(sheets, i)
  BY DEF Covered
<1>2. \A i \in Range(above) : \A j \in Range(below) : Before(i, j)
  <2> SUFFICES ASSUME NEW i \in Range(above), NEW j \in Range(below) PROVE Before(i, j)
    OBVIOUS
  <2>1. i.sheet = j.sheet /\ i.row \in 1..h - 1 /\ j.row \in h + 1..last
    BY <1>1
  <2>2. i.sheet = j.sheet /\ i.row < j.row
    BY <2>1
  <2> QED BY <2>2, BeforeIf
<1>3. /\ above \o below \in Seq(T) /\ InOrder(above \o below)
      /\ Range(above \o below) = Range(above) \cup Range(below)
  BY <1>1, <1>2, ConcatInOrder
<1>4. RowsFound(sheets, s, above \o below)
  <2> SUFFICES ASSUME NEW r \in (1..last) \ {h}, IsPriced(sheets[s][r], InForce(sheets, s, r))
               PROVE  \E i \in Range(above \o below) :
                        i.sheet = s /\ i.row = r /\ Takes(i, sheets[s][r], InForce(sheets, s, r))
    BY DEF RowsFound
  <2>1. CASE r < h
    <3>1. r \in 1..h - 1
      BY <2>1
    <3>2. InForce(sheets, s, r) = known
      BY <3>1 DEF Holds
    <3>3. \E i \in Range(above) : i.sheet = s /\ i.row = r /\ Takes(i, sheets[s][r], known)
      BY <3>1, <3>2 DEF Covered
    <3> QED BY <3>2, <3>3, <1>3
  <2>2. CASE ~(r < h)
    <3>1. r \in h + 1..last
      BY <2>2
    <3>2. InForce(sheets, s, r) = own
      BY <3>1 DEF Holds
    <3>3. \E i \in Range(below) : i.sheet = s /\ i.row = r /\ Takes(i, sheets[s][r], own)
      BY <3>1, <3>2 DEF Covered
    <3> QED BY <3>2, <3>3, <1>3
  <2> QED BY <2>1, <2>2
<1> QED BY <1>1, <1>3, <1>4 DEF OfSheet

-----------------------------------------------------------------------------
\* A sheet as it is read, and what may be held between two of them.
Table(sheets, k) == [number |-> k, rows |-> sheets[k], header |-> HeaderRow(sheets[k])]

Held(sheets, n, U) ==
  [mapping : {<<>>} \cup {HeaderMapping(sheets[t][HeaderRow(sheets[t])]) : t \in 1..n},
   items   : Seq(ItemsOf(U))]

\* Where no header holds, no row is one with a name and a price.
LEMMA NothingPriced ==
  ASSUME NEW sheets, NEW s, NEW first, NEW last
  PROVE  Covered(sheets, s, first, last, <<>>, <<>>)
BY NothingRead DEF Covered, IsPriced

\* The headers that hold at the rows of a sheet.
LEMMA HeaderHolds ==
  ASSUME NEW n \in Nat, NEW sheets, AreSheets(sheets, n), NEW s \in 1..n
  PROVE  LET h == HeaderRow(sheets[s])
             last == Len(sheets[s])
         IN  /\ last \in Nat /\ DOMAIN sheets[s] = 1..last /\ h \in 0..last
             /\ h > 0 => /\ Holds(sheets, s, 1, h - 1, Carried(sheets, s - 1))
                         /\ Holds(sheets, s, h + 1, last, HeaderMapping(sheets[s][h]))
                         /\ Carried(sheets, s) = HeaderMapping(sheets[s][h])
             /\ h = 0 => /\ Holds(sheets, s, 1, last, Carried(sheets, s - 1))
                         /\ Carried(sheets, s) = Carried(sheets, s - 1)
<1> DEFINE h == HeaderRow(sheets[s])
           last == Len(sheets[s])
<1>1. last \in Nat /\ DOMAIN sheets[s] = 1..last
  <2>1. sheets[s] \in Seq(Range(sheets[s]))
    BY DEF AreSheets
  <2> QED BY <2>1, LenProperties
<1>2. h \in 0..last /\ Carried(sheets, s) = IF h > 0 THEN HeaderMapping(sheets[s][h]) ELSE Carried(sheets, s - 1)
  <2>1. 0 \in Nat
    OBVIOUS
  <2> QED BY <2>1, InForceIs
<1>3. \A r \in Nat : /\ h > 0 /\ r > h => InForce(sheets, s, r) = HeaderMapping(sheets[s][h])
                     /\ h = 0 \/ r <= h => InForce(sheets, s, r) = Carried(sheets, s - 1)
  BY InForceIs
<1> HIDE DEF h, last
<1>4. h > 0 => Holds(sheets, s, 1, h - 1, Carried(sheets, s - 1))
  <2>1. \A r \in 1..h - 1 : r \in Nat /\ r <= h
    BY <1>1, <1>2
  <2> QED BY <1>3, <2>1 DEF Holds
<1>5. h > 0 => Holds(sheets, s, h + 1, last, HeaderMapping(sheets[s][h]))
  <2>1. \A r \in h + 1..last : r \in Nat /\ r > h
    BY <1>1, <1>2
  <2> QED BY <1>3, <2>1 DEF Holds
<1>6. h = 0 => Holds(sheets, s, 1, last, Carried(sheets, s - 1))
  <2>1. \A r \in 1..last : r \in Nat
    OBVIOUS
  <2> QED BY <1>3, <2>1 DEF Holds
<1> QED BY <1>1, <1>2, <1>4, <1>5, <1>6 DEF h, last

\* The rows under one header that make up a sheet.
LEMMA WholeSheet ==
  ASSUME NEW sheets, NEW s, NEW last \in Nat, DOMAIN sheets[s] = 1..last, HeaderRow(sheets[s]) = 0,
         NEW mapping, NEW list, Holds(sheets, s, 1, last, mapping), Covered(sheets, s, 1, last, mapping, list)
  PROVE  OfSheet(sheets, s, list)
<1>1. /\ InOrder(list)
      /\ \A i \in Range(list) : i.sheet = s /\ ComesFrom(sheets, i)
  BY DEF Covered
<1>2. RowsFound(sheets, s, list)
  <2> SUFFICES ASSUME NEW r \in 1..last, IsPriced(sheets[s][r], InForce(sheets, s, r))
               PROVE  \E i \in Range(list) :
                        i.sheet = s /\ i.row = r /\ Takes(i, sheets[s][r], InForce(sheets, s, r))
    BY DEF RowsFound
  <2>1. InForce(sheets, s, r) = mapping
    BY DEF Holds
  <2> QED BY <2>1 DEF Covered
<1> QED BY <1>1, <1>2 DEF OfSheet

\* Reading a sheet keeps the types of what is held, and what is true of it.
LEMMA SheetIsRead ==
  ASSUME NEW n \in Nat, NEW sheets, NEW U, IsBook(sheets, n, U), NEW k \in 1..n,
         NEW state \in Held(sheets, n, U)
  PROVE  LET next == ReadSheet(state, Table(sheets, k))
         IN  /\ next \in Held(sheets, n, U)
             /\ SheetsRead(sheets, k - 1, state) => SheetsRead(sheets, k, next)
<1> DEFINE h == HeaderRow(sheets[k])
           last == Len(sheets[k])
           rows == sheets[k]
           own == HeaderMapping(rows[h])
           known == state.mapping # <<>>
           above == IF known THEN MappedRows(k, rows, 1, h - 1, state.mapping) ELSE <<>>
           below == MappedRows(k, rows, h + 1, last, own)
           whole == MappedRows(k, rows, 1, last, state.mapping)
           texts == TextRows(k, rows)
           next == ReadSheet(state, Table(sheets, k))
           T == ItemsOf(U)
           all == {<<>>} \cup {HeaderMapping(sheets[t][HeaderRow(sheets[t])]) : t \in 1..n}
<1>1. next = CASE h > 0 -> [mapping |-> own, items |-> state.items \o above \o below]
               [] h = 0 /\ known -> [state EXCEPT !.items = @ \o whole]
               [] OTHER -> [state EXCEPT !.items = @ \o texts]
  BY DEF ReadSheet, Table
<1>2. state \in [mapping : all, items : Seq(T)] /\ own \in all /\ k \in Nat \ {0}
  BY DEF Held
<1>3. /\ last \in Nat /\ DOMAIN rows = 1..last /\ h \in 0..last
      /\ h > 0 => /\ Holds(sheets, k, 1, h - 1, Carried(sheets, k - 1))
                  /\ Holds(sheets, k, h + 1, last, own) /\ Carried(sheets, k) = own
      /\ h = 0 => /\ Holds(sheets, k, 1, last, Carried(sheets, k - 1))
                  /\ Carried(sheets, k) = Carried(sheets, k - 1)
  BY HeaderHolds DEF IsBook
<1>4. Blank \in U /\ \A r \in 1..last : IsRow(sheets[k][r]) /\ Range(sheets[k][r]) \subseteq U
  BY <1>3 DEF IsBook
<1> HIDE DEF next, own, above, below, whole, texts, T, all
<1>5. CASE h > 0
  <2>1. next = [mapping |-> own, items |-> state.items \o above \o below]
    BY <1>1, <1>5
  <2>2. /\ h \in Nat \ {0} /\ h <= last /\ h - 1 \in Nat /\ 1 \in Nat \ {0} /\ 1 <= (h - 1) + 1
        /\ h + 1 \in Nat \ {0} /\ h + 1 <= last + 1
        /\ \A r \in 1..h - 1 : r \in 1..last
        /\ \A r \in h + 1..last : r \in 1..last
    BY <1>3, <1>5
  <2>3. /\ above \in Seq(T)
        /\ Holds(sheets, k, 1, h - 1, state.mapping) => Covered(sheets, k, 1, h - 1, state.mapping, above)
    <3>1. CASE known
      <4>1. above = MappedRows(k, sheets[k], 1, h - 1, state.mapping)
        BY <3>1 DEF above
      <4>2. \A r \in 1..h - 1 : IsRow(sheets[k][r]) /\ Range(sheets[k][r]) \subseteq U
        BY <2>2, <1>4
      <4> QED BY <4>1, <4>2, <2>2, <1>2, <1>4, MappedCovered DEF T
    <3>2. CASE ~known
      <4>1. above = <<>> /\ state.mapping = <<>>
        BY <3>2 DEF above
      <4> QED BY <4>1, NothingPriced, NothingRead
    <3> QED BY <3>1, <3>2
  <2>4. /\ below \in Seq(T)
        /\ Holds(sheets, k, h + 1, last, own) => Covered(sheets, k, h + 1, last, own, below)
    <3>1. \A r \in h + 1..last : IsRow(sheets[k][r]) /\ Range(sheets[k][r]) \subseteq U
      BY <2>2, <1>4
    <3>2. below = MappedRows(k, sheets[k], h + 1, last, own)
      BY DEF below
    <3> QED BY <3>1, <3>2, <2>2, <1>2, <1>3, <1>4, MappedCovered DEF T
  <2>5. /\ above \o below \in Seq(T) /\ state.items \o above \o below \in Seq(T)
        /\ state.items \o above \o below = state.items \o (above \o below)
    <3>1. state.items \in Seq(T)
      BY <1>2
    <3> DEFINE items == state.items
    <3> HIDE DEF items
    <3>2. items \in Seq(T)
      BY <3>1 DEF items
    <3>3. items \o above \in Seq(T) /\ above \o below \in Seq(T)
      BY <3>2, <2>3, <2>4, ConcatProperties
    <3>4. items \o above \o below \in Seq(T)
      BY <3>3, <2>4, ConcatProperties
    <3>5. items \o above \o below = items \o (above \o below)
      BY SMTT(30), <3>2, <2>3, <2>4, ConcatAssociative
    <3> QED BY <3>3, <3>4, <3>5 DEF items
  <2>6. next \in [mapping : all, items : Seq(T)]
    BY <2>1, <2>5, <1>2
  <2>7. ASSUME SheetsRead(sheets, k - 1, state) PROVE SheetsRead(sheets, k, next)
    <3>1. state.mapping = Carried(sheets, k - 1)
      BY <2>7 DEF SheetsRead
    <3>2. /\ Holds(sheets, k, 1, h - 1, state.mapping) /\ Holds(sheets, k, h + 1, last, own)
          /\ Covered(sheets, k, 1, h - 1, state.mapping, above)
          /\ Covered(sheets, k, h + 1, last, own, below)
      BY <3>1, <1>3, <1>5, <2>3, <2>4
    <3>3. OfSheet(sheets, k, above \o below)
      BY <3>2, <1>2, <1>3, <2>2, <2>3, <2>4, AboveAndBelow
    <3> DEFINE more == above \o below
    <3>4. /\ next.mapping = Carried(sheets, k) /\ next.items = state.items \o more
          /\ more \in Seq(T) /\ OfSheet(sheets, k, more) /\ state.items \in Seq(T)
      BY <2>1, <2>5, <1>2, <1>3, <1>5, <3>3
    <3> HIDE DEF more
    <3> QED BY <3>4, <2>7, <1>2, SheetAdded
  <2> QED BY <2>6, <2>7 DEF Held, next, T, all
<1>6. ASSUME h = 0, NEW more \in Seq(T), next = [state EXCEPT !.items = @ \o more],
             SheetsRead(sheets, k - 1, state) => OfSheet(sheets, k, more)
      PROVE  /\ next \in [mapping : all, items : Seq(T)]
             /\ SheetsRead(sheets, k - 1, state) => SheetsRead(sheets, k, next)
  <2>1. state.items \in Seq(T) /\ next.mapping = state.mapping /\ next.items = state.items \o more
    BY <1>2, <1>6
  <2>2. next \in [mapping : all, items : Seq(T)]
    <3>1. state.items \o more \in Seq(T)
      BY <2>1, ConcatProperties
    <3> QED BY <3>1, <1>2, <1>6
  <2>3. ASSUME SheetsRead(sheets, k - 1, state) PROVE SheetsRead(sheets, k, next)
    <3>1. next.mapping = Carried(sheets, k)
      BY <2>1, <2>3, <1>3, <1>6 DEF SheetsRead
    <3>2. OfSheet(sheets, k, more)
      BY <2>3, <1>6
    <3> QED BY <3>1, <3>2, <2>1, <2>3, <1>2, SheetAdded
  <2> QED BY <2>2, <2>3
<1>7. CASE h = 0 /\ known
  <2>1. next = [state EXCEPT !.items = @ \o whole]
    BY <1>1, <1>7
  <2>2. /\ whole \in Seq(T)
        /\ Holds(sheets, k, 1, last, state.mapping) => Covered(sheets, k, 1, last, state.mapping, whole)
    <3>1. 1 \in Nat \ {0} /\ 1 <= last + 1
      BY <1>3
    <3>2. whole = MappedRows(k, sheets[k], 1, last, state.mapping)
      BY DEF whole
    <3> QED BY <3>1, <3>2, <1>2, <1>3, <1>4, MappedCovered DEF T
  <2>3. SheetsRead(sheets, k - 1, state) => OfSheet(sheets, k, whole)
    <3> SUFFICES ASSUME SheetsRead(sheets, k - 1, state) PROVE OfSheet(sheets, k, whole)
      OBVIOUS
    <3>1. Holds(sheets, k, 1, last, state.mapping)
      BY <1>3, <1>7 DEF SheetsRead
    <3> QED BY <3>1, <2>2, <1>3, <1>7, WholeSheet
  <2>4. h = 0
    BY <1>7
  <2>5. /\ next \in [mapping : all, items : Seq(T)]
        /\ SheetsRead(sheets, k - 1, state) => SheetsRead(sheets, k, next)
    BY <2>1, <2>2, <2>3, <2>4, <1>6
  <2> QED BY <2>5 DEF Held, next, T, all
<1>8. CASE ~(h > 0) /\ ~(h = 0 /\ known)
  <2>1. h = 0 /\ ~known /\ next = [state EXCEPT !.items = @ \o texts]
    <3>1. h = 0
      BY <1>3, <1>8
    <3> QED BY <3>1, <1>1, <1>8
  <2>2. /\ texts \in Seq(T) /\ InOrder(texts)
        /\ \A i \in Range(texts) : i.sheet = k /\ i.row \in 1..last /\ ComesFrom(sheets, i)
    BY <1>2, <1>3, <1>4, TextCovered DEF texts, T
  <2>3. SheetsRead(sheets, k - 1, state) => OfSheet(sheets, k, texts)
    <3> SUFFICES ASSUME SheetsRead(sheets, k - 1, state) PROVE OfSheet(sheets, k, texts)
      OBVIOUS
    <3>1. Holds(sheets, k, 1, last, <<>>)
      BY <1>3, <2>1 DEF SheetsRead
    <3>2. Covered(sheets, k, 1, last, <<>>, texts)
      BY <2>2 DEF Covered, IsPriced
    <3> QED BY <3>1, <3>2, <2>1, <1>3, WholeSheet
  <2>4. /\ next \in [mapping : all, items : Seq(T)]
        /\ SheetsRead(sheets, k - 1, state) => SheetsRead(sheets, k, next)
    BY <2>1, <2>2, <2>3, <1>6
  <2> QED BY <2>4 DEF Held, next, T, all
<1> QED BY <1>5, <1>7, <1>8

-----------------------------------------------------------------------------
\* All the sheets of a workbook of an unknown supplier.
LEMMA GenericRead ==
  ASSUME NEW n \in Nat, NEW sheets, NEW U, IsBook(sheets, n, U)
  PROVE  LET list == GenericRows(sheets)
         IN  /\ list \in Seq(ItemsOf(U)) /\ InOrder(list)
             /\ \A i \in Range(list) : ComesFrom(sheets, i)
             /\ NothingLost(sheets, list)
<1> DEFINE tables == [k \in 1..n |-> Table(sheets, k)]
           base == [mapping |-> <<>>, items |-> <<>>]
           D == Held(sheets, n, U)
           step == [p \in D \X (1..n) |-> ReadSheet(p[1], tables[p[2]])]
           P(f) == f = [t \in SUBSET (1..n) |-> IF t = {} THEN base ELSE ReadSheet(f[t \ {Max(t)}], tables[Max(t)])]
<1>1. DOMAIN sheets = 1..n
  BY DEF IsBook, AreSheets
<1>2. base \in D
  BY NothingRead DEF Held
<1>3. \A k \in 1..n : tables[k] = Table(sheets, k)
  OBVIOUS
<1>4. GenericRows(sheets) = (CHOOSE f : P(f))[1..n].items
  <2> DEFINE all == [k \in DOMAIN sheets |-> [number |-> k, rows |-> sheets[k], header |-> HeaderRow(sheets[k])]]
  <2>1. DOMAIN all = 1..n /\ all = tables
    BY <1>1 DEF Table
  <2>2. GenericRows(sheets) =
          (CHOOSE f : f = [t \in SUBSET DOMAIN all |->
             IF t = {} THEN base ELSE ReadSheet(f[t \ {Max(t)}], all[Max(t)])])[DOMAIN all].items
    BY Zenon DEF GenericRows, FoldLeft, MapThenFoldSet
  <2> HIDE DEF all, tables, base
  <2> QED BY <2>1, <2>2, ZenonT(40)
<1> HIDE DEF tables, D
<1>5. ASSUME NEW x \in D, NEW k \in 1..n
      PROVE  /\ ReadSheet(x, tables[k]) \in D
             /\ SheetsRead(sheets, k - 1, x) => SheetsRead(sheets, k, ReadSheet(x, tables[k]))
  BY <1>3, SheetIsRead DEF D
<1>6. step \in [D \X (1..n) -> D]
  BY <1>5
<1>7. \A x \in D : \A k \in 1..n : step[x, k] = ReadSheet(x, tables[k])
  OBVIOUS
<1> HIDE DEF step, base
<1>8. \E f : P(f)
  <2>1. PICK f \in [SUBSET (1..n) -> D] : FoldTable(f, base, step, n)
    BY <1>2, <1>6, FoldTableExists
  <2> DEFINE a == [t \in SUBSET (1..n) |-> IF t = {} THEN base ELSE step[f[t \ {Max(t)}], Max(t)]]
             b == [t \in SUBSET (1..n) |-> IF t = {} THEN base ELSE ReadSheet(f[t \ {Max(t)}], tables[Max(t)])]
  <2>2. ASSUME NEW t \in SUBSET (1..n) PROVE a[t] = b[t]
    <3>1. t # {} => Max(t) \in 1..n /\ f[t \ {Max(t)}] \in D
      BY MaxIs
    <3> QED BY <3>1, <1>7
  <2>3. a = [t \in SUBSET (1..n) |-> a[t]] /\ b = [t \in SUBSET (1..n) |-> b[t]]
    OBVIOUS
  <2>4. f = a
    BY <2>1, Zenon DEF FoldTable
  <2> HIDE DEF a, b
  <2>5. f = b
    BY <2>2, <2>3, <2>4
  <2> QED BY <2>5, Zenon DEF b
<1> DEFINE f == CHOOSE h : P(h)
<1>9. P(f)
  <2> HIDE DEF P
  <2> QED BY <1>8
<1>10. \A t \in SUBSET (1..n) : f[t] = IF t = {} THEN base ELSE ReadSheet(f[t \ {Max(t)}], tables[Max(t)])
  <2> HIDE DEF f
  <2> QED BY <1>9, Zenon
<1> HIDE DEF f, P
<1> DEFINE Good == {k \in 0..n : f[1..k] \in D /\ SheetsRead(sheets, k, f[1..k])}
<1>11. 0 \in Good
  <2>1. 1..0 = {} /\ 1..0 \in SUBSET (1..n) /\ 0 \in 0..n
    OBVIOUS
  <2>2. f[1..0] = base
    BY <2>1, <1>10
  <2>3. base.mapping = <<>> /\ base.items = <<>>
    BY DEF base
  <2>4. SheetsRead(sheets, 0, base)
    BY <2>1, <2>3, NothingRead, NothingCarried DEF SheetsRead
  <2> QED BY <2>1, <2>2, <2>4, <1>2
<1>12. ASSUME NEW k \in 1..n, k - 1 \in Good PROVE k \in Good
  <2>1. /\ 1..k \in SUBSET (1..n) /\ 1..k # {} /\ Max(1..k) = k /\ (1..k) \ {k} = 1..(k - 1)
    BY PrefixIs
  <2>2. f[1..k] = ReadSheet(f[1..(k - 1)], tables[k])
    BY <2>1, <1>10
  <2>3. f[1..(k - 1)] \in D /\ SheetsRead(sheets, k - 1, f[1..(k - 1)])
    BY <1>12
  <2>4. k \in 0..n
    OBVIOUS
  <2> QED BY <2>2, <2>3, <2>4, <1>5
<1>13. n \in Good
  <2>1. n \in 0..n
    OBVIOUS
  <2> HIDE DEF Good
  <2> QED BY <1>11, <1>12, <2>1, Counting
<1> DEFINE list == f[1..n].items
<1>14. GenericRows(sheets) = list
  BY <1>4 DEF f
<1>15. list \in Seq(ItemsOf(U)) /\ SheetsRead(sheets, n, f[1..n])
  BY <1>13 DEF D, Held
<1>16. NothingLost(sheets, list)
  <2>1. \A s \in 1..n : RowsFound(sheets, s, list)
    BY <1>15 DEF SheetsRead
  <2> QED BY <2>1, <1>1 DEF NothingLost, RowsFound
<1> QED BY <1>14, <1>15, <1>16 DEF SheetsRead

\* The items of a workbook, whoever it is from.
LEMMA WorkbookIsRead ==
  ASSUME NEW workbook, IsWorkbook(workbook)
  PROVE  LET list == Extract(workbook)
         IN  /\ \E T : list \in Seq(T)
             /\ InOrder(list)
             /\ \A i \in Range(list) : ComesFrom(workbook.sheets, i)
             /\ SelectParser(workbook) = "generic" => NothingLost(workbook.sheets, list)
<1> DEFINE sheets == workbook.sheets
           n == Len(sheets)
           U == {Blank} \cup UNION {UNION {Range(sheets[s][r]) : r \in DOMAIN sheets[s]} : s \in 1..n}
           first == sheets[1]
           beta == Below(0, [r \in DOMAIN first |-> BetaRow(first[r], r)])
           alpha == Below(5, [r \in DOMAIN first |-> AlphaRow(first[r], r)])
           gamma == Below(8, [r \in DOMAIN first |-> GammaRow(first[r], r)])
           list == Extract(workbook)
<1>1. list = CASE SelectParser(workbook) = "beta"  -> beta
               [] SelectParser(workbook) = "alpha" -> alpha
               [] SelectParser(workbook) = "gamma" -> gamma
               [] OTHER -> GenericRows(sheets)
  BY Zenon DEF Extract
<1>2. /\ sheets \in Seq(Range(sheets)) /\ sheets # <<>>
      /\ \A s \in DOMAIN sheets : /\ sheets[s] \in Seq(Range(sheets[s]))
                                 /\ \A r \in DOMAIN sheets[s] : IsRow(sheets[s][r])
  BY Zenon DEF IsWorkbook
<1> HIDE DEF sheets, list, beta, alpha, gamma
<1>3. n \in Nat /\ DOMAIN sheets = 1..n /\ 1 \in 1..n
  <2>1. n \in Nat /\ DOMAIN sheets = 1..n
    BY <1>2, LenProperties
  <2>2. n # 0
    BY <1>2, EmptySeq
  <2> QED BY <2>1, <2>2
<1> HIDE DEF n
<1>4. IsBook(sheets, n, U)
  <2>1. AreSheets(sheets, n)
    BY <1>2, <1>3 DEF AreSheets
  <2>2. Blank \in U
    OBVIOUS
  <2>3. ASSUME NEW s \in 1..n, NEW r \in DOMAIN sheets[s]
        PROVE  IsRow(sheets[s][r]) /\ Range(sheets[s][r]) \subseteq U
    BY <1>2, <1>3
  <2> HIDE DEF U
  <2> QED BY <2>1, <2>2, <2>3 DEF IsBook
<1> HIDE DEF U
<1>5. ASSUME list \in {beta, alpha, gamma}
      PROVE  list \in Seq(ItemsOf(U)) /\ InOrder(list) /\ \A i \in Range(list) : ComesFrom(sheets, i)
  <2> DEFINE m == Len(sheets[1])
  <2>1. m \in Nat /\ DOMAIN sheets[1] = 1..m
    BY <1>2, <1>3, LenProperties
  <2>2. Blank \in U /\ \A r \in 1..m : Range(sheets[1][r]) \subseteq U
    BY <2>1, <1>3, <1>4 DEF IsBook
  <2> HIDE DEF m
  <2>3. LET top == sheets[1]
        IN  \/ list = Below(0, [r \in DOMAIN top |-> BetaRow(top[r], r)])
            \/ list = Below(5, [r \in DOMAIN top |-> AlphaRow(top[r], r)])
            \/ list = Below(8, [r \in DOMAIN top |-> GammaRow(top[r], r)])
    BY <1>5 DEF beta, alpha, gamma
  <2> QED BY <2>1, <2>2, <2>3, SupplierRead
<1>6. CASE SelectParser(workbook) \in {"beta", "alpha", "gamma"}
  <2>1. list \in {beta, alpha, gamma}
    BY <1>1, <1>6
  <2>2. SelectParser(workbook) # "generic"
    BY <1>6
  <2> QED BY <2>1, <2>2, <1>5 DEF list, sheets
<1>7. CASE SelectParser(workbook) \notin {"beta", "alpha", "gamma"}
  <2>1. list = GenericRows(sheets)
    BY <1>1, <1>7
  <2>2. /\ list \in Seq(ItemsOf(U)) /\ InOrder(list)
        /\ \A i \in Range(list) : ComesFrom(sheets, i)
        /\ NothingLost(sheets, list)
    BY <2>1, <1>3, <1>4, GenericRead
  <2> QED BY <2>2 DEF list, sheets
<1> QED BY <1>6, <1>7

\* An answered reading is that of its workbook.
ReadingInv ==
  /\ task \in Tasks
  /\ IsAnswered("read") => answer = <<Extract(task.workbook)>>

\* No step answers a reading with anything else.
LEMMA ReadingInvariant == Spec => []ReadingInv
<1>1. Init => ReadingInv
  BY DEF Init, ReadingInv, IsAnswered
<1>2. ReadingInv /\ [Next]_<<task, answer>> => ReadingInv'
  <2> SUFFICES ASSUME ReadingInv, [Next]_<<task, answer>> PROVE ReadingInv'
    OBVIOUS
  <2>1. CASE SearchOffers \/ MatchGrades \/ TotalDocument \/ RefuseDocument
    <3>1. task' = task /\ task.kind # "read"
      BY <2>1 DEF SearchOffers, MatchGrades, TotalDocument, RefuseDocument, Answer
    <3> QED BY <3>1 DEF ReadingInv, IsAnswered
  <2>2. CASE ReadWorkbook
    BY <2>2 DEF ReadWorkbook, Answer, ReadingInv, IsAnswered
  <2>3. CASE UNCHANGED <<task, answer>>
    BY <2>3 DEF ReadingInv, IsAnswered
  <2> QED BY <2>1, <2>2, <2>3 DEF Next
<1> QED BY <1>1, <1>2, PTL DEF Spec

\* parse_files, for every workbook: its rows come out once and in their order, each item
\* is made of cells of its own row or takes the name of a row above under the header that
\* holds there, and no row with a name and a price under a header is left out.
THEOREM ReadingAlwaysFaithful == Spec => []ReadingIsFaithful
<1>1. ReadingInv => ReadingIsFaithful
  <2> SUFFICES ASSUME ReadingInv, IsAnswered("read") PROVE ReadingIsFaithful
    BY DEF ReadingIsFaithful
  <2> DEFINE found == Extract(task.workbook)
  <2>1. answer[1] = found
    BY DEF ReadingInv
  <2>2. IsWorkbook(task.workbook)
    BY TasksAssumption DEF ReadingInv, IsAnswered
  <2>3. /\ \E T : found \in Seq(T)
        /\ InOrder(found)
        /\ \A i \in Range(found) : ComesFrom(task.workbook.sheets, i)
        /\ SelectParser(task.workbook) = "generic" => NothingLost(task.workbook.sheets, found)
    BY <2>2, WorkbookIsRead
  <2> HIDE DEF found
  <2>4. \A m \in 1..Len(found)-1 : Ranks(Place(found[m]), Place(found[m+1]))
    <3>1. Len(found) \in Nat /\ DOMAIN found = 1..Len(found)
      BY <2>3, LenProperties
    <3>2. \A m \in 1..Len(found)-1 : m \in DOMAIN found /\ m + 1 \in DOMAIN found /\ m < m + 1
      BY <3>1
    <3> QED BY <2>3, <3>2 DEF InOrder, Before
  <2> QED BY <2>1, <2>3, <2>4 DEF ReadingIsFaithful
<1> QED BY <1>1, ReadingInvariant, PTL
================================================================================
