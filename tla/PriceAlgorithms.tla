--------------------------- MODULE PriceAlgorithms ---------------------------
(***************************************************************************)
(* The computations of the program that keep no state: reading a workbook, *)
(* searching the items read, matching them with the catalogue of grades,   *)
(* and the totals of a document.  Each task is answered in one step.       *)
(***************************************************************************)
EXTENDS PriceReading, Nomenclature, DocumentTotals

CONSTANT Tasks

ASSUME TasksAssumption ==
  \A t \in Tasks : /\ t.kind = "read" => IsWorkbook(t.workbook)
                   /\ t.kind = "search" => IsFreeSearch(t.query, t.items)
                   /\ t.kind = "total" => IsPayload(t.payload)
                   /\ t.kind = "match" => IsInquiry(t.catalog, t.options, t.query, t.items)

VARIABLES
  task,
  answer  \* a sequence: empty, then the one answer

\* A catalogue that is not valid cannot be loaded.
Init ==
  /\ task \in Tasks /\ answer = <<>>
  /\ task.kind = "match" => IsValidCatalog(task.catalog)

Answer(kind, value) ==
  task.kind = kind /\ answer = <<>> /\ answer' = <<value>> /\ UNCHANGED task

ReadWorkbook  == Answer("read", Extract(task.workbook))
SearchOffers  == Answer("search", SearchItems(task.query, task.items))
MatchGrades   == Answer("match", Search(task.catalog, task.options, task.query, task.items))
TotalDocument == Answer("total", Calculate(task.payload)) /\ ~IsRefused(task.payload)

RefuseDocument == Answer("total", [refused |-> TRUE]) /\ IsRefused(task.payload)

Next == ReadWorkbook \/ SearchOffers \/ MatchGrades \/ TotalDocument \/ RefuseDocument

Spec == Init /\ [][Next]_<<task, answer>>

IsAnswered(kind) == task.kind = kind /\ answer # <<>>

SumOf(numbers) == FoldLeft(LAMBDA a, b : a + b, 0, numbers)

-----------------------------------------------------------------------------
\* The header that holds at a row: its sheet's if it is above, else the last of the
\* sheets before; <<>> if there is none.
InForce(sheets, s, r) ==
  LET At1(t) == HeaderRow(sheets[t])
      holding == {t \in 1..s : At1(t) > 0 /\ (t < s \/ r > At1(t))}
  IN  IF holding = {} THEN <<>>
      ELSE LET t == Max(holding) IN HeaderMapping(sheets[t][At1(t)])

\* An item has a name; it takes its stock and price from its own row, and its name
\* from there or, if the row holds a value of a product, from a row above in its sheet.
ComesFrom(sheets, i) ==
  LET cells == Range(sheets[i.sheet][i.row])
  IN  /\ ~Missing(i.name) /\ {i.stock, i.price} \subseteq cells \cup {Blank}
      /\ \/ i.name \in cells
         \/ \E mapping \in {InForce(sheets, i.sheet, i.row)} :
               /\ \E r \in 1..i.row-1 : i.name \in Range(sheets[i.sheet][r])
               /\ \E f \in DOMAIN mapping \ {"description", "grade"} :
                    ~Missing(Under(sheets[i.sheet][i.row], mapping, f))

\* A row with a name and a price under a header, and an item that takes both, the price
\* including VAT where the row has one.
IsPriced(row, mapping) ==
  LET Cell(f) == Under(row, mapping, f)
  IN  /\ mapping # <<>> /\ ~Missing(Cell("description")) /\ ~Cell("description").service
      /\ ~Cell("profile").service
      /\ \E f \in {"price", "price_with_vat"} : ~Missing(Cell(f))

Takes(item, row, mapping) ==
  LET with == Under(row, mapping, "price_with_vat")
  IN  /\ item.name = Under(row, mapping, "description")
      /\ item.price = IF Missing(with) THEN Under(row, mapping, "price") ELSE with

NothingLost(sheets, found) ==
  \A s \in DOMAIN sheets : \A r \in DOMAIN sheets[s] \ {HeaderRow(sheets[s])} :
  \A mapping \in {InForce(sheets, s, r)} :
    IsPriced(sheets[s][r], mapping) =>
      \E i \in Range(found) : i.sheet = s /\ i.row = r /\ Takes(i, sheets[s][r], mapping)

\* The table on the right of a row comes after the one on the left.
Place(i) == <<i.sheet, i.row, IF i.block = "right" THEN 1 ELSE 0>>

\* Nothing of a price list is lost, mixed or read twice: rows come out once and in
\* their order, an item is made of cells of its own row or takes the name of a row
\* above, and where the columns are found no row with a name and a price is left out.
ReadingIsFaithful ==
  IsAnswered("read") =>
    LET found == answer[1]
    IN  /\ \A n \in 1..Len(found)-1 : Ranks(Place(found[n]), Place(found[n+1]))
        /\ \A i \in Range(found) : ComesFrom(task.workbook.sheets, i)
        /\ SelectParser(task.workbook) = "generic" => NothingLost(task.workbook.sheets, found)

\* A query finds what it means.  task.meant is what it was written from: exactly the
\* items of that profile (round bars being one), that grade and with those sizes are
\* found, the exact sizes first and then by their distance.
SearchFindsWhatIsMeant ==
  IsAnswered("search") =>
    LET found == answer[1]
        meant == task.meant
        Fits(item) ==
          /\ meant.profile # None => item.values.profile \in Variants(meant.profile)
          /\ meant.grade # None => GradeKey(item.values.grade) = GradeKey(meant.grade)
          /\ \A i \in DOMAIN meant.sizes : ItemSize(item, i) # None
        Distance(item) == SumOf(Deltas(item, meant.sizes))
    IN  /\ Range(found) = {item \in Range(task.items) : Fits(item)}
        /\ Len(found) = Cardinality(Range(found))
        /\ \A n \in 1..Len(found)-1 : Distance(found[n]) <= Distance(found[n+1])

\* The ids a key may stand for, and whether a confirmed record says that it does.
Names(catalog, key) ==
  {g.id : g \in {h \in catalog.grades : h.key = key}}
  \cup {a.id : a \in {b \in Range(catalog.aliases) : b.key = key /\ b.status # "REJECTED"}}

IsConfirmed(catalog, key, id) ==
  \E r \in catalog.grades \cup Range(catalog.aliases) :
    r.id = id /\ r.key = key /\ r.status = "CONFIRMED"

\* No name that is only proposed, and no rejected grade, stands behind a key.
IsSettled(catalog, key) == \A id \in Names(catalog, key) : IsConfirmed(catalog, key, id)

\* The same grade, a confirmed name of it, or a confirmed equivalent, in the direction
\* asked for, of grades the two keys are confirmed names of.
IsVouchedFor(catalog, wanted, key) ==
  \/ key = wanted
  \/ \E id \in Names(catalog, key) : IsConfirmed(catalog, key, id) /\ IsConfirmed(catalog, wanted, id)
  \/ \E r \in Range(catalog.relations) :
       /\ r.status = "CONFIRMED" /\ r.type = "EQUIVALENT"
       /\ \/ IsConfirmed(catalog, wanted, r.source) /\ IsConfirmed(catalog, key, r.target)
          \/ r.both /\ IsConfirmed(catalog, wanted, r.target) /\ IsConfirmed(catalog, key, r.source)

\* What is known of a grade that came out of a match: the catalogue vouches for it.  An
\* equivalent is also found through a name that is only proposed or a grade that is
\* rejected (OnlyConfirmedMatches), so it is vouched for between settled keys.
IsJustified(catalog, wanted, key, type) ==
  (type = "CONFIRMED_EQUIVALENT" => IsSettled(catalog, wanted) /\ IsSettled(catalog, key))
    => IsVouchedFor(catalog, wanted, key)

\* A result an operator need not look at is one the catalogue vouches for: the sizes are
\* exact and the grade is the same, or a confirmed name of the same grade, or, where no
\* proposed name and no rejected grade is behind either spelling, a confirmed
\* equivalent in the direction asked for.  Sizes that are only near are shown only when
\* no candidate is exact, a result that needs no review is never behind one of the same
\* kind that does, and fuzzy results of the same score are either marked as a tie or of
\* one grade.
MatchesAreJustified ==
  IsAnswered("match") =>
    LET found   == answer[1]
        Near(r) == r.type = "NEAR_DIMENSION"
    IN  /\ \A r \in Range(found) :
             ~r.review => /\ IsExactSize(task.query, r.item) \/ task.query.sizes = <<0, 0, 0>>
                          /\ IsJustified(task.catalog, task.query.grade, r.item.grade, r.type)
        /\ \A r, s \in Range(found) :
             /\ Near(r) => Near(s) /\ ~IsExactSize(task.query, s.item)
             /\ (/\ r.type = "FUZZY" /\ s.type = "FUZZY"
                 /\ r.gradeScore = s.gradeScore /\ r.score = s.score)
                => r.item.grade = s.item.grade \/ (r.tie /\ s.tie)
        /\ \A n \in 2..Len(found) :
             ~(found[n-1].review /\ ~found[n].review /\ found[n-1].type = found[n].type)

\* docs/SEARCH_DATA_FORMAT.md: a proposed record is a candidate for a review by hand
\* only, and a rejected one is left out of the search.  Every result that asks for no
\* review would then be one that confirmed records vouch for.
OnlyConfirmedMatches ==
  IsAnswered("match") =>
    \A r \in Range(answer[1]) :
      ~r.review => IsVouchedFor(task.catalog, task.query.grade, r.item.grade)

\* The amounts of a document add up: the subtotal is the sum of its lines, tax and
\* base are never negative, VAT put on top of a price is the VAT found again inside
\* the total, and VAT taken out of a total is, to a hundredth, the VAT of the rest.
TotalsAddUp ==
  IsAnswered("total") /\ ~IsRefused(task.payload) =>
    LET p == task.payload
        t == answer[1]
    IN  /\ t.subtotal = SumOf(t.lines)
        /\ t.base >= 0 /\ t.vat >= 0 /\ t.vat <= t.grand
        /\ IF p.vatIncluded
           THEN t.vat - HalfUp((t.grand - t.vat) * p.vatRate, 100) \in -1..1
           ELSE /\ t.grand = t.base + t.vat
                /\ t.vat = Vat(t.grand, p.vatRate, TRUE)
=============================================================================
