----------------------------- MODULE OfferSearch -----------------------------
(***************************************************************************)
(* The free search over parsed items (src/price_parser/search.py).  A      *)
(* query is a sequence of tokens [text, number, mark, joined]: number is 0 *)
(* for a word; joined is the sign that ties the token to the next one: ""  *)
(* none, "letter" an "x" that touches both, "sign" a "*" or an "x" between *)
(* blanks; mark is what stands at the token:                               *)
(*   "grade"     a word for a grade, "alias" a name of BRB2                *)
(*   "size"      a diameter sign, "unit" millimetres                       *)
(*   "standard"  the number of a standard, or one with a unit that is no   *)
(*               length ("25 kg")                                          *)
(*   "package"   such a number, or a word, in the brackets of a package    *)
(*   "boxes"     another number in such brackets ("(2 boxes)")             *)
(*   "stop"      a preposition; "" nothing                                 *)
(* An item here adds its words, its supplier and its row to its values.    *)
(***************************************************************************)
EXTENDS ItemParsing, FiniteSetsExt

CONSTANTS
  Spelt(_),      \* the words and numbers a grade is written with, as texts
  IsDigits(_),   \* whether a text is a bare number
  Length(_),     \* the letters and digits of a grade
  ProfileOf(_),  \* the profile a word names, or None
  Alike(_, _)    \* two words of which one begins with the other

Gap == [text |-> "", number |-> 0, mark |-> "gap", joined |-> ""]
NoSpan == [grade |-> None, first |-> 1, last |-> 0]

Without(query, first, last) ==
  [i \in DOMAIN query |-> IF i \in first..last THEN Gap ELSE query[i]]

-----------------------------------------------------------------------------
\* A grade stands in a query word by word, with no letter at its ends.
Stands(query, grade, i) ==
  LET last == i + Len(Spelt(grade)) - 1
  IN  /\ last <= Len(query)
      /\ \A j \in i..last : query[j].text = Spelt(grade)[j - i + 1]
      /\ \A j \in i+1..last : query[j].mark # "size" /\ query[j-1].joined = ""
      /\ query[last].joined # "letter"
      /\ i > 1 => query[i-1].joined # "letter"

\* A bare number is no grade of the inventory: it could be a size.
InventoryGrades(items) ==
  {n \in DOMAIN items : /\ items[n].values.grade \notin {None, ASSUMED}
                        /\ ~IsDigits(GradeKey(items[n].values.grade))}

\* Mutant: the first grade of the inventory that stands in the query is taken.
FirstOfAll(items, found) == Min(found)

\* The longest one, so that a grade is not taken for a part of its name.
LongestOf(items, found) ==
  Min({n \in found : \A m \in found : Length(items[m].values.grade) <= Length(items[n].values.grade)})

QueryGrade(query, items) ==
  LET Marked(mark) == {i \in DOMAIN query : query[i].mark = mark}
      At1(i) == [grade |-> NormalizeGrade(query[i].text), first |-> i, last |-> i]
      found == {n \in InventoryGrades(items) :
                  \E i \in DOMAIN query : Stands(query, items[n].values.grade, i)}
      grade == items[LongestOf(items, found)].values.grade
      place == Min({i \in DOMAIN query : Stands(query, grade, i)})
  IN  CASE Marked("grade") # {} -> At1(Min(Marked("grade")))
        [] Marked("grade") = {} /\ Marked("alias") # {} -> At1(Min(Marked("alias")))
        [] Marked("grade") \cup Marked("alias") = {} /\ found # {} ->
             [grade |-> NormalizeGrade(grade), first |-> place, last |-> place + Len(Spelt(grade)) - 1]
        [] OTHER -> NoSpan

\* A block of joined numbers, else a number with a sign, with a unit, else the last
\* number that is neither a standard's nor of another unit.
QuerySizes(query) ==
  LET Number(i)   == i \in DOMAIN query /\ query[i].number # 0
      Joined(i)   == Number(i) /\ query[i].joined # "" /\ Number(i + 1)
      blocks      == {i \in DOMAIN query : Joined(i)}
      Having(marks) == {i \in DOMAIN query : Number(i) /\ query[i].mark \in marks}
      loose        == Having({"", "boxes"})
      Span(i, last) == [sizes |-> [n \in 1..last-i+1 |-> query[i + n - 1].number],
                        first |-> i, last |-> last]
      First(S) == Span(Min(S), Min(S))
      start    == Min(blocks)
  IN  CASE blocks # {} -> Span(start, IF Joined(start + 1) THEN start + 2 ELSE start + 1)
        [] blocks = {} /\ Having({"size"}) # {} -> First(Having({"size"}))
        [] blocks = {} /\ Having({"size"}) = {} /\ Having({"unit"}) # {} -> First(Having({"unit"}))
        [] OTHER -> IF loose = {} THEN [sizes |-> <<>>, first |-> 1, last |-> 0]
                    ELSE Span(Max(loose), Max(loose))

Variants(profile) == IF profile \in RoundBar THEN RoundBar ELSE {profile}

\* What is left of a query is its name; a profile counts if the items have it.
ParseQuery(query, items) ==
  LET grade == QueryGrade(query, items)
      sizes == QuerySizes(Without(query, grade.first, grade.last))
      left  == Without(Without(query, grade.first, grade.last), sizes.first, sizes.last)
      name  == SelectSeq(left, LAMBDA t : t.mark \notin {"gap", "package", "boxes"})
      profile == CanonicalProfile(
                   [names |-> {ProfileOf(t.text) : t \in Range(name)},
                    first |-> IF name = <<>> THEN None ELSE name[1].text])
      known == name # <<>> /\ \E n \in DOMAIN items : items[n].values.profile \in Variants(profile)
  IN  [grade |-> grade.grade, sizes |-> sizes.sizes, named |-> name # <<>>,
       profile |-> IF known THEN profile ELSE None,
       terms |-> {t.text : t \in {u \in Range(name) :
                    /\ u.mark # "stop" /\ u.number = 0
                    /\ ~(known /\ ProfileOf(u.text) = profile)}}]

-----------------------------------------------------------------------------
MatchesName(item, wanted) ==
  wanted.named =>
    /\ wanted.profile # None => item.values.profile \in Variants(wanted.profile)
    /\ wanted.terms = {} => wanted.profile # None
    /\ \A term \in wanted.terms : \E word \in item.words : word = term \/ Alike(word, term)

ItemSize(item, i) == <<item.values.dim1, item.values.dim2, item.values.dim3>>[i]

Deltas(item, sizes) ==
  [i \in DOMAIN sizes |-> IF ItemSize(item, i) < sizes[i] THEN sizes[i] - ItemSize(item, i)
                          ELSE ItemSize(item, i) - sizes[i]]

\* An item without one of the sizes asked for is not listed.
Matches(item, wanted) ==
  /\ MatchesName(item, wanted)
  /\ wanted.grade # None => GradeKey(item.values.grade) = GradeKey(wanted.grade)
  /\ \A i \in DOMAIN wanted.sizes : ItemSize(item, i) # None

IsExact(item, wanted) == \A i \in DOMAIN wanted.sizes : ItemSize(item, i) = wanted.sizes[i]

RankOf(item, wanted) ==
  LET d == Deltas(item, wanted.sizes)
  IN  <<IF IsExact(item, wanted) THEN 0 ELSE 1, FoldLeft(LAMBDA a, b : a + b, 0, d),
        IF d = <<>> THEN 0 ELSE Max(Range(d))>> \o d
      \o <<IF wanted.profile \in {None, item.values.profile} THEN 0 ELSE 1, item.supplier, item.row>>

\* Tokens and items as the classes carry them: numbers are whole here, a size may be absent.
IsFreeSearch(query, items) ==
  /\ query \in Seq(Range(query)) /\ \A i \in DOMAIN query : query[i].number \in Int
  /\ items \in Seq(Range(items))
  /\ \A n \in DOMAIN items :
       /\ \A i \in 1..3 : ItemSize(items[n], i) \in Int \cup {None}
       /\ {items[n].supplier, items[n].row} \subseteq Int

\* The lexicographic order of two sequences of the same length.
Ranks(k, l) == \E n \in DOMAIN k : k[n] < l[n] /\ \A m \in 1..n-1 : k[m] = l[m]

\* The domain of keys, listed by its keys, which all differ.
Ordered(keys) ==
  LET S == DOMAIN keys
  IN  [i \in 1..Cardinality(S) |->
         CHOOSE x \in S : Cardinality({y \in S : Ranks(keys[y], keys[x])}) = i - 1]

\* The places of what is found; items of the same rank keep their order.
FoundPlaces(items, wanted) ==
  Ordered([n \in {m \in DOMAIN items : Matches(items[m], wanted)} |->
             Append(RankOf(items[n], wanted), n)])

SearchItems(query, items) ==
  LET places == FoundPlaces(items, ParseQuery(query, items))
  IN  IF query = <<>> THEN <<>> ELSE [i \in DOMAIN places |-> items[places[i]]]

\* The separate list names a round bar by both its names.
SearchView(found) ==
  FlattenSeq([n \in DOMAIN found |->
    LET Row(p) == [item |-> found[n], profile |-> p, alias |-> p # found[n].values.profile]
        own    == found[n].values.profile
    IN  <<Row(own)>> \o IF own \in RoundBar THEN <<Row(CHOOSE p \in RoundBar : p # own)>> ELSE <<>>])
=============================================================================
