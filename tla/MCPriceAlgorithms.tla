-------------------------- MODULE MCPriceAlgorithms --------------------------
(***************************************************************************)
(* PriceAlgorithms for TLC: small workbooks, inventories, catalogues and   *)
(* payloads that put every rule to work.                                   *)
(***************************************************************************)
EXTENDS PriceAlgorithms, TLC

\* Workbooks: a first sheet with a header, or with none, rows of every kind below and
\* above it, and a second sheet with another header, or with none.
MCBlank == [text |-> None, number |-> FALSE, unit |-> FALSE, zero |-> FALSE, size |-> FALSE,
            expression |-> FALSE, service |-> FALSE, total |-> FALSE, note |-> FALSE, profile |-> None,
            heads |-> {}, vat |-> None, words |-> 0, length |-> 0]

Text(t)  == [MCBlank EXCEPT !.text = t, !.words = 1, !.length = 5]
Num(t)   == [Text(t) EXCEPT !.number = TRUE, !.length = 1]
Zero     == [MCBlank EXCEPT !.number = TRUE, !.zero = TRUE]
Head1(f) == [Text(f) EXCEPT !.heads = {f}]
VatHead(t, v) == [Text(t) EXCEPT !.heads = {"price"}, !.vat = v]
Bar(t)   == [Text(t) EXCEPT !.profile = "PRUTOK"]
Size(t)  == [Text(t) EXCEPT !.size = TRUE, !.expression = TRUE]

Header == <<Head1("description"), Head1("profile"), Head1("dim_primary"), Head1("availability"),
            VatHead("price, no VAT", "without"), VatHead("price, VAT", "with")>>
Short  == <<Head1("price"), Head1("description")>>

ProductRows ==
  {<<Bar("bar M1"), Text("KRUG"), Num("20"), Num("100"), Num("900"), Num("990")>>,
   <<MCBlank, MCBlank, Num("25"), Num("50"), Num("870"), Zero>>,
   <<MCBlank, MCBlank, Zero, Zero, MCBlank, MCBlank, Text("remark")>>,
   <<Bar("bar L63"), Size("30"), Text("10 kg"), Zero, Num("7"), Num("650")>>,
   <<[Text("total") EXCEPT !.service = TRUE, !.total = TRUE], MCBlank, MCBlank, MCBlank, Num("500")>>,
   <<[Text("delivery") EXCEPT !.note = TRUE]>>,
   <<Num("5"), Text("sheet 5")>>}

Sheets ==
  {<<Header, r, q>> : r, q \in ProductRows} \cup {<<r, q>> : r, q \in ProductRows}
  \cup {<<r, Short, <<Num("88"), Text("sheet M1")>>, q>> : r, q \in ProductRows}
  \cup {<<>>}

Supplier(n, row) == [r \in 1..n |-> row]

Workbooks ==
  {[file |-> "new", marks |-> {}, sheets |-> <<s, t>>] : s \in {<<Header, r>> : r \in ProductRows}, t \in Sheets}
  \cup {[file |-> "new", marks |-> {}, sheets |-> <<s>>] : s \in Sheets}
  \cup {[file |-> "new", marks |-> m, sheets |-> <<Supplier(10, r), <<Header, r>> >>] :
          m \in {{"alpha", "beta"}, {"alpha"}, {"gamma"}},
          r \in ProductRows \cup {<<Text("shop"), Text("M1"), name, Zero, Text("sheet"), Num("40")>> :
                                name \in {Text("bar"), [Text("total") EXCEPT !.service = TRUE, !.total = TRUE],
                                         [Text("title") EXCEPT !.service = TRUE]}}}

-----------------------------------------------------------------------------
\* An inventory in which grades contain each other and one is a bare number, and two
\* items of different sheets stand in one row.
MCNormalGrade(g) == IF g = "C17200" THEN "BRB2" ELSE g
MCGradeKey(g)    == g
MCSpelt(g)       == IF g = "AMG 3" THEN <<"AMG", "3">> ELSE <<g>>
MCIsDigits(k)    == k = "20"
MCLength(g)      == IF g = "AMG 3" THEN 4 ELSE 3
MCProfileOf(w)   == IF w \in KnownProfiles THEN w ELSE None
MCAlike(v, w)    == FALSE

Goods(profile, grade, sizes, row) ==
  [values |-> [profile |-> profile, grade |-> grade, material |-> None,
               dim1 |-> sizes[1], dim2 |-> sizes[2], dim3 |-> sizes[3]],
   words |-> {profile, grade}, supplier |-> row % 2, row |-> row]

Inventory ==
  << Goods("KRUG", "AMG", <<20, None, None>>, 1),
     Goods("PRUTOK", "AMG 3", <<20, 3, None>>, 2),
     Goods("PRUTOK", "AMG", <<24, 3, None>>, 3),
     Goods("TRUBA", "20", <<20, 3, None>>, 4),
     Goods("TRUBA", "BRB2", <<57, 4, 6>>, 5),
     Goods("LIST", ASSUMED, <<3, None, None>>, 6),
     Goods("KRUG", "AMG", <<16, 5, None>>, 3) >>

Token(text, number, mark, joined) == [text |-> text, number |-> number, mark |-> mark, joined |-> joined]
Word(text, mark) == Token(text, 0, mark, "")
Digits(n) == CASE n = 3 -> "3" [] n = 4 -> "4" [] n = 20 -> "20" [] n = 22 -> "22" [] OTHER -> "57"

Wanted(p) == IF p = None THEN <<>> ELSE <<Word("for", "stop"), Word(p, "")>>
Named(p)  == IF p = None THEN <<>> ELSE <<Word(p, "")>>
Graded(g) ==
  CASE g = None     -> <<>>
    [] g = "20"     -> <<Token("20", 20, "grade", "")>>
    [] g = "BRB2"   -> <<Word("C17200", "alias")>>
    [] g = "AMG 3"  -> <<Word("AMG", ""), Token("3", 3, "", "")>>
    [] OTHER        -> <<Word(g, "")>>
Sized(sizes, mark) ==
  [i \in DOMAIN sizes |-> Token(Digits(sizes[i]), sizes[i], mark, IF i < Len(sizes) THEN "letter" ELSE "")]
Packed == <<Token("25", 25, "package", "")>>
Boxed  == <<Token("2", 2, "boxes", ""), Word("boxes", "package")>>

\* A sign ties AMG 3 to the sizes behind it; a letter would make its 3 one of them.
Tied(sizes, join) == <<Word("AMG", ""), Token("3", 3, "", join)>> \o Sized(sizes, "")

Meant == [profile : {None, "KRUG", "TRUBA", "LIST"}, grade : {None, "AMG", "AMG 3", "20", "BRB2"},
          sizes : {<<>>, <<20>>, <<3>>, <<22>>, <<20, 3>>, <<3, 20>>, <<57, 4, 6>>}]

\* A size behind the grade has a diameter sign: "AMG" and 3 would be AMG 3.  A count of
\* boxes, which the program can take for a size, stands behind one that is marked.
Written(m) ==
  {Named(m.profile) \o Graded(m.grade) \o Sized(m.sizes, "size")}
  \cup {Sized(m.sizes, mark) \o Wanted(m.profile) \o Graded(m.grade) \o Packed :
          mark \in {"size", "unit", ""}}
  \cup (IF m.grade = "AMG 3" /\ m.sizes # <<>> THEN {Named(m.profile) \o Tied(m.sizes, "sign")} ELSE {})
  \cup (IF m.grade = "AMG" /\ m.sizes = <<3, 20>> THEN {Named(m.profile) \o Tied(<<20>>, "letter")} ELSE {})
  \cup (IF m.sizes # <<>> THEN {Named(m.profile) \o Graded(m.grade) \o Sized(m.sizes, "size") \o Boxed} ELSE {})

Searches ==
  UNION {{[kind |-> "search", items |-> Inventory, query |-> q, meant |-> m] : q \in Written(m)} :
           m \in {n \in Meant : n # [profile |-> None, grade |-> None, sizes |-> <<>>]}}

-----------------------------------------------------------------------------
\* Every pair of statuses of an alias and of a relation, with and without its reverse.
MCSimilarity(k, l) ==
  CASE k = l -> 100 [] {k, l} = {"M1", "M2"} -> 90 [] {k, l} = {"M1", "M3"} -> 90
    [] {k, l} = {"L63", "L68"} -> 85 [] OTHER -> 10

Statuses == {"CONFIRMED", "PROPOSED", "REJECTED"}

Catalogs ==
  {[grades |-> {[id |-> "cu", key |-> "M1", status |-> g], [id |-> "br", key |-> "L63", status |-> "CONFIRMED"],
                [id |-> "x", key |-> "L68", status |-> "REJECTED"]},
    aliases |-> <<[key |-> "CW", id |-> "cu", status |-> a], [key |-> "CW", id |-> id, status |-> b]>>,
    relations |-> <<[source |-> "cu", target |-> "br", type |-> "EQUIVALENT", status |-> s, both |-> FALSE],
                    [source |-> "br", target |-> "cu", type |-> t, status |-> "CONFIRMED", both |-> both]>>,
    rules |-> rules] :
      id \in {"cu", "br"}, g \in {"CONFIRMED", "REJECTED"}, a, b, s \in Statuses, t \in {"EQUIVALENT", "APPROXIMATE"},
      both \in BOOLEAN, rules \in {{}, {[profile |-> "KRUG", limits |-> <<2, -1, 0>>, status |-> "CONFIRMED"]}}}

Offer(id, profile, grade, sizes, unit) ==
  [id |-> id, supplier |-> 1, profile |-> profile, grade |-> grade, sizes |-> sizes, units |-> <<unit, "", "">>]

Stock ==
  { Offer(1, "KRUG", "M1", <<20, 0, 0>>, "mm"), Offer(2, "PRUTOK", "M2", <<21, 0, 0>>, "mm"),
    Offer(3, "KRUG", "L63", <<20, 0, 0>>, "in"), Offer(4, "KRUG", "CW", <<22, 5, 0>>, ""),
    Offer(5, "KRUG", "M3", <<21, 0, 0>>, "mm"), Offer(6, "TRUBA", "M1", <<20, 0, 0>>, "mm"),
    Offer(7, "KRUG", "L68", <<30, 5, 0>>, "mm") }

Options(limit) == [limit |-> limit, threshold |-> 82, fuzzy |-> TRUE, proposed |-> TRUE, unconfigured |-> TRUE]

MatchTasks ==
  {[kind |-> "match", catalog |-> c, options |-> o, items |-> Stock,
    query |-> [profile |-> "KRUG", grade |-> g, sizes |-> s, units |-> <<"mm", "", "">>]] :
      c \in Catalogs,
      g \in {"M1", "L63", "CW"}, s \in {<<0, 0, 0>>, <<20, 0, 0>>, <<22, 6, 0>>, <<23, 0, 0>>},
      o \in {Options(2), [Options(20) EXCEPT !.proposed = FALSE, !.unconfigured = FALSE]}}

-----------------------------------------------------------------------------
Line(q, price, markup) == [quantity |-> q, price |-> price, markup |-> markup]

Payloads ==
  [items : {<<>>} \cup {<<Line(q, c, m)>> : q \in {4, 1005, 3333}, c \in {0, 995, 12345}, m \in {-101, -100, 0, 33}}
           \cup {<<Line(1005, c, 15), Line(3333, d, -5)>> : c, d \in {5, 995, 7777}},
   vatRate : {0, 1, 10, 20, 99, 100, 101}, vatIncluded : BOOLEAN,
   discount : {0, 15, 9945}, delivery : {-5, -4, 0, 5555}]

MCTasks ==
  {[kind |-> "read", workbook |-> w] : w \in Workbooks}
  \cup Searches \cup MatchTasks
  \cup {[kind |-> "total", payload |-> p] : p \in Payloads}
=============================================================================
