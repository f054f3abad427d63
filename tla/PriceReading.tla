---------------------------- MODULE PriceReading ----------------------------
(***************************************************************************)
(* From a workbook to the rows of a price list (src/price_parser/parser.py *)
(* and suppliers/).  A workbook: [file, marks, sheets], where marks are    *)
(* the suppliers whose words its first rows hold; a sheet is a sequence of *)
(* rows, a row a sequence of cells.  A cell is a record of what is         *)
(* recognised in its text:                                                 *)
(*   text        the text without outer spaces; None if it is blank or 0   *)
(*   number      whether it is a number; zero: the number 0; unit: a text  *)
(*               with a number and a unit                                  *)
(*   size        it begins like a size; expression: it is one              *)
(*   service     it begins like a total, a title or a numbered heading     *)
(*   total       it is the one word for a total                            *)
(*   note        it is about delivery or how to order                      *)
(*   profile     the profile its words name, or None                       *)
(*   heads, vat  the columns its words may head, and "with" or "without"   *)
(*   words, length                                                         *)
(***************************************************************************)
EXTENDS Naturals, Sequences, SequencesExt, FiniteSetsExt

CONSTANTS
  Blank,       \* a cell without text
  HeaderRows   \* the rows searched for a header: 500

\* Nothing is recognised in a cell without text.
ASSUME BlankAssumption ==
  {"text", "size", "service"} \subseteq DOMAIN Blank /\ ~Blank.size /\ ~Blank.service

Missing(cell) == cell.text = Blank.text

IsRow(row) ==
  row \in Seq({c \in Range(row) : c.length \in Nat /\ (Missing(c) => ~c.size)})

Column(row, n) == IF n \in DOMAIN row THEN row[n] ELSE Blank

Under(row, mapping, field) ==
  IF field \in DOMAIN mapping THEN Column(row, mapping[field]) ELSE Blank

Present(cells) == {n \in DOMAIN cells : ~Missing(cells[n])}

\* A title or a total, unless numbers stand beside several words.
IsServiceLine(cells, numeric) ==
  LET parts == Present(cells)
      first == cells[Min(parts)]
  IN  \/ parts = {}
      \/ /\ first.service
         /\ ~(numeric /\ (Cardinality(parts) > 1 \/ first.words > 1))

-----------------------------------------------------------------------------
FieldOrder == <<"description", "grade", "profile", "dim_primary", "dimensions", "availability", "price">>

PriceField(cell) ==
  CASE "price" \notin cell.heads -> "none"
    [] "price" \in cell.heads /\ cell.vat = "without" -> "price_without_vat"
    [] "price" \in cell.heads /\ cell.vat = "with"    -> "price_with_vat"
    [] OTHER -> "none"

\* The column a cell heads, given those already found in its row.
Heads(cell, mapping) ==
  LET i == SelectInSeq(FieldOrder, LAMBDA f :
             f \in cell.heads \ DOMAIN mapping /\ ~(f = "price" /\ PriceField(cell) # "none"))
      free == PriceField(cell) \notin DOMAIN mapping \cup {"none"}
  IN  CASE free           -> PriceField(cell)
        [] ~free /\ i > 0 -> FieldOrder[i]
        [] OTHER          -> "none"

HeaderMapping(row) ==
  FoldLeft(LAMBDA mapping, n :
             LET field == Heads(row[n], mapping)
             IN  IF field = "none" THEN mapping
                 ELSE [f \in DOMAIN mapping \cup {field} |-> IF f = field THEN n ELSE mapping[f]],
           <<>>, [n \in DOMAIN row |-> n])

HeaderScore(mapping) ==
  Cardinality(DOMAIN mapping) + IF "description" \in DOMAIN mapping THEN 1 ELSE 0

\* The first row with the best score, if it heads a description; 0 if there is none.
HeaderRow(sheet) ==
  LET rows == {r \in DOMAIN sheet : r <= HeaderRows}
      Points(r) == HeaderScore(HeaderMapping(sheet[r]))
  IN  Max({0} \cup {r \in rows : /\ "description" \in DOMAIN HeaderMapping(sheet[r])
                                 /\ \A q \in rows : IF q < r THEN Points(q) < Points(r)
                                                    ELSE Points(q) <= Points(r)})

-----------------------------------------------------------------------------
\* The price with VAT, else the price of which it is not said, else without.
SelectPrice(row, mapping) ==
  LET prices == <<Under(row, mapping, "price_with_vat"), Under(row, mapping, "price"),
                  Under(row, mapping, "price_without_vat")>>
  IN  IF Present(prices) = {} THEN Blank ELSE prices[Min(Present(prices))]

\* The columns of row r.  A size in the column of the profile shows that a block
\* is shifted: the profile is taken from the name, the stock from the fifth column.
Columns(row, r, mapping) ==
  LET C(field) == Under(row, mapping, field)
      shifted  == C("profile").size
      named    == C("description").profile
      fifth    == Column(row, 5)
  IN  [row     |-> r,
       name    |-> C("description"),
       primary |-> IF shifted THEN C("profile") ELSE C("dim_primary"),
       sizes   |-> IF shifted /\ ~C("dimensions").expression THEN Blank ELSE C("dimensions"),
       stock   |-> IF shifted /\ Missing(C("availability")) /\ ~Missing(fifth) THEN fifth
                   ELSE C("availability"),
       price   |-> SelectPrice(row, mapping),
       grade   |-> C("grade"),
       shown   |-> IF shifted THEN [Blank EXCEPT !.text = named] ELSE C("profile")]

Evidence(c) == Present(<<c.shown, c.primary, c.sizes, c.stock, c.price>>) # {}

\* Mutant: a row without a name takes the last one whatever else it holds.
NameOfAnyRow(c, last) == IF Missing(c.name) THEN last ELSE c.name

\* A row without a name of its own continues the last one, if it holds a product.
NameOf(c, last) ==
  CASE ~Missing(c.name)                -> c.name
    [] Missing(c.name) /\ Evidence(c)  -> last
    [] OTHER                           -> Blank

IsProduct(c, name) ==
  LET numeric == Present(<<c.stock, c.price, c.primary, c.sizes>>) # {}
  IN  /\ ~(~numeric /\ (name.note \/ c.shown.note))
      /\ ~IsServiceLine(<<c.shown, name, c.primary, c.sizes>>, numeric)
      /\ ~Missing(name)

Item(sheet, r, block, name, stock, price) ==
  [sheet |-> sheet, row |-> r, block |-> block, name |-> name, stock |-> stock, price |-> price]

\* The last name read, and the items, after a row.
ReadRow(sheet, state, c) ==
  LET name == NameOf(c, state.last)
  IN  [last  |-> IF Missing(c.name) THEN state.last ELSE c.name,
       items |-> IF IsProduct(c, name)
                 THEN Append(state.items, Item(sheet, c.row, "", name, c.stock, c.price))
                 ELSE state.items]

\* The rows from first to last of a sheet, read under one header.
MappedRows(sheet, rows, first, last, mapping) ==
  FoldLeft(LAMBDA state, c : ReadRow(sheet, state, c), [last |-> Blank, items |-> <<>>],
           [n \in 1..(last + 1 - first) |-> Columns(rows[first + n - 1], first + n - 1, mapping)]).items

\* Without any header: the longest text is the name, the first number the stock, the
\* last of several the price.
TextRows(sheet, rows) ==
  LET Numbers(row) == {n \in DOMAIN row : row[n].number \/ row[n].unit}
      Texts(row)   == {n \in DOMAIN row : ~Missing(row[n]) /\ ~row[n].number}
      Longest(row) == Min({n \in Texts(row) : \A m \in Texts(row) : row[m].length <= row[n].length})
      Kept(row)    == /\ Texts(row) # {}
                      /\ ~IsServiceLine(<<row[Longest(row)]>>, Numbers(row) # {})
                      /\ row[Longest(row)].length >= 4
      Stock(row)   == IF Numbers(row) = {} THEN Blank ELSE row[Min(Numbers(row))]
      Price(row)   == IF Cardinality(Numbers(row)) < 2 THEN Blank ELSE row[Max(Numbers(row))]
      Read(row, r) == Item(sheet, r, "", row[Longest(row)], Stock(row), Price(row))
  IN  FlattenSeq([r \in DOMAIN rows |-> IF Kept(rows[r]) THEN <<Read(rows[r], r)>> ELSE <<>>])

\* A header holds for its sheet below it and for the sheets after it; above a header
\* the one before it holds.
ReadSheet(state, sheet) ==
  LET n     == sheet.number
      own   == HeaderMapping(sheet.rows[sheet.header])
      known == state.mapping # <<>>
      above == IF known THEN MappedRows(n, sheet.rows, 1, sheet.header - 1, state.mapping) ELSE <<>>
  IN  CASE sheet.header > 0 ->
             [mapping |-> own,
              items   |-> state.items \o above
                          \o MappedRows(n, sheet.rows, sheet.header + 1, Len(sheet.rows), own)]
        [] sheet.header = 0 /\ known ->
             [state EXCEPT !.items = @ \o MappedRows(n, sheet.rows, 1, Len(sheet.rows), state.mapping)]
        [] OTHER -> [state EXCEPT !.items = @ \o TextRows(n, sheet.rows)]

GenericRows(sheets) ==
  FoldLeft(ReadSheet, [mapping |-> <<>>, items |-> <<>>],
           [n \in DOMAIN sheets |->
              [number |-> n, rows |-> sheets[n], header |-> HeaderRow(sheets[n])]]).items

-----------------------------------------------------------------------------
\* The suppliers whose layout is known; they read the first sheet only.
Below(skipped, read) ==
  FlattenSeq([r \in DOMAIN read |-> IF r <= skipped THEN <<>> ELSE read[r]])

\* Two tables side by side.
AlphaBlock(row, r, block, n) ==
  LET name == Column(row, n) stock == Column(row, n + 1) price == Column(row, n + 2)
      numeric == Present(<<stock, price>>) # {}
  IN  IF numeric /\ ~IsServiceLine(<<name>>, numeric)
      THEN <<Item(1, r, block, name, stock, price)>> ELSE <<>>

AlphaRow(row, r) == AlphaBlock(row, r, "left", 1) \o AlphaBlock(row, r, "right", 5)

BetaRow(row, r) ==
  LET name == Column(row, 2)
      numeric == \E n \in 3..5 : Column(row, n).number
  IN  IF numeric /\ ~IsServiceLine(<<name>>, numeric)
      THEN <<Item(1, r, "", name, Column(row, 5), Blank)>> ELSE <<>>

\* What is in production counts as the stock where there is none.
GammaStock(row) ==
  LET stock == Column(row, 4) made == Column(row, 6)
  IN  IF made.number /\ ~made.zero /\ ~(stock.number /\ ~stock.zero) THEN made
      ELSE IF stock.number THEN stock ELSE Blank

GammaRow(row, r) ==
  LET name == Column(row, 3)
  IN  IF /\ ~Missing(name) /\ ~name.total
         /\ ~Missing(Column(row, 2)) \/ Column(row, 4).number \/ Column(row, 6).number
      THEN <<Item(1, r, "", name, GammaStock(row), Blank)>> ELSE <<>>

\* The first parser that knows the file by its name or by its first rows.
Parsers == <<"beta", "alpha", "gamma">>

SelectParser(workbook) ==
  LET i == SelectInSeq(Parsers, LAMBDA p : workbook.file = p \/ p \in workbook.marks)
  IN  IF i = 0 THEN "generic" ELSE Parsers[i]

Extract(workbook) ==
  LET first == workbook.sheets[1]
  IN  CASE SelectParser(workbook) = "beta"  -> Below(0, [r \in DOMAIN first |-> BetaRow(first[r], r)])
        [] SelectParser(workbook) = "alpha" -> Below(5, [r \in DOMAIN first |-> AlphaRow(first[r], r)])
        [] SelectParser(workbook) = "gamma" -> Below(8, [r \in DOMAIN first |-> GammaRow(first[r], r)])
        [] OTHER -> GenericRows(workbook.sheets)

\* A workbook as load_workbook gives it: it has a sheet, and what begins like a size is
\* a text.
IsWorkbook(workbook) ==
  LET sheets == workbook.sheets
  IN  /\ sheets \in Seq(Range(sheets)) /\ sheets # <<>>
      /\ \A s \in DOMAIN sheets : /\ sheets[s] \in Seq(Range(sheets[s]))
                                 /\ \A r \in DOMAIN sheets[s] : IsRow(sheets[s][r])
=============================================================================
