--------------------------- MODULE DocumentTotals ---------------------------
(***************************************************************************)
(* The totals of a quote or an invoice (src/price_parser/documents/        *)
(* service.py: calculate_document).  Amounts and quantities are whole      *)
(* hundredths, the inputs whole thousandths before _money rounds them, and *)
(* the rates whole percents; Decimal computes exactly within these sizes.  *)
(***************************************************************************)
EXTENDS Integers, Sequences, SequencesExt

\* ROUND_HALF_UP of n / d to a whole: a half goes away from zero.
HalfUp(n, d) == IF n < 0 THEN -((2 * (-n) + d) \div (2 * d)) ELSE (2 * n + d) \div (2 * d)

Money(thousandths) == HalfUp(thousandths, 10)

\* Mutant: VAT that is part of the prices is computed as if it came on top.
VatOnTop(base, rate, included) == HalfUp(base * rate, 100)

SalePrice(item) == HalfUp(Money(item.price) * (100 + item.markup), 100)
LineTotal(item) == HalfUp(Money(item.quantity) * SalePrice(item), 100)

Subtotal(p) == FoldLeft(LAMBDA sum, item : sum + LineTotal(item), 0, p.items)

TaxableBase(p) == Subtotal(p) - Money(p.discount) + Money(p.delivery)

Vat(base, rate, included) ==
  IF included THEN HalfUp(base * rate, 100 + rate) ELSE HalfUp(base * rate, 100)

\* Numbers as Decimal reads them; what cannot be read so is refused before.
IsPayload(p) ==
  /\ p.items \in Seq(Range(p.items))
  /\ \A i \in DOMAIN p.items :
       {p.items[i].quantity, p.items[i].price, p.items[i].markup} \subseteq Int
  /\ {p.discount, p.delivery, p.vatRate} \subseteq Int
  /\ p.vatIncluded \in BOOLEAN

\* What raises DocumentError.
IsRefused(p) ==
  \/ p.items = <<>>
  \/ p.vatRate \notin 0..100
  \/ Money(p.delivery) < 0 \/ Money(p.discount) < 0
  \/ \E i \in DOMAIN p.items :
        \/ Money(p.items[i].quantity) <= 0
        \/ Money(p.items[i].price) < 0
        \/ p.items[i].markup < -100
  \/ Money(p.discount) > Subtotal(p)

Calculate(p) ==
  LET base == TaxableBase(p)
      vat  == Vat(base, p.vatRate, p.vatIncluded)
  IN  [lines    |-> [i \in DOMAIN p.items |-> LineTotal(p.items[i])],
       subtotal |-> Subtotal(p), base |-> base, vat |-> vat,
       grand    |-> IF p.vatIncluded THEN base ELSE base + vat]
=============================================================================
