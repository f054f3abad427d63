----------------------------- MODULE MCDocuments -----------------------------
(***************************************************************************)
(* Documents for TLC: two calls at work on one key, two payloads with      *)
(* different totals and one whose discount is refused.                     *)
(***************************************************************************)
EXTENDS Documents, TLC

CONSTANTS s1, s2

Item == [quantity |-> 15000, price |-> 10050, markup |-> 20]

MCPayloads ==
  { [items |-> <<Item>>, delivery |-> delivery, discount |-> discount,
     vatRate |-> 20, vatIncluded |-> FALSE] :
       delivery \in {10000, 11000}, discount \in {0} } \cup
  { [items |-> <<Item>>, delivery |-> 0, discount |-> 9999990,
     vatRate |-> 20, vatIncluded |-> FALSE] }

MCSessions == {s1, s2}

Symmetry == Permutations(MCSessions)
=============================================================================
