--------------------------- MODULE MCOperatorReview ---------------------------
(***************************************************************************)
(* A small instance of OperatorReview: two processes, two offers, a second *)
(* parse that changes the source of one and the reasons of the other, and  *)
(* commands that confirm, defer, change, and repeat each other's offers.   *)
(***************************************************************************)
EXTENDS OperatorReview, TLC

CONSTANTS o1, o2, f1, f2, r1, r2

MCOffers       == {o1, o2}
MCFingerprints == {f1, f2}
MCReasons      == {r1, r2}

Command(offer, action, changes, rule) ==
  [offer |-> offer, action |-> action, note |-> "checked", changes |-> changes, rule |-> rule]

MCCommands ==
  { Command(o1, "ACCEPT_AS_IS", {}, ""),
    Command(o1, "DEFER", {}, ""),
    Command(o1, "UPDATE_FIELDS", {"profile"}, ""),     \* refused: no rule
    Command(o2, "UPDATE_FIELDS", {"profile"}, "DISK"),
    Command(o2, "UPDATE_FIELDS", {"id"}, "DISK") }     \* refused: not a permitted field

Row(fp, reasons) == [fp |-> fp, reasons |-> reasons]

FirstParse  == (o1 :> Row(f1, {r1})) @@ (o2 :> Row(f1, {r1}))
SecondParse == (o1 :> Row(f2, {r1})) @@ (o2 :> Row(f1, {r1, r2}))
ThirdParse  == (o1 :> Row(f1, {}))   @@ (o2 :> None)

MCParses == {FirstParse, SecondParse, ThirdParse}
=============================================================================
