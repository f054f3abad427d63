------------------------- MODULE MCReviewApplication -------------------------
(***************************************************************************)
(* A small instance of ReviewApplication: one process records, one applies, *)
(* and the later parses add a reason to one row, change its source, and    *)
(* remove the other.                                                       *)
(***************************************************************************)
EXTENDS ReviewApplication, TLC

CONSTANTS o1, o2, f1, f2, r1, r2

MCOffers       == {o1, o2}
MCFingerprints == {f1, f2}
MCReasons      == {r1, r2}

Command(offer, action, changes, rule) ==
  [offer |-> offer, action |-> action, note |-> "checked", changes |-> changes, rule |-> rule]

MCCommands ==
  { Command(o1, "ACCEPT_AS_IS", {}, ""),
    Command(o1, "DEFER", {}, ""),
    Command(o2, "UPDATE_FIELDS", {"profile"}, "DISK") }

Row(fp, reasons) == [fp |-> fp, reasons |-> reasons]

FirstParse  == (o1 :> Row(f1, {r1}))     @@ (o2 :> Row(f1, {r1}))
SecondParse == (o1 :> Row(f1, {r1, r2})) @@ (o2 :> None)
ThirdParse  == (o1 :> Row(f2, {}))       @@ (o2 :> None)

MCParses == {FirstParse, SecondParse, ThirdParse}
=============================================================================
