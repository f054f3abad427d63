-------------------------- MODULE MCPersistedReview --------------------------
(***************************************************************************)
(* A small instance of PersistedReview: one offer with several decisions   *)
(* that change different fields or defer, and another with one.            *)
(***************************************************************************)
EXTENDS PersistedOverlap, TLC

CONSTANTS o1, o2

MCOffers == {o1, o2}

Command(o, action, changes, rule) ==
  [offer |-> o, action |-> action, note |-> "checked", changes |-> changes, rule |-> rule]

MCCommands ==
  { Command(o1, "UPDATE_FIELDS", {"profile"}, "DISK"),
    Command(o1, "UPDATE_FIELDS", {"grade"}, "GRADE"),
    Command(o1, "DEFER", {}, ""),
    Command(o1, "UPDATE_FIELDS", {"dim1_role"}, "ROLE"),   \* refused: not permitted here
    Command(o2, "ACCEPT_AS_IS", {}, "") }

\* Requests are alike, and so are those who ask for them.
MCSymmetry == Permutations(Sessions) \cup Permutations(Operators)
=============================================================================
