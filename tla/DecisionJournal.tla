--------------------------- MODULE DecisionJournal ---------------------------
(***************************************************************************)
(* What the operator's decision journal promises, whoever writes to it and *)
(* whenever they crash: a decision enters it once, whole, at the end, and  *)
(* linked to the decision on the same offer that it follows; and once a    *)
(* broken write has made it unreadable, it is left alone.  It does not     *)
(* promise to stay readable.                                               *)
(***************************************************************************)
EXTENDS ReviewRecords

VARIABLES
  decisions,
  lost        \* it holds a line that no reader accepts, and nobody is writing it

Init == decisions = <<>> /\ lost = FALSE

Record(k, seen) ==
  /\ ~lost
  /\ k \notin KeysOf(decisions)
  /\ decisions' = Append(decisions,
                         [key      |-> k,
                          reasons  |-> seen,
                          previous |-> PreviousKey(decisions, OfferOf(k))])
  /\ UNCHANGED lost

Lose ==
  /\ ~lost
  /\ lost' = TRUE
  /\ UNCHANGED decisions

Next == Lose \/ \E k \in Keys, seen \in SUBSET Reasons : Record(k, seen)

Spec == Init /\ [][Next]_<<decisions, lost>>
=============================================================================
