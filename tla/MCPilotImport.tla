---------------------------- MODULE MCPilotImport ----------------------------
(***************************************************************************)
(* A small instance of PilotImport: two imports at a time under three keys, *)
(* and reports that share rows, repeat one, contradict one another and name *)
(* an offer that is not there.                                             *)
(***************************************************************************)
EXTENDS PilotImport

CONSTANTS o1, o2, p1, p2

MCOffers == {o1, o2}
MCParsed == {p1, p2}

Row(o, p) == [offer |-> o, parsed |-> p]

MCReports ==
  { [rows |-> <<Row(o1, p1), Row(o1, p1)>>, review |-> {o1}, reference |-> {}],
    [rows |-> <<Row(o1, p1), Row(o2, p1)>>, review |-> {o1}, reference |-> {o2}],
    [rows |-> <<Row(o2, p2)>>,              review |-> {o1}, reference |-> {}] }
=============================================================================
