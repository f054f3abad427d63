---------------------------- MODULE ProfileQuery ----------------------------
(***************************************************************************)
(* The profile an operator types, and the rows it selects (src/            *)
(* price_parser/interactive_run.py: resolve_profile_query,                 *)
(* damerau_levenshtein, build_output_rows).  Words are sequences of        *)
(* letters, already normalised.                                            *)
(***************************************************************************)
EXTENDS Naturals, Sequences, SequencesExt, Functions, FiniteSets, FiniteSetsExt

CONSTANTS
  Words,        \* the profiles a run may find
  Spelling(_),  \* the letters of a profile
  Queries       \* the words an operator may type

\* The matrix of the optimal string alignment.
Distance(left, right) ==
  LET d[i \in 0..Len(left), j \in 0..Len(right)] ==
        CASE i = 0 -> j
          [] j = 0 -> i
          [] OTHER ->
               LET cost    == IF left[i] = right[j] THEN 0 ELSE 1
                   edits   == {d[i-1, j] + 1, d[i, j-1] + 1, d[i-1, j-1] + cost}
                   swapped == i > 1 /\ j > 1 /\ left[i] = right[j-1] /\ left[i-1] = right[j]
               IN  Min(edits \cup IF swapped THEN {d[i-2, j-2] + 1} ELSE {})
  IN  d[Len(left), Len(right)]

\* A table, so that a checker computes each distance once.
DistanceTo == [query \in Queries, p \in Words |-> Distance(query, Spelling(p))]

IsNear(query, p) ==
  \/ DistanceTo[query, p] <= 1
  \/ DistanceTo[query, p] = 2 /\ Max({Len(query), Len(Spelling(p))}) >= 9

-----------------------------------------------------------------------------
RoundBars == {"KRUG", "PRUTOK"}

\* Either round bar makes both words known.
KnownWords(profiles) == profiles \cup IF profiles \cap RoundBars = {} THEN {} ELSE RoundBars

Group(profile) == IF profile \in RoundBars THEN RoundBars ELSE {profile}

Nearest(profiles, query) ==
  LET near == {p \in KnownWords(profiles) : IsNear(query, p)}
  IN  {p \in near : \A q \in near : DistanceTo[query, p] <= DistanceTo[query, q]}

Resolution(status, matched) == [status |-> status, matched |-> matched]

\* The profiles found in the run and the word typed; matched holds the profile meant
\* and, for a round bar, its other name.
Resolve(profiles, query) ==
  LET exact == {p \in KnownWords(profiles) : Spelling(p) = query}
      near  == Nearest(profiles, query)
  IN  CASE query = <<>> -> Resolution("ALL", {})
        [] query # <<>> /\ exact # {} -> Resolution("EXACT", UNION {Group(p) : p \in exact})
        [] query # <<>> /\ exact = {} /\ Cardinality(near) = 1 ->
             Resolution("CORRECTED", UNION {Group(p) : p \in near})
        [] OTHER -> Resolution("NOT_FOUND", {})

-----------------------------------------------------------------------------
\* A round bar is listed under both names, with a note on the one it does not have.
RowsOf(item, status) ==
  IF status # "ALL" /\ item.values.profile \in RoundBars
  THEN {[item |-> item, label |-> p, isAlias |-> p # item.values.profile] : p \in RoundBars}
  ELSE {[item |-> item, label |-> item.values.profile, isAlias |-> FALSE]}

OutputRows(items, resolution) ==
  UNION {RowsOf(items[n], resolution.status) :
           n \in {m \in DOMAIN items : \/ resolution.status = "ALL"
                                       \/ items[m].values.profile \in resolution.matched}}
=============================================================================
