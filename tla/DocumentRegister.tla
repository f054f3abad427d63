-------------------------- MODULE DocumentRegister --------------------------
(***************************************************************************)
(* What the commercial documents promise: a key has versions 1, 2, 3, ...  *)
(* whose content never changes, a version is a draft until it is rendered, *)
(* and a final version is put into the budget of a deal at most once, with *)
(* the total of its content.                                               *)
(***************************************************************************)
EXTENDS Naturals, Sequences, Functions

CONSTANTS
  Keys,      \* document keys
  Contents,  \* what a version may hold
  TotalOf(_),
  Deals

VARIABLES
  versions,  \* the versions of each key, in order
  budget     \* the budget updates, in order

registerVars == <<versions, budget>>

Draft(c) == [content |-> c, final |-> FALSE]

RegisterInit == versions = [k \in Keys |-> <<>>] /\ budget = <<>>

AddVersion(k, c) ==
  /\ versions' = [versions EXCEPT ![k] = Append(@, Draft(c))]
  /\ UNCHANGED budget

Finalise(k, v) ==
  /\ v \in DOMAIN versions[k]
  /\ versions' = [versions EXCEPT ![k][v].final = TRUE]
  /\ UNCHANGED budget

UpdateBudget(k, v, deal) ==
  /\ v \in DOMAIN versions[k] /\ versions[k][v].final
  /\ \A i \in DOMAIN budget : <<budget[i].key, budget[i].version, budget[i].deal>> # <<k, v, deal>>
  /\ budget' = Append(budget, [key |-> k, version |-> v, deal |-> deal,
                               amount |-> TotalOf(versions[k][v].content)])
  /\ UNCHANGED versions

RegisterNext ==
  \E k \in Keys :
    \/ \E c \in Contents : AddVersion(k, c)
    \/ \E v \in DOMAIN versions[k] : Finalise(k, v) \/ \E deal \in Deals : UpdateBudget(k, v, deal)

RegisterSpec == RegisterInit /\ [][RegisterNext]_registerVars
=============================================================================
