-------------------------- MODULE PersistedOverlap ---------------------------
(***************************************************************************)
(* PersistedReview with a history variable: the offers on which two        *)
(* requests were ever in progress at the same time.  Nothing in the        *)
(* program keeps requests on an offer apart; what follows is what holds of *)
(* the offers on which they happened to be, however the requests on other  *)
(* offers interleave, and whatever requests are sent again or cut off.     *)
(* Each of these properties is lost when two requests on an offer overlap. *)
(***************************************************************************)
EXTENDS PersistedReview

VARIABLE overlapped

\* The offers on which two requests are in progress.
Together ==
  {o \in Offers : \E s, t \in Sessions :
     /\ s # t /\ pc[s] # "idle" /\ pc[t] # "idle"
     /\ req[s].offer = o /\ req[t].offer = o}

OverlapInit == Init /\ overlapped = {}

OverlapNext == Next /\ overlapped' = overlapped \cup Together'

overlapVars == <<vars, overlapped>>

OverlapSpec == OverlapInit /\ [][OverlapNext]_overlapVars

-----------------------------------------------------------------------------
\* The three places a field is kept in agree: the columns, their copy in payload_json
\* and nomenclature_key, which apply_review_decision writes each on its own.
RowIsConsistent ==
  \A o \in Offers \ overlapped :
    /\ offer[o].payload = offer[o].columns
    /\ \A f \in KeyFields : offer[o].nomenclatureKey[f] = offer[o].columns.fields[f]

\* The status of an item is that of the newest decision on its offer, also when an old
\* command is sent again.
StatusIsLatest ==
  \A o \in Offers \ overlapped : review[o] # None /\ LatestIndex(decisions, o) # 0 =>
    LET d == decisions[LatestIndex(decisions, o)]
    IN  review[o].status = CASE IsApplied(d)                          -> "RESOLVED"
                         [] ~IsApplied(d) /\ IsConfirmed(d)    -> "DECIDED"
                         [] ~IsApplied(d) /\ ~IsConfirmed(d)   -> "DEFERRED"

\* previous_decision_id names the decision that was newest before this one: the
\* decisions on an offer are a chain without a fork.
ChainIsLinear ==
  \A i \in DOMAIN decisions : OfferOf(decisions[i]) \notin overlapped =>
    decisions[i].previous = LatestIndex(SubSeq(decisions, 1, i - 1), OfferOf(decisions[i]))

\* No step applies over again a decision that was applied, by whomever it is asked for.
KeepsApplied ==
  \A i \in DOMAIN decisions :
    IsApplied(decisions[i]) /\ OfferOf(decisions[i]) \notin overlapped =>
      decisions'[i].appliedBy = decisions[i].appliedBy

AppliedOnceApart == [][KeepsApplied]_decisions

-----------------------------------------------------------------------------
(***************************************************************************)
(* The inductive invariant behind them: what a request on such an offer    *)
(* has loaded is what the tables still hold.                               *)
(***************************************************************************)
Apart(s) == pc[s] # "idle" /\ req[s].offer \notin overlapped

UpToDate(s) ==
  LET r == req[s] IN
  /\ pc[s] # "idle" => r.review = review[r.offer]
  /\ pc[s] \in Recording => r.command.action \in SupportedReviewActions
  /\ pc[s] \in {"latest read", "recording"} \cup DecisionRead =>
       r.latest = LatestIndex(decisions, r.offer)
  /\ pc[s] \in RowRead => r.row = offer[r.offer]
  /\ pc[s] \in DecisionRead => ~IsApplied(decisions[r.latest])

SerialInv ==
  /\ ReviewInv
  /\ Together \subseteq overlapped
  /\ RowIsConsistent
  /\ StatusIsLatest
  /\ ChainIsLinear
  /\ \A s \in Sessions : Apart(s) => UpToDate(s)
=============================================================================
