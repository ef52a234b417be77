------------------------- MODULE WeightedRoundRobin -------------------------
(***************************************************************************)
(* What the endpoint selection of a consumer agent promises, whatever the  *)
(* algorithm: in every round each endpoint is chosen exactly as often as   *)
(* its weight says, in any order, and a round is never left unfinished.    *)
(* WeightedLB.tla (src/uv/lb.h) is shown to implement it.                  *)
(***************************************************************************)
EXTENDS Naturals

CONSTANTS
    Slots,              \* the indices an endpoint may have
    Weights             \* the weights it may be registered with

VARIABLES
    started,            \* the set of endpoints is fixed and being served
    weight,             \* slot -> its weight, 0 for a slot not in use
    credit              \* slot -> choices it is still owed in this round

rrVars == <<started, weight, credit>>

Init ==
    /\ started = FALSE
    /\ weight = [s \in Slots |-> 0]
    /\ credit = weight

\* An endpoint is registered in a free slot before service starts.
Add(s, w) ==
    /\ ~started
    /\ weight[s] = 0
    /\ weight' = [weight EXCEPT ![s] = w]
    /\ UNCHANGED <<started, credit>>

Start ==
    /\ ~started
    /\ started' = TRUE
    /\ credit' = weight
    /\ UNCHANGED weight

Spent(s) == [credit EXCEPT ![s] = @ - 1]

\* Slot s is chosen; the choice that uses up the last credit opens a new round.
Choose(s) ==
    /\ started
    /\ credit[s] > 0
    /\ credit' = IF \A t \in Slots : Spent(s)[t] = 0 THEN weight ELSE Spent(s)
    /\ UNCHANGED <<started, weight>>

Next ==
    \/ \E s \in Slots, w \in Weights : Add(s, w)
    \/ Start
    \/ \E s \in Slots : Choose(s)

Spec == Init /\ [][Next]_rrVars
=============================================================================
