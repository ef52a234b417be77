----------------------------- MODULE WeightedLB -----------------------------
(***************************************************************************)
(* The weighted load balancer of the C++ consumer agent, struct etcd_lb in *)
(* src/uv/lb.h.  The Java agent (EtcdLB.java) runs the same algorithm; the *)
(* Python agent (ca.py, class EndPoints) looks its choice up with          *)
(* bisect_left, which is stated here as PyChoice and compared.             *)
(*                                                                         *)
(* The loop of init_rate is one step per iteration.  Indices are 0-based   *)
(* as in the code.  A weight comes from argv through atoi; the model       *)
(* covers weights of at least 1, which is what start-agent.sh registers.   *)
(***************************************************************************)
EXTENDS Integers

CONSTANTS
    MAX_EDS,            \* capacity of the arrays (10 in the code)
    Weights             \* the weights an endpoint may be registered with

ASSUME MaxEdsAssumption == MAX_EDS \in Nat \ {0}
ASSUME WeightsAssumption == Weights \subseteq Nat \ {0}

VARIABLES
    phase,              \* "insert", "sum" (inside init_rate), "serve"
    ecnt,               \* endpoints inserted so far
    weight,             \* ends[i].weight
    rate,               \* rate[i]: weights of endpoints 0..i added up
    i,                  \* the loop variable of init_rate
    maxSum, rv, prev,   \* as in the code
    served              \* history: times each index was returned this round

vars == <<phase, ecnt, weight, rate, i, maxSum, rv, prev, served>>

Slots == 0 .. MAX_EDS - 1
Ends == 0 .. ecnt - 1
Zero == [s \in Slots |-> 0]

\* ca_s is a global object, so its arrays start out as zeros.
Init ==
    /\ phase = "insert"
    /\ ecnt = 0 /\ i = 0 /\ maxSum = 0 /\ rv = 0 /\ prev = 0
    /\ weight = Zero /\ rate = Zero /\ served = Zero

-----------------------------------------------------------------------------
Insert(w) ==
    /\ phase = "insert"
    /\ ecnt < MAX_EDS
    /\ weight' = [weight EXCEPT ![ecnt] = w]
    /\ ecnt' = ecnt + 1
    /\ UNCHANGED <<phase, rate, i, maxSum, rv, prev, served>>

\* rate[0] = ends[0].weight; main calls init_rate after the last insert.
InitRateStart ==
    /\ phase = "insert"
    /\ ecnt > 0
    /\ phase' = "sum"
    /\ rate' = [rate EXCEPT ![0] = weight[0]]
    /\ i' = 1
    /\ UNCHANGED <<ecnt, weight, maxSum, rv, prev, served>>

InitRateLoop ==
    /\ phase = "sum"
    /\ i < ecnt
    /\ rate' = [rate EXCEPT ![i] = rate[i - 1] + weight[i]]
    /\ i' = i + 1
    /\ UNCHANGED <<phase, ecnt, weight, maxSum, rv, prev, served>>

InitRateEnd ==
    /\ phase = "sum"
    /\ i >= ecnt
    /\ phase' = "serve"
    /\ maxSum' = rate[ecnt - 1]
    /\ rv' = 0 /\ prev' = 0
    /\ UNCHANGED <<ecnt, weight, rate, i, served>>

\* A bug of the kind lb.h could have: the comparison off by one.
StepRvStrict(p) ==
    IF p = 0 THEN 0 ELSE IF p > rate[rv] THEN (rv + 1) % ecnt ELSE rv

\* A bug of the kind lb.h could have: rv runs past the last endpoint.
StepRvNoWrap(p) == IF p >= rate[rv] \/ p = 0 THEN rv + 1 ELSE rv

\* The value of rv once prev has become p.
StepRv(p) == IF p = 0 THEN 0 ELSE IF p >= rate[rv] THEN (rv + 1) % ecnt ELSE rv

\* A bug of the kind lb.h could have: the round one choice too short.
StepPrevShort == IF prev + 1 >= maxSum - 1 THEN 0 ELSE prev + 1

StepPrev == (prev + 1) % maxSum

\* nextIdx() returns the old rv; served counts it, and restarts with a round.
NextIdx ==
    /\ phase = "serve"
    /\ prev' = StepPrev
    /\ rv' = StepRv(prev')
    /\ served' = IF prev' = 0 THEN Zero ELSE [served EXCEPT ![rv] = @ + 1]
    /\ UNCHANGED <<phase, ecnt, weight, rate, i, maxSum>>

Next ==
    \/ \E w \in Weights : Insert(w)
    \/ InitRateStart \/ InitRateLoop \/ InitRateEnd
    \/ NextIdx

Spec == Init /\ [][Next]_vars

-----------------------------------------------------------------------------
\* bisect.bisect_left(rate, x): the first index whose entry is at least x.
BisectLeft(x) == CHOOSE e \in Ends : rate[e] >= x /\ \A d \in 0 .. e - 1 : rate[d] < x

\* What ca.py's EndPoints.choice returns for the same weights and prev.
PyChoice == BisectLeft(prev + 1)

\* The weights of the endpoints before e.
Below(e) == rate[e] - weight[e]

\* How often e has been returned when the round has made p choices.
Share(e, p) == IF p <= Below(e) THEN 0 ELSE IF p >= rate[e] THEN weight[e] ELSE p - Below(e)

-----------------------------------------------------------------------------
\* Every variable of etcd_lb stays in its range: rv is an index in use and
\* prev a position in the round, so no array access leaves the filled part.
TypeOK ==
    /\ phase \in {"insert", "sum", "serve"}
    /\ ecnt \in 0 .. MAX_EDS
    /\ weight \in [Slots -> Nat] /\ rate \in [Slots -> Nat] /\ served \in [Slots -> Nat]
    /\ i \in 0 .. MAX_EDS
    /\ maxSum \in Nat /\ rv \in Slots /\ prev \in Nat
    /\ phase = "serve" => rv \in Ends /\ prev < maxSum

\* nextIdx (lb.h 35-43): rv always names the endpoint in whose block of the
\* round the position prev lies, so the incremental pointer never drifts.
SlotOwner == phase = "serve" => Below(rv) <= prev /\ prev < rate[rv]

\* nextIdx (lb.h 35-43): at every moment of a round each endpoint has been
\* returned exactly its share of the choices made so far.
ExactShare == phase = "serve" => \A e \in Ends : served[e] = Share(e, prev)

\* The choice nextIdx is about to return is the one the Python agent's
\* bisect_left (ca.py 52-60) makes from the same rate and prev.
AgreesWithBisect == phase = "serve" => rv = PyChoice

\* A round (prev back to 0) closes only when every endpoint has been returned
\* exactly as often as its registered weight (lb.h 37-41), counting the
\* choice the closing step itself makes.
RoundIsExact ==
    [][phase = "serve" /\ prev' = 0 =>
        \A e \in Ends : served[e] + (IF e = rv THEN 1 ELSE 0) = weight[e]]_vars

\* The promise of WeightedRoundRobin, with an endpoint's credit being what
\* nextIdx has not yet returned of it in this round.
Promise == INSTANCE WeightedRoundRobin WITH
    started <- phase = "serve",
    credit <- IF phase = "serve" THEN [s \in Slots |-> weight[s] - served[s]] ELSE Zero

\* etcd_lb (lb.h) implements weighted round robin: insert adds an endpoint,
\* init_rate starts the service, and nextIdx only ever takes owed credit.
ImplementsRoundRobin == Promise!Spec
=============================================================================
