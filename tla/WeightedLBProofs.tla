-------------------------- MODULE WeightedLBProofs --------------------------
(***************************************************************************)
(* Proofs about WeightedLB for every capacity and every set of positive    *)
(* weights.  The pointer arithmetic of nextIdx is right only because the   *)
(* prefix sums are strictly increasing, over any distance and not only     *)
(* between neighbours; that fact is built up by the loop of init_rate and  *)
(* is the inductive invariant's main part.                                 *)
(***************************************************************************)
EXTENDS WeightedLB, TLAPS

\* The first n entries of rate are the prefix sums of positive weights.
Prefix(n) ==
    /\ \A e \in Ends : weight[e] >= 1
    /\ \A d \in 0 .. n - 1 : rate[d] >= weight[d]
    /\ Below(0) = 0
    /\ \A d \in 1 .. n - 1 : Below(d) = rate[d - 1]
    /\ \A d \in 0 .. n - 1 : \A c \in 0 .. d - 1 : rate[c] <= Below(d)

\* Slots that hold no endpoint are untouched.
UnusedSlots ==
    /\ \A s \in Slots \ Ends : weight[s] = 0 /\ served[s] = 0
    /\ phase # "serve" => served = Zero

\* What init_rate has established so far.
RateInv ==
    /\ phase = "insert" => \A e \in Ends : weight[e] >= 1
    /\ phase = "sum" => i \in 1 .. ecnt /\ Prefix(i)
    /\ phase = "serve" => ecnt >= 1 /\ Prefix(ecnt) /\ maxSum = rate[ecnt - 1]

LBInv == TypeOK /\ UnusedSlots /\ RateInv /\ SlotOwner /\ ExactShare

-----------------------------------------------------------------------------
USE MaxEdsAssumption, WeightsAssumption

\* prev = maxSum - 1 happens only in the last endpoint's block, and only there
\* does adding one and taking the remainder give 0.
LEMMA StepPrevValue ==
    ASSUME LBInv, phase = "serve"
    PROVE  /\ StepPrev = IF prev = maxSum - 1 THEN 0 ELSE prev + 1
           /\ prev = maxSum - 1 <=> (rv = ecnt - 1 /\ prev + 1 = rate[rv])
<1>1. /\ prev \in Nat /\ maxSum \in Nat /\ prev < maxSum /\ maxSum > 0
      /\ rv \in Ends /\ rate \in [Slots -> Nat] /\ weight \in [Slots -> Nat]
      /\ ecnt \in 1 .. MAX_EDS /\ maxSum = rate[ecnt - 1] /\ Prefix(ecnt)
      /\ Below(rv) <= prev /\ prev < rate[rv]
  BY DEF LBInv, TypeOK, RateInv, SlotOwner
<1>2. StepPrev = IF prev = maxSum - 1 THEN 0 ELSE prev + 1
  <2>1. CASE prev = maxSum - 1
    <3>1. maxSum % maxSum = 0
      BY <1>1
    <3>2. QED BY <1>1, <2>1, <3>1 DEF StepPrev
  <2>2. CASE prev # maxSum - 1
    <3>1. prev + 1 \in 0 .. maxSum - 1
      BY <1>1, <2>2
    <3>2. (prev + 1) % maxSum = prev + 1
      BY <1>1, <3>1
    <3>3. QED BY <2>2, <3>2 DEF StepPrev
  <2>3. QED BY <2>1, <2>2
<1>3. ASSUME prev = maxSum - 1 PROVE rv = ecnt - 1
  <2>1. SUFFICES ASSUME rv # ecnt - 1 PROVE FALSE
    OBVIOUS
  <2>2. rv \in 0 .. (ecnt - 1) - 1 /\ ecnt - 1 \in 0 .. ecnt - 1
    BY <1>1, <2>1 DEF Ends
  <2>3. rate[rv] <= Below(ecnt - 1) /\ weight[ecnt - 1] >= 1
    BY <1>1, <2>2 DEF Prefix, Ends
  <2>4. rv \in Slots /\ ecnt - 1 \in Slots
    BY <1>1, <2>2 DEF Slots
  <2>5. QED BY <1>1, <1>3, <2>3, <2>4 DEF Below
<1>4. rv \in Slots
  BY <1>1 DEF Ends, Slots
<1>5. QED BY <1>1, <1>2, <1>3, <1>4

LEMMA LBInvInit == Init => LBInv
<1>1. SUFFICES ASSUME Init PROVE LBInv
  OBVIOUS
<1>2. QED
  BY <1>1 DEF Init, LBInv, TypeOK, UnusedSlots, RateInv, SlotOwner, ExactShare, Zero, Slots, Ends

\* One step of the balancer keeps the invariant.
LEMMA LBInvNext == LBInv /\ [Next]_vars => LBInv'
<1>1. SUFFICES ASSUME LBInv, [Next]_vars PROVE LBInv'
  OBVIOUS
<1>2. ASSUME NEW w \in Weights, Insert(w) PROVE LBInv'
  <2>1. w \in Nat /\ w >= 1 /\ ecnt \in Slots
    BY <1>1, <1>2 DEF Insert, LBInv, TypeOK, Slots
  <2>2. TypeOK'
    BY <1>1, <1>2, <2>1 DEF Insert, LBInv, TypeOK, Slots
  <2>3. UnusedSlots'
    BY <1>1, <1>2, <2>1 DEF Insert, LBInv, TypeOK, UnusedSlots, Zero, Slots, Ends
  <2>4. RateInv'
    BY <1>1, <1>2, <2>1 DEF Insert, LBInv, TypeOK, RateInv, Ends, Slots
  <2>5. QED BY <1>2, <2>2, <2>3, <2>4 DEF Insert, LBInv, SlotOwner, ExactShare
<1>3. CASE InitRateStart
  <2>1. /\ TypeOK' /\ UnusedSlots'
    BY <1>1, <1>3 DEF InitRateStart, LBInv, TypeOK, UnusedSlots, Slots, Ends, Zero
  <2>2. RateInv'
    BY <1>1, <1>3 DEF InitRateStart, LBInv, TypeOK, RateInv, Prefix, Below, Slots, Ends
  <2>3. QED BY <1>3, <2>1, <2>2 DEF InitRateStart, LBInv, SlotOwner, ExactShare
<1>4. CASE InitRateLoop
  <2>1. /\ i \in 1 .. ecnt - 1 /\ ecnt \in 1 .. MAX_EDS /\ Prefix(i)
        /\ rate \in [Slots -> Nat] /\ weight \in [Slots -> Nat]
        /\ rate' = [rate EXCEPT ![i] = rate[i - 1] + weight[i]] /\ i' = i + 1
        /\ weight' = weight /\ ecnt' = ecnt
    BY <1>1, <1>4 DEF InitRateLoop, LBInv, TypeOK, RateInv
  <2>2. TypeOK' /\ UnusedSlots'
    <3>1. rate' \in [Slots -> Nat] /\ i' \in 0 .. MAX_EDS
      BY <2>1 DEF Slots
    <3>2. QED
      BY <1>1, <1>4, <2>1, <3>1 DEF InitRateLoop, LBInv, TypeOK, UnusedSlots, Ends, Zero, Slots
  <2>3. i \in Slots /\ i - 1 \in Slots /\ \A d \in 0 .. i - 1 : d \in Slots
    BY <2>1 DEF Slots
  <2>4. /\ \A d \in 0 .. i - 1 : rate'[d] = rate[d]
        /\ rate'[i] = rate[i - 1] + weight[i]
    BY <2>1, <2>3
  <2>5. \A c \in 0 .. i - 1 : rate[c] <= rate[i - 1]
    <3>1. \A c \in 0 .. (i - 1) - 1 : rate[c] <= rate[i - 1] - weight[i - 1]
      BY <2>1 DEF Prefix, Below
    <3>2. QED BY <2>1, <2>3, <3>1
  <2>6. Prefix(i)'
    <3>1. \A d \in 0 .. i : \A c \in 0 .. d - 1 : rate'[c] <= rate'[d] - weight[d]
      <4>1. SUFFICES ASSUME NEW d \in 0 .. i, NEW c \in 0 .. d - 1
                     PROVE  rate'[c] <= rate'[d] - weight[d]
        OBVIOUS
      <4>2. CASE d = i
        BY <2>1, <2>3, <2>4, <2>5, <4>2
      <4>3. CASE d # i
        <5>1. d \in 0 .. i - 1 /\ c \in 0 .. i - 1
          BY <2>1, <4>3
        <5>2. QED BY <2>1, <2>4, <5>1 DEF Prefix, Below
      <4>4. QED BY <4>2, <4>3
    <3>2. \A d \in 1 .. i : rate'[d] - weight[d] = rate'[d - 1]
      <4>1. SUFFICES ASSUME NEW d \in 1 .. i PROVE rate'[d] - weight[d] = rate'[d - 1]
        OBVIOUS
      <4>2. CASE d = i
        BY <2>1, <2>3, <2>4, <4>2
      <4>3. CASE d # i
        <5>1. d \in 1 .. i - 1 /\ d \in 0 .. i - 1 /\ d - 1 \in 0 .. i - 1
          BY <2>1, <4>3
        <5>2. QED BY <2>1, <2>4, <5>1 DEF Prefix, Below
      <4>4. QED BY <4>2, <4>3
    <3>3. \A d \in 0 .. i : rate'[d] >= weight[d]
      BY <2>1, <2>3, <2>4 DEF Prefix
    <3>4. rate'[0] - weight[0] = 0
      BY <2>1, <2>4 DEF Prefix, Below
    <3>5. QED BY <2>1, <3>1, <3>2, <3>3, <3>4 DEF Prefix, Below, Ends
  <2>7. RateInv'
    BY <1>4, <2>1, <2>6 DEF InitRateLoop, RateInv
  <2>8. QED BY <1>4, <2>2, <2>7 DEF InitRateLoop, LBInv, SlotOwner, ExactShare
<1>5. CASE InitRateEnd
  <2>1. /\ ecnt \in 1 .. MAX_EDS /\ i = ecnt /\ Prefix(ecnt) /\ served = Zero
        /\ rate \in [Slots -> Nat] /\ weight \in [Slots -> Nat]
        /\ maxSum' = rate[ecnt - 1] /\ rv' = 0 /\ prev' = 0 /\ phase' = "serve"
        /\ rate' = rate /\ weight' = weight /\ ecnt' = ecnt /\ served' = served
    BY <1>1, <1>5 DEF InitRateEnd, LBInv, TypeOK, RateInv, UnusedSlots
  <2>2. \A d \in Ends : d \in Slots /\ rate[d] >= weight[d] /\ weight[d] >= 1
    BY <2>1 DEF Prefix, Ends, Slots
  <2>3. /\ 0 \in Ends /\ ecnt - 1 \in Ends /\ rate[ecnt - 1] \in Nat \ {0}
    BY <2>1, <2>2 DEF Ends
  <2>4. TypeOK'
    BY <1>1, <1>5, <2>1, <2>2, <2>3 DEF InitRateEnd, LBInv, TypeOK, Slots, Ends
  <2>5. UnusedSlots' /\ RateInv'
    BY <1>1, <1>5, <2>1 DEF LBInv, UnusedSlots, RateInv, Prefix, Below, Ends
  <2>6. SlotOwner'
    BY <2>1, <2>2, <2>3 DEF SlotOwner, Prefix, Below
  <2>7. ExactShare'
    BY <2>1, <2>2 DEF ExactShare, Share, Below, Ends, Zero
  <2>8. QED BY <2>4, <2>5, <2>6, <2>7 DEF LBInv
<1>6. CASE NextIdx
  <2>1. /\ ecnt \in 1 .. MAX_EDS /\ Prefix(ecnt) /\ maxSum = rate[ecnt - 1]
        /\ rate \in [Slots -> Nat] /\ weight \in [Slots -> Nat] /\ served \in [Slots -> Nat]
        /\ rv \in Ends /\ prev \in Nat /\ Below(rv) <= prev /\ prev < rate[rv]
        /\ phase = "serve"
    BY <1>1, <1>6 DEF NextIdx, LBInv, TypeOK, RateInv, SlotOwner
  <2>2. /\ prev' = StepPrev /\ rv' = StepRv(prev')
        /\ served' = IF prev' = 0 THEN Zero ELSE [served EXCEPT ![rv] = @ + 1]
        /\ rate' = rate /\ weight' = weight /\ ecnt' = ecnt /\ phase' = phase
        /\ maxSum' = maxSum /\ i' = i
    BY <1>6 DEF NextIdx
  <2>3. /\ prev' = IF prev = maxSum - 1 THEN 0 ELSE prev + 1
        /\ prev = maxSum - 1 <=> (rv = ecnt - 1 /\ prev + 1 = rate[rv])
    BY <1>1, <2>1, <2>2, StepPrevValue
  <2>4. \A e \in Ends : e \in Slots /\ rate[e] \in Nat /\ weight[e] \in Nat \ {0}
    BY <2>1 DEF Prefix, Ends, Slots
  <2>5. /\ 0 \in Ends /\ Below(0) = 0
        /\ \A e \in Ends : e + 1 \in Ends => Below(e + 1) = rate[e]
    BY <2>1 DEF Prefix, Ends
  <2>6. /\ rv' \in Ends /\ prev' \in Nat /\ Below(rv') <= prev' /\ prev' < rate[rv']
    <3>1. CASE prev = maxSum - 1
      BY <2>1, <2>2, <2>3, <2>4, <2>5, <3>1 DEF StepRv, Below
    <3>2. CASE prev # maxSum - 1 /\ prev + 1 < rate[rv]
      BY <2>1, <2>2, <2>3, <2>4, <3>2 DEF StepRv, Below
    <3>3. CASE prev # maxSum - 1 /\ prev + 1 >= rate[rv]
      <4>1. prev' = rate[rv] /\ prev' # 0
        BY <2>1, <2>3, <2>4, <3>3
      <4>2. rv + 1 \in Ends /\ rv # ecnt - 1
        BY <2>1, <2>3, <2>4, <3>3, <4>1 DEF Ends
      <4>3. rv' = rv + 1
        BY <2>1, <2>2, <4>1, <4>2 DEF StepRv, Ends
      <4>4. QED BY <2>1, <2>4, <2>5, <4>1, <4>2, <4>3 DEF Below
    <3>4. QED BY <2>1, <2>4, <3>1, <3>2, <3>3
  <2>7. TypeOK'
    <3>1. prev' < maxSum
      BY <1>1, <2>1, <2>3 DEF LBInv, TypeOK
    <3>2. served' \in [Slots -> Nat]
      BY <2>1, <2>2, <2>4 DEF Zero
    <3>3. QED
      BY <1>1, <2>1, <2>2, <2>4, <2>6, <3>1, <3>2 DEF LBInv, TypeOK, Ends
  <2>8. UnusedSlots'
    BY <1>1, <2>1, <2>2 DEF LBInv, UnusedSlots, Ends, Zero
  <2>9. RateInv'
    BY <1>1, <2>1, <2>2 DEF LBInv, RateInv, Prefix, Below, Ends
  <2>10. SlotOwner'
    BY <2>2, <2>6 DEF SlotOwner, Below
  <2>11. ExactShare'
    <3>1. SUFFICES ASSUME NEW e \in Ends PROVE served'[e] = Share(e, prev')
      BY <2>2 DEF ExactShare, Share, Below, Ends
    <3>2. e \in Slots /\ served[e] = Share(e, prev)
      BY <1>1, <2>1, <2>4 DEF LBInv, ExactShare
    <3>3. CASE prev = maxSum - 1
      <4>1. Below(e) >= 0
        BY <2>1 DEF Below, Prefix, Ends, Slots
      <4>2. QED
        BY <2>2, <2>3, <3>2, <3>3, <4>1 DEF Share, Zero
    <3>4. CASE prev # maxSum - 1 /\ e = rv
      BY <2>1, <2>2, <2>3, <2>4, <3>2, <3>4 DEF Share, Below
    <3>5. CASE prev # maxSum - 1 /\ e # rv
      <4>1. rate[e] <= Below(rv) \/ rate[rv] <= Below(e)
        <5>1. e \in 0 .. rv - 1 \/ rv \in 0 .. e - 1
          BY <2>1, <3>5 DEF Ends
        <5>2. QED BY <2>1, <5>1 DEF Prefix, Ends
      <4>2. served'[e] = served[e]
        BY <2>1, <2>2, <2>3, <3>2, <3>5
      <4>3. QED
        BY <2>1, <2>3, <2>4, <3>2, <3>5, <4>1, <4>2 DEF Share, Below
    <3>6. QED BY <3>3, <3>4, <3>5
  <2>12. QED BY <2>7, <2>8, <2>9, <2>10, <2>11 DEF LBInv
<1>7. CASE UNCHANGED vars
  BY <1>1, <1>7 DEF vars, LBInv, TypeOK, UnusedSlots, RateInv, SlotOwner, ExactShare,
                    Prefix, Below, Share, Ends
<1>8. QED BY <1>1, <1>2, <1>3, <1>4, <1>5, <1>6, <1>7 DEF Next

LEMMA LBInvariant == Spec => []LBInv
BY LBInvInit, LBInvNext, PTL DEF Spec

-----------------------------------------------------------------------------
\* Type correctness: nextIdx never leaves the filled part of the arrays, for
\* any number of endpoints up to the capacity and any positive weights.
THEOREM LBTypeCorrect == Spec => []TypeOK
<1>1. LBInv => TypeOK
  BY DEF LBInv
<1>2. QED BY <1>1, LBInvariant, PTL

\* The incremental pointer of nextIdx always names the block prev lies in.
THEOREM LBSlotOwner == Spec => []SlotOwner
<1>1. LBInv => SlotOwner
  BY DEF LBInv
<1>2. QED BY <1>1, LBInvariant, PTL

\* At every moment of a round every endpoint has had exactly its share.
THEOREM LBExactShare == Spec => []ExactShare
<1>1. LBInv => ExactShare
  BY DEF LBInv
<1>2. QED BY <1>1, LBInvariant, PTL

\* nextIdx returns what the Python agent's bisect_left would return.
THEOREM LBAgreesWithBisect == Spec => []AgreesWithBisect
<1>1. LBInv => AgreesWithBisect
  <2>1. SUFFICES ASSUME LBInv, phase = "serve" PROVE rv = PyChoice
    BY DEF AgreesWithBisect
  <2>2. /\ rv \in Ends /\ prev \in Nat /\ Below(rv) <= prev /\ prev < rate[rv]
        /\ Prefix(ecnt) /\ ecnt \in 1 .. MAX_EDS
        /\ rate \in [Slots -> Nat] /\ weight \in [Slots -> Nat]
    BY <2>1 DEF LBInv, TypeOK, RateInv, SlotOwner
  <2>3. \A d \in 0 .. rv - 1 : d \in Slots /\ rate[d] <= Below(rv)
    BY <2>2 DEF Prefix, Ends, Slots
  <2>4. rv \in Slots /\ rate[rv] >= prev + 1 /\ \A d \in 0 .. rv - 1 : rate[d] < prev + 1
    BY <2>2, <2>3 DEF Ends, Slots, Below
  <2>5. ASSUME NEW e \in Ends, rate[e] >= prev + 1, \A d \in 0 .. e - 1 : rate[d] < prev + 1
        PROVE  e = rv
    <3>1. e \in Slots
      BY <2>2 DEF Ends, Slots
    <3>2. ~ (e \in 0 .. rv - 1) /\ ~ (rv \in 0 .. e - 1)
      BY <2>2, <2>4, <2>5, <3>1
    <3>3. QED BY <2>2, <3>2 DEF Ends
  <2>6. QED BY <2>2, <2>4, <2>5 DEF PyChoice, BisectLeft
<1>2. QED BY <1>1, LBInvariant, PTL

\* A round of nextIdx closes only when everyone has had exactly its weight.
THEOREM LBRoundIsExact == Spec => RoundIsExact
<1>1. LBInv /\ [Next]_vars =>
        [phase = "serve" /\ prev' = 0 =>
           \A e \in Ends : served[e] + (IF e = rv THEN 1 ELSE 0) = weight[e]]_vars
  <2>1. SUFFICES ASSUME LBInv, Next, phase = "serve", prev' = 0, NEW e \in Ends
                 PROVE  served[e] + (IF e = rv THEN 1 ELSE 0) = weight[e]
    OBVIOUS
  <2>2. prev' = StepPrev
    BY <2>1 DEF Next, Insert, InitRateStart, InitRateLoop, InitRateEnd, NextIdx
  <2>3. /\ prev \in Nat /\ rate \in [Slots -> Nat] /\ weight \in [Slots -> Nat]
        /\ ecnt \in 1 .. MAX_EDS /\ Prefix(ecnt) /\ served[e] = Share(e, prev)
    BY <2>1 DEF LBInv, TypeOK, RateInv, ExactShare
  <2>4. rv = ecnt - 1 /\ prev + 1 = rate[rv]
    BY <2>1, <2>2, <2>3, StepPrevValue
  <2>5. /\ e \in Slots /\ rv \in Ends /\ rv \in Slots
        /\ weight[e] >= 1 /\ weight[rv] >= 1
        /\ e # rv => rate[e] <= Below(rv)
    BY <2>3, <2>4 DEF Prefix, Ends, Slots
  <2>6. QED BY <2>3, <2>4, <2>5 DEF Share, Below
<1>2. QED BY <1>1, LBInvariant, PTL DEF Spec, RoundIsExact

-----------------------------------------------------------------------------
\* Outside a wrap the credit of the returned slot shrinks by one.
LEMMA NextIdxTakesCredit ==
    ASSUME LBInv, NextIdx
    PROVE  \E s \in Slots : Promise!Choose(s)
<1>1. /\ phase = "serve" /\ rv \in Ends /\ prev \in Nat
      /\ ecnt \in 1 .. MAX_EDS /\ Prefix(ecnt) /\ UnusedSlots /\ ExactShare
      /\ rate \in [Slots -> Nat] /\ weight \in [Slots -> Nat] /\ served \in [Slots -> Nat]
      /\ Below(rv) <= prev /\ prev < rate[rv]
  BY DEF NextIdx, LBInv, TypeOK, RateInv, SlotOwner
<1>2. /\ phase' = "serve" /\ weight' = weight /\ prev' = StepPrev
      /\ served' = IF prev' = 0 THEN Zero ELSE [served EXCEPT ![rv] = @ + 1]
  BY DEF NextIdx
<1>3. /\ prev' = IF prev = maxSum - 1 THEN 0 ELSE prev + 1
      /\ prev = maxSum - 1 <=> (rv = ecnt - 1 /\ prev + 1 = rate[rv])
  BY <1>1, <1>2, StepPrevValue
<1> DEFINE credit == [s \in Slots |-> weight[s] - served[s]]
           spent == [credit EXCEPT ![rv] = @ - 1]
<1>4. \A e \in Ends : e \in Slots /\ weight[e] >= 1
  BY <1>1 DEF Prefix, Ends, Slots
<1>5. credit[rv] > 0
  <2>1. served[rv] = prev - Below(rv)
    BY <1>1, <1>4 DEF ExactShare, Share, Below
  <2>2. QED BY <1>1, <1>4, <2>1 DEF Below
<1>6. prev' = 0 => \A t \in Slots : spent[t] = 0
  <2>1. SUFFICES ASSUME prev' = 0, NEW t \in Slots PROVE spent[t] = 0
    OBVIOUS
  <2>2. rv = ecnt - 1 /\ prev + 1 = rate[rv]
    BY <1>1, <1>3, <2>1
  <2>3. CASE t \in Ends
    <3>1. t # rv => rate[t] <= Below(rv)
      BY <1>1, <2>2, <2>3 DEF Prefix, Ends
    <3>2. served[t] = Share(t, prev)
      BY <1>1, <2>3 DEF ExactShare
    <3>3. QED BY <1>1, <1>4, <2>2, <2>3, <3>1, <3>2 DEF Share, Below
  <2>4. CASE t \notin Ends
    BY <1>1, <2>4 DEF UnusedSlots
  <2>5. QED BY <2>3, <2>4
<1>7. prev' # 0 => \E t \in Slots : spent[t] # 0
  <2>1. SUFFICES ASSUME prev' # 0 PROVE \E t \in Slots : spent[t] # 0
    OBVIOUS
  <2>2. ~ (rv = ecnt - 1 /\ prev + 1 = rate[rv])
    BY <1>3, <2>1
  <2>3. CASE prev + 1 < rate[rv]
    <3>1. served[rv] = prev - Below(rv)
      BY <1>1, <1>4 DEF ExactShare, Share, Below
    <3>2. spent[rv] # 0
      BY <1>1, <1>4, <2>3, <3>1 DEF Below
    <3>3. QED BY <1>1, <1>4, <3>2
  <2>4. CASE prev + 1 = rate[rv] /\ rv # ecnt - 1
    <3>1. ecnt - 1 \in Ends /\ rv \in 0 .. (ecnt - 1) - 1
      BY <1>1, <2>4 DEF Ends
    <3>2. rate[rv] <= Below(ecnt - 1)
      BY <1>1, <3>1 DEF Prefix, Ends
    <3>3. served[ecnt - 1] = 0
      BY <1>1, <1>4, <2>4, <3>1, <3>2 DEF ExactShare, Share, Below
    <3>4. spent[ecnt - 1] # 0
      BY <1>1, <1>4, <2>4, <3>1, <3>3
    <3>5. QED BY <1>4, <3>1, <3>4
  <2>5. QED BY <1>1, <1>4, <2>2, <2>3, <2>4
<1>8. (\A t \in Slots : spent[t] = 0) <=> prev' = 0
  BY <1>6, <1>7
<1>9. [s \in Slots |-> weight'[s] - served'[s]] =
        IF \A t \in Slots : spent[t] = 0 THEN weight ELSE spent
  <2>1. CASE prev' = 0
    <3>1. [s \in Slots |-> weight'[s] - served'[s]] = weight
      BY <1>1, <1>2, <2>1 DEF Zero
    <3>2. QED BY <1>8, <2>1, <3>1
  <2>2. CASE prev' # 0
    <3>1. [s \in Slots |-> weight'[s] - served'[s]] = spent
      BY <1>1, <1>2, <1>4, <2>2
    <3>2. QED BY <1>8, <2>2, <3>1
  <2>3. QED BY <2>1, <2>2
<1>10. rv \in Slots
  BY <1>1, <1>4
<1> HIDE DEF credit, spent
<1>11. Promise!Choose(rv)
  BY <1>1, <1>2, <1>5, <1>9 DEF Promise!Choose, Promise!Spent, credit, spent
<1>12. QED BY <1>10, <1>11 DEF Promise!Choose, Promise!Spent

\* The load balancer implements weighted round robin.
THEOREM LBImplementsRoundRobin == Spec => ImplementsRoundRobin
<1>1. Init => Promise!Init
  BY DEF Init, Promise!Init, Zero
<1>2. LBInv /\ [Next]_vars => [Promise!Next]_(Promise!rrVars)
  <2>1. SUFFICES ASSUME LBInv, [Next]_vars PROVE [Promise!Next]_(Promise!rrVars)
    OBVIOUS
  <2>2. ASSUME NEW w \in Weights, Insert(w) PROVE Promise!Next
    <3>1. ecnt \in Slots /\ weight[ecnt] = 0
      BY <2>1, <2>2 DEF Insert, LBInv, TypeOK, UnusedSlots, Slots, Ends
    <3>2. Promise!Add(ecnt, w)
      BY <2>2, <3>1 DEF Insert, Promise!Add
    <3>3. QED BY <3>1, <3>2 DEF Promise!Next
  <2>3. CASE InitRateStart \/ InitRateLoop
    BY <2>3 DEF InitRateStart, InitRateLoop, Promise!rrVars
  <2>4. CASE InitRateEnd
    <3>1. served' = Zero /\ weight' = weight /\ weight \in [Slots -> Nat]
      BY <2>1, <2>4 DEF InitRateEnd, LBInv, UnusedSlots, TypeOK
    <3>2. [s \in Slots |-> weight'[s] - served'[s]] = weight
      BY <3>1 DEF Zero
    <3>3. Promise!Start
      BY <2>4, <3>1, <3>2 DEF InitRateEnd, Promise!Start
    <3>4. QED BY <3>3 DEF Promise!Next
  <2>5. CASE NextIdx
    BY <2>1, <2>5, NextIdxTakesCredit DEF Promise!Next
  <2>6. CASE UNCHANGED vars
    BY <2>6 DEF vars, Promise!rrVars
  <2>7. QED BY <2>1, <2>2, <2>3, <2>4, <2>5, <2>6 DEF Next
<1>3. QED BY <1>1, <1>2, LBInvariant, PTL DEF Spec, ImplementsRoundRobin, Promise!Spec
=============================================================================
