------------------------------ MODULE CaProofs ------------------------------
(***************************************************************************)
(* Proofs about the consumer agent with any peer of the kind CaWithPeer    *)
(* describes: for every set of agents, endpoints, links, keys,             *)
(* connections and ids, with and without faults and repeated ids.          *)
(*                                                                         *)
(* The argument has two layers.  Basic adds to the types where a link's    *)
(* frames may be before its connection is up, and that what the peer is    *)
(* still to read starts with the header it has not read.  Delivery follows *)
(* the requests under way: each carries the number and the id of a request *)
(* made on its link (Traced, Sent), and until it is answered it is in one  *)
(* place only (Once); where no id in use was drawn, an id is in one place  *)
(* only, registered for the connection that asked (Routed), on one link    *)
(* (Exclusive); and a request that was answered is nowhere any more        *)
(* (Settled).  Every step but the arrival of a request or of a reply only  *)
(* moves, loses or misdirects frames.                                      *)
(*                                                                         *)
(* That it implements RpcService, as long as rand() draws no id that is in *)
(* use, needs beyond this that a connection waits for one request at a     *)
(* time (Waiting): ca.cc keeps no count of them, it relies on the HTTP     *)
(* client, and a connection is free again only because the result just     *)
(* written answers the one request that had none.                          *)
(***************************************************************************)
EXTENDS CaWithPeer, WireProofs

-----------------------------------------------------------------------------
\* What the peer is still to read: the header, unless h, then requests.
HeaderOK(w, h) == \A j \in DOMAIN w : (w[j].type = "key") <=> (j = 1 /\ ~h)

\* One link: the agent's stage st, the connection ch, the frames w and b on
\* their way to and from the peer, those the peer holds r, and whether the
\* peer has read the header h.
LinkOK(st, ch, w, b, r, h) ==
    /\ st \in {"none", "connecting"} => ch = "none"
    /\ ch = "none" => w = <<>> /\ b = <<>> /\ r = {} /\ ~h
    /\ ch = "up" /\ ~h => w # <<>>
    /\ HeaderOK(w, h)

PeerTypeOK ==
    /\ hdr \in [Links -> BOOLEAN]
    /\ atPa \in [Links -> SUBSET ReqFrames]

Wire == \A l \in Links : LinkOK(stage[l], chan[l], toPa[l], fromPa[l], atPa[l], hdr[l])

Basic == CaTypeOK /\ PeerTypeOK /\ Wire

\* Requests appended to what was written do not come before the header.
LEMMA AppendKeepsHeader ==
    ASSUME NEW w \in Seq(WireFrames), NEW q \in Seq(ReqFrames), NEW h \in BOOLEAN,
           ~h => w # <<>>,
           HeaderOK(w, h)
    PROVE  /\ w \o q \in Seq(WireFrames)
           /\ ~h => w \o q # <<>>
           /\ HeaderOK(w \o q, h)
<1>1. q \in Seq(WireFrames) /\ \A j \in DOMAIN q : q[j] \in ReqFrames
  BY DEF WireFrames
<1>2. w \o q \in Seq(WireFrames)
  BY <1>1, ConcatFacts
<1>3. /\ Len(w) \in Nat /\ Len(q) \in Nat /\ DOMAIN w = 1 .. Len(w) /\ DOMAIN q = 1 .. Len(q)
      /\ Len(w \o q) = Len(w) + Len(q) /\ DOMAIN (w \o q) = 1 .. Len(w) + Len(q)
      /\ \A j \in 1 .. Len(w) + Len(q) : (w \o q)[j] = IF j <= Len(w) THEN w[j] ELSE q[j - Len(w)]
  BY <1>1
<1>4. ASSUME NEW j \in DOMAIN (w \o q), j > Len(w) PROVE (w \o q)[j].type # "key" /\ ~(j = 1 /\ ~h)
  <2>1. j - Len(w) \in DOMAIN q /\ (w \o q)[j] = q[j - Len(w)]
    BY <1>3, <1>4
  <2>2. (w \o q)[j].type = "req"
    BY <1>1, <2>1 DEF ReqFrames
  <2>3. w # <<>> => Len(w) >= 1
    BY <1>3
  <2>4. QED BY <1>3, <1>4, <2>2, <2>3
<1>5. \A j \in DOMAIN (w \o q) : j <= Len(w) => j \in DOMAIN w /\ (w \o q)[j] = w[j]
  BY <1>3
<1>6. ~h => w \o q # <<>>
  BY <1>3
<1>7. \A j \in DOMAIN (w \o q) : j <= Len(w) \/ j > Len(w)
  BY <1>3
<1>8. QED BY <1>2, <1>4, <1>5, <1>6, <1>7 DEF HeaderOK

\* Reading the first frame leaves requests only.
LEMMA TailKeepsHeader ==
    ASSUME NEW w \in Seq(WireFrames), NEW h \in BOOLEAN, w # <<>>,
           HeaderOK(w, h)
    PROVE  /\ Tail(w) \in Seq(WireFrames)
           /\ HeaderOK(Tail(w), TRUE)
           /\ h => Head(w) \in ReqFrames
<1>1. Tail(w) \in Seq(WireFrames) /\ Head(w) \in WireFrames /\ Head(w) = w[1] /\ 1 \in DOMAIN w
  BY TailFacts
<1>2. \A j \in DOMAIN Tail(w) : j + 1 \in DOMAIN w /\ Tail(w)[j] = w[j + 1] /\ j \in Nat /\ j # 0
  BY <1>1, TailFacts
<1>3. HeaderOK(Tail(w), TRUE)
  BY <1>2 DEF HeaderOK
<1>4. h => Head(w).type # "key"
  BY <1>1 DEF HeaderOK
<1>5. \A f \in WireFrames : f.type # "key" => f \in ReqFrames
  BY DEF WireFrames, Headers, ReqFrames
<1>6. QED BY <1>1, <1>3, <1>4, <1>5

\* Basic is an inductive invariant: it holds initially ...
LEMMA BasicInit == Init => Basic
<1> SUFFICES ASSUME Init PROVE Basic
  OBVIOUS
<1>1. CaTypeOK
  <2>1. (CHOOSE k \in Keys : TRUE) \in Keys
    BY WireAssumption
  <2>2. QED BY <2>1, WireAssumption, AgentAssumption DEF Init, WireInit, CaInit, CaTypeOK
<1>2. PeerTypeOK
  BY DEF Init, PeerTypeOK
<1>3. Wire
  BY DEF Init, WireInit, CaInit, Wire, LinkOK, HeaderOK
<1>4. QED BY <1>1, <1>2, <1>3 DEF Basic

\* What HandleQueue does to link l, and that it leaves the others alone.
LEMMA HandleQueueBasic ==
    ASSUME Basic, NEW l \in Links, NEW connected \in BOOLEAN, NEW q \in Seq(ReqFrames),
           HandleQueue(l, connected, q)
    PROVE  /\ que' \in [Links -> Seq(ReqFrames)] /\ toPa' \in [Links -> Seq(WireFrames)]
           /\ \A m \in Links : /\ chan[m] = "none" => toPa'[m] = toPa[m]
                               /\ chan[m] = "up" /\ ~hdr[m] => toPa'[m] # <<>>
                               /\ HeaderOK(toPa'[m], hdr[m])
<1>1. que' \in [Links -> Seq(ReqFrames)]
  BY DEF Basic, CaTypeOK, HandleQueue
<1>2. toPa \in [Links -> Seq(WireFrames)] /\ hdr \in [Links -> BOOLEAN]
  BY DEF Basic, CaTypeOK, WireFrames, PeerTypeOK
<1>3. \A m \in Links : LinkOK(stage[m], chan[m], toPa[m], fromPa[m], atPa[m], hdr[m])
  BY DEF Basic, Wire
<1>4. CASE connected /\ chan[l] = "up"
  <2>1. toPa' = [toPa EXCEPT ![l] = toPa[l] \o q]
    BY <1>2, <1>4 DEF HandleQueue, Written
  <2>2. /\ toPa[l] \o q \in Seq(WireFrames)
        /\ ~hdr[l] => toPa[l] \o q # <<>>
        /\ HeaderOK(toPa[l] \o q, hdr[l])
    BY <1>2, <1>3, <1>4, AppendKeepsHeader DEF LinkOK
  <2>3. toPa' \in [Links -> Seq(WireFrames)] /\ \A m \in Links : toPa'[m] = IF m = l THEN toPa[l] \o q ELSE toPa[m]
    BY <1>2, <2>1, <2>2
  <2>4. QED BY <1>1, <1>3, <1>4, <2>2, <2>3 DEF LinkOK
<1>5. CASE ~(connected /\ chan[l] = "up")
  <2>1. toPa' = toPa
    BY <1>5 DEF HandleQueue, Written
  <2>2. QED BY <1>1, <1>2, <1>3, <2>1 DEF LinkOK
<1>6. QED BY <1>4, <1>5

\* ... a request keeps it ...
LEMMA FetchBasic ==
    ASSUME Basic, NEW c \in Conns, NEW k \in Keys, NEW l \in Links, NEW id \in Rand,
           Fetch(c, k, l, id), UNCHANGED peerVars
    PROVE  Basic'
<1> DEFINE e == ReqFrame(id, Len(asked) + 1)
<1>1. id \in Ids /\ Len(asked) \in Nat
  BY DEF Rand, Basic, CaTypeOK
<1>2. e \in ReqFrames
  BY <1>1 DEF ReqFrame, ReqFrames
<1>3. Append(que[l], e) \in Seq(ReqFrames)
  BY <1>2 DEF Basic, CaTypeOK
<1>4. /\ que' \in [Links -> Seq(ReqFrames)] /\ toPa' \in [Links -> Seq(WireFrames)]
      /\ \A m \in Links : /\ chan[m] = "none" => toPa'[m] = toPa[m]
                          /\ chan[m] = "up" /\ ~hdr[m] => toPa'[m] # <<>>
                          /\ HeaderOK(toPa'[m], hdr[m])
  <2>1. HandleQueue(l, stage[l] = "ready", Append(que[l], e)) /\ (stage[l] = "ready") \in BOOLEAN
    BY DEF Fetch
  <2>2. QED BY <1>3, <2>1, HandleQueueBasic
<1>5. asked' \in Seq(Request)
  <2>1. [conn |-> c, link |-> l, key |-> k, id |-> id] \in Request
    BY <1>1 DEF Request
  <2>2. QED BY <2>1 DEF Basic, CaTypeOK, Fetch
<1>6. contexts' \in [Links -> [Ids -> Conns \cup {NoConn}]]
  <2>1. contexts \in [Links -> [Ids -> Conns \cup {NoConn}]] /\ contexts' = [contexts EXCEPT ![l][id] = c]
    BY DEF Basic, CaTypeOK, Fetch
  <2>2. QED BY <1>1, <2>1
<1>7. collided' \subseteq Endpoints
  <2>1. collided' = collided \/ collided' = collided \cup {EndpointOf[l]}
    BY DEF Fetch
  <2>2. QED BY <2>1, WireAssumption DEF Basic, CaTypeOK
<1>8. /\ stage' \in [Links -> {"none", "connecting", "keying", "ready", "dead"}]
      /\ key' \in [Links -> Keys] /\ busy' \in [Conns -> BOOLEAN]
      /\ \A m \in Links : stage'[m] \in {"none", "connecting"} => stage[m] \in {"none", "connecting"}
  BY DEF Basic, CaTypeOK, Fetch
<1>9. UNCHANGED <<chan, fromPa, open, answers, crashed, hdr, atPa>>
  BY DEF Fetch, peerVars
<1>10. CaTypeOK'
  BY <1>4, <1>5, <1>6, <1>7, <1>8, <1>9 DEF Basic, CaTypeOK, WireFrames
<1>11. PeerTypeOK'
  BY <1>9 DEF Basic, PeerTypeOK
<1>12. Wire'
  BY <1>4, <1>8, <1>9 DEF Basic, Wire, LinkOK
<1>13. QED BY <1>10, <1>11, <1>12 DEF Basic

\* The agent's other steps.
LEMMA AgentBasic ==
    ASSUME Basic, NEW l \in Links, Agent(l) \/ OnConnErr(l) \/ (LinkReset(l) /\ UNCHANGED caVars),
           UNCHANGED peerVars
    PROVE  Basic'
<1>1. CASE OnConn(l)
  <2>1. /\ chan[l] = "none" /\ toPa[l] = <<>> /\ ~hdr[l]
        /\ toPa \in [Links -> Seq(WireFrames)] /\ key[l] \in Keys
    BY <1>1 DEF Basic, Wire, LinkOK, OnConn, CaTypeOK, WireFrames
  <2>2. KeyFrame(key[l]) \in WireFrames /\ KeyFrame(key[l]).type = "key"
    BY <2>1 DEF KeyFrame, WireFrames, Headers
  <2>3. toPa[l] \o ConnWrites(l) = <<KeyFrame(key[l])>>
    BY <2>1, <2>2 DEF ConnWrites
  <2>4. /\ toPa' = [toPa EXCEPT ![l] = <<KeyFrame(key[l])>>]
        /\ <<KeyFrame(key[l])>> \in Seq(WireFrames) /\ <<KeyFrame(key[l])>> # <<>>
        /\ HeaderOK(<<KeyFrame(key[l])>>, FALSE)
    <3>1. toPa' = [toPa EXCEPT ![l] = <<KeyFrame(key[l])>>]
      BY <1>1, <2>3 DEF OnConn
    <3>2. <<KeyFrame(key[l])>> \in Seq(WireFrames) /\ <<KeyFrame(key[l])>> # <<>>
      BY <2>2
    <3>3. HeaderOK(<<KeyFrame(key[l])>>, FALSE)
      BY <2>2 DEF HeaderOK
    <3>4. QED BY <3>1, <3>2, <3>3
  <2>5. toPa' \in [Links -> Seq(WireFrames)] /\ \A m \in Links : toPa'[m] = IF m = l THEN <<KeyFrame(key[l])>> ELSE toPa[m]
    BY <2>1, <2>4
  <2>6. /\ chan' \in [Links -> {"none", "up", "reset"}]
        /\ stage' \in [Links -> {"none", "connecting", "keying", "ready", "dead"}]
        /\ \A m \in Links : /\ chan'[m] = IF m = l THEN "up" ELSE chan[m]
                            /\ stage'[m] = IF m = l THEN "keying" ELSE stage[m]
    BY <1>1 DEF OnConn, Basic, CaTypeOK
  <2>7. UNCHANGED <<fromPa, key, que, contexts, open, busy, answers, asked, collided, crashed, hdr, atPa>>
    BY <1>1 DEF OnConn, peerVars
  <2>8. CaTypeOK' /\ PeerTypeOK'
    BY <2>5, <2>6, <2>7 DEF Basic, CaTypeOK, PeerTypeOK, WireFrames
  <2>9. Wire'
    <3>1. hdr[l] = FALSE
      BY <2>1 DEF Basic, PeerTypeOK
    <3>2. QED BY <2>4, <2>5, <2>6, <2>7, <3>1 DEF Basic, Wire, LinkOK
  <2>10. QED BY <2>8, <2>9 DEF Basic
<1>2. CASE OnConnErr(l) \/ KeyWriteErr(l)
  <2>1. /\ stage' \in [Links -> {"none", "connecting", "keying", "ready", "dead"}]
        /\ \A m \in Links : stage'[m] \in {"none", "connecting"} => stage[m] \in {"none", "connecting"}
    BY <1>2 DEF OnConnErr, KeyWriteErr, Basic, CaTypeOK
  <2>2. UNCHANGED <<chan, toPa, fromPa, key, que, contexts, open, busy, answers, asked, collided, crashed, hdr, atPa>>
    BY <1>2 DEF OnConnErr, KeyWriteErr, peerVars, wireVars
  <2>3. QED BY <2>1, <2>2 DEF Basic, CaTypeOK, PeerTypeOK, Wire, LinkOK
<1>3. CASE KeyWriteCb(l)
  <2>1. que[l] \in Seq(ReqFrames)
    BY DEF Basic, CaTypeOK
  <2>2. /\ que' \in [Links -> Seq(ReqFrames)] /\ toPa' \in [Links -> Seq(WireFrames)]
        /\ \A m \in Links : /\ chan[m] = "none" => toPa'[m] = toPa[m]
                            /\ chan[m] = "up" /\ ~hdr[m] => toPa'[m] # <<>>
                            /\ HeaderOK(toPa'[m], hdr[m])
    BY <1>3, <2>1, HandleQueueBasic DEF KeyWriteCb
  <2>3. /\ stage' \in [Links -> {"none", "connecting", "keying", "ready", "dead"}]
        /\ \A m \in Links : stage'[m] \in {"none", "connecting"} => stage[m] \in {"none", "connecting"}
    BY <1>3 DEF KeyWriteCb, Basic, CaTypeOK
  <2>4. UNCHANGED <<chan, fromPa, key, contexts, open, busy, answers, asked, collided, crashed, hdr, atPa>>
    BY <1>3 DEF KeyWriteCb, peerVars
  <2>5. QED BY <2>2, <2>3, <2>4 DEF Basic, CaTypeOK, WireFrames, PeerTypeOK, Wire, LinkOK
<1>4. CASE PaReadCb(l)
  <2>1. fromPa[l] \in Seq(ReqFrames) /\ fromPa[l] # <<>>
    BY <1>4 DEF PaReadCb, Basic, CaTypeOK
  <2>2. Tail(fromPa[l]) \in Seq(ReqFrames) /\ Head(fromPa[l]) \in ReqFrames
    BY <2>1, TailFacts
  <2>3. Head(fromPa[l]).id \in Ids /\ Head(fromPa[l]).body \in Nat
    BY <2>2 DEF ReqFrames
  <2>4. fromPa' \in [Links -> Seq(ReqFrames)] /\ \A m \in Links : fromPa[m] = <<>> => fromPa'[m] = <<>>
    BY <1>4, <2>1, <2>2 DEF PaReadCb, Basic, CaTypeOK
  <2>5. /\ contexts' \in [Links -> [Ids -> Conns \cup {NoConn}]] /\ busy' \in [Conns -> BOOLEAN]
        /\ answers' \in [Conns -> Seq(Nat)] /\ crashed' \in [Agents -> BOOLEAN]
    <3>1. CASE ContextOf(l, Head(fromPa[l]).id) = NoConn
      BY <1>4, <3>1 DEF PaReadCb, Basic, CaTypeOK
    <3>2. CASE ContextOf(l, Head(fromPa[l]).id) # NoConn
      <4>1. PICK c \in Conns : c = ContextOf(l, Head(fromPa[l]).id)
        BY <2>3, <3>2 DEF Basic, CaTypeOK, ContextOf
      <4>2. /\ contexts' = [contexts EXCEPT ![l][Head(fromPa[l]).id] = NoConn]
            /\ answers' = IF open[c] THEN [answers EXCEPT ![c] = Append(@, Head(fromPa[l]).body)] ELSE answers
            /\ busy' = IF open[c] THEN [busy EXCEPT ![c] = FALSE] ELSE busy
            /\ crashed' = crashed
        BY <1>4, <3>2, <4>1 DEF PaReadCb, Erase
      <4>3. Append(answers[c], Head(fromPa[l]).body) \in Seq(Nat)
        BY <2>3 DEF Basic, CaTypeOK
      <4>4. contexts' \in [Links -> [Ids -> Conns \cup {NoConn}]]
        BY <2>3, <4>2 DEF Basic, CaTypeOK
      <4>5. QED BY <4>2, <4>3, <4>4 DEF Basic, CaTypeOK
    <3>3. QED BY <3>1, <3>2
  <2>6. UNCHANGED <<chan, toPa, stage, key, que, open, asked, collided, hdr, atPa>>
    BY <1>4 DEF PaReadCb, peerVars
  <2>7. QED BY <2>4, <2>5, <2>6 DEF Basic, CaTypeOK, PeerTypeOK, Wire, LinkOK
<1>5. CASE PaReadErr(l)
  <2>1. fromPa' \in [Links -> Seq(ReqFrames)] /\ \A m \in Links : fromPa[m] = <<>> => fromPa'[m] = <<>>
    BY <1>5 DEF PaReadErr, Basic, CaTypeOK
  <2>2. UNCHANGED <<chan, toPa, stage, key, que, contexts, open, busy, answers, asked, collided, crashed, hdr, atPa>>
    BY <1>5 DEF PaReadErr, caVars, peerVars
  <2>3. QED BY <2>1, <2>2 DEF Basic, CaTypeOK, PeerTypeOK, Wire, LinkOK
<1>6. CASE LinkReset(l) /\ UNCHANGED caVars
  <2>1. chan' \in [Links -> {"none", "up", "reset"}] /\ \A m \in Links : chan'[m] = chan[m] \/ (chan'[m] = "reset" /\ chan[m] = "up")
    BY <1>6 DEF LinkReset, Basic, CaTypeOK
  <2>2. UNCHANGED <<fromPa, toPa, stage, key, que, contexts, open, busy, answers, asked, collided, crashed, hdr, atPa>>
    BY <1>6 DEF LinkReset, caVars, peerVars
  <2>3. CaTypeOK' /\ PeerTypeOK'
    BY <2>1, <2>2 DEF Basic, CaTypeOK, PeerTypeOK
  <2>4. Wire'
    BY <2>1, <2>2 DEF Basic, Wire, LinkOK
  <2>5. QED BY <2>3, <2>4 DEF Basic
<1>7. QED BY <1>1, <1>2, <1>3, <1>4, <1>5, <1>6 DEF Agent, LinkNext

\* An HTTP client hangs up.
LEMMA HttpCloseBasic ==
    ASSUME Basic, NEW c \in Conns, HttpClose(c), UNCHANGED peerVars
    PROVE  Basic'
<1>1. open' \in [Conns -> BOOLEAN]
  BY DEF HttpClose, Basic, CaTypeOK
<1>2. UNCHANGED <<chan, toPa, fromPa, stage, key, que, contexts, busy, answers, asked, collided, crashed, hdr, atPa>>
  BY DEF HttpClose, wireVars, peerVars
<1>3. QED BY <1>1, <1>2 DEF Basic, CaTypeOK, PeerTypeOK, Wire

\* The peer's steps.
LEMMA PeerBasic ==
    ASSUME Basic,
           \/ \E l \in Links : Peer(l)
           \/ \E lost \in SUBSET UNION {atPa[l] : l \in Links} : PeerLose(lost)
    PROVE  Basic'
<1> USE DEF Basic
<1>t. /\ toPa \in [Links -> Seq(WireFrames)] /\ hdr \in [Links -> BOOLEAN]
      /\ fromPa \in [Links -> Seq(ReqFrames)] /\ atPa \in [Links -> SUBSET ReqFrames]
  BY DEF CaTypeOK, WireFrames, PeerTypeOK
<1>w. \A m \in Links : LinkOK(stage[m], chan[m], toPa[m], fromPa[m], atPa[m], hdr[m])
  BY DEF Wire
<1>1. ASSUME NEW l \in Links, PeerRead(l) \/ PeerIgnore(l) PROVE Basic'
  <2>1. toPa[l] # <<>> /\ toPa' = [toPa EXCEPT ![l] = Tail(toPa[l])]
    BY <1>1, <1>t DEF PeerRead, PeerIgnore
  <2>2. /\ Tail(toPa[l]) \in Seq(WireFrames) /\ HeaderOK(Tail(toPa[l]), TRUE)
        /\ hdr[l] => Head(toPa[l]) \in ReqFrames
    BY <2>1, <1>t, <1>w, TailKeepsHeader DEF LinkOK
  <2>3. /\ toPa' \in [Links -> Seq(WireFrames)]
        /\ \A m \in Links : toPa'[m] = IF m = l THEN Tail(toPa[l]) ELSE toPa[m]
    BY <2>1, <2>2, <1>t
  <2>4. chan[l] # "none"
    BY <2>1, <1>w DEF LinkOK
  <2>5. /\ hdr' \in [Links -> BOOLEAN] /\ atPa' \in [Links -> SUBSET ReqFrames]
        /\ hdr'[l] = TRUE /\ \A m \in Links : m # l => hdr'[m] = hdr[m] /\ atPa'[m] = atPa[m]
    <3>1. CASE PeerRead(l) /\ hdr[l]
      <4>1. atPa' = [atPa EXCEPT ![l] = atPa[l] \cup {Head(toPa[l])}] /\ hdr' = hdr
        BY <3>1, <1>t DEF PeerRead
      <4>2. QED BY <4>1, <2>2, <3>1, <1>t
    <3>2. CASE PeerRead(l) /\ ~hdr[l]
      BY <3>2, <1>t DEF PeerRead
    <3>3. CASE PeerIgnore(l)
      BY <3>3, <1>t DEF PeerIgnore
    <3>4. QED BY <1>1, <3>1, <3>2, <3>3
  <2>6. UNCHANGED <<chan, fromPa, stage, key, que, contexts, open, busy, answers, asked, collided, crashed>>
    BY <1>1 DEF PeerRead, PeerIgnore, caVars
  <2>7. CaTypeOK' /\ PeerTypeOK'
    BY <2>3, <2>5, <2>6 DEF CaTypeOK, PeerTypeOK, WireFrames
  <2>8. Wire'
    <3>1. LinkOK(stage[l], chan[l], toPa'[l], fromPa[l], atPa'[l], hdr'[l])
      BY <2>2, <2>3, <2>4, <2>5, <1>w DEF LinkOK
    <3>2. \A m \in Links : m # l => LinkOK(stage[m], chan[m], toPa'[m], fromPa[m], atPa'[m], hdr'[m])
      BY <2>3, <2>5, <1>w
    <3>3. QED BY <2>6, <3>1, <3>2 DEF Wire
  <2>9. QED BY <2>7, <2>8
<1>2. ASSUME NEW l \in Links, NEW f \in atPa[l], NEW m \in Links,
             (PeerAnswer(l, f) /\ m = l) \/ PeerMisdirect(l, f, m)
      PROVE  Basic'
  <2>1. f \in ReqFrames
    BY <1>t
  <2>2. atPa' \in [Links -> SUBSET ReqFrames] /\ \A x \in Links : atPa'[x] \subseteq atPa[x]
    BY <1>2, <1>t DEF PeerAnswer, PeerMisdirect
  <2>3. <<f>> \in Seq(ReqFrames)
    BY <2>1
  <2>4. fromPa[m] \o <<f>> \in Seq(ReqFrames)
    BY <2>3, <1>t, ConcatFacts
  <2>5. /\ fromPa' \in [Links -> Seq(ReqFrames)]
        /\ \A x \in Links : chan[x] = "none" => fromPa'[x] = fromPa[x]
    <3>1. fromPa' = fromPa \/ (chan[m] = "up" /\ fromPa' = [fromPa EXCEPT ![m] = fromPa[m] \o <<f>>])
      BY <1>2, <1>t DEF PeerAnswer, PeerMisdirect, Written
    <3>2. QED BY <2>4, <3>1, <1>t
  <2>6. UNCHANGED <<chan, toPa, stage, key, que, contexts, open, busy, answers, asked, collided, crashed, hdr>>
    BY <1>2 DEF PeerAnswer, PeerMisdirect, caVars
  <2>7. CaTypeOK' /\ PeerTypeOK'
    BY <2>2, <2>5, <2>6 DEF CaTypeOK, PeerTypeOK
  <2>8. Wire'
    BY <2>2, <2>5, <2>6, <1>w DEF Wire, LinkOK
  <2>9. QED BY <2>7, <2>8
<1>3. ASSUME NEW l \in Links, PeerDrop(l) PROVE Basic'
  <2>1. /\ toPa' \in [Links -> Seq(WireFrames)]
        /\ \A m \in Links : toPa'[m] = IF m = l THEN <<>> ELSE toPa[m]
    BY <1>3, <1>t DEF PeerDrop
  <2>2. UNCHANGED <<chan, fromPa, stage, key, que, contexts, open, busy, answers, asked, collided, crashed, hdr, atPa>>
    BY <1>3 DEF PeerDrop, caVars
  <2>3. chan[l] = "reset" /\ HeaderOK(<<>>, hdr[l])
    BY <1>3 DEF PeerDrop, HeaderOK
  <2>4. CaTypeOK' /\ PeerTypeOK'
    BY <2>1, <2>2 DEF CaTypeOK, PeerTypeOK, WireFrames
  <2>5. Wire'
    BY <2>1, <2>2, <2>3, <1>w DEF Wire, LinkOK
  <2>6. QED BY <2>4, <2>5
<1>4. ASSUME NEW lost, PeerLose(lost) PROVE Basic'
  <2>1. atPa' \in [Links -> SUBSET ReqFrames] /\ \A m \in Links : atPa'[m] \subseteq atPa[m]
    BY <1>4, <1>t DEF PeerLose
  <2>2. UNCHANGED <<chan, toPa, fromPa, stage, key, que, contexts, open, busy, answers, asked, collided, crashed, hdr>>
    BY <1>4 DEF PeerLose, caVars, wireVars
  <2>3. CaTypeOK' /\ PeerTypeOK'
    BY <2>1, <2>2 DEF CaTypeOK, PeerTypeOK
  <2>4. Wire'
    BY <2>1, <2>2, <1>w DEF Wire, LinkOK
  <2>5. QED BY <2>3, <2>4
<1>5. QED BY <1>1, <1>2, <1>3, <1>4 DEF Peer

\* ... and so does every step.
LEMMA BasicStep == Basic /\ [Next]_vars => Basic'
<1> SUFFICES ASSUME Basic, [Next]_vars PROVE Basic'
  OBVIOUS
<1>1. CASE HttpNext /\ UNCHANGED peerVars
  BY <1>1, FetchBasic, HttpCloseBasic DEF HttpNext
<1>2. ASSUME NEW l \in Links, Agent(l), UNCHANGED peerVars PROVE Basic'
  BY <1>2, AgentBasic
<1>3. ASSUME NEW l \in Links, Fault(l), UNCHANGED peerVars PROVE Basic'
  BY <1>3, AgentBasic DEF Fault
<1>4. CASE \/ \E l \in Links : Peer(l)
           \/ \E lost \in SUBSET UNION {atPa[l] : l \in Links} : PeerLose(lost)
  BY <1>4, PeerBasic
<1>5. CASE UNCHANGED vars
  BY <1>5 DEF vars, wireVars, caVars, peerVars, Basic, CaTypeOK, PeerTypeOK, Wire
<1>6. QED BY <1>1, <1>2, <1>3, <1>4, <1>5 DEF Next

\* Basic holds in every reachable state.
LEMMA BasicInvariant == Spec => []Basic
<1>1. QED BY BasicInit, BasicStep, PTL DEF Spec

\* The variables of the agent and of its connections keep their types.
THEOREM CaTypeCorrect == Spec => []CaTypeOK
<1>1. Basic => CaTypeOK
  BY DEF Basic
<1>2. QED BY <1>1, BasicInvariant, PTL

\* Whatever order connects, header writes, queued requests, resets and reads
\* happen in, what the peer reads on a connection (pa_client.cc 115-202) is
\* one header and then requests.
THEOREM CaHeaderFirst == Spec => []HeaderFirst
<1>1. Basic => HeaderFirst
  BY DEF Basic, Wire, LinkOK, HeaderOK, HeaderFirst
<1>2. QED BY <1>1, BasicInvariant, PTL

-----------------------------------------------------------------------------
\* The requests among the frames of a link.
Reqs(q, w, r, b) == {f \in Frames(q, w, r, b) : f.type = "req"}

\* From q, w, r, b to q2, w2, r2, b2 no request is added or duplicated: no id
\* is, and no number is, among the requests the agent's side has not been
\* answered.
Moved(q, w, r, b, q2, w2, r2, b2) ==
    /\ Reqs(q2, w2, r2, b2) \subseteq Reqs(q, w, r, b)
    /\ Reqs(q2, w2, r2, <<>>) \subseteq Reqs(q, w, r, <<>>)
    /\ Unique(q, w, r, b, "id") => Unique(q2, w2, r2, b2, "id")
    /\ Unique(q, w, r, <<>>, "body") => Unique(q2, w2, r2, <<>>, "body")

\* The queue is written behind what was written before.
LEMMA MoveFlush ==
    ASSUME NEW q \in Seq(ReqFrames), NEW w \in Seq(WireFrames), NEW r, NEW b
    PROVE  Moved(q, w, r, b, <<>>, w \o q, r, b)
<1>1. q \in Seq(WireFrames)
  BY DEF WireFrames
<1>2. \A c, fld : /\ Frames(<<>>, w \o q, r, c) = Frames(q, w, r, c)
                  /\ Unique(q, w, r, c, fld) => Unique(<<>>, w \o q, r, c, fld)
  BY <1>1, PlaceFlush
<1>3. QED BY <1>2 DEF Moved, Reqs

\* Frames are lost: a queue or a direction of the wire as a whole, and any of
\* the requests the peer holds.
LEMMA MoveDrop ==
    ASSUME NEW q, NEW w, NEW r, NEW b, NEW q2 \in {q, <<>>}, NEW w2 \in {w, <<>>},
           NEW r2 \in SUBSET r, NEW b2 \in {b, <<>>}
    PROVE  Moved(q, w, r, b, q2, w2, r2, b2)
<1>1. /\ Frames(q2, w2, r2, b2) \subseteq Frames(q, w, r, b)
      /\ \A fld : Unique(q, w, r, b, fld) => Unique(q2, w2, r2, b2, fld)
  <2>1. /\ q2 = q \/ q2 = <<>>
        /\ w2 = w \/ w2 = <<>>
        /\ r2 \subseteq r
        /\ b2 = b \/ b2 = <<>>
    OBVIOUS
  <2>2. QED BY <2>1, PlaceDrop
<1>2. /\ Frames(q2, w2, r2, <<>>) \subseteq Frames(q, w, r, <<>>)
      /\ \A fld : Unique(q, w, r, <<>>, fld) => Unique(q2, w2, r2, <<>>, fld)
  <2>1. /\ q2 = q \/ q2 = <<>>
        /\ w2 = w \/ w2 = <<>>
        /\ r2 \subseteq r
    OBVIOUS
  <2>2. QED BY <2>1, PlaceDrop
<1>3. QED BY <1>1, <1>2 DEF Moved, Reqs

\* The header goes out on a new connection.
LEMMA MoveHeader ==
    ASSUME NEW q \in Seq(ReqFrames), NEW r \in SUBSET ReqFrames, NEW b \in Seq(ReqFrames), NEW k
    PROVE  Moved(q, <<>>, r, b, q, <<KeyFrame(k)>>, r, b)
<1>1. Elements(<<KeyFrame(k)>>) = {KeyFrame(k)} /\ \A fld : OneEach(<<KeyFrame(k)>>, fld)
  BY OneFacts
<1>2. KeyFrame(k).type = "key" /\ \A fld : Mark(KeyFrame(k), fld) = -1
  BY DEF KeyFrame, NoId, Mark
<1>3. \A f \in Elements(q) \cup r \cup Elements(b) : f \in ReqFrames
  BY DEF Elements
<1>4. \A f \in Elements(q) \cup r \cup Elements(b) : \A fld : Mark(f, fld) # -1
  BY <1>3, WireAssumption DEF ReqFrames, Mark
<1>5. \A c : Reqs(q, <<KeyFrame(k)>>, r, c) \subseteq Reqs(q, <<>>, r, c)
  BY <1>1, <1>2 DEF Reqs, Frames
<1>6. Unique(q, <<>>, r, b, "id") => Unique(q, <<KeyFrame(k)>>, r, b, "id")
  BY <1>1, <1>2, <1>4 DEF Unique, Apart
<1>7. Unique(q, <<>>, r, <<>>, "body") => Unique(q, <<KeyFrame(k)>>, r, <<>>, "body")
  BY <1>1, <1>2, <1>4, EmptyFacts DEF Unique, Apart
<1>8. QED BY <1>5, <1>6, <1>7 DEF Moved

\* The peer reads a frame and keeps it or not.
LEMMA MoveRead ==
    ASSUME NEW q, NEW w \in Seq(WireFrames), w # <<>>, NEW r, NEW b
    PROVE  /\ Moved(q, w, r, b, q, Tail(w), r \cup {Head(w)}, b)
           /\ Moved(q, w, r, b, q, Tail(w), r, b)
<1>1. \A c, fld :
         /\ Frames(q, Tail(w), r \cup {Head(w)}, c) = Frames(q, w, r, c)
         /\ Frames(q, Tail(w), r, c) \subseteq Frames(q, w, r, c)
         /\ Unique(q, w, r, c, fld) => /\ Unique(q, Tail(w), r \cup {Head(w)}, c, fld)
                                       /\ Unique(q, Tail(w), r, c, fld)
  BY PlaceRead
<1>2. QED BY <1>1 DEF Moved, Reqs

\* The peer answers, or loses, a request.
LEMMA MoveAnswer ==
    ASSUME NEW q, NEW w, NEW r \in SUBSET ReqFrames, NEW b \in Seq(ReqFrames), NEW f \in r
    PROVE  /\ Moved(q, w, r, b, q, w, r \ {f}, b \o <<f>>)
           /\ Moved(q, w, r, b, q, w, r \ {f}, b)
<1>1. Moved(q, w, r, b, q, w, r \ {f}, b)
  BY MoveDrop
<1>2. f \in ReqFrames
  OBVIOUS
<1>3. /\ Frames(q, w, r \ {f}, b \o <<f>>) \subseteq Frames(q, w, r, b) \cup {f}
      /\ Unique(q, w, r, b, "id") => Unique(q, w, r \ {f}, b \o <<f>>, "id")
  BY <1>2, PlaceAnswer
<1>4. f \in Frames(q, w, r, b)
  BY DEF Frames
<1>5. QED BY <1>1, <1>3, <1>4 DEF Moved, Reqs

\* The agent takes a reply: no other frame has its id.
LEMMA MoveTake ==
    ASSUME NEW q, NEW w, NEW r, NEW b \in Seq(ReqFrames), b # <<>>
    PROVE  /\ Moved(q, w, r, b, q, w, r, Tail(b))
           /\ Head(b) \in Reqs(q, w, r, b)
           /\ Unique(q, w, r, b, "id") => \A g \in Reqs(q, w, r, Tail(b)) : g.id # Head(b).id
<1>1. /\ Frames(q, w, r, b) = Frames(q, w, r, Tail(b)) \cup {Head(b)}
      /\ \A fld : Unique(q, w, r, b, fld) =>
            /\ Unique(q, w, r, Tail(b), fld)
            /\ \A g \in Frames(q, w, r, Tail(b)) : Mark(g, fld) # Mark(Head(b), fld)
  BY PlaceTake
<1>2. Head(b) \in ReqFrames
  BY TailFacts
<1>3. Head(b).type = "req"
  BY <1>2 DEF ReqFrames
<1>4. QED BY <1>1, <1>3 DEF Moved, Reqs, Mark

\* A request is queued under an id and a number no frame of the link has.
LEMMA QueueRequest ==
    ASSUME NEW q \in Seq(ReqFrames), NEW w, NEW r, NEW e \in ReqFrames
    PROVE  /\ Append(q, e) \in Seq(ReqFrames)
           /\ \A b : /\ Reqs(Append(q, e), w, r, b) \subseteq Reqs(q, w, r, b) \cup {e}
                     /\ Unique(q, w, r, b, "id") /\ (\A g \in Frames(q, w, r, b) : g.id # e.id)
                          => Unique(Append(q, e), w, r, b, "id")
           /\ Unique(q, w, r, <<>>, "body") /\ (\A g \in Frames(q, w, r, <<>>) : g.body # e.body)
                => Unique(Append(q, e), w, r, <<>>, "body")
<1>1. \A c, fld :
         /\ Append(q, e) \in Seq(ReqFrames)
         /\ Frames(Append(q, e), w, r, c) = Frames(q, w, r, c) \cup {e}
         /\ Unique(q, w, r, c, fld) /\ (\A g \in Frames(q, w, r, c) : Mark(g, fld) # Mark(e, fld))
                => Unique(Append(q, e), w, r, c, fld)
  BY PlaceQueue
<1>2. \A f : Mark(f, "id") = f.id /\ Mark(f, "body") = f.body
  BY DEF Mark
<1>3. QED BY <1>1, <1>2 DEF Reqs

-----------------------------------------------------------------------------
\* The requests of link l that are queued, on the wire, at the peer or
\* answered but not read; those not answered.
Flight(l) == Reqs(que[l], toPa[l], atPa[l], fromPa[l])
Outbound(l) == Reqs(que[l], toPa[l], atPa[l], <<>>)
UniqueOn(l) == Unique(que[l], toPa[l], atPa[l], fromPa[l], "id")

\* A frame carries the number and the id of a request made on its link, or at
\* least, where an id in use was drawn, on a link to the same endpoint.
Traced ==
    \A l \in Links : \A f \in Flight(l) :
        /\ f.body \in DOMAIN asked
        /\ asked[f.body].id = f.id
        /\ \/ asked[f.body].link = l
           \/ EndpointOf[l] \in collided /\ EndpointOf[asked[f.body].link] = EndpointOf[l]

\* A request that is not answered yet is on its own link, in one place.
Sent == \A l \in Links : \A f \in Outbound(l) : asked[f.body].link = l
Once == \A l \in Links : Unique(que[l], toPa[l], atPa[l], <<>>, "body")

\* Where no id was drawn twice an id is in one place at a time, registered for
\* the connection that made the request, and on one link only.
Routed ==
    \A l \in Links : EndpointOf[l] \notin collided =>
        UniqueOn(l) /\ \A f \in Flight(l) : contexts[l][f.id] = asked[f.body].conn
Exclusive ==
    \A l, m \in Links : \A id \in Ids :
        /\ EndpointOf[l] = EndpointOf[m] /\ EndpointOf[l] \notin collided
        /\ contexts[l][id] # NoConn /\ contexts[m][id] # NoConn
        => l = m

\* A request that was answered is no longer under way.
Settled ==
    \A c \in Conns : \A j \in DOMAIN answers[c] :
        LET n == answers[c][j]
        IN /\ n \in DOMAIN asked
           /\ Sound(n) => asked[n].conn = c /\ \A f \in Flight(asked[n].link) : f.body # n

Delivery ==
    /\ Traced /\ Sent /\ Once /\ Routed /\ Exclusive /\ Settled
    /\ AnsweredOnce /\ CrashNeedsCollision

\* The types of a recorded request.
LEMMA AskedFacts ==
    ASSUME Basic, NEW n \in DOMAIN asked
    PROVE  /\ asked[n] \in Request /\ asked[n].conn \in Conns /\ asked[n].link \in Links
           /\ asked[n].conn # NoConn
<1>1. asked[n] \in Request
  BY DEF Basic, CaTypeOK
<1>2. QED BY <1>1, AgentAssumption DEF Request

\* Requests carry an id of Ids and a number, headers carry neither.
LEMMA FrameFacts ==
    ASSUME Basic, NEW m \in Links, NEW f \in Frames(que[m], toPa[m], atPa[m], fromPa[m])
    PROVE  IF f.type = "req" THEN f.id \in Ids /\ f.body \in Nat ELSE f.id = -1 /\ f.body = -1
<1>1. /\ que[m] \in Seq(WireFrames) /\ toPa[m] \in Seq(WireFrames)
      /\ fromPa[m] \in Seq(WireFrames) /\ atPa[m] \subseteq WireFrames
  BY DEF Basic, CaTypeOK, PeerTypeOK, WireFrames
<1>2. \A s \in Seq(WireFrames) : \A g \in Elements(s) : g \in WireFrames
  BY DEF Elements
<1>3. f \in WireFrames
  BY <1>1, <1>2 DEF Frames
<1>4. QED BY <1>3 DEF WireFrames, Headers, ReqFrames, NoId

\* Nothing is under way initially.
LEMMA DeliveryInit == Init => Delivery
<1> SUFFICES ASSUME Init PROVE Delivery
  OBVIOUS
<1>1. \A l \in Links : que[l] = <<>> /\ toPa[l] = <<>> /\ atPa[l] = {} /\ fromPa[l] = <<>>
  BY DEF Init, WireInit, CaInit
<1>2. Reqs(<<>>, <<>>, {}, <<>>) = {} /\ \A fld : Unique(<<>>, <<>>, {}, <<>>, fld)
  BY EmptyFacts DEF Reqs, Frames, Unique, Apart, Single
<1>3. Traced /\ Sent /\ Once /\ Routed
  BY <1>1, <1>2 DEF Traced, Sent, Once, Routed, Flight, Outbound, UniqueOn
<1>e. Exclusive
  BY DEF Init, CaInit, Exclusive
<1>4. \A c \in Conns : DOMAIN answers[c] = {}
  BY DEF Init, CaInit
<1>5. Settled /\ AnsweredOnce
  BY <1>4 DEF Settled, AnsweredOnce
<1>6. CrashNeedsCollision
  BY DEF Init, CaInit, CrashNeedsCollision
<1>7. QED BY <1>3, <1>e, <1>5, <1>6 DEF Delivery

\* Steps that only move, lose or, where an id in use was drawn, misdirect
\* frames.
LEMMA DeliveryShrinks ==
    ASSUME Basic, Delivery, UNCHANGED <<asked, collided, contexts, answers, crashed>>,
           \A m \in Links :
               /\ Outbound(m)' \subseteq Outbound(m)
               /\ Unique(que[m], toPa[m], atPa[m], <<>>, "body")
                    => Unique(que'[m], toPa'[m], atPa'[m], <<>>, "body")
               /\ EndpointOf[m] \notin collided => Flight(m)' \subseteq Flight(m) /\ (UniqueOn(m) => UniqueOn(m)')
               /\ \A f \in Flight(m)' :
                    \/ f \in Flight(m)
                    \/ EndpointOf[m] \in collided /\ \E l \in Links : EndpointOf[l] = EndpointOf[m] /\ f \in Flight(l)
    PROVE  Delivery'
<1>1. Traced'
  <2> SUFFICES ASSUME NEW m \in Links, NEW f \in Flight(m)'
               PROVE  /\ f.body \in DOMAIN asked
                      /\ asked[f.body].id = f.id
                      /\ \/ asked[f.body].link = m
                         \/ EndpointOf[m] \in collided /\ EndpointOf[asked[f.body].link] = EndpointOf[m]
    BY DEF Traced
  <2>1. CASE f \in Flight(m)
    BY <2>1 DEF Delivery, Traced
  <2>2. ASSUME EndpointOf[m] \in collided, NEW l \in Links, EndpointOf[l] = EndpointOf[m], f \in Flight(l)
        PROVE  /\ f.body \in DOMAIN asked
               /\ asked[f.body].id = f.id
               /\ EndpointOf[asked[f.body].link] = EndpointOf[m]
    BY <2>2 DEF Delivery, Traced
  <2>3. QED BY <2>1, <2>2
<1>2. Sent' /\ Once'
  BY DEF Delivery, Sent, Once
<1>3. Routed' /\ Exclusive'
  BY DEF Delivery, Routed, Exclusive
<1>4. Settled'
  <2> SUFFICES ASSUME NEW c \in Conns, NEW j \in DOMAIN answers[c]
               PROVE  /\ answers[c][j] \in DOMAIN asked
                      /\ Sound(answers[c][j]) =>
                            /\ asked[answers[c][j]].conn = c
                            /\ \A f \in Flight(asked[answers[c][j]].link)' : f.body # answers[c][j]
    BY DEF Settled, Sound
  <2>1. /\ answers[c][j] \in DOMAIN asked
        /\ Sound(answers[c][j]) =>
              /\ asked[answers[c][j]].conn = c
              /\ \A f \in Flight(asked[answers[c][j]].link) : f.body # answers[c][j]
    BY DEF Delivery, Settled
  <2>2. asked[answers[c][j]].link \in Links
    BY <2>1, AskedFacts
  <2>3. QED BY <2>1, <2>2 DEF Sound
<1>5. AnsweredOnce' /\ CrashNeedsCollision'
  BY DEF Delivery, AnsweredOnce, CrashNeedsCollision, Sound
<1>6. QED BY <1>1, <1>2, <1>3, <1>4, <1>5 DEF Delivery

\* Steps that only move or lose frames.
LEMMA DeliveryMoved ==
    ASSUME Basic, Delivery, UNCHANGED <<asked, collided, contexts, answers, crashed>>,
           \A m \in Links : Moved(que[m], toPa[m], atPa[m], fromPa[m], que'[m], toPa'[m], atPa'[m], fromPa'[m])
    PROVE  Delivery'
<1>1. \A m \in Links :
         /\ Outbound(m)' \subseteq Outbound(m)
         /\ Unique(que[m], toPa[m], atPa[m], <<>>, "body") => Unique(que'[m], toPa'[m], atPa'[m], <<>>, "body")
         /\ Flight(m)' \subseteq Flight(m) /\ (UniqueOn(m) => UniqueOn(m)')
  BY DEF Moved, Flight, Outbound, UniqueOn
<1>2. QED BY <1>1, DeliveryShrinks

\* HandleQueue with the queue as it is only moves or loses frames.
LEMMA HandleQueueMoved ==
    ASSUME Basic, NEW l \in Links, NEW connected \in BOOLEAN, NEW q \in Seq(ReqFrames),
           HandleQueue(l, connected, q)
    PROVE  /\ Moved(q, toPa[l], atPa[l], fromPa[l], que'[l], toPa'[l], atPa[l], fromPa[l])
           /\ \A m \in Links : m # l => que'[m] = que[m] /\ toPa'[m] = toPa[m]
<1>1. que \in [Links -> Seq(ReqFrames)] /\ toPa \in [Links -> Seq(WireFrames)]
  BY DEF Basic, CaTypeOK, WireFrames
<1>2. /\ que'[l] = IF connected THEN <<>> ELSE q
      /\ toPa'[l] = IF connected /\ chan[l] = "up" THEN toPa[l] \o q ELSE toPa[l]
      /\ \A m \in Links : m # l => que'[m] = que[m] /\ toPa'[m] = toPa[m]
  BY <1>1 DEF HandleQueue, Written
<1>3. CASE connected /\ chan[l] = "up"
  BY <1>1, <1>2, <1>3, MoveFlush
<1>4. CASE ~(connected /\ chan[l] = "up")
  <2>1. que'[l] \in {q, <<>>} /\ toPa'[l] \in {toPa[l], <<>>}
    BY <1>2, <1>4
  <2>2. QED BY <1>2, <2>1, MoveDrop
<1>5. QED BY <1>3, <1>4

\* Standing still is a move.
LEMMA Unmoved == \A q, w, r, b : Moved(q, w, r, b, q, w, r, b)
  BY DEF Moved

\* Every step but the arrival of a request and of a reply.
LEMMA OtherDelivery ==
    ASSUME Basic, Delivery,
           \/ \E c \in Conns : HttpClose(c) /\ UNCHANGED peerVars
           \/ \E l \in Links : /\ \/ OnConn(l) \/ OnConnErr(l) \/ KeyWriteCb(l) \/ KeyWriteErr(l) \/ PaReadErr(l)
                                  \/ (LinkReset(l) /\ UNCHANGED caVars)
                               /\ UNCHANGED peerVars
           \/ \E l \in Links : Peer(l)
           \/ \E lost \in SUBSET UNION {atPa[l] : l \in Links} : PeerLose(lost)
           \/ UNCHANGED vars
    PROVE  Delivery'
<1> DEFINE MovedOn(m) == Moved(que[m], toPa[m], atPa[m], fromPa[m], que'[m], toPa'[m], atPa'[m], fromPa'[m])
<1>t. /\ toPa \in [Links -> Seq(WireFrames)] /\ hdr \in [Links -> BOOLEAN]
      /\ que \in [Links -> Seq(ReqFrames)]
      /\ fromPa \in [Links -> Seq(ReqFrames)] /\ atPa \in [Links -> SUBSET ReqFrames]
  BY DEF Basic, CaTypeOK, WireFrames, PeerTypeOK
<1>q. (\A m \in Links : MovedOn(m)) /\ UNCHANGED <<asked, collided, contexts, answers, crashed>> => Delivery'
  BY DeliveryMoved
<1>1. ASSUME UNCHANGED <<que, toPa, atPa, fromPa, asked, collided, contexts, answers, crashed>> PROVE Delivery'
  BY <1>1, <1>q, Unmoved
<1>2. ASSUME NEW l \in Links, OnConn(l), UNCHANGED peerVars PROVE Delivery'
  <2>1. toPa[l] = <<>>
    BY <1>2 DEF OnConn, Basic, Wire, LinkOK
  <2>2. toPa[l] \o ConnWrites(l) = <<KeyFrame(key[l])>>
    BY <2>1 DEF ConnWrites
  <2>3. \A m \in Links : toPa'[m] = IF m = l THEN <<KeyFrame(key[l])>> ELSE toPa[m]
    BY <1>2, <2>2, <1>t DEF OnConn
  <2>4. UNCHANGED <<que, atPa, fromPa, asked, collided, contexts, answers, crashed>>
    BY <1>2 DEF OnConn, peerVars
  <2>5. MovedOn(l)
    BY <2>1, <2>3, <2>4, <1>t, MoveHeader
  <2>6. \A m \in Links : m # l => MovedOn(m)
    BY <2>3, <2>4, Unmoved
  <2>7. QED BY <2>4, <2>5, <2>6, <1>q
<1>3. ASSUME NEW l \in Links, KeyWriteCb(l), UNCHANGED peerVars PROVE Delivery'
  <2>1. UNCHANGED <<atPa, fromPa, asked, collided, contexts, answers, crashed>>
    BY <1>3 DEF KeyWriteCb, peerVars
  <2>2. HandleQueue(l, TRUE, que[l]) /\ que[l] \in Seq(ReqFrames)
    BY <1>3, <1>t DEF KeyWriteCb
  <2>3. /\ Moved(que[l], toPa[l], atPa[l], fromPa[l], que'[l], toPa'[l], atPa[l], fromPa[l])
        /\ \A m \in Links : m # l => que'[m] = que[m] /\ toPa'[m] = toPa[m]
    BY <2>2, HandleQueueMoved
  <2>4. \A m \in Links : m # l => MovedOn(m)
    BY <2>1, <2>3, Unmoved
  <2>5. QED BY <2>1, <2>3, <2>4, <1>q
<1>4. ASSUME NEW l \in Links, PaReadErr(l), UNCHANGED peerVars PROVE Delivery'
  <2>1. UNCHANGED <<que, toPa, atPa, asked, collided, contexts, answers, crashed>>
    BY <1>4 DEF PaReadErr, caVars, peerVars
  <2>2. \A m \in Links : fromPa'[m] \in {fromPa[m], <<>>}
    BY <1>4, <1>t DEF PaReadErr
  <2>3. QED BY <2>1, <2>2, <1>q, MoveDrop
<1>5. ASSUME NEW l \in Links, PeerRead(l) \/ PeerIgnore(l) PROVE Delivery'
  <2>1. UNCHANGED <<que, fromPa, asked, collided, contexts, answers, crashed>>
    BY <1>5 DEF PeerRead, PeerIgnore, caVars
  <2>2. toPa[l] # <<>> /\ \A m \in Links : toPa'[m] = IF m = l THEN Tail(toPa[l]) ELSE toPa[m]
    BY <1>5, <1>t DEF PeerRead, PeerIgnore
  <2>3. /\ atPa'[l] = atPa[l] \/ atPa'[l] = atPa[l] \cup {Head(toPa[l])}
        /\ \A m \in Links : m # l => atPa'[m] = atPa[m]
    BY <1>5, <1>t DEF PeerRead, PeerIgnore
  <2>4. MovedOn(l)
    <3>1. /\ Moved(que[l], toPa[l], atPa[l], fromPa[l], que[l], Tail(toPa[l]), atPa[l] \cup {Head(toPa[l])}, fromPa[l])
          /\ Moved(que[l], toPa[l], atPa[l], fromPa[l], que[l], Tail(toPa[l]), atPa[l], fromPa[l])
      BY <2>2, <1>t, MoveRead
    <3>2. QED BY <2>1, <2>2, <2>3, <3>1
  <2>5. \A m \in Links : m # l => MovedOn(m)
    BY <2>1, <2>2, <2>3, Unmoved
  <2>6. QED BY <2>1, <2>4, <2>5, <1>q
<1>6. ASSUME NEW l \in Links, NEW f \in atPa[l], PeerAnswer(l, f) PROVE Delivery'
  <2>1. UNCHANGED <<que, toPa, asked, collided, contexts, answers, crashed>>
    BY <1>6 DEF PeerAnswer, caVars
  <2>2. \A m \in Links : atPa'[m] = IF m = l THEN atPa[l] \ {f} ELSE atPa[m]
    BY <1>6, <1>t DEF PeerAnswer
  <2>3. /\ fromPa'[l] = fromPa[l] \/ fromPa'[l] = fromPa[l] \o <<f>>
        /\ \A m \in Links : m # l => fromPa'[m] = fromPa[m]
    BY <1>6, <1>t DEF PeerAnswer, Written
  <2>4. MovedOn(l)
    <3>1. /\ Moved(que[l], toPa[l], atPa[l], fromPa[l], que[l], toPa[l], atPa[l] \ {f}, fromPa[l] \o <<f>>)
          /\ Moved(que[l], toPa[l], atPa[l], fromPa[l], que[l], toPa[l], atPa[l] \ {f}, fromPa[l])
      BY <1>t, MoveAnswer
    <3>2. QED BY <2>1, <2>2, <2>3, <3>1
  <2>5. \A m \in Links : m # l => MovedOn(m)
    BY <2>1, <2>2, <2>3, Unmoved
  <2>6. QED BY <2>1, <2>4, <2>5, <1>q
<1>m. ASSUME NEW l \in Links, NEW f \in atPa[l], NEW x \in Links, PeerMisdirect(l, f, x) PROVE Delivery'
  <2>1. /\ UNCHANGED <<que, toPa, asked, collided, contexts, answers, crashed>>
        /\ EndpointOf[l] \in collided /\ EndpointOf[x] = EndpointOf[l]
    BY <1>m DEF PeerMisdirect, caVars
  <2>2. \A m \in Links : atPa'[m] \in SUBSET atPa[m] /\ (m # l => atPa'[m] = atPa[m])
    BY <1>m, <1>t DEF PeerMisdirect
  <2>3. /\ fromPa'[x] = fromPa[x] \/ fromPa'[x] = fromPa[x] \o <<f>>
        /\ \A m \in Links : m # x => fromPa'[m] = fromPa[m]
    BY <1>m, <1>t DEF PeerMisdirect, Written
  <2>4. \A m \in Links : Moved(que[m], toPa[m], atPa[m], fromPa[m], que[m], toPa[m], atPa'[m], fromPa[m])
    BY <2>2, MoveDrop
  <2>5. \A m \in Links :
           /\ Outbound(m)' \subseteq Outbound(m)
           /\ Unique(que[m], toPa[m], atPa[m], <<>>, "body") => Unique(que'[m], toPa'[m], atPa'[m], <<>>, "body")
    BY <2>1, <2>4 DEF Moved, Outbound
  <2>6. \A m \in Links : m # x => Flight(m)' \subseteq Flight(m) /\ (UniqueOn(m) => UniqueOn(m)')
    BY <2>1, <2>3, <2>4 DEF Moved, Flight, UniqueOn
  <2>7. f \in Flight(l)
    <3>1. f.type = "req"
      BY <1>t DEF ReqFrames
    <3>2. QED BY <3>1 DEF Flight, Reqs, Frames
  <2>8. Flight(x)' \subseteq Flight(x) \cup {f}
    <3>1. <<f>> \in Seq(ReqFrames) /\ fromPa[x] \in Seq(ReqFrames) /\ Elements(<<f>>) = {f}
      BY <1>t, OneFacts
    <3>2. Elements(fromPa[x] \o <<f>>) = Elements(fromPa[x]) \cup {f}
      <4> DEFINE t == <<f>>
      <4> HIDE DEF t
      <4>1. t \in Seq(ReqFrames) /\ Elements(t) = {f}
        BY <3>1 DEF t
      <4>2. Elements(fromPa[x] \o t) = Elements(fromPa[x]) \cup Elements(t)
        BY <3>1, <4>1, ConcatFacts
      <4>3. QED BY <4>1, <4>2 DEF t
    <3>3. Elements(fromPa'[x]) \subseteq Elements(fromPa[x]) \cup {f}
      BY <2>3, <3>2
    <3>4. atPa'[x] \subseteq atPa[x]
      BY <2>2
    <3>5. QED BY <2>1, <3>3, <3>4 DEF Flight, Reqs, Frames
  <2>9. QED BY <2>1, <2>5, <2>6, <2>7, <2>8, DeliveryShrinks
<1>7. ASSUME NEW l \in Links, PeerDrop(l) PROVE Delivery'
  <2>1. UNCHANGED <<que, fromPa, atPa, asked, collided, contexts, answers, crashed>>
    BY <1>7 DEF PeerDrop, caVars
  <2>2. \A m \in Links : toPa'[m] \in {toPa[m], <<>>}
    BY <1>7, <1>t DEF PeerDrop
  <2>3. QED BY <2>1, <2>2, <1>q, MoveDrop
<1>8. ASSUME NEW lost, PeerLose(lost) PROVE Delivery'
  <2>1. UNCHANGED <<que, toPa, fromPa, asked, collided, contexts, answers, crashed>>
    BY <1>8 DEF PeerLose, caVars, wireVars
  <2>2. \A m \in Links : atPa'[m] \in SUBSET atPa[m]
    BY <1>8, <1>t DEF PeerLose
  <2>3. QED BY <2>1, <2>2, <1>q, MoveDrop
<1>9. ASSUME \/ UNCHANGED vars
             \/ \E c \in Conns : HttpClose(c) /\ UNCHANGED peerVars
             \/ \E l \in Links : /\ OnConnErr(l) \/ KeyWriteErr(l) \/ (LinkReset(l) /\ UNCHANGED caVars)
                                 /\ UNCHANGED peerVars
      PROVE  Delivery'
  <2>1. UNCHANGED <<que, toPa, atPa, fromPa, asked, collided, contexts, answers, crashed>>
    BY <1>9 DEF vars, caVars, wireVars, peerVars, HttpClose, OnConnErr, KeyWriteErr, LinkReset
  <2>2. QED BY <2>1, <1>1
<1>10. QED BY <1>2, <1>3, <1>4, <1>5, <1>6, <1>m, <1>7, <1>8, <1>9 DEF Peer

\* A request arrives.
LEMMA FetchDelivery ==
    ASSUME Basic, Delivery, NEW c \in Conns, NEW k \in Keys, NEW l \in Links, NEW id \in Rand,
           Fetch(c, k, l, id), UNCHANGED peerVars
    PROVE  Delivery'
<1> DEFINE n == Len(asked) + 1
           e == ReqFrame(id, n)
           req == [conn |-> c, link |-> l, key |-> k, id |-> id]
<1>1. /\ asked \in Seq(Request) /\ id \in Ids /\ Len(asked) \in Nat /\ req \in Request
      /\ que \in [Links -> Seq(ReqFrames)] /\ contexts \in [Links -> [Ids -> Conns \cup {NoConn}]]
      /\ toPa \in [Links -> Seq(WireFrames)]
      /\ fromPa \in [Links -> Seq(ReqFrames)] /\ atPa \in [Links -> SUBSET ReqFrames]
  BY DEF Rand, Basic, CaTypeOK, PeerTypeOK, Request, WireFrames
<1>2. e \in ReqFrames /\ e.id = id /\ e.body = n
  BY <1>1 DEF ReqFrame, ReqFrames
<1>3. /\ n \notin DOMAIN asked /\ n \in DOMAIN asked' /\ asked'[n] = req
      /\ \A m \in DOMAIN asked : m \in DOMAIN asked' /\ asked'[m] = asked[m]
  <2>1. asked' = Append(asked, req)
    BY DEF Fetch
  <2>2. QED BY <1>1, <2>1
<1>4. UNCHANGED <<fromPa, atPa, answers, crashed>>
  BY DEF Fetch, peerVars
<1>5. Append(que[l], e) \in Seq(ReqFrames)
  BY <1>1, <1>2
<1>6. /\ Moved(Append(que[l], e), toPa[l], atPa[l], fromPa[l], que'[l], toPa'[l], atPa[l], fromPa[l])
      /\ \A m \in Links : m # l => que'[m] = que[m] /\ toPa'[m] = toPa[m]
  <2>1. HandleQueue(l, stage[l] = "ready", Append(que[l], e)) /\ (stage[l] = "ready") \in BOOLEAN
    BY DEF Fetch
  <2>2. QED BY <1>5, <2>1, HandleQueueMoved
<1>7. /\ \A b : Reqs(Append(que[l], e), toPa[l], atPa[l], b) \subseteq Reqs(que[l], toPa[l], atPa[l], b) \cup {e}
      /\ UniqueOn(l) /\ (\A g \in Frames(que[l], toPa[l], atPa[l], fromPa[l]) : g.id # e.id)
            => Unique(Append(que[l], e), toPa[l], atPa[l], fromPa[l], "id")
      /\ (\A g \in Frames(que[l], toPa[l], atPa[l], <<>>) : g.body # e.body)
            => Unique(Append(que[l], e), toPa[l], atPa[l], <<>>, "body")
  <2>1. Unique(que[l], toPa[l], atPa[l], <<>>, "body")
    BY DEF Delivery, Once
  <2>2. que[l] \in Seq(ReqFrames) /\ e \in ReqFrames
    BY <1>1, <1>2
  <2> HIDE DEF e
  <2>3. \A b : /\ Reqs(Append(que[l], e), toPa[l], atPa[l], b) \subseteq Reqs(que[l], toPa[l], atPa[l], b) \cup {e}
               /\ Unique(que[l], toPa[l], atPa[l], b, "id")
                    /\ (\A g \in Frames(que[l], toPa[l], atPa[l], b) : g.id # e.id)
                    => Unique(Append(que[l], e), toPa[l], atPa[l], b, "id")
    BY <2>2, QueueRequest
  <2>4. Unique(que[l], toPa[l], atPa[l], <<>>, "body")
            /\ (\A g \in Frames(que[l], toPa[l], atPa[l], <<>>) : g.body # e.body)
            => Unique(Append(que[l], e), toPa[l], atPa[l], <<>>, "body")
    BY <2>2, QueueRequest
  <2>5. QED BY <2>1, <2>3, <2>4 DEF UniqueOn
<1>8. /\ Flight(l)' \subseteq Flight(l) \cup {e} /\ Outbound(l)' \subseteq Outbound(l) \cup {e}
      /\ UniqueOn(l) /\ (\A g \in Frames(que[l], toPa[l], atPa[l], fromPa[l]) : g.id # e.id) => UniqueOn(l)'
      /\ (\A g \in Frames(que[l], toPa[l], atPa[l], <<>>) : g.body # e.body)
            => Unique(que'[l], toPa'[l], atPa'[l], <<>>, "body")
      /\ \A m \in Links : m # l => /\ Flight(m)' = Flight(m) /\ Outbound(m)' = Outbound(m)
                                   /\ UniqueOn(m) => UniqueOn(m)'
  <2>1. Flight(l)' \subseteq Flight(l) \cup {e} /\ Outbound(l)' \subseteq Outbound(l) \cup {e}
    BY <1>4, <1>6, <1>7 DEF Moved, Flight, Outbound
  <2>2. UniqueOn(l) /\ (\A g \in Frames(que[l], toPa[l], atPa[l], fromPa[l]) : g.id # e.id) => UniqueOn(l)'
    BY <1>4, <1>6, <1>7 DEF Moved, UniqueOn
  <2>3. \A m \in Links : m # l => /\ Flight(m)' = Flight(m) /\ Outbound(m)' = Outbound(m)
                                  /\ UniqueOn(m) => UniqueOn(m)'
    BY <1>4, <1>6 DEF UniqueOn, Flight, Outbound
  <2>4. (\A g \in Frames(que[l], toPa[l], atPa[l], <<>>) : g.body # e.body)
            => Unique(que'[l], toPa'[l], atPa'[l], <<>>, "body")
    BY <1>4, <1>6, <1>7 DEF Moved
  <2>5. QED BY <2>1, <2>2, <2>3, <2>4
<1>9. collided \subseteq collided' /\ (InUse(l, id) => EndpointOf[l] \in collided')
  BY DEF Fetch
<1>10. /\ contexts'[l][id] = c
       /\ \A m \in Links : \A i \in Ids : m # l \/ i # id => contexts'[m][i] = contexts[m][i]
  <2>1. contexts' = [contexts EXCEPT ![l][id] = c]
    BY DEF Fetch
  <2>2. QED BY <1>1, <2>1
<1>11. \A m \in Links : \A f \in Flight(m) : f.id \in Ids
  BY FrameFacts DEF Flight, Reqs
<1>12. Traced' /\ Sent'
  <2>1. ASSUME NEW m \in Links, NEW f \in Flight(m)'
        PROVE  /\ f.body \in DOMAIN asked'
               /\ asked'[f.body].id = f.id
               /\ \/ asked'[f.body].link = m
                  \/ EndpointOf[m] \in collided' /\ EndpointOf[asked'[f.body].link] = EndpointOf[m]
    <3>1. CASE f \in Flight(m)
      BY <1>3, <1>9, <3>1 DEF Delivery, Traced
    <3>2. CASE m = l /\ f = e
      BY <1>2, <1>3, <3>2
    <3>3. QED BY <1>8, <3>1, <3>2
  <2>2. ASSUME NEW m \in Links, NEW f \in Outbound(m)' PROVE asked'[f.body].link = m
    <3>1. CASE f \in Outbound(m)
      <4>1. f \in Flight(m)
        BY <3>1, EmptyFacts DEF Outbound, Flight, Reqs, Frames
      <4>2. QED BY <1>3, <3>1, <4>1 DEF Delivery, Traced, Sent
    <3>2. CASE m = l /\ f = e
      BY <1>2, <1>3, <3>2
    <3>3. QED BY <1>8, <3>1, <3>2
  <2>3. QED BY <2>1, <2>2 DEF Traced, Sent
<1>o. Once'
  <2>1. ASSUME NEW g \in Frames(que[l], toPa[l], atPa[l], <<>>) PROVE g.body # n
    <3>1. g \in Frames(que[l], toPa[l], atPa[l], fromPa[l])
      BY EmptyFacts DEF Frames
    <3>2. CASE g.type = "req"
      <4>1. g.body \in DOMAIN asked
        BY <3>1, <3>2 DEF Delivery, Traced, Flight, Reqs
      <4>2. QED BY <1>3, <4>1
    <3>3. CASE g.type # "req"
      <4>1. g.body = -1
        BY <3>1, <3>3, FrameFacts
      <4>2. QED BY <1>1, <4>1
    <3>4. QED BY <3>2, <3>3
  <2>2. \A m \in Links : m # l => que'[m] = que[m] /\ toPa'[m] = toPa[m] /\ atPa'[m] = atPa[m]
    BY <1>4, <1>6
  <2>3. QED BY <1>2, <1>8, <2>1, <2>2 DEF Delivery, Once
<1>x. Exclusive'
  <2> SUFFICES ASSUME NEW m1 \in Links, NEW m2 \in Links, NEW i \in Ids,
                      EndpointOf[m1] = EndpointOf[m2], EndpointOf[m1] \notin collided',
                      contexts'[m1][i] # NoConn, contexts'[m2][i] # NoConn, m1 # m2
               PROVE  FALSE
    BY DEF Exclusive
  <2>1. EndpointOf[m1] \notin collided
    BY <1>9
  <2>2. CASE i = id /\ (m1 = l \/ m2 = l)
    <3>1. EndpointOf[l] \notin collided'
      BY <2>2
    <3>2. \A m \in Links : EndpointOf[m] = EndpointOf[l] => contexts[m][id] = NoConn
      BY <1>9, <3>1 DEF InUse
    <3>3. QED BY <1>1, <1>10, <2>2, <3>2
  <2>3. CASE ~(i = id /\ (m1 = l \/ m2 = l))
    <3>1. contexts[m1][i] # NoConn /\ contexts[m2][i] # NoConn
      BY <1>10, <2>3
    <3>2. QED BY <2>1, <3>1 DEF Delivery, Exclusive
  <2>4. QED BY <2>2, <2>3
<1>13. Routed'
  <2> SUFFICES ASSUME NEW m \in Links, EndpointOf[m] \notin collided'
               PROVE  UniqueOn(m)' /\ \A f \in Flight(m)' : contexts'[m][f.id] = asked'[f.body].conn
    BY DEF Routed
  <2>1. EndpointOf[m] \notin collided
    BY <1>9
  <2>2. UniqueOn(m) /\ \A f \in Flight(m) : contexts[m][f.id] = asked[f.body].conn
    BY <2>1 DEF Delivery, Routed
  <2>3. \A f \in Flight(m) : f.body \in DOMAIN asked
    BY DEF Delivery, Traced
  <2>4. CASE m # l
    BY <1>3, <1>8, <1>10, <1>11, <2>2, <2>3, <2>4
  <2>5. CASE m = l
    <3>1. contexts[l][id] = NoConn
      BY <1>9, <2>5 DEF InUse
    <3>2. \A f \in Flight(l) : f.id # id
      BY <2>2, <2>3, <2>5, <3>1, AskedFacts
    <3>3. \A g \in Frames(que[l], toPa[l], atPa[l], fromPa[l]) : g.id # id
      <4>1. id # -1
        BY <1>1, WireAssumption
      <4>2. QED BY <3>2, <4>1, FrameFacts DEF Flight, Reqs
    <3>4. UniqueOn(l)'
      BY <1>2, <1>8, <2>2, <2>5, <3>3
    <3>5. ASSUME NEW f \in Flight(l)' PROVE contexts'[l][f.id] = asked'[f.body].conn
      <4>1. CASE f \in Flight(l)
        BY <1>3, <1>10, <1>11, <2>2, <2>3, <2>5, <3>2, <4>1
      <4>2. CASE f = e
        BY <1>2, <1>3, <1>10, <4>2
      <4>3. QED BY <1>8, <4>1, <4>2
    <3>6. QED BY <2>5, <3>4, <3>5
  <2>6. QED BY <2>4, <2>5
<1>14. \A m \in DOMAIN asked : Sound(m)' => Sound(m)
  BY <1>3, <1>9 DEF Sound
<1>15. Settled'
  <2> SUFFICES ASSUME NEW d \in Conns, NEW j \in DOMAIN answers'[d], NEW a, a = answers'[d][j]
               PROVE  /\ a \in DOMAIN asked'
                      /\ EndpointOf[asked'[a].link] \notin collided' =>
                            /\ asked'[a].conn = d
                            /\ \A f \in Reqs(que'[asked'[a].link], toPa'[asked'[a].link],
                                             atPa'[asked'[a].link], fromPa'[asked'[a].link]) : f.body # a
    BY DEF Settled, Sound, Flight
  <2>1. j \in DOMAIN answers[d] /\ a = answers[d][j]
    BY <1>4
  <2>2. /\ a \in DOMAIN asked
        /\ EndpointOf[asked[a].link] \notin collided =>
              asked[a].conn = d /\ \A f \in Flight(asked[a].link) : f.body # a
    BY <2>1 DEF Delivery, Settled, Sound
  <2>3. PICK x \in Links : x = asked[a].link
    BY <2>2, AskedFacts
  <2>4. asked'[a] = asked[a] /\ a \in DOMAIN asked' /\ a # n
    BY <1>3, <2>2
  <2>5. \A f \in Reqs(que'[x], toPa'[x], atPa'[x], fromPa'[x]) : f \in Flight(x) \/ f = e
    BY <1>8 DEF Flight
  <2>6. QED BY <1>2, <1>9, <2>2, <2>3, <2>4, <2>5
<1>16. AnsweredOnce'
  <2>1. \A d \in Conns : \A j \in DOMAIN answers[d] : answers[d][j] \in DOMAIN asked
    BY DEF Delivery, Settled
  <2>2. QED BY <1>4, <1>14, <2>1 DEF Delivery, AnsweredOnce
<1>17. CrashNeedsCollision'
  BY <1>4, <1>9 DEF Delivery, CrashNeedsCollision
<1>18. QED BY <1>12, <1>o, <1>x, <1>13, <1>15, <1>16, <1>17 DEF Delivery

\* A reply arrives.
LEMMA PaReadCbDelivery ==
    ASSUME Basic, Delivery, NEW l \in Links, PaReadCb(l), UNCHANGED peerVars
    PROVE  Delivery'
<1> DEFINE f == Head(fromPa[l])
<1>1. /\ fromPa \in [Links -> Seq(ReqFrames)] /\ fromPa[l] # <<>>
      /\ contexts \in [Links -> [Ids -> Conns \cup {NoConn}]]
      /\ answers \in [Conns -> Seq(Nat)] /\ crashed \in [Agents -> BOOLEAN]
  BY DEF PaReadCb, Basic, CaTypeOK
<1>2. UNCHANGED <<que, toPa, atPa, asked, collided>>
  BY DEF PaReadCb, peerVars
<1>3. \A m \in Links : fromPa'[m] = IF m = l THEN Tail(fromPa[l]) ELSE fromPa[m]
  BY <1>1 DEF PaReadCb
<1>4. /\ Moved(que[l], toPa[l], atPa[l], fromPa[l], que[l], toPa[l], atPa[l], Tail(fromPa[l]))
      /\ f \in Flight(l)
      /\ UniqueOn(l) => \A g \in Reqs(que[l], toPa[l], atPa[l], Tail(fromPa[l])) : g.id # f.id
  BY <1>1, MoveTake DEF Flight, UniqueOn
<1>5. \A m \in Links : Moved(que[m], toPa[m], atPa[m], fromPa[m], que'[m], toPa'[m], atPa'[m], fromPa'[m])
  BY <1>2, <1>3, <1>4, Unmoved
<1>6. /\ \A m \in Links : /\ Flight(m)' \subseteq Flight(m) /\ Outbound(m)' \subseteq Outbound(m)
                          /\ UniqueOn(m) => UniqueOn(m)'
      /\ UniqueOn(l) => \A g \in Flight(l)' : g.id # f.id
  BY <1>2, <1>3, <1>4, <1>5 DEF Moved, Flight, Outbound, UniqueOn
<1>7. f.id \in Ids
  BY <1>4, FrameFacts DEF Flight, Reqs
<1>8. /\ f.body \in DOMAIN asked
      /\ EndpointOf[asked[f.body].link] = EndpointOf[l]
      /\ EndpointOf[l] \notin collided => asked[f.body].link = l
  BY <1>4 DEF Delivery, Traced
<1>o. Once'
  BY <1>2 DEF Delivery, Once
<1>x. ASSUME \A m \in Links : \A i \in Ids : contexts'[m][i] \in {contexts[m][i], NoConn}
      PROVE  Exclusive'
  BY <1>2, <1>x DEF Delivery, Exclusive
<1>9. EndpointOf[l] \notin collided => UniqueOn(l) /\ contexts[l][f.id] = asked[f.body].conn
  BY <1>4 DEF Delivery, Routed
<1>10. CASE contexts[l][f.id] = NoConn
  <2>1. crashed' = [crashed EXCEPT ![AgentOf[l]] = TRUE] /\ UNCHANGED <<contexts, answers>>
    BY <1>10 DEF PaReadCb, ContextOf
  <2>2. EndpointOf[l] \in collided
    BY <1>8, <1>9, <1>10, AskedFacts
  <2>3. CrashNeedsCollision'
    <3> SUFFICES ASSUME NEW a \in Agents, crashed'[a]
                 PROVE  \E m \in Links : AgentOf[m] = a /\ EndpointOf[m] \in collided
      BY <1>2 DEF CrashNeedsCollision
    <3>1. CASE a = AgentOf[l]
      BY <2>2, <3>1
    <3>2. CASE a # AgentOf[l]
      <4>1. crashed[a]
        BY <1>1, <2>1, <3>2
      <4>2. QED BY <4>1 DEF Delivery, CrashNeedsCollision
    <3>3. QED BY <3>1, <3>2
  <2>4. Traced' /\ Sent' /\ Routed' /\ Exclusive'
    BY <1>2, <1>6, <1>x, <2>1 DEF Delivery, Traced, Sent, Routed
  <2>5. Settled'
    <3> SUFFICES ASSUME NEW d \in Conns, NEW j \in DOMAIN answers[d], NEW a, a = answers[d][j]
                 PROVE  /\ a \in DOMAIN asked
                        /\ EndpointOf[asked[a].link] \notin collided =>
                              /\ asked[a].conn = d
                              /\ \A g \in Reqs(que'[asked[a].link], toPa'[asked[a].link],
                                               atPa'[asked[a].link], fromPa'[asked[a].link]) : g.body # a
      BY <1>2, <2>1 DEF Settled, Sound, Flight
    <3>1. /\ a \in DOMAIN asked
          /\ EndpointOf[asked[a].link] \notin collided =>
                asked[a].conn = d /\ \A g \in Flight(asked[a].link) : g.body # a
      BY DEF Delivery, Settled, Sound
    <3>2. PICK x \in Links : x = asked[a].link
      BY <3>1, AskedFacts
    <3>3. Reqs(que'[x], toPa'[x], atPa'[x], fromPa'[x]) \subseteq Flight(x)
      BY <1>6 DEF Flight
    <3>4. QED BY <3>1, <3>2, <3>3
  <2>6. AnsweredOnce'
    BY <1>2, <2>1 DEF Delivery, AnsweredOnce, Sound
  <2>7. QED BY <1>o, <2>3, <2>4, <2>5, <2>6 DEF Delivery
<1>11. CASE contexts[l][f.id] # NoConn
  <2>1. PICK c \in Conns : c = contexts[l][f.id]
    BY <1>1, <1>7, <1>11
  <2>2. /\ contexts' = [contexts EXCEPT ![l][f.id] = NoConn]
        /\ answers' = IF open[c] THEN [answers EXCEPT ![c] = Append(answers[c], f.body)] ELSE answers
        /\ crashed' = crashed
    BY <1>1, <1>11, <2>1 DEF PaReadCb, Erase, ContextOf
  <2>3. \A m \in Links : \A i \in Ids : m # l \/ i # f.id => contexts'[m][i] = contexts[m][i]
    BY <1>1, <1>7, <2>2
  <2>4. Traced' /\ Sent' /\ Exclusive'
    <3>1. \A m \in Links : \A i \in Ids : contexts'[m][i] \in {contexts[m][i], NoConn}
      BY <1>1, <1>7, <2>2
    <3>2. QED BY <1>2, <1>6, <1>x, <3>1 DEF Delivery, Traced, Sent
  <2>5. Routed'
    <3> SUFFICES ASSUME NEW m \in Links, EndpointOf[m] \notin collided
                 PROVE  UniqueOn(m)' /\ \A g \in Flight(m)' : contexts'[m][g.id] = asked[g.body].conn
      BY <1>2 DEF Routed
    <3>1. UniqueOn(m) /\ \A g \in Flight(m) : contexts[m][g.id] = asked[g.body].conn
      BY DEF Delivery, Routed
    <3>2. \A g \in Flight(m)' : g \in Flight(m) /\ g.id \in Ids /\ (m # l \/ g.id # f.id)
      BY <1>6, <3>1, FrameFacts DEF Flight, Reqs
    <3>3. QED BY <1>6, <2>3, <3>1, <3>2
  <2>6. \* Every answer is an old one or the reply just read.
        \A d \in Conns : \A j \in DOMAIN answers'[d] :
            \/ j \in DOMAIN answers[d] /\ answers'[d][j] = answers[d][j]
            \/ d = c /\ j = Len(answers[c]) + 1 /\ answers'[d][j] = f.body
    <3>1. CASE open[c]
      <4>1. \A d \in Conns : answers'[d] = IF d = c THEN Append(answers[c], f.body) ELSE answers[d]
        BY <1>1, <2>2, <3>1
      <4>2. answers[c] \in Seq(Nat)
        BY <1>1
      <4>3. \A j \in DOMAIN Append(answers[c], f.body) :
               \/ j \in DOMAIN answers[c] /\ Append(answers[c], f.body)[j] = answers[c][j]
               \/ j = Len(answers[c]) + 1 /\ Append(answers[c], f.body)[j] = f.body
        BY <4>2
      <4>4. QED BY <4>1, <4>3
    <3>2. CASE ~open[c]
      BY <2>2, <3>2
    <3>3. QED BY <3>1, <3>2
  <2>7. EndpointOf[l] \notin collided => asked[f.body].conn = c /\ \A g \in Flight(l)' : g.body # f.body
    <3> SUFFICES ASSUME EndpointOf[l] \notin collided, NEW g \in Flight(l)'
                 PROVE  g.body # f.body
      BY <1>9, <2>1
    <3>1. g \in Flight(l) /\ g.id # f.id
      BY <1>6, <1>9
    <3>2. asked[g.body].id = g.id /\ asked[f.body].id = f.id
      BY <1>4, <3>1 DEF Delivery, Traced
    <3>3. QED BY <3>1, <3>2
  <2>8. Settled'
    <3> SUFFICES ASSUME NEW d \in Conns, NEW j \in DOMAIN answers'[d], NEW a, a = answers'[d][j]
                 PROVE  /\ a \in DOMAIN asked
                        /\ EndpointOf[asked[a].link] \notin collided =>
                              /\ asked[a].conn = d
                              /\ \A g \in Reqs(que'[asked[a].link], toPa'[asked[a].link],
                                               atPa'[asked[a].link], fromPa'[asked[a].link]) : g.body # a
      BY <1>2 DEF Settled, Sound, Flight
    <3>1. CASE j \in DOMAIN answers[d] /\ a = answers[d][j]
      <4>1. /\ a \in DOMAIN asked
            /\ EndpointOf[asked[a].link] \notin collided =>
                  asked[a].conn = d /\ \A g \in Flight(asked[a].link) : g.body # a
        BY <3>1 DEF Delivery, Settled, Sound
      <4>2. PICK x \in Links : x = asked[a].link
        BY <4>1, AskedFacts
      <4>3. Reqs(que'[x], toPa'[x], atPa'[x], fromPa'[x]) \subseteq Flight(x)
        BY <1>6 DEF Flight
      <4>4. QED BY <4>1, <4>2, <4>3
    <3>2. CASE d = c /\ a = f.body
      BY <1>8, <2>7, <3>2 DEF Flight
    <3>3. QED BY <2>6, <3>1, <3>2
  <2>9. AnsweredOnce'
    <3>1. \* The reply just read answers a request that had no answer.
          EndpointOf[l] \notin collided => \A d \in Conns : \A j \in DOMAIN answers[d] : answers[d][j] # f.body
      <4> SUFFICES ASSUME EndpointOf[l] \notin collided, NEW d \in Conns, NEW j \in DOMAIN answers[d],
                          answers[d][j] = f.body
                   PROVE  FALSE
        OBVIOUS
      <4>1. Sound(f.body)
        BY <1>8 DEF Sound
      <4>2. \A g \in Flight(asked[f.body].link) : g.body # f.body
        BY <4>1 DEF Delivery, Settled
      <4>3. QED BY <1>4, <1>8, <4>2
    <3> SUFFICES ASSUME NEW d1 \in Conns, NEW d2 \in Conns,
                        NEW i \in DOMAIN answers'[d1], NEW j \in DOMAIN answers'[d2],
                        answers'[d1][i] = answers'[d2][j],
                        EndpointOf[asked[answers'[d1][i]].link] \notin collided
                 PROVE  d1 = d2 /\ i = j
      BY <1>2 DEF AnsweredOnce, Sound
    <3>2. CASE /\ i \in DOMAIN answers[d1] /\ answers'[d1][i] = answers[d1][i]
               /\ j \in DOMAIN answers[d2] /\ answers'[d2][j] = answers[d2][j]
      <4>1. answers[d1][i] = answers[d2][j] /\ EndpointOf[asked[answers[d1][i]].link] \notin collided
        BY <3>2
      <4>2. AnsweredOnce
        BY DEF Delivery
      <4>3. QED BY <3>2, <4>1, <4>2 DEF AnsweredOnce, Sound
    <3>3. CASE answers'[d1][i] = f.body
      <4>1. EndpointOf[l] \notin collided
        BY <1>8, <3>3
      <4>2. d1 = c /\ i = Len(answers[c]) + 1 /\ d2 = c /\ j = Len(answers[c]) + 1
        BY <2>6, <3>1, <3>3, <4>1
      <4>3. QED BY <4>2
    <3>4. QED BY <2>6, <3>2, <3>3
  <2>10. CrashNeedsCollision'
    BY <1>2, <2>2 DEF Delivery, CrashNeedsCollision
  <2>11. QED BY <1>o, <2>4, <2>5, <2>8, <2>9, <2>10 DEF Delivery
<1>12. QED BY <1>10, <1>11

\* Delivery is inductive relative to Basic.
LEMMA DeliveryStep == Basic /\ Delivery /\ [Next]_vars => Delivery'
<1> SUFFICES ASSUME Basic, Delivery, [Next]_vars PROVE Delivery'
  OBVIOUS
<1>1. ASSUME NEW c \in Conns, NEW k \in Keys, NEW l \in Links, NEW id \in Rand,
             Fetch(c, k, l, id), UNCHANGED peerVars
      PROVE  Delivery'
  BY <1>1, FetchDelivery
<1>2. ASSUME NEW l \in Links, PaReadCb(l), UNCHANGED peerVars PROVE Delivery'
  BY <1>2, PaReadCbDelivery
<1>3. CASE \/ \E c \in Conns : HttpClose(c) /\ UNCHANGED peerVars
           \/ \E l \in Links : /\ \/ OnConn(l) \/ OnConnErr(l) \/ KeyWriteCb(l) \/ KeyWriteErr(l) \/ PaReadErr(l)
                                  \/ (LinkReset(l) /\ UNCHANGED caVars)
                               /\ UNCHANGED peerVars
           \/ \E l \in Links : Peer(l)
           \/ \E lost \in SUBSET UNION {atPa[l] : l \in Links} : PeerLose(lost)
           \/ UNCHANGED vars
  BY <1>3, OtherDelivery
<1>4. QED BY <1>1, <1>2, <1>3 DEF Next, HttpNext, Agent, LinkNext, Fault

\* Both hold in every reachable state.
LEMMA DeliveryInvariant == Spec => [](Basic /\ Delivery)
<1>1. Init => Basic /\ Delivery
  BY BasicInit, DeliveryInit
<1>2. (Basic /\ Delivery) /\ [Next]_vars => (Basic /\ Delivery)'
  BY BasicStep, DeliveryStep
<1>3. QED BY <1>1, <1>2, PTL DEF Spec

\* However replies are reordered, requests and replies lost, connections
\* refused and reset, and HTTP clients gone, act_done_callback (ca.cc 178-215)
\* writes a result on the connection that asked for it, unless rand() handed
\* out an id that was in use at that endpoint.
THEOREM CaAnswersMatch == Spec => []AnswersMatch
<1>1. Delivery => AnswersMatch
  BY DEF Delivery, Settled, AnswersMatch
<1>2. QED BY <1>1, DeliveryInvariant, PTL

\* _pa_read_cb (pa_client.cc 61-71) never answers a request twice.
THEOREM CaAnsweredOnce == Spec => []AnsweredOnce
<1>1. Delivery => AnsweredOnce
  BY DEF Delivery
<1>2. QED BY <1>1, DeliveryInvariant, PTL

\* The unchecked call at pa_client.cc:67 brings an agent down only after an id
\* in use was drawn at an endpoint it talks to.
THEOREM CaCrashNeedsCollision == Spec => []CrashNeedsCollision
<1>1. Delivery => CrashNeedsCollision
  BY DEF Delivery
<1>2. QED BY <1>1, DeliveryInvariant, PTL

-----------------------------------------------------------------------------
\* The refinement of RpcService.

\* The n-th request has its result.
HasAnswer(n) == \E j \in DOMAIN answers[asked[n].conn] : answers[asked[n].conn][j] = n

\* Of the requests of an open connection at most one is unanswered, and none
\* when the connection is not waiting.
Waiting ==
    collided = {} =>
        \A n \in DOMAIN asked :
            open[asked[n].conn] /\ ~HasAnswer(n) =>
                /\ busy[asked[n].conn]
                /\ \A m \in DOMAIN asked :
                    asked[m].conn = asked[n].conn /\ ~HasAnswer(m) => m = n

-----------------------------------------------------------------------------
\* Initially nothing was asked.
LEMMA WaitingInit == Init => Waiting
  BY DEF Init, CaInit, Waiting

\* A step that changes neither requests nor results nor who waits for them,
\* except that connections are closed.
LEMMA WaitingUntouched ==
    ASSUME Basic, Waiting, UNCHANGED <<asked, answers, busy, collided>>,
           \A c \in Conns : open'[c] => open[c]
    PROVE  Waiting'
<1>1. \A n \in DOMAIN asked : HasAnswer(n)' <=> HasAnswer(n)
  BY DEF HasAnswer
<1>2. \A n \in DOMAIN asked : asked[n].conn \in Conns
  BY AskedFacts
<1>3. QED BY <1>1, <1>2 DEF Waiting

\* What a request adds to the history.
LEMMA FetchAsked ==
    ASSUME Basic, NEW c \in Conns, NEW k \in Keys, NEW l \in Links, NEW id \in Rand,
           Fetch(c, k, l, id)
    PROVE  /\ asked' = Append(asked, [conn |-> c, link |-> l, key |-> k, id |-> id])
           /\ asked \in Seq(Request)
           /\ DOMAIN asked = 1 .. Len(asked) /\ DOMAIN asked' = 1 .. Len(asked) + 1
           /\ Len(asked) \in Nat
           /\ asked'[Len(asked) + 1].conn = c
           /\ \A m \in DOMAIN asked : m # Len(asked) + 1 /\ asked'[m] = asked[m]
<1>1. asked' = Append(asked, [conn |-> c, link |-> l, key |-> k, id |-> id]) /\ asked \in Seq(Request)
  BY DEF Fetch, Basic, CaTypeOK
<1>2. QED BY <1>1

\* A request arrives on a connection whose requests are all answered.
LEMMA FetchWaiting ==
    ASSUME Basic, Waiting, NEW c \in Conns, NEW k \in Keys, NEW l \in Links, NEW id \in Rand,
           Fetch(c, k, l, id)
    PROVE  Waiting'
<1> SUFFICES ASSUME collided' = {}, NEW n \in DOMAIN asked', open'[asked'[n].conn], ~HasAnswer(n)'
             PROVE  /\ busy'[asked'[n].conn]
                    /\ \A m \in DOMAIN asked' :
                        asked'[m].conn = asked'[n].conn /\ ~HasAnswer(m)' => m = n
  BY DEF Waiting
<1> DEFINE new == Len(asked) + 1
<1>1. /\ UNCHANGED <<open, answers>> /\ open[c] /\ ~busy[c] /\ collided = {}
      /\ busy \in [Conns -> BOOLEAN] /\ busy' = [busy EXCEPT ![c] = TRUE]
  BY DEF Fetch, Basic, CaTypeOK
<1>2. /\ DOMAIN asked = 1 .. Len(asked) /\ DOMAIN asked' = 1 .. new /\ Len(asked) \in Nat
      /\ asked'[new].conn = c
      /\ \A m \in DOMAIN asked : m # new /\ asked'[m] = asked[m]
  BY FetchAsked
<1>3. \A m \in DOMAIN asked : HasAnswer(m)' <=> HasAnswer(m)
  BY <1>1, <1>2 DEF HasAnswer
<1>4. \A m \in DOMAIN asked : asked[m].conn = c => HasAnswer(m)
  BY <1>1 DEF Waiting
<1>5. \A m \in DOMAIN asked' : m = new \/ m \in DOMAIN asked
  BY <1>2
<1>6. CASE n = new
  BY <1>1, <1>2, <1>3, <1>4, <1>5, <1>6
<1>7. CASE n \in DOMAIN asked
  <2>1. asked[n].conn # c /\ asked[n].conn \in Conns
    BY <1>2, <1>3, <1>4, <1>7, AskedFacts
  <2>2. /\ busy[asked[n].conn]
        /\ \A m \in DOMAIN asked : asked[m].conn = asked[n].conn /\ ~HasAnswer(m) => m = n
    BY <1>1, <1>2, <1>3, <1>7 DEF Waiting
  <2>3. QED BY <1>1, <1>2, <1>3, <1>5, <1>7, <2>1, <2>2
<1>8. QED BY <1>5, <1>6, <1>7

\* What a reply does while no id in use was drawn: it answers, on the
\* connection that asked and if that is still open, a request that had no
\* answer.
LEMMA ReplyFacts ==
    ASSUME Basic, Delivery, NEW l \in Links, PaReadCb(l), collided = {}
    PROVE  \E n \in DOMAIN asked :
              LET c == asked[n].conn
              IN /\ ~HasAnswer(n)
                 /\ answers' = IF open[c] THEN [answers EXCEPT ![c] = Append(answers[c], n)] ELSE answers
                 /\ busy' = IF open[c] THEN [busy EXCEPT ![c] = FALSE] ELSE busy
<1> DEFINE f == Head(fromPa[l])
           n == f.body
<1>1. /\ fromPa[l] \in Seq(ReqFrames) /\ fromPa[l] # <<>>
  BY DEF PaReadCb, Basic, CaTypeOK
<1>2. f \in Flight(l)
  BY <1>1, MoveTake DEF Flight
<1>3. n \in DOMAIN asked /\ asked[n].link = l
  BY <1>2 DEF Delivery, Traced
<1>4. contexts[l][f.id] = asked[n].conn
  BY <1>2 DEF Delivery, Routed
<1>5. asked[n].conn \in Conns /\ asked[n].conn # NoConn
  BY <1>3, AskedFacts
<1>6. ~HasAnswer(n)
  <2> SUFFICES ASSUME HasAnswer(n) PROVE FALSE
    OBVIOUS
  <2>1. PICK j \in DOMAIN answers[asked[n].conn] : answers[asked[n].conn][j] = n
    BY DEF HasAnswer
  <2>2. Sound(n)
    BY DEF Sound
  <2>3. \A g \in Flight(asked[n].link) : g.body # n
    BY <1>5, <2>1, <2>2 DEF Delivery, Settled
  <2>4. QED BY <1>2, <1>3, <2>3
<1>7. /\ answers' = IF open[asked[n].conn]
                    THEN [answers EXCEPT ![asked[n].conn] = Append(answers[asked[n].conn], n)] ELSE answers
      /\ busy' = IF open[asked[n].conn] THEN [busy EXCEPT ![asked[n].conn] = FALSE] ELSE busy
  BY <1>4, <1>5 DEF PaReadCb, ContextOf, Basic, CaTypeOK
<1>8. QED BY <1>3, <1>6, <1>7

\* A reply arrives: its connection has no other request outstanding.
LEMMA ReplyWaiting ==
    ASSUME Basic, Delivery, Waiting, NEW l \in Links, PaReadCb(l)
    PROVE  Waiting'
<1> SUFFICES ASSUME collided' = {}, NEW n \in DOMAIN asked', open'[asked'[n].conn], ~HasAnswer(n)'
             PROVE  /\ busy'[asked'[n].conn]
                    /\ \A m \in DOMAIN asked' :
                        asked'[m].conn = asked'[n].conn /\ ~HasAnswer(m)' => m = n
  BY DEF Waiting
<1>1. /\ UNCHANGED <<asked, open, collided>>
      /\ answers \in [Conns -> Seq(Nat)] /\ busy \in [Conns -> BOOLEAN]
      /\ DOMAIN asked = 1 .. Len(asked) /\ Len(asked) \in Nat
  <2>1. asked \in Seq(Request)
    BY DEF Basic, CaTypeOK
  <2>2. QED BY <2>1 DEF PaReadCb, Basic, CaTypeOK
<1>2. PICK r \in DOMAIN asked :
          /\ ~HasAnswer(r)
          /\ answers' = IF open[asked[r].conn]
                        THEN [answers EXCEPT ![asked[r].conn] = Append(answers[asked[r].conn], r)] ELSE answers
          /\ busy' = IF open[asked[r].conn] THEN [busy EXCEPT ![asked[r].conn] = FALSE] ELSE busy
  BY <1>1, ReplyFacts
<1>3. \A m \in DOMAIN asked : asked[m].conn \in Conns
  BY AskedFacts
<1>4. CASE ~open[asked[r].conn]
  <2>1. answers' = answers /\ busy' = busy
    BY <1>2, <1>4
  <2>2. Waiting'
    BY <1>1, <2>1, WaitingUntouched
  <2>3. QED BY <2>2 DEF Waiting
<1>5. CASE open[asked[r].conn]
  <2> DEFINE c == asked[r].conn
  <2>1. answers[c] \in Seq(Nat) /\ r \in Nat
    BY <1>1, <1>3
  <2>2. /\ \A j \in DOMAIN answers[c] : j \in DOMAIN answers'[c] /\ answers'[c][j] = answers[c][j]
        /\ Len(answers[c]) + 1 \in DOMAIN answers'[c] /\ answers'[c][Len(answers[c]) + 1] = r
        /\ \A d \in Conns : d # c => answers'[d] = answers[d] /\ busy'[d] = busy[d]
    <3>1. answers'[c] = Append(answers[c], r) /\ \A d \in Conns : d # c => answers'[d] = answers[d] /\ busy'[d] = busy[d]
      BY <1>1, <1>2, <1>3, <1>5
    <3>2. QED BY <2>1, <3>1
  <2>3. ASSUME NEW m \in DOMAIN asked, HasAnswer(m) PROVE HasAnswer(m)'
    <3>1. asked'[m].conn = asked[m].conn /\ asked[m].conn \in Conns
      BY <1>1, <1>3
    <3>2. PICK j \in DOMAIN answers[asked[m].conn] : answers[asked[m].conn][j] = m
      BY <2>3 DEF HasAnswer
    <3>3. j \in DOMAIN answers'[asked[m].conn] /\ answers'[asked[m].conn][j] = m
      BY <2>2, <3>1, <3>2
    <3>4. QED BY <3>1, <3>3 DEF HasAnswer
  <2>4. HasAnswer(r)'
    BY <1>1, <2>2 DEF HasAnswer
  <2>5. \A m \in DOMAIN asked : asked[m].conn = c => HasAnswer(m)'
    BY <1>1, <1>2, <1>5, <2>3, <2>4 DEF Waiting
  <2>6. n \in DOMAIN asked /\ asked[n].conn # c /\ ~HasAnswer(n) /\ open[asked[n].conn]
    BY <1>1, <2>3, <2>5
  <2>7. QED BY <1>1, <1>3, <2>2, <2>3, <2>6 DEF Waiting
<1>6. QED BY <1>4, <1>5

\* Every step keeps Waiting.
LEMMA WaitingStep == Basic /\ Delivery /\ Waiting /\ [Next]_vars => Waiting'
<1> SUFFICES ASSUME Basic, Delivery, Waiting, [Next]_vars PROVE Waiting'
  OBVIOUS
<1>1. ASSUME NEW c \in Conns, NEW k \in Keys, NEW l \in Links, NEW id \in Rand, Fetch(c, k, l, id)
      PROVE  Waiting'
  BY <1>1, FetchWaiting
<1>2. ASSUME NEW l \in Links, PaReadCb(l) PROVE Waiting'
  BY <1>2, ReplyWaiting
<1>3. ASSUME NEW c \in Conns, HttpClose(c) PROVE Waiting'
  <2>1. open \in [Conns -> BOOLEAN] /\ open' = [open EXCEPT ![c] = FALSE]
    BY <1>3 DEF HttpClose, Basic, CaTypeOK
  <2>2. \A d \in Conns : open'[d] => open[d]
    BY <2>1
  <2>3. UNCHANGED <<asked, answers, busy, collided>>
    BY <1>3 DEF HttpClose
  <2>4. QED BY <2>2, <2>3, WaitingUntouched
<1>4. ASSUME UNCHANGED <<asked, answers, busy, collided, open>> PROVE Waiting'
  BY <1>4, WaitingUntouched
<1>5. ASSUME NEW l \in Links,
             \/ OnConn(l) \/ OnConnErr(l) \/ KeyWriteCb(l) \/ KeyWriteErr(l) \/ PaReadErr(l)
             \/ (LinkReset(l) /\ UNCHANGED caVars)
             \/ Peer(l)
      PROVE  UNCHANGED <<asked, answers, busy, collided, open>>
  BY <1>5 DEF OnConn, OnConnErr, KeyWriteCb, KeyWriteErr, PaReadErr, LinkReset, caVars,
              Peer, PeerRead, PeerAnswer, PeerMisdirect, PeerIgnore, PeerDrop
<1>6. ASSUME NEW lost, PeerLose(lost) PROVE UNCHANGED <<asked, answers, busy, collided, open>>
  BY <1>6 DEF PeerLose, caVars
<1>7. CASE UNCHANGED vars
  BY <1>4, <1>7 DEF vars, caVars
<1>8. QED BY <1>1, <1>2, <1>3, <1>4, <1>5, <1>6, <1>7 DEF Next, HttpNext, Agent, LinkNext, Fault

\* It holds in every reachable state.
LEMMA WaitingInvariant == Spec => [](Basic /\ Delivery /\ Waiting)
<1>1. Init => Basic /\ Delivery /\ Waiting
  BY BasicInit, DeliveryInit, WaitingInit
<1>2. (Basic /\ Delivery /\ Waiting) /\ [Next]_vars => (Basic /\ Delivery /\ Waiting)'
  BY BasicStep, DeliveryStep, WaitingStep
<1>3. QED BY <1>1, <1>2, PTL DEF Spec

-----------------------------------------------------------------------------
\* The refinement mapping: who made the n-th call.
Caller == [n \in DOMAIN asked |-> asked[n].conn]

\* Steps an HTTP client does not see.
LEMMA RpcUnseen ==
    ASSUME UNCHANGED <<asked, answers, open>>
    PROVE  UNCHANGED Rpc!rpcVars
  BY DEF Rpc!rpcVars

\* A request is a call.
LEMMA RpcCall ==
    ASSUME Basic, Waiting, collided' = {},
           NEW c \in Conns, NEW k \in Keys, NEW l \in Links, NEW id \in Rand, Fetch(c, k, l, id)
    PROVE  Rpc!Call(c)
<1>1. open[c] /\ ~busy[c] /\ collided = {} /\ UNCHANGED <<open, answers>>
  BY DEF Fetch
<1>2. \A n \in DOMAIN asked : asked[n].conn = c => HasAnswer(n)
  BY <1>1 DEF Waiting
<1>3. \A n \in DOMAIN Caller : Caller[n] = asked[n].conn /\ n \in DOMAIN asked
  BY DEF Caller
<1>4. \A n \in DOMAIN Caller : Caller[n] = c => Rpc!Answered(n)
  BY <1>2, <1>3 DEF Rpc!Answered, HasAnswer, Caller
<1>5. Caller' = Append(Caller, c)
  <2>1. /\ DOMAIN asked = 1 .. Len(asked) /\ DOMAIN asked' = 1 .. Len(asked) + 1
        /\ Len(asked) \in Nat /\ asked'[Len(asked) + 1].conn = c
        /\ \A m \in DOMAIN asked : m # Len(asked) + 1 /\ asked'[m] = asked[m]
    BY FetchAsked
  <2>2. Caller \in Seq(Conns) /\ Len(Caller) = Len(asked)
    <3>1. Caller \in [1 .. Len(asked) -> Conns]
      BY <2>1, AskedFacts DEF Caller
    <3>2. QED BY <2>1, <3>1
  <2>3. /\ DOMAIN Append(Caller, c) = 1 .. Len(asked) + 1
        /\ \A m \in 1 .. Len(asked) + 1 :
              Append(Caller, c)[m] = IF m = Len(asked) + 1 THEN c ELSE Caller[m]
    BY <2>1, <2>2
  <2>4. Append(Caller, c) \in [1 .. Len(asked) + 1 -> Conns]
    <3>1. Append(Caller, c) \in Seq(Conns) /\ Len(Append(Caller, c)) = Len(asked) + 1
      BY <2>1, <2>2
    <3>2. \A t \in Seq(Conns) : t \in [1 .. Len(t) -> Conns]
      OBVIOUS
    <3>3. QED BY <3>1, <3>2
  <2>5. \A m \in 1 .. Len(asked) + 1 : asked'[m].conn = Append(Caller, c)[m]
    BY <2>1, <2>3 DEF Caller
  <2>6. Caller' = [m \in 1 .. Len(asked) + 1 |-> asked'[m].conn]
    BY <2>1 DEF Caller
  <2>7. QED BY <2>4, <2>5, <2>6
<1>6. QED BY <1>1, <1>4, <1>5 DEF Rpc!Call, Caller

\* A reply is an answer, or invisible when the connection is gone.
LEMMA RpcReply ==
    ASSUME Basic, Delivery, collided' = {}, NEW l \in Links, PaReadCb(l)
    PROVE  Rpc!Next \/ UNCHANGED Rpc!rpcVars
<1>1. UNCHANGED <<asked, open>> /\ collided = {}
  BY DEF PaReadCb
<1>2. PICK n \in DOMAIN asked :
          /\ ~HasAnswer(n)
          /\ answers' = IF open[asked[n].conn]
                        THEN [answers EXCEPT ![asked[n].conn] = Append(answers[asked[n].conn], n)] ELSE answers
  BY <1>1, ReplyFacts
<1>3. CASE open[asked[n].conn]
  <2>1. n \in DOMAIN Caller /\ Caller[n] = asked[n].conn
    BY DEF Caller
  <2>2. ~Rpc!Answered(n)
    BY <1>2, <2>1 DEF Rpc!Answered, HasAnswer, Caller
  <2>3. asked[n].conn \in Conns /\ answers \in [Conns -> Seq(Nat)]
    BY AskedFacts DEF Basic, CaTypeOK
  <2>4. answers' = [answers EXCEPT ![Caller[n]] = Append(@, n)]
    BY <1>2, <1>3, <2>1, <2>3
  <2>5. Rpc!Answer(n)
    BY <1>1, <1>3, <2>1, <2>2, <2>4 DEF Rpc!Answer, Caller
  <2>6. QED BY <2>1, <2>5 DEF Rpc!Next, Caller
<1>4. CASE ~open[asked[n].conn]
  BY <1>1, <1>2, <1>4, RpcUnseen
<1>5. QED BY <1>3, <1>4

\* Every step of the agent and its peers is a step of the service, or
\* invisible to HTTP clients, or draws an id in use.
LEMMA RpcStep ==
    Basic /\ Delivery /\ Waiting /\ [Next]_vars => [Rpc!Next \/ collided' # {}]_(Rpc!rpcVars)
<1> SUFFICES ASSUME Basic, Delivery, Waiting, [Next]_vars, collided' = {}
             PROVE  Rpc!Next \/ UNCHANGED Rpc!rpcVars
  OBVIOUS
<1>1. ASSUME NEW c \in Conns, NEW k \in Keys, NEW l \in Links, NEW id \in Rand, Fetch(c, k, l, id)
      PROVE  Rpc!Next
  BY <1>1, RpcCall DEF Rpc!Next
<1>2. ASSUME NEW l \in Links, PaReadCb(l) PROVE Rpc!Next \/ UNCHANGED Rpc!rpcVars
  BY <1>2, RpcReply
<1>3. ASSUME NEW c \in Conns, HttpClose(c) PROVE Rpc!Next
  <2>1. Rpc!HangUp(c)
    BY <1>3 DEF HttpClose, Rpc!HangUp
  <2>2. QED BY <2>1 DEF Rpc!Next
<1>4. ASSUME NEW l \in Links,
             \/ OnConn(l) \/ OnConnErr(l) \/ KeyWriteCb(l) \/ KeyWriteErr(l) \/ PaReadErr(l)
             \/ (LinkReset(l) /\ UNCHANGED caVars)
             \/ Peer(l)
      PROVE  UNCHANGED <<asked, answers, open>>
  BY <1>4 DEF OnConn, OnConnErr, KeyWriteCb, KeyWriteErr, PaReadErr, LinkReset, caVars,
              Peer, PeerRead, PeerAnswer, PeerMisdirect, PeerIgnore, PeerDrop
<1>5. ASSUME NEW lost, PeerLose(lost) PROVE UNCHANGED <<asked, answers, open>>
  BY <1>5 DEF PeerLose, caVars
<1>6. CASE UNCHANGED vars
  BY <1>6, RpcUnseen DEF vars, caVars
<1>7. QED BY <1>1, <1>2, <1>3, <1>4, <1>5, <1>6, RpcUnseen DEF Next, HttpNext, Agent, LinkNext, Fault

\* The initial states.
LEMMA RpcInit == Init => Rpc!Init
<1> SUFFICES ASSUME Init PROVE Rpc!Init
  OBVIOUS
<1>1. DOMAIN asked = {} /\ answers = [c \in Conns |-> <<>>] /\ open = [c \in Conns |-> TRUE]
  BY DEF Init, CaInit
<1>2. [n \in DOMAIN asked |-> asked[n].conn] = <<>>
  BY <1>1
<1>3. QED BY <1>1, <1>2 DEF Rpc!Init

\* Whatever peers, networks, and HTTP clients that hang up do, ca.cc and
\* pa_client.cc offer the service of RpcService.tla until rand() draws an id
\* that is still in use: one call at a time, answered at most once, with its
\* own result, on its own connection.
THEOREM CaImplementsRpc == Spec => ImplementsRpc
<1>1. Init => Rpc!Init
  BY RpcInit
<1>2. Spec => [](Basic /\ Delivery /\ Waiting)
  BY WaitingInvariant
<1>3. (Basic /\ Delivery /\ Waiting) /\ [Next]_vars => [Rpc!Next \/ collided' # {}]_(Rpc!rpcVars)
  BY RpcStep
<1>4. QED BY <1>1, <1>2, <1>3, PTL DEF Spec, ImplementsRpc
=============================================================================
