----------------------------- MODULE MeshProofs -----------------------------
(***************************************************************************)
(* Proofs about the whole mesh, for every set of agents, provider agents,  *)
(* links, keys, connections and ids, with and without faults and repeated  *)
(* ids: the provider agent is a peer of the kind CaWithPeer describes, so  *)
(* what CaProofs proves of consumer agents with such peers                 *)
(* holds of the running system; and what the provider agent itself needs.  *)
(*                                                                         *)
(* Each of the two sides needs the other.  That no request overwrites the  *)
(* context of another one inside a provider agent follows from where ids   *)
(* and numbers may be on the agents' side (P!Delivery), and that the       *)
(* agents' side stays as CaProofs describes it follows from what provider  *)
(* agents do.  So the invariant of the mesh, MeshInv, joins the agents'    *)
(* invariant, about links whose peer holds Inside(l), and Interior, about  *)
(* what is inside the provider agents, and both are proved together.       *)
(***************************************************************************)
EXTENDS Mesh, WireProofs

P == INSTANCE CaProofs WITH atPa <- [l \in Links |-> Inside(l)]

DubboRequests == [id : Ids, key : Keys, body : Nat]
DubboResponses == [id : Ids, body : Nat]

PaTypeOK ==
    /\ pa \in [Endpoints -> {"up", "crashed", "spinning"}]
    /\ pctx \in [Links -> {"none", "open", "closed"}]
    /\ hdrKey \in [Links -> Keys]
    /\ dstage \in [Endpoints -> {"connecting", "ready", "dead", "reset"}]
    /\ dque \in [Endpoints -> Seq(DubboRequests)]
    /\ cbs \in [Endpoints -> [Ids -> Links \cup {NoLink}]]
    /\ toDubbo \in [Endpoints -> Seq(DubboRequests)]
    /\ atDubbo \in [Endpoints -> SUBSET DubboRequests]
    /\ fromDubbo \in [Endpoints -> Seq(DubboResponses)]

\* The requests, as they came in, of the frames that are queued for the
\* provider, on their way to it, with it, and coming back.
AsAsked(A) == {ReqFrame(f.id, f.body) : f \in A}
Asks(p) == AsAsked(Frames(dque[p], toDubbo[p], atDubbo[p], fromDubbo[p]))

\* Once connected, dubbo_client queues nothing.
Flushed == \A p \in Endpoints : Connected(p) => dque[p] = <<>>

\* A frame inside p carries the number and the id of a request sent to p, and
\* each request is there once.
PaTraced ==
    \A p \in Endpoints : \A f \in Asks(p) :
        /\ f.body \in DOMAIN asked
        /\ asked[f.body].id = f.id
        /\ EndpointOf[asked[f.body].link] = p
PaOnce == \A p \in Endpoints : Unique(dque[p], toDubbo[p], atDubbo[p], fromDubbo[p], "body")

\* It is registered for the link it came from, unless an id in use was drawn
\* at p, and only links to p are registered at all.
PaRegistered ==
    \A p \in Endpoints : p \notin collided => \A f \in Asks(p) : cbs[p][f.id] = asked[f.body].link
PaHome == \A p \in Endpoints : \A id \in Ids : cbs[p][id] # NoLink => EndpointOf[cbs[p][id]] = p

\* Keys on their way: from the client's key to the header, the stream_context
\* and the Dubbo requests, each has the hash of the link it came over.
KeyFits ==
    \A l \in Links :
        /\ stage[l] # "none" => key[l] \in LinkKeys[l]
        /\ \A j \in DOMAIN toPa[l] : toPa[l][j].type = "key" => toPa[l][j].key \in LinkKeys[l]
        /\ hdr[l] => hdrKey[l] \in LinkKeys[l]
KeyTraced ==
    \A p \in Endpoints : \A f \in Elements(dque[p]) \cup Elements(toDubbo[p]) \cup atDubbo[p] :
        f.key \in LinkKeys[asked[f.body].link]

Interior ==
    /\ PaTypeOK /\ Flushed /\ PaTraced /\ PaOnce /\ PaRegistered /\ PaHome /\ KeyFits /\ KeyTraced
    /\ NeverSpins /\ PaCrashNeedsCollision

MeshInv == P!Basic /\ P!Delivery /\ Interior

-----------------------------------------------------------------------------
\* Inside(l) is what provider agents hold of link l, now and after a step.
LEMMA InsideFacts ==
    \A l : /\ Inside(l) = {f \in Asks(EndpointOf[l]) : asked[f.body].link = l}
           /\ Inside(l)' = {f \in Asks(EndpointOf[l])' : asked'[f.body].link = l}
<1>1. \A i, n : ReqFrame(i, n).body = n
  BY DEF ReqFrame
<1> SUFFICES ASSUME NEW l
             PROVE  /\ Inside(l) = {f \in Asks(EndpointOf[l]) : asked[f.body].link = l}
                    /\ Inside(l)' = {f \in Asks(EndpointOf[l])' : asked'[f.body].link = l}
  OBVIOUS
<1> DEFINE A(p) == Frames(dque[p], toDubbo[p], atDubbo[p], fromDubbo[p])
<1>2. /\ Inside(l) = {ReqFrame(f.id, f.body) : f \in {g \in A(EndpointOf[l]) : asked[g.body].link = l}}
      /\ Inside(l)' = {ReqFrame(f.id, f.body) : f \in {g \in A(EndpointOf[l])' : asked'[g.body].link = l}}
  BY DEF Inside, Frames
<1>3. Asks(EndpointOf[l]) = AsAsked(A(EndpointOf[l])) /\ Asks(EndpointOf[l])' = AsAsked(A(EndpointOf[l])')
  BY DEF Asks, AsAsked
<1> HIDE DEF A
<1>4. /\ {ReqFrame(f.id, f.body) : f \in {g \in A(EndpointOf[l]) : asked[g.body].link = l}}
            = {f \in AsAsked(A(EndpointOf[l])) : asked[f.body].link = l}
      /\ {ReqFrame(f.id, f.body) : f \in {g \in A(EndpointOf[l])' : asked'[g.body].link = l}}
            = {f \in AsAsked(A(EndpointOf[l])') : asked'[f.body].link = l}
  BY <1>1 DEF AsAsked
<1>5. QED BY <1>2, <1>3, <1>4

\* A frame inside p is inside the link of its request.
LEMMA AsksInside ==
    ASSUME Interior, P!Basic, NEW p \in Endpoints, NEW f \in Asks(p)
    PROVE  /\ f.body \in DOMAIN asked /\ f.id \in Ids /\ asked[f.body].id = f.id
           /\ asked[f.body].link \in Links /\ EndpointOf[asked[f.body].link] = p
           /\ f \in Inside(asked[f.body].link)
<1>1. f.body \in DOMAIN asked /\ asked[f.body].id = f.id /\ EndpointOf[asked[f.body].link] = p
  BY DEF Interior, PaTraced
<1>2. asked[f.body] \in Request
  <2>1. asked \in Seq(Request)
    BY DEF P!Basic, P!CaTypeOK, P!Request, Request
  <2>2. QED BY <1>1, <2>1
<1>3. asked[f.body].link \in Links /\ asked[f.body].id \in Ids
  BY <1>2 DEF Request
<1>4. f \in Inside(asked[f.body].link)
  BY <1>1, InsideFacts
<1>5. QED BY <1>1, <1>3, <1>4

\* Where a step leaves everything inside provider agents, every link's peer
\* holds what it held.
LEMMA InsideSame ==
    ASSUME Interior, \A p \in Endpoints : Asks(p)' = Asks(p),
           \A n \in DOMAIN asked : asked'[n] = asked[n]
    PROVE  UNCHANGED [l \in Links |-> Inside(l)]
<1>1. ASSUME NEW l \in Links PROVE Inside(l)' = Inside(l)
  <2>1. EndpointOf[l] \in Endpoints
    BY WireAssumption
  <2>2. \A f \in Asks(EndpointOf[l]) : asked'[f.body] = asked[f.body]
    BY <2>1 DEF Interior, PaTraced
  <2>3. /\ Inside(l)' = {f \in Asks(EndpointOf[l])' : asked'[f.body].link = l}
        /\ Inside(l) = {f \in Asks(EndpointOf[l]) : asked[f.body].link = l}
    BY InsideFacts
  <2>4. QED BY <2>1, <2>2, <2>3
<1>2. QED BY <1>1

\* They are steps of agents with the peers CaWithPeer describes.
LEMMA AgentRefines ==
    ASSUME Interior, P!Basic,
           \/ HttpNext /\ UNCHANGED paVars
           \/ \E l \in Links : AgentStep(l)
           \/ \E l \in Links : Break(l) /\ UNCHANGED <<caVars, paVars>>
           \/ UNCHANGED vars
    PROVE  AsPeer!Next \/ UNCHANGED AsPeer!vars
<1>1. UNCHANGED paVars
  BY DEF AgentStep, vars
<1>2. \A n \in DOMAIN asked : asked'[n] = asked[n]
  <2>1. asked \in Seq(Request)
    BY DEF P!Basic, P!CaTypeOK, P!Request, Request
  <2>2. ASSUME NEW c \in Conns, NEW k \in Keys, NEW l \in Links, NEW id \in Rand, Fetch(c, k, l, id)
        PROVE  \A n \in DOMAIN asked : asked'[n] = asked[n]
    <3>1. asked' = Append(asked, [conn |-> c, link |-> l, key |-> k, id |-> id])
      BY <2>2 DEF Fetch
    <3>2. QED BY <2>1, <3>1
  <2>3. asked' = asked \/ \E c \in Conns, k \in Keys, l \in Links, id \in Rand : Fetch(c, k, l, id)
    BY DEF HttpNext, HttpClose, AgentStep, Connect, LinkNext, OnConn, OnConnErr, KeyWriteCb, KeyWriteErr,
           PaReadCb, PaReadErr, caVars, vars
  <2>4. QED BY <2>2, <2>3
<1>3. UNCHANGED <<hdr, [l \in Links |-> Inside(l)]>>
  BY <1>1, <1>2, InsideSame DEF paVars, Asks
<1>4. UNCHANGED AsPeer!peerVars
  BY <1>3 DEF AsPeer!peerVars
<1>5. CASE HttpNext
  <2>1. ASSUME NEW c \in Conns, NEW k \in Keys, NEW l \in Links, NEW id \in Rand, Fetch(c, k, l, id)
        PROVE  AsPeer!HttpNext
    <3>1. AsPeer!Fetch(c, k, l, id)
      BY <2>1 DEF Fetch, Selects, Alive, InUse, HandleQueue, Written, ReqFrame,
                  AsPeer!Fetch, AsPeer!Selects, AsPeer!Alive, AsPeer!InUse, AsPeer!HandleQueue, AsPeer!Written, AsPeer!ReqFrame
    <3>2. id \in AsPeer!Rand
      BY DEF Rand, AsPeer!Rand
    <3>3. QED BY <3>1, <3>2 DEF AsPeer!HttpNext
  <2>2. ASSUME NEW c \in Conns, HttpClose(c) PROVE AsPeer!HttpNext
    <3>1. AsPeer!HttpClose(c)
      BY <2>2 DEF HttpClose, AsPeer!HttpClose, wireVars, AsPeer!wireVars
    <3>2. QED BY <3>1 DEF AsPeer!HttpNext
  <2>3. AsPeer!HttpNext
    BY <1>5, <2>1, <2>2 DEF HttpNext
  <2>4. QED BY <1>4, <2>3 DEF AsPeer!Next
<1>6. ASSUME NEW l \in Links, Connect(l) \/ LinkNext(l) PROVE AsPeer!Next
  <2>1. OnConn(l) => AsPeer!OnConn(l)
    BY DEF OnConn, Alive, ConnWrites, KeyFrame, NoId, AsPeer!OnConn, AsPeer!Alive, AsPeer!ConnWrites, AsPeer!KeyFrame, AsPeer!NoId
  <2>2. OnConnErr(l) => AsPeer!OnConnErr(l)
    BY DEF OnConnErr, Alive, wireVars, AsPeer!OnConnErr, AsPeer!Alive, AsPeer!wireVars
  <2>3. KeyWriteCb(l) => AsPeer!KeyWriteCb(l)
    BY DEF KeyWriteCb, Alive, HandleQueue, Written, AsPeer!KeyWriteCb, AsPeer!Alive, AsPeer!HandleQueue, AsPeer!Written
  <2>4. KeyWriteErr(l) => AsPeer!KeyWriteErr(l)
    BY DEF KeyWriteErr, Alive, wireVars, AsPeer!KeyWriteErr, AsPeer!Alive, AsPeer!wireVars
  <2>5. PaReadCb(l) => AsPeer!PaReadCb(l)
    BY DEF PaReadCb, Alive, ContextOf, Erase, AsPeer!PaReadCb, AsPeer!Alive, AsPeer!ContextOf, AsPeer!Erase
  <2>6. PaReadErr(l) => AsPeer!PaReadErr(l)
    BY DEF PaReadErr, Alive, caVars, AsPeer!PaReadErr, AsPeer!Alive, AsPeer!caVars
  <2>7. AsPeer!Agent(l) \/ AsPeer!Fault(l)
    BY <1>6, <2>1, <2>2, <2>3, <2>4, <2>5, <2>6
       DEF Connect, LinkNext, AsPeer!Agent, AsPeer!Fault, AsPeer!LinkNext
  <2>8. QED BY <1>4, <2>7 DEF AsPeer!Next
<1>7. ASSUME NEW l \in Links, Break(l), UNCHANGED caVars PROVE AsPeer!Next
  <2>1. AsPeer!LinkReset(l) /\ UNCHANGED AsPeer!caVars
    BY <1>7 DEF Break, LinkReset, AsPeer!LinkReset, caVars, AsPeer!caVars
  <2>2. QED BY <1>4, <2>1 DEF AsPeer!Next, AsPeer!Fault
<1>8. CASE UNCHANGED vars
  BY <1>4, <1>8 DEF vars, wireVars, caVars, AsPeer!vars, AsPeer!wireVars, AsPeer!caVars
<1>9. QED BY <1>5, <1>6, <1>7, <1>8 DEF AgentStep


-----------------------------------------------------------------------------
\* The types of what is inside p.
LEMMA PaTypes ==
    ASSUME Interior, NEW p \in Endpoints
    PROVE  /\ dque[p] \in Seq(DubboRequests) /\ toDubbo[p] \in Seq(DubboRequests)
           /\ atDubbo[p] \in SUBSET DubboRequests /\ fromDubbo[p] \in Seq(DubboResponses)
           /\ Unique(dque[p], toDubbo[p], atDubbo[p], fromDubbo[p], "body")
  BY DEF Interior, PaTypeOK, PaOnce

\* Steps that leave connections, agents and the requests inside provider
\* agents alone are steps no agent sees.
LEMMA QuietStep ==
    ASSUME Interior, UNCHANGED <<chan, toPa, fromPa, hdr, caVars>>,
           \A p \in Endpoints : Asks(p)' = Asks(p)
    PROVE  UNCHANGED AsPeer!vars
<1>1. UNCHANGED [l \in Links |-> Inside(l)]
  BY InsideSame DEF caVars
<1>2. QED BY <1>1 DEF AsPeer!vars, AsPeer!wireVars, AsPeer!caVars, AsPeer!peerVars, caVars

\* Inside provider agents nothing is added, and the rest of Interior is kept.
LEMMA InteriorShrinks ==
    ASSUME Interior, UNCHANGED <<asked, collided, cbs>>,
           \A p \in Endpoints : Asks(p)' \subseteq Asks(p),
           PaTypeOK', Flushed', PaOnce', KeyFits', KeyTraced', NeverSpins', PaCrashNeedsCollision'
    PROVE  Interior'
  BY DEF Interior, PaTraced, PaRegistered, PaHome

\* The Dubbo connection is made: what was queued is written.
LEMMA OnConnectKeeps ==
    ASSUME Interior, NEW p \in Endpoints, DOnConnect(p), UNCHANGED caVars
    PROVE  Interior' /\ UNCHANGED AsPeer!vars
<1>1. /\ dque' = [dque EXCEPT ![p] = <<>>] /\ toDubbo' = [toDubbo EXCEPT ![p] = toDubbo[p] \o dque[p]]
      /\ dstage' = [dstage EXCEPT ![p] = "ready"] /\ dstage[p] = "connecting"
      /\ UNCHANGED <<chan, toPa, fromPa, pa, pctx, hdr, hdrKey, cbs, atDubbo, fromDubbo>>
      /\ UNCHANGED <<stage, key, asked, collided>>
  BY DEF DOnConnect, DHandleQueue, wireVars, caVars, Interior, PaTypeOK
<1>2. \A S, q : q \in Seq(S) => q \o <<>> = q
  OBVIOUS
<1>3. toDubbo[p] \o dque[p] \in Seq(DubboRequests) /\ Elements(toDubbo[p] \o dque[p]) = Elements(toDubbo[p]) \cup Elements(dque[p])
  BY PaTypes, ConcatFacts
<1>4. /\ Frames(<<>>, toDubbo[p] \o dque[p], atDubbo[p], fromDubbo[p]) = Frames(dque[p], toDubbo[p], atDubbo[p], fromDubbo[p])
      /\ Unique(<<>>, toDubbo[p] \o dque[p], atDubbo[p], fromDubbo[p], "body")
  BY PaTypes, PlaceFlush
<1>5. \A x \in Endpoints : /\ dque'[x] = IF x = p THEN <<>> ELSE dque[x]
                           /\ toDubbo'[x] = IF x = p THEN toDubbo[p] \o dque[p] ELSE toDubbo[x]
  BY <1>1 DEF Interior, PaTypeOK
<1>6. \A x \in Endpoints : Asks(x)' = Asks(x)
  BY <1>1, <1>4, <1>5 DEF Asks, AsAsked
<1>7. PaTypeOK'
  BY <1>1, <1>3 DEF Interior, PaTypeOK
<1>8. Flushed'
  BY <1>1, <1>5 DEF Interior, PaTypeOK, Flushed, Connected
<1>9. PaOnce'
  BY <1>1, <1>4, <1>5 DEF Interior, PaOnce
<1>10. KeyTraced'
  BY <1>1, <1>3, <1>5, EmptyFacts DEF Interior, KeyTraced
<1>11. KeyFits' /\ NeverSpins' /\ PaCrashNeedsCollision'
  BY <1>1 DEF Interior, KeyFits, NeverSpins, PaCrashNeedsCollision
<1>12. QED BY <1>1, <1>6, <1>7, <1>8, <1>9, <1>10, <1>11, InteriorShrinks, QuietStep

\* The provider takes a request off the connection.
LEMMA ProviderReadKeeps ==
    ASSUME Interior, NEW p \in Endpoints, ProviderRead(p), UNCHANGED caVars
    PROVE  Interior' /\ UNCHANGED AsPeer!vars
<1>1. /\ toDubbo[p] # <<>>
      /\ atDubbo' = [atDubbo EXCEPT ![p] = atDubbo[p] \cup {Head(toDubbo[p])}]
      /\ toDubbo' = [toDubbo EXCEPT ![p] = Tail(toDubbo[p])]
      /\ UNCHANGED <<chan, toPa, fromPa, pa, pctx, hdr, hdrKey, cbs, dstage, dque, fromDubbo>>
      /\ UNCHANGED <<stage, key, asked, collided>>
  BY DEF ProviderRead, wireVars, caVars, Interior, PaTypeOK
<1>2. /\ Tail(toDubbo[p]) \in Seq(DubboRequests) /\ Head(toDubbo[p]) \in DubboRequests
      /\ Elements(toDubbo[p]) = Elements(Tail(toDubbo[p])) \cup {Head(toDubbo[p])}
  BY <1>1, PaTypes, TailFacts
<1>3. /\ Frames(dque[p], Tail(toDubbo[p]), atDubbo[p] \cup {Head(toDubbo[p])}, fromDubbo[p])
            = Frames(dque[p], toDubbo[p], atDubbo[p], fromDubbo[p])
      /\ Unique(dque[p], Tail(toDubbo[p]), atDubbo[p] \cup {Head(toDubbo[p])}, fromDubbo[p], "body")
  BY <1>1, PaTypes, PlaceRead
<1>4. \A x \in Endpoints :
         /\ atDubbo'[x] = IF x = p THEN atDubbo[p] \cup {Head(toDubbo[p])} ELSE atDubbo[x]
         /\ toDubbo'[x] = IF x = p THEN Tail(toDubbo[p]) ELSE toDubbo[x]
  BY <1>1 DEF Interior, PaTypeOK
<1>5. \A x \in Endpoints : Asks(x)' = Asks(x)
  BY <1>1, <1>3, <1>4 DEF Asks, AsAsked
<1>6. PaTypeOK'
  BY <1>1, <1>2 DEF Interior, PaTypeOK
<1>7. PaOnce'
  BY <1>1, <1>3, <1>4 DEF Interior, PaOnce
<1>8. KeyTraced'
  BY <1>1, <1>2, <1>4 DEF Interior, KeyTraced
<1>9. Flushed' /\ KeyFits' /\ NeverSpins' /\ PaCrashNeedsCollision'
  BY <1>1 DEF Interior, Flushed, Connected, KeyFits, NeverSpins, PaCrashNeedsCollision
<1>10. QED BY <1>1, <1>5, <1>6, <1>7, <1>8, <1>9, InteriorShrinks, QuietStep

\* The provider answers.
LEMMA ProviderReplyKeeps ==
    ASSUME Interior, NEW p \in Endpoints, NEW f \in atDubbo[p], ProviderReply(p, f), UNCHANGED caVars
    PROVE  Interior' /\ UNCHANGED AsPeer!vars
<1> DEFINE e == [id |-> f.id, body |-> f.body]
<1>1. /\ atDubbo' = [atDubbo EXCEPT ![p] = atDubbo[p] \ {f}]
      /\ fromDubbo' = [fromDubbo EXCEPT ![p] = Append(fromDubbo[p], e)]
      /\ UNCHANGED <<chan, toPa, fromPa, pa, pctx, hdr, hdrKey, cbs, dstage, dque, toDubbo>>
      /\ UNCHANGED <<stage, key, asked, collided>>
  BY DEF ProviderReply, wireVars, caVars, Interior, PaTypeOK
<1>2. f \in DubboRequests /\ fromDubbo[p] \in Seq(DubboResponses)
  BY PaTypes
<1>3. e \in DubboResponses /\ e.id = f.id /\ e.body = f.body /\ Mark(e, "body") = Mark(f, "body")
  BY <1>2 DEF DubboRequests, DubboResponses, Mark
<1> HIDE DEF e
<1>4. /\ Append(fromDubbo[p], e) \in Seq(DubboResponses) /\ Append(fromDubbo[p], e) = fromDubbo[p] \o <<e>>
      /\ Elements(Append(fromDubbo[p], e)) = Elements(fromDubbo[p]) \cup {e}
  BY <1>2, <1>3, AppendFacts, AppendIsConcat
<1>5. Unique(dque[p], toDubbo[p], atDubbo[p] \ {f}, Append(fromDubbo[p], e), "body")
  <2>1. Unique(dque[p], toDubbo[p], atDubbo[p], fromDubbo[p], "body")
    BY PaTypes
  <2>2. Unique(dque[p], toDubbo[p], atDubbo[p] \ {f}, fromDubbo[p] \o <<e>>, "body")
    BY <1>2, <1>3, <2>1, PlaceAnswer
  <2>3. QED BY <1>4, <2>2
<1>6. AsAsked(Frames(dque[p], toDubbo[p], atDubbo[p] \ {f}, Append(fromDubbo[p], e)))
        = AsAsked(Frames(dque[p], toDubbo[p], atDubbo[p], fromDubbo[p]))
  <2>1. Frames(dque[p], toDubbo[p], atDubbo[p] \ {f}, Append(fromDubbo[p], e)) \cup {f}
          = Frames(dque[p], toDubbo[p], atDubbo[p], fromDubbo[p]) \cup {e}
    BY <1>4 DEF Frames
  <2>2. /\ e \in Frames(dque[p], toDubbo[p], atDubbo[p] \ {f}, Append(fromDubbo[p], e))
        /\ f \in Frames(dque[p], toDubbo[p], atDubbo[p], fromDubbo[p])
    BY <1>4 DEF Frames
  <2>3. ReqFrame(e.id, e.body) = ReqFrame(f.id, f.body)
    BY <1>3
  <2>4. \A A, B : A \cup {f} = B \cup {e} /\ e \in A /\ f \in B => AsAsked(A) = AsAsked(B)
    BY <2>3 DEF AsAsked
  <2>5. QED BY <2>1, <2>2, <2>4
<1>7. \A x \in Endpoints :
         /\ atDubbo'[x] = IF x = p THEN atDubbo[p] \ {f} ELSE atDubbo[x]
         /\ fromDubbo'[x] = IF x = p THEN Append(fromDubbo[p], e) ELSE fromDubbo[x]
  BY <1>1 DEF Interior, PaTypeOK
<1>8. \A x \in Endpoints : Asks(x)' = Asks(x)
  BY <1>1, <1>6, <1>7 DEF Asks
<1>9. PaTypeOK'
  BY <1>1, <1>4 DEF Interior, PaTypeOK
<1>10. PaOnce'
  BY <1>1, <1>5, <1>7 DEF Interior, PaOnce
<1>11. KeyTraced'
  BY <1>1, <1>7 DEF Interior, KeyTraced
<1>12. Flushed' /\ KeyFits' /\ NeverSpins' /\ PaCrashNeedsCollision'
  BY <1>1 DEF Interior, Flushed, Connected, KeyFits, NeverSpins, PaCrashNeedsCollision
<1>13. QED BY <1>1, <1>8, <1>9, <1>10, <1>11, <1>12, InteriorShrinks, QuietStep

\* Connections accepted, and a refused connect to the provider.
LEMMA IdleKeeps ==
    ASSUME Interior, UNCHANGED caVars,
           (\E l \in Links : POnConn(l)) \/ (\E p \in Endpoints : DOnConnectErr(p))
    PROVE  Interior' /\ UNCHANGED AsPeer!vars
<1>1. /\ UNCHANGED <<chan, toPa, fromPa, pa, hdr, hdrKey, cbs, dque, toDubbo, atDubbo, fromDubbo>>
      /\ UNCHANGED <<stage, key, asked, collided>>
  BY DEF POnConn, DOnConnectErr, wireVars, caVars
<1>2. /\ pctx' \in [Links -> {"none", "open", "closed"}]
      /\ dstage' \in [Endpoints -> {"connecting", "ready", "dead", "reset"}]
      /\ \A p \in Endpoints : dstage'[p] \in {"ready", "reset"} => dstage[p] \in {"ready", "reset"}
  BY DEF POnConn, DOnConnectErr, Interior, PaTypeOK
<1>3. \A p \in Endpoints : Asks(p)' = Asks(p)
  BY <1>1 DEF Asks
<1>4. PaTypeOK' /\ Flushed'
  BY <1>1, <1>2 DEF Interior, PaTypeOK, Flushed, Connected
<1>5. PaOnce' /\ KeyTraced' /\ KeyFits' /\ NeverSpins' /\ PaCrashNeedsCollision'
  BY <1>1 DEF Interior, PaOnce, KeyTraced, KeyFits, NeverSpins, PaCrashNeedsCollision
<1>6. QED BY <1>1, <1>3, <1>4, <1>5, InteriorShrinks, QuietStep

\* What waits on a connection is a header, unless it was read, and requests.
LEMMA LinkFacts ==
    ASSUME P!Basic, NEW l \in Links
    PROVE  /\ toPa \in [Links -> Seq(WireFrames)] /\ hdr \in [Links -> BOOLEAN]
           /\ \A j \in DOMAIN toPa[l] : (toPa[l][j].type = "key") <=> (j = 1 /\ ~hdr[l])
<1>1. toPa \in [Links -> Seq(WireFrames)] /\ hdr \in [Links -> BOOLEAN]
  BY DEF P!Basic, P!CaTypeOK, P!PeerTypeOK, P!Headers, P!ReqFrames, P!NoId,
         WireFrames, Headers, ReqFrames, NoId
<1>2. QED BY <1>1 DEF P!Basic, P!Wire, P!LinkOK, P!HeaderOK

\* The first frame of a connection is taken for the header, and is one.
LEMMA HeaderKeeps ==
    ASSUME Interior, P!Basic, NEW l \in Links, POnReadHeader(l), UNCHANGED caVars
    PROVE  Interior' /\ AsPeer!PeerRead(l)
<1> DEFINE f == Head(toPa[l])
<1>1. ~hdr[l] /\ toPa[l] # <<>> /\ toPa[l] \in Seq(WireFrames)
  BY LinkFacts DEF POnReadHeader
<1>2. f \in WireFrames /\ f = toPa[l][1] /\ 1 \in DOMAIN toPa[l]
  BY <1>1, TailFacts
<1>3. f.type = "key" /\ f.key \in LinkKeys[l]
  BY <1>1, <1>2, LinkFacts DEF Interior, KeyFits
<1>4. f.key \in Keys
  BY <1>2, <1>3 DEF WireFrames, Headers, ReqFrames
<1>5. /\ hdr' = [hdr EXCEPT ![l] = TRUE] /\ hdrKey' = [hdrKey EXCEPT ![l] = f.key]
      /\ toPa' = [toPa EXCEPT ![l] = Tail(toPa[l])]
      /\ UNCHANGED <<chan, fromPa, pa, pctx, dstage, dque, cbs, toDubbo, atDubbo, fromDubbo>>
      /\ UNCHANGED <<stage, key, asked, collided>>
  BY <1>3, LinkFacts DEF POnReadHeader, caVars
<1>6. \A p \in Endpoints : Asks(p)' = Asks(p)
  BY <1>5 DEF Asks
<1>7. PaTypeOK'
  BY <1>4, <1>5 DEF Interior, PaTypeOK
<1>8. KeyFits'
  <2> SUFFICES ASSUME NEW m \in Links
               PROVE  /\ stage[m] # "none" => key[m] \in LinkKeys[m]
                      /\ \A j \in DOMAIN toPa'[m] : toPa'[m][j].type = "key" => toPa'[m][j].key \in LinkKeys[m]
                      /\ hdr'[m] => hdrKey'[m] \in LinkKeys[m]
    BY <1>5 DEF KeyFits
  <2>1. CASE m # l
    BY <1>5, <2>1, LinkFacts DEF Interior, KeyFits, PaTypeOK
  <2>2. CASE m = l
    <3>1. toPa'[l] = Tail(toPa[l]) /\ hdrKey'[l] = f.key
      BY <1>5, LinkFacts DEF Interior, PaTypeOK
    <3>2. \A j \in DOMAIN Tail(toPa[l]) : j + 1 \in DOMAIN toPa[l] /\ Tail(toPa[l])[j] = toPa[l][j + 1]
      BY <1>1, TailFacts
    <3>3. QED BY <1>3, <2>2, <3>1, <3>2 DEF Interior, KeyFits
  <2>3. QED BY <2>1, <2>2
<1>9. PaOnce' /\ KeyTraced' /\ Flushed' /\ NeverSpins' /\ PaCrashNeedsCollision'
  BY <1>5 DEF Interior, PaOnce, KeyTraced, Flushed, Connected, NeverSpins, PaCrashNeedsCollision
<1>10. Interior'
  BY <1>5, <1>6, <1>7, <1>8, <1>9, InteriorShrinks
<1>11. UNCHANGED [m \in Links |-> Inside(m)]
  BY <1>5, <1>6, InsideSame
<1>12. AsPeer!PeerRead(l)
  BY <1>1, <1>5, <1>11, LinkFacts DEF AsPeer!PeerRead, caVars, AsPeer!caVars
<1>13. QED BY <1>10, <1>12

\* The rest of a broken connection is dropped.
LEMMA ReadErrKeeps ==
    ASSUME Interior, P!Basic, NEW l \in Links, POnReadErr(l), UNCHANGED caVars
    PROVE  Interior' /\ (AsPeer!PeerDrop(l) \/ UNCHANGED AsPeer!vars)
<1>1. /\ pctx' = [pctx EXCEPT ![l] = "closed"] /\ toPa' = [toPa EXCEPT ![l] = <<>>]
      /\ chan[l] = "reset"
      /\ UNCHANGED <<chan, fromPa, pa, hdr, hdrKey, dstage, dque, cbs, toDubbo, atDubbo, fromDubbo>>
      /\ UNCHANGED <<stage, key, asked, collided>>
  BY DEF POnReadErr, caVars
<1>2. \A p \in Endpoints : Asks(p)' = Asks(p)
  BY <1>1 DEF Asks
<1>3. PaTypeOK'
  BY <1>1 DEF Interior, PaTypeOK
<1>4. \A m \in Links : toPa'[m] = IF m = l THEN <<>> ELSE toPa[m]
  BY <1>1, LinkFacts
<1>5. KeyFits'
  BY <1>1, <1>4 DEF Interior, KeyFits
<1>6. PaOnce' /\ KeyTraced' /\ Flushed' /\ NeverSpins' /\ PaCrashNeedsCollision'
  BY <1>1 DEF Interior, PaOnce, KeyTraced, Flushed, Connected, NeverSpins, PaCrashNeedsCollision
<1>7. Interior'
  BY <1>1, <1>2, <1>3, <1>5, <1>6, InteriorShrinks
<1>8. UNCHANGED [m \in Links |-> Inside(m)]
  BY <1>1, <1>2, InsideSame
<1>9. CASE toPa[l] # <<>>
  BY <1>1, <1>7, <1>8, <1>9 DEF AsPeer!PeerDrop, caVars, AsPeer!caVars
<1>10. CASE toPa[l] = <<>>
  <2>1. toPa' = toPa
    BY <1>1, <1>10, LinkFacts
  <2>2. QED BY <1>1, <1>2, <1>7, <2>1, QuietStep
<1>11. QED BY <1>9, <1>10

\* The provider agent loses the requests in lost, all of them its own.
LEMMA LossRefines ==
    ASSUME Interior, P!Basic, UNCHANGED <<chan, toPa, fromPa, hdr, caVars>>,
           NEW p \in Endpoints, NEW lost \in SUBSET Asks(p),
           Asks(p)' = Asks(p) \ lost, \A x \in Endpoints : x # p => Asks(x)' = Asks(x)
    PROVE  UNCHANGED AsPeer!vars \/ \E s \in SUBSET UNION {[x \in Links |-> Inside(x)][y] : y \in Links} : AsPeer!PeerLose(s)
<1>1. CASE lost = {}
  BY <1>1, QuietStep
<1>2. CASE lost # {}
  <2>1. \A f \in lost : asked[f.body].link \in Links /\ f \in Inside(asked[f.body].link)
    BY AsksInside
  <2>2. lost \in SUBSET UNION {[x \in Links |-> Inside(x)][y] : y \in Links}
    BY <2>1
  <2>3. asked' = asked
    BY DEF caVars
  <2>4. ASSUME NEW l \in Links PROVE Inside(l)' = Inside(l) \ lost
    <3>1. /\ Inside(l)' = {f \in Asks(EndpointOf[l])' : asked[f.body].link = l}
          /\ Inside(l) = {f \in Asks(EndpointOf[l]) : asked[f.body].link = l}
          /\ EndpointOf[l] \in Endpoints
      BY <2>3, InsideFacts, WireAssumption
    <3>2. CASE EndpointOf[l] = p
      BY <3>1, <3>2
    <3>3. CASE EndpointOf[l] # p
      <4>1. \A f \in lost : EndpointOf[asked[f.body].link] = p
        BY AsksInside
      <4>2. QED BY <3>1, <3>3, <4>1
    <3>4. QED BY <3>2, <3>3
  <2>5. AsPeer!PeerLose(lost)
    BY <1>2, <2>4 DEF AsPeer!PeerLose, caVars, AsPeer!caVars, AsPeer!wireVars
  <2>6. QED BY <2>2, <2>5
<1>3. QED BY <1>1, <1>2

\* The Dubbo connection breaks with everything on it.
LEMMA ResetKeeps ==
    ASSUME Interior, P!Basic, NEW p \in Endpoints, DReset(p), UNCHANGED caVars
    PROVE  /\ Interior'
           /\ UNCHANGED AsPeer!vars \/ \E s \in SUBSET UNION {[x \in Links |-> Inside(x)][y] : y \in Links} : AsPeer!PeerLose(s)
<1>1. /\ dstage[p] = "ready" /\ dstage' = [dstage EXCEPT ![p] = "reset"]
      /\ toDubbo' = [toDubbo EXCEPT ![p] = <<>>] /\ atDubbo' = [atDubbo EXCEPT ![p] = {}]
      /\ fromDubbo' = [fromDubbo EXCEPT ![p] = <<>>]
      /\ UNCHANGED <<chan, toPa, fromPa, pa, pctx, hdr, hdrKey, dque, cbs>>
      /\ UNCHANGED <<stage, key, asked, collided>>
  BY DEF DReset, wireVars, caVars
<1>2. \A x \in Endpoints :
         /\ toDubbo'[x] = IF x = p THEN <<>> ELSE toDubbo[x]
         /\ atDubbo'[x] = IF x = p THEN {} ELSE atDubbo[x]
         /\ fromDubbo'[x] = IF x = p THEN <<>> ELSE fromDubbo[x]
  BY <1>1 DEF Interior, PaTypeOK
<1>3. dque[p] = <<>>
  BY <1>1 DEF Interior, Flushed, Connected
<1>4. Asks(p)' = {} /\ \A x \in Endpoints : x # p => Asks(x)' = Asks(x)
  BY <1>1, <1>2, <1>3, EmptyFacts DEF Asks, AsAsked, Frames
<1>5. PaTypeOK'
  BY <1>1 DEF Interior, PaTypeOK
<1>6. Flushed'
  BY <1>1 DEF Interior, PaTypeOK, Flushed, Connected
<1>7. PaOnce'
  <2>1. Unique(<<>>, <<>>, {}, <<>>, "body")
    BY EmptyFacts DEF Unique, Apart, Single
  <2>2. QED BY <1>1, <1>2, <1>3, <2>1 DEF Interior, PaOnce
<1>8. KeyTraced'
  BY <1>1, <1>2, EmptyFacts DEF Interior, KeyTraced
<1>9. KeyFits' /\ NeverSpins' /\ PaCrashNeedsCollision'
  BY <1>1 DEF Interior, KeyFits, NeverSpins, PaCrashNeedsCollision
<1>10. Interior'
  BY <1>1, <1>4, <1>5, <1>6, <1>7, <1>8, <1>9, InteriorShrinks
<1>11. Asks(p)' = Asks(p) \ Asks(p)
  BY <1>4
<1>12. QED BY <1>1, <1>4, <1>10, <1>11, LossRefines

-----------------------------------------------------------------------------
\* What Delivery says of the requests of l that are on the wire or inside.
LEMMA LinkDelivery ==
    ASSUME P!Basic, P!Delivery, NEW l \in Links
    PROVE  /\ Inside(l) \subseteq ReqFrames
           /\ \A f \in Elements(toPa[l]) : f.type = "req" =>
                /\ f.body \in DOMAIN asked /\ asked[f.body].link = l /\ asked[f.body].id = f.id
                /\ \A g \in Inside(l) : g.body # f.body
           /\ EndpointOf[l] \notin collided =>
                /\ \A f \in Elements(toPa[l]) \cup Inside(l) : f.type = "req" => contexts[l][f.id] # NoConn
                /\ \A f \in Elements(toPa[l]), g \in Inside(l) : f.id # g.id
                /\ \A f, g \in Inside(l) : f.id = g.id => f = g
<1>1. Inside(l) \subseteq ReqFrames /\ [m \in Links |-> Inside(m)][l] = Inside(l)
  BY DEF P!Basic, P!PeerTypeOK, P!ReqFrames, ReqFrames
<1>2. \A s : P!Elements(s) = Elements(s)
  BY DEF P!Elements, Elements
<1>3. \A f \in Elements(toPa[l]) \cup Inside(l) : f.type = "req" => f \in P!Flight(l)
  BY <1>1, <1>2 DEF P!Flight, P!Reqs, P!Frames
<1>4. \A f \in Elements(toPa[l]) : f.type = "req" => f \in P!Outbound(l)
  BY <1>1, <1>2 DEF P!Outbound, P!Reqs, P!Frames
<1>5. \A f \in Elements(toPa[l]), g \in Inside(l) : f.body # g.body
  <2>1. P!Unique(que[l], toPa[l], Inside(l), <<>>, "body")
    BY <1>1 DEF P!Delivery, P!Once
  <2>2. QED BY <1>2, <2>1 DEF P!Unique, P!Apart, P!Mark
<1>6. \A f \in Elements(toPa[l]) : f.type = "req" =>
         f.body \in DOMAIN asked /\ asked[f.body].link = l /\ asked[f.body].id = f.id
  BY <1>3, <1>4 DEF P!Delivery, P!Traced, P!Sent
<1>7. ASSUME EndpointOf[l] \notin collided
      PROVE  /\ \A f \in Elements(toPa[l]) \cup Inside(l) : f.type = "req" => contexts[l][f.id] # NoConn
             /\ \A f \in Elements(toPa[l]), g \in Inside(l) : f.id # g.id
             /\ \A f, g \in Inside(l) : f.id = g.id => f = g
  <2>1. /\ P!Unique(que[l], toPa[l], Inside(l), fromPa[l], "id")
        /\ \A f \in P!Flight(l) : f.body \in DOMAIN asked /\ contexts[l][f.id] = asked[f.body].conn
    BY <1>1, <1>7 DEF P!Delivery, P!Routed, P!Traced, P!UniqueOn
  <2>2. \A n \in DOMAIN asked : asked[n].conn # NoConn
    <3>1. asked \in Seq(Request)
      BY DEF P!Basic, P!CaTypeOK, P!Request, Request
    <3>2. \A n \in DOMAIN asked : asked[n] \in Request
      BY <3>1
    <3>3. QED BY <3>2, AgentAssumption DEF Request
  <2>3. \A f \in Elements(toPa[l]) \cup Inside(l) : f.type = "req" => contexts[l][f.id] # NoConn
    BY <1>3, <2>1, <2>2
  <2>4. \A f \in Elements(toPa[l]), g \in Inside(l) : f.id # g.id
    BY <1>2, <2>1 DEF P!Unique, P!Apart, P!Mark
  <2>5. \A f, g \in Inside(l) : f.id = g.id => f = g
    BY <2>1 DEF P!Unique, P!Single, P!Mark
  <2>6. QED BY <2>3, <2>4, <2>5
<1>8. QED BY <1>1, <1>5, <1>6, <1>7

\* Where no id in use was drawn, ids tell apart what is inside a provider
\* agent, and what is on the wire to it from what is inside, whichever links
\* they belong to.
LEMMA IdsApart ==
    ASSUME MeshInv, NEW p \in Endpoints, p \notin collided
    PROVE  /\ \A f, g \in Asks(p) : f.id = g.id => f = g
           /\ \A l \in Links : \A f \in Elements(toPa[l]) : EndpointOf[l] = p /\ f.type = "req" =>
                \A g \in Asks(p) : g.id # f.id
<1> USE DEF MeshInv
<1>1. \A g \in Asks(p) :
         /\ g.id \in Ids /\ asked[g.body].link \in Links /\ EndpointOf[asked[g.body].link] = p
         /\ g \in Inside(asked[g.body].link)
         /\ contexts[asked[g.body].link][g.id] # NoConn
  <2> SUFFICES ASSUME NEW g \in Asks(p)
               PROVE  /\ g.id \in Ids /\ asked[g.body].link \in Links /\ EndpointOf[asked[g.body].link] = p
                      /\ g \in Inside(asked[g.body].link)
                      /\ contexts[asked[g.body].link][g.id] # NoConn
    OBVIOUS
  <2>1. /\ g.id \in Ids /\ asked[g.body].link \in Links /\ EndpointOf[asked[g.body].link] = p
        /\ g \in Inside(asked[g.body].link)
    BY AsksInside
  <2>2. g.type = "req"
    BY <2>1, LinkDelivery DEF ReqFrames
  <2>3. QED BY <2>1, <2>2, LinkDelivery
<1>2. \A l, m \in Links : \A id \in Ids :
         EndpointOf[l] = p /\ EndpointOf[m] = p /\ contexts[l][id] # NoConn /\ contexts[m][id] # NoConn => l = m
  BY DEF P!Delivery, P!Exclusive
<1>3. ASSUME NEW f \in Asks(p), NEW g \in Asks(p), f.id = g.id PROVE f = g
  <2>1. asked[f.body].link = asked[g.body].link
    BY <1>1, <1>2, <1>3
  <2>2. QED BY <1>1, <1>3, <2>1, LinkDelivery
<1>4. ASSUME NEW l \in Links, NEW f \in Elements(toPa[l]), EndpointOf[l] = p, f.type = "req",
             NEW g \in Asks(p), g.id = f.id
      PROVE  FALSE
  <2>1. contexts[l][f.id] # NoConn
    BY <1>4, LinkDelivery
  <2>2. asked[g.body].link = l
    BY <1>1, <1>2, <1>4, <2>1
  <2>3. QED BY <1>1, <1>4, <2>2, LinkDelivery
<1>5. QED BY <1>3, <1>4

\* A request is queued for the provider, and sent with the queue or lost.
LEMMA DubboWrites ==
    ASSUME Interior, NEW p \in Endpoints, NEW q \in Seq(DubboRequests),
           DHandleQueue(p, Connected(p), q)
    PROVE  /\ dque' \in [Endpoints -> Seq(DubboRequests)] /\ toDubbo' \in [Endpoints -> Seq(DubboRequests)]
           /\ \A x \in Endpoints : x # p => dque'[x] = dque[x] /\ toDubbo'[x] = toDubbo[x]
           /\ Connected(p) => dque'[p] = <<>>
           /\ Elements(dque'[p]) \cup Elements(toDubbo'[p]) \subseteq Elements(q) \cup Elements(toDubbo[p])
           /\ \A r, b :
                /\ Unique(q, toDubbo[p], r, b, "body") => Unique(dque'[p], toDubbo'[p], r, b, "body")
                /\ \/ Frames(dque'[p], toDubbo'[p], r, b) = Frames(q, toDubbo[p], r, b)
                   \/ Connected(p) /\ Frames(dque'[p], toDubbo'[p], r, b) = Frames(<<>>, toDubbo[p], r, b)
<1>1. /\ dque \in [Endpoints -> Seq(DubboRequests)] /\ toDubbo \in [Endpoints -> Seq(DubboRequests)]
      /\ toDubbo[p] \o q \in Seq(DubboRequests)
      /\ Elements(toDubbo[p] \o q) = Elements(toDubbo[p]) \cup Elements(q)
  BY ConcatFacts DEF Interior, PaTypeOK
<1>2. /\ dque'[p] = IF Connected(p) THEN <<>> ELSE q
      /\ toDubbo'[p] = IF Connected(p) /\ dstage[p] # "reset" THEN toDubbo[p] \o q ELSE toDubbo[p]
      /\ \A x \in Endpoints : x # p => dque'[x] = dque[x] /\ toDubbo'[x] = toDubbo[x]
      /\ dque' \in [Endpoints -> Seq(DubboRequests)] /\ toDubbo' \in [Endpoints -> Seq(DubboRequests)]
  BY <1>1 DEF DHandleQueue
<1>3. \A r, b : Unique(q, toDubbo[p], r, b, "body") => Unique(<<>>, toDubbo[p] \o q, r, b, "body")
  BY <1>1, PlaceFlush
<1>4. \A r, b : Frames(<<>>, toDubbo[p] \o q, r, b) = Frames(q, toDubbo[p], r, b)
  BY <1>1, EmptyFacts DEF Frames
<1>5. \A r, b : Unique(q, toDubbo[p], r, b, "body") => Unique(<<>>, toDubbo[p], r, b, "body")
  BY EmptyFacts DEF Unique, Apart
<1>6. QED BY <1>1, <1>2, <1>3, <1>4, <1>5, EmptyFacts

\* A request is read and handed to dubbo_fetch.
LEMMA ReadKeeps ==
    ASSUME MeshInv, NEW l \in Links, POnRead(l), UNCHANGED caVars
    PROVE  Interior' /\ (AsPeer!PeerRead(l) \/ AsPeer!PeerIgnore(l))
<1> DEFINE p == EndpointOf[l]
           f == Head(toPa[l])
           e == DubboRequest(l, f)
           q == Append(dque[p], e)
<1>i. Interior /\ P!Basic /\ P!Delivery /\ p \in Endpoints
  BY WireAssumption DEF MeshInv
<1>1. /\ hdr[l] /\ toPa[l] # <<>> /\ toPa[l] \in Seq(WireFrames) /\ toPa \in [Links -> Seq(WireFrames)]
      /\ toPa' = [toPa EXCEPT ![l] = Tail(toPa[l])]
  BY <1>i, LinkFacts DEF POnRead
<1>2. /\ f \in WireFrames /\ f = toPa[l][1] /\ 1 \in DOMAIN toPa[l] /\ f \in Elements(toPa[l])
      /\ \A j \in DOMAIN Tail(toPa[l]) : j + 1 \in DOMAIN toPa[l] /\ Tail(toPa[l])[j] = toPa[l][j + 1]
  BY <1>1, TailFacts
<1>3. f.type # "key"
  BY <1>i, <1>1, <1>2, LinkFacts
<1>4. f \in ReqFrames /\ f.type = "req" /\ f = ReqFrame(f.id, f.body) /\ f.id \in Ids
  BY <1>2, <1>3 DEF WireFrames, Headers, ReqFrames, ReqFrame
<1>5. /\ f.body \in DOMAIN asked /\ asked[f.body].link = l /\ asked[f.body].id = f.id
      /\ \A g \in Inside(l) : g.body # f.body
  BY <1>i, <1>2, <1>4, LinkDelivery
<1>6. e \in DubboRequests /\ e.id = f.id /\ e.body = f.body /\ e.key \in LinkKeys[l]
  BY <1>i, <1>1, <1>4 DEF DubboRequest, DubboRequests, ReqFrames, Interior, PaTypeOK, KeyFits
<1>7. /\ cbs' = [cbs EXCEPT ![p][f.id] = l]
      /\ DHandleQueue(p, Connected(p), q)
      /\ UNCHANGED <<chan, fromPa, pa, pctx, hdr, hdrKey, dstage, atDubbo, fromDubbo>>
      /\ UNCHANGED <<stage, key, asked, collided>>
  BY DEF POnRead, DubboFetch, Register, caVars
<1> HIDE DEF e
<1>8. \* No frame inside p has the number of the new one.
      \A g \in Frames(dque[p], toDubbo[p], atDubbo[p], fromDubbo[p]) : g.body # f.body
  <2> SUFFICES ASSUME NEW g \in Frames(dque[p], toDubbo[p], atDubbo[p], fromDubbo[p]), g.body = f.body
               PROVE  FALSE
    OBVIOUS
  <2>1. ReqFrame(g.id, g.body) \in Asks(p) /\ ReqFrame(g.id, g.body).body = g.body
    BY DEF Asks, AsAsked, ReqFrame
  <2>2. ReqFrame(g.id, g.body) \in Inside(l)
    BY <1>i, <1>5, <2>1, AsksInside
  <2>3. QED BY <1>5, <2>1, <2>2
<1>9. /\ q \in Seq(DubboRequests) /\ Elements(q) = Elements(dque[p]) \cup {e}
      /\ Frames(q, toDubbo[p], atDubbo[p], fromDubbo[p])
            = Frames(dque[p], toDubbo[p], atDubbo[p], fromDubbo[p]) \cup {e}
      /\ Unique(q, toDubbo[p], atDubbo[p], fromDubbo[p], "body")
  <2>1. dque[p] \in Seq(DubboRequests) /\ Unique(dque[p], toDubbo[p], atDubbo[p], fromDubbo[p], "body")
    BY <1>i, PaTypes
  <2>2. \A g \in Frames(dque[p], toDubbo[p], atDubbo[p], fromDubbo[p]) : Mark(g, "body") # Mark(e, "body")
    BY <1>6, <1>8 DEF Mark
  <2>3. q \in Seq(DubboRequests) /\ Elements(q) = Elements(dque[p]) \cup {e}
    BY <1>6, <2>1, AppendFacts
  <2> HIDE DEF f, p
  <2>4. \A w, r, b, fld :
           /\ Frames(q, w, r, b) = Frames(dque[p], w, r, b) \cup {e}
           /\ /\ Unique(dque[p], w, r, b, fld)
              /\ \A g \in Frames(dque[p], w, r, b) : Mark(g, fld) # Mark(e, fld)
              => Unique(q, w, r, b, fld)
    BY <1>6, <2>1, PlaceQueue
  <2>5. QED BY <2>1, <2>2, <2>3, <2>4
<1> HIDE DEF q
<1>w. /\ dque' \in [Endpoints -> Seq(DubboRequests)] /\ toDubbo' \in [Endpoints -> Seq(DubboRequests)]
      /\ \A x \in Endpoints : x # p => dque'[x] = dque[x] /\ toDubbo'[x] = toDubbo[x]
      /\ Connected(p) => dque'[p] = <<>>
      /\ Elements(dque'[p]) \cup Elements(toDubbo'[p]) \subseteq Elements(q) \cup Elements(toDubbo[p])
      /\ \A r, b :
           /\ Unique(q, toDubbo[p], r, b, "body") => Unique(dque'[p], toDubbo'[p], r, b, "body")
           /\ \/ Frames(dque'[p], toDubbo'[p], r, b) = Frames(q, toDubbo[p], r, b)
              \/ Connected(p) /\ Frames(dque'[p], toDubbo'[p], r, b) = Frames(<<>>, toDubbo[p], r, b)
  <2> HIDE DEF f, p
  <2>1. q \in Seq(DubboRequests) /\ p \in Endpoints /\ DHandleQueue(p, Connected(p), q) /\ Interior
    BY <1>i, <1>7, <1>9
  <2>2. QED BY <2>1, DubboWrites
<1>10. /\ dque' \in [Endpoints -> Seq(DubboRequests)] /\ toDubbo' \in [Endpoints -> Seq(DubboRequests)]
       /\ \A x \in Endpoints : x # p => dque'[x] = dque[x] /\ toDubbo'[x] = toDubbo[x]
       /\ Connected(p) => dque'[p] = <<>>
       /\ Elements(dque'[p]) \cup Elements(toDubbo'[p]) \subseteq Elements(q) \cup Elements(toDubbo[p])
       /\ Unique(dque'[p], toDubbo'[p], atDubbo[p], fromDubbo[p], "body")
       /\ \/ Frames(dque'[p], toDubbo'[p], atDubbo[p], fromDubbo[p]) = Frames(q, toDubbo[p], atDubbo[p], fromDubbo[p])
          \/ /\ Connected(p)
             /\ Frames(dque'[p], toDubbo'[p], atDubbo[p], fromDubbo[p])
                    = Frames(<<>>, toDubbo[p], atDubbo[p], fromDubbo[p])
  BY <1>9, <1>w
<1>11. \* The new request is inside, or, on a broken connection, nothing new.
       /\ Asks(p)' = Asks(p) \cup {f} \/ Asks(p)' = Asks(p)
       /\ \A x \in Endpoints : x # p => Asks(x)' = Asks(x)
  <2>1. AsAsked(Frames(q, toDubbo[p], atDubbo[p], fromDubbo[p])) = Asks(p) \cup {f}
    <3>1. ReqFrame(e.id, e.body) = f
      BY <1>4, <1>6
    <3>2. QED BY <1>9, <3>1 DEF Asks, AsAsked
  <2>2. Connected(p) => AsAsked(Frames(<<>>, toDubbo[p], atDubbo[p], fromDubbo[p])) = Asks(p)
    BY <1>i DEF Interior, Flushed, Asks
  <2>3. Asks(p)' = AsAsked(Frames(dque'[p], toDubbo'[p], atDubbo[p], fromDubbo[p]))
    BY <1>7 DEF Asks
  <2>4. \A x \in Endpoints : x # p => Asks(x)' = Asks(x)
    BY <1>7, <1>10 DEF Asks
  <2>5. QED BY <1>10, <2>1, <2>2, <2>3, <2>4
<1>12. PaTypeOK'
  <2>1. cbs' \in [Endpoints -> [Ids -> Links \cup {NoLink}]]
    BY <1>i, <1>4, <1>7 DEF Interior, PaTypeOK
  <2>2. QED BY <1>i, <1>7, <1>10, <2>1 DEF Interior, PaTypeOK
<1>13. Flushed'
  BY <1>i, <1>7, <1>10 DEF Interior, Flushed, Connected
<1>14. PaTraced'
  BY <1>i, <1>5, <1>7, <1>11 DEF Interior, PaTraced
<1>15. PaOnce'
  BY <1>i, <1>7, <1>10 DEF Interior, PaOnce
<1>c. \A x \in Endpoints : \A id \in Ids : cbs'[x][id] = IF x = p /\ id = f.id THEN l ELSE cbs[x][id]
  BY <1>i, <1>4, <1>7 DEF Interior, PaTypeOK
<1>16. PaRegistered'
  <2> SUFFICES ASSUME NEW x \in Endpoints, x \notin collided, NEW g \in Asks(x)'
               PROVE  cbs'[x][g.id] = asked[g.body].link
    BY <1>7 DEF PaRegistered
  <2>1. CASE x = p /\ g = f
    BY <1>4, <1>5, <1>c, <2>1
  <2>2. CASE g \in Asks(x)
    <3>1. cbs[x][g.id] = asked[g.body].link
      BY <1>i, <2>2 DEF Interior, PaRegistered
    <3>2. g.id \in Ids
      BY <1>i, <2>2, AsksInside
    <3>3. x = p => g.id # f.id
      BY <1>2, <1>4, <2>2, IdsApart
    <3>4. QED BY <1>c, <3>1, <3>2, <3>3
  <2>3. QED BY <1>11, <2>1, <2>2
<1>17. PaHome'
  BY <1>i, <1>c DEF Interior, PaHome
<1>18. KeyFits'
  <2> SUFFICES ASSUME NEW m \in Links
               PROVE  /\ stage[m] # "none" => key[m] \in LinkKeys[m]
                      /\ \A j \in DOMAIN toPa'[m] : toPa'[m][j].type = "key" => toPa'[m][j].key \in LinkKeys[m]
                      /\ hdr[m] => hdrKey[m] \in LinkKeys[m]
    BY <1>7 DEF KeyFits
  <2>1. toPa'[m] = IF m = l THEN Tail(toPa[l]) ELSE toPa[m]
    BY <1>1
  <2>2. QED BY <1>i, <1>2, <2>1 DEF Interior, KeyFits
<1>19. KeyTraced'
  <2> SUFFICES ASSUME NEW x \in Endpoints,
                      NEW g \in Elements(dque'[x]) \cup Elements(toDubbo'[x]) \cup atDubbo[x]
               PROVE  g.key \in LinkKeys[asked[g.body].link]
    BY <1>7 DEF KeyTraced
  <2>1. CASE g = e
    BY <1>5, <1>6, <2>1
  <2>2. CASE g # e
    BY <1>i, <1>9, <1>10, <2>2 DEF Interior, KeyTraced
  <2>3. QED BY <2>1, <2>2
<1>20. NeverSpins' /\ PaCrashNeedsCollision'
  BY <1>i, <1>7 DEF Interior, NeverSpins, PaCrashNeedsCollision
<1>21. Interior'
  BY <1>12, <1>13, <1>14, <1>15, <1>16, <1>17, <1>18, <1>19, <1>20 DEF Interior
<1>22. CASE Asks(p)' = Asks(p) \cup {f}
  <2>1. ASSUME NEW m \in Links PROVE Inside(m)' = IF m = l THEN Inside(l) \cup {f} ELSE Inside(m)
    <3>1. /\ Inside(m) = {g \in Asks(EndpointOf[m]) : asked[g.body].link = m}
          /\ Inside(m)' = {g \in Asks(EndpointOf[m])' : asked[g.body].link = m}
          /\ EndpointOf[m] \in Endpoints
      BY <1>7, InsideFacts, WireAssumption
    <3>2. CASE m = l
      BY <1>5, <1>22, <3>1, <3>2
    <3>3. CASE m # l
      BY <1>5, <1>11, <1>22, <3>1, <3>3
    <3>4. QED BY <3>2, <3>3
  <2>2. [m \in Links |-> Inside(m)]' = [[m \in Links |-> Inside(m)] EXCEPT ![l] = @ \cup {f}]
    BY <2>1
  <2>3. AsPeer!PeerRead(l)
    BY <1>1, <1>7, <2>2 DEF AsPeer!PeerRead, caVars, AsPeer!caVars
  <2>4. QED BY <1>21, <2>3
<1>23. CASE Asks(p)' = Asks(p)
  <2>1. UNCHANGED [m \in Links |-> Inside(m)]
    BY <1>i, <1>7, <1>11, <1>23, InsideSame
  <2>2. AsPeer!PeerIgnore(l)
    BY <1>1, <1>7, <2>1 DEF AsPeer!PeerIgnore, caVars, AsPeer!caVars
  <2>3. QED BY <1>21, <2>2
<1>24. QED BY <1>11, <1>22, <1>23

\* A response is taken: nothing else inside carries its request's number.
LEMMA TakeResponse ==
    ASSUME NEW q, NEW w, NEW r, NEW b \in Seq(DubboResponses), b # <<>>
    PROVE  Unique(q, w, r, b, "body") =>
                /\ Unique(q, w, r, Tail(b), "body")
                /\ \A g \in Frames(q, w, r, Tail(b)) : Mark(g, "body") # Mark(Head(b), "body")
<1>1. /\ Frames(q, w, r, b) = Frames(q, w, r, Tail(b)) \cup {Head(b)}
      /\ \A fld : Unique(q, w, r, b, fld) =>
            /\ Unique(q, w, r, Tail(b), fld)
            /\ \A g \in Frames(q, w, r, Tail(b)) : Mark(g, fld) # Mark(Head(b), fld)
  BY PlaceTake
<1>2. QED BY <1>1

\* The provider agent reads an answer and hands it to the link registered.
LEMMA ReplyKeeps ==
    ASSUME MeshInv, NEW p \in Endpoints, DReadCb(p), UNCHANGED caVars
    PROVE  /\ Interior'
           /\ \/ UNCHANGED AsPeer!vars
              \/ \E s \in SUBSET UNION {[x \in Links |-> Inside(x)][y] : y \in Links} : AsPeer!PeerLose(s)
              \/ \E l \in Links : AsPeer!Peer(l)
<1> DEFINE f == Head(fromDubbo[p])
           e == ReqFrame(f.id, f.body)
           m == asked[f.body].link
           l == cbs[p][f.id]
<1>i. Interior /\ P!Basic /\ P!Delivery
  BY DEF MeshInv
<1>1. /\ fromDubbo[p] # <<>> /\ fromDubbo[p] \in Seq(DubboResponses)
      /\ fromDubbo' = [fromDubbo EXCEPT ![p] = Tail(fromDubbo[p])]
      /\ UNCHANGED <<chan, toPa, pctx, hdr, hdrKey, dstage, dque, toDubbo, atDubbo>>
      /\ UNCHANGED <<stage, key, asked, collided, caVars>>
      /\ l = NoLink => pa' = [pa EXCEPT ![p] = "crashed"] /\ cbs' = cbs /\ fromPa' = fromPa
      /\ l # NoLink => /\ cbs' = [cbs EXCEPT ![p][f.id] = NoLink] /\ pa' = pa
                       /\ fromPa' = IF pctx[l] = "open" THEN Written(fromPa, l, <<e>>) ELSE fromPa
  BY <1>i, PaTypes DEF DReadCb, DErase, caVars, Interior, PaTypeOK
<1>2. f \in DubboResponses /\ Tail(fromDubbo[p]) \in Seq(DubboResponses) /\ f \in Elements(fromDubbo[p])
  BY <1>1, TailFacts
<1>3. f.id \in Ids /\ e.id = f.id /\ e.body = f.body
  BY <1>2 DEF DubboResponses, ReqFrame
<1>4. /\ Frames(dque[p], toDubbo[p], atDubbo[p], fromDubbo[p])
            = Frames(dque[p], toDubbo[p], atDubbo[p], Tail(fromDubbo[p])) \cup {f}
      /\ Unique(dque[p], toDubbo[p], atDubbo[p], Tail(fromDubbo[p]), "body")
      /\ \A g \in Frames(dque[p], toDubbo[p], atDubbo[p], Tail(fromDubbo[p])) : g.body # f.body
  <2>0. fromDubbo[p] \in Seq(DubboResponses) /\ fromDubbo[p] # <<>>
    BY <1>1
  <2>1. Unique(dque[p], toDubbo[p], atDubbo[p], fromDubbo[p], "body")
    BY <1>i, PaTypes
  <2>2. /\ Unique(dque[p], toDubbo[p], atDubbo[p], Tail(fromDubbo[p]), "body")
        /\ \A g \in Frames(dque[p], toDubbo[p], atDubbo[p], Tail(fromDubbo[p])) : Mark(g, "body") # Mark(f, "body")
    BY <2>0, <2>1, TakeResponse
  <2>3. Frames(dque[p], toDubbo[p], atDubbo[p], fromDubbo[p])
            = Frames(dque[p], toDubbo[p], atDubbo[p], Tail(fromDubbo[p])) \cup {f}
    <3>1. Elements(fromDubbo[p]) = Elements(Tail(fromDubbo[p])) \cup {f}
      BY <2>0, TailFacts
    <3>2. QED BY <3>1 DEF Frames
  <2>4. QED BY <2>2, <2>3 DEF Mark
<1>5. \A x \in Endpoints : fromDubbo'[x] = IF x = p THEN Tail(fromDubbo[p]) ELSE fromDubbo[x]
  BY <1>i, <1>1 DEF Interior, PaTypeOK
<1>6. /\ Asks(p)' = Asks(p) \ {e} /\ e \in Asks(p)
      /\ \A x \in Endpoints : x # p => Asks(x)' = Asks(x)
  <2>1. Asks(p)' = AsAsked(Frames(dque[p], toDubbo[p], atDubbo[p], Tail(fromDubbo[p])))
    BY <1>1, <1>5 DEF Asks
  <2>2. Asks(p) = Asks(p)' \cup {e}
    BY <1>4, <2>1 DEF Asks, AsAsked
  <2>3. e \notin Asks(p)'
    <3>1. \A i, n : ReqFrame(i, n).body = n
      BY DEF ReqFrame
    <3>2. \A g \in Asks(p)' : g.body # f.body
      BY <1>4, <2>1, <3>1 DEF AsAsked
    <3>3. QED BY <1>3, <3>2
  <2>4. \A x \in Endpoints : x # p => Asks(x)' = Asks(x)
    BY <1>1, <1>5 DEF Asks
  <2>5. QED BY <2>2, <2>3, <2>4
<1>7. m \in Links /\ EndpointOf[m] = p /\ e \in Inside(m) /\ f.body \in DOMAIN asked
  BY <1>i, <1>3, <1>6, AsksInside
<1>8. /\ p \notin collided => l = m
      /\ l # NoLink => l \in Links /\ EndpointOf[l] = p
  BY <1>i, <1>3, <1>6 DEF Interior, PaRegistered, PaHome, PaTypeOK
<1>c. \A x \in Endpoints : \A id \in Ids :
         cbs'[x][id] = IF x = p /\ id = f.id /\ l # NoLink THEN NoLink ELSE cbs[x][id]
  BY <1>i, <1>1, <1>3 DEF Interior, PaTypeOK
<1> HIDE DEF f, e, m, l
<1>9. PaTypeOK'
  <2>1. fromDubbo' \in [Endpoints -> Seq(DubboResponses)]
    BY <1>i, <1>1, <1>2 DEF Interior, PaTypeOK
  <2>2. cbs' \in [Endpoints -> [Ids -> Links \cup {NoLink}]]
    <3>1. cbs \in [Endpoints -> [Ids -> Links \cup {NoLink}]]
      BY <1>i DEF Interior, PaTypeOK
    <3>2. cbs' = cbs \/ cbs' = [cbs EXCEPT ![p][f.id] = NoLink]
      BY <1>1
    <3>3. QED BY <1>3, <3>1, <3>2
  <2>3. pa' \in [Endpoints -> {"up", "crashed", "spinning"}]
    BY <1>i, <1>1 DEF Interior, PaTypeOK
  <2>4. QED BY <1>i, <1>1, <2>1, <2>2, <2>3 DEF Interior, PaTypeOK
<1>10. PaTraced'
  BY <1>i, <1>1, <1>6 DEF Interior, PaTraced
<1>11. PaOnce'
  BY <1>i, <1>1, <1>4, <1>5 DEF Interior, PaOnce
<1>12. PaRegistered'
  <2> SUFFICES ASSUME NEW x \in Endpoints, x \notin collided, NEW g \in Asks(x)'
               PROVE  cbs'[x][g.id] = asked[g.body].link
    BY <1>1 DEF PaRegistered
  <2>1. g \in Asks(x) /\ g.id \in Ids
    BY <1>i, <1>6, AsksInside
  <2>2. cbs[x][g.id] = asked[g.body].link
    BY <1>i, <2>1 DEF Interior, PaRegistered
  <2>3. x = p => g.id # f.id
    BY <1>3, <1>6, <2>1, IdsApart
  <2>4. QED BY <1>c, <2>1, <2>2, <2>3
<1>13. PaHome'
  BY <1>i, <1>c DEF Interior, PaHome
<1>14. PaCrashNeedsCollision' /\ NeverSpins'
  <2>1. l = NoLink => p \in collided
    BY <1>7, <1>8, ProviderAssumption
  <2>2. QED BY <1>i, <1>1, <2>1 DEF Interior, PaTypeOK, PaCrashNeedsCollision, NeverSpins
<1>15. Flushed' /\ KeyFits' /\ KeyTraced'
  BY <1>i, <1>1 DEF Interior, Flushed, Connected, KeyFits, KeyTraced
<1>16. Interior'
  BY <1>9, <1>10, <1>11, <1>12, <1>13, <1>14, <1>15 DEF Interior
<1>17. CASE l = NoLink \/ pctx[l] # "open"
  <2>1. fromPa' = fromPa
    BY <1>1, <1>17
  <2>2. UNCHANGED <<chan, toPa, fromPa, hdr, caVars>> /\ {e} \in SUBSET Asks(p)
    BY <1>1, <1>6, <2>1
  <2>3. UNCHANGED AsPeer!vars \/ \E s \in SUBSET UNION {[x \in Links |-> Inside(x)][y] : y \in Links} : AsPeer!PeerLose(s)
    BY <1>i, <1>6, <2>2, LossRefines
  <2>4. QED BY <1>16, <2>3
<1>18. CASE l # NoLink /\ pctx[l] = "open"
  <2>1. fromPa' = Written(fromPa, l, <<e>>) /\ l \in Links /\ EndpointOf[l] = p
    BY <1>1, <1>8, <1>18
  <2>2. fromPa' = AsPeer!Written(fromPa, l, <<e>>)
    BY <2>1 DEF Written, AsPeer!Written
  <2>3. ASSUME NEW x \in Links PROVE Inside(x)' = IF x = m THEN Inside(x) \ {e} ELSE Inside(x)
    <3>1. /\ Inside(x) = {g \in Asks(EndpointOf[x]) : asked[g.body].link = x}
          /\ Inside(x)' = {g \in Asks(EndpointOf[x])' : asked[g.body].link = x}
          /\ EndpointOf[x] \in Endpoints
      BY <1>1, InsideFacts, WireAssumption
    <3>2. asked[e.body].link = m
      BY <1>3 DEF m
    <3>3. QED BY <1>6, <1>7, <3>1, <3>2
  <2>4. [x \in Links |-> Inside(x)]' = [[x \in Links |-> Inside(x)] EXCEPT ![m] = @ \ {e}]
    BY <2>3
  <2>5. UNCHANGED <<chan, toPa, hdr, AsPeer!caVars>> /\ e \in [x \in Links |-> Inside(x)][m]
    BY <1>1, <1>7 DEF caVars, AsPeer!caVars
  <2>6. CASE l = m
    <3>1. AsPeer!PeerAnswer(m, e)
      BY <2>2, <2>4, <2>5, <2>6 DEF AsPeer!PeerAnswer
    <3>2. AsPeer!Peer(m)
      BY <2>5, <3>1 DEF AsPeer!Peer
    <3>3. QED BY <1>7, <1>16, <3>2
  <2>7. CASE l # m
    <3>1. AsPeer!PeerMisdirect(m, e, l)
      BY <1>7, <1>8, <2>1, <2>2, <2>4, <2>5, <2>7 DEF AsPeer!PeerMisdirect
    <3>2. AsPeer!Peer(m)
      BY <2>1, <2>5, <3>1 DEF AsPeer!Peer
    <3>3. QED BY <1>7, <1>16, <3>2
  <2>8. QED BY <2>6, <2>7
<1>19. QED BY <1>17, <1>18

-----------------------------------------------------------------------------
\* What an agent writes behind a header are requests.
LEMMA WrittenFits ==
    ASSUME NEW l, NEW w \in Seq(WireFrames), NEW q \in Seq(WireFrames),
           \A f \in Elements(w) \cup Elements(q) : f.type = "key" => f.key \in LinkKeys[l]
    PROVE  \A j \in DOMAIN (w \o q) : (w \o q)[j].type = "key" => (w \o q)[j].key \in LinkKeys[l]
<1>1. Elements(w \o q) = Elements(w) \cup Elements(q)
  BY ConcatFacts
<1>2. \A j \in DOMAIN (w \o q) : (w \o q)[j] \in Elements(w \o q)
  BY DEF Elements
<1>3. QED BY <1>1, <1>2

\* So the queue an agent writes has no header at all.
LEMMA QueueFits ==
    ASSUME Interior, P!Basic, NEW l \in Links, NEW connected, NEW q \in Seq(ReqFrames),
           HandleQueue(l, connected, q)
    PROVE  \A m \in Links : \A j \in DOMAIN toPa'[m] : toPa'[m][j].type = "key" => toPa'[m][j].key \in LinkKeys[m]
<1> SUFFICES ASSUME NEW m \in Links
             PROVE  \A j \in DOMAIN toPa'[m] : toPa'[m][j].type = "key" => toPa'[m][j].key \in LinkKeys[m]
  OBVIOUS
<1>1. toPa \in [Links -> Seq(WireFrames)]
  BY LinkFacts
<1>2. \A j \in DOMAIN toPa[m] : toPa[m][j].type = "key" => toPa[m][j].key \in LinkKeys[m]
  BY DEF Interior, KeyFits
<1>3. toPa'[m] = toPa[m] \/ (m = l /\ toPa'[m] = toPa[m] \o q)
  BY <1>1 DEF HandleQueue, Written
<1>4. CASE m = l /\ toPa'[m] = toPa[m] \o q
  <2>1. q \in Seq(WireFrames) /\ \A f \in Elements(q) : f.type = "req"
    <3>1. \A j \in DOMAIN q : q[j] \in ReqFrames
      OBVIOUS
    <3>2. q \in Seq(WireFrames)
      BY DEF WireFrames
    <3>3. QED BY <3>1, <3>2 DEF Elements, ReqFrames
  <2>2. \A f \in Elements(toPa[m]) \cup Elements(q) : f.type = "key" => f.key \in LinkKeys[m]
    BY <1>2, <2>1 DEF Elements
  <2>3. toPa[m] \in Seq(WireFrames)
    BY <1>1
  <2>4. \A j \in DOMAIN (toPa[m] \o q) : (toPa[m] \o q)[j].type = "key" => (toPa[m] \o q)[j].key \in LinkKeys[m]
    BY <2>1, <2>2, <2>3, WrittenFits
  <2>5. QED BY <1>4, <2>4
<1>5. QED BY <1>2, <1>3, <1>4

\* Whatever agents do, every header has a key of its link.
LEMMA KeyFitsKept ==
    ASSUME Interior, P!Basic, UNCHANGED paVars,
           \/ HttpNext
           \/ \E l \in Links : Connect(l) \/ LinkNext(l)
           \/ \E l \in Links : Break(l) /\ UNCHANGED caVars
    PROVE  KeyFits'
<1> DEFINE ToPaFits == \A m \in Links : \A j \in DOMAIN toPa[m] :
                          toPa[m][j].type = "key" => toPa[m][j].key \in LinkKeys[m]
           StageFits == \A m \in Links : stage[m] # "none" => key[m] \in LinkKeys[m]
<1>1. ToPaFits /\ StageFits /\ \A m \in Links : hdr'[m] => hdrKey'[m] \in LinkKeys[m]
  BY DEF Interior, KeyFits, paVars
<1>2. ToPaFits' /\ StageFits' => KeyFits'
  BY <1>1 DEF KeyFits
<1>3. /\ que \in [Links -> Seq(ReqFrames)] /\ toPa \in [Links -> Seq(WireFrames)]
      /\ stage \in [Links -> {"none", "connecting", "keying", "ready", "dead"}] /\ key \in [Links -> Keys]
      /\ Len(asked) \in Nat
  <2>1. que \in [Links -> Seq(ReqFrames)]
    BY DEF P!Basic, P!CaTypeOK, P!ReqFrames, ReqFrames
  <2>2. toPa \in [Links -> Seq(WireFrames)]
    <3>1. CASE Links = {}
      BY <3>1 DEF P!Basic, P!CaTypeOK
    <3>2. CASE Links # {}
      BY <3>2, LinkFacts
    <3>3. QED BY <3>1, <3>2
  <2>3. asked \in Seq(P!Request)
    BY DEF P!Basic, P!CaTypeOK
  <2>4. QED BY <2>1, <2>2, <2>3 DEF P!Basic, P!CaTypeOK
<1>4. ASSUME NEW c \in Conns, NEW k \in Keys, NEW l \in Links, NEW id \in Rand, Fetch(c, k, l, id)
      PROVE  ToPaFits' /\ StageFits'
  <2>1. id \in Ids
    BY DEF Rand
  <2>2. ReqFrame(id, Len(asked) + 1) \in ReqFrames
    BY <1>3, <2>1 DEF ReqFrame, ReqFrames
  <2>3. que[l] \in Seq(ReqFrames)
    BY <1>3
  <2>4. Append(que[l], ReqFrame(id, Len(asked) + 1)) \in Seq(ReqFrames)
    BY <2>2, <2>3, AppendFacts
  <2>5. HandleQueue(l, stage[l] = "ready", Append(que[l], ReqFrame(id, Len(asked) + 1)))
    BY <1>4 DEF Fetch
  <2>6. ToPaFits'
    BY <2>4, <2>5, QueueFits
  <2>7. k \in LinkKeys[l]
    BY <1>4 DEF Fetch, Selects
  <2>8. /\ stage' = [stage EXCEPT ![l] = IF stage[l] = "none" THEN "connecting" ELSE stage[l]]
        /\ key' = [key EXCEPT ![l] = IF stage[l] = "none" THEN k ELSE key[l]]
    BY <1>3, <1>4 DEF Fetch
  <2>9. StageFits'
    BY <1>1, <1>3, <2>7, <2>8
  <2>10. QED BY <2>6, <2>9
<1>5. ASSUME NEW l \in Links, OnConn(l) PROVE ToPaFits' /\ StageFits'
  <2>1. /\ stage[l] = "connecting" /\ stage' = [stage EXCEPT ![l] = "keying"] /\ key' = key
        /\ toPa' = [toPa EXCEPT ![l] = toPa[l] \o <<KeyFrame(key[l])>>]
    BY <1>3, <1>5 DEF OnConn, ConnWrites
  <2>2. key[l] \in LinkKeys[l] /\ key[l] \in Keys
    BY <1>1, <1>3, <2>1
  <2>3. KeyFrame(key[l]) \in WireFrames /\ KeyFrame(key[l]).key = key[l]
    BY <2>2 DEF KeyFrame, WireFrames, Headers
  <2>4. /\ <<KeyFrame(key[l])>> \in Seq(WireFrames)
        /\ Elements(<<KeyFrame(key[l])>>) = {KeyFrame(key[l])}
    BY <2>3, OneFacts
  <2>5. \A f \in Elements(toPa[l]) \cup {KeyFrame(key[l])} : f.type = "key" => f.key \in LinkKeys[l]
    BY <1>1, <2>2, <2>3 DEF Elements
  <2>6. \A j \in DOMAIN (toPa[l] \o <<KeyFrame(key[l])>>) :
           (toPa[l] \o <<KeyFrame(key[l])>>)[j].type = "key" => (toPa[l] \o <<KeyFrame(key[l])>>)[j].key \in LinkKeys[l]
    <3> DEFINE q == <<KeyFrame(key[l])>>
    <3>1. q \in Seq(WireFrames) /\ toPa[l] \in Seq(WireFrames)
      BY <1>3, <2>4
    <3>2. \A f \in Elements(toPa[l]) \cup Elements(q) : f.type = "key" => f.key \in LinkKeys[l]
      BY <2>4, <2>5
    <3> HIDE DEF q
    <3>3. \A j \in DOMAIN (toPa[l] \o q) : (toPa[l] \o q)[j].type = "key" => (toPa[l] \o q)[j].key \in LinkKeys[l]
      BY <3>1, <3>2, WrittenFits
    <3>4. QED BY <3>3 DEF q
  <2>7. \A m \in Links : toPa'[m] = IF m = l THEN toPa[l] \o <<KeyFrame(key[l])>> ELSE toPa[m]
    BY <1>3, <2>1
  <2>8. ToPaFits'
    BY <1>1, <2>6, <2>7
  <2>9. StageFits'
    BY <1>1, <1>3, <2>1
  <2>10. QED BY <2>8, <2>9
<1>6. ASSUME NEW l \in Links, KeyWriteCb(l) PROVE ToPaFits' /\ StageFits'
  <2>1. HandleQueue(l, TRUE, que[l]) /\ que[l] \in Seq(ReqFrames)
    BY <1>3, <1>6 DEF KeyWriteCb
  <2>2. ToPaFits'
    BY <2>1, QueueFits
  <2>3. StageFits'
    BY <1>1, <1>3, <1>6 DEF KeyWriteCb
  <2>4. QED BY <2>2, <2>3
<1>7. ASSUME NEW l \in Links, OnConnErr(l) \/ KeyWriteErr(l) PROVE ToPaFits' /\ StageFits'
  BY <1>1, <1>3, <1>7 DEF OnConnErr, KeyWriteErr, wireVars
<1>8. ASSUME UNCHANGED <<toPa, stage, key>> PROVE ToPaFits' /\ StageFits'
  BY <1>1, <1>8
<1>9. ASSUME NEW l \in Links, PaReadCb(l) \/ PaReadErr(l) \/ (Break(l) /\ UNCHANGED caVars)
      PROVE  UNCHANGED <<toPa, stage, key>>
  BY <1>9 DEF PaReadCb, PaReadErr, Break, LinkReset, caVars
<1>10. ASSUME NEW c \in Conns, HttpClose(c) PROVE UNCHANGED <<toPa, stage, key>>
  BY <1>10 DEF HttpClose, wireVars
<1> HIDE DEF ToPaFits, StageFits
<1>11. ToPaFits' /\ StageFits'
  BY <1>4, <1>5, <1>6, <1>7, <1>8, <1>9, <1>10 DEF HttpNext, Connect, LinkNext
<1>12. QED BY <1>2, <1>11

\* Nothing agents do disturbs what is inside provider agents.
LEMMA AgentKeeps ==
    ASSUME Interior, P!Basic, UNCHANGED paVars,
           \/ HttpNext
           \/ \E l \in Links : Connect(l) \/ LinkNext(l)
           \/ \E l \in Links : Break(l) /\ UNCHANGED caVars
    PROVE  Interior'
<1>1. KeyFits'
  BY KeyFitsKept
<1>2. collided \subseteq collided' /\ \A n \in DOMAIN asked : n \in DOMAIN asked' /\ asked'[n] = asked[n]
  <2>1. asked \in Seq(Request)
    BY DEF P!Basic, P!CaTypeOK, P!Request, Request
  <2>2. ASSUME NEW c \in Conns, NEW k \in Keys, NEW l \in Links, NEW id \in Rand, Fetch(c, k, l, id)
        PROVE  collided \subseteq collided' /\ \A n \in DOMAIN asked : n \in DOMAIN asked' /\ asked'[n] = asked[n]
    <3>1. /\ asked' = Append(asked, [conn |-> c, link |-> l, key |-> k, id |-> id])
          /\ collided' = IF InUse(l, id) THEN collided \cup {EndpointOf[l]} ELSE collided
      BY <2>2 DEF Fetch
    <3>2. QED BY <2>1, <3>1
  <2>3. UNCHANGED <<asked, collided>> \/ \E c \in Conns, k \in Keys, l \in Links, id \in Rand : Fetch(c, k, l, id)
    BY DEF HttpNext, HttpClose, Connect, LinkNext, OnConn, OnConnErr, KeyWriteCb, KeyWriteErr, PaReadCb, PaReadErr, caVars
  <2>4. QED BY <2>2, <2>3
<1>3. /\ UNCHANGED <<pa, pctx, hdr, hdrKey, dstage, dque, cbs, toDubbo, atDubbo, fromDubbo>>
      /\ \A p \in Endpoints : Asks(p)' = Asks(p)
  BY DEF paVars, Asks
<1>4. \A p \in Endpoints : \A g \in Elements(dque[p]) \cup Elements(toDubbo[p]) \cup atDubbo[p] : g.body \in DOMAIN asked
  <2> SUFFICES ASSUME NEW p \in Endpoints, NEW g \in Elements(dque[p]) \cup Elements(toDubbo[p]) \cup atDubbo[p]
               PROVE  g.body \in DOMAIN asked
    OBVIOUS
  <2>1. ReqFrame(g.id, g.body) \in Asks(p) /\ ReqFrame(g.id, g.body).body = g.body
    BY DEF Asks, AsAsked, Frames, ReqFrame
  <2>2. QED BY <2>1 DEF Interior, PaTraced
<1>5. PaTypeOK' /\ Flushed' /\ PaOnce' /\ PaHome' /\ NeverSpins'
  BY <1>3 DEF Interior, PaTypeOK, Flushed, Connected, PaOnce, PaHome, NeverSpins
<1>6. PaTraced' /\ PaRegistered'
  BY <1>2, <1>3 DEF Interior, PaTraced, PaRegistered
<1>7. KeyTraced'
  BY <1>2, <1>3, <1>4 DEF Interior, KeyTraced
<1>8. PaCrashNeedsCollision'
  BY <1>2, <1>3 DEF Interior, PaCrashNeedsCollision
<1>9. QED BY <1>1, <1>5, <1>6, <1>7, <1>8 DEF Interior

-----------------------------------------------------------------------------
\* CaProofs is about the same agents with the same peers.
LEMMA SameSteps ==
    ASSUME AsPeer!Next \/ UNCHANGED AsPeer!vars
    PROVE  [P!Next]_(P!vars)
  BY Zenon DEF AsPeer!Next, P!Next, AsPeer!vars, P!vars, AsPeer!wireVars, P!wireVars, AsPeer!caVars, P!caVars,
         AsPeer!peerVars, P!peerVars, AsPeer!HttpNext, P!HttpNext, AsPeer!Agent, P!Agent,
         AsPeer!Peer, P!Peer, AsPeer!Fault, P!Fault, AsPeer!PeerLose, P!PeerLose, AsPeer!PeerRead,
         P!PeerRead, AsPeer!PeerAnswer, P!PeerAnswer, AsPeer!PeerMisdirect, P!PeerMisdirect,
         AsPeer!PeerIgnore, P!PeerIgnore, AsPeer!PeerDrop, P!PeerDrop, AsPeer!Fetch, P!Fetch,
         AsPeer!HttpClose, P!HttpClose, AsPeer!OnConn, P!OnConn, AsPeer!OnConnErr, P!OnConnErr,
         AsPeer!LinkNext, P!LinkNext, AsPeer!KeyWriteCb, P!KeyWriteCb, AsPeer!KeyWriteErr,
         P!KeyWriteErr, AsPeer!PaReadCb, P!PaReadCb, AsPeer!PaReadErr, P!PaReadErr,
         AsPeer!LinkReset, P!LinkReset, AsPeer!Alive, P!Alive, AsPeer!Selects, P!Selects,
         AsPeer!InUse, P!InUse, AsPeer!Rand, P!Rand, AsPeer!HandleQueue, P!HandleQueue,
         AsPeer!Written, P!Written, AsPeer!ReqFrame, P!ReqFrame, AsPeer!KeyFrame, P!KeyFrame,
         AsPeer!NoId, P!NoId, AsPeer!ConnWrites, P!ConnWrites, AsPeer!ContextOf, P!ContextOf,
         AsPeer!Erase, P!Erase

\* At first nothing is inside.
LEMMA MeshStarts == Init => MeshInv /\ AsPeer!Init /\ P!Init
<1> SUFFICES ASSUME Init PROVE MeshInv /\ AsPeer!Init /\ P!Init
  OBVIOUS
<1>1. \A p \in Endpoints : dque[p] = <<>> /\ toDubbo[p] = <<>> /\ atDubbo[p] = {} /\ fromDubbo[p] = <<>>
  BY DEF Init, PaInit
<1>2. \A p \in Endpoints : Asks(p) = {}
  BY <1>1, EmptyFacts DEF Asks, AsAsked, Frames
<1>3. ASSUME NEW l \in Links PROVE Inside(l) = {}
  <2>1. EndpointOf[l] \in Endpoints
    BY WireAssumption
  <2>2. QED BY <1>2, <2>1, InsideFacts
<1>4. [l \in Links |-> Inside(l)] = [l \in Links |-> {}]
  BY <1>3
<1>5. AsPeer!Init
  BY <1>4 DEF Init, PaInit, WireInit, CaInit, AsPeer!Init, AsPeer!WireInit, AsPeer!CaInit
<1>6. P!Init
  BY <1>4 DEF Init, PaInit, WireInit, CaInit, P!Init, P!WireInit, P!CaInit
<1>7. P!Basic
  BY <1>6, P!BasicInit, WireAssumption, AgentAssumption
<1>8. P!Delivery
  BY <1>6, P!DeliveryInit, WireAssumption, AgentAssumption
<1>9. PaTypeOK
  <2>1. (CHOOSE k \in Keys : TRUE) \in Keys
    BY WireAssumption
  <2>2. QED BY <2>1 DEF Init, PaInit, PaTypeOK
<1>10. PaOnce
  <2>1. Unique(<<>>, <<>>, {}, <<>>, "body")
    BY EmptyFacts DEF Unique, Apart, Single
  <2>2. QED BY <1>1, <2>1 DEF PaOnce
<1>11. Flushed /\ PaTraced /\ PaRegistered
  BY <1>1, <1>2 DEF Flushed, PaTraced, PaRegistered
<1>12. PaHome /\ NeverSpins /\ PaCrashNeedsCollision
  BY DEF Init, PaInit, PaHome, NeverSpins, PaCrashNeedsCollision
<1>13. KeyFits
  BY DEF Init, PaInit, WireInit, CaInit, KeyFits
<1>14. KeyTraced
  BY <1>1, EmptyFacts DEF KeyTraced
<1>15. QED BY <1>5, <1>6, <1>7, <1>8, <1>9, <1>10, <1>11, <1>12, <1>13, <1>14 DEF MeshInv, Interior

\* Every step of the mesh keeps what is inside provider agents in order, and
\* is a step of agents and their peers or one they do not see.
LEMMA MeshRefines ==
    ASSUME MeshInv, [Next]_vars
    PROVE  Interior' /\ (AsPeer!Next \/ UNCHANGED AsPeer!vars)
<1>i. Interior /\ P!Basic /\ P!Delivery
  BY DEF MeshInv
<1>1. CASE \/ HttpNext /\ UNCHANGED paVars
           \/ \E l \in Links : AgentStep(l)
           \/ \E l \in Links : Break(l) /\ UNCHANGED <<caVars, paVars>>
  <2>1. Interior'
    BY <1>i, <1>1, AgentKeeps DEF AgentStep
  <2>2. QED BY <1>i, <1>1, <2>1, AgentRefines
<1>2. CASE UNCHANGED vars
  <2>1. UNCHANGED <<chan, toPa, fromPa, hdr, caVars>> /\ \A p \in Endpoints : Asks(p)' = Asks(p)
    BY <1>2 DEF vars, wireVars, paVars, Asks
  <2>2. UNCHANGED <<paVars, stage, key, asked, collided, toPa>>
    BY <1>2 DEF vars, wireVars, caVars
  <2>3. /\ PaTypeOK' /\ Flushed' /\ PaOnce' /\ KeyFits' /\ KeyTraced' /\ NeverSpins' /\ PaCrashNeedsCollision'
    BY <1>i, <2>2 DEF paVars, Interior, PaTypeOK, Flushed, Connected, PaOnce, KeyFits, KeyTraced, NeverSpins, PaCrashNeedsCollision
  <2>4. Interior'
    BY <1>i, <2>1, <2>2, <2>3, InteriorShrinks DEF paVars
  <2>5. QED BY <1>i, <2>1, <2>4, QuietStep
<1>3. ASSUME NEW l \in Links, ProviderAgentStep(l) PROVE Interior' /\ (AsPeer!Next \/ UNCHANGED AsPeer!vars)
  <2>1. UNCHANGED caVars
    BY <1>3 DEF ProviderAgentStep
  <2>2. CASE POnConn(l)
    BY <1>i, <2>1, <2>2, IdleKeeps
  <2>3. CASE POnReadHeader(l)
    <3>1. Interior' /\ AsPeer!PeerRead(l)
      BY <1>i, <2>1, <2>3, HeaderKeeps
    <3>2. QED BY <3>1 DEF AsPeer!Next, AsPeer!Peer
  <2>4. CASE POnRead(l)
    <3>1. Interior' /\ (AsPeer!PeerRead(l) \/ AsPeer!PeerIgnore(l))
      BY <2>1, <2>4, ReadKeeps
    <3>2. QED BY <3>1 DEF AsPeer!Next, AsPeer!Peer
  <2>5. CASE POnReadErr(l)
    <3>1. Interior' /\ (AsPeer!PeerDrop(l) \/ UNCHANGED AsPeer!vars)
      BY <1>i, <2>1, <2>5, ReadErrKeeps
    <3>2. QED BY <3>1 DEF AsPeer!Next, AsPeer!Peer
  <2>6. QED BY <1>3, <2>2, <2>3, <2>4, <2>5 DEF ProviderAgentStep, PLinkNext
<1>4. ASSUME NEW p \in Endpoints, DubboStep(p) PROVE Interior' /\ (AsPeer!Next \/ UNCHANGED AsPeer!vars)
  <2>1. UNCHANGED caVars
    BY <1>4 DEF DubboStep
  <2>2. CASE DOnConnect(p)
    BY <1>i, <2>1, <2>2, OnConnectKeeps
  <2>3. CASE DOnConnectErr(p)
    BY <1>i, <2>1, <2>3, IdleKeeps
  <2>4. CASE DReadCb(p)
    <3>1. /\ Interior'
          /\ \/ UNCHANGED AsPeer!vars
             \/ \E s \in SUBSET UNION {[x \in Links |-> Inside(x)][y] : y \in Links} : AsPeer!PeerLose(s)
             \/ \E l \in Links : AsPeer!Peer(l)
      BY <2>1, <2>4, ReplyKeeps
    <3>2. QED BY <3>1 DEF AsPeer!Next
  <2>5. QED BY <1>4, <2>2, <2>3, <2>4 DEF DubboStep, DConnect
<1>5. ASSUME NEW p \in Endpoints, ProviderStep(p) PROVE Interior' /\ (AsPeer!Next \/ UNCHANGED AsPeer!vars)
  <2>1. UNCHANGED caVars
    BY <1>5 DEF ProviderStep
  <2>2. CASE ProviderRead(p)
    BY <1>i, <2>1, <2>2, ProviderReadKeeps
  <2>3. ASSUME NEW f \in atDubbo[p], ProviderReply(p, f) PROVE Interior' /\ UNCHANGED AsPeer!vars
    BY <1>i, <2>1, <2>3, ProviderReplyKeeps
  <2>4. QED BY <1>5, <2>2, <2>3 DEF ProviderStep, Provider
<1>6. ASSUME NEW p \in Endpoints, DReset(p), UNCHANGED caVars
      PROVE  Interior' /\ (AsPeer!Next \/ UNCHANGED AsPeer!vars)
  <2>1. /\ Interior'
        /\ UNCHANGED AsPeer!vars \/ \E s \in SUBSET UNION {[x \in Links |-> Inside(x)][y] : y \in Links} : AsPeer!PeerLose(s)
    BY <1>i, <1>6, ResetKeeps
  <2>2. QED BY <2>1 DEF AsPeer!Next
<1>7. QED BY <1>1, <1>2, <1>3, <1>4, <1>5, <1>6 DEF Next

\* So both sides keep their part of the invariant.
LEMMA MeshStep == MeshInv /\ [Next]_vars => MeshInv'
<1> SUFFICES ASSUME MeshInv, [Next]_vars PROVE MeshInv'
  OBVIOUS
<1>1. Interior' /\ (AsPeer!Next \/ UNCHANGED AsPeer!vars)
  BY MeshRefines
<1>2. [P!Next]_(P!vars)
  BY <1>1, SameSteps
<1>3. P!Basic'
  BY <1>2, P!BasicStep, WireAssumption, AgentAssumption DEF MeshInv
<1>4. P!Delivery'
  BY <1>2, P!DeliveryStep, WireAssumption, AgentAssumption DEF MeshInv
<1>5. QED BY <1>1, <1>3, <1>4 DEF MeshInv

\* It holds in every reachable state.
LEMMA MeshInvariant == Spec => []MeshInv
<1>1. QED BY MeshStarts, MeshStep, PTL DEF Spec

-----------------------------------------------------------------------------
\* Provider agent and Dubbo provider together, through every interleaving,
\* fault and repeated id, are a peer of the kind CaWithPeer describes (on_read,
\* dubbo_fetch and _d_read_cb, pa.cc and dubbo_client.cc): no answer is made
\* up or sent twice, and none goes out on another link than it came in on
\* unless an id in use was drawn at that very provider agent.
THEOREM MeshImplementsPeer == Spec => ImplementsPeer
<1>1. Init => AsPeer!Init
  BY MeshStarts
<1>2. MeshInv /\ [Next]_vars => [AsPeer!Next]_(AsPeer!vars)
  BY MeshRefines
<1>3. QED BY <1>1, <1>2, MeshInvariant, PTL DEF Spec, ImplementsPeer, AsPeer!Spec

\* Hence everything proved of consumer agents with such peers is true of the
\* running system.
LEMMA MeshIsAgentsAndPeers == Spec => P!Spec
<1>1. Init => P!Init
  BY MeshStarts
<1>2. MeshInv /\ [Next]_vars => [P!Next]_(P!vars)
  BY MeshRefines, SameSteps
<1>3. QED BY <1>1, <1>2, MeshInvariant, PTL DEF Spec, P!Spec

\* Every result the running system writes on an HTTP connection belongs to a
\* request of that connection, unless its id was drawn at an endpoint where
\* ids repeat.
THEOREM MeshAnswersMatch == Spec => []AnswersMatch
<1>1. P!AnswersMatch => AnswersMatch
  BY DEF P!AnswersMatch, AnswersMatch, P!Sound, Sound
<1>2. QED BY <1>1, MeshIsAgentsAndPeers, P!CaAnswersMatch, WireAssumption, AgentAssumption, PTL

\* None is written twice.
THEOREM MeshAnsweredOnce == Spec => []AnsweredOnce
<1>1. P!AnsweredOnce => AnsweredOnce
  BY DEF P!AnsweredOnce, AnsweredOnce, P!Sound, Sound
<1>2. QED BY <1>1, MeshIsAgentsAndPeers, P!CaAnsweredOnce, WireAssumption, AgentAssumption, PTL

\* No consumer agent calls a null callback (pa_client.cc:67) unless an id in
\* use was drawn at one of its endpoints.
THEOREM MeshCrashNeedsCollision == Spec => []CrashNeedsCollision
<1>1. P!CrashNeedsCollision => CrashNeedsCollision
  BY DEF P!CrashNeedsCollision, CrashNeedsCollision
<1>2. QED BY <1>1, MeshIsAgentsAndPeers, P!CaCrashNeedsCollision, WireAssumption, AgentAssumption, PTL

\* The whole system, from HTTP client to Dubbo provider and back, is an RPC
\* service to its HTTP clients as long as no id in use is drawn.
THEOREM MeshImplementsRpc == Spec => P!ImplementsRpc
<1>1. QED BY MeshIsAgentsAndPeers, P!CaImplementsRpc, WireAssumption, AgentAssumption, PTL

\* Frames, contexts, queues and histories keep their types on both sides.
THEOREM MeshTypeCorrect == Spec => [](CaTypeOK /\ PaTypeOK)
<1>1. MeshInv => CaTypeOK /\ PaTypeOK
  BY DEF MeshInv, P!Basic, P!CaTypeOK, P!Request, P!Headers, P!ReqFrames, P!NoId,
         Interior, CaTypeOK, Request, Headers, ReqFrames, NoId
<1>2. QED BY <1>1, MeshInvariant, PTL

\* The endless loop of pa.cc 204-214 is never entered.
THEOREM PaNeverSpins == Spec => []NeverSpins
<1>1. MeshInv => NeverSpins
  BY DEF MeshInv, Interior
<1>2. QED BY <1>1, MeshInvariant, PTL

\* A provider agent calls a null callback (dubbo_client.cc:235) only if an id
\* in use was drawn at that provider agent.
THEOREM PaCrashOnlyAfterCollision == Spec => []PaCrashNeedsCollision
<1>1. MeshInv => PaCrashNeedsCollision
  BY DEF MeshInv, Interior
<1>2. QED BY <1>1, MeshInvariant, PTL

\* The provider executes what was sent to it, under a key with the hash of
\* the key that was asked for (pa.cc 301-314, ca.cc 256-268).
THEOREM MeshKeyFidelity == Spec => []KeyFidelity
<1>1. MeshInv => KeyFidelity
  <2> SUFFICES ASSUME MeshInv, NEW p \in Endpoints, NEW f \in atDubbo[p]
               PROVE  EndpointOf[asked[f.body].link] = p /\ f.key \in LinkKeys[asked[f.body].link]
    BY DEF KeyFidelity
  <2>1. ReqFrame(f.id, f.body) \in Asks(p) /\ ReqFrame(f.id, f.body).body = f.body
    BY DEF Asks, AsAsked, Frames, ReqFrame
  <2>2. QED BY <2>1 DEF MeshInv, Interior, PaTraced, KeyTraced
<1>2. QED BY <1>1, MeshInvariant, PTL
=============================================================================
