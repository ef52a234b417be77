--------------------------- MODULE ProviderAgent ---------------------------
(***************************************************************************)
(* The C++ provider agent: src/uv/pa.cc (the server side of the links)     *)
(* over src/uv/dubbo_client.cc (one connection to the Dubbo provider,      *)
(* shared by the requests of all links).  One action per libuv callback,   *)
(* one frame per read callback: TCP may deliver the frames of a batch in   *)
(* as many reads.                                                          *)
(***************************************************************************)
EXTENDS ActWire

CONSTANT NoLink         \* the null stream_context

ASSUME ProviderAssumption == NoLink \notin Links

VARIABLES
    pa,                 \* endpoint -> "up", "crashed" (null callback called),
                        \*   "spinning" (endless loop in on_read)
    pctx,               \* link -> stream_context: "none", "open", "closed"
    hdr, hdrKey,        \* link -> has_header and the key read from it
    dstage,             \* endpoint -> dubbo connection: "connecting", "ready"
                        \*   (connected = 1), "dead" (refused), "reset"
    dque,               \* endpoint -> client->queue
    cbs,                \* endpoint -> id -> client->contexts (and cbs)
    toDubbo,            \* endpoint -> dubbo requests written, not yet read
    atDubbo,            \* endpoint -> requests the provider is executing
    fromDubbo           \* endpoint -> dubbo responses not yet read

paVars == <<pa, pctx, hdr, hdrKey, dstage, dque, cbs, toDubbo, atDubbo, fromDubbo>>

PaInit ==
    /\ pa = [p \in Endpoints |-> "up"]
    /\ pctx = [l \in Links |-> "none"]
    /\ hdr = [l \in Links |-> FALSE]
    /\ hdrKey = [l \in Links |-> CHOOSE k \in Keys : TRUE]
    /\ dstage = [p \in Endpoints |-> "connecting"]
    /\ dque = [p \in Endpoints |-> <<>>]
    /\ cbs = [p \in Endpoints |-> [id \in Ids |-> NoLink]]
    /\ toDubbo = [p \in Endpoints |-> <<>>]
    /\ atDubbo = [p \in Endpoints |-> {}]
    /\ fromDubbo = [p \in Endpoints |-> <<>>]

Up(p) == pa[p] = "up"

-----------------------------------------------------------------------------
\* dubbo_request_from_act: the request is executed under the key of the
\* connection it came in on, with the id and parameter of the ACT request.
DubboRequest(l, f) == [id |-> f.id, key |-> hdrKey[l], body |-> f.body]

\* A bug dubbo_client.cc could have: requests are written but not popped.
DHandleQueueNoPop(p, connected, q) ==
    /\ dque' = [dque EXCEPT ![p] = q]
    /\ toDubbo' = [toDubbo EXCEPT ![p] = IF connected /\ dstage[p] # "reset" THEN @ \o q ELSE @]

\* handle_queue with queue = q.
DHandleQueue(p, connected, q) ==
    /\ dque' = [dque EXCEPT ![p] = IF connected THEN <<>> ELSE q]
    /\ toDubbo' = [toDubbo EXCEPT ![p] = IF connected /\ dstage[p] # "reset" THEN @ \o q ELSE @]

Connected(p) == dstage[p] \in {"ready", "reset"}

\* A bug dubbo_client.cc could have: one context for all, the latest.
RegisterAll(p, l, id) == [cbs EXCEPT ![p] = [i \in Ids |-> IF i = id \/ @[i] # NoLink THEN l ELSE NoLink]]

\* cbs[id] = cb, contexts[id] = context.
Register(p, l, id) == [cbs EXCEPT ![p][id] = l]

\* dubbo_fetch: an id that is already registered is reported and overwritten.
DubboFetch(p, l, f) ==
    /\ cbs' = Register(p, l, f.id)
    /\ DHandleQueue(p, Connected(p), Append(dque[p], DubboRequest(l, f)))

\* on_conn: accept the connection and create its stream_context.
POnConn(l) ==
    /\ Up(EndpointOf[l])
    /\ pctx[l] = "none" /\ chan[l] # "none"
    /\ pctx' = [pctx EXCEPT ![l] = "open"]
    /\ UNCHANGED <<wireVars, pa, hdr, hdrKey, dstage, dque, cbs, toDubbo, atDubbo, fromDubbo>>

\* on_read, no header yet: take it, or loop for ever on a wrong magic number.
POnReadHeader(l) ==
    /\ Up(EndpointOf[l])
    /\ pctx[l] = "open" /\ ~hdr[l] /\ toPa[l] # <<>>
    /\ LET f == Head(toPa[l])
       IN IF f.type = "key"
          THEN /\ hdr' = [hdr EXCEPT ![l] = TRUE]
               /\ hdrKey' = [hdrKey EXCEPT ![l] = f.key]
               /\ toPa' = [toPa EXCEPT ![l] = Tail(@)]
               /\ UNCHANGED pa
          ELSE /\ pa' = [pa EXCEPT ![EndpointOf[l]] = "spinning"]
               /\ UNCHANGED <<hdr, hdrKey, toPa>>
    /\ UNCHANGED <<chan, fromPa, pctx, dstage, dque, cbs, toDubbo, atDubbo, fromDubbo>>

\* on_read, one request: forward it to the provider.
POnRead(l) ==
    /\ Up(EndpointOf[l])
    /\ pctx[l] = "open" /\ hdr[l] /\ toPa[l] # <<>>
    /\ toPa' = [toPa EXCEPT ![l] = Tail(@)]
    /\ DubboFetch(EndpointOf[l], l, Head(toPa[l]))
    /\ UNCHANGED <<chan, fromPa, pa, pctx, hdr, hdrKey, dstage, atDubbo, fromDubbo>>

\* on_read, nread < 0: close the connection; the stream_context is kept.
POnReadErr(l) ==
    /\ Up(EndpointOf[l])
    /\ pctx[l] = "open" /\ chan[l] = "reset"
    /\ pctx' = [pctx EXCEPT ![l] = "closed"]
    /\ toPa' = [toPa EXCEPT ![l] = <<>>]
    /\ UNCHANGED <<chan, fromPa, pa, hdr, hdrKey, dstage, dque, cbs, toDubbo, atDubbo, fromDubbo>>

\* _d_on_connect, status 0.
DOnConnect(p) ==
    /\ Up(p) /\ dstage[p] = "connecting"
    /\ dstage' = [dstage EXCEPT ![p] = "ready"]
    /\ DHandleQueue(p, TRUE, dque[p])
    /\ UNCHANGED <<wireVars, pa, pctx, hdr, hdrKey, cbs, atDubbo, fromDubbo>>

\* _d_on_connect, status < 0: "lets retry" is printed, nothing is retried.
DOnConnectErr(p) ==
    /\ Up(p) /\ dstage[p] = "connecting"
    /\ dstage' = [dstage EXCEPT ![p] = "dead"]
    /\ UNCHANGED <<wireVars, pa, pctx, hdr, hdrKey, dque, cbs, toDubbo, atDubbo, fromDubbo>>

\* cbs.erase and contexts.erase.
DErase(p, id) == [cbs EXCEPT ![p][id] = NoLink]

\* _d_read_cb, one response: call the callback registered for its id, which is
\* _dubbo_callback, then erase it.  The result goes to the connection the
\* request came from, and nowhere if that is closed.
DReadCb(p) ==
    /\ Up(p) /\ fromDubbo[p] # <<>>
    /\ fromDubbo' = [fromDubbo EXCEPT ![p] = Tail(@)]
    /\ LET f == Head(fromDubbo[p])
           l == cbs[p][f.id]
       IN IF l = NoLink
          THEN /\ pa' = [pa EXCEPT ![p] = "crashed"]
               /\ UNCHANGED <<cbs, fromPa>>
          ELSE /\ cbs' = DErase(p, f.id)
               /\ fromPa' = IF pctx[l] = "open"
                            THEN Written(fromPa, l, <<ReqFrame(f.id, f.body)>>) ELSE fromPa
               /\ UNCHANGED pa
    /\ UNCHANGED <<chan, toPa, pctx, hdr, hdrKey, dstage, dque, toDubbo, atDubbo>>

\* The Dubbo connection breaks; _d_read_cb only logs it, connected stays 1.
DReset(p) ==
    /\ dstage[p] = "ready"
    /\ dstage' = [dstage EXCEPT ![p] = "reset"]
    /\ toDubbo' = [toDubbo EXCEPT ![p] = <<>>]
    /\ atDubbo' = [atDubbo EXCEPT ![p] = {}]
    /\ fromDubbo' = [fromDubbo EXCEPT ![p] = <<>>]
    /\ UNCHANGED <<wireVars, pa, pctx, hdr, hdrKey, dque, cbs>>

-----------------------------------------------------------------------------
\* The Dubbo provider takes a request off its connection ...
ProviderRead(p) ==
    /\ toDubbo[p] # <<>>
    /\ atDubbo' = [atDubbo EXCEPT ![p] = @ \cup {Head(toDubbo[p])}]
    /\ toDubbo' = [toDubbo EXCEPT ![p] = Tail(@)]
    /\ UNCHANGED <<wireVars, pa, pctx, hdr, hdrKey, dstage, dque, cbs, fromDubbo>>

\* ... and its thread pool finishes requests in any order.
ProviderReply(p, f) ==
    /\ f \in atDubbo[p]
    /\ atDubbo' = [atDubbo EXCEPT ![p] = @ \ {f}]
    /\ fromDubbo' = [fromDubbo EXCEPT ![p] = Append(@, [id |-> f.id, body |-> f.body])]
    /\ UNCHANGED <<wireVars, pa, pctx, hdr, hdrKey, dstage, dque, cbs, toDubbo>>

\* What a link makes its provider agent do.
PLinkNext(l) == POnConn(l) \/ POnReadHeader(l) \/ POnRead(l) \/ POnReadErr(l)

Provider(p) == ProviderRead(p) \/ \E f \in atDubbo[p] : ProviderReply(p, f)
=============================================================================
