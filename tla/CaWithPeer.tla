----------------------------- MODULE CaWithPeer -----------------------------
(***************************************************************************)
(* The consumer agent together with the least its peers must do: read the  *)
(* frames of a link in order and answer each request at most once, in any  *)
(* order, on the link it came from; where rand() has drawn an id in use,   *)
(* on any link of the endpoint.  They may lose requests, and connections   *)
(* may fail, at any time.  The proofs about the agent need no more than    *)
(* this, and Mesh.tla shows that the real provider agent is such a peer.   *)
(***************************************************************************)
EXTENDS ConsumerAgent

VARIABLES
    hdr,                \* link -> the peer has read the header
    atPa                \* link -> requests the peer has read, not answered

peerVars == <<hdr, atPa>>
vars == <<wireVars, caVars, peerVars>>

Init ==
    /\ WireInit /\ CaInit
    /\ hdr = [l \in Links |-> FALSE]
    /\ atPa = [l \in Links |-> {}]

\* The peer reads the next frame: the header first, then requests.
PeerRead(l) ==
    /\ toPa[l] # <<>>
    /\ LET f == Head(toPa[l])
       IN IF hdr[l]
          THEN /\ atPa' = [atPa EXCEPT ![l] = @ \cup {f}]
               /\ UNCHANGED hdr
          ELSE /\ hdr' = [hdr EXCEPT ![l] = TRUE]
               /\ UNCHANGED atPa
    /\ toPa' = [toPa EXCEPT ![l] = Tail(@)]
    /\ UNCHANGED <<chan, fromPa, caVars>>

\* The peer answers a request; nothing fixes the order.
PeerAnswer(l, f) ==
    /\ f \in atPa[l]
    /\ atPa' = [atPa EXCEPT ![l] = @ \ {f}]
    /\ fromPa' = Written(fromPa, l, <<f>>)
    /\ UNCHANGED <<chan, toPa, hdr, caVars>>

\* Where an id in use was drawn, dubbo_fetch has overwritten the context of a
\* request: its answer goes out on another link of the endpoint.
PeerMisdirect(l, f, m) ==
    /\ EndpointOf[l] \in collided /\ EndpointOf[m] = EndpointOf[l]
    /\ f \in atPa[l]
    /\ atPa' = [atPa EXCEPT ![l] = @ \ {f}]
    /\ fromPa' = Written(fromPa, m, <<f>>)
    /\ UNCHANGED <<chan, toPa, hdr, caVars>>

\* The peer loses some of the requests it had read ...
PeerLose(lost) ==
    /\ lost # {}
    /\ atPa' = [l \in Links |-> atPa[l] \ lost]
    /\ UNCHANGED <<wireVars, hdr, caVars>>

\* ... or loses one as it reads it ...
PeerIgnore(l) ==
    /\ hdr[l] /\ toPa[l] # <<>>
    /\ toPa' = [toPa EXCEPT ![l] = Tail(@)]
    /\ UNCHANGED <<chan, fromPa, hdr, atPa, caVars>>

\* ... or never reads what is left of a broken connection.
PeerDrop(l) ==
    /\ chan[l] = "reset" /\ toPa[l] # <<>>
    /\ toPa' = [toPa EXCEPT ![l] = <<>>]
    /\ UNCHANGED <<chan, fromPa, hdr, atPa, caVars>>

Peer(l) ==
    \/ PeerRead(l)
    \/ \E f \in atPa[l] : PeerAnswer(l, f)
    \/ \E f \in atPa[l], m \in Links : PeerMisdirect(l, f, m)
    \/ PeerIgnore(l)
    \/ PeerDrop(l)

Agent(l) == OnConn(l) \/ LinkNext(l)

Fault(l) == OnConnErr(l) \/ (LinkReset(l) /\ UNCHANGED caVars)

Next ==
    \/ HttpNext /\ UNCHANGED peerVars
    \/ \E l \in Links : Agent(l) /\ UNCHANGED peerVars
    \/ \E l \in Links : Peer(l)
    \/ \E l \in Links : Fault(l) /\ UNCHANGED peerVars
    \/ \E lost \in SUBSET UNION {atPa[l] : l \in Links} : PeerLose(lost)

Spec == Init /\ [][Next]_vars

-----------------------------------------------------------------------------
\* pa.cc spins for ever on a connection whose first bytes are not the magic
\* number, and takes a second header for a request: so what _pa_on_conn,
\* _pa_key_write_cb and _pa_handle_queue (pa_client.cc 115-202) write on a
\* connection must be one header, before every request.
HeaderFirst ==
    \A l \in Links : \A j \in DOMAIN toPa[l] : (toPa[l][j].type = "key") <=> (j = 1 /\ ~hdr[l])

Rpc == INSTANCE RpcService WITH
    Clients <- Conns,
    caller <- [n \in DOMAIN asked |-> asked[n].conn],
    results <- answers,
    online <- open

\* As long as rand() draws no id that is still in use the agent is an RPC
\* service: every callback of ca.cc and pa_client.cc is a call, an answer, a
\* hang-up, or invisible to HTTP clients.
ImplementsRpc == Rpc!Init /\ [][Rpc!Next \/ collided' # {}]_(Rpc!rpcVars)
=============================================================================
