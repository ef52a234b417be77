-------------------------------- MODULE Mesh --------------------------------
(***************************************************************************)
(* The running system: consumer agents (ConsumerAgent.tla), provider       *)
(* agents (ProviderAgent.tla), the ACT connections between them            *)
(* (ActWire.tla) and the Dubbo provider behind each provider agent.        *)
(***************************************************************************)
EXTENDS ConsumerAgent, ProviderAgent

vars == <<wireVars, caVars, paVars>>

Init == WireInit /\ CaInit /\ PaInit

-----------------------------------------------------------------------------
\* A connect completes: a process that listens accepts it, and any connect
\* may be refused when there are faults or the provider agent is gone.
Connect(l) ==
    \/ Up(EndpointOf[l]) /\ OnConn(l)
    \/ (Faults \/ ~Up(EndpointOf[l])) /\ OnConnErr(l)

DConnect(p) == DOnConnect(p) \/ (Faults /\ DOnConnectErr(p))

\* A connection breaks by itself, or because the process at one end is gone.
Break(l) ==
    /\ Faults \/ ~Up(EndpointOf[l]) \/ ~Alive(l)
    /\ LinkReset(l)

AgentStep(l) == (Connect(l) \/ LinkNext(l)) /\ UNCHANGED paVars
ProviderAgentStep(l) == PLinkNext(l) /\ UNCHANGED caVars
DubboStep(p) == (DConnect(p) \/ DReadCb(p)) /\ UNCHANGED caVars
ProviderStep(p) == Provider(p) /\ UNCHANGED caVars

Next ==
    \/ HttpNext /\ UNCHANGED paVars
    \/ \E l \in Links : AgentStep(l)
    \/ \E l \in Links : ProviderAgentStep(l)
    \/ \E p \in Endpoints : DubboStep(p)
    \/ \E p \in Endpoints : ProviderStep(p)
    \/ \E l \in Links : Break(l) /\ UNCHANGED <<caVars, paVars>>
    \/ Faults /\ \E p \in Endpoints : DReset(p) /\ UNCHANGED caVars

Spec == Init /\ [][Next]_vars

\* The event loops keep running their callbacks, the kernel decides every
\* connect, and the provider finishes what it has accepted.  HTTP clients and
\* faults owe nothing.
Fairness ==
    /\ \A l \in Links :
        /\ WF_vars(AgentStep(l))
        /\ WF_vars(ProviderAgentStep(l))
    /\ \A p \in Endpoints :
        /\ WF_vars(DubboStep(p))
        /\ WF_vars(ProviderStep(p))

FairSpec == Spec /\ Fairness

-----------------------------------------------------------------------------
\* What the provider at p executes (pa.cc 301-314, ca.cc 256-268): requests
\* the load balancer sent to p, under a key with the hash of the request's
\* own key.  With a hash that tells all keys apart that is the request's key.
KeyFidelity ==
    \A p \in Endpoints : \A f \in atDubbo[p] :
        LET r == asked[f.body]
        IN EndpointOf[r.link] = p /\ f.key \in LinkKeys[r.link]

\* No order of connects, header writes and queued requests makes a provider
\* agent read anything but a header first: the endless loop of pa.cc 204-214
\* is never entered.
NeverSpins == \A p \in Endpoints : pa[p] # "spinning"

\* dubbo_client.cc:235 calls cbs[id] without looking it up: a provider agent
\* goes down only if an id in use was drawn at that very provider agent,
\* whatever happens to agents and links at the others.
PaCrashNeedsCollision == \A p \in Endpoints : pa[p] = "crashed" => p \in collided

\* The connections a request on link l depends on.
Failed(l) ==
    \/ stage[l] = "dead" \/ chan[l] = "reset"
    \/ dstage[EndpointOf[l]] \in {"dead", "reset"}

Answered(n) == \E j \in DOMAIN answers[asked[n].conn] : answers[asked[n].conn][j] = n

\* Every request is answered on its connection, unless the HTTP client went
\* away or one of the two connections this very request needs has failed: no
\* failure elsewhere and no order of events can leave it waiting.
EventuallyAnswered ==
    \A n \in 1 .. MaxFetch :
        n \in DOMAIN asked ~>
            n \in DOMAIN asked /\ (Answered(n) \/ ~open[asked[n].conn] \/ Failed(asked[n].link))

\* What _d_on_connect (dubbo_client.cc:250) announces when connecting to the
\* provider fails: "new connect error %s, lets retry".
DubboConnectRetried ==
    \A p \in Endpoints : dstage[p] = "dead" ~> dstage[p] # "dead"

-----------------------------------------------------------------------------
\* The requests of link l that its provider agent has read and not answered.
Inside(l) ==
    LET p == EndpointOf[l]
        all == Elements(dque[p]) \cup Elements(toDubbo[p]) \cup atDubbo[p] \cup Elements(fromDubbo[p])
    IN {ReqFrame(f.id, f.body) : f \in {g \in all : asked[g.body].link = l}}

AsPeer == INSTANCE CaWithPeer WITH atPa <- [l \in Links |-> Inside(l)]

\* The provider agent with the provider behind it is a peer of the kind the
\* consumer agent is proved correct with (on_read, dubbo_fetch, _d_read_cb):
\* it answers a request at most once, and on the link it came from unless an
\* id in use was drawn at this very provider agent.
ImplementsPeer == AsPeer!Spec
=============================================================================
