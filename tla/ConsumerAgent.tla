--------------------------- MODULE ConsumerAgent ---------------------------
(***************************************************************************)
(* The C++ consumer agent: src/uv/ca.cc (HTTP in, HTTP out) over           *)
(* src/uv/pa_client.cc (one multiplexed ACT connection per endpoint and    *)
(* key hash).  Every action is one libuv callback, run to completion; the  *)
(* event loop of a process may run them in any order.  ca_startup.py runs  *)
(* two processes, so there is a set of agents.                             *)
(*                                                                         *)
(* The n-th request received by any agent is asked[n], and its parameter   *)
(* is modelled by n itself, so that a result can be traced to the request  *)
(* it answers.  An HTTP client has one request outstanding per connection, *)
(* as the comment at ca.cc:80 assumes, and its body arrives in one read.   *)
(* Which endpoint nextIdx picks is left open (WeightedLB.tla covers it).   *)
(***************************************************************************)
EXTENDS ActWire

CONSTANTS
    Conns,              \* HTTP connections, the h_context objects
    ConnAgent,          \* connection -> the process that accepted it
    NoConn,             \* the null h_context
    FreshIds,           \* TRUE: rand() never repeats; FALSE: it may
    MaxFetch            \* bound: requests received in total

ASSUME AgentAssumption ==
    /\ ConnAgent \in [Conns -> Agents]
    /\ NoConn \notin Conns
    /\ FreshIds \in BOOLEAN
    /\ MaxFetch \in Nat

VARIABLES
    stage,              \* link -> "none": not in pa_client_maps; "connecting";
                        \*   "keying": header write outstanding; "ready":
                        \*   connected = 1; "dead": connect or header failed
    key,                \* link -> client->key, set when it is created
    que,                \* link -> client->que
    contexts,           \* link -> id -> client->contexts (and callbacks)
    open,               \* conn -> the HTTP connection is not closed
    busy,               \* conn -> the HTTP client awaits a response
    answers,            \* conn -> results written on it, in order
    asked,              \* history: every request, in order of arrival
    collided,           \* history: endpoints at which an id in use was drawn
    crashed             \* agent -> it called a null callback

caVars == <<stage, key, que, contexts, open, busy, answers, asked, collided, crashed>>

CaInit ==
    /\ stage = [l \in Links |-> "none"]
    /\ key = [l \in Links |-> CHOOSE k \in Keys : TRUE]
    /\ que = [l \in Links |-> <<>>]
    /\ contexts = [l \in Links |-> [id \in Ids |-> NoConn]]
    /\ open = [c \in Conns |-> TRUE]
    /\ busy = [c \in Conns |-> FALSE]
    /\ answers = [c \in Conns |-> <<>>]
    /\ asked = <<>>
    /\ collided = {}
    /\ crashed = [a \in Agents |-> FALSE]

Alive(l) == ~crashed[AgentOf[l]]

-----------------------------------------------------------------------------
\* A bug pa_client.cc could have: requests are written but not popped.
HandleQueueNoPop(l, connected, q) ==
    /\ que' = [que EXCEPT ![l] = q]
    /\ toPa' = IF connected THEN Written(toPa, l, q) ELSE toPa

\* _pa_handle_queue with que = q: nothing before connected = 1, then all of
\* the queue in one uv_write, in order.
HandleQueue(l, connected, q) ==
    /\ que' = [que EXCEPT ![l] = IF connected THEN <<>> ELSE q]
    /\ toPa' = IF connected THEN Written(toPa, l, q) ELSE toPa

\* The id is taken by a request on some link to the same provider agent.
InUse(l, id) == \E m \in Links : EndpointOf[m] = EndpointOf[l] /\ contexts[m][id] # NoConn

\* The values rand() may return; FreshIds gives the n-th request the id n.
Rand == IF FreshIds THEN Ids \cap {Len(asked) + 1} ELSE Ids

\* A bug ca.cc could have: clients are looked up by endpoint alone.
SelectsByHost(l, k) == TRUE

\* act_key_hash(k) is the hash under which link l is found.
Selects(l, k) == k \in LinkKeys[l]

\* _h_on_body on connection c for key k, with nextIdx and act_key_hash
\* selecting link l and rand() returning id: create the client if the map has
\* none, then pa_client_fetch.
Fetch(c, k, l, id) ==
    /\ ConnAgent[c] = AgentOf[l] /\ Selects(l, k)
    /\ Alive(l) /\ open[c] /\ ~busy[c]
    /\ Len(asked) < MaxFetch
    /\ busy' = [busy EXCEPT ![c] = TRUE]
    /\ asked' = Append(asked, [conn |-> c, link |-> l, key |-> k, id |-> id])
    /\ collided' = IF InUse(l, id) THEN collided \cup {EndpointOf[l]} ELSE collided
    /\ stage' = [stage EXCEPT ![l] = IF @ = "none" THEN "connecting" ELSE @]
    /\ key' = [key EXCEPT ![l] = IF stage[l] = "none" THEN k ELSE @]
    /\ contexts' = [contexts EXCEPT ![l][id] = c]
    /\ HandleQueue(l, stage[l] = "ready", Append(que[l], ReqFrame(id, Len(asked) + 1)))
    /\ UNCHANGED <<chan, fromPa, open, answers, crashed>>

\* A bug pa_client.cc could have: the queue goes out before the header.
ConnWritesQueueFirst(l) == Append(que[l], KeyFrame(key[l]))

\* What a new connection is given to write.
ConnWrites(l) == <<KeyFrame(key[l])>>

\* _pa_on_conn, status 0: write the header, start reading; handle_queue is
\* called and returns, as connected is still 0.
OnConn(l) ==
    /\ Alive(l) /\ stage[l] = "connecting"
    /\ stage' = [stage EXCEPT ![l] = "keying"]
    /\ chan' = [chan EXCEPT ![l] = "up"]
    /\ toPa' = [toPa EXCEPT ![l] = @ \o ConnWrites(l)]
    /\ UNCHANGED <<fromPa, key, que, contexts, open, busy, answers, asked, collided, crashed>>

\* _pa_on_conn, status < 0: logged, nothing else; the client stays in the map.
OnConnErr(l) ==
    /\ Alive(l) /\ stage[l] = "connecting"
    /\ stage' = [stage EXCEPT ![l] = "dead"]
    /\ UNCHANGED <<wireVars, key, que, contexts, open, busy, answers, asked, collided, crashed>>

\* A bug pa_client.cc could have: nobody flushes the queue when the header is
\* out, so it waits for the next request.
KeyWriteCbNoFlush(l) ==
    /\ Alive(l) /\ stage[l] = "keying"
    /\ stage' = [stage EXCEPT ![l] = "ready"]
    /\ UNCHANGED <<wireVars, que, key, contexts, open, busy, answers, asked, collided, crashed>>

\* _pa_key_write_cb, status 0: connected = 1, flush what queued up meanwhile.
KeyWriteCb(l) ==
    /\ Alive(l) /\ stage[l] = "keying"
    /\ stage' = [stage EXCEPT ![l] = "ready"]
    /\ HandleQueue(l, TRUE, que[l])
    /\ UNCHANGED <<chan, fromPa, key, contexts, open, busy, answers, asked, collided, crashed>>

\* _pa_key_write_cb, status # 0: logged, connected stays 0 for good.
KeyWriteErr(l) ==
    /\ chan[l] = "reset"
    /\ Alive(l) /\ stage[l] = "keying"
    /\ stage' = [stage EXCEPT ![l] = "dead"]
    /\ UNCHANGED <<wireVars, key, que, contexts, open, busy, answers, asked, collided, crashed>>

\* callbacks.erase and contexts.erase.
Erase(l, id) == [contexts EXCEPT ![l][id] = NoConn]

\* A bug ca.cc could have: a result goes to the connection that asked last.
ContextOfLatest(l, id) == IF asked = <<>> THEN NoConn ELSE asked[Len(asked)].conn

\* client->contexts[id].
ContextOf(l, id) == contexts[l][id]

\* _pa_read_cb, one reply: call the callback registered for its id, which is
\* act_done_callback, then erase it.  operator[] makes up a null callback for
\* an id that is not registered.  A write on a closed connection is dropped.
PaReadCb(l) ==
    /\ Alive(l) /\ fromPa[l] # <<>>
    /\ fromPa' = [fromPa EXCEPT ![l] = Tail(@)]
    /\ LET f == Head(fromPa[l])
           c == ContextOf(l, f.id)
       IN IF c = NoConn
          THEN /\ crashed' = [crashed EXCEPT ![AgentOf[l]] = TRUE]
               /\ UNCHANGED <<contexts, busy, answers>>
          ELSE /\ contexts' = Erase(l, f.id)
               /\ answers' = IF open[c] THEN [answers EXCEPT ![c] = Append(@, f.body)] ELSE answers
               /\ busy' = IF open[c] THEN [busy EXCEPT ![c] = FALSE] ELSE busy
               /\ UNCHANGED crashed
    /\ UNCHANGED <<chan, toPa, stage, key, que, open, asked, collided>>

\* _pa_read_cb, nread < 0: logged; libuv stops reading, nobody closes.
PaReadErr(l) ==
    /\ Alive(l) /\ chan[l] = "reset" /\ fromPa[l] # <<>>
    /\ fromPa' = [fromPa EXCEPT ![l] = <<>>]
    /\ UNCHANGED <<chan, toPa, caVars>>

\* _ca_on_read, nread < 0: the HTTP connection is closed, its h_context kept.
HttpClose(c) ==
    /\ ~crashed[ConnAgent[c]] /\ open[c]
    /\ open' = [open EXCEPT ![c] = FALSE]
    /\ UNCHANGED <<wireVars, stage, key, que, contexts, busy, answers, asked, collided, crashed>>

\* What HTTP clients make an agent do.
HttpNext ==
    \/ \E c \in Conns, k \in Keys, l \in Links, id \in Rand : Fetch(c, k, l, id)
    \/ \E c \in Conns : HttpClose(c)

\* What a link makes its agent do, apart from the outcome of connecting.
LinkNext(l) == KeyWriteCb(l) \/ KeyWriteErr(l) \/ PaReadCb(l) \/ PaReadErr(l)

-----------------------------------------------------------------------------
\* The record of one request.
Request == [conn : Conns, link : Links, key : Keys, id : Ids]
ReqFrames == [type : {"req"}, id : Ids, body : Nat]
Headers == [type : {"key"}, id : {NoId}, body : {NoId}, key : Keys]

CaTypeOK ==
    /\ chan \in [Links -> {"none", "up", "reset"}]
    /\ toPa \in [Links -> Seq(Headers \cup ReqFrames)]
    /\ fromPa \in [Links -> Seq(ReqFrames)]
    /\ stage \in [Links -> {"none", "connecting", "keying", "ready", "dead"}]
    /\ key \in [Links -> Keys]
    /\ que \in [Links -> Seq(ReqFrames)]
    /\ contexts \in [Links -> [Ids -> Conns \cup {NoConn}]]
    /\ open \in [Conns -> BOOLEAN] /\ busy \in [Conns -> BOOLEAN]
    /\ answers \in [Conns -> Seq(Nat)]
    /\ asked \in Seq(Request)
    /\ collided \subseteq Endpoints
    /\ crashed \in [Agents -> BOOLEAN]

\* The request n went over an endpoint where no id was drawn twice.
Sound(n) == EndpointOf[asked[n].link] \notin collided

\* act_done_callback (ca.cc 178-215): every result written on an HTTP
\* connection belongs to a request that connection sent, however replies are
\* reordered, unless rand() handed out an id that was still in use.
AnswersMatch ==
    \A c \in Conns : \A j \in DOMAIN answers[c] :
        /\ answers[c][j] \in DOMAIN asked
        /\ Sound(answers[c][j]) => asked[answers[c][j]].conn = c

\* _pa_read_cb (pa_client.cc 61-71): no request is answered twice, on one
\* connection or on two.
AnsweredOnce ==
    \A c, d \in Conns : \A i \in DOMAIN answers[c], j \in DOMAIN answers[d] :
        answers[c][i] = answers[d][j] /\ Sound(answers[c][i]) => c = d /\ i = j

\* pa_client.cc:67 calls callbacks[id] without looking it up first: that is
\* safe, and no agent crashes, as long as no id in use is drawn again at one
\* of the endpoints it talks to.
CrashNeedsCollision ==
    \A a \in Agents : crashed[a] => \E l \in Links : AgentOf[l] = a /\ EndpointOf[l] \in collided
=============================================================================
