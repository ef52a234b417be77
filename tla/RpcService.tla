----------------------------- MODULE RpcService -----------------------------
(***************************************************************************)
(* What the mesh promises to HTTP clients, with nothing said of links,     *)
(* ids, queues or agents: a connection has at most one call outstanding,   *)
(* a call is answered at most once, with its own result and on its own     *)
(* connection, and a connection that hung up gets nothing more.            *)
(* CaWithPeer.tla is shown to implement it.                                *)
(***************************************************************************)
EXTENDS Naturals, Sequences

CONSTANT Clients        \* HTTP connections

VARIABLES
    caller,             \* caller[n]: the connection that made the n-th call
    results,            \* connection -> the calls answered on it, in order
    online              \* connection -> it has not hung up

rpcVars == <<caller, results, online>>

Init ==
    /\ caller = <<>>
    /\ results = [c \in Clients |-> <<>>]
    /\ online = [c \in Clients |-> TRUE]

Answered(n) == \E j \in DOMAIN results[caller[n]] : results[caller[n]][j] = n

Call(c) ==
    /\ online[c]
    /\ \A n \in DOMAIN caller : caller[n] = c => Answered(n)
    /\ caller' = Append(caller, c)
    /\ UNCHANGED <<results, online>>

Answer(n) ==
    /\ online[caller[n]] /\ ~Answered(n)
    /\ results' = [results EXCEPT ![caller[n]] = Append(@, n)]
    /\ UNCHANGED <<caller, online>>

HangUp(c) ==
    /\ online[c]
    /\ online' = [online EXCEPT ![c] = FALSE]
    /\ UNCHANGED <<caller, results>>

Next ==
    \/ \E c \in Clients : Call(c) \/ HangUp(c)
    \/ \E n \in DOMAIN caller : Answer(n)

Spec == Init /\ [][Next]_rpcVars
=============================================================================
