------------------------------ MODULE ActWire ------------------------------
(***************************************************************************)
(* The ACT connections between consumer agents and provider agents: the    *)
(* part of the state that src/uv/pa_client.cc and src/uv/pa.cc share.      *)
(*                                                                         *)
(* A link is one pa_client object: one TCP connection from one consumer    *)
(* agent process to one provider agent, for one hash of (interface,        *)
(* method, parameter types).  A connection first carries a header with the *)
(* key, then requests; replies come back tagged with the request's id.     *)
(* Frames are whole: that the read loops cut the byte stream into frames   *)
(* correctly is the subject of FrameReader.tla.                            *)
(***************************************************************************)
EXTENDS Integers, Sequences

CONSTANTS
    Agents, Endpoints,  \* consumer agent processes, provider agents
    Links,              \* the pa_client objects that can come to exist
    AgentOf,            \* link -> the process that owns it
    EndpointOf,         \* link -> the provider agent it connects to
    Keys,               \* (interface, method, parameterTypesString) triples
    LinkKeys,           \* link -> the keys whose act_key_hash selects it
    Ids,                \* values of rand() used as request ids
    Faults              \* whether connections may be refused or reset

ASSUME WireAssumption ==
    /\ AgentOf \in [Links -> Agents]
    /\ EndpointOf \in [Links -> Endpoints]
    /\ LinkKeys \in [Links -> SUBSET Keys]
    /\ Keys # {}
    /\ Ids \subseteq Nat
    /\ Faults \in BOOLEAN

VARIABLES
    chan,               \* link -> "none", "up", "reset": the TCP connection
    toPa,               \* link -> frames written by the agent, not yet read
    fromPa              \* link -> replies written by the PA, not yet read

wireVars == <<chan, toPa, fromPa>>

NoId == -1

\* The elements of a sequence.
Elements(s) == {s[j] : j \in DOMAIN s}

\* _pa_encode_act_key, _pa_act_request_encode and encode_act_response: the
\* header names the key, and the body of a request or a reply stands for the
\* parameter or the result.
KeyFrame(k) == [type |-> "key", id |-> NoId, body |-> NoId, key |-> k]
ReqFrame(id, n) == [type |-> "req", id |-> id, body |-> n]

WireInit ==
    /\ chan = [l \in Links |-> "none"]
    /\ toPa = [l \in Links |-> <<>>]
    /\ fromPa = [l \in Links |-> <<>>]

\* uv_write on a connection: lost when the connection has been reset.
Written(wire, l, frames) == IF chan[l] = "up" THEN [wire EXCEPT ![l] = @ \o frames] ELSE wire

\* The connection breaks; what was written may still be read before the
\* reader is told (each reader's error action discards the rest).
LinkReset(l) ==
    /\ chan[l] = "up"
    /\ chan' = [chan EXCEPT ![l] = "reset"]
    /\ UNCHANGED <<toPa, fromPa>>
=============================================================================
