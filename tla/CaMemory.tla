------------------------------ MODULE CaMemory ------------------------------
(***************************************************************************)
(* What the consumer agent takes from and gives back to the pool of XMem:  *)
(* one link to a provider agent (uv/pa_client.cc) and the HTTP side        *)
(* (uv/ca.cc), from _h_on_body to _act_done_write_cb.  Everything here is  *)
(* released with x_free.                                                   *)
(***************************************************************************)
EXTENDS XMem

VARIABLES stage,     \* "none", "connecting", "keying", "ready", "dead"
          que,       \* requests waiting for the link
          batches,   \* batches whose uv_write to the link is not complete
          pending,   \* requests the provider agent has
          done,      \* requests whose HTTP answer is being written
          made,      \* requests made
          http,      \* the HTTP connection: "none", "open", "closed"
          spilled    \* names whose blocks an error path leaves behind

caVars == <<mem, stage, que, batches, pending, done, made, http, spilled>>

CaInit ==
    /\ MemInit
    /\ stage = "none" /\ que = <<>> /\ batches = <<>> /\ pending = {}
    /\ done = <<>> /\ made = 0 /\ http = "none" /\ spilled = {}

-----------------------------------------------------------------------------
(* The programs of the callbacks, in the order of their calls.             *)

(* _ca_on_conn and create_h_context: never released. *)
HttpAccepted == <<XM("uv_tcp", 0), XM("parser", 0)>>

(* _h_on_body: the key of a new client (never released), and the request. *)
ReuseKey == <<XM("key", 0), XM("name", 1), XM("name", 2), XM("name", 3)>>

Request(n) == <<XM("request", n), XM("parameter", n)>>

(* _pa_act_request_encode and _free_act_request for one queued request ... *)
ActEncode(n) == <<XM("buffer", n), XF("parameter", n), XF("request", n)>>

(* ... and for one after the other. *)
ActEncodeAll(q) == [k \in 1 .. 3 * Len(q) |-> ActEncode(q[(k + 2) \div 3])[((k + 2) % 3) + 1]]

(* _pa_handle_queue of a connected client. *)
PaHandleQueue(q) ==
    IF q = <<>> THEN <<XM("bufs", 0), XF("bufs", 0)>>
    ELSE <<XM(Bufs(q), q[1])>> \o ActEncodeAll(q)
         \o <<XM("w_req", q[1]), XM("wctx", q[1])>>

(* _pa_write_cb without error. *)
PaWriteCb(q) ==
    [k \in DOMAIN q |-> XF("buffer", q[k])]
    \o <<XF(Bufs(q), q[1]), XF("wctx", q[1]), XF("w_req", q[1])>>

(* _pa_on_conn: the header is written; connected is still 0. *)
KeyWrite == <<XM("kbase", 0), XM("kbuf", 0), XM("kw_req", 0), XM("kctx", 0)>>

(* The end of _pa_key_write_cb. *)
KeyWritten == <<XF("kbase", 0), XF("kbuf", 0), XF("kctx", 0), XF("kw_req", 0)>>

(* _pa_read_cb takes the result; act_done_callback writes the HTTP answer  *)
(* from it and does not release it.                                        *)
ActDone(n) == <<XM("result", n), XM("hw_req", n), XM("hbuf", n), XM("hbase", n)>>

(* Mutant: the request of the write is forgotten. *)
ActDoneWriteCbShort(n) == <<XF("hbase", n), XF("hbuf", n)>>

(* _act_done_write_cb, whatever its status. *)
ActDoneWriteCb(n) == <<XF("hbase", n), XF("hbuf", n), XF("hw_req", n)>>

-----------------------------------------------------------------------------
CaOnConn ==
    /\ http = "none" /\ http' = "open"
    /\ Run(HttpAccepted)
    /\ UNCHANGED <<stage, que, batches, pending, done, made, spilled>>

(* A request: the client of its key is created if there is none, and the   *)
(* queue is written if the client is connected.                            *)
HOnBody ==
    LET n == made + 1 IN
    /\ http = "open" /\ made < MaxRequests
    /\ made' = n
    /\ CASE stage = "none" ->
              /\ Run(ReuseKey \o Request(n))
              /\ stage' = "connecting" /\ que' = <<n>> /\ UNCHANGED batches
         [] stage = "ready" ->
              /\ Run(Request(n) \o PaHandleQueue(Append(que, n)))
              /\ batches' = Append(batches, Append(que, n))
              /\ que' = <<>> /\ UNCHANGED stage
         [] OTHER ->
              /\ Run(Request(n))
              /\ que' = Append(que, n) /\ UNCHANGED <<stage, batches>>
    /\ UNCHANGED <<pending, done, http, spilled>>

HttpClose ==
    /\ http = "open" /\ http' = "closed"
    /\ Run(<<>>)
    /\ UNCHANGED <<stage, que, batches, pending, done, made, spilled>>

PaOnConn ==
    /\ stage = "connecting"
    /\ \/ stage' = "keying" /\ Run(KeyWrite)
       \/ stage' = "dead" /\ Run(<<>>)
    /\ UNCHANGED <<que, batches, pending, done, made, http, spilled>>

(* The header is written, or its write failed: then its blocks stay. *)
PaKeyWriteCb ==
    /\ stage = "keying"
    /\ \/ /\ stage' = "ready"
          /\ Run(PaHandleQueue(que) \o KeyWritten)
          /\ batches' = IF que = <<>> THEN batches ELSE Append(batches, que)
          /\ que' = <<>>
          /\ UNCHANGED spilled
       \/ /\ stage' = "dead" /\ Run(<<>>)
          /\ spilled' = spilled \cup {0}
          /\ UNCHANGED <<que, batches>>
    /\ UNCHANGED <<pending, done, made, http>>

(* A batch is written, or failed: then its blocks stay. *)
PaWriteDone ==
    /\ batches # <<>> /\ batches' = Tail(batches)
    /\ \/ /\ Run(PaWriteCb(batches[1]))
          /\ pending' = pending \cup Range(batches[1])
          /\ UNCHANGED spilled
       \/ /\ Run(<<>>)
          /\ spilled' = spilled \cup Range(batches[1])
          /\ UNCHANGED pending
    /\ UNCHANGED <<stage, que, done, made, http>>

(* A reply.  uv_write refuses a closed HTTP connection: nothing will       *)
(* release the blocks of the answer.                                       *)
PaReadCb(n) ==
    /\ n \in pending /\ pending' = pending \ {n}
    /\ Run(ActDone(n))
    /\ IF http = "closed" THEN spilled' = spilled \cup {n} /\ UNCHANGED done
                          ELSE done' = Append(done, n) /\ UNCHANGED spilled
    /\ UNCHANGED <<stage, que, batches, made, http>>

ActDoneWritten ==
    /\ done # <<>> /\ done' = Tail(done)
    /\ Run(ActDoneWriteCb(done[1]))
    /\ UNCHANGED <<stage, que, batches, pending, made, http, spilled>>

CaCallback == \/ CaOnConn \/ HOnBody \/ HttpClose \/ PaOnConn \/ PaKeyWriteCb
              \/ PaWriteDone \/ ActDoneWritten
              \/ \E n \in pending : PaReadCb(n)

CaInstruction ==
    /\ MemNext
    /\ UNCHANGED <<stage, que, batches, pending, done, made, http, spilled>>

CaNext == CaCallback \/ CaInstruction

CaSpec == CaInit /\ [][CaNext]_caVars
-----------------------------------------------------------------------------
(* When the agent is at rest it holds nothing for a request any more, but  *)
(* for the blocks an error path left and for the result, which             *)
(* act_done_callback never releases.                                       *)
CaLinkBlocks == {"uv_tcp", "parser", "key", "name", "other"}

AtRest == prog = <<>> /\ que = <<>> /\ batches = <<>> /\ pending = {} /\ done = <<>>
          /\ stage # "keying"

OnlyResultsLeak ==
    AtRest => \A b \in DOMAIN held :
        b.kind \in CaLinkBlocks \cup {"result"} \/ b.of \in spilled
=============================================================================
