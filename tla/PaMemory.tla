------------------------------ MODULE PaMemory ------------------------------
(***************************************************************************)
(* What the provider agent takes from and gives back to the pool of XMem:  *)
(* the blocks of a request (uv/pa.cc, uv/dubbo_client.cc) from on_read to  *)
(* act_write_cb.  dubbo_client.cc releases with free what x_malloc gave;   *)
(* pa.cc releases with x_free.                                             *)
(***************************************************************************)
EXTENDS XMem

VARIABLES connected,  \* dubbo_client.connected
          queue,      \* requests waiting for the Dubbo connection
          writes,     \* batches whose uv_write to the provider is not complete
          running,    \* requests the provider has
          replies,    \* requests whose uv_write to the link is not complete
          came,       \* requests read from the link
          link,       \* "new", "accepted", "keyed", "closed"
          lost        \* requests whose reply uv_write refused

paVars == <<mem, connected, queue, writes, running, replies, came, link, lost>>

PaInit ==
    /\ MemInit
    /\ connected = FALSE /\ queue = <<>> /\ writes = <<>>
    /\ running = {} /\ replies = <<>> /\ came = 0 /\ link = "new" /\ lost = {}

-----------------------------------------------------------------------------
(* The programs of the callbacks, in the order of their calls.             *)

(* dubbo_request_encode and free_dubbo_request for one queued request ...  *)
DubboEncode(n) == <<XM("buffer", n), Fr("args", n), Fr("dubbo_request", n)>>

(* ... and for one after the other. *)
DubboEncodeAll(q) == [k \in 1 .. 3 * Len(q) |-> DubboEncode(q[(k + 2) \div 3])[((k + 2) % 3) + 1]]

(* handle_queue; a batch is named by its first request, an empty one by 0. *)
HandleQueue(q) ==
    IF q = <<>> THEN <<XM("bufs", 0), Fr("bufs", 0)>>
    ELSE <<XM(Bufs(q), q[1])>> \o DubboEncodeAll(q)
         \o <<XM("w_req", q[1]), XM("wctx", q[1])>>

(* on_conn and create_pa_context: never released. *)
Accepted == <<XM("uv_tcp", 0), XM("context", 0)>>

(* The header fields of on_read: never released. *)
Header == <<XM("name", 1), XM("name", 2), XM("name", 3)>>

(* The parameter read by on_read, and dubbo_request_from_act. *)
Parameter(n) == <<XM("args", n), XM("dubbo_request", n)>>

(* dubbo_write_cb. *)
DubboWriteCb(q) ==
    [k \in DOMAIN q |-> Fr("buffer", q[k])]
    \o <<Fr(Bufs(q), q[1]), Fr("wctx", q[1]), Fr("w_req", q[1])>>

(* free_act_response; the result is the dubbo_response's, which is left    *)
(* alone (free_dubbo_response).                                            *)
FreeActResponse(n) == <<XF("result", n), XF("act_response", n)>>

(* _d_read_cb takes the result, _dubbo_callback makes the reply of it. *)
Reply(n) ==
    <<XM("result", n), XM("act_response", n), XM("buf", n), XM("base", n)>>
    \o FreeActResponse(n)
    \o <<XM("aw_req", n), XM("actx", n)>>

(* Mutant: the write context is forgotten. *)
ActWriteCbShort(n) == <<XF("base", n), XF("buf", n), XF("aw_req", n)>>

(* act_write_cb, whatever its status. *)
ActWriteCb(n) == <<XF("base", n), XF("buf", n), XF("aw_req", n), XF("actx", n)>>

-----------------------------------------------------------------------------
OnConn ==
    /\ link = "new" /\ link' = "accepted"
    /\ Run(Accepted)
    /\ UNCHANGED <<connected, queue, writes, running, replies, came, lost>>

OnReadHeader ==
    /\ link = "accepted" /\ link' = "keyed"
    /\ Run(Header)
    /\ UNCHANGED <<connected, queue, writes, running, replies, came, lost>>

(* One request: read, converted, queued, and the queue written if the      *)
(* Dubbo connection is up.                                                 *)
OnRead ==
    LET n == came + 1 IN
    /\ link = "keyed" /\ came < MaxRequests
    /\ came' = n
    /\ IF connected
       THEN /\ Run(Parameter(n) \o HandleQueue(<<n>>))
            /\ writes' = Append(writes, <<n>>)
            /\ UNCHANGED queue
       ELSE /\ Run(Parameter(n))
            /\ queue' = Append(queue, n)
            /\ UNCHANGED writes
    /\ UNCHANGED <<connected, running, replies, link, lost>>

(* A read error closes the link; its blocks stay. *)
OnReadErr ==
    /\ link \in {"accepted", "keyed"} /\ link' = "closed"
    /\ Run(<<>>)
    /\ UNCHANGED <<connected, queue, writes, running, replies, came, lost>>

DOnConnect ==
    /\ ~connected /\ connected' = TRUE
    /\ Run(HandleQueue(queue))
    /\ queue' = <<>>
    /\ writes' = IF queue = <<>> THEN writes ELSE Append(writes, queue)
    /\ UNCHANGED <<running, replies, came, link, lost>>

(* The write of the first batch completes; the provider has its requests. *)
DWriteDone ==
    /\ writes # <<>>
    /\ Run(DubboWriteCb(writes[1]))
    /\ running' = running \cup Range(writes[1])
    /\ writes' = Tail(writes)
    /\ UNCHANGED <<connected, queue, replies, came, link, lost>>

(* A response.  uv_write refuses a closed link: nothing will release the   *)
(* blocks of the reply.                                                    *)
DReadCb(n) ==
    /\ n \in running /\ running' = running \ {n}
    /\ Run(Reply(n))
    /\ IF link = "closed" THEN lost' = lost \cup {n} /\ UNCHANGED replies
                          ELSE replies' = Append(replies, n) /\ UNCHANGED lost
    /\ UNCHANGED <<connected, queue, writes, came, link>>

ActWriteDone ==
    /\ replies # <<>>
    /\ Run(ActWriteCb(replies[1]))
    /\ replies' = Tail(replies)
    /\ UNCHANGED <<connected, queue, writes, running, came, link, lost>>

PaCallback == \/ OnConn \/ OnReadHeader \/ OnRead \/ OnReadErr \/ DOnConnect
              \/ DWriteDone \/ ActWriteDone
              \/ \E n \in running : DReadCb(n)

PaInstruction ==
    /\ MemNext
    /\ UNCHANGED <<connected, queue, writes, running, replies, came, link, lost>>

PaNext == PaCallback \/ PaInstruction

PaSpec == PaInit /\ [][PaNext]_paVars
-----------------------------------------------------------------------------
(* When the agent is at rest it holds nothing for a request any more: all  *)
(* is back in the pool or in the heap.  The exception is a reply to a link *)
(* that was closed before the provider answered.                           *)
PaLinkBlocks == {"uv_tcp", "context", "name", "other"}

NothingLeaks ==
    (prog = <<>> /\ queue = <<>> /\ writes = <<>> /\ running = {} /\ replies = <<>>) =>
        \A b \in DOMAIN held : b.kind \in PaLinkBlocks \/ b.of \in lost
=============================================================================
