----------------------------- MODULE MCPaMemory -----------------------------
(* PaMemory with the blocks in five classes of size, as an x86-64 build    *)
(* has them for a short call: some that x_malloc rounds up to 32 or 66,    *)
(* some that it takes as they are.                                         *)
EXTENDS PaMemory

MCAddrs == 1 .. 24

MCSize == [kind \in Kinds |->
    CASE kind \in {"uv_tcp", "context", "buffer",
                   "w_req", "aw_req"}              -> 192
      [] kind = "dubbo_request"                    -> 112
      [] kind \in {"args", "actx", "bufs_many"}    -> 40
      [] kind = "other"                            -> 500
      [] OTHER                                     -> 16]

MCView == <<MemView, connected, queue, writes, running, replies, came, link, lost>>
=============================================================================
