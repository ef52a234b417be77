----------------------------- MODULE MCCaMemory -----------------------------
(* CaMemory with the blocks in five classes of size, as an x86-64 build    *)
(* has them for a short call.                                              *)
EXTENDS CaMemory

MCAddrs == 1 .. 40

MCSize == [kind \in Kinds |->
    CASE kind \in {"uv_tcp", "w_req", "kw_req", "hw_req"}   -> 192
      [] kind = "hbase"                                     -> 270
      [] kind \in {"parser", "key", "request", "bufs_many",
                   "kbase"}                                 -> 40
      [] kind = "other"                                     -> 500
      [] OTHER                                              -> 17]

MCView == <<MemView, stage, que, batches, pending, done, made, http, spilled>>
=============================================================================
