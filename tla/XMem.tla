-------------------------------- MODULE XMem --------------------------------
(***************************************************************************)
(* The memory pool of uv/bytebuf.cc: x_malloc, x_free, and the C heap      *)
(* under it.  The callbacks that use it are given as programs, sequences   *)
(* of allocations and releases, in PaMemory and CaMemory; this module runs *)
(* a program one instruction at a time.                                    *)
(*                                                                         *)
(* The hazard is the mixture: blocks of x_malloc are released with x_free  *)
(* in one file and with free in another, so ptr_size_map keeps sizes of    *)
(* blocks that went back to the heap and may come out of it again with     *)
(* another size.                                                           *)
(***************************************************************************)
EXTENDS Integers, Sequences, FiniteSets, SequencesExt

CONSTANTS Addrs,        \* bound: addresses the heap can hand out
          Size,         \* kind of block -> bytes asked for
          MaxRequests   \* bound: requests an agent gets

(* What the blocks hold: on the way of a request through the provider      *)
(* agent, through the consumer agent, and everything else in the heap.     *)
Kinds ==
    {"uv_tcp", "context", "name", "args", "dubbo_request", "buffer", "bufs", "bufs_many",
     "w_req", "wctx", "result", "act_response", "buf", "base", "aw_req", "actx"}
    \cup {"parser", "key", "request", "parameter", "kbase", "kbuf", "kw_req", "kctx",
          "hw_req", "hbuf", "hbase"}
    \cup {"other"}

ASSUME RequestsAssumption == MaxRequests \in Nat
ASSUME SizeAssumption == Size \in [Kinds -> Nat] /\ Size["other"] > 0

VARIABLES heap,          \* heap[a]: size of the block at a, 0 if none
          ptr_size_map,  \* size recorded for a, 0 if none
          ptr_pool,      \* multimap: pairs [size, ptr] as they came
          held,          \* the pointers the program still holds, by block
          prog           \* instructions left of the running callback

mem == <<heap, ptr_size_map, ptr_pool, held, prog>>

(* A block is named by its kind and the request or batch it belongs to. *)
XM(kind, n) == [op |-> "x_malloc", block |-> [kind |-> kind, of |-> n]]
XF(kind, n) == [op |-> "x_free", block |-> [kind |-> kind, of |-> n]]
Fr(kind, n) == [op |-> "free", block |-> [kind |-> kind, of |-> n]]

(* The array of buffers of a batch has one entry for each of its requests. *)
Bufs(q) == IF Len(q) > 1 THEN "bufs_many" ELSE "bufs"

MemInit ==
    /\ heap = [a \in Addrs |-> 0]
    /\ ptr_size_map = [a \in Addrs |-> 0]
    /\ ptr_pool = <<>>
    /\ held = <<>>
    /\ prog = <<>>

(* External: malloc returns some address without a block. *)
Malloc == {a \in Addrs : heap[a] = 0}

(***************************************************************************)
(* x_malloc.  lower_bound(size) is the smallest pooled size that is large  *)
(* enough, and among equal ones the one that came first.                   *)
(***************************************************************************)
LowerBound(size) ==
    {k \in DOMAIN ptr_pool :
        /\ ptr_pool[k].size >= size
        /\ \A j \in DOMAIN ptr_pool : ptr_pool[j].size >= size =>
             \/ ptr_pool[j].size > ptr_pool[k].size
             \/ ptr_pool[j].size = ptr_pool[k].size /\ j >= k}

Fits(e, size) == e.size <= 2 * size \/ e.size <= 66

RoundUp(size) == IF size < 32 THEN 32 ELSE IF size < 66 THEN 66 ELSE size

(* Mutant: the entry stays in the pool. *)
TakenNot(k) == ptr_pool

(* ptr_pool.erase(it) *)
Taken(k) == RemoveAt(ptr_pool, k)

(* Mutant: an address already known keeps its size. *)
RecordedFirst(a, size) ==
    [ptr_size_map EXCEPT ![a] = IF @ = 0 THEN size ELSE @]

(* ptr_size_map[res] = size *)
Recorded(a, size) == [ptr_size_map EXCEPT ![a] = size]

Holding(block, a) == [b \in DOMAIN held \cup {block} |-> IF b = block THEN a ELSE held[b]]
Without(block)    == [b \in DOMAIN held \ {block} |-> held[b]]

XMalloc ==
    /\ prog # <<>> /\ prog[1].op = "x_malloc"
    /\ LET block == prog[1].block
           size  == Size[block.kind]
           hits  == {k \in LowerBound(size) : Fits(ptr_pool[k], size)}
       IN
       \/ \E k \in hits :
            /\ ptr_pool' = Taken(k)
            /\ held' = Holding(block, ptr_pool[k].ptr)
            /\ UNCHANGED <<heap, ptr_size_map>>
       \/ /\ hits = {}
          /\ \E a \in Malloc :
               /\ heap' = [heap EXCEPT ![a] = RoundUp(size)]
               /\ ptr_size_map' = Recorded(a, RoundUp(size))
               /\ held' = Holding(block, a)
               /\ UNCHANGED ptr_pool
    /\ prog' = Tail(prog)

(* x_free: into the pool under the recorded size, or to the heap if the    *)
(* address is unknown.                                                     *)
XFree ==
    /\ prog # <<>> /\ prog[1].op = "x_free"
    /\ LET block == prog[1].block
           a == held[block]
       IN
       /\ IF ptr_size_map[a] # 0
          THEN /\ ptr_pool' = Append(ptr_pool, [size |-> ptr_size_map[a], ptr |-> a])
               /\ UNCHANGED heap
          ELSE heap' = [heap EXCEPT ![a] = 0] /\ UNCHANGED ptr_pool
       /\ held' = Without(block)
    /\ prog' = Tail(prog)
    /\ UNCHANGED ptr_size_map

(* free of the C library; ptr_size_map is not told. *)
CFree ==
    /\ prog # <<>> /\ prog[1].op = "free"
    /\ heap' = [heap EXCEPT ![held[prog[1].block]] = 0]
    /\ held' = Without(prog[1].block)
    /\ prog' = Tail(prog)
    /\ UNCHANGED <<ptr_size_map, ptr_pool>>

(* External: the C++ library and the read buffers use the same heap; one   *)
(* such block comes and goes.                                              *)
OtherMalloc ==
    /\ prog = <<>>
    /\ [kind |-> "other", of |-> 0] \notin DOMAIN held
    /\ \E a \in Malloc :
         /\ heap' = [heap EXCEPT ![a] = Size["other"]]
         /\ held' = Holding([kind |-> "other", of |-> 0], a)
    /\ UNCHANGED <<ptr_size_map, ptr_pool, prog>>

OtherFree ==
    /\ prog = <<>>
    /\ [kind |-> "other", of |-> 0] \in DOMAIN held
    /\ heap' = [heap EXCEPT ![held[[kind |-> "other", of |-> 0]]] = 0]
    /\ held' = Without([kind |-> "other", of |-> 0])
    /\ UNCHANGED <<ptr_size_map, ptr_pool, prog>>

MemNext == XMalloc \/ XFree \/ CFree \/ OtherMalloc \/ OtherFree

Run(p) == prog = <<>> /\ prog' = p /\ UNCHANGED <<heap, ptr_size_map, ptr_pool, held>>

(***************************************************************************)
(* The memory up to the names of its addresses, for TLC's VIEW: nothing    *)
(* above depends on which of two alike addresses malloc returns.           *)
(***************************************************************************)
Described(a) == [size |-> heap[a], recorded |-> ptr_size_map[a],
                 names |-> {b \in DOMAIN held : held[b] = a},
                 pooled |-> {k \in DOMAIN ptr_pool : ptr_pool[k].ptr = a}]

MemView ==
    LET used == {a \in Addrs : heap[a] # 0} \cup {held[b] : b \in DOMAIN held}
                  \cup {ptr_pool[k].ptr : k \in DOMAIN ptr_pool}
        unused == Addrs \ used
    IN  <<{Described(a) : a \in used}, Cardinality(used),
          [z \in {ptr_size_map[a] : a \in unused} |->
              Cardinality({a \in unused : ptr_size_map[a] = z})],
          [k \in DOMAIN ptr_pool |-> ptr_pool[k].size], prog>>

-----------------------------------------------------------------------------
(* What the code holds is its own: every pointer it may still follow or    *)
(* release points to a block that is in the heap, large enough for what    *)
(* was asked, not in the pool, and held under no other name.               *)
HeldBlocksSound ==
    /\ \A b \in DOMAIN held :
         /\ heap[held[b]] >= Size[b.kind]
         /\ \A k \in DOMAIN ptr_pool : ptr_pool[k].ptr # held[b]
    /\ \A b, c \in DOMAIN held : held[b] = held[c] => b = c

(* What the pool offers is there to be given: a block of the heap, entered *)
(* once, under its true size.  A size left over in ptr_size_map from a     *)
(* block that went back to the heap with free never gets into the pool.    *)
PoolSound ==
    \A k \in DOMAIN ptr_pool :
        /\ heap[ptr_pool[k].ptr] = ptr_pool[k].size
        /\ \A j \in DOMAIN ptr_pool : ptr_pool[j].ptr = ptr_pool[k].ptr => j = k

(* Both: the state from which any further call of x_malloc and x_free is   *)
(* safe, which neither half guarantees without the other.                  *)
MemorySound == HeldBlocksSound /\ PoolSound
=============================================================================
