---------------------------- MODULE MemoryProofs ----------------------------
(***************************************************************************)
(* Proofs about the memory of both agents, for every heap, all sizes of    *)
(* blocks and any number of requests: what the callbacks of PaMemory and   *)
(* CaMemory hold is theirs, what the pool offers is free, and nothing is   *)
(* left when an agent is at rest but what the models say.                  *)
(*                                                                         *)
(* The argument has three parts.  A callback's program is legal (Legal) if *)
(* it releases only what it holds, once, and takes nothing under a name in *)
(* use; the pool stays sound through any legal program, whatever release   *)
(* it uses (PoolStep), although sizes of blocks long gone stay recorded.   *)
(* A request's number is in one stage of its way only (Staged).  And what  *)
(* a program will hold when it has ended (Kept) is what the requests in    *)
(* each stage need, at every one of its calls (PaLedger, CaLedger): so all *)
(* programs are legal, and nothing else stays.                             *)
(***************************************************************************)
EXTENDS PaMemory, CaMemory, TLAPS

Blocks == [kind : Kinds, of : Nat]
Calls == [op : {"x_malloc", "x_free", "free"}, block : Blocks]
Other == [kind |-> "other", of |-> 0]

\* The blocks the callbacks hold.
Mine == DOMAIN held \ {Other}

\* A call takes its block or releases it.
Takes(c) == c.op = "x_malloc"

\* Two calls take, or release, the same block.
Same(c, d) == c.block = d.block /\ (Takes(c) <=> Takes(d))

\* What a program takes and releases, and what is left of H and it.
Allocated(p) == {p[i].block : i \in {j \in DOMAIN p : Takes(p[j])}}
Freed(p) == {p[i].block : i \in {j \in DOMAIN p : ~Takes(p[j])}}
Kept(H, p) == (H \cup Allocated(p)) \ Freed(p)

\* With the blocks H held, p takes each block once, under a new name, and
\* releases each once, while it is held.
Legal(H, p) ==
    /\ p \in Seq(Calls)
    /\ \A i \in DOMAIN p : Takes(p[i]) => p[i].block \notin H \cup {Other}
    /\ \A i \in DOMAIN p : ~Takes(p[i]) =>
         p[i].block \in H \/ \E j \in 1 .. i - 1 : Takes(p[j]) /\ p[j].block = p[i].block
    /\ \A i, j \in DOMAIN p : Same(p[i], p[j]) => i = j

\* The size recorded for an address may be stale, but not while x_malloc's
\* block is held or in the pool.
PoolInv ==
    /\ heap \in [Addrs -> Nat] /\ ptr_size_map \in [Addrs -> Nat]
    /\ ptr_pool \in Seq([size : Nat \ {0}, ptr : Addrs])
    /\ held \in [DOMAIN held -> Addrs] /\ DOMAIN held \subseteq Blocks
    /\ \A b \in DOMAIN held : heap[held[b]] > 0
    /\ \A b \in Mine : ptr_size_map[held[b]] = heap[held[b]]
    /\ \A k \in DOMAIN ptr_pool : ptr_size_map[ptr_pool[k].ptr] = ptr_pool[k].size
    /\ MemorySound

-----------------------------------------------------------------------------
\* A sequence without its k-th element.
LEMMA Removed ==
    ASSUME NEW S, NEW s \in Seq(S), NEW k \in DOMAIN s
    PROVE  /\ RemoveAt(s, k) \in Seq(S)
           /\ DOMAIN RemoveAt(s, k) = 1 .. Len(s) - 1
           /\ \A j \in 1 .. Len(s) - 1 :
                RemoveAt(s, k)[j] = IF j < k THEN s[j] ELSE s[j + 1]
  <1>1. k \in 1 .. Len(s)
    OBVIOUS
  <1>2. SubSeq(s, 1, k - 1) \in Seq(S) /\ SubSeq(s, k + 1, Len(s)) \in Seq(S)
    BY <1>1
  <1>3. Len(SubSeq(s, 1, k - 1)) = k - 1 /\ Len(SubSeq(s, k + 1, Len(s))) = Len(s) - k
    BY <1>1
  <1>. DEFINE a == SubSeq(s, 1, k - 1)
              b == SubSeq(s, k + 1, Len(s))
  <1>4. /\ \A j \in 1 .. k - 1 : a[j] = s[j]
        /\ \A j \in 1 .. Len(s) - k : b[j] = s[j + k]
    BY <1>1
  <1>5. a \in Seq(S) /\ b \in Seq(S) /\ Len(a) = k - 1 /\ Len(b) = Len(s) - k
    BY <1>2, <1>3
  <1>. HIDE DEF a, b
  <1>6. /\ a \o b \in Seq(S) /\ DOMAIN (a \o b) = 1 .. Len(s) - 1
        /\ \A j \in 1 .. Len(s) - 1 : (a \o b)[j] = IF j < k THEN a[j] ELSE b[j - k + 1]
    BY <1>1, <1>5
  <1>7. ASSUME NEW j \in 1 .. Len(s) - 1
        PROVE  (a \o b)[j] = IF j < k THEN s[j] ELSE s[j + 1]
    <2>1. CASE j < k
      BY <2>1, <1>1, <1>4, <1>6
    <2>2. CASE ~(j < k)
      <3>1. j - k + 1 \in 1 .. Len(s) - k /\ (j - k + 1) + k = j + 1
        BY <2>2, <1>1
      <3>. QED
        BY <2>2, <3>1, <1>1, <1>4, <1>6
    <2>. QED
      BY <2>1, <2>2
  <1>. QED
    BY <1>6, <1>7 DEF RemoveAt, a, b

\* The blocks that p takes, and those it releases.
LEMMA Members ==
    ASSUME NEW p, NEW b
    PROVE  /\ b \in Allocated(p) <=> \E i \in DOMAIN p : Takes(p[i]) /\ p[i].block = b
           /\ b \in Freed(p) <=> \E i \in DOMAIN p : ~Takes(p[i]) /\ p[i].block = b
  BY DEF Allocated, Freed

\* What is left of a legal program after its first call is legal for what is
\* held then, and leads to the same end.
LEMMA NextCall ==
    ASSUME NEW H, NEW p, Legal(H, p), p # <<>>
    PROVE  /\ p[1] \in Calls
           /\ Takes(p[1]) => /\ p[1].block \notin H \cup {Other}
                             /\ Legal(H \cup {p[1].block}, Tail(p))
                             /\ Kept(H \cup {p[1].block}, Tail(p)) = Kept(H, p)
           /\ ~Takes(p[1]) => /\ p[1].block \in H
                              /\ Legal(H \ {p[1].block}, Tail(p))
                              /\ Kept(H \ {p[1].block}, Tail(p)) = Kept(H, p)
  <1>. DEFINE t == Tail(p)
  <1>1. p \in Seq(Calls) /\ 1 \in DOMAIN p /\ p[1] \in Calls
    BY DEF Legal
  <1>2. /\ t \in Seq(Calls) /\ DOMAIN t = 1 .. Len(p) - 1
        /\ \A i \in DOMAIN t : t[i] = p[i + 1] /\ i + 1 \in DOMAIN p
        /\ \A i \in DOMAIN p : i # 1 => i - 1 \in DOMAIN t /\ t[i - 1] = p[i]
    BY <1>1
  <1>. HIDE DEF t
  <1>3. /\ Allocated(p) = Allocated(t) \cup {b \in {p[1].block} : Takes(p[1])}
        /\ Freed(p) = Freed(t) \cup {b \in {p[1].block} : ~Takes(p[1])}
    <2>0. /\ \A i \in DOMAIN p : p[i] = p[1] \/ \E j \in DOMAIN t : t[j] = p[i]
          /\ \A j \in DOMAIN t : \E i \in DOMAIN p : t[j] = p[i]
      BY <1>2
    <2>1. \A b : b \in Allocated(p) <=> b \in Allocated(t) \/ (Takes(p[1]) /\ b = p[1].block)
      BY <1>1, <2>0, Members
    <2>2. \A b : b \in Freed(p) <=> b \in Freed(t) \/ (~Takes(p[1]) /\ b = p[1].block)
      BY <1>1, <2>0, Members
    <2>. QED
      BY <2>1, <2>2
  <1>4. ASSUME Takes(p[1])
        PROVE  /\ p[1].block \notin H \cup {Other}
               /\ Legal(H \cup {p[1].block}, t)
               /\ Kept(H \cup {p[1].block}, t) = Kept(H, p)
    <2>1. p[1].block \notin H \cup {Other}
      BY <1>1, <1>4 DEF Legal
    <2>2. \A i \in DOMAIN t : Takes(t[i]) => t[i].block \notin H \cup {p[1].block} \cup {Other}
      <3>. SUFFICES ASSUME NEW i \in DOMAIN t, Takes(t[i])
                    PROVE  t[i].block \notin H \cup {Other} /\ ~Same(t[i], p[1])
        BY <1>4 DEF Same
      <3>. QED
        BY <1>1, <1>2 DEF Legal
    <2>3. \A i \in DOMAIN t : ~Takes(t[i]) =>
            t[i].block \in H \cup {p[1].block}
              \/ \E j \in 1 .. i - 1 : Takes(t[j]) /\ t[j].block = t[i].block
      <3>. SUFFICES ASSUME NEW i \in DOMAIN t, ~Takes(t[i]), t[i].block \notin H \cup {p[1].block}
                    PROVE  \E j \in 1 .. i - 1 : Takes(t[j]) /\ t[j].block = t[i].block
        OBVIOUS
      <3>1. PICK j \in 1 .. i : Takes(p[j]) /\ p[j].block = p[i + 1].block
        BY <1>2 DEF Legal
      <3>2. j # 1 /\ j - 1 \in 1 .. i - 1 /\ j \in DOMAIN p
        BY <3>1, <1>2
      <3>. QED
        BY <3>1, <3>2, <1>2
    <2>4. \A i, j \in DOMAIN t : Same(t[i], t[j]) => i = j
      <3>. SUFFICES ASSUME NEW i \in DOMAIN t, NEW j \in DOMAIN t, Same(t[i], t[j])
                    PROVE  i + 1 = j + 1
        BY <1>2
      <3>. QED
        BY <1>2 DEF Legal
    <2>. QED
      BY <2>1, <2>2, <2>3, <2>4, <1>2, <1>3, <1>4 DEF Legal, Kept
  <1>5. ASSUME ~Takes(p[1])
        PROVE  /\ p[1].block \in H
               /\ Legal(H \ {p[1].block}, t)
               /\ Kept(H \ {p[1].block}, t) = Kept(H, p)
    <2>1. p[1].block \in H
      BY <1>1, <1>5 DEF Legal
    <2>2. \A i \in DOMAIN t : Takes(t[i]) => t[i].block \notin H \cup {Other}
      BY <1>2 DEF Legal
    <2>3. \A i \in DOMAIN t : ~Takes(t[i]) =>
            t[i].block \in H \ {p[1].block}
              \/ \E j \in 1 .. i - 1 : Takes(t[j]) /\ t[j].block = t[i].block
      <3>. SUFFICES ASSUME NEW i \in DOMAIN t, ~Takes(t[i]), t[i].block \notin H \ {p[1].block}
                    PROVE  \E j \in 1 .. i - 1 : Takes(t[j]) /\ t[j].block = t[i].block
        OBVIOUS
      <3>0. ~Same(t[i], p[1])
        BY <1>1, <1>2 DEF Legal
      <3>1. t[i].block # p[1].block
        BY <1>5, <3>0 DEF Same
      <3>2. PICK j \in 1 .. i : Takes(p[j]) /\ p[j].block = p[i + 1].block
        BY <1>2, <3>1 DEF Legal
      <3>3. j # 1 /\ j - 1 \in 1 .. i - 1 /\ j \in DOMAIN p
        BY <3>2, <1>2, <1>5
      <3>. QED
        BY <3>2, <3>3, <1>2
    <2>4. \A i, j \in DOMAIN t : Same(t[i], t[j]) => i = j
      <3>. SUFFICES ASSUME NEW i \in DOMAIN t, NEW j \in DOMAIN t, Same(t[i], t[j])
                    PROVE  i + 1 = j + 1
        BY <1>2
      <3>. QED
        BY <1>2 DEF Legal
    <2>5. p[1].block \notin Allocated(t)
      BY <1>2, <2>1, <2>2 DEF Allocated
    <2>. QED
      BY <2>1, <2>2, <2>3, <2>4, <2>5, <1>2, <1>3, <1>5 DEF Legal, Kept
  <1>. QED
    BY <1>1, <1>4, <1>5 DEF t

\* A legal program after another one, under new names.
LEMMA Sequel ==
    ASSUME NEW H, NEW p, NEW q, Legal(H, p), Legal(Kept(H, p), q),
           \A b \in Allocated(q) : b \notin H /\ b \notin Allocated(p)
    PROVE  /\ Legal(H, p \o q)
           /\ Kept(H, p \o q) = Kept(Kept(H, p), q)
           /\ \A b : b \in Allocated(p \o q) <=> b \in Allocated(p) \/ b \in Allocated(q)
  <1>. DEFINE c == p \o q
  <1>1. p \in Seq(Calls) /\ q \in Seq(Calls)
    BY DEF Legal
  <1>2. /\ c \in Seq(Calls) /\ DOMAIN c = 1 .. Len(p) + Len(q)
        /\ DOMAIN p = 1 .. Len(p) /\ DOMAIN q = 1 .. Len(q)
        /\ Len(p) \in Nat /\ Len(q) \in Nat
        /\ \A i \in DOMAIN c : IF i <= Len(p) THEN i \in DOMAIN p /\ c[i] = p[i]
                               ELSE i - Len(p) \in DOMAIN q /\ c[i] = q[i - Len(p)]
        /\ \A i \in DOMAIN p : i \in DOMAIN c /\ c[i] = p[i]
        /\ \A i \in DOMAIN q : i + Len(p) \in DOMAIN c /\ c[i + Len(p)] = q[i]
    BY <1>1
  <1>. HIDE DEF c
  <1>3. /\ \A i \in DOMAIN c : \/ \E j \in DOMAIN p : c[i] = p[j]
                               \/ \E j \in DOMAIN q : c[i] = q[j]
        /\ \A i \in DOMAIN p : \E j \in DOMAIN c : c[j] = p[i]
        /\ \A i \in DOMAIN q : \E j \in DOMAIN c : c[j] = q[i]
    BY <1>2
  <1>4. Allocated(c) = Allocated(p) \cup Allocated(q) /\ Freed(c) = Freed(p) \cup Freed(q)
    <2>1. ASSUME NEW b PROVE b \in Allocated(c) <=> b \in Allocated(p) \cup Allocated(q)
      BY <1>3, Members
    <2>2. ASSUME NEW b PROVE b \in Freed(c) <=> b \in Freed(p) \cup Freed(q)
      BY <1>3, Members
    <2>. QED
      BY <2>1, <2>2
  <1>5. Freed(p) \subseteq H \cup Allocated(p)
    <2>. SUFFICES ASSUME NEW i \in DOMAIN p, ~Takes(p[i]), p[i].block \notin H
                  PROVE  p[i].block \in Allocated(p)
      BY DEF Freed
    <2>1. PICK j \in 1 .. i - 1 : Takes(p[j]) /\ p[j].block = p[i].block
      BY DEF Legal
    <2>2. j \in DOMAIN p
      BY <1>2, <2>1
    <2>. QED
      BY <2>1, <2>2, Members
  <1>6. \A i \in DOMAIN c : Takes(c[i]) => c[i].block \notin H \cup {Other}
    <2>. SUFFICES ASSUME NEW i \in DOMAIN c, Takes(c[i])
                  PROVE  c[i].block \notin H \cup {Other}
      OBVIOUS
    <2>1. CASE \E j \in DOMAIN p : c[i] = p[j]
      BY <2>1 DEF Legal
    <2>2. CASE \E j \in DOMAIN q : c[i] = q[j]
      <3>1. c[i].block \in Allocated(q) /\ c[i].block # Other
        BY <2>2, Members DEF Legal
      <3>. QED
        BY <3>1
    <2>. QED
      BY <1>3, <2>1, <2>2
  <1>7. ASSUME NEW i \in DOMAIN c, ~Takes(c[i]), c[i].block \notin H
        PROVE  \E j \in 1 .. i - 1 : Takes(c[j]) /\ c[j].block = c[i].block
    <2>1. CASE i <= Len(p)
      <3>1. PICK j \in 1 .. i - 1 : Takes(p[j]) /\ p[j].block = p[i].block
        BY <1>2, <1>7, <2>1 DEF Legal
      <3>. QED
        BY <1>2, <2>1, <3>1
    <2>2. CASE ~(i <= Len(p))
      <3>. DEFINE k == i - Len(p)
      <3>1. k \in DOMAIN q /\ q[k] = c[i] /\ i = k + Len(p)
        BY <1>2, <2>2
      <3>2. CASE c[i].block \in Kept(H, p)
        <4>1. c[i].block \in Allocated(p)
          BY <3>2, <1>7 DEF Kept
        <4>2. PICK j \in DOMAIN p : Takes(p[j]) /\ p[j].block = c[i].block
          BY <4>1, Members
        <4>3. j \in 1 .. i - 1
          BY <1>2, <2>2, <4>2
        <4>. QED
          BY <1>2, <4>2, <4>3
      <3>3. CASE c[i].block \notin Kept(H, p)
        <4>1. PICK j \in 1 .. k - 1 : Takes(q[j]) /\ q[j].block = q[k].block
          BY <3>1, <3>3, <1>7 DEF Legal
        <4>2. j \in DOMAIN q /\ j + Len(p) \in 1 .. i - 1
          BY <1>2, <3>1, <4>1
        <4>. QED
          BY <1>2, <3>1, <4>1, <4>2
      <3>. QED
        BY <3>2, <3>3
    <2>. QED
      BY <2>1, <2>2
  <1>8. \A i, j \in DOMAIN c : Same(c[i], c[j]) => i = j
    <2>1. \A i \in DOMAIN p, j \in DOMAIN q : ~Same(p[i], q[j])
      <3>. SUFFICES ASSUME NEW i \in DOMAIN p, NEW j \in DOMAIN q, Same(p[i], q[j])
                    PROVE  FALSE
        OBVIOUS
      <3>1. CASE Takes(p[i])
        <4>1. p[i].block \in Allocated(p) /\ p[i].block \in Allocated(q)
          BY <3>1, Members DEF Same
        <4>. QED
          BY <4>1
      <3>2. CASE ~Takes(p[i])
        <4>1. p[i].block \in Freed(p) /\ ~Takes(q[j]) /\ q[j].block = p[i].block
          BY <3>2, Members DEF Same
        <4>2. q[j].block \notin Kept(H, p)
          BY <4>1 DEF Kept
        <4>3. PICK k \in 1 .. j - 1 : Takes(q[k]) /\ q[k].block = q[j].block
          BY <4>1, <4>2 DEF Legal
        <4>4. k \in DOMAIN q
          BY <1>2, <4>3
        <4>5. q[j].block \in Allocated(q)
          BY <4>3, <4>4, Members
        <4>. QED
          BY <4>1, <4>5, <1>5
      <3>. QED
        BY <3>1, <3>2
    <2>. SUFFICES ASSUME NEW i \in DOMAIN c, NEW j \in DOMAIN c, Same(c[i], c[j])
                  PROVE  i = j
      OBVIOUS
    <2>2. CASE i <= Len(p) /\ j <= Len(p)
      BY <1>2, <2>2 DEF Legal
    <2>3. CASE ~(i <= Len(p)) /\ ~(j <= Len(p))
      <3>1. i - Len(p) = j - Len(p)
        BY <1>2, <2>3 DEF Legal
      <3>. QED
        BY <3>1, <1>2
    <2>4. CASE i <= Len(p) /\ ~(j <= Len(p))
      BY <1>2, <2>1, <2>4
    <2>5. CASE ~(i <= Len(p)) /\ j <= Len(p)
      <3>1. Same(c[j], c[i])
        BY DEF Same
      <3>. QED
        BY <1>2, <2>1, <2>5, <3>1
    <2>. QED
      BY <2>2, <2>3, <2>4, <2>5
  <1>9. Legal(H, c)
    BY <1>2, <1>6, <1>7, <1>8 DEF Legal
  <1>10. Kept(H, c) = Kept(Kept(H, p), q)
    <2>. DEFINE A == Allocated(p)
                B == Allocated(q)
                F == Freed(p)
                G == Freed(q)
    <2>1. B \cap (H \cup A) = {} /\ F \subseteq H \cup A
      BY <1>5
    <2>2. Kept(H, c) = (H \cup (A \cup B)) \ (F \cup G)
      BY <1>4 DEF Kept
    <2>3. Kept(Kept(H, p), q) = (((H \cup A) \ F) \cup B) \ G
      BY DEF Kept
    <2>. HIDE DEF A, B, F, G
    <2>. QED
      BY <2>1, <2>2, <2>3
  <1>. QED
    BY <1>4, <1>9, <1>10 DEF c

-----------------------------------------------------------------------------
\* What is known of a block in the pool, and of one that is held.
LEMMA Pooled ==
    ASSUME PoolInv, NEW k \in DOMAIN ptr_pool
    PROVE  /\ ptr_pool[k] \in [size : Nat \ {0}, ptr : Addrs]
           /\ ptr_pool[k].ptr \in Addrs /\ ptr_pool[k].size \in Nat /\ ptr_pool[k].size > 0
           /\ heap[ptr_pool[k].ptr] = ptr_pool[k].size
           /\ ptr_size_map[ptr_pool[k].ptr] = ptr_pool[k].size
           /\ \A c \in DOMAIN held : held[c] # ptr_pool[k].ptr
           /\ \A j \in DOMAIN ptr_pool : j # k => ptr_pool[j].ptr # ptr_pool[k].ptr
  <1>1. ptr_pool[k] \in [size : Nat \ {0}, ptr : Addrs]
    <2>. DEFINE S == [size : Nat \ {0}, ptr : Addrs]
    <2>1. ptr_pool \in Seq(S)
      BY DEF PoolInv
    <2>. HIDE DEF S
    <2>2. ptr_pool[k] \in S
      BY <2>1
    <2>. QED
      BY <2>2 DEF S
  <1>2. ptr_pool[k].ptr \in Addrs /\ ptr_pool[k].size \in Nat \ {0}
    BY <1>1
  <1>. QED
    BY <1>1, <1>2 DEF PoolInv, MemorySound, PoolSound, HeldBlocksSound

LEMMA Holds ==
    ASSUME PoolInv, NEW c \in DOMAIN held
    PROVE  /\ c \in Blocks /\ held[c] \in Addrs
           /\ heap[held[c]] > 0 /\ heap[held[c]] >= Size[c.kind]
           /\ c # Other => ptr_size_map[held[c]] = heap[held[c]]
           /\ \A d \in DOMAIN held : d # c => held[d] # held[c]
  BY DEF PoolInv, MemorySound, HeldBlocksSound, Mine

\* The same facts for all of them make the invariant.
LEMMA Rebuilt ==
    ASSUME heap' \in [Addrs -> Nat], ptr_size_map' \in [Addrs -> Nat],
           ptr_pool' \in Seq([size : Nat \ {0}, ptr : Addrs]),
           held' \in [DOMAIN held' -> Addrs], DOMAIN held' \subseteq Blocks,
           \A k \in DOMAIN ptr_pool' :
              /\ heap'[ptr_pool'[k].ptr] = ptr_pool'[k].size
              /\ ptr_size_map'[ptr_pool'[k].ptr] = ptr_pool'[k].size
              /\ \A c \in DOMAIN held' : held'[c] # ptr_pool'[k].ptr
              /\ \A j \in DOMAIN ptr_pool' : j # k => ptr_pool'[j].ptr # ptr_pool'[k].ptr,
           \A c \in DOMAIN held' :
              /\ heap'[held'[c]] > 0 /\ heap'[held'[c]] >= Size[c.kind]
              /\ c # Other => ptr_size_map'[held'[c]] = heap'[held'[c]]
              /\ \A d \in DOMAIN held' : d # c => held'[d] # held'[c]
    PROVE  PoolInv'
  <1>1. PoolSound'
    BY DEF PoolSound
  <1>2. HeldBlocksSound'
    BY DEF HeldBlocksSound
  <1>. QED
    BY <1>1, <1>2 DEF PoolInv, MemorySound, Mine

\* x_malloc: the block comes out of the pool, or out of the heap.
LEMMA XMallocSound ==
    ASSUME PoolInv, Legal(Mine, prog), XMalloc
    PROVE  PoolInv' /\ Mine' = Mine \cup {prog[1].block}
  <1>. DEFINE b == prog[1].block
              size == Size[b.kind]
  <1>0. prog # <<>> /\ Takes(prog[1])
    BY DEF XMalloc, Takes
  <1>1. prog[1] \in Calls /\ b \in Blocks /\ b \notin DOMAIN held /\ b # Other
    <2>1. prog[1] \in Calls /\ b \notin Mine \cup {Other}
      BY <1>0, NextCall
    <2>. QED
      BY <2>1 DEF Mine, Calls
  <1>2. size \in Nat
    <2>1. b.kind \in Kinds
      BY <1>1 DEF Blocks
    <2>. QED
      BY <2>1, SizeAssumption
  <1>. HIDE DEF b
  <1>3. ASSUME NEW a \in Addrs, held' = Holding(b, a)
        PROVE  /\ held' \in [DOMAIN held' -> Addrs] /\ DOMAIN held' = DOMAIN held \cup {b}
               /\ held'[b] = a /\ \A c \in DOMAIN held : held'[c] = held[c]
               /\ Mine' = Mine \cup {b}
    BY <1>1, <1>3 DEF Holding, PoolInv, Mine
  <1>4. ASSUME NEW k \in DOMAIN ptr_pool, ptr_pool[k].size >= size,
               ptr_pool' = Taken(k), held' = Holding(b, ptr_pool[k].ptr),
               UNCHANGED <<heap, ptr_size_map>>
        PROVE  PoolInv' /\ Mine' = Mine \cup {b}
    <2>. DEFINE a == ptr_pool[k].ptr
    <2>1. /\ a \in Addrs /\ heap[a] > 0 /\ heap[a] >= size /\ ptr_size_map[a] = heap[a]
          /\ \A c \in DOMAIN held : held[c] # a
          /\ \A j \in DOMAIN ptr_pool : j # k => ptr_pool[j].ptr # a
      BY <1>4, Pooled
    <2>. HIDE DEF a
    <2>2. /\ held' \in [DOMAIN held' -> Addrs] /\ DOMAIN held' = DOMAIN held \cup {b}
          /\ held'[b] = a /\ \A c \in DOMAIN held : held'[c] = held[c]
          /\ Mine' = Mine \cup {b}
      BY <1>3, <1>4, <2>1 DEF a
    <2>3. /\ ptr_pool' \in Seq([size : Nat \ {0}, ptr : Addrs])
          /\ k \in Nat /\ DOMAIN ptr_pool' \subseteq Nat
          /\ \A j \in DOMAIN ptr_pool' : \E i \in DOMAIN ptr_pool :
               i # k /\ i = (IF j < k THEN j ELSE j + 1) /\ ptr_pool'[j] = ptr_pool[i]
      <3>1. ptr_pool \in Seq([size : Nat \ {0}, ptr : Addrs]) /\ ptr_pool' = RemoveAt(ptr_pool, k)
        BY <1>4 DEF Taken, PoolInv
      <3>2. /\ ptr_pool' \in Seq([size : Nat \ {0}, ptr : Addrs])
            /\ DOMAIN ptr_pool' = 1 .. Len(ptr_pool) - 1
            /\ \A j \in 1 .. Len(ptr_pool) - 1 :
                 ptr_pool'[j] = IF j < k THEN ptr_pool[j] ELSE ptr_pool[j + 1]
        BY <3>1, Removed
      <3>3. Len(ptr_pool) \in Nat /\ DOMAIN ptr_pool = 1 .. Len(ptr_pool)
        BY <3>1
      <3>. QED
        BY <3>2, <3>3
    <2>4. ASSUME NEW i \in DOMAIN ptr_pool'
          PROVE  /\ heap[ptr_pool'[i].ptr] = ptr_pool'[i].size
                 /\ ptr_size_map[ptr_pool'[i].ptr] = ptr_pool'[i].size
                 /\ \A c \in DOMAIN held' : held'[c] # ptr_pool'[i].ptr
                 /\ \A j \in DOMAIN ptr_pool' : j # i => ptr_pool'[j].ptr # ptr_pool'[i].ptr
      <3>1. PICK m \in DOMAIN ptr_pool :
              m # k /\ m = (IF i < k THEN i ELSE i + 1) /\ ptr_pool'[i] = ptr_pool[m]
        BY <2>3
      <3>2. ASSUME NEW j \in DOMAIN ptr_pool', j # i
            PROVE  ptr_pool'[j].ptr # ptr_pool'[i].ptr
        <4>1. PICK n \in DOMAIN ptr_pool :
                n # k /\ n = (IF j < k THEN j ELSE j + 1) /\ ptr_pool'[j] = ptr_pool[n]
          BY <2>3
        <4>2. n # m
          BY <2>3, <3>1, <3>2, <4>1
        <4>. QED
          BY <3>1, <4>1, <4>2, Pooled
      <3>3. /\ heap[ptr_pool[m].ptr] = ptr_pool[m].size
            /\ ptr_size_map[ptr_pool[m].ptr] = ptr_pool[m].size
            /\ \A c \in DOMAIN held : held[c] # ptr_pool[m].ptr
            /\ ptr_pool[m].ptr # a
        BY <2>1, <3>1, Pooled
      <3>. QED
        BY <2>2, <3>1, <3>2, <3>3
    <2>5. ASSUME NEW c \in DOMAIN held'
          PROVE  /\ heap[held'[c]] > 0 /\ heap[held'[c]] >= Size[c.kind]
                 /\ c # Other => ptr_size_map[held'[c]] = heap[held'[c]]
                 /\ \A d \in DOMAIN held' : d # c => held'[d] # held'[c]
      BY <2>1, <2>2, Holds
    <2>6. DOMAIN held' \subseteq Blocks
      BY <1>1, <2>2 DEF PoolInv
    <2>7. heap \in [Addrs -> Nat] /\ ptr_size_map \in [Addrs -> Nat]
      BY DEF PoolInv
    <2>. QED
      BY <1>4, <2>2, <2>3, <2>4, <2>5, <2>6, <2>7, Rebuilt
  <1>5. ASSUME NEW a \in Malloc, heap' = [heap EXCEPT ![a] = RoundUp(size)],
               ptr_size_map' = Recorded(a, RoundUp(size)), held' = Holding(b, a),
               UNCHANGED ptr_pool
        PROVE  PoolInv' /\ Mine' = Mine \cup {b}
    <2>. DEFINE n == RoundUp(size)
    <2>1. n \in Nat /\ n > 0 /\ n >= size
      BY <1>2 DEF RoundUp
    <2>. HIDE DEF n, size
    <2>2. /\ a \in Addrs /\ heap[a] = 0
          /\ \A c \in DOMAIN held : held[c] # a
          /\ \A j \in DOMAIN ptr_pool : ptr_pool[j].ptr # a
      <3>1. a \in Addrs /\ heap[a] = 0
        BY DEF Malloc
      <3>. QED
        BY <3>1, Holds, Pooled
    <2>3. /\ held' \in [DOMAIN held' -> Addrs] /\ DOMAIN held' = DOMAIN held \cup {b}
          /\ held'[b] = a /\ \A c \in DOMAIN held : held'[c] = held[c]
          /\ Mine' = Mine \cup {b}
      BY <1>3, <1>5, <2>2
    <2>4. /\ heap' \in [Addrs -> Nat] /\ ptr_size_map' \in [Addrs -> Nat]
          /\ heap'[a] = n /\ ptr_size_map'[a] = n
          /\ \A x \in Addrs : x # a => heap'[x] = heap[x] /\ ptr_size_map'[x] = ptr_size_map[x]
      BY <1>5, <2>1, <2>2 DEF n, Recorded, PoolInv
    <2>5. ASSUME NEW k \in DOMAIN ptr_pool'
          PROVE  /\ heap'[ptr_pool'[k].ptr] = ptr_pool'[k].size
                 /\ ptr_size_map'[ptr_pool'[k].ptr] = ptr_pool'[k].size
                 /\ \A c \in DOMAIN held' : held'[c] # ptr_pool'[k].ptr
                 /\ \A j \in DOMAIN ptr_pool' : j # k => ptr_pool'[j].ptr # ptr_pool'[k].ptr
      BY <1>5, <2>2, <2>3, <2>4, Pooled
    <2>6. ASSUME NEW c \in DOMAIN held'
          PROVE  /\ heap'[held'[c]] > 0 /\ heap'[held'[c]] >= Size[c.kind]
                 /\ c # Other => ptr_size_map'[held'[c]] = heap'[held'[c]]
                 /\ \A d \in DOMAIN held' : d # c => held'[d] # held'[c]
      BY <2>1, <2>2, <2>3, <2>4, Holds DEF size
    <2>7. DOMAIN held' \subseteq Blocks /\ ptr_pool' \in Seq([size : Nat \ {0}, ptr : Addrs])
      BY <1>1, <1>5, <2>3 DEF PoolInv
    <2>. QED
      BY <2>3, <2>4, <2>5, <2>6, <2>7, Rebuilt
  <1>6. XMalloc => \/ \E k \in DOMAIN ptr_pool :
                         /\ ptr_pool[k].size >= size
                         /\ ptr_pool' = Taken(k) /\ held' = Holding(b, ptr_pool[k].ptr)
                         /\ UNCHANGED <<heap, ptr_size_map>>
                   \/ \E a \in Malloc :
                         /\ heap' = [heap EXCEPT ![a] = RoundUp(size)]
                         /\ ptr_size_map' = Recorded(a, RoundUp(size))
                         /\ held' = Holding(b, a) /\ UNCHANGED ptr_pool
    BY DEF XMalloc, LowerBound, b
  <1>. QED
    BY <1>4, <1>5, <1>6 DEF b

\* A release: the block goes to the heap or the pool, no other one is touched.
LEMMA Released ==
    ASSUME PoolInv, NEW b \in DOMAIN held, held' = Without(b),
           \/ heap' = [heap EXCEPT ![held[b]] = 0] /\ UNCHANGED <<ptr_size_map, ptr_pool>>
           \/ /\ b # Other /\ UNCHANGED <<heap, ptr_size_map>>
              /\ ptr_pool' = Append(ptr_pool, [size |-> ptr_size_map[held[b]], ptr |-> held[b]])
    PROVE  PoolInv' /\ DOMAIN held' = DOMAIN held \ {b} /\ Mine' = Mine \ {b}
  <1>. DEFINE a == held[b]
              S == [size : Nat \ {0}, ptr : Addrs]
              e == [size |-> ptr_size_map[a], ptr |-> a]
  <1>1. /\ held' \in [DOMAIN held' -> Addrs] /\ DOMAIN held' = DOMAIN held \ {b}
        /\ \A c \in DOMAIN held' : held'[c] = held[c] /\ held[c] # a
        /\ Mine' = Mine \ {b} /\ DOMAIN held' \subseteq Blocks
    BY Holds DEF Without, PoolInv, Mine
  <1>2. a \in Addrs /\ \A k \in DOMAIN ptr_pool : ptr_pool[k].ptr # a
    BY Holds, Pooled
  <1>. HIDE DEF a
  <1>3. ASSUME heap' = [heap EXCEPT ![a] = 0], UNCHANGED <<ptr_size_map, ptr_pool>>
        PROVE  PoolInv'
    <2>1. /\ heap' \in [Addrs -> Nat] /\ ptr_size_map' \in [Addrs -> Nat]
          /\ ptr_pool' \in Seq([size : Nat \ {0}, ptr : Addrs])
          /\ \A x \in Addrs : x # a => heap'[x] = heap[x]
      BY <1>2, <1>3 DEF PoolInv
    <2>2. ASSUME NEW k \in DOMAIN ptr_pool'
          PROVE  /\ heap'[ptr_pool'[k].ptr] = ptr_pool'[k].size
                 /\ ptr_size_map'[ptr_pool'[k].ptr] = ptr_pool'[k].size
                 /\ \A c \in DOMAIN held' : held'[c] # ptr_pool'[k].ptr
                 /\ \A j \in DOMAIN ptr_pool' : j # k => ptr_pool'[j].ptr # ptr_pool'[k].ptr
      BY <1>1, <1>2, <1>3, <2>1, Pooled
    <2>3. ASSUME NEW c \in DOMAIN held'
          PROVE  /\ heap'[held'[c]] > 0 /\ heap'[held'[c]] >= Size[c.kind]
                 /\ c # Other => ptr_size_map'[held'[c]] = heap'[held'[c]]
                 /\ \A d \in DOMAIN held' : d # c => held'[d] # held'[c]
      BY <1>1, <1>3, <2>1, Holds
    <2>. QED
      BY <1>1, <2>1, <2>2, <2>3, Rebuilt
  <1>4. ASSUME b # Other, ptr_pool' = Append(ptr_pool, e), UNCHANGED <<heap, ptr_size_map>>
        PROVE  PoolInv'
    <2>1. e.size = heap[a] /\ e.size = ptr_size_map[a] /\ e.ptr = a /\ e \in S
      <3>1. heap[a] \in Nat /\ heap[a] > 0 /\ ptr_size_map[a] = heap[a]
        BY <1>2, <1>4, Holds DEF PoolInv, a
      <3>. QED
        BY <1>2, <3>1
    <2>. HIDE DEF e
    <2>2. ptr_pool \in Seq(S)
      BY DEF PoolInv
    <2>. HIDE DEF S
    <2>3. /\ ptr_pool' \in Seq(S)
          /\ \A k \in DOMAIN ptr_pool' :
               \/ k \in DOMAIN ptr_pool /\ ptr_pool'[k] = ptr_pool[k]
               \/ k = Len(ptr_pool) + 1 /\ ptr_pool'[k] = e
      BY <1>4, <2>1, <2>2
    <2>4. ASSUME NEW k \in DOMAIN ptr_pool'
          PROVE  /\ heap[ptr_pool'[k].ptr] = ptr_pool'[k].size
                 /\ ptr_size_map[ptr_pool'[k].ptr] = ptr_pool'[k].size
                 /\ \A c \in DOMAIN held' : held'[c] # ptr_pool'[k].ptr
                 /\ \A j \in DOMAIN ptr_pool' : j # k => ptr_pool'[j].ptr # ptr_pool'[k].ptr
      <3>1. CASE k \in DOMAIN ptr_pool /\ ptr_pool'[k] = ptr_pool[k]
        BY <1>1, <1>2, <2>1, <2>3, <3>1, Pooled
      <3>2. CASE k = Len(ptr_pool) + 1 /\ ptr_pool'[k] = e
        BY <1>1, <1>2, <2>1, <2>3, <3>2
      <3>. QED
        BY <2>3, <3>1, <3>2
    <2>5. ASSUME NEW c \in DOMAIN held'
          PROVE  /\ heap[held'[c]] > 0 /\ heap[held'[c]] >= Size[c.kind]
                 /\ c # Other => ptr_size_map[held'[c]] = heap[held'[c]]
                 /\ \A d \in DOMAIN held' : d # c => held'[d] # held'[c]
      BY <1>1, Holds
    <2>6. heap \in [Addrs -> Nat] /\ ptr_size_map \in [Addrs -> Nat]
      BY DEF PoolInv
    <2>. QED
      BY <1>1, <1>4, <2>3, <2>4, <2>5, <2>6, Rebuilt DEF S
  <1>. QED
    BY <1>1, <1>3, <1>4 DEF a

\* x_free finds the size of the block it is given: what a callback holds is
\* recorded truly.
LEMMA XFreeSound ==
    ASSUME PoolInv, Legal(Mine, prog), XFree
    PROVE  PoolInv' /\ Mine' = Mine \ {prog[1].block}
  <1>. DEFINE b == prog[1].block
  <1>1. prog # <<>> /\ ~Takes(prog[1])
    BY DEF XFree, Takes
  <1>2. b \in Mine
    BY <1>1, NextCall
  <1>3. b \in DOMAIN held /\ b # Other
    BY <1>2 DEF Mine
  <1>4. ptr_size_map[held[b]] # 0
    BY <1>3, Holds
  <1>5. /\ held' = Without(b) /\ UNCHANGED <<heap, ptr_size_map>>
        /\ ptr_pool' = Append(ptr_pool, [size |-> ptr_size_map[held[b]], ptr |-> held[b]])
    BY <1>4 DEF XFree
  <1>. QED
    BY <1>3, <1>5, Released

\* free leaves a stale size behind, of an address nobody holds.
LEMMA CFreeSound ==
    ASSUME PoolInv, Legal(Mine, prog), CFree
    PROVE  PoolInv' /\ Mine' = Mine \ {prog[1].block}
  <1>1. prog # <<>> /\ ~Takes(prog[1])
    BY DEF CFree, Takes
  <1>2. prog[1].block \in Mine
    BY <1>1, NextCall
  <1>3. prog[1].block \in DOMAIN held
    BY <1>2 DEF Mine
  <1>. QED
    BY <1>3, Released DEF CFree

\* A block that is none of x_malloc's may get an address with a stale size;
\* it is never given to x_free.
LEMMA OtherMallocSound ==
    ASSUME PoolInv, OtherMalloc
    PROVE  PoolInv' /\ Mine' = Mine
  <1>. DEFINE n == Size["other"]
  <1>1. n \in Nat /\ n > 0 /\ Other \in Blocks /\ Other.kind = "other"
    BY SizeAssumption DEF Kinds, Other, Blocks
  <1>2. PICK a \in Malloc : heap' = [heap EXCEPT ![a] = n] /\ held' = Holding(Other, a)
    BY DEF OtherMalloc, Other
  <1>3. Other \notin DOMAIN held /\ UNCHANGED <<ptr_size_map, ptr_pool>>
    BY DEF OtherMalloc, Other
  <1>. HIDE DEF n
  <1>4. /\ a \in Addrs /\ heap[a] = 0
        /\ \A c \in DOMAIN held : held[c] # a
        /\ \A j \in DOMAIN ptr_pool : ptr_pool[j].ptr # a
    <2>1. a \in Addrs /\ heap[a] = 0
      BY DEF Malloc
    <2>. QED
      BY <2>1, Holds, Pooled
  <1>5. /\ held' \in [DOMAIN held' -> Addrs] /\ DOMAIN held' = DOMAIN held \cup {Other}
        /\ held'[Other] = a /\ \A c \in DOMAIN held : held'[c] = held[c]
        /\ Mine' = Mine
    BY <1>2, <1>3, <1>4 DEF Holding, PoolInv, Mine
  <1>6. /\ heap' \in [Addrs -> Nat] /\ heap'[a] = n
        /\ \A x \in Addrs : x # a => heap'[x] = heap[x]
    BY <1>1, <1>2, <1>4 DEF PoolInv
  <1>7. ASSUME NEW k \in DOMAIN ptr_pool'
        PROVE  /\ heap'[ptr_pool'[k].ptr] = ptr_pool'[k].size
               /\ ptr_size_map'[ptr_pool'[k].ptr] = ptr_pool'[k].size
               /\ \A c \in DOMAIN held' : held'[c] # ptr_pool'[k].ptr
               /\ \A j \in DOMAIN ptr_pool' : j # k => ptr_pool'[j].ptr # ptr_pool'[k].ptr
    BY <1>3, <1>4, <1>5, <1>6, Pooled
  <1>8. ASSUME NEW c \in DOMAIN held'
        PROVE  /\ heap'[held'[c]] > 0 /\ heap'[held'[c]] >= Size[c.kind]
               /\ c # Other => ptr_size_map'[held'[c]] = heap'[held'[c]]
               /\ \A d \in DOMAIN held' : d # c => held'[d] # held'[c]
    <2>1. CASE c = Other
      BY <1>1, <1>4, <1>5, <1>6, <2>1 DEF n
    <2>2. CASE c # Other
      BY <1>3, <1>4, <1>5, <1>6, <2>2, Holds
    <2>. QED
      BY <2>1, <2>2
  <1>9. /\ DOMAIN held' \subseteq Blocks /\ ptr_size_map' \in [Addrs -> Nat]
        /\ ptr_pool' \in Seq([size : Nat \ {0}, ptr : Addrs])
    BY <1>1, <1>3, <1>5 DEF PoolInv
  <1>. QED
    BY <1>5, <1>6, <1>7, <1>8, <1>9, Rebuilt

LEMMA OtherFreeSound ==
    ASSUME PoolInv, OtherFree
    PROVE  PoolInv' /\ Mine' = Mine
  <1>1. /\ Other \in DOMAIN held /\ held' = Without(Other)
        /\ heap' = [heap EXCEPT ![held[Other]] = 0] /\ UNCHANGED <<ptr_size_map, ptr_pool>>
    BY DEF OtherFree, Other
  <1>2. PoolInv' /\ Mine' = Mine \ {Other}
    BY <1>1, Released
  <1>. QED
    BY <1>2 DEF Mine

\* Whatever release a legal program uses for which block, the pool stays
\* sound, the rest of the program legal, and its end the same.
LEMMA PoolStep ==
    ASSUME PoolInv, Legal(Mine, prog), MemNext
    PROVE  /\ PoolInv' /\ Legal(Mine', prog')
           /\ Kept(Mine', prog') = Kept(Mine, prog)
  <1>1. CASE XMalloc
    <2>1. prog # <<>> /\ Takes(prog[1]) /\ prog' = Tail(prog)
      BY <1>1 DEF XMalloc, Takes
    <2>2. PoolInv' /\ Mine' = Mine \cup {prog[1].block}
      BY <1>1, XMallocSound
    <2>3. /\ Legal(Mine \cup {prog[1].block}, Tail(prog))
          /\ Kept(Mine \cup {prog[1].block}, Tail(prog)) = Kept(Mine, prog)
      BY <2>1, NextCall
    <2>. QED
      BY <2>1, <2>2, <2>3
  <1>2. CASE XFree
    <2>1. prog # <<>> /\ ~Takes(prog[1]) /\ prog' = Tail(prog)
      BY <1>2 DEF XFree, Takes
    <2>. QED
      BY <1>2, <2>1, XFreeSound, NextCall
  <1>3. CASE CFree
    <2>1. prog # <<>> /\ ~Takes(prog[1]) /\ prog' = Tail(prog)
      BY <1>3 DEF CFree, Takes
    <2>. QED
      BY <1>3, <2>1, CFreeSound, NextCall
  <1>4. CASE OtherMalloc
    BY <1>4, OtherMallocSound DEF OtherMalloc
  <1>5. CASE OtherFree
    BY <1>5, OtherFreeSound DEF OtherFree
  <1>. QED
    BY <1>1, <1>2, <1>3, <1>4, <1>5 DEF MemNext

\* A callback starts: nothing has happened yet.
LEMMA PoolRun ==
    ASSUME PoolInv, NEW p, Run(p)
    PROVE  PoolInv' /\ Mine' = Mine /\ prog = <<>> /\ prog' = p
  BY DEF Run, PoolInv, MemorySound, PoolSound, HeldBlocksSound, Mine

LEMMA PoolStart ==
    ASSUME MemInit
    PROVE  PoolInv /\ Mine = {} /\ prog = <<>>
  BY DEF MemInit, PoolInv, MemorySound, PoolSound, HeldBlocksSound, Mine

\* With no call left everything is as it is.
LEMMA AtEnd ==
    ASSUME NEW H
    PROVE  Legal(H, <<>>) /\ Kept(H, <<>>) = H
  BY DEF Legal, Kept, Allocated, Freed

-----------------------------------------------------------------------------
\* Requests on their way through an agent: in the queue q, in the batches w
\* that are being written, at the other side r, in the answers d that are
\* being written; x are those that an error path left, n is their number.
\* Each is in one place, once.
Sent(w) == UNION {Range(w[i]) : i \in DOMAIN w}

Staged(q, w, r, d, x, n) ==
    /\ n \in Nat
    /\ q \in Seq(1 .. n) /\ w \in Seq(Seq(1 .. n) \ {<<>>})
    /\ r \subseteq 1 .. n /\ d \in Seq(1 .. n) /\ x \subseteq 0 .. n
    /\ IsInjective(q) /\ IsInjective(d)
    /\ \A i \in DOMAIN w : IsInjective(w[i])
    /\ \A i, j \in DOMAIN w : i # j => Range(w[i]) \cap Range(w[j]) = {}
    /\ Range(q) \cap Sent(w) = {} /\ Range(q) \cap r = {} /\ Range(q) \cap Range(d) = {}
    /\ Sent(w) \cap r = {} /\ Sent(w) \cap Range(d) = {} /\ r \cap Range(d) = {}
    /\ x \cap (Range(q) \cup Sent(w) \cup r \cup Range(d)) = {}

LEMMA RangeIn ==
    ASSUME NEW S, NEW s \in Seq(S)
    PROVE  Range(s) \subseteq S
  BY DEF Range

LEMMA SentMembers ==
    ASSUME NEW w, NEW e
    PROVE  e \in Sent(w) <=> \E i \in DOMAIN w : e \in Range(w[i])
  BY DEF Sent

LEMMA RangeAppend ==
    ASSUME NEW S, NEW s \in Seq(S), NEW e
    PROVE  /\ Range(Append(s, e)) = Range(s) \cup {e}
           /\ IsInjective(s) /\ e \notin Range(s) => IsInjective(Append(s, e))
  <1>. DEFINE t == Append(s, e)
  <1>1. /\ DOMAIN t = 1 .. Len(s) + 1 /\ t[Len(s) + 1] = e
        /\ \A i \in 1 .. Len(s) : t[i] = s[i]
        /\ DOMAIN s = 1 .. Len(s) /\ Len(s) \in Nat
    OBVIOUS
  <1>. HIDE DEF t
  <1>2. Range(t) = Range(s) \cup {e}
    BY <1>1 DEF Range
  <1>3. e \notin Range(s) => \A i \in DOMAIN s : t[i] # e
    BY <1>1 DEF Range
  <1>4. IsInjective(s) /\ e \notin Range(s) => IsInjective(t)
    BY <1>1, <1>3 DEF IsInjective
  <1>. QED
    BY <1>2, <1>4 DEF t

LEMMA RangeTail ==
    ASSUME NEW S, NEW s \in Seq(S), s # <<>>, IsInjective(s)
    PROVE  /\ s[1] \in Range(s) /\ s[1] \in S
           /\ Range(Tail(s)) = Range(s) \ {s[1]} /\ IsInjective(Tail(s))
  <1>. DEFINE t == Tail(s)
  <1>1. /\ DOMAIN t = 1 .. Len(s) - 1 /\ \A i \in DOMAIN t : t[i] = s[i + 1]
        /\ DOMAIN s = 1 .. Len(s) /\ Len(s) \in Nat /\ 1 \in DOMAIN s
        /\ \A i \in DOMAIN s : i # 1 => i - 1 \in DOMAIN t /\ t[i - 1] = s[i]
        /\ \A i \in DOMAIN t : i + 1 \in DOMAIN s /\ i + 1 # 1
    OBVIOUS
  <1>. HIDE DEF t
  <1>2. /\ \A i \in DOMAIN t : \E j \in DOMAIN s : j # 1 /\ t[i] = s[j]
        /\ \A j \in DOMAIN s : j = 1 \/ \E i \in DOMAIN t : t[i] = s[j]
    BY <1>1
  <1>3. ASSUME NEW e PROVE e \in Range(t) <=> e \in Range(s) /\ e # s[1]
    <2>1. ASSUME e \in Range(t)
          PROVE  e \in Range(s) /\ e # s[1]
      <3>1. PICK i \in DOMAIN t : e = t[i]
        BY <2>1 DEF Range
      <3>2. PICK j \in DOMAIN s : j # 1 /\ t[i] = s[j]
        BY <1>2
      <3>. QED
        BY <1>1, <3>1, <3>2 DEF Range, IsInjective
    <2>2. ASSUME e \in Range(s), e # s[1]
          PROVE  e \in Range(t)
      <3>1. PICK j \in DOMAIN s : e = s[j]
        BY <2>2 DEF Range
      <3>2. PICK i \in DOMAIN t : t[i] = s[j]
        BY <1>2, <2>2, <3>1
      <3>. QED
        BY <3>1, <3>2 DEF Range
    <2>. QED
      BY <2>1, <2>2
  <1>4. IsInjective(t)
    <2>. SUFFICES ASSUME NEW i \in DOMAIN t, NEW j \in DOMAIN t, t[i] = t[j]
                  PROVE  i + 1 = j + 1
      BY <1>1 DEF IsInjective
    <2>1. i + 1 \in DOMAIN s /\ j + 1 \in DOMAIN s
      BY <1>1
    <2>. QED
      BY <1>1, <2>1 DEF IsInjective
  <1>5. s[1] \in Range(s) /\ s[1] \in S
    BY <1>1 DEF Range
  <1>. QED
    BY <1>3, <1>4, <1>5 DEF t

LEMMA SentAppend ==
    ASSUME NEW S, NEW w \in Seq(S), NEW q
    PROVE  /\ Sent(Append(w, q)) = Sent(w) \cup Range(q)
           /\ DOMAIN Append(w, q) = DOMAIN w \cup {Len(w) + 1} /\ Len(w) + 1 \notin DOMAIN w
           /\ Append(w, q)[Len(w) + 1] = q /\ \A i \in DOMAIN w : Append(w, q)[i] = w[i]
  <1>. DEFINE t == Append(w, q)
  <1>1. /\ DOMAIN t = DOMAIN w \cup {Len(w) + 1} /\ Len(w) + 1 \notin DOMAIN w
        /\ t[Len(w) + 1] = q /\ \A i \in DOMAIN w : t[i] = w[i]
    OBVIOUS
  <1>. HIDE DEF t
  <1>2. ASSUME NEW e PROVE e \in Sent(t) <=> e \in Sent(w) \/ e \in Range(q)
    BY <1>1 DEF Sent
  <1>. QED
    BY <1>1, <1>2 DEF t

LEMMA SentTail ==
    ASSUME NEW S, NEW w \in Seq(S), w # <<>>,
           \A i, j \in DOMAIN w : i # j => Range(w[i]) \cap Range(w[j]) = {}
    PROVE  /\ Range(w[1]) \subseteq Sent(w) /\ 1 \in DOMAIN w /\ w[1] \in S
           /\ Sent(Tail(w)) = Sent(w) \ Range(w[1])
           /\ \A i \in DOMAIN Tail(w) : i + 1 \in DOMAIN w /\ i + 1 # 1 /\ Tail(w)[i] = w[i + 1]
           /\ \A i \in DOMAIN w : i # 1 => i - 1 \in DOMAIN Tail(w) /\ Tail(w)[i - 1] = w[i]
  <1>. DEFINE t == Tail(w)
  <1>1. /\ DOMAIN t = 1 .. Len(w) - 1 /\ \A i \in DOMAIN t : t[i] = w[i + 1]
        /\ DOMAIN w = 1 .. Len(w) /\ Len(w) \in Nat /\ 1 \in DOMAIN w
        /\ \A i \in DOMAIN w : i # 1 => i - 1 \in DOMAIN t /\ t[i - 1] = w[i]
        /\ \A i \in DOMAIN t : i + 1 \in DOMAIN w /\ i + 1 # 1
    OBVIOUS
  <1>. HIDE DEF t
  <1>2. /\ \A i \in DOMAIN t : \E j \in DOMAIN w : j # 1 /\ t[i] = w[j]
        /\ \A j \in DOMAIN w : j = 1 \/ \E i \in DOMAIN t : t[i] = w[j]
    BY <1>1
  <1>3. ASSUME NEW e PROVE e \in Sent(t) <=> e \in Sent(w) /\ e \notin Range(w[1])
    <2>1. ASSUME e \in Sent(t)
          PROVE  e \in Sent(w) /\ e \notin Range(w[1])
      <3>1. PICK i \in DOMAIN t : e \in Range(t[i])
        BY <2>1, SentMembers
      <3>2. PICK j \in DOMAIN w : j # 1 /\ t[i] = w[j]
        BY <1>2
      <3>. QED
        BY <1>1, <3>1, <3>2, SentMembers
    <2>2. ASSUME e \in Sent(w), e \notin Range(w[1])
          PROVE  e \in Sent(t)
      <3>1. PICK j \in DOMAIN w : e \in Range(w[j])
        BY <2>2, SentMembers
      <3>2. PICK i \in DOMAIN t : t[i] = w[j]
        BY <1>2, <2>2, <3>1
      <3>. QED
        BY <3>1, <3>2, SentMembers
    <2>. QED
      BY <2>1, <2>2
  <1>4. Range(w[1]) \subseteq Sent(w)
    BY <1>1 DEF Sent
  <1>. QED
    BY <1>1, <1>3, <1>4 DEF t

-----------------------------------------------------------------------------
\* The steps of a request.  It arrives ...
LEMMA Arrives ==
    ASSUME NEW q, NEW w, NEW r, NEW d, NEW x, NEW n, Staged(q, w, r, d, x, n)
    PROVE  /\ Staged(Append(q, n + 1), w, r, d, x, n + 1)
           /\ Range(Append(q, n + 1)) = Range(q) \cup {n + 1}
           /\ n + 1 \notin Range(q) \cup Sent(w) \cup r \cup Range(d) \cup x
  <1>1. 1 .. n \subseteq 1 .. n + 1 /\ 0 .. n \subseteq 0 .. n + 1 /\ n + 1 \notin 0 .. n
        /\ n + 1 \in 1 .. n + 1 /\ n + 1 \in Nat /\ n \in Nat /\ n + 1 \notin 1 .. n
    BY DEF Staged
  <1>2. Range(q) \subseteq 1 .. n /\ Range(d) \subseteq 1 .. n
    BY DEF Staged, Range
  <1>3. Sent(w) \subseteq 1 .. n
    <2>. SUFFICES ASSUME NEW i \in DOMAIN w, NEW e \in Range(w[i]) PROVE e \in 1 .. n
      BY DEF Sent
    <2>1. w[i] \in Seq(1 .. n)
      BY DEF Staged
    <2>. QED
      BY <2>1, RangeIn
  <1>4. n + 1 \notin Range(q) \cup Sent(w) \cup r \cup Range(d) \cup x
    BY <1>1, <1>2, <1>3 DEF Staged
  <1>5. /\ Range(Append(q, n + 1)) = Range(q) \cup {n + 1}
        /\ IsInjective(Append(q, n + 1))
    BY <1>4, RangeAppend DEF Staged
  <1>6. /\ Append(q, n + 1) \in Seq(1 .. n + 1) /\ d \in Seq(1 .. n + 1)
        /\ w \in Seq(Seq(1 .. n + 1) \ {<<>>})
    <2>1. q \in Seq(1 .. n + 1) /\ d \in Seq(1 .. n + 1)
      BY <1>1 DEF Staged
    <2>2. Seq(1 .. n) \subseteq Seq(1 .. n + 1)
      BY <1>1
    <2>. QED
      BY <1>1, <2>1, <2>2 DEF Staged
  <1>. QED
    BY <1>1, <1>4, <1>5, <1>6 DEF Staged

\* ... is written with those that wait ...
LEMMA Flushed ==
    ASSUME NEW q, NEW w, NEW r, NEW d, NEW x, NEW n, Staged(q, w, r, d, x, n), q # <<>>
    PROVE  Staged(<<>>, Append(w, q), r, d, x, n)
  <1>1. w \in Seq(Seq(1 .. n) \ {<<>>}) /\ q \in Seq(1 .. n) \ {<<>>}
    BY DEF Staged
  <1>0. /\ DOMAIN Append(w, q) = DOMAIN w \cup {Len(w) + 1} /\ Len(w) + 1 \notin DOMAIN w
        /\ Append(w, q)[Len(w) + 1] = q /\ \A i \in DOMAIN w : Append(w, q)[i] = w[i]
    BY <1>1, SentAppend
  <1>2. Append(w, q) \in Seq(Seq(1 .. n) \ {<<>>})
    BY <1>1
  <1>3. <<>> \in Seq(1 .. n) /\ Range(<<>>) = {} /\ IsInjective(<<>>)
    BY DEF Range, IsInjective
  <1>4. ASSUME NEW i \in DOMAIN Append(w, q), NEW j \in DOMAIN Append(w, q), i # j
        PROVE  Range(Append(w, q)[i]) \cap Range(Append(w, q)[j]) = {}
    <2>1. \A k \in DOMAIN w : Range(w[k]) \cap Range(q) = {}
      BY DEF Staged, Sent
    <2>2. \A k, l \in DOMAIN w : k # l => Range(w[k]) \cap Range(w[l]) = {}
      BY DEF Staged
    <2>. QED
      BY <1>0, <1>4, <2>1, <2>2
  <1>5. \A i \in DOMAIN Append(w, q) : IsInjective(Append(w, q)[i])
    BY <1>1, SentAppend DEF Staged
  <1>6. Sent(Append(w, q)) = Sent(w) \cup Range(q)
    BY <1>1, SentAppend
  <1>. QED
    BY <1>2, <1>3, <1>4, <1>5, <1>6 DEF Staged

\* ... the oldest write ends, well or not ...
LEMMA WriteEnds ==
    ASSUME NEW q, NEW w, NEW r, NEW d, NEW x, NEW n, Staged(q, w, r, d, x, n), w # <<>>
    PROVE  /\ Staged(q, Tail(w), r \cup Range(w[1]), d, x, n)
           /\ Staged(q, Tail(w), r, d, x \cup Range(w[1]), n)
           /\ w[1] \in Seq(1 .. n) /\ w[1] # <<>> /\ IsInjective(w[1])
           /\ Range(w[1]) \cap (Range(q) \cup Sent(Tail(w)) \cup r \cup Range(d) \cup x) = {}
           /\ Range(w[1]) \subseteq Sent(w) /\ Sent(Tail(w)) = Sent(w) \ Range(w[1])
           /\ \A i \in DOMAIN Tail(w) : i + 1 \in DOMAIN w /\ i + 1 # 1 /\ Tail(w)[i] = w[i + 1]
           /\ \A i \in DOMAIN w : i # 1 => i - 1 \in DOMAIN Tail(w) /\ Tail(w)[i - 1] = w[i]
  <1>1. w \in Seq(Seq(1 .. n) \ {<<>>}) /\ Tail(w) \in Seq(Seq(1 .. n) \ {<<>>})
    BY DEF Staged
  <1>2. /\ Range(w[1]) \subseteq Sent(w) /\ 1 \in DOMAIN w /\ w[1] \in Seq(1 .. n) \ {<<>>}
        /\ Sent(Tail(w)) = Sent(w) \ Range(w[1])
        /\ \A i \in DOMAIN Tail(w) : i + 1 \in DOMAIN w /\ i + 1 # 1 /\ Tail(w)[i] = w[i + 1]
        /\ \A i \in DOMAIN w : i # 1 => i - 1 \in DOMAIN Tail(w) /\ Tail(w)[i - 1] = w[i]
    <2>. DEFINE S == Seq(1 .. n) \ {<<>>}
    <2>1. w \in Seq(S)
      BY <1>1
    <2>2. \A i, j \in DOMAIN w : i # j => Range(w[i]) \cap Range(w[j]) = {}
      BY DEF Staged
    <2>. HIDE DEF S
    <2>3. /\ Range(w[1]) \subseteq Sent(w) /\ 1 \in DOMAIN w /\ w[1] \in S
          /\ Sent(Tail(w)) = Sent(w) \ Range(w[1])
          /\ \A i \in DOMAIN Tail(w) : i + 1 \in DOMAIN w /\ i + 1 # 1 /\ Tail(w)[i] = w[i + 1]
          /\ \A i \in DOMAIN w : i # 1 => i - 1 \in DOMAIN Tail(w) /\ Tail(w)[i - 1] = w[i]
      BY <2>1, <2>2, SentTail
    <2>. QED
      BY <2>3 DEF S
  <1>3. Range(w[1]) \subseteq 1 .. n /\ Range(w[1]) \subseteq 0 .. n
    <2>1. Range(w[1]) \subseteq 1 .. n
      BY <1>2, RangeIn
    <2>2. 1 .. n \subseteq 0 .. n
      BY DEF Staged
    <2>. QED
      BY <2>1, <2>2
  <1>4. /\ \A i \in DOMAIN Tail(w) : IsInjective(Tail(w)[i])
        /\ \A i, j \in DOMAIN Tail(w) : i # j => Range(Tail(w)[i]) \cap Range(Tail(w)[j]) = {}
    <2>1. \A i \in DOMAIN Tail(w) : IsInjective(Tail(w)[i])
      BY <1>2 DEF Staged
    <2>2. ASSUME NEW i \in DOMAIN Tail(w), NEW j \in DOMAIN Tail(w), i # j
          PROVE  Range(Tail(w)[i]) \cap Range(Tail(w)[j]) = {}
      <3>1. DOMAIN Tail(w) \subseteq Nat
        BY <1>1
      <3>2. i + 1 # j + 1 /\ i + 1 \in DOMAIN w /\ j + 1 \in DOMAIN w
        BY <1>2, <2>2, <3>1
      <3>. QED
        BY <1>2, <3>2 DEF Staged
    <2>. QED
      BY <2>1, <2>2
  <1>5. Range(w[1]) \cap (Range(q) \cup r \cup Range(d) \cup x) = {} /\ IsInjective(w[1])
    BY <1>2 DEF Staged
  <1>6. Staged(q, Tail(w), r \cup Range(w[1]), d, x, n)
    BY <1>1, <1>2, <1>3, <1>4, <1>5 DEF Staged
  <1>7. Staged(q, Tail(w), r, d, x \cup Range(w[1]), n)
    BY <1>1, <1>2, <1>3, <1>4, <1>5 DEF Staged
  <1>. QED
    BY <1>2, <1>5, <1>6, <1>7

\* ... the request m is answered, on a connection that is open or closed ...
LEMMA Answered ==
    ASSUME NEW q, NEW w, NEW r, NEW d, NEW x, NEW n, NEW m \in r, Staged(q, w, r, d, x, n)
    PROVE  /\ Staged(q, w, r \ {m}, Append(d, m), x, n)
           /\ Staged(q, w, r \ {m}, d, x \cup {m}, n)
           /\ Range(Append(d, m)) = Range(d) \cup {m}
           /\ m \in 1 .. n /\ m \notin Range(q) \cup Sent(w) \cup Range(d) \cup x
  <1>1. m \in 1 .. n /\ m \in 0 .. n /\ m \notin Range(q) \cup Sent(w) \cup Range(d) \cup x
    BY DEF Staged
  <1>2. /\ Range(Append(d, m)) = Range(d) \cup {m} /\ IsInjective(Append(d, m))
        /\ Append(d, m) \in Seq(1 .. n)
    BY <1>1, RangeAppend DEF Staged
  <1>3. Staged(q, w, r \ {m}, Append(d, m), x, n)
    BY <1>1, <1>2 DEF Staged
  <1>4. Staged(q, w, r \ {m}, d, x \cup {m}, n)
    BY <1>1 DEF Staged
  <1>. QED
    BY <1>1, <1>2, <1>3, <1>4

\* ... and the answer is written.
LEMMA AnswerEnds ==
    ASSUME NEW q, NEW w, NEW r, NEW d, NEW x, NEW n, Staged(q, w, r, d, x, n), d # <<>>
    PROVE  /\ Staged(q, w, r, Tail(d), x, n)
           /\ d[1] \in Range(d) /\ d[1] \in 1 .. n /\ Range(Tail(d)) = Range(d) \ {d[1]}
  <1>1. /\ d[1] \in Range(d) /\ d[1] \in 1 .. n /\ Range(Tail(d)) = Range(d) \ {d[1]}
        /\ IsInjective(Tail(d)) /\ Tail(d) \in Seq(1 .. n)
    BY RangeTail DEF Staged
  <1>. QED
    BY <1>1 DEF Staged
-----------------------------------------------------------------------------
\* The blocks of a batch of requests that is being written.
BatchKinds(q) == {"w_req", "wctx", IF Len(q) > 1 THEN "bufs_many" ELSE "bufs"}

OfBatch(b, q) ==
    \/ b.kind = "buffer" /\ b.of \in Range(q)
    \/ b.kind \in BatchKinds(q) /\ b.of = q[1]

\* What the requests in each stage need: blocks of the kinds K while they
\* wait, of the kinds D while their answer is written.
Uses(b, q, w, d, K, D) ==
    \/ b.kind \in K /\ b.of \in Range(q)
    \/ \E i \in DOMAIN w : OfBatch(b, w[i])
    \/ b.kind \in D /\ b.of \in Range(d)

\* No kind of block is needed in two stages.
Apart(K, D) ==
    K \cap D = {} /\ (K \cup D) \cap {"buffer", "bufs", "bufs_many", "w_req", "wctx"} = {}

LEMMA BatchIn ==
    ASSUME NEW q, NEW n, q \in Seq(1 .. n) \ {<<>>}, NEW b, OfBatch(b, q)
    PROVE  b.of \in Range(q) /\ b.kind \in {"buffer", "bufs", "bufs_many", "w_req", "wctx"}
  <1>1. q[1] \in Range(q)
    BY DEF Range
  <1>. QED
    BY <1>1 DEF OfBatch, BatchKinds

\* The numbers in the stages start with 1.
LEMMA StagedIn ==
    ASSUME NEW q, NEW w, NEW r, NEW d, NEW x, NEW n, Staged(q, w, r, d, x, n)
    PROVE  /\ Range(q) \subseteq 1 .. n /\ Sent(w) \subseteq 1 .. n /\ Range(d) \subseteq 1 .. n
           /\ 0 \notin Range(q) \cup Sent(w) \cup Range(d)
  <1>1. Range(q) \subseteq 1 .. n /\ Range(d) \subseteq 1 .. n /\ n \in Nat
    BY DEF Staged, Range
  <1>2. Sent(w) \subseteq 1 .. n
    <2>. SUFFICES ASSUME NEW i \in DOMAIN w, NEW e \in Range(w[i]) PROVE e \in 1 .. n
      BY DEF Sent
    <2>1. w[i] \in Seq(1 .. n)
      BY DEF Staged
    <2>. QED
      BY <2>1, RangeIn
  <1>. QED
    BY <1>1, <1>2

LEMMA UsedIn ==
    ASSUME NEW q, NEW w, NEW r, NEW d, NEW x, NEW n, Staged(q, w, r, d, x, n),
           NEW K, NEW D, NEW b, Uses(b, q, w, d, K, D)
    PROVE  /\ b.of \in Range(q) \cup Sent(w) \cup Range(d)
           /\ b.kind \in K \cup D \cup {"buffer", "bufs", "bufs_many", "w_req", "wctx"}
  <1>1. CASE (b.kind \in K /\ b.of \in Range(q)) \/ (b.kind \in D /\ b.of \in Range(d))
    BY <1>1
  <1>2. CASE \E i \in DOMAIN w : OfBatch(b, w[i])
    <2>1. PICK i \in DOMAIN w : OfBatch(b, w[i])
      BY <1>2
    <2>2. w[i] \in Seq(1 .. n) \ {<<>>}
      BY <2>1 DEF Staged
    <2>. QED
      BY <2>1, <2>2, BatchIn, SentMembers
  <1>. QED
    BY <1>1, <1>2 DEF Uses

\* A request that arrives needs its own blocks besides ...
LEMMA UsesArrives ==
    ASSUME NEW q, NEW w, NEW r, NEW d, NEW x, NEW n, Staged(q, w, r, d, x, n),
           NEW K, NEW D, NEW b
    PROVE  Uses(b, Append(q, n + 1), w, d, K, D)
             <=> Uses(b, q, w, d, K, D) \/ (b.kind \in K /\ b.of = n + 1)
  <1>1. Range(Append(q, n + 1)) = Range(q) \cup {n + 1}
    BY RangeAppend DEF Staged
  <1>2. b.of \in Range(Append(q, n + 1)) <=> b.of \in Range(q) \/ b.of = n + 1
    BY <1>1
  <1>. QED
    BY <1>2 DEF Uses

\* ... a batch that is written needs the blocks of a batch, no longer those
\* of waiting requests ...
LEMMA UsesFlushed ==
    ASSUME NEW q, NEW w, NEW r, NEW d, NEW x, NEW n, Staged(q, w, r, d, x, n), q # <<>>,
           NEW K, NEW D, Apart(K, D), NEW b
    PROVE  Uses(b, <<>>, Append(w, q), d, K, D)
             <=> \/ Uses(b, q, w, d, K, D) /\ ~(b.kind \in K /\ b.of \in Range(q))
                 \/ OfBatch(b, q)
  <1>1. /\ DOMAIN Append(w, q) = DOMAIN w \cup {Len(w) + 1} /\ Len(w) + 1 \notin DOMAIN w
        /\ Append(w, q)[Len(w) + 1] = q /\ \A i \in DOMAIN w : Append(w, q)[i] = w[i]
    BY SentAppend DEF Staged
  <1>2. (\E i \in DOMAIN Append(w, q) : OfBatch(b, Append(w, q)[i]))
          <=> (\E i \in DOMAIN w : OfBatch(b, w[i])) \/ OfBatch(b, q)
    BY <1>1
  <1>3. Range(<<>>) = {}
    BY DEF Range
  <1>4. ASSUME NEW i \in DOMAIN w, OfBatch(b, w[i]) PROVE b.kind \notin K
    <2>1. w[i] \in Seq(1 .. n) \ {<<>>}
      BY DEF Staged
    <2>. QED
      BY <2>1, <1>4, BatchIn DEF Apart
  <1>. QED
    BY <1>2, <1>3, <1>4 DEF Uses, Apart

\* ... which go when the write ends ...
LEMMA UsesWritten ==
    ASSUME NEW q, NEW w, NEW r, NEW d, NEW x, NEW n, Staged(q, w, r, d, x, n), w # <<>>,
           NEW K, NEW D, Apart(K, D), NEW b
    PROVE  /\ Uses(b, q, Tail(w), d, K, D) <=> Uses(b, q, w, d, K, D) /\ ~OfBatch(b, w[1])
           /\ OfBatch(b, w[1]) => Uses(b, q, w, d, K, D) /\ b.of \in Range(w[1])
  <1>. DEFINE t == Tail(w)
  <1>1. /\ w[1] \in Seq(1 .. n) \ {<<>>} /\ Range(w[1]) \cap Sent(t) = {} /\ 1 \in DOMAIN w
        /\ \A i \in DOMAIN t : i + 1 \in DOMAIN w /\ i + 1 # 1 /\ t[i] = w[i + 1]
        /\ \A i \in DOMAIN w : i # 1 => i - 1 \in DOMAIN t /\ t[i - 1] = w[i]
    <2>1. w \in Seq(Seq(1 .. n) \ {<<>>})
      BY DEF Staged
    <2>2. 1 \in DOMAIN w
      BY <2>1
    <2>. QED
      BY <2>2, WriteEnds
  <1>2. \A i \in DOMAIN t : t[i] \in Seq(1 .. n) \ {<<>>}
    BY <1>1 DEF Staged
  <1>. HIDE DEF t
  <1>3. (\E i \in DOMAIN t : OfBatch(b, t[i])) => \E i \in DOMAIN w : OfBatch(b, w[i])
    BY <1>1
  <1>4. (\E i \in DOMAIN w : OfBatch(b, w[i])) => OfBatch(b, w[1]) \/ \E i \in DOMAIN t : OfBatch(b, t[i])
    BY <1>1
  <1>5. ASSUME OfBatch(b, w[1]) PROVE ~\E i \in DOMAIN t : OfBatch(b, t[i])
    <2>. SUFFICES ASSUME NEW i \in DOMAIN t, OfBatch(b, t[i]) PROVE FALSE
      OBVIOUS
    <2>1. b.of \in Range(w[1]) /\ b.of \in Range(t[i])
      BY <1>1, <1>2, <1>5, BatchIn
    <2>. QED
      BY <2>1, <1>1, SentMembers
  <1>6. OfBatch(b, w[1]) => b.kind \notin K \cup D /\ b.of \in Range(w[1])
    BY <1>1, BatchIn DEF Apart
  <1>. QED
    BY <1>1, <1>3, <1>4, <1>5, <1>6 DEF Uses, t

\* ... and an answer needs its own until it is written.
LEMMA UsesAnswered ==
    ASSUME NEW q, NEW w, NEW r, NEW d, NEW x, NEW n, Staged(q, w, r, d, x, n), NEW m \in r,
           NEW K, NEW D, NEW b
    PROVE  Uses(b, q, w, Append(d, m), K, D) <=> Uses(b, q, w, d, K, D) \/ (b.kind \in D /\ b.of = m)
  <1>1. Range(Append(d, m)) = Range(d) \cup {m}
    BY RangeAppend DEF Staged
  <1>2. b.of \in Range(Append(d, m)) <=> b.of \in Range(d) \/ b.of = m
    BY <1>1
  <1>. QED
    BY <1>2 DEF Uses

LEMMA UsesAnswerEnds ==
    ASSUME NEW q, NEW w, NEW r, NEW d, NEW x, NEW n, Staged(q, w, r, d, x, n), d # <<>>,
           NEW K, NEW D, Apart(K, D), NEW b
    PROVE  /\ Uses(b, q, w, Tail(d), K, D)
                <=> Uses(b, q, w, d, K, D) /\ ~(b.kind \in D /\ b.of = d[1])
           /\ d[1] \in Range(d)
  <1>1. d[1] \in Range(d) /\ Range(Tail(d)) = Range(d) \ {d[1]}
    BY AnswerEnds
  <1>2. ASSUME NEW i \in DOMAIN w, OfBatch(b, w[i]) PROVE b.kind \notin D
    <2>1. w[i] \in Seq(1 .. n) \ {<<>>}
      BY DEF Staged
    <2>. QED
      BY <2>1, <1>2, BatchIn DEF Apart
  <1>. QED
    BY <1>1, <1>2 DEF Uses, Apart

-----------------------------------------------------------------------------
\* The programs that both agents run for a batch, op being the agent's
\* release; a and c are the blocks of a request that is encoded.
Call(op, kind, n) == [op |-> op, block |-> [kind |-> kind, of |-> n]]

Encoding(q, op, a, c) ==
    [k \in 1 .. 3 * Len(q) |->
        <<XM("buffer", q[(k + 2) \div 3]),
          Call(op, a, q[(k + 2) \div 3]),
          Call(op, c, q[(k + 2) \div 3])>>[((k + 2) % 3) + 1]]


Writing(q, op, a, c) ==
    IF q = <<>> THEN <<XM("bufs", 0), Call(op, "bufs", 0)>>
    ELSE <<XM(Bufs(q), q[1])>> \o Encoding(q, op, a, c)
         \o <<XM("w_req", q[1]), XM("wctx", q[1])>>

Written(q, op) ==
    [k \in DOMAIN q |-> Call(op, "buffer", q[k])]
    \o <<Call(op, Bufs(q), q[1]), Call(op, "wctx", q[1]), Call(op, "w_req", q[1])>>

Releases == {"x_free", "free"}
BatchBlockKinds == {"buffer", "bufs", "bufs_many", "w_req", "wctx"}

LEMMA CallFacts ==
    ASSUME NEW kind \in Kinds, NEW n \in Nat, NEW op \in Releases
    PROVE  /\ XM(kind, n) \in Calls /\ Takes(XM(kind, n))
           /\ XM(kind, n).block = [kind |-> kind, of |-> n]
           /\ Call(op, kind, n) \in Calls /\ ~Takes(Call(op, kind, n))
           /\ Call(op, kind, n).block = [kind |-> kind, of |-> n]
  BY DEF XM, Call, Calls, Blocks, Takes, Releases

\* The place of a call among the threes of an encoding.
LEMMA Division ==
    ASSUME NEW m \in Nat
    PROVE  m \div 3 \in Nat /\ m % 3 \in 0 .. 2 /\ m = 3 * (m \div 3) + (m % 3)
  OBVIOUS

LEMMA Thirds ==
    ASSUME NEW n \in Nat, NEW k \in 1 .. 3 * n
    PROVE  /\ (k + 2) \div 3 \in 1 .. n /\ (k + 2) % 3 \in 0 .. 2
           /\ k = 3 * ((k + 2) \div 3) + ((k + 2) % 3) - 2
  <1>. DEFINE m == k + 2
  <1>1. m \in Nat /\ m >= 3 /\ m <= 3 * n + 2 /\ k = m - 2
    OBVIOUS
  <1>. HIDE DEF m
  <1>2. m \div 3 \in Nat /\ m % 3 \in 0 .. 2 /\ m = 3 * (m \div 3) + (m % 3)
    BY <1>1, Division
  <1>. QED
    BY <1>1, <1>2 DEF m

LEMMA Triples ==
    ASSUME NEW i \in Nat, i > 0
    PROVE  /\ (3 * i - 2 + 2) \div 3 = i /\ (3 * i - 2 + 2) % 3 = 0
           /\ (3 * i - 1 + 2) \div 3 = i /\ (3 * i - 1 + 2) % 3 = 1
           /\ (3 * i + 2) \div 3 = i /\ (3 * i + 2) % 3 = 2
  OBVIOUS

\* The three calls for each request of the batch.
LEMMA Encoded ==
    ASSUME NEW q \in Seq(Nat), NEW op, NEW a, NEW c
    PROVE  /\ DOMAIN Encoding(q, op, a, c) = 1 .. 3 * Len(q)
           /\ \A k \in 1 .. 3 * Len(q) :
                \E i \in DOMAIN q :
                   \/ k = 3 * i - 2 /\ Encoding(q, op, a, c)[k] = XM("buffer", q[i])
                   \/ k = 3 * i - 1 /\ Encoding(q, op, a, c)[k] = Call(op, a, q[i])
                   \/ k = 3 * i /\ Encoding(q, op, a, c)[k] = Call(op, c, q[i])
           /\ \A i \in DOMAIN q :
                /\ Encoding(q, op, a, c)[3 * i - 2] = XM("buffer", q[i])
                /\ Encoding(q, op, a, c)[3 * i - 1] = Call(op, a, q[i])
                /\ Encoding(q, op, a, c)[3 * i] = Call(op, c, q[i])
  <1>. DEFINE p == Encoding(q, op, a, c)
              e(i) == <<XM("buffer", q[i]), Call(op, a, q[i]), Call(op, c, q[i])>>
  <1>1. /\ DOMAIN p = 1 .. 3 * Len(q)
        /\ \A k \in 1 .. 3 * Len(q) : p[k] = e((k + 2) \div 3)[((k + 2) % 3) + 1]
    BY DEF Encoding
  <1>2. \A i : e(i)[1] = XM("buffer", q[i]) /\ e(i)[2] = Call(op, a, q[i]) /\ e(i)[3] = Call(op, c, q[i])
    OBVIOUS
  <1>. HIDE DEF p, e
  <1>0. Len(q) \in Nat /\ DOMAIN q = 1 .. Len(q)
    OBVIOUS
  <1>3. ASSUME NEW k \in 1 .. 3 * Len(q)
        PROVE  \E i \in DOMAIN q :
                   \/ k = 3 * i - 2 /\ p[k] = XM("buffer", q[i])
                   \/ k = 3 * i - 1 /\ p[k] = Call(op, a, q[i])
                   \/ k = 3 * i /\ p[k] = Call(op, c, q[i])
    <2>. DEFINE i == (k + 2) \div 3
    <2>1. /\ i \in 1 .. Len(q)
          /\ \/ k = 3 * i - 2 /\ (k + 2) % 3 = 0
             \/ k = 3 * i - 1 /\ (k + 2) % 3 = 1
             \/ k = 3 * i /\ (k + 2) % 3 = 2
      BY <1>0, Thirds
    <2>2. p[k] = e(i)[((k + 2) % 3) + 1]
      BY <1>1
    <2>. HIDE DEF i
    <2>3. i \in DOMAIN q
      BY <1>0, <2>1
    <2>. QED
      BY <1>2, <2>1, <2>2, <2>3
  <1>4. ASSUME NEW i \in DOMAIN q
        PROVE  /\ p[3 * i - 2] = XM("buffer", q[i])
               /\ p[3 * i - 1] = Call(op, a, q[i])
               /\ p[3 * i] = Call(op, c, q[i])
    <2>0. i \in Nat /\ i > 0 /\ i <= Len(q)
      BY <1>0
    <2>1. 3 * i - 2 \in 1 .. 3 * Len(q) /\ 3 * i - 1 \in 1 .. 3 * Len(q) /\ 3 * i \in 1 .. 3 * Len(q)
      BY <1>0, <2>0
    <2>2. /\ p[3 * i - 2] = e((3 * i - 2 + 2) \div 3)[((3 * i - 2 + 2) % 3) + 1]
          /\ p[3 * i - 1] = e((3 * i - 1 + 2) \div 3)[((3 * i - 1 + 2) % 3) + 1]
          /\ p[3 * i] = e((3 * i + 2) \div 3)[((3 * i + 2) % 3) + 1]
      BY <1>1, <2>1
    <2>3. p[3 * i - 2] = e(i)[0 + 1] /\ p[3 * i - 1] = e(i)[1 + 1] /\ p[3 * i] = e(i)[2 + 1]
      BY <2>0, <2>2, Triples
    <2>. QED
      BY <1>2, <2>3
  <1>. QED
    BY <1>1, <1>3, <1>4 DEF p

LEMMA EncodingLegal ==
    ASSUME NEW q \in Seq(Nat), IsInjective(q), NEW op \in Releases,
           NEW a \in Kinds \ BatchBlockKinds, NEW c \in Kinds \ BatchBlockKinds, a # c, NEW H,
           \A n \in Range(q) : /\ [kind |-> "buffer", of |-> n] \notin H
                               /\ [kind |-> a, of |-> n] \in H /\ [kind |-> c, of |-> n] \in H
    PROVE  /\ Legal(H, Encoding(q, op, a, c))
           /\ \A b : b \in Allocated(Encoding(q, op, a, c))
                       <=> \E n \in Range(q) : b = [kind |-> "buffer", of |-> n]
           /\ \A b : b \in Freed(Encoding(q, op, a, c))
                       <=> \E n \in Range(q) : b \in {[kind |-> a, of |-> n], [kind |-> c, of |-> n]}
  <1>. DEFINE p == Encoding(q, op, a, c)
  <1>1. /\ DOMAIN p = 1 .. 3 * Len(q)
        /\ \A k \in DOMAIN p :
             \E i \in DOMAIN q :
                \/ k = 3 * i - 2 /\ p[k] = XM("buffer", q[i])
                \/ k = 3 * i - 1 /\ p[k] = Call(op, a, q[i])
                \/ k = 3 * i /\ p[k] = Call(op, c, q[i])
        /\ \A i \in DOMAIN q :
             /\ p[3 * i - 2] = XM("buffer", q[i])
             /\ p[3 * i - 1] = Call(op, a, q[i])
             /\ p[3 * i] = Call(op, c, q[i])
    BY Encoded
  <1>2. /\ DOMAIN q = 1 .. Len(q) /\ Len(q) \in Nat
        /\ \A i \in DOMAIN q : q[i] \in Nat /\ q[i] \in Range(q)
    BY DEF Range
  <1>3. "buffer" \in Kinds /\ a \in Kinds /\ c \in Kinds /\ "buffer" # "other" /\ a # "buffer" /\ c # "buffer"
    BY DEF Kinds, BatchBlockKinds
  <1>4. \A i \in DOMAIN q :
          /\ XM("buffer", q[i]) \in Calls /\ Takes(XM("buffer", q[i]))
          /\ XM("buffer", q[i]).block = [kind |-> "buffer", of |-> q[i]]
          /\ Call(op, a, q[i]) \in Calls /\ ~Takes(Call(op, a, q[i]))
          /\ Call(op, a, q[i]).block = [kind |-> a, of |-> q[i]]
          /\ Call(op, c, q[i]) \in Calls /\ ~Takes(Call(op, c, q[i]))
          /\ Call(op, c, q[i]).block = [kind |-> c, of |-> q[i]]
    BY <1>2, <1>3, CallFacts
  <1>. HIDE DEF p
  <1>5. \A k \in DOMAIN p : \E i \in DOMAIN q :
          p[k] \in {XM("buffer", q[i]), Call(op, a, q[i]), Call(op, c, q[i])}
    BY <1>1
  <1>6. p \in Seq(Calls)
    <2>1. p = [k \in 1 .. 3 * Len(q) |-> p[k]]
      BY <1>1 DEF p, Encoding
    <2>2. 3 * Len(q) \in Nat
      BY <1>2
    <2>3. ASSUME NEW k \in DOMAIN p PROVE p[k] \in Calls
      <3>1. PICK i \in DOMAIN q : p[k] \in {XM("buffer", q[i]), Call(op, a, q[i]), Call(op, c, q[i])}
        BY <1>5
      <3>2. XM("buffer", q[i]) \in Calls /\ Call(op, a, q[i]) \in Calls /\ Call(op, c, q[i]) \in Calls
        BY <1>4
      <3>. QED
        BY <3>1, <3>2
    <2>4. DOMAIN p = 1 .. 3 * Len(q)
      BY <1>1
    <2>. QED
      BY <2>1, <2>2, <2>3, <2>4
  <1>7. ASSUME NEW k \in DOMAIN p
        PROVE  /\ Takes(p[k]) => p[k].block \notin H \cup {Other}
               /\ ~Takes(p[k]) => p[k].block \in H
    <2>1. PICK i \in DOMAIN q : p[k] \in {XM("buffer", q[i]), Call(op, a, q[i]), Call(op, c, q[i])}
      BY <1>5
    <2>2. q[i] \in Range(q)
      BY <1>2
    <2>3. [kind |-> "buffer", of |-> q[i]] # Other
      BY <1>3 DEF Other
    <2>4. CASE p[k] = XM("buffer", q[i])
      <3>1. Takes(p[k]) /\ p[k].block = [kind |-> "buffer", of |-> q[i]]
        BY <1>4, <2>4
      <3>. QED
        BY <2>2, <2>3, <3>1
    <2>5. CASE p[k] \in {Call(op, a, q[i]), Call(op, c, q[i])}
      <3>1. ~Takes(p[k]) /\ p[k].block \in {[kind |-> a, of |-> q[i]], [kind |-> c, of |-> q[i]]}
        BY <1>4, <2>5
      <3>. QED
        BY <2>2, <3>1
    <2>. QED
      BY <2>1, <2>4, <2>5
  <1>8. ASSUME NEW k \in DOMAIN p, NEW l \in DOMAIN p, Same(p[k], p[l])
        PROVE  k = l
    <2>1. PICK i \in DOMAIN q :
                \/ k = 3 * i - 2 /\ p[k] = XM("buffer", q[i])
                \/ k = 3 * i - 1 /\ p[k] = Call(op, a, q[i])
                \/ k = 3 * i /\ p[k] = Call(op, c, q[i])
      BY <1>1
    <2>2. PICK j \in DOMAIN q :
                \/ l = 3 * j - 2 /\ p[l] = XM("buffer", q[j])
                \/ l = 3 * j - 1 /\ p[l] = Call(op, a, q[j])
                \/ l = 3 * j /\ p[l] = Call(op, c, q[j])
      BY <1>1
    <2>3. ASSUME NEW z \in DOMAIN p, NEW h \in DOMAIN q
          PROVE  /\ p[z] = XM("buffer", q[h]) =>
                      Takes(p[z]) /\ p[z].block.of = q[h] /\ p[z].block.kind = "buffer"
                 /\ p[z] = Call(op, a, q[h]) =>
                      ~Takes(p[z]) /\ p[z].block.of = q[h] /\ p[z].block.kind = a
                 /\ p[z] = Call(op, c, q[h]) =>
                      ~Takes(p[z]) /\ p[z].block.of = q[h] /\ p[z].block.kind = c
      <3>1. /\ Takes(XM("buffer", q[h])) /\ XM("buffer", q[h]).block = [kind |-> "buffer", of |-> q[h]]
            /\ ~Takes(Call(op, a, q[h])) /\ Call(op, a, q[h]).block = [kind |-> a, of |-> q[h]]
            /\ ~Takes(Call(op, c, q[h])) /\ Call(op, c, q[h]).block = [kind |-> c, of |-> q[h]]
        BY <1>4
      <3>. QED
        BY <3>1
    <2>4. p[k].block = p[l].block /\ (Takes(p[k]) <=> Takes(p[l]))
      BY <1>8 DEF Same
    <2>5. p[k].block.of = q[i] /\ p[l].block.of = q[j]
      BY <2>1, <2>2, <2>3
    <2>6. i = j
      BY <2>4, <2>5 DEF IsInjective
    <2>7. CASE p[k] = XM("buffer", q[i]) /\ k = 3 * i - 2
      BY <2>2, <2>3, <2>4, <2>6, <2>7
    <2>8. CASE p[k] = Call(op, a, q[i]) /\ k = 3 * i - 1
      <3>1. ~Takes(p[l]) /\ p[l].block.kind = a
        BY <2>3, <2>4, <2>8
      <3>2. p[l] # XM("buffer", q[j]) /\ p[l] # Call(op, c, q[j])
        BY <2>3, <3>1
      <3>. QED
        BY <2>2, <2>6, <2>8, <3>2
    <2>9. CASE p[k] = Call(op, c, q[i]) /\ k = 3 * i
      BY <2>2, <2>3, <2>4, <2>6, <2>9
    <2>. QED
      BY <2>1, <2>7, <2>8, <2>9
  <1>9. ASSUME NEW b
        PROVE  /\ b \in Allocated(p) <=> \E n \in Range(q) : b = [kind |-> "buffer", of |-> n]
               /\ b \in Freed(p)
                    <=> \E n \in Range(q) : b \in {[kind |-> a, of |-> n], [kind |-> c, of |-> n]}
    <2>0. \A i \in DOMAIN q : \E k, l, m \in DOMAIN p :
            p[k] = XM("buffer", q[i]) /\ p[l] = Call(op, a, q[i]) /\ p[m] = Call(op, c, q[i])
      <3>. SUFFICES ASSUME NEW i \in DOMAIN q
                    PROVE  3 * i - 2 \in DOMAIN p /\ 3 * i - 1 \in DOMAIN p /\ 3 * i \in DOMAIN p
        BY <1>1
      <3>1. DOMAIN p = 1 .. 3 * Len(q)
        BY <1>1
      <3>. QED
        BY <1>2, <3>1
    <2>1. ASSUME NEW k \in DOMAIN p
          PROVE  /\ Takes(p[k]) => \E n \in Range(q) : p[k].block = [kind |-> "buffer", of |-> n]
                 /\ ~Takes(p[k]) => \E n \in Range(q) :
                       p[k].block \in {[kind |-> a, of |-> n], [kind |-> c, of |-> n]}
      <3>1. PICK i \in DOMAIN q : p[k] \in {XM("buffer", q[i]), Call(op, a, q[i]), Call(op, c, q[i])}
        BY <1>5
      <3>2. q[i] \in Range(q)
        BY <1>2
      <3>3. CASE p[k] = XM("buffer", q[i])
        BY <1>4, <3>2, <3>3
      <3>4. CASE p[k] = Call(op, a, q[i])
        BY <1>4, <3>2, <3>4
      <3>5. CASE p[k] = Call(op, c, q[i])
        BY <1>4, <3>2, <3>5
      <3>. QED
        BY <3>1, <3>3, <3>4, <3>5
    <2>2. ASSUME NEW n \in Range(q)
          PROVE  /\ [kind |-> "buffer", of |-> n] \in Allocated(p)
                 /\ [kind |-> a, of |-> n] \in Freed(p) /\ [kind |-> c, of |-> n] \in Freed(p)
      <3>1. PICK i \in DOMAIN q : n = q[i]
        BY DEF Range
      <3>2. PICK k, l, m \in DOMAIN p :
              p[k] = XM("buffer", q[i]) /\ p[l] = Call(op, a, q[i]) /\ p[m] = Call(op, c, q[i])
        BY <2>0
      <3>3. /\ Takes(p[k]) /\ p[k].block = [kind |-> "buffer", of |-> n]
            /\ ~Takes(p[l]) /\ p[l].block = [kind |-> a, of |-> n]
            /\ ~Takes(p[m]) /\ p[m].block = [kind |-> c, of |-> n]
        BY <1>4, <3>1, <3>2
      <3>. QED
        BY <3>3, Members
    <2>. QED
      <3>1. ASSUME b \in Allocated(p) PROVE \E n \in Range(q) : b = [kind |-> "buffer", of |-> n]
        <4>1. PICK k \in DOMAIN p : Takes(p[k]) /\ p[k].block = b
          BY <3>1, Members
        <4>. QED
          BY <2>1, <4>1
      <3>2. ASSUME b \in Freed(p)
            PROVE  \E n \in Range(q) : b \in {[kind |-> a, of |-> n], [kind |-> c, of |-> n]}
        <4>1. PICK k \in DOMAIN p : ~Takes(p[k]) /\ p[k].block = b
          BY <3>2, Members
        <4>. QED
          BY <2>1, <4>1
      <3>3. (\E n \in Range(q) : b = [kind |-> "buffer", of |-> n]) => b \in Allocated(p)
        BY <2>2
      <3>4. (\E n \in Range(q) : b \in {[kind |-> a, of |-> n], [kind |-> c, of |-> n]})
              => b \in Freed(p)
        BY <2>2
      <3>. QED
        BY <3>1, <3>2, <3>3, <3>4
  <1>10. Legal(H, p)
    BY <1>6, <1>7, <1>8 DEF Legal
  <1>. QED
    BY <1>9, <1>10 DEF p

LEMMA KeptIn ==
    ASSUME NEW H, NEW p, Legal(H, p)
    PROVE  /\ Allocated(p) \subseteq Blocks
           /\ H \subseteq Blocks => Kept(H, p) \subseteq Blocks
           /\ \A b : b \in Kept(H, p) <=> (b \in H \/ b \in Allocated(p)) /\ b \notin Freed(p)
  <1>1. Allocated(p) \subseteq Blocks
    <2>. SUFFICES ASSUME NEW i \in DOMAIN p PROVE p[i].block \in Blocks
      BY DEF Allocated
    <2>1. p \in Seq(Calls)
      BY DEF Legal
    <2>2. p[i] \in Calls
      BY <2>1
    <2>. QED
      BY <2>2 DEF Calls
  <1>2. ASSUME NEW b PROVE b \in Kept(H, p) <=> (b \in H \/ b \in Allocated(p)) /\ b \notin Freed(p)
    BY DEF Kept
  <1>. QED
    BY <1>1, <1>2

LEMMA OneTaken ==
    ASSUME NEW H, NEW kind \in Kinds \ {"other"}, NEW n \in Nat, [kind |-> kind, of |-> n] \notin H
    PROVE  /\ Legal(H, <<XM(kind, n)>>)
           /\ \A b : b \in Allocated(<<XM(kind, n)>>) <=> b = [kind |-> kind, of |-> n]
           /\ \A b : b \in Kept(H, <<XM(kind, n)>>) <=> b \in H \/ b = [kind |-> kind, of |-> n]
  <1>. DEFINE p == <<XM(kind, n)>>
  <1>1. p \in Seq(Calls) /\ DOMAIN p = {1} /\ p[1] = XM(kind, n)
    BY DEF XM, Calls, Blocks
  <1>2. Takes(p[1]) /\ p[1].block = [kind |-> kind, of |-> n] /\ p[1].block # Other
    BY <1>1 DEF XM, Takes, Other
  <1>. HIDE DEF p
  <1>3. Allocated(p) = {[kind |-> kind, of |-> n]} /\ Freed(p) = {}
    BY <1>1, <1>2 DEF Allocated, Freed
  <1>4. Legal(H, p)
    BY <1>1, <1>2 DEF Legal
  <1>. QED
    BY <1>3, <1>4 DEF p, Kept

LEMMA WriteTaken ==
    ASSUME NEW H, NEW n \in Nat,
           [kind |-> "w_req", of |-> n] \notin H, [kind |-> "wctx", of |-> n] \notin H
    PROVE  /\ Legal(H, <<XM("w_req", n), XM("wctx", n)>>)
           /\ \A b : b \in Allocated(<<XM("w_req", n), XM("wctx", n)>>)
                       <=> b = [kind |-> "w_req", of |-> n] \/ b = [kind |-> "wctx", of |-> n]
           /\ \A b : b \in Kept(H, <<XM("w_req", n), XM("wctx", n)>>)
                       <=> b \in H \/ b = [kind |-> "w_req", of |-> n] \/ b = [kind |-> "wctx", of |-> n]
  <1>. DEFINE p == <<XM("w_req", n), XM("wctx", n)>>
  <1>1. /\ p \in Seq(Calls) /\ DOMAIN p = {1, 2}
        /\ p[1] = XM("w_req", n) /\ p[2] = XM("wctx", n)
    BY DEF XM, Calls, Blocks, Kinds
  <1>2. /\ Takes(p[1]) /\ p[1].block = [kind |-> "w_req", of |-> n] /\ p[1].block # Other
        /\ Takes(p[2]) /\ p[2].block = [kind |-> "wctx", of |-> n] /\ p[2].block # Other
        /\ p[1].block # p[2].block
    BY <1>1 DEF XM, Takes, Other
  <1>. HIDE DEF p
  <1>3. /\ Allocated(p) = {[kind |-> "w_req", of |-> n], [kind |-> "wctx", of |-> n]}
        /\ Freed(p) = {}
    BY <1>1, <1>2 DEF Allocated, Freed
  <1>4. Legal(H, p)
    BY <1>1, <1>2 DEF Legal, Same
  <1>. QED
    BY <1>3, <1>4 DEF p, Kept

\* An empty queue leaves nothing ...
LEMMA NothingWritten ==
    ASSUME NEW H, [kind |-> "bufs", of |-> 0] \notin H, NEW op \in Releases, NEW a, NEW c
    PROVE  /\ Legal(H, Writing(<<>>, op, a, c)) /\ Kept(H, Writing(<<>>, op, a, c)) = H
           /\ Allocated(Writing(<<>>, op, a, c)) = {[kind |-> "bufs", of |-> 0]}
  <1>. DEFINE p == <<XM("bufs", 0), Call(op, "bufs", 0)>>
              b == [kind |-> "bufs", of |-> 0]
  <1>0. Writing(<<>>, op, a, c) = p
    BY DEF Writing
  <1>1. p \in Seq(Calls) /\ DOMAIN p = {1, 2} /\ p[1] = XM("bufs", 0) /\ p[2] = Call(op, "bufs", 0)
    BY DEF XM, Call, Calls, Blocks, Releases, Kinds
  <1>2. Takes(p[1]) /\ p[1].block = b /\ b # Other /\ ~Takes(p[2]) /\ p[2].block = b
    BY <1>1 DEF XM, Call, Takes, Other, Releases
  <1>. HIDE DEF p, b
  <1>3. Allocated(p) = {b} /\ Freed(p) = {b}
    BY <1>1, <1>2 DEF Allocated, Freed
  <1>4. Legal(H, p)
    BY <1>1, <1>2 DEF Legal, Same, b
  <1>. QED
    BY <1>0, <1>3, <1>4 DEF b, Kept

\* ... a queue with requests leaves the blocks of a batch in place of theirs ...
LEMMA BatchMade ==
    ASSUME NEW q \in Seq(Nat), q # <<>>, IsInjective(q), NEW op \in Releases,
           NEW a \in Kinds \ BatchBlockKinds, NEW c \in Kinds \ BatchBlockKinds, a # c,
           NEW H \in SUBSET Blocks,
           \A n \in Range(q) : [kind |-> a, of |-> n] \in H /\ [kind |-> c, of |-> n] \in H,
           \A b \in H : ~OfBatch(b, q)
    PROVE  /\ Legal(H, Writing(q, op, a, c))
           /\ \A b \in Allocated(Writing(q, op, a, c)) : b \in Blocks /\ OfBatch(b, q)
           /\ \A b \in Blocks : b \in Kept(H, Writing(q, op, a, c))
                <=> \/ b \in H /\ ~(b.kind \in {a, c} /\ b.of \in Range(q))
                    \/ OfBatch(b, q)
  <1>. DEFINE n1 == q[1]
              p1 == <<XM(Bufs(q), n1)>>
              p2 == Encoding(q, op, a, c)
              p3 == <<XM("w_req", n1), XM("wctx", n1)>>
              b1 == [kind |-> Bufs(q), of |-> n1]
              b2 == [kind |-> "w_req", of |-> n1]
              b3 == [kind |-> "wctx", of |-> n1]
              H1 == Kept(H, p1)
              H2 == Kept(H1, p2)
  <1>1. n1 \in Nat /\ n1 \in Range(q) /\ Range(q) \subseteq Nat
    BY DEF Range
  <1>2. /\ Bufs(q) \in {"bufs", "bufs_many"} /\ "bufs" \in Kinds /\ "bufs_many" \in Kinds
        /\ "w_req" \in Kinds /\ "wctx" \in Kinds /\ "buffer" \in Kinds
    BY DEF Bufs, Kinds
  <1>3. b1 \in Blocks /\ b2 \in Blocks /\ b3 \in Blocks /\ \A n \in Nat : [kind |-> "buffer", of |-> n] \in Blocks
    BY <1>1, <1>2 DEF Blocks
  <1>4. /\ \A b \in Blocks : OfBatch(b, q)
             <=> b \in {b1, b2, b3} \/ (\E n \in Range(q) : b = [kind |-> "buffer", of |-> n])
    BY <1>1, <1>2 DEF OfBatch, BatchKinds, Bufs, Blocks
  <1>5. Writing(q, op, a, c) = (p1 \o p2) \o p3
    BY DEF Writing
  <1>6. b1 \notin H /\ b2 \notin H /\ b3 \notin H /\ \A n \in Range(q) : [kind |-> "buffer", of |-> n] \notin H
    BY <1>1, <1>3, <1>4
  <1>. HIDE DEF n1, p2, b1, b2, b3
  <1>7. /\ Legal(H, p1) /\ \A b : b \in Allocated(p1) <=> b = b1
        /\ \A b : b \in Kept(H, p1) <=> b \in H \/ b = b1
    <2>1. Bufs(q) \in Kinds \ {"other"} /\ [kind |-> Bufs(q), of |-> n1] \notin H
      BY <1>2, <1>6 DEF b1
    <2>. QED
      BY <1>1, <2>1, OneTaken DEF b1
  <1>. HIDE DEF p1, p3, H1, H2
  <1>8. /\ Legal(H1, p2)
        /\ \A b : b \in Allocated(p2) <=> \E n \in Range(q) : b = [kind |-> "buffer", of |-> n]
        /\ \A b : b \in Freed(p2)
                    <=> \E n \in Range(q) : b \in {[kind |-> a, of |-> n], [kind |-> c, of |-> n]}
    <2>1. \A n \in Range(q) : [kind |-> "buffer", of |-> n] \notin H1
      BY <1>2, <1>6, <1>7 DEF b1, H1
    <2>2. \A n \in Range(q) : [kind |-> a, of |-> n] \in H1 /\ [kind |-> c, of |-> n] \in H1
      BY <1>7 DEF H1
    <2>. QED
      BY <2>1, <2>2, EncodingLegal DEF p2
  <1>9. /\ Legal(H, p1 \o p2) /\ Kept(H, p1 \o p2) = H2
        /\ \A b : b \in Allocated(p1 \o p2) <=> b = b1 \/ b \in Allocated(p2)
    <2>1. \A b \in Allocated(p2) : b \notin H /\ b \notin Allocated(p1)
      BY <1>2, <1>6, <1>7, <1>8 DEF b1
    <2>2. Legal(Kept(H, p1), p2)
      BY <1>8 DEF H1
    <2>. QED
      BY <1>7, <2>1, <2>2, Sequel DEF H1, H2
  <1>10. \A b : b \in H2 <=> (b \in H \/ b = b1 \/ b \in Allocated(p2)) /\ b \notin Freed(p2)
    BY <1>7, <1>8, KeptIn DEF H1, H2
  <1>11. /\ b2 \notin H2 /\ b3 \notin H2 /\ b2 # b1 /\ b3 # b1
         /\ b2 \notin Allocated(p2) /\ b3 \notin Allocated(p2)
    BY <1>2, <1>6, <1>8, <1>10 DEF b1, b2, b3
  <1>12. /\ Legal(H2, p3) /\ \A b : b \in Allocated(p3) <=> b = b2 \/ b = b3
         /\ \A b : b \in Kept(H2, p3) <=> b \in H2 \/ b = b2 \/ b = b3
    BY <1>1, <1>11, WriteTaken DEF p3, b2, b3
  <1>13. /\ Legal(H, (p1 \o p2) \o p3) /\ Kept(H, (p1 \o p2) \o p3) = Kept(H2, p3)
         /\ \A b : b \in Allocated((p1 \o p2) \o p3)
                     <=> b = b1 \/ b \in Allocated(p2) \/ b = b2 \/ b = b3
    <2>. DEFINE p12 == p1 \o p2
    <2>1. Legal(H, p12) /\ Kept(H, p12) = H2 /\ \A b : b \in Allocated(p12) <=> b = b1 \/ b \in Allocated(p2)
      BY <1>9
    <2>. HIDE DEF p12
    <2>2. \A b \in Allocated(p3) : b \notin H /\ b \notin Allocated(p12)
      BY <1>6, <1>11, <1>12, <2>1
    <2>3. Legal(Kept(H, p12), p3)
      BY <1>12, <2>1
    <2>4. /\ Legal(H, p12 \o p3) /\ Kept(H, p12 \o p3) = Kept(Kept(H, p12), p3)
          /\ \A b : b \in Allocated(p12 \o p3) <=> b \in Allocated(p12) \/ b \in Allocated(p3)
      BY <2>1, <2>2, <2>3, Sequel
    <2>. QED
      BY <1>12, <2>1, <2>4 DEF p12
  <1>14. \A b \in Allocated(Writing(q, op, a, c)) : b \in Blocks /\ OfBatch(b, q)
    <2>. SUFFICES ASSUME NEW b \in Allocated((p1 \o p2) \o p3)
                  PROVE  b \in Blocks /\ OfBatch(b, q)
      BY <1>5
    <2>1. b \in {b1, b2, b3} \/ (\E n \in Range(q) : b = [kind |-> "buffer", of |-> n])
      BY <1>8, <1>13
    <2>2. b \in Blocks
      BY <1>1, <1>3, <2>1
    <2>. QED
      BY <1>4, <2>1, <2>2
  <1>15. ASSUME NEW b \in Blocks
         PROVE  b \in Kept(H, Writing(q, op, a, c))
                  <=> \/ b \in H /\ ~(b.kind \in {a, c} /\ b.of \in Range(q))
                      \/ OfBatch(b, q)
    <2>1. b \in Freed(p2) <=> b.kind \in {a, c} /\ b.of \in Range(q)
      BY <1>8 DEF Blocks
    <2>2. b \in Freed(p2) => b \notin Allocated(p2) /\ b # b1 /\ b # b2 /\ b # b3
      BY <1>2, <2>1, <1>8 DEF b1, b2, b3, BatchBlockKinds
    <2>. QED
      BY <1>4, <1>5, <1>8, <1>10, <1>12, <1>13, <2>1, <2>2
  <1>. QED
    BY <1>5, <1>13, <1>14, <1>15

\* ... and the end of its write leaves nothing of it.
LEMMA BatchEnds ==
    ASSUME NEW q \in Seq(Nat), q # <<>>, IsInjective(q), NEW op \in Releases,
           NEW H \in SUBSET Blocks, \A b \in Blocks : OfBatch(b, q) => b \in H
    PROVE  /\ Legal(H, Written(q, op))
           /\ \A b \in Blocks : b \in Kept(H, Written(q, op)) <=> b \in H /\ ~OfBatch(b, q)
  <1>. DEFINE p1 == [k \in DOMAIN q |-> Call(op, "buffer", q[k])]
              n1 == q[1]
              p2 == <<Call(op, Bufs(q), n1), Call(op, "wctx", n1), Call(op, "w_req", n1)>>
              b1 == [kind |-> Bufs(q), of |-> n1]
              b2 == [kind |-> "w_req", of |-> n1]
              b3 == [kind |-> "wctx", of |-> n1]
              H1 == Kept(H, p1)
  <1>1. n1 \in Nat /\ n1 \in Range(q) /\ Range(q) \subseteq Nat
    BY DEF Range
  <1>2. /\ Bufs(q) \in {"bufs", "bufs_many"} /\ "bufs" \in Kinds /\ "bufs_many" \in Kinds
        /\ "w_req" \in Kinds /\ "wctx" \in Kinds /\ "buffer" \in Kinds
    BY DEF Bufs, Kinds
  <1>3. b1 \in Blocks /\ b2 \in Blocks /\ b3 \in Blocks /\ \A n \in Nat : [kind |-> "buffer", of |-> n] \in Blocks
    BY <1>1, <1>2 DEF Blocks
  <1>4. \A b \in Blocks : OfBatch(b, q)
          <=> b \in {b1, b2, b3} \/ (\E n \in Range(q) : b = [kind |-> "buffer", of |-> n])
    BY <1>1, <1>2 DEF OfBatch, BatchKinds, Bufs, Blocks
  <1>5. Written(q, op) = p1 \o p2
    BY DEF Written
  <1>6. b1 \in H /\ b2 \in H /\ b3 \in H /\ \A n \in Range(q) : [kind |-> "buffer", of |-> n] \in H
    BY <1>1, <1>3, <1>4
  <1>. HIDE DEF n1, b1, b2, b3
  <1>7. /\ DOMAIN p1 = DOMAIN q /\ p1 \in Seq(Calls)
        /\ \A k \in DOMAIN p1 : ~Takes(p1[k]) /\ p1[k].block = [kind |-> "buffer", of |-> q[k]]
    <2>1. DOMAIN q = 1 .. Len(q) /\ Len(q) \in Nat /\ \A k \in DOMAIN q : q[k] \in Nat
      OBVIOUS
    <2>2. \A k \in DOMAIN q : p1[k] = Call(op, "buffer", q[k]) /\ p1[k] \in Calls
      BY <1>2, <2>1, CallFacts
    <2>3. p1 \in Seq(Calls)
      BY <2>1, <2>2
    <2>. QED
      BY <1>2, <2>1, <2>2, <2>3, CallFacts
  <1>. HIDE DEF p1
  <1>8. /\ Allocated(p1) = {}
        /\ \A b : b \in Freed(p1) <=> \E n \in Range(q) : b = [kind |-> "buffer", of |-> n]
    <2>1. \A n : n \in Range(q) <=> \E k \in DOMAIN q : q[k] = n
      BY DEF Range
    <2>2. Allocated(p1) = {}
      BY <1>7 DEF Allocated
    <2>3. ASSUME NEW b PROVE b \in Freed(p1) <=> \E n \in Range(q) : b = [kind |-> "buffer", of |-> n]
      <3>1. b \in Freed(p1) <=> \E k \in DOMAIN p1 : ~Takes(p1[k]) /\ p1[k].block = b
        BY Members
      <3>2. b \in Freed(p1) <=> \E k \in DOMAIN q : b = [kind |-> "buffer", of |-> q[k]]
        BY <1>7, <3>1
      <3>. QED
        BY <2>1, <3>2
    <2>. QED
      BY <2>2, <2>3
  <1>9. Legal(H, p1)
    <2>1. \A k, l \in DOMAIN p1 : Same(p1[k], p1[l]) => k = l
      <3>. SUFFICES ASSUME NEW k \in DOMAIN p1, NEW l \in DOMAIN p1, Same(p1[k], p1[l])
                    PROVE  q[k] = q[l]
        BY <1>7 DEF IsInjective
      <3>1. [kind |-> "buffer", of |-> q[k]] = [kind |-> "buffer", of |-> q[l]]
        BY <1>7 DEF Same
      <3>. QED
        BY <3>1
    <2>2. \A k \in DOMAIN p1 : p1[k].block \in H
      BY <1>6, <1>7 DEF Range
    <2>. QED
      BY <1>7, <2>1, <2>2 DEF Legal
  <1>. HIDE DEF H1
  <1>10. \A b : b \in H1 <=> b \in H /\ b \notin Freed(p1)
    BY <1>8, <1>9, KeptIn DEF H1
  <1>11. b1 \in H1 /\ b2 \in H1 /\ b3 \in H1 /\ b1 # b2 /\ b1 # b3 /\ b2 # b3
    BY <1>2, <1>6, <1>8, <1>10 DEF b1, b2, b3
  <1>12. /\ p2 \in Seq(Calls) /\ DOMAIN p2 = 1 .. 3
         /\ p2[1].block = b1 /\ p2[2].block = b3 /\ p2[3].block = b2
         /\ ~Takes(p2[1]) /\ ~Takes(p2[2]) /\ ~Takes(p2[3])
    BY <1>1, <1>2, CallFacts DEF b1, b2, b3
  <1>. HIDE DEF p2
  <1>13. Legal(H1, p2) /\ Allocated(p2) = {} /\ Freed(p2) = {b1, b2, b3}
    <2>1. Allocated(p2) = {}
      BY <1>12 DEF Allocated
    <2>2. \A b : b \in Freed(p2) <=> b \in {b1, b2, b3}
      BY <1>12, Members
    <2>3. Legal(H1, p2)
      BY <1>11, <1>12 DEF Legal, Same
    <2>. QED
      BY <2>1, <2>2, <2>3
  <1>14. Legal(H, p1 \o p2) /\ Kept(H, p1 \o p2) = Kept(H1, p2)
    BY <1>8, <1>9, <1>13, Sequel DEF H1
  <1>15. \A b : b \in Kept(H1, p2) <=> b \in H1 /\ b \notin {b1, b2, b3}
    BY <1>13, KeptIn
  <1>. QED
    BY <1>4, <1>5, <1>8, <1>10, <1>14, <1>15

-----------------------------------------------------------------------------
\* The batches of the two agents differ in how blocks are released and in
\* what a request is made of.
LEMMA PaBatches ==
    ASSUME NEW q
    PROVE  /\ HandleQueue(q) = Writing(q, "free", "args", "dubbo_request")
           /\ DubboWriteCb(q) = Written(q, "free")
  BY DEF HandleQueue, DubboEncodeAll, DubboEncode, XM, Fr, DubboWriteCb,
         Writing, Written, Encoding, Call

LEMMA CaBatches ==
    ASSUME NEW q
    PROVE  /\ PaHandleQueue(q) = Writing(q, "x_free", "parameter", "request")
           /\ PaWriteCb(q) = Written(q, "x_free")
  BY DEF PaHandleQueue, ActEncodeAll, ActEncode, XM, XF, PaWriteCb,
         Writing, Written, Encoding, Call

-----------------------------------------------------------------------------
\* The other programs of the provider agent.
LEMMA PaAccepts ==
    ASSUME NEW H \in SUBSET Blocks,
           \A b \in H : b.kind \notin {"uv_tcp", "context"}
    PROVE  /\ Legal(H, Accepted)
           /\ \A b \in Blocks : b \in Kept(H, Accepted)
                <=> b \in H \/ (b.kind \in {"uv_tcp", "context"} /\ b.of = 0)
  <1>. DEFINE p == <<XM("uv_tcp", 0), XM("context", 0)>>
  <1>1. p = Accepted
    BY DEF Accepted, XM, XM
  <1>2. p \in Seq(Calls) /\ DOMAIN p = 1 .. 2
    BY DEF Calls, Blocks, Kinds, XM
  <1>3. \A i, j \in DOMAIN p : Same(p[i], p[j]) => i = j
    BY DEF Same, XM
  <1>4. Legal(H, p)
    BY <1>2, <1>3 DEF Legal, XM, Takes, Other
  <1>5. \A b : b \in Allocated(p) <=> b = [kind |-> "uv_tcp", of |-> 0] \/ b = [kind |-> "context", of |-> 0]
    BY <1>2, Members DEF XM, Takes
  <1>6. Freed(p) = {}
    BY <1>2 DEF Freed, XM, Takes
  <1>. QED
    BY <1>1, <1>4, <1>5, <1>6 DEF Kept, Blocks

LEMMA PaReadsHeader ==
    ASSUME NEW H \in SUBSET Blocks, \A b \in H : b.kind # "name"
    PROVE  /\ Legal(H, Header)
           /\ \A b \in Blocks : b \in Kept(H, Header) <=> b \in H \/ (b.kind = "name" /\ b.of \in 1 .. 3)
  <1>. DEFINE p == <<XM("name", 1), XM("name", 2), XM("name", 3)>>
  <1>1. p = Header
    BY DEF Header, XM, XM
  <1>2. p \in Seq(Calls) /\ DOMAIN p = 1 .. 3
    BY DEF Calls, Blocks, Kinds, XM
  <1>3. \A i, j \in DOMAIN p : Same(p[i], p[j]) => i = j
    BY DEF Same, XM
  <1>4. Legal(H, p)
    BY <1>2, <1>3 DEF Legal, XM, Takes, Other
  <1>5. \A b : b \in Allocated(p) <=> \/ b = [kind |-> "name", of |-> 1] \/ b = [kind |-> "name", of |-> 2]
                                     \/ b = [kind |-> "name", of |-> 3]
    BY <1>2, Members DEF XM, Takes
  <1>6. Freed(p) = {}
    BY <1>2 DEF Freed, XM, Takes
  <1>. QED
    BY <1>1, <1>4, <1>5, <1>6 DEF Kept, Blocks

LEMMA PaReadsParameter ==
    ASSUME NEW H \in SUBSET Blocks, NEW n \in Nat,
           \A b \in H : b.of = n => b.kind \notin {"args", "dubbo_request"}
    PROVE  /\ Legal(H, Parameter(n))
           /\ \A b \in Allocated(Parameter(n)) : b.kind \in {"args", "dubbo_request"} /\ b.of = n
           /\ \A b \in Blocks : b \in Kept(H, Parameter(n))
                <=> b \in H \/ (b.kind \in {"args", "dubbo_request"} /\ b.of = n)
  <1>. DEFINE p == <<XM("args", n), XM("dubbo_request", n)>>
  <1>1. p = Parameter(n)
    BY DEF Parameter, XM, XM
  <1>2. p \in Seq(Calls) /\ DOMAIN p = 1 .. 2
    BY DEF Calls, Blocks, Kinds, XM
  <1>3. \A i, j \in DOMAIN p : Same(p[i], p[j]) => i = j
    BY DEF Same, XM
  <1>4. Legal(H, p)
    BY <1>2, <1>3 DEF Legal, XM, Takes, Other
  <1>5. \A b : b \in Allocated(p) <=> b = [kind |-> "args", of |-> n] \/ b = [kind |-> "dubbo_request", of |-> n]
    BY <1>2, Members DEF XM, Takes
  <1>6. Freed(p) = {}
    BY <1>2 DEF Freed, XM, Takes
  <1>. QED
    BY <1>1, <1>4, <1>5, <1>6 DEF Kept, Blocks

LEMMA PaReplies ==
    ASSUME NEW H \in SUBSET Blocks, NEW n \in Nat,
           \A b \in H : b.of = n =>
              b.kind \notin {"result", "act_response", "buf", "base", "aw_req", "actx"}
    PROVE  /\ Legal(H, Reply(n))
           /\ \A b \in Blocks : b \in Kept(H, Reply(n))
                <=> b \in H \/ (b.kind \in {"base", "buf", "aw_req", "actx"} /\ b.of = n)
  <1>. DEFINE p == <<XM("result", n), XM("act_response", n), XM("buf", n), XM("base", n),
                     XF("result", n), XF("act_response", n), XM("aw_req", n), XM("actx", n)>>
  <1>1. p = Reply(n)
    BY DEF Reply, FreeActResponse, XM, XF, XM, XF
  <1>2. p \in Seq(Calls) /\ DOMAIN p = 1 .. 8
    BY DEF Calls, Blocks, Kinds, XM, XF
  <1>3. \A i, j \in DOMAIN p : Same(p[i], p[j]) => i = j
    BY DEF Same, XM, XF, Takes
  <1>4. Legal(H, p)
    BY <1>2, <1>3 DEF Legal, XM, XF, Takes, Other
  <1>5. \A b : b \in Allocated(p) <=>
          \/ b = [kind |-> "result", of |-> n] \/ b = [kind |-> "act_response", of |-> n]
          \/ b = [kind |-> "buf", of |-> n] \/ b = [kind |-> "base", of |-> n]
          \/ b = [kind |-> "aw_req", of |-> n] \/ b = [kind |-> "actx", of |-> n]
    BY <1>2, Members DEF XM, XF, Takes
  <1>6. \A b : b \in Freed(p) <=>
          b = [kind |-> "result", of |-> n] \/ b = [kind |-> "act_response", of |-> n]
    BY <1>2, Members DEF XM, XF, Takes
  <1>7. ASSUME NEW b \in Blocks
        PROVE  b \in Kept(H, p) <=> b \in H \/ (b.kind \in {"base", "buf", "aw_req", "actx"} /\ b.of = n)
    BY <1>5, <1>6 DEF Kept, Blocks
  <1>. QED
    BY <1>1, <1>4, <1>7

LEMMA PaReplyWritten ==
    ASSUME NEW H \in SUBSET Blocks, NEW n \in Nat,
           \A b \in Blocks : b.of = n /\ b.kind \in {"base", "buf", "aw_req", "actx"} => b \in H
    PROVE  /\ Legal(H, ActWriteCb(n))
           /\ \A b \in Blocks : b \in Kept(H, ActWriteCb(n))
                <=> b \in H /\ ~(b.kind \in {"base", "buf", "aw_req", "actx"} /\ b.of = n)
  <1>. DEFINE p == <<XF("base", n), XF("buf", n), XF("aw_req", n), XF("actx", n)>>
  <1>1. p = ActWriteCb(n)
    BY DEF ActWriteCb, XF, XF
  <1>2. p \in Seq(Calls) /\ DOMAIN p = 1 .. 4
    BY DEF Calls, Blocks, Kinds, XF
  <1>3. \A i, j \in DOMAIN p : Same(p[i], p[j]) => i = j
    BY DEF Same, XF
  <1>4. \A i \in DOMAIN p : p[i].block \in H /\ ~Takes(p[i])
    BY <1>2 DEF XF, Takes, Blocks, Kinds
  <1>5. Legal(H, p)
    BY <1>2, <1>3, <1>4 DEF Legal
  <1>6. \A b : b \in Freed(p) <=>
          \/ b = [kind |-> "base", of |-> n] \/ b = [kind |-> "buf", of |-> n]
          \/ b = [kind |-> "aw_req", of |-> n] \/ b = [kind |-> "actx", of |-> n]
    BY <1>2, Members DEF XF, Takes
  <1>7. Allocated(p) = {}
    BY <1>2 DEF Allocated, XF, Takes
  <1>8. ASSUME NEW b \in Blocks
        PROVE  b \in Kept(H, p) <=> b \in H /\ ~(b.kind \in {"base", "buf", "aw_req", "actx"} /\ b.of = n)
    BY <1>6, <1>7 DEF Kept, Blocks
  <1>. QED
    BY <1>1, <1>5, <1>8

-----------------------------------------------------------------------------
\* The provider agent: what it holds, or will when the running callback has
\* ended, is what the requests need, besides the blocks of the link and of
\* replies that could not be written.
PaRequestKinds == {"args", "dubbo_request"}
PaReplyKinds == {"base", "buf", "aw_req", "actx"}

PaUses(b) == Uses(b, queue, writes, replies, PaRequestKinds, PaReplyKinds)

PaLeft(b) ==
    \/ b.kind \in {"uv_tcp", "context"} /\ link # "new"
    \/ b.kind = "name" /\ link \notin {"new", "accepted"}
    \/ b.kind \in PaReplyKinds /\ b.of \in lost

PaLedger ==
    \A b \in Blocks :
        /\ PaUses(b) => b \in Kept(Mine, prog)
        /\ b \in Kept(Mine, prog) => PaUses(b) \/ PaLeft(b)

PaInv ==
    /\ PoolInv
    /\ Legal(Mine, prog)
    /\ Staged(queue, writes, running, replies, lost, came)
    /\ connected => queue = <<>>
    /\ PaLedger

LEMMA PaKinds ==
    /\ Apart(PaRequestKinds, PaReplyKinds)
    /\ PaRequestKinds \cap (BatchBlockKinds \cup PaReplyKinds) = {}
    /\ PaReplyKinds \cap BatchBlockKinds = {}
    /\ \A k \in PaRequestKinds \cup PaReplyKinds \cup BatchBlockKinds : k \in Kinds
    /\ \A k \in PaRequestKinds \cup PaReplyKinds \cup BatchBlockKinds :
          k # "uv_tcp" /\ k # "context" /\ k # "name"
  BY DEF Apart, PaRequestKinds, PaReplyKinds, BatchBlockKinds, Kinds

\* Between two callbacks the agent holds what the ledger says.
LEMMA PaAtRest ==
    ASSUME PaInv, prog = <<>>
    PROVE  /\ Mine \in SUBSET Blocks
           /\ \A b \in Blocks : PaUses(b) => b \in Mine
           /\ \A b \in Mine : PaUses(b) \/ PaLeft(b)
  <1>1. Mine \in SUBSET Blocks
    BY DEF PaInv, PoolInv, Mine
  <1>2. Kept(Mine, prog) = Mine
    BY AtEnd
  <1>. QED
    BY <1>1, <1>2 DEF PaInv, PaLedger

\* What it holds for a request is held for the stage the request is in.
LEMMA PaNotIn ==
    ASSUME PaInv, prog = <<>>, NEW b \in Mine, ~PaLeft(b)
    PROVE  /\ b.of \in Range(queue) \cup Sent(writes) \cup Range(replies)
           /\ PaUses(b)
           /\ b.kind \in PaRequestKinds \cup PaReplyKinds \cup BatchBlockKinds
  <1>1. PaUses(b)
    BY PaAtRest
  <1>2. Staged(queue, writes, running, replies, lost, came)
    BY DEF PaInv
  <1>. QED
    BY <1>1, <1>2, UsedIn DEF PaUses, BatchBlockKinds

LEMMA PaCallbackStep ==
    ASSUME PaInv, NEW p, Run(p), Legal(Mine, p),
           Staged(queue', writes', running', replies', lost', came'),
           connected' => queue' = <<>>,
           \A b \in Blocks : /\ PaUses(b)' => b \in Kept(Mine, p)
                             /\ b \in Kept(Mine, p) => PaUses(b)' \/ PaLeft(b)'
    PROVE  PaInv'
  <1>1. PoolInv' /\ Mine' = Mine /\ prog' = p
    BY PoolRun DEF PaInv
  <1>2. Legal(Mine', prog') /\ Kept(Mine', prog') = Kept(Mine, p)
    BY <1>1
  <1>3. PaLedger'
    BY <1>2 DEF PaLedger
  <1>. QED
    BY <1>1, <1>2, <1>3 DEF PaInv

\* on_conn: the link has nothing yet.
LEMMA PaOnConnStep ==
    ASSUME PaInv, OnConn
    PROVE  PaInv'
  <1>1. /\ Run(Accepted) /\ prog = <<>> /\ link = "new" /\ link' = "accepted"
        /\ UNCHANGED <<connected, queue, writes, running, replies, came, lost>>
    BY DEF OnConn, Run
  <1>2. Mine \in SUBSET Blocks
    BY <1>1, PaAtRest
  <1>3. \A b \in Mine : b.kind \notin {"uv_tcp", "context"}
    <2>. SUFFICES ASSUME NEW b \in Mine, b.kind \in {"uv_tcp", "context"}
                  PROVE  FALSE
      OBVIOUS
    <2>1. ~PaLeft(b)
      BY <1>1, PaKinds DEF PaLeft
    <2>2. b.kind \in PaRequestKinds \cup PaReplyKinds \cup BatchBlockKinds
      BY <1>1, <2>1, PaNotIn
    <2>. QED
      BY <2>2, PaKinds
  <1>4. /\ Legal(Mine, Accepted)
        /\ \A b \in Blocks : b \in Kept(Mine, Accepted)
             <=> b \in Mine \/ (b.kind \in {"uv_tcp", "context"} /\ b.of = 0)
    BY <1>2, <1>3, PaAccepts
  <1>5. ASSUME NEW b \in Blocks
        PROVE  /\ PaUses(b)' => b \in Kept(Mine, Accepted)
               /\ b \in Kept(Mine, Accepted) => PaUses(b)' \/ PaLeft(b)'
    <2>1. (PaUses(b)' <=> PaUses(b)) /\ (PaLeft(b) => PaLeft(b)')
      BY <1>1 DEF PaUses, PaLeft
    <2>2. b.kind \in {"uv_tcp", "context"} => PaLeft(b)'
      BY <1>1 DEF PaLeft
    <2>. QED
      BY <1>1, <1>4, <2>1, <2>2, PaAtRest
  <1>. QED
    BY <1>1, <1>4, <1>5, PaCallbackStep DEF PaInv

\* on_read, the header: the link has no names yet.
LEMMA PaOnReadHeader ==
    ASSUME PaInv, OnReadHeader
    PROVE  PaInv'
  <1>1. /\ Run(Header) /\ prog = <<>> /\ link = "accepted" /\ link' = "keyed"
        /\ UNCHANGED <<connected, queue, writes, running, replies, came, lost>>
    BY DEF OnReadHeader, Run
  <1>2. Mine \in SUBSET Blocks
    BY <1>1, PaAtRest
  <1>3. \A b \in Mine : b.kind # "name"
    <2>. SUFFICES ASSUME NEW b \in Mine, b.kind = "name"
                  PROVE  FALSE
      OBVIOUS
    <2>1. ~PaLeft(b)
      BY <1>1, PaKinds DEF PaLeft
    <2>2. b.kind \in PaRequestKinds \cup PaReplyKinds \cup BatchBlockKinds
      BY <1>1, <2>1, PaNotIn
    <2>. QED
      BY <2>2, PaKinds
  <1>4. /\ Legal(Mine, Header)
        /\ \A b \in Blocks : b \in Kept(Mine, Header) <=> b \in Mine \/ (b.kind = "name" /\ b.of \in 1 .. 3)
    BY <1>2, <1>3, PaReadsHeader
  <1>5. ASSUME NEW b \in Blocks
        PROVE  /\ PaUses(b)' => b \in Kept(Mine, Header)
               /\ b \in Kept(Mine, Header) => PaUses(b)' \/ PaLeft(b)'
    <2>1. (PaUses(b)' <=> PaUses(b)) /\ (PaLeft(b) => PaLeft(b)')
      BY <1>1 DEF PaUses, PaLeft
    <2>2. b.kind = "name" => PaLeft(b)'
      BY <1>1 DEF PaLeft
    <2>. QED
      BY <1>1, <1>4, <2>1, <2>2, PaAtRest
  <1>. QED
    BY <1>1, <1>4, <1>5, PaCallbackStep DEF PaInv

\* on_read, a read error: what the link had stays.
LEMMA PaOnReadErr ==
    ASSUME PaInv, OnReadErr
    PROVE  PaInv'
  <1>1. /\ Run(<<>>) /\ prog = <<>> /\ link' = "closed" /\ link # "new"
        /\ UNCHANGED <<connected, queue, writes, running, replies, came, lost>>
    BY DEF OnReadErr, Run
  <1>2. Legal(Mine, <<>>) /\ Kept(Mine, <<>>) = Mine
    BY AtEnd
  <1>3. ASSUME NEW b \in Blocks
        PROVE  /\ PaUses(b)' => b \in Kept(Mine, <<>>)
               /\ b \in Kept(Mine, <<>>) => PaUses(b)' \/ PaLeft(b)'
    <2>1. (PaUses(b)' <=> PaUses(b)) /\ (PaLeft(b) => PaLeft(b)')
      BY <1>1 DEF PaUses, PaLeft
    <2>. QED
      BY <1>1, <1>2, <2>1, PaAtRest
  <1>. QED
    BY <1>1, <1>2, <1>3, PaCallbackStep DEF PaInv

\* on_read, a request that waits ...
LEMMA PaOnReadQueued ==
    ASSUME PaInv, OnRead, ~connected
    PROVE  PaInv'
  <1>. DEFINE n == came + 1
              p == Parameter(n)
  <1>1. /\ Run(p) /\ prog = <<>> /\ queue' = Append(queue, n) /\ came' = n
        /\ UNCHANGED <<connected, writes, running, replies, link, lost>>
    BY DEF OnRead, Run
  <1>2. Staged(queue, writes, running, replies, lost, came)
    BY DEF PaInv
  <1>3. /\ Staged(queue', writes', running', replies', lost', came') /\ n \in Nat
        /\ n \notin Range(queue) \cup Sent(writes) \cup running \cup Range(replies) \cup lost
    <2>1. /\ Staged(Append(queue, came + 1), writes, running, replies, lost, came + 1)
          /\ came + 1 \notin Range(queue) \cup Sent(writes) \cup running \cup Range(replies) \cup lost
      BY <1>2, Arrives
    <2>2. came + 1 \in Nat
      BY <1>2 DEF Staged
    <2>. QED
      BY <1>1, <2>1, <2>2
  <1>. HIDE DEF n, p
  <1>4. Mine \in SUBSET Blocks
    BY <1>1, PaAtRest
  <1>5. \A b \in Mine : b.of = n => b.kind \notin PaRequestKinds
    <2>. SUFFICES ASSUME NEW b \in Mine, b.of = n, b.kind \in PaRequestKinds
                  PROVE  FALSE
      OBVIOUS
    <2>1. ~PaLeft(b)
      BY PaKinds DEF PaLeft
    <2>. QED
      BY <1>1, <1>3, <2>1, PaNotIn
  <1>6. /\ Legal(Mine, p)
        /\ \A b \in Blocks : b \in Kept(Mine, p)
             <=> b \in Mine \/ (b.kind \in PaRequestKinds /\ b.of = n)
    BY <1>3, <1>4, <1>5, PaReadsParameter DEF p, PaRequestKinds
  <1>7. ASSUME NEW b \in Blocks
        PROVE  /\ PaUses(b)' => b \in Kept(Mine, p)
               /\ b \in Kept(Mine, p) => PaUses(b)' \/ PaLeft(b)'
    <2>1. PaLeft(b)' <=> PaLeft(b)
      BY <1>1 DEF PaLeft
    <2>2. PaUses(b)' <=> PaUses(b) \/ (b.kind \in PaRequestKinds /\ b.of = n)
      BY <1>1, <1>2, UsesArrives DEF PaUses, n
    <2>. QED
      BY <1>1, <1>6, <2>1, <2>2, PaAtRest
  <1>. QED
    BY <1>1, <1>3, <1>6, <1>7, PaCallbackStep DEF PaInv

\* ... and one that is written at once.
LEMMA PaOnReadWritten ==
    ASSUME PaInv, OnRead, connected
    PROVE  PaInv'
  <1>. DEFINE n == came + 1
              q == <<n>>
              p1 == Parameter(n)
              p2 == Writing(q, "free", "args", "dubbo_request")
              H1 == Kept(Mine, p1)
  <1>0. Staged(queue, writes, running, replies, lost, came) /\ came \in Nat
    BY DEF PaInv, Staged
  <1>1. /\ Run(p1 \o p2) /\ prog = <<>> /\ queue = <<>> /\ writes' = Append(writes, q) /\ came' = n
        /\ UNCHANGED <<connected, queue, running, replies, link, lost>>
    BY PaBatches DEF OnRead, Run, PaInv
  <1>2. /\ q \in Seq(Nat) /\ q # <<>> /\ IsInjective(q) /\ Range(q) = {n} /\ n \in Nat
        /\ Append(queue, n) = q
    BY <1>0, <1>1 DEF IsInjective, Range
  <1>3. /\ Staged(q, writes, running, replies, lost, n)
        /\ n \notin Range(queue) \cup Sent(writes) \cup running \cup Range(replies) \cup lost
    <2>1. /\ Staged(Append(queue, came + 1), writes, running, replies, lost, came + 1)
          /\ came + 1 \notin Range(queue) \cup Sent(writes) \cup running \cup Range(replies) \cup lost
      BY <1>0, Arrives
    <2>. QED
      BY <1>2, <2>1
  <1>4. ASSUME NEW b
        PROVE  Uses(b, q, writes, replies, PaRequestKinds, PaReplyKinds)
                 <=> PaUses(b) \/ (b.kind \in PaRequestKinds /\ b.of = n)
    <2>1. Uses(b, Append(queue, came + 1), writes, replies, PaRequestKinds, PaReplyKinds)
            <=> PaUses(b) \/ (b.kind \in PaRequestKinds /\ b.of = came + 1)
      BY <1>0, UsesArrives DEF PaUses
    <2>. QED
      BY <1>2, <2>1
  <1>. HIDE DEF n, q, p1, p2, H1
  <1>5. Staged(<<>>, Append(writes, q), running, replies, lost, n)
    BY <1>2, <1>3, Flushed
  <1>6. Mine \in SUBSET Blocks
    BY <1>1, PaAtRest
  <1>7. ASSUME NEW b \in Mine, b.of = n
        PROVE  b.kind \in {"uv_tcp", "context", "name"}
    <2>1. PaLeft(b)
      BY <1>1, <1>3, <1>7, PaNotIn
    <2>. QED
      BY <1>3, <1>7, <2>1 DEF PaLeft
  <1>8. /\ Legal(Mine, p1)
        /\ \A b \in Allocated(p1) : b.kind \in PaRequestKinds /\ b.of = n
        /\ \A b \in Blocks : b \in H1 <=> b \in Mine \/ (b.kind \in PaRequestKinds /\ b.of = n)
    BY <1>2, <1>6, <1>7, PaReadsParameter DEF p1, H1, PaRequestKinds
  <1>9. H1 \in SUBSET Blocks
    BY <1>6, <1>8, KeptIn DEF H1
  <1>10. \A b \in H1 : ~OfBatch(b, q)
    <2>. SUFFICES ASSUME NEW b \in H1, OfBatch(b, q)
                  PROVE  FALSE
      OBVIOUS
    <2>1. b.of = n /\ b.kind \in BatchBlockKinds
      <3>1. q \in Seq(1 .. n) \ {<<>>}
        BY <1>2, <1>3 DEF Staged
      <3>. QED
        BY <1>2, <3>1, BatchIn DEF BatchBlockKinds
    <2>. QED
      BY <1>7, <1>8, <1>9, <2>1, PaKinds
  <1>11. /\ Legal(H1, p2)
         /\ \A b \in Allocated(p2) : b \in Blocks /\ OfBatch(b, q)
         /\ \A b \in Blocks : b \in Kept(H1, p2)
              <=> (b \in H1 /\ ~(b.kind \in PaRequestKinds /\ b.of \in Range(q))) \/ OfBatch(b, q)
    <2>1. [kind |-> "args", of |-> n] \in H1 /\ [kind |-> "dubbo_request", of |-> n] \in H1
      BY <1>2, <1>8 DEF Blocks, Kinds, PaRequestKinds
    <2>2. /\ "args" \in Kinds \ BatchBlockKinds /\ "dubbo_request" \in Kinds \ BatchBlockKinds
          /\ "args" # "dubbo_request" /\ "free" \in Releases
      BY DEF Kinds, BatchBlockKinds, Releases
    <2>3. \A m \in Range(q) : [kind |-> "args", of |-> m] \in H1 /\ [kind |-> "dubbo_request", of |-> m] \in H1
      BY <1>2, <2>1
    <2>4. q \in Seq(Nat) /\ q # <<>> /\ IsInjective(q)
      BY <1>2
    <2>. QED
      BY <1>9, <1>10, <2>2, <2>3, <2>4, BatchMade DEF p2, PaRequestKinds
  <1>12. Legal(Mine, p1 \o p2) /\ Kept(Mine, p1 \o p2) = Kept(H1, p2)
    <2>1. \A b \in Allocated(p2) : b \notin Mine /\ b \notin Allocated(p1)
      <3>1. \A b \in Allocated(p2) : b \in Blocks /\ b \notin H1 /\ ~(b.kind \in PaRequestKinds)
        <4>1. q \in Seq(1 .. n) \ {<<>>}
          BY <1>2, <1>3 DEF Staged
        <4>. QED
          BY <1>10, <1>11, <4>1, BatchIn, PaKinds DEF BatchBlockKinds
      <3>. QED
        BY <1>8, <3>1
    <2>. QED
      BY <1>8, <1>11, <2>1, Sequel DEF H1
  <1>13. ASSUME NEW b \in Blocks
         PROVE  /\ PaUses(b)' => b \in Kept(Mine, p1 \o p2)
                /\ b \in Kept(Mine, p1 \o p2) => PaUses(b)' \/ PaLeft(b)'
    <2>1. PaLeft(b)' <=> PaLeft(b)
      BY <1>1 DEF PaLeft
    <2>2. PaUses(b)' <=> \/ (PaUses(b) \/ (b.kind \in PaRequestKinds /\ b.of = n))
                              /\ ~(b.kind \in PaRequestKinds /\ b.of \in Range(q))
                         \/ OfBatch(b, q)
      BY <1>1, <1>2, <1>3, <1>4, UsesFlushed, PaKinds DEF PaUses
    <2>3. (PaUses(b) => b \in Mine) /\ (b \in Mine => PaUses(b) \/ PaLeft(b))
      BY <1>1, PaAtRest
    <2>4. PaLeft(b) => b.kind \notin PaRequestKinds
      BY PaKinds DEF PaLeft
    <2>. QED
      BY <1>2, <1>8, <1>11, <1>12, <2>1, <2>2, <2>3, <2>4
  <1>14. Staged(queue', writes', running', replies', lost', came')
    BY <1>1, <1>5
  <1>. QED
    BY <1>1, <1>12, <1>13, <1>14, PaCallbackStep

\* on_connect: what waits is written.
LEMMA PaDOnConnect ==
    ASSUME PaInv, DOnConnect
    PROVE  PaInv'
  <1>. DEFINE p == Writing(queue, "free", "args", "dubbo_request")
  <1>0. Staged(queue, writes, running, replies, lost, came) /\ came \in Nat
    BY DEF PaInv, Staged
  <1>1. /\ Run(p) /\ prog = <<>> /\ queue' = <<>>
        /\ writes' = IF queue = <<>> THEN writes ELSE Append(writes, queue)
        /\ UNCHANGED <<running, replies, came, link, lost>>
    BY PaBatches DEF DOnConnect, Run
  <1>. HIDE DEF p
  <1>2. Mine \in SUBSET Blocks
    BY <1>1, PaAtRest
  <1>3. CASE queue = <<>>
    <2>1. [kind |-> "bufs", of |-> 0] \notin Mine
      <3>. SUFFICES ASSUME [kind |-> "bufs", of |-> 0] \in Mine
                    PROVE  FALSE
        OBVIOUS
      <3>. DEFINE b == [kind |-> "bufs", of |-> 0]
      <3>1. ~PaLeft(b)
        BY DEF PaLeft, PaReplyKinds
      <3>2. b.of \in Range(queue) \cup Sent(writes) \cup Range(replies)
        BY <1>1, <3>1, PaNotIn
      <3>. QED
        BY <1>0, <3>2, StagedIn
    <2>2. Legal(Mine, p) /\ Kept(Mine, p) = Mine
      BY <1>3, <2>1, NothingWritten DEF p, Releases
    <2>3. ASSUME NEW b \in Blocks
          PROVE  /\ PaUses(b)' => b \in Kept(Mine, p)
                 /\ b \in Kept(Mine, p) => PaUses(b)' \/ PaLeft(b)'
      <3>1. (PaUses(b)' <=> PaUses(b)) /\ (PaLeft(b)' <=> PaLeft(b))
        BY <1>1, <1>3 DEF PaUses, PaLeft
      <3>. QED
        BY <1>1, <2>2, <3>1, PaAtRest
    <2>4. Staged(queue', writes', running', replies', lost', came')
      BY <1>0, <1>1, <1>3
    <2>. QED
      BY <1>1, <2>2, <2>3, <2>4, PaCallbackStep
  <1>4. CASE queue # <<>>
    <2>1. /\ queue \in Seq(Nat) /\ IsInjective(queue) /\ queue \in Seq(1 .. came) \ {<<>>}
      BY <1>0, <1>4 DEF Staged
    <2>2. \A b \in Mine : ~OfBatch(b, queue)
      <3>. SUFFICES ASSUME NEW b \in Mine, OfBatch(b, queue)
                    PROVE  FALSE
        OBVIOUS
      <3>1. b.of \in Range(queue) /\ b.kind \in {"buffer", "bufs", "bufs_many", "w_req", "wctx"}
        BY <2>1, BatchIn
      <3>2. ~PaLeft(b)
        BY <3>1, PaKinds DEF PaLeft, BatchBlockKinds
      <3>3. PaUses(b)
        BY <1>1, <3>2, PaNotIn
      <3>4. PICK i \in DOMAIN writes : OfBatch(b, writes[i])
        BY <3>1, <3>3, PaKinds DEF PaUses, Uses, BatchBlockKinds
      <3>5. b.of \in Sent(writes)
        <4>1. writes[i] \in Seq(1 .. came) \ {<<>>}
          BY <1>0 DEF Staged
        <4>. QED
          BY <3>4, <4>1, BatchIn, SentMembers
      <3>. QED
        BY <1>0, <3>1, <3>5 DEF Staged
    <2>3. \A n \in Range(queue) : [kind |-> "args", of |-> n] \in Mine /\ [kind |-> "dubbo_request", of |-> n] \in Mine
      <3>. SUFFICES ASSUME NEW n \in Range(queue), NEW k \in PaRequestKinds
                    PROVE  [kind |-> k, of |-> n] \in Mine
        BY DEF PaRequestKinds
      <3>. DEFINE b == [kind |-> k, of |-> n]
      <3>1. b \in Blocks
        BY <2>1, RangeIn, PaKinds DEF Blocks
      <3>2. PaUses(b)
        BY DEF PaUses, Uses
      <3>. QED
        BY <1>1, <3>1, <3>2, PaAtRest
    <2>4. /\ Legal(Mine, p)
          /\ \A b \in Blocks : b \in Kept(Mine, p)
               <=> (b \in Mine /\ ~(b.kind \in PaRequestKinds /\ b.of \in Range(queue))) \/ OfBatch(b, queue)
      <3>1. /\ "args" \in Kinds \ BatchBlockKinds /\ "dubbo_request" \in Kinds \ BatchBlockKinds
            /\ "args" # "dubbo_request" /\ "free" \in Releases
        BY DEF Kinds, BatchBlockKinds, Releases
      <3>. QED
        BY <1>2, <1>4, <2>1, <2>2, <2>3, <3>1, BatchMade DEF p, PaRequestKinds
    <2>5. ASSUME NEW b \in Blocks
          PROVE  /\ PaUses(b)' => b \in Kept(Mine, p)
                 /\ b \in Kept(Mine, p) => PaUses(b)' \/ PaLeft(b)'
      <3>1. PaLeft(b)' <=> PaLeft(b)
        BY <1>1 DEF PaLeft
      <3>2. PaUses(b)' <=> \/ PaUses(b) /\ ~(b.kind \in PaRequestKinds /\ b.of \in Range(queue))
                           \/ OfBatch(b, queue)
        BY <1>0, <1>1, <1>4, UsesFlushed, PaKinds DEF PaUses
      <3>3. (PaUses(b) => b \in Mine) /\ (b \in Mine => PaUses(b) \/ PaLeft(b))
        BY <1>1, PaAtRest
      <3>. QED
        BY <2>4, <3>1, <3>2, <3>3
    <2>6. Staged(queue', writes', running', replies', lost', came')
      <3>1. Staged(<<>>, Append(writes, queue), running, replies, lost, came)
        BY <1>0, <1>4, Flushed
      <3>. QED
        BY <1>1, <1>4, <3>1
    <2>. QED
      BY <1>1, <2>4, <2>5, <2>6, PaCallbackStep
  <1>. QED
    BY <1>3, <1>4

\* dubbo_write_cb: the provider has the requests of the batch.
LEMMA PaDWriteDone ==
    ASSUME PaInv, DWriteDone
    PROVE  PaInv'
  <1>. DEFINE q == writes[1]
              p == Written(q, "free")
  <1>0. Staged(queue, writes, running, replies, lost, came) /\ came \in Nat
    BY DEF PaInv, Staged
  <1>1. /\ Run(p) /\ prog = <<>> /\ writes # <<>> /\ writes' = Tail(writes)
        /\ running' = running \cup Range(q)
        /\ UNCHANGED <<connected, queue, replies, came, link, lost>>
    BY PaBatches DEF DWriteDone, Run, Range
  <1>2. Staged(queue', writes', running', replies', lost', came')
    <2>1. Staged(queue, Tail(writes), running \cup Range(q), replies, lost, came)
      BY <1>0, <1>1, WriteEnds
    <2>. QED
      BY <1>1, <2>1
  <1>2a. q \in Seq(1 .. came) /\ q # <<>> /\ IsInjective(q)
    BY <1>0, <1>1, WriteEnds
  <1>. HIDE DEF q, p
  <1>3. q \in Seq(Nat) /\ q # <<>> /\ IsInjective(q)
    <2>. SUFFICES ASSUME NEW m \in Nat, NEW s \in Seq(1 .. m)
                  PROVE  s \in Seq(Nat)
      BY <1>0, <1>2a
    <2>. QED
      OBVIOUS
  <1>4. ASSUME NEW b
        PROVE  /\ PaUses(b)' <=> PaUses(b) /\ ~OfBatch(b, q)
               /\ OfBatch(b, q) => PaUses(b)
    <2>1. Apart(PaRequestKinds, PaReplyKinds) /\ q = writes[1]
      BY PaKinds DEF q
    <2>2. /\ Uses(b, queue, Tail(writes), replies, PaRequestKinds, PaReplyKinds)
               <=> Uses(b, queue, writes, replies, PaRequestKinds, PaReplyKinds) /\ ~OfBatch(b, writes[1])
          /\ OfBatch(b, writes[1]) =>
               /\ Uses(b, queue, writes, replies, PaRequestKinds, PaReplyKinds)
               /\ b.of \in Range(writes[1])
      BY <1>0, <1>1, <2>1, UsesWritten
    <2>. QED
      BY <1>1, <2>1, <2>2 DEF PaUses
  <1>5. Mine \in SUBSET Blocks
    BY <1>1, PaAtRest
  <1>6. /\ Legal(Mine, p)
        /\ \A b \in Blocks : b \in Kept(Mine, p) <=> b \in Mine /\ ~OfBatch(b, q)
    <2>1. \A b \in Blocks : OfBatch(b, q) => b \in Mine
      BY <1>1, <1>4, PaAtRest
    <2>2. "free" \in Releases
      BY DEF Releases
    <2>. QED
      BY <1>3, <1>5, <2>1, <2>2, BatchEnds DEF p
  <1>7. ASSUME NEW b \in Blocks
        PROVE  /\ PaUses(b)' => b \in Kept(Mine, p)
               /\ b \in Kept(Mine, p) => PaUses(b)' \/ PaLeft(b)'
    <2>1. PaLeft(b)' <=> PaLeft(b)
      BY <1>1 DEF PaLeft
    <2>2. (PaUses(b) => b \in Mine) /\ (b \in Mine => PaUses(b) \/ PaLeft(b))
      BY <1>1, PaAtRest
    <2>. QED
      BY <1>4, <1>6, <2>1, <2>2
  <1>8. connected' => queue' = <<>>
    BY <1>1 DEF PaInv
  <1>. QED
    BY <1>1, <1>2, <1>6, <1>7, <1>8, PaCallbackStep

\* _d_read_cb and _dubbo_callback: the reply is written, or its link closed.
LEMMA PaDReadCb ==
    ASSUME PaInv, NEW n \in running, DReadCb(n)
    PROVE  PaInv'
  <1>. DEFINE p == Reply(n)
  <1>0. Staged(queue, writes, running, replies, lost, came) /\ came \in Nat
    BY DEF PaInv, Staged
  <1>1. /\ Run(p) /\ prog = <<>> /\ running' = running \ {n}
        /\ UNCHANGED <<connected, queue, writes, came, link>>
        /\ \/ link = "closed" /\ lost' = lost \cup {n} /\ replies' = replies
           \/ link # "closed" /\ lost' = lost /\ replies' = Append(replies, n)
    BY DEF DReadCb, Run
  <1>. HIDE DEF p
  <1>2. /\ Staged(queue, writes, running \ {n}, Append(replies, n), lost, came)
        /\ Staged(queue, writes, running \ {n}, replies, lost \cup {n}, came)
        /\ n \in 1 .. came /\ n \notin Range(queue) \cup Sent(writes) \cup Range(replies) \cup lost
    BY <1>0, Answered
  <1>3. Staged(queue', writes', running', replies', lost', came')
    BY <1>1, <1>2
  <1>4. Mine \in SUBSET Blocks /\ n \in Nat
    BY <1>0, <1>1, <1>2, PaAtRest
  <1>5. ASSUME NEW b \in Mine, b.of = n
        PROVE  b.kind \in {"uv_tcp", "context", "name"}
    <2>1. PaLeft(b)
      BY <1>1, <1>2, <1>5, PaNotIn
    <2>. QED
      BY <1>2, <1>5, <2>1 DEF PaLeft
  <1>6. /\ Legal(Mine, p)
        /\ \A b \in Blocks : b \in Kept(Mine, p) <=> b \in Mine \/ (b.kind \in PaReplyKinds /\ b.of = n)
    BY <1>4, <1>5, PaReplies DEF p, PaReplyKinds
  <1>7. ASSUME NEW b \in Blocks
        PROVE  PaUses(b)' \/ PaLeft(b)' <=> PaUses(b) \/ PaLeft(b) \/ (b.kind \in PaReplyKinds /\ b.of = n)
    <2>1. CASE link = "closed"
      <3>1. PaUses(b)' <=> PaUses(b)
        BY <1>1, <2>1 DEF PaUses
      <3>2. PaLeft(b)' <=> PaLeft(b) \/ (b.kind \in PaReplyKinds /\ b.of = n)
        BY <1>1, <2>1 DEF PaLeft
      <3>. QED
        BY <3>1, <3>2
    <2>2. CASE link # "closed"
      <3>1. Uses(b, queue, writes, Append(replies, n), PaRequestKinds, PaReplyKinds)
              <=> PaUses(b) \/ (b.kind \in PaReplyKinds /\ b.of = n)
        BY <1>0, UsesAnswered DEF PaUses
      <3>2. PaUses(b)' <=> PaUses(b) \/ (b.kind \in PaReplyKinds /\ b.of = n)
        BY <1>1, <2>2, <3>1 DEF PaUses
      <3>3. PaLeft(b)' <=> PaLeft(b)
        BY <1>1, <2>2 DEF PaLeft
      <3>. QED
        BY <3>2, <3>3
    <2>. QED
      BY <2>1, <2>2
  <1>8. ASSUME NEW b \in Blocks, PaUses(b)'
        PROVE  PaUses(b) \/ (b.kind \in PaReplyKinds /\ b.of = n)
    <2>1. CASE link = "closed"
      BY <1>1, <1>8, <2>1 DEF PaUses
    <2>2. CASE link # "closed"
      <3>1. Uses(b, queue, writes, Append(replies, n), PaRequestKinds, PaReplyKinds)
              <=> PaUses(b) \/ (b.kind \in PaReplyKinds /\ b.of = n)
        BY <1>0, UsesAnswered DEF PaUses
      <3>. QED
        BY <1>1, <1>8, <2>2, <3>1 DEF PaUses
    <2>. QED
      BY <2>1, <2>2
  <1>9. \A b \in Blocks : /\ PaUses(b)' => b \in Kept(Mine, p)
                          /\ b \in Kept(Mine, p) => PaUses(b)' \/ PaLeft(b)'
    BY <1>1, <1>6, <1>7, <1>8, PaAtRest
  <1>10. connected' => queue' = <<>>
    BY <1>1 DEF PaInv
  <1>. QED
    BY <1>1, <1>3, <1>6, <1>9, <1>10, PaCallbackStep

\* act_write_cb: the reply is written.
LEMMA PaActWriteDone ==
    ASSUME PaInv, ActWriteDone
    PROVE  PaInv'
  <1>. DEFINE n == replies[1]
              p == ActWriteCb(n)
  <1>0. Staged(queue, writes, running, replies, lost, came) /\ came \in Nat
    BY DEF PaInv, Staged
  <1>1. /\ Run(p) /\ prog = <<>> /\ replies # <<>> /\ replies' = Tail(replies)
        /\ UNCHANGED <<connected, queue, writes, running, came, link, lost>>
    BY DEF ActWriteDone, Run
  <1>2. /\ Staged(queue, writes, running, Tail(replies), lost, came)
        /\ n \in Range(replies) /\ n \in 1 .. came
    BY <1>0, <1>1, AnswerEnds
  <1>3. Staged(queue', writes', running', replies', lost', came')
    BY <1>1, <1>2
  <1>. HIDE DEF n, p
  <1>4. ASSUME NEW b
        PROVE  PaUses(b)' <=> PaUses(b) /\ ~(b.kind \in PaReplyKinds /\ b.of = n)
    <2>1. Uses(b, queue, writes, Tail(replies), PaRequestKinds, PaReplyKinds)
            <=> PaUses(b) /\ ~(b.kind \in PaReplyKinds /\ b.of = n)
      BY <1>0, <1>1, UsesAnswerEnds, PaKinds DEF PaUses, n
    <2>. QED
      BY <1>1, <2>1 DEF PaUses
  <1>5. Mine \in SUBSET Blocks /\ n \in Nat
    BY <1>0, <1>1, <1>2, PaAtRest
  <1>6. \A b \in Blocks : b.of = n /\ b.kind \in PaReplyKinds => b \in Mine
    <2>. SUFFICES ASSUME NEW b \in Blocks, b.of = n, b.kind \in PaReplyKinds
                  PROVE  PaUses(b)
      BY <1>1, PaAtRest
    <2>. QED
      BY <1>2 DEF PaUses, Uses
  <1>7. /\ Legal(Mine, p)
        /\ \A b \in Blocks : b \in Kept(Mine, p) <=> b \in Mine /\ ~(b.kind \in PaReplyKinds /\ b.of = n)
    BY <1>5, <1>6, PaReplyWritten DEF p, PaReplyKinds
  <1>8. \A b : PaLeft(b)' <=> PaLeft(b)
    BY <1>1 DEF PaLeft
  <1>9. \A b \in Blocks : /\ PaUses(b)' => b \in Kept(Mine, p)
                          /\ b \in Kept(Mine, p) => PaUses(b)' \/ PaLeft(b)'
    BY <1>1, <1>4, <1>7, <1>8, PaAtRest
  <1>10. connected' => queue' = <<>>
    BY <1>1 DEF PaInv
  <1>. QED
    BY <1>1, <1>3, <1>7, <1>9, <1>10, PaCallbackStep

\* One call of a callback.
LEMMA PaInstructionStep ==
    ASSUME PaInv, PaInstruction
    PROVE  PaInv'
  <1>1. MemNext /\ UNCHANGED <<connected, queue, writes, running, replies, came, link, lost>>
    BY DEF PaInstruction
  <1>2. PoolInv' /\ Legal(Mine', prog') /\ Kept(Mine', prog') = Kept(Mine, prog)
    BY <1>1, PoolStep DEF PaInv
  <1>3. \A b : (PaUses(b)' <=> PaUses(b)) /\ (PaLeft(b)' <=> PaLeft(b))
    BY <1>1 DEF PaUses, PaLeft
  <1>4. PaLedger'
    BY <1>2, <1>3 DEF PaLedger, PaInv
  <1>. QED
    BY <1>1, <1>2, <1>4 DEF PaInv

\* At the start there is nothing.
LEMMA NothingYet ==
    /\ Staged(<<>>, <<>>, {}, <<>>, {}, 0)
    /\ \A K, D, b : ~Uses(b, <<>>, <<>>, <<>>, K, D)
  <1>1. Range(<<>>) = {} /\ IsInjective(<<>>) /\ Sent(<<>>) = {}
    BY DEF Range, IsInjective, Sent
  <1>2. Staged(<<>>, <<>>, {}, <<>>, {}, 0)
    BY <1>1 DEF Staged
  <1>. QED
    BY <1>1, <1>2 DEF Uses

LEMMA PaStart ==
    ASSUME PaInit
    PROVE  PaInv
  <1>1. /\ MemInit /\ queue = <<>> /\ writes = <<>> /\ running = {} /\ replies = <<>>
        /\ came = 0 /\ lost = {}
    BY DEF PaInit
  <1>2. PoolInv /\ Mine = {} /\ prog = <<>>
    BY <1>1, PoolStart
  <1>3. Legal(Mine, prog) /\ Kept(Mine, prog) = {}
    BY <1>2, AtEnd
  <1>4. Staged(queue, writes, running, replies, lost, came)
    BY <1>1, NothingYet
  <1>5. \A b : ~PaUses(b)
    BY <1>1, NothingYet DEF PaUses
  <1>6. PaLedger
    BY <1>3, <1>5 DEF PaLedger
  <1>. QED
    BY <1>1, <1>2, <1>3, <1>4, <1>6 DEF PaInv

LEMMA PaStep ==
    ASSUME PaInv, [PaNext]_(paVars)
    PROVE  PaInv'
  <1>1. CASE OnConn
    BY <1>1, PaOnConnStep
  <1>2. CASE OnReadHeader
    BY <1>2, PaOnReadHeader
  <1>3. CASE OnRead
    BY <1>3, PaOnReadQueued, PaOnReadWritten
  <1>4. CASE OnReadErr
    BY <1>4, PaOnReadErr
  <1>5. CASE DOnConnect
    BY <1>5, PaDOnConnect
  <1>6. CASE DWriteDone
    BY <1>6, PaDWriteDone
  <1>7. CASE ActWriteDone
    BY <1>7, PaActWriteDone
  <1>8. CASE \E n \in running : DReadCb(n)
    BY <1>8, PaDReadCb
  <1>9. CASE PaInstruction
    BY <1>9, PaInstructionStep
  <1>10. CASE UNCHANGED paVars
    <2>1. /\ UNCHANGED <<heap, ptr_size_map, ptr_pool, held, prog>>
          /\ UNCHANGED <<connected, queue, writes, running, replies, came, link, lost>>
      BY <1>10 DEF paVars, mem
    <2>2. PoolInv' <=> PoolInv
      BY <2>1 DEF PoolInv, Mine, MemorySound, HeldBlocksSound, PoolSound
    <2>3. Mine' = Mine
      BY <2>1 DEF Mine
    <2>4. \A b : (PaUses(b)' <=> PaUses(b)) /\ (PaLeft(b)' <=> PaLeft(b))
      BY <2>1 DEF PaUses, PaLeft
    <2>5. Kept(Mine', prog') = Kept(Mine, prog) /\ (Legal(Mine', prog') <=> Legal(Mine, prog))
      BY <2>1, <2>3
    <2>6. PaLedger' <=> PaLedger
      BY <2>4, <2>5 DEF PaLedger
    <2>. QED
      BY <2>1, <2>2, <2>5, <2>6 DEF PaInv
  <1>. QED
    BY <1>1, <1>2, <1>3, <1>4, <1>5, <1>6, <1>7, <1>8, <1>9, <1>10 DEF PaNext, PaCallback

\* Whatever the callbacks and the rest of the program do, the provider agent
\* holds what its requests need.
THEOREM PaInvariant == PaSpec => []PaInv
  <1>. QED
    BY PaStart, PaStep, PTL DEF PaSpec

\* The provider agent's blocks are its own and those of the pool are free
\* (x_malloc and x_free of bytebuf.cc), although dubbo_client.cc releases
\* with free what x_malloc gave.
THEOREM PaMemorySound == PaSpec => []MemorySound
  <1>1. PaInv => MemorySound
    BY DEF PaInv, PoolInv
  <1>. QED
    BY <1>1, PaInvariant, PTL

\* At rest the provider agent holds nothing for a request any more, but for
\* replies to a link that was closed before the provider answered.
THEOREM PaNothingLeaks == PaSpec => []NothingLeaks
  <1>1. ASSUME PaInv, prog = <<>>, queue = <<>>, writes = <<>>, replies = <<>>,
               NEW b \in DOMAIN held, b # Other
        PROVE  b.kind \in PaLinkBlocks \/ b.of \in lost
    <2>1. b \in Mine
      BY <1>1 DEF Mine
    <2>2. ~PaUses(b)
      BY <1>1, NothingYet DEF PaUses
    <2>3. PaLeft(b)
      BY <1>1, <2>1, <2>2, PaAtRest
    <2>. QED
      BY <2>3 DEF PaLeft, PaLinkBlocks
  <1>2. PaInv => NothingLeaks
    BY <1>1 DEF NothingLeaks, Other, PaLinkBlocks
  <1>. QED
    BY <1>2, PaInvariant, PTL

-----------------------------------------------------------------------------
\* The other programs of the consumer agent.
LEMMA CaAccepts ==
    ASSUME NEW H \in SUBSET Blocks,
           \A b \in H : b.kind \notin {"uv_tcp", "parser"}
    PROVE  /\ Legal(H, HttpAccepted)
           /\ \A b \in Blocks : b \in Kept(H, HttpAccepted)
                <=> b \in H \/ (b.kind \in {"uv_tcp", "parser"} /\ b.of = 0)
  <1>. DEFINE p == <<XM("uv_tcp", 0), XM("parser", 0)>>
  <1>1. p = HttpAccepted
    BY DEF HttpAccepted, XM, XM
  <1>2. p \in Seq(Calls) /\ DOMAIN p = 1 .. 2
    BY DEF Calls, Blocks, Kinds, XM
  <1>3. \A i, j \in DOMAIN p : Same(p[i], p[j]) => i = j
    BY DEF Same, XM
  <1>4. Legal(H, p)
    BY <1>2, <1>3 DEF Legal, XM, Takes, Other
  <1>5. \A b : b \in Allocated(p) <=> b = [kind |-> "uv_tcp", of |-> 0] \/ b = [kind |-> "parser", of |-> 0]
    BY <1>2, Members DEF XM, Takes
  <1>6. Freed(p) = {}
    BY <1>2 DEF Freed, XM, Takes
  <1>. QED
    BY <1>1, <1>4, <1>5, <1>6 DEF Kept, Blocks

LEMMA CaReusesKey ==
    ASSUME NEW H \in SUBSET Blocks, \A b \in H : b.kind \notin {"key", "name"}
    PROVE  /\ Legal(H, ReuseKey)
           /\ \A b \in Allocated(ReuseKey) : b.kind \in {"key", "name"}
           /\ \A b \in Blocks : /\ b \in H => b \in Kept(H, ReuseKey)
                                /\ b \in Kept(H, ReuseKey) => b \in H \/ b.kind \in {"key", "name"}
  <1>. DEFINE p == <<XM("key", 0), XM("name", 1), XM("name", 2), XM("name", 3)>>
  <1>1. p = ReuseKey
    BY DEF ReuseKey, XM, XM
  <1>2. p \in Seq(Calls) /\ DOMAIN p = 1 .. 4
    BY DEF Calls, Blocks, Kinds, XM
  <1>3. \A i, j \in DOMAIN p : Same(p[i], p[j]) => i = j
    BY DEF Same, XM
  <1>4. Legal(H, p)
    BY <1>2, <1>3 DEF Legal, XM, Takes, Other
  <1>5. \A b \in Allocated(p) : b.kind \in {"key", "name"}
    BY <1>2, Members DEF XM, Takes
  <1>6. Freed(p) = {}
    BY <1>2 DEF Freed, XM, Takes
  <1>. QED
    BY <1>1, <1>4, <1>5, <1>6 DEF Kept

LEMMA CaRequests ==
    ASSUME NEW H \in SUBSET Blocks, NEW n \in Nat,
           \A b \in H : b.of = n => b.kind \notin {"request", "parameter"}
    PROVE  /\ Legal(H, Request(n))
           /\ \A b \in Allocated(Request(n)) : b.kind \in {"request", "parameter"} /\ b.of = n
           /\ \A b \in Blocks : b \in Kept(H, Request(n))
                <=> b \in H \/ (b.kind \in {"request", "parameter"} /\ b.of = n)
  <1>. DEFINE p == <<XM("request", n), XM("parameter", n)>>
  <1>1. p = Request(n)
    BY DEF Request, XM, XM
  <1>2. p \in Seq(Calls) /\ DOMAIN p = 1 .. 2
    BY DEF Calls, Blocks, Kinds, XM
  <1>3. \A i, j \in DOMAIN p : Same(p[i], p[j]) => i = j
    BY DEF Same, XM
  <1>4. Legal(H, p)
    BY <1>2, <1>3 DEF Legal, XM, Takes, Other
  <1>5. \A b : b \in Allocated(p) <=> b = [kind |-> "request", of |-> n] \/ b = [kind |-> "parameter", of |-> n]
    BY <1>2, Members DEF XM, Takes
  <1>6. Freed(p) = {}
    BY <1>2 DEF Freed, XM, Takes
  <1>. QED
    BY <1>1, <1>4, <1>5, <1>6 DEF Kept, Blocks

LEMMA CaWritesKey ==
    ASSUME NEW H \in SUBSET Blocks,
           \A b \in H : b.of = 0 => b.kind \notin {"kbase", "kbuf", "kw_req", "kctx"}
    PROVE  /\ Legal(H, KeyWrite)
           /\ \A b \in Blocks : b \in Kept(H, KeyWrite)
                <=> b \in H \/ (b.kind \in {"kbase", "kbuf", "kw_req", "kctx"} /\ b.of = 0)
  <1>. DEFINE p == <<XM("kbase", 0), XM("kbuf", 0), XM("kw_req", 0), XM("kctx", 0)>>
  <1>1. p = KeyWrite
    BY DEF KeyWrite, XM, XM
  <1>2. p \in Seq(Calls) /\ DOMAIN p = 1 .. 4
    BY DEF Calls, Blocks, Kinds, XM
  <1>3. \A i, j \in DOMAIN p : Same(p[i], p[j]) => i = j
    BY DEF Same, XM
  <1>4. Legal(H, p)
    BY <1>2, <1>3 DEF Legal, XM, Takes, Other
  <1>5. \A b : b \in Allocated(p) <=>
          \/ b = [kind |-> "kbase", of |-> 0] \/ b = [kind |-> "kbuf", of |-> 0]
          \/ b = [kind |-> "kw_req", of |-> 0] \/ b = [kind |-> "kctx", of |-> 0]
    BY <1>2, Members DEF XM, Takes
  <1>6. Freed(p) = {}
    BY <1>2 DEF Freed, XM, Takes
  <1>7. ASSUME NEW b \in Blocks
        PROVE  b \in Kept(H, p) <=> b \in H \/ (b.kind \in {"kbase", "kbuf", "kw_req", "kctx"} /\ b.of = 0)
    BY <1>5, <1>6 DEF Kept, Blocks
  <1>. QED
    BY <1>1, <1>4, <1>7

LEMMA CaKeyWritten ==
    ASSUME NEW H \in SUBSET Blocks,
           \A b \in Blocks : b.of = 0 /\ b.kind \in {"kbase", "kbuf", "kw_req", "kctx"} => b \in H
    PROVE  /\ Legal(H, KeyWritten)
           /\ \A b : b \notin Allocated(KeyWritten)
           /\ \A b \in Blocks : b \in Kept(H, KeyWritten)
                <=> b \in H /\ ~(b.kind \in {"kbase", "kbuf", "kw_req", "kctx"} /\ b.of = 0)
  <1>. DEFINE p == <<XF("kbase", 0), XF("kbuf", 0), XF("kctx", 0), XF("kw_req", 0)>>
  <1>1. p = KeyWritten
    BY DEF KeyWritten, XF, XF
  <1>2. p \in Seq(Calls) /\ DOMAIN p = 1 .. 4
    BY DEF Calls, Blocks, Kinds, XF
  <1>3. \A i, j \in DOMAIN p : Same(p[i], p[j]) => i = j
    BY DEF Same, XF
  <1>4. \A i \in DOMAIN p : p[i].block \in H /\ ~Takes(p[i])
    BY <1>2 DEF XF, Takes, Blocks, Kinds
  <1>5. Legal(H, p)
    BY <1>2, <1>3, <1>4 DEF Legal
  <1>6. \A b : b \in Freed(p) <=>
          \/ b = [kind |-> "kbase", of |-> 0] \/ b = [kind |-> "kbuf", of |-> 0]
          \/ b = [kind |-> "kctx", of |-> 0] \/ b = [kind |-> "kw_req", of |-> 0]
    BY <1>2, Members DEF XF, Takes
  <1>7. Allocated(p) = {}
    BY <1>2 DEF Allocated, XF, Takes
  <1>8. ASSUME NEW b \in Blocks
        PROVE  b \in Kept(H, p) <=> b \in H /\ ~(b.kind \in {"kbase", "kbuf", "kw_req", "kctx"} /\ b.of = 0)
    BY <1>6, <1>7 DEF Kept, Blocks
  <1>. QED
    BY <1>1, <1>5, <1>7, <1>8

LEMMA CaAnswers ==
    ASSUME NEW H \in SUBSET Blocks, NEW n \in Nat,
           \A b \in H : b.of = n => b.kind \notin {"result", "hw_req", "hbuf", "hbase"}
    PROVE  /\ Legal(H, ActDone(n))
           /\ \A b \in Blocks : b \in Kept(H, ActDone(n))
                <=> \/ b \in H \/ (b.kind = "result" /\ b.of = n)
                    \/ b.kind \in {"hw_req", "hbuf", "hbase"} /\ b.of = n
  <1>. DEFINE p == <<XM("result", n), XM("hw_req", n), XM("hbuf", n), XM("hbase", n)>>
  <1>1. p = ActDone(n)
    BY DEF ActDone, XM, XM
  <1>2. p \in Seq(Calls) /\ DOMAIN p = 1 .. 4
    BY DEF Calls, Blocks, Kinds, XM
  <1>3. \A i, j \in DOMAIN p : Same(p[i], p[j]) => i = j
    BY DEF Same, XM
  <1>4. Legal(H, p)
    BY <1>2, <1>3 DEF Legal, XM, Takes, Other
  <1>5. \A b : b \in Allocated(p) <=>
          \/ b = [kind |-> "result", of |-> n] \/ b = [kind |-> "hw_req", of |-> n]
          \/ b = [kind |-> "hbuf", of |-> n] \/ b = [kind |-> "hbase", of |-> n]
    BY <1>2, Members DEF XM, Takes
  <1>6. Freed(p) = {}
    BY <1>2 DEF Freed, XM, Takes
  <1>7. ASSUME NEW b \in Blocks
        PROVE  b \in Kept(H, p)
                <=> \/ b \in H \/ (b.kind = "result" /\ b.of = n)
                    \/ b.kind \in {"hw_req", "hbuf", "hbase"} /\ b.of = n
    BY <1>5, <1>6 DEF Kept, Blocks
  <1>. QED
    BY <1>1, <1>4, <1>7

LEMMA CaAnswerWritten ==
    ASSUME NEW H \in SUBSET Blocks, NEW n \in Nat,
           \A b \in Blocks : b.of = n /\ b.kind \in {"hw_req", "hbuf", "hbase"} => b \in H
    PROVE  /\ Legal(H, ActDoneWriteCb(n))
           /\ \A b \in Blocks : b \in Kept(H, ActDoneWriteCb(n))
                <=> b \in H /\ ~(b.kind \in {"hw_req", "hbuf", "hbase"} /\ b.of = n)
  <1>. DEFINE p == <<XF("hbase", n), XF("hbuf", n), XF("hw_req", n)>>
  <1>1. p = ActDoneWriteCb(n)
    BY DEF ActDoneWriteCb, XF, XF
  <1>2. p \in Seq(Calls) /\ DOMAIN p = 1 .. 3
    BY DEF Calls, Blocks, Kinds, XF
  <1>3. \A i, j \in DOMAIN p : Same(p[i], p[j]) => i = j
    BY DEF Same, XF
  <1>4. \A i \in DOMAIN p : p[i].block \in H /\ ~Takes(p[i])
    BY <1>2 DEF XF, Takes, Blocks, Kinds
  <1>5. Legal(H, p)
    BY <1>2, <1>3, <1>4 DEF Legal
  <1>6. \A b : b \in Freed(p) <=>
          \/ b = [kind |-> "hbase", of |-> n] \/ b = [kind |-> "hbuf", of |-> n]
          \/ b = [kind |-> "hw_req", of |-> n]
    BY <1>2, Members DEF XF, Takes
  <1>7. Allocated(p) = {}
    BY <1>2 DEF Allocated, XF, Takes
  <1>8. ASSUME NEW b \in Blocks
        PROVE  b \in Kept(H, p) <=> b \in H /\ ~(b.kind \in {"hw_req", "hbuf", "hbase"} /\ b.of = n)
    BY <1>6, <1>7 DEF Kept, Blocks
  <1>. QED
    BY <1>1, <1>5, <1>8

-----------------------------------------------------------------------------
\* The consumer agent: what it holds, or will when the pending callback has
\* ended, is what the requests and the header being written need, besides
\* the blocks of the connections, the results, and what an error path left.
CaRequestKinds == {"request", "parameter"}
CaAnswerKinds == {"hw_req", "hbuf", "hbase"}
CaKeyKinds == {"kbase", "kbuf", "kw_req", "kctx"}

CaUses(b) ==
    \/ Uses(b, que, batches, done, CaRequestKinds, CaAnswerKinds)
    \/ b.kind \in CaKeyKinds /\ b.of = 0 /\ stage = "keying"

CaLeft(b) ==
    \/ b.kind \in {"uv_tcp", "parser"} /\ http # "none"
    \/ b.kind \in {"key", "name"} /\ stage # "none"
    \/ b.kind = "result" /\ b.of \in (1 .. made) \ (Range(que) \cup Sent(batches) \cup pending)
    \/ b.kind \in CaKeyKinds /\ b.of = 0 /\ 0 \in spilled
    \/ b.kind \in CaAnswerKinds \cup BatchBlockKinds /\ b.of \in spilled \ {0}

CaLedger ==
    \A b \in Blocks :
        /\ CaUses(b) => b \in Kept(Mine, prog)
        /\ b \in Kept(Mine, prog) => CaUses(b) \/ CaLeft(b)

CaInv ==
    /\ PoolInv
    /\ Legal(Mine, prog)
    /\ Staged(que, batches, pending, done, spilled, made)
    /\ stage = "none" => que = <<>>
    /\ stage # "dead" => 0 \notin spilled
    /\ CaLedger

LEMMA CaKinds ==
    /\ Apart(CaRequestKinds, CaAnswerKinds)
    /\ CaRequestKinds \cap (BatchBlockKinds \cup CaAnswerKinds \cup CaKeyKinds) = {}
    /\ CaAnswerKinds \cap (BatchBlockKinds \cup CaKeyKinds) = {}
    /\ CaKeyKinds \cap BatchBlockKinds = {}
    /\ \A k \in CaRequestKinds \cup CaAnswerKinds \cup CaKeyKinds \cup BatchBlockKinds :
          k \in Kinds /\ k \notin {"uv_tcp", "parser", "key", "name", "result"}
  BY DEF Apart, CaRequestKinds, CaAnswerKinds, CaKeyKinds, BatchBlockKinds, Kinds

\* Between two callbacks the agent holds what the ledger says.
LEMMA CaAtRest ==
    ASSUME CaInv, prog = <<>>
    PROVE  /\ Mine \in SUBSET Blocks
           /\ \A b \in Blocks : CaUses(b) => b \in Mine
           /\ \A b \in Mine : CaUses(b) \/ CaLeft(b)
  <1>1. Mine \in SUBSET Blocks
    BY DEF CaInv, PoolInv, Mine
  <1>2. Kept(Mine, prog) = Mine
    BY AtEnd
  <1>. QED
    BY <1>1, <1>2 DEF CaInv, CaLedger

\* What it holds for a request is held for the stage the request is in.
LEMMA CaNotIn ==
    ASSUME CaInv, prog = <<>>, NEW b \in Mine, ~CaLeft(b)
    PROVE  \/ b.kind \in CaKeyKinds /\ b.of = 0 /\ stage = "keying"
           \/ /\ Uses(b, que, batches, done, CaRequestKinds, CaAnswerKinds)
              /\ b.of \in Range(que) \cup Sent(batches) \cup Range(done)
              /\ b.kind \in CaRequestKinds \cup CaAnswerKinds \cup BatchBlockKinds
  <1>1. CaUses(b)
    BY CaAtRest
  <1>2. Staged(que, batches, pending, done, spilled, made)
    BY DEF CaInv
  <1>. QED
    BY <1>1, <1>2, UsedIn DEF CaUses, BatchBlockKinds

LEMMA CaCallbackStep ==
    ASSUME CaInv, NEW p, Run(p), Legal(Mine, p),
           Staged(que', batches', pending', done', spilled', made'),
           stage' = "none" => que' = <<>>, stage' # "dead" => 0 \notin spilled',
           \A b \in Blocks : /\ CaUses(b)' => b \in Kept(Mine, p)
                             /\ b \in Kept(Mine, p) => CaUses(b)' \/ CaLeft(b)'
    PROVE  CaInv'
  <1>1. PoolInv' /\ Mine' = Mine /\ prog' = p
    BY PoolRun DEF CaInv
  <1>2. Legal(Mine', prog') /\ Kept(Mine', prog') = Kept(Mine, p)
    BY <1>1
  <1>3. CaLedger'
    BY <1>2 DEF CaLedger
  <1>. QED
    BY <1>1, <1>2, <1>3 DEF CaInv

\* _ca_on_conn: the connection has nothing yet.
LEMMA CaOnConnStep ==
    ASSUME CaInv, CaOnConn
    PROVE  CaInv'
  <1>1. /\ Run(HttpAccepted) /\ prog = <<>> /\ http = "none" /\ http' = "open"
        /\ UNCHANGED <<stage, que, batches, pending, done, made, spilled>>
    BY DEF CaOnConn, Run
  <1>2. Mine \in SUBSET Blocks
    BY <1>1, CaAtRest
  <1>3. \A b \in Mine : b.kind \notin {"uv_tcp", "parser"}
    <2>. SUFFICES ASSUME NEW b \in Mine, b.kind \in {"uv_tcp", "parser"}
                  PROVE  FALSE
      OBVIOUS
    <2>1. ~CaLeft(b)
      BY <1>1, CaKinds DEF CaLeft
    <2>. QED
      BY <1>1, <2>1, CaNotIn, CaKinds
  <1>4. /\ Legal(Mine, HttpAccepted)
        /\ \A b \in Blocks : b \in Kept(Mine, HttpAccepted)
             <=> b \in Mine \/ (b.kind \in {"uv_tcp", "parser"} /\ b.of = 0)
    BY <1>2, <1>3, CaAccepts
  <1>5. ASSUME NEW b \in Blocks
        PROVE  /\ CaUses(b)' => b \in Kept(Mine, HttpAccepted)
               /\ b \in Kept(Mine, HttpAccepted) => CaUses(b)' \/ CaLeft(b)'
    <2>1. (CaUses(b)' <=> CaUses(b)) /\ (CaLeft(b) => CaLeft(b)')
      BY <1>1 DEF CaUses, CaLeft
    <2>2. b.kind \in {"uv_tcp", "parser"} => CaLeft(b)'
      BY <1>1 DEF CaLeft
    <2>. QED
      BY <1>1, <1>4, <2>1, <2>2, CaAtRest
  <1>. QED
    BY <1>1, <1>4, <1>5, CaCallbackStep DEF CaInv

\* The HTTP connection closes: nothing changes hands.
LEMMA CaHttpClose ==
    ASSUME CaInv, HttpClose
    PROVE  CaInv'
  <1>1. /\ Run(<<>>) /\ prog = <<>> /\ http # "none" /\ http' = "closed"
        /\ UNCHANGED <<stage, que, batches, pending, done, made, spilled>>
    BY DEF HttpClose, Run
  <1>2. Legal(Mine, <<>>) /\ Kept(Mine, <<>>) = Mine
    BY AtEnd
  <1>3. ASSUME NEW b \in Blocks
        PROVE  /\ CaUses(b)' => b \in Kept(Mine, <<>>)
               /\ b \in Kept(Mine, <<>>) => CaUses(b)' \/ CaLeft(b)'
    <2>1. (CaUses(b)' <=> CaUses(b)) /\ (CaLeft(b)' <=> CaLeft(b))
      BY <1>1 DEF CaUses, CaLeft
    <2>. QED
      BY <1>1, <1>2, <2>1, CaAtRest
  <1>. QED
    BY <1>1, <1>2, <1>3, CaCallbackStep DEF CaInv

\* _pa_on_conn: the header is written, or there is no stage.
LEMMA CaPaOnConn ==
    ASSUME CaInv, PaOnConn
    PROVE  CaInv'
  <1>1. /\ prog = <<>> /\ stage = "connecting" /\ 0 \notin spilled
        /\ \/ stage' = "keying" /\ Run(KeyWrite)
           \/ stage' = "dead" /\ Run(<<>>)
        /\ UNCHANGED <<que, batches, pending, done, made, http, spilled>>
    BY DEF PaOnConn, Run, CaInv
  <1>2. Mine \in SUBSET Blocks
    BY <1>1, CaAtRest
  <1>3. \A b : CaLeft(b)' <=> CaLeft(b)
    BY <1>1 DEF CaLeft
  <1>4. CASE stage' = "keying" /\ Run(KeyWrite)
    <2>1. ASSUME NEW b \in Mine, b.of = 0, b.kind \in CaKeyKinds
          PROVE  FALSE
      <3>1. ~CaLeft(b)
        BY <1>1, <2>1, CaKinds DEF CaLeft
      <3>. QED
        BY <1>1, <2>1, <3>1, CaNotIn, CaKinds
    <2>2. /\ Legal(Mine, KeyWrite)
          /\ \A b \in Blocks : b \in Kept(Mine, KeyWrite)
               <=> b \in Mine \/ (b.kind \in CaKeyKinds /\ b.of = 0)
      BY <1>2, <2>1, CaWritesKey DEF CaKeyKinds
    <2>3. ASSUME NEW b \in Blocks
          PROVE  CaUses(b)' <=> CaUses(b) \/ (b.kind \in CaKeyKinds /\ b.of = 0)
      BY <1>1, <1>4 DEF CaUses
    <2>4. \A b \in Blocks : /\ CaUses(b)' => b \in Kept(Mine, KeyWrite)
                            /\ b \in Kept(Mine, KeyWrite) => CaUses(b)' \/ CaLeft(b)'
      BY <1>1, <1>3, <2>2, <2>3, CaAtRest
    <2>. QED
      BY <1>1, <1>4, <2>2, <2>4, CaCallbackStep DEF CaInv
  <1>5. CASE stage' = "dead" /\ Run(<<>>)
    <2>1. Legal(Mine, <<>>) /\ Kept(Mine, <<>>) = Mine
      BY AtEnd
    <2>2. \A b : CaUses(b)' <=> CaUses(b)
      BY <1>1, <1>5 DEF CaUses
    <2>3. \A b \in Blocks : /\ CaUses(b)' => b \in Kept(Mine, <<>>)
                            /\ b \in Kept(Mine, <<>>) => CaUses(b)' \/ CaLeft(b)'
      BY <1>1, <1>3, <2>1, <2>2, CaAtRest
    <2>. QED
      BY <1>1, <1>5, <2>1, <2>3, CaCallbackStep DEF CaInv
  <1>. QED
    BY <1>1, <1>4, <1>5

\* _pa_write_cb: the agent's stage has the requests of the batch, or the write
\* failed and its blocks stay.
LEMMA CaPaWriteDone ==
    ASSUME CaInv, PaWriteDone
    PROVE  CaInv'
  <1>. DEFINE q == batches[1]
              p == Written(q, "x_free")
  <1>0. Staged(que, batches, pending, done, spilled, made) /\ made \in Nat
    BY DEF CaInv, Staged
  <1>1. /\ prog = <<>> /\ batches # <<>> /\ batches' = Tail(batches)
        /\ \/ Run(p) /\ pending' = pending \cup Range(q) /\ spilled' = spilled
           \/ Run(<<>>) /\ pending' = pending /\ spilled' = spilled \cup Range(q)
        /\ UNCHANGED <<stage, que, done, made, http>>
    BY CaBatches DEF PaWriteDone, Run, Range
  <1>2. /\ Staged(que, Tail(batches), pending \cup Range(q), done, spilled, made)
        /\ Staged(que, Tail(batches), pending, done, spilled \cup Range(q), made)
    BY <1>0, <1>1, WriteEnds
  <1>3. /\ q \in Seq(1 .. made) /\ q # <<>> /\ IsInjective(q)
        /\ Range(q) \subseteq Sent(batches) /\ Sent(Tail(batches)) = Sent(batches) \ Range(q)
    BY <1>0, <1>1, WriteEnds
  <1>4. Apart(CaRequestKinds, CaAnswerKinds) /\ q = batches[1]
    BY CaKinds
  <1>. HIDE DEF q, p
  <1>5. ASSUME NEW m \in Nat, NEW s \in Seq(1 .. m)
        PROVE  s \in Seq(Nat)
    OBVIOUS
  <1>6. q \in Seq(Nat) /\ 0 \notin Range(q)
    <2>1. Range(q) \subseteq 1 .. made
      BY <1>3, RangeIn
    <2>. QED
      BY <1>0, <1>3, <1>5, <2>1
  <1>7. ASSUME NEW b
        PROVE  /\ CaUses(b)' <=> CaUses(b) /\ ~OfBatch(b, q)
               /\ OfBatch(b, q) => CaUses(b) /\ b.of \in Range(q) /\ b.kind \in BatchBlockKinds
    <2>1. /\ Uses(b, que, Tail(batches), done, CaRequestKinds, CaAnswerKinds)
               <=> /\ Uses(b, que, batches, done, CaRequestKinds, CaAnswerKinds)
                   /\ ~OfBatch(b, batches[1])
          /\ OfBatch(b, batches[1]) =>
               /\ Uses(b, que, batches, done, CaRequestKinds, CaAnswerKinds)
               /\ b.of \in Range(batches[1])
      BY <1>0, <1>1, <1>4, UsesWritten
    <2>2. OfBatch(b, q) => b.kind \in BatchBlockKinds
      BY <1>3, BatchIn DEF BatchBlockKinds
    <2>. QED
      BY <1>1, <1>4, <2>1, <2>2, CaKinds DEF CaUses
  <1>8. ASSUME NEW b, CaLeft(b)
        PROVE  CaLeft(b)'
    BY <1>1, <1>3, <1>8 DEF CaLeft
  <1>9. Mine \in SUBSET Blocks
    BY <1>1, CaAtRest
  <1>10. CASE Run(p) /\ pending' = pending \cup Range(q) /\ spilled' = spilled
    <2>1. /\ Legal(Mine, p)
          /\ \A b \in Blocks : b \in Kept(Mine, p) <=> b \in Mine /\ ~OfBatch(b, q)
      <3>1. \A b \in Blocks : OfBatch(b, q) => b \in Mine
        BY <1>1, <1>7, CaAtRest
      <3>2. "x_free" \in Releases
        BY DEF Releases
      <3>. QED
        BY <1>3, <1>6, <1>9, <3>1, <3>2, BatchEnds DEF p
    <2>2. \A b \in Blocks : /\ CaUses(b)' => b \in Kept(Mine, p)
                            /\ b \in Kept(Mine, p) => CaUses(b)' \/ CaLeft(b)'
      BY <1>1, <1>7, <1>8, <2>1, CaAtRest
    <2>3. Staged(que', batches', pending', done', spilled', made')
      BY <1>1, <1>2, <1>10
    <2>. QED
      BY <1>1, <1>10, <2>1, <2>2, <2>3, CaCallbackStep DEF CaInv
  <1>11. CASE Run(<<>>) /\ pending' = pending /\ spilled' = spilled \cup Range(q)
    <2>1. Legal(Mine, <<>>) /\ Kept(Mine, <<>>) = Mine
      BY AtEnd
    <2>2. ASSUME NEW b, OfBatch(b, q)
          PROVE  CaLeft(b)'
      BY <1>6, <1>7, <1>11, <2>2 DEF CaLeft
    <2>3. \A b \in Blocks : /\ CaUses(b)' => b \in Kept(Mine, <<>>)
                            /\ b \in Kept(Mine, <<>>) => CaUses(b)' \/ CaLeft(b)'
      BY <1>1, <1>7, <1>8, <2>1, <2>2, CaAtRest
    <2>4. Staged(que', batches', pending', done', spilled', made')
      BY <1>1, <1>2, <1>11
    <2>. QED
      BY <1>1, <1>6, <1>11, <2>1, <2>3, <2>4, CaCallbackStep DEF CaInv
  <1>. QED
    BY <1>1, <1>10, <1>11

\* _pa_read_cb and act_done_callback: the answer is written, or its
\* connection closed.
LEMMA CaPaReadCb ==
    ASSUME CaInv, NEW n \in pending, PaReadCb(n)
    PROVE  CaInv'
  <1>. DEFINE p == ActDone(n)
  <1>0. Staged(que, batches, pending, done, spilled, made) /\ made \in Nat
    BY DEF CaInv, Staged
  <1>1. /\ Run(p) /\ prog = <<>> /\ pending' = pending \ {n}
        /\ UNCHANGED <<stage, que, batches, made, http>>
        /\ \/ spilled' = spilled \cup {n} /\ done' = done
           \/ spilled' = spilled /\ done' = Append(done, n)
    BY DEF PaReadCb, Run
  <1>. HIDE DEF p
  <1>2. /\ Staged(que, batches, pending \ {n}, Append(done, n), spilled, made)
        /\ Staged(que, batches, pending \ {n}, done, spilled \cup {n}, made)
        /\ n \in 1 .. made /\ n \notin Range(que) \cup Sent(batches) \cup Range(done) \cup spilled
    BY <1>0, Answered
  <1>3. Staged(que', batches', pending', done', spilled', made')
    BY <1>1, <1>2
  <1>4. Mine \in SUBSET Blocks /\ n \in Nat /\ n # 0
    BY <1>0, <1>1, <1>2, CaAtRest
  <1>5. ASSUME NEW b \in Mine, b.of = n, b.kind \in CaAnswerKinds \cup {"result"}
        PROVE  FALSE
    <2>1. ~CaLeft(b)
      BY <1>2, <1>4, <1>5, CaKinds DEF CaLeft
    <2>. QED
      BY <1>1, <1>2, <1>4, <1>5, <2>1, CaNotIn
  <1>6. /\ Legal(Mine, p)
        /\ \A b \in Blocks : b \in Kept(Mine, p)
             <=> b \in Mine \/ (b.kind = "result" /\ b.of = n) \/ (b.kind \in CaAnswerKinds /\ b.of = n)
    BY <1>4, <1>5, CaAnswers DEF p, CaAnswerKinds
  <1>7. ASSUME NEW b \in Blocks
        PROVE  /\ CaUses(b)' => CaUses(b) \/ (b.kind \in CaAnswerKinds /\ b.of = n)
               /\ CaUses(b) => CaUses(b)'
               /\ b.kind \in CaAnswerKinds /\ b.of = n => CaUses(b)' \/ CaLeft(b)'
    <2>1. CASE spilled' = spilled \cup {n} /\ done' = done
      <3>1. CaUses(b)' <=> CaUses(b)
        BY <1>1, <2>1 DEF CaUses
      <3>2. b.kind \in CaAnswerKinds /\ b.of = n => CaLeft(b)'
        BY <1>4, <2>1 DEF CaLeft
      <3>. QED
        BY <3>1, <3>2
    <2>2. CASE spilled' = spilled /\ done' = Append(done, n)
      <3>1. Uses(b, que, batches, Append(done, n), CaRequestKinds, CaAnswerKinds)
              <=> \/ Uses(b, que, batches, done, CaRequestKinds, CaAnswerKinds)
                  \/ b.kind \in CaAnswerKinds /\ b.of = n
        BY <1>0, UsesAnswered
      <3>. QED
        BY <1>1, <2>2, <3>1 DEF CaUses
    <2>. QED
      BY <1>1, <2>1, <2>2
  <1>8. ASSUME NEW b
        PROVE  /\ CaLeft(b) => CaLeft(b)'
               /\ b.kind = "result" /\ b.of = n => CaLeft(b)'
    BY <1>1, <1>2 DEF CaLeft
  <1>9. \A b \in Blocks : /\ CaUses(b)' => b \in Kept(Mine, p)
                          /\ b \in Kept(Mine, p) => CaUses(b)' \/ CaLeft(b)'
    BY <1>1, <1>6, <1>7, <1>8, CaAtRest
  <1>10. (stage' = "none" => que' = <<>>) /\ (stage' # "dead" => 0 \notin spilled')
    BY <1>1, <1>4 DEF CaInv
  <1>. QED
    BY <1>1, <1>3, <1>6, <1>9, <1>10, CaCallbackStep

\* _act_done_write_cb: the answer is written.
LEMMA CaActDoneWritten ==
    ASSUME CaInv, ActDoneWritten
    PROVE  CaInv'
  <1>. DEFINE n == done[1]
              p == ActDoneWriteCb(n)
  <1>0. Staged(que, batches, pending, done, spilled, made) /\ made \in Nat
    BY DEF CaInv, Staged
  <1>1. /\ Run(p) /\ prog = <<>> /\ done # <<>> /\ done' = Tail(done)
        /\ UNCHANGED <<stage, que, batches, pending, made, http, spilled>>
    BY DEF ActDoneWritten, Run
  <1>2. /\ Staged(que, batches, pending, Tail(done), spilled, made)
        /\ n \in Range(done) /\ n \in 1 .. made
    BY <1>0, <1>1, AnswerEnds
  <1>3. Staged(que', batches', pending', done', spilled', made')
    BY <1>1, <1>2
  <1>3a. Apart(CaRequestKinds, CaAnswerKinds) /\ n = done[1]
    BY CaKinds
  <1>. HIDE DEF n, p
  <1>4. ASSUME NEW b
        PROVE  CaUses(b)' <=> CaUses(b) /\ ~(b.kind \in CaAnswerKinds /\ b.of = n)
    <2>1. Uses(b, que, batches, Tail(done), CaRequestKinds, CaAnswerKinds)
            <=> /\ Uses(b, que, batches, done, CaRequestKinds, CaAnswerKinds)
                /\ ~(b.kind \in CaAnswerKinds /\ b.of = done[1])
      BY <1>0, <1>1, <1>3a, UsesAnswerEnds
    <2>. QED
      BY <1>1, <1>3a, <2>1, CaKinds DEF CaUses
  <1>5. Mine \in SUBSET Blocks /\ n \in Nat
    BY <1>0, <1>1, <1>2, CaAtRest
  <1>6. \A b \in Blocks : b.of = n /\ b.kind \in CaAnswerKinds => b \in Mine
    <2>. SUFFICES ASSUME NEW b \in Blocks, b.of = n, b.kind \in CaAnswerKinds
                  PROVE  CaUses(b)
      BY <1>1, CaAtRest
    <2>. QED
      BY <1>2 DEF CaUses, Uses
  <1>7. /\ Legal(Mine, p)
        /\ \A b \in Blocks : b \in Kept(Mine, p) <=> b \in Mine /\ ~(b.kind \in CaAnswerKinds /\ b.of = n)
    BY <1>5, <1>6, CaAnswerWritten DEF p, CaAnswerKinds
  <1>8. \A b : CaLeft(b)' <=> CaLeft(b)
    BY <1>1 DEF CaLeft
  <1>9. \A b \in Blocks : /\ CaUses(b)' => b \in Kept(Mine, p)
                          /\ b \in Kept(Mine, p) => CaUses(b)' \/ CaLeft(b)'
    BY <1>1, <1>4, <1>7, <1>8, CaAtRest
  <1>10. (stage' = "none" => que' = <<>>) /\ (stage' # "dead" => 0 \notin spilled')
    BY <1>1 DEF CaInv
  <1>. QED
    BY <1>1, <1>3, <1>7, <1>9, <1>10, CaCallbackStep

\* One call of a callback.
LEMMA CaInstructionStep ==
    ASSUME CaInv, CaInstruction
    PROVE  CaInv'
  <1>1. MemNext /\ UNCHANGED <<stage, que, batches, pending, done, made, http, spilled>>
    BY DEF CaInstruction
  <1>2. PoolInv' /\ Legal(Mine', prog') /\ Kept(Mine', prog') = Kept(Mine, prog)
    BY <1>1, PoolStep DEF CaInv
  <1>3. \A b : (CaUses(b)' <=> CaUses(b)) /\ (CaLeft(b)' <=> CaLeft(b))
    BY <1>1 DEF CaUses, CaLeft
  <1>4. CaLedger'
    BY <1>2, <1>3 DEF CaLedger, CaInv
  <1>. QED
    BY <1>1, <1>2, <1>4 DEF CaInv

\* The blocks of batches that the agent holds are of batches being written
\* or of those whose write failed.
LEMMA CaBatchBlocks ==
    ASSUME CaInv, prog = <<>>, NEW b \in Mine, b.kind \in BatchBlockKinds
    PROVE  b.of \in Sent(batches) \cup (spilled \ {0})
  <1>1. CASE CaLeft(b)
    BY <1>1, CaKinds DEF CaLeft
  <1>2. CASE ~CaLeft(b)
    <2>1. Uses(b, que, batches, done, CaRequestKinds, CaAnswerKinds)
      BY <1>2, CaNotIn, CaKinds
    <2>2. PICK i \in DOMAIN batches : OfBatch(b, batches[i])
      BY <2>1, CaKinds DEF Uses
    <2>3. batches[i] \in Seq(1 .. made) \ {<<>>}
      BY <2>2 DEF CaInv, Staged
    <2>. QED
      BY <2>2, <2>3, BatchIn, SentMembers
  <1>. QED
    BY <1>1, <1>2

\* _pa_handle_queue: the queue is written.
LEMMA CaQueueWritten ==
    ASSUME NEW q, NEW n, Staged(q, batches, pending, done, spilled, n), q # <<>>,
           NEW H \in SUBSET Blocks,
           \A b \in Blocks : b.kind \in CaRequestKinds /\ b.of \in Range(q) => b \in H,
           \A b \in H : b.kind \in BatchBlockKinds => b.of \in Sent(batches) \cup (spilled \ {0})
    PROVE  /\ Legal(H, Writing(q, "x_free", "parameter", "request"))
           /\ \A b \in Allocated(Writing(q, "x_free", "parameter", "request")) :
                b \in Blocks /\ OfBatch(b, q) /\ b.kind \in BatchBlockKinds /\ b \notin H
           /\ \A b \in Blocks : b \in Kept(H, Writing(q, "x_free", "parameter", "request"))
                <=> (b \in H /\ ~(b.kind \in CaRequestKinds /\ b.of \in Range(q))) \/ OfBatch(b, q)
  <1>. DEFINE p == Writing(q, "x_free", "parameter", "request")
  <1>1. /\ q \in Seq(1 .. n) \ {<<>>} /\ n \in Nat /\ IsInjective(q)
        /\ \A m \in Range(q) : m \notin Sent(batches) /\ m \notin spilled
    BY DEF Staged
  <1>2. q \in Seq(Nat)
    <2>. SUFFICES ASSUME NEW m \in Nat, NEW s \in Seq(1 .. m)
                  PROVE  s \in Seq(Nat)
      BY <1>1
    <2>. QED
      OBVIOUS
  <1>. HIDE DEF p
  <1>3. \A b \in H : ~OfBatch(b, q)
    BY <1>1, BatchIn DEF BatchBlockKinds
  <1>4. /\ "parameter" \in Kinds \ BatchBlockKinds /\ "request" \in Kinds \ BatchBlockKinds
        /\ "parameter" # "request" /\ "x_free" \in Releases
    BY DEF Kinds, BatchBlockKinds, Releases
  <1>5. ASSUME NEW m \in Range(q), NEW k \in CaRequestKinds
        PROVE  [kind |-> k, of |-> m] \in H
    <2>1. [kind |-> k, of |-> m] \in Blocks
      BY <1>2, RangeIn, CaKinds DEF Blocks
    <2>. QED
      BY <2>1
  <1>6. \A m \in Range(q) : [kind |-> "parameter", of |-> m] \in H /\ [kind |-> "request", of |-> m] \in H
    BY <1>5 DEF CaRequestKinds
  <1>7. /\ Legal(H, p)
        /\ \A b \in Allocated(p) : b \in Blocks /\ OfBatch(b, q)
        /\ \A b \in Blocks : b \in Kept(H, p)
             <=> (b \in H /\ ~(b.kind \in CaRequestKinds /\ b.of \in Range(q))) \/ OfBatch(b, q)
    BY <1>1, <1>2, <1>3, <1>4, <1>6, BatchMade DEF p, CaRequestKinds
  <1>8. \A b \in Allocated(p) : b.kind \in BatchBlockKinds /\ b \notin H
    BY <1>1, <1>3, <1>7, BatchIn DEF BatchBlockKinds
  <1>. QED
    BY <1>7, <1>8 DEF p

\* _h_on_body: the request is the first for its stage ...
LEMMA CaHOnBodyFirst ==
    ASSUME CaInv, HOnBody, stage = "none"
    PROVE  CaInv'
  <1>. DEFINE n == made + 1
              p1 == ReuseKey
              p2 == Request(n)
              H1 == Kept(Mine, p1)
  <1>0. Staged(que, batches, pending, done, spilled, made) /\ made \in Nat
    BY DEF CaInv, Staged
  <1>1. /\ Run(p1 \o p2) /\ prog = <<>> /\ que = <<>> /\ que' = <<n>> /\ made' = n
        /\ stage' = "connecting"
        /\ UNCHANGED <<batches, pending, done, http, spilled>>
    BY DEF HOnBody, Run, CaInv
  <1>2. /\ Staged(Append(que, made + 1), batches, pending, done, spilled, made + 1)
        /\ made + 1 \notin Range(que) \cup Sent(batches) \cup pending \cup Range(done) \cup spilled
    BY <1>0, Arrives
  <1>3. Append(que, made + 1) = <<n>> /\ n \in Nat /\ n # 0
    BY <1>0, <1>1
  <1>4. ASSUME NEW b
        PROVE  CaUses(b)' <=> Uses(b, que, batches, done, CaRequestKinds, CaAnswerKinds)
                                \/ (b.kind \in CaRequestKinds /\ b.of = n)
    <2>1. Uses(b, Append(que, made + 1), batches, done, CaRequestKinds, CaAnswerKinds)
            <=> \/ Uses(b, que, batches, done, CaRequestKinds, CaAnswerKinds)
                \/ b.kind \in CaRequestKinds /\ b.of = made + 1
      BY <1>0, UsesArrives
    <2>. QED
      BY <1>1, <1>3, <2>1 DEF CaUses
  <1>. HIDE DEF p1, p2, H1
  <1>5. Staged(que', batches', pending', done', spilled', made')
    BY <1>1, <1>2, <1>3
  <1>6. Mine \in SUBSET Blocks
    BY <1>1, CaAtRest
  <1>7. ASSUME NEW b \in Mine
        PROVE  b.kind \notin {"key", "name"} /\ ~(b.of = n /\ b.kind \in CaRequestKinds)
    <2>. SUFFICES ASSUME b.kind \in {"key", "name"} \/ (b.of = n /\ b.kind \in CaRequestKinds)
                  PROVE  FALSE
      OBVIOUS
    <2>1. ~CaLeft(b)
      BY <1>1, CaKinds DEF CaLeft
    <2>. QED
      BY <1>1, <1>2, <1>3, <2>1, CaNotIn, CaKinds
  <1>8. /\ Legal(Mine, p1)
        /\ \A b \in Allocated(p1) : b.kind \in {"key", "name"}
        /\ \A b \in Blocks : /\ b \in Mine => b \in H1
                             /\ b \in H1 => b \in Mine \/ b.kind \in {"key", "name"}
    BY <1>6, <1>7, CaReusesKey DEF p1, H1
  <1>9. H1 \in SUBSET Blocks
    BY <1>6, <1>8, KeptIn DEF H1
  <1>10. /\ Legal(H1, p2)
         /\ \A b \in Allocated(p2) : b.kind \in CaRequestKinds /\ b.of = n
         /\ \A b \in Blocks : b \in Kept(H1, p2) <=> b \in H1 \/ (b.kind \in CaRequestKinds /\ b.of = n)
    <2>1. \A b \in H1 : b.of = n => b.kind \notin CaRequestKinds
      BY <1>7, <1>8, <1>9, CaKinds
    <2>. QED
      BY <1>3, <1>9, <2>1, CaRequests DEF p2, CaRequestKinds
  <1>11. Legal(Mine, p1 \o p2) /\ Kept(Mine, p1 \o p2) = Kept(H1, p2)
    <2>1. \A b \in Allocated(p2) : b \notin Mine /\ b \notin Allocated(p1)
      BY <1>7, <1>8, <1>10, CaKinds
    <2>. QED
      BY <1>8, <1>10, <2>1, Sequel DEF H1
  <1>12. ASSUME NEW b
         PROVE  /\ CaLeft(b) => CaLeft(b)'
                /\ b.kind \in {"key", "name"} => CaLeft(b)'
    <2>1. Range(que') = Range(que) \cup {n}
      <3>1. Range(Append(que, n)) = Range(que) \cup {n}
        BY <1>0, RangeAppend DEF Staged
      <3>. QED
        BY <1>1, <1>3, <3>1
    <2>2. \A m \in 1 .. made : m \in 1 .. n /\ m # n
      BY <1>0
    <2>. QED
      BY <1>1, <2>1, <2>2 DEF CaLeft
  <1>13. \A b \in Blocks : /\ CaUses(b)' => b \in Kept(Mine, p1 \o p2)
                           /\ b \in Kept(Mine, p1 \o p2) => CaUses(b)' \/ CaLeft(b)'
    <2>1. \A b : CaUses(b) <=> Uses(b, que, batches, done, CaRequestKinds, CaAnswerKinds)
      BY <1>1 DEF CaUses
    <2>. QED
      BY <1>1, <1>4, <1>8, <1>10, <1>11, <1>12, <2>1, CaAtRest
  <1>14. (stage' = "none" => que' = <<>>) /\ (stage' # "dead" => 0 \notin spilled')
    BY <1>1 DEF CaInv
  <1>. QED
    BY <1>1, <1>5, <1>11, <1>13, <1>14, CaCallbackStep

\* ... or waits with others ...
LEMMA CaHOnBodyQueued ==
    ASSUME CaInv, HOnBody, stage # "none", stage # "ready"
    PROVE  CaInv'
  <1>. DEFINE n == made + 1
              p == Request(n)
  <1>0. Staged(que, batches, pending, done, spilled, made) /\ made \in Nat
    BY DEF CaInv, Staged
  <1>1. /\ Run(p) /\ prog = <<>> /\ que' = Append(que, n) /\ made' = n
        /\ UNCHANGED <<stage, batches, pending, done, http, spilled>>
    BY DEF HOnBody, Run, CaInv
  <1>2. /\ Staged(Append(que, made + 1), batches, pending, done, spilled, made + 1)
        /\ made + 1 \notin Range(que) \cup Sent(batches) \cup pending \cup Range(done) \cup spilled
    BY <1>0, Arrives
  <1>3. n \in Nat /\ n # 0
    BY <1>0
  <1>4. ASSUME NEW b
        PROVE  CaUses(b)' <=> CaUses(b) \/ (b.kind \in CaRequestKinds /\ b.of = n)
    <2>1. Uses(b, Append(que, made + 1), batches, done, CaRequestKinds, CaAnswerKinds)
            <=> \/ Uses(b, que, batches, done, CaRequestKinds, CaAnswerKinds)
                \/ b.kind \in CaRequestKinds /\ b.of = made + 1
      BY <1>0, UsesArrives
    <2>. QED
      BY <1>1, <2>1 DEF CaUses
  <1>. HIDE DEF p
  <1>5. Staged(que', batches', pending', done', spilled', made')
    BY <1>1, <1>2
  <1>6. Mine \in SUBSET Blocks
    BY <1>1, CaAtRest
  <1>7. ASSUME NEW b \in Mine, b.of = n, b.kind \in CaRequestKinds
        PROVE  FALSE
    <2>1. ~CaLeft(b)
      BY <1>7, CaKinds DEF CaLeft
    <2>. QED
      BY <1>1, <1>2, <1>3, <1>7, <2>1, CaNotIn, CaKinds
  <1>8. /\ Legal(Mine, p)
        /\ \A b \in Blocks : b \in Kept(Mine, p) <=> b \in Mine \/ (b.kind \in CaRequestKinds /\ b.of = n)
    BY <1>3, <1>6, <1>7, CaRequests DEF p, CaRequestKinds
  <1>9. ASSUME NEW b, CaLeft(b)
        PROVE  CaLeft(b)'
    <2>1. Range(que') = Range(que) \cup {n}
      BY <1>0, <1>1, RangeAppend DEF Staged
    <2>2. \A m \in 1 .. made : m \in 1 .. n /\ m # n
      BY <1>0
    <2>. QED
      BY <1>1, <1>9, <2>1, <2>2 DEF CaLeft
  <1>10. \A b \in Blocks : /\ CaUses(b)' => b \in Kept(Mine, p)
                           /\ b \in Kept(Mine, p) => CaUses(b)' \/ CaLeft(b)'
    BY <1>1, <1>4, <1>8, <1>9, CaAtRest
  <1>11. (stage' = "none" => que' = <<>>) /\ (stage' # "dead" => 0 \notin spilled')
    BY <1>1 DEF CaInv
  <1>. QED
    BY <1>1, <1>5, <1>8, <1>10, <1>11, CaCallbackStep

\* ... or is written at once, after those that wait.
LEMMA CaHOnBodyWritten ==
    ASSUME CaInv, HOnBody, stage = "ready"
    PROVE  CaInv'
  <1>. DEFINE n == made + 1
              q == Append(que, n)
              p1 == Request(n)
              p2 == Writing(q, "x_free", "parameter", "request")
              H1 == Kept(Mine, p1)
  <1>0. Staged(que, batches, pending, done, spilled, made) /\ made \in Nat
    BY DEF CaInv, Staged
  <1>1. /\ Run(p1 \o p2) /\ prog = <<>> /\ batches' = Append(batches, q) /\ que' = <<>> /\ made' = n
        /\ UNCHANGED <<stage, pending, done, http, spilled>>
    BY CaBatches DEF HOnBody, Run
  <1>2. /\ Staged(q, batches, pending, done, spilled, n)
        /\ n \notin Range(que) \cup Sent(batches) \cup pending \cup Range(done) \cup spilled
    BY <1>0, Arrives
  <1>3. n \in Nat /\ n # 0 /\ q # <<>> /\ Range(q) = Range(que) \cup {n}
    <2>1. Range(q) = Range(que) \cup {n}
      BY <1>0, RangeAppend DEF Staged
    <2>2. n \in Range(q) /\ Range(<<>>) = {}
      BY <2>1 DEF Range
    <2>. QED
      BY <1>0, <2>1, <2>2
  <1>4. ASSUME NEW b
        PROVE  Uses(b, q, batches, done, CaRequestKinds, CaAnswerKinds)
                 <=> \/ Uses(b, que, batches, done, CaRequestKinds, CaAnswerKinds)
                     \/ b.kind \in CaRequestKinds /\ b.of = n
    BY <1>0, UsesArrives
  <1>5. \A m \in 1 .. made : m \in 1 .. n /\ m # n
    BY <1>0
  <1>. HIDE DEF n, q, p1, p2, H1
  <1>6. Staged(<<>>, Append(batches, q), pending, done, spilled, n)
    BY <1>2, <1>3, Flushed
  <1>7. Staged(que', batches', pending', done', spilled', made')
    BY <1>1, <1>6
  <1>8. Mine \in SUBSET Blocks
    BY <1>1, CaAtRest
  <1>9. ASSUME NEW b \in Mine, b.of = n, b.kind \in CaRequestKinds
        PROVE  FALSE
    <2>1. ~CaLeft(b)
      BY <1>9, CaKinds DEF CaLeft
    <2>. QED
      BY <1>1, <1>2, <1>3, <1>9, <2>1, CaNotIn, CaKinds
  <1>10. /\ Legal(Mine, p1)
         /\ \A b \in Allocated(p1) : b.kind \in CaRequestKinds /\ b.of = n
         /\ \A b \in Blocks : b \in H1 <=> b \in Mine \/ (b.kind \in CaRequestKinds /\ b.of = n)
    BY <1>3, <1>8, <1>9, CaRequests DEF p1, H1, CaRequestKinds
  <1>11. H1 \in SUBSET Blocks
    BY <1>8, <1>10, KeptIn DEF H1
  <1>12. ASSUME NEW b \in Blocks, b.kind \in CaRequestKinds, b.of \in Range(q)
         PROVE  b \in H1
    <2>1. b.of \in Range(que) => CaUses(b)
      BY <1>12 DEF CaUses, Uses
    <2>. QED
      BY <1>1, <1>3, <1>10, <1>12, <2>1, CaAtRest
  <1>13. \A b \in H1 : b.kind \in BatchBlockKinds => b.of \in Sent(batches) \cup (spilled \ {0})
    BY <1>1, <1>10, <1>11, CaBatchBlocks, CaKinds
  <1>14. /\ Legal(H1, p2)
         /\ \A b \in Allocated(p2) :
              b \in Blocks /\ OfBatch(b, q) /\ b.kind \in BatchBlockKinds /\ b \notin H1
         /\ \A b \in Blocks : b \in Kept(H1, p2)
              <=> (b \in H1 /\ ~(b.kind \in CaRequestKinds /\ b.of \in Range(q))) \/ OfBatch(b, q)
    BY <1>2, <1>3, <1>11, <1>12, <1>13, CaQueueWritten DEF p2
  <1>15. Legal(Mine, p1 \o p2) /\ Kept(Mine, p1 \o p2) = Kept(H1, p2)
    <2>1. \A b \in Allocated(p2) : b \notin Mine /\ b \notin Allocated(p1)
      BY <1>8, <1>10, <1>14, CaKinds
    <2>. QED
      BY <1>10, <1>14, <2>1, Sequel DEF H1
  <1>16. Sent(Append(batches, q)) = Sent(batches) \cup Range(que) \cup {n} /\ Range(<<>>) = {}
    <2>1. batches \in Seq(Seq(1 .. n) \ {<<>>}) /\ q \in Seq(1 .. n) \ {<<>>}
      BY <1>2, <1>3 DEF Staged
    <2>2. Sent(Append(batches, q)) = Sent(batches) \cup Range(q)
      BY <2>1, SentAppend
    <2>. QED
      BY <1>3, <2>2 DEF Range
  <1>17. ASSUME NEW b, CaLeft(b)
         PROVE  CaLeft(b)'
    BY <1>1, <1>5, <1>16, <1>17 DEF CaLeft
  <1>18. ASSUME NEW b
         PROVE  CaUses(b)' <=> \/ /\ CaUses(b) \/ (b.kind \in CaRequestKinds /\ b.of = n)
                                  /\ ~(b.kind \in CaRequestKinds /\ b.of \in Range(q))
                               \/ OfBatch(b, q)
    <2>1. Uses(b, <<>>, Append(batches, q), done, CaRequestKinds, CaAnswerKinds)
            <=> \/ /\ Uses(b, q, batches, done, CaRequestKinds, CaAnswerKinds)
                   /\ ~(b.kind \in CaRequestKinds /\ b.of \in Range(q))
                \/ OfBatch(b, q)
      BY <1>2, <1>3, UsesFlushed, CaKinds
    <2>. QED
      BY <1>1, <1>4, <2>1 DEF CaUses
  <1>19. ASSUME NEW b, CaLeft(b)
         PROVE  b.kind \notin CaRequestKinds
    BY <1>19, CaKinds DEF CaLeft
  <1>20. \A b \in Blocks : /\ CaUses(b)' => b \in Kept(Mine, p1 \o p2)
                           /\ b \in Kept(Mine, p1 \o p2) => CaUses(b)' \/ CaLeft(b)'
    BY <1>1, <1>10, <1>14, <1>15, <1>17, <1>18, <1>19, CaAtRest
  <1>21. (stage' = "none" => que' = <<>>) /\ (stage' # "dead" => 0 \notin spilled')
    BY <1>1 DEF CaInv
  <1>. QED
    BY <1>1, <1>7, <1>15, <1>20, <1>21, CaCallbackStep

\* _pa_key_write_cb: the header is written, then what waits; or the write
\* failed and its blocks stay.
LEMMA CaPaKeyWriteCb ==
    ASSUME CaInv, PaKeyWriteCb
    PROVE  CaInv'
  <1>. DEFINE p1 == Writing(que, "x_free", "parameter", "request")
              p2 == KeyWritten
              H1 == Kept(Mine, p1)
  <1>0. Staged(que, batches, pending, done, spilled, made) /\ made \in Nat
    BY DEF CaInv, Staged
  <1>1. /\ prog = <<>> /\ stage = "keying" /\ 0 \notin spilled
        /\ \/ /\ stage' = "ready" /\ Run(p1 \o p2) /\ que' = <<>> /\ spilled' = spilled
              /\ batches' = IF que = <<>> THEN batches ELSE Append(batches, que)
           \/ /\ stage' = "dead" /\ Run(<<>>) /\ spilled' = spilled \cup {0}
              /\ que' = que /\ batches' = batches
        /\ UNCHANGED <<pending, done, made, http>>
    BY CaBatches DEF PaKeyWriteCb, Run, CaInv
  <1>2. Mine \in SUBSET Blocks
    BY <1>1, CaAtRest
  <1>3. CASE stage' = "dead"
    <2>1. /\ Run(<<>>) /\ spilled' = spilled \cup {0}
          /\ UNCHANGED <<que, batches, pending, done, made, http>>
      BY <1>1, <1>3
    <2>2. Staged(que, batches, pending, done, spilled \cup {0}, made)
      <3>1. 0 \notin Range(que) \cup Sent(batches) \cup Range(done)
        BY <1>0, StagedIn
      <3>2. 0 \notin pending /\ 0 \in 0 .. made
        BY <1>0 DEF Staged
      <3>. QED
        BY <1>0, <3>1, <3>2 DEF Staged
    <2>3. Staged(que', batches', pending', done', spilled', made')
      BY <2>1, <2>2
    <2>4. Legal(Mine, <<>>) /\ Kept(Mine, <<>>) = Mine
      BY AtEnd
    <2>5. ASSUME NEW b
          PROVE  /\ CaUses(b)' => CaUses(b)
                 /\ CaUses(b) \/ CaLeft(b) => CaUses(b)' \/ CaLeft(b)'
      BY <1>1, <1>3, <2>1 DEF CaUses, CaLeft
    <2>6. \A b \in Blocks : /\ CaUses(b)' => b \in Kept(Mine, <<>>)
                            /\ b \in Kept(Mine, <<>>) => CaUses(b)' \/ CaLeft(b)'
      BY <1>1, <2>4, <2>5, CaAtRest
    <2>. QED
      BY <1>3, <2>1, <2>3, <2>4, <2>6, CaCallbackStep
  <1>4. CASE stage' # "dead"
    <2>1. /\ stage' = "ready" /\ Run(p1 \o p2) /\ que' = <<>>
          /\ batches' = IF que = <<>> THEN batches ELSE Append(batches, que)
          /\ UNCHANGED <<pending, done, made, http, spilled>>
      BY <1>1, <1>4
    <2>. HIDE DEF p1, p2, H1
    <2>2. /\ Legal(Mine, p1)
          /\ \A b \in Blocks : b \in H1
               <=> \/ b \in Mine /\ ~(b.kind \in CaRequestKinds /\ b.of \in Range(que))
                   \/ que # <<>> /\ OfBatch(b, que)
      <3>1. CASE que = <<>>
        <4>1. [kind |-> "bufs", of |-> 0] \notin Mine
          <5>. SUFFICES ASSUME [kind |-> "bufs", of |-> 0] \in Mine
                        PROVE  FALSE
            OBVIOUS
          <5>. DEFINE b == [kind |-> "bufs", of |-> 0]
          <5>1. b.of \in Sent(batches)
            BY <1>1, CaBatchBlocks DEF BatchBlockKinds
          <5>. QED
            BY <1>0, <5>1, StagedIn
        <4>2. Legal(Mine, p1) /\ H1 = Mine
          BY <3>1, <4>1, NothingWritten DEF p1, H1, Releases
        <4>. QED
          BY <3>1, <4>2 DEF Range
      <3>2. CASE que # <<>>
        <4>1. ASSUME NEW b \in Blocks, b.kind \in CaRequestKinds, b.of \in Range(que)
              PROVE  b \in Mine
          <5>1. CaUses(b)
            BY <4>1 DEF CaUses, Uses
          <5>. QED
            BY <1>1, <5>1, CaAtRest
        <4>2. \A b \in Mine : b.kind \in BatchBlockKinds => b.of \in Sent(batches) \cup (spilled \ {0})
          BY <1>1, CaBatchBlocks
        <4>. QED
          BY <1>0, <1>2, <3>2, <4>1, <4>2, CaQueueWritten DEF p1, H1
      <3>. QED
        BY <3>1, <3>2
    <2>3. H1 \in SUBSET Blocks
      BY <1>2, <2>2, KeptIn DEF H1
    <2>4. ASSUME NEW b \in Blocks, b.of = 0, b.kind \in CaKeyKinds
          PROVE  b \in H1
      <3>1. b \in Mine
        BY <1>1, <2>4, CaAtRest DEF CaUses
      <3>. QED
        BY <2>2, <2>4, <3>1, CaKinds
    <2>5. /\ Legal(H1, p2)
          /\ \A b : b \notin Allocated(p2)
          /\ \A b \in Blocks : b \in Kept(H1, p2) <=> b \in H1 /\ ~(b.kind \in CaKeyKinds /\ b.of = 0)
      BY <2>3, <2>4, CaKeyWritten DEF p2, CaKeyKinds
    <2>6. Legal(Mine, p1 \o p2) /\ Kept(Mine, p1 \o p2) = Kept(H1, p2)
      BY <2>2, <2>5, Sequel DEF H1
    <2>7. /\ Staged(que', batches', pending', done', spilled', made')
          /\ Range(que') \cup Sent(batches') = Range(que) \cup Sent(batches)
      <3>1. CASE que = <<>>
        BY <1>0, <2>1, <3>1
      <3>2. CASE que # <<>>
        <4>1. Staged(<<>>, Append(batches, que), pending, done, spilled, made)
          BY <1>0, <3>2, Flushed
        <4>2. batches \in Seq(Seq(1 .. made) \ {<<>>}) /\ Range(<<>>) = {}
          BY <1>0 DEF Staged, Range
        <4>3. Sent(Append(batches, que)) = Sent(batches) \cup Range(que)
          BY <4>2, SentAppend
        <4>. QED
          BY <2>1, <3>2, <4>1, <4>2, <4>3
      <3>. QED
        BY <3>1, <3>2
    <2>8. ASSUME NEW b
          PROVE  CaUses(b)' <=> \/ /\ Uses(b, que, batches, done, CaRequestKinds, CaAnswerKinds)
                                   /\ ~(b.kind \in CaRequestKinds /\ b.of \in Range(que))
                                \/ que # <<>> /\ OfBatch(b, que)
      <3>1. CASE que = <<>>
        BY <2>1, <3>1 DEF CaUses, Range
      <3>2. CASE que # <<>>
        <4>1. Uses(b, <<>>, Append(batches, que), done, CaRequestKinds, CaAnswerKinds)
                <=> \/ /\ Uses(b, que, batches, done, CaRequestKinds, CaAnswerKinds)
                       /\ ~(b.kind \in CaRequestKinds /\ b.of \in Range(que))
                    \/ OfBatch(b, que)
          BY <1>0, <3>2, UsesFlushed, CaKinds
        <4>. QED
          BY <2>1, <3>2, <4>1 DEF CaUses
      <3>. QED
        BY <3>1, <3>2
    <2>9. ASSUME NEW b
          PROVE  /\ CaLeft(b) => CaLeft(b)' /\ b.kind \notin CaRequestKinds
                 /\ CaLeft(b) => ~(b.kind \in CaKeyKinds /\ b.of = 0)
      <3>1. CaLeft(b) => CaLeft(b)'
        BY <1>1, <2>1, <2>7 DEF CaLeft
      <3>2. CaLeft(b) => b.kind \notin CaRequestKinds /\ ~(b.kind \in CaKeyKinds /\ b.of = 0)
        BY <1>1, CaKinds DEF CaLeft
      <3>. QED
        BY <3>1, <3>2
    <2>10. ASSUME NEW b
           PROVE  /\ OfBatch(b, que) /\ que # <<>> => b.kind \in BatchBlockKinds
                  /\ Uses(b, que, batches, done, CaRequestKinds, CaAnswerKinds) => b.kind \notin CaKeyKinds
      <3>1. OfBatch(b, que) /\ que # <<>> => b.kind \in BatchBlockKinds
        <4>1. que # <<>> => que \in Seq(1 .. made) \ {<<>>}
          BY <1>0 DEF Staged
        <4>. QED
          BY <4>1, BatchIn DEF BatchBlockKinds
      <3>2. Uses(b, que, batches, done, CaRequestKinds, CaAnswerKinds) =>
              b.kind \in CaRequestKinds \cup CaAnswerKinds \cup BatchBlockKinds
        BY <1>0, UsedIn DEF BatchBlockKinds
      <3>. QED
        BY <3>1, <3>2, CaKinds
    <2>11. ASSUME NEW b \in Blocks
           PROVE  /\ CaUses(b)' => b \in Kept(H1, p2)
                  /\ b \in Kept(H1, p2) => CaUses(b)' \/ CaLeft(b)'
      <3>1. /\ Uses(b, que, batches, done, CaRequestKinds, CaAnswerKinds) => b \in Mine
            /\ b \in Mine => \/ Uses(b, que, batches, done, CaRequestKinds, CaAnswerKinds)
                             \/ b.kind \in CaKeyKinds /\ b.of = 0
                             \/ CaLeft(b)
        BY <1>1, CaAtRest DEF CaUses
      <3>. QED
        BY <2>2, <2>5, <2>8, <2>9, <2>10, <3>1, CaKinds
    <2>. QED
      BY <1>1, <2>1, <2>6, <2>7, <2>11, CaCallbackStep
  <1>. QED
    BY <1>3, <1>4

LEMMA CaStart ==
    ASSUME CaInit
    PROVE  CaInv
  <1>1. /\ MemInit /\ que = <<>> /\ batches = <<>> /\ pending = {} /\ done = <<>>
        /\ made = 0 /\ spilled = {} /\ stage = "none"
    BY DEF CaInit
  <1>2. PoolInv /\ Mine = {} /\ prog = <<>>
    BY <1>1, PoolStart
  <1>3. Legal(Mine, prog) /\ Kept(Mine, prog) = {}
    BY <1>2, AtEnd
  <1>4. Staged(que, batches, pending, done, spilled, made)
    BY <1>1, NothingYet
  <1>5. \A b : ~CaUses(b)
    BY <1>1, NothingYet DEF CaUses
  <1>6. CaLedger
    BY <1>3, <1>5 DEF CaLedger
  <1>. QED
    BY <1>1, <1>2, <1>3, <1>4, <1>6 DEF CaInv

LEMMA CaStep ==
    ASSUME CaInv, [CaNext]_(caVars)
    PROVE  CaInv'
  <1>1. CASE CaOnConn
    BY <1>1, CaOnConnStep
  <1>2. CASE HOnBody
    BY <1>2, CaHOnBodyFirst, CaHOnBodyQueued, CaHOnBodyWritten
  <1>3. CASE HttpClose
    BY <1>3, CaHttpClose
  <1>4. CASE PaOnConn
    BY <1>4, CaPaOnConn
  <1>5. CASE PaKeyWriteCb
    BY <1>5, CaPaKeyWriteCb
  <1>6. CASE PaWriteDone
    BY <1>6, CaPaWriteDone
  <1>7. CASE ActDoneWritten
    BY <1>7, CaActDoneWritten
  <1>8. CASE \E n \in pending : PaReadCb(n)
    BY <1>8, CaPaReadCb
  <1>9. CASE CaInstruction
    BY <1>9, CaInstructionStep
  <1>10. CASE UNCHANGED caVars
    <2>1. /\ UNCHANGED <<heap, ptr_size_map, ptr_pool, held, prog>>
          /\ UNCHANGED <<stage, que, batches, pending, done, made, http, spilled>>
      BY <1>10 DEF caVars, mem
    <2>2. PoolInv' <=> PoolInv
      BY <2>1 DEF PoolInv, Mine, MemorySound, HeldBlocksSound, PoolSound
    <2>3. Mine' = Mine
      BY <2>1 DEF Mine
    <2>4. \A b : (CaUses(b)' <=> CaUses(b)) /\ (CaLeft(b)' <=> CaLeft(b))
      BY <2>1 DEF CaUses, CaLeft
    <2>5. Kept(Mine', prog') = Kept(Mine, prog) /\ (Legal(Mine', prog') <=> Legal(Mine, prog))
      BY <2>1, <2>3
    <2>6. CaLedger' <=> CaLedger
      BY <2>4, <2>5 DEF CaLedger
    <2>. QED
      BY <2>1, <2>2, <2>5, <2>6 DEF CaInv
  <1>. QED
    BY <1>1, <1>2, <1>3, <1>4, <1>5, <1>6, <1>7, <1>8, <1>9, <1>10 DEF CaNext, CaCallback

\* Whatever the callbacks and the rest of the program do, the consumer agent
\* holds what its requests need.
THEOREM CaInvariant == CaSpec => []CaInv
  <1>. QED
    BY CaStart, CaStep, PTL DEF CaSpec

\* The consumer agent's blocks are its own and those of the pool are free
\* (x_malloc and x_free of bytebuf.cc).
THEOREM CaMemorySound == CaSpec => []MemorySound
  <1>1. CaInv => MemorySound
    BY DEF CaInv, PoolInv
  <1>. QED
    BY <1>1, CaInvariant, PTL

\* At rest the consumer agent holds nothing for a request any more, but the
\* results, which act_done_callback never releases, and what the error paths
\* of _pa_write_cb, _pa_key_write_cb and a closed HTTP connection leave.
THEOREM CaOnlyResultsLeak == CaSpec => []OnlyResultsLeak
  <1>1. ASSUME CaInv, prog = <<>>, que = <<>>, batches = <<>>, done = <<>>, stage # "keying",
               NEW b \in DOMAIN held, b # Other
        PROVE  b.kind \in CaLinkBlocks \cup {"result"} \/ b.of \in spilled
    <2>1. b \in Mine
      BY <1>1 DEF Mine
    <2>2. ~CaUses(b)
      BY <1>1, NothingYet DEF CaUses
    <2>3. CaLeft(b)
      BY <1>1, <2>1, <2>2, CaAtRest
    <2>. QED
      BY <2>3 DEF CaLeft, CaLinkBlocks
  <1>2. CaInv => OnlyResultsLeak
    BY <1>1 DEF OnlyResultsLeak, AtRest, Other, CaLinkBlocks
  <1>. QED
    BY <1>2, CaInvariant, PTL
=============================================================================
