---------------------------- MODULE FrameReader ----------------------------
(***************************************************************************)
(* How the three read loops of the C++ agents cut a TCP byte stream into   *)
(* frames: the buffers and their pool (src/uv/bytebuf.cc), the allocation  *)
(* callbacks _pa_alloc_cb, _d_alloc_cb, _p_alloc_cb and _ca_alloc_cb, which *)
(* are the same code, and the loops of _pa_read_cb (pa_client.cc), _d_read_cb *)
(* (dubbo_client.cc) and on_read (pa.cc), which differ in the fields of a  *)
(* frame only.                                                             *)
(*                                                                         *)
(* A byte is its position in its stream: <<s, n>> is the n-th byte of      *)
(* stream s.  A frame is the sequence of the lengths of its fields, e.g.   *)
(* <<4, 4, d>> (id, length, data) for a reply.  The streams share a pool,  *)
(* as all the connections of one pa_server or ca_server do.                *)
(***************************************************************************)
EXTENDS Integers, Sequences

CONSTANTS
    Streams,
    Format,             \* stream -> the frames its sender writes
    HalfWord, Word, DoubleWord,   \* widths of the fixed-size fields (2, 4 and 8)
    Size                \* the suggested_size of libuv (65536)

ASSUME ReaderAssumption ==
    /\ Size \in Nat /\ Size >= 3
    /\ {HalfWord, Word, DoubleWord} \subseteq Nat \ {0}
    /\ Format \in [Streams -> Seq(Seq(Nat) \ {<<>>})]
    /\ \A s \in Streams : \A i \in DOMAIN Format[s] : Format[s][i][1] > 0
    /\ "none" \notin Streams

\* The fields of each kind of frame, with the length of the data free.
ReplyFields(d) == <<Word, Word, d>>                       \* _pa_read_cb: id, length, result
DubboFields(d) == <<Word, DoubleWord, Word, d>>                 \* _d_read_cb: magic, id, length, result
HeaderFields(i, m, t) == <<HalfWord, Word, i, Word, m, Word, t>>  \* on_read: magic and the three names
RequestFields(d) == <<Word, Word, d>>                     \* on_read: id, length, parameter

NoBuf == 0
NoStream == "none"

\* Sums(w)[k]: the first k elements of w, added up.
Sums(w) ==
    LET f[k \in Nat] == IF k = 0 THEN 0 ELSE f[k - 1] + w[k]
    IN  f

\* The bytes of each frame of a stream, and of all of them; the lengths its
\* fields have.
FrameLengths(s) == [i \in DOMAIN Format[s] |-> Sums(Format[s][i])[Len(Format[s][i])]]
Total == [s \in Streams |-> Sums(FrameLengths(s))[Len(Format[s])]]
FieldLengths(s) == UNION {{Format[s][i][k] : k \in DOMAIN Format[s][i]} : i \in DOMAIN Format[s]}

VARIABLES
    bufs,               \* buffers created so far are 1 .. bufs
    pool,               \* the buffers in the pool
    mem,                \* buffer -> the bytes at 0 .. write_idx - 1
    ri,                 \* buffer -> read_idx
    cur,                \* stream -> its buffer, or NoBuf
    received,           \* stream -> bytes read from the socket
    state,              \* stream -> read_state: fields of the frame parsed
    done,               \* stream -> frames delivered
    parsed,             \* stream -> bytes taken by the parser
    starved,            \* stream -> a read found no room (UV_ENOBUFS)
    active, top         \* the stream inside its read callback, if any, and
                        \*   whether it is at the test of the while loop

vars == <<bufs, pool, mem, ri, cur, received, state, done, parsed, starved, active, top>>

Init ==
    /\ bufs = 0 /\ pool = {}
    /\ mem = <<>> /\ ri = <<>>
    /\ cur = [s \in Streams |-> NoBuf]
    /\ received = [s \in Streams |-> 0]
    /\ state = [s \in Streams |-> 0]
    /\ done = [s \in Streams |-> 0]
    /\ parsed = [s \in Streams |-> 0]
    /\ starved = [s \in Streams |-> FALSE]
    /\ active = NoStream /\ top = FALSE

-----------------------------------------------------------------------------
Wi(b) == Len(mem[b])
Avail(b) == Wi(b) - ri[b]
Unread(b) == SubSeq(mem[b], ri[b] + 1, Wi(b))

\* A bug bytebuf.cc could have: the pool forgets to take the buffer out.
PoolAfterNoPop(old, new) == pool \cup ({old} \ {NoBuf})

\* pool_malloc took new, pool_free gave back old.
PoolAfter(old, new) == (pool \ {new}) \cup ({old} \ {NoBuf})

\* A bug an alloc_cb could have: the copy takes the old buffer from its start.
CopiedFromStart(old) == IF old = NoBuf THEN <<>> ELSE mem[old]

\* The copy loop of an alloc_cb.
Copied(old) == IF old = NoBuf THEN <<>> ELSE Unread(old)

\* A bug an alloc_cb could have: a buffer is changed only once it is full of
\* data nobody has read.
NoRoomLate(old) == old = NoBuf \/ Avail(old) = Size

\* remain < suggested_size / 3.
NoRoom(old) == (IF old = NoBuf THEN 0 ELSE Size - Wi(old)) < Size \div 3

\* alloc_cb: the stream keeps its buffer, or moves what it has not read to
\* one from the pool (flipped) or to a new one.  The last argument is what the
\* read that follows appends.
Alloc(s, new, bytes) ==
    LET old == cur[s] IN
    IF NoRoom(old)
    THEN /\ new \in IF pool = {} THEN {bufs + 1} ELSE pool
         /\ bufs' = IF pool = {} THEN bufs + 1 ELSE bufs
         /\ pool' = PoolAfter(old, new)
         /\ cur' = [cur EXCEPT ![s] = new]
         /\ mem' = [b \in 1 .. bufs' |-> IF b = new THEN Copied(old) \o bytes ELSE mem[b]]
         /\ ri' = [b \in 1 .. bufs' |-> IF b = new THEN 0 ELSE ri[b]]
    ELSE /\ new = old
         /\ mem' = [mem EXCEPT ![old] = @ \o bytes]
         /\ UNCHANGED <<bufs, pool, cur, ri>>

\* The room alloc_cb offers to read().
Room(s) == IF NoRoom(cur[s]) THEN Size - Len(Copied(cur[s])) ELSE Size - Wi(cur[s])

\* alloc_cb, then read() gives n bytes, then read_cb enters its loop.
Read(s, n) ==
    /\ active = NoStream /\ ~starved[s]
    /\ n <= Room(s) /\ received[s] + n <= Total[s]
    /\ \E new \in 0 .. bufs + 1 : Alloc(s, new, [j \in 1 .. n |-> <<s, received[s] + j>>])
    /\ received' = [received EXCEPT ![s] = @ + n]
    /\ active' = s /\ top' = TRUE
    /\ UNCHANGED <<state, done, parsed, starved>>

\* alloc_cb offers no room: libuv reports UV_ENOBUFS; pa.cc and ca.cc close
\* the connection, the two clients log it and stop parsing it for good.
ReadNoBufs(s) ==
    /\ active = NoStream /\ ~starved[s]
    /\ Room(s) = 0 /\ received[s] < Total[s]
    /\ \E new \in 0 .. bufs + 1 : Alloc(s, new, <<>>)
    /\ starved' = [starved EXCEPT ![s] = TRUE]
    /\ UNCHANGED <<received, state, done, parsed, active, top>>

Buf == cur[active]

\* The read loop ends: nothing left, or the next field is not complete.
Leave ==
    /\ active' = NoStream /\ top' = FALSE
    /\ UNCHANGED <<bufs, pool, mem, ri, cur, received, state, done, parsed, starved>>

\* while(read_idx < write_idx).
LoopTest ==
    /\ active # NoStream /\ top
    /\ IF ri[Buf] < Wi(Buf)
       THEN /\ top' = FALSE
            /\ UNCHANGED <<bufs, pool, mem, ri, cur, received, state, done, parsed, starved, active>>
       ELSE Leave

\* The frame being parsed, and the length of its next field.
Frame(s) == Format[s][done[s] + 1]
Need(s) == Frame(s)[state[s] + 1]

\* A bug a read loop could have: a field must be exceeded, not just reached.
EnoughStrict(s) == Avail(cur[s]) > Need(s)

\* write_idx - read_idx >= the length of the field.
Enough(s) == Avail(cur[s]) >= Need(s)

\* The block for the current state: take the field if it is there, and fall
\* through to the next one; after the last one the frame is delivered and
\* the loop starts over.
Block ==
    /\ active # NoStream /\ ~top
    /\ IF Enough(active)
       THEN LET last == state[active] + 1 = Len(Frame(active))
            IN /\ ri' = [ri EXCEPT ![Buf] = @ + Need(active)]
               /\ parsed' = [parsed EXCEPT ![active] = @ + Need(active)]
               /\ state' = [state EXCEPT ![active] = IF last THEN 0 ELSE @ + 1]
               /\ done' = [done EXCEPT ![active] = IF last THEN @ + 1 ELSE @]
               /\ top' = last
               /\ UNCHANGED <<bufs, pool, mem, cur, received, starved, active>>
       ELSE Leave

Next ==
    \/ \E s \in Streams : \E n \in 0 .. Size : Read(s, n)
    \/ \E s \in Streams : ReadNoBufs(s)
    \/ LoopTest
    \/ Block

\* The event loop polls every readable socket; a callback runs to its end.
Fairness ==
    /\ WF_vars(LoopTest \/ Block)
    /\ \A s \in Streams : SF_vars(\E n \in 1 .. Size : Read(s, n))

Spec == Init /\ [][Next]_vars /\ Fairness

-----------------------------------------------------------------------------
\* bytebuf.cc's pool hands a buffer to one stream at a time, and never one
\* that is still in use (pool_malloc, pool_free in the alloc callbacks).
BufferOwnedOnce ==
    \A s, t \in Streams : cur[s] # NoBuf =>
        /\ cur[s] \notin pool
        /\ cur[s] = cur[t] => s = t

\* Whatever the sizes of the reads, and however often an alloc_cb moved the
\* rest to another buffer, what lies between read_idx and write_idx are the
\* bytes of this stream that follow the last field taken: none is lost,
\* repeated, reordered or mixed with another stream's.
NothingMixedUp ==
    \A s \in Streams : cur[s] # NoBuf =>
        Unread(cur[s]) = [j \in 1 .. received[s] - parsed[s] |-> <<s, parsed[s] + j>>]

\* When a read callback returns, no complete frame is left in the buffer
\* (pa_client.cc 42-75, pa.cc 200-320, dubbo_client.cc 193-243): it would
\* wait there for bytes of a later one.
NoFrameLeft ==
    active = NoStream => \A s \in Streams : done[s] < Len(Format[s]) =>
        received[s] - parsed[s] < FrameLengths(s)[done[s] + 1] - Sums(Frame(s))[state[s]]

\* A stream runs out of room only if a single field is longer than a buffer.
StarvedNeedsLongField ==
    \A s \in Streams : starved[s] => \E n \in FieldLengths(s) : n > Size

\* A stream whose fields all fit into a buffer is parsed to its end, also when
\* another stream is starved.
EveryFrameDelivered ==
    \A s \in Streams :
        (\A n \in FieldLengths(s) : n <= Size) => <>(done[s] = Len(Format[s]))
=============================================================================
