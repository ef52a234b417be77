---------------------------- MODULE FrameProofs ----------------------------
(***************************************************************************)
(* Proofs about the bytes on the connections.                              *)
(*                                                                         *)
(* The read loops and their buffers (FrameReader), for every number of     *)
(* streams, every sequence of frames, all lengths of fields and buffers:   *)
(* no buffer has two owners, no byte is lost or mixed up, no complete      *)
(* frame is left behind, and only a field longer than a buffer starves.    *)
(* The positions in a stream are sums of the lengths of fields, a          *)
(* recursive function; what it computes is proved with the least           *)
(* counterexample.                                                         *)
(*                                                                         *)
(* What the frames say (Codec), for every base of a byte, every id rand()  *)
(* can draw and every text, as long as lengths fit an int: a call keeps    *)
(* its id, its fields and its value on the whole way.  The invariant       *)
(* CallOnTheWay says what is on the wire and what was read at every hop,   *)
(* in terms of the call alone.  It is carried from hop to hop by three     *)
(* kinds of lemmas: an int comes back from its bytes, a field comes back   *)
(* from the place it was written to, and the n-th line of a Dubbo body     *)
(* ends where its newline was written.                                     *)
(***************************************************************************)
EXTENDS FrameReader, Codec, SequenceTheorems, FiniteSetTheorems, WellFoundedInduction, TLAPS

-----------------------------------------------------------------------------
\* Every set of numbers has a least one: this is how the proofs below go by
\* induction, with the least counterexample.
LEMMA Least ==
    ASSUME NEW T \in SUBSET Nat, T # {}
    PROVE  \E n \in T : \A m \in T : n <= m
<1> DEFINE R == {ss \in Nat \X Nat : ss[1] < ss[2]}
<1>1. IsWellFoundedOn(R, Nat)
  BY NatLessThanWellFounded DEF OpToRel
<1>2. PICK x \in T : \A y \in T : ~(<<y, x>> \in R)
  BY <1>1, WFMin
<1>3. \A y \in T : ~(y < x)
  BY <1>2
<1>4. QED BY <1>3

\* h adds up the first elements of w, as far as n.
Adds(h, w, n) == h[0] = 0 /\ \A k \in 1 .. n : h[k] = h[k - 1] + w[k]

\* There is such an h ...
LEMMA AddsExists ==
    ASSUME NEW w, NEW n \in Nat
    PROVE  \E h : Adds(h, w, n)
<1> DEFINE T == {m \in Nat : ~ \E h : Adds(h, w, m)}
<1> SUFFICES ASSUME T # {} PROVE FALSE
  OBVIOUS
<1>1. PICK m \in T : \A j \in T : m <= j
  <2>1. T \in SUBSET Nat
    OBVIOUS
  <2> HIDE DEF T
  <2>2. QED BY <2>1, Least
<1>2. m # 0
  <2>1. Adds([k \in {0} |-> 0], w, 0)
    BY DEF Adds
  <2>2. QED BY <2>1
<1>3. m - 1 \in Nat /\ m - 1 \notin T
  BY <1>1, <1>2
<1>4. PICK h : Adds(h, w, m - 1)
  BY <1>3
<1> DEFINE g == [k \in 0 .. m |-> IF k = m THEN h[m - 1] + w[m] ELSE h[k]]
<1>5. g[0] = 0
  BY <1>2, <1>4 DEF Adds
<1>6. \A k \in 1 .. m : g[k] = g[k - 1] + w[k]
  BY <1>2, <1>4 DEF Adds
<1>7. Adds(g, w, m)
  BY <1>5, <1>6 DEF Adds
<1>8. QED BY <1>7

\* ... and only one, as far as it goes.
LEMMA AddsUnique ==
    ASSUME NEW w, NEW m \in Nat, NEW n \in Nat, m <= n, NEW g, NEW h, Adds(g, w, m), Adds(h, w, n)
    PROVE  g[m] = h[m]
<1> DEFINE T == {k \in Nat : k <= m /\ g[k] # h[k]}
<1> SUFFICES ASSUME T # {} PROVE FALSE
  OBVIOUS
<1>1. PICK k \in T : \A j \in T : k <= j
  <2>1. T \in SUBSET Nat
    OBVIOUS
  <2> HIDE DEF T
  <2>2. QED BY <2>1, Least
<1>2. k # 0
  BY <1>1 DEF Adds
<1>3. k - 1 \in Nat /\ g[k - 1] = h[k - 1]
  BY <1>1, <1>2
<1>4. g[k] = g[k - 1] + w[k] /\ h[k] = h[k - 1] + w[k]
  BY <1>1, <1>2 DEF Adds
<1>5. QED BY <1>1, <1>3, <1>4

\* What the recursive definition of Sums says.
LEMMA SumsRec ==
    ASSUME NEW w
    PROVE  /\ Sums(w)[0] = 0
           /\ \A k \in Nat : Sums(w)[k + 1] = Sums(w)[k] + w[k + 1]
<1> DEFINE H(n) == CHOOSE h : Adds(h, w, n)
           F == [n \in Nat |-> H(n)[n]]
<1>1. \A n \in Nat : Adds(H(n), w, n)
  BY AddsExists
<1>2. F[0] = 0
  BY <1>1 DEF Adds
<1>3. ASSUME NEW k \in Nat, k # 0 PROVE F[k] = F[k - 1] + w[k]
  <2>1. k - 1 \in Nat /\ Adds(H(k), w, k) /\ Adds(H(k - 1), w, k - 1)
    BY <1>1, <1>3
  <2>2. H(k)[k - 1] = H(k - 1)[k - 1]
    <3> HIDE DEF H
    <3>1. QED BY <2>1, AddsUnique
  <2>3. H(k)[k] = H(k)[k - 1] + w[k]
    <3> HIDE DEF H
    <3>1. QED BY <1>3, <2>1 DEF Adds
  <2>4. QED BY <2>1, <2>2, <2>3
<1> HIDE DEF H
<1>4. F = [k \in Nat |-> IF k = 0 THEN 0 ELSE F[k - 1] + w[k]]
  <2> DEFINE G == [k \in Nat |-> IF k = 0 THEN 0 ELSE F[k - 1] + w[k]]
  <2>1. \A k \in Nat : F[k] = G[k]
    <3>1. \A k \in Nat : k # 0 => F[k] = F[k - 1] + w[k]
      BY <1>3
    <3>2. \A k \in Nat : G[k] = IF k = 0 THEN 0 ELSE F[k - 1] + w[k]
      OBVIOUS
    <3> HIDE DEF F, G
    <3>3. QED BY <1>2, <3>1, <3>2
  <2>2. F = [k \in Nat |-> F[k]] /\ G = [k \in Nat |-> G[k]]
    OBVIOUS
  <2> HIDE DEF F, G
  <2>3. F = G
    BY <2>1, <2>2
  <2>4. QED BY <2>3 DEF G
<1> HIDE DEF F
<1>5. \E f : f = [k \in Nat |-> IF k = 0 THEN 0 ELSE f[k - 1] + w[k]]
  BY <1>4
<1>6. Sums(w) = CHOOSE f : f = [k \in Nat |-> IF k = 0 THEN 0 ELSE f[k - 1] + w[k]]
  BY DEF Sums
<1>7. Sums(w) = [k \in Nat |-> IF k = 0 THEN 0 ELSE Sums(w)[k - 1] + w[k]]
  BY <1>5, <1>6
<1>8. QED BY <1>7

\* Sums of natural numbers are natural numbers and grow.
LEMMA SumsGrow ==
    ASSUME NEW w, NEW n \in Nat, \A k \in 1 .. n : w[k] \in Nat
    PROVE  /\ \A k \in 0 .. n : Sums(w)[k] \in Nat /\ Sums(w)[k] <= Sums(w)[n]
<1>1. \A k \in 0 .. n : Sums(w)[k] \in Nat
  <2> DEFINE T == {k \in Nat : k <= n /\ Sums(w)[k] \notin Nat}
  <2> SUFFICES ASSUME T # {} PROVE FALSE
    OBVIOUS
  <2>1. PICK k \in T : \A j \in T : k <= j
    <3>1. T \in SUBSET Nat
      OBVIOUS
    <3> HIDE DEF T
    <3>2. QED BY <3>1, Least
  <2>2. k # 0
    BY <2>1, SumsRec
  <2>3. k - 1 \in Nat /\ Sums(w)[k - 1] \in Nat
    BY <2>1, <2>2
  <2>4. Sums(w)[(k - 1) + 1] = Sums(w)[k - 1] + w[(k - 1) + 1]
    BY <2>3, SumsRec
  <2>5. QED BY <2>1, <2>2, <2>3, <2>4
<1>2. \A k \in 0 .. n : Sums(w)[k] <= Sums(w)[n]
  <2> DEFINE T == {d \in Nat : d <= n /\ ~(Sums(w)[n - d] <= Sums(w)[n])}
  <2>1. T = {}
    <3> SUFFICES ASSUME T # {} PROVE FALSE
      OBVIOUS
    <3>1. PICK d \in T : \A j \in T : d <= j
      <4>1. T \in SUBSET Nat
        OBVIOUS
      <4> HIDE DEF T
      <4>2. QED BY <4>1, Least
    <3>2. d # 0
      BY <1>1, <3>1
    <3>3. Sums(w)[n - (d - 1)] <= Sums(w)[n]
      BY <3>1, <3>2
    <3>4. Sums(w)[(n - d) + 1] = Sums(w)[n - d] + w[(n - d) + 1]
      BY <3>1, SumsRec
    <3>5. QED BY <1>1, <3>1, <3>2, <3>3, <3>4
  <2>2. \A k \in 0 .. n : n - k \in Nat /\ n - k <= n /\ n - (n - k) = k
    OBVIOUS
  <2>3. QED BY <2>1, <2>2
<1>3. QED BY <1>1, <1>2

-----------------------------------------------------------------------------
\* The bytes of all the streams.
Bytes == Streams \X Nat

ReaderTypeOK ==
    /\ bufs \in Nat /\ pool \subseteq 1 .. bufs
    /\ mem \in [1 .. bufs -> Seq(Bytes)]
    /\ ri \in [1 .. bufs -> Nat]
    /\ cur \in [Streams -> 0 .. bufs]
    /\ received \in [Streams -> Nat] /\ parsed \in [Streams -> Nat]
    /\ state \in [Streams -> Nat] /\ done \in [Streams -> Nat]
    /\ starved \in [Streams -> BOOLEAN]
    /\ active \in Streams \cup {NoStream} /\ top \in BOOLEAN

\* The parser is at the beginning of a field of a frame, or at the end.
Placed(s) ==
    /\ done[s] <= Len(Format[s])
    /\ IF done[s] < Len(Format[s]) THEN state[s] < Len(Frame(s)) ELSE state[s] = 0
    /\ parsed[s] = Sums(FrameLengths(s))[done[s]] + Sums(Frame(s))[state[s]]
    /\ parsed[s] <= received[s] /\ received[s] <= Total[s]

\* The bytes a stream has received and not parsed.
Rest(s) == received[s] - parsed[s]

\* w has k bytes of s after its first r: those that follow the p-th.
Runs(w, r, k, s, p) ==
    /\ w \in Seq(Bytes) /\ r \in Nat /\ k \in Nat /\ p \in Nat /\ Len(w) = r + k
    /\ \A j \in 1 .. k : w[r + j] = <<s, p + j>>

\* The buffer has the bytes received and not parsed, from read_idx on.
Holds(s) ==
    IF cur[s] = NoBuf THEN received[s] = 0
    ELSE Runs(mem[cur[s]], ri[cur[s]], Rest(s), s, parsed[s])

\* Outside its callback a stream lacks part of the next field, which is
\* therefore not empty when the next callback comes to it.
Waits(s) ==
    done[s] < Len(Format[s]) =>
        /\ s # active => Rest(s) < Need(s)
        /\ top => Need(s) > 0

\* Inside the loop there is a buffer, and a frame begun or a byte of one.
InLoop ==
    IF active = NoStream THEN ~top
    ELSE cur[active] # NoBuf /\ (top \/ state[active] # 0 \/ 0 < Rest(active))

FrameInv ==
    /\ ReaderTypeOK /\ BufferOwnedOnce /\ InLoop /\ StarvedNeedsLongField
    /\ \A s \in Streams : Placed(s) /\ Holds(s) /\ Waits(s)

-----------------------------------------------------------------------------
\* What the formats are.
LEMMA FormatFacts ==
    ASSUME NEW s \in Streams, NEW i \in 1 .. Len(Format[s])
    PROVE  /\ Format[s][i] \in Seq(Nat) /\ Len(Format[s]) \in Nat /\ Len(Format[s][i]) \in Nat \ {0}
           /\ Format[s][i][1] > 0
           /\ FrameLengths(s)[i] = Sums(Format[s][i])[Len(Format[s][i])]
           /\ \A k \in 0 .. Len(Format[s][i]) : /\ Sums(Format[s][i])[k] \in Nat
                                                /\ Sums(Format[s][i])[k] <= FrameLengths(s)[i]
<1>1. /\ Format[s] \in Seq(Seq(Nat) \ {<<>>}) /\ i \in DOMAIN Format[s]
  BY ReaderAssumption
<1>2. Format[s][i] \in Seq(Nat) \ {<<>>}
  BY <1>1
<1>3. /\ Len(Format[s]) \in Nat /\ Len(Format[s][i]) \in Nat \ {0}
      /\ \A k \in 1 .. Len(Format[s][i]) : Format[s][i][k] \in Nat
  BY <1>1, <1>2
<1>4. Format[s][i][1] > 0
  BY <1>1, ReaderAssumption
<1>5. FrameLengths(s)[i] = Sums(Format[s][i])[Len(Format[s][i])]
  BY <1>1 DEF FrameLengths
<1>6. \A k \in 0 .. Len(Format[s][i]) : /\ Sums(Format[s][i])[k] \in Nat
                                        /\ Sums(Format[s][i])[k] <= Sums(Format[s][i])[Len(Format[s][i])]
  BY <1>3, SumsGrow
<1>7. QED BY <1>2, <1>3, <1>4, <1>5, <1>6

\* The bytes before a frame.
LEMMA FramesFacts ==
    ASSUME NEW s \in Streams
    PROVE  /\ Len(Format[s]) \in Nat
           /\ \A i \in 0 .. Len(Format[s]) : Sums(FrameLengths(s))[i] \in Nat
           /\ Total[s] = Sums(FrameLengths(s))[Len(Format[s])]
<1>1. Len(Format[s]) \in Nat
  BY ReaderAssumption
<1>2. ASSUME NEW i \in 1 .. Len(Format[s]) PROVE FrameLengths(s)[i] \in Nat
  <2>1. /\ Len(Format[s][i]) \in Nat \ {0}
        /\ FrameLengths(s)[i] = Sums(Format[s][i])[Len(Format[s][i])]
        /\ \A k \in 0 .. Len(Format[s][i]) : Sums(Format[s][i])[k] \in Nat
    BY FormatFacts
  <2>2. Len(Format[s][i]) \in 0 .. Len(Format[s][i])
    BY <2>1
  <2>3. QED BY <2>1, <2>2
<1>3. \A i \in 0 .. Len(Format[s]) : Sums(FrameLengths(s))[i] \in Nat
  BY <1>1, <1>2, SumsGrow
<1>4. QED BY <1>1, <1>3 DEF Total

\* Where a stream is in the middle of its frames, its next field has a
\* length, and there is one.
LEMMA NeedFacts ==
    ASSUME ReaderTypeOK, NEW s \in Streams, Placed(s), done[s] < Len(Format[s])
    PROVE  /\ done[s] + 1 \in 1 .. Len(Format[s]) /\ Frame(s) = Format[s][done[s] + 1]
           /\ state[s] + 1 \in 1 .. Len(Frame(s))
           /\ Need(s) \in Nat /\ Need(s) \in FieldLengths(s)
           /\ state[s] = 0 => Need(s) > 0
           /\ Sums(Frame(s))[state[s] + 1] = Sums(Frame(s))[state[s]] + Need(s)
           /\ Sums(Frame(s))[state[s]] + Need(s) <= FrameLengths(s)[done[s] + 1]
           /\ Sums(Frame(s))[state[s]] \in Nat
<1>1. /\ done[s] \in Nat /\ state[s] \in Nat /\ state[s] < Len(Frame(s))
      /\ Len(Format[s]) \in Nat
  BY FramesFacts DEF ReaderTypeOK, Placed
<1>2. done[s] + 1 \in 1 .. Len(Format[s]) /\ Frame(s) = Format[s][done[s] + 1]
  BY <1>1 DEF Frame
<1> DEFINE fr == Frame(s)
<1>3. /\ fr \in Seq(Nat) /\ Len(fr) \in Nat \ {0} /\ fr[1] > 0
      /\ \A k \in 0 .. Len(fr) : Sums(fr)[k] \in Nat /\ Sums(fr)[k] <= FrameLengths(s)[done[s] + 1]
  BY <1>2, FormatFacts
<1>4. state[s] + 1 \in 1 .. Len(fr) /\ Need(s) = fr[state[s] + 1]
  BY <1>1, <1>3 DEF Need
<1>5. Need(s) \in Nat
  BY <1>3, <1>4
<1>6. Need(s) \in FieldLengths(s)
  <2>1. done[s] + 1 \in DOMAIN Format[s] /\ state[s] + 1 \in DOMAIN Format[s][done[s] + 1]
    BY <1>2, <1>3, <1>4, ReaderAssumption
  <2>2. QED BY <1>2, <1>4, <2>1 DEF FieldLengths
<1>7. Sums(fr)[state[s] + 1] = Sums(fr)[state[s]] + Need(s)
  BY <1>1, <1>4, SumsRec
<1>8. Sums(fr)[state[s]] \in Nat /\ Sums(fr)[state[s] + 1] <= FrameLengths(s)[done[s] + 1]
  BY <1>1, <1>3, <1>4
<1>9. state[s] = 0 => Need(s) > 0
  BY <1>3, <1>4
<1>10. QED BY <1>2, <1>4, <1>5, <1>6, <1>7, <1>8, <1>9

\* What is left of a sequence from position r + 1 on.
LEMMA RestFacts ==
    ASSUME NEW S, NEW w \in Seq(S), NEW r \in 0 .. Len(w)
    PROVE  /\ SubSeq(w, r + 1, Len(w)) \in Seq(S)
           /\ Len(SubSeq(w, r + 1, Len(w))) = Len(w) - r
           /\ \A j \in 1 .. Len(w) - r : SubSeq(w, r + 1, Len(w))[j] = w[r + j]
  OBVIOUS

\* The elements of two sequences, one after the other.
LEMMA ConcatFacts ==
    ASSUME NEW S, NEW w \in Seq(S), NEW v \in Seq(S)
    PROVE  /\ w \o v \in Seq(S) /\ Len(w \o v) = Len(w) + Len(v)
           /\ \A i \in 1 .. Len(w) : (w \o v)[i] = w[i]
           /\ \A i \in 1 .. Len(v) : (w \o v)[Len(w) + i] = v[i]
  OBVIOUS

\* A run that goes on where another ends.
LEMMA AppendFacts ==
    ASSUME NEW s, NEW w, NEW v, NEW r, NEW k, NEW n, NEW p,
           Runs(w, r, k, s, p), Runs(v, 0, n, s, p + k)
    PROVE  Runs(w \o v, r, k + n, s, p)
<1> DEFINE x == w \o v
<1>0. /\ w \in Seq(Bytes) /\ r \in Nat /\ k \in Nat /\ p \in Nat /\ Len(w) = r + k
      /\ \A j \in 1 .. k : w[r + j] = <<s, p + j>>
  BY DEF Runs
<1>1. v \in Seq(Bytes) /\ n \in Nat /\ Len(v) = n
  BY DEF Runs
<1>2. \A j \in 1 .. n : v[j] = <<s, (p + k) + j>>
  <2>1. \A j \in 1 .. n : v[0 + j] = <<s, (p + k) + j>> /\ 0 + j = j
    BY <1>1 DEF Runs
  <2>2. QED BY <2>1
<1>3. x \in Seq(Bytes) /\ Len(x) = Len(w) + Len(v)
  BY <1>0, <1>1, ConcatFacts
<1>4. \A i \in 1 .. Len(w) : x[i] = w[i]
  BY <1>0, <1>1, ConcatFacts
<1>5. \A i \in 1 .. n : x[Len(w) + i] = v[i]
  BY <1>0, <1>1, ConcatFacts
<1> HIDE DEF x
<1>6. Len(x) = r + (k + n) /\ k + n \in Nat
  BY <1>0, <1>1, <1>3
<1>7. ASSUME NEW j \in 1 .. k + n PROVE x[r + j] = <<s, p + j>>
  <2>1. CASE j <= k
    <3>1. j \in 1 .. k /\ r + j \in 1 .. Len(w)
      BY <1>0, <1>1, <2>1
    <3>2. QED BY <1>0, <1>4, <3>1
  <2>2. CASE ~(j <= k)
    <3>1. j - k \in 1 .. n /\ Len(w) + (j - k) = r + j /\ (p + k) + (j - k) = p + j
      BY <1>0, <1>1, <2>2
    <3>2. x[Len(w) + (j - k)] = v[j - k]
      BY <1>5, <3>1
    <3>3. v[j - k] = <<s, (p + k) + (j - k)>>
      BY <1>2, <3>1
    <3>4. QED BY <3>1, <3>2, <3>3
  <2>3. QED BY <2>1, <2>2
<1>8. QED BY <1>0, <1>3, <1>6, <1>7 DEF Runs, x

\* The run, moved to the beginning of a buffer.
LEMMA MoveFacts ==
    ASSUME NEW s, NEW w, NEW r, NEW k, NEW p, Runs(w, r, k, s, p)
    PROVE  Runs(SubSeq(w, r + 1, Len(w)), 0, k, s, p)
<1> DEFINE x == SubSeq(w, r + 1, Len(w))
<1>0. /\ w \in Seq(Bytes) /\ r \in Nat /\ k \in Nat /\ p \in Nat /\ Len(w) = r + k
      /\ \A j \in 1 .. k : w[r + j] = <<s, p + j>>
  BY DEF Runs
<1>1. r \in 0 .. Len(w) /\ Len(w) - r = k
  BY <1>0
<1>2. x \in Seq(Bytes) /\ Len(x) = Len(w) - r /\ \A j \in 1 .. Len(w) - r : x[j] = w[r + j]
  BY <1>0, <1>1, RestFacts
<1> HIDE DEF x
<1>3. \A j \in 1 .. k : 0 + j = j
  BY <1>0
<1>4. \A j \in 1 .. k : x[0 + j] = <<s, p + j>>
  BY <1>0, <1>1, <1>2, <1>3
<1>5. Len(x) = 0 + k /\ 0 \in Nat
  BY <1>0, <1>1, <1>2
<1>6. QED BY <1>0, <1>2, <1>4, <1>5 DEF Runs, x

\* What the buffer of a stream that has one is.
LEMMA BufFacts ==
    ASSUME FrameInv, NEW s \in Streams
    PROVE  /\ received[s] \in Nat /\ parsed[s] \in Nat /\ Rest(s) \in Nat
           /\ received[s] = parsed[s] + Rest(s)
           /\ cur[s] # NoBuf =>
                /\ cur[s] \in 1 .. bufs /\ Avail(cur[s]) = Rest(s)
                /\ Runs(mem[cur[s]], ri[cur[s]], Rest(s), s, parsed[s])
           /\ cur[s] = NoBuf => received[s] = 0 /\ parsed[s] = 0 /\ Rest(s) = 0
<1>t. ReaderTypeOK /\ Placed(s) /\ Holds(s)
  BY DEF FrameInv
<1>1. received[s] \in Nat /\ parsed[s] \in Nat /\ parsed[s] <= received[s]
  BY <1>t DEF ReaderTypeOK, Placed
<1>2. Rest(s) \in Nat /\ received[s] = parsed[s] + Rest(s)
  BY <1>1 DEF Rest
<1>3. ASSUME cur[s] # NoBuf
      PROVE  cur[s] \in 1 .. bufs /\ Runs(mem[cur[s]], ri[cur[s]], Rest(s), s, parsed[s])
  <2>1. bufs \in Nat /\ cur[s] \in 0 .. bufs
    BY <1>t DEF ReaderTypeOK
  <2>2. cur[s] \in 1 .. bufs
    BY <1>3, <2>1 DEF NoBuf
  <2>3. QED BY <1>t, <1>3, <2>2 DEF Holds
<1>4. cur[s] # NoBuf => Avail(cur[s]) = Rest(s)
  BY <1>2, <1>3 DEF Avail, Wi, Runs
<1>5. cur[s] = NoBuf => received[s] = 0
  BY <1>t DEF Holds
<1>6. cur[s] = NoBuf => received[s] = 0 /\ parsed[s] = 0 /\ Rest(s) = 0
  BY <1>1, <1>2, <1>5
<1>7. QED BY <1>1, <1>2, <1>3, <1>4, <1>6

\* A buffer for s, and n bytes in it: it has what s had not parsed before,
\* then the new bytes; the buffers of other streams are left alone.
LEMMA AllocFacts ==
    ASSUME FrameInv, NEW s \in Streams, NEW n \in Nat, NEW new,
           Alloc(s, new, [j \in 1 .. n |-> <<s, received[s] + j>>])
    PROVE  /\ bufs' \in Nat /\ pool' \subseteq 1 .. bufs'
           /\ mem' \in [1 .. bufs' -> Seq(Bytes)] /\ ri' \in [1 .. bufs' -> Nat]
           /\ cur' \in [Streams -> 0 .. bufs']
           /\ BufferOwnedOnce'
           /\ cur'[s] = new /\ new # NoBuf
           /\ Runs(mem'[new], ri'[new], Rest(s) + n, s, parsed[s])
           /\ \A t \in Streams : t # s =>
                /\ cur'[t] = cur[t]
                /\ cur[t] # NoBuf => mem'[cur[t]] = mem[cur[t]] /\ ri'[cur[t]] = ri[cur[t]]
<1> DEFINE bytes == [j \in 1 .. n |-> <<s, received[s] + j>>]
           old == cur[s]
<1>t. /\ bufs \in Nat /\ pool \subseteq 1 .. bufs /\ cur \in [Streams -> 0 .. bufs]
      /\ mem \in [1 .. bufs -> Seq(Bytes)] /\ ri \in [1 .. bufs -> Nat]
      /\ BufferOwnedOnce
  BY DEF FrameInv, ReaderTypeOK
<1>o. /\ \A t \in Streams : cur[t] # NoBuf => cur[t] \in 1 .. bufs /\ cur[t] \notin pool
      /\ \A t, u \in Streams : cur[t] # NoBuf /\ cur[t] = cur[u] => t = u
  BY <1>t DEF BufferOwnedOnce, NoBuf
<1>b. /\ received[s] \in Nat /\ parsed[s] \in Nat /\ Rest(s) \in Nat /\ received[s] = parsed[s] + Rest(s)
      /\ old # NoBuf => old \in 1 .. bufs /\ Runs(mem[old], ri[old], Rest(s), s, parsed[s])
      /\ old = NoBuf => Rest(s) = 0
  BY BufFacts
<1>1. Runs(bytes, 0, n, s, parsed[s] + Rest(s))
  <2>1. \A j \in 1 .. n : <<s, received[s] + j>> \in Bytes
    BY <1>b DEF Bytes
  <2>2. bytes \in Seq(Bytes) /\ Len(bytes) = n
    BY <2>1
  <2>3. \A j \in 1 .. n : bytes[j] = <<s, received[s] + j>> /\ 0 + j = j
    OBVIOUS
  <2> HIDE DEF bytes
  <2>4. \A j \in 1 .. n : bytes[0 + j] = <<s, (parsed[s] + Rest(s)) + j>>
    BY <1>b, <2>3
  <2>5. 0 \in Nat /\ Len(bytes) = 0 + n /\ parsed[s] + Rest(s) \in Nat
    BY <1>b, <2>2
  <2>6. QED BY <2>2, <2>4, <2>5 DEF Runs
<1>a. Alloc(s, new, bytes)
  OBVIOUS
<1> HIDE DEF bytes, old
<1>2. CASE NoRoom(old)
  <2>1. /\ new \in IF pool = {} THEN {bufs + 1} ELSE pool
        /\ bufs' = IF pool = {} THEN bufs + 1 ELSE bufs
        /\ pool' = (pool \ {new}) \cup ({old} \ {NoBuf})
        /\ cur' = [cur EXCEPT ![s] = new]
        /\ mem' = [b \in 1 .. bufs' |-> IF b = new THEN Copied(old) \o bytes ELSE mem[b]]
        /\ ri' = [b \in 1 .. bufs' |-> IF b = new THEN 0 ELSE ri[b]]
    BY <1>2, <1>a DEF Alloc, PoolAfter, old
  <2>2. /\ bufs' \in Nat /\ bufs <= bufs' /\ new \in 1 .. bufs' /\ new # 0
        /\ \A b \in 1 .. bufs' : b = new \/ b \in 1 .. bufs
        /\ new \notin 1 .. bufs \/ new \in pool
    <3>1. CASE pool = {}
      BY <1>t, <2>1, <3>1
    <3>2. CASE pool # {}
      <4>1. new \in pool /\ bufs' = bufs
        BY <2>1, <3>2
      <4>2. QED BY <1>t, <4>1
    <3>3. QED BY <3>1, <3>2
  <2>3. \A t \in Streams : cur[t] # NoBuf => cur[t] # new /\ cur[t] \in 1 .. bufs'
    BY <1>t, <1>o, <2>2
  <2>4. Runs(Copied(old), 0, Rest(s), s, parsed[s])
    <3>1. CASE old = NoBuf
      <4>1. Copied(old) = <<>> /\ Rest(s) = 0
        BY <1>b, <3>1 DEF Copied
      <4>2. <<>> \in Seq(Bytes) /\ Len(<<>>) = 0
        OBVIOUS
      <4>3. QED BY <1>b, <4>1, <4>2 DEF Runs
    <3>2. CASE old # NoBuf
      <4>1. Copied(old) = SubSeq(mem[old], ri[old] + 1, Len(mem[old]))
        BY <3>2 DEF Copied, Unread, Wi
      <4>2. QED BY <1>b, <3>2, <4>1, MoveFacts
    <3>3. QED BY <3>1, <3>2
  <2>5. Runs(Copied(old) \o bytes, 0, Rest(s) + n, s, parsed[s])
    BY <1>1, <2>4, AppendFacts
  <2>6. mem'[new] = Copied(old) \o bytes /\ ri'[new] = 0
    BY <2>1, <2>2
  <2>7. mem' \in [1 .. bufs' -> Seq(Bytes)] /\ ri' \in [1 .. bufs' -> Nat]
    <3>1. Copied(old) \o bytes \in Seq(Bytes)
      BY <2>5 DEF Runs
    <3>2. QED BY <1>t, <2>1, <2>2, <3>1
  <2>8. pool' \subseteq 1 .. bufs' /\ cur' \in [Streams -> 0 .. bufs']
    <3>1. \A t \in Streams : cur[t] \in 0 .. bufs'
      BY <1>t, <2>2
    <3>2. cur' \in [Streams -> 0 .. bufs']
      <4>1. new \in 0 .. bufs' /\ cur' = [cur EXCEPT ![s] = new]
        BY <2>1, <2>2
      <4>2. cur \in [Streams -> 0 .. bufs']
        BY <1>t, <3>1
      <4>3. QED BY <4>1, <4>2
    <3>3. old # NoBuf => old \in 1 .. bufs'
      BY <1>b, <1>t, <2>2
    <3>4. pool \subseteq 1 .. bufs'
      BY <1>t, <2>2
    <3>5. QED BY <2>1, <3>2, <3>3, <3>4
  <2>9. \A t \in Streams : cur'[t] = IF t = s THEN new ELSE cur[t]
    BY <1>t, <2>1
  <2>10. BufferOwnedOnce'
    <3> SUFFICES ASSUME NEW t \in Streams, NEW u \in Streams, cur'[t] # NoBuf
                 PROVE  cur'[t] \notin pool' /\ (cur'[t] = cur'[u] => t = u)
      BY DEF BufferOwnedOnce
    <3>1. cur'[t] \notin pool'
      <4>1. CASE t = s
        BY <2>1, <2>3, <2>9, <4>1 DEF old
      <4>2. CASE t # s
        <5>1. cur[t] # NoBuf /\ cur[t] \notin pool /\ cur[t] # cur[s]
          BY <1>o, <2>9, <4>2
        <5>2. QED BY <2>1, <2>9, <4>2, <5>1 DEF old
      <4>3. QED BY <4>1, <4>2
    <3>2. cur'[t] = cur'[u] => t = u
      <4>1. new # NoBuf
        BY <2>2 DEF NoBuf
      <4>2. QED BY <1>o, <2>3, <2>9, <4>1
    <3>3. QED BY <3>1, <3>2
  <2>11. ASSUME NEW t \in Streams, t # s
         PROVE  /\ cur'[t] = cur[t]
                /\ cur[t] # NoBuf => mem'[cur[t]] = mem[cur[t]] /\ ri'[cur[t]] = ri[cur[t]]
    BY <2>1, <2>3, <2>9, <2>11
  <2>12. new # NoBuf /\ cur'[s] = new
    BY <2>2, <2>9 DEF NoBuf
  <2>13. QED BY <2>2, <2>5, <2>6, <2>7, <2>8, <2>10, <2>11, <2>12
<1>3. CASE ~NoRoom(old)
  <2>1. /\ new = old /\ mem' = [mem EXCEPT ![old] = mem[old] \o bytes]
        /\ UNCHANGED <<bufs, pool, cur, ri>>
    BY <1>3, <1>a DEF Alloc, old
  <2>2. old # NoBuf
    <3>1. ASSUME old = NoBuf PROVE NoRoom(old)
      BY <3>1, ReaderAssumption DEF NoRoom
    <3>2. QED BY <1>3, <3>1
  <2>3. old \in 1 .. bufs /\ Runs(mem[old], ri[old], Rest(s), s, parsed[s])
    BY <1>b, <2>2
  <2>4. Runs(mem[old] \o bytes, ri[old], Rest(s) + n, s, parsed[s])
    BY <1>1, <2>3, AppendFacts
  <2>5. mem'[old] = mem[old] \o bytes /\ \A b \in 1 .. bufs : b # old => mem'[b] = mem[b]
    BY <1>t, <2>1, <2>3
  <2>6. mem' \in [1 .. bufs' -> Seq(Bytes)]
    <3>1. mem[old] \o bytes \in Seq(Bytes)
      BY <2>4 DEF Runs
    <3>2. QED BY <1>t, <2>1, <3>1
  <2>7. BufferOwnedOnce'
    BY <1>t, <2>1 DEF BufferOwnedOnce
  <2>8. ASSUME NEW t \in Streams, t # s, cur[t] # NoBuf PROVE mem'[cur[t]] = mem[cur[t]]
    <3>1. cur[t] \in 1 .. bufs /\ cur[t] # old
      BY <1>o, <2>8 DEF old
    <3>2. QED BY <2>5, <3>1
  <2>9. Runs(mem'[new], ri'[new], Rest(s) + n, s, parsed[s])
    BY <2>1, <2>4, <2>5
  <2>10. cur'[s] = new /\ new # NoBuf
    BY <2>1, <2>2 DEF old
  <2>11. QED BY <1>t, <2>1, <2>6, <2>7, <2>8, <2>9, <2>10
<1>4. QED BY <1>2, <1>3

-----------------------------------------------------------------------------
\* A stream that stays where it is in its frames, and one whose buffer is left
\* alone.
LEMMA PlacedKept ==
    ASSUME NEW t \in Streams, Placed(t), done'[t] = done[t], state'[t] = state[t], parsed'[t] = parsed[t],
           parsed[t] <= received'[t], received'[t] <= Total[t]
    PROVE  Placed(t)' /\ Need(t)' = Need(t)
<1>1. Frame(t)' = Frame(t)
  BY DEF Frame
<1>2. QED BY <1>1 DEF Placed, Need

LEMMA HoldsKept ==
    ASSUME NEW t \in Streams, Holds(t),
           cur'[t] = cur[t], received'[t] = received[t], parsed'[t] = parsed[t],
           cur[t] # NoBuf => mem'[cur[t]] = mem[cur[t]] /\ ri'[cur[t]] = ri[cur[t]]
    PROVE  Holds(t)' /\ Rest(t)' = Rest(t)
<1>1. Rest(t)' = Rest(t)
  BY DEF Rest
<1>2. QED BY <1>1 DEF Holds

\* A run without its first m bytes.
LEMMA SkipFacts ==
    ASSUME NEW s, NEW w, NEW r, NEW k, NEW p, NEW m \in Nat, Runs(w, r, k, s, p), m <= k
    PROVE  Runs(w, r + m, k - m, s, p + m)
<1>1. /\ w \in Seq(Bytes) /\ r \in Nat /\ k \in Nat /\ p \in Nat /\ Len(w) = r + k
      /\ \A j \in 1 .. k : w[r + j] = <<s, p + j>>
  BY DEF Runs
<1>2. ASSUME NEW j \in 1 .. k - m PROVE w[(r + m) + j] = <<s, (p + m) + j>>
  <2>1. m + j \in 1 .. k /\ (r + m) + j = r + (m + j) /\ (p + m) + j = p + (m + j)
    BY <1>1
  <2>2. w[r + (m + j)] = <<s, p + (m + j)>>
    BY <1>1, <2>1
  <2>3. QED BY <2>1, <2>2
<1>3. r + m \in Nat /\ k - m \in Nat /\ p + m \in Nat /\ Len(w) = (r + m) + (k - m)
  BY <1>1
<1>4. QED BY <1>1, <1>2, <1>3 DEF Runs

\* A stream parsed to its end has nothing left in its buffer.
LEMMA EndFacts ==
    ASSUME FrameInv, NEW s \in Streams, ~(done[s] < Len(Format[s]))
    PROVE  received[s] = Total[s] /\ Rest(s) = 0 /\ state[s] = 0
<1>1. Placed(s) /\ received[s] \in Nat /\ parsed[s] \in Nat /\ received[s] = parsed[s] + Rest(s)
  BY BufFacts DEF FrameInv
<1>2. done[s] \in Nat /\ Len(Format[s]) \in Nat
  BY FramesFacts DEF FrameInv, ReaderTypeOK
<1>3. done[s] = Len(Format[s]) /\ state[s] = 0
  BY <1>1, <1>2 DEF Placed
<1>4. Sums(Frame(s))[0] = 0
  BY SumsRec
<1>5. Sums(FrameLengths(s))[done[s]] = Total[s] /\ Total[s] \in Nat
  <2>1. Len(Format[s]) \in 0 .. Len(Format[s])
    BY <1>2
  <2>2. QED BY <1>3, <2>1, FramesFacts
<1>6. parsed[s] = Total[s] /\ received[s] <= Total[s] /\ parsed[s] <= received[s]
  BY <1>1, <1>3, <1>4, <1>5 DEF Placed
<1>7. Rest(s) \in Nat
  BY BufFacts
<1>8. QED BY <1>1, <1>3, <1>5, <1>6, <1>7

-----------------------------------------------------------------------------
LEMMA FrameInit == Init => FrameInv
<1> SUFFICES ASSUME Init PROVE FrameInv
  OBVIOUS
<1>1. ReaderTypeOK
  <2>1. mem \in [1 .. bufs -> Seq(Bytes)] /\ ri \in [1 .. bufs -> Nat]
    <3>1. 1 .. bufs = {} /\ mem = <<>> /\ ri = <<>>
      BY DEF Init
    <3>2. <<>> = [b \in {} |-> 0]
      BY SMT
    <3>3. QED BY <3>1, <3>2
  <2>2. /\ bufs \in Nat /\ pool \subseteq 1 .. bufs /\ cur \in [Streams -> 0 .. bufs]
        /\ received \in [Streams -> Nat] /\ parsed \in [Streams -> Nat]
    BY DEF Init, NoBuf
  <2>3. /\ state \in [Streams -> Nat] /\ done \in [Streams -> Nat] /\ starved \in [Streams -> BOOLEAN]
        /\ active \in Streams \cup {NoStream} /\ top \in BOOLEAN
    BY DEF Init
  <2>4. QED BY <2>1, <2>2, <2>3 DEF ReaderTypeOK
<1>2. BufferOwnedOnce /\ StarvedNeedsLongField /\ InLoop
  BY DEF Init, BufferOwnedOnce, StarvedNeedsLongField, InLoop
<1>3. ASSUME NEW s \in Streams PROVE Placed(s) /\ Holds(s) /\ Waits(s)
  <2>1. /\ done[s] = 0 /\ state[s] = 0 /\ parsed[s] = 0 /\ received[s] = 0 /\ cur[s] = NoBuf /\ top = FALSE
    BY DEF Init
  <2>2. Sums(FrameLengths(s))[0] = 0 /\ Sums(Frame(s))[0] = 0
    BY SumsRec
  <2>3. Len(Format[s]) \in Nat /\ Total[s] \in Nat
    <3>1. Len(Format[s]) \in Nat
      BY FramesFacts
    <3>2. Len(Format[s]) \in 0 .. Len(Format[s])
      BY <3>1
    <3>3. QED BY <3>2, FramesFacts
  <2>4. done[s] < Len(Format[s]) => Len(Frame(s)) \in Nat \ {0}
    <3> SUFFICES ASSUME done[s] < Len(Format[s]) PROVE Len(Frame(s)) \in Nat \ {0}
      OBVIOUS
    <3>1. 1 \in 1 .. Len(Format[s]) /\ Frame(s) = Format[s][1]
      BY <2>1, <2>3 DEF Frame
    <3>2. QED BY <3>1, FormatFacts
  <2>5. Placed(s)
    BY <2>1, <2>2, <2>3, <2>4 DEF Placed
  <2>6. Holds(s)
    BY <2>1 DEF Holds
  <2>7. Waits(s)
    <3> SUFFICES ASSUME done[s] < Len(Format[s]) PROVE Rest(s) < Need(s)
      BY <2>1 DEF Waits
    <3>1. Need(s) \in Nat /\ Need(s) > 0
      BY <1>1, <2>1, <2>5, NeedFacts
    <3>2. QED BY <2>1, <3>1 DEF Rest
  <2>8. QED BY <2>5, <2>6, <2>7
<1>4. QED BY <1>1, <1>2, <1>3 DEF FrameInv

\* Bytes arrive: what waited for them now has them, and waits no longer.
LEMMA ReadStep ==
    ASSUME FrameInv, NEW s \in Streams, NEW n \in 0 .. Size, Read(s, n)
    PROVE  FrameInv'
<1>1. /\ active = NoStream /\ received[s] + n <= Total[s]
      /\ received' = [received EXCEPT ![s] = @ + n]
      /\ active' = s /\ top' = TRUE
      /\ UNCHANGED <<state, done, parsed, starved>>
  BY DEF Read
<1>2. PICK new \in 0 .. bufs + 1 : Alloc(s, new, [j \in 1 .. n |-> <<s, received[s] + j>>])
  BY DEF Read
<1>3. n \in Nat
  BY ReaderAssumption
<1>4. /\ bufs' \in Nat /\ pool' \subseteq 1 .. bufs'
      /\ mem' \in [1 .. bufs' -> Seq(Bytes)] /\ ri' \in [1 .. bufs' -> Nat]
      /\ cur' \in [Streams -> 0 .. bufs']
      /\ BufferOwnedOnce'
      /\ cur'[s] = new /\ new # NoBuf
      /\ Runs(mem'[new], ri'[new], Rest(s) + n, s, parsed[s])
      /\ \A t \in Streams : t # s =>
           /\ cur'[t] = cur[t]
           /\ cur[t] # NoBuf => mem'[cur[t]] = mem[cur[t]] /\ ri'[cur[t]] = ri[cur[t]]
  BY <1>2, <1>3, AllocFacts
<1>t. ReaderTypeOK /\ StarvedNeedsLongField /\ \A t \in Streams : Placed(t) /\ Holds(t) /\ Waits(t)
  BY DEF FrameInv
<1>5. ReaderTypeOK'
  <2>1. received' \in [Streams -> Nat]
    BY <1>t, <1>1, <1>3 DEF ReaderTypeOK
  <2>2. /\ state' \in [Streams -> Nat] /\ done' \in [Streams -> Nat] /\ parsed' \in [Streams -> Nat]
        /\ starved' \in [Streams -> BOOLEAN] /\ active' \in Streams \cup {NoStream} /\ top' \in BOOLEAN
    BY <1>t, <1>1 DEF ReaderTypeOK
  <2>3. QED BY <1>4, <2>1, <2>2 DEF ReaderTypeOK
<1>6. StarvedNeedsLongField' /\ InLoop'
  <2>1. StarvedNeedsLongField'
    BY <1>t, <1>1 DEF StarvedNeedsLongField
  <2>2. active' # NoStream
    BY <1>1, ReaderAssumption DEF NoStream
  <2>3. QED BY <1>1, <1>4, <2>1, <2>2 DEF InLoop
<1>7. ASSUME NEW t \in Streams PROVE Placed(t)' /\ Holds(t)' /\ Waits(t)'
  <2>1. /\ received[t] \in Nat /\ parsed[t] \in Nat /\ Rest(t) \in Nat /\ received[t] = parsed[t] + Rest(t)
        /\ received \in [Streams -> Nat]
    BY <1>t, BufFacts DEF ReaderTypeOK
  <2>2. received'[t] = IF t = s THEN received[t] + n ELSE received[t]
    BY <1>1, <2>1
  <2>3. parsed[t] <= received'[t] /\ received'[t] <= Total[t]
    <3>1. received[t] <= Total[t]
      BY <1>t DEF Placed
    <3>2. QED BY <1>1, <1>3, <2>1, <2>2, <3>1
  <2>4. Placed(t)' /\ Need(t)' = Need(t)
    BY <1>t, <1>1, <2>3, PlacedKept
  <2>5. Holds(t)' /\ (t # s => Rest(t)' = Rest(t))
    <3>1. CASE t = s
      <4>1. Rest(s)' = Rest(s) + n
        BY <1>1, <1>3, <2>1, <2>2, <3>1 DEF Rest
      <4>2. QED BY <1>1, <1>4, <3>1, <4>1 DEF Holds
    <3>2. CASE t # s
      BY <1>t, <1>1, <1>4, <2>2, <3>2, HoldsKept
    <3>3. QED BY <3>1, <3>2
  <2>6. Waits(t)'
    <3> SUFFICES ASSUME done[t] < Len(Format[t])
                 PROVE  (t # s => Rest(t)' < Need(t)) /\ Need(t) > 0
      BY <1>1, <2>4 DEF Waits
    <3>1. t # active
      BY <1>1, ReaderAssumption DEF NoStream
    <3>2. Rest(t) < Need(t)
      BY <1>t, <3>1 DEF Waits
    <3>3. Need(t) \in Nat
      BY <1>t, NeedFacts
    <3>4. QED BY <2>1, <2>5, <3>2, <3>3
  <2>7. QED BY <2>4, <2>5, <2>6
<1>8. QED BY <1>4, <1>5, <1>6, <1>7 DEF FrameInv

\* A buffer of no use: the stream had one full of bytes not parsed, that is
\* one field longer than it.
LEMMA ReadNoBufsStep ==
    ASSUME FrameInv, NEW s \in Streams, ReadNoBufs(s)
    PROVE  FrameInv'
<1>1. /\ active = NoStream /\ Room(s) = 0 /\ received[s] < Total[s]
      /\ starved' = [starved EXCEPT ![s] = TRUE]
      /\ UNCHANGED <<received, state, done, parsed, active, top>>
  BY DEF ReadNoBufs
<1>2. PICK new \in 0 .. bufs + 1 : Alloc(s, new, <<>>)
  BY DEF ReadNoBufs
<1>3. Alloc(s, new, [j \in 1 .. 0 |-> <<s, received[s] + j>>])
  <2>1. [j \in 1 .. 0 |-> <<s, received[s] + j>>] = <<>>
    BY SMT
  <2>2. QED BY <1>2, <2>1
<1>r. /\ Rest(s) \in Nat
      /\ cur[s] # NoBuf => Runs(mem[cur[s]], ri[cur[s]], Rest(s), s, parsed[s])
      /\ cur[s] = NoBuf => Rest(s) = 0
  BY BufFacts
<1>4. /\ bufs' \in Nat /\ pool' \subseteq 1 .. bufs'
      /\ mem' \in [1 .. bufs' -> Seq(Bytes)] /\ ri' \in [1 .. bufs' -> Nat]
      /\ cur' \in [Streams -> 0 .. bufs']
      /\ BufferOwnedOnce'
      /\ cur'[s] = new /\ new # NoBuf
      /\ Runs(mem'[new], ri'[new], Rest(s) + 0, s, parsed[s])
      /\ \A t \in Streams : t # s =>
           /\ cur'[t] = cur[t]
           /\ cur[t] # NoBuf => mem'[cur[t]] = mem[cur[t]] /\ ri'[cur[t]] = ri[cur[t]]
  <2>1. 0 \in Nat
    OBVIOUS
  <2>2. QED BY <1>3, <2>1, AllocFacts
<1>t. ReaderTypeOK /\ StarvedNeedsLongField /\ InLoop /\ \A t \in Streams : Placed(t) /\ Holds(t) /\ Waits(t)
  BY DEF FrameInv
<1>5. ReaderTypeOK' /\ InLoop'
  <2>1. ReaderTypeOK'
    BY <1>t, <1>1, <1>4 DEF ReaderTypeOK
  <2>2. QED BY <1>t, <1>1, <2>1 DEF InLoop
<1>6. \E m \in FieldLengths(s) : m > Size
  <2>1. done[s] < Len(Format[s])
    <3>1. received[s] \in Nat
      BY BufFacts
    <3>2. QED BY <1>1, <3>1, EndFacts
  <2>2. s # active
    BY <1>1, ReaderAssumption DEF NoStream
  <2>3. Rest(s) < Need(s) /\ Need(s) \in Nat /\ Need(s) \in FieldLengths(s)
    BY <1>t, <2>1, <2>2, NeedFacts DEF Waits
  <2>4. Rest(s) = Size
    <3>1. CASE cur[s] = NoBuf
      <4>1. Room(s) = Size
        <5>1. NoRoom(cur[s])
          BY <3>1, ReaderAssumption DEF NoRoom
        <5>2. Copied(cur[s]) = <<>>
          BY <3>1 DEF Copied
        <5>3. QED BY <5>1, <5>2, ReaderAssumption DEF Room
      <4>2. QED BY <1>1, <4>1, ReaderAssumption
    <3>2. CASE cur[s] # NoBuf
      <4>1. mem[cur[s]] \in Seq(Bytes) /\ Len(mem[cur[s]]) \in Nat
        BY <1>r, <3>2 DEF Runs
      <4>2. NoRoom(cur[s])
        <5> SUFFICES ASSUME ~NoRoom(cur[s]) PROVE FALSE
          OBVIOUS
        <5>1. Size - Len(mem[cur[s]]) = 0
          BY <1>1 DEF Room, Wi
        <5>2. NoRoom(cur[s]) = (Size - Len(mem[cur[s]]) < Size \div 3)
          BY <3>2 DEF NoRoom, Wi
        <5>3. 0 < Size \div 3
          BY ReaderAssumption
        <5>4. QED BY <5>1, <5>2, <5>3
      <4>3. Room(s) = Size - Len(SubSeq(mem[cur[s]], ri[cur[s]] + 1, Len(mem[cur[s]])))
        BY <3>2, <4>2 DEF Room, Copied, Unread, Wi
      <4>4. Runs(SubSeq(mem[cur[s]], ri[cur[s]] + 1, Len(mem[cur[s]])), 0, Rest(s), s, parsed[s])
        BY <1>r, <3>2, MoveFacts
      <4>5. Len(SubSeq(mem[cur[s]], ri[cur[s]] + 1, Len(mem[cur[s]]))) = 0 + Rest(s)
        BY <4>4 DEF Runs
      <4>6. Size - (0 + Rest(s)) = 0
        BY <1>1, <4>3, <4>5
      <4>7. Rest(s) \in Nat /\ Size \in Nat
        BY <1>r, ReaderAssumption
      <4>8. QED BY <4>6, <4>7
    <3>3. QED BY <3>1, <3>2
  <2>5. QED BY <2>3, <2>4, ReaderAssumption
<1>7. StarvedNeedsLongField'
  BY <1>t, <1>1, <1>6 DEF StarvedNeedsLongField, ReaderTypeOK
<1>8. ASSUME NEW t \in Streams PROVE Placed(t)' /\ Holds(t)' /\ Waits(t)'
  <2>1. Placed(t)' /\ Need(t)' = Need(t)
    <3>1. parsed[t] <= received'[t] /\ received'[t] <= Total[t]
      BY <1>t, <1>1 DEF Placed
    <3>2. QED BY <1>t, <1>1, <3>1, PlacedKept
  <2>2. Rest(t)' = Rest(t)
    BY <1>1 DEF Rest
  <2>3. Holds(t)'
    <3>1. CASE t = s
      <4>1. Rest(s) + 0 = Rest(s)
        BY <1>r
      <4>2. QED BY <1>1, <1>4, <2>2, <3>1, <4>1 DEF Holds
    <3>2. CASE t # s
      BY <1>t, <1>1, <1>4, <3>2, HoldsKept
    <3>3. QED BY <3>1, <3>2
  <2>4. Waits(t)'
    BY <1>t, <1>1, <2>1, <2>2 DEF Waits
  <2>5. QED BY <2>1, <2>3, <2>4
<1>9. QED BY <1>4, <1>5, <1>7, <1>8 DEF FrameInv

\* The callback returns when the next field is not complete.
LEMMA LeaveStep ==
    ASSUME FrameInv, active \in Streams, Leave,
           done[active] < Len(Format[active]) => Rest(active) < Need(active)
    PROVE  FrameInv'
<1>1. /\ active' = NoStream /\ top' = FALSE
      /\ UNCHANGED <<bufs, pool, mem, ri, cur, received, state, done, parsed, starved>>
  BY DEF Leave
<1>t. /\ ReaderTypeOK /\ BufferOwnedOnce /\ StarvedNeedsLongField
      /\ \A t \in Streams : Placed(t) /\ Holds(t) /\ Waits(t)
  BY DEF FrameInv
<1>2. ReaderTypeOK' /\ BufferOwnedOnce' /\ StarvedNeedsLongField' /\ InLoop'
  BY <1>t, <1>1 DEF ReaderTypeOK, BufferOwnedOnce, StarvedNeedsLongField, InLoop
<1>3. ASSUME NEW t \in Streams PROVE Placed(t)' /\ Holds(t)' /\ Waits(t)'
  <2>1. Placed(t)' /\ Need(t)' = Need(t)
    <3>1. parsed[t] <= received'[t] /\ received'[t] <= Total[t]
      BY <1>t, <1>1 DEF Placed
    <3>2. QED BY <1>t, <1>1, <3>1, PlacedKept
  <2>2. Holds(t)' /\ Rest(t)' = Rest(t)
    BY <1>t, <1>1, HoldsKept
  <2>3. done[t] < Len(Format[t]) => Rest(t) < Need(t)
    BY <1>t DEF Waits
  <2>4. Waits(t)'
    BY <1>1, <2>1, <2>2, <2>3 DEF Waits
  <2>5. QED BY <2>1, <2>2, <2>4
<1>4. QED BY <1>2, <1>3 DEF FrameInv

LEMMA LoopTestStep ==
    ASSUME FrameInv, LoopTest
    PROVE  FrameInv'
<1>t. /\ ReaderTypeOK /\ BufferOwnedOnce /\ StarvedNeedsLongField /\ InLoop
      /\ \A t \in Streams : Placed(t) /\ Holds(t) /\ Waits(t)
  BY DEF FrameInv
<1>1. active \in Streams /\ top /\ cur[active] # NoBuf
  BY <1>t DEF LoopTest, InLoop, ReaderTypeOK
<1>2. /\ Rest(active) \in Nat /\ Avail(cur[active]) = Rest(active)
      /\ Runs(mem[cur[active]], ri[cur[active]], Rest(active), active, parsed[active])
  BY <1>1, BufFacts
<1>3. ri[Buf] < Wi(Buf) <=> 0 < Rest(active)
  BY <1>2 DEF Buf, Avail, Wi, Runs
<1>4. CASE ri[Buf] < Wi(Buf)
  <2>1. /\ top' = FALSE
        /\ UNCHANGED <<bufs, pool, mem, ri, cur, received, state, done, parsed, starved, active>>
    BY <1>4 DEF LoopTest
  <2>2. ReaderTypeOK' /\ BufferOwnedOnce' /\ StarvedNeedsLongField'
    BY <1>t, <2>1 DEF ReaderTypeOK, BufferOwnedOnce, StarvedNeedsLongField
  <2>3. InLoop'
    BY <1>t, <1>1, <1>3, <1>4, <2>1 DEF InLoop, Rest
  <2>4. ASSUME NEW t \in Streams PROVE Placed(t)' /\ Holds(t)' /\ Waits(t)'
    <3>1. Placed(t)' /\ Need(t)' = Need(t)
      <4>1. parsed[t] <= received'[t] /\ received'[t] <= Total[t]
        BY <1>t, <2>1 DEF Placed
      <4>2. QED BY <1>t, <2>1, <4>1, PlacedKept
    <3>2. Holds(t)' /\ Rest(t)' = Rest(t)
      BY <1>t, <2>1, HoldsKept
    <3>3. Waits(t)'
      BY <1>t, <2>1, <3>1, <3>2 DEF Waits
    <3>4. QED BY <3>1, <3>2, <3>3
  <2>5. QED BY <2>2, <2>3, <2>4 DEF FrameInv
<1>5. CASE ~(ri[Buf] < Wi(Buf))
  <2>1. Leave
    BY <1>5 DEF LoopTest
  <2>2. done[active] < Len(Format[active]) => Rest(active) < Need(active)
    <3> SUFFICES ASSUME done[active] < Len(Format[active]) PROVE Rest(active) < Need(active)
      OBVIOUS
    <3>1. Need(active) \in Nat /\ Need(active) > 0
      BY <1>t, <1>1, NeedFacts DEF Waits
    <3>2. QED BY <1>2, <1>3, <1>5, <3>1
  <2>3. QED BY <1>1, <2>1, <2>2, LeaveStep
<1>6. QED BY <1>4, <1>5

\* A field is taken: the stream is at the next one, or at the next frame.
LEMMA TakeStep ==
    ASSUME FrameInv, NEW s \in Streams, s = active, Block, ~top, Enough(s)
    PROVE  FrameInv'
<1> DEFINE last == state[s] + 1 = Len(Frame(s))
<1>t. /\ ReaderTypeOK /\ BufferOwnedOnce /\ StarvedNeedsLongField /\ InLoop
      /\ \A t \in Streams : Placed(t) /\ Holds(t) /\ Waits(t)
  BY DEF FrameInv
<1>s. s \in Streams /\ cur[s] # NoBuf /\ s # NoStream
  BY <1>t, ReaderAssumption DEF InLoop, NoStream
<1>b. /\ Rest(s) \in Nat /\ Avail(cur[s]) = Rest(s) /\ cur[s] \in 1 .. bufs
      /\ received[s] \in Nat /\ parsed[s] \in Nat /\ received[s] = parsed[s] + Rest(s)
      /\ Runs(mem[cur[s]], ri[cur[s]], Rest(s), s, parsed[s])
  BY <1>s, BufFacts
<1>d. done[s] < Len(Format[s])
  <2> SUFFICES ASSUME ~(done[s] < Len(Format[s])) PROVE FALSE
    OBVIOUS
  <2>1. Rest(s) = 0 /\ state[s] = 0
    BY <1>s, EndFacts
  <2>2. state[s] # 0 \/ 0 < Rest(s)
    BY <1>t, <1>s DEF InLoop
  <2>3. QED BY <2>1, <2>2
<1>n. /\ done[s] + 1 \in 1 .. Len(Format[s]) /\ Frame(s) = Format[s][done[s] + 1]
      /\ state[s] + 1 \in 1 .. Len(Frame(s)) /\ Need(s) \in Nat
      /\ Sums(Frame(s))[state[s] + 1] = Sums(Frame(s))[state[s]] + Need(s)
      /\ Sums(Frame(s))[state[s]] \in Nat
  BY <1>t, <1>s, <1>d, NeedFacts
<1>p. /\ parsed[s] = Sums(FrameLengths(s))[done[s]] + Sums(Frame(s))[state[s]]
      /\ received[s] <= Total[s]
      /\ done[s] \in Nat /\ state[s] \in Nat /\ Len(Format[s]) \in Nat
      /\ Sums(FrameLengths(s))[done[s]] \in Nat
  <2>1. done[s] \in Nat /\ state[s] \in Nat /\ Len(Format[s]) \in Nat
    BY <1>t, <1>s, FramesFacts DEF ReaderTypeOK
  <2>2. done[s] \in 0 .. Len(Format[s])
    BY <1>d, <2>1
  <2>3. QED BY <1>t, <1>s, <2>1, <2>2, FramesFacts DEF Placed
<1>e. Need(s) <= Rest(s)
  BY <1>b, <1>n DEF Enough
<1>1. /\ ri' = [ri EXCEPT ![cur[s]] = @ + Need(s)]
      /\ parsed' = [parsed EXCEPT ![s] = @ + Need(s)]
      /\ state' = [state EXCEPT ![s] = IF last THEN 0 ELSE @ + 1]
      /\ done' = [done EXCEPT ![s] = IF last THEN @ + 1 ELSE @]
      /\ top' = last
      /\ UNCHANGED <<bufs, pool, mem, cur, received, starved, active>>
  BY DEF Block, Buf
<1>2. /\ ri'[cur[s]] = ri[cur[s]] + Need(s) /\ \A b \in 1 .. bufs : b # cur[s] => ri'[b] = ri[b]
      /\ parsed'[s] = parsed[s] + Need(s)
      /\ state'[s] = IF last THEN 0 ELSE state[s] + 1
      /\ done'[s] = IF last THEN done[s] + 1 ELSE done[s]
  BY <1>t, <1>b, <1>s, <1>1 DEF ReaderTypeOK
<1>3. \A t \in Streams : t # s => parsed'[t] = parsed[t] /\ state'[t] = state[t] /\ done'[t] = done[t]
  BY <1>t, <1>1 DEF ReaderTypeOK
<1>q. parsed'[s] = Sums(FrameLengths(s))[done[s]] + Sums(Frame(s))[state[s] + 1]
  <2>1. parsed'[s] = (Sums(FrameLengths(s))[done[s]] + Sums(Frame(s))[state[s]]) + Need(s)
    BY <1>p, <1>2
  <2>2. Sums(Frame(s))[state[s] + 1] = Sums(Frame(s))[state[s]] + Need(s)
    BY <1>n
  <2>3. Sums(FrameLengths(s))[done[s]] \in Nat /\ Sums(Frame(s))[state[s]] \in Nat /\ Need(s) \in Nat
    BY <1>n, <1>p
  <2>4. \A a, b, c \in Nat : (a + b) + c = a + (b + c)
    OBVIOUS
  <2>5. QED BY <2>1, <2>2, <2>3, <2>4
<1>4. ReaderTypeOK'
  <2>1. ri' \in [1 .. bufs -> Nat] /\ parsed' \in [Streams -> Nat]
    <3>1. ri \in [1 .. bufs -> Nat] /\ parsed \in [Streams -> Nat] /\ Need(s) \in Nat
      BY <1>t, <1>n DEF ReaderTypeOK
    <3>2. ri' = [ri EXCEPT ![cur[s]] = ri[cur[s]] + Need(s)] /\ ri[cur[s]] + Need(s) \in Nat
      BY <1>b, <1>1, <3>1
    <3>3. parsed' = [parsed EXCEPT ![s] = parsed[s] + Need(s)] /\ parsed[s] + Need(s) \in Nat
      BY <1>b, <1>1, <3>1
    <3>4. QED BY <3>1, <3>2, <3>3
  <2>2. state' \in [Streams -> Nat] /\ done' \in [Streams -> Nat]
    BY <1>t, <1>1 DEF ReaderTypeOK
  <2>3. top' \in BOOLEAN
    BY <1>1
  <2>4. /\ bufs' = bufs /\ bufs \in Nat /\ pool' \subseteq 1 .. bufs /\ mem' \in [1 .. bufs -> Seq(Bytes)]
        /\ cur' \in [Streams -> 0 .. bufs] /\ received' \in [Streams -> Nat]
        /\ starved' \in [Streams -> BOOLEAN] /\ active' \in Streams \cup {NoStream}
    BY <1>t, <1>1 DEF ReaderTypeOK
  <2>5. QED BY <2>1, <2>2, <2>3, <2>4 DEF ReaderTypeOK
<1>5. BufferOwnedOnce' /\ StarvedNeedsLongField'
  BY <1>t, <1>1 DEF BufferOwnedOnce, StarvedNeedsLongField
<1>6. Frame(s)' = IF last THEN Format[s][(done[s] + 1) + 1] ELSE Frame(s)
  BY <1>1, <1>2 DEF Frame
<1>7. Placed(s)'
  <2>1. parsed'[s] <= received'[s] /\ received'[s] <= Total[s]
    BY <1>b, <1>e, <1>n, <1>p, <1>1, <1>2
  <2>2. CASE last
    <3>1. done'[s] = done[s] + 1 /\ state'[s] = 0 /\ done'[s] <= Len(Format[s])
      BY <1>n, <1>p, <1>2, <2>2
    <3>2. done'[s] < Len(Format[s]) => 0 < Len(Frame(s)')
      <4> SUFFICES ASSUME done'[s] < Len(Format[s]) PROVE 0 < Len(Frame(s)')
        OBVIOUS
      <4>1. (done[s] + 1) + 1 \in 1 .. Len(Format[s]) /\ Frame(s)' = Format[s][(done[s] + 1) + 1]
        BY <1>p, <1>6, <2>2, <3>1
      <4>2. Len(Format[s][(done[s] + 1) + 1]) \in Nat \ {0}
        BY <1>s, <4>1, FormatFacts
      <4>3. QED BY <4>1, <4>2
    <3>3. Sums(FrameLengths(s))[done[s] + 1] = Sums(FrameLengths(s))[done[s]] + FrameLengths(s)[done[s] + 1]
      BY <1>p, SumsRec
    <3>4. FrameLengths(s)[done[s] + 1] = Sums(Frame(s))[state[s] + 1]
      <4>1. FrameLengths(s)[done[s] + 1] = Sums(Format[s][done[s] + 1])[Len(Format[s][done[s] + 1])]
        BY <1>s, <1>n, FormatFacts
      <4>2. QED BY <1>n, <2>2, <4>1
    <3>5. Sums(Frame(s)')[0] = 0
      BY SumsRec
    <3>6. parsed'[s] = Sums(FrameLengths(s))[done'[s]] + Sums(Frame(s)')[state'[s]]
      <4>1. Sums(FrameLengths(s))[done'[s]] = parsed'[s]
        BY <1>q, <3>1, <3>3, <3>4
      <4>2. Sums(Frame(s)')[state'[s]] = 0
        BY <3>1, <3>5
      <4>3. parsed'[s] \in Nat
        BY <1>4 DEF ReaderTypeOK
      <4>4. QED BY <4>1, <4>2, <4>3
    <3>7. FrameLengths(s)' = FrameLengths(s)
      BY <1>1 DEF FrameLengths
    <3>8. QED BY <1>1, <2>1, <3>1, <3>2, <3>6 DEF Placed
  <2>3. CASE ~last
    <3>1. done'[s] = done[s] /\ state'[s] = state[s] + 1 /\ Frame(s)' = Frame(s)
      BY <1>2, <1>6, <2>3
    <3>2. state'[s] < Len(Frame(s))
      BY <1>n, <1>p, <2>3, <3>1
    <3>3. parsed'[s] = Sums(FrameLengths(s))[done'[s]] + Sums(Frame(s))[state'[s]]
      BY <1>q, <3>1
    <3>4. QED BY <1>1, <1>d, <1>p, <2>1, <3>1, <3>2, <3>3 DEF Placed
  <2>4. QED BY <2>2, <2>3
<1>8. Holds(s)'
  <2>1. Rest(s)' = Rest(s) - Need(s)
    BY <1>b, <1>n, <1>1, <1>2 DEF Rest
  <2>2. Runs(mem[cur[s]], ri[cur[s]] + Need(s), Rest(s) - Need(s), s, parsed[s] + Need(s))
    BY <1>b, <1>e, <1>n, SkipFacts
  <2>3. QED BY <1>s, <1>1, <1>2, <2>1, <2>2 DEF Holds
<1>9. Waits(s)'
  <2>1. active' = s
    BY <1>1
  <2>2. ASSUME done'[s] < Len(Format[s]), top' PROVE Need(s)' > 0
    <3>1. state'[s] = 0
      BY <1>1, <1>2, <2>2
    <3>2. Frame(s)' = Format[s][done'[s] + 1] /\ Need(s)' = Format[s][done'[s] + 1][1]
      BY <1>1, <3>1 DEF Need, Frame
    <3>3. done'[s] + 1 \in 1 .. Len(Format[s])
      BY <1>p, <1>2, <2>2
    <3>4. QED BY <1>s, <3>2, <3>3, FormatFacts
  <2>3. QED BY <1>1, <2>1, <2>2 DEF Waits
<1>10. ASSUME NEW t \in Streams, t # s PROVE Placed(t)' /\ Holds(t)' /\ Waits(t)'
  <2>1. Placed(t)' /\ Need(t)' = Need(t)
    <3>1. parsed[t] <= received'[t] /\ received'[t] <= Total[t]
      BY <1>t, <1>1 DEF Placed
    <3>2. QED BY <1>t, <1>3, <1>10, <3>1, PlacedKept
  <2>2. Holds(t)' /\ Rest(t)' = Rest(t)
    <3>1. cur[t] # NoBuf => cur[t] \in 1 .. bufs /\ cur[t] # cur[s]
      <4>1. cur[t] # NoBuf => cur[t] \in 1 .. bufs
        BY BufFacts
      <4>2. QED BY <1>t, <1>s, <1>10, <4>1 DEF BufferOwnedOnce
    <3>2. cur[t] # NoBuf => mem'[cur[t]] = mem[cur[t]] /\ ri'[cur[t]] = ri[cur[t]]
      BY <1>1, <1>2, <3>1
    <3>3. cur'[t] = cur[t] /\ received'[t] = received[t] /\ parsed'[t] = parsed[t]
      BY <1>1, <1>3, <1>10
    <3>4. QED BY <1>t, <3>2, <3>3, HoldsKept
  <2>3. Waits(t)'
    <3> SUFFICES ASSUME done[t] < Len(Format[t]) PROVE Rest(t) < Need(t) /\ Need(t) > 0
      BY <1>1, <1>3, <1>10, <2>1, <2>2 DEF Waits
    <3>1. Rest(t) < Need(t)
      BY <1>t, <1>10 DEF Waits
    <3>2. Need(t) \in Nat /\ Rest(t) \in Nat
      BY <1>t, NeedFacts, BufFacts
    <3>3. QED BY <3>1, <3>2
  <2>4. QED BY <2>1, <2>2, <2>3
<1>11. InLoop'
  <2>1. CASE last
    BY <1>s, <1>1, <2>1 DEF InLoop
  <2>2. CASE ~last
    <3>1. state'[s] # 0
      BY <1>p, <1>2, <2>2
    <3>2. QED BY <1>s, <1>1, <3>1 DEF InLoop
  <2>3. QED BY <2>1, <2>2
<1>12. \A t \in Streams : Placed(t)' /\ Holds(t)' /\ Waits(t)'
  BY <1>7, <1>8, <1>9, <1>10
<1>13. QED BY <1>4, <1>5, <1>11, <1>12 DEF FrameInv

LEMMA BlockStep ==
    ASSUME FrameInv, Block
    PROVE  FrameInv'
<1>1. active \in Streams /\ ~top /\ cur[active] # NoBuf
  BY DEF Block, FrameInv, InLoop, ReaderTypeOK
<1>2. CASE Enough(active)
  BY <1>1, <1>2, TakeStep
<1>3. CASE ~Enough(active)
  <2>1. Leave
    BY <1>3 DEF Block
  <2>2. done[active] < Len(Format[active]) => Rest(active) < Need(active)
    <3> SUFFICES ASSUME done[active] < Len(Format[active]) PROVE Rest(active) < Need(active)
      OBVIOUS
    <3>1. Need(active) \in Nat
      BY <1>1, NeedFacts DEF FrameInv
    <3>2. Rest(active) \in Nat /\ Avail(cur[active]) = Rest(active)
      BY <1>1, BufFacts
    <3>3. QED BY <1>3, <3>1, <3>2 DEF Enough
  <2>3. QED BY <1>1, <2>1, <2>2, LeaveStep
<1>4. QED BY <1>2, <1>3

LEMMA FrameStep == FrameInv /\ [Next]_vars => FrameInv'
<1> SUFFICES ASSUME FrameInv, [Next]_vars PROVE FrameInv'
  OBVIOUS
<1>1. ASSUME NEW s \in Streams, NEW n \in 0 .. Size, Read(s, n) PROVE FrameInv'
  BY <1>1, ReadStep
<1>2. ASSUME NEW s \in Streams, ReadNoBufs(s) PROVE FrameInv'
  BY <1>2, ReadNoBufsStep
<1>3. CASE LoopTest
  BY <1>3, LoopTestStep
<1>4. CASE Block
  BY <1>4, BlockStep
<1>5. CASE UNCHANGED vars
  <2>1. /\ bufs' = bufs /\ pool' = pool /\ mem' = mem /\ ri' = ri /\ cur' = cur /\ received' = received
        /\ state' = state /\ done' = done /\ parsed' = parsed /\ starved' = starved /\ active' = active
        /\ top' = top
    BY <1>5 DEF vars
  <2>2. \A s \in Streams : Placed(s)' = Placed(s) /\ Holds(s)' = Holds(s) /\ Waits(s)' = Waits(s)
    BY <2>1 DEF Placed, Holds, Waits, Rest, Need, Frame
  <2>3. ReaderTypeOK' = ReaderTypeOK
    BY <2>1 DEF ReaderTypeOK
  <2>4. BufferOwnedOnce' = BufferOwnedOnce /\ InLoop' = InLoop /\ StarvedNeedsLongField' = StarvedNeedsLongField
    BY <2>1 DEF BufferOwnedOnce, InLoop, StarvedNeedsLongField, Rest
  <2>5. QED BY <2>2, <2>3, <2>4 DEF FrameInv
<1>6. QED BY <1>1, <1>2, <1>3, <1>4, <1>5 DEF Next

\* The invariant holds of every behaviour of the read loops.
LEMMA FrameInvariant == Spec => []FrameInv
<1>1. Spec => Init /\ [][Next]_vars
  BY DEF Spec
<1>2. QED BY <1>1, FrameInit, FrameStep, PTL

-----------------------------------------------------------------------------
\* Buffers, indices and states of the parsers stay in range: 0 <= read_idx,
\* read_state a field of the frame's, every current buffer one that exists.
THEOREM ReaderTypeCorrect == Spec => []ReaderTypeOK
<1>1. FrameInv => ReaderTypeOK
  BY DEF FrameInv
<1>2. QED BY <1>1, FrameInvariant, PTL

\* bytebuf.cc's pool and the alloc callbacks never give a buffer to two
\* streams, nor keep one in the pool that a stream still uses.
THEOREM OneOwnerPerBuffer == Spec => []BufferOwnedOnce
<1>1. FrameInv => BufferOwnedOnce
  BY DEF FrameInv
<1>2. QED BY <1>1, FrameInvariant, PTL

\* What lies between read_idx and write_idx are the bytes of the stream that
\* follow the last field taken, however often an alloc_cb moved them.
THEOREM BytesInOrder == Spec => []NothingMixedUp
<1>1. FrameInv => NothingMixedUp
  <2> SUFFICES ASSUME FrameInv, NEW s \in Streams, cur[s] # NoBuf
               PROVE  Unread(cur[s]) = [j \in 1 .. received[s] - parsed[s] |-> <<s, parsed[s] + j>>]
    BY DEF NothingMixedUp
  <2> DEFINE w == Unread(cur[s])
  <2>1. w = SubSeq(mem[cur[s]], ri[cur[s]] + 1, Len(mem[cur[s]]))
    BY DEF Unread, Wi
  <2>2. Runs(w, 0, Rest(s), s, parsed[s])
    <3>1. Runs(mem[cur[s]], ri[cur[s]], Rest(s), s, parsed[s])
      BY BufFacts
    <3>2. QED BY <2>1, <3>1, MoveFacts
  <2> HIDE DEF w
  <2>3. /\ w \in Seq(Bytes) /\ Rest(s) \in Nat /\ Len(w) = Rest(s)
        /\ \A j \in 1 .. Rest(s) : w[j] = <<s, parsed[s] + j>>
    <3>1. w \in Seq(Bytes) /\ Rest(s) \in Nat /\ Len(w) = 0 + Rest(s)
      BY <2>2 DEF Runs
    <3>2. \A j \in 1 .. Rest(s) : w[0 + j] = <<s, parsed[s] + j>> /\ 0 + j = j
      BY <2>2 DEF Runs
    <3>3. QED BY <3>1, <3>2
  <2>4. w = [j \in 1 .. Rest(s) |-> w[j]]
    BY <2>3
  <2>5. QED BY <2>3, <2>4 DEF w, Rest
<1>2. QED BY <1>1, FrameInvariant, PTL

\* When a read callback of pa_client.cc, dubbo_client.cc or pa.cc returns, the
\* buffer does not have the rest of the frame it is in.
THEOREM NoCompleteFrameLeft == Spec => []NoFrameLeft
<1>1. FrameInv => NoFrameLeft
  <2> SUFFICES ASSUME FrameInv, active = NoStream, NEW s \in Streams, done[s] < Len(Format[s])
               PROVE  received[s] - parsed[s] < FrameLengths(s)[done[s] + 1] - Sums(Frame(s))[state[s]]
    BY DEF NoFrameLeft
  <2>1. s # active
    BY ReaderAssumption DEF NoStream
  <2>2. Rest(s) < Need(s)
    BY <2>1 DEF FrameInv, Waits
  <2>3. /\ Need(s) \in Nat /\ Sums(Frame(s))[state[s]] \in Nat
        /\ Sums(Frame(s))[state[s]] + Need(s) <= FrameLengths(s)[done[s] + 1]
    BY NeedFacts DEF FrameInv
  <2>4. FrameLengths(s)[done[s] + 1] \in Nat
    <3>1. done[s] + 1 \in 1 .. Len(Format[s])
      BY NeedFacts DEF FrameInv
    <3>2. /\ Len(Format[s][done[s] + 1]) \in Nat
          /\ FrameLengths(s)[done[s] + 1] = Sums(Format[s][done[s] + 1])[Len(Format[s][done[s] + 1])]
          /\ \A k \in 0 .. Len(Format[s][done[s] + 1]) : Sums(Format[s][done[s] + 1])[k] \in Nat
      BY <3>1, FormatFacts
    <3>3. Len(Format[s][done[s] + 1]) \in 0 .. Len(Format[s][done[s] + 1])
      BY <3>2
    <3>4. QED BY <3>2, <3>3
  <2>5. Rest(s) \in Nat
    BY BufFacts
  <2>6. QED BY <2>2, <2>3, <2>4, <2>5 DEF Rest
<1>2. QED BY <1>1, FrameInvariant, PTL

\* A read finds no room (UV_ENOBUFS) only if a field of the stream is longer
\* than a buffer.
THEOREM StarvedOnlyByLongField == Spec => []StarvedNeedsLongField
<1>1. FrameInv => StarvedNeedsLongField
  BY DEF FrameInv
<1>2. QED BY <1>1, FrameInvariant, PTL

-----------------------------------------------------------------------------
\* What sequences on the wire consist of.
Units == Nat \cup (UNION {Range(t) : t \in Texts}) \cup {NL, Quote, Other, Magic}

Strings == Seq(Units)

-----------------------------------------------------------------------------
\* Integers.

\* The weights of the bytes of an int.
LEMMA Weights ==
    /\ Base \in Nat \ {0} /\ Base * Base \in Nat \ {0}
    /\ Base * Base * Base \in Nat \ {0} /\ IntMod \in Nat \ {0}
    /\ IntMod >= 16 /\ IntMod = Base * (Base * Base * Base)
<1>1. Base \in Nat /\ Base >= 2
  BY CodecAssumption
<1>2. Base * Base \in Nat /\ Base * Base >= 4
  BY <1>1
<1>3. Base * Base * Base \in Nat /\ Base * Base * Base >= 8
  <2> DEFINE b2 == Base * Base
  <2>1. b2 \in Nat /\ b2 >= 4
    BY <1>2
  <2> HIDE DEF b2
  <2>2. b2 * Base \in Nat /\ b2 * Base >= 8
    BY <1>1, <2>1
  <2>3. QED BY <2>2 DEF b2
<1>4. IntMod \in Nat /\ IntMod >= 16 /\ IntMod = Base * (Base * Base * Base)
  <2> DEFINE b3 == Base * Base * Base
  <2>1. b3 \in Nat /\ b3 >= 8
    BY <1>3
  <2> HIDE DEF b3
  <2>2. b3 * Base \in Nat /\ b3 * Base >= 16 /\ b3 * Base = Base * b3
    BY <1>1, <2>1
  <2>3. QED BY <2>2 DEF b3, IntMod
<1>5. QED BY <1>1, <1>2, <1>3, <1>4

\* Half of an int's values, exactly.
LEMMA HalfInt == IntMod \div 2 \in Nat /\ 2 * (IntMod \div 2) = IntMod
<1>1. PICK h \in Nat : Base = 2 * h
  BY CodecAssumption
<1>2. Base * Base * Base \in Nat
  BY Weights
<1>3. IntMod = 2 * (h * (Base * Base * Base))
  <2> DEFINE b3 == Base * Base * Base
  <2>1. b3 \in Nat /\ IntMod = Base * b3
    BY <1>2, Weights
  <2> HIDE DEF b3
  <2>2. IntMod = 2 * (h * b3)
    BY <1>1, <2>1
  <2>3. QED BY <2>2 DEF b3
<1>4. h * (Base * Base * Base) \in Nat
  BY <1>1, <1>2
<1> DEFINE k == h * (Base * Base * Base)
<1>5. k \in Nat /\ IntMod = 2 * k
  BY <1>3, <1>4
<1> HIDE DEF k
<1>6. QED BY <1>5

\* A value below half the modulus is its own signed form.
LEMMA SmallSigned ==
    ASSUME NEW m \in Nat, NEW h \in Nat, m = 2 * h, NEW v \in 0 .. h - 1
    PROVE  Signed(v, m) = v
<1>1. m \div 2 = h
  OBVIOUS
<1>2. (v + h) % m = v + h
  OBVIOUS
<1>3. QED BY <1>1, <1>2 DEF Signed

\* Division by a product is division by one factor and then by the other.
LEMMA DivDiv ==
    ASSUME NEW v \in Nat, NEW b \in Nat \ {0}, NEW c \in Nat \ {0}
    PROVE  v \div (b * c) = (v \div b) \div c
  OBVIOUS

\* Horner's form of a number.
LEMMA Horner ==
    ASSUME NEW b \in Nat, NEW q1 \in Nat, NEW q2 \in Nat, NEW q3 \in Nat,
           NEW r0 \in Nat, NEW r1 \in Nat, NEW r2 \in Nat, NEW v \in Nat,
           v = q1 * b + r0, q1 = q2 * b + r1, q2 = q3 * b + r2
    PROVE  ((q3 * b + r2) * b + r1) * b + r0 = v
  OBVIOUS

\* The bytes in Horner's form are the number they were taken from.
LEMMA Recombined ==
    ASSUME NEW v \in 0 .. IntMod - 1
    PROVE  ((write_int(v)[1] * Base + write_int(v)[2]) * Base + write_int(v)[3]) * Base
             + write_int(v)[4] = v
<1> DEFINE q1 == v \div Base
           q2 == q1 \div Base
           q3 == q2 \div Base
<1>1. Base \in Nat \ {0} /\ v \in Nat
  BY Weights
<1> DEFINE r0 == v % Base
           r1 == q1 % Base
           r2 == q2 % Base
<1>2. q1 \in Nat /\ r0 \in Nat /\ v = q1 * Base + r0
  BY <1>1
<1>3. q2 \in Nat /\ r1 \in Nat /\ q1 = q2 * Base + r1
  <2> HIDE DEF q1
  <2>1. QED BY <1>1, <1>2
<1>4. q3 \in Nat /\ r2 \in Nat /\ q2 = q3 * Base + r2
  <2> HIDE DEF q2
  <2>1. QED BY <1>1, <1>3
<1>5. v \div (Base * Base) = q2
  BY <1>1, DivDiv
<1>6. v \div (Base * Base * Base) = q3
  <2>1. v \div (Base * Base * Base) = (v \div (Base * Base)) \div Base
    BY <1>1, Weights, DivDiv
  <2>2. QED BY <2>1, <1>5
<1>7. q3 < Base
  <2>1. v < Base * (Base * Base * Base)
    BY <1>1, Weights
  <2>2. v \div (Base * Base * Base) < Base
    <3> DEFINE b3 == Base * Base * Base
    <3>1. b3 \in Nat \ {0} /\ v < Base * b3
      BY <2>1, Weights
    <3> HIDE DEF b3
    <3>2. v \div b3 < Base
      BY <3>1, <1>1
    <3>3. QED BY <3>2 DEF b3
  <2>3. QED BY <2>2, <1>6
<1>8. q3 % Base = q3
  <2> HIDE DEF q3
  <2>1. QED BY <1>1, <1>4, <1>7
<1>9. /\ write_int(v)[1] = q3 /\ write_int(v)[2] = r2
      /\ write_int(v)[3] = r1 /\ write_int(v)[4] = r0
  BY <1>5, <1>6, <1>8 DEF write_int
<1> HIDE DEF q1, q2, q3, r0, r1, r2
<1>10. ((q3 * Base + r2) * Base + r1) * Base + r0 = v
  BY <1>1, <1>2, <1>3, <1>4, Horner
<1>11. QED BY <1>9, <1>10

\* An int that is not negative comes back from its four bytes.
LEMMA IntReadBack ==
    ASSUME NEW v \in 0 .. (IntMod \div 2) - 1
    PROVE  bytes2int(write_int(v)) = v
<1>1. v \in 0 .. IntMod - 1
  BY HalfInt
<1>2. Signed(v, IntMod) = v
  BY HalfInt, Weights, SmallSigned
<1>3. QED BY <1>1, <1>2, Recombined DEF bytes2int

\* Four bytes are written.
LEMMA IntBytes ==
    ASSUME NEW v \in Nat
    PROVE  write_int(v) \in Seq(Nat) /\ Len(write_int(v)) = 4
<1>1. Base \in Nat \ {0} /\ Base * Base \in Nat \ {0} /\ Base * Base * Base \in Nat \ {0}
  BY Weights
<1>2. \A w \in Nat : w % Base \in Nat
  BY <1>1
<1>3. v \div Base \in Nat /\ v \div (Base * Base) \in Nat
  BY <1>1
<1>4. v \div (Base * Base * Base) \in Nat
  BY <1>1
<1>5. QED BY <1>2, <1>3, <1>4 DEF write_int

-----------------------------------------------------------------------------
\* Fields.

\* What the encoders put together are strings.
LEMMA Strung ==
    /\ \A t \in Texts : t \in Strings /\ Len(t) \in Nat /\ (\A i \in 1 .. Len(t) : t[i] # NL)
    /\ \A v \in Nat : write_int(v) \in Strings /\ Len(write_int(v)) = 4
                        /\ (\A i \in 1 .. 4 : write_int(v)[i] \in Nat)
<1>1. ASSUME NEW t \in Texts
      PROVE  t \in Strings /\ Len(t) \in Nat /\ (\A i \in 1 .. Len(t) : t[i] # NL)
  <2>1. t \in Seq(Range(t)) /\ NL \notin Range(t)
    BY CodecAssumption
  <2>2. Range(t) \subseteq Units
    BY DEF Units
  <2>3. \A i \in 1 .. Len(t) : t[i] \in Range(t)
    BY <2>1, ElementOfSeq
  <2>4. t \in Strings
    BY <2>1, <2>2, SeqMonotonic DEF Strings
  <2>5. QED BY <2>1, <2>3, <2>4 DEF Strings
<1>2. ASSUME NEW v \in Nat
      PROVE  write_int(v) \in Strings /\ Len(write_int(v)) = 4
               /\ (\A i \in 1 .. 4 : write_int(v)[i] \in Nat)
  <2>1. write_int(v) \in Seq(Nat) /\ Len(write_int(v)) = 4
    BY IntBytes
  <2>2. write_int(v) \in Strings
    BY <2>1, SeqMonotonic DEF Units, Strings
  <2>3. QED BY <2>1, <2>2, ElementOfSeq
<1>3. QED BY <1>1, <1>2

\* One string behind the other.
LEMMA Joined ==
    ASSUME NEW s \in Strings, NEW t \in Strings
    PROVE  /\ s \o t \in Strings /\ Len(s \o t) = Len(s) + Len(t)
           /\ Len(s) \in Nat /\ Len(t) \in Nat
  BY DEF Strings

\* An int behind a string.
LEMMA JoinedInt ==
    ASSUME NEW s \in Strings, NEW v \in Nat
    PROVE  s \o write_int(v) \in Strings /\ Len(s \o write_int(v)) = Len(s) + 4
<1>1. write_int(v) \in Strings /\ Len(write_int(v)) = 4
  BY Strung
<1>2. s \o write_int(v) \in Strings /\ Len(s \o write_int(v)) = Len(s) + Len(write_int(v))
  BY <1>1, Joined, Zenon
<1>3. QED BY <1>1, <1>2

\* Three strings, from either side.
LEMMA Regrouped ==
    ASSUME NEW s \in Strings, NEW t \in Strings, NEW u \in Strings
    PROVE  (s \o t) \o u = s \o (t \o u) /\ t \o u \in Strings
  BY ConcatAssociative, Joined DEF Strings

\* What follows a slice does not change it.
LEMMA SliceWithin ==
    ASSUME NEW s \in Strings, NEW t \in Strings, NEW from \in Nat \ {0}, NEW n \in Nat,
           from + n - 1 <= Len(s)
    PROVE  Take(s \o t, from, n) = Take(s, from, n)
  BY DEF Take, Strings

\* What was appended last is the slice from there.
LEMMA SliceAtEnd ==
    ASSUME NEW s \in Strings, NEW t \in Strings
    PROVE  Take(s \o t, Len(s) + 1, Len(t)) = t
<1>1. Len(Take(s \o t, Len(s) + 1, Len(t))) = Len(t)
  BY DEF Take, Strings
<1>2. \A i \in 1 .. Len(t) : Take(s \o t, Len(s) + 1, Len(t))[i] = t[i]
  BY DEF Take, Strings
<1>3. Take(s \o t, Len(s) + 1, Len(t)) \in Strings
  BY DEF Take, Strings
<1>4. QED BY <1>1, <1>2, <1>3, SeqEqual DEF Strings

\* A length that was appended last is read back.
LEMMA IntAtEnd ==
    ASSUME NEW s \in Strings, NEW v \in 0 .. (IntMod \div 2) - 1
    PROVE  IntAt(s \o write_int(v), Len(s) + 1) = v
<1>1. v \in Nat
  BY HalfInt
<1>2. Take(s \o write_int(v), Len(s) + 1, 4) = write_int(v)
  BY <1>1, Strung, SliceAtEnd
<1>3. QED BY <1>2, IntReadBack DEF IntAt

\* What follows a length does not change it.
LEMMA IntWithin ==
    ASSUME NEW s \in Strings, NEW t \in Strings, NEW from \in Nat \ {0}, from + 3 <= Len(s)
    PROVE  IntAt(s \o t, from) = IntAt(s, from)
  BY SliceWithin DEF IntAt

\* An int that was written behind s is read back, whatever follows.
LEMMA IntBehind ==
    ASSUME NEW s \in Strings, NEW t \in Strings, NEW v \in 0 .. (IntMod \div 2) - 1
    PROVE  IntAt((s \o write_int(v)) \o t, Len(s) + 1) = v
<1>1. v \in Nat /\ Len(s) \in Nat
  BY HalfInt DEF Strings
<1> DEFINE p == s \o write_int(v)
<1>2. p \in Strings /\ Len(p) = Len(s) + 4
  BY <1>1, JoinedInt, Zenon
<1>3. IntAt(p, Len(s) + 1) = v
  BY IntAtEnd, Zenon
<1> HIDE DEF p
<1>4. IntAt(p \o t, Len(s) + 1) = IntAt(p, Len(s) + 1)
  BY <1>1, <1>2, IntWithin
<1>5. QED BY <1>3, <1>4 DEF p

\* A text that was written behind s is read back, whatever follows.
LEMMA TextBehind ==
    ASSUME NEW s \in Strings, NEW t \in Strings, NEW u \in Strings
    PROVE  Take((s \o t) \o u, Len(s) + 1, Len(t)) = t
<1>1. Len(t) \in Nat /\ Len(s) \in Nat
  BY DEF Strings
<1> DEFINE p == s \o t
<1>2. p \in Strings /\ Len(p) = Len(s) + Len(t)
  BY Joined, Zenon
<1>3. Take(p, Len(s) + 1, Len(t)) = t
  BY SliceAtEnd, Zenon
<1> HIDE DEF p
<1>4. Take(p \o u, Len(s) + 1, Len(t)) = Take(p, Len(s) + 1, Len(t))
  BY <1>1, <1>2, SliceWithin
<1>5. QED BY <1>3, <1>4 DEF p

-----------------------------------------------------------------------------
\* The ACT formats.

\* The lengths that are sent are ints.
LEMMA Fits ==
    /\ \A t \in Texts : Len(t) \in 0 .. (IntMod \div 2) - 1 /\ Len(t) + 3 \in 0 .. (IntMod \div 2) - 1
    /\ \A r : /\ r.interface \in Texts /\ r.method \in Texts /\ r.pts \in Texts /\ r.args \in Texts
              => DubboRoom(r) - 16 \in 0 .. (IntMod \div 2) - 1
<1>1. Len(DubboVersion) = 5
  BY DEF DubboVersion
<1>2. \A r : r.interface \in Texts /\ r.method \in Texts /\ r.pts \in Texts /\ r.args \in Texts
              => /\ DubboRoom(r) - 16 \in 0 .. (IntMod \div 2) - 1
                 /\ DubboRoom(r) = 110 + Len(r.interface) + Len(r.method) + Len(r.pts) + Len(r.args)
  <2> SUFFICES ASSUME NEW r, r.interface \in Texts /\ r.method \in Texts /\ r.pts \in Texts /\ r.args \in Texts
               PROVE  /\ DubboRoom(r) - 16 \in 0 .. (IntMod \div 2) - 1
                      /\ DubboRoom(r) = 110 + Len(r.interface) + Len(r.method) + Len(r.pts) + Len(r.args)
    OBVIOUS
  <2> DEFINE q == [interface |-> r.interface, method |-> r.method, pts |-> r.pts, args |-> r.args]
  <2>1. q \in [interface : Texts, method : Texts, pts : Texts, args : Texts]
    OBVIOUS
  <2>2. DubboRoom(q) < IntMod \div 2
    BY <2>1, LengthAssumption
  <2>3. DubboRoom(r) = DubboRoom(q)
    BY DEF DubboRoom
  <2> DEFINE i == Len(r.interface)
             m == Len(r.method)
             t == Len(r.pts)
             a == Len(r.args)
             d == Len(DubboVersion)
  <2>4. i \in Nat /\ m \in Nat /\ t \in Nat /\ a \in Nat /\ d = 5
    BY <1>1, Strung
  <2>5. DubboRoom(r) = 4 + 8 + 4 + (d + 1) + (i + 1) + 5 + (t + 1) + (a + 1) + 69 + 10 + (m + 1)
    BY DEF DubboRoom
  <2> HIDE DEF q, i, m, t, a, d
  <2>6. DubboRoom(r) = 110 + i + m + t + a
    BY <2>4, <2>5
  <2>7. DubboRoom(r) - 16 \in 0 .. (IntMod \div 2) - 1
    BY <2>2, <2>3, <2>4, <2>6, HalfInt
  <2>8. QED BY <2>6, <2>7 DEF i, m, t, a
<1>3. ASSUME NEW t \in Texts
      PROVE  Len(t) \in 0 .. (IntMod \div 2) - 1 /\ Len(t) + 3 \in 0 .. (IntMod \div 2) - 1
  <2> DEFINE q == [interface |-> t, method |-> t, pts |-> t, args |-> t]
  <2> DEFINE n == Len(t)
  <2>1. DubboRoom(q) - 16 \in 0 .. (IntMod \div 2) - 1 /\ DubboRoom(q) = 110 + n + n + n + n
    <3>1. /\ q.interface = t /\ q.method = t /\ q.pts = t /\ q.args = t
      OBVIOUS
    <3> HIDE DEF q
    <3>2. QED BY <1>2, <3>1
  <2>2. n \in Nat
    BY Strung
  <2> HIDE DEF q, n
  <2>4. n \in 0 .. (IntMod \div 2) - 1 /\ n + 3 \in 0 .. (IntMod \div 2) - 1
    BY <2>1, <2>2, HalfInt
  <2>5. QED BY <2>4 DEF n
<1>4. QED BY <1>2, <1>3

\* The provider agent reads the key that was written, and nothing is left.
LEMMA KeyRead ==
    ASSUME NEW k \in Keys
    PROVE  /\ Len(KeyBytes(k)) = KeyRoom(k)
           /\ IntAt(KeyBytes(k), 3) = Len(k.interface)
           /\ Take(KeyBytes(k), 7, Len(k.interface)) = k.interface
           /\ IntAt(KeyBytes(k), 7 + Len(k.interface)) = Len(k.method)
           /\ Take(KeyBytes(k), 11 + Len(k.interface), Len(k.method)) = k.method
           /\ IntAt(KeyBytes(k), 11 + Len(k.interface) + Len(k.method)) = Len(k.pts)
           /\ Take(KeyBytes(k), 15 + Len(k.interface) + Len(k.method), Len(k.pts)) = k.pts
           /\ SubSeq(KeyBytes(k), 15 + Len(k.interface) + Len(k.method) + Len(k.pts),
                     Len(KeyBytes(k))) = <<>>
<1> DEFINE I == k.interface
           M == k.method
           T == k.pts
           i == Len(I)
           m == Len(M)
           t == Len(T)
           p0 == <<Magic, Magic>>
           p1 == p0 \o write_int(i)
           p2 == p1 \o I
           p3 == p2 \o write_int(m)
           p4 == p3 \o M
           p5 == p4 \o write_int(t)
           p6 == p5 \o T
<1>1. /\ I \in Strings /\ M \in Strings /\ T \in Strings
      /\ i \in 0 .. (IntMod \div 2) - 1 /\ m \in 0 .. (IntMod \div 2) - 1
      /\ t \in 0 .. (IntMod \div 2) - 1 /\ i \in Nat /\ m \in Nat /\ t \in Nat
  BY Strung, Fits DEF Keys
<1>2. /\ write_int(i) \in Strings /\ write_int(m) \in Strings /\ write_int(t) \in Strings
      /\ Len(write_int(i)) = 4 /\ Len(write_int(m)) = 4 /\ Len(write_int(t)) = 4
  BY <1>1, Strung
<1>3. p0 \in Strings /\ Len(p0) = 2
  <2>1. Magic \in Units
    BY DEF Units
  <2>2. QED BY <2>1 DEF Strings
<1>4. KeyBytes(k) = p6 /\ i = Len(I) /\ m = Len(M) /\ t = Len(T)
  BY DEF KeyBytes
<1> HIDE DEF I, M, T, i, m, t, p0
<1>5. p1 \in Strings /\ Len(p1) = Len(p0) + 4
  BY <1>1, <1>3, JoinedInt, Zenon
<1> HIDE DEF p1
<1>6. p2 \in Strings /\ Len(p2) = Len(p1) + i
  BY <1>1, <1>4, <1>5, Joined, Zenon
<1> HIDE DEF p2
<1>7. p3 \in Strings /\ Len(p3) = Len(p2) + 4
  BY <1>1, <1>6, JoinedInt, Zenon
<1> HIDE DEF p3
<1>8. p4 \in Strings /\ Len(p4) = Len(p3) + m
  BY <1>1, <1>4, <1>7, Joined, Zenon
<1> HIDE DEF p4
<1>9. p5 \in Strings /\ Len(p5) = Len(p4) + 4
  BY <1>1, <1>8, JoinedInt, Zenon
<1> HIDE DEF p5
<1>10. p6 \in Strings /\ Len(p6) = Len(p5) + t
  BY <1>1, <1>4, <1>9, Joined, Zenon
<1>11. /\ Len(p1) = 6 /\ Len(p2) = 6 + i /\ Len(p3) = 10 + i /\ Len(p4) = 10 + i + m
       /\ Len(p5) = 14 + i + m
  BY <1>1, <1>3, <1>5, <1>6, <1>7, <1>8, <1>9
<1>12. Len(p6) = 14 + i + m + t
  BY <1>1, <1>10, <1>11
<1> DEFINE r4 == write_int(t) \o T
           r3 == M \o r4
           r2 == write_int(m) \o r3
           r1 == I \o r2
<1>13. p6 = p4 \o r4 /\ r4 \in Strings
  BY <1>1, <1>2, <1>8, Regrouped, Zenon DEF p5
<1> HIDE DEF r4
<1>14. p6 = p3 \o r3 /\ r3 \in Strings
  BY <1>1, <1>7, <1>13, Regrouped, Zenon DEF p4
<1> HIDE DEF r3
<1>15. p6 = p2 \o r2 /\ r2 \in Strings
  BY <1>2, <1>6, <1>14, Regrouped, Zenon DEF p3
<1> HIDE DEF r2
<1>16. p6 = p1 \o r1 /\ r1 \in Strings
  BY <1>1, <1>5, <1>15, Regrouped, Zenon DEF p2
<1> HIDE DEF r1, p6
<1>17. IntAt(p6, Len(p0) + 1) = i
  BY <1>1, <1>3, <1>16, IntBehind, Zenon DEF p1
<1>18. Take(p6, Len(p1) + 1, i) = I
  <2>1. Take((p1 \o I) \o r2, Len(p1) + 1, Len(I)) = I
    BY <1>1, <1>5, <1>15, TextBehind, Zenon
  <2>2. QED BY <1>4, <1>15, <2>1, Zenon DEF p2
<1>19. IntAt(p6, Len(p2) + 1) = m
  BY <1>1, <1>6, <1>14, IntBehind, Zenon DEF p3
<1>20. Take(p6, Len(p3) + 1, m) = M
  <2>1. Take((p3 \o M) \o r4, Len(p3) + 1, Len(M)) = M
    BY <1>1, <1>7, <1>13, TextBehind, Zenon
  <2>2. QED BY <1>4, <1>13, <2>1, Zenon DEF p4
<1>21. IntAt(p6, Len(p4) + 1) = t
  BY <1>1, <1>8, IntBehind, Zenon DEF p5, p6
<1>22. Take(p6, Len(p5) + 1, t) = T
  BY <1>1, <1>4, <1>9, SliceAtEnd, Zenon DEF p6
<1>23. SubSeq(p6, 15 + i + m + t, Len(p6)) = <<>>
  BY <1>1, <1>12, SubSeqEmpty
<1>24. Len(p6) = KeyRoom(k)
  <2>1. KeyRoom(k) = 4 + i + 4 + m + 4 + t + 2
    BY DEF KeyRoom, i, m, t, I, M, T
  <2>2. QED BY <1>1, <1>12, <2>1
<1>25. /\ Len(p0) + 1 = 3 /\ Len(p1) + 1 = 7 /\ Len(p2) + 1 = 7 + i /\ Len(p3) + 1 = 11 + i
       /\ Len(p4) + 1 = 11 + i + m /\ Len(p5) + 1 = 15 + i + m
  BY <1>1, <1>3, <1>11
<1>26. QED
  <2>1. /\ IntAt(p6, 3) = i /\ Take(p6, 7, i) = I /\ IntAt(p6, 7 + i) = m
        /\ Take(p6, 11 + i, m) = M /\ IntAt(p6, 11 + i + m) = t /\ Take(p6, 15 + i + m, t) = T
    BY <1>17, <1>18, <1>19, <1>20, <1>21, <1>22, <1>25, Zenon
  <2>2. QED BY <1>4, <1>23, <1>24, <2>1, Zenon DEF i, m, t, I, M, T

\* An id, a length and a text: a request and a response of the ACT protocol.
LEMMA Envelope ==
    ASSUME NEW id \in 0 .. (IntMod \div 2) - 1, NEW t \in Strings,
           Len(t) \in 0 .. (IntMod \div 2) - 1
    PROVE  LET w == write_int(id) \o write_int(Len(t)) \o t IN
           /\ w \in Strings /\ Len(w) = 8 + Len(t)
           /\ IntAt(w, 1) = id /\ IntAt(w, 5) = Len(t) /\ Take(w, 9, Len(t)) = t
<1> DEFINE n == Len(t)
           p1 == write_int(id)
           p2 == p1 \o write_int(n)
           w == p2 \o t
<1>1. n \in 0 .. (IntMod \div 2) - 1 /\ n \in Nat /\ id \in Nat /\ n = Len(t)
  BY HalfInt
<1> HIDE DEF n
<1>2. p1 \in Strings /\ Len(p1) = 4 /\ write_int(n) \in Strings
  BY <1>1, Strung
<1>3. <<>> \in Strings /\ Len(<<>>) = 0 /\ <<>> \o p1 = p1
  BY <1>2, EmptySeq, ConcatEmptySeq DEF Strings
<1>4. p2 \in Strings /\ Len(p2) = Len(p1) + 4
  <2> HIDE DEF p1
  <2>1. QED BY <1>1, <1>2, JoinedInt, Zenon
<1>5. w \in Strings /\ Len(w) = Len(p2) + n
  <2> HIDE DEF p2
  <2>1. QED BY <1>1, <1>4, Joined, Zenon
<1>6. w = p1 \o (write_int(n) \o t) /\ write_int(n) \o t \in Strings
  BY <1>2, Regrouped, Zenon
<1>7. IntAt(w, 1) = id
  <2>1. IntAt(p1, Len(<<>>) + 1) = id
    <3>1. IntAt(<<>> \o write_int(id), Len(<<>>) + 1) = id
      BY <1>3, IntAtEnd, Zenon
    <3>2. QED BY <1>3, <3>1, Zenon
  <2>2. IntAt(p1, 1) = id
    BY <1>3, <2>1
  <2>3. IntAt(p1 \o (write_int(n) \o t), 1) = IntAt(p1, 1)
    <3> DEFINE u == write_int(n) \o t
    <3>1. u \in Strings
      BY <1>6
    <3> HIDE DEF p1, u
    <3>2. IntAt(p1 \o u, 1) = IntAt(p1, 1)
      <4>1. 1 \in Nat \ {0} /\ 1 + 3 <= Len(p1)
        BY <1>2
      <4>2. QED BY <1>2, <3>1, <4>1, IntWithin, Zenon
    <3>3. QED BY <3>2 DEF u
  <2>4. QED BY <1>6, <2>2, <2>3, Zenon
<1>8. IntAt(w, Len(p1) + 1) = n
  <2> HIDE DEF p1
  <2>1. QED BY <1>1, <1>2, IntBehind, Zenon
<1>9. Take(w, Len(p2) + 1, n) = t
  <2> HIDE DEF p2
  <2>1. QED BY <1>1, <1>4, SliceAtEnd, Zenon
<1> HIDE DEF p1, p2, w
<1>10. Len(p1) + 1 = 5 /\ Len(p2) + 1 = 9 /\ Len(w) = 8 + n
  BY <1>1, <1>2, <1>4, <1>5
<1>11. IntAt(w, 5) = n /\ Take(w, 9, n) = t
  BY <1>8, <1>9, <1>10, Zenon
<1>12. QED BY <1>1, <1>5, <1>7, <1>10, <1>11, Zenon DEF w, p1, p2, n

-----------------------------------------------------------------------------
\* The Dubbo formats.

\* A long long whose upper half is 0 comes back from its eight bytes.
LEMMA LongReadBack ==
    ASSUME NEW id \in 0 .. (IntMod \div 2) - 1
    PROVE  /\ write_ll(id) \in Strings /\ Len(write_ll(id)) = 8
           /\ bytes2ll(write_ll(id)) = id
<1> DEFINE hi == write_int(0)
           lo == write_int(id)
<1>1. id \in Nat /\ id < IntMod /\ id \in 0 .. (IntMod \div 2) - 1 /\ 0 \in 0 .. (IntMod \div 2) - 1
  BY HalfInt, Weights
<1>2. id \div IntMod = 0
  <2>1. IntMod \in Nat \ {0}
    BY Weights
  <2>2. QED BY <1>1, <2>1
<1>3. write_ll(id) = hi \o lo
  BY <1>2 DEF write_ll
<1>4. hi \in Strings /\ lo \in Strings /\ Len(hi) = 4 /\ Len(lo) = 4
  BY <1>1, Strung
<1>5. bytes2int(hi) = 0 /\ bytes2int(lo) = id
  BY <1>1, IntReadBack
<1> HIDE DEF hi, lo
<1>6. hi \o lo \in Strings /\ Len(hi \o lo) = 8
  <2>1. hi \o lo \in Strings /\ Len(hi \o lo) = Len(hi) + Len(lo)
    BY <1>4, Joined, Zenon
  <2>2. QED BY <1>4, <2>1
<1>7. SubSeq(hi \o lo, 1, 4) = hi
  <2>1. Take(hi \o lo, 1, 4) = Take(hi, 1, 4)
    <3>1. 1 \in Nat \ {0} /\ 4 \in Nat /\ 1 + 4 - 1 <= Len(hi)
      BY <1>4
    <3>2. QED BY <1>4, <3>1, SliceWithin, Zenon
  <2>2. SubSeq(hi, 1, Len(hi)) = hi
    BY <1>4, SubSeqFull DEF Strings
  <2>3. 1 + 4 - 1 = 4 /\ Len(hi) = 4
    BY <1>4
  <2>4. QED BY <2>1, <2>2, <2>3, Zenon DEF Take
<1>8. SubSeq(hi \o lo, 5, 8) = lo
  <2>1. Take(hi \o lo, Len(hi) + 1, Len(lo)) = lo
    BY <1>4, SliceAtEnd, Zenon
  <2>2. Len(hi) + 1 = 5 /\ 5 + Len(lo) - 1 = 8
    BY <1>4
  <2>3. QED BY <2>1, <2>2, Zenon DEF Take
<1>9. Signed(0 * IntMod + id, LLMod) = id
  <2> DEFINE k == IntMod \div 2
  <2>1. k \in Nat /\ IntMod = 2 * k /\ IntMod \in Nat /\ IntMod >= 16
    BY HalfInt, Weights
  <2> HIDE DEF k
  <2>2. LLMod = 2 * (k * IntMod) /\ k * IntMod \in Nat
    BY <2>1 DEF LLMod
  <2>3. k * IntMod >= IntMod
    <3>1. k >= 1
      BY <2>1
    <3>2. QED BY <2>1, <3>1
  <2> DEFINE h == k * IntMod
  <2>4. h \in Nat /\ LLMod = 2 * h /\ id \in 0 .. h - 1 /\ LLMod \in Nat
    BY <1>1, <2>1, <2>2, <2>3
  <2> HIDE DEF h
  <2>5. Signed(id, LLMod) = id
    BY <2>4, SmallSigned
  <2>6. 0 * IntMod + id = id
    BY <1>1, <2>1
  <2>7. QED BY <2>5, <2>6
<1>10. QED BY <1>3, <1>5, <1>6, <1>7, <1>8, <1>9, Zenon DEF bytes2ll

\* A frame of the Dubbo protocol: a head of sixteen bytes and the body.
DubboFrame(id, body) == (<<Magic, Magic, Other, Other>> \o write_ll(id)) \o write_int(Len(body)) \o body

\* The id bytes, the length and the body are read back.
LEMMA FrameRead ==
    ASSUME NEW id \in 0 .. (IntMod \div 2) - 1, NEW body \in Strings,
           Len(body) \in 0 .. (IntMod \div 2) - 1
    PROVE  LET w == DubboFrame(id, body) IN
           /\ w \in Strings /\ Len(w) = 16 + Len(body)
           /\ Take(w, 5, 8) = write_ll(id)
           /\ IntAt(w, 13) = Len(body) /\ Take(w, 17, Len(body)) = body
<1> DEFINE p0 == <<Magic, Magic, Other, Other>>
           p1 == p0 \o write_ll(id)
           n == Len(body)
           p2 == p1 \o write_int(n)
           w == p2 \o body
<1>1. n \in 0 .. (IntMod \div 2) - 1 /\ n \in Nat /\ n = Len(body) /\ DubboFrame(id, body) = w
  BY HalfInt DEF DubboFrame
<1>2. p0 \in Strings /\ Len(p0) = 4
  <2>1. Magic \in Units /\ Other \in Units
    BY DEF Units
  <2>2. QED BY <2>1 DEF Strings
<1> HIDE DEF p0, n
<1>3. write_ll(id) \in Strings /\ Len(write_ll(id)) = 8 /\ write_int(n) \in Strings
  BY <1>1, LongReadBack, Strung
<1>4. p1 \in Strings /\ Len(p1) = Len(p0) + Len(write_ll(id))
  BY <1>2, <1>3, Joined, Zenon
<1>5. w = p1 \o (write_int(n) \o body) /\ write_int(n) \o body \in Strings
  <2> HIDE DEF p1
  <2>1. QED BY <1>3, <1>4, Regrouped, Zenon
<1>6. p2 \in Strings /\ Len(p2) = Len(p1) + 4
  <2> HIDE DEF p1
  <2>1. QED BY <1>1, <1>4, JoinedInt, Zenon
<1>7. w \in Strings /\ Len(w) = Len(p2) + n
  <2> HIDE DEF p2
  <2>1. QED BY <1>1, <1>6, Joined, Zenon
<1>8. Take(w, Len(p0) + 1, Len(write_ll(id))) = write_ll(id)
  <2> DEFINE u == write_int(n) \o body
  <2>1. Take((p0 \o write_ll(id)) \o u, Len(p0) + 1, Len(write_ll(id))) = write_ll(id)
    <3>1. u \in Strings
      BY <1>5
    <3> HIDE DEF u
    <3>2. QED BY <1>2, <1>3, <3>1, TextBehind, Zenon
  <2>2. w = p1 \o u
    BY <1>5
  <2> HIDE DEF w, u
  <2>3. QED BY <2>1, <2>2, Zenon DEF p1
<1>9. IntAt(w, Len(p1) + 1) = n
  <2> HIDE DEF p1
  <2>1. QED BY <1>1, <1>4, IntBehind, Zenon
<1>10. Take(w, Len(p2) + 1, n) = body
  <2> HIDE DEF p2
  <2>1. QED BY <1>1, <1>6, SliceAtEnd, Zenon
<1> HIDE DEF p1, p2, w
<1>11. /\ Len(p0) + 1 = 5 /\ Len(write_ll(id)) = 8 /\ Len(p1) + 1 = 13 /\ Len(p2) + 1 = 17
       /\ Len(w) = 16 + n
  BY <1>1, <1>2, <1>3, <1>4, <1>6, <1>7
<1>12. Take(w, 5, 8) = write_ll(id) /\ IntAt(w, 13) = n /\ Take(w, 17, n) = body
  BY <1>8, <1>9, <1>10, <1>11, Zenon
<1>13. QED BY <1>1, <1>7, <1>11, <1>12, Zenon

-----------------------------------------------------------------------------
\* Lines.

\* If the newlines of s are at the places of a growing sequence, the n-th line
\* ends at the n-th of them.
LEMMA LineOrder ==
    ASSUME NEW s, NEW m \in Nat, NEW e \in [1 .. m -> Nat],
           \A i, j \in 1 .. m : i < j => e[i] < e[j],
           LineEnds(s) = {e[k] : k \in 1 .. m}
    PROVE  /\ Cardinality(LineEnds(s)) = m
           /\ \A n \in 1 .. m : NthEnd(s, n) = e[n]
<1>1. ASSUME NEW n \in 0 .. m
      PROVE  Cardinality({e[k] : k \in 1 .. n}) = n
  <2> DEFINE T == {e[k] : k \in 1 .. n}
             f == [k \in 1 .. n |-> e[k]]
  <2>1. f \in [1 .. n -> T]
    OBVIOUS
  <2>2. \A i, j \in 1 .. n : f[i] = f[j] => i = j
    <3>1. SUFFICES ASSUME NEW i \in 1 .. n, NEW j \in 1 .. n, f[i] = f[j], i # j
                   PROVE  FALSE
      OBVIOUS
    <3>2. e[i] = e[j] /\ e[i] \in Nat /\ e[j] \in Nat
      BY <3>1
    <3>3. i < j \/ j < i
      BY <3>1
    <3>4. QED BY <3>2, <3>3
  <2>3. \A t \in T : \E i \in 1 .. n : f[i] = t
    OBVIOUS
  <2>4. f \in Bijection(1 .. n, T)
    BY <2>1, <2>2, <2>3, Zenon DEF Bijection, Injection, Surjection, IsInjective
  <2>5. ExistsBijection(1 .. n, T)
    BY <2>4 DEF ExistsBijection
  <2>6. n \in Nat
    OBVIOUS
  <2> HIDE DEF T
  <2>7. Cardinality(T) = n
    BY <2>5, <2>6, FS_CountingElements
  <2>8. QED BY <2>7 DEF T
<1>2. ASSUME NEW n \in 1 .. m
      PROVE  {j \in LineEnds(s) : j <= e[n]} = {e[k] : k \in 1 .. n}
  <2>1. \A k \in 1 .. m : e[k] <= e[n] <=> k <= n
    <3> SUFFICES ASSUME NEW k \in 1 .. m
                 PROVE  e[k] <= e[n] <=> k <= n
      OBVIOUS
    <3>1. e[k] \in Nat /\ e[n] \in Nat /\ k \in Nat /\ n \in Nat
      OBVIOUS
    <3>2. k < n => e[k] < e[n]
      OBVIOUS
    <3>3. n < k => e[n] < e[k]
      OBVIOUS
    <3>4. k = n => e[k] = e[n]
      OBVIOUS
    <3>5. QED BY <3>1, <3>2, <3>3, <3>4
  <2>2. QED BY <2>1
<1>3. ASSUME NEW n \in 1 .. m
      PROVE  NthEnd(s, n) = e[n]
  <2>1. \A k \in 1 .. m : Cardinality({j \in LineEnds(s) : j <= e[k]}) = k
    <3> SUFFICES ASSUME NEW k \in 1 .. m
                 PROVE  Cardinality({j \in LineEnds(s) : j <= e[k]}) = k
      OBVIOUS
    <3>1. k \in 0 .. m
      OBVIOUS
    <3>2. QED BY <1>1, <1>2, <3>1, Zenon
  <2>2. e[n] \in LineEnds(s) /\ Cardinality({j \in LineEnds(s) : j <= e[n]}) = n
    BY <2>1
  <2>3. \A i \in LineEnds(s) : Cardinality({j \in LineEnds(s) : j <= i}) = n => i = e[n]
    BY <2>1
  <2>4. (CHOOSE i \in LineEnds(s) : Cardinality({j \in LineEnds(s) : j <= i}) = n) = e[n]
    BY <2>2, <2>3, Zenon
  <2>5. n # 0
    OBVIOUS
  <2>6. QED BY <2>4, <2>5, Zenon DEF NthEnd
<1>4. Cardinality(LineEnds(s)) = m
  BY <1>1
<1>5. QED BY <1>3, <1>4

\* One line and nothing else.
OneLine(l) == l \in Strings /\ Len(l) # 0 /\ LineEnds(l) = {Len(l)}

\* A line behind s adds one newline, at the end.
LEMMA LineAdded ==
    ASSUME NEW s \in Strings, NEW l, OneLine(l)
    PROVE  /\ s \o l \in Strings /\ Len(s \o l) = Len(s) + Len(l) /\ Len(s) < Len(s \o l)
           /\ LineEnds(s \o l) = LineEnds(s) \cup {Len(s \o l)}
<1>1. l \in Strings /\ Len(l) \in Nat \ {0} /\ Len(s) \in Nat
  BY DEF OneLine, Strings
<1>2. s \o l \in Strings /\ Len(s \o l) = Len(s) + Len(l)
  BY <1>1, Joined, Zenon
<1>3. Len(s) < Len(s \o l)
  BY <1>1, <1>2
<1>4. \A i \in 1 .. Len(s) + Len(l) : (s \o l)[i] = IF i <= Len(s) THEN s[i] ELSE l[i - Len(s)]
  BY <1>1, ConcatProperties DEF Strings
<1>5. DOMAIN (s \o l) = 1 .. Len(s) + Len(l) /\ DOMAIN s = 1 .. Len(s) /\ DOMAIN l = 1 .. Len(l)
  BY <1>1, <1>2, LenProperties DEF Strings
<1> DEFINE w == s \o l
           a == Len(s)
           b == Len(l)
<1>6. a \in Nat /\ b \in Nat \ {0}
  BY <1>1
<1>7. \A i \in 1 .. b : l[i] = NL <=> i = b
  BY <1>5 DEF OneLine, LineEnds
<1>8. /\ \A i \in 1 .. a + b : w[i] = IF i <= a THEN s[i] ELSE l[i - a]
      /\ DOMAIN w = 1 .. a + b /\ DOMAIN s = 1 .. a
  BY <1>4, <1>5
<1> HIDE DEF w, a, b
<1>9. \A i \in 1 .. a + b : w[i] = NL <=> (i \in 1 .. a /\ s[i] = NL) \/ i = a + b
  <2> SUFFICES ASSUME NEW i \in 1 .. a + b
               PROVE  w[i] = NL <=> (i \in 1 .. a /\ s[i] = NL) \/ i = a + b
    OBVIOUS
  <2>1. CASE i <= a
    BY <1>6, <1>8, <2>1
  <2>2. CASE i > a
    <3>1. i - a \in 1 .. b /\ (i - a = b <=> i = a + b) /\ w[i] = l[i - a]
      BY <1>6, <1>8, <2>2
    <3>2. QED BY <1>6, <1>7, <2>2, <3>1
  <2>3. QED BY <1>6, <2>1, <2>2
<1>10. LineEnds(w) = LineEnds(s) \cup {a + b}
  BY <1>6, <1>8, <1>9 DEF LineEnds
<1>11. QED BY <1>2, <1>3, <1>10 DEF w, a, b

\* The lines of a Dubbo body.
LEMMA QuotedLine ==
    ASSUME NEW t \in Strings, \A i \in 1 .. Len(t) : t[i] # NL
    PROVE  OneLine(Line(t)) /\ Len(Line(t)) = Len(t) + 3
<1> DEFINE n == Len(t)
           w == Line(t)
<1>1. n \in Nat /\ NL # Quote /\ Quote \in Units /\ NL \in Units
  BY CodecAssumption DEF Strings, Units
<1>2. w = (<<Quote>> \o t) \o <<Quote, NL>>
  BY DEF Line
<1>3. /\ <<Quote>> \in Strings /\ Len(<<Quote>>) = 1
      /\ <<Quote, NL>> \in Strings /\ Len(<<Quote, NL>>) = 2
  BY <1>1 DEF Strings
<1>4. <<Quote>> \o t \in Strings /\ Len(<<Quote>> \o t) = 1 + n
  BY <1>3, Joined
<1>5. w \in Strings /\ Len(w) = 1 + n + 2
  BY <1>1, <1>2, <1>3, <1>4, Joined
<1>6. \A i \in 1 .. n + 3 : w[i] = IF i = 1 THEN Quote ELSE IF i <= n + 1 THEN t[i - 1]
                                    ELSE IF i = n + 2 THEN Quote ELSE NL
  BY <1>1, <1>2 DEF Strings
<1>7. DOMAIN w = 1 .. n + 3
  BY <1>1, <1>5, LenProperties DEF Strings
<1> HIDE DEF w
<1>8. \A i \in 1 .. n + 3 : w[i] = NL <=> i = n + 3
  <2> SUFFICES ASSUME NEW i \in 1 .. n + 3
               PROVE  w[i] = NL <=> i = n + 3
    OBVIOUS
  <2>1. CASE 1 < i /\ i <= n + 1
    <3>1. i - 1 \in 1 .. n /\ w[i] = t[i - 1]
      BY <1>1, <1>6, <2>1
    <3>2. QED BY <1>1, <2>1, <3>1
  <2>2. CASE i = 1 \/ i > n + 1
    BY <1>1, <1>6, <2>2
  <2>3. QED BY <1>1, <2>1, <2>2
<1>9. LineEnds(w) = {n + 3}
  BY <1>1, <1>7, <1>8 DEF LineEnds
<1>10. QED BY <1>1, <1>5, <1>9 DEF OneLine, w

LEMMA FixedLines ==
    /\ OneLine(NullLine) /\ Len(NullLine) = 5
    /\ OneLine(PathLine) /\ Len(PathLine) = 69
    /\ DubboVersion \in Strings /\ Len(DubboVersion) = 5
    /\ \A i \in 1 .. Len(DubboVersion) : DubboVersion[i] # NL
<1>1. Other \in Units /\ NL \in Units /\ Other # NL
  BY CodecAssumption DEF Units
<1>2. ASSUME NEW n \in Nat
      PROVE  LET l == [i \in 1 .. n |-> Other] \o <<NL>> IN
             OneLine(l) /\ Len(l) = n + 1
  <2> DEFINE o == [i \in 1 .. n |-> Other]
             l == o \o <<NL>>
  <2>1. o \in Seq(Units) /\ Len(o) = n /\ <<NL>> \in Seq(Units)
    BY <1>1
  <2>2. l \in Seq(Units) /\ Len(l) = n + 1
    BY <2>1
  <2>3. \A i \in 1 .. n + 1 : l[i] = IF i <= n THEN Other ELSE NL
    BY <2>1
  <2>4. DOMAIN l = 1 .. n + 1
    BY <2>2
  <2> HIDE DEF l
  <2>5. LineEnds(l) = {n + 1}
    BY <1>1, <2>3, <2>4 DEF LineEnds
  <2>6. Len(l) # 0 /\ LineEnds(l) = {Len(l)}
    BY <2>2, <2>5
  <2>7. QED BY <2>2, <2>6, Zenon DEF OneLine, Strings, l
<1>3. DubboVersion \in Strings /\ Len(DubboVersion) = 5
      /\ \A i \in 1 .. Len(DubboVersion) : DubboVersion[i] # NL
  BY <1>1 DEF DubboVersion, Strings
<1>4. OneLine(NullLine) /\ Len(NullLine) = 5
  <2>1. 4 \in Nat /\ 4 + 1 = 5
    OBVIOUS
  <2>2. QED BY <1>2, <2>1, Zenon DEF NullLine
<1>5. OneLine(PathLine) /\ Len(PathLine) = 69
  <2>1. 68 \in Nat /\ 68 + 1 = 69
    OBVIOUS
  <2>2. QED BY <1>2, <2>1, Zenon DEF PathLine
<1>6. QED BY <1>3, <1>4, <1>5

\* The field of a line, found between its end and the end of the line before.
LEMMA FieldOfLine ==
    ASSUME NEW a \in Strings, NEW t \in Strings, NEW u \in Strings,
           \A i \in 1 .. Len(t) : t[i] # NL
    PROVE  SubSeq((a \o Line(t)) \o u, Len(a) + 2, Len(a \o Line(t)) - 2) = t
<1> DEFINE n == Len(t)
           l == Line(t)
           w == a \o l
           m == Len(a)
<1>1. /\ n \in Nat /\ m \in Nat /\ l \in Strings /\ Len(l) = n + 3
  BY QuotedLine DEF OneLine, Strings
<1>2. \A i \in 1 .. n : l[i + 1] = t[i]
  BY <1>1 DEF Line, Strings
<1> HIDE DEF l
<1>3. w \in Strings /\ Len(w) = m + Len(l)
  BY <1>1, Joined, Zenon
<1>4. \A j \in 1 .. m + Len(l) : w[j] = IF j <= m THEN a[j] ELSE l[j - m]
  BY <1>1, ConcatProperties DEF Strings
<1> HIDE DEF n, w, m
<1>5. Take(w \o u, m + 2, n) = Take(w, m + 2, n)
  BY <1>1, <1>3, SliceWithin
<1>6. \A i \in 1 .. n : w[m + 1 + i] = t[i]
  <2> SUFFICES ASSUME NEW i \in 1 .. n
               PROVE  w[m + 1 + i] = t[i]
    OBVIOUS
  <2>1. m + 1 + i \in 1 .. m + Len(l) /\ ~(m + 1 + i <= m) /\ m + 1 + i - m = i + 1
    BY <1>1
  <2>2. PICK j \in 1 .. m + Len(l) : j = m + 1 + i
    BY <2>1
  <2>3. w[j] = l[j - m]
    BY <1>4, <2>1, <2>2
  <2>4. j - m = i + 1 /\ l[i + 1] = t[i]
    <3>1. j - m = i + 1
      BY <1>1, <2>1, <2>2
    <3>2. QED BY <1>2, <3>1
  <2>5. QED BY <2>2, <2>3, <2>4
<1>7. Take(w, m + 2, n) = t
  <2> DEFINE x == Take(w, m + 2, n)
  <2>1. x \in Strings /\ Len(x) = n /\ \A i \in 1 .. n : x[i] = w[m + 1 + i]
    BY <1>1, <1>3 DEF Take, Strings
  <2> HIDE DEF x
  <2>2. QED BY <1>6, <2>1, SeqEqual DEF n, Strings, x
<1>8. m + 2 + n - 1 = Len(w) - 2
  BY <1>1, <1>3
<1>9. QED BY <1>5, <1>7, <1>8, Zenon DEF Take, w, l, m

\* The first k of the seven lines of a request's body.
Body1(r) == Line(DubboVersion)
Body2(r) == Body1(r) \o Line(r.interface)
Body3(r) == Body2(r) \o NullLine
Body4(r) == Body3(r) \o Line(r.method)
Body5(r) == Body4(r) \o Line(r.pts)
Body6(r) == Body5(r) \o Line(r.args)
Body7(r) == Body6(r) \o PathLine

\* The newlines of a body are at the ends of its seven lines.
LEMMA BodyLines ==
    ASSUME NEW r, r.interface \in Texts, r.method \in Texts, r.pts \in Texts, r.args \in Texts
    PROVE  /\ Body1(r) \in Strings /\ Body2(r) \in Strings /\ Body3(r) \in Strings
           /\ Body4(r) \in Strings /\ Body5(r) \in Strings /\ Body6(r) \in Strings
           /\ Body7(r) \in Strings
           /\ Len(Body7(r)) = DubboRoom(r) - 16
           /\ Cardinality(LineEnds(Body7(r))) = 7
           /\ NthEnd(Body7(r), 1) = Len(Body1(r)) /\ NthEnd(Body7(r), 2) = Len(Body2(r))
           /\ NthEnd(Body7(r), 3) = Len(Body3(r)) /\ NthEnd(Body7(r), 4) = Len(Body4(r))
           /\ NthEnd(Body7(r), 5) = Len(Body5(r)) /\ NthEnd(Body7(r), 6) = Len(Body6(r))
<1> DEFINE b1 == Body1(r)
           b2 == Body2(r)
           b3 == Body3(r)
           b4 == Body4(r)
           b5 == Body5(r)
           b6 == Body6(r)
           b7 == Body7(r)
<1>1. /\ OneLine(Line(DubboVersion)) /\ Len(Line(DubboVersion)) = 8
      /\ OneLine(NullLine) /\ Len(NullLine) = 5 /\ OneLine(PathLine) /\ Len(PathLine) = 69
  <2>1. OneLine(Line(DubboVersion)) /\ Len(Line(DubboVersion)) = Len(DubboVersion) + 3
    BY FixedLines, QuotedLine, Zenon
  <2>2. QED BY <2>1, FixedLines
<1>2. \A t \in Texts : OneLine(Line(t)) /\ Len(Line(t)) = Len(t) + 3
  BY Strung, QuotedLine
<1>3. b1 \in Strings /\ LineEnds(b1) = {Len(b1)} /\ Len(b1) = Len(Line(DubboVersion))
  BY <1>1, Zenon DEF OneLine, Body1
<1>4. /\ b2 \in Strings /\ Len(b2) = Len(b1) + Len(Line(r.interface)) /\ Len(b1) < Len(b2)
      /\ LineEnds(b2) = LineEnds(b1) \cup {Len(b2)}
  BY <1>2, <1>3, LineAdded, Zenon DEF Body2
<1>5. /\ b3 \in Strings /\ Len(b3) = Len(b2) + Len(NullLine) /\ Len(b2) < Len(b3)
      /\ LineEnds(b3) = LineEnds(b2) \cup {Len(b3)}
  BY <1>1, <1>4, LineAdded, Zenon DEF Body3
<1>6. /\ b4 \in Strings /\ Len(b4) = Len(b3) + Len(Line(r.method)) /\ Len(b3) < Len(b4)
      /\ LineEnds(b4) = LineEnds(b3) \cup {Len(b4)}
  BY <1>2, <1>5, LineAdded, Zenon DEF Body4
<1>7. /\ b5 \in Strings /\ Len(b5) = Len(b4) + Len(Line(r.pts)) /\ Len(b4) < Len(b5)
      /\ LineEnds(b5) = LineEnds(b4) \cup {Len(b5)}
  BY <1>2, <1>6, LineAdded, Zenon DEF Body5
<1>8. /\ b6 \in Strings /\ Len(b6) = Len(b5) + Len(Line(r.args)) /\ Len(b5) < Len(b6)
      /\ LineEnds(b6) = LineEnds(b5) \cup {Len(b6)}
  BY <1>2, <1>7, LineAdded, Zenon DEF Body6
<1>9. /\ b7 \in Strings /\ Len(b7) = Len(b6) + Len(PathLine) /\ Len(b6) < Len(b7)
      /\ LineEnds(b7) = LineEnds(b6) \cup {Len(b7)}
  BY <1>1, <1>8, LineAdded, Zenon DEF Body7
<1> DEFINE n1 == Len(b1)
           n2 == Len(b2)
           n3 == Len(b3)
           n4 == Len(b4)
           n5 == Len(b5)
           n6 == Len(b6)
           n7 == Len(b7)
<1>10. /\ n1 \in Nat /\ n2 \in Nat /\ n3 \in Nat /\ n4 \in Nat /\ n5 \in Nat /\ n6 \in Nat /\ n7 \in Nat
       /\ n1 < n2 /\ n2 < n3 /\ n3 < n4 /\ n4 < n5 /\ n5 < n6 /\ n6 < n7
  BY <1>3, <1>4, <1>5, <1>6, <1>7, <1>8, <1>9 DEF Strings
<1>11. LineEnds(b7) = {n1, n2, n3, n4, n5, n6, n7}
  <2> HIDE DEF n1, n2, n3, n4, n5, n6, n7
  <2>1. QED BY <1>3, <1>4, <1>5, <1>6, <1>7, <1>8, <1>9 DEF n1, n2, n3, n4, n5, n6, n7
<1>12. n7 = DubboRoom(r) - 16
  <2> DEFINE i == Len(r.interface)
             m == Len(r.method)
             t == Len(r.pts)
             a == Len(r.args)
             d == Len(DubboVersion)
  <2>1. i \in Nat /\ m \in Nat /\ t \in Nat /\ a \in Nat /\ d = 5
    BY Strung, FixedLines
  <2>2. DubboRoom(r) = 4 + 8 + 4 + (d + 1) + (i + 1) + 5 + (t + 1) + (a + 1) + 69 + 10 + (m + 1)
    BY DEF DubboRoom
  <2>3. /\ n1 = 8 /\ n2 = n1 + (i + 3) /\ n3 = n2 + 5 /\ n4 = n3 + (m + 3) /\ n5 = n4 + (t + 3)
        /\ n6 = n5 + (a + 3) /\ n7 = n6 + 69
    BY <1>1, <1>2, <1>3, <1>4, <1>5, <1>6, <1>7, <1>8, <1>9, Zenon
  <2> HIDE DEF i, m, t, a, d, n1, n2, n3, n4, n5, n6, n7
  <2>4. QED BY <1>10, <2>1, <2>2, <2>3
<1> HIDE DEF n1, n2, n3, n4, n5, n6, n7
<1> DEFINE e == <<n1, n2, n3, n4, n5, n6, n7>>
<1>13. e \in [1 .. 7 -> Nat] /\ \A i, j \in 1 .. 7 : i < j => e[i] < e[j]
  BY <1>10
<1>14. LineEnds(b7) = {e[k] : k \in 1 .. 7}
  BY <1>11
<1>15. /\ e[1] = n1 /\ e[2] = n2 /\ e[3] = n3 /\ e[4] = n4 /\ e[5] = n5 /\ e[6] = n6
       /\ 7 \in Nat
  OBVIOUS
<1> HIDE DEF e, b7
<1>16. Cardinality(LineEnds(b7)) = 7 /\ \A n \in 1 .. 7 : NthEnd(b7, n) = e[n]
  BY <1>13, <1>14, <1>15, LineOrder, Zenon
<1>17. QED
  <2>1. /\ NthEnd(b7, 1) = n1 /\ NthEnd(b7, 2) = n2 /\ NthEnd(b7, 3) = n3
        /\ NthEnd(b7, 4) = n4 /\ NthEnd(b7, 5) = n5 /\ NthEnd(b7, 6) = n6
    BY <1>15, <1>16
  <2>2. QED BY <1>3, <1>4, <1>5, <1>6, <1>7, <1>8, <1>9, <1>12, <1>16, <2>1, Zenon
          DEF b7, n1, n2, n3, n4, n5, n6, n7

\* A request is a frame around the seven lines.
LEMMA RequestFrame ==
    ASSUME NEW r, r.interface \in Texts, r.method \in Texts, r.pts \in Texts, r.args \in Texts,
           r.id \in 0 .. (IntMod \div 2) - 1
    PROVE  DubboBytes(r) = DubboFrame(r.id, Body7(r))
<1> DEFINE h == (<<Magic, Magic, Other, Other>> \o write_ll(r.id)) \o write_int(DubboRoom(r) - 16)
           l1 == Line(DubboVersion)
           l2 == Line(r.interface)
           l3 == NullLine
           l4 == Line(r.method)
           l5 == Line(r.pts)
           l6 == Line(r.args)
           l7 == PathLine
<1>1. h \in Strings
  <2> DEFINE p0 == <<Magic, Magic, Other, Other>>
             p1 == p0 \o write_ll(r.id)
  <2>1. p0 \in Strings
    <3>1. Magic \in Units /\ Other \in Units
      BY DEF Units
    <3>2. QED BY <3>1 DEF Strings
  <2> HIDE DEF p0
  <2>2. p1 \in Strings
    BY <2>1, LongReadBack, Joined, Zenon
  <2>3. DubboRoom(r) - 16 \in Nat
    BY Fits, HalfInt
  <2> HIDE DEF p1
  <2>4. p1 \o write_int(DubboRoom(r) - 16) \in Strings
    BY <2>2, <2>3, JoinedInt, Zenon
  <2>5. QED BY <2>4 DEF p1, p0
<1>2. /\ OneLine(l1) /\ OneLine(l2) /\ OneLine(l3) /\ OneLine(l4) /\ OneLine(l5)
      /\ OneLine(l6) /\ OneLine(l7)
  BY Strung, FixedLines, QuotedLine, Zenon
<1>3. /\ l2 \in Strings /\ l3 \in Strings /\ l4 \in Strings /\ l5 \in Strings /\ l6 \in Strings
      /\ l7 \in Strings
  BY <1>2 DEF OneLine
<1>4. /\ Body1(r) = l1 /\ Body2(r) = Body1(r) \o l2 /\ Body3(r) = Body2(r) \o l3
      /\ Body4(r) = Body3(r) \o l4 /\ Body5(r) = Body4(r) \o l5 /\ Body6(r) = Body5(r) \o l6
      /\ Body7(r) = Body6(r) \o l7
  BY DEF Body1, Body2, Body3, Body4, Body5, Body6, Body7
<1>5. DubboBytes(r) = ((((((h \o l1) \o l2) \o l3) \o l4) \o l5) \o l6) \o l7
  BY Zenon DEF DubboBytes
<1> HIDE DEF h, l1, l2, l3, l4, l5, l6, l7
<1>6. ASSUME NEW b \in Strings, NEW l \in Strings
      PROVE  (h \o b) \o l = h \o (b \o l)
  BY <1>1, Regrouped, Zenon
<1>7. (h \o l1) \o l2 = h \o Body2(r)
  <2>1. Body1(r) \in Strings
    BY BodyLines, Zenon
  <2>2. l2 \in Strings
    BY <1>3
  <2>3. (h \o Body1(r)) \o l2 = h \o (Body1(r) \o l2)
    BY <1>6, <2>1, <2>2, Zenon
  <2>4. QED BY <1>4, <2>3, Zenon
<1>8. ((h \o l1) \o l2) \o l3 = h \o Body3(r)
  <2>1. Body2(r) \in Strings
    BY BodyLines, Zenon
  <2>2. l3 \in Strings
    BY <1>3
  <2>3. (h \o Body2(r)) \o l3 = h \o (Body2(r) \o l3)
    BY <1>6, <2>1, <2>2, Zenon
  <2>4. QED BY <1>4, <1>7, <2>3, Zenon
<1>9. (((h \o l1) \o l2) \o l3) \o l4 = h \o Body4(r)
  <2>1. Body3(r) \in Strings
    BY BodyLines, Zenon
  <2>2. l4 \in Strings
    BY <1>3
  <2>3. (h \o Body3(r)) \o l4 = h \o (Body3(r) \o l4)
    BY <1>6, <2>1, <2>2, Zenon
  <2>4. QED BY <1>4, <1>8, <2>3, Zenon
<1>10. ((((h \o l1) \o l2) \o l3) \o l4) \o l5 = h \o Body5(r)
  <2>1. Body4(r) \in Strings
    BY BodyLines, Zenon
  <2>2. l5 \in Strings
    BY <1>3
  <2>3. (h \o Body4(r)) \o l5 = h \o (Body4(r) \o l5)
    BY <1>6, <2>1, <2>2, Zenon
  <2>4. QED BY <1>4, <1>9, <2>3, Zenon
<1>11. (((((h \o l1) \o l2) \o l3) \o l4) \o l5) \o l6 = h \o Body6(r)
  <2>1. Body5(r) \in Strings
    BY BodyLines, Zenon
  <2>2. l6 \in Strings
    BY <1>3
  <2>3. (h \o Body5(r)) \o l6 = h \o (Body5(r) \o l6)
    BY <1>6, <2>1, <2>2, Zenon
  <2>4. QED BY <1>4, <1>10, <2>3, Zenon
<1>12. DubboBytes(r) = h \o Body7(r)
  <2>1. Body6(r) \in Strings
    BY BodyLines, Zenon
  <2>2. l7 \in Strings
    BY <1>3
  <2>3. (h \o Body6(r)) \o l7 = h \o (Body6(r) \o l7)
    BY <1>6, <2>1, <2>2, Zenon
  <2>4. QED BY <1>4, <1>5, <1>11, <2>3, Zenon
<1>13. Len(Body7(r)) = DubboRoom(r) - 16
  BY BodyLines, Zenon
<1>14. QED BY <1>12, <1>13, Zenon DEF DubboFrame, h

\* The provider finds the fields in their lines, seven lines and nothing more.
LEMMA FieldsSeen ==
    ASSUME NEW r, r.interface \in Texts, r.method \in Texts, r.pts \in Texts, r.args \in Texts
    PROVE  /\ Field(Body7(r), 2) = r.interface /\ Field(Body7(r), 4) = r.method
           /\ Field(Body7(r), 5) = r.pts /\ Field(Body7(r), 6) = r.args
<1> DEFINE b == Body7(r)
           l2 == Line(r.interface)
           l3 == NullLine
           l4 == Line(r.method)
           l5 == Line(r.pts)
           l6 == Line(r.args)
           l7 == PathLine
           u6 == l7
           u5 == l6 \o u6
           u4 == l5 \o u5
           u3 == l4 \o u4
           u2 == l3 \o u3
<1>1. /\ OneLine(l2) /\ OneLine(l3) /\ OneLine(l4) /\ OneLine(l5) /\ OneLine(l6) /\ OneLine(l7)
  BY Strung, FixedLines, QuotedLine, Zenon
<1>2. /\ l3 \in Strings /\ l4 \in Strings /\ l5 \in Strings /\ l6 \in Strings /\ l7 \in Strings
  BY <1>1 DEF OneLine
<1>3. /\ Body1(r) \in Strings /\ Body2(r) \in Strings /\ Body3(r) \in Strings
      /\ Body4(r) \in Strings /\ Body5(r) \in Strings /\ Body6(r) \in Strings
  BY BodyLines, Zenon
<1>4. /\ Body2(r) = Body1(r) \o Line(r.interface) /\ Body3(r) = Body2(r) \o l3
      /\ Body4(r) = Body3(r) \o l4 /\ Body5(r) = Body4(r) \o l5
      /\ Body6(r) = Body5(r) \o l6 /\ b = Body6(r) \o l7
      /\ l4 = Line(r.method) /\ l5 = Line(r.pts) /\ l6 = Line(r.args)
  BY DEF Body2, Body3, Body4, Body5, Body6, Body7
<1> HIDE DEF b
<1>5. b = Body6(r) \o u6 /\ u6 \in Strings
  BY <1>2, <1>4, Zenon
<1> HIDE DEF l3, l7, u6
<1>6. b = Body5(r) \o u5 /\ u5 \in Strings
  <2>1. Body5(r) \in Strings
    BY <1>3
  <2>2. l6 \in Strings
    BY <1>2
  <2>3. u6 \in Strings
    BY <1>5
  <2>4. (Body5(r) \o l6) \o u6 = Body5(r) \o (l6 \o u6) /\ l6 \o u6 \in Strings
    BY <2>1, <2>2, <2>3, Regrouped, Zenon
  <2>5. Body6(r) = Body5(r) \o l6 /\ b = Body6(r) \o u6 /\ u5 = l6 \o u6
    BY <1>4, <1>5
  <2>6. QED BY <2>4, <2>5, Zenon
<1> HIDE DEF l6, u5
<1>7. b = Body4(r) \o u4 /\ u4 \in Strings
  <2>1. Body4(r) \in Strings
    BY <1>3
  <2>2. l5 \in Strings
    BY <1>2
  <2>3. u5 \in Strings
    BY <1>6
  <2>4. (Body4(r) \o l5) \o u5 = Body4(r) \o (l5 \o u5) /\ l5 \o u5 \in Strings
    BY <2>1, <2>2, <2>3, Regrouped, Zenon
  <2>5. Body5(r) = Body4(r) \o l5 /\ b = Body5(r) \o u5 /\ u4 = l5 \o u5
    BY <1>4, <1>6
  <2>6. QED BY <2>4, <2>5, Zenon
<1> HIDE DEF l5, u4
<1>8. b = Body3(r) \o u3 /\ u3 \in Strings
  <2>1. Body3(r) \in Strings
    BY <1>3
  <2>2. l4 \in Strings
    BY <1>2
  <2>3. u4 \in Strings
    BY <1>7
  <2>4. (Body3(r) \o l4) \o u4 = Body3(r) \o (l4 \o u4) /\ l4 \o u4 \in Strings
    BY <2>1, <2>2, <2>3, Regrouped, Zenon
  <2>5. Body4(r) = Body3(r) \o l4 /\ b = Body4(r) \o u4 /\ u3 = l4 \o u4
    BY <1>4, <1>7
  <2>6. QED BY <2>4, <2>5, Zenon
<1> HIDE DEF l4, u3
<1>9. b = Body2(r) \o u2 /\ u2 \in Strings
  <2>1. Body2(r) \in Strings
    BY <1>3
  <2>2. l3 \in Strings
    BY <1>2
  <2>3. u3 \in Strings
    BY <1>8
  <2>4. (Body2(r) \o l3) \o u3 = Body2(r) \o (l3 \o u3) /\ l3 \o u3 \in Strings
    BY <2>1, <2>2, <2>3, Regrouped, Zenon
  <2>5. Body3(r) = Body2(r) \o l3 /\ b = Body3(r) \o u3 /\ u2 = l3 \o u3
    BY <1>4, <1>8
  <2>6. QED BY <2>4, <2>5, Zenon
<1> HIDE DEF u2
<1>10. /\ NthEnd(b, 1) = Len(Body1(r)) /\ NthEnd(b, 2) = Len(Body2(r))
       /\ NthEnd(b, 3) = Len(Body3(r)) /\ NthEnd(b, 4) = Len(Body4(r))
       /\ NthEnd(b, 5) = Len(Body5(r)) /\ NthEnd(b, 6) = Len(Body6(r))
  BY BodyLines, Zenon DEF b
<1>11. 2 - 1 = 1 /\ 4 - 1 = 3 /\ 5 - 1 = 4 /\ 6 - 1 = 5
  OBVIOUS
<1>12. Field(b, 2) = r.interface
  <2>1. Body1(r) \in Strings
    BY <1>3
  <2>2. u2 \in Strings
    BY <1>9
  <2>3. r.interface \in Strings /\ \A i \in 1 .. Len(r.interface) : r.interface[i] # NL
    BY Strung, Zenon
  <2>4. SubSeq((Body1(r) \o Line(r.interface)) \o u2, Len(Body1(r)) + 2,
               Len(Body1(r) \o Line(r.interface)) - 2) = r.interface
    BY <2>1, <2>2, <2>3, FieldOfLine, Zenon
  <2>5. QED BY <1>4, <1>9, <1>10, <1>11, <2>4, Zenon DEF Field
<1>13. Field(b, 4) = r.method
  <2>1. Body3(r) \in Strings
    BY <1>3
  <2>2. u4 \in Strings
    BY <1>7
  <2>3. r.method \in Strings /\ \A i \in 1 .. Len(r.method) : r.method[i] # NL
    BY Strung, Zenon
  <2>4. SubSeq((Body3(r) \o Line(r.method)) \o u4, Len(Body3(r)) + 2,
               Len(Body3(r) \o Line(r.method)) - 2) = r.method
    BY <2>1, <2>2, <2>3, FieldOfLine, Zenon
  <2>5. QED BY <1>4, <1>7, <1>10, <1>11, <2>4, Zenon DEF Field
<1>14. Field(b, 5) = r.pts
  <2>1. Body4(r) \in Strings
    BY <1>3
  <2>2. u5 \in Strings
    BY <1>6
  <2>3. r.pts \in Strings /\ \A i \in 1 .. Len(r.pts) : r.pts[i] # NL
    BY Strung, Zenon
  <2>4. SubSeq((Body4(r) \o Line(r.pts)) \o u5, Len(Body4(r)) + 2,
               Len(Body4(r) \o Line(r.pts)) - 2) = r.pts
    BY <2>1, <2>2, <2>3, FieldOfLine, Zenon
  <2>5. QED BY <1>4, <1>6, <1>10, <1>11, <2>4, Zenon DEF Field
<1>15. Field(b, 6) = r.args
  <2>1. Body5(r) \in Strings
    BY <1>3
  <2>2. u6 \in Strings
    BY <1>5
  <2>3. r.args \in Strings /\ \A i \in 1 .. Len(r.args) : r.args[i] # NL
    BY Strung, Zenon
  <2>4. SubSeq((Body5(r) \o Line(r.args)) \o u6, Len(Body5(r)) + 2,
               Len(Body5(r) \o Line(r.args)) - 2) = r.args
    BY <2>1, <2>2, <2>3, FieldOfLine, Zenon
  <2>5. QED BY <1>4, <1>5, <1>10, <1>11, <2>4, Zenon DEF Field
<1>16. QED BY <1>12, <1>13, <1>14, <1>15, Zenon DEF b

-----------------------------------------------------------------------------
\* The provider's answer.

\* A text and a newline.
LEMMA TextLine ==
    ASSUME NEW t \in Strings, \A i \in 1 .. Len(t) : t[i] # NL
    PROVE  OneLine(t \o <<NL>>) /\ Len(t \o <<NL>>) = Len(t) + 1
<1> DEFINE n == Len(t)
           l == t \o <<NL>>
<1>1. n \in Nat /\ t \in Seq(Units) /\ <<NL>> \in Seq(Units)
  <2>1. NL \in Units
    BY DEF Units
  <2>2. QED BY <2>1 DEF Strings
<1>2. l \in Seq(Units) /\ Len(l) = n + 1
  BY <1>1
<1>3. \A i \in 1 .. n + 1 : l[i] = IF i <= n THEN t[i] ELSE NL
  BY <1>1
<1>4. DOMAIN l = 1 .. n + 1
  BY <1>1, <1>2
<1> HIDE DEF l
<1>5. LineEnds(l) = {n + 1}
  BY <1>1, <1>3, <1>4 DEF LineEnds
<1>6. Len(l) # 0 /\ LineEnds(l) = {Len(l)}
  BY <1>1, <1>2, <1>5
<1>7. QED BY <1>2, <1>6, Zenon DEF OneLine, Strings, l, n

\* One line alone: the second newline is not found, its place counts as 0.
LEMMA LineReturned ==
    ASSUME NEW s, OneLine(s)
    PROVE  ActDone(s) = [length |-> -Len(s), content |-> <<Other>>]
<1> DEFINE n == Len(s)
           e == [k \in 1 .. 1 |-> n]
<1>1. s \in Strings /\ n \in Nat \ {0} /\ LineEnds(s) = {n}
  BY DEF OneLine, Strings
<1>2. e \in [1 .. 1 -> Nat] /\ LineEnds(s) = {e[k] : k \in 1 .. 1} /\ e[1] = n /\ 1 \in Nat
      /\ \A i, j \in 1 .. 1 : i < j => e[i] < e[j]
  <2> HIDE DEF n
  <2>1. e[1] = n /\ e \in [1 .. 1 -> Nat]
    BY <1>1
  <2>2. 1 .. 1 = {1} /\ 1 \in Nat
    OBVIOUS
  <2>3. QED BY <1>1, <2>1, <2>2
<1> HIDE DEF n, e
<1>3. Cardinality(LineEnds(s)) = 1 /\ \A i \in 1 .. 1 : NthEnd(s, i) = e[i]
  BY <1>2, LineOrder, Zenon
<1>4. NthEnd(s, 1) = n
  BY <1>2, <1>3
<1>5. ContentStart(s) = n /\ ContentEnd(s) = 0
  BY <1>1, <1>3, <1>4 DEF ContentStart, ContentEnd
<1>6. ActDone(s) = [length |-> -n, content |-> <<Other>>]
  BY <1>1, <1>5 DEF ActDone
<1>7. QED BY <1>6 DEF n

\* The lines that are answered alone: the flag line, and that of an error.
LEMMA AloneLines ==
    /\ OneLine(<<Other, NL>>) /\ Len(<<Other, NL>>) = 2
    /\ OneLine(Line(<<Other>>)) /\ Len(Line(<<Other>>)) = 4
<1>1. Other # NL /\ Other \in Units /\ NL \in Units
  BY CodecAssumption DEF Units
<1>2. OneLine(<<Other, NL>>) /\ Len(<<Other, NL>>) = 2
  BY <1>1 DEF OneLine, Strings, LineEnds
<1>3. <<Other>> \in Strings /\ Len(<<Other>>) = 1 /\ \A i \in 1 .. Len(<<Other>>) : <<Other>>[i] # NL
  BY <1>1 DEF Strings
<1>4. OneLine(Line(<<Other>>)) /\ Len(Line(<<Other>>)) = Len(<<Other>>) + 3
  BY <1>3, QuotedLine, Zenon
<1>5. QED BY <1>2, <1>3, <1>4

\* The flag line and the value line: the content is the value, unless it is empty.
LEMMA ValueReturned ==
    ASSUME NEW v \in Strings, \A i \in 1 .. Len(v) : v[i] # NL
    PROVE  LET s == <<Other, NL>> \o v \o <<NL>> IN
           /\ s \in Strings /\ Len(s) = Len(v) + 3
           /\ ActDone(s) = IF Len(v) = 0 THEN [length |-> 0, content |-> <<Other>>]
                                          ELSE [length |-> Len(v), content |-> v]
<1> DEFINE p == <<Other, NL>>
           l == v \o <<NL>>
           n == Len(v)
           s == (p \o v) \o <<NL>>
<1>1. p \in Strings /\ Len(p) = 2 /\ LineEnds(p) = {2} /\ <<NL>> \in Strings
      /\ n \in Nat
  <2>1. NL \in Units
    BY DEF Units
  <2>2. <<NL>> \in Strings /\ n \in Nat
    BY <2>1 DEF Strings
  <2>3. p \in Strings /\ Len(p) = 2 /\ LineEnds(p) = {2}
    BY AloneLines DEF OneLine
  <2>4. QED BY <2>2, <2>3
<1>2. OneLine(l) /\ Len(l) = n + 1 /\ l \in Strings
  BY TextLine, Zenon DEF OneLine
<1> HIDE DEF p
<1>3. s = p \o l
  BY <1>1, Regrouped, Zenon
<1>4. /\ p \o l \in Strings /\ Len(p \o l) = Len(p) + Len(l)
      /\ LineEnds(p \o l) = LineEnds(p) \cup {Len(p \o l)}
  BY <1>1, <1>2, LineAdded, Zenon
<1>5. Take(s, Len(p) + 1, n) = v
  BY <1>1, TextBehind, Zenon
<1> HIDE DEF l, n, s
<1>6. s \in Strings /\ Len(s) = n + 3 /\ LineEnds(s) = {2, n + 3} /\ Take(s, 3, n) = v
  <2>1. Len(s) = n + 3
    BY <1>1, <1>2, <1>3, <1>4
  <2>2. LineEnds(s) = {2} \cup {Len(s)}
    BY <1>1, <1>3, <1>4, Zenon
  <2>3. Len(p) + 1 = 3
    BY <1>1
  <2>4. QED BY <1>3, <1>4, <1>5, <2>1, <2>2, <2>3
<1> DEFINE e == [k \in 1 .. 2 |-> IF k = 1 THEN 2 ELSE n + 3]
<1>7. /\ e \in [1 .. 2 -> Nat] /\ e[1] = 2 /\ e[2] = n + 3 /\ 2 \in Nat
      /\ LineEnds(s) = {e[k] : k \in 1 .. 2}
      /\ \A i, j \in 1 .. 2 : i < j => e[i] < e[j]
  BY <1>1, <1>6
<1> HIDE DEF e
<1>8. Cardinality(LineEnds(s)) = 2 /\ \A k \in 1 .. 2 : NthEnd(s, k) = e[k]
  BY <1>7, LineOrder, Zenon
<1>9. NthEnd(s, 1) = 2 /\ NthEnd(s, 2) = n + 3
  BY <1>7, <1>8
<1>10. ContentStart(s) = 2 /\ ContentEnd(s) = n + 2
  BY <1>1, <1>6, <1>8, <1>9 DEF ContentStart, ContentEnd
<1>11. ContentEnd(s) - ContentStart(s) = n /\ (n <= 0 <=> n = 0) /\ ContentStart(s) + 1 = 3
  BY <1>1, <1>10
<1>12. ActDone(s) = IF n = 0 THEN [length |-> n, content |-> <<Other>>]
                             ELSE [length |-> n, content |-> v]
  BY <1>6, <1>11, Zenon DEF ActDone
<1>13. QED BY <1>6, <1>12, Zenon DEF s, n, p

\* What act_done_callback makes of each body.
LEMMA BodyRead ==
    ASSUME NEW v \in Values
    PROVE  /\ ValueBody(v) \in Strings /\ Len(ValueBody(v)) \in 0 .. (IntMod \div 2) - 1
           /\ IF v \in Texts \ {<<>>}
              THEN ActDone(ValueBody(v)) = [length |-> Len(v), content |-> v]
              ELSE /\ Len(ActDone(ValueBody(v)).content) = 1
                   /\ IF v = <<>> THEN ActDone(ValueBody(v)).length = 0
                                  ELSE ActDone(ValueBody(v)).length < 0
<1>1. ASSUME NEW s, OneLine(s), Len(s) \in {2, 4}, v \notin Texts, v # <<>>, ValueBody(v) = s
      PROVE  /\ ValueBody(v) \in Strings /\ Len(ValueBody(v)) \in 0 .. (IntMod \div 2) - 1
             /\ Len(ActDone(ValueBody(v)).content) = 1 /\ ActDone(ValueBody(v)).length < 0
  <2>1. 2 \in 0 .. (IntMod \div 2) - 1 /\ 4 \in 0 .. (IntMod \div 2) - 1
    BY HalfInt, Weights
  <2>2. ActDone(s) = [length |-> -Len(s), content |-> <<Other>>]
    BY <1>1, LineReturned
  <2> DEFINE n == Len(s)
  <2>3. s \in Strings /\ n \in {2, 4}
    BY <1>1 DEF OneLine
  <2> HIDE DEF n
  <2>4. n \in 0 .. (IntMod \div 2) - 1 /\ -n < 0
    BY <2>1, <2>3
  <2>5. ActDone(s).length < 0 /\ Len(ActDone(s).content) = 1
    BY <2>2, <2>4 DEF n
  <2>6. QED BY <1>1, <2>3, <2>4, <2>5 DEF n
<1>2. CASE v \in Texts
  <2>1. ValueBody(v) = <<Other, NL>> \o v \o <<NL>>
    <3>1. v # NoValue /\ v # Failed
      BY <1>2, CodecAssumption
    <3>2. QED BY <1>2, <3>1, Zenon DEF ValueBody
  <2>2. v \in Strings /\ (\A i \in 1 .. Len(v) : v[i] # NL)
    BY <1>2, Strung, Zenon
  <2>3. Len(v) = 0 <=> v = <<>>
    BY <2>2, EmptySeq DEF Strings
  <2>4. Len(v) + 3 \in 0 .. (IntMod \div 2) - 1
    BY <1>2, Fits
  <2>5. /\ ValueBody(v) \in Strings /\ Len(ValueBody(v)) = Len(v) + 3
        /\ ActDone(ValueBody(v)) = IF Len(v) = 0 THEN [length |-> 0, content |-> <<Other>>]
                                                 ELSE [length |-> Len(v), content |-> v]
    BY <2>1, <2>2, ValueReturned, Zenon
  <2>6. QED BY <1>2, <2>3, <2>4, <2>5
<1>3. CASE v \notin Texts
  <2>1. v \in {NoValue, Failed} /\ NoValue # Failed
    BY <1>3, CodecAssumption DEF Values
  <2>2. ValueBody(v) = IF v = NoValue THEN <<Other, NL>> ELSE Line(<<Other>>)
    BY <1>3, <2>1, Zenon DEF ValueBody
  <2>3. v # <<>>
    BY <1>3, <2>1, CodecAssumption
  <2>4. QED BY <1>1, <1>3, <2>2, <2>3, AloneLines
<1>4. QED BY <1>2, <1>3

-----------------------------------------------------------------------------
\* The call on its way.

\* What the provider is asked.
Asked == [id |-> call.id, args |-> call.parameter, interface |-> call.key.interface,
          method |-> call.key.method, pts |-> call.key.pts]

KeySeen == [interface |-> call.key.interface, method |-> call.key.method, pts |-> call.key.pts]

CallSeen == [interface |-> call.key.interface, method |-> call.key.method,
             pts |-> call.key.pts, args |-> call.parameter, lines |-> 7, rest |-> 0]

Answered == [id |-> call.id, result |-> ValueBody(call.value)]

Calls == [id : Ids, key : Keys, parameter : Texts, value : Values]

\* What is on the wire at each hop, what was reserved for it and what was read
\* from the connection before.
AtHeader == hop = "header" /\ wire = <<>> /\ room = 0

AtKey == hop = "key" /\ wire = KeyBytes(call.key) /\ room = KeyRoom(call.key)

AtKeyed == hop = "keyed" /\ wire = <<>> /\ room = 0 /\ seen = KeySeen

AtRequest == /\ hop = "request" /\ wire = ReqBytes(call.id, call.parameter)
             /\ room = ReqRoom(call.parameter) /\ seen = KeySeen

AtDubbo == /\ hop = "dubbo" /\ wire = DubboBytes(Asked) /\ room = DubboRoom(Asked)
           /\ seen = Asked

AtExecuted == /\ hop = "executed" /\ wire = DubboFrame(call.id, ValueBody(call.value))
              /\ room = Len(wire) /\ seen = CallSeen

AtResponse == /\ hop = "response" /\ wire = RespBytes(Answered) /\ room = RespRoom(Answered)
              /\ seen = Answered

AtDone == /\ hop = "done" /\ wire = RespBytes(Answered) /\ room = RespRoom(Answered)
          /\ seen = Answered /\ answer = ActDone(ValueBody(call.value))

CallOnTheWay ==
    /\ call \in Calls
    /\ \/ AtHeader \/ AtKey \/ AtKeyed \/ AtRequest
       \/ AtDubbo \/ AtExecuted \/ AtResponse \/ AtDone

\* The parts of a call.
LEMMA CallParts ==
    ASSUME call \in Calls
    PROVE  /\ call.id \in 0 .. (IntMod \div 2) - 1 /\ call.key \in Keys
           /\ call.parameter \in Texts /\ call.value \in Values
           /\ call.key.interface \in Texts /\ call.key.method \in Texts /\ call.key.pts \in Texts
  BY CodecAssumption DEF Calls, Keys

\* The request on the Dubbo connection is a frame around its seven lines.
LEMMA AskedFrame ==
    ASSUME call \in Calls
    PROVE  /\ DubboBytes(Asked) = DubboFrame(call.id, Body7(Asked))
           /\ Body7(Asked) \in Strings /\ Len(Body7(Asked)) = DubboRoom(Asked) - 16
           /\ Len(Body7(Asked)) \in 0 .. (IntMod \div 2) - 1
           /\ Cardinality(LineEnds(Body7(Asked))) = 7
           /\ Field(Body7(Asked), 2) = call.key.interface
           /\ Field(Body7(Asked), 4) = call.key.method
           /\ Field(Body7(Asked), 5) = call.key.pts
           /\ Field(Body7(Asked), 6) = call.parameter
<1>1. /\ Asked.interface = call.key.interface /\ Asked.method = call.key.method
      /\ Asked.pts = call.key.pts /\ Asked.args = call.parameter /\ Asked.id = call.id
  BY DEF Asked
<1>2. /\ Asked.interface \in Texts /\ Asked.method \in Texts /\ Asked.pts \in Texts
      /\ Asked.args \in Texts /\ Asked.id \in 0 .. (IntMod \div 2) - 1
  BY <1>1, CallParts
<1>3. DubboBytes(Asked) = DubboFrame(Asked.id, Body7(Asked))
  BY <1>2, RequestFrame, Zenon
<1>4. /\ Body7(Asked) \in Strings /\ Len(Body7(Asked)) = DubboRoom(Asked) - 16
      /\ Cardinality(LineEnds(Body7(Asked))) = 7
  BY <1>2, BodyLines, Zenon
<1>5. DubboRoom(Asked) - 16 \in 0 .. (IntMod \div 2) - 1
  BY <1>2, Fits, Zenon
<1>6. /\ Field(Body7(Asked), 2) = Asked.interface /\ Field(Body7(Asked), 4) = Asked.method
      /\ Field(Body7(Asked), 5) = Asked.pts /\ Field(Body7(Asked), 6) = Asked.args
  BY <1>2, FieldsSeen, Zenon
<1>7. QED BY <1>1, <1>3, <1>4, <1>5, <1>6, Zenon

\* The provider answers what it was asked, under the id it was asked under.
LEMMA AskedRead ==
    ASSUME call \in Calls
    PROVE  /\ Len(DubboBytes(Asked)) = DubboRoom(Asked)
           /\ Take(DubboBytes(Asked), 5, 8) = write_ll(call.id)
           /\ ProviderSees(DubboBytes(Asked)) = CallSeen
<1> DEFINE b == DubboBytes(Asked)
           body == Body7(Asked)
           n == Len(body)
<1>1. /\ b = DubboFrame(call.id, body) /\ body \in Strings /\ n = DubboRoom(Asked) - 16
      /\ n \in 0 .. (IntMod \div 2) - 1
  BY AskedFrame
<1>2. call.id \in 0 .. (IntMod \div 2) - 1
  BY CallParts
<1>3. /\ Len(b) = 16 + n /\ Take(b, 5, 8) = write_ll(call.id)
      /\ IntAt(b, 13) = n /\ Take(b, 17, n) = body
  <2> DEFINE id == call.id
             w == DubboFrame(id, body)
  <2>1. id \in 0 .. (IntMod \div 2) - 1 /\ b = w
    BY <1>1, <1>2
  <2> HIDE DEF b, body, id
  <2>2. /\ Len(w) = 16 + Len(body) /\ Take(w, 5, 8) = write_ll(id)
        /\ IntAt(w, 13) = Len(body) /\ Take(w, 17, Len(body)) = body
    BY <1>1, <2>1, FrameRead, Zenon
  <2> HIDE DEF w
  <2>3. QED BY <2>1, <2>2, Zenon DEF id
<1>4. n \in Nat /\ DubboRoom(Asked) \in Int
  <2>1. Len(DubboVersion) = 5
    BY FixedLines
  <2>2. DubboRoom(Asked) \in Int
    <3>1. /\ Len(Asked.interface) \in Nat /\ Len(Asked.method) \in Nat
          /\ Len(Asked.pts) \in Nat /\ Len(Asked.args) \in Nat
      BY CallParts, Strung DEF Asked
    <3>2. QED BY <2>1, <3>1 DEF DubboRoom
  <2>3. n \in Nat
    BY <1>1, HalfInt
  <2>4. QED BY <2>2, <2>3
<1>5. ProviderSees(b) = [interface |-> Field(body, 2), method |-> Field(body, 4),
                         pts |-> Field(body, 5), args |-> Field(body, 6),
                         lines |-> Cardinality(LineEnds(body)), rest |-> Len(b) - 16 - n]
  <2> HIDE DEF b, body, n
  <2>1. QED BY <1>3, Zenon DEF ProviderSees
<1>6. Len(b) = DubboRoom(Asked) /\ Len(b) - 16 - n = 0
  <2> HIDE DEF b, body, n
  <2>1. QED BY <1>1, <1>3, <1>4
<1>7. ProviderSees(b) = CallSeen
  <2>1. /\ Field(body, 2) = call.key.interface /\ Field(body, 4) = call.key.method
        /\ Field(body, 5) = call.key.pts /\ Field(body, 6) = call.parameter
        /\ Cardinality(LineEnds(body)) = 7
    BY AskedFrame, Zenon
  <2> HIDE DEF b, body, n
  <2>2. QED BY <1>5, <1>6, <2>1, Zenon DEF CallSeen
<1>8. QED BY <1>3, <1>6, <1>7

\* The request of the ACT protocol is read back.
LEMMA RequestRead ==
    ASSUME call \in Calls
    PROVE  LET w == ReqBytes(call.id, call.parameter) IN
           /\ w \in Strings /\ Len(w) = ReqRoom(call.parameter)
           /\ IntAt(w, 1) = call.id /\ IntAt(w, 5) = Len(call.parameter)
           /\ Take(w, 9, Len(call.parameter)) = call.parameter
<1> DEFINE id == call.id
           t == call.parameter
           w == write_int(id) \o write_int(Len(t)) \o t
<1>1. id \in 0 .. (IntMod \div 2) - 1 /\ t \in Texts
  BY CallParts
<1>2. t \in Strings /\ Len(t) \in 0 .. (IntMod \div 2) - 1 /\ Len(t) \in Nat
  BY <1>1, Strung, Fits
<1> HIDE DEF id, t
<1>3. /\ w \in Strings /\ Len(w) = 8 + Len(t) /\ IntAt(w, 1) = id /\ IntAt(w, 5) = Len(t)
      /\ Take(w, 9, Len(t)) = t
  BY <1>1, <1>2, Envelope, Zenon
<1> HIDE DEF w
<1>4. ReqRoom(t) = 8 + Len(t)
  BY <1>2 DEF ReqRoom
<1>5. ReqBytes(id, t) = w
  BY DEF ReqBytes, w
<1>6. QED BY <1>3, <1>4, <1>5, Zenon DEF id, t

\* So is its response.
LEMMA ResponseRead ==
    ASSUME call \in Calls
    PROVE  LET w == RespBytes(Answered) IN
           /\ Len(w) = RespRoom(Answered)
           /\ IntAt(w, 1) = call.id /\ IntAt(w, 5) = Len(ValueBody(call.value))
           /\ Take(w, 9, Len(ValueBody(call.value))) = ValueBody(call.value)
<1> DEFINE id == call.id
           t == ValueBody(call.value)
           w == write_int(id) \o write_int(Len(t)) \o t
<1>1. id \in 0 .. (IntMod \div 2) - 1
  BY CallParts
<1>2. t \in Strings /\ Len(t) \in 0 .. (IntMod \div 2) - 1
  <2>1. call.value \in Values
    BY CallParts
  <2>2. QED BY <2>1, BodyRead, Zenon
<1>3. Answered.id = id /\ Answered.result = t
  BY DEF Answered
<1> HIDE DEF id, t
<1>4. /\ w \in Strings /\ Len(w) = 8 + Len(t) /\ IntAt(w, 1) = id /\ IntAt(w, 5) = Len(t)
      /\ Take(w, 9, Len(t)) = t
  BY <1>1, <1>2, Envelope, Zenon
<1> HIDE DEF w
<1>5. RespBytes(Answered) = w /\ RespRoom(Answered) = 8 + Len(t)
  BY <1>3, Zenon DEF RespBytes, RespRoom, w
<1>6. QED BY <1>4, <1>5, Zenon DEF id, t

-----------------------------------------------------------------------------
\* One lemma per hop: the invariant after it.

LEMMA KeyWritten ==
    ASSUME CallOnTheWay, PaEncodeActKey
    PROVE  CallOnTheWay'
<1>1. call' = call /\ call \in Calls
  BY DEF PaEncodeActKey, CallOnTheWay
<1>2. AtKey'
  BY DEF PaEncodeActKey, AtKey
<1>3. QED BY <1>1, <1>2 DEF CallOnTheWay

LEMMA KeyTakenOff ==
    ASSUME CallOnTheWay, POnReadHeader
    PROVE  CallOnTheWay'
<1> DEFINE k == call.key
           i == Len(k.interface)
           m == Len(k.method)
           t == Len(k.pts)
<1>1. call' = call /\ call \in Calls /\ hop' = "keyed" /\ room' = 0
  BY DEF POnReadHeader, CallOnTheWay
<1>2. wire = KeyBytes(k)
  BY DEF POnReadHeader, CallOnTheWay, AtHeader, AtKey, AtKeyed, AtRequest, AtDubbo,
         AtExecuted, AtResponse, AtDone
<1>3. k \in Keys
  BY <1>1, CallParts
<1> HIDE DEF k
<1>4. /\ IntAt(wire, 3) = i /\ Take(wire, 7, i) = k.interface
      /\ IntAt(wire, 7 + i) = m /\ Take(wire, 11 + i, m) = k.method
      /\ IntAt(wire, 11 + i + m) = t /\ Take(wire, 15 + i + m, t) = k.pts
      /\ SubSeq(wire, 15 + i + m + t, Len(wire)) = <<>>
  BY <1>2, <1>3, KeyRead, Zenon
<1> HIDE DEF i, m, t
<1>5. /\ seen' = [interface |-> Take(wire, 7, i), method |-> Take(wire, 11 + i, m),
                  pts |-> Take(wire, 15 + i + m, t)]
      /\ wire' = SubSeq(wire, 15 + i + m + t, Len(wire))
  BY <1>4, Zenon DEF POnReadHeader
<1>6. seen' = [interface |-> k.interface, method |-> k.method, pts |-> k.pts] /\ wire' = <<>>
  BY <1>4, <1>5, Zenon
<1>7. KeySeen' = [interface |-> k.interface, method |-> k.method, pts |-> k.pts]
  BY <1>1 DEF KeySeen, k
<1>8. AtKeyed'
  BY <1>1, <1>6, <1>7 DEF AtKeyed
<1>9. QED BY <1>1, <1>8 DEF CallOnTheWay

LEMMA RequestWritten ==
    ASSUME CallOnTheWay, PaActRequestEncode
    PROVE  CallOnTheWay'
<1>1. call' = call /\ call \in Calls /\ seen' = seen /\ hop' = "request"
      /\ room' = ReqRoom(call.parameter) /\ wire' = wire \o ReqBytes(call.id, call.parameter)
  BY DEF PaActRequestEncode, CallOnTheWay
<1>2. wire = <<>> /\ seen = KeySeen
  BY DEF PaActRequestEncode, CallOnTheWay, AtHeader, AtKey, AtKeyed, AtRequest, AtDubbo,
         AtExecuted, AtResponse, AtDone
<1>3. ReqBytes(call.id, call.parameter) \in Strings
  BY <1>1, RequestRead, Zenon
<1>4. <<>> \o ReqBytes(call.id, call.parameter) = ReqBytes(call.id, call.parameter)
  BY <1>3, ConcatEmptySeq DEF Strings
<1>5. wire' = ReqBytes(call.id, call.parameter)
  BY <1>1, <1>2, <1>4, Zenon
<1>6. KeySeen' = KeySeen
  BY <1>1 DEF KeySeen
<1>7. AtRequest'
  BY <1>1, <1>2, <1>5, <1>6 DEF AtRequest
<1>8. QED BY <1>1, <1>7 DEF CallOnTheWay

LEMMA RequestTakenOff ==
    ASSUME CallOnTheWay, POnRead
    PROVE  CallOnTheWay'
<1>1. call' = call /\ call \in Calls /\ hop' = "dubbo"
  BY DEF POnRead, CallOnTheWay
<1>2. wire = ReqBytes(call.id, call.parameter) /\ seen = KeySeen
  BY DEF POnRead, CallOnTheWay, AtHeader, AtKey, AtKeyed, AtRequest, AtDubbo,
         AtExecuted, AtResponse, AtDone
<1>3. /\ IntAt(wire, 1) = call.id /\ IntAt(wire, 5) = Len(call.parameter)
      /\ Take(wire, 9, Len(call.parameter)) = call.parameter
  BY <1>1, <1>2, RequestRead, Zenon
<1>4. /\ seen.interface = call.key.interface /\ seen.method = call.key.method
      /\ seen.pts = call.key.pts
  BY <1>2 DEF KeySeen
<1> DEFINE r == [id |-> IntAt(wire, 1), args |-> Take(wire, 9, IntAt(wire, 5)),
                 interface |-> seen.interface, method |-> seen.method, pts |-> seen.pts]
<1>5. wire' = DubboBytes(r) /\ room' = DubboRoom(r) /\ seen' = r
  BY Zenon DEF POnRead
<1>6. r = Asked
  BY <1>3, <1>4, Zenon DEF Asked
<1> HIDE DEF r
<1>7. Asked' = Asked
  BY <1>1 DEF Asked
<1>8. wire' = DubboBytes(Asked') /\ room' = DubboRoom(Asked') /\ seen' = Asked'
  BY <1>5, <1>6, <1>7, Zenon
<1>9. AtDubbo'
  BY <1>1, <1>8, Zenon DEF AtDubbo
<1>10. QED BY <1>1, <1>9 DEF CallOnTheWay

LEMMA CallExecuted ==
    ASSUME CallOnTheWay, Provider
    PROVE  CallOnTheWay'
<1>1. call' = call /\ call \in Calls /\ hop' = "executed" /\ room' = Len(wire')
  BY DEF Provider, CallOnTheWay
<1>2. wire = DubboBytes(Asked)
  BY DEF Provider, CallOnTheWay, AtHeader, AtKey, AtKeyed, AtRequest, AtDubbo,
         AtExecuted, AtResponse, AtDone
<1>3. Take(wire, 5, 8) = write_ll(call.id) /\ ProviderSees(wire) = CallSeen
  BY <1>1, <1>2, AskedRead, Zenon
<1>4. seen' = ProviderSees(wire) /\ wire' = ProviderBytes(Take(wire, 5, 8), call.value)
  BY DEF Provider
<1>5. ProviderBytes(write_ll(call.id), call.value) = DubboFrame(call.id, ValueBody(call.value))
  BY Zenon DEF ProviderBytes, DubboFrame, ValueBody
<1>6. CallSeen' = CallSeen /\ DubboFrame(call.id, ValueBody(call.value))'
                              = DubboFrame(call.id, ValueBody(call.value))
  BY <1>1 DEF CallSeen, DubboFrame, ValueBody
<1>7. AtExecuted'
  BY <1>1, <1>3, <1>4, <1>5, <1>6, Zenon DEF AtExecuted
<1>8. QED BY <1>1, <1>7 DEF CallOnTheWay

LEMMA ResponseWritten ==
    ASSUME CallOnTheWay, DReadCb
    PROVE  CallOnTheWay'
<1> DEFINE body == ValueBody(call.value)
           d == [id |-> bytes2ll(Take(wire, 5, 8)), result |-> Take(wire, 17, IntAt(wire, 13))]
<1>1. call' = call /\ call \in Calls /\ hop' = "response"
  BY DEF DReadCb, CallOnTheWay
<1>2. wire = DubboFrame(call.id, body)
  BY DEF DReadCb, CallOnTheWay, AtHeader, AtKey, AtKeyed, AtRequest, AtDubbo,
         AtExecuted, AtResponse, AtDone
<1>3. call.id \in 0 .. (IntMod \div 2) - 1 /\ call.value \in Values
  BY <1>1, CallParts
<1>4. body \in Strings /\ Len(body) \in 0 .. (IntMod \div 2) - 1
  BY <1>3, BodyRead, Zenon
<1>5. seen' = d /\ wire' = RespBytes(act_response_from_dubbo(d))
      /\ room' = RespRoom(act_response_from_dubbo(d))
  BY Zenon DEF DReadCb
<1> HIDE DEF body
<1>6. /\ Take(wire, 5, 8) = write_ll(call.id) /\ IntAt(wire, 13) = Len(body)
      /\ Take(wire, 17, Len(body)) = body
  BY <1>2, <1>3, <1>4, FrameRead, Zenon
<1>7. bytes2ll(write_ll(call.id)) = call.id
  BY <1>3, LongReadBack, Zenon
<1>8. d = [id |-> call.id, result |-> body]
  BY <1>6, <1>7, Zenon
<1>9. d = Answered
  BY <1>8, Zenon DEF Answered, body
<1> HIDE DEF d
<1>10. act_response_from_dubbo(d) = d
  <2>1. Signed(call.id, IntMod) = call.id
    BY <1>3, HalfInt, Weights, SmallSigned
  <2>2. d = [id |-> call.id, result |-> body]
    BY <1>8
  <2>3. act_response_from_dubbo(d) = [d EXCEPT !.id = Signed(d.id, IntMod)]
    BY DEF act_response_from_dubbo
  <2>4. QED BY <2>1, <2>2, <2>3
<1>11. Answered' = Answered
  BY <1>1 DEF Answered, ValueBody
<1>12. seen' = Answered' /\ wire' = RespBytes(Answered') /\ room' = RespRoom(Answered')
  BY <1>5, <1>9, <1>10, <1>11, Zenon
<1>13. AtResponse'
  BY <1>1, <1>12, Zenon DEF AtResponse
<1>14. QED BY <1>1, <1>13 DEF CallOnTheWay

LEMMA ResponseTakenOff ==
    ASSUME CallOnTheWay, PaReadCb
    PROVE  CallOnTheWay'
<1> DEFINE body == ValueBody(call.value)
           r == [id |-> IntAt(wire, 1), result |-> Take(wire, 9, IntAt(wire, 5))]
<1>1. call' = call /\ call \in Calls /\ hop' = "done" /\ wire' = wire /\ room' = room
  BY DEF PaReadCb, CallOnTheWay
<1>2. wire = RespBytes(Answered) /\ room = RespRoom(Answered)
  BY DEF PaReadCb, CallOnTheWay, AtHeader, AtKey, AtKeyed, AtRequest, AtDubbo,
         AtExecuted, AtResponse, AtDone
<1>3. IntAt(wire, 1) = call.id /\ IntAt(wire, 5) = Len(body) /\ Take(wire, 9, Len(body)) = body
  BY <1>1, <1>2, ResponseRead, Zenon
<1>4. seen' = r /\ answer' = ActDone(r.result)
  BY Zenon DEF PaReadCb
<1> HIDE DEF body
<1>5. r = [id |-> call.id, result |-> body]
  BY <1>3, Zenon
<1>6. r = Answered /\ r.result = body
  BY <1>5 DEF Answered, body
<1> HIDE DEF r
<1>7. Answered' = Answered /\ ValueBody(call.value)' = body
  BY <1>1 DEF Answered, ValueBody, body
<1>8. /\ seen' = Answered' /\ wire' = RespBytes(Answered') /\ room' = RespRoom(Answered')
      /\ answer' = ActDone(ValueBody(call.value)')
  BY <1>1, <1>2, <1>4, <1>6, <1>7, Zenon
<1>9. AtDone'
  BY <1>1, <1>8, Zenon DEF AtDone
<1>10. QED BY <1>1, <1>9 DEF CallOnTheWay

\* The invariant holds on the whole way.
THEOREM OnTheWay == CodecSpec => []CallOnTheWay
<1>1. CodecInit => CallOnTheWay
  BY DEF CodecInit, CallOnTheWay, AtHeader, Calls, Values, Keys
<1>2. CallOnTheWay /\ [CodecNext]_codecVars => CallOnTheWay'
  <2> SUFFICES ASSUME CallOnTheWay, [CodecNext]_codecVars
               PROVE  CallOnTheWay'
    OBVIOUS
  <2>1. CASE PaEncodeActKey
    BY <2>1, KeyWritten
  <2>2. CASE POnReadHeader
    BY <2>2, KeyTakenOff
  <2>3. CASE PaActRequestEncode
    BY <2>3, RequestWritten
  <2>4. CASE POnRead
    BY <2>4, RequestTakenOff
  <2>5. CASE Provider
    BY <2>5, CallExecuted
  <2>6. CASE DReadCb
    BY <2>6, ResponseWritten
  <2>7. CASE PaReadCb
    BY <2>7, ResponseTakenOff
  <2>8. CASE UNCHANGED codecVars
    BY <2>8 DEF codecVars, CallOnTheWay, AtHeader, AtKey, AtKeyed, AtRequest, AtDubbo, AtExecuted,
                AtResponse, AtDone, Asked, KeySeen, CallSeen, Answered
  <2>9. QED BY <2>1, <2>2, <2>3, <2>4, <2>5, <2>6, <2>7, <2>8 DEF CodecNext, Done
<1>3. QED BY <1>1, <1>2, PTL DEF CodecSpec

\* Every encoder fills the buffer it reserved, exactly.
THEOREM BufferAlwaysFilled == CodecSpec => []BufferFilled
<1>1. CallOnTheWay => BufferFilled
  <2> SUFFICES ASSUME CallOnTheWay
               PROVE  room = Len(wire)
    BY DEF BufferFilled
  <2>1. call \in Calls
    BY DEF CallOnTheWay
  <2>2. CASE AtHeader \/ AtKeyed
    BY <2>2, EmptySeq DEF AtHeader, AtKeyed
  <2>3. CASE AtKey
    BY <2>1, <2>3, CallParts, KeyRead, Zenon DEF AtKey
  <2>4. CASE AtRequest
    BY <2>1, <2>4, RequestRead, Zenon DEF AtRequest
  <2>5. CASE AtDubbo
    BY <2>1, <2>5, AskedRead, Zenon DEF AtDubbo
  <2>6. CASE AtExecuted
    BY <2>6 DEF AtExecuted
  <2>7. CASE AtResponse \/ AtDone
    BY <2>1, <2>7, ResponseRead, Zenon DEF AtResponse, AtDone
  <2>8. QED BY <2>2, <2>3, <2>4, <2>5, <2>6, <2>7 DEF CallOnTheWay
<1>2. QED BY <1>1, OnTheWay, PTL

\* The id a response is looked up under is the id its request was registered under.
THEOREM IdAlwaysSurvives == CodecSpec => []IdSurvives
<1>1. CallOnTheWay => IdSurvives
  BY DEF CallOnTheWay, AtHeader, AtKey, AtKeyed, AtRequest, AtDubbo, AtExecuted,
         AtResponse, AtDone, Asked, Answered, IdSurvives
<1>2. QED BY <1>1, OnTheWay, PTL

\* The provider is asked exactly what the call asks.
THEOREM ProviderAlwaysSeesCall == CodecSpec => []ProviderSeesCall
<1>1. CallOnTheWay => ProviderSeesCall
  BY DEF CallOnTheWay, AtHeader, AtKey, AtKeyed, AtRequest, AtDubbo, AtExecuted,
         AtResponse, AtDone, CallSeen, ProviderSeesCall
<1>2. QED BY <1>1, OnTheWay, PTL

\* The HTTP answer is the value under its length when the call returned something,
\* and one character under a length that does not announce it otherwise.
THEOREM ValueAlwaysAnswered == CodecSpec => []ValueAnswered
<1>1. CallOnTheWay => ValueAnswered
  <2> SUFFICES ASSUME CallOnTheWay, hop = "done"
               PROVE  IF call.value \in Texts \ {<<>>}
                      THEN answer = [length |-> Len(call.value), content |-> call.value]
                      ELSE /\ Len(answer.content) = 1
                           /\ IF call.value = <<>> THEN answer.length = 0 ELSE answer.length < 0
    BY DEF ValueAnswered
  <2>1. call.value \in Values
    BY CallParts DEF CallOnTheWay
  <2>2. answer = ActDone(ValueBody(call.value))
    BY DEF CallOnTheWay, AtHeader, AtKey, AtKeyed, AtRequest, AtDubbo, AtExecuted,
           AtResponse, AtDone
  <2>3. QED BY <2>1, <2>2, BodyRead, Zenon
<1>2. QED BY <1>1, OnTheWay, PTL
=============================================================================
