----------------------------- MODULE WireProofs -----------------------------
(***************************************************************************)
(* Lemmas about frames that wait in four places one after the other: a     *)
(* queue q, a wire w, a set r of those that were read, and a wire b back.  *)
(* On an ACT link these are the agent's queue, the connection, the peer,   *)
(* and the connection back; in a provider agent the queue to the provider, *)
(* the Dubbo connection, the provider, and the Dubbo connection back.      *)
(* What the proofs need of them is that a number, an id or the request's,  *)
(* is in one place only, whichever step moves it.                          *)
(***************************************************************************)
EXTENDS ConsumerAgent, TLAPS

WireFrames == Headers \cup ReqFrames

\* The number of a frame that tells it apart: its id, or its request's.
Mark(f, fld) == IF fld = "id" THEN f.id ELSE f.body

\* No two positions of s have the same mark; no two frames of A do; no frame
\* of A has the mark of one of B.
OneEach(s, fld) == \A i, j \in DOMAIN s : Mark(s[i], fld) = Mark(s[j], fld) => i = j
Single(A, fld) == \A f, g \in A : Mark(f, fld) = Mark(g, fld) => f = g
Apart(A, B, fld) == \A f \in A, g \in B : Mark(f, fld) # Mark(g, fld)

\* All the frames of the four places.
Frames(q, w, r, b) == Elements(q) \cup Elements(w) \cup r \cup Elements(b)

\* Each mark is in one place only.
Unique(q, w, r, b, fld) ==
    /\ OneEach(q, fld) /\ OneEach(w, fld) /\ OneEach(b, fld) /\ Single(r, fld)
    /\ Apart(Elements(q), Elements(w), fld)
    /\ Apart(Elements(q), r, fld)
    /\ Apart(Elements(q), Elements(b), fld)
    /\ Apart(Elements(w), r, fld)
    /\ Apart(Elements(w), Elements(b), fld)
    /\ Apart(r, Elements(b), fld)

-----------------------------------------------------------------------------
\* The empty sequence.
LEMMA EmptyFacts == Elements(<<>>) = {} /\ \A fld : OneEach(<<>>, fld)
  BY DEF Elements, OneEach

\* One frame alone.
LEMMA OneFacts == ASSUME NEW e PROVE Elements(<<e>>) = {e} /\ \A fld : OneEach(<<e>>, fld)
  BY DEF Elements, OneEach

\* Concatenation: type, elements, and distinct marks when the parts share none.
LEMMA ConcatFacts ==
    ASSUME NEW S, NEW s \in Seq(S), NEW t \in Seq(S)
    PROVE  /\ s \o t \in Seq(S)
           /\ Elements(s \o t) = Elements(s) \cup Elements(t)
           /\ \A fld : OneEach(s, fld) /\ OneEach(t, fld) /\ Apart(Elements(t), Elements(s), fld)
                => OneEach(s \o t, fld)
<1>1. /\ s \o t \in Seq(S) /\ Len(s \o t) = Len(s) + Len(t) /\ Len(s) \in Nat /\ Len(t) \in Nat
      /\ DOMAIN (s \o t) = 1 .. Len(s) + Len(t) /\ DOMAIN s = 1 .. Len(s) /\ DOMAIN t = 1 .. Len(t)
      /\ \A j \in 1 .. Len(s) + Len(t) : (s \o t)[j] = IF j <= Len(s) THEN s[j] ELSE t[j - Len(s)]
  OBVIOUS
<1>2. \A j \in 1 .. Len(t) : Len(s) + j \in 1 .. Len(s) + Len(t) /\ (s \o t)[Len(s) + j] = t[j]
  BY <1>1
<1>3. Elements(s \o t) = Elements(s) \cup Elements(t)
  <2>1. Elements(s \o t) \subseteq Elements(s) \cup Elements(t)
    BY <1>1 DEF Elements
  <2>2. Elements(s) \subseteq Elements(s \o t)
    BY <1>1 DEF Elements
  <2>3. ASSUME NEW j \in DOMAIN t PROVE t[j] \in Elements(s \o t)
    <3>1. Len(s) + j \in DOMAIN (s \o t) /\ t[j] = (s \o t)[Len(s) + j]
      BY <1>1, <1>2
    <3>2. QED BY <3>1 DEF Elements
  <2>4. QED BY <2>1, <2>2, <2>3 DEF Elements
<1>4. ASSUME NEW fld, OneEach(s, fld), OneEach(t, fld), Apart(Elements(t), Elements(s), fld),
             NEW i \in DOMAIN (s \o t), NEW j \in DOMAIN (s \o t),
             Mark((s \o t)[i], fld) = Mark((s \o t)[j], fld)
      PROVE  i = j
  <2>1. CASE i <= Len(s) /\ j <= Len(s)
    BY <1>1, <1>4, <2>1 DEF OneEach
  <2>2. CASE i > Len(s) /\ j > Len(s)
    <3>1. i - Len(s) \in DOMAIN t /\ j - Len(s) \in DOMAIN t
      BY <1>1, <2>2
    <3>2. (s \o t)[i] = t[i - Len(s)] /\ (s \o t)[j] = t[j - Len(s)]
      BY <1>1, <2>2
    <3>3. i - Len(s) = j - Len(s)
      BY <1>4, <3>1, <3>2 DEF OneEach
    <3>4. QED BY <1>1, <3>3
  <2>3. CASE i <= Len(s) /\ j > Len(s)
    BY <1>1, <1>4, <2>3 DEF Apart, Elements
  <2>4. CASE i > Len(s) /\ j <= Len(s)
    BY <1>1, <1>4, <2>4 DEF Apart, Elements
  <2>5. QED BY <1>1, <2>1, <2>2, <2>3, <2>4
<1>5. QED BY <1>1, <1>3, <1>4 DEF OneEach

\* Appending: type, elements, and distinct marks when the new mark is new.
LEMMA AppendFacts ==
    ASSUME NEW S, NEW s \in Seq(S), NEW e \in S
    PROVE  /\ Append(s, e) \in Seq(S)
           /\ Elements(Append(s, e)) = Elements(s) \cup {e}
           /\ \A fld : OneEach(s, fld) /\ (\A f \in Elements(s) : Mark(f, fld) # Mark(e, fld))
                => OneEach(Append(s, e), fld)
<1>1. /\ Append(s, e) \in Seq(S) /\ Len(Append(s, e)) = Len(s) + 1
      /\ DOMAIN Append(s, e) = 1 .. Len(s) + 1 /\ DOMAIN s = 1 .. Len(s) /\ Len(s) \in Nat
      /\ \A j \in 1 .. Len(s) : Append(s, e)[j] = s[j]
      /\ Append(s, e)[Len(s) + 1] = e
  OBVIOUS
<1>2. Elements(Append(s, e)) = Elements(s) \cup {e}
  BY <1>1 DEF Elements
<1>3. \A fld : OneEach(s, fld) /\ (\A f \in Elements(s) : Mark(f, fld) # Mark(e, fld))
                => OneEach(Append(s, e), fld)
  BY <1>1 DEF OneEach, Elements
<1>4. QED BY <1>1, <1>2, <1>3

\* Head and tail of a nonempty sequence.
LEMMA TailFacts ==
    ASSUME NEW S, NEW s \in Seq(S), s # <<>>
    PROVE  /\ Tail(s) \in Seq(S) /\ Head(s) \in S /\ Head(s) = s[1] /\ 1 \in DOMAIN s
           /\ Elements(s) = Elements(Tail(s)) \cup {Head(s)}
           /\ \A fld : OneEach(s, fld) => /\ OneEach(Tail(s), fld)
                                          /\ \A f \in Elements(Tail(s)) : Mark(f, fld) # Mark(Head(s), fld)
           /\ \A j \in DOMAIN Tail(s) : j + 1 \in DOMAIN s /\ Tail(s)[j] = s[j + 1] /\ j # 0
<1>1. /\ Len(s) \in Nat \ {0} /\ DOMAIN s = 1 .. Len(s) /\ Head(s) = s[1]
      /\ Tail(s) \in Seq(S) /\ DOMAIN Tail(s) = 1 .. Len(s) - 1
      /\ \A j \in 1 .. Len(s) - 1 : Tail(s)[j] = s[j + 1]
      /\ \A j \in DOMAIN s : s[j] \in S
  OBVIOUS
<1>2. \A j \in DOMAIN Tail(s) : j + 1 \in DOMAIN s /\ j + 1 # 1 /\ j # 0 /\ Tail(s)[j] = s[j + 1]
  BY <1>1
<1>3. 1 \in DOMAIN s
  BY <1>1
<1>4. Head(s) \in Elements(s) /\ Elements(Tail(s)) \subseteq Elements(s)
  BY <1>1, <1>2, <1>3 DEF Elements
<1>5. ASSUME NEW j \in DOMAIN s PROVE s[j] \in Elements(Tail(s)) \cup {Head(s)}
  <2>1. CASE j = 1
    BY <1>1, <2>1
  <2>2. CASE j # 1
    <3>1. j - 1 \in DOMAIN Tail(s) /\ Tail(s)[j - 1] = s[j]
      BY <1>1, <2>2
    <3>2. QED BY <3>1 DEF Elements
  <2>3. QED BY <2>1, <2>2
<1>6. Elements(s) = Elements(Tail(s)) \cup {Head(s)}
  BY <1>4, <1>5 DEF Elements
<1>7. ASSUME NEW fld, OneEach(s, fld)
      PROVE  OneEach(Tail(s), fld) /\ \A f \in Elements(Tail(s)) : Mark(f, fld) # Mark(Head(s), fld)
  <2>1. \A f \in Elements(Tail(s)) : Mark(f, fld) # Mark(Head(s), fld)
    BY <1>1, <1>2, <1>3, <1>7 DEF OneEach, Elements
  <2>2. OneEach(Tail(s), fld)
    BY <1>1, <1>2, <1>7 DEF OneEach
  <2>3. QED BY <2>1, <2>2
<1>8. QED BY <1>1, <1>2, <1>3, <1>6, <1>7

\* Appending one frame is writing it.
LEMMA AppendIsConcat ==
    ASSUME NEW S, NEW s \in Seq(S), NEW e \in S
    PROVE  Append(s, e) = s \o <<e>>
<1>1. Append(s, e) \in Seq(S) /\ s \o <<e>> \in Seq(S) /\ Len(Append(s, e)) = Len(s \o <<e>>)
  OBVIOUS
<1>2. \A j \in 1 .. Len(s) + 1 : Append(s, e)[j] = (s \o <<e>>)[j]
  OBVIOUS
<1>3. Len(Append(s, e)) = Len(s) + 1 /\ \A t \in Seq(S) : t = [j \in 1 .. Len(t) |-> t[j]]
  OBVIOUS
<1>4. QED BY <1>1, <1>2, <1>3

-----------------------------------------------------------------------------
\* The queue is written behind what was written before.
LEMMA PlaceFlush ==
    ASSUME NEW S, NEW q \in Seq(S), NEW w \in Seq(S), NEW r, NEW b, NEW fld
    PROVE  /\ Frames(<<>>, w \o q, r, b) = Frames(q, w, r, b)
           /\ Unique(q, w, r, b, fld) => Unique(<<>>, w \o q, r, b, fld)
<1>1. Elements(w \o q) = Elements(w) \cup Elements(q)
  BY ConcatFacts
<1>2. Unique(q, w, r, b, fld) => OneEach(w \o q, fld)
  BY ConcatFacts DEF Unique
<1>3. Frames(<<>>, w \o q, r, b) = Frames(q, w, r, b)
  BY <1>1, EmptyFacts DEF Frames
<1>4. Unique(q, w, r, b, fld) => Unique(<<>>, w \o q, r, b, fld)
  BY <1>1, <1>2, EmptyFacts DEF Unique, Apart
<1>5. QED BY <1>3, <1>4

\* Frames are lost: a place as a whole, or any of those that were read.
LEMMA PlaceDrop ==
    ASSUME NEW q, NEW w, NEW r, NEW b, NEW q2, q2 = q \/ q2 = <<>>, NEW w2, w2 = w \/ w2 = <<>>,
           NEW r2, r2 \subseteq r, NEW b2, b2 = b \/ b2 = <<>>
    PROVE  /\ Frames(q2, w2, r2, b2) \subseteq Frames(q, w, r, b)
           /\ \A fld : Unique(q, w, r, b, fld) => Unique(q2, w2, r2, b2, fld)
<1>1. /\ Elements(q2) \subseteq Elements(q) /\ Elements(w2) \subseteq Elements(w)
      /\ Elements(b2) \subseteq Elements(b)
      /\ \A fld : /\ OneEach(q, fld) => OneEach(q2, fld)
                  /\ OneEach(w, fld) => OneEach(w2, fld)
                  /\ OneEach(b, fld) => OneEach(b2, fld)
  BY EmptyFacts
<1>2. Frames(q2, w2, r2, b2) \subseteq Frames(q, w, r, b)
  BY <1>1 DEF Frames
<1>3. \A fld : Unique(q, w, r, b, fld) => Unique(q2, w2, r2, b2, fld)
  BY <1>1 DEF Unique, Apart, Single
<1>4. QED BY <1>2, <1>3

\* The first frame of the wire is read, and kept or not.
LEMMA PlaceRead ==
    ASSUME NEW q, NEW S, NEW w \in Seq(S), w # <<>>, NEW r, NEW b, NEW fld
    PROVE  /\ Frames(q, Tail(w), r \cup {Head(w)}, b) = Frames(q, w, r, b)
           /\ Frames(q, Tail(w), r, b) \subseteq Frames(q, w, r, b)
           /\ Unique(q, w, r, b, fld) => /\ Unique(q, Tail(w), r \cup {Head(w)}, b, fld)
                                         /\ Unique(q, Tail(w), r, b, fld)
<1>1. /\ Elements(w) = Elements(Tail(w)) \cup {Head(w)}
      /\ OneEach(w, fld) => /\ OneEach(Tail(w), fld)
                            /\ \A f \in Elements(Tail(w)) : Mark(f, fld) # Mark(Head(w), fld)
  BY TailFacts
<1>2. /\ Frames(q, Tail(w), r \cup {Head(w)}, b) = Frames(q, w, r, b)
      /\ Frames(q, Tail(w), r, b) \subseteq Frames(q, w, r, b)
  BY <1>1 DEF Frames
<1>3. ASSUME Unique(q, w, r, b, fld) PROVE Unique(q, Tail(w), r \cup {Head(w)}, b, fld)
  <2>1. Single(r \cup {Head(w)}, fld)
    BY <1>1, <1>3 DEF Unique, Apart, Single
  <2>2. Apart(Elements(Tail(w)), r \cup {Head(w)}, fld) /\ Apart(Elements(Tail(w)), Elements(b), fld)
    BY <1>1, <1>3 DEF Unique, Apart
  <2>3. Apart(Elements(q), Elements(Tail(w)), fld) /\ Apart(Elements(q), r \cup {Head(w)}, fld)
    BY <1>1, <1>3 DEF Unique, Apart
  <2>4. Apart(r \cup {Head(w)}, Elements(b), fld)
    BY <1>1, <1>3 DEF Unique, Apart
  <2>5. QED BY <1>1, <1>3, <2>1, <2>2, <2>3, <2>4 DEF Unique
<1>4. Unique(q, w, r, b, fld) => Unique(q, Tail(w), r, b, fld)
  BY <1>1 DEF Unique, Apart, Single
<1>5. QED BY <1>2, <1>3, <1>4

\* A frame f that was read is answered by e, which bears its marks.
LEMMA PlaceAnswer ==
    ASSUME NEW q, NEW w, NEW r, NEW T, NEW b \in Seq(T), NEW f \in r, NEW e \in T, NEW fld,
           Mark(e, fld) = Mark(f, fld)
    PROVE  /\ Frames(q, w, r \ {f}, b \o <<e>>) \subseteq Frames(q, w, r, b) \cup {e}
           /\ Unique(q, w, r, b, fld) => Unique(q, w, r \ {f}, b \o <<e>>, fld)
<1>1. <<e>> \in Seq(T) /\ Elements(<<e>>) = {e} /\ OneEach(<<e>>, fld)
  BY OneFacts
<1>2. /\ Elements(b \o <<e>>) = Elements(b) \cup {e}
      /\ OneEach(b, fld) /\ (\A g \in Elements(b) : Mark(e, fld) # Mark(g, fld)) => OneEach(b \o <<e>>, fld)
  <2> DEFINE t == <<e>>
  <2>0. t \in Seq(T)
    BY <1>1
  <2> HIDE DEF t
  <2>1. /\ Elements(b \o t) = Elements(b) \cup Elements(t)
        /\ OneEach(b, fld) /\ OneEach(t, fld) /\ Apart(Elements(t), Elements(b), fld) => OneEach(b \o t, fld)
    BY <2>0, ConcatFacts
  <2>2. QED BY <1>1, <2>1 DEF Apart, t
<1>3. Frames(q, w, r \ {f}, b \o <<e>>) \subseteq Frames(q, w, r, b) \cup {e}
  BY <1>2 DEF Frames
<1>4. ASSUME Unique(q, w, r, b, fld) PROVE Unique(q, w, r \ {f}, b \o <<e>>, fld)
  <2>1. OneEach(b \o <<e>>, fld)
    BY <1>2, <1>4 DEF Unique, Apart
  <2>2. Single(r \ {f}, fld)
    BY <1>4 DEF Unique, Single
  <2>3. Apart(Elements(q), Elements(b \o <<e>>), fld) /\ Apart(Elements(w), Elements(b \o <<e>>), fld)
    BY <1>2, <1>4 DEF Unique, Apart
  <2>4. Apart(r \ {f}, Elements(b \o <<e>>), fld)
    BY <1>2, <1>4 DEF Unique, Apart, Single
  <2>5. QED BY <1>4, <2>1, <2>2, <2>3, <2>4 DEF Unique, Apart
<1>5. QED BY <1>3, <1>4

\* The first answer is taken: no other frame has its mark.
LEMMA PlaceTake ==
    ASSUME NEW q, NEW w, NEW r, NEW S, NEW b \in Seq(S), b # <<>>
    PROVE  /\ Frames(q, w, r, b) = Frames(q, w, r, Tail(b)) \cup {Head(b)}
           /\ \A fld : Unique(q, w, r, b, fld) =>
                /\ Unique(q, w, r, Tail(b), fld)
                /\ \A g \in Frames(q, w, r, Tail(b)) : Mark(g, fld) # Mark(Head(b), fld)
<1>1. /\ Elements(b) = Elements(Tail(b)) \cup {Head(b)}
      /\ \A fld : OneEach(b, fld) =>
            /\ OneEach(Tail(b), fld)
            /\ \A f \in Elements(Tail(b)) : Mark(f, fld) # Mark(Head(b), fld)
  BY TailFacts
<1>2. Frames(q, w, r, b) = Frames(q, w, r, Tail(b)) \cup {Head(b)}
  BY <1>1 DEF Frames
<1>3. \A fld : Unique(q, w, r, b, fld) => Unique(q, w, r, Tail(b), fld)
  BY <1>1 DEF Unique, Apart
<1>4. ASSUME NEW fld, Unique(q, w, r, b, fld), NEW g \in Frames(q, w, r, Tail(b))
      PROVE  Mark(g, fld) # Mark(Head(b), fld)
  BY <1>1, <1>4 DEF Unique, Apart, Frames
<1>5. QED BY <1>2, <1>3, <1>4

\* A frame is queued under a mark no frame has.
LEMMA PlaceQueue ==
    ASSUME NEW S, NEW q \in Seq(S), NEW w, NEW r, NEW b, NEW e \in S
    PROVE  /\ Append(q, e) \in Seq(S)
           /\ Frames(Append(q, e), w, r, b) = Frames(q, w, r, b) \cup {e}
           /\ \A fld : Unique(q, w, r, b, fld) /\ (\A g \in Frames(q, w, r, b) : Mark(g, fld) # Mark(e, fld))
                => Unique(Append(q, e), w, r, b, fld)
<1>1. /\ Append(q, e) \in Seq(S)
      /\ Elements(Append(q, e)) = Elements(q) \cup {e}
      /\ \A fld : OneEach(q, fld) /\ (\A f \in Elements(q) : Mark(f, fld) # Mark(e, fld)) => OneEach(Append(q, e), fld)
  BY AppendFacts
<1>2. Frames(Append(q, e), w, r, b) = Frames(q, w, r, b) \cup {e}
  BY <1>1 DEF Frames
<1>3. ASSUME NEW fld, Unique(q, w, r, b, fld), \A g \in Frames(q, w, r, b) : Mark(g, fld) # Mark(e, fld)
      PROVE  Unique(Append(q, e), w, r, b, fld)
  BY <1>1, <1>3 DEF Unique, Apart, Frames
<1>4. QED BY <1>1, <1>2, <1>3
=============================================================================
