---------------------------- MODULE HttpProofs ----------------------------
(***************************************************************************)
(* Proofs about the HTTP side.                                             *)
(*                                                                         *)
(* The parser fed with a stream that is cut into reads (HttpStream), for   *)
(* every set of streams of the grammar, any MaxRead and any bounds on      *)
(* lengths: where the cuts are makes no difference to a parser that goes   *)
(* on, nor to whether it goes on.  The argument compares every call with   *)
(* the same units taken one by one (Chain).  Outside a body a turn of the  *)
(* loop depends on the parser and the unit alone: one lemma for each       *)
(* handler of the switch.  In a body the loop jumps to the end of the data *)
(* or of the body, which is shown to come to the same as the units one by  *)
(* one.  In a name or a value the units taken are counted in one piece     *)
(* where it ends: a parser inside is compared with what it is once they    *)
(* are counted (Brought), and one that has too many to count has to fail   *)
(* when it counts them, where the units one by one have failed before      *)
(* (Lost).  The loop takes as many turns as it needs (Loop counts them in  *)
(* blocks of eight), and then it stops where the units run out, an error   *)
(* is found, or the parser leaves.                                         *)
(*                                                                         *)
(* One connection (HttpIntake), for all forms and framings: the length     *)
(* that can become negative is never used.                                 *)
(*                                                                         *)
(* Recursive functions (Loop, FlattenSeq, Number) are unfolded at one      *)
(* place, and what they compute is proved with the least counterexample.   *)
(***************************************************************************)
EXTENDS HttpIntake, HttpStream, SequenceTheorems, WellFoundedInduction, TLAPS

-----------------------------------------------------------------------------
\* A parser, and a run of it, as far as the operators of HttpParser look.
IsParser(p) ==
    /\ "state" \in DOMAIN p /\ "header_state" \in DOMAIN p /\ "index" \in DOMAIN p
    /\ "flags" \in DOMAIN p /\ "content_length" \in DOMAIN p /\ "method" \in DOMAIN p
    /\ "http_major" \in DOMAIN p /\ "http_minor" \in DOMAIN p /\ "upgrade" \in DOMAIN p
    /\ "errno" \in DOMAIN p /\ "nread" \in DOMAIN p

IsRun(m) ==
    /\ "p" \in DOMAIN m /\ "at" \in DOMAIN m /\ "ev" \in DOMAIN m /\ "mark" \in DOMAIN m
    /\ "left" \in DOMAIN m /\ "run" \in DOMAIN m /\ "was" \in DOMAIN m /\ "skip" \in DOMAIN m
    /\ IsParser(m.p)

HeadStates ==
    {"s_dead", "s_start_req", "s_req_method", "s_req_spaces_before_url",
     "s_req_http_start", "s_req_http_H", "s_req_http_major", "s_req_http_dot",
     "s_req_http_minor", "s_req_http_end", "s_req_line_almost_done",
     "s_header_field_start", "s_header_field", "s_header_value_discard_ws",
     "s_header_value_discard_ws_almost_done", "s_header_value_discard_lws",
     "s_header_value", "s_header_value_lws", "s_header_almost_done",
     "s_headers_almost_done", "s_chunk_size_start", "s_chunk_size",
     "s_chunk_parameters", "s_chunk_size_almost_done", "s_chunk_data_almost_done",
     "s_chunk_data_done"} \cup UrlNoSpace \cup UrlMayEnd

DataStates == {"s_body_identity", "s_chunk_data"}

\* A parser between two units: one of the cases of the switch is its state, and
\* in a body there is something left to read.
Good(p) ==
    /\ p.state \in HeadStates \cup DataStates
    /\ p.content_length \in Nat /\ p.nread \in Nat
    /\ p.state \in DataStates => p.content_length # 0

\* Two runs that are alike but for the place and the callbacks made.
Like(a, b) == IsRun(a) /\ IsRun(b) /\ a.p = b.p /\ (a.left <=> b.left)

\* a and b are what one operator makes of m and a run like it, outside the loops
\* over a name or a value.
Alike(a, b, m) ==
    /\ Like(a, b) /\ a.at = m.at /\ Good(a.p) /\ a.run = m.run /\ a.skip = m.skip
    /\ a.left => m.left \/ a.p.errno = m.p.errno

\* Every handler of a unit outside a body makes of two parsers that are alike two
\* that are alike, whatever was read before in the same call.  From here on, one
\* lemma for each handler.
LEMMA StartReqAlike ==
    ASSUME NEW m, NEW n, Like(m, n), Good(m.p), NEW ch
    PROVE  Alike(StartReq(m, ch), StartReq(n, ch), m)
  BY ParserAssumption DEF StartReq, Fail, Alike, Like, IsRun, IsParser, Good, HeadStates,
     DataStates

\* The method.
LEMMA ReqMethodAlike ==
    ASSUME NEW m, NEW n, Like(m, n), Good(m.p), NEW ch, m.p.state = "s_req_method"
    PROVE  Alike(ReqMethod(m, ch), ReqMethod(n, ch), m)
  BY DEF ReqMethod, Fail, To, Alike, Like, IsRun, IsParser, Good, HeadStates, DataStates

\* The version.
LEMMA ReqHttpAlike ==
    ASSUME NEW m, NEW n, Like(m, n), Good(m.p), NEW ch
    PROVE  Alike(ReqHttp(m, ch), ReqHttp(n, ch), m)
  BY DEF ReqHttp, Fail, To, Alike, Like, IsRun, IsParser, Good, HeadStates, DataStates

\* The end of the request line.
LEMMA ReqLineAlmostDoneAlike ==
    ASSUME NEW m, NEW n, Like(m, n), Good(m.p), NEW ch
    PROVE  Alike(ReqLineAlmostDone(m, ch), ReqLineAlmostDone(n, ch), m)
  BY DEF ReqLineAlmostDone, Fail, To, Alike, Like, IsRun, IsParser, Good, HeadStates,
     DataStates

\* After a message that closes the connection.
LEMMA DeadAlike ==
    ASSUME NEW m, NEW n, Like(m, n), Good(m.p), NEW ch
    PROVE  Alike(Dead(m, ch), Dead(n, ch), m)
  BY DEF Dead, Fail, Alike, Like, IsRun, IsParser, Good, HeadStates, DataStates

\* The end of a header.
LEMMA HeaderAlmostDoneAlike ==
    ASSUME NEW m, NEW n, Like(m, n), Good(m.p), NEW ch
    PROVE  Alike(HeaderAlmostDone(m, ch), HeaderAlmostDone(n, ch), m)
  BY DEF HeaderAlmostDone, Fail, To, Alike, Like, IsRun, IsParser, Good, HeadStates, DataStates

\* The end of a line in front of a value.
LEMMA HeaderValueDiscardWsAlmostDoneAlike ==
    ASSUME NEW m, NEW n, Like(m, n), Good(m.p), NEW ch
    PROVE  Alike(HeaderValueDiscardWsAlmostDone(m, ch), HeaderValueDiscardWsAlmostDone(n, ch), m)
  BY DEF HeaderValueDiscardWsAlmostDone, Fail, To, Alike, Like, IsRun, IsParser, Good,
     HeadStates, DataStates

\* The first digit of the size of a chunk.
LEMMA ChunkSizeStartAlike ==
    ASSUME NEW m, NEW n, Like(m, n), Good(m.p), NEW ch
    PROVE  Alike(ChunkSizeStart(m, ch), ChunkSizeStart(n, ch), m)
  BY DEF ChunkSizeStart, Fail, unhex, Alike, Like, IsRun, IsParser, Good, HeadStates,
     DataStates

\* What follows the size of a chunk.
LEMMA ChunkParametersAlike ==
    ASSUME NEW m, NEW n, Like(m, n), Good(m.p), NEW ch
    PROVE  Alike(ChunkParameters(m, ch), ChunkParameters(n, ch), m)
  BY DEF ChunkParameters, To, Alike, Like, IsRun, IsParser, Good, HeadStates, DataStates

\* The end of the line with the size: a chunk that is not empty, or the last one.
LEMMA ChunkSizeAlmostDoneAlike ==
    ASSUME NEW m, NEW n, Like(m, n), Good(m.p), NEW ch
    PROVE  Alike(ChunkSizeAlmostDone(m, ch), ChunkSizeAlmostDone(n, ch), m)
  BY DEF ChunkSizeAlmostDone, Fail, To, Flag, Alike, Like, IsRun, IsParser, Good, HeadStates,
     DataStates

\* The CR behind the data of a chunk.
LEMMA ChunkDataAlmostDoneAlike ==
    ASSUME NEW m, NEW n, Like(m, n), Good(m.p), NEW ch
    PROVE  Alike(ChunkDataAlmostDone(m, ch), ChunkDataAlmostDone(n, ch), m)
  BY DEF ChunkDataAlmostDone, Fail, To, OnBody, Alike, Like, IsRun, IsParser, Good,
     HeadStates, DataStates

\* The LF behind it.
LEMMA ChunkDataDoneAlike ==
    ASSUME NEW m, NEW n, Like(m, n), Good(m.p), NEW ch
    PROVE  Alike(ChunkDataDone(m, ch), ChunkDataDone(n, ch), m)
  BY DEF ChunkDataDone, Fail, To, Alike, Like, IsRun, IsParser, Good, HeadStates, DataStates

\* A URL character leads to a state of the head, never into a body.
LEMMA UrlStates ==
    ASSUME NEW s \in UrlNoSpace \cup UrlMayEnd \cup {"s_req_spaces_before_url"}, NEW ch
    PROVE  parse_url_char(s, ch) \in HeadStates
<1>1. CASE ch \in {SP, CR, LF, TAB, 12}
  BY <1>1 DEF parse_url_char, HeadStates
<1>2. CASE ch \notin {SP, CR, LF, TAB, 12}
  <2>1. CASE s \in {"s_req_spaces_before_url", "s_req_schema", "s_req_schema_slash",
                    "s_req_schema_slash_slash"}
    BY <1>2, <2>1 DEF parse_url_char, UrlNoSpace, UrlMayEnd, HeadStates
  <2>2. CASE s \in {"s_req_server_with_at", "s_req_server_start", "s_req_server"}
    BY <1>2, <2>2 DEF parse_url_char, UrlNoSpace, UrlMayEnd, HeadStates
  <2>3. CASE s \in {"s_req_path", "s_req_query_string_start", "s_req_query_string"}
    BY <1>2, <2>3 DEF parse_url_char, UrlNoSpace, UrlMayEnd, HeadStates
  <2>4. CASE s \in {"s_req_fragment_start", "s_req_fragment"}
    BY <1>2, <2>4 DEF parse_url_char, UrlNoSpace, UrlMayEnd, HeadStates
  <2>5. QED BY <2>1, <2>2, <2>3, <2>4 DEF UrlNoSpace, UrlMayEnd
<1>3. QED BY <1>1, <1>2

\* The states of the URL, by parse_url_char.
LEMMA UrlCharAlike ==
    ASSUME NEW m, NEW n, Like(m, n), Good(m.p), NEW ch,
           NEW s \in UrlNoSpace \cup UrlMayEnd \cup {"s_req_spaces_before_url"}
    PROVE  Alike(UrlChar(m, s, ch), UrlChar(n, s, ch), m)
<1>1. parse_url_char(s, ch) \in HeadStates /\ parse_url_char(s, ch) \notin DataStates
  <2>1. \A t \in HeadStates : t \notin DataStates
    BY DEF HeadStates, DataStates, UrlNoSpace, UrlMayEnd
  <2>2. QED BY <2>1, UrlStates
<1> DEFINE t == parse_url_char(s, ch)
<1> HIDE DEF t
<1>2. t \in HeadStates /\ t \notin DataStates
  BY <1>1 DEF t
<1>3. Alike(IF t = "s_dead" THEN Fail(To(m, t), "INVALID_URL") ELSE To(m, t),
            IF t = "s_dead" THEN Fail(To(n, t), "INVALID_URL") ELSE To(n, t), m)
  BY <1>2 DEF Fail, To, Alike, Like, IsRun, IsParser, Good
<1>4. QED BY <1>3 DEF UrlChar, t

\* The blanks in front of the URL.
LEMMA ReqSpacesBeforeUrlAlike ==
    ASSUME NEW m, NEW n, Like(m, n), Good(m.p), NEW ch, m.p.state = "s_req_spaces_before_url"
    PROVE  Alike(ReqSpacesBeforeUrl(m, ch), ReqSpacesBeforeUrl(n, ch), m)
<1>1. m.p = n.p /\ Alike(m, n, m)
  BY DEF Alike, Like
<1>2. Alike(UrlChar(m, "s_req_server_start", ch), UrlChar(n, "s_req_server_start", ch), m)
  BY UrlCharAlike DEF UrlNoSpace
<1>3. Alike(UrlChar(m, m.p.state, ch), UrlChar(n, m.p.state, ch), m)
  BY UrlCharAlike
<1>4. QED BY <1>1, <1>2, <1>3 DEF ReqSpacesBeforeUrl

\* The URL.
LEMMA ReqUrlAlike ==
    ASSUME NEW m, NEW n, Like(m, n), Good(m.p), NEW ch, m.p.state \in UrlMayEnd
    PROVE  Alike(ReqUrl(m, ch), ReqUrl(n, ch), m)
<1>1. m.p = n.p
  BY DEF Like
<1>2. Alike(UrlChar(m, m.p.state, ch), UrlChar(n, m.p.state, ch), m)
  BY UrlCharAlike
<1>3. CASE ch \in {SP, CR, LF}
  BY <1>3 DEF ReqUrl, SP, CR, LF, To, Alike, Like, IsRun, IsParser, Good, HeadStates,
     DataStates
<1>4. CASE ch \notin {SP, CR, LF}
  BY <1>1, <1>2, <1>4 DEF ReqUrl
<1>5. QED BY <1>3, <1>4

\* The first unit of a value chooses how the rest of it is matched.
LEMMA HeaderValueStartAlike ==
    ASSUME NEW m, NEW n, Like(m, n), Good(m.p), NEW ch
    PROVE  Alike(HeaderValueStart(m, ch), HeaderValueStart(n, ch), m)
<1> DEFINE a == [m EXCEPT !.p.state = "s_header_value", !.p.index = 0]
           b == [n EXCEPT !.p.state = "s_header_value", !.p.index = 0]
           h == m.p.header_state
           c == ch - 48
<1>1. /\ Like(a, b) /\ a.at = m.at /\ Good(a.p) /\ a.run = m.run /\ a.skip = m.skip
      /\ (a.left <=> m.left) /\ a.p.errno = m.p.errno
      /\ a.p.header_state = h /\ b.p.header_state = h /\ a.p.state = "s_header_value"
  BY DEF Like, IsRun, IsParser, Good, HeadStates, DataStates
<1>2. IS_NUM(ch) => c \in Nat
  BY DEF IS_NUM
<1> HIDE DEF a, b, h, c
<1>3. CASE h = "h_content_length"
  <2>1. /\ HeaderValueStart(m, ch) =
             IF ~IS_NUM(ch) THEN Fail(a, "INVALID_CONTENT_LENGTH")
             ELSE IF "F_CONTENTLENGTH" \in a.p.flags THEN Fail(a, "UNEXPECTED_CONTENT_LENGTH")
             ELSE [Hs(Flag(a, "F_CONTENTLENGTH"), "h_content_length_num")
                     EXCEPT !.p.content_length = c]
        /\ HeaderValueStart(n, ch) =
             IF ~IS_NUM(ch) THEN Fail(b, "INVALID_CONTENT_LENGTH")
             ELSE IF "F_CONTENTLENGTH" \in b.p.flags THEN Fail(b, "UNEXPECTED_CONTENT_LENGTH")
             ELSE [Hs(Flag(b, "F_CONTENTLENGTH"), "h_content_length_num")
                     EXCEPT !.p.content_length = c]
    BY <1>1, <1>3 DEF HeaderValueStart, a, b, h, c
  <2>2. QED BY <1>1, <1>2, <2>1 DEF Fail, Hs, Flag, Alike, Like, IsRun, IsParser, Good,
              DataStates
<1>4. CASE h # "h_content_length"
  <2>1. /\ HeaderValueStart(m, ch) =
             CASE h = "h_upgrade" -> Hs(Flag(a, "F_UPGRADE"), "h_general")
               [] h = "h_transfer_encoding" ->
                    Hs(a, IF ch = CHUN THEN "h_matching_transfer_encoding_chunked"
                          ELSE "h_general")
               [] h = "h_connection" -> Hs(a, TokenState(ch))
               [] h = "h_matching_connection_token_start" -> a
               [] OTHER -> Hs(a, "h_general")
        /\ HeaderValueStart(n, ch) =
             CASE h = "h_upgrade" -> Hs(Flag(b, "F_UPGRADE"), "h_general")
               [] h = "h_transfer_encoding" ->
                    Hs(b, IF ch = CHUN THEN "h_matching_transfer_encoding_chunked"
                          ELSE "h_general")
               [] h = "h_connection" -> Hs(b, TokenState(ch))
               [] h = "h_matching_connection_token_start" -> b
               [] OTHER -> Hs(b, "h_general")
    BY <1>1, <1>4 DEF HeaderValueStart, a, b, h
  <2>2. QED BY <1>1, <2>1 DEF Hs, Flag, Alike, Like, IsRun, IsParser, Good, DataStates
<1>5. QED BY <1>3, <1>4

\* The blanks in front of a value.
LEMMA HeaderValueDiscardWsAlike ==
    ASSUME NEW m, NEW n, Like(m, n), Good(m.p), NEW ch
    PROVE  Alike(HeaderValueDiscardWs(m, ch), HeaderValueDiscardWs(n, ch), m)
  BY HeaderValueStartAlike DEF HeaderValueDiscardWs, To, Alike, Like, IsRun, IsParser, Good,
     HeadStates, DataStates

\* A value that ends is taken for what was matched of it.
LEMMA FinishedAlike ==
    ASSUME NEW m, NEW n, Like(m, n), Good(m.p)
    PROVE  /\ Alike(To(Finished(m), "s_header_field_start"),
                    To(Finished(n), "s_header_field_start"), m)
           /\ To(Finished(m), "s_header_field_start").left <=> m.left
           /\ To(Finished(m), "s_header_field_start").p.errno = m.p.errno
  BY DEF Finished, To, Flag, Alike, Like, IsRun, IsParser, Good, HeadStates, DataStates

\* What unhex knows is a digit.
LEMMA Hex == \A c : unhex(c) # -1 => unhex(c) \in 0 .. 15
  BY DEF unhex

\* Another digit of a length: too large a one is an error, in either parser.
LEMMA AnotherDigitAlike ==
    ASSUME NEW m, NEW n, Like(m, n), Good(m.p), NEW base \in {10, 16},
           NEW d \in 0 .. 15, m.p.state \notin DataStates
    PROVE  Alike(AnotherDigit(m, base, d), AnotherDigit(n, base, d), m)
  BY ParserAssumption DEF AnotherDigit, Fail, Alike, Like, IsRun, IsParser, Good, HeadStates,
     DataStates

\* A unit of the value of Content-Length.
LEMMA ContentLengthValueAlike ==
    ASSUME NEW m, NEW n, Like(m, n), Good(m.p), NEW ch, m.p.state = "s_header_value"
    PROVE  Alike(ContentLengthValue(m, ch), ContentLengthValue(n, ch), m)
<1>1. IS_NUM(ch) => ch - 48 \in 0 .. 15 /\ ch # SP
  BY DEF IS_NUM, SP
<1>2. CASE IS_NUM(ch)
  <2>1. Alike(AnotherDigit(m, 10, ch - 48), AnotherDigit(n, 10, ch - 48), m)
    BY <1>1, <1>2, AnotherDigitAlike DEF DataStates
  <2>2. Alike(Fail(m, "INVALID_CONTENT_LENGTH"), Fail(n, "INVALID_CONTENT_LENGTH"), m)
    BY DEF Fail, Alike, Like, IsRun, IsParser, Good
  <2>3. m.p = n.p
    BY DEF Like
  <2>4. QED BY <1>1, <1>2, <2>1, <2>2, <2>3 DEF ContentLengthValue
<1>3. CASE ~IS_NUM(ch)
  BY <1>3 DEF ContentLengthValue, Fail, Hs, Alike, Like, IsRun, IsParser, Good, DataStates
<1>4. QED BY <1>2, <1>3

\* A unit of the value of Connection.
LEMMA ConnectionValueAlike ==
    ASSUME NEW m, NEW n, Like(m, n), Good(m.p), NEW ch, m.p.state = "s_header_value"
    PROVE  Alike(ConnectionValue(m, ch), ConnectionValue(n, ch), m)
  BY DEF ConnectionValue, Hs, Flag, Alike, Like, IsRun, IsParser, Good, HeadStates, DataStates

\* A further digit of the size of a chunk, or its end.
LEMMA ChunkSizeAlike ==
    ASSUME NEW m, NEW n, Like(m, n), Good(m.p), NEW ch, m.p.state = "s_chunk_size"
    PROVE  Alike(ChunkSize(m, ch), ChunkSize(n, ch), m)
<1>1. unhex(ch) # -1 => unhex(ch) \in 0 .. 15 /\ ch \notin {CR, Semicolon, SP}
  BY DEF unhex, CR, Semicolon, SP
<1>2. CASE unhex(ch) # -1
  <2>1. Alike(AnotherDigit(m, 16, unhex(ch)), AnotherDigit(n, 16, unhex(ch)), m)
    BY <1>1, <1>2, AnotherDigitAlike DEF DataStates
  <2>2. QED BY <1>1, <1>2, <2>1 DEF ChunkSize
<1>3. CASE unhex(ch) = -1
  BY <1>3 DEF ChunkSize, Fail, To, CR, Semicolon, SP,
              Alike, Like, IsRun, IsParser, Good, HeadStates, DataStates
<1>4. QED BY <1>2, <1>3

\* The end of a message: the parser is ready for the next one, or for none.
LEMMA OnMessageCompleteAlike ==
    ASSUME NEW m, NEW n, Like(m, n), m.p.content_length \in Nat, m.p.nread \in Nat
    PROVE  /\ Alike(OnMessageComplete(m), OnMessageComplete(n), m)
           /\ OnMessageComplete(m).left <=> m.left
           /\ OnMessageComplete(m).p.errno = m.p.errno
<1>1. NEW_MESSAGE(m.p) \in {"s_start_req", "s_dead"} /\ m.p = n.p
  BY DEF NEW_MESSAGE, Like
<1>2. QED
  BY <1>1 DEF OnMessageComplete, Alike, Like, IsRun, IsParser, Good, HeadStates, DataStates

\* The end of a message, and of the headers: the states that begin a body need a
\* length that is not 0.
LEMMA MessageDoneAlike ==
    ASSUME NEW m, NEW n, Like(m, n), m.p.content_length \in Nat, m.p.nread \in Nat
    PROVE  Alike(MessageDone(m), MessageDone(n), m)
  BY OnMessageCompleteAlike DEF MessageDone, Alike, Like, IsRun

\* The last LF of the head.
LEMMA HeadersDoneAlike ==
    ASSUME NEW m, NEW n, Like(m, n), m.p.content_length \in Nat, m.p.nread \in Nat
    PROVE  Alike(HeadersDone(m), HeadersDone(n), m)
<1> DEFINE a == [m EXCEPT !.p.nread = 0]
           b == [n EXCEPT !.p.nread = 0]
           hasBody == "F_CHUNKED" \in a.p.flags \/ a.p.content_length \notin {0, ULLONG_MAX}
<1>1. /\ Like(a, b) /\ a.at = m.at /\ a.p.content_length \in Nat /\ a.p.nread \in Nat
      /\ a.run = m.run /\ a.skip = m.skip
      /\ (a.left <=> m.left) /\ a.p.errno = m.p.errno
  BY DEF Like, IsRun, IsParser
<1>2. a.p = b.p
  BY <1>1 DEF Like
<1>3. /\ HeadersDone(m) =
           IF a.p.upgrade /\ (a.p.method = "CONNECT" \/ ~hasBody)
           THEN [OnMessageComplete(a) EXCEPT !.left = TRUE]
           ELSE IF "F_CHUNKED" \in a.p.flags THEN To(a, "s_chunk_size_start")
           ELSE IF hasBody THEN To(a, "s_body_identity") ELSE OnMessageComplete(a)
      /\ HeadersDone(n) =
           IF a.p.upgrade /\ (a.p.method = "CONNECT" \/ ~hasBody)
           THEN [OnMessageComplete(b) EXCEPT !.left = TRUE]
           ELSE IF "F_CHUNKED" \in a.p.flags THEN To(b, "s_chunk_size_start")
           ELSE IF hasBody THEN To(b, "s_body_identity") ELSE OnMessageComplete(b)
  BY <1>2 DEF HeadersDone, a, b
<1> HIDE DEF a, b
<1>4. /\ Alike(OnMessageComplete(a), OnMessageComplete(b), m)
      /\ OnMessageComplete(a).p.errno = m.p.errno
  BY <1>1, OnMessageCompleteAlike DEF Alike
<1>5. Alike([OnMessageComplete(a) EXCEPT !.left = TRUE],
            [OnMessageComplete(b) EXCEPT !.left = TRUE], m)
  BY <1>4 DEF Alike, Like, IsRun
<1>6. Alike(To(a, "s_chunk_size_start"), To(b, "s_chunk_size_start"), m)
  BY <1>1 DEF To, Alike, Like, IsRun, IsParser, Good, HeadStates, DataStates
<1>7. ASSUME a.p.content_length # 0
      PROVE  Alike(To(a, "s_body_identity"), To(b, "s_body_identity"), m)
  BY <1>1, <1>7 DEF To, Alike, Like, IsRun, IsParser, Good, HeadStates, DataStates
<1>8. QED BY <1>3, <1>4, <1>5, <1>6, <1>7

\* The LF that ends the head: the framing is checked.
LEMMA HeadersAlmostDoneAlike ==
    ASSUME NEW m, NEW n, Like(m, n), Good(m.p), NEW ch
    PROVE  Alike(HeadersAlmostDone(m, ch), HeadersAlmostDone(n, ch), m)
<1> DEFINE up == \/ {"F_UPGRADE", "F_CONNECTION_UPGRADE"} \subseteq m.p.flags
                 \/ m.p.method = "CONNECT"
           a == [m EXCEPT !.p.state = "s_headers_done", !.p.upgrade = up]
           b == [n EXCEPT !.p.state = "s_headers_done", !.p.upgrade = up]
<1>1. m.p = n.p
  BY DEF Like
<1>2. \A e : Alike(Fail(m, e), Fail(n, e), m)
  BY DEF Fail, Alike, Like, IsRun, IsParser, Good
<1>3. Alike(MessageDone(m), MessageDone(n), m)
  BY MessageDoneAlike DEF Good
<1>4. Alike(HeadersDone(a), HeadersDone(b), m)
  <2> HIDE DEF up
  <2>1. /\ Like(a, b) /\ a.p.content_length \in Nat /\ a.p.nread \in Nat /\ a.at = m.at
        /\ a.run = m.run /\ a.skip = m.skip
        /\ (a.left <=> m.left) /\ a.p.errno = m.p.errno
    BY DEF Like, IsRun, IsParser, Good
  <2> HIDE DEF a, b
  <2>2. QED BY <2>1, HeadersDoneAlike DEF Alike
<1>5. /\ HeadersAlmostDone(m, ch) =
           CASE ch # LF -> Fail(m, "STRICT")
             [] ch = LF /\ "F_TRAILING" \in m.p.flags -> MessageDone(m)
             [] ch = LF /\ "F_TRAILING" \notin m.p.flags ->
                  IF {"F_CHUNKED", "F_CONTENTLENGTH"} \subseteq m.p.flags
                  THEN Fail(m, "UNEXPECTED_CONTENT_LENGTH") ELSE HeadersDone(a)
      /\ HeadersAlmostDone(n, ch) =
           CASE ch # LF -> Fail(n, "STRICT")
             [] ch = LF /\ "F_TRAILING" \in m.p.flags -> MessageDone(n)
             [] ch = LF /\ "F_TRAILING" \notin m.p.flags ->
                  IF {"F_CHUNKED", "F_CONTENTLENGTH"} \subseteq m.p.flags
                  THEN Fail(n, "UNEXPECTED_CONTENT_LENGTH") ELSE HeadersDone(b)
  BY <1>1 DEF HeadersAlmostDone
<1> HIDE DEF up, a, b
<1>6. QED BY <1>2, <1>3, <1>4, <1>5

\* A new field, and the value of a field, matched word by word.
LEMMA HeaderFieldStartAlike ==
    ASSUME NEW m, NEW n, Like(m, n), Good(m.p), NEW ch
    PROVE  Alike(HeaderFieldStart(m, ch), HeaderFieldStart(n, ch), m)
<1> DEFINE h == CASE ch = CON -> "h_CON"
                  [] ch = PROXY_CON -> "h_matching_proxy_connection"
                  [] ch = TRANSFER -> "h_matching_transfer_encoding"
                  [] ch = UP -> "h_matching_upgrade"
                  [] OTHER -> "h_general"
<1>1. /\ Alike(To(m, "s_headers_almost_done"), To(n, "s_headers_almost_done"), m)
      /\ To(m, "s_headers_almost_done").left <=> m.left
      /\ To(m, "s_headers_almost_done").p.errno = m.p.errno
  BY DEF To, Alike, Like, IsRun, IsParser, Good, HeadStates, DataStates
<1>2. Alike(HeadersAlmostDone(To(m, "s_headers_almost_done"), ch),
            HeadersAlmostDone(To(n, "s_headers_almost_done"), ch), m)
  BY <1>1, HeadersAlmostDoneAlike DEF Alike
<1>3. Alike(Fail(m, "INVALID_HEADER_TOKEN"), Fail(n, "INVALID_HEADER_TOKEN"), m)
  BY DEF Fail, Alike, Like, IsRun, IsParser, Good
<1>4. Alike([m EXCEPT !.p.index = 0, !.p.state = "s_header_field", !.p.header_state = h],
            [n EXCEPT !.p.index = 0, !.p.state = "s_header_field", !.p.header_state = h], m)
  <2> HIDE DEF h
  <2>1. QED BY DEF Alike, Like, IsRun, IsParser, Good, HeadStates, DataStates
<1>5. ~TOKEN(CR) /\ ~TOKEN(LF) /\ CR # LF
  BY DEF TOKEN, IS_ALPHA, IS_NUM, CR, LF, Words
<1>6. /\ HeaderFieldStart(m, ch) =
           CASE ch = CR -> To(m, "s_headers_almost_done")
             [] ch = LF -> HeadersAlmostDone(To(m, "s_headers_almost_done"), ch)
             [] TOKEN(ch) -> [m EXCEPT !.p.index = 0, !.p.state = "s_header_field",
                                       !.p.header_state = h]
             [] OTHER -> Fail(m, "INVALID_HEADER_TOKEN")
      /\ HeaderFieldStart(n, ch) =
           CASE ch = CR -> To(n, "s_headers_almost_done")
             [] ch = LF -> HeadersAlmostDone(To(n, "s_headers_almost_done"), ch)
             [] TOKEN(ch) -> [n EXCEPT !.p.index = 0, !.p.state = "s_header_field",
                                       !.p.header_state = h]
             [] OTHER -> Fail(n, "INVALID_HEADER_TOKEN")
  BY DEF HeaderFieldStart
<1> HIDE DEF h
<1>7. QED BY <1>1, <1>2, <1>3, <1>4, <1>5, <1>6

\* The start of a line after a value: the value goes on, or is taken.
LEMMA HeaderValueLwsAlike ==
    ASSUME NEW m, NEW n, Like(m, n), Good(m.p), NEW ch
    PROVE  Alike(HeaderValueLws(m, ch), HeaderValueLws(n, ch), m)
<1> DEFINE a == To(Finished(m), "s_header_field_start")
           b == To(Finished(n), "s_header_field_start")
<1>1. Alike(a, b, m) /\ (a.left <=> m.left) /\ a.p.errno = m.p.errno
  BY FinishedAlike
<1> HIDE DEF a, b
<1>2. Alike(HeaderFieldStart(a, ch), HeaderFieldStart(b, ch), m)
  BY <1>1, HeaderFieldStartAlike DEF Alike
<1>3. QED BY <1>2, HeaderValueStartAlike DEF HeaderValueLws, a, b

\* The start of a line after an empty value.
LEMMA HeaderValueDiscardLwsAlike ==
    ASSUME NEW m, NEW n, Like(m, n), Good(m.p), NEW ch
    PROVE  Alike(HeaderValueDiscardLws(m, ch), HeaderValueDiscardLws(n, ch), m)
<1> DEFINE a == To(Finished(m), "s_header_field_start")
           b == To(Finished(n), "s_header_field_start")
<1>1. Alike(a, b, m) /\ (a.left <=> m.left) /\ a.p.errno = m.p.errno
  BY FinishedAlike
<1>2. Alike(To(m, "s_header_value_discard_ws"), To(n, "s_header_value_discard_ws"), m)
  BY DEF To, Alike, Like, IsRun, IsParser, Good, HeadStates, DataStates
<1> HIDE DEF a, b
<1>3. Alike(HeaderFieldStart(a, ch), HeaderFieldStart(b, ch), m)
  BY <1>1, HeaderFieldStartAlike DEF Alike
<1>4. QED BY <1>2, <1>3 DEF HeaderValueDiscardLws, a, b

\* The loop over a name or a value has gone over units it has not counted: all but
\* the first one.  What the parser is with them counted, and that they are too many.
LoopStates == {"s_header_field", "s_header_value"}

Brought(m) == IF m.run < 2 THEN m.p ELSE [m.p EXCEPT !.nread = @ + (m.run - 1)]

Lost(m) == m.run > 0 /\ m.p.nread + (m.run - 1) > HTTP_MAX_HEADER_SIZE

\* A run between two units.  memchr has gone over no more than the loop has.
Settled(m) ==
    /\ IsRun(m) /\ Good(m.p) /\ m.run \in Nat
    /\ m.p.errno = "OK" /\ m.run > 0 =>
         m.p.state \in LoopStates /\ m.p.nread \in 1 .. HTTP_MAX_HEADER_SIZE /\ ~m.left
    /\ m.p.errno = "OK" /\ m.skip # 0 =>
         /\ m.p.state = "s_header_value" /\ m.p.header_state = "h_general"
         /\ m.run > 0 /\ m.skip \in Int /\ m.skip + m.run >= m.at

\* a and b are what a case of the switch makes of m and a run like it, at the
\* first unit of a loop if it is one.
Onward(a, b, m) ==
    /\ Like(a, b) /\ a.at = m.at /\ Good(a.p)
    /\ a.left => m.left \/ a.p.errno = m.p.errno
    /\ a.run = 0 \/ (a.run = 1 /\ a.p.state \in LoopStates /\ a.p.state = m.p.state
                     /\ a.p.nread = m.p.nread /\ (a.left <=> m.left))
    /\ a.skip # 0 => /\ a.run = 1 /\ a.skip = m.at
                     /\ a.p.state = "s_header_value" /\ a.p.header_state = "h_general"

\* Counting no more leaves everything but the size of the head.
LEMMA CountRunIs ==
    ASSUME NEW m, IsRun(m), Good(m.p), m.run \in Nat
    PROVE  /\ IsRun(CountRun(m)) /\ CountRun(m).run = 0 /\ CountRun(m).skip = 0
           /\ CountRun(m).at = m.at /\ CountRun(m).left = m.left /\ CountRun(m).was = m.was
           /\ Good(CountRun(m).p) /\ CountRun(m).p.state = m.p.state
           /\ CountRun(m).p.header_state = m.p.header_state
           /\ CountRun(m).p.nread = m.p.nread + m.run
           /\ m.p.nread + m.run > HTTP_MAX_HEADER_SIZE =>
                CountRun(m).p.errno = "HEADER_OVERFLOW"
           /\ ~(m.p.nread + m.run > HTTP_MAX_HEADER_SIZE) =>
                CountRun(m).p = [m.p EXCEPT !.nread = m.p.nread + m.run]
  BY DEF CountRun, Count, Fail, IsRun, IsParser, Good

\* The end of a name.
LEMMA NameEndsAlike ==
    ASSUME NEW m, NEW n, Like(m, n), Good(m.p), NEW ch
    PROVE  Alike(NameEnds(m, ch), NameEnds(n, ch), m)
  BY DEF NameEnds, Fail, To, Alike, Like, IsRun, IsParser, Good, HeadStates, DataStates

\* The end of a value.
LEMMA ValueEndsAlike ==
    ASSUME NEW m, NEW n, Like(m, n), Good(m.p), m.p.state \notin DataStates, m.was = n.was
    PROVE  Alike(ValueEnds(m), ValueEnds(n), m)
<1>1. Alike(HeaderAlmostDone(m, LF), HeaderAlmostDone(n, LF), m)
  BY HeaderAlmostDoneAlike
<1>2. Alike(Hs(m, m.was), Hs(n, m.was), m)
  BY DEF Hs, Alike, Like, IsRun, IsParser, Good
<1>3. m.p = n.p
  BY DEF Like
<1>4. QED BY <1>1, <1>2, <1>3 DEF ValueEnds

\* At the first unit of a loop there is nothing left to count.
LEMMA CountNothing ==
    ASSUME NEW m, NEW n, Like(m, n), Good(m.p), m.run = 0, n.run = 0
    PROVE  /\ Like(CountRun(m), CountRun(n)) /\ Good(CountRun(m).p)
           /\ CountRun(m).p.state = m.p.state
           /\ CountRun(m).at = m.at /\ CountRun(m).run = 0 /\ CountRun(m).skip = 0
           /\ CountRun(m).left = m.left /\ CountRun(m).was = m.was /\ CountRun(n).was = n.was
<1>1. /\ m.p = n.p /\ IsRun(m) /\ IsRun(n) /\ Good(n.p) /\ (m.left <=> n.left)
      /\ m.run \in Nat /\ n.run \in Nat
  BY DEF Like
<1>2. CountRun(m).p = CountRun(n).p
  BY <1>1 DEF CountRun, Count, Fail, IsRun, IsParser, Good
<1>3. /\ IsRun(CountRun(m)) /\ Good(CountRun(m).p) /\ CountRun(m).p.state = m.p.state
      /\ CountRun(m).at = m.at /\ CountRun(m).run = 0 /\ CountRun(m).skip = 0
      /\ CountRun(m).left = m.left /\ CountRun(m).was = m.was
  BY <1>1, CountRunIs
<1>4. IsRun(CountRun(n)) /\ CountRun(n).left = n.left /\ CountRun(n).was = n.was
  BY <1>1, CountRunIs
<1>5. QED BY <1>1, <1>2, <1>3, <1>4 DEF Like

\* A name, at the first unit of its loop.
LEMMA HeaderFieldAlike ==
    ASSUME NEW m, NEW n, Like(m, n), Good(m.p), NEW ch, m.p.state = "s_header_field",
           m.run = 0, n.run = 0, m.skip = 0
    PROVE  Onward(HeaderField(m, ch), HeaderField(n, ch), m)
<1>1. m.p = n.p /\ IsRun(m) /\ IsRun(n) /\ Good(n.p)
  BY DEF Like
<1>2. CASE TOKEN(ch)
  <2> DEFINE h == NameState(m.p.header_state, ch)
  <2>1. /\ HeaderField(m, ch) = [Hs(m, h) EXCEPT !.run = @ + 1]
        /\ HeaderField(n, ch) = [Hs(n, h) EXCEPT !.run = @ + 1]
    BY <1>1, <1>2 DEF HeaderField
  <2> HIDE DEF h
  <2>2. QED
    BY <2>1 DEF Hs, Onward, Like, IsRun, IsParser, Good, LoopStates, DataStates
<1>3. CASE ~TOKEN(ch)
  <2> DEFINE a == CountRun(m)
             b == CountRun(n)
  <2>1. Like(a, b) /\ Good(a.p) /\ a.at = m.at /\ a.run = 0 /\ a.skip = 0 /\ a.left = m.left
    BY CountNothing
  <2>2. /\ HeaderField(m, ch) = NameEnds(a, ch)
        /\ HeaderField(n, ch) = NameEnds(b, ch)
    BY <1>3 DEF HeaderField
  <2> HIDE DEF a, b
  <2>3. Alike(NameEnds(a, ch), NameEnds(b, ch), a)
    BY <2>1, NameEndsAlike
  <2>4. (NameEnds(a, ch).left <=> a.left)
    BY <2>1 DEF NameEnds, Fail, To, Like, IsRun
  <2>5. QED BY <2>1, <2>2, <2>3, <2>4 DEF Onward, Alike
<1>4. QED BY <1>2, <1>3

\* One more character of a value.
LEMMA ValueCharAlike ==
    ASSUME NEW m, NEW n, Like(m, n), Good(m.p), NEW ch, m.p.state = "s_header_value",
           m.skip = 0, n.skip = 0
    PROVE  /\ Like(ValueChar(m, ch), ValueChar(n, ch)) /\ Good(ValueChar(m, ch).p)
           /\ ValueChar(m, ch).at = m.at /\ ValueChar(m, ch).run = m.run
           /\ ValueChar(m, ch).p.state = m.p.state /\ ValueChar(m, ch).p.nread = m.p.nread
           /\ ValueChar(m, ch).left = m.left
           /\ ValueChar(m, ch).skip # 0 => /\ m.p.header_state = "h_general"
                                           /\ ValueChar(m, ch) = [m EXCEPT !.skip = m.at]
<1> DEFINE h == m.p.header_state
<1>1. m.p = n.p /\ IsRun(m) /\ IsRun(n)
  BY DEF Like
<1>2. CASE h = "h_general"
  <2>1. ValueChar(m, ch) = [m EXCEPT !.skip = m.at] /\ ValueChar(n, ch) = [n EXCEPT !.skip = n.at]
    BY <1>1, <1>2 DEF ValueChar
  <2>2. QED BY <1>2, <2>1 DEF Like, IsRun
<1>3. CASE h \in {"h_content_length_num", "h_content_length_ws"}
  <2>1. /\ ValueChar(m, ch) = ContentLengthValue(m, ch)
        /\ ValueChar(n, ch) = ContentLengthValue(n, ch)
    BY <1>1, <1>3 DEF ValueChar
  <2>2. Alike(ContentLengthValue(m, ch), ContentLengthValue(n, ch), m)
    BY ContentLengthValueAlike
  <2>3. /\ ContentLengthValue(m, ch).left = m.left
        /\ ContentLengthValue(m, ch).p.state = m.p.state
        /\ ContentLengthValue(m, ch).p.nread = m.p.nread
    BY <1>1 DEF ContentLengthValue, AnotherDigit, Fail, Hs, IsRun, IsParser
  <2>4. QED BY <2>1, <2>2, <2>3 DEF Alike
<1>4. CASE h \in {"h_matching_transfer_encoding_chunked", "h_transfer_encoding_chunked"}
  <2>1. \/ ValueChar(m, ch) = m /\ ValueChar(n, ch) = n
        \/ \E g : ValueChar(m, ch) = Hs(m, g) /\ ValueChar(n, ch) = Hs(n, g)
    BY <1>1, <1>4 DEF ValueChar
  <2>2. QED BY <2>1 DEF Hs, Like, IsRun, IsParser, Good, DataStates
<1>5. CASE ~(h \in {"h_general", "h_content_length_num", "h_content_length_ws",
                    "h_matching_transfer_encoding_chunked", "h_transfer_encoding_chunked"})
  <2>1. /\ ValueChar(m, ch) = ConnectionValue(m, ch)
        /\ ValueChar(n, ch) = ConnectionValue(n, ch)
    BY <1>1, <1>5 DEF ValueChar
  <2>2. Alike(ConnectionValue(m, ch), ConnectionValue(n, ch), m)
    BY ConnectionValueAlike
  <2>3. /\ ConnectionValue(m, ch).left = m.left
        /\ ConnectionValue(m, ch).p.state = m.p.state
        /\ ConnectionValue(m, ch).p.nread = m.p.nread
    BY <1>1 DEF ConnectionValue, Hs, Flag, IsRun, IsParser
  <2>4. QED BY <2>1, <2>2, <2>3 DEF Alike
<1>6. QED BY <1>2, <1>3, <1>4, <1>5

\* A value, at the first unit of its loop.
LEMMA HeaderValueAlike ==
    ASSUME NEW m, NEW n, Like(m, n), Good(m.p), NEW ch, m.p.state = "s_header_value",
           m.run = 0, n.run = 0, m.skip = 0, n.skip = 0
    PROVE  Onward(HeaderValue(m, ch), HeaderValue(n, ch), m)
<1> DEFINE a == [m EXCEPT !.was = m.p.header_state]
           b == [n EXCEPT !.was = n.p.header_state]
           done == "s_header_almost_done"
<1>1. /\ Like(a, b) /\ Good(a.p) /\ a.p = m.p /\ a.at = m.at /\ a.left = m.left
      /\ a.run = 0 /\ b.run = 0 /\ a.skip = 0 /\ b.skip = 0 /\ a.was = b.was
      /\ a.was = m.p.header_state
  BY DEF Like, IsRun, Good
<1>2. CR # LF
  BY DEF CR, LF
<1>3. /\ HeaderValue(m, ch) =
           IF ch = CR THEN CountRun(To(a, done))
           ELSE IF ch = LF THEN ValueEnds(CountRun(To(a, done)))
           ELSE IF IS_HEADER_CHAR(ch) THEN [ValueChar(a, ch) EXCEPT !.run = @ + 1]
           ELSE Fail(Hs(a, a.was), "INVALID_HEADER_TOKEN")
      /\ HeaderValue(n, ch) =
           IF ch = CR THEN CountRun(To(b, done))
           ELSE IF ch = LF THEN ValueEnds(CountRun(To(b, done)))
           ELSE IF IS_HEADER_CHAR(ch) THEN [ValueChar(b, ch) EXCEPT !.run = @ + 1]
           ELSE Fail(Hs(b, b.was), "INVALID_HEADER_TOKEN")
  <2>1. ~Skipped(a, ch) /\ ~Skipped(b, ch)
    BY <1>1 DEF Skipped
  <2> DEFINE Value(x) ==
        CASE Skipped(x, ch) -> [x EXCEPT !.run = @ + 1]
          [] ~Skipped(x, ch) /\ ch = CR -> CountRun(To(x, done))
          [] ~Skipped(x, ch) /\ ch = LF -> ValueEnds(CountRun(To(x, done)))
          [] OTHER -> IF IS_HEADER_CHAR(ch) THEN [ValueChar(x, ch) EXCEPT !.run = @ + 1]
                      ELSE Fail(Hs(x, x.was), "INVALID_HEADER_TOKEN")
  <2>2. HeaderValue(m, ch) = Value(a) /\ HeaderValue(n, ch) = Value(b)
    BY DEF HeaderValue
  <2> HIDE DEF done, a, b
  <2>3. QED BY <1>2, <2>1, <2>2
<1> HIDE DEF a, b
<1> DEFINE c == CountRun(To(a, done))
           d == CountRun(To(b, done))
<1>4. /\ Like(c, d) /\ Good(c.p) /\ c.p.state = done /\ c.at = m.at /\ c.run = 0 /\ c.skip = 0
      /\ c.left = m.left /\ c.was = d.was
  <2>1. /\ Like(To(a, done), To(b, done)) /\ Good(To(a, done).p) /\ To(a, done).p.state = done
        /\ To(a, done).at = m.at /\ To(a, done).run = 0 /\ To(b, done).run = 0
        /\ To(a, done).left = m.left /\ To(a, done).was = To(b, done).was
    BY <1>1 DEF To, Like, IsRun, IsParser, Good, HeadStates, DataStates
  <2> HIDE DEF done
  <2>2. QED BY <2>1, CountNothing
<1> HIDE DEF c, d
<1>5. Onward(c, d, m)
  BY <1>4 DEF Onward
<1>6. Onward(ValueEnds(c), ValueEnds(d), m)
  <2>1. Alike(ValueEnds(c), ValueEnds(d), c)
    BY <1>4, ValueEndsAlike DEF DataStates
  <2>2. ValueEnds(c).left = c.left
    BY <1>4 DEF ValueEnds, HeaderAlmostDone, Fail, To, Hs, Like, IsRun
  <2>3. QED BY <1>4, <2>1, <2>2 DEF Onward, Alike
<1>7. Onward([ValueChar(a, ch) EXCEPT !.run = @ + 1], [ValueChar(b, ch) EXCEPT !.run = @ + 1], m)
  <2> DEFINE e == ValueChar(a, ch)
             f == ValueChar(b, ch)
  <2>1. /\ Like(e, f) /\ Good(e.p) /\ e.at = m.at /\ e.run = 0 /\ e.p.state = "s_header_value"
        /\ e.p.nread = m.p.nread /\ e.left = m.left
        /\ e.skip # 0 => m.p.header_state = "h_general" /\ e.skip = m.at /\ e.p = m.p
    <3>1. /\ Like(e, f) /\ Good(e.p) /\ e.at = m.at /\ e.run = 0
          /\ e.p.state = "s_header_value" /\ e.p.nread = m.p.nread /\ e.left = m.left
          /\ e.skip # 0 => m.p.header_state = "h_general" /\ e = [a EXCEPT !.skip = a.at]
      BY <1>1, ValueCharAlike
    <3>2. IsRun(a)
      BY <1>1 DEF Like
    <3> HIDE DEF e, f
    <3>3. QED BY <1>1, <3>1, <3>2 DEF IsRun
  <2>2. f.run = 0
    <3>1. Like(b, a) /\ Good(b.p) /\ b.p.state = "s_header_value"
      BY <1>1 DEF Like
    <3>2. QED BY <1>1, <3>1, ValueCharAlike
  <2> HIDE DEF e, f
  <2>3. Onward([e EXCEPT !.run = @ + 1], [f EXCEPT !.run = @ + 1], m)
    BY <2>1, <2>2 DEF Onward, Like, IsRun, LoopStates
  <2>4. QED BY <2>3 DEF e, f
<1>8. Onward(Fail(Hs(a, a.was), "INVALID_HEADER_TOKEN"),
             Fail(Hs(b, b.was), "INVALID_HEADER_TOKEN"), m)
  BY <1>1 DEF Fail, Hs, Onward, Like, IsRun, IsParser, Good, DataStates
<1>9. QED BY <1>3, <1>5, <1>6, <1>7, <1>8 DEF c, d

\* Outside a body the switch looks at the unit and at nothing else of the data.
LEMMA OnUnitAlike ==
    ASSUME NEW m, NEW n, Like(m, n), Good(m.p), m.p.state \in HeadStates,
           m.run = 0, n.run = 0, m.skip = 0, n.skip = 0, NEW d, NEW e, NEW ch
    PROVE  Onward(OnUnit(m, d, ch), OnUnit(n, e, ch), m)
<1> DEFINE s == m.p.state
<1>1. n.p = m.p
  BY DEF Like
<1>2. \A a, b : Alike(a, b, m) => Onward(a, b, m)
  BY DEF Alike, Onward, Like
<1>3. CASE s = "s_dead"
  <2>1. OnUnit(m, d, ch) = Dead(m, ch) /\ OnUnit(n, e, ch) = Dead(n, ch)
    BY <1>1, <1>3 DEF OnUnit, UrlNoSpace, UrlMayEnd
  <2>2. QED BY <1>2, <2>1, DeadAlike
<1>4. CASE s = "s_start_req"
  <2>1. OnUnit(m, d, ch) = StartReq(m, ch) /\ OnUnit(n, e, ch) = StartReq(n, ch)
    BY <1>1, <1>4 DEF OnUnit, UrlNoSpace, UrlMayEnd
  <2>2. QED BY <1>2, <2>1, StartReqAlike
<1>5. CASE s = "s_req_method"
  <2>1. OnUnit(m, d, ch) = ReqMethod(m, ch) /\ OnUnit(n, e, ch) = ReqMethod(n, ch)
    BY <1>1, <1>5 DEF OnUnit, UrlNoSpace, UrlMayEnd
  <2>2. QED BY <1>2, <1>5, <2>1, ReqMethodAlike
<1>6. CASE s = "s_req_spaces_before_url"
  <2>1. /\ OnUnit(m, d, ch) = ReqSpacesBeforeUrl(m, ch)
        /\ OnUnit(n, e, ch) = ReqSpacesBeforeUrl(n, ch)
    BY <1>1, <1>6 DEF OnUnit, UrlNoSpace, UrlMayEnd
  <2>2. QED BY <1>2, <1>6, <2>1, ReqSpacesBeforeUrlAlike
<1>7. CASE s = "s_req_line_almost_done"
  <2>1. /\ OnUnit(m, d, ch) = ReqLineAlmostDone(m, ch)
        /\ OnUnit(n, e, ch) = ReqLineAlmostDone(n, ch)
    BY <1>1, <1>7 DEF OnUnit, UrlNoSpace, UrlMayEnd
  <2>2. QED BY <1>2, <2>1, ReqLineAlmostDoneAlike
<1>8. CASE s = "s_header_field_start"
  <2>1. OnUnit(m, d, ch) = HeaderFieldStart(m, ch) /\ OnUnit(n, e, ch) = HeaderFieldStart(n, ch)
    BY <1>1, <1>8 DEF OnUnit, UrlNoSpace, UrlMayEnd
  <2>2. QED BY <1>2, <2>1, HeaderFieldStartAlike
<1>9. CASE s = "s_header_field"
  <2>1. OnUnit(m, d, ch) = HeaderField(m, ch) /\ OnUnit(n, e, ch) = HeaderField(n, ch)
    BY <1>1, <1>9 DEF OnUnit, UrlNoSpace, UrlMayEnd
  <2>2. QED BY <1>9, <2>1, HeaderFieldAlike
<1>10. CASE s = "s_header_value_discard_ws"
  <2>1. /\ OnUnit(m, d, ch) = HeaderValueDiscardWs(m, ch)
        /\ OnUnit(n, e, ch) = HeaderValueDiscardWs(n, ch)
    BY <1>1, <1>10 DEF OnUnit, UrlNoSpace, UrlMayEnd
  <2>2. QED BY <1>2, <2>1, HeaderValueDiscardWsAlike
<1>11. CASE s = "s_header_value_discard_ws_almost_done"
  <2>1. /\ OnUnit(m, d, ch) = HeaderValueDiscardWsAlmostDone(m, ch)
        /\ OnUnit(n, e, ch) = HeaderValueDiscardWsAlmostDone(n, ch)
    BY <1>1, <1>11 DEF OnUnit, UrlNoSpace, UrlMayEnd
  <2>2. QED BY <1>2, <2>1, HeaderValueDiscardWsAlmostDoneAlike
<1>12. CASE s = "s_header_value_discard_lws"
  <2>1. /\ OnUnit(m, d, ch) = HeaderValueDiscardLws(m, ch)
        /\ OnUnit(n, e, ch) = HeaderValueDiscardLws(n, ch)
    BY <1>1, <1>12 DEF OnUnit, UrlNoSpace, UrlMayEnd
  <2>2. QED BY <1>2, <2>1, HeaderValueDiscardLwsAlike
<1>13. CASE s = "s_header_value"
  <2>1. OnUnit(m, d, ch) = HeaderValue(m, ch) /\ OnUnit(n, e, ch) = HeaderValue(n, ch)
    BY <1>1, <1>13 DEF OnUnit, UrlNoSpace, UrlMayEnd
  <2>2. QED BY <1>13, <2>1, HeaderValueAlike
<1>14. CASE s = "s_header_value_lws"
  <2>1. OnUnit(m, d, ch) = HeaderValueLws(m, ch) /\ OnUnit(n, e, ch) = HeaderValueLws(n, ch)
    BY <1>1, <1>14 DEF OnUnit, UrlNoSpace, UrlMayEnd
  <2>2. QED BY <1>2, <2>1, HeaderValueLwsAlike
<1>15. CASE s = "s_header_almost_done"
  <2>1. OnUnit(m, d, ch) = HeaderAlmostDone(m, ch) /\ OnUnit(n, e, ch) = HeaderAlmostDone(n, ch)
    BY <1>1, <1>15 DEF OnUnit, UrlNoSpace, UrlMayEnd
  <2>2. QED BY <1>2, <2>1, HeaderAlmostDoneAlike
<1>16. CASE s = "s_headers_almost_done"
  <2>1. /\ OnUnit(m, d, ch) = HeadersAlmostDone(m, ch)
        /\ OnUnit(n, e, ch) = HeadersAlmostDone(n, ch)
    BY <1>1, <1>16 DEF OnUnit, UrlNoSpace, UrlMayEnd
  <2>2. QED BY <1>2, <2>1, HeadersAlmostDoneAlike
<1>17. CASE s = "s_chunk_size_start"
  <2>1. OnUnit(m, d, ch) = ChunkSizeStart(m, ch) /\ OnUnit(n, e, ch) = ChunkSizeStart(n, ch)
    BY <1>1, <1>17 DEF OnUnit, UrlNoSpace, UrlMayEnd
  <2>2. QED BY <1>2, <2>1, ChunkSizeStartAlike
<1>18. CASE s = "s_chunk_size"
  <2>1. OnUnit(m, d, ch) = ChunkSize(m, ch) /\ OnUnit(n, e, ch) = ChunkSize(n, ch)
    BY <1>1, <1>18 DEF OnUnit, UrlNoSpace, UrlMayEnd
  <2>2. QED BY <1>2, <1>18, <2>1, ChunkSizeAlike
<1>19. CASE s = "s_chunk_parameters"
  <2>1. OnUnit(m, d, ch) = ChunkParameters(m, ch) /\ OnUnit(n, e, ch) = ChunkParameters(n, ch)
    BY <1>1, <1>19 DEF OnUnit, UrlNoSpace, UrlMayEnd
  <2>2. QED BY <1>2, <2>1, ChunkParametersAlike
<1>20. CASE s = "s_chunk_size_almost_done"
  <2>1. /\ OnUnit(m, d, ch) = ChunkSizeAlmostDone(m, ch)
        /\ OnUnit(n, e, ch) = ChunkSizeAlmostDone(n, ch)
    BY <1>1, <1>20 DEF OnUnit, UrlNoSpace, UrlMayEnd
  <2>2. QED BY <1>2, <2>1, ChunkSizeAlmostDoneAlike
<1>21. CASE s = "s_chunk_data_almost_done"
  <2>1. /\ OnUnit(m, d, ch) = ChunkDataAlmostDone(m, ch)
        /\ OnUnit(n, e, ch) = ChunkDataAlmostDone(n, ch)
    BY <1>1, <1>21 DEF OnUnit, UrlNoSpace, UrlMayEnd
  <2>2. QED BY <1>2, <2>1, ChunkDataAlmostDoneAlike
<1>22. CASE s = "s_chunk_data_done"
  <2>1. OnUnit(m, d, ch) = ChunkDataDone(m, ch) /\ OnUnit(n, e, ch) = ChunkDataDone(n, ch)
    BY <1>1, <1>22 DEF OnUnit, UrlNoSpace, UrlMayEnd
  <2>2. QED BY <1>2, <2>1, ChunkDataDoneAlike
<1>23. CASE s \in UrlNoSpace
  <2>1. OnUnit(m, d, ch) = UrlChar(m, s, ch) /\ OnUnit(n, e, ch) = UrlChar(n, s, ch)
    BY <1>1, <1>23 DEF OnUnit, UrlNoSpace, UrlMayEnd
  <2>2. QED BY <1>2, <1>23, <2>1, UrlCharAlike
<1>24. CASE s \in UrlMayEnd
  <2>1. OnUnit(m, d, ch) = ReqUrl(m, ch) /\ OnUnit(n, e, ch) = ReqUrl(n, ch)
    BY <1>1, <1>24 DEF OnUnit, UrlNoSpace, UrlMayEnd
  <2>2. QED BY <1>2, <1>24, <2>1, ReqUrlAlike
<1>25. CASE s \in {"s_req_http_start", "s_req_http_H", "s_req_http_major", "s_req_http_dot",
                 "s_req_http_minor", "s_req_http_end"}
  <2>1. OnUnit(m, d, ch) = ReqHttp(m, ch) /\ OnUnit(n, e, ch) = ReqHttp(n, ch)
    BY <1>1, <1>25 DEF OnUnit, UrlNoSpace, UrlMayEnd
  <2>2. QED BY <1>2, <1>25, <2>1, ReqHttpAlike
<1>26. QED
  BY <1>3, <1>4, <1>5, <1>6, <1>7, <1>8, <1>9, <1>10, <1>11, <1>12, <1>13, <1>14, <1>15,
     <1>16, <1>17, <1>18, <1>19, <1>20, <1>21, <1>22, <1>23, <1>24, <1>25 DEF HeadStates

-----------------------------------------------------------------------------
\* One turn of the loop over one unit, for a run that has not stopped.
One(m, ch) == IF m.left \/ m.p.errno # "OK" THEN m ELSE Turn(Enter(m.p), <<ch>>)

\* The unit is counted before the switch, which changes neither state nor place.
LEMMA CountedAlike ==
    ASSUME NEW m, NEW n, Like(m, n), Good(m.p), m.run = 0, n.run = 0
    PROVE  /\ Like(Counted(m), Counted(n)) /\ Good(Counted(m).p)
           /\ Counted(m).at = m.at /\ Counted(m).run = 0 /\ Counted(m).skip = m.skip
           /\ Counted(m).left <=> m.left
           /\ Counted(m).p.state = m.p.state
           /\ m.p.state \in LoopStates =>
                IF m.p.nread + 1 > HTTP_MAX_HEADER_SIZE
                THEN Counted(m).p.errno = "HEADER_OVERFLOW"
                ELSE Counted(m).p = [m.p EXCEPT !.nread = m.p.nread + 1]
<1>1. m.p = n.p /\ IsRun(m) /\ IsRun(n)
  BY DEF Like
<1>2. Counted(m).p = Counted(n).p
  BY <1>1 DEF Counted, Count, Fail, IsRun, IsParser
<1>3. /\ IsRun(Counted(m)) /\ Good(Counted(m).p)
      /\ Counted(m).at = m.at /\ Counted(m).run = 0 /\ Counted(m).skip = m.skip
      /\ Counted(m).left = m.left /\ Counted(m).p.state = m.p.state
  BY <1>1 DEF Counted, Count, Fail, IsRun, IsParser, Good
<1>4. IsRun(Counted(n)) /\ Counted(n).left = n.left
  BY <1>1 DEF Counted, Count, Fail, IsRun, IsParser
<1>5. m.p.state \in LoopStates =>
        IF m.p.nread + 1 > HTTP_MAX_HEADER_SIZE THEN Counted(m).p.errno = "HEADER_OVERFLOW"
        ELSE Counted(m).p = [m.p EXCEPT !.nread = m.p.nread + 1]
  BY <1>1 DEF Counted, Count, Fail, IsRun, IsParser, BodyStates, LoopStates
<1>6. QED BY <1>1, <1>2, <1>3, <1>4, <1>5 DEF Like

\* A run of its own.
LEMMA Entered ==
    ASSUME NEW p, IsParser(p), Good(p)
    PROVE  /\ Settled(Enter(p)) /\ Enter(p).p = p /\ Enter(p).at = 1
           /\ Enter(p).run = 0 /\ Enter(p).skip = 0 /\ ~Enter(p).left
  BY DEF Enter, Settled, IsRun

\* A run that has something left to count has come to what u has; a run that has
\* left too much uncounted has only not yet found the error that u has.
Matches(m, u) ==
    IF m.p.errno = "OK" /\ ~Lost(m) THEN Brought(m) = u.p /\ (m.left <=> u.left)
    ELSE u.p.errno # "OK"

\* Outside a body a turn of the outer loop takes one unit, or refuses it, and comes
\* to what a run over this unit alone comes to: the place, the callbacks and the
\* rest of the data make no difference.
LEMMA TurnOnHead ==
    ASSUME NEW m, Settled(m), NEW data, Len(data) \in Nat, m.at \in 1 .. Len(data),
           ~m.left, m.p.errno = "OK", m.p.state \in HeadStates, m.run = 0
    PROVE  /\ Settled(Turn(m, data))
           /\ Turn(m, data).at = IF Turn(m, data).p.errno = "OK" THEN m.at + 1 ELSE m.at
           /\ Turn(m, data).left => Turn(m, data).p.errno = "OK"
           /\ Matches(Turn(m, data), Turn(Enter(m.p), <<data[m.at]>>))
<1> DEFINE ch == data[m.at]
           one == <<ch>>
           n == Enter(m.p)
           a == Counted(m)
           b == Counted(n)
           x == IF a.p.errno # "OK" THEN a ELSE OnUnit(a, data, ch)
           y == IF b.p.errno # "OK" THEN b ELSE OnUnit(b, one, ch)
<1>1. IsRun(m) /\ Good(m.p) /\ IsParser(m.p) /\ m.skip = 0
  BY DEF Settled, IsRun
<1>2. Settled(n) /\ n.p = m.p /\ n.at = 1 /\ n.run = 0 /\ n.skip = 0 /\ ~n.left
  BY <1>1, Entered
<1> HIDE DEF n
<1>3. Len(one) = 1 /\ one[1] = ch
  OBVIOUS
<1> HIDE DEF one
<1>4. /\ Like(a, b) /\ Good(a.p) /\ a.p = b.p /\ ~a.left /\ ~b.left /\ a.at = m.at /\ b.at = 1
      /\ a.run = 0 /\ b.run = 0 /\ a.skip = 0 /\ b.skip = 0 /\ a.p.state = m.p.state
      /\ a.p.state \in LoopStates /\ a.p.errno = "OK" => a.p.nread \in 1 .. HTTP_MAX_HEADER_SIZE
  <2>1. Like(m, n) /\ Like(n, m) /\ IsRun(n) /\ Good(n.p)
    BY <1>1, <1>2 DEF Like, Settled
  <2>2. /\ Like(a, b) /\ Good(a.p) /\ a.at = m.at /\ a.run = 0 /\ a.skip = m.skip
        /\ (a.left <=> m.left) /\ a.p.state = m.p.state
        /\ m.p.state \in LoopStates =>
             IF m.p.nread + 1 > HTTP_MAX_HEADER_SIZE THEN a.p.errno = "HEADER_OVERFLOW"
             ELSE a.p = [m.p EXCEPT !.nread = m.p.nread + 1]
    BY <1>2, <2>1, CountedAlike
  <2>3. b.at = n.at /\ b.run = 0 /\ b.skip = n.skip
    BY <1>2, <2>1, CountedAlike
  <2> HIDE DEF a, b
  <2>4. a.p.state \in LoopStates /\ a.p.errno = "OK" => a.p.nread \in 1 .. HTTP_MAX_HEADER_SIZE
    BY <1>1, <2>2, ParserAssumption DEF Good, IsParser
  <2>5. QED BY <1>1, <1>2, <2>2, <2>3, <2>4 DEF Like
<1>5. Turn(m, data) = Ahead(x) /\ Turn(n, one) = Ahead(y)
  BY <1>2, <1>3, <1>4 DEF Turn, AtUnit
<1> HIDE DEF a, b, ch
<1>6. Onward(x, y, a)
  <2>1. Onward(a, b, a)
    BY <1>4 DEF Onward
  <2>2. Onward(OnUnit(a, data, ch), OnUnit(b, one, ch), a)
    BY <1>4, OnUnitAlike
  <2>3. QED BY <1>4, <2>1, <2>2
<1>7. x.left => x.p.errno = "OK"
  <2>1. x.left => x.p.errno = a.p.errno
    BY <1>4, <1>6 DEF Onward
  <2>2. a.p.errno # "OK" => ~x.left
    BY <1>4
  <2>3. QED BY <2>1, <2>2
<1> HIDE DEF x, y
<1>8. /\ IsRun(x) /\ IsRun(y) /\ x.p = y.p /\ (x.left <=> y.left) /\ x.at = m.at /\ Good(x.p)
      /\ x.run = 0 \/ (x.run = 1 /\ x.p.state \in LoopStates /\ x.p.state = a.p.state
                       /\ x.p.nread = a.p.nread /\ ~x.left)
      /\ x.skip # 0 => /\ x.run = 1 /\ x.skip = m.at
                       /\ x.p.state = "s_header_value" /\ x.p.header_state = "h_general"
  BY <1>4, <1>6 DEF Onward, Like
<1>9. x.run = 1 /\ x.p.errno = "OK" => x.p.nread \in 1 .. HTTP_MAX_HEADER_SIZE
  <2>1. x.run = 1 => a.p.errno = "OK"
    BY <1>4 DEF x
  <2>2. QED BY <1>4, <1>8, <2>1
<1>10. /\ Settled(Ahead(x)) /\ Ahead(x).p = x.p /\ (Ahead(x).left <=> x.left)
       /\ Ahead(x).at = IF x.p.errno = "OK" THEN m.at + 1 ELSE m.at
       /\ Ahead(x).run = x.run
  BY <1>8, <1>9 DEF Ahead, Settled, IsRun
<1>11. Ahead(y).p = y.p /\ (Ahead(y).left <=> y.left)
  BY <1>8 DEF Ahead, IsRun
<1>12. Matches(Ahead(x), Ahead(y))
  <2>1. Brought(Ahead(x)) = x.p
    BY <1>8, <1>10 DEF Brought
  <2>2. Ahead(x).p.errno = "OK" => ~Lost(Ahead(x))
    BY <1>8, <1>9, <1>10, ParserAssumption DEF Lost
  <2>3. QED BY <1>8, <1>10, <1>11, <2>1, <2>2 DEF Matches
<1>13. QED BY <1>5, <1>7, <1>10, <1>12 DEF n, one, ch

\* What a turn of an inner loop makes of m: the loop is left and all of it counted,
\* or it has one more unit to count.
Within(w, m) ==
    /\ IsRun(w) /\ Good(w.p) /\ w.at = m.at /\ ~w.left /\ w.run \in Nat
    /\ w.p.errno = "OK" =>
         \/ w.run = 0 /\ w.skip = 0 /\ m.p.nread + m.run <= HTTP_MAX_HEADER_SIZE
         \/ /\ w.run = m.run + 1 /\ w.p.state = m.p.state /\ w.p.nread = m.p.nread
            /\ w.skip # 0 => /\ w.p.state = "s_header_value" /\ w.p.header_state = "h_general"
                             /\ w.skip = m.at \/ (m.skip # 0 /\ w.skip = m.skip)

\* What it makes of m, and what the outer loop makes of the parser that has all
\* counted that m has not: z.
Agrees(w, z, m) ==
    /\ IsRun(z)
    /\ IF w.p.errno # "OK" THEN z.p.errno # "OK"
       ELSE /\ ~z.left
            /\ z.p = IF w.run = 0 THEN w.p ELSE [w.p EXCEPT !.nread = m.p.nread + m.run]

\* A name, inside its loop.
LEMMA FieldInRun ==
    ASSUME NEW m, IsRun(m), Good(m.p), m.run \in Nat, m.run > 0, m.p.errno = "OK", ~m.left,
           m.p.state = "s_header_field", m.skip = 0, NEW ch,
           NEW c, IsRun(c), c.run = 0, c.skip = 0, ~c.left,
           c.p = [m.p EXCEPT !.nread = m.p.nread + m.run]
    PROVE  /\ Within(HeaderField(m, ch), m)
           /\ m.p.nread + m.run <= HTTP_MAX_HEADER_SIZE =>
                Agrees(HeaderField(m, ch), HeaderField(c, ch), m)
<1> DEFINE v == m.p.nread + m.run
<1>1. /\ v \in Nat /\ IsParser(m.p) /\ IsParser(c.p) /\ c.p.nread = v /\ Good(c.p)
      /\ c.p.header_state = m.p.header_state
  BY DEF IsRun, IsParser, Good
<1>2. CASE TOKEN(ch)
  <2> DEFINE h == NameState(m.p.header_state, ch)
  <2>1. /\ HeaderField(m, ch) = [Hs(m, h) EXCEPT !.run = @ + 1]
        /\ HeaderField(c, ch) = [Hs(c, h) EXCEPT !.run = @ + 1]
    BY <1>1, <1>2 DEF HeaderField
  <2> HIDE DEF h, v
  <2> DEFINE w == [Hs(m, h) EXCEPT !.run = @ + 1]
             z == [Hs(c, h) EXCEPT !.run = @ + 1]
  <2>2. /\ IsRun(w) /\ Good(w.p) /\ w.at = m.at /\ ~w.left /\ w.run = m.run + 1 /\ w.skip = 0
        /\ w.p = [m.p EXCEPT !.header_state = h] /\ w.p.state = m.p.state
        /\ w.p.nread = m.p.nread /\ w.p.errno = "OK"
    BY DEF Hs, IsRun, IsParser, Good, DataStates
  <2>3. IsRun(z) /\ z.p = [c.p EXCEPT !.header_state = h] /\ ~z.left
    BY <1>1 DEF Hs, IsRun, IsParser
  <2>4. [[m.p EXCEPT !.nread = v] EXCEPT !.header_state = h]
          = [[m.p EXCEPT !.header_state = h] EXCEPT !.nread = v]
    OBVIOUS
  <2> HIDE DEF w, z
  <2>5. Within(w, m)
    BY <2>2 DEF Within
  <2>6. Agrees(w, z, m)
    BY <2>2, <2>3, <2>4 DEF Agrees, v
  <2>7. QED BY <2>1, <2>5, <2>6 DEF w, z
<1>3. CASE ~TOKEN(ch)
  <2> DEFINE a == CountRun(m)
             b == CountRun(c)
             w == NameEnds(a, ch)
             z == NameEnds(b, ch)
  <2>1. HeaderField(m, ch) = w /\ HeaderField(c, ch) = z
    BY <1>3 DEF HeaderField
  <2>2. /\ IsRun(a) /\ a.run = 0 /\ a.skip = 0 /\ a.at = m.at /\ ~a.left /\ Good(a.p)
        /\ v > HTTP_MAX_HEADER_SIZE => a.p.errno = "HEADER_OVERFLOW"
        /\ ~(v > HTTP_MAX_HEADER_SIZE) => a.p = [m.p EXCEPT !.nread = v]
    BY CountRunIs
  <2>3. /\ IsRun(b) /\ b.run = 0 /\ ~b.left
        /\ ~(v > HTTP_MAX_HEADER_SIZE) => b.p = [m.p EXCEPT !.nread = v]
    <3>1. c.run \in Nat /\ c.p.nread + c.run = v
      BY <1>1
    <3>2. /\ IsRun(b) /\ b.run = 0 /\ b.left = c.left
          /\ ~(v > HTTP_MAX_HEADER_SIZE) => b.p = [c.p EXCEPT !.nread = v]
      <4> HIDE DEF v
      <4>1. QED BY <1>1, <3>1, CountRunIs
    <3> HIDE DEF v
    <3>3. [[m.p EXCEPT !.nread = v] EXCEPT !.nread = v] = [m.p EXCEPT !.nread = v]
      OBVIOUS
    <3>4. QED BY <3>2, <3>3 DEF v
  <2> HIDE DEF a, b, v
  <2>4. /\ IsRun(w) /\ Good(w.p) /\ w.at = m.at /\ ~w.left /\ w.run = 0 /\ w.skip = 0
        /\ w.p.errno = "OK" => a.p.errno = "OK"
    <3>1. Like(a, a) /\ (NameEnds(a, ch).left <=> a.left)
      BY <2>2 DEF Like, NameEnds, Fail, To, IsRun
    <3>2. Alike(w, w, a)
      BY <2>2, <3>1, NameEndsAlike
    <3>3. a.p.errno # "OK" => w = a
      BY DEF NameEnds
    <3>4. QED BY <2>2, <3>1, <3>2, <3>3 DEF Alike, Like
  <2>5. Within(w, m)
    <3> HIDE DEF w
    <3>1. w.p.errno = "OK" => v <= HTTP_MAX_HEADER_SIZE
      BY <1>1, <2>2, <2>4, ParserAssumption
    <3>2. QED BY <2>4, <3>1 DEF Within, v
  <2>6. ASSUME v <= HTTP_MAX_HEADER_SIZE PROVE Agrees(w, z, m)
    <3>1. Like(a, b) /\ Like(b, a)
      BY <1>1, <2>2, <2>3, <2>6, ParserAssumption DEF Like
    <3>2. Alike(w, z, a)
      BY <2>2, <3>1, NameEndsAlike
    <3> HIDE DEF w, z
    <3>3. QED BY <2>4, <3>2 DEF Agrees, Alike, Like
  <2> HIDE DEF w, z
  <2>7. QED BY <2>1, <2>5, <2>6 DEF v
<1>4. QED BY <1>2, <1>3

\* A character of a value has the same effect whatever is counted of the head.
LEMMA ValueCharCounts ==
    ASSUME NEW m, IsRun(m), Good(m.p), m.p.state = "s_header_value", NEW ch, NEW v \in Nat,
           NEW k, IsRun(k), k.p = [m.p EXCEPT !.nread = v]
    PROVE  ValueChar(k, ch).p = [ValueChar(m, ch).p EXCEPT !.nread = v]
<1> DEFINE h == m.p.header_state
<1>1. /\ IsParser(m.p) /\ k.p.header_state = h /\ k.p.content_length = m.p.content_length
      /\ k.p.flags = m.p.flags
  BY DEF IsRun, IsParser
<1>2. /\ \A x : [[m.p EXCEPT !.nread = v] EXCEPT !.header_state = x]
                  = [[m.p EXCEPT !.header_state = x] EXCEPT !.nread = v]
      /\ \A x : [[m.p EXCEPT !.nread = v] EXCEPT !.content_length = x]
                  = [[m.p EXCEPT !.content_length = x] EXCEPT !.nread = v]
      /\ \A x : [[m.p EXCEPT !.nread = v] EXCEPT !.errno = x]
                  = [[m.p EXCEPT !.errno = x] EXCEPT !.nread = v]
      /\ \A x : [[m.p EXCEPT !.nread = v] EXCEPT !.flags = x]
                  = [[m.p EXCEPT !.flags = x] EXCEPT !.nread = v]
  OBVIOUS
<1>3. \A g : Hs(k, g).p = [Hs(m, g).p EXCEPT !.nread = v]
  BY <1>1, <1>2 DEF Hs, IsRun
<1>4. \A e : Fail(k, e).p = [Fail(m, e).p EXCEPT !.nread = v]
  BY <1>1, <1>2 DEF Fail, IsRun
<1>5. CASE h = "h_general"
  BY <1>1, <1>5 DEF ValueChar, IsRun
<1>6. CASE h \in {"h_content_length_num", "h_content_length_ws"}
  <2>1. AnotherDigit(k, 10, ch - 48).p = [AnotherDigit(m, 10, ch - 48).p EXCEPT !.nread = v]
    <3> DEFINE y == (m.p.content_length * 10 + (ch - 48)) % (ULLONG_MAX + 1)
    <3>1. /\ AnotherDigit(k, 10, ch - 48) =
               IF (ULLONG_MAX - 10) \div 10 < m.p.content_length
               THEN Fail(k, "INVALID_CONTENT_LENGTH") ELSE [k EXCEPT !.p.content_length = y]
          /\ AnotherDigit(m, 10, ch - 48) =
               IF (ULLONG_MAX - 10) \div 10 < m.p.content_length
               THEN Fail(m, "INVALID_CONTENT_LENGTH") ELSE [m EXCEPT !.p.content_length = y]
      BY <1>1 DEF AnotherDigit, IsRun, IsParser
    <3> HIDE DEF y
    <3>2. [k EXCEPT !.p.content_length = y].p = [[m EXCEPT !.p.content_length = y].p
                                                   EXCEPT !.nread = v]
      BY <1>1, <1>2 DEF IsRun
    <3>3. QED BY <1>4, <3>1, <3>2
  <2>2. ContentLengthValue(k, ch).p = [ContentLengthValue(m, ch).p EXCEPT !.nread = v]
    BY <1>1, <1>3, <1>4, <2>1 DEF ContentLengthValue
  <2>3. /\ ValueChar(m, ch) = ContentLengthValue(m, ch)
        /\ ValueChar(k, ch) = ContentLengthValue(k, ch)
    BY <1>1, <1>6 DEF ValueChar
  <2>4. QED BY <2>2, <2>3
<1>7. CASE h \in {"h_matching_transfer_encoding_chunked", "h_transfer_encoding_chunked"}
  BY <1>1, <1>3, <1>7 DEF ValueChar
<1>8. CASE ~(h \in {"h_general", "h_content_length_num", "h_content_length_ws",
                    "h_matching_transfer_encoding_chunked", "h_transfer_encoding_chunked"})
  <2>1. /\ ValueChar(m, ch) = ConnectionValue(m, ch)
        /\ ValueChar(k, ch) = ConnectionValue(k, ch)
    BY <1>1, <1>8 DEF ValueChar
  <2>2. \A f, g : Hs(Flag(k, f), g).p = [Hs(Flag(m, f), g).p EXCEPT !.nread = v]
    <3> SUFFICES ASSUME NEW f, NEW g
                 PROVE  Hs(Flag(k, f), g).p = [Hs(Flag(m, f), g).p EXCEPT !.nread = v]
      OBVIOUS
    <3> DEFINE x == m.p.flags \cup {f}
    <3>1. /\ Hs(Flag(k, f), g).p = [[k.p EXCEPT !.flags = x] EXCEPT !.header_state = g]
          /\ Hs(Flag(m, f), g).p = [[m.p EXCEPT !.flags = x] EXCEPT !.header_state = g]
      BY <1>1 DEF Hs, Flag, IsRun, IsParser
    <3> HIDE DEF x
    <3>2. [[[m.p EXCEPT !.flags = x] EXCEPT !.nread = v] EXCEPT !.header_state = g]
            = [[[m.p EXCEPT !.flags = x] EXCEPT !.header_state = g] EXCEPT !.nread = v]
      OBVIOUS
    <3> HIDE DEF h
    <3>3. QED BY <3>1, <3>2
  <2>3. ConnectionValue(k, ch).p = [ConnectionValue(m, ch).p EXCEPT !.nread = v]
    <3> HIDE DEF h
    <3>1. QED BY <1>1, <1>3, <2>2 DEF ConnectionValue, h
  <2>4. QED BY <2>1, <2>3
<1>9. QED BY <1>5, <1>6, <1>7, <1>8

\* A value, inside its loop.  What memchr goes over ends where the head is too long.
LEMMA ValueInRun ==
    ASSUME NEW m, IsRun(m), Good(m.p), m.run \in Nat, m.run > 0, m.p.errno = "OK", ~m.left,
           m.p.state = "s_header_value", m.p.nread > 0, m.at \in Int,
           m.skip # 0 => /\ m.p.header_state = "h_general" /\ m.skip \in Int
                         /\ m.skip + m.run >= m.at,
           NEW ch,
           NEW c, IsRun(c), c.run = 0, c.skip = 0, ~c.left, c.at \in Int,
           c.p = [m.p EXCEPT !.nread = m.p.nread + m.run]
    PROVE  /\ Within(HeaderValue(m, ch), m)
           /\ m.p.nread + m.run <= HTTP_MAX_HEADER_SIZE /\ IS_HEADER_CHAR(ch) =>
                Agrees(HeaderValue(m, ch), HeaderValue(c, ch), m)
<1> DEFINE v == m.p.nread + m.run
           b == [c EXCEPT !.was = c.p.header_state]
           w == HeaderValue(m, ch)
           z == HeaderValue(c, ch)
           done == "s_header_almost_done"
           Over(y) == ValueEnds(CountRun(To(y, done)))
           More(y) == [ValueChar(y, ch) EXCEPT !.run = @ + 1]
<1>1. /\ v \in Nat /\ IsParser(m.p) /\ IsParser(c.p) /\ c.p.nread = v /\ Good(c.p)
      /\ c.p.header_state = m.p.header_state /\ c.p.state = m.p.state /\ c.p.errno = "OK"
  BY DEF IsRun, IsParser, Good, HeadStates, DataStates
<1>2. /\ IsRun(b) /\ b.p = c.p /\ b.run = 0 /\ b.skip = 0 /\ ~b.left /\ b.at = c.at
  BY DEF IsRun
<1>3. CR # LF /\ ~Skipped(b, ch)
  BY <1>2 DEF CR, LF, Skipped
<1>4. /\ w = CASE Skipped(m, ch) -> [m EXCEPT !.run = @ + 1]
               [] ~Skipped(m, ch) /\ ch = CR -> CountRun(To(m, done))
               [] ~Skipped(m, ch) /\ ch = LF -> Over(m)
               [] OTHER -> IF IS_HEADER_CHAR(ch) THEN More(m)
                           ELSE Fail(Hs(m, m.was), "INVALID_HEADER_TOKEN")
      /\ z = CASE Skipped(b, ch) -> [b EXCEPT !.run = @ + 1]
               [] ~Skipped(b, ch) /\ ch = CR -> CountRun(To(b, done))
               [] ~Skipped(b, ch) /\ ch = LF -> Over(b)
               [] OTHER -> IF IS_HEADER_CHAR(ch) THEN More(b)
                           ELSE Fail(Hs(b, b.was), "INVALID_HEADER_TOKEN")
  BY DEF HeaderValue
<1> HIDE DEF w, z, b, v, done
<1> DEFINE f == CountRun(To(m, done))
           g == CountRun(To(b, done))
           short == v <= HTTP_MAX_HEADER_SIZE
<1>5. /\ IsRun(f) /\ f.run = 0 /\ f.skip = 0 /\ f.at = m.at /\ ~f.left /\ Good(f.p)
      /\ f.p.state = done
      /\ ~short => f.p.errno = "HEADER_OVERFLOW"
      /\ short => f.p = [m.p EXCEPT !.state = done, !.nread = v]
  <2> DEFINE t == To(m, done)
  <2>1. /\ IsRun(t) /\ Good(t.p) /\ t.run = m.run /\ t.at = m.at /\ ~t.left
        /\ t.p = [m.p EXCEPT !.state = done] /\ t.p.nread + t.run = v /\ t.p.state = done
    BY DEF To, IsRun, IsParser, Good, HeadStates, DataStates, v, done
  <2> HIDE DEF t
  <2>2. /\ IsRun(CountRun(t)) /\ CountRun(t).run = 0 /\ CountRun(t).skip = 0
        /\ CountRun(t).at = t.at /\ CountRun(t).left = t.left /\ Good(CountRun(t).p)
        /\ CountRun(t).p.state = t.p.state
        /\ v > HTTP_MAX_HEADER_SIZE => CountRun(t).p.errno = "HEADER_OVERFLOW"
        /\ ~(v > HTTP_MAX_HEADER_SIZE) => CountRun(t).p = [t.p EXCEPT !.nread = v]
    BY <2>1, CountRunIs
  <2>3. QED BY <1>1, <2>1, <2>2, ParserAssumption DEF t
<1>6. /\ IsRun(g) /\ g.run = 0 /\ ~g.left
      /\ short => g.p = [m.p EXCEPT !.state = done, !.nread = v]
  <2> DEFINE t == To(b, done)
  <2>1. /\ IsRun(t) /\ t.run = 0 /\ ~t.left /\ t.p = [b.p EXCEPT !.state = done]
    BY <1>2 DEF To, IsRun, IsParser
  <2> HIDE DEF t
  <2>6. Good(t.p) /\ t.run \in Nat /\ t.p.nread = v
    BY <1>1, <1>2, <2>1 DEF IsParser, Good, HeadStates, DataStates, done
  <2>7. t.p.nread + t.run = v
    BY <1>1, <2>1, <2>6
  <2>2. /\ IsRun(CountRun(t)) /\ CountRun(t).run = 0 /\ CountRun(t).left = t.left
        /\ ~(v > HTTP_MAX_HEADER_SIZE) => CountRun(t).p = [t.p EXCEPT !.nread = v]
    BY <2>1, <2>6, <2>7, CountRunIs
  <2>3. [[[m.p EXCEPT !.nread = v] EXCEPT !.state = done] EXCEPT !.nread = v]
          = [m.p EXCEPT !.state = done, !.nread = v]
    OBVIOUS
  <2>4. b.p = [m.p EXCEPT !.nread = v]
    BY <1>2 DEF v
  <2>5. [t.p EXCEPT !.nread = v] = [m.p EXCEPT !.state = done, !.nread = v]
    BY <2>1, <2>3, <2>4
  <2>8. short => CountRun(t).p = [m.p EXCEPT !.state = done, !.nread = v]
    BY <1>1, <2>2, <2>5, ParserAssumption
  <2>9. QED BY <2>1, <2>2, <2>8 DEF t
<1> HIDE DEF f, g
<1>7. CASE Skipped(m, ch)
  <2>1. /\ w = [m EXCEPT !.run = @ + 1] /\ m.skip # 0 /\ m.p.header_state = "h_general"
    BY <1>4, <1>7 DEF Skipped
  <2>2. Within(w, m)
    BY <2>1 DEF Within, IsRun
  <2>3. ASSUME short, IS_HEADER_CHAR(ch) PROVE Agrees(w, z, m)
    <3>1. ch # CR /\ ch # LF
      <4>1. m.p.nread \in Nat /\ m.p.nread > 0 /\ m.skip \in Int /\ m.skip + m.run >= m.at
        BY <2>1 DEF Good
      <4>2. m.p.nread + m.run <= HTTP_MAX_HEADER_SIZE
        BY <2>3 DEF v
      <4>3. ch \in {CR, LF} => m.at >= m.skip + HTTP_MAX_HEADER_SIZE
        BY <1>7 DEF Skipped
      <4>4. ~(m.at >= m.skip + HTTP_MAX_HEADER_SIZE)
        BY <4>1, <4>2, ParserAssumption
      <4>5. QED BY <4>3, <4>4
    <3>2. z = More(b)
      BY <1>3, <1>4, <2>3, <3>1
    <3>3. ValueChar(b, ch) = [b EXCEPT !.skip = b.at]
      BY <1>1, <1>2, <2>1 DEF ValueChar
    <3>4. IsRun(z) /\ ~z.left /\ z.p = [m.p EXCEPT !.nread = v]
      BY <1>2, <3>2, <3>3 DEF IsRun, v
    <3>5. w.p = m.p /\ w.run # 0 /\ w.p.errno = "OK"
      BY <2>1 DEF IsRun
    <3>6. QED BY <3>4, <3>5 DEF Agrees, v
  <2>4. QED BY <2>2, <2>3 DEF w, z, v
<1>8. CASE ~Skipped(m, ch) /\ ch = CR
  <2>1. w = f /\ z = g
    BY <1>3, <1>4, <1>8 DEF f, g
  <2>2. Within(w, m)
    BY <1>1, <1>5, <2>1 DEF Within, v
  <2>3. ASSUME short PROVE Agrees(w, z, m)
    BY <1>5, <1>6, <2>1, <2>3 DEF Agrees, IsRun, IsParser
  <2>4. QED BY <2>2, <2>3 DEF w, z, v
<1>9. CASE ~Skipped(m, ch) /\ ch = LF
  <2>1. w = ValueEnds(f) /\ z = ValueEnds(g)
    BY <1>3, <1>4, <1>9 DEF f, g
  <2>2. CASE ~short
    <3>1. w = Hs(f, f.was)
      BY <1>5, <2>1, <2>2 DEF ValueEnds
    <3>2. Within(w, m)
      BY <1>5, <2>2, <3>1 DEF Within, Hs, IsRun, IsParser, Good, HeadStates, DataStates, done
    <3>3. QED BY <2>2, <3>2 DEF w, v
  <2>3. CASE short
    <3>1. f.p = g.p /\ f.p.errno = "OK"
      BY <1>5, <1>6, <2>3 DEF IsRun, IsParser
    <3>2. w = To(f, "s_header_value_lws") /\ z = To(g, "s_header_value_lws")
      BY <2>1, <3>1 DEF ValueEnds, HeaderAlmostDone
    <3>3. Within(w, m)
      BY <1>1, <1>5, <2>3, <3>2 DEF Within, To, IsRun, IsParser, Good, HeadStates, DataStates, v
    <3>4. Agrees(w, z, m)
      BY <1>5, <1>6, <3>1, <3>2 DEF Agrees, To, IsRun, IsParser
    <3>5. QED BY <3>3, <3>4 DEF w, z
  <2>4. QED BY <2>2, <2>3
<1>10. CASE ~Skipped(m, ch) /\ ch # CR /\ ch # LF /\ ~IS_HEADER_CHAR(ch)
  <2>1. w = Fail(Hs(m, m.was), "INVALID_HEADER_TOKEN")
    BY <1>4, <1>10
  <2>2. Within(w, m)
    BY <2>1 DEF Within, Fail, Hs, IsRun, IsParser, Good, DataStates
  <2>3. QED BY <1>10, <2>2 DEF w
<1>11. CASE ~Skipped(m, ch) /\ ch # CR /\ ch # LF /\ IS_HEADER_CHAR(ch)
  <2> DEFINE e == ValueChar(m, ch)
             d == ValueChar(b, ch)
  <2>1. w = More(m) /\ z = More(b) /\ m.skip = 0
    BY <1>3, <1>4, <1>11 DEF Skipped
  <2>2. /\ Like(m, m) /\ Like(b, b) /\ Good(b.p) /\ b.p.state = "s_header_value"
        /\ b.skip = 0
    BY <1>1, <1>2 DEF Like
  <2>3. /\ Like(e, e) /\ Good(e.p) /\ e.at = m.at /\ e.run = m.run /\ e.p.state = m.p.state
        /\ e.p.nread = m.p.nread /\ e.left = m.left
        /\ e.skip # 0 => m.p.header_state = "h_general" /\ e = [m EXCEPT !.skip = m.at]
    BY <2>1, <2>2, ValueCharAlike
  <2>4. Like(d, d) /\ d.left = b.left
    BY <2>2, ValueCharAlike
  <2>5. d.p = [e.p EXCEPT !.nread = v]
    <3>1. b.p = [m.p EXCEPT !.nread = v]
      BY <1>2 DEF v
    <3>2. QED BY <1>1, <1>2, <3>1, ValueCharCounts
  <2>6. e.skip # 0 => e.skip = m.at /\ e.p = m.p
    <3> HIDE DEF e
    <3>1. QED BY <2>3 DEF IsRun
  <2>7. w = [e EXCEPT !.run = @ + 1] /\ z = [d EXCEPT !.run = @ + 1]
    BY <2>1
  <2> HIDE DEF e, d
  <2>8. Within(w, m)
    BY <2>3, <2>6, <2>7 DEF Within, Like, IsRun
  <2>9. Agrees(w, z, m)
    <3>1. d.p = [e.p EXCEPT !.nread = v] /\ IsRun(d) /\ ~d.left /\ IsRun(e)
      BY <1>2, <2>3, <2>4, <2>5 DEF Like
    <3>2. /\ w.p = e.p /\ w.run = m.run + 1 /\ IsRun(z) /\ ~z.left /\ z.p = d.p
      BY <2>3, <2>7, <3>1 DEF IsRun
    <3>3. d.p.errno = e.p.errno
      BY <3>1 DEF IsRun, IsParser
    <3>4. QED BY <3>1, <3>2, <3>3 DEF Agrees, v
  <2>10. QED BY <2>8, <2>9 DEF w, z
<1>12. QED BY <1>7, <1>8, <1>9, <1>10, <1>11

\* A turn of an inner loop, with what it has not counted counted.
LEMMA TurnInRun ==
    ASSUME NEW m, Settled(m), NEW data, Len(data) \in Nat, m.at \in 1 .. Len(data),
           ~m.left, m.p.errno = "OK", m.run > 0
    PROVE  /\ Settled(Turn(m, data)) /\ ~Turn(m, data).left
           /\ Turn(m, data).at = IF Turn(m, data).p.errno = "OK" THEN m.at + 1 ELSE m.at
           /\ Lost(m) /\ Turn(m, data).p.errno = "OK" => Lost(Turn(m, data))
           /\ ~Lost(m) /\ IS_HEADER_CHAR(data[m.at]) =>
                Matches(Turn(m, data), Turn(Enter(Brought(m)), <<data[m.at]>>))
<1> DEFINE ch == data[m.at]
           one == <<ch>>
           v == m.p.nread + m.run
           short == v <= HTTP_MAX_HEADER_SIZE
           q == Brought(m)
           n == Enter(q)
           a == Counted(n)
           w == OnUnit(m, data, ch)
           z == OnUnit(a, one, ch)
           t == Ahead(w)
<1>1. /\ IsRun(m) /\ IsParser(m.p) /\ Good(m.p) /\ m.run \in Nat /\ m.p.state \in LoopStates
      /\ m.p.nread \in 1 .. HTTP_MAX_HEADER_SIZE /\ m.at \in Nat /\ v \in Nat
      /\ m.skip # 0 => /\ m.p.state = "s_header_value" /\ m.p.header_state = "h_general"
                       /\ m.skip \in Int /\ m.skip + m.run >= m.at
  BY ParserAssumption DEF Settled, IsRun
<1>2. /\ IsParser(q) /\ Good(q) /\ q.errno = "OK" /\ q.state = m.p.state /\ q.nread = v - 1
      /\ [q EXCEPT !.nread = v] = [m.p EXCEPT !.nread = v]
  <2>1. CASE m.run = 1
    BY <1>1, <2>1 DEF Brought
  <2>2. CASE m.run # 1
    <3> DEFINE y == m.p.nread + (m.run - 1)
    <3>1. y \in Nat /\ y = v - 1
      BY <1>1, <2>2
    <3>2. q = [m.p EXCEPT !.nread = y]
      BY <1>1, <2>2 DEF Brought
    <3> HIDE DEF y, v, q
    <3>3. [[m.p EXCEPT !.nread = y] EXCEPT !.nread = v] = [m.p EXCEPT !.nread = v]
      OBVIOUS
    <3>4. IsParser(q) /\ Good(q) /\ q.errno = "OK" /\ q.state = m.p.state /\ q.nread = y
      BY <1>1, <3>1, <3>2 DEF IsParser, Good
    <3>5. QED BY <3>1, <3>2, <3>3, <3>4
  <2>3. QED BY <2>1, <2>2
<1> HIDE DEF q
<1>3. /\ IsRun(n) /\ n.p = q /\ n.at = 1 /\ n.run = 0 /\ n.skip = 0 /\ ~n.left
  BY <1>2, Entered DEF Settled
<1> HIDE DEF n, v
<1>4. /\ IsRun(a) /\ a.at = 1 /\ a.run = 0 /\ a.skip = 0 /\ ~a.left /\ a.p.state = m.p.state
      /\ IF short THEN a.p = [m.p EXCEPT !.nread = v] /\ a.p.errno = "OK"
         ELSE a.p.errno # "OK"
  <2>1. Like(n, n)
    BY <1>3 DEF Like
  <2>2. /\ Like(a, a) /\ a.at = n.at /\ a.run = 0 /\ a.skip = n.skip /\ (a.left <=> n.left)
        /\ a.p.state = q.state
        /\ q.state \in LoopStates =>
             IF q.nread + 1 > HTTP_MAX_HEADER_SIZE THEN a.p.errno = "HEADER_OVERFLOW"
             ELSE a.p = [q EXCEPT !.nread = q.nread + 1]
    BY <1>2, <1>3, <2>1, CountedAlike
  <2>3. q.nread + 1 = v
    BY <1>1, <1>2
  <2>4. short => a.p = [m.p EXCEPT !.nread = v] /\ a.p.errno = "OK"
    <3> HIDE DEF a
    <3>1. short => a.p = [q EXCEPT !.nread = v]
      BY <1>1, <1>2, <2>2, <2>3, ParserAssumption
    <3>2. short => a.p = [m.p EXCEPT !.nread = v]
      BY <1>2, <3>1
    <3>3. QED BY <1>1, <3>2 DEF IsParser
  <2>5. ~short => a.p.errno # "OK"
    BY <1>1, <1>2, <2>2, <2>3, ParserAssumption
  <2>6. QED BY <1>2, <1>3, <2>2, <2>4, <2>5 DEF Like
<1>5. /\ Turn(m, data) = t
      /\ Turn(n, one) = IF a.p.errno # "OK" THEN Ahead(a) ELSE Ahead(z)
  <2>1. Counted(m) = m
    BY <1>1 DEF Counted
  <2>2. Len(one) = 1 /\ one[1] = ch
    OBVIOUS
  <2> HIDE DEF one
  <2>3. QED BY <1>2, <1>3, <1>4, <2>1, <2>2 DEF Turn, AtUnit
<1>6. \A c : c.p.state = m.p.state =>
        \A d : OnUnit(c, d, ch) = IF m.p.state = "s_header_field" THEN HeaderField(c, ch)
                                  ELSE HeaderValue(c, ch)
  BY <1>1 DEF OnUnit, UrlNoSpace, UrlMayEnd, LoopStates
<1>7. ASSUME NEW c, IsRun(c), c.run = 0, c.skip = 0, ~c.left, c.at \in Int,
             c.p = [m.p EXCEPT !.nread = v], NEW d, ch = ch
      PROVE  Within(w, m) /\ (short /\ IS_HEADER_CHAR(ch) => Agrees(w, OnUnit(c, d, ch), m))
  <2>1. c.p.state = m.p.state
    BY <1>1, <1>7 DEF IsParser
  <2>2. CASE m.p.state = "s_header_field"
    <3>1. w = HeaderField(m, ch) /\ OnUnit(c, d, ch) = HeaderField(c, ch)
      BY <1>6, <2>1, <2>2
    <3>2. m.skip = 0
      BY <1>1, <2>2
    <3> HIDE DEF w, ch
    <3>3. QED BY <1>1, <1>7, <2>2, <3>1, <3>2, FieldInRun DEF v
  <2>3. CASE m.p.state = "s_header_value"
    <3>1. w = HeaderValue(m, ch) /\ OnUnit(c, d, ch) = HeaderValue(c, ch)
      BY <1>6, <2>1, <2>3
    <3>2. m.p.nread > 0 /\ m.at \in Int
      BY <1>1
    <3> HIDE DEF w, ch
    <3>3. QED BY <1>1, <1>7, <2>3, <3>1, <3>2, ValueInRun DEF v
  <2>4. QED BY <1>1, <2>2, <2>3 DEF LoopStates
<1>8. Within(w, m)
  <2> DEFINE c == [m EXCEPT !.p.nread = v, !.run = 0, !.skip = 0]
  <2>1. IsRun(c) /\ c.run = 0 /\ c.skip = 0 /\ ~c.left /\ c.at \in Int
        /\ c.p = [m.p EXCEPT !.nread = v]
    BY <1>1 DEF IsRun, IsParser
  <2> HIDE DEF c, w
  <2>2. QED BY <1>7, <2>1
<1>9. short /\ IS_HEADER_CHAR(ch) => Agrees(w, z, m)
  <2> HIDE DEF a, w, ch
  <2>1. a.at \in Int
    BY <1>4
  <2>2. QED BY <1>4, <1>7, <2>1
<1> HIDE DEF w, z, a, ch
<1>10. /\ Settled(t) /\ ~t.left /\ t.p = w.p /\ t.run = w.run
       /\ t.at = IF t.p.errno = "OK" THEN m.at + 1 ELSE m.at
  <2>1. IsRun(t) /\ t.p = w.p /\ t.run = w.run /\ t.skip = w.skip /\ ~t.left
        /\ t.at = IF t.p.errno = "OK" THEN m.at + 1 ELSE m.at
    BY <1>8 DEF Within, Ahead, IsRun
  <2> HIDE DEF t
  <2>2. ASSUME t.p.errno = "OK", t.skip # 0
        PROVE  t.run > 0 /\ t.skip \in Int /\ t.skip + t.run >= t.at
    <3>1. /\ t.run = m.run + 1 /\ t.at = m.at + 1
          /\ t.skip = m.at \/ (m.skip # 0 /\ t.skip = m.skip)
      BY <1>8, <2>1, <2>2 DEF Within
    <3>2. CASE t.skip = m.at
      BY <1>1, <3>1, <3>2
    <3>3. CASE m.skip # 0 /\ t.skip = m.skip
      BY <1>1, <3>1, <3>3
    <3>4. QED BY <3>1, <3>2, <3>3
  <2>3. QED BY <1>1, <1>8, <2>1, <2>2 DEF Within, Settled
<1>11. ~short /\ t.p.errno = "OK" => Lost(t)
  BY <1>1, <1>8, <1>10, ParserAssumption DEF Within, Lost, v
<1>12. Lost(m) => ~short
  BY <1>1, ParserAssumption DEF Lost, v
<1>13. ASSUME ~short PROVE Matches(t, Turn(n, one))
  <2>1. Turn(n, one).p.errno # "OK"
    BY <1>4, <1>5, <1>13 DEF Ahead
  <2> HIDE DEF t, short
  <2>2. QED BY <1>11, <1>13, <2>1 DEF Matches
<1>14. ASSUME short, IS_HEADER_CHAR(ch) PROVE Matches(t, Turn(n, one))
  <2>1. Agrees(w, z, m) /\ Turn(n, one) = Ahead(z)
    BY <1>4, <1>5, <1>9, <1>14
  <2>2. Ahead(z).p = z.p /\ (Ahead(z).left <=> z.left)
    BY <2>1 DEF Agrees, Ahead, IsRun
  <2> HIDE DEF t
  <2>3. CASE w.p.errno # "OK"
    BY <1>10, <2>1, <2>2, <2>3 DEF Agrees, Matches
  <2>4. CASE w.p.errno = "OK" /\ w.run = 0
    BY <1>10, <2>1, <2>2, <2>4 DEF Agrees, Matches, Brought, Lost
  <2>5. CASE w.p.errno = "OK" /\ w.run # 0
    <3>1. w.run = m.run + 1 /\ w.p.nread = m.p.nread
      BY <1>8, <2>5 DEF Within
    <3>2. ~Lost(t)
      BY <1>1, <1>10, <1>14, <3>1, ParserAssumption DEF Lost, v
    <3>3. Brought(t) = [w.p EXCEPT !.nread = m.p.nread + m.run]
      <4>1. ~(t.run < 2) /\ t.run - 1 = m.run
        BY <1>1, <1>10, <3>1
      <4>2. QED BY <1>10, <3>1, <4>1 DEF Brought
    <3>4. QED BY <1>10, <2>1, <2>2, <2>5, <3>2, <3>3 DEF Agrees, Matches
  <2>6. QED BY <2>3, <2>4, <2>5
<1>15. QED BY <1>5, <1>10, <1>11, <1>12, <1>13, <1>14 DEF n, q, ch

\* What k units of a body make of a parser: the rest of the body is as much
\* shorter, and behind its end the chunk or the message is done.
Shorter(p, k) == [p EXCEPT !.content_length = @ - k]

Eaten(p, k) ==
    LET q == Shorter(p, k) IN
    IF q.content_length # 0 THEN q
    ELSE IF p.state = "s_chunk_data" THEN [q EXCEPT !.state = "s_chunk_data_almost_done"]
    ELSE [q EXCEPT !.state = NEW_MESSAGE(p)]

EatenLeft(p, k) == p.content_length = k /\ p.state = "s_body_identity" /\ p.upgrade

\* In a body a turn takes what there is of it.
LEMMA TurnOnBody ==
    ASSUME NEW m, Settled(m), NEW data, Len(data) \in Nat, m.at \in 1 .. Len(data),
           ~m.left, m.p.errno = "OK", m.p.state \in DataStates,
           NEW k, k = ToRead(m, data)
    PROVE  /\ Settled(Turn(m, data)) /\ Turn(m, data).run = 0 /\ k \in 1 .. m.p.content_length
           /\ Turn(m, data).at = m.at + k /\ m.at + k <= Len(data) + 1
           /\ Turn(m, data).p.errno = "OK"
           /\ Turn(m, data).p = Eaten(m.p, k)
           /\ Turn(m, data).left <=> EatenLeft(m.p, k)
<1> DEFINE a == Mark(m)
           r == [a EXCEPT !.p.content_length = @ - k, !.at = @ + k - 1]
           q == Shorter(m.p, k)
<1>1. /\ IsRun(m) /\ IsParser(m.p) /\ Good(m.p) /\ m.run = 0 /\ m.skip = 0 /\ m.p.nread \in Nat
      /\ m.p.content_length \in Nat /\ m.p.content_length # 0
  BY DEF Settled, IsRun, Good, DataStates, LoopStates
<1>2. k \in 1 .. m.p.content_length /\ m.at + k <= Len(data) + 1
  BY <1>1 DEF ToRead, Lesser
<1>3. /\ IsRun(a) /\ a.p = m.p /\ a.at = m.at /\ a.run = 0 /\ a.skip = 0 /\ ~a.left
      /\ ToRead(a, data) = k
  BY <1>1 DEF Mark, IsRun, ToRead
<1> HIDE DEF a
<1>4. /\ IsParser(q) /\ q.content_length = m.p.content_length - k /\ q.state = m.p.state
      /\ q.errno = "OK" /\ q.nread = m.p.nread /\ q.upgrade = m.p.upgrade
      /\ q.http_major = m.p.http_major /\ q.http_minor = m.p.http_minor /\ q.flags = m.p.flags
  BY <1>1 DEF Shorter, IsParser
<1>5. IsRun(r) /\ r.p = q /\ r.at = m.at + k - 1 /\ r.run = 0 /\ r.skip = 0 /\ ~r.left
  BY <1>1, <1>3 DEF IsRun, Shorter, IsParser
<1>7. Counted(m) = m
  BY DEF Counted, BodyStates, DataStates
<1>8. Turn(m, data) = Ahead(OnUnit(m, data, data[m.at]))
  BY <1>7 DEF Turn, AtUnit
<1>9. CASE m.p.state = "s_chunk_data"
  <2>1. OnUnit(m, data, data[m.at]) =
          IF r.p.content_length = 0 THEN To(r, "s_chunk_data_almost_done") ELSE r
    BY <1>3, <1>9 DEF OnUnit, UrlNoSpace, UrlMayEnd, ChunkData, a
  <2> HIDE DEF r, q
  <2>2. QED
    BY <1>1, <1>2, <1>4, <1>5, <1>8, <1>9, <2>1
       DEF Ahead, To, Settled, IsRun, IsParser, Good, HeadStates, DataStates, Eaten, EatenLeft, q
<1>10. CASE m.p.state = "s_body_identity"
  <2>1. OnUnit(m, data, data[m.at]) =
          IF r.p.content_length = 0
          THEN MessageDone(OnBody(To(r, "s_message_done"), r.at)) ELSE r
    BY <1>3, <1>10 DEF OnUnit, UrlNoSpace, UrlMayEnd, BodyIdentity, a
  <2> HIDE DEF r
  <2>2. CASE q.content_length # 0
    <3> HIDE DEF q
    <3>1. QED
      BY <1>1, <1>2, <1>4, <1>5, <1>8, <1>10, <2>1, <2>2
         DEF Ahead, Settled, IsRun, IsParser, Good, HeadStates, DataStates, Eaten, EatenLeft, q
  <2>3. CASE q.content_length = 0
    <3> DEFINE t == MessageDone(OnBody(To(r, "s_message_done"), r.at))
    <3>1. NEW_MESSAGE([q EXCEPT !.state = "s_message_done"]) = NEW_MESSAGE(m.p)
      BY <1>4 DEF NEW_MESSAGE, http_should_keep_alive, IsParser
    <3>2. NEW_MESSAGE(m.p) \in {"s_start_req", "s_dead"}
      BY DEF NEW_MESSAGE
    <3>3. /\ IsRun(t) /\ t.at = m.at + k - 1 /\ t.run = 0 /\ t.skip = 0 /\ (t.left <=> q.upgrade)
          /\ t.p = [q EXCEPT !.state = NEW_MESSAGE(m.p)]
      <4> DEFINE u == OnBody(To(r, "s_message_done"), r.at)
      <4>1. /\ IsRun(u) /\ u.p = [q EXCEPT !.state = "s_message_done"]
            /\ u.at = m.at + k - 1 /\ u.run = 0 /\ u.skip = 0 /\ ~u.left /\ u.p.upgrade = q.upgrade
        BY <1>4, <1>5 DEF OnBody, To, IsRun, IsParser
      <4> HIDE DEF u, q
      <4>2. [[q EXCEPT !.state = "s_message_done"] EXCEPT !.state = NEW_MESSAGE(m.p)]
              = [q EXCEPT !.state = NEW_MESSAGE(m.p)]
        OBVIOUS
      <4>3. /\ IsRun(MessageDone(u)) /\ MessageDone(u).at = u.at
            /\ MessageDone(u).run = u.run /\ MessageDone(u).skip = u.skip
            /\ MessageDone(u).left = u.p.upgrade
            /\ MessageDone(u).p = [u.p EXCEPT !.state = NEW_MESSAGE(u.p)]
        BY <4>1 DEF MessageDone, OnMessageComplete, IsRun, IsParser
      <4>4. QED BY <3>1, <4>1, <4>2, <4>3 DEF u
    <3>4. Turn(m, data) = Ahead(t)
      BY <1>5, <1>8, <2>1, <2>3
    <3> HIDE DEF t, q
    <3>5. IsParser(t.p) /\ Good(t.p) /\ t.p.errno = "OK"
      BY <1>1, <1>4, <2>3, <3>2, <3>3 DEF IsParser, Good, HeadStates, DataStates
    <3>6. /\ Settled(Ahead(t)) /\ Ahead(t).run = 0 /\ Ahead(t).at = m.at + k
          /\ Ahead(t).p = t.p /\ Ahead(t).left = t.left
      <4>1. m.at + k - 1 + 1 = m.at + k
        BY <1>1, <1>2
      <4>2. Ahead(t) = [t EXCEPT !.at = @ + 1]
        BY <3>5 DEF Ahead
      <4>3. /\ IsRun(Ahead(t)) /\ Ahead(t).run = 0 /\ Ahead(t).at = m.at + k
            /\ Ahead(t).p = t.p /\ Ahead(t).left = t.left /\ Ahead(t).skip = 0
        BY <3>3, <4>1, <4>2 DEF IsRun
      <4>4. QED BY <3>5, <4>3 DEF Settled
    <3>7. t.p = Eaten(m.p, k)
      BY <1>10, <2>3, <3>3 DEF Eaten, q
    <3>8. t.left <=> EatenLeft(m.p, k)
      BY <1>1, <1>2, <1>4, <1>10, <2>3, <3>3 DEF EatenLeft
    <3>9. QED BY <1>2, <3>4, <3>5, <3>6, <3>7, <3>8
  <2>4. QED BY <2>2, <2>3
<1>11. QED BY <1>9, <1>10 DEF DataStates

\* Every set of numbers has a least one: this is how the proofs below go by
\* induction, with the least counterexample.
LEMMA Least ==
    ASSUME NEW T \in SUBSET Nat, T # {}
    PROVE  \E n \in T : \A m \in T : n <= m
<1> DEFINE R == {ss \in Nat \X Nat : ss[1] < ss[2]}
<1>1. IsWellFoundedOn(R, Nat)
  BY NatLessThanWellFounded DEF OpToRel
<1>2. PICK x \in T : \A y \in T : ~(<<y, x>> \in R)
  BY <1>1, WFMin
<1>3. \A y \in T : ~(y < x)
  BY <1>2
<1>4. QED BY <1>3

\* Taking k units and one more of a body is taking k + 1 of them.
LEMMA EatenOnward ==
    ASSUME NEW p, IsParser(p), Good(p), p.state \in DataStates,
           NEW k \in Nat, k < p.content_length
    PROVE  /\ IsParser(Eaten(p, k)) /\ Good(Eaten(p, k))
           /\ Eaten(p, k).state = p.state /\ Eaten(p, k).errno = p.errno
           /\ ~EatenLeft(p, k)
           /\ Eaten(Eaten(p, k), 1) = Eaten(p, k + 1)
           /\ EatenLeft(Eaten(p, k), 1) <=> EatenLeft(p, k + 1)
<1> DEFINE q == Shorter(p, k)
<1>1. p.content_length \in Nat
  BY DEF Good
<1>2. /\ IsParser(q) /\ q.content_length = p.content_length - k /\ q.state = p.state
      /\ q.errno = p.errno /\ q.nread = p.nread /\ q.upgrade = p.upgrade
      /\ q.http_major = p.http_major /\ q.http_minor = p.http_minor /\ q.flags = p.flags
  BY DEF Shorter, IsParser
<1>3. Eaten(p, k) = q
  BY <1>1, <1>2 DEF Eaten
<1>4. Shorter(q, 1) = Shorter(p, k + 1)
  <2>1. \A a, b : [[p EXCEPT !.content_length = a] EXCEPT !.content_length = b]
                    = [p EXCEPT !.content_length = b]
    OBVIOUS
  <2>2. q.content_length - 1 = p.content_length - (k + 1)
    BY <1>1, <1>2
  <2>3. QED BY <2>1, <2>2, <1>2 DEF Shorter
<1>5. NEW_MESSAGE(q) = NEW_MESSAGE(p)
  BY <1>2 DEF NEW_MESSAGE, http_should_keep_alive
<1> HIDE DEF q
<1>6. Eaten(q, 1) = Eaten(p, k + 1)
  BY <1>2, <1>4, <1>5 DEF Eaten
<1>7. Good(q)
  BY <1>1, <1>2 DEF Good
<1>8. (EatenLeft(q, 1) <=> EatenLeft(p, k + 1)) /\ ~EatenLeft(p, k)
  BY <1>1, <1>2 DEF EatenLeft
<1>9. QED BY <1>2, <1>3, <1>6, <1>7, <1>8

\* What the parser comes to unit by unit, the text being given to it in as many
\* runs as it has units.
Chain(g, text) == \A k \in 1 .. Len(text) : g[k] = One(g[k - 1], text[k])

\* Every character is one that a header may have.
Plain(text) == \A k \in 1 .. Len(text) : IS_HEADER_CHAR(text[k])

\* Units of a body, one by one, come to what all of them at once come to.
LEMMA ChainInBody ==
    ASSUME NEW g, NEW text, Len(text) \in Nat, Chain(g, text),
           NEW i \in Nat, NEW p, IsParser(p), Good(p), p.state \in DataStates, p.errno = "OK",
           g[i].p = p, ~g[i].left,
           NEW k \in Nat, k <= p.content_length, i + k <= Len(text), k # 0
    PROVE  g[i + k].p = Eaten(p, k) /\ (g[i + k].left <=> EatenLeft(p, k))
<1> DEFINE Right(j) == g[i + j].p = Eaten(p, j) /\ (g[i + j].left <=> EatenLeft(p, j))
           T == {j \in Nat : j # 0 /\ j <= k /\ ~Right(j)}
<1> SUFFICES ASSUME T # {} PROVE FALSE
  OBVIOUS
<1>1. PICK j \in T : \A l \in T : j <= l
  <2>1. T \in SUBSET Nat
    OBVIOUS
  <2> HIDE DEF T
  <2>2. QED BY <2>1, Least
<1>2. p.content_length \in Nat
  BY DEF Good
<1> DEFINE q == g[i + (j - 1)].p
<1>3. /\ ~g[i + (j - 1)].left /\ IsParser(q) /\ Good(q)
      /\ q.state \in DataStates /\ q.errno = "OK"
      /\ Eaten(q, 1) = Eaten(p, j) /\ (EatenLeft(q, 1) <=> EatenLeft(p, j))
  <2>1. CASE j = 1
    <3>1. /\ Eaten(p, 0).state = p.state /\ Eaten(Eaten(p, 0), 1) = Eaten(p, 1)
      BY <1>2, <2>1, EatenOnward
    <3>2. q = p
      BY <2>1
    <3>3. QED BY <2>1, <3>2
  <2>2. CASE j # 1
    <3>1. j - 1 \in Nat /\ j - 1 \notin T /\ j - 1 # 0 /\ j - 1 < p.content_length
      <4>1. j \in Nat /\ j # 0 /\ j <= k
        BY <1>1
      <4>2. j - 1 \in Nat /\ j - 1 # 0 /\ j - 1 < j /\ j - 1 < p.content_length
        BY <1>2, <2>2, <4>1
      <4>3. j - 1 \notin T
        BY <1>1, <4>1, <4>2
      <4>4. QED BY <4>2, <4>3
    <3>2. Right(j - 1)
      BY <1>1, <3>1
    <3>3. /\ IsParser(Eaten(p, j - 1)) /\ Good(Eaten(p, j - 1))
          /\ Eaten(p, j - 1).state = p.state /\ Eaten(p, j - 1).errno = p.errno
          /\ ~EatenLeft(p, j - 1)
          /\ Eaten(Eaten(p, j - 1), 1) = Eaten(p, (j - 1) + 1)
          /\ EatenLeft(Eaten(p, j - 1), 1) <=> EatenLeft(p, (j - 1) + 1)
      BY <3>1, EatenOnward
    <3>4. (j - 1) + 1 = j
      OBVIOUS
    <3>5. QED BY <3>2, <3>3, <3>4
  <2>3. QED BY <2>1, <2>2
<1> DEFINE ch == text[i + j]
           one == <<ch>>
           n == Enter(q)
<1>4. g[i + j] = Turn(n, one)
  <2>1. i + j \in 1 .. Len(text) /\ (i + j) - 1 = i + (j - 1)
    BY <1>1
  <2>2. g[i + j] = One(g[(i + j) - 1], text[i + j])
    BY <2>1 DEF Chain
  <2>3. QED BY <1>3, <2>1, <2>2 DEF One
<1>5. Len(one) = 1
  OBVIOUS
<1>6. /\ Settled(n) /\ n.p = q /\ n.at = 1 /\ ~n.left
  BY <1>3, Entered
<1>7. ToRead(n, one) = 1
  <2>1. q.content_length \in Nat /\ q.content_length # 0
    BY <1>3 DEF Good, DataStates
  <2>2. QED BY <1>5, <1>6, <2>1 DEF ToRead, Lesser
<1> HIDE DEF n, one, q
<1>8. Turn(n, one).p = Eaten(q, 1) /\ (Turn(n, one).left <=> EatenLeft(q, 1))
  <2>1. n.p.errno = "OK" /\ n.p.state \in DataStates /\ Len(one) \in Nat /\ n.at \in 1 .. Len(one)
    BY <1>3, <1>5, <1>6
  <2>2. Turn(n, one).p = Eaten(n.p, 1) /\ (Turn(n, one).left <=> EatenLeft(n.p, 1))
    BY <1>6, <1>7, <2>1, TurnOnBody
  <2>3. QED BY <1>6, <2>2
<1>9. Right(j)
  BY <1>3, <1>4, <1>8
<1>10. QED BY <1>1, <1>9

-----------------------------------------------------------------------------
\* A run over data has kept its place: with what it has not counted counted, what
\* it made of the units it left behind is what they come to one by one, and they
\* come to an error wherever it has found one, or will.
Follows(m, g, data) ==
    /\ Settled(m) /\ m.at \in 1 .. Len(data) + 1
    /\ m.left => m.p.errno = "OK"
    /\ m.p.errno # "OK" => m.at <= Len(data)
    /\ Plain(data) /\ Chain(g, data) =>
         Matches(m, g[IF m.p.errno = "OK" THEN m.at - 1 ELSE m.at])

Stopped(m, data) == m.at > Len(data) \/ m.left \/ m.p.errno # "OK"

\* A turn keeps the place, and takes a unit at least unless the run has stopped.
LEMMA TurnFollows ==
    ASSUME NEW m, NEW g, NEW data, Len(data) \in Nat, Follows(m, g, data)
    PROVE  /\ Follows(Turn(m, data), g, data)
           /\ Stopped(m, data) => Turn(m, data) = m
           /\ ~Stopped(m, data) => \/ Turn(m, data).at >= m.at + 1
                                   \/ Stopped(Turn(m, data), data)
<1> DEFINE t == Turn(m, data)
<1>1. CASE Stopped(m, data)
  BY <1>1 DEF Stopped, Turn
<1>2. CASE ~Stopped(m, data)
  <2>1. /\ Settled(m) /\ m.at \in 1 .. Len(data) /\ ~m.left /\ m.p.errno = "OK"
        /\ IsParser(m.p) /\ Good(m.p) /\ m.run \in Nat
        /\ m.run > 0 => m.p.state \in LoopStates
    BY <1>2 DEF Follows, Stopped, Settled, IsRun
  <2>2. Plain(data) /\ Chain(g, data) =>
          /\ IF Lost(m) THEN g[m.at - 1].p.errno # "OK"
             ELSE g[m.at - 1].p = Brought(m) /\ ~g[m.at - 1].left
          /\ IS_HEADER_CHAR(data[m.at]) /\ g[m.at] = One(g[m.at - 1], data[m.at])
    BY <2>1 DEF Follows, Matches, Plain, Chain
  <2>3. CASE m.p.state \notin DataStates
    <3>1. /\ Settled(t) /\ (t.left => t.p.errno = "OK")
          /\ t.at = IF t.p.errno = "OK" THEN m.at + 1 ELSE m.at
          /\ Plain(data) /\ Chain(g, data) => Matches(t, g[m.at])
      <4>1. CASE m.run = 0
        <5>1. m.p.state \in HeadStates
          BY <2>1, <2>3 DEF Good
        <5>2. /\ Settled(t) /\ (t.left => t.p.errno = "OK")
              /\ t.at = IF t.p.errno = "OK" THEN m.at + 1 ELSE m.at
              /\ Matches(t, Turn(Enter(m.p), <<data[m.at]>>))
          BY <2>1, <4>1, <5>1, TurnOnHead
        <5> HIDE DEF t
        <5>3. ~Lost(m) /\ Brought(m) = m.p
          BY <4>1 DEF Lost, Brought
        <5>4. Plain(data) /\ Chain(g, data) => g[m.at] = Turn(Enter(m.p), <<data[m.at]>>)
          BY <2>1, <2>2, <5>3 DEF One
        <5>5. QED BY <5>2, <5>4
      <4>2. CASE m.run > 0
        <5>1. /\ Settled(t) /\ ~t.left
              /\ t.at = IF t.p.errno = "OK" THEN m.at + 1 ELSE m.at
              /\ Lost(m) /\ t.p.errno = "OK" => Lost(t)
              /\ ~Lost(m) /\ IS_HEADER_CHAR(data[m.at]) =>
                   Matches(t, Turn(Enter(Brought(m)), <<data[m.at]>>))
          BY <2>1, <4>2, TurnInRun
        <5> HIDE DEF t
        <5>2. ASSUME Plain(data), Chain(g, data) PROVE Matches(t, g[m.at])
          <6>1. CASE Lost(m)
            <7>1. g[m.at].p.errno # "OK"
              BY <2>2, <5>2, <6>1 DEF One
            <7>2. QED BY <5>1, <6>1, <7>1 DEF Matches
          <6>2. CASE ~Lost(m)
            <7>1. Brought(m).errno = "OK"
              BY <2>1 DEF Brought, IsParser
            <7>2. g[m.at] = Turn(Enter(Brought(m)), <<data[m.at]>>)
              BY <2>2, <5>2, <6>2, <7>1 DEF One
            <7>3. QED BY <2>2, <5>1, <5>2, <6>2, <7>2
          <6>3. QED BY <6>1, <6>2
        <5>3. QED BY <5>1, <5>2
      <4>3. QED BY <2>1, <4>1, <4>2
    <3> HIDE DEF t
    <3>2. Follows(t, g, data)
      <4>1. (IF t.p.errno = "OK" THEN t.at - 1 ELSE t.at) = m.at
        BY <2>1, <3>1
      <4>2. t.at \in 1 .. Len(data) + 1 /\ (t.p.errno # "OK" => t.at <= Len(data))
        BY <2>1, <3>1
      <4>3. QED BY <3>1, <4>1, <4>2 DEF Follows
    <3>3. t.at >= m.at + 1 \/ Stopped(t, data)
      BY <2>1, <3>1 DEF Stopped
    <3>4. QED BY <1>2, <3>2, <3>3 DEF t
  <2>4. CASE m.p.state \in DataStates
    <3> DEFINE k == ToRead(m, data)
    <3>1. /\ Settled(t) /\ t.run = 0 /\ k \in 1 .. m.p.content_length
          /\ t.at = m.at + k /\ m.at + k <= Len(data) + 1
          /\ t.p.errno = "OK"
          /\ t.p = Eaten(m.p, k)
          /\ t.left <=> EatenLeft(m.p, k)
      <4> HIDE DEF k
      <4>1. k = ToRead(m, data)
        BY DEF k
      <4>2. QED BY <2>1, <2>4, <4>1, TurnOnBody
    <3> HIDE DEF t, k
    <3>2. m.p.content_length \in Nat /\ ~Lost(m) /\ Brought(m) = m.p
      BY <2>1, <2>4 DEF Good, Lost, Brought, LoopStates, DataStates
    <3>3. ASSUME Plain(data), Chain(g, data)
          PROVE  t.p = g[t.at - 1].p /\ (t.left <=> g[t.at - 1].left)
      <4> DEFINE i == m.at - 1
      <4>1. i \in Nat /\ g[i].p = m.p /\ ~g[i].left /\ k \in Nat /\ k <= m.p.content_length
            /\ i + k <= Len(data) /\ k # 0 /\ t.at - 1 = i + k
        BY <2>1, <2>2, <3>1, <3>2, <3>3
      <4> HIDE DEF i
      <4>2. g[i + k].p = Eaten(m.p, k) /\ (g[i + k].left <=> EatenLeft(m.p, k))
        BY <2>1, <2>4, <3>3, <4>1, ChainInBody
      <4>3. QED BY <3>1, <4>1, <4>2
    <3>4. ~Lost(t) /\ Brought(t) = t.p
      BY <3>1 DEF Lost, Brought
    <3>5. Follows(t, g, data)
      BY <2>1, <3>1, <3>3, <3>4 DEF Follows, Matches
    <3>6. t.at >= m.at + 1
      BY <2>1, <3>1
    <3>7. QED BY <1>2, <3>5, <3>6 DEF t
  <2>5. QED BY <2>3, <2>4
<1>3. QED BY <1>1, <1>2

\* The eight turns made at a time, the n-th element of the sequences that turns,
\* blocks of turns and single units make, and such a sequence h up to n.
Block(m, data) ==
    LET turns[i \in Nat] == IF i = 0 THEN m ELSE Turn(turns[i - 1], data)
    IN  IF m.at > Len(data) THEN m ELSE turns[8]

Made(kind, m, data, n) ==
    IF kind = "turn" THEN Turn(m, data) ELSE IF kind = "block" THEN Block(m, data)
    ELSE IF kind = "unit" THEN One(m, data[n]) ELSE IF kind = "join" THEN m \o data[n]
    ELSE 10 * m + unhex(data[n])

Makes(h, kind, start, data, n) ==
    h[0] = start /\ \A k \in 1 .. n : h[k] = Made(kind, h[k - 1], data, k)

MakesAll(f, kind, start, data) ==
    /\ f = [k \in Nat |-> f[k]] /\ f[0] = start
    /\ \A k \in Nat : k # 0 => f[k] = Made(kind, f[k - 1], data, k)

\* There is such a sequence ...
LEMMA MakesExists ==
    ASSUME NEW kind, NEW start, NEW data, NEW n \in Nat
    PROVE  \E h : Makes(h, kind, start, data, n)
<1> DEFINE T == {m \in Nat : ~ \E h : Makes(h, kind, start, data, m)}
<1> SUFFICES ASSUME T # {} PROVE FALSE
  OBVIOUS
<1>1. PICK m \in T : \A j \in T : m <= j
  <2>1. T \in SUBSET Nat
    OBVIOUS
  <2> HIDE DEF T
  <2>2. QED BY <2>1, Least
<1>2. m # 0
  <2>1. Makes([k \in {0} |-> start], kind, start, data, 0)
    BY DEF Makes
  <2>2. QED BY <2>1
<1>3. m - 1 \in Nat /\ m - 1 \notin T
  BY <1>1, <1>2
<1>4. PICK h : Makes(h, kind, start, data, m - 1)
  BY <1>3
<1> DEFINE g == [k \in 0 .. m |-> IF k = m THEN Made(kind, h[m - 1], data, m) ELSE h[k]]
<1>5. g[0] = start
  BY <1>2, <1>4 DEF Makes
<1>6. \A k \in 1 .. m : g[k] = Made(kind, g[k - 1], data, k)
  BY <1>2, <1>4 DEF Makes
<1>7. Makes(g, kind, start, data, m)
  BY <1>5, <1>6 DEF Makes
<1>8. QED BY <1>7

\* ... and only one, as far as it goes, ...
LEMMA MakesUnique ==
    ASSUME NEW kind, NEW start, NEW data, NEW m \in Nat, NEW n \in Nat, m <= n, NEW g, NEW h,
           Makes(g, kind, start, data, m), Makes(h, kind, start, data, n)
    PROVE  g[m] = h[m]
<1> DEFINE T == {k \in Nat : k <= m /\ g[k] # h[k]}
<1> SUFFICES ASSUME T # {} PROVE FALSE
  OBVIOUS
<1>1. PICK k \in T : \A j \in T : k <= j
  <2>1. T \in SUBSET Nat
    OBVIOUS
  <2> HIDE DEF T
  <2>2. QED BY <2>1, Least
<1>2. k # 0
  BY <1>1 DEF Makes
<1>3. k - 1 \in Nat /\ g[k - 1] = h[k - 1]
  BY <1>1, <1>2
<1>4. g[k] = Made(kind, g[k - 1], data, k) /\ h[k] = Made(kind, h[k - 1], data, k)
  BY <1>1, <1>2 DEF Makes
<1>5. QED BY <1>1, <1>3, <1>4

\* ... so that the recursive definitions have a meaning.
LEMMA MakesRec ==
    ASSUME NEW kind, NEW start, NEW data
    PROVE  \E f : MakesAll(f, kind, start, data)
<1> DEFINE H(n) == CHOOSE h : Makes(h, kind, start, data, n)
           F == [n \in Nat |-> H(n)[n]]
<1>1. \A n \in Nat : Makes(H(n), kind, start, data, n)
  BY MakesExists
<1>2. F[0] = start
  BY <1>1 DEF Makes
<1>3. ASSUME NEW k \in Nat, k # 0 PROVE F[k] = Made(kind, F[k - 1], data, k)
  <2>1. /\ k - 1 \in Nat /\ Makes(H(k), kind, start, data, k)
        /\ Makes(H(k - 1), kind, start, data, k - 1)
    BY <1>1, <1>3
  <2>2. H(k)[k - 1] = H(k - 1)[k - 1]
    <3> HIDE DEF H
    <3>1. QED BY <2>1, MakesUnique
  <2>3. H(k)[k] = Made(kind, H(k)[k - 1], data, k)
    <3> HIDE DEF H
    <3>1. QED BY <1>3, <2>1 DEF Makes
  <2>4. QED BY <2>1, <2>2, <2>3
<1>4. F = [k \in Nat |-> F[k]]
  OBVIOUS
<1> HIDE DEF F
<1>5. MakesAll(F, kind, start, data)
  BY <1>2, <1>3, <1>4 DEF MakesAll
<1>6. QED BY <1>5

Turns(f, m, data) ==
    /\ f[0] = m /\ \A i \in Nat : i # 0 => f[i] = Turn(f[i - 1], data)
    /\ Block(m, data) = IF m.at > Len(data) THEN m ELSE f[8]

Blocks(f, m, data) ==
    /\ f[0] = Block(m, data) /\ \A b \in Nat : b # 0 => f[b] = Block(f[b - 1], data)
    /\ Loop(m, data) = f[Len(data) \div 8]

\* What eight turns are: turns one after the other, the first of them from m.
LEMMA BlockIs ==
    ASSUME NEW m, NEW data
    PROVE  \E f : Turns(f, m, data)
<1> DEFINE Is(f) == f = [i \in Nat |-> IF i = 0 THEN m ELSE Turn(f[i - 1], data)]
           turns == CHOOSE f : Is(f)
<1>1. \E f : Is(f)
  <2>1. PICK f : MakesAll(f, "turn", m, data)
    BY MakesRec
  <2>2. \A i \in Nat : f[i] = IF i = 0 THEN m ELSE Turn(f[i - 1], data)
    BY <2>1 DEF MakesAll, Made
  <2>3. Is(f)
    BY <2>1, <2>2 DEF MakesAll
  <2>4. QED BY <2>3
<1>2. Is(turns)
  <2> HIDE DEF Is
  <2>1. QED BY <1>1
<1>3. Block(m, data) = IF m.at > Len(data) THEN m ELSE turns[8]
  BY DEF Block
<1>4. turns[0] = m /\ \A i \in Nat : i # 0 => turns[i] = Turn(turns[i - 1], data)
  <2> HIDE DEF turns
  <2>1. QED BY <1>2
<1> HIDE DEF turns
<1>5. Turns(turns, m, data)
  BY <1>3, <1>4 DEF Turns
<1>6. QED BY <1>5

\* What the loop is: such blocks one after the other.
LEMMA LoopIs ==
    ASSUME NEW start, NEW data
    PROVE  \E f : Blocks(f, start, data)
<1> DEFINE Is(f) == f = [b \in Nat |-> Block(IF b = 0 THEN start ELSE f[b - 1], data)]
           run == CHOOSE f : Is(f)
<1>1. \E f : Is(f)
  <2>1. PICK f : MakesAll(f, "block", Block(start, data), data)
    BY MakesRec
  <2>2. \A b \in Nat : f[b] = Block(IF b = 0 THEN start ELSE f[b - 1], data)
    BY <2>1 DEF MakesAll, Made
  <2>3. Is(f)
    BY <2>1, <2>2 DEF MakesAll
  <2>4. QED BY <2>3
<1>2. Is(run)
  <2> HIDE DEF Is
  <2>1. QED BY <1>1
<1>3. Loop(start, data) = run[Len(data) \div 8]
  BY DEF Loop, Block
<1>4. run[0] = Block(start, data) /\ \A b \in Nat : b # 0 => run[b] = Block(run[b - 1], data)
  <2> HIDE DEF run
  <2>1. QED BY <1>2
<1> HIDE DEF run
<1>5. Blocks(run, start, data)
  BY <1>3, <1>4 DEF Blocks
<1>6. QED BY <1>5

\* A block keeps the place, and takes eight units at least unless the run stops.
LEMMA BlockFollows ==
    ASSUME NEW m, NEW g, NEW data, Len(data) \in Nat, Follows(m, g, data)
    PROVE  /\ Follows(Block(m, data), g, data)
           /\ Stopped(Block(m, data), data) \/ Block(m, data).at >= m.at + 8
<1>0. PICK f : Turns(f, m, data)
  BY BlockIs
<1>1. /\ f[0] = m /\ \A i \in Nat : i # 0 => f[i] = Turn(f[i - 1], data)
      /\ Block(m, data) = IF m.at > Len(data) THEN m ELSE f[8]
  BY <1>0 DEF Turns
<1> DEFINE Right(i) == /\ Follows(f[i], g, data)
                       /\ Stopped(f[i], data) \/ f[i].at >= m.at + i
           T == {i \in Nat : ~Right(i)}
<1>2. m.at \in Nat
  BY DEF Follows
<1>3. \A i \in Nat : Right(i)
  <2> SUFFICES ASSUME T # {} PROVE FALSE
    OBVIOUS
  <2>1. PICK i \in T : \A l \in T : i <= l
    <3>1. T \in SUBSET Nat
      OBVIOUS
    <3> HIDE DEF T
    <3>2. QED BY <3>1, Least
  <2>2. i # 0
    <3>1. Right(0)
      BY <1>1, <1>2
    <3>2. QED BY <2>1, <3>1
  <2>3. i - 1 \in Nat /\ i - 1 \notin T
    BY <2>1, <2>2
  <2>4. Right(i - 1)
    BY <2>3
  <2>5. f[i] = Turn(f[i - 1], data)
    BY <1>1, <2>1, <2>2
  <2>6. /\ Follows(f[i], g, data)
        /\ Stopped(f[i - 1], data) => f[i] = f[i - 1]
        /\ ~Stopped(f[i - 1], data) => f[i].at >= f[i - 1].at + 1 \/ Stopped(f[i], data)
    BY <2>4, <2>5, TurnFollows
  <2>7. f[i].at \in Nat /\ f[i - 1].at \in Nat
    BY <2>4, <2>6 DEF Follows
  <2>8. Right(i)
    <3>1. i \in Nat
      BY <2>1
    <3>2. CASE Stopped(f[i - 1], data)
      BY <2>6, <3>2
    <3>3. CASE ~Stopped(f[i - 1], data)
      <4>1. f[i - 1].at >= m.at + (i - 1)
        BY <2>4, <3>3
      <4>2. f[i].at >= f[i - 1].at + 1 \/ Stopped(f[i], data)
        BY <2>6, <3>3
      <4>3. f[i].at >= f[i - 1].at + 1 => f[i].at >= m.at + i
        BY <1>2, <2>7, <3>1, <4>1
      <4>4. QED BY <2>6, <4>2, <4>3
    <3>4. QED BY <3>2, <3>3
  <2>9. QED BY <2>1, <2>8
<1>4. CASE m.at > Len(data)
  BY <1>1, <1>4 DEF Stopped
<1>5. CASE ~(m.at > Len(data))
  BY <1>1, <1>3, <1>5
<1>6. QED BY <1>4, <1>5

\* A run that has stopped stays as it is.
LEMMA BlockStays ==
    ASSUME NEW m, NEW g, NEW data, Len(data) \in Nat, Follows(m, g, data), Stopped(m, data)
    PROVE  Block(m, data) = m
<1>0. PICK f : Turns(f, m, data)
  BY BlockIs
<1>1. /\ f[0] = m /\ \A i \in Nat : i # 0 => f[i] = Turn(f[i - 1], data)
      /\ Block(m, data) = IF m.at > Len(data) THEN m ELSE f[8]
  BY <1>0 DEF Turns
<1>2. Turn(m, data) = m
  BY DEF Turn, Stopped
<1>3. f[1] = m /\ f[2] = m /\ f[3] = m /\ f[4] = m
  BY <1>1, <1>2
<1>4. f[5] = m /\ f[6] = m /\ f[7] = m /\ f[8] = m
  BY <1>1, <1>2, <1>3
<1>5. QED BY <1>1, <1>4

\* The loop keeps the place, and it has turns enough: it ends only where the
\* run stops.
LEMMA LoopFollows ==
    ASSUME NEW m, NEW g, NEW data, Len(data) \in Nat, Follows(m, g, data)
    PROVE  Follows(Loop(m, data), g, data) /\ Stopped(Loop(m, data), data)
<1>0. PICK f : Blocks(f, m, data)
  BY LoopIs
<1>1. /\ f[0] = Block(m, data)
      /\ \A b \in Nat : b # 0 => f[b] = Block(f[b - 1], data)
      /\ Loop(m, data) = f[Len(data) \div 8]
  BY <1>0 DEF Blocks
<1> DEFINE Right(b) == /\ Follows(f[b], g, data)
                       /\ Stopped(f[b], data) \/ f[b].at >= 8 * b + 9
           T == {b \in Nat : ~Right(b)}
<1>2. \A b \in Nat : Right(b)
  <2> SUFFICES ASSUME T # {} PROVE FALSE
    OBVIOUS
  <2>1. PICK b \in T : \A l \in T : b <= l
    <3>1. T \in SUBSET Nat
      OBVIOUS
    <3> HIDE DEF T
    <3>2. QED BY <3>1, Least
  <2>2. CASE b = 0
    <3>1. m.at \in Nat /\ m.at >= 1
      BY DEF Follows
    <3>2. /\ Follows(f[0], g, data)
          /\ Stopped(f[0], data) \/ f[0].at >= m.at + 8
      BY <1>1, BlockFollows
    <3>3. f[0].at \in Nat
      BY <3>2 DEF Follows
    <3>4. QED BY <2>1, <2>2, <3>1, <3>2, <3>3
  <2>3. CASE b # 0
    <3>1. b - 1 \in Nat /\ b - 1 \notin T
      BY <2>1, <2>3
    <3>2. Right(b - 1)
      BY <3>1
    <3>3. f[b] = Block(f[b - 1], data)
      BY <1>1, <2>1, <2>3
    <3>4. /\ Follows(f[b], g, data)
          /\ Stopped(f[b], data) \/ f[b].at >= f[b - 1].at + 8
      BY <3>2, <3>3, BlockFollows
    <3>5. Stopped(f[b - 1], data) => Stopped(f[b], data)
      BY <3>2, <3>3, BlockStays
    <3>6. f[b].at \in Nat /\ f[b - 1].at \in Nat
      BY <3>2, <3>4 DEF Follows
    <3>7. Right(b)
      <4>1. b \in Nat
        BY <2>1
      <4>2. CASE Stopped(f[b - 1], data)
        BY <3>4, <3>5, <4>2
      <4>3. CASE ~Stopped(f[b - 1], data)
        <5>1. f[b - 1].at >= 8 * (b - 1) + 9
          BY <3>2, <4>3
        <5>2. \A u, w, c \in Nat : u >= 8 * (c - 1) + 9 /\ w >= u + 8 => w >= 8 * c + 9
          OBVIOUS
        <5>3. f[b].at >= f[b - 1].at + 8 => f[b].at >= 8 * b + 9
          BY <3>6, <4>1, <5>1, <5>2
        <5>4. QED BY <3>4, <5>3
      <4>4. QED BY <4>2, <4>3
    <3>8. QED BY <2>1, <3>7
  <2>4. QED BY <2>2, <2>3
<1>3. Len(data) \div 8 \in Nat /\ 8 * (Len(data) \div 8) + 9 > Len(data)
  OBVIOUS
<1> DEFINE l == Len(data) \div 8
<1>4. Right(l)
  BY <1>2, <1>3
<1>5. f[l].at \in Nat
  BY <1>4 DEF Follows
<1>6. Follows(f[l], g, data) /\ Stopped(f[l], data)
  BY <1>3, <1>4, <1>5 DEF Stopped
<1> HIDE DEF Right
<1>7. QED BY <1>1, <1>6

\* Behind the place where it stops, the parser stays as it is.
LEMMA ChainStalls ==
    ASSUME NEW g, NEW text, Len(text) \in Nat, Chain(g, text), NEW j \in Nat,
           g[j].left \/ g[j].p.errno # "OK",
           NEW k \in Nat, j <= k, k <= Len(text)
    PROVE  g[k] = g[j]
<1> DEFINE T == {i \in Nat : j <= i /\ i <= k /\ g[i] # g[j]}
<1> SUFFICES ASSUME T # {} PROVE FALSE
  OBVIOUS
<1>1. PICK i \in T : \A l \in T : i <= l
  <2>1. T \in SUBSET Nat
    OBVIOUS
  <2> HIDE DEF T
  <2>2. QED BY <2>1, Least
<1>2. i # j
  BY <1>1
<1>3. i - 1 \in Nat /\ i - 1 >= j /\ i - 1 \notin T
  BY <1>1, <1>2
<1>4. g[i - 1] = g[j]
  BY <1>1, <1>3
<1>5. g[i] = One(g[i - 1], text[i])
  BY <1>1, <1>3 DEF Chain
<1>6. g[i] = g[j]
  BY <1>4, <1>5 DEF One
<1>7. QED BY <1>1, <1>6

\* At the end of data the loop over a name or a value is left, and all of it counted.
LEMMA CountLastIs ==
    ASSUME NEW m, Settled(m), NEW data, Len(data) \in Nat, Len(data) # 0,
           m.at \in 1 .. Len(data) + 1, m.left => m.p.errno = "OK",
           NEW c, c = CountLast(m, data)
    PROVE  /\ IsRun(c) /\ Good(c.p) /\ c.at \in 1 .. Len(data) + 1 /\ (c.left => c.p.errno = "OK")
           /\ IF m.p.errno = "OK" /\ ~Lost(m)
              THEN c.p = Brought(m) /\ c.p.errno = "OK" /\ c.at = m.at /\ c.left = m.left
              ELSE c.p.errno # "OK"
<1> DEFINE n == Count(m, m.run - 1)
<1>1. /\ IsRun(m) /\ IsParser(m.p) /\ Good(m.p) /\ m.run \in Nat
      /\ m.p.errno = "OK" /\ m.run > 0 => m.p.nread \in 1 .. HTTP_MAX_HEADER_SIZE /\ ~m.left
  BY DEF Settled, IsRun
<1>2. CASE m.p.errno # "OK" \/ m.run < 2
  <2>1. c = m
    BY <1>2 DEF CountLast
  <2>2. m.p.errno = "OK" => ~Lost(m) /\ Brought(m) = m.p
    BY <1>1, <1>2, ParserAssumption DEF Lost, Brought
  <2>3. QED BY <1>1, <2>1, <2>2
<1>3. CASE m.p.errno = "OK" /\ ~(m.run < 2)
  <2> DEFINE y == m.p.nread + (m.run - 1)
  <2>1. y \in Nat /\ ~m.left /\ (Lost(m) <=> y > HTTP_MAX_HEADER_SIZE)
    BY <1>1, <1>3, ParserAssumption DEF Lost
  <2>2. Brought(m) = [m.p EXCEPT !.nread = y]
    BY <1>3 DEF Brought
  <2> HIDE DEF y
  <2>3. /\ IsRun(n) /\ Good(n.p) /\ n.at = m.at /\ n.left = m.left
        /\ IF y > HTTP_MAX_HEADER_SIZE THEN n.p.errno = "HEADER_OVERFLOW"
           ELSE n.p = [m.p EXCEPT !.nread = y]
    BY <1>1, <2>1 DEF Count, Fail, IsRun, IsParser, Good, y
  <2>4. c = IF n.p.errno = "OK" THEN n ELSE [n EXCEPT !.at = Len(data)]
    BY <1>3 DEF CountLast
  <2> HIDE DEF n
  <2>5. CASE Lost(m)
    BY <2>1, <2>3, <2>4, <2>5 DEF IsRun
  <2>6. CASE ~Lost(m)
    <3>1. n.p.errno = "OK"
      BY <1>1, <1>3, <2>1, <2>3, <2>6 DEF IsParser
    <3>2. QED BY <1>3, <2>1, <2>2, <2>3, <2>4, <2>6, <3>1
  <2>7. QED BY <2>5, <2>6
<1>4. QED BY <1>2, <1>3

\* One call of http_parser_execute over some data: the parser is left between two
\* units, no more than the data is parsed, and if no character is one a header may
\* not have, the parser has come to what the units come to one by one, or to an error
\* as they do.
LEMMA ExecuteFollows ==
    ASSUME NEW p, IsParser(p), Good(p), p.errno = "OK",
           NEW data, Len(data) \in Nat, Len(data) # 0, data # <<>>, NEW g,
           NEW x, x = http_parser_execute(p, data)
    PROVE  /\ IsParser(x.p) /\ Good(x.p) /\ x.parsed \in 0 .. Len(data)
           /\ x.left => x.p.errno = "OK"
           /\ g[0].p = p /\ ~g[0].left /\ Plain(data) /\ Chain(g, data) =>
                /\ IF x.p.errno = "OK"
                   THEN x.p = g[Len(data)].p /\ (x.left <=> g[Len(data)].left)
                   ELSE g[Len(data)].p.errno # "OK"
                /\ x.left => x.p = g[x.parsed].p /\ g[x.parsed].left
<1> DEFINE e == Enter(p)
           m == Loop(e, data)
           c == CountLast(m, data)
           n == LeftOver(c, data)
<1>1. Settled(e) /\ e.p = p /\ e.at = 1 /\ e.run = 0 /\ ~e.left
  BY Entered
<1> HIDE DEF e
<1>2. x = Returned(n)
  BY DEF http_parser_execute, e
<1> HIDE DEF m
<1>3. /\ n.p = c.p /\ n.at = c.at /\ (n.left <=> c.left)
  BY DEF LeftOver, OnBody
<1>4. x.p = c.p /\ x.parsed = c.at - 1 /\ (x.left <=> c.left)
  BY <1>2, <1>3 DEF Returned, Result
<1>5. \A f : f[0].p = p /\ ~f[0].left => Follows(m, f, data) /\ Stopped(m, data)
  <2>1. ASSUME NEW f, f[0].p = p, ~f[0].left PROVE Follows(e, f, data)
    BY <1>1, <2>1 DEF Follows, Matches, Lost, Brought
  <2>2. QED BY <2>1, LoopFollows DEF m
<1>6. PICK f : f[0].p = p /\ ~f[0].left
  <2>1. [k \in {0} |-> e][0] = e
    OBVIOUS
  <2>2. QED BY <1>1, <2>1
<1>7. Follows(m, f, data) /\ Stopped(m, data)
  BY <1>5, <1>6
<1>8. /\ Settled(m) /\ m.at \in 1 .. Len(data) + 1 /\ (m.left => m.p.errno = "OK")
      /\ m.p.errno # "OK" => m.at <= Len(data)
  BY <1>7 DEF Follows
<1>9. /\ IsRun(c) /\ Good(c.p) /\ c.at \in 1 .. Len(data) + 1 /\ (c.left => c.p.errno = "OK")
      /\ IF m.p.errno = "OK" /\ ~Lost(m)
         THEN c.p = Brought(m) /\ c.p.errno = "OK" /\ c.at = m.at /\ c.left = m.left
         ELSE c.p.errno # "OK"
  BY <1>8, CountLastIs
<1> HIDE DEF c, n
<1>10. ASSUME g[0].p = p, ~g[0].left, Plain(data), Chain(g, data)
       PROVE  /\ IF c.p.errno = "OK"
                 THEN c.p = g[Len(data)].p /\ (c.left <=> g[Len(data)].left)
                 ELSE g[Len(data)].p.errno # "OK"
              /\ c.left => c.p = g[c.at - 1].p /\ g[c.at - 1].left
  <2> DEFINE i == IF m.p.errno = "OK" THEN m.at - 1 ELSE m.at
  <2>1. Matches(m, g[i])
    BY <1>5, <1>10 DEF Follows
  <2>2. i \in Nat /\ i <= Len(data)
    BY <1>8
  <2>3. g[i].left \/ g[i].p.errno # "OK" => g[Len(data)] = g[i]
    <3> HIDE DEF i
    <3>1. QED BY <1>10, <2>2, ChainStalls
  <2>4. CASE m.p.errno = "OK" /\ ~Lost(m)
    <3>1. /\ c.p = g[i].p /\ (c.left <=> g[i].left) /\ i = c.at - 1 /\ c.p.errno = "OK"
          /\ m.at = c.at /\ (m.left <=> c.left)
      BY <1>9, <2>1, <2>4 DEF Matches
    <3>2. g[Len(data)] = g[i]
      <4>1. CASE c.left
        BY <2>3, <3>1, <4>1
      <4>2. CASE ~c.left
        BY <1>7, <1>8, <2>4, <3>1, <4>2 DEF Stopped
      <4>3. QED BY <4>1, <4>2
    <3> HIDE DEF i
    <3>3. QED BY <3>1, <3>2
  <2>5. CASE ~(m.p.errno = "OK" /\ ~Lost(m))
    <3>1. c.p.errno # "OK" /\ ~c.left /\ g[i].p.errno # "OK"
      BY <1>9, <2>1, <2>5 DEF Matches
    <3> HIDE DEF i
    <3>2. QED BY <2>3, <3>1
  <2>6. QED BY <2>4, <2>5
<1>11. c.at - 1 \in 0 .. Len(data) /\ IsParser(c.p)
  BY <1>9 DEF IsRun
<1>12. QED BY <1>4, <1>9, <1>10, <1>11

-----------------------------------------------------------------------------
\* Sequences joined are a sequence.
LEMMA FlattenIsSeq ==
    ASSUME NEW S, NEW ss \in Seq(Seq(S))
    PROVE  FlattenSeq(ss) \in Seq(S)
<1> DEFINE n == Len(ss)
           Is(f) == f = [i \in 1 .. n |-> IF i = 1 THEN ss[i] ELSE f[i - 1] \o ss[i]]
           flatten == CHOOSE f : Is(f)
<1>1. n \in Nat /\ \A i \in 1 .. n : ss[i] \in Seq(S)
  OBVIOUS
<1>2. CASE n = 0
  BY <1>2 DEF FlattenSeq
<1>3. CASE n # 0
  <2>1. FlattenSeq(ss) = flatten[n]
    BY <1>3 DEF FlattenSeq
  <2>2. \E f : Is(f)
    <3>1. PICK f : MakesAll(f, "join", <<>>, ss)
      BY MakesRec
    <3> DEFINE g == [i \in 1 .. n |-> f[i]]
    <3>2. \A i \in Nat : i # 0 => f[i] = f[i - 1] \o ss[i]
      BY <3>1 DEF MakesAll, Made
    <3>3. f[1] = ss[1]
      <4>1. f[0] = <<>>
        BY <3>1 DEF MakesAll
      <4>2. f[1] = <<>> \o ss[1]
        <5>1. 1 \in Nat /\ 1 # 0 /\ 1 - 1 = 0
          OBVIOUS
        <5>2. f[1] = f[1 - 1] \o ss[1]
          BY <3>2, <5>1, Zenon
        <5>3. QED BY <4>1, <5>1, <5>2, Zenon
      <4>3. ss[1] \in Seq(S)
        BY <1>1, <1>3
      <4>4. <<>> \o ss[1] = ss[1]
        BY <4>3
      <4>5. QED BY <4>1, <4>2, <4>4
    <3>4. \A i \in 1 .. n : f[i] = IF i = 1 THEN ss[i] ELSE g[i - 1] \o ss[i]
      <4>1. \A i \in 1 .. n : i # 1 => i - 1 \in 1 .. n /\ i \in Nat
        BY <1>1
      <4>2. \A i \in 1 .. n : g[i] = f[i]
        OBVIOUS
      <4>3. \A i \in 1 .. n : i # 0
        BY <1>1
      <4> HIDE DEF g
      <4>4. QED BY <3>2, <3>3, <4>1, <4>2, <4>3, Zenon
    <3>5. g = [i \in 1 .. n |-> IF i = 1 THEN ss[i] ELSE g[i - 1] \o ss[i]]
      <4> DEFINE h == [i \in 1 .. n |-> IF i = 1 THEN ss[i] ELSE g[i - 1] \o ss[i]]
      <4>1. \A i \in 1 .. n : f[i] = h[i]
        BY <3>4
      <4>2. h = [i \in 1 .. n |-> h[i]]
        OBVIOUS
      <4> HIDE DEF h
      <4>3. g = h
        BY <4>1, <4>2
      <4>4. QED BY <4>3 DEF h
    <3>6. Is(g)
      BY <3>5
    <3>7. QED BY <3>6
  <2>3. Is(flatten)
    <3> HIDE DEF Is
    <3>1. QED BY <2>2
  <2>4. \A i \in 1 .. n : flatten[i] = IF i = 1 THEN ss[i] ELSE flatten[i - 1] \o ss[i]
    <3> HIDE DEF flatten
    <3>1. QED BY <2>3
  <2> HIDE DEF flatten, Is
  <2> DEFINE T == {i \in Nat : i \in 1 .. n /\ flatten[i] \notin Seq(S)}
  <2>5. T = {}
    <3> SUFFICES ASSUME T # {} PROVE FALSE
      OBVIOUS
    <3>1. PICK i \in T : \A l \in T : i <= l
      <4>1. T \in SUBSET Nat
        OBVIOUS
      <4> HIDE DEF T
      <4>2. QED BY <4>1, Least
    <3>2. i # 1
      BY <1>1, <2>4, <3>1
    <3>3. i - 1 \in 1 .. n /\ i - 1 \notin T
      BY <1>1, <3>1, <3>2
    <3>4. i \in 1 .. n /\ flatten[i] \notin Seq(S) /\ flatten[i - 1] \in Seq(S)
      BY <1>1, <3>1, <3>3
    <3> HIDE DEF T, n
    <3>5. flatten[i] = flatten[i - 1] \o ss[i] /\ ss[i] \in Seq(S)
      BY <1>1, <2>4, <3>2, <3>4
    <3>6. flatten[i - 1] \o ss[i] \in Seq(S)
      BY <3>4, <3>5
    <3>7. QED BY <3>4, <3>5, <3>6
  <2>6. n \in 1 .. n /\ n \in Nat
    BY <1>1, <1>3
  <2>7. QED BY <2>1, <2>5, <2>6
<1>4. QED BY <1>2, <1>3

\* The number a value stands for is one.
LEMMA NumberIs ==
    ASSUME NEW v \in Seq(Int), \A i \in DOMAIN v : IS_NUM(v[i])
    PROVE  Number(v, 10) \in Nat
<1> DEFINE n == Len(v)
           Is(f) == f = [i \in 0 .. n |-> IF i = 0 THEN 0 ELSE 10 * f[i - 1] + unhex(v[i])]
           value == CHOOSE f : Is(f)
<1>1. n \in Nat /\ \A i \in 1 .. n : unhex(v[i]) \in Nat
  <2>1. \A i \in 1 .. n : IS_NUM(v[i])
    OBVIOUS
  <2>2. \A c : IS_NUM(c) => unhex(c) \in Nat
    <3> SUFFICES ASSUME NEW c, IS_NUM(c) PROVE unhex(c) \in Nat
      OBVIOUS
    <3>1. c \in 48 .. 57
      BY DEF IS_NUM
    <3>2. c \in Int /\ c - 48 \in Nat /\ c \notin 65 .. 70 /\ c \notin 97 .. 102
      BY <3>1
    <3>3. unhex(c) = c - 48
      BY <3>1, <3>2, Zenon DEF unhex
    <3>4. QED BY <3>2, <3>3
  <2>3. \A i \in 1 .. n : unhex(v[i]) \in Nat
    <3> HIDE DEF n
    <3>1. QED BY <2>1, <2>2
  <2>4. QED BY <2>3
<1>2. Number(v, 10) = value[n]
  BY DEF Number
<1>3. \E f : Is(f)
  <2>1. PICK f : MakesAll(f, "number", 0, v)
    BY MakesRec
  <2> DEFINE g == [i \in 0 .. n |-> f[i]]
             h == [i \in 0 .. n |-> IF i = 0 THEN 0 ELSE 10 * g[i - 1] + unhex(v[i])]
  <2>2. f[0] = 0 /\ \A i \in Nat : i # 0 => f[i] = 10 * f[i - 1] + unhex(v[i])
    BY <2>1 DEF MakesAll, Made
  <2>3. \A i \in 0 .. n : f[i] = h[i]
    <3>1. \A i \in 0 .. n : i # 0 => i - 1 \in 0 .. n /\ i \in Nat
      BY <1>1
    <3>2. \A i \in 0 .. n : g[i] = f[i]
      OBVIOUS
    <3>3. \A i \in 0 .. n : h[i] = IF i = 0 THEN 0 ELSE 10 * g[i - 1] + unhex(v[i])
      OBVIOUS
    <3> HIDE DEF g, h, n
    <3>4. QED BY <2>2, <3>1, <3>2, <3>3
  <2>4. h = [i \in 0 .. n |-> h[i]]
    OBVIOUS
  <2>5. g = h
    <3> HIDE DEF h
    <3>1. QED BY <2>3, <2>4
  <2>6. Is(g)
    BY <2>5
  <2>7. QED BY <2>6
<1>4. Is(value)
  <2> HIDE DEF Is
  <2>1. QED BY <1>3
<1>5. \A i \in 0 .. n : value[i] = IF i = 0 THEN 0 ELSE 10 * value[i - 1] + unhex(v[i])
  <2> HIDE DEF value
  <2>1. QED BY <1>4
<1> HIDE DEF value, Is
<1> DEFINE T == {i \in Nat : i \in 0 .. n /\ value[i] \notin Nat}
<1>6. T = {}
  <2> SUFFICES ASSUME T # {} PROVE FALSE
    OBVIOUS
  <2>1. PICK i \in T : \A l \in T : i <= l
    <3>1. T \in SUBSET Nat
      OBVIOUS
    <3> HIDE DEF T
    <3>2. QED BY <3>1, Least
  <2>2. i # 0
    BY <1>1, <1>5, <2>1
  <2>3. i - 1 \in 0 .. n /\ i - 1 \notin T /\ i \in 1 .. n
    BY <1>1, <2>1, <2>2
  <2>4. value[i - 1] \in Nat /\ unhex(v[i]) \in Nat /\ value[i] = 10 * value[i - 1] + unhex(v[i])
    BY <1>1, <1>5, <2>2, <2>3
  <2>5. QED BY <2>1, <2>4
<1>7. n \in 0 .. n /\ n \in Nat
  BY <1>1
<1>8. QED BY <1>2, <1>6, <1>7

\* Units with what each of them makes the parser report.
Meaning == [u : Int, gives : Seq(Int)]

\* Functions on 1 .. n are sequences.
LEMMA IsSequence ==
    ASSUME NEW S, NEW n \in Nat, NEW w \in [1 .. n -> S]
    PROVE  w \in Seq(S)
  BY SeqDef

\* What a part of a request means is a sequence of units with their meaning.
LEMMA SilentIs ==
    ASSUME NEW u \in Seq(Int)
    PROVE  Silent(u) \in Seq(Meaning) /\ Data(u) \in Seq(Meaning)
<1>1. Len(u) \in Nat /\ DOMAIN u = 1 .. Len(u) /\ \A i \in 1 .. Len(u) : u[i] \in Int
  OBVIOUS
<1>2. \A i \in 1 .. Len(u) : /\ [u |-> u[i], gives |-> <<>>] \in Meaning
                             /\ [u |-> u[i], gives |-> <<u[i]>>] \in Meaning
  BY <1>1 DEF Meaning
<1>3. Silent(u) \in [1 .. Len(u) -> Meaning] /\ Data(u) \in [1 .. Len(u) -> Meaning]
  BY <1>1, <1>2 DEF Silent, Data
<1>4. QED BY <1>1, <1>3, IsSequence

\* So is one that ends a message.
LEMMA EndingIs ==
    ASSUME NEW part \in Seq(Meaning)
    PROVE  Ending(part) \in Seq(Meaning)
<1> DEFINE l == Len(part)
           e == [part[l] EXCEPT !.gives = Append(@, Done)]
<1>1. l \in Nat /\ DOMAIN part = 1 .. l /\ \A i \in 1 .. l : part[i] \in Meaning
  OBVIOUS
<1>2. l \in 1 .. l => e \in Meaning
  <2>1. l \in 1 .. l => part[l] \in Meaning
    BY <1>1
  <2> SUFFICES ASSUME l \in 1 .. l PROVE e \in Meaning
    OBVIOUS
  <2>2. /\ part[l].u \in Int /\ part[l].gives \in Seq(Int)
        /\ part[l] = [u |-> part[l].u, gives |-> part[l].gives]
    BY <2>1 DEF Meaning
  <2>3. Append(part[l].gives, Done) \in Seq(Int)
    BY <2>2 DEF Done
  <2>4. e = [u |-> part[l].u, gives |-> Append(part[l].gives, Done)]
    <3>1. \A a, b : [[u |-> a, gives |-> b] EXCEPT !.gives = Append(b, Done)]
                      = [u |-> a, gives |-> Append(b, Done)]
      BY SMTT(30)
    <3> DEFINE p == part[l]
    <3>2. p = [u |-> p.u, gives |-> p.gives]
      BY <2>2
    <3>3. e = [p EXCEPT !.gives = Append(p.gives, Done)]
      OBVIOUS
    <3> HIDE DEF p, e
    <3>4. QED BY <3>1, <3>2, <3>3 DEF p
  <2>5. QED BY <2>2, <2>3, <2>4 DEF Meaning
<1>3. Ending(part) = [part EXCEPT ![l] = e]
  BY DEF Ending
<1>4. Ending(part) \in [1 .. l -> Meaning]
  <2> HIDE DEF l, e
  <2>1. QED BY <1>1, <1>2, <1>3
<1>5. QED BY <1>1, <1>4, IsSequence

\* Header lines are a sequence of units.
LEMMA LinesIs ==
    ASSUME NEW hs \in Seq(Header), NEW eol \in Seq(Int)
    PROVE  Lines(hs, eol) \in Seq(Int)
<1> DEFINE line(i) == hs[i].name \o <<Colon, SP>> \o hs[i].value \o eol
           ss == [i \in DOMAIN hs |-> line(i)]
<1>1. Len(hs) \in Nat /\ DOMAIN hs = 1 .. Len(hs)
  OBVIOUS
<1>2. \A i \in 1 .. Len(hs) : line(i) \in Seq(Int)
  <2> SUFFICES ASSUME NEW i \in 1 .. Len(hs) PROVE line(i) \in Seq(Int)
    OBVIOUS
  <2>1. hs[i] \in Header
    BY <1>1
  <2>2. hs[i].name \in Seq(Int) /\ hs[i].value \in Seq(Int)
    BY <2>1 DEF Header
  <2>3. <<Colon, SP>> \in Seq(Int)
    BY DEF Colon, SP
  <2>4. QED BY <2>2, <2>3
<1>3. ss \in [1 .. Len(hs) -> Seq(Int)]
  <2> HIDE DEF line
  <2>1. QED BY <1>1, <1>2
<1>4. ss \in Seq(Seq(Int))
  BY <1>1, <1>3, IsSequence
<1>5. FlattenSeq(ss) \in Seq(Int)
  <2> HIDE DEF ss
  <2>1. QED BY <1>4, FlattenIsSeq
<1>6. QED BY <1>5 DEF Lines

\* The head of a request, whatever else the record holds.
LEMMA HeadIs ==
    ASSUME NEW method \in {"POST", "PUT", "GET", "CONNECT"}, NEW url \in Seq(Int),
           NEW minor \in {0, 1}, NEW headers \in Seq(Header), NEW eol \in Seq(Int), NEW r,
           r.method = method, r.url = url, r.minor = minor, r.headers = headers, r.eol = eol
    PROVE  HeadOf(r) \in Seq(Int)
<1>1. MethodText(method) \in Seq(Int)
  BY DEF MethodText, OST, UT, ET, ONNECT
<1>2. <<SP>> \in Seq(Int) /\ <<SP, 72, TTP, 49, Dot, 48 + minor>> \in Seq(Int)
  BY DEF SP, TTP, Dot
<1>3. Lines(headers, eol) \in Seq(Int)
  BY LinesIs
<1>4. MethodText(method) \o <<SP>> \o url \in Seq(Int)
  BY <1>1, <1>2
<1>5. MethodText(method) \o <<SP>> \o url \o <<SP, 72, TTP, 49, Dot, 48 + minor>> \o eol
        \in Seq(Int)
  <2> HIDE DEF MethodText
  <2>1. QED BY <1>2, <1>4
<1>6. MethodText(method) \o <<SP>> \o url \o <<SP, 72, TTP, 49, Dot, 48 + minor>> \o eol
        \o Lines(headers, eol) \o eol \in Seq(Int)
  BY <1>3, <1>5
<1>7. QED BY <1>6 DEF HeadOf

\* A value without blanks is a sequence of units.
LEMMA BareIs ==
    ASSUME NEW v \in Seq(Int)
    PROVE  Bare(v) \in Seq(Int)
<1> DEFINE one(i) == IF v[i] \in {SP, TAB, CR, LF} THEN <<>> ELSE <<v[i]>>
           ss == [i \in DOMAIN v |-> one(i)]
<1>1. Len(v) \in Nat /\ DOMAIN v = 1 .. Len(v) /\ \A i \in 1 .. Len(v) : v[i] \in Int
  OBVIOUS
<1>2. \A i \in 1 .. Len(v) : one(i) \in Seq(Int)
  BY <1>1
<1>3. ss \in [1 .. Len(v) -> Seq(Int)]
  <2> HIDE DEF one
  <2>1. QED BY <1>1, <1>2
<1>4. ss \in Seq(Seq(Int))
  BY <1>1, <1>3, IsSequence
<1>5. FlattenSeq(ss) \in Seq(Int)
  <2> HIDE DEF ss
  <2>1. QED BY <1>4, FlattenIsSeq
<1>6. QED BY <1>5 DEF Bare

\* The length a request announces is a number.
LEMMA AnnouncedIs ==
    ASSUME NEW r \in Request, ~BadHead(r)
    PROVE  Announced(r) \in Nat
<1>1. CASE Under(r, ContentLength) = {}
  BY <1>1 DEF Announced
<1>2. CASE Under(r, ContentLength) # {}
  <2> DEFINE i == CHOOSE i \in Under(r, ContentLength) : TRUE
  <2>1. i \in Under(r, ContentLength)
    BY <1>2
  <2>2. Announced(r) = Number(Bare(r.headers[i].value), 10)
    BY <1>2 DEF Announced
  <2> HIDE DEF i
  <2>3. r.headers[i] \in Header
    BY <2>1 DEF Under, Request
  <2>4. r.headers[i].value \in Seq(Int)
    BY <2>3 DEF Header
  <2>5. \A c \in Range(Bare(r.headers[i].value)) : IS_NUM(c)
    BY <2>1 DEF BadHead
  <2>6. Bare(r.headers[i].value) \in Seq(Int)
    BY <2>4, BareIs
  <2>7. \A j \in DOMAIN Bare(r.headers[i].value) : IS_NUM(Bare(r.headers[i].value)[j])
    BY <2>5 DEF Range
  <2>8. QED BY <2>2, <2>6, <2>7, NumberIs
<1>3. QED BY <1>1, <1>2

\* Joining keeps a sequence of units with what they mean one.
LEMMA Joined ==
    ASSUME NEW S, NEW a \in Seq(S), NEW b \in Seq(S)
    PROVE  a \o b \in Seq(S)
  OBVIOUS

ChunkType == [size : Seq(Int), ext : Seq(Int), data : Seq(Int)]

\* A chunk is a sequence of units with their meaning.
LEMMA ChunkPartIs ==
    ASSUME NEW c \in ChunkType
    PROVE  ChunkPart(c) \in Seq(Meaning)
<1>1. c.size \in Seq(Int) /\ c.ext \in Seq(Int) /\ c.data \in Seq(Int)
  BY DEF ChunkType
<1>2. <<CR, LF>> \in Seq(Int)
  BY DEF CR, LF
<1>3. c.size \o c.ext \o <<CR, LF>> \in Seq(Int)
  BY <1>1, <1>2
<1>4. /\ Silent(c.size \o c.ext \o <<CR, LF>>) \in Seq(Meaning) /\ Data(c.data) \in Seq(Meaning)
      /\ Silent(<<CR, LF>>) \in Seq(Meaning)
  BY <1>1, <1>2, <1>3, SilentIs
<1>5. QED BY <1>4, Joined DEF ChunkPart

\* A cut of a sequence is one, an empty cut too.
LEMMA Cut ==
    ASSUME NEW v \in Seq(Int), NEW a \in Int, NEW b \in Int, 1 <= a \/ b < a, b <= Len(v)
    PROVE  SubSeq(v, a, b) \in Seq(Int)
<1>1. Len(v) \in Nat
  OBVIOUS
<1>2. CASE b < a
  <2>1. SubSeq(v, a, b) = <<>>
    BY <1>2
  <2>2. QED BY <2>1
<1>3. CASE ~(b < a)
  <2>1. a \in 1 .. Len(v) /\ b \in a .. Len(v)
    BY <1>1, <1>3
  <2>2. QED BY <2>1
<1>4. QED BY <1>2, <1>3

\* A request is a sequence of units with their meaning.
LEMMA PartIs ==
    ASSUME NEW r \in Request
    PROVE  Part(r) \in Seq(Meaning)
<1> DEFINE body == Lesser(Announced(r), Len(r.body))
           bad  == {i \in DOMAIN r.chunks : BadChunk(r.chunks[i])}
           good == IF bad = {} THEN Len(r.chunks)
                   ELSE (CHOOSE i \in bad : \A j \in bad : i <= j) - 1
           parts == [i \in 1 .. good |-> ChunkPart(r.chunks[i])]
           passed == FlattenSeq(parts)
           head == HeadOf(r)
           last == <<48, CR, LF>> \o Lines(r.trailer, r.eol) \o r.eol
           next == r.chunks[good + 1]
           more == next.size \o next.ext \o <<CR, LF>> \o next.data
           whole == Data(SubSeq(r.body, 1, body))
           rest == Silent(SubSeq(r.body, body + 1, Len(r.body)))
<1>1. /\ r.method \in {"POST", "PUT", "GET", "CONNECT"} /\ r.url \in Seq(Int)
      /\ r.minor \in {0, 1}
      /\ r.headers \in Seq(Header) /\ r.body \in Seq(Int) /\ r.trailer \in Seq(Header)
      /\ r.chunks \in Seq(ChunkType)
  BY DEF Request, ChunkType
<1>2. r.eol \in Seq(Int)
  <2>1. r.eol \in {<<LF>>, <<CR, LF>>}
    BY DEF Request
  <2>2. <<LF>> \in Seq(Int) /\ <<CR, LF>> \in Seq(Int)
    BY DEF LF, CR
  <2>3. QED BY <2>1, <2>2
<1>3. head \in Seq(Int)
  <2>1. r.eol \in Seq(Int)
    BY <1>2
  <2>2. QED BY <1>1, <2>1, HeadIs
<1>4. last \in Seq(Int)
  <2>1. <<48, CR, LF>> \in Seq(Int)
    BY DEF CR, LF
  <2>2. Lines(r.trailer, r.eol) \in Seq(Int)
    BY <1>1, <1>2, LinesIs
  <2>3. QED BY <1>2, <2>1, <2>2
<1>5. /\ DOMAIN r.chunks = 1 .. Len(r.chunks) /\ Len(r.chunks) \in Nat
      /\ good \in 0 .. Len(r.chunks)
      /\ bad # {} => good + 1 \in 1 .. Len(r.chunks)
  <2>1. DOMAIN r.chunks = 1 .. Len(r.chunks) /\ Len(r.chunks) \in Nat
    BY <1>1
  <2>2. CASE bad = {}
    BY <2>1, <2>2
  <2>3. CASE bad # {}
    <3> DEFINE l == CHOOSE i \in bad : \A j \in bad : i <= j
    <3>1. bad \in SUBSET Nat
      BY <2>1
    <3> HIDE DEF bad
    <3>2. \E i \in bad : \A j \in bad : i <= j
      BY <2>3, <3>1, Least
    <3>3. l \in bad
      BY <3>2
    <3> HIDE DEF l
    <3>4. good = l - 1
      BY <2>3 DEF l
    <3>5. l \in 1 .. Len(r.chunks)
      BY <2>1, <3>3 DEF bad
    <3>6. QED BY <2>1, <3>4, <3>5
  <2>4. QED BY <2>2, <2>3
<1> HIDE DEF bad, good
<1>6. passed \in Seq(Meaning)
  <2>1. \A i \in 1 .. good : ChunkPart(r.chunks[i]) \in Seq(Meaning)
    <3> SUFFICES ASSUME NEW i \in 1 .. good PROVE ChunkPart(r.chunks[i]) \in Seq(Meaning)
      OBVIOUS
    <3>1. i \in 1 .. Len(r.chunks)
      BY <1>5
    <3>2. r.chunks[i] \in ChunkType
      BY <1>1, <3>1
    <3>3. QED BY <3>2, ChunkPartIs
  <2>2. parts \in [1 .. good -> Seq(Meaning)]
    BY <2>1
  <2>3. parts \in Seq(Seq(Meaning))
    BY <1>5, <2>2, IsSequence
  <2> HIDE DEF parts
  <2>4. QED BY <2>3, FlattenIsSeq
<1>7. ~BadHead(r) => /\ SubSeq(r.body, 1, body) \in Seq(Int)
                     /\ SubSeq(r.body, body + 1, Len(r.body)) \in Seq(Int)
  <2> SUFFICES ASSUME ~BadHead(r)
               PROVE  /\ SubSeq(r.body, 1, body) \in Seq(Int)
                      /\ SubSeq(r.body, body + 1, Len(r.body)) \in Seq(Int)
    OBVIOUS
  <2>1. Announced(r) \in Nat /\ Len(r.body) \in Nat
    BY <1>1, AnnouncedIs
  <2>2. body \in Nat /\ body <= Len(r.body)
    BY <2>1 DEF Lesser
  <2> HIDE DEF body
  <2>3. SubSeq(r.body, 1, body) \in Seq(Int)
    BY <1>1, <2>1, <2>2, Cut
  <2>4. SubSeq(r.body, body + 1, Len(r.body)) \in Seq(Int)
    BY <1>1, <2>1, <2>2, Cut
  <2>5. QED BY <2>3, <2>4
<1> HIDE DEF body, passed, parts, head, last, more, next
<1>8. /\ ~BadHead(r) => /\ whole \in Seq(Meaning) /\ rest \in Seq(Meaning)
                        /\ Ending(whole) \in Seq(Meaning)
      /\ Silent(head) \in Seq(Meaning) /\ Silent(r.body) \in Seq(Meaning)
      /\ Ending(Silent(last)) \in Seq(Meaning) /\ Ending(Silent(head)) \in Seq(Meaning)
  <2>1. ~BadHead(r) => whole \in Seq(Meaning) /\ rest \in Seq(Meaning)
    BY <1>7, SilentIs
  <2>2. /\ Silent(head) \in Seq(Meaning) /\ Silent(r.body) \in Seq(Meaning)
        /\ Silent(last) \in Seq(Meaning)
    BY <1>1, <1>3, <1>4, SilentIs
  <2> HIDE DEF whole, rest
  <2>3. /\ ~BadHead(r) => Ending(whole) \in Seq(Meaning)
        /\ Ending(Silent(last)) \in Seq(Meaning) /\ Ending(Silent(head)) \in Seq(Meaning)
    BY <2>1, <2>2, EndingIs
  <2>4. QED BY <2>1, <2>2, <2>3
<1>9. Silent(head \o r.body) \in Seq(Meaning)
  <2>1. head \o r.body \in Seq(Int)
    BY <1>1, <1>3, Joined
  <2>2. QED BY <2>1, SilentIs
<1>10. bad # {} => Silent(more) \in Seq(Meaning)
  <2> SUFFICES ASSUME bad # {} PROVE Silent(more) \in Seq(Meaning)
    OBVIOUS
  <2>1. next \in ChunkType
    BY <1>1, <1>5 DEF next
  <2>2. next.size \in Seq(Int) /\ next.ext \in Seq(Int) /\ next.data \in Seq(Int)
    BY <2>1 DEF ChunkType
  <2>3. <<CR, LF>> \in Seq(Int)
    BY DEF CR, LF
  <2>4. more \in Seq(Int)
    BY <2>2, <2>3 DEF more
  <2>5. QED BY <2>4, SilentIs
<1>11. Part(r) =
         IF BadHead(r) THEN Silent(head \o r.body)
         ELSE IF Chunked(r) /\ bad = {} THEN Silent(head) \o passed \o Ending(Silent(last))
         ELSE IF Chunked(r) THEN Silent(head) \o passed \o Silent(more)
         ELSE IF body = 0 /\ Announced(r) = 0 THEN Ending(Silent(head)) \o Silent(r.body)
         ELSE Silent(head) \o (IF body = Announced(r) THEN Ending(whole) ELSE whole) \o rest
  BY DEF Part, body, bad, good, passed, parts, head, last, more, next
<1> HIDE DEF whole, rest
<1>12. CASE BadHead(r)
  BY <1>9, <1>11, <1>12
<1>13. CASE ~BadHead(r) /\ Chunked(r)
  <2>1. Silent(head) \o passed \in Seq(Meaning)
    BY <1>6, <1>8, Joined
  <2>2. CASE bad = {}
    BY <1>8, <1>11, <1>13, <2>1, <2>2, Joined
  <2>3. CASE bad # {}
    BY <1>10, <1>11, <1>13, <2>1, <2>3, Joined
  <2>4. QED BY <2>2, <2>3
<1>14. CASE ~BadHead(r) /\ ~Chunked(r)
  <2>1. CASE body = 0 /\ Announced(r) = 0
    BY <1>8, <1>11, <1>14, <2>1, Joined
  <2>2. CASE ~(body = 0 /\ Announced(r) = 0)
    <3> DEFINE told == IF body = Announced(r) THEN Ending(whole) ELSE whole
    <3>1. told \in Seq(Meaning)
      BY <1>8, <1>14
    <3>2. Part(r) = Silent(head) \o told \o rest
      BY <1>11, <1>14, <2>2
    <3> HIDE DEF told
    <3>3. Silent(head) \o told \in Seq(Meaning)
      BY <1>8, <3>1, Joined
    <3>4. QED BY <1>8, <1>14, <3>2, <3>3, Joined
  <2>3. QED BY <2>1, <2>2
<1>15. QED BY <1>12, <1>13, <1>14

\* The units of a stream are a sequence.
LEMMA ScriptIsText ==
    ASSUME NEW s \in DOMAIN Streams
    PROVE  Script(Streams[s]).text \in Seq(Int)
<1> DEFINE stream == Streams[s]
           n == Len(stream)
           parts == [i \in 1 .. n |-> Part(stream[i])]
           whole == FlattenSeq(parts)
           text == [i \in DOMAIN whole |-> whole[i].u]
<1>1. stream \in Seq(Request)
  BY StreamAssumption
<1> HIDE DEF stream
<1>2. n \in Nat /\ \A i \in 1 .. n : stream[i] \in Request
  BY <1>1
<1>3. \A i \in 1 .. n : Part(stream[i]) \in Seq(Meaning)
  BY <1>2, PartIs
<1>4. parts \in [1 .. n -> Seq(Meaning)]
  <2> HIDE DEF n
  <2>1. QED BY <1>3
<1>5. parts \in Seq(Seq(Meaning))
  BY <1>2, <1>4, IsSequence
<1>6. whole \in Seq(Meaning)
  <2> HIDE DEF parts
  <2>1. QED BY <1>5, FlattenIsSeq
<1>7. Script(stream).text = text
  BY DEF Script, Upto
<1> HIDE DEF whole
<1>8. /\ Len(whole) \in Nat /\ DOMAIN whole = 1 .. Len(whole)
      /\ \A i \in 1 .. Len(whole) : whole[i].u \in Int
  <2>1. Len(whole) \in Nat /\ DOMAIN whole = 1 .. Len(whole)
    BY <1>6
  <2>2. \A i \in 1 .. Len(whole) : whole[i] \in Meaning
    BY <1>6
  <2>3. QED BY <2>1, <2>2 DEF Meaning
<1>9. text \in [1 .. Len(whole) -> Int]
  BY <1>8
<1>10. text \in Seq(Int)
  <2> HIDE DEF text
  <2>1. QED BY <1>8, <1>9, IsSequence
<1>11. QED BY <1>7, <1>10 DEF stream

-----------------------------------------------------------------------------
\* A new parser is between two units.
LEMMA InitGood ==
    IsParser(http_parser_init) /\ Good(http_parser_init) /\ http_parser_init.errno = "OK"
  BY DEF http_parser_init, IsParser, Good, HeadStates, DataStates

\* What ExecuteFollows says of every call with data.
LEMMA ExecuteKeeps ==
    ASSUME NEW p, IsParser(p), Good(p), p.errno = "OK",
           NEW data, Len(data) \in Nat, Len(data) # 0, data # <<>>,
           NEW x, x = http_parser_execute(p, data)
    PROVE  /\ IsParser(x.p) /\ Good(x.p) /\ x.parsed \in 0 .. Len(data)
           /\ x.left => x.p.errno = "OK"
<1>1. \A g : /\ IsParser(x.p) /\ Good(x.p) /\ x.parsed \in 0 .. Len(data)
             /\ x.left => x.p.errno = "OK"
  BY ExecuteFollows
<1>2. QED BY <1>1

\* A call that finds an error returns at once.
LEMMA FailedStays ==
    ASSUME NEW p, p.errno # "OK", NEW data
    PROVE  http_parser_execute(p, data) = Result(p, 0, <<>>, FALSE)
  BY DEF http_parser_execute

\* What unit by unit comes to exists for every text.
LEMMA ChainExists ==
    ASSUME NEW text, Len(text) \in Nat, NEW p
    PROVE  \E g : g[0] = Enter(p) /\ Chain(g, text)
<1>1. PICK g : Makes(g, "unit", Enter(p), text, Len(text))
  BY MakesExists
<1>2. g[0] = Enter(p) /\ Chain(g, text)
  BY <1>1 DEF Makes, Made, Chain
<1>3. QED BY <1>2

-----------------------------------------------------------------------------
\* The parser has come to what the units read so far come to one by one, or both
\* have failed.
StreamInv ==
    /\ script.text \in Seq(Int) /\ at \in 0 .. Len(script.text)
    /\ IsParser(reader) /\ Good(reader)
    /\ ~HasControl => \A g : g[0] = Enter(http_parser_init) /\ Chain(g, script.text) =>
                          IF reader.errno = "OK"
                          THEN reader = g[at].p /\ (left <=> g[at].left)
                          ELSE g[at].p.errno # "OK"

\* The invariant holds before anything is read.
LEMMA StreamInvInit == StreamInit => StreamInv
<1> SUFFICES ASSUME StreamInit PROVE StreamInv
  OBVIOUS
<1>1. script.text \in Seq(Int)
  BY ScriptIsText DEF StreamInit
<1>2. Len(script.text) \in Nat
  BY <1>1
<1>3. Enter(http_parser_init).p = http_parser_init /\ ~Enter(http_parser_init).left
  BY InitGood, Entered
<1>4. at = 0 /\ reader = http_parser_init /\ ~left
  BY DEF StreamInit
<1>5. QED BY <1>1, <1>2, <1>3, <1>4, InitGood DEF StreamInv

\* A read takes the parser as far as its units take it one by one.
LEMMA StreamInvStep == StreamInv /\ [StreamNext]_streamVars => StreamInv'
<1> SUFFICES ASSUME StreamInv, [StreamNext]_streamVars PROVE StreamInv'
  OBVIOUS
<1>1. /\ script.text \in Seq(Int) /\ at \in 0 .. Len(script.text) /\ Len(script.text) \in Nat
      /\ IsParser(reader) /\ Good(reader)
  BY DEF StreamInv
<1>2. CASE UNCHANGED streamVars
  BY <1>2 DEF streamVars, StreamInv, HasControl
<1>3. CASE StreamNext
  <2>1. PICK k \in 1 .. Len(script.text) - at : OnRead(k)
    BY <1>3 DEF StreamNext
  <2> DEFINE data == SubSeq(script.text, at + 1, at + k)
             x == http_parser_execute(reader, data)
  <2>2. /\ ~left /\ script' = script /\ reader' = x.p /\ left' = x.left
        /\ at' = IF x.left THEN at + x.parsed ELSE at + k
    BY <2>1 DEF OnRead
  <2>3. k \in Nat /\ k # 0 /\ at + k <= Len(script.text)
    BY <1>1, <2>1
  <2>4. /\ Len(data) = k /\ data # <<>>
        /\ \A i \in 1 .. k : data[i] = script.text[at + i]
    <3> DEFINE text == script.text
    <3>1. /\ text \in Seq(Int) /\ at \in Nat
          /\ at + 1 \in 1 .. Len(text) + 1 /\ at + k \in at .. Len(text)
      BY <1>1, <2>3
    <3> HIDE DEF text
    <3>2. Len(SubSeq(text, at + 1, at + k)) = k
      BY <2>3, <3>1
    <3>3. \A i \in 1 .. k : SubSeq(text, at + 1, at + k)[i] = text[at + i]
      BY <2>3, <3>1
    <3>4. data = SubSeq(text, at + 1, at + k)
      BY DEF text
    <3> HIDE DEF data
    <3>5. data # <<>>
      BY <2>3, <3>2, <3>4
    <3>6. QED BY <3>2, <3>3, <3>4, <3>5 DEF text
  <2>5. HasControl' <=> HasControl
    BY <2>2 DEF HasControl
  <2>6. ~HasControl => Plain(data)
    BY <1>1, <2>3, <2>4 DEF HasControl, Plain
  <2> HIDE DEF data
  <2>7. CASE reader.errno # "OK"
    <3>1. x.p = reader /\ ~x.left
      BY <2>7, FailedStays DEF Result
    <3> HIDE DEF x
    <3>2. reader' = reader /\ ~left' /\ at' = at + k
      BY <2>2, <3>1
    <3>3. ASSUME ~HasControl, NEW g, g[0] = Enter(http_parser_init), Chain(g, script.text)
          PROVE  g[at + k].p.errno # "OK"
      <4>1. g[at].p.errno # "OK"
        BY <2>7, <3>3 DEF StreamInv
      <4>2. g[at + k] = g[at]
        <5>1. /\ at \in Nat /\ at + k \in Nat /\ at <= at + k /\ at + k <= Len(script.text)
              /\ Len(script.text) \in Nat
          BY <1>1, <2>3
        <5> DEFINE to == at + k
        <5> HIDE DEF to
        <5>3. to \in Nat /\ at <= to /\ to <= Len(script.text)
          BY <5>1 DEF to
        <5>4. g[to] = g[at]
          BY <3>3, <4>1, <5>1, <5>3, ChainStalls
        <5>5. QED BY <5>4 DEF to
      <4>3. QED BY <4>1, <4>2
    <3>4. QED BY <1>1, <2>2, <2>3, <2>5, <2>7, <3>2, <3>3 DEF StreamInv
  <2>8. CASE reader.errno = "OK"
    <3>1. /\ IsParser(x.p) /\ Good(x.p) /\ x.parsed \in 0 .. k
          /\ x.left => x.p.errno = "OK"
      BY <1>1, <2>4, <2>8, ExecuteKeeps
    <3>2. ASSUME ~HasControl, NEW g, g[0] = Enter(http_parser_init), Chain(g, script.text)
          PROVE  IF reader'.errno = "OK" THEN reader' = g[at'].p /\ (left' <=> g[at'].left)
                                         ELSE g[at'].p.errno # "OK"
      <4> DEFINE f == [i \in 0 .. k |-> g[at + i]]
      <4>1. reader = g[at].p /\ ~g[at].left
        BY <2>2, <2>8, <3>2 DEF StreamInv
      <4>2. \A i \in 0 .. k : f[i] = g[at + i]
        OBVIOUS
      <4> HIDE DEF f
      <4>3. f[0].p = reader /\ ~f[0].left
        BY <1>1, <2>3, <4>1, <4>2
      <4>4. Chain(f, data)
        <5> SUFFICES ASSUME NEW i \in 1 .. Len(data) PROVE f[i] = One(f[i - 1], data[i])
          BY DEF Chain
        <5>1. i \in 1 .. k /\ at + i \in 1 .. Len(script.text) /\ (at + i) - 1 = at + (i - 1)
              /\ i - 1 \in 0 .. k /\ i \in 0 .. k
          BY <1>1, <2>3, <2>4
        <5>2. g[at + i] = One(g[(at + i) - 1], script.text[at + i])
          BY <3>2, <5>1 DEF Chain
        <5>3. QED BY <2>4, <4>2, <5>1, <5>2
      <4>5. /\ IF x.p.errno = "OK" THEN x.p = f[k].p /\ (x.left <=> f[k].left)
                                   ELSE f[k].p.errno # "OK"
            /\ x.left => x.p = f[x.parsed].p /\ f[x.parsed].left
        <5>1. Len(data) \in Nat /\ Len(data) # 0 /\ Len(data) = k /\ Plain(data)
          BY <2>3, <2>4, <2>6, <3>2
        <5>2. x = http_parser_execute(reader, data) /\ data # <<>>
          BY <2>4
        <5>3. IsParser(reader) /\ Good(reader) /\ reader.errno = "OK"
          BY <1>1, <2>8
        <5> HIDE DEF x
        <5>4. /\ IF x.p.errno = "OK" THEN x.p = f[Len(data)].p /\ (x.left <=> f[Len(data)].left)
                                     ELSE f[Len(data)].p.errno # "OK"
              /\ x.left => x.p = f[x.parsed].p /\ f[x.parsed].left
          BY <4>3, <4>4, <5>1, <5>2, <5>3, ExecuteFollows
        <5>5. QED BY <5>1, <5>4
      <4> HIDE DEF x
      <4>6. CASE x.left
        BY <2>2, <2>3, <3>1, <4>2, <4>5, <4>6
      <4>7. CASE ~x.left
        BY <2>2, <2>3, <4>2, <4>5, <4>7
      <4>8. QED BY <4>6, <4>7
    <3> HIDE DEF x
    <3>3. at' \in 0 .. Len(script.text)
      BY <1>1, <2>2, <2>3, <3>1
    <3>4. QED BY <1>1, <2>2, <2>5, <3>1, <3>2, <3>3 DEF StreamInv
  <2>9. QED BY <2>7, <2>8
<1>4. QED BY <1>2, <1>3

\* One call over all the units comes to what they come to one by one, or fails as
\* they do.
LEMMA StreamInvSplit == StreamInv => SplitIndependent
<1> DEFINE data == SubSeq(script.text, 1, at)
           x == http_parser_execute(http_parser_init, data)
<1> SUFFICES ASSUME StreamInv, at > 0, ~HasControl
             PROVE  IF reader.errno = "OK" THEN reader = x.p ELSE x.p.errno # "OK"
  BY DEF SplitIndependent
<1>1. script.text \in Seq(Int) /\ at \in 0 .. Len(script.text) /\ Len(script.text) \in Nat
  BY DEF StreamInv
<1>2. Len(data) = at /\ data # <<>> /\ \A i \in 1 .. at : data[i] = script.text[i]
  BY <1>1
<1> HIDE DEF data
<1>3. PICK g : g[0] = Enter(http_parser_init) /\ Chain(g, script.text)
  BY <1>1, ChainExists
<1>4. Plain(data) /\ Chain(g, data)
  <2>1. \A i \in 1 .. at : i \in DOMAIN script.text /\ i \in 1 .. Len(script.text)
    BY <1>1
  <2>2. Plain(data)
    BY <1>2, <2>1 DEF HasControl, Plain
  <2>3. Chain(g, data)
    BY <1>2, <1>3, <2>1 DEF Chain
  <2>4. QED BY <2>2, <2>3
<1>5. g[0].p = http_parser_init /\ ~g[0].left
  BY <1>3, InitGood, Entered
<1>6. IF x.p.errno = "OK" THEN x.p = g[at].p ELSE g[at].p.errno # "OK"
  BY <1>1, <1>2, <1>4, <1>5, InitGood, ExecuteFollows
<1>7. IF reader.errno = "OK" THEN reader = g[at].p ELSE g[at].p.errno # "OK"
  BY <1>3 DEF StreamInv
<1>8. QED BY <1>6, <1>7

\* Wherever a stream of requests is cut into reads, the parser is the same as after
\* one read of it all, or has failed as it fails then: http_parser_execute keeps all
\* it has to keep between two calls, for every stream of the grammar, every cut and
\* every bound on the head.  Where a parser that failed stands is not claimed: names
\* and values are counted in one piece (http_parser.c:1353, 1649), so it may differ.
THEOREM AlwaysSplitIndependent == StreamSpec => []SplitIndependent
<1>1. StreamInit => StreamInv
  BY StreamInvInit
<1>2. StreamInv /\ [StreamNext]_streamVars => StreamInv'
  BY StreamInvStep
<1>3. StreamInv => SplitIndependent
  BY StreamInvSplit
<1>4. QED BY <1>1, <1>2, <1>3, PTL DEF StreamSpec

-----------------------------------------------------------------------------
\* A unit of a request, with the request it is of.
Unit == [req : Requests, ch : Int]

\* A length written out is a sequence of characters.
LEMMA DigitsAre ==
    ASSUME NEW n \in Nat, NEW base \in {10, 16}
    PROVE  Digits(n, base) \in Seq(Int)
<1>1. n \div base \in Int /\ n % base \in Int
  OBVIOUS
<1>2. Digit(n \div base) \in Int /\ Digit(n % base) \in Int
  BY <1>1 DEF Digit
<1> DEFINE high == IF n < base THEN <<>> ELSE <<Digit(n \div base)>>
           low == <<Digit(n % base)>>
<1>3. high \in Seq(Int) /\ low \in Seq(Int)
  BY <1>2
<1>4. Digits(n, base) = high \o low
  BY DEF Digits
<1> HIDE DEF high, low
<1>5. QED BY <1>3, <1>4, Joined

\* So is a chunk.
LEMMA ChunkIs ==
    ASSUME NEW u \in Seq(Int)
    PROVE  Chunk(u) \in Seq(Int)
<1>1. Len(u) \in Nat
  OBVIOUS
<1>2. Digits(Len(u), 16) \in Seq(Int)
  BY <1>1, DigitsAre
<1>3. <<CR, LF>> \in Seq(Int)
  BY DEF CR, LF
<1>4. Digits(Len(u), 16) \o <<CR, LF>> \in Seq(Int)
  BY <1>2, <1>3, Joined
<1>5. Digits(Len(u), 16) \o <<CR, LF>> \o u \in Seq(Int)
  BY <1>4, Joined
<1>6. QED BY <1>3, <1>5, Joined DEF Chunk

\* The body of a request is a sequence of characters.
LEMMA BodyIs ==
    ASSUME NEW r \in Requests
    PROVE  Body[r] \in Seq(Int)
<1> DEFINE form == Forms[r]
           pair(k) == (IF k = 1 THEN <<>> ELSE <<Amp>>)
                      \o <<form[k].name, Equals>> \o form[k].value
           pairs == [k \in DOMAIN form |-> pair(k)]
<1>1. form \in Seq(Pair)
  BY FormAssumption DEF Requests
<1> HIDE DEF form
<1>2. Len(form) \in Nat /\ DOMAIN form = 1 .. Len(form)
  BY <1>1
<1>3. \A k \in 1 .. Len(form) : pair(k) \in Seq(Int)
  <2> SUFFICES ASSUME NEW k \in 1 .. Len(form) PROVE pair(k) \in Seq(Int)
    OBVIOUS
  <2>1. form[k] \in Pair
    BY <1>1
  <2>2. form[k].name \in Int /\ form[k].value \in Seq(Int)
    BY <2>1 DEF Pair, Names, Parameter
  <2> DEFINE sep == IF k = 1 THEN <<>> ELSE <<Amp>>
             name == <<form[k].name, Equals>>
  <2>3. sep \in Seq(Int) /\ name \in Seq(Int)
    BY <2>2 DEF Amp, Equals
  <2>4. pair(k) = sep \o name \o form[k].value
    OBVIOUS
  <2> HIDE DEF sep, name, pair
  <2>5. sep \o name \in Seq(Int)
    BY <2>3, Joined
  <2>6. QED BY <2>2, <2>4, <2>5, Joined
<1>4. pairs \in [1 .. Len(form) -> Seq(Int)]
  <2> HIDE DEF pair
  <2>1. QED BY <1>2, <1>3
<1>5. pairs \in Seq(Seq(Int))
  BY <1>2, <1>4, IsSequence
<1>6. FlattenSeq(pairs) \in Seq(Int)
  <2> HIDE DEF pairs
  <2>1. QED BY <1>5, FlattenIsSeq
<1>7. Body[r] = FlattenSeq(pairs)
  BY DEF Body, form
<1>8. QED BY <1>6, <1>7

\* What is sent for a request is a sequence of units.
LEMMA MessageIs ==
    ASSUME NEW r \in Requests
    PROVE  Message(r) \in Seq(Unit)
<1> DEFINE b == Body[r]
           h == Len(b) \div 2
           first == Chunk(SubSeq(b, 1, h))
           second == Chunk(SubSeq(b, h + 1, Len(b)))
           last == <<48, CR, LF, CR, LF>>
           headers == FramingHeader(r)
           req == [method |-> "POST", url |-> <<Slash>>, minor |-> 1, eol |-> <<CR, LF>>,
                   headers |-> headers]
           all == HeadOf(req) \o Payload(r)
<1>1. b \in Seq(Int)
  BY BodyIs
<1> HIDE DEF b
<1>2. Len(b) \in Nat /\ h \in Nat /\ h <= Len(b)
  BY <1>1
<1>3. Framing[r] \in {"length", "chunked", "none"}
  BY FormAssumption DEF Requests, Range
<1>4. Payload(r) \in Seq(Int)
  <2>1. SubSeq(b, 1, h) \in Seq(Int) /\ SubSeq(b, h + 1, Len(b)) \in Seq(Int)
    <3> HIDE DEF h
    <3>1. SubSeq(b, 1, h) \in Seq(Int)
      BY <1>1, <1>2, Cut
    <3>2. SubSeq(b, h + 1, Len(b)) \in Seq(Int)
      BY <1>1, <1>2, Cut
    <3>3. QED BY <3>1, <3>2
  <2>2. last \in Seq(Int)
    BY DEF CR, LF
  <2>3. first \in Seq(Int) /\ second \in Seq(Int)
    <3> HIDE DEF h
    <3>1. QED BY <2>1, ChunkIs
  <2> HIDE DEF first, second, last
  <2>4. first \o second \in Seq(Int)
    BY <2>3, Joined
  <2>5. first \o second \o last \in Seq(Int)
    BY <2>2, <2>4, Joined
  <2>6. Payload(r) = CASE Framing[r] = "length"  -> b
                       [] Framing[r] = "chunked" -> first \o second \o last
                       [] Framing[r] = "none"    -> <<>>
    BY DEF Payload, first, second, last, b
  <2>7. QED BY <1>1, <1>3, <2>5, <2>6
<1>5. headers \in Seq(Header)
  <2>1. Digits(Len(b), 10) \in Seq(Int)
    BY <1>2, DigitsAre
  <2> DEFINE digits == Digits(Len(b), 10)
  <2> HIDE DEF digits
  <2>2. /\ [name |-> ContentLength, value |-> digits] \in Header
        /\ [name |-> TransferEncoding, value |-> <<CHUN, KED>>] \in Header
    <3>1. /\ ContentLength \in Seq(Int) /\ TransferEncoding \in Seq(Int)
          /\ <<CHUN, KED>> \in Seq(Int)
      BY DEF ContentLength, TransferEncoding, CON, TENT_LENGTH, TRANSFER, ENCODING, CHUN, KED
    <3>2. QED BY <2>1, <3>1 DEF Header, digits
  <2> DEFINE cl == [name |-> ContentLength, value |-> digits]
             te == [name |-> TransferEncoding, value |-> <<CHUN, KED>>]
  <2>3. headers = CASE Framing[r] = "length"  -> <<cl>>
                    [] Framing[r] = "chunked" -> <<te>>
                    [] Framing[r] = "none"    -> <<>>
    BY DEF FramingHeader, digits, b
  <2> HIDE DEF cl, te, headers
  <2>4. <<cl>> \in Seq(Header) /\ <<te>> \in Seq(Header) /\ <<>> \in Seq(Header)
    BY <2>2 DEF cl, te
  <2>5. QED BY <1>3, <2>3, <2>4
<1> HIDE DEF headers
<1>6. HeadOf(req) \in Seq(Int)
  <2>1. <<Slash>> \in Seq(Int) /\ <<CR, LF>> \in Seq(Int)
    BY DEF Slash, CR, LF
  <2>2. /\ req.method = "POST" /\ req.url = <<Slash>> /\ req.minor = 1 /\ req.headers = headers
        /\ req.eol = <<CR, LF>>
    OBVIOUS
  <2> HIDE DEF req
  <2>3. QED BY <1>5, <2>1, <2>2, HeadIs
<1> HIDE DEF req
<1>7. all \in Seq(Int)
  BY <1>4, <1>6, Joined
<1>8. Message(r) = [i \in DOMAIN all |-> [req |-> r, ch |-> all[i]]]
  BY DEF Message, all, req, headers
<1> HIDE DEF all
<1>9. Message(r) \in [1 .. Len(all) -> Unit]
  BY <1>7, <1>8 DEF Unit
<1>10. Len(all) \in Nat
  BY <1>7
<1>11. QED BY <1>9, <1>10, IsSequence

-----------------------------------------------------------------------------
\* read_idx gets beyond write_idx only at the end of the input, which leaves the
\* parser failed, no callback to make, and no new parser due.
IntakeInv ==
    /\ unread \in Seq(Unit) /\ buf \in Seq(Unit) /\ past \in Nat /\ sent \in Nat
    /\ IsParser(parser) /\ Good(parser)
    /\ past > 0 => parser.errno # "OK" /\ ~next_new_req /\ pending = <<>>

\* Nothing is read yet.
LEMMA IntakeInvInit == Init => IntakeInv
  BY InitGood DEF Init, IntakeInv

\* One read: the length is that of the data, or the parser does not look at it.
LEMMA CaOnReadKeeps ==
    ASSUME IntakeInv, NEW k \in 0 .. Len(unread), CaOnRead(k)
    PROVE  IntakeInv'
<1> DEFINE len == Len(buf) + k - past
           all == buf \o SubSeq(unread, 1, k)
           feed == SubSeq(all, past + 1, Len(buf) + k)
           data == Chars(feed)
           p == Reinit
           x == http_parser_execute(p, data)
<1>1. /\ unread \in Seq(Unit) /\ buf \in Seq(Unit) /\ past \in Nat /\ sent \in Nat
      /\ IsParser(parser) /\ Good(parser) /\ Len(unread) \in Nat /\ Len(buf) \in Nat
      /\ k \in Nat /\ k <= Len(unread)
  BY DEF IntakeInv
<1>2. /\ unread' = SubSeq(unread, k + 1, Len(unread)) /\ next_new_req' = FALSE
      /\ parser' = x.p /\ buf' = Advance(feed, x.parsed) /\ sent' = sent
      /\ past' = IF x.parsed > len THEN x.parsed - len ELSE 0
      /\ pending' = [i \in DOMAIN x.ev |->
                       [is |-> x.ev[i].is, data |-> SubSeq(feed, x.ev[i].from, x.ev[i].to)]]
  <2>1. PICK f \in {feed} : \E d \in {Chars(f)} : \E y \in {http_parser_execute(Reinit, d)} :
          /\ parser' = y.p /\ buf' = Advance(f, y.parsed)
          /\ past' = IF y.parsed > len THEN y.parsed - len ELSE 0
          /\ pending' = [i \in DOMAIN y.ev |->
                           [is |-> y.ev[i].is, data |-> SubSeq(f, y.ev[i].from, y.ev[i].to)]]
    BY DEF CaOnRead
  <2>2. unread' = SubSeq(unread, k + 1, Len(unread)) /\ next_new_req' = FALSE /\ sent' = sent
    BY DEF CaOnRead
  <2>3. f = feed
    OBVIOUS
  <2> HIDE DEF feed
  <2>4. QED BY <2>1, <2>2, <2>3
<1> HIDE DEF x
<1>3. all \in Seq(Unit) /\ Len(all) = Len(buf) + k
  <2>1. SubSeq(unread, 1, k) \in Seq(Unit) /\ Len(SubSeq(unread, 1, k)) = k
    BY <1>1
  <2>2. QED BY <1>1, <2>1
<1> HIDE DEF all
<1>4. /\ feed \in Seq(Unit) /\ Len(feed) \in Nat
      /\ past = 0 => Len(feed) = len
  BY <1>1, <1>3
<1> HIDE DEF feed
<1>5. /\ Len(data) = Len(feed) /\ (data = <<>> => Len(feed) = 0)
      /\ Len(data) = 0 => data = <<>>
  <2> DEFINE chars == [i \in DOMAIN feed |-> feed[i].ch]
  <2>1. data = SubSeq(chars, 1, Len(feed))
    BY DEF Chars
  <2>2. chars \in [1 .. Len(feed) -> Int]
    <3>1. \A i \in 1 .. Len(feed) : feed[i] \in Unit
      BY <1>4
    <3>2. \A i \in 1 .. Len(feed) : feed[i].ch \in Int
      BY <3>1 DEF Unit
    <3>3. DOMAIN feed = 1 .. Len(feed)
      BY <1>4
    <3>4. QED BY <3>2, <3>3
  <2>3. chars \in Seq(Int) /\ Len(chars) = Len(feed)
    BY <1>4, <2>2, IsSequence
  <2> HIDE DEF chars, data
  <2>4. Len(data) = Len(feed)
    <3> DEFINE n == Len(feed)
    <3>1. n \in Nat /\ n = Len(chars) /\ data = SubSeq(chars, 1, n)
      BY <1>4, <2>1, <2>3
    <3> HIDE DEF n
    <3>2. Len(data) = n
      BY <2>3, <3>1
    <3>3. QED BY <3>2 DEF n
  <2>5. data = <<>> => Len(data) = 0
    OBVIOUS
  <2>6. Len(data) = 0 => data = <<>>
    <3> DEFINE n == Len(feed)
    <3>1. n \in Nat /\ n = Len(chars) /\ data = SubSeq(chars, 1, n)
      BY <1>4, <2>1, <2>3
    <3> HIDE DEF n
    <3>2. data \in Seq(Int)
      BY <2>3, <3>1
    <3>3. QED BY <3>2
  <2>7. QED BY <2>4, <2>5, <2>6
<1>6. x = http_parser_execute(p, data)
  BY DEF x
<1> HIDE DEF data
<1>7. IsParser(p) /\ Good(p)
  BY <1>1, InitGood DEF Reinit
<1>8. past > 0 => p.errno # "OK"
  BY DEF Reinit, IntakeInv
<1> HIDE DEF p
<1>9. unread' \in Seq(Unit)
  BY <1>1, <1>2
<1>10. x.parsed \in Nat => buf' \in Seq(Unit)
  <2> SUFFICES ASSUME x.parsed \in Nat PROVE buf' \in Seq(Unit)
    OBVIOUS
  <2>1. SubSeq(feed, x.parsed + 1, Len(feed)) \in Seq(Unit)
    BY <1>4
  <2>2. QED BY <1>2, <2>1 DEF Advance
<1>11. CASE p.errno = "OK" /\ data # <<>>
  <2>1. IsParser(x.p) /\ Good(x.p) /\ x.parsed \in 0 .. Len(data)
    BY <1>4, <1>5, <1>7, <1>11, <1>6, ExecuteKeeps
  <2>2. past = 0
    BY <1>1, <1>8, <1>11
  <2>3. past' = 0
    BY <1>1, <1>2, <1>4, <1>5, <2>1, <2>2
  <2>4. QED BY <1>1, <1>2, <1>4, <1>5, <1>9, <1>10, <2>1, <2>3 DEF IntakeInv
<1>12. CASE p.errno # "OK" \/ data = <<>>
  <2>1. /\ IsParser(x.p) /\ Good(x.p) /\ x.ev = <<>>
        /\ x.parsed = 0 \/ (x.parsed = 1 /\ x.p.errno # "OK")
        /\ p.errno # "OK" => x.p = p /\ x.parsed = 0
    <3>1. CASE p.errno # "OK"
      <4>1. x = Result(p, 0, <<>>, FALSE)
        BY <1>6, <3>1, FailedStays
      <4>2. QED BY <1>7, <4>1 DEF Result
    <3>2. CASE p.errno = "OK"
      <4>1. x = AtEof(p)
        BY <1>12, <1>6, <3>2 DEF http_parser_execute
      <4>2. QED BY <1>7, <3>2, <4>1 DEF AtEof, Result, IsParser, Good
    <3>3. QED BY <3>1, <3>2
  <2>2. pending' = <<>>
    BY <1>2, <2>1
  <2>3. past' \in Nat
    <3> HIDE DEF len
    <3>1. len \in Int /\ x.parsed \in Int
      BY <1>1, <2>1 DEF len
    <3>2. QED BY <1>2, <3>1
  <2>4. past' > 0 => x.p.errno # "OK"
    <3>1. CASE p.errno # "OK"
      BY <2>1, <3>1
    <3>2. CASE p.errno = "OK"
      <4>1. past = 0
        BY <1>1, <1>8, <3>2
      <4>2. len \in Nat
        BY <1>1, <4>1
      <4> HIDE DEF len
      <4>3. x.parsed = 0 => past' = 0
        BY <1>2, <4>2
      <4>4. QED BY <2>1, <4>3
    <3>3. QED BY <3>1, <3>2
  <2>5. QED BY <1>1, <1>2, <1>9, <1>10, <2>1, <2>2, <2>3, <2>4 DEF IntakeInv
<1>13. QED BY <1>11, <1>12

\* Every step of the connection keeps the invariant; only a read changes past.
LEMMA IntakeInvStep == IntakeInv /\ [Next]_vars => IntakeInv'
<1> SUFFICES ASSUME IntakeInv, [Next]_vars PROVE IntakeInv'
  OBVIOUS
<1>1. CASE ClientSends
  <2>1. /\ sent' = sent + 1 /\ unread' = unread \o Message(sent + 1) /\ sent < Len(Forms)
        /\ buf' = buf /\ past' = past /\ parser' = parser /\ next_new_req' = next_new_req
        /\ pending' = pending
    BY <1>1 DEF ClientSends, intake
  <2>2. sent + 1 \in Requests
    BY <2>1, FormAssumption DEF IntakeInv, Requests
  <2>3. Message(sent + 1) \in Seq(Unit)
    BY <2>2, MessageIs
  <2>4. unread' \in Seq(Unit)
    BY <2>1, <2>3, Joined DEF IntakeInv
  <2>5. QED BY <2>1, <2>4 DEF IntakeInv
<1>2. CASE CaOnReadErr
  BY <1>2 DEF CaOnReadErr, IntakeInv, net, intake
<1>3. CASE HOnBody
  BY <1>3 DEF HOnBody, IntakeInv, net, intake
<1>4. CASE HOnMessageComplete
  BY <1>4 DEF HOnMessageComplete, IntakeInv, net
<1>5. CASE ActDoneCallback
  BY <1>5 DEF ActDoneCallback, IntakeInv, net, intake
<1>6. CASE \E k \in 0 .. Len(unread) : CaOnRead(k)
  BY <1>6, CaOnReadKeeps
<1>7. CASE UNCHANGED vars
  BY <1>7 DEF vars, IntakeInv, net, intake
<1>8. QED BY <1>1, <1>2, <1>3, <1>4, <1>5, <1>6, <1>7 DEF Next, Callback

\* A length that became negative (read_idx beyond write_idx, ca.cc:81) is never read:
\* the parser it is passed to has failed before, and is not replaced any more.
THEOREM NegativeLengthNeverUsed == Spec => []NegativeLengthUnused
<1>1. Init => IntakeInv
  BY IntakeInvInit
<1>2. IntakeInv /\ [Next]_vars => IntakeInv'
  BY IntakeInvStep
<1>3. IntakeInv => NegativeLengthUnused
  BY DEF IntakeInv, NegativeLengthUnused
<1>4. QED BY <1>1, <1>2, <1>3, PTL DEF Spec
=============================================================================
