----------------------------- MODULE HttpParser -----------------------------
(***************************************************************************)
(* http_parser_execute (uv/http-parser/http_parser.c) for a parser that    *)
(* ca.cc sets up: HTTP_REQUEST, strict, with the callbacks on_body and     *)
(* on_message_complete, both of which return 0.  The states for responses  *)
(* are never entered.                                                      *)
(*                                                                         *)
(* Input is a sequence of units.  A unit is a character (its ASCII code)   *)
(* or a run of letters the parser compares one by one with a known word:   *)
(* a word is cut in two units, so that a read can still end inside it.     *)
(* Letters of the input are in the case the parser turns them into.        *)
(***************************************************************************)
EXTENDS Integers, Sequences

CONSTANTS ULLONG_MAX,           \* the largest uint64_t, here a smaller one
          HTTP_MAX_HEADER_SIZE  \* bound of the code on a head, in units

ASSUME ParserAssumption ==
    /\ ULLONG_MAX \in Nat /\ ULLONG_MAX >= 16
    /\ HTTP_MAX_HEADER_SIZE \in Nat

TAB == 9
LF == 10
CR == 13
SP == 32
Hash == 35
Star == 42
Comma == 44
Dot == 46
Slash == 47
Colon == 58
Semicolon == 59
Question == 63
At == 64

(* Halves of words: "HTTP/" is "H" and TTP, "content-length" is CON and    *)
(* TENT_LENGTH, and so on.                                                 *)
TTP == 256
OST == 257
UT == 258
ONNECT == 259
ET == 260
CON == 261
NECTION == 262
TENT_LENGTH == 263
PROXY_CON == 264
TRANSFER == 265
ENCODING == 266
UP == 267
GRADE == 268
CHUN == 269
KED == 270
KEEP == 271
ALIVE == 272
CLO == 273
SE == 274
Words == 256 .. 274

IS_NUM(c) == c \in 48 .. 57
IS_ALPHA(c) == c \in 65 .. 90 \cup 97 .. 122 \cup Words

(* A character of a header's name: the table tokens without the space. *)
TOKEN(c) == \/ IS_ALPHA(c) \/ IS_NUM(c)
            \/ c \in {33, 42, 43, 45, 46, 124, 126} \cup 35 .. 39 \cup 94 .. 96

IS_URL_CHAR(c) == c \in (33 .. 126 \ {Hash, Question}) \cup Words

IS_USERINFO_CHAR(c) ==
    \/ IS_ALPHA(c) \/ IS_NUM(c)
    \/ c \in {33, 36, 37, 38, 43, 44, 45, 46, 58, 59, 61, 95, 126} \cup 39 .. 42

IS_HEADER_CHAR(c) == c \in {CR, LF, TAB} \/ (c > 31 /\ c # 127)

unhex(c) == CASE c \in 48 .. 57  -> c - 48
              [] c \in 65 .. 70  -> c - 55
              [] c \in 97 .. 102 -> c - 87
              [] OTHER -> -1

Lesser(a, b) == IF a < b THEN a ELSE b
-----------------------------------------------------------------------------
(* http_parser_init with HTTP_REQUEST; method 0 is DELETE. *)
http_parser_init ==
    [state |-> "s_start_req", header_state |-> "h_general", index |-> 0, flags |-> {},
     content_length |-> 0, method |-> "DELETE", http_major |-> 0, http_minor |-> 0,
     upgrade |-> FALSE, errno |-> "OK", nread |-> 0]

(* A run of the parser over data: the parser, the position of p, the       *)
(* callbacks made, body_mark (0: not set), and whether it returned before  *)
(* the end of data.  The states s_header_field and s_header_value have a   *)
(* loop of their own: run is how far p is from its start, was the          *)
(* header_state it began with, skip the place from which memchr looks for  *)
(* the end of the value (0: it does not). *)
Enter(parser) ==
    [p |-> parser, at |-> 1, ev |-> <<>>, mark |-> 0, left |-> FALSE,
     run |-> 0, was |-> parser.header_state, skip |-> 0]

Fail(m, e) == [m EXCEPT !.p.errno = e]
To(m, s)   == [m EXCEPT !.p.state = s]
Hs(m, h)   == [m EXCEPT !.p.header_state = h]
Flag(m, f) == [m EXCEPT !.p.flags = @ \cup {f}]

(* COUNT_HEADER_SIZE.  What the loop of a header's name or value has gone  *)
(* over is counted in one piece, when it is left.                          *)
Count(m, v) ==
    IF m.p.nread + v > HTTP_MAX_HEADER_SIZE
    THEN Fail([m EXCEPT !.p.nread = @ + v], "HEADER_OVERFLOW")
    ELSE [m EXCEPT !.p.nread = @ + v]

CountRun(m) == [Count(m, m.run) EXCEPT !.run = 0, !.skip = 0]

(* http_should_keep_alive, for a request. *)
http_should_keep_alive(p) ==
    IF p.http_major > 0 /\ p.http_minor > 0
    THEN "F_CONNECTION_CLOSE" \notin p.flags
    ELSE "F_CONNECTION_KEEP_ALIVE" \in p.flags

(* Mutant: the build that is not strict. *)
NEW_MESSAGELenient(p) == "s_start_req"

NEW_MESSAGE(p) == IF http_should_keep_alive(p) THEN "s_start_req" ELSE "s_dead"

(* The callbacks: the end of a message, and a piece of body, which the     *)
(* callback is given as a pointer into data.                               *)
OnMessageComplete(m) ==
    [m EXCEPT !.p.state = NEW_MESSAGE(m.p),
              !.ev = Append(@, [is |-> "complete", from |-> m.at, to |-> m.at])]

OnBody(m, to) ==
    [m EXCEPT !.ev = Append(@, [is |-> "body", from |-> m.mark, to |-> to]), !.mark = 0]
-----------------------------------------------------------------------------
(* The request line.  Four of the methods: one more letter told apart is   *)
(* one more entry of the tables.                                           *)
FirstOf == [c \in {67, 71, 80} |-> CASE c = 80 -> "POST" [] c = 67 -> "CONNECT" [] c = 71 -> "GET"]

Rest == [POST |-> OST, PUT |-> UT, CONNECT |-> ONNECT, GET |-> ET]

StartReq(m, ch) ==
    IF ch \in {CR, LF} THEN m ELSE
    LET n == [m EXCEPT !.p.flags = {}, !.p.content_length = ULLONG_MAX] IN
    IF ch \notin DOMAIN FirstOf THEN Fail(n, "INVALID_METHOD")
    ELSE [n EXCEPT !.p.method = FirstOf[ch], !.p.index = 1, !.p.state = "s_req_method"]

ReqMethod(m, ch) ==
    LET n == [m EXCEPT !.p.index = @ + 1]
    IN  CASE ch = SP /\ m.p.index = 2 -> To(n, "s_req_spaces_before_url")
          [] ch = Rest[m.p.method] /\ m.p.index = 1 -> n
          [] m.p.method = "POST" /\ m.p.index = 1 /\ ch = UT -> [n EXCEPT !.p.method = "PUT"]
          [] OTHER -> Fail(m, "INVALID_METHOD")

parse_url_char(s, ch) ==
    IF ch \in {SP, CR, LF, TAB, 12} THEN "s_dead" ELSE
    CASE s = "s_req_spaces_before_url" ->
           CASE ch \in {Slash, Star} -> "s_req_path"
             [] IS_ALPHA(ch) -> "s_req_schema"
             [] OTHER -> "s_dead"
      [] s = "s_req_schema" ->
           CASE IS_ALPHA(ch) -> s
             [] ch = Colon -> "s_req_schema_slash"
             [] OTHER -> "s_dead"
      [] s = "s_req_schema_slash" ->
           IF ch = Slash THEN "s_req_schema_slash_slash" ELSE "s_dead"
      [] s = "s_req_schema_slash_slash" ->
           IF ch = Slash THEN "s_req_server_start" ELSE "s_dead"
      [] s \in {"s_req_server_with_at", "s_req_server_start", "s_req_server"} ->
           CASE ch = Slash -> "s_req_path"
             [] ch = Question -> "s_req_query_string_start"
             [] ch = At /\ s # "s_req_server_with_at" -> "s_req_server_with_at"
             [] IS_USERINFO_CHAR(ch) \/ ch \in {91, 93} -> "s_req_server"
             [] OTHER -> "s_dead"
      [] s = "s_req_path" ->
           CASE IS_URL_CHAR(ch) -> s
             [] ch = Question -> "s_req_query_string_start"
             [] ch = Hash -> "s_req_fragment_start"
             [] OTHER -> "s_dead"
      [] s \in {"s_req_query_string_start", "s_req_query_string"} ->
           CASE IS_URL_CHAR(ch) \/ ch = Question -> "s_req_query_string"
             [] ch = Hash -> "s_req_fragment_start"
             [] OTHER -> "s_dead"
      [] s \in {"s_req_fragment_start", "s_req_fragment"} ->
           CASE IS_URL_CHAR(ch) \/ ch = Question -> "s_req_fragment"
             [] ch = Hash -> s
             [] OTHER -> "s_dead"

UrlChar(m, s, ch) ==
    LET t == parse_url_char(s, ch)
    IN  IF t = "s_dead" THEN Fail(To(m, t), "INVALID_URL") ELSE To(m, t)

ReqSpacesBeforeUrl(m, ch) ==
    IF ch = SP THEN m
    ELSE UrlChar(m, IF m.p.method = "CONNECT" THEN "s_req_server_start" ELSE m.p.state, ch)

UrlNoSpace == {"s_req_schema", "s_req_schema_slash", "s_req_schema_slash_slash",
               "s_req_server_start"}
UrlMayEnd  == {"s_req_server", "s_req_server_with_at", "s_req_path",
               "s_req_query_string_start", "s_req_query_string",
               "s_req_fragment_start", "s_req_fragment"}

ReqUrl(m, ch) ==
    CASE ch = SP -> To(m, "s_req_http_start")
      [] ch \in {CR, LF} ->
           [m EXCEPT !.p.http_major = 0, !.p.http_minor = 9,
                     !.p.state = IF ch = CR THEN "s_req_line_almost_done"
                                            ELSE "s_header_field_start"]
      [] OTHER -> UrlChar(m, m.p.state, ch)

(* HTTP/ and the version. *)
ReqHttp(m, ch) ==
    CASE m.p.state = "s_req_http_start" ->
           CASE ch = 72 -> To(m, "s_req_http_H")
             [] ch = SP -> m
             [] OTHER -> Fail(m, "INVALID_CONSTANT")
      [] m.p.state = "s_req_http_H" ->
           IF ch = TTP THEN To(m, "s_req_http_major") ELSE Fail(m, "STRICT")
      [] m.p.state = "s_req_http_major" /\ IS_NUM(ch) ->
           [m EXCEPT !.p.http_major = ch - 48, !.p.state = "s_req_http_dot"]
      [] m.p.state = "s_req_http_dot" /\ ch = Dot -> To(m, "s_req_http_minor")
      [] m.p.state = "s_req_http_minor" /\ IS_NUM(ch) ->
           [m EXCEPT !.p.http_minor = ch - 48, !.p.state = "s_req_http_end"]
      [] m.p.state = "s_req_http_end" /\ ch = CR -> To(m, "s_req_line_almost_done")
      [] m.p.state = "s_req_http_end" /\ ch = LF -> To(m, "s_header_field_start")
      [] OTHER -> Fail(m, "INVALID_VERSION")

ReqLineAlmostDone(m, ch) ==
    IF ch = LF THEN To(m, "s_header_field_start") ELSE Fail(m, "LF_EXPECTED")
-----------------------------------------------------------------------------
(* The end of the head, with the LF at hand. *)
MessageDone(m) == [OnMessageComplete(m) EXCEPT !.left = m.p.upgrade]

HeadersDone(n) ==
    LET m == [n EXCEPT !.p.nread = 0]
        chunked == "F_CHUNKED" \in m.p.flags
        hasBody == chunked \/ m.p.content_length \notin {0, ULLONG_MAX}
    IN  IF m.p.upgrade /\ (m.p.method = "CONNECT" \/ ~hasBody)
        THEN [OnMessageComplete(m) EXCEPT !.left = TRUE]
        ELSE IF chunked THEN To(m, "s_chunk_size_start")
        ELSE IF hasBody THEN To(m, "s_body_identity") ELSE OnMessageComplete(m)

HeadersAlmostDone(m, ch) ==
    CASE ch # LF -> Fail(m, "STRICT")
      [] ch = LF /\ "F_TRAILING" \in m.p.flags -> MessageDone(m)
      [] ch = LF /\ "F_TRAILING" \notin m.p.flags ->
           IF {"F_CHUNKED", "F_CONTENTLENGTH"} \subseteq m.p.flags
           THEN Fail(m, "UNEXPECTED_CONTENT_LENGTH")
           ELSE HeadersDone([m EXCEPT !.p.state = "s_headers_done", !.p.upgrade =
                    \/ {"F_UPGRADE", "F_CONNECTION_UPGRADE"} \subseteq m.p.flags
                    \/ m.p.method = "CONNECT"])
-----------------------------------------------------------------------------
(* Names of headers. *)
HeaderFieldStart(m, ch) ==
    CASE ch = CR -> To(m, "s_headers_almost_done")
      [] ch = LF -> HeadersAlmostDone(To(m, "s_headers_almost_done"), ch)
      [] TOKEN(ch) ->
           [m EXCEPT !.p.index = 0, !.p.state = "s_header_field",
                     !.p.header_state = CASE ch = CON -> "h_CON"
                                          [] ch = PROXY_CON -> "h_matching_proxy_connection"
                                          [] ch = TRANSFER -> "h_matching_transfer_encoding"
                                          [] ch = UP -> "h_matching_upgrade"
                                          [] OTHER -> "h_general"]
      [] OTHER -> Fail(m, "INVALID_HEADER_TOKEN")

NameState(h, c) ==
    CASE h \in {"h_CON", "h_matching_proxy_connection"} /\ c = NECTION -> "h_connection"
      [] h = "h_CON" /\ c = TENT_LENGTH -> "h_content_length"
      [] h = "h_matching_transfer_encoding" /\ c = ENCODING -> "h_transfer_encoding"
      [] h = "h_matching_upgrade" /\ c = GRADE -> "h_upgrade"
      [] OTHER -> "h_general"

NameEnds(m, ch) ==
    IF m.p.errno # "OK" THEN m
    ELSE IF ch = Colon THEN To(m, "s_header_value_discard_ws")
    ELSE Fail(m, "INVALID_HEADER_TOKEN")

HeaderField(m, ch) ==
    IF TOKEN(ch) THEN [Hs(m, NameState(m.p.header_state, ch)) EXCEPT !.run = @ + 1]
    ELSE NameEnds(CountRun(m), ch)
-----------------------------------------------------------------------------
(* Values of headers: their first character ... *)
TokenState(ch) == CASE ch = KEEP -> "h_matching_connection_keep_alive"
                    [] ch = CLO  -> "h_matching_connection_close"
                    [] ch = UP   -> "h_matching_connection_upgrade"
                    [] OTHER     -> "h_matching_connection_token"

HeaderValueStart(n, ch) ==
    LET m == [n EXCEPT !.p.state = "s_header_value", !.p.index = 0]
        h == m.p.header_state
    IN  CASE h = "h_upgrade" -> Hs(Flag(m, "F_UPGRADE"), "h_general")
          [] h = "h_transfer_encoding" ->
               Hs(m, IF ch = CHUN THEN "h_matching_transfer_encoding_chunked" ELSE "h_general")
          [] h = "h_content_length" ->
               IF ~IS_NUM(ch) THEN Fail(m, "INVALID_CONTENT_LENGTH")
               ELSE IF "F_CONTENTLENGTH" \in m.p.flags
               THEN Fail(m, "UNEXPECTED_CONTENT_LENGTH")
               ELSE [Hs(Flag(m, "F_CONTENTLENGTH"), "h_content_length_num")
                        EXCEPT !.p.content_length = ch - 48]
          [] h = "h_connection" -> Hs(m, TokenState(ch))
          [] h = "h_matching_connection_token_start" -> m
          [] OTHER -> Hs(m, "h_general")

HeaderValueDiscardWs(m, ch) ==
    CASE ch \in {SP, TAB} -> m
      [] ch = CR -> To(m, "s_header_value_discard_ws_almost_done")
      [] ch = LF -> To(m, "s_header_value_discard_lws")
      [] OTHER -> HeaderValueStart(m, ch)

(* Mutant: no test for overflow. *)
AnotherDigitUnchecked(m, base, d) ==
    [m EXCEPT !.p.content_length = (@ * base + d) % (ULLONG_MAX + 1)]

(* ... the digits of a length, decimal or hexadecimal: one more digit, and *)
(* the conservative test of the length before it ... *)
AnotherDigit(m, base, d) ==
    IF (ULLONG_MAX - base) \div base < m.p.content_length
    THEN Fail(m, "INVALID_CONTENT_LENGTH")
    ELSE [m EXCEPT !.p.content_length = (@ * base + d) % (ULLONG_MAX + 1)]

ContentLengthValue(m, ch) ==
    CASE ch = SP -> Hs(m, "h_content_length_ws")
      [] m.p.header_state = "h_content_length_num" /\ IS_NUM(ch) ->
           AnotherDigit(m, 10, ch - 48)
      [] OTHER -> Fail(m, "INVALID_CONTENT_LENGTH")

(* ... the tokens of Connection ... *)
FlagOf == [h_connection_keep_alive     |-> "F_CONNECTION_KEEP_ALIVE",
           h_connection_close          |-> "F_CONNECTION_CLOSE",
           h_connection_upgrade        |-> "F_CONNECTION_UPGRADE",
           h_transfer_encoding_chunked |-> "F_CHUNKED"]

ConnectionValue(m, ch) ==
    LET h == m.p.header_state
        token == "h_matching_connection_token"
    IN  CASE h = "h_matching_connection_token_start" ->
               CASE ch \in {SP, TAB} -> m
                 [] TOKEN(ch) -> Hs(m, TokenState(ch))
                 [] OTHER -> Hs(m, "h_general")
          [] h = "h_matching_connection_keep_alive" ->
               Hs(m, IF ch = ALIVE THEN "h_connection_keep_alive" ELSE token)
          [] h = "h_matching_connection_close" ->
               Hs(m, IF ch = SE THEN "h_connection_close" ELSE token)
          [] h = "h_matching_connection_upgrade" ->
               Hs(m, IF ch = GRADE THEN "h_connection_upgrade" ELSE token)
          [] h = token ->
               IF ch = Comma THEN Hs(m, "h_matching_connection_token_start") ELSE m
          [] OTHER ->
               CASE ch = Comma -> Hs(Flag(m, FlagOf[h]), "h_matching_connection_token_start")
                 [] ch = SP -> m
                 [] OTHER -> Hs(m, token)

HeaderAlmostDone(m, ch) ==
    IF ch = LF THEN To(m, "s_header_value_lws") ELSE Fail(m, "LF_EXPECTED")

(* ... one more character ... *)
ValueChar(m, ch) ==
    LET h == m.p.header_state
    IN  CASE h = "h_general" -> [m EXCEPT !.skip = m.at]
          [] h \in {"h_content_length_num", "h_content_length_ws"} -> ContentLengthValue(m, ch)
          [] h = "h_matching_transfer_encoding_chunked" ->
               Hs(m, IF ch = KED THEN "h_transfer_encoding_chunked" ELSE "h_general")
          [] h = "h_transfer_encoding_chunked" -> IF ch = SP THEN m ELSE Hs(m, "h_general")
          [] OTHER -> ConnectionValue(m, ch)

(* ... and the value as a whole.  In a value of no interest only the first *)
(* character of each run of the loop is looked at: the rest is skipped, up *)
(* to CR or LF, or to the end of data when memchr, which looks at no more  *)
(* than the longest head there may be, finds neither.  The header_state is *)
(* a copy the loop writes back at its end, and not before an LF is counted *)
(* or a character refused.                                                 *)
Skipped(m, ch) == m.skip # 0 /\ (ch \in {CR, LF} => m.at >= m.skip + HTTP_MAX_HEADER_SIZE)

ValueEnds(m) == IF m.p.errno = "OK" THEN HeaderAlmostDone(m, LF) ELSE Hs(m, m.was)

HeaderValue(n, ch) ==
    LET m == IF n.run = 0 THEN [n EXCEPT !.was = n.p.header_state] ELSE n
    IN  CASE Skipped(m, ch) -> [m EXCEPT !.run = @ + 1]
          [] ~Skipped(m, ch) /\ ch = CR -> CountRun(To(m, "s_header_almost_done"))
          [] ~Skipped(m, ch) /\ ch = LF -> ValueEnds(CountRun(To(m, "s_header_almost_done")))
          [] OTHER -> IF IS_HEADER_CHAR(ch) THEN [ValueChar(m, ch) EXCEPT !.run = @ + 1]
                      ELSE Fail(Hs(m, m.was), "INVALID_HEADER_TOKEN")

(* The end of a header: what its value turned out to be counts. *)
Finished(m) ==
    IF m.p.header_state \in DOMAIN FlagOf THEN Flag(m, FlagOf[m.p.header_state]) ELSE m

HeaderValueLws(m, ch) ==
    IF ch \in {SP, TAB} THEN HeaderValueStart(m, ch)
    ELSE HeaderFieldStart(To(Finished(m), "s_header_field_start"), ch)

HeaderValueDiscardWsAlmostDone(m, ch) ==
    IF ch = LF THEN To(m, "s_header_value_discard_lws") ELSE Fail(m, "STRICT")

HeaderValueDiscardLws(m, ch) ==
    IF ch \in {SP, TAB} THEN To(m, "s_header_value_discard_ws")
    ELSE HeaderFieldStart(To(Finished(m), "s_header_field_start"), ch)
-----------------------------------------------------------------------------
(* Bodies.  A body of known length is handed on as soon as its end, or the *)
(* end of data, is met; the data of a chunk when its CR is.                *)
ToRead(m, data) == Lesser(m.p.content_length, Len(data) - m.at + 1)

Mark(m) == IF m.mark = 0 THEN [m EXCEPT !.mark = m.at] ELSE m

BodyIdentity(n, data) ==
    LET m == Mark(n)
        k == ToRead(m, data)
        r == [m EXCEPT !.p.content_length = @ - k, !.at = @ + k - 1]
    IN  IF r.p.content_length = 0
        THEN MessageDone(OnBody(To(r, "s_message_done"), r.at))
        ELSE r

ChunkSizeStart(m, ch) ==
    IF unhex(ch) = -1 THEN Fail(m, "INVALID_CHUNK_SIZE")
    ELSE [m EXCEPT !.p.content_length = unhex(ch), !.p.state = "s_chunk_size"]

ChunkSize(m, ch) ==
    CASE ch = CR -> To(m, "s_chunk_size_almost_done")
      [] unhex(ch) # -1 -> AnotherDigit(m, 16, unhex(ch))
      [] ch \in {Semicolon, SP} -> To(m, "s_chunk_parameters")
      [] OTHER -> Fail(m, "INVALID_CHUNK_SIZE")

ChunkParameters(m, ch) == IF ch = CR THEN To(m, "s_chunk_size_almost_done") ELSE m

ChunkSizeAlmostDone(m, ch) ==
    CASE ch # LF -> Fail(m, "STRICT")
      [] ch = LF /\ m.p.content_length = 0 ->
           Flag(To([m EXCEPT !.p.nread = 0], "s_header_field_start"), "F_TRAILING")
      [] OTHER -> To([m EXCEPT !.p.nread = 0], "s_chunk_data")

ChunkData(n, data) ==
    LET m == Mark(n)
        k == ToRead(m, data)
        r == [m EXCEPT !.p.content_length = @ - k, !.at = @ + k - 1]
    IN  IF r.p.content_length = 0 THEN To(r, "s_chunk_data_almost_done") ELSE r

ChunkDataAlmostDone(m, ch) ==
    LET n == To(m, "s_chunk_data_done")
    IN  CASE ch # CR -> Fail(m, "STRICT")
          [] ch = CR /\ m.mark # 0 -> OnBody(n, m.at - 1)
          [] OTHER -> n

ChunkDataDone(m, ch) ==
    IF ch = LF THEN [To(m, "s_chunk_size_start") EXCEPT !.p.nread = 0] ELSE Fail(m, "STRICT")
-----------------------------------------------------------------------------
(* The state before this one gave the connection up. *)
Dead(m, ch) == IF ch \in {CR, LF} THEN m ELSE Fail(m, "CLOSED_CONNECTION")

BodyStates == {"s_chunk_data", "s_chunk_data_almost_done", "s_chunk_data_done",
               "s_body_identity", "s_message_done"}

(* The unit a turn of the outer loop begins with is counted before it is   *)
(* looked at.                                                              *)
Counted(m) == IF m.p.state \in BodyStates \/ m.run > 0 THEN m ELSE Count(m, 1)

(* The switch over the state. *)
OnUnit(m, data, ch) ==
    LET s == m.p.state
    IN  CASE s = "s_dead" -> Dead(m, ch)
          [] s = "s_start_req" -> StartReq(m, ch)
          [] s = "s_req_method" -> ReqMethod(m, ch)
          [] s = "s_req_spaces_before_url" -> ReqSpacesBeforeUrl(m, ch)
          [] s \in UrlNoSpace -> UrlChar(m, s, ch)
          [] s \in UrlMayEnd -> ReqUrl(m, ch)
          [] s \in {"s_req_http_start", "s_req_http_H", "s_req_http_major", "s_req_http_dot",
                    "s_req_http_minor", "s_req_http_end"} -> ReqHttp(m, ch)
          [] s = "s_req_line_almost_done" -> ReqLineAlmostDone(m, ch)
          [] s = "s_header_field_start" -> HeaderFieldStart(m, ch)
          [] s = "s_header_field" -> HeaderField(m, ch)
          [] s = "s_header_value_discard_ws" -> HeaderValueDiscardWs(m, ch)
          [] s = "s_header_value_discard_ws_almost_done" -> HeaderValueDiscardWsAlmostDone(m, ch)
          [] s = "s_header_value_discard_lws" -> HeaderValueDiscardLws(m, ch)
          [] s = "s_header_value" -> HeaderValue(m, ch)
          [] s = "s_header_value_lws" -> HeaderValueLws(m, ch)
          [] s = "s_header_almost_done" -> HeaderAlmostDone(m, ch)
          [] s = "s_headers_almost_done" -> HeadersAlmostDone(m, ch)
          [] s = "s_body_identity" -> BodyIdentity(m, data)
          [] s = "s_chunk_size_start" -> ChunkSizeStart(m, ch)
          [] s = "s_chunk_size" -> ChunkSize(m, ch)
          [] s = "s_chunk_parameters" -> ChunkParameters(m, ch)
          [] s = "s_chunk_size_almost_done" -> ChunkSizeAlmostDone(m, ch)
          [] s = "s_chunk_data" -> ChunkData(m, data)
          [] s = "s_chunk_data_almost_done" -> ChunkDataAlmostDone(m, ch)
          [] s = "s_chunk_data_done" -> ChunkDataDone(m, ch)

(* One turn of the loop, the outer or an inner one: the unit is counted,   *)
(* looked at, and left behind unless it is refused.                        *)
AtUnit(m, data) == IF m.p.errno # "OK" THEN m ELSE OnUnit(m, data, data[m.at])

Ahead(m) == IF m.p.errno # "OK" THEN m ELSE [m EXCEPT !.at = @ + 1]

Turn(m, data) ==
    IF m.at > Len(data) \/ m.left \/ m.p.errno # "OK" THEN m
    ELSE Ahead(AtUnit(Counted(m), data))

(* The loop: every turn takes a unit at least.  Turns are made eight at a  *)
(* time, which keeps the recursion shallow.                                *)
Loop(start, data) ==
    LET run[b \in Nat] ==
            LET m == IF b = 0 THEN start ELSE run[b - 1]
                turns[i \in Nat] == IF i = 0 THEN m ELSE Turn(turns[i - 1], data)
            IN  IF m.at > Len(data) THEN m ELSE turns[8]
    IN  run[Len(data) \div 8]

Result(p, parsed, ev, left) == [p |-> p, parsed |-> parsed, ev |-> ev, left |-> left]

(* Mutant: the end of the input inside a message leaves no error behind. *)
AtEofSilent(p) == Result(p, IF p.state \in {"s_dead", "s_start_req"} THEN 0 ELSE 1, <<>>, FALSE)

(* No data at all stands for the end of the input, which is an error       *)
(* inside a message, answered with a length of 1.                          *)
AtEof(p) ==
    IF p.state \in {"s_dead", "s_start_req"} THEN Result(p, 0, <<>>, FALSE)
    ELSE Result([p EXCEPT !.errno = "INVALID_EOF_STATE"], 1, <<>>, FALSE)

(* Mutant: p is not taken back to the last character. *)
CountLastBehind(m, data) ==
    LET n == Count(m, m.run)
    IN  IF m.p.errno # "OK" \/ m.run = 0 THEN m
        ELSE IF n.p.errno = "OK" THEN n ELSE [n EXCEPT !.at = Len(data)]

(* A name or a value that goes on behind data is counted up to the last    *)
(* character, the first one being counted already.  p is at the last one,  *)
(* and stays there when it is one too many.                                *)
CountLast(m, data) ==
    LET n == Count(m, m.run - 1)
    IN  IF m.p.errno # "OK" \/ m.run < 2 THEN m
        ELSE IF n.p.errno = "OK" THEN n ELSE [n EXCEPT !.at = Len(data)]

(* A piece of body that goes on behind data. *)
LeftOver(m, data) == IF m.p.errno = "OK" /\ m.mark # 0 THEN OnBody(m, Len(data)) ELSE m

Returned(m) == Result(m.p, m.at - 1, m.ev, m.left)

(* http_parser_execute: the parser afterwards, the number of units parsed, *)
(* the callbacks, and whether it stopped for another protocol.             *)
http_parser_execute(p, data) ==
    IF p.errno # "OK" THEN Result(p, 0, <<>>, FALSE)
    ELSE IF data = <<>> THEN AtEof(p)
    ELSE Returned(LeftOver(CountLast(Loop(Enter(p), data), data), data))
=============================================================================
