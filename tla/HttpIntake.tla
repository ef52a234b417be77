----------------------------- MODULE HttpIntake -----------------------------
(***************************************************************************)
(* One HTTP connection of the consumer agent (uv/ca.cc): how the bytes a   *)
(* client sends become calls, and how the answers go back.  _ca_on_read    *)
(* runs the parser (HttpParser) once over what is in the buffer; the       *)
(* parser calls _h_on_body for each piece of a body it meets, and          *)
(* _h_on_body starts a call for each piece.  A new parser is set up at the *)
(* first read after a message was completed.                               *)
(*                                                                         *)
(* The field names of a form are one character each (the code compares     *)
(* hashes of the names), values are ASCII codes.                           *)
(***************************************************************************)
EXTENDS HttpMessage, FiniteSets

CONSTANTS Forms,       \* the forms: sequences of pairs [name, value]
          Framing,     \* how each is framed: "length", "chunked", or "none"
          MaxPartial,  \* bound: reads that bring less than what has arrived
          MaxEmpty     \* bound: read callbacks that bring nothing

Percent == 37
Amp     == 38
Equals  == 61
Plus    == 43

(* The four names: interface, method, parameterTypesString, parameter. *)
Parameter == 112
Names == {105, 109, 116, Parameter}
KeyNames == Names \ {Parameter}

Pair == [name : Names, value : Seq(Int)]

IsHex(c) == c \in 48 .. 57 \cup 65 .. 70 \cup 97 .. 102

(* The places of a value where an escape begins. *)
EscapesOf(v) == {i \in DOMAIN v : v[i] = Percent /\ i + 2 <= Len(v)}

(* Forms have every field once, in any order, neither & nor = in a value,  *)
(* no % inside an escape, and no +, which stands for a space and is passed *)
(* on as it is (ca.cc:160).  What follows a % need not be hexadecimal.     *)
ASSUME FormAssumption ==
    /\ MaxPartial \in Nat /\ MaxEmpty \in Nat
    /\ Forms \in Seq(Seq(Pair))
    /\ DOMAIN Framing = DOMAIN Forms /\ Range(Framing) \subseteq {"length", "chunked", "none"}
    /\ \A r \in DOMAIN Forms :
         /\ {Forms[r][k].name : k \in DOMAIN Forms[r]} = Names
         /\ Len(Forms[r]) = 4
         /\ \A k \in DOMAIN Forms[r] : LET v == Forms[r][k].value IN
              /\ {Amp, Equals, Plus} \cap Range(v) = {}
              /\ \A i \in EscapesOf(v) : Percent \notin {v[i + 1], v[i + 2]}

VARIABLES sent,          \* requests the client has sent
          unread,        \* units in the socket
          buf,           \* units in the connection's buffer, from read_idx on
          past,          \* how far read_idx is beyond write_idx
          parser,        \* the http_parser of the connection
          next_new_req,  \* a new parser is due at the next read
          pending,       \* callbacks http_parser_execute has still to make
          fetches,       \* calls started and not answered: [req, nth, fields]
          fetched,       \* how many calls each request has started
          answers,       \* the requests answered, in the order of the answers
          status,        \* "open", "closed", or "crashed"
          partial,       \* partial reads so far
          empties,       \* reads of nothing so far
          split,         \* history: requests whose body came in pieces
          pipelined,     \* history: a request was sent before the last answer
          hollow         \* history: a read of nothing in the middle of a message

net    == <<sent, unread, pipelined>>
intake == <<buf, past, parser, next_new_req>>
reads  == <<partial, empties, hollow>>
vars   == <<net, intake, pending, fetches, fetched, answers, status, reads, split>>

Requests == DOMAIN Forms

(* The characters of each body. *)
Body ==
    [r \in Requests |->
        FlattenSeq([k \in DOMAIN Forms[r] |->
            (IF k = 1 THEN <<>> ELSE <<Amp>>) \o <<Forms[r][k].name, Equals>> \o Forms[r][k].value])]

(* A number in base 10 or 16. *)
Digit(d) == IF d < 10 THEN 48 + d ELSE 87 + d
Digits(n, base) == (IF n < base THEN <<>> ELSE <<Digit(n \div base)>>) \o <<Digit(n % base)>>

Chunk(u) == Digits(Len(u), 16) \o <<CR, LF>> \o u \o <<CR, LF>>

(* The header that frames the body, and the body.  A chunked body comes in *)
(* two chunks; a request with no body has no form to send.                 *)
FramingHeader(r) ==
    CASE Framing[r] = "length"  -> <<[name |-> ContentLength, value |-> Digits(Len(Body[r]), 10)]>>
      [] Framing[r] = "chunked" -> <<[name |-> TransferEncoding, value |-> <<CHUN, KED>>]>>
      [] Framing[r] = "none"    -> <<>>

Payload(r) ==
    LET b == Body[r]
        h == Len(b) \div 2
    IN  CASE Framing[r] = "length"  -> b
          [] Framing[r] = "chunked" -> Chunk(SubSeq(b, 1, h)) \o Chunk(SubSeq(b, h + 1, Len(b)))
                                       \o <<48, CR, LF, CR, LF>>
          [] Framing[r] = "none"    -> <<>>

(* The request as it is sent, every unit with its request. *)
Message(r) ==
    LET all == HeadOf([method |-> "POST", url |-> <<Slash>>, minor |-> 1, eol |-> <<CR, LF>>,
                       headers |-> FramingHeader(r)]) \o Payload(r)
    IN  [i \in DOMAIN all |-> [req |-> r, ch |-> all[i]]]

Chars(u) == SubSeq([i \in DOMAIN u |-> u[i].ch], 1, Len(u))

Init ==
    /\ sent = 0 /\ unread = <<>> /\ pipelined = FALSE
    /\ buf = <<>> /\ past = 0 /\ parser = http_parser_init /\ next_new_req = TRUE
    /\ pending = <<>>
    /\ fetches = {} /\ fetched = [r \in Requests |-> 0] /\ answers = <<>>
    /\ status = "open" /\ partial = 0 /\ empties = 0 /\ hollow = FALSE /\ split = {}

(***************************************************************************)
(* The client sends the next request, normally when it has seen an answer  *)
(* to every one before.                                                    *)
(***************************************************************************)
ClientSends ==
    /\ status = "open" /\ sent < Len(Forms)
    /\ sent' = sent + 1
    /\ unread' = unread \o Message(sent + 1)
    /\ pipelined' = (pipelined \/ \E r \in 1 .. sent : r \notin Range(answers))
    /\ UNCHANGED <<intake, pending, fetches, fetched, answers, status, reads, split>>

(* Mutant: a parser for every read. *)
ReinitAlways == http_parser_init

(* A new parser, if one is due. *)
Reinit == IF next_new_req THEN http_parser_init ELSE parser

(* Mutant: read_idx stays where it was. *)
AdvanceNot(feed, parsed) == feed

(* read_idx += parsed. *)
Advance(feed, parsed) == SubSeq(feed, parsed + 1, Len(feed))

(***************************************************************************)
(* _ca_on_read: the read, the new parser if one is due, and the one call   *)
(* of http_parser_execute over write_idx - read_idx units.  The callbacks  *)
(* it makes are steps of their own.  A read that filled the room the       *)
(* buffer had may be followed by one that brings nothing (nread = 0).      *)
(***************************************************************************)
CaOnRead(k) ==
    /\ status = "open" /\ pending = <<>>
    /\ \/ k > 0 /\ k = Len(unread) /\ UNCHANGED <<partial, empties>>
       \/ k > 0 /\ k < Len(unread) /\ partial < MaxPartial
          /\ partial' = partial + 1 /\ UNCHANGED empties
       \/ k = 0 /\ empties < MaxEmpty /\ empties' = empties + 1 /\ UNCHANGED partial
    /\ unread' = SubSeq(unread, k + 1, Len(unread))
    /\ next_new_req' = FALSE
    /\ LET len == Len(buf) + k - past IN
       \E feed \in {SubSeq(buf \o SubSeq(unread, 1, k), past + 1, Len(buf) + k)} :
       \E data \in {Chars(feed)} :
       \E x \in {http_parser_execute(Reinit, data)} :
         /\ parser' = x.p
         /\ pending' = [i \in DOMAIN x.ev |->
                          [is |-> x.ev[i].is, data |-> SubSeq(feed, x.ev[i].from, x.ev[i].to)]]
         /\ buf' = Advance(feed, x.parsed)
         /\ past' = IF x.parsed > len THEN x.parsed - len ELSE 0
         /\ hollow' = (hollow \/ x.p.errno = "INVALID_EOF_STATE")
    /\ UNCHANGED <<sent, pipelined, fetches, fetched, answers, status, split>>

(* nread < 0: the handle is closed; the calls of the connection go on. *)
CaOnReadErr ==
    /\ status = "open" /\ pending = <<>>
    /\ status' = "closed"
    /\ UNCHANGED <<net, intake, pending, fetches, fetched, answers, reads, split>>

(***************************************************************************)
(* _h_on_body, lines 226-252: the scan of a form.  The names run up to '=',*)
(* the values up to '&'; positions are those of the piece, from 1.  When   *)
(* the piece ends in '&' the loop makes one more turn, which finds an      *)
(* empty name and sets parameter_v_start beyond parameter_v_end.           *)
(***************************************************************************)
FirstFrom(s, c, i) ==
    IF \E j \in i .. Len(s) : s[j] = c
    THEN CHOOSE j \in i .. Len(s) : s[j] = c /\ \A l \in i .. j - 1 : s[l] # c
    ELSE Len(s) + 1

(* The value starts behind the '=' found, and ends before the '&' found. *)
Span(s, p) ==
    LET e == FirstFrom(s, Equals, p)
        v == FirstFrom(s, Amp, e)
        n == SubSeq(s, p, e - 1)
    IN  [field |-> IF \E x \in KeyNames : n = <<x>> THEN n[1] ELSE Parameter,
         from |-> e + 1, to |-> v - 1]

(* Mutant: the next name is taken to begin at the '&'. *)
ResumeAtAmp(sp) == sp.to + 1

(* The next name begins behind the '&'. *)
Resume(sp) == sp.to + 2

Spans(s) ==
    LET scan[p \in 1 .. Len(s) + 1] ==
            LET sp == Span(s, p) IN
            IF sp.to < Len(s) THEN <<sp>> \o scan[Resume(sp)] ELSE <<sp>>
    IN  IF s = <<>> THEN <<>> ELSE scan[1]

Found(spans) == {spans[k].field : k \in DOMAIN spans}

(* The span of a field: the last one found under its name. *)
SpanOf(spans, n) ==
    spans[CHOOSE k \in DOMAIN spans :
            /\ spans[k].field = n
            /\ \A j \in k + 1 .. Len(spans) : spans[j].field # n]

(* Start and end of every field were assigned, and no length is negative.  *)
(* Otherwise the code goes on with values nobody set, or copies a negative *)
(* number of bytes.                                                        *)
Defined(spans) ==
    /\ Found(spans) = Names
    /\ \A n \in Names : SpanOf(spans, n).from <= SpanOf(spans, n).to + 1

(***************************************************************************)
(* hex2int and strn_urlcpy.                                                *)
(***************************************************************************)
(* No branch sets the result for another character: it is what happens to  *)
(* be in its place, and so is the character decoded from it.               *)
Unset == -1

hex2int(c) == CASE c \in 48 .. 57  -> c - 48
                [] c \in 97 .. 102 -> c - 97 + 10
                [] c \in 65 .. 70  -> c - 65 + 10
                [] OTHER -> Unset

Decoded(hi, lo) == IF Unset \in {hex2int(hi), hex2int(lo)} THEN Unset
                   ELSE hex2int(hi) * 16 + hex2int(lo)

(* Mutant: an escape at the very end is not decoded. *)
EscapeAtEarly(src, i) == src[i] = Percent /\ i + 3 <= Len(src)

EscapeAt(src, i) == src[i] = Percent /\ i + 2 <= Len(src)

strn_urlcpy(src) ==
    LET cpy[i \in 1 .. Len(src) + 1] ==
            IF i > Len(src) THEN <<>>
            ELSE IF EscapeAt(src, i) THEN <<Decoded(src[i + 1], src[i + 2])>> \o cpy[i + 3]
            ELSE <<src[i]>> \o cpy[i + 1]
    IN  cpy[1]

(* The key fields are decoded, the parameter is passed on as it came. *)
Fields(s, spans) ==
    [n \in Names |->
        LET t == SubSeq(s, SpanOf(spans, n).from, SpanOf(spans, n).to)
        IN  IF n \in KeyNames THEN strn_urlcpy(t) ELSE t]

(* What the call for a piece of body may be.  Offsets nobody set give      *)
(* fields of no meaning or an access outside memory.                       *)
Garbage == [n \in Names |-> <<>>]

Outcomes(data) ==
    UNION {IF Defined(spans)
           THEN {[fields |-> Fields(data, spans), status |-> "open"]}
           ELSE [fields : {Garbage}, status : {"open", "crashed"}]
             : spans \in {Spans(data)}}

(***************************************************************************)
(* The callbacks of http_parser_execute, in order: _h_on_body for a piece  *)
(* of body, _h_on_message_complete behind the last one.                    *)
(***************************************************************************)
HOnBody ==
    /\ status = "open" /\ pending # <<>> /\ pending[1].is = "body"
    /\ LET r == pending[1].data[1].req IN
       /\ split' = IF Len(pending[1].data) = Len(Body[r]) THEN split ELSE split \cup {r}
       /\ fetched' = [fetched EXCEPT ![r] = @ + 1]
       /\ \E data \in {Chars(pending[1].data)} : \E o \in Outcomes(data) :
            /\ fetches' = fetches \cup {[req |-> r, nth |-> fetched[r], fields |-> o.fields]}
            /\ status' = o.status
    /\ pending' = Tail(pending)
    /\ UNCHANGED <<net, intake, answers, reads>>

HOnMessageComplete ==
    /\ status = "open" /\ pending # <<>> /\ pending[1].is = "complete"
    /\ next_new_req' = TRUE
    /\ pending' = Tail(pending)
    /\ UNCHANGED <<net, buf, past, parser, fetches, fetched, answers, status, reads, split>>

(***************************************************************************)
(* act_done_callback of one call, whichever comes first; nothing reaches   *)
(* the client of a closed connection.                                      *)
(***************************************************************************)
ActDoneCallback ==
    /\ status # "crashed" /\ pending = <<>>
    /\ \E f \in fetches :
         /\ fetches' = fetches \ {f}
         /\ answers' = IF status = "open" THEN Append(answers, f.req) ELSE answers
    /\ UNCHANGED <<net, intake, pending, fetched, status, reads, split>>

Callback == HOnBody \/ HOnMessageComplete

Next == \/ ClientSends \/ CaOnReadErr \/ Callback \/ ActDoneCallback
        \/ \E k \in 0 .. Len(unread) : CaOnRead(k)

(* The event loop reads what has arrived, runs a callback to its end, and  *)
(* calls started are answered (the subject of Mesh).  The steps that empty *)
(* the socket are those of CaOnRead(Len(unread)), the steps that take a    *)
(* callback from pending those of Callback.                                *)
ReadsAll  == status = "open" /\ pending = <<>> /\ unread # <<>> /\ unread' = <<>>
CallsNext == status = "open" /\ pending # <<>> /\ pending' = Tail(pending)

Fairness ==
    /\ WF_unread(ReadsAll)
    /\ WF_pending(CallsNext)
    /\ WF_vars(ActDoneCallback)

Spec == Init /\ [][Next]_vars /\ Fairness
-----------------------------------------------------------------------------
(* A field as the client wrote it. *)
ValueOf(r, n) == Forms[r][CHOOSE k \in 1 .. 4 : Forms[r][k].name = n].value

(* Positions of v that are not inside an escape. *)
Starts(v) == {i \in DOMAIN v : {i - 1, i - 2} \cap EscapesOf(v) = {}}

Byte(x, y) == IF unhex(x) = -1 \/ unhex(y) = -1 THEN Unset ELSE 16 * unhex(x) + unhex(y)

(* The k-th of them. *)
Start(v, k) == CHOOSE i \in Starts(v) : Cardinality({j \in Starts(v) : j <= i}) = k

(* What the client meant by a field: each %XY stands for one character,    *)
(* for no defined one when X or Y is no hexadecimal digit.                 *)
Meant(r, n) ==
    LET v == ValueOf(r, n)
    IN  [k \in 1 .. Cardinality(Starts(v)) |->
            LET i == Start(v, k)
            IN  IF i \in EscapesOf(v) THEN Byte(v[i + 1], v[i + 2]) ELSE v[i]]

(* A body that arrives in one piece starts a call with the key the client  *)
(* meant, whatever the order of the fields, their lengths and escapes.  An *)
(* escape that is none (hex2int leaves its result unset) costs that one    *)
(* character and nothing else.  The parameter reaches the call as it was   *)
(* written, escapes and all (ca.cc:272): it is what the client meant only  *)
(* when it holds no escape.  The Python agent decodes it (ca.py:93).       *)
FieldsRight ==
    \A f \in fetches : f.req \notin split =>
        /\ \A n \in KeyNames : f.fields[n] = Meant(f.req, n)
        /\ f.fields[Parameter] = ValueOf(f.req, Parameter)
        /\ f.fields[Parameter] = Meant(f.req, Parameter)
             <=> EscapesOf(ValueOf(f.req, Parameter)) = {}

(* The client waits for an answer before it sends more, no body comes in   *)
(* pieces, and no read brings nothing inside a message.                    *)
Orderly == ~pipelined /\ split = {} /\ ~hollow

(* Every request of an orderly connection starts one call, or none if it   *)
(* has no body (nobody answers that one, see RequestAnswered): a parser    *)
(* that was replaced too early or kept too long would lose one or start    *)
(* another (ca.cc:75-81).                                                  *)
OneCallEach ==
    Orderly => \A r \in Requests :
        /\ fetched[r] <= 1
        /\ Framing[r] = "none" => fetched[r] = 0
        /\ r < sent /\ Framing[r] # "none" => fetched[r] = 1

(* The parser refuses nothing on an orderly connection: it is replaced     *)
(* only between messages, and reads each from its first byte to its last,  *)
(* wherever the head is cut.  On another it can: when the end of a message *)
(* and the start of the next come in one read, the new parser of the       *)
(* following read has lost its place (ca.cc:75), and a read of nothing     *)
(* inside a message is an end of the input to it (ca.cc:81).               *)
ParserKeepsPlace == Orderly => parser.errno = "OK"

(* read_idx can get beyond write_idx (an end of input inside a message is  *)
(* answered with 1).  The length computed from them is negative then, which*)
(* http_parser_execute would take for a huge one: it never looks at it,    *)
(* because that parser has failed and no other one will take its place.    *)
NegativeLengthUnused ==
    past > 0 => parser.errno # "OK" /\ ~next_new_req

(* The process goes down only over a body in pieces. *)
CrashNeedsSplit == status = "crashed" => split # {}

(* Every request with a body on an orderly connection is answered, unless  *)
(* the connection is closed.                                               *)
RequestAnswered ==
    \A r \in {q \in Requests : Framing[q] # "none"} :
        sent >= r ~> (r \in Range(answers) \/ status # "open" \/ ~Orderly)
=============================================================================
