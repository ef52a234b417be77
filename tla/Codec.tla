------------------------------- MODULE Codec -------------------------------
(***************************************************************************)
(* One call on its way through the byte formats of uv/: the header and the *)
(* request of the ACT protocol (pa_client.cc), the Dubbo request           *)
(* (dubbo_client.cc), the provider's Dubbo response, the ACT response      *)
(* (pa.cc) and the HTTP answer (ca.cc).  Every hop encodes or decodes with *)
(* the integer conversions of utils.cc, in which an id is four bytes on    *)
(* ACT links, eight on the Dubbo connection, and is read back through      *)
(* signed int and long long.                                               *)
(*                                                                         *)
(* A byte has Base values (256 in the code); int is four bytes and long    *)
(* long eight, with the wrap-around of two's complement.  Text is made of  *)
(* model values.  strncpy copies: no field holds a NUL character.          *)
(***************************************************************************)
EXTENDS Integers, Sequences, FiniteSets, SequencesExt

CONSTANTS Base,       \* values of a byte
          Ids,        \* results of rand() that are tried
          Texts,      \* field contents that are tried, without NL
          NL, Quote,  \* the characters of the Dubbo line format
          NoValue,    \* what a call without a result returns
          Failed,     \* what a call returns that the provider refuses
          Other,      \* any other fixed character
          Magic       \* a byte of a magic number

IntMod == Base * Base * Base * Base
LLMod  == IntMod * IntMod

(* rand() returns a non-negative int. *)
ASSUME CodecAssumption ==
    /\ Base \in Nat /\ Base >= 2 /\ Base % 2 = 0
    /\ Ids \subseteq 0 .. (IntMod \div 2 - 1)
    /\ \A t \in Texts : t \in Seq(Range(t)) /\ NL \notin Range(t)
    /\ NL \notin {Quote, Other}
    /\ NoValue # Failed /\ {NoValue, Failed} \cap (Texts \cup {<<>>}) = {}

VARIABLES hop,      \* the place the call has reached
          call,     \* what is asked and returned: id, key, parameter, value
          wire,     \* the bytes on the connection in use
          room,     \* the length reserved for it by the encoder
          seen,     \* what the decoder of this hop read
          answer    \* content of the HTTP answer and its Content-Length

codecVars == <<hop, call, wire, room, seen, answer>>

(***************************************************************************)
(* utils.cc.                                                               *)
(***************************************************************************)
Signed(v, m) == ((v + (m \div 2)) % m) - (m \div 2)

write_int(v) ==
    <<(v \div (Base * Base * Base)) % Base, (v \div (Base * Base)) % Base,
      (v \div Base) % Base, v % Base>>

(* The four bytes above an int, and those of an int. *)
write_ll(v) == write_int(v \div IntMod) \o write_int(v)

bytes2int(b) ==
    Signed(((b[1] * Base + b[2]) * Base + b[3]) * Base + b[4], IntMod)

(* Mutant: the two halves change places. *)
bytes2llSwapped(b) ==
    Signed(bytes2int(SubSeq(b, 5, 8)) * IntMod + bytes2int(SubSeq(b, 1, 4)), LLMod)

(* Both halves are read as signed ints; the low one is added with its sign. *)
bytes2ll(b) ==
    LET hi == bytes2int(SubSeq(b, 1, 4))
        lo == bytes2int(SubSeq(b, 5, 8))
    IN  Signed(hi * IntMod + lo, LLMod)

-----------------------------------------------------------------------------
Take(s, from, n) == SubSeq(s, from, from + n - 1)

IntAt(s, from) == bytes2int(Take(s, from, 4))

(***************************************************************************)
(* The encoders.  Each is the sequence it writes and the length it         *)
(* reserves.                                                               *)
(***************************************************************************)
KeyBytes(k) ==
    <<Magic, Magic>> \o write_int(Len(k.interface)) \o k.interface
                     \o write_int(Len(k.method)) \o k.method
                     \o write_int(Len(k.pts)) \o k.pts

KeyRoom(k) == 4 + Len(k.interface) + 4 + Len(k.method) + 4 + Len(k.pts) + 2

ReqBytes(id, p) == write_int(id) \o write_int(Len(p)) \o p

ReqRoom(p) == 4 + 4 + Len(p)

Line(t) == <<Quote>> \o t \o <<Quote, NL>>

PathLine == [i \in 1 .. 68 |-> Other] \o <<NL>>

NullLine == [i \in 1 .. 4 |-> Other] \o <<NL>>

DubboVersion == [i \in 1 .. 5 |-> Other]

(* Mutant: the quotes around two of the five fields are not counted. *)
DubboRoomShort(r) == 4 + 8 + 4 + Len(DubboVersion) + Len(r.interface)
    + Len(r.pts) + Len(r.args) + Len(r.method) + 5 + 5 + 69 + 6

DubboRoom(r) ==
    4 + 8 + 4 + (Len(DubboVersion) + 1) + (Len(r.interface) + 1) + 5
      + (Len(r.pts) + 1) + (Len(r.args) + 1) + 69 + 10 + (Len(r.method) + 1)

(* The lengths are ints (dubbo_client.cc:25): a request is far shorter     *)
(* than an int can say.                                                    *)
ASSUME LengthAssumption ==
    \A r \in [interface : Texts, method : Texts, pts : Texts, args : Texts] :
        DubboRoom(r) < IntMod \div 2

(* Mutant: method and parameter types change places. *)
DubboBytesSwapped(r) ==
    <<Magic, Magic, Other, Other>> \o write_ll(r.id)
      \o write_int(DubboRoom(r) - 16)
      \o Line(DubboVersion) \o Line(r.interface) \o NullLine
      \o Line(r.pts) \o Line(r.method) \o Line(r.args) \o PathLine

DubboBytes(r) ==
    <<Magic, Magic, Other, Other>> \o write_ll(r.id)
      \o write_int(DubboRoom(r) - 16)
      \o Line(DubboVersion) \o Line(r.interface) \o NullLine
      \o Line(r.method) \o Line(r.pts) \o Line(r.args) \o PathLine

(* The long long id becomes an int. *)
act_response_from_dubbo(d) == [d EXCEPT !.id = Signed(@, IntMod)]

RespBytes(r) == write_int(r.id) \o write_int(Len(r.result)) \o r.result

RespRoom(r) == 8 + Len(r.result)

(***************************************************************************)
(* The provider: it takes data_len bytes of body, splits them into lines,  *)
(* strips the quotes, and answers under the eight id bytes it was given    *)
(* with a flag line and the value line, which may be empty.  A call that   *)
(* returns nothing is answered with the flag line alone, and one that the  *)
(* provider refuses with the line of an error.  The status in the header,  *)
(* which tells an error from a value, is skipped by _d_read_cb.            *)
(***************************************************************************)
LineEnds(s) == {i \in DOMAIN s : s[i] = NL}

NthEnd(s, n) == IF n = 0 THEN 0
                ELSE CHOOSE i \in LineEnds(s) :
                         Cardinality({j \in LineEnds(s) : j <= i}) = n

Field(s, n) == SubSeq(s, NthEnd(s, n - 1) + 2, NthEnd(s, n) - 2)

ProviderSees(b) ==
    LET body == Take(b, 17, IntAt(b, 13)) IN
    [interface |-> Field(body, 2), method |-> Field(body, 4),
     pts |-> Field(body, 5), args |-> Field(body, 6),
     lines |-> Cardinality(LineEnds(body)),
     rest |-> Len(b) - 16 - IntAt(b, 13)]

ValueBody(v) == CASE v \in Texts  -> <<Other, NL>> \o v \o <<NL>>
                  [] v = NoValue -> <<Other, NL>>
                  [] v = Failed  -> Line(<<Other>>)

ProviderBytes(idBytes, v) ==
    <<Magic, Magic, Other, Other>> \o idBytes \o write_int(Len(ValueBody(v))) \o ValueBody(v)

(***************************************************************************)
(* act_done_callback: the content lies between the first two newlines.     *)
(* Positions count from 0, and 0 also stands for not found.                *)
(***************************************************************************)
ContentStart(s) ==
    IF LineEnds(s) = {} THEN 0 ELSE NthEnd(s, 1)

(* Mutant: the newline itself is counted. *)
ContentEndLate(s) ==
    IF Cardinality(LineEnds(s)) < 2 THEN 0 ELSE NthEnd(s, 2)

ContentEnd(s) ==
    IF Cardinality(LineEnds(s)) < 2 THEN 0 ELSE NthEnd(s, 2) - 1

ActDone(result) ==
    LET len == ContentEnd(result) - ContentStart(result) IN
    IF len <= 0 THEN [length |-> len, content |-> <<Other>>]
    ELSE [length |-> len, content |-> Take(result, ContentStart(result) + 1, len)]

-----------------------------------------------------------------------------
NoAnswer == [length |-> 0, content |-> <<>>]

Values == Texts \cup {NoValue, Failed}

Keys == [interface : Texts, method : Texts, pts : Texts]

CodecInit ==
    /\ hop = "header"
    /\ call \in [id : Ids, key : Keys, parameter : Texts, value : Values]
    /\ wire = <<>> /\ room = 0 /\ seen = <<>> /\ answer = NoAnswer

(* _pa_on_conn writes the key. *)
PaEncodeActKey ==
    /\ hop = "header"
    /\ wire' = KeyBytes(call.key) /\ room' = KeyRoom(call.key)
    /\ hop' = "key"
    /\ UNCHANGED <<call, seen, answer>>

(* on_read of the provider agent takes the key off, field by field. *)
POnReadHeader ==
    LET il == IntAt(wire, 3)
        ml == IntAt(wire, 7 + il)
        pl == IntAt(wire, 11 + il + ml)
    IN
    /\ hop = "key"
    /\ seen' = [interface |-> Take(wire, 7, il),
                method |-> Take(wire, 11 + il, ml),
                pts |-> Take(wire, 15 + il + ml, pl)]
    /\ wire' = SubSeq(wire, 15 + il + ml + pl, Len(wire)) /\ room' = 0
    /\ hop' = "keyed"
    /\ UNCHANGED <<call, answer>>

(* _pa_handle_queue encodes the request. *)
PaActRequestEncode ==
    /\ hop = "keyed"
    /\ wire' = wire \o ReqBytes(call.id, call.parameter)
    /\ room' = ReqRoom(call.parameter)
    /\ hop' = "request"
    /\ UNCHANGED <<call, seen, answer>>

(* on_read takes the request off; dubbo_request_from_act adds the key and  *)
(* handle_queue encodes it for the provider.                               *)
POnRead ==
    LET r == [id |-> IntAt(wire, 1), args |-> Take(wire, 9, IntAt(wire, 5)),
              interface |-> seen.interface, method |-> seen.method,
              pts |-> seen.pts]
    IN
    /\ hop = "request"
    /\ wire' = DubboBytes(r) /\ room' = DubboRoom(r)
    /\ seen' = r
    /\ hop' = "dubbo"
    /\ UNCHANGED <<call, answer>>

(* External: the provider runs the call. *)
Provider ==
    /\ hop = "dubbo"
    /\ seen' = ProviderSees(wire)
    /\ wire' = ProviderBytes(Take(wire, 5, 8), call.value)
    /\ room' = Len(wire')
    /\ hop' = "executed"
    /\ UNCHANGED <<call, answer>>

(* _d_read_cb reads id, length and data and calls _dubbo_callback, which   *)
(* narrows the id to int and encodes the ACT response.                     *)
DReadCb ==
    LET d == [id |-> bytes2ll(Take(wire, 5, 8)),
              result |-> Take(wire, 17, IntAt(wire, 13))]
        a == act_response_from_dubbo(d)
    IN
    /\ hop = "executed"
    /\ seen' = d
    /\ wire' = RespBytes(a) /\ room' = RespRoom(a)
    /\ hop' = "response"
    /\ UNCHANGED <<call, answer>>

(* _pa_read_cb and act_done_callback. *)
PaReadCb ==
    LET r == [id |-> IntAt(wire, 1), result |-> Take(wire, 9, IntAt(wire, 5))] IN
    /\ hop = "response"
    /\ seen' = r
    /\ answer' = ActDone(r.result)
    /\ hop' = "done"
    /\ UNCHANGED <<call, wire, room>>

Done == hop = "done" /\ UNCHANGED codecVars

CodecNext == \/ PaEncodeActKey \/ POnReadHeader \/ PaActRequestEncode \/ POnRead
             \/ Provider \/ DReadCb \/ PaReadCb \/ Done

CodecSpec == CodecInit /\ [][CodecNext]_codecVars
-----------------------------------------------------------------------------
(* The id under which the Dubbo response and the ACT response look up      *)
(* their callbacks (dubbo_client.cc:235, pa_client.cc:67) is the id the    *)
(* request was registered under, although it went through four bytes,      *)
(* eight bytes, a sum of two signed halves and a narrowing to int.         *)
IdSurvives ==
    hop \in {"dubbo", "response", "done"} => seen.id = call.id

(* The provider is asked for the interface, method and types of the key    *)
(* and the argument of the request, in the order the Dubbo format wants,   *)
(* and the length in the Dubbo header covers the seven lines exactly.      *)
ProviderSeesCall ==
    hop = "executed" =>
        seen = [interface |-> call.key.interface, method |-> call.key.method,
                pts |-> call.key.pts, args |-> call.parameter,
                lines |-> 7, rest |-> 0]

(* Every encoder fills the buffer it reserved, no byte more (which would   *)
(* overrun the block) and no byte less (which would send what the block    *)
(* held before), and nothing of the key header is left when the request    *)
(* that follows it on the link is read.                                    *)
BufferFilled == room = Len(wire)

(* The HTTP answer to a call that returned something carries the value,    *)
(* and its Content-Length is the value's length.  Every other answer is    *)
(* one character that its Content-Length does not announce (ca.cc:193-200) *)
(* and puts the connection out of step: the length is 0 for a value that   *)
(* is empty, and negative for a call that returned nothing or was refused, *)
(* where no second newline is found.                                       *)
ValueAnswered ==
    hop = "done" =>
        IF call.value \in Texts \ {<<>>}
        THEN answer = [length |-> Len(call.value), content |-> call.value]
        ELSE /\ Len(answer.content) = 1
             /\ IF call.value = <<>> THEN answer.length = 0 ELSE answer.length < 0
=============================================================================
