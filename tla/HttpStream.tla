----------------------------- MODULE HttpStream -----------------------------
(***************************************************************************)
(* The parser of HttpParser fed with a stream of requests that is cut into *)
(* reads anywhere, as _ca_on_read feeds it.  What the requests mean is     *)
(* written down here from their records, without parsing: the reference    *)
(* the parser is compared with.                                            *)
(***************************************************************************)
EXTENDS HttpMessage, FiniteSets

CONSTANTS Streams,  \* the streams: sequences of requests
          MaxRead   \* bound: a read brings at most that much, or all there is

Request == [method : {"POST", "PUT", "GET", "CONNECT"}, url : Seq(Int), minor : {0, 1},
            headers : Seq(Header), body : Seq(Int), trailer : Seq(Header),
            chunks : Seq([size : Seq(Int), ext : Seq(Int), data : Seq(Int)]),
            eol : {<<LF>>, <<CR, LF>>}]

ASSUME StreamAssumption ==
    /\ MaxRead \in Nat \ {0}
    /\ \A s \in DOMAIN Streams : Streams[s] \in Seq(Request)

Done == 0

(* The number a sequence of digits stands for. *)
Number(v, base) ==
    LET value[i \in 0 .. Len(v)] == IF i = 0 THEN 0 ELSE base * value[i - 1] + unhex(v[i])
    IN  value[Len(v)]

(* A value without the blanks and folds around it. *)
Bare(v) == FlattenSeq([i \in DOMAIN v |-> IF v[i] \in {SP, TAB, CR, LF} THEN <<>> ELSE <<v[i]>>])

Under(r, name) == {i \in DOMAIN r.headers : r.headers[i].name = name /\ Bare(r.headers[i].value) # <<>>}
Says(r, name, value) == \E i \in Under(r, name) : Bare(r.headers[i].value) = value

Chunked(r)  == Says(r, TransferEncoding, <<CHUN, KED>>)
Upgrades(r) == \/ r.method = "CONNECT"
               \/ Under(r, Upgrade) # {} /\ Says(r, Connection, <<UP, GRADE>>)
Closes(r)   == \/ Says(r, Connection, <<CLO, SE>>)
               \/ r.minor = 0 /\ ~Says(r, Connection, <<KEEP, ALIVE>>)

(* The length announced; 0 without one. *)
Announced(r) ==
    IF Under(r, ContentLength) = {} THEN 0
    ELSE Number(Bare(r.headers[CHOOSE i \in Under(r, ContentLength) : TRUE].value), 10)

(* The least length that is refused as too large.  The test for overflow   *)
(* is conservative: some that would fit are refused with those that do not.*)
TooLong(base) == base * ((ULLONG_MAX - base) \div base + 1)

(* The framing of r contradicts itself, has no meaning, or does not fit.   *)
BadHead(r) ==
    \/ Cardinality(Under(r, ContentLength)) > 1
    \/ Chunked(r) /\ Under(r, ContentLength) # {}
    \/ \E i \in Under(r, ContentLength) : \E c \in Range(Bare(r.headers[i].value)) : ~IS_NUM(c)
    \/ Announced(r) >= TooLong(10)
    \/ Len(HeadOf(r)) > HTTP_MAX_HEADER_SIZE

BadChunk(c) == Number(c.size, 16) >= TooLong(16) \/ Len(c.size) + Len(c.ext) > HTTP_MAX_HEADER_SIZE

(* A part of a request: its units, and what each makes the parser report:  *)
(* the unit itself as body, or Done.                                       *)
Silent(u) == [i \in DOMAIN u |-> [u |-> u[i], gives |-> <<>>]]
Data(u)   == [i \in DOMAIN u |-> [u |-> u[i], gives |-> <<u[i]>>]]
Ending(part) == [part EXCEPT ![Len(part)].gives = Append(@, Done)]

ChunkPart(c) ==
    Silent(c.size \o c.ext \o <<CR, LF>>) \o Data(c.data) \o Silent(<<CR, LF>>)

(* A request as it is sent, with what it means.  A body that goes on after *)
(* the announced length belongs to no message.                             *)
Part(r) ==
    LET body == Lesser(Announced(r), Len(r.body))
        bad  == {i \in DOMAIN r.chunks : BadChunk(r.chunks[i])}
        good == IF bad = {} THEN Len(r.chunks) ELSE (CHOOSE i \in bad : \A j \in bad : i <= j) - 1
        sent == FlattenSeq([i \in 1 .. good |-> ChunkPart(r.chunks[i])])
    IN  IF BadHead(r) THEN Silent(HeadOf(r) \o r.body)
        ELSE IF Chunked(r) /\ bad = {}
        THEN Silent(HeadOf(r)) \o sent
             \o Ending(Silent(<<48, CR, LF>> \o Lines(r.trailer, r.eol) \o r.eol))
        ELSE IF Chunked(r)
        THEN Silent(HeadOf(r)) \o sent \o Silent(r.chunks[good + 1].size \o r.chunks[good + 1].ext
                    \o <<CR, LF>> \o r.chunks[good + 1].data)
        ELSE IF body = 0 /\ Announced(r) = 0 THEN Ending(Silent(HeadOf(r))) \o Silent(r.body)
        ELSE Silent(HeadOf(r))
             \o (IF body = Announced(r) THEN Ending(Data(SubSeq(r.body, 1, body)))
                                        ELSE Data(SubSeq(r.body, 1, body)))
             \o Silent(SubSeq(r.body, body + 1, Len(r.body)))

(* The request itself is at fault, or units follow that belong to none. *)
Faulty(r) ==
    \/ BadHead(r)
    \/ Chunked(r) /\ \E i \in DOMAIN r.chunks : BadChunk(r.chunks[i])
    \/ ~Chunked(r) /\ Len(r.body) > Announced(r)

(* The last request of a stream that counts. *)
LastOf(stream) ==
    LET ends == {i \in DOMAIN stream : Faulty(stream[i]) \/ Closes(stream[i]) \/ Upgrades(stream[i])}
    IN  IF ends = {} THEN Len(stream) ELSE CHOOSE i \in ends : \A j \in ends : i <= j

Upto(stream, n) == FlattenSeq([i \in 1 .. n |-> Part(stream[i])])

(* A stream as it is sent: its units, what each means up to the last       *)
(* request that counts, and the span in which the parser has to give up.   *)
Script(stream) ==
    LET l == LastOf(stream)
        whole == Upto(stream, Len(stream))
        meant == Upto(stream, l)
    IN  [text  |-> [i \in DOMAIN whole |-> whole[i].u],
         gives |-> [i \in DOMAIN meant |-> meant[i].gives],
         from  |-> IF Faulty(stream[l]) THEN Len(Upto(stream, l - 1)) ELSE Len(meant),
         by    |-> IF Faulty(stream[l]) \/ Upgrades(stream[l]) THEN Len(meant)
                   ELSE Len(meant) + 1]
-----------------------------------------------------------------------------
VARIABLES script,  \* the stream that is sent
          at,      \* units of it read
          reader,
          seen,    \* what the callbacks reported: units of bodies, and Done
          left     \* the parser stopped for another protocol

streamVars == <<script, at, reader, seen, left>>

StreamInit ==
    /\ \E s \in DOMAIN Streams : script = Script(Streams[s])
    /\ at = 0 /\ reader = http_parser_init /\ seen = <<>> /\ left = FALSE

Reported(ev, data) ==
    FlattenSeq([i \in DOMAIN ev |->
                   IF ev[i].is = "body" THEN SubSeq(data, ev[i].from, ev[i].to) ELSE <<Done>>])

(* A read of k units, and http_parser_execute over them. *)
OnRead(k) ==
    /\ ~left
    /\ \E data \in {SubSeq(script.text, at + 1, at + k)} :
       \E x \in {http_parser_execute(reader, data)} :
         /\ reader' = x.p
         /\ seen' = seen \o Reported(x.ev, data)
         /\ left' = x.left
         /\ at' = IF x.left THEN at + x.parsed ELSE at + k
    /\ UNCHANGED script

StreamNext ==
    \E k \in 1 .. Len(script.text) - at :
        /\ k <= MaxRead \/ k = Len(script.text) - at
        /\ OnRead(k)

StreamSpec == StreamInit /\ [][StreamNext]_streamVars
-----------------------------------------------------------------------------
ExpectedBy(n) == FlattenSeq(SubSeq(script.gives, 1, Lesser(n, Len(script.gives))))

(* A control character in the value of a header is found only where a read *)
(* begins or the value does: whether such a request is refused depends on  *)
(* how it is cut.                                                          *)
HasControl == \E i \in DOMAIN script.text : ~IS_HEADER_CHAR(script.text[i])
RefusedForControl == HasControl /\ reader.errno = "INVALID_HEADER_TOKEN"

(* Wherever the stream is cut into reads, the callbacks report the bytes   *)
(* that are body, all of them, in order and under the right message, and   *)
(* every end of a message once.  Nothing of a message whose length is      *)
(* contradictory, too large or announced in too long a head is reported,   *)
(* and nothing behind a message that closes the connection.                *)
FramedAsSent ==
    IF RefusedForControl THEN IsPrefix(seen, ExpectedBy(at)) ELSE seen = ExpectedBy(at)

(* The parser gives up on the requests it has to give up on, before it has *)
(* taken more of them than their head or the size of a chunk, and on no    *)
(* other.                                                                  *)
RefusedExactly ==
    /\ reader.errno # "OK" => at > script.from \/ RefusedForControl
    /\ ~left /\ at >= script.by /\ script.by > script.from => reader.errno # "OK"

(* The parser itself is the same however the stream was cut: nothing it    *)
(* keeps between two calls gets lost, and nothing it knows only during one *)
(* matters.  It gives up on the same requests however they are cut; where  *)
(* it stands when it does, and over what, depends on the cut, because a    *)
(* name or a value is counted in one piece at the end of a read            *)
(* (http_parser.c:1353, 1649).                                             *)
SplitIndependent ==
    at > 0 /\ ~HasControl =>
        LET whole == http_parser_execute(http_parser_init, SubSeq(script.text, 1, at)).p
        IN  IF reader.errno = "OK" THEN reader = whole ELSE whole.errno # "OK"
=============================================================================
