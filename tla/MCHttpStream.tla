---------------------------- MODULE MCHttpStream ----------------------------
(* Streams of two requests each, made of regular ones and special ones. *)
EXTENDS HttpStream

H(n, v) == [name |-> n, value |-> v]
R(method, minor, headers, body, chunks) ==
    [method |-> method, minor |-> minor, url |-> <<Slash>>, headers |-> headers, body |-> body,
     chunks |-> chunks, trailer |-> <<>>, eol |-> <<CR, LF>>]
C(size, data) == [size |-> size, ext |-> <<>>, data |-> data]

Length(v) == H(ContentLength, v)
TE        == H(TransferEncoding, <<CHUN, KED>>)
Plain     == H(<<120>>, <<121, 122>>)

Post3   == R("POST", 1, <<Plain, Length(<<51>>)>>, <<97, 98, 99>>, <<>>)
Post12  == R("POST", 1, <<Length(<<49, 50>>)>>, [i \in 1 .. 12 |-> 96 + i], <<>>)
Post0   == R("POST", 1, <<Length(<<48>>)>>, <<>>, <<>>)
Get     == R("GET", 1, <<Plain>>, <<>>, <<>>)
NoLen   == R("PUT", 1, <<>>, <<97, 98>>, <<>>)
Chunks  == [R("POST", 1, <<TE>>, <<>>, <<C(<<50>>, <<97, 98>>), C(<<48, 97>>, [i \in 1 .. 10 |-> 97 + i])>>)
              EXCEPT !.trailer = <<Plain>>, !.chunks[1].ext = <<Semicolon, 120>>]
Close   == R("POST", 1, <<H(Connection, <<CLO, SE>>), Length(<<50>>)>>, <<97, 98>>, <<>>)
Old     == R("POST", 0, <<Length(<<50>>)>>, <<97, 98>>, <<>>)
OldKeep == R("POST", 0, <<H(Connection, <<KEEP, ALIVE>>), Length(<<50>>)>>, <<97, 98>>, <<>>)
Folded  == R("POST", 1, <<H(<<120>>, <<121, CR, LF, SP, 122>>), H(ContentLength, <<>>),
                          H(ContentLength, <<CR, LF, TAB, 50, SP>>)>>, <<97, 98>>, <<>>)
Twice   == R("POST", 1, <<Length(<<50>>), Length(<<50>>)>>, <<97, 98>>, <<>>)
Both    == R("POST", 1, <<Length(<<50>>), TE>>, <<97, 98>>, <<>>)
Wraps   == R("POST", 1, <<Length(<<50, 53, 56>>)>>, <<97, 98>>, <<>>)
NotNum  == R("POST", 1, <<Length(<<50, 120>>)>>, <<97, 98>>, <<>>)
LongHd  == [Post3 EXCEPT !.headers = [i \in 1 .. 6 |-> Plain] \o <<Length(<<51>>)>>]
ChWraps == R("POST", 1, <<TE>>, <<>>, <<C(<<49>>, <<97>>), C(<<49, 48, 50>>, <<98, 99>>)>>)
LongExt == [Chunks EXCEPT !.chunks[2].ext = <<Semicolon>> \o [i \in 1 .. 54 |-> 120]]
Gap     == R("POST", 1, <<Length(<<50, 53, 48>>)>>, <<97, 98>>, <<>>)
ChGap   == R("POST", 1, <<TE>>, <<>>, <<C(<<49>>, <<97>>), C(<<102, 48>>, <<98, 99>>)>>)
LongVal == [Post3 EXCEPT !.headers[1].value = [i \in 1 .. 60 |-> 120]]
LongNam == [Post3 EXCEPT !.headers[1].name = [i \in 1 .. 50 |-> 120]]
LongCL  == [Post3 EXCEPT !.headers[2].value = [i \in 1 .. 50 |-> 48]]
Connect == [R("CONNECT", 1, <<>>, <<>>, <<>>) EXCEPT !.url = <<120, Colon, 56>>]
Upgr    == R("POST", 1, <<H(Upgrade, <<119>>), H(Connection, <<UP, GRADE>>), Length(<<50>>)>>,
             <<97, 98>>, <<>>)
Tokens  == [Close EXCEPT !.headers[1].value = <<120, Comma, SP, CLO, 120, Comma, KEEP, ALIVE>>]
Control == [Post3 EXCEPT !.headers[1].value = <<121, 122, 1, 122>>]
AbsUrl  == [Get EXCEPT !.url = <<120, Colon, Slash, Slash, 120, At, 121, Question, 122, Hash, 122>>]
BareLF  == [Close EXCEPT !.eol = <<LF>>, !.headers[1].value = <<CLO, SE, SP>>]
LFTwice == [Folded EXCEPT !.eol = <<LF>>, !.headers[1].value = <<>>]
Short   == R("POST", 1, <<Length(<<51>>)>>, <<97>>, <<>>)

Regular == <<Post3, Post12, Post0, Get, Chunks, OldKeep, Tokens, AbsUrl>>
Special == <<NoLen, Close, Old, Folded, Twice, Both, Wraps, NotNum, LongHd, ChWraps, LongExt,
             Gap, ChGap, LongVal, LongNam, LongCL, Connect, Upgr, BareLF, LFTwice, Control, Short>>

(* Every request of p before every request of q. *)
Pairs(p, q) == [i \in 1 .. Len(p) * Len(q) |->
                    <<p[(i - 1) \div Len(q) + 1], q[((i - 1) % Len(q)) + 1]>>]

MCStreams == Pairs(Regular, Regular) \o Pairs(<<Post3, Chunks>>, Special)
             \o Pairs(SubSeq(Special, 1, 20), <<Post0>>)
=============================================================================
