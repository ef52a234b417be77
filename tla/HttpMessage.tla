---------------------------- MODULE HttpMessage ----------------------------
(***************************************************************************)
(* The requests clients send, in the units of HttpParser: a request line,  *)
(* headers and an empty line.                                              *)
(***************************************************************************)
EXTENDS HttpParser, SequencesExt

Header == [name : Seq(Int), value : Seq(Int)]

ContentLength    == <<CON, TENT_LENGTH>>
TransferEncoding == <<TRANSFER, ENCODING>>
Connection       == <<CON, NECTION>>
Upgrade          == <<UP, GRADE>>

MethodText(method) ==
    CASE method = "POST" -> <<80, OST>>
      [] method = "PUT" -> <<80, UT>>
      [] method = "GET" -> <<71, ET>>
      [] method = "CONNECT" -> <<67, ONNECT>>

Lines(hs, eol) ==
    FlattenSeq([i \in DOMAIN hs |-> hs[i].name \o <<Colon, SP>> \o hs[i].value \o eol])

HeadOf(r) ==
    MethodText(r.method) \o <<SP>> \o r.url \o <<SP, 72, TTP, 49, Dot, 48 + r.minor>> \o r.eol
    \o Lines(r.headers, r.eol) \o r.eol
=============================================================================
