--------------------------- MODULE MCFrameReader ---------------------------
\* The two kinds of stream a provider agent reads, over buffers of 6 bytes
\* (integers of one byte), with data fields that are empty, as long as a
\* buffer, in between, and, in the last response, longer than a buffer.
\* Replies have the layout of requests.
EXTENDS FrameReader, TLC

MCFormat ==
    ("link" :> <<HeaderFields(2, 0, 6), RequestFields(5), RequestFields(0)>>) @@
    ("dubbo" :> <<DubboFields(0), DubboFields(7)>>)
=============================================================================
