------------------------------ MODULE MCCodec ------------------------------
(* Codec with bytes of eight values: ids at every carry between bytes and  *)
(* at the largest int, and texts of zero to two characters.                *)
EXTENDS Codec

CONSTANTS c1, c2

MCIds == {0, 1, 7, 8, 63, 64, 511, 512, 1023, 2047}
MCTexts == {<<>>, <<c1>>, <<c2, c1>>}
=============================================================================
