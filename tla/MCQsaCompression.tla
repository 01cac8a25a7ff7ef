--------------------------- MODULE MCQsaCompression ---------------------------
(* Two request rows and blocks of three tokens in pages of one block; the  *)
(* rows are interchangeable.                                               *)
EXTENDS QsaCompression, TLC

Rows == Permutations(Req)
=============================================================================
