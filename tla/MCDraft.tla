-------------------------------- MODULE MCDraft --------------------------------
(* Two requests over two pool rows: rows change hands, and a prefill meets    *)
(* one that reads another row.  The deployed three draft steps; a window of   *)
(* two tokens and the one front token.                                        *)
EXTENDS DraftSelection, TLC

Alike == Permutations(Requests)
=============================================================================
