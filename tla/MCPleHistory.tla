---------------------------- MODULE MCPleHistory ----------------------------
(* Two requests (one of them request row 0) over a pool in which their      *)
(* working and track slots and one or two snapshots fit.                    *)
EXTENDS PleHistory, TLC

CONSTANTS r0, r1, s0, s1, s2, s3, s4, s5, a, b, c, d, junk

MCTexts == {<<a, b, c, d>>, <<a, b, d, c>>}

MCSymmetry == Permutations({s1, s2, s3, s4})
=============================================================================
