----------------------------- MODULE MCPleLookup -----------------------------
(* The gate with the code's three probes, every third large gather a probe, *)
(* one burst of unrelated faults and one reading that fails; the cache with *)
(* six rows over two slots, so that a lookup of three ids can repeat an id, *)
(* hit one slot and miss the other; the lookahead over four forwards of no, *)
(* one or two lookup tokens, the host up to four forwards ahead.            *)
EXTENDS PleLookup
=============================================================================
