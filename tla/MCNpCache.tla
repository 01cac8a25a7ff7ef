------------------------------ MODULE MCNpCache ------------------------------
(* Three processes, three tensors, and up to three of them killed.          *)
EXTENDS NpCache
=============================================================================
