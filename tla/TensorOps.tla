------------------------------ MODULE TensorOps ------------------------------
(***************************************************************************)
(* The one tensor operation whose result PyTorch leaves open: an indexed   *)
(* assignment  pool[dst] = value  with repeated indices.  Each destination *)
(* ends up with the value of one of the rows that name it, any of them.    *)
(***************************************************************************)

IndexPut(pool, rows, dst, value) ==
    LET Hit == {dst[i] : i \in rows} IN
    {[s \in DOMAIN pool |-> IF s \in Hit THEN value[last[s]] ELSE pool[s]] :
        last \in {f \in [Hit -> rows] : \A s \in Hit : dst[f[s]] = s}}
=============================================================================
