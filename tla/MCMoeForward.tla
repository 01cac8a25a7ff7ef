---------------------------- MODULE MCMoeForward ----------------------------
(* Two tokens and three experts.  The calls vary what reaches the output    *)
(* with few routings, and the layout of the buffers with many.              *)
EXTENDS MoeForward, Sequences

CONSTANT AllCalls      \* FALSE: leave out the calls the code mishandles

Ids(routes) == [r \in 0 .. Len(routes) - 1 |-> routes[r + 1]]

Local(k) == CASE k = 1 -> {<<0, 0>>, <<1, 0>>}
              [] k = 2 -> {<<0, 1, 1, 0>>, <<2, 0, 2, 1>>, <<1, 0, 1, 0>>}
              [] k = 3 -> {<<0, 1, 2, 2, 0, 1>>}
Remote(k) == CASE k = 1 -> {<<-1, 0>>}
               [] k = 2 -> {<<-1, 0, 1, -1>>, <<0, -1, -1, -1>>, <<1, 0, 0, -1>>, <<-1, -1, -1, -1>>}
               [] k = 3 -> {<<-1, 1, 2, 0, 1, -1>>}
Routing(c) == CASE c.filter -> Remote(c.k)
                [] ~c.filter /\ c.deepep -> {<<0, 1>>, <<1, 1>>}
                [] OTHER -> Local(c.k)

Plain == [kind |-> "bf16", core |-> FALSE, k |-> 2, shared |-> 0, deepep |-> FALSE, inplace |-> FALSE, noCombine |-> FALSE,
          onInput |-> FALSE, scaled |-> FALSE, allReduce |-> FALSE, tma |-> FALSE,
          filter |-> FALSE, pairs |-> FALSE, fused |-> FALSE, alpha |-> FALSE, hooks |-> FALSE]

Destinations ==
    {[Plain EXCEPT !.kind = k, !.k = t, !.inplace = i, !.noCombine = n, !.onInput = o, !.scaled = s] :
        k \in {"bf16", "fp2"}, t \in {1, 2}, i \in BOOLEAN, n \in BOOLEAN, o \in BOOLEAN, s \in BOOLEAN}
AllReduced ==
    {[Plain EXCEPT !.kind = k, !.k = 3, !.allReduce = TRUE, !.scaled = s, !.inplace = ~s, !.filter = f] :
        k \in {"bf16", "fp2"}, s \in BOOLEAN, f \in BOOLEAN}
Layouts ==
    {[Plain EXCEPT !.kind = k, !.tma = m, !.filter = f, !.pairs = p, !.fused = u, !.alpha = a, !.core = c, !.hooks = h] :
        k \in {"bf16", "fp8", "int4"}, m \in BOOLEAN, f \in BOOLEAN, p \in BOOLEAN, u \in BOOLEAN,
        a \in BOOLEAN, c \in BOOLEAN, h \in BOOLEAN}

Shared ==
    {[Plain EXCEPT !.kind = x, !.k = 1, !.shared = 1, !.deepep = d, !.scaled = s, !.tma = m] :
        x \in {"fp8", "fp2"}, d \in BOOLEAN, s \in BOOLEAN, m \in BOOLEAN}

(* Calls whose result is wrong, left out of the passing run: one route and  *)
(* a scaling factor (the sum reads the cache that was skipped); remote      *)
(* experts with the added output or the sorted buffer (zeros go to the row  *)
(* of the route); the alpha activation through run(), which does not pass   *)
(* gate_up_interleaved on.                                                  *)
Mishandled(c) ==
    \/ c.k + c.shared = 1 /\ c.scaled /\ ~c.noCombine /\ ~c.hooks
    \/ c.filter /\ c.allReduce /\ c.k + c.shared > 2 /\ c.kind \notin {"int4", "fp2"}
    \/ c.filter /\ c.tma /\ ~c.hooks
    \/ c.alpha /\ c.core /\ ~c.pairs

MCCalls ==
    UNION {{c @@ [ids |-> Ids(r)] : r \in Routing(c)} :
        c \in {d \in Destinations \cup AllReduced \cup Layouts \cup Shared :
                  Accepted(d) /\ (AllCalls \/ ~Mishandled(d))}}
=============================================================================
