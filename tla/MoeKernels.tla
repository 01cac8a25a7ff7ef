----------------------------- MODULE MoeKernels -----------------------------
(***************************************************************************)
(* The grouped-GEMM kernels of the mixture of experts and the tile sizes   *)
(* they are launched with, as pure operators: which tile of C a program    *)
(* computes, which products a loop over K accumulates, and the tiles of    *)
(* the two-bit path.  The arithmetic is left out: a product is the pair of *)
(* K indices it reads from A and B and the scale group it is scaled by.    *)
(***************************************************************************)
EXTENDS Integers, FiniteSets

CONSTANT Masked        \* a product that a mask turns into zero

CeilDiv(a, b) == (a + b - 1) \div b
Least(a, b) == IF a <= b THEN a ELSE b

-----------------------------------------------------------------------------
(* The tile of program pid, in the grouped order that reuses the L2 cache. *)

GroupHeight(pid, mBlocks, nBlocks, group) ==
    Least(mBlocks - (pid \div (group * nBlocks)) * group, group)

PidM(pid, mBlocks, nBlocks, group) ==
    (pid \div (group * nBlocks)) * group
        + ((pid % (group * nBlocks)) % GroupHeight(pid, mBlocks, nBlocks, group))

PidN(pid, mBlocks, nBlocks, group) ==
    (pid % (group * nBlocks)) \div GroupHeight(pid, mBlocks, nBlocks, group)

Columns_Unmasked(pidN, blockN, n) == pidN * blockN .. (pidN + 1) * blockN - 1
Columns(pidN, blockN, n) == (pidN * blockN .. (pidN + 1) * blockN - 1) \cap (0 .. n - 1)

-----------------------------------------------------------------------------
(* The products of a loop over K in steps of bk: one entry <<k of A, k of  *)
(* B, scale group>> for each iteration i and lane o.                       *)

Lanes(k, bk) == (0 .. CeilDiv(k, bk) - 1) \X (0 .. bk - 1)

\* fused_moe_kernel: the scale group of a whole step is that of its first k.
DenseDot(k, bk, g) ==
    [x \in Lanes(k, bk) |->
        IF k % bk = 0 \/ x[2] < k - x[1] * bk
        THEN <<x[1] * bk + x[2], x[1] * bk + x[2], (x[1] * bk) \div g>>
        ELSE Masked]

\* fused_moe_kernel_gptq_awq: perByte codes in a byte, the byte pointer moved by
\* bk \div perByte each step.  A is masked beyond K, so the product is zero.
PackedDot(k, bk, g, perByte) ==
    [x \in Lanes(k, bk) |->
        IF x[2] < k - x[1] * bk
        THEN <<x[1] * bk + x[2],
               (x[1] * (bk \div perByte) + x[2] \div perByte) * perByte + (x[2] % perByte),
               (x[2] + bk * x[1]) \div g>>
        ELSE Masked]

\* fused_moe_kernel_fp2: four planes per step; plane c pairs the bytes with every
\* fourth column of A.  Nothing is masked.
Fp2Dot(k, bk) ==
    [x \in Lanes(k, bk) |->
        LET j == x[2] \div 4
            c == x[2] % 4
        IN  <<x[1] * bk + 4 * j + c,
              4 * (x[1] * (bk \div 4) + j) + c,
              x[1] * (bk \div 16) + j \div 4>>]

(* Every k is multiplied once, with its own weight and its own scale.      *)
ExactDot(dot, k, g) ==
    /\ \A i \in 0 .. k - 1 :
          Cardinality({x \in DOMAIN dot : dot[x] = <<i, i, i \div g>>}) = 1
    /\ \A x \in DOMAIN dot : dot[x] # Masked => dot[x][1] \in 0 .. k - 1

-----------------------------------------------------------------------------
(* _fp2_configs.  Tile(n, k, group) are the columns, the K step and the    *)
(* group height of one GEMM.                                               *)

Tile(n, k, group) == [n |-> n, k |-> k, group |-> group]

Halvings(bk) == {b \in {bk, bk \div 2, bk \div 4, bk \div 8, bk \div 16} : b >= 16}

\* The step is halved until it divides K or is 16.
FitStep(bk, k) ==
    CHOOSE b \in Halvings(bk) :
        /\ k % b = 0 \/ b = 16
        /\ \A d \in Halvings(bk) : (k % d = 0 \/ d = 16) => d <= b

TunedTiles(rows) ==
    CASE rows <= 40  -> [m |-> 16, up |-> Tile(64, 256, 1), down |-> Tile(64, 64, 1)]
      [] rows \in 41 .. 160 -> [m |-> 16, up |-> Tile(64, 256, 1), down |-> Tile(64, 256, 1)]
      [] OTHER       -> [m |-> 16, up |-> Tile(128, 256, 1), down |-> Tile(128, 256, 1)]

BaseTiles(rows) ==
    CASE rows <= 64    -> [m |-> 16, up |-> Tile(64, 256, 1), down |-> Tile(64, 64, 1)]
      [] rows \in 65 .. 2048     -> [m |-> 16, up |-> Tile(64, 256, 1), down |-> Tile(64, 128, 1)]
      [] rows \in 2049 .. 10240  -> [m |-> 16, up |-> Tile(64, 256, 8), down |-> Tile(128, 256, 1)]
      [] rows \in 10241 .. 40960 -> [m |-> 64, up |-> Tile(256, 256, 8), down |-> Tile(256, 64, 8)]
      [] OTHER         -> [m |-> 64, up |-> Tile(256, 64, 8), down |-> Tile(256, 64, 8)]

Fp2Configs(rows, kUp, kDown, tuned) ==
    LET tiles == IF tuned /\ rows <= 2048 THEN TunedTiles(rows) ELSE BaseTiles(rows)
    IN  [tiles EXCEPT !.up.k = FitStep(@, kUp), !.down.k = FitStep(@, kDown)]
=============================================================================
