---------------------------- MODULE DenseWeights ----------------------------
(***************************************************************************)
(* A linear layer of one or more fused projections, from loading to its    *)
(* GEMM: the weights are padded, requantized, shuffled or interleaved for  *)
(* the kernel of the backend, and the GEMM must still multiply every       *)
(* weight by its own scales.                                               *)
(*                                                                         *)
(* Rows and columns are counted in units of 16, so a column is one scale   *)
(* group and 8 packed bytes.  A cell of a matrix is the <<row, column>> it *)
(* was loaded as, or Zero if it is padding.                                *)
(***************************************************************************)
EXTENDS Integers, FiniteSets, SequencesExt, FiniteSetsExt

CONSTANTS
    Linears,     \* [method, backend, parts, k, swiglu, scales]
    Zero, Absent

ASSUME DenseAssumption ==
    /\ Zero \notin Nat /\ Zero \notin Nat \X Nat
    /\ \A l \in Linears :
          /\ l.method \in {"fp8", "fp4a16", "fp4"}
          /\ l.method = "fp4" => l.backend \in {"marlin", "trtllm", "cutlass"}
          /\ l.parts \in Seq(Nat \ {0}) /\ l.parts # << >> /\ l.k \in Nat \ {0}
          /\ l.scales \in Seq(Nat) /\ Len(l.scales) = Len(l.parts)

VARIABLES
    linear,      \* the layer
    loaded,      \* the projections the checkpoint has filled
    step,        \* "loading", "processed", "applied" or "refused"
    weight,      \* the matrix, and what it is quantized by: row -> scale
    scale,       \* the block scales and how often they were swizzled
    pack,        \* the copies for the fused activation, or Absent
    padCols, outputSize, alpha,
    out          \* row -> the products the GEMM summed

denseVars == <<linear, loaded, step, weight, scale, pack, padCols, outputSize, alpha, out>>

Offsets(parts) ==
    LET sum[i \in 0 .. Len(parts)] == IF i = 0 THEN 0 ELSE sum[i - 1] + parts[i]
    IN  sum
RoundUp(x, m) == ((x + m - 1) \div m) * m
Rows == Offsets(linear.parts)[Len(linear.parts)]
PartOf(r) == CHOOSE i \in DOMAIN linear.parts :
                Offsets(linear.parts)[i - 1] <= r /\ r < Offsets(linear.parts)[i]

Matrix(rows, cols) == [x \in (0 .. rows - 1) \X (0 .. cols - 1) |-> x]
NumCols(m) == Max({x[2] : x \in DOMAIN m}) + 1
Padded(m, rows, cols) ==
    [x \in (0 .. rows - 1) \X (0 .. cols - 1) |-> IF x \in DOMAIN m THEN m[x] ELSE Zero]
Permuted(m, RowAt(_)) == [x \in DOMAIN m |-> m[<<RowAt(x[1]), x[2]>>]]

Swizzled(s, m) == [cells |-> m, swizzles |-> s.swizzles + 1]

-----------------------------------------------------------------------------
DenseInit ==
    /\ linear \in Linears
    /\ loaded = {} /\ step = "loading"
    /\ weight = Absent /\ scale = Absent /\ pack = Absent
    /\ padCols = 0 /\ outputSize = 0 /\ alpha = 0 /\ out = Absent

(* The loader (external) fills the rows of one projection and its slot of  *)
(* the per-tensor scales.                                                  *)
LoadPart(i) ==
    /\ step = "loading" /\ i \in DOMAIN linear.parts \ loaded
    /\ loaded' = loaded \cup {i}
    /\ UNCHANGED <<linear, step, weight, scale, pack, padCols, outputSize, alpha, out>>

Ready == step = "loading" /\ loaded = DOMAIN linear.parts
MaxScale == Max(ToSet(linear.scales))
Loaded == [cells |-> Matrix(Rows, linear.k),
           by    |-> [r \in 0 .. Rows - 1 |-> linear.scales[PartOf(r)]]]

(* ModelOptFp8LinearMethod: every projection is dequantized by its own     *)
(* scale and quantized by the largest.                                     *)
ProcessFp8 ==
    /\ Ready /\ linear.method = "fp8"
    /\ weight' = [Loaded EXCEPT !.by = [r \in DOMAIN @ |-> MaxScale]]
    /\ alpha' = MaxScale
    /\ outputSize' = Rows
    /\ step' = "processed"
    /\ UNCHANGED <<linear, loaded, scale, pack, padCols, out>>

(* Weight-only layers are repacked by Marlin (external).                   *)
ProcessMarlin ==
    /\ Ready
    /\ linear.method = "fp4a16" \/ (linear.method = "fp4" /\ linear.backend = "marlin")
    /\ weight' = Loaded
    /\ scale' = [cells |-> Matrix(Rows, linear.k), swizzles |-> 1]
    /\ alpha' = MaxScale
    /\ outputSize' = Rows
    /\ step' = "processed"
    /\ UNCHANGED <<linear, loaded, pack, padCols, out>>

(* TRT-LLM: rows to 128, scale columns to 4 and the weight with them.      *)
TrtllmCols == RoundUp(linear.k, 4)
ProcessTrtllm ==
    /\ Ready /\ linear.method = "fp4" /\ linear.backend = "trtllm"
    /\ weight' = [Loaded EXCEPT !.cells = Padded(@, RoundUp(Rows, 8), TrtllmCols)]
    /\ scale' = [cells |-> Padded(Matrix(Rows, linear.k), RoundUp(Rows, 8), TrtllmCols), swizzles |-> 1]
    /\ padCols' = TrtllmCols - linear.k
    /\ alpha' = MaxScale
    /\ outputSize' = Rows
    /\ step' = "processed"
    /\ UNCHANGED <<linear, loaded, pack, out>>

(* CUTLASS: the weight to 32, the scales to 128 rows and 4 columns; then,  *)
(* for the fused activation, up and gate interleaved in chunks of 64 rows, *)
(* from the scales as they were before the swizzle overwrote them.         *)
WeightCells == Padded(Matrix(Rows, linear.k), RoundUp(Rows, 2), RoundUp(linear.k, 2))
RawScale == [cells |-> Matrix(Rows, linear.k), swizzles |-> 0]
ScaleCells == Padded(Matrix(Rows, linear.k), RoundUp(Rows, 8), RoundUp(linear.k, 4))
SwizzledScale == Swizzled(RawScale, ScaleCells)
RawScaleSnapshot_AfterSwizzle == SwizzledScale
RawScaleSnapshot == RawScale

\* Row p of cat(up, gate), whose halves are gate and up, interleaved by 4.
FromCat(r) == IF r < Rows \div 2 THEN r + Rows \div 2 ELSE r - Rows \div 2
InterleavedRow(p) ==
    FromCat(((p \div 4) % 2) * (Rows \div 2) + (p \div 8) * 4 + (p % 4))

SwigluFits ==
    /\ RoundUp(linear.k, 2) = linear.k
    /\ RoundUp(Rows, 2) = Rows
    /\ Rows % 8 = 0

ProcessCutlass ==
    /\ Ready /\ linear.method = "fp4" /\ linear.backend = "cutlass"
    /\ linear.swiglu => SwigluFits
    /\ weight' = [Loaded EXCEPT !.cells = WeightCells]
    /\ scale' = SwizzledScale
    /\ pack' = IF linear.swiglu
               THEN [weight |-> Permuted(WeightCells, InterleavedRow),
                     scale  |-> Swizzled(RawScaleSnapshot,
                                         Permuted(RawScaleSnapshot.cells, InterleavedRow))]
               ELSE Absent
    /\ padCols' = RoundUp(linear.k, 2) - linear.k
    /\ alpha' = MaxScale
    /\ outputSize' = Rows
    /\ step' = "processed"
    /\ UNCHANGED <<linear, loaded, out>>

RefuseSwiglu ==
    /\ Ready /\ linear.method = "fp4" /\ linear.backend = "cutlass"
    /\ linear.swiglu /\ ~SwigluFits
    /\ step' = "refused"
    /\ UNCHANGED <<linear, loaded, weight, scale, pack, padCols, outputSize, alpha, out>>

(* The GEMM: the activation is padded by padCols, the output is cut to     *)
(* outputSize.  With pack, the fused kernel reads chunks of up and gate.   *)
Blocks(r, c) == IF linear.method = "fp8" THEN Zero ELSE scale.cells[<<r, c>>]
Product(x, w, s) == [x |-> x, w |-> w, s |-> s]
Activation(c) == IF c < linear.k THEN c ELSE Zero

Gemm(r) ==
    {Product(Activation(c), weight.cells[<<r, c>>], Blocks(r, c)) : c \in 0 .. NumCols(weight.cells) - 1}

Apply ==
    /\ step = "processed" /\ pack = Absent
    /\ NumCols(weight.cells) = linear.k + padCols
    /\ out' = [r \in 0 .. outputSize - 1 |-> Gemm(r)]
    /\ step' = "applied"
    /\ UNCHANGED <<linear, loaded, weight, scale, pack, padCols, outputSize, alpha>>

\* The fused kernel (external): output channel i is up of one chunk, gate of the next.
UpRow(i)   == (i \div 4) * 8 + (i % 4)
GateRow(i) == UpRow(i) + 4
PackGemm(p) ==
    {Product(c, pack.weight[<<p, c>>], pack.scale.cells[<<p, c>>]) : c \in 0 .. linear.k - 1}

ApplyFused ==
    /\ step = "processed" /\ pack # Absent
    /\ out' = [r \in 0 .. Rows - 1 |->
                 IF r < Rows \div 2 THEN PackGemm(GateRow(r)) ELSE PackGemm(UpRow(r - Rows \div 2))]
    /\ step' = "applied"
    /\ UNCHANGED <<linear, loaded, weight, scale, pack, padCols, outputSize, alpha>>

DenseNext ==
    \/ \E i \in 1 .. 3 : LoadPart(i)
    \/ ProcessFp8 \/ ProcessMarlin \/ ProcessTrtllm \/ ProcessCutlass \/ RefuseSwiglu
    \/ Apply \/ ApplyFused

DenseSpec == DenseInit /\ [][DenseNext]_denseVars

-----------------------------------------------------------------------------
(* Whatever the backend padded and reordered, every output row sums        *)
(* exactly its own weights, each with the activation of its column and its *)
(* own block scale, swizzled once, and the layer's scale is the one every  *)
(* row is quantized by (process_weights_after_loading and apply, 552-584   *)
(* and 1714-1954).                                                         *)
RowsUseTheirOwnScales ==
    step = "applied" =>
        /\ DOMAIN out = 0 .. Rows - 1
        /\ \A r \in DOMAIN out :
              {p \in out[r] : Zero \notin {p.x, p.w}} =
                  {Product(c, <<r, c>>, IF linear.method = "fp8" THEN Zero ELSE <<r, c>>) :
                      c \in 0 .. linear.k - 1}
        /\ \A r \in DOMAIN weight.by : weight.by[r] = alpha
        /\ scale # Absent => scale.swizzles = 1
        /\ pack # Absent => pack.scale.swizzles = 1
=============================================================================
