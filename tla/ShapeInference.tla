---------------------------- MODULE ShapeInference ----------------------------
(***************************************************************************)
(* Shape inference and the shapes the lowered code allocates, along the    *)
(* operations a value of a model goes through.                             *)
(*                                                                         *)
(* One value is followed: `dims` is the shape it has when the model runs   *)
(* by the definition of the ONNX operators, stated here on its own (counts *)
(* of positions and of elements, numpy's broadcasting); `type` is the type *)
(* shape inference gave it, and `alloc` the shape the lowered code gave    *)
(* it.  Each action is an operation: the value becomes its result, or,     *)
(* where inference also rewrites the type of an operand, stays what it is. *)
(* An operation that inference rejects sets `refused`.                     *)
(*                                                                         *)
(* A dim the compiler does not know enters inference with the meaningless  *)
(* size Hidden: a literal result that depended on it would come out wrong. *)
(***************************************************************************)
EXTENDS ShapeHelpers

CONSTANTS
  MaxDim,     \* the largest dim of a tensor
  MaxRank,
  Hidden,     \* what inference sees of a dim it does not know
  Disputed    \* operations also tried where code and operator docs disagree

ASSUME SizesAssumption ==
  MaxDim \in Nat \ {0} /\ MaxRank \in Nat \ {0} /\ Hidden \in Nat /\ Hidden > MaxDim
ASSUME DisputedAssumption == Disputed \subseteq {"ceil", "split"}

VARIABLES dims, type, alloc, refused

vars == <<dims, type, alloc, refused>>

Shapes == UNION {[1..r -> 0..MaxDim] : r \in 0..MaxRank}

Hide(x) == [i \in DOMAIN x |-> IF x[i].lit THEN x[i] ELSE RunTime(Hidden)]

\* An operand of the given sizes of which the compiler knows some.
Operand(sizes, known) == [i \in DOMAIN sizes |-> [lit |-> i \in known, val |-> sizes[i]]]

\* An operand that is a constant of the model or is computed when it runs.
Constants(sizes) == {Literals(sizes), Operand(sizes, {})}

Init ==
  /\ dims \in Shapes
  /\ \E known \in SUBSET DOMAIN dims : type = Hide(Operand(dims, known))
  /\ alloc = dims
  /\ refused = FALSE

(***************************************************************************)
(* The value becomes a result of shape `want`, of which inference computed *)
(* `inferred` and the lowered code `lowered`.  Both are refined with the   *)
(* type the result has: at first what the model declares (a last dim, or   *)
(* nothing), and after inference what inference found.                     *)
(***************************************************************************)
ComputeShapeAndUpdateType(inferred, lowered, want, refuses) ==
  /\ want \in Shapes
  /\ dims' = want
  /\ refused' = refuses
  /\ \E declared \in {{}, {Len(want)}} :
       type' = Hide(RefineDims(inferred, Hide(Operand(want, declared))))
  /\ alloc' = Values(RefineDims(lowered, type'))

\* The operation that computes f from the followed value and the operand p:
\* inference, then lowering, run the same code.
Infer(f(_, _), p, want, refuses) ==
  ComputeShapeAndUpdateType(f(type, Hide(p)), f(ShapeAsDims(type, dims), p), want, refuses)

\* The type of the followed value is rewritten by one of its users.
Learn(learned) ==
  /\ type' = Hide(learned)
  /\ UNCHANGED <<dims, alloc, refused>>

(*************** the shapes by the operators' definitions ******************)

Elements(x) == FoldFunction(LAMBDA m, n : m * n, 1, x)

\* x with dims of size 1 in front.
Aligned(x, rank) == [i \in 1..(rank - Len(x)) |-> 1] \o x

Broadcastable(x, y) == \A i \in DOMAIN x : x[i] = y[i] \/ x[i] = 1 \/ y[i] = 1
Broadcasted(x, y) == [i \in DOMAIN x |-> IF x[i] = 1 THEN y[i] ELSE x[i]]

\* x without the dims at the positions of axes.
Without(x, axes) ==
  FoldLeft(LAMBDA kept, i : IF i \in axes THEN kept ELSE Append(kept, x[i]),
           <<>>, [i \in DOMAIN x |-> i])

\* Windows of extent kd that lie within len positions, s apart.
Windows(len, kd, s) == Cardinality({i \in 0..len : i * s + kd <= len})

\* With ceil_mode a last window may reach past the end; one that would start
\* at `stop`, in the padding on the right, or later is ignored.
CeilWindows(len, kd, s, stop) ==
  Cardinality({i \in 0..len : i * s < stop /\ (i = 0 \/ (i - 1) * s + kd < len)})

\* A line of `size` positions in n equal chunks, of which the last is smaller.
ChunkSize(size, n) == CHOOSE c \in 0..MaxDim : (c - 1) * n < size /\ size <= c * n
ChunkStart(size, n, i) == (i - 1) * ChunkSize(size, n)
Chunk(size, n, i) ==
  LET left == size - ChunkStart(size, n, i) IN
  IF left < ChunkSize(size, n) THEN left ELSE ChunkSize(size, n)

\* The positions of a line of n that a slice visits.
Visited(n, start, end, step) ==
  LET from == IF start < 0 THEN start + n ELSE start
      to == IF end < 0 /\ end # NegInf THEN end + n ELSE end
      first == IF from < 0 THEN 0
               ELSE IF step < 0 /\ from >= n THEN n - 1 ELSE from IN
  {p \in 0..(n - 1) :
     IF step > 0 THEN p >= first /\ p < to /\ (p - first) % step = 0
     ELSE p <= first /\ p > to /\ (first - p) % (0 - step) = 0}

(****************************** operations *********************************)

\* Elementwise operations, Expand and Where's pairs.  Two dims of which none
\* is known and one is 0 are left out: the code allocates their maximum.
BroadcastOp ==
  \E y \in Shapes, uni \in BOOLEAN :
    LET rank == IF Len(dims) > Len(y) THEN Len(dims) ELSE Len(y)
        X == Aligned(dims, rank)
        Y == Aligned(y, rank) IN
    /\ Broadcastable(X, Y)
    /\ uni => Len(y) <= Len(dims) /\ Broadcasted(X, Y) = X
    /\ \E known \in SUBSET DOMAIN y :
         LET p == Operand(y, known) IN
         /\ \A i \in 1..rank : 0 \in {X[i], Y[i]} /\ X[i] # Y[i] =>
              Prepend1s(type, rank)[i].lit \/ Prepend1s(p, rank)[i].lit
         /\ Infer(LAMBDA x, q : Broadcast(x, q, uni), p, Broadcasted(X, Y), BroadcastRefused(type, p))

\* The operands as stacks of matrices: batch dims, rows and columns.
Rows(a) == IF Len(a) = 1 THEN <<>> ELSE <<a[Len(a) - 1]>>
Cols(b) == IF Len(b) = 1 THEN <<>> ELSE <<b[Len(b)]>>
Inner(b) == IF Len(b) = 1 THEN b[1] ELSE b[Len(b) - 1]
Batch(a) == SubSeq(a, 1, Len(a) - 2)

MatMulFits(a, b) ==
  /\ Len(a) > 0 /\ Len(b) > 0
  /\ a[Len(a)] = Inner(b)
  /\ LET rank == MatMulRank(a, b) - 2 IN
     Broadcastable(Aligned(Batch(a), rank), Aligned(Batch(b), rank))

\* A batch dim of size 1 that the compiler knows on neither side is left out:
\* the code takes the left one.
MatMulOp ==
  \E y \in Shapes : MatMulFits(dims, y) /\ \E known \in SUBSET DOMAIN y :
    LET rank == MatMulRank(dims, y) - 2
        X == Aligned(Batch(dims), rank)
        Y == Aligned(Batch(y), rank)
        p == Operand(y, known) IN
    /\ \A i \in 1..rank : X[i] = 1 /\ Y[i] # 1 => MatMulA(type, p)[i].lit \/ MatMulB(type, p)[i].lit
    /\ Infer(MatMul, p, Broadcasted(X, Y) \o Rows(dims) \o Cols(y), MatMulRefused(type, p))

\* The same operation, for a user that follows an operand.  A vector on the
\* right is left out: the code writes before the first of its dims.
MatMulLearns ==
  \E y \in Shapes : \E known \in SUBSET DOMAIN y :
    \/ MatMulFits(dims, y) /\ Learn(MatMulUpdatedA(type, Operand(y, known)))
    \/ MatMulFits(y, dims) /\ Len(dims) > 1 /\ Learn(MatMulUpdatedB(Operand(y, known), type))

GemmFits(a, b, transA, transB) ==
  /\ Len(a) = 2 /\ Len(b) = 2
  /\ Transposed(a, transA)[2] = Transposed(b, transB)[1]

GemmOp ==
  \E y \in [1..2 -> 0..MaxDim], transA, transB \in BOOLEAN :
    /\ GemmFits(dims, y, transA, transB)
    /\ \E known \in SUBSET {1, 2}, C \in Shapes :
         LET p == Operand(y, known)
             want == <<Transposed(dims, transA)[1], Transposed(y, transB)[2]>> IN
         /\ Len(C) <= 2
         /\ Broadcastable(want, Aligned(C, 2)) /\ Broadcasted(want, Aligned(C, 2)) = want
         /\ Infer(LAMBDA x, q : Gemm(x, q, transA, transB), p, want,
                  GemmRefused(type, p, Literals(C), transA, transB))

GemmLearns ==
  \E y \in [1..2 -> 0..MaxDim], transA, transB \in BOOLEAN, known \in SUBSET {1, 2} :
    /\ GemmFits(dims, y, transA, transB)
    /\ Learn(GemmUpdatedA(type, Operand(y, known), transA, transB))

Ones(axes) == [i \in DOMAIN dims |-> IF i \in axes THEN 1 ELSE dims[i]]
Reduced(axes, keepdims) == IF keepdims THEN Ones(axes) ELSE Without(dims, axes)

ReduceOp(keepdims) ==
  \E axes \in SUBSET DOMAIN dims :
    Infer(LAMBDA x, q : Reduce(x, axes, keepdims), <<>>, Reduced(axes, keepdims), FALSE)

ArgMinMaxOp(keepdims) ==
  \E axis \in DOMAIN dims :
    Infer(LAMBDA x, q : ArgMinMax(x, axis, keepdims), <<>>,
          IF keepdims THEN Ones({axis}) ELSE RemoveAt(dims, axis), FALSE)

GlobalPoolOp ==
  /\ Len(dims) > 2
  /\ Infer(LAMBDA x, q : GlobalPool(x), <<>>, Ones(3..Len(dims)), FALSE)

TransposeOp ==
  \E perm \in [DOMAIN dims -> DOMAIN dims] :
    /\ IsInjective(perm)
    /\ Infer(LAMBDA x, q : Transpose(x, perm), <<>>, [i \in DOMAIN dims |-> dims[perm[i]]], FALSE)

FlattenOp ==
  \E axis \in 0..Len(dims) :
    Infer(LAMBDA x, q : Flatten(x, axis), <<>>,
          <<Elements(SubSeq(dims, 1, axis)), Elements(SubSeq(dims, axis + 1, Len(dims)))>>, FALSE)

\* Without axes every dim has to be known, which the code checks.
SqueezeOp ==
  \/ \E axes \in SUBSET {i \in DOMAIN dims : dims[i] = 1} :
       Infer(LAMBDA x, q : Squeeze(x, axes), <<>>, Without(dims, axes), FALSE)
  \/ /\ ~SqueezeFromShapeRefused(type)
     /\ Infer(LAMBDA x, q : Squeeze(x, SqueezeAxesFromShape(x)), <<>>,
              SelectSeq(dims, LAMBDA n : n # 1), FALSE)

UnsqueezeOp ==
  \E want \in Shapes : \E axes \in SUBSET DOMAIN want :
    /\ \A i \in axes : want[i] = 1
    /\ Without(want, axes) = dims
    /\ Infer(LAMBDA x, q : Unsqueeze(x, axes), <<>>, want, FALSE)

\* Each dim of the new shape is given as a size, as 0 (copy) or as -1 (what
\* remains).  One size may be known to be that of a dim of the data.
ReshapeOp ==
  \E want \in Shapes : Elements(want) = Elements(dims) /\
  \E how \in [DOMAIN want -> {"size", "copy", "rest"}] :
    /\ \A i \in DOMAIN want : /\ how[i] = "size" => want[i] # 0
                              /\ how[i] = "copy" => i \in DOMAIN dims /\ dims[i] = want[i]
    /\ Cardinality({i \in DOMAIN want : how[i] = "rest"}) <= (IF Elements(dims) = 0 THEN 0 ELSE 1)
    /\ \E known \in SUBSET DOMAIN want :
         LET shape == [i \in DOMAIN want |-> CASE how[i] = "size" -> want[i]
                                               [] how[i] = "copy" -> 0
                                               [] how[i] = "rest" -> -1]
             pairs == {pr \in (DOMAIN want \ known) \X DOMAIN dims :
                         /\ how[pr[1]] = "size" /\ want[pr[1]] = dims[pr[2]]
                         /\ ~type[pr[2]].lit} IN
         \E same \in {<<>>} \cup {[i \in {pr[1]} |-> pr[2]] : pr \in pairs} :
           Infer(LAMBDA x, q : Reshape(x, q, same), Operand(shape, known), want, FALSE)

\* Batch, channels and one spatial axis; a batch of one, as it is copied.
Line == Len(dims) = 3 /\ dims[1] = 1

\* How far a kernel of k positions reaches, d apart.
Extent(k, d) == (k - 1) * d + 1

PoolOp(ceil) ==
  /\ Line
  /\ \E k, d, s \in 1..2, begin, end \in 0..1 :
       LET stop == dims[3] + begin
           len == stop + end
           kd == Extent(k, d) IN
       /\ len >= kd
       \* no window is ignored
       /\ ceil /\ "ceil" \notin Disputed => CeilWindows(len, kd, s, stop) = CeilWindows(len, kd, s, len + s)
       /\ Infer(LAMBDA x, q : Pool(x, WindowDim(x[3], Lit(k), Lit(d), Lit(s), Lit(begin + end), ceil)), <<>>,
                <<dims[1], dims[2], IF ceil THEN CeilWindows(len, kd, s, stop) ELSE Windows(len, kd, s)>>, FALSE)

\* The kernel's shape comes from the weights.
ConvOp ==
  /\ Line
  /\ \E k, d, s, out \in 1..2, begin, end \in 0..1 : \E p \in Constants(<<out, k>>) :
       LET len == dims[3] + begin + end IN
       /\ len >= Extent(k, d)
       /\ Infer(LAMBDA x, q : Conv(x, q, WindowDim(x[3], q[2], Lit(d), Lit(s), Lit(begin + end), FALSE)), p,
                <<dims[1], out, Windows(len, Extent(k, d), s)>>, FALSE)

ConvSameOp ==
  /\ Line
  /\ \E k, d, s, out \in 1..2 : \E p \in Constants(<<out, k>>) :
       LET pads == SamePads(ShapeAsDims(type, dims)[3], p[2], Lit(d), Lit(s)) IN
       Infer(LAMBDA x, q : Conv(x, q, AutoPadDim(x[3], Lit(s))), p,
             <<dims[1], out, Windows(dims[3] + pads[1].val + pads[2].val, Extent(k, d), s)>>, FALSE)

\* The convolution that would give the operand back from the result, with
\* outPad positions left over.
ConvTransposeOp ==
  /\ Line /\ dims[3] > 0
  /\ \E k, d, s, group \in 1..2, padSum \in 0..2, outPad \in 0..1, out \in 1..2, n \in 1..MaxDim :
     /\ outPad < s
     /\ Windows(n + padSum, Extent(k, d), s) = dims[3]
     /\ (n + padSum - Extent(k, d)) % s = outPad
     /\ \E p \in Constants(<<out, k>>) :
          Infer(LAMBDA x, q : <<x[1], Mul(q[1], Lit(group)),
                                TransposedWindowDim(x[3], q[2], Lit(d), Lit(s), Lit(padSum), Lit(outPad))>>,
                p, <<dims[1], out * group, n>>, FALSE)

\* Along one axis; the others are copied.  A static empty axis taken backwards
\* is left out: the literal clamp makes one position of it.
SliceOp ==
  /\ Len(dims) = 1
  /\ \E start, end \in (-MaxDim - 1)..(MaxDim + 1) \cup {NegInf, PosInf}, step \in {-2, -1, 1, 2} :
     \E known \in SUBSET (1..3) :
       /\ start \notin {NegInf, PosInf}
       /\ step < 0 => ~IsLit(type[1], 0)
       /\ Infer(LAMBDA x, q : Slice(x, 1, q[1], q[2], q[3]), Operand(<<start, end, step>>, known),
                <<Cardinality(Visited(dims[1], start, end, step))>>, FALSE)

PadOp ==
  /\ Len(dims) <= 2
  /\ \E sizes \in [1..(2 * Len(dims)) -> -1..1] : \E p \in Constants(sizes) :
       /\ \A i \in DOMAIN dims : sizes[i] + dims[i] + sizes[i + Len(dims)] >= 0
       /\ Infer(Pad, p, [i \in DOMAIN dims |->
                  Cardinality((0 - sizes[i])..(dims[i] - 1 + sizes[i + Len(dims)]))], FALSE)

TileOp ==
  \E repeats \in [DOMAIN dims -> 0..2] : \E p \in Constants(repeats) :
    Infer(Tile, p, [i \in DOMAIN dims |-> Cardinality((1..dims[i]) \X (1..repeats[i]))], FALSE)

ConcatOp ==
  \/ \E axis \in DOMAIN dims, y \in Shapes : \E known \in SUBSET DOMAIN y :
       /\ Len(y) = Len(dims)
       /\ \A i \in DOMAIN dims \ {axis} : y[i] = dims[i]
       /\ Infer(LAMBDA x, q : Concat(x, q, axis), Operand(y, known),
                [dims EXCEPT ![axis] = @ + y[axis]], FALSE)
  \* an empty operand is skipped whatever its rank
  \/ Infer(LAMBDA x, q : Concat(x, q, 1), Literals(<<0>>), dims, FALSE)

SplitOp ==
  \E axis \in DOMAIN dims, n \in 1..3, byAttribute \in BOOLEAN : \E i \in 1..n :
    /\ dims[axis] % n = 0 \/ (byAttribute /\ "split" \in Disputed)
    /\ ChunkStart(dims[axis], n, i) <= dims[axis]
    /\ Infer(LAMBDA x, q : Split(x, axis, SplitDim(x[axis], n, i)), <<>>,
             [dims EXCEPT ![axis] = Chunk(dims[axis], n, i)],
             SplitRefused(type[axis], n, byAttribute))

GatherOp ==
  \E axis \in DOMAIN dims, y \in Shapes : \E known \in SUBSET DOMAIN y :
    Infer(LAMBDA x, q : Gather(x, q, axis), Operand(y, known),
          SubSeq(dims, 1, axis - 1) \o y \o SubSeq(dims, axis + 1, Len(dims)), FALSE)

OneHotOp ==
  \E axis \in 1..(Len(dims) + 1), depth \in 1..MaxDim : \E p \in Constants(<<depth>>) :
    Infer(LAMBDA x, q : OneHot(x, axis, q[1]), p, InsertAt(dims, axis, depth), OneHotRefused(p[1]))

TopKOp ==
  \E axis \in DOMAIN dims : \E k \in 0..dims[axis] : \E p \in Constants(<<k>>) :
    Infer(LAMBDA x, q : TopK(x, axis, q[1]), p, [dims EXCEPT ![axis] = k],
          TopKRefused(type, axis, p[1]))

RangeOp ==
  \E start, limit \in 0..MaxDim, delta \in {-2, -1, 1, 2} :
  \E p \in Constants(<<start, limit, delta>>) :
    Infer(LAMBDA x, q : <<RangeDim(q[1], q[2], q[3])>>, p,
          <<Cardinality({i \in 0..MaxDim : IF delta > 0 THEN start + i * delta < limit
                                           ELSE start + i * delta > limit})>>, FALSE)

\* Each dim of the result is computed on its own.
DimwiseOp ==
  \/ BroadcastOp \/ MatMulOp \/ MatMulLearns \/ GemmOp \/ GemmLearns
  \/ ReduceOp(TRUE) \/ GlobalPoolOp \/ TransposeOp
  \/ \E keepdims \in BOOLEAN : ArgMinMaxOp(keepdims)
  \/ \E ceil \in BOOLEAN : PoolOp(ceil)
  \/ ConvOp \/ ConvSameOp \/ ConvTransposeOp
  \/ PadOp \/ TileOp \/ ConcatOp \/ SplitOp
  \/ GatherOp \/ OneHotOp \/ TopKOp \/ RangeOp

\* Dims are dropped, multiplied or cut.
RegroupingOp ==
  \/ ReduceOp(FALSE) \/ FlattenOp \/ SqueezeOp \/ UnsqueezeOp \/ ReshapeOp \/ SliceOp

Next == DimwiseOp \/ RegroupingOp

Spec == Init /\ [][Next]_vars

(****************************** properties *********************************)

\* Types and shapes are what the code can represent: getShape asserts that no
\* literal dim is negative, and a type has as many dims as the value.
TypeOK ==
  /\ dims \in Shapes
  /\ alloc \in Shapes
  /\ \A i \in DOMAIN type : type[i] \in [lit : BOOLEAN, val : 0..Hidden]
  /\ refused \in BOOLEAN

\* What shape inference claims is true: whatever operations led to a value,
\* each dim its type makes static is the size the value has in every run,
\* even when the compiler knew some operands only in part.
TypeSound ==
  /\ Len(type) = Len(dims)
  /\ \A i \in DOMAIN type : type[i].lit => type[i].val = dims[i]

\* The lowered code allocates each value with the size the ONNX operator
\* gives it, though it computes it with the expressions of inference and
\* believes the static dims it finds in the type.
AllocSound == alloc = dims

\* No operation that is valid on the run-time shapes is rejected.
NotRefused == ~refused
=============================================================================
