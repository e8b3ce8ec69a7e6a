----------------------------- MODULE ShapeHelpers -----------------------------
(***************************************************************************)
(* computeShape of the ONNX operations: the dims of a result from the dims *)
(* of the operands, as expressions (IndexExpr).  The same code runs during *)
(* shape inference and when an operation is lowered.  Shapes are sequences *)
(* of expressions; axes count from 1 and negative ones are resolved.       *)
(* Operators named ...Refused say when computeShape ends in emitError.     *)
(***************************************************************************)
EXTENDS IndexExpr, FiniteSets, FiniteSetsExt, SequencesExt, Functions

Larger(m, n) == IF m > n THEN m ELSE n

\* The dims of x at the positions of S, in order.
At(x, S) == LET order == SetToSortSeq(S, <) IN [j \in DOMAIN order |-> x[order[j]]]

Prepend1s(x, rank) ==
  [i \in 1..rank |-> IF i > rank - Len(x) THEN x[i - (rank - Len(x))] ELSE Lit(1)]

(***************************** broadcasting ********************************)

\* One dim of the fold over the operands of a broadcasting operation.
BroadcastDim(cur, next, uni) ==
  CASE IsLit(cur, 1) -> IF uni THEN cur ELSE next
    [] IsLitOtherThan(cur, 1) -> cur
    [] ~cur.lit /\ IsLit(next, 1) -> cur
    [] ~cur.lit /\ IsLitOtherThan(next, 1) -> next
    [] OTHER -> IF uni THEN cur ELSE MaxOf(cur, next)

Broadcast(x, y, uni) ==
  LET rank == Larger(Len(x), Len(y)) IN
  [i \in 1..rank |-> BroadcastDim(Prepend1s(x, rank)[i], Prepend1s(y, rank)[i], uni)]

\* Verifies the 1s as well.
BroadcastRefusesOnes(x, y) ==
  LET rank == Larger(Len(x), Len(y)) IN
  \E i \in 1..rank : LET a == Prepend1s(x, rank)[i]
                         b == Prepend1s(y, rank)[i] IN
    IsLitOtherThan(a, 1) /\ b.lit /\ a.val # b.val

BroadcastRefused(x, y) ==
  LET rank == Larger(Len(x), Len(y)) IN
  \E i \in 1..rank : LET a == Prepend1s(x, rank)[i]
                         b == Prepend1s(y, rank)[i] IN
    IsLitOtherThan(a, 1) /\ IsLitOtherThan(b, 1) /\ a.val # b.val

(*************************** matrix products *******************************)

MatMulRank(a, b) == Larger(2, Larger(Len(a), Len(b)))
MatMulA(a, b) == Prepend1s(a, MatMulRank(a, b))
MatMulB(a, b) == Prepend1s(IF Len(b) = 1 THEN Append(b, Lit(1)) ELSE b, MatMulRank(a, b))

\* Takes what is static before it looks for a broadcast.
BatchDimStaticFirst(a, b) == IF a.lit THEN a ELSE IF b.lit THEN b ELSE a

BatchDim(a, b) ==
  CASE IsLit(a, 1) -> b
    [] IsLit(b, 1) -> a
    [] ~a.lit /\ IsLitOtherThan(b, 1) -> b
    [] OTHER -> a

MatMul(a, b) ==
  LET r == MatMulRank(a, b)
      A == MatMulA(a, b)
      B == MatMulB(a, b) IN
  [i \in 1..(r - 2) |-> BatchDim(A[i], B[i])]
    \o (IF Len(a) > 1 THEN <<A[r - 1]>> ELSE <<>>)
    \o (IF Len(b) > 1 THEN <<B[r]>> ELSE <<>>)

Clash(a, b) == a.lit /\ b.lit /\ a.val # b.val

MatMulRefused(a, b) ==
  LET r == MatMulRank(a, b)
      A == MatMulA(a, b)
      B == MatMulB(a, b) IN
  \/ \E i \in 1..(r - 2) : ~IsLit(A[i], 1) /\ ~IsLit(B[i], 1) /\ Clash(A[i], B[i])
  \/ Clash(A[r], B[r - 1])

\* updateInputDimAt: the reduction dim of one operand learned from the other.
MatMulUpdatedA(a, b) ==
  LET k == MatMulB(a, b)[MatMulRank(a, b) - 1] IN
  IF ~a[Len(a)].lit /\ k.lit THEN [a EXCEPT ![Len(a)] = k] ELSE a
MatMulUpdatedB(a, b) ==
  LET k == a[Len(a)] IN
  IF k.lit /\ ~b[Len(b) - 1].lit THEN [b EXCEPT ![Len(b) - 1] = k] ELSE b

Transposed(x, t) == IF t THEN Reverse(x) ELSE x

Gemm(a, b, transA, transB) == <<Transposed(a, transA)[1], Transposed(b, transB)[2]>>

GemmRefused(a, b, c, transA, transB) ==
  LET out == Gemm(a, b, transA, transB)
      C == Prepend1s(c, 2) IN
  \/ Clash(Transposed(a, transA)[2], Transposed(b, transB)[1])
  \/ \E i \in 1..2 : C[i].val # 1 /\ Clash(out[i], C[i])

\* The reduction dim of A goes to B when it is literal, else the other way.
GemmUpdatedA(a, b, transA, transB) ==
  LET k == Transposed(b, transB)[1]
      i == IF transA THEN 1 ELSE 2 IN
  IF ~a[i].lit /\ k.lit THEN [a EXCEPT ![i] = k] ELSE a

(************************ reductions and rearrangements ********************)

Reduce(x, axes, keepdims) ==
  IF keepdims THEN [i \in DOMAIN x |-> IF i \in axes THEN Lit(1) ELSE x[i]]
  ELSE At(x, DOMAIN x \ axes)

ArgMinMax(x, axis, keepdims) ==
  [i \in 1..(IF keepdims THEN Len(x) ELSE Len(x) - 1) |->
     IF keepdims THEN IF i = axis THEN Lit(1) ELSE x[i]
     ELSE IF i < axis THEN x[i] ELSE x[i + 1]]

Transpose(x, perm) == [i \in DOMAIN x |-> x[perm[i]]]

Product(x) == FoldFunction(Mul, Lit(1), x)

Flatten(x, axis) == <<Product(SubSeq(x, 1, axis)), Product(SubSeq(x, axis + 1, Len(x)))>>

Squeeze(x, axes) == At(x, DOMAIN x \ axes)
SqueezeAxesFromShape(x) == {i \in DOMAIN x : IsLit(x[i], 1)}
SqueezeFromShapeRefused(x) == \E i \in DOMAIN x : ~x[i].lit

Unsqueeze(x, axes) ==
  [i \in 1..(Len(x) + Cardinality(axes)) |->
     IF i \in axes THEN Lit(1) ELSE x[i - Cardinality({j \in axes : j < i})]]

\* `same` maps positions of the output to the axes of the data whose dim they
\* hold, as far as the scoped dimension analysis has found a bijection.
ReshapeElements(x, same) == Product(At(x, DOMAIN x \ Range(same)))

ReshapeDim(x, shape, i) ==
  IF i \in DOMAIN x THEN Select(Equals(shape[i], Lit(0)), x[i], shape[i]) ELSE shape[i]

\* Leaves out the dims found equal on the side of the data only.
ReshapeElementsOneSided(x, shape, same) ==
  Product([j \in DOMAIN shape |->
    LET dim == ReshapeDim(x, shape, j) IN
    Select(Equals(dim, Lit(-1)), Lit(1), dim)])

ReshapeElementsFromShape(x, shape, same) ==
  Product([j \in DOMAIN shape |->
    LET dim == ReshapeDim(x, shape, j) IN
    IF j \in DOMAIN same THEN Lit(1) ELSE Select(Equals(dim, Lit(-1)), Lit(1), dim)])

Reshape(x, shape, same) ==
  [i \in DOMAIN shape |->
     Select(Equals(shape[i], Lit(-1)),
            FloorDiv(ReshapeElements(x, same), ReshapeElementsFromShape(x, shape, same)),
            ReshapeDim(x, shape, i))]

(*************************** windows ***************************************)

KdTerm(k, d) == Add(Mul(Sub(k, Lit(1)), d), Lit(1))

\* NOTSET and VALID (without pads).
WindowDim(in, k, d, s, padSum, ceilMode) ==
  LET room == Sub(Add(in, padSum), KdTerm(k, d)) IN
  Add(IF ceilMode THEN CeilDiv(room, s) ELSE FloorDiv(room, s), Lit(1))

AutoPadDim(in, s) == CeilDiv(in, s)

SamePadSum(in, k, d, s) ==
  MaxOf(Sub(Add(Mul(Sub(AutoPadDim(in, s), Lit(1)), s), KdTerm(k, d)), in), Lit(0))

\* The pads of SAME_UPPER, and those of SAME_LOWER the other way round.
SamePads(in, k, d, s) ==
  LET sum == SamePadSum(in, k, d, s)
      half == FloorDiv(sum, Lit(2))
      odd == Mod(sum, Lit(2)) IN
  <<half, Add(half, Select(Equals(odd, Lit(0)), Lit(0), Lit(1)))>>

Pool(x, spatial) == <<x[1], x[2], spatial>>
Conv(x, w, spatial) == <<x[1], w[1], spatial>>
GlobalPool(x) == [i \in DOMAIN x |-> IF i <= 2 THEN x[i] ELSE Lit(1)]

TransposedWindowDim(in, k, d, s, padSum, outPad) ==
  Sub(Add(Add(Mul(s, Sub(in, Lit(1))), outPad), KdTerm(k, d)), padSum)

(*************************** slices and parts ******************************)

PosInf == 2147483647
NegInf == -2147483647 - 1

SliceStart(dim, start, step) ==
  LET pos == Select(Less(start, Lit(0)), Add(start, dim), start) IN
  Select(Less(step, Lit(0)), Clamp(pos, Lit(0), Sub(dim, Lit(1))), Clamp(pos, Lit(0), dim))

SliceEnd(dim, end, step) ==
  LET pos == Select(Less(end, Lit(0)), Add(end, dim), end)
      low == Select(Less(Lit(NegInf), end), pos, Lit(-1))
      fin == Select(Less(end, Lit(PosInf)), low, dim) IN
  Select(Less(step, Lit(0)), Clamp(fin, Lit(-1), dim), Clamp(fin, Lit(0), dim))

\* Has no lower bound.
SliceDimUnbounded(dim, start, end, step) ==
  CeilDiv(Sub(SliceEnd(dim, end, step), SliceStart(dim, start, step)), step)

SliceDim(dim, start, end, step) ==
  LET n == CeilDiv(Sub(SliceEnd(dim, end, step), SliceStart(dim, start, step)), step) IN
  Select(Less(n, Lit(0)), Lit(0), n)

Slice(x, axis, start, end, step) == [x EXCEPT ![axis] = SliceDim(x[axis], start, end, step)]

\* pads holds the begins of all axes, then the ends.
Pad(x, pads) == [i \in DOMAIN x |-> Add(Add(pads[i], x[i]), pads[i + Len(x)])]

Tile(x, repeats) == [i \in DOMAIN x |-> Mul(x[i], repeats[i])]

EmptyInput(x) == Len(x) = 1 /\ IsLit(x[1], 0)

Concat(x, y, axis) ==
  IF EmptyInput(x) THEN y ELSE IF EmptyInput(y) THEN x
  ELSE [i \in DOMAIN x |-> IF i = axis THEN Add(x[i], y[i])
                           ELSE IF y[i].lit THEN y[i] ELSE x[i]]

\* Result i of n when no sizes are given.
SplitDim(dim, n, i) ==
  LET bigger == IF dim.lit THEN dim.val % n ELSE n IN
  IF i <= bigger THEN CeilDiv(dim, Lit(n)) ELSE FloorDiv(dim, Lit(n))

SplitRefused(dim, n, byAttribute) == dim.lit /\ dim.val % n # 0 /\ ~byAttribute

Split(x, axis, part) == [x EXCEPT ![axis] = part]

Gather(x, indices, axis) ==
  SubSeq(x, 1, axis - 1) \o indices \o SubSeq(x, axis + 1, Len(x))

OneHot(x, axis, depth) == SubSeq(x, 1, axis - 1) \o <<depth>> \o SubSeq(x, axis, Len(x))
OneHotRefused(depth) == depth.lit /\ depth.val < 1

TopK(x, axis, k) == [x EXCEPT ![axis] = k]
TopKRefused(x, axis, k) == k.lit /\ x[axis].lit /\ k.val > x[axis].val

RangeDim(start, limit, delta) == MaxOf(CeilDiv(Sub(limit, start), delta), Lit(0))

(**************************** known results ********************************)

\* refineDims: a static dim of the type that the result has already is
\* believed before the inferred one; a scalar on either side is left alone.
RefineDims(inferred, existing) ==
  IF existing = <<>> \/ inferred = <<>> THEN inferred
  ELSE [i \in DOMAIN inferred |-> IF existing[i].lit THEN existing[i] ELSE inferred[i]]
=============================================================================
