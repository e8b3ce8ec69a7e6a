--------------------------- MODULE ElementsBuilder ---------------------------
(***************************************************************************)
(* Constants and the operations that fold them (ElementsAttrBuilder and    *)
(* DisposableElementsAttr).  A constant is a buffer that views share, each *)
(* with strides and a chain of element-wise functions applied when the     *)
(* buffer is read.  transpose, reshape, expand and the element-wise        *)
(* operations make views where they can; the others read the view and      *)
(* write a new buffer with flat offset arithmetic.                         *)
(***************************************************************************)
EXTENDS Strides, FiniteSets

CONSTANT MinCount   \* the elements from which reduce runs in parallel (2000)

\* What an uninitialized or out of range element reads as.
Garbage == 99999

Axes(x) == 1 .. Len(x.shape)

Sum(s) == FoldLeft(LAMBDA a, b : a + b, 0, s)

Drop(s, n) == SubSeq(s, n + 1, Len(s))

Take(s, n) == SubSeq(s, 1, n)

-----------------------------------------------------------------------------
(* Reading a constant. *)

\* A transformer is a chain of element-wise functions: of one operand, of a
\* combiner (here minus) with a splat on one side, or the choice of Where
\* between two splats.
Apply(v, f) == CASE f[1] = "unary" -> 2 * v + f[2]
                 [] f[1] = "lhs"   -> f[2] - v
                 [] f[1] = "rhs"   -> v - f[2]
                 [] f[1] = "where" -> IF v # 0 THEN f[2] ELSE f[3]

GetBufferAsWideNums(e) ==
    [p \in DOMAIN e.buffer |-> FoldLeft(Apply, e.buffer[p], e.transformer)]

At(nums, pos) == IF pos \in 0 .. Len(nums) - 1 THEN nums[pos + 1] ELSE Garbage

IsContiguous(e) == AreStridesContiguous(e.shape, e.strides)

IsSplat(e) == e.strides = GetSplatStrides(e.shape) /\ e.buffer # << >>

RestrideArray(shape, strides, src) ==
    LET range == StridesRange(shape, strides)
    IN  [k \in DOMAIN range |-> At(src, range[k].offset)]

\* getWideNums and readWideNums.
GetWideNums(e) ==
    IF IsContiguous(e) THEN GetBufferAsWideNums(e)
    ELSE RestrideArray(e.shape, e.strides, GetBufferAsWideNums(e))

FlatIndexToBufferPos(e, flat) ==
    IF flat = 0 \/ IsContiguous(e) THEN flat
    ELSE IF IsSplat(e) THEN 0
    ELSE GetStridesPosition(UnflattenIndex(e.shape, flat), e.strides)

AtFlatIndex(e, flat) == At(GetBufferAsWideNums(e), FlatIndexToBufferPos(e, flat))

\* Variant: the elements are compared without their transformers.
AllEqualUntransformed(e, v) == \A p \in DOMAIN e.buffer : e.buffer[p] = v

\* allEqual looks through the buffer, whatever the strides.
AllEqual(e, v) == \A p \in DOMAIN e.buffer : GetBufferAsWideNums(e)[p] = v

-----------------------------------------------------------------------------
(* Making constants. *)

Create(shape, strides, buffer, transformer) ==
    [shape |-> shape, strides |-> strides, buffer |-> buffer,
     transformer |-> transformer]

\* fromWideNums, fromRawBytes, createWithDefaultStrides.
FromWideNums(shape, nums) == Create(shape, GetDefaultStrides(shape), nums, << >>)

SplatOf(shape, v) == Create(shape, GetSplatStrides(shape), <<v>>, << >>)

\* A buffer of n elements after a set of writes <<position, value>>; a write
\* out of range may leave anything in it.
Filled(n, writes) ==
    LET at(p) == {w[2] : w \in {w \in writes : w[1] = p}}
        wild == \E w \in writes : w[1] \notin 0 .. n - 1
    IN  [k \in 1 .. n |->
            IF wild \/ Cardinality(at(k - 1)) # 1 THEN Garbage
            ELSE CHOOSE v \in at(k - 1) : TRUE]

Transpose(e, perm) ==
    IF perm = [a \in Axes(e) |-> a] THEN e
    ELSE Create(TransposeDims(e.shape, perm), TransposeDims(e.strides, perm),
                e.buffer, e.transformer)

\* A view if there are strides for it, else a copy of the elements; only the
\* copy of a transformed constant goes through readWideNums.
Reshape(e, shape) ==
    LET view == ReshapeStrides(e.shape, e.strides, shape)
    IN  IF shape = e.shape THEN e
        ELSE IF view.kind = "view"
            THEN Create(shape, view.strides, e.buffer, e.transformer)
        ELSE IF e.transformer = << >>
            THEN FromWideNums(shape, RestrideArray(e.shape, e.strides, e.buffer))
        ELSE FromWideNums(shape, GetWideNums(e))

ReshapeAsserts(e, shape) ==
    shape # e.shape /\ ReshapeStrides(e.shape, e.strides, shape).kind = "assert"

Expand(e, shape) ==
    IF shape = e.shape THEN e
    ELSE Create(shape, ExpandStrides(e.strides, shape), e.buffer, e.transformer)

\* doTransform and expandAndTransform.
ExpandAndTransform(e, shape, f) ==
    Create(shape, ExpandStrides(e.strides, shape), e.buffer, Append(e.transformer, f))

Combine(lhs, rhs, shape) ==
    IF IsSplat(lhs) THEN ExpandAndTransform(rhs, shape, <<"lhs", AtFlatIndex(lhs, 0)>>)
    ELSE IF IsSplat(rhs)
        THEN ExpandAndTransform(lhs, shape, <<"rhs", AtFlatIndex(rhs, 0)>>)
    ELSE LET l == RestrideArray(shape, ExpandStrides(lhs.strides, shape),
                                GetBufferAsWideNums(lhs))
             r == RestrideArray(shape, ExpandStrides(rhs.strides, shape),
                                GetBufferAsWideNums(rhs))
         IN  FromWideNums(shape, [k \in DOMAIN l |-> l[k] - r[k]])

Where(cond, lhs, rhs, shape) ==
    LET read(e) == RestrideArray(shape, ExpandStrides(e.strides, shape),
                                 GetBufferAsWideNums(e))
    IN  IF IsSplat(cond)
        THEN Expand(IF AtFlatIndex(cond, 0) # 0 THEN lhs ELSE rhs, shape)
        ELSE IF IsSplat(lhs) /\ IsSplat(rhs)
        THEN ExpandAndTransform(cond, shape,
                                <<"where", AtFlatIndex(lhs, 0), AtFlatIndex(rhs, 0)>>)
        ELSE FromWideNums(shape, [k \in 1 .. NumElements(shape) |->
                IF read(cond)[k] # 0 THEN read(lhs)[k] ELSE read(rhs)[k]])

\* The i-th of the parts; the axis is not empty.
Split(e, axis, sizes, i) ==
    LET data == GetWideNums(e)
        stride == NumElements(Drop(e.shape, axis - 1))
        substride == stride \div e.shape[axis]
        start == Sum(Take(sizes, i - 1)) * substride
        len == sizes[i] * substride
        blocks == IF stride = 0 THEN 0 ELSE (Len(data) - start + stride - 1) \div stride
        block(b) == [k \in 1 .. len |-> At(data, start + (b - 1) * stride + k - 1)]
    IN  IF Len(sizes) = 1 THEN e
        ELSE FromWideNums([e.shape EXCEPT ![axis] = sizes[i]],
                          FlattenSeq([b \in 1 .. blocks |-> block(b)]))

\* The blocks of each input, one for each index of the axes before the axis,
\* go to their places in the blocks of the result.
Concat(es, axis) ==
    LET shape == [es[1].shape EXCEPT
                    ![axis] = Sum([k \in DOMAIN es |-> es[k].shape[axis]])]
        post == NumElements(Drop(shape, axis))
        outBlockLen == shape[axis] * post
        blockLen(k) == es[k].shape[axis] * post
        start(k) == Sum([j \in 1 .. k - 1 |-> blockLen(j)])
        writes(k) ==
            LET nums == RestrideArray(es[k].shape, es[k].strides,
                                      GetBufferAsWideNums(es[k]))
            IN  {<<start(k) + ((p - 1) \div blockLen(k)) * outBlockLen
                     + ((p - 1) % blockLen(k)), nums[p]>> : p \in DOMAIN nums}
    IN  IF Len(es) = 1 THEN es[1]
        ELSE FromWideNums(shape, Filled(NumElements(shape),
                                        UNION {writes(k) : k \in DOMAIN es}))

\* starts and steps as the shape helper of Slice leaves them.
Slice(e, shape, starts, steps) ==
    LET origin == GetStridesPosition(starts, e.strides)
        range == StridesRange(shape, [a \in Axes(e) |-> e.strides[a] * steps[a]])
    IN  FromWideNums(shape, [k \in DOMAIN range |->
            At(GetBufferAsWideNums(e), origin + range[k].offset)])

Pads(n, v) == [k \in 1 .. n |-> v]

\* The fill before the row that starts at an index: that of the first axis
\* from which on all axes but the last start over.
BetweenRows(lo, hi, shape, index) ==
    LET mult(a) == NumElements(Drop(shape, a))
        lastZero == Min({z \in 1 .. Len(shape) : \A j \in z .. Len(shape) - 1 : index[j] = 0})
    IN  Sum([j \in 1 .. Len(shape) |->
                IF j < lastZero THEN 0 ELSE (lo[j] + hi[j]) * mult(j)])

Pad(e, lo, hi, v) ==
    LET rank == Len(e.shape)
        shape == [a \in Axes(e) |-> e.shape[a] + lo[a] + hi[a]]
        mult(a) == NumElements(Drop(shape, a))
        beginPad == Sum([a \in Axes(e) |-> lo[a] * mult(a)])
        endPad == Sum([a \in Axes(e) |-> hi[a] * mult(a)])
        range == StridesRange(e.shape, e.strides)
        nums == GetBufferAsWideNums(e)
        between(k) == IF k > 1 /\ range[k].index[rank] = 0
                      THEN Pads(BetweenRows(lo, hi, shape, range[k].index), v)
                      ELSE << >>
    IN  IF rank = 0 THEN e
        ELSE IF NumElements(e.shape) = 0 THEN SplatOf(shape, v)
        ELSE FromWideNums(shape,
                Pads(beginPad, v)
                \o FlattenSeq([k \in DOMAIN range |->
                                 between(k) \o <<At(nums, range[k].offset)>>])
                \o Pads(endPad, v))

\* indices: a shape and its values.
Gather(e, indices, axis) ==
    LET shape == Take(e.shape, axis - 1) \o indices.shape \o Drop(e.shape, axis)
        post == NumElements(Drop(e.shape, axis))
        src == GetWideNums(e)
        size == NumElements(shape)
        inputBlockLen == e.shape[axis] * post
        outBlockLen == Len(indices.values) * post
        blocks == IF size = 0 THEN 0 ELSE size \div outBlockLen
        adjusted(k) == LET i == indices.values[k]
                       IN  IF i < 0 THEN i + e.shape[axis] ELSE i
    IN  FromWideNums(shape, Filled(size,
            {<<b * outBlockLen + (k - 1) * post + j,
               At(src, adjusted(k) * post + b * inputBlockLen + j)>> :
                b \in 0 .. blocks - 1, k \in DOMAIN indices.values, j \in 0 .. post - 1}))

\* tuples: the rows of the indices; a negative index moves the position back.
ScatterND(e, tuples, updates) ==
    LET src == GetWideNums(e)
        nd == Len(tuples[1])
        sliceStrides == Take(GetDefaultStrides(e.shape), nd)
        sliceSize == NumElements(Drop(e.shape, nd))
        pos(k) == GetStridesPosition(tuples[k], sliceStrides)
        news == RestrideArray(updates.shape, updates.strides, GetBufferAsWideNums(updates))
        writes == {<<pos(k) + j, news[(k - 1) * sliceSize + j + 1]>> :
                      k \in DOMAIN tuples, j \in 0 .. sliceSize - 1}
        kept == {<<p, At(src, p)>> :
                    p \in (0 .. Len(src) - 1) \ {w[1] : w \in writes}}
    IN  FromWideNums(e.shape, Filled(Len(src), writes \cup kept))

\* Variant: the last tiles are not moved behind the leftovers.
FetchBatchUnshifted(size, threads, t) ==
    LET tile == size \div threads
        leftovers == size % threads
    IN  IF t < leftovers THEN t * (tile + 1) .. t * (tile + 1) + tile
        ELSE t * tile .. t * tile + tile - 1

\* fetchBatch: the positions of the batch that a thread works on.
FetchBatch(size, threads, t) ==
    LET tile == size \div threads
        leftovers == size % threads
    IN  IF t < leftovers THEN t * (tile + 1) .. t * (tile + 1) + tile
        ELSE t * tile + leftovers .. t * tile + leftovers + tile - 1

\* Sums over the axes; below MinCount elements without the threads.  A slot
\* that two threads write may be left with anything.
Reduce(e, axes, keepdims, threads) ==
    LET picked(s, in) == FlattenSeq([a \in Axes(e) |-> IF in[a] THEN <<s[a]>> ELSE << >>])
        reducing == [a \in Axes(e) |-> a \in axes]
        keeping == [a \in Axes(e) |-> a \notin axes \/ keepdims]
        shape == picked([a \in Axes(e) |-> IF a \in axes THEN 1 ELSE e.shape[a]], keeping)
        strides == picked([a \in Axes(e) |-> IF a \in axes THEN 0 ELSE e.strides[a]], keeping)
        batch == StridesRange(shape, strides)
        together == StridesRange(picked(e.shape, reducing), picked(e.strides, reducing))
        nums == GetBufferAsWideNums(e)
        work(tile) == {<<b, Sum([k \in DOMAIN together |->
                            At(nums, batch[b + 1].offset + together[k].offset)])>> : b \in tile}
        tiles == IF Len(batch) * Len(together) < MinCount THEN <<0 .. Len(batch) - 1>>
                 ELSE [t \in 1 .. threads |-> FetchBatch(Len(batch), threads, t - 1)]
        raced == {<<b, Garbage>> : b \in {p \in 0 .. Len(batch) - 1 :
                    Cardinality({t \in DOMAIN tiles : p \in tiles[t]}) > 1}}
    IN  FromWideNums(shape, Filled(Len(batch), raced \cup UNION {work(tile) : tile \in Range(tiles)}))

\* The shape both broadcast to.
BroadcastShape(s1, s2) ==
    LET rank == Max({Len(s1), Len(s2)})
        x1 == [a \in 1 .. rank - Len(s1) |-> 1] \o s1
        x2 == [a \in 1 .. rank - Len(s2) |-> 1] \o s2
    IN  [a \in 1 .. rank |-> IF x1[a] = 1 THEN x2[a] ELSE x1[a]]

\* M x K times K x N, a vector being the row or the column; its axis is
\* iterated with size one and left out of the result.
MatMul(lhs, rhs) ==
    LET lr == Len(lhs.shape)
        rr == Len(rhs.shape)
        K == lhs.shape[lr]
        rows == IF lr = 1 THEN << >> ELSE <<lhs.shape[lr - 1]>>
        cols == IF rr = 1 THEN << >> ELSE <<rhs.shape[rr]>>
        batch == BroadcastShape(Take(lhs.shape, lr - Len(rows) - 1),
                                Take(rhs.shape, rr - Len(cols) - 1))
        xpL == ExpandStrides(lhs.strides, batch \o rows \o <<K>>)
        xpR == ExpandStrides(rhs.strides, batch \o <<K>> \o cols)
        n == Len(batch)
        lStrides == Take(xpL, n) \o <<IF lr = 1 THEN 0 ELSE xpL[n + 1], 0>>
        rStrides == Take(xpR, n) \o <<0, IF rr = 1 THEN 0 ELSE xpR[n + 2]>>
        full == batch \o <<Prod(rows), Prod(cols)>>
        l == StridesRange(full, lStrides)
        r == StridesRange(full, rStrides)
        lNums == GetBufferAsWideNums(lhs)
        rNums == GetBufferAsWideNums(rhs)
    IN  FromWideNums(batch \o rows \o cols, [k \in DOMAIN l |->
            Sum([i \in 1 .. K |->
                    At(lNums, l[k].offset + (i - 1) * Last(xpL))
                    * At(rNums, r[k].offset + (i - 1) * xpR[n + 1])])])

\* The indices of the values that are not zero, one column each.
NonZero(e) ==
    LET range == StridesRange(e.shape, GetDefaultStrides(e.shape))
        found == SelectSeq([k \in DOMAIN range |-> k],
                           LAMBDA k : AtFlatIndex(e, k - 1) # 0)
        rank == Len(e.shape)
        count == Len(found)
    IN  FromWideNums(<<rank, count>>, Filled(rank * count,
            {<<(j - 1) * count + i - 1, range[found[i]].index[j]>> :
                i \in 1 .. count, j \in 1 .. rank}))
=============================================================================
