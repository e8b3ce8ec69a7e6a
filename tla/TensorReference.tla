--------------------------- MODULE TensorReference ---------------------------
(***************************************************************************)
(* What ONNX says the folded operations compute: tensors as functions from *)
(* indices to numbers, without buffers, strides or offsets.                *)
(***************************************************************************)
EXTENDS Strides, FiniteSets

Tensor(shape, at(_)) == [shape |-> shape, at |-> [i \in Index(shape) |-> at(i)]]

\* The place of an index in row-major order.
RowMajor(shape, i) ==
    FoldLeft(LAMBDA a, b : a + b, 0,
             [a \in DOMAIN i |-> i[a] * Between(shape, a + 1, Len(shape))])

\* The index of x that an index of a shape x broadcasts to stands for.
Narrowed(x, i) ==
    [a \in DOMAIN x.shape |->
        IF x.shape[a] = 1 THEN 0 ELSE i[a + Len(i) - Len(x.shape)]]

RefTranspose(x, perm) ==
    Tensor([a \in DOMAIN perm |-> x.shape[perm[a]]],
           LAMBDA i : x.at[CHOOSE j \in Index(x.shape) : \A a \in DOMAIN perm : j[perm[a]] = i[a]])

RefReshape(x, shape) ==
    Tensor(shape, LAMBDA i :
        x.at[CHOOSE j \in Index(x.shape) : RowMajor(x.shape, j) = RowMajor(shape, i)])

RefExpand(x, shape) == Tensor(shape, LAMBDA i : x.at[Narrowed(x, i)])

RefMap(x, f(_)) == Tensor(x.shape, LAMBDA i : f(x.at[i]))

RefMinus(x, y, shape) ==
    Tensor(shape, LAMBDA i : x.at[Narrowed(x, i)] - y.at[Narrowed(y, i)])

RefWhere(cond, x, y, shape) ==
    Tensor(shape, LAMBDA i : IF cond.at[Narrowed(cond, i)] # 0
                             THEN x.at[Narrowed(x, i)] ELSE y.at[Narrowed(y, i)])

\* The part of x from an index of an axis on.
RefPart(x, axis, from, size) ==
    Tensor([x.shape EXCEPT ![axis] = size],
           LAMBDA i : x.at[[i EXCEPT ![axis] = @ + from]])

RefConcat(x, y, axis) ==
    Tensor([x.shape EXCEPT ![axis] = @ + y.shape[axis]],
           LAMBDA i : IF i[axis] < x.shape[axis] THEN x.at[i]
                      ELSE y.at[[i EXCEPT ![axis] = @ - x.shape[axis]]])

RefSlice(x, shape, starts, steps) ==
    Tensor(shape, LAMBDA i : x.at[[a \in DOMAIN i |-> starts[a] + i[a] * steps[a]]])

RefPad(x, lo, hi, v) ==
    Tensor([a \in DOMAIN x.shape |-> x.shape[a] + lo[a] + hi[a]],
           LAMBDA i : LET j == [a \in DOMAIN i |-> i[a] - lo[a]]
                      IN  IF j \in Index(x.shape) THEN x.at[j] ELSE v)

\* A negative index counts from the end.
FromEnd(i, size) == IF i < 0 THEN i + size ELSE i

RefGather(x, indices, axis) ==
    LET n == Len(indices.shape)
        before == SubSeq(x.shape, 1, axis - 1)
        after == SubSeq(x.shape, axis + 1, Len(x.shape))
    IN  Tensor(before \o indices.shape \o after, LAMBDA i :
            LET k == RowMajor(indices.shape, SubSeq(i, axis, axis + n - 1))
            IN  x.at[SubSeq(i, 1, axis - 1)
                     \o <<FromEnd(indices.values[k + 1], x.shape[axis])>>
                     \o SubSeq(i, axis + n, Len(i))])

RefScatterND(x, tuples, updates) ==
    LET nd == Len(tuples[1])
        target(k) == [a \in 1 .. nd |-> FromEnd(tuples[k][a], x.shape[a])]
    IN  Tensor(x.shape, LAMBDA i :
            IF \E k \in DOMAIN tuples : target(k) = SubSeq(i, 1, nd)
            THEN LET k == CHOOSE k \in DOMAIN tuples : target(k) = SubSeq(i, 1, nd)
                 IN  updates.at[<<k - 1>> \o SubSeq(i, nd + 1, Len(i))]
            ELSE x.at[i])

RefReduceSum(x, axes, keepdims) ==
    LET kept == SelectSeq([a \in DOMAIN x.shape |-> a], LAMBDA a : a \notin axes)
        full == [a \in DOMAIN x.shape |-> IF a \in axes THEN 1 ELSE x.shape[a]]
        agrees(i, j) == IF keepdims THEN \A a \in DOMAIN j : a \in axes \/ j[a] = i[a]
                        ELSE \A k \in DOMAIN kept : j[kept[k]] = i[k]
    IN  Tensor(IF keepdims THEN full ELSE [k \in DOMAIN kept |-> full[kept[k]]],
               LAMBDA i : MapThenSumSet(LAMBDA j : x.at[j],
                                        {j \in Index(x.shape) : agrees(i, j)}))

\* numpy's matmul: vectors are a row or a column, the leading axes broadcast.
RefMatMul(x, y, batch) ==
    LET xr == Len(x.shape)
        yr == Len(y.shape)
        rows == IF xr = 1 THEN << >> ELSE <<x.shape[xr - 1]>>
        cols == IF yr = 1 THEN << >> ELSE <<y.shape[yr]>>
        n == Len(batch)
    IN  Tensor(batch \o rows \o cols, LAMBDA i :
            LET b == SubSeq(i, 1, n)
                r == SubSeq(i, n + 1, n + Len(rows))
                q == SubSeq(i, n + Len(rows) + 1, Len(i))
            IN  MapThenSumSet(LAMBDA k : x.at[Narrowed(x, b \o r \o <<k>>)]
                                         * y.at[Narrowed(y, b \o <<k>> \o q)],
                              0 .. x.shape[xr] - 1))

RefNonZero(x) ==
    LET nonzero == {i \in Index(x.shape) : x.at[i] # 0}
        rank(i) == Cardinality({j \in nonzero : RowMajor(x.shape, j) < RowMajor(x.shape, i)})
    IN  Tensor(<<Len(x.shape), Cardinality(nonzero)>>, LAMBDA i :
            (CHOOSE j \in nonzero : rank(j) = i[2])[i[1] + 1])
=============================================================================
