--------------------------- MODULE ElementsFolding ---------------------------
(***************************************************************************)
(* Chains of constant folding (ConstProp.cpp on ElementsAttrBuilder): each *)
(* step folds one operation whose operands are the constant folded so far  *)
(* and fresh constants of the model.  Beside the constant the module keeps *)
(* the tensor that ONNX defines.                                           *)
(***************************************************************************)
EXTENDS ElementsBuilder, TensorReference

CONSTANTS InitShapes,   \* shapes of the constants of the model
          MaxRank,      \* bound on the rank of a folded constant
          MaxElements,  \* bound on its number of elements
          MaxViews,     \* bound on the lazy operations of a chain
          MaxCopies,    \* bound on the copying operations of a chain
          MaxThreads,   \* bound on MLIRContext::getNumThreads()
          Disputed      \* "scatter": negative indices of ScatterND

ASSUME /\ MaxRank \in Nat /\ MaxElements \in Nat /\ MaxViews \in Nat
       /\ MaxCopies \in Nat /\ MaxThreads \in Nat \ {0} /\ MinCount \in Nat
       /\ Disputed \subseteq {"scatter"}

VARIABLES c,         \* the constant: shape, strides, buffer, transformer
          ref,       \* the tensor it stands for
          views,     \* the lazy operations so far
          copies,    \* the copying operations so far
          asserted   \* an assertion of reshapeStrides failed

vars == <<c, ref, views, copies, asserted>>

\* A constant of the model and the tensor it holds.
Fresh(shape, first) ==
    LET nums == [k \in 1 .. NumElements(shape) |-> first + k]
    IN  [elms |-> FromWideNums(shape, nums),
         tensor |-> Tensor(shape, LAMBDA i : nums[RowMajor(shape, i) + 1])]

FreshSplat(shape, v) == [elms |-> SplatOf(shape, v), tensor |-> Tensor(shape, LAMBDA i : v)]

Small(shape) == Len(shape) <= MaxRank /\ NumElements(shape) <= MaxElements

\* The shapes of at most MaxRank axes, by their number of elements.
ShapesOf ==
    LET shapes == UNION {[1 .. r -> 1 .. MaxElements] : r \in 0 .. MaxRank}
                  \cup UNION {[1 .. r -> 0 .. 2] : r \in 0 .. MaxRank}
    IN  [n \in 0 .. MaxElements |-> {s \in shapes : NumElements(s) = n}]

\* Other operands: splats, and constants with elements of their own.
Splats == {FreshSplat(s, 3) : s \in InitShapes}
Others == {Fresh(s, 10) : s \in InitShapes}
Conditions == {FreshSplat(s, 0) : s \in InitShapes} \cup {Fresh(s, -2) : s \in InitShapes}

Broadcasts(s, t) ==
    \A k \in 1 .. Min({Len(s), Len(t)}) :
        LET d == s[Len(s) - k + 1]
            e == t[Len(t) - k + 1]
        IN  d = e \/ d = 1 \/ e = 1

Init == /\ \E s \in InitShapes : LET f == Fresh(s, -2)
                                 IN  c = f.elms /\ ref = f.tensor
        /\ views = 0 /\ copies = 0 /\ asserted = FALSE

\* A step that folds into e, which stands for x.
View(e, x) == /\ views' = views + 1
              /\ c' = e /\ ref' = x
              /\ UNCHANGED copies

Copy(e, x) == /\ copies' = copies + 1
              /\ c' = e /\ ref' = x
              /\ UNCHANGED <<views, asserted>>

TransposeOp ==
    \E perm \in Permutations(Axes(c)) :
        LET p == [a \in Axes(c) |-> perm[a]]
        IN  View(Transpose(c, p), RefTranspose(ref, p)) /\ UNCHANGED asserted

\* Not of an empty view out of order, on which reshapeStrides asserts.
ReshapeOp ==
    /\ Small(c.shape)
    /\ NumElements(c.shape) > 0 \/ IsContiguous(c)
    /\ \E s \in ShapesOf[NumElements(c.shape)] :
        /\ View(Reshape(c, s), RefReshape(ref, s))
        /\ asserted' = (asserted \/ ReshapeAsserts(c, s))

ExpandOp ==
    \E s \in InitShapes \cup {<<2>> \o c.shape, [a \in Axes(c) |-> IF c.shape[a] = 1 THEN 2 ELSE c.shape[a]]} :
        /\ Broadcasts(c.shape, s) /\ BroadcastShape(c.shape, s) = s /\ Small(s)
        /\ View(Expand(c, s), RefExpand(ref, s)) /\ UNCHANGED asserted

TransformOp ==
    View(ExpandAndTransform(c, c.shape, <<"unary", 1>>), RefMap(ref, LAMBDA v : 2 * v + 1))
    /\ UNCHANGED asserted

\* With a splat the result is a view of the other side, else a copy.
CombineOp ==
    \E d \in Splats \cup Others \cup {[elms |-> c, tensor |-> ref]}, left \in BOOLEAN :
        LET s == BroadcastShape(c.shape, d.elms.shape)
            e == IF left THEN Combine(c, d.elms, s) ELSE Combine(d.elms, c, s)
            x == IF left THEN RefMinus(ref, d.tensor, s) ELSE RefMinus(d.tensor, ref, s)
        IN  /\ Broadcasts(c.shape, d.elms.shape) /\ Small(s)
            /\ IF IsSplat(c) \/ IsSplat(d.elms)
               THEN views < MaxViews /\ View(e, x) /\ UNCHANGED asserted
               ELSE copies < MaxCopies /\ Copy(e, x)

WhereOp ==
    \E cond \in Conditions, d \in {FreshSplat(<< >>, 20), Fresh(c.shape, 20)} :
        LET t == BroadcastShape(c.shape, cond.elms.shape)
        IN  /\ Broadcasts(c.shape, cond.elms.shape) /\ Small(t)
            /\ Copy(Where(cond.elms, c, d.elms, t), RefWhere(cond.tensor, ref, d.tensor, t))

\* An empty axis is left out: its size divides.
SplitOp ==
    \E axis \in Axes(c), k \in 0 .. 3, i \in {1, 2} :
        /\ c.shape[axis] > 0 /\ k <= c.shape[axis]
        /\ LET sizes == <<k, c.shape[axis] - k>>
           IN  Copy(Split(c, axis, sizes, i),
                    RefPart(ref, axis, IF i = 1 THEN 0 ELSE k, sizes[i]))

ConcatOp ==
    \E axis \in Axes(c) : \E k \in {0, 1, c.shape[axis]} :
        LET d == Fresh([c.shape EXCEPT ![axis] = k], 10)
        IN  /\ Small([c.shape EXCEPT ![axis] = @ + k])
            /\ \/ Copy(Concat(<<c, d.elms>>, axis), RefConcat(ref, d.tensor, axis))
               \/ Copy(Concat(<<d.elms, c>>, axis), RefConcat(d.tensor, ref, axis))

\* The whole of an axis, backwards, or every second index from a start on.
SliceOp ==
    \E how \in [Axes(c) -> {"all", "back", "odd"}] :
        LET starts == [a \in Axes(c) |->
                IF how[a] = "all" THEN 0 ELSE IF how[a] = "odd" THEN 1
                ELSE c.shape[a] - 1]
            steps == [a \in Axes(c) |-> IF how[a] = "all" THEN 1 ELSE IF how[a] = "odd" THEN 2 ELSE -1]
            shape == [a \in Axes(c) |-> IF how[a] = "odd" THEN c.shape[a] \div 2 ELSE c.shape[a]]
        IN  Copy(Slice(c, shape, starts, steps), RefSlice(ref, shape, starts, steps))

\* Not with pads that remove elements.
PadOp ==
    \E lo, hi \in [Axes(c) -> 0 .. 1] :
        /\ Small([a \in Axes(c) |-> c.shape[a] + lo[a] + hi[a]])
        /\ Copy(Pad(c, lo, hi, 7), RefPad(ref, lo, hi, 7))

GatherOp ==
    \E axis \in Axes(c) :
        \E indices \in
            {[shape |-> s, values |-> v] : s \in {<< >>, <<1, 1>>},
                v \in [1 .. 1 -> -c.shape[axis] .. c.shape[axis] - 1]}
            \cup {[shape |-> <<2>>, values |-> v] :
                v \in [1 .. 2 -> {-1, 0} \cap (-c.shape[axis] .. c.shape[axis] - 1)]} :
            /\ Small(Take(c.shape, axis - 1) \o indices.shape \o Drop(c.shape, axis))
            /\ Copy(Gather(c, indices, axis), RefGather(ref, indices, axis))

\* Distinct targets; negative indices are disputed.
ScatterNDOp ==
    \E nd \in Axes(c) :
        LET lowest == IF "scatter" \in Disputed THEN -1 ELSE 0
            tuple == {t \in [1 .. nd -> lowest .. 2] : \A a \in 1 .. nd : t[a] < c.shape[a]}
        IN  \E t1 \in tuple, t2 \in tuple :
                LET tuples == IF t1 = t2 THEN <<t1>> ELSE <<t1, t2>>
                    d == Fresh(<<Len(tuples)>> \o Drop(c.shape, nd), 10)
                IN  /\ NumElements(c.shape) > 0
                    /\ t1 = t2 \/ \E a \in 1 .. nd :
                        FromEnd(t1[a], c.shape[a]) # FromEnd(t2[a], c.shape[a])
                    /\ Copy(ScatterND(c, tuples, d.elms), RefScatterND(ref, tuples, d.tensor))

\* ConstPropReduceAxesRange folds empty constants without reduce.
ReduceOp ==
    \E axes \in SUBSET Axes(c) \ {{}}, keepdims \in BOOLEAN, threads \in 1 .. MaxThreads :
        /\ NumElements(c.shape) > 0
        /\ Copy(Reduce(c, axes, keepdims, threads), RefReduceSum(ref, axes, keepdims))

MatMulOp ==
    \E rhs \in {d \in Others : d.elms.shape # << >>} :
        LET lr == Len(c.shape)
            rr == Len(rhs.elms.shape)
            lb == Take(c.shape, lr - (IF lr = 1 THEN 1 ELSE 2))
            rb == Take(rhs.elms.shape, rr - (IF rr = 1 THEN 1 ELSE 2))
        IN  /\ lr > 0
            /\ c.shape[lr] = rhs.elms.shape[IF rr = 1 THEN 1 ELSE rr - 1]
            /\ Broadcasts(lb, rb)
            /\ Copy(MatMul(c, rhs.elms), RefMatMul(ref, rhs.tensor, BroadcastShape(lb, rb)))

NonZeroOp == Len(c.shape) > 0 /\ Copy(NonZero(c), RefNonZero(ref))

Next == \/ CombineOp
        \/ /\ views < MaxViews
           /\ TransposeOp \/ ReshapeOp \/ ExpandOp \/ TransformOp
        \/ /\ copies < MaxCopies
           /\ \/ WhereOp \/ SplitOp \/ ConcatOp \/ SliceOp \/ PadOp \/ GatherOp
              \/ ScatterNDOp \/ ReduceOp \/ MatMulOp \/ NonZeroOp

Spec == Init /\ [][Next]_vars

-----------------------------------------------------------------------------

\* A constant has one stride for each axis, and its strides stay in its
\* buffer (create, getStridesPosition: "Assert is commented out").
TypeOK ==
    /\ Len(c.strides) = Len(c.shape)
    /\ \A i \in Index(c.shape) : GetStridesPosition(i, c.strides) \in 0 .. Len(c.buffer) - 1

\* However a constant was folded, reading it, in order as the copying
\* operations do and at single places as getValues does, gives the tensor
\* that ONNX defines.
FoldedRight ==
    LET nums == GetWideNums(c)
    IN  /\ c.shape = ref.shape
        /\ Len(nums) = NumElements(c.shape)
        /\ \A i \in Index(ref.shape) :
            LET flat == RowMajor(ref.shape, i)
            IN  nums[flat + 1] = ref.at[i] /\ AtFlatIndex(c, flat) = ref.at[i]

\* allEqual, which compares the elements of the buffer, answers for the
\* elements of the view: no view leaves a part of its buffer out.
AllEqualRight ==
    NumElements(c.shape) > 0 =>
        \A v \in {ref.at[i] : i \in Index(ref.shape)} :
            AllEqual(c, v) <=> \A i \in Index(ref.shape) : ref.at[i] = v

\* The assertions of reshapeStrides hold on every view that has elements.
NeverAsserts == ~asserted
=============================================================================
