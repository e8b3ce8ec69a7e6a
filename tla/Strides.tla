------------------------------- MODULE Strides -------------------------------
(***************************************************************************)
(* The arithmetic of strided constants (src/Dialect/ONNX/ElementsAttr,     *)
(* Strides.cpp and StridesRange.hpp).  A shape and its strides are         *)
(* sequences of equal length; axes count from 1, and indices and buffer    *)
(* positions from 0 as in the code.                                        *)
(***************************************************************************)
EXTENDS Integers, Sequences, SequencesExt, FiniteSetsExt

Prod(s) == FoldLeft(LAMBDA a, b : a * b, 1, s)

\* The product of s[from], ..., s[to].
Between(s, from, to) == Prod(SubSeq(s, from, to))

\* ShapedType::getNumElements.
NumElements(shape) == Prod(shape)

\* The indices of a tensor.
Index(shape) ==
    {i \in [1 .. Len(shape) -> 0 .. Max({0} \cup ToSet(shape))] :
        \A a \in 1 .. Len(shape) : i[a] < shape[a]}

GetStridesPosition(index, strides) ==
    FoldLeft(LAMBDA a, b : a + b, 0, [a \in DOMAIN index |-> index[a] * strides[a]])

\* An axis of size one has stride zero, so that it broadcasts.
GetDefaultStrides(shape) ==
    [a \in DOMAIN shape |->
        IF shape[a] = 1 THEN 0 ELSE Between(shape, a + 1, Len(shape))]

GetSplatStrides(shape) == [a \in DOMAIN shape |-> 0]

AreStridesContiguous(shape, strides) == strides = GetDefaultStrides(shape)

\* Variant: no strides for the new leading axes.
ExpandStridesUnpadded(strides, expandedShape) == strides

ExpandStrides(strides, expandedShape) ==
    [a \in 1 .. Len(expandedShape) - Len(strides) |-> 0] \o strides

TransposeDims(dims, perm) == [a \in DOMAIN perm |-> dims[perm[a]]]

UnflattenIndex(shape, flat) ==
    [a \in DOMAIN shape |->
        IF a = 1 THEN flat \div Between(shape, 2, Len(shape))
        ELSE (flat \div Between(shape, a + 1, Len(shape))) % shape[a]]

-----------------------------------------------------------------------------
(* StridesRange: the index and the buffer offset of each step. *)

\* operator++: the last axis that does not overflow moves by its stride, the
\* ones behind it are rewound.
StridesNext(shape, strides, it) ==
    LET fits == {a \in DOMAIN shape : it.index[a] + 1 < shape[a]}
        axis == Max({0} \cup fits)
        moved(a) == IF a < axis THEN 0
                    ELSE IF a = axis THEN strides[a]
                    ELSE strides[a] - shape[a] * strides[a]
    IN  [index |-> [a \in DOMAIN shape |->
                       IF a < axis THEN it.index[a]
                       ELSE IF a = axis THEN it.index[a] + 1 ELSE 0],
         offset |-> FoldLeft(LAMBDA a, b : a + b, it.offset,
                             [a \in DOMAIN shape |-> moved(a)])]

StridesRange(shape, strides) ==
    LET begin == [index |-> [a \in DOMAIN shape |-> 0], offset |-> 0]
    IN  IF NumElements(shape) = 0 THEN << >>
        ELSE FoldLeft(LAMBDA its, k : Append(its, StridesNext(shape, strides, Last(its))),
                      <<begin>>, [k \in 1 .. NumElements(shape) - 1 |-> k])

-----------------------------------------------------------------------------
(* reshapeStrides: the strides of the reshaped view, or none when the view  *)
(* has no strides, or "assert" when an assertion of the code fails.         *)

\* The last axis of the run of axes of s from `from' whose product stays
\* within the limit.
Within(s, from, limit) ==
    Max({k \in from - 1 .. Len(s) :
            \A j \in from .. k : Between(s, from, j) <= limit})

\* The end (exclusive) of the axes with zero strides from a1 on.
ZerosEnd(strides, a1) ==
    Min({Len(strides) + 1} \cup {a \in a1 .. Len(strides) : strides[a] # 0})

\* Variant: axes of size one end a group only by their place.
GroupEndByShape(shape, strides, a1) ==
    Min({Len(shape) + 1} \cup {a \in a1 + 1 .. Len(shape) : strides[a] = 0})

\* The end (exclusive) of the axes from a1 on that lie contiguously; axes of
\* size one are skipped.
GroupEnd(shape, strides, a1) ==
    LET before(a) == Max({a1} \cup {k \in a1 .. a - 1 : shape[k] # 1})
    IN  Min({Len(shape) + 1} \cup
            {a \in a1 + 1 .. Len(shape) :
                shape[a] # 1 /\ strides[before(a)] # shape[a] * strides[a]})

RECURSIVE ReshapeBlocks(_, _, _, _, _, _)
ReshapeBlocks(shape, strides, reshaped, a1, a2, out) ==
    LET z1 == ZerosEnd(strides, a1)
        m == Between(shape, a1, z1 - 1)
        z2 == Within(reshaped, a2, m)
        zeros == out \o [k \in 1 .. z2 - a2 + 1 |-> 0]
        g1 == GroupEnd(shape, strides, z1)
        n == Between(shape, z1, g1 - 1)
        total == strides[z1] * shape[z1]
        g2 == Within(reshaped, z2 + 1, n)
        grouped == zeros \o
            [k \in 1 .. g2 - z2 |->
                IF reshaped[z2 + k] = 1 THEN 0
                ELSE total \div Between(reshaped, z2 + 1, z2 + k)]
        rest == total \div Between(reshaped, z2 + 1, g2)
        lastAxis == Max({a \in z1 .. g1 - 1 : shape[a] # 1})
    IN  IF Between(reshaped, a2, z2) < m THEN [kind |-> "none", strides |-> << >>]
        ELSE IF z1 > Len(shape) THEN
            [kind |-> IF z2 = Len(reshaped) THEN "view" ELSE "assert", strides |-> zeros]
        ELSE IF \/ shape[z1] <= 1 \/ strides[z1] <= 0 \/ total # n * strides[lastAxis]
                \/ \E a \in z1 .. g1 - 1 : shape[a] = 1 /\ strides[a] # 0
            THEN [kind |-> "assert", strides |-> << >>]
        ELSE IF Between(reshaped, z2 + 1, g2) < n THEN [kind |-> "none", strides |-> << >>]
        ELSE IF rest # strides[lastAxis] THEN [kind |-> "assert", strides |-> << >>]
        ELSE IF g1 <= Len(shape)
            THEN ReshapeBlocks(shape, strides, reshaped, g1, g2 + 1, grouped)
        ELSE [kind |-> IF g2 = Len(reshaped) THEN "view" ELSE "assert", strides |-> grouped]

\* "sizes < 2 are always contiguous".
ReshapeStrides(shape, strides, reshaped) ==
    IF AreStridesContiguous(shape, strides)
    THEN [kind |-> "view", strides |-> GetDefaultStrides(reshaped)]
    ELSE IF NumElements(shape) <= 1 THEN [kind |-> "assert", strides |-> << >>]
    ELSE ReshapeBlocks(shape, strides, reshaped, 1, 1, << >>)
=============================================================================
