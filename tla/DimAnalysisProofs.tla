-------------------------- MODULE DimAnalysisProofs --------------------------
(***************************************************************************)
(* Proofs about DimAnalysis, for every model and in whatever order the     *)
(* sets are visited.  First the sizes, where the operations that code and  *)
(* documentation disagree on are left out: what the shape helpers say of a *)
(* dim is true in every run (ModelOK), so that a visit of a dim finds only *)
(* dims of its size (VisitSound) and only relations that are true          *)
(* (OffsetSound).  Then the search: it ends at a fixed point, with sets    *)
(* that have no dim in common.  At the end the two meet: merging keeps the *)
(* sizes of a set equal, and what phase 2 of the offsets infers is true.   *)
(***************************************************************************)
EXTENDS DimAnalysis, TLAPS, WellFoundedInduction, SequenceTheorems, FiniteSetTheorems

\* What a dim says of a size c in run r: a literal is the size, the question
\* mark of a dim stands for the size of that dim, and Generic for any.
IsDim(m) == m.lit \in BOOLEAN /\ (m.lit => m.val \in Nat)
Denotes(m, r, c) ==
  IF m.lit THEN m.val = c ELSE \A w \in DOMAIN r : \A k : m.val = <<w, k>> => r[w][k] = c

IsMarks(x) == Len(x) \in Nat /\ DOMAIN x = 1..Len(x) /\ \A i \in 1..Len(x) : IsDim(x[i])
ShapeOf(x, r, s) ==
  /\ s \in Seq(Nat) /\ Len(s) = Len(x)
  /\ \A i \in 1..Len(x) : s[i] >= 1 /\ Denotes(x[i], r, s[i])
-----------------------------------------------------------------------------
(* The length of what is written as a function.                            *)
LEMMA LenIs ==
  ASSUME NEW n \in Nat, NEW S, NEW s \in [1..n -> S]
  PROVE  Len(s) = n /\ s \in Seq(S)
BY SeqDef, LenProperties

(* The length of a function on an interval, whatever its values.           *)
LEMMA LenOfDomain ==
  ASSUME NEW n \in Nat, NEW s, DOMAIN s = 1..n, s = [i \in 1..n |-> s[i]]
  PROVE  Len(s) = n
<1>1. s \in [1..n -> {s[i] : i \in 1..n}]
  OBVIOUS
<1>2. QED BY <1>1, LenIs

(* A question mark that stands for no dim denotes any size.                *)
LEMMA GenericDenotes ==
  ASSUME NEW r, 0 \notin DOMAIN r, NEW c
  PROVE  IsDim(Generic) /\ ~Generic.lit /\ Denotes(Generic, r, c)
BY DEF IsDim, Denotes, Generic

(* A number denotes itself.                                                *)
LEMMA LitDenotes ==
  ASSUME NEW r, NEW c \in Nat
  PROVE  IsDim(Lit(c)) /\ Lit(c).lit /\ Denotes(Lit(c), r, c)
BY DEF IsDim, Denotes, Lit

(* 1s in front of a shape.                                                 *)
LEMMA OnesInFront ==
  ASSUME NEW a \in Seq(Nat), NEW rank \in Nat, Len(a) <= rank
  PROVE  LET d == rank - Len(a)
             X == [i \in 1..d |-> 1] \o a IN
         \A i \in 1..rank : X[i] = IF i > d THEN a[i - d] ELSE 1
<1> DEFINE d == rank - Len(a)
           ones == [i \in 1..d |-> 1]
<1>1. Len(a) \in Nat /\ d \in Nat /\ Len(a) + d = rank
  BY LenProperties
<1> HIDE DEF d
<1>2. ones \in [1..d -> Nat] /\ \A i \in 1..d : ones[i] = 1
  OBVIOUS
<1> HIDE DEF ones
<1>3. Len(ones) = d /\ ones \in Seq(Nat)
  BY <1>1, <1>2, LenIs
<1>4. \A i \in 1..(Len(ones) + Len(a)) :
        (ones \o a)[i] = IF i <= Len(ones) THEN ones[i] ELSE a[i - Len(ones)]
  BY <1>3, ConcatProperties
<1>5. \A i \in 1..rank : (ones \o a)[i] = IF i > d THEN a[i - d] ELSE 1
  BY <1>1, <1>2, <1>3, <1>4
<1>6. QED BY <1>5 DEF d, ones

(* 1s in front of the dims of a shape.                                     *)
LEMMA PrependDims ==
  ASSUME NEW x, IsMarks(x), NEW rank \in Nat, Len(x) <= rank
  PROVE  LET X == Prepend1s(x, rank) IN
         /\ \A i \in 1..rank : IsDim(X[i])
         /\ \A r, a : ShapeOf(x, r, a) =>
              \A i \in 1..rank :
                LET A == [j \in 1..(rank - Len(a)) |-> 1] \o a IN
                A[i] \in Nat /\ A[i] >= 1 /\ Denotes(X[i], r, A[i])
<1> DEFINE X == Prepend1s(x, rank)
           d == rank - Len(x)
<1>1. X = [i \in 1..rank |-> IF i > d THEN x[i - d] ELSE Lit(1)]
  BY DEF Prepend1s
<1>2. Len(x) \in Nat /\ \A i \in 1..Len(x) : IsDim(x[i])
  BY DEF IsMarks
<1>3. \A i \in 1..rank : i > d => i - d \in 1..Len(x)
  BY <1>2
<1> HIDE DEF X
<1>4. \A i \in 1..rank : IsDim(X[i])
  <2> SUFFICES ASSUME NEW i \in 1..rank PROVE IsDim(X[i])
    OBVIOUS
  <2>1. X[i] = IF i > d THEN x[i - d] ELSE Lit(1)
    BY <1>1
  <2>2. IsDim(Lit(1))
    BY LitDenotes
  <2>3. QED BY <1>2, <1>3, <2>1, <2>2
<1>5. ASSUME NEW r, NEW a, ShapeOf(x, r, a), NEW i \in 1..rank
      PROVE  LET A == [j \in 1..(rank - Len(a)) |-> 1] \o a IN
             A[i] \in Nat /\ A[i] >= 1 /\ Denotes(X[i], r, A[i])
  <2> DEFINE A == [j \in 1..(rank - Len(a)) |-> 1] \o a
  <2>1. a \in Seq(Nat) /\ Len(a) = Len(x)
    BY <1>5 DEF ShapeOf
  <2>2. A[i] = IF i > d THEN a[i - d] ELSE 1
    BY <2>1, OnesInFront
  <2> HIDE DEF A
  <2>3. X[i] = IF i > d THEN x[i - d] ELSE Lit(1)
    BY <1>1
  <2>4. CASE i > d
    <3>1. i - d \in 1..Len(x)
      BY <1>3, <2>4
    <3>2. a[i - d] \in Nat
      BY <2>1, <3>1, ElementOfSeq
    <3>3. a[i - d] >= 1 /\ Denotes(x[i - d], r, a[i - d])
      BY <1>5, <3>1 DEF ShapeOf
    <3>4. A[i] = a[i - d] /\ X[i] = x[i - d]
      BY <2>2, <2>3, <2>4
    <3>5. QED BY <3>2, <3>3, <3>4 DEF A
  <2>5. CASE ~(i > d)
    <3>1. A[i] = 1 /\ X[i] = Lit(1)
      BY <2>2, <2>3, <2>5
    <3>2. Denotes(Lit(1), r, 1)
      BY LitDenotes
    <3>3. A[i] \in Nat /\ A[i] >= 1 /\ Denotes(X[i], r, A[i])
      BY <3>1, <3>2
    <3>4. QED BY <3>3 DEF A
  <2>6. QED BY <2>4, <2>5
<1>6. QED BY <1>4, <1>5 DEF X

(* One dim of a broadcast.                                                 *)
LEMMA BroadcastDimDenotes ==
  ASSUME NEW m, NEW p, IsDim(m), IsDim(p)
  PROVE  LET q == IF ~m.lit /\ ~p.lit THEN Generic ELSE BroadcastDim(m, p, FALSE) IN
         /\ IsDim(q)
         /\ \A r, a, b : /\ 0 \notin DOMAIN r /\ a \in Nat /\ b \in Nat
                         /\ Denotes(m, r, a) /\ Denotes(p, r, b)
                         /\ a = b \/ a = 1 \/ b = 1
                         => Denotes(q, r, IF a = 1 THEN b ELSE a)
<1> DEFINE q == IF ~m.lit /\ ~p.lit THEN Generic ELSE BroadcastDim(m, p, FALSE)
<1>1. CASE ~m.lit /\ ~p.lit
  BY <1>1, GenericDenotes DEF IsDim, Denotes, Generic
<1>2. CASE m.lit /\ m.val = 1
  <2>1. q = p
    BY <1>2 DEF BroadcastDim, IsLit, IsLitOtherThan
  <2>2. QED BY <1>2, <2>1 DEF Denotes
<1>3. CASE m.lit /\ m.val # 1
  <2>1. q = m
    BY <1>3 DEF BroadcastDim, IsLit, IsLitOtherThan
  <2>2. QED BY <1>3, <2>1 DEF Denotes
<1>4. CASE ~m.lit /\ p.lit /\ p.val = 1
  <2>1. q = m
    BY <1>4 DEF BroadcastDim, IsLit, IsLitOtherThan
  <2>2. QED BY <1>4, <2>1 DEF Denotes
<1>5. CASE ~m.lit /\ p.lit /\ p.val # 1
  <2>1. q = p
    BY <1>5 DEF BroadcastDim, IsLit, IsLitOtherThan
  <2>2. QED BY <1>5, <2>1 DEF Denotes
<1>6. QED BY <1>1, <1>2, <1>3, <1>4, <1>5 DEF IsDim

(* The dims of a broadcast.                                                *)
LEMMA BroadcastDenotes ==
  ASSUME NEW x, NEW y, IsMarks(x), IsMarks(y)
  PROVE  /\ IsMarks(BroadcastMarks(x, y))
         /\ \A r, a, b, s : /\ 0 \notin DOMAIN r
                            /\ ShapeOf(x, r, a) /\ ShapeOf(y, r, b)
                            /\ s \in BroadcastShapes(a, b)
                            => ShapeOf(BroadcastMarks(x, y), r, s)
<1> DEFINE rank == IF Len(x) > Len(y) THEN Len(x) ELSE Len(y)
           X == Prepend1s(x, rank)
           Y == Prepend1s(y, rank)
           q(i) == IF ~X[i].lit /\ ~Y[i].lit THEN Generic ELSE BroadcastDim(X[i], Y[i], FALSE)
           Q == [i \in 1..rank |-> q(i)]
<1>1. rank \in Nat /\ Len(x) <= rank /\ Len(y) <= rank
  BY DEF IsMarks
<1>2. BroadcastMarks(x, y) = Q
  BY DEF BroadcastMarks
<1> HIDE DEF rank
<1>3. \A i \in 1..rank : IsDim(X[i]) /\ IsDim(Y[i])
  BY <1>1, PrependDims
<1>4. /\ \A r, a : ShapeOf(x, r, a) =>
           \A i \in 1..rank :
             LET A == [j \in 1..(rank - Len(a)) |-> 1] \o a IN
             A[i] \in Nat /\ A[i] >= 1 /\ Denotes(X[i], r, A[i])
      /\ \A r, a : ShapeOf(y, r, a) =>
           \A i \in 1..rank :
             LET A == [j \in 1..(rank - Len(a)) |-> 1] \o a IN
             A[i] \in Nat /\ A[i] >= 1 /\ Denotes(Y[i], r, A[i])
  BY <1>1, PrependDims
<1> HIDE DEF X, Y
<1>5. \A i \in 1..rank : IsDim(q(i))
  BY <1>3, BroadcastDimDenotes
<1>6. Len(Q) = rank /\ DOMAIN Q = 1..rank /\ \A i \in 1..rank : Q[i] = q(i)
  BY <1>1, LenOfDomain
<1>7. IsMarks(Q)
  BY <1>1, <1>5, <1>6 DEF IsMarks
<1>8. ASSUME NEW r, NEW a, NEW b, NEW s, 0 \notin DOMAIN r, ShapeOf(x, r, a), ShapeOf(y, r, b),
             s \in BroadcastShapes(a, b)
      PROVE  ShapeOf(Q, r, s)
  <2> DEFINE A == [j \in 1..(rank - Len(a)) |-> 1] \o a
             B == [j \in 1..(rank - Len(b)) |-> 1] \o b
             c(i) == IF A[i] = 1 THEN B[i] ELSE A[i]
  <2>1. (IF Len(a) > Len(b) THEN Len(a) ELSE Len(b)) = rank
    BY <1>8 DEF ShapeOf, rank
  <2>2. /\ \A i \in 1..rank : A[i] = B[i] \/ A[i] = 1 \/ B[i] = 1
        /\ s = [i \in 1..rank |-> c(i)]
    BY <1>8, <2>1 DEF BroadcastShapes
  <2>3. \A i \in 1..rank : /\ A[i] \in Nat /\ A[i] >= 1 /\ Denotes(X[i], r, A[i])
                           /\ B[i] \in Nat /\ B[i] >= 1 /\ Denotes(Y[i], r, B[i])
    BY <1>4, <1>8
  <2> HIDE DEF A, B
  <2>4. \A i \in 1..rank : c(i) \in Nat /\ c(i) >= 1 /\ Denotes(q(i), r, c(i))
    BY <1>3, <1>8, <2>2, <2>3, BroadcastDimDenotes
  <2>5. s \in [1..rank -> Nat] /\ \A i \in 1..rank : s[i] = c(i)
    BY <2>2, <2>4
  <2>6. s \in Seq(Nat) /\ Len(s) = rank
    BY <1>1, <2>5, LenIs
  <2>7. QED BY <1>6, <2>4, <2>5, <2>6 DEF ShapeOf
<1>9. QED BY <1>2, <1>7, <1>8
-----------------------------------------------------------------------------
(* A function on 1..2 is a pair.                                           *)
LEMMA PairIs ==
  ASSUME NEW s, s = [j \in 1..2 |-> s[j]], NEW a, NEW b, s[1] = a, s[2] = b
  PROVE  s = <<a, b>>
OBVIOUS

(* A pair put together.                                                    *)
LEMMA PairOf ==
  ASSUME NEW a, NEW b
  PROVE  <<a>> \o <<b>> = <<a, b>>
<1> DEFINE s == <<a>> \o <<b>>
<1>1. <<a>> \in Seq({a, b}) /\ <<b>> \in Seq({a, b}) /\ Len(<<a>>) = 1 /\ Len(<<b>>) = 1
  OBVIOUS
<1>2. s \in Seq({a, b}) /\ Len(s) = 2 /\ s[1] = a /\ s[2] = b
  BY <1>1, ConcatProperties
<1> HIDE DEF s
<1>3. s = [j \in 1..2 |-> s[j]]
  BY <1>2
<1>4. s = <<a, b>>
  BY <1>2, <1>3, PairIs
<1>5. QED BY <1>4 DEF s

(* What an operation of two operands is computed from.                     *)
LEMMA ElementwiseForm ==
  ASSUME NEW n, NEW a, NEW b, n.op = "Elementwise", n.ins = <<a, b>>
  PROVE  /\ HelperMarks(n) = BroadcastMarks(Type(a), Type(b))
         /\ \A r : RunShapes(n, r) = BroadcastShapes(r[a], r[b])
<1>1. ASSUME NEW F(_) PROVE Len([j \in DOMAIN <<a, b>> |-> F(j)]) = 2
  OBVIOUS
<1>2. HelperMarks(n) = BroadcastMarks(Type(a), Type(b))
  BY <1>1 DEF HelperMarks
<1>3. ASSUME NEW r PROVE RunShapes(n, r) = BroadcastShapes(r[a], r[b])
  BY <1>1 DEF RunShapes
<1>4. QED BY <1>2, <1>3

(* An operation that keeps its operand's shape.                            *)
LEMMA CopyForm ==
  ASSUME NEW n, NEW a, n.op \in {"AddScalar", "BodyArg", "FusedResult"}, n.ins = <<a>>
  PROVE  /\ HelperMarks(n) = Type(a)
         /\ \A r : RunShapes(n, r) = {r[a]}
BY DEF HelperMarks, RunShapes

(* A product of two matrices.                                              *)
LEMMA MatMulForm ==
  ASSUME NEW n, NEW a, NEW b, n.op = "MatMul", n.ins = <<a, b>>
  PROVE  /\ Len(Type(a)) = 2 /\ Len(Type(b)) = 2 => HelperMarks(n) = <<Type(a)[1], Type(b)[2]>>
         /\ \A r : RunShapes(n, r) = IF r[a][2] = r[b][1] THEN {<<r[a][1], r[b][2]>>} ELSE {}
<1>1. HelperMarks(n) = MatMul(Type(a), Type(b))
  BY DEF HelperMarks
<1>2. ASSUME Len(Type(a)) = 2, Len(Type(b)) = 2
      PROVE  MatMul(Type(a), Type(b)) = <<Type(a)[1], Type(b)[2]>>
  <2> DEFINE x == Type(a)
             y == Type(b)
  <2>1. MatMulRank(x, y) = 2
    BY <1>2 DEF MatMulRank, Larger
  <2>2. MatMulA(x, y) = Prepend1s(x, 2) /\ MatMulB(x, y) = Prepend1s(y, 2)
    BY <1>2, <2>1 DEF MatMulA, MatMulB
  <2>3. Prepend1s(x, 2)[1] = x[1] /\ Prepend1s(y, 2)[2] = y[2]
    BY <1>2 DEF Prepend1s
  <2>4. MatMul(x, y) = [i \in 1..(2 - 2) |-> BatchDim(Prepend1s(x, 2)[i], Prepend1s(y, 2)[i])] \o <<x[1]>> \o <<y[2]>>
    BY <1>2, <2>1, <2>2, <2>3 DEF MatMul
  <2>5. [i \in 1..(2 - 2) |-> BatchDim(Prepend1s(x, 2)[i], Prepend1s(y, 2)[i])] = <<>>
    OBVIOUS
  <2>6. <<>> \o <<x[1]>> \o <<y[2]>> = <<x[1], y[2]>>
    <3> HIDE DEF x, y
    <3>1. <<>> \o <<x[1]>> = <<x[1]>>
      OBVIOUS
    <3>2. <<x[1]>> \o <<y[2]>> = <<x[1], y[2]>>
      BY PairOf
    <3>3. QED BY <3>1, <3>2
  <2>7. QED BY <2>4, <2>5, <2>6
<1>3. ASSUME NEW r PROVE RunShapes(n, r) = IF r[a][2] = r[b][1] THEN {<<r[a][1], r[b][2]>>} ELSE {}
  BY DEF RunShapes
<1>4. QED BY <1>1, <1>2, <1>3

(* A product of two matrices, each transposed or not.                      *)
LEMMA GemmForm ==
  ASSUME NEW n, NEW a, NEW b, n.op = "Gemm", n.ins = <<a, b>>
  PROVE  /\ HelperMarks(n) = <<Transposed(Type(a), n.transA)[1], Transposed(Type(b), n.transB)[2]>>
         /\ \A r : LET A == Transposed(r[a], n.transA)
                       B == Transposed(r[b], n.transB) IN
                   RunShapes(n, r) = IF A[2] = B[1] THEN {<<A[1], B[2]>>} ELSE {}
BY DEF HelperMarks, Gemm, RunShapes

\* Two shapes one after the other.
Joined(s, t, axis) == [s EXCEPT ![axis] = s[axis] + t[axis]]

AgreeElsewhere(s, t, axis) == \A i \in DOMAIN s \ {axis} : s[i] = t[i]

(* A Concat of two operands.                                               *)
LEMMA ConcatForm ==
  ASSUME NEW n, NEW a, NEW b, n.op = "Concat", n.ins = <<a, b>>
  PROVE  /\ HelperMarks(n) = ConcatMarks(Type(a), Type(b), n.axis)
         /\ \A r : RunShapes(n, r) = IF AgreeElsewhere(r[a], r[b], n.axis)
                                     THEN {Joined(r[a], r[b], n.axis)} ELSE {}
BY DEF HelperMarks, RunShapes, Joined, AgreeElsewhere

(* The dims of a matrix are swapped.                                       *)
LEMMA TransposeForm ==
  ASSUME NEW n, NEW a, n.op = "Transpose", n.ins = <<a>>
  PROVE  /\ DOMAIN Type(a) = 1..2 => HelperMarks(n) = <<Type(a)[2], Type(a)[1]>>
         /\ \A r : RunShapes(n, r) = {<<r[a][2], r[a][1]>>}
<1>1. HelperMarks(n) = Transpose(Type(a), <<2, 1>>)
  BY DEF HelperMarks
<1>2. DOMAIN Type(a) = 1..2 => Transpose(Type(a), <<2, 1>>) = <<Type(a)[2], Type(a)[1]>>
  BY DEF Transpose
<1>3. QED BY <1>1, <1>2 DEF RunShapes

(* A recurrent layer: one direction, the batch, the hidden size.           *)
LEMMA RecurrentForm ==
  ASSUME NEW n, NEW a, NEW b, n.op = "Recurrent", n.ins = <<a, b>>
  PROVE  /\ HelperMarks(n) = <<Lit(1), Type(a)[2], Type(b)[3]>>
         /\ \A r : RunShapes(n, r) = IF r[a][2] = r[b][2] /\ r[b][1] = 1
                                     THEN {<<1, r[a][2], r[b][3]>>} ELSE {}
BY DEF HelperMarks, RecurrentMarks, RunShapes

(* An element of a shape.                                                  *)
LEMMA ElementForm ==
  ASSUME NEW w, NEW i, NEW k
  PROVE  LET e == Element(w, i, k) IN
         /\ ~e.lit /\ e.val = <<w, i>> /\ e.val[1] = w /\ e.val[2] = i /\ e.plus = k
         /\ ElementMark(e) = Generic
BY DEF Element, ElementMark

(* Its size in a run.                                                      *)
LEMMA ElementSizeIs ==
  ASSUME NEW w, NEW i, NEW k \in Nat, NEW r, r[w][i] \in Nat
  PROVE  ElementSize(r, Element(w, i, k)) = r[w][i] + k
BY DEF Element, ElementSize

(* A number of a shape.                                                    *)
LEMMA NumberForm ==
  ASSUME NEW k
  PROVE  /\ Lit(k).lit /\ Lit(k).val = k
         /\ ElementMark(Lit(k)) = Lit(k)
         /\ \A r : ElementSize(r, Lit(k)) = k
BY DEF Lit, ElementMark, ElementSize

\* The sizes a shape has in run r.
SizesIn(r, shape) == [j \in DOMAIN shape |-> ElementSize(r, shape[j])]

(* A shape of an element and a number.                                     *)
LEMMA PairForm ==
  ASSUME NEW e, ~e.lit, NEW c, NEW shape, shape = <<e, Lit(c)>>
  PROVE  /\ ElementMarks(shape) = <<Generic, Lit(c)>>
         /\ \A r : SizesIn(r, shape) = <<ElementSize(r, shape[1]), c>>
<1>1. DOMAIN shape = 1..2 /\ shape[1] = e /\ shape[2] = Lit(c)
  OBVIOUS
<1>2. ElementMarks(shape) = <<Generic, Lit(c)>>
  <2> DEFINE s == [j \in 1..2 |-> ElementMark(shape[j])]
  <2>1. s[1] = Generic /\ s[2] = Lit(c) /\ s = [j \in 1..2 |-> s[j]]
    BY <1>1, NumberForm DEF ElementMark
  <2>2. ElementMarks(shape) = s
    BY <1>1 DEF ElementMarks
  <2> HIDE DEF s
  <2>3. QED BY <2>1, <2>2, PairIs
<1>3. ASSUME NEW r PROVE SizesIn(r, shape) = <<ElementSize(r, shape[1]), c>>
  <2> DEFINE s == [j \in 1..2 |-> ElementSize(r, shape[j])]
  <2>1. s[1] = ElementSize(r, shape[1]) /\ s[2] = c /\ s = [j \in 1..2 |-> s[j]]
    BY <1>1, NumberForm
  <2>2. SizesIn(r, shape) = s
    BY <1>1 DEF SizesIn
  <2> HIDE DEF s
  <2>3. QED BY <2>1, <2>2, PairIs
<1>4. QED BY <1>2, <1>3

(* A ConstantOfShape of a dim and a number.                                *)
LEMMA ShapeForm ==
  ASSUME NEW n, NEW w, NEW i, n.op = "ConstantOfShape", n.shape = <<Element(w, i, 0), Lit(2)>>
  PROVE  /\ HelperMarks(n) = <<Generic, Lit(2)>>
         /\ \A r : RunShapes(n, r) = {<<ElementSize(r, n.shape[1]), 2>>}
<1>1. HelperMarks(n) = ElementMarks(n.shape)
  BY DEF HelperMarks
<1>2. \A r : RunShapes(n, r) = {SizesIn(r, n.shape)}
  BY DEF RunShapes, SizesIn
<1>3. ~Element(w, i, 0).lit
  BY ElementForm
<1>4. QED BY <1>1, <1>2, <1>3, PairForm

(* A Range as long as a dim.                                               *)
LEMMA RangeForm ==
  ASSUME NEW n, NEW w, NEW i, n.op = "Range", n.shape = <<Element(w, i, 0)>>
  PROVE  /\ HelperMarks(n) = <<Generic>>
         /\ \A r : RunShapes(n, r) = {<<ElementSize(r, n.shape[1])>>}
<1>1. HelperMarks(n) = ElementMarks(n.shape)
  BY DEF HelperMarks
<1>2. \A r : RunShapes(n, r) = {SizesIn(r, n.shape)}
  BY DEF RunShapes, SizesIn
<1>3. QED BY <1>1, <1>2, ElementForm DEF ElementMarks, SizesIn

(* An Expand to a dim, perhaps with a number added, and 1.                 *)
LEMMA ExpandForm ==
  ASSUME NEW n, NEW a, NEW e, ~e.lit, n.op = "Expand", n.ins = <<a>>, n.shape = <<e, Lit(1)>>
  PROVE  /\ HelperMarks(n) = BroadcastMarks(Type(a), <<Generic, Lit(1)>>)
         /\ \A r : RunShapes(n, r) = BroadcastShapes(r[a], <<ElementSize(r, n.shape[1]), 1>>)
<1>1. HelperMarks(n) = BroadcastMarks(Type(a), ElementMarks(n.shape))
  BY DEF HelperMarks
<1>2. ASSUME NEW r
      PROVE  RunShapes(n, r) = BroadcastShapes(r[a], SizesIn(r, n.shape))
  BY DEF RunShapes, SizesIn
<1>3. /\ ElementMarks(n.shape) = <<Generic, Lit(1)>>
      /\ \A r : SizesIn(r, n.shape) = <<ElementSize(r, n.shape[1]), 1>>
  BY PairForm
<1>4. QED BY <1>1, <1>2, <1>3

(* A Reshape by a shape operand.                                           *)
LEMMA ReshapeForm ==
  ASSUME NEW n, NEW a, n.op = "Reshape", n.ins = <<a>>
  PROVE  /\ HelperMarks(n) = ReshapeMarks(Type(a), n.shape)
         /\ \A r : RunShapes(n, r) = ReshapeShapes(r[a], n.shape, r)
BY DEF HelperMarks, RunShapes
-----------------------------------------------------------------------------
(* A shape of one dim.                                                     *)
LEMMA OneDenotes ==
  ASSUME NEW m, IsDim(m)
  PROVE  /\ IsMarks(<<m>>)
         /\ \A r, c : c \in Nat /\ c >= 1 /\ Denotes(m, r, c) => ShapeOf(<<m>>, r, <<c>>)
<1>1. Len(<<m>>) = 1 /\ DOMAIN <<m>> = 1..1 /\ \A i \in 1..1 : <<m>>[i] = m
  OBVIOUS
<1>2. IsMarks(<<m>>)
  BY <1>1 DEF IsMarks
<1>3. ASSUME NEW r, NEW c \in Nat, c >= 1, Denotes(m, r, c)
      PROVE  ShapeOf(<<m>>, r, <<c>>)
  <2>1. <<c>> \in Seq(Nat) /\ Len(<<c>>) = 1 /\ \A i \in 1..1 : <<c>>[i] = c
    OBVIOUS
  <2>2. QED BY <1>1, <1>3, <2>1 DEF ShapeOf
<1>4. QED BY <1>2, <1>3

(* A shape of two dims.                                                    *)
LEMMA TwoDenote ==
  ASSUME NEW m, NEW p, IsDim(m), IsDim(p)
  PROVE  /\ IsMarks(<<m, p>>)
         /\ \A r, c, d : /\ c \in Nat /\ c >= 1 /\ Denotes(m, r, c)
                         /\ d \in Nat /\ d >= 1 /\ Denotes(p, r, d)
                         => ShapeOf(<<m, p>>, r, <<c, d>>)
<1>1. /\ Len(<<m, p>>) = 2 /\ DOMAIN <<m, p>> = 1..2
      /\ <<m, p>>[1] = m /\ <<m, p>>[2] = p
  OBVIOUS
<1>2. IsMarks(<<m, p>>)
  BY <1>1 DEF IsMarks
<1>3. ASSUME NEW r, NEW c \in Nat, c >= 1, Denotes(m, r, c),
             NEW d \in Nat, d >= 1, Denotes(p, r, d)
      PROVE  ShapeOf(<<m, p>>, r, <<c, d>>)
  <2>1. <<c, d>> \in Seq(Nat) /\ Len(<<c, d>>) = 2 /\ <<c, d>>[1] = c /\ <<c, d>>[2] = d
    OBVIOUS
  <2>2. QED BY <1>1, <1>3, <2>1 DEF ShapeOf
<1>4. QED BY <1>2, <1>3

(* A shape of three dims.                                                  *)
LEMMA ThreeDenote ==
  ASSUME NEW m, NEW p, NEW q, IsDim(m), IsDim(p), IsDim(q)
  PROVE  /\ IsMarks(<<m, p, q>>)
         /\ \A r, c, d, e : /\ c \in Nat /\ c >= 1 /\ Denotes(m, r, c)
                            /\ d \in Nat /\ d >= 1 /\ Denotes(p, r, d)
                            /\ e \in Nat /\ e >= 1 /\ Denotes(q, r, e)
                            => ShapeOf(<<m, p, q>>, r, <<c, d, e>>)
<1>1. /\ Len(<<m, p, q>>) = 3 /\ DOMAIN <<m, p, q>> = 1..3
      /\ <<m, p, q>>[1] = m /\ <<m, p, q>>[2] = p /\ <<m, p, q>>[3] = q
  OBVIOUS
<1>2. IsMarks(<<m, p, q>>)
  BY <1>1 DEF IsMarks
<1>3. ASSUME NEW r, NEW c \in Nat, c >= 1, Denotes(m, r, c),
             NEW d \in Nat, d >= 1, Denotes(p, r, d), NEW e \in Nat, e >= 1, Denotes(q, r, e)
      PROVE  ShapeOf(<<m, p, q>>, r, <<c, d, e>>)
  <2>1. /\ <<c, d, e>> \in Seq(Nat) /\ Len(<<c, d, e>>) = 3
        /\ <<c, d, e>>[1] = c /\ <<c, d, e>>[2] = d /\ <<c, d, e>>[3] = e
    OBVIOUS
  <2>2. QED BY <1>1, <1>3, <2>1 DEF ShapeOf
<1>4. QED BY <1>2, <1>3

(* The dims of a shape, one by one.                                        *)
LEMMA DimOfShape ==
  ASSUME NEW x, NEW r, NEW s, ShapeOf(x, r, s), IsMarks(x), NEW i \in 1..Len(x)
  PROVE  IsDim(x[i]) /\ s[i] \in Nat /\ s[i] >= 1 /\ Denotes(x[i], r, s[i])
<1>1. i \in 1..Len(s) /\ s \in Seq(Nat)
  BY DEF ShapeOf
<1>2. s[i] \in Nat
  BY <1>1, ElementOfSeq
<1>3. QED BY <1>2 DEF ShapeOf, IsMarks

(* A matrix the other way round.                                           *)
LEMMA TransposedForm ==
  ASSUME NEW x, NEW t \in BOOLEAN, Len(x) = 2
  PROVE  /\ Transposed(x, t)[1] = IF t THEN x[2] ELSE x[1]
         /\ Transposed(x, t)[2] = IF t THEN x[1] ELSE x[2]
BY DEF Transposed, Reverse

(* The dims of a concatenation.                                            *)
LEMMA ConcatDenotes ==
  ASSUME NEW x, NEW y, IsMarks(x), IsMarks(y), Len(x) = Len(y), NEW axis \in 1..Len(x)
  PROVE  /\ IsMarks(ConcatMarks(x, y, axis)) /\ Len(ConcatMarks(x, y, axis)) = Len(x)
         /\ \A r, a, b : /\ 0 \notin DOMAIN r
                         /\ ShapeOf(x, r, a) /\ ShapeOf(y, r, b)
                         /\ AgreeElsewhere(a, b, axis)
                         => ShapeOf(ConcatMarks(x, y, axis), r, Joined(a, b, axis))
<1> DEFINE q(i) == IF i # axis THEN IF y[i].lit THEN y[i] ELSE x[i]
                   ELSE IF x[i].lit /\ y[i].lit THEN Add(x[i], y[i]) ELSE Generic
           Q == ConcatMarks(x, y, axis)
<1>1. Len(x) \in Nat /\ DOMAIN x = 1..Len(x) /\ \A i \in 1..Len(x) : IsDim(x[i]) /\ IsDim(y[i])
  BY DEF IsMarks
<1>2. Q = [i \in 1..Len(x) |-> q(i)]
  BY <1>1 DEF ConcatMarks
<1> HIDE DEF Q
<1>3. DOMAIN Q = 1..Len(x) /\ Q = [i \in 1..Len(x) |-> Q[i]] /\ \A i \in 1..Len(x) : Q[i] = q(i)
  BY <1>2
<1>4. Len(Q) = Len(x)
  BY <1>1, <1>3, LenOfDomain
<1>5. IsDim(Generic)
  BY DEF IsDim, Generic
<1>6. ASSUME NEW i \in 1..Len(x), x[i].lit, y[i].lit
      PROVE  Add(x[i], y[i]).lit = TRUE /\ Add(x[i], y[i]).val = x[i].val + y[i].val
  BY <1>1, <1>6 DEF Add, Binary, IsDim
<1>7. ASSUME NEW i \in 1..Len(x) PROVE IsDim(q(i))
  <2>1. CASE i = axis /\ x[i].lit /\ y[i].lit
    <3>1. x[i].val + y[i].val \in Nat
      BY <1>1, <2>1 DEF IsDim
    <3>2. IsDim(Add(x[i], y[i]))
      BY <1>6, <2>1, <3>1 DEF IsDim
    <3>3. QED BY <2>1, <3>2
  <2>2. CASE ~(i = axis /\ x[i].lit /\ y[i].lit)
    BY <1>1, <1>5, <2>2
  <2>3. QED BY <2>1, <2>2
<1>8. IsMarks(Q)
  BY <1>1, <1>3, <1>4, <1>7 DEF IsMarks
<1>9. ASSUME NEW r, NEW a, NEW b, 0 \notin DOMAIN r, ShapeOf(x, r, a), ShapeOf(y, r, b),
             AgreeElsewhere(a, b, axis)
      PROVE  ShapeOf(Q, r, Joined(a, b, axis))
  <2> DEFINE s == Joined(a, b, axis)
             c(i) == IF i = axis THEN a[i] + b[i] ELSE a[i]
  <2>1. a \in Seq(Nat) /\ Len(a) = Len(x) /\ DOMAIN a = 1..Len(x)
    BY <1>9, LenProperties DEF ShapeOf
  <2>2. \A i \in 1..Len(x) : /\ a[i] \in Nat /\ a[i] >= 1 /\ Denotes(x[i], r, a[i])
                             /\ b[i] \in Nat /\ b[i] >= 1 /\ Denotes(y[i], r, b[i])
    BY <1>9, DimOfShape
  <2>3. \A i \in 1..Len(x) : s[i] = c(i)
    BY <2>1 DEF Joined
  <2>4. DOMAIN s = 1..Len(x) /\ s = [i \in 1..Len(x) |-> s[i]]
    BY <2>1 DEF Joined
  <2>5. \A i \in 1..Len(x) : c(i) \in Nat /\ c(i) >= 1
    BY <2>2
  <2>6. ASSUME NEW i \in 1..Len(x) PROVE Denotes(q(i), r, c(i))
    <3>1. CASE i # axis
      <4>1. a[i] = b[i]
        BY <1>9, <2>1, <3>1 DEF AgreeElsewhere
      <4>2. QED BY <2>2, <3>1, <4>1
    <3>2. CASE i = axis /\ x[i].lit /\ y[i].lit
      <4>1. x[i].val = a[i] /\ y[i].val = b[i]
        BY <2>2, <3>2 DEF Denotes
      <4>2. QED BY <1>6, <3>2, <4>1 DEF Denotes
    <3>3. CASE i = axis /\ ~(x[i].lit /\ y[i].lit)
      <4>1. Denotes(Generic, r, c(i))
        BY <1>9, GenericDenotes
      <4>2. QED BY <3>3, <4>1
    <3>4. QED BY <3>1, <3>2, <3>3
  <2> HIDE DEF s
  <2>7. s \in [1..Len(x) -> Nat]
    BY <2>3, <2>4, <2>5
  <2>8. s \in Seq(Nat) /\ Len(s) = Len(x)
    BY <1>1, <2>7, LenIs
  <2>9. ShapeOf(Q, r, s)
    BY <1>3, <1>4, <2>3, <2>5, <2>6, <2>8 DEF ShapeOf
  <2>10. QED BY <2>9 DEF s
<1>10. QED BY <1>4, <1>8, <1>9 DEF Q
-----------------------------------------------------------------------------
(* The elements of a matrix.                                               *)
LEMMA ElementsOfTwo ==
  ASSUME NEW a \in Nat, NEW b \in Nat
  PROVE  Elements(<<a, b>>) = a * b
<1> DEFINE s == <<a, b>>
           g == [i \in 0..2 |-> IF i = 0 THEN 1 ELSE IF i = 1 THEN a ELSE a * b]
<1>1. Len(s) = 2 /\ s[1] = a /\ s[2] = b
  OBVIOUS
<1> HIDE DEF s
<1> DEFINE P(f) == f = [i \in 0..Len(s) |-> IF i = 0 THEN 1 ELSE f[i - 1] * s[i]]
           h == CHOOSE f : P(f)
<1>2. P(g)
  BY <1>1
<1>3. P(h)
  BY <1>2
<1>4. Elements(s) = h[Len(s)]
  BY DEF Elements
<1> HIDE DEF h
<1>5. h[0] = 1 /\ h[1] = h[0] * s[1] /\ h[2] = h[1] * s[2]
  BY <1>1, <1>3
<1>6. QED BY <1>1, <1>4, <1>5 DEF s

(* Two positive factors of the same product.                               *)
LEMMA PositiveFactors ==
  ASSUME NEW a \in Nat, NEW b \in Nat, NEW c \in Nat, NEW d \in Nat,
         a >= 1, b >= 1, c * d = a * b
  PROVE  c >= 1 /\ d >= 1
<1>1. a * b >= 1
  BY SMT
<1>2. c # 0 /\ d # 0
  BY <1>1, SMT
<1>3. QED BY <1>2

(* Products and quotients of positive numbers.                             *)
LEMMA PositiveProduct ==
  ASSUME NEW a \in Nat, NEW b \in Nat, a >= 1, b >= 1
  PROVE  a * b \in Nat /\ a * b >= 1
BY SMT

(* A quotient of numbers is a number.                                      *)
LEMMA NaturalQuotient ==
  ASSUME NEW a \in Nat, NEW b \in Nat, b >= 1
  PROVE  a \div b \in Nat
BY SMT

\* What dim i of the shape operand of a Reshape fixes, 1 where it is -1.
FixedSize(x, e, i, r) ==
  CASE IsLit(e, 0) -> x[i] [] IsLit(e, -1) -> 1 [] OTHER -> ElementSize(r, e)

\* Two matrices have as many elements.
SameElements(s, x) == s[1] * s[2] = x[1] * x[2]

(* The shapes that a Reshape to two dims can give.                         *)
LEMMA ReshapeRuns ==
  ASSUME NEW x \in Seq(Nat), Len(x) = 2, x[1] >= 1, x[2] >= 1, NEW r,
         NEW e, NEW f, NEW shape, shape = <<e, f>>,
         FixedSize(x, e, 1, r) \in Nat, FixedSize(x, e, 1, r) >= 1,
         FixedSize(x, f, 2, r) \in Nat, FixedSize(x, f, 2, r) >= 1
  PROVE  \A s \in ReshapeShapes(x, shape, r) :
           /\ s = <<s[1], s[2]>>
           /\ s[1] \in Nat /\ s[1] >= 1 /\ s[2] \in Nat /\ s[2] >= 1
           /\ SameElements(s, x)
           /\ ~IsLit(e, -1) => s[1] = FixedSize(x, e, 1, r)
           /\ ~IsLit(f, -1) => s[2] = FixedSize(x, f, 2, r)
<1> DEFINE f1 == FixedSize(x, e, 1, r)
           f2 == FixedSize(x, f, 2, r)
           fixed == [i \in DOMAIN shape |-> FixedSize(x, shape[i], i, r)]
           rest == Elements(x) \div Elements(fixed)
           s == [i \in DOMAIN shape |-> IF IsLit(shape[i], -1) THEN rest ELSE fixed[i]]
<1>1. ReshapeShapes(x, shape, r) = IF Elements(s) = Elements(x) THEN {s} ELSE {}
  BY DEF ReshapeShapes, FixedSize
<1>2. DOMAIN shape = 1..2 /\ shape[1] = e /\ shape[2] = f
  OBVIOUS
<1>3. x[1] \in Nat /\ x[2] \in Nat
  <2>1. 1 \in 1..Len(x) /\ 2 \in 1..Len(x)
    OBVIOUS
  <2>2. QED BY <2>1, ElementOfSeq
<1>4. x = <<x[1], x[2]>>
  BY PairIs
<1>5. Elements(x) = x[1] * x[2]
  BY <1>3, <1>4, ElementsOfTwo
<1>6. fixed[1] = f1 /\ fixed[2] = f2 /\ fixed = [i \in 1..2 |-> fixed[i]]
  BY <1>2
<1>7. f1 \in Nat /\ f1 >= 1 /\ f2 \in Nat /\ f2 >= 1
  OBVIOUS
<1> HIDE DEF fixed, f1, f2
<1>8. Elements(fixed) = f1 * f2
  <2>1. fixed = <<f1, f2>>
    BY <1>6, PairIs
  <2>2. QED BY <1>7, <2>1, ElementsOfTwo
<1>9. rest \in Nat
  <2>1. f1 * f2 \in Nat /\ f1 * f2 >= 1
    BY <1>7, PositiveProduct
  <2>2. x[1] * x[2] \in Nat
    BY <1>3
  <2>3. QED BY <1>5, <1>8, <2>1, <2>2, NaturalQuotient
<1> HIDE DEF rest
<1>10. /\ s[1] = IF IsLit(e, -1) THEN rest ELSE f1
       /\ s[2] = IF IsLit(f, -1) THEN rest ELSE f2
       /\ s = [i \in 1..2 |-> s[i]]
  BY <1>2, <1>6
<1> HIDE DEF s
<1>11. s = <<s[1], s[2]>> /\ s[1] \in Nat /\ s[2] \in Nat
  BY <1>7, <1>9, <1>10, PairIs
<1>12. Elements(s) = s[1] * s[2]
  BY <1>11, ElementsOfTwo
<1>13. ASSUME Elements(s) = Elements(x) PROVE s[1] >= 1 /\ s[2] >= 1
  BY <1>3, <1>5, <1>11, <1>12, <1>13, PositiveFactors
<1>14. QED BY <1>1, <1>5, <1>10, <1>11, <1>12, <1>13 DEF SameElements, f1, f2
-----------------------------------------------------------------------------
RankOf(g, v) == Len(g[v].type)

\* Dim i of w is one of the first k values and has no number.
Taken(g, k, w, i) == w \in 1..k /\ i \in 1..RankOf(g, w) /\ ~g[w].type[i].lit

\* ONNXDimOp of it is not taken for a dim of size 1 of an argument.
NotMistaken(g, w, i) ==
  \/ i # 1
  \/ g[w].op \notin {"Arg", "BodyArg"}
  \/ \A j \in 1..RankOf(g, w) : ~IsLit(g[w].type[j], 1)

FitsElementwise(n, k) == n.op = "Elementwise" /\ \E a, b \in 1..k : n.ins = <<a, b>>

FitsCopy(n, k) ==
  /\ n.op \in {"AddScalar", "BodyArg", "FusedResult"}
  /\ n.op = "AddScalar" => n.scalar = 0
  /\ \E a \in 1..k : n.ins = <<a>>

FitsMatMul(g, n, k) ==
  /\ n.op = "MatMul"
  /\ \E a, b \in 1..k : n.ins = <<a, b>> /\ RankOf(g, a) = 2 /\ RankOf(g, b) = 2

FitsGemm(g, n, k) ==
  /\ n.op = "Gemm" /\ n.transA \in BOOLEAN /\ n.transB \in BOOLEAN
  /\ \E a, b \in 1..k : n.ins = <<a, b>> /\ RankOf(g, a) = 2 /\ RankOf(g, b) = 2

FitsConcat(g, n, k) ==
  /\ n.op = "Concat"
  /\ \E a, b \in 1..k : /\ n.ins = <<a, b>> /\ RankOf(g, a) = RankOf(g, b)
                        /\ n.axis \in 1..RankOf(g, a)

FitsTranspose(g, n, k) ==
  /\ n.op = "Transpose"
  /\ \E a \in 1..k : n.ins = <<a>> /\ RankOf(g, a) = 2

FitsRecurrent(g, n, k) ==
  /\ n.op = "Recurrent"
  /\ \E a, b \in 1..k : n.ins = <<a, b>> /\ RankOf(g, a) = 3 /\ RankOf(g, b) = 3

FitsShape(g, n, k) ==
  /\ n.op = "ConstantOfShape" /\ n.ins = <<>>
  /\ \E w, i : /\ Taken(g, k, w, i) /\ NotMistaken(g, w, i)
               /\ n.shape = <<Element(w, i, 0), Lit(2)>>

FitsRange(g, n, k) ==
  /\ n.op = "Range" /\ n.ins = <<>>
  /\ \E w, i : Taken(g, k, w, i) /\ n.shape = <<Element(w, i, 0)>>

FitsExpand(g, n, k) ==
  /\ n.op = "Expand"
  /\ \E a \in 1..k, w, i, c \in Nat :
       /\ n.ins = <<a>> /\ RankOf(g, a) = 1
       /\ Taken(g, k, w, i) /\ NotMistaken(g, w, i)
       /\ n.shape = <<Element(w, i, c), Lit(1)>>

FitsReshape(g, n, k) ==
  /\ n.op = "Reshape"
  /\ \E a \in 1..k : n.ins = <<a>> /\ RankOf(g, a) = 2
  /\ \/ n.shape = <<Lit(0), Lit(-1)>>
     \/ \E c \in Nat \ {0} : n.shape = <<Lit(-1), Lit(c)>>
     \/ \E w, i : /\ Taken(g, k, w, i) /\ NotMistaken(g, w, i)
                  /\ n.shape = <<Element(w, i, 0), Lit(-1)>>

\* What is known of an operation n on the first k values of g.
Fits(g, n, k) ==
  \/ FitsElementwise(n, k) \/ FitsCopy(n, k) \/ FitsMatMul(g, n, k) \/ FitsGemm(g, n, k)
  \/ FitsConcat(g, n, k) \/ FitsTranspose(g, n, k) \/ FitsRecurrent(g, n, k)
  \/ FitsShape(g, n, k) \/ FitsRange(g, n, k) \/ FitsExpand(g, n, k) \/ FitsReshape(g, n, k)

\* The first k values of g have the sizes of run r.
RunFits(g, k, r) ==
  /\ 0 \notin DOMAIN r /\ 1..k \subseteq DOMAIN r
  /\ \A v \in 1..k : IsMarks(g[v].type) /\ ShapeOf(g[v].type, r, r[v])

\* The shape helper of n says nothing wrong of the shape s it has in run r.
HelperRight(n, r) == \A s \in RunShapes(n, r) : ShapeOf(HelperMarks(n), r, s)
-----------------------------------------------------------------------------
(* The dims of one of the first values.                                    *)
LEMMA DimOfRun ==
  ASSUME NEW g, NEW k \in Nat, NEW r, RunFits(g, k, r), NEW a \in 1..k, NEW i \in 1..RankOf(g, a)
  PROVE  /\ IsDim(g[a].type[i]) /\ r[a][i] \in Nat /\ r[a][i] >= 1
         /\ Denotes(g[a].type[i], r, r[a][i])
<1>1. IsMarks(g[a].type) /\ ShapeOf(g[a].type, r, r[a])
  BY DEF RunFits
<1>2. QED BY <1>1, DimOfShape DEF RankOf

(* An element of a shape that stands for such a dim.                       *)
LEMMA ElementTaken ==
  ASSUME NEW g, NEW k \in Nat, NEW r, RunFits(g, k, r), NEW w, NEW i, Taken(g, k, w, i),
         NEW c \in Nat, NEW e, e = Element(w, i, c)
  PROVE  ElementSize(r, e) = r[w][i] + c /\ ElementSize(r, e) \in Nat /\ ElementSize(r, e) >= 1
<1>1. r[w][i] \in Nat /\ r[w][i] >= 1
  BY DimOfRun DEF Taken
<1>2. ElementSize(r, e) = r[w][i] + c
  BY <1>1, ElementSizeIs
<1>3. QED BY <1>1, <1>2

(* Broadcast operands: their shape helper is right in every run.           *)
LEMMA ElementwiseRight ==
  ASSUME NEW k \in Nat, NEW n, FitsElementwise(n, k), \A v \in 1..k : IsMarks(graph[v].type)
  PROVE  IsMarks(HelperMarks(n)) /\ \A r : RunFits(graph, k, r) => HelperRight(n, r)
<1>1. PICK a, b \in 1..k : n.ins = <<a, b>>
  BY DEF FitsElementwise
<1>2. n.op = "Elementwise"
  BY DEF FitsElementwise
<1>3. /\ HelperMarks(n) = BroadcastMarks(Type(a), Type(b))
      /\ \A r : RunShapes(n, r) = BroadcastShapes(r[a], r[b])
  BY <1>1, <1>2, ElementwiseForm
<1>4. IsMarks(Type(a)) /\ IsMarks(Type(b))
  BY DEF Type
<1>5. ASSUME NEW r, RunFits(graph, k, r), NEW s \in RunShapes(n, r) PROVE ShapeOf(HelperMarks(n), r, s)
  <2>1. ShapeOf(Type(a), r, r[a]) /\ ShapeOf(Type(b), r, r[b]) /\ 0 \notin DOMAIN r
    BY <1>5 DEF RunFits, Type
  <2>2. s \in BroadcastShapes(r[a], r[b])
    BY <1>3, <1>5
  <2>3. QED BY <1>3, <1>4, <2>1, <2>2, BroadcastDenotes
<1>6. IsMarks(HelperMarks(n))
  BY <1>3, <1>4, BroadcastDenotes
<1>7. QED BY <1>5, <1>6 DEF HelperRight

(* The shape of the operand is right for its copy.                         *)
LEMMA CopyRight ==
  ASSUME NEW k \in Nat, NEW n, FitsCopy(n, k), \A v \in 1..k : IsMarks(graph[v].type)
  PROVE  IsMarks(HelperMarks(n)) /\ \A r : RunFits(graph, k, r) => HelperRight(n, r)
<1>1. PICK a \in 1..k : n.ins = <<a>>
  BY DEF FitsCopy
<1>2. HelperMarks(n) = Type(a) /\ \A r : RunShapes(n, r) = {r[a]}
  BY <1>1, CopyForm DEF FitsCopy
<1>3. QED BY <1>2 DEF HelperRight, RunFits, Type

(* Matrices: the dims of the result are dims of the operands.              *)
LEMMA MatMulRight ==
  ASSUME NEW k \in Nat, NEW n, FitsMatMul(graph, n, k), \A v \in 1..k : IsMarks(graph[v].type)
  PROVE  IsMarks(HelperMarks(n)) /\ \A r : RunFits(graph, k, r) => HelperRight(n, r)
<1>1. PICK a, b \in 1..k : n.ins = <<a, b>> /\ RankOf(graph, a) = 2 /\ RankOf(graph, b) = 2
  BY DEF FitsMatMul
<1>2. /\ HelperMarks(n) = <<Type(a)[1], Type(b)[2]>>
      /\ \A r : RunShapes(n, r) = IF r[a][2] = r[b][1] THEN {<<r[a][1], r[b][2]>>} ELSE {}
  BY <1>1, MatMulForm DEF FitsMatMul, RankOf, Type
<1>3. IsDim(Type(a)[1]) /\ IsDim(Type(b)[2])
  BY <1>1 DEF IsMarks, RankOf, Type
<1>4. ASSUME NEW r, RunFits(graph, k, r), NEW s \in RunShapes(n, r) PROVE ShapeOf(HelperMarks(n), r, s)
  <2>1. s = <<r[a][1], r[b][2]>>
    BY <1>2, <1>4
  <2>2. /\ r[a][1] \in Nat /\ r[a][1] >= 1 /\ Denotes(Type(a)[1], r, r[a][1])
        /\ r[b][2] \in Nat /\ r[b][2] >= 1 /\ Denotes(Type(b)[2], r, r[b][2])
    BY <1>1, <1>4, DimOfRun DEF Type
  <2>3. QED BY <1>2, <1>3, <2>1, <2>2, TwoDenote
<1>5. QED BY <1>2, <1>3, <1>4, TwoDenote DEF HelperRight

(* So are those of a product of transposed matrices.                       *)
LEMMA GemmRight ==
  ASSUME NEW k \in Nat, NEW n, FitsGemm(graph, n, k), \A v \in 1..k : IsMarks(graph[v].type)
  PROVE  IsMarks(HelperMarks(n)) /\ \A r : RunFits(graph, k, r) => HelperRight(n, r)
<1>1. PICK a, b \in 1..k : n.ins = <<a, b>> /\ RankOf(graph, a) = 2 /\ RankOf(graph, b) = 2
  BY DEF FitsGemm
<1> DEFINE i == IF n.transA THEN 2 ELSE 1
           j == IF n.transB THEN 1 ELSE 2
<1>2. i \in 1..2 /\ j \in 1..2
  BY DEF FitsGemm
<1>3. Transposed(Type(a), n.transA)[1] = Type(a)[i] /\ Transposed(Type(b), n.transB)[2] = Type(b)[j]
  BY <1>1, TransposedForm DEF FitsGemm, RankOf, Type
<1>4. HelperMarks(n) = <<Type(a)[i], Type(b)[j]>>
  BY <1>1, <1>3, GemmForm DEF FitsGemm
<1>5. IsDim(Type(a)[i]) /\ IsDim(Type(b)[j])
  BY <1>1, <1>2 DEF IsMarks, RankOf, Type
<1>6. ASSUME NEW r, RunFits(graph, k, r), NEW s \in RunShapes(n, r) PROVE ShapeOf(HelperMarks(n), r, s)
  <2>1. Len(r[a]) = 2 /\ Len(r[b]) = 2
    BY <1>1, <1>6 DEF RunFits, ShapeOf, RankOf
  <2>2. Transposed(r[a], n.transA)[1] = r[a][i] /\ Transposed(r[b], n.transB)[2] = r[b][j]
    BY <2>1, TransposedForm DEF FitsGemm
  <2>3. s = <<Transposed(r[a], n.transA)[1], Transposed(r[b], n.transB)[2]>>
    BY <1>1, <1>6, GemmForm DEF FitsGemm
  <2>4. /\ r[a][i] \in Nat /\ r[a][i] >= 1 /\ Denotes(Type(a)[i], r, r[a][i])
        /\ r[b][j] \in Nat /\ r[b][j] >= 1 /\ Denotes(Type(b)[j], r, r[b][j])
    BY <1>1, <1>2, <1>6, DimOfRun DEF Type
  <2>5. QED BY <1>4, <1>5, <2>2, <2>3, <2>4, TwoDenote
<1>7. QED BY <1>4, <1>5, <1>6, TwoDenote DEF HelperRight

(* The axis of a Concat is the sum, the other dims are the operands'.      *)
LEMMA ConcatRight ==
  ASSUME NEW k \in Nat, NEW n, FitsConcat(graph, n, k), \A v \in 1..k : IsMarks(graph[v].type)
  PROVE  IsMarks(HelperMarks(n)) /\ \A r : RunFits(graph, k, r) => HelperRight(n, r)
<1>1. PICK a, b \in 1..k : n.ins = <<a, b>> /\ RankOf(graph, a) = RankOf(graph, b) /\ n.axis \in 1..RankOf(graph, a)
  BY DEF FitsConcat
<1>2. /\ HelperMarks(n) = ConcatMarks(Type(a), Type(b), n.axis)
      /\ \A r : RunShapes(n, r) = IF AgreeElsewhere(r[a], r[b], n.axis)
                                  THEN {Joined(r[a], r[b], n.axis)} ELSE {}
  BY <1>1, ConcatForm DEF FitsConcat
<1>3. /\ IsMarks(Type(a)) /\ IsMarks(Type(b)) /\ Len(Type(a)) = Len(Type(b))
      /\ n.axis \in 1..Len(Type(a))
  BY <1>1 DEF Type, RankOf
<1>4. ASSUME NEW r, RunFits(graph, k, r), NEW s \in RunShapes(n, r) PROVE ShapeOf(HelperMarks(n), r, s)
  <2>1. ShapeOf(Type(a), r, r[a]) /\ ShapeOf(Type(b), r, r[b]) /\ 0 \notin DOMAIN r
    BY <1>4 DEF RunFits, Type
  <2>2. /\ AgreeElsewhere(r[a], r[b], n.axis)
        /\ s = Joined(r[a], r[b], n.axis)
    BY <1>2, <1>4
  <2>3. QED BY <1>2, <1>3, <2>1, <2>2, ConcatDenotes
<1>5. IsMarks(HelperMarks(n))
  BY <1>2, <1>3, ConcatDenotes
<1>6. QED BY <1>4, <1>5 DEF HelperRight

(* The dims of a transposed matrix are those of its operand.               *)
LEMMA TransposeRight ==
  ASSUME NEW k \in Nat, NEW n, FitsTranspose(graph, n, k), \A v \in 1..k : IsMarks(graph[v].type)
  PROVE  IsMarks(HelperMarks(n)) /\ \A r : RunFits(graph, k, r) => HelperRight(n, r)
<1>1. PICK a \in 1..k : n.ins = <<a>> /\ RankOf(graph, a) = 2
  BY DEF FitsTranspose
<1>2. HelperMarks(n) = <<Type(a)[2], Type(a)[1]>> /\ \A r : RunShapes(n, r) = {<<r[a][2], r[a][1]>>}
  BY <1>1, TransposeForm DEF FitsTranspose, RankOf, Type, IsMarks
<1>3. IsDim(Type(a)[2]) /\ IsDim(Type(a)[1])
  BY <1>1 DEF IsMarks, RankOf, Type
<1>4. ASSUME NEW r, RunFits(graph, k, r), NEW s \in RunShapes(n, r) PROVE ShapeOf(HelperMarks(n), r, s)
  <2>1. s = <<r[a][2], r[a][1]>>
    BY <1>2, <1>4
  <2>2. /\ r[a][1] \in Nat /\ r[a][1] >= 1 /\ Denotes(Type(a)[1], r, r[a][1])
        /\ r[a][2] \in Nat /\ r[a][2] >= 1 /\ Denotes(Type(a)[2], r, r[a][2])
    BY <1>1, <1>4, DimOfRun DEF Type
  <2>3. QED BY <1>2, <1>3, <2>1, <2>2, TwoDenote
<1>5. QED BY <1>2, <1>3, <1>4, TwoDenote DEF HelperRight

(* The batch and hidden size of a recurrent layer are operands' dims.      *)
LEMMA RecurrentRight ==
  ASSUME NEW k \in Nat, NEW n, FitsRecurrent(graph, n, k), \A v \in 1..k : IsMarks(graph[v].type)
  PROVE  IsMarks(HelperMarks(n)) /\ \A r : RunFits(graph, k, r) => HelperRight(n, r)
<1>1. PICK a, b \in 1..k : n.ins = <<a, b>> /\ RankOf(graph, a) = 3 /\ RankOf(graph, b) = 3
  BY DEF FitsRecurrent
<1>2. /\ HelperMarks(n) = <<Lit(1), Type(a)[2], Type(b)[3]>>
      /\ \A r : RunShapes(n, r) = IF r[a][2] = r[b][2] /\ r[b][1] = 1
                                  THEN {<<1, r[a][2], r[b][3]>>} ELSE {}
  BY <1>1, RecurrentForm DEF FitsRecurrent
<1>3. IsDim(Lit(1)) /\ IsDim(Type(a)[2]) /\ IsDim(Type(b)[3])
  <2>1. IsDim(Lit(1))
    BY DEF IsDim, Lit
  <2>2. QED BY <1>1, <2>1 DEF IsMarks, RankOf, Type
<1>4. ASSUME NEW r, RunFits(graph, k, r), NEW s \in RunShapes(n, r) PROVE ShapeOf(HelperMarks(n), r, s)
  <2> DEFINE one == 1
  <2>1. s = <<one, r[a][2], r[b][3]>>
    BY <1>2, <1>4
  <2>2. /\ r[a][2] \in Nat /\ r[a][2] >= 1 /\ Denotes(Type(a)[2], r, r[a][2])
        /\ r[b][3] \in Nat /\ r[b][3] >= 1 /\ Denotes(Type(b)[3], r, r[b][3])
    BY <1>1, <1>4, DimOfRun DEF Type
  <2>3. Denotes(Lit(1), r, one) /\ one \in Nat /\ one >= 1
    BY LitDenotes
  <2> HIDE DEF one
  <2>4. QED BY <1>2, <1>3, <2>1, <2>2, <2>3, ThreeDenote
<1>5. QED BY <1>2, <1>3, <1>4, ThreeDenote DEF HelperRight

(* The shape helper claims nothing of a dim that a shape operand gives.    *)
LEMMA ShapeRight ==
  ASSUME NEW k \in Nat, NEW n, FitsShape(graph, n, k)
  PROVE  IsMarks(HelperMarks(n)) /\ \A r : RunFits(graph, k, r) => HelperRight(n, r)
<1>1. PICK w, i : Taken(graph, k, w, i) /\ n.shape = <<Element(w, i, 0), Lit(2)>>
  BY DEF FitsShape
<1>2. HelperMarks(n) = <<Generic, Lit(2)>> /\ \A r : RunShapes(n, r) = {<<ElementSize(r, n.shape[1]), 2>>}
  BY <1>1, ShapeForm DEF FitsShape
<1>3. IsDim(Generic) /\ IsDim(Lit(2))
  BY DEF IsDim, Generic, Lit
<1>4. ASSUME NEW r, RunFits(graph, k, r), NEW s \in RunShapes(n, r) PROVE ShapeOf(HelperMarks(n), r, s)
  <2> DEFINE size == ElementSize(r, n.shape[1])
             two == 2
  <2>1. s = <<size, two>>
    BY <1>2, <1>4
  <2>2. size \in Nat /\ size >= 1 /\ two \in Nat /\ two >= 1
    BY <1>1, <1>4, ElementTaken
  <2>3. Denotes(Generic, r, size) /\ Denotes(Lit(2), r, two)
    BY <1>4, LitDenotes, GenericDenotes DEF RunFits
  <2> HIDE DEF size, two
  <2>4. QED BY <1>2, <1>3, <2>1, <2>2, <2>3, TwoDenote
<1>5. QED BY <1>2, <1>3, <1>4, TwoDenote DEF HelperRight

(* It claims nothing of the length of a Range.                             *)
LEMMA RangeRight ==
  ASSUME NEW k \in Nat, NEW n, FitsRange(graph, n, k)
  PROVE  IsMarks(HelperMarks(n)) /\ \A r : RunFits(graph, k, r) => HelperRight(n, r)
<1>1. PICK w, i : Taken(graph, k, w, i) /\ n.shape = <<Element(w, i, 0)>>
  BY DEF FitsRange
<1>2. HelperMarks(n) = <<Generic>> /\ \A r : RunShapes(n, r) = {<<ElementSize(r, n.shape[1])>>}
  BY <1>1, RangeForm DEF FitsRange
<1>3. IsDim(Generic)
  BY DEF IsDim, Generic
<1>4. ASSUME NEW r, RunFits(graph, k, r), NEW s \in RunShapes(n, r) PROVE ShapeOf(HelperMarks(n), r, s)
  <2> DEFINE size == ElementSize(r, n.shape[1])
  <2>1. s = <<size>>
    BY <1>2, <1>4
  <2>2. size \in Nat /\ size >= 1
    BY <1>1, <1>4, ElementTaken
  <2>3. Denotes(Generic, r, size)
    BY <1>4, GenericDenotes DEF RunFits
  <2> HIDE DEF size
  <2>4. QED BY <1>2, <1>3, <2>1, <2>2, <2>3, OneDenotes
<1>5. QED BY <1>2, <1>3, <1>4, OneDenotes DEF HelperRight

(* An Expand is broadcast with a dim of which nothing is claimed.          *)
LEMMA ExpandRight ==
  ASSUME NEW k \in Nat, NEW n, FitsExpand(graph, n, k), \A v \in 1..k : IsMarks(graph[v].type)
  PROVE  IsMarks(HelperMarks(n)) /\ \A r : RunFits(graph, k, r) => HelperRight(n, r)
<1>1. PICK a \in 1..k, w, i, c \in Nat :
        n.ins = <<a>> /\ Taken(graph, k, w, i) /\ n.shape = <<Element(w, i, c), Lit(1)>>
  BY DEF FitsExpand
<1> DEFINE y == <<Generic, Lit(1)>>
<1>2. /\ HelperMarks(n) = BroadcastMarks(Type(a), y)
      /\ \A r : RunShapes(n, r) = BroadcastShapes(r[a], <<ElementSize(r, n.shape[1]), 1>>)
  <2>1. ~Element(w, i, c).lit
    BY ElementForm
  <2>2. QED BY <1>1, <2>1, ExpandForm DEF FitsExpand
<1>3. IsDim(Generic) /\ IsDim(Lit(1))
  BY DEF IsDim, Generic, Lit
<1>4. IsMarks(Type(a)) /\ IsMarks(y)
  BY <1>3, TwoDenote DEF Type
<1>5. ASSUME NEW r, RunFits(graph, k, r), NEW s \in RunShapes(n, r) PROVE ShapeOf(HelperMarks(n), r, s)
  <2> DEFINE size == ElementSize(r, n.shape[1])
             one == 1
             b == <<size, one>>
  <2>1. ShapeOf(Type(a), r, r[a]) /\ 0 \notin DOMAIN r
    BY <1>5 DEF RunFits, Type
  <2>2. size \in Nat /\ size >= 1 /\ one \in Nat /\ one >= 1
    BY <1>1, <1>5, ElementTaken
  <2>3. Denotes(Generic, r, size) /\ Denotes(Lit(1), r, one)
    BY <2>1, LitDenotes, GenericDenotes
  <2>6. s \in BroadcastShapes(r[a], b)
    BY <1>2, <1>5
  <2> HIDE DEF size, one
  <2>5. ShapeOf(y, r, b)
    BY <1>3, <2>2, <2>3, TwoDenote
  <2> HIDE DEF b, y
  <2>7. QED BY <1>2, <1>4, <2>1, <2>5, <2>6, BroadcastDenotes
<1>6. IsMarks(HelperMarks(n))
  BY <1>2, <1>4, BroadcastDenotes
<1>7. QED BY <1>5, <1>6 DEF HelperRight
-----------------------------------------------------------------------------
\* What the shape helper of Reshape makes of dim i of the shape operand.
PartMark(x, e, i) ==
  CASE IsLit(e, 0) -> x[i] [] IsLit(e, -1) -> Generic [] OTHER -> ElementMark(e)

\* That is right for what the dim fixes in run r, where x has the shape s.
PartRight(x, s, e, i, r) ==
  /\ FixedSize(s, e, i, r) \in Nat /\ FixedSize(s, e, i, r) >= 1
  /\ \A c : IsLit(e, -1) \/ c = FixedSize(s, e, i, r) => Denotes(PartMark(x, e, i), r, c)

(* The dims of the shape operand of a Reshape: 0, -1, a number, a dim.     *)
LEMMA ZeroPart ==
  ASSUME NEW x, NEW i, IsDim(x[i])
  PROVE  /\ IsDim(PartMark(x, Lit(0), i))
         /\ \A r, s : s[i] \in Nat /\ s[i] >= 1 /\ Denotes(x[i], r, s[i]) => PartRight(x, s, Lit(0), i, r)
<1>1. IsLit(Lit(0), 0) /\ ~IsLit(Lit(0), -1)
  BY DEF IsLit, Lit
<1>2. PartMark(x, Lit(0), i) = x[i] /\ \A r, s : FixedSize(s, Lit(0), i, r) = s[i]
  BY <1>1 DEF PartMark, FixedSize
<1>3. QED BY <1>1, <1>2 DEF PartRight

(* -1: nothing is claimed.                                                 *)
LEMMA MinusPart ==
  ASSUME NEW x, NEW i
  PROVE  /\ IsDim(PartMark(x, Lit(-1), i))
         /\ \A r, s : 0 \notin DOMAIN r => PartRight(x, s, Lit(-1), i, r)
<1>1. ~IsLit(Lit(-1), 0) /\ IsLit(Lit(-1), -1)
  BY DEF IsLit, Lit
<1>2. PartMark(x, Lit(-1), i) = Generic /\ \A r, s : FixedSize(s, Lit(-1), i, r) = 1
  BY <1>1 DEF PartMark, FixedSize
<1>3. IsDim(Generic)
  BY DEF IsDim, Generic
<1>4. ASSUME NEW r, NEW s, 0 \notin DOMAIN r PROVE PartRight(x, s, Lit(-1), i, r)
  <2>1. \A c : Denotes(Generic, r, c)
    BY <1>4, GenericDenotes
  <2>2. QED BY <1>2, <2>1 DEF PartRight
<1>5. QED BY <1>2, <1>3, <1>4

(* A number: the size.                                                     *)
LEMMA NumberPart ==
  ASSUME NEW x, NEW i, NEW k \in Nat \ {0}
  PROVE  /\ IsDim(PartMark(x, Lit(k), i))
         /\ \A r, s : PartRight(x, s, Lit(k), i, r)
<1>1. ~IsLit(Lit(k), 0) /\ ~IsLit(Lit(k), -1)
  BY DEF IsLit, Lit
<1>2. PartMark(x, Lit(k), i) = Lit(k) /\ \A r, s : FixedSize(s, Lit(k), i, r) = k
  BY <1>1, NumberForm DEF PartMark, FixedSize
<1>3. IsDim(Lit(k)) /\ \A r : Denotes(Lit(k), r, k)
  BY LitDenotes
<1>4. k \in Nat /\ k >= 1
  OBVIOUS
<1>5. QED BY <1>1, <1>2, <1>3, <1>4 DEF PartRight

(* A dim: nothing is claimed, and it fixes a positive size.                *)
LEMMA DimPart ==
  ASSUME NEW x, NEW j, NEW w, NEW i, NEW e, e = Element(w, i, 0)
  PROVE  /\ IsDim(PartMark(x, e, j))
         /\ \A r, s : /\ 0 \notin DOMAIN r /\ ElementSize(r, e) \in Nat /\ ElementSize(r, e) >= 1
                      => PartRight(x, s, e, j, r)
<1>1. ~e.lit /\ ElementMark(e) = Generic
  BY ElementForm
<1>2. ~IsLit(e, 0) /\ ~IsLit(e, -1)
  BY <1>1 DEF IsLit
<1>3. PartMark(x, e, j) = Generic /\ \A r, s : FixedSize(s, e, j, r) = ElementSize(r, e)
  BY <1>1, <1>2 DEF PartMark, FixedSize
<1>4. IsDim(Generic)
  BY DEF IsDim, Generic
<1>5. ASSUME NEW r, 0 \notin DOMAIN r PROVE \A c : Denotes(Generic, r, c)
  BY <1>5, GenericDenotes
<1>6. QED BY <1>3, <1>4, <1>5 DEF PartRight

(* A shape of two such dims.                                               *)
LEMMA PartsRight ==
  ASSUME NEW x, NEW shape, NEW e, NEW f, shape = <<e, f>>,
         IsDim(PartMark(x, e, 1)), IsDim(PartMark(x, f, 2))
  PROVE  /\ IsMarks(ReshapeMarks(x, shape)) /\ Len(ReshapeMarks(x, shape)) = 2
         /\ \A r, a : /\ ShapeOf(x, r, a) /\ IsMarks(x) /\ Len(x) = 2
                      /\ PartRight(x, a, e, 1, r) /\ PartRight(x, a, f, 2, r)
                      => \A s \in ReshapeShapes(a, shape, r) : ShapeOf(ReshapeMarks(x, shape), r, s)
<1> DEFINE m == PartMark(x, e, 1)
           p == PartMark(x, f, 2)
           R == [i \in 1..2 |-> PartMark(x, shape[i], i)]
<1>1. DOMAIN shape = 1..2 /\ shape[1] = e /\ shape[2] = f
  OBVIOUS
<1>2. ReshapeMarks(x, shape) = R
  BY <1>1 DEF ReshapeMarks, PartMark
<1>3. R[1] = m /\ R[2] = p /\ R = [i \in 1..2 |-> R[i]]
  BY <1>1
<1> HIDE DEF R, m, p
<1>4. ReshapeMarks(x, shape) = <<m, p>>
  BY <1>2, <1>3, PairIs
<1>5. IsDim(m) /\ IsDim(p)
  BY DEF m, p
<1>6. ASSUME NEW r, NEW a, ShapeOf(x, r, a), IsMarks(x), Len(x) = 2,
             PartRight(x, a, e, 1, r), PartRight(x, a, f, 2, r), NEW s \in ReshapeShapes(a, shape, r)
      PROVE  ShapeOf(<<m, p>>, r, s)
  <2>1. /\ FixedSize(a, e, 1, r) \in Nat /\ FixedSize(a, e, 1, r) >= 1
        /\ FixedSize(a, f, 2, r) \in Nat /\ FixedSize(a, f, 2, r) >= 1
    BY <1>6 DEF PartRight
  <2>2. /\ \A c : IsLit(e, -1) \/ c = FixedSize(a, e, 1, r) => Denotes(m, r, c)
        /\ \A c : IsLit(f, -1) \/ c = FixedSize(a, f, 2, r) => Denotes(p, r, c)
    BY <1>6 DEF PartRight, m, p
  <2>3. a \in Seq(Nat) /\ Len(a) = 2
    BY <1>6 DEF ShapeOf
  <2>4. a[1] >= 1 /\ a[2] >= 1
    BY <1>6 DEF ShapeOf
  <2>5. /\ s = <<s[1], s[2]>>
        /\ s[1] \in Nat /\ s[1] >= 1 /\ s[2] \in Nat /\ s[2] >= 1
        /\ ~IsLit(e, -1) => s[1] = FixedSize(a, e, 1, r)
        /\ ~IsLit(f, -1) => s[2] = FixedSize(a, f, 2, r)
    BY <1>6, <2>1, <2>3, <2>4, ReshapeRuns
  <2>6. Denotes(m, r, s[1]) /\ Denotes(p, r, s[2])
    BY <2>2, <2>5
  <2>7. ShapeOf(<<m, p>>, r, <<s[1], s[2]>>)
    BY <1>5, <2>5, <2>6, TwoDenote
  <2>8. QED BY <2>5, <2>7
<1>7. IsMarks(<<m, p>>) /\ Len(<<m, p>>) = 2
  BY <1>5, TwoDenote
<1>8. QED BY <1>4, <1>6, <1>7

(* The shape helper of a Reshape is right in every run.                    *)
LEMMA ReshapeRight ==
  ASSUME NEW k \in Nat, NEW n, FitsReshape(graph, n, k), \A v \in 1..k : IsMarks(graph[v].type)
  PROVE  /\ IsMarks(HelperMarks(n)) /\ Len(HelperMarks(n)) = 2
         /\ \A r : RunFits(graph, k, r) => HelperRight(n, r)
<1>1. PICK a \in 1..k : n.ins = <<a>> /\ RankOf(graph, a) = 2
  BY DEF FitsReshape
<1> DEFINE x == Type(a)
<1>2. /\ HelperMarks(n) = ReshapeMarks(x, n.shape)
      /\ \A r : RunShapes(n, r) = ReshapeShapes(r[a], n.shape, r)
  BY <1>1, ReshapeForm DEF FitsReshape
<1>3. IsMarks(x) /\ Len(x) = 2 /\ IsDim(x[1]) /\ IsDim(x[2])
  BY <1>1 DEF Type, RankOf, IsMarks
<1>4. ASSUME NEW r, RunFits(graph, k, r)
      PROVE  /\ ShapeOf(x, r, r[a]) /\ 0 \notin DOMAIN r
             /\ r[a][1] \in Nat /\ r[a][1] >= 1 /\ Denotes(x[1], r, r[a][1])
  <2>1. ShapeOf(x, r, r[a]) /\ 0 \notin DOMAIN r
    BY <1>4 DEF Type, RunFits
  <2>2. 1 \in 1..RankOf(graph, a)
    BY <1>1
  <2>3. QED BY <1>4, <2>1, <2>2, DimOfRun DEF Type
<1> HIDE DEF x
<1> SUFFICES ASSUME NEW e, NEW f, n.shape = <<e, f>>
             PROVE  /\ IsDim(PartMark(x, e, 1)) /\ IsDim(PartMark(x, f, 2))
                    /\ \A r : RunFits(graph, k, r) =>
                         PartRight(x, r[a], e, 1, r) /\ PartRight(x, r[a], f, 2, r)
  <2>1. PICK e, f : n.shape = <<e, f>>
    BY DEF FitsReshape
  <2>2. /\ IsDim(PartMark(x, e, 1)) /\ IsDim(PartMark(x, f, 2))
        /\ \A r : RunFits(graph, k, r) =>
             PartRight(x, r[a], e, 1, r) /\ PartRight(x, r[a], f, 2, r)
    BY <2>1
  <2>3. IsMarks(HelperMarks(n)) /\ Len(HelperMarks(n)) = 2
    BY <1>2, <2>1, <2>2, PartsRight
  <2>4. ASSUME NEW r, RunFits(graph, k, r) PROVE HelperRight(n, r)
    BY <1>2, <1>3, <1>4, <2>1, <2>2, <2>4, PartsRight DEF HelperRight
  <2>5. QED BY <2>3, <2>4
<1>5. CASE n.shape = <<Lit(0), Lit(-1)>>
  <2>1. e = Lit(0) /\ f = Lit(-1)
    BY <1>5
  <2>2. IsDim(PartMark(x, Lit(0), 1)) /\ IsDim(PartMark(x, Lit(-1), 2))
    BY <1>3, ZeroPart, MinusPart
  <2>3. ASSUME NEW r, RunFits(graph, k, r)
        PROVE  PartRight(x, r[a], Lit(0), 1, r) /\ PartRight(x, r[a], Lit(-1), 2, r)
    BY <1>3, <1>4, <2>3, ZeroPart, MinusPart
  <2>4. QED BY <2>1, <2>2, <2>3
<1>6. ASSUME NEW c \in Nat \ {0}, n.shape = <<Lit(-1), Lit(c)>>
      PROVE  /\ IsDim(PartMark(x, e, 1)) /\ IsDim(PartMark(x, f, 2))
             /\ \A r : RunFits(graph, k, r) =>
                  PartRight(x, r[a], e, 1, r) /\ PartRight(x, r[a], f, 2, r)
  <2>1. e = Lit(-1) /\ f = Lit(c)
    BY <1>6
  <2>2. IsDim(PartMark(x, Lit(-1), 1)) /\ IsDim(PartMark(x, Lit(c), 2))
    BY NumberPart, MinusPart
  <2>3. ASSUME NEW r, RunFits(graph, k, r)
        PROVE  PartRight(x, r[a], Lit(-1), 1, r) /\ PartRight(x, r[a], Lit(c), 2, r)
    BY <1>4, <2>3, NumberPart, MinusPart
  <2>4. QED BY <2>1, <2>2, <2>3
<1>7. ASSUME NEW w, NEW i, Taken(graph, k, w, i), n.shape = <<Element(w, i, 0), Lit(-1)>>
      PROVE  /\ IsDim(PartMark(x, e, 1)) /\ IsDim(PartMark(x, f, 2))
             /\ \A r : RunFits(graph, k, r) =>
                  PartRight(x, r[a], e, 1, r) /\ PartRight(x, r[a], f, 2, r)
  <2>1. e = Element(w, i, 0) /\ f = Lit(-1)
    BY <1>7
  <2>2. IsDim(PartMark(x, e, 1)) /\ IsDim(PartMark(x, Lit(-1), 2))
    BY <2>1, DimPart, MinusPart
  <2>3. ASSUME NEW r, RunFits(graph, k, r)
        PROVE  PartRight(x, r[a], e, 1, r) /\ PartRight(x, r[a], Lit(-1), 2, r)
    <3>1. ElementSize(r, e) \in Nat /\ ElementSize(r, e) >= 1
      BY <1>7, <2>1, <2>3, ElementTaken
    <3>2. QED BY <1>4, <2>1, <2>3, <3>1, DimPart, MinusPart
  <2>4. QED BY <2>1, <2>2, <2>3
<1>8. QED BY <1>5, <1>6, <1>7 DEF FitsReshape

(* What the shape helper of an operation says is right in every run.       *)
LEMMA NodeRight ==
  ASSUME NEW k \in Nat, NEW n, Fits(graph, n, k), \A v \in 1..k : IsMarks(graph[v].type)
  PROVE  IsMarks(HelperMarks(n)) /\ \A r : RunFits(graph, k, r) => HelperRight(n, r)
BY ElementwiseRight, CopyRight, MatMulRight, GemmRight, ConcatRight, TransposeRight, RecurrentRight,
   ShapeRight, RangeRight, ExpandRight, ReshapeRight DEF Fits
-----------------------------------------------------------------------------
IsSeq(s) == \E S : s \in Seq(S)

\* The rank of a result that is told by the operation.
Ranked(g, v) ==
  /\ g[v].op \in {"AddScalar", "BodyArg", "FusedResult"} => RankOf(g, v) = RankOf(g, g[v].ins[1])
  /\ g[v].op \in {"ConstantOfShape", "Expand", "Reshape"} => RankOf(g, v) = 2
  /\ g[v].op \in {"Elementwise", "MatMul"} =>
       \E j \in 1..2 : RankOf(g, v) = RankOf(g, g[v].ins[j])

ValueOK(g, v) ==
  /\ IsMarks(g[v].type)
  /\ \A i \in 1..RankOf(g, v) : ~g[v].type[i].lit => g[v].type[i] = Mark(v, i)
  /\ \/ g[v].op = "Arg" /\ g[v].ins = <<>>
     \/ Fits(g, g[v], v - 1) /\ Ranked(g, v)

\* Dims of arguments with one dim_param have one size.
ParamsHold(g, r) ==
  \A v, w \in DOMAIN g : g[v].op = "Arg" /\ g[w].op = "Arg" =>
    \A i \in 1..RankOf(g, v), j \in 1..RankOf(g, w) :
      g[v].params[i] # NoParam /\ g[v].params[i] = g[w].params[j] => r[v][i] = r[w][j]

RunOK(g, r) ==
  /\ IsSeq(r) /\ Len(r) = Len(g)
  /\ RunFits(g, Len(g), r)
  /\ \A v \in DOMAIN g : g[v].op # "Arg" => r[v] \in RunShapes(g[v], r)
  /\ ParamsHold(g, r)

\* A model and its runs.
ModelOK(g, R) ==
  /\ IsSeq(g)
  /\ \A v \in DOMAIN g : ValueOK(g, v)
  /\ \A r \in R : RunOK(g, r)

\* The shapes of a Reshape whose shape operand fixes these sizes.
FixedSizes(x, shape, r) == [i \in DOMAIN shape |-> FixedSize(x, shape[i], i, r)]
ReshapedTo(x, shape, fixed) ==
  LET rest == Elements(x) \div Elements(fixed)
      s == [i \in DOMAIN shape |-> IF IsLit(shape[i], -1) THEN rest ELSE fixed[i]] IN
  IF Elements(s) = Elements(x) THEN {s} ELSE {}

\* m is n with more fields.
SameNode(n, m) ==
  /\ m.op = n.op /\ m.ins = n.ins
  /\ n.op = "AddScalar" => m.scalar = n.scalar
  /\ n.op = "Gemm" => m.transA = n.transA /\ m.transB = n.transB
  /\ n.op = "Concat" => m.axis = n.axis
  /\ n.op \in {"ConstantOfShape", "Range", "Expand", "Reshape"} => m.shape = n.shape
-----------------------------------------------------------------------------
(* A sequence with one more element.                                       *)
LEMMA AppendSeq ==
  ASSUME NEW s, NEW e, IsSeq(s)
  PROVE  /\ Len(s) \in Nat /\ DOMAIN s = 1..Len(s)
         /\ IsSeq(Append(s, e)) /\ Len(Append(s, e)) = Len(s) + 1
         /\ DOMAIN Append(s, e) = 1..(Len(s) + 1)
         /\ \A i \in 1..Len(s) : Append(s, e)[i] = s[i]
         /\ Append(s, e)[Len(s) + 1] = e
<1>1. PICK S : s \in Seq(S)
  BY DEF IsSeq
<1>2. s \in Seq(S \cup {e}) /\ e \in S \cup {e}
  BY <1>1
<1>3. Append(s, e) \in Seq(S \cup {e})
  BY <1>2
<1>4. QED BY <1>2, <1>3, AppendProperties DEF IsSeq

(* Nothing that is known of an operation is lost when values are added.    *)
LEMMA FitsKept ==
  ASSUME NEW g, NEW h, NEW k \in Nat, \A w \in 1..k : h[w] = g[w], NEW n, Fits(g, n, k)
  PROVE  Fits(h, n, k)
<1>1. \A w \in 1..k : RankOf(h, w) = RankOf(g, w)
  BY DEF RankOf
<1>2. \A w, i : Taken(g, k, w, i) => Taken(h, k, w, i)
  BY <1>1 DEF Taken
<1>3. \A w, i : Taken(g, k, w, i) /\ NotMistaken(g, w, i) => NotMistaken(h, w, i)
  BY <1>1 DEF Taken, NotMistaken
<1>4. FitsMatMul(g, n, k) => FitsMatMul(h, n, k)
  BY <1>1 DEF FitsMatMul
<1>5. FitsGemm(g, n, k) => FitsGemm(h, n, k)
  BY <1>1 DEF FitsGemm
<1>6. FitsConcat(g, n, k) => FitsConcat(h, n, k)
  BY <1>1 DEF FitsConcat
<1>7. FitsTranspose(g, n, k) => FitsTranspose(h, n, k)
  BY <1>1 DEF FitsTranspose
<1>8. FitsRecurrent(g, n, k) => FitsRecurrent(h, n, k)
  BY <1>1 DEF FitsRecurrent
<1>9. FitsShape(g, n, k) => FitsShape(h, n, k)
  BY <1>2, <1>3 DEF FitsShape
<1>10. FitsRange(g, n, k) => FitsRange(h, n, k)
  BY <1>2, <1>3 DEF FitsRange
<1>11. FitsExpand(g, n, k) => FitsExpand(h, n, k)
  BY <1>1, <1>2, <1>3 DEF FitsExpand
<1>12. FitsReshape(g, n, k) => FitsReshape(h, n, k)
  BY <1>1, <1>2, <1>3 DEF FitsReshape
<1>13. QED BY <1>4, <1>5, <1>6, <1>7, <1>8, <1>9, <1>10, <1>11, <1>12 DEF Fits

(* Nor when it gets its type.                                              *)
LEMMA FitsTyped ==
  ASSUME NEW g, NEW k \in Nat, NEW n, NEW m, SameNode(n, m), Fits(g, n, k)
  PROVE  Fits(g, m, k)
<1>1. FitsElementwise(n, k) => FitsElementwise(m, k)
  BY DEF FitsElementwise, SameNode
<1>2. FitsCopy(n, k) => FitsCopy(m, k)
  BY DEF FitsCopy, SameNode
<1>3. FitsMatMul(g, n, k) => FitsMatMul(g, m, k)
  BY DEF FitsMatMul, SameNode
<1>4. FitsGemm(g, n, k) => FitsGemm(g, m, k)
  BY DEF FitsGemm, SameNode
<1>5. FitsConcat(g, n, k) => FitsConcat(g, m, k)
  BY DEF FitsConcat, SameNode
<1>6. FitsTranspose(g, n, k) => FitsTranspose(g, m, k)
  BY DEF FitsTranspose, SameNode
<1>7. FitsRecurrent(g, n, k) => FitsRecurrent(g, m, k)
  BY DEF FitsRecurrent, SameNode
<1>8. FitsShape(g, n, k) => FitsShape(g, m, k)
  BY DEF FitsShape, SameNode
<1>9. FitsRange(g, n, k) => FitsRange(g, m, k)
  BY DEF FitsRange, SameNode
<1>10. FitsExpand(g, n, k) => FitsExpand(g, m, k)
  BY DEF FitsExpand, SameNode
<1>11. FitsReshape(g, n, k) => FitsReshape(g, m, k)
  BY DEF FitsReshape, SameNode
<1>12. QED BY <1>1, <1>2, <1>3, <1>4, <1>5, <1>6, <1>7, <1>8, <1>9, <1>10, <1>11 DEF Fits

(* The shapes of a result depend on the operands and on the dims in the
   shape operand only.                                                     *)
LEMMA RunShapesAgree ==
  ASSUME NEW g, NEW k \in Nat, NEW n, NEW m, SameNode(n, m), Fits(g, n, k),
         NEW r, NEW q, \A w \in 1..k : q[w] = r[w]
  PROVE  RunShapes(m, q) = RunShapes(n, r)
<1>1. ASSUME NEW w, NEW i, Taken(g, k, w, i), NEW c \in Nat
      PROVE  ElementSize(q, Element(w, i, c)) = ElementSize(r, Element(w, i, c))
  <2>1. q[w] = r[w]
    BY <1>1 DEF Taken
  <2>2. QED BY <2>1 DEF ElementSize, Element
<1>2. CASE FitsElementwise(n, k)
  BY <1>2, ElementwiseForm DEF FitsElementwise, SameNode
<1>3. CASE FitsCopy(n, k)
  <2>1. PICK a \in 1..k : n.ins = <<a>>
    BY <1>3 DEF FitsCopy
  <2>2. RunShapes(n, r) = {r[a]}
    BY <1>3, <2>1, CopyForm DEF FitsCopy
  <2>3. RunShapes(m, q) = {q[a]}
    BY <1>3, <2>1, CopyForm DEF FitsCopy, SameNode
  <2>4. QED BY <2>2, <2>3
<1>4. CASE FitsMatMul(g, n, k)
  <2>1. PICK a, b \in 1..k : n.ins = <<a, b>>
    BY <1>4 DEF FitsMatMul
  <2>2. \A p : /\ RunShapes(n, p) = IF p[a][2] = p[b][1] THEN {<<p[a][1], p[b][2]>>} ELSE {}
               /\ RunShapes(m, p) = IF p[a][2] = p[b][1] THEN {<<p[a][1], p[b][2]>>} ELSE {}
    BY <1>4, <2>1, MatMulForm DEF FitsMatMul, SameNode
  <2>3. QED BY <2>2
<1>5. CASE FitsGemm(g, n, k)
  <2>1. PICK a, b \in 1..k : n.ins = <<a, b>>
    BY <1>5 DEF FitsGemm
  <2>2. RunShapes(n, r) = LET A == Transposed(r[a], n.transA)
                           B == Transposed(r[b], n.transB) IN
                       IF A[2] = B[1] THEN {<<A[1], B[2]>>} ELSE {}
    BY <1>5, <2>1, GemmForm DEF FitsGemm
  <2>3. RunShapes(m, q) = LET A == Transposed(q[a], m.transA)
                           B == Transposed(q[b], m.transB) IN
                       IF A[2] = B[1] THEN {<<A[1], B[2]>>} ELSE {}
    BY <1>5, <2>1, GemmForm DEF FitsGemm, SameNode
  <2>4. q[a] = r[a] /\ q[b] = r[b]
    OBVIOUS
  <2>5. QED BY <1>5, <2>2, <2>3, <2>4 DEF FitsGemm, SameNode
<1>6. CASE FitsConcat(g, n, k)
  <2>1. PICK a, b \in 1..k : n.ins = <<a, b>>
    BY <1>6 DEF FitsConcat
  <2>2. RunShapes(n, r) = IF AgreeElsewhere(r[a], r[b], n.axis)
                       THEN {Joined(r[a], r[b], n.axis)} ELSE {}
    BY <1>6, <2>1, ConcatForm DEF FitsConcat
  <2>3. RunShapes(m, q) = IF AgreeElsewhere(q[a], q[b], m.axis)
                       THEN {Joined(q[a], q[b], m.axis)} ELSE {}
    BY <1>6, <2>1, ConcatForm DEF FitsConcat, SameNode
  <2>4. q[a] = r[a] /\ q[b] = r[b]
    OBVIOUS
  <2>5. QED BY <1>6, <2>2, <2>3, <2>4 DEF FitsConcat, SameNode
<1>7. CASE FitsTranspose(g, n, k)
  <2>1. PICK a \in 1..k : n.ins = <<a>>
    BY <1>7 DEF FitsTranspose
  <2>2. RunShapes(n, r) = {<<r[a][2], r[a][1]>>}
    BY <1>7, <2>1, TransposeForm DEF FitsTranspose
  <2>3. RunShapes(m, q) = {<<q[a][2], q[a][1]>>}
    BY <1>7, <2>1, TransposeForm DEF FitsTranspose, SameNode
  <2>4. QED BY <2>2, <2>3
<1>8. CASE FitsRecurrent(g, n, k)
  <2>1. PICK a, b \in 1..k : n.ins = <<a, b>>
    BY <1>8 DEF FitsRecurrent
  <2>2. RunShapes(n, r) = IF r[a][2] = r[b][2] /\ r[b][1] = 1
                       THEN {<<1, r[a][2], r[b][3]>>} ELSE {}
    BY <1>8, <2>1, RecurrentForm DEF FitsRecurrent
  <2>3. RunShapes(m, q) = IF q[a][2] = q[b][2] /\ q[b][1] = 1
                       THEN {<<1, q[a][2], q[b][3]>>} ELSE {}
    BY <1>8, <2>1, RecurrentForm DEF FitsRecurrent, SameNode
  <2>4. q[a] = r[a] /\ q[b] = r[b]
    OBVIOUS
  <2>5. QED BY <1>8, <2>2, <2>3, <2>4 DEF FitsRecurrent, SameNode
<1>9. CASE FitsShape(g, n, k)
  <2>1. PICK w, i : Taken(g, k, w, i) /\ n.shape = <<Element(w, i, 0), Lit(2)>>
    BY <1>9 DEF FitsShape
  <2>2. m.shape = n.shape /\ m.op = "ConstantOfShape" /\ n.op = "ConstantOfShape"
    BY <1>9 DEF FitsShape, SameNode
  <2>3. /\ RunShapes(n, r) = {<<ElementSize(r, n.shape[1]), 2>>}
        /\ RunShapes(m, q) = {<<ElementSize(q, m.shape[1]), 2>>}
    BY <2>1, <2>2, ShapeForm
  <2>4. n.shape[1] = Element(w, i, 0)
    BY <2>1
  <2>5. QED BY <1>1, <2>1, <2>2, <2>3, <2>4
<1>10. CASE FitsRange(g, n, k)
  <2>1. PICK w, i : Taken(g, k, w, i) /\ n.shape = <<Element(w, i, 0)>>
    BY <1>10 DEF FitsRange
  <2>2. m.shape = n.shape /\ m.op = "Range" /\ n.op = "Range"
    BY <1>10 DEF FitsRange, SameNode
  <2>3. /\ RunShapes(n, r) = {<<ElementSize(r, n.shape[1])>>}
        /\ RunShapes(m, q) = {<<ElementSize(q, m.shape[1])>>}
    BY <2>1, <2>2, RangeForm
  <2>4. n.shape[1] = Element(w, i, 0)
    BY <2>1
  <2>5. QED BY <1>1, <2>1, <2>2, <2>3, <2>4
<1>11. CASE FitsExpand(g, n, k)
  <2>1. PICK a \in 1..k, w, i, c \in Nat :
          n.ins = <<a>> /\ Taken(g, k, w, i) /\ n.shape = <<Element(w, i, c), Lit(1)>>
    BY <1>11 DEF FitsExpand
  <2>2. m.shape = n.shape /\ m.op = "Expand" /\ n.op = "Expand" /\ m.ins = n.ins
    BY <1>11 DEF FitsExpand, SameNode
  <2> DEFINE e == Element(w, i, c)
  <2>0. ~e.lit /\ n.shape = <<e, Lit(1)>>
    BY <2>1, ElementForm
  <2> HIDE DEF e
  <2>3. RunShapes(n, r) = BroadcastShapes(r[a], <<ElementSize(r, n.shape[1]), 1>>)
    BY <2>0, <2>1, <2>2, ExpandForm
  <2>4. m.ins = <<a>> /\ m.shape = <<e, Lit(1)>>
    BY <2>0, <2>1, <2>2
  <2>5. RunShapes(m, q) = BroadcastShapes(q[a], <<ElementSize(q, m.shape[1]), 1>>)
    BY <2>0, <2>2, <2>4, ExpandForm
  <2>6. n.shape[1] = Element(w, i, c) /\ m.shape[1] = Element(w, i, c)
    BY <2>0, <2>4 DEF e
  <2>7. QED BY <1>1, <2>1, <2>3, <2>5, <2>6
<1>12. CASE FitsReshape(g, n, k)
  <2>1. PICK a \in 1..k : n.ins = <<a>>
    BY <1>12 DEF FitsReshape
  <2>2. m.shape = n.shape /\ m.op = "Reshape" /\ n.op = "Reshape" /\ m.ins = n.ins
    BY <1>12 DEF FitsReshape, SameNode
  <2>3. /\ RunShapes(n, r) = ReshapeShapes(r[a], n.shape, r)
        /\ RunShapes(m, q) = ReshapeShapes(r[a], n.shape, q)
    BY <2>1, <2>2, ReshapeForm
  <2>4. \A i \in DOMAIN n.shape : FixedSize(r[a], n.shape[i], i, q) = FixedSize(r[a], n.shape[i], i, r)
    <3> SUFFICES ASSUME NEW i \in DOMAIN n.shape
                 PROVE  ElementSize(q, n.shape[i]) = ElementSize(r, n.shape[i])
      BY DEF FixedSize
    <3>1. \A c : ElementSize(q, Lit(c)) = ElementSize(r, Lit(c))
      BY NumberForm
    <3>2. QED BY <1>1, <1>12, <3>1 DEF FitsReshape
  <2>5. FixedSizes(r[a], n.shape, q) = FixedSizes(r[a], n.shape, r)
    BY <2>4 DEF FixedSizes
  <2>6. \A p : ReshapeShapes(r[a], n.shape, p) = ReshapedTo(r[a], n.shape, FixedSizes(r[a], n.shape, p))
    BY DEF ReshapeShapes, ReshapedTo, FixedSizes, FixedSize
  <2>7. QED BY <2>3, <2>5, <2>6
<1>13. QED
  BY <1>2, <1>3, <1>4, <1>5, <1>6, <1>7, <1>8, <1>9, <1>10, <1>11, <1>12 DEF Fits
-----------------------------------------------------------------------------
(* A dim that is a number or its own question mark.                        *)
LEMMA OwnDenotes ==
  ASSUME NEW t, IsDim(t), NEW v, NEW i, ~t.lit => t = Mark(v, i), NEW r
  PROVE  Denotes(t, r, r[v][i]) <=> (t.lit => t.val = r[v][i])
<1>1. CASE t.lit
  BY <1>1 DEF Denotes
<1>2. CASE ~t.lit
  <2>1. t.val = <<v, i>>
    BY <1>2 DEF Mark
  <2>2. \A w, j : t.val = <<w, j>> => w = v /\ j = i
    BY <2>1
  <2>3. QED BY <1>2, <2>2 DEF Denotes
<1>3. QED BY <1>1, <1>2 DEF IsDim

(* The arguments of a model.                                               *)
LEMMA SignatureOK ==
  ASSUME NEW g \in Signatures
  PROVE  ModelOK(g, ArgumentRuns(g))
<1>1. IsSeq(g) /\ Len(g) \in Nat /\ DOMAIN g = 1..Len(g)
  <2>1. g \in Seq(Range(g))
    BY SignatureAssumption
  <2>2. QED BY <2>1, LenProperties DEF IsSeq
<1>2. ASSUME NEW v \in DOMAIN g
      PROVE  /\ IsMarks(g[v].type)
             /\ \A i \in 1..RankOf(g, v) :
                  ~g[v].type[i].lit => g[v].type[i] = Mark(v, i)
             /\ g[v].op = "Arg" /\ g[v].ins = <<>>
  <2> DEFINE x == g[v].type
  <2>1. x \in Seq(Range(x))
    BY <1>2, SignatureAssumption
  <2>2. Len(x) \in Nat /\ DOMAIN x = 1..Len(x)
    BY <2>1, LenProperties
  <2>3. \A i \in DOMAIN x : x[i] = Mark(v, i) \/ \E k \in RunSizes : x[i] = Lit(k)
    BY <1>2, SignatureAssumption
  <2>4. \A i \in DOMAIN x : IsDim(x[i]) /\ (~x[i].lit => x[i] = Mark(v, i))
    <3> SUFFICES ASSUME NEW i \in DOMAIN x
                 PROVE  IsDim(x[i]) /\ (~x[i].lit => x[i] = Mark(v, i))
      OBVIOUS
    <3>1. CASE x[i] = Mark(v, i)
      BY <3>1 DEF IsDim, Mark
    <3>2. CASE \E c \in RunSizes : x[i] = Lit(c)
      <4>1. RunSizes \subseteq Nat
        BY DimAssumption
      <4>2. QED BY <3>2, <4>1 DEF IsDim, Lit
    <3>3. QED BY <2>3, <3>1, <3>2
  <2>5. g[v].op = "Arg" /\ g[v].ins = <<>>
    BY <1>2, SignatureAssumption
  <2> HIDE DEF x
  <2>6. IsMarks(x)
    BY <2>2, <2>4 DEF IsMarks
  <2>7. QED BY <2>2, <2>4, <2>5, <2>6 DEF x, RankOf
<1>3. \A v \in DOMAIN g : ValueOK(g, v)
  BY <1>2 DEF ValueOK
<1>4. ASSUME NEW r \in ArgumentRuns(g) PROVE RunOK(g, r)
  <2>1. /\ r \in [DOMAIN g -> UNION {[DOMAIN g[v].type -> RunSizes] : v \in DOMAIN g}]
        /\ \A v \in DOMAIN g : DOMAIN r[v] = DOMAIN g[v].type
        /\ \A v \in DOMAIN g : \A i \in DOMAIN r[v] :
             /\ g[v].type[i].lit => r[v][i] = g[v].type[i].val
             /\ \A w \in DOMAIN g : \A j \in DOMAIN r[w] :
                  g[v].params[i] # NoParam /\ g[v].params[i] = g[w].params[j] => r[v][i] = r[w][j]
    BY <1>4 DEF ArgumentRuns
  <2>2. IsSeq(r) /\ Len(r) = Len(g) /\ DOMAIN r = DOMAIN g
    <3> DEFINE S == UNION {[DOMAIN g[v].type -> RunSizes] : v \in DOMAIN g}
    <3>1. r \in [1..Len(g) -> S]
      BY <1>1, <2>1
    <3> HIDE DEF S
    <3>2. Len(r) = Len(g) /\ r \in Seq(S) /\ DOMAIN r = 1..Len(g)
      BY <1>1, <3>1, LenIs
    <3>3. QED BY <1>1, <3>2 DEF IsSeq
  <2>3. ASSUME NEW v \in DOMAIN g
        PROVE  ShapeOf(g[v].type, r, r[v]) /\ DOMAIN r[v] = 1..RankOf(g, v)
    <3> DEFINE x == g[v].type
    <3>1. IsMarks(x)
      BY <1>2
    <3>2. DOMAIN r[v] = 1..Len(x) /\ Len(x) \in Nat
      BY <2>1, <3>1 DEF IsMarks
    <3>3. PICK w \in DOMAIN g : r[v] \in [DOMAIN g[w].type -> RunSizes]
      BY <2>1
    <3>4. r[v] \in [1..Len(x) -> RunSizes]
      BY <3>2, <3>3
    <3>5. r[v] \in [1..Len(x) -> Nat] /\ \A i \in 1..Len(x) : r[v][i] >= 1
      <4>1. RunSizes \subseteq Nat /\ \A c \in RunSizes : c >= 1
        BY DimAssumption
      <4>2. \A i \in 1..Len(x) : r[v][i] \in RunSizes
        BY <3>4
      <4>3. QED BY <3>4, <4>1, <4>2
    <3>6. r[v] \in Seq(Nat) /\ Len(r[v]) = Len(x)
      BY <3>2, <3>5, LenIs
    <3>7. ASSUME NEW i \in 1..Len(x) PROVE Denotes(x[i], r, r[v][i])
      <4>1. IsDim(x[i]) /\ (~x[i].lit => x[i] = Mark(v, i))
        BY <1>2, <3>1, <3>7 DEF IsMarks, RankOf
      <4>2. x[i].lit => x[i].val = r[v][i]
        BY <2>1, <3>2
      <4>3. QED BY <4>1, <4>2, OwnDenotes
    <3> HIDE DEF x
    <3>8. ShapeOf(x, r, r[v])
      BY <3>5, <3>6, <3>7 DEF ShapeOf
    <3>9. QED BY <3>2, <3>8 DEF x, RankOf
  <2>4. RunFits(g, Len(g), r)
    BY <1>1, <1>2, <2>2, <2>3 DEF RunFits
  <2>5. ParamsHold(g, r)
    <3>1. \A v, w \in DOMAIN g : \A i \in DOMAIN r[v], j \in DOMAIN r[w] :
            g[v].params[i] # NoParam /\ g[v].params[i] = g[w].params[j] => r[v][i] = r[w][j]
      BY <2>1
    <3>2. \A v \in DOMAIN g : DOMAIN r[v] = 1..RankOf(g, v)
      BY <2>3
    <3> SUFFICES ASSUME NEW v \in DOMAIN g, NEW w \in DOMAIN g,
                        NEW i \in 1..RankOf(g, v), NEW j \in 1..RankOf(g, w),
                        g[v].params[i] # NoParam, g[v].params[i] = g[w].params[j]
                 PROVE  r[v][i] = r[w][j]
      BY DEF ParamsHold
    <3>3. i \in DOMAIN r[v] /\ j \in DOMAIN r[w]
      BY <3>2
    <3>4. QED BY <3>1, <3>3
  <2>6. QED BY <1>2, <2>2, <2>4, <2>5 DEF RunOK
<1>5. QED BY <1>1, <1>3, <1>4 DEF ModelOK
-----------------------------------------------------------------------------
(* The operands of an operation of two.                                    *)
LEMMA TwoBefore ==
  ASSUME NEW g, NEW n, NEW k, Fits(g, n, k), n.op \in {"Elementwise", "MatMul"}, NEW j \in 1..2
  PROVE  n.ins[j] \in 1..k
<1>1. \E a, b \in 1..k : n.ins = <<a, b>>
  BY DEF Fits, FitsElementwise, FitsCopy, FitsMatMul, FitsGemm, FitsConcat, FitsTranspose,
         FitsRecurrent, FitsShape, FitsRange, FitsExpand, FitsReshape
<1>2. QED BY <1>1

(* An operation more, and the runs that it leaves.                         *)
LEMMA AppendOK ==
  ASSUME ModelOK(graph, runs), NEW n, Fits(graph, n, Len(graph)), n.op # "Arg",
         SameNode(n, Typed(n)), Append1(n),
         n.op \in {"AddScalar", "BodyArg", "FusedResult"} =>
           Len(HelperMarks(n)) = RankOf(graph, n.ins[1]),
         n.op \in {"ConstantOfShape", "Expand", "Reshape"} => Len(HelperMarks(n)) = 2,
         n.op \in {"Elementwise", "MatMul"} =>
           \E j \in 1..2 : Len(HelperMarks(n)) = RankOf(graph, n.ins[j])
  PROVE  ModelOK(graph', runs')
<1> DEFINE k == Len(graph)
           m == Typed(n)
           x == TypeOf(n)
           marks == HelperMarks(n)
<1>1. /\ graph' = Append(graph, m)
      /\ runs' = UNION {{Append(r, s) : s \in RunShapes(n, r)} : r \in runs}
  BY DEF Append1
<1>2. /\ k \in Nat /\ DOMAIN graph = 1..k
      /\ IsSeq(graph') /\ Len(graph') = k + 1 /\ DOMAIN graph' = 1..(k + 1)
      /\ \A v \in 1..k : graph'[v] = graph[v]
      /\ graph'[k + 1] = m
  BY <1>1, AppendSeq DEF ModelOK
<1>3. m.type = x
  BY DEF Typed
<1>4. \A v \in 1..k : ValueOK(graph, v)
  BY <1>2 DEF ModelOK
<1>5. IsMarks(marks) /\ \A r : RunFits(graph, k, r) => HelperRight(n, r)
  BY <1>2, <1>4, NodeRight DEF ValueOK
<1>6. x = [i \in DOMAIN marks |-> IF marks[i].lit THEN marks[i] ELSE Mark(k + 1, i)]
  BY DEF TypeOf
<1>7. SameNode(n, m) /\ m.op = n.op /\ m.ins = n.ins
  BY DEF SameNode
<1> HIDE DEF m, x, marks, k
<1>8. Len(marks) \in Nat /\ DOMAIN marks = 1..Len(marks) /\ \A i \in 1..Len(marks) : IsDim(marks[i])
  BY <1>5 DEF IsMarks
<1>9. DOMAIN x = 1..Len(marks) /\ x = [i \in 1..Len(marks) |-> x[i]] /\ Len(x) = Len(marks)
  <2>1. DOMAIN x = 1..Len(marks) /\ x = [i \in 1..Len(marks) |-> x[i]]
    BY <1>6, <1>8
  <2>2. QED BY <1>8, <2>1, LenOfDomain
<1>10. \A i \in 1..Len(x) : /\ IsDim(x[i])
                            /\ x[i].lit => marks[i].lit /\ x[i].val = marks[i].val
                            /\ ~x[i].lit => x[i] = Mark(k + 1, i)
  BY <1>6, <1>8, <1>9 DEF IsDim, Mark
<1>11. IsMarks(x)
  BY <1>8, <1>9, <1>10 DEF IsMarks
<1>12. ASSUME NEW v \in 1..k PROVE ValueOK(graph', v)
  <2>1. ValueOK(graph, v) /\ graph'[v] = graph[v] /\ v - 1 \in Nat /\ v \in Nat
    BY <1>2, <1>4, <1>12
  <2>2. \A w \in 1..(v - 1) : graph'[w] = graph[w]
    BY <1>2, <2>1
  <2>3. Fits(graph, graph[v], v - 1) => Fits(graph', graph'[v], v - 1)
    BY <2>1, <2>2, FitsKept
  <2>4. Fits(graph, graph[v], v - 1) /\ Ranked(graph, v) => Ranked(graph', v)
    <3> SUFFICES ASSUME Fits(graph, graph[v], v - 1), Ranked(graph, v) PROVE Ranked(graph', v)
      OBVIOUS
    <3>1. ASSUME graph[v].op \in {"AddScalar", "BodyArg", "FusedResult"}
          PROVE  graph[v].ins[1] \in 1..(v - 1)
      <4>1. FitsCopy(graph[v], v - 1)
        BY <3>1 DEF Fits, FitsElementwise, FitsMatMul, FitsGemm, FitsConcat, FitsTranspose,
                    FitsRecurrent, FitsShape, FitsRange, FitsExpand, FitsReshape
      <4>2. QED BY <4>1 DEF FitsCopy
    <3>2. ASSUME graph[v].op \in {"Elementwise", "MatMul"}, NEW j \in 1..2
          PROVE  graph[v].ins[j] \in 1..(v - 1)
      BY <3>2, TwoBefore
    <3>3. QED BY <2>1, <2>2, <3>1, <3>2 DEF Ranked, RankOf
  <2>5. QED BY <2>1, <2>3, <2>4 DEF ValueOK, RankOf
<1>13. ValueOK(graph', k + 1)
  <2>1. Fits(graph, n, k)
    BY DEF k
  <2>2. Fits(graph', m, (k + 1) - 1)
    <3>1. (k + 1) - 1 = k
      BY <1>2
    <3>2. Fits(graph, m, k)
      BY <1>2, <1>7, <2>1, FitsTyped
    <3>3. Fits(graph', m, k)
      BY <1>2, <3>2, FitsKept
    <3>4. QED BY <3>1, <3>3
  <2>3. RankOf(graph', k + 1) = Len(marks)
    BY <1>2, <1>3, <1>9 DEF RankOf
  <2>4. ASSUME n.op \in {"AddScalar", "BodyArg", "FusedResult"}
        PROVE  RankOf(graph', n.ins[1]) = RankOf(graph, n.ins[1])
    <3>1. FitsCopy(n, k)
      BY <2>1, <2>4 DEF Fits, FitsElementwise, FitsMatMul, FitsGemm, FitsConcat, FitsTranspose,
                        FitsRecurrent, FitsShape, FitsRange, FitsExpand, FitsReshape
    <3>2. n.ins[1] \in 1..k
      BY <3>1 DEF FitsCopy
    <3>3. QED BY <1>2, <3>2 DEF RankOf
  <2>5. ASSUME n.op \in {"Elementwise", "MatMul"}, NEW j \in 1..2
        PROVE  RankOf(graph', n.ins[j]) = RankOf(graph, n.ins[j])
    <3>1. n.ins[j] \in 1..k
      BY <2>1, <2>5, TwoBefore
    <3>2. QED BY <1>2, <3>1 DEF RankOf
  <2>6. Ranked(graph', k + 1)
    BY <1>2, <1>7, <2>3, <2>4, <2>5 DEF Ranked, marks
  <2>7. QED BY <1>2, <1>3, <1>9, <1>10, <1>11, <2>2, <2>6 DEF ValueOK, RankOf
<1>14. ASSUME NEW q \in runs' PROVE RunOK(graph', q)
  <2>1. PICK r \in runs : \E s \in RunShapes(n, r) : q = Append(r, s)
    BY <1>1, <1>14
  <2>2. PICK s \in RunShapes(n, r) : q = Append(r, s)
    BY <2>1
  <2>3. RunOK(graph, r)
    BY DEF ModelOK
  <2>4. /\ IsSeq(q) /\ Len(q) = k + 1 /\ DOMAIN q = 1..(k + 1)
        /\ \A v \in 1..k : q[v] = r[v]
        /\ q[k + 1] = s
    BY <2>2, <2>3, AppendSeq DEF RunOK, k
  <2>5. RunFits(graph, k, r)
    BY <2>3 DEF RunOK, k
  <2>6. ShapeOf(marks, r, s)
    BY <1>5, <2>5 DEF HelperRight, marks
  <2>7. ASSUME NEW v \in 1..k PROVE IsMarks(graph'[v].type) /\ ShapeOf(graph'[v].type, q, q[v])
    <3> DEFINE y == graph[v].type
    <3>1. graph'[v].type = y /\ q[v] = r[v]
      BY <1>2, <2>4, <2>7
    <3>2. IsMarks(y) /\ ShapeOf(y, r, r[v])
      BY <2>5, <2>7 DEF RunFits
    <3>3. ASSUME NEW i \in 1..Len(y) PROVE Denotes(y[i], q, q[v][i])
      <4>1. IsDim(y[i]) /\ Denotes(y[i], r, r[v][i])
        BY <3>2, DimOfShape
      <4>2. ~y[i].lit => y[i] = Mark(v, i)
        BY <1>4 DEF ValueOK, RankOf
      <4>3. y[i].lit => y[i].val = q[v][i]
        BY <3>1, <4>1 DEF Denotes
      <4>4. QED BY <4>1, <4>2, <4>3, OwnDenotes
    <3> HIDE DEF y
    <3>4. ShapeOf(y, q, q[v])
      BY <3>1, <3>2, <3>3 DEF ShapeOf
    <3>5. QED BY <3>1, <3>2, <3>4
  <2>8. ShapeOf(x, q, s)
    <3>1. ASSUME NEW i \in 1..Len(x) PROVE Denotes(x[i], q, q[k + 1][i])
      <4>1. Denotes(marks[i], r, s[i])
        BY <1>9, <2>6, <3>1 DEF ShapeOf
      <4>2. x[i].lit => x[i].val = q[k + 1][i]
        BY <1>10, <2>4, <4>1 DEF Denotes
      <4>3. QED BY <1>10, <4>2, OwnDenotes
    <3>2. QED BY <1>9, <2>4, <2>6, <3>1 DEF ShapeOf
  <2>9. RunFits(graph', k + 1, q)
    <3>1. \A v \in 1..(k + 1) : v \in 1..k \/ v = k + 1
      BY <1>2
    <3>2. IsMarks(graph'[k + 1].type) /\ ShapeOf(graph'[k + 1].type, q, q[k + 1])
      BY <1>2, <1>3, <1>11, <2>4, <2>8
    <3>3. 0 \notin DOMAIN q /\ 1..(k + 1) \subseteq DOMAIN q
      BY <1>2, <2>4
    <3>4. QED BY <2>7, <3>1, <3>2, <3>3 DEF RunFits
  <2>10. ASSUME NEW v \in DOMAIN graph', graph'[v].op # "Arg"
         PROVE  q[v] \in RunShapes(graph'[v], q)
    <3>1. CASE v \in 1..k
      <4>1. graph'[v] = graph[v] /\ q[v] = r[v] /\ v - 1 \in Nat /\ v \in DOMAIN graph
        BY <1>2, <2>4, <3>1
      <4>2. r[v] \in RunShapes(graph[v], r)
        BY <2>3, <2>10, <4>1 DEF RunOK
      <4>3. Fits(graph, graph[v], v - 1)
        BY <1>4, <2>10, <3>1, <4>1 DEF ValueOK
      <4>4. SameNode(graph[v], graph[v]) /\ \A w \in 1..(v - 1) : q[w] = r[w]
        BY <1>2, <2>4, <3>1 DEF SameNode
      <4>5. RunShapes(graph[v], q) = RunShapes(graph[v], r)
        BY <4>1, <4>3, <4>4, RunShapesAgree
      <4>6. QED BY <4>1, <4>2, <4>5
    <3>2. CASE v = k + 1
      <4>1. Fits(graph, n, k)
        BY DEF k
      <4>2. RunShapes(m, q) = RunShapes(n, r)
        BY <1>2, <1>7, <2>4, <4>1, RunShapesAgree
      <4>3. QED BY <1>2, <2>2, <2>4, <3>2, <4>2
    <3>3. QED BY <1>2, <2>10, <3>1, <3>2
  <2>11. ParamsHold(graph', q)
    <3>1. ASSUME NEW v \in DOMAIN graph', graph'[v].op = "Arg"
          PROVE  v \in 1..k /\ v \in DOMAIN graph /\ graph'[v] = graph[v] /\ q[v] = r[v]
      BY <1>2, <1>7, <2>4, <3>1
    <3>2. ParamsHold(graph, r)
      BY <2>3 DEF RunOK
    <3>3. QED BY <3>1, <3>2 DEF ParamsHold, RankOf
  <2>12. QED BY <1>2, <2>4, <2>9, <2>10, <2>11 DEF RunOK
<1>15. \A v \in DOMAIN graph' : ValueOK(graph', v)
  BY <1>2, <1>12, <1>13
<1>16. QED BY <1>2, <1>14, <1>15 DEF ModelOK
-----------------------------------------------------------------------------
(* A node with its type has the fields of the node.                        *)
LEMMA TypedSame ==
  ASSUME NEW n, {"op", "ins"} \subseteq DOMAIN n,
         n.op = "AddScalar" => "scalar" \in DOMAIN n,
         n.op = "Gemm" => {"transA", "transB"} \subseteq DOMAIN n,
         n.op = "Concat" => "axis" \in DOMAIN n,
         n.op \in {"ConstantOfShape", "Range", "Expand", "Reshape"} => "shape" \in DOMAIN n
  PROVE  SameNode(n, Typed(n))
<1> DEFINE m == Typed(n)
<1>1. \A f \in DOMAIN n : f # "type" => m[f] = n[f]
  BY DEF Typed
<1>2. m.op = n.op /\ m.ins = n.ins
  BY <1>1
<1>3. n.op = "AddScalar" => m.scalar = n.scalar
  BY <1>1
<1>4. n.op = "Gemm" => m.transA = n.transA /\ m.transB = n.transB
  BY <1>1
<1>5. n.op = "Concat" => m.axis = n.axis
  BY <1>1
<1>6. n.op \in {"ConstantOfShape", "Range", "Expand", "Reshape"} => m.shape = n.shape
  BY <1>1
<1>7. QED BY <1>2, <1>3, <1>4, <1>5, <1>6 DEF SameNode

(* What is known of an operation is told by its name.                      *)
LEMMA FitsOf ==
  ASSUME NEW g, NEW n, NEW k, Fits(g, n, k)
  PROVE  /\ n.op = "Elementwise" => FitsElementwise(n, k)
         /\ n.op \in {"AddScalar", "BodyArg", "FusedResult"} => FitsCopy(n, k)
         /\ n.op = "MatMul" => FitsMatMul(g, n, k)
         /\ n.op = "Gemm" => FitsGemm(g, n, k)
         /\ n.op = "Concat" => FitsConcat(g, n, k)
         /\ n.op = "Transpose" => FitsTranspose(g, n, k)
         /\ n.op = "Recurrent" => FitsRecurrent(g, n, k)
         /\ n.op = "ConstantOfShape" => FitsShape(g, n, k)
         /\ n.op = "Range" => FitsRange(g, n, k)
         /\ n.op = "Expand" => FitsExpand(g, n, k)
         /\ n.op = "Reshape" => FitsReshape(g, n, k)
         /\ n.op \in {"Elementwise", "AddScalar", "BodyArg", "FusedResult", "MatMul", "Gemm",
                      "Concat", "Transpose", "Recurrent", "ConstantOfShape", "Range", "Expand",
                      "Reshape"}
<1>1. /\ FitsElementwise(n, k) => n.op = "Elementwise"
      /\ FitsCopy(n, k) => n.op \in {"AddScalar", "BodyArg", "FusedResult"}
      /\ FitsMatMul(g, n, k) => n.op = "MatMul"
      /\ FitsGemm(g, n, k) => n.op = "Gemm"
      /\ FitsConcat(g, n, k) => n.op = "Concat"
      /\ FitsTranspose(g, n, k) => n.op = "Transpose"
      /\ FitsRecurrent(g, n, k) => n.op = "Recurrent"
      /\ FitsShape(g, n, k) => n.op = "ConstantOfShape"
      /\ FitsRange(g, n, k) => n.op = "Range"
      /\ FitsExpand(g, n, k) => n.op = "Expand"
      /\ FitsReshape(g, n, k) => n.op = "Reshape"
  BY DEF FitsElementwise, FitsCopy, FitsMatMul, FitsGemm, FitsConcat, FitsTranspose,
         FitsRecurrent, FitsShape, FitsRange, FitsExpand, FitsReshape
<1>2. QED BY <1>1 DEF Fits

(* The rank of a result.                                                   *)
LEMMA ResultRank ==
  ASSUME NEW k \in Nat, NEW n, Fits(graph, n, k), \A v \in 1..k : IsMarks(graph[v].type)
  PROVE  /\ n.op \in {"AddScalar", "BodyArg", "FusedResult"} =>
              Len(HelperMarks(n)) = RankOf(graph, n.ins[1])
         /\ n.op \in {"ConstantOfShape", "Expand", "Reshape"} => Len(HelperMarks(n)) = 2
         /\ n.op \in {"Elementwise", "MatMul"} =>
              \E j \in 1..2 : Len(HelperMarks(n)) = RankOf(graph, n.ins[j])
<1>1. CASE n.op \in {"AddScalar", "BodyArg", "FusedResult"}
  <2>1. PICK a \in 1..k : n.ins = <<a>>
    BY <1>1, FitsOf DEF FitsCopy
  <2>2. HelperMarks(n) = Type(a)
    BY <1>1, <2>1, CopyForm
  <2>3. QED BY <1>1, <2>1, <2>2 DEF RankOf, Type
<1>2. CASE n.op = "ConstantOfShape"
  <2>1. PICK w, i : n.shape = <<Element(w, i, 0), Lit(2)>>
    BY <1>2, FitsOf DEF FitsShape
  <2>2. QED BY <1>2, <2>1, ShapeForm
<1>3. CASE n.op = "Expand"
  <2>1. PICK a \in 1..k, w, i, c \in Nat :
          /\ n.ins = <<a>> /\ RankOf(graph, a) = 1 /\ n.shape = <<Element(w, i, c), Lit(1)>>
    BY <1>3, FitsOf DEF FitsExpand
  <2> DEFINE e == Element(w, i, c)
             x == Type(a)
             y == <<Generic, Lit(1)>>
  <2>2. ~e.lit /\ n.shape = <<e, Lit(1)>>
    BY <2>1, ElementForm
  <2> HIDE DEF e
  <2>3. HelperMarks(n) = BroadcastMarks(x, y)
    BY <1>3, <2>1, <2>2, ExpandForm
  <2>4. Len(x) = 1 /\ Len(y) = 2
    BY <2>1 DEF RankOf, Type
  <2> HIDE DEF x, y
  <2> DEFINE X == Prepend1s(x, 2)
             Y == Prepend1s(y, 2)
             B == [j \in 1..2 |-> IF ~X[j].lit /\ ~Y[j].lit THEN Generic
                                  ELSE BroadcastDim(X[j], Y[j], FALSE)]
  <2>5. BroadcastMarks(x, y) = B
    BY <2>4 DEF BroadcastMarks
  <2>6. DOMAIN B = 1..2 /\ B = [j \in 1..2 |-> B[j]]
    OBVIOUS
  <2> HIDE DEF B
  <2>7. Len(B) = 2
    BY <2>6, LenOfDomain
  <2>8. QED BY <1>3, <2>3, <2>5, <2>7
<1>4. CASE n.op = "Reshape"
  <2>1. PICK a \in 1..k : n.ins = <<a>>
    BY <1>4, FitsOf DEF FitsReshape
  <2>2. HelperMarks(n) = ReshapeMarks(Type(a), n.shape)
    BY <1>4, <2>1, ReshapeForm
  <2>3. DOMAIN n.shape = 1..2
    <3>1. FitsReshape(graph, n, k)
      BY <1>4, FitsOf
    <3>2. \A p, q : DOMAIN <<p, q>> = 1..2
      OBVIOUS
    <3>3. QED BY <3>1, <3>2 DEF FitsReshape
  <2> DEFINE M == ReshapeMarks(Type(a), n.shape)
  <2>4. DOMAIN M = 1..2 /\ M = [j \in 1..2 |-> M[j]]
    BY <2>3 DEF ReshapeMarks
  <2> HIDE DEF M
  <2>5. Len(M) = 2
    BY <2>4, LenOfDomain
  <2>6. QED BY <1>4, <2>2, <2>5 DEF M
<1>5. CASE n.op = "Elementwise"
  <2>1. PICK a, b \in 1..k : n.ins = <<a, b>>
    BY <1>5, FitsOf DEF FitsElementwise
  <2> DEFINE x == Type(a)
             y == Type(b)
             rank == IF Len(x) > Len(y) THEN Len(x) ELSE Len(y)
             X == Prepend1s(x, rank)
             Y == Prepend1s(y, rank)
             B == [j \in 1..rank |-> IF ~X[j].lit /\ ~Y[j].lit THEN Generic
                                     ELSE BroadcastDim(X[j], Y[j], FALSE)]
  <2>2. HelperMarks(n) = B
    <3>1. HelperMarks(n) = BroadcastMarks(x, y)
      BY <1>5, <2>1, ElementwiseForm
    <3>2. BroadcastMarks(x, y) = B
      BY DEF BroadcastMarks
    <3>3. QED BY <3>1, <3>2
  <2>3. Len(x) = RankOf(graph, n.ins[1]) /\ Len(y) = RankOf(graph, n.ins[2])
    BY <2>1 DEF RankOf, Type
  <2>4. Len(x) \in Nat /\ Len(y) \in Nat
    BY <2>1 DEF IsMarks, Type
  <2>5. rank \in Nat /\ (rank = Len(x) \/ rank = Len(y))
    BY <2>4
  <2>6. DOMAIN B = 1..rank /\ B = [j \in 1..rank |-> B[j]]
    OBVIOUS
  <2> HIDE DEF B, rank
  <2>7. Len(B) = rank
    BY <2>5, <2>6, LenOfDomain
  <2>8. QED BY <1>5, <2>2, <2>3, <2>5, <2>7
<1>6. CASE n.op = "MatMul"
  <2>1. PICK a, b \in 1..k : n.ins = <<a, b>> /\ RankOf(graph, a) = 2 /\ RankOf(graph, b) = 2
    BY <1>6, FitsOf DEF FitsMatMul
  <2>2. HelperMarks(n) = <<Type(a)[1], Type(b)[2]>>
    BY <1>6, <2>1, MatMulForm DEF RankOf, Type
  <2>3. Len(HelperMarks(n)) = 2 /\ n.ins[1] = a
    BY <2>1, <2>2
  <2>4. QED BY <1>6, <2>1, <2>3
<1>7. QED BY <1>1, <1>2, <1>3, <1>4, <1>5, <1>6

(* An operation is added.                                                  *)
LEMMA AddOK ==
  ASSUME ModelOK(graph, runs), NEW n, Fits(graph, n, Len(graph)), SameNode(n, Typed(n)), AddNode(n)
  PROVE  ModelOK(graph', runs')
<1>1. Append1(n)
  BY DEF AddNode
<1>2. n.op # "Arg"
  BY FitsOf
<1>3. Len(graph) \in Nat /\ \A v \in 1..Len(graph) : IsMarks(graph[v].type)
  BY AppendSeq DEF ModelOK, ValueOK
<1>4. QED BY <1>1, <1>2, <1>3, ResultRank, AppendOK
-----------------------------------------------------------------------------
(* Every operation that a model is put together from fits, where the code and
   the documentation agree on it.                                          *)
LEMMA ModelKept ==
  ASSUME Disputed = {}, ModelOK(graph, runs),
         \/ AddElementwise \/ AddScalar \/ AddMatMul \/ AddGemm \/ AddConcat \/ AddTranspose
         \/ AddRecurrent \/ AddFused \/ AddConstantOfShape \/ AddRange \/ AddExpand \/ AddReshape
  PROVE  ModelOK(graph', runs')
<1> DEFINE k == Len(graph)
<1>1. k \in Nat /\ DOMAIN graph = 1..k
  BY AppendSeq DEF ModelOK
<1> HIDE DEF k
<1>2. \A v : Rank(v) = RankOf(graph, v)
  BY DEF Rank, RankOf, Type
<1>3. Values2 \subseteq 1..k /\ \A a \in Values2 : RankOf(graph, a) = 2
  BY <1>1, <1>2 DEF Values2
<1>4. ASSUME NEW d \in DynamicDims
      PROVE  Taken(graph, k, d[1], d[2])
  BY <1>1, <1>2, <1>4 DEF DynamicDims, Dynamic, Type, Taken
<1>5. ASSUME NEW d \in DimsOfShapes
      PROVE  Taken(graph, k, d[1], d[2]) /\ NotMistaken(graph, d[1], d[2])
  <2>1. Taken(graph, k, d[1], d[2])
    BY <1>4, <1>5 DEF DimsOfShapes
  <2>2. QED BY <1>2, <1>5, <2>1 DEF DimsOfShapes, NotMistaken, Type
<1>6. CASE AddElementwise
  <2>1. ThirdOperands = {<<>>}
    BY DEF ThirdOperands
  <2>2. PICK a, b \in DOMAIN graph : AddNode([op |-> "Elementwise", ins |-> <<a, b>> \o <<>>])
    BY <1>6, <2>1 DEF AddElementwise
  <2> DEFINE n == [op |-> "Elementwise", ins |-> <<a, b>>]
  <2>3. <<a, b>> \o <<>> = <<a, b>>
    OBVIOUS
  <2>4. AddNode(n)
    BY <2>2, <2>3
  <2>5. Fits(graph, n, k)
    BY <1>1 DEF Fits, FitsElementwise
  <2>6. SameNode(n, Typed(n))
    BY TypedSame
  <2>7. QED BY <2>4, <2>5, <2>6, AddOK DEF k
<1>7. CASE AddScalar
  <2>1. PICK a \in DOMAIN graph : AddNode([op |-> "AddScalar", ins |-> <<a>>, scalar |-> 0])
    BY <1>7 DEF AddScalar
  <2> DEFINE n == [op |-> "AddScalar", ins |-> <<a>>, scalar |-> 0]
  <2>2. Fits(graph, n, k)
    BY <1>1 DEF Fits, FitsCopy
  <2>3. SameNode(n, Typed(n))
    BY TypedSame
  <2>4. QED BY <2>1, <2>2, <2>3, AddOK DEF k
<1>8. CASE AddMatMul
  <2>1. PICK a, b \in Values2 : AddNode([op |-> "MatMul", ins |-> <<a, b>>])
    BY <1>8 DEF AddMatMul
  <2> DEFINE n == [op |-> "MatMul", ins |-> <<a, b>>]
  <2>2. Fits(graph, n, k)
    BY <1>3 DEF Fits, FitsMatMul
  <2>3. SameNode(n, Typed(n))
    BY TypedSame
  <2>4. QED BY <2>1, <2>2, <2>3, AddOK DEF k
<1>9. CASE AddGemm
  <2>1. PICK a, b \in Values2, ta \in BOOLEAN :
          AddNode([op |-> "Gemm", ins |-> <<a, b>>, transA |-> ta, transB |-> ~ta])
    BY <1>9 DEF AddGemm
  <2>2. PICK tb \in BOOLEAN : tb = ~ta
    OBVIOUS
  <2> DEFINE n == [op |-> "Gemm", ins |-> <<a, b>>, transA |-> ta, transB |-> tb]
  <2>3. AddNode(n)
    BY <2>1, <2>2
  <2>4. Fits(graph, n, k)
    BY <1>3 DEF Fits, FitsGemm
  <2>5. SameNode(n, Typed(n))
    BY TypedSame
  <2>6. QED BY <2>3, <2>4, <2>5, AddOK DEF k
<1>10. CASE AddConcat
  <2>0. PICK a, b \in DOMAIN graph :
          /\ Rank(a) = Rank(b)
          /\ \E axis \in 1..Rank(a) : AddNode([op |-> "Concat", ins |-> <<a, b>>, axis |-> axis])
    BY <1>10 DEF AddConcat
  <2>1. PICK axis \in 1..Rank(a) : AddNode([op |-> "Concat", ins |-> <<a, b>>, axis |-> axis])
    BY <2>0
  <2> DEFINE n == [op |-> "Concat", ins |-> <<a, b>>, axis |-> axis]
  <2>2. Fits(graph, n, k)
    BY <1>1, <1>2, <2>0 DEF Fits, FitsConcat
  <2>3. SameNode(n, Typed(n))
    BY TypedSame
  <2>4. QED BY <2>1, <2>2, <2>3, AddOK DEF k
<1>11. CASE AddTranspose
  <2>1. PICK a \in Values2 : AddNode([op |-> "Transpose", ins |-> <<a>>])
    BY <1>11 DEF AddTranspose
  <2> DEFINE n == [op |-> "Transpose", ins |-> <<a>>]
  <2>2. Fits(graph, n, k)
    BY <1>3 DEF Fits, FitsTranspose
  <2>3. SameNode(n, Typed(n))
    BY TypedSame
  <2>4. QED BY <2>1, <2>2, <2>3, AddOK DEF k
<1>12. CASE AddRecurrent
  <2>1. PICK a, b \in {v \in DOMAIN graph : Rank(v) = 3} : AddNode([op |-> "Recurrent", ins |-> <<a, b>>])
    BY <1>12 DEF AddRecurrent
  <2> DEFINE n == [op |-> "Recurrent", ins |-> <<a, b>>]
  <2>2. Fits(graph, n, k)
    BY <1>1, <1>2 DEF Fits, FitsRecurrent
  <2>3. SameNode(n, Typed(n))
    BY TypedSame
  <2>4. QED BY <2>1, <2>2, <2>3, AddOK DEF k
<1>13. CASE AddFused
  <2>1. PICK a \in DOMAIN graph, op \in {"BodyArg", "FusedResult"} : AddNode([op |-> op, ins |-> <<a>>])
    BY <1>13 DEF AddFused
  <2> DEFINE n == [op |-> op, ins |-> <<a>>]
  <2>2. Fits(graph, n, k)
    BY <1>1 DEF Fits, FitsCopy
  <2>3. SameNode(n, Typed(n))
    BY TypedSame
  <2>4. QED BY <2>1, <2>2, <2>3, AddOK DEF k
<1>14. CASE AddConstantOfShape
  <2>1. PICK d \in DimsOfShapes :
          AddNode([op |-> "ConstantOfShape", ins |-> <<>>, shape |-> <<Element(d[1], d[2], 0), Lit(2)>>])
    BY <1>14, Zenon DEF AddConstantOfShape
  <2> DEFINE e == Element(d[1], d[2], 0)
             n == [op |-> "ConstantOfShape", ins |-> <<>>, shape |-> <<e, Lit(2)>>]
  <2>2. AddNode(n)
    BY <2>1
  <2> HIDE DEF e
  <2>3. n.op = "ConstantOfShape" /\ n.ins = <<>> /\ n.shape = <<e, Lit(2)>>
    OBVIOUS
  <2>4. {"op", "ins", "shape"} \subseteq DOMAIN n
    OBVIOUS
  <2> HIDE DEF n
  <2>5. FitsShape(graph, n, k)
    BY <1>5, <2>3 DEF FitsShape, e
  <2>6. SameNode(n, Typed(n))
    BY <2>3, <2>4, TypedSame
  <2>7. Fits(graph, n, k)
    BY <2>5 DEF Fits
  <2>8. QED BY <2>2, <2>6, <2>7, AddOK DEF k
<1>15. CASE AddRange
  <2>1. PICK d \in DynamicDims :
          AddNode([op |-> "Range", ins |-> <<>>, shape |-> <<Element(d[1], d[2], 0)>>])
    BY <1>15 DEF AddRange
  <2> DEFINE n == [op |-> "Range", ins |-> <<>>, shape |-> <<Element(d[1], d[2], 0)>>]
  <2>2. FitsRange(graph, n, k)
    BY <1>4 DEF FitsRange
  <2>3. SameNode(n, Typed(n))
    BY TypedSame
  <2>4. Fits(graph, n, k)
    BY <2>2 DEF Fits
  <2>5. QED BY <2>1, <2>3, <2>4, AddOK DEF k
<1>16. CASE AddExpand
  <2>0. \A f : ExpandShapes(f) = {<<f, Lit(1)>>}
    BY DEF ExpandShapes
  <2>1. PICK a \in DOMAIN graph, d \in DimsOfShapes, c \in 0..1 :
          /\ Rank(a) = 1
          /\ AddNode([op |-> "Expand", ins |-> <<a>>, shape |-> <<Element(d[1], d[2], c), Lit(1)>>])
    BY <1>16, <2>0, Zenon DEF AddExpand
  <2> DEFINE e == Element(d[1], d[2], c)
             n == [op |-> "Expand", ins |-> <<a>>, shape |-> <<e, Lit(1)>>]
  <2>2. AddNode(n) /\ Rank(a) = 1
    BY <2>1
  <2> HIDE DEF e
  <2>3. n.op = "Expand" /\ n.ins = <<a>> /\ n.shape = <<e, Lit(1)>>
    OBVIOUS
  <2>4. {"op", "ins", "shape"} \subseteq DOMAIN n
    OBVIOUS
  <2> HIDE DEF n
  <2>5. FitsExpand(graph, n, k)
    <3>1. c \in Nat /\ a \in 1..k /\ RankOf(graph, a) = 1
      BY <1>1, <1>2, <2>2
    <3>2. Taken(graph, k, d[1], d[2]) /\ NotMistaken(graph, d[1], d[2])
      BY <1>5
    <3>3. d[1] \in Nat /\ d[2] \in Nat
      BY <1>1, <3>2 DEF Taken
    <3>4. QED BY <2>3, <3>1, <3>2, <3>3 DEF FitsExpand, e
  <2>6. SameNode(n, Typed(n))
    BY <2>3, <2>4, TypedSame
  <2>7. Fits(graph, n, k)
    BY <2>5 DEF Fits
  <2>8. QED BY <2>2, <2>6, <2>7, AddOK DEF k
<1>17. CASE AddReshape
  <2> DEFINE E == {Lit(0)} \cup {Element(d[1], d[2], 0) : d \in DimsOfShapes}
  <2>1. PICK a \in Values2, shape \in {<<e, Lit(-1)>> : e \in E} \cup {<<Lit(-1), Lit(1)>>, <<Lit(-1), Lit(2)>>} :
          AddNode([op |-> "Reshape", ins |-> <<a>>, shape |-> shape])
    BY <1>17 DEF AddReshape
  <2> DEFINE n == [op |-> "Reshape", ins |-> <<a>>, shape |-> shape]
  <2>2. \/ shape = <<Lit(0), Lit(-1)>>
        \/ \E c \in Nat \ {0} : shape = <<Lit(-1), Lit(c)>>
        \/ \E w, i : /\ Taken(graph, k, w, i) /\ NotMistaken(graph, w, i)
                     /\ shape = <<Element(w, i, 0), Lit(-1)>>
    <3>1. CASE shape = <<Lit(-1), Lit(1)>>
      <4>1. 1 \in Nat \ {0}
        OBVIOUS
      <4>2. QED BY <3>1, <4>1
    <3>2. CASE shape = <<Lit(-1), Lit(2)>>
      <4>1. 2 \in Nat \ {0}
        OBVIOUS
      <4>2. QED BY <3>2, <4>1
    <3>3. CASE shape = <<Lit(0), Lit(-1)>>
      BY <3>3
    <3>4. ASSUME NEW d \in DimsOfShapes, shape = <<Element(d[1], d[2], 0), Lit(-1)>>
          PROVE  \E w, i : /\ Taken(graph, k, w, i) /\ NotMistaken(graph, w, i)
                           /\ shape = <<Element(w, i, 0), Lit(-1)>>
      BY <1>5, <3>4
    <3>5. shape \in {<<e, Lit(-1)>> : e \in E} => \E e \in E : shape = <<e, Lit(-1)>>
      OBVIOUS
    <3>6. QED BY <3>1, <3>2, <3>3, <3>4, <3>5
  <2>3. n.op = "Reshape" /\ n.ins = <<a>> /\ n.shape = shape
    OBVIOUS
  <2>4. {"op", "ins", "shape"} \subseteq DOMAIN n
    OBVIOUS
  <2>5. AddNode(n)
    BY <2>1
  <2> HIDE DEF n
  <2>6. FitsReshape(graph, n, k)
    BY <1>3, <2>2, <2>3 DEF FitsReshape
  <2>7. SameNode(n, Typed(n))
    BY <2>3, <2>4, TypedSame
  <2>8. Fits(graph, n, k)
    BY <2>6 DEF Fits
  <2>9. QED BY <2>5, <2>7, <2>8, AddOK DEF k
<1>18. QED
  BY <1>6, <1>7, <1>8, <1>9, <1>10, <1>11, <1>12, <1>13, <1>14, <1>15, <1>16, <1>17
-----------------------------------------------------------------------------
\* A dim of a set exists, and is not the number of a result.
Kept(g, v, i) == g[v].op \in {"Arg", "BodyArg"} \/ ~g[v].type[i].lit
DimOK(g, d) ==
  /\ d[1] \in DOMAIN g /\ d[2] \in 1..RankOf(g, d[1]) /\ d[3] \in {"tensor", "dim"}
  /\ Kept(g, d[1], d[2])
  /\ d[3] = "dim" => NotMistaken(g, d[1], d[2])

SameSize(R, d, e) == \A r \in R : SizeIn(r, d) = SizeIn(r, e)

\* The dims E are dims of sets, of the size that d has.
Found(g, R, d, E) == \A e \in E : DimOK(g, e) /\ SameSize(R, d, e)

SetOK(g, R, S) == \A d \in S : Found(g, R, d, S)
SetsOK(g, R, C) == \A S \in C : SetOK(g, R, S)
-----------------------------------------------------------------------------
(* A value of a model.                                                     *)
LEMMA ValueFacts ==
  ASSUME NEW g, NEW R, ModelOK(g, R), NEW v \in DOMAIN g
  PROVE  /\ DOMAIN g = 1..Len(g) /\ Len(g) \in Nat /\ v \in Nat /\ v - 1 \in Nat
         /\ RankOf(g, v) \in Nat /\ DOMAIN g[v].type = 1..RankOf(g, v)
         /\ IsMarks(g[v].type)
         /\ \A i \in 1..RankOf(g, v) : /\ IsDim(g[v].type[i])
                                       /\ ~g[v].type[i].lit => g[v].type[i] = Mark(v, i)
         /\ g[v].op = "Arg" => g[v].ins = <<>>
         /\ g[v].op # "Arg" => Fits(g, g[v], v - 1) /\ Ranked(g, v)
<1>1. IsSeq(g) /\ ValueOK(g, v)
  BY DEF ModelOK
<1>2. DOMAIN g = 1..Len(g) /\ Len(g) \in Nat
  BY <1>1, AppendSeq
<1>3. v \in Nat /\ v - 1 \in Nat
  BY <1>2
<1>4. g[v].op = "Arg" => ~Fits(g, g[v], v - 1)
  BY FitsOf
<1>5. QED BY <1>1, <1>2, <1>3, <1>4 DEF ValueOK, IsMarks, RankOf

(* And its shape in a run.                                                 *)
LEMMA RunFacts ==
  ASSUME NEW g, NEW R, ModelOK(g, R), NEW r \in R, NEW v \in DOMAIN g
  PROVE  /\ r[v] \in Seq(Nat) /\ Len(r[v]) = RankOf(g, v) /\ DOMAIN r[v] = 1..RankOf(g, v)
         /\ \A i \in 1..RankOf(g, v) : /\ r[v][i] \in Nat /\ r[v][i] >= 1
                                       /\ g[v].type[i].lit => r[v][i] = g[v].type[i].val
         /\ ShapeOf(g[v].type, r, r[v])
         /\ g[v].op # "Arg" => r[v] \in RunShapes(g[v], r)
         /\ RunFits(g, v - 1, r) /\ v \in DOMAIN r /\ 0 \notin DOMAIN r
<1>1. RunOK(g, r)
  BY DEF ModelOK
<1>2. DOMAIN g = 1..Len(g) /\ v \in 1..Len(g) /\ Len(g) \in Nat
  BY ValueFacts
<1>3. RunFits(g, Len(g), r)
  BY <1>1 DEF RunOK
<1>4. IsMarks(g[v].type) /\ ShapeOf(g[v].type, r, r[v]) /\ v \in DOMAIN r
  BY <1>2, <1>3 DEF RunFits
<1>5. \A i \in 1..RankOf(g, v) : r[v][i] \in Nat /\ r[v][i] >= 1 /\ Denotes(g[v].type[i], r, r[v][i])
  BY <1>4, DimOfShape DEF RankOf
<1>6. \A i \in 1..RankOf(g, v) : g[v].type[i].lit => r[v][i] = g[v].type[i].val
  BY <1>5 DEF Denotes
<1>7. RunFits(g, v - 1, r)
  <2>1. 1..(v - 1) \subseteq 1..Len(g)
    BY <1>2
  <2>2. QED BY <1>3, <2>1 DEF RunFits
<1>8. r[v] \in Seq(Nat) /\ Len(r[v]) = RankOf(g, v)
  BY <1>4 DEF ShapeOf, RankOf
<1>9. DOMAIN r[v] = 1..RankOf(g, v)
  BY <1>8, LenProperties
<1>10. 0 \notin DOMAIN r
  BY <1>3 DEF RunFits
<1>11. QED BY <1>1, <1>4, <1>5, <1>6, <1>7, <1>8, <1>9, <1>10 DEF RunOK

(* insertDimWhenUseful adds the dim of a value or nothing.                 *)
LEMMA UsefulFound ==
  ASSUME ModelOK(graph, runs), NEW v \in DOMAIN graph, NEW i \in 1..RankOf(graph, v),
         NEW d, \A r \in runs : SizeIn(r, d) = r[v][i]
  PROVE  Found(graph, runs, d, InsertDimWhenUseful(v, i))
<1> DEFINE e == <<v, i, "tensor">>
<1>1. e[1] = v /\ e[2] = i /\ e[3] = "tensor"
  OBVIOUS
<1>2. ASSUME NEW f \in InsertDimWhenUseful(v, i) PROVE f = e /\ Kept(graph, v, i)
  BY <1>2 DEF InsertDimWhenUseful, Kept, Dynamic, Rank, Type
<1> HIDE DEF e
<1>3. Kept(graph, v, i) => DimOK(graph, e)
  BY <1>1 DEF DimOK
<1>4. SameSize(runs, d, e)
  BY <1>1 DEF SameSize, SizeIn
<1>5. QED BY <1>2, <1>3, <1>4 DEF Found

(* The operands of an operation are values before it.                      *)
LEMMA OperandsBefore ==
  ASSUME NEW g, NEW n, NEW k \in Nat, Fits(g, n, k)
  PROVE  Range(n.ins) \subseteq 1..k
<1>1. \A a, b : Range(<<a, b>>) = {a, b} /\ Range(<<a>>) = {a} /\ Range(<<>>) = {}
  BY DEF Range
<1>2. \/ \E a, b \in 1..k : n.ins = <<a, b>>
      \/ \E a \in 1..k : n.ins = <<a>>
      \/ n.ins = <<>>
  BY DEF Fits, FitsElementwise, FitsCopy, FitsMatMul, FitsGemm, FitsConcat, FitsTranspose,
         FitsRecurrent, FitsShape, FitsRange, FitsExpand, FitsReshape
<1>3. CASE \E a, b \in 1..k : n.ins = <<a, b>>
  <2>1. PICK a, b \in 1..k : n.ins = <<a, b>>
    BY <1>3
  <2>2. Range(n.ins) = {a, b}
    BY <1>1, <2>1
  <2>3. QED BY <2>2
<1>4. CASE \E a \in 1..k : n.ins = <<a>>
  <2>1. PICK a \in 1..k : n.ins = <<a>>
    BY <1>4
  <2>2. Range(n.ins) = {a}
    BY <1>1, <2>1
  <2>3. QED BY <2>2
<1>5. CASE n.ins = <<>>
  BY <1>1, <1>5
<1>6. QED BY <1>2, <1>3, <1>4, <1>5
-----------------------------------------------------------------------------
(* The operands of an operation that has two.                              *)
LEMMA TwoOperands ==
  ASSUME ModelOK(graph, runs), NEW u \in DOMAIN graph, NEW a \in 1..(u - 1), NEW b \in 1..(u - 1),
         graph[u].ins = <<a, b>>
  PROVE  /\ a \in DOMAIN graph /\ b \in DOMAIN graph /\ Range(graph[u].ins) = {a, b}
         /\ graph[u].ins[1] = a /\ graph[u].ins[2] = b
<1>1. DOMAIN graph = 1..Len(graph) /\ Len(graph) \in Nat /\ u \in Nat
  BY ValueFacts
<1>2. a \in DOMAIN graph /\ b \in DOMAIN graph
  BY <1>1
<1>3. QED BY <1>2 DEF Range

(* The dims that a Concat joins the others along are equal.                *)
LEMMA ConcatSound ==
  ASSUME ModelOK(graph, runs), NEW u \in DOMAIN graph, graph[u].op = "Concat",
         NEW d, DimOK(graph, d), d[1] \in Range(graph[u].ins)
  PROVE  Found(graph, runs, d, ConcatPeers(graph[u], d[1], d[2]))
<1> DEFINE n == graph[u]
           v == d[1]
           i == d[2]
<1>1. Fits(graph, n, u - 1)
  BY ValueFacts
<1>2. PICK a, b \in 1..(u - 1) :
        n.ins = <<a, b>> /\ RankOf(graph, a) = RankOf(graph, b) /\ n.axis \in 1..RankOf(graph, a)
  BY <1>1, FitsOf DEF FitsConcat
<1>3. a \in DOMAIN graph /\ b \in DOMAIN graph /\ Range(n.ins) = {a, b}
  BY <1>2, TwoOperands
<1>4. v \in {a, b} /\ i \in 1..RankOf(graph, a)
  BY <1>2, <1>3 DEF DimOK
<1>5. ASSUME NEW r \in runs, i # n.axis PROVE r[a][i] = r[b][i]
  <2>1. r[u] \in RunShapes(n, r)
    BY RunFacts
  <2>2. RunShapes(n, r) = IF AgreeElsewhere(r[a], r[b], n.axis)
                          THEN {Joined(r[a], r[b], n.axis)} ELSE {}
    BY <1>2, ConcatForm
  <2>3. AgreeElsewhere(r[a], r[b], n.axis)
    BY <2>1, <2>2
  <2>4. DOMAIN r[a] = 1..RankOf(graph, a)
    BY <1>3, RunFacts
  <2>5. QED BY <1>4, <1>5, <2>3, <2>4 DEF AgreeElsewhere
<1> HIDE DEF n, v, i
<1>6. ASSUME NEW w \in Range(n.ins), i # n.axis
      PROVE  Found(graph, runs, d, InsertDimWhenUseful(w, i))
  <2>1. w \in DOMAIN graph /\ i \in 1..RankOf(graph, w)
    BY <1>2, <1>3, <1>4, <1>6
  <2>2. \A r \in runs : SizeIn(r, d) = r[w][i]
    BY <1>3, <1>4, <1>5, <1>6 DEF SizeIn, v, i
  <2>3. QED BY <2>1, <2>2, UsefulFound
<1>7. QED
  <2>1. \A e \in ConcatPeers(n, v, i) :
          i # n.axis /\ \E w \in Range(n.ins) : e \in InsertDimWhenUseful(w, i)
    BY DEF ConcatPeers
  <2>2. QED BY <1>6, <2>1 DEF Found, n, v, i

(* So are the dims that a product sums over.                               *)
LEMMA InnerSound ==
  ASSUME ModelOK(graph, runs), NEW u \in DOMAIN graph, graph[u].op \in {"MatMul", "Gemm"},
         NEW d, DimOK(graph, d), d[1] \in Range(graph[u].ins)
  PROVE  Found(graph, runs, d, InnerPeers(graph[u], d[1], d[2]))
<1> DEFINE n == graph[u]
           v == d[1]
           i == d[2]
           transA == n.op = "Gemm" /\ n.transA
           transB == n.op = "Gemm" /\ n.transB
           p == IF transA THEN 1 ELSE 2
           q == IF transB THEN 2 ELSE 1
<1>1. Fits(graph, n, u - 1)
  BY ValueFacts
<1>2. PICK a, b \in 1..(u - 1) :
        n.ins = <<a, b>> /\ RankOf(graph, a) = 2 /\ RankOf(graph, b) = 2
  BY <1>1, FitsOf DEF FitsMatMul, FitsGemm
<1>3. a \in DOMAIN graph /\ b \in DOMAIN graph /\ n.ins[1] = a /\ n.ins[2] = b
  BY <1>2, TwoOperands
<1>4. p \in 1..2 /\ q \in 1..2
  OBVIOUS
<1>5. ASSUME NEW r \in runs PROVE r[a][p] = r[b][q]
  <2>1. r[u] \in RunShapes(n, r)
    BY RunFacts
  <2>2. CASE n.op = "MatMul"
    <3>1. RunShapes(n, r) = IF r[a][2] = r[b][1] THEN {<<r[a][1], r[b][2]>>} ELSE {}
      BY <1>2, <2>2, MatMulForm
    <3>2. QED BY <2>1, <2>2, <3>1
  <2>3. CASE n.op = "Gemm"
    <3> DEFINE A == Transposed(r[a], n.transA)
               B == Transposed(r[b], n.transB)
    <3>1. RunShapes(n, r) = IF A[2] = B[1] THEN {<<A[1], B[2]>>} ELSE {}
      BY <1>2, <2>3, GemmForm
    <3>2. A[2] = B[1]
      BY <2>1, <3>1
    <3>3. n.transA \in BOOLEAN /\ n.transB \in BOOLEAN
      BY <1>1, <2>3, FitsOf DEF FitsGemm
    <3>4. Len(r[a]) = 2 /\ Len(r[b]) = 2
      <4>1. Len(r[a]) = RankOf(graph, a)
        BY <1>3, RunFacts
      <4>2. Len(r[b]) = RankOf(graph, b)
        BY <1>3, RunFacts
      <4>3. QED BY <1>2, <4>1, <4>2
    <3>5. A[2] = IF n.transA THEN r[a][1] ELSE r[a][2]
      BY <3>3, <3>4, TransposedForm
    <3>6. B[1] = IF n.transB THEN r[b][2] ELSE r[b][1]
      BY <3>3, <3>4, TransposedForm
    <3> HIDE DEF A, B
    <3>7. QED BY <2>3, <3>2, <3>3, <3>5, <3>6
  <2>4. QED BY <2>2, <2>3
<1>6. \A e \in InnerPeers(n, v, i) :
        \/ v = a /\ i = p /\ e \in InsertDimWhenUseful(b, q)
        \/ v = b /\ i = q /\ e \in InsertDimWhenUseful(a, p)
  <2>1. InnerPeers(n, v, i) = CASE <<v, i>> = <<a, p>> -> InsertDimWhenUseful(b, q)
                                [] <<v, i>> = <<b, q>> -> InsertDimWhenUseful(a, p)
                                [] OTHER -> {}
    BY <1>3 DEF InnerPeers
  <2> HIDE DEF p, q, v, i, n
  <2>2. QED BY <2>1
<1> HIDE DEF p, q, n
<1>7. ASSUME v = a, i = p PROVE Found(graph, runs, d, InsertDimWhenUseful(b, q))
  <2>1. \A r \in runs : SizeIn(r, d) = r[b][q]
    BY <1>5, <1>7 DEF SizeIn
  <2>2. QED BY <1>2, <1>3, <1>4, <2>1, UsefulFound
<1>8. ASSUME v = b, i = q PROVE Found(graph, runs, d, InsertDimWhenUseful(a, p))
  <2>1. \A r \in runs : SizeIn(r, d) = r[a][p]
    BY <1>5, <1>8 DEF SizeIn
  <2>2. QED BY <1>2, <1>3, <1>4, <2>1, UsefulFound
<1>9. QED BY <1>6, <1>7, <1>8 DEF Found, n

(* And the batches of a recurrent operation.                               *)
LEMMA BatchSound ==
  ASSUME ModelOK(graph, runs), NEW u \in DOMAIN graph, graph[u].op = "Recurrent",
         NEW d, DimOK(graph, d), d[1] \in Range(graph[u].ins)
  PROVE  Found(graph, runs, d, BatchPeers(graph[u], d[1], d[2]))
<1> DEFINE n == graph[u]
           v == d[1]
           i == d[2]
<1>1. Fits(graph, n, u - 1)
  BY ValueFacts
<1>2. PICK a, b \in 1..(u - 1) :
        n.ins = <<a, b>> /\ RankOf(graph, a) = 3 /\ RankOf(graph, b) = 3
  BY <1>1, FitsOf DEF FitsRecurrent
<1>3. a \in DOMAIN graph /\ b \in DOMAIN graph /\ Range(n.ins) = {a, b}
  BY <1>2, TwoOperands
<1>4. v \in {a, b} /\ 2 \in 1..3
  BY <1>3
<1>5. ASSUME NEW r \in runs PROVE r[a][2] = r[b][2]
  <2>1. r[u] \in RunShapes(n, r)
    BY RunFacts
  <2>2. RunShapes(n, r) = IF r[a][2] = r[b][2] /\ r[b][1] = 1
                          THEN {<<1, r[a][2], r[b][3]>>} ELSE {}
    BY <1>2, RecurrentForm
  <2>3. QED BY <2>1, <2>2
<1> HIDE DEF n, v, i
<1>6. ASSUME NEW w \in Range(n.ins), i = 2
      PROVE  Found(graph, runs, d, InsertDimWhenUseful(w, 2))
  <2>1. w \in DOMAIN graph /\ 2 \in 1..RankOf(graph, w)
    BY <1>2, <1>3, <1>4, <1>6
  <2>2. \A r \in runs : SizeIn(r, d) = r[w][2]
    BY <1>3, <1>4, <1>5, <1>6 DEF SizeIn, v, i
  <2>3. QED BY <2>1, <2>2, UsefulFound
<1>7. QED
  <2>1. \A e \in BatchPeers(n, v, i) :
          i = 2 /\ \E w \in Range(n.ins) : e \in InsertDimWhenUseful(w, 2)
    BY DEF BatchPeers
  <2>2. QED BY <1>6, <2>1 DEF Found, n, v, i

(* What the consumers of a value say of its dims.                          *)
LEMMA ConsumersSound ==
  ASSUME ModelOK(graph, runs), NEW d, DimOK(graph, d)
  PROVE  Found(graph, runs, d, FromConsumers(d[1], d[2]))
<1> DEFINE v == d[1]
           i == d[2]
           peers(u) == LET n == graph[u] IN
                       CASE n.op = "Concat" -> ConcatPeers(n, v, i)
                         [] n.op \in {"MatMul", "Gemm"} -> InnerPeers(n, v, i)
                         [] n.op = "Recurrent" -> BatchPeers(n, v, i)
                         [] OTHER -> {}
<1>1. FromConsumers(v, i) = UNION {peers(u) : u \in Users(v)}
  BY DEF FromConsumers
<1>2. ASSUME NEW u \in Users(v) PROVE Found(graph, runs, d, peers(u))
  <2>1. u \in DOMAIN graph /\ v \in Range(graph[u].ins)
    BY <1>2 DEF Users
  <2>2. CASE graph[u].op = "Concat"
    <3>1. peers(u) = ConcatPeers(graph[u], v, i)
      BY <2>2
    <3>2. QED BY <2>1, <2>2, <3>1, ConcatSound
  <2>3. CASE graph[u].op \in {"MatMul", "Gemm"}
    <3>1. peers(u) = InnerPeers(graph[u], v, i)
      BY <2>3
    <3>2. QED BY <2>1, <2>3, <3>1, InnerSound
  <2>4. CASE graph[u].op = "Recurrent"
    <3>1. peers(u) = BatchPeers(graph[u], v, i)
      BY <2>4
    <3>2. QED BY <2>1, <2>4, <3>1, BatchSound
  <2>5. CASE graph[u].op \notin {"Concat", "MatMul", "Gemm", "Recurrent"}
    <3>1. peers(u) = {}
      BY <2>5
    <3>2. QED BY <3>1 DEF Found
  <2>6. QED BY <2>2, <2>3, <2>4, <2>5
<1> HIDE DEF peers
<1>3. QED BY <1>1, <1>2 DEF Found
-----------------------------------------------------------------------------
(* A question mark in what the shape helper returns is that of a dim of an
   operand: the dims have one size.                                        *)
LEMMA HelperSound ==
  ASSUME ModelOK(graph, runs), NEW d, DimOK(graph, d), graph[d[1]].op # "Arg"
  PROVE  Found(graph, runs, d, FromShapeHelper(d[1], d[2]))
<1> DEFINE v == d[1]
           i == d[2]
           n == graph[v]
           mark == HelperMarks(n)[i]
<1>1. v \in DOMAIN graph /\ i \in 1..RankOf(graph, v)
  BY DEF DimOK
<1>2. Fits(graph, n, v - 1) /\ v - 1 \in Nat /\ DOMAIN graph = 1..Len(graph) /\ Len(graph) \in Nat
  BY <1>1, ValueFacts
<1>3. 1..(v - 1) \subseteq DOMAIN graph
  BY <1>1, <1>2
<1>4. Range(n.ins) \subseteq DOMAIN graph
  BY <1>2, <1>3, OperandsBefore
<1>5. ASSUME NEW r \in runs PROVE Denotes(mark, r, r[v][i])
  <2>1. r[v] \in RunShapes(n, r) /\ RunFits(graph, v - 1, r) /\ Len(r[v]) = RankOf(graph, v)
    BY <1>1, RunFacts
  <2>2. \A w \in 1..(v - 1) : IsMarks(graph[w].type)
    BY <1>3, ValueFacts
  <2>3. HelperRight(n, r)
    BY <1>2, <2>1, <2>2, NodeRight
  <2>4. ShapeOf(HelperMarks(n), r, r[v])
    BY <2>1, <2>3 DEF HelperRight
  <2>5. QED BY <1>1, <2>1, <2>4 DEF ShapeOf
<1> HIDE DEF mark, n, v, i
<1>6. ASSUME NEW w \in Range(n.ins), NEW k \in DOMAIN Type(w), Dynamic(w, k), Type(w)[k] = mark
      PROVE  Found(graph, runs, d, InsertDimWhenUseful(w, k))
  <2>1. w \in DOMAIN graph
    BY <1>4, <1>6
  <2>2. k \in 1..RankOf(graph, w)
    BY <1>6, <2>1, ValueFacts DEF Type
  <2>3. graph[w].type[k] = Mark(w, k)
    BY <1>6, <2>1, <2>2, ValueFacts DEF Dynamic, Type
  <2>4. mark.val = <<w, k>> /\ ~mark.lit
    BY <1>6, <2>3 DEF Type, Mark
  <2>5. \A r \in runs : SizeIn(r, d) = r[w][k]
    <3> SUFFICES ASSUME NEW r \in runs PROVE SizeIn(r, d) = r[w][k]
      OBVIOUS
    <3>1. w \in DOMAIN r
      BY <2>1, RunFacts
    <3>2. r[w][k] = r[v][i]
      BY <1>5, <2>4, <3>1 DEF Denotes
    <3>3. QED BY <3>2 DEF SizeIn, v, i
  <2>6. QED BY <2>1, <2>2, <2>5, UsefulFound
<1>7. \A e \in FromShapeHelper(v, i) :
        \E w \in Range(n.ins) : \E k \in DOMAIN Type(w) :
          Dynamic(w, k) /\ Type(w)[k] = mark /\ e \in InsertDimWhenUseful(w, k)
  BY DEF FromShapeHelper, mark, n
<1>8. QED BY <1>6, <1>7 DEF Found, v, i

(* Range(0, Dim, 1) has as many elements as the dim.                       *)
LEMMA RangeSound ==
  ASSUME ModelOK(graph, runs), NEW d, DimOK(graph, d)
  PROVE  Found(graph, runs, d, FromRange(d[1]))
<1> DEFINE v == d[1]
           i == d[2]
           n == graph[v]
<1>1. v \in DOMAIN graph /\ i \in 1..RankOf(graph, v)
  BY DEF DimOK
<1>2. CASE n.op # "Range"
  BY <1>2 DEF FromRange, Found
<1>3. CASE n.op = "Range"
  <2>1. Fits(graph, n, v - 1) /\ v - 1 \in Nat /\ DOMAIN graph = 1..Len(graph) /\ Len(graph) \in Nat
    BY <1>1, <1>3, ValueFacts
  <2>2. PICK w, k : Taken(graph, v - 1, w, k) /\ n.shape = <<Element(w, k, 0)>>
    BY <1>3, <2>1, FitsOf DEF FitsRange
  <2>3. n.shape[1] = Element(w, k, 0)
    BY <2>2
  <2>4. n.shape[1].val[1] = w /\ n.shape[1].val[2] = k
    BY <2>3, ElementForm
  <2>5. w \in DOMAIN graph /\ k \in 1..RankOf(graph, w)
    BY <1>1, <2>1, <2>2 DEF Taken
  <2>6. ASSUME NEW r \in runs PROVE SizeIn(r, d) = r[w][k]
    <3>1. r[v] \in RunShapes(n, r) /\ DOMAIN r[v] = 1..RankOf(graph, v)
      BY <1>1, <1>3, RunFacts
    <3>2. RunShapes(n, r) = {<<ElementSize(r, n.shape[1])>>}
      BY <1>3, <2>2, RangeForm
    <3>3. r[v] = <<ElementSize(r, n.shape[1])>>
      BY <3>1, <3>2
    <3>4. i = 1 /\ r[v][1] = ElementSize(r, n.shape[1])
      BY <1>1, <3>1, <3>3
    <3>5. r[w][k] \in Nat
      BY <2>5, RunFacts
    <3>6. ElementSize(r, Element(w, k, 0)) = r[w][k] + 0
      BY <3>5, ElementSizeIs
    <3>7. QED BY <2>3, <3>4, <3>5, <3>6 DEF SizeIn
  <2>7. FromRange(v) = InsertDimWhenUseful(w, k)
    BY <1>3, <2>4 DEF FromRange
  <2>8. QED BY <2>5, <2>6, <2>7, UsefulFound
<1>4. QED BY <1>2, <1>3

\* Dim i of a shape that has 1s in front of it.
Padded(x, rank, i) == IF i > rank - Len(x) THEN x[i - (rank - Len(x))] ELSE 1
TopRank(x, y) == IF Len(x) > Len(y) THEN Len(x) ELSE Len(y)

(* The sizes of a broadcast.                                               *)
LEMMA BroadcastSizes ==
  ASSUME NEW x \in Seq(Nat), NEW y \in Seq(Nat), NEW s \in BroadcastShapes(x, y)
  PROVE  \A i \in 1..TopRank(x, y) :
           s[i] = IF Padded(x, TopRank(x, y), i) = 1
                  THEN Padded(y, TopRank(x, y), i) ELSE Padded(x, TopRank(x, y), i)
<1> DEFINE rank == TopRank(x, y)
           X == [j \in 1..(rank - Len(x)) |-> 1] \o x
           Y == [j \in 1..(rank - Len(y)) |-> 1] \o y
<1>1. rank \in Nat /\ Len(x) \in Nat /\ Len(y) \in Nat /\ Len(x) <= rank /\ Len(y) <= rank
  BY LenProperties DEF TopRank
<1>2. s = [i \in 1..rank |-> IF X[i] = 1 THEN Y[i] ELSE X[i]]
  BY DEF BroadcastShapes, TopRank
<1> HIDE DEF rank
<1>3. \A i \in 1..rank : X[i] = Padded(x, rank, i)
  BY <1>1, OnesInFront DEF Padded
<1>4. \A i \in 1..rank : Y[i] = Padded(y, rank, i)
  BY <1>1, OnesInFront DEF Padded
<1> HIDE DEF X, Y
<1>5. \A i \in 1..rank :
        s[i] = IF Padded(x, rank, i) = 1 THEN Padded(y, rank, i) ELSE Padded(x, rank, i)
  BY <1>2, <1>3, <1>4
<1>6. QED BY <1>5 DEF rank

(* In an Expand of a vector the first dim is that of the shape operand.    *)
LEMMA ExpandedSize ==
  ASSUME NEW x \in Seq(Nat), Len(x) = 1, NEW c \in Nat, NEW s \in BroadcastShapes(x, <<c, 1>>)
  PROVE  s[1] = c
<1> DEFINE y == <<c, 1>>
           rank == TopRank(x, y)
<1>1. Len(y) = 2 /\ y \in Seq(Nat) /\ y[1] = c
  OBVIOUS
<1>2. s \in BroadcastShapes(x, y)
  OBVIOUS
<1> HIDE DEF y
<1>3. rank = 2
  BY <1>1 DEF TopRank
<1>4. 1 \in 1..rank /\ Padded(x, rank, 1) = 1 /\ Padded(y, rank, 1) = c
  BY <1>1, <1>3 DEF Padded
<1>5. \A i \in 1..rank :
        s[i] = IF Padded(x, rank, i) = 1 THEN Padded(y, rank, i) ELSE Padded(x, rank, i)
  BY <1>1, <1>2, BroadcastSizes
<1> HIDE DEF rank
<1>6. QED BY <1>4, <1>5
-----------------------------------------------------------------------------
\* The dim w, k that the element e of a shape operand stands for, and c more,
\* is what dim i of v is made of.
MadeOf(g, R, v, e, w, k, c) ==
  /\ w \in DOMAIN g /\ k \in 1..RankOf(g, w) /\ ~g[w].type[k].lit /\ NotMistaken(g, w, k)
  /\ e = Element(w, k, c) /\ c \in Nat
  /\ \A r \in R : r[v][1] = r[w][k] + c

(* The operations with a shape operand: its second element is a number, and
   so is the first unless it is a dim that the first dim is made of.       *)
LEMMA ShapeOperand ==
  ASSUME ModelOK(graph, runs), NEW v \in DOMAIN graph,
         graph[v].op \in {"ConstantOfShape", "Expand", "Reshape"}
  PROVE  /\ RankOf(graph, v) = 2 /\ graph[v].shape[2].lit
         /\ \/ graph[v].shape[1].lit
            \/ \E w, k, c : MadeOf(graph, runs, v, graph[v].shape[1], w, k, c)
<1> DEFINE n == graph[v]
<1>1. Fits(graph, n, v - 1) /\ v - 1 \in Nat /\ DOMAIN graph = 1..Len(graph) /\ Len(graph) \in Nat
      /\ v \in Nat
  BY ValueFacts
<1>2. RankOf(graph, v) = 2
  BY ValueFacts DEF Ranked
<1>3. ASSUME NEW w, NEW k, Taken(graph, v - 1, w, k)
      PROVE  w \in DOMAIN graph /\ k \in 1..RankOf(graph, w) /\ ~graph[w].type[k].lit
  BY <1>1, <1>3 DEF Taken
<1>4. ASSUME NEW r \in runs PROVE r[v] \in RunShapes(n, r) /\ RunFits(graph, v - 1, r)
  BY <1>4, RunFacts
<1>5. \A c : Lit(c).lit
  BY NumberForm
<1>6. CASE n.op = "ConstantOfShape"
  <2>1. PICK w, k : /\ Taken(graph, v - 1, w, k) /\ NotMistaken(graph, w, k)
                    /\ n.shape = <<Element(w, k, 0), Lit(2)>>
    BY <1>1, <1>6, FitsOf DEF FitsShape
  <2>2. n.shape[1] = Element(w, k, 0) /\ n.shape[2] = Lit(2)
    BY <2>1
  <2>3. ASSUME NEW r \in runs PROVE r[v][1] = r[w][k] + 0
    <3>1. RunShapes(n, r) = {<<ElementSize(r, n.shape[1]), 2>>}
      BY <1>6, <2>1, ShapeForm
    <3>2. r[v][1] = ElementSize(r, n.shape[1])
      BY <1>4, <3>1
    <3>3. ElementSize(r, n.shape[1]) = r[w][k] + 0
      BY <1>1, <1>4, <2>1, <2>2, ElementTaken
    <3>4. QED BY <3>2, <3>3
  <2>4. MadeOf(graph, runs, v, n.shape[1], w, k, 0)
    BY <1>3, <2>1, <2>2, <2>3 DEF MadeOf
  <2>5. QED BY <1>2, <1>5, <2>2, <2>4
<1>7. CASE n.op = "Expand"
  <2>1. PICK a \in 1..(v - 1), w, k, c \in Nat :
          /\ n.ins = <<a>> /\ RankOf(graph, a) = 1
          /\ Taken(graph, v - 1, w, k) /\ NotMistaken(graph, w, k)
          /\ n.shape = <<Element(w, k, c), Lit(1)>>
    BY <1>1, <1>7, FitsOf DEF FitsExpand
  <2>2. n.shape[1] = Element(w, k, c) /\ n.shape[2] = Lit(1)
    BY <2>1
  <2>3. ASSUME NEW r \in runs PROVE r[v][1] = r[w][k] + c
    <3> DEFINE e == Element(w, k, c)
    <3>1. ~e.lit /\ n.shape = <<e, Lit(1)>>
      BY <2>1, ElementForm
    <3>2. ElementSize(r, e) = r[w][k] + c /\ ElementSize(r, e) \in Nat
      BY <1>1, <1>4, <2>1, ElementTaken
    <3> HIDE DEF e
    <3>3. RunShapes(n, r) = BroadcastShapes(r[a], <<ElementSize(r, n.shape[1]), 1>>)
      BY <1>7, <2>1, <3>1, ExpandForm
    <3>4. n.shape[1] = e
      BY <2>2 DEF e
    <3>5. r[v] \in BroadcastShapes(r[a], <<ElementSize(r, e), 1>>)
      BY <1>4, <3>3, <3>4
    <3>6. a \in DOMAIN graph
      BY <1>1, <2>1
    <3>7. r[a] \in Seq(Nat) /\ Len(r[a]) = RankOf(graph, a)
      BY <3>6, RunFacts
    <3>8. r[v][1] = ElementSize(r, e)
      BY <2>1, <3>2, <3>5, <3>7, ExpandedSize
    <3>9. QED BY <3>2, <3>8
  <2>4. MadeOf(graph, runs, v, n.shape[1], w, k, c)
    BY <1>3, <2>1, <2>2, <2>3 DEF MadeOf
  <2>5. QED BY <1>2, <1>5, <2>2, <2>4
<1>8. CASE n.op = "Reshape"
  <2>0. PICK a \in 1..(v - 1) : n.ins = <<a>> /\ RankOf(graph, a) = 2
    BY <1>1, <1>8, FitsOf DEF FitsReshape
  <2>1. \/ n.shape = <<Lit(0), Lit(-1)>>
        \/ \E c \in Nat \ {0} : n.shape = <<Lit(-1), Lit(c)>>
        \/ \E w, k : /\ Taken(graph, v - 1, w, k) /\ NotMistaken(graph, w, k)
                     /\ n.shape = <<Element(w, k, 0), Lit(-1)>>
    BY <1>1, <1>8, FitsOf DEF FitsReshape
  <2>2. CASE n.shape = <<Lit(0), Lit(-1)>>
    <3>1. n.shape[1] = Lit(0) /\ n.shape[2] = Lit(-1)
      BY <2>2
    <3>2. QED BY <1>2, <1>5, <3>1
  <2>3. CASE \E c \in Nat \ {0} : n.shape = <<Lit(-1), Lit(c)>>
    <3>1. PICK c \in Nat \ {0} : n.shape = <<Lit(-1), Lit(c)>>
      BY <2>3
    <3>2. n.shape[1] = Lit(-1) /\ n.shape[2] = Lit(c)
      BY <3>1
    <3>3. QED BY <1>2, <1>5, <3>2
  <2>4. CASE \E w, k : /\ Taken(graph, v - 1, w, k) /\ NotMistaken(graph, w, k)
                       /\ n.shape = <<Element(w, k, 0), Lit(-1)>>
    <3>1. PICK w, k : /\ Taken(graph, v - 1, w, k) /\ NotMistaken(graph, w, k)
                      /\ n.shape = <<Element(w, k, 0), Lit(-1)>>
      BY <2>4
    <3>2. n.shape[1] = Element(w, k, 0) /\ n.shape[2] = Lit(-1)
      BY <3>1
    <3>3. ASSUME NEW r \in runs PROVE r[v][1] = r[w][k] + 0
      <4> DEFINE e == Element(w, k, 0)
                 f == Lit(-1)
                 x == r[a]
      <4>1. ElementSize(r, e) = r[w][k] + 0 /\ ElementSize(r, e) \in Nat /\ ElementSize(r, e) >= 1
        BY <1>1, <1>4, <3>1, ElementTaken
      <4>2. a \in DOMAIN graph
        BY <1>1, <2>0
      <4>3. x \in Seq(Nat) /\ Len(x) = 2 /\ x[1] >= 1 /\ x[2] >= 1
        <5>1. 1 \in 1..RankOf(graph, a) /\ 2 \in 1..RankOf(graph, a)
          BY <2>0
        <5>2. x \in Seq(Nat) /\ Len(x) = RankOf(graph, a)
          BY <4>2, RunFacts
        <5>3. \A j \in 1..RankOf(graph, a) : x[j] >= 1
          BY <4>2, RunFacts
        <5>4. QED BY <2>0, <5>1, <5>2, <5>3
      <4>4. ~e.lit
        BY ElementForm
      <4>5. ~IsLit(e, 0) /\ ~IsLit(e, -1)
        BY <4>4 DEF IsLit
      <4>6. IsLit(f, -1) /\ ~IsLit(f, 0)
        BY DEF IsLit, Lit
      <4>7. n.shape = <<e, f>>
        BY <3>1
      <4> HIDE DEF e, f, x
      <4>8. FixedSize(x, e, 1, r) = ElementSize(r, e) /\ FixedSize(x, f, 2, r) = 1
        BY <4>5, <4>6 DEF FixedSize
      <4>9. RunShapes(n, r) = ReshapeShapes(x, n.shape, r)
        BY <1>8, <2>0, ReshapeForm DEF x
      <4>10. r[v] \in ReshapeShapes(x, n.shape, r)
        BY <1>4, <4>9
      <4>11. r[v][1] = FixedSize(x, e, 1, r)
        <5>1. /\ FixedSize(x, e, 1, r) \in Nat /\ FixedSize(x, e, 1, r) >= 1
              /\ FixedSize(x, f, 2, r) \in Nat /\ FixedSize(x, f, 2, r) >= 1
          BY <4>1, <4>8
        <5>2. \A s \in ReshapeShapes(x, n.shape, r) : ~IsLit(e, -1) => s[1] = FixedSize(x, e, 1, r)
          BY <4>3, <4>7, <5>1, ReshapeRuns
        <5>3. QED BY <4>5, <4>10, <5>2
      <4>12. QED BY <4>1, <4>8, <4>11
    <3>4. MadeOf(graph, runs, v, n.shape[1], w, k, 0)
      BY <1>3, <3>1, <3>2, <3>3 DEF MadeOf
    <3>5. QED BY <1>2, <1>5, <3>2, <3>4
  <2>5. QED BY <2>1, <2>2, <2>3, <2>4
<1>9. QED BY <1>6, <1>7, <1>8

(* ONNXDimOp in a shape operand.                                           *)
LEMMA ShapeInputSound ==
  ASSUME ModelOK(graph, runs), NEW d, DimOK(graph, d)
  PROVE  Found(graph, runs, d, FromShapeInput(d[1], d[2]))
<1> DEFINE v == d[1]
           i == d[2]
           n == graph[v]
<1>1. v \in DOMAIN graph /\ i \in 1..RankOf(graph, v)
  BY DEF DimOK
<1>2. SUFFICES ASSUME n.op \in {"ConstantOfShape", "Expand", "Reshape"},
                      ~n.shape[i].lit /\ n.shape[i].plus = 0
               PROVE  Found(graph, runs, d, {<<n.shape[i].val[1], n.shape[i].val[2], "dim">>})
  BY DEF FromShapeInput, Found
<1>3. i = 1
  BY <1>1, <1>2, ShapeOperand
<1>4. PICK w, k, c : MadeOf(graph, runs, v, n.shape[1], w, k, c)
  BY <1>1, <1>2, <1>3, ShapeOperand
<1>5. /\ w \in DOMAIN graph /\ k \in 1..RankOf(graph, w) /\ ~graph[w].type[k].lit
      /\ NotMistaken(graph, w, k) /\ n.shape[1] = Element(w, k, c) /\ c \in Nat
      /\ \A r \in runs : r[v][1] = r[w][k] + c
  BY <1>4 DEF MadeOf
<1>6. n.shape[1].val[1] = w /\ n.shape[1].val[2] = k /\ c = 0
  BY <1>2, <1>3, <1>5, ElementForm
<1> DEFINE e == <<w, k, "dim">>
<1>7. e[1] = w /\ e[2] = k /\ e[3] = "dim"
  OBVIOUS
<1> HIDE DEF e
<1>8. DimOK(graph, e)
  BY <1>5, <1>7 DEF DimOK, Kept
<1>9. SameSize(runs, d, e)
  <2> SUFFICES ASSUME NEW r \in runs PROVE r[v][1] = r[w][k]
    BY <1>3, <1>7 DEF SameSize, SizeIn
  <2>1. r[w][k] \in Nat
    BY <1>5, RunFacts
  <2>2. QED BY <1>5, <1>6, <2>1
<1>10. QED BY <1>3, <1>6, <1>8, <1>9 DEF Found, e
-----------------------------------------------------------------------------
(* What sameDim says is true.                                              *)
LEMMA SameDimSound ==
  ASSUME ModelOK(graph, runs), SetsOK(graph, runs, sets),
         NEW v \in DOMAIN graph, NEW w \in DOMAIN graph, NEW i, NEW j, SameDim(v, i, w, j)
  PROVE  /\ i \in 1..RankOf(graph, v) /\ j \in 1..RankOf(graph, w)
         /\ \A r \in runs : r[v][i] = r[w][j]
<1> DEFINE d == <<v, i, "tensor">>
           e == <<w, j, "tensor">>
<1>0. d[1] = v /\ d[2] = i /\ e[1] = w /\ e[2] = j
  OBVIOUS
<1>1. /\ i \in 1..RankOf(graph, v) /\ j \in 1..RankOf(graph, w)
      /\ \/ d = e
         \/ Type(v)[i].lit /\ Type(w)[j].lit /\ Type(v)[i] = Type(w)[j]
         \/ InOneSet(d, e)
  BY DEF SameDim, SameDimT, Rank, RankOf, Type
<1> HIDE DEF d, e
<1>2. CASE d = e
  BY <1>0, <1>1, <1>2
<1>3. CASE Type(v)[i].lit /\ Type(w)[j].lit /\ Type(v)[i] = Type(w)[j]
  <2> SUFFICES ASSUME NEW r \in runs PROVE r[v][i] = r[w][j]
    BY <1>1
  <2>1. r[v][i] = graph[v].type[i].val
    BY <1>1, <1>3, RunFacts DEF Type
  <2>2. r[w][j] = graph[w].type[j].val
    BY <1>1, <1>3, RunFacts DEF Type
  <2>3. QED BY <1>3, <2>1, <2>2 DEF Type
<1>4. CASE InOneSet(d, e)
  <2>1. PICK S \in sets : d \in S /\ e \in S
    BY <1>4 DEF InOneSet
  <2>2. SameSize(runs, d, e)
    BY <2>1 DEF SetsOK, SetOK, Found
  <2>3. QED BY <1>0, <1>1, <2>2 DEF SameSize, SizeIn
<1>5. QED BY <1>1, <1>2, <1>3, <1>4

(* The larger of two ranks.                                                *)
LEMMA MaxOfTwo ==
  ASSUME NEW p \in Nat, NEW q \in Nat
  PROVE  Max({p, q}) = IF p > q THEN p ELSE q
<1> DEFINE S == {p, q}
           m == IF p > q THEN p ELSE q
<1>1. m \in S /\ \A y \in S : m >= y
  OBVIOUS
<1>2. \A x \in S : (\A y \in S : x >= y) => x = m
  OBVIOUS
<1> HIDE DEF S, m
<1>3. Max(S) = CHOOSE x \in S : \A y \in S : x >= y
  BY DEF Max
<1>4. Max(S) \in S /\ \A y \in S : Max(S) >= y
  BY <1>1, <1>3
<1>5. QED BY <1>2, <1>4 DEF S, m

(* The dims of two operands at one dim of the result.                      *)
LEMMA Aligned ==
  ASSUME NEW i \in Nat, NEW f \in Nat, NEW h \in Nat, NEW m \in Nat, m = IF f > h THEN f ELSE h,
         i - m + f \in 1..f, i - m + h \in 1..h
  PROVE  /\ i > m - f /\ i > m - h /\ i \in 1..m
         /\ i - (m - f) = i - m + f /\ i - (m - h) = i - m + h
OBVIOUS

(* Operands with the same dim give it to the result.                       *)
LEMMA EqualOperandsSound ==
  ASSUME ModelOK(graph, runs), SetsOK(graph, runs, sets), NEW d, DimOK(graph, d)
  PROVE  Found(graph, runs, d, FromEqualOperands(d[1], d[2]))
<1> DEFINE v == d[1]
           i == d[2]
           n == graph[v]
<1>1. v \in DOMAIN graph /\ i \in 1..RankOf(graph, v)
  BY DEF DimOK
<1>2. CASE n.op \notin {"Elementwise", "MatMul"}
  BY <1>2 DEF FromEqualOperands, Found
<1>3. CASE n.op \in {"Elementwise", "MatMul"}
  <2>1. Fits(graph, n, v - 1)
    BY <1>1, <1>3, ValueFacts
  <2>2. PICK a, b \in 1..(v - 1) :
          /\ n.ins = <<a, b>>
          /\ n.op = "MatMul" => RankOf(graph, a) = 2 /\ RankOf(graph, b) = 2
    BY <1>3, <2>1, FitsOf DEF FitsElementwise, FitsMatMul
  <2>3. a \in DOMAIN graph /\ b \in DOMAIN graph /\ n.ins[1] = a /\ n.ins[2] = b
    BY <1>1, <2>2, TwoOperands
  <2> DEFINE top == Max({Rank(a), Rank(b)})
             at(w) == IF i <= top THEN i - top + Rank(w) ELSE i - top
             m == TopRank(graph[a].type, graph[b].type)
             p == i - m + RankOf(graph, a)
             q == i - m + RankOf(graph, b)
  <2>4. /\ RankOf(graph, a) \in Nat /\ RankOf(graph, b) \in Nat /\ m \in Nat
        /\ m = IF RankOf(graph, a) > RankOf(graph, b) THEN RankOf(graph, a) ELSE RankOf(graph, b)
    <3>1. RankOf(graph, a) \in Nat /\ RankOf(graph, b) \in Nat
      BY <2>3, ValueFacts
    <3>2. QED BY <3>1 DEF TopRank, RankOf
  <2>5. at(a) = p /\ at(b) = q /\ i - top + Rank(a) = p
    <3>1. Rank(a) = RankOf(graph, a) /\ Rank(b) = RankOf(graph, b)
      BY DEF Rank, RankOf, Type
    <3>2. top = m
      BY <2>4, <3>1, MaxOfTwo
    <3>3. i <= m
      <4>1. \E j \in 1..2 : RankOf(graph, v) = RankOf(graph, n.ins[j])
        BY <1>1, <1>3, ValueFacts DEF Ranked
      <4>2. RankOf(graph, v) = RankOf(graph, a) \/ RankOf(graph, v) = RankOf(graph, b)
        BY <2>3, <4>1
      <4> HIDE DEF m
      <4>3. QED BY <1>1, <2>4, <4>2
    <3> HIDE DEF m, top
    <3>4. QED BY <3>1, <3>2, <3>3
  <2>6. \A e \in FromEqualOperands(v, i) : SameDim(a, p, b, q) /\ e \in InsertDimWhenUseful(a, p)
    <3> DEFINE use(x) == LET f == n.ins[x[1]]
                             h == n.ins[x[2]]
                             high == Max({Rank(f), Rank(h)})
                             in(w) == IF i <= high THEN i - high + Rank(w) ELSE i - high IN
                         IF SameDim(f, in(f), h, in(h))
                         THEN InsertDimWhenUseful(f, i - high + Rank(f)) ELSE {}
               pairs == {x \in (DOMAIN n.ins) \X (DOMAIN n.ins) : x[1] < x[2]}
    <3>1. FromEqualOperands(v, i) = UNION {use(x) : x \in pairs}
      BY <1>3 DEF FromEqualOperands
    <3>2. \A x \in pairs : x[1] = 1 /\ x[2] = 2
      <4>1. DOMAIN n.ins = 1..2
        BY <2>2
      <4>2. QED BY <4>1
    <3>3. \A x \in pairs : use(x) = IF SameDim(a, at(a), b, at(b))
                                    THEN InsertDimWhenUseful(a, i - top + Rank(a)) ELSE {}
      BY <2>3, <3>2
    <3> HIDE DEF use, pairs, at, top
    <3>4. QED BY <2>5, <3>1, <3>3
  <2> HIDE DEF at, top, p, q, m
  <2>7. ASSUME SameDim(a, p, b, q)
        PROVE  Found(graph, runs, d, InsertDimWhenUseful(a, p))
    <3>1. /\ p \in 1..RankOf(graph, a) /\ q \in 1..RankOf(graph, b)
          /\ \A r \in runs : r[a][p] = r[b][q]
      BY <2>3, <2>7, SameDimSound
    <3>2. ASSUME NEW r \in runs PROVE SizeIn(r, d) = r[a][p]
      <4>1. r[v] \in RunShapes(n, r) /\ DOMAIN r[v] = 1..RankOf(graph, v)
        BY <1>1, <1>3, RunFacts
      <4>2. r[a] \in Seq(Nat) /\ Len(r[a]) = RankOf(graph, a)
        BY <2>3, RunFacts
      <4>3. r[b] \in Seq(Nat) /\ Len(r[b]) = RankOf(graph, b)
        BY <2>3, RunFacts
      <4>4. CASE n.op = "Elementwise"
        <5>1. r[v] \in BroadcastShapes(r[a], r[b])
          BY <2>2, <4>1, <4>4, ElementwiseForm
        <5>2. TopRank(r[a], r[b]) = m
          BY <4>2, <4>3 DEF m, TopRank, RankOf
        <5>3. Padded(r[a], m, i) = r[a][p] /\ Padded(r[b], m, i) = r[b][q] /\ i \in 1..m
          <6>1. i \in Nat
            BY <1>1, ValueFacts
          <6>2. p \in 1..RankOf(graph, a) /\ q \in 1..RankOf(graph, b)
            BY <3>1
          <6>3. /\ i > m - RankOf(graph, a) /\ i > m - RankOf(graph, b) /\ i \in 1..m
                /\ i - (m - RankOf(graph, a)) = p /\ i - (m - RankOf(graph, b)) = q
            BY <2>4, <6>1, <6>2, Aligned DEF p, q
          <6>4. QED BY <4>2, <4>3, <6>3 DEF Padded
        <5>4. \A k \in 1..m : r[v][k] = IF Padded(r[a], m, k) = 1
                                        THEN Padded(r[b], m, k) ELSE Padded(r[a], m, k)
          BY <4>2, <4>3, <5>1, <5>2, BroadcastSizes
        <5>5. QED BY <3>1, <5>3, <5>4 DEF SizeIn
      <4>5. CASE n.op = "MatMul"
        <5>1. RunShapes(n, r) = IF r[a][2] = r[b][1] THEN {<<r[a][1], r[b][2]>>} ELSE {}
          BY <2>2, <4>5, MatMulForm
        <5>2. r[v] = <<r[a][1], r[b][2]>>
          BY <4>1, <5>1
        <5>3. i \in 1..2
          BY <1>1, <4>1, <5>2
        <5>4. p = i /\ q = i
          BY <2>2, <2>4, <4>5, <5>3 DEF p, q
        <5>5. CASE i = 1
          BY <5>2, <5>4, <5>5 DEF SizeIn
        <5>6. CASE i = 2
          BY <3>1, <5>2, <5>4, <5>6 DEF SizeIn
        <5>7. QED BY <5>3, <5>5, <5>6
      <4>6. QED BY <1>3, <4>4, <4>5
    <3>3. QED BY <2>3, <3>1, <3>2, UsefulFound
  <2>8. QED BY <2>6, <2>7 DEF Found
<1>4. QED BY <1>2, <1>3
-----------------------------------------------------------------------------
Factor(m) == IF m.lit THEN m.val ELSE 1

(* The product of the numbers in the type of a matrix.                     *)
LEMMA StaticProductOfTwo ==
  ASSUME NEW x, Len(x) = 2, IsDim(x[1]), IsDim(x[2])
  PROVE  StaticProduct(x) = Factor(x[1]) * Factor(x[2])
<1> DEFINE step(f, i) == IF i = 0 THEN 1 ELSE IF x[i].lit THEN f[i - 1] * x[i].val ELSE f[i - 1]
           P(f) == f = [i \in 0..Len(x) |-> step(f, i)]
           h == CHOOSE f : P(f)
           one == IF x[1].lit THEN x[1].val ELSE 1
           two == IF x[2].lit THEN one * x[2].val ELSE one
           g == [i \in 0..2 |-> IF i = 0 THEN 1 ELSE IF i = 1 THEN one ELSE two]
<1>1. one \in Nat /\ two \in Nat
  BY DEF IsDim
<1>2. P(g)
  <2>1. g[0] = 1 /\ g[1] = one /\ g[2] = two
    OBVIOUS
  <2>2. \A i \in 0..2 : g[i] = step(g, i)
    <3>1. g[0] = step(g, 0)
      OBVIOUS
    <3>2. g[1] = step(g, 1)
      BY <2>1 DEF IsDim
    <3>3. g[2] = step(g, 2)
      BY <2>1 DEF IsDim
    <3>4. QED BY <3>1, <3>2, <3>3
  <2> HIDE DEF step
  <2>3. QED BY <2>2
<1> HIDE DEF step
<1>3. P(h)
  BY <1>2
<1>4. StaticProduct(x) = h[Len(x)]
  BY DEF StaticProduct, step
<1> HIDE DEF h, g
<1>5. h[0] = step(h, 0) /\ h[1] = step(h, 1) /\ h[2] = step(h, 2)
  BY <1>3
<1>6. h[0] = 1 /\ h[1] = one
  BY <1>5 DEF step, IsDim
<1>7. h[2] = two
  BY <1>5, <1>6 DEF step, IsDim
<1>8. QED BY <1>1, <1>4, <1>7 DEF Factor

\* One axis of the data, matched after the axes before it.
Matched(m, i, same) ==
  IF i \notin DOMAIN same THEN m
  ELSE IF same[i] \ m.taken # {} THEN [m EXCEPT !.taken = @ \cup {Min(same[i] \ @)}]
  ELSE IF m.lost = 0 THEN [m EXCEPT !.lost = i] ELSE m

(* The axes of a matrix are matched one after the other.                   *)
LEMMA MatchOfTwo ==
  ASSUME NEW rank, rank = 2, NEW same
  PROVE  MatchAxes(rank, same) = Matched(Matched([taken |-> {}, lost |-> 0], 1, same), 2, same)
<1> DEFINE none == [taken |-> {}, lost |-> 0]
           P(f) == f = [i \in 0..rank |-> IF i = 0 THEN none ELSE Matched(f[i - 1], i, same)]
           h == CHOOSE f : P(f)
           one == Matched(none, 1, same)
           two == Matched(one, 2, same)
           g == [i \in 0..2 |-> IF i = 0 THEN none ELSE IF i = 1 THEN one ELSE two]
<1>1. MatchAxes(rank, same) = h[rank]
  BY DEF MatchAxes, Matched
<1> HIDE DEF none
<1>2. g[0] = none /\ g[1] = one /\ g[2] = two
  OBVIOUS
<1>3. P(g)
  <2>1. \A i \in 0..2 : g[i] = IF i = 0 THEN none ELSE Matched(g[i - 1], i, same)
    BY <1>2
  <2>2. QED BY <2>1
<1>4. P(h)
  BY <1>3
<1> HIDE DEF h, g
<1>5. h[0] = none /\ h[1] = Matched(h[0], 1, same) /\ h[2] = Matched(h[1], 2, same)
  BY <1>4
<1>6. QED BY <1>1, <1>5 DEF none

(* The first of some axes.                                                 *)
LEMMA MinOfSome ==
  ASSUME NEW S, S \subseteq 1..2, S # {}
  PROVE  Min(S) \in S
<1>1. \E x \in S : \A y \in S : x <= y
  <2>1. \A y \in S : y = 1 \/ y = 2
    OBVIOUS
  <2>2. CASE 1 \in S
    <3>1. \A y \in S : 1 <= y
      BY <2>1
    <3>2. QED BY <2>2, <3>1
  <2>3. CASE 1 \notin S
    <3>1. S = {2}
      BY <2>1, <2>3
    <3>2. QED BY <3>1
  <2>4. QED BY <2>2, <2>3
<1>2. QED BY <1>1 DEF Min

(* When an axis finds none, the axes taken are those of other axes.        *)
LEMMA MatchSound ==
  ASSUME NEW same, DOMAIN same \subseteq 1..2, \A i \in DOMAIN same : same[i] \subseteq 1..2,
         NEW rank, rank = 2
  PROVE  LET m == MatchAxes(rank, same) IN
         /\ m.lost # 0 => m.lost \in DOMAIN same
         /\ \A j \in m.taken : j \in 1..2 /\ \E q \in DOMAIN same : q # m.lost /\ j \in same[q]
<1> DEFINE none == [taken |-> {}, lost |-> 0]
           good(m, k) == /\ DOMAIN m = {"taken", "lost"}
                         /\ m.lost = 0 \/ (m.lost \in DOMAIN same /\ m.lost <= k)
                         /\ \A j \in m.taken : \E q \in DOMAIN same : q <= k /\ q # m.lost /\ j \in same[q]
<1>1. none.taken = {} /\ none.lost = 0 /\ good(none, 0)
  OBVIOUS
<1>2. ASSUME NEW i \in 1..2, NEW m, good(m, i - 1) PROVE good(Matched(m, i, same), i)
  <2>1. CASE i \notin DOMAIN same
    <3>1. Matched(m, i, same) = m
      BY <2>1 DEF Matched
    <3>2. QED BY <1>2, <3>1
  <2>2. CASE i \in DOMAIN same /\ same[i] \ m.taken # {}
    <3> DEFINE x == Min(same[i] \ m.taken)
               M == [m EXCEPT !.taken = @ \cup {x}]
    <3>1. x \in same[i]
      BY <2>2, MinOfSome
    <3>2. Matched(m, i, same) = M
      BY <2>2 DEF Matched
    <3> HIDE DEF x
    <3>3. DOMAIN M = {"taken", "lost"} /\ M.taken = m.taken \cup {x} /\ M.lost = m.lost
      BY <1>2
    <3> HIDE DEF M
    <3>4. i # m.lost
      BY <1>2
    <3>5. good(M, i)
      BY <1>2, <2>2, <3>1, <3>3, <3>4
    <3>6. QED BY <3>2, <3>5
  <2>3. CASE i \in DOMAIN same /\ same[i] \ m.taken = {} /\ m.lost = 0
    <3> DEFINE M == [m EXCEPT !.lost = i]
    <3>1. Matched(m, i, same) = M
      BY <2>3 DEF Matched
    <3>2. DOMAIN M = {"taken", "lost"} /\ M.taken = m.taken /\ M.lost = i
      BY <1>2
    <3> HIDE DEF M
    <3>3. good(M, i)
      BY <1>2, <2>3, <3>2
    <3>4. QED BY <3>1, <3>3
  <2>4. CASE i \in DOMAIN same /\ same[i] \ m.taken = {} /\ m.lost # 0
    <3>1. Matched(m, i, same) = m
      BY <2>4 DEF Matched
    <3>2. QED BY <1>2, <3>1
  <2>5. QED BY <2>1, <2>2, <2>3, <2>4
<1> DEFINE one == Matched(none, 1, same)
           two == Matched(one, 2, same)
<1>3. good(one, 1)
  BY <1>1, <1>2
<1>4. good(two, 2)
  BY <1>2, <1>3
<1>5. MatchAxes(rank, same) = two
  BY MatchOfTwo
<1> HIDE DEF two
<1>6. QED BY <1>4, <1>5

(* How many of the axes of a matrix.                                       *)
LEMMA CountOfTwo ==
  ASSUME NEW S, S \subseteq 1..2, NEW p \in S, NEW q \in 1..2, q # p
  PROVE  Cardinality(S) = IF q \in S THEN 2 ELSE 1
<1>0. \A x \in S : x = p \/ x = q
  <2>1. \A x \in 1..2 : x = 1 \/ x = 2
    OBVIOUS
  <2>2. QED BY <2>1
<1>1. CASE q \in S
  <2>1. S = {p} \cup {q} /\ q \notin {p}
    BY <1>0, <1>1
  <2>2. IsFiniteSet({p}) /\ Cardinality({p}) = 1
    BY FS_Singleton
  <2>3. Cardinality({p} \cup {q}) = Cardinality({p}) + 1
    BY <2>1, <2>2, FS_AddElement
  <2>4. QED BY <1>1, <2>1, <2>2, <2>3
<1>2. CASE q \notin S
  <2>1. S = {p}
    BY <1>0, <1>2
  <2>2. QED BY <1>2, <2>1, FS_Singleton
<1>3. QED BY <1>1, <1>2

(* Equal products with an equal factor.                                    *)
LEMMA Cancelled ==
  ASSUME NEW a \in Nat, NEW b \in Nat, NEW c \in Nat, c >= 1, a * c = b * c
  PROVE  a = b
<1>1. (a - b) * c = 0
  BY SMT
<1>2. a - b = 0
  BY <1>1, SMT
<1>3. QED BY <1>2

(* The two axes of a matrix.                                               *)
LEMMA TwoAxes ==
  ASSUME NEW p \in 1..2, NEW q \in 1..2, p # q
  PROVE  (p = 1 /\ q = 2) \/ (p = 2 /\ q = 1)
OBVIOUS

(* The size of a matrix.                                                   *)
LEMMA ProductOfAxes ==
  ASSUME NEW x, x[1] \in Nat, x[2] \in Nat, NEW p \in 1..2, NEW q \in 1..2, p # q
  PROVE  x[p] \in Nat /\ x[q] \in Nat /\ x[p] * x[q] = x[1] * x[2]
<1>1. ASSUME NEW a \in Nat, NEW b \in Nat PROVE a * b = b * a
  BY SMT
<1>2. CASE p = 1 /\ q = 2
  BY <1>2
<1>3. CASE p = 2 /\ q = 1
  BY <1>1, <1>3
<1>4. QED BY <1>2, <1>3, TwoAxes

(* A matrix reshaped to a matrix: the data and the result have as many
   elements, and share a size next to those in question.                   *)
LEMMA ReshapedAxis ==
  ASSUME NEW x, NEW y, SameElements(x, y),
         NEW p \in 1..2, NEW q \in 1..2, NEW i \in 1..2, NEW j \in 1..2, p # q, i # j,
         x[1] \in Nat, x[2] \in Nat, y[1] \in Nat, y[2] \in Nat, x[j] = y[q], x[j] >= 1
  PROVE  x[i] = y[p]
<1>1. x[1] * x[2] = y[1] * y[2]
  BY DEF SameElements
<1>2. x[i] \in Nat /\ x[j] \in Nat /\ x[i] * x[j] = x[1] * x[2]
  BY ProductOfAxes
<1>3. y[p] \in Nat /\ y[p] * y[q] = y[1] * y[2]
  BY ProductOfAxes
<1>4. x[i] * x[j] = y[p] * x[j]
  BY <1>1, <1>2, <1>3
<1>5. QED BY <1>2, <1>3, <1>4, Cancelled

(* The elements of the data of a Reshape are those of its result.          *)
LEMMA ReshapeKeepsElements ==
  ASSUME ModelOK(graph, runs), NEW v \in DOMAIN graph, graph[v].op = "Reshape"
  PROVE  \E a \in DOMAIN graph :
           /\ graph[v].ins[1] = a /\ RankOf(graph, a) = 2 /\ RankOf(graph, v) = 2
           /\ \A r \in runs : SameElements(r[v], r[a])
<1> DEFINE n == graph[v]
<1>1. Fits(graph, n, v - 1) /\ DOMAIN graph = 1..Len(graph) /\ Len(graph) \in Nat /\ v \in Nat
  BY ValueFacts
<1>2. PICK a \in 1..(v - 1) : n.ins = <<a>> /\ RankOf(graph, a) = 2
  BY <1>1, FitsOf DEF FitsReshape
<1>3. a \in DOMAIN graph /\ n.ins[1] = a
  BY <1>1, <1>2
<1>4. RankOf(graph, v) = 2
  BY ShapeOperand
<1>5. ASSUME NEW r \in runs PROVE SameElements(r[v], r[a])
  <2> DEFINE x == r[a]
             s == r[v]
  <2>1. s \in RunShapes(n, r)
    BY RunFacts
  <2>2. RunShapes(n, r) = ReshapeShapes(x, n.shape, r)
    BY <1>2, ReshapeForm
  <2>3. ReshapeShapes(x, n.shape, r) = ReshapedTo(x, n.shape, FixedSizes(x, n.shape, r))
    BY DEF ReshapeShapes, ReshapedTo, FixedSizes, FixedSize
  <2>4. \A fixed : \A t \in ReshapedTo(x, n.shape, fixed) : Elements(t) = Elements(x)
    BY DEF ReshapedTo
  <2>5. Elements(s) = Elements(x)
    BY <2>1, <2>2, <2>3, <2>4
  <2>6. s \in Seq(Nat) /\ Len(s) = 2
    <3>1. s \in Seq(Nat) /\ Len(s) = RankOf(graph, v)
      BY RunFacts
    <3>2. QED BY <1>4, <3>1
  <2>7. x \in Seq(Nat) /\ Len(x) = 2
    <3>1. x \in Seq(Nat) /\ Len(x) = RankOf(graph, a)
      BY <1>3, RunFacts
    <3>2. QED BY <1>2, <3>1
  <2> HIDE DEF x, s
  <2>8. ASSUME NEW t \in Seq(Nat), Len(t) = 2 PROVE Elements(t) = t[1] * t[2]
    <3>1. t = <<t[1], t[2]>> /\ t[1] \in Nat /\ t[2] \in Nat
      <4>1. t \in [1..2 -> Nat]
        BY <2>8, LenProperties
      <4>2. QED BY <4>1, PairIs
    <3>2. Elements(<<t[1], t[2]>>) = t[1] * t[2]
      BY <3>1, ElementsOfTwo
    <3>3. QED BY <3>1, <3>2
  <2>9. SameElements(s, x)
    BY <2>5, <2>6, <2>7, <2>8 DEF SameElements
  <2>10. QED BY <2>9 DEF s, x
<1>6. QED BY <1>2, <1>3, <1>4, <1>5
-----------------------------------------------------------------------------
(* The only number in the type of a matrix.                                *)
LEMMA LoneFactor ==
  ASSUME NEW x, Len(x) = 2, IsDim(x[1]), IsDim(x[2]), NEW p \in 1..2, NEW q \in 1..2, p # q,
         ~x[p].lit, x[q].lit
  PROVE  StaticProduct(x) = x[q].val
<1>1. StaticProduct(x) = Factor(x[1]) * Factor(x[2])
  BY StaticProductOfTwo
<1>2. CASE p = 1 /\ q = 2
  <2>1. Factor(x[1]) = 1 /\ Factor(x[2]) = x[2].val /\ x[2].val \in Nat
    BY <1>2 DEF Factor, IsDim
  <2>2. QED BY <1>1, <1>2, <2>1
<1>3. CASE p = 2 /\ q = 1
  <2>1. Factor(x[2]) = 1 /\ Factor(x[1]) = x[1].val /\ x[1].val \in Nat
    BY <1>3 DEF Factor, IsDim
  <2>2. QED BY <1>1, <1>3, <2>1
<1>4. QED BY <1>2, <1>3, TwoAxes

(* A Reshape that keeps all but one of the dynamic dims keeps that one too. *)
LEMMA ReshapeSound ==
  ASSUME ModelOK(graph, runs), SetsOK(graph, runs, sets), NEW d, DimOK(graph, d)
  PROVE  Found(graph, runs, d, FromReshape(d[1], d[2]))
<1> DEFINE v == d[1]
           i == d[2]
           n == graph[v]
           a == n.ins[1]
           same == [k \in DynamicAxes(a) |-> {j \in DynamicAxes(v) : SameDim(a, k, v, j)}]
           m == MatchDims(a, v)
<1>1. v \in DOMAIN graph /\ i \in 1..RankOf(graph, v) /\ Kept(graph, v, i)
  BY DEF DimOK
<1>2. SUFFICES ASSUME n.op = "Reshape",
                      Cardinality(DynamicAxes(a)) = Cardinality(DynamicAxes(v)),
                      StaticProduct(Type(a)) = StaticProduct(Type(v)),
                      m.lost # 0, Cardinality(m.taken) = Cardinality(DynamicAxes(v)) - 1,
                      i \notin m.taken
               PROVE  Found(graph, runs, d, InsertDimWhenUseful(a, m.lost))
  <2>1. FromReshape(v, i) = IF /\ n.op = "Reshape"
                               /\ Cardinality(DynamicAxes(a)) = Cardinality(DynamicAxes(v))
                               /\ StaticProduct(Type(a)) = StaticProduct(Type(v))
                               /\ m.lost # 0 /\ Cardinality(m.taken) = Cardinality(DynamicAxes(v)) - 1
                               /\ i \notin m.taken
                            THEN InsertDimWhenUseful(a, m.lost) ELSE {}
    BY DEF FromReshape
  <2> HIDE DEF m, a, n
  <2>2. \A x \in {} : DimOK(graph, x) /\ SameSize(runs, d, x)
    OBVIOUS
  <2>3. QED BY <2>1, <2>2 DEF Found
<1>3. /\ a \in DOMAIN graph /\ RankOf(graph, a) = 2 /\ RankOf(graph, v) = 2
      /\ \A r \in runs : SameElements(r[v], r[a])
  BY <1>1, <1>2, ReshapeKeepsElements
<1>4. ASSUME NEW w \in {a, v}
      PROVE  DynamicAxes(w) = {k \in 1..2 : ~graph[w].type[k].lit}
  <2>1. w \in DOMAIN graph /\ RankOf(graph, w) = 2
    BY <1>1, <1>3, <1>4
  <2>2. DOMAIN graph[w].type = 1..RankOf(graph, w)
    BY <2>1, ValueFacts
  <2>3. QED BY <2>1, <2>2 DEF DynamicAxes, Dynamic, Type
<1>5. i \in DynamicAxes(v) /\ DynamicAxes(a) \subseteq 1..2 /\ DynamicAxes(v) \subseteq 1..2
  <2>1. ~graph[v].type[i].lit
    BY <1>1, <1>2 DEF Kept
  <2>2. QED BY <1>1, <1>3, <1>4, <2>1
<1>6. /\ m = MatchAxes(Rank(a), same) /\ Rank(a) = 2
      /\ DOMAIN same = DynamicAxes(a)
      /\ \A k \in DynamicAxes(a) : \A j \in same[k] : j \in DynamicAxes(v) /\ SameDim(a, k, v, j)
  BY <1>3 DEF MatchDims, Rank, RankOf, Type
<1> HIDE DEF m, same, a, n, v, i
<1>7. /\ m.lost \in DynamicAxes(a)
      /\ \A j \in m.taken : /\ j \in 1..2
                            /\ \E k \in DynamicAxes(a) : k # m.lost /\ j \in same[k]
  <2>1. DOMAIN same \subseteq 1..2 /\ \A k \in DOMAIN same : same[k] \subseteq 1..2
    BY <1>5, <1>6
  <2>2. /\ m.lost # 0 => m.lost \in DOMAIN same
        /\ \A j \in m.taken : j \in 1..2 /\ \E k \in DOMAIN same : k # m.lost /\ j \in same[k]
    BY <1>6, <2>1, MatchSound
  <2>3. QED BY <1>2, <1>6, <2>2
<1> DEFINE p == m.lost
<1>8. PICK q \in 1..2 : q # p
  <2>1. 1 \in 1..2 /\ 2 \in 1..2 /\ 1 # 2
    OBVIOUS
  <2>2. QED BY <2>1
<1>9. PICK j \in 1..2 : j # i
  <2>1. 1 \in 1..2 /\ 2 \in 1..2 /\ 1 # 2
    OBVIOUS
  <2>2. QED BY <2>1
<1>10. p \in 1..2 /\ i \in 1..2
  BY <1>5, <1>7
<1>11. q \in DynamicAxes(a) <=> j \in DynamicAxes(v)
  <2>1. Cardinality(DynamicAxes(a)) = IF q \in DynamicAxes(a) THEN 2 ELSE 1
    BY <1>5, <1>7, <1>8, CountOfTwo
  <2>2. Cardinality(DynamicAxes(v)) = IF j \in DynamicAxes(v) THEN 2 ELSE 1
    BY <1>5, <1>9, CountOfTwo
  <2>3. (IF q \in DynamicAxes(a) THEN 2 ELSE 1) = (IF j \in DynamicAxes(v) THEN 2 ELSE 1)
    BY <1>2, <2>1, <2>2
  <2>4. QED BY <2>3
<1>12. ASSUME NEW r \in runs PROVE r[v][j] = r[a][q]
  <2>1. CASE j \in DynamicAxes(v)
    <3>1. Cardinality(DynamicAxes(v)) = 2
      BY <1>5, <1>9, <2>1, CountOfTwo
    <3>2. m.taken # {}
      BY <1>2, <3>1, FS_EmptySet
    <3>3. PICK k \in m.taken : k \in 1..2
      BY <1>7, <3>2
    <3>4. k = j
      <4>1. k # i
        BY <1>2, <3>3
      <4>2. QED BY <1>9, <1>10, <3>3, <4>1
    <3>5. PICK l \in DynamicAxes(a) : l # p /\ j \in same[l]
      BY <1>7, <3>3, <3>4
    <3>6. l = q
      <4>1. l \in 1..2
        BY <1>5
      <4>2. QED BY <1>8, <1>10, <3>5, <4>1
    <3>7. SameDim(a, q, v, j)
      BY <1>6, <3>5, <3>6
    <3>8. QED BY <1>1, <1>3, <1>12, <3>7, SameDimSound DEF v
  <2>2. CASE j \notin DynamicAxes(v)
    <3>1. graph[a].type[q].lit /\ graph[v].type[j].lit
      BY <1>4, <1>8, <1>9, <1>11, <2>2
    <3>2. r[v][j] = graph[v].type[j].val
      BY <1>1, <1>3, <1>9, <1>12, <3>1, RunFacts
    <3>3. r[a][q] = graph[a].type[q].val
      BY <1>3, <1>8, <1>12, <3>1, RunFacts
    <3>4. ~graph[a].type[p].lit /\ ~graph[v].type[i].lit
      BY <1>4, <1>5, <1>7
    <3>5. graph[v].type[j].val = graph[a].type[q].val
      <4>1. ASSUME NEW w \in {a, v}
            PROVE  Len(graph[w].type) = 2 /\ IsDim(graph[w].type[1]) /\ IsDim(graph[w].type[2])
        <5>1. w \in DOMAIN graph /\ RankOf(graph, w) = 2
          BY <1>1, <1>3, <4>1
        <5>2. \A k \in 1..RankOf(graph, w) : IsDim(graph[w].type[k])
          BY <5>1, ValueFacts
        <5>3. QED BY <5>1, <5>2 DEF RankOf
      <4>2. StaticProduct(graph[a].type) = graph[a].type[q].val
        BY <1>8, <1>10, <3>1, <3>4, <4>1, LoneFactor
      <4>3. StaticProduct(graph[v].type) = graph[v].type[j].val
        BY <1>9, <1>10, <3>1, <3>4, <4>1, LoneFactor
      <4>4. QED BY <1>2, <4>2, <4>3 DEF Type
    <3>6. QED BY <3>2, <3>3, <3>5
  <2>3. QED BY <2>1, <2>2
<1>13. ASSUME NEW r \in runs PROVE SizeIn(r, d) = r[a][p]
  <2>1. \A k \in 1..2 : r[v][k] \in Nat /\ r[v][k] >= 1
    BY <1>1, <1>3, <1>13, RunFacts
  <2>2. \A k \in 1..2 : r[a][k] \in Nat
    BY <1>3, <1>13, RunFacts
  <2>3. SameElements(r[v], r[a])
    BY <1>3, <1>13
  <2>4. r[v][i] = r[a][p]
    <3>1. r[v][1] \in Nat /\ r[v][2] \in Nat /\ r[a][1] \in Nat /\ r[a][2] \in Nat /\ r[v][j] >= 1
      BY <1>9, <2>1, <2>2
    <3>2. QED BY <1>8, <1>9, <1>10, <1>12, <2>3, <3>1, ReshapedAxis
  <2>5. QED BY <2>4 DEF SizeIn, v, i
<1>14. QED
  <2>1. p \in 1..RankOf(graph, a)
    BY <1>3, <1>10
  <2>2. QED BY <1>3, <1>13, <2>1, UsefulFound
-----------------------------------------------------------------------------
(* A set of numbers has a least one.                                       *)
LEMMA LeastNumber ==
  ASSUME NEW T \in SUBSET Nat, T # {}
  PROVE  \E x \in T : \A y \in T : x <= y
<1> DEFINE R == {ss \in Nat \X Nat : ss[1] < ss[2]}
<1>0. IsWellFoundedOn(R, Nat)
  BY NatLessThanWellFounded DEF OpToRel
<1> HIDE DEF R
<1>1. PICK x \in T : \A y \in T : ~ (<<y, x>> \in R)
  BY <1>0, WFMin
<1>2. ASSUME NEW y \in T, ~(x <= y) PROVE FALSE
  <2>1. x \in Nat /\ y \in Nat /\ y < x /\ <<y, x>> \in Nat \X Nat /\ <<y,x>>[1] < <<y,x>>[2]
    BY <1>2
  <2>2. <<y, x>> \in R
    BY <2>1 DEF R
  <2>3. QED BY <1>1, <2>2
<1>3. QED BY <1>1, <1>2

\* The sources of the first n values.
IsSource(g, n, f) ==
  f = [u \in 1..n |-> IF g[u].op = "BodyArg" THEN f[g[u].ins[1]] ELSE u]

(* The argument of a body is fed by a value before it: it has a source.    *)
LEMMA SourceExists ==
  ASSUME NEW g, NEW R, ModelOK(g, R)
  PROVE  \E f : IsSource(g, Len(g), f)
<1>1. Len(g) \in Nat /\ DOMAIN g = 1..Len(g)
  BY AppendSeq DEF ModelOK
<1> DEFINE bad == {n \in Nat : n <= Len(g) /\ ~\E f : IsSource(g, n, f)}
<1> SUFFICES ASSUME bad # {} PROVE FALSE
  BY <1>1
<1>2. PICK n \in bad : \A k \in bad : n <= k
  <2>1. bad \in SUBSET Nat
    OBVIOUS
  <2> HIDE DEF bad
  <2>2. QED BY <2>1, LeastNumber
<1>3. n \in Nat /\ n <= Len(g) /\ ~\E f : IsSource(g, n, f)
  OBVIOUS
<1>4. n # 0
  <2>1. IsSource(g, 0, [u \in 1..0 |-> u])
    BY DEF IsSource
  <2>2. QED BY <1>3, <2>1
<1>5. n - 1 \in Nat /\ n - 1 <= Len(g) /\ ~(n <= n - 1)
  BY <1>1, <1>3, <1>4
<1>6. PICK f : IsSource(g, n - 1, f)
  BY <1>2, <1>5
<1> HIDE DEF bad
<1> DEFINE last == IF g[n].op = "BodyArg" THEN f[g[n].ins[1]] ELSE n
           h == [u \in 1..n |-> IF u = n THEN last ELSE f[u]]
<1>7. \A u \in 1..(n - 1) : f[u] = IF g[u].op = "BodyArg" THEN f[g[u].ins[1]] ELSE u
  BY <1>6 DEF IsSource
<1>8. ASSUME NEW u \in 1..n, g[u].op = "BodyArg"
      PROVE  g[u].ins[1] \in 1..(u - 1) /\ h[g[u].ins[1]] = f[g[u].ins[1]]
  <2>1. u \in DOMAIN g
    BY <1>1, <1>3, <1>8
  <2>2. Fits(g, g[u], u - 1)
    BY <1>8, <2>1, ValueFacts
  <2>3. PICK a \in 1..(u - 1) : g[u].ins = <<a>>
    BY <1>8, <2>2, FitsOf DEF FitsCopy
  <2>4. g[u].ins[1] = a /\ a \in 1..n /\ a # n
    BY <1>3, <1>8, <2>3
  <2>5. QED BY <2>3, <2>4
<1>9. \A u \in 1..n : h[u] = IF g[u].op = "BodyArg" THEN h[g[u].ins[1]] ELSE u
  <2> SUFFICES ASSUME NEW u \in 1..n
               PROVE  h[u] = IF g[u].op = "BodyArg" THEN h[g[u].ins[1]] ELSE u
    OBVIOUS
  <2>1. CASE u = n
    BY <1>8, <2>1
  <2>2. CASE u # n
    <3>1. u \in 1..(n - 1) /\ h[u] = f[u]
      BY <1>3, <2>2
    <3>2. f[u] = IF g[u].op = "BodyArg" THEN f[g[u].ins[1]] ELSE u
      BY <1>7, <3>1
    <3> HIDE DEF h
    <3>3. QED BY <1>8, <3>1, <3>2
  <2>3. QED BY <2>1, <2>2
<1>10. h = [u \in 1..n |-> h[u]]
  OBVIOUS
<1> HIDE DEF h
<1>11. IsSource(g, n, h)
  BY <1>9, <1>10 DEF IsSource
<1>12. QED BY <1>3, <1>11

\* u feeds v: it is no argument of a body and has the shape of v.
Feeds(g, R, u, v) ==
  /\ u \in DOMAIN g /\ g[u].op # "BodyArg" /\ RankOf(g, u) = RankOf(g, v)
  /\ \A r \in R : r[u] = r[v]
  /\ g[v].op # "BodyArg" => u = v

(* resolveThroughFusedOp returns the value that feeds the body.            *)
LEMMA ResolveSound ==
  ASSUME ModelOK(graph, runs), NEW v \in DOMAIN graph
  PROVE  Feeds(graph, runs, Resolve(v), v)
<1> DEFINE s == FusedSource(graph)
<1>1. Len(graph) \in Nat /\ DOMAIN graph = 1..Len(graph)
  BY AppendSeq DEF ModelOK
<1>2. IsSource(graph, Len(graph), s)
  <2> DEFINE h == CHOOSE f : IsSource(graph, Len(graph), f)
  <2>1. IsSource(graph, Len(graph), h)
    BY SourceExists
  <2>2. s = h
    BY <1>1 DEF FusedSource, IsSource
  <2>3. QED BY <2>1, <2>2
<1> HIDE DEF s
<1>3. \A u \in DOMAIN graph : s[u] = IF graph[u].op = "BodyArg" THEN s[graph[u].ins[1]] ELSE u
  BY <1>1, <1>2 DEF IsSource
<1> DEFINE bad == {u \in DOMAIN graph : ~Feeds(graph, runs, s[u], u)}
<1>4. ASSUME bad # {} PROVE FALSE
  <2>1. bad \in SUBSET Nat
    BY <1>1
  <2>2. PICK u \in bad : \A w \in bad : u <= w
    <3> HIDE DEF bad
    <3>1. QED BY <1>4, <2>1, LeastNumber
  <2>3. u \in DOMAIN graph /\ ~Feeds(graph, runs, s[u], u)
    OBVIOUS
  <2>4. graph[u].op = "BodyArg"
    BY <1>3, <2>3 DEF Feeds
  <2>5. Fits(graph, graph[u], u - 1) /\ Ranked(graph, u) /\ u \in Nat
    BY <2>3, <2>4, ValueFacts
  <2>6. PICK a \in 1..(u - 1) : graph[u].ins = <<a>>
    BY <2>4, <2>5, FitsOf DEF FitsCopy
  <2>7. a \in DOMAIN graph /\ graph[u].ins[1] = a /\ ~(u <= a)
    BY <1>1, <2>3, <2>5, <2>6
  <2>8. Feeds(graph, runs, s[a], a)
    BY <2>2, <2>7
  <2>9. RankOf(graph, a) = RankOf(graph, u)
    BY <2>4, <2>5, <2>7 DEF Ranked
  <2>10. ASSUME NEW r \in runs PROVE r[u] = r[a]
    <3>1. r[u] \in RunShapes(graph[u], r)
      BY <2>3, <2>4, <2>10, RunFacts
    <3>2. RunShapes(graph[u], r) = {r[a]}
      BY <2>4, <2>6, CopyForm
    <3>3. QED BY <3>1, <3>2
  <2>11. s[u] = s[a]
    BY <1>3, <2>3, <2>4, <2>7
  <2>12. Feeds(graph, runs, s[u], u)
    BY <2>4, <2>8, <2>9, <2>10, <2>11 DEF Feeds
  <2>13. QED BY <2>3, <2>12
<1>5. QED BY <1>4 DEF Resolve, s

(* A result of a fused operation has the shape of what it returns.         *)
LEMMA FusedSound ==
  ASSUME ModelOK(graph, runs), NEW v \in DOMAIN graph,
         graph[v].op \in {"AddScalar", "BodyArg", "FusedResult"}
  PROVE  /\ graph[v].ins[1] \in DOMAIN graph /\ RankOf(graph, graph[v].ins[1]) = RankOf(graph, v)
         /\ \A r \in runs : r[graph[v].ins[1]] = r[v]
         /\ graph[v].op = "AddScalar" => graph[v].scalar = 0
<1>1. /\ Fits(graph, graph[v], v - 1) /\ Ranked(graph, v) /\ v \in Nat
      /\ Len(graph) \in Nat /\ DOMAIN graph = 1..Len(graph)
  BY ValueFacts
<1>2. PICK a \in 1..(v - 1) : graph[v].ins = <<a>>
  BY <1>1, FitsOf DEF FitsCopy
<1>3. graph[v].ins[1] = a /\ a \in DOMAIN graph
  BY <1>1, <1>2
<1>4. graph[v].op = "AddScalar" => graph[v].scalar = 0
  BY <1>1, FitsOf DEF FitsCopy
<1>5. ASSUME NEW r \in runs PROVE r[v] = r[a]
  <2>1. r[v] \in RunShapes(graph[v], r)
    BY RunFacts
  <2>2. RunShapes(graph[v], r) = {r[a]}
    BY <1>2, CopyForm
  <2>3. QED BY <2>1, <2>2
<1>6. QED BY <1>1, <1>3, <1>4, <1>5 DEF Ranked

(* visitDim: all that a visit finds has the size of the dim visited.       *)
LEMMA VisitSound ==
  ASSUME ModelOK(graph, runs), SetsOK(graph, runs, sets), NEW d, DimOK(graph, d)
  PROVE  Found(graph, runs, d, VisitDim(d))
<1> DEFINE v == d[1]
           i == d[2]
           consumers == FromConsumers(v, i)
           producer == CASE graph[v].op = "Arg" -> {}
             [] graph[v].op = "BodyArg" -> InsertDimWhenUseful(Resolve(v), i)
             [] graph[v].op = "FusedResult" -> InsertDimWhenUseful(graph[v].ins[1], i)
             [] OTHER -> FromShapeHelper(v, i) \cup FromShapeInput(v, i) \cup FromEqualOperands(v, i)
                         \cup FromReshape(v, i) \cup FromRange(v)
<1>1. v \in DOMAIN graph /\ i \in 1..RankOf(graph, v)
  BY DEF DimOK
<1>2. VisitDim(d) = IF d[3] = "dim" THEN InsertDimWhenUseful(v, i) ELSE consumers \cup producer
  BY DEF VisitDim
<1>3. Found(graph, runs, d, InsertDimWhenUseful(v, i))
  BY <1>1, UsefulFound DEF SizeIn
<1>4. Found(graph, runs, d, consumers)
  BY ConsumersSound
<1>5. Found(graph, runs, d, producer)
  <2>1. CASE graph[v].op = "Arg"
    <3>1. producer = {}
      BY <2>1
    <3>2. QED BY <3>1 DEF Found
  <2>2. CASE graph[v].op = "BodyArg"
    <3>1. producer = InsertDimWhenUseful(Resolve(v), i)
      BY <2>2
    <3>2. Feeds(graph, runs, Resolve(v), v)
      BY <1>1, ResolveSound
    <3>3. Resolve(v) \in DOMAIN graph /\ i \in 1..RankOf(graph, Resolve(v))
      BY <1>1, <3>2 DEF Feeds
    <3>4. \A r \in runs : SizeIn(r, d) = r[Resolve(v)][i]
      BY <3>2 DEF Feeds, SizeIn
    <3>5. Found(graph, runs, d, InsertDimWhenUseful(Resolve(v), i))
      BY <3>3, <3>4, UsefulFound
    <3>6. QED BY <3>1, <3>5
  <2>3. CASE graph[v].op = "FusedResult"
    <3> DEFINE a == graph[v].ins[1]
    <3>1. producer = InsertDimWhenUseful(a, i)
      BY <2>3
    <3>2. /\ a \in DOMAIN graph /\ RankOf(graph, a) = RankOf(graph, v)
          /\ \A r \in runs : r[a] = r[v]
      BY <1>1, <2>3, FusedSound
    <3> HIDE DEF a
    <3>3. \A r \in runs : SizeIn(r, d) = r[a][i]
      BY <3>2 DEF SizeIn
    <3>4. Found(graph, runs, d, InsertDimWhenUseful(a, i))
      BY <1>1, <3>2, <3>3, UsefulFound
    <3>5. QED BY <3>1, <3>4
  <2>4. CASE graph[v].op \notin {"Arg", "BodyArg", "FusedResult"}
    <3>1. producer = FromShapeHelper(v, i) \cup FromShapeInput(v, i) \cup FromEqualOperands(v, i)
                     \cup FromReshape(v, i) \cup FromRange(v)
      BY <2>4
    <3>2. /\ Found(graph, runs, d, FromShapeHelper(v, i))
          /\ Found(graph, runs, d, FromShapeInput(v, i))
          /\ Found(graph, runs, d, FromEqualOperands(v, i))
          /\ Found(graph, runs, d, FromReshape(v, i))
          /\ Found(graph, runs, d, FromRange(v))
      BY <2>4, HelperSound, ShapeInputSound, EqualOperandsSound, ReshapeSound, RangeSound
    <3> HIDE DEF producer
    <3>3. QED BY <3>1, <3>2 DEF Found
  <2>5. QED BY <2>1, <2>2, <2>3, <2>4
<1> HIDE DEF consumers, producer
<1>6. QED BY <1>2, <1>3, <1>4, <1>5 DEF Found
-----------------------------------------------------------------------------
\* A relation has a target in a set, and is true of a dim that can be in one.
RelationOK(g, R, C, q) ==
  /\ q.target \in UNION C /\ q.offset \in Nat
  /\ Kept(g, q.dim[1], q.dim[2]) =>
       \A r \in R : SizeIn(r, q.dim) + q.offset = SizeIn(r, q.target)
RelationsOK(g, R, C, Q) == \A q \in Q : RelationOK(g, R, C, q)
-----------------------------------------------------------------------------
(* A relation to dim i of v.                                               *)
LEMMA RelationFields ==
  ASSUME NEW v, NEW i, NEW k, NEW d
  PROVE  LET q == Relation(<<v, i, "tensor">>, k, d) IN
         /\ q.dim[1] = v /\ q.dim[2] = i /\ q.offset = k /\ q.target = d
         /\ \A r : SizeIn(r, q.dim) = r[v][i]
BY DEF Relation, SizeIn

(* A relation whose sizes are known.                                       *)
LEMMA RelationTrue ==
  ASSUME NEW R, NEW g, NEW C, NEW v, NEW i, NEW k \in Nat, NEW d \in UNION C,
         Kept(g, v, i) => \A r \in R : r[v][i] + k = SizeIn(r, d)
  PROVE  RelationOK(g, R, C, Relation(<<v, i, "tensor">>, k, d))
<1> DEFINE q == Relation(<<v, i, "tensor">>, k, d)
<1>1. /\ q.dim[1] = v /\ q.dim[2] = i /\ q.offset = k /\ q.target = d
      /\ \A r : SizeIn(r, q.dim) = r[v][i]
  BY RelationFields
<1> HIDE DEF q
<1>2. RelationOK(g, R, C, q)
  BY <1>1 DEF RelationOK
<1>3. QED BY <1>2 DEF q

(* ONNXDimOp of the first axis: the dims of size 1 that it is related to are
   in no set.                                                              *)
LEMMA DimOpSound ==
  ASSUME ModelOK(graph, runs), NEW C, NEW d \in UNION C, DimOK(graph, d), d[3] = "dim",
         NEW q \in SameAsDimOp(d)
  PROVE  RelationOK(graph, runs, C, q)
<1>1. PICK j \in 1..Rank(d[1]) :
        d[2] = 1 /\ IsLit(Type(d[1])[j], 1) /\ q = Relation(<<d[1], j, "tensor">>, 0, d)
  BY DEF SameAsDimOp
<1>2. NotMistaken(graph, d[1], d[2])
  BY DEF DimOK
<1>3. j \in 1..RankOf(graph, d[1]) /\ IsLit(graph[d[1]].type[j], 1)
  BY <1>1 DEF Rank, RankOf, Type
<1>4. ~Kept(graph, d[1], j)
  BY <1>1, <1>2, <1>3 DEF NotMistaken, Kept, IsLit
<1>5. QED BY <1>1, <1>4, RelationTrue

\* What an operand adds to the length of a Concat, as far as it is known.
Share(w, axis) == IF Dynamic(w, axis) THEN 0 ELSE Type(w)[axis].val

(* The static part of the length of a Concat of two.                       *)
LEMMA StaticTotalOfTwo ==
  ASSUME NEW n, NEW a, NEW b, n.ins = <<a, b>>, NEW axis, Share(a, axis) \in Nat, Share(b, axis) \in Nat
  PROVE  StaticTotal(n, axis) = Share(a, axis) + Share(b, axis)
<1> DEFINE P(f) == f = [j \in 0..Len(n.ins) |->
                          IF j = 0 THEN 0 ELSE f[j - 1] + Share(n.ins[j], axis)]
           h == CHOOSE f : P(f)
           one == Share(a, axis)
           two == Share(a, axis) + Share(b, axis)
           g == [j \in 0..2 |-> IF j = 0 THEN 0 ELSE IF j = 1 THEN one ELSE two]
<1>0. Len(n.ins) = 2 /\ n.ins[1] = a /\ n.ins[2] = b
  OBVIOUS
<1>1. StaticTotal(n, axis) = h[Len(n.ins)]
  BY DEF StaticTotal, Share
<1>2. g[0] = 0 /\ g[1] = one /\ g[2] = two
  OBVIOUS
<1>3. P(g)
  <2>1. \A j \in 0..2 : g[j] = IF j = 0 THEN 0 ELSE g[j - 1] + Share(n.ins[j], axis)
    <3>1. g[1] = g[0] + Share(n.ins[1], axis)
      BY <1>0, <1>2
    <3>2. g[2] = g[1] + Share(n.ins[2], axis)
      BY <1>0, <1>2
    <3>3. QED BY <1>2, <3>1, <3>2
  <2>2. QED BY <1>0, <2>1
<1>4. P(h)
  BY <1>3
<1> HIDE DEF h, g
<1>5. h[0] = 0 /\ h[1] = h[0] + Share(n.ins[1], axis) /\ h[2] = h[1] + Share(n.ins[2], axis)
  BY <1>0, <1>4
<1>6. QED BY <1>0, <1>1, <1>5

(* A Concat with one dynamic operand: its length is longer than that one by
   what the other has.                                                     *)
LEMMA ConcatOffsetSound ==
  ASSUME ModelOK(graph, runs), NEW v \in DOMAIN graph, graph[v].op = "Concat",
         NEW C, NEW d \in UNION C, \A r \in runs : SizeIn(r, d) = r[v][graph[v].axis],
         NEW q \in ConcatOffset(graph[v], graph[v].axis, d)
  PROVE  RelationOK(graph, runs, C, q)
<1> DEFINE n == graph[v]
           axis == n.axis
           total == StaticTotal(n, axis)
           dynamic == {j \in DOMAIN n.ins : Dynamic(n.ins[j], axis)}
<1>1. Fits(graph, n, v - 1)
  BY ValueFacts
<1>2. PICK a, b \in 1..(v - 1) :
        n.ins = <<a, b>> /\ RankOf(graph, a) = RankOf(graph, b) /\ axis \in 1..RankOf(graph, a)
  BY <1>1, FitsOf DEF FitsConcat
<1>3. /\ a \in DOMAIN graph /\ b \in DOMAIN graph /\ n.ins[1] = a /\ n.ins[2] = b
      /\ DOMAIN n.ins = 1..2
  BY <1>2, TwoOperands
<1>4. axis \in 1..RankOf(graph, a) /\ axis \in 1..RankOf(graph, b)
  BY <1>2
<1>5. ASSUME NEW w \in {a, b} PROVE /\ Share(w, axis) \in Nat
                                    /\ \A r \in runs : /\ r[w][axis] \in Nat
                                                       /\ ~Dynamic(w, axis) => r[w][axis] = Share(w, axis)
  <2>1. w \in DOMAIN graph /\ axis \in 1..RankOf(graph, w)
    BY <1>3, <1>4, <1>5
  <2>2. IsDim(graph[w].type[axis])
    BY <2>1, ValueFacts
  <2>3. \A r \in runs : r[w][axis] \in Nat /\ (graph[w].type[axis].lit => r[w][axis] = graph[w].type[axis].val)
    BY <2>1, RunFacts
  <2>4. QED BY <2>2, <2>3 DEF Share, Dynamic, Type, IsDim
<1>6. total = Share(a, axis) + Share(b, axis)
  BY <1>2, <1>5, StaticTotalOfTwo
<1>7. PICK j \in dynamic :
        Cardinality(dynamic) = 1 /\ q = Relation(<<n.ins[j], axis, "tensor">>, total, d)
  BY DEF ConcatOffset
<1>8. dynamic \subseteq 1..2 /\ \A k \in 1..2 : k \in dynamic <=> Dynamic(n.ins[k], axis)
  BY <1>3
<1> HIDE DEF dynamic, total
<1>9. PICK k \in 1..2 : k # j
  <2>1. 1 \in 1..2 /\ 2 \in 1..2 /\ 1 # 2
    OBVIOUS
  <2>2. QED BY <2>1
<1>10. k \notin dynamic
  <2>1. Cardinality(dynamic) = IF k \in dynamic THEN 2 ELSE 1
    BY <1>8, <1>9, CountOfTwo
  <2>2. (IF k \in dynamic THEN 2 ELSE 1) = 1
    BY <1>7, <2>1
  <2>3. QED BY <2>2
<1>11. ASSUME NEW r \in runs PROVE r[v][axis] = r[a][axis] + r[b][axis]
  <2>1. r[v] \in RunShapes(n, r)
    BY RunFacts
  <2>2. RunShapes(n, r) = IF AgreeElsewhere(r[a], r[b], axis) THEN {Joined(r[a], r[b], axis)} ELSE {}
    BY <1>2, ConcatForm
  <2>3. r[v] = Joined(r[a], r[b], axis)
    BY <2>1, <2>2
  <2>4. DOMAIN r[a] = 1..RankOf(graph, a)
    BY <1>3, RunFacts
  <2>5. QED BY <1>4, <2>3, <2>4 DEF Joined
<1>12. j \in 1..2
  BY <1>8
<1>13. CASE j = 1 /\ k = 2
  <2>1. Dynamic(a, axis) /\ ~Dynamic(b, axis)
    BY <1>3, <1>7, <1>8, <1>9, <1>10, <1>13
  <2>2. total = Share(b, axis) /\ total \in Nat
    BY <1>5, <1>6, <2>1 DEF Share
  <2>3. \A r \in runs : r[a][axis] + total = SizeIn(r, d)
    BY <1>5, <1>11, <2>1, <2>2
  <2>4. q = Relation(<<a, axis, "tensor">>, total, d)
    BY <1>3, <1>7, <1>13
  <2>5. QED BY <2>2, <2>3, <2>4, RelationTrue
<1>14. CASE j = 2 /\ k = 1
  <2>1. Dynamic(b, axis) /\ ~Dynamic(a, axis)
    BY <1>3, <1>7, <1>8, <1>9, <1>10, <1>14
  <2>2. total = Share(a, axis) /\ total \in Nat
    BY <1>5, <1>6, <2>1 DEF Share
  <2>3. \A r \in runs : r[b][axis] + total = SizeIn(r, d)
    BY <1>5, <1>11, <2>1, <2>2
  <2>4. q = Relation(<<b, axis, "tensor">>, total, d)
    BY <1>3, <1>7, <1>14
  <2>5. QED BY <2>2, <2>3, <2>4, RelationTrue
<1>15. QED BY <1>9, <1>12, <1>13, <1>14, TwoAxes
-----------------------------------------------------------------------------
(* visitDimForOffsets: the relations it finds are true.                    *)
LEMMA OffsetSound ==
  ASSUME ModelOK(graph, runs), SetsOK(graph, runs, sets), NEW d \in UNION sets,
         NEW q \in VisitDimForOffsets(d)
  PROVE  RelationOK(graph, runs, sets, q)
<1> DEFINE v == Resolve(d[1])
           i == d[2]
           n == graph[v]
<1>1. DimOK(graph, d)
  BY DEF SetsOK, SetOK, Found
<1>2. d[1] \in DOMAIN graph /\ i \in 1..RankOf(graph, d[1])
  BY <1>1 DEF DimOK
<1>3. Feeds(graph, runs, v, d[1])
  BY <1>2, ResolveSound
<1>4. /\ v \in DOMAIN graph /\ i \in 1..RankOf(graph, v) /\ n.op # "BodyArg"
      /\ \A r \in runs : SizeIn(r, d) = r[v][i]
  BY <1>2, <1>3 DEF Feeds, SizeIn
<1>5. \/ d[3] = "dim" /\ q \in SameAsDimOp(d)
      \/ n.op = "AddScalar" /\ q = Relation(<<n.ins[1], i, "tensor">>, n.scalar, d)
      \/ n.op = "Concat" /\ i = n.axis /\ q \in ConcatOffset(n, i, d)
      \/ /\ n.op = "Expand" /\ ~n.shape[i].lit
         /\ q = Relation(<<n.shape[i].val[1], n.shape[i].val[2], "tensor">>, n.shape[i].plus, d)
      \/ n.op # "Arg" /\ q \in SameAsOperand(v, i, d)
  <2> HIDE DEF v, i, n
  <2>1. q \in CASE d[3] = "dim" -> SameAsDimOp(d)
                [] d[3] # "dim" /\ n.op = "Arg" -> {}
                [] d[3] # "dim" /\ n.op = "AddScalar" -> {Relation(<<n.ins[1], i, "tensor">>, n.scalar, d)}
                [] d[3] # "dim" /\ n.op = "Concat" /\ i = n.axis -> ConcatOffset(n, i, d)
                [] d[3] # "dim" /\ n.op = "Expand" ->
                     IF n.shape[i].lit \/ n.shape[i].plus = 0 THEN {}
                     ELSE {Relation(<<n.shape[i].val[1], n.shape[i].val[2], "tensor">>, n.shape[i].plus, d)}
                [] OTHER -> SameAsOperand(v, i, d)
    BY DEF VisitDimForOffsets, v, i, n
  <2>2. QED BY <2>1
<1> HIDE DEF v, i
<1>6. CASE d[3] = "dim" /\ q \in SameAsDimOp(d)
  BY <1>1, <1>6, DimOpSound
<1>7. CASE n.op = "AddScalar" /\ q = Relation(<<n.ins[1], i, "tensor">>, n.scalar, d)
  <2> DEFINE a == n.ins[1]
  <2>1. /\ a \in DOMAIN graph /\ RankOf(graph, a) = RankOf(graph, v)
        /\ \A r \in runs : r[a] = r[v]
        /\ n.scalar = 0
    BY <1>4, <1>7, FusedSound
  <2>2. q = Relation(<<a, i, "tensor">>, 0, d)
    BY <1>7, <2>1
  <2> HIDE DEF a
  <2>3. ASSUME NEW r \in runs PROVE r[a][i] + 0 = SizeIn(r, d)
    <3>1. r[a][i] = SizeIn(r, d)
      BY <1>4, <2>1
    <3>2. r[a][i] \in Nat
      BY <1>4, <2>1, RunFacts
    <3>3. QED BY <3>1, <3>2
  <2>4. QED BY <2>2, <2>3, RelationTrue
<1>8. CASE n.op = "Concat" /\ i = n.axis /\ q \in ConcatOffset(n, i, d)
  BY <1>4, <1>8, ConcatOffsetSound
<1>9. CASE /\ n.op = "Expand" /\ ~n.shape[i].lit
           /\ q = Relation(<<n.shape[i].val[1], n.shape[i].val[2], "tensor">>, n.shape[i].plus, d)
  <2>1. i = 1
    <3>1. RankOf(graph, v) = 2 /\ n.shape[2].lit
      BY <1>4, <1>9, ShapeOperand
    <3>2. QED BY <1>4, <1>9, <3>1
  <2>2. PICK w, k, c : MadeOf(graph, runs, v, n.shape[1], w, k, c)
    BY <1>4, <1>9, <2>1, ShapeOperand
  <2>3. n.shape[1] = Element(w, k, c) /\ c \in Nat /\ \A r \in runs : r[v][1] = r[w][k] + c
    BY <2>2 DEF MadeOf
  <2>4. n.shape[1].val[1] = w /\ n.shape[1].val[2] = k /\ n.shape[1].plus = c
    BY <2>3, ElementForm
  <2>5. q = Relation(<<w, k, "tensor">>, c, d)
    BY <1>9, <2>1, <2>4
  <2>6. \A r \in runs : r[w][k] + c = SizeIn(r, d)
    BY <1>4, <2>1, <2>3
  <2>7. QED BY <2>3, <2>5, <2>6, RelationTrue
<1>10. CASE n.op # "Arg" /\ q \in SameAsOperand(v, i, d)
  <2>0. PICK w \in Operands(v) :
          \E k \in 1..Rank(w) : SameDim(w, k, v, i) /\ q = Relation(<<w, k, "tensor">>, 0, d)
    BY <1>10 DEF SameAsOperand
  <2>1. PICK k \in 1..Rank(w) : SameDim(w, k, v, i) /\ q = Relation(<<w, k, "tensor">>, 0, d)
    BY <2>0
  <2>2. w \in DOMAIN graph
    <3>1. /\ Fits(graph, n, v - 1) /\ v - 1 \in Nat /\ v \in Nat
          /\ DOMAIN graph = 1..Len(graph) /\ Len(graph) \in Nat
      BY <1>4, <1>10, ValueFacts
    <3>2. CASE n.op # "FusedResult"
      <4>1. w \in 1..(v - 1)
        BY <2>1, <3>1, <3>2, OperandsBefore DEF Operands
      <4>2. QED BY <1>4, <3>1, <4>1
    <3>3. CASE n.op = "FusedResult"
      <4>1. PICK u \in 1..(v - 1) : graph[u].op = "BodyArg" /\ w \in Range(graph[u].ins)
        BY <2>0, <3>3 DEF Operands
      <4>2. u \in DOMAIN graph
        BY <1>4, <3>1, <4>1
      <4>3. Fits(graph, graph[u], u - 1) /\ u - 1 \in Nat /\ u \in Nat
        BY <4>1, <4>2, ValueFacts
      <4>4. w \in 1..(u - 1)
        BY <4>1, <4>3, OperandsBefore
      <4>5. QED BY <3>1, <4>2, <4>3, <4>4
    <3>4. QED BY <3>2, <3>3
  <2>3. k \in 1..RankOf(graph, w) /\ \A r \in runs : r[w][k] = r[v][i]
    BY <1>4, <2>1, <2>2, SameDimSound
  <2>4. ASSUME NEW r \in runs PROVE r[w][k] + 0 = SizeIn(r, d)
    <3>1. r[w][k] \in Nat
      BY <2>2, <2>3, RunFacts
    <3>2. QED BY <1>4, <2>3, <3>1
  <2>5. QED BY <2>1, <2>4, RelationTrue
<1>11. QED BY <1>5, <1>6, <1>7, <1>8, <1>9, <1>10
-----------------------------------------------------------------------------
(* The sizes of dims are compared in every run.                            *)
LEMMA SameSizes ==
  ASSUME NEW R, NEW d, NEW e, NEW f
  PROVE  /\ SameSize(R, d, d)
         /\ SameSize(R, d, e) => SameSize(R, e, d)
         /\ SameSize(R, d, e) /\ SameSize(R, e, f) => SameSize(R, d, f)
BY DEF SameSize

(* build: a dim of an argument has the size of those of its dim_param.     *)
LEMMA BuiltOK ==
  ASSUME ModelOK(graph, runs)
  PROVE  SetsOK(graph, runs, BuiltSets)
<1> DEFINE dims == {<<d[1], d[2], "tensor">> : d \in DynamicDims}
           named == {d \in dims : d[2] \in Named(d[1])}
           group(d) == {e \in named : graph[e[1]].params[e[2]] = graph[d[1]].params[d[2]]}
<1>1. BuiltSets = {{d} : d \in dims \ named} \cup {group(d) : d \in named}
  BY DEF BuiltSets
<1>2. ASSUME NEW d \in dims PROVE DimOK(graph, d)
  <2>1. PICK c \in DynamicDims : d = <<c[1], c[2], "tensor">>
    BY <1>2
  <2>2. d[1] = c[1] /\ d[2] = c[2] /\ d[3] = "tensor"
    BY <2>1
  <2>3. /\ c[1] \in DOMAIN graph /\ c[2] \in 1..3 /\ c[2] <= RankOf(graph, c[1])
        /\ ~graph[c[1]].type[c[2]].lit
    BY <2>1 DEF DynamicDims, Rank, RankOf, Dynamic, Type
  <2>4. c[2] \in 1..RankOf(graph, c[1])
    BY <2>3, ValueFacts
  <2>5. QED BY <2>2, <2>3, <2>4 DEF DimOK, Kept
<1>3. ASSUME NEW d \in dims PROVE SetOK(graph, runs, {d})
  BY <1>2, <1>3, SameSizes DEF SetOK, Found
<1>4. ASSUME NEW d \in named, NEW e \in named, NEW f \in named, e \in group(d), f \in group(d)
      PROVE  SameSize(runs, e, f)
  <2> SUFFICES ASSUME NEW r \in runs PROVE SizeIn(r, e) = SizeIn(r, f)
    BY DEF SameSize
  <2>1. ParamsHold(graph, r)
    BY DEF ModelOK, RunOK
  <2>2. ASSUME NEW x \in named
        PROVE  /\ x[1] \in DOMAIN graph /\ x[2] \in 1..RankOf(graph, x[1]) /\ graph[x[1]].op = "Arg"
               /\ graph[x[1]].params[x[2]] # NoParam
    BY <1>2, <2>2 DEF Named, DimOK
  <2>3. graph[e[1]].params[e[2]] = graph[f[1]].params[f[2]]
    BY <1>4
  <2> HIDE DEF named
  <2>4. r[e[1]][e[2]] = r[f[1]][f[2]]
    BY <2>1, <2>2, <2>3 DEF ParamsHold
  <2>5. QED BY <2>4 DEF SizeIn
<1>5. ASSUME NEW d \in named PROVE SetOK(graph, runs, group(d))
  <2>1. group(d) \subseteq named /\ named \subseteq dims
    OBVIOUS
  <2> HIDE DEF dims, named, group
  <2>2. QED BY <1>2, <1>4, <1>5, <2>1 DEF SetOK, Found
<1> HIDE DEF dims, named, group
<1>6. QED BY <1>1, <1>3, <1>5 DEF SetsOK

(* A visit adds to a set dims of the size of its dims.                     *)
LEMMA UpdateOK ==
  ASSUME ModelOK(graph, runs), SetsOK(graph, runs, sets), NEW S \in sets
  PROVE  SetOK(graph, runs, S \cup UNION {VisitDim(d) : d \in S})
<1> DEFINE T == S \cup UNION {VisitDim(d) : d \in S}
<1>1. SetOK(graph, runs, S)
  BY DEF SetsOK
<1>2. \A d \in S : DimOK(graph, d) /\ \A e \in S : SameSize(runs, d, e)
  BY <1>1 DEF SetOK, Found
<1>3. \A d \in S : \A e \in VisitDim(d) : DimOK(graph, e) /\ SameSize(runs, d, e)
  <2> SUFFICES ASSUME NEW d \in S PROVE \A e \in VisitDim(d) : DimOK(graph, e) /\ SameSize(runs, d, e)
    OBVIOUS
  <2>1. Found(graph, runs, d, VisitDim(d))
    BY <1>2, VisitSound
  <2>2. QED BY <2>1 DEF Found
<1>4. \A e \in T : DimOK(graph, e) /\ \E d \in S : SameSize(runs, d, e)
  BY <1>2, <1>3, SameSizes
<1> HIDE DEF T
<1>5. ASSUME NEW e \in T, NEW f \in T PROVE SameSize(runs, e, f)
  <2>1. PICK d \in S : SameSize(runs, d, e)
    BY <1>4
  <2>2. PICK c \in S : SameSize(runs, c, f)
    BY <1>4
  <2>3. SameSize(runs, e, d) /\ SameSize(runs, d, c)
    BY <1>2, <2>1, SameSizes
  <2>4. SameSize(runs, e, c)
    BY <2>3, SameSizes
  <2>5. QED BY <2>2, <2>4, SameSizes
<1>6. SetOK(graph, runs, T)
  BY <1>4, <1>5 DEF SetOK, Found
<1>7. QED BY <1>6 DEF T
-----------------------------------------------------------------------------
Disjoint(S) == \A s, t \in S : s # t => s \cap t = {}

\* All that a visit of a dim of S would find is in S.
Complete(S) == \A d \in S : VisitDim(d) \subseteq S

\* While a pass has changed no set the sets have no dim in common, and those
\* it has visited are complete.
SearchInv ==
  /\ updated \in BOOLEAN
  /\ phase = "build" => updated = FALSE
  /\ phase = "update" => pending \subseteq sets
  /\ phase = "update" /\ ~updated =>
       Disjoint(sets) /\ \A S \in sets \ pending : Complete(S)
  /\ phase = "offsets" => Disjoint(sets) /\ \A S \in sets : Complete(S)
-----------------------------------------------------------------------------
(* A collection that is apart and has s contains the chain of s, and the
   chain is such a collection.                                             *)
LEMMA ChainedApart ==
  ASSUME NEW S, NEW s \in S
  PROVE  /\ Chained(s, S) \subseteq S
         /\ s \in Chained(s, S)
         /\ Apart(Chained(s, S), S)
<1>1. Chained(s, S) \subseteq S /\ s \in Chained(s, S)
  BY DEF Chained
<1>2. ASSUME NEW t \in Chained(s, S), NEW u \in S \ Chained(s, S)
      PROVE  t \cap u = {}
  <2>1. PICK sep \in SUBSET S : s \in sep /\ Apart(sep, S) /\ u \notin sep
    BY <1>2 DEF Chained
  <2>2. t \in sep
    BY <1>2, <2>1 DEF Chained
  <2>3. QED BY <1>2, <2>1, <2>2 DEF Apart
<1>3. QED BY <1>1, <1>2 DEF Apart

(* Whoever is in the chain of s has s in its chain.                        *)
LEMMA ChainedBack ==
  ASSUME NEW S, NEW s \in S, NEW t \in Chained(s, S)
  PROVE  s \in Chained(t, S)
<1> DEFINE sep == Chained(s, S) \ Chained(t, S)
<1>0. t \in S
  BY ChainedApart
<1>1. SUFFICES ASSUME s \notin Chained(t, S) PROVE FALSE
  OBVIOUS
<1>2. s \in sep /\ sep \in SUBSET S
  BY <1>1, ChainedApart
<1>3. Apart(sep, S)
  <2> SUFFICES ASSUME NEW u \in sep, NEW w \in S \ sep PROVE u \cap w = {}
    BY DEF Apart
  <2>1. CASE w \notin Chained(s, S)
    BY <2>1, ChainedApart DEF Apart
  <2>2. CASE w \in Chained(t, S)
    <3>1. u \in S \ Chained(t, S)
      BY <1>2
    <3>2. w \cap u = {}
      BY <1>0, <2>2, <3>1, ChainedApart DEF Apart
    <3>3. QED BY <3>2
  <2>3. QED BY <2>1, <2>2
<1>4. t \in sep
  BY <1>2, <1>3 DEF Chained
<1>5. t \in Chained(t, S)
  BY <1>0, ChainedApart
<1>6. QED BY <1>4, <1>5

(* Chains that meet are the same.                                          *)
LEMMA ChainedSame ==
  ASSUME NEW S, NEW s \in S, NEW t \in Chained(s, S)
  PROVE  Chained(s, S) = Chained(t, S)
<1>1. \A a, b \in S : b \in Chained(a, S) => Chained(b, S) \subseteq Chained(a, S)
  <2> SUFFICES ASSUME NEW a \in S, NEW b \in S, b \in Chained(a, S)
               PROVE  Chained(b, S) \subseteq Chained(a, S)
    OBVIOUS
  <2>1. Chained(a, S) \in SUBSET S /\ Apart(Chained(a, S), S)
    BY ChainedApart
  <2>2. \A sep \in SUBSET S : b \in sep /\ Apart(sep, S) => Chained(b, S) \subseteq sep
    BY DEF Chained
  <2>3. QED BY <2>1, <2>2
<1>2. t \in S /\ s \in Chained(t, S)
  BY ChainedApart, ChainedBack
<1>3. QED BY <1>1, <1>2

(* mergeDimSets leaves no two sets with a common dim, and loses no dim.    *)
LEMMA MergedDisjoint ==
  ASSUME NEW S
  PROVE  Disjoint(Merged(S)) /\ UNION Merged(S) = UNION S
<1>1. Disjoint(Merged(S))
  <2> SUFFICES ASSUME NEW a \in Merged(S), NEW b \in Merged(S), a \cap b # {}
               PROVE  a = b
    BY DEF Disjoint
  <2>0. PICK d : d \in a /\ d \in b
    OBVIOUS
  <2>1. PICK s \in S : a = UNION Chained(s, S)
    BY DEF Merged
  <2>2. PICK t \in S : b = UNION Chained(t, S)
    BY DEF Merged
  <2>3. PICK u \in Chained(s, S) : d \in u
    BY <2>0, <2>1
  <2>4. PICK w \in Chained(t, S) : d \in w
    BY <2>0, <2>2
  <2>5. u \in S /\ w \in S
    BY <2>3, <2>4, ChainedApart
  <2>6. w \in Chained(s, S)
    BY <2>3, <2>4, <2>5, ChainedApart DEF Apart
  <2>7. Chained(s, S) = Chained(w, S) /\ Chained(t, S) = Chained(w, S)
    BY <2>4, <2>6, ChainedSame
  <2>8. QED BY <2>1, <2>2, <2>7
<1>2. \A s \in S : Chained(s, S) \subseteq S /\ s \in Chained(s, S)
  BY ChainedApart
<1>3. QED BY <1>1, <1>2 DEF Merged

(* build: a dim is alone, or with those of the same dim_param.             *)
LEMMA BuiltDisjoint == Disjoint(BuiltSets)
<1> DEFINE dims == {<<d[1], d[2], "tensor">> : d \in DynamicDims}
           named == {d \in dims : d[2] \in Named(d[1])}
           param(d) == graph[d[1]].params[d[2]]
           group(d) == {e \in named : param(e) = param(d)}
<1>1. BuiltSets = {{d} : d \in dims \ named} \cup {group(d) : d \in named}
  BY DEF BuiltSets
<1> HIDE DEF dims
<1>2. SUFFICES ASSUME NEW a \in BuiltSets, NEW b \in BuiltSets, NEW x \in a, x \in b
               PROVE  a = b
  BY DEF Disjoint
<1>3. \A c \in BuiltSets : x \in c =>
        c = IF x \in named THEN group(x) ELSE {x}
  <2> SUFFICES ASSUME NEW c \in BuiltSets, x \in c
               PROVE  c = IF x \in named THEN group(x) ELSE {x}
    OBVIOUS
  <2>1. CASE \E d \in dims \ named : c = {d}
    BY <2>1
  <2>2. ASSUME NEW d \in named, c = group(d)
        PROVE  c = IF x \in named THEN group(x) ELSE {x}
    BY <2>2
  <2>3. QED BY <1>1, <2>1, <2>2
<1> HIDE DEF named, group
<1>4. QED BY <1>2, <1>3
-----------------------------------------------------------------------------
(* What a visit finds is a function of the model and of the sets: no step
   that changes neither changes it.                                        *)
LEMMA SameUse ==
  ASSUME UNCHANGED graph, NEW v, NEW i
  PROVE  InsertDimWhenUseful(v, i)' = InsertDimWhenUseful(v, i)
BY DEF InsertDimWhenUseful, Dynamic, Rank, Type

(* sameDim depends on the model and on the sets only.                      *)
LEMMA SameSameDim ==
  ASSUME UNCHANGED <<graph, sets>>, NEW v, NEW i, NEW w, NEW j
  PROVE  SameDim(v, i, w, j)' <=> SameDim(v, i, w, j)
BY DEF SameDim, SameDimT, Rank, InOneSet, Type

(* So does what a visit finds.                                             *)
LEMMA SameVisit ==
  ASSUME UNCHANGED <<graph, sets>>, NEW d
  PROVE  VisitDim(d)' = VisitDim(d)
<1> USE DEF InsertDimWhenUseful, Dynamic, Rank, Type
<1>1. ASSUME NEW v, NEW i PROVE FromConsumers(v, i)' = FromConsumers(v, i)
  BY DEF FromConsumers, ConcatPeers, InnerPeers, BatchPeers, Users
<1>2. ASSUME NEW v, NEW i PROVE FromShapeHelper(v, i)' = FromShapeHelper(v, i)
  BY DEF FromShapeHelper, HelperMarks
<1>3. ASSUME NEW v, NEW i PROVE FromShapeInput(v, i)' = FromShapeInput(v, i)
  BY DEF FromShapeInput
<1>4. ASSUME NEW v, NEW i PROVE FromEqualOperands(v, i)' = FromEqualOperands(v, i)
  BY DEF FromEqualOperands, SameDim, SameDimT, InOneSet
<1>5. ASSUME NEW v, NEW i PROVE FromReshape(v, i)' = FromReshape(v, i)
  <2>1. ASSUME NEW w PROVE DynamicAxes(w)' = DynamicAxes(w)
    BY DEF DynamicAxes
  <2>2. ASSUME NEW w PROVE StaticProduct(Type(w))' = StaticProduct(Type(w))
    BY DEF Type
  <2>3. ASSUME NEW data, NEW w PROVE MatchDims(data, w)' = MatchDims(data, w)
    <3> DEFINE same == [k \in DynamicAxes(data) |-> {j \in DynamicAxes(w) : SameDim(data, k, w, j)}]
    <3>1. same' = same
      <4>1. \A k, j : SameDim(data, k, w, j)' <=> SameDim(data, k, w, j)
        BY SameSameDim
      <4>2. QED BY <2>1, <4>1
    <3>2. Rank(data)' = Rank(data)
      BY DEF Rank
    <3> HIDE DEF same
    <3>3. MatchAxes(Rank(data), same)' = MatchAxes(Rank(data), same)
      BY <3>1, <3>2
    <3>4. QED BY <3>3 DEF MatchDims, same
  <2>4. QED BY <2>1, <2>2, <2>3 DEF FromReshape
<1>6. ASSUME NEW v PROVE FromRange(v)' = FromRange(v)
  BY DEF FromRange
<1> HIDE DEF InsertDimWhenUseful, Dynamic, Rank, Type
<1> DEFINE v == d[1]
           i == d[2]
<1>7. /\ FromConsumers(v, i)' = FromConsumers(v, i)
      /\ FromShapeHelper(v, i)' = FromShapeHelper(v, i)
      /\ FromShapeInput(v, i)' = FromShapeInput(v, i)
      /\ FromEqualOperands(v, i)' = FromEqualOperands(v, i)
      /\ FromReshape(v, i)' = FromReshape(v, i)
      /\ FromRange(v)' = FromRange(v)
  BY <1>1, <1>2, <1>3, <1>4, <1>5, <1>6
<1>8. /\ InsertDimWhenUseful(v, i)' = InsertDimWhenUseful(v, i)
      /\ InsertDimWhenUseful(graph[v].ins[1], i)' = InsertDimWhenUseful(graph[v].ins[1], i)
      /\ InsertDimWhenUseful(Resolve(v), i)' = InsertDimWhenUseful(Resolve(v), i)
  BY SameUse DEF Resolve
<1>9. QED BY <1>7, <1>8 DEF VisitDim

(* So does whether a set lacks nothing.                                    *)
LEMMA SameComplete ==
  ASSUME UNCHANGED <<graph, sets>>, NEW S
  PROVE  Complete(S)' <=> Complete(S)
BY SameVisit DEF Complete
-----------------------------------------------------------------------------
(* Nothing is claimed while the model is put together.                     *)
LEMMA InitSearchInv == Init => SearchInv
BY DEF Init, SearchInv

(* A node is added while the model is put together.                        *)
LEMMA AddKeeps ==
  ASSUME SearchInv, phase = "build", NEW n, AddNode(n)
  PROVE  SearchInv'
<1>1. phase = "build" /\ UNCHANGED <<phase, updated>>
  BY DEF AddNode, analysis
<1>2. QED BY <1>1 DEF SearchInv

(* A visit that changes nothing shows its set complete; any other visit asks
   for another pass.                                                       *)
LEMMA VisitKeeps ==
  ASSUME SearchInv, UpdateDimSets
  PROVE  SearchInv'
<1>1. PICK S \in pending : UpdateDimSet(S)
  BY DEF UpdateDimSets
<1> DEFINE new == UNION {VisitDim(d) : d \in S}
<1>2. /\ phase = "update" /\ UNCHANGED <<graph, phase>>
      /\ sets' = (sets \ {S}) \cup {S \cup new}
      /\ pending' = pending \ {S}
      /\ updated' = (updated \/ new \ S # {})
  BY <1>1 DEF UpdateDimSets, UpdateDimSet
<1> HIDE DEF new
<1>3. updated' \in BOOLEAN
  BY <1>2
<1>4. pending \subseteq sets
  BY <1>2 DEF SearchInv
<1>5. pending' \subseteq sets'
  BY <1>2, <1>4
<1>6. ASSUME ~updated'
      PROVE  Disjoint(sets') /\ \A T \in sets' \ pending' : Complete(T)'
  <2>1. ~updated /\ new \subseteq S
    BY <1>2, <1>6
  <2>2. sets' = sets
    BY <1>2, <1>4, <2>1
  <2>3. Disjoint(sets) /\ \A T \in sets \ pending : Complete(T)
    BY <1>2, <2>1 DEF SearchInv
  <2>4. Complete(S)
    BY <2>1 DEF Complete, new
  <2>5. \A T \in sets' \ pending' : Complete(T)
    BY <1>2, <2>2, <2>3, <2>4
  <2>6. QED BY <1>2, <2>2, <2>3, <2>5, SameComplete
<1>7. QED BY <1>2, <1>3, <1>5, <1>6 DEF SearchInv, Disjoint

(* No step of the analysis breaks the invariant.                           *)
LEMMA NextSearchInv == SearchInv /\ [Next]_vars => SearchInv'
<1> SUFFICES ASSUME SearchInv, [Next]_vars PROVE SearchInv'
  OBVIOUS
<1>1. CASE UNCHANGED vars
  <2>1. UNCHANGED <<graph, phase, sets, pending, updated>>
    BY <1>1 DEF vars, analysis
  <2>2. \A S : Complete(S)' <=> Complete(S)
    BY <2>1, SameComplete
  <2>3. QED BY <2>1, <2>2 DEF SearchInv, Disjoint
<1>2. CASE /\ phase = "build"
           /\ \/ AddElementwise \/ AddScalar \/ AddMatMul \/ AddGemm
              \/ AddConcat \/ AddTranspose
  BY <1>2, AddKeeps
     DEF AddElementwise, AddScalar, AddMatMul, AddGemm, AddConcat, AddTranspose
<1>3. CASE /\ phase = "build"
           /\ \/ AddRecurrent \/ AddFused \/ AddConstantOfShape \/ AddRange
              \/ AddExpand \/ AddReshape
  BY <1>3, AddKeeps
     DEF AddRecurrent, AddFused, AddConstantOfShape, AddRange, AddExpand, AddReshape
<1>4. CASE Build
  <2>1. /\ phase' = "update" /\ updated' = FALSE /\ pending' = sets'
        /\ sets' = BuiltSets
    BY <1>4 DEF Build, SearchInv
  <2>2. Disjoint(sets')
    BY <2>1, BuiltDisjoint
  <2>3. QED BY <2>1, <2>2 DEF SearchInv, Disjoint
<1>5. CASE UpdateDimSets
  BY <1>5, VisitKeeps
<1>6. CASE MergeDimSets
  <2>1. /\ phase' = "update" /\ updated' = FALSE /\ pending' = sets'
        /\ sets' = Merged(sets)
    BY <1>6 DEF MergeDimSets
  <2>2. Disjoint(sets')
    BY <2>1, MergedDisjoint
  <2>3. QED BY <2>1, <2>2 DEF SearchInv, Disjoint
<1>7. CASE FixedPoint
  <2>1. /\ phase = "update" /\ pending = {} /\ ~updated /\ phase' = "offsets"
        /\ UNCHANGED <<graph, sets, pending, updated>>
    BY <1>7 DEF FixedPoint, analysis
  <2>2. Disjoint(sets) /\ \A S \in sets : Complete(S)
    BY <2>1 DEF SearchInv
  <2>3. \A S \in sets' : Complete(S)'
    BY <2>1, <2>2, SameComplete
  <2>4. QED BY <2>1, <2>2, <2>3 DEF SearchInv, Disjoint
<1>8. CASE FindOffsets \/ ShareOffsets \/ InferEqualities
  <2>1. phase' \in {"share", "infer", "done"} /\ UNCHANGED updated
    BY <1>8 DEF FindOffsets, ShareOffsets, InferEqualities
  <2>2. QED BY <2>1 DEF SearchInv
<1>9. CASE Done
  BY <1>1, <1>9 DEF Done
<1>10. QED
  BY <1>1, <1>2, <1>3, <1>4, <1>5, <1>6, <1>7, <1>8, <1>9 DEF Next, Compose, Analyze

(* The inductive invariant of the search.                                  *)
THEOREM Invariance == Spec => []SearchInv
BY InitSearchInv, NextSearchInv, PTL DEF Spec

(* analyze looks for offsets only when no visit of any dim would find
   another equal dim and no dim is in two sets: one pass without a change
   is enough, though each visit sees what the visits before it changed.    *)
THEOREM SearchIsComplete == Spec => []NothingMissed
<1>1. SearchInv => NothingMissed
  BY DEF SearchInv, NothingMissed, Complete, Disjoint
<1>2. QED BY <1>1, Invariance, PTL
-----------------------------------------------------------------------------
(* mergeDimSets: sets of dims of equal sizes that have a dim in common are
   of dims of the same size, along a chain of any length.                  *)
LEMMA MergedOK ==
  ASSUME NEW g, NEW R, NEW C, SetsOK(g, R, C)
  PROVE  SetsOK(g, R, Merged(C))
<1>1. ASSUME NEW s \in C, NEW d \in s, NEW t \in Chained(s, C), NEW e \in t
      PROVE  DimOK(g, e) /\ SameSize(R, d, e)
  <2> DEFINE sep == {u \in C : \A x \in u : SameSize(R, d, x)}
  <2>1. s \in sep
    BY DEF SetsOK, SetOK, Found
  <2>2. Apart(sep, C)
    <3> SUFFICES ASSUME NEW u \in sep, NEW w \in C \ sep, NEW x \in u, x \in w
                 PROVE  FALSE
      BY DEF Apart
    <3>1. SameSize(R, d, x)
      OBVIOUS
    <3>2. \A y \in w : SameSize(R, x, y)
      BY DEF SetsOK, SetOK, Found
    <3>3. \A y \in w : SameSize(R, d, y)
      BY <3>1, <3>2, SameSizes
    <3>4. QED BY <3>3
  <2>3. sep \in SUBSET C
    OBVIOUS
  <2>4. t \in sep
    <3> HIDE DEF sep
    <3>1. QED BY <2>1, <2>2, <2>3 DEF Chained
  <2>5. t \in C
    BY <2>4
  <2>6. QED BY <1>1, <2>4, <2>5 DEF SetsOK, SetOK, Found
<1>2. ASSUME NEW S \in Merged(C), NEW d \in S, NEW e \in S
      PROVE  DimOK(g, e) /\ SameSize(R, d, e)
  <2>1. PICK s \in C : S = UNION Chained(s, C)
    BY DEF Merged
  <2>2. PICK t \in Chained(s, C) : d \in t
    BY <2>1
  <2>3. PICK u \in Chained(s, C) : e \in u
    BY <2>1
  <2>4. t \in C /\ u \in Chained(t, C)
    BY <2>2, <2>3, ChainedApart, ChainedSame
  <2>5. QED BY <1>1, <2>2, <2>3, <2>4
<1>3. QED BY <1>2 DEF SetsOK, SetOK, Found
-----------------------------------------------------------------------------
(* Sets of equal dims in which every dim of others is: the relations stay.  *)
LEMMA RelationsStay ==
  ASSUME NEW g, NEW R, NEW C, NEW E, NEW Q, RelationsOK(g, R, C, Q), UNION C \subseteq UNION E
  PROVE  RelationsOK(g, R, E, Q)
BY DEF RelationsOK, RelationOK

(* A relation of a dim of a set holds of every dim of that set.            *)
LEMMA RelationOfSet ==
  ASSUME ModelOK(graph, runs), SetsOK(graph, runs, sets),
         RelationsOK(graph, runs, sets, relations),
         NEW S \in sets, NEW k, NEW t \in Targets(S, k), NEW d \in S
  PROVE  /\ t \in UNION sets /\ k \in Nat
         /\ \A r \in runs : SizeIn(r, d) + k = SizeIn(r, t)
<1>1. PICK q \in relations : q.dim \in S /\ q.offset = k /\ q.target = t
  BY DEF Targets, RelationsOf
<1>2. /\ q.target \in UNION sets /\ q.offset \in Nat
      /\ Kept(graph, q.dim[1], q.dim[2]) =>
           \A r \in runs : SizeIn(r, q.dim) + q.offset = SizeIn(r, q.target)
  BY DEF RelationsOK, RelationOK
<1>3. DimOK(graph, q.dim) /\ SameSize(runs, q.dim, d)
  BY <1>1 DEF SetsOK, SetOK, Found
<1>4. Kept(graph, q.dim[1], q.dim[2])
  BY <1>3 DEF DimOK
<1>5. ASSUME NEW r \in runs PROVE SizeIn(r, d) + k = SizeIn(r, t)
  <2>1. SizeIn(r, d) = SizeIn(r, q.dim)
    BY <1>3 DEF SameSize
  <2>2. SizeIn(r, q.dim) + q.offset = SizeIn(r, q.target)
    BY <1>2, <1>4
  <2>3. QED BY <1>1, <2>1, <2>2
<1>6. QED BY <1>1, <1>2, <1>5

(* A relation of a dim, from what its fields are.                          *)
LEMMA CopiedRelation ==
  ASSUME NEW g, NEW R, NEW C, NEW d, NEW k \in Nat, NEW t \in UNION C,
         \A r \in R : SizeIn(r, d) + k = SizeIn(r, t)
  PROVE  RelationOK(g, R, C, Relation(d, k, t))
<1> DEFINE q == Relation(d, k, t)
<1>1. q.dim = d /\ q.offset = k /\ q.target = t
  BY DEF Relation
<1> HIDE DEF q
<1>2. RelationOK(g, R, C, q)
  BY <1>1 DEF RelationOK
<1>3. QED BY <1>2 DEF q

(* The offsets of a set are copied to its dims that have none: they hold of
   these too.                                                              *)
LEMMA SharedOK ==
  ASSUME ModelOK(graph, runs), SetsOK(graph, runs, sets),
         RelationsOK(graph, runs, sets, relations), NEW first \in FirstTargets
  PROVE  RelationsOK(graph, runs, sets,
           UNION {{Relation(d, p[2], first[p]) : d \in Lacking(p[1])} : p \in DOMAIN first})
<1> SUFFICES ASSUME NEW p \in DOMAIN first, NEW d \in Lacking(p[1])
             PROVE  RelationOK(graph, runs, sets, Relation(d, p[2], first[p]))
  BY DEF RelationsOK
<1>1. p[1] \in sets /\ first[p] \in Targets(p[1], p[2])
  BY DEF FirstTargets
<1>2. d \in p[1]
  BY DEF Lacking
<1>3. QED BY <1>1, <1>2, RelationOfSet, CopiedRelation

(* Two dims at one distance of a set have one size.                        *)
LEMMA InferredOK ==
  ASSUME ModelOK(graph, runs), SetsOK(graph, runs, sets),
         RelationsOK(graph, runs, sets, relations), NEW first \in FirstTargets
  PROVE  SetsOK(graph, runs, sets \cup
         UNION {{{first[p], t} : t \in {u \in Targets(p[1], p[2]) : ~SameDimT(first[p], u)}} :
                p \in {q \in DOMAIN first : Cardinality(q[1]) > 1}})
<1>1. ASSUME NEW p \in DOMAIN first, NEW u \in Targets(p[1], p[2])
      PROVE  SetOK(graph, runs, {first[p], u})
  <2>1. p[1] \in sets /\ first[p] \in Targets(p[1], p[2])
    BY DEF FirstTargets
  <2>2. PICK q \in relations : q.dim \in p[1]
    BY <2>1 DEF Targets, RelationsOf
  <2>3. /\ first[p] \in UNION sets /\ u \in UNION sets
        /\ \A r \in runs : SizeIn(r, q.dim) + p[2] = SizeIn(r, first[p])
        /\ \A r \in runs : SizeIn(r, q.dim) + p[2] = SizeIn(r, u)
    BY <1>1, <2>1, <2>2, RelationOfSet
  <2>4. SameSize(runs, first[p], u)
    BY <2>3 DEF SameSize
  <2>5. DimOK(graph, first[p]) /\ DimOK(graph, u)
    BY <2>3 DEF SetsOK, SetOK, Found
  <2>6. QED BY <2>4, <2>5, SameSizes DEF SetOK, Found
<1>2. QED BY <1>1 DEF SetsOK
-----------------------------------------------------------------------------
\* The sizes that the shape helpers leave open are those of every run, the
\* dims of one set have one size in every run, and a relation is true.
SizeInv ==
  /\ phase \in Phases /\ updated \in BOOLEAN /\ pending \subseteq sets
  /\ phase = "build" => sets = {}
  /\ phase \in {"build", "update"} => relations = {}
  /\ phase # "update" => pending = {}
  /\ ModelOK(graph, runs)
  /\ SetsOK(graph, runs, sets)
  /\ RelationsOK(graph, runs, sets, relations)

(* The arguments of a model have the sizes of their types.                 *)
LEMMA InitSizeInv == Init => SizeInv
<1> SUFFICES ASSUME Init PROVE SizeInv
  OBVIOUS
<1>1. ModelOK(graph, runs)
  BY SignatureOK DEF Init
<1>2. QED BY <1>1 DEF Init, SizeInv, Phases, SetsOK, RelationsOK

(* A node is added while there are no sets.                                *)
LEMMA AddSizeInv ==
  ASSUME Disputed = {}, SizeInv, Compose
  PROVE  SizeInv'
<1> DEFINE kept == UNCHANGED <<phase, sets, pending, updated, relations>>
<1>0. /\ phase = "build"
      /\ \/ AddElementwise \/ AddScalar \/ AddMatMul \/ AddGemm \/ AddConcat \/ AddTranspose
         \/ AddRecurrent \/ AddFused \/ AddConstantOfShape \/ AddRange \/ AddExpand \/ AddReshape
  BY DEF Compose
<1>1. ASSUME NEW n, AddNode(n) PROVE kept
  BY <1>1 DEF AddNode, analysis
<1> HIDE DEF kept
<1>2. kept
  <2>1. CASE AddElementwise \/ AddScalar \/ AddMatMul \/ AddGemm
    BY <1>1, <2>1, Zenon DEF AddElementwise, AddScalar, AddMatMul, AddGemm
  <2>2. CASE AddConcat \/ AddTranspose \/ AddRecurrent \/ AddFused
    BY <1>1, <2>2, Zenon DEF AddConcat, AddTranspose, AddRecurrent, AddFused
  <2>3. CASE AddConstantOfShape \/ AddRange \/ AddExpand \/ AddReshape
    BY <1>1, <2>3, Zenon DEF AddConstantOfShape, AddRange, AddExpand, AddReshape
  <2>4. QED BY <1>0, <2>1, <2>2, <2>3
<1>3. phase = "build" /\ UNCHANGED <<phase, sets, pending, updated, relations>>
  BY <1>0, <1>2 DEF kept
<1>4. ModelOK(graph, runs)
  BY DEF SizeInv
<1>5. ModelOK(graph', runs')
  BY <1>0, <1>4, ModelKept
<1>6. QED BY <1>3, <1>5 DEF SizeInv, SetsOK, RelationsOK

(* Every step of the analysis keeps the sizes of the sets equal and the
   relations true.                                                         *)
LEMMA AnalyzeSizeInv ==
  ASSUME SizeInv, Analyze
  PROVE  SizeInv'
<1>1. /\ ModelOK(graph, runs) /\ SetsOK(graph, runs, sets)
      /\ RelationsOK(graph, runs, sets, relations)
  BY DEF SizeInv
<1>2. CASE Build
  <2>1. SetsOK(graph, runs, BuiltSets)
    BY <1>1, BuiltOK
  <2>2. /\ phase' = "update" /\ sets' = BuiltSets /\ pending' = sets' /\ relations' = {}
        /\ UNCHANGED <<graph, runs, updated>>
    BY <1>2 DEF Build, SizeInv
  <2>3. QED BY <1>1, <2>1, <2>2 DEF SizeInv, Phases, RelationsOK
<1>3. CASE UpdateDimSets
  <2>1. PICK S \in pending : UpdateDimSet(S)
    BY <1>3 DEF UpdateDimSets
  <2> DEFINE new == UNION {VisitDim(d) : d \in S}
  <2>2. /\ phase = "update" /\ UNCHANGED <<graph, runs, phase, relations>>
        /\ sets' = (sets \ {S}) \cup {S \cup new}
        /\ pending' = pending \ {S}
        /\ updated' = (updated \/ new \ S # {})
    BY <1>3, <2>1 DEF UpdateDimSets, UpdateDimSet
  <2>3. S \in sets /\ pending \subseteq sets /\ relations = {} /\ phase \in Phases
    BY <2>2 DEF SizeInv
  <2>4. SetOK(graph, runs, S \cup new)
    BY <1>1, <2>3, UpdateOK
  <2> HIDE DEF new
  <2>5. SetsOK(graph, runs, sets')
    BY <1>1, <2>2, <2>4 DEF SetsOK
  <2>6. updated' \in BOOLEAN /\ pending' \subseteq sets'
    BY <2>2, <2>3
  <2>7. QED BY <1>1, <2>2, <2>3, <2>5, <2>6 DEF SizeInv, RelationsOK
<1>4. CASE MergeDimSets
  <2>1. SetsOK(graph, runs, Merged(sets))
    BY <1>1, MergedOK
  <2>2. /\ phase' = "update" /\ sets' = Merged(sets) /\ pending' = sets' /\ updated' = FALSE
        /\ relations' = {} /\ UNCHANGED <<graph, runs>>
    BY <1>4 DEF MergeDimSets, SizeInv
  <2>3. QED BY <1>1, <2>1, <2>2 DEF SizeInv, Phases, RelationsOK
<1>5. CASE FixedPoint
  <2>1. /\ phase' = "offsets" /\ pending = {} /\ relations = {}
        /\ UNCHANGED <<graph, runs, sets, pending, updated, relations>>
    BY <1>5 DEF FixedPoint, analysis, SizeInv
  <2>2. QED BY <1>1, <2>1 DEF SizeInv, Phases
<1>6. CASE FindOffsets
  <2>1. /\ phase = "offsets" /\ phase' = "share"
        /\ relations' = UNION {VisitDimForOffsets(d) : d \in UNION sets}
        /\ UNCHANGED <<graph, runs, sets, pending, updated>>
    BY <1>6 DEF FindOffsets
  <2>2. RelationsOK(graph, runs, sets, relations')
    BY <1>1, <2>1, OffsetSound DEF RelationsOK
  <2>3. QED BY <1>1, <2>1, <2>2 DEF SizeInv, Phases
<1>7. CASE ShareOffsets
  <2>1. PICK first \in FirstTargets :
          relations' = relations \cup
            UNION {{Relation(d, p[2], first[p]) : d \in Lacking(p[1])} : p \in DOMAIN first}
    BY <1>7 DEF ShareOffsets
  <2>2. /\ phase = "share" /\ phase' \in {"infer", "done"}
        /\ UNCHANGED <<graph, runs, sets, pending, updated>>
    BY <1>7 DEF ShareOffsets
  <2>3. RelationsOK(graph, runs, sets, relations')
    BY <1>1, <2>1, SharedOK DEF RelationsOK
  <2>4. QED BY <1>1, <2>2, <2>3 DEF SizeInv, Phases
<1>8. CASE InferEqualities
  <2>1. PICK first \in FirstTargets :
          sets' = Merged(sets \cup
            UNION {{{first[p], t} : t \in {u \in Targets(p[1], p[2]) : ~SameDimT(first[p], u)}} :
                   p \in {q \in DOMAIN first : Cardinality(q[1]) > 1}})
    BY <1>8 DEF InferEqualities
  <2> DEFINE pairs == UNION {{{first[p], t} : t \in {u \in Targets(p[1], p[2]) : ~SameDimT(first[p], u)}} :
                             p \in {q \in DOMAIN first : Cardinality(q[1]) > 1}}
  <2>2. /\ phase = "infer" /\ phase' = "share"
        /\ UNCHANGED <<graph, runs, pending, updated, relations>>
    BY <1>8 DEF InferEqualities
  <2>3. SetsOK(graph, runs, sets \cup pairs)
    BY <1>1, InferredOK
  <2>4. sets' = Merged(sets \cup pairs)
    BY <2>1
  <2> HIDE DEF pairs
  <2>5. SetsOK(graph, runs, sets')
    BY <2>3, <2>4, MergedOK
  <2>6. UNION sets \subseteq UNION sets'
    <3>1. UNION sets' = UNION (sets \cup pairs)
      BY <2>4, MergedDisjoint
    <3>2. QED BY <3>1
  <2>7. RelationsOK(graph, runs, sets', relations)
    BY <1>1, <2>6, RelationsStay
  <2>8. pending = {}
    BY <2>2 DEF SizeInv
  <2>9. QED BY <1>1, <2>2, <2>5, <2>7, <2>8 DEF SizeInv, Phases
<1>9. QED BY <1>2, <1>3, <1>4, <1>5, <1>6, <1>7, <1>8 DEF Analyze

(* No step breaks the invariant, where the code and its documentation do
   not disagree.                                                           *)
LEMMA NextSizeInv ==
  ASSUME Disputed = {}
  PROVE  SizeInv /\ [Next]_vars => SizeInv'
<1> SUFFICES ASSUME SizeInv, [Next]_vars PROVE SizeInv'
  OBVIOUS
<1>1. CASE UNCHANGED vars
  <2>1. UNCHANGED <<graph, runs, phase, sets, pending, updated, relations>>
    BY <1>1 DEF vars, analysis
  <2>2. QED BY <2>1 DEF SizeInv
<1>2. CASE Compose
  BY <1>2, AddSizeInv
<1>3. CASE Analyze
  BY <1>3, AnalyzeSizeInv
<1>4. CASE Done
  BY <1>1, <1>4 DEF Done
<1>5. QED BY <1>1, <1>2, <1>3, <1>4 DEF Next

(* The inductive invariant of the sizes.                                   *)
THEOREM SizesInvariance ==
  ASSUME Disputed = {}
  PROVE  Spec => []SizeInv
<1>1. SizeInv /\ [Next]_vars => SizeInv'
  BY NextSizeInv
<1>2. QED BY <1>1, InitSizeInv, PTL DEF Spec

(* A dim in a set exists, and is dynamic unless it is an argument's: visitDim
   meets no static dim.  A relation has a target in a set and an offset that
   is a number of at least 0.                                              *)
THEOREM TypeCorrect ==
  ASSUME Disputed = {}
  PROVE  Spec => []TypeOK
<1>1. SizeInv => TypeOK
  <2> SUFFICES ASSUME SizeInv PROVE TypeOK
    OBVIOUS
  <2>1. ASSUME NEW d \in UNION sets
        PROVE  /\ d[1] \in DOMAIN graph /\ d[2] \in 1..Rank(d[1]) /\ d[3] \in {"tensor", "dim"}
               /\ Dynamic(d[1], d[2]) \/ graph[d[1]].op \in {"Arg", "BodyArg"}
    <3>1. DimOK(graph, d)
      BY <2>1 DEF SizeInv, SetsOK, SetOK, Found
    <3>2. QED BY <3>1 DEF DimOK, Kept, Dynamic, Rank, RankOf, Type
  <2>2. \A r \in relations : r.target \in UNION sets /\ r.offset \in Nat
    BY DEF SizeInv, RelationsOK, RelationOK
  <2>3. QED BY <2>1, <2>2 DEF SizeInv, TypeOK
<1>2. QED BY <1>1, SizesInvariance, PTL

(* sameDim: whatever the model, the dims that the analysis puts in one set
   have the same size in every run of the model.                           *)
THEOREM GroupsAreEqual ==
  ASSUME Disputed = {}
  PROVE  Spec => []GroupsEqual
<1>1. SizeInv => GroupsEqual
  BY Zenon DEF SizeInv, SetsOK, SetOK, Found, SameSize, GroupsEqual
<1>2. QED BY <1>1, SizesInvariance, PTL

(* A relation between dims that the analysis collects, copies within a set
   or keeps through a merge is true in every run of the model.             *)
THEOREM OffsetsAreTrue ==
  ASSUME Disputed = {}
  PROVE  Spec => []OffsetsTrue
<1>1. SizeInv => OffsetsTrue
  BY DEF SizeInv, RelationsOK, RelationOK, Kept, Dynamic, Type, OffsetsTrue
<1>2. QED BY <1>1, SizesInvariance, PTL
=============================================================================
