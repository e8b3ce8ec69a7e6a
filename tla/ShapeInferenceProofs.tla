------------------------ MODULE ShapeInferenceProofs ------------------------
(***************************************************************************)
(* Proofs about ShapeInference: for dims and ranks of any size, what       *)
(* inference claims of the result of an operation is true, the lowered     *)
(* code allocates it with the right shape, and no valid operation is       *)
(* refused.                                                                *)
(***************************************************************************)
EXTENDS ShapeInference, FiniteSetTheorems, SequenceTheorems, TLAPS

Exprs == [lit : BOOLEAN, val : Int]

\* Sequences as functions: what has the places of s.
On(s, S) == [DOMAIN s -> S]

\* Every literal of x is the size that s has there.
True(x, s) == \A i \in DOMAIN s : x[i].lit => x[i].val = s[i]

Inv ==
  /\ dims \in Shapes
  /\ type \in On(dims, Exprs)
  /\ True(type, dims)
  /\ \A i \in DOMAIN dims : ~type[i].lit => type[i].val = Hidden
  /\ alloc = dims
  /\ refused = FALSE
-----------------------------------------------------------------------------
(* A shape is a sequence of sizes.                                         *)
LEMMA ShapeType ==
  ASSUME NEW s \in Shapes
  PROVE  /\ Len(s) \in 0..MaxRank /\ DOMAIN s = 1..Len(s)
         /\ s \in [1..Len(s) -> 0..MaxDim] /\ s \in Seq(0..MaxDim)
         /\ 0..MaxDim \subseteq Nat /\ s \in Seq(Nat) /\ s \in Seq(Int)
         /\ \A i \in DOMAIN s : s[i] \in Nat /\ s[i] \in Int
<1>1. PICK r \in 0..MaxRank : s \in [1..r -> 0..MaxDim]
  BY DEF Shapes
<1>2. r \in Nat /\ MaxDim \in Nat
  BY SizesAssumption
<1>3. s \in Seq(0..MaxDim) /\ Len(s) = r
  BY <1>1, <1>2, SeqDef, LenProperties
<1>4. s \in [1..r -> Nat] /\ s \in [1..r -> Int]
  BY <1>1, <1>2
<1>5. s \in Seq(Nat) /\ s \in Seq(Int)
  BY <1>2, <1>4, SeqDef
<1>6. QED BY <1>1, <1>2, <1>3, <1>4, <1>5

(* The result of an operation is refined with what is known of it: neither
   its type nor the shape it is given become wrong.                        *)
LEMMA UpdateSound ==
  ASSUME NEW inferred, NEW lowered, NEW want \in Shapes,
         inferred \in On(want, Exprs), True(inferred, want),
         lowered \in On(want, Exprs), \A i \in DOMAIN want : lowered[i].val = want[i],
         ComputeShapeAndUpdateType(inferred, lowered, want, FALSE)
  PROVE  Inv'
<1>1. PICK declared \in {{}, {Len(want)}} :
        type' = Hide(RefineDims(inferred, Hide(Operand(want, declared))))
  BY DEF ComputeShapeAndUpdateType
<1>2. /\ dims' = want /\ refused' = FALSE
      /\ alloc' = Values(RefineDims(lowered, type'))
  BY DEF ComputeShapeAndUpdateType
<1> DEFINE ex == Hide(Operand(want, declared))
           x == RefineDims(inferred, ex)
<1>3. /\ DOMAIN want = 1..Len(want) /\ Len(want) \in Nat
      /\ want \in [1..Len(want) -> 0..MaxDim] /\ \A i \in DOMAIN want : want[i] \in Int
  BY ShapeType
<1>4. Hidden \in Int
  BY SizesAssumption
<1>5. ex \in On(want, Exprs) /\ True(ex, want)
  BY <1>3, <1>4 DEF Hide, Operand, On, Exprs, True, RunTime
<1> HIDE DEF ex
<1>6. x \in On(want, Exprs) /\ True(x, want)
  BY <1>5 DEF RefineDims, On, Exprs, True
<1>7. type' = Hide(x)
  BY <1>1 DEF ex
<1> HIDE DEF x
<1>8. /\ type' \in On(want, Exprs) /\ True(type', want)
      /\ \A i \in DOMAIN want : ~type'[i].lit => type'[i].val = Hidden
  BY <1>4, <1>6, <1>7 DEF Hide, On, Exprs, True, RunTime
<1> DEFINE l == RefineDims(lowered, type')
<1>9. l \in On(want, Exprs) /\ \A i \in DOMAIN want : l[i].val = want[i]
  BY <1>8 DEF RefineDims, On, Exprs, True
<1> HIDE DEF l
<1>10. Values(l) = want
  BY <1>3, <1>9 DEF Values, On
<1>11. alloc' = want
  BY <1>2, <1>10 DEF l
<1>12. QED BY <1>2, <1>8, <1>11 DEF Inv

(* What inference and lowering make of one expression: they agree on whether
   it is a literal and, if so, on its value.                               *)
Same(e, l) ==
  /\ e \in Exprs /\ l \in Exprs
  /\ e.lit <=> l.lit
  /\ e.lit => e.val = l.val

\* x and l agree everywhere, and l has the sizes s.
Computes(x, l, s) ==
  /\ x \in On(s, Exprs) /\ l \in On(s, Exprs)
  /\ \A i \in DOMAIN s : Same(x[i], l[i]) /\ l[i].val = s[i]

(* An operation that computes the wanted shape leaves its type right.      *)
LEMMA ComputesSound ==
  ASSUME NEW inferred, NEW lowered, NEW want, Computes(inferred, lowered, want),
         NEW refuses, refuses = FALSE,
         ComputeShapeAndUpdateType(inferred, lowered, want, refuses)
  PROVE  Inv'
<1>1. want \in Shapes
  BY DEF ComputeShapeAndUpdateType
<1>2. True(inferred, want)
  BY DEF Computes, True, Same
<1>3. QED BY <1>1, <1>2, UpdateSound DEF Computes

(* The operand that is followed, and the others.                           *)
LEMMA FollowedOperand ==
  ASSUME Inv
  PROVE  Computes(type, ShapeAsDims(type, dims), dims)
<1>1. \A i \in DOMAIN dims : dims[i] \in Int
  BY ShapeType DEF Inv
<1>2. QED BY <1>1 DEF Inv, Computes, ShapeAsDims, On, Same, Exprs, RunTime, True

(* An operand of which the compiler knows some dims.                       *)
LEMMA OtherOperand ==
  ASSUME NEW y, \A i \in DOMAIN y : y[i] \in Int, NEW known
  PROVE  Computes(Hide(Operand(y, known)), Operand(y, known), y)
<1>1. Hidden \in Int
  BY SizesAssumption
<1>2. QED BY <1>1 DEF Computes, Operand, Hide, On, Same, Exprs, RunTime

(* An operand that is a constant, or computed when the model runs.         *)
LEMMA ConstantOperand ==
  ASSUME NEW y, \A i \in DOMAIN y : y[i] \in Int, NEW p \in Constants(y)
  PROVE  Computes(Hide(p), p, y)
<1>1. Hidden \in Int
  BY SizesAssumption
<1>2. p = Literals(y) \/ p = Operand(y, {})
  BY DEF Constants
<1>3. CASE p = Literals(y)
  BY <1>1, <1>3 DEF Computes, Literals, Lit, Hide, On, Same, Exprs, RunTime
<1>4. CASE p = Operand(y, {})
  BY <1>4, OtherOperand
<1>5. QED BY <1>2, <1>3, <1>4

(* The arithmetic of index expressions keeps the agreement.                *)
LEMMA SameArithmetic ==
  ASSUME NEW a, NEW b, NEW c, NEW d, Same(a, b), Same(c, d)
  PROVE  /\ Same(Add(a, c), Add(b, d))
         /\ Same(Sub(a, c), Sub(b, d))
         /\ Same(Mul(a, c), Mul(b, d))
         /\ Same(MaxOf(a, c), MaxOf(b, d))
<1> USE DEF Same, Exprs, Binary
<1>1. Same(Add(a, c), Add(b, d))
  BY DEF Add
<1>2. Same(Sub(a, c), Sub(b, d))
  BY DEF Sub
<1>3. Same(Mul(a, c), Mul(b, d))
  BY DEF Mul
<1>4. Same(MaxOf(a, c), MaxOf(b, d))
  BY DEF MaxOf
<1>5. QED BY <1>1, <1>2, <1>3, <1>4

(* A literal is the same to both.                                          *)
LEMMA SameLit ==
  ASSUME NEW n \in Int
  PROVE  Same(Lit(n), Lit(n)) /\ Lit(n).val = n
BY DEF Same, Lit, Exprs

(* The length of what is written as a function.                            *)
LEMMA LenIs ==
  ASSUME NEW n \in Nat, NEW s, DOMAIN s = 1..n, NEW S, s \in [1..n -> S]
  PROVE  Len(s) = n /\ s \in Seq(S)
BY SeqDef, LenProperties

(* What computes a shape has its length.                                   *)
LEMMA ComputesLen ==
  ASSUME NEW s \in Seq(Int), NEW x, NEW l, Computes(x, l, s)
  PROVE  /\ Len(s) \in Nat /\ DOMAIN s = 1..Len(s)
         /\ Len(x) = Len(s) /\ x \in Seq(Exprs) /\ DOMAIN x = 1..Len(s)
         /\ Len(l) = Len(s) /\ l \in Seq(Exprs) /\ DOMAIN l = 1..Len(s)
<1>1. Len(s) \in Nat /\ DOMAIN s = 1..Len(s)
  BY LenProperties
<1>2. x \in [1..Len(s) -> Exprs] /\ l \in [1..Len(s) -> Exprs]
  BY <1>1 DEF Computes, On
<1>3. QED BY <1>1, <1>2, LenIs
-----------------------------------------------------------------------------
(* Dims of size 1 in front.                                                *)
LEMMA AlignedIs ==
  ASSUME NEW s \in Seq(Nat), NEW rank \in Nat, Len(s) <= rank
  PROVE  LET d == rank - Len(s)
         IN  /\ Aligned(s, rank) \in Seq(Nat) /\ Len(Aligned(s, rank)) = rank
             /\ DOMAIN Aligned(s, rank) = 1..rank
             /\ \A i \in 1..rank : Aligned(s, rank)[i] = IF i > d THEN s[i - d] ELSE 1
<1> DEFINE d == rank - Len(s)
           ones == [i \in 1..d |-> 1]
           t == ones \o s
<1>1. Len(s) \in Nat /\ d \in Nat /\ Len(s) + d = rank
  BY LenProperties
<1> HIDE DEF d
<1>2. ones \in [1..d -> Nat] /\ \A i \in 1..d : ones[i] = 1
  OBVIOUS
<1> HIDE DEF ones
<1>3. Len(ones) = d /\ ones \in Seq(Nat)
  BY <1>1, <1>2, LenIs
<1>4. /\ t \in Seq(Nat) /\ Len(t) = Len(ones) + Len(s)
      /\ \A i \in 1..(Len(ones) + Len(s)) :
           t[i] = IF i <= Len(ones) THEN ones[i] ELSE s[i - Len(ones)]
  BY <1>3, ConcatProperties
<1> HIDE DEF t
<1>5. Len(t) = rank /\ DOMAIN t = 1..rank
  BY <1>1, <1>3, <1>4, LenProperties
<1>6. ASSUME NEW i \in 1..rank PROVE t[i] = IF i > d THEN s[i - d] ELSE 1
  <2>0. Len(ones) + Len(s) = rank
    BY <1>1, <1>3
  <2>1. t[i] = IF i <= d THEN ones[i] ELSE s[i - d]
    BY <1>3, <1>4, <2>0
  <2>2. i <= d => ones[i] = 1
    BY <1>1, <1>2
  <2>3. QED BY <1>1, <2>1, <2>2
<1>7. Aligned(s, rank) = t
  BY DEF Aligned, t, ones, d
<1>8. QED BY <1>4, <1>5, <1>6, <1>7 DEF d

(* Dims of size 1 in front of what computes a shape.                       *)
LEMMA PrependComputes ==
  ASSUME NEW s \in Seq(Nat), NEW x, NEW l, Computes(x, l, s),
         NEW rank \in Nat, Len(s) <= rank
  PROVE  Computes(Prepend1s(x, rank), Prepend1s(l, rank), Aligned(s, rank))
<1> DEFINE d == rank - Len(s)
           X == Prepend1s(x, rank)
           L == Prepend1s(l, rank)
           t == Aligned(s, rank)
<1>1. /\ Len(s) \in Nat /\ DOMAIN s = 1..Len(s)
      /\ Len(x) = Len(s) /\ Len(l) = Len(s)
  <2>1. s \in Seq(Int)
    BY SeqDef
  <2>2. QED BY <2>1, ComputesLen
<1>2. DOMAIN t = 1..rank /\ \A i \in 1..rank : t[i] = IF i > d THEN s[i - d] ELSE 1
  BY AlignedIs
<1>3. /\ X = [i \in 1..rank |-> IF i > d THEN x[i - d] ELSE Lit(1)]
      /\ L = [i \in 1..rank |-> IF i > d THEN l[i - d] ELSE Lit(1)]
  BY <1>1 DEF Prepend1s
<1> HIDE DEF X, L, t
<1>4. ASSUME NEW i \in 1..rank
      PROVE  Same(X[i], L[i]) /\ L[i].val = t[i]
  <2>1. CASE i > d
    <3>1. i - d \in 1..Len(s)
      BY <1>1, <2>1
    <3>2. Same(x[i - d], l[i - d]) /\ l[i - d].val = s[i - d]
      BY <1>1, <3>1 DEF Computes
    <3>3. QED BY <1>2, <1>3, <2>1, <3>2
  <2>2. CASE ~(i > d)
    BY <1>2, <1>3, <2>2, SameLit
  <2>3. QED BY <2>1, <2>2
<1>5. \A i \in 1..rank : X[i] \in Exprs /\ L[i] \in Exprs
  BY <1>4 DEF Same
<1>6. X \in [1..rank -> Exprs] /\ L \in [1..rank -> Exprs]
  BY <1>3, <1>5
<1>7. Computes(X, L, t)
  BY <1>2, <1>4, <1>6 DEF Computes, On
<1>8. QED BY <1>7 DEF X, L, t

(* One dim of a broadcast: inference and lowering agree, and the size is
   that of numpy's rule.                                                   *)
LEMMA BroadcastDimSame ==
  ASSUME NEW a, NEW b, NEW c, NEW d, Same(a, b), Same(c, d), NEW uni \in BOOLEAN
  PROVE  Same(BroadcastDim(a, c, uni), BroadcastDim(b, d, uni))
<1>1. Same(MaxOf(a, c), MaxOf(b, d))
  BY SameArithmetic
<1>2. CASE IsLit(a, 1)
  BY <1>2 DEF Same, BroadcastDim, IsLit, IsLitOtherThan
<1>3. CASE IsLitOtherThan(a, 1)
  BY <1>3 DEF Same, BroadcastDim, IsLit, IsLitOtherThan
<1>4. CASE ~a.lit /\ IsLit(c, 1)
  BY <1>4 DEF Same, BroadcastDim, IsLit, IsLitOtherThan
<1>5. CASE ~a.lit /\ IsLitOtherThan(c, 1)
  BY <1>5 DEF Same, BroadcastDim, IsLit, IsLitOtherThan
<1>6. CASE ~a.lit /\ ~c.lit
  BY <1>1, <1>6 DEF Same, BroadcastDim, IsLit, IsLitOtherThan
<1>7. QED BY <1>2, <1>3, <1>4, <1>5, <1>6 DEF IsLit, IsLitOtherThan, Same, Exprs

(* The size of one dim of a broadcast is that of numpy's rule.             *)
LEMMA BroadcastDimSize ==
  ASSUME NEW b \in Exprs, NEW d \in Exprs, b.val \in Nat, d.val \in Nat,
         NEW uni \in BOOLEAN,
         b.val = d.val \/ b.val = 1 \/ d.val = 1,
         uni /\ b.val = 1 => d.val = 1,
         (b.val = 0 \/ d.val = 0) /\ b.val # d.val => b.lit \/ d.lit
  PROVE  BroadcastDim(b, d, uni).val = IF b.val = 1 THEN d.val ELSE b.val
<1> USE DEF BroadcastDim, IsLit, IsLitOtherThan
<1>1. CASE b.lit
  BY <1>1
<1>2. CASE ~b.lit /\ d.lit
  BY <1>2
<1>3. CASE ~b.lit /\ ~d.lit
  <2>1. CASE uni
    BY <1>3, <2>1
  <2>2. CASE ~uni
    <3>1. BroadcastDim(b, d, uni).val = IF d.val > b.val THEN d.val ELSE b.val
      BY <1>3, <2>2 DEF MaxOf, Binary
    <3>2. QED BY <1>3, <3>1
  <2>3. QED BY <2>1, <2>2
<1>4. QED BY <1>1, <1>2, <1>3 DEF Exprs

(* Elementwise operations, Expand and Where.                               *)
LEMMA BroadcastSound ==
  ASSUME Inv, BroadcastOp
  PROVE  Inv'
<1>1. PICK y \in Shapes, uni \in BOOLEAN :
        LET rank == IF Len(dims) > Len(y) THEN Len(dims) ELSE Len(y)
            X == Aligned(dims, rank)
            Y == Aligned(y, rank) IN
        /\ Broadcastable(X, Y)
        /\ uni => Len(y) <= Len(dims) /\ Broadcasted(X, Y) = X
        /\ \E known \in SUBSET DOMAIN y :
             LET p == Operand(y, known) IN
             /\ \A i \in 1..rank : 0 \in {X[i], Y[i]} /\ X[i] # Y[i] =>
                  Prepend1s(type, rank)[i].lit \/ Prepend1s(p, rank)[i].lit
             /\ ComputeShapeAndUpdateType(Broadcast(type, Hide(p), uni),
                  Broadcast(ShapeAsDims(type, dims), p, uni), Broadcasted(X, Y), BroadcastRefused(type, p))
  BY Zenon DEF BroadcastOp, Infer
<1> DEFINE rank == IF Len(dims) > Len(y) THEN Len(dims) ELSE Len(y)
           X == Aligned(dims, rank)
           Y == Aligned(y, rank)
           S == ShapeAsDims(type, dims)
           want == Broadcasted(X, Y)
<1>2. PICK known \in SUBSET DOMAIN y :
        LET p == Operand(y, known) IN
        /\ \A i \in 1..rank : 0 \in {X[i], Y[i]} /\ X[i] # Y[i] =>
             Prepend1s(type, rank)[i].lit \/ Prepend1s(p, rank)[i].lit
        /\ ComputeShapeAndUpdateType(Broadcast(type, Hide(p), uni), Broadcast(S, p, uni),
                                     want, BroadcastRefused(type, p))
  BY <1>1, Zenon
<1> DEFINE p == Operand(y, known)
           x1 == Prepend1s(type, rank)
           l1 == Prepend1s(S, rank)
           x2 == Prepend1s(Hide(p), rank)
           l2 == Prepend1s(p, rank)
<1>3. /\ dims \in Seq(Nat) /\ Len(dims) \in Nat /\ y \in Seq(Nat) /\ Len(y) \in Nat
      /\ \A i \in DOMAIN y : y[i] \in Int
      /\ dims \in Seq(Int) /\ y \in Seq(Int)
  BY ShapeType DEF Inv
<1>4. Computes(type, S, dims) /\ Computes(Hide(p), p, y)
  BY <1>3, FollowedOperand, OtherOperand
<1>5. /\ Len(type) = Len(dims) /\ Len(S) = Len(dims)
      /\ Len(Hide(p)) = Len(y) /\ Len(p) = Len(y)
  BY <1>3, <1>4, ComputesLen
<1>6. rank \in Nat /\ Len(dims) <= rank /\ Len(y) <= rank
  BY <1>3
<1>7. /\ Broadcast(type, Hide(p), uni) = [i \in 1..rank |-> BroadcastDim(x1[i], x2[i], uni)]
      /\ Broadcast(S, p, uni) = [i \in 1..rank |-> BroadcastDim(l1[i], l2[i], uni)]
      /\ BroadcastRefused(type, p) <=>
           \E i \in 1..rank : /\ IsLitOtherThan(x1[i], 1) /\ IsLitOtherThan(l2[i], 1)
                              /\ x1[i].val # l2[i].val
  BY <1>5 DEF Broadcast, BroadcastRefused, Larger
<1>8. /\ Broadcastable(X, Y)
      /\ uni => Broadcasted(X, Y) = X
      /\ \A i \in 1..rank : (X[i] = 0 \/ Y[i] = 0) /\ X[i] # Y[i] => x1[i].lit \/ l2[i].lit
  BY <1>1, <1>2
<1> HIDE DEF rank
<1>9. /\ Computes(x1, l1, X) /\ Computes(x2, l2, Y)
      /\ DOMAIN X = 1..rank /\ DOMAIN Y = 1..rank
      /\ \A i \in 1..rank : X[i] \in Nat /\ Y[i] \in Nat
  <2>1. /\ X \in Seq(Nat) /\ DOMAIN X = 1..rank
        /\ Y \in Seq(Nat) /\ DOMAIN Y = 1..rank
    BY <1>3, <1>6, AlignedIs
  <2>2. \A i \in 1..rank : X[i] \in Nat /\ Y[i] \in Nat
    BY <2>1, LenProperties
  <2>3. QED BY <1>3, <1>4, <1>6, <2>1, <2>2, PrependComputes
<1> HIDE DEF p, x1, x2, l1, l2, X, Y, S
<1>10. ASSUME NEW i \in 1..rank
       PROVE  /\ Same(x1[i], l1[i]) /\ l1[i].val = X[i]
              /\ Same(x2[i], l2[i]) /\ l2[i].val = Y[i]
              /\ X[i] = Y[i] \/ X[i] = 1 \/ Y[i] = 1
  BY <1>8, <1>9 DEF Computes, Broadcastable
<1>11. want = [i \in 1..rank |-> IF X[i] = 1 THEN Y[i] ELSE X[i]]
  BY <1>9 DEF Broadcasted
<1>12. ASSUME NEW i \in 1..rank
       PROVE  /\ Same(BroadcastDim(x1[i], x2[i], uni), BroadcastDim(l1[i], l2[i], uni))
              /\ BroadcastDim(l1[i], l2[i], uni).val = want[i]
  <2>1. uni /\ X[i] = 1 => Y[i] = 1
    BY <1>8, <1>11
  <2>2. (X[i] = 0 \/ Y[i] = 0) /\ X[i] # Y[i] => l1[i].lit \/ l2[i].lit
    BY <1>8, <1>10 DEF Same
  <2>3. l1[i] \in Exprs /\ l2[i] \in Exprs
    BY <1>10 DEF Same
  <2>4. BroadcastDim(l1[i], l2[i], uni).val = IF X[i] = 1 THEN Y[i] ELSE X[i]
    BY <1>9, <1>10, <2>1, <2>2, <2>3, BroadcastDimSize
  <2>5. QED BY <1>10, <1>11, <2>4, BroadcastDimSame
<1> HIDE DEF want
<1>13. Computes(Broadcast(type, Hide(p), uni), Broadcast(S, p, uni), want)
  BY <1>7, <1>11, <1>12 DEF Computes, On, Same
<1>14. ~BroadcastRefused(type, p)
  BY <1>7, <1>10 DEF IsLitOtherThan, Same
<1>15. BroadcastRefused(type, p) = FALSE
  BY <1>14 DEF BroadcastRefused
<1>16. ComputeShapeAndUpdateType(Broadcast(type, Hide(p), uni), Broadcast(S, p, uni), want,
                                 BroadcastRefused(type, p))
  BY <1>2, Zenon DEF p, want
<1>17. QED BY <1>13, <1>15, <1>16, ComputesSound
-----------------------------------------------------------------------------
(* What holds of each place holds of the shape.                            *)
LEMMA ComputesAtEach ==
  ASSUME NEW D, NEW x, NEW l, NEW s,
         x = [i \in D |-> x[i]], l = [i \in D |-> l[i]], DOMAIN s = D,
         \A i \in D : Same(x[i], l[i]) /\ l[i].val = s[i]
  PROVE  Computes(x, l, s)
<1>1. \A i \in D : x[i] \in Exprs /\ l[i] \in Exprs
  BY DEF Same
<1>2. x \in [D -> Exprs] /\ l \in [D -> Exprs]
  BY <1>1
<1>3. QED BY <1>2 DEF Computes, On

(* The followed value, place by place.                                     *)
LEMMA Followed ==
  ASSUME Inv
  PROVE  /\ Len(dims) \in Nat /\ Len(type) = Len(dims) /\ Len(ShapeAsDims(type, dims)) = Len(dims)
         /\ dims \in Seq(Nat) /\ dims \in Seq(Int)
         /\ type \in Seq(Exprs) /\ ShapeAsDims(type, dims) \in Seq(Exprs)
         /\ DOMAIN dims = 1..Len(dims) /\ DOMAIN type = DOMAIN dims
         /\ DOMAIN ShapeAsDims(type, dims) = DOMAIN dims
         /\ \A i \in DOMAIN dims : /\ Same(type[i], ShapeAsDims(type, dims)[i])
                                   /\ ShapeAsDims(type, dims)[i].val = dims[i]
                                   /\ dims[i] \in Nat /\ dims[i] \in Int
<1>1. dims \in Shapes
  BY DEF Inv
<1>2. Computes(type, ShapeAsDims(type, dims), dims)
  BY FollowedOperand
<1>3. QED BY <1>1, <1>2, ShapeType, ComputesLen DEF Computes

(* Dims that become 1.                                                     *)
LEMMA OnesSound ==
  ASSUME Inv, NEW axes \in SUBSET DOMAIN dims, NEW x, NEW l,
         x = [i \in DOMAIN type |-> IF i \in axes THEN Lit(1) ELSE type[i]],
         l = [i \in DOMAIN ShapeAsDims(type, dims) |->
                IF i \in axes THEN Lit(1) ELSE ShapeAsDims(type, dims)[i]],
         ComputeShapeAndUpdateType(x, l, Ones(axes), FALSE)
  PROVE  Inv'
<1> DEFINE S == ShapeAsDims(type, dims)
<1>1. /\ x = [i \in DOMAIN dims |-> IF i \in axes THEN Lit(1) ELSE type[i]]
      /\ l = [i \in DOMAIN dims |-> IF i \in axes THEN Lit(1) ELSE S[i]]
  BY Followed
<1>2. \A i \in DOMAIN dims : Same(type[i], S[i]) /\ S[i].val = dims[i]
  BY Followed
<1> HIDE DEF S
<1>3. Same(Lit(1), Lit(1)) /\ Lit(1).val = 1
  BY SameLit
<1>4. Computes(x, l, Ones(axes))
  BY <1>1, <1>2, <1>3, ComputesAtEach DEF Ones
<1>5. QED BY <1>4, ComputesSound

(* Reductions that keep the dims.                                          *)
LEMMA ReduceSound ==
  ASSUME Inv, ReduceOp(TRUE)
  PROVE  Inv'
<1> DEFINE S == ShapeAsDims(type, dims)
<1>1. PICK axes \in SUBSET DOMAIN dims :
        ComputeShapeAndUpdateType(Reduce(type, axes, TRUE), Reduce(S, axes, TRUE), Ones(axes), FALSE)
  BY Zenon DEF ReduceOp, Infer, Reduced
<1>2. \A x : Reduce(x, axes, TRUE) = [i \in DOMAIN x |-> IF i \in axes THEN Lit(1) ELSE x[i]]
  BY DEF Reduce
<1>3. QED BY <1>1, <1>2, OnesSound

(* ArgMin and ArgMax that keep their axis.                                 *)
LEMMA ArgMinMaxSound ==
  ASSUME Inv, ArgMinMaxOp(TRUE)
  PROVE  Inv'
<1> DEFINE S == ShapeAsDims(type, dims)
<1>1. PICK axis \in DOMAIN dims :
        ComputeShapeAndUpdateType(ArgMinMax(type, axis, TRUE), ArgMinMax(S, axis, TRUE),
                                  Ones({axis}), FALSE)
  BY Zenon DEF ArgMinMaxOp, Infer
<1>2. DOMAIN type = 1..Len(type) /\ DOMAIN S = 1..Len(S)
  BY Followed
<1> HIDE DEF S
<1>3. /\ ArgMinMax(type, axis, TRUE) =
           [i \in DOMAIN type |-> IF i \in {axis} THEN Lit(1) ELSE type[i]]
      /\ ArgMinMax(S, axis, TRUE) =
           [i \in DOMAIN S |-> IF i \in {axis} THEN Lit(1) ELSE S[i]]
  BY <1>2 DEF ArgMinMax
<1>4. QED BY <1>1, <1>3, OnesSound DEF S

(* The global poolings.                                                    *)
LEMMA GlobalPoolSound ==
  ASSUME Inv, GlobalPoolOp
  PROVE  Inv'
<1> DEFINE S == ShapeAsDims(type, dims)
           axes == 3..Len(dims)
<1>1. ComputeShapeAndUpdateType(GlobalPool(type), GlobalPool(S), Ones(axes), FALSE)
  BY Zenon DEF GlobalPoolOp, Infer
<1>2. DOMAIN type = 1..Len(dims) /\ DOMAIN S = 1..Len(dims) /\ Len(dims) \in Nat
  BY Followed
<1>3. ASSUME NEW x, DOMAIN x = 1..Len(dims)
      PROVE  GlobalPool(x) = [i \in DOMAIN x |-> IF i \in axes THEN Lit(1) ELSE x[i]]
  BY <1>2, <1>3 DEF GlobalPool
<1>4. axes \in SUBSET DOMAIN dims
  BY Followed
<1> HIDE DEF axes
<1>5. /\ GlobalPool(type) = [i \in DOMAIN type |-> IF i \in axes THEN Lit(1) ELSE type[i]]
      /\ GlobalPool(S) = [i \in DOMAIN S |-> IF i \in axes THEN Lit(1) ELSE S[i]]
  BY <1>2, <1>3
<1>6. QED BY <1>1, <1>4, <1>5, OnesSound

(* Transpose.                                                              *)
LEMMA TransposeSound ==
  ASSUME Inv, TransposeOp
  PROVE  Inv'
<1> DEFINE S == ShapeAsDims(type, dims)
<1>1. PICK perm \in [DOMAIN dims -> DOMAIN dims] :
        ComputeShapeAndUpdateType(Transpose(type, perm), Transpose(S, perm),
                                  [i \in DOMAIN dims |-> dims[perm[i]]], FALSE)
  BY Zenon DEF TransposeOp, Infer
<1>2. /\ Transpose(type, perm) = [i \in DOMAIN dims |-> type[perm[i]]]
      /\ Transpose(S, perm) = [i \in DOMAIN dims |-> S[perm[i]]]
  BY Followed DEF Transpose
<1>3. \A i \in DOMAIN dims : Same(type[i], S[i]) /\ S[i].val = dims[i]
  BY Followed
<1> HIDE DEF S
<1>4. Computes(Transpose(type, perm), Transpose(S, perm), [i \in DOMAIN dims |-> dims[perm[i]]])
  BY <1>2, <1>3, ComputesAtEach
<1>5. QED BY <1>1, <1>4, ComputesSound
-----------------------------------------------------------------------------
(* How many positions there are between two, and pairs of positions.       *)
LEMMA PositionsBetween ==
  ASSUME NEW a \in Int, NEW b \in Int, NEW c \in Int, a + b + c >= 0
  PROVE  Cardinality((0 - a)..(b - 1 + c)) = a + b + c
<1> DEFINE lo == 0 - a
           hi == b - 1 + c
<1>1. lo \in Int /\ hi \in Int /\ hi - lo + 1 = a + b + c /\ (lo > hi => a + b + c = 0)
  OBVIOUS
<1>2. Cardinality(lo..hi) = IF lo > hi THEN 0 ELSE hi - lo + 1
  BY <1>1, FS_Interval
<1> HIDE DEF lo, hi
<1>3. Cardinality(lo..hi) = a + b + c
  BY <1>1, <1>2
<1>4. QED BY <1>3 DEF lo, hi

(* The number of positions of repeated dims.                               *)
LEMMA PairsOfPositions ==
  ASSUME NEW m \in Nat, NEW n \in Nat
  PROVE  Cardinality((1..m) \X (1..n)) = m * n
<1>1. /\ IsFiniteSet(1..m) /\ Cardinality(1..m) = m
      /\ IsFiniteSet(1..n) /\ Cardinality(1..n) = n
  BY FS_Interval
<1>2. Cardinality((1..m) \X (1..n)) = Cardinality(1..m) * Cardinality(1..n)
  BY <1>1, FS_Product, Zenon
<1>3. QED BY <1>1, <1>2

(* Padding: the result has the positions between the first and the last,   *)
(* counted from where the operand starts.                                  *)
LEMMA PadSound ==
  ASSUME Inv, PadOp
  PROVE  Inv'
<1> DEFINE S == ShapeAsDims(type, dims)
           n == Len(dims)
           want(sizes) == [i \in DOMAIN dims |->
                             Cardinality((0 - sizes[i])..(dims[i] - 1 + sizes[i + n]))]
<1>0. PICK sizes \in [1..(2 * n) -> -1..1] : \E p \in Constants(sizes) :
        /\ \A i \in DOMAIN dims : sizes[i] + dims[i] + sizes[i + n] >= 0
        /\ ComputeShapeAndUpdateType(Pad(type, Hide(p)), Pad(S, p), want(sizes), FALSE)
  BY Zenon DEF PadOp, Infer
<1>1. PICK p \in Constants(sizes) :
        /\ \A i \in DOMAIN dims : sizes[i] + dims[i] + sizes[i + n] >= 0
        /\ ComputeShapeAndUpdateType(Pad(type, Hide(p)), Pad(S, p), want(sizes), FALSE)
  BY <1>0
<1> DEFINE x == Pad(type, Hide(p))
           l == Pad(S, p)
<1>2. DOMAIN sizes = 1..(2 * n) /\ \A i \in 1..(2 * n) : sizes[i] \in Int
  OBVIOUS
<1>3. \A i \in 1..(2 * n) : Same(Hide(p)[i], p[i]) /\ p[i].val = sizes[i]
  BY <1>2, ConstantOperand DEF Computes
<1>4. /\ n \in Nat /\ Len(type) = n /\ Len(S) = n
      /\ DOMAIN dims = 1..n /\ DOMAIN type = 1..n /\ DOMAIN S = 1..n
      /\ \A i \in 1..n : Same(type[i], S[i]) /\ S[i].val = dims[i] /\ dims[i] \in Nat
  BY Followed
<1> HIDE DEF S, n
<1>5. /\ x = [i \in 1..n |-> Add(Add(Hide(p)[i], type[i]), Hide(p)[i + n])]
      /\ l = [i \in 1..n |-> Add(Add(p[i], S[i]), p[i + n])]
  BY <1>4 DEF Pad
<1> HIDE DEF x, l
<1>6. ASSUME NEW i \in 1..n
      PROVE  Same(x[i], l[i]) /\ l[i].val = want(sizes)[i]
  <2>1. i \in 1..(2 * n) /\ i + n \in 1..(2 * n)
    BY <1>4
  <2>2. /\ Same(Hide(p)[i], p[i]) /\ Same(Hide(p)[i + n], p[i + n]) /\ Same(type[i], S[i])
        /\ p[i].val = sizes[i] /\ p[i + n].val = sizes[i + n] /\ S[i].val = dims[i]
        /\ sizes[i] \in Int /\ sizes[i + n] \in Int /\ dims[i] \in Nat
    BY <1>2, <1>3, <1>4, <2>1
  <2>3. Same(Add(Add(Hide(p)[i], type[i]), Hide(p)[i + n]), Add(Add(p[i], S[i]), p[i + n]))
    BY <2>2, SameArithmetic
  <2>4. l[i].val = sizes[i] + dims[i] + sizes[i + n]
    BY <1>5, <2>2 DEF Add, Binary
  <2>5. sizes[i] + dims[i] + sizes[i + n] >= 0
    BY <1>1, <1>4
  <2>6. Cardinality((0 - sizes[i])..(dims[i] - 1 + sizes[i + n])) = sizes[i] + dims[i] + sizes[i + n]
    <3> DEFINE a == sizes[i]
               b == dims[i]
               c == sizes[i + n]
    <3>1. a \in Int /\ b \in Int /\ c \in Int /\ a + b + c >= 0
      BY <2>2, <2>5
    <3> HIDE DEF a, b, c
    <3>2. Cardinality((0 - a)..(b - 1 + c)) = a + b + c
      BY <3>1, PositionsBetween
    <3>3. QED BY <3>2 DEF a, b, c
  <2>7. want(sizes)[i] = Cardinality((0 - sizes[i])..(dims[i] - 1 + sizes[i + n]))
    BY <1>4
  <2>8. QED BY <1>5, <2>3, <2>4, <2>6, <2>7
<1>7. DOMAIN want(sizes) = 1..n
  BY <1>4
<1> HIDE DEF want
<1>8. Computes(x, l, want(sizes))
  BY <1>5, <1>6, <1>7, ComputesAtEach
<1>9. QED BY <1>1, <1>8, ComputesSound DEF x, l

(* Tile.                                                                   *)
LEMMA TileSound ==
  ASSUME Inv, TileOp
  PROVE  Inv'
<1> DEFINE S == ShapeAsDims(type, dims)
           D == DOMAIN dims
           want(r) == [i \in D |-> Cardinality((1..dims[i]) \X (1..r[i]))]
<1>0. PICK r \in [D -> 0..2] : \E p \in Constants(r) :
        ComputeShapeAndUpdateType(Tile(type, Hide(p)), Tile(S, p), want(r), FALSE)
  BY Zenon DEF TileOp, Infer
<1>1. PICK p \in Constants(r) :
        ComputeShapeAndUpdateType(Tile(type, Hide(p)), Tile(S, p), want(r), FALSE)
  BY <1>0
<1> DEFINE x == Tile(type, Hide(p))
           l == Tile(S, p)
<1>2. DOMAIN r = D /\ \A i \in D : r[i] \in Nat /\ r[i] \in Int
  OBVIOUS
<1>3. \A i \in D : Same(Hide(p)[i], p[i]) /\ p[i].val = r[i]
  BY <1>2, ConstantOperand DEF Computes
<1>4. /\ DOMAIN type = D /\ DOMAIN S = D
      /\ \A i \in D : Same(type[i], S[i]) /\ S[i].val = dims[i] /\ dims[i] \in Nat
  BY Followed
<1> HIDE DEF S, D
<1>5. /\ x = [i \in D |-> Mul(type[i], Hide(p)[i])]
      /\ l = [i \in D |-> Mul(S[i], p[i])]
  BY <1>4 DEF Tile
<1> HIDE DEF x, l
<1>6. ASSUME NEW i \in D
      PROVE  Same(x[i], l[i]) /\ l[i].val = want(r)[i]
  <2>1. Same(x[i], l[i])
    BY <1>3, <1>4, <1>5, SameArithmetic
  <2>2. l[i].val = dims[i] * r[i]
    BY <1>3, <1>4, <1>5 DEF Mul, Binary
  <2>4. dims[i] \in Nat /\ r[i] \in Nat
    BY <1>2, <1>4
  <2>5. Cardinality((1..dims[i]) \X (1..r[i])) = dims[i] * r[i]
    BY <2>4, PairsOfPositions
  <2>6. QED BY <2>1, <2>2, <2>5
<1>7. DOMAIN want(r) = D
  OBVIOUS
<1> HIDE DEF want
<1>8. Computes(x, l, want(r))
  BY <1>5, <1>6, <1>7, ComputesAtEach
<1>9. QED BY <1>1, <1>8, ComputesSound DEF x, l

(* TopK.                                                                   *)
LEMMA TopKSound ==
  ASSUME Inv, TopKOp
  PROVE  Inv'
<1> DEFINE S == ShapeAsDims(type, dims)
<1>0. PICK axis \in DOMAIN dims : \E k \in 0..dims[axis] : \E p \in Constants(<<k>>) :
        ComputeShapeAndUpdateType(TopK(type, axis, Hide(p)[1]), TopK(S, axis, p[1]),
                                  [dims EXCEPT ![axis] = k], TopKRefused(type, axis, p[1]))
  BY Zenon DEF TopKOp, Infer
<1>1. PICK k \in 0..dims[axis] : \E p \in Constants(<<k>>) :
        ComputeShapeAndUpdateType(TopK(type, axis, Hide(p)[1]), TopK(S, axis, p[1]),
                                  [dims EXCEPT ![axis] = k], TopKRefused(type, axis, p[1]))
  BY <1>0
<1>9. PICK p \in Constants(<<k>>) :
        ComputeShapeAndUpdateType(TopK(type, axis, Hide(p)[1]), TopK(S, axis, p[1]),
                                  [dims EXCEPT ![axis] = k], TopKRefused(type, axis, p[1]))
  BY <1>1
<1> DEFINE x == TopK(type, axis, Hide(p)[1])
           l == TopK(S, axis, p[1])
           want == [dims EXCEPT ![axis] = k]
<1>2. /\ DOMAIN type = DOMAIN dims /\ DOMAIN S = DOMAIN dims
      /\ \A i \in DOMAIN dims : Same(type[i], S[i]) /\ S[i].val = dims[i] /\ dims[i] \in Nat
  BY Followed
<1>3. k \in Int /\ k <= dims[axis]
  BY <1>2
<1>4. Same(Hide(p)[1], p[1]) /\ p[1].val = k
  <2>1. DOMAIN <<k>> = {1} /\ \A i \in DOMAIN <<k>> : <<k>>[i] \in Int
    BY <1>3
  <2>2. QED BY <2>1, ConstantOperand DEF Computes
<1> HIDE DEF S
<1>5. /\ x = [i \in DOMAIN dims |-> IF i = axis THEN Hide(p)[1] ELSE type[i]]
      /\ l = [i \in DOMAIN dims |-> IF i = axis THEN p[1] ELSE S[i]]
      /\ want = [i \in DOMAIN dims |-> IF i = axis THEN k ELSE dims[i]]
  BY <1>2 DEF TopK
<1> HIDE DEF x, l, want
<1>6. Computes(x, l, want)
  BY <1>2, <1>4, <1>5, ComputesAtEach
<1>7. TopKRefused(type, axis, p[1]) = FALSE
  BY <1>2, <1>3, <1>4 DEF TopKRefused, Same, Exprs
<1>8. QED BY <1>9, <1>6, <1>7, ComputesSound DEF x, l, want

(* Concat, the empty operand that is skipped included.                     *)
LEMMA ConcatSound ==
  ASSUME Inv, ConcatOp
  PROVE  Inv'
<1> DEFINE S == ShapeAsDims(type, dims)
           D == DOMAIN dims
<1>1. /\ Len(type) = Len(dims) /\ Len(S) = Len(dims) /\ Len(dims) \in Nat
      /\ D = 1..Len(dims) /\ DOMAIN type = D /\ DOMAIN S = D
      /\ \A i \in D : Same(type[i], S[i]) /\ S[i].val = dims[i] /\ dims[i] \in Nat
  BY Followed
<1>2. Computes(type, S, dims)
  BY FollowedOperand
<1>3. EmptyInput(S) <=> EmptyInput(type)
  BY <1>1 DEF EmptyInput, IsLit, Same
<1>4. ASSUME NEW axis \in D, NEW y \in Shapes, NEW known \in SUBSET DOMAIN y,
             Len(y) = Len(dims), \A i \in D \ {axis} : y[i] = dims[i],
             ComputeShapeAndUpdateType(Concat(type, Hide(Operand(y, known)), axis),
               Concat(S, Operand(y, known), axis), [dims EXCEPT ![axis] = @ + y[axis]], FALSE)
      PROVE  Inv'
  <2> DEFINE p == Operand(y, known)
             q == Hide(p)
             want == [dims EXCEPT ![axis] = @ + y[axis]]
  <2>1. /\ y \in Seq(Int) /\ DOMAIN y = D /\ \A i \in D : y[i] \in Int /\ y[i] \in Nat
    BY <1>1, <1>4, ShapeType
  <2>2. Computes(q, p, y)
    BY <2>1, OtherOperand
  <2>3. /\ Len(q) = Len(dims) /\ Len(p) = Len(dims)
        /\ \A i \in D : Same(q[i], p[i]) /\ p[i].val = y[i]
    BY <1>4, <2>1, <2>2, ComputesLen DEF Computes
  <2> HIDE DEF p, q, S
  <2>4. EmptyInput(q) <=> EmptyInput(p)
    BY <1>1, <2>3 DEF EmptyInput, IsLit, Same
  <2>5. want = [i \in D |-> IF i = axis THEN dims[i] + y[i] ELSE dims[i]]
    OBVIOUS
  <2> HIDE DEF want
  <2>6. CASE EmptyInput(type)
    <3>1. Len(dims) = 1 /\ dims[1] = 0
      BY <1>1, <2>6 DEF EmptyInput, IsLit, Same
    <3>2. \A i \in D : want[i] = y[i]
      BY <1>1, <2>1, <2>5, <3>1
    <3>3. Concat(type, q, axis) = q /\ Concat(S, p, axis) = p
      BY <1>3, <2>6 DEF Concat
    <3>4. Computes(q, p, want)
      BY <2>1, <2>2, <2>5, <3>2 DEF Computes, On
    <3>5. QED BY <1>4, <3>3, <3>4, ComputesSound DEF p, q, want
  <2>7. CASE ~EmptyInput(type) /\ EmptyInput(q)
    <3>1. Len(dims) = 1 /\ y[1] = 0
      BY <1>1, <2>3, <2>7 DEF EmptyInput, IsLit, Same
    <3>2. \A i \in D : want[i] = dims[i]
      BY <1>1, <2>1, <2>5, <3>1
    <3>3. Concat(type, q, axis) = type /\ Concat(S, p, axis) = S
      BY <1>3, <2>4, <2>7 DEF Concat
    <3>4. Computes(type, S, want)
      BY <1>2, <2>5, <3>2 DEF Computes, On
    <3>5. QED BY <1>4, <3>3, <3>4, ComputesSound DEF p, q, want, S
  <2>8. CASE ~EmptyInput(type) /\ ~EmptyInput(q)
    <3> DEFINE x == Concat(type, q, axis)
               l == Concat(S, p, axis)
    <3>1. /\ x = [i \in D |-> IF i = axis THEN Add(type[i], q[i])
                              ELSE IF q[i].lit THEN q[i] ELSE type[i]]
          /\ l = [i \in D |-> IF i = axis THEN Add(S[i], p[i])
                              ELSE IF p[i].lit THEN p[i] ELSE S[i]]
      BY <1>1, <1>3, <2>4, <2>8 DEF Concat
    <3> HIDE DEF x, l
    <3>2. ASSUME NEW i \in D PROVE Same(x[i], l[i]) /\ l[i].val = want[i]
      <4>1. Same(Add(type[i], q[i]), Add(S[i], p[i])) /\ Add(S[i], p[i]).val = dims[i] + y[i]
        BY <1>1, <2>3, SameArithmetic DEF Add, Binary
      <4>2. CASE i = axis
        BY <2>5, <3>1, <4>1, <4>2
      <4>3. CASE i # axis
        <5>1. y[i] = dims[i]
          BY <1>4, <4>3
        <5>2. (q[i].lit <=> p[i].lit) /\ Same(q[i], p[i]) /\ Same(type[i], S[i])
          BY <1>1, <2>3 DEF Same
        <5>3. QED BY <1>1, <2>3, <2>5, <3>1, <4>3, <5>1, <5>2
      <4>4. QED BY <4>2, <4>3
    <3>3. Computes(x, l, want)
      BY <2>5, <3>1, <3>2, ComputesAtEach
    <3>4. QED BY <1>4, <3>3, ComputesSound DEF p, q, want, x, l
  <2>9. QED BY <2>6, <2>7, <2>8
<1>5. CASE ComputeShapeAndUpdateType(Concat(type, Hide(Literals(<<0>>)), 1),
             Concat(S, Literals(<<0>>), 1), dims, FALSE)
  <2> DEFINE p == Literals(<<0>>)
             q == Hide(p)
  <2>0. DOMAIN <<0>> = {1} /\ <<0>>[1] = 0 /\ 1..1 = {1}
    OBVIOUS
  <2>1. p = [i \in {1} |-> Lit(0)]
    BY <2>0 DEF Literals
  <2> HIDE DEF p
  <2>6. q = [i \in {1} |-> Lit(0)]
    BY <2>1 DEF Hide, Lit
  <2> HIDE DEF q, S
  <2>7. Len(p) = 1 /\ Len(q) = 1
    BY <2>0, <2>1, <2>6, LenIs
  <2>2. EmptyInput(p) /\ EmptyInput(q)
    BY <2>1, <2>6, <2>7 DEF EmptyInput, IsLit, Lit
  <2>3. CASE EmptyInput(type)
    <3>1. Concat(type, q, 1) = q /\ Concat(S, p, 1) = p
      BY <1>3, <2>3 DEF Concat
    <3>2. Len(dims) = 1 /\ dims[1] = 0
      BY <1>1, <2>3 DEF EmptyInput, IsLit, Same
    <3>3. Same(q[1], p[1]) /\ p[1].val = 0
      BY <2>1, <2>6, SameLit
    <3>4. DOMAIN dims = {1} /\ q = [i \in {1} |-> q[i]] /\ p = [i \in {1} |-> p[i]]
      BY <1>1, <2>1, <2>6, <3>2
    <3>5. Computes(q, p, dims)
      BY <3>2, <3>3, <3>4, ComputesAtEach
    <3>6. QED BY <1>5, <3>1, <3>5, ComputesSound DEF p, q
  <2>4. CASE ~EmptyInput(type)
    <3>1. Concat(type, q, 1) = type /\ Concat(S, p, 1) = S
      BY <1>3, <2>2, <2>4 DEF Concat
    <3>2. QED BY <1>2, <1>5, <3>1, ComputesSound DEF p, q, S
  <2>5. QED BY <2>3, <2>4
<1>6. \/ \E axis \in D, y \in Shapes : \E known \in SUBSET DOMAIN y :
           /\ Len(y) = Len(dims)
           /\ \A i \in D \ {axis} : y[i] = dims[i]
           /\ ComputeShapeAndUpdateType(Concat(type, Hide(Operand(y, known)), axis),
                Concat(S, Operand(y, known), axis), [dims EXCEPT ![axis] = @ + y[axis]], FALSE)
      \/ ComputeShapeAndUpdateType(Concat(type, Hide(Literals(<<0>>)), 1),
           Concat(S, Literals(<<0>>), 1), dims, FALSE)
  BY Zenon DEF ConcatOp, Infer
<1>7. QED BY <1>4, <1>5, <1>6, Zenon
-----------------------------------------------------------------------------
(* Joined shapes and parts of shapes are computed from the shapes.         *)
LEMMA JoinComputes ==
  ASSUME NEW s \in Seq(Int), NEW x, NEW l, Computes(x, l, s),
         NEW t \in Seq(Int), NEW y, NEW m, Computes(y, m, t)
  PROVE  Computes(x \o y, l \o m, s \o t) /\ s \o t \in Seq(Int)
<1> DEFINE n == Len(s) + Len(t)
<1>1. /\ Len(s) \in Nat /\ DOMAIN s = 1..Len(s) /\ Len(x) = Len(s) /\ Len(l) = Len(s)
      /\ x \in Seq(Exprs) /\ l \in Seq(Exprs)
  BY ComputesLen
<1>2. /\ Len(t) \in Nat /\ DOMAIN t = 1..Len(t) /\ Len(y) = Len(t) /\ Len(m) = Len(t)
      /\ y \in Seq(Exprs) /\ m \in Seq(Exprs)
  BY ComputesLen
<1>3. /\ s \o t \in Seq(Int) /\ Len(s \o t) = n
      /\ \A i \in 1..n : (s \o t)[i] = IF i <= Len(s) THEN s[i] ELSE t[i - Len(s)]
  BY ConcatProperties
<1>4. /\ x \o y \in Seq(Exprs) /\ Len(x \o y) = n
      /\ \A i \in 1..n : (x \o y)[i] = IF i <= Len(s) THEN x[i] ELSE y[i - Len(s)]
  <2>1. /\ x \o y \in Seq(Exprs) /\ Len(x \o y) = Len(x) + Len(y)
        /\ \A i \in 1..(Len(x) + Len(y)) : (x \o y)[i] = IF i <= Len(x) THEN x[i] ELSE y[i - Len(x)]
    BY <1>1, <1>2, ConcatProperties
  <2>2. QED BY <1>1, <1>2, <2>1
<1>5. /\ l \o m \in Seq(Exprs) /\ Len(l \o m) = n
      /\ \A i \in 1..n : (l \o m)[i] = IF i <= Len(s) THEN l[i] ELSE m[i - Len(s)]
  <2>1. /\ l \o m \in Seq(Exprs) /\ Len(l \o m) = Len(l) + Len(m)
        /\ \A i \in 1..(Len(l) + Len(m)) : (l \o m)[i] = IF i <= Len(l) THEN l[i] ELSE m[i - Len(l)]
    BY <1>1, <1>2, ConcatProperties
  <2>2. QED BY <1>1, <1>2, <2>1
<1> DEFINE X == x \o y
           L == l \o m
           w == s \o t
<1>6. /\ DOMAIN w = 1..n /\ X \in [1..n -> Exprs] /\ L \in [1..n -> Exprs]
  BY <1>3, <1>4, <1>5, LenProperties
<1> HIDE DEF X, L, w
<1>7. ASSUME NEW i \in 1..n PROVE Same(X[i], L[i]) /\ L[i].val = w[i]
  <2>1. CASE i <= Len(s)
    <3>1. i \in DOMAIN s
      BY <1>1, <2>1
    <3>2. Same(x[i], l[i]) /\ l[i].val = s[i]
      BY <3>1 DEF Computes
    <3>3. QED BY <1>3, <1>4, <1>5, <2>1, <3>2 DEF X, L, w
  <2>2. CASE ~(i <= Len(s))
    <3>1. i - Len(s) \in DOMAIN t
      BY <1>1, <1>2, <2>2
    <3>2. Same(y[i - Len(s)], m[i - Len(s)]) /\ m[i - Len(s)].val = t[i - Len(s)]
      BY <3>1 DEF Computes
    <3>3. QED BY <1>3, <1>4, <1>5, <2>2, <3>2 DEF X, L, w
  <2>3. QED BY <2>1, <2>2
<1>8. Computes(X, L, w)
  BY <1>6, <1>7 DEF Computes, On
<1>9. QED BY <1>3, <1>8 DEF X, L, w

(* A part of what computes a shape computes that part.                     *)
LEMMA PartComputes ==
  ASSUME NEW s \in Seq(Int), NEW x, NEW l, Computes(x, l, s),
         NEW a \in Int, NEW b \in Int, a >= 1, b <= Len(s)
  PROVE  /\ Computes(SubSeq(x, a, b), SubSeq(l, a, b), SubSeq(s, a, b))
         /\ SubSeq(s, a, b) \in Seq(Int)
<1>1. /\ Len(s) \in Nat /\ DOMAIN s = 1..Len(s)
      /\ x \in [1..Len(s) -> Exprs] /\ l \in [1..Len(s) -> Exprs]
      /\ \A i \in 1..Len(s) : Same(x[i], l[i]) /\ l[i].val = s[i] /\ s[i] \in Int
  BY ComputesLen, LenProperties DEF Computes, On
<1> DEFINE n == IF a <= b THEN b - a + 1 ELSE 0
           X == SubSeq(x, a, b)
           L == SubSeq(l, a, b)
           w == SubSeq(s, a, b)
<1>2. n \in Nat /\ \A i \in 1..n : a + i - 1 \in 1..Len(s) /\ i \in 1..(b - a + 1)
  BY <1>1
<1>3. \A i \in a..b : x[i] \in Exprs /\ l[i] \in Exprs /\ s[i] \in Int
  BY <1>1
<1>4. /\ X \in Seq(Exprs) /\ Len(X) = n /\ \A i \in 1..(b - a + 1) : X[i] = x[a + i - 1]
  BY <1>3, SubSeqProperties
<1>5. /\ L \in Seq(Exprs) /\ Len(L) = n /\ \A i \in 1..(b - a + 1) : L[i] = l[a + i - 1]
  BY <1>3, SubSeqProperties
<1>6. /\ w \in Seq(Int) /\ Len(w) = n /\ \A i \in 1..(b - a + 1) : w[i] = s[a + i - 1]
  BY <1>3, SubSeqProperties
<1> HIDE DEF X, L, w, n
<1>7. DOMAIN w = 1..n /\ X \in [1..n -> Exprs] /\ L \in [1..n -> Exprs]
  BY <1>4, <1>5, <1>6, LenProperties
<1>8. ASSUME NEW i \in 1..n PROVE Same(X[i], L[i]) /\ L[i].val = w[i]
  BY <1>1, <1>2, <1>4, <1>5, <1>6
<1>9. Computes(X, L, w)
  BY <1>7, <1>8 DEF Computes, On
<1>10. QED BY <1>6, <1>9 DEF X, L, w

(* A shape of one dim.                                                     *)
LEMMA OneComputes ==
  ASSUME NEW e, NEW d, Same(e, d)
  PROVE  Computes(<<e>>, <<d>>, <<d.val>>) /\ <<d.val>> \in Seq(Int)
<1>1. e \in Exprs /\ d \in Exprs /\ d.val \in Int
  BY DEF Same, Exprs
<1>2. <<e>> \in [1..1 -> Exprs] /\ <<d>> \in [1..1 -> Exprs] /\ <<d.val>> \in [1..1 -> Int]
  BY <1>1
<1>3. \A i \in 1..1 : <<e>>[i] = e /\ <<d>>[i] = d /\ <<d.val>>[i] = d.val
  OBVIOUS
<1> DEFINE X == <<e>>
           L == <<d>>
           w == <<d.val>>
<1>4. X \in [1..1 -> Exprs] /\ L \in [1..1 -> Exprs] /\ w \in [1..1 -> Int] /\ DOMAIN w = 1..1
  BY <1>2
<1> HIDE DEF X, L, w
<1>5. Computes(X, L, w)
  BY <1>3, <1>4 DEF Computes, On, X, L, w
<1>6. w \in Seq(Int)
  BY <1>4, LenIs
<1>7. QED BY <1>5, <1>6 DEF X, L, w

(* Gather.                                                                 *)
LEMMA GatherSound ==
  ASSUME Inv, GatherOp
  PROVE  Inv'
<1> DEFINE S == ShapeAsDims(type, dims)
<1>0. PICK axis \in DOMAIN dims, y \in Shapes : \E known \in SUBSET DOMAIN y :
        ComputeShapeAndUpdateType(Gather(type, Hide(Operand(y, known)), axis),
          Gather(S, Operand(y, known), axis),
          SubSeq(dims, 1, axis - 1) \o y \o SubSeq(dims, axis + 1, Len(dims)), FALSE)
  BY Zenon DEF GatherOp, Infer
<1>1. PICK known \in SUBSET DOMAIN y :
        ComputeShapeAndUpdateType(Gather(type, Hide(Operand(y, known)), axis),
          Gather(S, Operand(y, known), axis),
          SubSeq(dims, 1, axis - 1) \o y \o SubSeq(dims, axis + 1, Len(dims)), FALSE)
  BY <1>0
<1> DEFINE p == Operand(y, known)
           q == Hide(p)
<1>2. /\ dims \in Seq(Int) /\ y \in Seq(Int) /\ Computes(type, S, dims)
      /\ Len(dims) \in Nat /\ axis \in 1..Len(dims)
      /\ Len(type) = Len(dims) /\ Len(S) = Len(dims)
  BY Followed, FollowedOperand, ShapeType
<1>3. Computes(q, p, y)
  BY ShapeType, OtherOperand
<1> HIDE DEF p, q, S
<1>4. /\ axis - 1 \in Int /\ axis + 1 \in Int /\ axis - 1 <= Len(dims) /\ axis + 1 >= 1
      /\ Len(dims) <= Len(dims) /\ 1 >= 1 /\ 1 \in Int /\ Len(dims) \in Int
  BY <1>2
<1> DEFINE n == Len(dims)
           b(x) == SubSeq(x, 1, axis - 1)
           e(x) == SubSeq(x, axis + 1, n)
<1>5. /\ Computes(b(type), b(S), b(dims)) /\ b(dims) \in Seq(Int)
      /\ Computes(e(type), e(S), e(dims)) /\ e(dims) \in Seq(Int)
  BY <1>2, <1>4, PartComputes
<1>6. /\ Gather(type, q, axis) = b(type) \o q \o e(type)
      /\ Gather(S, p, axis) = b(S) \o p \o e(S)
  BY <1>2 DEF Gather
<1> HIDE DEF b, e
<1>7. Computes(b(type) \o q, b(S) \o p, b(dims) \o y) /\ b(dims) \o y \in Seq(Int)
  BY <1>2, <1>3, <1>5, JoinComputes
<1>8. Computes(b(type) \o q \o e(type), b(S) \o p \o e(S), b(dims) \o y \o e(dims))
  BY <1>5, <1>7, JoinComputes
<1>9. ComputeShapeAndUpdateType(Gather(type, q, axis), Gather(S, p, axis),
                                b(dims) \o y \o e(dims), FALSE)
  BY <1>1, Zenon DEF b, e, p, q, S, n
<1>10. QED BY <1>6, <1>8, <1>9, ComputesSound

(* OneHot puts an axis of the given depth between two axes.                *)
LEMMA OneHotSound ==
  ASSUME Inv, OneHotOp
  PROVE  Inv'
<1> DEFINE S == ShapeAsDims(type, dims)
           n == Len(dims)
           b(x, axis) == SubSeq(x, 1, axis - 1)
           e(x, axis) == SubSeq(x, axis, n)
<1>1. PICK axis \in 1..(n + 1), depth \in 1..MaxDim : \E p \in Constants(<<depth>>) :
        ComputeShapeAndUpdateType(OneHot(type, axis, Hide(p)[1]), OneHot(S, axis, p[1]),
          InsertAt(dims, axis, depth), OneHotRefused(p[1]))
  BY Zenon DEF OneHotOp, Infer
<1>2. PICK p \in Constants(<<depth>>) :
        ComputeShapeAndUpdateType(OneHot(type, axis, Hide(p)[1]), OneHot(S, axis, p[1]),
          InsertAt(dims, axis, depth), OneHotRefused(p[1]))
  BY <1>1
<1>3. MaxDim \in Nat
  BY SizesAssumption
<1>4. depth \in Int /\ depth >= 1
  BY <1>3
<1>5. Same(Hide(p)[1], p[1]) /\ p[1].val = depth
  <2>1. DOMAIN <<depth>> = {1} /\ \A i \in DOMAIN <<depth>> : <<depth>>[i] \in Int
    BY <1>4
  <2>2. QED BY <2>1, ConstantOperand DEF Computes
<1>6. /\ dims \in Seq(Int) /\ Computes(type, S, dims) /\ n \in Nat
      /\ Len(type) = n /\ Len(S) = n
  BY Followed, FollowedOperand
<1> HIDE DEF S
<1>7. /\ axis - 1 \in Int /\ axis \in Int /\ axis - 1 <= Len(dims) /\ axis >= 1
      /\ Len(dims) <= Len(dims) /\ 1 >= 1 /\ 1 \in Int /\ Len(dims) \in Int
  BY <1>6
<1>8. /\ Computes(b(type, axis), b(S, axis), b(dims, axis)) /\ b(dims, axis) \in Seq(Int)
      /\ Computes(e(type, axis), e(S, axis), e(dims, axis)) /\ e(dims, axis) \in Seq(Int)
  BY <1>6, <1>7, PartComputes
<1>9. /\ OneHot(type, axis, Hide(p)[1]) = b(type, axis) \o <<Hide(p)[1]>> \o e(type, axis)
      /\ OneHot(S, axis, p[1]) = b(S, axis) \o <<p[1]>> \o e(S, axis)
      /\ InsertAt(dims, axis, depth) = b(dims, axis) \o <<depth>> \o e(dims, axis)
  BY <1>6 DEF OneHot, InsertAt
<1> HIDE DEF b, e
<1>10. Computes(<<Hide(p)[1]>>, <<p[1]>>, <<depth>>) /\ <<depth>> \in Seq(Int)
  BY <1>5, OneComputes
<1>11. /\ Computes(b(type, axis) \o <<Hide(p)[1]>>, b(S, axis) \o <<p[1]>>, b(dims, axis) \o <<depth>>)
       /\ b(dims, axis) \o <<depth>> \in Seq(Int)
  BY <1>8, <1>10, JoinComputes
<1>12. Computes(OneHot(type, axis, Hide(p)[1]), OneHot(S, axis, p[1]), InsertAt(dims, axis, depth))
  <2>1. Computes((b(type, axis) \o <<Hide(p)[1]>>) \o e(type, axis), (b(S, axis) \o <<p[1]>>) \o e(S, axis),
                 (b(dims, axis) \o <<depth>>) \o e(dims, axis))
    BY <1>8, <1>11, JoinComputes
  <2>2. QED BY <1>9, <2>1, Zenon
<1>13. OneHotRefused(p[1]) = FALSE
  BY <1>4, <1>5 DEF OneHotRefused, Same, Exprs
<1>14. QED BY <1>2, <1>12, <1>13, ComputesSound DEF S

(* A matrix and its transpose.                                             *)
LEMMA TransposedIs ==
  ASSUME NEW x, DOMAIN x = 1..2, Len(x) = 2, NEW t \in BOOLEAN
  PROVE  /\ Transposed(x, t)[1] = x[IF t THEN 2 ELSE 1]
         /\ Transposed(x, t)[2] = x[IF t THEN 1 ELSE 2]
<1>1. Reverse(x)[1] = x[2] /\ Reverse(x)[2] = x[1]
  BY DEF Reverse
<1>2. QED BY <1>1 DEF Transposed

(* Gemm.                                                                   *)
LEMMA GemmSound ==
  ASSUME Inv, GemmOp
  PROVE  Inv'
<1> DEFINE S == ShapeAsDims(type, dims)
           w(y, tA, tB) == <<Transposed(dims, tA)[1], Transposed(y, tB)[2]>>
<1>1. PICK y \in [1..2 -> 0..MaxDim], tA \in BOOLEAN, tB \in BOOLEAN :
        /\ GemmFits(dims, y, tA, tB)
        /\ \E known \in SUBSET {1, 2}, C \in Shapes :
             /\ Len(C) <= 2
             /\ Broadcastable(w(y, tA, tB), Aligned(C, 2))
             /\ Broadcasted(w(y, tA, tB), Aligned(C, 2)) = w(y, tA, tB)
             /\ ComputeShapeAndUpdateType(Gemm(type, Hide(Operand(y, known)), tA, tB),
                  Gemm(S, Operand(y, known), tA, tB), w(y, tA, tB),
                  GemmRefused(type, Operand(y, known), Literals(C), tA, tB))
  BY DEF GemmOp, Infer
<1>2. PICK known \in SUBSET {1, 2}, C \in Shapes :
             /\ Len(C) <= 2
             /\ Broadcastable(w(y, tA, tB), Aligned(C, 2))
             /\ Broadcasted(w(y, tA, tB), Aligned(C, 2)) = w(y, tA, tB)
             /\ ComputeShapeAndUpdateType(Gemm(type, Hide(Operand(y, known)), tA, tB),
                  Gemm(S, Operand(y, known), tA, tB), w(y, tA, tB),
                  GemmRefused(type, Operand(y, known), Literals(C), tA, tB))
  BY <1>1, Zenon
<1> DEFINE p == Operand(y, known)
           q == Hide(p)
           iA == IF tA THEN 2 ELSE 1
           kA == IF tA THEN 1 ELSE 2
           kB == IF tB THEN 2 ELSE 1
           jB == IF tB THEN 1 ELSE 2
<1>3. Len(dims) = 2 /\ Len(y) = 2 /\ Transposed(dims, tA)[2] = Transposed(y, tB)[1]
  BY <1>1 DEF GemmFits
<1>4. /\ DOMAIN dims = 1..2 /\ DOMAIN type = 1..2 /\ DOMAIN S = 1..2
      /\ Len(type) = 2 /\ Len(S) = 2
      /\ \A i \in 1..2 : Same(type[i], S[i]) /\ S[i].val = dims[i]
  BY <1>3, Followed
<1>5. /\ DOMAIN y = 1..2 /\ \A i \in 1..2 : y[i] \in Int
  BY SizesAssumption
<1>6. /\ DOMAIN q = 1..2 /\ DOMAIN p = 1..2
      /\ \A i \in 1..2 : Same(q[i], p[i]) /\ p[i].val = y[i]
  BY <1>5, OtherOperand DEF Computes, On
<1>7. Len(p) = 2 /\ Len(q) = 2
  <2>1. y \in [1..2 -> Int]
    BY <1>5
  <2>2. y \in Seq(Int)
    BY <1>5, <2>1, LenIs
  <2>3. QED BY <1>3, <1>5, <2>2, OtherOperand, ComputesLen
<1> HIDE DEF p, q, S
<1>8. /\ Transposed(type, tA)[1] = type[iA] /\ Transposed(type, tA)[2] = type[kA]
      /\ Transposed(S, tA)[1] = S[iA]
      /\ Transposed(dims, tA)[1] = dims[iA] /\ Transposed(dims, tA)[2] = dims[kA]
      /\ Transposed(q, tB)[2] = q[jB]
      /\ Transposed(p, tB)[2] = p[jB] /\ Transposed(p, tB)[1] = p[kB]
      /\ Transposed(y, tB)[2] = y[jB] /\ Transposed(y, tB)[1] = y[kB]
  BY <1>3, <1>4, <1>5, <1>6, <1>7, TransposedIs
<1>9. iA \in 1..2 /\ kA \in 1..2 /\ kB \in 1..2 /\ jB \in 1..2
  OBVIOUS
<1> HIDE DEF iA, kA, kB, jB
<1> DEFINE x == Gemm(type, q, tA, tB)
           l == Gemm(S, p, tA, tB)
           want == w(y, tA, tB)
<1>10. x = <<type[iA], q[jB]>> /\ l = <<S[iA], p[jB]>> /\ want = <<dims[iA], y[jB]>>
  BY <1>8 DEF Gemm
<1>11. /\ Same(type[iA], S[iA]) /\ S[iA].val = dims[iA]
       /\ Same(q[jB], p[jB]) /\ p[jB].val = y[jB]
       /\ Same(type[kA], S[kA]) /\ S[kA].val = dims[kA]
       /\ Same(q[kB], p[kB]) /\ p[kB].val = y[kB]
       /\ dims[kA] = y[kB]
  BY <1>3, <1>4, <1>6, <1>8, <1>9
<1> HIDE DEF x, l, w
<1>12. Computes(x, l, want)
  <2>1. /\ x = [i \in 1..2 |-> x[i]] /\ l = [i \in 1..2 |-> l[i]] /\ DOMAIN want = 1..2
    BY <1>10
  <2>2. \A i \in 1..2 : Same(x[i], l[i]) /\ l[i].val = want[i]
    BY <1>10, <1>11
  <2>3. QED BY <2>1, <2>2, ComputesAtEach
<1>13. ~GemmRefused(type, p, Literals(C), tA, tB)
  <2> DEFINE c == Literals(C)
             P == Prepend1s(c, 2)
             A == Aligned(C, 2)
             out == Gemm(type, p, tA, tB)
  <2>1. out = <<type[iA], p[jB]>>
    BY <1>8 DEF Gemm
  <2>2. C \in Seq(Nat) /\ Len(C) \in Nat /\ DOMAIN C = 1..Len(C) /\ \A i \in DOMAIN C : C[i] \in Int
    BY ShapeType
  <2>3. c \in [1..Len(C) -> Exprs]
    BY <2>2 DEF Literals, Lit, Exprs
  <2>4. Len(c) = Len(C)
    BY <2>2, <2>3, LenIs
  <2>5. \A i \in 1..2 : A[i] = IF i > 2 - Len(C) THEN C[i - (2 - Len(C))] ELSE 1
    BY <1>2, <2>2, AlignedIs
  <2>6. \A i \in 1..2 : P[i] = IF i > 2 - Len(C) THEN c[i - (2 - Len(C))] ELSE Lit(1)
    BY <2>4 DEF Prepend1s
  <2>7. ASSUME NEW i \in 1..2 PROVE P[i] = Lit(A[i])
    <3>1. CASE i > 2 - Len(C)
      <4>1. i - (2 - Len(C)) \in DOMAIN C
        BY <2>2, <3>1, <1>2
      <4>2. c[i - (2 - Len(C))] = Lit(C[i - (2 - Len(C))])
        BY <4>1 DEF Literals
      <4>3. QED BY <2>5, <2>6, <3>1, <4>2
    <3>2. CASE ~(i > 2 - Len(C))
      BY <2>5, <2>6, <3>2
    <3>3. QED BY <3>1, <3>2
  <2> HIDE DEF c, P, A, out
  <2>8. ASSUME NEW i \in 1..2 PROVE A[i] = 1 \/ want[i] = A[i]
    <3>1. DOMAIN want = 1..2
      BY <1>10
    <3>2. want[i] = A[i] \/ want[i] = 1 \/ A[i] = 1
      BY <1>2, <3>1 DEF Broadcastable, A
    <3>3. Broadcasted(want, A)[i] = want[i]
      BY <1>2 DEF A
    <3>4. want[i] = 1 => A[i] = 1
      BY <3>1, <3>3 DEF Broadcasted
    <3>5. QED BY <3>2, <3>4
  <2>9. ASSUME NEW i \in 1..2, P[i].val # 1 PROVE ~Clash(out[i], P[i])
    <3>1. P[i].val = A[i]
      BY <2>7 DEF Lit
    <3>2. want[i] = A[i]
      BY <2>8, <2>9, <3>1
    <3>3. out[i].lit => out[i].val = want[i]
      <4>1. out[1] = type[iA] /\ want[1] = dims[iA] /\ out[2] = p[jB] /\ want[2] = y[jB]
        BY <1>10, <2>1
      <4>2. type[iA].lit => type[iA].val = dims[iA]
        BY <1>11 DEF Same
      <4>3. CASE i = 1
        BY <4>1, <4>2, <4>3
      <4>4. CASE i = 2
        BY <1>11, <4>1, <4>4
      <4>5. QED BY <4>3, <4>4
    <3>4. QED BY <3>1, <3>2, <3>3 DEF Clash
  <2>10. ~Clash(Transposed(type, tA)[2], Transposed(p, tB)[1])
    <3>1. type[kA].lit => type[kA].val = dims[kA]
      BY <1>11 DEF Same
    <3>2. QED BY <1>8, <1>11, <3>1 DEF Clash
  <2>11. QED BY <2>9, <2>10 DEF GemmRefused, c, P, out
<1>14. GemmRefused(type, p, Literals(C), tA, tB) = FALSE
  BY <1>13 DEF GemmRefused
<1>15. QED BY <1>2, <1>12, <1>14, ComputesSound DEF x, l, p, q, S

(* A type that learns from another operand stays true.                     *)
LEMMA LearnSound ==
  ASSUME Inv, NEW x, x \in On(dims, Exprs), True(x, dims), Learn(x)
  PROVE  Inv'
<1>1. type' = Hide(x) /\ dims' = dims /\ alloc' = alloc /\ refused' = refused
  BY DEF Learn
<1>2. Hidden \in Int
  BY SizesAssumption
<1>3. /\ type' \in On(dims, Exprs) /\ True(type', dims)
      /\ \A i \in DOMAIN dims : ~type'[i].lit => type'[i].val = Hidden
  BY <1>1, <1>2 DEF Hide, On, Exprs, True, RunTime
<1>4. QED BY <1>1, <1>3 DEF Inv

(* One dim is learned.                                                     *)
LEMMA LearnOneSound ==
  ASSUME Inv, NEW i \in DOMAIN dims, NEW k \in Exprs, k.val = dims[i],
         NEW x, x = IF ~type[i].lit /\ k.lit THEN [type EXCEPT ![i] = k] ELSE type,
         Learn(x)
  PROVE  Inv'
<1>1. type \in On(dims, Exprs) /\ True(type, dims)
  BY DEF Inv
<1>2. x \in On(dims, Exprs) /\ True(x, dims)
  BY <1>1 DEF On, True
<1>3. QED BY <1>2, LearnSound

(* What Gemm learns of its operand is true.                                *)
LEMMA GemmLearnsSound ==
  ASSUME Inv, GemmLearns
  PROVE  Inv'
<1>1. PICK y \in [1..2 -> 0..MaxDim], tA \in BOOLEAN, tB \in BOOLEAN, known \in SUBSET {1, 2} :
        /\ GemmFits(dims, y, tA, tB)
        /\ Learn(GemmUpdatedA(type, Operand(y, known), tA, tB))
  BY DEF GemmLearns
<1> DEFINE p == Operand(y, known)
           kA == IF tA THEN 1 ELSE 2
           kB == IF tB THEN 2 ELSE 1
<1>2. Len(dims) = 2 /\ Len(y) = 2 /\ Transposed(dims, tA)[2] = Transposed(y, tB)[1]
  BY <1>1 DEF GemmFits
<1>3. DOMAIN dims = 1..2
  BY <1>2, Followed
<1>4. DOMAIN y = 1..2 /\ y \in [1..2 -> Int]
  BY SizesAssumption
<1>5. p \in [1..2 -> Exprs] /\ \A i \in 1..2 : p[i].val = y[i]
  BY <1>4 DEF Operand, Exprs
<1>6. Len(p) = 2
  BY <1>5, LenIs
<1> HIDE DEF p
<1>7. /\ Transposed(dims, tA)[2] = dims[kA]
      /\ Transposed(p, tB)[1] = p[kB] /\ Transposed(y, tB)[1] = y[kB]
  BY <1>2, <1>3, <1>4, <1>5, <1>6, TransposedIs
<1>8. GemmUpdatedA(type, p, tA, tB) =
        IF ~type[kA].lit /\ p[kB].lit THEN [type EXCEPT ![kA] = p[kB]] ELSE type
  BY <1>7 DEF GemmUpdatedA
<1>9. kA \in DOMAIN dims /\ p[kB] \in Exprs /\ p[kB].val = dims[kA]
  <2>1. kA \in 1..2 /\ kB \in 1..2
    OBVIOUS
  <2> HIDE DEF kA, kB
  <2>2. QED BY <1>2, <1>3, <1>5, <1>7, <2>1
<1> HIDE DEF kA, kB
<1>10. Learn(GemmUpdatedA(type, p, tA, tB))
  BY <1>1 DEF p
<1>11. QED BY <1>8, <1>9, <1>10, LearnOneSound
-----------------------------------------------------------------------------
\* Batch dims that are broadcast, of which the code sees the one that is 1.
BatchFits(b, d) ==
  /\ b.val = d.val \/ b.val = 1 \/ d.val = 1
  /\ b.val = 1 /\ d.val # 1 => b.lit \/ d.lit

(* One batch dim of a matrix product.                                      *)
LEMMA BatchDimIs ==
  ASSUME NEW a, NEW b, NEW c, NEW d, Same(a, b), Same(c, d), BatchFits(b, d)
  PROVE  /\ Same(BatchDim(a, c), BatchDim(b, d))
         /\ BatchDim(b, d).val = IF b.val = 1 THEN d.val ELSE b.val
<1> USE DEF BatchDim, BatchFits, IsLit, IsLitOtherThan, Same
<1>1. CASE a.lit /\ c.lit
  <2>1. a = b /\ c = d
    BY <1>1 DEF Exprs
  <2>2. QED BY <1>1, <2>1
<1>2. CASE a.lit /\ ~c.lit
  BY <1>2
<1>3. CASE ~a.lit /\ c.lit
  BY <1>3
<1>4. CASE ~a.lit /\ ~c.lit
  BY <1>4
<1>5. QED BY <1>1, <1>2, <1>3, <1>4 DEF Exprs

(* The first dims of a shape.                                              *)
LEMMA FirstPart ==
  ASSUME NEW s \in Seq(Nat), NEW k \in Int, k <= Len(s)
  PROVE  /\ SubSeq(s, 1, k) \in Seq(Nat) /\ Len(SubSeq(s, 1, k)) = (IF k > 0 THEN k ELSE 0)
         /\ \A i \in 1..k : SubSeq(s, 1, k)[i] = s[i]
<1>1. \A i \in 1..k : s[i] \in Nat
  BY LenProperties
<1>2. /\ SubSeq(s, 1, k) \in Seq(Nat)
      /\ Len(SubSeq(s, 1, k)) = IF 1 <= k THEN k - 1 + 1 ELSE 0
      /\ \A i \in 1..(k - 1 + 1) : SubSeq(s, 1, k)[i] = s[1 + i - 1]
  BY <1>1, SubSeqProperties
<1>3. k - 1 + 1 = k /\ (1 <= k <=> k > 0)
  OBVIOUS
<1>4. ASSUME NEW i \in 1..k PROVE SubSeq(s, 1, k)[i] = s[i]
  <2>1. 1 + i - 1 = i /\ i \in 1..(k - 1 + 1)
    OBVIOUS
  <2>2. QED BY <1>2, <2>1
<1>5. QED BY <1>2, <1>3, <1>4

\* A and L agree, and their batch dims are those of t.
Stack(A, L, t, r) ==
  /\ \A i \in 1..r : Same(A[i], L[i])
  /\ DOMAIN t = 1..(r - 2)
  /\ \A i \in 1..(r - 2) : L[i].val = t[i] /\ t[i] \in Nat

(* A stack of matrices of the rank of the result: the batch dims, the rows
   and the columns.                                                        *)
LEMMA MatrixIs ==
  ASSUME NEW s \in Seq(Nat), Len(s) > 0, NEW x, NEW l, Computes(x, l, s),
         NEW r \in Nat, r >= 2, r >= Len(s)
  PROVE  /\ Stack(Prepend1s(x, r), Prepend1s(l, r), Aligned(Batch(s), r - 2), r)
         /\ Prepend1s(x, r)[r] = x[Len(s)] /\ Prepend1s(l, r)[r] = l[Len(s)]
         /\ Len(s) > 1 => /\ Prepend1s(x, r)[r - 1] = x[Len(s) - 1]
                          /\ Prepend1s(l, r)[r - 1] = l[Len(s) - 1]
<1> DEFINE n == Len(s)
           A == Prepend1s(x, r)
           L == Prepend1s(l, r)
           T == Aligned(s, r)
           t == Aligned(Batch(s), r - 2)
<1>1. /\ n \in Nat /\ DOMAIN s = 1..n /\ Len(x) = n /\ Len(l) = n
      /\ \A i \in 1..n : s[i] \in Nat
  <2>1. s \in Seq(Int)
    BY SeqDef
  <2>2. QED BY <2>1, ComputesLen, LenProperties
<1>2. Computes(A, L, T) /\ DOMAIN T = 1..r
  BY PrependComputes, AlignedIs
<1>3. \A i \in 1..r : T[i] = IF i > r - n THEN s[i - (r - n)] ELSE 1
  BY AlignedIs
<1>4. /\ A = [i \in 1..r |-> IF i > r - n THEN x[i - (r - n)] ELSE Lit(1)]
      /\ L = [i \in 1..r |-> IF i > r - n THEN l[i - (r - n)] ELSE Lit(1)]
  BY <1>1 DEF Prepend1s
<1> DEFINE b == Batch(s)
           m == IF n > 2 THEN n - 2 ELSE 0
<1>5. b \in Seq(Nat) /\ Len(b) = m /\ \A i \in 1..m : b[i] = s[i]
  <2> DEFINE k == n - 2
  <2>1. k \in Int /\ k <= n
    BY <1>1
  <2>2. b = SubSeq(s, 1, k)
    BY DEF Batch
  <2> HIDE DEF b, k
  <2>3. b \in Seq(Nat) /\ Len(b) = (IF k > 0 THEN k ELSE 0) /\ \A i \in 1..k : b[i] = s[i]
    BY <2>1, <2>2, FirstPart
  <2>4. m = (IF k > 0 THEN k ELSE 0) /\ 1..m \subseteq 1..k
    BY <1>1 DEF k
  <2> HIDE DEF m
  <2>5. QED BY <2>3, <2>4
<1> HIDE DEF b
<1>6. m \in Nat /\ r - 2 \in Nat /\ m <= r - 2
  BY <1>1
<1>7. /\ DOMAIN t = 1..(r - 2)
      /\ \A i \in 1..(r - 2) : t[i] = IF i > (r - 2) - m THEN b[i - ((r - 2) - m)] ELSE 1
  BY <1>5, <1>6, AlignedIs DEF b
<1> HIDE DEF A, L, T, t
<1>8. ASSUME NEW i \in 1..(r - 2) PROVE L[i].val = t[i] /\ t[i] \in Nat
  <2>0. i \in 1..r
    OBVIOUS
  <2>1. i \in 1..r /\ L[i].val = T[i]
    BY <1>2, <2>0 DEF Computes
  <2>2. T[i] = t[i]
    <3>1. CASE n > 2
      <4>1. (r - 2) - m = r - n
        BY <1>1, <3>1
      <4>2. CASE i > r - n
        <5>1. i - (r - n) \in 1..m
          BY <1>1, <3>1, <4>2
        <5>2. QED BY <1>3, <1>5, <1>7, <2>1, <4>1, <4>2, <5>1
      <4>3. CASE ~(i > r - n)
        BY <1>3, <1>7, <2>1, <4>1, <4>3
      <4>4. QED BY <4>2, <4>3
    <3>2. CASE ~(n > 2)
      BY <1>1, <1>3, <1>7, <2>1, <3>2
    <3>3. QED BY <3>1, <3>2
  <2>3. T[i] \in Nat
    <3>1. T \in Seq(Nat)
      BY AlignedIs DEF T
    <3>2. QED BY <1>2, <2>1, <3>1, LenProperties
  <2>4. QED BY <2>1, <2>2, <2>3
<1>9. A[r] = x[n] /\ L[r] = l[n]
  BY <1>1, <1>4
<1>10. n > 1 => A[r - 1] = x[n - 1] /\ L[r - 1] = l[n - 1]
  BY <1>1, <1>4
<1>11. \A i \in 1..r : Same(A[i], L[i])
  BY <1>2 DEF Computes
<1>12. Stack(A, L, t, r)
  BY <1>7, <1>8, <1>11 DEF Stack
<1>13. QED BY <1>9, <1>10, <1>12 DEF A, L, t

\* The right operand as a matrix: a vector becomes a column.
Column(b) == IF Len(b) = 1 THEN Append(b, Lit(1)) ELSE b
Reduction(y) == IF Len(y) = 1 THEN 1 ELSE Len(y) - 1

(* The right operand of a matrix product: the dim that is reduced and the
   columns.                                                                *)
LEMMA RightMatrixIs ==
  ASSUME NEW y \in Seq(Nat), Len(y) > 0, NEW q, NEW p, Computes(q, p, y),
         NEW r \in Nat, r >= 2, r >= Len(y)
  PROVE  /\ Stack(Prepend1s(Column(q), r), Prepend1s(Column(p), r), Aligned(Batch(y), r - 2), r)
         /\ Prepend1s(Column(q), r)[r - 1] = q[Reduction(y)]
         /\ Prepend1s(Column(p), r)[r - 1] = p[Reduction(y)]
         /\ Len(y) > 1 => /\ Prepend1s(Column(q), r)[r] = q[Len(y)]
                          /\ Prepend1s(Column(p), r)[r] = p[Len(y)]
<1>1. y \in Seq(Int)
  BY SeqDef
<1>2. /\ Len(y) \in Nat /\ Len(q) = Len(y) /\ Len(p) = Len(y)
      /\ q \in Seq(Exprs) /\ p \in Seq(Exprs) /\ DOMAIN y = 1..Len(y)
  BY <1>1, ComputesLen
<1>3. CASE Len(y) = 1
  <2> DEFINE z == y \o <<1>>
             Q == q \o <<Lit(1)>>
             P == p \o <<Lit(1)>>
  <2>1. Same(Lit(1), Lit(1)) /\ Lit(1).val = 1 /\ Lit(1) \in Exprs
    BY SameLit DEF Same
  <2>2. Append(q, Lit(1)) = Q /\ Append(p, Lit(1)) = P
    BY <1>2, <2>1, AppendIsConcat
  <2>3. Computes(<<Lit(1)>>, <<Lit(1)>>, <<1>>) /\ <<1>> \in Seq(Int) /\ <<1>> \in Seq(Nat)
    BY <2>1, OneComputes
  <2>4. Computes(Q, P, z)
    BY <1>1, <2>3, JoinComputes
  <2>5. z \in Seq(Nat) /\ Len(z) = 2
    <3>1. Len(<<1>>) = 1
      OBVIOUS
    <3>2. z \in Seq(Nat) /\ Len(z) = Len(y) + Len(<<1>>)
      BY <2>3, ConcatProperties
    <3>3. QED BY <1>3, <3>1, <3>2
  <2>6. Q[1] = q[1] /\ P[1] = p[1]
    <3>1. <<Lit(1)>> \in Seq(Exprs) /\ Len(<<Lit(1)>>) = 1
      BY <2>1
    <3>2. QED BY <1>2, <1>3, <3>1, ConcatProperties
  <2> HIDE DEF z, Q, P
  <2>7. Batch(z) = Batch(y)
    <3>1. Batch(z) = <<>>
      BY <2>5, SubSeqEmpty DEF Batch
    <3>2. Batch(y) = <<>>
      BY <1>3, SubSeqEmpty DEF Batch
    <3>3. QED BY <3>1, <3>2
  <2>8. Column(q) = Q /\ Column(p) = P /\ Reduction(y) = 1
    BY <1>2, <1>3, <2>2 DEF Column, Reduction
  <2>9. Len(z) > 0 /\ Len(z) > 1 /\ r >= Len(z) /\ Len(z) - 1 = 1
    BY <2>5
  <2>10. /\ Stack(Prepend1s(Q, r), Prepend1s(P, r), Aligned(Batch(z), r - 2), r)
         /\ Prepend1s(Q, r)[r - 1] = Q[Len(z) - 1] /\ Prepend1s(P, r)[r - 1] = P[Len(z) - 1]
    BY <2>4, <2>5, <2>9, MatrixIs
  <2>11. ~(Len(y) > 1)
    BY <1>3
  <2>12. Prepend1s(Q, r)[r - 1] = q[1] /\ Prepend1s(P, r)[r - 1] = p[1]
    BY <2>6, <2>9, <2>10
  <2>13. QED BY <2>7, <2>8, <2>10, <2>11, <2>12
<1>4. CASE Len(y) # 1
  <2>1. Len(y) > 1
    BY <1>2, <1>4
  <2>2. Column(q) = q /\ Column(p) = p /\ Reduction(y) = Len(y) - 1
    BY <1>2, <1>4 DEF Column, Reduction
  <2>3. QED BY <2>1, <2>2, MatrixIs
<1>5. QED BY <1>3, <1>4

(* What an operand of a matrix product teaches the other.                  *)
LEMMA MatMulLearnsSound ==
  ASSUME Inv, MatMulLearns
  PROVE  Inv'
<1>1. PICK y \in Shapes : \E known \in SUBSET DOMAIN y :
        \/ MatMulFits(dims, y) /\ Learn(MatMulUpdatedA(type, Operand(y, known)))
        \/ MatMulFits(y, dims) /\ Len(dims) > 1 /\ Learn(MatMulUpdatedB(Operand(y, known), type))
  BY DEF MatMulLearns
<1>2. PICK known \in SUBSET DOMAIN y :
        \/ MatMulFits(dims, y) /\ Learn(MatMulUpdatedA(type, Operand(y, known)))
        \/ MatMulFits(y, dims) /\ Len(dims) > 1 /\ Learn(MatMulUpdatedB(Operand(y, known), type))
  BY <1>1
<1> DEFINE p == Operand(y, known)
           n == Len(dims)
           m == Len(y)
<1>3. /\ n \in Nat /\ DOMAIN dims = 1..n /\ Len(type) = n
      /\ m \in Nat /\ DOMAIN y = 1..m /\ y \in Seq(Nat) /\ y \in Seq(Int)
      /\ \A i \in DOMAIN y : y[i] \in Int
  BY Followed, ShapeType
<1>4. Computes(Hide(p), p, y)
  BY <1>3, OtherOperand
<1>5. Len(p) = m /\ \A i \in 1..m : p[i] \in Exprs /\ p[i].val = y[i]
  BY <1>3, <1>4, ComputesLen DEF Computes, Same
<1> HIDE DEF p
<1>6. CASE MatMulFits(dims, y) /\ Learn(MatMulUpdatedA(type, p))
  <2> DEFINE r == MatMulRank(type, p)
             k == Reduction(y)
  <2>1. n > 0 /\ m > 0 /\ dims[n] = y[k]
    BY <1>3, <1>6 DEF MatMulFits, Inner, Reduction
  <2>2. r \in Nat /\ r >= 2 /\ r >= m
    BY <1>3, <1>5 DEF MatMulRank, Larger
  <2>3. MatMulB(type, p)[r - 1] = p[k]
    <3>1. MatMulB(type, p) = Prepend1s(Column(p), r)
      BY DEF MatMulB, Column
    <3> HIDE DEF r
    <3>2. QED BY <1>3, <1>4, <2>1, <2>2, <3>1, RightMatrixIs
  <2>4. MatMulUpdatedA(type, p) = IF ~type[n].lit /\ p[k].lit THEN [type EXCEPT ![n] = p[k]] ELSE type
    BY <1>3, <2>3 DEF MatMulUpdatedA
  <2>5. n \in DOMAIN dims /\ k \in 1..m
    BY <1>3, <2>1 DEF Reduction
  <2> HIDE DEF k, n
  <2>6. QED BY <1>5, <1>6, <2>1, <2>4, <2>5, LearnOneSound
<1>7. CASE MatMulFits(y, dims) /\ n > 1 /\ Learn(MatMulUpdatedB(p, type))
  <2> DEFINE k == n - 1
  <2>1. n > 1 /\ m > 0 /\ y[m] = dims[k]
    <3>1. n > 1 /\ m > 0 /\ y[m] = Inner(dims)
      BY <1>7 DEF MatMulFits
    <3>2. Len(dims) # 1
      <4>1. n \in Nat /\ n > 1
        BY <1>3, <3>1, Zenon
      <4> HIDE DEF n
      <4>2. n # 1
        BY <4>1
      <4>3. QED BY <4>2 DEF n
    <3>3. Inner(dims) = dims[n - 1]
      BY <3>2 DEF Inner
    <3>4. QED BY <3>1, <3>3
  <2>2. MatMulUpdatedB(p, type) = IF ~type[k].lit /\ p[m].lit THEN [type EXCEPT ![k] = p[m]] ELSE type
    BY <1>3, <1>5 DEF MatMulUpdatedB
  <2>3. k \in DOMAIN dims /\ m \in 1..m
    BY <1>3, <2>1
  <2> HIDE DEF k, m
  <2>4. QED BY <1>5, <1>7, <2>1, <2>2, <2>3, LearnOneSound
<1>8. QED BY <1>2, <1>6, <1>7 DEF p

(* The shape of a scalar.                                                  *)
LEMMA NoneComputes == Computes(<<>>, <<>>, <<>>) /\ <<>> \in Seq(Int)
<1>1. DOMAIN <<>> = {}
  OBVIOUS
<1>2. <<>> \in [{} -> Exprs]
  OBVIOUS
<1>3. QED BY <1>1, <1>2 DEF Computes, On

(* The matrix product: the batch dims are broadcast, then come the rows of
   the left operand and the columns of the right one.                      *)
LEMMA MatMulSound ==
  ASSUME Inv, MatMulOp
  PROVE  Inv'
<1> DEFINE S == ShapeAsDims(type, dims)
           rank(y) == MatMulRank(dims, y)
           U(y) == Aligned(Batch(dims), rank(y) - 2)
           V(y) == Aligned(Batch(y), rank(y) - 2)
           w(y) == Broadcasted(U(y), V(y)) \o Rows(dims) \o Cols(y)
<1>1. PICK y \in Shapes : \E known \in SUBSET DOMAIN y :
        /\ MatMulFits(dims, y)
        /\ \A i \in 1..(rank(y) - 2) : U(y)[i] = 1 /\ V(y)[i] # 1 =>
             MatMulA(type, Operand(y, known))[i].lit \/ MatMulB(type, Operand(y, known))[i].lit
        /\ ComputeShapeAndUpdateType(MatMul(type, Hide(Operand(y, known))), MatMul(S, Operand(y, known)),
                                     w(y), MatMulRefused(type, Operand(y, known)))
  BY DEF MatMulOp, Infer
<1>2. PICK known \in SUBSET DOMAIN y :
        /\ \A i \in 1..(rank(y) - 2) : U(y)[i] = 1 /\ V(y)[i] # 1 =>
             MatMulA(type, Operand(y, known))[i].lit \/ MatMulB(type, Operand(y, known))[i].lit
        /\ ComputeShapeAndUpdateType(MatMul(type, Hide(Operand(y, known))), MatMul(S, Operand(y, known)),
                                     w(y), MatMulRefused(type, Operand(y, known)))
  BY <1>1, Zenon
<1> DEFINE p == Operand(y, known)
           q == Hide(p)
           r == rank(y)
           X == U(y)
           Y == V(y)
           A == Prepend1s(type, r)
           L == Prepend1s(S, r)
           B == Prepend1s(Column(q), r)
           M == Prepend1s(Column(p), r)
           n == Len(dims)
           m == Len(y)
           k == Reduction(y)
<1>3. /\ n \in Nat /\ DOMAIN dims = 1..n /\ Len(type) = n /\ Len(S) = n
      /\ dims \in Seq(Nat) /\ Computes(type, S, dims)
      /\ \A i \in 1..n : Same(type[i], S[i]) /\ S[i].val = dims[i]
  BY Followed, FollowedOperand
<1>4. /\ m \in Nat /\ DOMAIN y = 1..m /\ y \in Seq(Nat) /\ y \in Seq(Int)
      /\ \A i \in DOMAIN y : y[i] \in Int
  BY ShapeType
<1>5. Computes(q, p, y)
  BY <1>4, OtherOperand
<1>6. /\ Len(q) = m /\ Len(p) = m
      /\ \A i \in 1..m : Same(q[i], p[i]) /\ p[i].val = y[i]
  BY <1>4, <1>5, ComputesLen DEF Computes
<1> HIDE DEF p, q, S
<1>7. n > 0 /\ m > 0 /\ dims[n] = y[k] /\ Broadcastable(X, Y)
  BY <1>1 DEF MatMulFits, Inner, Reduction
<1>8. r \in Nat /\ r >= 2 /\ r >= m /\ r >= n
  <2>1. n \in Nat /\ m \in Nat
    BY <1>3, <1>4, Zenon
  <2>2. r = IF 2 > (IF n > m THEN n ELSE m) THEN 2 ELSE IF n > m THEN n ELSE m
    BY DEF MatMulRank, Larger
  <2> HIDE DEF r, n, m
  <2>3. QED BY <2>1, <2>2
<1>9. MatMulRank(type, q) = r /\ MatMulRank(S, p) = r /\ MatMulRank(type, p) = r
  BY <1>3, <1>6 DEF MatMulRank
<1>10. /\ MatMulA(type, q) = A /\ MatMulA(S, p) = L /\ MatMulA(type, p) = A
       /\ MatMulB(type, q) = B /\ MatMulB(S, p) = M /\ MatMulB(type, p) = M
  BY <1>9 DEF MatMulA, MatMulB, Column
<1> HIDE DEF r, rank, k
<1>11. /\ Stack(A, L, X, r) /\ A[r] = type[n] /\ L[r] = S[n]
       /\ n > 1 => A[r - 1] = type[n - 1] /\ L[r - 1] = S[n - 1]
  BY <1>3, <1>7, <1>8, MatrixIs DEF r
<1>12. /\ Stack(B, M, Y, r) /\ B[r - 1] = q[k] /\ M[r - 1] = p[k]
       /\ m > 1 => B[r] = q[m] /\ M[r] = p[m]
  BY <1>4, <1>5, <1>7, <1>8, RightMatrixIs DEF k, r
<1> HIDE DEF A, B, L, M, X, Y, U, V
<1> DEFINE xb == [i \in 1..(r - 2) |-> BatchDim(A[i], B[i])]
           lb == [i \in 1..(r - 2) |-> BatchDim(L[i], M[i])]
           wb == Broadcasted(X, Y)
           xr == IF n > 1 THEN <<A[r - 1]>> ELSE <<>>
           lr == IF n > 1 THEN <<L[r - 1]>> ELSE <<>>
           xc == IF m > 1 THEN <<B[r]>> ELSE <<>>
           lc == IF m > 1 THEN <<M[r]>> ELSE <<>>
<1>13. MatMul(type, q) = xb \o xr \o xc /\ MatMul(S, p) = lb \o lr \o lc
  BY <1>3, <1>6, <1>9, <1>10 DEF MatMul
<1>14. ASSUME NEW i \in 1..(r - 2)
       PROVE  /\ Same(A[i], L[i]) /\ L[i].val = X[i] /\ X[i] \in Nat
              /\ Same(B[i], M[i]) /\ M[i].val = Y[i] /\ Y[i] \in Nat
              /\ X[i] = Y[i] \/ X[i] = 1 \/ Y[i] = 1
              /\ X[i] = 1 /\ Y[i] # 1 => L[i].lit \/ M[i].lit
  <2>1. i \in 1..r
    BY <1>8
  <2>2. /\ Same(A[i], L[i]) /\ L[i].val = X[i] /\ X[i] \in Nat
        /\ Same(B[i], M[i]) /\ M[i].val = Y[i] /\ Y[i] \in Nat
    BY <1>11, <1>12, <2>1 DEF Stack
  <2>3. X[i] = Y[i] \/ X[i] = 1 \/ Y[i] = 1
    BY <1>7, <1>11 DEF Broadcastable, Stack
  <2>4. X[i] = 1 /\ Y[i] # 1 => A[i].lit \/ M[i].lit
    BY <1>2, <1>10 DEF X, Y, p, r
  <2>5. QED BY <2>2, <2>3, <2>4 DEF Same
<1>15. Computes(xb, lb, wb) /\ wb \in Seq(Int)
  <2>1. ASSUME NEW i \in 1..(r - 2)
        PROVE  /\ Same(BatchDim(A[i], B[i]), BatchDim(L[i], M[i]))
               /\ BatchDim(L[i], M[i]).val = IF X[i] = 1 THEN Y[i] ELSE X[i]
    <3>1. /\ Same(A[i], L[i]) /\ Same(B[i], M[i]) /\ L[i].val = X[i] /\ M[i].val = Y[i]
          /\ BatchFits(L[i], M[i])
      BY <1>14 DEF BatchFits
    <3>2. /\ Same(BatchDim(A[i], B[i]), BatchDim(L[i], M[i]))
          /\ BatchDim(L[i], M[i]).val = IF L[i].val = 1 THEN M[i].val ELSE L[i].val
      BY <3>1, BatchDimIs
    <3>3. QED BY <3>1, <3>2
  <2>2. wb = [i \in 1..(r - 2) |-> IF X[i] = 1 THEN Y[i] ELSE X[i]]
    BY <1>11 DEF Broadcasted, Stack
  <2>3. wb \in [1..(r - 2) -> Int]
    BY <1>14, <2>2
  <2>4. r - 2 \in Nat
    BY <1>8
  <2> HIDE DEF wb
  <2>5. Computes(xb, lb, wb)
    BY <2>1, <2>2, ComputesAtEach
  <2>6. QED BY <2>2, <2>3, <2>4, <2>5, LenIs
<1>16. Computes(xr, lr, Rows(dims)) /\ Rows(dims) \in Seq(Int)
  <2>1. CASE n > 1
    <3>1. n # 1 /\ n - 1 \in 1..n
      BY <1>3, <2>1
    <3>2. Rows(dims) = <<dims[n - 1]>>
      BY <3>1 DEF Rows
    <3>3. Same(A[r - 1], L[r - 1]) /\ L[r - 1].val = dims[n - 1]
      BY <1>3, <1>11, <2>1, <3>1
    <3>4. Computes(<<A[r - 1]>>, <<L[r - 1]>>, <<dims[n - 1]>>) /\ <<dims[n - 1]>> \in Seq(Int)
      BY <3>3, OneComputes
    <3>5. xr = <<A[r - 1]>> /\ lr = <<L[r - 1]>>
      BY <2>1
    <3> HIDE DEF xr, lr
    <3>6. QED BY <3>2, <3>4, <3>5, Zenon
  <2>2. CASE ~(n > 1)
    <3>1. n = 1
      BY <1>3, <1>7, <2>2
    <3>2. Rows(dims) = <<>> /\ xr = <<>> /\ lr = <<>>
      BY <2>2, <3>1 DEF Rows
    <3> HIDE DEF xr, lr
    <3>3. QED BY <3>2, NoneComputes, Zenon
  <2>3. QED BY <2>1, <2>2
<1>17. Computes(xc, lc, Cols(y)) /\ Cols(y) \in Seq(Int)
  <2>1. CASE m > 1
    <3>1. m # 1 /\ m \in 1..m
      BY <1>4, <2>1
    <3>2. Cols(y) = <<y[m]>>
      BY <3>1 DEF Cols
    <3>3. Same(B[r], M[r]) /\ M[r].val = y[m]
      BY <1>6, <1>12, <2>1, <3>1
    <3>4. Computes(<<B[r]>>, <<M[r]>>, <<y[m]>>) /\ <<y[m]>> \in Seq(Int)
      BY <3>3, OneComputes
    <3>5. xc = <<B[r]>> /\ lc = <<M[r]>>
      BY <2>1
    <3> HIDE DEF xc, lc
    <3>6. QED BY <3>2, <3>4, <3>5, Zenon
  <2>2. CASE ~(m > 1)
    <3>1. m = 1
      BY <1>4, <1>7, <2>2
    <3>2. Cols(y) = <<>> /\ xc = <<>> /\ lc = <<>>
      BY <2>2, <3>1 DEF Cols
    <3> HIDE DEF xc, lc
    <3>3. QED BY <3>2, NoneComputes, Zenon
  <2>3. QED BY <2>1, <2>2
<1> HIDE DEF xb, lb, wb, xr, lr, xc, lc
<1>18. Computes(xb \o xr, lb \o lr, wb \o Rows(dims)) /\ wb \o Rows(dims) \in Seq(Int)
  BY <1>15, <1>16, JoinComputes
<1>19. Computes((xb \o xr) \o xc, (lb \o lr) \o lc, (wb \o Rows(dims)) \o Cols(y))
  BY <1>17, <1>18, JoinComputes
<1>20. ~MatMulRefused(type, p)
  <2>1. ASSUME NEW i \in 1..(r - 2), ~IsLit(A[i], 1), ~IsLit(M[i], 1)
        PROVE  ~Clash(A[i], M[i])
    BY <1>14, <2>1 DEF IsLit, Clash, Same
  <2>2. k \in 1..m
    BY <1>4, <1>7 DEF k, Reduction
  <2>3. ~Clash(A[r], M[r - 1])
    <3>1. type[n].lit => type[n].val = dims[n]
      BY <1>3, <1>7 DEF Same
    <3>2. p[k].val = y[k]
      BY <1>6, <2>2
    <3>3. QED BY <1>7, <1>11, <1>12, <3>1, <3>2 DEF Clash
  <2>4. QED BY <1>9, <1>10, <2>1, <2>3 DEF MatMulRefused
<1>21. MatMulRefused(type, p) = FALSE
  BY <1>20 DEF MatMulRefused
<1>22. ComputeShapeAndUpdateType(MatMul(type, q), MatMul(S, p),
                                 (wb \o Rows(dims)) \o Cols(y), MatMulRefused(type, p))
  BY <1>2, Zenon DEF wb, X, Y, p, q, w
<1>23. QED BY <1>13, <1>19, <1>21, <1>22, ComputesSound
-----------------------------------------------------------------------------
(* Division by a positive literal.                                         *)
LEMMA SameDivision ==
  ASSUME NEW a, NEW b, Same(a, b), NEW n \in Nat, n > 0
  PROVE  /\ Same(FloorDiv(a, Lit(n)), FloorDiv(b, Lit(n)))
         /\ FloorDiv(b, Lit(n)).val = b.val \div n
         /\ Same(CeilDiv(a, Lit(n)), CeilDiv(b, Lit(n)))
         /\ CeilDiv(b, Lit(n)).val = 0 - ((0 - b.val) \div n)
<1>1. a.val \in Int /\ b.val \in Int /\ (a.lit <=> b.lit) /\ (a.lit => a.val = b.val)
  BY DEF Same, Exprs
<1>2. ASSUME NEW m \in Int PROVE FloorQuotient(m, n) = m \div n /\ m \div n \in Int
  BY DEF FloorQuotient
<1>3. /\ FloorDiv(a, Lit(n)) = [lit |-> a.lit /\ TRUE, val |-> a.val \div n]
      /\ FloorDiv(b, Lit(n)) = [lit |-> b.lit /\ TRUE, val |-> b.val \div n]
      /\ CeilDiv(a, Lit(n)) = [lit |-> a.lit /\ TRUE, val |-> 0 - ((0 - a.val) \div n)]
      /\ CeilDiv(b, Lit(n)) = [lit |-> b.lit /\ TRUE, val |-> 0 - ((0 - b.val) \div n)]
  BY <1>1, <1>2 DEF FloorDiv, CeilDiv, Binary, Lit
<1>4. /\ a.val \div n \in Int /\ b.val \div n \in Int
      /\ 0 - ((0 - a.val) \div n) \in Int /\ 0 - ((0 - b.val) \div n) \in Int
  BY <1>1, <1>2
<1>5. a.lit \in BOOLEAN /\ b.lit \in BOOLEAN
  BY DEF Same, Exprs
<1>6. Same(FloorDiv(a, Lit(n)), FloorDiv(b, Lit(n)))
  BY <1>1, <1>3, <1>4, <1>5 DEF Same, Exprs
<1>7. Same(CeilDiv(a, Lit(n)), CeilDiv(b, Lit(n)))
  BY <1>1, <1>3, <1>4, <1>5 DEF Same, Exprs
<1>8. QED BY <1>3, <1>6, <1>7

(* Chunks of a dim that is a multiple of their number.                     *)
LEMMA ChunkIs ==
  ASSUME NEW D \in 0..MaxDim, NEW n \in 1..3, D % n = 0, NEW i \in 1..n
  PROVE  Chunk(D, n, i) = D \div n /\ 0 - ((0 - D) \div n) = D \div n
<1> DEFINE chunk == ChunkSize(D, n)
           q == D \div n
<1>1. D \in Nat /\ MaxDim \in Nat /\ D <= MaxDim
  BY SizesAssumption
<1>2. n = 1 \/ n = 2 \/ n = 3
  OBVIOUS
<1>3. /\ q \in Nat /\ q <= D /\ D = q * n /\ 0 - ((0 - D) \div n) = q
  <2>1. CASE n = 1
    BY <1>1, <2>1
  <2>2. CASE n = 2
    BY <1>1, <2>2
  <2>3. CASE n = 3
    BY <1>1, <2>3
  <2>4. QED BY <1>2, <2>1, <2>2, <2>3
<1> HIDE DEF q
<1>4. q \in 0..MaxDim /\ (q - 1) * n < D /\ D <= q * n
  <2>1. q \in 0..MaxDim
    BY <1>1, <1>3
  <2>2. CASE n = 1
    BY <1>1, <1>3, <2>1, <2>2
  <2>3. CASE n = 2
    BY <1>1, <1>3, <2>1, <2>3
  <2>4. CASE n = 3
    BY <1>1, <1>3, <2>1, <2>4
  <2>5. QED BY <1>2, <2>2, <2>3, <2>4
<1>5. chunk \in 0..MaxDim /\ (chunk - 1) * n < D /\ D <= chunk * n
  BY <1>4 DEF ChunkSize
<1> HIDE DEF chunk
<1>6. chunk = q
  <2>0. chunk \in Int
    BY <1>1, <1>5
  <2>1. CASE n = 1
    BY <1>3, <1>5, <2>0, <2>1
  <2>2. CASE n = 2
    BY <1>3, <1>5, <2>0, <2>2
  <2>3. CASE n = 3
    BY <1>3, <1>5, <2>0, <2>3
  <2>4. QED BY <1>2, <2>1, <2>2, <2>3
<1>7. D - (i - 1) * q >= q
  <2>1. CASE n = 1
    BY <1>3, <2>1
  <2>2. CASE n = 2
    <3>1. CASE i = 1
      BY <1>3, <2>2, <3>1
    <3>2. CASE i = 2
      BY <1>3, <2>2, <3>2
    <3>3. QED BY <2>2, <3>1, <3>2
  <2>3. CASE n = 3
    <3>1. CASE i = 1
      BY <1>3, <2>3, <3>1
    <3>2. CASE i = 2
      BY <1>3, <2>3, <3>2
    <3>3. CASE i = 3
      BY <1>3, <2>3, <3>3
    <3>4. QED BY <2>3, <3>1, <3>2, <3>3
  <2>4. QED BY <1>2, <2>1, <2>2, <2>3
<1>8. (IF D - (i - 1) * chunk < chunk THEN D - (i - 1) * chunk ELSE chunk) = q
  <2>1. D - (i - 1) * q \in Int
    BY <1>1, <1>3
  <2>2. QED BY <1>3, <1>6, <1>7, <2>1
<1>9. QED BY <1>3, <1>8 DEF Chunk, ChunkStart, chunk, q

(* Split in equal parts.                                                   *)
LEMMA SplitSound ==
  ASSUME Inv, SplitOp, "split" \notin Disputed
  PROVE  Inv'
<1> DEFINE S == ShapeAsDims(type, dims)
<1>1. PICK axis \in DOMAIN dims, n \in 1..3, byAttribute \in BOOLEAN : \E i \in 1..n :
        /\ dims[axis] % n = 0
        /\ ComputeShapeAndUpdateType(Split(type, axis, SplitDim(type[axis], n, i)),
             Split(S, axis, SplitDim(S[axis], n, i)),
             [dims EXCEPT ![axis] = Chunk(dims[axis], n, i)],
             SplitRefused(type[axis], n, byAttribute))
  BY Zenon DEF SplitOp, Infer
<1>2. PICK i \in 1..n :
        /\ dims[axis] % n = 0
        /\ ComputeShapeAndUpdateType(Split(type, axis, SplitDim(type[axis], n, i)),
             Split(S, axis, SplitDim(S[axis], n, i)),
             [dims EXCEPT ![axis] = Chunk(dims[axis], n, i)],
             SplitRefused(type[axis], n, byAttribute))
  BY <1>1, Zenon
<1> DEFINE D == dims[axis]
           e == SplitDim(type[axis], n, i)
           d == SplitDim(S[axis], n, i)
<1>3. /\ DOMAIN type = DOMAIN dims /\ DOMAIN S = DOMAIN dims
      /\ \A j \in DOMAIN dims : Same(type[j], S[j]) /\ S[j].val = dims[j]
  BY Followed
<1>4. D \in 0..MaxDim /\ D \in Int
  BY ShapeType DEF Inv
<1>5. Chunk(D, n, i) = D \div n /\ 0 - ((0 - D) \div n) = D \div n
  BY <1>2, <1>4, ChunkIs
<1> HIDE DEF S
<1>6. Same(type[axis], S[axis]) /\ S[axis].val = D
  BY <1>3
<1>7. /\ Same(FloorDiv(type[axis], Lit(n)), FloorDiv(S[axis], Lit(n)))
      /\ FloorDiv(S[axis], Lit(n)).val = D \div n
      /\ Same(CeilDiv(type[axis], Lit(n)), CeilDiv(S[axis], Lit(n)))
      /\ CeilDiv(S[axis], Lit(n)).val = D \div n
  <2>1. n \in Nat /\ n > 0
    OBVIOUS
  <2>2. /\ Same(FloorDiv(type[axis], Lit(n)), FloorDiv(S[axis], Lit(n)))
        /\ FloorDiv(S[axis], Lit(n)).val = S[axis].val \div n
        /\ Same(CeilDiv(type[axis], Lit(n)), CeilDiv(S[axis], Lit(n)))
        /\ CeilDiv(S[axis], Lit(n)).val = 0 - ((0 - S[axis].val) \div n)
    BY <1>6, <2>1, SameDivision
  <2>3. QED BY <1>5, <1>6, <2>2
<1>8. Same(e, d) /\ d.val = D \div n
  <2>1. CASE type[axis].lit
    <3>1. S[axis].lit /\ type[axis].val = D
      BY <1>6, <2>1 DEF Same
    <3>2. ~(i <= 0)
      OBVIOUS
    <3>3. e = FloorDiv(type[axis], Lit(n)) /\ d = FloorDiv(S[axis], Lit(n))
      BY <1>2, <1>6, <2>1, <3>1, <3>2 DEF SplitDim
    <3>4. QED BY <1>7, <3>3
  <2>2. CASE ~type[axis].lit
    <3>1. ~S[axis].lit
      BY <1>6, <2>2 DEF Same
    <3>2. i <= n
      OBVIOUS
    <3>3. e = CeilDiv(type[axis], Lit(n)) /\ d = CeilDiv(S[axis], Lit(n))
      BY <2>2, <3>1, <3>2 DEF SplitDim
    <3>4. QED BY <1>7, <3>3
  <2>3. QED BY <2>1, <2>2
<1> HIDE DEF e, d
<1> DEFINE x == Split(type, axis, e)
           l == Split(S, axis, d)
           want == [dims EXCEPT ![axis] = Chunk(D, n, i)]
<1>9. /\ x = [j \in DOMAIN dims |-> IF j = axis THEN e ELSE type[j]]
      /\ l = [j \in DOMAIN dims |-> IF j = axis THEN d ELSE S[j]]
      /\ want = [j \in DOMAIN dims |-> IF j = axis THEN D \div n ELSE dims[j]]
  BY <1>3, <1>5 DEF Split
<1>10. SplitRefused(type[axis], n, byAttribute) = FALSE
  <2>1. type[axis].lit => type[axis].val % n = 0
    BY <1>2, <1>6 DEF Same
  <2>2. QED BY <2>1 DEF SplitRefused
<1> HIDE DEF x, l, want, D
<1>11. Computes(x, l, want)
  BY <1>3, <1>8, <1>9, ComputesAtEach
<1>12. ComputeShapeAndUpdateType(x, l, want, SplitRefused(type[axis], n, byAttribute))
  BY <1>2 DEF x, l, want, e, d, D
<1>13. QED BY <1>10, <1>11, <1>12, ComputesSound
-----------------------------------------------------------------------------
(* The positions of 0..c.                                                  *)
LEMMA CountFromZero ==
  ASSUME NEW c \in Nat
  PROVE  Cardinality(0..c) = c + 1
<1>1. Cardinality(0..c) = IF 0 > c THEN 0 ELSE c - 0 + 1
  BY FS_Interval
<1>2. QED BY <1>1

(* How many windows there are: the counts by which operators are defined   *)
(* are the quotients that the code computes.                               *)
LEMMA WindowsIs ==
  ASSUME NEW len \in Nat, NEW kd \in Nat, kd >= 1, NEW s \in 1..2
  PROVE  Windows(len, kd, s) = IF len < kd THEN 0 ELSE ((len - kd) \div s) + 1
<1> DEFINE W == {i \in 0..len : i * s + kd <= len}
           c == (len - kd) \div s
<1>0. s = 1 \/ s = 2
  OBVIOUS
<1>1. CASE len < kd
  <2>1. W = {}
    <3>1. CASE s = 1
      BY <1>1, <3>1
    <3>2. CASE s = 2
      BY <1>1, <3>2
    <3>3. QED BY <1>0, <3>1, <3>2
  <2>2. Cardinality(W) = 0
    BY <2>1, FS_EmptySet
  <2>3. QED BY <1>1, <2>2 DEF Windows
<1>2. CASE ~(len < kd)
  <2>1. c \in Nat /\ W = 0..c
    <3>1. CASE s = 1
      <4>1. c = len - kd
        BY <3>1
      <4>2. QED BY <1>2, <3>1, <4>1
    <3>2. CASE s = 2
      <4>1. c \in Int /\ 2 * c <= len - kd /\ len - kd < 2 * c + 2
        BY <3>2
      <4> HIDE DEF c
      <4>2. c \in Nat
        BY <1>2, <4>1
      <4>3. \A i \in 0..len : i * 2 + kd <= len <=> i <= c
        BY <4>1
      <4>4. c <= len
        BY <4>1
      <4>5. QED BY <3>2, <4>2, <4>3, <4>4
    <3>3. QED BY <1>0, <3>1, <3>2
  <2> HIDE DEF c
  <2>2. Cardinality(W) = c + 1
    BY <2>1, CountFromZero
  <2>3. QED BY <1>2, <2>2 DEF Windows, c
<1>3. QED BY <1>1, <1>2

(* The windows of ceil_mode when none is ignored.                          *)
LEMMA CeilWindowsIs ==
  ASSUME NEW len \in Nat, NEW kd \in Nat, kd >= 1, kd <= len, NEW s \in 1..2
  PROVE  CeilWindows(len, kd, s, len + s) = (0 - ((0 - (len - kd)) \div s)) + 1
<1> DEFINE W == {i \in 0..len : i * s < len + s /\ (i = 0 \/ (i - 1) * s + kd < len)}
           c == 0 - ((0 - (len - kd)) \div s)
<1>0. s = 1 \/ s = 2
  OBVIOUS
<1>1. c \in Nat /\ W = 0..c
  <2>1. CASE s = 1
    <3>1. c = len - kd
      BY <2>1
    <3>2. QED BY <2>1, <3>1
  <2>2. CASE s = 2
    <3>1. c \in Int /\ 2 * c >= len - kd /\ len - kd > 2 * c - 2
      BY <2>2
    <3> HIDE DEF c
    <3>2. c \in Nat /\ c <= len
      BY <3>1
    <3>3. ASSUME NEW i \in 0..len
          PROVE  (i * 2 < len + 2 /\ (i = 0 \/ (i - 1) * 2 + kd < len)) <=> i <= c
      BY <3>1, <3>2
    <3>4. QED BY <2>2, <3>2, <3>3
  <2>3. QED BY <1>0, <2>1, <2>2
<1> HIDE DEF c
<1>2. Cardinality(W) = c + 1
  BY <1>1, CountFromZero
<1>3. QED BY <1>2 DEF CeilWindows, c

(* A kernel covers at least one position.                                  *)
LEMMA ExtentIs ==
  ASSUME NEW k \in 1..2, NEW d \in 1..2
  PROVE  Extent(k, d) \in Nat /\ Extent(k, d) >= 1
<1>1. CASE k = 1
  BY <1>1 DEF Extent
<1>2. CASE k = 2
  BY <1>2 DEF Extent
<1>3. QED BY <1>1, <1>2

\* The quotients that the code computes.
WindowSize(in, k, d, s, pad, ceil) ==
  (IF ceil THEN 0 - ((0 - (in + pad - Extent(k, d))) \div s)
   ELSE (in + pad - Extent(k, d)) \div s) + 1

\* The attributes of a window.
Window(k, d, s, pad) == k \in 1..2 /\ d \in 1..2 /\ s \in 1..2 /\ pad \in 0..2

\* Inference and lowering agree on the output dim, and on the code's quotient.
WindowAgrees(a, b, c, e, d, s, pad, ceil) ==
  /\ Same(WindowDim(a, c, Lit(d), Lit(s), Lit(pad), ceil),
          WindowDim(b, e, Lit(d), Lit(s), Lit(pad), ceil))
  /\ WindowDim(b, e, Lit(d), Lit(s), Lit(pad), ceil).val =
       WindowSize(b.val, e.val, d, s, pad, ceil)

(* The extent of a kernel, as an expression.                               *)
LEMMA KdTermIs ==
  ASSUME NEW c, NEW e, Same(c, e), NEW k \in 1..2, e.val = k, NEW d \in 1..2
  PROVE  Same(KdTerm(c, Lit(d)), KdTerm(e, Lit(d))) /\ KdTerm(e, Lit(d)).val = Extent(k, d)
<1>1. /\ Same(Lit(d), Lit(d)) /\ Lit(d).val = d
      /\ Same(Lit(1), Lit(1)) /\ Lit(1).val = 1
  BY SameLit
<1>2. Same(Sub(c, Lit(1)), Sub(e, Lit(1))) /\ Sub(e, Lit(1)).val = k - 1
  BY <1>1, SameArithmetic DEF Sub, Binary
<1>3. /\ Same(Mul(Sub(c, Lit(1)), Lit(d)), Mul(Sub(e, Lit(1)), Lit(d)))
      /\ Mul(Sub(e, Lit(1)), Lit(d)).val = (k - 1) * d
  <2>1. Same(Mul(Sub(c, Lit(1)), Lit(d)), Mul(Sub(e, Lit(1)), Lit(d)))
    BY <1>1, <1>2, SameArithmetic
  <2>2. Mul(Sub(e, Lit(1)), Lit(d)).val = (k - 1) * d
    BY <1>1, <1>2 DEF Mul, Binary
  <2>3. QED BY <2>1, <2>2
<1>4. Same(KdTerm(c, Lit(d)), KdTerm(e, Lit(d)))
  BY <1>1, <1>3, SameArithmetic DEF KdTerm
<1>5. KdTerm(e, Lit(d)).val = Extent(k, d)
  BY <1>1, <1>3 DEF KdTerm, Extent, Add, Binary
<1>6. QED BY <1>4, <1>5

(* The output dim of a window that moves along an axis.                    *)
LEMMA WindowDimIs ==
  ASSUME NEW a, NEW b, Same(a, b), NEW c, NEW e, Same(c, e),
         NEW d, NEW s, NEW pad, Window(e.val, d, s, pad)
  PROVE  /\ WindowAgrees(a, b, c, e, d, s, pad, TRUE)
         /\ WindowAgrees(a, b, c, e, d, s, pad, FALSE)
<1> DEFINE k == e.val
<1>0. k \in 1..2 /\ d \in 1..2 /\ s \in 1..2 /\ pad \in 0..2
  BY DEF Window
<1> HIDE DEF k
<1>1. /\ Same(Lit(d), Lit(d)) /\ Same(Lit(pad), Lit(pad)) /\ Same(Lit(1), Lit(1))
      /\ Lit(d).val = d /\ Lit(pad).val = pad /\ Lit(1).val = 1 /\ s \in Nat /\ s > 0
  BY <1>0, SameLit
<1> DEFINE t(x, y) == Sub(Add(x, Lit(pad)), KdTerm(y, Lit(d)))
<1>2. Same(KdTerm(c, Lit(d)), KdTerm(e, Lit(d))) /\ KdTerm(e, Lit(d)).val = Extent(k, d)
  BY <1>0, KdTermIs DEF k
<1>3. Same(t(a, c), t(b, e))
  <2>1. Same(Add(a, Lit(pad)), Add(b, Lit(pad)))
    BY <1>1, SameArithmetic
  <2>2. QED BY <1>2, <2>1, SameArithmetic
<1>4. t(b, e).val = b.val + pad - Extent(k, d)
  <2>1. Add(b, Lit(pad)).val = b.val + pad
    BY <1>1 DEF Add, Binary
  <2>2. t(b, e).val = Add(b, Lit(pad)).val - KdTerm(e, Lit(d)).val
    BY DEF Sub, Binary
  <2>3. b.val \in Int /\ Extent(k, d) \in Int
    BY <1>0, ExtentIs DEF Same, Exprs
  <2>4. QED BY <1>0, <1>2, <2>1, <2>2, <2>3
<1> HIDE DEF t
<1>5. /\ Same(FloorDiv(t(a, c), Lit(s)), FloorDiv(t(b, e), Lit(s)))
      /\ FloorDiv(t(b, e), Lit(s)).val = t(b, e).val \div s
      /\ Same(CeilDiv(t(a, c), Lit(s)), CeilDiv(t(b, e), Lit(s)))
      /\ CeilDiv(t(b, e), Lit(s)).val = 0 - ((0 - t(b, e).val) \div s)
  BY <1>1, <1>3, SameDivision
<1> DEFINE o(x) == CeilDiv(x, Lit(s))
           u(x) == FloorDiv(x, Lit(s))
<1>6. /\ WindowDim(a, c, Lit(d), Lit(s), Lit(pad), TRUE) = Add(o(t(a, c)), Lit(1))
      /\ WindowDim(b, e, Lit(d), Lit(s), Lit(pad), TRUE) = Add(o(t(b, e)), Lit(1))
      /\ WindowDim(a, c, Lit(d), Lit(s), Lit(pad), FALSE) = Add(u(t(a, c)), Lit(1))
      /\ WindowDim(b, e, Lit(d), Lit(s), Lit(pad), FALSE) = Add(u(t(b, e)), Lit(1))
  BY DEF WindowDim, t
<1> HIDE DEF o, u
<1>7. /\ Same(Add(o(t(a, c)), Lit(1)), Add(o(t(b, e)), Lit(1)))
      /\ Same(Add(u(t(a, c)), Lit(1)), Add(u(t(b, e)), Lit(1)))
  BY <1>1, <1>5, SameArithmetic DEF o, u
<1>8. /\ Add(o(t(b, e)), Lit(1)).val = o(t(b, e)).val + 1
      /\ Add(u(t(b, e)), Lit(1)).val = u(t(b, e)).val + 1
  BY <1>1 DEF Add, Binary
<1>9. /\ o(t(b, e)).val = 0 - ((0 - (b.val + pad - Extent(k, d))) \div s)
      /\ u(t(b, e)).val = (b.val + pad - Extent(k, d)) \div s
  BY <1>4, <1>5 DEF o, u
<1>10. QED BY <1>6, <1>7, <1>8, <1>9 DEF WindowAgrees, WindowSize, k

(* A shape of three dims.                                                  *)
LEMMA ThreeComputes ==
  ASSUME NEW x1, NEW x2, NEW x3, NEW l1, NEW l2, NEW l3,
         Same(x1, l1), Same(x2, l2), Same(x3, l3)
  PROVE  Computes(<<x1, x2, x3>>, <<l1, l2, l3>>, <<l1.val, l2.val, l3.val>>)
<1> DEFINE x == <<x1, x2, x3>>
           l == <<l1, l2, l3>>
           w == <<l1.val, l2.val, l3.val>>
<1>1. x = [i \in 1..3 |-> x[i]] /\ l = [i \in 1..3 |-> l[i]] /\ DOMAIN w = 1..3
  OBVIOUS
<1>2. \A i \in 1..3 : Same(x[i], l[i]) /\ l[i].val = w[i]
  OBVIOUS
<1> HIDE DEF x, l, w
<1>3. Computes(x, l, w)
  BY <1>1, <1>2, ComputesAtEach
<1>4. QED BY <1>3 DEF x, l, w

(* The line that windows move along.                                       *)
LEMMA LineIs ==
  ASSUME Inv, Line
  PROVE  LET S == ShapeAsDims(type, dims) IN
         /\ Same(type[1], S[1]) /\ S[1].val = dims[1]
         /\ Same(type[2], S[2]) /\ S[2].val = dims[2]
         /\ Same(type[3], S[3]) /\ S[3].val = dims[3] /\ dims[3] \in Nat
<1>1. 1 \in DOMAIN dims /\ 2 \in DOMAIN dims /\ 3 \in DOMAIN dims
  BY Followed DEF Line
<1>2. QED BY <1>1, Followed

(* Pooling.                                                                *)
LEMMA PoolSound ==
  ASSUME Inv, NEW ceil \in BOOLEAN, PoolOp(ceil), "ceil" \notin Disputed
  PROVE  Inv'
<1> DEFINE S == ShapeAsDims(type, dims)
           len(begin, end) == dims[3] + begin + end
           count(begin, end, kd, s) ==
             IF ceil THEN CeilWindows(len(begin, end), kd, s, dims[3] + begin)
             ELSE Windows(len(begin, end), kd, s)
<1>0. Line
  BY Zenon DEF PoolOp
<1>1. PICK k \in 1..2, d \in 1..2, s \in 1..2, begin \in 0..1, end \in 0..1 :
        /\ len(begin, end) >= Extent(k, d)
        /\ ceil /\ "ceil" \notin Disputed =>
             CeilWindows(len(begin, end), Extent(k, d), s, dims[3] + begin) =
             CeilWindows(len(begin, end), Extent(k, d), s, len(begin, end) + s)
        /\ ComputeShapeAndUpdateType(
             Pool(type, WindowDim(type[3], Lit(k), Lit(d), Lit(s), Lit(begin + end), ceil)),
             Pool(S, WindowDim(S[3], Lit(k), Lit(d), Lit(s), Lit(begin + end), ceil)),
             <<dims[1], dims[2], count(begin, end, Extent(k, d), s)>>, FALSE)
  BY Zenon DEF PoolOp, Infer
<1> DEFINE n == len(begin, end)
           kd == Extent(k, d)
           pad == begin + end
           e == WindowDim(type[3], Lit(k), Lit(d), Lit(s), Lit(pad), ceil)
           f == WindowDim(S[3], Lit(k), Lit(d), Lit(s), Lit(pad), ceil)
<1>2. /\ Same(type[1], S[1]) /\ S[1].val = dims[1]
      /\ Same(type[2], S[2]) /\ S[2].val = dims[2]
      /\ Same(type[3], S[3]) /\ S[3].val = dims[3] /\ dims[3] \in Nat
  BY <1>0, LineIs
<1>3. kd \in Nat /\ kd >= 1
  BY ExtentIs
<1>4. n \in Nat /\ n >= kd /\ n = dims[3] + pad /\ pad \in 0..2
  BY <1>1, <1>2
<1>5. Same(Lit(k), Lit(k)) /\ Lit(k).val = k
  BY SameLit
<1> HIDE DEF S, pad
<1>6. Same(e, f) /\ f.val = WindowSize(S[3].val, k, d, s, pad, ceil)
  <2>1. Same(type[3], S[3]) /\ pad \in 0..2
    BY <1>2, <1>4, Zenon
  <2> DEFINE a == type[3]
             b == S[3]
             c == Lit(k)
  <2>2. Same(a, b) /\ Same(c, c) /\ c.val = k /\ Window(c.val, d, s, pad)
    BY <1>5, <2>1 DEF Window
  <2> HIDE DEF a, b, c
  <2>3. WindowAgrees(a, b, c, c, d, s, pad, TRUE) /\ WindowAgrees(a, b, c, c, d, s, pad, FALSE)
    BY <2>2, WindowDimIs, Zenon
  <2>4. WindowAgrees(a, b, c, c, d, s, pad, ceil)
    BY <2>3
  <2>5. QED BY <2>2, <2>4, Zenon DEF WindowAgrees, a, b, c
<1> HIDE DEF kd, e, f, n, len
<1>7. f.val = (IF ceil THEN 0 - ((0 - (n - kd)) \div s) ELSE (n - kd) \div s) + 1
  <2>1. S[3].val + pad - kd = n - kd
    BY <1>2, <1>3, <1>4
  <2>2. QED BY <1>6, <2>1 DEF WindowSize, kd
<1>8. count(begin, end, kd, s) = f.val
  <2>1. CASE ceil
    <3>1. count(begin, end, kd, s) = CeilWindows(n, kd, s, n + s)
      BY <1>1, <2>1 DEF n, kd
    <3>2. CeilWindows(n, kd, s, n + s) = (0 - ((0 - (n - kd)) \div s)) + 1
      BY <1>3, <1>4, CeilWindowsIs
    <3>3. QED BY <1>7, <2>1, <3>1, <3>2
  <2>2. CASE ~ceil
    <3>1. count(begin, end, kd, s) = Windows(n, kd, s)
      BY <2>2 DEF n
    <3>2. Windows(n, kd, s) = ((n - kd) \div s) + 1
      <4>1. ~(n < kd)
        BY <1>3, <1>4
      <4>2. QED BY <1>3, <1>4, <4>1, WindowsIs
    <3>3. QED BY <1>7, <2>2, <3>1, <3>2
  <2>3. QED BY <2>1, <2>2
<1> HIDE DEF count
<1>9. Pool(type, e) = <<type[1], type[2], e>> /\ Pool(S, f) = <<S[1], S[2], f>>
  BY DEF Pool
<1>10. Computes(<<type[1], type[2], e>>, <<S[1], S[2], f>>, <<S[1].val, S[2].val, f.val>>)
  BY <1>2, <1>6, ThreeComputes
<1>11. ComputeShapeAndUpdateType(Pool(type, e), Pool(S, f),
                                 <<dims[1], dims[2], count(begin, end, kd, s)>>, FALSE)
  BY <1>1, Zenon DEF e, f, S, kd, pad
<1>12. <<dims[1], dims[2], count(begin, end, kd, s)>> = <<S[1].val, S[2].val, f.val>>
  BY <1>2, <1>8
<1>13. QED BY <1>9, <1>10, <1>11, <1>12, ComputesSound

(* The weights of a convolution.                                           *)
LEMMA WeightsAre ==
  ASSUME NEW out \in 1..2, NEW k \in 1..2, NEW p \in Constants(<<out, k>>)
  PROVE  /\ Same(Hide(p)[1], p[1]) /\ p[1].val = out
         /\ Same(Hide(p)[2], p[2]) /\ p[2].val = k
<1> DEFINE w == <<out, k>>
<1>1. DOMAIN w = 1..2 /\ w[1] = out /\ w[2] = k /\ \A i \in DOMAIN w : w[i] \in Int
  OBVIOUS
<1> HIDE DEF w
<1>2. p \in Constants(w)
  BY DEF w
<1>3. Computes(Hide(p), p, w)
  BY <1>1, <1>2, ConstantOperand
<1>4. QED BY <1>1, <1>3 DEF Computes

(* A convolution with explicit pads.                                       *)
LEMMA ConvSound ==
  ASSUME Inv, ConvOp
  PROVE  Inv'
<1> DEFINE S == ShapeAsDims(type, dims)
           len(begin, end) == dims[3] + begin + end
<1>0. Line
  BY Zenon DEF ConvOp
<1>1. PICK k \in 1..2, d \in 1..2, s \in 1..2, out \in 1..2, begin \in 0..1, end \in 0..1 :
        \E p \in Constants(<<out, k>>) :
          /\ len(begin, end) >= Extent(k, d)
          /\ ComputeShapeAndUpdateType(
               Conv(type, Hide(p), WindowDim(type[3], Hide(p)[2], Lit(d), Lit(s), Lit(begin + end), FALSE)),
               Conv(S, p, WindowDim(S[3], p[2], Lit(d), Lit(s), Lit(begin + end), FALSE)),
               <<dims[1], out, Windows(len(begin, end), Extent(k, d), s)>>, FALSE)
  BY Zenon DEF ConvOp, Infer
<1>2. PICK p \in Constants(<<out, k>>) :
          /\ len(begin, end) >= Extent(k, d)
          /\ ComputeShapeAndUpdateType(
               Conv(type, Hide(p), WindowDim(type[3], Hide(p)[2], Lit(d), Lit(s), Lit(begin + end), FALSE)),
               Conv(S, p, WindowDim(S[3], p[2], Lit(d), Lit(s), Lit(begin + end), FALSE)),
               <<dims[1], out, Windows(len(begin, end), Extent(k, d), s)>>, FALSE)
  BY <1>1
<1> DEFINE n == len(begin, end)
           kd == Extent(k, d)
           pad == begin + end
           a == type[3]
           b == S[3]
           c == Hide(p)[2]
           w == p[2]
           e == WindowDim(a, c, Lit(d), Lit(s), Lit(pad), FALSE)
           f == WindowDim(b, w, Lit(d), Lit(s), Lit(pad), FALSE)
<1>3. /\ Same(type[1], S[1]) /\ S[1].val = dims[1]
      /\ Same(a, b) /\ b.val = dims[3] /\ dims[3] \in Nat
  BY <1>0, LineIs
<1>4. /\ Same(Hide(p)[1], p[1]) /\ p[1].val = out
      /\ Same(c, w) /\ w.val = k
  BY WeightsAre
<1>5. kd \in Nat /\ kd >= 1
  BY ExtentIs
<1>6. n \in Nat /\ ~(n < kd) /\ n = dims[3] + pad /\ pad \in 0..2
  BY <1>2, <1>3, <1>5
<1> HIDE DEF S, pad, a, b, c, w
<1>7. Window(w.val, d, s, pad)
  BY <1>4, <1>6 DEF Window
<1>8. Same(e, f) /\ f.val = WindowSize(b.val, w.val, d, s, pad, FALSE)
  <2>1. WindowAgrees(a, b, c, w, d, s, pad, FALSE)
    BY <1>3, <1>4, <1>7, WindowDimIs, Zenon
  <2>2. QED BY <2>1, Zenon DEF WindowAgrees
<1> HIDE DEF kd, e, f, n, len
<1>9. f.val = ((n - kd) \div s) + 1
  <2>1. b.val + pad - kd = n - kd
    BY <1>3, <1>5, <1>6
  <2>2. QED BY <1>4, <1>8, <2>1 DEF WindowSize, kd
<1>10. Windows(n, kd, s) = f.val
  BY <1>5, <1>6, <1>9, WindowsIs
<1>11. Conv(type, Hide(p), e) = <<type[1], Hide(p)[1], e>> /\ Conv(S, p, f) = <<S[1], p[1], f>>
  BY DEF Conv
<1>12. Computes(<<type[1], Hide(p)[1], e>>, <<S[1], p[1], f>>, <<S[1].val, p[1].val, f.val>>)
  BY <1>3, <1>4, <1>8, ThreeComputes
<1>13. ComputeShapeAndUpdateType(Conv(type, Hide(p), e), Conv(S, p, f),
                                 <<dims[1], out, Windows(n, kd, s)>>, FALSE)
  BY <1>2, Zenon DEF e, f, S, kd, pad, a, b, c, w, n
<1>14. <<dims[1], out, Windows(n, kd, s)>> = <<S[1].val, p[1].val, f.val>>
  BY <1>3, <1>4, <1>10
<1>15. QED BY <1>11, <1>12, <1>13, <1>14, ComputesSound

\* Quotient that rounds up, and the pads it needs on both sides.
CeilOf(n, s) == 0 - ((0 - n) \div s)
PadsNeeded(n, kd, s) == Larger((CeilOf(n, s) - 1) * s + kd - n, 0)

(* Half of the pads on one side and the rest on the other.                 *)
LEMMA HalvesAddUp ==
  ASSUME NEW sum \in Exprs, sum.val \in Nat
  PROVE  LET half == FloorDiv(sum, Lit(2))
             odd == Mod(sum, Lit(2))
             rest == Add(half, Select(Equals(odd, Lit(0)), Lit(0), Lit(1)))
         IN  half.val + rest.val = sum.val /\ half.val \in Int /\ rest.val \in Int
<1> DEFINE half == FloorDiv(sum, Lit(2))
           odd == Mod(sum, Lit(2))
           one == Select(Equals(odd, Lit(0)), Lit(0), Lit(1))
           P == sum.val
<1>1. half.val = P \div 2
  BY DEF FloorDiv, FloorQuotient, Binary, Lit
<1>2. odd.val = P % 2
  BY DEF Mod, Binary, Lit
<1> HIDE DEF half, odd
<1>3. one.val = IF P % 2 = 0 THEN 0 ELSE 1
  <2> DEFINE t == Equals(odd, Lit(0))
  <2>1. t.val <=> P % 2 = 0
    BY <1>2 DEF Equals, Binary, Lit
  <2> HIDE DEF t
  <2>2. one.val = IF t.val THEN 0 ELSE 1
    BY DEF Select, Lit, RunTime, t
  <2>3. QED BY <2>1, <2>2
<1> HIDE DEF one
<1>4. Add(half, one).val = half.val + one.val
  BY DEF Add, Binary
<1>5. P \div 2 \in Int /\ P = 2 * (P \div 2) + (IF P % 2 = 0 THEN 0 ELSE 1)
  BY DEF P
<1>6. /\ half.val + Add(half, one).val = P
      /\ half.val \in Int /\ Add(half, one).val \in Int
  BY <1>1, <1>3, <1>4, <1>5
<1>7. QED BY <1>6 DEF half, odd, one, P

(* The pads that SAME computes.                                            *)
LEMMA SamePadsAre ==
  ASSUME NEW b \in Exprs, NEW w \in Exprs, b.val \in Nat,
         NEW d \in 1..2, NEW s \in 1..2, w.val \in 1..2
  PROVE  LET pads == SamePads(b, w, Lit(d), Lit(s))
         IN  /\ pads[1].val + pads[2].val = PadsNeeded(b.val, Extent(w.val, d), s)
             /\ PadsNeeded(b.val, Extent(w.val, d), s) \in Nat
             /\ pads[1].val \in Int /\ pads[2].val \in Int
<1> DEFINE n == b.val
           k == w.val
           kd == Extent(k, d)
           u == AutoPadDim(b, Lit(s))
           v == Sub(u, Lit(1))
           m == Mul(v, Lit(s))
           t == KdTerm(w, Lit(d))
           o == Sub(Add(m, t), b)
           sum == SamePadSum(b, w, Lit(d), Lit(s))
<1>1. kd \in Nat /\ n \in Int /\ s \in Int /\ d \in Int /\ k \in Int
  BY ExtentIs
<1>2. Same(b, b) /\ Same(w, w) /\ Same(Lit(1), Lit(1)) /\ Same(Lit(s), Lit(s)) /\ Same(Lit(0), Lit(0)) /\ Same(Lit(d), Lit(d))
  BY <1>1, SameLit DEF Same
<1>3. Same(u, u) /\ u.val = CeilOf(n, s)
  <2>1. s \in Nat /\ s > 0
    OBVIOUS
  <2>2. QED BY <1>2, <2>1, SameDivision DEF AutoPadDim, CeilOf
<1> HIDE DEF u
<1>4. Same(v, v) /\ v.val = u.val - 1
  BY <1>2, <1>3, SameArithmetic DEF Sub, Binary, Lit
<1> HIDE DEF v
<1>5. Same(m, m) /\ m.val = v.val * s
  BY <1>2, <1>4, SameArithmetic DEF Mul, Binary, Lit
<1> HIDE DEF m
<1>6. Same(t, t) /\ t.val = kd
  BY <1>2, KdTermIs
<1> HIDE DEF t, kd
<1>7. Same(o, o) /\ o.val = m.val + kd - n
  <2>1. Same(Add(m, t), Add(m, t)) /\ Add(m, t).val = m.val + kd
    BY <1>5, <1>6, SameArithmetic DEF Add, Binary
  <2> DEFINE z == Add(m, t)
  <2> HIDE DEF z
  <2>2. Same(z, z) /\ z.val = m.val + kd
    BY <2>1 DEF z
  <2>3. Same(Sub(z, b), Sub(z, b)) /\ Sub(z, b).val = z.val - n
    BY <1>2, <2>2, SameArithmetic DEF Sub, Binary
  <2>4. Sub(z, b).val = m.val + kd - n
    <3>1. m.val \in Int
      BY <1>5 DEF Same, Exprs
    <3>2. QED BY <1>1, <2>2, <2>3, <3>1
  <2>5. o = Sub(z, b)
    BY DEF z
  <2> HIDE DEF o
  <2>6. QED BY <2>3, <2>4, <2>5
<1>8. sum = MaxOf(o, Lit(0))
  BY DEF SamePadSum, o, m, v, u, t
<1> HIDE DEF o, sum
<1>9. sum \in Exprs /\ sum.val = Larger(o.val, 0)
  <2>1. Same(MaxOf(o, Lit(0)), MaxOf(o, Lit(0)))
    BY <1>2, <1>7, SameArithmetic
  <2>2. o.val \in Int
    BY <1>7 DEF Same, Exprs
  <2>3. MaxOf(o, Lit(0)).val = IF 0 > o.val THEN 0 ELSE o.val
    BY DEF MaxOf, Binary, Lit
  <2>4. MaxOf(o, Lit(0)).val = Larger(o.val, 0)
    BY <2>2, <2>3 DEF Larger
  <2>5. QED BY <1>8, <2>1, <2>4 DEF Same
<1>10. o.val = (CeilOf(n, s) - 1) * s + kd - n
  BY <1>3, <1>4, <1>5, <1>7
<1>11. sum.val = PadsNeeded(n, kd, s) /\ sum.val \in Nat
  <2>1. o.val \in Int
    BY <1>7 DEF Same, Exprs
  <2>2. sum.val = PadsNeeded(n, kd, s)
    BY <1>9, <1>10 DEF PadsNeeded
  <2>3. QED BY <1>9, <2>1, <2>2 DEF Larger
<1> DEFINE pads == SamePads(b, w, Lit(d), Lit(s))
<1>12. /\ pads[1].val + pads[2].val = sum.val
       /\ pads[1].val \in Int /\ pads[2].val \in Int
  <2> DEFINE half == FloorDiv(sum, Lit(2))
             rest == Add(half, Select(Equals(Mod(sum, Lit(2)), Lit(0)), Lit(0), Lit(1)))
  <2>1. half.val + rest.val = sum.val /\ half.val \in Int /\ rest.val \in Int
    BY <1>9, <1>11, HalvesAddUp
  <2>2. pads = <<half, rest>>
    BY DEF SamePads, sum
  <2> HIDE DEF half, rest, pads
  <2>3. QED BY <2>1, <2>2
<1>13. QED BY <1>11, <1>12 DEF kd

(* With these pads there is a window for every stride that begins.         *)
LEMMA SameWindows ==
  ASSUME NEW n \in Nat, NEW kd \in Nat, kd >= 1, NEW s \in 1..2
  PROVE  Windows(n + PadsNeeded(n, kd, s), kd, s) = CeilOf(n, s)
<1> DEFINE c == CeilOf(n, s)
           P == PadsNeeded(n, kd, s)
           len == n + P
<1>0. s = 1 \/ s = 2
  OBVIOUS
<1>1. c \in Nat /\ c * s >= n /\ n > c * s - s
  <2>1. CASE s = 1
    <3>1. c = n
      BY <2>1 DEF CeilOf
    <3>2. QED BY <2>1, <3>1
  <2>2. CASE s = 2
    <3>1. c \in Int /\ 2 * c >= n /\ n > 2 * c - 2
      BY <2>2 DEF CeilOf
    <3> HIDE DEF c
    <3>2. QED BY <2>2, <3>1
  <2>3. QED BY <1>0, <2>1, <2>2
<1>2. P = Larger((c - 1) * s + kd - n, 0)
  BY DEF PadsNeeded
<1> HIDE DEF c, P
<1>3. (c - 1) * s = c * s - s /\ c * s \in Int
  <2>1. CASE s = 1
    BY <1>1, <2>1
  <2>2. CASE s = 2
    BY <1>1, <2>2
  <2>3. QED BY <1>0, <2>1, <2>2
<1>4. P \in Nat /\ P = IF (c * s - s) + kd - n > 0 THEN (c * s - s) + kd - n ELSE 0
  BY <1>1, <1>2, <1>3 DEF Larger
<1>5. /\ len \in Nat
      /\ len = IF (c * s - s) + kd - n > 0 THEN (c * s - s) + kd ELSE n
  BY <1>3, <1>4
<1> HIDE DEF len
<1>6. Windows(len, kd, s) = IF len < kd THEN 0 ELSE ((len - kd) \div s) + 1
  BY <1>5, WindowsIs
<1>7. CASE c = 0
  <2>1. n = 0 /\ c * s = 0
    BY <1>0, <1>1, <1>7
  <2>2. len < kd
    BY <1>5, <2>1
  <2>3. QED BY <1>6, <1>7, <2>2 DEF len, c, P
<1>8. CASE c # 0
  <2>1. ~(len < kd) /\ (len - kd) \div s = c - 1
    <3>1. CASE s = 1
      <4>1. len - kd = c - 1
        BY <1>1, <1>5, <3>1
      <4>2. QED BY <1>1, <1>5, <1>8, <3>1, <4>1
    <3>2. CASE s = 2
      <4>1. len - kd \in Int /\ len - kd >= 2 * (c - 1) /\ len - kd < 2 * (c - 1) + 2
        BY <1>1, <1>5, <3>2
      <4>2. \A x \in Int : x >= 2 * (c - 1) /\ x < 2 * (c - 1) + 2 => x \div 2 = c - 1
        BY <1>1
      <4>3. QED BY <1>1, <1>5, <1>8, <3>2, <4>1, <4>2
    <3>3. QED BY <1>0, <3>1, <3>2
  <2>2. Windows(len, kd, s) = c
    BY <1>1, <1>6, <2>1
  <2>3. QED BY <2>2 DEF len, c, P
<1>9. QED BY <1>7, <1>8

(* A convolution that pads itself (SAME_UPPER and SAME_LOWER).             *)
LEMMA ConvSameSound ==
  ASSUME Inv, ConvSameOp
  PROVE  Inv'
<1> DEFINE S == ShapeAsDims(type, dims)
           sum(q, d, s) == dims[3] + SamePads(S[3], q, Lit(d), Lit(s))[1].val
                                   + SamePads(S[3], q, Lit(d), Lit(s))[2].val
<1>0. Line
  BY Zenon DEF ConvSameOp
<1>1. PICK k \in 1..2, d \in 1..2, s \in 1..2, out \in 1..2 :
        \E p \in Constants(<<out, k>>) :
          ComputeShapeAndUpdateType(
            Conv(type, Hide(p), AutoPadDim(type[3], Lit(s))), Conv(S, p, AutoPadDim(S[3], Lit(s))),
            <<dims[1], out, Windows(sum(p[2], d, s), Extent(k, d), s)>>, FALSE)
  BY Zenon DEF ConvSameOp, Infer
<1>2. PICK p \in Constants(<<out, k>>) :
        ComputeShapeAndUpdateType(
          Conv(type, Hide(p), AutoPadDim(type[3], Lit(s))), Conv(S, p, AutoPadDim(S[3], Lit(s))),
          <<dims[1], out, Windows(sum(p[2], d, s), Extent(k, d), s)>>, FALSE)
  BY <1>1, Zenon
<1> DEFINE a == type[3]
           b == S[3]
           w == p[2]
           kd == Extent(k, d)
           e == AutoPadDim(a, Lit(s))
           f == AutoPadDim(b, Lit(s))
           n == dims[3]
           pads == SamePads(b, w, Lit(d), Lit(s))
<1>3. /\ Same(type[1], S[1]) /\ S[1].val = dims[1]
      /\ Same(a, b) /\ b.val = n /\ n \in Nat
  BY <1>0, LineIs
<1>4. /\ Same(Hide(p)[1], p[1]) /\ p[1].val = out
      /\ w \in Exprs /\ w.val = k
  BY WeightsAre DEF Same
<1>5. kd \in Nat /\ kd >= 1
  BY ExtentIs
<1>6. s \in Nat /\ s > 0
  OBVIOUS
<1> HIDE DEF a, b, S, w
<1>7. Same(e, f) /\ f.val = CeilOf(n, s)
  <2>1. Same(a, b)
    BY <1>3
  <2>2. /\ Same(CeilDiv(a, Lit(s)), CeilDiv(b, Lit(s)))
        /\ CeilDiv(b, Lit(s)).val = 0 - ((0 - b.val) \div s)
    BY <1>6, <2>1, SameDivision, Zenon
  <2>3. b.val = n
    BY <1>3
  <2> HIDE DEF n
  <2>4. QED BY <2>2, <2>3, Zenon DEF AutoPadDim, CeilOf
<1>8. /\ pads[1].val + pads[2].val = PadsNeeded(n, kd, s)
      /\ pads[1].val \in Int /\ pads[2].val \in Int
  <2>1. b \in Exprs /\ b.val \in Nat /\ w.val \in 1..2
    BY <1>3, <1>4 DEF Same
  <2>2. /\ pads[1].val + pads[2].val = PadsNeeded(b.val, Extent(w.val, d), s)
        /\ pads[1].val \in Int /\ pads[2].val \in Int
    BY <1>4, <2>1, SamePadsAre
  <2>3. QED BY <1>3, <1>4, <2>2
<1> HIDE DEF n, kd, e, f, pads
<1>9. n + pads[1].val + pads[2].val = n + PadsNeeded(n, kd, s)
  BY <1>3, <1>8
<1>10. Windows(n + pads[1].val + pads[2].val, kd, s) = f.val
  BY <1>3, <1>5, <1>7, <1>9, SameWindows
<1>11. Conv(type, Hide(p), e) = <<type[1], Hide(p)[1], e>> /\ Conv(S, p, f) = <<S[1], p[1], f>>
  BY DEF Conv
<1>12. Computes(<<type[1], Hide(p)[1], e>>, <<S[1], p[1], f>>, <<S[1].val, p[1].val, f.val>>)
  BY <1>3, <1>4, <1>7, ThreeComputes
<1>13. ComputeShapeAndUpdateType(Conv(type, Hide(p), e), Conv(S, p, f),
         <<dims[1], out, Windows(n + pads[1].val + pads[2].val, kd, s)>>, FALSE)
  BY <1>2, Zenon DEF e, f, S, kd, a, b, w, n, pads
<1>14. <<dims[1], out, Windows(n + pads[1].val + pads[2].val, kd, s)>> = <<S[1].val, p[1].val, f.val>>
  BY <1>3, <1>4, <1>10
<1>15. QED BY <1>11, <1>12, <1>13, <1>14, ComputesSound

(* The line that windows were taken from has the length that gives them.   *)
LEMMA WindowsUndone ==
  ASSUME NEW n \in Nat, NEW padSum \in Nat, NEW kd \in Nat, kd >= 1, NEW s \in 1..2,
         NEW D \in Nat, D > 0, Windows(n + padSum, kd, s) = D
  PROVE  (s * (D - 1) + ((n + padSum - kd) % s) + kd) - padSum = n
<1> DEFINE len == n + padSum
<1>0. s = 1 \/ s = 2
  OBVIOUS
<1>1. len \in Nat /\ Windows(len, kd, s) = D /\ len = n + padSum
  OBVIOUS
<1> HIDE DEF len
<1>2. ~(len < kd) /\ ((len - kd) \div s) + 1 = D
  <2>1. Windows(len, kd, s) = IF len < kd THEN 0 ELSE ((len - kd) \div s) + 1
    BY <1>1, WindowsIs, Zenon
  <2>2. QED BY <1>1, <2>1
<1>3. CASE s = 1
  <2>1. (len - kd) \div s = len - kd /\ (len - kd) % s = 0
    BY <1>1, <1>3
  <2>2. QED BY <1>1, <1>2, <1>3, <2>1
<1>4. CASE s = 2
  <2>1. len - kd = 2 * ((len - kd) \div 2) + ((len - kd) % 2) /\ (len - kd) \div 2 \in Int
    BY <1>1
  <2>2. QED BY <1>1, <1>2, <1>4, <2>1
<1>5. QED BY <1>0, <1>3, <1>4

\* Inference and lowering agree on the output dim, and on its value.
TransposeAgrees(a, b, c, e, d, s, padSum, outPad) ==
  /\ Same(TransposedWindowDim(a, c, Lit(d), Lit(s), Lit(padSum), Lit(outPad)),
          TransposedWindowDim(b, e, Lit(d), Lit(s), Lit(padSum), Lit(outPad)))
  /\ TransposedWindowDim(b, e, Lit(d), Lit(s), Lit(padSum), Lit(outPad)).val =
       (s * (b.val - 1) + outPad + Extent(e.val, d)) - padSum

(* The output dim of a transposed convolution.                             *)
LEMMA TransposedDimIs ==
  ASSUME NEW a, NEW b, Same(a, b), NEW c, NEW e, Same(c, e),
         NEW d, NEW s, NEW padSum, Window(e.val, d, s, padSum), NEW outPad \in 0..1
  PROVE  TransposeAgrees(a, b, c, e, d, s, padSum, outPad)
<1> DEFINE k == e.val
<1>0. k \in 1..2 /\ d \in 1..2 /\ s \in 1..2 /\ padSum \in 0..2
  BY DEF Window
<1>1. /\ Same(Lit(s), Lit(s)) /\ Lit(s).val = s
      /\ Same(Lit(d), Lit(d)) /\ Lit(d).val = d
      /\ Same(Lit(padSum), Lit(padSum)) /\ Lit(padSum).val = padSum
      /\ Same(Lit(outPad), Lit(outPad)) /\ Lit(outPad).val = outPad
      /\ Same(Lit(1), Lit(1)) /\ Lit(1).val = 1
  BY <1>0, SameLit
<1> DEFINE a1 == Sub(a, Lit(1))
           b1 == Sub(b, Lit(1))
           a2 == Mul(Lit(s), a1)
           b2 == Mul(Lit(s), b1)
           a3 == Add(a2, Lit(outPad))
           b3 == Add(b2, Lit(outPad))
           c1 == KdTerm(c, Lit(d))
           e1 == KdTerm(e, Lit(d))
           a4 == Add(a3, c1)
           b4 == Add(b3, e1)
<1>2. Same(c1, e1) /\ e1.val = Extent(k, d)
  BY <1>0, <1>1, KdTermIs
<1> HIDE DEF k
<1> HIDE DEF c1, e1
<1>3. Same(a1, b1) /\ b1.val = b.val - 1
  BY <1>1, SameArithmetic DEF Sub, Binary
<1> HIDE DEF a1, b1
<1>4. Same(a2, b2) /\ b2.val = s * b1.val
  BY <1>1, <1>3, SameArithmetic DEF Mul, Binary
<1> HIDE DEF a2, b2
<1>5. Same(a3, b3) /\ b3.val = b2.val + outPad
  BY <1>1, <1>4, SameArithmetic DEF Add, Binary
<1> HIDE DEF a3, b3
<1>6. Same(a4, b4) /\ b4.val = b3.val + e1.val
  BY <1>2, <1>5, SameArithmetic DEF Add, Binary
<1> HIDE DEF a4, b4
<1>7. Same(Sub(a4, Lit(padSum)), Sub(b4, Lit(padSum))) /\ Sub(b4, Lit(padSum)).val = b4.val - padSum
  BY <1>1, <1>6, SameArithmetic DEF Sub, Binary
<1>8. Sub(b4, Lit(padSum)).val = (s * (b.val - 1) + outPad + Extent(k, d)) - padSum
  <2>1. b4.val = s * (b.val - 1) + outPad + Extent(k, d)
    BY <1>2, <1>3, <1>4, <1>5, <1>6, Zenon
  <2>2. QED BY <1>7, <2>1, Zenon
<1>9. QED BY <1>7, <1>8, Zenon DEF TransposeAgrees, TransposedWindowDim, k, a4, b4, a3, b3, a2, b2, a1, b1, c1, e1

(* The transposed convolution.                                             *)
LEMMA ConvTransposeSound ==
  ASSUME Inv, ConvTransposeOp
  PROVE  Inv'
<1> DEFINE S == ShapeAsDims(type, dims)
           T(x, y, d, s, padSum, outPad) ==
             TransposedWindowDim(x, y, Lit(d), Lit(s), Lit(padSum), Lit(outPad))
<1>0. Line /\ dims[3] > 0
  BY Zenon DEF ConvTransposeOp
<1>1. PICK k \in 1..2, d \in 1..2, s \in 1..2, group \in 1..2,
           padSum \in 0..2, outPad \in 0..1, out \in 1..2, n \in 1..MaxDim :
        /\ outPad < s
        /\ Windows(n + padSum, Extent(k, d), s) = dims[3]
        /\ (n + padSum - Extent(k, d)) % s = outPad
        /\ \E p \in Constants(<<out, k>>) :
             ComputeShapeAndUpdateType(
               <<type[1], Mul(Hide(p)[1], Lit(group)), T(type[3], Hide(p)[2], d, s, padSum, outPad)>>,
               <<S[1], Mul(p[1], Lit(group)), T(S[3], p[2], d, s, padSum, outPad)>>,
               <<dims[1], out * group, n>>, FALSE)
  BY Zenon DEF ConvTransposeOp, Infer
<1>2. PICK p \in Constants(<<out, k>>) :
        ComputeShapeAndUpdateType(
          <<type[1], Mul(Hide(p)[1], Lit(group)), T(type[3], Hide(p)[2], d, s, padSum, outPad)>>,
          <<S[1], Mul(p[1], Lit(group)), T(S[3], p[2], d, s, padSum, outPad)>>,
          <<dims[1], out * group, n>>, FALSE)
  BY <1>1, Zenon
<1> DEFINE a == type[3]
           b == S[3]
           c == Hide(p)[2]
           w == p[2]
           D == dims[3]
           kd == Extent(k, d)
           e == T(a, c, d, s, padSum, outPad)
           f == T(b, w, d, s, padSum, outPad)
           g == Mul(Hide(p)[1], Lit(group))
           h == Mul(p[1], Lit(group))
<1>3. /\ Same(type[1], S[1]) /\ S[1].val = dims[1]
      /\ Same(a, b) /\ b.val = D /\ D \in Nat
  BY <1>0, LineIs
<1>4. /\ Same(Hide(p)[1], p[1]) /\ p[1].val = out
      /\ Same(c, w) /\ w.val = k
  BY WeightsAre
<1>5. kd \in Nat /\ kd >= 1
  BY ExtentIs
<1>6. /\ Same(Lit(group), Lit(group)) /\ Lit(group).val = group
      /\ Same(Lit(s), Lit(s)) /\ Lit(s).val = s
      /\ Same(Lit(d), Lit(d)) /\ Lit(d).val = d
      /\ Same(Lit(padSum), Lit(padSum)) /\ Lit(padSum).val = padSum
      /\ Same(Lit(outPad), Lit(outPad)) /\ Lit(outPad).val = outPad
      /\ Same(Lit(1), Lit(1)) /\ Lit(1).val = 1
  BY SameLit
<1>7. Same(g, h) /\ h.val = out * group
  <2>1. Same(g, h)
    BY <1>4, <1>6, SameArithmetic
  <2>2. h.val = p[1].val * group
    BY <1>6 DEF Mul, Binary
  <2>3. QED BY <1>4, <2>1, <2>2
<1> HIDE DEF a, b, c, w, S, D
<1>8. Same(e, f) /\ f.val = (s * (D - 1) + outPad + kd) - padSum
  <2>1. Window(w.val, d, s, padSum)
    BY <1>4 DEF Window
  <2>2. TransposeAgrees(a, b, c, w, d, s, padSum, outPad)
    BY <1>3, <1>4, <2>1, TransposedDimIs, Zenon
  <2>3. QED BY <1>3, <1>4, <2>2, Zenon DEF TransposeAgrees
<1>9. (s * (D - 1) + outPad + kd) - padSum = n
  <2>1. n \in Nat /\ padSum \in Nat
    BY SizesAssumption
  <2>2. Windows(n + padSum, kd, s) = D /\ (n + padSum - kd) % s = outPad /\ D > 0
    BY <1>0, <1>1 DEF D
  <2> HIDE DEF kd
  <2>3. QED BY <1>3, <1>5, <2>1, <2>2, WindowsUndone
<1> HIDE DEF e, f, g, h
<1>10. Computes(<<type[1], g, e>>, <<S[1], h, f>>, <<S[1].val, h.val, f.val>>)
  BY <1>3, <1>7, <1>8, ThreeComputes
<1>11. ComputeShapeAndUpdateType(<<type[1], g, e>>, <<S[1], h, f>>, <<dims[1], out * group, n>>, FALSE)
  BY <1>2, Zenon DEF e, f, g, h, S, a, b, c, w
<1>12. <<dims[1], out * group, n>> = <<S[1].val, h.val, f.val>>
  BY <1>3, <1>7, <1>8, <1>9
<1>13. QED BY <1>10, <1>11, <1>12, ComputesSound
-----------------------------------------------------------------------------
(* A shape without one of its dims.                                        *)
LEMMA RemovedAt ==
  ASSUME NEW s \in Seq(Int), NEW n \in Nat, Len(s) = n, NEW axis \in Int, 1 <= axis, axis <= n
  PROVE  /\ DOMAIN RemoveAt(s, axis) = 1..(n - 1)
         /\ \A i \in 1..(n - 1) : RemoveAt(s, axis)[i] = IF i < axis THEN s[i] ELSE s[i + 1]
<1> DEFINE b == SubSeq(s, 1, axis - 1)
           e == SubSeq(s, axis + 1, n)
           t == RemoveAt(s, axis)
<1>1. \A i \in 1..n : s[i] \in Int
  BY ElementOfSeq
<1>2. /\ b \in Seq(Int) /\ Len(b) = axis - 1
      /\ \A i \in 1..(axis - 1) : b[i] = s[i]
  <2> DEFINE m == axis - 1
  <2>0. m \in Int /\ 0 <= m
    OBVIOUS
  <2>1. \A i \in 1..m : s[i] \in Int
    BY <1>1
  <2> HIDE DEF m
  <2>2. /\ SubSeq(s, 1, m) \in Seq(Int) /\ Len(SubSeq(s, 1, m)) = IF 1 <= m THEN m - 1 + 1 ELSE 0
        /\ \A i \in 1..(m - 1 + 1) : SubSeq(s, 1, m)[i] = s[1 + i - 1]
    BY <2>0, <2>1, SubSeqProperties
  <2> DEFINE z == SubSeq(s, 1, m)
  <2> HIDE DEF z
  <2>3. z \in Seq(Int) /\ Len(z) = m /\ \A i \in 1..(m - 1 + 1) : z[i] = s[1 + i - 1]
    BY <2>0, <2>2 DEF z
  <2>4. \A i \in 1..m : i \in 1..(m - 1 + 1) /\ 1 + i - 1 = i
    BY <2>0
  <2>5. \A i \in 1..m : z[i] = s[i]
    BY <2>3, <2>4
  <2>6. QED BY <2>3, <2>5 DEF z, m
<1>3. /\ e \in Seq(Int) /\ Len(e) = n - axis
      /\ \A i \in 1..(n - axis) : e[i] = s[axis + i]
  <2> DEFINE m == axis + 1
  <2>0. m \in Int /\ m >= 2 /\ m <= n + 1 /\ axis = m - 1
    OBVIOUS
  <2> HIDE DEF m
  <2>1. \A i \in m..n : s[i] \in Int
    BY <1>1, <2>0
  <2> DEFINE z == SubSeq(s, m, n)
  <2>2. /\ z \in Seq(Int) /\ Len(z) = IF m <= n THEN n - m + 1 ELSE 0
        /\ \A i \in 1..(n - m + 1) : z[i] = s[m + i - 1]
    BY <2>0, <2>1, SubSeqProperties
  <2> HIDE DEF z
  <2>3. Len(z) = n - axis
    <3>1. CASE m <= n
      <4>1. Len(z) = n - m + 1
        BY <2>2, <3>1
      <4>2. QED BY <2>0, <4>1
    <3>2. CASE ~(m <= n)
      <4>1. Len(z) = 0
        BY <2>2, <3>2
      <4>2. QED BY <2>0, <3>2, <4>1
    <3>3. QED BY <3>1, <3>2
  <2>4. \A i \in 1..(n - axis) : i \in 1..(n - m + 1) /\ m + i - 1 = axis + i
    BY <2>0
  <2>5. \A i \in 1..(n - axis) : z[i] = s[axis + i]
    BY <2>2, <2>4
  <2>6. QED BY <2>2, <2>3, <2>5 DEF z, m
<1>4. t = b \o e
  BY DEF RemoveAt
<1> HIDE DEF b, e, t
<1>5. /\ t \in Seq(Int) /\ Len(t) = Len(b) + Len(e)
      /\ \A i \in 1..(Len(b) + Len(e)) : t[i] = IF i <= Len(b) THEN b[i] ELSE e[i - Len(b)]
  <2>1. b \in Seq(Int) /\ e \in Seq(Int)
    BY <1>2, <1>3
  <2>2. QED BY <1>4, <2>1, ConcatProperties
<1>6. Len(b) + Len(e) = n - 1 /\ Len(t) = n - 1
  BY <1>2, <1>3, <1>5
<1>7. DOMAIN t = 1..(n - 1)
  BY <1>5, <1>6, LenProperties
<1>8. ASSUME NEW i \in 1..(n - 1) PROVE t[i] = IF i < axis THEN s[i] ELSE s[i + 1]
  <2>1. t[i] = IF i <= axis - 1 THEN b[i] ELSE e[i - (axis - 1)]
    BY <1>2, <1>5, <1>6
  <2>2. CASE i < axis
    BY <1>2, <2>1, <2>2
  <2>3. CASE ~(i < axis)
    <3>1. i - (axis - 1) \in 1..(n - axis) /\ axis + (i - (axis - 1)) = i + 1
      BY <2>3
    <3>2. e[i - (axis - 1)] = s[i + 1]
      BY <1>3, <3>1
    <3>3. QED BY <2>1, <2>3, <3>2
  <2>4. QED BY <2>2, <2>3
<1>9. QED BY <1>7, <1>8 DEF t

(* ArgMin and ArgMax that drop their axis.                                 *)
LEMMA ArgMinMaxDropsSound ==
  ASSUME Inv, ArgMinMaxOp(FALSE)
  PROVE  Inv'
<1> DEFINE S == ShapeAsDims(type, dims)
           n == Len(dims)
<1>1. PICK axis \in DOMAIN dims :
        ComputeShapeAndUpdateType(ArgMinMax(type, axis, FALSE), ArgMinMax(S, axis, FALSE),
                                  RemoveAt(dims, axis), FALSE)
  BY Zenon DEF ArgMinMaxOp, Infer
<1>2. /\ n \in Nat /\ Len(type) = n /\ Len(S) = n /\ axis \in 1..n
      /\ dims \in Seq(Int) /\ DOMAIN dims = 1..n
      /\ \A i \in 1..n : Same(type[i], S[i]) /\ S[i].val = dims[i] /\ dims[i] \in Int
  BY Followed
<1> DEFINE x == ArgMinMax(type, axis, FALSE)
           l == ArgMinMax(S, axis, FALSE)
           s == RemoveAt(dims, axis)
<1>3. /\ x = [i \in 1..(n - 1) |-> IF i < axis THEN type[i] ELSE type[i + 1]]
      /\ l = [i \in 1..(n - 1) |-> IF i < axis THEN S[i] ELSE S[i + 1]]
  BY <1>2 DEF ArgMinMax
<1> HIDE DEF S, n
<1>4. /\ DOMAIN s = 1..(n - 1)
      /\ \A i \in 1..(n - 1) : s[i] = IF i < axis THEN dims[i] ELSE dims[i + 1]
  <2>1. axis \in Int /\ 1 <= axis /\ axis <= n /\ Len(dims) = n
    BY <1>2 DEF n
  <2>2. QED BY <1>2, <2>1, RemovedAt
<1> HIDE DEF x, l, s
<1>5. ASSUME NEW i \in 1..(n - 1) PROVE Same(x[i], l[i]) /\ l[i].val = s[i]
  <2>1. i \in 1..n /\ i + 1 \in 1..n
    BY <1>2
  <2>2. QED BY <1>2, <1>3, <1>4, <2>1
<1>6. Computes(x, l, s)
  BY <1>3, <1>4, <1>5, ComputesAtEach
<1>7. QED BY <1>1, <1>6, ComputesSound DEF x, l, s, S

\* Inference and lowering agree on a quotient, and on its value.
QuotientAgrees(a, b, c, d) ==
  /\ Same(CeilDiv(a, c), CeilDiv(b, d))
  /\ CeilDiv(b, d).val = 0 - FloorQuotient(0 - b.val, d.val)

NonZero(a) == a.val # 0

(* A division that rounds up, by a divisor of either sign.                 *)
LEMMA SameCeilDiv ==
  ASSUME NEW a, NEW b, NEW c, NEW d, Same(a, b), Same(c, d), NonZero(c), NonZero(d)
  PROVE  QuotientAgrees(a, b, c, d)
<1>0. c.val # 0 /\ d.val # 0
  BY DEF NonZero
<1>1. /\ a.val \in Int /\ b.val \in Int /\ c.val \in Int /\ d.val \in Int
      /\ a.lit \in BOOLEAN /\ b.lit \in BOOLEAN /\ c.lit \in BOOLEAN /\ d.lit \in BOOLEAN
      /\ (a.lit <=> b.lit) /\ (c.lit <=> d.lit)
      /\ (a.lit => a.val = b.val) /\ (c.lit => c.val = d.val)
  BY DEF Same, Exprs
<1>2. ASSUME NEW m \in Int, NEW n \in Int, n # 0 PROVE FloorQuotient(m, n) \in Int
  <2>1. CASE n > 0
    BY <1>2, <2>1 DEF FloorQuotient
  <2>2. CASE ~(n > 0)
    BY <1>2, <2>2 DEF FloorQuotient
  <2>3. QED BY <2>1, <2>2
<1> DEFINE u == 0 - FloorQuotient(0 - a.val, c.val)
           v == 0 - FloorQuotient(0 - b.val, d.val)
<1>3. u \in Int /\ v \in Int
  <2>1. 0 - a.val \in Int /\ 0 - b.val \in Int
    BY <1>1
  <2>2. FloorQuotient(0 - a.val, c.val) \in Int /\ FloorQuotient(0 - b.val, d.val) \in Int
    BY <1>0, <1>1, <1>2, <2>1
  <2>3. QED BY <2>2
<1>4. a.lit /\ c.lit => u = v
  BY <1>1
<1> HIDE DEF u, v
<1>5. /\ CeilDiv(a, c) = [lit |-> a.lit /\ c.lit, val |-> u]
      /\ CeilDiv(b, d) = [lit |-> b.lit /\ d.lit, val |-> v]
  BY DEF CeilDiv, Binary, u, v
<1>6. Same(CeilDiv(a, c), CeilDiv(b, d))
  BY <1>1, <1>3, <1>4, <1>5 DEF Same, Exprs
<1>7. QED BY <1>5, <1>6 DEF QuotientAgrees, v

(* How many numbers of a progression come before the limit.                *)
LEMMA RangeCounts ==
  ASSUME NEW start \in 0..MaxDim, NEW limit \in 0..MaxDim, NEW delta \in {-2, -1, 1, 2}
  PROVE  LET c == 0 - FloorQuotient(0 - (limit - start), delta)
         IN  /\ c \in Int
             /\ Cardinality({i \in 0..MaxDim : IF delta > 0 THEN start + i * delta < limit
                                               ELSE start + i * delta > limit})
                = IF 0 > c THEN 0 ELSE c
<1> DEFINE c == 0 - FloorQuotient(0 - (limit - start), delta)
           W == {i \in 0..MaxDim : IF delta > 0 THEN start + i * delta < limit
                                   ELSE start + i * delta > limit}
<1>0. MaxDim \in Nat /\ start \in Int /\ limit \in Int /\ 0 <= start /\ 0 <= limit
      /\ start <= MaxDim /\ limit <= MaxDim
  BY SizesAssumption
<1>1. c \in Int /\ W = 0..(c - 1)
  <2>1. CASE delta = 1
    <3>1. c = limit - start
      BY <1>0, <2>1 DEF FloorQuotient
    <3> HIDE DEF c
    <3>2. QED BY <1>0, <2>1, <3>1
  <2>2. CASE delta = -1
    <3>1. c = start - limit
      BY <1>0, <2>2 DEF FloorQuotient
    <3> HIDE DEF c
    <3>2. QED BY <1>0, <2>2, <3>1
  <2>3. CASE delta = 2
    <3>1. c \in Int /\ 2 * c >= limit - start /\ 2 * c < limit - start + 2
      BY <1>0, <2>3 DEF FloorQuotient
    <3> HIDE DEF c
    <3>2. \A i \in 0..MaxDim : start + i * 2 < limit <=> i <= c - 1
      BY <1>0, <3>1
    <3>3. c - 1 <= MaxDim
      BY <1>0, <3>1
    <3>4. QED BY <1>0, <2>3, <3>1, <3>2, <3>3
  <2>4. CASE delta = -2
    <3>1. c \in Int /\ 2 * c >= start - limit /\ 2 * c < start - limit + 2
      BY <1>0, <2>4 DEF FloorQuotient
    <3> HIDE DEF c
    <3>2. \A i \in 0..MaxDim : start + i * (-2) > limit <=> i <= c - 1
      BY <1>0, <3>1
    <3>3. c - 1 <= MaxDim
      BY <1>0, <3>1
    <3>4. QED BY <1>0, <2>4, <3>1, <3>2, <3>3
  <2>5. QED BY <2>1, <2>2, <2>3, <2>4
<1> HIDE DEF c, W
<1>2. Cardinality(0..(c - 1)) = IF 0 > c - 1 THEN 0 ELSE (c - 1) - 0 + 1
  BY <1>1, FS_Interval
<1>3. Cardinality(W) = IF 0 > c THEN 0 ELSE c
  BY <1>1, <1>2
<1>4. QED BY <1>1, <1>3 DEF c, W

(* Range.                                                                  *)
LEMMA RangeSound ==
  ASSUME Inv, RangeOp
  PROVE  Inv'
<1> DEFINE W(start, limit, delta) ==
             {i \in 0..MaxDim : IF delta > 0 THEN start + i * delta < limit
                                ELSE start + i * delta > limit}
<1>1. PICK start \in 0..MaxDim, limit \in 0..MaxDim, delta \in {-2, -1, 1, 2} :
        \E p \in Constants(<<start, limit, delta>>) :
          ComputeShapeAndUpdateType(<<RangeDim(Hide(p)[1], Hide(p)[2], Hide(p)[3])>>,
            <<RangeDim(p[1], p[2], p[3])>>, <<Cardinality(W(start, limit, delta))>>, FALSE)
  BY Zenon DEF RangeOp, Infer
<1>2. PICK p \in Constants(<<start, limit, delta>>) :
        ComputeShapeAndUpdateType(<<RangeDim(Hide(p)[1], Hide(p)[2], Hide(p)[3])>>,
          <<RangeDim(p[1], p[2], p[3])>>, <<Cardinality(W(start, limit, delta))>>, FALSE)
  BY <1>1, Zenon
<1> DEFINE q == Hide(p)
           w == <<start, limit, delta>>
           n == Cardinality(W(start, limit, delta))
<1>3. start \in Int /\ limit \in Int /\ delta \in Int /\ delta # 0
  BY SizesAssumption
<1>4. DOMAIN w = 1..3 /\ w[1] = start /\ w[2] = limit /\ w[3] = delta /\ \A i \in DOMAIN w : w[i] \in Int
  BY <1>3
<1>5. p \in Constants(w)
  OBVIOUS
<1> HIDE DEF w, n
<1>6. /\ Same(q[1], p[1]) /\ Same(q[2], p[2]) /\ Same(q[3], p[3])
      /\ p[1].val = start /\ p[2].val = limit /\ p[3].val = delta
  <2>1. Computes(q, p, w)
    BY <1>4, <1>5, ConstantOperand
  <2>2. QED BY <1>4, <2>1 DEF Computes
<1>7. q[3].val # 0
  <2>1. 3 \in DOMAIN p
    BY <1>4, <1>5 DEF Constants, Literals, Operand
  <2>2. q[3] = IF p[3].lit THEN p[3] ELSE RunTime(Hidden)
    BY <2>1 DEF Hide
  <2>3. RunTime(Hidden).val = Hidden /\ Hidden # 0
    BY SizesAssumption DEF RunTime
  <2>4. QED BY <1>3, <1>6, <2>2, <2>3
<1> HIDE DEF q
<1> DEFINE a == Sub(q[2], q[1])
           b == Sub(p[2], p[1])
           e == CeilDiv(a, q[3])
           f == CeilDiv(b, p[3])
<1>8. Same(a, b) /\ b.val = limit - start
  <2>1. Same(a, b)
    BY <1>6, SameArithmetic
  <2>2. b.val = p[2].val - p[1].val
    BY DEF Sub, Binary
  <2>3. QED BY <1>6, <2>1, <2>2
<1> HIDE DEF a, b
<1>9. Same(e, f) /\ f.val = 0 - FloorQuotient(0 - (limit - start), delta)
  <2>1. p[3].val # 0
    BY <1>3, <1>6
  <2> DEFINE g == q[3]
             h == p[3]
  <2>2. Same(g, h) /\ NonZero(g) /\ NonZero(h)
    BY <1>6, <1>7, <2>1 DEF NonZero
  <2> HIDE DEF g, h
  <2>3. QuotientAgrees(a, b, g, h)
    BY <1>8, <2>2, SameCeilDiv, Zenon
  <2>4. Same(e, f) /\ f.val = 0 - FloorQuotient(0 - b.val, p[3].val)
    BY <2>3, Zenon DEF QuotientAgrees, g, h
  <2>5. QED BY <1>6, <1>8, <2>4, Zenon
<1> HIDE DEF e, f
<1>10. Same(Lit(0), Lit(0)) /\ Lit(0).val = 0
  BY SameLit
<1>11. Same(MaxOf(e, Lit(0)), MaxOf(f, Lit(0)))
  BY <1>9, <1>10, SameArithmetic
<1>12. MaxOf(f, Lit(0)).val = IF 0 > f.val THEN 0 ELSE f.val
  BY <1>10 DEF MaxOf, Binary
<1>13. n = IF 0 > f.val THEN 0 ELSE f.val
  <2> DEFINE c == 0 - FloorQuotient(0 - (limit - start), delta)
  <2>1. n = IF 0 > c THEN 0 ELSE c
    BY RangeCounts, Zenon DEF n
  <2>2. f.val = c
    BY <1>9, Zenon
  <2>3. QED BY <2>1, <2>2, Zenon
<1>14. /\ RangeDim(q[1], q[2], q[3]) = MaxOf(e, Lit(0))
       /\ RangeDim(p[1], p[2], p[3]) = MaxOf(f, Lit(0))
  BY DEF RangeDim, e, f, a, b
<1> DEFINE r == RangeDim(q[1], q[2], q[3])
           t == RangeDim(p[1], p[2], p[3])
<1>15. Same(r, t) /\ t.val = n
  BY <1>11, <1>12, <1>13, <1>14
<1> HIDE DEF r, t
<1>16. Computes(<<r>>, <<t>>, <<t.val>>)
  BY <1>15, OneComputes
<1>17. ComputeShapeAndUpdateType(<<r>>, <<t>>, <<n>>, FALSE)
  BY <1>2, Zenon DEF r, t, n, q
<1>18. <<n>> = <<t.val>>
  BY <1>15
<1>19. QED BY <1>16, <1>17, <1>18, ComputesSound
-----------------------------------------------------------------------------
(* The values a model is given: what the compiler knows of them is true.   *)
LEMMA InitInv == Init => Inv
<1> SUFFICES ASSUME Init PROVE Inv
  OBVIOUS
<1>1. PICK known \in SUBSET DOMAIN dims : type = Hide(Operand(dims, known))
  BY DEF Init
<1>2. dims \in Shapes /\ alloc = dims /\ refused = FALSE
  BY DEF Init
<1>3. Hidden \in Int /\ \A i \in DOMAIN dims : dims[i] \in Int
  BY <1>2, SizesAssumption, ShapeType
<1>4. /\ type \in On(dims, Exprs) /\ True(type, dims)
      /\ \A i \in DOMAIN dims : ~type[i].lit => type[i].val = Hidden
  BY <1>1, <1>3 DEF Hide, Operand, On, Exprs, True, RunTime
<1>5. QED BY <1>2, <1>4 DEF Inv

(* Every operation that computes dim by dim keeps the invariant.           *)
LEMMA StepInv ==
  ASSUME Disputed = {}, Inv, [DimwiseOp]_vars
  PROVE  Inv'
<1>1. CASE UNCHANGED vars
  BY <1>1 DEF Inv, vars, On, True
<1>2. ASSUME NEW keepdims \in BOOLEAN, ArgMinMaxOp(keepdims) PROVE Inv'
  BY <1>2, ArgMinMaxSound, ArgMinMaxDropsSound
<1>3. ASSUME NEW ceil \in BOOLEAN, PoolOp(ceil) PROVE Inv'
  BY <1>3, PoolSound
<1>4. CASE BroadcastOp \/ MatMulOp \/ MatMulLearns \/ GemmOp \/ GemmLearns
  BY <1>4, BroadcastSound, MatMulSound, MatMulLearnsSound, GemmSound, GemmLearnsSound
<1>5. CASE ReduceOp(TRUE) \/ GlobalPoolOp \/ TransposeOp
  BY <1>5, ReduceSound, GlobalPoolSound, TransposeSound
<1>6. CASE ConvOp \/ ConvSameOp \/ ConvTransposeOp
  BY <1>6, ConvSound, ConvSameSound, ConvTransposeSound
<1>7. CASE PadOp \/ TileOp \/ ConcatOp \/ SplitOp
  BY <1>7, PadSound, TileSound, ConcatSound, SplitSound
<1>8. CASE GatherOp \/ OneHotOp \/ TopKOp \/ RangeOp
  BY <1>8, GatherSound, OneHotSound, TopKSound, RangeSound
<1>9. QED BY <1>1, <1>2, <1>3, <1>4, <1>5, <1>6, <1>7, <1>8, Zenon DEF DimwiseOp

(* What the invariant says of types, shapes and refusals.                  *)
LEMMA InvSuffices == Inv => TypeOK /\ TypeSound /\ AllocSound /\ NotRefused
<1> SUFFICES ASSUME Inv PROVE TypeOK /\ TypeSound /\ AllocSound /\ NotRefused
  OBVIOUS
<1>1. dims \in Shapes /\ alloc = dims /\ refused = FALSE
  BY DEF Inv
<1>2. Len(type) = Len(dims) /\ DOMAIN type = DOMAIN dims
  BY Followed
<1>3. \A i \in DOMAIN dims : /\ type[i] \in Exprs
                             /\ type[i].lit => type[i].val = dims[i]
                             /\ ~type[i].lit => type[i].val = Hidden
  BY DEF Inv, On, True
<1>4. MaxDim \in Nat /\ Hidden \in Nat /\ MaxDim < Hidden
  BY SizesAssumption
<1>5. \A i \in DOMAIN dims : dims[i] \in 0..MaxDim
  BY <1>1, ShapeType
<1>6. ASSUME NEW i \in DOMAIN type PROVE type[i] \in [lit : BOOLEAN, val : 0..Hidden]
  <2>1. type[i] = [lit |-> type[i].lit, val |-> type[i].val] /\ type[i].lit \in BOOLEAN
    BY <1>2, <1>3 DEF Exprs
  <2>2. type[i].val \in 0..Hidden
    <3>1. CASE type[i].lit
      BY <1>2, <1>3, <1>4, <1>5, <3>1
    <3>2. CASE ~type[i].lit
      BY <1>2, <1>3, <1>4, <3>2
    <3>3. QED BY <3>1, <3>2
  <2>3. QED BY <2>1, <2>2
<1>7. TypeOK
  BY <1>1, <1>6 DEF TypeOK
<1>8. TypeSound
  BY <1>2, <1>3 DEF TypeSound
<1>9. QED BY <1>1, <1>7, <1>8 DEF AllocSound, NotRefused

\* A value on its way through operations that compute dim by dim.
DimwiseSpec == Init /\ [][DimwiseOp]_vars

(* Inv holds along every chain of the operations whose dims are computed one
   by one, outside the two cases where code and operator docs disagree.    *)
THEOREM Invariance ==
  ASSUME Disputed = {}
  PROVE  DimwiseSpec => []Inv
<1>1. Init => Inv
  BY InitInv
<1>2. Inv /\ [DimwiseOp]_vars => Inv'
  BY StepInv
<1>3. QED BY <1>1, <1>2, PTL DEF DimwiseSpec

(* Types and shapes are what the code can represent: no literal dim of a type
   is negative, whatever operations led to it.                             *)
THEOREM TypeCorrect ==
  ASSUME Disputed = {}
  PROVE  DimwiseSpec => []TypeOK
<1>1. Inv => TypeOK
  BY InvSuffices
<1>2. QED BY <1>1, Invariance, PTL

(* Each dim that shape inference (computeShapeAndUpdateType) makes static is
   the size the value has in every run, for tensors of any rank and size.  *)
THEOREM InferenceIsSound ==
  ASSUME Disputed = {}
  PROVE  DimwiseSpec => []TypeSound
<1>1. Inv => TypeSound
  BY InvSuffices
<1>2. QED BY <1>1, Invariance, PTL

(* The lowered code allocates each value with the size the ONNX operator
   gives it, though it believes the static dims it finds in the type.      *)
THEOREM AllocationIsRight ==
  ASSUME Disputed = {}
  PROVE  DimwiseSpec => []AllocSound
<1>1. Inv => AllocSound
  BY InvSuffices
<1>2. QED BY <1>1, Invariance, PTL

(* computeShape never ends in emitError for an operation that is valid on the
   run-time shapes.                                                        *)
THEOREM NoneRefused ==
  ASSUME Disputed = {}
  PROVE  DimwiseSpec => []NotRefused
<1>1. Inv => NotRefused
  BY InvSuffices
<1>2. QED BY <1>1, Invariance, PTL
=============================================================================
