------------------------------ MODULE IndexExpr ------------------------------
(***************************************************************************)
(* Index expressions: the integers the compiler computes shapes with.      *)
(* An expression is a literal, known to the compiler, or it is not; a      *)
(* question mark during shape inference and generated code when lowered.   *)
(* Here an expression carries both: `lit` says whether the compiler knows  *)
(* it, `val` is its value when the compiled model runs.  One computation   *)
(* over expressions then shows what shape inference claims (the literals   *)
(* of the result) and what the generated code computes (all values).       *)
(*                                                                         *)
(* The neutral elements of binaryOp (a + 0, 1 * b, a / 1) return the other *)
(* operand, which has the same lit and the same val as what is below.      *)
(***************************************************************************)
EXTENDS Integers, Sequences

Lit(n) == [lit |-> TRUE, val |-> n]
RunTime(n) == [lit |-> FALSE, val |-> n]

IsLit(a, n) == a.lit /\ a.val = n
IsLitOtherThan(a, n) == a.lit /\ a.val # n

\* binaryOp: a literal of literals, else code.
Binary(a, b, v) == [lit |-> a.lit /\ b.lit, val |-> v]

Add(a, b) == Binary(a, b, a.val + b.val)
Sub(a, b) == Binary(a, b, a.val - b.val)
Mul(a, b) == Binary(a, b, a.val * b.val)

\* Division of integers that rounds down, for divisors of either sign.
FloorQuotient(m, n) == IF n > 0 THEN m \div n ELSE (0 - m) \div (0 - n)

FloorDiv(a, b) == Binary(a, b, FloorQuotient(a.val, b.val))
CeilDiv(a, b) == Binary(a, b, 0 - FloorQuotient(0 - a.val, b.val))

\* llvm::mod on literals, the remainder of a signed division in code.
Mod(a, b) ==
  Binary(a, b, LET m == a.val % b.val IN
               IF (a.lit /\ b.lit) \/ a.val >= 0 \/ m = 0 THEN m ELSE m - b.val)

\* compareOp: a predicate, literal when both sides are.
Less(a, b) == Binary(a, b, a.val < b.val)
Equals(a, b) == Binary(a, b, a.val = b.val)

\* A literal predicate feeds one side through, literal or not.
Select(c, t, f) ==
  LET chosen == IF c.val THEN t ELSE f IN
  IF c.lit THEN chosen ELSE RunTime(chosen.val)

\* The literal function stops at the lower bound; the code goes on to compare
\* it with the upper one, which matters when the bounds are crossed.
Clamp(a, lo, hi) ==
  LET known == a.lit /\ lo.lit /\ hi.lit
      raised == IF a.val < lo.val THEN lo.val ELSE a.val IN
  [lit |-> known,
   val |-> IF raised > hi.val /\ ~(known /\ a.val < lo.val) THEN hi.val ELSE raised]

MaxOf(a, b) == Binary(a, b, IF b.val > a.val THEN b.val ELSE a.val)

\* The dims of a value of the given type whose run-time shape is `dims`:
\* literals where the type has them, else what the shape holds.
ShapeAsDims(type, dims) ==
  [i \in DOMAIN type |-> IF type[i].lit THEN type[i] ELSE RunTime(dims[i])]

Values(exprs) == [i \in DOMAIN exprs |-> exprs[i].val]
Literals(vals) == [i \in DOMAIN vals |-> Lit(vals[i])]
=============================================================================
