------------------------------ MODULE ModelGraph ------------------------------
(***************************************************************************)
(* A small ONNX model, as the dimension analysis meets it: the values of a *)
(* function in order, each an argument or the result of an operation, with *)
(* the type shape inference gave it.  A dim that is not static carries the *)
(* question mark that belongs to it alone.                                 *)
(*                                                                         *)
(* Shapes given as an operand are concatenations of elements, which is the *)
(* form simplify-shape-related-ops leaves them in: an element is a number, *)
(* a dim of a value (ONNXDimOp), or a dim plus a number.                   *)
(***************************************************************************)
EXTENDS ShapeHelpers

CONSTANTS
  RunSizes    \* the sizes a dim can have when the model runs

VARIABLES
  graph,      \* the values
  runs        \* history: the shapes the values can have together

\* The question mark of dim i of value v, and one that stands for no dim.
Mark(v, i) == [lit |-> FALSE, val |-> <<v, i>>]
Generic == [lit |-> FALSE, val |-> <<0, 0>>]

Element(v, i, k) == [lit |-> FALSE, val |-> <<v, i>>, plus |-> k]
ElementMark(e) == IF e.lit THEN e ELSE Generic

Type(v) == graph[v].type
Rank(v) == Len(Type(v))
Dynamic(v, i) == ~Type(v)[i].lit

Users(v) == {u \in DOMAIN graph : v \in Range(graph[u].ins)}

(***************************************************************************)
(* What the shape helper of an operation returns in the mode of the        *)
(* analysis: literals and question marks.  `x` are the types of the        *)
(* operands.  A product or a quotient of question marks is generic.        *)
(***************************************************************************)
BroadcastMarks(x, y) ==
  LET rank == IF Len(x) > Len(y) THEN Len(x) ELSE Len(y)
      X == Prepend1s(x, rank)
      Y == Prepend1s(y, rank) IN
  [i \in 1..rank |-> IF ~X[i].lit /\ ~Y[i].lit THEN Generic ELSE BroadcastDim(X[i], Y[i], FALSE)]

ConcatMarks(x, y, axis) ==
  [i \in DOMAIN x |->
     IF i # axis THEN IF y[i].lit THEN y[i] ELSE x[i]
     ELSE IF x[i].lit /\ y[i].lit THEN Add(x[i], y[i]) ELSE Generic]

ReshapeMarks(x, shape) ==
  [i \in DOMAIN shape |->
     CASE IsLit(shape[i], 0) -> x[i]
       [] IsLit(shape[i], -1) -> Generic
       [] OTHER -> ElementMark(shape[i])]

ElementMarks(shape) == [i \in DOMAIN shape |-> ElementMark(shape[i])]

\* The type of Y_h of an RNN, GRU or LSTM: [directions, batch, hidden].
RecurrentMarks(x, h) == <<Lit(1), x[2], h[3]>>

HelperMarks(n) ==
  LET x == [j \in DOMAIN n.ins |-> Type(n.ins[j])] IN
  CASE n.op = "Elementwise" /\ Len(x) = 2 -> BroadcastMarks(x[1], x[2])
    [] n.op = "Elementwise" /\ Len(x) = 3 -> BroadcastMarks(BroadcastMarks(x[1], x[2]), x[3])
    [] n.op = "MatMul" -> MatMul(x[1], x[2])
    [] n.op = "Gemm" -> Gemm(x[1], x[2], n.transA, n.transB)
    [] n.op = "Concat" -> ConcatMarks(x[1], x[2], n.axis)
    [] n.op = "Transpose" -> Transpose(x[1], <<2, 1>>)
    [] n.op = "Recurrent" -> RecurrentMarks(x[1], x[2])
    [] n.op \in {"ConstantOfShape", "Range"} -> ElementMarks(n.shape)
    [] n.op = "Expand" -> BroadcastMarks(x[1], ElementMarks(n.shape))
    [] n.op = "Reshape" -> ReshapeMarks(x[1], n.shape)
    [] OTHER -> x[1]

\* The type of the value a node is appended as: each dim that is not known
\* gets the question mark of its own place.
TypeOf(n) ==
  LET marks == HelperMarks(n) IN
  [i \in DOMAIN marks |-> IF marks[i].lit THEN marks[i] ELSE Mark(Len(graph) + 1, i)]

(***************************************************************************)
(* The runs of the model: the shapes its values can have together, by the  *)
(* definition of the operators.  A run in which an operation rejects its   *)
(* operands is no run.                                                     *)
(***************************************************************************)
ElementSize(r, e) == IF e.lit THEN e.val ELSE r[e.val[1]][e.val[2]] + e.plus

BroadcastShapes(x, y) ==
  LET rank == IF Len(x) > Len(y) THEN Len(x) ELSE Len(y)
      X == [i \in 1..(rank - Len(x)) |-> 1] \o x
      Y == [i \in 1..(rank - Len(y)) |-> 1] \o y IN
  IF \A i \in 1..rank : X[i] = Y[i] \/ X[i] = 1 \/ Y[i] = 1
  THEN {[i \in 1..rank |-> IF X[i] = 1 THEN Y[i] ELSE X[i]]} ELSE {}

Elements(s) ==
  LET product[i \in 0..Len(s)] == IF i = 0 THEN 1 ELSE product[i - 1] * s[i] IN
  product[Len(s)]

\* Sizes for the shape operand of a Reshape: those that keep all elements.
ReshapeShapes(x, shape, r) ==
  LET fixed == [i \in DOMAIN shape |->
                  CASE IsLit(shape[i], 0) -> x[i]
                    [] IsLit(shape[i], -1) -> 1
                    [] OTHER -> ElementSize(r, shape[i])]
      rest == Elements(x) \div Elements(fixed)
      s == [i \in DOMAIN shape |-> IF IsLit(shape[i], -1) THEN rest ELSE fixed[i]] IN
  IF Elements(s) = Elements(x) THEN {s} ELSE {}

RunShapes(n, r) ==
  LET x == [j \in DOMAIN n.ins |-> r[n.ins[j]]]
      A == IF n.op = "Gemm" THEN Transposed(x[1], n.transA) ELSE x[1]
      B == IF n.op = "Gemm" THEN Transposed(x[2], n.transB) ELSE x[2]
      sizes == [i \in DOMAIN n.shape |-> ElementSize(r, n.shape[i])] IN
  CASE n.op = "Elementwise" /\ Len(x) = 2 -> BroadcastShapes(x[1], x[2])
    [] n.op = "Elementwise" /\ Len(x) = 3 ->
         UNION {BroadcastShapes(s, x[3]) : s \in BroadcastShapes(x[1], x[2])}
    [] n.op \in {"MatMul", "Gemm"} -> IF A[2] = B[1] THEN {<<A[1], B[2]>>} ELSE {}
    [] n.op = "Concat" ->
         IF \A i \in DOMAIN A \ {n.axis} : A[i] = B[i]
         THEN {[A EXCEPT ![n.axis] = A[n.axis] + B[n.axis]]} ELSE {}
    [] n.op = "Transpose" -> {<<A[2], A[1]>>}
    [] n.op = "Recurrent" -> IF A[2] = B[2] /\ B[1] = 1 THEN {<<1, A[2], B[3]>>} ELSE {}
    [] n.op \in {"ConstantOfShape", "Range"} -> {sizes}
    [] n.op = "Expand" -> BroadcastShapes(A, sizes)
    [] n.op = "Reshape" -> ReshapeShapes(A, n.shape, r)
    [] OTHER -> {A}

\* The dim_param of a dim that has none.
NoParam == ""

\* Those of the arguments g: dims with one dim_param are declared equal.
ArgumentRuns(g) ==
  {r \in [DOMAIN g -> UNION {[DOMAIN g[v].type -> RunSizes] : v \in DOMAIN g}] :
     /\ \A v \in DOMAIN g : DOMAIN r[v] = DOMAIN g[v].type
     /\ \A v \in DOMAIN g : \A i \in DOMAIN r[v] :
          /\ g[v].type[i].lit => r[v][i] = g[v].type[i].val
          /\ \A w \in DOMAIN g : \A j \in DOMAIN r[w] :
               g[v].params[i] # NoParam /\ g[v].params[i] = g[w].params[j] => r[v][i] = r[w][j]}

Typed(n) == [field \in DOMAIN n \cup {"type"} |-> IF field = "type" THEN TypeOf(n) ELSE n[field]]

Append1(n) ==
  /\ graph' = Append(graph, Typed(n))
  /\ runs' = UNION {{Append(r, s) : s \in RunShapes(n, r)} : r \in runs}
=============================================================================
