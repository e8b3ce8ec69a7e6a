----------------------------- MODULE DimAnalysis -----------------------------
(***************************************************************************)
(* DimAnalysis: groups of dims of a model that are equal in every run.     *)
(*                                                                         *)
(* A model is put together, then analysed.  `sets` are the values of       *)
(* dimSetMap; a pass of updateDimSets visits the sets in the order of a    *)
(* hash map, here in any order (`pending` are those still to visit), and   *)
(* each visit sees what the visits before it have added.  The sets that    *)
(* share a dim are merged after a pass that changed something; a pass that *)
(* changes nothing ends the first part.  The second part collects offsets  *)
(* between dims (`relations`), shares them within the sets and merges the  *)
(* dims at the same distance of one set.                                   *)
(*                                                                         *)
(* A dim is <<v, i, "tensor">>, axis i of value v, or <<v, i, "dim">>, the *)
(* result of ONNXDimOp on that axis.                                       *)
(***************************************************************************)
EXTENDS ModelGraph

CONSTANTS
  Signatures, \* arguments a model can have: types and dim_params
  MaxNodes,   \* operations of a model
  MaxDims,    \* dims of a model that are not static
  Disputed    \* operations also tried where code and documentation disagree

ASSUME DimAssumption ==
  /\ MaxNodes \in Nat /\ MaxDims \in Nat
  /\ RunSizes \subseteq Nat \ {0}
  /\ Disputed \subseteq {"ternary", "add", "dimop", "expand"}

\* Each dim of an argument is a size or the question mark of its place.
ASSUME SignatureAssumption ==
  \A g \in Signatures :
    /\ g \in Seq(Range(g))
    /\ \A v \in DOMAIN g :
         /\ g[v].op = "Arg" /\ g[v].ins = <<>>
         /\ g[v].type \in Seq(Range(g[v].type))
         /\ \A i \in DOMAIN g[v].type :
              g[v].type[i] = Mark(v, i) \/ \E k \in RunSizes : g[v].type[i] = Lit(k)

VARIABLES phase, sets, pending, updated, relations

analysis == <<sets, pending, updated, relations>>
vars == <<graph, runs, phase, analysis>>

Phases == {"build", "update", "offsets", "share", "infer", "done"}

Init ==
  /\ graph \in Signatures
  /\ runs = ArgumentRuns(graph)
  /\ phase = "build"
  /\ sets = {} /\ pending = {} /\ updated = FALSE /\ relations = {}

(****************************** the model **********************************)

\* All the values, those that are a shape of rank 2, and the dims to take.
Values2 == {v \in DOMAIN graph : Rank(v) = 2}
DynamicDims == {d \in (DOMAIN graph) \X (1..3) : d[2] <= Rank(d[1]) /\ Dynamic(d[1], d[2])}

AddNode(n) ==
  /\ Cardinality({v \in DOMAIN graph : graph[v].op # "Arg"}) < MaxNodes
  /\ Append1(n)
  /\ Cardinality(DynamicDims') <= MaxDims
  /\ UNCHANGED <<phase, analysis>>

Broadcasts(a, b) == ~BroadcastRefused(Type(a), Type(b))

\* Where and the variadic Sum, Mean and Min take a third operand.
ThirdOperands == {<<>>} \cup (IF "ternary" \in Disputed THEN {<<c>> : c \in DOMAIN graph} ELSE {})

AddElementwise ==
  \E a, b \in DOMAIN graph, third \in ThirdOperands :
    /\ a <= b /\ Broadcasts(a, b)
    /\ \A c \in Range(third) : Broadcasts(a, c) /\ Broadcasts(b, c)
    /\ AddNode([op |-> "Elementwise", ins |-> <<a, b>> \o third])

\* Add of a tensor and a scalar constant; with another constant than 0 it is
\* taken for an addition to the dim.
AddScalar ==
  \E a \in DOMAIN graph, k \in IF "add" \in Disputed THEN {0, 2} ELSE {0} :
    AddNode([op |-> "AddScalar", ins |-> <<a>>, scalar |-> k])

AddMatMul ==
  \E a, b \in Values2 :
    /\ ~MatMulRefused(Type(a), Type(b))
    /\ AddNode([op |-> "MatMul", ins |-> <<a, b>>])

AddGemm ==
  \E a, b \in Values2, ta \in BOOLEAN :
    /\ ~GemmRefused(Type(a), Type(b), <<>>, ta, ~ta)
    /\ AddNode([op |-> "Gemm", ins |-> <<a, b>>, transA |-> ta, transB |-> ~ta])

AddConcat ==
  \E a, b \in DOMAIN graph :
    /\ Rank(a) = Rank(b)
    /\ \E axis \in 1..Rank(a) :
         /\ \A i \in 1..Rank(a) \ {axis} :
              Dynamic(a, i) \/ Dynamic(b, i) \/ Type(a)[i] = Type(b)[i]
         /\ AddNode([op |-> "Concat", ins |-> <<a, b>>, axis |-> axis])

AddTranspose ==
  \E a \in Values2 : AddNode([op |-> "Transpose", ins |-> <<a>>])

AddRecurrent ==
  \E x, h \in {v \in DOMAIN graph : Rank(v) = 3} :
    /\ ~Dynamic(h, 1) /\ ~Dynamic(h, 3)
    /\ AddNode([op |-> "Recurrent", ins |-> <<x, h>>])

\* The argument of the body of an ONNXFusedOp, and the result of one.
AddFused ==
  \E a \in DOMAIN graph, op \in {"BodyArg", "FusedResult"} : AddNode([op |-> op, ins |-> <<a>>])

\* ONNXDimOp of the first axis is taken for a dim of size 1 when offsets are
\* looked for.
DimsOfShapes ==
  {d \in DynamicDims :
     \/ "dimop" \in Disputed \/ d[2] # 1 \/ graph[d[1]].op \notin {"Arg", "BodyArg"}
     \/ \A k \in 1..Rank(d[1]) : ~IsLit(Type(d[1])[k], 1)}

AddConstantOfShape ==
  \E d \in DimsOfShapes :
    AddNode([op |-> "ConstantOfShape", ins |-> <<>>, shape |-> <<Element(d[1], d[2], 0), Lit(2)>>])

\* Range(0, Dim, 1).
AddRange ==
  \E d \in DynamicDims :
    AddNode([op |-> "Range", ins |-> <<>>, shape |-> <<Element(d[1], d[2], 0)>>])

\* Of a tensor that lacks the dim that the compiler does not know.  Where the
\* tensor has it, the element is taken for the dim of the result although it
\* can be 1 and the tensor's dim larger.
ExpandShapes(e) == {<<e, Lit(1)>>} \cup (IF "expand" \in Disputed THEN {<<e>>} ELSE {})

AddExpand ==
  \E a \in DOMAIN graph, d \in DimsOfShapes, k \in 0..1 :
    /\ Rank(a) = 1
    /\ \E shape \in ExpandShapes(Element(d[1], d[2], k)) :
         AddNode([op |-> "Expand", ins |-> <<a>>, shape |-> shape])

AddReshape ==
  \E a \in Values2,
     shape \in {<<e, Lit(-1)>> : e \in {Lit(0)} \cup {Element(d[1], d[2], 0) : d \in DimsOfShapes}}
               \cup {<<Lit(-1), Lit(1)>>, <<Lit(-1), Lit(2)>>} :
    /\ \E i \in 1..2 : Dynamic(a, i)
    /\ AddNode([op |-> "Reshape", ins |-> <<a>>, shape |-> shape])

(*************************** finding equal dims ****************************)

InsertStaticToo(v, i) == {<<v, i, "tensor">>}

\* insertDimWhenUseful, for a tensor.  An argument is not asked whether it has
\* the axis.
InsertDimWhenUseful(v, i) ==
  IF graph[v].op \in {"Arg", "BodyArg"} \/ (i \in 1..Rank(v) /\ Dynamic(v, i))
  THEN {<<v, i, "tensor">>} ELSE {}

InOneSet(d, e) == \E S \in sets : {d, e} \subseteq S

\* The result of ONNXDimOp is a tensor of one element, which is known at the
\* axis 1 only.
SameDimT(d, e) ==
  LET known(x) == IF x[3] = "tensor" THEN x[2] \in 1..Rank(x[1]) ELSE x[2] = 1
      size(x) == IF x[3] = "tensor" THEN Type(x[1])[x[2]] ELSE Lit(1) IN
  /\ known(d) /\ known(e)
  /\ \/ d = e
     \/ size(d).lit /\ size(e).lit /\ size(d) = size(e)
     \/ ~size(d).lit /\ ~size(e).lit /\ InOneSet(d, e)

SameDim(v, i, w, j) == SameDimT(<<v, i, "tensor">>, <<w, j, "tensor">>)

ConcatPeersOfAnyAxis(n, v, i) ==
  UNION {InsertDimWhenUseful(w, i) : w \in Range(n.ins) \ {v}}

ConcatPeers(n, v, i) ==
  IF i = n.axis THEN {} ELSE UNION {InsertDimWhenUseful(w, i) : w \in Range(n.ins) \ {v}}

\* The dims of A and of B that a product sums over.
InnerPeers(n, v, i) ==
  LET transA == n.op = "Gemm" /\ n.transA
      transB == n.op = "Gemm" /\ n.transB
      A == <<n.ins[1], IF transA THEN 1 ELSE 2>>
      B == <<n.ins[2], IF transB THEN 2 ELSE 1>> IN
  CASE <<v, i>> = A -> InsertDimWhenUseful(B[1], B[2])
    [] <<v, i>> = B -> InsertDimWhenUseful(A[1], A[2])
    [] OTHER -> {}

BatchPeers(n, v, i) ==
  IF i = 2 THEN UNION {InsertDimWhenUseful(w, 2) : w \in Range(n.ins)} ELSE {}

FromConsumers(v, i) ==
  UNION {LET n == graph[u] IN
         CASE n.op = "Concat" -> ConcatPeers(n, v, i)
           [] n.op \in {"MatMul", "Gemm"} -> InnerPeers(n, v, i)
           [] n.op = "Recurrent" -> BatchPeers(n, v, i)
           [] OTHER -> {} : u \in Users(v)}

FromShapeHelper(v, i) ==
  LET mark == HelperMarks(graph[v])[i] IN
  UNION {UNION {InsertDimWhenUseful(w, j) : j \in {k \in DOMAIN Type(w) : Dynamic(w, k) /\ Type(w)[k] = mark}} :
         w \in Range(graph[v].ins)}

\* ONNXDimOp elements; a sum is not looked into, a number not needed.
FromShapeInput(v, i) ==
  LET n == graph[v] IN
  IF /\ n.op \in {"ConstantOfShape", "Expand", "Reshape"}
     /\ ~n.shape[i].lit /\ n.shape[i].plus = 0
  THEN {<<n.shape[i].val[1], n.shape[i].val[2], "dim">>} ELSE {}

\* Two operands with the same dim: it is the dim of the result.  Axes are
\* counted from the last of the pair; of a pair with fewer than the result the
\* index is not negative for the last ones, and counts from the first.
FromEqualOperands(v, i) ==
  LET ins == graph[v].ins IN
  IF graph[v].op \notin {"Elementwise", "MatMul"} THEN {}
  ELSE UNION {LET a == ins[p[1]]
                  b == ins[p[2]]
                  top == Max({Rank(a), Rank(b)})
                  at(w) == IF i <= top THEN i - top + Rank(w) ELSE i - top IN
              IF SameDim(a, at(a), b, at(b)) THEN InsertDimWhenUseful(a, i - top + Rank(a)) ELSE {} :
              p \in {q \in (DOMAIN ins) \X (DOMAIN ins) : q[1] < q[2]}}

DynamicAxes(v) == {i \in DOMAIN Type(v) : Dynamic(v, i)}

StaticProduct(type) ==
  LET product[i \in 0..Len(type)] ==
        IF i = 0 THEN 1 ELSE IF type[i].lit THEN product[i - 1] * type[i].val ELSE product[i - 1] IN
  product[Len(type)]

\* The axes of the result matched with those of the data that have the same
\* dim, first come first served, and the first of the data that finds none.
MatchAxes(rank, same) ==
  LET match[i \in 0..rank] ==
        IF i = 0 THEN [taken |-> {}, lost |-> 0]
        ELSE LET m == match[i - 1] IN
             IF i \notin DOMAIN same THEN m
             ELSE IF same[i] \ m.taken # {} THEN [m EXCEPT !.taken = @ \cup {Min(same[i] \ @)}]
             ELSE IF m.lost = 0 THEN [m EXCEPT !.lost = i] ELSE m IN
  match[rank]

MatchDims(data, v) ==
  MatchAxes(Rank(data), [i \in DynamicAxes(data) |->
                           {j \in DynamicAxes(v) : SameDim(data, i, v, j)}])

\* A Reshape that keeps all but one of the dynamic dims keeps that one too.
FromReshape(v, i) ==
  LET data == graph[v].ins[1]
      m == MatchDims(data, v) IN
  IF /\ graph[v].op = "Reshape"
     /\ Cardinality(DynamicAxes(data)) = Cardinality(DynamicAxes(v))
     /\ StaticProduct(Type(data)) = StaticProduct(Type(v))
     /\ m.lost # 0 /\ Cardinality(m.taken) = Cardinality(DynamicAxes(v)) - 1
     /\ i \notin m.taken
  THEN InsertDimWhenUseful(data, m.lost) ELSE {}

FromRange(v) ==
  IF graph[v].op = "Range"
  THEN InsertDimWhenUseful(graph[v].shape[1].val[1], graph[v].shape[1].val[2]) ELSE {}

\* The value that feeds the body of a fused operation: resolveThroughFusedOp.
FusedSource(g) ==
  LET source[u \in DOMAIN g] == IF g[u].op = "BodyArg" THEN source[g[u].ins[1]] ELSE u IN source
Resolve(v) == FusedSource(graph)[v]

\* visitDim.
VisitDim(d) ==
  LET v == d[1]
      i == d[2] IN
  IF d[3] = "dim" THEN InsertDimWhenUseful(v, i)
  ELSE FromConsumers(v, i) \cup
       CASE graph[v].op = "Arg" -> {}
         [] graph[v].op = "BodyArg" -> InsertDimWhenUseful(Resolve(v), i)
         [] graph[v].op = "FusedResult" -> InsertDimWhenUseful(graph[v].ins[1], i)
         [] OTHER -> FromShapeHelper(v, i) \cup FromShapeInput(v, i) \cup FromEqualOperands(v, i)
                     \cup FromReshape(v, i) \cup FromRange(v)

(***************************** the analysis ********************************)

\* mergeDimSets: sets with a common dim become one, until none have.  A set
\* ends up with those that a chain of common dims leads to: they are in every
\* collection that has the set and no common dim with the sets outside it.
Apart(sep, S) == \A s \in sep, t \in S \ sep : s \cap t = {}
Chained(s, S) == {t \in S : \A sep \in SUBSET S : s \in sep /\ Apart(sep, S) => t \in sep}
Merged(S) == {UNION Chained(s, S) : s \in S}

\* Dims of arguments with the same dim_param, and every other dynamic dim.
Named(v) == {i \in 1..Rank(v) : graph[v].op = "Arg" /\ graph[v].params[i] # NoParam}
BuiltSets ==
  LET dims == {<<d[1], d[2], "tensor">> : d \in DynamicDims}
      named == {d \in dims : d[2] \in Named(d[1])} IN
  {{d} : d \in dims \ named} \cup
  {{e \in named : graph[e[1]].params[e[2]] = graph[d[1]].params[d[2]]} : d \in named}

Build ==
  /\ phase = "build"
  /\ phase' = "update"
  /\ sets' = BuiltSets
  /\ pending' = BuiltSets
  /\ UNCHANGED <<graph, runs, updated, relations>>

\* Remembers the last set only.
UpdateDimSetForgetful(S) ==
  LET new == UNION {VisitDim(d) : d \in S} IN
  /\ sets' = (sets \ {S}) \cup {S \cup new}
  /\ pending' = pending \ {S}
  /\ updated' = (new \ S # {})

UpdateDimSet(S) ==
  LET new == UNION {VisitDim(d) : d \in S} IN
  /\ sets' = (sets \ {S}) \cup {S \cup new}
  /\ pending' = pending \ {S}
  /\ updated' = (updated \/ new \ S # {})

UpdateDimSets ==
  /\ phase = "update"
  /\ \E S \in pending : UpdateDimSet(S)
  /\ UNCHANGED <<graph, runs, phase, relations>>

MergeDimSets ==
  /\ phase = "update" /\ pending = {} /\ updated
  /\ sets' = Merged(sets)
  /\ pending' = sets'
  /\ updated' = FALSE
  /\ UNCHANGED <<graph, runs, phase, relations>>

FixedPoint ==
  /\ phase = "update" /\ pending = {} /\ ~updated
  /\ phase' = "offsets"
  /\ UNCHANGED <<graph, runs, analysis>>

(******************************** offsets **********************************)

Relation(d, k, target) == [dim |-> d, offset |-> k, target |-> target]

StaticTotal(n, axis) ==
  LET total[j \in 0..Len(n.ins)] ==
        IF j = 0 THEN 0
        ELSE total[j - 1] + IF Dynamic(n.ins[j], axis) THEN 0 ELSE Type(n.ins[j])[axis].val IN
  total[Len(n.ins)]

\* Goes on after a second dynamic input.
ConcatOffsetOfSeveral(n, axis, d) ==
  {Relation(<<w, axis, "tensor">>, StaticTotal(n, axis), d) :
     w \in {u \in Range(n.ins) : Dynamic(u, axis)}}

ConcatOffset(n, axis, d) ==
  LET dynamic == {j \in DOMAIN n.ins : Dynamic(n.ins[j], axis)} IN
  IF Cardinality(dynamic) = 1 /\ StaticTotal(n, axis) > 0
  THEN {Relation(<<n.ins[j], axis, "tensor">>, StaticTotal(n, axis), d) : j \in dynamic} ELSE {}

\* The operands of the operation of v; those of a fused operation are what the
\* arguments of its body stand for.
Operands(v) ==
  IF graph[v].op # "FusedResult" THEN Range(graph[v].ins)
  ELSE UNION {Range(graph[u].ins) : u \in {w \in 1..(v - 1) : graph[w].op = "BodyArg"}}

\* Any other operation: a dim of an operand that is known to be the same.
SameAsOperand(v, i, d) ==
  UNION {{Relation(<<w, j, "tensor">>, 0, d) : j \in {k \in 1..Rank(w) : SameDim(w, k, v, i)}} :
         w \in Operands(v)}

\* ONNXDimOp: its operand has dims, its result one of size 1.
SameAsDimOp(d) ==
  IF d[2] # 1 THEN {}
  ELSE {Relation(<<d[1], j, "tensor">>, 0, d) : j \in {k \in 1..Rank(d[1]) : IsLit(Type(d[1])[k], 1)}}

\* visitDimForOffsets.
VisitDimForOffsets(d) ==
  LET v == Resolve(d[1])
      i == d[2]
      n == graph[v] IN
  CASE d[3] = "dim" -> SameAsDimOp(d)
    [] d[3] # "dim" /\ n.op = "Arg" -> {}
    [] d[3] # "dim" /\ n.op = "AddScalar" -> {Relation(<<n.ins[1], i, "tensor">>, n.scalar, d)}
    [] d[3] # "dim" /\ n.op = "Concat" /\ i = n.axis -> ConcatOffset(n, i, d)
    [] d[3] # "dim" /\ n.op = "Expand" ->
         IF n.shape[i].lit \/ n.shape[i].plus = 0 THEN {}
         ELSE {Relation(<<n.shape[i].val[1], n.shape[i].val[2], "tensor">>, n.shape[i].plus, d)}
    [] OTHER -> SameAsOperand(v, i, d)

FindOffsets ==
  /\ phase = "offsets"
  /\ phase' = "share"
  /\ relations' = UNION {VisitDimForOffsets(d) : d \in UNION sets}
  /\ UNCHANGED <<graph, runs, sets, pending, updated>>

RelationsOf(S) == {r \in relations : r.dim \in S}
Offsets(S) == {r.offset : r \in RelationsOf(S)}
Targets(S, k) == {r.target : r \in {q \in RelationsOf(S) : q.offset = k}}
WithOffsets == {r.dim : r \in relations}

\* Does not ask whether the dim has offsets.
LackingAll(S) == IF Offsets(S) = {} THEN {} ELSE S

\* The dims of S to which the offsets of the others are copied.
Lacking(S) == IF Offsets(S) = {} THEN {} ELSE S \ WithOffsets

\* The target that an iteration over a set meets first at each of its offsets.
FirstTargets ==
  {first \in [{p \in sets \X {r.offset : r \in relations} : p[2] \in Offsets(p[1])} ->
              {r.target : r \in relations}] :
     \A p \in DOMAIN first : first[p] \in Targets(p[1], p[2])}

\* Phase 1 of propagateOffsetRelations: of several targets at one offset the
\* first is copied.
ShareOffsets ==
  /\ phase = "share"
  /\ \E first \in FirstTargets :
       relations' = relations \cup
         UNION {{Relation(d, p[2], first[p]) : d \in Lacking(p[1])} : p \in DOMAIN first}
  /\ phase' = IF \E S \in sets : Lacking(S) # {} THEN "infer" ELSE "done"
  /\ UNCHANGED <<graph, runs, sets, pending, updated>>

\* Phase 2: the targets at one offset of one set are equal to the first.
InferEqualities ==
  /\ phase = "infer"
  /\ \E first \in FirstTargets :
       sets' = Merged(sets \cup
         UNION {{{first[p], t} : t \in {u \in Targets(p[1], p[2]) : ~SameDimT(first[p], u)}} :
                p \in {q \in DOMAIN first : Cardinality(q[1]) > 1}})
  /\ phase' = "share"
  /\ UNCHANGED <<graph, runs, pending, updated, relations>>

Done == phase = "done" /\ UNCHANGED vars

Analyze ==
  Build \/ UpdateDimSets \/ MergeDimSets \/ FixedPoint \/ FindOffsets \/ ShareOffsets
        \/ InferEqualities

Compose ==
  /\ phase = "build"
  /\ \/ AddElementwise \/ AddScalar \/ AddMatMul \/ AddGemm \/ AddConcat \/ AddTranspose
     \/ AddRecurrent \/ AddFused \/ AddConstantOfShape \/ AddRange \/ AddExpand \/ AddReshape

Next == Compose \/ Analyze \/ Done

\* analyze() runs to its end.
Spec == Init /\ [][Next]_vars /\ WF_vars(Analyze)

(******************************* properties ********************************)

\* The dim of a value, or what its ONNXDimOp returns, in run r.
SizeIn(r, d) == r[d[1]][d[2]]

\* A tensor's dim in a set exists, and is dynamic unless its value is an
\* argument: "There is a static dim in the analysis" (visitDim) never fires.
TypeOK ==
  /\ phase \in Phases
  /\ updated \in BOOLEAN
  /\ pending \subseteq sets
  /\ \A d \in UNION sets :
       /\ d[1] \in DOMAIN graph /\ d[2] \in 1..Rank(d[1]) /\ d[3] \in {"tensor", "dim"}
       /\ Dynamic(d[1], d[2]) \/ graph[d[1]].op \in {"Arg", "BodyArg"}
  /\ \A r \in relations : r.target \in UNION sets /\ r.offset \in Nat

\* Dims in one set, of those that exist, have the same size in every run of
\* the model: what sameDim answers once the analysis is done.
GroupsEqual ==
  phase = "done" =>
    \A r \in runs : \A S \in sets : \A d, e \in {f \in S : f[2] \in 1..Rank(f[1])} :
      SizeIn(r, d) = SizeIn(r, e)

\* A relation of a dynamic dim says by how much its target is larger.
OffsetsTrue ==
  phase = "done" =>
    \A r \in runs : \A q \in relations :
      Dynamic(q.dim[1], q.dim[2]) => SizeIn(r, q.dim) + q.offset = SizeIn(r, q.target)

\* When the search for equal dims ends nothing more is to be found, in
\* whatever order the sets were visited, and no two sets share a dim.
NothingMissed ==
  phase = "offsets" =>
    /\ \A S \in sets : \A d \in S : VisitDim(d) \subseteq S
    /\ \A S, T \in sets : S # T => S \cap T = {}

\* The loops of analyze and of propagateOffsetRelations end.
Terminates == (phase = "update") ~> (phase = "done")
=============================================================================
