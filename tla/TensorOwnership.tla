--------------------------- MODULE TensorOwnership ---------------------------
(***************************************************************************)
(* Who frees what in one inference call: the tensors (OMTensor), the lists *)
(* of tensors (OMTensorList), the data buffers behind them and what the    *)
(* caller gets, through each of the three interfaces:                      *)
(*   "py"   PyExecutionSession::pyRun, arrays of numpy in and out;         *)
(*   "cxx"  ExecutionSession::run on unique pointers to tensors;           *)
(*   "jni"  main_graph_jni, tensors of Java in and out.                    *)
(* A tensor refers to a buffer and frees it when destroyed iff it owns it. *)
(***************************************************************************)
EXTENDS Naturals, Sequences, FiniteSets

CONSTANTS
  N, \* inputs of the model
  M  \* outputs of the model

ASSUME CountsAssumption == N \in Nat \ {0} /\ M \in Nat \ {0}

VARIABLES
  api,      \* the interface that is called
  force,    \* forceOutputDataCopy, for debugging of "py"
  pc,
  ins,      \* the input tensors wrapped so far
  outs,     \* the tensors the model returned
  owned,    \* history: the results whose tensors were made to own their data
  held,     \* what the caller holds, or will when the call returns
  made,     \* the blocks of memory that were allocated
  freed     \* how often each was freed

vars == <<api, force, pc, ins, outs, owned, held, made, freed>>

Inputs == 1..N
Outputs == 1..M

\* Data: a user's array, a heap buffer made for or handed over with an input,
\* a copy that no tensor refers to, a buffer the model allocated, a constant of
\* the model.  Structures: an input's tensor, an output's tensor, and the two
\* lists.
User(i) == <<"user", i>>
Buffer(i) == <<"buffer", i>>
Copy(i) == <<"copy", i>>
Fresh(j) == <<"fresh", j>>
Constant == <<"constant", 0>>
InTensor(i) == <<"in", i>>
OutTensor(j) == <<"out", j>>
InList == <<"list", 1>>
OutList == <<"list", 2>>
Arguments == {User(i) : i \in Inputs} \cup {Buffer(i) : i \in Inputs}
Copies == {Copy(i) : i \in Inputs}
Allocated == {Fresh(j) : j \in Outputs}
Heap == {Buffer(i) : i \in Inputs} \cup Copies \cup Allocated
          \cup {InTensor(i) : i \in Inputs} \cup {OutTensor(j) : j \in Outputs} \cup {InList, OutList}
Blocks == Heap \cup {User(i) : i \in Inputs} \cup {Constant}

Tensor(struct, buf, owning) == [struct |-> struct, buf |-> buf, owning |-> owning]
NoTensor == Tensor(Constant, Constant, FALSE)    \* a null pointer
Array(via, buf) == [via |-> via, buf |-> buf]
Copied == Array("copy", Constant)                \* an array with data of its own

(***************************************************************************)
(* omTensorDestroy on each of the tensors.                                 *)
(***************************************************************************)
DestroyAll(ts) ==
  [b \in Blocks |-> Cardinality({k \in DOMAIN ts :
                      ts[k] # NoTensor /\ (ts[k].struct = b \/ (ts[k].owning /\ ts[k].buf = b))})]

\* omTensorListDestroy and omTensorListDestroyShallow.
ListDestroyShallow(list) == [b \in Blocks |-> IF b = list THEN 1 ELSE 0]
ListDestroy(list, ts) == [b \in Blocks |-> DestroyAll(ts)[b] + ListDestroyShallow(list)[b]]

\* A capsule for every array.
DropCapsulePerArray(arrays) ==
  [b \in Blocks |-> Cardinality({k \in DOMAIN arrays : arrays[k] = Array("capsule", b)})]

\* The capsules of arrays that go away: each frees its buffer once.
DropCapsules(arrays) ==
  [b \in Blocks |-> IF \E k \in DOMAIN arrays : arrays[k] = Array("capsule", b) THEN 1 ELSE 0]

Frees(f, g) == freed' = [b \in Blocks |-> freed[b] + f[b] + g[b]]
Nothing == [b \in Blocks |-> 0]

Init ==
  /\ api \in {"py", "cxx", "jni"}
  /\ force \in (IF api = "py" THEN BOOLEAN ELSE {FALSE})
  /\ pc = "wrap"
  /\ ins = <<>> /\ outs = <<>> /\ owned = {} /\ held = <<>>
  /\ made = {}
  /\ freed = Nothing

(***************************** inputs **************************************)

i0 == Len(ins) + 1

WrapAs(buf, owning, blocks) ==
  /\ ins' = Append(ins, Tensor(InTensor(i0), buf, owning))
  /\ made' = made \cup blocks \cup {InTensor(i0)}
  /\ UNCHANGED <<api, force, pc, outs, owned, held, freed>>

\* A writable array is borrowed; the tensor of a read-only one owns a copy, that
\* of a string array a table of its strings.  A string array that is read-only
\* is copied first, and the table takes the place of the copy.
PyWrap ==
  /\ api = "py" /\ pc = "wrap" /\ i0 \in Inputs
  /\ \/ WrapAs(User(i0), FALSE, {})
     \/ WrapAs(Buffer(i0), TRUE, {Buffer(i0)})
     \/ WrapAs(Buffer(i0), TRUE, {Buffer(i0), Copy(i0)})

\* Not contiguous, of a type that is not supported (found after the copy), or
\* out of memory for the copy, the table, the tensor or the list: what was made
\* so far stays.
PyWrapThrows ==
  /\ api = "py" /\ pc = "wrap"
  /\ pc' = "threw"
  /\ IF i0 \in Inputs THEN \E blocks \in SUBSET {Buffer(i0), Copy(i0)} : made' = made \cup blocks
                       ELSE UNCHANGED made
  /\ UNCHANGED <<api, force, ins, outs, owned, held, freed>>

\* The caller's tensors, owning their data or not.
CxxWrap ==
  /\ api = "cxx" /\ pc = "wrap" /\ i0 \in Inputs
  /\ WrapAs(User(i0), FALSE, {}) \/ WrapAs(Buffer(i0), TRUE, {Buffer(i0)})

\* The data of a Java buffer, which Java's collector frees.
JniWrap ==
  /\ api = "jni" /\ pc = "wrap" /\ i0 \in Inputs
  /\ WrapAs(User(i0), FALSE, {})

\* A call of JNI or the making of a tensor or of the list failed: an exception is
\* pending and the call returns.
JniWrapReturns ==
  /\ api = "jni" /\ pc = "wrap"
  /\ pc' = "threw"
  /\ UNCHANGED <<api, force, ins, outs, owned, held, made, freed>>

CreateList ==
  /\ pc = "wrap" /\ i0 \notin Inputs
  /\ pc' = "invoke"
  /\ made' = made \cup {InList}
  /\ UNCHANGED <<api, force, ins, outs, owned, held, freed>>

(****************************** the model **********************************)

\* A returned value is a buffer the model allocated, a constant, (a view of) an
\* input, or an earlier one once more.
Returns(bufs) ==
  \A j \in Outputs :
    bufs[j] \in {Fresh(j), Constant} \cup {ins[i].buf : i \in Inputs} \cup {bufs[k] : k \in 1..(j - 1)}

\* An argument too is owned.
ShouldOwnArguments(sources) == \A s \in sources : s # Constant

\* shouldOwn: traced back through views and both branches of a select, the
\* value comes neither from an argument nor from a constant.
ShouldOwn(sources) == \A s \in sources : s \notin Arguments \cup {Constant}

(***************************************************************************)
(* The entry point makes a tensor for each value; at most one could not be *)
(* made, for lack of memory.  A value may be a select between its buffer   *)
(* and a constant, which decides who owns it though it was not taken (an   *)
(* argument decides the same, another buffer nothing).  run's list of the  *)
(* inputs goes as soon as the entry point is back.                         *)
(***************************************************************************)
InvokeReturns ==
  /\ pc = "invoke"
  /\ \E bufs \in [Outputs -> Arguments \cup Allocated \cup {Constant}] :
       /\ Returns(bufs)
       /\ \E notTaken \in [Outputs -> SUBSET {Constant}], null \in SUBSET Outputs :
            /\ Cardinality(null) <= 1
            /\ owned' = {j \in Outputs \ null : ShouldOwn({bufs[j]} \cup notTaken[j])}
            /\ outs' = [j \in Outputs |-> IF j \in null THEN NoTensor
                                          ELSE Tensor(OutTensor(j), bufs[j], j \in owned')]
            /\ made' = made \cup {OutList} \cup {OutTensor(j) : j \in Outputs \ null}
                            \cup {b \in Allocated : \E j \in Outputs : b = bufs[j]}
  /\ pc' = "take"
  /\ Frees(IF api = "cxx" THEN ListDestroyShallow(InList) ELSE Nothing, Nothing)
  /\ UNCHANGED <<api, force, ins, held>>

\* The entry point returned null.  run throws, and its parameter is destroyed;
\* pyRun is left by the exception of runImplementation, before its own test
\* for null; main_graph_jni returns.
InvokeFails ==
  /\ pc = "invoke"
  /\ pc' = "threw"
  /\ IF api = "cxx" THEN Frees(ListDestroyShallow(InList), DestroyAll(ins)) ELSE UNCHANGED freed
  /\ UNCHANGED <<api, force, ins, outs, owned, held, made>>

(****************************** results ************************************)

j0 == Len(held) + 1

\* The tensor goes on owning what the capsule frees.
PyTakeKeepsOwning ==
  /\ api = "py" /\ pc = "take" /\ j0 \in Outputs /\ outs[j0] # NoTensor
  /\ held' = Append(held, IF outs[j0].owning /\ ~force THEN Array("capsule", outs[j0].buf) ELSE Copied)
  /\ UNCHANGED <<api, force, pc, ins, outs, owned, made, freed>>

\* An owned buffer moves to a capsule of Python, one per data pointer; other
\* data is copied.
PyTake ==
  /\ api = "py" /\ pc = "take" /\ j0 \in Outputs /\ outs[j0] # NoTensor
  /\ IF outs[j0].owning /\ ~force
     THEN /\ held' = Append(held, Array("capsule", outs[j0].buf))
          /\ outs' = [outs EXCEPT ![j0].owning = FALSE]
     ELSE held' = Append(held, Copied) /\ UNCHANGED outs
  /\ UNCHANGED <<api, force, pc, ins, owned, made, freed>>

\* No tensor, or a type numpy has no name for: both lists are destroyed, and
\* the arrays made so far with them as the exception leaves.
PyTakeThrows ==
  /\ api = "py" /\ pc = "take" /\ j0 \in Outputs
  /\ pc' = "rejected"
  /\ freed' = [b \in Blocks |-> freed[b] + ListDestroy(OutList, outs)[b]
                                 + ListDestroy(InList, ins)[b] + DropCapsules(held)[b]]
  /\ held' = <<>>
  /\ UNCHANGED <<api, force, ins, outs, owned, made>>

\* Data that lies before its allocation, or an array of another size than the
\* data it copies: only the arrays made so far go.
PyTakeFails ==
  /\ api = "py" /\ pc = "take" /\ j0 \in Outputs /\ outs[j0] # NoTensor
  /\ pc' = "threw"
  /\ held' = <<>>
  /\ Frees(DropCapsules(held), Nothing)
  /\ UNCHANGED <<api, force, ins, outs, owned, made>>

\* The inputs stay.
PyReturnKeepsInputs ==
  /\ api = "py" /\ pc = "take" /\ j0 \notin Outputs
  /\ pc' = "returned"
  /\ Frees(ListDestroy(OutList, outs), Nothing)
  /\ UNCHANGED <<api, force, ins, outs, owned, held, made>>

PyReturn ==
  /\ api = "py" /\ pc = "take" /\ j0 \notin Outputs
  /\ pc' = "returned"
  /\ Frees(ListDestroy(OutList, outs), ListDestroy(InList, ins))
  /\ UNCHANGED <<api, force, ins, outs, owned, held, made>>

\* Every tensor goes to the caller and the list goes; so do the inputs, which
\* run has by value.
CxxReturn ==
  /\ api = "cxx" /\ pc = "take"
  /\ pc' = "returned"
  /\ held' = [j \in Outputs |-> Array("tensor", outs[j].buf)]
  /\ Frees(ListDestroyShallow(OutList), DestroyAll(ins))
  /\ UNCHANGED <<api, force, ins, outs, owned, made>>

\* The constructor of Java's OMTensor copies the data.
JniTake ==
  /\ api = "jni" /\ pc = "take" /\ j0 \in Outputs /\ outs[j0] # NoTensor
  /\ held' = Append(held, Copied)
  /\ UNCHANGED <<api, force, pc, ins, outs, owned, made, freed>>

\* No tensor, an empty one, or a call of JNI that failed.
JniTakeReturns ==
  /\ api = "jni" /\ pc = "take" /\ j0 \in Outputs
  /\ pc' = "threw"
  /\ held' = <<>>
  /\ UNCHANGED <<api, force, ins, outs, owned, made, freed>>

JniReturn ==
  /\ api = "jni" /\ pc = "take" /\ j0 \notin Outputs
  /\ pc' = "returned"
  /\ Frees(ListDestroy(InList, ins), ListDestroy(OutList, outs))
  /\ UNCHANGED <<api, force, ins, outs, owned, held, made>>

\* The caller lets its last result go; a capsule outlives all arrays but one.
Release ==
  /\ pc = "returned" /\ held # <<>>
  /\ LET k == Len(held)
         rest == SubSeq(held, 1, k - 1) IN
     /\ held' = rest
     /\ freed' = CASE held[k].via = "tensor" -> [b \in Blocks |-> freed[b] + DestroyAll(<<outs[k]>>)[b]]
                   [] held[k].via = "capsule" -> [b \in Blocks |->
                        freed[b] + (DropCapsules(held)[b] - DropCapsules(rest)[b])]
                   [] OTHER -> freed
  /\ UNCHANGED <<api, force, pc, ins, outs, owned, made>>

Next ==
  \/ PyWrap \/ PyWrapThrows \/ CxxWrap \/ JniWrap \/ JniWrapReturns \/ CreateList
  \/ InvokeReturns \/ InvokeFails
  \/ PyTake \/ PyTakeThrows \/ PyTakeFails \/ PyReturn \/ CxxReturn
  \/ JniTake \/ JniTakeReturns \/ JniReturn \/ Release

Spec == Init /\ [][Next]_vars

(****************************** properties *********************************)

\* What is allocated is memory of the heap, and the entry point claims for the
\* caller neither an argument nor a constant (shouldOwn), whatever was selected.
TypeOK ==
  /\ pc \in {"wrap", "invoke", "take", "returned", "rejected", "threw"}
  /\ Len(ins) <= N /\ Len(outs) \in {0, M} /\ Len(held) <= M
  /\ owned \subseteq Outputs /\ \A j \in owned : outs[j].buf \in Allocated
  /\ made \subseteq Heap
  /\ freed \in [Blocks -> Nat]

\* The owners of a buffer are not counted: two results own it, and they are no
\* arrays with a common capsule that all were handed out.
FreedPerResult(b) ==
  /\ \E j, k \in owned : j # k /\ outs[j].buf = b /\ outs[k].buf = b
  /\ api # "py" \/ force \/ pc = "rejected"

\* Nothing is freed twice, and the runtime frees neither the caller's arrays nor
\* the constants of the model: however inputs were wrapped, whichever results
\* are inputs, and at whichever result it fails.  A buffer that several results
\* own is freed once when pyRun returns or is left by an exception, through
\* their capsule; only where nothing counts its owners may it be freed by each.
FreedOnce == \A b \in Blocks : FreedPerResult(b) \/ freed[b] <= (IF b \in made THEN 1 ELSE 0)

\* A tensor of run that outlives its data: that of an input, which run
\* destroys, or a buffer that another result owns.
Dangling(k) ==
  /\ api = "cxx" /\ outs[k].buf # Constant
  /\ outs[k].buf \in Arguments \/ \E j \in owned \ {k} : outs[j].buf = outs[k].buf

\* What the caller holds after the call has its data: no tensor that was
\* destroyed on the way out, and no other result that it let go, freed it, and
\* it is no array of an input that the caller may drop.  So for every array of
\* pyRun, shared or not; of run, for the tensors that have their data alone.
ResultsReadable ==
  pc = "returned" => \A k \in DOMAIN held : held[k].via # "copy" =>
    Dangling(k) \/ (held[k].buf \in made \cup {Constant} /\ freed[held[k].buf] = 0)

\* Memory nothing refers to: the copy of a string array that is read-only, and a
\* buffer of the model that no tensor owns (that of a select with a constant,
\* or of a value whose tensor could not be made).
Lost(b) == b \in Copies \/ (b \in Allocated /\ \A j \in owned : outs[j].buf # b)

\* A call that returned, or rejected a result it cannot pass on, leaves no
\* tensor, list or buffer behind once the caller has let its results go, but
\* for what nothing refers to.
NothingLeft == (pc = "returned" /\ held = <<>>) \/ pc = "rejected" => \A b \in made : Lost(b) \/ freed[b] # 0
=============================================================================
