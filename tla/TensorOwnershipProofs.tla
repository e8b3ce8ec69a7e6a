------------------------ MODULE TensorOwnershipProofs ------------------------
(***************************************************************************)
(* Proofs about TensorOwnership: for any number of inputs and outputs,     *)
(* however inputs are wrapped, whatever the model returns and wherever the *)
(* call fails.                                                             *)
(***************************************************************************)
EXTENDS TensorOwnership, FiniteSetTheorems, SequenceTheorems, TLAPS

Tensors == [struct : Blocks, buf : Blocks, owning : BOOLEAN]
Arrays == [via : {"capsule", "copy", "tensor"}, buf : Blocks]

(* The parameters and locals of a call.                                    *)
CallInv ==
  /\ api \in {"py", "cxx", "jni"}
  /\ force \in BOOLEAN
  /\ pc \in {"wrap", "invoke", "take", "returned", "rejected", "threw"}
  /\ ins \in Seq(Tensors) /\ Len(ins) <= N
  /\ outs \in Seq(Tensors) /\ Len(outs) \in {0, M}
  /\ held \in Seq(Arrays) /\ Len(held) <= M
  /\ owned \subseteq Outputs
  /\ made \subseteq Heap
  /\ freed \in [Blocks -> Nat]

(* Whether omTensorDestroy on t frees b, what it frees of all of ts, and
   what the caller has yet to free.                                        *)
Destroys(t, b) ==
  t # NoTensor /\ (t.struct = b \/ (t.owning /\ t.buf = b))
OwnedBy(ts) == {b \in Blocks : \E k \in DOMAIN ts : Destroys(ts[k], b)}
CallerFrees(k, b) ==
  \/ held[k] = Array("capsule", b)
  \/ held[k].via = "tensor" /\ Destroys(outs[k], b)
StillHeld == {b \in Blocks : \E k \in DOMAIN held : CallerFrees(k, b)}

(* An input is the user's array, or a buffer of its own.                   *)
InsInv ==
  \A i \in DOMAIN ins :
    ins[i] \in {Tensor(InTensor(i), User(i), FALSE),
                Tensor(InTensor(i), Buffer(i), TRUE)}

HandedOver(j) == api = "py" /\ ~force /\ j \in DOMAIN held

(* Before the model runs there are no outputs.  A tensor owns what it was
   made to own, until a capsule does: a buffer the model allocated.        *)
OutsInv ==
  /\ pc \in {"wrap", "invoke"} => outs = <<>> /\ owned = {}
  /\ pc \in {"take", "returned", "rejected"} =>
       /\ Len(outs) = M
       /\ \A j \in Outputs : outs[j] # NoTensor => outs[j].struct = OutTensor(j)
       /\ \A j \in Outputs :
            pc = "take" \/ api = "cxx" =>
              (outs[j].owning <=> j \in owned /\ ~HandedOver(j))
  /\ \A j \in owned : outs[j].buf \in Allocated

(* What was handed to the caller.                                          *)
HeldInv ==
  /\ pc \in {"wrap", "invoke", "rejected"} => held = <<>>
  /\ pc = "take" /\ api = "cxx" => held = <<>>
  /\ pc = "take" /\ api # "cxx" => \A k \in DOMAIN held :
       held[k] = IF api = "py" /\ ~force /\ k \in owned
                 THEN Array("capsule", outs[k].buf) ELSE Copied
  /\ pc = "returned" => \A k \in DOMAIN held :
       \/ api # "cxx" /\ held[k] = Copied
       \/ /\ api = "py" /\ ~force /\ k \in owned
          /\ held[k] = Array("capsule", outs[k].buf)
       \/ api = "cxx" /\ held[k] = Array("tensor", outs[k].buf)

(* What somebody is to free: the inputs, the lists, the tensors of the
   outputs and what they own.                                              *)
OutBlocks ==
  {b \in Blocks : \E j \in DOMAIN outs :
     \/ outs[j] # NoTensor /\ outs[j].struct = b
     \/ j \in owned /\ outs[j].buf = b}
Lists == CASE pc = "wrap" -> {} [] pc = "invoke" -> {InList}
           [] OTHER -> {InList, OutList}
Due == OwnedBy(ins) \cup Lists \cup OutBlocks

(* All of it was allocated, and what else was is lost.                     *)
MadeInv ==
  pc # "threw" => Due \subseteq made /\ \A b \in made \ Due : Lost(b)

(* The model allocated the buffers it returned.                            *)
ReturnedInv ==
  pc = "returned" \/ pc = "take" =>
    \A j \in Outputs :
      outs[j].buf \in (made \cap Allocated) \cup Arguments \cup {Constant}

(* What was freed: what is due, but for what the caller still holds, and
   once where the owners are counted.                                      *)
Counts(S) == [b \in Blocks |-> IF b \in S THEN 1 ELSE 0]
FreedInv ==
  /\ pc \in {"wrap", "invoke"} => freed = Counts({})
  /\ pc = "take" => freed = Counts(IF api = "cxx" THEN {InList} ELSE {})
  /\ pc \in {"returned", "rejected"} => \A b \in Blocks :
       /\ FreedPerResult(b) \/ freed[b] = IF b \in Due \ StillHeld THEN 1 ELSE 0
       /\ b \in Due \ StillHeld => freed[b] # 0
  /\ pc = "threw" => FreedOnce

IInv ==
  /\ CallInv /\ InsInv /\ OutsInv /\ HeldInv
  /\ MadeInv /\ ReturnedInv /\ FreedInv
-----------------------------------------------------------------------------
(* The blocks of one kind are told apart by their number, and those of two
   kinds are different.                                                    *)
LEMMA BlocksDiffer ==
  /\ \A i, j : InTensor(i) = InTensor(j) => i = j
  /\ \A i, j : OutTensor(i) = OutTensor(j) => i = j
  /\ \A i, j : Buffer(i) = Buffer(j) => i = j
  /\ \A i, j : Fresh(i) = Fresh(j) => i = j
  /\ \A i, j : /\ InTensor(i) \notin {OutTensor(j), Buffer(j), Fresh(j), User(j),
                                       InList, OutList, Constant}
               /\ OutTensor(i) \notin {Buffer(j), Fresh(j), User(j), InList,
                                       OutList, Constant}
               /\ Buffer(i) \notin {Fresh(j), User(j), InList, OutList, Constant}
               /\ Fresh(i) \notin {User(j), InList, OutList, Constant}
               /\ User(i) \notin {InList, OutList, Constant}
  /\ InList # OutList /\ Constant \notin {InList, OutList}
BY DEF InTensor, OutTensor, Buffer, Fresh, User, InList, OutList, Constant

(* Which blocks are memory of the heap.                                    *)
LEMMA BlocksOf ==
  /\ Heap \subseteq Blocks
  /\ \A i \in Inputs : InTensor(i) \in Heap /\ Buffer(i) \in Heap
                         /\ Copy(i) \in Heap /\ User(i) \in Blocks
  /\ \A j \in Outputs : OutTensor(j) \in Heap /\ Fresh(j) \in Heap
  /\ Allocated \subseteq Heap /\ Arguments \subseteq Blocks
  /\ InList \in Heap /\ OutList \in Heap /\ Constant \in Blocks
BY DEF Blocks, Heap, Copies, Allocated, Arguments

(* No constant of the model was allocated by it, nor is it a structure.    *)
LEMMA AllocatedIs ==
  \A b \in Allocated : /\ b # Constant
                       /\ \A i : b \notin {InTensor(i), Buffer(i), OutTensor(i), User(i)}
                       /\ b \notin {InList, OutList}
BY BlocksDiffer DEF Allocated

(* A set with no two elements has one or none.                             *)
LEMMA AtMostOne ==
  ASSUME NEW S, \A x, y \in S : x = y
  PROVE  Cardinality(S) = IF S = {} THEN 0 ELSE 1
<1>1. CASE S = {}
  BY <1>1, FS_EmptySet
<1>2. CASE S # {}
  <2>1. PICK x : x \in S
    BY <1>2
  <2>2. S = {x}
    BY <2>1
  <2>3. QED BY <2>2, <1>2, FS_Singleton
<1>3. QED BY <1>1, <1>2

(* Tensors no two of which free the same block free each block once.       *)
LEMMA DestroyAllOnce ==
  ASSUME NEW ts,
         \A b \in Blocks : \A k, l \in DOMAIN ts :
           Destroys(ts[k], b) /\ Destroys(ts[l], b) => k = l
  PROVE  DestroyAll(ts) = Counts(OwnedBy(ts))
<1> SUFFICES ASSUME NEW b \in Blocks
             PROVE  DestroyAll(ts)[b] = Counts(OwnedBy(ts))[b]
  BY DEF DestroyAll, Counts
<1> DEFINE S == {k \in DOMAIN ts : Destroys(ts[k], b)}
<1>1. DestroyAll(ts)[b] = Cardinality(S)
  BY DEF DestroyAll, Destroys
<1>2. Cardinality(S) = IF S = {} THEN 0 ELSE 1
  <2>1. \A x, y \in S : x = y
    OBVIOUS
  <2> HIDE DEF S
  <2>2. QED BY <2>1, AtMostOne
<1>3. Counts(OwnedBy(ts))[b] = IF S = {} THEN 0 ELSE 1
  BY DEF Counts, OwnedBy
<1>4. QED BY <1>1, <1>2, <1>3

(* DestroyAll counts, whatever the tensors.                                *)
LEMMA DestroyAllType ==
  ASSUME NEW T, NEW ts \in Seq(T)
  PROVE  DestroyAll(ts) \in [Blocks -> Nat]
<1> SUFFICES ASSUME NEW b \in Blocks
             PROVE  DestroyAll(ts)[b] \in Nat
  BY DEF DestroyAll
<1> DEFINE S == {k \in DOMAIN ts :
                   ts[k] # NoTensor
                     /\ (ts[k].struct = b \/ (ts[k].owning /\ ts[k].buf = b))}
<1>1. DestroyAll(ts)[b] = Cardinality(S)
  BY DEF DestroyAll
<1>2. S \subseteq 1..Len(ts) /\ Len(ts) \in Nat
  BY LenProperties
<1> HIDE DEF S
<1>3. IsFiniteSet(S)
  <2>1. IsFiniteSet(1..Len(ts))
    BY <1>2, FS_Interval, 1 \in Int, Len(ts) \in Int
  <2>2. QED BY <1>2, <2>1, FS_Subset
<1>4. QED BY <1>1, <1>3, FS_CardinalityType

(* The inputs free their structures and the buffers made for them.         *)
LEMMA InsOwned ==
  ASSUME CallInv, InsInv
  PROVE  /\ DestroyAll(ins) = Counts(OwnedBy(ins))
         /\ \A b \in OwnedBy(ins) : \E i \in Inputs :
              b \in {InTensor(i), Buffer(i)}
<1>0. DOMAIN ins = 1..Len(ins) /\ Len(ins) \in Nat /\ DOMAIN ins \subseteq Inputs
  BY LenProperties, CountsAssumption DEF CallInv, Inputs
<1>1. ASSUME NEW i \in DOMAIN ins, NEW b, Destroys(ins[i], b)
      PROVE  b \in {InTensor(i), Buffer(i)}
  BY <1>1 DEF InsInv, Destroys, Tensor
<1>2. DestroyAll(ins) = Counts(OwnedBy(ins))
  BY <1>1, BlocksDiffer, DestroyAllOnce
<1>3. QED BY <1>0, <1>1, <1>2 DEF OwnedBy

(* How often tensors free one block.                                       *)
LEMMA DestroyAllAt ==
  ASSUME NEW T, NEW ts \in Seq(T), NEW b \in Blocks
  PROVE  /\ DestroyAll(ts)[b] \in Nat
         /\ DestroyAll(ts)[b] = 0 <=> b \notin OwnedBy(ts)
         /\ (\A k, l \in DOMAIN ts :
               Destroys(ts[k], b) /\ Destroys(ts[l], b) => k = l)
              => DestroyAll(ts)[b] = IF b \in OwnedBy(ts) THEN 1 ELSE 0
<1> DEFINE S == {k \in DOMAIN ts : Destroys(ts[k], b)}
<1>1. DestroyAll(ts)[b] = Cardinality(S)
  BY DEF DestroyAll, Destroys
<1>2. b \in OwnedBy(ts) <=> S # {}
  BY DEF OwnedBy
<1>3. S \subseteq 1..Len(ts) /\ Len(ts) \in Nat
  BY LenProperties
<1>4. (\A k, l \in DOMAIN ts :
         Destroys(ts[k], b) /\ Destroys(ts[l], b) => k = l)
        => \A x, y \in S : x = y
  OBVIOUS
<1> HIDE DEF S
<1>5. IsFiniteSet(S)
  <2>1. IsFiniteSet(1..Len(ts))
    BY <1>3, FS_Interval, 1 \in Int, Len(ts) \in Int
  <2>2. QED BY <1>3, <2>1, FS_Subset
<1>6. Cardinality(S) \in Nat /\ (Cardinality(S) = 0 <=> S = {})
  BY <1>5, FS_CardinalityType, FS_EmptySet
<1>7. (\A x, y \in S : x = y) => Cardinality(S) = IF S = {} THEN 0 ELSE 1
  BY AtMostOne
<1>8. QED BY <1>1, <1>2, <1>4, <1>6, <1>7

(* The fields of a tensor.                                                 *)
LEMMA TensorType ==
  ASSUME NEW struct \in Blocks, NEW buf \in Blocks, NEW owning \in BOOLEAN
  PROVE  /\ Tensor(struct, buf, owning) \in Tensors
         /\ Tensor(struct, buf, owning).struct = struct
         /\ Tensor(struct, buf, owning).buf = buf
         /\ Tensor(struct, buf, owning).owning = owning
BY DEF Tensor, Tensors

(* The fields of what the caller is given.                                 *)
LEMMA ArrayType ==
  ASSUME NEW via \in {"capsule", "copy", "tensor"}, NEW buf \in Blocks
  PROVE  /\ Array(via, buf) \in Arrays
         /\ Array(via, buf).via = via
         /\ Array(via, buf).buf = buf
BY DEF Array, Arrays

(* The call begins with nothing wrapped, made or freed.                    *)
LEMMA InitIInv == Init => IInv
<1> SUFFICES ASSUME Init PROVE IInv
  OBVIOUS
<1>1. CallInv
  <2>1. <<>> \in Seq(Tensors) /\ <<>> \in Seq(Arrays) /\ Len(<<>>) = 0
    BY EmptySeq
  <2>2. freed \in [Blocks -> Nat]
    BY DEF Init, Nothing
  <2>3. force \in BOOLEAN
    <3>1. CASE api = "py"
      BY <3>1 DEF Init
    <3>2. CASE api # "py"
      BY <3>2 DEF Init
    <3>3. QED BY <3>1, <3>2
  <2>4. /\ ins \in Seq(Tensors) /\ Len(ins) <= N
        /\ outs \in Seq(Tensors) /\ Len(outs) \in {0, M}
        /\ held \in Seq(Arrays) /\ Len(held) <= M
    BY <2>1, CountsAssumption DEF Init
  <2>5. QED BY <2>2, <2>3, <2>4 DEF Init, CallInv
<1>2. InsInv /\ OutsInv /\ HeldInv
  BY DEF Init, InsInv, OutsInv, HeldInv
<1>3. MadeInv /\ ReturnedInv /\ FreedInv
  <2>1. OwnedBy(ins) = {} /\ OutBlocks = {} /\ Lists = {}
    BY DEF Init, OwnedBy, OutBlocks, Lists
  <2>2. QED BY <2>1 DEF Init, MadeInv, ReturnedInv, FreedInv, Due, Counts, Nothing
<1>4. QED BY <1>1, <1>2, <1>3 DEF IInv

(* PyWrap, CxxWrap, JniWrap: an input more, with its tensor and, if it has
   one, its buffer; a copy that no tensor refers to is lost.               *)
LEMMA WrapStep ==
  ASSUME IInv, pc = "wrap", i0 \in Inputs,
         \/ WrapAs(User(i0), FALSE, {})
         \/ WrapAs(Buffer(i0), TRUE, {Buffer(i0)})
         \/ WrapAs(Buffer(i0), TRUE, {Buffer(i0), Copy(i0)})
  PROVE  IInv'
<1> DEFINE D(t) == {b \in Blocks : Destroys(t, b)}
<1>0. PICK t \in {Tensor(InTensor(i0), User(i0), FALSE),
                  Tensor(InTensor(i0), Buffer(i0), TRUE)} :
        /\ ins' = Append(ins, t)
        /\ made \cup D(t) \subseteq made'
        /\ made' \subseteq made \cup D(t) \cup {Copy(i0)}
        /\ UNCHANGED <<api, force, pc, outs, owned, held, freed>>
  <2>1. CASE WrapAs(User(i0), FALSE, {})
    <3>1. D(Tensor(InTensor(i0), User(i0), FALSE)) = {InTensor(i0)}
      BY BlocksOf, BlocksDiffer DEF Destroys, Tensor, NoTensor
    <3>2. QED BY <2>1, <3>1 DEF WrapAs
  <2>2. D(Tensor(InTensor(i0), Buffer(i0), TRUE)) = {InTensor(i0), Buffer(i0)}
    BY BlocksOf, BlocksDiffer DEF Destroys, Tensor, NoTensor
  <2> HIDE DEF D
  <2>3. CASE WrapAs(Buffer(i0), TRUE, {Buffer(i0)})
    BY <2>2, <2>3 DEF WrapAs
  <2>4. CASE WrapAs(Buffer(i0), TRUE, {Buffer(i0), Copy(i0)})
    BY <2>2, <2>4 DEF WrapAs
  <2>5. QED BY <2>1, <2>3, <2>4
<1>1. t \in Tensors
  <2>1. /\ InTensor(i0) \in Blocks
        /\ User(i0) \in Blocks
        /\ Buffer(i0) \in Blocks
    BY BlocksOf
  <2>2. QED BY <2>1, TensorType
<1>2. /\ ins' \in Seq(Tensors)
      /\ Len(ins') = i0 /\ DOMAIN ins' = 1..i0
      /\ DOMAIN ins = 1..(i0 - 1) /\ i0 \in Nat
      /\ \A i \in DOMAIN ins : ins'[i] = ins[i]
      /\ ins'[i0] = t
      /\ DOMAIN ins' = DOMAIN ins \cup {i0}
  BY <1>0, <1>1, AppendProperties, LenProperties DEF IInv, CallInv, i0
<1>3. D(t) \subseteq Heap /\ Copy(i0) \in Heap
  BY <1>0, BlocksOf DEF Destroys, Tensor
<1> HIDE DEF D
<1>4. CallInv'
  <2>1. made' \subseteq Heap
    BY <1>0, <1>3 DEF IInv, CallInv
  <2>2. QED BY <1>0, <1>2, <2>1 DEF IInv, CallInv, Inputs
<1>5. InsInv'
  <2> SUFFICES ASSUME NEW i \in DOMAIN ins'
               PROVE  ins'[i] \in {Tensor(InTensor(i), User(i), FALSE),
                                   Tensor(InTensor(i), Buffer(i), TRUE)}
    BY DEF InsInv
  <2>1. QED BY <1>2 DEF IInv, InsInv
<1>6. OutsInv' /\ HeldInv'
  BY <1>0 DEF IInv, OutsInv, HeldInv
<1>7. MadeInv'
  <2>1. \A b : (\E k \in DOMAIN ins' : Destroys(ins'[k], b))
                 <=> (\E k \in DOMAIN ins : Destroys(ins[k], b)) \/ Destroys(t, b)
    BY <1>2
  <2>2. OwnedBy(ins') = OwnedBy(ins) \cup D(t)
    BY <2>1 DEF OwnedBy, D
  <2>3. OutBlocks' = OutBlocks /\ Lists' = Lists
    BY <1>0 DEF OutBlocks, Lists
  <2>4. Due' = Due \cup D(t)
    BY <2>2, <2>3 DEF Due
  <2>5. \A b : Lost(b)' = Lost(b)
    BY <1>0 DEF Lost
  <2>6. Lost(Copy(i0))
    BY DEF Lost, Copies
  <2>7. Due \subseteq made /\ \A b \in made \ Due : Lost(b)
    BY DEF IInv, MadeInv
  <2>8. Due' \subseteq made' /\ \A b \in made' \ Due' : Lost(b)'
    BY <1>0, <2>4, <2>5, <2>6, <2>7
  <2>9. QED BY <2>8 DEF MadeInv
<1>8. FreedInv' /\ ReturnedInv'
  BY <1>0 DEF IInv, FreedInv, ReturnedInv
<1>9. QED BY <1>4, <1>5, <1>6, <1>7, <1>8 DEF IInv

(* omTensorListDestroyShallow frees the list only.                         *)
LEMMA ShallowOnce ==
  ASSUME NEW list \in {InList, OutList}
  PROVE  ListDestroyShallow(list) = Counts({list})
BY DEF ListDestroyShallow, Counts

(* Freeing nothing.                                                        *)
LEMMA NothingFreed == Nothing = Counts({})
BY DEF Nothing, Counts

(* Freeing disjoint sets of blocks, once each.                             *)
LEMMA FreesOnce ==
  ASSUME NEW A, NEW B, NEW C, freed = Counts(C), Frees(Counts(A), Counts(B)),
         A \cap B = {}, A \cap C = {}, B \cap C = {}
  PROVE  freed' = Counts(A \cup B \cup C)
<1>1. \A b \in Blocks : Counts(C)[b] + Counts(A)[b] + Counts(B)[b]
                          = Counts(A \cup B \cup C)[b]
  BY DEF Counts
<1>2. freed' = [b \in Blocks |-> Counts(C)[b] + Counts(A)[b] + Counts(B)[b]]
  BY DEF Frees
<1>3. QED BY <1>1, <1>2 DEF Counts

(* Counts are natural numbers.                                             *)
LEMMA CountsType == \A S : Counts(S) \in [Blocks -> Nat]
BY DEF Counts

(* What is left of the invariant once a call has been given up.            *)
LEMMA ThrewStep ==
  ASSUME CallInv', InsInv', pc' = "threw", FreedOnce',
         \A j \in owned' : outs'[j].buf \in Allocated
  PROVE  IInv'
BY DEF IInv, OutsInv, HeldInv, MadeInv, ReturnedInv, FreedInv

(* PyWrapThrows, JniWrapReturns, JniTakeReturns: nothing is freed.         *)
LEMMA GiveUpStep ==
  ASSUME IInv, PyWrapThrows \/ JniWrapReturns \/ JniTakeReturns
  PROVE  IInv'
<1>1. /\ pc' = "threw" /\ made \subseteq made' /\ made' \subseteq Heap
      /\ held' \in {held, <<>>}
      /\ UNCHANGED <<api, force, ins, outs, owned, freed>>
      /\ freed = Counts({})
  <2>1. CASE PyWrapThrows
    <3>1. /\ made \subseteq made' /\ made' \subseteq Heap
      <4>1. CASE i0 \in Inputs
        <5>1. Buffer(i0) \in Heap /\ Copy(i0) \in Heap
          BY <4>1, BlocksOf
        <5>2. QED BY <2>1, <4>1, <5>1 DEF PyWrapThrows, IInv, CallInv
      <4>2. CASE i0 \notin Inputs
        BY <2>1, <4>2 DEF PyWrapThrows, IInv, CallInv
      <4>3. QED BY <4>1, <4>2
    <3>2. QED BY <2>1, <3>1 DEF PyWrapThrows, IInv, FreedInv
  <2>2. CASE JniWrapReturns
    BY <2>2 DEF JniWrapReturns, IInv, CallInv, FreedInv
  <2>3. CASE JniTakeReturns
    BY <2>3 DEF JniTakeReturns, IInv, CallInv, FreedInv
  <2>4. QED BY <2>1, <2>2, <2>3
<1>2. held' \in Seq(Arrays) /\ Len(held') <= M
  <2>1. <<>> \in Seq(Arrays) /\ Len(<<>>) = 0 /\ 0 <= M
    BY EmptySeq, CountsAssumption
  <2>2. held \in Seq(Arrays) /\ Len(held) <= M
    BY DEF IInv, CallInv
  <2>3. held' = held \/ held' = <<>>
    BY <1>1
  <2>4. QED BY <2>1, <2>2, <2>3
<1>3. CallInv'
  BY <1>1, <1>2 DEF IInv, CallInv
<1>4. InsInv'
  BY <1>1 DEF IInv, InsInv
<1>5. FreedOnce'
  BY <1>1 DEF FreedOnce, Counts
<1>6. \A j \in owned' : outs'[j].buf \in Allocated
  BY <1>1 DEF IInv, OutsInv
<1>7. QED BY <1>1, <1>3, <1>4, <1>5, <1>6, ThrewStep

(* The entry point returned null: run destroys its list and its inputs.    *)
LEMMA InvokeFailsStep ==
  ASSUME IInv, InvokeFails
  PROVE  IInv'
<1>0. /\ pc = "invoke" /\ pc' = "threw" /\ freed = Counts({})
      /\ UNCHANGED <<api, force, ins, outs, owned, held, made>>
  BY DEF InvokeFails, IInv, FreedInv
<1>1. OwnedBy(ins) \cup {InList} \subseteq made
  BY <1>0 DEF IInv, MadeInv, Due, Lists
<1>2. freed' = Counts({}) \/ freed' = Counts({InList} \cup OwnedBy(ins) \cup {})
  <2>1. CASE api # "cxx"
    BY <1>0, <2>1 DEF InvokeFails
  <2>2. CASE api = "cxx"
    <3>1. DestroyAll(ins) = Counts(OwnedBy(ins)) /\ InList \notin OwnedBy(ins)
      BY InsOwned, BlocksDiffer DEF IInv
    <3>2. Frees(Counts({InList}), Counts(OwnedBy(ins)))
      BY <2>2, <3>1, ShallowOnce DEF InvokeFails
    <3>3. freed' = Counts({InList} \cup OwnedBy(ins) \cup {})
      BY <1>0, <3>1, <3>2, FreesOnce
    <3>4. QED BY <3>3
  <2>3. QED BY <2>1, <2>2
<1>3. CallInv'
  BY <1>0, <1>2, CountsType DEF IInv, CallInv
<1>4. InsInv'
  BY <1>0 DEF IInv, InsInv
<1>5. FreedOnce'
  BY <1>0, <1>1, <1>2 DEF FreedOnce, Counts
<1>6. \A j \in owned' : outs'[j].buf \in Allocated
  BY <1>0 DEF IInv, OutsInv
<1>7. QED BY <1>0, <1>3, <1>4, <1>5, <1>6, ThrewStep

(* The list of the inputs.                                                 *)
LEMMA CreateListStep ==
  ASSUME IInv, CreateList
  PROVE  IInv'
<1>0. /\ pc = "wrap" /\ pc' = "invoke" /\ made' = made \cup {InList}
      /\ UNCHANGED <<api, force, ins, outs, owned, held, freed>>
  BY DEF CreateList
<1>1. CallInv'
  BY <1>0, BlocksOf DEF IInv, CallInv
<1>2. InsInv' /\ OutsInv' /\ HeldInv'
  BY <1>0 DEF IInv, InsInv, OutsInv, HeldInv
<1>3. MadeInv'
  <2>1. OutBlocks' = OutBlocks /\ OwnedBy(ins)' = OwnedBy(ins)
    BY <1>0 DEF OutBlocks, OwnedBy
  <2>2. Lists = {} /\ Lists' = {InList}
    BY <1>0 DEF Lists
  <2>3. \A b : Lost(b)' = Lost(b)
    BY <1>0 DEF Lost
  <2>4. QED BY <1>0, <2>1, <2>2, <2>3 DEF IInv, MadeInv, Due
<1>4. FreedInv' /\ ReturnedInv'
  BY <1>0 DEF IInv, FreedInv, ReturnedInv
<1>5. QED BY <1>1, <1>2, <1>3, <1>4 DEF IInv

(* A function on 1..n is a sequence of length n.                           *)
LEMMA FunctionIsSeq ==
  ASSUME NEW S, NEW n \in Nat, NEW f \in [1..n -> S]
  PROVE  f \in Seq(S) /\ Len(f) = n /\ DOMAIN f = 1..n
<1>1. f \in Seq(S)
  BY SeqDef
<1>2. DOMAIN f = 1..Len(f) /\ Len(f) \in Nat /\ DOMAIN f = 1..n
  BY <1>1, LenProperties
<1>3. QED BY <1>1, <1>2

(* The entry point returned a list: its tensors own buffers the model
   allocated for them; what no tensor owns is lost.                        *)
LEMMA InvokeReturnsStep ==
  ASSUME IInv, InvokeReturns
  PROVE  IInv'
<1> DEFINE Data == Arguments \cup Allocated \cup {Constant}
<1>0. PICK bufs \in [Outputs -> Data],
           notTaken \in [Outputs -> SUBSET {Constant}], null \in SUBSET Outputs :
        /\ owned' = {j \in Outputs \ null : ShouldOwn({bufs[j]} \cup notTaken[j])}
        /\ outs' = [j \in Outputs |->
                     IF j \in null THEN NoTensor
                     ELSE Tensor(OutTensor(j), bufs[j], j \in owned')]
        /\ made' = made \cup {OutList} \cup {OutTensor(j) : j \in Outputs \ null}
                        \cup {b \in Allocated : \E j \in Outputs : b = bufs[j]}
  BY DEF InvokeReturns
<1>1. /\ pc = "invoke" /\ pc' = "take"
      /\ UNCHANGED <<api, force, ins, held>>
      /\ freed = Counts({}) /\ held = <<>> /\ outs = <<>> /\ owned = {}
  BY DEF InvokeReturns, IInv, FreedInv, HeldInv, OutsInv
<1>2. /\ owned' \subseteq Outputs \ null
      /\ \A j \in owned' : bufs[j] \in Allocated
  BY <1>0 DEF ShouldOwn
<1>3. Data \subseteq Blocks
  BY BlocksOf
<1>4. ASSUME NEW j \in Outputs
      PROVE  /\ outs'[j] \in Tensors
             /\ j \in null => /\ outs'[j] = NoTensor
                              /\ outs'[j].buf = Constant
                              /\ ~outs'[j].owning
             /\ j \notin null => /\ outs'[j] # NoTensor
                                 /\ outs'[j].struct = OutTensor(j)
                                 /\ outs'[j].buf = bufs[j]
                                 /\ outs'[j].owning <=> j \in owned'
  <2>0. OutTensor(j) \in Blocks /\ Constant \in Blocks /\ bufs[j] \in Blocks
    BY <1>3, BlocksOf
  <2>1. CASE j \in null
    BY <1>0, <2>0, <2>1, TensorType DEF NoTensor
  <2>2. CASE j \notin null
    <3> DEFINE o == j \in owned'
    <3>1. o \in BOOLEAN /\ (o <=> j \in owned')
      OBVIOUS
    <3>2. outs'[j] = Tensor(OutTensor(j), bufs[j], o)
      BY <1>0, <2>2
    <3> HIDE DEF o
    <3>3. OutTensor(j) # Constant
      BY DEF OutTensor, Constant
    <3>4. NoTensor.struct = Constant
      BY DEF NoTensor, Tensor
    <3>5. QED BY <2>0, <2>2, <3>1, <3>2, <3>3, <3>4, TensorType
  <2>3. QED BY <2>1, <2>2
<1>5. /\ outs' \in Seq(Tensors) /\ Len(outs') = M /\ DOMAIN outs' = Outputs
  <2>1. outs' \in [1..M -> Tensors]
    BY <1>0, <1>4 DEF Outputs
  <2>2. QED BY <2>1, FunctionIsSeq, CountsAssumption DEF Outputs
<1>6. /\ made \subseteq made' /\ OutList \in made' /\ made' \subseteq Heap
      /\ \A j \in Outputs \ null : OutTensor(j) \in made'
      /\ \A j \in Outputs : bufs[j] \in Allocated => bufs[j] \in made'
      /\ \A b \in made' : \/ b \in made \/ b = OutList \/ b \in Allocated
                          \/ \E j \in Outputs \ null : b = OutTensor(j)
  <2>1. made' \subseteq Heap
    BY <1>0, BlocksOf DEF IInv, CallInv
  <2>2. QED BY <1>0, <2>1
<1>7. ASSUME NEW b \in Blocks
      PROVE  b \in OutBlocks' <=> \E j \in Outputs :
               \/ j \notin null /\ b = OutTensor(j)
               \/ j \in owned' /\ b = bufs[j]
  BY <1>2, <1>4, <1>5 DEF OutBlocks
<1>8. MadeInv'
  <2>1. /\ OwnedBy(ins)' = OwnedBy(ins) /\ Lists = {InList}
        /\ Lists' = {InList, OutList}
    BY <1>1 DEF OwnedBy, Lists
  <2>2. OutBlocks = {}
    BY <1>1 DEF OutBlocks
  <2>3. /\ OwnedBy(ins) \cup {InList} \subseteq made
        /\ \A b \in made : b \in OwnedBy(ins) \cup {InList} \/ Lost(b)
    BY <1>1, <2>1, <2>2 DEF IInv, MadeInv, Due
  <2>4. OutBlocks' \subseteq made'
    <3>1. OutBlocks' \subseteq Blocks
      BY DEF OutBlocks
    <3>2. QED BY <1>2, <1>6, <1>7, <3>1
  <2>5. Due' \subseteq made'
    BY <1>6, <2>1, <2>3, <2>4 DEF Due
  <2>6. ASSUME NEW b \in made' \ Due' PROVE Lost(b)'
    <3>1. b \in Blocks /\ b \notin OwnedBy(ins) \cup {InList, OutList} \cup OutBlocks'
      BY <1>6, <2>1, BlocksOf DEF Due
    <3>2. b \in Allocated \/ b \in Copies
      <4>1. \A j \in Outputs \ null : b # OutTensor(j)
        BY <1>7, <3>1
      <4>2. b \in made => b \in Copies \/ b \in Allocated
        BY <2>3, <3>1 DEF Lost
      <4>3. QED BY <1>6, <3>1, <4>1, <4>2
    <3>3. \A j \in owned' : outs'[j].buf # b
      BY <1>2, <1>4, <1>7, <3>1
    <3>4. QED BY <3>2, <3>3 DEF Lost
  <2>7. QED BY <2>5, <2>6 DEF MadeInv
<1>9. freed' = Counts(IF api = "cxx" THEN {InList} ELSE {})
  <2>1. CASE api = "cxx"
    <3>1. Frees(Counts({InList}), Counts({}))
      BY <2>1, ShallowOnce, NothingFreed DEF InvokeReturns
    <3>2. freed' = Counts({InList} \cup {} \cup {})
      BY <1>1, <3>1, FreesOnce
    <3>3. {InList} \cup {} \cup {} = {InList}
      OBVIOUS
    <3>4. QED BY <2>1, <3>2, <3>3
  <2>2. CASE api # "cxx"
    <3>1. Frees(Counts({}), Counts({}))
      BY <2>2, NothingFreed DEF InvokeReturns
    <3>2. freed' = Counts({} \cup {} \cup {})
      BY <1>1, <3>1, FreesOnce
    <3>3. {} \cup {} \cup {} = {}
      OBVIOUS
    <3>4. QED BY <2>2, <3>2, <3>3
  <2>3. QED BY <2>1, <2>2
<1>10. CallInv'
  BY <1>1, <1>2, <1>5, <1>6, <1>9, CountsType DEF IInv, CallInv
<1>11. InsInv' /\ HeldInv'
  <2>1. InsInv'
    BY <1>1 DEF IInv, InsInv
  <2>2. held' = <<>> /\ DOMAIN held' = {}
    BY <1>1
  <2>3. HeldInv'
    BY <1>1, <2>2 DEF HeldInv
  <2>4. QED BY <2>1, <2>3
<1>12. OutsInv'
  <2>1. \A j \in Outputs : ~HandedOver(j)'
    BY <1>1 DEF HandedOver
  <2>2. \A j \in Outputs :
          /\ outs'[j] # NoTensor => outs'[j].struct = OutTensor(j)
          /\ outs'[j].owning <=> j \in owned' /\ ~HandedOver(j)'
    BY <1>2, <1>4, <2>1
  <2>3. \A j \in owned' : outs'[j].buf \in Allocated
    BY <1>2, <1>4
  <2>4. QED BY <1>1, <1>5, <2>2, <2>3 DEF OutsInv
<1>13. ReturnedInv' /\ FreedInv'
  <2>1. ReturnedInv'
    BY <1>4, <1>6 DEF ReturnedInv
  <2>2. QED BY <1>1, <1>9, <2>1 DEF FreedInv
<1>14. QED BY <1>8, <1>10, <1>11, <1>12, <1>13 DEF IInv

(* PyTake, JniTake: one result more for the caller; a capsule takes over
   what the tensor owned.                                                  *)
LEMMA TakeStep ==
  ASSUME IInv, PyTake \/ JniTake
  PROVE  IInv'
<1> DEFINE moved == api = "py" /\ ~force /\ j0 \in owned
           a == IF moved THEN Array("capsule", outs[j0].buf) ELSE Copied
<1>0. /\ pc = "take" /\ j0 \in Outputs /\ outs[j0] # NoTensor /\ api # "cxx"
      /\ UNCHANGED <<api, force, pc, ins, owned, made, freed>>
  BY DEF PyTake, JniTake
<1>1. /\ DOMAIN held = 1..Len(held) /\ Len(held) \in Nat /\ j0 = Len(held) + 1
      /\ held \in Seq(Arrays)
  BY LenProperties DEF IInv, CallInv, j0
<1>2. j0 \notin DOMAIN held
  BY <1>1
<1>3. /\ outs \in Seq(Tensors) /\ Len(outs) = M /\ DOMAIN outs = Outputs
      /\ outs \in [Outputs -> Tensors]
  BY <1>0, LenProperties DEF IInv, CallInv, OutsInv, Outputs
<1>4. /\ outs[j0].struct = OutTensor(j0)
      /\ outs[j0].owning <=> j0 \in owned
  BY <1>0, <1>2 DEF IInv, OutsInv, HandedOver
<1>5. outs[j0].buf \in Blocks /\ a \in Arrays
  <2>1. outs[j0].buf \in Blocks /\ Constant \in Blocks
    BY <1>0, <1>3, BlocksOf DEF Tensors
  <2>2. QED BY <2>1, ArrayType DEF Copied
<1>6. held' = Append(held, a)
  BY <1>4 DEF PyTake, JniTake
<1>7. outs' = IF moved THEN [outs EXCEPT ![j0].owning = FALSE] ELSE outs
  BY <1>4 DEF PyTake, JniTake
<1>8. /\ held' \in Seq(Arrays) /\ Len(held') = j0
      /\ DOMAIN held' = DOMAIN held \cup {j0}
      /\ \A k \in DOMAIN held : held'[k] = held[k]
      /\ held'[j0] = a
  <2> HIDE DEF a
  <2>1. /\ held' \in Seq(Arrays) /\ Len(held') = Len(held) + 1
        /\ \A k \in 1..Len(held) : held'[k] = held[k]
        /\ held'[Len(held) + 1] = a
    BY <1>1, <1>5, <1>6, AppendProperties
  <2>2. DOMAIN held' = 1..Len(held')
    BY <2>1, LenProperties
  <2>3. QED BY <1>1, <2>1, <2>2
<1>9. /\ outs' \in [Outputs -> Tensors]
      /\ \A j \in Outputs :
           /\ outs'[j].struct = outs[j].struct
           /\ outs'[j].buf = outs[j].buf
           /\ j # j0 => outs'[j] = outs[j]
      /\ moved => ~outs'[j0].owning
      /\ ~moved => outs'[j0] = outs[j0]
  BY <1>0, <1>3, <1>7 DEF Tensors
<1>10. outs'[j0] # NoTensor
  <2>1. NoTensor.struct # OutTensor(j0)
    BY DEF NoTensor, Tensor, OutTensor, Constant
  <2>2. QED BY <1>0, <1>4, <1>9, <2>1
<1>11. outs' \in Seq(Tensors) /\ Len(outs') = M /\ DOMAIN outs' = Outputs
  BY <1>9, FunctionIsSeq, CountsAssumption DEF Outputs
<1>12. CallInv'
  BY <1>0, <1>8, <1>11 DEF IInv, CallInv, Outputs
<1>13. InsInv'
  BY <1>0 DEF IInv, InsInv
<1>14. OutsInv'
  <2>1. \A j \in Outputs : outs'[j] # NoTensor => outs'[j].struct = OutTensor(j)
    BY <1>0, <1>4, <1>9 DEF IInv, OutsInv
  <2>2. ASSUME NEW j \in Outputs
        PROVE  outs'[j].owning <=> j \in owned' /\ ~HandedOver(j)'
    <3>1. HandedOver(j)' <=> HandedOver(j) \/ (api = "py" /\ ~force /\ j = j0)
      BY <1>0, <1>8 DEF HandedOver
    <3>2. CASE j # j0
      BY <1>0, <1>9, <3>1, <3>2 DEF IInv, OutsInv
    <3>3. CASE j = j0
      <4>1. ~HandedOver(j)
        BY <1>2, <3>3 DEF HandedOver
      <4>2. QED BY <1>0, <1>4, <1>9, <3>1, <3>3, <4>1
    <3>4. QED BY <3>2, <3>3
  <2>3. \A j \in owned' : outs'[j].buf \in Allocated
    BY <1>0, <1>9 DEF IInv, OutsInv, CallInv
  <2>4. QED BY <1>0, <1>11, <2>1, <2>2, <2>3 DEF OutsInv
<1>15. HeldInv'
  <2>1. \A k \in DOMAIN held' :
          held'[k] = IF api = "py" /\ ~force /\ k \in owned
                     THEN Array("capsule", outs'[k].buf) ELSE Copied
    <3>1. DOMAIN held \subseteq Outputs
      BY <1>0, <1>1, CountsAssumption DEF Outputs
    <3>2. QED BY <1>0, <1>8, <1>9, <3>1 DEF IInv, HeldInv
  <2>2. QED BY <1>0, <2>1 DEF HeldInv
<1>16. MadeInv'
  <2>1. \A j \in Outputs : outs'[j] = NoTensor <=> outs[j] = NoTensor
    BY <1>0, <1>9, <1>10
  <2>2. OutBlocks' = OutBlocks
    BY <1>0, <1>3, <1>9, <1>11, <2>1 DEF OutBlocks
  <2>3. OwnedBy(ins)' = OwnedBy(ins) /\ Lists' = Lists
    BY <1>0 DEF OwnedBy, Lists
  <2>4. \A b : Lost(b)' <=> Lost(b)
    BY <1>0, <1>9 DEF Lost, IInv, CallInv
  <2>5. Due' = Due
    BY <2>2, <2>3 DEF Due
  <2>6. QED BY <1>0, <2>4, <2>5 DEF IInv, MadeInv
<1>17. FreedInv' /\ ReturnedInv'
  BY <1>0, <1>9 DEF IInv, FreedInv, ReturnedInv
<1>18. QED BY <1>12, <1>13, <1>14, <1>15, <1>16, <1>17 DEF IInv

(* Two results own the buffer.                                             *)
Shared(b) == \E j, k \in owned : j # k /\ outs[j].buf = b /\ outs[k].buf = b

(* What is in capsules while the results are taken.                        *)
LEMMA CapsulesAtTake ==
  ASSUME IInv, pc = "take", api # "cxx", NEW b
  PROVE  /\ (\E k \in DOMAIN held : CallerFrees(k, b))
              <=> \E k \in Outputs :
                     HandedOver(k) /\ k \in owned /\ b = outs[k].buf
         /\ (\E k \in DOMAIN held : CallerFrees(k, b))
              <=> \E k \in DOMAIN held : held[k] = Array("capsule", b)
<1>1. DOMAIN held \subseteq Outputs
  BY LenProperties, CountsAssumption DEF IInv, CallInv, Outputs
<1>2. ASSUME NEW k \in DOMAIN held
      PROVE  /\ CallerFrees(k, b) <=> HandedOver(k) /\ k \in owned /\ b = outs[k].buf
             /\ CallerFrees(k, b) <=> held[k] = Array("capsule", b)
  <2>1. CASE api = "py" /\ ~force /\ k \in owned
    <3>1. held[k] = Array("capsule", outs[k].buf)
      BY <2>1 DEF IInv, HeldInv
    <3>2. QED BY <2>1, <3>1 DEF CallerFrees, Array, HandedOver
  <2>2. CASE ~(api = "py" /\ ~force /\ k \in owned)
    <3>1. held[k] = Copied
      BY <2>2 DEF IInv, HeldInv
    <3>2. QED BY <2>2, <3>1 DEF CallerFrees, Array, Copied, HandedOver
  <2>3. QED BY <2>1, <2>2
<1>3. QED BY <1>1, <1>2 DEF HandedOver

(* While the results are taken, what is due of an output belongs to the
   tensors or to the capsules; to one of them only, if no two results own
   it or all of them have been handed over.                                *)
LEMMA TakeParts ==
  ASSUME IInv, pc = "take", api # "cxx", NEW b \in Blocks
  PROVE  /\ DestroyAll(outs)[b] \in Nat
         /\ DestroyAll(outs)[b] = 0 <=> b \notin OwnedBy(outs)
         /\ b \in OutBlocks <=> b \in OwnedBy(outs) \/ b \in StillHeld
         /\ DropCapsules(held)[b] = IF b \in StillHeld THEN 1 ELSE 0
         /\ ~Shared(b) \/ (DOMAIN held = Outputs /\ api = "py" /\ ~force) =>
              /\ DestroyAll(outs)[b] = IF b \in OwnedBy(outs) THEN 1 ELSE 0
              /\ b \notin OwnedBy(outs) \cap StillHeld
<1>0. DOMAIN outs = Outputs /\ outs \in Seq(Tensors)
  BY LenProperties DEF IInv, CallInv, OutsInv, Outputs
<1>1. ASSUME NEW j \in Outputs
      PROVE  /\ outs[j] # NoTensor => outs[j].struct = OutTensor(j)
             /\ outs[j].owning <=> j \in owned /\ ~HandedOver(j)
             /\ j \in owned => outs[j].buf \in Allocated /\ outs[j] # NoTensor
  <2>1. NoTensor.buf \notin Allocated
    BY AllocatedIs DEF NoTensor, Tensor
  <2>2. QED BY <2>1 DEF IInv, OutsInv
<1>2. b \in StillHeld <=> \E k \in Outputs :
        HandedOver(k) /\ k \in owned /\ b = outs[k].buf
  BY CapsulesAtTake DEF StillHeld
<1>3. DropCapsules(held)[b] = IF b \in StillHeld THEN 1 ELSE 0
  <2>1. b \in StillHeld <=> \E k \in DOMAIN held : held[k] = Array("capsule", b)
    BY CapsulesAtTake DEF StillHeld
  <2>2. QED BY <2>1 DEF DropCapsules
<1>4. ASSUME NEW j \in Outputs
      PROVE  Destroys(outs[j], b) <=>
               \/ outs[j] # NoTensor /\ b = OutTensor(j)
               \/ j \in owned /\ ~HandedOver(j) /\ b = outs[j].buf
  BY <1>1 DEF Destroys
<1>5. b \in OutBlocks <=> b \in OwnedBy(outs) \/ b \in StillHeld
  <2>1. b \in OutBlocks <=> \E j \in Outputs :
          \/ outs[j] # NoTensor /\ b = OutTensor(j)
          \/ j \in owned /\ b = outs[j].buf
    BY <1>0, <1>1 DEF OutBlocks
  <2>2. b \in OwnedBy(outs) <=> \E j \in Outputs : Destroys(outs[j], b)
    BY <1>0 DEF OwnedBy
  <2>3. QED BY <1>2, <1>4, <2>1, <2>2
<1>6. ASSUME ~Shared(b) \/ (DOMAIN held = Outputs /\ api = "py" /\ ~force)
      PROVE  /\ \A k, l \in DOMAIN outs :
                  Destroys(outs[k], b) /\ Destroys(outs[l], b) => k = l
             /\ b \notin OwnedBy(outs) \cap StillHeld
  <2>1. \A j, k \in Outputs :
          /\ OutTensor(j) = OutTensor(k) => j = k
          /\ j \in owned => outs[j].buf # OutTensor(k)
    BY <1>1, AllocatedIs, BlocksDiffer
  <2>2. CASE ~Shared(b)
    <3>1. \A j, k \in owned : outs[j].buf = b /\ outs[k].buf = b => j = k
      BY <2>2 DEF Shared
    <3>2. QED BY <1>0, <1>2, <1>4, <2>1, <3>1 DEF OwnedBy
  <2>3. CASE DOMAIN held = Outputs /\ api = "py" /\ ~force
    <3>1. \A j \in Outputs : HandedOver(j)
      BY <2>3 DEF HandedOver
    <3>2. QED BY <1>0, <1>2, <1>4, <2>1, <3>1 DEF OwnedBy
  <2>4. QED BY <1>6, <2>2, <2>3
<1>7. /\ DestroyAll(outs)[b] \in Nat
      /\ DestroyAll(outs)[b] = 0 <=> b \notin OwnedBy(outs)
      /\ (\A k, l \in DOMAIN outs :
            Destroys(outs[k], b) /\ Destroys(outs[l], b) => k = l)
           => DestroyAll(outs)[b] = IF b \in OwnedBy(outs) THEN 1 ELSE 0
  BY <1>0, DestroyAllAt
<1>8. QED BY <1>3, <1>5, <1>6, <1>7

(* What belongs to the inputs, the lists and the outputs is disjoint.      *)
LEMMA PartsDisjoint ==
  ASSUME IInv, pc \in {"take", "returned", "rejected"}
  PROVE  /\ OutBlocks \cap OwnedBy(ins) = {}
         /\ InList \notin OutBlocks /\ OutList \notin OutBlocks
         /\ InList \notin OwnedBy(ins) /\ OutList \notin OwnedBy(ins)
         /\ InList # OutList /\ Lists = {InList, OutList}
<1>0. DOMAIN outs = Outputs
  BY LenProperties DEF IInv, CallInv, OutsInv, Outputs
<1>1. \A b \in OwnedBy(ins) : \E i \in Inputs : b \in {InTensor(i), Buffer(i)}
  BY InsOwned DEF IInv
<1>2. \A b \in OutBlocks : b \in Allocated \/ \E j \in Outputs : b = OutTensor(j)
  BY <1>0 DEF IInv, OutsInv, OutBlocks
<1>3. OutBlocks \cap OwnedBy(ins) = {}
  <2> SUFFICES ASSUME NEW b \in OutBlocks, b \in OwnedBy(ins) PROVE FALSE
    OBVIOUS
  <2>1. PICK i \in Inputs : b \in {InTensor(i), Buffer(i)}
    BY <1>1
  <2>2. \A j : OutTensor(j) \notin {InTensor(i), Buffer(i)}
    BY DEF InTensor, Buffer, OutTensor
  <2>3. b \notin Allocated
    BY <2>1, AllocatedIs
  <2>4. QED BY <1>2, <2>1, <2>2, <2>3
<1>4. InList \notin OutBlocks /\ OutList \notin OutBlocks
  <2>1. \A j : OutTensor(j) \notin {InList, OutList}
    BY DEF OutTensor, InList, OutList
  <2>2. QED BY <1>2, <2>1, AllocatedIs
<1>5. InList \notin OwnedBy(ins) /\ OutList \notin OwnedBy(ins)
  BY <1>1 DEF InTensor, Buffer, InList, OutList
<1>6. InList # OutList
  BY DEF InList, OutList
<1>7. Lists = {InList, OutList}
  BY DEF Lists
<1>8. QED BY <1>3, <1>4, <1>5, <1>6, <1>7

(* Destroying both lists: what it frees of a block that is not a result's
   capsule.                                                                *)
LEMMA BothLists ==
  ASSUME IInv, pc = "take", api # "cxx", NEW b \in Blocks
  PROVE  LET n == ListDestroy(OutList, outs)[b] + ListDestroy(InList, ins)[b] IN
         /\ n \in Nat
         /\ b \in Due \ StillHeld => n # 0
         /\ ~Shared(b) \/ (DOMAIN held = Outputs /\ api = "py" /\ ~force) =>
              n = IF b \in Due \ StillHeld THEN 1 ELSE 0
<1> DEFINE one(S) == IF b \in S THEN 1 ELSE 0
           d == DestroyAll(outs)[b]
           n == ListDestroy(OutList, outs)[b] + ListDestroy(InList, ins)[b]
<1>1. n = d + one({OutList}) + (one(OwnedBy(ins)) + one({InList}))
  <2>1. DestroyAll(ins) = Counts(OwnedBy(ins))
    BY InsOwned DEF IInv
  <2>2. DestroyAll(ins)[b] = one(OwnedBy(ins))
    BY <2>1 DEF Counts
  <2>3. QED BY <2>2 DEF ListDestroy, ListDestroyShallow
<1>2. /\ d \in Nat
      /\ d = 0 <=> b \notin OwnedBy(outs)
      /\ b \in OutBlocks <=> b \in OwnedBy(outs) \/ b \in StillHeld
      /\ ~Shared(b) \/ (DOMAIN held = Outputs /\ api = "py" /\ ~force) =>
           d = one(OwnedBy(outs)) /\ b \notin OwnedBy(outs) \cap StillHeld
  BY TakeParts
<1>3. /\ OutBlocks \cap OwnedBy(ins) = {}
      /\ InList \notin OutBlocks /\ OutList \notin OutBlocks
      /\ InList \notin OwnedBy(ins) /\ OutList \notin OwnedBy(ins)
      /\ InList # OutList
  BY PartsDisjoint
<1>4. b \in Due <=> \/ b \in OwnedBy(ins) \/ b = InList \/ b = OutList
                    \/ b \in OutBlocks
  BY PartsDisjoint DEF Due
<1> HIDE DEF n, d
<1>5. n \in Nat /\ (b \in Due \ StillHeld => n # 0)
  BY <1>1, <1>2, <1>4
<1>6. ~Shared(b) \/ (DOMAIN held = Outputs /\ api = "py" /\ ~force) =>
        n = IF b \in Due \ StillHeld THEN 1 ELSE 0
  BY <1>1, <1>2, <1>3, <1>4
<1>7. QED BY <1>5, <1>6 DEF n

(* What is due does not change when the results are handed out or let go.  *)
LEMMA DueKept ==
  ASSUME pc \in {"take", "returned"}, pc' \in {"returned", "rejected"},
         UNCHANGED <<ins, outs, owned, made>>
  PROVE  /\ Due' = Due /\ OutBlocks' = OutBlocks
         /\ \A b : (Lost(b)' <=> Lost(b)) /\ (Shared(b)' <=> Shared(b))
         /\ MadeInv => MadeInv'
<1>1. OutBlocks' = OutBlocks /\ OwnedBy(ins)' = OwnedBy(ins)
  BY DEF OutBlocks, OwnedBy
<1>2. Lists' = Lists
  BY DEF Lists
<1>3. Due' = Due
  BY <1>1, <1>2 DEF Due
<1>4. \A b : (Lost(b)' <=> Lost(b)) /\ (Shared(b)' <=> Shared(b))
  BY DEF Lost, Shared
<1>5. MadeInv => MadeInv'
  BY <1>3, <1>4 DEF MadeInv
<1>6. QED BY <1>1, <1>3, <1>4, <1>5

(* PyReturn, JniReturn: both lists go, and what the caller holds stays.    *)
LEMMA ReturnStep ==
  ASSUME IInv, PyReturn \/ JniReturn
  PROVE  IInv'
<1>0. /\ pc = "take" /\ pc' = "returned" /\ j0 \notin Outputs /\ api # "cxx"
      /\ UNCHANGED <<api, force, ins, outs, owned, held, made>>
      /\ freed = Counts({})
  BY DEF PyReturn, JniReturn, IInv, FreedInv
<1>1. DOMAIN held = Outputs
  <2>1. DOMAIN held = 1..Len(held) /\ Len(held) \in Nat /\ Len(held) <= M
    BY LenProperties DEF IInv, CallInv
  <2>2. ASSUME NEW n \in Nat, n <= M, n + 1 \notin 1..M PROVE n = M
    BY <2>2, CountsAssumption
  <2>3. Len(held) = M
    BY <1>0, <2>1, <2>2 DEF j0, Outputs
  <2>4. QED BY <2>1, <2>3 DEF Outputs
<1> DEFINE n(b) == ListDestroy(OutList, outs)[b] + ListDestroy(InList, ins)[b]
<1>2. ASSUME NEW b \in Blocks
      PROVE  /\ n(b) \in Nat
             /\ b \in Due \ StillHeld => n(b) # 0
             /\ ~Shared(b) \/ (api = "py" /\ ~force) =>
                  n(b) = IF b \in Due \ StillHeld THEN 1 ELSE 0
  BY <1>0, <1>1, BothLists
<1>3. freed' = [b \in Blocks |-> n(b)]
  <2>1. \A b \in Blocks : ListDestroy(OutList, outs)[b] \in Nat
                            /\ ListDestroy(InList, ins)[b] \in Nat
    <3>1. DestroyAll(outs) \in [Blocks -> Nat] /\ DestroyAll(ins) \in [Blocks -> Nat]
      BY DestroyAllType DEF IInv, CallInv
    <3>2. QED BY <3>1 DEF ListDestroy, ListDestroyShallow
  <2>2. \A b \in Blocks : freed[b] = 0
    BY <1>0 DEF Counts
  <2>3. CASE PyReturn
    BY <2>1, <2>2, <2>3 DEF PyReturn, Frees
  <2>4. CASE JniReturn
    BY <2>1, <2>2, <2>4 DEF JniReturn, Frees
  <2>5. QED BY <2>3, <2>4
<1> HIDE DEF n
<1>4. CallInv'
  BY <1>0, <1>2, <1>3 DEF IInv, CallInv
<1>5. InsInv' /\ OutsInv'
  BY <1>0 DEF IInv, InsInv, OutsInv
<1>6. HeldInv'
  <2>1. ASSUME NEW k \in DOMAIN held, held[k] # Copied
        PROVE  /\ api = "py" /\ ~force /\ k \in owned
               /\ held[k] = Array("capsule", outs[k].buf)
    BY <1>0, <2>1 DEF IInv, HeldInv
  <2>2. QED BY <1>0, <2>1 DEF HeldInv
<1>7. MadeInv' /\ Due' = Due /\ \A b : Shared(b)' <=> Shared(b)
  BY <1>0, DueKept DEF IInv
<1>8. StillHeld' = StillHeld
  BY <1>0 DEF StillHeld, CallerFrees
<1>9. ASSUME NEW b \in Blocks
      PROVE  /\ \/ FreedPerResult(b)'
                \/ freed'[b] = IF b \in Due' \ StillHeld' THEN 1 ELSE 0
             /\ b \in Due' \ StillHeld' => freed'[b] # 0
  <2>1. ~FreedPerResult(b)' => ~Shared(b) \/ (api = "py" /\ ~force)
    BY <1>0 DEF FreedPerResult, Shared
  <2>2. QED BY <1>2, <1>3, <1>7, <1>8, <2>1
<1>10. FreedInv' /\ ReturnedInv'
  <2>1. FreedInv'
    BY <1>0, <1>9 DEF FreedInv
  <2>2. QED BY <1>0, <2>1 DEF IInv, ReturnedInv
<1>11. QED BY <1>4, <1>5, <1>6, <1>7, <1>10 DEF IInv

(* PyTakeThrows: both lists go, and the capsules made so far.              *)
LEMMA RejectStep ==
  ASSUME IInv, PyTakeThrows
  PROVE  IInv'
<1> DEFINE n(b) == ListDestroy(OutList, outs)[b] + ListDestroy(InList, ins)[b]
           c(b) == DropCapsules(held)[b]
<1>0. /\ pc = "take" /\ pc' = "rejected" /\ api = "py"
      /\ held' = <<>>
      /\ UNCHANGED <<api, force, ins, outs, owned, made>>
      /\ freed = Counts({})
      /\ freed' = [b \in Blocks |-> freed[b] + ListDestroy(OutList, outs)[b]
                       + ListDestroy(InList, ins)[b] + DropCapsules(held)[b]]
  BY DEF PyTakeThrows, IInv, FreedInv
<1>1. ASSUME NEW b \in Blocks
      PROVE  /\ n(b) \in Nat
             /\ b \in Due \ StillHeld => n(b) # 0
             /\ ~Shared(b) => n(b) = IF b \in Due \ StillHeld THEN 1 ELSE 0
  BY <1>0, BothLists
<1>2. ASSUME NEW b \in Blocks
      PROVE  /\ c(b) = IF b \in StillHeld THEN 1 ELSE 0
             /\ b \in StillHeld => b \in Due
  <2>1. /\ c(b) = IF b \in StillHeld THEN 1 ELSE 0
        /\ b \in StillHeld => b \in OutBlocks
    BY <1>0, TakeParts
  <2>2. QED BY <2>1 DEF Due
<1>3. ASSUME NEW b \in Blocks PROVE freed'[b] = n(b) + c(b)
  <2>1. ListDestroy(OutList, outs)[b] \in Nat /\ ListDestroy(InList, ins)[b] \in Nat
    <3>1. DestroyAll(outs) \in [Blocks -> Nat] /\ DestroyAll(ins) \in [Blocks -> Nat]
      BY DestroyAllType DEF IInv, CallInv
    <3>2. QED BY <3>1 DEF ListDestroy, ListDestroyShallow
  <2>2. freed[b] = 0
    BY <1>0 DEF Counts
  <2>3. DropCapsules(held)[b] \in Nat
    BY DEF DropCapsules
  <2>4. QED BY <1>0, <2>1, <2>2, <2>3
<1>4. DOMAIN freed' = Blocks /\ freed' = [b \in Blocks |-> freed'[b]]
  BY <1>0
<1> HIDE DEF n, c
<1>5. freed' \in [Blocks -> Nat]
  <2>1. \A b \in Blocks : freed'[b] \in Nat
    BY <1>1, <1>2, <1>3
  <2>2. QED BY <1>4, <2>1
<1>6. CallInv'
  <2>1. <<>> \in Seq(Arrays) /\ Len(<<>>) = 0 /\ 0 <= M
    BY EmptySeq, CountsAssumption
  <2>2. held' \in Seq(Arrays) /\ Len(held') <= M
    BY <1>0, <2>1
  <2>3. QED BY <1>0, <1>5, <2>2 DEF IInv, CallInv
<1>7. InsInv' /\ OutsInv' /\ HeldInv'
  <2>1. InsInv' /\ HeldInv'
    BY <1>0 DEF IInv, InsInv, HeldInv
  <2>2. OutsInv'
    BY <1>0 DEF IInv, OutsInv
  <2>3. QED BY <2>1, <2>2
<1>8. MadeInv' /\ Due' = Due /\ \A b : Shared(b)' <=> Shared(b)
  BY <1>0, DueKept DEF IInv
<1>9. StillHeld' = {}
  BY <1>0 DEF StillHeld
<1>10. ASSUME NEW b \in Blocks
       PROVE  /\ \/ FreedPerResult(b)'
                 \/ freed'[b] = IF b \in Due' \ StillHeld' THEN 1 ELSE 0
              /\ b \in Due' \ StillHeld' => freed'[b] # 0
  <2>1. ~FreedPerResult(b)' => ~Shared(b)
    BY <1>0 DEF FreedPerResult, Shared
  <2>2. QED BY <1>1, <1>2, <1>3, <1>8, <1>9, <2>1
<1>11. FreedInv' /\ ReturnedInv'
  BY <1>0, <1>10 DEF FreedInv, ReturnedInv
<1>12. QED BY <1>6, <1>7, <1>8, <1>11 DEF IInv

(* PyTakeFails: only the capsules made so far go.                          *)
LEMMA TakeFailsStep ==
  ASSUME IInv, PyTakeFails
  PROVE  IInv'
<1>0. /\ pc = "take" /\ pc' = "threw" /\ api = "py"
      /\ held' = <<>>
      /\ UNCHANGED <<api, force, ins, outs, owned, made>>
      /\ freed = Counts({})
      /\ Frees(DropCapsules(held), Nothing)
  BY DEF PyTakeFails, IInv, FreedInv
<1>1. ASSUME NEW b \in Blocks
      PROVE  freed'[b] = (IF b \in StillHeld THEN 1 ELSE 0)
               /\ (b \in StillHeld => b \in made)
  <2>1. /\ DropCapsules(held)[b] = IF b \in StillHeld THEN 1 ELSE 0
        /\ b \in StillHeld => b \in OutBlocks
    BY <1>0, TakeParts
  <2>2. b \in StillHeld => b \in made
    BY <1>0, <2>1 DEF IInv, MadeInv, Due
  <2>3. freed[b] = 0 /\ Nothing[b] = 0
    BY <1>0 DEF Counts, Nothing
  <2>4. freed'[b] = freed[b] + DropCapsules(held)[b] + Nothing[b]
    BY <1>0 DEF Frees
  <2>5. QED BY <2>1, <2>2, <2>3, <2>4
<1>2. freed' \in [Blocks -> Nat]
  <2>1. DOMAIN freed' = Blocks /\ freed' = [b \in Blocks |-> freed'[b]]
    BY <1>0 DEF Frees
  <2>2. \A b \in Blocks : freed'[b] \in Nat
    BY <1>1
  <2>3. QED BY <2>1, <2>2
<1>3. CallInv'
  <2>1. <<>> \in Seq(Arrays) /\ Len(<<>>) = 0 /\ 0 <= M
    BY EmptySeq, CountsAssumption
  <2>2. held' \in Seq(Arrays) /\ Len(held') <= M
    BY <1>0, <2>1
  <2>3. QED BY <1>0, <1>2, <2>2 DEF IInv, CallInv
<1>4. InsInv' /\ FreedOnce'
  <2>1. FreedOnce'
    BY <1>0, <1>1 DEF FreedOnce
  <2>2. QED BY <1>0, <2>1 DEF IInv, InsInv
<1>5. \A j \in owned' : outs'[j].buf \in Allocated
  BY <1>0 DEF IInv, OutsInv
<1>6. QED BY <1>0, <1>3, <1>4, <1>5, ThrewStep

(* CxxReturn: the caller gets the tensors, and the inputs go.              *)
LEMMA CxxReturnStep ==
  ASSUME IInv, CxxReturn
  PROVE  IInv'
<1>0. /\ pc = "take" /\ pc' = "returned" /\ api = "cxx"
      /\ held' = [j \in Outputs |-> Array("tensor", outs[j].buf)]
      /\ UNCHANGED <<api, force, ins, outs, owned, made>>
      /\ freed = Counts({InList})
  BY DEF CxxReturn, IInv, FreedInv
<1>1. /\ DOMAIN outs = Outputs /\ outs \in [Outputs -> Tensors]
  BY <1>0, LenProperties DEF IInv, CallInv, OutsInv, Outputs
<1>2. /\ held' \in Seq(Arrays) /\ Len(held') = M /\ DOMAIN held' = Outputs
  <2>1. \A j \in Outputs : outs[j].buf \in Blocks
    BY <1>1 DEF Tensors
  <2>2. \A j \in Outputs : Array("tensor", outs[j].buf) \in Arrays
    BY <2>1, ArrayType
  <2>3. held' \in [1..M -> Arrays]
    BY <1>0, <2>2 DEF Outputs
  <2>4. QED BY <2>3, FunctionIsSeq, CountsAssumption DEF Outputs
<1>3. ASSUME NEW j \in Outputs
      PROVE  /\ outs[j].owning <=> j \in owned
             /\ j \in owned => outs[j] # NoTensor
  <2>1. NoTensor.buf \notin Allocated
    BY AllocatedIs DEF NoTensor, Tensor
  <2>2. QED BY <1>0, <2>1 DEF IInv, OutsInv, HandedOver
<1>4. StillHeld' = OutBlocks
  <2>1. ASSUME NEW b \in Blocks, NEW k \in Outputs
        PROVE  CallerFrees(k, b)' <=> Destroys(outs[k], b)
    BY <1>0 DEF CallerFrees, Array, Destroys
  <2>2. ASSUME NEW b \in Blocks, NEW k \in Outputs
        PROVE  Destroys(outs[k], b) <=>
                 \/ outs[k] # NoTensor /\ outs[k].struct = b
                 \/ k \in owned /\ outs[k].buf = b
    BY <1>3 DEF Destroys
  <2>3. QED BY <1>1, <1>2, <2>1, <2>2 DEF StillHeld, OutBlocks
<1>5. /\ OutBlocks \cap OwnedBy(ins) = {}
      /\ InList \notin OutBlocks /\ OutList \notin OutBlocks
      /\ InList \notin OwnedBy(ins) /\ OutList \notin OwnedBy(ins)
      /\ InList # OutList /\ Lists = {InList, OutList}
  BY <1>0, PartsDisjoint
<1>6. freed' = Counts(Due \ OutBlocks)
  <2>1. DestroyAll(ins) = Counts(OwnedBy(ins))
    BY InsOwned DEF IInv
  <2>2. Frees(Counts({OutList}), Counts(OwnedBy(ins)))
    BY <2>1, ShallowOnce DEF CxxReturn
  <2>3. freed' = Counts({OutList} \cup OwnedBy(ins) \cup {InList})
    <3>1. /\ {OutList} \cap OwnedBy(ins) = {} /\ {OutList} \cap {InList} = {}
          /\ OwnedBy(ins) \cap {InList} = {}
      BY <1>5
    <3>2. QED BY <1>0, <2>2, <3>1, FreesOnce
  <2>4. {OutList} \cup OwnedBy(ins) \cup {InList} = Due \ OutBlocks
    BY <1>5 DEF Due
  <2>5. QED BY <2>3, <2>4
<1>7. CallInv'
  BY <1>0, <1>2, <1>6, CountsType, CountsAssumption DEF IInv, CallInv
<1>8. InsInv' /\ OutsInv'
  <2>1. \A j \in Outputs : outs[j].owning <=> j \in owned /\ ~HandedOver(j)'
    BY <1>0, <1>3 DEF HandedOver
  <2>2. OutsInv'
    BY <1>0, <2>1 DEF IInv, OutsInv
  <2>3. QED BY <1>0, <2>2 DEF IInv, InsInv
<1>9. HeldInv'
  BY <1>0, <1>2 DEF HeldInv
<1>10. MadeInv' /\ Due' = Due
  BY <1>0, DueKept DEF IInv
<1>11. FreedInv' /\ ReturnedInv'
  <2>1. \A b \in Blocks :
          /\ freed'[b] = IF b \in Due' \ StillHeld' THEN 1 ELSE 0
          /\ b \in Due' \ StillHeld' => freed'[b] # 0
    BY <1>4, <1>6, <1>10 DEF Counts
  <2>2. FreedInv'
    BY <1>0, <2>1 DEF FreedInv
  <2>3. QED BY <1>0, <2>2 DEF IInv, ReturnedInv
<1>12. QED BY <1>7, <1>8, <1>9, <1>10, <1>11 DEF IInv

(* Release: the last of what the caller holds, and no block twice.         *)
LEMMA ReleaseStep ==
  ASSUME IInv, Release
  PROVE  IInv'
<1> DEFINE k == Len(held)
           rest == SubSeq(held, 1, k - 1)
<1>0. /\ pc = "returned" /\ held # <<>> /\ held' = rest
      /\ UNCHANGED <<api, force, pc, ins, outs, owned, made>>
  BY DEF Release
<1>1. /\ k \in Nat \ {0} /\ DOMAIN held = 1..k /\ k <= M
      /\ \A l \in 1..k : held[l] \in Arrays
  BY <1>0, LenProperties, EmptySeq DEF IInv, CallInv
<1>2. /\ held' \in Seq(Arrays) /\ Len(held') = k - 1
      /\ DOMAIN held' = DOMAIN held \ {k} /\ k \in DOMAIN held
      /\ \A l \in DOMAIN held' : held'[l] = held[l]
  <2> HIDE DEF k
  <2>1. /\ rest \in Seq(Arrays)
        /\ Len(rest) = IF 1 <= k - 1 THEN k - 1 - 1 + 1 ELSE 0
        /\ \A i \in 1..(k - 1 - 1 + 1) : rest[i] = held[1 + i - 1]
    <3>1. 1 \in Int /\ k - 1 \in Int /\ \A l \in 1..(k - 1) : held[l] \in Arrays
      BY <1>1
    <3>2. QED BY <3>1, SubSeqProperties
  <2>2. Len(rest) = k - 1 /\ \A i \in 1..(k - 1) : rest[i] = held[i]
    BY <1>1, <2>1
  <2>3. DOMAIN rest = 1..(k - 1)
    BY <2>1, <2>2, LenProperties
  <2> HIDE DEF rest
  <2>4. 1..(k - 1) = (1..k) \ {k} /\ k \in 1..k
    BY <1>1
  <2>5. QED BY <1>0, <1>1, <2>1, <2>2, <2>3, <2>4
<1>3. StillHeld' = {b \in Blocks : \E l \in DOMAIN held \ {k} : CallerFrees(l, b)}
  BY <1>0, <1>2 DEF StillHeld, CallerFrees
<1>4. /\ DOMAIN outs = Outputs /\ outs \in Seq(Tensors) /\ DOMAIN held \subseteq Outputs
      /\ \A l \in DOMAIN held :
           \/ api # "cxx" /\ held[l] = Copied
           \/ /\ api = "py" /\ ~force /\ l \in owned
              /\ held[l] = Array("capsule", outs[l].buf)
           \/ api = "cxx" /\ held[l] = Array("tensor", outs[l].buf)
      /\ Copied.via = "copy"
      /\ \A b : Array("capsule", b).via = "capsule" /\ Array("tensor", b).via = "tensor"
  <2>1. DOMAIN outs = Outputs /\ outs \in Seq(Tensors)
    BY <1>0, LenProperties DEF IInv, CallInv, OutsInv, Outputs
  <2>2. /\ Copied.via = "copy"
        /\ \A b : Array("capsule", b).via = "capsule" /\ Array("tensor", b).via = "tensor"
    BY DEF Copied, Array
  <2>3. DOMAIN held \subseteq Outputs
    BY <1>1, CountsAssumption DEF Outputs
  <2>4. QED BY <1>0, <2>1, <2>2, <2>3 DEF IInv, HeldInv
<1>5. MadeInv' /\ Due' = Due /\ \A b : Shared(b)' <=> Shared(b)
  BY <1>0, DueKept DEF IInv
<1>6. ASSUME NEW b \in Blocks
      PROVE  /\ FreedPerResult(b) \/ freed[b] = IF b \in Due \ StillHeld THEN 1 ELSE 0
             /\ b \in Due \ StillHeld => freed[b] # 0
             /\ freed[b] \in Nat
  BY <1>0 DEF IInv, FreedInv, CallInv
<1>7. ASSUME NEW b \in Blocks
      PROVE  FreedPerResult(b)' <=> FreedPerResult(b)
  BY <1>0 DEF FreedPerResult
<1>8. StillHeld' \subseteq StillHeld
  BY <1>3 DEF StillHeld
<1>9. /\ DOMAIN freed' = Blocks /\ freed' = [b \in Blocks |-> freed'[b]]
      /\ \A b \in Blocks :
           /\ freed'[b] \in Nat
           /\ FreedPerResult(b) \/ freed'[b] = IF b \in Due \ StillHeld' THEN 1 ELSE 0
           /\ b \in Due \ StillHeld' => freed'[b] # 0
  <2>1. CASE held[k].via = "copy"
    <3>1. freed' = freed /\ freed \in [Blocks -> Nat]
      BY <2>1 DEF Release, IInv, CallInv
    <3>2. \A b : ~CallerFrees(k, b)
      BY <2>1 DEF CallerFrees, Array
    <3>3. StillHeld' = StillHeld
      BY <1>3, <3>2 DEF StillHeld
    <3>4. QED BY <1>6, <3>1, <3>3
  <2>2. CASE held[k].via = "capsule"
    <3>1. freed' = [b \in Blocks |->
             freed[b] + (DropCapsules(held)[b] - DropCapsules(rest)[b])]
      BY <2>2 DEF Release
    <3>2. api = "py" /\ ~force
      BY <1>2, <1>4, <2>2
    <3>3. \A l \in DOMAIN held, b \in Blocks :
             CallerFrees(l, b) <=> held[l] = Array("capsule", b)
      <4>1. \A l \in DOMAIN held : held[l].via # "tensor"
        BY <1>4, <3>2
      <4>2. QED BY <4>1 DEF CallerFrees
    <3>4. DropCapsules(held) = Counts(StillHeld)
      BY <3>3 DEF DropCapsules, Counts, StillHeld
    <3>5. DropCapsules(held') = Counts(StillHeld')
      BY <1>2, <1>3, <3>3 DEF DropCapsules, Counts
    <3>6. ASSUME NEW b \in Blocks PROVE ~FreedPerResult(b)
      BY <1>0, <3>2 DEF FreedPerResult
    <3>7. StillHeld \subseteq Due
      <4>1. ASSUME NEW b \in Blocks, NEW l \in DOMAIN held, CallerFrees(l, b)
            PROVE  b \in OutBlocks
        <5>1. held[l] = Array("capsule", b)
          BY <3>3, <4>1
        <5>2. l \in owned /\ held[l] = Array("capsule", outs[l].buf)
          BY <1>4, <3>2, <5>1
        <5>3. b = outs[l].buf
          BY <5>1, <5>2 DEF Array
        <5>4. QED BY <1>4, <5>2, <5>3 DEF OutBlocks
      <4>2. QED BY <4>1 DEF StillHeld, Due
    <3>8. ASSUME NEW b \in Blocks
          PROVE  freed'[b] = freed[b] + (Counts(StillHeld)[b] - Counts(StillHeld')[b])
      BY <1>0, <3>1, <3>4, <3>5
    <3>9. ASSUME NEW b \in Blocks
          PROVE  freed'[b] = IF b \in Due \ StillHeld' THEN 1 ELSE 0
      <4>1. freed[b] = IF b \in Due \ StillHeld THEN 1 ELSE 0
        BY <1>6, <3>6
      <4>2. /\ Counts(StillHeld)[b] = IF b \in StillHeld THEN 1 ELSE 0
            /\ Counts(StillHeld')[b] = IF b \in StillHeld' THEN 1 ELSE 0
        BY DEF Counts
      <4>3. QED BY <1>8, <3>7, <3>8, <4>1, <4>2
    <3>10. DOMAIN freed' = Blocks /\ freed' = [b \in Blocks |-> freed'[b]]
      BY <3>1
    <3>11. QED BY <3>9, <3>10
  <2>3. CASE held[k].via = "tensor"
    <3>1. freed' = [b \in Blocks |-> freed[b] + DestroyAll(<<outs[k]>>)[b]]
      BY <2>3 DEF Release
    <3> DEFINE D == {b \in Blocks : Destroys(outs[k], b)}
    <3>2. DestroyAll(<<outs[k]>>) = Counts(D)
      <4>1. /\ DOMAIN <<outs[k]>> = {1} /\ <<outs[k]>>[1] = outs[k]
        OBVIOUS
      <4>2. DestroyAll(<<outs[k]>>) = Counts(OwnedBy(<<outs[k]>>))
        BY <4>1, DestroyAllOnce
      <4>3. OwnedBy(<<outs[k]>>) = D
        BY <4>1 DEF OwnedBy
      <4>4. QED BY <4>2, <4>3
    <3>3. /\ api = "cxx"
          /\ \A l \in DOMAIN held, b \in Blocks :
                CallerFrees(l, b) <=> Destroys(outs[l], b)
      <4>1. api = "cxx"
        BY <1>2, <1>4, <2>3
      <4>2. \A l \in DOMAIN held : held[l] = Array("tensor", outs[l].buf)
        BY <1>4, <4>1
      <4>3. QED BY <4>1, <4>2 DEF CallerFrees, Array
    <3>4. ASSUME NEW j \in Outputs, NEW b
          PROVE  Destroys(outs[j], b) <=>
                   \/ outs[j] # NoTensor /\ b = OutTensor(j)
                   \/ j \in owned /\ b = outs[j].buf
      <4>1. NoTensor.buf \notin Allocated
        BY AllocatedIs DEF NoTensor, Tensor
      <4>2. /\ outs[j] # NoTensor => outs[j].struct = OutTensor(j)
            /\ outs[j].owning <=> j \in owned
            /\ j \in owned => outs[j] # NoTensor
        BY <1>0, <3>3, <4>1 DEF IInv, OutsInv, HandedOver
      <4>3. QED BY <4>2 DEF Destroys
    <3>5. ASSUME NEW b \in Blocks, ~FreedPerResult(b), NEW l \in DOMAIN held,
                 Destroys(outs[l], b), Destroys(outs[k], b)
          PROVE  l = k
      <4>1. l \in Outputs /\ k \in Outputs
        BY <1>2, <1>4
      <4>2. \A i, j \in owned : outs[i].buf = b /\ outs[j].buf = b => i = j
        BY <3>3, <3>5 DEF FreedPerResult
      <4>3. \A i \in owned : \A j : outs[i].buf # OutTensor(j)
        BY AllocatedIs DEF IInv, OutsInv
      <4>4. \A i, j : OutTensor(i) = OutTensor(j) => i = j
        BY BlocksDiffer
      <4>5. b = OutTensor(l) \/ (l \in owned /\ b = outs[l].buf)
        BY <3>4, <3>5, <4>1
      <4>6. b = OutTensor(k) \/ (k \in owned /\ b = outs[k].buf)
        BY <3>4, <3>5, <4>1
      <4> HIDE DEF k
      <4>7. QED BY <4>2, <4>3, <4>4, <4>5, <4>6
    <3>6. D \subseteq StillHeld /\ StillHeld \subseteq StillHeld' \cup D
      BY <1>2, <1>3, <3>3 DEF StillHeld
    <3>7. ASSUME NEW b \in D, ~FreedPerResult(b) PROVE b \notin StillHeld'
      BY <1>2, <1>3, <3>3, <3>5, <3>7
    <3>8. D \subseteq Due
      <4>1. k \in Outputs
        BY <1>2, <1>4
      <4>2. outs[k] # NoTensor => outs[k].struct = OutTensor(k)
        BY <1>0, <4>1 DEF IInv, OutsInv
      <4>3. ASSUME NEW b \in D PROVE b \in OutBlocks
        <5>1. \/ outs[k] # NoTensor /\ b = OutTensor(k)
              \/ k \in owned /\ b = outs[k].buf
          BY <3>4, <4>1
        <5>2. QED BY <1>4, <4>1, <4>2, <5>1 DEF OutBlocks
      <4>4. QED BY <4>3 DEF Due
    <3>9. ASSUME NEW b \in Blocks
          PROVE  freed'[b] = freed[b] + IF b \in D THEN 1 ELSE 0
      BY <3>1, <3>2 DEF Counts
    <3>10. DOMAIN freed' = Blocks /\ freed' = [b \in Blocks |-> freed'[b]]
      BY <3>1
    <3> HIDE DEF D
    <3>11. ASSUME NEW b \in Blocks
           PROVE  /\ freed'[b] \in Nat
                  /\ FreedPerResult(b)
                       \/ freed'[b] = IF b \in Due \ StillHeld' THEN 1 ELSE 0
                  /\ b \in Due \ StillHeld' => freed'[b] # 0
      <4>1. CASE b \in D
        BY <1>6, <3>6, <3>7, <3>8, <3>9, <4>1
      <4>2. CASE b \notin D
        <5>1. b \in StillHeld' <=> b \in StillHeld
          BY <1>8, <3>6, <4>2
        <5>2. freed'[b] = freed[b]
          BY <1>6, <3>9, <4>2
        <5>3. QED BY <1>6, <5>1, <5>2
      <4>3. QED BY <4>1, <4>2
    <3>12. QED BY <3>10, <3>11
  <2>4. QED BY <1>1, <1>2, <2>1, <2>2, <2>3 DEF Arrays
<1>10. CallInv'
  <2>1. freed' \in [Blocks -> Nat]
    BY <1>9
  <2>2. QED BY <1>0, <1>1, <1>2, <2>1, CountsAssumption DEF IInv, CallInv
<1>11. InsInv' /\ OutsInv'
  <2>1. \A j : HandedOver(j)' /\ api = "cxx" => FALSE
    BY <1>0 DEF HandedOver
  <2>2. OutsInv'
    <3>1. ASSUME NEW j \in Outputs, api = "cxx"
          PROVE  outs[j].owning <=> j \in owned /\ ~HandedOver(j)'
      BY <1>0, <2>1, <3>1 DEF IInv, OutsInv, HandedOver
    <3>2. QED BY <1>0, <3>1 DEF IInv, OutsInv
  <2>3. QED BY <1>0, <2>2 DEF IInv, InsInv
<1>12. HeldInv'
  BY <1>0, <1>2 DEF IInv, HeldInv
<1>13. FreedInv' /\ ReturnedInv'
  <2>1. FreedInv'
    BY <1>0, <1>5, <1>7, <1>9 DEF FreedInv
  <2>2. QED BY <1>0, <2>1 DEF IInv, ReturnedInv
<1>14. QED BY <1>5, <1>10, <1>11, <1>12, <1>13 DEF IInv

(* Every action keeps the invariant.                                       *)
LEMMA NextIInv == IInv /\ [Next]_vars => IInv'
<1> SUFFICES ASSUME IInv, [Next]_vars PROVE IInv'
  OBVIOUS
<1>1. CASE PyWrap \/ CxxWrap \/ JniWrap
  BY <1>1, WrapStep DEF PyWrap, CxxWrap, JniWrap
<1>2. CASE PyWrapThrows \/ JniWrapReturns \/ JniTakeReturns
  BY <1>2, GiveUpStep
<1>3. CASE CreateList
  BY <1>3, CreateListStep
<1>4. CASE InvokeReturns
  BY <1>4, InvokeReturnsStep
<1>5. CASE InvokeFails
  BY <1>5, InvokeFailsStep
<1>6. CASE PyTake \/ JniTake
  BY <1>6, TakeStep
<1>7. CASE PyTakeThrows \/ PyTakeFails
  BY <1>7, RejectStep, TakeFailsStep
<1>8. CASE PyReturn \/ JniReturn
  BY <1>8, ReturnStep
<1>9. CASE CxxReturn
  BY <1>9, CxxReturnStep
<1>10. CASE Release
  BY <1>10, ReleaseStep
<1>11. CASE UNCHANGED vars
  <2>1. UNCHANGED <<api, force, pc, ins, outs, owned, held, made, freed>>
    BY <1>11 DEF vars
  <2>2. CallInv'
    BY <2>1 DEF IInv, CallInv
  <2>3. InsInv'
    BY <2>1 DEF IInv, InsInv
  <2>4. OutsInv'
    BY <2>1 DEF IInv, OutsInv, HandedOver
  <2>5. HeldInv'
    BY <2>1 DEF IInv, HeldInv
  <2>6. OutBlocks' = OutBlocks /\ OwnedBy(ins)' = OwnedBy(ins) /\ Lists' = Lists
    BY <2>1 DEF OutBlocks, OwnedBy, Lists
  <2>7. Due' = Due
    BY <2>6 DEF Due
  <2>8. MadeInv'
    BY <2>1, <2>7 DEF IInv, MadeInv, Lost
  <2>9. StillHeld' = StillHeld /\ (FreedOnce' <=> FreedOnce)
    BY <2>1 DEF StillHeld, CallerFrees, FreedOnce, FreedPerResult
  <2>10. FreedInv' /\ ReturnedInv'
    BY <2>1, <2>7, <2>9 DEF IInv, FreedInv, ReturnedInv, FreedPerResult
  <2>11. QED BY <2>2, <2>3, <2>4, <2>5, <2>8, <2>10 DEF IInv
<1>12. QED BY <1>1, <1>2, <1>3, <1>4, <1>5, <1>6, <1>7, <1>8, <1>9, <1>10,
         <1>11 DEF Next

(* The inductive invariant holds in every state of a call.                 *)
THEOREM Invariance == Spec => []IInv
BY InitIInv, NextIInv, PTL DEF Spec

(* What the runtime allocates for a call is memory of the heap, no count
   goes below zero as the caller drops its results, and a result owns
   nothing but a buffer the model allocated (shouldOwn).                   *)
THEOREM TypeCorrect == Spec => []TypeOK
<1>1. IInv => TypeOK
  BY DEF IInv, CallInv, OutsInv, TypeOK
<1>2. QED BY <1>1, Invariance, PTL

(* What is held is due to the caller: the buffer of a capsule, and that of a
   tensor that owns it.                                                    *)
LEMMA HeldIsDue ==
  ASSUME IInv, pc = "returned", NEW k \in DOMAIN held, k \in owned,
         held[k].via # "copy"
  PROVE  /\ held[k].buf = outs[k].buf /\ outs[k].buf \in Allocated
         /\ outs[k].buf \in StillHeld /\ outs[k].buf \in made
<1>1. outs[k].buf \in Allocated /\ outs[k].buf \in Blocks
  BY BlocksOf DEF IInv, OutsInv
<1>2. /\ \/ api = "py" /\ held[k] = Array("capsule", outs[k].buf)
         \/ api = "cxx" /\ held[k] = Array("tensor", outs[k].buf)
  BY DEF IInv, HeldInv, Copied, Array
<1>3. held[k].buf = outs[k].buf
  BY <1>2 DEF Array
<1>4. k \in Outputs /\ DOMAIN outs = Outputs
  BY LenProperties, CountsAssumption DEF IInv, CallInv, OutsInv, Outputs
<1>5. CallerFrees(k, outs[k].buf)
  <2>1. CASE api = "py"
    BY <1>2, <2>1 DEF CallerFrees
  <2>2. CASE api = "cxx"
    <3>1. outs[k].owning
      BY <1>4, <2>2 DEF IInv, OutsInv, HandedOver
    <3>2. outs[k] # NoTensor
      BY <1>1, AllocatedIs DEF NoTensor, Tensor
    <3>3. held[k].via = "tensor"
      BY <1>2, <2>2 DEF Array
    <3>4. QED BY <3>1, <3>2, <3>3 DEF CallerFrees, Destroys
  <2>3. QED BY <1>2, <2>1, <2>2
<1>6. outs[k].buf \in StillHeld
  BY <1>1, <1>5 DEF StillHeld
<1>7. outs[k].buf \in made
  <2>1. outs[k].buf \in OutBlocks
    BY <1>1, <1>4 DEF OutBlocks
  <2>2. QED BY <2>1 DEF IInv, MadeInv, Due
<1>8. QED BY <1>1, <1>3, <1>6, <1>7

(* What the caller got (pyRun, run, main_graph_jni) keeps its data, for any
   number of results, shared or not, but for a tensor of run whose data is
   an input's or also another result's.                                    *)
THEOREM ResultsStayReadable == Spec => []ResultsReadable
<1>1. IInv => ResultsReadable
  <2> SUFFICES ASSUME IInv, pc = "returned", NEW k \in DOMAIN held,
                      held[k].via # "copy", ~Dangling(k)
               PROVE  held[k].buf \in made \cup {Constant}
                        /\ freed[held[k].buf] = 0
    BY DEF ResultsReadable
  <2>1. ASSUME NEW b \in Blocks
        PROVE  /\ FreedPerResult(b) \/ freed[b] = IF b \in Due \ StillHeld THEN 1 ELSE 0
               /\ b \in Due => b \in made
    BY DEF IInv, FreedInv, MadeInv
  <2>2. CASE k \in owned
    <3>1. /\ held[k].buf = outs[k].buf /\ outs[k].buf \in Allocated
          /\ outs[k].buf \in StillHeld /\ outs[k].buf \in made
      BY <2>2, HeldIsDue
    <3>2. ~FreedPerResult(outs[k].buf)
      <4>1. CASE api = "py"
        <5>1. ~force
          BY <4>1 DEF IInv, HeldInv, Copied, Array
        <5>2. QED BY <4>1, <5>1 DEF FreedPerResult
      <4>2. CASE api # "py"
        <5>1. api = "cxx"
          BY <4>2 DEF IInv, HeldInv, Copied, Array
        <5>2. outs[k].buf # Constant
          BY <3>1, AllocatedIs
        <5>3. QED BY <2>2, <5>1, <5>2 DEF Dangling, FreedPerResult
      <4>3. QED BY <4>1, <4>2
    <3>3. QED BY <2>1, <3>1, <3>2, BlocksOf
  <2>3. CASE k \notin owned
    <3>1. api = "cxx" /\ held[k].buf = outs[k].buf
      BY <2>3 DEF IInv, HeldInv, Copied, Array
    <3>2. k \in Outputs /\ DOMAIN outs = Outputs
      BY LenProperties, CountsAssumption DEF IInv, CallInv, OutsInv, Outputs
    <3>3. outs[k].buf \in (made \cap Allocated) \cup {Constant}
      <4>1. outs[k].buf \in (made \cap Allocated) \cup Arguments \cup {Constant}
        BY <3>2 DEF IInv, ReturnedInv
      <4>2. Constant \notin Arguments
        BY DEF Arguments, Constant, User, Buffer
      <4>3. QED BY <3>1, <4>1, <4>2 DEF Dangling
    <3>4. \A j \in owned : outs[j].buf # outs[k].buf
      <4>1. CASE outs[k].buf = Constant
        BY <4>1, AllocatedIs DEF IInv, OutsInv
      <4>2. CASE outs[k].buf # Constant
        BY <2>3, <3>1, <4>2 DEF Dangling
      <4>3. QED BY <4>1, <4>2
    <3>5. outs[k].buf \notin Due
      <4>1. outs[k].buf \notin OwnedBy(ins)
        <5>1. \A b \in OwnedBy(ins) : \E i \in Inputs : b \in {InTensor(i), Buffer(i)}
          BY InsOwned DEF IInv
        <5>2. \A i : Constant \notin {InTensor(i), Buffer(i)}
          BY BlocksDiffer
        <5>3. QED BY <3>3, <5>1, <5>2, AllocatedIs
      <4>2. outs[k].buf \notin Lists
        <5>1. Lists = {InList, OutList} /\ Constant \notin {InList, OutList}
          BY BlocksDiffer DEF Lists
        <5>2. QED BY <3>3, <5>1, AllocatedIs
      <4>3. outs[k].buf \notin OutBlocks
        <5>1. \A j : Constant # OutTensor(j)
          BY BlocksDiffer
        <5>2. \A j : outs[k].buf # OutTensor(j)
          BY <3>3, <5>1, AllocatedIs
        <5>3. QED BY <3>2, <3>4, <5>2 DEF OutBlocks, IInv, OutsInv
      <4>4. QED BY <4>1, <4>2, <4>3 DEF Due
    <3>6. ~FreedPerResult(outs[k].buf)
      BY <3>4 DEF FreedPerResult
    <3>7. outs[k].buf \in Blocks
      BY <3>3, BlocksOf
    <3>8. QED BY <2>1, <3>1, <3>3, <3>5, <3>6, <3>7
  <2>4. QED BY <2>2, <2>3
<1>2. QED BY <1>1, Invariance, PTL

(* Nothing is freed twice (omTensorDestroy, omTensorListDestroy, capsules),
   but for a buffer that two results own where no capsule counts them.     *)
THEOREM NothingFreedTwice == Spec => []FreedOnce
<1>1. IInv => FreedOnce
  <2> SUFFICES ASSUME IInv, pc # "threw", NEW b \in Blocks, ~FreedPerResult(b)
               PROVE  freed[b] <= (IF b \in made THEN 1 ELSE 0)
    BY DEF IInv, FreedInv, FreedOnce
  <2>1. PICK S : freed[b] = (IF b \in S THEN 1 ELSE 0) /\ S \subseteq made
    <3>1. CASE pc \in {"wrap", "invoke"}
      BY <3>1 DEF IInv, FreedInv, Counts
    <3>2. CASE pc = "take"
      <4>1. InList \in made
        BY <3>2, PartsDisjoint DEF IInv, MadeInv, Due
      <4>2. QED BY <3>2, <4>1 DEF IInv, FreedInv, Counts
    <3>3. CASE pc \in {"returned", "rejected"}
      <4>1. Due \ StillHeld \subseteq made
        BY <3>3 DEF IInv, MadeInv
      <4>2. QED BY <3>3, <4>1 DEF IInv, FreedInv
    <3>4. QED BY <3>1, <3>2, <3>3 DEF IInv, CallInv
  <2>2. QED BY <2>1
<1>2. QED BY <1>1, Invariance, PTL

(* A call that returned or rejected a result leaves nothing behind that a
   tensor, a list or a capsule ever referred to.                           *)
THEOREM NothingLeaks == Spec => []NothingLeft
<1>1. IInv => NothingLeft
  <2> SUFFICES ASSUME IInv, (pc = "returned" /\ held = <<>>) \/ pc = "rejected",
                      NEW b \in made, ~Lost(b)
               PROVE  freed[b] # 0
    BY DEF NothingLeft
  <2>1. b \in Blocks
    BY BlocksOf DEF IInv, CallInv
  <2>2. StillHeld = {}
    BY DEF StillHeld, IInv, HeldInv
  <2>3. b \in Due
    BY DEF IInv, MadeInv
  <2>4. QED BY <2>1, <2>2, <2>3 DEF IInv, FreedInv
<1>2. QED BY <1>1, Invariance, PTL
=============================================================================
