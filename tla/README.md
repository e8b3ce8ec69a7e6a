# Verification of onnx-mlir-to-tflite

TLA+ models of the stateful parts of the repository, checked by TLC on small
instances and, where marked, proved by TLAPS for every instance. Paths below
are those of the repository.

The repository is an ONNX compiler (onnx-mlir, with a TFLite back end) and a
runtime for what it compiles. Two kinds of code are modelled. The first is the
state around compilation and runs that tests hardly reach: what threads,
processes, signals, the dynamic linker, the file system and the callers of a
model share. The second is what the compiler believes of a model it cannot
see whole: the shapes it infers from partly known operands, the constants it
folds through chains of views, and the dims it takes for equal. There a mistake
shows only in a combination of operations, and the models try all small ones.

## Inventory

| Component | State | Operations | What is hard |
|---|---|---|---|
| NNPA initialisation (`src/Accelerators/NNPA/Runtime/OMRuntimeNNPA.c`) | flag, mutex, compatibility static | init, compatible init, shutdown | flags read without the mutex by many threads |
| Execution session (`src/Runtime/ExecutionSession.cpp`) | library handle, initialised flag, entry point, `OM_CONSTANT_PATH` | construct, `loadModel`, `setEntryPoint`, destroy | overlapping loads, throws half way, reference counts |
| External constants (`src/Runtime/OMExternalConstant.c`, emitted by `src/Conversion/KrnlToLLVM`) | the mapped constants of each library | load in the library's constructor, unload in its destructor | which file is opened depends on the environment of the moment; failures are silent |
| Guarded runs (`runWithSignalHandler`) | signal actions, mask, jump buffer | install, run, fault, restore | several runs, some left by a signal |
| Disposable attributes (`src/Dialect/ONNX/ElementsAttr/DisposablePool.cpp`) | pool, buffers, attributes in the module | create, insert, collect, scrub, close | parallel passes and scrub workers; use after dispose |
| torch session cache (`src/Runtime/python/torch_onnxmlir`) | dict and list per process, folder shared by processes | get, put, victim, load, write | kills and other processes between two file operations |
| Tensors and bindings (`src/Runtime/OMTensor.inc`, `python`, `jni`) | ownership of buffers | wrap, list, run, take, destroy | who frees what when results share buffers or a step fails |
| Shape inference (`src/Dialect/ONNX/ONNXOps`, `src/Dialect/Mlir/IndexExpr.cpp`) | the types of values | one shape function per operation, refinement, learning of operand dims | some dims are literal, some are not; the same code infers and lowers |
| Constant folding (`ConstProp.cpp`, `src/Dialect/ONNX/ElementsAttr`) | constants as strided views of shared buffers with pending transformations | lazy views, copying operations, parallel reductions | a view of a view of a view |
| Dimension analysis (`ONNXDimAnalysis.cpp`) | sets of equal dims, offset relations | build, grow, merge, offsets | a fixed point in hash order; rules that must hold in every run |
| Compiler driver (`src/Compiler`) | files, child processes | compile, link, package, clean up | a failing tool between two files |
| Importer (`src/Builder`) | scopes of names | import graph, node, function | nested graphs that shadow names |
| Runtime algorithms (`OMSort.c`, `OMTopK.c`, `OMUnique.c`, ...) | none | sort, top-k, unique, lookup | boundaries |
| Other dialects, conversions, transforms | the IR | rewrites | meaning of the generated code, out of reach |
| zdnnx (`src/Accelerators/NNPA/Runtime/zdnnx`) | tiles | split, run, join | sizes that do not divide |

`PROJECT.json` lists all components with their status and every hazard at its
line.

Interactions: a session's `dlopen` runs the constructor that loads the
constants (one module, `ModelLoading`); the entry point of a model calls the
NNPA initialisation first; the torch cache makes sessions from files in its
folder, so a missing constants file there is the silent failure of
`OMExternalConstant.c`; the collector is called by the pass manager after each
pass, the scrub pass runs in the same pipelines. Shape functions are written
with index expressions and are used by shape inference, by the lowering and by
the dimension analysis (`ShapeHelpers` extends `IndexExpr`; `ShapeInference` and
`ModelGraph` extend `ShapeHelpers`; `DimAnalysis` extends `ModelGraph`). Folding
makes the disposable attributes whose buffers the pool owns.

## Modules

### NNPAInit
`OMInitAccelNNPA`, `OMInitCompatibleAccelNNPA` and `OMShutdownAccelNNPA`. A
thread has a program counter; taking the mutex is a step together with the
first access under it, and every access to what is also read without the mutex
is a step of its own. `zdnnx_init` begins and ends in different steps. Memory
is sequentially consistent, which the comments of the code claim of the
hardware. Callers keep to the documented rule that nobody uses the accelerator
during a shutdown. That one static `isCompatible` serves all models is
documented ("all models are compiled for the same NNPA"), so acceptance of
another level is not stated as a property; that no *runnable* level is refused
is.

### ModelLoading
Sessions, the linker's reference counts, `OM_CONSTANT_PATH` and the constants
of each library. `loadModel` is split at each access to the environment and
the linker: `GetEnv`, `SetEnv`, `DlopenFound`/`DlopenMissing`,
`DlsymFound`/`DlsymMissing`, `Complete`, `EntryFound`/`EntryMissing`. A throw
out of the constructor means that there is no object and no destructor
(`ThrowFrom`). `Failures` says which calls may fail. `userPath` and `leftSet`
are history variables for the properties. The default constructor leaves the
handle undefined: null or `Garbage`.

### SignalRun
`runWithSignalHandler` and `signalHandler`, with the actions of the five
signals and the thread's mask. `Platforms` has the kinds of platform a process
may run on (`savesMask`): macOS, where longjmp restores the mask, and Linux,
where it does not. `thrown` is a history variable: the signals that earlier
runs threw. The mode is documented as not thread-safe, so one thread makes all
runs.

### DisposablePool and ElementsStore
Phase "pass": workers create attributes (`Create`, then `Insert` under the
mutex), put them in operations, read and erase them. `GarbageCollect` and
`ScrubBegin` happen when the pass manager is between passes on functions, as
`runAfterPass` returns early for anything but a module. Phase "translate": the
workers of `parallelFor` fetch batches and translate them; `ScrubEnd` rewrites
the module once they have joined, and closes the pool if asked to. The size of
a batch is computed as the code does it, from the first attribute.
`ElementsStore` is the promise to the passes: a constant keeps its value.
`DisposablePool` implements it under the mapping `Store`, in which an attribute
whose buffer is gone and which has no dense translation is mapped to a value
nobody made.

### SessionCache
Processes with a cache each and one folder. A call goes through `Get`,
`OpenSession`, `ReadConfig` (`load_from_disk`), `Eager` or `Victim`, `Compile`
or `CompileFails`, `WriteBegin`/`WriteEnd` for each file (`write_to_disk`) and
`Run`. Files are written in place and are "partial" while somebody writes
them. `Crash` kills a process anywhere. The history variables `torn` and
`exposed` say which entries a killed process left incomplete, and which
sessions were opened from an entry that was torn or being written. The hash of a graph is its key. Each
call has its own object, as in `onnxmlir_backend`; the `compile` wrapper at
the end of `backend.py`, which reuses one, is not exported and not modelled.

### IndexExpr, ShapeHelpers, ShapeInference
`IndexExpr` is the arithmetic of `IndexExpr.cpp`. An expression carries two
things: whether it is a literal to the compiler, and the value it has when the
model runs. Literal folding and generated code differ where the source makes
them differ (`Clamp`, `Mod`). `ShapeHelpers` holds `computeShape` of the
operations, one operator per helper, and the conditions under which they emit
an error (`...Refused`).

`ShapeInference` follows one value: its shape in the run (`dims`), the type
inference gives it (`type`) and the shape the lowered code allocates
(`alloc`). Each action is an operation with every small operand and every
choice of which dims of it are known. `Infer` runs the helper twice, as the
compiler does: for the type, where an unknown dim enters as the meaningless
size `Hidden`, so that a literal that depended on it would come out wrong; and
for the lowering, with the run's sizes. Both results are refined with the type
that is there already (`refineDims`). `Learn` is `updateInputDimAt`. The
shapes the operators define are stated apart from the code, as counts of
positions, windows, chunks and elements. Spatial operations have one spatial
axis. `Next` has two parts: `DimwiseOp`, the operations that compute each dim
of the result on its own, about which there are theorems, and `RegroupingOp`,
those that drop, multiply or cut dims.

### TensorOwnership
One inference call through `pyRun`, `ExecutionSession::run` or
`main_graph_jni`: inputs are wrapped one by one, the model returns tensors for
buffers of its own, constants, inputs or earlier results, and results are
handed over one by one. `freed` counts how often each block of memory was
freed. Every throw and early return is an action: of `pyRun`, `PyWrapThrows`
while inputs are wrapped, `PyTakeThrows` where both lists are destroyed first,
`PyTakeFails` where they are not. `ShouldOwn` is the flag the compiler emits for
a returned value, from where the value comes through views and selects; what a
select did not take counts too. Any result may share its buffer with any other.
The history variable `owned` has the results whose tensors were made owners.
Where the code frees twice, hands out what it frees, or loses memory on a call
that returns, a definition names the case (`FreedPerResult`, `Dangling`,
`Lost`), and the properties say that there is no other.

### Strides, ElementsBuilder, TensorReference, ElementsFolding
`Strides` has the functions of `Strides.cpp` with the iteration of
`StridesRange`, and `ElementsBuilder` the operations of
`ElementsAttrBuilder.cpp` on constants of a shape, strides, a buffer and a
pending transformation. Elements are small integers and a transformation is an
affine function, so that order of application shows. `TensorReference` defines
the same operations on functions from indices to numbers, without strides.
`ElementsFolding` folds chains: each step replaces the constant by what
`ConstProp.cpp` makes of it with fresh operands, and the tensor by what ONNX
defines. Lazy operations make views, copying ones fresh buffers; both kinds are
bounded. The partial reductions of threads are folded per thread with the
tiles of `FetchBatch`; addition commutes, so their interleaving is left out,
but a slot that two threads write (a data race) holds anything afterwards.

### ModelGraph, DimAnalysis
`ModelGraph` is a small model: values with types in which each unknown dim has
its own question mark, the marks the shape helpers return, and the history
variable `runs`: all shapes the values can have together when the model runs,
by the definitions of the operators. The analysis does not read it; the
properties do. `DimAnalysis` first adds operations, then analyses. `Disputed`
adds the operations on which the rules are wrong. `UpdateDimSets` visits the
sets in any order, each visit seeing what earlier ones added; `MergeDimSets` follows a pass with a
change (`Merged`: two sets go together when a chain of sets with common dims
joins them); `FixedPoint` ends the search. `VisitDim` joins the rules for consumers,
shape helpers, shape operands, pairs of operands, reshapes and ranges. Then
`FindOffsets`, and `ShareOffsets` and `InferEqualities` in turn, in which the
first target that an iteration meets is any (`FirstTargets`). The operands of a
fused operation (`Operands`) are what the arguments of its body stand for.

## Runs

| Run | Instance | Shows |
|---|---|---|
| `nnpa_init` | 3 threads, 2 levels | one initialisation, ready device, justified refusals, mutex given back |
| `load_overlap` | 2 sessions, 2 models, all failures, 2 loads at once | held libraries stay mapped; the user's path is never changed; only throws leave a path |
| `load_in_turn` | 2 sessions, 3 models, no overlap, no failure | own constants; libraries released |
| `signal_run` | 2 handlers of the application, mask restored or not | only a repeated signal kills, and only where the mask stays; three handlers restored |
| `disposable_pool` | 2 workers, 3 operations, 4 attributes, batches of up to 2 | no use after dispose, pool complete, every buffer reset once closed, scrub ends, refinement |
| `cache_shared` | 2 processes, 2 keys, capacity 1, one kill | list and dict agree; entries are completed without kills; loads meet damage only in a race or after a kill |
| `cache_alone` | 1 process, 5 keys, capacity 2 | reloaded entries are whole |
| `shape_inference` | ranks and dims up to 3 | types are true, allocated shapes are the operators', nothing valid is refused |
| `tensor_ownership` | 2 inputs, 3 results, 3 interfaces | freed once, results readable, nothing left, but for the named cases |
| `elements_folding` | 5 shapes, 2 views and 1 copy in any order, 1 to 3 threads | constants read as ONNX defines, `allEqual` is right, no assertion |
| `dim_analysis` | 5 signatures, 2 operations, run sizes 1 to 3 | groups equal, offsets true, fixed point complete, termination |
| `dim_where` (violation) | 1 operation with three operands | a dim of the result is grouped with a 1 |

Bounds. Two actors suffice for every interleaving of two critical sections;
`nnpa_init` has a third so that one can wait, one hold and one pass by.
`MaxRefs` bounds the references that leaked handles may pile up. `MaxId` = 4
attributes with batches of two make two batches for two workers, and an
attribute created while none is left for a slot. `minCount` and
`minAggregateCount` are parameters so that both ends of the batch loop happen
with few attributes. `MaxCrashes` = 1: a second kill starts from the same kind
of folder. `MaxDim` = 3 has an empty dim, the dim that broadcasts, and two
others to mix up; results with a larger dim end the chain, and the runs of
operations start from every shape anyway. Three results are enough for two
that share a buffer and one that does not. Two views and a copy, in any order,
are a view of a view that is then read in the order of the view, or copied and
viewed again; `MinCount` is small so that reductions run in threads. Two
operations let one rule feed another, and `MaxDims` bounds the dims to group.

Fairness. `nnpa_init`: weak fairness of each thread's steps inside the
functions; nothing about who gets the mutex. `disposable_pool`: weak fairness
of the scrub workers and of the end of the scrub, as `parallelFor` runs its
workers to the end. `cache_shared`: a call that has begun runs on, unless it
is killed. `dim_analysis`: `analyze` is one call and runs on, whatever order
it visits sets in. Nothing is assumed of callers.

Deadlock is checked except in `tensor_ownership`, where a call ends,
`signal_run`, where the process may be killed, and `elements_folding`, where
the length of a chain is bounded.

## Known departures

Where the code departs from what its comments or the documentation of the
operators say, the models keep to the code and the passing runs to the inputs
on which both agree, or to properties that name the exception. `dim_where` is a
run of its own. The others, and the change to a configuration with which TLC
shows them, or the definition that names them:

| Departure | Shown by |
|---|---|
| A load that throws leaves `OM_CONSTANT_PATH` set, so that the next model looks in the wrong folder ("Unset OM_CONSTANT_PATH to avoid conflict with the load of another model", `ExecutionSession.cpp:216`) | `MCLoadInTurn.cfg`, `Failures = {"dlopen"}`: `OwnConstants` |
| Two loads that overlap mix up their constants | `MCLoadInTurn.cfg`, `MaxLoading = 2`: `OwnConstants` |
| Where longjmp does not restore the mask (Linux), a second fault of a kind ends the process ("The code will catch such signals and throw exceptions", `ExecutionSession.hpp:114`) | `OnlyRepeatsKill` states it; "killed" is reached in `signal_run` |
| SIGABRT's old action is saved over SIGILL's (`ExecutionSession.cpp:451`), and SIGABRT is not restored after a signal | seen in `Install` and `RestoreAndThrow`; `FaultHandlersRestored` is about the other three |
| A killed process leaves an entry that is taken for a session without inputs ("If data is not found, return None", `sessioncache.py:86`) | `OnlyRacesDamage` states when; `MCCacheAlone.cfg`, `MaxCrashes = 1`: `RestoredWhole` |
| A full cache drops the newest key ("delete the oldest key", `sessioncache.py:180`), and `get` goes past the limit | seen in `Victim` and `Get` |
| A batch of the scrub counts the size of its first attribute for all | seen in `BatchFull` |
| An axis that does not divide is split into larger first parts ("the last chunk will be smaller", `docs/Dialects/onnx.md:10497`) | `MCShapeInference.cfg`, `Disputed = {"split"}`: `AllocSound` |
| Windows that start in the right padding are counted ("Sliding windows that would start in the right padded region are ignored", `docs/Dialects/onnx.md:663`) | `MCShapeInference.cfg`, `Disputed = {"ceil"}`: `AllocSound` |
| Unknown dims 0 and 1 broadcast to 1; two unknown batch dims give A's; an empty static axis sliced backwards gives 1 | guards of `BroadcastOp`, `MatMulOp`, `SliceOp` |
| A buffer that several results own is freed by each of them: tensors of `run`, results of JNI and copies forced in `pyRun`, whose lists are destroyed with it (`OMTensorList.inc:99`), and `pyRun` when it rejects a result after others moved to a capsule (`PyExecutionSession.cpp:303`) | `FreedPerResult`; without it `FreedOnce` |
| Tensors that `run` returns may be inputs, which it destroys, or share the buffer of another result, which the caller may destroy first | `Dangling`; without it `ResultsReadable` |
| The copy of a read-only string array is replaced by the table of its strings and never freed (`PyExecutionSession.cpp:167`, `:240`) | `Lost`; without it `NothingLeft` |
| A select between a buffer of the model and a constant or argument is owned by nobody (`ConvertKrnlToLLVM.cpp:116`); the buffer leaks when it is taken | `Lost`; without it `NothingLeft` |
| When a result's tensor cannot be made for lack of memory, the result's buffer leaks | `Lost`; without it `NothingLeft` |
| Throws in `pyRun` while inputs are wrapped, out of the entry point and on an inconsistent result (`PyExecutionSession.cpp:341`, `:106`), and early returns in the JNI wrapper, leave lists, tensors and buffers | `NothingLeft` does not speak of "threw" |
| ScatterND with negative indices writes outside ("Index values are allowed to be negative", `docs/Dialects/onnx.md:9503`) | `MCElementsFolding.cfg`, `Disputed = {"scatter"}`: `FoldedRight` |
| An empty view out of order cannot be reshaped (`Strides.cpp:70`), an empty axis cannot be split (`ElementsAttrBuilder.cpp:586`), and folding asserts on an axis that does not divide, which inference accepts (`ConstProp.cpp:1121`) | guards of `ReshapeOp`, `SplitOp` |
| For a vector on the right MatMul updates a dim before its first (`MatMul.cpp:146`) | guard of `MatMulLearns` |
| A Reshape of a tensor with a dim 0 is taken to keep its dims | `RunSizes` without 0 |
| Expand of a dynamic dim by an element that an ONNXDimOp made: the dim of the result is put with the element's dim, which may be 1 where the data's is larger (`ONNXDimAnalysis.cpp:554`; "the analysis proved those two dimensions are equal at runtime", `docs/DynamicDimensionAnalysis.md:187`) | `MCDimAnalysis.cfg`, `Disputed = {"expand"}`: `GroupsEqual` |
| A shape operand of Expand shorter than the data is indexed from the left (`ONNXDimAnalysis.cpp:554`) | `AddExpand` has none |
| With three operands of different ranks the axis of a pair is counted from the wrong end, so that an axis an operand does not have gets into a set (`ONNXDimAnalysis.cpp:1329`) | `MCDimAnalysis.cfg`, `Disputed = {"ternary"}`: `TypeOK` |
| A default-constructed session has no library handle (`ExecutionSession.hpp:156`) | `Destroy`, only after a call of `loadModel` |
| Add of a scalar constant is taken for an addition to the dim | `MCDimAnalysis.cfg`, `Disputed = {"add"}`: `OffsetsTrue` |
| The dim that an ONNXDimOp of the first axis returns is taken for the first axis of the ONNXDimOp's own result, which has size 1, and so is related to the dims of the operand that are 1 (`ONNXDimAnalysis.cpp:1712`; "Represents a relationship: dim1 + offset1 == dim2 + offset2", `ONNXDimAnalysis.hpp:37`) | guard `DimsOfShapes`; `MCDimAnalysis.cfg`, `Disputed = {"dimop"}` with the arguments `Arguments(<< <<Static(2), Unnamed>>, <<Unnamed, Static(1)>> >>)`: `OffsetsTrue` |

## Proofs

All from the constants' assumptions named in the modules, for any number of
actors. Each module proves `Init => IInv`, `IInv /\ [Next]_vars => IInv'` and
that `IInv` implies the property. A theorem with an `ASSUME` of its own says
under which constants the property holds; each such assumption is that of the
run that checks the property, and the known departures show what happens
without it.

- `NNPAInitProofs`: `TypeCorrect`, `InitOnce`, `DeviceReady`, `Refusal`. The
  invariant ties the program counters between lock and unlock to the holder of
  the mutex, and the flag and the device to how far the holder has got; the
  properties alone are not inductive as they do not say who may write.
- `ModelLoadingProofs`: `TypeCorrect`, `LibraryStaysMapped`, `UserPathSafe`,
  `PathRestored`, `LibraryKeptBySession`. The invariant says what each program
  counter implies for the handle and the local `setOMConstantPath` (only a
  session between `SetEnv` and the end of its load has it set, and then the
  user had not set the variable). Reference counts are compared with
  cardinalities of sets of sessions; `HoldersUpdate` is the lemma on how one
  session changes them. `LibraryIsReleased` needs the counts to be equal and
  not only large enough, which holds unless a symbol is missing; loads may
  overlap. `ConstantsAreOwn` is for loads in turn by a user who has not set the
  path, and without a failing dlopen, dlsym or mmap: its invariant says whose
  path the variable holds at each program counter, and that no library is
  mapped with the constants of another model.
- `SignalRunProofs`: `FaultHandlersSafe`. The invariant: while a run is
  guarded or has jumped, the locals hold the application's handlers.
  `OnlyRepeatsAreFatal`, for both kinds of platform: the mask holds only
  signals that earlier runs threw, or none where longjmp restores it, and
  while a run is guarded every signal has the handler (`MaskInv`).
- `DisposablePoolProofs`: `DisposedUnused`, `PoolComplete`,
  `ClosedStaysEmpty`, and the refinement `StoreImplemented`. The invariant has
  four parts: an attribute that is created and not inserted is its worker's
  alone; whatever is in the module or in hand is in the pool; the translations
  of a scrub are to be fetched, in one batch, or dense, and only dense ones are
  disposed of; a closed pool is empty. `ClosedStaysEmpty` adds that every
  attribute ever made is in the pool, has lost its buffer or is still in
  creation (`AccountedInv`). From the invariant no data is lost
  (`NothingLost`), so that the mapping is the identity on values and each
  action is an action of the store or a stutter.
- `TensorOwnershipProofs`: `TypeCorrect`, `ResultsStayReadable`,
  `NothingFreedTwice`, `NothingLeaks`, for any number of inputs and results.
  No theorem has a hypothesis of its own; the exceptions are those the
  properties name. The invariant states, for each program counter, which blocks
  somebody is to free and that all others that were allocated are lost
  (`MadeInv`), how often each was freed (`FreedInv`: once, but for what the
  caller still holds and for buffers whose owners nothing counts), and which
  tensors and capsules own what (`OutsInv`, `HeldInv`): "freed at most once"
  says nothing about what a later destroy will free.
- `SessionCacheProofs`: `ListAgreesWithDict`, for any number of processes, keys
  and kills. The invariant adds that a key that was not found in memory stays
  out of memory until it is put there, or `put` would append it twice; the
  lemmas on `RemoveFirst` and `Append` keep the list free of duplicates.
  `SessionsAreWhole`, for a process that has the folder to itself and is not
  killed: the files of a key are all there and whole, or it is the key being
  written (`FolderInv`, `WriteInv`), so that a load sees whole files only
  (`LoadInv`). `DamageOnlyByRaces`, for any number of processes and kills: a
  file that is missing or partial in an entry that is begun and not torn is one
  that some process has yet to write (`EntryInv`), so that an incomplete entry
  has a writer; `CloseInv` says what a writer has left to do and what a load
  has seen between its two steps.
- `DimAnalysisProofs`: `SearchIsComplete`, for every model and order of visits.
  The invariant: as long as a pass has changed no set, the sets are disjoint
  and those already visited lack nothing (a visit depends on the sets, so this
  is lost by any change, which is why a change asks for another pass). The
  lemmas on `Chained` show that `mergeDimSets` makes the sets disjoint again
  and loses no dim.
  `GroupsAreEqual`, `OffsetsAreTrue` and `TypeCorrect`, for any number of
  operations and arguments and any positive sizes, with `Disputed = {}`. The
  properties speak of the end of the analysis; the invariant `SizeInv` says of
  every step of it that the dims of a set have one size in every run
  (`SetsOK`), that relations are true and lead into the sets (`RelationsOK`),
  and, of the model, that each operation has the operands it needs and each
  literal or question mark of a type is right in every run (`ModelOK`): without
  the last nothing could be said of a visit, which reads types only.
  1. `ModelKept`: appending an operation keeps `ModelOK`; one lemma per
     operation (`ElementwiseRight` to `ReshapeRight`) shows that what its shape
     helper says is true of the shape the operator defines.
  2. `VisitSound`: a visit of a dim finds dims of its size only. One lemma per
     rule: `ConsumersSound`, `HelperSound`, `ShapeInputSound`,
     `EqualOperandsSound`, `ReshapeSound` (all but one of the factors of a
     product are matched, so the last ones are equal), `RangeSound`, and
     `ResolveSound`, by well-founded minimality, for arguments of nested bodies.
  3. `OffsetSound`: the relations that `visitDimForOffsets` finds are true.
  4. `MergedOK`: sets joined by a chain of common dims have one size;
     `SharedOK` and `InferredOK`: so have the targets at one offset of a set.

  The proof of 3 failed for ONNXDimOp of a first axis, and TLC confirmed the
  departure listed above.
- `ShapeInferenceProofs`: `TypeCorrect`, `InferenceIsSound`,
  `AllocationIsRight`, `NoneRefused`, for values of any rank and size along
  every chain of the operations of `DimwiseOp` (the attributes of windows,
  splits and pads are those of the model), with `Disputed = {}`. `Inv` adds to
  the properties that an unknown dim has the size `Hidden` in the type. The
  argument for an operation: inference and lowering run one function on
  arguments that agree (`Same`: both literal with one value, or neither), so
  that their results agree place by place, and the lowered result has the
  operator's sizes (`Computes`); refining with what is known of the result then
  changes neither (`UpdateSound`). One lemma per operation shows `Computes`,
  from lemmas on the arithmetic (`SameArithmetic`, `SameDivision`) and on the
  counts by which operators are defined (`WindowsIs`, `CeilWindowsIs`,
  `SameWindows`, `WindowsUndone`, `ChunkIs`, `RangeCounts`). The proof of
  MatMul showed that two arms of the model's `BatchDim` overlapped where TLC
  takes the first; they are disjoint now, in the order of the source.

Only model-checked:

- the liveness properties (`MutexReleased`, `ScrubEnds`, `EntryCompleted`,
  `Terminates`), which rest on fairness;
- the operations of `RegroupingOp`. Flatten and Reshape multiply dims and the
  operators that drop dims are defined by folds, so that their results need
  induction over shapes, which the provers cannot do; Slice is left for its
  many cases;
- `ElementsFolding`: the elements of a constant are found by recursion over
  strides.

## Plan

1. Proofs: Slice along an axis of any size; dropped and inserted dims with the
   position of a kept dim counted rather than folded (Squeeze, Unsqueeze,
   reductions); the strides of views without recursion.
2. Graph hashing with its skip (`same_hash_size`) in `torch_onnxmlir`.
3. The compiler driver: `Command`, `CompilerUtils`, `OMCompile`; which files
   exist after each exit.
4. The importer's symbol table and nested graphs; `ModelInputShaper`.
5. Buffer hoisting, write-only allocations, CSE with node names, device
   placement with its JSON configuration.
6. Pure algorithms: sort, top-k, unique, index lookup, the packing of
   constants, TFL padding, zdnnx tiles.

## Not modelled

Most lines of the repository are rewrite patterns and lowerings, one per
operation and target (ONNX to Krnl, TFL, TOSA, StableHLO and Linalg; ZHigh and
ZLow; canonicalization and decomposition). Each builds IR, and its correctness
is that the IR means what the operation means, over every shape and element
type; a model would have to contain the semantics of the target dialects and
would restate each pattern. They are left to the repository's numerical tests,
and so the modelled lines are a small share of all lines. Tables of options
and passes, generated code (operation definitions, version converters), the
builders that only create operations (`DialectBuilder.cpp`), scripts and
printing have no state to check. Within the modelled parts, `PROJECT.json` says
for each component what is left out.
