--------------------------- MODULE DisposablePool ---------------------------
(***************************************************************************)
(* The pool of disposable elements attributes (DisposablePool.cpp), the    *)
(* collector that runs after every pass (DisposableGarbageCollector.cpp)   *)
(* and the pass that scrubs the module (ScrubDisposablePass.cpp).          *)
(*                                                                         *)
(* In phase "pass" worker threads run passes on the functions of a module: *)
(* they make attributes, put them in operations, read them and erase       *)
(* operations.  The collector and the scrub pass run on the module, when   *)
(* no worker has an attribute in hand.  The scrub is itself parallel:      *)
(* phase "translate".  Every acquisition of a mutex is a step.             *)
(***************************************************************************)
EXTENDS Integers, FiniteSets

CONSTANTS
  Workers,           (* The threads of the MLIR context.                   *)
  Slots,             (* The operations with a value attribute.             *)
  MaxId,             (* Bound: attributes made in a run.                   *)
  SizeOf,            (* The number of elements of an attribute.            *)
  minCount,          (* The constants of fetchBatch: 10 and                *)
  minAggregateCount  (* 1000 in the code.                                  *)

Ids == 1 .. MaxId

ASSUME PoolAssumption ==
  /\ Workers # {}
  /\ MaxId \in Nat
  /\ SizeOf \in [Ids -> Nat]
  /\ minCount \in Nat \ {0}
  /\ minAggregateCount \in Nat \ {0}

VARIABLES
  counter,   (* The last id given out.                                     *)
  pool,      (* The ids in the pool.                                       *)
  active,    (* Cleared by close.                                          *)
  disposed,  (* The ids whose buffer has been reset.                       *)
  value,     (* The attribute of each operation.                           *)
  held,      (* The attribute each worker has in hand.                     *)
  created,   (* Per worker: the attribute createElementsAttr has made and  *)
             (* not yet inserted, or 0.                                    *)
  phase,     (* "pass" or "translate".                                     *)
  todo,      (* The translations from iterator next on.                    *)
  batch,     (* Per worker: what is left of its batch.                     *)
  current,   (* Per worker: the translation it is at, or 0.                *)
  dense,     (* The translations that have their dense attribute.          *)
  done       (* The workers that found no batch.                           *)

scrubVars == <<todo, batch, current, dense, done>>
vars == <<counter, pool, active, disposed, value, held, created, phase,
          scrubVars>>

(* An attribute; id is the data it was made with, and none is null.        *)
NoAttr == [kind |-> "none", id |-> 0]
Disposable(i) == [kind |-> "disposable", id |-> i]
Dense(i) == [kind |-> "dense", id |-> i]
Attrs == {NoAttr} \cup {Disposable(i) : i \in Ids} \cup {Dense(i) : i \in Ids}

(* Every variable has the type the code declares for it.                   *)
TypeOK ==
  /\ counter \in 0 .. MaxId
  /\ pool \subseteq Ids
  /\ active \in BOOLEAN
  /\ disposed \subseteq Ids
  /\ value \in [Slots -> Attrs]
  /\ held \in [Workers -> Attrs]
  /\ created \in [Workers -> 0 .. MaxId]
  /\ phase \in {"pass", "translate"}
  /\ todo \subseteq Ids
  /\ batch \in [Workers -> SUBSET Ids]
  /\ current \in [Workers -> 0 .. MaxId]
  /\ dense \subseteq Ids
  /\ done \subseteq Workers

Init ==
  /\ counter = 0
  /\ pool = {}
  /\ active = TRUE
  /\ disposed = {}
  /\ value = [s \in Slots |-> NoAttr]
  /\ held = [w \in Workers |-> NoAttr]
  /\ created = [w \in Workers |-> 0]
  /\ phase = "pass"
  /\ todo = {}
  /\ batch = [w \in Workers |-> {}]
  /\ current = [w \in Workers |-> 0]
  /\ dense = {}
  /\ done = {}

(* walkOpsAttrs: the disposable attributes in the module.                  *)
Reachable == {i \in Ids : \E s \in Slots : value[s] = Disposable(i)}

FreeHanded(w) == held[w] = NoAttr /\ created[w] = 0

-----------------------------------------------------------------------------
(* Passes on functions.                                                    *)

(* createElementsAttr: the atomic counter, and the attribute itself.       *)
Create(w) ==
  /\ phase = "pass"
  /\ FreeHanded(w)
  /\ counter < MaxId
  /\ counter' = counter + 1
  /\ created' = [created EXCEPT ![w] = counter + 1]
  /\ UNCHANGED <<pool, active, disposed, value, held, phase, scrubVars>>

(* Mutant: an attribute is made disposable whether or not it got into the
   pool.                                                                   *)
InsertUnchecked(w) ==
  /\ created[w] # 0
  /\ pool' = IF active THEN pool \cup {created[w]} ELSE pool
  /\ held' = [held EXCEPT ![w] = Disposable(created[w])]
  /\ created' = [created EXCEPT ![w] = 0]
  /\ UNCHANGED <<counter, active, disposed, value, phase, scrubVars>>

(* Mutant: the attribute that the pool refused keeps its buffer.           *)
InsertKeepsBuffer(w) ==
  /\ created[w] # 0
  /\ pool' = IF active THEN pool \cup {created[w]} ELSE pool
  /\ held' = [held EXCEPT ![w] = IF active THEN Disposable(created[w]) ELSE Dense(created[w])]
  /\ created' = [created EXCEPT ![w] = 0]
  /\ UNCHANGED <<counter, active, disposed, value, phase, scrubVars>>

(* insert, under the mutex, and the rest of createElementsAttr: when the
   pool is closed a dense attribute is made and the other disposed of.     *)
Insert(w) ==
  /\ created[w] # 0
  /\ \/ /\ active
        /\ pool' = pool \cup {created[w]}
        /\ held' = [held EXCEPT ![w] = Disposable(created[w])]
        /\ UNCHANGED disposed
     \/ /\ ~active
        /\ disposed' = disposed \cup {created[w]}
        /\ held' = [held EXCEPT ![w] = Dense(created[w])]
        /\ UNCHANGED pool
  /\ created' = [created EXCEPT ![w] = 0]
  /\ UNCHANGED <<counter, active, value, phase, scrubVars>>

(* What passes do with attributes: put them in operations, share them,
   forget them, and erase operations.                                      *)
SetAttr(w, s) ==
  /\ phase = "pass"
  /\ held[w] # NoAttr
  /\ value' = [value EXCEPT ![s] = held[w]]
  /\ held' = [held EXCEPT ![w] = NoAttr]
  /\ UNCHANGED <<counter, pool, active, disposed, created, phase, scrubVars>>

GetAttr(w, s) ==
  /\ phase = "pass"
  /\ FreeHanded(w)
  /\ value[s] # NoAttr
  /\ held' = [held EXCEPT ![w] = value[s]]
  /\ UNCHANGED <<counter, pool, active, disposed, value, created, phase,
                 scrubVars>>

Forget(w) ==
  /\ held[w] # NoAttr
  /\ held' = [held EXCEPT ![w] = NoAttr]
  /\ UNCHANGED <<counter, pool, active, disposed, value, created, phase,
                 scrubVars>>

EraseOp(s) ==
  /\ phase = "pass"
  /\ value[s] # NoAttr
  /\ value' = [value EXCEPT ![s] = NoAttr]
  /\ UNCHANGED <<counter, pool, active, disposed, held, created, phase,
                 scrubVars>>

-----------------------------------------------------------------------------
(* Between passes on functions.                                            *)

BetweenPasses == phase = "pass" /\ \A w \in Workers : FreeHanded(w)

(* Mutant: the collector runs after every pass on a function, too.         *)
CollectAnyTime ==
  /\ phase = "pass"
  /\ active
  /\ pool' = pool \cap Reachable
  /\ disposed' = disposed \cup (pool \ Reachable)
  /\ UNCHANGED <<counter, active, value, held, created, phase, scrubVars>>

(* runAfterPass, and garbageCollectUnreachable with eraseUnreachable.      *)
GarbageCollect ==
  /\ BetweenPasses
  /\ active
  /\ pool' = pool \cap Reachable
  /\ disposed' = disposed \cup (pool \ Reachable)
  /\ UNCHANGED <<counter, active, value, held, created, phase, scrubVars>>

(* scrub, as far as parallelFor.                                           *)
ScrubBegin ==
  /\ BetweenPasses
  /\ phase' = "translate"
  /\ todo' = Reachable
  /\ dense' = {}
  /\ done' = {}
  /\ UNCHANGED <<counter, pool, active, disposed, value, held, created,
                 batch, current>>

(* The loop of fetchBatch adds the size of the attribute at next, the first
   of the batch, for every attribute that it takes.                        *)
BatchFull(n, first) == n >= minCount \/ n * SizeOf[first] >= minAggregateCount

BatchSize(first, left) ==
  CHOOSE n \in 1 .. left :
    /\ n = left \/ BatchFull(n, first)
    /\ \A k \in 1 .. n - 1 : ~BatchFull(k, first)

(* Mutant: fetchBatch does not move next past the batch.                   *)
FetchBatchKeepsNext(w) ==
  /\ phase = "translate"
  /\ w \notin done /\ batch[w] = {} /\ current[w] = 0
  /\ \/ /\ todo = {}
        /\ done' = done \cup {w}
        /\ UNCHANGED <<todo, batch>>
     \/ \E first \in todo, b \in SUBSET todo :
          /\ first \in b
          /\ Cardinality(b) = BatchSize(first, Cardinality(todo))
          /\ batch' = [batch EXCEPT ![w] = b]
          /\ todo' = todo \ {first}
          /\ UNCHANGED done
  /\ UNCHANGED <<counter, pool, active, disposed, value, held, created,
                 phase, current, dense>>

(* Mutant: a worker does not leave its loop when the batch is empty.       *)
FetchBatchNoBreak(w) ==
  /\ phase = "translate"
  /\ batch[w] = {} /\ current[w] = 0
  /\ \E first \in todo, b \in SUBSET todo :
       /\ first \in b
       /\ Cardinality(b) = BatchSize(first, Cardinality(todo))
       /\ batch' = [batch EXCEPT ![w] = b]
       /\ todo' = todo \ b
  /\ UNCHANGED <<counter, pool, active, disposed, value, held, created,
                 phase, current, dense, done>>

(* fetchBatch, under translationMutex: the map has no order to speak of,
   so a batch is any set of the size that its first attribute gives it.    *)
FetchBatch(w) ==
  /\ phase = "translate"
  /\ w \notin done /\ batch[w] = {} /\ current[w] = 0
  /\ \/ /\ todo = {}
        /\ done' = done \cup {w}
        /\ UNCHANGED <<todo, batch>>
     \/ \E first \in todo, b \in SUBSET todo :
          /\ first \in b
          /\ Cardinality(b) = BatchSize(first, Cardinality(todo))
          /\ batch' = [batch EXCEPT ![w] = b]
          /\ todo' = todo \ b
          /\ UNCHANGED done
  /\ UNCHANGED <<counter, pool, active, disposed, value, held, created,
                 phase, current, dense>>

(* toDenseElementsAttr, without a mutex, and then dispose with it.         *)
ToDense(w) ==
  /\ current[w] = 0
  /\ \E i \in batch[w] :
       /\ current' = [current EXCEPT ![w] = i]
       /\ batch' = [batch EXCEPT ![w] = @ \ {i}]
       /\ dense' = dense \cup {i}
  /\ UNCHANGED <<counter, pool, active, disposed, value, held, created,
                 phase, todo, done>>

Dispose(w) ==
  /\ current[w] # 0
  /\ disposed' = disposed \cup {current[w]}
  /\ current' = [current EXCEPT ![w] = 0]
  /\ UNCHANGED <<counter, pool, active, value, held, created, phase, todo,
                 batch, dense, done>>

(* An attribute after scrub: a translation without its dense attribute
   would leave null.                                                       *)
Replaced(a) ==
  IF a.kind # "disposable" THEN a
  ELSE IF a.id \in dense THEN Dense(a.id) ELSE NoAttr

(* The rest of scrub, once parallelFor has joined the workers, and close.  *)
ScrubEnd(closeAfter) ==
  /\ phase = "translate"
  /\ done = Workers
  /\ value' = [s \in Slots |-> Replaced(value[s])]
  /\ disposed' = disposed \cup pool
  /\ pool' = {}
  /\ active' = (active /\ ~closeAfter)
  /\ phase' = "pass"
  /\ dense' = {}
  /\ done' = {}
  /\ UNCHANGED <<counter, held, created, todo, batch, current>>

ScrubStep ==
  \/ \E w \in Workers : FetchBatch(w) \/ ToDense(w) \/ Dispose(w)
  \/ \E closeAfter \in BOOLEAN : ScrubEnd(closeAfter)

Next ==
  \/ \E w \in Workers : Create(w) \/ Insert(w) \/ Forget(w)
  \/ \E w \in Workers, s \in Slots : SetAttr(w, s) \/ GetAttr(w, s)
  \/ \E s \in Slots : EraseOp(s)
  \/ GarbageCollect \/ ScrubBegin \/ ScrubStep

Spec == Init /\ [][Next]_vars

(* parallelFor runs every worker to its end.                               *)
FairSpec ==
  /\ Spec
  /\ \A w \in Workers : WF_vars(FetchBatch(w) \/ ToDense(w) \/ Dispose(w))
  /\ WF_vars(\E closeAfter \in BOOLEAN : ScrubEnd(closeAfter))
-----------------------------------------------------------------------------
(* getBuffer's assertion: no pass meets an attribute whose buffer has been
   reset, in an operation or in hand, and no scrub worker reads one.       *)
NoUseAfterDispose ==
  /\ phase = "pass" =>
       \A i \in disposed :
         /\ i \notin Reachable
         /\ \A w \in Workers : held[w] # Disposable(i)
  /\ \A w \in Workers : batch[w] \cap disposed = {}

(* The assertions of garbageCollectUnreachable and scrub: the attributes in
   the module are in the pool, so that none escapes collection.            *)
ReachableInPool == Reachable \subseteq pool

(* close "ensures that no more DisposableElementsAttr instances" exist:
   neither the pool, nor the module, nor a worker has one, and the buffer of
   every one that was ever made, by a pass after close too, has been reset,
   unless createElementsAttr is about to.                                  *)
ClosedForGood ==
  ~active /\ phase = "pass" =>
    /\ pool = {}
    /\ Reachable = {}
    /\ \A w \in Workers : held[w].kind # "disposable"
    /\ \A i \in 1 .. counter : i \in disposed \/ \E w \in Workers : created[w] = i

(* scrub ends: the workers run out of batches, and the module is rewritten.*)
ScrubEnds == phase = "translate" ~> phase = "pass"

(* What an attribute's data is: its own as long as the buffer or the dense
   translation is there.                                                   *)
DataOf(a) ==
  IF a.kind = "disposable" /\ a.id \in disposed \ dense THEN MaxId + 1
  ELSE a.id

Store == INSTANCE ElementsStore WITH
  Data <- Ids,
  NoData <- 0,
  made <- (1 .. counter) \ {created[w] : w \in Workers},
  content <- [s \in Slots |-> DataOf(value[s])],
  held <- [w \in Workers |-> DataOf(held[w])]

(* Collection and scrubbing implement the abstract store: no constant is
   lost or changed by them, nor by a pool that is closed.                  *)
ImplementsStore == Store!Spec
=============================================================================
