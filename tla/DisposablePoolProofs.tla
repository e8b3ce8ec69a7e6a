------------------------ MODULE DisposablePoolProofs ------------------------
(***************************************************************************)
(* Proofs about DisposablePool: for any number of workers, operations and  *)
(* attributes of any size.                                                 *)
(***************************************************************************)
EXTENDS DisposablePool, TLAPS

(* An attribute that is not in the pool yet is its worker's alone.         *)
CreatedInv ==
  /\ \A i \in pool \cup disposed : i <= counter
  /\ \A w \in Workers :
       created[w] # 0 =>
         /\ phase = "pass"
         /\ held[w] = NoAttr
         /\ created[w] <= counter
         /\ created[w] \notin pool \cup disposed
         /\ \A v \in Workers : created[v] = created[w] => v = w

(* Whatever is in use is in the pool.                                      *)
PoolInv ==
  /\ ReachableInPool
  /\ \A w \in Workers, i \in Ids : held[w] = Disposable(i) => i \in pool

(* The translations of a scrub are yet to be fetched, in the batch of one
   worker, or dense; only the dense ones have been disposed of.            *)
ScrubInv ==
  /\ phase = "pass" =>
       /\ todo = {} /\ dense = {} /\ done = {}
       /\ \A w \in Workers : batch[w] = {} /\ current[w] = 0
  /\ phase = "translate" =>
       /\ \A w \in Workers : held[w] = NoAttr /\ created[w] = 0
       /\ \A i \in Reachable :
            i \in todo \cup dense \/ \E w \in Workers : i \in batch[w]
  /\ todo \cup dense \subseteq pool
  /\ \A w \in Workers :
       /\ batch[w] \subseteq pool
       /\ batch[w] \cap (todo \cup dense) = {}
       /\ \A v \in Workers : v # w => batch[w] \cap batch[v] = {}
       /\ current[w] # 0 => current[w] \in dense
       /\ w \in done => batch[w] = {} /\ current[w] = 0 /\ todo = {}
  /\ todo \cap dense = {}
  /\ pool \cap disposed \subseteq dense

(* A closed pool is empty and stays so.                                    *)
ClosedInv ==
  ~active => pool = {} /\ \A w \in Workers : held[w].kind # "disposable"

IInv == TypeOK /\ CreatedInv /\ PoolInv /\ ScrubInv /\ ClosedInv

(* No attribute gets lost: each one made is being created, in the pool or
   disposed of.                                                            *)
AccountedInv ==
  \A i \in 1 .. counter : i \in pool \cup disposed \/ \E w \in Workers : created[w] = i

(* What the invariant is for: it implies the checked invariants.           *)
LEMMA IInvImplies ==
  /\ IInv => NoUseAfterDispose /\ ReachableInPool
  /\ IInv /\ AccountedInv => ClosedForGood
<1> SUFFICES ASSUME IInv
             PROVE  NoUseAfterDispose /\ ReachableInPool /\ (AccountedInv => ClosedForGood)
  OBVIOUS
<1>1. ReachableInPool
  BY DEF IInv, PoolInv
<1>2. AccountedInv => ClosedForGood
  BY <1>1 DEF IInv, ClosedInv, AccountedInv, ClosedForGood, ReachableInPool
<1>3. NoUseAfterDispose
  BY <1>1 DEF IInv, TypeOK, PoolInv, ScrubInv, NoUseAfterDispose,
              ReachableInPool, Reachable
<1>4. QED BY <1>1, <1>2, <1>3

(* The kinds of attributes are apart, and an attribute has one id.         *)
LEMMA AttrKinds ==
  /\ NoAttr.kind = "none" /\ NoAttr \in Attrs
  /\ \A i : Disposable(i).kind = "disposable" /\ Dense(i).kind = "dense"
  /\ \A i : Disposable(i).id = i /\ Dense(i).id = i
  /\ \A i \in Ids : Disposable(i) \in Attrs /\ Dense(i) \in Attrs
  /\ \A a \in Attrs :
       \/ a = NoAttr
       \/ \E i \in Ids : a = Disposable(i)
       \/ \E i \in Ids : a = Dense(i)
BY DEF NoAttr, Disposable, Dense, Attrs

(* Before the first pass the pool is empty.                                *)
LEMMA InitIInv == Init => IInv
<1> SUFFICES ASSUME Init PROVE IInv
  OBVIOUS
<1>1. Reachable = {}
  BY DEF Init, Reachable, NoAttr, Disposable
<1>2. TypeOK
  BY PoolAssumption DEF Init, TypeOK, Attrs, Ids
<1>3. CreatedInv /\ ClosedInv
  BY DEF Init, CreatedInv, ClosedInv
<1>4. PoolInv
  BY <1>1 DEF Init, PoolInv, ReachableInPool, NoAttr, Disposable
<1>5. ScrubInv
  BY <1>1 DEF Init, ScrubInv
<1>6. QED BY <1>2, <1>3, <1>4, <1>5 DEF IInv

(* Every action keeps the invariant.                                       *)
LEMMA NextIInv == IInv /\ [Next]_vars => IInv'
<1> SUFFICES ASSUME IInv, [Next]_vars PROVE IInv'
  OBVIOUS
<1>1. ASSUME NEW w \in Workers, Create(w) PROVE IInv'
  <2>1. TypeOK'
    <3>1. counter + 1 \in 0 .. MaxId
      BY <1>1, PoolAssumption DEF IInv, TypeOK, Create
    <3>2. created' \in [Workers -> 0 .. MaxId]
      BY <1>1, <3>1 DEF IInv, TypeOK, Create
    <3>3. QED
      BY <1>1, <3>1, <3>2 DEF IInv, TypeOK, Create, scrubVars
  <2>2. Reachable' = Reachable
    BY <1>1 DEF IInv, TypeOK, Reachable, Create, FreeHanded
  <2>3. CreatedInv'
    BY <1>1, PoolAssumption DEF IInv, TypeOK, Ids, CreatedInv, PoolInv,
      ScrubInv, Create, FreeHanded, scrubVars
  <2>4. PoolInv'
    BY <1>1, <2>2 DEF IInv, TypeOK, CreatedInv, PoolInv, ReachableInPool,
      Disposable, NoAttr, Dense, Create, FreeHanded, scrubVars
  <2>5. ScrubInv'
    BY <1>1, <2>2 DEF IInv, TypeOK, CreatedInv, PoolInv, ReachableInPool,
      ScrubInv, Create, FreeHanded, scrubVars
  <2>6. ClosedInv'
    BY <1>1 DEF IInv, TypeOK, ClosedInv, PoolInv, Disposable, NoAttr, Dense,
      Create, FreeHanded, scrubVars
  <2>7. QED BY <2>1, <2>3, <2>4, <2>5, <2>6 DEF IInv
<1>2. ASSUME NEW w \in Workers, Insert(w) PROVE IInv'
  <2>1. TypeOK'
    <3>1. created[w] \in Ids /\ created' \in [Workers -> 0 .. MaxId]
      BY <1>2, PoolAssumption DEF IInv, TypeOK, Insert, Ids
    <3>2. held' \in [Workers -> Attrs]
      BY <1>2, <3>1, AttrKinds DEF IInv, TypeOK, Insert
    <3>3. QED
      BY <1>2, <3>1, <3>2 DEF IInv, TypeOK, Insert, scrubVars
  <2>2. Reachable' = Reachable
    BY <1>2 DEF IInv, TypeOK, Reachable, Insert
  <2>3. CreatedInv'
    <3>1. \A i \in (pool \cup disposed)' :
            i \in pool \cup disposed \/ i = created[w]
      BY <1>2 DEF Insert
    <3>2. \A v \in Workers :
            created'[v] # 0 => v # w /\ created'[v] = created[v]
      BY <1>2 DEF IInv, TypeOK, Insert
    <3>3. \A v \in Workers : v # w => held'[v] = held[v]
      BY <1>2 DEF IInv, TypeOK, Insert
    <3>4. QED
      BY <1>2, <3>1, <3>2, <3>3 DEF IInv, CreatedInv, Insert
  <2>4. PoolInv'
    BY <1>2, <2>2 DEF IInv, TypeOK, CreatedInv, PoolInv, ReachableInPool,
      Disposable, NoAttr, Dense, Insert, scrubVars
  <2>5. ScrubInv'
    BY <1>2, <2>2 DEF IInv, TypeOK, CreatedInv, PoolInv, ReachableInPool,
      ScrubInv, Insert, scrubVars
  <2>6. ClosedInv'
    BY <1>2 DEF IInv, TypeOK, ClosedInv, PoolInv, Disposable, NoAttr, Dense,
      Insert, scrubVars
  <2>7. QED BY <2>1, <2>3, <2>4, <2>5, <2>6 DEF IInv
<1>3. ASSUME NEW w \in Workers, Forget(w) PROVE IInv'
  <2>1. TypeOK'
    BY <1>3, PoolAssumption DEF IInv, TypeOK, Attrs, Ids, Forget, scrubVars
  <2>2. Reachable' = Reachable
    BY <1>3 DEF IInv, TypeOK, Reachable, Forget
  <2>3. CreatedInv'
    BY <1>3, PoolAssumption DEF IInv, TypeOK, Ids, CreatedInv, PoolInv,
      ScrubInv, Forget, scrubVars
  <2>4. PoolInv'
    BY <1>3, <2>2 DEF IInv, TypeOK, CreatedInv, PoolInv, ReachableInPool,
      Disposable, NoAttr, Dense, Forget, scrubVars
  <2>5. ScrubInv'
    BY <1>3, <2>2 DEF IInv, TypeOK, CreatedInv, PoolInv, ReachableInPool,
      ScrubInv, Forget, scrubVars
  <2>6. ClosedInv'
    BY <1>3 DEF IInv, TypeOK, ClosedInv, PoolInv, Disposable, NoAttr, Dense,
      Forget, scrubVars
  <2>7. QED BY <2>1, <2>3, <2>4, <2>5, <2>6 DEF IInv
<1>4. ASSUME NEW w \in Workers, NEW s \in Slots, SetAttr(w, s) PROVE IInv'
  <2>1. TypeOK'
    BY <1>4, PoolAssumption DEF IInv, TypeOK, Attrs, Ids, SetAttr, scrubVars
  <2>2. Reachable' \subseteq Reachable \cup {i \in Ids : held[w] =
    Disposable(i)}
    BY <1>4 DEF IInv, TypeOK, Reachable, SetAttr
  <2>3. CreatedInv'
    BY <1>4, PoolAssumption DEF IInv, TypeOK, Ids, CreatedInv, PoolInv,
      ScrubInv, SetAttr, scrubVars
  <2>4. PoolInv'
    BY <1>4, <2>2 DEF IInv, TypeOK, CreatedInv, PoolInv, ReachableInPool,
      Disposable, NoAttr, Dense, SetAttr, scrubVars
  <2>5. ScrubInv'
    BY <1>4, <2>2 DEF IInv, TypeOK, CreatedInv, PoolInv, ReachableInPool,
      ScrubInv, SetAttr, scrubVars
  <2>6. ClosedInv'
    BY <1>4 DEF IInv, TypeOK, ClosedInv, PoolInv, Disposable, NoAttr, Dense,
      SetAttr, scrubVars
  <2>7. QED BY <2>1, <2>3, <2>4, <2>5, <2>6 DEF IInv
<1>5. ASSUME NEW w \in Workers, NEW s \in Slots, GetAttr(w, s) PROVE IInv'
  <2>1. TypeOK'
    BY <1>5, PoolAssumption DEF IInv, TypeOK, Attrs, Ids, GetAttr,
      FreeHanded, scrubVars
  <2>2. Reachable' = Reachable
    BY <1>5 DEF IInv, TypeOK, Reachable, GetAttr, FreeHanded
  <2>3. CreatedInv'
    BY <1>5, PoolAssumption DEF IInv, TypeOK, Ids, CreatedInv, PoolInv,
      ScrubInv, GetAttr, FreeHanded, scrubVars
  <2>4. PoolInv'
    <3>1. \A i \in Ids : value[s] = Disposable(i) => i \in pool
      BY DEF IInv, PoolInv, ReachableInPool, Reachable
    <3>2. \A v \in Workers : held'[v] = IF v = w THEN value[s] ELSE held[v]
      BY <1>5 DEF IInv, TypeOK, GetAttr
    <3>3. QED
      BY <1>5, <2>2, <3>1, <3>2 DEF IInv, PoolInv, ReachableInPool, GetAttr
  <2>5. ScrubInv'
    BY <1>5, <2>2 DEF IInv, TypeOK, CreatedInv, PoolInv, ReachableInPool,
      ScrubInv, GetAttr, FreeHanded, scrubVars
  <2>6. ClosedInv'
    <3>1. ~active => value[s].kind # "disposable"
      BY AttrKinds DEF IInv, TypeOK, PoolInv, ReachableInPool, Reachable,
                       ClosedInv
    <3>2. \A v \in Workers : held'[v] = IF v = w THEN value[s] ELSE held[v]
      BY <1>5 DEF IInv, TypeOK, GetAttr
    <3>3. QED
      BY <1>5, <3>1, <3>2 DEF IInv, ClosedInv, GetAttr
  <2>7. QED BY <2>1, <2>3, <2>4, <2>5, <2>6 DEF IInv
<1>6. ASSUME NEW s \in Slots, EraseOp(s) PROVE IInv'
  <2>1. TypeOK'
    BY <1>6, PoolAssumption DEF IInv, TypeOK, Attrs, Ids, EraseOp, scrubVars
  <2>2. Reachable' \subseteq Reachable
    <3>1. \A r \in Slots : value'[r] = NoAttr \/ value'[r] = value[r]
      BY <1>6 DEF IInv, TypeOK, EraseOp
    <3>2. QED
      BY <3>1, AttrKinds DEF Reachable
  <2>3. CreatedInv'
    BY <1>6, PoolAssumption DEF IInv, TypeOK, Ids, CreatedInv, PoolInv,
      ScrubInv, EraseOp, scrubVars
  <2>4. PoolInv'
    BY <1>6, <2>2 DEF IInv, TypeOK, CreatedInv, PoolInv, ReachableInPool,
      Disposable, NoAttr, Dense, EraseOp, scrubVars
  <2>5. ScrubInv'
    BY <1>6, <2>2 DEF IInv, TypeOK, CreatedInv, PoolInv, ReachableInPool,
      ScrubInv, EraseOp, scrubVars
  <2>6. ClosedInv'
    BY <1>6 DEF IInv, TypeOK, ClosedInv, PoolInv, Disposable, NoAttr, Dense,
      EraseOp, scrubVars
  <2>7. QED BY <2>1, <2>3, <2>4, <2>5, <2>6 DEF IInv
<1>7. CASE GarbageCollect
  <2>1. TypeOK'
    BY <1>7, PoolAssumption DEF IInv, TypeOK, Attrs, Ids, GarbageCollect,
      BetweenPasses, FreeHanded, scrubVars
  <2>2. Reachable' = Reachable
    BY <1>7 DEF IInv, TypeOK, Reachable, GarbageCollect, BetweenPasses,
      FreeHanded
  <2>3. CreatedInv'
    BY <1>7, PoolAssumption DEF IInv, TypeOK, Ids, CreatedInv, PoolInv,
      ScrubInv, GarbageCollect, BetweenPasses, FreeHanded, scrubVars
  <2>4. PoolInv'
    BY <1>7, <2>2 DEF IInv, TypeOK, CreatedInv, PoolInv, ReachableInPool,
      Disposable, NoAttr, Dense, GarbageCollect, BetweenPasses, FreeHanded,
      scrubVars
  <2>5. ScrubInv'
    BY <1>7, <2>2 DEF IInv, TypeOK, CreatedInv, PoolInv, ReachableInPool,
      ScrubInv, GarbageCollect, BetweenPasses, FreeHanded, scrubVars
  <2>6. ClosedInv'
    BY <1>7 DEF IInv, TypeOK, ClosedInv, PoolInv, Disposable, NoAttr, Dense,
      GarbageCollect, BetweenPasses, FreeHanded, scrubVars
  <2>7. QED BY <2>1, <2>3, <2>4, <2>5, <2>6 DEF IInv
<1>8. CASE ScrubBegin
  <2>1. TypeOK'
    BY <1>8 DEF IInv, TypeOK, ScrubBegin, Reachable
  <2>2. Reachable' = Reachable
    BY <1>8 DEF IInv, TypeOK, Reachable, ScrubBegin, BetweenPasses,
      FreeHanded
  <2>3. CreatedInv'
    BY <1>8, PoolAssumption DEF IInv, TypeOK, Ids, CreatedInv, PoolInv,
      ScrubInv, ScrubBegin, BetweenPasses, FreeHanded, scrubVars
  <2>4. PoolInv'
    BY <1>8, <2>2 DEF IInv, TypeOK, CreatedInv, PoolInv, ReachableInPool,
      Disposable, NoAttr, Dense, ScrubBegin, BetweenPasses, FreeHanded,
      scrubVars
  <2>5. ScrubInv'
    BY <1>8, <2>2 DEF IInv, TypeOK, CreatedInv, PoolInv, ReachableInPool,
      ScrubInv, ScrubBegin, BetweenPasses, FreeHanded, scrubVars
  <2>6. ClosedInv'
    BY <1>8 DEF IInv, TypeOK, ClosedInv, PoolInv, Disposable, NoAttr, Dense,
      ScrubBegin, BetweenPasses, FreeHanded, scrubVars
  <2>7. QED BY <2>1, <2>3, <2>4, <2>5, <2>6 DEF IInv
<1>9. ASSUME NEW w \in Workers, FetchBatch(w) PROVE IInv'
  <2>1. TypeOK'
    <3>1. batch' \in [Workers -> SUBSET Ids] /\ todo' \subseteq Ids
      BY <1>9 DEF IInv, TypeOK, FetchBatch
    <3>2. done' \subseteq Workers
      BY <1>9 DEF IInv, TypeOK, FetchBatch
    <3>3. QED
      BY <1>9, <3>1, <3>2 DEF IInv, TypeOK, FetchBatch
  <2>2. Reachable' = Reachable
    BY <1>9 DEF IInv, TypeOK, Reachable, FetchBatch
  <2>3. CreatedInv'
    BY <1>9, PoolAssumption DEF IInv, TypeOK, Ids, CreatedInv, PoolInv,
      ScrubInv, FetchBatch, scrubVars
  <2>4. PoolInv'
    BY <1>9, <2>2 DEF IInv, TypeOK, CreatedInv, PoolInv, ReachableInPool,
      Disposable, NoAttr, Dense, FetchBatch, scrubVars
  <2>5. ScrubInv'
    BY <1>9, <2>2 DEF IInv, TypeOK, CreatedInv, PoolInv, ReachableInPool,
      ScrubInv, FetchBatch, scrubVars
  <2>6. ClosedInv'
    BY <1>9 DEF IInv, TypeOK, ClosedInv, PoolInv, Disposable, NoAttr, Dense,
      FetchBatch, scrubVars
  <2>7. QED BY <2>1, <2>3, <2>4, <2>5, <2>6 DEF IInv
<1>10. ASSUME NEW w \in Workers, ToDense(w) PROVE IInv'
  <2>1. TypeOK'
    <3>1. PICK i \in batch[w] :
            /\ current' = [current EXCEPT ![w] = i]
            /\ batch' = [batch EXCEPT ![w] = @ \ {i}]
            /\ dense' = dense \cup {i}
      BY <1>10 DEF ToDense
    <3>2. i \in Ids /\ i \in 0 .. MaxId
      BY PoolAssumption DEF IInv, TypeOK, Ids
    <3>3. batch' \in [Workers -> SUBSET Ids]
      BY <3>1 DEF IInv, TypeOK
    <3>4. current' \in [Workers -> 0 .. MaxId]
      BY <3>1, <3>2 DEF IInv, TypeOK
    <3>5. QED
      BY <1>10, <3>1, <3>2, <3>3, <3>4 DEF IInv, TypeOK, ToDense
  <2>2. Reachable' = Reachable
    BY <1>10 DEF IInv, TypeOK, Reachable, ToDense
  <2>3. CreatedInv'
    BY <1>10, PoolAssumption DEF IInv, TypeOK, Ids, CreatedInv, PoolInv,
      ScrubInv, ToDense, scrubVars
  <2>4. PoolInv'
    BY <1>10, <2>2 DEF IInv, TypeOK, CreatedInv, PoolInv, ReachableInPool,
      Disposable, NoAttr, Dense, ToDense, scrubVars
  <2>5. ScrubInv'
    BY <1>10, <2>2 DEF IInv, TypeOK, CreatedInv, PoolInv, ReachableInPool,
      ScrubInv, ToDense, scrubVars
  <2>6. ClosedInv'
    BY <1>10 DEF IInv, TypeOK, ClosedInv, PoolInv, Disposable, NoAttr, Dense,
      ToDense, scrubVars
  <2>7. QED BY <2>1, <2>3, <2>4, <2>5, <2>6 DEF IInv
<1>11. ASSUME NEW w \in Workers, Dispose(w) PROVE IInv'
  <2>1. TypeOK'
    <3>1. current[w] \in Ids /\ current' \in [Workers -> 0 .. MaxId]
      BY <1>11, PoolAssumption DEF IInv, TypeOK, Dispose, Ids
    <3>2. QED
      BY <1>11, <3>1 DEF IInv, TypeOK, Dispose
  <2>2. Reachable' = Reachable
    BY <1>11 DEF IInv, TypeOK, Reachable, Dispose
  <2>3. CreatedInv'
    BY <1>11, PoolAssumption DEF IInv, TypeOK, Ids, CreatedInv, PoolInv,
      ScrubInv, Dispose, scrubVars
  <2>4. PoolInv'
    BY <1>11, <2>2 DEF IInv, TypeOK, CreatedInv, PoolInv, ReachableInPool,
      Disposable, NoAttr, Dense, Dispose, scrubVars
  <2>5. ScrubInv'
    BY <1>11, <2>2 DEF IInv, TypeOK, CreatedInv, PoolInv, ReachableInPool,
      ScrubInv, Dispose, scrubVars
  <2>6. ClosedInv'
    BY <1>11 DEF IInv, TypeOK, ClosedInv, PoolInv, Disposable, NoAttr, Dense,
      Dispose, scrubVars
  <2>7. QED BY <2>1, <2>3, <2>4, <2>5, <2>6 DEF IInv
<1>12. ASSUME NEW closeAfter \in BOOLEAN, ScrubEnd(closeAfter) PROVE IInv'
  <2>1. TypeOK'
    <3>1. \A a \in Attrs : Replaced(a) \in Attrs
      BY AttrKinds DEF Replaced
    <3>2. value' \in [Slots -> Attrs]
      BY <1>12, <3>1 DEF IInv, TypeOK, ScrubEnd
    <3>3. QED
      BY <1>12, <3>2 DEF IInv, TypeOK, ScrubEnd
  <2>2. Reachable' = {}
    <3>1. \A r \in Slots, i \in Ids : Replaced(value[r]) # Disposable(i)
      BY AttrKinds DEF Replaced
    <3>2. QED
      BY <1>12, <3>1 DEF ScrubEnd, Reachable
  <2>3. CreatedInv'
    BY <1>12, PoolAssumption DEF IInv, TypeOK, Ids, CreatedInv, PoolInv,
      ScrubInv, ScrubEnd, Replaced, scrubVars
  <2>4. PoolInv'
    BY <1>12, <2>2, AttrKinds DEF IInv, PoolInv, ScrubInv, ReachableInPool,
      ScrubEnd
  <2>5. ScrubInv'
    <3>1. todo = {}
      BY <1>12, PoolAssumption DEF IInv, ScrubInv, ScrubEnd
    <3>2. QED
      BY <1>12, <2>2, <3>1 DEF IInv, TypeOK, ScrubInv, ScrubEnd
  <2>6. ClosedInv'
    BY <1>12, AttrKinds DEF IInv, ClosedInv, ScrubInv, ScrubEnd
  <2>7. QED BY <2>1, <2>3, <2>4, <2>5, <2>6 DEF IInv
<1>13. CASE UNCHANGED vars
  BY <1>13 DEF IInv, TypeOK, CreatedInv, PoolInv, ReachableInPool, Reachable,
    ScrubInv, ClosedInv, vars, scrubVars
<1>14. QED
  BY <1>1, <1>2, <1>3, <1>4, <1>5, <1>6, <1>7, <1>8, <1>9, <1>10, <1>11,
    <1>12, <1>13 DEF Next, ScrubStep

(* The inductive invariant holds in every state of the specification.      *)
THEOREM Invariance == Spec => []IInv
BY InitIInv, NextIInv, PTL DEF Spec

(* Whatever the passes, the collector and the scrub workers do, and however
   they interleave, no attribute is met after its buffer was reset.        *)
THEOREM DisposedUnused == Spec => []NoUseAfterDispose
BY Invariance, IInvImplies, PTL

(* The assertion that the pool has all the attributes in the module.       *)
THEOREM PoolComplete == Spec => []ReachableInPool
BY Invariance, IInvImplies, PTL

(* No step loses an attribute.                                             *)
LEMMA NextAccounted == IInv /\ AccountedInv /\ [Next]_vars => AccountedInv'
<1> SUFFICES ASSUME IInv, AccountedInv, [Next]_vars PROVE AccountedInv'
  OBVIOUS
<1>1. ASSUME NEW w \in Workers, Create(w) PROVE AccountedInv'
  <2>1. created[w] = 0 /\ counter \in Nat /\ counter' = counter + 1 /\ created'[w] = counter + 1
    BY <1>1, PoolAssumption DEF IInv, TypeOK, Create, FreeHanded
  <2>2. \A v \in Workers : v # w => created'[v] = created[v]
    BY <1>1 DEF IInv, TypeOK, Create
  <2>3. \A i \in 1 .. counter' : i \in 1 .. counter \/ i = counter + 1
    BY <2>1
  <2>4. \A i \in 1 .. counter : i # 0
    BY <2>1
  <2>5. QED BY <1>1, <2>1, <2>2, <2>3, <2>4 DEF AccountedInv, Create
<1>2. ASSUME NEW w \in Workers, Insert(w) PROVE AccountedInv'
  <2>1. \A v \in Workers : v # w => created'[v] = created[v]
    BY <1>2 DEF IInv, TypeOK, Insert
  <2>2. created[w] \in pool' \cup disposed' /\ pool \cup disposed \subseteq pool' \cup disposed'
    BY <1>2 DEF Insert
  <2>3. QED BY <1>2, <2>1, <2>2 DEF AccountedInv, Insert
<1>3. CASE \/ \E w \in Workers : Forget(w)
           \/ \E w \in Workers, s \in Slots : SetAttr(w, s) \/ GetAttr(w, s)
           \/ \E s \in Slots : EraseOp(s)
           \/ ScrubBegin
           \/ \E w \in Workers : FetchBatch(w) \/ ToDense(w)
           \/ UNCHANGED vars
  <2>1. UNCHANGED <<counter, pool, disposed, created>>
    BY <1>3 DEF Forget, SetAttr, GetAttr, EraseOp, ScrubBegin, FetchBatch, ToDense, vars
  <2>2. QED BY <2>1 DEF AccountedInv
<1>4. CASE \/ GarbageCollect
           \/ \E w \in Workers : Dispose(w)
           \/ \E closeAfter \in BOOLEAN : ScrubEnd(closeAfter)
  <2>1. UNCHANGED <<counter, created>> /\ pool \cup disposed \subseteq pool' \cup disposed'
    BY <1>4 DEF GarbageCollect, Dispose, ScrubEnd
  <2>2. QED BY <2>1 DEF AccountedInv
<1>5. QED BY <1>1, <1>2, <1>3, <1>4 DEF Next, ScrubStep

(* Once the pool is closed no disposable attribute is left: neither those
   made before, in however many passes, collections and scrubs, nor those
   that later passes make.  The buffers of all of them have been reset.    *)
THEOREM ClosedStaysEmpty == Spec => []ClosedForGood
<1>1. Init => AccountedInv
  BY DEF Init, AccountedInv
<1>2. QED BY <1>1, Invariance, NextAccounted, IInvImplies, PTL DEF Spec
-----------------------------------------------------------------------------
(* Refinement.                                                             *)

(* The abstract content and held of the mapping, without its case for lost
   data.                                                                   *)
Content == [s \in Slots |-> value[s].id]
InHand == [w \in Workers |-> held[w].id]
Made == (1 .. counter) \ {created[w] : w \in Workers}

(* No data is lost: what an operation or a worker has is what the attribute
   was made with.                                                          *)
NoDataLost ==
  /\ [s \in Slots |-> DataOf(value[s])] = Content
  /\ [w \in Workers |-> DataOf(held[w])] = InHand

(* The invariant has every disposed attribute that is in use translated.   *)
LEMMA NothingLost == IInv => NoDataLost
<1> SUFFICES ASSUME IInv PROVE NoDataLost
  OBVIOUS
<1>1. ASSUME NEW s \in Slots PROVE DataOf(value[s]) = value[s].id
  <2>1. ASSUME NEW i \in Ids, value[s] = Disposable(i)
        PROVE  i \notin disposed \ dense
    BY <2>1 DEF IInv, PoolInv, ReachableInPool, Reachable, ScrubInv
  <2>2. QED
    BY <2>1, AttrKinds DEF IInv, TypeOK, DataOf
<1>2. ASSUME NEW w \in Workers PROVE DataOf(held[w]) = held[w].id
  <2>1. ASSUME NEW i \in Ids, held[w] = Disposable(i)
        PROVE  i \notin disposed \ dense
    BY <2>1 DEF IInv, PoolInv, ScrubInv
  <2>2. QED
    BY <2>1, AttrKinds DEF IInv, TypeOK, DataOf
<1>3. QED BY <1>1, <1>2 DEF NoDataLost, Content, InHand

(* Only a null attribute has the abstract NoData.                          *)
LEMMA AttrIds == \A a \in Attrs : a.id = 0 <=> a = NoAttr
<1>1. NoAttr.id = 0 /\ \A i \in Ids : i # 0
  BY PoolAssumption DEF NoAttr, Ids
<1>2. QED BY <1>1, AttrKinds

(* Initially nothing has been made.                                        *)
LEMMA InitStore == Init => Store!Init
<1> SUFFICES ASSUME Init PROVE Store!Init
  OBVIOUS
<1>1. DataOf(NoAttr) = 0
  BY DEF DataOf, NoAttr
<1>2. (1 .. counter) \ {created[w] : w \in Workers} = {}
  BY DEF Init
<1>3. QED BY <1>1, <1>2 DEF Init, Store!Init

(* A step of the pool is a step of the store or leaves it alone.           *)
LEMMA NextStore == IInv /\ [Next]_vars => [Store!Next]_(Store!vars)
<1> SUFFICES ASSUME IInv, [Next]_vars PROVE [Store!Next]_(Store!vars)
  OBVIOUS
<1>1. IInv'
  BY NextIInv
<1>2. NoDataLost /\ NoDataLost'
  BY <1>1, NothingLost, PTL
<1>3. /\ [s \in Slots |-> DataOf(value[s])] = Content
      /\ [w \in Workers |-> DataOf(held[w])] = InHand
      /\ [s \in Slots |-> DataOf(value[s])]' = Content'
      /\ [w \in Workers |-> DataOf(held[w])]' = InHand'
  BY <1>2 DEF NoDataLost
<1>4. ASSUME Made' = Made, Content' = Content, InHand' = InHand
      PROVE  UNCHANGED Store!vars
  BY <1>3, <1>4 DEF Store!vars, Made
<1>5. ASSUME NEW w \in Workers, Create(w) PROVE UNCHANGED Store!vars
  <2>1. Content' = Content /\ InHand' = InHand
    BY <1>5 DEF Create, Content, InHand
  <2>2. {created'[v] : v \in Workers} \ {0} =
          ({created[v] : v \in Workers} \ {0}) \cup {counter + 1}
    BY <1>5 DEF IInv, TypeOK, Create, FreeHanded
  <2>3. 1 .. counter + 1 = (1 .. counter) \cup {counter + 1}
    BY DEF IInv, TypeOK
  <2>4. Made' = Made
    <3>1. \A i \in 1 .. counter : i # 0 /\ i # counter + 1
      BY DEF IInv, TypeOK
    <3>2. Made' = (1 .. counter + 1) \ {created'[v] : v \in Workers}
      BY <1>5 DEF Made, Create
    <3>3. QED BY <2>2, <2>3, <3>1, <3>2 DEF Made
  <2>5. QED BY <1>4, <2>1, <2>4
<1>6. ASSUME NEW w \in Workers, Insert(w) PROVE Store!Next
  <2>1. created[w] \in Ids /\ created[w] \in 1 .. counter
    BY <1>6, PoolAssumption DEF IInv, TypeOK, CreatedInv, Insert, Ids
  <2>2. {created'[v] : v \in Workers} \ {0} =
          ({created[v] : v \in Workers} \ {0}) \ {created[w]}
    BY <1>6 DEF IInv, TypeOK, CreatedInv, Insert
  <2>3. Made' = Made \cup {created[w]} /\ created[w] \notin Made
    BY <1>6, <2>1, <2>2 DEF Made, Insert
  <2>4. Content' = Content
    BY <1>6 DEF Insert, Content
  <2>5. InHand' = [InHand EXCEPT ![w] = created[w]]
    BY <1>6, AttrKinds DEF IInv, TypeOK, Insert, InHand
  <2>6. InHand[w] = 0
    BY <1>6, AttrIds DEF IInv, TypeOK, CreatedInv, Insert, InHand
  <2>7. PICK d \in Ids : d = created[w]
    BY <2>1
  <2>8. Store!Make(w, d)
    BY <1>3, <2>3, <2>4, <2>5, <2>6, <2>7 DEF Store!Make, Made
  <2>9. QED BY <2>8 DEF Store!Next
<1>7. ASSUME NEW w \in Workers, Forget(w) PROVE Store!Next
  <2>1. Content' = Content /\ Made' = Made
    BY <1>7 DEF Forget, Content, Made
  <2>2. InHand' = [InHand EXCEPT ![w] = 0]
    BY <1>7, AttrIds DEF IInv, TypeOK, Forget, InHand, Attrs
  <2>3. Store!Forget(w)
    BY <1>3, <2>1, <2>2 DEF Store!Forget, Made
  <2>4. QED BY <2>3 DEF Store!Next
<1>8. ASSUME NEW w \in Workers, NEW s \in Slots, SetAttr(w, s)
      PROVE  Store!Next
  <2>1. Made' = Made
    BY <1>8 DEF SetAttr, Made
  <2>2. InHand' = [InHand EXCEPT ![w] = 0] /\ InHand[w] # 0
    BY <1>8, AttrIds DEF IInv, TypeOK, SetAttr, InHand, Attrs
  <2>3. Content' = [Content EXCEPT ![s] = InHand[w]]
    BY <1>8 DEF IInv, TypeOK, SetAttr, Content, InHand
  <2>4. Store!Put(w, s)
    BY <1>3, <2>1, <2>2, <2>3 DEF Store!Put, Made
  <2>5. QED BY <2>4 DEF Store!Next
<1>9. ASSUME NEW w \in Workers, NEW s \in Slots, GetAttr(w, s)
      PROVE  Store!Next
  <2>1. Made' = Made /\ Content' = Content
    BY <1>9 DEF GetAttr, Made, Content
  <2>2. InHand[w] = 0 /\ Content[s] # 0
    BY <1>9, AttrIds DEF IInv, TypeOK, GetAttr, FreeHanded, InHand, Content
  <2>3. InHand' = [InHand EXCEPT ![w] = Content[s]]
    BY <1>9 DEF IInv, TypeOK, GetAttr, InHand, Content
  <2>4. Store!Get(w, s)
    BY <1>3, <2>1, <2>2, <2>3 DEF Store!Get, Made
  <2>5. QED BY <2>4 DEF Store!Next
<1>10. ASSUME NEW s \in Slots, EraseOp(s) PROVE Store!Next
  <2>1. Made' = Made /\ InHand' = InHand
    BY <1>10 DEF EraseOp, Made, InHand
  <2>2. Content' = [Content EXCEPT ![s] = 0]
    BY <1>10, AttrIds DEF IInv, TypeOK, EraseOp, Content, Attrs
  <2>3. Store!Erase(s)
    BY <1>3, <2>1, <2>2 DEF Store!Erase, Made
  <2>4. QED BY <2>3 DEF Store!Next
<1>11. CASE GarbageCollect \/ ScrubBegin
  BY <1>4, <1>11 DEF GarbageCollect, ScrubBegin, Made, Content, InHand
<1>12. ASSUME NEW w \in Workers, FetchBatch(w) \/ ToDense(w) \/ Dispose(w)
       PROVE  UNCHANGED Store!vars
  BY <1>4, <1>12 DEF FetchBatch, ToDense, Dispose, Made, Content, InHand
<1>13. ASSUME NEW closeAfter \in BOOLEAN, ScrubEnd(closeAfter)
       PROVE  UNCHANGED Store!vars
  <2>1. Made' = Made /\ InHand' = InHand
    BY <1>13 DEF ScrubEnd, Made, InHand
  <2>2. Reachable \subseteq dense
    BY <1>13, PoolAssumption DEF IInv, ScrubInv, ScrubEnd
  <2>3. \A s \in Slots : Replaced(value[s]).id = value[s].id
    BY <2>2, AttrKinds DEF IInv, TypeOK, Replaced, Reachable
  <2>4. Content' = Content
    BY <1>13, <2>3 DEF ScrubEnd, Content
  <2>5. QED BY <1>4, <2>1, <2>4
<1>14. CASE UNCHANGED vars
  BY <1>4, <1>14 DEF vars, scrubVars, Made, Content, InHand
<1>15. QED
  BY <1>5, <1>6, <1>7, <1>8, <1>9, <1>10, <1>11, <1>12, <1>13, <1>14
     DEF Next, ScrubStep

(* The pool, with its collector and its scrub, implements the store in which
   constants simply stay what they were made to be.                        *)
THEOREM StoreImplemented == Spec => ImplementsStore
BY Invariance, InitStore, NextStore, PTL DEF Spec, ImplementsStore, Store!Spec
=============================================================================
