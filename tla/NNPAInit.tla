------------------------------ MODULE NNPAInit ------------------------------
(***************************************************************************)
(* Initialisation and shutdown of the NNPA accelerator, as the inference   *)
(* threads of one process see it (OMRuntimeNNPA.c).                        *)
(*                                                                         *)
(* OMInitAccelNNPA and OMInitCompatibleAccelNNPA are double-checked        *)
(* locking: the flag is read without the mutex, and again once it is held. *)
(* zdnnx_init begins and ends in different steps.  Taking the mutex is one *)
(* step with the first access made under it; every other access to a       *)
(* variable that is read without the mutex is a step of its own.  Memory   *)
(* is sequentially consistent, as the code's comments require of Z.        *)
(***************************************************************************)
EXTENDS Integers, FiniteSets

CONSTANTS
  Threads,   (* The threads that run compiled models.                      *)
  Versions,  (* The NNPA levels the models were compiled for.              *)
  Runnable   (* The levels zdnn_is_version_runnable accepts.               *)

ASSUME RunnableAssumption == Runnable \subseteq Versions

VARIABLES
  OMIsInitAccelNNPA, (* The flag that is read without the mutex.           *)
  mutex,             (* The holder of OMMutexForInitShutdownNNPA, as a set.*)
  isCompatible,      (* The static of OMInitCompatibleAccelNNPA.           *)
  device,            (* What zdnnx_init did: "off", "starting", "ready".   *)
  inits,             (* The zdnnx_init calls since the last shutdown.      *)
  pc, op, version    (* Per thread: where it is, in which function, and    *)
                     (* for which level.                                   *)

vars == <<OMIsInitAccelNNPA, mutex, isCompatible, device, inits, pc, op,
          version>>

PC == {"idle", "lock", "initBegin", "initEnd", "setFlag", "unlock",
       "readCompatible", "lockAgain", "unlockAgain", "readAgain", "refused",
       "using", "shutLock", "shutUnlock"}

(* Every variable has the type the code declares for it.                   *)
TypeOK ==
  /\ OMIsInitAccelNNPA \in {0, 1}
  /\ mutex \in SUBSET Threads
  /\ isCompatible \in {0, 1}
  /\ device \in {"off", "starting", "ready"}
  /\ inits \in Nat
  /\ pc \in [Threads -> PC]
  /\ op \in [Threads -> {"init", "compat", "shutdown"}]
  /\ version \in [Threads -> Versions]

Init ==
  /\ OMIsInitAccelNNPA = 0
  /\ mutex = {}
  /\ isCompatible = 0
  /\ device = "off"
  /\ inits = 0
  /\ pc = [t \in Threads |-> "idle"]
  /\ op = [t \in Threads |-> "init"]
  /\ version \in [Threads -> Versions]

Goto(t, from, to) ==
  /\ pc[t] = from
  /\ pc' = [pc EXCEPT ![t] = to]

Acquire(t) == mutex = {} /\ mutex' = {t}

Release(t) == mutex' = mutex \ {t}

(* OMInitAccelNNPA returns nothing; OMInitCompatibleAccelNNPA goes on to
   its compatibility test.                                                 *)
AfterInit(t) == IF op[t] = "compat" THEN "readCompatible" ELSE "using"

-----------------------------------------------------------------------------
(* OMInitAccelNNPA (o = "init") and OMInitCompatibleAccelNNPA ("compat").
   The caller keeps to the interface: no initialisation or use overlaps a
   shutdown.                                                               *)

Call(t, o, v) ==
  /\ pc[t] = "idle"
  /\ \A u \in Threads : pc[u] \notin {"shutLock", "shutUnlock"}
  /\ op' = [op EXCEPT ![t] = o]
  /\ version' = [version EXCEPT ![t] = v]
  /\ pc' = [pc EXCEPT ![t] =
              IF OMIsInitAccelNNPA = 0 THEN "lock"
              ELSE IF o = "compat" THEN "readCompatible" ELSE "using"]
  /\ UNCHANGED <<OMIsInitAccelNNPA, mutex, isCompatible, device, inits>>

(* Mutant: the second test is dropped.                                     *)
LockNoTest(t) ==
  /\ Acquire(t)
  /\ Goto(t, "lock", "initBegin")
  /\ UNCHANGED <<OMIsInitAccelNNPA, isCompatible, device, inits, op, version>>

(* Mutant: an early return keeps the mutex when the second test fails.     *)
LockEarlyReturn(t) ==
  /\ Acquire(t)
  /\ Goto(t, "lock",
          IF OMIsInitAccelNNPA = 0 THEN "initBegin" ELSE AfterInit(t))
  /\ UNCHANGED <<OMIsInitAccelNNPA, isCompatible, device, inits, op, version>>

(* The second test.  OMInitCompatibleAccelNNPA sets the flag on both
   branches, OMInitAccelNNPA only once it has initialised.                 *)
LockAndTest(t) ==
  /\ Acquire(t)
  /\ \/ OMIsInitAccelNNPA = 0 /\ Goto(t, "lock", "initBegin")
     \/ /\ OMIsInitAccelNNPA = 1 /\ op[t] = "compat"
        /\ Goto(t, "lock", "setFlag")
     \/ OMIsInitAccelNNPA = 1 /\ op[t] = "init" /\ Goto(t, "lock", "unlock")
  /\ UNCHANGED <<OMIsInitAccelNNPA, isCompatible, device, inits, op, version>>

(* Mutant: the flag is set before zdnnx_init, not after it.                *)
FlagBeforeInit(t) ==
  /\ Goto(t, "initBegin", "initEnd")
  /\ device' = "starting"
  /\ inits' = inits + 1
  /\ OMIsInitAccelNNPA' = 1
  /\ UNCHANGED <<mutex, isCompatible, op, version>>

ZdnnxInitBegin(t) ==
  /\ Goto(t, "initBegin", "initEnd")
  /\ device' = "starting"
  /\ inits' = inits + 1
  /\ UNCHANGED <<OMIsInitAccelNNPA, mutex, isCompatible, op, version>>

(* zdnnx_init returns; OMInitCompatibleAccelNNPA looks its level up.       *)
ZdnnxInitEnd(t) ==
  /\ Goto(t, "initEnd", "setFlag")
  /\ device' = "ready"
  /\ isCompatible' = IF op[t] = "compat" /\ version[t] \in Runnable
                     THEN 1 ELSE isCompatible
  /\ UNCHANGED <<OMIsInitAccelNNPA, mutex, inits, op, version>>

SetFlag(t) ==
  /\ Goto(t, "setFlag", "unlock")
  /\ OMIsInitAccelNNPA' = 1
  /\ UNCHANGED <<mutex, isCompatible, device, inits, op, version>>

Unlock(t) ==
  /\ Goto(t, "unlock", AfterInit(t))
  /\ Release(t)
  /\ UNCHANGED <<OMIsInitAccelNNPA, isCompatible, device, inits, op, version>>

(* Mutant: the level is not looked up again.                               *)
RefuseAtOnce(t) ==
  /\ \/ isCompatible = 1 /\ Goto(t, "readCompatible", "using")
     \/ isCompatible = 0 /\ Goto(t, "readCompatible", "refused")
  /\ UNCHANGED <<OMIsInitAccelNNPA, mutex, isCompatible, device, inits, op,
                 version>>

(* isCompatible is read without the mutex; a level that is not known to be
   runnable is looked up again under it, and the answer read without it.   *)
ReadCompatible(t) ==
  /\ \/ isCompatible = 1 /\ Goto(t, "readCompatible", "using")
     \/ isCompatible = 0 /\ Goto(t, "readCompatible", "lockAgain")
  /\ UNCHANGED <<OMIsInitAccelNNPA, mutex, isCompatible, device, inits, op,
                 version>>

LockAndCheckAgain(t) ==
  /\ Goto(t, "lockAgain", "unlockAgain")
  /\ Acquire(t)
  /\ isCompatible' = IF version[t] \in Runnable THEN 1 ELSE isCompatible
  /\ UNCHANGED <<OMIsInitAccelNNPA, device, inits, op, version>>

UnlockAgain(t) ==
  /\ Goto(t, "unlockAgain", "readAgain")
  /\ Release(t)
  /\ UNCHANGED <<OMIsInitAccelNNPA, isCompatible, device, inits, op, version>>

ReadAgain(t) ==
  /\ \/ isCompatible = 1 /\ Goto(t, "readAgain", "using")
     \/ isCompatible = 0 /\ Goto(t, "readAgain", "refused")
  /\ UNCHANGED <<OMIsInitAccelNNPA, mutex, isCompatible, device, inits, op,
                 version>>

(* The entry point returns, having used the accelerator, or with errno set
   to EPERM and no result.                                                 *)
Return(t) ==
  /\ Goto(t, "using", "idle") \/ Goto(t, "refused", "idle")
  /\ UNCHANGED <<OMIsInitAccelNNPA, mutex, isCompatible, device, inits, op,
                 version>>

-----------------------------------------------------------------------------
(* OMShutdownAccelNNPA, called as its interface says: only "when provably
   no threads are using the accelerator".                                  *)

CallShutdown(t) ==
  /\ \A u \in Threads : pc[u] \in {"idle", "shutLock", "shutUnlock"}
  /\ OMIsInitAccelNNPA = 1
  /\ Goto(t, "idle", "shutLock")
  /\ op' = [op EXCEPT ![t] = "shutdown"]
  /\ UNCHANGED <<OMIsInitAccelNNPA, mutex, isCompatible, device, inits,
                 version>>

(* Mutant: the flag is counted down, not cleared.                          *)
ShutLockAndDecrement(t) ==
  /\ Goto(t, "shutLock", "shutUnlock")
  /\ Acquire(t)
  /\ OMIsInitAccelNNPA' = OMIsInitAccelNNPA - 1
  /\ inits' = 0
  /\ UNCHANGED <<isCompatible, device, op, version>>

(* There is no zdnn shutdown call: the device is left as it is.            *)
ShutLockAndClear(t) ==
  /\ Goto(t, "shutLock", "shutUnlock")
  /\ Acquire(t)
  /\ OMIsInitAccelNNPA' = 0
  /\ inits' = 0
  /\ UNCHANGED <<isCompatible, device, op, version>>

ShutUnlock(t) ==
  /\ Goto(t, "shutUnlock", "idle")
  /\ Release(t)
  /\ UNCHANGED <<OMIsInitAccelNNPA, isCompatible, device, inits, op, version>>

-----------------------------------------------------------------------------
Step(t) ==
  \/ LockAndTest(t) \/ ZdnnxInitBegin(t) \/ ZdnnxInitEnd(t) \/ SetFlag(t)
  \/ Unlock(t) \/ ReadCompatible(t) \/ LockAndCheckAgain(t) \/ UnlockAgain(t)
  \/ ReadAgain(t) \/ ShutLockAndClear(t) \/ ShutUnlock(t)

Next ==
  \E t \in Threads :
    \/ \E v \in Versions : Call(t, "compat", v)
    \/ Call(t, "init", version[t])
    \/ Return(t)
    \/ CallShutdown(t)
    \/ Step(t)

(* A thread inside one of the functions is scheduled again: it runs on, or
   takes the mutex when it is free.  Nothing is assumed of the order in
   which waiting threads get the mutex.                                    *)
Fairness == \A t \in Threads : WF_vars(Step(t))

Spec == Init /\ [][Next]_vars

FairSpec == Spec /\ Fairness

-----------------------------------------------------------------------------
(* OMInitAccelNNPA "guarantee[s] that the initializing code is executed
   exactly once": between two shutdowns zdnnx_init runs at most once however
   the threads interleave, and the flag says so.                           *)
InitExactlyOnce ==
  /\ inits <= 1
  /\ OMIsInitAccelNNPA = 1 => inits = 1

(* No thread uses the accelerator before zdnnx_init has returned: the flag
   it may have read without the mutex is set only once others "are
   guaranteed to see the full effects of the zdnnx_init".                  *)
UsersSeeReadyDevice ==
  \A t \in Threads :
    pc[t] \in {"readCompatible", "lockAgain", "readAgain", "using"}
      => device = "ready" /\ OMIsInitAccelNNPA = 1

(* A model is refused only if its own level is not runnable, whatever the
   other threads asked for and however their writes of isCompatible, which
   is read without the mutex, interleave with its own.                     *)
RefusalJustified ==
  \A t \in Threads : pc[t] = "refused" => version[t] \notin Runnable

(* Whoever takes the mutex gives it back, so no thread waits on a holder
   that is gone.                                                           *)
MutexReleased ==
  \A t \in Threads : (t \in mutex) ~> (t \notin mutex)
=============================================================================
