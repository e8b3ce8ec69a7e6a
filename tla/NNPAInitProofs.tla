--------------------------- MODULE NNPAInitProofs ---------------------------
(***************************************************************************)
(* Proofs about NNPAInit, for every set of threads and of levels.          *)
(***************************************************************************)
EXTENDS NNPAInit, TLAPS

Holding == {"initBegin", "initEnd", "setFlag", "unlock", "unlockAgain",
            "shutUnlock"}

Ready == {"readCompatible", "lockAgain", "unlockAgain", "readAgain",
          "refused", "using"}

(* The mutex excludes: the holder is the one thread in a locked section.   *)
MutexInv ==
  /\ \A t \in Threads : pc[t] \in Holding <=> t \in mutex
  /\ \A t, u \in mutex : t = u

(* How far the one initialisation has got, told from where its thread is.  *)
ProgressInv ==
  /\ OMIsInitAccelNNPA = 1 => inits = 1 /\ device = "ready"
  /\ OMIsInitAccelNNPA = 0 =>
       inits = 0 \/ \E t \in Threads : pc[t] \in {"initEnd", "setFlag"}
  /\ \A t \in Threads :
       /\ pc[t] = "initBegin" => OMIsInitAccelNNPA = 0 /\ inits = 0
       /\ pc[t] = "initEnd" => OMIsInitAccelNNPA = 0 /\ inits = 1
       /\ pc[t] = "setFlag" => device = "ready" /\ inits = 1
       /\ pc[t] = "unlock" => OMIsInitAccelNNPA = 1
       /\ pc[t] \in Ready => OMIsInitAccelNNPA = 1

(* While a thread shuts down, the others are idle or shut down too.        *)
ShutdownInv ==
  \A t, u \in Threads :
    pc[t] \in {"shutLock", "shutUnlock"} =>
      pc[u] \in {"idle", "shutLock", "shutUnlock"}

(* A thread whose level is runnable, past the second look-up, reads 1.     *)
LookupInv ==
  \A t \in Threads :
    /\ pc[t] \in {"unlockAgain", "readAgain"} /\ version[t] \in Runnable
         => isCompatible = 1
    /\ pc[t] = "refused" => version[t] \notin Runnable

(* The inductive invariant.                                                *)
IInv == TypeOK /\ MutexInv /\ ProgressInv /\ ShutdownInv /\ LookupInv

-----------------------------------------------------------------------------
(* The initial states satisfy the inductive invariant.                     *)
LEMMA InitIInv == Init => IInv
  BY DEF Init, IInv, TypeOK, MutexInv, ProgressInv, ShutdownInv, LookupInv,
         PC, Holding, Ready

(* Every step of a thread preserves it.                                    *)
LEMMA NextIInv == IInv /\ [Next]_vars => IInv'
<1> SUFFICES ASSUME IInv, [Next]_vars PROVE IInv'
  OBVIOUS
<1> USE RunnableAssumption
    DEF IInv, TypeOK, MutexInv, ProgressInv, ShutdownInv, LookupInv, PC,
        Holding, Ready, Goto, Acquire, Release, AfterInit
<1>1. ASSUME NEW t \in Threads, NEW o \in {"init", "compat"},
             NEW v \in Versions, Call(t, o, v)
      PROVE  IInv'
  BY <1>1 DEF Call
<1>2. ASSUME NEW t \in Threads, LockAndTest(t) PROVE IInv'
  BY <1>2 DEF LockAndTest
<1>3. ASSUME NEW t \in Threads, ZdnnxInitBegin(t) PROVE IInv'
  BY <1>3 DEF ZdnnxInitBegin
<1>4. ASSUME NEW t \in Threads, ZdnnxInitEnd(t) PROVE IInv'
  BY <1>4 DEF ZdnnxInitEnd
<1>5. ASSUME NEW t \in Threads, SetFlag(t) PROVE IInv'
  BY <1>5 DEF SetFlag
<1>6. ASSUME NEW t \in Threads, Unlock(t) PROVE IInv'
  BY <1>6 DEF Unlock
<1>7. ASSUME NEW t \in Threads, ReadCompatible(t) PROVE IInv'
  BY <1>7 DEF ReadCompatible
<1>8. ASSUME NEW t \in Threads, LockAndCheckAgain(t) PROVE IInv'
  BY <1>8 DEF LockAndCheckAgain
<1>9. ASSUME NEW t \in Threads, UnlockAgain(t) PROVE IInv'
  BY <1>9 DEF UnlockAgain
<1>10. ASSUME NEW t \in Threads, ReadAgain(t) PROVE IInv'
  BY <1>10 DEF ReadAgain
<1>11. ASSUME NEW t \in Threads, Return(t) PROVE IInv'
  BY <1>11 DEF Return
<1>12. ASSUME NEW t \in Threads, CallShutdown(t) PROVE IInv'
  BY <1>12 DEF CallShutdown
<1>13. ASSUME NEW t \in Threads, ShutLockAndClear(t) PROVE IInv'
  BY <1>13 DEF ShutLockAndClear
<1>14. ASSUME NEW t \in Threads, ShutUnlock(t) PROVE IInv'
  BY <1>14 DEF ShutUnlock
<1>15. CASE UNCHANGED vars
  BY <1>15 DEF vars
<1>16. QED
  BY <1>1, <1>2, <1>3, <1>4, <1>5, <1>6, <1>7, <1>8,
     <1>9, <1>10, <1>11, <1>12, <1>13, <1>14, <1>15
     DEF Next, Step

(* The variables keep their types in every behaviour.                      *)
THEOREM TypeCorrect == Spec => []TypeOK
<1>1. IInv => TypeOK
  BY DEF IInv
<1>2. QED
  BY InitIInv, NextIInv, <1>1, PTL DEF Spec

(* Between two shutdowns zdnnx_init runs at most once, and exactly once when
   the flag is set, for any number of threads.                             *)
THEOREM InitOnce == Spec => []InitExactlyOnce
<1>1. IInv => InitExactlyOnce
  <2> SUFFICES ASSUME IInv PROVE InitExactlyOnce
    OBVIOUS
  <2>1. CASE OMIsInitAccelNNPA = 1
    BY <2>1 DEF IInv, ProgressInv, InitExactlyOnce
  <2>2. CASE OMIsInitAccelNNPA = 0
    BY <2>2 DEF IInv, ProgressInv, InitExactlyOnce
  <2>3. QED
    BY <2>1, <2>2 DEF IInv, TypeOK
<1>2. QED
  BY InitIInv, NextIInv, <1>1, PTL DEF Spec

(* No thread reaches the accelerator before zdnnx_init has returned.       *)
THEOREM DeviceReady == Spec => []UsersSeeReadyDevice
<1>1. IInv => UsersSeeReadyDevice
  BY DEF IInv, ProgressInv, Ready, UsersSeeReadyDevice
<1>2. QED
  BY InitIInv, NextIInv, <1>1, PTL DEF Spec

(* A model is refused only if its own level is not runnable.               *)
THEOREM Refusal == Spec => []RefusalJustified
<1>1. IInv => RefusalJustified
  BY DEF IInv, LookupInv, RefusalJustified
<1>2. QED
  BY InitIInv, NextIInv, <1>1, PTL DEF Spec
=============================================================================
