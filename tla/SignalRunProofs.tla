-------------------------- MODULE SignalRunProofs --------------------------
(***************************************************************************)
(* Proofs about SignalRun: for any set of application handlers, on macOS   *)
(* and on Linux.                                                           *)
(***************************************************************************)
EXTENDS SignalRun, TLAPS

(* During a guarded run the three locals hold the application's own
   dispositions, and after a jump signalNumber is a signal.                *)
SavedInv ==
  pc \in {"guarded", "jumped"} =>
    /\ old["oldSigsegv"] = userAction["SIGSEGV"]
    /\ old["oldSigbus"] = userAction["SIGBUS"]
    /\ old["oldSigfpe"] = userAction["SIGFPE"]
    /\ pc = "jumped" => signalNumber \in Signals

IInv == TypeOK /\ SavedInv /\ FaultHandlersRestored

(* Before the first run the handlers are the user's.                       *)
LEMMA InitIInv == Init => IInv
BY DEF Init, IInv, TypeOK, SavedInv, FaultHandlersRestored, Dispositions,
       Signals, Locals

(* Every action keeps the invariant.                                       *)
LEMMA NextIInv == IInv /\ [Next]_vars => IInv'
<1> SUFFICES ASSUME IInv, [Next]_vars PROVE IInv'
  OBVIOUS
<1> USE DEF IInv, TypeOK, SavedInv, FaultHandlersRestored, Dispositions,
            Signals, Locals
<1>1. CASE \E sig \in Signals, h \in UserHandlers : Sigaction(sig, h)
  BY <1>1 DEF Sigaction
<1>2. CASE Install
  BY <1>2 DEF Install
<1>3. CASE ReturnGuarded
  BY <1>3 DEF ReturnGuarded, Restored
<1>4. CASE \E sig \in Signals : Fault(sig)
  BY <1>4 DEF Fault
<1>5. CASE RestoreAndThrow
  BY <1>5 DEF RestoreAndThrow, Restored
<1>6. CASE UNCHANGED vars
  BY <1>6 DEF vars
<1>7. QED BY <1>1, <1>2, <1>3, <1>4, <1>5, <1>6 DEF Next

(* The application's SIGSEGV, SIGBUS and SIGFPE handlers are back after every
   run of runWithSignalHandler, whatever handlers they are.                *)
THEOREM FaultHandlersSafe == Spec => []FaultHandlersRestored
<1>1. IInv => FaultHandlersRestored
  BY DEF IInv
<1>2. QED BY InitIInv, NextIInv, <1>1, PTL DEF Spec

(* What decides whether a fault is caught: in a guarded run every signal has
   signalHandler; a signal is left blocked only by a run that threw it, and
   nowhere if longjmp restores the mask.  After the jump the signal of the
   run itself is blocked before it is thrown.                              *)
MaskInv ==
  /\ pc = "guarded" => \A sig \in Signals : action[sig] = signalHandler
  /\ pc # "jumped" => blocked \subseteq thrown
  /\ pc = "jumped" => blocked \subseteq thrown \cup {signalNumber}
  /\ savesMask => blocked = {}

(* Every action keeps the invariant of the mask.                           *)
LEMMA NextMaskInv == MaskInv /\ [Next]_vars => MaskInv'
<1> SUFFICES ASSUME MaskInv, [Next]_vars PROVE MaskInv'
  OBVIOUS
<1> USE DEF MaskInv
<1>1. CASE \E sig \in Signals, h \in UserHandlers : Sigaction(sig, h)
  BY <1>1 DEF Sigaction
<1>2. CASE Install
  BY <1>2 DEF Install
<1>3. CASE ReturnGuarded
  BY <1>3 DEF ReturnGuarded
<1>4. CASE \E sig \in Signals : Fault(sig)
  BY <1>4 DEF Fault
<1>5. CASE RestoreAndThrow
  BY <1>5 DEF RestoreAndThrow
<1>6. CASE UNCHANGED vars
  BY <1>6 DEF vars
<1>7. QED BY <1>1, <1>2, <1>3, <1>4, <1>5, <1>6 DEF Next

(* Whatever handlers the application has, and on either platform, the only
   fault that ends a process in runWithSignalHandler is, on Linux, the
   repeat of a signal other than SIGABRT that an earlier run threw.        *)
THEOREM OnlyRepeatsAreFatal == Spec => OnlyRepeatsKill
<1>1. Init => MaskInv
  BY DEF Init, MaskInv
<1>2. MaskInv /\ [Next]_vars =>
        [\A sig \in Signals :
           Fault(sig) /\ pc' = "killed" =>
             /\ ~savesMask
             /\ sig \in thrown
             /\ sig # "SIGABRT"]_vars
  BY DEF MaskInv, Fault
<1>3. QED BY <1>1, <1>2, NextMaskInv, PTL DEF Spec, OnlyRepeatsKill
=============================================================================
