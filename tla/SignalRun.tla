----------------------------- MODULE SignalRun -----------------------------
(***************************************************************************)
(* A run of a model under signal handlers: runDebug(input, true) and the   *)
(* signal part of ExecutionSession.cpp, with the process's signal          *)
(* dispositions and the thread's signal mask.                              *)
(*                                                                         *)
(* The documentation calls the mode not thread-safe, so one thread makes   *)
(* all the runs; faults are raised by the inference itself.                *)
(***************************************************************************)
EXTENDS Naturals

CONSTANTS
  UserHandlers,   (* The dispositions the application installs.            *)
  signalHandler,  (* ExecutionSession::signalHandler.                      *)
  Platforms       (* Whether setjmp and longjmp restore the signal mask:   *)
                  (* TRUE is macOS, where they do, FALSE is Linux.         *)

ASSUME HandlerAssumption ==
  /\ signalHandler \notin UserHandlers
  /\ UserHandlers # {}
  /\ Platforms \subseteq BOOLEAN
  /\ Platforms # {}

Signals == {"SIGSEGV", "SIGBUS", "SIGFPE", "SIGILL", "SIGABRT"}
Locals == {"oldSigsegv", "oldSigbus", "oldSigfpe", "oldSigill"}
Dispositions == UserHandlers \cup {signalHandler}

VARIABLES
  action,      (* The disposition of each signal.                          *)
  userAction,  (* The disposition the application asked for.               *)
  old,         (* The locals of runWithSignalHandler.                      *)
  blocked,     (* The thread's signal mask.                                *)
  signalNumber,(* The static the handler writes; 0 is "none".              *)
  errno,       (* What the exception of a run reports: a signal or "none". *)
  pc,          (* "idle", "guarded", "jumped" or "killed".                 *)
  savesMask,   (* The platform the process runs on; no step changes it.    *)
  thrown       (* History: the signals earlier runs threw as exceptions.   *)

vars == <<action, userAction, old, blocked, signalNumber, errno, pc,
          savesMask, thrown>>

(* Every variable has the type the code declares for it.                   *)
TypeOK ==
  /\ action \in [Signals -> Dispositions]
  /\ userAction \in [Signals -> UserHandlers]
  /\ old \in [Locals -> Dispositions]
  /\ blocked \subseteq Signals
  /\ signalNumber \in Signals \cup {"none"}
  /\ errno \in Signals \cup {"none"}
  /\ pc \in {"idle", "guarded", "jumped", "killed"}
  /\ savesMask \in Platforms
  /\ thrown \subseteq Signals

Init ==
  /\ userAction \in [Signals -> UserHandlers]
  /\ action = userAction
  /\ \E h \in UserHandlers : old = [l \in Locals |-> h]
  /\ blocked = {}
  /\ signalNumber = "none"
  /\ errno = "none"
  /\ pc = "idle"
  /\ savesMask \in Platforms
  /\ thrown = {}

(* The application changes a disposition of its own, between runs.         *)
Sigaction(sig, h) ==
  /\ pc = "idle"
  /\ userAction' = [userAction EXCEPT ![sig] = h]
  /\ action' = [action EXCEPT ![sig] = h]
  /\ UNCHANGED <<old, blocked, signalNumber, errno, pc, savesMask, thrown>>

(* runWithSignalHandler up to setjmp: the five sigaction calls, the fifth
   of which saves SIGABRT's disposition over SIGILL's.                     *)
Install ==
  /\ pc = "idle"
  /\ action' = [sig \in Signals |-> signalHandler]
  /\ old' = [oldSigsegv |-> action["SIGSEGV"], oldSigbus |-> action["SIGBUS"],
             oldSigfpe |-> action["SIGFPE"], oldSigill |-> action["SIGABRT"]]
  /\ signalNumber' = "none"
  /\ errno' = "none"
  /\ pc' = "guarded"
  /\ UNCHANGED <<userAction, blocked, savesMask, thrown>>

(* The sigaction calls that both paths make.                               *)
Restored ==
  [action EXCEPT !["SIGSEGV"] = old["oldSigsegv"],
                 !["SIGBUS"] = old["oldSigbus"],
                 !["SIGFPE"] = old["oldSigfpe"],
                 !["SIGILL"] = old["oldSigill"]]

(* The inference returns, with an output or with null.                     *)
ReturnGuarded ==
  /\ pc = "guarded"
  /\ action' = [Restored EXCEPT !["SIGABRT"] = old["oldSigill"]]
  /\ pc' = "idle"
  /\ UNCHANGED <<userAction, old, blocked, signalNumber, errno,
                 savesMask, thrown>>

(* Mutant: sa_mask is filled, so a handler blocks every signal.            *)
FaultFillsMask(sig) ==
  /\ pc = "guarded"
  /\ IF action[sig] = signalHandler /\ (sig \notin blocked \/ sig = "SIGABRT")
     THEN /\ pc' = "jumped"
          /\ signalNumber' = sig
          /\ blocked' = IF savesMask THEN blocked ELSE Signals
     ELSE pc' = "killed" /\ UNCHANGED <<signalNumber, blocked>>
  /\ UNCHANGED <<action, userAction, old, errno, savesMask, thrown>>

(* A fault finds signalHandler, which jumps to runWithSignalHandler.  The
   signal is blocked while its handler runs, and still after the jump when
   longjmp does not restore the mask.  abort unblocks SIGABRT; any other
   fault whose signal is blocked ends the process.                         *)
Fault(sig) ==
  /\ pc = "guarded"
  /\ IF action[sig] = signalHandler /\ (sig \notin blocked \/ sig = "SIGABRT")
     THEN /\ pc' = "jumped"
          /\ signalNumber' = sig
          /\ blocked' = IF savesMask THEN blocked
                        ELSE blocked \cup {sig}
     ELSE pc' = "killed" /\ UNCHANGED <<signalNumber, blocked>>
  /\ UNCHANGED <<action, userAction, old, errno, savesMask, thrown>>

(* Mutant: the path of the signal restores no handler.                     *)
RethrowOnly ==
  /\ pc = "jumped"
  /\ errno' = signalNumber
  /\ pc' = "idle"
  /\ thrown' = thrown \cup {signalNumber}
  /\ UNCHANGED <<action, userAction, old, blocked, signalNumber, savesMask>>

(* The second return of setjmp: four handlers are restored, SIGABRT's is
   not, and the signal is thrown as an exception.                          *)
RestoreAndThrow ==
  /\ pc = "jumped"
  /\ action' = Restored
  /\ errno' = signalNumber
  /\ pc' = "idle"
  /\ thrown' = thrown \cup {signalNumber}
  /\ UNCHANGED <<userAction, old, blocked, signalNumber, savesMask>>

Next ==
  \/ \E sig \in Signals, h \in UserHandlers : Sigaction(sig, h)
  \/ Install
  \/ ReturnGuarded
  \/ \E sig \in Signals : Fault(sig)
  \/ RestoreAndThrow

Spec == Init /\ [][Next]_vars
-----------------------------------------------------------------------------
(* "The code will catch such signals and throw exceptions": over any number
   of runs, what signalHandler and runWithSignalHandler keep of that.  A fault
   in a guarded run ends the process only where longjmp leaves the mask alone,
   and there only when an earlier run threw the same signal, which is then
   still blocked; an abort is thrown every time.                           *)
OnlyRepeatsKill ==
  [][\A sig \in Signals :
       Fault(sig) /\ pc' = "killed" =>
         /\ ~savesMask
         /\ sig \in thrown
         /\ sig # "SIGABRT"]_vars

(* Between runs, whatever the earlier runs returned or threw, SIGSEGV,
   SIGBUS and SIGFPE have the application's own dispositions.              *)
FaultHandlersRestored ==
  pc = "idle" => \A sig \in {"SIGSEGV", "SIGBUS", "SIGFPE"} :
                   action[sig] = userAction[sig]
=============================================================================
