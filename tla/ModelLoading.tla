---------------------------- MODULE ModelLoading ----------------------------
(***************************************************************************)
(* Loading and unloading compiled models in one process: the sessions      *)
(* (ExecutionSession.cpp), the dynamic linker's reference counts, and the  *)
(* constants a model maps from its external file when it is loaded         *)
(* (OMExternalConstant.c, called by the constructor and destructor that    *)
(* ConvertKrnlToLLVM emits into every model).                              *)
(*                                                                         *)
(* Each session is driven by a thread of its own.  What the threads share  *)
(* is the environment variable OM_CONSTANT_PATH, the libraries and their   *)
(* constants; every access to one of these is a step.  dlopen with the     *)
(* constructor it runs, and dlclose with the destructor, are one step: the *)
(* linker holds its lock across them, and they read OM_CONSTANT_PATH once. *)
(***************************************************************************)
EXTENDS Integers, FiniteSets

CONSTANTS
  Sessions,   (* The ExecutionSession objects.                             *)
  Models,     (* The compiled models (.so files).                          *)
  Dirs,       (* The directories.                                          *)
  DirOf,      (* The directory of a model and of its constants file.       *)
  FileOf,     (* The name of its constants file, which has no directory.   *)
  Cwd,        (* The directory a file name without a path is opened in.    *)
  Bare,       (* The models that are loaded by a path without a separator. *)
  UserPaths,  (* What OM_CONSTANT_PATH may be before the first load.       *)
  Failures,   (* What may fail, of "dlopen", "dlsym", "entry" and "mmap".  *)
  MaxLoading, (* How many loads the callers let overlap.                   *)
  MaxRefs,    (* Bound: the references to a library that are explored.     *)
  Unset, Null, Garbage

ASSUME LayoutAssumption ==
  /\ DirOf \in [Models -> Dirs]
  /\ DOMAIN FileOf = Models
  /\ \A m, n \in Models :
       DirOf[m] = DirOf[n] /\ FileOf[m] = FileOf[n] => m = n
  /\ Cwd \in Dirs
  /\ Bare \subseteq Models
  /\ \A m \in Bare : DirOf[m] = Cwd

ASSUME ValuesAssumption ==
  /\ Unset \notin Dirs
  /\ Null \notin Models
  /\ Garbage \notin Models \cup {Null}
  /\ UserPaths \subseteq Dirs \cup {Unset}
  /\ MaxRefs \in Nat
  /\ IsFiniteSet(Sessions)

VARIABLES
  OM_CONSTANT_PATH,     (* The environment variable.                       *)
  userPath,             (* Its value before the first load.                *)
  leftSet,              (* A load that had set it was left by a throw.     *)
  refs,                 (* Per model: dlopen calls less dlclose calls.     *)
  packedConst,          (* Per model: whose constants its global points to.*)
  pc,                   (* Per session: where its thread is.               *)
  inCtor,               (* ... it is inside the loading constructor,       *)
  path,                 (* ... the model it was asked to load,             *)
  setOMConstantPath,    (* ... the local of loadModel,                     *)
  _sharedLibraryHandle, (* ... and its members.                            *)
  isInitialized,
  _entryPointFunc

lib == <<refs, packedConst>>
members == <<_sharedLibraryHandle, isInitialized, _entryPointFunc>>
vars == <<OM_CONSTANT_PATH, userPath, leftSet, lib, pc, inCtor, path,
          setOMConstantPath, members>>

Loading == {"getenv", "setenv", "dlopen", "dlsym", "complete"}
PC == Loading \cup {"absent", "idle", "entry"}

(* Every variable has the type the code declares for it.                   *)
TypeOK ==
  /\ OM_CONSTANT_PATH \in Dirs \cup {Unset}
  /\ userPath \in Dirs \cup {Unset}
  /\ leftSet \in BOOLEAN
  /\ refs \in [Models -> Nat]
  /\ packedConst \in [Models -> Models \cup {Null}]
  /\ pc \in [Sessions -> PC]
  /\ inCtor \in [Sessions -> BOOLEAN]
  /\ path \in [Sessions -> Models]
  /\ setOMConstantPath \in [Sessions -> BOOLEAN]
  /\ _sharedLibraryHandle \in [Sessions -> Models \cup {Null, Garbage}]
  /\ isInitialized \in [Sessions -> BOOLEAN]
  /\ _entryPointFunc \in [Sessions -> BOOLEAN]

Init ==
  /\ userPath \in UserPaths
  /\ OM_CONSTANT_PATH = userPath
  /\ leftSet = FALSE
  /\ refs = [m \in Models |-> 0]
  /\ packedConst = [m \in Models |-> Null]
  /\ pc = [s \in Sessions |-> "absent"]
  /\ inCtor = [s \in Sessions |-> FALSE]
  /\ path \in [Sessions -> Models]
  /\ setOMConstantPath = [s \in Sessions |-> FALSE]
  /\ _sharedLibraryHandle = [s \in Sessions |-> Null]
  /\ isInitialized = [s \in Sessions |-> FALSE]
  /\ _entryPointFunc = [s \in Sessions |-> FALSE]

Goto(s, from, to) ==
  /\ pc[s] = from
  /\ pc' = [pc EXCEPT ![s] = to]

-----------------------------------------------------------------------------
(* What the constructor and the destructor in a model do.                  *)

(* omLoadConstantData: whose constants the file opened under base holds.   *)
OpenedConstants(m, base) ==
  LET dir == IF base = Unset THEN Cwd ELSE base
      owners == {n \in Models : DirOf[n] = dir /\ FileOf[n] = FileOf[m]}
  IN  IF owners = {} THEN Null ELSE CHOOSE n \in owners : TRUE

(* omLoadConstantDataCtor: a file that cannot be opened or mapped leaves
   the pointer null, and the load of the library goes on.                  *)
LoadedConstants(m) ==
  {OpenedConstants(m, OM_CONSTANT_PATH)}
    \cup (IF "mmap" \in Failures THEN {Null} ELSE {})

(* dlopen: the constructor runs when the library was not loaded.           *)
OpenLibrary(m) ==
  /\ refs' = [refs EXCEPT ![m] = @ + 1]
  /\ IF refs[m] = 0
     THEN \E c \in LoadedConstants(m) :
            packedConst' = [packedConst EXCEPT ![m] = c]
     ELSE UNCHANGED packedConst

(* dlclose: the last reference runs omUnloadConstantDataDtor, and the
   library's globals go with it.                                           *)
CloseLibrary(m) ==
  /\ refs' = [refs EXCEPT ![m] = @ - 1]
  /\ packedConst' =
       [packedConst EXCEPT ![m] = IF refs[m] = 1 THEN Null ELSE @]

-----------------------------------------------------------------------------
(* The operations of a session.                                            *)

LoadAllowed ==
  Cardinality({s \in Sessions : pc[s] \in Loading}) < MaxLoading

(* ExecutionSession(sharedLibPath, ...): no member that loadModel reads is
   left uninitialised.                                                     *)
Construct(s, m) ==
  /\ LoadAllowed
  /\ Goto(s, "absent", "getenv")
  /\ inCtor' = [inCtor EXCEPT ![s] = TRUE]
  /\ path' = [path EXCEPT ![s] = m]
  /\ UNCHANGED <<OM_CONSTANT_PATH, userPath, leftSet, lib, setOMConstantPath,
                 members>>

(* ExecutionSession(): the handle has no initialiser.                      *)
DefaultConstruct(s) ==
  /\ Goto(s, "absent", "idle")
  /\ \E h \in {Null, Garbage} :
       _sharedLibraryHandle' = [_sharedLibraryHandle EXCEPT ![s] = h]
  /\ UNCHANGED <<OM_CONSTANT_PATH, userPath, leftSet, lib, inCtor, path,
                 setOMConstantPath, isInitialized, _entryPointFunc>>

(* Mutant: loadModel may be called on a session that is initialised.       *)
LoadModelTwice(s, m) ==
  /\ LoadAllowed
  /\ Goto(s, "idle", "getenv")
  /\ path' = [path EXCEPT ![s] = m]
  /\ UNCHANGED <<OM_CONSTANT_PATH, userPath, leftSet, lib, inCtor,
                 setOMConstantPath, members>>

(* loadModel on a session that exists; it throws at once, and changes
   nothing, when the session is initialised.                               *)
LoadModel(s, m) ==
  /\ LoadAllowed
  /\ ~isInitialized[s]
  /\ Goto(s, "idle", "getenv")
  /\ path' = [path EXCEPT ![s] = m]
  /\ UNCHANGED <<OM_CONSTANT_PATH, userPath, leftSet, lib, inCtor,
                 setOMConstantPath, members>>

GetEnv(s) ==
  /\ IF OM_CONSTANT_PATH = Unset /\ path[s] \notin Bare
     THEN Goto(s, "getenv", "setenv")
     ELSE Goto(s, "getenv", "dlopen")
  /\ UNCHANGED <<OM_CONSTANT_PATH, userPath, leftSet, lib, inCtor, path,
                 setOMConstantPath, members>>

(* setenv does not overwrite, and the load takes the variable to be its
   own to unset even when another thread has set it meanwhile.             *)
SetEnv(s) ==
  /\ Goto(s, "setenv", "dlopen")
  /\ OM_CONSTANT_PATH' = IF OM_CONSTANT_PATH = Unset
                         THEN DirOf[path[s]] ELSE OM_CONSTANT_PATH
  /\ setOMConstantPath' = [setOMConstantPath EXCEPT ![s] = TRUE]
  /\ UNCHANGED <<userPath, leftSet, lib, inCtor, path, members>>

DlopenFound(s) ==
  /\ refs[path[s]] < MaxRefs
  /\ Goto(s, "dlopen", "dlsym")
  /\ OpenLibrary(path[s])
  /\ _sharedLibraryHandle' = [_sharedLibraryHandle EXCEPT ![s] = path[s]]
  /\ UNCHANGED <<OM_CONSTANT_PATH, userPath, leftSet, inCtor, path,
                 setOMConstantPath, isInitialized, _entryPointFunc>>

EndOfLoad(s) ==
  /\ \/ Goto(s, "complete", "entry") /\ UNCHANGED inCtor
     \/ /\ Goto(s, "complete", "idle")
        /\ inCtor' = [inCtor EXCEPT ![s] = FALSE]
  /\ setOMConstantPath' = [setOMConstantPath EXCEPT ![s] = FALSE]
  /\ isInitialized' = [isInitialized EXCEPT ![s] = TRUE]
  /\ UNCHANGED <<userPath, leftSet, lib, path, _sharedLibraryHandle,
                 _entryPointFunc>>

(* What a throw leaves behind.  Out of the constructor the object never
   exists and its destructor does not run: a handle it had opened is lost. *)
ThrowFrom(s, label, handle) ==
  /\ Goto(s, label, IF inCtor[s] THEN "absent" ELSE "idle")
  /\ _sharedLibraryHandle' = [_sharedLibraryHandle EXCEPT ![s] =
                                IF inCtor[s] THEN Null ELSE handle]
  /\ isInitialized' = [isInitialized EXCEPT ![s] = @ /\ ~inCtor[s]]
  /\ _entryPointFunc' = [_entryPointFunc EXCEPT ![s] = FALSE]
  /\ inCtor' = [inCtor EXCEPT ![s] = FALSE]
  /\ setOMConstantPath' = [setOMConstantPath EXCEPT ![s] = FALSE]
  /\ UNCHANGED <<OM_CONSTANT_PATH, userPath, path>>

DlopenMissing(s) ==
  /\ "dlopen" \in Failures
  /\ ThrowFrom(s, "dlopen", Null)
  /\ leftSet' = (leftSet \/ setOMConstantPath[s])
  /\ UNCHANGED lib

(* The three functions every model exports.                                *)
DlsymFound(s) ==
  /\ Goto(s, "dlsym", "complete")
  /\ UNCHANGED <<OM_CONSTANT_PATH, userPath, leftSet, lib, inCtor, path,
                 setOMConstantPath, members>>

(* Mutant: the library is closed before the throw, and the handle kept, so
   that the destructor closes it again.                                    *)
DlsymMissingClose(s) ==
  /\ "dlsym" \in Failures
  /\ ThrowFrom(s, "dlsym", _sharedLibraryHandle[s])
  /\ leftSet' = (leftSet \/ setOMConstantPath[s])
  /\ CloseLibrary(_sharedLibraryHandle[s])

DlsymMissing(s) ==
  /\ "dlsym" \in Failures
  /\ ThrowFrom(s, "dlsym", _sharedLibraryHandle[s])
  /\ leftSet' = (leftSet \/ setOMConstantPath[s])
  /\ UNCHANGED lib

(* Mutant: the variable is unset whoever has set it.                       *)
CompleteAlwaysUnsets(s) ==
  /\ EndOfLoad(s)
  /\ OM_CONSTANT_PATH' = Unset

(* Mutant: the variable is not unset.                                      *)
CompleteNeverUnsets(s) == EndOfLoad(s) /\ UNCHANGED OM_CONSTANT_PATH

(* The session is initialised, and the variable unset; the default entry
   point comes next, if it is asked for.                                   *)
Complete(s) ==
  /\ EndOfLoad(s)
  /\ OM_CONSTANT_PATH' = IF setOMConstantPath[s] THEN Unset
                         ELSE OM_CONSTANT_PATH

(* setEntryPoint, from loadModel or called by the user.                    *)
CallSetEntryPoint(s) ==
  /\ isInitialized[s]
  /\ Goto(s, "idle", "entry")
  /\ UNCHANGED <<OM_CONSTANT_PATH, userPath, leftSet, lib, inCtor, path,
                 setOMConstantPath, members>>

EntryFound(s) ==
  /\ Goto(s, "entry", "idle")
  /\ _entryPointFunc' = [_entryPointFunc EXCEPT ![s] = TRUE]
  /\ inCtor' = [inCtor EXCEPT ![s] = FALSE]
  /\ UNCHANGED <<OM_CONSTANT_PATH, userPath, leftSet, lib, path,
                 setOMConstantPath, _sharedLibraryHandle, isInitialized>>

EntryMissing(s) ==
  /\ "entry" \in Failures
  /\ ThrowFrom(s, "entry", _sharedLibraryHandle[s])
  /\ UNCHANGED <<leftSet, lib>>

(* Mutant: the destructor leaves the library open.                         *)
DestroyKeepsOpen(s) ==
  /\ Goto(s, "idle", "absent")
  /\ _sharedLibraryHandle[s] # Garbage
  /\ _sharedLibraryHandle' = [_sharedLibraryHandle EXCEPT ![s] = Null]
  /\ isInitialized' = [isInitialized EXCEPT ![s] = FALSE]
  /\ _entryPointFunc' = [_entryPointFunc EXCEPT ![s] = FALSE]
  /\ UNCHANGED <<OM_CONSTANT_PATH, userPath, leftSet, lib, inCtor, path,
                 setOMConstantPath>>

(* ~ExecutionSession.  A default-constructed session is destroyed only
   after a call of loadModel, which its subclasses make.                   *)
Destroy(s) ==
  /\ Goto(s, "idle", "absent")
  /\ _sharedLibraryHandle[s] # Garbage
  /\ IF _sharedLibraryHandle[s] = Null THEN UNCHANGED lib
     ELSE CloseLibrary(_sharedLibraryHandle[s])
  /\ _sharedLibraryHandle' = [_sharedLibraryHandle EXCEPT ![s] = Null]
  /\ isInitialized' = [isInitialized EXCEPT ![s] = FALSE]
  /\ _entryPointFunc' = [_entryPointFunc EXCEPT ![s] = FALSE]
  /\ UNCHANGED <<OM_CONSTANT_PATH, userPath, leftSet, inCtor, path,
                 setOMConstantPath>>

Next ==
  \E s \in Sessions :
    \/ \E m \in Models : Construct(s, m) \/ LoadModel(s, m)
    \/ DefaultConstruct(s) \/ GetEnv(s) \/ SetEnv(s)
    \/ DlopenFound(s) \/ DlopenMissing(s)
    \/ DlsymFound(s) \/ DlsymMissing(s) \/ Complete(s)
    \/ CallSetEntryPoint(s) \/ EntryFound(s) \/ EntryMissing(s)
    \/ Destroy(s)

Spec == Init /\ [][Next]_vars
-----------------------------------------------------------------------------
Holders(m) == {s \in Sessions : _sharedLibraryHandle[s] = m}

(* A session never holds the handle of a library that is no longer mapped:
   whatever loads fail or are retried, the destructors of other sessions
   have not closed more than was opened.                                   *)
LibraryMapped == \A m \in Models : refs[m] >= Cardinality(Holders(m))

(* When no load is left by a throw, every reference belongs to a live
   session, so a model and its constants are gone once the last session
   that uses it is destroyed (~ExecutionSession).                          *)
LibraryReleased == \A m \in Models : refs[m] = Cardinality(Holders(m))

(* "Execution session must be initialized once at most": until it is
   destroyed, an initialised session keeps the library it was given.       *)
SessionKeepsLibrary ==
  [][\A s \in Sessions :
       isInitialized[s] /\ pc'[s] # "absent"
         => /\ isInitialized'[s]
            /\ _sharedLibraryHandle'[s] = _sharedLibraryHandle[s]]_vars

(* loadModel never changes an OM_CONSTANT_PATH that the user has set,
   whichever way overlapping loads interleave their getenv and setenv.     *)
UserPathKept == userPath # Unset => OM_CONSTANT_PATH = userPath

(* Overlapping loads leave OM_CONSTANT_PATH unset once they are over, unless
   one that had set it was left by a throw.                                *)
PathLeftOnlyByThrow ==
  (/\ userPath = Unset
   /\ ~leftSet
   /\ \A s \in Sessions : pc[s] \notin {"dlopen", "dlsym", "complete"})
  => OM_CONSTANT_PATH = Unset

(* "Unset OM_CONSTANT_PATH to avoid conflict with the load of another
   model": a session that is initialised runs with the constants of its own
   model, which are in the directory of the model.                         *)
OwnConstants ==
  \A s \in Sessions :
    isInitialized[s] =>
      packedConst[_sharedLibraryHandle[s]] = _sharedLibraryHandle[s]
=============================================================================
