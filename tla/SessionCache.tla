---------------------------- MODULE SessionCache ----------------------------
(***************************************************************************)
(* The cache of compiled sessions behind torch.compile: sessioncache.py    *)
(* and the part of backend.py that uses it.                                *)
(*                                                                         *)
(* Each process has a cache in memory; all of them share the cache folder. *)
(* A process serves one call of the compiled function at a time, with a    *)
(* TorchONNXMLIR object of its own.  A file in the folder is written in    *)
(* place: it is "partial" from the time it is opened for writing until all *)
(* that write it have closed it.  A process may be killed at any step.     *)
(***************************************************************************)
EXTENDS Naturals, FiniteSets, SequencesExt

CONSTANTS
  Processes,   (* The processes that share TORCHONNXMLIR_CACHE_DIR.        *)
  Keys,        (* The hash keys of the graphs.                             *)
  Compilable,  (* Those that torch.onnx.export and onnx-mlir accept.       *)
  NoInputs,    (* Those without a tensor input.                            *)
  capacity,    (* config.session_cache_limit.                              *)
  MaxCrashes   (* Bound: how many times a process is killed.               *)

ASSUME CacheAssumption ==
  /\ Compilable \subseteq Keys
  /\ NoInputs \subseteq Keys
  /\ capacity \in Nat \ {0}
  /\ MaxCrashes \in Nat

(* What write_to_disk writes: the .so file, its .constants.bin and
   om_backend_config.json.                                                 *)
Compiled == {"so", "constants"}
Files == Compiled \cup {"config"}

(* A CacheValue: whether its session has the constants of the model, and
   the indices it has.                                                     *)
Value(constants, indices) == [constants |-> constants, indices |-> indices]

VARIABLES
  disk,         (* Per key and file: "absent", "partial" or "whole".       *)
  cache,        (* Per process: the dict, a function on the cached keys,   *)
  access_order, (* ... the list,                                           *)
  global_uncompilable_graphs,
  pc, key,      (* ... where its call is, and for which graph,             *)
  sess,         (* ... whether the session it has opened has its constants,*)
  unwritten,    (* ... the files write_to_disk has yet to open,            *)
  writing,      (* ... the file it has open, as a set,                     *)
  crashes,
  torn,         (* History: the entries a killed process left incomplete,  *)
  exposed       (* ... and, per process, whether its session was opened    *)
                (* from an entry that was torn or that another one wrote.  *)

history == <<torn, exposed>>
memory == <<cache, access_order, global_uncompilable_graphs>>
vars == <<disk, memory, pc, key, sess, unwritten, writing, crashes,
          history>>

Init ==
  /\ disk = [k \in Keys |-> [f \in Files |-> "absent"]]
  /\ cache = [p \in Processes |-> <<>>]
  /\ access_order = [p \in Processes |-> <<>>]
  /\ global_uncompilable_graphs = [p \in Processes |-> {}]
  /\ pc = [p \in Processes |-> "idle"]
  /\ key \in [Processes -> Keys]
  /\ sess = [p \in Processes |-> FALSE]
  /\ unwritten = [p \in Processes |-> {}]
  /\ writing = [p \in Processes |-> {}]
  /\ crashes = 0
  /\ torn = {}
  /\ exposed = [p \in Processes |-> FALSE]

(* An entry that is all there, or not there at all.                        *)
Entry(k) ==
  \/ \A f \in Files : disk[k][f] = "absent"
  \/ \A f \in Files : disk[k][f] = "whole"

(* What may damage the entry a process loads: another process is writing it,
   or one was killed while it wrote it.                                    *)
Racing(p) ==
  \/ key[p] \in torn
  \/ \E q \in Processes \ {p} : pc[q] = "write" /\ key[q] = key[p]

Goto(p, from, to) ==
  /\ pc[p] = from
  /\ pc' = [pc EXCEPT ![p] = to]

(* put, as far as memory goes.                                             *)
Put(p, k, value) ==
  /\ cache' = [cache EXCEPT ![p] =
       [j \in DOMAIN cache[p] \cup {k} |->
          IF j = k THEN value ELSE cache[p][j]]]
  /\ access_order' = [access_order EXCEPT ![p] = Append(@, k)]

-----------------------------------------------------------------------------
(* TorchONNXMLIR.__init__: get.                                            *)

(* Mutant: get does not take the key from where it was in the list.        *)
GetAppends(p, k) ==
  /\ pc[p] = "idle"
  /\ key' = [key EXCEPT ![p] = k]
  /\ \/ /\ k \in DOMAIN cache[p]
        /\ access_order' = [access_order EXCEPT ![p] = Append(@, k)]
        /\ pc' = [pc EXCEPT ![p] = "run"]
     \/ /\ k \notin DOMAIN cache[p]
        /\ pc' = [pc EXCEPT ![p] = "open"]
        /\ UNCHANGED access_order
  /\ UNCHANGED <<disk, cache, global_uncompilable_graphs, sess, unwritten,
                 writing, crashes, history>>

(* get: the memory first, then the folder.                                 *)
Get(p, k) ==
  /\ pc[p] = "idle"
  /\ key' = [key EXCEPT ![p] = k]
  /\ \/ /\ k \in DOMAIN cache[p]
        /\ access_order' =
             [access_order EXCEPT ![p] = Append(RemoveFirst(@, k), k)]
        /\ pc' = [pc EXCEPT ![p] = "run"]
     \/ /\ k \notin DOMAIN cache[p]
        /\ pc' = [pc EXCEPT ![p] = "open"]
        /\ UNCHANGED access_order
  /\ UNCHANGED <<disk, cache, global_uncompilable_graphs, sess, unwritten,
                 writing, crashes, history>>

(* load_from_disk opens the session.  A .so file that is not there makes
   get return None; one that is not whole makes InferenceSession raise.
   Constants that cannot be loaded go unnoticed.                           *)
OpenSession(p) ==
  LET files == disk[key[p]]
  IN  /\ \/ files["so"] = "absent" /\ Goto(p, "open", "forward")
         \/ files["so"] = "partial" /\ Goto(p, "open", "idle")
         \/ files["so"] = "whole" /\ Goto(p, "open", "config")
      /\ sess' = [sess EXCEPT ![p] = files["constants"] = "whole"]
      /\ exposed' = [exposed EXCEPT ![p] = Racing(p)]
      /\ UNCHANGED <<disk, memory, key, unwritten, writing, crashes, torn>>

(* ... and reads the json file, which may be missing but not be malformed. *)
ReadConfig(p) ==
  LET config == disk[key[p]]["config"]
  IN  /\ \/ /\ config = "partial"
            /\ Goto(p, "config", "idle")
            /\ UNCHANGED <<cache, access_order>>
         \/ /\ config # "partial"
            /\ Goto(p, "config", "run")
            /\ Put(p, key[p],
                   Value(sess[p], IF config = "whole" THEN "own" ELSE "empty"))
      /\ UNCHANGED <<disk, global_uncompilable_graphs, key, sess, unwritten,
                     writing, crashes, history>>

-----------------------------------------------------------------------------
(* TorchONNXMLIR.forward.                                                  *)

(* A graph known not to compile, or without inputs, runs in eager mode.    *)
Eager(p) ==
  /\ key[p] \in global_uncompilable_graphs[p] \cup NoInputs
  /\ Goto(p, "forward", "idle")
  /\ UNCHANGED <<disk, memory, key, sess, unwritten, writing, crashes,
                 history>>

(* victim: a full cache drops the last key of the list.                    *)
Victim(p) ==
  /\ key[p] \notin global_uncompilable_graphs[p] \cup NoInputs
  /\ Goto(p, "forward", "compile")
  /\ IF Cardinality(DOMAIN cache[p]) >= capacity
     THEN /\ access_order' = [access_order EXCEPT ![p] = Front(@)]
          /\ cache' = [cache EXCEPT ![p] =
               Restrict(@, DOMAIN @ \ {Last(access_order[p])})]
     ELSE UNCHANGED <<cache, access_order>>
  /\ UNCHANGED <<disk, global_uncompilable_graphs, key, sess, unwritten,
                 writing, crashes, history>>

CompileFails(p) ==
  /\ key[p] \notin Compilable
  /\ Goto(p, "compile", "idle")
  /\ global_uncompilable_graphs' =
       [global_uncompilable_graphs EXCEPT ![p] = @ \cup {key[p]}]
  /\ UNCHANGED <<disk, cache, access_order, key, sess, unwritten, writing,
                 crashes, history>>

(* Mutant: the config file is not written.                                 *)
CompileNoConfig(p) ==
  /\ key[p] \in Compilable
  /\ Goto(p, "compile", "write")
  /\ Put(p, key[p], Value(TRUE, "own"))
  /\ unwritten' = [unwritten EXCEPT ![p] = Compiled]
  /\ UNCHANGED <<disk, global_uncompilable_graphs, key, sess, writing,
                 crashes, history>>

(* A session on the compiled model is put in the cache; it runs from the
   temporary folder of the compilation.                                    *)
Compile(p) ==
  /\ key[p] \in Compilable
  /\ Goto(p, "compile", "write")
  /\ Put(p, key[p], Value(TRUE, "own"))
  /\ unwritten' = [unwritten EXCEPT ![p] = Files]
  /\ UNCHANGED <<disk, global_uncompilable_graphs, key, sess, writing,
                 crashes, history>>

(* write_to_disk: the compiled files in any order, then the config file.   *)
WriteBegin(p, f) ==
  /\ pc[p] = "write"
  /\ writing[p] = {}
  /\ f \in unwritten[p]
  /\ f = "config" => unwritten[p] = {f}
  /\ disk' = [disk EXCEPT ![key[p]][f] = "partial"]
  /\ unwritten' = [unwritten EXCEPT ![p] = @ \ {f}]
  /\ writing' = [writing EXCEPT ![p] = {f}]
  /\ UNCHANGED <<memory, pc, key, sess, crashes, history>>

(* Mutant: the file is not closed, and its end not written.                *)
WriteEndUnclosed(p) ==
  /\ writing[p] # {}
  /\ writing' = [writing EXCEPT ![p] = {}]
  /\ IF unwritten[p] = {} THEN Goto(p, "write", "run") ELSE UNCHANGED pc
  /\ UNCHANGED <<disk, memory, key, sess, unwritten, crashes, history>>

WriteEnd(p) ==
  /\ \E f \in writing[p] :
       disk' = [disk EXCEPT ![key[p]][f] =
                  IF \E q \in Processes \ {p} :
                       key[q] = key[p] /\ f \in writing[q]
                  THEN "partial" ELSE "whole"]
  /\ writing' = [writing EXCEPT ![p] = {}]
  /\ IF unwritten[p] = {} THEN Goto(p, "write", "run") ELSE UNCHANGED pc
  /\ torn' = {k \in torn : ~Entry(k)'}
  /\ UNCHANGED <<memory, key, sess, unwritten, crashes, exposed>>

(* sess.run, and the return of the call.                                   *)
Run(p) ==
  /\ Goto(p, "run", "idle")
  /\ UNCHANGED <<disk, memory, key, sess, unwritten, writing, crashes,
                 history>>

-----------------------------------------------------------------------------
(* The process is killed, and another one started in its place.            *)
Crash(p) ==
  /\ crashes < MaxCrashes
  /\ crashes' = crashes + 1
  /\ cache' = [cache EXCEPT ![p] = <<>>]
  /\ access_order' = [access_order EXCEPT ![p] = <<>>]
  /\ global_uncompilable_graphs' =
       [global_uncompilable_graphs EXCEPT ![p] = {}]
  /\ pc' = [pc EXCEPT ![p] = "idle"]
  /\ unwritten' = [unwritten EXCEPT ![p] = {}]
  /\ writing' = [writing EXCEPT ![p] = {}]
  /\ torn' = IF pc[p] = "write" /\ ~Entry(key[p]) THEN torn \cup {key[p]}
             ELSE torn
  /\ UNCHANGED <<disk, key, sess, exposed>>

Step(p) ==
  \/ OpenSession(p) \/ ReadConfig(p)
  \/ Eager(p) \/ Victim(p) \/ CompileFails(p) \/ Compile(p)
  \/ \E f \in Files : WriteBegin(p, f)
  \/ WriteEnd(p) \/ Run(p)

Next ==
  \E p \in Processes : (\E k \in Keys : Get(p, k)) \/ Step(p) \/ Crash(p)

Spec == Init /\ [][Next]_vars

(* A call that has begun runs on.                                          *)
FairSpec == Spec /\ \A p \in Processes : WF_vars(Step(p))
-----------------------------------------------------------------------------
(* put prints an error when the dict and the list differ: the list has every
   cached key once and no other, so that remove and pop never fail.        *)
OrderMatchesCache ==
  \A p \in Processes :
    /\ ToSet(access_order[p]) = DOMAIN cache[p]
    /\ Len(access_order[p]) = Cardinality(DOMAIN cache[p])

(* A file of a model that was opened for writing ends up whole, with the
   others of the model, though processes write over each other's files,
   unless a process is killed.                                             *)
EntryCompleted ==
  \A k \in Keys :
    (\E f \in Files : disk[k][f] # "absent")
      ~> (crashes > 0 \/ \A f \in Files : disk[k][f] = "whole")

(* "If data is not found, return None": a session that get has found runs
   with the constants of its model and the inputs of its graph.            *)
RestoredWhole ==
  \A p \in Processes : \A k \in DOMAIN cache[p] :
    cache[p][k].constants /\ cache[p][k].indices = "own"

(* A step in which load_from_disk raises on a file that is not whole, or
   takes a session without its constants or its config for a good one.     *)
LoadDamaged(p) ==
  \/ OpenSession(p) /\ pc'[p] = "idle"
  \/ ReadConfig(p) /\ (pc'[p] = "idle" \/ cache'[p][key[p]] # Value(TRUE, "own"))

(* load_from_disk meets a damaged entry only in a process that loads it while
   another process writes it, or after one was killed in write_to_disk and
   before the entry was written again: what processes that live write to the
   folder, over each other too, never stays damaged.                       *)
OnlyRacesDamage ==
  [][\A p \in Processes : LoadDamaged(p) => Racing(p) \/ exposed[p]]_vars
=============================================================================
