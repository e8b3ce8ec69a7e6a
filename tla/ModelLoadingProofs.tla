------------------------- MODULE ModelLoadingProofs -------------------------
(***************************************************************************)
(* Proofs about ModelLoading: for any number of sessions, models and       *)
(* directories, any failures and any overlap of loads.                     *)
(***************************************************************************)
EXTENDS ModelLoading, FiniteSetTheorems, TLAPS

(* Where a session is says what its members are.                           *)
SessionInv ==
  \A s \in Sessions :
    /\ pc[s] = "absent" => _sharedLibraryHandle[s] = Null
    /\ pc[s] \in {"dlsym", "complete"} => _sharedLibraryHandle[s] \in Models
    /\ pc[s] = "entry" => isInitialized[s]
    /\ isInitialized[s] => /\ pc[s] \in {"idle", "entry"}
                           /\ _sharedLibraryHandle[s] \in Models
    /\ setOMConstantPath[s] => pc[s] \in {"dlopen", "dlsym", "complete"}

(* A path the user has set is nobody's to unset, and a path that is set for
   a load has a load that will unset it, or one that threw.                *)
PathInv ==
  /\ userPath # Unset =>
       /\ OM_CONSTANT_PATH = userPath
       /\ \A s \in Sessions : ~setOMConstantPath[s] /\ pc[s] # "setenv"
  /\ userPath = Unset /\ OM_CONSTANT_PATH # Unset /\ ~leftSet =>
       \E s \in Sessions : setOMConstantPath[s]

IInv == TypeOK /\ SessionInv /\ PathInv /\ LibraryMapped

HandlesOf(h, m) == {u \in Sessions : h[u] = m}

(* The sessions that hold m, counted after one handle has changed.         *)
LEMMA HoldersUpdate ==
  ASSUME NEW h, h = [u \in Sessions |-> h[u]],
         NEW s \in Sessions, NEW x, NEW m
  PROVE  LET H == Cardinality(HandlesOf(h, m))
             G == Cardinality(HandlesOf([h EXCEPT ![s] = x], m))
         IN  /\ H \in Nat
             /\ G \in Nat
             /\ h[s] = m => H >= 1
             /\ x = m /\ h[s] # m => G = H + 1
             /\ x # m /\ h[s] = m => G = H - 1
             /\ (x = m <=> h[s] = m) => G = H
<1> DEFINE H == HandlesOf(h, m)
           G == HandlesOf([h EXCEPT ![s] = x], m)
<1>1. IsFiniteSet(H) /\ IsFiniteSet(G)
  <2>1. H \subseteq Sessions /\ G \subseteq Sessions
    BY DEF HandlesOf
  <2>2. QED BY <2>1, ValuesAssumption, FS_Subset
<1>2. Cardinality(H) \in Nat /\ Cardinality(G) \in Nat
  BY <1>1, FS_CardinalityType
<1>3. h[s] = m => Cardinality(H) >= 1
  <2>1. h[s] = m => H # {}
    BY DEF HandlesOf
  <2>2. QED BY <1>1, <1>2, <2>1, FS_EmptySet
<1>4. /\ (x = m <=> h[s] = m) => G = H
      /\ x = m /\ h[s] # m => G = H \cup {s} /\ s \notin H
      /\ x # m /\ h[s] = m => G = H \ {s} /\ s \in H
  BY DEF HandlesOf
<1>5. x = m /\ h[s] # m => Cardinality(G) = Cardinality(H) + 1
  BY <1>1, <1>4, FS_AddElement
<1>6. x # m /\ h[s] = m => Cardinality(G) = Cardinality(H) - 1
  BY <1>1, <1>4, FS_RemoveElement
<1>7. QED BY <1>2, <1>3, <1>4, <1>5, <1>6

(* No session has loaded anything initially.                               *)
LEMMA InitIInv == Init => IInv
<1> SUFFICES ASSUME Init PROVE IInv
  OBVIOUS
<1>1. TypeOK
  BY ValuesAssumption DEF Init, TypeOK, PC, Loading
<1>2. SessionInv /\ PathInv
  BY DEF Init, SessionInv, PathInv
<1>3. LibraryMapped
  <2>1. \A m \in Models : Holders(m) = {}
    BY ValuesAssumption DEF Init, Holders
  <2>2. \A m \in Models : Cardinality(Holders(m)) = 0
    BY <2>1, FS_EmptySet
  <2>3. QED BY <2>2 DEF Init, LibraryMapped
<1>4. QED BY <1>1, <1>2, <1>3 DEF IInv

(* The references follow the change of a session's handle to x.            *)
RefsFollow(s, x) ==
  \A m \in Models :
    /\ refs'[m] \in Int
    /\ _sharedLibraryHandle[s] = m /\ x # m => refs'[m] >= refs[m] - 1
    /\ (_sharedLibraryHandle[s] = m <=> x = m) => refs'[m] >= refs[m]
    /\ _sharedLibraryHandle[s] # m /\ x = m => refs'[m] >= refs[m] + 1

(* dlopen, dlclose and a handle that changes hands keep the count of the
   references and that of the sessions together.                           *)
LEMMA LibraryStep ==
  ASSUME IInv, NEW s \in Sessions, NEW x,
         _sharedLibraryHandle' = [_sharedLibraryHandle EXCEPT ![s] = x],
         RefsFollow(s, x)
  PROVE  LibraryMapped'
<1> SUFFICES ASSUME NEW m \in Models
             PROVE  refs'[m] >= Cardinality(Holders(m)')
  BY DEF LibraryMapped
<1> DEFINE h == _sharedLibraryHandle
           H == Cardinality(HandlesOf(h, m))
           G == Cardinality(HandlesOf([h EXCEPT ![s] = x], m))
<1>1. Cardinality(Holders(m)) = H /\ Cardinality(Holders(m)') = G
  BY DEF Holders, HandlesOf
<1>2. refs[m] >= H /\ refs[m] \in Nat
  BY <1>1 DEF IInv, LibraryMapped, TypeOK
<1>3. h = [u \in Sessions |-> h[u]]
  BY DEF IInv, TypeOK
<1>4. /\ H \in Nat
      /\ G \in Nat
      /\ x = m /\ h[s] # m => G = H + 1
      /\ x # m /\ h[s] = m => G = H - 1
      /\ (x = m <=> h[s] = m) => G = H
  BY <1>3, HoldersUpdate
<1> HIDE DEF H, G
<1>5. QED BY <1>1, <1>2, <1>4 DEF RefsFollow

(* A library a session holds has a reference.                              *)
LEMMA HeldIsOpen ==
  ASSUME IInv, NEW s \in Sessions, _sharedLibraryHandle[s] \in Models
  PROVE  refs[_sharedLibraryHandle[s]] >= 1
<1> DEFINE h == _sharedLibraryHandle
           H == Cardinality(HandlesOf(h, h[s]))
<1>1. H \in Nat /\ H >= 1
  <2>1. h = [u \in Sessions |-> h[u]]
    BY DEF IInv, TypeOK
  <2>2. QED BY <2>1, HoldersUpdate
<1>2. refs[h[s]] \in Nat /\ refs[h[s]] >= H
  BY DEF IInv, TypeOK, LibraryMapped, Holders, HandlesOf
<1>3. QED BY <1>1, <1>2

(* Steps that leave the libraries and the handles alone.                   *)
LEMMA LibraryKept ==
  ASSUME IInv, UNCHANGED <<refs, _sharedLibraryHandle>>
  PROVE  LibraryMapped'
BY DEF IInv, LibraryMapped, Holders

(* Every action keeps the invariant.                                       *)
LEMMA NextIInv == IInv /\ [Next]_vars => IInv'
<1> SUFFICES ASSUME IInv, Next PROVE IInv'
  <2>1. IInv /\ UNCHANGED vars => IInv'
    BY DEF IInv, TypeOK, SessionInv, PathInv, LibraryMapped, Holders, vars,
           lib, members
  <2>2. QED BY <2>1
<1> SUFFICES ASSUME NEW s \in Sessions,
                    \/ \E m \in Models : Construct(s, m) \/ LoadModel(s, m)
                    \/ DefaultConstruct(s) \/ GetEnv(s) \/ SetEnv(s)
                    \/ DlopenFound(s) \/ DlopenMissing(s)
                    \/ DlsymFound(s) \/ DlsymMissing(s) \/ Complete(s)
                    \/ CallSetEntryPoint(s) \/ EntryFound(s)
                    \/ EntryMissing(s) \/ Destroy(s)
             PROVE  IInv'
  BY DEF Next
<1>1. ASSUME NEW m \in Models, Construct(s, m) PROVE IInv'
  <2>1. TypeOK'
    BY <1>1, LayoutAssumption DEF IInv, TypeOK, PC, Loading, SessionInv,
      Construct, Goto, LoadAllowed, lib, members
  <2>2. SessionInv'
    BY <1>1 DEF IInv, TypeOK, SessionInv, Construct, Goto, LoadAllowed, lib,
      members
  <2>3. PathInv'
    BY <1>1, ValuesAssumption, LayoutAssumption DEF IInv, TypeOK, SessionInv,
      PathInv, Construct, Goto, LoadAllowed, lib, members
  <2>4. LibraryMapped'
    BY <1>1, LibraryKept DEF Construct, Goto, LoadAllowed, lib, members
  <2>5. QED BY <2>1, <2>2, <2>3, <2>4 DEF IInv
<1>2. ASSUME NEW m \in Models, LoadModel(s, m) PROVE IInv'
  <2>1. TypeOK'
    BY <1>2, LayoutAssumption DEF IInv, TypeOK, PC, Loading, SessionInv,
      LoadModel, Goto, lib, members
  <2>2. SessionInv'
    BY <1>2 DEF IInv, TypeOK, SessionInv, LoadModel, Goto, lib, members
  <2>3. PathInv'
    BY <1>2, ValuesAssumption, LayoutAssumption DEF IInv, TypeOK, SessionInv,
      PathInv, LoadModel, Goto, lib, members
  <2>4. LibraryMapped'
    BY <1>2, LibraryKept DEF LoadModel, Goto, lib, members
  <2>5. QED BY <2>1, <2>2, <2>3, <2>4 DEF IInv
<1>3. CASE GetEnv(s)
  <2>1. TypeOK'
    BY <1>3, LayoutAssumption DEF IInv, TypeOK, PC, Loading, SessionInv,
      GetEnv, Goto, lib, members
  <2>2. SessionInv'
    BY <1>3 DEF IInv, TypeOK, SessionInv, GetEnv, Goto, lib, members
  <2>3. PathInv'
    BY <1>3, ValuesAssumption, LayoutAssumption DEF IInv, TypeOK, SessionInv,
      PathInv, GetEnv, Goto, lib, members
  <2>4. LibraryMapped'
    BY <1>3, LibraryKept DEF GetEnv, Goto, lib, members
  <2>5. QED BY <2>1, <2>2, <2>3, <2>4 DEF IInv
<1>4. CASE SetEnv(s)
  <2>1. TypeOK'
    BY <1>4, LayoutAssumption DEF IInv, TypeOK, PC, Loading, SessionInv,
      SetEnv, Goto, lib, members
  <2>2. SessionInv'
    BY <1>4 DEF IInv, TypeOK, SessionInv, SetEnv, Goto, lib, members
  <2>3. PathInv'
    BY <1>4, ValuesAssumption, LayoutAssumption DEF IInv, TypeOK, SessionInv,
      PathInv, SetEnv, Goto, lib, members
  <2>4. LibraryMapped'
    BY <1>4, LibraryKept DEF SetEnv, Goto, lib, members
  <2>5. QED BY <2>1, <2>2, <2>3, <2>4 DEF IInv
<1>5. CASE DlsymFound(s)
  <2>1. TypeOK'
    BY <1>5, LayoutAssumption DEF IInv, TypeOK, PC, Loading, SessionInv,
      DlsymFound, Goto, lib, members
  <2>2. SessionInv'
    BY <1>5 DEF IInv, TypeOK, SessionInv, DlsymFound, Goto, lib, members
  <2>3. PathInv'
    BY <1>5, ValuesAssumption, LayoutAssumption DEF IInv, TypeOK, SessionInv,
      PathInv, DlsymFound, Goto, lib, members
  <2>4. LibraryMapped'
    BY <1>5, LibraryKept DEF DlsymFound, Goto, lib, members
  <2>5. QED BY <2>1, <2>2, <2>3, <2>4 DEF IInv
<1>6. CASE Complete(s)
  <2>1. TypeOK'
    BY <1>6, LayoutAssumption DEF IInv, TypeOK, PC, Loading, SessionInv,
      Complete, EndOfLoad, Goto, lib, members
  <2>2. SessionInv'
    BY <1>6 DEF IInv, TypeOK, SessionInv, Complete, EndOfLoad, Goto, lib,
      members
  <2>3. PathInv'
    BY <1>6, ValuesAssumption, LayoutAssumption DEF IInv, TypeOK, SessionInv,
      PathInv, Complete, EndOfLoad, Goto, lib, members
  <2>4. LibraryMapped'
    BY <1>6, LibraryKept DEF Complete, EndOfLoad, Goto, lib, members
  <2>5. QED BY <2>1, <2>2, <2>3, <2>4 DEF IInv
<1>7. CASE CallSetEntryPoint(s)
  <2>1. TypeOK'
    BY <1>7, LayoutAssumption DEF IInv, TypeOK, PC, Loading, SessionInv,
      CallSetEntryPoint, Goto, lib, members
  <2>2. SessionInv'
    BY <1>7 DEF IInv, TypeOK, SessionInv, CallSetEntryPoint, Goto, lib,
      members
  <2>3. PathInv'
    BY <1>7, ValuesAssumption, LayoutAssumption DEF IInv, TypeOK, SessionInv,
      PathInv, CallSetEntryPoint, Goto, lib, members
  <2>4. LibraryMapped'
    BY <1>7, LibraryKept DEF CallSetEntryPoint, Goto, lib, members
  <2>5. QED BY <2>1, <2>2, <2>3, <2>4 DEF IInv
<1>8. CASE EntryFound(s)
  <2>1. TypeOK'
    BY <1>8, LayoutAssumption DEF IInv, TypeOK, PC, Loading, SessionInv,
      EntryFound, Goto, lib, members
  <2>2. SessionInv'
    BY <1>8 DEF IInv, TypeOK, SessionInv, EntryFound, Goto, lib, members
  <2>3. PathInv'
    BY <1>8, ValuesAssumption, LayoutAssumption DEF IInv, TypeOK, SessionInv,
      PathInv, EntryFound, Goto, lib, members
  <2>4. LibraryMapped'
    BY <1>8, LibraryKept DEF EntryFound, Goto, lib, members
  <2>5. QED BY <2>1, <2>2, <2>3, <2>4 DEF IInv
<1>9. CASE DefaultConstruct(s)
  <2>1. TypeOK'
    BY <1>9, LayoutAssumption DEF IInv, TypeOK, PC, Loading, SessionInv,
      DefaultConstruct, Goto, lib, members
  <2>2. SessionInv'
    BY <1>9 DEF IInv, TypeOK, SessionInv, DefaultConstruct, Goto, lib,
      members
  <2>3. PathInv'
    BY <1>9, ValuesAssumption, LayoutAssumption DEF IInv, TypeOK, SessionInv,
      PathInv, DefaultConstruct, Goto, lib, members
  <2>4. LibraryMapped'
    <3>1. PICK x : /\ _sharedLibraryHandle' =
                        [_sharedLibraryHandle EXCEPT ![s] = x]
                   /\ x \notin Models
      BY <1>9, ValuesAssumption DEF DefaultConstruct, Goto
    <3>2. RefsFollow(s, x)
      BY <1>9, <3>1, ValuesAssumption DEF RefsFollow, IInv, TypeOK,
        SessionInv, DefaultConstruct, Goto, lib
    <3>3. QED BY <3>1, <3>2, LibraryStep
  <2>5. QED BY <2>1, <2>2, <2>3, <2>4 DEF IInv
<1>10. CASE DlopenFound(s)
  <2>1. TypeOK'
    BY <1>10, LayoutAssumption DEF IInv, TypeOK, PC, Loading, SessionInv,
      DlopenFound, OpenLibrary, LoadedConstants, OpenedConstants, Goto, lib,
      members
  <2>2. SessionInv'
    BY <1>10 DEF IInv, TypeOK, SessionInv, DlopenFound, OpenLibrary,
      LoadedConstants, OpenedConstants, Goto, lib, members
  <2>3. PathInv'
    BY <1>10, ValuesAssumption, LayoutAssumption DEF IInv, TypeOK,
      SessionInv, PathInv, DlopenFound, OpenLibrary, LoadedConstants,
      OpenedConstants, Goto, lib, members
  <2>4. LibraryMapped'
    <3>1. PICK x : /\ _sharedLibraryHandle' =
                        [_sharedLibraryHandle EXCEPT ![s] = x]
                   /\ x = path[s]
      BY <1>10 DEF DlopenFound, OpenLibrary, LoadedConstants,
        OpenedConstants, Goto
    <3>2. RefsFollow(s, x)
      BY <1>10, <3>1 DEF RefsFollow, IInv, TypeOK, SessionInv, DlopenFound,
        OpenLibrary, LoadedConstants, OpenedConstants, Goto, lib
    <3>3. QED BY <3>1, <3>2, LibraryStep
  <2>5. QED BY <2>1, <2>2, <2>3, <2>4 DEF IInv
<1>11. CASE DlopenMissing(s)
  <2>1. TypeOK'
    BY <1>11, LayoutAssumption DEF IInv, TypeOK, PC, Loading, SessionInv,
      DlopenMissing, ThrowFrom, Goto, lib, members
  <2>2. SessionInv'
    BY <1>11 DEF IInv, TypeOK, SessionInv, DlopenMissing, ThrowFrom, Goto,
      lib, members
  <2>3. PathInv'
    BY <1>11, ValuesAssumption, LayoutAssumption DEF IInv, TypeOK,
      SessionInv, PathInv, DlopenMissing, ThrowFrom, Goto, lib, members
  <2>4. LibraryMapped'
    <3>1. PICK x : /\ _sharedLibraryHandle' =
                        [_sharedLibraryHandle EXCEPT ![s] = x]
                   /\ x \notin Models
      BY <1>11, ValuesAssumption DEF DlopenMissing, ThrowFrom, Goto
    <3>2. RefsFollow(s, x)
      BY <1>11, <3>1, ValuesAssumption DEF RefsFollow, IInv, TypeOK,
        SessionInv, DlopenMissing, ThrowFrom, Goto, lib
    <3>3. QED BY <3>1, <3>2, LibraryStep
  <2>5. QED BY <2>1, <2>2, <2>3, <2>4 DEF IInv
<1>12. CASE DlsymMissing(s)
  <2>1. TypeOK'
    BY <1>12, LayoutAssumption DEF IInv, TypeOK, PC, Loading, SessionInv,
      DlsymMissing, ThrowFrom, Goto, lib, members
  <2>2. SessionInv'
    BY <1>12 DEF IInv, TypeOK, SessionInv, DlsymMissing, ThrowFrom, Goto,
      lib, members
  <2>3. PathInv'
    BY <1>12, ValuesAssumption, LayoutAssumption DEF IInv, TypeOK,
      SessionInv, PathInv, DlsymMissing, ThrowFrom, Goto, lib, members
  <2>4. LibraryMapped'
    <3>1. PICK x : /\ _sharedLibraryHandle' =
                        [_sharedLibraryHandle EXCEPT ![s] = x]
                   /\ x \notin Models \/ x = _sharedLibraryHandle[s]
      BY <1>12, ValuesAssumption DEF DlsymMissing, ThrowFrom, Goto
    <3>2. RefsFollow(s, x)
      BY <1>12, <3>1, ValuesAssumption DEF RefsFollow, IInv, TypeOK,
        SessionInv, DlsymMissing, ThrowFrom, Goto, lib
    <3>3. QED BY <3>1, <3>2, LibraryStep
  <2>5. QED BY <2>1, <2>2, <2>3, <2>4 DEF IInv
<1>13. CASE EntryMissing(s)
  <2>1. TypeOK'
    BY <1>13, LayoutAssumption DEF IInv, TypeOK, PC, Loading, SessionInv,
      EntryMissing, ThrowFrom, Goto, lib, members
  <2>2. SessionInv'
    BY <1>13 DEF IInv, TypeOK, SessionInv, EntryMissing, ThrowFrom, Goto,
      lib, members
  <2>3. PathInv'
    BY <1>13, ValuesAssumption, LayoutAssumption DEF IInv, TypeOK,
      SessionInv, PathInv, EntryMissing, ThrowFrom, Goto, lib, members
  <2>4. LibraryMapped'
    <3>1. PICK x : /\ _sharedLibraryHandle' =
                        [_sharedLibraryHandle EXCEPT ![s] = x]
                   /\ x \notin Models \/ x = _sharedLibraryHandle[s]
      BY <1>13, ValuesAssumption DEF EntryMissing, ThrowFrom, Goto
    <3>2. RefsFollow(s, x)
      BY <1>13, <3>1, ValuesAssumption DEF RefsFollow, IInv, TypeOK,
        SessionInv, EntryMissing, ThrowFrom, Goto, lib
    <3>3. QED BY <3>1, <3>2, LibraryStep
  <2>5. QED BY <2>1, <2>2, <2>3, <2>4 DEF IInv
<1>14. CASE Destroy(s)
  <2>1. TypeOK'
    <3>1. _sharedLibraryHandle[s] \in Models =>
            refs[_sharedLibraryHandle[s]] >= 1
      BY HeldIsOpen
    <3>2. refs' \in [Models -> Nat]
          /\ packedConst' \in [Models -> Models \cup {Null}]
      BY <1>14, <3>1 DEF IInv, TypeOK, Destroy, CloseLibrary, lib
    <3>3. QED
      BY <1>14, <3>2, ValuesAssumption DEF IInv, TypeOK, PC, Loading,
        Destroy, Goto
  <2>2. SessionInv'
    BY <1>14 DEF IInv, TypeOK, SessionInv, Destroy, CloseLibrary, Goto, lib,
      members
  <2>3. PathInv'
    BY <1>14, ValuesAssumption, LayoutAssumption DEF IInv, TypeOK,
      SessionInv, PathInv, Destroy, CloseLibrary, Goto, lib, members
  <2>4. LibraryMapped'
    <3>1. PICK x : /\ _sharedLibraryHandle' =
                        [_sharedLibraryHandle EXCEPT ![s] = x]
                   /\ x = Null
      BY <1>14 DEF Destroy, CloseLibrary, Goto
    <3>2. RefsFollow(s, x)
      BY <1>14, <3>1, ValuesAssumption DEF RefsFollow, IInv, TypeOK,
        SessionInv, Destroy, CloseLibrary, Goto, lib
    <3>3. QED BY <3>1, <3>2, LibraryStep
  <2>5. QED BY <2>1, <2>2, <2>3, <2>4 DEF IInv
<1>15. QED BY <1>1, <1>2, <1>3, <1>4, <1>5, <1>6, <1>7, <1>8, <1>9, <1>10,
  <1>11, <1>12, <1>13, <1>14

(* The inductive invariant holds in every state of the specification.      *)
THEOREM Invariance == Spec => []IInv
BY InitIInv, NextIInv, PTL DEF Spec

(* The type invariant, which for refs rests on LibraryMapped: a library is
   never closed more often than it was opened (~ExecutionSession).         *)
THEOREM TypeCorrect == Spec => []TypeOK
<1>1. IInv => TypeOK
  BY DEF IInv
<1>2. QED BY <1>1, Invariance, PTL

(* Whatever fails and is retried (loadModel), no session holds a library
   that has been unloaded.                                                 *)
THEOREM LibraryStaysMapped == Spec => []LibraryMapped
<1>1. IInv => LibraryMapped
  BY DEF IInv
<1>2. QED BY <1>1, Invariance, PTL

(* The user's OM_CONSTANT_PATH survives every interleaving of loads.       *)
THEOREM UserPathSafe == Spec => []UserPathKept
<1>1. IInv => UserPathKept
  BY DEF IInv, PathInv, UserPathKept
<1>2. QED BY <1>1, Invariance, PTL

(* Only a load that threw leaves OM_CONSTANT_PATH set behind it.           *)
THEOREM PathRestored == Spec => []PathLeftOnlyByThrow
<1>1. IInv => PathLeftOnlyByThrow
  BY DEF IInv, PathInv, SessionInv, PathLeftOnlyByThrow
<1>2. QED BY <1>1, Invariance, PTL

(* An initialised session keeps its library until it is destroyed.         *)
THEOREM LibraryKeptBySession == Spec => SessionKeepsLibrary
<1>1. IInv /\ [Next]_vars =>
        [\A s \in Sessions :
           isInitialized[s] /\ pc'[s] # "absent"
             => /\ isInitialized'[s]
                /\ _sharedLibraryHandle'[s] = _sharedLibraryHandle[s]]_vars
  BY DEF IInv, TypeOK, SessionInv, Next, vars, lib, members, Construct,
         LoadModel, DefaultConstruct, GetEnv, SetEnv, DlopenFound,
         DlopenMissing, DlsymFound, DlsymMissing, Complete, EndOfLoad,
         CallSetEntryPoint, EntryFound, EntryMissing, Destroy, ThrowFrom, Goto
<1>2. QED BY <1>1, Invariance, PTL DEF Spec, SessionKeepsLibrary
-----------------------------------------------------------------------------
(* When neither dlsym nor setEntryPoint throws, a session that has yet to
   open its library holds none, so that no handle is overwritten or lost.  *)
ReleaseInv ==
  /\ LibraryReleased
  /\ \A s \in Sessions :
       \/ pc[s] \in {"absent", "getenv", "setenv", "dlopen"}
       \/ pc[s] = "idle" /\ ~isInitialized[s]
       => _sharedLibraryHandle[s] \notin Models

(* The references follow the change of a session's handle to x exactly.    *)
RefsFollowExactly(s, x) ==
  \A m \in Models :
    /\ _sharedLibraryHandle[s] = m /\ x # m => refs'[m] = refs[m] - 1
    /\ (_sharedLibraryHandle[s] = m <=> x = m) => refs'[m] = refs[m]
    /\ _sharedLibraryHandle[s] # m /\ x = m => refs'[m] = refs[m] + 1

(* dlopen and dlclose keep the two counts equal.                           *)
LEMMA ReleasedStep ==
  ASSUME IInv, LibraryReleased, NEW s \in Sessions, NEW x,
         _sharedLibraryHandle' = [_sharedLibraryHandle EXCEPT ![s] = x],
         RefsFollowExactly(s, x)
  PROVE  LibraryReleased'
<1> SUFFICES ASSUME NEW m \in Models
             PROVE  refs'[m] = Cardinality(Holders(m)')
  BY DEF LibraryReleased
<1> DEFINE h == _sharedLibraryHandle
           H == Cardinality(HandlesOf(h, m))
           G == Cardinality(HandlesOf([h EXCEPT ![s] = x], m))
<1>1. Cardinality(Holders(m)) = H /\ Cardinality(Holders(m)') = G
  BY DEF Holders, HandlesOf
<1>2. refs[m] = H
  BY <1>1 DEF LibraryReleased
<1>3. h = [u \in Sessions |-> h[u]]
  BY DEF IInv, TypeOK
<1> HIDE DEF h
<1>4. /\ H \in Nat
      /\ G \in Nat
      /\ x = m /\ h[s] # m => G = H + 1
      /\ x # m /\ h[s] = m => G = H - 1
      /\ (x = m <=> h[s] = m) => G = H
  BY <1>3, HoldersUpdate
<1> HIDE DEF H, G
<1>5. QED BY <1>1, <1>2, <1>4 DEF RefsFollowExactly, h

(* Every action but the throws of dlsym and setEntryPoint keeps it.        *)
LEMMA NextReleaseInv ==
  ASSUME Failures \cap {"dlsym", "entry"} = {},
         IInv, ReleaseInv, [Next]_vars
  PROVE  ReleaseInv'
<1> DEFINE HandlesInv ==
             \A s \in Sessions :
               \/ pc[s] \in {"absent", "getenv", "setenv", "dlopen"}
               \/ pc[s] = "idle" /\ ~isInitialized[s]
               => _sharedLibraryHandle[s] \notin Models
<1> SUFFICES LibraryReleased' /\ HandlesInv'
  BY DEF ReleaseInv
<1>0. LibraryReleased /\ HandlesInv
  BY DEF ReleaseInv
<1>1. CASE UNCHANGED vars
  <2>1. UNCHANGED <<refs, _sharedLibraryHandle, pc, isInitialized>>
    BY <1>1 DEF vars, lib, members
  <2>2. LibraryReleased'
    BY <1>0, <2>1 DEF LibraryReleased, Holders
  <2>3. HandlesInv'
    BY <1>0, <2>1
  <2>4. QED BY <2>2, <2>3
<1>2. CASE Next
  <2> SUFFICES ASSUME NEW s \in Sessions,
                      \/ \E m \in Models : Construct(s, m) \/ LoadModel(s, m)
                      \/ DefaultConstruct(s) \/ GetEnv(s) \/ SetEnv(s)
                      \/ DlopenFound(s) \/ DlopenMissing(s)
                      \/ DlsymFound(s) \/ Complete(s)
                      \/ CallSetEntryPoint(s) \/ EntryFound(s)
                      \/ Destroy(s)
               PROVE  LibraryReleased' /\ HandlesInv'
    BY <1>2 DEF Next, DlsymMissing, EntryMissing
  <2>1. CASE \/ \E m \in Models : Construct(s, m) \/ LoadModel(s, m)
             \/ GetEnv(s) \/ SetEnv(s) \/ DlsymFound(s) \/ Complete(s)
             \/ CallSetEntryPoint(s) \/ EntryFound(s)
    <3>1. UNCHANGED <<refs, _sharedLibraryHandle>>
      BY <2>1 DEF Construct, LoadModel, GetEnv, SetEnv, DlsymFound, Complete,
        EndOfLoad, CallSetEntryPoint, EntryFound, lib, members
    <3>2. HandlesInv'
      BY <1>0, <2>1, <3>1 DEF IInv, TypeOK, SessionInv, Construct, LoadModel,
        GetEnv, SetEnv, DlsymFound, Complete, EndOfLoad, CallSetEntryPoint,
        EntryFound, Goto, members
    <3>3. QED BY <1>0, <3>1, <3>2 DEF LibraryReleased, Holders
  <2>2. CASE DefaultConstruct(s)
    <3>1. PICK x : /\ _sharedLibraryHandle' =
                        [_sharedLibraryHandle EXCEPT ![s] = x]
                   /\ x \notin Models
      BY <2>2, ValuesAssumption DEF DefaultConstruct
    <3>2. RefsFollowExactly(s, x)
      BY <1>0, <2>2, <3>1 DEF RefsFollowExactly, DefaultConstruct, Goto, lib
    <3>3. HandlesInv'
      BY <1>0, <2>2, <3>1 DEF IInv, TypeOK, DefaultConstruct, Goto
    <3>4. QED BY <1>0, <3>1, <3>2, <3>3, ReleasedStep
  <2>3. CASE DlopenFound(s)
    <3>1. _sharedLibraryHandle' = [_sharedLibraryHandle EXCEPT ![s] = path[s]]
      BY <2>3 DEF DlopenFound
    <3>2. RefsFollowExactly(s, path[s])
      BY <1>0, <2>3, <3>1 DEF RefsFollowExactly, DlopenFound, OpenLibrary,
        Goto, IInv, TypeOK
    <3>3. HandlesInv'
      BY <1>0, <2>3, <3>1 DEF IInv, TypeOK, SessionInv, DlopenFound, Goto
    <3>4. QED BY <1>0, <3>1, <3>2, <3>3, ReleasedStep
  <2>4. CASE DlopenMissing(s)
    <3>1. _sharedLibraryHandle' = [_sharedLibraryHandle EXCEPT ![s] = Null]
      BY <2>4 DEF DlopenMissing, ThrowFrom
    <3>2. RefsFollowExactly(s, Null)
      BY <1>0, <2>4, <3>1, ValuesAssumption DEF RefsFollowExactly,
        DlopenMissing, ThrowFrom, Goto, lib
    <3>3. HandlesInv'
      BY <1>0, <2>4, <3>1, ValuesAssumption DEF IInv, TypeOK, SessionInv,
        DlopenMissing, ThrowFrom, Goto
    <3>4. QED BY <1>0, <3>1, <3>2, <3>3, ReleasedStep
  <2>5. CASE Destroy(s)
    <3>1. _sharedLibraryHandle' = [_sharedLibraryHandle EXCEPT ![s] = Null]
      BY <2>5 DEF Destroy
    <3>2. RefsFollowExactly(s, Null)
      BY <2>5, <3>1, ValuesAssumption DEF RefsFollowExactly, IInv, TypeOK,
        Destroy, CloseLibrary, lib
    <3>3. HandlesInv'
      BY <1>0, <2>5, <3>1, ValuesAssumption DEF IInv, TypeOK, SessionInv,
        Destroy, Goto
    <3>4. QED BY <1>0, <3>1, <3>2, <3>3, ReleasedStep
  <2>6. QED BY <2>1, <2>2, <2>3, <2>4, <2>5
<1>3. QED BY <1>1, <1>2

(* If loadModel and setEntryPoint throw, if at all, before dlopen has
   returned a handle, then ~ExecutionSession gives every reference back:
   for any number of sessions, and however their loads overlap.            *)
THEOREM LibraryIsReleased ==
  ASSUME Failures \cap {"dlsym", "entry"} = {}
  PROVE  Spec => []LibraryReleased
<1>1. Init => ReleaseInv
  <2> SUFFICES ASSUME Init PROVE ReleaseInv
    OBVIOUS
  <2>1. \A m \in Models : Holders(m) = {}
    BY ValuesAssumption DEF Init, Holders
  <2>2. LibraryReleased
    <3>1. \A m \in Models : Cardinality(Holders(m)) = 0
      BY <2>1, FS_EmptySet
    <3>2. QED BY <3>1 DEF Init, LibraryReleased
  <2>3. QED BY <2>2, ValuesAssumption DEF Init, ReleaseInv
<1>2. IInv /\ ReleaseInv /\ [Next]_vars => ReleaseInv'
  BY NextReleaseInv
<1>3. ReleaseInv => LibraryReleased
  BY DEF ReleaseInv
<1>4. QED BY <1>1, <1>2, <1>3, Invariance, PTL DEF Spec

(* Loads in turn: only one session loads at a time, the path it finds or
   sets leads to the directory of its model, and the constants of every
   library that is open are its own.                                       *)
InTurnInv ==
  /\ userPath = Unset
  /\ ~leftSet
  /\ \A s, t \in Sessions : pc[s] \in Loading /\ pc[t] \in Loading => s = t
  /\ \A s \in Sessions :
       pc[s] = "dlopen" =>
         \/ setOMConstantPath[s] /\ OM_CONSTANT_PATH = DirOf[path[s]]
         \/ ~setOMConstantPath[s] /\ path[s] \in Bare
  /\ \A m \in Models : refs[m] > 0 => packedConst[m] = m

(* With one load at a time, a session that loads and has not set the path
   finds it unset.                                                         *)
LEMMA PathUnsetInTurn ==
  ASSUME IInv, InTurnInv, NEW s \in Sessions, pc[s] \in Loading,
         ~setOMConstantPath[s]
  PROVE  OM_CONSTANT_PATH = Unset
<1> SUFFICES ASSUME OM_CONSTANT_PATH # Unset PROVE FALSE
  OBVIOUS
<1>1. PICK t \in Sessions : setOMConstantPath[t]
  BY DEF IInv, PathInv, InTurnInv
<1>2. pc[t] \in Loading
  BY <1>1 DEF IInv, SessionInv, Loading
<1>3. QED BY <1>1, <1>2 DEF InTurnInv

(* The file found under the directory of a model is its own, since no two
   models of a directory share the name of their constants file.           *)
LEMMA OwnFileOpened ==
  ASSUME NEW m \in Models, NEW base,
         base = DirOf[m] \/ (base = Unset /\ DirOf[m] = Cwd)
  PROVE  OpenedConstants(m, base) = m
<1> DEFINE dir == IF base = Unset THEN Cwd ELSE base
           owners == {n \in Models : DirOf[n] = dir /\ FileOf[n] = FileOf[m]}
<1>1. dir = DirOf[m]
  BY LayoutAssumption, ValuesAssumption
<1>2. owners = {m}
  BY <1>1, LayoutAssumption
<1>3. (CHOOSE n \in owners : TRUE) = m /\ owners # {}
  BY <1>2
<1>4. QED BY <1>3 DEF OpenedConstants

(* Every action keeps the invariant when the caller loads in turn, and no
   load is left by a throw while the path is set.                          *)
LEMMA NextInTurnInv ==
  ASSUME MaxLoading = 1,
         Failures \cap {"dlopen", "dlsym", "mmap"} = {},
         IInv, InTurnInv, Next
  PROVE  InTurnInv'
<1> SUFFICES ASSUME NEW s \in Sessions,
                    \/ \E m \in Models : Construct(s, m) \/ LoadModel(s, m)
                    \/ DefaultConstruct(s) \/ GetEnv(s) \/ SetEnv(s)
                    \/ DlopenFound(s)
                    \/ DlsymFound(s) \/ Complete(s)
                    \/ CallSetEntryPoint(s) \/ EntryFound(s)
                    \/ EntryMissing(s) \/ Destroy(s)
             PROVE  InTurnInv'
  BY DEF Next, DlopenMissing, DlsymMissing
<1>0. LoadAllowed => \A t \in Sessions : pc[t] \notin Loading
  <2> DEFINE L == {t \in Sessions : pc[t] \in Loading}
  <2>1. IsFiniteSet(L)
    <3>1. L \subseteq Sessions
      OBVIOUS
    <3>2. QED BY <3>1, ValuesAssumption, FS_Subset
  <2>2. LoadAllowed => Cardinality(L) = 0
    <3>1. Cardinality(L) \in Nat
      BY <2>1, FS_CardinalityType
    <3>2. QED BY <3>1 DEF LoadAllowed
  <2>3. QED BY <2>1, <2>2, FS_EmptySet
<1>1. ASSUME NEW m \in Models, Construct(s, m) \/ LoadModel(s, m)
      PROVE  InTurnInv'
  BY <1>0, <1>1 DEF InTurnInv, IInv, TypeOK, Construct, LoadModel, Goto, lib,
    Loading
<1>2. CASE GetEnv(s)
  <2>1. OM_CONSTANT_PATH = Unset /\ ~setOMConstantPath[s]
    <3>1. pc[s] = "getenv"
      BY <1>2 DEF GetEnv, Goto
    <3>2. ~setOMConstantPath[s]
      BY <3>1 DEF IInv, SessionInv
    <3>3. QED BY <3>1, <3>2, PathUnsetInTurn DEF Loading
  <2>2. QED BY <1>2, <2>1 DEF InTurnInv, IInv, TypeOK, GetEnv, Goto, lib,
          Loading
<1>3. CASE SetEnv(s)
  <2>1. OM_CONSTANT_PATH = Unset
    <3>1. pc[s] = "setenv"
      BY <1>3 DEF SetEnv, Goto
    <3>2. ~setOMConstantPath[s]
      BY <3>1 DEF IInv, SessionInv
    <3>3. QED BY <3>1, <3>2, PathUnsetInTurn DEF Loading
  <2>2. QED BY <1>3, <2>1 DEF InTurnInv, IInv, TypeOK, SetEnv, Goto, lib,
          Loading
<1>4. CASE DlopenFound(s)
  <2>1. LoadedConstants(path[s]) = {path[s]}
    <3>1. pc[s] = "dlopen" /\ path[s] \in Models
      BY <1>4 DEF DlopenFound, Goto, IInv, TypeOK
    <3>2. \/ OM_CONSTANT_PATH = DirOf[path[s]]
          \/ OM_CONSTANT_PATH = Unset /\ DirOf[path[s]] = Cwd
      BY <3>1, PathUnsetInTurn, LayoutAssumption DEF InTurnInv, Loading
    <3>3. OpenedConstants(path[s], OM_CONSTANT_PATH) = path[s]
      BY <3>1, <3>2, OwnFileOpened
    <3>4. QED BY <3>3 DEF LoadedConstants
  <2>2. \A m \in Models : refs'[m] > 0 => packedConst'[m] = m
    BY <1>4, <2>1 DEF InTurnInv, IInv, TypeOK, DlopenFound, OpenLibrary
  <2>3. QED BY <1>4, <2>2 DEF InTurnInv, IInv, TypeOK, DlopenFound, Goto,
          Loading
<1>5. CASE DefaultConstruct(s) \/ DlsymFound(s) \/ CallSetEntryPoint(s)
           \/ EntryFound(s)
  BY <1>5 DEF InTurnInv, IInv, TypeOK, DefaultConstruct, DlsymFound,
    CallSetEntryPoint, EntryFound, Goto, lib, Loading
<1>6. CASE Complete(s)
  <2>1. pc[s] = "complete" /\ \A t \in Sessions : pc[t] # "dlopen"
    BY <1>6 DEF Complete, EndOfLoad, Goto, InTurnInv, Loading
  <2>2. QED BY <1>6, <2>1 DEF InTurnInv, IInv, TypeOK, Complete, EndOfLoad,
          Goto, lib, Loading
<1>7. CASE EntryMissing(s)
  BY <1>7 DEF InTurnInv, IInv, TypeOK, SessionInv, EntryMissing, ThrowFrom,
    Goto, lib, Loading
<1>8. CASE Destroy(s)
  <2>1. \A m \in Models : refs'[m] > 0 => packedConst'[m] = m
    BY <1>8 DEF InTurnInv, IInv, TypeOK, Destroy, CloseLibrary, lib
  <2>2. QED BY <1>8, <2>1 DEF InTurnInv, IInv, TypeOK, Destroy, Goto, Loading
<1>9. QED BY <1>1, <1>2, <1>3, <1>4, <1>5, <1>6, <1>7, <1>8

(* "Unset OM_CONSTANT_PATH to avoid conflict with the load of another
   model": loads in turn, by a user who has not set the path, give every
   initialised session the constants of its own model, for any number of
   sessions and models and although entry points may be missing.           *)
THEOREM ConstantsAreOwn ==
  ASSUME UserPaths = {Unset}, MaxLoading = 1,
         Failures \cap {"dlopen", "dlsym", "mmap"} = {}
  PROVE  Spec => []OwnConstants
<1>1. Init => InTurnInv
  BY DEF Init, InTurnInv, Loading
<1>2. IInv /\ InTurnInv /\ [Next]_vars => InTurnInv'
  <2>1. IInv /\ InTurnInv /\ Next => InTurnInv'
    BY NextInTurnInv
  <2>2. InTurnInv /\ UNCHANGED vars => InTurnInv'
    BY DEF InTurnInv, vars, lib, members
  <2>3. QED BY <2>1, <2>2
<1>3. IInv /\ InTurnInv => OwnConstants
  <2> SUFFICES ASSUME IInv, InTurnInv, NEW s \in Sessions, isInitialized[s]
               PROVE  packedConst[_sharedLibraryHandle[s]]
                        = _sharedLibraryHandle[s]
    BY DEF OwnConstants
  <2>1. _sharedLibraryHandle[s] \in Models
    BY DEF IInv, SessionInv
  <2>2. refs[_sharedLibraryHandle[s]] >= 1
        /\ refs[_sharedLibraryHandle[s]] \in Nat
    BY <2>1, HeldIsOpen DEF IInv, TypeOK
  <2>3. QED BY <2>1, <2>2 DEF InTurnInv
<1>4. QED BY <1>1, <1>2, <1>3, Invariance, PTL DEF Spec
=============================================================================
