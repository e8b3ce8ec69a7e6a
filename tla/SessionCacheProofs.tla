------------------------- MODULE SessionCacheProofs -------------------------
(***************************************************************************)
(* Proofs about SessionCache: for any number of processes, keys and        *)
(* crashes and any capacity, the dict and the list of a cache agree, and   *)
(* a damaged entry is met only where a writer is at work or was killed; a  *)
(* process that has the folder to itself, and is not killed, finds whole   *)
(* sessions in it.                                                         *)
(***************************************************************************)
EXTENDS SessionCache, FiniteSetTheorems, SequenceTheorems, TLAPS

States == {"absent", "partial", "whole"}
PC == {"idle", "open", "config", "forward", "compile", "write", "run"}

(* The types of the variables; cache and access_order are what the other
   parts are about.                                                        *)
TypeInv ==
  /\ disk \in [Keys -> [Files -> States]]
  /\ cache = [p \in Processes |-> cache[p]]
  /\ access_order \in [Processes -> Seq(Keys)]
  /\ pc \in [Processes -> PC]
  /\ key \in [Processes -> Keys]
  /\ sess \in [Processes -> BOOLEAN]
  /\ unwritten \in [Processes -> SUBSET Files]
  /\ writing \in [Processes -> SUBSET Files]
  /\ crashes \in Nat
  /\ torn \subseteq Keys
  /\ exposed \in [Processes -> BOOLEAN]

NoDuplicates(s) == \A i, j \in 1..Len(s) : s[i] = s[j] => i = j

(* A list and a dict agree.                                                *)
Agree(s, d) ==
  /\ NoDuplicates(s)
  /\ ToSet(s) = DOMAIN d
  /\ IsFiniteSet(DOMAIN d)
  /\ Len(s) = Cardinality(DOMAIN d)

(* ... in every process, and a graph that was not found in memory is not in
   memory until it is put there.                                           *)
OrderInv ==
  \A p \in Processes :
    /\ Agree(access_order[p], cache[p])
    /\ pc[p] \in {"open", "config", "forward", "compile"}
         => key[p] \notin DOMAIN cache[p]

IInv == TypeInv /\ OrderInv
-----------------------------------------------------------------------------
(* list.remove, on a list without duplicates.                              *)
LEMMA RemoveFirstLemma ==
  ASSUME NEW S, NEW s \in Seq(S), NoDuplicates(s), NEW e \in ToSet(s)
  PROVE  LET t == RemoveFirst(s, e)
         IN  /\ t \in Seq(S)
             /\ Len(t) = Len(s) - 1
             /\ NoDuplicates(t)
             /\ ToSet(t) = ToSet(s) \ {e}
<1>0. Len(s) \in Nat /\ DOMAIN s = 1..Len(s) /\ \A l \in 1..Len(s) : s[l] \in S
  BY LenProperties
<1>1. PICK i \in 1..Len(s) : s[i] = e
  BY <1>0 DEF ToSet
<1>2. RemoveFirst(s, e) = RemoveAt(s, i)
  <2> DEFINE I == {j \in 1..Len(s) : s[j] = e}
  <2>1. I = {i}
    BY <1>1 DEF NoDuplicates
  <2>2. RemoveFirst(s, e) = RemoveAt(s, IF I # {} THEN Min(I) ELSE 0)
    BY <1>1 DEF RemoveFirst, SelectInSeq
  <2>3. Min(I) = i
    BY <2>1, <1>0 DEF Min
  <2>4. QED BY <2>1, <2>2, <2>3
<1> DEFINE a == SubSeq(s, 1, i - 1)
           b == SubSeq(s, i + 1, Len(s))
           t == a \o b
<1>3. /\ a \in Seq(S) /\ Len(a) = i - 1
      /\ \A l \in 1..(i - 1) : a[l] = s[l]
  <2>1. /\ a \in Seq(S)
        /\ Len(a) = IF 1 <= i - 1 THEN i - 1 - 1 + 1 ELSE 0
        /\ \A l \in 1..(i - 1 - 1 + 1) : a[l] = s[1 + l - 1]
    <3>1. 1 \in Int /\ i - 1 \in Int /\ \A l \in 1..(i - 1) : s[l] \in S
      BY <1>0
    <3>2. QED BY <3>1, SubSeqProperties
  <2>2. QED BY <1>0, <2>1
<1>4. /\ b \in Seq(S) /\ Len(b) = Len(s) - i
      /\ \A l \in 1..(Len(s) - i) : b[l] = s[i + l]
  <2>1. /\ b \in Seq(S)
        /\ Len(b) = IF i + 1 <= Len(s) THEN Len(s) - (i + 1) + 1 ELSE 0
        /\ \A l \in 1..(Len(s) - (i + 1) + 1) : b[l] = s[i + 1 + l - 1]
    <3>1. i + 1 \in Int /\ Len(s) \in Int /\ \A l \in (i + 1)..Len(s) : s[l] \in S
      BY <1>0
    <3>2. QED BY <3>1, SubSeqProperties
  <2> HIDE DEF b
  <2>2. Len(b) = Len(s) - i
    <3>1. CASE i + 1 <= Len(s)
      <4>1. Len(b) = Len(s) - (i + 1) + 1
        BY <2>1, <3>1
      <4>2. QED BY <1>0, <4>1
    <3>2. CASE ~(i + 1 <= Len(s))
      <4>1. Len(b) = 0
        BY <2>1, <3>2
      <4>2. Len(s) \in Nat /\ i \in Nat /\ i <= Len(s) /\ i + 1 > Len(s)
        BY <1>0, <3>2
      <4>3. i = Len(s)
        BY <4>2
      <4>4. QED BY <4>1, <4>2, <4>3
    <3>3. QED BY <3>1, <3>2
  <2>3. ASSUME NEW l \in 1..(Len(s) - i) PROVE b[l] = s[i + l]
    <3>1. l \in 1..(Len(s) - (i + 1) + 1) /\ i + 1 + l - 1 = i + l
      BY <1>0
    <3>2. b[l] = s[i + 1 + l - 1]
      BY <2>1, <3>1
    <3>3. QED BY <3>1, <3>2
  <2>4. QED BY <2>1, <2>2, <2>3
<1>5. /\ t \in Seq(S) /\ Len(t) = Len(s) - 1
      /\ \A l \in 1..(Len(s) - 1) : t[l] = IF l < i THEN s[l] ELSE s[l + 1]
  <2> HIDE DEF a, b
  <2>1. /\ t \in Seq(S) /\ Len(t) = Len(a) + Len(b)
        /\ \A l \in 1..(Len(a) + Len(b)) :
             t[l] = IF l <= Len(a) THEN a[l] ELSE b[l - Len(a)]
    BY <1>3, <1>4, ConcatProperties
  <2> HIDE DEF t
  <2>2. Len(t) = Len(s) - 1
    BY <1>0, <1>3, <1>4, <2>1
  <2>3. ASSUME NEW l \in 1..(Len(s) - 1)
        PROVE  t[l] = IF l < i THEN s[l] ELSE s[l + 1]
    <3>1. t[l] = IF l <= i - 1 THEN a[l] ELSE b[l - (i - 1)]
      BY <1>0, <1>3, <1>4, <2>1
    <3>2. CASE l < i
      BY <1>0, <1>3, <3>1, <3>2
    <3>3. CASE ~(l < i)
      <4>1. l - (i - 1) \in 1..(Len(s) - i) /\ i + (l - (i - 1)) = l + 1
        BY <1>0, <3>3
      <4>2. b[l - (i - 1)] = s[i + (l - (i - 1))]
        BY <1>4, <4>1
      <4>3. QED BY <1>0, <3>1, <3>3, <4>1, <4>2
    <3>4. QED BY <3>2, <3>3
  <2>4. QED BY <2>1, <2>2, <2>3
<1>6. DOMAIN t = 1..(Len(s) - 1)
  BY <1>5, LenProperties
<1>7. RemoveFirst(s, e) = t
  BY <1>2 DEF RemoveAt
<1> HIDE DEF t
<1>8. NoDuplicates(t)
  <2> SUFFICES ASSUME NEW x \in 1..(Len(s) - 1), NEW y \in 1..(Len(s) - 1),
                      t[x] = t[y]
               PROVE  x = y
    BY <1>5 DEF NoDuplicates
  <2>1. /\ t[x] = IF x < i THEN s[x] ELSE s[x + 1]
        /\ t[y] = IF y < i THEN s[y] ELSE s[y + 1]
    BY <1>5
  <2>2. x \in 1..Len(s) /\ x + 1 \in 1..Len(s) /\ y \in 1..Len(s) /\ y + 1 \in 1..Len(s)
    BY <1>0
  <2>3. \A u, v \in 1..Len(s) : s[u] = s[v] => u = v
    BY DEF NoDuplicates
  <2>4. CASE x < i /\ y < i
    BY <2>1, <2>2, <2>3, <2>4
  <2>5. CASE x < i /\ ~(y < i)
    <3>1. x = y + 1
      BY <2>1, <2>2, <2>3, <2>5
    <3>2. QED BY <1>0, <2>5, <3>1
  <2>6. CASE ~(x < i) /\ y < i
    <3>1. x + 1 = y
      BY <2>1, <2>2, <2>3, <2>6
    <3>2. QED BY <1>0, <2>6, <3>1
  <2>7. CASE ~(x < i) /\ ~(y < i)
    <3>1. x + 1 = y + 1
      BY <2>1, <2>2, <2>3, <2>7
    <3>2. QED BY <1>0, <3>1
  <2>8. QED BY <2>4, <2>5, <2>6, <2>7
<1>9. ToSet(t) = ToSet(s) \ {e}
  <2>1. ASSUME NEW x \in ToSet(t) PROVE x \in ToSet(s) /\ x # e
    <3>1. PICK l \in 1..(Len(s) - 1) : x = t[l]
      BY <1>6 DEF ToSet
    <3>2. PICK m \in 1..Len(s) : x = s[m] /\ m # i
      <4>1. x = IF l < i THEN s[l] ELSE s[l + 1]
        BY <1>5, <3>1
      <4>2. CASE l < i
        BY <1>0, <4>1, <4>2
      <4>3. CASE ~(l < i)
        <5>1. l + 1 \in 1..Len(s) /\ l + 1 # i /\ x = s[l + 1]
          BY <1>0, <4>1, <4>3
        <5>2. QED BY <5>1
      <4>4. QED BY <4>2, <4>3
    <3>3. QED BY <1>0, <1>1, <3>2 DEF ToSet, NoDuplicates
  <2>2. ASSUME NEW x \in ToSet(s), x # e PROVE x \in ToSet(t)
    <3>1. PICK l \in 1..Len(s) : x = s[l]
      BY <1>0 DEF ToSet
    <3>2. l # i
      BY <1>1, <2>2, <3>1
    <3>3. PICK m \in 1..(Len(s) - 1) : x = t[m]
      <4>1. CASE l < i
        <5>1. l \in 1..(Len(s) - 1) /\ t[l] = s[l]
          BY <1>0, <1>5, <4>1
        <5>2. QED BY <3>1, <5>1
      <4>2. CASE ~(l < i)
        <5>1. l - 1 \in 1..(Len(s) - 1) /\ ~(l - 1 < i) /\ l - 1 + 1 = l
          BY <1>0, <3>2, <4>2
        <5>2. t[l - 1] = s[l - 1 + 1]
          BY <1>5, <5>1
        <5>3. QED BY <3>1, <5>1, <5>2
      <4>3. QED BY <4>1, <4>2
    <3>4. QED BY <1>6, <3>3 DEF ToSet
  <2>3. QED BY <2>1, <2>2
<1>10. QED BY <1>5, <1>7, <1>8, <1>9

(* list.append of a key the list does not have.                            *)
LEMMA AppendLemma ==
  ASSUME NEW S, NEW s \in Seq(S), NoDuplicates(s), NEW e \in S, e \notin ToSet(s)
  PROVE  LET t == Append(s, e)
         IN  /\ t \in Seq(S)
             /\ Len(t) = Len(s) + 1
             /\ NoDuplicates(t)
             /\ ToSet(t) = ToSet(s) \cup {e}
<1> DEFINE t == Append(s, e)
<1>1. /\ Len(s) \in Nat /\ DOMAIN s = 1..Len(s)
  BY LenProperties
<1>2. /\ t \in Seq(S) /\ Len(t) = Len(s) + 1
      /\ \A i \in 1..Len(s) : t[i] = s[i]
      /\ t[Len(s) + 1] = e
  BY AppendProperties
<1>3. DOMAIN t = 1..(Len(s) + 1)
  BY <1>2, LenProperties
<1> HIDE DEF t
<1>4. \A i \in 1..Len(s) : s[i] # e
  BY <1>1 DEF ToSet
<1>5. 1..(Len(s) + 1) = (1..Len(s)) \cup {Len(s) + 1}
  BY <1>1
<1>6. NoDuplicates(t)
  BY <1>2, <1>4, <1>5 DEF NoDuplicates
<1>7. ToSet(t) = ToSet(s) \cup {e}
  BY <1>1, <1>2, <1>3, <1>5 DEF ToSet
<1>8. QED BY <1>2, <1>6, <1>7 DEF t

(* list.pop of the last key.                                               *)
LEMMA FrontLemma ==
  ASSUME NEW S, NEW s \in Seq(S), NoDuplicates(s), Len(s) >= 1
  PROVE  /\ Front(s) \in Seq(S)
         /\ Len(Front(s)) = Len(s) - 1
         /\ NoDuplicates(Front(s))
         /\ ToSet(Front(s)) = ToSet(s) \ {Last(s)}
         /\ Last(s) \in ToSet(s)
<1> DEFINE n == Len(s)
           t == Front(s)
<1>1. n \in Nat /\ DOMAIN s = 1..n /\ \A l \in 1..n : s[l] \in S
  BY LenProperties
<1>2. /\ t \in Seq(S)
      /\ Len(t) = IF 1 <= n - 1 THEN n - 1 - 1 + 1 ELSE 0
      /\ \A l \in 1..(n - 1 - 1 + 1) : t[l] = s[1 + l - 1]
  <2>1. 1 \in Int /\ n - 1 \in Int /\ \A l \in 1..(n - 1) : s[l] \in S
    BY <1>1
  <2>2. QED BY <2>1, SubSeqProperties DEF Front
<1>3. Len(t) = n - 1 /\ \A l \in 1..(n - 1) : t[l] = s[l]
  <2> HIDE DEF n, t
  <2>0. n >= 1
    BY DEF n
  <2>1. Len(t) = n - 1
    BY <1>1, <1>2, <2>0
  <2>2. ASSUME NEW l \in 1..(n - 1) PROVE t[l] = s[l]
    <3>1. l \in 1..(n - 1 - 1 + 1) /\ 1 + l - 1 = l
      BY <1>1
    <3>2. t[l] = s[1 + l - 1]
      BY <1>2, <3>1
    <3>3. QED BY <3>1, <3>2
  <2>3. QED BY <2>1, <2>2
<1>4. DOMAIN t = 1..(n - 1)
  BY <1>2, <1>3, LenProperties
<1>5. 1..n = (1..(n - 1)) \cup {n} /\ n \notin 1..(n - 1)
  BY <1>1
<1> HIDE DEF t, n
<1>6. \A i, j \in 1..n : s[i] = s[j] => i = j
  BY DEF NoDuplicates, n
<1>7. NoDuplicates(t)
  BY <1>3, <1>5, <1>6 DEF NoDuplicates
<1>8. ToSet(t) = ToSet(s) \ {s[n]} /\ s[n] \in ToSet(s)
  BY <1>1, <1>3, <1>4, <1>5, <1>6 DEF ToSet
<1>9. QED BY <1>2, <1>3, <1>7, <1>8 DEF t, n, Last
-----------------------------------------------------------------------------
(* get of a cached key: the key moves to the end of the list.              *)
LEMMA MoveAgrees ==
  ASSUME IInv, NEW p \in Processes, NEW k \in Keys, k \in DOMAIN cache[p]
  PROVE  LET t == Append(RemoveFirst(access_order[p], k), k)
         IN  t \in Seq(Keys) /\ Agree(t, cache[p])
<1> DEFINE s == access_order[p]
           r == RemoveFirst(s, k)
           t == Append(r, k)
<1>1. s \in Seq(Keys) /\ Agree(s, cache[p])
  BY DEF IInv, TypeInv, OrderInv
<1>2. k \in ToSet(s) /\ NoDuplicates(s) /\ Len(s) \in Nat
  BY <1>1, LenProperties DEF Agree
<1> HIDE DEF s
<1>3. /\ r \in Seq(Keys) /\ Len(r) = Len(s) - 1
      /\ NoDuplicates(r) /\ ToSet(r) = ToSet(s) \ {k}
  BY <1>1, <1>2, RemoveFirstLemma
<1> HIDE DEF r
<1>4. /\ t \in Seq(Keys) /\ Len(t) = Len(r) + 1
      /\ NoDuplicates(t) /\ ToSet(t) = ToSet(r) \cup {k}
  BY <1>3, AppendLemma
<1> HIDE DEF t
<1>5. Len(t) = Len(s) /\ ToSet(t) = ToSet(s)
  BY <1>2, <1>3, <1>4
<1>6. t \in Seq(Keys) /\ Agree(t, cache[p])
  BY <1>1, <1>4, <1>5 DEF Agree
<1>7. QED BY <1>6 DEF t, r, s

(* put of a key that is not cached.                                        *)
LEMMA PutAgrees ==
  ASSUME IInv, NEW p \in Processes, NEW v,
         key[p] \notin DOMAIN cache[p], Put(p, key[p], v)
  PROVE  /\ access_order' \in [Processes -> Seq(Keys)]
         /\ cache' = [q \in Processes |-> cache'[q]]
         /\ Agree(access_order'[p], cache'[p])
         /\ DOMAIN cache'[p] = DOMAIN cache[p] \cup {key[p]}
         /\ cache'[p][key[p]] = v
         /\ \A j \in DOMAIN cache[p] : cache'[p][j] = cache[p][j]
         /\ \A q \in Processes \ {p} :
              access_order'[q] = access_order[q] /\ cache'[q] = cache[q]
<1> DEFINE s == access_order[p]
           D == DOMAIN cache[p]
           t == Append(s, key[p])
           d == [j \in D \cup {key[p]} |-> IF j = key[p] THEN v ELSE cache[p][j]]
<1>1. /\ s \in Seq(Keys) /\ key[p] \in Keys
      /\ access_order \in [Processes -> Seq(Keys)]
      /\ cache = [q \in Processes |-> cache[q]]
  BY DEF IInv, TypeInv
<1>2. NoDuplicates(s) /\ ToSet(s) = D /\ IsFiniteSet(D) /\ Len(s) = Cardinality(D)
  BY DEF IInv, OrderInv, Agree
<1>3. /\ cache' = [cache EXCEPT ![p] = d]
      /\ access_order' = [access_order EXCEPT ![p] = t]
  BY DEF Put
<1>4. /\ t \in Seq(Keys) /\ Len(t) = Len(s) + 1
      /\ NoDuplicates(t) /\ ToSet(t) = ToSet(s) \cup {key[p]}
  <2> HIDE DEF s, D
  <2>1. key[p] \notin ToSet(s)
    BY <1>2 DEF D
  <2>2. QED BY <1>1, <1>2, <2>1, AppendLemma
<1>5. /\ DOMAIN d = D \cup {key[p]} /\ d[key[p]] = v
      /\ \A j \in D : d[j] = cache[p][j]
  OBVIOUS
<1>6. IsFiniteSet(D \cup {key[p]}) /\ Cardinality(D \cup {key[p]}) = Cardinality(D) + 1
  BY <1>2, FS_AddElement
<1> HIDE DEF d, t
<1>7. Agree(t, d)
  BY <1>2, <1>4, <1>5, <1>6 DEF Agree
<1>8. /\ access_order'[p] = t /\ cache'[p] = d
      /\ access_order' \in [Processes -> Seq(Keys)]
      /\ cache' = [q \in Processes |-> cache'[q]]
  BY <1>1, <1>3, <1>4
<1>9. \A q \in Processes \ {p} :
        access_order'[q] = access_order[q] /\ cache'[q] = cache[q]
  BY <1>1, <1>3
<1>10. QED BY <1>5, <1>7, <1>8, <1>9

(* victim of a full cache: the dict has the key the list ends with.        *)
LEMMA VictimAgrees ==
  ASSUME IInv, NEW p \in Processes, Cardinality(DOMAIN cache[p]) >= capacity
  PROVE  /\ Front(access_order[p]) \in Seq(Keys)
         /\ Agree(Front(access_order[p]),
                  Restrict(cache[p], DOMAIN cache[p] \ {Last(access_order[p])}))
<1> DEFINE s == access_order[p]
           D == DOMAIN cache[p]
           t == Front(s)
           e == Last(s)
           d == Restrict(cache[p], D \ {e})
<1>1. s \in Seq(Keys)
  BY DEF IInv, TypeInv
<1>2. NoDuplicates(s) /\ ToSet(s) = D /\ IsFiniteSet(D) /\ Len(s) = Cardinality(D)
  BY DEF IInv, OrderInv, Agree
<1>3. Len(s) >= 1
  <2>1. Len(s) \in Nat /\ Len(s) >= capacity
    BY <1>1, <1>2, LenProperties
  <2>2. QED BY <2>1, CacheAssumption
<1>4. /\ t \in Seq(Keys) /\ Len(t) = Len(s) - 1 /\ NoDuplicates(t)
      /\ ToSet(t) = ToSet(s) \ {e} /\ e \in ToSet(s)
  <2> HIDE DEF s
  <2>1. QED BY <1>1, <1>2, <1>3, FrontLemma
<1>5. DOMAIN d = D \ {e}
  BY DEF Restrict
<1>6. IsFiniteSet(D \ {e}) /\ Cardinality(D \ {e}) = Cardinality(D) - 1
  <2> HIDE DEF D, e
  <2>1. QED BY <1>2, <1>4, FS_RemoveElement
<1> HIDE DEF d, t, e
<1>7. Agree(t, d)
  BY <1>2, <1>4, <1>5, <1>6 DEF Agree
<1>8. QED BY <1>4, <1>7 DEF d, t, e

(* The empty dict and the empty list.                                      *)
LEMMA EmptyAgrees == << >> \in Seq(Keys) /\ Agree(<< >>, << >>)
<1>1. << >> \in Seq(Keys) /\ Len(<< >>) = 0 /\ DOMAIN << >> = {}
  OBVIOUS
<1>2. ToSet(<< >>) = {}
  BY <1>1 DEF ToSet
<1>3. NoDuplicates(<< >>)
  BY <1>1 DEF NoDuplicates
<1>4. IsFiniteSet({}) /\ Cardinality({}) = 0
  BY FS_EmptySet
<1>5. QED BY <1>1, <1>2, <1>3, <1>4 DEF Agree

(* The caches are empty when the processes start.                          *)
LEMMA InitIInv == Init => IInv
<1> SUFFICES ASSUME Init PROVE IInv
  OBVIOUS
<1>1. TypeInv
  BY EmptyAgrees DEF Init, TypeInv, States, PC
<1>2. OrderInv
  BY EmptyAgrees DEF Init, OrderInv
<1>3. QED BY <1>1, <1>2 DEF IInv

(* What a step of p does to the cache of a process, and to whether the graph
   of its call may be put there.                                           *)
OwnInv(p) ==
  /\ Agree(access_order[p], cache[p])
  /\ pc[p] \in {"open", "config", "forward", "compile"}
       => key[p] \notin DOMAIN cache[p]

(* A step that leaves the cache alone, and does not go from a pc at which a
   key may be cached to one at which it may not.                           *)
LEMMA CacheKept ==
  ASSUME IInv, NEW p \in Processes, NEW to \in PC,
         UNCHANGED <<cache, access_order, key>>,
         pc' = [pc EXCEPT ![p] = to],
         \/ to \notin {"open", "config", "forward", "compile"}
         \/ key[p] \notin DOMAIN cache[p]
  PROVE  \A q \in Processes : OwnInv(q)'
<1> SUFFICES ASSUME NEW q \in Processes PROVE OwnInv(q)'
  OBVIOUS
<1>1. OwnInv(q) /\ pc \in [Processes -> PC]
  BY DEF IInv, OrderInv, TypeInv, OwnInv
<1>2. Agree(access_order'[q], cache'[q])
  BY <1>1 DEF OwnInv
<1>3. CASE q = p
  BY <1>1, <1>2, <1>3 DEF OwnInv
<1>4. CASE q # p
  BY <1>1, <1>2, <1>4 DEF OwnInv
<1>5. QED BY <1>3, <1>4

(* Every step keeps the types.                                             *)
LEMMA NextTypeInv ==
  ASSUME IInv, NEW p \in Processes,
         (\E k \in Keys : Get(p, k)) \/ Step(p) \/ Crash(p)
  PROVE  TypeInv'
<1> USE DEF IInv, PC, States, Goto, memory, history
<1>1. ASSUME NEW k \in Keys, Get(p, k) PROVE TypeInv'
  <2>1. CASE k \in DOMAIN cache[p]
    <3>1. Append(RemoveFirst(access_order[p], k), k) \in Seq(Keys)
      BY <2>1, MoveAgrees
    <3>2. /\ access_order' = [access_order EXCEPT ![p] =
                                Append(RemoveFirst(access_order[p], k), k)]
          /\ pc' = [pc EXCEPT ![p] = "run"]
      BY <1>1, <2>1 DEF Get
    <3>3. access_order' \in [Processes -> Seq(Keys)]
      BY <3>1, <3>2 DEF TypeInv
    <3>4. pc' \in [Processes -> PC] /\ key' \in [Processes -> Keys]
      BY <1>1, <3>2 DEF Get, TypeInv
    <3>5. QED BY <1>1, <3>3, <3>4 DEF Get, TypeInv
  <2>2. CASE k \notin DOMAIN cache[p]
    BY <1>1, <2>2 DEF Get, TypeInv
  <2>3. QED BY <2>1, <2>2
<1>2. CASE OpenSession(p)
  <2>1. Racing(p) \in BOOLEAN
    BY DEF Racing
  <2>2. QED BY <1>2, <2>1 DEF OpenSession, TypeInv
<1>3. CASE ReadConfig(p)
  <2>1. CASE UNCHANGED <<cache, access_order>>
    BY <1>3, <2>1 DEF ReadConfig, TypeInv
  <2>2. ASSUME NEW v, pc[p] = "config", Put(p, key[p], v) PROVE TypeInv'
    <3>1. key[p] \notin DOMAIN cache[p]
      BY <2>2 DEF OrderInv
    <3>2. /\ access_order' \in [Processes -> Seq(Keys)]
          /\ cache' = [q \in Processes |-> cache'[q]]
      BY <2>2, <3>1, PutAgrees
    <3>3. QED BY <1>3, <3>2 DEF ReadConfig, TypeInv
  <2>3. QED BY <1>3, <2>1, <2>2 DEF ReadConfig
<1>4. CASE Eager(p)
  BY <1>4 DEF Eager, TypeInv
<1>5. CASE Victim(p)
  <2>1. CASE Cardinality(DOMAIN cache[p]) >= capacity
    <3>1. Front(access_order[p]) \in Seq(Keys)
      BY <2>1, VictimAgrees
    <3>2. QED BY <1>5, <2>1, <3>1 DEF Victim, TypeInv
  <2>2. CASE ~(Cardinality(DOMAIN cache[p]) >= capacity)
    BY <1>5, <2>2 DEF Victim, TypeInv
  <2>3. QED BY <2>1, <2>2
<1>6. CASE CompileFails(p)
  BY <1>6 DEF CompileFails, TypeInv
<1>7. CASE Compile(p)
  <2>1. key[p] \notin DOMAIN cache[p]
    BY <1>7 DEF Compile, OrderInv
  <2>2. /\ access_order' \in [Processes -> Seq(Keys)]
        /\ cache' = [q \in Processes |-> cache'[q]]
    BY <1>7, <2>1, PutAgrees DEF Compile
  <2>3. QED BY <1>7, <2>2 DEF Compile, TypeInv
<1>8. ASSUME NEW f \in Files, WriteBegin(p, f) PROVE TypeInv'
  BY <1>8 DEF WriteBegin, TypeInv
<1>9. CASE WriteEnd(p)
  <2>1. disk' \in [Keys -> [Files -> States]]
    BY <1>9 DEF WriteEnd, TypeInv
  <2>2. pc' \in [Processes -> PC]
    <3>1. CASE UNCHANGED pc
      BY <3>1 DEF TypeInv
    <3>2. CASE Goto(p, "write", "run")
      BY <3>2 DEF TypeInv
    <3>3. QED BY <1>9, <3>1, <3>2 DEF WriteEnd
  <2>3. QED BY <1>9, <2>1, <2>2 DEF WriteEnd, TypeInv
<1>10. CASE Run(p)
  BY <1>10 DEF Run, TypeInv
<1>11. CASE Crash(p)
  <2>1. /\ access_order' \in [Processes -> Seq(Keys)]
        /\ cache' = [q \in Processes |-> cache'[q]]
    BY <1>11, EmptyAgrees DEF Crash, TypeInv
  <2>2. /\ pc' \in [Processes -> PC] /\ crashes' \in Nat
        /\ unwritten' \in [Processes -> SUBSET Files]
        /\ writing' \in [Processes -> SUBSET Files]
    BY <1>11 DEF Crash, TypeInv
  <2>3. QED BY <1>11, <2>1, <2>2 DEF Crash, TypeInv
<1>12. QED
  BY <1>1, <1>2, <1>3, <1>4, <1>5, <1>6, <1>7, <1>8, <1>9, <1>10, <1>11
     DEF Step

(* ... and the agreement of every cache with its list.                     *)
LEMMA NextOwnInv ==
  ASSUME IInv, NEW p \in Processes,
         (\E k \in Keys : Get(p, k)) \/ Step(p) \/ Crash(p)
  PROVE  \A q \in Processes : OwnInv(q)'
<1>0. /\ pc \in [Processes -> PC] /\ key \in [Processes -> Keys]
      /\ access_order \in [Processes -> Seq(Keys)]
      /\ cache = [q \in Processes |-> cache[q]]
      /\ \A q \in Processes : OwnInv(q)
  BY DEF IInv, TypeInv, OrderInv, OwnInv
<1>1. SUFFICES ASSUME ~(\A q \in Processes : OwnInv(q)') PROVE FALSE
  OBVIOUS
<1>2. ASSUME NEW k \in Keys, Get(p, k) PROVE FALSE
  <2>1. ASSUME NEW q \in Processes, q # p PROVE OwnInv(q)'
    <3>1. /\ pc'[q] = pc[q] /\ key'[q] = key[q]
          /\ cache'[q] = cache[q] /\ access_order'[q] = access_order[q]
      BY <1>0, <1>2, <2>1 DEF Get
    <3>2. QED BY <1>0, <3>1 DEF OwnInv
  <2>2. CASE k \in DOMAIN cache[p]
    <3>1. Agree(Append(RemoveFirst(access_order[p], k), k), cache[p])
      BY <2>2, MoveAgrees
    <3>2. /\ pc'[p] = "run" /\ cache'[p] = cache[p]
          /\ access_order'[p] = Append(RemoveFirst(access_order[p], k), k)
      BY <1>0, <1>2, <2>2 DEF Get
    <3>3. OwnInv(p)'
      BY <3>1, <3>2 DEF OwnInv
    <3>4. QED BY <1>1, <2>1, <3>3
  <2>3. CASE k \notin DOMAIN cache[p]
    <3>1. /\ key'[p] = k /\ cache'[p] = cache[p]
          /\ access_order'[p] = access_order[p]
      BY <1>0, <1>2, <2>3 DEF Get
    <3>2. OwnInv(p)'
      BY <1>0, <2>3, <3>1 DEF OwnInv
    <3>3. QED BY <1>1, <2>1, <3>2
  <2>4. QED BY <2>2, <2>3
<1>3. ASSUME NEW to \in PC, UNCHANGED <<cache, access_order, key>>,
             pc' = [pc EXCEPT ![p] = to],
             \/ to \notin {"open", "config", "forward", "compile"}
             \/ key[p] \notin DOMAIN cache[p]
      PROVE  FALSE
  BY <1>1, <1>3, CacheKept
<1>4. ASSUME NEW v, NEW to \in {"run", "write"},
             pc[p] \in {"config", "compile"}, UNCHANGED key,
             pc' = [pc EXCEPT ![p] = to], Put(p, key[p], v)
      PROVE  FALSE
  <2>1. key[p] \notin DOMAIN cache[p]
    BY <1>0, <1>4 DEF OwnInv
  <2>2. /\ Agree(access_order'[p], cache'[p])
        /\ \A q \in Processes \ {p} :
             access_order'[q] = access_order[q] /\ cache'[q] = cache[q]
    BY <1>4, <2>1, PutAgrees
  <2>3. OwnInv(p)'
    BY <1>0, <1>4, <2>2 DEF OwnInv
  <2>4. ASSUME NEW q \in Processes, q # p PROVE OwnInv(q)'
    <3>1. /\ pc'[q] = pc[q] /\ key'[q] = key[q]
          /\ cache'[q] = cache[q] /\ access_order'[q] = access_order[q]
      BY <1>0, <1>4, <2>2, <2>4
    <3>2. QED BY <1>0, <3>1 DEF OwnInv
  <2>5. QED BY <1>1, <2>3, <2>4
<1>5. CASE OpenSession(p)
  <2>1. key[p] \notin DOMAIN cache[p]
    BY <1>0, <1>5 DEF OpenSession, Goto, OwnInv
  <2>2. QED BY <1>3, <1>5, <2>1 DEF OpenSession, Goto, PC, memory
<1>6. CASE ReadConfig(p)
  BY <1>3, <1>4, <1>6 DEF ReadConfig, Goto, PC
<1>7. CASE Eager(p)
  BY <1>3, <1>7 DEF Eager, Goto, PC, memory
<1>8. CASE Victim(p)
  <2>0. key[p] \notin DOMAIN cache[p]
    BY <1>0, <1>8 DEF Victim, Goto, OwnInv
  <2>1. CASE Cardinality(DOMAIN cache[p]) >= capacity
    <3> DEFINE d == Restrict(cache[p], DOMAIN cache[p] \ {Last(access_order[p])})
    <3>1. Agree(Front(access_order[p]), d)
      BY <2>1, VictimAgrees
    <3>2. DOMAIN d \subseteq DOMAIN cache[p]
      BY DEF Restrict
    <3>3. /\ access_order'[p] = Front(access_order[p]) /\ cache'[p] = d
          /\ key'[p] = key[p]
      BY <1>0, <1>8, <2>1 DEF Victim
    <3> HIDE DEF d
    <3>4. OwnInv(p)'
      BY <2>0, <3>1, <3>2, <3>3 DEF OwnInv
    <3>5. ASSUME NEW q \in Processes, q # p PROVE OwnInv(q)'
      <4>1. /\ pc'[q] = pc[q] /\ key'[q] = key[q]
            /\ cache'[q] = cache[q] /\ access_order'[q] = access_order[q]
        BY <1>0, <1>8, <2>1, <3>5 DEF Victim, Goto
      <4>2. QED BY <1>0, <4>1 DEF OwnInv
    <3>6. QED BY <1>1, <3>4, <3>5
  <2>2. CASE ~(Cardinality(DOMAIN cache[p]) >= capacity)
    BY <1>3, <1>8, <2>0, <2>2 DEF Victim, Goto, PC
  <2>3. QED BY <2>1, <2>2
<1>9. CASE CompileFails(p)
  BY <1>3, <1>9 DEF CompileFails, Goto, PC
<1>10. CASE Compile(p)
  BY <1>4, <1>10 DEF Compile, Goto
<1>11. ASSUME NEW f \in Files, WriteBegin(p, f) PROVE FALSE
  BY <1>0, <1>1, <1>11 DEF WriteBegin, memory, OwnInv
<1>12. CASE WriteEnd(p)
  <2>1. CASE UNCHANGED pc
    BY <1>0, <1>1, <1>12, <2>1 DEF WriteEnd, memory, OwnInv
  <2>2. CASE Goto(p, "write", "run")
    BY <1>3, <1>12, <2>2 DEF WriteEnd, Goto, PC, memory
  <2>3. QED BY <1>12, <2>1, <2>2 DEF WriteEnd
<1>13. CASE Run(p)
  BY <1>3, <1>13 DEF Run, Goto, PC, memory
<1>14. CASE Crash(p)
  <2>1. /\ access_order'[p] = << >> /\ cache'[p] = << >> /\ pc'[p] = "idle"
    BY <1>0, <1>14 DEF Crash
  <2>2. OwnInv(p)'
    BY <2>1, EmptyAgrees DEF OwnInv
  <2>3. ASSUME NEW q \in Processes, q # p PROVE OwnInv(q)'
    <3>1. /\ pc'[q] = pc[q] /\ key'[q] = key[q]
          /\ cache'[q] = cache[q] /\ access_order'[q] = access_order[q]
      BY <1>0, <1>14, <2>3 DEF Crash
    <3>2. QED BY <1>0, <3>1 DEF OwnInv
  <2>4. QED BY <1>1, <2>2, <2>3
<1>15. QED
  BY <1>2, <1>5, <1>6, <1>7, <1>8, <1>9, <1>10, <1>11, <1>12, <1>13, <1>14
     DEF Step

(* No step of a process, and no kill, breaks the invariant.                *)
LEMMA NextIInv == IInv /\ [Next]_vars => IInv'
<1> SUFFICES ASSUME IInv, [Next]_vars PROVE IInv'
  OBVIOUS
<1>1. CASE UNCHANGED vars
  <2>1. TypeInv'
    BY <1>1 DEF IInv, TypeInv, vars, memory, history
  <2>2. OrderInv'
    BY <1>1 DEF IInv, OrderInv, vars, memory
  <2>3. QED BY <2>1, <2>2 DEF IInv
<1>2. ASSUME NEW p \in Processes,
             (\E k \in Keys : Get(p, k)) \/ Step(p) \/ Crash(p)
      PROVE  IInv'
  <2>1. TypeInv'
    BY <1>2, NextTypeInv
  <2>2. \A q \in Processes : OwnInv(q)'
    BY <1>2, NextOwnInv
  <2>3. OrderInv'
    BY <2>2 DEF OrderInv, OwnInv
  <2>4. QED BY <2>1, <2>3 DEF IInv
<1>3. QED BY <1>1, <1>2 DEF Next

(* The inductive invariant: types, and the list of a cache agrees with its
   dict whatever get, put and remove a process is in.                      *)
THEOREM Invariance == Spec => []IInv
BY InitIInv, NextIInv, PTL DEF Spec

(* put's check never prints its error: whatever the processes do, and
   whenever they are killed, the list of a cache has every cached key once
   and no other.                                                           *)
THEOREM ListAgreesWithDict == Spec => []OrderMatchesCache
<1>1. IInv => OrderMatchesCache
  BY DEF IInv, OrderInv, Agree, OrderMatchesCache
<1>2. QED BY <1>1, Invariance, PTL
-----------------------------------------------------------------------------
(* A process that has the folder to itself and is not killed.  The files of a
   model are all there or none is, but for the model that is being written:
   of that one every file is whole that was closed.  A session that was
   opened has its constants, and so has every session in the cache.        *)
FolderInv(p) ==
  /\ \A k \in Keys : pc[p] # "write" \/ k # key[p] => Entry(k)
  /\ \A f \in Files :
       pc[p] = "write" /\ f \notin unwritten[p] \cup writing[p]
         => disk[key[p]][f] = "whole"

WriteInv(p) ==
  /\ pc[p] # "write" => writing[p] = {}
  /\ \A f, g \in writing[p] : f = g

LoadInv(p) ==
  /\ pc[p] = "config"
       => sess[p] = TRUE /\ \A f \in Files : disk[key[p]][f] = "whole"
  /\ \A k \in DOMAIN cache[p] : cache[p][k] = Value(TRUE, "own")

AloneInv ==
  /\ crashes = 0
  /\ \A p \in Processes : FolderInv(p) /\ WriteInv(p) /\ LoadInv(p)

(* A step of the only process that changes neither the folder nor how far it
   is written.                                                             *)
LEMMA FolderKept ==
  ASSUME IInv, AloneInv, NEW p \in Processes,
         UNCHANGED <<disk, unwritten, writing>>,
         pc[p] # "write", pc'[p] # "write"
  PROVE  FolderInv(p)' /\ WriteInv(p)'
<1>1. FolderInv(p) /\ WriteInv(p)
  BY DEF AloneInv
<1>2. \A k \in Keys : Entry(k)'
  BY <1>1 DEF FolderInv, Entry
<1>3. FolderInv(p)'
  BY <1>2 DEF FolderInv
<1>4. WriteInv(p)'
  BY <1>1 DEF WriteInv
<1>5. QED BY <1>3, <1>4

(* A step of the only process that leaves its cache as it is.              *)
LEMMA LoadKept ==
  ASSUME AloneInv, NEW p \in Processes, cache'[p] = cache[p], pc'[p] # "config"
  PROVE  LoadInv(p)'
<1>1. \A k \in DOMAIN cache[p] : cache[p][k] = Value(TRUE, "own")
  BY DEF AloneInv, LoadInv
<1>2. \A k \in DOMAIN cache'[p] : cache'[p][k] = Value(TRUE, "own")
  BY <1>1
<1>3. QED BY <1>2 DEF LoadInv, Value

(* A process that has the folder to itself finds in it what it wrote.      *)
LEMMA NextAloneInv ==
  ASSUME \A p, q \in Processes : p = q, MaxCrashes = 0,
         IInv, AloneInv, [Next]_vars
  PROVE  AloneInv'
<1>1. CASE UNCHANGED vars
  <2>1. UNCHANGED <<disk, cache, pc, key, sess, unwritten, writing, crashes>>
    BY <1>1 DEF vars, memory
  <2>2. ASSUME NEW p \in Processes
        PROVE  FolderInv(p)' /\ WriteInv(p)' /\ LoadInv(p)'
    <3>1. FolderInv(p) /\ WriteInv(p) /\ LoadInv(p)
      BY DEF AloneInv
    <3>2. FolderInv(p)'
      BY <2>1, <3>1 DEF FolderInv, Entry
    <3>3. WriteInv(p)'
      BY <2>1, <3>1 DEF WriteInv
    <3>4. LoadInv(p)'
      BY <2>1, <3>1 DEF LoadInv
    <3>5. QED BY <3>2, <3>3, <3>4
  <2>3. QED BY <2>1, <2>2 DEF AloneInv
<1>2. ASSUME NEW p \in Processes,
             (\E k \in Keys : Get(p, k)) \/ Step(p) \/ Crash(p)
      PROVE  AloneInv'
  <2>0. /\ disk \in [Keys -> [Files -> States]]
        /\ pc \in [Processes -> PC] /\ key \in [Processes -> Keys]
        /\ sess \in [Processes -> BOOLEAN]
        /\ unwritten \in [Processes -> SUBSET Files]
        /\ writing \in [Processes -> SUBSET Files]
        /\ cache = [q \in Processes |-> cache[q]]
        /\ key[p] \in Keys
    BY DEF IInv, TypeInv
  <2>1. /\ crashes = 0 /\ FolderInv(p) /\ WriteInv(p) /\ LoadInv(p)
    BY DEF AloneInv
  <2>2. SUFFICES crashes' = 0 /\ FolderInv(p)' /\ WriteInv(p)' /\ LoadInv(p)'
    BY DEF AloneInv
  <2>3. ASSUME NEW k \in Keys, Get(p, k)
        PROVE  crashes' = 0 /\ FolderInv(p)' /\ WriteInv(p)' /\ LoadInv(p)'
    <3>1. /\ pc[p] = "idle" /\ pc'[p] \in {"run", "open"}
          /\ UNCHANGED <<disk, cache, unwritten, writing, crashes>>
      BY <2>0, <2>3 DEF Get
    <3>2. QED BY <2>1, <3>1, FolderKept, LoadKept
  <2>4. CASE OpenSession(p)
    <3>1. /\ pc[p] = "open" /\ pc'[p] \in {"idle", "forward", "config"}
          /\ UNCHANGED <<disk, cache, key, unwritten, writing, crashes>>
      BY <2>0, <2>4 DEF OpenSession, Goto, memory
    <3>2. pc'[p] = "config" => disk[key[p]]["so"] = "whole"
      BY <2>0, <2>4 DEF OpenSession, Goto
    <3>3. pc'[p] = "config" => \A f \in Files : disk[key[p]][f] = "whole"
      BY <2>0, <2>1, <3>1, <3>2 DEF FolderInv, Entry, Files, Compiled
    <3>4. sess'[p] = (disk[key[p]]["constants"] = "whole")
      BY <2>0, <2>4 DEF OpenSession
    <3>5. pc'[p] = "config" => sess'[p] = TRUE
      BY <3>3, <3>4 DEF Files, Compiled
    <3>6. LoadInv(p)'
      BY <2>1, <3>1, <3>3, <3>5 DEF LoadInv
    <3>7. QED BY <2>1, <3>1, <3>6, FolderKept
  <2>5. CASE ReadConfig(p)
    <3>1. /\ pc[p] = "config" /\ pc'[p] \in {"idle", "run"}
          /\ UNCHANGED <<disk, unwritten, writing, crashes>>
      BY <2>0, <2>5 DEF ReadConfig, Goto
    <3>2. sess[p] = TRUE /\ disk[key[p]]["config"] = "whole"
      BY <2>1, <3>1 DEF LoadInv, Files
    <3>3. Put(p, key[p], Value(TRUE, "own"))
      BY <2>5, <3>2 DEF ReadConfig
    <3>4. key[p] \notin DOMAIN cache[p]
      BY <3>1 DEF IInv, OrderInv
    <3>5. /\ DOMAIN cache'[p] = DOMAIN cache[p] \cup {key[p]}
          /\ cache'[p][key[p]] = Value(TRUE, "own")
          /\ \A j \in DOMAIN cache[p] : cache'[p][j] = cache[p][j]
      BY <3>3, <3>4, PutAgrees
    <3>6. LoadInv(p)'
      BY <2>1, <3>1, <3>5 DEF LoadInv
    <3>7. QED BY <2>1, <3>1, <3>6, FolderKept
  <2>6. CASE Eager(p)
    <3>1. /\ pc[p] = "forward" /\ pc'[p] = "idle"
          /\ UNCHANGED <<disk, cache, unwritten, writing, crashes>>
      BY <2>0, <2>6 DEF Eager, Goto, memory
    <3>2. QED BY <2>1, <3>1, FolderKept, LoadKept
  <2>7. CASE Victim(p)
    <3>1. /\ pc[p] = "forward" /\ pc'[p] = "compile"
          /\ UNCHANGED <<disk, unwritten, writing, crashes>>
      BY <2>0, <2>7 DEF Victim, Goto
    <3>2. \A k \in DOMAIN cache'[p] :
            k \in DOMAIN cache[p] /\ cache'[p][k] = cache[p][k]
      <4> DEFINE D == DOMAIN cache[p] \ {Last(access_order[p])}
      <4>1. CASE cache' = [cache EXCEPT ![p] = Restrict(cache[p], D)]
        <5>1. cache'[p] = [k \in D |-> cache[p][k]]
          BY <2>0, <4>1 DEF Restrict
        <5>2. QED BY <5>1
      <4>2. CASE UNCHANGED cache
        BY <4>2
      <4>3. QED BY <2>7, <4>1, <4>2 DEF Victim
    <3>3. LoadInv(p)'
      BY <2>1, <3>1, <3>2 DEF LoadInv
    <3>4. QED BY <2>1, <3>1, <3>3, FolderKept
  <2>8. CASE CompileFails(p)
    <3>1. /\ pc[p] = "compile" /\ pc'[p] = "idle"
          /\ UNCHANGED <<disk, cache, unwritten, writing, crashes>>
      BY <2>0, <2>8 DEF CompileFails, Goto
    <3>2. QED BY <2>1, <3>1, FolderKept, LoadKept
  <2>9. CASE Compile(p)
    <3>1. /\ pc[p] = "compile" /\ pc'[p] = "write" /\ unwritten'[p] = Files
          /\ Put(p, key[p], Value(TRUE, "own"))
          /\ UNCHANGED <<disk, key, writing, crashes>>
      BY <2>0, <2>9 DEF Compile, Goto
    <3>2. FolderInv(p)'
      BY <2>1, <3>1 DEF FolderInv, Entry
    <3>3. WriteInv(p)'
      BY <2>1, <3>1 DEF WriteInv
    <3>4. key[p] \notin DOMAIN cache[p]
      BY <3>1 DEF IInv, OrderInv
    <3>5. /\ DOMAIN cache'[p] = DOMAIN cache[p] \cup {key[p]}
          /\ cache'[p][key[p]] = Value(TRUE, "own")
          /\ \A j \in DOMAIN cache[p] : cache'[p][j] = cache[p][j]
      BY <3>1, <3>4, PutAgrees
    <3>6. LoadInv(p)'
      BY <2>1, <3>1, <3>5 DEF LoadInv
    <3>7. QED BY <2>1, <3>1, <3>2, <3>3, <3>6
  <2>10. ASSUME NEW f \in Files, WriteBegin(p, f)
         PROVE  crashes' = 0 /\ FolderInv(p)' /\ WriteInv(p)' /\ LoadInv(p)'
    <3>1. /\ pc[p] = "write" /\ UNCHANGED <<pc, key, cache, crashes>>
          /\ writing[p] = {}
          /\ disk' = [disk EXCEPT ![key[p]][f] = "partial"]
          /\ unwritten'[p] = unwritten[p] \ {f} /\ writing'[p] = {f}
      BY <2>0, <2>10 DEF WriteBegin, memory
    <3>2. /\ \A k \in Keys : k # key[p] => disk'[k] = disk[k]
          /\ \A g \in Files : g # f => disk'[key[p]][g] = disk[key[p]][g]
      BY <2>0, <3>1
    <3>3. FolderInv(p)'
      <4>1. \A k \in Keys : k # key[p] => Entry(k)'
        BY <2>1, <3>2 DEF FolderInv, Entry
      <4>2. \A g \in Files : g \notin unwritten'[p] \cup writing'[p]
                             => disk'[key[p]][g] = "whole"
        BY <2>1, <3>1, <3>2 DEF FolderInv
      <4>3. QED BY <3>1, <4>1, <4>2 DEF FolderInv
    <3>4. WriteInv(p)'
      BY <3>1 DEF WriteInv
    <3>5. QED BY <2>1, <3>1, <3>3, <3>4, LoadKept
  <2>11. CASE WriteEnd(p)
    <3>1. PICK f \in writing[p] : disk' = [disk EXCEPT ![key[p]][f] =
                  IF \E q \in Processes \ {p} :
                       key[q] = key[p] /\ f \in writing[q]
                  THEN "partial" ELSE "whole"]
      BY <2>11 DEF WriteEnd
    <3>2. disk' = [disk EXCEPT ![key[p]][f] = "whole"]
      BY <3>1
    <3>3. /\ pc[p] = "write" /\ UNCHANGED <<key, cache, unwritten, crashes>>
          /\ writing'[p] = {} /\ f \in Files /\ writing[p] = {f}
      BY <2>0, <2>1, <2>11 DEF WriteEnd, WriteInv, memory
    <3>4. /\ \A k \in Keys : k # key[p] => disk'[k] = disk[k]
          /\ \A g \in Files : g # f => disk'[key[p]][g] = disk[key[p]][g]
          /\ disk'[key[p]][f] = "whole"
      BY <2>0, <3>2, <3>3
    <3>5. \A g \in Files : g \notin unwritten[p] => disk'[key[p]][g] = "whole"
      BY <2>1, <3>3, <3>4 DEF FolderInv
    <3>6. \A k \in Keys : k # key[p] => Entry(k)'
      BY <2>1, <3>4 DEF FolderInv, Entry
    <3>7. WriteInv(p)'
      BY <3>3 DEF WriteInv
    <3>8. CASE unwritten[p] = {}
      <4>1. pc'[p] = "run"
        BY <2>0, <2>11, <3>8 DEF WriteEnd, Goto
      <4>2. Entry(key[p])'
        BY <3>3, <3>5, <3>8 DEF Entry
      <4>3. FolderInv(p)'
        BY <3>3, <3>6, <4>1, <4>2 DEF FolderInv
      <4>4. QED BY <2>1, <3>3, <3>7, <4>1, <4>3, LoadKept
    <3>9. CASE unwritten[p] # {}
      <4>1. pc' = pc
        BY <2>11, <3>9 DEF WriteEnd
      <4>2. FolderInv(p)'
        BY <3>3, <3>5, <3>6, <4>1 DEF FolderInv
      <4>3. QED BY <2>1, <3>3, <3>7, <4>1, <4>2, LoadKept
    <3>10. QED BY <3>8, <3>9
  <2>12. CASE Run(p)
    <3>1. /\ pc[p] = "run" /\ pc'[p] = "idle"
          /\ UNCHANGED <<disk, cache, unwritten, writing, crashes>>
      BY <2>0, <2>12 DEF Run, Goto, memory
    <3>2. QED BY <2>1, <3>1, FolderKept, LoadKept
  <2>13. CASE Crash(p)
    BY <2>1, <2>13 DEF Crash
  <2>14. QED
    BY <1>2, <2>3, <2>4, <2>5, <2>6, <2>7, <2>8, <2>9, <2>10, <2>11, <2>12,
       <2>13 DEF Step
<1>3. QED BY <1>1, <1>2 DEF Next

(* The folder is empty when the only process starts.                       *)
LEMMA InitAloneInv == Init => AloneInv
<1> SUFFICES ASSUME Init PROVE AloneInv
  OBVIOUS
<1> SUFFICES ASSUME NEW p \in Processes
             PROVE  FolderInv(p) /\ WriteInv(p) /\ LoadInv(p)
  BY DEF Init, AloneInv
<1>1. FolderInv(p)
  BY DEF Init, FolderInv, Entry
<1>2. WriteInv(p)
  BY DEF Init, WriteInv
<1>3. LoadInv(p)
  <2>1. DOMAIN cache[p] = {} /\ pc[p] = "idle"
    BY DEF Init
  <2>2. QED BY <2>1 DEF LoadInv
<1>4. QED BY <1>1, <1>2, <1>3

(* A process that has the cache folder to itself and is not killed finds
   every session with its constants and the indices of its graph.          *)
THEOREM SessionsAreWhole ==
  ASSUME \A p, q \in Processes : p = q, MaxCrashes = 0
  PROVE  Spec => []RestoredWhole
<1>1. IInv /\ AloneInv => RestoredWhole
  BY DEF AloneInv, LoadInv, RestoredWhole, Value
<1>2. IInv /\ AloneInv /\ [Next]_vars => AloneInv'
  BY NextAloneInv
<1>3. QED BY <1>1, <1>2, InitAloneInv, Invariance, PTL DEF Spec
-----------------------------------------------------------------------------
(* Any number of processes, killed at any step.  An entry that no killed
   process left torn lacks a file only if a process that writes the entry
   has yet to close that file; what a process has opened it never leaves
   absent, and a session without constants was opened from an entry at
   risk.                                                                   *)
Pending(k, f) ==
  \E q \in Processes :
    pc[q] = "write" /\ key[q] = k /\ f \in unwritten[q] \cup writing[q]

CloseInv(q) ==
  /\ pc[q] # "write" => writing[q] = {}
  /\ \A f, g \in writing[q] : f = g
  /\ \A f \in writing[q] : disk[key[q]][f] = "partial"
  /\ pc[q] = "write" =>
       \A f \in Files : f \in unwritten[q] \/ disk[key[q]][f] # "absent"
  /\ pc[q] = "config" => disk[key[q]]["so"] # "absent" /\ (sess[q] \/ exposed[q])

EntryInv ==
  \A k \in Keys : \A f \in Files :
    \/ k \in torn \/ Entry(k) \/ disk[k][f] = "whole" \/ Pending(k, f)

SharedInv == (\A q \in Processes : CloseInv(q)) /\ EntryInv

(* An entry that is neither whole nor absent puts who loads it at risk.    *)
LEMMA IncompleteRaces ==
  ASSUME IInv, EntryInv, NEW p \in Processes, pc[p] # "write", ~Entry(key[p])
  PROVE  Racing(p)
<1>1. key[p] \in Keys /\ disk[key[p]] \in [Files -> States]
  BY DEF IInv, TypeInv
<1>2. PICK f \in Files : disk[key[p]][f] # "whole"
  BY DEF Entry
<1>3. CASE key[p] \in torn
  BY <1>3 DEF Racing
<1>4. CASE Pending(key[p], f)
  BY <1>4 DEF Pending, Racing
<1>5. QED BY <1>1, <1>2, <1>3, <1>4 DEF EntryInv

(* A step of p that does not write and leaves p outside write_to_disk, or
   has it there from the start.                                            *)
LEMMA PendingKept ==
  ASSUME IInv, SharedInv, NEW p \in Processes,
         UNCHANGED <<disk, writing, torn>>, pc[p] # "write",
         \A q \in Processes \ {p} :
           pc'[q] = pc[q] /\ key'[q] = key[q] /\ unwritten'[q] = unwritten[q]
  PROVE  EntryInv'
<1> SUFFICES ASSUME NEW k \in Keys, NEW f \in Files
             PROVE  \/ k \in torn' \/ Entry(k)' \/ disk'[k][f] = "whole"
                    \/ Pending(k, f)'
  BY DEF EntryInv
<1>1. Entry(k)' <=> Entry(k)
  BY DEF Entry
<1>2. Pending(k, f) => Pending(k, f)'
  BY DEF Pending
<1>3. QED BY <1>1, <1>2 DEF SharedInv, EntryInv

(* What a step of p that leaves the folder alone does to the others.       *)
LEMMA OthersKept ==
  ASSUME SharedInv, NEW p \in Processes, UNCHANGED <<disk, writing>>,
         \A q \in Processes \ {p} :
           /\ pc'[q] = pc[q] /\ key'[q] = key[q] /\ unwritten'[q] = unwritten[q]
           /\ sess'[q] = sess[q] /\ exposed'[q] = exposed[q]
  PROVE  \A q \in Processes \ {p} : CloseInv(q)'
<1> SUFFICES ASSUME NEW q \in Processes \ {p} PROVE CloseInv(q)'
  OBVIOUS
<1>1. CloseInv(q)
  BY DEF SharedInv
<1>2. /\ pc'[q] = pc[q] /\ key'[q] = key[q] /\ unwritten'[q] = unwritten[q]
      /\ sess'[q] = sess[q] /\ exposed'[q] = exposed[q]
      /\ writing'[q] = writing[q] /\ disk' = disk
  OBVIOUS
<1>3. QED BY <1>1, <1>2 DEF CloseInv

(* A step of p that writes no file.                                        *)
LEMMA LoadSharedInv ==
  ASSUME IInv, SharedInv, NEW p \in Processes,
         \/ \E k \in Keys : Get(p, k)
         \/ OpenSession(p) \/ ReadConfig(p) \/ Eager(p) \/ Victim(p)
         \/ CompileFails(p) \/ Compile(p) \/ Run(p)
  PROVE  SharedInv'
<1>0. /\ pc \in [Processes -> PC] /\ key \in [Processes -> Keys]
      /\ sess \in [Processes -> BOOLEAN] /\ exposed \in [Processes -> BOOLEAN]
      /\ unwritten \in [Processes -> SUBSET Files]
      /\ writing \in [Processes -> SUBSET Files]
      /\ disk \in [Keys -> [Files -> States]]
      /\ CloseInv(p) /\ EntryInv
  BY DEF IInv, TypeInv, SharedInv
<1>1. SUFFICES /\ UNCHANGED <<disk, writing, torn>> /\ pc[p] # "write"
               /\ \A q \in Processes \ {p} :
                    /\ pc'[q] = pc[q] /\ key'[q] = key[q]
                    /\ unwritten'[q] = unwritten[q]
                    /\ sess'[q] = sess[q] /\ exposed'[q] = exposed[q]
               /\ pc'[p] = "write" => unwritten'[p] = Files
               /\ pc'[p] = "config" =>
                    disk[key'[p]]["so"] # "absent" /\ (sess'[p] \/ exposed'[p])
  <2>1. SUFFICES ASSUME /\ UNCHANGED <<disk, writing, torn>>
                        /\ pc[p] # "write"
                        /\ \A q \in Processes \ {p} :
                             /\ pc'[q] = pc[q] /\ key'[q] = key[q]
                             /\ unwritten'[q] = unwritten[q]
                             /\ sess'[q] = sess[q] /\ exposed'[q] = exposed[q]
                        /\ pc'[p] = "write" => unwritten'[p] = Files
                        /\ pc'[p] = "config" =>
                             /\ disk[key'[p]]["so"] # "absent"
                             /\ sess'[p] \/ exposed'[p]
                 PROVE  SharedInv'
    OBVIOUS
  <2>2. EntryInv'
    BY <2>1, PendingKept
  <2>3. \A q \in Processes \ {p} : CloseInv(q)'
    BY <2>1, OthersKept
  <2>4. CloseInv(p)'
    <3>1. writing'[p] = {}
      BY <1>0, <2>1 DEF CloseInv
    <3>2. QED BY <2>1, <3>1 DEF CloseInv
  <2>5. QED BY <2>2, <2>3, <2>4 DEF SharedInv
<1> USE <1>0 DEF Goto, PC, memory, history
<1>2. ASSUME NEW k \in Keys, Get(p, k)
      PROVE    /\ UNCHANGED <<disk, writing, torn, unwritten, sess, exposed>>
               /\ pc[p] = "idle" /\ pc'[p] \in {"run", "open"}
               /\ \A q \in Processes \ {p} : pc'[q] = pc[q] /\ key'[q] = key[q]
  BY <1>2 DEF Get
<1>3. CASE OpenSession(p)
  <2>1. /\ UNCHANGED <<disk, writing, torn, unwritten, key>> /\ pc[p] = "open"
        /\ pc'[p] \in {"forward", "idle", "config"}
        /\ sess' = [sess EXCEPT ![p] = disk[key[p]]["constants"] = "whole"]
        /\ exposed' = [exposed EXCEPT ![p] = Racing(p)]
        /\ \A q \in Processes \ {p} : pc'[q] = pc[q]
        /\ pc'[p] = "config" => disk[key[p]]["so"] = "whole"
    BY <1>3 DEF OpenSession
  <2>2. Entry(key[p]) \/ Racing(p)
    BY <2>1, IncompleteRaces
  <2>3. Entry(key[p]) /\ disk[key[p]]["so"] = "whole"
          => disk[key[p]]["constants"] = "whole"
    BY DEF Entry, Files, Compiled
  <2>4. sess'[p] = (disk[key[p]]["constants"] = "whole") /\ exposed'[p] = Racing(p)
    BY <2>1
  <2>5. pc'[p] = "config" => sess'[p] \/ exposed'[p]
    BY <2>1, <2>2, <2>3, <2>4
  <2>6. QED BY <2>1, <2>5
<1>4. CASE ReadConfig(p)
  <2>1. /\ UNCHANGED <<disk, writing, torn, unwritten, key, sess, exposed>>
        /\ pc[p] = "config" /\ pc'[p] \in {"run", "idle"}
        /\ \A q \in Processes \ {p} : pc'[q] = pc[q]
    BY <1>4 DEF ReadConfig
  <2>2. QED BY <2>1
<1>5. CASE Eager(p)
  BY <1>5 DEF Eager
<1>6. CASE Victim(p)
  BY <1>6 DEF Victim
<1>7. CASE CompileFails(p)
  BY <1>7 DEF CompileFails
<1>8. CASE Compile(p)
  <2>1. /\ UNCHANGED <<disk, writing, torn, key, sess, exposed>>
        /\ pc[p] = "compile" /\ pc'[p] = "write" /\ unwritten'[p] = Files
        /\ \A q \in Processes \ {p} :
             pc'[q] = pc[q] /\ unwritten'[q] = unwritten[q]
    BY <1>8 DEF Compile
  <2>2. QED BY <2>1
<1>9. CASE Run(p)
  BY <1>9 DEF Run
<1>10. CASE \E k \in Keys : Get(p, k)
  BY <1>2, <1>10
<1>11. QED BY <1>3, <1>4, <1>5, <1>6, <1>7, <1>8, <1>9, <1>10

(* A process opens a file of its entry for writing.                        *)
LEMMA WriteBeginSharedInv ==
  ASSUME IInv, SharedInv, NEW p \in Processes, NEW f \in Files, WriteBegin(p, f)
  PROVE  SharedInv'
<1>0. /\ pc \in [Processes -> PC] /\ key \in [Processes -> Keys]
      /\ unwritten \in [Processes -> SUBSET Files]
      /\ writing \in [Processes -> SUBSET Files]
      /\ disk \in [Keys -> [Files -> States]]
      /\ EntryInv /\ \A q \in Processes : CloseInv(q)
      /\ \A q \in Processes : key[q] \in Keys
  BY DEF IInv, TypeInv, SharedInv
<1>1. /\ pc[p] = "write" /\ writing[p] = {} /\ f \in unwritten[p]
      /\ disk' = [disk EXCEPT ![key[p]][f] = "partial"]
      /\ unwritten' = [unwritten EXCEPT ![p] = unwritten[p] \ {f}]
      /\ writing' = [writing EXCEPT ![p] = {f}]
      /\ UNCHANGED <<pc, key, sess, torn, exposed>>
  BY DEF WriteBegin, history
<1>2. /\ disk'[key[p]][f] = "partial"
      /\ \A k \in Keys, g \in Files :
           k # key[p] \/ g # f => disk'[k][g] = disk[k][g]
  BY <1>0, <1>1
<1>3. ASSUME NEW q \in Processes PROVE CloseInv(q)'
  <2>1. CloseInv(q) /\ key[q] \in Keys /\ "so" \in Files
    BY <1>0 DEF Files, Compiled
  <2>2. CASE q = p
    <3>1. /\ pc'[q] = "write" /\ writing'[q] = {f} /\ key'[q] = key[p]
          /\ unwritten'[q] = unwritten[p] \ {f}
      BY <1>0, <1>1, <2>2
    <3>2. \A g \in Files : g \in unwritten'[q] \/ disk'[key[p]][g] # "absent"
      BY <1>1, <1>2, <2>1, <2>2, <3>1 DEF CloseInv
    <3>3. QED BY <1>2, <3>1, <3>2 DEF CloseInv
  <2>3. CASE q # p
    <3>1. /\ pc'[q] = pc[q] /\ key'[q] = key[q] /\ unwritten'[q] = unwritten[q]
          /\ writing'[q] = writing[q] /\ sess'[q] = sess[q]
          /\ exposed'[q] = exposed[q] /\ writing[q] \subseteq Files
      BY <1>0, <1>1, <2>3
    <3>2. \A g \in Files : disk'[key[q]][g] \in {disk[key[q]][g], "partial"}
      BY <1>2, <2>1
    <3>3. QED BY <2>1, <3>1, <3>2 DEF CloseInv
  <2>4. QED BY <2>2, <2>3
<1>4. ASSUME NEW k \in Keys, NEW g \in Files
      PROVE  \/ k \in torn' \/ Entry(k)' \/ disk'[k][g] = "whole"
             \/ Pending(k, g)'
  <2>1. CASE k = key[p] /\ g \in unwritten[p]
    <3>1. /\ g \in unwritten'[p] \cup writing'[p]
          /\ pc'[p] = "write" /\ key'[p] = k
      BY <1>0, <1>1, <2>1
    <3>2. Pending(k, g)'
      BY <3>1 DEF Pending
    <3>3. QED BY <3>2
  <2>2. CASE k = key[p] /\ g \notin unwritten[p]
    <3>1. g # f /\ disk'[k][g] = disk[k][g] /\ disk[k][g] # "absent"
      BY <1>0, <1>1, <1>2, <2>2 DEF CloseInv
    <3>2. Entry(k) => disk[k][g] = "whole"
      BY <3>1 DEF Entry
    <3>3. Pending(k, g) => Pending(k, g)'
      BY <1>0, <1>1, <3>1 DEF Pending
    <3>4. QED BY <1>0, <1>1, <3>1, <3>2, <3>3 DEF EntryInv
  <2>3. CASE k # key[p]
    <3>1. \A h \in Files : disk'[k][h] = disk[k][h]
      BY <1>2, <2>3
    <3>2. Entry(k) => Entry(k)'
      BY <3>1 DEF Entry
    <3>3. Pending(k, g) => Pending(k, g)'
      BY <1>0, <1>1, <2>3 DEF Pending
    <3>4. QED BY <1>0, <1>1, <3>1, <3>2, <3>3 DEF EntryInv
  <2>4. QED BY <2>1, <2>2, <2>3
<1>5. QED BY <1>3, <1>4 DEF SharedInv, EntryInv

(* A process closes a file of its entry.                                   *)
LEMMA WriteEndSharedInv ==
  ASSUME IInv, SharedInv, NEW p \in Processes, WriteEnd(p)
  PROVE  SharedInv'
<1>0. /\ pc \in [Processes -> PC] /\ key \in [Processes -> Keys]
      /\ unwritten \in [Processes -> SUBSET Files]
      /\ writing \in [Processes -> SUBSET Files]
      /\ disk \in [Keys -> [Files -> States]]
      /\ EntryInv /\ \A q \in Processes : CloseInv(q)
      /\ \A q \in Processes : key[q] \in Keys
  BY DEF IInv, TypeInv, SharedInv
<1>1. PICK f \in writing[p] : disk' = [disk EXCEPT ![key[p]][f] =
                  IF \E q \in Processes \ {p} :
                       key[q] = key[p] /\ f \in writing[q]
                  THEN "partial" ELSE "whole"]
  BY DEF WriteEnd
<1>2. /\ writing[p] = {f} /\ f \in Files /\ pc[p] = "write"
      /\ disk[key[p]][f] = "partial"
  BY <1>0 DEF CloseInv
<1>3. /\ writing' = [writing EXCEPT ![p] = {}]
      /\ UNCHANGED <<key, sess, unwritten, exposed>>
      /\ torn' = {k \in torn : ~Entry(k)'}
      /\ \A q \in Processes \ {p} : pc'[q] = pc[q] /\ writing'[q] = writing[q]
      /\ writing'[p] = {}
      /\ pc'[p] = IF unwritten[p] = {} THEN "run" ELSE "write"
  <2>1. pc'[p] = IF unwritten[p] = {} THEN "run" ELSE "write"
    BY <1>0, <1>2 DEF WriteEnd, Goto
  <2>2. \A q \in Processes \ {p} : pc'[q] = pc[q]
    BY <1>0 DEF WriteEnd, Goto
  <2>3. QED BY <1>0, <2>1, <2>2 DEF WriteEnd
<1>4. /\ \A k \in Keys, g \in Files :
           k # key[p] \/ g # f => disk'[k][g] = disk[k][g]
      /\ disk'[key[p]][f] \in {"partial", "whole"}
      /\ disk'[key[p]][f] = "partial" =>
           \E q \in Processes \ {p} : key[q] = key[p] /\ f \in writing[q]
      /\ \A q \in Processes \ {p} :
           key[q] = key[p] /\ f \in writing[q] => disk'[key[p]][f] = "partial"
  BY <1>0, <1>1, <1>2
<1>5. ASSUME NEW q \in Processes PROVE CloseInv(q)'
  <2>1. CloseInv(q) /\ key[q] \in Keys /\ "so" \in Files
    BY <1>0 DEF Files, Compiled
  <2>2. CASE q = p
    <3>1. \A g \in Files : g \in unwritten[p] \/ disk'[key[p]][g] # "absent"
      BY <1>2, <1>4, <2>1, <2>2 DEF CloseInv
    <3>2. QED BY <1>3, <2>2, <3>1 DEF CloseInv
  <2>3. CASE q # p
    <3>1. /\ pc'[q] = pc[q] /\ key'[q] = key[q] /\ unwritten'[q] = unwritten[q]
          /\ writing'[q] = writing[q] /\ sess'[q] = sess[q]
          /\ exposed'[q] = exposed[q] /\ writing[q] \subseteq Files
      BY <1>0, <1>3, <2>3
    <3>2. \A g \in Files : disk[key[q]][g] # "absent" => disk'[key[q]][g] # "absent"
      BY <1>2, <1>4, <2>1
    <3>3. \A g \in writing[q] : disk'[key[q]][g] = "partial"
      BY <1>4, <2>1, <2>3, <3>1 DEF CloseInv
    <3>4. QED BY <2>1, <3>1, <3>2, <3>3 DEF CloseInv
  <2>4. QED BY <2>2, <2>3
<1>6. ASSUME NEW k \in Keys, NEW g \in Files
      PROVE  \/ k \in torn' \/ Entry(k)' \/ disk'[k][g] = "whole"
             \/ Pending(k, g)'
  <2>1. CASE k \in torn
    BY <1>3, <2>1
  <2>2. CASE k = key[p] /\ g = f
    <3>1. SUFFICES ASSUME disk'[k][g] = "partial" PROVE Pending(k, g)'
      BY <1>4, <2>2
    <3>2. PICK q \in Processes \ {p} : key[q] = key[p] /\ f \in writing[q]
      BY <1>4, <2>2, <3>1
    <3>3. pc[q] = "write"
      BY <1>0, <3>2 DEF CloseInv
    <3>4. pc'[q] = "write" /\ key'[q] = k /\ g \in writing'[q]
      BY <1>3, <2>2, <3>2, <3>3
    <3>5. QED BY <3>4 DEF Pending
  <2>3. CASE k = key[p] /\ g # f /\ k \notin torn
    <3>1. disk'[k][g] = disk[k][g]
      BY <1>4, <2>3
    <3>2. ~Entry(k)
      BY <1>2, <2>3 DEF Entry
    <3>3. Pending(k, g) => Pending(k, g)'
      <4>1. ASSUME NEW q \in Processes, pc[q] = "write", key[q] = k,
                   g \in unwritten[q] \cup writing[q]
            PROVE  pc'[q] = "write" /\ key'[q] = k
                   /\ g \in unwritten'[q] \cup writing'[q]
        <5>1. CASE q = p
          BY <1>2, <1>3, <2>3, <4>1, <5>1
        <5>2. CASE q # p
          BY <1>3, <4>1, <5>2
        <5>3. QED BY <5>1, <5>2
      <4>2. QED BY <4>1 DEF Pending
    <3>4. QED BY <1>0, <2>3, <3>1, <3>2, <3>3 DEF EntryInv
  <2>4. CASE k # key[p] /\ k \notin torn
    <3>1. \A h \in Files : disk'[k][h] = disk[k][h]
      BY <1>4, <2>4
    <3>2. Entry(k) => Entry(k)'
      BY <3>1 DEF Entry
    <3>3. Pending(k, g) => Pending(k, g)'
      BY <1>3, <2>4 DEF Pending
    <3>4. QED BY <1>0, <2>4, <3>1, <3>2, <3>3 DEF EntryInv
  <2>5. QED BY <2>1, <2>2, <2>3, <2>4
<1>7. QED BY <1>5, <1>6 DEF SharedInv, EntryInv

(* A process is killed.                                                    *)
LEMMA CrashSharedInv ==
  ASSUME IInv, SharedInv, NEW p \in Processes, Crash(p)
  PROVE  SharedInv'
<1>0. /\ pc \in [Processes -> PC] /\ key \in [Processes -> Keys]
      /\ unwritten \in [Processes -> SUBSET Files]
      /\ writing \in [Processes -> SUBSET Files]
      /\ EntryInv /\ \A q \in Processes : CloseInv(q)
  BY DEF IInv, TypeInv, SharedInv
<1>1. /\ pc'[p] = "idle" /\ writing'[p] = {}
      /\ UNCHANGED <<disk, key, sess, exposed>>
      /\ torn \subseteq torn'
      /\ pc[p] = "write" /\ ~Entry(key[p]) => key[p] \in torn'
      /\ \A q \in Processes \ {p} :
           /\ pc'[q] = pc[q] /\ unwritten'[q] = unwritten[q]
           /\ writing'[q] = writing[q]
  BY <1>0 DEF Crash
<1>2. ASSUME NEW q \in Processes PROVE CloseInv(q)'
  <2>1. CASE q = p
    BY <1>1, <2>1 DEF CloseInv
  <2>2. CASE q # p
    BY <1>0, <1>1, <2>2 DEF CloseInv
  <2>3. QED BY <2>1, <2>2
<1>3. ASSUME NEW k \in Keys, NEW g \in Files
      PROVE  \/ k \in torn' \/ Entry(k)' \/ disk'[k][g] = "whole"
             \/ Pending(k, g)'
  <2>1. Entry(k)' <=> Entry(k)
    BY <1>1 DEF Entry
  <2>2. ASSUME NEW q \in Processes, pc[q] = "write", key[q] = k,
               g \in unwritten[q] \cup writing[q], ~Entry(k)
        PROVE  k \in torn' \/ Pending(k, g)'
    <3>1. CASE q = p
      BY <1>1, <2>2, <3>1
    <3>2. CASE q # p
      BY <1>1, <2>2, <3>2 DEF Pending
    <3>3. QED BY <3>1, <3>2
  <2>3. Pending(k, g) /\ ~Entry(k) => k \in torn' \/ Pending(k, g)'
    BY <2>2 DEF Pending
  <2>4. QED BY <1>0, <1>1, <2>1, <2>3 DEF EntryInv
<1>4. QED BY <1>2, <1>3 DEF SharedInv, EntryInv

(* No step of a process, and no kill, breaks the invariant of the folder.  *)
LEMMA NextSharedInv == IInv /\ SharedInv /\ [Next]_vars => SharedInv'
<1> SUFFICES ASSUME IInv, SharedInv, [Next]_vars PROVE SharedInv'
  OBVIOUS
<1>1. CASE UNCHANGED vars
  <2>1. UNCHANGED <<disk, pc, key, sess, unwritten, writing, torn, exposed>>
    BY <1>1 DEF vars, history
  <2>2. \A q \in Processes : CloseInv(q)'
    BY <2>1 DEF SharedInv, CloseInv
  <2>3. EntryInv'
    BY <2>1 DEF SharedInv, EntryInv, Entry, Pending
  <2>4. QED BY <2>2, <2>3 DEF SharedInv
<1>2. ASSUME NEW p \in Processes,
             (\E k \in Keys : Get(p, k)) \/ Step(p) \/ Crash(p)
      PROVE  SharedInv'
  <2>1. CASE \E f \in Files : WriteBegin(p, f)
    BY <2>1, WriteBeginSharedInv
  <2>2. CASE WriteEnd(p)
    BY <2>2, WriteEndSharedInv
  <2>3. CASE Crash(p)
    BY <2>3, CrashSharedInv
  <2>4. CASE \/ \E k \in Keys : Get(p, k)
             \/ OpenSession(p) \/ ReadConfig(p) \/ Eager(p) \/ Victim(p)
             \/ CompileFails(p) \/ Compile(p) \/ Run(p)
    BY <2>4, LoadSharedInv
  <2>5. QED BY <1>2, <2>1, <2>2, <2>3, <2>4 DEF Step
<1>3. QED BY <1>1, <1>2 DEF Next

(* A load that goes wrong is the load of an entry at risk.                 *)
LEMMA DamageRaces ==
  ASSUME IInv, SharedInv, NEW p \in Processes, LoadDamaged(p)
  PROVE  Racing(p) \/ exposed[p]
<1>0. /\ pc \in [Processes -> PC] /\ key[p] \in Keys
      /\ CloseInv(p) /\ EntryInv
      /\ cache = [q \in Processes |-> cache[q]]
  BY DEF IInv, TypeInv, SharedInv
<1>1. CASE OpenSession(p) /\ pc'[p] = "idle"
  <2>1. pc[p] = "open" /\ disk[key[p]]["so"] = "partial"
    BY <1>0, <1>1 DEF OpenSession, Goto
  <2>2. ~Entry(key[p])
    BY <2>1 DEF Entry, Files, Compiled
  <2>3. QED BY <1>0, <2>1, <2>2, IncompleteRaces
<1>2. CASE ReadConfig(p) /\ disk[key[p]]["config"] # "whole"
  <2>1. pc[p] = "config" /\ disk[key[p]]["so"] # "absent"
    BY <1>0, <1>2 DEF ReadConfig, Goto, CloseInv
  <2>2. ~Entry(key[p])
    BY <1>2, <2>1 DEF Entry, Files, Compiled
  <2>3. QED BY <1>0, <2>1, <2>2, IncompleteRaces
<1>3. CASE ReadConfig(p) /\ disk[key[p]]["config"] = "whole"
  <2>1. pc[p] = "config" /\ Put(p, key[p], Value(sess[p], "own"))
    BY <1>0, <1>3 DEF ReadConfig, Goto
  <2>2. pc'[p] = "run"
    BY <1>0, <1>3 DEF ReadConfig, Goto
  <2>3. key[p] \notin DOMAIN cache[p]
    BY <2>1 DEF IInv, OrderInv
  <2>4. cache'[p][key[p]] = Value(sess[p], "own")
    BY <2>1, <2>3, PutAgrees
  <2>5. sess[p] # TRUE
    BY <1>1, <2>2, <2>4, <1>3 DEF LoadDamaged, OpenSession, ReadConfig, Goto
  <2>6. QED BY <1>0, <2>1, <2>5 DEF CloseInv, IInv, TypeInv
<1>4. QED BY <1>1, <1>2, <1>3 DEF LoadDamaged

(* However many processes share the folder, and whenever they are killed,
   load_from_disk raises, or finds a session without its constants or its
   config, only while another process writes the entry or after one was
   killed writing it.                                                      *)
THEOREM DamageOnlyByRaces == Spec => OnlyRacesDamage
<1>1. Init => SharedInv
  BY DEF Init, SharedInv, CloseInv, EntryInv, Entry
<1>2. IInv /\ SharedInv /\ [Next]_vars =>
        [\A p \in Processes : LoadDamaged(p) => Racing(p) \/ exposed[p]]_vars
  BY DamageRaces
<1>3. QED
  BY <1>1, <1>2, NextSharedInv, Invariance, PTL DEF Spec, OnlyRacesDamage
=============================================================================
