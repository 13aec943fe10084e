------------------------ MODULE SingletonWebhookProofs ------------------------
(***************************************************************************)
(* Theorems about SingletonWebhook, for any namespaces, names and bounds.  *)
(***************************************************************************)
EXTENDS SingletonWebhook, TLAPS

(***************************************************************************)
(* The versions between the informer and the store                         *)
(***************************************************************************)

\* The informer's version is number 0, the store's the last one.
Version(k) == IF k = 0 THEN cache ELSE lag[k]

Versions == 0..Len(lag)

LEMMA VersionType ==
  ASSUME TypeOK
  PROVE  /\ Len(lag) \in Nat
         /\ \A k \in Versions : Version(k) \subseteq Instances
         /\ Version(Len(lag)) = stored
BY DEF TypeOK, Version, Versions

\* The informer drops the first version, a write adds one at the end.
LEMMA SyncVersions ==
  ASSUME TypeOK, CacheSync
  PROVE  /\ Len(lag') = Len(lag) - 1 /\ Len(lag) \in Nat \ {0}
         /\ \A k \in Versions' : k + 1 \in Versions /\ Version(k)' = Version(k + 1)
<1>1. /\ lag \in Seq(SUBSET Instances) /\ lag # <<>>
      /\ cache' = Head(lag) /\ lag' = Tail(lag)
  BY DEF TypeOK, CacheSync
<1>2. Len(lag) \in Nat \ {0} /\ Len(lag') = Len(lag) - 1
  BY <1>1
<1>3. cache' = lag[1] /\ \A k \in 1..Len(lag') : lag'[k] = lag[k + 1]
  BY <1>1
<1>4. QED
  BY <1>2, <1>3 DEF Version, Versions

LEMMA StoreVersions ==
  ASSUME TypeOK, NEW new \in SUBSET Instances, Store(new)
  PROVE  /\ lag' \in Seq(SUBSET Instances) /\ lag' # <<>>
         /\ Len(lag') = Len(lag) + 1 /\ Len(lag) \in Nat
         /\ lag'[Len(lag')] = new
         /\ \A k \in Versions : Version(k)' = Version(k)
         /\ \A k \in Nat : k = Len(lag') => Version(k)' = new
<1>1. /\ lag \in Seq(SUBSET Instances)
      /\ cache' = cache /\ lag' = Append(lag, new)
  BY DEF TypeOK, Store
<1>2. /\ Len(lag) \in Nat /\ Len(lag') = Len(lag) + 1
      /\ lag' \in Seq(SUBSET Instances)
  BY <1>1
<1>3. lag'[Len(lag) + 1] = new /\ \A k \in 1..Len(lag) : lag'[k] = lag[k]
  BY <1>1
<1>4. lag' # <<>> /\ Len(lag') \in Nat \ {0}
  BY <1>2
<1>5. lag'[Len(lag')] = new
  BY <1>2, <1>3
<1>6. ASSUME NEW k \in Nat, k = Len(lag')
      PROVE  Version(k)' = new
  BY <1>4, <1>5, <1>6 DEF Version
<1>7. ASSUME NEW k \in Versions
      PROVE  Version(k)' = Version(k)
  BY <1>1, <1>2, <1>3 DEF Version, Versions
<1>8. QED
  BY <1>2, <1>4, <1>5, <1>6, <1>7

(***************************************************************************)
(* Type correctness                                                        *)
(***************************************************************************)

LEMMA TypeInit == Init => TypeOK
<1> SUFFICES ASSUME Init PROVE TypeOK
  OBVIOUS
<1>1. removals \in 0..MaxRemovals /\ faults \in 0..MaxFaults
  BY BoundsAssumption DEF Init
<1>2. lag \in Seq(SUBSET Instances)
  BY DEF Init
<1>3. QED
  BY <1>1, <1>2 DEF Init, TypeOK

LEMMA TypeNext == TypeOK /\ [Next]_vars => TypeOK'
<1> SUFFICES ASSUME TypeOK, [Next]_vars PROVE TypeOK'
  OBVIOUS
<1>1. CASE CacheSync
  <2>1. /\ lag \in Seq(SUBSET Instances) /\ lag # <<>>
        /\ cache' = Head(lag) /\ lag' = Tail(lag)
        /\ stored = lag[Len(lag)]
    BY <1>1 DEF TypeOK, CacheSync
  <2>2. lag' \in Seq(SUBSET Instances) /\ cache' \in SUBSET Instances
    BY <2>1
  <2>3. stored = IF lag' = <<>> THEN cache' ELSE lag'[Len(lag')]
    <3>1. /\ Len(lag') = Len(lag) - 1 /\ Len(lag) \in Nat \ {0}
          /\ \A k \in Versions' : k + 1 \in Versions /\ Version(k)' = Version(k + 1)
          /\ Version(Len(lag)) = stored
      BY <1>1, SyncVersions, VersionType
    <3>2. PICK n \in Nat : n = Len(lag')
      BY <3>1
    <3>3. Version(n)' = stored
      BY <3>1, <3>2 DEF Versions
    <3>4. lag' = <<>> <=> n = 0
      BY <2>2, <3>2
    <3>5. QED
      BY <3>2, <3>3, <3>4 DEF Version
  <2>4. QED
    BY <1>1, <2>2, <2>3 DEF CacheSync, TypeOK
<1>2. ASSUME NEW i \in Instances, NEW new \in SUBSET Instances, Store(new), stored' = new,
             request' \in [Instances -> {"none", "asked", "allowed"}],
             removals' \in 0..MaxRemovals, faults' = faults
      PROVE  TypeOK'
  <2>1. lag' \in Seq(SUBSET Instances) /\ lag' # <<>> /\ lag'[Len(lag')] = new
    BY <1>2, StoreVersions
  <2>2. QED
    BY <1>2, <2>1 DEF Store, TypeOK
<1>3. CASE \E i \in Instances : Persist(i)
  <2> PICK i \in Instances : Persist(i)
    BY <1>3
  <2>1. Store(stored \cup {i}) /\ removals' = removals /\ faults' = faults
    BY DEF Persist
  <2>2. stored \cup {i} \in SUBSET Instances
    BY DEF TypeOK
  <2>3. request' \in [Instances -> {"none", "asked", "allowed"}]
    BY DEF Persist, Become, TypeOK
  <2>4. QED
    BY <1>2, <2>1, <2>2, <2>3 DEF Store, TypeOK
<1>4. CASE \E i \in Instances : Remove(i)
  <2> PICK i \in Instances : Remove(i)
    BY <1>4
  <2>1. Store(stored \ {i}) /\ request' = request /\ faults' = faults
    BY DEF Remove
  <2>2. stored \ {i} \in SUBSET Instances
    BY DEF TypeOK
  <2>3. removals' \in 0..MaxRemovals
    <3>1. removals \in 0..MaxRemovals /\ removals < MaxRemovals /\ removals' = removals + 1
      BY DEF Remove, TypeOK
    <3>2. QED
      BY <3>1, BoundsAssumption
  <2>4. QED
    BY <1>2, <2>1, <2>2, <2>3 DEF Store, TypeOK
<1>5. CASE \E i \in Instances : Ask(i) \/ ValidateCreate(i)
  BY <1>5 DEF Ask, ValidateCreate, Become, TypeOK
<1>6. CASE \E i \in Instances : Unanswered(i)
  <2>1. faults' \in 0..MaxFaults
    <3>1. faults \in 0..MaxFaults /\ faults < MaxFaults /\ faults' = faults + 1
      BY <1>6 DEF Unanswered, TypeOK
    <3>2. QED
      BY <3>1, BoundsAssumption
  <2>2. QED
    BY <1>6, <2>1 DEF Unanswered, Become, TypeOK
<1>7. CASE UNCHANGED vars
  BY <1>7 DEF vars, TypeOK
<1>8. QED
  BY <1>1, <1>3, <1>4, <1>5, <1>6, <1>7 DEF Next

\* Every variable keeps its type, and the store is always the last of the
\* versions the informer has yet to see.
THEOREM WebhookTypeCorrect == Spec => []TypeOK
BY TypeInit, TypeNext, PTL DEF Spec

(***************************************************************************)
(* One of a kind                                                           *)
(***************************************************************************)

Pending(i) == request[i] # "none"

\* Of two versions the later one has nothing in the namespace that the earlier
\* one has not.
Shrinking(ns) ==
  \A j, k \in Versions : j <= k => Version(k) \cap In(ns) \subseteq Version(j) \cap In(ns)

\* In a patient namespace at most one create is under way, with no version
\* ahead of the informer that adds anything, and once it is allowed no version
\* has another instance.
PatientInv ==
  \A ns \in Patient :
    /\ \A i, j \in In(ns) : Pending(i) /\ Pending(j) => i = j
    /\ \A i \in In(ns) : Pending(i) => Shrinking(ns)
    /\ \A i \in In(ns) : request[i] = "allowed" => cache \cap In(ns) \subseteq {i}
    /\ \A i, j \in stored \cap In(ns) : i = j

LEMMA ShrinkingStore ==
  ASSUME TypeOK, NEW ns, Shrinking(ns), NEW new \in SUBSET Instances, Store(new),
         new \cap In(ns) \subseteq stored \cap In(ns)
  PROVE  Shrinking(ns)'
<1>1. /\ Len(lag') = Len(lag) + 1 /\ Len(lag) \in Nat
      /\ \A k \in Versions : Version(k)' = Version(k)
      /\ \A k \in Nat : k = Len(lag') => Version(k)' = new
      /\ Version(Len(lag)) = stored
  BY StoreVersions, VersionType
<1>2. ASSUME NEW j \in Versions', NEW k \in Versions', j <= k
      PROVE  Version(k)' \cap In(ns) \subseteq Version(j)' \cap In(ns)
  <2>1. CASE k \in Versions
    <3>1. j \in Versions
      BY <1>1, <1>2, <2>1 DEF Versions
    <3>2. QED
      BY <1>1, <1>2, <2>1, <3>1 DEF Shrinking
  <2>2. CASE k \notin Versions
    <3>1. k \in Nat /\ k = Len(lag') /\ Version(k)' = new
      BY <1>1, <1>2, <2>2 DEF Versions
    <3>2. CASE j \in Versions
      <4>1. Version(Len(lag)) \cap In(ns) \subseteq Version(j) \cap In(ns)
        BY <1>1, <3>2 DEF Shrinking, Versions
      <4>2. QED
        BY <1>1, <3>1, <3>2, <4>1
    <3>3. CASE j \notin Versions
      <4>1. j = k
        BY <1>1, <1>2, <3>1, <3>3 DEF Versions
      <4>2. QED
        BY <4>1
    <3>4. QED
      BY <3>2, <3>3
  <2>3. QED
    BY <2>1, <2>2
<1>3. QED
  BY <1>2 DEF Shrinking

LEMMA InInstances ==
  ASSUME NEW ns \in Patient
  PROVE  /\ ns \in Namespaces
         /\ In(ns) \subseteq Instances
         /\ \A i \in Instances : i[1] = ns <=> i \in In(ns)
         /\ \A i, j \in In(ns) : i[2] = j[2] => i = j
BY BoundsAssumption DEF In, Instances

LEMMA PatientInit == Init => PatientInv
BY InInstances DEF Init, PatientInv, Pending

LEMMA PatientNext ==
  ASSUME TypeOK, TypeOK', PatientInv, [Next]_vars
  PROVE  PatientInv'
<1> SUFFICES ASSUME NEW ns \in Patient
             PROVE  /\ \A i, j \in In(ns) : Pending(i)' /\ Pending(j)' => i = j
                    /\ \A i \in In(ns) : Pending(i)' => Shrinking(ns)'
                    /\ \A i \in In(ns) : request'[i] = "allowed" => cache' \cap In(ns) \subseteq {i}
                    /\ \A i, j \in stored' \cap In(ns) : i = j
  BY DEF PatientInv
<1>0. /\ \A i, j \in In(ns) : Pending(i) /\ Pending(j) => i = j
      /\ \A i \in In(ns) : Pending(i) => Shrinking(ns)
      /\ \A i \in In(ns) : request[i] = "allowed" => cache \cap In(ns) \subseteq {i}
      /\ \A i, j \in stored \cap In(ns) : i = j
  BY DEF PatientInv
<1>n. /\ In(ns) \subseteq Instances
      /\ \A i \in Instances : i[1] = ns <=> i \in In(ns)
      /\ \A i, j \in In(ns) : i[2] = j[2] => i = j
  BY InInstances
<1>v. Len(lag) \in Nat /\ Version(Len(lag)) = stored /\ Version(0) = cache
  BY VersionType DEF Version
<1>s. (\E i \in In(ns) : Pending(i)) => stored \cap In(ns) \subseteq cache \cap In(ns)
  BY <1>0, <1>v DEF Shrinking, Versions
<1>1. CASE CacheSync
  <2>1. /\ UNCHANGED <<stored, request>>
        /\ Len(lag') = Len(lag) - 1 /\ Len(lag) \in Nat \ {0}
        /\ \A k \in Versions' : k + 1 \in Versions /\ Version(k)' = Version(k + 1)
    BY <1>1, SyncVersions DEF CacheSync
  <2>2. Shrinking(ns) => Shrinking(ns)'
    <3> SUFFICES ASSUME Shrinking(ns), NEW j \in Versions', NEW k \in Versions', j <= k
                 PROVE  Version(k)' \cap In(ns) \subseteq Version(j)' \cap In(ns)
      BY DEF Shrinking
    <3>1. j + 1 <= k + 1 /\ j + 1 \in Versions /\ k + 1 \in Versions
      BY <2>1 DEF Versions
    <3>2. QED
      BY <2>1, <3>1 DEF Shrinking
  <2>3. Shrinking(ns) => cache' \cap In(ns) \subseteq cache \cap In(ns)
    <3>1. cache' = Version(1) /\ 0 \in Versions /\ 1 \in Versions
      <4>1. 0 \in Versions' /\ Version(0)' = cache'
        BY <2>1 DEF Version, Versions
      <4>2. QED
        BY <2>1, <4>1 DEF Versions
    <3>2. QED
      BY <1>v, <3>1 DEF Shrinking
  <2>4. QED
    BY <1>0, <2>1, <2>2, <2>3 DEF Pending
<1>2. CASE \E i \in Instances : Persist(i)
  <2> PICK i \in Instances : Persist(i)
    BY <1>2
  <2>1. /\ request[i] = "allowed"
        /\ request' = [request EXCEPT ![i] = "none"]
        /\ Store(stored \cup {i})
    BY DEF Persist, Become
  <2>2. cache' = cache /\ stored' = stored \cup {i}
    BY <2>1 DEF Store
  <2>3. \A j \in Instances : Pending(j)' => j # i /\ Pending(j) /\ request'[j] = request[j]
    BY <2>1 DEF Pending, TypeOK
  <2>4. \A j \in In(ns) : Pending(j)' => Shrinking(ns)'
    <3> SUFFICES ASSUME NEW j \in In(ns), Pending(j)'
                 PROVE  Shrinking(ns)'
      OBVIOUS
    <3>1. j # i /\ Pending(j) /\ Shrinking(ns)
      BY <1>0, <1>n, <2>3
    <3>2. i \notin In(ns)
      BY <1>0, <2>1, <3>1 DEF Pending
    <3>3. (stored \cup {i}) \cap In(ns) = stored \cap In(ns)
      BY <3>2
    <3>4. stored \cup {i} \in SUBSET Instances
      BY DEF TypeOK
    <3>5. QED
      BY <2>1, <3>1, <3>3, <3>4, ShrinkingStore
  <2>5. \A j, k \in stored' \cap In(ns) : j = k
    <3>1. CASE i \in In(ns)
      <4>1. stored \cap In(ns) \subseteq {i}
        BY <1>0, <1>s, <2>1, <3>1 DEF Pending
      <4>2. QED
        BY <2>2, <4>1
    <3>2. CASE i \notin In(ns)
      BY <1>0, <2>2, <3>2
    <3>3. QED
      BY <3>1, <3>2
  <2>6. \A j, k \in In(ns) : Pending(j)' /\ Pending(k)' => j = k
    BY <1>0, <1>n, <2>3
  <2>7. \A j \in In(ns) : request'[j] = "allowed" => cache' \cap In(ns) \subseteq {j}
    <3> SUFFICES ASSUME NEW j \in In(ns), request'[j] = "allowed"
                 PROVE  cache' \cap In(ns) \subseteq {j}
      OBVIOUS
    <3>1. request[j] = "allowed"
      BY <1>n, <2>3 DEF Pending
    <3>2. QED
      BY <1>0, <2>2, <3>1
  <2>8. QED
    BY <2>4, <2>5, <2>6, <2>7
<1>3. CASE \E i \in Instances : Remove(i)
  <2> PICK i \in Instances : Remove(i)
    BY <1>3
  <2>1. /\ Store(stored \ {i}) /\ request' = request
        /\ stored' = stored \ {i} /\ cache' = cache
    BY DEF Remove, Store
  <2>2. stored \ {i} \in SUBSET Instances
    BY DEF TypeOK
  <2>3. Shrinking(ns) => Shrinking(ns)'
    BY <2>1, <2>2, ShrinkingStore
  <2>4. QED
    BY <1>0, <2>1, <2>3 DEF Pending
<1>4. ASSUME NEW i \in Instances, NEW state, Become(i, state), Pending(i), UNCHANGED <<stored, lag, cache>>,
             state = "allowed" => \A j \in cache \cap In(i[1]) : j[2] = i[2]
      PROVE  /\ \A j, k \in In(ns) : Pending(j)' /\ Pending(k)' => j = k
             /\ \A j \in In(ns) : Pending(j)' => Shrinking(ns)'
             /\ \A j \in In(ns) : request'[j] = "allowed" => cache' \cap In(ns) \subseteq {j}
             /\ \A j, k \in stored' \cap In(ns) : j = k
  <2>1. \A j \in Instances : /\ Pending(j)' => Pending(j)
                             /\ j # i => request'[j] = request[j]
    BY <1>4 DEF Become, Pending, TypeOK
  <2>2. Shrinking(ns)' <=> Shrinking(ns)
    BY <1>4 DEF Shrinking, Versions, Version
  <2>3. ASSUME NEW j \in In(ns), request'[j] = "allowed"
        PROVE  cache' \cap In(ns) \subseteq {j}
    <3>1. CASE j = i
      <4>1. state = "allowed" /\ i[1] = ns
        BY <1>4, <1>n, <2>3, <3>1 DEF Become, TypeOK
      <4>2. \A k \in cache \cap In(ns) : k[2] = i[2]
        BY <1>4, <4>1
      <4>3. QED
        BY <1>4, <1>n, <3>1, <4>2
    <3>2. CASE j # i
      BY <1>0, <1>4, <1>n, <2>1, <2>3, <3>2
    <3>3. QED
      BY <3>1, <3>2
  <2>4. QED
    BY <1>0, <1>4, <1>n, <2>1, <2>2, <2>3
<1>5. CASE \E i \in Instances : ValidateCreate(i)
  <2> PICK i \in Instances : ValidateCreate(i)
    BY <1>5
  <2>1. PICK state : /\ Become(i, state)
                     /\ state = IF rejectIfSiblingExists(i) THEN "none" ELSE "allowed"
    BY DEF ValidateCreate
  <2>2. state = "allowed" => \A j \in cache \cap In(i[1]) : j[2] = i[2]
    BY <2>1 DEF rejectIfSiblingExists, List
  <2>3. Pending(i) /\ UNCHANGED <<stored, lag, cache>>
    BY DEF ValidateCreate, Pending
  <2>4. QED
    BY <1>4, <2>1, <2>2, <2>3
<1>6. CASE \E i \in Instances : Unanswered(i)
  <2> PICK i \in Instances : Unanswered(i)
    BY <1>6
  <2>1. Become(i, "none") /\ Pending(i) /\ UNCHANGED <<stored, lag, cache>>
    BY DEF Unanswered, Pending
  <2>2. QED
    BY <1>4, <2>1
<1>7. CASE \E i \in Instances : Ask(i)
  <2> PICK i \in Instances : Ask(i)
    BY <1>7
  <2>1. /\ Become(i, "asked") /\ UNCHANGED <<stored, lag, cache>>
        /\ i \in In(ns) => lag = <<>> /\ \A j \in In(ns) : ~Pending(j)
    BY <1>n DEF Ask, Pending
  <2>2. \A j \in Instances : IF j = i THEN request'[j] = "asked" ELSE request'[j] = request[j]
    BY <2>1 DEF Become, TypeOK
  <2>3. Shrinking(ns)' <=> Shrinking(ns)
    BY <2>1 DEF Shrinking, Versions, Version
  <2>4. lag = <<>> => Shrinking(ns)
    BY DEF Shrinking, Versions, Version
  <2>5. CASE i \in In(ns)
    BY <1>0, <1>n, <2>1, <2>2, <2>3, <2>4, <2>5 DEF Pending
  <2>6. CASE i \notin In(ns)
    BY <1>0, <1>n, <2>1, <2>2, <2>3, <2>6 DEF Pending
  <2>7. QED
    BY <2>5, <2>6
<1>8. CASE UNCHANGED vars
  <2>1. Shrinking(ns)' <=> Shrinking(ns)
    BY <1>8 DEF vars, Shrinking, Versions, Version
  <2>2. QED
    BY <1>0, <1>8, <2>1 DEF vars, Pending
<1>9. QED
  BY <1>1, <1>2, <1>3, <1>5, <1>6, <1>7, <1>8 DEF Next

\* Where each create waits until the one before it is decided, stored and seen
\* by the informer, a namespace never has two instances: the list a create is
\* admitted on may then be old, but only by instances that have gone since.
THEOREM PatienceSuffices == Spec => []PatientSingleton
<1> DEFINE Inv == TypeOK /\ PatientInv
<1>1. Init => Inv
  BY TypeInit, PatientInit
<1>2. Inv /\ [Next]_vars => Inv'
  BY TypeNext, PatientNext
<1>3. Inv => PatientSingleton
  <2> SUFFICES ASSUME TypeOK, PatientInv, NEW i \in stored, NEW j \in stored,
                      i[1] = j[1], i[1] \in Patient
               PROVE  i = j
    BY DEF PatientSingleton, SingleIn
  <2>1. i \in Instances /\ j \in Instances
    BY DEF TypeOK
  <2>2. i \in In(i[1]) /\ j \in In(i[1])
    BY <2>1, InInstances
  <2>3. QED
    BY <2>2 DEF PatientInv
<1>4. QED
  BY <1>1, <1>2, <1>3, PTL DEF Spec

=============================================================================
