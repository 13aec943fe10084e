----------------------- MODULE InstanceLifecycleProofs ------------------------
(***************************************************************************)
(* A managed instance from creation to deletion, for every set of          *)
(* IngressClasses and every number of edits: its storage goes with it, it  *)
(* follows the finalizer protocol, and its status is written when the      *)
(* cluster is as its spec says.                                            *)
(***************************************************************************)
EXTENDS ManagedInstanceProofs

Deleting == {"deleteExtras", "deletePVCs", "removeFinalizer"}

\* The finalizer is there as long as there may be something to delete.
FinalizerInv ==
  /\ pc \notin {"idle", "addFinalizer"} => fin
  /\ phase = "deleting" => fin
  /\ ~fin => target = Nil
  /\ pc \in Deleting => target = Nil
  /\ phase = "gone" => ~fin /\ ~current

\* Only that field of the vendor object is not the operator's.
OwnedInv == target # Nil => DOMAIN target.fields \ target.owned \subseteq {"tuning"}

\* The vendor object always asks for the deletion of the claims, a Kafka's in
\* its node pool, and claims are only there with it.
ReclaimInv ==
  kind # "loki" =>
    /\ target # Nil /\ kind # "strimzi" => Reclaims(kind, target.fields)
    /\ kind = "strimzi" /\ Pool # Nil =>
         "deleteClaim" \in DOMAIN Pool /\ Pool.deleteClaim = TRUE
    /\ claims => Complete

StorageInv == ForeignInv /\ FinalizerInv /\ OwnedInv /\ ReclaimInv

(***************************************************************************)
(* The finalizer                                                           *)
(***************************************************************************)

LEMMA FinalizerNext ==
  ASSUME TypeInv, FinalizerInv, [Next]_vars
  PROVE  FinalizerInv'
<1> USE DEF FinalizerInv, Deleting
<1>1. CASE Reconcile
  <2>1. /\ pc' = IF phase = "deleting" THEN "deleteTarget"
                 ELSE IF ~fin THEN "addFinalizer" ELSE "getTarget"
        /\ phase \in {"present", "deleting"}
    BY <1>1 DEF Reconcile, Call, TypeInv, TypeOK
  <2>2. UNCHANGED <<fin, target, phase>>
    BY <1>1 DEF Reconcile, user
  <2>3. QED
    BY <2>1, <2>2
<1>2. CASE AddFinalizer
  BY <1>2 DEF AddFinalizer, Call, Return
<1>3. CASE GetTarget
  BY <1>3 DEF GetTarget, Call, user
<1>4. CASE ResolveClass
  BY <1>4 DEF ResolveClass, Call, user
<1>5. CASE ApplyTarget
  BY <1>5 DEF ApplyTarget, Call, FirstOf, AfterApply, user
<1>6. CASE ApplyExtra
  BY <1>6 DEF ApplyExtra, HandleExtra, Call, AfterApply, user
<1>7. CASE PatchRollouts
  BY <1>7 DEF PatchRollouts, Call, user
<1>8. CASE UpdateStatus
  BY <1>8 DEF UpdateStatus, Call, Return, user
<1>9. CASE DeleteTarget
  BY <1>9 DEF DeleteTarget, Call, FirstOf, AfterDelete, user
<1>10. CASE DeleteExtra
  BY <1>10 DEF DeleteExtra, HandleExtra, Call, AfterDelete, user
<1>11. CASE DeletePVCs
  BY <1>11 DEF DeletePVCs, Call, user
<1>12. CASE RemoveFinalizer
  BY <1>12 DEF RemoveFinalizer, Call, Return
<1>13. CASE Conflict \/ Refused
  BY <1>13 DEF Conflict, Refused, Return, user
<1>14. CASE VendorAdopts \/ VendorReports
  BY <1>14 DEF VendorAdopts, VendorReports, worker, user
<1>15. CASE EditSpec
  <2>1. current' = FALSE /\ UNCHANGED <<pc, fin, phase, target>>
    BY <1>15 DEF EditSpec
  <2>2. QED
    BY <2>1
<1>16. CASE EditDefaults
  BY <1>16 DEF EditDefaults, worker
<1>17. CASE Delete
  BY <1>17 DEF Delete
<1>18. CASE Tune
  BY <1>18 DEF Tune, worker, user
<1>19. CASE UNCHANGED vars
  BY <1>19 DEF vars
<1>20. QED
  BY <1>1, <1>2, <1>3, <1>4, <1>5, <1>6, <1>7, <1>8, <1>9, <1>10, <1>11, <1>12, <1>13, <1>14,
     <1>15, <1>16, <1>17, <1>18, <1>19 DEF Next, Worker

(***************************************************************************)
(* The fields of the operator's                                            *)
(***************************************************************************)

\* The three actions that write the vendor object.
LEMMA TargetWriters ==
  ASSUME [Next]_vars, ~ApplyTarget, ~Tune, ~DeleteTarget
  PROVE  UNCHANGED target
BY DEF Next, Worker, Reconcile, AddFinalizer, GetTarget, ResolveClass, ApplyExtra, HandleExtra,
   PatchRollouts, UpdateStatus, DeleteExtra, DeletePVCs, RemoveFinalizer, Conflict, Refused,
   VendorAdopts, VendorReports, EditSpec, EditDefaults, Delete, vars

LEMMA KindKept == [Next]_vars => kind' = kind
BY DEF Next, Worker, Reconcile, AddFinalizer, GetTarget, ResolveClass, ApplyTarget, ApplyExtra,
   HandleExtra, PatchRollouts, UpdateStatus, DeleteTarget, DeleteExtra, DeletePVCs,
   RemoveFinalizer, Conflict, Refused, VendorAdopts, VendorReports, EditSpec, EditDefaults,
   Delete, Tune, vars, user

\* After an apply the object has the manifest's fields, and what was not owned.
LEMMA MergedFields ==
  ASSUME NEW m, OwnedInv
  PROVE  /\ DOMAIN m \subseteq DOMAIN Merged(target, m).fields
         /\ DOMAIN Merged(target, m).fields \subseteq DOMAIN m \cup {"tuning"}
         /\ Merged(target, m).owned = DOMAIN m
<1>1. DOMAIN Nil = {}
  BY DEF Nil
<1>2. QED
  BY <1>1 DEF Merged, @@, OwnedInv

LEMMA TunedFields ==
  ASSUME ForeignInv, Tune
  PROVE  /\ target'.fields = target.fields @@ [tuning |-> Given]
         /\ target'.owned = target.owned
         /\ DOMAIN target'.fields = DOMAIN target.fields \cup {"tuning"}
<1>1. /\ target' = [target EXCEPT !.fields = @ @@ [tuning |-> Given]]
      /\ target = [fields |-> target.fields, owned |-> target.owned]
  BY DEF Tune, ForeignInv
<1>2. target'.fields = target.fields @@ [tuning |-> Given] /\ target'.owned = target.owned
  BY <1>1
<1>3. QED
  BY <1>2 DEF @@

LEMMA OwnedNext ==
  ASSUME ForeignInv, OwnedInv, [Next]_vars
  PROVE  OwnedInv'
<1>1. CASE ApplyTarget
  BY <1>1, MergedFields DEF ApplyTarget, OwnedInv
<1>2. CASE Tune
  BY <1>2, TunedFields DEF Tune, OwnedInv
<1>3. CASE DeleteTarget
  BY <1>3 DEF DeleteTarget, OwnedInv
<1>4. QED
  BY <1>1, <1>2, <1>3, TargetWriters DEF OwnedInv

(***************************************************************************)
(* The claims                                                              *)
(***************************************************************************)

\* Every manifest asks its vendor to delete the claims.
LEMMA ManifestReclaims ==
  ASSUME NEW k \in Kinds \ {"loki", "strimzi"}, NEW name, NEW s, NEW f,
         DOMAIN BuildManifest(k, name, s) \subseteq DOMAIN f,
         DOMAIN f \subseteq DOMAIN BuildManifest(k, name, s) \cup {"tuning"}
  PROVE  Reclaims(k, f)
<1>1. CASE k = "mariadb"
  <2>1. "whenDeleted" \in DOMAIN MariadbManifest(name, s)
    BY DEF MariadbManifest, Optional
  <2>2. QED
    BY <1>1, <2>1 DEF BuildManifest, Reclaims
<1>2. CASE k = "valkey"
  <2>1. "reclaimPolicy" \in DOMAIN ValkeyManifest(name, s)
    BY DEF ValkeyManifest, Optional
  <2>2. QED
    BY <1>2, <2>1 DEF BuildManifest, Reclaims
<1>3. CASE k = "psmdb"
  BY <1>3 DEF BuildManifest, PsmdbManifest, Reclaims
<1>4. CASE k = "prometheus"
  <2>1. "storage" \in DOMAIN PrometheusManifest(name, s) =>
          "whenDeleted" \in DOMAIN PrometheusManifest(name, s)
    BY DEF PrometheusManifest, Optional
  <2>2. QED
    BY <1>4, <2>1 DEF BuildManifest, Reclaims
<1>5. CASE k \in {"cnpg", "rabbitmq", "grafana", "alloy"}
  BY <1>5 DEF Reclaims
<1>6. QED
  BY <1>1, <1>2, <1>3, <1>4, <1>5, TenKinds

\* What somebody else sets changes nothing of it.
LEMMA TunedReclaims ==
  ASSUME NEW k \in Kinds \ {"loki", "strimzi"}, NEW f, NEW g,
         DOMAIN g = DOMAIN f \cup {"tuning"}, Reclaims(k, f)
  PROVE  Reclaims(k, g)
BY TenKinds DEF Reclaims

LEMMA PoolIndex ==
  ASSUME NEW k, k = "strimzi"
  PROVE  /\ (CHOOSE i \in DOMAIN ExtraResources[k] :
               ExtraResources[k][i].gvk = "KafkaNodePool") = 1
         /\ ExtraResources[k][1] = Extra("KafkaNodePool", "-dual-role", "always")
         /\ 1 \in DOMAIN ExtraResources[k]
<1>1. ExtraResources[k] = StrimziExtras
  BY DEF ExtraResources
<1> DEFINE slots == ExtraResources[k]
<1>2. /\ DOMAIN slots = 1..3
      /\ slots[1] = Extra("KafkaNodePool", "-dual-role", "always")
      /\ slots[2].gvk = "PodMonitor" /\ slots[3].gvk = "GrafanaDashboard"
  BY <1>1 DEF StrimziExtras, Extra, Monitored
<1> HIDE DEF slots
<1>3. \A i \in DOMAIN slots : slots[i].gvk = "KafkaNodePool" <=> i = 1
  BY <1>2 DEF Extra
<1>4. 1 \in DOMAIN slots
  BY <1>2
<1>5. (CHOOSE i \in DOMAIN slots : slots[i].gvk = "KafkaNodePool") = 1
  BY <1>3, <1>4
<1>6. QED
  BY <1>2, <1>4, <1>5 DEF slots

LEMMA PoolFirst ==
  kind = "strimzi" =>
    /\ Pool = extras[1]
    /\ Slots[1] = Extra("KafkaNodePool", "-dual-role", "always")
    /\ 1 \in DOMAIN Slots
BY PoolIndex DEF Pool, Slots

LEMMA NodePoolReclaims ==
  ASSUME NEW s
  PROVE  /\ "deleteClaim" \in DOMAIN StrimziNodePool(s)
         /\ StrimziNodePool(s).deleteClaim = TRUE
         /\ StrimziNodePool(s) # Nil
<1>1. DOMAIN Nil = {}
  BY DEF Nil
<1>2. QED
  BY <1>1 DEF StrimziNodePool, Optional

\* Where the operator or a vendor acts on extras, claims or target at all.
LEMMA ReclaimNext ==
  ASSUME StorageInv, TypeInv', ForeignInv', [Next]_vars
  PROVE  ReclaimInv'
<1>1. kind' = kind /\ kind \in Kinds
  BY KindKept DEF StorageInv, ForeignInv, TypeInv, TypeOK
<1> SUFFICES ASSUME kind # "loki"
             PROVE  /\ target' # Nil /\ kind # "strimzi" => Reclaims(kind, target'.fields)
                    /\ kind = "strimzi" /\ Pool' # Nil =>
                         "deleteClaim" \in DOMAIN Pool' /\ Pool'.deleteClaim = TRUE
                    /\ claims' => Complete'
  BY <1>1 DEF ReclaimInv
<1>2. /\ target # Nil /\ kind # "strimzi" => Reclaims(kind, target.fields)
      /\ kind = "strimzi" /\ Pool # Nil => "deleteClaim" \in DOMAIN Pool /\ Pool.deleteClaim = TRUE
      /\ claims => Complete
  BY DEF StorageInv, ReclaimInv
<1>3. Slots' = Slots
  BY <1>1 DEF Slots
<1>4. kind = "strimzi" => Pool = extras[1] /\ Pool' = extras'[1]
  <2>1. kind = "strimzi" => Pool = extras[1]
    BY PoolFirst
  <2>2. kind' = "strimzi" => Pool' = extras'[1]
    BY PoolIndex DEF Pool, Slots
  <2>3. QED
    BY <1>1, <2>1, <2>2
<1>5. Complete' <=> target' # Nil /\ (kind = "strimzi" => extras'[1] # Nil)
  BY <1>1, <1>4 DEF Complete
<1>6. CASE ApplyTarget
  <2> DEFINE m == BuildManifest(kind, Name, copy)
  <2>1. /\ target' = Merged(target, m)
        /\ extras' = extras /\ claims' = claims
    BY <1>6 DEF ApplyTarget, cluster
  <2>2. /\ DOMAIN m \subseteq DOMAIN target'.fields
        /\ DOMAIN target'.fields \subseteq DOMAIN m \cup {"tuning"}
    BY <2>1, MergedFields DEF StorageInv
  <2>3. kind # "strimzi" => Reclaims(kind, target'.fields)
    BY <1>1, <2>2, ManifestReclaims
  <2>4. target' # Nil
    BY <2>1, PairNotNil DEF Merged
  <2>5. QED
    BY <1>2, <1>4, <1>5, <2>1, <2>3, <2>4 DEF Complete
<1>7. CASE Tune
  <2>1. target # Nil /\ extras' = extras /\ claims' = claims
    BY <1>7 DEF Tune, cluster
  <2>2. kind # "strimzi" => Reclaims(kind, target'.fields)
    BY <1>1, <1>2, <1>7, <2>1, TunedFields, TunedReclaims DEF StorageInv
  <2>3. target' # Nil
    <3>1. tuned'
      BY <1>7 DEF Tune
    <3>2. QED
      BY <3>1 DEF ForeignInv
  <2>4. QED
    BY <1>2, <1>4, <1>5, <2>1, <2>2, <2>3 DEF Complete
<1>8. CASE DeleteTarget
  <2>1. /\ target' = Nil /\ extras' = extras
        /\ claims' = (claims /\ (target # Nil => ~Reclaims(kind, Seen)))
    BY <1>8 DEF DeleteTarget
  <2>2. Complete => Reclaims(kind, Seen)
    <3>1. CASE kind = "strimzi"
      <4>1. Complete => Seen = Pool @@ target.fields
        BY <3>1 DEF Complete, Seen
      <4>2. Complete => (Pool @@ target.fields).deleteClaim = TRUE
        BY <1>2, <3>1 DEF Complete, @@
      <4>3. QED
        BY <3>1, <4>1, <4>2 DEF Reclaims
    <3>2. CASE kind # "strimzi"
      BY <1>2, <3>2 DEF Complete, Seen
    <3>3. QED
      BY <3>1, <3>2
  <2>3. ~claims'
    BY <1>2, <2>1, <2>2 DEF Complete
  <2>4. QED
    BY <1>2, <1>4, <2>1, <2>3
<1>9. CASE ApplyExtra
  <2>1. /\ pc = "applyExtras" /\ target' = target /\ claims' = claims
        /\ extras' = [extras EXCEPT ![next] =
                        IF Wanted(Slots[next], copy.opts)
                        THEN ExtraContent(kind, Name, copy, Slots[next]) ELSE Nil]
    BY <1>9 DEF ApplyExtra, HandleExtra, cluster
  <2>2. kind = "strimzi" =>
          \/ extras'[1] = extras[1]
          \/ extras'[1] = StrimziNodePool(copy)
    <3>1. kind = "strimzi" /\ next = 1 =>
            extras'[1] = ExtraContent(kind, Name, copy, Slots[1])
      <4>1. kind = "strimzi" => Wanted(Slots[1], copy.opts) /\ 1 \in DOMAIN extras
        BY PoolFirst DEF Wanted, Extra, StorageInv, ForeignInv, TypeInv, TypeOK
      <4>2. QED
        BY <2>1, <4>1
    <3>2. kind = "strimzi" => ExtraContent(kind, Name, copy, Slots[1]) = StrimziNodePool(copy)
      BY PoolFirst DEF ExtraContent, Extra
    <3>3. next # 1 => extras'[1] = extras[1]
      BY <2>1
    <3>4. QED
      BY <3>1, <3>2, <3>3
  <2>3. kind = "strimzi" /\ extras'[1] = StrimziNodePool(copy) =>
          /\ extras'[1] # Nil
          /\ "deleteClaim" \in DOMAIN extras'[1] /\ extras'[1].deleteClaim = TRUE
    BY NodePoolReclaims
  <2>4. QED
    BY <1>2, <1>4, <1>5, <2>1, <2>2, <2>3 DEF Complete
<1>10. CASE DeleteExtra
  <2>1. /\ pc = "deleteExtras" /\ target' = target /\ claims' = claims
        /\ extras' = [extras EXCEPT ![next] = Nil]
    BY <1>10 DEF DeleteExtra, HandleExtra, cluster
  <2>2. target = Nil
    BY <2>1 DEF StorageInv, FinalizerInv, Deleting
  <2>3. ~claims
    BY <1>2, <2>2 DEF Complete
  <2>4. kind = "strimzi" => extras'[1] = Nil \/ extras'[1] = extras[1]
    BY <2>1, PoolFirst DEF StorageInv, ForeignInv, TypeInv, TypeOK
  <2>5. QED
    BY <1>2, <1>4, <2>1, <2>2, <2>3, <2>4
<1>11. CASE VendorAdopts
  <2>1. Complete /\ target' = target /\ extras' = extras
    BY <1>11 DEF VendorAdopts
  <2>2. QED
    BY <1>2, <1>4, <1>5, <2>1 DEF Complete
<1>12. CASE UNCHANGED <<target, extras>> /\ (claims' => claims)
  BY <1>2, <1>4, <1>5, <1>12 DEF Complete
<1>13. QED
  <2>1. ASSUME ~(ApplyTarget \/ Tune \/ DeleteTarget \/ ApplyExtra \/ DeleteExtra \/ VendorAdopts)
        PROVE  UNCHANGED <<target, extras>> /\ (claims' => claims)
    <3>1. UNCHANGED target
      BY <2>1, TargetWriters
    <3>2. UNCHANGED extras
      BY <2>1 DEF Next, Worker, Reconcile, AddFinalizer, GetTarget, ResolveClass, PatchRollouts,
         UpdateStatus, DeletePVCs, RemoveFinalizer, Conflict, Refused, VendorReports, EditSpec,
         EditDefaults, Delete, vars
    <3>3. claims' = claims \/ claims' = FALSE
      BY <2>1 DEF Next, Worker, Reconcile, AddFinalizer, GetTarget, ResolveClass, PatchRollouts,
         UpdateStatus, DeletePVCs, RemoveFinalizer, Conflict, Refused, VendorReports, EditSpec,
         EditDefaults, Delete, cluster, vars
    <3>4. QED
      BY <3>1, <3>2, <3>3
  <2>2. QED
    BY <1>6, <1>7, <1>8, <1>9, <1>10, <1>11, <1>12, <2>1

LEMMA StorageInit == Init => StorageInv
<1> SUFFICES ASSUME Init PROVE StorageInv
  OBVIOUS
<1>1. ForeignInv
  BY ForeignInit
<1>2. FinalizerInv /\ OwnedInv
  BY DEF Init, FinalizerInv, OwnedInv, Deleting
<1>3. ReclaimInv
  BY PoolFirst DEF Init, ReclaimInv
<1>4. QED
  BY <1>1, <1>2, <1>3 DEF StorageInv

LEMMA StorageNext == StorageInv /\ [Next]_vars => StorageInv'
<1> SUFFICES ASSUME StorageInv, [Next]_vars PROVE StorageInv'
  OBVIOUS
<1>1. ForeignInv' /\ TypeInv'
  BY ForeignNext DEF StorageInv, ForeignInv
<1>2. FinalizerInv'
  BY FinalizerNext DEF StorageInv, ForeignInv
<1>3. OwnedInv'
  BY OwnedNext DEF StorageInv
<1>4. ReclaimInv'
  BY <1>1, ReclaimNext
<1>5. QED
  BY <1>1, <1>2, <1>3, <1>4 DEF StorageInv

\* A CR that is gone has left no storage behind (Loki's, deleted by label in a
\* race, apart): the finalizer goes only after the vendor object, and that
\* object asks for the deletion of its claims whatever the spec was edited to.
THEOREM StorageGoesWithCR == Spec => []StorageFreed
<1>1. Spec => []StorageInv
  BY StorageInit, StorageNext, PTL DEF Spec
<1>2. StorageInv => StorageFreed
  BY DEF StorageInv, FinalizerInv, ReclaimInv, Complete, StorageFreed
<1>3. QED
  BY <1>1, <1>2, PTL

(***************************************************************************)
(* The finalizer protocol                                                  *)
(***************************************************************************)

DeletePath == {"deleteTarget", "deleteExtras", "deletePVCs", "removeFinalizer"}

NoExtras == \A i \in DOMAIN Slots : extras[i] = Nil

\* A CR without the finalizer has no extras, either: a Reconcile adds it before
\* it makes any, and takes it off when it has deleted them one after the other.
TeardownInv ==
  /\ ~fin => NoExtras
  /\ pc = "addFinalizer" => ~fin /\ (current => phase = "present")
  /\ pc \in DeletePath => phase = "deleting"
  /\ pc = "deleteExtras" => \A i \in 1..(next - 1) : extras[i] = Nil
  /\ pc \in {"deletePVCs", "removeFinalizer"} => NoExtras

\* The extras of a kind are numbered from 1.
LEMMA SlotNumbers ==
  ASSUME TypeInv
  PROVE  /\ Len(Slots) \in Nat /\ DOMAIN Slots = 1..Len(Slots)
         /\ DOMAIN extras = DOMAIN Slots
         /\ Slots = <<>> => DOMAIN Slots = {}
         /\ kind \in Kinds
<1>1. kind \in Kinds /\ DOMAIN extras = DOMAIN Slots
  BY DEF TypeInv, TypeOK
<1>2. Slots \in Seq(ExtraRecords)
  BY <1>1, ExtrasSequence DEF Slots
<1>3. QED
  BY <1>1, <1>2

\* The two actions that write an extra.
LEMMA ExtrasWriters ==
  ASSUME [Next]_vars, ~ApplyExtra, ~DeleteExtra
  PROVE  UNCHANGED extras
BY DEF Next, Worker, Reconcile, AddFinalizer, GetTarget, ResolveClass, ApplyTarget,
   PatchRollouts, UpdateStatus, DeleteTarget, DeletePVCs, RemoveFinalizer, Conflict, Refused,
   VendorAdopts, VendorReports, EditSpec, EditDefaults, Delete, Tune, vars

\* Those of the finalizer, and of the CR's phase.
LEMMA LifeWriters ==
  ASSUME [Next]_vars, ~AddFinalizer, ~RemoveFinalizer, ~Delete
  PROVE  UNCHANGED <<fin, phase>>
BY DEF Next, Worker, Reconcile, GetTarget, ResolveClass, ApplyTarget, ApplyExtra, HandleExtra,
   PatchRollouts, UpdateStatus, DeleteTarget, DeleteExtra, DeletePVCs, Conflict, Refused,
   VendorAdopts, VendorReports, EditSpec, EditDefaults, Tune, vars, user

LEMMA TeardownNext ==
  ASSUME TypeInv, FinalizerInv, TeardownInv, [Next]_vars
  PROVE  TeardownInv'
<1>s. Slots' = Slots
  BY KindKept DEF Slots
<1>n. NoExtras /\ UNCHANGED extras => NoExtras'
  BY <1>s DEF NoExtras
<1>1. CASE Reconcile
  <2>1. /\ pc' = IF phase = "deleting" THEN "deleteTarget"
                 ELSE IF ~fin THEN "addFinalizer" ELSE "getTarget"
        /\ phase \in {"present", "deleting"}
        /\ UNCHANGED <<fin, phase, extras>>
    BY <1>1 DEF Reconcile, Call, TypeInv, TypeOK, user
  <2>2. pc' \notin {"deleteExtras", "deletePVCs", "removeFinalizer"}
    BY <2>1
  <2>3. QED
    BY <1>n, <2>1, <2>2 DEF TeardownInv, DeletePath
<1>2. CASE AddFinalizer \/ UpdateStatus \/ Conflict \/ Refused
  <2>1. pc' = "idle" /\ UNCHANGED extras /\ (fin' \/ fin' = fin)
    BY <1>2 DEF AddFinalizer, UpdateStatus, Conflict, Refused, Return
  <2>2. QED
    BY <1>n, <2>1 DEF TeardownInv, DeletePath
<1>3. CASE GetTarget \/ ResolveClass \/ ApplyTarget \/ PatchRollouts
  <2>1. /\ pc' \in {"resolveClass", "applyTarget", "applyExtras", "patchRollouts",
                    "updateStatus"}
        /\ UNCHANGED <<fin, extras>>
    BY <1>3 DEF GetTarget, ResolveClass, ApplyTarget, PatchRollouts, Call, FirstOf, AfterApply
  <2>2. QED
    BY <1>n, <2>1 DEF TeardownInv, DeletePath
<1>4. CASE ApplyExtra
  <2>1. /\ pc = "applyExtras" /\ fin' = fin
        /\ pc' \in {"applyExtras", "patchRollouts", "updateStatus"}
    BY <1>4 DEF ApplyExtra, HandleExtra, Call, AfterApply
  <2>2. fin
    BY <2>1 DEF FinalizerInv
  <2>3. QED
    BY <2>1, <2>2 DEF TeardownInv, DeletePath
<1>5. CASE DeleteTarget
  <2>1. /\ pc = "deleteTarget" /\ UNCHANGED <<next, fin, phase, extras>>
        /\ pc' = FirstOf("deleteExtras", AfterDelete)
    BY <1>5 DEF DeleteTarget, Call, user
  <2>2. next = 1
    BY <2>1 DEF TypeInv, TypeOK
  <2>3. fin /\ phase = "deleting"
    BY <2>1 DEF FinalizerInv, TeardownInv, DeletePath
  <2>4. CASE Slots = <<>>
    <3>1. pc' \in {"deletePVCs", "removeFinalizer"}
      BY <2>1, <2>4 DEF FirstOf, AfterDelete
    <3>2. NoExtras'
      BY <1>s, <2>4, SlotNumbers DEF NoExtras
    <3>3. QED
      BY <2>1, <2>3, <3>1, <3>2 DEF TeardownInv, DeletePath
  <2>5. CASE Slots # <<>>
    <3>1. pc' = "deleteExtras" /\ next' = 1
      BY <2>1, <2>2, <2>5 DEF FirstOf
    <3>2. 1..(next' - 1) = {}
      BY <3>1
    <3>3. QED
      BY <2>1, <2>3, <3>1, <3>2 DEF TeardownInv, DeletePath
  <2>6. QED
    BY <2>4, <2>5
<1>6. CASE DeleteExtra
  <2>1. /\ pc = "deleteExtras" /\ UNCHANGED <<fin, phase>>
        /\ pc' = IF next = Len(Slots) THEN AfterDelete ELSE "deleteExtras"
        /\ next' = IF next = Len(Slots) THEN 1 ELSE next + 1
        /\ extras' = [extras EXCEPT ![next] = Nil]
    BY <1>6 DEF DeleteExtra, HandleExtra, Call, user
  <2>2. next \in DOMAIN Slots
    BY <2>1 DEF TypeInv, TypeOK
  <2>3. fin /\ phase = "deleting" /\ \A i \in 1..(next - 1) : extras[i] = Nil
    BY <2>1 DEF FinalizerInv, TeardownInv, DeletePath
  <2>4. \A i \in 1..next : extras'[i] = Nil
    BY <2>1, <2>2, <2>3, SlotNumbers
  <2>5. CASE next = Len(Slots)
    <3>1. NoExtras'
      BY <1>s, <2>4, <2>5, SlotNumbers DEF NoExtras
    <3>2. pc' \in {"deletePVCs", "removeFinalizer"}
      BY <2>1, <2>5 DEF AfterDelete
    <3>3. QED
      BY <2>1, <2>3, <3>1, <3>2 DEF TeardownInv, DeletePath
  <2>6. CASE next # Len(Slots)
    <3>1. pc' = "deleteExtras" /\ \A i \in 1..(next' - 1) : extras'[i] = Nil
      BY <2>1, <2>2, <2>4, <2>6, SlotNumbers
    <3>2. QED
      BY <2>1, <2>3, <3>1 DEF TeardownInv, DeletePath
  <2>7. QED
    BY <2>5, <2>6
<1>7. CASE DeletePVCs
  <2>1. /\ pc = "deletePVCs" /\ pc' = "removeFinalizer" /\ UNCHANGED <<fin, phase, extras>>
    BY <1>7 DEF DeletePVCs, Call, user
  <2>2. QED
    BY <1>n, <2>1 DEF TeardownInv, DeletePath
<1>8. CASE RemoveFinalizer
  <2>1. pc = "removeFinalizer" /\ pc' = "idle" /\ UNCHANGED extras
    BY <1>8 DEF RemoveFinalizer, Call, Return
  <2>2. QED
    BY <1>n, <2>1 DEF TeardownInv, DeletePath
<1>9. CASE Delete
  <2>1. /\ phase = "present" /\ current' = FALSE /\ UNCHANGED <<fin, pc, next, extras>>
    BY <1>9 DEF Delete
  <2>2. pc \notin DeletePath
    BY <2>1 DEF TeardownInv
  <2>3. QED
    BY <1>n, <2>1, <2>2 DEF TeardownInv, DeletePath
<1>10. CASE UNCHANGED <<fin, phase, pc, next, extras>> /\ (current' = current \/ current' = FALSE)
  BY <1>n, <1>10 DEF TeardownInv
<1>11. QED
  <2>1. CASE VendorAdopts \/ VendorReports \/ EditSpec \/ EditDefaults \/ Tune \/ UNCHANGED vars
    <3>1. UNCHANGED <<fin, phase, pc, next, extras>> /\ (current' = current \/ current' = FALSE)
      BY <2>1 DEF VendorAdopts, VendorReports, EditSpec, EditDefaults, Tune, vars, worker, user
    <3>2. QED
      BY <3>1, <1>10
  <2>2. QED
    BY <1>1, <1>2, <1>3, <1>4, <1>5, <1>6, <1>7, <1>8, <1>9, <2>1 DEF Next, Worker

(***************************************************************************)
(* Each step as one of the gate's, or none                                 *)
(***************************************************************************)

Owned == {i \in DOMAIN Slots : extras[i] # Nil} \cup (IF target # Nil THEN {0} ELSE {})

LEMMA OwnedObjects ==
  ASSUME NEW i \in DOMAIN Slots, kind \in Kinds
  PROVE  i \in {0} \cup UNION {DOMAIN ExtraResources[k] : k \in Kinds}
BY DEF Slots

LEMMA GateStutters ==
  ASSUME phase' # "gone" <=> phase # "gone", fin' = fin,
         phase' = "deleting" <=> phase = "deleting", Owned' = Owned
  PROVE  UNCHANGED Gate!vars
BY Zenon DEF Gate!vars, Owned

LEMMA GateMakes ==
  ASSUME NEW o \in {0} \cup UNION {DOMAIN ExtraResources[k] : k \in Kinds},
         fin, UNCHANGED <<fin, phase>>, Owned' = Owned \cup {o}
  PROVE  Gate!Next
<1>1. Gate!Make(o)
  BY DEF Gate!Make, Owned
<1>2. QED
  BY <1>1 DEF Gate!Next

LEMMA GateLoses ==
  ASSUME NEW o \in {0} \cup UNION {DOMAIN ExtraResources[k] : k \in Kinds},
         UNCHANGED <<fin, phase>>, Owned' = Owned \ {o}
  PROVE  [Gate!Next]_Gate!vars
<1>1. CASE o \in Owned
  <2>1. Gate!Lose(o)
    BY <1>1 DEF Gate!Lose, Owned
  <2>2. QED
    BY <2>1 DEF Gate!Next
<1>2. CASE o \notin Owned
  BY <1>2, GateStutters
<1>3. QED
  BY <1>1, <1>2

\* An extra is made or lost where one is written.
LEMMA WrittenExtra ==
  ASSUME TypeInv, NEW i \in DOMAIN Slots, NEW c, UNCHANGED <<kind, target>>,
         extras' = [extras EXCEPT ![i] = c]
  PROVE  Owned' = IF c # Nil THEN Owned \cup {i} ELSE Owned \ {i}
<1>1. Slots' = Slots /\ 0 \notin DOMAIN Slots
  BY SlotNumbers DEF Slots
<1>2. \A j \in DOMAIN Slots : extras'[j] = IF j = i THEN c ELSE extras[j]
  BY SlotNumbers
<1>3. QED
  BY <1>1, <1>2 DEF Owned

LEMMA GateStep ==
  ASSUME ForeignInv, ForeignInv', FinalizerInv, TeardownInv, [Next]_vars
  PROVE  [Gate!Next]_Gate!vars
<1>t. TypeInv /\ kind \in Kinds /\ kind' = kind /\ Slots' = Slots
  BY KindKept DEF ForeignInv, TypeInv, TypeOK, Slots
<1>0. 0 \in {0} \cup UNION {DOMAIN ExtraResources[k] : k \in Kinds} /\ 0 \notin DOMAIN Slots
  BY <1>t, SlotNumbers
<1>1. CASE AddFinalizer
  <2>1. /\ pc = "addFinalizer" /\ current /\ fin' = TRUE
        /\ UNCHANGED <<phase, target, extras>>
    BY <1>1 DEF AddFinalizer, Call
  <2>2. ~fin /\ phase = "present" /\ Owned' = Owned
    BY <1>t, <2>1 DEF TeardownInv, Owned
  <2>3. Gate!Guard
    BY <2>1, <2>2 DEF Gate!Guard, Owned
  <2>4. QED
    BY <2>3 DEF Gate!Next
<1>2. CASE ApplyTarget
  <2>1. /\ pc = "applyTarget" /\ UNCHANGED <<fin, phase, extras>>
        /\ target' = Merged(target, BuildManifest(kind, Name, copy))
    BY <1>2 DEF ApplyTarget, Call, user
  <2>2. fin /\ target' # Nil
    BY <2>1, PairNotNil DEF FinalizerInv, Merged
  <2>3. Owned' = Owned \cup {0}
    BY <1>t, <2>1, <2>2 DEF Owned
  <2>4. QED
    BY <1>0, <2>1, <2>2, <2>3, GateMakes
<1>3. CASE ApplyExtra
  <2>1. PICK c : /\ pc = "applyExtras" /\ UNCHANGED <<fin, phase, target>>
                 /\ extras' = [extras EXCEPT ![next] = c]
    BY <1>3 DEF ApplyExtra, HandleExtra, user
  <2>2. fin /\ next \in DOMAIN Slots
    BY <1>t, <2>1 DEF FinalizerInv, TypeInv, TypeOK
  <2>3. Owned' = IF c # Nil THEN Owned \cup {next} ELSE Owned \ {next}
    BY <1>t, <2>1, <2>2, WrittenExtra
  <2>4. QED
    BY <1>t, <2>1, <2>2, <2>3, OwnedObjects, GateMakes, GateLoses
<1>4. CASE DeleteTarget
  <2>1. target' = Nil /\ UNCHANGED <<fin, phase, extras>>
    BY <1>4 DEF DeleteTarget, user
  <2>2. Owned' = Owned \ {0}
    BY <1>t, <1>0, <2>1 DEF Owned
  <2>3. QED
    BY <1>0, <2>1, <2>2, GateLoses
<1>5. CASE DeleteExtra
  <2>1. /\ pc = "deleteExtras" /\ UNCHANGED <<fin, phase, target>>
        /\ extras' = [extras EXCEPT ![next] = Nil]
    BY <1>5 DEF DeleteExtra, HandleExtra, user
  <2>2. next \in DOMAIN Slots
    BY <1>t, <2>1 DEF TypeInv, TypeOK
  <2>3. Owned' = Owned \ {next}
    BY <1>t, <2>1, <2>2, WrittenExtra
  <2>4. QED
    BY <1>t, <2>1, <2>2, <2>3, OwnedObjects, GateLoses
<1>6. CASE RemoveFinalizer
  <2>1. /\ pc = "removeFinalizer" /\ fin' = FALSE /\ phase' = "gone"
        /\ UNCHANGED <<target, extras>>
    BY <1>6 DEF RemoveFinalizer, Call
  <2>2. fin /\ phase = "deleting" /\ target = Nil /\ NoExtras
    BY <2>1 DEF FinalizerInv, TeardownInv, DeletePath, Deleting
  <2>3. Owned = {} /\ Owned' = Owned
    BY <1>t, <2>1, <2>2 DEF Owned, NoExtras
  <2>4. Gate!Release
    BY <2>1, <2>2, <2>3 DEF Gate!Release, Owned
  <2>5. QED
    BY <2>4 DEF Gate!Next
<1>7. CASE Delete
  <2>1. /\ phase = "present" /\ UNCHANGED <<fin, target, extras>>
        /\ phase' = IF fin THEN "deleting" ELSE "gone"
    BY <1>7 DEF Delete
  <2>2. Owned' = Owned
    BY <1>t, <2>1 DEF Owned
  <2>3. CASE fin
    <3>1. Gate!Leave
      BY <2>1, <2>2, <2>3 DEF Gate!Leave, Owned
    <3>2. QED
      BY <3>1 DEF Gate!Next
  <2>4. CASE ~fin
    <3>1. Gate!Vanish
      BY <2>1, <2>2, <2>4 DEF Gate!Vanish, Owned
    <3>2. QED
      BY <3>1 DEF Gate!Next
  <2>5. QED
    BY <2>3, <2>4
<1>8. CASE Tune
  <2>1. target # Nil /\ tuned' /\ UNCHANGED <<fin, phase, extras>>
    BY <1>8 DEF Tune, user
  <2>2. target' # Nil
    BY <2>1 DEF ForeignInv
  <2>3. Owned' = Owned
    BY <1>t, <2>1, <2>2 DEF Owned
  <2>4. QED
    BY <2>1, <2>3, GateStutters
<1>9. QED
  <2>1. ASSUME ~(AddFinalizer \/ ApplyTarget \/ ApplyExtra \/ DeleteTarget \/ DeleteExtra
                   \/ RemoveFinalizer \/ Delete \/ Tune)
        PROVE  UNCHANGED Gate!vars
    <3>1. UNCHANGED <<fin, phase, target, extras>>
      BY <2>1, TargetWriters, ExtrasWriters, LifeWriters
    <3>2. Owned' = Owned
      BY <1>t, <3>1 DEF Owned
    <3>3. QED
      BY <3>1, <3>2, GateStutters
  <2>2. QED
    BY <1>1, <1>2, <1>3, <1>4, <1>5, <1>6, <1>7, <1>8, <2>1

LEMMA GateStart == Init => Gate!Init
BY DEF Init, Gate!Init

\* For every kind of CR the vendor object and the extras follow the finalizer
\* protocol: none is made for a CR without the finalizer, and it goes only when
\* the last of them has, whatever the spec was edited to in between.
THEOREM InstanceImplementsGate == Spec => ImplementsGate
<1> DEFINE I == StorageInv /\ TeardownInv
<1>1. Init => I
  BY StorageInit DEF Init, TeardownInv, NoExtras, DeletePath
<1>2. I /\ [Next]_vars => I'
  BY StorageNext, TeardownNext DEF StorageInv, ForeignInv
<1>3. I /\ I' /\ [Next]_vars => [Gate!Next]_Gate!vars
  BY GateStep DEF StorageInv
<1> HIDE DEF I
<1>4. QED
  BY <1>1, <1>2, <1>3, GateStart, PTL DEF Spec, ImplementsGate, Gate!Spec

(***************************************************************************)
(* What a vendor makes of a manifest                                       *)
(***************************************************************************)

\* The object has the manifest's fields, and at most the one of somebody else.
Carries(f, m) ==
  /\ DOMAIN m \subseteq DOMAIN f
  /\ DOMAIN f \subseteq DOMAIN m \cup {"tuning"}
  /\ \A g \in DOMAIN m : f[g] = m[g]

LEMMA OptionalFields ==
  ASSUME NEW o, NEW option, NEW given
  PROVE  /\ \A g : g \in DOMAIN Optional(o, option, given) <=>
                     g \in DOMAIN o /\ (g \in DOMAIN option => option[g] \in given)
         /\ \A g \in DOMAIN Optional(o, option, given) : Optional(o, option, given)[g] = o[g]
BY DEF Optional

LEMMA PresentCarried ==
  ASSUME NEW f, NEW m, Carries(f, m), NEW fields,
         \A o \in DOMAIN fields : fields[o] # "tuning"
  PROVE  Present(f, fields) = Present(m, fields)
BY DEF Carries, Present

LEMMA SpecOptions ==
  ASSUME NEW k \in Kinds, NEW s \in Specs(k)
  PROVE  s.opts \subseteq SpecOf[k].opts
BY DEF Specs

\* The user has named the class of the Ingress.
Named(s) == s.class # ""

\* Kind by kind: the options in force are those of the spec that are the vendor
\* object's business, and the units are the spec's.

LEMMA CnpgServed ==
  ASSUME NEW s \in Specs("cnpg"), NEW f, Carries(f, CnpgManifest(Name, s))
  PROVE  /\ VendorReads("cnpg", f) = s.opts
         /\ VendorUnits("cnpg", f) = s.units
<1> DEFINE m == CnpgManifest(Name, s)
           fields == [image |-> "imageName", resources |-> "resources", expose |-> "managed",
                      monitoring |-> "monitoring"]
<1>1. s.opts \subseteq {"image", "resources", "monitoring", "expose"}
  BY SpecOptions, TenKinds DEF SpecOf, ApiSpec, PostgresClusterSpec
<1>2. /\ "imageName" \in DOMAIN m <=> "image" \in s.opts
      /\ "resources" \in DOMAIN m <=> "resources" \in s.opts
      /\ "managed" \in DOMAIN m <=> "expose" \in s.opts
      /\ "monitoring" \in DOMAIN m <=> "monitoring" \in s.opts
      /\ "instances" \in DOMAIN m /\ m.instances = s.units
  BY OptionalFields DEF CnpgManifest
<1> HIDE DEF m
<1>3. VendorReads("cnpg", f) = Present(m, fields)
  BY PresentCarried DEF VendorReads, m
<1>4. Present(m, fields) = s.opts
  BY <1>1, <1>2 DEF Present
<1>5. QED
  BY <1>2, <1>3, <1>4 DEF VendorUnits, Carries, m

LEMMA MariadbServed ==
  ASSUME NEW s \in Specs("mariadb"), NEW f, Carries(f, MariadbManifest(Name, s))
  PROVE  /\ VendorReads("mariadb", f) = s.opts \cup If(s.units > 1, "clustered")
         /\ VendorUnits("mariadb", f) = s.units
<1> DEFINE m == MariadbManifest(Name, s)
           fields == [image |-> "image", resources |-> "resources", expose |-> "service",
                      monitoring |-> "metrics", clustered |-> "galera"]
<1>1. s.opts \subseteq {"image", "resources", "monitoring", "expose"}
  BY SpecOptions, TenKinds DEF SpecOf, ApiSpec, MariaDBClusterSpec
<1>2. /\ "image" \in DOMAIN m <=> "image" \in s.opts
      /\ "resources" \in DOMAIN m <=> "resources" \in s.opts
      /\ "service" \in DOMAIN m <=> "expose" \in s.opts
      /\ "metrics" \in DOMAIN m <=> "monitoring" \in s.opts
      /\ "galera" \in DOMAIN m <=> s.units > 1
      /\ "replicas" \in DOMAIN m /\ m.replicas = s.units
  BY <1>1, OptionalFields DEF MariadbManifest, If
<1> HIDE DEF m
<1>3. VendorReads("mariadb", f) = Present(m, fields)
  BY PresentCarried DEF VendorReads, m
<1>4. Present(m, fields) = s.opts \cup If(s.units > 1, "clustered")
  BY <1>1, <1>2 DEF Present, If
<1>5. QED
  BY <1>2, <1>3, <1>4 DEF VendorUnits, Carries, m

LEMMA ValkeyServed ==
  ASSUME NEW s \in Specs("valkey"), NEW f, Carries(f, ValkeyManifest(Name, s))
  PROVE  /\ VendorReads("valkey", f) = s.opts \ {"expose"}
         /\ VendorUnits("valkey", f) = s.units
<1> DEFINE m == ValkeyManifest(Name, s)
           fields == [image |-> "image", resources |-> "resources"]
<1>1. s.opts \subseteq {"replicas", "image", "resources", "expose", "monitoring"}
  BY SpecOptions, TenKinds DEF SpecOf, ApiSpec, ValkeyClusterSpec
<1>2. /\ "image" \in DOMAIN m <=> "image" \in s.opts
      /\ "resources" \in DOMAIN m <=> "resources" \in s.opts
      /\ {"shards", "replicas", "exporter"} \subseteq DOMAIN m
  BY OptionalFields DEF ValkeyManifest
<1>3. /\ m.shards = s.units
      /\ m.replicas = IF "replicas" \in s.opts THEN 1 ELSE 0
      /\ m.exporter = ("monitoring" \in s.opts)
  BY <1>2, OptionalFields DEF ValkeyManifest
<1> HIDE DEF m
<1>4. /\ f.shards = s.units
      /\ f.replicas > 0 <=> "replicas" \in s.opts
      /\ "exporter" \in DOMAIN f /\ (f.exporter <=> "monitoring" \in s.opts)
  <2>1. "exporter" \in DOMAIN f /\ f.exporter = ("monitoring" \in s.opts)
    BY <1>2, <1>3, Zenon DEF Carries, m
  <2>2. f.shards = s.units /\ f.replicas = IF "replicas" \in s.opts THEN 1 ELSE 0
    BY <1>2, <1>3 DEF Carries, m
  <2>3. f.replicas > 0 <=> "replicas" \in s.opts
    BY <2>2
  <2>4. QED
    BY <2>1, <2>2, <2>3, Zenon
<1>5. VendorReads("valkey", f) = Present(m, fields) \cup If("replicas" \in s.opts, "replicas")
                                   \cup If("monitoring" \in s.opts, "monitoring")
  BY <1>4, PresentCarried DEF VendorReads, If, m
<1>6. Present(m, fields) = s.opts \cap {"image", "resources"}
  BY <1>2 DEF Present
<1>7. QED
  BY <1>1, <1>4, <1>5, <1>6 DEF VendorUnits, If

LEMMA PsmdbServed ==
  ASSUME NEW s \in Specs("psmdb"), NEW f, Carries(f, PsmdbManifest(Name, s))
  PROVE  /\ VendorReads("psmdb", f) = s.opts
         /\ VendorUnits("psmdb", f) = s.units
<1> DEFINE r == Optional([size |-> s.units, storage |-> Given, resources |-> Given,
                          expose |-> Given, sidecars |-> <<Name, "-psmdb-secrets">>],
                         [resources |-> "resources", expose |-> "expose",
                          sidecars |-> "monitoring"],
                         s.opts)
<1>1. s.opts \subseteq {"resources", "monitoring", "expose"}
  BY SpecOptions, TenKinds DEF SpecOf, ApiSpec, MongoDBClusterSpec
<1>2. f.replset = r
  BY DEF PsmdbManifest, Carries
<1>3. /\ "resources" \in DOMAIN r <=> "resources" \in s.opts
      /\ "expose" \in DOMAIN r <=> "expose" \in s.opts
      /\ "sidecars" \in DOMAIN r <=> "monitoring" \in s.opts
      /\ r.size = s.units
  BY OptionalFields
<1> HIDE DEF r
<1>4. QED
  BY <1>1, <1>2, <1>3 DEF VendorReads, VendorUnits, Present

\* A Kafka's units and resources are its node pool's.
LEMMA StrimziServed ==
  ASSUME NEW s \in Specs("strimzi"), NEW f, Carries(f, StrimziManifest(Name, s))
  PROVE  /\ VendorReads("strimzi", StrimziNodePool(s) @@ f) = s.opts
         /\ VendorUnits("strimzi", StrimziNodePool(s) @@ f) = s.units
<1> DEFINE m == StrimziManifest(Name, s)
           p == StrimziNodePool(s)
           g == p @@ f
           fields == [version |-> "version", monitoring |-> "metricsConfig",
                      resources |-> "resources"]
<1>1. s.opts \subseteq {"version", "resources", "monitoring", "expose"}
  BY SpecOptions, TenKinds DEF SpecOf, ApiSpec, KafkaClusterSpec
<1>2. /\ "version" \in DOMAIN m <=> "version" \in s.opts
      /\ "metricsConfig" \in DOMAIN m <=> "monitoring" \in s.opts
      /\ "resources" \notin DOMAIN m
      /\ "listeners" \in DOMAIN m /\ m.listeners = {"plain"} \cup ({"expose"} \cap s.opts)
  BY OptionalFields DEF StrimziManifest
<1>3. /\ "resources" \in DOMAIN p <=> "resources" \in s.opts
      /\ {"version", "metricsConfig", "listeners"} \cap DOMAIN p = {}
      /\ "replicas" \in DOMAIN p /\ p.replicas = s.units
  BY OptionalFields DEF StrimziNodePool
<1> HIDE DEF m, p
<1>4. /\ \A x \in {"version", "metricsConfig", "resources"} :
            x \in DOMAIN g <=> x \in DOMAIN p \/ x \in DOMAIN m
      /\ g.listeners = m.listeners /\ g.replicas = s.units
  BY <1>2, <1>3 DEF Carries, @@, m
<1> HIDE DEF g
<1>5. /\ "version" \in DOMAIN g <=> "version" \in s.opts
      /\ "metricsConfig" \in DOMAIN g <=> "monitoring" \in s.opts
      /\ "resources" \in DOMAIN g <=> "resources" \in s.opts
  BY <1>2, <1>3, <1>4
<1>6. Present(g, fields) = s.opts \ {"expose"}
  BY <1>1, <1>5 DEF Present
<1>7. VendorReads("strimzi", g) = Present(g, fields) \cup If("expose" \in s.opts, "expose")
  BY <1>2, <1>4 DEF VendorReads, If
<1>8. VendorReads("strimzi", g) = s.opts
  BY <1>6, <1>7 DEF If
<1>9. QED
  BY <1>4, <1>8 DEF VendorUnits, g, p

LEMMA RabbitmqServed ==
  ASSUME NEW s \in Specs("rabbitmq"), NEW f, Carries(f, RabbitmqManifest(Name, s))
  PROVE  /\ VendorReads("rabbitmq", f) = s.opts \ {"ingress", "tls", "monitoring"}
         /\ VendorUnits("rabbitmq", f) = s.units
<1> DEFINE m == RabbitmqManifest(Name, s)
           fields == [image |-> "image", resources |-> "resources", expose |-> "service"]
<1>1. s.opts \subseteq {"image", "resources", "ingress", "tls", "expose", "monitoring"}
  BY SpecOptions, TenKinds DEF SpecOf, ApiSpec, RabbitMQClusterSpec
<1>2. /\ "image" \in DOMAIN m <=> "image" \in s.opts
      /\ "resources" \in DOMAIN m <=> "resources" \in s.opts
      /\ "service" \in DOMAIN m <=> "expose" \in s.opts
      /\ "replicas" \in DOMAIN m /\ m.replicas = s.units
  BY OptionalFields DEF RabbitmqManifest
<1> HIDE DEF m
<1>3. VendorReads("rabbitmq", f) = Present(m, fields)
  BY PresentCarried DEF VendorReads, m
<1>4. Present(m, fields) = s.opts \ {"ingress", "tls", "monitoring"}
  BY <1>1, <1>2 DEF Present
<1>5. QED
  BY <1>2, <1>3, <1>4 DEF VendorUnits, Carries, m

LEMMA PrometheusServed ==
  ASSUME NEW s \in Specs("prometheus"), NEW f, Carries(f, PrometheusManifest(Name, s))
  PROVE  /\ VendorReads("prometheus", f) = s.opts \ {"ingress", "tls", "expose"}
         /\ VendorUnits("prometheus", f) = s.units
<1> DEFINE m == PrometheusManifest(Name, s)
           fields == [version |-> "version", retention |-> "retention", storage |-> "storage",
                      resources |-> "resources"]
<1>1. s.opts \subseteq {"version", "retention", "storage", "resources", "ingress", "tls",
                     "expose"}
  BY SpecOptions, TenKinds DEF SpecOf, ApiSpec, PrometheusInstanceSpec
<1>2. /\ "version" \in DOMAIN m <=> "version" \in s.opts
      /\ "retention" \in DOMAIN m <=> "retention" \in s.opts
      /\ "storage" \in DOMAIN m <=> "storage" \in s.opts
      /\ "resources" \in DOMAIN m <=> "resources" \in s.opts
      /\ "replicas" \in DOMAIN m /\ m.replicas = s.units
  BY OptionalFields DEF PrometheusManifest
<1> HIDE DEF m
<1>3. VendorReads("prometheus", f) = Present(m, fields)
  BY PresentCarried DEF VendorReads, m
<1>4. Present(m, fields) = s.opts \ {"ingress", "tls", "expose"}
  BY <1>1, <1>2 DEF Present
<1>5. QED
  BY <1>2, <1>3, <1>4 DEF VendorUnits, Carries, m

LEMMA IngressFields ==
  ASSUME NEW s, NEW backend, NEW port, NEW i, i = IngressBuild(s, backend, port)
  PROVE  /\ "tls" \in DOMAIN i <=> "tls" \in s.opts
         /\ Named(s) => "class" \in DOMAIN i /\ i.class = s.class
         /\ i # Nil
<1> DEFINE option == [class |-> "class", tls |-> "tls"]
           given == s.opts \cup If(Named(s), "class")
<1>1. PICK o : o = [backend |-> backend, port |-> port, class |-> s.class, tls |-> Given]
  OBVIOUS
<1>2. i = Optional(o, option, given)
  BY <1>1 DEF IngressBuild, Named
<1>3. /\ DOMAIN o = {"backend", "port", "class", "tls"} /\ o.class = s.class
      /\ DOMAIN option = {"class", "tls"} /\ option["class"] = "class" /\ option["tls"] = "tls"
  BY <1>1
<1>4. /\ "tls" \in given <=> "tls" \in s.opts
      /\ Named(s) => "class" \in given
  BY DEF If
<1> HIDE DEF given, option
<1>5. DOMAIN i = {g \in DOMAIN o : g \in DOMAIN option => option[g] \in given}
  BY <1>2 DEF Optional
<1>6. /\ "tls" \in DOMAIN i <=> "tls" \in s.opts
      /\ Named(s) => "class" \in DOMAIN i
      /\ "backend" \in DOMAIN i
  BY <1>5, <1>3, <1>4
<1>7. Named(s) => i["class"] = s.class
  BY <1>2, <1>3, <1>6 DEF Optional
<1>8. DOMAIN Nil = {}
  BY DEF Nil
<1>9. QED
  BY <1>6, <1>7, <1>8

LEMMA GrafanaServed ==
  ASSUME NEW s \in Specs("grafana"), NEW f, Carries(f, GrafanaManifest(Name, s))
  PROVE  /\ VendorReads("grafana", f) = s.opts \ {"lokiRef"}
         /\ VendorUnits("grafana", f) = s.units
         /\ Named(s) => "class" \in DOMAIN f.ingress /\ f.ingress.class = s.class
<1> DEFINE m == GrafanaManifest(Name, s)
           i == IngressBuild(s, <<Name, "-service">>, 3000)
           fields == [version |-> "version", persistence |-> "persistentVolumeClaim",
                      ingress |-> "ingress", expose |-> "service"]
<1>1. /\ s.opts \subseteq {"version", "persistence", "ingress", "tls", "expose", "lokiRef"}
      /\ "tls" \in s.opts => "ingress" \in s.opts
      /\ Named(s) => "ingress" \in s.opts
  <2>1. s.opts \subseteq {"version", "persistence", "ingress", "tls", "expose", "lokiRef"}
    BY SpecOptions, TenKinds DEF SpecOf, ApiSpec, GrafanaInstanceSpec
  <2>2. /\ "tls" \in s.opts => "ingress" \in s.opts
        /\ Named(s) => "ingress" \in s.opts
    BY DEF Specs, Nested, Named
  <2>3. QED
    BY <2>1, <2>2
<1>2. i = IngressBuild(s, <<Name, "-service">>, 3000)
  OBVIOUS
<1> HIDE DEF i
<1>3. /\ "version" \in DOMAIN m <=> "version" \in s.opts
      /\ "persistentVolumeClaim" \in DOMAIN m <=> "persistence" \in s.opts
      /\ "ingress" \in DOMAIN m <=> "ingress" \in s.opts
      /\ "service" \in DOMAIN m <=> "expose" \in s.opts
      /\ "replicas" \in DOMAIN m /\ m.replicas = s.units
      /\ "ingress" \in s.opts => m.ingress = i
  BY <1>2, OptionalFields DEF GrafanaManifest
<1> HIDE DEF m
<1>4. /\ "ingress" \in DOMAIN f <=> "ingress" \in s.opts
      /\ "ingress" \in s.opts => f.ingress = i
      /\ f.replicas = s.units
  BY <1>3 DEF Carries, m
<1>5. /\ "tls" \in DOMAIN i <=> "tls" \in s.opts
      /\ Named(s) => "class" \in DOMAIN i /\ i.class = s.class
  <2>1. PICK b, p : i = IngressBuild(s, b, p)
    BY <1>2
  <2>2. QED
    BY <2>1, IngressFields
<1>6. "ingress" \in DOMAIN f /\ "tls" \in DOMAIN f.ingress <=> "tls" \in s.opts
  BY <1>1, <1>4, <1>5
<1>7. VendorReads("grafana", f) = Present(m, fields) \cup If("tls" \in s.opts, "tls")
  BY <1>6, PresentCarried DEF VendorReads, If, m
<1>8. Present(m, fields) = s.opts \ {"tls", "lokiRef"}
  <2>1. Present(m, fields) = s.opts \cap {"version", "persistence", "ingress", "expose"}
    BY <1>3 DEF Present
  <2>2. QED
    BY <1>1, <2>1
<1>9. QED
  BY <1>1, <1>4, <1>5, <1>7, <1>8 DEF VendorUnits, If

LEMMA LokiServed ==
  ASSUME NEW s \in Specs("loki"), NEW f, Carries(f, LokiManifest(Name, s))
  PROVE  /\ VendorReads("loki", f) = s.opts
         /\ VendorUnits("loki", f) = s.units
<1>1. s.opts \subseteq {"size"} /\ s.units = 1
  BY SpecOptions, TenKinds DEF SpecOf, ApiSpec, LokiInstanceSpec, Specs, Units
<1>2. f.size = IF "size" \in s.opts THEN Given ELSE "1x.demo"
  BY DEF LokiManifest, Carries
<1>3. QED
  BY <1>1, <1>2 DEF VendorReads, VendorUnits, If, Given

LEMMA AlloyServed ==
  ASSUME NEW s \in Specs("alloy"), NEW f, Carries(f, AlloyManifest(Name, s))
  PROVE  /\ VendorReads("alloy", f) = s.opts
         /\ VendorUnits("alloy", f) = s.units
<1>1. s.opts = {} /\ s.units \in {1, 2}
  BY SpecOptions, TenKinds DEF SpecOf, ApiSpec, AlloyInstanceSpec, Specs, Units
<1>2. f.replicas = s.units
  BY <1>1 DEF AlloyManifest, Carries
<1>3. QED
  BY <1>1, <1>2 DEF VendorReads, VendorUnits

(***************************************************************************)
(* The extras                                                              *)
(***************************************************************************)

\* What the kinds of object in the tables go with.
Shaped(k, e) ==
  /\ e.suffix \in {"-prometheus", "-loki"} <=> e.gvk = "GrafanaDatasource"
  /\ \/ e.gvk \in {"GrafanaDashboard", "GrafanaDatasource", "KafkaNodePool", "Service", "Ingress",
                   "ServiceAccount", "Role", "RoleBinding"}
     \/ /\ e.gvk \in {"PodMonitor", "ServiceMonitor"}
        /\ k \in {"valkey", "psmdb", "strimzi", "rabbitmq"}

LEMMA SlotsShaped ==
  ASSUME NEW k \in Kinds
  PROVE  \A i \in DOMAIN ExtraResources[k] : Shaped(k, ExtraResources[k][i])
<1>1. CASE k = "cnpg"
  <2>1. DOMAIN CnpgExtras = 1..1
    BY DEF CnpgExtras, Monitored, Extra
  <2>2. Shaped(k, CnpgExtras[1])
    BY <1>1 DEF CnpgExtras, Monitored, Extra, Shaped
  <2>3. ExtraResources[k] = CnpgExtras
    BY <1>1 DEF ExtraResources
  <2>4. QED
    BY <2>1, <2>2, <2>3
<1>2. CASE k = "mariadb"
  <2>1. DOMAIN MariadbExtras = 1..1
    BY DEF MariadbExtras, Monitored, Extra
  <2>2. Shaped(k, MariadbExtras[1])
    BY <1>2 DEF MariadbExtras, Monitored, Extra, Shaped
  <2>3. ExtraResources[k] = MariadbExtras
    BY <1>2 DEF ExtraResources
  <2>4. QED
    BY <2>1, <2>2, <2>3
<1>3. CASE k = "psmdb"
  <2>1. DOMAIN PsmdbExtras = 1..2
    BY DEF PsmdbExtras, Monitored, Extra
  <2>2. Shaped(k, PsmdbExtras[1]) /\ Shaped(k, PsmdbExtras[2])
    BY <1>3 DEF PsmdbExtras, Monitored, Extra, Shaped
  <2>3. ExtraResources[k] = PsmdbExtras
    BY <1>3 DEF ExtraResources
  <2>4. QED
    BY <2>1, <2>2, <2>3
<1>4. CASE k = "grafana"
  <2>1. DOMAIN GrafanaExtras = 1..2
    BY DEF GrafanaExtras, Extra
  <2>2. Shaped(k, GrafanaExtras[1]) /\ Shaped(k, GrafanaExtras[2])
    BY <1>4 DEF GrafanaExtras, Extra, Shaped
  <2>3. ExtraResources[k] = GrafanaExtras
    BY <1>4 DEF ExtraResources
  <2>4. QED
    BY <2>1, <2>2, <2>3
<1>5. CASE k = "valkey"
  <2>1. DOMAIN ValkeyExtras = 1..3
    BY DEF ValkeyExtras, Monitored, Extra
  <2>2. Shaped(k, ValkeyExtras[1]) /\ Shaped(k, ValkeyExtras[2]) /\ Shaped(k, ValkeyExtras[3])
    BY <1>5 DEF ValkeyExtras, Monitored, Extra, Shaped
  <2>3. ExtraResources[k] = ValkeyExtras
    BY <1>5 DEF ExtraResources
  <2>4. QED
    BY <2>1, <2>2, <2>3
<1>6. CASE k = "strimzi"
  <2>1. DOMAIN StrimziExtras = 1..3
    BY DEF StrimziExtras, Monitored, Extra
  <2>2. Shaped(k, StrimziExtras[1]) /\ Shaped(k, StrimziExtras[2]) /\ Shaped(k, StrimziExtras[3])
    BY <1>6 DEF StrimziExtras, Monitored, Extra, Shaped
  <2>3. ExtraResources[k] = StrimziExtras
    BY <1>6 DEF ExtraResources
  <2>4. QED
    BY <2>1, <2>2, <2>3
<1>7. CASE k = "rabbitmq"
  <2>1. DOMAIN RabbitmqExtras = 1..3
    BY DEF RabbitmqExtras, Monitored, Extra
  <2>2. Shaped(k, RabbitmqExtras[1]) /\ Shaped(k, RabbitmqExtras[2]) /\ Shaped(k, RabbitmqExtras[3])
    BY <1>7 DEF RabbitmqExtras, Monitored, Extra, Shaped
  <2>3. ExtraResources[k] = RabbitmqExtras
    BY <1>7 DEF ExtraResources
  <2>4. QED
    BY <2>1, <2>2, <2>3
<1>8. CASE k = "prometheus"
  <2>1. /\ Shaped(k, PrometheusExtras[1]) /\ Shaped(k, PrometheusExtras[2])
        /\ Shaped(k, PrometheusExtras[3]) /\ Shaped(k, PrometheusExtras[4])
        /\ Shaped(k, PrometheusExtras[5])
    BY PrometheusTable, Zenon DEF Shaped
  <2>2. ExtraResources[k] = PrometheusExtras
    BY <1>8 DEF ExtraResources
  <2>3. DOMAIN PrometheusExtras = 1..5
    BY PrometheusTable
  <2>4. QED
    BY <2>1, <2>2, <2>3
<1>9. CASE k \in {"loki", "alloy"}
  BY <1>9 DEF ExtraResources
<1>10. QED
  BY <1>1, <1>2, <1>3, <1>4, <1>5, <1>6, <1>7, <1>8, <1>9, TenKinds

LEMMA IngressContent ==
  ASSUME NEW k, NEW s, NEW e, Shaped(k, e), e.gvk = "Ingress"
  PROVE  \E b, p : ExtraContent(k, Name, s, e) = IngressBuild(s, b, p)
<1>1. e.suffix # "-prometheus" /\ e.suffix # "-loki"
  BY DEF Shaped
<1>2. CASE k = "rabbitmq"
  BY <1>1, <1>2, SMTT(60) DEF ExtraContent
<1>3. CASE k # "rabbitmq"
  BY <1>1, <1>3, SMTT(60) DEF ExtraContent
<1>4. QED
  BY <1>2, <1>3

\* An extra that is wanted is one with fields.
LEMMA ShapedMade ==
  ASSUME NEW k, NEW s, NEW e, Shaped(k, e)
  PROVE  ExtraContent(k, Name, s, e) # Nil
<1>1. DOMAIN Nil = {}
  BY DEF Nil
<1>2. /\ Dashboard # Nil /\ ScrapeRole # Nil
      /\ \A l, p : Monitor(l, p) # Nil
      /\ \A u, v, p : GrafanaDatasource(u, v, p) # Nil
      /\ ValkeyExternalService(Name) # Nil /\ PrometheusWebService(Name, s) # Nil
      /\ [account |-> Name] # Nil /\ [role |-> Name, account |-> Name] # Nil
  BY <1>1 DEF Dashboard, ScrapeRole, Monitor, GrafanaDatasource, ValkeyExternalService,
              PrometheusWebService
<1>3. StrimziNodePool(s) # Nil /\ \A b, p : IngressBuild(s, b, p) # Nil
  BY NodePoolReclaims, IngressFields
<1>4. e.gvk # "GrafanaDatasource" => e.suffix # "-prometheus" /\ e.suffix # "-loki"
  BY DEF Shaped
<1>5. CASE e.gvk \in {"PodMonitor", "ServiceMonitor"}
  <2>1. k \in {"valkey", "psmdb", "strimzi", "rabbitmq"}
    BY <1>5 DEF Shaped
  <2>2. MonitorOf(k, Name) # Nil
    BY <1>2, <2>1 DEF MonitorOf
  <2>3. CASE e.gvk = "PodMonitor"
    <3>1. ExtraContent(k, Name, s, e) = MonitorOf(k, Name)
      BY <1>4, <2>3, SMTT(60) DEF ExtraContent
    <3>2. QED
      BY <2>2, <3>1
  <2>4. CASE e.gvk = "ServiceMonitor"
    <3>1. ExtraContent(k, Name, s, e) = MonitorOf(k, Name)
      BY <1>4, <2>4, SMTT(60) DEF ExtraContent
    <3>2. QED
      BY <2>2, <3>1
  <2>5. QED
    BY <1>5, <2>3, <2>4
<1>6. CASE e.gvk = "GrafanaDashboard"
  <2>1. ExtraContent(k, Name, s, e) = Dashboard
    BY <1>4, <1>6 DEF ExtraContent
  <2>2. QED
    BY <1>2, <2>1
<1>7. CASE e.gvk = "KafkaNodePool"
  <2>1. ExtraContent(k, Name, s, e) = StrimziNodePool(s)
    BY <1>4, <1>7 DEF ExtraContent
  <2>2. QED
    BY <1>3, <2>1
<1>8. CASE e.gvk = "Service"
  <2>1. ExtraContent(k, Name, s, e) \in {ValkeyExternalService(Name),
                                          PrometheusWebService(Name, s)}
    BY <1>4, <1>8 DEF ExtraContent
  <2>2. QED
    BY <1>2, <2>1
<1>9. CASE e.gvk = "Ingress"
  BY <1>3, <1>9, IngressContent
<1>10. CASE e.gvk = "GrafanaDatasource"
  <2>1. e.suffix = "-prometheus" \/ e.suffix = "-loki"
    BY <1>10 DEF Shaped
  <2>2. \E u, v, p : ExtraContent(k, Name, s, e) = GrafanaDatasource(u, v, p)
    BY <1>10, <2>1 DEF ExtraContent
  <2>3. QED
    BY <1>2, <2>2
<1>11. CASE e.gvk \in {"ServiceAccount", "Role", "RoleBinding"}
  <2>1. e.gvk = "ServiceAccount" => ExtraContent(k, Name, s, e) = [account |-> Name]
    BY <1>4 DEF ExtraContent
  <2>2. e.gvk = "Role" => ExtraContent(k, Name, s, e) = ScrapeRole
    BY <1>4 DEF ExtraContent
  <2>3. e.gvk = "RoleBinding" =>
          ExtraContent(k, Name, s, e) = [role |-> Name, account |-> Name]
    BY <1>4 DEF ExtraContent
  <2>4. QED
    BY <1>2, <1>11, <2>1, <2>2, <2>3
<1>12. QED
  BY <1>5, <1>6, <1>7, <1>8, <1>9, <1>10, <1>11 DEF Shaped

LEMMA ContentMade ==
  ASSUME NEW k \in Kinds, NEW s, NEW i \in DOMAIN ExtraResources[k]
  PROVE  ExtraContent(k, Name, s, ExtraResources[k][i]) # Nil
BY SlotsShaped, ShapedMade

\* The Ingress is the first extra of a RabbitMQ cluster, the second one of a
\* Prometheus.
LEMMA IngressIndex ==
  ASSUME NEW k \in {"rabbitmq", "prometheus"}
  PROVE  LET j == CHOOSE i \in DOMAIN ExtraResources[k] : ExtraResources[k][i].gvk = "Ingress"
         IN  /\ j \in DOMAIN ExtraResources[k]
             /\ ExtraResources[k][j].gvk = "Ingress"
             /\ ExtraResources[k][j].when = "ingress"
<1> DEFINE slots == ExtraResources[k]
           j == CHOOSE i \in DOMAIN slots : slots[i].gvk = "Ingress"
<1>1. \E i \in DOMAIN slots :
        /\ slots[i].gvk = "Ingress"
        /\ slots[i].when = "ingress"
        /\ \A x \in DOMAIN slots : slots[x].gvk = "Ingress" => x = i
  <2>1. CASE k = "rabbitmq"
    <3>1. slots = RabbitmqExtras
      BY <2>1 DEF ExtraResources
    <3>2. /\ 1 \in DOMAIN RabbitmqExtras
          /\ RabbitmqExtras[1].gvk = "Ingress" /\ RabbitmqExtras[1].when = "ingress"
          /\ \A x \in DOMAIN RabbitmqExtras : RabbitmqExtras[x].gvk = "Ingress" => x = 1
      BY DEF RabbitmqExtras, Extra, Monitored
    <3>3. QED
      BY <3>1, <3>2
  <2>2. CASE k = "prometheus"
    <3>1. slots = PrometheusExtras
      BY <2>2 DEF ExtraResources
    <3>2. /\ 2 \in DOMAIN PrometheusExtras
          /\ PrometheusExtras[2].gvk = "Ingress" /\ PrometheusExtras[2].when = "ingress"
          /\ \A x \in DOMAIN PrometheusExtras : PrometheusExtras[x].gvk = "Ingress" => x = 2
      <4>1. DOMAIN PrometheusExtras = 1..5
        BY PrometheusTable
      <4>2. /\ PrometheusExtras[1].gvk # "Ingress"
            /\ PrometheusExtras[2].gvk = "Ingress" /\ PrometheusExtras[2].when = "ingress"
            /\ PrometheusExtras[3].gvk # "Ingress"
            /\ PrometheusExtras[4].gvk # "Ingress"
            /\ PrometheusExtras[5].gvk # "Ingress"
        BY PrometheusTable
      <4> DEFINE P == PrometheusExtras
      <4> HIDE DEF P
      <4>3. QED
        BY <4>1, <4>2
    <3>3. QED
      BY <3>1, <3>2
  <2>3. QED
    BY <2>1, <2>2
<1> HIDE DEF slots
<1>2. j \in DOMAIN slots /\ slots[j].gvk = "Ingress" /\ slots[j].when = "ingress"
  BY <1>1
<1>3. QED
  BY <1>2 DEF slots

(***************************************************************************)
(* Applying                                                                *)
(***************************************************************************)

ApplyPath == {"getTarget", "resolveClass", "applyTarget", "applyExtras", "patchRollouts",
              "updateStatus"}

\* The Reconcile of a CR not written since works from its spec; of the class it
\* makes up its own mind only where the spec names none.
CopyInv ==
  /\ pc \in ApplyPath /\ current =>
       /\ copy.units = spec.units /\ copy.opts = spec.opts
       /\ spec.class # "" => copy.class = spec.class
  /\ pc = "resolveClass" => copy.class = ""

\* Once applied, the vendor object carries the manifest of the working copy,
\* whatever somebody else sets meanwhile.
MirrorInv ==
  pc \in Mirroring => target # Nil /\ Carries(target.fields, BuildManifest(kind, Name, copy))

\* The extra as that copy wants it.
Content(k, s, i) ==
  IF Wanted(ExtraResources[k][i], s.opts) THEN ExtraContent(k, Name, s, ExtraResources[k][i])
  ELSE Nil

\* The extras are applied or pruned one after the other, and none is left out.
ExtrasInv ==
  /\ pc = "applyExtras" => \A i \in 1..(next - 1) : extras[i] = Content(kind, copy, i)
  /\ pc \in {"patchRollouts", "updateStatus"} =>
       \A i \in DOMAIN Slots : extras[i] = Content(kind, copy, i)

AppliedInv == CopyInv /\ MirrorInv /\ ExtrasInv

LEMMA CopyNext ==
  ASSUME TypeInv, CopyInv, [Next]_vars
  PROVE  CopyInv'
<1>1. CASE Reconcile
  <2>1. pc' # "resolveClass" /\ copy' = spec /\ spec' = spec
    BY <1>1 DEF Reconcile, Call, user, TypeInv, TypeOK
  <2>2. QED
    BY <2>1 DEF CopyInv
<1>2. CASE AddFinalizer \/ UpdateStatus \/ RemoveFinalizer \/ Conflict \/ Refused
  <2>1. pc' = "idle"
    BY <1>2 DEF AddFinalizer, UpdateStatus, RemoveFinalizer, Conflict, Refused, Return
  <2>2. QED
    BY <2>1 DEF CopyInv, ApplyPath
<1>3. CASE GetTarget
  <2>1. /\ pc = "getTarget" /\ UNCHANGED <<copy, current, spec>>
        /\ pc' = "resolveClass" => copy.class = ""
    BY <1>3 DEF GetTarget, Call, RequestedIngressClassName, user
  <2>2. QED
    BY <2>1 DEF CopyInv, ApplyPath
<1>4. CASE ResolveClass
  <2>1. /\ pc = "resolveClass" /\ pc' = "applyTarget" /\ UNCHANGED <<current, spec>>
        /\ copy' = [copy EXCEPT !.class = DefaultClass(defaults)]
    BY <1>4 DEF ResolveClass, Call, user
  <2>2. copy'.units = copy.units /\ copy'.opts = copy.opts
    BY <2>1
  <2>3. current => spec.class = ""
    BY <2>1 DEF CopyInv, ApplyPath
  <2>4. QED
    BY <2>1, <2>2, <2>3 DEF CopyInv, ApplyPath
<1>5. CASE ApplyTarget \/ ApplyExtra \/ PatchRollouts
  <2>1. /\ pc \in ApplyPath /\ pc' # "resolveClass"
        /\ UNCHANGED <<copy, current, spec>>
    BY <1>5 DEF ApplyTarget, ApplyExtra, HandleExtra, PatchRollouts, Call, FirstOf, AfterApply,
       ApplyPath, user
  <2>2. QED
    BY <2>1 DEF CopyInv
<1>6. CASE DeleteTarget \/ DeleteExtra \/ DeletePVCs
  <2>1. pc' \in {"deleteExtras", "deletePVCs", "removeFinalizer"}
    BY <1>6 DEF DeleteTarget, DeleteExtra, HandleExtra, DeletePVCs, Call, FirstOf, AfterDelete
  <2>2. QED
    BY <2>1 DEF CopyInv, ApplyPath
<1>7. CASE EditSpec \/ Delete
  <2>1. current' = FALSE /\ UNCHANGED <<pc, copy>>
    BY <1>7 DEF EditSpec, Delete
  <2>2. QED
    BY <2>1 DEF CopyInv
<1>8. CASE VendorAdopts \/ VendorReports \/ EditDefaults \/ Tune \/ UNCHANGED vars
  <2>1. UNCHANGED <<pc, copy, current, spec>>
    BY <1>8 DEF VendorAdopts, VendorReports, EditDefaults, Tune, vars, worker, user
  <2>2. QED
    BY <2>1 DEF CopyInv
<1>9. QED
  BY <1>1, <1>2, <1>3, <1>4, <1>5, <1>6, <1>7, <1>8 DEF Next, Worker

\* A Reconcile stays at what it has applied until it is done.
LEMMA MirroringKept ==
  ASSUME [Next]_vars, ~ApplyTarget, pc' \in Mirroring
  PROVE  pc \in Mirroring /\ copy' = copy
BY DEF Next, Worker, Reconcile, AddFinalizer, GetTarget, ResolveClass, ApplyExtra,
   HandleExtra, PatchRollouts, UpdateStatus, DeleteTarget, DeleteExtra, DeletePVCs,
   RemoveFinalizer, Conflict, Refused, Return, Call, VendorAdopts, VendorReports, EditSpec,
   EditDefaults, Delete, Tune, vars, worker, FirstOf, AfterDelete, Mirroring

LEMMA MergedCarries ==
  ASSUME NEW m, OwnedInv
  PROVE  Carries(Merged(target, m).fields, m)
<1>1. \A g \in DOMAIN m : Merged(target, m).fields[g] = m[g]
  BY DEF Merged, @@
<1>2. QED
  BY <1>1, MergedFields DEF Carries

LEMMA MirrorNext ==
  ASSUME ForeignInv, ForeignInv', OwnedInv, MirrorInv, [Next]_vars
  PROVE  MirrorInv'
<1> SUFFICES ASSUME pc' \in Mirroring
             PROVE  target' # Nil /\ Carries(target'.fields, BuildManifest(kind, Name, copy'))
  BY KindKept DEF MirrorInv
<1>1. CASE ApplyTarget
  <2>1. copy' = copy /\ target' = Merged(target, BuildManifest(kind, Name, copy))
    BY <1>1 DEF ApplyTarget
  <2>2. QED
    BY <2>1, MergedCarries, PairNotNil DEF Merged
<1>2. ASSUME ~ApplyTarget
      PROVE  copy' = copy /\ target # Nil /\ Carries(target.fields, BuildManifest(kind, Name, copy))
  BY <1>2, MirroringKept DEF MirrorInv
<1>3. CASE Tune /\ ~ApplyTarget
  <2>1. /\ target'.fields = target.fields @@ [tuning |-> Given]
        /\ DOMAIN target'.fields = DOMAIN target.fields \cup {"tuning"}
    BY <1>3, TunedFields
  <2>2. \A g \in DOMAIN target.fields : target'.fields[g] = target.fields[g]
    BY <2>1 DEF @@
  <2>3. Carries(target'.fields, BuildManifest(kind, Name, copy))
    BY <1>2, <1>3, <2>1, <2>2 DEF Carries
  <2>4. target' # Nil
    BY <1>3 DEF Tune, ForeignInv
  <2>5. QED
    BY <1>2, <1>3, <2>3, <2>4
<1>4. CASE DeleteTarget
  BY <1>4 DEF DeleteTarget, Call, FirstOf, AfterDelete, Mirroring
<1>5. QED
  BY <1>1, <1>2, <1>3, <1>4, TargetWriters

LEMMA ExtrasNext ==
  ASSUME TypeInv, ExtrasInv, [Next]_vars
  PROVE  ExtrasInv'
<1>s. Slots' = Slots /\ kind' = kind
  BY KindKept DEF Slots
<1>1. CASE ApplyTarget
  <2>1. /\ pc = "applyTarget" /\ pc' = FirstOf("applyExtras", AfterApply) /\ next' = next
    BY <1>1 DEF ApplyTarget, Call
  <2>2. next = 1
    BY <2>1 DEF TypeInv, TypeOK
  <2>3. CASE Slots = <<>>
    <3>1. pc' # "applyExtras" /\ DOMAIN Slots' = {}
      BY <1>s, <2>1, <2>3, SlotNumbers DEF FirstOf, AfterApply
    <3>2. QED
      BY <3>1 DEF ExtrasInv
  <2>4. CASE Slots # <<>>
    <3>1. pc' = "applyExtras" /\ 1..(next' - 1) = {}
      BY <2>1, <2>2, <2>4 DEF FirstOf
    <3>2. QED
      BY <3>1 DEF ExtrasInv
  <2>5. QED
    BY <2>3, <2>4
<1>2. CASE ApplyExtra
  <2>1. /\ pc = "applyExtras" /\ copy' = copy
        /\ pc' = IF next = Len(Slots) THEN AfterApply ELSE "applyExtras"
        /\ next' = IF next = Len(Slots) THEN 1 ELSE next + 1
        /\ extras' = [extras EXCEPT ![next] = IF Wanted(Slots[next], copy.opts)
                        THEN ExtraContent(kind, Name, copy, Slots[next]) ELSE Nil]
    BY <1>2 DEF ApplyExtra, HandleExtra, Call
  <2>2. next \in DOMAIN Slots
    BY <2>1 DEF TypeInv, TypeOK
  <2>3. extras' = [extras EXCEPT ![next] = Content(kind, copy, next)]
    BY <2>1 DEF Content, Slots
  <2>4. \A i \in 1..(next - 1) : extras[i] = Content(kind, copy, i)
    BY <2>1 DEF ExtrasInv
  <2>5. \A i \in 1..next : extras'[i] = Content(kind, copy, i)
    BY <2>2, <2>3, <2>4, SlotNumbers
  <2>6. CASE next = Len(Slots)
    <3>1. \A i \in DOMAIN Slots : extras'[i] = Content(kind, copy, i)
      BY <2>5, <2>6, SlotNumbers
    <3>2. pc' # "applyExtras"
      BY <2>1, <2>6 DEF AfterApply
    <3>3. QED
      BY <1>s, <2>1, <3>1, <3>2 DEF ExtrasInv
  <2>7. CASE next # Len(Slots)
    <3>1. pc' = "applyExtras" /\ \A i \in 1..(next' - 1) : extras'[i] = Content(kind, copy, i)
      BY <2>1, <2>2, <2>5, <2>7, SlotNumbers
    <3>2. QED
      BY <1>s, <2>1, <3>1 DEF ExtrasInv
  <2>8. QED
    BY <2>6, <2>7
<1>3. CASE PatchRollouts
  <2>1. pc = "patchRollouts" /\ pc' = "updateStatus" /\ UNCHANGED <<copy, extras>>
    BY <1>3 DEF PatchRollouts, Call
  <2>2. QED
    BY <1>s, <2>1 DEF ExtrasInv
<1>4. CASE DeleteExtra
  <2>1. pc' \notin Mirroring
    BY <1>4 DEF DeleteExtra, HandleExtra, Call, AfterDelete, Mirroring
  <2>2. QED
    BY <2>1 DEF ExtrasInv, Mirroring
<1>5. ASSUME ~ApplyTarget, ~ApplyExtra, ~PatchRollouts, ~DeleteExtra
      PROVE  ExtrasInv'
  <2>1. pc' \in Mirroring => UNCHANGED <<pc, next>>
    BY <1>5 DEF Next, Worker, Reconcile, AddFinalizer, GetTarget, ResolveClass, UpdateStatus,
       DeleteTarget, DeletePVCs, RemoveFinalizer, Conflict, Refused, Return, Call, VendorAdopts,
       VendorReports, EditSpec, EditDefaults, Delete, Tune, vars, worker, FirstOf, AfterDelete,
       Mirroring
  <2>2. extras' = extras
    BY <1>5, ExtrasWriters
  <2>3. pc' \in Mirroring => copy' = copy
    BY <1>5, MirroringKept
  <2>4. QED
    BY <1>s, <2>1, <2>2, <2>3 DEF ExtrasInv, Mirroring
<1>6. QED
  BY <1>1, <1>2, <1>3, <1>4, <1>5

(***************************************************************************)
(* The status                                                              *)
(***************************************************************************)

\* At the end of a Reconcile the extras are those the working copy wants.
LEMMA ExtrasServed ==
  ASSUME TypeInv, AppliedInv, UpdateStatus
  PROVE  /\ kind \in Kinds /\ copy \in Specs(kind)
         /\ copy.units = spec.units /\ copy.opts = spec.opts
         /\ spec.class # "" => copy.class = spec.class
         /\ target # Nil /\ Carries(target.fields, BuildManifest(kind, Name, copy))
         /\ \A i \in DOMAIN Slots :
              /\ extras[i] # Nil <=> Wanted(Slots[i], spec.opts)
              /\ extras[i] # Nil => extras[i] = ExtraContent(kind, Name, copy, Slots[i])
<1>1. pc = "updateStatus" /\ current
  BY DEF UpdateStatus, Call
<1>2. kind \in Kinds /\ copy \in Specs(kind)
  BY <1>1 DEF TypeInv, TypeOK
<1>3. /\ copy.units = spec.units /\ copy.opts = spec.opts
      /\ spec.class # "" => copy.class = spec.class
  BY <1>1 DEF AppliedInv, CopyInv, ApplyPath
<1>4. target # Nil /\ Carries(target.fields, BuildManifest(kind, Name, copy))
  BY <1>1 DEF AppliedInv, MirrorInv, Mirroring
<1>5. ASSUME NEW i \in DOMAIN Slots
      PROVE  /\ extras[i] # Nil <=> Wanted(Slots[i], spec.opts)
             /\ extras[i] # Nil => extras[i] = ExtraContent(kind, Name, copy, Slots[i])
  <2>1. extras[i] = IF Wanted(Slots[i], spec.opts) THEN ExtraContent(kind, Name, copy, Slots[i])
                    ELSE Nil
    BY <1>1, <1>3, <1>5 DEF AppliedInv, ExtrasInv, Content, Slots
  <2>2. ExtraContent(kind, Name, copy, Slots[i]) # Nil
    BY <1>2, <1>5, ContentMade DEF Slots
  <2>3. QED
    BY <2>1, <2>2
<1>6. QED
  BY <1>2, <1>3, <1>4, <1>5

LEMMA PoolServed ==
  ASSUME TypeInv, AppliedInv, UpdateStatus, kind = "strimzi"
  PROVE  Pool = StrimziNodePool(copy) /\ Pool # Nil
<1>1. Pool = extras[1] /\ 1 \in DOMAIN Slots /\ Slots[1].gvk = "KafkaNodePool"
  BY PoolFirst DEF Extra
<1>2. Wanted(Slots[1], spec.opts)
  BY PoolFirst DEF Wanted, Extra
<1>3. extras[1] # Nil /\ extras[1] = ExtraContent(kind, Name, copy, Slots[1])
  BY <1>1, <1>2, ExtrasServed
<1>4. ExtraContent(kind, Name, copy, Slots[1]) = StrimziNodePool(copy)
  BY PoolFirst DEF ExtraContent, Extra
<1>5. QED
  BY <1>1, <1>3, <1>4

\* The vendor reads from its object what the spec asks of it.
LEMMA FieldsServed ==
  ASSUME TypeInv, AppliedInv, UpdateStatus
  PROVE  /\ VendorReads(kind, Seen) = Asked
         /\ VendorUnits(kind, Seen) = spec.units
<1>1. /\ kind \in Kinds /\ copy \in Specs(kind)
      /\ copy.units = spec.units /\ copy.opts = spec.opts
      /\ Carries(target.fields, BuildManifest(kind, Name, copy))
  BY ExtrasServed
<1>2. CASE kind = "strimzi"
  <2>1. Seen = StrimziNodePool(copy) @@ target.fields
    BY <1>2, PoolServed DEF Seen
  <2>2. Carries(target.fields, StrimziManifest(Name, copy))
    BY <1>1, <1>2 DEF BuildManifest
  <2>3. /\ VendorReads("strimzi", Seen) = copy.opts
        /\ VendorUnits("strimzi", Seen) = copy.units
    BY <1>1, <1>2, <2>1, <2>2, StrimziServed
  <2>4. Asked = spec.opts
    BY <1>2 DEF Asked, Elsewhere
  <2>5. QED
    BY <1>1, <1>2, <2>3, <2>4
<1>3. CASE kind \in {"cnpg", "psmdb", "loki", "alloy"}
  <2>1. Seen = target.fields /\ Asked = spec.opts
    BY <1>3 DEF Seen, Asked, Elsewhere
  <2>2. kind = "cnpg" => Carries(Seen, CnpgManifest(Name, copy))
    BY <1>1, <2>1 DEF BuildManifest
  <2>3. kind = "psmdb" => Carries(Seen, PsmdbManifest(Name, copy))
    BY <1>1, <2>1 DEF BuildManifest
  <2>4. kind = "loki" => Carries(Seen, LokiManifest(Name, copy))
    BY <1>1, <2>1 DEF BuildManifest
  <2>5. kind = "alloy" => Carries(Seen, AlloyManifest(Name, copy))
    BY <1>1, <2>1 DEF BuildManifest
  <2>6. VendorReads(kind, Seen) = copy.opts /\ VendorUnits(kind, Seen) = copy.units
    BY <1>1, <1>3, <2>2, <2>3, <2>4, <2>5, CnpgServed, PsmdbServed, LokiServed, AlloyServed
  <2>7. QED
    BY <1>1, <2>1, <2>6
<1>4. CASE kind = "mariadb"
  <2>1. Seen = target.fields
    BY <1>4 DEF Seen
  <2>2. Carries(Seen, MariadbManifest(Name, copy))
    BY <1>1, <1>4, <2>1 DEF BuildManifest
  <2>3. /\ VendorReads(kind, Seen) = copy.opts \cup If(copy.units > 1, "clustered")
        /\ VendorUnits(kind, Seen) = copy.units
    BY <1>1, <1>4, <2>2, MariadbServed
  <2>4. Asked = spec.opts \cup If(spec.units > 1, "clustered")
    BY <1>4 DEF Asked, Elsewhere, If
  <2>5. QED
    BY <1>1, <2>3, <2>4
<1>5. CASE kind = "valkey"
  <2>1. Seen = target.fields /\ Asked = spec.opts \ {"expose"}
    BY <1>5 DEF Seen, Asked, Elsewhere
  <2>2. Carries(Seen, ValkeyManifest(Name, copy))
    BY <1>1, <1>5, <2>1 DEF BuildManifest
  <2>3. QED
    BY <1>1, <1>5, <2>1, <2>2, ValkeyServed
<1>6. CASE kind = "rabbitmq"
  <2>1. Seen = target.fields /\ Asked = spec.opts \ {"ingress", "tls", "monitoring"}
    BY <1>6 DEF Seen, Asked, Elsewhere
  <2>2. Carries(Seen, RabbitmqManifest(Name, copy))
    BY <1>1, <1>6, <2>1 DEF BuildManifest
  <2>3. QED
    BY <1>1, <1>6, <2>1, <2>2, RabbitmqServed
<1>7. CASE kind = "grafana"
  <2>1. Seen = target.fields /\ Asked = spec.opts \ {"lokiRef"}
    BY <1>7 DEF Seen, Asked, Elsewhere
  <2>2. Carries(Seen, GrafanaManifest(Name, copy))
    BY <1>1, <1>7, <2>1 DEF BuildManifest
  <2>3. QED
    BY <1>1, <1>7, <2>1, <2>2, GrafanaServed
<1>8. CASE kind = "prometheus"
  <2>1. Seen = target.fields /\ Asked = spec.opts \ {"ingress", "tls", "expose"}
    BY <1>8 DEF Seen, Asked, Elsewhere
  <2>2. Carries(Seen, PrometheusManifest(Name, copy))
    BY <1>1, <1>8, <2>1 DEF BuildManifest
  <2>3. QED
    BY <1>1, <1>8, <2>1, <2>2, PrometheusServed
<1>9. QED
  BY <1>1, <1>2, <1>3, <1>4, <1>5, <1>6, <1>7, <1>8, TenKinds

LEMMA RoutableKinds ==
  ASSUME NEW k \in Kinds, "ingress" \in SpecOf[k].opts
  PROVE  k \in {"rabbitmq", "grafana", "prometheus"}
BY TenKinds
   DEF SpecOf, ApiSpec, PostgresClusterSpec, MariaDBClusterSpec, ValkeyClusterSpec,
       MongoDBClusterSpec, KafkaClusterSpec, RabbitMQClusterSpec, GrafanaInstanceSpec,
       PrometheusInstanceSpec, LokiInstanceSpec, AlloyInstanceSpec

\* The Ingress has the class that the user names.
LEMMA RouteServed ==
  ASSUME TypeInv, AppliedInv, UpdateStatus, Named(spec)
  PROVE  Route = spec.class
<1>1. /\ kind \in Kinds /\ copy \in Specs(kind)
      /\ copy.opts = spec.opts /\ copy.class = spec.class
      /\ Carries(target.fields, BuildManifest(kind, Name, copy))
  BY ExtrasServed DEF Named
<1>2. Named(copy) /\ "ingress" \in copy.opts
  BY <1>1 DEF Named, Specs
<1>3. "ingress" \in spec.opts /\ kind \in {"rabbitmq", "grafana", "prometheus"}
  BY <1>1, <1>2, SpecOptions, RoutableKinds
<1>4. CASE kind = "grafana"
  <2>1. Carries(target.fields, GrafanaManifest(Name, copy))
    BY <1>1, <1>4 DEF BuildManifest
  <2>2. /\ "class" \in DOMAIN target.fields.ingress
        /\ target.fields.ingress.class = spec.class
    BY <1>1, <1>2, <1>4, <2>1, GrafanaServed
  <2>3. QED
    BY <1>4, <2>2 DEF Route
<1>5. CASE kind \in {"rabbitmq", "prometheus"}
  <2> DEFINE j == CHOOSE i \in DOMAIN Slots : Slots[i].gvk = "Ingress"
  <2>1. /\ j \in DOMAIN Slots
        /\ Slots[j].gvk = "Ingress" /\ Slots[j].when = "ingress"
    BY <1>5, IngressIndex DEF Slots
  <2>2. kind # "grafana"
    BY <1>5
  <2>3. "class" \in DOMAIN extras[j] /\ extras[j].class = spec.class
    <3> HIDE DEF j
    <3>1. Wanted(Slots[j], spec.opts)
      BY <1>3, <2>1 DEF Wanted
    <3>2. extras[j] = ExtraContent(kind, Name, copy, Slots[j])
      BY <2>1, <3>1, ExtrasServed
    <3>3. Shaped(kind, Slots[j])
      BY <1>1, <2>1, SlotsShaped DEF Slots
    <3>4. PICK b, p : extras[j] = IngressBuild(copy, b, p)
      BY <2>1, <3>2, <3>3, IngressContent
    <3>5. QED
      BY <1>1, <1>2, <3>4, IngressFields
  <2>4. QED
    BY <2>2, <2>3, Zenon DEF Route
<1>6. QED
  BY <1>3, <1>4, <1>5

LEMMA ServedStep ==
  ASSUME TypeInv, AppliedInv, UpdateStatus
  PROVE  Served /\ (spec.class # "" => Route = spec.class)
<1>1. Complete
  BY ExtrasServed, PoolServed DEF Complete
<1>2. QED
  BY <1>1, ExtrasServed, FieldsServed, RouteServed, Zenon DEF Served, Named

\* Whenever the operator writes a status, the cluster is as the spec on the API
\* server says: the options of every kind are in force in its vendor's object or
\* taken back from it, no extra is missing or left over, and the Ingress has the
\* class the user named; the spec was not edited meanwhile, or the write is
\* refused.
THEOREM StatusOnlyWhenServed == Spec => StatusMeansServed
<1> DEFINE I == StorageInv /\ AppliedInv
<1>1. Init => I
  BY StorageInit
     DEF Init, AppliedInv, CopyInv, MirrorInv, ExtrasInv, ApplyPath, Mirroring
<1>2. I /\ [Next]_vars => I'
  <2> SUFFICES ASSUME I, [Next]_vars PROVE I'
    OBVIOUS
  <2>1. StorageInv'
    BY StorageNext
  <2>2. AppliedInv'
    BY <2>1, CopyNext, MirrorNext, ExtrasNext DEF AppliedInv, StorageInv, ForeignInv
  <2>3. QED
    BY <2>1, <2>2
<1>3. I /\ [Next]_vars =>
        [UpdateStatus => /\ Served
                         /\ spec.class # "" => Route = spec.class]_vars
  BY ServedStep DEF StorageInv, ForeignInv
<1> HIDE DEF I
<1>4. QED
  BY <1>1, <1>2, <1>3, PTL DEF Spec, StatusMeansServed

=============================================================================
