------------------------ MODULE ManagedInstanceProofs ------------------------
(***************************************************************************)
(* Theorems about ManagedInstance, for every set of IngressClasses and     *)
(* every number of edits: type correctness, and what a managed instance    *)
(* never does.                                                             *)
(***************************************************************************)
EXTENDS ManagedInstance, AdapterExtrasProofs

(***************************************************************************)
(* Specs                                                                   *)
(***************************************************************************)

LEMMA UnsetUnits ==
  ASSUME NEW k \in Kinds
  PROVE  SpecOf[k].unset \in Units(k)
BY TenKinds
   DEF SpecOf, Units, ApiSpec, PostgresClusterSpec, MariaDBClusterSpec, ValkeyClusterSpec,
       MongoDBClusterSpec, KafkaClusterSpec, RabbitMQClusterSpec, GrafanaInstanceSpec,
       PrometheusInstanceSpec, LokiInstanceSpec, AlloyInstanceSpec

\* What a typed Update sends back is a spec, of the same class.
LEMMA RoundTripSpec ==
  ASSUME NEW k \in Kinds, NEW s \in Specs(k)
  PROVE  /\ RoundTrip(k, s) \in Specs(k)
         /\ RoundTrip(k, s).class = s.class
<1>1. PICK u \in Units(k) : u = IF s.units = 0 THEN SpecOf[k].unset ELSE s.units
  BY UnsetUnits DEF Specs
<1>2. PICK o \in SUBSET SpecOf[k].opts :
        o = s.opts \cup ({"monitoring"} \cap SpecOf[k].opts)
  BY DEF Specs
<1>3. RoundTrip(k, s) = [s EXCEPT !.units = u, !.opts = o]
  BY <1>1, <1>2 DEF RoundTrip, Specs
<1>4. [s EXCEPT !.units = u, !.opts = o] \in Specs(k)
  BY <1>2 DEF Specs, Nested
<1>5. QED
  BY <1>3, <1>4 DEF Specs

(***************************************************************************)
(* Type correctness                                                        *)
(***************************************************************************)

\* A class is only looked up for a spec with an Ingress.
TypeInv ==
  /\ TypeOK
  /\ pc = "resolveClass" => "ingress" \in copy.opts

LEMMA SpecNotNil ==
  ASSUME NEW k
  PROVE  Nil \notin Specs(k)
<1>1. DOMAIN Nil = {}
  BY DEF Nil
<1>2. ASSUME NEW s \in Specs(k)
      PROVE  "units" \in DOMAIN s
  BY DEF Specs
<1>3. QED
  BY <1>1, <1>2

LEMMA DefaultClassType ==
  ASSUME NEW d
  PROVE  DefaultClass(d) \in Classes \cup {""}
BY DEF DefaultClass

\* The object made by an apply, or by a write of somebody else, owns fields it has.
LEMMA MergedOwned ==
  ASSUME NEW t, NEW m
  PROVE  /\ Merged(t, m).owned = DOMAIN m
         /\ DOMAIN m \subseteq DOMAIN Merged(t, m).fields
BY DEF Merged, @@

LEMMA MaxEditsNat == MaxEdits \in Nat
BY InstanceAssumption

LEMMA TypeInit == Init => TypeInv
<1> SUFFICES ASSUME Init PROVE TypeInv
  OBVIOUS
<1>1. spec \in Specs(kind)
  BY DEF Init
<1>2. /\ admin \in BOOLEAN
      /\ defaults \subseteq Classes
  BY DEF Init
<1>3. edits \in 0..MaxEdits
  <2>1. edits = 0
    BY DEF Init
  <2>2. QED
    BY <2>1, MaxEditsNat
<1>4. QED
  BY <1>1, <1>2, <1>3 DEF Init, TypeInv, TypeOK

LEMMA TypeNext == TypeInv /\ [Next]_vars => TypeInv'
<1> SUFFICES ASSUME TypeInv, [Next]_vars PROVE TypeInv'
  OBVIOUS
<1> USE DEF TypeInv
<1>0. ASSUME Edit
      PROVE  edits' \in 0..MaxEdits
  <2>1. edits \in 0..MaxEdits /\ edits < MaxEdits /\ edits' = edits + 1
    BY <1>0 DEF Edit, TypeOK
  <2>2. QED
    BY <2>1, MaxEditsNat
<1>1. CASE Reconcile
  BY <1>1, SpecNotNil DEF Reconcile, Call, TypeOK, user, cluster, Slots
<1>2. CASE AddFinalizer
  <2>1. spec' \in Specs(kind)
    BY <1>2, RoundTripSpec, SpecNotNil DEF AddFinalizer, Call, TypeOK
  <2>2. QED
    BY <1>2, <2>1 DEF AddFinalizer, Call, Return, TypeOK, cluster, Slots
<1>3. CASE GetTarget
  BY <1>3 DEF GetTarget, Call, TypeOK, user, cluster, Slots, RequestedIngressClassName
<1>4. CASE ResolveClass
  <2>1. copy' \in Specs(kind)
    BY <1>4, DefaultClassType, SpecNotNil DEF ResolveClass, Call, TypeOK, Specs
  <2>2. QED
    BY <1>4, <2>1, SpecNotNil DEF ResolveClass, Call, TypeOK, user, cluster, Slots
<1>5. CASE ApplyTarget
  <2>1. target' # Nil => target'.owned \subseteq DOMAIN target'.fields
    BY <1>5, MergedOwned DEF ApplyTarget
  <2>2. IF pc' \in {"applyExtras", "deleteExtras"} THEN next' \in DOMAIN Slots' ELSE next' = 1
    BY <1>5, FirstExtra DEF ApplyTarget, Call, TypeOK, FirstOf, AfterApply, user, Slots
  <2>3. QED
    BY <1>5, <2>1, <2>2 DEF ApplyTarget, Call, TypeOK, FirstOf, AfterApply, user, cluster, Slots
<1>6. ASSUME NEW p \in {"applyExtras", "deleteExtras"},
             NEW p2 \in {"patchRollouts", "updateStatus", "deletePVCs", "removeFinalizer"},
             NEW content, HandleExtra(p, p2, content)
      PROVE  TypeInv'
  <2>1. Slots \in Seq(ExtraRecords)
    BY ExtrasSequence DEF TypeOK, Slots
  <2>2. IF pc' \in {"applyExtras", "deleteExtras"} THEN next' \in DOMAIN Slots' ELSE next' = 1
    BY <1>6, <2>1 DEF HandleExtra, Call, TypeOK, user, Slots
  <2>3. QED
    BY <1>6, <2>2 DEF HandleExtra, Call, TypeOK, user, cluster, Slots
<1>7. CASE ApplyExtra
  BY <1>6, <1>7 DEF ApplyExtra, AfterApply
<1>8. CASE PatchRollouts
  BY <1>8 DEF PatchRollouts, Call, TypeOK, user, Slots
<1>9. CASE UpdateStatus
  BY <1>9 DEF UpdateStatus, Call, Return, TypeOK, user, cluster, Slots
<1>10. CASE DeleteTarget
  <2>1. IF pc' \in {"applyExtras", "deleteExtras"} THEN next' \in DOMAIN Slots' ELSE next' = 1
    BY <1>10, FirstExtra DEF DeleteTarget, Call, TypeOK, FirstOf, AfterDelete, user, Slots
  <2>2. QED
    BY <1>10, <2>1 DEF DeleteTarget, Call, TypeOK, FirstOf, AfterDelete, user, Slots
<1>11. CASE DeleteExtra
  BY <1>6, <1>11 DEF DeleteExtra, AfterDelete
<1>12. CASE DeletePVCs
  BY <1>12 DEF DeletePVCs, Call, TypeOK, user, Slots
<1>13. CASE RemoveFinalizer
  BY <1>13 DEF RemoveFinalizer, Call, Return, TypeOK, cluster, Slots
<1>14. CASE Conflict
  BY <1>14 DEF Conflict, Return, TypeOK, user, cluster, Slots
<1>15. CASE Refused
  BY <1>15 DEF Refused, Return, TypeOK, user, cluster, Slots
<1>16. CASE VendorAdopts
  <2>1. stuck' \in BOOLEAN /\ claims' \in BOOLEAN /\ reported' \in BOOLEAN
    BY <1>16, Zenon DEF VendorAdopts, TypeOK
  <2>2. UNCHANGED <<worker, user, fin, target, extras, status, tuned>>
    BY <1>16 DEF VendorAdopts
  <2>3. QED
    BY <2>1, <2>2 DEF TypeOK, worker, user, Slots
<1>17. CASE VendorReports
  BY <1>17 DEF VendorReports, TypeOK, worker, user, Slots
<1>18. CASE EditSpec
  <2>1. edits' \in 0..MaxEdits
    BY <1>0, <1>18 DEF EditSpec
  <2>2. /\ spec' \in Specs(kind) /\ current' = FALSE
        /\ UNCHANGED <<kind, admin, phase, fin, pc, next, copy, answer, target, extras, cluster,
                       status, defaults, tuned>>
    BY <1>18 DEF EditSpec
  <2>3. /\ spec' \in Specs(kind') /\ current' \in BOOLEAN
        /\ extras' = extras /\ DOMAIN extras' = DOMAIN Slots'
        /\ IF pc' \in {"applyExtras", "deleteExtras"} THEN next' \in DOMAIN Slots' ELSE next' = 1
    BY <2>2 DEF TypeOK, Slots
  <2>4. copy' \in Specs(kind') \cup {Nil} /\ (copy' = Nil <=> pc' = "idle")
    BY <2>2 DEF TypeOK
  <2>5. QED
    BY <2>1, <2>2, <2>3, <2>4 DEF TypeOK, cluster
<1>19. CASE EditDefaults
  <2>1. edits' \in 0..MaxEdits
    BY <1>0, <1>19 DEF EditDefaults
  <2>2. defaults' \subseteq Classes
    BY <1>19 DEF EditDefaults, TypeOK
  <2>3. QED
    BY <1>19, <2>1, <2>2 DEF EditDefaults, TypeOK, worker, cluster, Slots
<1>20. CASE Delete
  BY <1>20 DEF Delete, TypeOK, cluster, Slots
<1>21. CASE Tune
  BY <1>21 DEF Tune, TypeOK, worker, user, cluster, Slots, @@
<1>22. CASE UNCHANGED vars
  BY <1>22 DEF vars, TypeOK, Slots
<1>23. QED
  BY <1>1, <1>2, <1>3, <1>4, <1>5, <1>7, <1>8, <1>9, <1>10, <1>11, <1>12, <1>13, <1>14, <1>15,
     <1>16, <1>17, <1>18, <1>19, <1>20, <1>21, <1>22 DEF Next, Worker

\* Every variable keeps its type; in particular the spec is always one of its
\* kind's schema, and the extra handled next is one of the kind's.
THEOREM InstanceTypeCorrect == Spec => []TypeOK
<1>1. Spec => []TypeInv
  BY TypeInit, TypeNext, PTL DEF Spec
<1>2. QED
  BY <1>1, PTL DEF TypeInv

(***************************************************************************)
(* The class of an Ingress                                                 *)
(***************************************************************************)

\* A copy that goes back to the API server whole has the class of the spec.
ClassInv ==
  /\ TypeInv
  /\ pc = "addFinalizer" /\ current => copy.class = spec.class

LEMMA ClassInit == Init => ClassInv
BY TypeInit DEF Init, ClassInv

LEMMA ClassNext == ClassInv /\ [Next]_vars => ClassInv'
<1> SUFFICES ASSUME ClassInv, [Next]_vars
             PROVE  pc' = "addFinalizer" /\ current' => copy'.class = spec'.class
  BY TypeNext DEF ClassInv
<1> USE DEF ClassInv
<1>1. CASE Reconcile
  BY <1>1 DEF Reconcile, user
<1>2. CASE VendorAdopts \/ VendorReports \/ EditDefaults \/ Tune
  BY <1>2 DEF VendorAdopts, VendorReports, EditDefaults, Tune, worker, user
<1>3. CASE EditSpec \/ Delete
  <2>1. current' = FALSE
    BY <1>3 DEF EditSpec, Delete
  <2>2. QED
    BY <2>1
<1>4. CASE UNCHANGED vars
  BY <1>4 DEF vars
<1>5. CASE Worker /\ ~Reconcile
  <2>1. pc' # "addFinalizer"
    BY <1>5 DEF Worker, AddFinalizer, GetTarget, ResolveClass, ApplyTarget, ApplyExtra,
       PatchRollouts, UpdateStatus, DeleteTarget, DeleteExtra, DeletePVCs, RemoveFinalizer,
       Conflict, Refused, Return, Call, HandleExtra, FirstOf, AfterApply, AfterDelete
  <2>2. QED
    BY <2>1
<1>6. QED
  BY <1>1, <1>2, <1>3, <1>4, <1>5 DEF Next

\* Of the operator's two writes of the CR, the one of its status leaves the
\* spec alone and the one that adds the finalizer sends the class it has read.
LEMMA ClassStep ==
  ClassInv /\ [Next]_vars => [edits' = edits => spec'.class = spec.class]_vars
<1> SUFFICES ASSUME ClassInv, Next, edits' = edits
             PROVE  spec'.class = spec.class
  BY DEF vars
<1>1. CASE EditSpec \/ EditDefaults
  <2>1. Edit
    BY <1>1 DEF EditSpec, EditDefaults
  <2>2. edits \in 0..MaxEdits
    BY DEF ClassInv, TypeInv, TypeOK
  <2>3. QED
    BY <2>1, <2>2, MaxEditsNat DEF Edit
<1>2. CASE AddFinalizer
  <2>1. copy \in Specs(kind)
    BY <1>2, SpecNotNil DEF AddFinalizer, Call, ClassInv, TypeInv, TypeOK
  <2>2. spec' = RoundTrip(kind, copy) /\ copy.class = spec.class /\ kind \in Kinds
    BY <1>2 DEF AddFinalizer, Call, ClassInv, TypeInv, TypeOK
  <2>3. QED
    BY <2>1, <2>2, RoundTripSpec
<1>3. CASE Worker /\ ~AddFinalizer
  <2>1. spec' = spec
    BY <1>3 DEF Worker, Reconcile, GetTarget, ResolveClass, ApplyTarget, ApplyExtra,
       PatchRollouts, UpdateStatus, DeleteTarget, DeleteExtra, DeletePVCs, RemoveFinalizer,
       Conflict, Refused, HandleExtra, user
  <2>2. QED
    BY <2>1
<1>4. CASE VendorAdopts \/ VendorReports \/ Delete \/ Tune
  <2>1. spec' = spec
    BY <1>4 DEF VendorAdopts, VendorReports, Delete, Tune, user
  <2>2. QED
    BY <2>1
<1>5. QED
  BY <1>1, <1>2, <1>3, <1>4 DEF Next

\* Only users change the class a spec names: the default class resolved for a
\* Reconcile stays in its working copy.
THEOREM ClassStaysTheUsers == Spec => ClassUntouched
<1>1. Spec => []ClassInv
  BY ClassInit, ClassNext, PTL DEF Spec
<1>2. QED
  BY <1>1, ClassStep, PTL DEF Spec, ClassUntouched

(***************************************************************************)
(* The fields of others                                                    *)
(***************************************************************************)

\* The vendor object has its two parts, and the operator does not own what
\* somebody else set.
ForeignInv ==
  /\ TypeInv
  /\ target # Nil => /\ target = [fields |-> target.fields, owned |-> target.owned]
                     /\ "tuning" \notin target.owned
  /\ tuned => target # Nil /\ "tuning" \in DOMAIN target.fields

LEMMA OptionalDomain ==
  ASSUME NEW o, NEW option, NEW given
  PROVE  DOMAIN Optional(o, option, given) \subseteq DOMAIN o
BY DEF Optional

\* No adapter has an opinion on that field.
LEMMA NotTuning ==
  ASSUME NEW k \in Kinds, NEW name, NEW s
  PROVE  "tuning" \notin DOMAIN BuildManifest(k, name, s)
<1>1. /\ "tuning" \notin DOMAIN CnpgManifest(name, s)
      /\ "tuning" \notin DOMAIN StrimziManifest(name, s)
      /\ "tuning" \notin DOMAIN RabbitmqManifest(name, s)
  BY OptionalDomain DEF CnpgManifest, StrimziManifest, RabbitmqManifest
<1>2. "tuning" \notin DOMAIN MariadbManifest(name, s)
  BY OptionalDomain DEF MariadbManifest
<1>3. "tuning" \notin DOMAIN ValkeyManifest(name, s)
  BY OptionalDomain DEF ValkeyManifest
<1>4. "tuning" \notin DOMAIN GrafanaManifest(name, s)
  BY OptionalDomain DEF GrafanaManifest
<1>5. "tuning" \notin DOMAIN PrometheusManifest(name, s)
  BY OptionalDomain DEF PrometheusManifest
<1>6. /\ "tuning" \notin DOMAIN PsmdbManifest(name, s)
      /\ "tuning" \notin DOMAIN LokiManifest(name, s)
      /\ "tuning" \notin DOMAIN AlloyManifest(name, s)
  BY DEF PsmdbManifest, LokiManifest, AlloyManifest
<1>7. QED
  BY <1>1, <1>2, <1>3, <1>4, <1>5, <1>6, TenKinds DEF BuildManifest

LEMMA PairNotNil ==
  ASSUME NEW f, NEW o
  PROVE  [fields |-> f, owned |-> o] # Nil
<1>1. "fields" \in DOMAIN [fields |-> f, owned |-> o] /\ DOMAIN Nil = {}
  BY DEF Nil
<1>2. QED
  BY <1>1

LEMMA ForeignInit == Init => ForeignInv
BY TypeInit DEF Init, ForeignInv

LEMMA ForeignNext == ForeignInv /\ [Next]_vars => ForeignInv'
<1> SUFFICES ASSUME ForeignInv, [Next]_vars
             PROVE  /\ target' # Nil =>
                         /\ target' = [fields |-> target'.fields, owned |-> target'.owned]
                         /\ "tuning" \notin target'.owned
                    /\ tuned' => target' # Nil /\ "tuning" \in DOMAIN target'.fields
  BY TypeNext DEF ForeignInv
<1>1. CASE ApplyTarget
  <2> DEFINE m == BuildManifest(kind, Name, copy)
  <2>1. target' = Merged(target, m) /\ tuned' = tuned /\ kind \in Kinds
    BY <1>1 DEF ApplyTarget, ForeignInv, TypeInv, TypeOK
  <2>2. "tuning" \notin DOMAIN m
    BY <2>1, NotTuning
  <2> HIDE DEF m
  <2>3. PICK f : target' = [fields |-> f, owned |-> DOMAIN m]
    BY <2>1 DEF Merged
  <2>4. ASSUME tuned
        PROVE  "tuning" \in DOMAIN Merged(target, m).fields
    BY <2>4 DEF Merged, @@, ForeignInv
  <2>5. target' # Nil
    BY <2>3, PairNotNil
  <2>6. target'.fields = f /\ target'.owned = DOMAIN m
    BY <2>3
  <2>7. "tuning" \notin target'.owned
    BY <2>2, <2>6
  <2>8. ASSUME tuned'
        PROVE  "tuning" \in DOMAIN target'.fields
    BY <2>1, <2>4, <2>8
  <2>9. target' = [fields |-> target'.fields, owned |-> target'.owned]
    BY <2>3, <2>6
  <2>10. QED
    BY <2>5, <2>7, <2>8, <2>9
<1>2. CASE Tune
  <2>1. /\ target' = [target EXCEPT !.fields = @ @@ [tuning |-> Given]]
        /\ target = [fields |-> target.fields, owned |-> target.owned]
        /\ "tuning" \notin target.owned
    BY <1>2 DEF Tune, ForeignInv
  <2>2. PICK f : f = target.fields @@ [tuning |-> Given]
    OBVIOUS
  <2>3. "tuning" \in DOMAIN f
    BY <2>2 DEF @@
  <2>4. target' = [fields |-> f, owned |-> target.owned]
    BY <2>1, <2>2
  <2>5. target' # Nil
    BY <2>4, PairNotNil
  <2>6. QED
    BY <2>1, <2>3, <2>4, <2>5
<1>3. CASE DeleteTarget
  BY <1>3 DEF DeleteTarget
<1>4. CASE UNCHANGED <<target, tuned>>
  BY <1>4 DEF ForeignInv
<1>5. QED
  BY <1>1, <1>2, <1>3, <1>4
  DEF Next, Worker, Reconcile, AddFinalizer, GetTarget, ResolveClass, ApplyExtra, HandleExtra,
      PatchRollouts, UpdateStatus, DeleteExtra, DeletePVCs, RemoveFinalizer, Conflict, Refused,
      VendorAdopts, VendorReports, EditSpec, EditDefaults, Delete, vars

\* What somebody else set in the vendor object is never taken back: a forced
\* apply removes only what an earlier one set, and no manifest sets that field.
THEOREM ForeignFieldsKept == Spec => []ForeignKept
<1>1. Spec => []ForeignInv
  BY ForeignInit, ForeignNext, PTL DEF Spec
<1>2. ForeignInv => ForeignKept
  BY DEF ForeignInv, ForeignKept
<1>3. QED
  BY <1>1, <1>2, PTL

(***************************************************************************)
(* Readiness                                                               *)
(***************************************************************************)

Mirroring == {"applyExtras", "patchRollouts", "updateStatus"}

\* What is ready now has been reported, and what the running Reconcile has
\* been answered is no more than that.
ReadyInv ==
  /\ TypeInv
  /\ vendor # Nil => /\ vendor = [units |-> vendor.units, up |-> vendor.up,
                                  settled |-> vendor.settled]
                     /\ vendor.settled \in BOOLEAN
                     /\ VendorReady(kind, vendor) => reported
  /\ pc \in Mirroring => (answer.ready => reported)
  /\ NoPrematureReady

\* A status the vendor has not written yet is never ready: nothing is wanted,
\* or no condition holds.
LEMMA EmptyNotReady ==
  ASSUME NEW k \in Kinds, NEW f
  PROVE  ~ExtractStatus(k, [spec |-> f, status |-> NoReport]).ready
<1> DEFINE u == [spec |-> f, status |-> NoReport]
<1>1. \A field, default : Get(u.status, field, default) = default
  BY DEF Get, NoReport, Nil
<1>2. ASSUME NEW p, NEW up
      PROVE  ~Counted(p, 0, up).ready
  <2>1. PICK b \in BOOLEAN : b = (0 > 0 /\ up >= 0)
    OBVIOUS
  <2>2. ~(0 > 0)
    OBVIOUS
  <2>3. b = FALSE
    BY <2>1, <2>2
  <2>4. Counted(p, 0, up).ready = b
    BY <2>1 DEF Counted, TargetStatus
  <2>5. QED
    BY <2>3, <2>4
<1> HIDE DEF u
<1>3. /\ ~CnpgExtractStatus(u).ready
      /\ ~ValkeyExtractStatus(u).ready
      /\ ~PsmdbExtractStatus(u).ready
  BY <1>1, <1>2 DEF CnpgExtractStatus, ValkeyExtractStatus, PsmdbExtractStatus
<1>4. /\ ~MariadbExtractStatus(u).ready
      /\ ~RabbitmqExtractStatus(u).ready
  BY <1>1 DEF MariadbExtractStatus, RabbitmqExtractStatus, Holds, TargetStatus
<1>5. ~PrometheusExtractStatus(u).ready
  BY <1>1, <1>2 DEF PrometheusExtractStatus
<1>6. ~GrafanaExtractStatus(u).ready
  BY <1>1 DEF GrafanaExtractStatus, TargetStatus
<1>7. /\ ~StrimziExtractStatus(u).ready
      /\ ~LokiExtractStatus(u).ready
      /\ ~AlloyExtractStatus(u).ready
  BY <1>1 DEF StrimziExtractStatus, LokiExtractStatus, AlloyExtractStatus, Holds, TargetStatus
<1>8. ~ExtractStatus(k, u).ready
  BY <1>3, <1>4, <1>5, <1>6, <1>7, TenKinds DEF ExtractStatus
<1>9. QED
  BY <1>8 DEF u

\* A status the vendor has written is ready only if the vendor means it.
LEMMA ReadyAsReported ==
  ASSUME NEW k \in Kinds, NEW f, NEW v, v.settled \in BOOLEAN,
         ExtractStatus(k, [spec |-> f, status |-> Report(k, v)]).ready
  PROVE  VendorReady(k, v)
<1> DEFINE u == [spec |-> f, status |-> Report(k, v)]
<1>1. u.status = Report(k, v)
  OBVIOUS
<1>2. ExtractStatus(k, u).ready
  OBVIOUS
<1> HIDE DEF u
<1>3. CASE k = "cnpg"
  BY <1>1, <1>2, <1>3 DEF ExtractStatus, CnpgExtractStatus, Counted, TargetStatus, Get, Report,
     VendorReady, Counting
<1>4. CASE k = "valkey"
  BY <1>1, <1>2, <1>4 DEF ExtractStatus, ValkeyExtractStatus, Counted, TargetStatus, Get, Report,
     VendorReady, Counting
<1>5. CASE k = "psmdb"
  BY <1>1, <1>2, <1>5 DEF ExtractStatus, PsmdbExtractStatus, Counted, TargetStatus, Get, Report,
     VendorReady, Counting
<1>6. CASE k = "prometheus"
  BY <1>1, <1>2, <1>6 DEF ExtractStatus, PrometheusExtractStatus, Counted, TargetStatus, Get,
     Report, VendorReady, Counting
<1>7. CASE k = "mariadb"
  BY <1>1, <1>2, <1>7 DEF ExtractStatus, MariadbExtractStatus, Holds, TargetStatus, Get, Report,
     VendorReady, Counting
<1>8. CASE k = "rabbitmq"
  BY <1>1, <1>2, <1>8 DEF ExtractStatus, RabbitmqExtractStatus, Holds, TargetStatus, Get, Report,
     VendorReady, Counting
<1>9. CASE k = "grafana"
  BY <1>1, <1>2, <1>9 DEF ExtractStatus, GrafanaExtractStatus, TargetStatus, Get, Report,
     VendorReady, Counting
<1>10. CASE k \in {"strimzi", "loki"}
  BY <1>1, <1>2, <1>10 DEF ExtractStatus, StrimziExtractStatus, LokiExtractStatus, Holds,
     TargetStatus, Get, Report, VendorReady, Counting
<1>11. CASE k = "alloy"
  BY <1>1, <1>2, <1>11 DEF ExtractStatus, AlloyExtractStatus, Holds, TargetStatus, Get, Report,
     VendorReady, Counting
<1>12. QED
  BY <1>3, <1>4, <1>5, <1>6, <1>7, <1>8, <1>9, <1>10, <1>11, TenKinds

\* A CR's status is as ready as what was extracted.
LEMMA ReadyMirrored ==
  ASSUME NEW k \in Kinds, NEW s
  PROVE  ApplyStatus(k, s).ready = s.ready
<1>1. \A p : (Mirrored(s) @@ p).ready = s.ready
  BY DEF Mirrored, @@
<1>2. Mirrored(s).ready = s.ready
  BY DEF Mirrored
<1>3. QED
  BY <1>1, <1>2, TenKinds
  DEF ApplyStatus, CnpgApplyStatus, MariadbApplyStatus, ValkeyApplyStatus, PsmdbApplyStatus,
      StrimziApplyStatus, RabbitmqApplyStatus, GrafanaApplyStatus, PrometheusApplyStatus,
      LokiApplyStatus, AlloyApplyStatus

LEMMA ReadyInit == Init => ReadyInv
BY TypeInit DEF Init, ReadyInv, Mirroring, NoPrematureReady

LEMMA ReadyNext == ReadyInv /\ [Next]_vars => ReadyInv'
<1> SUFFICES ASSUME ReadyInv, [Next]_vars
             PROVE  ReadyInv'
  OBVIOUS
<1>t. TypeInv /\ TypeInv' /\ kind \in Kinds
  BY TypeNext DEF ReadyInv, TypeInv, TypeOK
<1> DEFINE
      A == vendor # Nil => /\ vendor = [units |-> vendor.units, up |-> vendor.up,
                                        settled |-> vendor.settled]
                           /\ vendor.settled \in BOOLEAN
                           /\ VendorReady(kind, vendor) => reported
      B == pc \in Mirroring => (answer.ready => reported)
<1>a. A /\ B /\ NoPrematureReady
  BY DEF ReadyInv
<1>k. kind' = kind
  BY DEF Next, Worker, Reconcile, AddFinalizer, GetTarget, ResolveClass, ApplyTarget, ApplyExtra,
     HandleExtra, PatchRollouts, UpdateStatus, DeleteTarget, DeleteExtra, DeletePVCs,
     RemoveFinalizer, Conflict, Refused, VendorAdopts, VendorReports, EditSpec, EditDefaults,
     Delete, Tune, vars, user
<1>1. CASE ApplyTarget
  <2>1. /\ answer' = ExtractStatus(kind, Answer(target'))
        /\ UNCHANGED <<vendor, reported, status>>
    BY <1>1 DEF ApplyTarget, cluster
  <2>2. answer'.ready => reported'
    <3>1. CASE vendor = Nil
      BY <1>t, <2>1, <3>1, EmptyNotReady DEF Answer
    <3>2. CASE vendor # Nil
      BY <1>t, <1>a, <2>1, <3>2, ReadyAsReported DEF Answer
    <3>3. QED
      BY <3>1, <3>2
  <2>3. A'
    BY <1>a, <1>k, <2>1
  <2>4. NoPrematureReady'
    BY <1>a, <2>1 DEF NoPrematureReady
  <2>5. QED
    BY <1>t, <2>2, <2>3, <2>4 DEF ReadyInv
<1>2. CASE UpdateStatus
  <2>1. /\ pc = "updateStatus" /\ pc' = "idle"
        /\ status' = ApplyStatus(kind, answer)
        /\ UNCHANGED <<vendor, reported>>
    BY <1>2 DEF UpdateStatus, Call, Return, cluster
  <2>2. status'.ready => reported'
    BY <1>t, <1>a, <2>1, ReadyMirrored DEF Mirroring
  <2>3. A'
    BY <1>a, <1>k, <2>1
  <2>4. B'
    BY <2>1 DEF Mirroring
  <2>5. QED
    BY <1>t, <2>2, <2>3, <2>4 DEF ReadyInv, NoPrematureReady
<1>3. CASE DeleteTarget
  <2>1. vendor' = Nil /\ UNCHANGED <<status, reported>> /\ pc' \notin Mirroring
    BY <1>3 DEF DeleteTarget, Call, FirstOf, AfterDelete, Mirroring
  <2>2. QED
    BY <1>t, <1>a, <2>1 DEF ReadyInv, NoPrematureReady
<1>4. CASE VendorAdopts
  <2>1. PICK units : vendor' = [units   |-> units,
                    up      |-> IF vendor = Nil \/ units < vendor.up THEN 0 ELSE vendor.up,
                    settled |-> vendor # Nil /\ vendor.settled]
    BY <1>4 DEF VendorAdopts
  <2>2. /\ reported' = (reported \/ VendorReady(kind, vendor'))
        /\ UNCHANGED <<pc, answer, status>>
    BY <1>4 DEF VendorAdopts, worker
  <2>3. A'
    BY <1>k, <2>1, <2>2
  <2>4. QED
    BY <1>t, <1>a, <2>2, <2>3 DEF ReadyInv, NoPrematureReady
<1>5. CASE VendorReports
  <2>1. PICK up : \E b \in BOOLEAN : vendor' = [vendor EXCEPT !.up = up, !.settled = b]
    BY <1>5 DEF VendorReports
  <2>b. PICK b \in BOOLEAN : vendor' = [vendor EXCEPT !.up = up, !.settled = b]
    BY <2>1
  <2>2. /\ reported' = (reported \/ VendorReady(kind, vendor'))
        /\ vendor # Nil
        /\ UNCHANGED <<pc, answer, status>>
    BY <1>5 DEF VendorReports, worker
  <2>3. vendor' = [units |-> vendor.units, up |-> up, settled |-> b]
    BY <1>a, <2>b, <2>2
  <2>4. A'
    BY <1>k, <2>2, <2>3
  <2>5. QED
    BY <1>t, <1>a, <2>2, <2>4 DEF ReadyInv, NoPrematureReady
<1>6. CASE UNCHANGED <<vendor, reported, status>> /\ ~ApplyTarget /\ Next
  <2>1. pc' \in Mirroring => pc \in Mirroring /\ answer' = answer
    BY <1>6 DEF Next, Worker, Reconcile, AddFinalizer, GetTarget, ResolveClass, ApplyExtra,
       HandleExtra, PatchRollouts, UpdateStatus, DeleteTarget, DeleteExtra, DeletePVCs,
       RemoveFinalizer, Conflict, Refused, Return, Call, VendorAdopts, VendorReports, EditSpec,
       EditDefaults, Delete, Tune, worker, FirstOf, AfterApply, AfterDelete, Mirroring
  <2>2. A'
    BY <1>a, <1>k, <1>6
  <2>3. QED
    BY <1>t, <1>a, <1>6, <2>1, <2>2 DEF ReadyInv, NoPrematureReady
<1>7. CASE UNCHANGED vars
  <2>1. A'
    BY <1>a, <1>7 DEF vars
  <2>2. QED
    BY <1>t, <1>a, <1>7, <2>1 DEF ReadyInv, NoPrematureReady, vars
<1>8. QED
  <2>1. CASE Next /\ ~(ApplyTarget \/ UpdateStatus \/ DeleteTarget \/ VendorAdopts \/ VendorReports)
    <3>1. UNCHANGED <<vendor, reported, status>>
      BY <2>1 DEF Next, Worker, Reconcile, AddFinalizer, GetTarget, ResolveClass, ApplyExtra,
         HandleExtra, PatchRollouts, DeleteExtra, DeletePVCs, RemoveFinalizer, Conflict, Refused,
         EditSpec, EditDefaults, Delete, Tune, cluster
    <3>2. QED
      BY <1>6, <2>1, <3>1
  <2>2. QED
    BY <1>1, <1>2, <1>3, <1>4, <1>5, <1>7, <2>1

\* No CR is said to be ready before its vendor has said so once: an answer to
\* an apply without a report counts nothing and has no condition, and each
\* adapter's reading of a report is at most what the vendor means by it.
THEOREM ReadyOnlyOnceReported == Spec => []NoPrematureReady
<1>1. Spec => []ReadyInv
  BY ReadyInit, ReadyNext, PTL DEF Spec
<1>2. ReadyInv => NoPrematureReady
  BY DEF ReadyInv
<1>3. QED
  BY <1>1, <1>2, PTL

(***************************************************************************)
(* Permissions                                                             *)
(***************************************************************************)

LEMMA RulesMonotone ==
  ASSUME NEW R, NEW S, NEW sub, NEW V, NEW W, R \subseteq S, V \subseteq W
  PROVE  Rules(R, sub, V) \subseteq Rules(S, sub, W)
BY DEF Rules

\* A group of markers grants all of its verbs on each of its resources.
LEMMA GrantedByGroup ==
  ASSUME NEW S, Full(S) \subseteq ManagerRole, NEW r \in S, NEW V \in SUBSET AllVerbs
  PROVE  To(V, r) \subseteq ManagerRole
BY RulesMonotone DEF To, Full

LEMMA ManagerRules ==
  /\ PostgresClusterRules \subseteq ManagerRole
  /\ MariaDBClusterRules \subseteq ManagerRole
  /\ ValkeyClusterRules \subseteq ManagerRole
  /\ MongoDBClusterRules \subseteq ManagerRole
  /\ KafkaClusterRules \subseteq ManagerRole
  /\ RabbitMQClusterRules \subseteq ManagerRole
  /\ GrafanaInstanceRules \subseteq ManagerRole
  /\ PrometheusInstanceRules \subseteq ManagerRole
  /\ LokiInstanceRules \subseteq ManagerRole
  /\ AlloyInstanceRules \subseteq ManagerRole
BY DEF ManagerRole

LEMMA OwnGranted ==
  ASSUME NEW k \in Kinds
  PROVE  Own(Plural[k]) \subseteq ManagerRole
<1>1. /\ Own("postgresclusters") \subseteq PostgresClusterRules
      /\ Own("mariadbclusters") \subseteq MariaDBClusterRules
      /\ Own("valkeyclusters") \subseteq ValkeyClusterRules
      /\ Own("mongodbclusters") \subseteq MongoDBClusterRules
      /\ Own("kafkaclusters") \subseteq KafkaClusterRules
      /\ Own("rabbitmqclusters") \subseteq RabbitMQClusterRules
      /\ Own("grafanainstances") \subseteq GrafanaInstanceRules
      /\ Own("prometheusinstances") \subseteq PrometheusInstanceRules
      /\ Own("lokiinstances") \subseteq LokiInstanceRules
      /\ Own("alloyinstances") \subseteq AlloyInstanceRules
  BY DEF PostgresClusterRules, MariaDBClusterRules, ValkeyClusterRules, MongoDBClusterRules,
     KafkaClusterRules, RabbitMQClusterRules, GrafanaInstanceRules, PrometheusInstanceRules,
     LokiInstanceRules, AlloyInstanceRules
<1>2. QED
  BY <1>1, ManagerRules, TenKinds DEF Plural

\* The vendor kinds, and the kinds of the extras.
LEMMA VendorGranted ==
  ASSUME NEW V \in SUBSET AllVerbs
  PROVE  /\ \A k \in Kinds : To(V, TargetPlural[k]) \subseteq ManagerRole
         /\ \A g \in Gvks : To(V, ExtraPlural[g]) \subseteq ManagerRole
<1> DEFINE
      S1 == {"clusters", "grafanadashboards"}
      S2 == {"mariadbs", "grafanadashboards"}
      S3 == {"valkey.io/valkeyclusters", "services", "podmonitors", "grafanadashboards"}
      S4 == {"perconaservermongodbs", "podmonitors", "grafanadashboards"}
      S5 == {"kafkas", "kafkanodepools", "podmonitors", "grafanadashboards"}
      S6 == {"rabbitmq.com/rabbitmqclusters", "ingresses", "servicemonitors",
             "grafanadashboards"}
      S7 == {"grafanas", "grafanadatasources"}
      S8 == {"prometheuses", "services", "serviceaccounts", "roles", "rolebindings", "ingresses"}
      S9 == {"lokistacks"}
      S10 == {"alloys"}
<1>1. /\ Full(S1) \subseteq ManagerRole /\ Full(S2) \subseteq ManagerRole
      /\ Full(S3) \subseteq ManagerRole /\ Full(S4) \subseteq ManagerRole
      /\ Full(S5) \subseteq ManagerRole /\ Full(S6) \subseteq ManagerRole
      /\ Full(S7) \subseteq ManagerRole /\ Full(S8) \subseteq ManagerRole
      /\ Full(S9) \subseteq ManagerRole /\ Full(S10) \subseteq ManagerRole
  BY ManagerRules
  DEF PostgresClusterRules, MariaDBClusterRules, ValkeyClusterRules, MongoDBClusterRules,
      KafkaClusterRules, RabbitMQClusterRules, GrafanaInstanceRules, PrometheusInstanceRules,
      LokiInstanceRules, AlloyInstanceRules
<1>2. \A r \in S1 \cup S2 \cup S3 \cup S4 \cup S5 \cup S6 \cup S7 \cup S8 \cup S9 \cup S10 :
        To(V, r) \subseteq ManagerRole
  <2> HIDE DEF S1, S2, S3, S4, S5, S6, S7, S8, S9, S10
  <2>1. QED
    BY <1>1, GrantedByGroup
<1>3. \A k \in Kinds : To(V, TargetPlural[k]) \subseteq ManagerRole
  BY <1>2, TenKinds DEF TargetPlural
<1>4. \A g \in Gvks : To(V, ExtraPlural[g]) \subseteq ManagerRole
  BY <1>2 DEF Gvks, ExtraPlural
<1>5. QED
  BY <1>3, <1>4

\* What the scrape Role gives away the operator holds.
LEMMA ScrapeGranted == ScrapePermissions \subseteq ManagerRole
<1>1. ReadOnly({"pods", "endpoints"}) \subseteq ManagerRole
  BY ManagerRules DEF PrometheusInstanceRules
<1>2. {"get", "list", "watch"} \in SUBSET AllVerbs
  BY DEF AllVerbs
<1>3. To({"get", "list", "watch"}, "services") \subseteq ManagerRole
  <2>1. "Service" \in Gvks /\ ExtraPlural["Service"] = "services"
    BY DEF Gvks, ExtraPlural
  <2>2. QED
    BY <1>2, <2>1, VendorGranted
<1>4. ScrapePermissions \subseteq
        ReadOnly({"pods", "endpoints"}) \cup To({"get", "list", "watch"}, "services")
  BY DEF ScrapePermissions, ReadOnly, To, Rules
<1>5. QED
  BY <1>1, <1>3, <1>4

LEMMA ApplyGranted ==
  ASSUME NEW g \in Gvks
  PROVE  ToApply(ExtraPlural[g]) \subseteq ManagerRole
<1>1. {"create", "patch"} \in SUBSET AllVerbs
  BY DEF AllVerbs
<1>2. QED
  BY <1>1, VendorGranted, ScrapeGranted DEF ToApply

\* A controller's own CRs, and what belongs to them.
LEMMA OwnCalls ==
  ASSUME NEW k \in Kinds
  PROVE  /\ \A V \in SUBSET AllVerbs : To(V, Plural[k]) \subseteq ManagerRole
         /\ Rules({Plural[k]}, "status", {"update"}) \subseteq ManagerRole
<1>1. \A V \in SUBSET AllVerbs : To(V, Plural[k]) \subseteq Full({Plural[k]})
  BY RulesMonotone DEF To, Full
<1>2. Rules({Plural[k]}, "status", {"update"}) \subseteq
        Rules({Plural[k]}, "status", {"get", "update", "patch"})
  BY RulesMonotone
<1>3. QED
  BY <1>1, <1>2, OwnGranted DEF Own

LEMMA CallsPermitted == TypeOK => OnlyKnownGaps
<1> SUFFICES ASSUME TypeOK
             PROVE  Needs \subseteq ManagerRole \cup KnownGaps
  BY DEF OnlyKnownGaps
<1>1. kind \in Kinds
  BY DEF TypeOK
<1>2. /\ {"get", "list", "watch"} \in SUBSET AllVerbs
      /\ {"update"} \in SUBSET AllVerbs /\ {"get"} \in SUBSET AllVerbs
      /\ {"delete"} \in SUBSET AllVerbs /\ {"create", "patch"} \in SUBSET AllVerbs
  BY DEF AllVerbs
<1>3. CASE pc \in {"idle", "addFinalizer", "removeFinalizer", "updateStatus"}
  BY <1>1, <1>2, <1>3, OwnCalls DEF Needs
<1>4. CASE pc \in {"getTarget", "deleteTarget"}
  BY <1>1, <1>2, <1>4, VendorGranted DEF Needs
<1>5. CASE pc = "applyTarget"
  <2>1. TargetPlural[kind] \notin {"roles", "rolebindings"}
    BY <1>1, TenKinds DEF TargetPlural
  <2>2. Needs = To({"create", "patch"}, TargetPlural[kind])
    BY <1>5, <2>1 DEF Needs, ToApply
  <2>3. QED
    BY <1>1, <1>2, <2>2, VendorGranted
<1>6. CASE pc \in {"applyExtras", "deleteExtras"}
  <2>1. Slots[next].gvk \in Gvks
    <3>1. next \in DOMAIN Slots
      BY <1>6 DEF TypeOK
    <3>2. Slots \in Seq(ExtraRecords)
      BY <1>1, ExtrasSequence DEF Slots
    <3>3. Slots[next] \in ExtraRecords
      BY <3>1, <3>2
    <3>4. QED
      BY <3>3 DEF ExtraRecords
  <2>2. Needs \in {ToApply(ExtraResource), To({"delete"}, ExtraResource)}
    BY <1>6 DEF Needs
  <2>3. QED
    BY <1>2, <2>1, <2>2, ApplyGranted, VendorGranted DEF ExtraResource
<1>7. CASE pc = "patchRollouts"
  <2>1. To({"get", "patch"}, "statefulsets") \subseteq ManagerRole
    <3>1. To({"get", "patch"}, "statefulsets") \subseteq
            Rules({"statefulsets"}, "", {"get", "list", "watch", "patch"})
      BY DEF To, Rules
    <3>2. QED
      BY <3>1, ManagerRules DEF LokiInstanceRules
  <2>2. ToListCached("pods") \subseteq ManagerRole
    <3>1. ToListCached("pods") \subseteq ReadOnly({"pods", "endpoints"})
      BY DEF ToListCached, To, ReadOnly, Rules
    <3>2. QED
      BY <3>1, ManagerRules DEF PrometheusInstanceRules
  <2>3. QED
    BY <1>7, <2>1, <2>2 DEF Needs, KnownGaps
<1>8. CASE pc \in {"resolveClass", "deletePVCs"}
  BY <1>8 DEF Needs, KnownGaps
<1>9. QED
  BY <1>3, <1>4, <1>5, <1>6, <1>7, <1>8 DEF TypeOK

\* Whatever the kind, the spec and the extra at hand, a call of the operator
\* that its role does not permit is one of the three known ones.
THEOREM NoOtherGaps == Spec => []OnlyKnownGaps
BY InstanceTypeCorrect, CallsPermitted, PTL

=============================================================================
