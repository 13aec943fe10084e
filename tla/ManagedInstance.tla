---------------------------- MODULE ManagedInstance ----------------------------
(***************************************************************************)
(* One CR of any kind, from its spec to what the vendor operator makes of  *)
(* it and back to its status: the adapters' manifests merged into the      *)
(* vendor object by Server-Side Apply, the extras, the default             *)
(* IngressClass, the vendor's report, and the role that permits each call. *)
(* Caches, restarts and lost responses are GenericReconciler's subject:    *)
(* here a Reconcile reads the current CR, and a call fails only because    *)
(* the role does not permit it or because the CR was written meanwhile.    *)
(***************************************************************************)
EXTENDS AdapterManifests, AdapterStatus, OperatorRole, FiniteSets

CONSTANTS
  Classes,   \* the cluster's IngressClasses
  MaxEdits   \* bound: changes of the spec and of the default classes

ASSUME InstanceAssumption == MaxEdits \in Nat /\ "" \notin Classes

Name == "x"

VARIABLES
  kind,     \* which of the ten kinds the CR is of
  admin,    \* the operator runs with an administrator's rights, not its role
  phase,    \* the CR is present, being deleted, or gone
  spec,     \* its spec on the API server
  fin,      \* it carries the operator's finalizer
  pc,       \* the call the worker makes next
  next,     \* the extra it handles next
  copy,     \* the spec the running Reconcile works from
  current,  \* the CR was not written since that copy
  answer,   \* what ExtractStatus finds in the apply's answer
  target,   \* the vendor object: its fields, and those the operator owns
  extras,   \* the content of each extra
  vendor,   \* what the vendor operator has made of the target
  stuck,    \* a pod of the vendor's waits for a rollout that waits for it
  claims,   \* the vendor's volume claims exist
  status,   \* the CR's status
  defaults, \* the IngressClasses annotated as default
  reported, \* the vendor has once reported what it calls ready
  tuned,    \* somebody else set a field of the target
  edits

worker == <<pc, next, copy, current, answer>>
cluster == <<vendor, stuck, claims, reported>>
user == <<kind, admin, phase, spec, defaults, edits>>

vars == <<kind, admin, phase, spec, fin, pc, next, copy, current, answer, target, extras,
          vendor, stuck, claims, status, defaults, reported, tuned, edits>>

Slots == ExtraResources[kind]

\* Options that need another one.
Nested(opts) == "tls" \in opts => "ingress" \in opts

\* A LokiStack has none to choose.
Units(k) == IF k = "loki" THEN {1} ELSE {SpecOf[k].least, SpecOf[k].unset, 2}

Routable == "ingress" \in SpecOf[kind].opts

Specs(k) ==
  {s \in [units : Units(k), opts : SUBSET SpecOf[k].opts, class : Classes \cup {""}] :
     /\ Nested(s.opts)
     /\ s.class # "" => "ingress" \in s.opts}

\* The spec has the shape of its kind's schema, and a running Reconcile a copy
\* of it.
TypeOK ==
  /\ kind \in Kinds
  /\ admin \in BOOLEAN /\ fin \in BOOLEAN /\ current \in BOOLEAN
  /\ stuck \in BOOLEAN /\ claims \in BOOLEAN /\ reported \in BOOLEAN /\ tuned \in BOOLEAN
  /\ phase \in {"present", "deleting", "gone"}
  /\ spec \in Specs(kind)
  /\ pc \in {"idle", "addFinalizer", "getTarget", "resolveClass", "applyTarget", "applyExtras",
             "patchRollouts", "updateStatus", "deleteTarget", "deleteExtras", "deletePVCs",
             "removeFinalizer"}
  /\ IF pc \in {"applyExtras", "deleteExtras"} THEN next \in DOMAIN Slots ELSE next = 1
  /\ copy \in Specs(kind) \cup {Nil} /\ (copy = Nil <=> pc = "idle")
  /\ target # Nil => target.owned \subseteq DOMAIN target.fields
  /\ DOMAIN extras = DOMAIN Slots
  /\ defaults \subseteq Classes
  /\ edits \in 0..MaxEdits

\* The two kinds of gap of the role (KnownGaps) are met by a RabbitMQCluster
\* and a LokiInstance; those kinds, and the others that would meet one, are
\* also run without it.
Init ==
  /\ kind \in Kinds
  /\ admin \in (CASE kind \in {"rabbitmq", "loki"}     -> BOOLEAN
                 [] kind \in {"grafana", "prometheus"} -> {TRUE}
                 [] OTHER                             -> {FALSE})
  /\ phase = "present"
  /\ spec \in {s \in Specs(kind) : /\ s.opts \in {{}, SpecOf[kind].opts}
                                   /\ s.units = SpecOf[kind].unset /\ s.class = ""}
  /\ fin = FALSE
  /\ pc = "idle" /\ next = 1 /\ copy = Nil /\ current = FALSE /\ answer = Nil
  /\ target = Nil /\ extras = [i \in DOMAIN Slots |-> Nil]
  /\ vendor = Nil /\ stuck = FALSE /\ claims = FALSE
  /\ status = Nil
  /\ defaults \in (IF Routable THEN {d \in SUBSET Classes : Cardinality(d) < 2} ELSE {{}})
  /\ reported = FALSE /\ tuned = FALSE
  /\ edits = 0

(***************************************************************************)
(* The vendor object                                                       *)
(***************************************************************************)

\* Server-Side Apply with ForceOwnership: the fields applied are set, those
\* the operator applied before and no longer does are removed, the fields of
\* others stay.
Merged(t, manifest) ==
  [fields |-> manifest
                @@ (IF t = Nil THEN Nil
                    ELSE [f \in DOMAIN t.fields \ t.owned |-> t.fields[f]]),
   owned |-> DOMAIN manifest]

\* The object as the API server answers an apply with it.
Answer(t) ==
  [spec |-> t.fields, status |-> IF vendor = Nil THEN NoReport ELSE Report(kind, vendor)]

\* What the vendor operator looks at: a Kafka's nodes are in its node pool.
Pool == extras[CHOOSE i \in DOMAIN Slots : Slots[i].gvk = "KafkaNodePool"]
Seen == IF kind = "strimzi" /\ Pool # Nil THEN Pool @@ target.fields ELSE target.fields

Complete == target # Nil /\ (kind = "strimzi" => Pool # Nil)

Stateful ==
  CASE kind = "alloy"      -> FALSE
    [] kind = "grafana"    -> "persistentVolumeClaim" \in DOMAIN target.fields
    [] kind = "prometheus" -> "storage" \in DOMAIN target.fields
    [] OTHER               -> TRUE

(***************************************************************************)
(* The default IngressClass                                                *)
(***************************************************************************)

RequestedIngressClassName(s) == "ingress" \in s.opts /\ s.class = ""

\* resolveDefaultIngressClass: none and several both mean none.
DefaultClassAnnotatedFirst(annotated) == \* mutant: the first of several is taken
  IF annotated = {} THEN "" ELSE CHOOSE c \in annotated : TRUE
DefaultClass(annotated) ==
  IF \E c \in Classes : annotated = {c} THEN CHOOSE c \in annotated : TRUE ELSE ""

(***************************************************************************)
(* Permissions                                                             *)
(***************************************************************************)

ExtraResource == ExtraPlural[Slots[next].gvk]

\* The permissions the worker's next call takes.
Needs ==
  CASE pc = "idle"          -> To({"get", "list", "watch"}, Plural[kind])
    [] pc = "addFinalizer"  -> To({"update"}, Plural[kind])
    [] pc = "getTarget"     -> To({"get"}, TargetPlural[kind])
    [] pc = "resolveClass"  -> ToListCached("ingressclasses")
    [] pc = "applyTarget"   -> ToApply(TargetPlural[kind])
    [] pc = "applyExtras"   -> IF Wanted(Slots[next], copy.opts) THEN ToApply(ExtraResource)
                               ELSE To({"delete"}, ExtraResource)
    [] pc = "patchRollouts" -> To({"get", "patch"}, "statefulsets") \cup ToListCached("pods")
                                 \cup (IF stuck THEN To({"delete"}, "pods") ELSE {})
    [] pc = "updateStatus"  -> Rules({Plural[kind]}, "status", {"update"})
    [] pc = "deleteTarget"  -> To({"delete"}, TargetPlural[kind])
    [] pc = "deleteExtras"  -> To({"delete"}, ExtraResource)
    [] pc = "deletePVCs"    -> To({"deletecollection"}, "persistentvolumeclaims")
    [] pc = "removeFinalizer" -> To({"update"}, Plural[kind])

Permitted == admin \/ Needs \subseteq ManagerRole

(***************************************************************************)
(* Reconcile                                                               *)
(***************************************************************************)

\* The worker's next call is a permitted one from p, and p2 follows it.
Call(p, p2) ==
  /\ pc = p
  /\ Permitted
  /\ pc' = p2

Return ==
  /\ pc' = "idle" /\ next' = 1
  /\ copy' = Nil /\ current' = FALSE /\ answer' = Nil

\* The extras follow, or what comes after them when there are none.
FirstOf(p, after) == IF Slots = <<>> THEN after ELSE p

AfterApply == IF kind = "loki" THEN "patchRollouts" ELSE "updateStatus"
AfterDelete == IF kind = "loki" THEN "deletePVCs" ELSE "removeFinalizer"

Reconcile ==
  /\ phase # "gone"
  /\ Call("idle", CASE phase = "deleting" -> "deleteTarget"
                    [] phase = "present" /\ ~fin -> "addFinalizer"
                    [] OTHER -> "getTarget")
  /\ copy' = spec
  /\ current' = TRUE
  /\ UNCHANGED <<next, answer, user, fin, target, extras, cluster, status, tuned>>

\* A typed Update of the whole CR.
AddFinalizer ==
  /\ Call("addFinalizer", "idle")
  /\ current
  /\ fin' = TRUE
  /\ spec' = RoundTrip(kind, copy)
  /\ Return
  /\ UNCHANGED <<kind, admin, phase, defaults, edits, target, extras, cluster, status, tuned>>

GetTargetAlways == \* mutant: a class is resolved for a CR without an Ingress, too
  /\ Call("getTarget", IF copy.class = "" THEN "resolveClass" ELSE "applyTarget")
  /\ UNCHANGED <<next, copy, current, answer, user, fin, target, extras, cluster, status, tuned>>
GetTarget ==
  /\ Call("getTarget", IF RequestedIngressClassName(copy) THEN "resolveClass" ELSE "applyTarget")
  /\ UNCHANGED <<next, copy, current, answer, user, fin, target, extras, cluster, status, tuned>>

\* defaultIngressClass: set in the working copy, for this Reconcile only.
ResolveClass ==
  /\ Call("resolveClass", "applyTarget")
  /\ copy' = [copy EXCEPT !.class = DefaultClass(defaults)]
  /\ UNCHANGED <<next, current, answer, user, fin, target, extras, cluster, status, tuned>>

\* The answer to the apply is what the status is extracted from.
ApplyTargetReplacing == \* mutant: an Update instead of an apply
  /\ Call("applyTarget", FirstOf("applyExtras", AfterApply))
  /\ target' = Merged(Nil, BuildManifest(kind, Name, copy))
  /\ answer' = ExtractStatus(kind, Answer(target'))
  /\ UNCHANGED <<next, copy, current, user, fin, extras, cluster, status, tuned>>
ApplyTarget ==
  /\ Call("applyTarget", FirstOf("applyExtras", AfterApply))
  /\ target' = Merged(target, BuildManifest(kind, Name, copy))
  /\ answer' = ExtractStatus(kind, Answer(target'))
  /\ UNCHANGED <<next, copy, current, user, fin, extras, cluster, status, tuned>>

\* Extra number next is handled; p2 follows the last one.
HandleExtra(p, p2, content) ==
  /\ Call(p, IF next = Len(Slots) THEN p2 ELSE p)
  /\ extras' = [extras EXCEPT ![next] = content]
  /\ next' = IF next = Len(Slots) THEN 1 ELSE next + 1
  /\ UNCHANGED <<copy, current, answer, user, fin, target, cluster, status, tuned>>

ApplyExtra ==
  /\ pc = "applyExtras"
  /\ HandleExtra(pc, AfterApply,
                 IF Wanted(Slots[next], copy.opts)
                 THEN ExtraContent(kind, Name, copy, Slots[next]) ELSE Nil)

\* The patches on Loki's StatefulSets and the deletion of the pods they do not
\* reach, in one: StatefulSetRollout takes them apart.
PatchRollouts ==
  /\ Call("patchRollouts", "updateStatus")
  /\ stuck' = FALSE
  /\ UNCHANGED <<next, copy, current, answer, user, fin, target, extras, vendor, claims,
                 reported, status, tuned>>

UpdateStatusWhole == \* mutant: an Update of the CR instead of its status
  /\ Call("updateStatus", "idle")
  /\ current
  /\ status' = ApplyStatus(kind, answer)
  /\ spec' = copy
  /\ Return
  /\ UNCHANGED <<kind, admin, phase, defaults, edits, fin, target, extras, cluster, tuned>>

UpdateStatusUnversioned == \* mutant: written although the CR has changed
  /\ Call("updateStatus", "idle")
  /\ status' = ApplyStatus(kind, answer)
  /\ Return
  /\ UNCHANGED <<user, fin, target, extras, cluster, tuned>>

\* The status subresource: the spec sent along is ignored.
UpdateStatus ==
  /\ Call("updateStatus", "idle")
  /\ current
  /\ status' = ApplyStatus(kind, answer)
  /\ Return
  /\ UNCHANGED <<user, fin, target, extras, cluster, tuned>>

DeleteTargetOnce == \* mutant: a target already gone is an error
  /\ Call("deleteTarget", FirstOf("deleteExtras", AfterDelete))
  /\ target # Nil
  /\ target' = Nil /\ vendor' = Nil /\ stuck' = FALSE /\ tuned' = FALSE
  /\ claims' = (claims /\ ~Reclaims(kind, Seen))
  /\ UNCHANGED <<next, copy, current, answer, user, fin, extras, reported, status>>

\* The vendor's own finalizer is GenericReconciler's subject.
DeleteTarget ==
  /\ Call("deleteTarget", FirstOf("deleteExtras", AfterDelete))
  /\ target' = Nil /\ vendor' = Nil /\ stuck' = FALSE /\ tuned' = FALSE
  /\ claims' = (claims /\ (target # Nil => ~Reclaims(kind, Seen)))
  /\ UNCHANGED <<next, copy, current, answer, user, fin, extras, reported, status>>

DeleteExtraWanted == \* mutant: deletes only the extras the spec now wants
  /\ pc = "deleteExtras"
  /\ HandleExtra(pc, AfterDelete, IF Wanted(Slots[next], copy.opts) THEN Nil ELSE extras[next])
DeleteExtra ==
  /\ pc = "deleteExtras"
  /\ HandleExtra(pc, AfterDelete, Nil)

DeletePVCs ==
  /\ Call("deletePVCs", "removeFinalizer")
  /\ claims' = FALSE
  /\ UNCHANGED <<next, copy, current, answer, user, fin, target, extras, vendor, stuck,
                 reported, status, tuned>>

RemoveFinalizer ==
  /\ Call("removeFinalizer", "idle")
  /\ current
  /\ fin' = FALSE
  /\ phase' = "gone"
  /\ Return
  /\ UNCHANGED <<kind, admin, spec, defaults, edits, target, extras, cluster, status, tuned>>

\* The CR was written since it was read: the Reconcile is retried.
Conflict ==
  /\ pc \in {"addFinalizer", "updateStatus", "removeFinalizer"}
  /\ Permitted
  /\ ~current
  /\ Return
  /\ UNCHANGED <<user, fin, target, extras, cluster, status, tuned>>

\* A call the role does not permit fails, and the Reconcile is retried; but a
\* cached List waits for an informer that never gets its first answer, and the
\* worker with it.
Refused ==
  /\ pc \notin {"idle", "resolveClass"}
  /\ ~Permitted
  /\ Return
  /\ UNCHANGED <<user, fin, target, extras, cluster, status, tuned>>

Worker ==
  \/ Reconcile \/ AddFinalizer \/ GetTarget \/ ResolveClass \/ ApplyTarget \/ ApplyExtra
  \/ PatchRollouts \/ UpdateStatus \/ DeleteTarget \/ DeleteExtra \/ DeletePVCs
  \/ RemoveFinalizer \/ Conflict \/ Refused

(***************************************************************************)
(* The vendor operator                                                     *)
(***************************************************************************)

\* It takes up the object as it is now. A fresh Loki may have pods that cannot
\* write to their volumes.
VendorAdopts ==
  /\ Complete
  /\ LET units == VendorUnits(kind, Seen) IN
     /\ vendor # Nil => vendor.units # units
     /\ vendor' = [units   |-> units,
                   up      |-> IF vendor = Nil \/ units < vendor.up THEN 0 ELSE vendor.up,
                   settled |-> vendor # Nil /\ vendor.settled]
     /\ reported' = (reported \/ VendorReady(kind, vendor'))
  /\ stuck' \in {stuck, vendor = Nil /\ kind = "loki"}
  /\ claims' = (claims \/ Stateful)
  /\ UNCHANGED <<worker, user, fin, target, extras, status, tuned>>

\* Its units come up and go down, and it says so.
VendorReports ==
  /\ vendor # Nil
  /\ ~stuck
  /\ vendor' \in {[vendor EXCEPT !.up = 0, !.settled = FALSE],
                  [vendor EXCEPT !.up = vendor.units, !.settled = TRUE]}
  /\ reported' = (reported \/ VendorReady(kind, vendor'))
  /\ UNCHANGED <<worker, user, fin, target, extras, stuck, claims, status, tuned>>

(***************************************************************************)
(* Users                                                                   *)
(***************************************************************************)

Edit ==
  /\ edits < MaxEdits
  /\ edits' = edits + 1

\* Storage is not taken back from what is already there; the fields that are
\* copied alike are represented by the image, the retention and the size.
Fixed == {"storage", "persistence", "version", "resources"}

\* The spec is changed in one respect.
EditSpec ==
  /\ phase # "gone"
  /\ Edit
  /\ \/ \E o \in spec.opts \ Fixed :
          spec' = [spec EXCEPT !.opts = @ \ (IF o = "ingress" THEN {o, "tls"} ELSE {o}),
                               !.class = IF o = "ingress" THEN "" ELSE @]
     \/ \E o \in SpecOf[kind].opts \ (Fixed \cup spec.opts) :
          spec' = [spec EXCEPT !.opts = @ \cup {o}]
     \/ \E c \in Classes \cup {""} : spec' = [spec EXCEPT !.class = c]
     \/ \E n \in Units(kind) : spec' = [spec EXCEPT !.units = n]
  /\ spec' # spec
  /\ spec' \in Specs(kind)
  /\ current' = FALSE
  /\ UNCHANGED <<kind, admin, phase, fin, pc, next, copy, answer, target, extras, cluster,
                 status, defaults, tuned>>

EditDefaults ==
  /\ phase = "present" /\ Routable
  /\ Edit
  /\ \E c \in Classes : defaults' = IF c \in defaults THEN defaults \ {c} ELSE defaults \cup {c}
  /\ UNCHANGED <<kind, admin, phase, spec, fin, worker, target, extras, cluster, status, tuned>>

Delete ==
  /\ phase = "present"
  /\ phase' = IF fin THEN "deleting" ELSE "gone"
  /\ current' = FALSE
  /\ UNCHANGED <<kind, admin, spec, defaults, edits, fin, pc, next, copy, answer, target,
                 extras, cluster, status, tuned>>

\* Somebody sets a field of the target the operator has no opinion on.
Tune ==
  /\ target # Nil
  /\ ~tuned
  /\ target' = [target EXCEPT !.fields = @ @@ [tuning |-> Given]]
  /\ tuned' = TRUE
  /\ UNCHANGED <<worker, user, fin, extras, cluster, status>>

Next == Worker \/ VendorAdopts \/ VendorReports \/ EditSpec \/ EditDefaults \/ Delete \/ Tune

\* The worker polls and the vendor operator looks at what it is given; nothing
\* is assumed of users, nor of what the vendor has to report.
Spec == Init /\ [][Next]_vars /\ WF_vars(Worker) /\ WF_vars(VendorAdopts)

-----------------------------------------------------------------------------
(***************************************************************************)
(* Safety                                                                  *)
(***************************************************************************)

\* The class resolved for an Ingress never becomes the user's: only a user
\* changes the class of a spec, so that a change of the cluster's default is
\* still followed (reconciler.go:463-475, "in place" in the copy that the
\* status update then sends).
ClassUntouched == [][edits' = edits => spec'.class = spec.class]_vars

\* A CR says ready only if its vendor has said so at least once: not of an
\* object the vendor has yet to look at, whose counts are all zero
\* (valkey.go:290-299, and the ten ExtractStatus alike).
NoPrematureReady == status # Nil /\ status.ready => reported

\* What others set in the vendor object survives every reconcile, as long as
\* the object does (reconciler.go:349-360).
ForeignKept == tuned => "tuning" \in DOMAIN target.fields

\* With the CR gone, so is its storage (README.md:326-335), whatever edits it
\* went through: each vendor's policy is asked for in its own way. Loki's
\* claims are deleted by label, in a race GenericReconciler looks at.
StorageFreed == phase = "gone" /\ kind # "loki" => ~claims

\* The operator's role permits every call it makes but these three: listing
\* the ingress classes (reconciler.go:484), deleting a pod that blocks its own
\* rollout (reconciler.go:565) and deleting Loki's claims (reconciler.go:450).
KnownGaps ==
  ToListCached("ingressclasses") \cup To({"delete"}, "pods")
    \cup To({"deletecollection"}, "persistentvolumeclaims")

OnlyKnownGaps == Needs \subseteq ManagerRole \cup KnownGaps

\* For every kind the adapters' objects fit the finalizer protocol: whatever
\* the vendor object and the extras were edited to, all of them are gone when
\* the finalizer goes (reconciler.go:238-268).
Gate == INSTANCE FinalizerGate WITH
          Objects <- {0} \cup UNION {DOMAIN ExtraResources[k] : k \in Kinds},
          exists  <- phase # "gone",
          guarded <- fin,
          leaving <- phase = "deleting",
          owned   <- {i \in DOMAIN Slots : extras[i] # Nil}
                       \cup (IF target # Nil THEN {0} ELSE {})
ImplementsGate == Gate!Spec

(***************************************************************************)
(* Liveness                                                                *)
(***************************************************************************)

\* The CR meets none of the gaps of the role.
Able == admin \/ (pc # "resolveClass" /\ kind # "loki")

\* The options the vendor object carries; the others are extras, or theirs.
Elsewhere ==
  CASE kind = "valkey"     -> {"expose"}
    [] kind = "rabbitmq"   -> {"ingress", "tls", "monitoring"}
    [] kind = "grafana"    -> {"lokiRef"}
    [] kind = "prometheus" -> {"ingress", "tls", "expose"}
    [] OTHER               -> {}

Asked ==
  (spec.opts \ Elsewhere)
    \cup (IF kind = "mariadb" /\ spec.units > 1 THEN {"clustered"} ELSE {})

Served ==
  /\ Complete
  /\ VendorReads(kind, Seen) = Asked
  /\ VendorUnits(kind, Seen) = spec.units
  /\ \A i \in DOMAIN Slots : extras[i] # Nil <=> Wanted(Slots[i], spec.opts)

\* The cluster ends up as the spec says and stays so: every option given is in
\* force, every option taken back is no longer, in the vendor's own reading of
\* its object, defaults included (valkey.go:182-186).
TargetFollowsSpec == <>[](phase = "present" /\ Able) => <>[]Served

\* The class of the Ingress: the operator's own, or the one inside the Grafana.
Route ==
  LET i == CHOOSE j \in DOMAIN Slots : Slots[j].gvk = "Ingress"
      ingress == IF kind = "grafana" THEN target.fields.ingress ELSE extras[i]
  IN  IF "class" \in DOMAIN ingress THEN ingress.class ELSE ""

\* A status is written only when the cluster is as the spec says: every
\* option in force or taken back, every extra applied or pruned, and the Ingress
\* of the class the user named (reconciler.go:300-327).
StatusMeansServed ==
  [][UpdateStatus => /\ Served
                     /\ spec.class # "" => Route = spec.class]_vars

\* An Ingress is of the class its spec names, or else of the cluster's one
\* default, however often that changes (README.md:960-981).
Routed ==
  /\ Served
  /\ "ingress" \in spec.opts
  /\ Route \in (IF spec.class # "" THEN {spec.class}
                ELSE IF Cardinality(defaults) = 1 THEN defaults ELSE {""})
RouteFollowsDefault ==
  <>[](phase = "present" /\ "ingress" \in spec.opts /\ Able) => <>[]Routed

\* A deletion is carried out, for every kind, from wherever it finds the
\* Reconcile (reconciler.go:238-268).
DeletionEnds == phase = "deleting" ~> phase = "gone" \/ ~Able

=============================================================================
