# TLA+ specifications of the PaaS operator

The operator is one Go process built on controller-runtime. It serves ten small
custom resources (`PostgresCluster`, `ValkeyCluster`, `GrafanaInstance`,
`MariaDBCluster`, `RabbitMQCluster`, `PrometheusInstance`, `MongoDBCluster`,
`KafkaCluster`, `LokiInstance`, `AlloyInstance`) and turns each custom resource
(CR) into one vendor object of the same name (the *target*) and a few auxiliary
objects (the *extras*). All ten controllers run the same generic loop,
`internal/reconciler/reconciler.go`, with a stateless adapter per vendor. Most
of what can go wrong therefore sits in one place, and these modules start
there. Source paths below are relative to the repository.

## 1. Inventory

| Component | State it keeps | Operations | Properties that make it correct |
|---|---|---|---|
| Generic loop (`internal/reconciler/reconciler.go`) | none of its own: the CR and its finalizer and status, the target, the extras, volume claims (all on the API server); the informer cache, the work queue and its timers (controller-runtime) | `Reconcile`, `applyTarget`, `applyExtraResources`, `deleteTarget`, `deleteExtraResources`, `deletePVCs` | no orphan, no teardown of a CR in force, observed generation means applied, no key forgotten, deletions complete, drift is repaired, readiness is mirrored, data of a live workload is kept |
| Adapters' extras (`internal/<vendor>/<vendor>.go`, `ExtraResources`) | objects named by kind and suffix | apply by force, prune or delete by name | CRs of one namespace do not disturb each other, nothing of a deleted CR remains |
| Rollout helper (`unstickStatefulSetRollout`, Loki's PatchOnly extras) | one claimed field of a foreign StatefulSet, pods read from a cache | get, patch, list pods, delete pods | the patch reaches every pod; healthy pods are left alone |
| Singleton webhooks (`internal/webhook/v1alpha1`) | none: answers from the informer cache | `ValidateCreate` | at most one of a kind per namespace; a refusal is not forever |
| Adapters' status (`ExtractStatus`, `ApplyStatus`) | the CR's status | pure functions | no CR is called ready before its vendor has said so |
| Default IngressClass (`defaultIngressClass`, `internal/ingress`) | cluster's class annotations | resolve, set on the working copy | the route follows the cluster's default; the CR's spec is not rewritten |
| Adapters' manifests (`BuildManifest`, `ExtraResources`) | the fields of the vendor object the operator owns | translation, merged by Server-Side Apply | options given are in force, options taken back no longer are, what others set stays, storage goes with the CR |
| Controllers (`internal/controller`) and their permissions (`config/rbac/role.yaml`) | none | wiring, RBAC markers | one worker per kind; the role permits every call the loop makes |
| Manager (`cmd/main.go`) | none | flags, registration of the ten controllers | one leader |
| API types (`api/v1alpha1`) | none | JSON, defaults | an explicit zero survives a typed round trip |

How they interact. A watch event on a CR puts its key into the kind's work
queue; one worker per kind takes keys and runs `Reconcile`, which reads the CR
from the informer cache and then makes a sequence of API calls: add the
finalizer, or apply the target, apply or prune the extras one by one and write
the status, or (deletion) delete the target, the extras and the volume claims
and remove the finalizer. Writes of the CR carry the resource version that was
read and can be refused; applies force ownership and deletes go by name, and
neither is conditional. The status written is read from the answer to the apply
of the target. Nothing watches the targets: a timer of 15 seconds or 5
minutes brings the key back. Vendor operators, Kubernetes' controllers and the
users act on the same objects at any time. Webhooks run in the same process and
list from the same cache.

What is hard, and rarely reached by the tests: reading an outdated copy, or that
of an earlier CR of the same name; a response lost after the call took effect;
the process dying between two calls; objects that linger behind finalizers of
others; kinds that are not installed; two CRs meeting on one object; and what
must eventually happen without any watch on the target. `PROJECT.json` lists
each under "hazards" with its line and the property that covers it.

## 2. Modules

```
FinalizerGate            abstract: what a finalizer-gated controller promises;
                         GenericReconciler and ManagedInstance implement it
GenericReconciler        the loop for one CR key
  MCGenericReconciler      instances of it
  GenericReconcilerProofs  theorems about it
    GateRefinementProofs     it implements FinalizerGate
AdapterExtras            the extras of each vendor adapter
  AdapterExtrasProofs      lemmas about their lists and names
  SharedNamespace          several CRs' extras side by side
    MCSharedNamespace        namespaces that meet and that do not
    SharedNamespaceProofs    theorems about any fleet
StatefulSetRollout       PatchOnly claims and stuck rollouts
  StatefulSetRolloutProofs theorems about any number of pods
SingletonWebhook         the admission rule of the monitoring stack
  SingletonWebhookProofs   theorems about any names and namespaces

Fields                   objects as functions from fields to values
AdapterManifests         BuildManifest and ExtraResources of the ten adapters
AdapterStatus            ExtractStatus and ApplyStatus of the ten adapters
OperatorRole             the permissions of config/rbac/role.yaml
ManagedInstance          a CR of any kind with all of these (and AdapterExtras)
  ManagedInstanceProofs    types, class, foreign fields, readiness, permissions
    InstanceLifecycleProofs  storage, finalizer protocol, status, start to end
```

**GenericReconciler.** The server holds `cr`; the informer's copy is `cache`,
`queued` and `timer` are the key's place in the work queue and in the delaying
queue, `pc`, `obj`, `next` and `snap` are the worker inside `Reconcile` (the next
call, the working copy, the loop index, the readiness read from the apply's
answer), and `target`, `extras`, `workload` and `pvc` are what is in the cluster.
`installed` holds the extras whose kind the API server knows; the others' CRDs
may be installed at any time, or never.
One action is one API call together with all that `Reconcile` does until the
next one; any call may fail without effect (`CallFails`), or take effect and lose
its answer (the second disjunct of `Proceed`), or be cut off by a `Restart`.
Resource versions only matter as "still the server's", so copies carry a flag
(`cacheCurrent`, `objCurrent`) instead. `RoundTrip` is what a typed object does to
an explicit `false` with `omitempty` and a server-side default. What an adapter
builds from a spec is the spec itself; `Desired` says when an extra is wanted.
`FinalizerGate` forgets caches, calls and failures; `ImplementsGate` maps the
loop to it (owned objects are the live target and the extras). Its CR may be
older than the controller, because that of ManagedInstance is there from the
start.

**SharedNamespace** looks at the extras alone: every CR's controller walks its
list (`AdapterExtras`, one sequence per adapter, in the code's order) and an
object remembers whose content it has. A working copy that was outdated is
refused at the end (`Finish`), an abort may come at any point. Cache staleness
is left to GenericReconciler.

**StatefulSetRollout** takes one of the three StatefulSets Loki's adapter
patches. The StatefulSet is read live and the pods from the cache (`seen`), as
the client does for unstructured and typed reads. The StatefulSet controller is
external and is modelled by what the comment on `unstickStatefulSetRollout`
relies on: pods are created in order, a rollout waits until all pods are ready,
and a deleted pod comes back from the current template.

**SingletonWebhook** has one informer for all namespaces, with every version it
has yet to see in `lag`; a create is asked about, allowed, and stored in three
separate steps.

**ManagedInstance** is the composition GenericReconciler leaves out: there an
adapter is a function of the spec, here it is one of the ten, chosen in `Init`.
The price is that faults are left out: a Reconcile reads the current CR, and a
call fails only because the role does not permit it (`Refused`) or because the CR
was written meanwhile (`Conflict`).

- `AdapterManifests` has the options of each spec and the manifest each adapter
  builds from them, as the set of fields with their values. A number (instances,
  replicas, shards) is kept as a number, because defaults and zero matter; a value
  that is copied verbatim is `Given`. `Merged` is Server-Side Apply with
  ForceOwnership: what is applied is set, what the operator applied before and no
  longer does is removed, the rest stays. `VendorReads` is external: which of its
  fields a vendor takes for which option, its own defaults included.
- `AdapterStatus` reads the vendor's report out of the apply's answer. Before the
  vendor operator has looked at an object there is no report, which is why
  `NoReport` is an object without a field and not a report of zeros.
- `OperatorRole` has the RBAC markers of the controllers, whose union is the
  role; `Needs` says which permissions the worker's next call takes. A cached
  `List` needs `list` and `watch`, and without them the informer never answers and
  the worker waits (`Refused` excludes `resolveClass`). `admin` runs the operator
  with an administrator's rights, for the kinds that would meet a gap of the role
  and get no further.
- `ResolveClass` sets the default IngressClass in the working copy only. That
  copy is then sent with the status.
- `ImplementsGate` maps an instance to FinalizerGate: the objects are the vendor
  object (0) and the extras by their number, present where they have content.

## 3. Runs

| Run | Question | Result |
|---|---|---|
| `loop_safety` | stale reads, lost answers, a restart, edits, deletion and re-creation, with vendor finalizers, volume claims and a foreign finalizer | holds |
| `loop_liveness` | completion of deletions, convergence after drift, polling of readiness | holds under fairness |
| `loop_spec_kept` | does the operator leave the user's spec alone? | violated: `reconciler.go:277` |
| `loop_target_gone` | is the target gone when the CR is? | violated: `reconciler.go:260` |
| `loop_unknown_kind` | does disabled monitoring need the monitoring kinds? | violated: `reconciler.go:507` |
| `shared_disjoint` | do extras with distinct names stay undisturbed? | holds |
| `shared_collision` | do those of any two CRs? | violated: `valkey.go:208` and its peers |
| `singleton_rule` | one instance per namespace for patient users; progress for all | holds |
| `singleton_race` | one instance per namespace, always? | violated: `singleton.go:35` |
| `rollout_completes` | does the patch reach all pods, and is what it deletes really stale? | holds, the first under fairness |
| `rollout_ready_pod` | are ready pods left alone? | violated: `reconciler.go:557` |
| `instance_served` | does each of the ten kinds serve what its spec asks for, until it is deleted? | holds, liveness under fairness |

The properties of the loop:

- `NoOrphan`: what the operator made and did not delete is covered by a CR with
  its finalizer. `TeardownJustified`: the deletion path does not run against the
  objects of a CR nobody deletes, also when the copy it works from is of an
  earlier CR of that name. `ObservedIsApplied`: `observedGeneration` equal to the
  generation means that the target and the extras carry that spec.
  `NoLostWakeup`: an idle worker with a current cache has the key queued or a
  timer of the right speed. `StorageSpared`: claims go away only with a CR that
  is being deleted and a target that is not live. `ImplementsGate`: refinement.
- `DeletionCompletes`, `Converges` (a CR left alone ends up applied and observed,
  drifted objects included), `StatusFollows` (a readiness that lasts is mirrored).

The properties of a rollout (`rollout_completes`):

- `OneLineage`: the update revision is an earlier version of the template or the
  template itself, the current revision and every pod one of the update revision,
  and a version with the claimed field is followed by none without it. The code
  takes any pod whose revision hash differs for stale; that is only right if no
  pod can be of a later version, or left of an earlier StatefulSet of that name.
  It also means that the claim never brings a deleted StatefulSet back.
- `PatchReachesPods`: every pod ends up healthy and of the patched template.

The properties of an instance (`instance_served`):

- `NoPrematureReady`: ready is never said of an object its vendor has not yet
  called ready once; each adapter reads a different report, and that of a new
  object is empty. `ForeignKept`: fields other managers wrote survive every apply.
  `StorageFreed`: with the CR gone its claims are gone, through the field in which
  each vendor is asked for that, as last applied (Kafka's is in the node pool,
  which is deleted after the target). `ClassUntouched`: the resolved default
  class never becomes the user's. `OnlyKnownGaps`: the role permits every call but
  three. `ImplementsGate`: refinement, for every kind and with its real extras:
  optional ones that an edit made unwanted must still be deleted.
- `StatusMeansServed`: at every write of a status the cluster is as the spec on the
  API server says: the vendor's reading of its object equals the options and units
  given, no extra is missing or left over, and the Ingress has the class the user
  named. It needs the order of `Reconcile` (status last), the merge of each of the
  ten manifests, and the refusal of the write if the CR was edited meanwhile.
  Extras drift only in GenericReconciler, where `Converges` is about their repair.
- `TargetFollowsSpec`: of a CR left alone, the vendor's own reading of its object
  ends up equal to the options and units of the spec, after any edit; leaving a
  field out is not enough where the vendor's default is on.
  `RouteFollowsDefault`: an Ingress without a class of its own ends up with the
  cluster's one default, or none. `DeletionEnds`: a deletion is carried out.

**Bounds.** One CR key, since keys share nothing in the loop (what they do share
is SharedNamespace's subject). Two extras, one of them optional, so that the
loop over extras has a first, a last, a wanted and an unwanted element. Two
creations, so that a second CR meets what is left of the first and stale copies
of it; one edit, so that applied and current spec differ; one fault, since
after a fault every Reconcile starts from scratch: what a second fault would
find is what the first left, with other copies in the cache; one drift, in the
liveness run. `Contents` has one element: specs then differ by the flag that
extras depend on, and an edit back and forth is one of the flag. The theorems
below do not depend on any of these bounds. In SharedNamespace three changes
are enough to create two CRs and edit or delete one of them, in any order. In
StatefulSetRollout two pods give the order of creation and of rolling, and two
changes give a template that changes during a rollout, and a StatefulSet
deleted and created anew. In SingletonWebhook two names in each of two
namespaces and two removals let an instance be replaced twice. In
ManagedInstance one edit is enough, because every property compares the cluster
with the spec or the defaults as they are last, and the initial CRs have all
options or none, so that an edit takes one back or adds one; the fields copied
alike are represented by one of them (`Fixed` are not edited). Units are the
schema's least, its default and two, which gives zero for the kinds that admit
it and a MariaDB that is and is not clustered. A vendor's units are all up or
all down. Two IngressClasses, of which at most one is the default at the start,
give none, one, another one, and two defaults.

**Fairness.** The worker goroutine, the informer and the delaying queue keep
running (weak fairness of `Reconcile`, `CacheSync`, `TimerFires`): a requeued key
is always taken again, with back-off but without a limit on retries
(controller-runtime's rate limiter never drops a key). A terminating target is
eventually finalized by its vendor (`VendorFinalizes`). Faults, drifts and edits
are finite by their bounds; nothing else is assumed of users and vendors. In
SingletonWebhook requests are answered and stored, and users ask again. In
StatefulSetRollout the CR is polled for ever, the controllers work, and a pod
with the fix becomes ready. In ManagedInstance the worker polls (every Reconcile
that ends well leaves a timer, one that fails is retried) and the vendor operator
looks at the object it is given; what it reports is up to it.

**Deadlock** is checked in `singleton_*` and `rollout_*`. In the loop the system
really stops once the CR is gone and users have no creation left
(`CHECK_DEADLOCK FALSE`); likewise in SharedNamespace, and in ManagedInstance,
where the worker also stops for good at a List its role does not permit.

**Disagreements without a run.** While the code was read for these modules, its
text and its comments were found to differ in places where nothing temporal is
needed to see it; the model follows the code.

- The manager's role (`config/rbac/role.yaml`, generated from the markers in
  `internal/controller`) has no `ingressclasses` (listed at `reconciler.go:484`,
  documented at `README.md:960-981`), no `deletecollection` of
  `persistentvolumeclaims` (`reconciler.go:450`, `README.md:326-335`) and no
  `delete` of `pods` (`reconciler.go:565`). `KnownGaps` lists exactly these, and
  `OnlyKnownGaps` says there is no other.
- `TargetStatus.Ready` (`reconciler.go:55-56`) is described by counts, which the
  adapters of Grafana, Kafka, Loki and Alloy do not look at.
- Alloy's push to Loki (`alloy.go:120`) carries no tenant header, which
  `grafana.go:88-100` says every request must.
- Names are concatenations: the Secrets that the vendors of a PostgresCluster
  and a MariaDBCluster generate can have equal names (`mariadb.go:97-104`).

## 4. Proofs

The theorems hold for every value of the constants that the named assumptions
admit, without the bounds of the runs. The runs evaluate the assumptions.

**The loop** (`GenericReconcilerProofs`, `GateRefinementProofs`; any number of
extras, any adapter parameters; `ConstAssumption`, `NilAssumption`):

- `TypeCorrect`: `Spec => []TypeOK`, actor by actor.
- `OrphanFree`: `Spec => []NoOrphan`.
- `TeardownSound`: `Spec => []TeardownJustified`.
- `StatusVouches`: `Spec => []ObservedIsApplied`.
- `WakeupsKept`: `Spec => []NoLostWakeup`.
- `ClaimsSpared`: `Spec => StorageSpared`, from the same invariant as `TeardownSound`.
- `LoopImplementsGate`: `Spec => ImplementsGate`.

`NoOrphan` is not inductive: a step that creates an object knows only the
working copy `obj`, and one that removes the finalizer knows only where `pc` is.
`GateInv` adds what relates them: `Copies` (a copy flagged current equals the
server's CR), `CacheGuard` (while the cache shows a CR with the finalizer that
is not being deleted, the server's has the finalizer too; while it shows one
that is being deleted, there is no CR in force, because only this worker adds the
finalizer, from a cached copy that does not have it) and
`Progress` (how far along the deletion path the worker is tells which objects
are gone, and being on the apply path means a CR with the finalizer). Each
disjunct of `Next` is a step of the induction, and `NoOrphan` and
`TeardownJustified` follow.

`ObservedInv` is the strengthening for the status: the observed generation is
never ahead; while the CR's spec is observed, the cache and the working copy of
a Reconcile on the apply path carry that spec, even where they are outdated
otherwise, so an apply cannot undo it; and inside the loop over the extras the
target and the extras before `next` are those of the working copy. `WakeupInv`
adds that the apply path is only taken with a copy that is not being deleted,
so that the timer left at its end is of the right speed.

The refinement rests on `GateInv`. A step of the loop either changes
the CR (one of the gate's `Create`, `Guard`, `Leave`, `Release`, `Vanish`),
adds one object under a CR with the finalizer (`Make`), loses one (`Lose`), or is
invisible; one lemma per group of actions says which. `GateInv` gives what `Make`
and `Release` need (the finalizer is there; nothing is owned). `Entered` adds how
`Reconcile` chose its path, which the safety proof did not need: the finalizer is
added only from a copy not being deleted (so `Guard` does not fire on a leaving
CR), and a teardown works from a copy that carries it.

**An instance of any kind** (`ManagedInstanceProofs`, `InstanceLifecycleProofs`;
any set of classes, any number of edits; `InstanceAssumption`):

- `InstanceTypeCorrect`: `Spec => []TypeOK`. `TypeInv` adds the types of the target,
  the vendor and the answer.
- `ClassStaysTheUsers`: `Spec => ClassUntouched`. `ClassInv` says that the worker, at
  the one call that writes the whole CR, still has the class that it read, unless
  it will be refused: the default is resolved on the other path.
- `ForeignFieldsKept`: `Spec => []ForeignKept`. `ForeignInv` says that the operator
  does not own the field of the other manager; it needs that no manifest of the
  ten sets it.
- `ReadyOnlyOnceReported`: `Spec => []NoPrematureReady`. `ReadyInv` carries the
  claim from the report over the answer to the status, and rests on one lemma per
  adapter: what `ExtractStatus` calls ready, the vendor does.
- `NoOtherGaps`: `Spec => []OnlyKnownGaps`, from the rules of each controller and,
  for each call, what it needs.
- `StorageGoesWithCR`: `Spec => []StorageFreed`. `StorageInv` relates the claims, the
  target, the finalizer and the place of the worker: claims exist only with a
  target (for Kafka, a target and its node pool) that asks for their deletion,
  which no other manager can change, and without the finalizer or past
  `deleteTarget` there is no target.
- `InstanceImplementsGate`: `Spec => ImplementsGate`. To `StorageInv` it adds
  `TeardownInv`: without the finalizer there are no extras, those before `next` are
  gone while they are being deleted, and the deletion path is only taken for a CR
  that is being deleted, so `Release` never fires on one that owns something and
  `Guard` never on one that leaves. Each action is then a step of the gate or none
  (`GateStep`).
- `StatusOnlyWhenServed`: `Spec => StatusMeansServed`. `AppliedInv` has three parts,
  each with its own induction: `CopyInv` (the copy of a Reconcile that will not be
  refused has the units and options of the spec, and its class if it names one),
  `MirrorInv` (the vendor object carries the manifest of that copy from the apply
  on, whatever another manager sets in it) and `ExtrasInv` (the extras before `next`
  are as the copy wants them, and after the loop all of them). The step to the
  status is then one lemma per adapter (`CnpgServed` to `AlloyServed`): an object
  that carries its manifest reads back as the spec, for every combination of
  options. `ContentMade` says that no wanted extra is empty, so that present and
  wanted are the same.

**A namespace** (`SharedNamespaceProofs`; any fleet; lemmas of
`AdapterExtrasProofs` about the lists of extras):

- `NamespaceTypeCorrect`: `Spec => []TypeOK`.
- `NothingRemains`: `Spec => []NoRemains`, also where CRs contend for an object.
  `JobInv` says that a Reconcile whose copy is not outdated has the CR's own phase
  and spec, `RemainsInv` that only its own CR's slots hold a CR's content, and that
  one on the deletion path has left none in the slots it has passed.
- `FleetUndisturbed`: with the hypothesis `Disjoint` (no two CRs of the fleet have
  an object in common), `Spec => []Undisturbed`. `KeptInv` says that the slots a
  Reconcile has passed are as its copy wants them, and that those of a settled CR
  are as its spec wants them.
  Lemma `DistinctNames` gives `Disjoint` for CRs of distinct names; `shared_collision`
  shows that the hypothesis is needed.

**A rollout** (`StatefulSetRolloutProofs`; any number of pods and all bounds):

- `RolloutTypeCorrect`: `Spec => []TypeOK`, with the types of the pods, of their
  cached copies and of the list at hand.
- `StalePodsAreOlder`: `Spec => []OneLineage`. `LineageInv` adds that there is an
  update revision exactly when there is a current one, and none without a
  template; versions follow one another (`FollowsItself`, `FollowsOn`), and pods
  are only made of the current or the update revision.

**The webhooks** (`SingletonWebhookProofs`; any names and namespaces):

- `WebhookTypeCorrect`: `Spec => []TypeOK`.
- `PatienceSuffices`: `Spec => []PatientSingleton`. `PatientInv` follows the versions
  the informer has yet to see: in a patient namespace they only shrink while a
  create is on its way, so the list it is admitted on can miss no instance.

Only model-checked: everything under fairness (liveness and ENABLED are out of
the prover's reach), that is `DeletionCompletes`, `Converges`, `StatusFollows`,
`Provisioned`, `PatchReachesPods`, `TargetFollowsSpec`, `RouteFollowsDefault` and
`DeletionEnds`. Every invariant and every action property of the passing runs is
a theorem.

## 5. Not modelled

- Events and log lines; the text of messages and conditions; the values of fields
  that are copied verbatim, labels, annotations and the configuration texts of
  dashboards, datasources and Alloy.
- Faults and the adapters' detail at the same time: GenericReconciler has the
  first with an opaque adapter, ManagedInstance the second without faults.
- A vendor operator that reads a field differently than `VendorReads` says: the
  vendors' sources are not part of the repository, and that operator is taken
  from the adapters' comments and their tests.
- An informer that goes back in time after a reconnect to a lagging API server,
  and one that catches up to a version that is itself outdated (in
  GenericReconciler `CacheSync` always delivers the newest; SingletonWebhook
  delivers every version in order).
- The manager's flags, and two managers at once: leader election is off by
  default in `cmd/main.go` and on in `config/manager/manager.yaml`, which is what
  the modules assume. What they use of `cmd/main.go` is that the ten controllers
  are registered in one process (`Kinds`).
- Vendor objects that existed before the CR of their name; a user who removes
  the operator's finalizer by hand. Nothing in the repository says what should
  happen.
- Volume claims created after the cleanup listed them (`reconciler.go:450`): they
  are left behind, and the code makes no later attempt.
- Generated deepcopy functions (a seventh of the lines, without a decision in
  them), deployment manifests other than the role, scripts, and tests: they
  keep no state of the system.

## 6. Where to go on

Everything of the system that keeps state or decides something is in a module.
What would add most: a second informer version in flight in GenericReconciler,
faults in ManagedInstance for one kind at a time, and the safety half of
`TargetFollowsSpec` while no worker is running (a served cluster stays served
until the spec is edited).
