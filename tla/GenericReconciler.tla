------------------------- MODULE GenericReconciler -------------------------
(***************************************************************************)
(* The reconcile loop every controller of the operator shares              *)
(* (internal/reconciler/reconciler.go), for ONE custom resource (CR) key:  *)
(* its copy on the API server, the informer cache the loop reads it from,  *)
(* the work queue, the worker stepping through Reconcile one API call at a *)
(* time, and the objects it manages (the vendor object, called the target, *)
(* the auxiliary objects, called extras, and the vendor's volume claims).  *)
(*                                                                         *)
(* Resource versions are compared only for equality with the server's      *)
(* current one, so a copy of the CR carries a flag instead: whether        *)
(* nothing was written to the CR since the version it copies.              *)
(***************************************************************************)
EXTENDS Naturals

CONSTANTS
  Contents,         \* what a user may ask for, apart from the omitted zero
  NExtras,          \* extras are 1..NExtras, in the order of ExtraResources
  Optional,         \* extras wanted only while monitoring is enabled
  Installed,        \* extras whose kind the API server knows from the start
  OmitsZero,        \* an explicit FALSE is lost by a typed Update
  VendorFinalizers, \* the target lingers, terminating, after a delete call
  HasPVCs,          \* the adapter selects volume claims to delete
  ForeignFinalizer, \* a CR may also carry somebody else's finalizer
  MaxCreates,       \* bound: times a user creates the CR
  MaxEdits,         \* bound: times a user edits its spec
  MaxFaults,        \* bound: failed calls, lost responses and crashes
  MaxDrifts,        \* bound: objects deleted behind the operator's back
  Nil               \* no object

Extras == 1..NExtras

Specs == [content : Contents, mon : BOOLEAN]

CRs == [spec : Specs, gen : Nat, fin : BOOLEAN, other : BOOLEAN,
        del : BOOLEAN, obs : Nat, ready : BOOLEAN]

Targets == [spec : Specs, ready : BOOLEAN, del : BOOLEAN]

ASSUME ConstAssumption ==
  /\ NExtras \in Nat
  /\ Optional \subseteq Extras
  /\ Installed \subseteq Extras
  /\ {OmitsZero, VendorFinalizers, HasPVCs, ForeignFinalizer} \subseteq BOOLEAN
  /\ {MaxCreates, MaxEdits, MaxFaults, MaxDrifts} \subseteq Nat

ASSUME NilAssumption ==
  /\ Nil \notin CRs
  /\ Nil \notin Targets
  /\ Nil \notin Specs

VARIABLES
  cr,           \* the CR on the API server
  installed,    \* extras whose kind the API server knows
  cache,        \* the informer's copy of it
  cacheCurrent, \* no write to the CR since that copy
  queued,       \* the key is in the work queue
  timer,        \* the key's pending RequeueAfter
  pc,           \* what the worker does next
  obj,          \* the copy of the CR the running Reconcile works from
  objCurrent,   \* no write to the CR since that copy
  next,         \* the extra the worker handles next
  snap,         \* readiness read from the applied target
  target,       \* the vendor object
  extras,       \* each extra's object
  workload,     \* the vendor operator's own StatefulSets
  pvc,          \* a volume claim of theirs
  creates, edits, faults, drifts

server  == <<cr, cacheCurrent, installed>>
queue   == <<queued, timer>>
worker  == <<pc, obj, objCurrent, next, snap>>
storage == <<workload, pvc>>
managed == <<target, extras, workload, pvc>>
budgets == <<creates, edits, faults, drifts>>

vars == <<cr, installed, cache, cacheCurrent, queued, timer, pc, obj, objCurrent, next,
          snap, target, extras, workload, pvc, creates, edits, faults, drifts>>

ApplyPath  == {"applyTarget", "applyExtras", "updateStatus"}
DeletePath == {"deleteTarget", "deleteExtras", "removeFinalizer"}

TypeServer ==
  /\ cr \in CRs \cup {Nil}
  /\ installed \subseteq Extras
  /\ cache \in CRs \cup {Nil}
  /\ cacheCurrent \in BOOLEAN
  /\ queued \in BOOLEAN
  /\ timer \in {"none", "fast", "slow"}

TypeWorker ==
  /\ pc \in {"idle", "addFinalizer"} \cup ApplyPath \cup DeletePath
  /\ obj \in CRs \cup {Nil}
  /\ (pc # "idle") => obj \in CRs
  /\ objCurrent \in BOOLEAN
  /\ next \in 1..(NExtras + 1)
  /\ snap \in BOOLEAN

TypeManaged ==
  /\ target \in Targets \cup {Nil}
  /\ extras \in [Extras -> Specs \cup {Nil}]
  /\ workload \in BOOLEAN
  /\ pvc \in BOOLEAN

TypeBudgets ==
  /\ creates \in Nat
  /\ edits \in Nat
  /\ faults \in Nat
  /\ drifts \in Nat

\* Every variable holds what it should; a running Reconcile holds a CR.
TypeOK == TypeServer /\ TypeWorker /\ TypeManaged /\ TypeBudgets

Init ==
  /\ cr = Nil /\ installed = Installed
  /\ cache = Nil /\ cacheCurrent = TRUE
  /\ queued = FALSE /\ timer = "none"
  /\ pc = "idle" /\ obj = Nil /\ objCurrent = FALSE
  /\ next = 1 /\ snap = FALSE
  /\ target = Nil /\ extras = [e \in Extras |-> Nil]
  /\ workload = FALSE /\ pvc = FALSE
  /\ creates = 0 /\ edits = 0 /\ faults = 0 /\ drifts = 0

(***************************************************************************)
(* Helpers                                                                 *)
(***************************************************************************)

\* A typed object marshals an explicit FALSE as absent (omitempty/omitzero)
\* and the API server then fills in the field's default, TRUE.
RoundTripUndefaulted(spec) == [spec EXCEPT !.mon = Nil] \* mutant: stays absent
RoundTrip(spec) == IF OmitsZero THEN [spec EXCEPT !.mon = TRUE] ELSE spec

\* What the adapter's ExtraResources asks for extra e.
Desired(spec, e) == IF e \in Optional /\ ~spec.mon THEN Nil ELSE spec

Live(t) == t # Nil /\ ~t.del

\* The first call a Reconcile of the cached copy c makes.
FirstStepUnguarded(c) == \* mutant: applies before the finalizer is there
  IF c.del THEN "deleteTarget" ELSE "applyTarget"
FirstStepReplacing(c) == \* mutant: an edit deletes the target to replace it
  CASE c.del \/ (c.fin /\ c.obs \in 1..(c.gen - 1)) -> "deleteTarget"
    [] ~c.fin -> "addFinalizer"
    [] OTHER -> "applyTarget"
FirstStep(c) ==
  CASE c.del -> "deleteTarget"
    [] ~c.del /\ ~c.fin -> "addFinalizer"
    [] OTHER -> "applyTarget"

\* RequeueAfter: 15 seconds while the target is not ready, 5 minutes once it
\* is; an earlier pending one is kept.
PollNotWhenReady(ready) == IF ready THEN timer ELSE "fast" \* mutant: no slow poll
Poll(ready) == IF ready /\ timer # "fast" THEN "slow" ELSE "fast"

\* The API server stores a new version of the CR: every copy is now old.
Write(new) ==
  /\ cr' = new
  /\ cacheCurrent' = FALSE
  /\ objCurrent' = FALSE
  /\ UNCHANGED installed

\* A full Update of the CR sent from the worker's typed copy.
Updated(fin) ==
  LET spec == RoundTrip(obj.spec)
      gen  == IF spec = obj.spec THEN obj.gen ELSE obj.gen + 1
  IN  [obj EXCEPT !.spec = spec, !.fin = fin, !.gen = gen]

\* Reconcile returns; its locals are gone.
Return ==
  /\ pc' = "idle"
  /\ obj' = Nil
  /\ next' = 1
  /\ snap' = FALSE

\* Reconcile returns an error: the key is queued again, rate-limited.
Fail ==
  /\ Return
  /\ objCurrent' = FALSE
  /\ queued' = TRUE
  /\ UNCHANGED timer

Fault ==
  /\ faults < MaxFaults
  /\ faults' = faults + 1

\* The call took effect: its response arrives and Reconcile goes on to step p
\* with extra e, or it is lost and Reconcile returns the error.
Proceed(p, e, s) ==
  \/ /\ pc' = p /\ next' = e /\ snap' = s
     /\ UNCHANGED <<obj, objCurrent, queue, faults>>
  \/ Fault /\ Fail

(***************************************************************************)
(* The user, and the owner of a foreign finalizer                          *)
(***************************************************************************)

UserCreate(spec, other) ==
  /\ cr = Nil
  /\ creates < MaxCreates
  /\ creates' = creates + 1
  /\ Write([spec |-> spec, gen |-> 1, fin |-> FALSE, other |-> other,
            del |-> FALSE, obs |-> 0, ready |-> FALSE])
  /\ UNCHANGED <<cache, queue, pc, obj, next, snap, managed, edits, faults, drifts>>

\* A patch or kubectl apply: the JSON the user wrote, no typed round trip.
UserEdit(spec) ==
  /\ cr # Nil
  /\ edits < MaxEdits
  /\ edits' = edits + 1
  /\ spec # cr.spec
  /\ Write([cr EXCEPT !.spec = spec, !.gen = @ + 1])
  /\ UNCHANGED <<cache, queue, pc, obj, next, snap, managed, creates, faults, drifts>>

UserDelete ==
  /\ cr # Nil
  /\ ~cr.del
  /\ Write(IF cr.fin \/ cr.other THEN [cr EXCEPT !.del = TRUE, !.gen = @ + 1] ELSE Nil)
  /\ UNCHANGED <<cache, queue, pc, obj, next, snap, managed, budgets>>

ForeignRelease ==
  /\ cr # Nil
  /\ cr.del
  /\ cr.other
  /\ Write(IF cr.fin THEN [cr EXCEPT !.other = FALSE] ELSE Nil)
  /\ UNCHANGED <<cache, queue, pc, obj, next, snap, managed, budgets>>

(***************************************************************************)
(* Informer and work queue                                                 *)
(***************************************************************************)

\* A watch event brings the cache up to date and enqueues the key.
CacheSync ==
  /\ ~cacheCurrent
  /\ cache' = cr
  /\ cacheCurrent' = TRUE
  /\ queued' = TRUE
  /\ UNCHANGED <<cr, installed, timer, worker, managed, budgets>>

TimerFires ==
  /\ timer # "none"
  /\ timer' = "none"
  /\ queued' = TRUE
  /\ UNCHANGED <<server, cache, worker, managed, budgets>>

(***************************************************************************)
(* Reconcile                                                               *)
(***************************************************************************)

\* The worker takes the key and reads the CR from the cache.
StartReconcile ==
  /\ pc = "idle"
  /\ queued
  /\ queued' = FALSE
  /\ IF cache = Nil \/ (cache.del /\ ~cache.fin)
     THEN UNCHANGED worker
     ELSE /\ pc' = FirstStep(cache)
          /\ obj' = cache
          /\ objCurrent' = cacheCurrent
          /\ UNCHANGED <<next, snap>>
  /\ UNCHANGED <<server, cache, timer, managed, budgets>>

AddFinalizer ==
  /\ pc = "addFinalizer"
  /\ objCurrent
  /\ Write(Updated(TRUE))
  /\ Return
  /\ queued' = TRUE
  /\ UNCHANGED <<cache, timer, managed, budgets>>

\* The server answers a Server-Side Apply with the merged object, status
\* included; a terminating target is merged into, not revived.
ApplyTarget ==
  /\ pc = "applyTarget"
  /\ target' = IF target = Nil
               THEN [spec |-> obj.spec, ready |-> FALSE, del |-> FALSE]
               ELSE [target EXCEPT !.spec = obj.spec]
  /\ Proceed("applyExtras", 1, target # Nil /\ target.ready)
  /\ UNCHANGED <<server, cache, extras, storage, creates, edits, drifts>>

ApplyExtraUnpruned == \* mutant: an unwanted extra is skipped, not deleted
  /\ pc = "applyExtras"
  /\ next \in installed
  /\ extras' = [extras EXCEPT ![next] =
                  IF Desired(obj.spec, next) = Nil THEN @ ELSE obj.spec]
  /\ Proceed(pc, next + 1, snap)
  /\ UNCHANGED <<server, cache, target, storage, creates, edits, drifts>>

ApplyExtra ==
  /\ pc = "applyExtras"
  /\ next \in installed
  /\ extras' = [extras EXCEPT ![next] = Desired(obj.spec, next)]
  /\ Proceed(pc, next + 1, snap)
  /\ UNCHANGED <<server, cache, target, storage, creates, edits, drifts>>

UpdateStatusRefetched == \* mutant: writes onto a fresh read of the CR
  /\ pc = "applyExtras"
  /\ next = NExtras + 1
  /\ cr # Nil
  /\ Write([cr EXCEPT !.obs = cr.gen, !.ready = snap])
  /\ Return
  /\ timer' = Poll(snap)
  /\ UNCHANGED <<queued, cache, managed, budgets>>

\* A status update that changes nothing is not stored.
UpdateStatus ==
  /\ pc = "applyExtras"
  /\ next = NExtras + 1
  /\ objCurrent
  /\ LET new == [obj EXCEPT !.obs = obj.gen, !.ready = snap] IN
     IF new = obj
     THEN objCurrent' = FALSE /\ UNCHANGED server
     ELSE Write(new)
  /\ Return
  /\ timer' = Poll(snap)
  /\ UNCHANGED <<queued, cache, managed, budgets>>

DeleteTargetSkipped == \* mutant: the delete's error is ignored
  /\ pc = "deleteTarget"
  /\ Proceed("deleteExtras", 1, snap)
  /\ UNCHANGED <<server, cache, managed, creates, edits, drifts>>

DeleteTarget ==
  /\ pc = "deleteTarget"
  /\ target' = IF target # Nil /\ VendorFinalizers
               THEN [target EXCEPT !.del = TRUE]
               ELSE Nil
  /\ Proceed("deleteExtras", 1, snap)
  /\ UNCHANGED <<server, cache, extras, storage, creates, edits, drifts>>

DeleteExtraWanted == \* mutant: deletes only the extras the spec now wants
  /\ pc = "deleteExtras"
  /\ next \in installed
  /\ extras' = [extras EXCEPT ![next] =
                  IF Desired(obj.spec, next) = Nil THEN @ ELSE Nil]
  /\ Proceed(pc, next + 1, snap)
  /\ UNCHANGED <<server, cache, target, storage, creates, edits, drifts>>

DeleteExtra ==
  /\ pc = "deleteExtras"
  /\ next \in installed
  /\ extras' = [extras EXCEPT ![next] = Nil]
  /\ Proceed(pc, next + 1, snap)
  /\ UNCHANGED <<server, cache, target, storage, creates, edits, drifts>>

DeletePVCs ==
  /\ pc = "deleteExtras"
  /\ next = NExtras + 1
  /\ pvc' = (pvc /\ ~HasPVCs)
  /\ Proceed("removeFinalizer", next, snap)
  /\ UNCHANGED <<server, cache, target, extras, workload, creates, edits, drifts>>

\* The CR goes away with its last finalizer.
RemoveFinalizer ==
  /\ pc = "removeFinalizer"
  /\ objCurrent
  /\ Write(IF obj.other THEN Updated(FALSE) ELSE Nil)
  /\ Return
  /\ UNCHANGED <<queue, cache, managed, budgets>>

\* A write from a copy that is no longer the server's version is refused.
Conflict ==
  /\ ~objCurrent
  /\ \/ pc \in {"addFinalizer", "removeFinalizer"}
     \/ pc = "applyExtras" /\ next = NExtras + 1
  /\ Fail
  /\ UNCHANGED <<server, cache, managed, budgets>>

\* A call about a kind the API server does not know fails, deletes included.
UnknownKind ==
  /\ pc \in {"applyExtras", "deleteExtras"}
  /\ next \in Extras \ installed
  /\ Fail
  /\ UNCHANGED <<server, cache, managed, budgets>>

CallFailsQuietly == \* mutant: the error is logged and not returned
  /\ pc # "idle"
  /\ Fault
  /\ Return
  /\ objCurrent' = FALSE
  /\ UNCHANGED <<server, cache, queue, managed, creates, edits, drifts>>

\* Any call (reads of the target included) may fail without effect.
CallFails ==
  /\ pc # "idle"
  /\ Fault
  /\ Fail
  /\ UNCHANGED <<server, cache, managed, creates, edits, drifts>>

\* The process dies and its successor lists the CRs before it starts work.
Restart ==
  /\ Fault
  /\ Return
  /\ objCurrent' = FALSE
  /\ cache' = cr
  /\ cacheCurrent' = TRUE
  /\ queued' = (cr # Nil)
  /\ timer' = "none"
  /\ UNCHANGED <<cr, installed, managed, creates, edits, drifts>>

(***************************************************************************)
(* The vendor operator, Kubernetes' own controllers, and outside hands     *)
(***************************************************************************)

\* The vendor operator that brings the extra's kind is installed.
InstallKind(e) ==
  /\ e \notin installed
  /\ installed' = installed \cup {e}
  /\ UNCHANGED <<cr, cache, cacheCurrent, queue, worker, managed, budgets>>

VendorReports ==
  /\ target # Nil
  /\ target' = [target EXCEPT !.ready = ~@]
  /\ UNCHANGED <<server, cache, queue, worker, extras, storage, budgets>>

VendorFinalizes ==
  /\ target # Nil
  /\ target.del
  /\ target' = Nil
  /\ UNCHANGED <<server, cache, queue, worker, extras, storage, budgets>>

VendorDeploys ==
  /\ HasPVCs
  /\ Live(target)
  /\ ~workload
  /\ workload' = TRUE
  /\ UNCHANGED <<server, cache, queue, worker, target, extras, pvc, budgets>>

\* The StatefulSet controller creates a claim for a replica it starts.
WorkloadClaims ==
  /\ workload
  /\ ~pvc
  /\ pvc' = TRUE
  /\ UNCHANGED <<server, cache, queue, worker, target, extras, workload, budgets>>

\* Garbage collection follows the target's disappearance.
WorkloadCollected ==
  /\ workload
  /\ target = Nil
  /\ workload' = FALSE
  /\ UNCHANGED <<server, cache, queue, worker, target, extras, pvc, budgets>>

Drift ==
  /\ drifts < MaxDrifts
  /\ drifts' = drifts + 1
  /\ \/ target # Nil /\ target' = Nil /\ UNCHANGED extras
     \/ \E e \in Extras :
          /\ extras[e] # Nil
          /\ extras' = [extras EXCEPT ![e] = Nil]
          /\ UNCHANGED target
  /\ UNCHANGED <<server, cache, queue, worker, storage, creates, edits, faults>>

(***************************************************************************)
(* Specification                                                           *)
(***************************************************************************)

Reconcile ==
  \/ StartReconcile \/ AddFinalizer
  \/ ApplyTarget \/ ApplyExtra \/ UpdateStatus
  \/ DeleteTarget \/ DeleteExtra \/ DeletePVCs \/ RemoveFinalizer
  \/ Conflict \/ UnknownKind

User ==
  \/ \E spec \in Specs : \/ UserEdit(spec)
                         \/ \E other \in {FALSE, ForeignFinalizer} : UserCreate(spec, other)
  \/ UserDelete

Vendor ==
  \/ VendorReports \/ VendorFinalizes \/ VendorDeploys
  \/ \E e \in Extras : InstallKind(e)

Cluster == ForeignRelease \/ WorkloadClaims \/ WorkloadCollected \/ Drift

Next == User \/ Reconcile \/ CacheSync \/ TimerFires \/ CallFails \/ Restart
        \/ Vendor \/ Cluster

\* The worker goroutine, the informer and the delaying queue keep running;
\* nothing is assumed of users, vendors and outside hands, except that a
\* terminating target is eventually finalized.
Fairness ==
  /\ WF_vars(Reconcile)
  /\ WF_vars(CacheSync)
  /\ WF_vars(TimerFires)
  /\ WF_vars(VendorFinalizes)

Spec == Init /\ [][Next]_vars /\ Fairness

-----------------------------------------------------------------------------
(***************************************************************************)
(* Safety                                                                  *)
(***************************************************************************)

\* Something the operator made is in the cluster and was not deleted.
Owns == Live(target) \/ \E e \in Extras : extras[e] # Nil

\* Whatever the operator created is covered by a CR that carries its
\* finalizer (reconciler.go:45-46, 273-281): no interleaving of stale reads,
\* lost responses, restarts, deletions and re-creations leaves an orphan.
NoOrphan == Owns => cr # Nil /\ cr.fin

\* A Reconcile on the deletion path never deletes the objects of a CR nobody
\* is deleting, even when it works from a cached copy of an earlier CR of
\* the same name (objects are deleted by name, reconciler.go:361-374).
TeardownJustified == pc \in DeletePath /\ Owns => cr # Nil /\ cr.del

\* When the status says the current generation was observed, the target and
\* every extra carry that very spec, the pruned extras included: an apply
\* from a stale copy never passes for the current one (reconciler.go:300-327).
ObservedIsApplied ==
  cr # Nil /\ cr.obs = cr.gen =>
    /\ target # Nil => target.spec = cr.spec
    /\ \A e \in Extras : extras[e] \in {Nil, Desired(cr.spec, e)}

\* The key is never forgotten: while the worker is idle and its cache is
\* current, a CR to tear down is queued, and any other is queued or polled,
\* quickly unless its status says ready (reconciler.go:329-333).
NoLostWakeup ==
  pc = "idle" /\ cacheCurrent /\ cr # Nil =>
    /\ cr.del /\ cr.fin => queued
    /\ ~cr.del => queued \/ timer = "fast" \/ (timer = "slow" /\ cr.ready)

\* A workload that is to stay keeps its data: volume claims are never deleted
\* under a live target, nor under a CR in force, not even by a second teardown
\* that runs from the cached copy of an earlier CR (reconciler.go:238-258,
\* 441-451).
StorageSpared ==
  [][pvc /\ ~pvc' => ~Live(target) /\ (cr # Nil /\ cr.fin => cr.del)]_vars

\* The loop implements the finalizer protocol it stands for.
Gate == INSTANCE FinalizerGate WITH
          Objects <- Extras \cup {0},
          exists  <- cr # Nil,
          guarded <- cr # Nil /\ cr.fin,
          leaving <- cr # Nil /\ cr.del,
          owned   <- {e \in Extras : extras[e] # Nil}
                       \cup (IF Live(target) THEN {0} ELSE {})
ImplementsGate == Gate!Spec

(***************************************************************************)
(* Liveness                                                                *)
(***************************************************************************)

\* A deletion request is carried out: the operator lets go of the CR.
DeletionCompletes ==
  cr # Nil /\ cr.del /\ cr.fin ~> cr = Nil \/ ~cr.fin

\* The objects of a CR that is left alone end up as its spec asks, and its
\* status says so.
Applied ==
  /\ cr.obs = cr.gen
  /\ target # Nil /\ target.spec = cr.spec
  /\ \A e \in Extras : extras[e] = Desired(cr.spec, e)
Converges == <>[](cr # Nil /\ ~cr.del) => <>[](cr # Nil /\ Applied)

\* Polling makes up for the missing watch on the target (reconciler.go:204-208):
\* a readiness that lasts is mirrored, whichever it is.
StatusFollows ==
  \A ready \in BOOLEAN :
    <>[](cr # Nil /\ ~cr.del /\ target # Nil /\ target.ready = ready)
      => <>[](cr # Nil /\ cr.ready = ready)

(***************************************************************************)
(* What the repository says and the loop does not do                       *)
(***************************************************************************)

\* Nobody but the user changes what the user asked for: the CR's spec is the
\* single source of truth (valkey.go:183-187). The typed Update that adds the
\* finalizer does (reconciler.go:276-277).
SpecIsUsers ==
  [][cr # Nil /\ cr' # Nil /\ cr'.spec # cr.spec => \E spec \in Specs : UserEdit(spec)]_vars

\* The CR is released only once its target is gone (reconciler.go:45-46). The
\* delete call merely starts the target's deletion (reconciler.go:361-374).
TargetGoneFirst == target # Nil => cr # Nil

\* Only enabled monitoring needs the monitoring kinds (postgrescluster_types.go:
\* 84-91). Deleting an extra of an unknown kind fails (reconciler.go:501-511).
DisabledNeedsNoKind ==
  cr # Nil /\ cr.del /\ cr.fin /\ ~cr.spec.mon ~> cr = Nil \/ ~cr.fin

=============================================================================
