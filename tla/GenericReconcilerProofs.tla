---------------------- MODULE GenericReconcilerProofs ----------------------
(***************************************************************************)
(* Theorems about GenericReconciler, for every value of its constants.     *)
(***************************************************************************)
EXTENDS GenericReconciler, TLAPS

(***************************************************************************)
(* Type correctness                                                        *)
(***************************************************************************)

\* A typed round trip of a spec is a spec.
LEMMA RoundTripType ==
  ASSUME NEW spec \in Specs
  PROVE  RoundTrip(spec) \in Specs
BY DEF RoundTrip, Specs

\* The object a full Update sends is a CR, with the finalizer it was built with.
LEMMA UpdatedType ==
  ASSUME obj \in CRs, NEW f \in BOOLEAN
  PROVE  /\ Updated(f) \in CRs
         /\ Updated(f).fin = f
         /\ Updated(f).del = obj.del
<1>1. PICK s \in Specs : s = RoundTrip(obj.spec)
  BY RoundTripType DEF CRs
<1>2. PICK g \in Nat : g = IF s = obj.spec THEN obj.gen ELSE obj.gen + 1
  BY DEF CRs
<1>3. Updated(f) = [obj EXCEPT !.spec = s, !.fin = f, !.gen = g]
  BY <1>1, <1>2 DEF Updated
<1>4. QED
  BY <1>3 DEF CRs

\* An edited CR and one whose deletion was requested are CRs.
LEMMA EditedType ==
  ASSUME NEW c \in CRs, NEW spec \in Specs
  PROVE  /\ [c EXCEPT !.spec = spec, !.gen = @ + 1] \in CRs
         /\ [c EXCEPT !.del = TRUE, !.gen = @ + 1] \in CRs
<1>1. PICK g \in Nat : g = c.gen + 1
  BY DEF CRs
<1>2. [c EXCEPT !.spec = spec, !.gen = g] \in CRs
  BY DEF CRs
<1>3. [c EXCEPT !.del = TRUE, !.gen = g] \in CRs
  BY DEF CRs
<1>4. QED
  BY <1>1, <1>2, <1>3

\* The fields of a CR have their types.
LEMMA CRFields ==
  ASSUME NEW c \in CRs
  PROVE  /\ c.spec \in Specs /\ c.gen \in Nat /\ c.obs \in Nat
         /\ {c.fin, c.other, c.del, c.ready} \subseteq BOOLEAN
         /\ c # Nil
BY NilAssumption DEF CRs

LEMMA DesiredType ==
  ASSUME NEW spec \in Specs, NEW e \in Extras
  PROVE  Desired(spec, e) \in Specs \cup {Nil}
BY DEF Desired

\* A Reconcile that fails leaves well-typed variables behind.
LEMMA FailType ==
  ASSUME TypeOK, Fail
  PROVE  TypeWorker' /\ queued' \in BOOLEAN /\ timer' = timer
<1>1. 1 \in 1..(NExtras + 1)
  BY ConstAssumption
<1>2. QED
  BY <1>1 DEF TypeOK, TypeWorker, Fail, Return

\* So does a call that took effect, whether or not its response arrives.
LEMMA ProceedType ==
  ASSUME TypeOK, NEW p \in ApplyPath \cup DeletePath, pc # "idle",
         NEW e \in 1..(NExtras + 1), NEW s \in BOOLEAN, Proceed(p, e, s)
  PROVE  /\ TypeWorker'
         /\ queued' \in BOOLEAN /\ timer' = timer
         /\ faults' \in Nat
<1>1. CASE pc' = p /\ next' = e /\ snap' = s /\ UNCHANGED <<obj, objCurrent, queue, faults>>
  <2>1. TypeWorker'
    BY <1>1 DEF TypeOK, TypeWorker
  <2>2. queued' \in BOOLEAN /\ timer' = timer /\ faults' \in Nat
    BY <1>1 DEF TypeOK, TypeServer, TypeBudgets, queue
  <2>3. QED
    BY <2>1, <2>2
<1>2. CASE Fault /\ Fail
  <2>1. faults' \in Nat
    BY <1>2 DEF TypeOK, TypeBudgets, Fault
  <2>2. QED
    BY <1>2, <2>1, FailType
<1>3. QED
  BY <1>1, <1>2 DEF Proceed

\* A write of a CR, or of its absence, leaves a well-typed server.
LEMMA WriteType ==
  ASSUME NEW new \in CRs \cup {Nil}, Write(new), TypeOK
  PROVE  cr' \in CRs \cup {Nil} /\ cacheCurrent' = FALSE /\ objCurrent' = FALSE
BY DEF Write

(***************************************************************************)
(* TypeOK is preserved, actor by actor.                                    *)
(***************************************************************************)

\* Writes of the user and of a foreign finalizer's owner.
LEMMA TypeUser ==
  ASSUME TypeOK, User \/ ForeignRelease
  PROVE  TypeOK'
<1>1. ASSUME NEW spec \in Specs, NEW other \in BOOLEAN, UserCreate(spec, other)
      PROVE  TypeOK'
  <2>1. TypeServer'
    BY <1>1 DEF UserCreate, TypeOK, TypeServer, Write, CRs, queue
  <2>2. TypeWorker'
    BY <1>1 DEF UserCreate, TypeOK, TypeWorker, Write
  <2>3. TypeManaged'
    BY <1>1 DEF UserCreate, TypeOK, TypeManaged, managed
  <2>4. TypeBudgets'
    BY <1>1 DEF UserCreate, TypeOK, TypeBudgets, budgets
  <2>5. QED
    BY <2>1, <2>2, <2>3, <2>4 DEF TypeOK
<1>2. ASSUME NEW spec \in Specs, UserEdit(spec)
      PROVE  TypeOK'
  <2>1. TypeServer'
    BY <1>2, EditedType DEF UserEdit, TypeOK, TypeServer, Write, queue
  <2>2. TypeWorker'
    BY <1>2 DEF UserEdit, TypeOK, TypeWorker, Write
  <2>3. TypeManaged'
    BY <1>2 DEF UserEdit, TypeOK, TypeManaged, managed
  <2>4. TypeBudgets'
    BY <1>2 DEF UserEdit, TypeOK, TypeBudgets, budgets
  <2>5. QED
    BY <2>1, <2>2, <2>3, <2>4 DEF TypeOK
<1>3. CASE UserDelete
  <2>1. TypeServer'
    <3>1. cr \in CRs
      BY <1>3 DEF UserDelete, TypeOK, TypeServer
    <3>2. [cr EXCEPT !.del = TRUE, !.gen = @ + 1] \in CRs
      BY <3>1, EditedType DEF CRs
    <3>3. QED
      BY <1>3, <3>2 DEF UserDelete, TypeOK, TypeServer, Write, queue
  <2>2. TypeWorker'
    BY <1>3 DEF UserDelete, TypeOK, TypeWorker, Write
  <2>3. TypeManaged'
    BY <1>3 DEF UserDelete, TypeOK, TypeManaged, managed
  <2>4. TypeBudgets'
    BY <1>3 DEF UserDelete, TypeOK, TypeBudgets, budgets
  <2>5. QED
    BY <2>1, <2>2, <2>3, <2>4 DEF TypeOK
<1>4. CASE ForeignRelease
  <2>1. TypeServer'
    BY <1>4 DEF ForeignRelease, TypeOK, TypeServer, Write, CRs, queue
  <2>2. TypeWorker'
    BY <1>4 DEF ForeignRelease, TypeOK, TypeWorker, Write
  <2>3. TypeManaged'
    BY <1>4 DEF ForeignRelease, TypeOK, TypeManaged, managed
  <2>4. TypeBudgets'
    BY <1>4 DEF ForeignRelease, TypeOK, TypeBudgets, budgets
  <2>5. QED
    BY <2>1, <2>2, <2>3, <2>4 DEF TypeOK
<1>5. QED
  BY <1>1, <1>2, <1>3, <1>4, ConstAssumption DEF User

\* Deliveries of the informer and of the delaying queue.
LEMMA TypeDelivery ==
  ASSUME TypeOK, CacheSync \/ TimerFires
  PROVE  TypeOK'
<1>1. CASE CacheSync
  <2>1. TypeServer'
    BY <1>1 DEF CacheSync, TypeOK, TypeServer
  <2>2. TypeWorker'
    BY <1>1 DEF CacheSync, TypeOK, TypeWorker, worker
  <2>3. TypeManaged'
    BY <1>1 DEF CacheSync, TypeOK, TypeManaged, managed
  <2>4. TypeBudgets'
    BY <1>1 DEF CacheSync, TypeOK, TypeBudgets, budgets
  <2>5. QED
    BY <2>1, <2>2, <2>3, <2>4 DEF TypeOK
<1>2. CASE TimerFires
  <2>1. TypeServer'
    BY <1>2 DEF TimerFires, TypeOK, TypeServer, server
  <2>2. TypeWorker'
    BY <1>2 DEF TimerFires, TypeOK, TypeWorker, worker
  <2>3. TypeManaged'
    BY <1>2 DEF TimerFires, TypeOK, TypeManaged, managed
  <2>4. TypeBudgets'
    BY <1>2 DEF TimerFires, TypeOK, TypeBudgets, budgets
  <2>5. QED
    BY <2>1, <2>2, <2>3, <2>4 DEF TypeOK
<1>3. QED
  BY <1>1, <1>2 DEF TypeOK

\* Steps of the vendor operator, of Kubernetes, and of outside hands.
LEMMA TypeCluster ==
  ASSUME TypeOK, Vendor \/ WorkloadClaims \/ WorkloadCollected \/ Drift
  PROVE  TypeOK'
<1>1. CASE VendorReports
  <2>1. TypeServer'
    BY <1>1 DEF VendorReports, TypeOK, TypeServer, server, queue
  <2>2. TypeWorker'
    BY <1>1 DEF VendorReports, TypeOK, TypeWorker, worker
  <2>3. TypeManaged'
    BY <1>1 DEF VendorReports, TypeOK, TypeManaged, storage, Targets
  <2>4. TypeBudgets'
    BY <1>1 DEF VendorReports, TypeOK, TypeBudgets, budgets
  <2>5. QED
    BY <2>1, <2>2, <2>3, <2>4 DEF TypeOK
<1>2. CASE VendorFinalizes
  <2>1. TypeServer'
    BY <1>2 DEF VendorFinalizes, TypeOK, TypeServer, server, queue
  <2>2. TypeWorker'
    BY <1>2 DEF VendorFinalizes, TypeOK, TypeWorker, worker
  <2>3. TypeManaged'
    BY <1>2 DEF VendorFinalizes, TypeOK, TypeManaged, storage, Targets
  <2>4. TypeBudgets'
    BY <1>2 DEF VendorFinalizes, TypeOK, TypeBudgets, budgets
  <2>5. QED
    BY <2>1, <2>2, <2>3, <2>4 DEF TypeOK
<1>3. CASE VendorDeploys
  <2>1. TypeServer'
    BY <1>3 DEF VendorDeploys, TypeOK, TypeServer, server, queue
  <2>2. TypeWorker'
    BY <1>3 DEF VendorDeploys, TypeOK, TypeWorker, worker
  <2>3. TypeManaged'
    BY <1>3 DEF VendorDeploys, TypeOK, TypeManaged, storage, Targets
  <2>4. TypeBudgets'
    BY <1>3 DEF VendorDeploys, TypeOK, TypeBudgets, budgets
  <2>5. QED
    BY <2>1, <2>2, <2>3, <2>4 DEF TypeOK
<1>4. CASE WorkloadClaims
  <2>1. TypeServer'
    BY <1>4 DEF WorkloadClaims, TypeOK, TypeServer, server, queue
  <2>2. TypeWorker'
    BY <1>4 DEF WorkloadClaims, TypeOK, TypeWorker, worker
  <2>3. TypeManaged'
    BY <1>4 DEF WorkloadClaims, TypeOK, TypeManaged, storage, Targets
  <2>4. TypeBudgets'
    BY <1>4 DEF WorkloadClaims, TypeOK, TypeBudgets, budgets
  <2>5. QED
    BY <2>1, <2>2, <2>3, <2>4 DEF TypeOK
<1>5. CASE WorkloadCollected
  <2>1. TypeServer'
    BY <1>5 DEF WorkloadCollected, TypeOK, TypeServer, server, queue
  <2>2. TypeWorker'
    BY <1>5 DEF WorkloadCollected, TypeOK, TypeWorker, worker
  <2>3. TypeManaged'
    BY <1>5 DEF WorkloadCollected, TypeOK, TypeManaged, storage, Targets
  <2>4. TypeBudgets'
    BY <1>5 DEF WorkloadCollected, TypeOK, TypeBudgets, budgets
  <2>5. QED
    BY <2>1, <2>2, <2>3, <2>4 DEF TypeOK
<1>6. CASE Drift
  <2>1. TypeServer'
    BY <1>6 DEF Drift, TypeOK, TypeServer, server, queue
  <2>2. TypeWorker'
    BY <1>6 DEF Drift, TypeOK, TypeWorker, worker
  <2>3. TypeManaged'
    BY <1>6 DEF Drift, TypeOK, TypeManaged, storage, Targets
  <2>4. TypeBudgets'
    BY <1>6 DEF Drift, TypeOK, TypeBudgets, budgets
  <2>5. QED
    BY <2>1, <2>2, <2>3, <2>4 DEF TypeOK
<1>7. ASSUME NEW e \in Extras, InstallKind(e)
      PROVE  TypeOK'
  <2>1. TypeServer'
    BY <1>7 DEF InstallKind, TypeOK, TypeServer, queue
  <2>2. TypeWorker'
    BY <1>7 DEF InstallKind, TypeOK, TypeWorker, worker
  <2>3. TypeManaged'
    BY <1>7 DEF InstallKind, TypeOK, TypeManaged, managed
  <2>4. TypeBudgets'
    BY <1>7 DEF InstallKind, TypeOK, TypeBudgets, budgets
  <2>5. QED
    BY <2>1, <2>2, <2>3, <2>4 DEF TypeOK
<1>8. QED
  BY <1>1, <1>2, <1>3, <1>4, <1>5, <1>6, <1>7 DEF Vendor

\* Steps of the worker, faults included.
LEMMA TypeReconcile ==
  ASSUME TypeOK, Reconcile \/ CallFails \/ Restart
  PROVE  TypeOK'
<1>0. 1 \in 1..(NExtras + 1)
  BY ConstAssumption
<1>1. CASE StartReconcile
  <2>1. TypeServer'
    BY <1>1 DEF StartReconcile, TypeOK, TypeServer, server
  <2>2. TypeWorker'
    BY <1>1 DEF StartReconcile, TypeOK, TypeWorker, FirstStep, worker, ApplyPath, DeletePath, TypeServer
  <2>3. TypeManaged'
    BY <1>1 DEF StartReconcile, TypeOK, TypeManaged, managed
  <2>4. TypeBudgets'
    BY <1>1 DEF StartReconcile, TypeOK, TypeBudgets, budgets
  <2>5. QED
    BY <2>1, <2>2, <2>3, <2>4 DEF TypeOK
<1>2. CASE AddFinalizer
  <2>0. Updated(TRUE) \in CRs
    BY <1>2, UpdatedType DEF AddFinalizer, TypeOK, TypeWorker
  <2>1. TypeServer'
    BY <1>2, <2>0 DEF AddFinalizer, TypeOK, TypeServer, Write
  <2>2. TypeWorker'
    BY <1>2, <1>0 DEF AddFinalizer, TypeOK, TypeWorker, Return, Write
  <2>3. TypeManaged'
    BY <1>2 DEF AddFinalizer, TypeOK, TypeManaged, managed
  <2>4. TypeBudgets'
    BY <1>2 DEF AddFinalizer, TypeOK, TypeBudgets, budgets
  <2>5. QED
    BY <2>1, <2>2, <2>3, <2>4 DEF TypeOK
<1>3. CASE ApplyTarget
  <2>0. PICK e \in 1..(NExtras + 1), s \in BOOLEAN : Proceed("applyExtras", e, s)
    BY <1>3, <1>0, ConstAssumption DEF ApplyTarget, TypeOK, TypeWorker, TypeManaged, Targets
  <2>1. TypeServer'
    BY <1>3, <2>0, ProceedType DEF ApplyTarget, TypeOK, TypeServer, server, ApplyPath, DeletePath
  <2>2. TypeWorker'
    BY <1>3, <2>0, ProceedType DEF ApplyTarget, ApplyPath, DeletePath
  <2>3. TypeManaged'
    BY <1>3 DEF ApplyTarget, TypeOK, TypeManaged, storage, Targets, TypeWorker, CRs, ApplyPath
  <2>4. TypeBudgets'
    BY <1>3, <2>0, ProceedType DEF ApplyTarget, TypeOK, TypeBudgets, ApplyPath, DeletePath
  <2>5. QED
    BY <2>1, <2>2, <2>3, <2>4 DEF TypeOK
<1>4. CASE ApplyExtra
  <2>0. PICK e \in 1..(NExtras + 1), s \in BOOLEAN : Proceed("applyExtras", e, s)
    BY <1>4, <1>0, ConstAssumption DEF ApplyExtra, TypeOK, TypeServer, TypeWorker, TypeManaged, Extras
  <2>1. TypeServer'
    BY <1>4, <2>0, ProceedType DEF ApplyExtra, TypeOK, TypeServer, server, ApplyPath, DeletePath
  <2>2. TypeWorker'
    BY <1>4, <2>0, ProceedType DEF ApplyExtra, ApplyPath, DeletePath
  <2>3. TypeManaged'
    BY <1>4, DesiredType, ConstAssumption DEF ApplyExtra, TypeOK, TypeManaged, storage, TypeWorker, CRs, Extras
  <2>4. TypeBudgets'
    BY <1>4, <2>0, ProceedType DEF ApplyExtra, TypeOK, TypeBudgets, ApplyPath, DeletePath
  <2>5. QED
    BY <2>1, <2>2, <2>3, <2>4 DEF TypeOK
<1>5. CASE UpdateStatus
  <2>0. [obj EXCEPT !.obs = obj.gen, !.ready = snap] \in CRs
    BY <1>5 DEF UpdateStatus, TypeOK, TypeWorker, CRs
  <2>1. TypeServer'
    BY <1>5, <2>0 DEF UpdateStatus, TypeOK, TypeServer, Write, Poll, server
  <2>2. TypeWorker'
    BY <1>5, <1>0 DEF UpdateStatus, TypeOK, TypeWorker, Return, Write
  <2>3. TypeManaged'
    BY <1>5 DEF UpdateStatus, TypeOK, TypeManaged, managed
  <2>4. TypeBudgets'
    BY <1>5 DEF UpdateStatus, TypeOK, TypeBudgets, budgets
  <2>5. QED
    BY <2>1, <2>2, <2>3, <2>4 DEF TypeOK
<1>6. CASE DeleteTarget
  <2>0. PICK e \in 1..(NExtras + 1), s \in BOOLEAN : Proceed("deleteExtras", e, s)
    BY <1>6, <1>0, ConstAssumption DEF DeleteTarget, TypeOK, TypeWorker, TypeManaged
  <2>1. TypeServer'
    BY <1>6, <2>0, ProceedType DEF DeleteTarget, TypeOK, TypeServer, server, ApplyPath, DeletePath
  <2>2. TypeWorker'
    BY <1>6, <2>0, ProceedType DEF DeleteTarget, ApplyPath, DeletePath
  <2>3. TypeManaged'
    BY <1>6 DEF DeleteTarget, TypeOK, TypeManaged, storage, Targets
  <2>4. TypeBudgets'
    BY <1>6, <2>0, ProceedType DEF DeleteTarget, TypeOK, TypeBudgets, ApplyPath, DeletePath
  <2>5. QED
    BY <2>1, <2>2, <2>3, <2>4 DEF TypeOK
<1>7. CASE DeleteExtra
  <2>0. PICK e \in 1..(NExtras + 1), s \in BOOLEAN : Proceed("deleteExtras", e, s)
    BY <1>7, <1>0, ConstAssumption DEF DeleteExtra, TypeOK, TypeServer, TypeWorker, TypeManaged, Extras
  <2>1. TypeServer'
    BY <1>7, <2>0, ProceedType DEF DeleteExtra, TypeOK, TypeServer, server, ApplyPath, DeletePath
  <2>2. TypeWorker'
    BY <1>7, <2>0, ProceedType DEF DeleteExtra, ApplyPath, DeletePath
  <2>3. TypeManaged'
    BY <1>7 DEF DeleteExtra, TypeOK, TypeManaged, storage
  <2>4. TypeBudgets'
    BY <1>7, <2>0, ProceedType DEF DeleteExtra, TypeOK, TypeBudgets, ApplyPath, DeletePath
  <2>5. QED
    BY <2>1, <2>2, <2>3, <2>4 DEF TypeOK
<1>8. CASE DeletePVCs
  <2>0. PICK e \in 1..(NExtras + 1), s \in BOOLEAN : Proceed("removeFinalizer", e, s)
    BY <1>8, <1>0, ConstAssumption DEF DeletePVCs, TypeOK, TypeWorker, TypeManaged, Extras
  <2>1. TypeServer'
    BY <1>8, <2>0, ProceedType DEF DeletePVCs, TypeOK, TypeServer, server, ApplyPath, DeletePath
  <2>2. TypeWorker'
    BY <1>8, <2>0, ProceedType DEF DeletePVCs, ApplyPath, DeletePath
  <2>3. TypeManaged'
    BY <1>8 DEF DeletePVCs, TypeOK, TypeManaged, storage
  <2>4. TypeBudgets'
    BY <1>8, <2>0, ProceedType DEF DeletePVCs, TypeOK, TypeBudgets, ApplyPath, DeletePath
  <2>5. QED
    BY <2>1, <2>2, <2>3, <2>4 DEF TypeOK
<1>9. CASE RemoveFinalizer
  <2>0. Updated(FALSE) \in CRs
    BY <1>9, UpdatedType DEF RemoveFinalizer, TypeOK, TypeWorker
  <2>1. TypeServer'
    BY <1>9, <2>0 DEF RemoveFinalizer, TypeOK, TypeServer, Write, queue
  <2>2. TypeWorker'
    BY <1>9, <1>0 DEF RemoveFinalizer, TypeOK, TypeWorker, Return, Write
  <2>3. TypeManaged'
    BY <1>9 DEF RemoveFinalizer, TypeOK, TypeManaged, managed
  <2>4. TypeBudgets'
    BY <1>9 DEF RemoveFinalizer, TypeOK, TypeBudgets, budgets
  <2>5. QED
    BY <2>1, <2>2, <2>3, <2>4 DEF TypeOK
<1>10. CASE Conflict
  <2>0. Fail
    BY <1>10 DEF Conflict
  <2>1. TypeServer'
    BY <1>10, <2>0, FailType DEF Conflict, TypeOK, TypeServer, server
  <2>2. TypeWorker'
    BY <2>0, FailType
  <2>3. TypeManaged'
    BY <1>10 DEF Conflict, TypeOK, TypeManaged, managed
  <2>4. TypeBudgets'
    BY <1>10 DEF Conflict, TypeOK, TypeBudgets, budgets
  <2>5. QED
    BY <2>1, <2>2, <2>3, <2>4 DEF TypeOK
<1>11. CASE UnknownKind
  <2>0. Fail
    BY <1>11 DEF UnknownKind
  <2>1. TypeServer'
    BY <1>11, <2>0, FailType DEF UnknownKind, TypeOK, TypeServer, server
  <2>2. TypeWorker'
    BY <2>0, FailType
  <2>3. TypeManaged'
    BY <1>11 DEF UnknownKind, TypeOK, TypeManaged, managed
  <2>4. TypeBudgets'
    BY <1>11 DEF UnknownKind, TypeOK, TypeBudgets, budgets
  <2>5. QED
    BY <2>1, <2>2, <2>3, <2>4 DEF TypeOK
<1>12. CASE CallFails
  <2>0. Fail
    BY <1>12 DEF CallFails
  <2>1. TypeServer'
    BY <1>12, <2>0, FailType DEF CallFails, TypeOK, TypeServer, server
  <2>2. TypeWorker'
    BY <2>0, FailType
  <2>3. TypeManaged'
    BY <1>12 DEF CallFails, TypeOK, TypeManaged, managed
  <2>4. TypeBudgets'
    BY <1>12 DEF CallFails, TypeOK, TypeBudgets, Fault
  <2>5. QED
    BY <2>1, <2>2, <2>3, <2>4 DEF TypeOK
<1>13. CASE Restart
  <2>1. TypeServer'
    BY <1>13 DEF Restart, TypeOK, TypeServer
  <2>2. TypeWorker'
    BY <1>13, <1>0 DEF Restart, TypeOK, TypeWorker, Return, Write
  <2>3. TypeManaged'
    BY <1>13 DEF Restart, TypeOK, TypeManaged, managed
  <2>4. TypeBudgets'
    BY <1>13 DEF Restart, TypeOK, TypeBudgets, Fault
  <2>5. QED
    BY <2>1, <2>2, <2>3, <2>4 DEF TypeOK
<1>14. QED
  BY <1>1, <1>2, <1>3, <1>4, <1>5, <1>6, <1>7, <1>8, <1>9, <1>10, <1>11, <1>12, <1>13
     DEF Reconcile

\* Type correctness: every variable keeps its type, and a running Reconcile
\* always holds the CR it read (reconciler.go:219-334).
THEOREM TypeCorrect == Spec => []TypeOK
<1>1. Init => TypeOK
  <2> SUFFICES ASSUME Init PROVE TypeOK
    OBVIOUS
  <2>1. TypeServer
    BY ConstAssumption DEF Init, TypeServer
  <2>2. TypeWorker
    <3>1. 1 \in 1..(NExtras + 1)
      BY ConstAssumption
    <3>2. QED
      BY <3>1 DEF Init, TypeWorker
  <2>3. TypeManaged /\ TypeBudgets
    BY DEF Init, TypeManaged, TypeBudgets
  <2>4. QED
    BY <2>1, <2>2, <2>3 DEF TypeOK
<1>2. TypeOK /\ [Next]_vars => TypeOK'
  <2> SUFFICES ASSUME TypeOK, [Next]_vars PROVE TypeOK'
    OBVIOUS
  <2>1. CASE Next
    BY <2>1, TypeUser, TypeDelivery, TypeCluster, TypeReconcile DEF Next, Cluster
  <2>2. CASE UNCHANGED vars
    BY <2>2 DEF vars, TypeOK, TypeServer, TypeWorker, TypeManaged, TypeBudgets
  <2>3. QED
    BY <2>1, <2>2
<1>3. QED
  BY <1>1, <1>2, PTL DEF Spec

(***************************************************************************)
(* The finalizer gate                                                      *)
(*                                                                         *)
(* NoOrphan is not inductive: it says nothing of what a Reconcile in       *)
(* flight, or the cache a later one will read, is about to do. What makes  *)
(* it so is that a copy flagged current is the server's (Copies), that a   *)
(* cached CR in force is still guarded on the server and a cached one that *)
(* is leaving has no successor in force (CacheGuard), and that each step   *)
(* of a Reconcile finds the server as the step before left it (Progress).  *)
(***************************************************************************)

Guarded == cr # Nil /\ cr.fin
InForce == Guarded /\ ~cr.del

Copies ==
  /\ cacheCurrent => cache = cr
  /\ objCurrent => obj = cr /\ cacheCurrent

CacheGuard ==
  cache # Nil /\ cache.fin => /\ ~cache.del => Guarded
                              /\ cache.del => ~InForce

Progress ==
  /\ pc = "addFinalizer" => ~obj.fin
  /\ pc \in ApplyPath => Guarded
  /\ pc \in DeletePath => obj.del /\ ~InForce
  /\ pc = "deleteExtras" =>
       ~Live(target) /\ \A e \in Extras : e < next => extras[e] = Nil
  /\ pc = "removeFinalizer" => ~Owns

GateInv == Copies /\ CacheGuard /\ Progress /\ NoOrphan

\* A write that keeps a guarded CR guarded, and takes none out of deletion,
\* keeps the gate, whatever the writer.
LEMMA GateWrite ==
  ASSUME TypeOK, GateInv, NEW new \in CRs \cup {Nil}, Write(new),
         Guarded => new # Nil /\ new.fin,
         new # Nil /\ new.fin /\ ~new.del => InForce,
         UNCHANGED <<cache, pc, obj, next, target, extras>>
  PROVE  GateInv'
<1>1. Guarded => Guarded'
  BY DEF Guarded, Write
<1>2. InForce' => InForce
  BY DEF InForce, Guarded, Write
<1>3. Copies'
  BY DEF Copies, Write
<1>4. CacheGuard'
  BY <1>1, <1>2 DEF GateInv, CacheGuard
<1>5. UNCHANGED Owns
  BY DEF Owns, Live
<1>6. Progress'
  BY <1>1, <1>2, <1>5 DEF GateInv, Progress, Live
<1>7. NoOrphan'
  BY <1>1, <1>5 DEF GateInv, NoOrphan, Guarded
<1>8. QED
  BY <1>3, <1>4, <1>6, <1>7 DEF GateInv

\* A step that leaves the CR, its copies and the worker alone keeps the gate
\* when it makes no object.
LEMMA GateObjects ==
  ASSUME TypeOK, GateInv, UNCHANGED <<cr, cache, cacheCurrent, worker>>,
         Live(target)' => Live(target),
         \A e \in Extras : extras'[e] \in {Nil, extras[e]}
  PROVE  GateInv'
<1>1. Owns' => Owns
  BY DEF Owns
<1>2. Copies' /\ CacheGuard'
  BY DEF GateInv, Copies, CacheGuard, Guarded, InForce, worker
<1>3. Progress'
  BY <1>1 DEF GateInv, Progress, Guarded, InForce, worker
<1>4. NoOrphan'
  BY <1>1 DEF GateInv, NoOrphan
<1>5. QED
  BY <1>2, <1>3, <1>4 DEF GateInv

\* A Reconcile that returns without writing keeps the gate.
LEMMA GateReturn ==
  ASSUME TypeOK, GateInv, Return, objCurrent' = FALSE,
         UNCHANGED <<cr, cache, cacheCurrent>>,
         Live(target)' => Live(target),
         \A e \in Extras : extras'[e] \in {Nil, extras[e]}
  PROVE  GateInv'
<1>1. Owns' => Owns
  BY DEF Owns
<1>2. Copies' /\ CacheGuard'
  BY DEF GateInv, Copies, CacheGuard, Guarded, InForce
<1>3. Progress'
  BY DEF Return, Progress, ApplyPath, DeletePath
<1>4. NoOrphan'
  BY <1>1 DEF GateInv, NoOrphan
<1>5. QED
  BY <1>2, <1>3, <1>4 DEF GateInv

LEMMA GateUser ==
  ASSUME TypeOK, GateInv, User \/ ForeignRelease
  PROVE  GateInv'
<1>1. ASSUME NEW spec \in Specs, NEW other \in BOOLEAN, UserCreate(spec, other)
      PROVE  GateInv'
  <2>0. PICK new : new = [spec |-> spec, gen |-> 1, fin |-> FALSE, other |-> other,
                          del |-> FALSE, obs |-> 0, ready |-> FALSE]
    OBVIOUS
  <2>1. new \in CRs /\ Write(new) /\ ~new.fin
    BY <1>1, <2>0 DEF UserCreate, CRs
  <2>2. ~Guarded
    BY <1>1 DEF UserCreate, Guarded
  <2>3. QED
    BY <1>1, <2>1, <2>2, GateWrite DEF UserCreate, managed
<1>2. ASSUME NEW spec \in Specs, UserEdit(spec)
      PROVE  GateInv'
  <2>1. cr \in CRs
    BY <1>2 DEF UserEdit, TypeOK, TypeServer
  <2>2. PICK new : new = [cr EXCEPT !.spec = spec, !.gen = @ + 1]
    OBVIOUS
  <2>3. new \in CRs /\ new.fin = cr.fin /\ new.del = cr.del
    BY <2>1, <2>2, EditedType DEF CRs
  <2>4. QED
    BY <1>2, <2>1, <2>2, <2>3, GateWrite, NilAssumption
       DEF UserEdit, managed, Guarded, InForce
<1>3. CASE UserDelete
  <2>1. cr \in CRs
    BY <1>3 DEF UserDelete, TypeOK, TypeServer
  <2>2. PICK new : new = [cr EXCEPT !.del = TRUE, !.gen = @ + 1]
    OBVIOUS
  <2>3. new \in CRs /\ new.fin = cr.fin /\ new.del
    BY <2>1, <2>2, EditedType DEF CRs
  <2>4. QED
    BY <1>3, <2>1, <2>2, <2>3, GateWrite, NilAssumption
       DEF UserDelete, managed, Guarded, InForce
<1>4. CASE ForeignRelease
  <2>1. cr \in CRs
    BY <1>4 DEF ForeignRelease, TypeOK, TypeServer
  <2>2. PICK new : new = [cr EXCEPT !.other = FALSE]
    OBVIOUS
  <2>3. new \in CRs /\ new.fin = cr.fin /\ new.del = cr.del
    BY <2>1, <2>2 DEF CRs
  <2>4. QED
    BY <1>4, <2>1, <2>2, <2>3, GateWrite, NilAssumption
       DEF ForeignRelease, managed, Guarded, InForce
<1>5. QED
  BY <1>1, <1>2, <1>3, <1>4, ConstAssumption DEF User

LEMMA GateDelivery ==
  ASSUME TypeOK, GateInv, CacheSync \/ TimerFires
  PROVE  GateInv'
<1>1. CASE CacheSync
  <2>1. Copies' /\ CacheGuard'
    BY <1>1 DEF CacheSync, worker, GateInv, Copies, CacheGuard, Guarded, InForce
  <2>2. UNCHANGED <<Owns, Guarded, InForce>>
    BY <1>1 DEF CacheSync, managed, Owns, Live, Guarded, InForce
  <2>3. Progress' /\ NoOrphan'
    BY <1>1, <2>2 DEF CacheSync, worker, managed, GateInv, Progress, NoOrphan, Guarded, Live
  <2>4. QED
    BY <2>1, <2>3 DEF GateInv
<1>2. CASE TimerFires
  BY <1>2, GateObjects DEF TimerFires, managed, server, Live
<1>3. QED
  BY <1>1, <1>2

LEMMA GateCluster ==
  ASSUME TypeOK, GateInv, Vendor \/ WorkloadClaims \/ WorkloadCollected \/ Drift
  PROVE  GateInv'
<1>1. UNCHANGED <<cr, cache, cacheCurrent, worker>>
  BY DEF Vendor, InstallKind, VendorReports, VendorFinalizes, VendorDeploys,
         WorkloadClaims, WorkloadCollected, Drift, server
<1>2. Live(target)' => Live(target)
  <2>1. CASE VendorReports
    <3>1. target \in Targets
      BY <2>1 DEF VendorReports, TypeOK, TypeManaged
    <3>2. target'.del = target.del
      BY <2>1, <3>1 DEF VendorReports, Targets
    <3>3. QED
      BY <3>1, <3>2, NilAssumption DEF Live
  <2>2. QED
    BY <2>1 DEF Vendor, InstallKind, VendorFinalizes, VendorDeploys, WorkloadClaims,
                WorkloadCollected, Drift, Live, managed
<1>3. \A e \in Extras : extras'[e] \in {Nil, extras[e]}
  BY DEF Vendor, InstallKind, managed, VendorReports, VendorFinalizes, VendorDeploys, WorkloadClaims,
         WorkloadCollected, Drift, storage, TypeOK, TypeManaged
<1>4. QED
  BY <1>1, <1>2, <1>3, GateObjects

\* A call that took effect keeps the gate when its effect keeps NoOrphan and
\* establishes what the next step finds.
LEMMA GateProceed ==
  ASSUME TypeOK, GateInv, pc # "idle",
         NEW p \in ApplyPath \cup DeletePath, NEW e, NEW s, Proceed(p, e, s),
         UNCHANGED <<cr, cache, cacheCurrent>>,
         p \in ApplyPath => Guarded,
         p \in DeletePath => obj.del /\ ~InForce,
         p = "deleteExtras" =>
           ~Live(target)' /\ \A x \in Extras : x < e => extras'[x] = Nil,
         p = "removeFinalizer" => ~Owns',
         NoOrphan'
  PROVE  GateInv'
<1>1. CacheGuard'
  BY DEF GateInv, CacheGuard, Guarded, InForce
<1>2. Copies'
  BY DEF GateInv, Copies, Proceed, Fail
<1>3. Progress'
  <2>1. CASE pc' = p /\ next' = e /\ UNCHANGED obj
    BY <2>1 DEF Progress, ApplyPath, DeletePath, Guarded, InForce
  <2>2. CASE Fail
    BY <2>2 DEF Progress, ApplyPath, DeletePath, Fail, Return
  <2>3. QED
    BY <2>1, <2>2 DEF Proceed
<1>4. QED
  BY <1>1, <1>2, <1>3 DEF GateInv

LEMMA GateStart ==
  ASSUME TypeOK, GateInv, StartReconcile
  PROVE  GateInv'
<1>1. UNCHANGED <<cr, cache, cacheCurrent, target, extras>>
  BY DEF StartReconcile, managed, server
<1>2. UNCHANGED <<Owns, Guarded, InForce>>
  BY <1>1 DEF Owns, Live, Guarded, InForce
<1>3. CASE UNCHANGED worker
  BY <1>1, <1>3, GateObjects, TypeOK DEF TypeOK, TypeManaged, Live
<1>4. CASE ~UNCHANGED worker
  <2>1. /\ cache \in CRs /\ (cache.del => cache.fin)
        /\ pc' = FirstStep(cache) /\ obj' = cache /\ objCurrent' = cacheCurrent
    BY <1>4 DEF StartReconcile, TypeOK, TypeServer, CRs
  <2>2. Copies' /\ CacheGuard'
    BY <1>1, <1>2, <2>1 DEF GateInv, Copies, CacheGuard
  <2>3. Progress'
    <3>1. CASE cache.del
      BY <1>2, <2>1, <3>1, NilAssumption
         DEF GateInv, CacheGuard, Progress, FirstStep, ApplyPath, DeletePath, CRs
    <3>2. CASE ~cache.del /\ ~cache.fin
      BY <2>1, <3>2 DEF Progress, FirstStep, ApplyPath, DeletePath, CRs
    <3>3. CASE ~cache.del /\ cache.fin
      BY <1>2, <2>1, <3>3, NilAssumption
         DEF GateInv, CacheGuard, Progress, FirstStep, ApplyPath, DeletePath, CRs
    <3>4. QED
      BY <3>1, <3>2, <3>3
  <2>4. NoOrphan'
    BY <1>1, <1>2 DEF GateInv, NoOrphan
  <2>5. QED
    BY <2>2, <2>3, <2>4 DEF GateInv
<1>5. QED
  BY <1>3, <1>4

LEMMA GateApply ==
  ASSUME TypeOK, GateInv, ApplyTarget \/ ApplyExtra
  PROVE  GateInv'
<1>1. pc \in ApplyPath /\ UNCHANGED <<cr, cache, cacheCurrent>>
  BY DEF ApplyTarget, ApplyExtra, server, ApplyPath
<1>2. Guarded /\ NoOrphan'
  BY <1>1 DEF GateInv, Progress, NoOrphan, Guarded
<1>3. PICK e, s : Proceed("applyExtras", e, s)
  BY DEF ApplyTarget, ApplyExtra
<1>4. pc # "idle" /\ "applyExtras" \in ApplyPath /\ "applyExtras" \notin DeletePath
  BY <1>1 DEF ApplyPath, DeletePath
<1>5. QED
  BY <1>1, <1>2, <1>3, <1>4, GateProceed

LEMMA GateDelete ==
  ASSUME TypeOK, GateInv, DeleteTarget \/ DeleteExtra \/ DeletePVCs
  PROVE  GateInv'
<1>1. /\ pc \in DeletePath /\ pc # "idle"
      /\ UNCHANGED <<cr, cache, cacheCurrent>>
  BY DEF DeleteTarget, DeleteExtra, DeletePVCs, server, DeletePath
<1>2. obj.del /\ ~InForce
  BY <1>1 DEF GateInv, Progress
<1>3. {"deleteExtras", "removeFinalizer"} \subseteq DeletePath \ ApplyPath
  BY DEF ApplyPath, DeletePath
<1>4. CASE DeleteTarget
  <2>1. PICK s : Proceed("deleteExtras", 1, s)
    BY <1>4 DEF DeleteTarget
  <2>2. ~Live(target)'
    BY <1>4 DEF DeleteTarget, Live, TypeOK, TypeManaged, Targets
  <2>3. UNCHANGED extras
    BY <1>4 DEF DeleteTarget
  <2>4. NoOrphan'
    BY <1>1, <2>2, <2>3 DEF GateInv, NoOrphan, Owns
  <2>5. \A x \in Extras : ~(x < 1)
    BY ConstAssumption DEF Extras
  <2>6. QED
    BY <1>1, <1>2, <1>3, <2>1, <2>2, <2>4, <2>5, GateProceed
<1>5. CASE DeleteExtra
  <2>1. PICK s : Proceed("deleteExtras", next + 1, s)
    BY <1>5 DEF DeleteExtra
  <2>2. ~Live(target) /\ \A x \in Extras : x < next => extras[x] = Nil
    BY <1>5 DEF DeleteExtra, GateInv, Progress
  <2>3. UNCHANGED target /\ extras' = [extras EXCEPT ![next] = Nil] /\ next \in Extras
    BY <1>5 DEF DeleteExtra, TypeOK, TypeServer
  <2>4. \A x \in Extras : x < next + 1 => extras'[x] = Nil
    BY <2>2, <2>3 DEF TypeOK, TypeManaged, Extras
  <2>5. NoOrphan'
    BY <1>1, <2>3 DEF GateInv, NoOrphan, Owns, Live, TypeOK, TypeManaged
  <2>6. QED
    BY <1>1, <1>2, <1>3, <2>1, <2>2, <2>3, <2>4, <2>5, GateProceed DEF Live
<1>6. CASE DeletePVCs
  <2>1. PICK s : Proceed("removeFinalizer", next, s)
    BY <1>6 DEF DeletePVCs
  <2>2. UNCHANGED <<target, extras>>
    BY <1>6 DEF DeletePVCs
  <2>3. ~Live(target) /\ \A x \in Extras : extras[x] = Nil
    BY <1>6, ConstAssumption DEF DeletePVCs, GateInv, Progress, Extras
  <2>4. ~Owns' /\ NoOrphan'
    BY <2>2, <2>3 DEF Owns, Live, NoOrphan
  <2>5. QED
    BY <1>1, <1>2, <1>3, <2>1, <2>4, GateProceed
<1>7. QED
  BY <1>4, <1>5, <1>6

\* The three Reconcile writes of the CR, all from a copy that is current.
LEMMA GateStore ==
  ASSUME TypeOK, GateInv, AddFinalizer \/ UpdateStatus \/ RemoveFinalizer
  PROVE  GateInv'
<1>1. /\ objCurrent /\ Return /\ objCurrent' = FALSE
      /\ UNCHANGED <<cache, target, extras>>
  BY DEF AddFinalizer, UpdateStatus, RemoveFinalizer, Write, managed
<1>2. obj = cr /\ cache = cr /\ obj \in CRs /\ cr # Nil
  BY <1>1, NilAssumption DEF GateInv, Copies, TypeOK, TypeWorker, AddFinalizer,
     UpdateStatus, RemoveFinalizer
<1>3. Progress'
  BY <1>1 DEF Progress, Return, ApplyPath, DeletePath
<1>4. UNCHANGED Owns
  BY <1>1 DEF Owns, Live
<1>5. CASE AddFinalizer
  <2>1. PICK new : new = Updated(TRUE)
    OBVIOUS
  <2>2. new \in CRs /\ new.fin /\ cr' = new /\ cacheCurrent' = FALSE
    BY <1>2, <1>5, <2>1, UpdatedType DEF AddFinalizer, Write
  <2>3. Guarded'
    BY <2>2, NilAssumption DEF Guarded
  <2>4. ~obj.fin
    BY <1>5 DEF AddFinalizer, GateInv, Progress
  <2>5. Copies' /\ CacheGuard'
    BY <1>1, <1>2, <2>2, <2>4 DEF Copies, CacheGuard
  <2>6. QED
    BY <1>3, <2>3, <2>5 DEF GateInv, NoOrphan, Guarded
<1>6. CASE UpdateStatus
  <2>1. PICK new : new = [obj EXCEPT !.obs = obj.gen, !.ready = snap]
    OBVIOUS
  <2>2. /\ new \in CRs /\ new.fin = obj.fin /\ new.del = obj.del
    BY <1>2, <1>6, <2>1 DEF CRs, TypeOK, TypeWorker
  <2>3. /\ cr' \in {obj, new}
        /\ cacheCurrent' => cr' = obj
    BY <1>2, <1>6, <2>1 DEF UpdateStatus, Write, server
  <2>4. UNCHANGED <<Guarded, InForce>>
    BY <1>2, <2>2, <2>3, NilAssumption DEF Guarded, InForce
  <2>5. Copies' /\ CacheGuard'
    BY <1>1, <1>2, <2>3, <2>4 DEF GateInv, Copies, CacheGuard
  <2>6. QED
    BY <1>3, <1>4, <2>4, <2>5 DEF GateInv, NoOrphan, Guarded
<1>7. CASE RemoveFinalizer
  <2>1. ~Owns /\ obj.del
    BY <1>7 DEF RemoveFinalizer, GateInv, Progress, DeletePath
  <2>2. PICK new : new = Updated(FALSE)
    OBVIOUS
  <2>3. new \in CRs /\ ~new.fin /\ cr' \in {Nil, new} /\ cacheCurrent' = FALSE
    BY <1>2, <1>7, <2>2, UpdatedType DEF RemoveFinalizer, Write
  <2>4. ~Guarded'
    BY <2>3 DEF Guarded
  <2>5. Copies' /\ CacheGuard'
    BY <1>1, <1>2, <2>1, <2>3, <2>4 DEF Copies, CacheGuard, InForce
  <2>6. QED
    BY <1>3, <1>4, <2>1, <2>5 DEF GateInv, NoOrphan
<1>8. QED
  BY <1>5, <1>6, <1>7

LEMMA GateFail ==
  ASSUME TypeOK, GateInv, Conflict \/ UnknownKind \/ CallFails \/ Restart
  PROVE  GateInv'
<1>1. UNCHANGED <<cr, target, extras>> /\ Return /\ objCurrent' = FALSE
  BY DEF Conflict, UnknownKind, CallFails, Restart, Fail, server, managed
<1>2. CASE UNCHANGED <<cache, cacheCurrent>>
  BY <1>1, <1>2, GateReturn DEF Live, TypeOK, TypeManaged
<1>3. CASE Restart
  <2>1. Copies' /\ CacheGuard'
    BY <1>1, <1>3 DEF Restart, Copies, CacheGuard, Guarded, InForce
  <2>2. Progress'
    BY <1>1 DEF Return, Progress, ApplyPath, DeletePath
  <2>3. NoOrphan'
    BY <1>1 DEF GateInv, NoOrphan, Owns, Live
  <2>4. QED
    BY <2>1, <2>2, <2>3 DEF GateInv
<1>4. QED
  BY <1>2, <1>3 DEF Conflict, UnknownKind, CallFails, server

LEMMA GateInvariant == Spec => []GateInv
<1>1. Init => GateInv
  BY DEF Init, GateInv, Copies, CacheGuard, Progress, NoOrphan, Owns, Live,
         ApplyPath, DeletePath
<1>2. TypeOK /\ GateInv /\ [Next]_vars => GateInv'
  <2> SUFFICES ASSUME TypeOK, GateInv, [Next]_vars PROVE GateInv'
    OBVIOUS
  <2>1. CASE User \/ ForeignRelease
    BY <2>1, GateUser
  <2>2. CASE CacheSync \/ TimerFires
    BY <2>2, GateDelivery
  <2>3. CASE Vendor \/ WorkloadClaims \/ WorkloadCollected \/ Drift
    BY <2>3, GateCluster
  <2>4. CASE Reconcile \/ CallFails \/ Restart
    BY <2>4, GateStart, GateApply, GateDelete, GateStore, GateFail DEF Reconcile
  <2>5. CASE UNCHANGED vars
    BY <2>5, GateObjects DEF vars, worker, Live, TypeOK, TypeManaged
  <2>6. QED
    BY <2>1, <2>2, <2>3, <2>4, <2>5 DEF Next, Cluster
<1>3. QED
  BY <1>1, <1>2, TypeCorrect, PTL DEF Spec

\* No orphan: in every behaviour of the loop, whatever lives of the objects it
\* made is covered by a CR carrying the finalizer (reconciler.go:45-46,
\* 273-281), for any number of extras, users, faults and restarts.
THEOREM OrphanFree == Spec => []NoOrphan
BY GateInvariant, PTL DEF GateInv

\* No Reconcile on the deletion path ever works against a CR in force
\* (reconciler.go:235-267, 361-374).
THEOREM TeardownSound == Spec => []TeardownJustified
<1>1. GateInv => TeardownJustified
  BY DEF GateInv, Progress, NoOrphan, TeardownJustified, InForce, Guarded
<1>2. QED
  BY <1>1, GateInvariant, PTL

(***************************************************************************)
(* The volume claims                                                       *)
(***************************************************************************)

\* Claims are deleted by one call only, after the target's and the extras'.
LEMMA ClaimsStep ==
  ASSUME TypeOK, GateInv, [Next]_vars, pvc, ~pvc'
  PROVE  ~Live(target) /\ (cr # Nil /\ cr.fin => cr.del)
<1>1. DeletePVCs
  <2>1. ~(User \/ ForeignRelease \/ CacheSync \/ TimerFires \/ Restart \/ CallFails)
    BY DEF User, UserCreate, UserEdit, UserDelete, ForeignRelease, CacheSync, TimerFires, Restart,
           CallFails, managed
  <2>2. ~(Vendor \/ WorkloadClaims \/ WorkloadCollected \/ Drift)
    BY DEF Vendor, VendorReports, VendorFinalizes, VendorDeploys, InstallKind, WorkloadClaims,
           WorkloadCollected, Drift, managed, storage
  <2>3. ~(\/ StartReconcile \/ AddFinalizer \/ ApplyTarget \/ ApplyExtra \/ UpdateStatus
          \/ DeleteTarget \/ DeleteExtra \/ RemoveFinalizer \/ Conflict \/ UnknownKind)
    BY DEF StartReconcile, AddFinalizer, ApplyTarget, ApplyExtra, UpdateStatus, DeleteTarget,
           DeleteExtra, RemoveFinalizer, Conflict, UnknownKind, managed, storage
  <2>4. ~UNCHANGED vars
    BY DEF vars
  <2>5. QED
    BY <2>1, <2>2, <2>3, <2>4 DEF Next, Cluster, Reconcile
<1>2. pc = "deleteExtras"
  BY <1>1 DEF DeletePVCs
<1>3. ~Live(target) /\ ~InForce
  BY <1>2 DEF GateInv, Progress, DeletePath
<1>4. QED
  BY <1>3 DEF InForce, Guarded

\* The volume claims are deleted neither under a live target nor under a CR in
\* force, also by a teardown of an earlier CR that a lost answer or a restart
\* makes the loop repeat (reconciler.go:238-258, 441-451).
THEOREM ClaimsSpared == Spec => StorageSpared
<1>1. TypeOK /\ GateInv /\ [Next]_vars =>
        [pvc /\ ~pvc' => ~Live(target) /\ (cr # Nil /\ cr.fin => cr.del)]_vars
  BY ClaimsStep
<1>2. QED
  BY <1>1, TypeCorrect, GateInvariant, PTL DEF Spec, StorageSpared

(***************************************************************************)
(* The observed generation                                                 *)
(*                                                                         *)
(* ObservedIsApplied is not inductive either: a Reconcile that works from  *)
(* an old copy could overwrite what the status vouches for. None does,     *)
(* because once the status says so the cache, and hence any copy taken     *)
(* from it, has the current spec.                                          *)
(***************************************************************************)

Observed(c) == c # Nil /\ c.obs = c.gen

ObservedInv ==
  /\ cr # Nil => cr.obs <= cr.gen
  /\ ObservedIsApplied
  /\ Observed(cr) => cache # Nil /\ cache.spec = cr.spec
  /\ pc \in ApplyPath /\ Observed(cr) => obj.spec = cr.spec
  /\ pc = "applyExtras" =>
       /\ target # Nil => target.spec = obj.spec
       /\ \A e \in Extras : e < next => extras[e] \in {Nil, Desired(obj.spec, e)}

\* Objects that go, or are reported on, and a cache that catches up, leave it
\* alone, whether or not the Reconcile ends.
LEMMA ObservedCalm ==
  ASSUME TypeOK, ObservedInv, cr' = cr, cache' \in {cache, cr},
         Return \/ UNCHANGED <<pc, obj, next>>,
         target' # Nil => target # Nil /\ target'.spec = target.spec,
         \A e \in Extras : extras'[e] \in {Nil, extras[e]}
  PROVE  ObservedInv'
<1>1. /\ cr' # Nil => cr'.obs <= cr'.gen
      /\ Observed(cr)' => cache' # Nil /\ cache'.spec = cr'.spec
  BY DEF ObservedInv, Observed
<1>2. ObservedIsApplied'
  BY DEF ObservedInv, ObservedIsApplied
<1>3. CASE Return
  BY <1>1, <1>2, <1>3 DEF ObservedInv, Return, ApplyPath
<1>4. CASE UNCHANGED <<pc, obj, next>>
  <2>1. pc' \in ApplyPath /\ Observed(cr)' => obj'.spec = cr'.spec
    BY <1>4 DEF ObservedInv, Observed
  <2>2. pc' = "applyExtras" =>
          /\ target' # Nil => target'.spec = obj'.spec
          /\ \A e \in Extras : e < next' => extras'[e] \in {Nil, Desired(obj'.spec, e)}
    BY <1>4 DEF ObservedInv
  <2>3. QED
    BY <1>1, <1>2, <2>1, <2>2 DEF ObservedInv
<1>5. QED
  BY <1>3, <1>4

\* A write whose generation has not been observed, or that changes neither the
\* spec nor the two generations, leaves it alone.
LEMMA ObservedWrite ==
  ASSUME TypeOK, ObservedInv, NEW new \in CRs \cup {Nil}, Write(new),
         \/ new = Nil
         \/ new.obs < new.gen
         \/ cr # Nil /\ new.spec = cr.spec /\ new.gen = cr.gen /\ new.obs = cr.obs,
         Return \/ UNCHANGED <<pc, obj, next>>,
         UNCHANGED <<cache, target, extras>>
  PROVE  ObservedInv'
<1>1. cr' = new
  BY DEF Write
<1>2. CASE new = Nil \/ new.obs < new.gen
  <2>1. new = Nil \/ (new.obs \in Nat /\ new.gen \in Nat /\ new.obs < new.gen)
    BY <1>2, CRFields
  <2>2. new # Nil => new.obs <= new.gen /\ new.obs # new.gen
    BY <2>1
  <2>3. ~Observed(cr)'
    BY <1>1, <2>2 DEF Observed
  <2>4. pc' = "applyExtras" => UNCHANGED <<pc, obj, next>>
    BY DEF Return
  <2>5. QED
    BY <1>1, <2>2, <2>3, <2>4 DEF ObservedInv, ObservedIsApplied, Observed
<1>3. CASE cr # Nil /\ new.spec = cr.spec /\ new.gen = cr.gen /\ new.obs = cr.obs
  <2>1. Observed(cr)' => Observed(cr)
    BY <1>1, <1>3 DEF Observed
  <2>2. pc' \in ApplyPath => UNCHANGED <<pc, obj, next>>
    BY DEF Return, ApplyPath
  <2>3. ObservedIsApplied'
    BY <1>1, <1>3 DEF ObservedInv, ObservedIsApplied
  <2>4. "applyExtras" \in ApplyPath
    BY DEF ApplyPath
  <2>5. QED
    BY <1>1, <1>3, <2>1, <2>2, <2>3, <2>4 DEF ObservedInv
<1>4. QED
  BY <1>2, <1>3

LEMMA ObservedUser ==
  ASSUME TypeOK, ObservedInv, User \/ ForeignRelease
  PROVE  ObservedInv'
<1>1. ASSUME NEW spec \in Specs, NEW other \in BOOLEAN, UserCreate(spec, other)
      PROVE  ObservedInv'
  <2>1. PICK new : new = [spec |-> spec, gen |-> 1, fin |-> FALSE, other |-> other,
                          del |-> FALSE, obs |-> 0, ready |-> FALSE]
    OBVIOUS
  <2>2. new \in CRs /\ new.obs < new.gen
    BY <2>1 DEF CRs
  <2>3. Write(new) /\ UNCHANGED <<pc, obj, next, cache, target, extras>>
    BY <1>1, <2>1 DEF UserCreate, managed
  <2>4. QED
    BY <2>2, <2>3, ObservedWrite
<1>2. ASSUME NEW spec \in Specs, UserEdit(spec)
      PROVE  ObservedInv'
  <2>1. cr \in CRs /\ cr.obs \in Nat /\ cr.gen \in Nat /\ cr.obs <= cr.gen
    BY <1>2, CRFields DEF UserEdit, TypeOK, TypeServer, ObservedInv
  <2>2. PICK new : new = [cr EXCEPT !.spec = spec, !.gen = @ + 1]
    OBVIOUS
  <2>3. new \in CRs
    BY <2>1, <2>2, EditedType
  <2>4. new.obs = cr.obs /\ new.gen = cr.gen + 1
    BY <2>1, <2>2 DEF CRs
  <2>5. Write(new) /\ UNCHANGED <<pc, obj, next, cache, target, extras>>
    BY <1>2, <2>2 DEF UserEdit, managed
  <2>6. new.obs < new.gen
    BY <2>1, <2>4
  <2>7. QED
    BY <2>3, <2>5, <2>6, ObservedWrite
<1>3. CASE UserDelete
  <2>1. cr \in CRs /\ cr.obs \in Nat /\ cr.gen \in Nat /\ cr.obs <= cr.gen
    BY <1>3, CRFields DEF UserDelete, TypeOK, TypeServer, ObservedInv
  <2>2. PICK new : new = [cr EXCEPT !.del = TRUE, !.gen = @ + 1]
    OBVIOUS
  <2>3. new \in CRs
    <3>1. [cr EXCEPT !.del = TRUE, !.gen = @ + 1] \in CRs
      BY <2>1, EditedType DEF CRs
    <3>2. QED
      BY <2>2, <3>1
  <2>4. new.obs = cr.obs /\ new.gen = cr.gen + 1
    BY <2>1, <2>2 DEF CRs
  <2>5. new.obs < new.gen
    BY <2>1, <2>4
  <2>6. /\ Write(new) \/ Write(Nil)
        /\ UNCHANGED <<pc, obj, next, cache, target, extras>>
    BY <1>3, <2>2 DEF UserDelete, managed
  <2>7. QED
    BY <2>3, <2>5, <2>6, ObservedWrite
<1>4. CASE ForeignRelease
  <2>1. cr \in CRs
    BY <1>4 DEF ForeignRelease, TypeOK, TypeServer
  <2>2. PICK new : new = [cr EXCEPT !.other = FALSE]
    OBVIOUS
  <2>3. /\ new \in CRs
        /\ new.spec = cr.spec /\ new.gen = cr.gen /\ new.obs = cr.obs
    BY <2>1, <2>2 DEF CRs
  <2>4. /\ Write(new) \/ Write(Nil)
        /\ cr # Nil
        /\ UNCHANGED <<pc, obj, next, cache, target, extras>>
    BY <1>4, <2>2 DEF ForeignRelease, managed
  <2>5. QED
    BY <2>3, <2>4, ObservedWrite
<1>5. QED
  BY <1>1, <1>2, <1>3, <1>4, ConstAssumption DEF User

LEMMA ObservedCluster ==
  ASSUME TypeOK, ObservedInv,
         CacheSync \/ TimerFires \/ Vendor \/ WorkloadClaims \/ WorkloadCollected \/ Drift
  PROVE  ObservedInv'
<1>1. cr' = cr /\ cache' \in {cache, cr} /\ UNCHANGED <<pc, obj, next>>
  BY DEF CacheSync, TimerFires, Vendor, VendorReports, VendorFinalizes, VendorDeploys, InstallKind,
     WorkloadClaims, WorkloadCollected, Drift, server, worker
<1>2. target' # Nil => target # Nil /\ target'.spec = target.spec
  <2>1. CASE VendorReports
    BY <2>1 DEF VendorReports, TypeOK, TypeManaged, Targets
  <2>2. CASE ~VendorReports
    BY <2>2 DEF CacheSync, TimerFires, Vendor, VendorFinalizes, VendorDeploys, InstallKind,
       WorkloadClaims, WorkloadCollected, Drift, managed
  <2>3. QED
    BY <2>1, <2>2
<1>3. \A e \in Extras : extras'[e] \in {Nil, extras[e]}
  <2>1. CASE Drift
    BY <2>1 DEF Drift, TypeOK, TypeManaged
  <2>2. CASE ~Drift
    BY <2>2 DEF CacheSync, TimerFires, Vendor, VendorReports, VendorFinalizes, VendorDeploys,
       InstallKind, WorkloadClaims, WorkloadCollected, managed
  <2>3. QED
    BY <2>1, <2>2
<1>4. QED
  BY <1>1, <1>2, <1>3, ObservedCalm

LEMMA ObservedFail ==
  ASSUME TypeOK, ObservedInv, Conflict \/ UnknownKind \/ CallFails \/ Restart
  PROVE  ObservedInv'
<1>1. UNCHANGED <<cr, target, extras>> /\ cache' \in {cache, cr} /\ Return
  BY DEF Conflict, UnknownKind, CallFails, Restart, Fail, server, managed
<1>2. QED
  BY <1>1, ObservedCalm

LEMMA ObservedStart ==
  ASSUME TypeOK, ObservedInv, StartReconcile
  PROVE  ObservedInv'
<1>1. UNCHANGED <<cr, cache, target, extras>>
  BY DEF StartReconcile, server, managed
<1>2. CASE UNCHANGED worker
  BY <1>1, <1>2, ObservedCalm DEF worker
<1>3. CASE ~UNCHANGED worker
  <2>1. obj' = cache /\ pc' = FirstStep(cache)
    BY <1>3 DEF StartReconcile
  <2>2. pc' # "applyExtras"
    BY <2>1 DEF FirstStep
  <2>3. QED
    BY <1>1, <2>1, <2>2 DEF ObservedInv, ObservedIsApplied, Observed
<1>4. QED
  BY <1>2, <1>3

\* The calls of a Reconcile, but those that write the CR.
LEMMA ObservedApply ==
  ASSUME TypeOK, ObservedInv, ApplyTarget \/ ApplyExtra
  PROVE  ObservedInv'
<1>1. pc \in ApplyPath /\ UNCHANGED <<cr, cache>>
  BY DEF ApplyTarget, ApplyExtra, server, ApplyPath
<1>2. Observed(cr) => obj.spec = cr.spec
  BY <1>1 DEF ObservedInv
<1>3. CASE ApplyTarget
  <2>1. extras' = extras /\ target'.spec = obj.spec
    BY <1>3 DEF ApplyTarget, TypeOK, TypeManaged, Targets
  <2>2. ObservedIsApplied'
    BY <1>1, <1>2, <2>1 DEF ObservedInv, ObservedIsApplied, Observed
  <2>3. \A e \in Extras : ~(e < 1)
    BY ConstAssumption DEF Extras
  <2>4. (pc' = "applyExtras" /\ next' = 1 /\ obj' = obj) \/ Return
    BY <1>3 DEF ApplyTarget, Proceed, Fail
  <2>5. QED
    BY <1>1, <1>2, <2>1, <2>2, <2>3, <2>4 DEF ObservedInv, Observed, Return, ApplyPath
<1>4. CASE ApplyExtra
  <2>1. /\ pc = "applyExtras" /\ target' = target
        /\ next \in Extras
        /\ extras' = [extras EXCEPT ![next] = Desired(obj.spec, next)]
    BY <1>4 DEF ApplyExtra, TypeOK, TypeServer
  <2>2. \A e \in Extras : extras'[e] = IF e = next THEN Desired(obj.spec, e) ELSE extras[e]
    BY <2>1 DEF TypeOK, TypeManaged
  <2>3. ObservedIsApplied'
    BY <1>1, <1>2, <2>1, <2>2 DEF ObservedInv, ObservedIsApplied, Observed
  <2>4. \A e \in Extras : e < next + 1 => e < next \/ e = next
    BY <2>1, ConstAssumption DEF Extras
  <2>5. (pc' = "applyExtras" /\ next' = next + 1 /\ obj' = obj) \/ Return
    BY <1>4 DEF ApplyExtra, Proceed, Fail
  <2>6. CASE Return
    BY <1>1, <2>3, <2>6 DEF ObservedInv, Observed, Return, ApplyPath
  <2>7. CASE pc' = "applyExtras" /\ next' = next + 1 /\ obj' = obj
    <3>1. \A e \in Extras : e < next' => extras'[e] \in {Nil, Desired(obj'.spec, e)}
      BY <2>1, <2>2, <2>4, <2>7 DEF ObservedInv
    <3>2. QED
      BY <1>1, <1>2, <2>1, <2>3, <2>7, <3>1 DEF ObservedInv, Observed
  <2>8. QED
    BY <2>5, <2>6, <2>7
<1>5. QED
  BY <1>3, <1>4

LEMMA ObservedDelete ==
  ASSUME TypeOK, ObservedInv, DeleteTarget \/ DeleteExtra \/ DeletePVCs
  PROVE  ObservedInv'
<1>1. UNCHANGED <<cr, cache>> /\ pc' \notin ApplyPath
  BY DEF DeleteTarget, DeleteExtra, DeletePVCs, Proceed, Fail, Return, server, ApplyPath
<1>2. target' # Nil => target # Nil /\ target'.spec = target.spec
  BY DEF DeleteTarget, DeleteExtra, DeletePVCs, TypeOK, TypeManaged, Targets
<1>3. \A e \in Extras : extras'[e] \in {Nil, extras[e]}
  BY DEF DeleteTarget, DeleteExtra, DeletePVCs, TypeOK, TypeManaged
<1>4. ObservedIsApplied'
  BY <1>1, <1>2, <1>3 DEF ObservedInv, ObservedIsApplied
<1>5. QED
  BY <1>1, <1>4 DEF ObservedInv, Observed, ApplyPath

\* The writes of the CR: the status vouches for what this very Reconcile has
\* applied, and the others touch it only together with the spec.
LEMMA ObservedStore ==
  ASSUME TypeOK, GateInv, ObservedInv, AddFinalizer \/ UpdateStatus \/ RemoveFinalizer
  PROVE  ObservedInv'
<1>1. /\ objCurrent /\ Return
      /\ UNCHANGED <<cache, target, extras>>
  BY DEF AddFinalizer, UpdateStatus, RemoveFinalizer, managed
<1>2. obj = cr /\ cache = cr /\ obj \in CRs /\ cr # Nil
  BY <1>1, NilAssumption DEF GateInv, Copies, TypeOK, TypeWorker, AddFinalizer,
     UpdateStatus, RemoveFinalizer
<1>3. cr.obs \in Nat /\ cr.gen \in Nat /\ cr.obs <= cr.gen
  BY <1>2, CRFields DEF ObservedInv
<1>4. ASSUME NEW f \in BOOLEAN, Write(Updated(f))
      PROVE  ObservedInv'
  <2>1. PICK new : new = Updated(f)
    OBVIOUS
  <2>2. new \in CRs
    BY <1>2, <2>1, UpdatedType
  <2>3. \/ new.spec = cr.spec /\ new.gen = cr.gen /\ new.obs = cr.obs
        \/ new.gen = cr.gen + 1 /\ new.obs = cr.obs
    <3>1. PICK spec \in Specs : spec = RoundTrip(obj.spec)
      BY <1>2, CRFields, RoundTripType
    <3>2. PICK gen \in Nat : gen = IF spec = obj.spec THEN obj.gen ELSE obj.gen + 1
      BY <1>2, <1>3
    <3>3. new = [obj EXCEPT !.spec = spec, !.fin = f, !.gen = gen]
      BY <2>1, <3>1, <3>2 DEF Updated
    <3>4. new.spec = spec /\ new.gen = gen /\ new.obs = obj.obs
      BY <1>2, <3>3 DEF CRs
    <3>5. QED
      BY <1>2, <3>2, <3>4
  <2>4. new.gen = cr.gen + 1 /\ new.obs = cr.obs => new.obs < new.gen
    BY <1>3
  <2>5. QED
    BY <1>1, <1>2, <1>4, <2>1, <2>2, <2>3, <2>4, ObservedWrite
<1>5. CASE AddFinalizer
  BY <1>4, <1>5 DEF AddFinalizer
<1>6. CASE RemoveFinalizer
  BY <1>1, <1>4, <1>6, ObservedWrite DEF RemoveFinalizer
<1>7. CASE UpdateStatus
  <2>1. /\ target # Nil => target.spec = cr.spec
        /\ \A e \in Extras : extras[e] \in {Nil, Desired(cr.spec, e)}
    <3>1. pc = "applyExtras" /\ next = NExtras + 1
      BY <1>7 DEF UpdateStatus
    <3>2. \A e \in Extras : e < NExtras + 1
      BY ConstAssumption DEF Extras
    <3>3. QED
      BY <1>2, <3>1, <3>2 DEF ObservedInv
  <2>2. PICK new : new = [obj EXCEPT !.obs = obj.gen, !.ready = snap]
    OBVIOUS
  <2>3. new.spec = cr.spec /\ new.obs = cr.gen /\ new.gen = cr.gen
    BY <1>2, <2>2 DEF CRs
  <2>4. cr' = new
    BY <1>2, <1>7, <2>2 DEF UpdateStatus, Write, server
  <2>5. cr' # Nil => cr'.obs <= cr'.gen
    BY <1>3, <2>3, <2>4
  <2>6. ObservedIsApplied'
    BY <1>1, <2>1, <2>3, <2>4 DEF ObservedIsApplied
  <2>7. QED
    BY <1>1, <1>2, <2>3, <2>4, <2>5, <2>6 DEF ObservedInv, Observed, Return, ApplyPath
<1>8. QED
  BY <1>5, <1>6, <1>7

\* A status that says the current generation was observed never lies about the
\* objects: whatever stale copy a Reconcile worked from, their specs are the
\* current one (reconciler.go:300-327).
THEOREM StatusVouches == Spec => []ObservedIsApplied
<1>1. Init => ObservedInv
  BY DEF Init, ObservedInv, ObservedIsApplied, Observed, ApplyPath
<1>2. TypeOK /\ GateInv /\ ObservedInv /\ [Next]_vars => ObservedInv'
  <2> SUFFICES ASSUME TypeOK, GateInv, ObservedInv, [Next]_vars PROVE ObservedInv'
    OBVIOUS
  <2>1. CASE User \/ ForeignRelease
    BY <2>1, ObservedUser
  <2>2. CASE CacheSync \/ TimerFires \/ Vendor \/ WorkloadClaims \/ WorkloadCollected \/ Drift
    BY <2>2, ObservedCluster
  <2>3. CASE Reconcile \/ CallFails \/ Restart
    BY <2>3, ObservedStart, ObservedApply, ObservedDelete, ObservedStore, ObservedFail
       DEF Reconcile
  <2>4. CASE UNCHANGED vars
    BY <2>4, ObservedCalm DEF vars
  <2>5. QED
    BY <2>1, <2>2, <2>3, <2>4 DEF Next, Cluster
<1>3. QED
  BY <1>1, <1>2, TypeCorrect, GateInvariant, PTL DEF Spec, ObservedInv

(***************************************************************************)
(* Wakeups                                                                 *)
(***************************************************************************)

WakeupInv ==
  /\ NoLostWakeup
  /\ pc \in ApplyPath => ~obj.del

\* The key is queued whenever the worker is told of a change, or has failed.
LEMMA WakeupQueued ==
  ASSUME WakeupInv, queued' \/ ~cacheCurrent', Return \/ UNCHANGED <<pc, obj>>
  PROVE  WakeupInv'
BY DEF WakeupInv, NoLostWakeup, Return, ApplyPath

LEMMA WakeupKept ==
  ASSUME WakeupInv, UNCHANGED <<cr, cacheCurrent, queued, timer, pc, obj>>
  PROVE  WakeupInv'
BY DEF WakeupInv, NoLostWakeup

LEMMA WakeupStart ==
  ASSUME TypeOK, GateInv, WakeupInv, StartReconcile
  PROVE  WakeupInv'
<1>1. UNCHANGED <<cr, cacheCurrent, cache, timer>>
  BY DEF StartReconcile, server
<1>2. CASE cache = Nil \/ (cache.del /\ ~cache.fin)
  BY <1>1, <1>2 DEF StartReconcile, WakeupInv, NoLostWakeup, GateInv, Copies, worker, ApplyPath
<1>3. CASE ~(cache = Nil \/ (cache.del /\ ~cache.fin))
  <2>1. pc' = FirstStep(cache) /\ obj' = cache
    BY <1>3 DEF StartReconcile
  <2>2. pc' # "idle" /\ (pc' \in ApplyPath => ~cache.del)
    BY <2>1 DEF FirstStep, ApplyPath
  <2>3. QED
    BY <2>1, <2>2 DEF WakeupInv, NoLostWakeup
<1>4. QED
  BY <1>2, <1>3

\* A Reconcile that goes on stays on its path.
LEMMA WakeupProceed ==
  ASSUME WakeupInv, NEW p \in {"applyExtras", "deleteExtras", "removeFinalizer"}, NEW e, NEW s,
         pc # "idle", p = "applyExtras" => pc \in ApplyPath, Proceed(p, e, s)
  PROVE  WakeupInv'
<1>1. CASE Fault /\ Fail
  BY <1>1, WakeupQueued DEF Fail
<1>2. CASE pc' = p /\ UNCHANGED <<obj, objCurrent, queue, faults>>
  BY <1>2 DEF WakeupInv, NoLostWakeup, ApplyPath
<1>3. QED
  BY <1>1, <1>2 DEF Proceed

LEMMA WakeupStatus ==
  ASSUME TypeOK, GateInv, WakeupInv, UpdateStatus
  PROVE  WakeupInv'
<1>1. /\ obj = cr /\ cr \in CRs /\ ~cr.del /\ snap \in BOOLEAN
      /\ Return /\ timer' = Poll(snap)
  BY NilAssumption DEF UpdateStatus, GateInv, Copies, WakeupInv, ApplyPath, TypeOK, TypeWorker
<1>2. PICK new : new = [obj EXCEPT !.obs = obj.gen, !.ready = snap]
  OBVIOUS
<1>3. CASE new = obj
  <2>1. cr' = cr /\ cr.ready = snap
    BY <1>1, <1>2, <1>3 DEF UpdateStatus, server, CRs
  <2>2. timer' = "fast" \/ (timer' = "slow" /\ snap)
    BY <1>1 DEF Poll
  <2>3. QED
    BY <1>1, <2>1, <2>2 DEF WakeupInv, NoLostWakeup, Return, ApplyPath
<1>4. CASE new # obj
  <2>1. cacheCurrent' = FALSE
    BY <1>2, <1>4 DEF UpdateStatus, Write
  <2>2. QED
    BY <1>1, <2>1, WakeupQueued
<1>5. QED
  BY <1>3, <1>4

LEMMA WakeupNext ==
  ASSUME TypeOK, GateInv, WakeupInv, [Next]_vars
  PROVE  WakeupInv'
<1>1. CASE User \/ ForeignRelease
  <2>1. cacheCurrent' = FALSE /\ UNCHANGED <<pc, obj>>
    BY <1>1 DEF User, UserCreate, UserEdit, UserDelete, ForeignRelease, Write
  <2>2. QED
    BY <2>1, WakeupQueued
<1>2. CASE CacheSync \/ TimerFires
  <2>1. queued' /\ UNCHANGED <<pc, obj>>
    BY <1>2 DEF CacheSync, TimerFires, worker
  <2>2. QED
    BY <2>1, WakeupQueued
<1>3. CASE Vendor \/ WorkloadClaims \/ WorkloadCollected \/ Drift
  <2>1. UNCHANGED <<cr, cacheCurrent, queued, timer, pc, obj>>
    BY <1>3 DEF Vendor, VendorReports, VendorFinalizes, VendorDeploys, InstallKind,
       WorkloadClaims, WorkloadCollected, Drift, server, queue, worker
  <2>2. QED
    BY <2>1, WakeupKept
<1>4. CASE AddFinalizer \/ RemoveFinalizer
  <2>1. cacheCurrent' = FALSE /\ Return
    BY <1>4 DEF AddFinalizer, RemoveFinalizer, Write
  <2>2. QED
    BY <2>1, WakeupQueued
<1>5. CASE Conflict \/ UnknownKind \/ CallFails
  <2>1. queued' /\ Return
    BY <1>5 DEF Conflict, UnknownKind, CallFails, Fail
  <2>2. QED
    BY <2>1, WakeupQueued
<1>6. CASE Restart
  BY <1>6 DEF Restart, Return, WakeupInv, NoLostWakeup, ApplyPath
<1>7. CASE ApplyTarget \/ ApplyExtra
  <2>1. PICK e, s : Proceed("applyExtras", e, s)
    BY <1>7 DEF ApplyTarget, ApplyExtra
  <2>2. pc # "idle" /\ pc \in ApplyPath
    BY <1>7 DEF ApplyTarget, ApplyExtra, ApplyPath
  <2>3. QED
    BY <2>1, <2>2, WakeupProceed
<1>8. CASE DeleteTarget \/ DeleteExtra \/ DeletePVCs
  <2>1. PICK p \in {"deleteExtras", "removeFinalizer"} : \E e, s : Proceed(p, e, s)
    BY <1>8 DEF DeleteTarget, DeleteExtra, DeletePVCs
  <2>2. pc # "idle"
    BY <1>8 DEF DeleteTarget, DeleteExtra, DeletePVCs
  <2>3. QED
    BY <2>1, <2>2, WakeupProceed
<1>9. CASE UNCHANGED vars
  BY <1>9, WakeupKept DEF vars
<1>10. QED
  BY <1>1, <1>2, <1>3, <1>4, <1>5, <1>6, <1>7, <1>8, <1>9, WakeupStart, WakeupStatus
     DEF Next, Cluster, Reconcile

\* The key is never forgotten: an idle worker with a current cache has it
\* queued or polled, through failures, lost responses and restarts
\* (reconciler.go:329-333).
THEOREM WakeupsKept == Spec => []NoLostWakeup
<1>1. Init => WakeupInv
  BY DEF Init, WakeupInv, NoLostWakeup, ApplyPath
<1>2. TypeOK /\ GateInv /\ WakeupInv /\ [Next]_vars => WakeupInv'
  BY WakeupNext
<1>3. QED
  BY <1>1, <1>2, TypeCorrect, GateInvariant, PTL DEF Spec, WakeupInv

=============================================================================
