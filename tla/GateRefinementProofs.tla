------------------------ MODULE GateRefinementProofs ------------------------
(***************************************************************************)
(* The reconcile loop implements FinalizerGate: proof of ImplementsGate.   *)
(* Each step of the loop is one step of the gate or none at all, given     *)
(* TypeOK, GateInv and how Reconcile enters its two paths.                 *)
(***************************************************************************)
EXTENDS GenericReconcilerProofs

Leaving == cr # Nil /\ cr.del
Owned == {e \in Extras : extras[e] # Nil} \cup (IF Live(target) THEN {0} ELSE {})

\* A Reconcile adds the finalizer only to a copy that is not being deleted,
\* and tears down only for a copy that has it (reconciler.go:235-240, 273).
Entered ==
  /\ pc = "addFinalizer" => ~obj.del
  /\ pc \in DeletePath => obj.fin

LEMMA EnteredKept ==
  ASSUME TypeOK, Entered, [Next]_vars
  PROVE  Entered'
<1>1. CASE UNCHANGED <<pc, obj>>
  BY <1>1 DEF Entered
<1>2. CASE pc' = "idle"
  BY <1>2 DEF Entered, DeletePath
<1>3. CASE StartReconcile
  <2>1. CASE UNCHANGED worker
    BY <2>1, <1>1 DEF worker
  <2>2. CASE pc' = FirstStep(cache) /\ obj' = cache /\ ~(cache.del /\ ~cache.fin)
    <3>1. cache \in CRs \/ cache = Nil
      BY DEF TypeOK, TypeServer
    <3>2. pc' = "addFinalizer" => ~cache.del
      BY <2>2 DEF FirstStep
    <3>3. pc' \in DeletePath => cache.del
      BY <2>2 DEF FirstStep, DeletePath
    <3>4. QED
      BY <2>2, <3>2, <3>3 DEF Entered
  <2>3. QED
    BY <1>3, <2>1, <2>2 DEF StartReconcile
<1>4. ASSUME NEW p \in ApplyPath, NEW e, NEW s, Proceed(p, e, s)
      PROVE  Entered'
  BY <1>4, <1>2 DEF Proceed, Fail, Return, Entered, ApplyPath, DeletePath
<1>5. ASSUME NEW p \in DeletePath, NEW e, NEW s, Proceed(p, e, s), pc \in DeletePath
      PROVE  Entered'
  BY <1>5, <1>2 DEF Proceed, Fail, Return, Entered, DeletePath
<1>6. CASE ApplyTarget \/ ApplyExtra
  BY <1>6, <1>4 DEF ApplyTarget, ApplyExtra, ApplyPath
<1>7. CASE DeleteTarget \/ DeleteExtra \/ DeletePVCs
  BY <1>7, <1>5 DEF DeleteTarget, DeleteExtra, DeletePVCs, DeletePath
<1>8. CASE AddFinalizer \/ UpdateStatus \/ RemoveFinalizer \/ Conflict \/ UnknownKind
           \/ CallFails \/ Restart
  BY <1>8, <1>2 DEF AddFinalizer, UpdateStatus, RemoveFinalizer, Conflict, UnknownKind,
                    CallFails, Restart, Fail, Return
<1>9. CASE User
  BY <1>9, <1>1 DEF User, UserCreate, UserEdit, UserDelete
<1>10. CASE CacheSync \/ TimerFires
  BY <1>10, <1>1 DEF CacheSync, TimerFires, worker
<1>11. CASE Vendor
  BY <1>11, <1>1 DEF Vendor, InstallKind, VendorReports, VendorFinalizes, VendorDeploys, worker
<1>12. CASE Cluster
  BY <1>12, <1>1 DEF Cluster, ForeignRelease, WorkloadClaims, WorkloadCollected, Drift, worker
<1>13. CASE UNCHANGED vars
  BY <1>13, <1>1 DEF vars
<1>14. QED
  BY <1>3, <1>6, <1>7, <1>8, <1>9, <1>10, <1>11, <1>12, <1>13 DEF Next, Reconcile

(***************************************************************************)
(* What a step has to do to be a step of the gate, or none                 *)
(***************************************************************************)

LEMMA GateStutter ==
  ASSUME (cr' # Nil) <=> (cr # Nil), Guarded' <=> Guarded, Leaving' <=> Leaving,
         Owned' = Owned
  PROVE  UNCHANGED Gate!vars
BY Zenon DEF Gate!vars, Guarded, Leaving, Owned

LEMMA GateMake ==
  ASSUME NEW o \in Extras \cup {0}, UNCHANGED cr, Guarded, Owned' = Owned \cup {o}
  PROVE  Gate!Next
<1>1. Gate!Make(o)
  BY DEF Gate!Make, Guarded, Owned
<1>2. QED
  BY <1>1 DEF Gate!Next

LEMMA GateLose ==
  ASSUME NEW o \in Extras \cup {0}, UNCHANGED cr, Owned' = Owned \ {o}
  PROVE  Gate!Next \/ UNCHANGED Gate!vars
<1>1. CASE o \in Owned
  <2>1. Gate!Lose(o)
    BY <1>1 DEF Gate!Lose, Owned
  <2>2. QED
    BY <2>1 DEF Gate!Next
<1>2. CASE o \notin Owned
  <2>1. Owned' = Owned
    BY <1>2
  <2>2. QED
    BY <2>1, GateStutter DEF Guarded, Leaving
<1>3. QED
  BY <1>1, <1>2

\* A step that touches neither the CR nor the objects is none of the gate's.
LEMMA GateIdle ==
  ASSUME UNCHANGED <<cr, target, extras>>
  PROVE  UNCHANGED Gate!vars
<1>1. Owned' = Owned
  BY DEF Owned, Live
<1>2. QED
  BY <1>1, GateStutter DEF Guarded, Leaving

\* The CR disappears without its finalizer ever having been there, or after.
LEMMA GateVanish ==
  ASSUME cr # Nil, ~cr.fin, cr' = Nil, Owned' = Owned
  PROVE  Gate!Next
<1>1. Gate!Vanish
  BY DEF Gate!Vanish, Owned
<1>2. QED
  BY <1>1 DEF Gate!Next

(***************************************************************************)
(* The steps                                                               *)
(***************************************************************************)

LEMMA UserSimulates ==
  ASSUME TypeOK, GateInv, User \/ ForeignRelease
  PROVE  Gate!Next \/ UNCHANGED Gate!vars
<1>0. Owned' = Owned
  BY DEF User, UserCreate, UserEdit, UserDelete, ForeignRelease, managed, Owned, Live
<1>1. cr \in CRs \/ cr = Nil
  BY DEF TypeOK, TypeServer
<1>2. ASSUME NEW spec \in Specs, NEW other \in BOOLEAN, UserCreate(spec, other)
      PROVE  Gate!Next
  <2>1. cr = Nil /\ cr' \in CRs /\ ~cr'.fin /\ ~cr'.del
    BY <1>2 DEF UserCreate, Write, CRs
  <2>2. Gate!Create
    BY <1>0, <2>1, NilAssumption DEF Gate!Create, Owned
  <2>3. QED
    BY <2>2 DEF Gate!Next
<1>3. ASSUME NEW spec \in Specs, UserEdit(spec)
      PROVE  UNCHANGED Gate!vars
  <2>1. cr \in CRs /\ cr' = [cr EXCEPT !.spec = spec, !.gen = @ + 1]
    BY <1>3, <1>1 DEF UserEdit, Write
  <2>2. PICK g \in Nat : g = cr.gen + 1
    BY <2>1 DEF CRs
  <2>3. cr' = [cr EXCEPT !.spec = spec, !.gen = g]
    BY <2>1, <2>2 DEF CRs
  <2>4. cr' \in CRs /\ cr'.fin = cr.fin /\ cr'.del = cr.del
    BY <2>1, <2>2, <2>3 DEF CRs
  <2>5. QED
    BY <1>0, <2>1, <2>4, NilAssumption, GateStutter DEF Guarded, Leaving
<1>4. CASE UserDelete
  <2>1. cr \in CRs /\ ~cr.del
    BY <1>4, <1>1 DEF UserDelete
  <2>2. CASE cr.fin \/ cr.other
    <3>1. cr' = [cr EXCEPT !.del = TRUE, !.gen = @ + 1]
      BY <1>4, <2>2 DEF UserDelete, Write
    <3>2. cr' \in CRs /\ cr'.fin = cr.fin /\ cr'.del
      BY <2>1, <3>1, EditedType, CRFields DEF CRs
    <3>3. Gate!Leave
      BY <1>0, <2>1, <3>2, NilAssumption DEF Gate!Leave, Owned
    <3>4. QED
      BY <3>3 DEF Gate!Next
  <2>3. CASE ~(cr.fin \/ cr.other)
    BY <1>4, <1>0, <2>1, <2>3, NilAssumption, GateVanish DEF UserDelete, Write
  <2>4. QED
    BY <2>2, <2>3
<1>5. CASE ForeignRelease
  <2>1. cr \in CRs
    BY <1>5, <1>1 DEF ForeignRelease
  <2>2. CASE cr.fin
    <3>1. cr' = [cr EXCEPT !.other = FALSE]
      BY <1>5, <2>2 DEF ForeignRelease, Write
    <3>2. cr' \in CRs /\ cr'.fin = cr.fin /\ cr'.del = cr.del
      BY <2>1, <3>1 DEF CRs
    <3>3. QED
      BY <1>0, <2>1, <3>2, NilAssumption, GateStutter DEF Guarded, Leaving
  <2>3. CASE ~cr.fin
    BY <1>5, <1>0, <2>1, <2>3, NilAssumption, GateVanish DEF ForeignRelease, Write
  <2>4. QED
    BY <2>2, <2>3
<1>6. QED
  BY <1>2, <1>3, <1>4, <1>5, ConstAssumption DEF User

\* The worker's own writes to the CR: its copy is the server's version.
LEMMA StoreSimulates ==
  ASSUME TypeOK, GateInv, Entered, AddFinalizer \/ UpdateStatus \/ RemoveFinalizer
  PROVE  Gate!Next \/ UNCHANGED Gate!vars
<1>1. Owned' = Owned
  BY DEF AddFinalizer, UpdateStatus, RemoveFinalizer, managed, Owned, Live
<1>2. obj = cr /\ cr \in CRs
  BY DEF AddFinalizer, UpdateStatus, RemoveFinalizer, GateInv, Copies, TypeOK, TypeWorker
<1>3. CASE AddFinalizer
  <2>1. cr' \in CRs /\ cr'.fin /\ cr'.del = cr.del
    BY <1>2, <1>3, UpdatedType DEF AddFinalizer, Write
  <2>2. ~cr.fin /\ ~cr.del
    BY <1>2, <1>3 DEF AddFinalizer, GateInv, Progress, Entered
  <2>3. Gate!Guard
    BY <1>1, <1>2, <2>1, <2>2, NilAssumption DEF Gate!Guard, Owned
  <2>4. QED
    BY <2>3 DEF Gate!Next
<1>4. CASE UpdateStatus
  <2>1. CASE UNCHANGED server
    BY <1>1, <2>1, GateStutter DEF server, Guarded, Leaving
  <2>2. CASE Write([obj EXCEPT !.obs = obj.gen, !.ready = snap])
    <3>1. cr' \in CRs /\ cr'.fin = cr.fin /\ cr'.del = cr.del
      BY <1>2, <2>2 DEF Write, CRs, TypeOK, TypeWorker
    <3>2. QED
      BY <1>1, <1>2, <3>1, NilAssumption, GateStutter DEF Guarded, Leaving
  <2>3. QED
    BY <1>4, <2>1, <2>2 DEF UpdateStatus
<1>5. CASE RemoveFinalizer
  <2>1. cr.fin /\ cr.del
    BY <1>2, <1>5 DEF RemoveFinalizer, GateInv, Progress, Entered, DeletePath
  <2>2. Owned = {}
    BY <1>5 DEF RemoveFinalizer, GateInv, Progress, Owns, Owned
  <2>3. \/ cr' = Nil
        \/ cr' \in CRs /\ ~cr'.fin /\ cr'.del
    BY <1>2, <1>5, <2>1, UpdatedType DEF RemoveFinalizer, Write
  <2>4. Gate!Release
    BY <1>1, <1>2, <2>1, <2>2, <2>3, NilAssumption DEF Gate!Release, Owned
  <2>5. QED
    BY <2>4 DEF Gate!Next
<1>6. QED
  BY <1>3, <1>4, <1>5

\* Applying a wanted object makes it, pruning or deleting one loses it.
LEMMA ManagedSimulates ==
  ASSUME TypeOK, GateInv,
         ApplyTarget \/ ApplyExtra \/ DeleteTarget \/ DeleteExtra \/ Drift
  PROVE  Gate!Next \/ UNCHANGED Gate!vars
<1>1. UNCHANGED cr
  BY DEF ApplyTarget, ApplyExtra, DeleteTarget, DeleteExtra, Drift, server
<1>2. 0 \notin Extras
  BY ConstAssumption DEF Extras
<1>3. extras \in [Extras -> Specs \cup {Nil}] /\ target \in Targets \cup {Nil}
  BY DEF TypeOK, TypeManaged
<1>4. ASSUME NEW e \in Extras, UNCHANGED target, extras' = [extras EXCEPT ![e] = Nil]
      PROVE  Owned' = Owned \ {e}
  BY <1>2, <1>3, <1>4 DEF Owned, Live
<1>5. ASSUME UNCHANGED extras, ~Live(target)'
      PROVE  Owned' = Owned \ {0}
  BY <1>2, <1>5 DEF Owned, Live
<1>6. CASE ApplyTarget
  <2>1. Guarded /\ UNCHANGED extras
    BY <1>6 DEF ApplyTarget, GateInv, Progress, ApplyPath
  <2>2. CASE target = Nil
    <3>1. obj.spec \in Specs
      BY <1>6 DEF ApplyTarget, TypeOK, TypeWorker, CRs
    <3>2. target' \in Targets /\ ~target'.del
      BY <1>6, <2>2, <3>1 DEF ApplyTarget, Targets
    <3>3. Live(target)'
      BY <3>2, NilAssumption DEF Live
    <3>4. Owned' = Owned \cup {0}
      BY <2>1, <3>3 DEF Owned, Live
    <3>5. QED
      BY <1>1, <2>1, <3>4, GateMake
  <2>3. CASE target # Nil
    <3>1. target \in Targets /\ target' = [target EXCEPT !.spec = obj.spec]
      BY <1>3, <1>6, <2>3 DEF ApplyTarget
    <3>2. obj.spec \in Specs
      BY <1>6 DEF ApplyTarget, TypeOK, TypeWorker, CRs
    <3>3. target' \in Targets /\ target'.del = target.del
      BY <3>1, <3>2 DEF Targets
    <3>4. Owned' = Owned
      BY <2>1, <3>1, <3>3, NilAssumption DEF Owned, Live
    <3>5. QED
      BY <1>1, <3>4, GateStutter DEF Guarded, Leaving
  <2>4. QED
    BY <2>2, <2>3
<1>7. CASE ApplyExtra
  <2>1. /\ Guarded /\ UNCHANGED target /\ next \in Extras
        /\ extras' = [extras EXCEPT ![next] = Desired(obj.spec, next)]
    BY <1>7 DEF ApplyExtra, GateInv, Progress, ApplyPath, TypeOK, TypeServer
  <2>2. CASE Desired(obj.spec, next) = Nil
    BY <1>1, <1>4, <2>1, <2>2, GateLose
  <2>3. CASE Desired(obj.spec, next) # Nil
    <3>1. Owned' = Owned \cup {next}
      BY <1>2, <1>3, <2>1, <2>3 DEF Owned, Live
    <3>2. QED
      BY <1>1, <2>1, <3>1, GateMake
  <2>4. QED
    BY <2>2, <2>3
<1>8. CASE DeleteTarget
  <2>1. UNCHANGED extras /\ ~Live(target)'
    BY <1>3, <1>8 DEF DeleteTarget, Live, Targets
  <2>2. QED
    BY <1>1, <1>5, <2>1, GateLose
<1>9. CASE DeleteExtra
  <2>1. /\ UNCHANGED target /\ next \in Extras
        /\ extras' = [extras EXCEPT ![next] = Nil]
    BY <1>9 DEF DeleteExtra, TypeOK, TypeServer
  <2>2. QED
    BY <1>1, <1>4, <2>1, GateLose
<1>10. CASE Drift
  <2>1. CASE UNCHANGED extras /\ target' = Nil
    BY <1>1, <1>5, <2>1, GateLose DEF Live
  <2>2. ASSUME NEW e \in Extras, UNCHANGED target, extras' = [extras EXCEPT ![e] = Nil]
        PROVE  Gate!Next \/ UNCHANGED Gate!vars
    BY <1>1, <1>4, <2>2, GateLose
  <2>3. QED
    BY <1>10, <2>1, <2>2 DEF Drift
<1>11. QED
  BY <1>6, <1>7, <1>8, <1>9, <1>10

\* The vendor's reports, and the end of a terminating target, change nothing
\* the gate counts: a target on its way out was lost at the delete call.
LEMMA VendorSimulates ==
  ASSUME TypeOK, VendorReports \/ VendorFinalizes
  PROVE  UNCHANGED Gate!vars
<1>1. UNCHANGED <<cr, extras>> /\ target \in Targets
  BY DEF VendorReports, VendorFinalizes, server, TypeOK, TypeManaged
<1>2. CASE VendorReports
  <2>1. target' \in Targets /\ target'.del = target.del
    BY <1>1, <1>2 DEF VendorReports, Targets
  <2>2. Owned' = Owned
    BY <1>1, <2>1, NilAssumption DEF Owned, Live
  <2>3. QED
    BY <1>1, <2>2, GateStutter DEF Guarded, Leaving
<1>3. CASE VendorFinalizes
  <2>1. Owned' = Owned
    BY <1>1, <1>3 DEF VendorFinalizes, Owned, Live
  <2>2. QED
    BY <1>1, <2>1, GateStutter DEF Guarded, Leaving
<1>4. QED
  BY <1>2, <1>3

\* Everything else leaves the CR and the objects alone.
LEMMA RestIdles ==
  ASSUME TypeOK,
         \/ StartReconcile \/ DeletePVCs \/ Conflict \/ UnknownKind \/ CallFails \/ Restart
         \/ CacheSync \/ TimerFires \/ VendorDeploys \/ WorkloadClaims \/ WorkloadCollected
         \/ (\E e \in Extras : InstallKind(e)) \/ UNCHANGED vars
  PROVE  UNCHANGED Gate!vars
<1>1. UNCHANGED <<cr, target, extras>>
  BY DEF StartReconcile, DeletePVCs, Conflict, UnknownKind, CallFails, Restart, CacheSync,
         TimerFires, VendorDeploys, WorkloadClaims, WorkloadCollected, InstallKind, vars,
         server, managed
<1>2. QED
  BY <1>1, GateIdle

(***************************************************************************)
(* The theorem                                                             *)
(***************************************************************************)

\* The loop of reconciler.go:219-334 implements the finalizer protocol: it
\* makes objects only under a CR that carries the finalizer, and takes the
\* finalizer off only a CR being deleted that owns nothing any more, whatever
\* the cache, lost responses, crashes, users and vendors do in between.
THEOREM LoopImplementsGate == Spec => ImplementsGate
<1>1. Init => Gate!Init
  BY DEF Init, Gate!Init, Live
<1>2. Init => Entered
  BY DEF Init, Entered, DeletePath
<1>3. TypeOK /\ Entered /\ [Next]_vars => Entered'
  BY EnteredKept
<1>4. TypeOK /\ GateInv /\ Entered /\ [Next]_vars => [Gate!Next]_(Gate!vars)
  <2> SUFFICES ASSUME TypeOK, GateInv, Entered, [Next]_vars
               PROVE  Gate!Next \/ UNCHANGED Gate!vars
    OBVIOUS
  <2>1. CASE User \/ ForeignRelease
    BY <2>1, UserSimulates
  <2>2. CASE AddFinalizer \/ UpdateStatus \/ RemoveFinalizer
    BY <2>2, StoreSimulates
  <2>3. CASE ApplyTarget \/ ApplyExtra \/ DeleteTarget \/ DeleteExtra \/ Drift
    BY <2>3, ManagedSimulates
  <2>4. CASE VendorReports \/ VendorFinalizes
    BY <2>4, VendorSimulates
  <2>5. CASE \/ StartReconcile \/ DeletePVCs \/ Conflict \/ UnknownKind \/ CallFails \/ Restart
             \/ CacheSync \/ TimerFires \/ VendorDeploys \/ WorkloadClaims \/ WorkloadCollected
             \/ (\E e \in Extras : InstallKind(e)) \/ UNCHANGED vars
    BY <2>5, RestIdles
  <2>6. QED
    BY <2>1, <2>2, <2>3, <2>4, <2>5 DEF Next, Reconcile, Vendor, Cluster
<1>5. QED
  BY <1>1, <1>2, <1>3, <1>4, TypeCorrect, GateInvariant, PTL
     DEF Spec, ImplementsGate, Gate!Spec

=============================================================================
