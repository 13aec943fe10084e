----------------------- MODULE StatefulSetRolloutProofs -----------------------
(***************************************************************************)
(* Theorems about StatefulSetRollout, for every number of pods and every   *)
(* number of changes, flaps and faults: type correctness, and that nothing *)
(* of an earlier StatefulSet is ever taken for this one's.                 *)
(***************************************************************************)
EXTENDS StatefulSetRollout, TLAPS

(***************************************************************************)
(* Type correctness                                                        *)
(***************************************************************************)

LEMMA BoundsNat == /\ NPods \in Nat /\ MaxChanges \in Nat
                   /\ MaxFlaps \in Nat /\ MaxFaults \in Nat
                   /\ Nil \notin Templates
BY RolloutAssumption

\* A later version of a template is a template.
LEMMA Bumped ==
  ASSUME NEW t \in Templates
  PROVE  /\ [rev |-> t.rev + 1, fix |-> TRUE] \in Templates
         /\ [t EXCEPT !.rev = @ + 1] = [rev |-> t.rev + 1, fix |-> t.fix]
         /\ [t EXCEPT !.rev = @ + 1] \in Templates
<1>1. PICK n \in Nat : n = t.rev + 1
  BY DEF Templates
<1>2. /\ t = [rev |-> t.rev, fix |-> t.fix]
      /\ [t EXCEPT !.rev = @ + 1] = [t EXCEPT !.rev = n]
  BY <1>1 DEF Templates
<1>3. [t EXCEPT !.rev = n] = [rev |-> n, fix |-> t.fix]
  BY <1>2
<1>4. QED
  BY <1>1, <1>2, <1>3 DEF Templates

LEMMA Counted ==
  ASSUME NEW max \in Nat, NEW n \in 0..max, n < max
  PROVE  n + 1 \in 0..max
OBVIOUS

\* A step that leaves the cluster alone keeps the types of what describes it.
TypeCluster ==
  /\ {template, update, current} \subseteq Templates \cup {Nil}
  /\ pod \in [Pods -> PodStates]
  /\ seen \in [Pods -> PodStates]
  /\ \A p \in Pods : pod[p] # Nil /\ pod[p].ready => pod[p].of.fix

TypeReconciler ==
  /\ wanted \in Templates \cup {Nil}
  /\ pc \in {"idle", "patch", "revisions", "list", "delete"}
  /\ pc \in {"list", "delete"} => wanted \in Templates
  /\ doomed \subseteq Pods

TypeBudgets ==
  changes \in 0..MaxChanges /\ flaps \in 0..MaxFlaps /\ faults \in 0..MaxFaults

LEMMA TypeParts ==
  /\ TypeOK <=> TypeCluster /\ TypeReconciler /\ TypeBudgets
  /\ TypeOK' <=> TypeCluster' /\ TypeReconciler' /\ TypeBudgets'
BY DEF TypeOK, TypeCluster, TypeReconciler, TypeBudgets

LEMMA TypeInit == Init => TypeOK
BY BoundsNat DEF Init, TypeOK, PodStates

\* What one write of a pod needs for the pods to keep their type.
LEMMA OnePod ==
  ASSUME TypeCluster, NEW p \in Pods, NEW s \in PodStates,
         s # Nil /\ s.ready => s.of.fix,
         pod' = [pod EXCEPT ![p] = s], UNCHANGED <<set, seen>>
  PROVE  TypeCluster'
BY DEF TypeCluster, set

LEMMA TypeNext ==
  ASSUME TypeOK, [Next]_vars
  PROVE  TypeOK'
<1>0. TypeCluster /\ TypeReconciler /\ TypeBudgets
  BY TypeParts
<1>a. ASSUME UNCHANGED <<set, pod, seen>> PROVE TypeCluster'
  BY <1>0, <1>a DEF TypeCluster, set
<1>b. ASSUME UNCHANGED reconciler PROVE TypeReconciler'
  BY <1>0, <1>b DEF TypeReconciler, reconciler
<1>c. ASSUME UNCHANGED budgets PROVE TypeBudgets'
  BY <1>0, <1>c DEF TypeBudgets, budgets
<1>d. ASSUME Return PROVE TypeReconciler'
  BY <1>d DEF TypeReconciler, Return
<1>e. Nil \in PodStates
  BY DEF PodStates
<1>1. CASE GetExisting
  BY <1>0, <1>1, <1>a, <1>c, TypeParts DEF GetExisting, TypeReconciler
<1>2. CASE Patch
  <2>1. template' \in Templates \cup {Nil}
    BY <1>0, <1>2, Bumped DEF Patch, TypeCluster
  <2>2. TypeCluster'
    BY <1>0, <1>2, <2>1 DEF Patch, TypeCluster
  <2>3. TypeReconciler'
    BY <1>0, <1>2, <1>d DEF Patch, TypeReconciler
  <2>4. QED
    BY <1>2, <1>c, <2>2, <2>3, TypeParts DEF Patch
<1>3. CASE ReadRevisions
  <2>1. TypeReconciler'
    BY <1>0, <1>3, <1>d DEF ReadRevisions, Read, TypeReconciler, TypeCluster
  <2>2. QED
    BY <1>3, <1>a, <1>c, <2>1, TypeParts DEF ReadRevisions, Read
<1>4. CASE ListPods
  BY <1>0, <1>4, <1>a, <1>c, TypeParts DEF ListPods, TypeReconciler
<1>5. ASSUME NEW p \in Pods, DeletePod(p) PROVE TypeOK'
  <2>1. TypeCluster'
    BY <1>0, <1>5, <1>e, OnePod DEF DeletePod
  <2>2. TypeReconciler'
    BY <1>0, <1>5 DEF DeletePod, TypeReconciler
  <2>3. QED
    BY <1>5, <1>c, <2>1, <2>2, TypeParts DEF DeletePod
<1>6. CASE Finish
  BY <1>6, <1>a, <1>c, <1>d, TypeParts DEF Finish
<1>7. CASE CallFails
  <2>1. TypeBudgets'
    BY <1>0, <1>7, Counted, BoundsNat DEF CallFails, TypeBudgets
  <2>2. QED
    BY <1>7, <1>a, <1>d, <2>1, TypeParts DEF CallFails
<1>8. CASE ObserveTemplate
  <2>1. TypeCluster'
    BY <1>0, <1>8 DEF ObserveTemplate, TypeCluster
  <2>2. QED
    BY <1>8, <1>b, <1>c, <2>1, TypeParts DEF ObserveTemplate
<1>9. CASE FinishRollout
  <2>1. TypeCluster'
    BY <1>0, <1>9 DEF FinishRollout, TypeCluster
  <2>2. QED
    BY <1>9, <1>b, <1>c, <2>1, TypeParts DEF FinishRollout
<1>10. ASSUME NEW p \in Pods, CreatePod(p) PROVE TypeOK'
  <2> DEFINE s == [of |-> update, ready |-> FALSE]
  <2>1. s \in PodStates /\ ~s.ready
    BY <1>0, <1>10 DEF CreatePod, TypeCluster, PodStates
  <2>2. pod' = [pod EXCEPT ![p] = s] /\ UNCHANGED <<set, seen, reconciler, budgets>>
    BY <1>10 DEF CreatePod
  <2> HIDE DEF s
  <2>3. TypeCluster'
    BY <1>0, <2>1, <2>2, OnePod
  <2>4. QED
    BY <1>b, <1>c, <2>2, <2>3, TypeParts
<1>11. ASSUME NEW p \in Pods, RollPod(p) \/ CollectPod(p) PROVE TypeOK'
  <2>1. pod' = [pod EXCEPT ![p] = Nil] /\ UNCHANGED <<set, seen, reconciler, budgets>>
    BY <1>11 DEF RollPod, CollectPod
  <2>2. TypeCluster'
    BY <1>0, <1>e, <2>1, OnePod
  <2>3. QED
    BY <1>b, <1>c, <2>1, <2>2, TypeParts
<1>12. ASSUME NEW p \in Pods, NEW r \in BOOLEAN, pod[p] # Nil, r => pod[p].of.fix,
              pod' = [pod EXCEPT ![p].ready = r], UNCHANGED <<set, seen>>
       PROVE  TypeCluster'
  <2>1. pod[p] \in [of : Templates, ready : BOOLEAN]
    BY <1>0, <1>12 DEF TypeCluster, PodStates
  <2> DEFINE s == [pod[p] EXCEPT !.ready = r]
  <2>2. s \in PodStates /\ s.ready = r /\ s.of = pod[p].of
    BY <2>1, <1>12 DEF PodStates
  <2>3. pod' = [pod EXCEPT ![p] = s]
    BY <1>12
  <2> HIDE DEF s
  <2>4. QED
    BY <1>0, <1>12, <2>2, <2>3, OnePod
<1>13. ASSUME NEW p \in Pods, BecomeReady(p) PROVE TypeOK'
  <2>1. TypeCluster'
    BY <1>12, <1>13 DEF BecomeReady
  <2>2. QED
    BY <1>13, <1>b, <1>c, <2>1, TypeParts DEF BecomeReady
<1>14. ASSUME NEW p \in Pods, Flap(p) PROVE TypeOK'
  <2>1. TypeCluster'
    BY <1>12, <1>14 DEF Flap, Healthy
  <2>2. TypeBudgets'
    BY <1>0, <1>14, Counted, BoundsNat DEF Flap, TypeBudgets
  <2>3. QED
    BY <1>14, <1>b, <2>1, <2>2, TypeParts DEF Flap
<1>15. ASSUME NEW p \in Pods, SeePod(p) PROVE TypeOK'
  <2>1. TypeCluster'
    BY <1>0, <1>15 DEF SeePod, TypeCluster, set
  <2>2. QED
    BY <1>15, <1>b, <1>c, <2>1, TypeParts DEF SeePod
<1>16. CASE LokiCreates
  <2>1. TypeCluster'
    BY <1>0, <1>16 DEF LokiCreates, TypeCluster, Templates
  <2>2. QED
    BY <1>16, <1>b, <1>c, <2>1, TypeParts DEF LokiCreates
<1>17. CASE LokiChanges
  <2>1. template' \in Templates
    BY <1>0, <1>17, Bumped DEF LokiChanges, TypeCluster
  <2>2. TypeCluster'
    BY <1>0, <1>17, <2>1 DEF LokiChanges, TypeCluster
  <2>3. TypeBudgets'
    BY <1>0, <1>17, Counted, BoundsNat DEF LokiChanges, TypeBudgets
  <2>4. QED
    BY <1>17, <1>b, <2>2, <2>3, TypeParts DEF LokiChanges
<1>18. CASE LokiDeletes
  <2>1. TypeCluster'
    BY <1>0, <1>18 DEF LokiDeletes, TypeCluster
  <2>2. TypeBudgets'
    BY <1>0, <1>18, Counted, BoundsNat DEF LokiDeletes, TypeBudgets
  <2>3. QED
    BY <1>18, <1>b, <2>1, <2>2, TypeParts DEF LokiDeletes
<1>19. CASE UNCHANGED vars
  <2>1. UNCHANGED <<set, pod, seen>> /\ UNCHANGED reconciler /\ UNCHANGED budgets
    BY <1>19 DEF vars, set, reconciler, budgets
  <2>2. QED
    BY <1>a, <1>b, <1>c, <2>1, TypeParts
<1>20. QED
  BY <1>1, <1>2, <1>3, <1>4, <1>5, <1>6, <1>7, <1>8, <1>9, <1>10, <1>11, <1>13, <1>14, <1>15,
     <1>16, <1>17, <1>18, <1>19 DEF Next, Reconcile, StatefulSetController

\* Every variable keeps its type, and no pod is ready without the field the
\* reconciler claims.
THEOREM RolloutTypeCorrect == Spec => []TypeOK
BY TypeInit, TypeNext, PTL DEF Spec

(***************************************************************************)
(* One lineage of templates                                                *)
(***************************************************************************)

\* The revisions are those of the StatefulSet there is.
LineageInv ==
  /\ TypeOK
  /\ template = Nil => update = Nil
  /\ current = Nil <=> update = Nil
  /\ OneLineage

LEMMA FollowsItself ==
  ASSUME NEW a \in Templates
  PROVE  Follows(a, a)
BY DEF Follows, Templates

LEMMA FollowsOn ==
  ASSUME NEW a \in Templates, NEW b \in Templates, NEW c \in Templates,
         Follows(a, b), Follows(b, c)
  PROVE  Follows(a, c)
BY DEF Follows, Templates

\* A new version, with the field or the way it was, follows the old one.
LEMMA BumpFollows ==
  ASSUME NEW a \in Templates, NEW f \in BOOLEAN, a.fix => f
  PROVE  Follows(a, [rev |-> a.rev + 1, fix |-> f])
BY DEF Follows, Templates

LEMMA LineageInit == Init => LineageInv
BY TypeInit DEF Init, LineageInv, OneLineage

\* The three ways the templates and the pods evolve while there is a
\* StatefulSet: its template is replaced by one that follows it, the
\* controller catches up with it, or one pod is deleted or is of the update
\* revision or of the template it was of.
LEMMA TemplateGrows ==
  ASSUME LineageInv, template # Nil, template' \in Templates, Follows(template, template'),
         UNCHANGED <<update, current, pod>>
  PROVE  OneLineage'
<1> SUFFICES ASSUME update # Nil
             PROVE  Follows(update, template')
  BY DEF LineageInv, OneLineage
<1>1. {update, template} \subseteq Templates /\ Follows(update, template)
  BY DEF LineageInv, OneLineage, TypeOK
<1>2. QED
  BY <1>1, FollowsOn

LEMMA OnePodMoves ==
  ASSUME LineageInv, NEW p \in Pods, NEW s, UNCHANGED set,
         pod' = [pod EXCEPT ![p] = s],
         s # Nil => \/ update # Nil /\ s.of = update
                    \/ pod[p] # Nil /\ s.of = pod[p].of
  PROVE  OneLineage'
<1> SUFFICES ASSUME template # Nil
             PROVE  \A q \in Pods : pod'[q] # Nil => update # Nil /\ Follows(pod'[q].of, update)
  BY DEF LineageInv, OneLineage, set
<1>1. ASSUME NEW q \in Pods, q # p
      PROVE  pod'[q] = pod[q]
  BY <1>1 DEF LineageInv, TypeOK
<1>2. pod'[p] = s
  BY DEF LineageInv, TypeOK
<1>3. update # Nil => update \in Templates
  BY DEF LineageInv, TypeOK
<1>4. QED
  BY <1>1, <1>2, <1>3, FollowsItself DEF LineageInv, OneLineage

LEMMA LineageStep ==
  ASSUME LineageInv, TypeOK', [Next]_vars
  PROVE  LineageInv'
<1> SUFFICES /\ template' = Nil => update' = Nil
             /\ current' = Nil <=> update' = Nil
             /\ OneLineage'
  BY DEF LineageInv
<1>a. Nil \notin Templates
  BY BoundsNat
<1>b. /\ template # Nil => template \in Templates
      /\ update # Nil => update \in Templates
      /\ current # Nil => current \in Templates
      /\ \A p \in Pods : pod[p] # Nil => pod[p].of \in Templates
  BY DEF LineageInv, TypeOK, PodStates
<1>1. CASE Patch
  <2>1. CASE template = Nil \/ template.fix
    BY <1>1, <2>1 DEF Patch, LineageInv, OneLineage
  <2>2. CASE template # Nil /\ ~template.fix
    <3>1. /\ template \in Templates /\ UNCHANGED <<update, current, pod>>
          /\ template' = [rev |-> template.rev + 1, fix |-> TRUE]
      BY <1>1, <1>b, <2>2 DEF Patch
    <3>2. template' \in Templates /\ Follows(template, template')
      BY <3>1, Bumped, BumpFollows
    <3>3. QED
      BY <1>a, <2>2, <3>1, <3>2, TemplateGrows DEF LineageInv
  <2>3. QED
    BY <2>1, <2>2
<1>2. CASE LokiChanges
  <2>1. /\ template # Nil /\ UNCHANGED <<update, current, pod>>
        /\ template' = [template EXCEPT !.rev = @ + 1]
    BY <1>2 DEF LokiChanges
  <2>2. template' = [rev |-> template.rev + 1, fix |-> template.fix] /\ template' \in Templates
    BY <1>b, <2>1, Bumped
  <2>3. template.fix \in BOOLEAN
    BY <1>b, <2>1 DEF Templates
  <2>4. Follows(template, template')
    BY <1>b, <2>1, <2>2, <2>3, BumpFollows
  <2>5. QED
    BY <1>a, <2>1, <2>2, <2>4, TemplateGrows DEF LineageInv
<1>3. CASE LokiCreates
  <2>1. template = Nil /\ UNCHANGED <<update, current, pod>> /\ \A p \in Pods : pod[p] = Nil
    BY <1>3 DEF LokiCreates
  <2>2. QED
    BY <2>1, <1>3, <1>a DEF LineageInv, OneLineage, TypeOK
<1>4. CASE LokiDeletes
  BY <1>4 DEF LokiDeletes, OneLineage
<1>5. CASE ObserveTemplate
  <2>1. /\ template # Nil /\ update' = template /\ template' = template /\ pod' = pod
        /\ current' = IF current = Nil THEN template ELSE current
    BY <1>5 DEF ObserveTemplate, LineageInv
  <2>2. Follows(template, template)
    BY <1>b, <2>1, FollowsItself
  <2>3. Follows(current', template)
    BY <1>b, <2>1, <2>2, FollowsOn DEF LineageInv, OneLineage
  <2>4. \A p \in Pods : pod[p] # Nil => Follows(pod[p].of, template)
    BY <1>b, <2>1, FollowsOn DEF LineageInv, OneLineage
  <2>5. QED
    BY <2>1, <2>2, <2>3, <2>4 DEF LineageInv, OneLineage
<1>6. CASE FinishRollout
  <2>1. current # update /\ current' = update /\ UNCHANGED <<template, update, pod>>
    BY <1>6 DEF FinishRollout
  <2>2. update # Nil => Follows(update, update)
    BY <1>b, FollowsItself
  <2>3. QED
    BY <2>1, <2>2 DEF LineageInv, OneLineage
<1>7. ASSUME NEW p \in Pods, DeletePod(p) \/ RollPod(p) \/ CollectPod(p)
      PROVE  UNCHANGED set /\ OneLineage'
  <2>1. UNCHANGED set /\ pod' = [pod EXCEPT ![p] = Nil]
    BY <1>7 DEF DeletePod, RollPod, CollectPod
  <2>2. QED
    BY <2>1, OnePodMoves
<1>8. ASSUME NEW p \in Pods, CreatePod(p)
      PROVE  UNCHANGED set /\ OneLineage'
  <2> DEFINE s == [of |-> update, ready |-> FALSE]
  <2>1. UNCHANGED set /\ pod' = [pod EXCEPT ![p] = s] /\ update # Nil /\ s.of = update
    BY <1>8 DEF CreatePod
  <2> HIDE DEF s
  <2>2. QED
    BY <2>1, OnePodMoves
<1>9. ASSUME NEW p \in Pods, BecomeReady(p) \/ Flap(p)
      PROVE  UNCHANGED set /\ OneLineage'
  <2>1. PICK r \in BOOLEAN :
          UNCHANGED set /\ pod' = [pod EXCEPT ![p].ready = r] /\ pod[p] # Nil
    BY <1>9 DEF BecomeReady, Flap, Healthy
  <2> DEFINE s == [pod[p] EXCEPT !.ready = r]
  <2>2. pod' = [pod EXCEPT ![p] = s]
    BY <2>1
  <2>3. pod[p] \in [of : Templates, ready : BOOLEAN]
    BY <2>1 DEF LineageInv, TypeOK, PodStates
  <2>4. s.of = pod[p].of
    BY <2>3
  <2> HIDE DEF s
  <2>5. QED
    BY <2>1, <2>2, <2>4, OnePodMoves
<1>10. ASSUME UNCHANGED set, OneLineage'
       PROVE  /\ template' = Nil => update' = Nil
              /\ current' = Nil <=> update' = Nil
              /\ OneLineage'
  BY <1>10 DEF LineageInv, set
<1>11. CASE UNCHANGED <<set, pod>>
  BY <1>11 DEF LineageInv, OneLineage, set
<1>12. QED
  <2>1. CASE GetExisting \/ ReadRevisions \/ ListPods \/ Finish \/ CallFails
             \/ (\E p \in Pods : SeePod(p)) \/ UNCHANGED vars
    <3>1. UNCHANGED <<set, pod>>
      BY <2>1 DEF GetExisting, ReadRevisions, Read, ListPods, Finish, CallFails, SeePod, vars,
                  set
    <3>2. QED
      BY <3>1, <1>11
  <2>2. QED
    BY <1>1, <1>2, <1>3, <1>4, <1>5, <1>6, <1>7, <1>8, <1>9, <1>10, <2>1
    DEF Next, Reconcile, StatefulSetController

\* A pod that is not of the update revision is of an earlier version of the
\* same template, however often the StatefulSet was deleted and made again:
\* what unstickStatefulSetRollout takes for stale really is, and the claim
\* never brings a deleted StatefulSet back.
THEOREM StalePodsAreOlder == Spec => []OneLineage
<1>1. LineageInv /\ [Next]_vars => LineageInv'
  BY TypeNext, LineageStep DEF LineageInv
<1>2. Spec => []LineageInv
  BY LineageInit, <1>1, PTL DEF Spec
<1>3. QED
  BY <1>2, PTL DEF LineageInv

=============================================================================
