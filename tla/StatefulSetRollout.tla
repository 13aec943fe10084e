------------------------- MODULE StatefulSetRollout -------------------------
(***************************************************************************)
(* A StatefulSet the Loki Operator owns and on whose pod template the      *)
(* reconciler claims one field, the fsGroup without which the pods crash   *)
(* (internal/loki, PatchOnly extras), and the pods the reconciler deletes  *)
(* so that the patch reaches them (unstickStatefulSetRollout). The         *)
(* StatefulSet is read from the API server, its pods from the informer     *)
(* cache, and they are deleted by name. Kubernetes' StatefulSet controller *)
(* is modelled as the reconciler relies on it: ordered, and never rolling  *)
(* a template out past a pod that is not ready.                            *)
(***************************************************************************)
EXTENDS Naturals

CONSTANTS
  NPods,
  MaxChanges, \* bound: changes and re-creations by the Loki Operator
  MaxFlaps,   \* bound: pods that stop being ready
  MaxFaults,  \* bound: API calls that fail
  Nil

Pods == 1..NPods

\* A version of the template: its number, and whether fsGroup is in it.
Templates == [rev : Nat, fix : BOOLEAN]

ASSUME RolloutAssumption ==
  /\ {NPods, MaxChanges, MaxFlaps, MaxFaults} \subseteq Nat
  /\ Nil \notin Templates

VARIABLES
  template, \* the StatefulSet's template, Nil while there is none
  update,   \* status.updateRevision, Nil until it is observed
  current,  \* status.currentRevision
  pod,      \* each pod: the template it is of and whether it is ready
  seen,     \* the informer's copy of each pod
  pc,       \* the reconciler's next call
  wanted,   \* the updateRevision it read
  doomed,   \* the listed pods it has yet to delete
  changes, flaps, faults

set == <<template, update, current>>
reconciler == <<pc, wanted, doomed>>
budgets == <<changes, flaps, faults>>

vars == <<template, update, current, pod, seen, pc, wanted, doomed, changes, flaps, faults>>

PodStates == [of : Templates, ready : BOOLEAN] \cup {Nil}

\* Every variable has its type, and a pod without the fix is never ready.
TypeOK ==
  /\ {template, update, current, wanted} \subseteq Templates \cup {Nil}
  /\ pod \in [Pods -> PodStates]
  /\ seen \in [Pods -> PodStates]
  /\ \A p \in Pods : pod[p] # Nil /\ pod[p].ready => pod[p].of.fix
  /\ pc \in {"idle", "patch", "revisions", "list", "delete"}
  /\ pc \in {"list", "delete"} => wanted \in Templates
  /\ doomed \subseteq Pods
  /\ changes \in 0..MaxChanges /\ flaps \in 0..MaxFlaps /\ faults \in 0..MaxFaults

Init ==
  /\ template = Nil /\ update = Nil /\ current = Nil
  /\ pod = [p \in Pods |-> Nil]
  /\ seen = [p \in Pods |-> Nil]
  /\ pc = "idle" /\ wanted = Nil /\ doomed = {}
  /\ changes = 0 /\ flaps = 0 /\ faults = 0

isPodReady(state) == state.ready

(***************************************************************************)
(* The reconciler, once per poll of the LokiInstance                       *)
(***************************************************************************)

Return ==
  /\ pc' = "idle"
  /\ wanted' = Nil
  /\ doomed' = {}

\* PatchOnly: there may be nothing to claim fields on yet.
GetExisting ==
  /\ pc = "idle"
  /\ template # Nil
  /\ pc' = "patch"
  /\ UNCHANGED <<set, pod, seen, wanted, doomed, budgets>>

PatchCreating == \* mutant: the apply creates what was deleted after the Get
  /\ pc = "patch"
  /\ template' = IF template = Nil THEN [rev |-> 1, fix |-> TRUE]
                 ELSE [rev |-> template.rev + 1, fix |-> TRUE]
  /\ pc' = "revisions"
  /\ UNCHANGED <<wanted, doomed, update, current, pod, seen, budgets>>

\* A new version of the template, unless the field is already there. Nothing
\* is created: a StatefulSet with just that field is refused.
Patch ==
  /\ pc = "patch"
  /\ IF template = Nil
     THEN Return /\ UNCHANGED template
     ELSE /\ template' = IF template.fix THEN template
                         ELSE [rev |-> template.rev + 1, fix |-> TRUE]
          /\ pc' = "revisions"
          /\ UNCHANGED <<wanted, doomed>>
  /\ UNCHANGED <<update, current, pod, seen, budgets>>

Read(goOn) ==
  /\ pc = "revisions"
  /\ IF goOn
     THEN pc' = "list" /\ wanted' = update /\ UNCHANGED doomed
     ELSE Return
  /\ UNCHANGED <<set, pod, seen, budgets>>

ReadRevisionsUnchecked == Read(TRUE) \* mutant: no early return

\* No status yet, or no rollout under way: nothing to unstick.
ReadRevisions == Read(update \notin {Nil, current})

\* Stale and not ready: the pods the rollout is stuck on.
StuckReady(state) == FALSE \* mutant: a pod is taken for ready as soon as it exists
Stuck(state) == state # Nil /\ state.of # wanted /\ ~isPodReady(state)

ListPods ==
  /\ pc = "list"
  /\ doomed' = {p \in Pods : Stuck(seen[p])}
  /\ pc' = "delete"
  /\ UNCHANGED <<set, pod, seen, wanted, budgets>>

\* The pod of that name is deleted, whatever it has become since.
DeletePod(p) ==
  /\ pc = "delete"
  /\ p \in doomed
  /\ pod' = [pod EXCEPT ![p] = Nil]
  /\ doomed' = doomed \ {p}
  /\ UNCHANGED <<set, seen, pc, wanted, budgets>>

Finish ==
  /\ pc = "delete"
  /\ doomed = {}
  /\ Return
  /\ UNCHANGED <<set, pod, seen, budgets>>

CallFails ==
  /\ pc # "idle"
  /\ faults < MaxFaults
  /\ faults' = faults + 1
  /\ Return
  /\ UNCHANGED <<set, pod, seen, changes, flaps>>

Reconcile ==
  \/ GetExisting \/ Patch \/ ReadRevisions \/ ListPods \/ Finish
  \/ \E p \in Pods : DeletePod(p)

(***************************************************************************)
(* The Loki Operator, the StatefulSet controller and the pods              *)
(***************************************************************************)

LokiCreates ==
  /\ template = Nil
  /\ \A p \in Pods : pod[p] = Nil
  /\ template' = [rev |-> 1, fix |-> FALSE]
  /\ UNCHANGED <<update, current, pod, seen, reconciler, budgets>>

\* A change of its own; the fields other managers claim are kept.
LokiChanges ==
  /\ template # Nil
  /\ changes < MaxChanges
  /\ changes' = changes + 1
  /\ template' = [template EXCEPT !.rev = @ + 1]
  /\ UNCHANGED <<update, current, pod, seen, reconciler, flaps, faults>>

LokiDeletes ==
  /\ template # Nil
  /\ changes < MaxChanges
  /\ changes' = changes + 1
  /\ template' = Nil /\ update' = Nil /\ current' = Nil
  /\ UNCHANGED <<pod, seen, reconciler, flaps, faults>>

\* Its pods are collected before another of its name gets any.
CollectPod(p) ==
  /\ template = Nil
  /\ pod[p] # Nil
  /\ pod' = [pod EXCEPT ![p] = Nil]
  /\ UNCHANGED <<set, seen, reconciler, budgets>>

ObserveTemplate ==
  /\ update # template
  /\ update' = template
  /\ current' = IF current = Nil THEN template ELSE current
  /\ UNCHANGED <<template, pod, seen, reconciler, budgets>>

Healthy(p) == pod[p] # Nil /\ pod[p].ready

\* OrderedReady: a pod waits for those before it.
CreatePod(p) ==
  /\ update # Nil
  /\ pod[p] = Nil
  /\ \A q \in 1..(p - 1) : Healthy(q)
  /\ pod' = [pod EXCEPT ![p] = [of |-> update, ready |-> FALSE]]
  /\ UNCHANGED <<set, seen, reconciler, budgets>>

\* The rolling update replaces the last stale pod, and only while all are
\* healthy.
RollPod(p) ==
  /\ update # Nil
  /\ \A q \in Pods : Healthy(q)
  /\ pod[p].of # update
  /\ \A q \in (p + 1)..NPods : pod[q].of = update
  /\ pod' = [pod EXCEPT ![p] = Nil]
  /\ UNCHANGED <<set, seen, reconciler, budgets>>

FinishRollout ==
  /\ current # update
  /\ \A p \in Pods : Healthy(p) /\ pod[p].of = update
  /\ current' = update
  /\ UNCHANGED <<template, update, pod, seen, reconciler, budgets>>

BecomeReady(p) ==
  /\ pod[p] # Nil
  /\ ~pod[p].ready
  /\ pod[p].of.fix
  /\ pod' = [pod EXCEPT ![p].ready = TRUE]
  /\ UNCHANGED <<set, seen, reconciler, budgets>>

Flap(p) ==
  /\ Healthy(p)
  /\ flaps < MaxFlaps
  /\ flaps' = flaps + 1
  /\ pod' = [pod EXCEPT ![p].ready = FALSE]
  /\ UNCHANGED <<set, seen, reconciler, changes, faults>>

SeePod(p) ==
  /\ seen[p] # pod[p]
  /\ seen' = [seen EXCEPT ![p] = pod[p]]
  /\ UNCHANGED <<set, pod, reconciler, budgets>>

StatefulSetController ==
  \/ ObserveTemplate \/ FinishRollout
  \/ \E p \in Pods : CreatePod(p) \/ RollPod(p)

-----------------------------------------------------------------------------
Next ==
  \/ Reconcile \/ CallFails \/ StatefulSetController
  \/ LokiCreates \/ LokiChanges \/ LokiDeletes
  \/ \E p \in Pods : BecomeReady(p) \/ Flap(p) \/ SeePod(p) \/ CollectPod(p)

\* The LokiInstance is polled for ever, the controllers and the informer keep
\* working, and a pod with the fix becomes ready.
Fairness ==
  /\ WF_vars(Reconcile)
  /\ WF_vars(LokiCreates)
  /\ WF_vars(StatefulSetController)
  /\ \A p \in Pods :
       WF_vars(BecomeReady(p)) /\ WF_vars(SeePod(p)) /\ WF_vars(CollectPod(p))

Spec == Init /\ [][Next]_vars /\ Fairness

\* Version b of one StatefulSet's template is a, or follows it; the field
\* claimed is never taken back.
Follows(a, b) ==
  /\ a.rev <= b.rev
  /\ a.rev = b.rev => a = b
  /\ a.fix => b.fix

\* A pod that is not of the update revision is older, which is what makes it
\* stale (reconciler.go:549-557), and not left of an earlier StatefulSet of
\* that name: the claim creates none in a deleted one's place
\* (reconciler.go:383-404).
OneLineage ==
  template # Nil =>
    /\ update # Nil => Follows(update, template) /\ Follows(current, update)
    /\ \A p \in Pods : pod[p] # Nil => update # Nil /\ Follows(pod[p].of, update)

\* The patch reaches every pod, also those that crash for the lack of it and
\* keep the StatefulSet controller from rolling it out; and deleting pods that
\* were listed from the cache does not go on for ever
\* (reconciler.go:516-532).
PatchReachesPods ==
  <>[](\A p \in Pods : Healthy(p) /\ pod[p].of = template)

\* Pods that are ready are left alone even if stale (reconciler.go:530-532).
\* A pod that became ready, or was replaced, after the informer last saw it is
\* deleted (reconciler.go:549-557).
ReadySpared ==
  [][\A p \in Pods : DeletePod(p) => ~Healthy(p)]_vars

=============================================================================
