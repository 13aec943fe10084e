--------------------------- MODULE SharedNamespace ---------------------------
(***************************************************************************)
(* Several CRs of one namespace, of different kinds or names, whose        *)
(* controllers apply, prune and delete their auxiliary objects side by     *)
(* side. Each controller has one worker; its Reconcile handles the extras  *)
(* one API call at a time, with Server-Side Apply forcing ownership and    *)
(* deletes going by name. The cache and the finalizer are                  *)
(* GenericReconciler's subject: here a Reconcile reads the current CR.     *)
(***************************************************************************)
EXTENDS AdapterExtras, Naturals

CONSTANTS
  Fleet,    \* the CRs, records of a kind and a name
  MaxEdits, \* bound: creations, edits and deletions
  Nil

ASSUME FleetAssumption ==
  /\ \A c \in Fleet : c.kind \in Kinds
  /\ MaxEdits \in Nat
  /\ Nil \notin Fleet

Slots(c) == ExtraResources[c.kind]
Objects == UNION {{Object(c.name, Slots(c)[i]) : i \in DOMAIN Slots(c)} : c \in Fleet}

VARIABLES
  phase,   \* each CR: absent, present or leaving
  spec,    \* the parts its spec asks for
  step,    \* the extra its Reconcile handles next, 0 when idle
  job,     \* what that Reconcile read, and whether the CR is still that version
  settled, \* the CR was reconciled to its end since it last changed
  object,  \* each object: the CR whose content it has
  edits

vars == <<phase, spec, step, job, settled, object, edits>>

Jobs == [phase : {"present", "leaving"}, spec : SUBSET UNION {Toggles(k) : k \in Kinds},
         current : BOOLEAN]

TypeOK ==
  /\ phase \in [Fleet -> {"absent", "present", "leaving"}]
  /\ \A c \in Fleet : spec[c] \subseteq Toggles(c.kind)
  /\ \A c \in Fleet : step[c] \in 0..(Len(Slots(c)) + 1)
  /\ \A c \in Fleet : step[c] # 0 => job[c] \in Jobs
  /\ settled \in [Fleet -> BOOLEAN]
  /\ object \in [Objects -> Fleet \cup {Nil}]
  /\ edits \in 0..MaxEdits

Init ==
  /\ phase = [c \in Fleet |-> "absent"]
  /\ spec = [c \in Fleet |-> {}]
  /\ step = [c \in Fleet |-> 0]
  /\ job = [c \in Fleet |-> Nil]
  /\ settled = [c \in Fleet |-> FALSE]
  /\ object = [o \in Objects |-> Nil]
  /\ edits = 0

(***************************************************************************)
(* The users of the namespace                                              *)
(***************************************************************************)

Change(c) ==
  /\ edits < MaxEdits
  /\ edits' = edits + 1
  /\ settled' = [settled EXCEPT ![c] = FALSE]
  /\ job' = IF step[c] = 0 THEN job ELSE [job EXCEPT ![c].current = FALSE]
  /\ UNCHANGED <<step, object>>

Create(c, s) ==
  /\ phase[c] = "absent"
  /\ phase' = [phase EXCEPT ![c] = "present"]
  /\ spec' = [spec EXCEPT ![c] = s]
  /\ Change(c)

Edit(c, s) ==
  /\ phase[c] = "present"
  /\ s # spec[c]
  /\ spec' = [spec EXCEPT ![c] = s]
  /\ UNCHANGED phase
  /\ Change(c)

Delete(c) ==
  /\ phase[c] = "present"
  /\ phase' = [phase EXCEPT ![c] = "leaving"]
  /\ UNCHANGED spec
  /\ Change(c)

(***************************************************************************)
(* The controllers                                                         *)
(***************************************************************************)

\* A Reconcile starts, one per kind at a time.
Start(c) ==
  /\ \A d \in Fleet : d.kind = c.kind => step[d] = 0
  /\ step' = [step EXCEPT ![c] = 1]
  /\ job' = [job EXCEPT ![c] = [phase |-> phase[c], spec |-> spec[c], current |-> TRUE]]
  /\ UNCHANGED <<phase, spec, settled, object, edits>>

BeginUnguarded(c) == Start(c) \* mutant: a CR not found is reconciled too

\* A watch event or a poll of a CR that is there.
Begin(c) == phase[c] # "absent" /\ Start(c)

Handle(c, owner) ==
  LET o == Object(c.name, Slots(c)[step[c]]) IN
  /\ object' = [object EXCEPT ![o] = owner]
  /\ step' = [step EXCEPT ![c] = @ + 1]
  /\ UNCHANGED <<phase, spec, job, settled, edits>>

ApplyExtraUnpruned(c) == \* mutant: an unwanted extra is skipped, not deleted
  /\ step[c] \in DOMAIN Slots(c)
  /\ job[c].phase = "present"
  /\ LET o == Object(c.name, Slots(c)[step[c]])
         e == Slots(c)[step[c]]
     IN  Handle(c, IF Wanted(e, job[c].spec) THEN c ELSE object[o])

\* Server-Side Apply with ForceOwnership takes the object over; an extra not
\* wanted is deleted by name, whoever made it.
ApplyExtra(c) ==
  /\ step[c] \in DOMAIN Slots(c)
  /\ job[c].phase = "present"
  /\ Handle(c, IF Wanted(Slots(c)[step[c]], job[c].spec) THEN c ELSE Nil)

DeleteExtraWanted(c) == \* mutant: deletes only the extras the spec now wants
  /\ step[c] \in DOMAIN Slots(c)
  /\ job[c].phase = "leaving"
  /\ LET o == Object(c.name, Slots(c)[step[c]])
         e == Slots(c)[step[c]]
     IN  Handle(c, IF Wanted(e, job[c].spec) THEN Nil ELSE object[o])

DeleteExtra(c) ==
  /\ step[c] \in DOMAIN Slots(c)
  /\ job[c].phase = "leaving"
  /\ Handle(c, Nil)

\* The Reconcile reaches its end: the status is written, or the finalizer is
\* removed and the CR is gone. A CR written in between makes it fail.
Finish(c) ==
  /\ step[c] = Len(Slots(c)) + 1
  /\ step' = [step EXCEPT ![c] = 0]
  /\ job' = [job EXCEPT ![c] = Nil]
  /\ IF job[c].current
     THEN /\ settled' = [settled EXCEPT ![c] = TRUE]
          /\ phase' = [phase EXCEPT ![c] = IF @ = "leaving" THEN "absent" ELSE @]
     ELSE UNCHANGED <<settled, phase>>
  /\ UNCHANGED <<spec, object, edits>>

\* A call fails and the rest of the Reconcile is skipped until the retry.
Abort(c) ==
  /\ step[c] # 0
  /\ step' = [step EXCEPT ![c] = 0]
  /\ job' = [job EXCEPT ![c] = Nil]
  /\ UNCHANGED <<phase, spec, settled, object, edits>>

Next ==
  \E c \in Fleet :
    \/ \E s \in SUBSET Toggles(c.kind) : Create(c, s) \/ Edit(c, s)
    \/ Delete(c)
    \/ Begin(c) \/ ApplyExtra(c) \/ DeleteExtra(c) \/ Finish(c) \/ Abort(c)

Spec == Init /\ [][Next]_vars

-----------------------------------------------------------------------------
(***************************************************************************)
(* Properties                                                              *)
(***************************************************************************)

\* A CR reconciled to its end keeps the extras its spec asks for, with its own
\* content, and none it did not ask for, whatever the other CRs of the
\* namespace do (prometheus.go:270-277, rabbitmq.go:218-224).
Undisturbed ==
  \A c \in Fleet : settled[c] /\ phase[c] = "present" =>
    \A i \in DOMAIN Slots(c) :
      (object[Object(c.name, Slots(c)[i])] = c) <=> Wanted(Slots(c)[i], spec[c])

\* Nothing of a CR that is gone is left, not even an extra that only an
\* earlier version of its spec wanted (reconciler.go:413-434).
NoRemains == \A c \in Fleet : phase[c] = "absent" => \A o \in Objects : object[o] # c

=============================================================================
