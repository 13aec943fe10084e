------------------------ MODULE SharedNamespaceProofs ------------------------
(***************************************************************************)
(* Theorems about SharedNamespace, for every fleet of CRs and every number *)
(* of edits.                                                               *)
(***************************************************************************)
EXTENDS SharedNamespace, AdapterExtrasProofs

Obj(c, i) == Object(c.name, Slots(c)[i])

\* No two CRs of the fleet ask for an object of the same kind and name.
Disjoint ==
  \A c, d \in Fleet : c # d =>
    \A i \in DOMAIN Slots(c), j \in DOMAIN Slots(d) : Obj(c, i) # Obj(d, j)

\* That is so in particular when no two CRs, of whatever kinds, share a name.
LEMMA DistinctNames ==
  ASSUME \A c, d \in Fleet : c.name = d.name => c = d
  PROVE  Disjoint
BY DEF Disjoint, Obj, Object

LEMMA SlotsSequence ==
  ASSUME NEW c \in Fleet
  PROVE  /\ Slots(c) \in Seq(ExtraRecords)
         /\ DOMAIN Slots(c) = 1..Len(Slots(c))
         /\ Len(Slots(c)) \in Nat
<1>1. Slots(c) \in Seq(ExtraRecords)
  BY FleetAssumption, ExtrasSequence DEF Slots
<1>2. QED
  BY <1>1

LEMMA ObjectOfOne ==
  ASSUME NEW c \in Fleet, NEW i \in DOMAIN Slots(c), NEW j \in DOMAIN Slots(c),
         Obj(c, i) = Obj(c, j)
  PROVE  i = j
BY FleetAssumption, ExtrasDistinct DEF Slots, Obj, Object

LEMMA ObjectThere ==
  ASSUME NEW c \in Fleet, NEW i \in DOMAIN Slots(c)
  PROVE  Obj(c, i) \in Objects
BY DEF Obj, Objects

(***************************************************************************)
(* Type correctness                                                        *)
(***************************************************************************)

\* The maps that TypeOK looks into are maps of the fleet.
TypeInv ==
  /\ TypeOK
  /\ DOMAIN spec = Fleet /\ DOMAIN step = Fleet /\ DOMAIN job = Fleet

LEMMA TypeInit == Init => TypeInv
<1> SUFFICES ASSUME Init PROVE TypeInv
  OBVIOUS
<1>1. \A c \in Fleet : step[c] \in 0..(Len(Slots(c)) + 1)
  BY SlotsSequence DEF Init
<1>2. edits \in 0..MaxEdits
  BY FleetAssumption DEF Init
<1>3. QED
  BY <1>1, <1>2 DEF Init, TypeInv, TypeOK

\* A change made by users.
LEMMA ChangeType ==
  ASSUME TypeInv, NEW c \in Fleet, Change(c)
  PROVE  /\ settled' \in [Fleet -> BOOLEAN]
         /\ DOMAIN job' = Fleet
         /\ \A d \in Fleet : step'[d] # 0 => job'[d] \in Jobs
         /\ edits' \in 0..MaxEdits
<1>1. settled' \in [Fleet -> BOOLEAN] /\ DOMAIN job' = Fleet
  BY DEF Change, TypeInv, TypeOK
<1>2. ASSUME NEW d \in Fleet, step'[d] # 0
      PROVE  job'[d] \in Jobs
  <2>1. job[d] \in Jobs
    BY <1>2 DEF Change, TypeInv, TypeOK
  <2>2. job'[d] = job[d] \/ job'[d] = [job[d] EXCEPT !.current = FALSE]
    BY <1>2 DEF Change, TypeInv
  <2>3. QED
    BY <2>1, <2>2 DEF Jobs
<1>3. edits' \in 0..MaxEdits
  <2>1. edits \in 0..MaxEdits /\ edits < MaxEdits /\ edits' = edits + 1
    BY DEF Change, TypeInv, TypeOK
  <2>2. QED
    BY <2>1, FleetAssumption
<1>4. QED
  BY <1>1, <1>2, <1>3

\* A Reconcile handles one extra.
LEMMA HandleType ==
  ASSUME TypeInv, NEW c \in Fleet, NEW owner \in Fleet \cup {Nil},
         step[c] \in DOMAIN Slots(c), Handle(c, owner)
  PROVE  TypeInv'
<1>1. step[c] \in 1..Len(Slots(c)) /\ Len(Slots(c)) \in Nat
  BY SlotsSequence
<1>2. \A d \in Fleet : step'[d] \in 0..(Len(Slots(d)) + 1)
  BY <1>1 DEF Handle, TypeInv, TypeOK
<1>3. \A d \in Fleet : step'[d] # 0 => step[d] # 0
  BY <1>1 DEF Handle, TypeInv, TypeOK
<1>4. object' \in [Objects -> Fleet \cup {Nil}]
  BY DEF Handle, TypeInv, TypeOK
<1>5. QED
  BY <1>2, <1>3, <1>4 DEF Handle, TypeInv, TypeOK

LEMMA TypeNext == TypeInv /\ [Next]_vars => TypeInv'
<1> SUFFICES ASSUME TypeInv, Next PROVE TypeInv'
  BY DEF vars, TypeInv, TypeOK
<1> PICK c \in Fleet :
      \/ \E s \in SUBSET Toggles(c.kind) : Create(c, s) \/ Edit(c, s)
      \/ Delete(c)
      \/ Begin(c) \/ ApplyExtra(c) \/ DeleteExtra(c) \/ Finish(c) \/ Abort(c)
  BY DEF Next
<1>1. CASE \E s \in SUBSET Toggles(c.kind) : Create(c, s) \/ Edit(c, s)
  <2> PICK s \in SUBSET Toggles(c.kind) : Create(c, s) \/ Edit(c, s)
    BY <1>1
  <2>1. Change(c) /\ spec' = [spec EXCEPT ![c] = s]
    BY DEF Create, Edit
  <2>2. phase' \in [Fleet -> {"absent", "present", "leaving"}]
    BY DEF Create, Edit, TypeInv, TypeOK
  <2>3. DOMAIN spec' = Fleet /\ \A d \in Fleet : spec'[d] \subseteq Toggles(d.kind)
    BY <2>1 DEF TypeInv, TypeOK
  <2>4. QED
    BY <2>1, <2>2, <2>3, ChangeType DEF Change, TypeInv, TypeOK
<1>2. CASE Delete(c)
  <2>1. Change(c) /\ spec' = spec
    BY <1>2 DEF Delete
  <2>2. phase' \in [Fleet -> {"absent", "present", "leaving"}]
    BY <1>2 DEF Delete, TypeInv, TypeOK
  <2>3. QED
    BY <2>1, <2>2, ChangeType DEF Change, TypeInv, TypeOK
<1>3. CASE Begin(c)
  <2>1. [phase |-> phase[c], spec |-> spec[c], current |-> TRUE] \in Jobs
    <3>1. spec[c] \in SUBSET UNION {Toggles(k) : k \in Kinds}
      BY FleetAssumption DEF TypeInv, TypeOK
    <3>2. phase[c] \in {"present", "leaving"}
      BY <1>3 DEF Begin, TypeInv, TypeOK
    <3>3. QED
      BY <3>1, <3>2 DEF Jobs
  <2>2. /\ DOMAIN step' = Fleet /\ DOMAIN job' = Fleet
        /\ \A d \in Fleet : step'[d] # 0 => job'[d] \in Jobs
    BY <1>3, <2>1 DEF Begin, Start, TypeInv, TypeOK
  <2>3. \A d \in Fleet : step'[d] \in 0..(Len(Slots(d)) + 1)
    BY <1>3, SlotsSequence DEF Begin, Start, TypeInv, TypeOK
  <2>4. QED
    BY <1>3, <2>2, <2>3 DEF Begin, Start, TypeInv, TypeOK
<1>4. CASE ApplyExtra(c)
  BY <1>4, HandleType DEF ApplyExtra
<1>5. CASE DeleteExtra(c)
  BY <1>5, HandleType DEF DeleteExtra
<1>6. CASE Finish(c) \/ Abort(c)
  <2>1. /\ DOMAIN step' = Fleet /\ DOMAIN job' = Fleet
        /\ \A d \in Fleet : step'[d] # 0 => step[d] # 0 /\ job'[d] = job[d]
    BY <1>6 DEF Finish, Abort, TypeInv, TypeOK
  <2>2. \A d \in Fleet : step'[d] \in 0..(Len(Slots(d)) + 1)
    <3>1. \A d \in Fleet : step'[d] = 0 \/ step'[d] = step[d]
      BY <1>6 DEF Finish, Abort, TypeInv
    <3>2. \A d \in Fleet : 0 \in 0..(Len(Slots(d)) + 1)
      BY SlotsSequence
    <3>3. QED
      BY <3>1, <3>2 DEF TypeInv, TypeOK
  <2>3. /\ settled' \in [Fleet -> BOOLEAN]
        /\ phase' \in [Fleet -> {"absent", "present", "leaving"}]
    BY <1>6 DEF Finish, Abort, TypeInv, TypeOK
  <2>4. UNCHANGED <<spec, object, edits>>
    BY <1>6 DEF Finish, Abort
  <2>5. QED
    BY <2>1, <2>2, <2>3, <2>4 DEF TypeInv, TypeOK
<1>7. QED
  BY <1>1, <1>2, <1>3, <1>4, <1>5, <1>6

\* Every variable keeps its type: a Reconcile never handles an extra its kind
\* does not have, and works from a spec some CR may have.
THEOREM NamespaceTypeCorrect == Spec => []TypeOK
<1>1. Spec => []TypeInv
  BY TypeInit, TypeNext, PTL DEF Spec
<1>2. QED
  BY <1>1, PTL DEF TypeInv

(***************************************************************************)
(* What a Reconcile works from                                             *)
(***************************************************************************)

\* A Reconcile whose copy is current works from the CR as it is, and that of a
\* CR reconciled since its last change is one.
JobInv ==
  \A c \in Fleet :
    /\ phase[c] = "absent" => step[c] = 0
    /\ step[c] # 0 /\ job[c].current => job[c].phase = phase[c] /\ job[c].spec = spec[c]
    /\ step[c] # 0 /\ settled[c] => job[c].current

\* One CR's part of a step leaves the others' alone, but for the objects.
LEMMA Others ==
  ASSUME TypeInv, NEW c \in Fleet,
         \/ \E s \in SUBSET Toggles(c.kind) : Create(c, s) \/ Edit(c, s)
         \/ Delete(c)
         \/ Begin(c) \/ ApplyExtra(c) \/ DeleteExtra(c) \/ Finish(c) \/ Abort(c),
         NEW d \in Fleet, d # c
  PROVE  /\ phase'[d] = phase[d] /\ spec'[d] = spec[d] /\ step'[d] = step[d]
         /\ job'[d] = job[d] /\ settled'[d] = settled[d]
<1> USE DEF TypeInv, TypeOK
<1>1. CASE \E s \in SUBSET Toggles(c.kind) : Create(c, s) \/ Edit(c, s)
  BY <1>1 DEF Create, Edit, Change
<1>2. CASE Delete(c)
  BY <1>2 DEF Delete, Change
<1>3. CASE Begin(c)
  BY <1>3 DEF Begin, Start
<1>4. CASE ApplyExtra(c) \/ DeleteExtra(c)
  BY <1>4 DEF ApplyExtra, DeleteExtra, Handle
<1>5. CASE Finish(c) \/ Abort(c)
  BY <1>5 DEF Finish, Abort
<1>6. QED
  BY <1>1, <1>2, <1>3, <1>4, <1>5

LEMMA JobNext ==
  ASSUME TypeInv, TypeInv', JobInv, [Next]_vars
  PROVE  JobInv'
<1>1. CASE UNCHANGED vars
  BY <1>1 DEF vars, JobInv
<1> SUFFICES ASSUME Next
             PROVE  JobInv'
  BY <1>1
<1> PICK c \in Fleet :
      \/ \E s \in SUBSET Toggles(c.kind) : Create(c, s) \/ Edit(c, s)
      \/ Delete(c)
      \/ Begin(c) \/ ApplyExtra(c) \/ DeleteExtra(c) \/ Finish(c) \/ Abort(c)
  BY DEF Next
<1> DEFINE P(d) == /\ phase[d] = "absent" => step[d] = 0
                   /\ step[d] # 0 /\ job[d].current => job[d].phase = phase[d]
                                                       /\ job[d].spec = spec[d]
                   /\ step[d] # 0 /\ settled[d] => job[d].current
<1>2. \A d \in Fleet : P(d)
  BY DEF JobInv
<1>3. ASSUME NEW d \in Fleet, d # c
      PROVE  P(d)'
  BY <1>2, <1>3, Others
<1>4. P(c)'
  <2> USE DEF TypeInv, TypeOK
  <2>1. CASE \/ \E s \in SUBSET Toggles(c.kind) : Create(c, s) \/ Edit(c, s)
             \/ Delete(c)
    <3>1. Change(c)
      BY <2>1 DEF Create, Edit, Delete
    <3>2. /\ settled'[c] = FALSE /\ step' = step
          /\ step[c] # 0 => job[c] \in Jobs /\ job'[c] = [job[c] EXCEPT !.current = FALSE]
      BY <3>1 DEF Change
    <3>3. step[c] # 0 => job'[c].current = FALSE
      BY <3>2 DEF Jobs
    <3>4. phase'[c] # "absent"
      BY <2>1 DEF Create, Edit, Delete
    <3>5. QED
      BY <3>2, <3>3, <3>4
  <2>2. CASE Begin(c)
    <3>1. /\ job'[c] = [phase |-> phase[c], spec |-> spec[c], current |-> TRUE]
          /\ phase[c] # "absent" /\ UNCHANGED <<phase, spec>>
      BY <2>2 DEF Begin, Start
    <3>2. QED
      BY <3>1
  <2>3. CASE ApplyExtra(c) \/ DeleteExtra(c)
    <3>1. /\ UNCHANGED <<phase, spec, job, settled>>
          /\ step[c] \in DOMAIN Slots(c)
      BY <2>3 DEF ApplyExtra, DeleteExtra, Handle
    <3>2. step[c] # 0
      BY <3>1, SlotsSequence
    <3>3. QED
      BY <1>2, <3>1, <3>2
  <2>4. CASE Finish(c) \/ Abort(c)
    <3>1. step'[c] = 0
      BY <2>4 DEF Finish, Abort
    <3>2. QED
      BY <3>1
  <2>5. QED
    BY <2>1, <2>2, <2>3, <2>4
<1>5. \A d \in Fleet : P(d)'
  BY <1>3, <1>4
<1>6. QED
  BY <1>5 DEF JobInv

(***************************************************************************)
(* What is left of a CR                                                    *)
(***************************************************************************)

\* Only a CR's own objects have its content; none does when the CR is gone,
\* and while it is being deleted those already handled do not.
RemainsInv ==
  \A c \in Fleet :
    /\ \A o \in Objects : object[o] = c => \E i \in DOMAIN Slots(c) : o = Obj(c, i)
    /\ phase[c] = "absent" => \A i \in DOMAIN Slots(c) : object[Obj(c, i)] # c
    /\ step[c] # 0 /\ job[c].phase = "leaving" =>
         \A i \in DOMAIN Slots(c) : i < step[c] => object[Obj(c, i)] # c

\* What a Reconcile's handling of an extra does to the objects.
LEMMA HandleObject ==
  ASSUME TypeInv, NEW c \in Fleet, ApplyExtra(c) \/ DeleteExtra(c)
  PROVE  /\ step[c] \in DOMAIN Slots(c) /\ step'[c] = step[c] + 1
         /\ step[c] # 0 /\ step[c] \in Nat
         /\ object'[Obj(c, step[c])] =
              IF job[c].phase = "present" /\ Wanted(Slots(c)[step[c]], job[c].spec)
              THEN c ELSE Nil
         /\ \A o \in Objects : o # Obj(c, step[c]) => object'[o] = object[o]
         /\ UNCHANGED <<phase, spec, job, settled>>
<1>1. step[c] \in DOMAIN Slots(c)
  BY DEF ApplyExtra, DeleteExtra
<1>2. step[c] # 0 /\ step[c] \in Nat
  BY <1>1, SlotsSequence
<1>3. Obj(c, step[c]) \in Objects
  BY <1>1, ObjectThere
<1>4. PICK owner : /\ Handle(c, owner)
                   /\ owner = IF job[c].phase = "present"
                                 /\ Wanted(Slots(c)[step[c]], job[c].spec)
                              THEN c ELSE Nil
  BY DEF ApplyExtra, DeleteExtra
<1>5. object' = [object EXCEPT ![Obj(c, step[c])] = owner]
  BY <1>4 DEF Handle, Obj
<1>6. step'[c] = step[c] + 1 /\ UNCHANGED <<phase, spec, job, settled>>
  BY <1>4 DEF Handle, TypeInv
<1>7. QED
  BY <1>1, <1>2, <1>3, <1>4, <1>5, <1>6 DEF TypeInv, TypeOK

LEMMA RemainsNext ==
  ASSUME TypeInv, TypeInv', JobInv, RemainsInv, [Next]_vars
  PROVE  RemainsInv'
<1>1. CASE UNCHANGED vars
  BY <1>1 DEF vars, RemainsInv
<1> SUFFICES ASSUME Next
             PROVE  RemainsInv'
  BY <1>1
<1> PICK c \in Fleet :
      \/ \E s \in SUBSET Toggles(c.kind) : Create(c, s) \/ Edit(c, s)
      \/ Delete(c)
      \/ Begin(c) \/ ApplyExtra(c) \/ DeleteExtra(c) \/ Finish(c) \/ Abort(c)
  BY DEF Next
<1> DEFINE A(d) == \A o \in Objects : object[o] = d => \E i \in DOMAIN Slots(d) : o = Obj(d, i)
           B(d) == phase[d] = "absent" => \A i \in DOMAIN Slots(d) : object[Obj(d, i)] # d
           C(d) == step[d] # 0 /\ job[d].phase = "leaving" =>
                     \A i \in DOMAIN Slots(d) : i < step[d] => object[Obj(d, i)] # d
<1>2. \A d \in Fleet : A(d) /\ B(d) /\ C(d)
  BY DEF RemainsInv
<1>3. ASSUME NEW d \in Fleet, NEW o \in Objects, d # c, object'[o] = d
      PROVE  object[o] = d
  <2>1. CASE ApplyExtra(c) \/ DeleteExtra(c)
    BY <1>3, <2>1, HandleObject, FleetAssumption
  <2>2. CASE ~(ApplyExtra(c) \/ DeleteExtra(c))
    BY <1>3, <2>2 DEF Create, Edit, Delete, Change, Begin, Start, Finish, Abort
  <2>3. QED
    BY <2>1, <2>2
<1>4. ASSUME NEW d \in Fleet, d # c
      PROVE  A(d)' /\ B(d)' /\ C(d)'
  <2>1. \A i \in DOMAIN Slots(d) : Obj(d, i) \in Objects
    BY ObjectThere
  <2>2. /\ phase'[d] = phase[d] /\ step'[d] = step[d] /\ job'[d] = job[d]
    BY <1>4, Others
  <2>3. QED
    BY <1>2, <1>3, <1>4, <2>1, <2>2
<1>5. A(c)' /\ B(c)' /\ C(c)'
  <2> USE DEF TypeInv, TypeOK
  <2>1. CASE \/ \E s \in SUBSET Toggles(c.kind) : Create(c, s) \/ Edit(c, s)
             \/ Delete(c)
    <3>1. /\ object' = object /\ step' = step
          /\ step[c] # 0 => job[c] \in Jobs /\ job'[c] = [job[c] EXCEPT !.current = FALSE]
      BY <2>1 DEF Create, Edit, Delete, Change
    <3>2. step[c] # 0 => job'[c].phase = job[c].phase
      BY <3>1 DEF Jobs
    <3>3. phase'[c] # "absent"
      BY <2>1 DEF Create, Edit, Delete
    <3>4. QED
      BY <1>2, <3>1, <3>2, <3>3
  <2>2. CASE Begin(c)
    <3>1. object' = object /\ phase' = phase /\ step'[c] = 1
      BY <2>2 DEF Begin, Start
    <3>2. \A i \in DOMAIN Slots(c) : ~(i < 1)
      BY SlotsSequence
    <3>3. QED
      BY <1>2, <3>1, <3>2
  <2>3. CASE ApplyExtra(c) \/ DeleteExtra(c)
    <3>1. A(c)'
      BY <1>2, <2>3, HandleObject
    <3>2. B(c)'
      BY <2>3, HandleObject DEF JobInv
    <3>3. ASSUME step'[c] # 0, job'[c].phase = "leaving",
                 NEW i \in DOMAIN Slots(c), i < step'[c]
          PROVE  object'[Obj(c, i)] # c
      <4>1. job[c].phase = "leaving"
        BY <2>3, <3>3, HandleObject
      <4>2. CASE i = step[c]
        BY <2>3, <4>1, <4>2, HandleObject, FleetAssumption
      <4>3. CASE i # step[c]
        <5>1. i < step[c]
          BY <2>3, <3>3, <4>3, HandleObject, SlotsSequence
        <5>2. Obj(c, i) # Obj(c, step[c])
          BY <2>3, <4>3, HandleObject, ObjectOfOne
        <5>3. Obj(c, i) \in Objects
          BY ObjectThere
        <5>4. QED
          BY <1>2, <2>3, <4>1, <5>1, <5>2, <5>3, HandleObject
      <4>4. QED
        BY <4>2, <4>3
    <3>4. QED
      BY <3>1, <3>2, <3>3
  <2>4. CASE Finish(c)
    <3>1. /\ object' = object /\ step'[c] = 0 /\ step[c] = Len(Slots(c)) + 1
          /\ phase'[c] = "absent" => phase[c] = "absent" \/ (phase[c] = "leaving" /\ job[c].current)
      BY <2>4 DEF Finish
    <3>2. step[c] # 0 /\ \A i \in DOMAIN Slots(c) : i < step[c]
      BY <3>1, SlotsSequence
    <3>3. B(c)'
      BY <1>2, <3>1, <3>2 DEF JobInv
    <3>4. QED
      BY <1>2, <3>1, <3>3
  <2>5. CASE Abort(c)
    BY <1>2, <2>5 DEF Abort
  <2>6. QED
    BY <2>1, <2>2, <2>3, <2>4, <2>5
<1>6. \A d \in Fleet : A(d)' /\ B(d)' /\ C(d)'
  BY <1>4, <1>5
<1>7. QED
  BY <1>6 DEF RemainsInv

LEMMA RemainsInit == Init => JobInv /\ RemainsInv
<1> SUFFICES ASSUME Init PROVE JobInv /\ RemainsInv
  OBVIOUS
<1>1. JobInv
  BY DEF Init, JobInv
<1>2. \A c \in Fleet, o \in Objects : object[o] # c
  BY FleetAssumption DEF Init
<1>3. \A c \in Fleet : \A i \in DOMAIN Slots(c) : Obj(c, i) \in Objects
  BY ObjectThere
<1>4. RemainsInv
  BY <1>2, <1>3 DEF RemainsInv
<1>5. QED
  BY <1>1, <1>4

\* Nothing of a deleted CR is left, whatever the fleet, even where CRs contend
\* for objects: the last Reconcile has gone through all of its kind's extras,
\* wanted or not, and nobody else gives an object its content.
THEOREM NothingRemains == Spec => []NoRemains
<1> DEFINE Inv == TypeInv /\ JobInv /\ RemainsInv
<1>1. Init => Inv
  BY TypeInit, RemainsInit
<1>2. Inv /\ [Next]_vars => Inv'
  BY TypeNext, JobNext, RemainsNext
<1>3. Inv => NoRemains
  BY DEF RemainsInv, NoRemains
<1>4. QED
  BY <1>1, <1>2, <1>3, PTL DEF Spec

(***************************************************************************)
(* What a CR keeps                                                         *)
(***************************************************************************)

\* The extras a Reconcile has handled are as its copy of the spec asks, and
\* those of a CR reconciled since its last change as the spec itself does.
KeptInv ==
  \A c \in Fleet :
    /\ step[c] # 0 /\ job[c].phase = "present" =>
         \A i \in DOMAIN Slots(c) : i < step[c] =>
           (object[Obj(c, i)] = c <=> Wanted(Slots(c)[i], job[c].spec))
    /\ settled[c] /\ phase[c] = "present" =>
         \A i \in DOMAIN Slots(c) : object[Obj(c, i)] = c <=> Wanted(Slots(c)[i], spec[c])

\* In a disjoint fleet a CR's objects are out of the others' reach.
LEMMA OthersObjects ==
  ASSUME Disjoint, TypeInv, NEW c \in Fleet,
         \/ \E s \in SUBSET Toggles(c.kind) : Create(c, s) \/ Edit(c, s)
         \/ Delete(c)
         \/ Begin(c) \/ ApplyExtra(c) \/ DeleteExtra(c) \/ Finish(c) \/ Abort(c),
         NEW d \in Fleet, d # c, NEW i \in DOMAIN Slots(d)
  PROVE  object'[Obj(d, i)] = object[Obj(d, i)]
<1>1. CASE ApplyExtra(c) \/ DeleteExtra(c)
  <2>1. Obj(d, i) \in Objects
    BY ObjectThere
  <2>2. step[c] \in DOMAIN Slots(c)
    BY <1>1, HandleObject
  <2>3. Obj(d, i) # Obj(c, step[c])
    BY <2>2 DEF Disjoint
  <2>4. QED
    BY <1>1, <2>1, <2>3, HandleObject
<1>2. CASE ~(ApplyExtra(c) \/ DeleteExtra(c))
  BY <1>2 DEF Create, Edit, Delete, Change, Begin, Start, Finish, Abort
<1>3. QED
  BY <1>1, <1>2

LEMMA KeptNext ==
  ASSUME Disjoint, TypeInv, TypeInv', JobInv, KeptInv, [Next]_vars
  PROVE  KeptInv'
<1>1. CASE UNCHANGED vars
  BY <1>1 DEF vars, KeptInv
<1> SUFFICES ASSUME Next
             PROVE  KeptInv'
  BY <1>1
<1> PICK c \in Fleet :
      \/ \E s \in SUBSET Toggles(c.kind) : Create(c, s) \/ Edit(c, s)
      \/ Delete(c)
      \/ Begin(c) \/ ApplyExtra(c) \/ DeleteExtra(c) \/ Finish(c) \/ Abort(c)
  BY DEF Next
<1> DEFINE A(d) == step[d] # 0 /\ job[d].phase = "present" =>
                     \A i \in DOMAIN Slots(d) : i < step[d] =>
                       (object[Obj(d, i)] = d <=> Wanted(Slots(d)[i], job[d].spec))
           B(d) == settled[d] /\ phase[d] = "present" =>
                     \A i \in DOMAIN Slots(d) :
                       object[Obj(d, i)] = d <=> Wanted(Slots(d)[i], spec[d])
<1>2. \A d \in Fleet : A(d) /\ B(d)
  BY DEF KeptInv
<1>3. ASSUME NEW d \in Fleet, d # c
      PROVE  A(d)' /\ B(d)'
  <2>1. \A i \in DOMAIN Slots(d) : object'[Obj(d, i)] = object[Obj(d, i)]
    BY <1>3, OthersObjects
  <2>2. /\ phase'[d] = phase[d] /\ spec'[d] = spec[d] /\ step'[d] = step[d]
        /\ job'[d] = job[d] /\ settled'[d] = settled[d]
    BY <1>3, Others
  <2>3. QED
    BY <1>2, <2>1, <2>2
<1>4. A(c)' /\ B(c)'
  <2> USE DEF TypeInv, TypeOK
  <2>1. CASE \/ \E s \in SUBSET Toggles(c.kind) : Create(c, s) \/ Edit(c, s)
             \/ Delete(c)
    <3>1. /\ object' = object /\ step' = step /\ settled'[c] = FALSE
          /\ step[c] # 0 => job[c] \in Jobs /\ job'[c] = [job[c] EXCEPT !.current = FALSE]
      BY <2>1 DEF Create, Edit, Delete, Change
    <3>2. step[c] # 0 => job'[c].phase = job[c].phase /\ job'[c].spec = job[c].spec
      BY <3>1 DEF Jobs
    <3>3. QED
      BY <1>2, <3>1, <3>2
  <2>2. CASE Begin(c)
    <3>1. UNCHANGED <<object, phase, spec, settled>> /\ step'[c] = 1
      BY <2>2 DEF Begin, Start
    <3>2. \A i \in DOMAIN Slots(c) : ~(i < 1)
      BY SlotsSequence
    <3>3. QED
      BY <1>2, <3>1, <3>2
  <2>3. CASE ApplyExtra(c) \/ DeleteExtra(c)
    <3> DEFINE W(i) == object'[Obj(c, i)] = c <=> Wanted(Slots(c)[i], job[c].spec)
    <3>1. /\ UNCHANGED <<phase, spec, job, settled>>
          /\ step[c] # 0 /\ step[c] \in DOMAIN Slots(c) /\ step'[c] = step[c] + 1
      BY <2>3, HandleObject
    <3>2. ASSUME job[c].phase = "present"
          PROVE  W(step[c])
      BY <2>3, <3>2, HandleObject, FleetAssumption
    <3>3. ASSUME NEW i \in DOMAIN Slots(c), i # step[c]
          PROVE  object'[Obj(c, i)] = object[Obj(c, i)]
      <4>1. Obj(c, i) # Obj(c, step[c])
        BY <3>1, <3>3, ObjectOfOne
      <4>2. Obj(c, i) \in Objects
        BY ObjectThere
      <4>3. QED
        BY <2>3, <4>1, <4>2, HandleObject
    <3>4. A(c)'
      <4> SUFFICES ASSUME job[c].phase = "present",
                          NEW i \in DOMAIN Slots(c), i < step'[c]
                   PROVE  W(i)
        BY <3>1
      <4>1. CASE i = step[c]
        BY <3>2, <4>1
      <4>2. CASE i # step[c]
        <5>1. i < step[c]
          BY <3>1, <4>2, SlotsSequence
        <5>2. QED
          BY <1>2, <3>1, <3>3, <4>2, <5>1
      <4>3. QED
        BY <4>1, <4>2
    <3>5. B(c)'
      <4> SUFFICES ASSUME settled[c], phase[c] = "present", NEW i \in DOMAIN Slots(c)
                   PROVE  object'[Obj(c, i)] = c <=> Wanted(Slots(c)[i], spec[c])
        BY <3>1
      <4>1. job[c].phase = "present" /\ job[c].spec = spec[c]
        BY <3>1 DEF JobInv
      <4>2. CASE i = step[c]
        BY <3>2, <4>1, <4>2
      <4>3. CASE i # step[c]
        BY <1>2, <3>3, <4>3
      <4>4. QED
        BY <4>2, <4>3
    <3>6. QED
      BY <3>4, <3>5
  <2>4. CASE Finish(c)
    <3>1. /\ object' = object /\ spec' = spec /\ step'[c] = 0 /\ step[c] = Len(Slots(c)) + 1
          /\ IF job[c].current
             THEN phase'[c] = "present" => phase[c] = "present"
             ELSE UNCHANGED <<settled, phase>>
      BY <2>4 DEF Finish
    <3>2. step[c] # 0 /\ \A i \in DOMAIN Slots(c) : i < step[c]
      BY <3>1, SlotsSequence
    <3>3. CASE job[c].current
      <4>1. job[c].phase = phase[c] /\ job[c].spec = spec[c]
        BY <3>2, <3>3 DEF JobInv
      <4>2. QED
        BY <1>2, <3>1, <3>2, <3>3, <4>1
    <3>4. CASE ~job[c].current
      BY <1>2, <3>1, <3>4
    <3>5. QED
      BY <3>3, <3>4
  <2>5. CASE Abort(c)
    BY <1>2, <2>5 DEF Abort
  <2>6. QED
    BY <2>1, <2>2, <2>3, <2>4, <2>5
<1>5. \A d \in Fleet : A(d)' /\ B(d)'
  BY <1>3, <1>4
<1>6. QED
  BY <1>5 DEF KeptInv

\* In a fleet without equal names a CR reconciled to its end keeps exactly the
\* extras its spec asks for, through every later Reconcile of its own, finished
\* or not, and whatever the others are reconciled to.
THEOREM FleetUndisturbed ==
  ASSUME Disjoint
  PROVE  Spec => []Undisturbed
<1> DEFINE Inv == TypeInv /\ JobInv /\ KeptInv
<1>1. Init => Inv
  BY TypeInit, RemainsInit DEF Init, KeptInv
<1>2. Inv /\ [Next]_vars => Inv'
  BY TypeNext, JobNext, KeptNext
<1>3. Inv => Undisturbed
  BY DEF KeptInv, Undisturbed, Obj
<1>4. QED
  BY <1>1, <1>2, <1>3, PTL DEF Spec

=============================================================================
