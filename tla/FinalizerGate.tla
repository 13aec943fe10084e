--------------------------- MODULE FinalizerGate ---------------------------
(***************************************************************************)
(* What a finalizer-gated controller promises about a CR and the objects   *)
(* it stands for, without caches, queues, calls or failures: objects come  *)
(* into being only under a guarded CR, and the guard is dropped only from  *)
(* a CR that is leaving and owns nothing any more.                         *)
(***************************************************************************)

CONSTANT Objects

VARIABLES
  exists,   \* there is a CR
  guarded,  \* it carries the finalizer
  leaving,  \* its deletion was requested
  owned     \* objects made for it and not deleted since

vars == <<exists, guarded, leaving, owned>>

TypeOK ==
  /\ {exists, guarded, leaving} \subseteq BOOLEAN
  /\ owned \subseteq Objects

\* The CR may be older than the controller.
Init ==
  /\ exists \in BOOLEAN
  /\ ~guarded /\ ~leaving
  /\ owned = {}

Create ==
  /\ ~exists
  /\ exists' = TRUE
  /\ UNCHANGED <<guarded, leaving, owned>>

Guard ==
  /\ exists /\ ~guarded /\ ~leaving
  /\ guarded' = TRUE
  /\ UNCHANGED <<exists, leaving, owned>>

Leave ==
  /\ exists /\ ~leaving
  /\ leaving' = TRUE
  /\ UNCHANGED <<exists, guarded, owned>>

\* One that is leaving may still be served by a controller not yet aware of it.
Make(o) ==
  /\ guarded
  /\ owned' = owned \cup {o}
  /\ UNCHANGED <<exists, guarded, leaving>>

Lose(o) ==
  /\ o \in owned
  /\ owned' = owned \ {o}
  /\ UNCHANGED <<exists, guarded, leaving>>

Release ==
  /\ guarded /\ leaving
  /\ owned = {}
  /\ guarded' = FALSE
  /\ exists' \in BOOLEAN
  /\ leaving' = exists'
  /\ UNCHANGED owned

Vanish ==
  /\ exists /\ ~guarded
  /\ exists' = FALSE
  /\ leaving' = FALSE
  /\ UNCHANGED <<guarded, owned>>

Next ==
  \/ Create \/ Guard \/ Leave \/ Release \/ Vanish
  \/ \E o \in Objects : Make(o) \/ Lose(o)

Spec == Init /\ [][Next]_vars

=============================================================================
