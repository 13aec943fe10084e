-------------------------------- MODULE Fields --------------------------------
(***************************************************************************)
(* Kubernetes objects as functions from the fields they set to the values  *)
(* of these. @@ is TLC's; it is defined here because the provers have no   *)
(* definition of the operators of module TLC.                              *)
(***************************************************************************)

\* No object, and an object without a field.
Nil == <<>>

\* The fields of both; the first one's value where both set it.
o @@ p == [f \in DOMAIN o \cup DOMAIN p |-> IF f \in DOMAIN o THEN o[f] ELSE p[f]]

\* The fields of o, but those that stand for an option only if it is given.
Optional(o, option, given) ==
  [f \in {g \in DOMAIN o : g \in DOMAIN option => option[g] \in given} |-> o[f]]

=============================================================================
