-------------------------- MODULE MCSharedNamespace --------------------------
(***************************************************************************)
(* Namespaces for SharedNamespace: one whose extras never meet although    *)
(* its CRs share a name, and two whose extras do.                          *)
(***************************************************************************)
EXTENDS SharedNamespace

CR(kind, name) == [kind |-> kind, name |-> name]

DisjointFleet == {CR("rabbitmq", "x"), CR("prometheus", "x"), CR("grafana", "x"), CR("rabbitmq", "y")}
CollidingFleet == {CR("cnpg", "x"), CR("valkey", "x")}

=============================================================================
