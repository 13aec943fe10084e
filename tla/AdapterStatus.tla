----------------------------- MODULE AdapterStatus -----------------------------
(***************************************************************************)
(* What each adapter makes of its vendor's status. A vendor writes it only *)
(* once it has seen the object: until then it is empty, and every field    *)
(* read from it has its zero value. Extracted from the object that the     *)
(* apply answered with (spec and status), it is mirrored onto the CR; the  *)
(* condition's observed generation is GenericReconciler's subject.         *)
(***************************************************************************)
EXTENDS Fields, Naturals

(***************************************************************************)
(* The vendors' reports: counts of units wanted and up, a condition, or    *)
(* both                                                                    *)
(***************************************************************************)

Counting == {"cnpg", "valkey", "psmdb", "prometheus"}

NoReport == Nil

Phase(ready) == IF ready THEN "Healthy" ELSE "Setup"

Report(kind, v) ==
  CASE kind = "cnpg"    -> [phase |-> Phase(v.up >= v.units), instances |-> v.units,
                            readyInstances |-> v.up]
    [] kind = "valkey"  -> [state |-> Phase(v.up >= v.units), shards |-> v.units,
                            readyShards |-> v.up]
    [] kind = "psmdb"   -> [state |-> Phase(v.up >= v.units), size |-> v.units, ready |-> v.up]
    [] kind = "prometheus" -> [paused |-> FALSE, replicas |-> v.units,
                               availableReplicas |-> v.up]
    [] kind = "grafana" -> [stage |-> "complete",
                            stageStatus |-> IF v.settled THEN "success" ELSE "failed",
                            replicas |-> v.up]
    [] kind = "mariadb" -> [replicas |-> v.units, Ready |-> v.settled]
    [] kind \in {"strimzi", "loki"} -> [Ready |-> v.settled]
    [] kind = "rabbitmq" -> [AllReplicasReady |-> v.settled]
    [] kind = "alloy"   -> [Deployed |-> v.settled]

\* What the vendor means by it.
VendorReady(kind, v) ==
  IF kind \in Counting THEN v.units > 0 /\ v.up >= v.units ELSE v.settled

(***************************************************************************)
(* ExtractStatus                                                           *)
(***************************************************************************)

TargetStatus(phase, ready, observed, readyCount) ==
  [phase |-> phase, ready |-> ready, observed |-> observed, readyCount |-> readyCount]

Get(status, field, default) == IF field \in DOMAIN status THEN status[field] ELSE default

\* Nothing wanted is not yet everything up.
CountedEager(phase, wanted, up) == TargetStatus(phase, up >= wanted, wanted, up) \* mutant
Counted(phase, wanted, up) == TargetStatus(phase, wanted > 0 /\ up >= wanted, wanted, up)

\* A condition not there is not true; its reason is the phase.
Holds(status, condition) == Get(status, condition, FALSE)

Reason(status, condition) ==
  IF condition \in DOMAIN status THEN Phase(status[condition]) ELSE "Unknown"

CnpgExtractStatus(u) ==
  Counted(Get(u.status, "phase", "Unknown"),
          Get(u.status, "instances", 0), Get(u.status, "readyInstances", 0))

\* The count of what is up is all or nothing.
MariadbExtractStatus(u) ==
  LET wanted == Get(u.status, "replicas", 0)
      ready  == Holds(u.status, "Ready")
  IN  TargetStatus(Reason(u.status, "Ready"), ready /\ wanted > 0, wanted,
                   IF ready THEN wanted ELSE 0)

ValkeyExtractStatus(u) ==
  Counted(Get(u.status, "state", "Unknown"),
          Get(u.status, "shards", 0), Get(u.status, "readyShards", 0))

PsmdbExtractStatus(u) ==
  Counted(Get(u.status, "state", "Unknown"),
          Get(u.status, "size", 0), Get(u.status, "ready", 0))

StrimziExtractStatus(u) ==
  TargetStatus(Reason(u.status, "Ready"), Holds(u.status, "Ready"), 0, 0)

\* The units wanted are those of the spec just applied.
RabbitmqExtractStatus(u) ==
  LET wanted == Get(u.spec, "replicas", 0)
      ready  == Holds(u.status, "AllReplicasReady")
  IN  TargetStatus(Reason(u.status, "AllReplicasReady"), ready /\ wanted > 0, wanted,
                   IF ready THEN wanted ELSE 0)

GrafanaExtractStatus(u) ==
  LET stage       == Get(u.status, "stage", "Unknown")
      stageStatus == Get(u.status, "stageStatus", "")
  IN  TargetStatus(<<stage, stageStatus>>, stage = "complete" /\ stageStatus = "success",
                   Get(u.spec, "replicas", 1), Get(u.status, "replicas", 0))

PrometheusExtractStatus(u) ==
  LET wanted == Get(u.status, "replicas", 0)
  IN  Counted(CASE Get(u.status, "paused", FALSE) -> "Paused"
                [] ~Get(u.status, "paused", FALSE) /\ wanted > 0 -> "Progressing"
                [] OTHER -> "Unknown",
              wanted, Get(u.status, "availableReplicas", 0))

LokiExtractStatus(u) ==
  TargetStatus(Reason(u.status, "Ready"), Holds(u.status, "Ready"), 0, 0)

AlloyExtractStatus(u) ==
  TargetStatus(Reason(u.status, "Deployed"), Holds(u.status, "Deployed"), 0, 0)

ExtractStatus(kind, u) ==
  CASE kind = "cnpg"       -> CnpgExtractStatus(u)
    [] kind = "mariadb"    -> MariadbExtractStatus(u)
    [] kind = "valkey"     -> ValkeyExtractStatus(u)
    [] kind = "psmdb"      -> PsmdbExtractStatus(u)
    [] kind = "strimzi"    -> StrimziExtractStatus(u)
    [] kind = "rabbitmq"   -> RabbitmqExtractStatus(u)
    [] kind = "grafana"    -> GrafanaExtractStatus(u)
    [] kind = "prometheus" -> PrometheusExtractStatus(u)
    [] kind = "loki"       -> LokiExtractStatus(u)
    [] kind = "alloy"      -> AlloyExtractStatus(u)

(***************************************************************************)
(* ApplyStatus: the fields of the CR's status                              *)
(***************************************************************************)

Mirrored(s) == [ready |-> s.ready, phase |-> s.phase]

CnpgApplyStatus(s) ==
  Mirrored(s) @@ [instances |-> s.observed, readyInstances |-> s.readyCount]

MariadbApplyStatus(s) ==
  Mirrored(s) @@ [replicas |-> s.observed, readyReplicas |-> s.readyCount]

ValkeyApplyStatus(s) == Mirrored(s) @@ [shards |-> s.observed, readyShards |-> s.readyCount]

PsmdbApplyStatus(s) ==
  Mirrored(s) @@ [replicas |-> s.observed, readyReplicas |-> s.readyCount]

StrimziApplyStatus(s) == Mirrored(s)

RabbitmqApplyStatus(s) ==
  Mirrored(s) @@ [replicas |-> s.observed, readyReplicas |-> s.readyCount]

\* The replicas of a GrafanaInstance's status are the ready ones.
GrafanaApplyStatus(s) == Mirrored(s) @@ [replicas |-> s.readyCount]

PrometheusApplyStatus(s) ==
  Mirrored(s) @@ [replicas |-> s.observed, readyReplicas |-> s.readyCount]

LokiApplyStatus(s) == Mirrored(s)

AlloyApplyStatus(s) == Mirrored(s)

ApplyStatus(kind, s) ==
  CASE kind = "cnpg"       -> CnpgApplyStatus(s)
    [] kind = "mariadb"    -> MariadbApplyStatus(s)
    [] kind = "valkey"     -> ValkeyApplyStatus(s)
    [] kind = "psmdb"      -> PsmdbApplyStatus(s)
    [] kind = "strimzi"    -> StrimziApplyStatus(s)
    [] kind = "rabbitmq"   -> RabbitmqApplyStatus(s)
    [] kind = "grafana"    -> GrafanaApplyStatus(s)
    [] kind = "prometheus" -> PrometheusApplyStatus(s)
    [] kind = "loki"       -> LokiApplyStatus(s)
    [] kind = "alloy"      -> AlloyApplyStatus(s)

=============================================================================
