------------------------- MODULE AdapterExtrasProofs -------------------------
(***************************************************************************)
(* Facts about the adapters' tables of auxiliary objects, shared by the    *)
(* proofs about one managed instance and about several in one namespace.   *)
(***************************************************************************)
EXTENDS AdapterExtras, Naturals, SequenceTheorems, TLAPS

LEMMA TenKinds ==
  Kinds = {"cnpg", "mariadb", "valkey", "psmdb", "strimzi", "rabbitmq", "grafana",
           "prometheus", "loki", "alloy"}
BY DEF Kinds, ExtraResources

Gvks == {"GrafanaDashboard", "GrafanaDatasource", "PodMonitor", "ServiceMonitor",
         "KafkaNodePool", "Service", "Ingress", "ServiceAccount", "Role", "RoleBinding"}

ExtraRecords ==
  [gvk : Gvks,
   suffix : {"", "-dashboard", "-external", "-podmonitor", "-servicemonitor", "-dual-role",
             "-rabbitmq-ingress", "-prometheus", "-loki", "-web", "-prometheus-ingress"},
   when : {"always", "monitoring", "expose", "ingress", "lokiRef"}]

LEMMA Triple ==
  ASSUME NEW S, NEW a \in S, NEW b \in S, NEW c \in S
  PROVE  <<a, b, c>> \in Seq(S)
OBVIOUS

\* The extras of every kind are a sequence.
LEMMA ExtrasSequence ==
  ASSUME NEW k \in Kinds
  PROVE  ExtraResources[k] \in Seq(ExtraRecords)
<1>1. /\ CnpgExtras \in Seq(ExtraRecords)
      /\ MariadbExtras \in Seq(ExtraRecords)
      /\ PsmdbExtras \in Seq(ExtraRecords)
      /\ GrafanaExtras \in Seq(ExtraRecords)
  BY DEF CnpgExtras, MariadbExtras, PsmdbExtras, GrafanaExtras, Monitored, Extra, ExtraRecords,
         Gvks
<1>2. ValkeyExtras \in Seq(ExtraRecords)
  BY Triple DEF ValkeyExtras, Monitored, Extra, ExtraRecords, Gvks
<1>3. StrimziExtras \in Seq(ExtraRecords)
  BY Triple DEF StrimziExtras, Monitored, Extra, ExtraRecords, Gvks
<1>4. RabbitmqExtras \in Seq(ExtraRecords)
  BY Triple DEF RabbitmqExtras, Monitored, Extra, ExtraRecords, Gvks
<1>5. PrometheusExtras \in Seq(ExtraRecords)
  <2>1. ScrapeRBACExtras \in Seq(ExtraRecords)
    BY Triple DEF ScrapeRBACExtras, Extra, ExtraRecords, Gvks
  <2>2. <<Extra("Service", "-web", "always"),
          Extra("Ingress", "-prometheus-ingress", "ingress")>> \in Seq(ExtraRecords)
    BY DEF Extra, ExtraRecords, Gvks
  <2>3. QED
    BY <2>1, <2>2 DEF PrometheusExtras
<1>6. <<>> \in Seq(ExtraRecords)
  OBVIOUS
<1>7. QED
  <2>1. /\ ExtraResources["cnpg"] = CnpgExtras
        /\ ExtraResources["mariadb"] = MariadbExtras
        /\ ExtraResources["valkey"] = ValkeyExtras
        /\ ExtraResources["psmdb"] = PsmdbExtras
        /\ ExtraResources["strimzi"] = StrimziExtras
    BY DEF ExtraResources
  <2>2. /\ ExtraResources["rabbitmq"] = RabbitmqExtras
        /\ ExtraResources["grafana"] = GrafanaExtras
        /\ ExtraResources["prometheus"] = PrometheusExtras
        /\ ExtraResources["loki"] = <<>>
        /\ ExtraResources["alloy"] = <<>>
    BY DEF ExtraResources
  <2>3. QED
    BY <1>1, <1>2, <1>3, <1>4, <1>5, <1>6, <2>1, <2>2, TenKinds

\* There is a first extra, unless there is none.
LEMMA FirstExtra ==
  ASSUME NEW k \in Kinds, ExtraResources[k] # <<>>
  PROVE  1 \in DOMAIN ExtraResources[k]
BY ExtrasSequence

\* The one table that is put together from two.
LEMMA PrometheusTable ==
  /\ DOMAIN PrometheusExtras = 1..5
  /\ PrometheusExtras[1].gvk = "Service" /\ PrometheusExtras[1].suffix = "-web"
  /\ PrometheusExtras[2].gvk = "Ingress" /\ PrometheusExtras[2].when = "ingress"
  /\ PrometheusExtras[2].suffix = "-prometheus-ingress"
  /\ PrometheusExtras[3].gvk = "ServiceAccount" /\ PrometheusExtras[3].suffix = ""
  /\ PrometheusExtras[4].gvk = "Role" /\ PrometheusExtras[4].suffix = ""
  /\ PrometheusExtras[5].gvk = "RoleBinding" /\ PrometheusExtras[5].suffix = ""
<1> DEFINE a == <<Extra("Service", "-web", "always"),
                  Extra("Ingress", "-prometheus-ingress", "ingress")>>
           b == ScrapeRBACExtras
<1>1. /\ a \in Seq(ExtraRecords) /\ Len(a) = 2
      /\ a[1].gvk = "Service" /\ a[1].suffix = "-web"
      /\ a[2].gvk = "Ingress" /\ a[2].when = "ingress" /\ a[2].suffix = "-prometheus-ingress"
  BY DEF Extra, ExtraRecords, Gvks
<1>2. /\ b \in Seq(ExtraRecords) /\ Len(b) = 3
      /\ b[1].gvk = "ServiceAccount" /\ b[1].suffix = ""
      /\ b[2].gvk = "Role" /\ b[2].suffix = ""
      /\ b[3].gvk = "RoleBinding" /\ b[3].suffix = ""
  BY Triple DEF ScrapeRBACExtras, Extra, ExtraRecords, Gvks
<1>3. PrometheusExtras = a \o b
  BY DEF PrometheusExtras
<1> HIDE DEF a, b
<1> DEFINE c == a \o b
<1>4. /\ c \in Seq(ExtraRecords)
      /\ Len(c) = 5
      /\ \A n \in 1..5 : c[n] = IF n <= 2 THEN a[n] ELSE b[n - 2]
  <2>1. a \in Seq(ExtraRecords) /\ b \in Seq(ExtraRecords)
    BY <1>1, <1>2
  <2>2. /\ a \o b \in Seq(ExtraRecords)
        /\ Len(a \o b) = Len(a) + Len(b)
        /\ \A n \in 1..Len(a) + Len(b) :
             (a \o b)[n] = IF n <= Len(a) THEN a[n] ELSE b[n - Len(a)]
    BY <2>1, ConcatProperties, Zenon
  <2>3. Len(a) = 2 /\ Len(b) = 3
    BY <1>1, <1>2
  <2>4. QED
    BY <2>2, <2>3
<1> HIDE DEF c
<1>5. /\ c[1] = a[1] /\ c[2] = a[2]
      /\ c[3] = b[1] /\ c[4] = b[2] /\ c[5] = b[3]
  BY <1>4
<1>6. DOMAIN c = 1..5
  BY <1>4
<1>7. PrometheusExtras = c
  BY <1>3 DEF c
<1>8. QED
  BY <1>1, <1>2, <1>5, <1>6, <1>7

\* No kind asks for two objects of the same kind and name.
LEMMA ExtrasDistinct ==
  ASSUME NEW k \in Kinds,
         NEW i \in DOMAIN ExtraResources[k], NEW j \in DOMAIN ExtraResources[k],
         ExtraResources[k][i].gvk = ExtraResources[k][j].gvk,
         ExtraResources[k][i].suffix = ExtraResources[k][j].suffix
  PROVE  i = j
<1>1. CASE k \in {"cnpg", "mariadb"}
  BY <1>1 DEF ExtraResources, CnpgExtras, MariadbExtras
<1>2. CASE k = "psmdb"
  BY <1>2 DEF ExtraResources, PsmdbExtras, Monitored, Extra
<1>3. CASE k = "grafana"
  BY <1>3 DEF ExtraResources, GrafanaExtras, Extra
<1>4. CASE k \in {"valkey", "strimzi", "rabbitmq"}
  BY <1>4 DEF ExtraResources, ValkeyExtras, StrimziExtras, RabbitmqExtras, Monitored, Extra
<1>5. CASE k = "prometheus"
  <2>1. ExtraResources[k] = PrometheusExtras
    BY <1>5 DEF ExtraResources
  <2> DEFINE c == PrometheusExtras
  <2>2. DOMAIN c = 1..5
    BY PrometheusTable
  <2>3. /\ c[1].gvk = "Service" /\ c[2].gvk = "Ingress"
        /\ c[3].gvk = "ServiceAccount" /\ c[4].gvk = "Role" /\ c[5].gvk = "RoleBinding"
    BY PrometheusTable
  <2> HIDE DEF c
  <2>4. \A m, n \in 1..5 : c[m].gvk = c[n].gvk => m = n
    BY <2>3
  <2>5. ExtraResources[k] = c
    BY <2>1 DEF c
  <2>6. QED
    BY <2>2, <2>4, <2>5
<1>6. CASE k \in {"loki", "alloy"}
  BY <1>6 DEF ExtraResources
<1>7. QED
  BY <1>1, <1>2, <1>3, <1>4, <1>5, <1>6, TenKinds

=============================================================================
