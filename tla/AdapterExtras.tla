---------------------------- MODULE AdapterExtras ----------------------------
(***************************************************************************)
(* The auxiliary objects each vendor adapter asks for (its ExtraResources  *)
(* function), in the order it returns them: the kind of the object, the    *)
(* suffix its name adds to the CR's, and the part of the spec it depends   *)
(* on. An extra not wanted is still returned, with no desired object, so   *)
(* that it is pruned. The patches on StatefulSets the Loki Operator owns   *)
(* are not objects of the operator's and are left to StatefulSetRollout.   *)
(***************************************************************************)
EXTENDS Sequences

Extra(gvk, suffix, when) == [gvk |-> gvk, suffix |-> suffix, when |-> when]

Monitored(gvk, suffix) == Extra(gvk, suffix, "monitoring")

CnpgExtras == <<Monitored("GrafanaDashboard", "-dashboard")>>

MariadbExtras == <<Monitored("GrafanaDashboard", "-dashboard")>>

ValkeyExtras ==
  <<Extra("Service", "-external", "expose"),
    Monitored("PodMonitor", "-podmonitor"),
    Monitored("GrafanaDashboard", "-dashboard")>>

PsmdbExtras ==
  <<Monitored("PodMonitor", "-podmonitor"),
    Monitored("GrafanaDashboard", "-dashboard")>>

StrimziExtras ==
  <<Extra("KafkaNodePool", "-dual-role", "always"),
    Monitored("PodMonitor", "-podmonitor"),
    Monitored("GrafanaDashboard", "-dashboard")>>

RabbitmqExtras ==
  <<Extra("Ingress", "-rabbitmq-ingress", "ingress"),
    Monitored("ServiceMonitor", "-servicemonitor"),
    Monitored("GrafanaDashboard", "-dashboard")>>

GrafanaExtras ==
  <<Extra("GrafanaDatasource", "-prometheus", "always"),
    Extra("GrafanaDatasource", "-loki", "lokiRef")>>

ScrapeRBACExtras ==
  <<Extra("ServiceAccount", "", "always"),
    Extra("Role", "", "always"),
    Extra("RoleBinding", "", "always")>>

PrometheusExtras ==
  <<Extra("Service", "-web", "always"),
    Extra("Ingress", "-prometheus-ingress", "ingress")>> \o ScrapeRBACExtras

ExtraResources ==
  [cnpg |-> CnpgExtras, mariadb |-> MariadbExtras, valkey |-> ValkeyExtras,
   psmdb |-> PsmdbExtras, strimzi |-> StrimziExtras, rabbitmq |-> RabbitmqExtras,
   grafana |-> GrafanaExtras, prometheus |-> PrometheusExtras,
   loki |-> <<>>, alloy |-> <<>>]

Kinds == DOMAIN ExtraResources

\* The parts of a spec some extra of the kind depends on.
Toggles(kind) ==
  {ExtraResources[kind][i].when : i \in DOMAIN ExtraResources[kind]} \ {"always"}

Wanted(extra, spec) == extra.when \in spec \cup {"always"}

\* An object of the cluster. Within one kind of object no suffix ends in
\* another, so equal names mean equal CR names and suffixes.
Object(name, extra) == <<extra.gvk, name, extra.suffix>>

=============================================================================
