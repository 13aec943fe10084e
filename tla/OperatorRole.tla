----------------------------- MODULE OperatorRole -----------------------------
(***************************************************************************)
(* The permissions the operator is deployed with: the rules each           *)
(* controller declares (kubebuilder:rbac markers), whose union is the      *)
(* manager's one ClusterRole (config/rbac/role.yaml), and the permissions  *)
(* an API call takes. A permission is a resource, a subresource ("" for    *)
(* none) and a verb; the two vendor kinds that share their plural with the *)
(* CR are told apart by their group.                                       *)
(***************************************************************************)

Rules(resources, subresource, verbs) == resources \X {subresource} \X verbs

AllVerbs == {"get", "list", "watch", "create", "update", "patch", "delete"}

Full(resources) == Rules(resources, "", AllVerbs)

ReadOnly(resources) == Rules(resources, "", {"get", "list", "watch"})

\* What every controller asks for its own CRs, and for events.
Own(plural) ==
  Full({plural}) \cup Rules({plural}, "status", {"get", "update", "patch"})
    \cup Rules({plural}, "finalizers", {"update"})
    \cup Rules({"events"}, "", {"create", "patch"})

PostgresClusterRules == Own("postgresclusters") \cup Full({"clusters", "grafanadashboards"})

MariaDBClusterRules == Own("mariadbclusters") \cup Full({"mariadbs", "grafanadashboards"})

ValkeyClusterRules ==
  Own("valkeyclusters")
    \cup Full({"valkey.io/valkeyclusters", "services", "podmonitors", "grafanadashboards"})

MongoDBClusterRules ==
  Own("mongodbclusters") \cup Full({"perconaservermongodbs", "podmonitors", "grafanadashboards"})

KafkaClusterRulesPoolless == \* mutant: the marker of the second vendor kind is missing
  Own("kafkaclusters") \cup Full({"kafkas", "podmonitors", "grafanadashboards"})
KafkaClusterRules ==
  Own("kafkaclusters") \cup Full({"kafkas", "kafkanodepools", "podmonitors", "grafanadashboards"})

RabbitMQClusterRules ==
  Own("rabbitmqclusters")
    \cup Full({"rabbitmq.com/rabbitmqclusters", "ingresses", "servicemonitors",
               "grafanadashboards"})

GrafanaInstanceRules == Own("grafanainstances") \cup Full({"grafanas", "grafanadatasources"})

PrometheusInstanceRules ==
  Own("prometheusinstances")
    \cup Full({"prometheuses", "services", "serviceaccounts", "roles", "rolebindings",
               "ingresses"})
    \cup ReadOnly({"pods", "endpoints"})

LokiInstanceRules ==
  Own("lokiinstances") \cup Full({"lokistacks"})
    \cup Rules({"statefulsets"}, "", {"get", "list", "watch", "patch"})

AlloyInstanceRules == Own("alloyinstances") \cup Full({"alloys"})

ManagerRole ==
  UNION {PostgresClusterRules, MariaDBClusterRules, ValkeyClusterRules, MongoDBClusterRules,
         KafkaClusterRules, RabbitMQClusterRules, GrafanaInstanceRules,
         PrometheusInstanceRules, LokiInstanceRules, AlloyInstanceRules}

(***************************************************************************)
(* The resources of CRs, vendor objects and extras                         *)
(***************************************************************************)

Plural ==
  [cnpg |-> "postgresclusters", mariadb |-> "mariadbclusters", valkey |-> "valkeyclusters",
   psmdb |-> "mongodbclusters", strimzi |-> "kafkaclusters", rabbitmq |-> "rabbitmqclusters",
   grafana |-> "grafanainstances", prometheus |-> "prometheusinstances",
   loki |-> "lokiinstances", alloy |-> "alloyinstances"]

TargetPlural ==
  [cnpg |-> "clusters", mariadb |-> "mariadbs", valkey |-> "valkey.io/valkeyclusters",
   psmdb |-> "perconaservermongodbs", strimzi |-> "kafkas",
   rabbitmq |-> "rabbitmq.com/rabbitmqclusters", grafana |-> "grafanas",
   prometheus |-> "prometheuses", loki |-> "lokistacks", alloy |-> "alloys"]

ExtraPlural ==
  [GrafanaDashboard |-> "grafanadashboards", GrafanaDatasource |-> "grafanadatasources",
   PodMonitor |-> "podmonitors", ServiceMonitor |-> "servicemonitors",
   KafkaNodePool |-> "kafkanodepools", Service |-> "services", Ingress |-> "ingresses",
   ServiceAccount |-> "serviceaccounts", Role |-> "roles", RoleBinding |-> "rolebindings"]

(***************************************************************************)
(* What a call takes                                                       *)
(***************************************************************************)

To(verbs, resource) == Rules({resource}, "", verbs)

\* Nobody grants what he does not hold: applying the scrape Role, or a
\* binding to it, takes the permissions it gives away.
ScrapePermissions == ReadOnly({"pods", "services", "endpoints"})

ToApply(resource) ==
  To({"create", "patch"}, resource)
    \cup (IF resource \in {"roles", "rolebindings"} THEN ScrapePermissions ELSE {})

\* A List answered by the manager's cache: the informer lists and watches.
ToListCached(resource) == To({"list", "watch"}, resource)

=============================================================================
