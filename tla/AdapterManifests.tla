--------------------------- MODULE AdapterManifests ---------------------------
(***************************************************************************)
(* What each adapter asks of its vendor operator: the part of the CR's     *)
(* spec a user may leave out (internal types in api/v1alpha1), the object  *)
(* BuildManifest makes of it, and the content of the auxiliary objects of  *)
(* AdapterExtras. A spec is a number of units (instances, replicas,        *)
(* shards, ...), the set of options given, and the ingress class named, ""  *)
(* for none. An object is a function from the fields it sets to their      *)
(* values; a value copied verbatim from the spec (an image, a size, a set   *)
(* of annotations) is Given, and an option carries its annotations with it.*)
(***************************************************************************)
EXTENDS AdapterExtras, Fields, Naturals

Given == "given"

(***************************************************************************)
(* The specs: the fewest units the schema admits, the number it fills in    *)
(* when none is given, and the options.                                    *)
(***************************************************************************)

ApiSpec(least, unset, opts) == [least |-> least, unset |-> unset, opts |-> opts]

PostgresClusterSpec == ApiSpec(1, 1, {"image", "resources", "monitoring", "expose"})

MariaDBClusterSpec == ApiSpec(1, 1, {"image", "resources", "monitoring", "expose"})

\* The units are shards; replicas of a shard, 0 by default, are an option.
ValkeyClusterSpec == ApiSpec(1, 1, {"replicas", "image", "resources", "expose", "monitoring"})

\* The image is never empty: the schema fills it in.
MongoDBClusterSpec == ApiSpec(1, 3, {"resources", "monitoring", "expose"})

KafkaClusterSpec == ApiSpec(1, 3, {"version", "resources", "monitoring", "expose"})

RabbitMQClusterSpec ==
  ApiSpec(1, 1, {"image", "resources", "ingress", "tls", "expose", "monitoring"})

GrafanaInstanceSpec ==
  ApiSpec(0, 1, {"version", "persistence", "ingress", "tls", "expose", "lokiRef"})

PrometheusInstanceSpec ==
  ApiSpec(0, 1, {"version", "retention", "storage", "resources", "ingress", "tls", "expose"})

\* A LokiStack has a t-shirt size instead of units; the option is another
\* size than the default one.
LokiInstanceSpec == ApiSpec(1, 1, {"size"})

AlloyInstanceSpec == ApiSpec(1, 1, {})

SpecOf ==
  [cnpg |-> PostgresClusterSpec, mariadb |-> MariaDBClusterSpec,
   valkey |-> ValkeyClusterSpec, psmdb |-> MongoDBClusterSpec,
   strimzi |-> KafkaClusterSpec, rabbitmq |-> RabbitMQClusterSpec,
   grafana |-> GrafanaInstanceSpec, prometheus |-> PrometheusInstanceSpec,
   loki |-> LokiInstanceSpec, alloy |-> AlloyInstanceSpec]

\* A typed Update leaves zero values out, and the schema fills in defaults.
RoundTrip(kind, spec) ==
  [spec EXCEPT !.units = IF @ = 0 THEN SpecOf[kind].unset ELSE @,
               !.opts = @ \cup ({"monitoring"} \cap SpecOf[kind].opts)]

(***************************************************************************)
(* Ingress objects, the operator's own and the one inside a Grafana        *)
(***************************************************************************)

If(cond, option) == IF cond THEN {option} ELSE {}

IngressBuild(spec, backend, port) ==
  Optional([backend |-> backend, port |-> port, class |-> spec.class, tls |-> Given],
           [class |-> "class", tls |-> "tls"],
           spec.opts \cup If(spec.class # "", "class"))

(***************************************************************************)
(* BuildManifest                                                           *)
(***************************************************************************)

CnpgManifest(name, spec) ==
  Optional([instances |-> spec.units, storage |-> Given, initdb |-> Given, imageName |-> Given,
            resources |-> Given, managed |-> <<name, "-external">>, monitoring |-> Given],
           [imageName |-> "image", resources |-> "resources", managed |-> "expose",
            monitoring |-> "monitoring"],
           spec.opts)

\* mariadb-operator generates the Secrets named here.
MariadbManifestRetaining(name, spec) == \* mutant: the vendor's default retention
  Optional([replicas |-> spec.units, storage |-> Given, galera |-> TRUE, image |-> Given,
            resources |-> Given, service |-> Given, metrics |-> Given],
           [galera |-> "clustered", image |-> "image", resources |-> "resources",
            service |-> "expose", metrics |-> "monitoring"],
           spec.opts \cup If(spec.units > 1, "clustered"))
MariadbManifest(name, spec) ==
  Optional([replicas |-> spec.units, storage |-> Given, whenDeleted |-> "Delete",
            database |-> Given, username |-> Given, passwordSecret |-> <<name, "-mariadb-app">>,
            rootPasswordSecret |-> <<name, "-mariadb-root">>, galera |-> TRUE,
            image |-> Given, resources |-> Given, service |-> Given, metrics |-> Given],
           [galera |-> "clustered", image |-> "image", resources |-> "resources",
            service |-> "expose", metrics |-> "monitoring"],
           spec.opts \cup If(spec.units > 1, "clustered"))

\* The exporter is on by default: it is set either way.
ValkeyManifestImplicit(name, spec) == \* mutant: the exporter is only ever switched on
  Optional([shards |-> spec.units, replicas |-> IF "replicas" \in spec.opts THEN 1 ELSE 0,
            persistence |-> Given, reclaimPolicy |-> "Delete", exporter |-> TRUE,
            image |-> Given, resources |-> Given],
           [exporter |-> "monitoring", image |-> "image", resources |-> "resources"],
           spec.opts)
ValkeyManifest(name, spec) ==
  Optional([shards |-> spec.units, replicas |-> IF "replicas" \in spec.opts THEN 1 ELSE 0,
            persistence |-> Given, reclaimPolicy |-> "Delete",
            exporter |-> "monitoring" \in spec.opts, image |-> Given, resources |-> Given],
           [image |-> "image", resources |-> "resources"],
           spec.opts)

\* The replica set is one field: the vendor's schema does not merge the list
\* it is an element of.
PsmdbManifest(name, spec) ==
  [image |-> Given, secrets |-> <<name, "-psmdb-secrets">>, volumeScaling |-> TRUE,
   finalizers |-> {"percona.com/delete-psmdb-pvc"},
   replset |-> Optional([size |-> spec.units, storage |-> Given, resources |-> Given,
                         expose |-> Given, sidecars |-> <<name, "-psmdb-secrets">>],
                        [resources |-> "resources", expose |-> "expose",
                         sidecars |-> "monitoring"],
                        spec.opts)]

\* The brokers are in the KafkaNodePool.
StrimziManifest(name, spec) ==
  Optional([listeners |-> {"plain"} \cup ({"expose"} \cap spec.opts), version |-> Given,
            metricsConfig |-> Given],
           [version |-> "version", metricsConfig |-> "monitoring"],
           spec.opts)

RabbitmqManifest(name, spec) ==
  Optional([replicas |-> spec.units, persistence |-> Given, image |-> Given,
            resources |-> Given, service |-> Given],
           [image |-> "image", resources |-> "resources", service |-> "expose"],
           spec.opts)

GrafanaManifest(name, spec) ==
  Optional([replicas |-> spec.units, scope |-> "namespace", version |-> Given,
            ingress |-> IngressBuild(spec, <<name, "-service">>, 3000), service |-> Given,
            persistentVolumeClaim |-> Given],
           [version |-> "version", ingress |-> "ingress", service |-> "expose",
            persistentVolumeClaim |-> "persistence"],
           spec.opts)

PrometheusManifest(name, spec) ==
  Optional([replicas |-> spec.units, serviceAccountName |-> name, serviceMonitorSelector |-> {},
            podMonitorSelector |-> {}, securityContext |-> 2000, version |-> Given,
            retention |-> Given, storage |-> Given, whenDeleted |-> "Delete",
            resources |-> Given],
           [version |-> "version", retention |-> "retention", storage |-> "storage",
            whenDeleted |-> "storage", resources |-> "resources"],
           spec.opts)

LokiManifest(name, spec) ==
  [size |-> IF "size" \in spec.opts THEN Given ELSE "1x.demo",
   storageClassName |-> Given, schema |-> "v13", secret |-> Given]

\* The write URL names a LokiInstance's distributor Service.
AlloyManifest(name, spec) ==
  [replicas |-> IF spec.units = 0 THEN 1 ELSE spec.units,
   config |-> <<Given, "-distributor-http">>, type |-> "deployment", namespaces |-> "namespace"]

BuildManifest(kind, name, spec) ==
  CASE kind = "cnpg"       -> CnpgManifest(name, spec)
    [] kind = "mariadb"    -> MariadbManifest(name, spec)
    [] kind = "valkey"     -> ValkeyManifest(name, spec)
    [] kind = "psmdb"      -> PsmdbManifest(name, spec)
    [] kind = "strimzi"    -> StrimziManifest(name, spec)
    [] kind = "rabbitmq"   -> RabbitmqManifest(name, spec)
    [] kind = "grafana"    -> GrafanaManifest(name, spec)
    [] kind = "prometheus" -> PrometheusManifest(name, spec)
    [] kind = "loki"       -> LokiManifest(name, spec)
    [] kind = "alloy"      -> AlloyManifest(name, spec)

(***************************************************************************)
(* The content of the extras                                               *)
(***************************************************************************)

\* A GrafanaDashboard shows in the Grafana that carries its namespace's scope
\* label and queries the datasource of a fixed UID.
Dashboard == [scope |-> "namespace", datasource |-> "prometheus"]

Monitor(labels, port) == [selector |-> labels, port |-> port]

\* The PodMonitor or ServiceMonitor of a kind whose vendor makes none.
MonitorOf(kind, name) ==
  CASE kind = "valkey"   -> Monitor(<<"valkey.io/cluster", name>>, 9121)
    [] kind = "psmdb"    -> Monitor(<<"app.kubernetes.io/instance", name, "mongod">>, 9216)
    [] kind = "strimzi"  -> Monitor(<<"strimzi.io/cluster", name>>, 9404)
    [] kind = "rabbitmq" -> Monitor(<<"app.kubernetes.io/name", name>>, 15692)

StrimziNodePool(spec) ==
  Optional([replicas |-> spec.units, storage |-> Given, deleteClaim |-> TRUE,
            resources |-> Given],
           [resources |-> "resources"], spec.opts)

ValkeyExternalService(name) ==
  [type |-> "LoadBalancer", selector |-> <<"valkey.io/cluster", name>>, port |-> 6379]

PrometheusWebService(name, spec) ==
  [type |-> IF "expose" \in spec.opts THEN "LoadBalancer" ELSE "ClusterIP",
   selector |-> <<"operator.prometheus.io/name", name>>, port |-> 9090]

ScrapeRole == [resources |-> {"pods", "services", "endpoints"}, verbs |-> {"get", "list", "watch"}]

GrafanaDatasource(uid, service, port) ==
  [scope |-> "namespace", uid |-> uid, url |-> <<service, port>>]

ExtraContent(kind, name, spec, extra) ==
  CASE extra.gvk = "GrafanaDashboard" -> Dashboard
    [] extra.gvk \in {"PodMonitor", "ServiceMonitor"} -> MonitorOf(kind, name)
    [] extra.gvk = "KafkaNodePool" -> StrimziNodePool(spec)
    [] extra.gvk = "Service" -> IF kind = "valkey" THEN ValkeyExternalService(name)
                                                  ELSE PrometheusWebService(name, spec)
    [] extra.gvk = "Ingress" -> IF kind = "rabbitmq"
                                THEN IngressBuild(spec, <<name>>, 15672)
                                ELSE IngressBuild(spec, <<name, "-web">>, 9090)
    [] extra.suffix = "-prometheus" -> GrafanaDatasource("prometheus", <<Given, "-web">>, 9090)
    [] extra.suffix = "-loki" ->
         GrafanaDatasource("loki", <<Given, "-query-frontend-http">>, 3100)
    [] extra.gvk = "Role" -> ScrapeRole
    [] extra.gvk = "RoleBinding" -> [role |-> name, account |-> name]
    [] extra.gvk = "ServiceAccount" -> [account |-> name]

(***************************************************************************)
(* How the vendor operators read those objects                             *)
(***************************************************************************)

Present(f, fields) == {option \in DOMAIN fields : fields[option] \in DOMAIN f}

\* The options in force in a vendor object with these fields.
VendorReads(kind, f) ==
  CASE kind = "cnpg" ->
         Present(f, [image |-> "imageName", resources |-> "resources",
                     expose |-> "managed", monitoring |-> "monitoring"])
    [] kind = "mariadb" ->
         Present(f, [image |-> "image", resources |-> "resources", expose |-> "service",
                     monitoring |-> "metrics", clustered |-> "galera"])
    [] kind = "valkey" ->
         Present(f, [image |-> "image", resources |-> "resources"])
           \cup If(f.replicas > 0, "replicas")
           \cup If("exporter" \notin DOMAIN f \/ f.exporter, "monitoring")
    [] kind = "psmdb" ->
         Present(f.replset, [resources |-> "resources", expose |-> "expose",
                             monitoring |-> "sidecars"])
    [] kind = "strimzi" ->
         Present(f, [version |-> "version", monitoring |-> "metricsConfig",
                     resources |-> "resources"])
           \cup If("expose" \in f.listeners, "expose")
    [] kind = "rabbitmq" ->
         Present(f, [image |-> "image", resources |-> "resources", expose |-> "service"])
    [] kind = "grafana" ->
         Present(f, [version |-> "version", persistence |-> "persistentVolumeClaim",
                     ingress |-> "ingress", expose |-> "service"])
           \cup If("ingress" \in DOMAIN f /\ "tls" \in DOMAIN f.ingress, "tls")
    [] kind = "prometheus" ->
         Present(f, [version |-> "version", retention |-> "retention",
                     storage |-> "storage", resources |-> "resources"])
    [] kind = "loki" -> If(f.size # "1x.demo", "size")
    [] kind = "alloy" -> {}

\* The units it asks for, those of a Kafka being its node pool's.
VendorUnits(kind, f) ==
  CASE kind = "cnpg"   -> f.instances
    [] kind = "valkey" -> f.shards
    [] kind = "psmdb"  -> f.replset.size
    [] kind = "loki"   -> 1
    [] OTHER           -> f.replicas

\* The vendor's own policy deletes the volume claims with the object.
Reclaims(kind, f) ==
  CASE kind = "mariadb"    -> "whenDeleted" \in DOMAIN f
    [] kind = "valkey"     -> "reclaimPolicy" \in DOMAIN f
    [] kind = "psmdb"      -> "finalizers" \in DOMAIN f
    [] kind = "prometheus" -> "storage" \in DOMAIN f => "whenDeleted" \in DOMAIN f
    [] kind = "strimzi"    -> f.deleteClaim
    [] kind = "loki"       -> FALSE
    [] OTHER               -> TRUE

=============================================================================
