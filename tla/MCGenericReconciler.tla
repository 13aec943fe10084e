------------------------ MODULE MCGenericReconciler ------------------------
(***************************************************************************)
(* Small instances of GenericReconciler: two extras, the first always      *)
(* wanted and the second only with monitoring, as KafkaNodePool and        *)
(* PodMonitor are for Kafka.                                               *)
(***************************************************************************)
EXTENDS GenericReconciler

AllExtras == {1, 2}
FirstExtra == {1}
MonitoringExtras == {2}
NoExtras == {}

=============================================================================
