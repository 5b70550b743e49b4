---------------------------- MODULE MCMetricPush ----------------------------
(* Instances of MetricPush for TLC. *)
EXTENDS MetricPush

MCMetrics == [peer : Peers, valid : BOOLEAN]
=============================================================================
