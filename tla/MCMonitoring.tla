---------------------------- MODULE MCMonitoring ----------------------------
(* The instance of Monitoring for TLC: its sets are the code's. *)
EXTENDS Monitoring
=============================================================================
