---------------------------- MODULE MCHealthCheck ----------------------------
(* A small instance of HealthCheck for TLC. *)
EXTENDS HealthCheck

CONSTANTS docker, monitor

TwoThreads == {docker, monitor}
=============================================================================
