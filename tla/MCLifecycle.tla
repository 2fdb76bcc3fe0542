---------------------------- MODULE MCLifecycle ----------------------------
(* A small instance of Lifecycle for TLC.                                   *)
EXTENDS Lifecycle

CONSTANTS c1, c2
=============================================================================
