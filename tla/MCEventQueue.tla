---------------------------- MODULE MCEventQueue ----------------------------
(* Instance of EventQueue for TLC, and the mutants of its operations.      *)
EXTENDS EventQueue
=============================================================================
