------------------------------ MODULE MCGuard ------------------------------
(* Instances of Guard for TLC.                                             *)
EXTENDS Guard

(* All threads in one task group (workers of the runtime), or each in a    *)
(* task group of its own (NSH commands), where descriptor numbers repeat.  *)
OneGroup == [p \in Threads |-> 1]
OwnGroups == [p \in Threads |-> p]
=============================================================================
