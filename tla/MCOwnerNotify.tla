--------------------------- MODULE MCOwnerNotify ---------------------------
(* Instances of OwnerNotify for TLC.                                       *)
EXTENDS OwnerNotify
=============================================================================
