--------------------------- MODULE ExclusiveGuard ---------------------------
(***************************************************************************)
(* What core/fc_guard.c promises the threads that guard an operation: one  *)
(* of them at a time has the guard, from the critical section that takes   *)
(* it to the one that gives it back, and only its holder gives it back.    *)
(* The promise is for a live board; once the board is being reset, or a    *)
(* controlled reboot is prepared, nobody has the guard until the restart.  *)
(* Guard implements this module, and HttpLane with AgentTurn uses the      *)
(* guard in no other way.                                                  *)
(***************************************************************************)

CONSTANT
    Threads     \* threads that guard their operations

VARIABLES
    live,       \* the board is up
    holders     \* the threads that have the guard

guardVars == <<live, holders>>

GuardInit == live = TRUE /\ holders = {}

Take(p) == live /\ holders = {} /\ holders' = {p} /\ UNCHANGED live

Release(p) == live /\ holders = {p} /\ holders' = {} /\ UNCHANGED live

GoDown == live /\ live' = FALSE /\ holders' = {}

ComeUp == ~live /\ live' = TRUE /\ holders' = {}

GuardNext ==
    \/ \E p \in Threads : Take(p) \/ Release(p)
    \/ GoDown \/ ComeUp

GuardSpec == GuardInit /\ [][GuardNext]_guardVars
=============================================================================
