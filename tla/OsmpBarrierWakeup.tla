------------------------- MODULE OsmpBarrierWakeup -------------------------
(***************************************************************************)
(* OSMP_Barrier where pthread_cond_wait may return without a broadcast, as *)
(* POSIX allows.  The code tests the count with an if, not in a loop.      *)
(***************************************************************************)
EXTENDS OsmpBarrier

SpuriousWakeup(p) ==
  /\ p \in waiting
  /\ waiting' = waiting \ {p}
  /\ woken' = woken \cup {p}
  /\ UNCHANGED <<cond, entered, passed, shm_mutex, bcast_slot, pc, call, buf>>

PosixNext == Next \/ \E p \in Ranks : SpuriousWakeup(p)
PosixSpec == Init /\ [][PosixNext]_vars
=============================================================================
