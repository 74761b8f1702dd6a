--------------------------- MODULE MCOsmpBarrier ---------------------------
(* Three processes, two broadcasts by different roots and a barrier between. *)
EXTENDS OsmpBarrierWakeup

CONSTANTS a, b

MCProgram == <<[op |-> "bcast", root |-> 1, data |-> a],
               [op |-> "barrier"],
               [op |-> "bcast", root |-> 0, data |-> b]>>
=============================================================================
