---------------------------- MODULE OsmpMailbox ----------------------------
(***************************************************************************)
(* What OSMP_Send and OSMP_Recv promise together: every process has a      *)
(* mailbox of at most Capacity messages (OSMP_MAX_MESSAGES_PROC); a        *)
(* message enters it whole, stays as it is, and leaves it in the order of  *)
(* arrival.                                                                *)
(***************************************************************************)
EXTENDS Naturals, Sequences

CONSTANTS Ranks, Message, Capacity

VARIABLES
  box,        \* the messages waiting for each process
  delivered   \* the messages each process has taken out

Init ==
  /\ box = [r \in Ranks |-> <<>>]
  /\ delivered = [r \in Ranks |-> <<>>]

Put(r, m) ==
  /\ Len(box[r]) < Capacity
  /\ box' = [box EXCEPT ![r] = Append(@, m)]
  /\ UNCHANGED delivered

Take(r) ==
  /\ box[r] # <<>>
  /\ box' = [box EXCEPT ![r] = Tail(@)]
  /\ delivered' = [delivered EXCEPT ![r] = Append(@, Head(box[r]))]

Next == \E r \in Ranks : Take(r) \/ \E m \in Message : Put(r, m)
Spec == Init /\ [][Next]_<<box, delivered>>
=============================================================================
