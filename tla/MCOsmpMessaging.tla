-------------------------- MODULE MCOsmpMessaging --------------------------
(***************************************************************************)
(* Three processes, one thread each.  Process 1 receives three messages    *)
(* from two senders through a ring of two places and a pool of two slots:  *)
(* rings wrap around, the pool runs empty, senders wait for both.  Its last *)
(* receive has a buffer of length 1: too short when message m4 comes last. *)
(***************************************************************************)
EXTENDS OsmpMessaging, TLC

CONSTANTS t0, t1, t2, m1, m2, m3, m4

MCRankOf == (t0 :> 0) @@ (t1 :> 1) @@ (t2 :> 2)

send(dest, len, data) == [op |-> "send", dest |-> dest, len |-> len, data |-> data]
recv(max) == [op |-> "recv", max |-> max]

MCProgram ==
  (t0 :> <<send(1, 1, m1), send(1, 1, m2), recv(2)>>) @@
  (t1 :> <<recv(2), recv(2), send(0, 1, m3), recv(1)>>) @@
  (t2 :> <<send(1, 2, m4), send(2, 1, m4), send(0, 3, m4)>>)
=============================================================================
