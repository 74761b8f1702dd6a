--------------------------- MODULE MCOsmpRequest ---------------------------
(* Two processes that send each other two messages, more than a mailbox    *)
(* holds, before they receive.                                             *)
EXTENDS OsmpRequest

CONSTANTS a1, a2, a3, b1

MCRequests == {a1, a2, a3, b1}
MCOwner == [q \in MCRequests |-> IF q = b1 THEN 1 ELSE 0]
MCPolled == {a1}

Do(op, q) == [op |-> op, req |-> q]
To(q, dest, len) == [op |-> "isend", req |-> q, dest |-> dest, len |-> len]
From(q, max) == [op |-> "irecv", req |-> q, max |-> max]

\* Process 0 receives with two requests, one of which has sent before, and its
\* second message is longer than the buffer of the receive that gets it last.
\* Process 1 uses a single request throughout, in the end for a message longer
\* than OSMP_MAX_PAYLOAD_LENGTH.
MCProgram == [p \in 0 .. 1 |->
  IF p = 0
  THEN << Do("create", a1), To(a1, 1, 2), Do("create", a2), To(a2, 1, 1),
          Do("create", a3), From(a3, 2), Do("wait", a3), Do("wait", a1),
          From(a1, 2), Do("wait", a1), Do("wait", a2),
          Do("remove", a1) >>
  ELSE << Do("create", b1), To(b1, 0, 1), Do("wait", b1), To(b1, 0, 1),
          Do("wait", b1), From(b1, 2), Do("wait", b1), From(b1, 1),
          Do("wait", b1), To(b1, 0, 3), Do("wait", b1) >>]
=============================================================================
