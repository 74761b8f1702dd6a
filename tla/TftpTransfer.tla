---------------------------- MODULE TftpTransfer ----------------------------
(***************************************************************************)
(* One file transfer between the client (Netzwerkprogrammierung/tftp/      *)
(* client.c, commands get and put) and the server (tftp_server.c), each of *)
(* them one process that handles packets and timeouts one at a time, over  *)
(* UDP: a packet may be lost, overtaken or duplicated.                     *)
(*                                                                         *)
(* A block is its number.  Blocks 1 to Last - 1 of the file are full (512  *)
(* bytes), block Last holds the rest: nothing, a few bytes, or the 500 to  *)
(* 504 bytes that the client takes for a full block when it sends them.    *)
(***************************************************************************)
EXTENDS Integers, Sequences

CONSTANTS
  Conns,         \* connections that the server opens, one for each request
  Listener,      \* the server's port for requests
  Last,          \* the number of the file's last block
  MaxTimeouts,   \* MAX_TIMEOUTS of the server, 3
  MaxResends,    \* MAXTIMEOUTS of the client, 3
  MaxCopies      \* bound on packets that the network delivers again

\* Block numbers are 16 bits wide.
ASSUME TransferAssumption ==
  /\ Listener \notin Conns
  /\ Last \in 1 .. 65533
  /\ MaxTimeouts \in Nat
  /\ MaxResends \in Nat
  /\ MaxCopies \in Nat

Tails == {"empty", "short", "near"}
Blocks == 0 .. Last + 2

VARIABLES
  transfer,    \* the command, and what the file's last block holds
  client,      \* struct tftpSession
  conn,        \* connector of each connection
  up,          \* the server runs
  toServer,    \* packets under way
  toClient,
  copies       \* packets delivered again so far

vars == <<transfer, client, conn, up, toServer, toClient, copies>>

Packet(to, kind, block) == [to |-> to, kind |-> kind, block |-> block]
Reply(c, kind, block) == [from |-> c, kind |-> kind, block |-> block]

\* Blocks of which the server reads fewer than 512 bytes, and those with none.
ShortRead(block) == block >= Last
EmptyRead(block) == block > Last \/ (block = Last /\ transfer.tail = "empty")
FileSizeInBlocks == IF transfer.tail = "empty" THEN Last - 1 ELSE Last

\* sendData sends 16 bytes more than it reads, and compares the sum with 516.
LastSent == IF transfer.tail = "near" THEN Last + 1 ELSE Last

Unused == [state |-> "unused", block |-> 0, short |-> FALSE, retries |-> 0,
           file |-> <<>>]

\* After commandLine: the request is sent and the timer is started.
Init ==
  /\ transfer \in [op : {"get", "put"}, tail : Tails]
  /\ client = [state |-> "open", peer |-> Listener, block |-> 0, last |-> FALSE,
               buf |-> Packet(Listener, "REQUEST", 0), resent |-> 0,
               timer |-> TRUE, file |-> <<>>]
  /\ conn = [c \in Conns |-> Unused]
  /\ up = TRUE
  /\ toServer = {client.buf}
  /\ toClient = {}
  /\ copies = 0

-----------------------------------------------------------------------------
\* A packet is received; the network may still hold a copy of it.
Copy == copies < MaxCopies /\ copies' = copies + 1
Receive(p, net, left) ==
  /\ p \in net
  /\ \/ left = net \ {p} /\ UNCHANGED copies
     \/ left = net /\ Copy

-----------------------------------------------------------------------------
(***************************************************************************)
(* The server.                                                             *)
(***************************************************************************)
\* tftp_send_data reads the block with that number; tftp_send_ack.
SendData(c, block) == Reply(c, "DATA", block)
SendAck(c, block) == Reply(c, "ACK", block)

\* tftp_connection_init: another request opens another connection.
OpenConnection(c) ==
  /\ up
  /\ conn[c] = Unused
  /\ \E p \in toServer :
       /\ p.to = Listener /\ p.kind = "REQUEST"
       /\ Receive(p, toServer, toServer')
  /\ conn' = [conn EXCEPT ![c] = [@ EXCEPT !.state = "open", !.block = 1,
                                  !.short = transfer.op = "get" /\ ShortRead(1)]]
  /\ toClient' = toClient \cup {IF transfer.op = "get" THEN SendData(c, 1)
                                                       ELSE SendAck(c, 0)}
  /\ UNCHANGED <<transfer, client, up>>

\* The server ends with the process: a request was refused (Recvfrom gets 8
\* bytes of it, the rest of the mode is what malloc returned), or an error
\* packet came to where only requests or data are expected.
Exit ==
  /\ up
  /\ \E p \in toServer :
       /\ \/ p.to = Listener
          \/ /\ p.to \in Conns /\ conn[p.to].state = "open"
             /\ transfer.op = "put" /\ p.kind # "DATA"
       /\ Receive(p, toServer, toServer')
  /\ up' = FALSE
  /\ UNCHANGED <<transfer, client, conn, toClient>>

\* tftp_handle_read does not look at the opcode: an error packet, with code
\* 0, counts as the acknowledgement of block 0.  (No request is sent to a
\* connection that reads.)
HandleRead(c) ==
  /\ up
  /\ transfer.op = "get"
  /\ conn[c].state = "open"
  /\ \E p \in toServer :
       /\ p.to = c /\ p.kind \in {"ACK", "ERROR"}
       /\ Receive(p, toServer, toServer')
       /\ IF p.block >= FileSizeInBlocks /\ conn[c].short
            THEN /\ conn' = [conn EXCEPT ![c].state = "closed"]
                 /\ UNCHANGED toClient
            ELSE /\ conn' = [conn EXCEPT ![c].block = p.block + 1, ![c].retries = 0,
                                         ![c].short = ShortRead(p.block + 1)]
                 /\ toClient' = toClient \cup {SendData(c, p.block + 1)}
  /\ UNCHANGED <<transfer, client, up>>

\* Defective variant: every block that arrives is written.
HandleWriteAny(c) ==
  /\ up
  /\ transfer.op = "put"
  /\ conn[c].state = "open"
  /\ \E p \in toServer :
       /\ p.to = c /\ p.kind = "DATA"
       /\ Receive(p, toServer, toServer')
       /\ conn' = [conn EXCEPT
            ![c].file = Append(@, p.block),
            ![c].block = @ + 1,
            ![c].state = IF p.block = LastSent THEN "closed" ELSE @]
       /\ toClient' = toClient \cup {SendAck(c, p.block)}
  /\ UNCHANGED <<transfer, client, up>>

\* tftp_handle_write
HandleWrite(c) ==
  /\ up
  /\ transfer.op = "put"
  /\ conn[c].state = "open"
  /\ \E p \in toServer :
       /\ p.to = c /\ p.kind = "DATA"
       /\ Receive(p, toServer, toServer')
       /\ conn' = [conn EXCEPT
            ![c].file = IF p.block = conn[c].block THEN Append(@, p.block) ELSE @,
            ![c].block = IF p.block = @ THEN @ + 1 ELSE @,
            ![c].state = IF p.block = LastSent THEN "closed" ELSE @]
       /\ toClient' = toClient \cup {SendAck(c, p.block)}
  /\ UNCHANGED <<transfer, client, up>>

\* Defective variant: the timer goes off for ever.
ServerTimeoutAlways(c) ==
  /\ up
  /\ conn[c].state = "open"
  /\ conn' = [conn EXCEPT ![c].retries = (@ + 1) % (MaxTimeouts + 1)]
  /\ toClient' = toClient \cup {IF transfer.op = "get" THEN SendData(c, conn[c].block)
                                                       ELSE SendAck(c, conn[c].block)}
  /\ UNCHANGED <<transfer, client, up, toServer, copies>>

\* Defective variant: one timeout too many.
ServerTimeoutMore(c) ==
  /\ up
  /\ conn[c].state = "open"
  /\ IF conn[c].retries > MaxTimeouts
       THEN /\ conn' = [conn EXCEPT ![c].state = "gaveUp"]
            /\ UNCHANGED toClient
       ELSE /\ conn' = [conn EXCEPT ![c].retries = @ + 1]
            /\ toClient' = toClient \cup {IF transfer.op = "get"
                                            THEN SendData(c, conn[c].block)
                                            ELSE SendAck(c, conn[c].block)}
  /\ UNCHANGED <<transfer, client, up, toServer, copies>>

\* timeout_handling: c->block is the block last sent, or the one that a
\* writing connection expects next.
ServerTimeout(c) ==
  /\ up
  /\ conn[c].state = "open"
  /\ IF conn[c].retries >= MaxTimeouts
       THEN /\ conn' = [conn EXCEPT ![c].state = "gaveUp"]
            /\ UNCHANGED toClient
       ELSE /\ conn' = [conn EXCEPT ![c].retries = @ + 1]
            /\ toClient' = toClient \cup {IF transfer.op = "get"
                                            THEN SendData(c, conn[c].block)
                                            ELSE SendAck(c, conn[c].block)}
  /\ UNCHANGED <<transfer, client, up, toServer, copies>>

-----------------------------------------------------------------------------
(***************************************************************************)
(* The client.                                                             *)
(***************************************************************************)
\* recvfrom stores the sender's address, whoever it is.
From(p) == [client EXCEPT !.peer = p.from]

\* Defective variant: the number of the block is not looked at.
GetCommandAny ==
  /\ client.state = "open"
  /\ transfer.op = "get"
  /\ \E p \in toClient :
       /\ Receive(p, toClient, toClient')
       /\ LET ack == Packet(p.from, "ACK", p.block) IN
            /\ client' = [From(p) EXCEPT !.file = Append(@, p.block),
                                         !.block = p.block, !.buf = ack, !.resent = 0,
                                         !.state = IF ShortRead(p.block) THEN "done" ELSE @]
            /\ toServer' = toServer \cup {ack}
  /\ UNCHANGED <<transfer, conn, up>>

\* getCommand: only the next block is written and acknowledged; an empty one
\* ends the session without an acknowledgement.
GetCommand ==
  /\ client.state = "open"
  /\ transfer.op = "get"
  /\ \E p \in toClient :
       /\ Receive(p, toClient, toClient')
       /\ LET next == p.block = client.block + 1
              ack == Packet(p.from, "ACK", p.block)
          IN  \/ /\ ~next
                 /\ client' = From(p)
                 /\ UNCHANGED toServer
              \/ /\ next /\ EmptyRead(p.block)
                 /\ client' = [From(p) EXCEPT !.state = "done"]
                 /\ UNCHANGED toServer
              \/ /\ next /\ ~EmptyRead(p.block)
                 /\ client' = [From(p) EXCEPT
                      !.file = Append(@, p.block), !.block = p.block,
                      !.buf = ack, !.resent = 0,
                      !.state = IF ShortRead(p.block) THEN "done" ELSE @]
                 /\ toServer' = toServer \cup {ack}
  /\ UNCHANGED <<transfer, conn, up>>

\* putCommand and sendData.  A full block, copied with the 16 extra bytes,
\* overwrites the session's pointer to its timer with zeros.
PutCommand ==
  /\ client.state = "open"
  /\ transfer.op = "put"
  /\ \E p \in toClient :
       /\ Receive(p, toClient, toClient')
       /\ LET sent == Packet(p.from, "DATA", client.block + 1)
          IN  \/ /\ p.block # client.block
                 /\ client' = From(p)
                 /\ UNCHANGED toServer
              \/ /\ p.block = client.block /\ client.last
                 /\ client' = [From(p) EXCEPT !.state = "done"]
                 /\ UNCHANGED toServer
              \/ /\ p.block = client.block /\ ~client.last
                 /\ client' = [From(p) EXCEPT
                      !.block = @ + 1, !.buf = sent, !.resent = 0,
                      !.last = client.block + 1 = LastSent,
                      !.timer = @ /\ client.block + 1 >= Last]
                 /\ toServer' = toServer \cup {sent}
  /\ UNCHANGED <<transfer, conn, up>>

\* timeout: without a timer pointer it does nothing.  After the last resend
\* the peer gets an error packet and the session is closed.
ClientTimeout ==
  /\ client.state = "open"
  /\ client.timer
  /\ LET again == [client.buf EXCEPT !.to = client.peer] IN
       IF client.resent > MaxResends
         THEN /\ client' = [client EXCEPT !.state = "failed"]
              /\ toServer' = toServer \cup {again, Packet(client.peer, "ERROR", 0)}
         ELSE /\ client' = [client EXCEPT !.resent = @ + 1]
              /\ toServer' = toServer \cup {again}
  /\ UNCHANGED <<transfer, conn, up, toClient, copies>>

-----------------------------------------------------------------------------
Server(c) == OpenConnection(c) \/ HandleRead(c) \/ HandleWrite(c) \/ ServerTimeout(c)
Client == GetCommand \/ PutCommand \/ ClientTimeout

Next == (\E c \in Conns : Server(c)) \/ Exit \/ Client
Spec == Init /\ [][Next]_vars

\* Only the server's timers are relied on, no packet need arrive.
FairSpec == Spec /\ \A c \in Conns : WF_vars(ServerTimeout(c))

-----------------------------------------------------------------------------
Kinds == {"REQUEST", "DATA", "ACK", "ERROR"}

TftpTypeOK ==
  /\ transfer \in [op : {"get", "put"}, tail : Tails]
  /\ client \in [state : {"open", "done", "failed"}, peer : Conns \cup {Listener},
                 block : Blocks, last : BOOLEAN,
                 buf : [to : Conns \cup {Listener}, kind : Kinds, block : Blocks],
                 resent : Nat, timer : BOOLEAN, file : Seq(Blocks)]
  /\ conn \in [Conns -> [state : {"unused", "open", "closed", "gaveUp"},
                         block : Blocks, short : BOOLEAN, retries : 0 .. MaxTimeouts,
                         file : Seq(Blocks)]]
  /\ up \in BOOLEAN
  /\ toServer \subseteq [to : Conns \cup {Listener}, kind : Kinds, block : Blocks]
  /\ toClient \subseteq [from : Conns, kind : {"DATA", "ACK"}, block : Blocks]
  /\ copies \in 0 .. MaxCopies

\* The blocks of the file from the first on, in order, none twice.
InOrder(file) == \A i \in DOMAIN file : file[i] = i
HasAll(file) == Len(file) >= FileSizeInBlocks

\* What get writes is the file from its beginning, in order, though several
\* connections may answer; the session ends well only with the whole file,
\* and a connection is torn down (tftp_handle_read) only when the client has
\* all of it.
DownloadFaithful ==
  transfer.op = "get" =>
    /\ InOrder(client.file)
    /\ client.state = "done" => HasAll(client.file)
    /\ \A c \in Conns : conn[c].state = "closed" => HasAll(client.file)

\* Blocks of put that the client has taken for acknowledged.
Acknowledged == IF client.state = "done" THEN client.block ELSE client.block - 1
Opened == { c \in Conns : conn[c] # Unused }

\* A connection writes each block once and in order, though it acknowledges
\* whatever arrives (tftp_handle_write); and as long as there is just one
\* connection and its timer never ran out, every block that the client takes
\* for acknowledged is in the server's file.
UploadAcknowledged ==
  transfer.op = "put" =>
    /\ \A c \in Conns : InOrder(conn[c].file)
    /\ \A c \in Conns : Opened = {c} /\ conn[c].retries = 0 =>
         Acknowledged <= Len(conn[c].file)

\* What the client counts as acknowledged has been written, whatever the
\* timers do, when just one connection was opened.
AckedIsWritten ==
  transfer.op = "put" =>
    \A c \in Conns : Opened = {c} => Acknowledged <= Len(conn[c].file)

\* No connection stays open for ever, whatever is lost and whenever the
\* client gives up (timeout_handling; the count of timeouts starts again with
\* every packet that a reading connection gets).
ConnectionsEnd == \A c \in Conns : conn[c].state = "open" ~> conn[c].state # "open" \/ ~up
=============================================================================
