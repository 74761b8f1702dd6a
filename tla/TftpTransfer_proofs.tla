------------------------ MODULE TftpTransfer_proofs ------------------------
(***************************************************************************)
(* TftpTransfer keeps its types, downloads are faithful and uploads are    *)
(* acknowledged truthfully as long as no timer of the server runs out, for *)
(* every number of connections and blocks and every bound.                 *)
(***************************************************************************)
EXTENDS TftpTransfer, TLAPS

\* Nothing that a connection or a packet says is ahead of the client.
Unopened ==
  /\ \A c \in Conns : conn[c].state = "unused" => conn[c] = Unused
  /\ \A a \in toClient : conn[a.from].state # "unused"
  /\ (\A c \in Conns : conn[c].state = "unused") =>
       client.block = 0 /\ client.state # "done"

NotAhead ==
  /\ client.buf.block <= client.block
  /\ \A p \in toServer : p.block <= client.block

GetInv ==
  transfer.op = "get" =>
    /\ InOrder(client.file)
    /\ Len(client.file) = client.block
    /\ client.block <= FileSizeInBlocks
    /\ client.state = "done" => client.block >= FileSizeInBlocks
    /\ \A c \in Conns :
         /\ conn[c].block <= Last + 1
         /\ conn[c].state = "closed" => client.block >= FileSizeInBlocks

\* What the single connection of an upload, never timed out, has acknowledged.
Undisturbed(c) ==
  /\ conn[c].retries = 0
  /\ \A d \in Conns \ {c} : conn[d].state = "unused"

PutInv ==
  transfer.op = "put" =>
    /\ client.block <= LastSent
    /\ client.last <=> client.block = LastSent
    /\ \A c \in Conns :
         /\ InOrder(conn[c].file)
         /\ conn[c].state # "unused" => Len(conn[c].file) = conn[c].block - 1
         /\ conn[c].block <= client.block + 1
         /\ conn[c].state # "unused" /\ Undisturbed(c) =>
              /\ client.block - 1 <= Len(conn[c].file)
              /\ client.state = "done" => client.block <= Len(conn[c].file)
              /\ \A a \in toClient : a.block <= Len(conn[c].file)

IInv == TftpTypeOK /\ Unopened /\ NotAhead /\ GetInv /\ PutInv

\* The parts of the type invariant.
ClientType ==
  [state : {"open", "done", "failed"}, peer : Conns \cup {Listener},
   block : Blocks, last : BOOLEAN,
   buf : [to : Conns \cup {Listener}, kind : Kinds, block : Blocks],
   resent : Nat, timer : BOOLEAN, file : Seq(Blocks)]
ConnType ==
  [state : {"unused", "open", "closed", "gaveUp"}, block : Blocks, short : BOOLEAN,
   retries : 0 .. MaxTimeouts, file : Seq(Blocks)]
Packets == [to : Conns \cup {Listener}, kind : Kinds, block : Blocks]
Answers == [from : Conns, kind : {"DATA", "ACK"}, block : Blocks]

\* What the proofs need of the constants.
LEMMA ConstantsTyped ==
  /\ Listener \notin Conns
  /\ Last \in Nat /\ Last >= 1
  /\ MaxTimeouts \in Nat
  /\ MaxCopies \in Nat
BY TransferAssumption

USE ConstantsTyped

-----------------------------------------------------------------------------
\* Both ends of the file lie within the block numbers.
LEMMA Bounds ==
  ASSUME transfer \in [op : {"get", "put"}, tail : Tails]
  PROVE  /\ FileSizeInBlocks \in 0 .. Last
         /\ LastSent \in 1 .. Last + 1
         /\ Last + 2 \in Nat
BY DEF FileSizeInBlocks, LastSent

\* What is received was under way, and nothing is added to the rest.
LEMMA Received ==
  ASSUME NEW p, NEW net, NEW left, Receive(p, net, left), copies \in 0 .. MaxCopies
  PROVE  p \in net /\ left \subseteq net /\ copies' \in 0 .. MaxCopies
BY DEF Receive, Copy

\* The next block, put behind the blocks written so far, keeps their order.
LEMMA AppendInOrder ==
  ASSUME NEW file \in Seq(Blocks), InOrder(file), NEW b \in Blocks, b = Len(file) + 1
  PROVE  /\ Append(file, b) \in Seq(Blocks)
         /\ InOrder(Append(file, b))
         /\ Len(Append(file, b)) = b
<1>1. Append(file, b) \in Seq(Blocks) /\ Len(Append(file, b)) = b
  OBVIOUS
<1>2. \A i \in 1 .. b : Append(file, b)[i] = i
  BY DEF InOrder
<1> QED  BY <1>1, <1>2 DEF InOrder

-----------------------------------------------------------------------------
\* The type invariant in these parts.
LEMMA Typed ==
  TftpTypeOK <=>
    /\ transfer \in [op : {"get", "put"}, tail : Tails]
    /\ client \in ClientType
    /\ conn \in [Conns -> ConnType]
    /\ up \in BOOLEAN
    /\ toServer \subseteq Packets
    /\ toClient \subseteq Answers
    /\ copies \in 0 .. MaxCopies
BY DEF TftpTypeOK, ClientType, ConnType, Packets, Answers

\* The fields of a connection.
ConnFields == {"state", "block", "short", "retries", "file"}
IsConn(r) == r = [f \in ConnFields |-> r[f]]

LEMMA ConnParts ==
  ASSUME NEW r \in ConnType
  PROVE  /\ IsConn(r)
         /\ r.state \in {"unused", "open", "closed", "gaveUp"} /\ r.block \in Blocks
         /\ r.short \in BOOLEAN /\ r.retries \in 0 .. MaxTimeouts /\ r.file \in Seq(Blocks)
BY DEF ConnType, IsConn, ConnFields

LEMMA ConnWhole ==
  ASSUME NEW r, IsConn(r), r.state \in {"unused", "open", "closed", "gaveUp"},
         r.block \in Blocks, r.short \in BOOLEAN, r.retries \in 0 .. MaxTimeouts,
         r.file \in Seq(Blocks)
  PROVE  r \in ConnType
BY DEF ConnType, IsConn, ConnFields

\* The fields of the client.
ClientFields == {"state", "peer", "block", "last", "buf", "resent", "timer", "file"}
IsClient(r) == r = [f \in ClientFields |-> r[f]]

LEMMA ClientParts ==
  ASSUME NEW r \in ClientType
  PROVE  /\ IsClient(r)
         /\ r.state \in {"open", "done", "failed"} /\ r.peer \in Conns \cup {Listener}
         /\ r.block \in Blocks /\ r.last \in BOOLEAN /\ r.buf \in Packets
         /\ r.resent \in Nat /\ r.timer \in BOOLEAN /\ r.file \in Seq(Blocks)
BY DEF ClientType, IsClient, ClientFields, Packets

LEMMA ClientWhole ==
  ASSUME NEW r, IsClient(r),
         r.state \in {"open", "done", "failed"}, r.peer \in Conns \cup {Listener},
         r.block \in Blocks, r.last \in BOOLEAN, r.buf \in Packets,
         r.resent \in Nat, r.timer \in BOOLEAN, r.file \in Seq(Blocks)
  PROVE  r \in ClientType
BY DEF ClientType, IsClient, ClientFields, Packets

\* What the server sends has the type of an answer.
LEMMA AnswerTyped ==
  ASSUME NEW c \in Conns, NEW block \in Blocks
  PROVE  /\ SendData(c, block) \in Answers /\ SendAck(c, block) \in Answers
         /\ SendData(c, block).from = c /\ SendAck(c, block).from = c
         /\ SendAck(c, block).block = block
BY DEF SendData, SendAck, Reply, Answers

\* What the client sends has the type of a packet.
LEMMA PacketTyped ==
  ASSUME NEW to \in Conns \cup {Listener}, NEW kind \in Kinds, NEW block \in Blocks
  PROVE  Packet(to, kind, block) \in Packets /\ Packet(to, kind, block).block = block
BY DEF Packet, Packets

-----------------------------------------------------------------------------
LEMMA InitInv == Init => IInv
<1> SUFFICES ASSUME Init PROVE IInv
  OBVIOUS
<1>1. /\ client.state = "open" /\ client.peer = Listener /\ client.block = 0
      /\ client.last = FALSE /\ client.resent = 0 /\ client.timer = TRUE
      /\ client.file = <<>> /\ client.buf = Packet(Listener, "REQUEST", 0)
  BY DEF Init
<1>2. /\ transfer \in [op : {"get", "put"}, tail : Tails]
      /\ conn = [c \in Conns |-> Unused]
      /\ up = TRUE /\ toServer = {client.buf} /\ toClient = {} /\ copies = 0
  BY DEF Init
<1>3. <<>> \in Seq(Blocks) /\ 0 \in Blocks
  BY DEF Blocks
<1>4. \A c \in Conns :
        /\ conn[c] = Unused /\ conn[c].state = "unused" /\ conn[c].block = 0
        /\ conn[c].file = <<>>
  BY <1>2 DEF Unused
<1>5. Packet(Listener, "REQUEST", 0) \in Packets /\ Packet(Listener, "REQUEST", 0).block = 0
  <2>1. "REQUEST" \in Kinds /\ Listener \in Conns \cup {Listener}
    BY DEF Kinds
  <2> QED  BY <1>3, <2>1, PacketTyped
<1>6. TftpTypeOK
  <2>1. client \in ClientType
    <3> DEFINE start == Packet(Listener, "REQUEST", 0)
    <3>1. client = [state |-> "open", peer |-> Listener, block |-> 0, last |-> FALSE,
                    buf |-> start, resent |-> 0, timer |-> TRUE, file |-> <<>>]
      BY DEF Init
    <3>2. start \in [to : Conns \cup {Listener}, kind : Kinds, block : Blocks]
      BY <1>5 DEF Packets
    <3> HIDE DEF start
    <3> QED  BY <1>3, <3>1, <3>2 DEF ClientType
  <2>2. Unused \in ConnType
    BY <1>3 DEF Unused, ConnType
  <2> QED  BY <1>1, <1>2, <1>5, <2>1, <2>2, Typed
<1>7. Unopened
  BY <1>1, <1>2, <1>4 DEF Unopened
<1>8. NotAhead
  BY <1>1, <1>2, <1>5 DEF NotAhead
<1>9. InOrder(<<>>) /\ Len(<<>>) = 0
  BY DEF InOrder
<1>10. FileSizeInBlocks \in Nat /\ LastSent \in Nat /\ LastSent >= 1
  BY <1>2, Bounds
<1>11. client.block = 0 /\ client.state = "open" /\ client.last = FALSE
  BY <1>1
<1>12. InOrder(client.file) /\ Len(client.file) = 0
  BY <1>1, <1>9
<1>13. \A c \in Conns : conn[c].state = "unused" /\ conn[c].block = 0 /\ InOrder(conn[c].file)
  BY <1>4, <1>9
<1>14. GetInv
  BY <1>6, <1>10, <1>11, <1>12, <1>13 DEF GetInv, TftpTypeOK
<1>15. PutInv
  BY <1>6, <1>10, <1>11, <1>13 DEF PutInv, TftpTypeOK
<1> QED  BY <1>6, <1>7, <1>8, <1>14, <1>15 DEF IInv

-----------------------------------------------------------------------------
\* What connection c may become, sending these answers.
Allowed(c, new, answers) ==
  /\ transfer.op = "get" =>
       /\ new.block <= Last + 1
       /\ new.state = "closed" => client.block >= FileSizeInBlocks
  /\ transfer.op = "put" =>
       /\ InOrder(new.file)
       /\ Len(new.file) = new.block - 1
       /\ new.block <= client.block + 1
       /\ new.retries = 0 /\ (\A d \in Conns \ {c} : conn[d].state = "unused") =>
            /\ client.block - 1 <= Len(new.file)
            /\ client.state = "done" => client.block <= Len(new.file)
            /\ \A a \in toClient \cup answers : a.block <= Len(new.file)

\* A connection of the server takes a step: what is left of the invariant to
\* show depends on the command.
LEMMA ServerKeeps ==
  ASSUME IInv, NEW c \in Conns, NEW new \in ConnType, NEW answers \in SUBSET Answers,
         conn' = [conn EXCEPT ![c] = new], new.state # "unused",
         toClient' = toClient \cup answers, \A a \in answers : a.from = c,
         toServer' \subseteq toServer, copies' \in 0 .. MaxCopies,
         UNCHANGED <<transfer, client, up>>,
         Allowed(c, new, answers)
  PROVE  IInv'
<1>1. conn'[c] = new /\ \A d \in Conns \ {c} : conn'[d] = conn[d]
  BY DEF IInv, TftpTypeOK
<1>2. TftpTypeOK'
  <2>1. conn \in [Conns -> ConnType] /\ toServer \subseteq Packets /\ toClient \subseteq Answers
    BY Typed DEF IInv
  <2>2. conn' \in [Conns -> ConnType] /\ toServer' \subseteq Packets /\ toClient' \subseteq Answers
    BY <2>1
  <2> QED  BY <2>2 DEF IInv, TftpTypeOK, ConnType, Packets, Answers
<1>3. Unopened'
  <2>1. \A d \in Conns : conn'[d].state = "unused" => conn'[d] = Unused
    BY <1>1 DEF IInv, Unopened
  <2>2. \A a \in toClient' : conn'[a.from].state # "unused"
    BY <1>1 DEF IInv, Unopened, TftpTypeOK
  <2> QED  BY <1>1, <2>1, <2>2 DEF Unopened
<1>4. NotAhead'
  BY DEF IInv, NotAhead
<1>5. GetInv'
  BY <1>1 DEF IInv, GetInv, FileSizeInBlocks, Allowed
<1>6. PutInv'
  <2> SUFFICES ASSUME transfer.op = "put"
               PROVE  PutInv'
    BY DEF PutInv
  <2>1. client.block <= LastSent /\ (client.last <=> client.block = LastSent)
    BY DEF IInv, PutInv
  <2>2. ASSUME NEW d \in Conns
        PROVE  /\ InOrder(conn'[d].file)
               /\ conn'[d].state # "unused" => Len(conn'[d].file) = conn'[d].block - 1
               /\ conn'[d].block <= client.block + 1
    BY <1>1 DEF IInv, PutInv, Allowed
  <2>3. ASSUME NEW d \in Conns, conn'[d].state # "unused", Undisturbed(d)'
        PROVE  /\ client.block - 1 <= Len(conn'[d].file)
               /\ client.state = "done" => client.block <= Len(conn'[d].file)
               /\ \A a \in toClient' : a.block <= Len(conn'[d].file)
    <3>1. d = c
      BY <1>1, <2>3 DEF Undisturbed
    <3>2. new.retries = 0 /\ \A e \in Conns \ {c} : conn[e].state = "unused"
      BY <1>1, <2>3, <3>1 DEF Undisturbed
    <3> QED  BY <1>1, <3>1, <3>2 DEF Allowed
  <2> QED  BY <2>1, <2>2, <2>3 DEF PutInv, LastSent
<1> QED  BY <1>2, <1>3, <1>4, <1>5, <1>6 DEF IInv

\* A request opens a connection: nothing has been acknowledged yet.
LEMMA OpenConnectionInv ==
  ASSUME IInv, NEW c \in Conns, OpenConnection(c)
  PROVE  IInv'
<1> DEFINE opened == [conn[c] EXCEPT !.state = "open", !.block = 1,
                                     !.short = transfer.op = "get" /\ ShortRead(1)]
           answer == IF transfer.op = "get" THEN SendData(c, 1) ELSE SendAck(c, 0)
<1>1. PICK p \in toServer : Receive(p, toServer, toServer')
  BY DEF OpenConnection
<1>2. toServer' \subseteq toServer /\ copies' \in 0 .. MaxCopies
  BY <1>1, Received DEF IInv, TftpTypeOK
<1>3. /\ conn[c] = Unused
      /\ conn' = [conn EXCEPT ![c] = opened]
      /\ toClient' = toClient \cup {answer}
      /\ UNCHANGED <<transfer, client, up>>
  BY DEF OpenConnection
<1>4. opened = [state |-> "open", block |-> 1, retries |-> 0, file |-> <<>>,
                short |-> transfer.op = "get" /\ ShortRead(1)]
  <2>1. opened = [Unused EXCEPT !.state = "open", !.block = 1,
                                !.short = transfer.op = "get" /\ ShortRead(1)]
    BY <1>3
  <2> HIDE DEF opened
  <2> QED  BY <2>1 DEF Unused
<1>5. 0 \in Blocks /\ 1 \in Blocks /\ <<>> \in Seq(Blocks)
  BY DEF Blocks
<1>6. /\ answer \in Answers
      /\ answer.from = c
      /\ transfer.op = "put" => answer.block = 0
  BY <1>5, AnswerTyped DEF IInv, TftpTypeOK
<1>7. (transfer.op = "get" /\ ShortRead(1)) \in BOOLEAN
  BY DEF ShortRead
<1> HIDE DEF opened, answer
<1>8. /\ opened \in ConnType
      /\ opened.state = "open" /\ opened.block = 1 /\ opened.retries = 0
      /\ opened.file = <<>>
  BY <1>4, <1>5, <1>7 DEF ConnType
<1>9. InOrder(<<>>) /\ Len(<<>>) = 0
  BY DEF InOrder
<1>10. client.block \in Nat
  BY DEF IInv, TftpTypeOK, Blocks
<1>11. ASSUME \A d \in Conns \ {c} : conn[d].state = "unused"
       PROVE  client.block = 0 /\ client.state # "done" /\ toClient = {}
  <2>1. \A d \in Conns : conn[d].state = "unused"
    BY <1>3, <1>11 DEF Unused
  <2> QED  BY <2>1 DEF IInv, Unopened, TftpTypeOK
<1>12. Allowed(c, opened, {answer})
  BY <1>6, <1>8, <1>9, <1>10, <1>11 DEF Allowed
<1>13. {answer} \in SUBSET Answers /\ \A a \in {answer} : a.from = c
  BY <1>6
<1> QED  BY <1>2, <1>3, <1>8, <1>12, <1>13, ServerKeeps

\* What the client and the packets under way are before a step.
LEMMA ClientTyped ==
  ASSUME IInv
  PROVE  client \in ClientType /\ toServer \subseteq Packets /\ toClient \subseteq Answers
BY Typed DEF IInv

\* What a connection is before a step of its own.
LEMMA ConnTyped ==
  ASSUME IInv, NEW c \in Conns
  PROVE  /\ conn[c] \in ConnType
         /\ client \in ClientType
         /\ conn \in [Conns -> ConnType]
         /\ toServer \subseteq Packets
BY Typed DEF IInv

\* An acknowledgement moves a reading connection to the block after it, or
\* closes it; neither is ahead of the client.
LEMMA HandleReadInv ==
  ASSUME IInv, NEW c \in Conns, HandleRead(c)
  PROVE  IInv'
<1>1. PICK p \in toServer :
        /\ Receive(p, toServer, toServer')
        /\ IF p.block >= FileSizeInBlocks /\ conn[c].short
             THEN /\ conn' = [conn EXCEPT ![c].state = "closed"]
                  /\ UNCHANGED toClient
             ELSE /\ conn' = [conn EXCEPT ![c].block = p.block + 1, ![c].retries = 0,
                                          ![c].short = ShortRead(p.block + 1)]
                  /\ toClient' = toClient \cup {SendData(c, p.block + 1)}
  BY DEF HandleRead
<1>2. toServer' \subseteq toServer /\ copies' \in 0 .. MaxCopies
  BY <1>1, Received DEF IInv, TftpTypeOK
<1>3. transfer.op = "get" /\ conn[c].state = "open" /\ UNCHANGED <<transfer, client, up>>
  BY DEF HandleRead
<1>4. /\ p.block \in Nat /\ client.block \in Nat /\ FileSizeInBlocks \in Nat
      /\ p.block <= client.block /\ client.block <= FileSizeInBlocks
      /\ FileSizeInBlocks <= Last /\ conn[c].block <= Last + 1
  <2>1. p.block \in Nat /\ client.block \in Nat
    BY DEF IInv, TftpTypeOK, Blocks
  <2>2. p.block <= client.block /\ client.block <= FileSizeInBlocks /\ conn[c].block <= Last + 1
    BY <1>3 DEF IInv, NotAhead, GetInv
  <2> QED  BY <2>1, <2>2, Bounds DEF IInv, TftpTypeOK
<1>5. CASE p.block >= FileSizeInBlocks /\ conn[c].short
  <2> DEFINE new == [conn[c] EXCEPT !.state = "closed"]
  <2>1. new \in ConnType /\ new.state = "closed" /\ new.block = conn[c].block
    BY ConnTyped DEF ConnType
  <2>2. conn' = [conn EXCEPT ![c] = new] /\ toClient' = toClient \cup {}
    BY <1>1, <1>5
  <2> HIDE DEF new
  <2>3. Allowed(c, new, {})
    BY <1>3, <1>4, <1>5, <2>1 DEF Allowed
  <2>4. {} \in SUBSET Answers /\ (\A a \in {} : a.from = c) /\ new.state # "unused"
    BY <2>1
  <2> QED  BY <1>2, <1>3, <2>1, <2>2, <2>3, <2>4, ServerKeeps
<1>6. CASE ~(p.block >= FileSizeInBlocks /\ conn[c].short)
  <2> DEFINE new == [conn[c] EXCEPT !.block = p.block + 1, !.retries = 0,
                                    !.short = ShortRead(p.block + 1)]
             answer == SendData(c, p.block + 1)
  <2>1. p.block + 1 \in Blocks /\ p.block + 1 <= Last + 1
    BY <1>4 DEF Blocks
  <2>2. ShortRead(p.block + 1) \in BOOLEAN
    BY DEF ShortRead
  <2>3. new \in ConnType /\ new.state = "open" /\ new.block = p.block + 1
    <3>1. IsConn(conn[c])
      BY ConnTyped, ConnParts
    <3>2. /\ IsConn(new)
          /\ new.state = conn[c].state /\ new.block = p.block + 1
          /\ new.short = ShortRead(p.block + 1) /\ new.retries = 0
          /\ new.file = conn[c].file
      BY <3>1 DEF IsConn, ConnFields
    <3>3. conn[c].file \in Seq(Blocks) /\ 0 \in 0 .. MaxTimeouts
      BY ConnTyped, ConnParts
    <3> HIDE DEF new
    <3> QED  BY <1>3, <2>1, <2>2, <3>2, <3>3, ConnWhole
  <2>4. answer \in Answers /\ answer.from = c
    BY <2>1, AnswerTyped
  <2>5. conn' = [conn EXCEPT ![c] = new] /\ toClient' = toClient \cup {answer}
    BY <1>1, <1>6
  <2> HIDE DEF new, answer
  <2>6. Allowed(c, new, {answer})
    BY <1>3, <2>1, <2>3 DEF Allowed
  <2>7. {answer} \in SUBSET Answers /\ \A a \in {answer} : a.from = c
    BY <2>4
  <2> QED  BY <1>2, <1>3, <2>3, <2>5, <2>6, <2>7, ServerKeeps
<1> QED  BY <1>5, <1>6

\* A writing connection acknowledges the block that arrives; it has written
\* that block already, or does so now, unless the client is ahead of it.
LEMMA HandleWriteInv ==
  ASSUME IInv, NEW c \in Conns, HandleWrite(c)
  PROVE  IInv'
<1>1. PICK p \in toServer :
        /\ Receive(p, toServer, toServer')
        /\ conn' = [conn EXCEPT
             ![c].file = IF p.block = conn[c].block THEN Append(@, p.block) ELSE @,
             ![c].block = IF p.block = @ THEN @ + 1 ELSE @,
             ![c].state = IF p.block = LastSent THEN "closed" ELSE @]
        /\ toClient' = toClient \cup {SendAck(c, p.block)}
  BY DEF HandleWrite
<1>2. toServer' \subseteq toServer /\ copies' \in 0 .. MaxCopies
  BY <1>1, Received DEF IInv, TftpTypeOK
<1>3. transfer.op = "put" /\ conn[c].state = "open" /\ UNCHANGED <<transfer, client, up>>
  BY DEF HandleWrite
<1> DEFINE file == conn[c].file
           new == [conn[c] EXCEPT
             !.file = IF p.block = conn[c].block THEN Append(file, p.block) ELSE file,
             !.block = IF p.block = conn[c].block THEN conn[c].block + 1 ELSE conn[c].block,
             !.state = IF p.block = LastSent THEN "closed" ELSE conn[c].state]
           answer == SendAck(c, p.block)
<1>4. /\ p.block \in Blocks /\ conn[c].block \in Blocks /\ client.block \in Nat
      /\ file \in Seq(Blocks)
  BY DEF IInv, TftpTypeOK, Blocks
<1>5. /\ p.block <= client.block /\ client.block <= LastSent
      /\ InOrder(file) /\ Len(file) = conn[c].block - 1
      /\ conn[c].block <= client.block + 1
  BY <1>3 DEF IInv, NotAhead, PutInv
<1>6. LastSent \in Nat /\ LastSent <= Last + 1
  BY Bounds DEF IInv, TftpTypeOK
<1>7. ASSUME p.block = conn[c].block
      PROVE  /\ Append(file, p.block) \in Seq(Blocks)
             /\ InOrder(Append(file, p.block))
             /\ Len(Append(file, p.block)) = p.block
             /\ p.block + 1 \in Blocks
  <2>1. p.block = Len(file) + 1 /\ p.block + 1 \in Blocks
    BY <1>4, <1>5, <1>6, <1>7 DEF Blocks
  <2> QED  BY <1>4, <1>5, <2>1, AppendInOrder
<1>8. /\ new.file = IF p.block = conn[c].block THEN Append(file, p.block) ELSE file
      /\ new.block = IF p.block = conn[c].block THEN conn[c].block + 1 ELSE conn[c].block
      /\ new.state \in {"open", "closed"}
      /\ new.retries = conn[c].retries
      /\ new.short = conn[c].short
      /\ IsConn(new)
  <2>1. IsConn(conn[c])
    BY ConnTyped, ConnParts
  <2> QED  BY <1>3, <2>1 DEF IsConn, ConnFields
<1>9. conn' = [conn EXCEPT ![c] = new] /\ toClient' = toClient \cup {answer}
  BY <1>1, ConnTyped DEF ConnType
<1>10. answer \in Answers /\ answer.from = c /\ answer.block = p.block
  BY <1>4, AnswerTyped
<1> HIDE DEF new, answer, file
<1>11. new.file \in Seq(Blocks) /\ new.block \in Blocks
  BY <1>4, <1>7, <1>8
<1>12. new \in ConnType /\ new.state # "unused"
  BY <1>8, <1>11, ConnTyped, ConnParts, ConnWhole
<1>13. InOrder(new.file) /\ Len(new.file) = new.block - 1 /\ new.block <= client.block + 1
  BY <1>4, <1>5, <1>7, <1>8 DEF Blocks
<1>14. ASSUME conn[c].retries = 0, \A d \in Conns \ {c} : conn[d].state = "unused"
       PROVE  /\ client.block - 1 <= Len(new.file)
              /\ client.state = "done" => client.block <= Len(new.file)
              /\ \A a \in toClient \cup {answer} : a.block <= Len(new.file)
  <2>1. /\ client.block - 1 <= Len(file)
        /\ client.state = "done" => client.block <= Len(file)
        /\ \A a \in toClient : a.block <= Len(file)
    BY <1>3, <1>14 DEF IInv, PutInv, Undisturbed, file
  <2>2. Len(file) <= Len(new.file) /\ p.block <= Len(new.file)
    <3>1. p.block \in Nat /\ conn[c].block \in Nat /\ Len(file) \in Nat
      BY <1>4 DEF Blocks
    <3>2. CASE p.block = conn[c].block
      BY <1>5, <1>7, <1>8, <3>1, <3>2
    <3>3. CASE p.block # conn[c].block
      <4>1. new.file = file
        BY <1>8, <3>3
      <4> QED  BY <1>4, <1>5, <2>1, <3>1, <3>3, <4>1
    <3> QED  BY <3>2, <3>3
  <2>3. \A a \in toClient : a.block \in Nat
    BY DEF IInv, TftpTypeOK, Blocks
  <2>4. Len(file) \in Nat /\ Len(new.file) \in Nat
    BY <1>4, <1>11
  <2> QED  BY <1>4, <1>10, <2>1, <2>2, <2>3, <2>4
<1>15. Allowed(c, new, {answer})
  BY <1>3, <1>8, <1>13, <1>14 DEF Allowed
<1>16. {answer} \in SUBSET Answers /\ \A a \in {answer} : a.from = c
  BY <1>10
<1> QED  BY <1>2, <1>3, <1>9, <1>12, <1>15, <1>16, ServerKeeps

\* The timer of a connection: it says again what it said, or gives up.
LEMMA ServerTimeoutInv ==
  ASSUME IInv, NEW c \in Conns, ServerTimeout(c)
  PROVE  IInv'
<1>1. /\ conn[c].state = "open"
      /\ UNCHANGED <<transfer, client, up, toServer, copies>>
  BY DEF ServerTimeout
<1>2. copies \in 0 .. MaxCopies /\ conn[c].block \in Blocks /\ conn[c].retries \in 0 .. MaxTimeouts
  BY DEF IInv, TftpTypeOK
<1>3. /\ transfer.op = "get" => conn[c].block <= Last + 1
      /\ transfer.op = "put" =>
           /\ InOrder(conn[c].file)
           /\ Len(conn[c].file) = conn[c].block - 1
           /\ conn[c].block <= client.block + 1
           /\ Undisturbed(c) =>
                /\ client.block - 1 <= Len(conn[c].file)
                /\ client.state = "done" => client.block <= Len(conn[c].file)
                /\ \A a \in toClient : a.block <= Len(conn[c].file)
  BY <1>1 DEF IInv, GetInv, PutInv
<1>4. CASE conn[c].retries >= MaxTimeouts
  <2> DEFINE new == [conn[c] EXCEPT !.state = "gaveUp"]
  <2>1. /\ new \in ConnType /\ new.state = "gaveUp"
        /\ new.block = conn[c].block /\ new.file = conn[c].file
        /\ new.retries = conn[c].retries
    BY ConnTyped DEF ConnType
  <2>2. conn' = [conn EXCEPT ![c] = new] /\ toClient' = toClient \cup {}
    BY <1>4 DEF ServerTimeout
  <2> HIDE DEF new
  <2>3. Allowed(c, new, {})
    BY <1>3, <2>1 DEF Allowed, Undisturbed
  <2>4. {} \in SUBSET Answers /\ (\A a \in {} : a.from = c) /\ new.state # "unused"
    BY <2>1
  <2> QED  BY <1>1, <1>2, <2>1, <2>2, <2>3, <2>4, ServerKeeps
<1>5. CASE ~(conn[c].retries >= MaxTimeouts)
  <2> DEFINE new == [conn[c] EXCEPT !.retries = @ + 1]
             answer == IF transfer.op = "get" THEN SendData(c, conn[c].block)
                                              ELSE SendAck(c, conn[c].block)
  <2>1. conn[c].retries + 1 \in 0 .. MaxTimeouts /\ conn[c].retries + 1 # 0
    BY <1>2, <1>5
  <2>2. /\ new \in ConnType /\ new.state = "open"
        /\ new.block = conn[c].block /\ new.file = conn[c].file
        /\ new.retries = conn[c].retries + 1
    BY <1>1, <2>1, ConnTyped DEF ConnType
  <2>3. answer \in Answers /\ answer.from = c
    BY <1>2, AnswerTyped
  <2>4. conn' = [conn EXCEPT ![c] = new] /\ toClient' = toClient \cup {answer}
    BY <1>5 DEF ServerTimeout
  <2> HIDE DEF new, answer
  <2>5. Allowed(c, new, {answer})
    BY <1>3, <2>1, <2>2 DEF Allowed
  <2>6. {answer} \in SUBSET Answers /\ \A a \in {answer} : a.from = c
    BY <2>3
  <2> QED  BY <1>1, <1>2, <2>2, <2>4, <2>5, <2>6, ServerKeeps
<1> QED  BY <1>4, <1>5

\* The end of the server touches neither the files nor the client.
LEMMA ExitInv ==
  ASSUME IInv, Exit
  PROVE  IInv'
<1>1. PICK p \in toServer : Receive(p, toServer, toServer')
  BY DEF Exit
<1>2. toServer' \subseteq toServer /\ copies' \in 0 .. MaxCopies
  BY <1>1, Received DEF IInv, TftpTypeOK
<1>3. up' \in BOOLEAN /\ UNCHANGED <<transfer, client, conn, toClient>>
  BY DEF Exit
<1>4. TftpTypeOK'
  BY <1>2, <1>3 DEF IInv, TftpTypeOK
<1>5. Unopened'
  BY <1>3 DEF IInv, Unopened
<1>6. NotAhead'
  BY <1>2, <1>3 DEF IInv, NotAhead
<1>7. GetInv'
  BY <1>3 DEF IInv, GetInv, FileSizeInBlocks
<1>8. PutInv'
  BY <1>3 DEF IInv, PutInv, LastSent, Undisturbed
<1> QED  BY <1>4, <1>5, <1>6, <1>7, <1>8 DEF IInv

-----------------------------------------------------------------------------
\* What the client may become, sending these packets.
Reachable(new, packets) ==
  /\ client.block <= new.block
  /\ new.buf.block <= new.block
  /\ \A p \in packets : p.block <= new.block
  /\ (\A c \in Conns : conn[c].state = "unused") => new.block = 0 /\ new.state # "done"
  /\ transfer.op = "get" =>
       /\ InOrder(new.file)
       /\ Len(new.file) = new.block
       /\ new.block <= FileSizeInBlocks
       /\ new.state = "done" => new.block >= FileSizeInBlocks
  /\ transfer.op = "put" =>
       /\ new.block <= LastSent
       /\ new.last <=> new.block = LastSent
       /\ \A c \in Conns : conn[c].state # "unused" /\ Undisturbed(c) =>
            /\ new.block - 1 <= Len(conn[c].file)
            /\ new.state = "done" => new.block <= Len(conn[c].file)

LEMMA ClientKeeps ==
  ASSUME IInv, NEW new \in ClientType, NEW packets \in SUBSET Packets,
         client' = new, toServer' \subseteq toServer \cup packets,
         toClient' \subseteq toClient, copies' \in 0 .. MaxCopies,
         UNCHANGED <<transfer, conn, up>>,
         Reachable(new, packets)
  PROVE  IInv'
<1>1. TftpTypeOK'
  <2>1. client' \in ClientType /\ toServer' \subseteq Packets
    BY ClientTyped
  <2> QED  BY <2>1 DEF IInv, TftpTypeOK, ClientType, Packets
<1>2. new.block \in Nat /\ client.block \in Nat
  BY ClientTyped, ClientParts DEF Blocks
<1>3. Unopened'
  BY DEF IInv, Unopened, Reachable
<1>4. NotAhead'
  <2>1. ASSUME NEW p \in toServer
        PROVE  p.block <= new.block
    <3>1. p.block \in Nat /\ p.block <= client.block
      BY ClientTyped DEF IInv, NotAhead, Packets, Blocks
    <3> QED  BY <1>2, <3>1 DEF Reachable
  <2> QED  BY <2>1 DEF NotAhead, Reachable
<1>5. GetInv'
  <2> SUFFICES ASSUME transfer.op = "get"
               PROVE  GetInv'
    BY DEF GetInv
  <2>1. \A c \in Conns :
          /\ conn[c].block <= Last + 1
          /\ conn[c].state = "closed" => client.block >= FileSizeInBlocks
    BY DEF IInv, GetInv
  <2>2. FileSizeInBlocks \in Nat /\ client.block <= new.block
    BY Bounds DEF IInv, TftpTypeOK, Reachable
  <2>3. \A c \in Conns : conn[c].state = "closed" => new.block >= FileSizeInBlocks
    BY <1>2, <2>1, <2>2
  <2> QED  BY <2>1, <2>3 DEF GetInv, Reachable, FileSizeInBlocks
<1>6. PutInv'
  <2> SUFFICES ASSUME transfer.op = "put"
               PROVE  PutInv'
    BY DEF PutInv
  <2>1. ASSUME NEW c \in Conns
        PROVE  /\ InOrder(conn[c].file)
               /\ conn[c].state # "unused" => Len(conn[c].file) = conn[c].block - 1
               /\ conn[c].block <= new.block + 1
    <3>1. conn[c].block \in Nat
      BY ConnTyped, ConnParts DEF Blocks
    <3> QED  BY <1>2, <3>1 DEF IInv, PutInv, Reachable
  <2>2. ASSUME NEW c \in Conns, conn[c].state # "unused", Undisturbed(c)
        PROVE  \A a \in toClient' : a.block <= Len(conn[c].file)
    BY <2>2 DEF IInv, PutInv
  <2> QED  BY <2>1, <2>2 DEF PutInv, Reachable, LastSent, Undisturbed
<1> QED  BY <1>1, <1>3, <1>4, <1>5, <1>6 DEF IInv

\* Somebody has opened the connection that a packet comes from.
LEMMA SenderOpened ==
  ASSUME IInv, NEW p \in toClient
  PROVE  /\ p.from \in Conns
         /\ conn[p.from].state # "unused"
         /\ p.block \in Blocks
BY DEF IInv, Unopened, TftpTypeOK

\* What is known of the client before its step.
LEMMA ClientKnown ==
  ASSUME IInv
  PROVE  /\ client.block \in Nat /\ client.buf.block \in Nat
         /\ client.buf.block <= client.block
         /\ FileSizeInBlocks \in Nat /\ FileSizeInBlocks <= Last
         /\ LastSent \in Nat /\ LastSent >= 1 /\ LastSent <= Last + 1
<1>1. client.block \in Nat /\ client.buf.block \in Nat
  BY ClientTyped, ClientParts DEF Packets, Blocks
<1> QED  BY <1>1, Bounds DEF IInv, NotAhead, TftpTypeOK

\* The client looks at a packet, or waits: at most its state and its peer change,
\* and it does not take the transfer for done before it is.
LEMMA ClientStays ==
  ASSUME IInv, NEW new,
         new.block = client.block, new.file = client.file, new.last = client.last,
         new.buf = client.buf,
         new.state = "done" =>
           /\ client.state = "done" \/ \E c \in Conns : conn[c].state # "unused"
           /\ transfer.op = "get" => client.block >= FileSizeInBlocks
           /\ transfer.op = "put" =>
                \A c \in Conns : conn[c].state # "unused" /\ Undisturbed(c) =>
                  client.block <= Len(conn[c].file),
         NEW packets, \A p \in packets : p.block <= client.block
  PROVE  Reachable(new, packets)
<1>1. client.block \in Nat /\ client.buf.block <= client.block
  BY ClientKnown
<1>2. (\A c \in Conns : conn[c].state = "unused") => new.block = 0 /\ new.state # "done"
  BY DEF IInv, Unopened
<1>3. transfer.op = "get" =>
        /\ InOrder(new.file)
        /\ Len(new.file) = new.block
        /\ new.block <= FileSizeInBlocks
        /\ new.state = "done" => new.block >= FileSizeInBlocks
  BY DEF IInv, GetInv
<1>4. transfer.op = "put" =>
        /\ new.block <= LastSent
        /\ new.last <=> new.block = LastSent
        /\ \A c \in Conns : conn[c].state # "unused" /\ Undisturbed(c) =>
             /\ new.block - 1 <= Len(conn[c].file)
             /\ new.state = "done" => new.block <= Len(conn[c].file)
  BY DEF IInv, PutInv
<1> QED  BY <1>1, <1>2, <1>3, <1>4 DEF Reachable

\* A block that is not the next one changes nothing, the next one is written,
\* and an empty one only says that the file is complete.
LEMMA GetCommandInv ==
  ASSUME IInv, GetCommand
  PROVE  IInv'
<1> DEFINE ack(p) == Packet(p.from, "ACK", p.block)
           next(p) == p.block = client.block + 1
<1>1. PICK p \in toClient :
        /\ Receive(p, toClient, toClient')
        /\ \/ /\ ~next(p)
              /\ client' = From(p)
              /\ UNCHANGED toServer
           \/ /\ next(p) /\ EmptyRead(p.block)
              /\ client' = [From(p) EXCEPT !.state = "done"]
              /\ UNCHANGED toServer
           \/ /\ next(p) /\ ~EmptyRead(p.block)
              /\ client' = [From(p) EXCEPT
                   !.file = Append(@, p.block), !.block = p.block,
                   !.buf = ack(p), !.resent = 0,
                   !.state = IF ShortRead(p.block) THEN "done" ELSE @]
              /\ toServer' = toServer \cup {ack(p)}
  BY DEF GetCommand
<1>2. toClient' \subseteq toClient /\ copies' \in 0 .. MaxCopies
  BY <1>1, Received DEF IInv, TftpTypeOK
<1>3. client.state = "open" /\ transfer.op = "get" /\ UNCHANGED <<transfer, conn, up>>
  BY DEF GetCommand
<1>4. client \in ClientType /\ IsClient(client)
  BY ClientTyped, ClientParts
<1>5. /\ p.from \in Conns \cup {Listener} /\ p.block \in Blocks /\ p.block \in Nat
      /\ \E c \in Conns : conn[c].state # "unused"
  BY SenderOpened DEF Blocks
<1>6. /\ InOrder(client.file) /\ Len(client.file) = client.block
      /\ client.block <= FileSizeInBlocks
  BY <1>3 DEF IInv, GetInv
<1>7. {} \in SUBSET Packets /\ \A q \in {} : q.block <= client.block
  OBVIOUS
<1>8. CASE client' = From(p) /\ UNCHANGED toServer
  <2> DEFINE new == [client EXCEPT !.peer = p.from]
  <2>1. /\ IsClient(new) /\ new.state = "open" /\ new.peer = p.from
        /\ new.block = client.block /\ new.last = client.last /\ new.buf = client.buf
        /\ new.resent = client.resent /\ new.timer = client.timer /\ new.file = client.file
    BY <1>3, <1>4 DEF IsClient, ClientFields
  <2>2. client' = new
    BY <1>8 DEF From
  <2> HIDE DEF new
  <2>3. new \in ClientType
    BY <1>4, <1>5, <2>1, ClientParts, ClientWhole
  <2>4. Reachable(new, {})
    BY <1>7, <2>1, ClientStays
  <2> QED  BY <1>2, <1>3, <1>7, <1>8, <2>2, <2>3, <2>4, ClientKeeps
<1>9. CASE /\ next(p) /\ EmptyRead(p.block)
           /\ client' = [From(p) EXCEPT !.state = "done"]
           /\ UNCHANGED toServer
  <2> DEFINE new == [client EXCEPT !.peer = p.from, !.state = "done"]
  <2>1. /\ IsClient(new) /\ new.state = "done" /\ new.peer = p.from
        /\ new.block = client.block /\ new.last = client.last /\ new.buf = client.buf
        /\ new.resent = client.resent /\ new.timer = client.timer /\ new.file = client.file
    BY <1>4 DEF IsClient, ClientFields
  <2>2. client' = new
    BY <1>9 DEF From
  <2>3. client.block >= FileSizeInBlocks
    BY <1>5, <1>9, ClientKnown DEF EmptyRead, FileSizeInBlocks
  <2> HIDE DEF new
  <2>4. new \in ClientType
    BY <1>4, <1>5, <2>1, ClientParts, ClientWhole
  <2>5. Reachable(new, {})
    BY <1>3, <1>5, <1>7, <2>1, <2>3, ClientStays
  <2> QED  BY <1>2, <1>3, <1>7, <1>9, <2>2, <2>4, <2>5, ClientKeeps
<1>10. CASE /\ next(p) /\ ~EmptyRead(p.block)
            /\ client' = [From(p) EXCEPT
                 !.file = Append(@, p.block), !.block = p.block,
                 !.buf = ack(p), !.resent = 0,
                 !.state = IF ShortRead(p.block) THEN "done" ELSE @]
            /\ toServer' = toServer \cup {ack(p)}
  <2> DEFINE state == IF ShortRead(p.block) THEN "done" ELSE client.state
             file == Append(client.file, p.block)
             sent == ack(p)
             new == [client EXCEPT !.peer = p.from, !.file = file, !.block = p.block,
                                   !.buf = sent, !.resent = 0, !.state = state]
  <2>1. sent \in Packets /\ sent.block = p.block
    <3>1. "ACK" \in Kinds
      BY DEF Kinds
    <3> QED  BY <1>5, <3>1, PacketTyped
  <2>2. file \in Seq(Blocks) /\ InOrder(file) /\ Len(file) = p.block
    BY <1>4, <1>5, <1>6, <1>10, AppendInOrder, ClientParts
  <2>3. state \in {"open", "done", "failed"} /\ (state = "done" => p.block >= Last)
    BY <1>3 DEF ShortRead
  <2>4. client' = new
    BY <1>10, <1>4 DEF From, IsClient, ClientFields
  <2>5. toServer' = toServer \cup {sent}
    BY <1>10
  <2>6. p.block = client.block + 1 /\ p.block <= FileSizeInBlocks
    <3>1. p.block = client.block + 1 /\ ~EmptyRead(p.block)
      BY <1>10
    <3> QED  BY <1>5, <3>1 DEF EmptyRead, FileSizeInBlocks
  <2> HIDE DEF state, file, sent
  <2>7. /\ IsClient(new) /\ new.state = state /\ new.peer = p.from
        /\ new.block = p.block /\ new.last = client.last /\ new.buf = sent
        /\ new.resent = 0 /\ new.timer = client.timer /\ new.file = file
    BY <1>4 DEF IsClient, ClientFields
  <2> HIDE DEF new
  <2>8. new \in ClientType
    BY <1>4, <1>5, <2>1, <2>2, <2>3, <2>7, ClientParts, ClientWhole
  <2>9. Reachable(new, {sent})
    BY <1>3, <1>5, <2>1, <2>2, <2>3, <2>6, <2>7, ClientKnown DEF Reachable
  <2>10. {sent} \in SUBSET Packets
    BY <2>1
  <2> QED  BY <1>2, <1>3, <2>4, <2>5, <2>8, <2>9, <2>10, ClientKeeps
<1> QED  BY <1>1, <1>8, <1>9, <1>10

\* An acknowledgement of the block sent last lets the client go on; the
\* server has written that block if its timer never ran out.
LEMMA PutCommandInv ==
  ASSUME IInv, PutCommand
  PROVE  IInv'
<1> DEFINE data(p) == Packet(p.from, "DATA", client.block + 1)
<1>1. PICK p \in toClient :
        /\ Receive(p, toClient, toClient')
        /\ \/ /\ p.block # client.block
              /\ client' = From(p)
              /\ UNCHANGED toServer
           \/ /\ p.block = client.block /\ client.last
              /\ client' = [From(p) EXCEPT !.state = "done"]
              /\ UNCHANGED toServer
           \/ /\ p.block = client.block /\ ~client.last
              /\ client' = [From(p) EXCEPT
                   !.block = @ + 1, !.buf = data(p), !.resent = 0,
                   !.last = client.block + 1 = LastSent,
                   !.timer = @ /\ client.block + 1 >= Last]
              /\ toServer' = toServer \cup {data(p)}
  BY DEF PutCommand
<1>2. toClient' \subseteq toClient /\ copies' \in 0 .. MaxCopies
  BY <1>1, Received DEF IInv, TftpTypeOK
<1>3. client.state = "open" /\ transfer.op = "put" /\ UNCHANGED <<transfer, conn, up>>
  BY DEF PutCommand
<1>4. client \in ClientType /\ IsClient(client)
  BY ClientTyped, ClientParts
<1>5. /\ p.from \in Conns \cup {Listener} /\ p.block \in Nat
      /\ \E c \in Conns : conn[c].state # "unused"
  BY SenderOpened DEF Blocks
<1>6. client.block <= LastSent /\ (client.last <=> client.block = LastSent)
  BY <1>3 DEF IInv, PutInv
<1>7. {} \in SUBSET Packets /\ \A q \in {} : q.block <= client.block
  OBVIOUS
<1>8. ASSUME p.block = client.block
      PROVE  \A c \in Conns : conn[c].state # "unused" /\ Undisturbed(c) =>
               client.block <= Len(conn[c].file)
  BY <1>3, <1>8 DEF IInv, PutInv
<1>9. CASE client' = From(p) /\ UNCHANGED toServer
  <2> DEFINE new == [client EXCEPT !.peer = p.from]
  <2>1. /\ IsClient(new) /\ new.state = "open" /\ new.peer = p.from
        /\ new.block = client.block /\ new.last = client.last /\ new.buf = client.buf
        /\ new.resent = client.resent /\ new.timer = client.timer /\ new.file = client.file
    BY <1>3, <1>4 DEF IsClient, ClientFields
  <2>2. client' = new
    BY <1>9 DEF From
  <2> HIDE DEF new
  <2>3. new \in ClientType
    BY <1>4, <1>5, <2>1, ClientParts, ClientWhole
  <2>4. Reachable(new, {})
    BY <1>7, <2>1, ClientStays
  <2> QED  BY <1>2, <1>3, <1>7, <1>9, <2>2, <2>3, <2>4, ClientKeeps
<1>10. CASE /\ p.block = client.block /\ client.last
            /\ client' = [From(p) EXCEPT !.state = "done"]
            /\ UNCHANGED toServer
  <2> DEFINE new == [client EXCEPT !.peer = p.from, !.state = "done"]
  <2>1. /\ IsClient(new) /\ new.state = "done" /\ new.peer = p.from
        /\ new.block = client.block /\ new.last = client.last /\ new.buf = client.buf
        /\ new.resent = client.resent /\ new.timer = client.timer /\ new.file = client.file
    BY <1>4 DEF IsClient, ClientFields
  <2>2. client' = new
    BY <1>10 DEF From
  <2> HIDE DEF new
  <2>3. new \in ClientType
    BY <1>4, <1>5, <2>1, ClientParts, ClientWhole
  <2>4. \A c \in Conns : conn[c].state # "unused" /\ Undisturbed(c) =>
          client.block <= Len(conn[c].file)
    BY <1>8, <1>10
  <2>5. Reachable(new, {})
    BY <1>3, <1>5, <1>7, <2>1, <2>4, ClientStays
  <2> QED  BY <1>2, <1>3, <1>7, <1>10, <2>2, <2>3, <2>5, ClientKeeps
<1>11. CASE /\ p.block = client.block /\ ~client.last
            /\ client' = [From(p) EXCEPT
                 !.block = @ + 1, !.buf = data(p), !.resent = 0,
                 !.last = client.block + 1 = LastSent,
                 !.timer = @ /\ client.block + 1 >= Last]
            /\ toServer' = toServer \cup {data(p)}
  <2> DEFINE block == client.block + 1
             last == client.block + 1 = LastSent
             timer == client.timer /\ client.block + 1 >= Last
             sent == data(p)
             new == [client EXCEPT !.peer = p.from, !.block = block, !.buf = sent,
                                   !.resent = 0, !.last = last, !.timer = timer]
  <2>1. block \in Blocks /\ block = client.block + 1 /\ block <= LastSent
    BY <1>6, <1>11, ClientKnown DEF Blocks
  <2>2. sent \in Packets /\ sent.block = block
    <3>1. "DATA" \in Kinds
      BY DEF Kinds
    <3> QED  BY <1>5, <2>1, <3>1, PacketTyped
  <2>3. last \in BOOLEAN /\ timer \in BOOLEAN /\ (last <=> block = LastSent)
    BY <1>4, ClientParts
  <2>4. client' = new
    BY <1>11, <1>4 DEF From, IsClient, ClientFields
  <2>5. toServer' = toServer \cup {sent}
    BY <1>11
  <2> HIDE DEF block, last, timer, sent
  <2>6. /\ IsClient(new) /\ new.state = client.state /\ new.peer = p.from
        /\ new.block = block /\ new.last = last /\ new.buf = sent
        /\ new.resent = 0 /\ new.timer = timer /\ new.file = client.file
    BY <1>4 DEF IsClient, ClientFields
  <2> HIDE DEF new
  <2>7. new \in ClientType
    BY <1>4, <1>5, <2>1, <2>2, <2>3, <2>6, ClientParts, ClientWhole
  <2>8. Reachable(new, {sent})
    BY <1>3, <1>5, <1>8, <1>11, <2>1, <2>2, <2>3, <2>6, ClientKnown DEF Reachable
  <2>9. {sent} \in SUBSET Packets
    BY <2>2
  <2> QED  BY <1>2, <1>3, <2>4, <2>5, <2>7, <2>8, <2>9, ClientKeeps
<1> QED  BY <1>1, <1>9, <1>10, <1>11

\* The client's timer: the last packet goes to whoever was heard last.
LEMMA ClientTimeoutInv ==
  ASSUME IInv, ClientTimeout
  PROVE  IInv'
<1> DEFINE again == [client.buf EXCEPT !.to = client.peer]
           error == Packet(client.peer, "ERROR", 0)
           failed == [client EXCEPT !.state = "failed"]
           waiting == [client EXCEPT !.resent = @ + 1]
<1>1. /\ client.state = "open"
      /\ UNCHANGED <<transfer, conn, up, toClient, copies>>
      /\ \/ client' = failed /\ toServer' = toServer \cup {again, error}
         \/ client' = waiting /\ toServer' = toServer \cup {again}
  BY DEF ClientTimeout
<1>2. client \in ClientType /\ IsClient(client) /\ copies \in 0 .. MaxCopies
  BY ClientTyped, ClientParts DEF IInv, TftpTypeOK
<1>3. again \in Packets /\ again.block = client.buf.block
  BY <1>2, ClientParts DEF Packets
<1>4. error \in Packets /\ error.block = 0
  <2>1. "ERROR" \in Kinds /\ 0 \in Blocks
    BY DEF Kinds, Blocks
  <2> QED  BY <1>2, <2>1, ClientParts, PacketTyped
<1>5. /\ IsClient(failed) /\ failed.state = "failed" /\ failed.peer = client.peer
      /\ failed.block = client.block /\ failed.last = client.last
      /\ failed.buf = client.buf /\ failed.resent = client.resent
      /\ failed.timer = client.timer /\ failed.file = client.file
  BY <1>2 DEF IsClient, ClientFields
<1>6. /\ IsClient(waiting) /\ waiting.state = client.state /\ waiting.peer = client.peer
      /\ waiting.block = client.block /\ waiting.last = client.last
      /\ waiting.buf = client.buf /\ waiting.resent = client.resent + 1
      /\ waiting.timer = client.timer /\ waiting.file = client.file
  BY <1>2 DEF IsClient, ClientFields
<1> HIDE DEF again, error, failed, waiting
<1>7. failed \in ClientType /\ waiting \in ClientType
  BY <1>2, <1>5, <1>6, ClientParts, ClientWhole
<1>8. /\ \A q \in {again, error} : q.block <= client.block
      /\ \A q \in {again} : q.block <= client.block
  BY <1>3, <1>4, ClientKnown
<1>9. Reachable(failed, {again, error})
  BY <1>5, <1>8, ClientStays
<1>10. Reachable(waiting, {again})
  BY <1>1, <1>6, <1>8, ClientStays
<1>11. {again, error} \in SUBSET Packets /\ {again} \in SUBSET Packets
  BY <1>3, <1>4
<1>12. CASE client' = failed /\ toServer' = toServer \cup {again, error}
  BY <1>1, <1>2, <1>7, <1>9, <1>11, <1>12, ClientKeeps
<1>13. CASE client' = waiting /\ toServer' = toServer \cup {again}
  BY <1>1, <1>2, <1>7, <1>10, <1>11, <1>13, ClientKeeps
<1> QED  BY <1>1, <1>12, <1>13

-----------------------------------------------------------------------------
LEMMA NextInv == IInv /\ [Next]_vars => IInv'
<1> SUFFICES ASSUME IInv, [Next]_vars
             PROVE  IInv'
  OBVIOUS
<1>1. CASE UNCHANGED vars
  BY <1>1 DEF vars, IInv, TftpTypeOK, Unopened, NotAhead, GetInv, PutInv, Undisturbed,
              FileSizeInBlocks, LastSent
<1>2. ASSUME NEW c \in Conns, Server(c)
      PROVE  IInv'
  BY <1>2, OpenConnectionInv, HandleReadInv, HandleWriteInv, ServerTimeoutInv DEF Server
<1>3. CASE Exit
  BY <1>3, ExitInv
<1>4. CASE Client
  BY <1>4, GetCommandInv, PutCommandInv, ClientTimeoutInv DEF Client
<1> QED  BY <1>1, <1>2, <1>3, <1>4 DEF Next

LEMMA Invariant == Spec => []IInv
BY InitInv, NextInv, PTL DEF Spec

\* Every session and every packet keeps its type.
THEOREM TypeCorrect == Spec => []TftpTypeOK
<1>1. IInv => TftpTypeOK
  BY DEF IInv
<1> QED  BY <1>1, Invariant, PTL

\* DownloadFaithful: whatever the network loses, delays or repeats and however
\* many connections answer, get writes the file's blocks in order, and neither
\* side takes the transfer for complete before the file is.
THEOREM DownloadSafe == Spec => []DownloadFaithful
<1>1. IInv => DownloadFaithful
  BY DEF IInv, GetInv, DownloadFaithful, HasAll
<1> QED  BY <1>1, Invariant, PTL

\* UploadAcknowledged: put is acknowledged truthfully while one connection
\* answers whose timer has not run out.
THEOREM UploadSafe == Spec => []UploadAcknowledged
<1>1. ASSUME IInv, transfer.op = "put", NEW c \in Conns, Opened = {c},
             conn[c].retries = 0
      PROVE  Acknowledged <= Len(conn[c].file)
  <2>1. conn[c].state # "unused"
    BY <1>1 DEF Opened, IInv, Unopened
  <2>2. Undisturbed(c)
    <3>1. \A d \in Conns \ {c} : conn[d] = Unused
      BY <1>1 DEF Opened
    <3> QED  BY <1>1, <3>1 DEF Undisturbed, Unused
  <2>3. /\ client.block - 1 <= Len(conn[c].file)
        /\ client.state = "done" => client.block <= Len(conn[c].file)
    BY <1>1, <2>1, <2>2 DEF IInv, PutInv
  <2> QED  BY <2>3 DEF Acknowledged
<1>2. IInv => UploadAcknowledged
  BY <1>1 DEF UploadAcknowledged, IInv, PutInv
<1> QED  BY <1>2, Invariant, PTL
=============================================================================
