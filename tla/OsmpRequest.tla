---------------------------- MODULE OsmpRequest ----------------------------
(***************************************************************************)
(* The non-blocking calls of OSMP/lib/OSMPlib.c: OSMP_Isend and OSMP_Irecv *)
(* run the blocking call in a thread of its own; the caller shares a       *)
(* request_data with it, polls it with OSMP_Test and joins the thread with *)
(* OSMP_Wait.                                                              *)
(*                                                                         *)
(* The blocking calls are taken apart as far as the threads can see into   *)
(* each other: permits, free slots and rings of slots, a message of two    *)
(* parts, and the slot that OSMP_Recv gives back before it has read it.    *)
(* A step goes from one such access to the next.  OsmpMessaging has the    *)
(* finer steps: semaphores one by one, the linked list, wrapping indices.  *)
(* A message is named by the call that sends it.                           *)
(***************************************************************************)
EXTENDS Naturals, Sequences, FiniteSets

CONSTANTS
  Size,        \* number of OSMP processes
  Capacity,    \* OSMP_MAX_MESSAGES_PROC
  MaxSlots,    \* OSMP_MAX_SLOTS
  MaxPayload,  \* OSMP_MAX_PAYLOAD_LENGTH
  Requests,
  Owner,       \* the process whose memory a request lies in
  Program,     \* the library calls of each process, in order
  Polled       \* the requests their owners poll, at any time

Ranks == 0 .. Size - 1
\* The slots of the free list; slot MaxSlots - 1 is OSMP_BCAST_SLOT.
Slots == 0 .. MaxSlots - 2
Calls == [op : {"create", "wait", "remove"}, req : Requests]
           \cup [op : {"isend"}, req : Requests, dest : Nat, len : Nat]
           \cup [op : {"irecv"}, req : Requests, max : Nat]

ASSUME ConstantsAssumption ==
  /\ Size \in Nat \ {0}
  /\ Capacity \in Nat \ {0}
  /\ MaxSlots \in Nat /\ MaxSlots >= 2
  /\ MaxPayload \in Nat
  /\ IsFiniteSet(Requests)
  /\ Owner \in [Requests -> Ranks]
  /\ Program \in [Ranks -> Seq(Calls)]
  /\ Polled \subseteq Requests
  /\ \A p \in Ranks : \A i \in DOMAIN Program[p] : Owner[Program[p][i].req] = p

Message == Ranks \X Nat
NoMessage == <<>>
CallOf(m) == Program[m[1]][m[2]]
\* What a slot or a receive buffer holds: the message its header (sender and
\* length) is of, and the one its payload is of.
Contents == [header : Message \cup {NoMessage}, payload : Message \cup {NoMessage}]
Empty == [header |-> NoMessage, payload |-> NoMessage]
\* The fields of a request_data that describe the operation.
Operation == [op : {"isend"}, dest : Nat, len : Nat, id : Message]
               \cup [op : {"irecv"}, max : Nat]

VARIABLES
  \* struct shared_memory and struct process
  free_slots,       \* permits for slots
  proc_free,        \* permits for the places of a process's ring
  free,             \* the slots of the free list, head first
  messages,         \* what the slots hold
  ring,             \* the slots published to a process; its length is proc_full
  \* the processes and their requests
  next,             \* the call each process executes next
  allocated,        \* requests between OSMP_CreateRequest and RemoveRequest
  status, fields,   \* of request_data
  buf,              \* the receive buffer a request points to
  thread,           \* how far the request's thread is
  slot,             \* its my_msg_index or msg_slot
  waited,           \* requests whose last operation was waited for
  \* history, never read by the code
  box, delivered,   \* the mailboxes of OsmpMailbox: messages published, taken
  taken,            \* the message whose slot a receive took out of the ring
  disturbed,        \* requests whose slot a sender got while they read it
  seen              \* what OSMP_Test said of the current operation

mailVars == <<box, delivered>>
shmVars == <<free_slots, proc_free, free, messages, ring, mailVars>>
readVars == <<buf, taken, disturbed>>
requestVars == <<status, fields, readVars, thread, slot, seen>>
vars == <<shmVars, next, allocated, requestVars, waited>>

Mailbox == INSTANCE OsmpMailbox

\* inprogress and done are -1 and 0; malloc may leave anything in status.
Status == {"inprogress", "done", "other"}
Idle == [op |-> "none"]

Init ==
  /\ Mailbox!Init
  /\ free_slots = MaxSlots - 1
  /\ proc_free = [r \in Ranks |-> Capacity]
  /\ free = [i \in 1 .. MaxSlots - 1 |-> i - 1]
  /\ messages = [s \in Slots |-> Empty]
  /\ ring = [r \in Ranks |-> <<>>]
  /\ next = [p \in Ranks |-> 1]
  /\ allocated = {}
  /\ status = [q \in Requests |-> "other"]
  /\ fields = [q \in Requests |-> Idle]
  /\ buf = [q \in Requests |-> Empty]
  /\ thread = [q \in Requests |-> "none"]
  /\ slot = [q \in Requests |-> 0]
  /\ waited = Requests
  /\ taken = [q \in Requests |-> NoMessage]
  /\ disturbed = {}
  /\ seen = [q \in Requests |-> {}]

Running(p) == next[p] <= Len(Program[p])
Call(p) == Program[p][next[p]]
Proceed(p) == next' = [next EXCEPT ![p] = @ + 1]

-----------------------------------------------------------------------------
(* The calling process.  The rules of use are guards: no operation on a    *)
(* request before OSMP_Wait has returned for the one before it, no         *)
(* OSMP_RemoveRequest either, and one receive of a process at a time.      *)

CreateRequest(p) ==
  /\ Running(p) /\ Call(p).op = "create"
  /\ Call(p).req \notin allocated
  /\ allocated' = allocated \cup {Call(p).req}
  /\ \E s \in Status : status' = [status EXCEPT ![Call(p).req] = s]
  /\ Proceed(p)
  /\ UNCHANGED <<shmVars, fields, readVars, thread, slot, waited, seen>>

RemoveRequest(p) ==
  /\ Running(p) /\ Call(p).op = "remove"
  /\ Call(p).req \in allocated \cap waited
  /\ allocated' = allocated \ {Call(p).req}
  /\ Proceed(p)
  /\ UNCHANGED <<shmVars, requestVars, waited>>

\* The fields are set, status is not, and the thread is created.  The buffer is
\* one the caller has not used for a message yet.
Start(p, operation) ==
  LET q == Call(p).req IN
  /\ q \in allocated \cap waited
  /\ fields' = [fields EXCEPT ![q] = operation]
  /\ buf' = [buf EXCEPT ![q] = Empty]
  /\ thread' = [thread EXCEPT ![q] = "created"]
  /\ waited' = waited \ {q}
  /\ taken' = [taken EXCEPT ![q] = NoMessage]
  /\ disturbed' = disturbed \ {q}
  /\ seen' = [seen EXCEPT ![q] = {}]
  /\ Proceed(p)
  /\ UNCHANGED <<shmVars, allocated, status, slot>>

SendOf(p) ==
  [op |-> "isend", dest |-> Call(p).dest, len |-> Call(p).len, id |-> <<p, next[p]>>]

\* Mutation: OSMP_Isend returns only when the receiver's ring has a place.
IsendWithPlace(p) ==
  /\ Running(p) /\ Call(p).op = "isend"
  /\ Call(p).dest \in Ranks => proc_free[Call(p).dest] > 0
  /\ Start(p, SendOf(p))

Isend(p) ==
  /\ Running(p) /\ Call(p).op = "isend"
  /\ Start(p, SendOf(p))

Irecv(p) ==
  /\ Running(p) /\ Call(p).op = "irecv"
  /\ ~\E q \in Requests \ waited : Owner[q] = p /\ fields[q].op = "irecv"
  /\ Start(p, [op |-> "irecv", max |-> Call(p).max])

\* A process may poll a request between any two calls of its program.
Test(q) ==
  /\ q \in (Polled \cap allocated) \ waited
  /\ seen' = [seen EXCEPT ![q] = @ \cup {status[q]}]
  /\ UNCHANGED <<shmVars, next, allocated, status, fields, readVars, thread, slot,
                 waited>>

\* Mutation: OSMP_Wait does not join the thread.
WaitNoJoin(p) ==
  /\ Running(p) /\ Call(p).op = "wait"
  /\ Call(p).req \in allocated \ waited
  /\ waited' = waited \cup {Call(p).req}
  /\ Proceed(p)
  /\ UNCHANGED <<shmVars, allocated, requestVars>>

\* pthread_join returns when the thread has ended.
Wait(p) ==
  /\ Running(p) /\ Call(p).op = "wait"
  /\ Call(p).req \in allocated \ waited
  /\ thread[Call(p).req] = "ended"
  /\ waited' = waited \cup {Call(p).req}
  /\ Proceed(p)
  /\ UNCHANGED <<shmVars, allocated, requestVars>>

-----------------------------------------------------------------------------
(* thread_send and thread_recv.                                            *)

Advance(q, from, to) ==
  /\ thread[q] = from
  /\ thread' = [thread EXCEPT ![q] = to]
  /\ UNCHANGED <<next, allocated, fields, waited, seen>>

\* Mutation: the two assignments to status are swapped.
MarkDone(q) ==
  /\ Advance(q, "created", "calling")
  /\ status' = [status EXCEPT ![q] = "done"]
  /\ UNCHANGED <<shmVars, readVars, slot>>

Mark(q) ==
  /\ Advance(q, "created", "calling")
  /\ status' = [status EXCEPT ![q] = "inprogress"]
  /\ UNCHANGED <<shmVars, readVars, slot>>

\* thread_send and thread_recv do not look at what the call returns.
Finish(q) ==
  /\ Advance(q, "returned", "ended")
  /\ status' = [status EXCEPT ![q] = "done"]
  /\ UNCHANGED <<shmVars, readVars, slot>>

-----------------------------------------------------------------------------
(* OSMP_Send.  No other thread can tell sem_wait(free_slots) from the pop  *)
(* of the free list it permits, nor the ring's update from the sem_post    *)
(* that announces it, so each pair is one step.                            *)

\* The checks of the destination and of the payload length.
Deliverable(p, c) == c.dest \in Ranks \ {p} /\ c.len <= MaxPayload
Accepted(q) == Deliverable(Owner[q], fields[q])

\* OSMP_Send returns OSMP_ERROR.
SendRejected(q) ==
  /\ Advance(q, "calling", "returned")
  /\ fields[q].op = "isend" /\ ~Accepted(q)
  /\ UNCHANGED <<shmVars, status, readVars, slot>>

SendReserve(q) ==
  LET d == fields[q].dest IN
  /\ Advance(q, "calling", "placed")
  /\ fields[q].op = "isend" /\ Accepted(q)
  /\ proc_free[d] > 0
  /\ proc_free' = [proc_free EXCEPT ![d] = @ - 1]
  /\ UNCHANGED <<free_slots, free, messages, ring, mailVars, status, readVars, slot>>

Reading(q) == thread[q] \in {"taken", "accepted", "header"}

\* Mutation: the free list keeps the slot it hands out.
SendPopKept(q) ==
  /\ Advance(q, "placed", "writing")
  /\ free_slots > 0
  /\ free_slots' = free_slots - 1
  /\ slot' = [slot EXCEPT ![q] = Head(free)]
  /\ disturbed' = disturbed \cup {s \in Requests : Reading(s) /\ slot[s] = Head(free)}
  /\ UNCHANGED <<proc_free, free, messages, ring, mailVars, status, buf, taken>>

\* A slot that is still being read may be the first one of the free list.
SendPop(q) ==
  /\ Advance(q, "placed", "writing")
  /\ free_slots > 0
  /\ free_slots' = free_slots - 1
  /\ slot' = [slot EXCEPT ![q] = Head(free)]
  /\ free' = Tail(free)
  /\ disturbed' = disturbed \cup {s \in Requests : Reading(s) /\ slot[s] = Head(free)}
  /\ UNCHANGED <<proc_free, messages, ring, mailVars, status, buf, taken>>

SendHeader(q) ==
  /\ Advance(q, "writing", "half")
  /\ messages' = [messages EXCEPT ![slot[q]].header = fields[q].id]
  /\ UNCHANGED <<free_slots, proc_free, free, ring, mailVars, status, readVars, slot>>

SendPayload(q) ==
  /\ Advance(q, "half", "written")
  /\ messages' = [messages EXCEPT ![slot[q]].payload = fields[q].id]
  /\ UNCHANGED <<free_slots, proc_free, free, ring, mailVars, status, readVars, slot>>

SendPublish(q) ==
  LET d == fields[q].dest IN
  /\ Advance(q, "written", "returned")
  /\ ring' = [ring EXCEPT ![d] = Append(@, slot[q])]
  /\ box' = [box EXCEPT ![d] = Append(@, fields[q].id)]
  /\ UNCHANGED <<free_slots, proc_free, free, messages, delivered, status, readVars,
                 slot>>

-----------------------------------------------------------------------------
(* OSMP_Recv.  A process's one receive is alone at its end of the ring, and *)
(* nobody waits for the slot before the last access to it, which posts the  *)
(* permits.  So the slot goes from the ring to the free list in one step,   *)
(* and the last read is one step with both sem_posts.                       *)

RecvTake(q) ==
  LET o == Owner[q]
      s == Head(ring[o])
  IN
  /\ Advance(q, "calling", "taken")
  /\ fields[q].op = "irecv"
  /\ ring[o] # <<>>
  /\ ring' = [ring EXCEPT ![o] = Tail(@)]
  /\ slot' = [slot EXCEPT ![q] = s]
  /\ free' = <<s>> \o free
  /\ Mailbox!Take(o)
  /\ taken' = [taken EXCEPT ![q] = Head(box[o])]
  /\ UNCHANGED <<free_slots, proc_free, messages, status, buf, disturbed>>

\* msg_len of the message whose header the slot holds by now.
Fits(q) == CallOf(messages[slot[q]].header).len <= fields[q].max

RecvAccept(q) ==
  /\ Advance(q, "taken", "accepted")
  /\ Fits(q)
  /\ UNCHANGED <<shmVars, status, readVars, slot>>

\* OSMP_Recv returns OSMP_ERROR and posts nothing.
RecvTooLong(q) ==
  /\ Advance(q, "taken", "returned")
  /\ ~Fits(q)
  /\ UNCHANGED <<shmVars, status, readVars, slot>>

RecvHeader(q) ==
  /\ Advance(q, "accepted", "header")
  /\ buf' = [buf EXCEPT ![q].header = messages[slot[q]].header]
  /\ UNCHANGED <<shmVars, status, taken, disturbed, slot>>

RecvPayload(q) ==
  /\ Advance(q, "header", "returned")
  /\ buf' = [buf EXCEPT ![q].payload = messages[slot[q]].payload]
  /\ free_slots' = free_slots + 1
  /\ proc_free' = [proc_free EXCEPT ![Owner[q]] = @ + 1]
  /\ UNCHANGED <<free, messages, ring, mailVars, status, taken, disturbed, slot>>

-----------------------------------------------------------------------------
Main(p) ==
  \/ CreateRequest(p) \/ RemoveRequest(p)
  \/ Isend(p) \/ Irecv(p) \/ Wait(p)

Sender(q) ==
  \/ SendRejected(q) \/ SendReserve(q) \/ SendPop(q)
  \/ SendHeader(q) \/ SendPayload(q) \/ SendPublish(q)

Receiver(q) ==
  \/ RecvTake(q) \/ RecvAccept(q) \/ RecvTooLong(q)
  \/ RecvHeader(q) \/ RecvPayload(q)

Worker(q) == Mark(q) \/ Sender(q) \/ Receiver(q) \/ Finish(q)

Finished == \A p \in Ranks : ~Running(p)
Terminating == Finished /\ UNCHANGED vars

Next ==
  \/ \E p \in Ranks : Main(p)
  \/ \E q \in Requests : Worker(q) \/ Test(q)
  \/ Terminating
Spec == Init /\ [][Next]_vars
\* Every process and every thread that is not blocked runs on.
FairSpec ==
  /\ Spec
  /\ \A p \in Ranks : WF_vars(Main(p))
  /\ \A q \in Requests : WF_vars(Worker(q))

-----------------------------------------------------------------------------
Sending == {"placed", "writing", "half", "written"}
Receiving == {"taken", "accepted", "header"}
Alive == {"created", "calling", "returned"} \cup Sending \cup Receiving

TypeOK ==
  /\ box \in [Ranks -> Seq(Message)]
  /\ delivered \in [Ranks -> Seq(Message)]
  /\ free_slots \in Nat
  /\ proc_free \in [Ranks -> Nat]
  /\ free \in Seq(Slots)
  /\ messages \in [Slots -> Contents]
  /\ ring \in [Ranks -> Seq(Slots)]
  /\ next \in [Ranks -> Nat \ {0}]
  /\ allocated \subseteq Requests
  /\ status \in [Requests -> Status]
  /\ fields \in [Requests -> Operation \cup {Idle}]
  /\ buf \in [Requests -> Contents]
  /\ thread \in [Requests -> Alive \cup {"none", "ended"}]
  /\ slot \in [Requests -> Slots]
  /\ waited \subseteq Requests
  /\ taken \in [Requests -> Message \cup {NoMessage}]
  /\ disturbed \subseteq Requests
  /\ seen \in [Requests -> SUBSET Status]

\* The thread's call of OSMP_Send or OSMP_Recv has returned.
Over(q) == thread[q] \in {"returned", "ended"}

\* A thread uses its request only while the request is allocated.
RequestOutlivesThread ==
  \A q \in Requests : thread[q] \in Alive => q \in allocated

\* OSMP_Test: done means that the operation is over.
TestTruthful ==
  \A q \in Requests \ waited : "done" \in seen[q] => Over(q)

\* Once OSMP_Test has said inprogress, it does not say done before the
\* operation is over, whatever status held before the thread started.
ProgressTruthful ==
  \A q \in Requests \ waited :
    "inprogress" \in seen[q] /\ status[q] = "done" => Over(q)

Whole(m) == [header |-> m, payload |-> m]

\* How often message id lies whole in the ring of process r or was taken out.
Copies(id, r) ==
  {i \in DOMAIN ring[r] : messages[ring[r][i]] = Whole(id)} \X {"ring"}
    \cup {i \in DOMAIN delivered[r] : delivered[r][i] = id} \X {"delivered"}
Single(S) == \E x \in S : S = {x}

\* The call of OSMP_Wait at position w of p's program waits for the one at i.
WaitsFor(p, w, i) ==
  /\ i < w /\ Program[p][w].op = "wait"
  /\ Program[p][i].op \in {"isend", "irecv"}
  /\ Program[p][i].req = Program[p][w].req
  /\ \A k \in i + 1 .. w - 1 : Program[p][k].req # Program[p][i].req

\* The call that named message m has been made; it was an OSMP_Isend to r.
SentBy(m, r) ==
  /\ m[2] \in 1 .. next[m[1]] - 1
  /\ CallOf(m).op = "isend" /\ CallOf(m).dest = r
\* OSMP_Send does not refuse it.
SentTo(m, r) == SentBy(m, r) /\ Deliverable(m[1], CallOf(m))

\* When OSMP_Wait has returned for an OSMP_Isend with a valid destination and
\* length, exactly one copy of the message lies whole in the receiver's ring or
\* was taken out of it; and a ring holds nothing but whole messages that were
\* sent to its process and not refused.
WaitedSendsArrive ==
  /\ \A p \in Ranks : \A w \in 1 .. next[p] - 1, i \in 1 .. next[p] - 1 :
       /\ WaitsFor(p, w, i) /\ Program[p][i].op = "isend"
       /\ Deliverable(p, Program[p][i])
       => Single(Copies(<<p, i>>, Program[p][i].dest))
  /\ \A r \in Ranks : \A i \in DOMAIN ring[r] :
       LET m == messages[ring[r][i]].header IN
       messages[ring[r][i]] = Whole(m) /\ SentTo(m, r)

\* What OSMP_Recv leaves in the buffer of a request if no sender got its slot.
Received(q) ==
  IF CallOf(taken[q]).len <= fields[q].max THEN Whole(taken[q]) ELSE Empty

\* A receive that was waited for has taken a message that no other one has, and
\* its buffer holds all of it (nothing, if the message was longer than the
\* buffer), unless a sender was handed the slot while the thread read it.
BuffersIntact ==
  \A q \in waited : fields[q].op = "irecv" =>
    /\ taken[q] # NoMessage
    /\ \A s \in waited \ {q} : taken[s] # taken[q]
    /\ q \notin disturbed => buf[q] = Received(q)

\* Non-blocking calls do not block: processes that first start all their sends
\* to each other, more than the mailboxes hold, still get to their receives.
AllFinish == <>Finished

-----------------------------------------------------------------------------
(* The inductive invariant.                                                *)

\* How status, thread and the set of pending requests belong together.
Consistent(q) ==
  /\ q \notin waited => q \in allocated /\ thread[q] # "none"
  /\ q \in waited => thread[q] \in {"none", "ended"}
  /\ thread[q] = "none" <=> fields[q] = Idle
  /\ thread[q] = "created" /\ status[q] = "done" => "inprogress" \notin seen[q]
  /\ thread[q] \in {"calling"} \cup Sending \cup Receiving => status[q] = "inprogress"
  /\ thread[q] = "ended" /\ q \notin waited => status[q] = "done"
  /\ thread[q] \in Sending => fields[q].op = "isend" /\ Accepted(q)
  /\ thread[q] \in Receiving => fields[q].op = "irecv"

\* A request whose thread may still run is pending, and its status says
\* inprogress from Mark until the call of the thread is over.
RequestInv ==
  /\ TypeOK
  /\ \A q \in Requests : Consistent(q)
  /\ RequestOutlivesThread
  /\ ProgressTruthful

Within(s, m) == \E i \in DOMAIN s : s[i] = m
Arrived(m, r) == Within(box[r], m) \/ Within(delivered[r], m)
Distinct(s) == \A i, j \in DOMAIN s : s[i] = s[j] => i = j

\* The thread of q has its message still to send.
Unsent(q) ==
  fields[q].op = "isend" /\ thread[q] \in {"created", "calling"} \cup Sending

\* A request to send names its message by the call that started it, and no
\* call of OSMP_Wait for it has been made since, unless it returned.
Named(q) ==
  fields[q].op = "isend" =>
    LET p == Owner[q]
        m == fields[q].id
    IN  /\ m[1] = p /\ SentBy(m, fields[q].dest) /\ Program[p][m[2]].req = q
        /\ CallOf(m).len = fields[q].len
        /\ q \notin waited => \A w \in m[2] + 1 .. next[p] - 1 :
             Program[p][w].op = "wait" => Program[p][w].req # q

\* A message is in one place of one mailbox or taken once, where it was sent to.
MessagesOnce ==
  \A r \in Ranks :
    /\ Distinct(box[r]) /\ Distinct(delivered[r])
    /\ \A i \in DOMAIN box[r] : ~Within(delivered[r], box[r][i])
    /\ \A i \in DOMAIN box[r] : SentTo(box[r][i], r)
    /\ \A i \in DOMAIN delivered[r] : SentTo(delivered[r][i], r)

\* What a thread has still to send has not arrived yet ...
UnsentNotArrived ==
  \A q \in Requests :
    Unsent(q) /\ Accepted(q) => ~Arrived(fields[q].id, fields[q].dest)

\* ... and everything else that was sent and not refused has.
SendsArrive ==
  \A p \in Ranks : \A i \in 1 .. next[p] - 1 :
    LET c == Program[p][i] IN
    c.op = "isend" /\ Deliverable(p, c) =>
      Arrived(<<p, i>>, c.dest) \/ (Unsent(c.req) /\ fields[c.req].id = <<p, i>>)

\* No two receives take the same message.
TakenApart ==
  \A q \in Requests : taken[q] # NoMessage =>
    /\ Within(delivered[Owner[q]], taken[q])
    /\ \A s \in Requests \ {q} : taken[s] # taken[q]

MessageInv ==
  /\ \A p \in Ranks : next[p] <= Len(Program[p]) + 1
  /\ \A q \in Requests : Named(q)
  /\ MessagesOnce /\ UnsentNotArrived /\ SendsArrive /\ TakenApart

Writing(q) == thread[q] \in {"writing", "half", "written"}

\* A slot is in one place of the free list or of one ring, or with one sender.
SlotsApart ==
  /\ Distinct(free)
  /\ \A r \in Ranks : Distinct(ring[r])
  /\ \A s \in Slots : \A r \in Ranks : Within(ring[r], s) =>
       ~Within(free, s) /\ \A o \in Ranks \ {r} : ~Within(ring[o], s)
  /\ \A q \in Requests : Writing(q) =>
       /\ ~Within(free, slot[q])
       /\ \A r \in Ranks : ~Within(ring[r], slot[q])
       /\ \A s \in Requests \ {q} : Writing(s) => slot[s] # slot[q]

\* The slots of a ring hold the messages of the mailbox, in order.
RingHolds ==
  \A r \in Ranks :
    /\ Len(ring[r]) = Len(box[r])
    /\ \A i \in DOMAIN ring[r] : messages[ring[r][i]] = Whole(box[r][i])

\* What a sender has written of its message so far.
SenderHolds(q) ==
  /\ thread[q] = "half" => messages[slot[q]].header = fields[q].id
  /\ thread[q] = "written" => messages[slot[q]] = Whole(fields[q].id)

\* What a receive has read of its message so far; while no sender was handed
\* the slot, it is free and still holds the message.
ReceiverHolds(q) ==
  /\ thread[q] \in {"created", "calling"} => buf[q] = Empty
  /\ fields[q].op = "irecv" /\ thread[q] \in Receiving \cup {"returned", "ended"} =>
       taken[q] # NoMessage
  /\ Reading(q) /\ q \notin disturbed =>
       /\ Within(free, slot[q]) /\ messages[slot[q]] = Whole(taken[q])
       /\ thread[q] \in {"taken", "accepted"} => buf[q] = Empty
       /\ thread[q] \in {"accepted", "header"} => CallOf(taken[q]).len <= fields[q].max
       /\ thread[q] = "header" => buf[q] = [header |-> taken[q], payload |-> NoMessage]
  /\ fields[q].op = "irecv" /\ Over(q) /\ q \notin disturbed => buf[q] = Received(q)

SlotInv ==
  /\ SlotsApart /\ RingHolds
  /\ \A q \in Requests : SenderHolds(q) /\ ReceiverHolds(q)

Readers == {q \in Requests : Reading(q)}

\* The requests that keep a place of r's ring: senders with a message for it on
\* the way, and its receive while it reads.
Keeping(r) ==
  {q \in Requests : \/ thread[q] \in Sending /\ fields[q].dest = r
                    \/ Reading(q) /\ Owner[q] = r}

\* Permits never promise more than there is; what is missing was lost by a
\* receive that failed.
PermitsCovered ==
  /\ free_slots + Cardinality(Readers) <= Len(free)
  /\ \A r \in Ranks : proc_free[r] + Len(ring[r]) + Cardinality(Keeping(r)) <= Capacity

IInv == RequestInv /\ MessageInv /\ SlotInv /\ PermitsCovered
=============================================================================
