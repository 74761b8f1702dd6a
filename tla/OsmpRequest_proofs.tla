------------------------- MODULE OsmpRequest_proofs -------------------------
(***************************************************************************)
(* A thread never outlives its request, OSMP_Test does not say done too    *)
(* early once it has said inprogress, a send that was waited for and not   *)
(* refused has arrived exactly once, and a receive that was waited for has *)
(* a message of its own, whole unless a sender got its slot: for every     *)
(* number of processes, requests, slots and places and all programs.       *)
(***************************************************************************)
EXTENDS OsmpRequest, FiniteSetTheorems, TLAPS

USE ConstantsAssumption

-----------------------------------------------------------------------------
(* Types.                                                                  *)

\* The call a process is about to make is one of its program's, for one of its
\* own requests.
LEMMA CallTyped ==
  ASSUME TypeOK, NEW p \in Ranks, Running(p)
  PROVE  /\ Call(p) \in Calls
         /\ Call(p).req \in Requests
         /\ next[p] \in Nat
         /\ [next EXCEPT ![p] = @ + 1] \in [Ranks -> Nat \ {0}]
<1>1. Program[p] \in Seq(Calls) /\ next[p] \in 1 .. Len(Program[p])
  BY DEF TypeOK, Running
<1>2. Call(p) \in Calls
  BY <1>1 DEF Call
<1>3. Call(p).req \in Requests
  BY <1>2 DEF Calls
<1>4. [next EXCEPT ![p] = @ + 1] \in [Ranks -> Nat \ {0}]
  BY DEF TypeOK
<1> QED  BY <1>1, <1>2, <1>3, <1>4

\* OSMP_Isend hands its thread a destination, a length and the name of its
\* message, OSMP_Irecv the length of a buffer.
LEMMA OperationTyped ==
  ASSUME TypeOK, NEW p \in Ranks, Running(p)
  PROVE  /\ Call(p).op = "isend" => SendOf(p) \in Operation
         /\ Call(p).op = "irecv" => [op |-> "irecv", max |-> Call(p).max] \in Operation
<1>1. Call(p) \in Calls /\ next[p] \in Nat
  BY CallTyped
<1>2. CASE Call(p).op = "isend"
  <2>1. Call(p).dest \in Nat /\ Call(p).len \in Nat
    BY <1>1, <1>2 DEF Calls
  <2>2. <<p, next[p]>> \in Message
    BY <1>1 DEF Message
  <2> QED  BY <1>2, <2>1, <2>2 DEF Operation, SendOf
<1>3. CASE Call(p).op = "irecv"
  <2>1. Call(p).max \in Nat
    BY <1>1, <1>3 DEF Calls
  <2> QED  BY <1>3, <2>1 DEF Operation
<1> QED  BY <1>2, <1>3

\* Neither operation is the absence of one.
LEMMA OperationNotIdle == \A o \in Operation : o # Idle
  BY DEF Operation, Idle

\* The fields of a request to send.
LEMMA FieldsTyped ==
  ASSUME TypeOK, NEW q \in Requests, fields[q].op = "isend"
  PROVE  fields[q].id \in Message /\ fields[q].dest \in Nat /\ fields[q].len \in Nat
<1>1. fields[q] \in Operation \cup {Idle}
  BY DEF TypeOK
<1> QED  BY <1>1 DEF Operation, Idle

\* Taking the head off a list of slots, and putting one in front of it.
LEMMA SlotListTyped ==
  ASSUME NEW s \in Seq(Slots)
  PROVE  /\ s # <<>> => Head(s) \in Slots /\ Tail(s) \in Seq(Slots)
                        /\ Len(Tail(s)) = Len(s) - 1 /\ Len(s) \in Nat \ {0}
         /\ \A e \in Slots : /\ <<e>> \o s \in Seq(Slots)
                             /\ Len(<<e>> \o s) = Len(s) + 1
                             /\ Append(s, e) \in Seq(Slots)
                             /\ Len(Append(s, e)) = Len(s) + 1
<1> DEFINE S == Slots
<1>1. s \in Seq(S)
  OBVIOUS
<1> HIDE DEF S
<1>2. s # <<>> => Head(s) \in S /\ Tail(s) \in Seq(S)
                  /\ Len(Tail(s)) = Len(s) - 1 /\ Len(s) \in Nat \ {0}
  BY <1>1
<1>3. ASSUME NEW e \in S
      PROVE  /\ <<e>> \o s \in Seq(S) /\ Len(<<e>> \o s) = Len(s) + 1
             /\ Append(s, e) \in Seq(S) /\ Len(Append(s, e)) = Len(s) + 1
  <2>1. <<e>> \in Seq(S) /\ Len(<<e>>) = 1
    OBVIOUS
  <2>2. <<e>> \o s \in Seq(S) /\ Len(<<e>> \o s) = 1 + Len(s)
    BY <1>1, <2>1
  <2>3. Len(s) \in Nat
    BY <1>1
  <2> QED  BY <1>1, <2>2, <2>3
<1> QED  BY <1>2, <1>3 DEF S

-----------------------------------------------------------------------------
(* Requests and threads.                                                   *)

\* The initial state satisfies the first part of the invariant: no request has
\* a thread.
LEMMA InitEstablishes == Init => RequestInv
<1> SUFFICES ASSUME Init PROVE RequestInv
  OBVIOUS
<1>1. free \in Seq(Slots)
  <2>1. free = [i \in 1 .. MaxSlots - 1 |-> i - 1] /\ MaxSlots - 1 \in Nat
    BY DEF Init
  <2>2. \A i \in 1 .. MaxSlots - 1 : i - 1 \in Slots
    BY DEF Slots
  <2> QED  BY <2>1, <2>2
<1>2. Empty \in Contents /\ 0 \in Slots
  BY DEF Empty, Contents, Slots
<1>3. TypeOK
  <2>1. box \in [Ranks -> Seq(Message)] /\ delivered \in [Ranks -> Seq(Message)]
        /\ ring \in [Ranks -> Seq(Slots)]
    BY DEF Init, Mailbox!Init
  <2>2. free_slots \in Nat /\ proc_free \in [Ranks -> Nat] /\ next \in [Ranks -> Nat \ {0}]
    BY DEF Init
  <2>3. messages \in [Slots -> Contents] /\ buf \in [Requests -> Contents]
        /\ slot \in [Requests -> Slots] /\ taken \in [Requests -> Message \cup {NoMessage}]
    BY <1>2 DEF Init
  <2>4. status \in [Requests -> Status] /\ fields \in [Requests -> Operation \cup {Idle}]
        /\ thread \in [Requests -> Alive \cup {"none", "ended"}]
        /\ seen \in [Requests -> SUBSET Status]
        /\ allocated \subseteq Requests /\ waited \subseteq Requests
        /\ disturbed \subseteq Requests
    BY DEF Init, Status
  <2> QED  BY <1>1, <2>1, <2>2, <2>3, <2>4 DEF TypeOK
<1>4. /\ waited = Requests
      /\ \A q \in Requests : thread[q] = "none" /\ fields[q] = Idle
  BY DEF Init
<1>5. "none" \notin Alive /\ "none" \notin Sending /\ "none" \notin Receiving
  BY DEF Alive, Sending, Receiving
<1>6. \A q \in Requests : Consistent(q)
  BY <1>4, <1>5 DEF Consistent
<1> QED  BY <1>3, <1>4, <1>5, <1>6 DEF RequestInv, RequestOutlivesThread, ProgressTruthful

\* OSMP_CreateRequest writes nothing but garbage into a request without a thread.
LEMMA CreateKeeps ==
  ASSUME RequestInv, NEW p \in Ranks, CreateRequest(p)
  PROVE  RequestInv'
<1> DEFINE q == Call(p).req
<1>1. TypeOK /\ q \in Requests /\ q \notin allocated
  BY CallTyped DEF RequestInv, CreateRequest
<1>2. PICK s \in Status : status' = [status EXCEPT ![q] = s]
  BY DEF CreateRequest
<1>3. q \in waited
  BY <1>1 DEF RequestInv, Consistent
<1>4. next' \in [Ranks -> Nat \ {0}]
  BY <1>1, CallTyped DEF CreateRequest, Proceed
<1>5. TypeOK'
  BY <1>1, <1>2, <1>4 DEF CreateRequest, TypeOK, shmVars, mailVars, readVars
<1>6. thread[q] \in {"none", "ended"}
  BY <1>1, <1>3 DEF RequestInv, Consistent
<1>7. \A r \in Requests : r # q => status'[r] = status[r]
  BY <1>1, <1>2 DEF TypeOK
<1> HIDE DEF q
<1>8. UNCHANGED <<thread, fields, seen, waited>> /\ allocated' = allocated \cup {q}
  BY DEF CreateRequest, q
<1>9. \A r \in Requests : Consistent(r)'
  BY <1>3, <1>6, <1>7, <1>8 DEF RequestInv, Consistent, Accepted, Sending, Receiving
<1>10. RequestOutlivesThread'
  BY <1>8 DEF RequestInv, RequestOutlivesThread
<1>11. ProgressTruthful'
  BY <1>3, <1>7, <1>8 DEF RequestInv, ProgressTruthful, Over
<1> QED  BY <1>5, <1>9, <1>10, <1>11 DEF RequestInv

\* OSMP_RemoveRequest frees a request whose thread has ended.
LEMMA RemoveKeeps ==
  ASSUME RequestInv, NEW p \in Ranks, RemoveRequest(p)
  PROVE  RequestInv'
<1> DEFINE q == Call(p).req
<1>1. TypeOK /\ q \in Requests /\ q \in waited
  BY CallTyped DEF RequestInv, RemoveRequest
<1>2. next' \in [Ranks -> Nat \ {0}]
  BY <1>1, CallTyped DEF RemoveRequest, Proceed
<1> HIDE DEF q
<1>3. UNCHANGED <<shmVars, status, fields, readVars, thread, slot, seen, waited>>
      /\ allocated' = allocated \ {q}
  BY DEF RemoveRequest, requestVars, q
<1>4. TypeOK'
  BY <1>1, <1>2, <1>3 DEF TypeOK, shmVars, mailVars, readVars
<1>5. \A r \in Requests : Consistent(r)'
  BY <1>1, <1>3 DEF RequestInv, Consistent, Accepted
<1>6. thread[q] \in {"none", "ended"}
  BY <1>1 DEF RequestInv, Consistent
<1>7. RequestOutlivesThread'
  BY <1>3, <1>6 DEF RequestInv, RequestOutlivesThread, Alive, Sending, Receiving
<1>8. ProgressTruthful'
  BY <1>3 DEF RequestInv, ProgressTruthful, Over
<1> QED  BY <1>4, <1>5, <1>7, <1>8 DEF RequestInv

\* OSMP_Isend and OSMP_Irecv create the thread of an allocated request and
\* start its history afresh.
LEMMA StartKeeps ==
  ASSUME RequestInv, NEW p \in Ranks, Running(p), NEW o \in Operation, Start(p, o)
  PROVE  RequestInv'
<1>0. TypeOK /\ Call(p).req \in Requests
  BY CallTyped DEF RequestInv
<1> PICK q \in Requests : q = Call(p).req
  BY <1>0
<1>1. TypeOK /\ q \in allocated /\ o # Idle
  BY <1>0, OperationNotIdle DEF Start
<1>2. next' \in [Ranks -> Nat \ {0}]
  BY <1>1, CallTyped DEF Start, Proceed
<1>3. /\ fields' = [fields EXCEPT ![q] = o]
      /\ buf' = [buf EXCEPT ![q] = Empty]
      /\ thread' = [thread EXCEPT ![q] = "created"]
      /\ waited' = waited \ {q}
      /\ taken' = [taken EXCEPT ![q] = NoMessage]
      /\ disturbed' = disturbed \ {q}
      /\ seen' = [seen EXCEPT ![q] = {}]
      /\ UNCHANGED <<shmVars, allocated, status, slot>>
  BY DEF Start
<1>4. TypeOK'
  <2>1. Empty \in Contents /\ "created" \in Alive
    BY DEF Empty, Contents, Alive
  <2>2. buf' \in [Requests -> Contents] /\ taken' \in [Requests -> Message \cup {NoMessage}]
        /\ fields' \in [Requests -> Operation \cup {Idle}]
    BY <1>1, <1>3, <2>1 DEF TypeOK
  <2>3. /\ thread' \in [Requests -> Alive \cup {"none", "ended"}]
        /\ seen' \in [Requests -> SUBSET Status]
        /\ waited' \subseteq Requests /\ disturbed' \subseteq Requests
    BY <1>1, <1>3, <2>1 DEF TypeOK
  <2> QED  BY <1>1, <1>2, <1>3, <2>2, <2>3 DEF TypeOK, shmVars, mailVars
<1>5. ASSUME NEW r \in Requests, r # q
      PROVE  /\ Consistent(r)'
             /\ fields'[r] = fields[r] /\ thread'[r] = thread[r] /\ seen'[r] = seen[r]
  <2>1. fields'[r] = fields[r] /\ thread'[r] = thread[r] /\ seen'[r] = seen[r]
    BY <1>1, <1>3, <1>5 DEF TypeOK
  <2>2. Consistent(r) /\ (r \in waited' <=> r \in waited)
    BY <1>3, <1>5 DEF RequestInv
  <2>3. allocated' = allocated /\ status' = status
    BY <1>3
  <2>4. Consistent(r)'
    BY <2>1, <2>2, <2>3 DEF Consistent, Accepted
  <2> QED  BY <2>1, <2>4
<1>6. fields'[q] = o /\ thread'[q] = "created" /\ seen'[q] = {}
  BY <1>1, <1>3 DEF TypeOK
<1>7. Consistent(q)'
  <2>1. q \in allocated' /\ q \notin waited' /\ fields'[q] # Idle
    BY <1>1, <1>3, <1>6
  <2> QED  BY <1>6, <2>1 DEF Consistent, Sending, Receiving
<1>8. RequestOutlivesThread'
  BY <1>1, <1>3, <1>5 DEF RequestInv, RequestOutlivesThread
<1>9. ProgressTruthful'
  BY <1>3, <1>5, <1>6 DEF RequestInv, ProgressTruthful, Over
<1> QED  BY <1>4, <1>5, <1>7, <1>8, <1>9 DEF RequestInv

\* OSMP_Wait returns when the thread has ended.
LEMMA WaitKeeps ==
  ASSUME RequestInv, NEW p \in Ranks, Wait(p)
  PROVE  RequestInv'
<1> DEFINE q == Call(p).req
<1>1. TypeOK /\ q \in Requests /\ thread[q] = "ended"
  BY CallTyped DEF RequestInv, Wait
<1>2. next' \in [Ranks -> Nat \ {0}]
  BY <1>1, CallTyped DEF Wait, Proceed
<1> HIDE DEF q
<1>3. UNCHANGED <<shmVars, allocated, status, fields, readVars, thread, slot, seen>>
      /\ waited' = waited \cup {q}
  BY DEF Wait, requestVars, q
<1>4. TypeOK'
  BY <1>1, <1>2, <1>3 DEF TypeOK, shmVars, mailVars, readVars
<1>5. \A r \in Requests : Consistent(r)'
  BY <1>1, <1>3 DEF RequestInv, Consistent, Accepted
<1>6. RequestOutlivesThread' /\ ProgressTruthful'
  BY <1>3 DEF RequestInv, RequestOutlivesThread, ProgressTruthful, Over
<1> QED  BY <1>4, <1>5, <1>6 DEF RequestInv

\* OSMP_Test notes what status holds.
LEMMA TestKeeps ==
  ASSUME RequestInv, NEW q \in Requests, Test(q)
  PROVE  RequestInv'
<1>1. /\ TypeOK /\ seen' = [seen EXCEPT ![q] = @ \cup {status[q]}]
      /\ UNCHANGED <<shmVars, next, allocated, status, fields, readVars, thread, slot,
                     waited>>
  BY DEF RequestInv, Test
<1>2. TypeOK'
  BY <1>1 DEF TypeOK, shmVars, mailVars, readVars
<1>3. /\ seen'[q] = seen[q] \cup {status[q]}
      /\ \A r \in Requests : r # q => seen'[r] = seen[r]
  BY <1>1 DEF TypeOK
<1>4. "done" # "inprogress"
  OBVIOUS
<1>5. \A r \in Requests : Consistent(r)'
  BY <1>1, <1>3, <1>4 DEF RequestInv, Consistent, Accepted
<1>6. RequestOutlivesThread'
  BY <1>1 DEF RequestInv, RequestOutlivesThread
<1>7. ProgressTruthful'
  <2>1. ASSUME NEW r \in Requests \ waited, "inprogress" \in seen'[r], status[r] = "done"
        PROVE  Over(r)
    BY <1>3, <1>4, <2>1 DEF RequestInv, ProgressTruthful
  <2> QED  BY <1>1, <2>1 DEF ProgressTruthful, Over
<1> QED  BY <1>2, <1>5, <1>6, <1>7 DEF RequestInv

\* A thread that exists belongs to a pending, allocated request.
LEMMA PendingThread ==
  ASSUME RequestInv, NEW q \in Requests, thread[q] \in Alive
  PROVE  q \notin waited /\ q \in allocated /\ fields[q] \in Operation
<1>1. Consistent(q) /\ fields[q] \in Operation \cup {Idle}
  BY DEF RequestInv, TypeOK
<1> QED  BY <1>1 DEF Consistent, Alive, Sending, Receiving

\* A thread that moves touches no other thread.
LEMMA Advanced ==
  ASSUME TypeOK, NEW q \in Requests, NEW from, NEW to, Advance(q, from, to)
  PROVE  /\ thread[q] = from /\ thread'[q] = to
         /\ \A s \in Requests : s # q => thread'[s] = thread[s]
         /\ UNCHANGED <<next, allocated, fields, waited, seen>>
  BY DEF TypeOK, Advance

\* A step of a thread that leaves every other request's status alone keeps the
\* first part of the invariant, if the types are kept and the new status and the
\* operation fit the new place of the thread.
LEMMA WorkerKeeps ==
  ASSUME RequestInv, NEW q \in Requests, NEW from \in Alive,
         NEW to \in (Alive \ {"created"}) \cup {"ended"}, Advance(q, from, to), TypeOK',
         \A r \in Requests : r # q => status'[r] = status[r],
         to \notin {"returned", "ended"} => status'[q] = "inprogress",
         to = "ended" => status'[q] = "done",
         to \in Sending => fields[q].op = "isend" /\ Accepted(q),
         to \in Receiving => fields[q].op = "irecv"
  PROVE  RequestInv'
<1>1. TypeOK /\ q \notin waited /\ q \in allocated /\ fields[q] \in Operation
  BY PendingThread DEF RequestInv, Advance
<1>2. thread'[q] = to /\ \A r \in Requests : r # q => thread'[r] = thread[r]
  BY <1>1, Advanced
<1>3. UNCHANGED <<next, allocated, fields, waited, seen>>
  BY DEF Advance
<1>4. Consistent(q)'
  <2>1. q \notin waited' /\ q \in allocated' /\ fields'[q] # Idle /\ Accepted(q)' = Accepted(q)
    BY <1>1, <1>3, OperationNotIdle DEF Accepted
  <2>2. to # "none" /\ to # "created"
    BY DEF Alive, Sending, Receiving
  <2>3. to \in {"calling"} \cup Sending \cup Receiving => to \notin {"returned", "ended"}
    BY DEF Sending, Receiving
  <2> QED  BY <1>2, <1>3, <2>1, <2>2, <2>3 DEF Consistent
<1>5. ASSUME NEW r \in Requests, r # q
      PROVE  Consistent(r)'
  BY <1>2, <1>3, <1>5 DEF RequestInv, Consistent, Accepted
<1>6. RequestOutlivesThread'
  BY <1>1, <1>2, <1>3 DEF RequestInv, RequestOutlivesThread
<1>7. ProgressTruthful'
  <2>1. ASSUME NEW r \in Requests \ waited, "inprogress" \in seen[r], status'[r] = "done"
        PROVE  Over(r)'
    <3>1. CASE r = q
      BY <1>2, <2>1, <3>1 DEF Over
    <3>2. CASE r # q
      BY <1>2, <2>1, <3>2 DEF RequestInv, ProgressTruthful, Over
    <3> QED  BY <3>1, <3>2
  <2> QED  BY <1>3, <2>1 DEF ProgressTruthful
<1> QED  BY <1>4, <1>5, <1>6, <1>7 DEF RequestInv

\* In particular a step of the blocking call, during which status stays as it is.
LEMMA BlockingCallKeeps ==
  ASSUME RequestInv, NEW q \in Requests,
         NEW from \in {"calling"} \cup Sending \cup Receiving,
         NEW to \in {"returned"} \cup Sending \cup Receiving,
         Advance(q, from, to), TypeOK', UNCHANGED status,
         to \in Sending => fields[q].op = "isend" /\ Accepted(q),
         to \in Receiving => fields[q].op = "irecv"
  PROVE  RequestInv'
<1>1. Consistent(q) /\ thread[q] = from
  BY DEF RequestInv, Advance
<1>2. status[q] = "inprogress"
  BY <1>1 DEF Consistent
<1>3. from \in Alive /\ to \in (Alive \ {"created"}) \cup {"ended"} /\ to # "ended"
  BY DEF Alive, Sending, Receiving
<1> QED  BY <1>2, <1>3, WorkerKeeps

\* A thread in the middle of OSMP_Send or OSMP_Recv.
LEMMA InCall ==
  ASSUME RequestInv, NEW q \in Requests
  PROVE  /\ thread[q] \in Sending =>
              /\ fields[q].op = "isend" /\ Accepted(q)
              /\ fields[q].id \in Message /\ fields[q].dest \in Ranks
         /\ thread[q] \in Receiving => fields[q].op = "irecv"
         /\ Owner[q] \in Ranks /\ slot[q] \in Slots
<1>1. Consistent(q) /\ TypeOK
  BY DEF RequestInv
<1>2. slot[q] \in Slots
  BY <1>1 DEF TypeOK
<1> QED  BY <1>1, <1>2, FieldsTyped DEF Consistent, Accepted, Deliverable

\* thread_send and thread_recv note that the operation is in progress, and that
\* it is done.
LEMMA MarksKeep ==
  ASSUME RequestInv, NEW q \in Requests, Mark(q) \/ Finish(q)
  PROVE  RequestInv'
<1>0. TypeOK
  BY DEF RequestInv
<1>1. ASSUME NEW s \in Status, NEW from \in Alive, NEW to \in Alive \cup {"ended"},
             status' = [status EXCEPT ![q] = s], Advance(q, from, to),
             UNCHANGED <<shmVars, readVars, slot>>
      PROVE  /\ TypeOK' /\ status'[q] = s
             /\ \A r \in Requests : r # q => status'[r] = status[r]
  <2>1. status' \in [Requests -> Status] /\ status'[q] = s
        /\ \A r \in Requests : r # q => status'[r] = status[r]
    BY <1>0, <1>1 DEF TypeOK
  <2>2. thread' \in [Requests -> Alive \cup {"none", "ended"}]
    BY <1>0, <1>1 DEF TypeOK, Advance
  <2>3. UNCHANGED <<next, allocated, fields, waited, seen>>
    BY <1>1 DEF Advance
  <2> QED  BY <1>0, <1>1, <2>1, <2>2, <2>3 DEF TypeOK, shmVars, mailVars, readVars
<1>2. "inprogress" \in Status /\ "done" \in Status
  BY DEF Status
<1>3. {"created", "calling", "returned"} \subseteq Alive
      /\ "calling" \notin Sending \cup Receiving /\ "ended" \notin Sending \cup Receiving
      /\ "ended" \notin Alive
  BY DEF Alive, Sending, Receiving
<1>4. CASE Mark(q)
  <2>1. Advance(q, "created", "calling") /\ UNCHANGED <<shmVars, readVars, slot>>
        /\ status' = [status EXCEPT ![q] = "inprogress"]
    BY <1>4 DEF Mark
  <2>2. /\ TypeOK' /\ status'[q] = "inprogress"
        /\ \A r \in Requests : r # q => status'[r] = status[r]
    BY <1>1, <1>2, <1>3, <2>1
  <2> QED  BY <1>3, <2>1, <2>2, WorkerKeeps
<1>5. CASE Finish(q)
  <2>1. Advance(q, "returned", "ended") /\ UNCHANGED <<shmVars, readVars, slot>>
        /\ status' = [status EXCEPT ![q] = "done"]
    BY <1>5 DEF Finish
  <2>2. /\ TypeOK' /\ status'[q] = "done"
        /\ \A r \in Requests : r # q => status'[r] = status[r]
    BY <1>1, <1>2, <1>3, <2>1
  <2> QED  BY <1>3, <2>1, <2>2, WorkerKeeps
<1> QED  BY <1>4, <1>5

-----------------------------------------------------------------------------
(* OSMP_Send and OSMP_Recv: the types, and the place of the thread.        *)

\* What a step of the blocking call has to show for the types.
LEMMA CallTypes ==
  ASSUME TypeOK, NEW q \in Requests, NEW from, NEW to \in Alive, Advance(q, from, to),
         UNCHANGED status,
         box' \in [Ranks -> Seq(Message)], delivered' \in [Ranks -> Seq(Message)],
         free_slots' \in Nat, proc_free' \in [Ranks -> Nat], free' \in Seq(Slots),
         messages' \in [Slots -> Contents], ring' \in [Ranks -> Seq(Slots)],
         buf' \in [Requests -> Contents], slot' \in [Requests -> Slots],
         taken' \in [Requests -> Message \cup {NoMessage}], disturbed' \subseteq Requests
  PROVE  TypeOK'
<1>1. thread' \in [Requests -> Alive \cup {"none", "ended"}]
  BY DEF TypeOK, Advance
<1>2. UNCHANGED <<next, allocated, fields, waited, seen>>
  BY DEF Advance
<1> QED  BY <1>1, <1>2 DEF TypeOK

\* A step that changes nothing but the place of the thread.
LEMMA MoveKeeps ==
  ASSUME RequestInv, NEW q \in Requests,
         NEW from \in {"calling"} \cup Sending \cup Receiving,
         NEW to \in {"returned"} \cup Receiving,
         Advance(q, from, to), UNCHANGED <<shmVars, status, readVars, slot>>,
         to \in Receiving => fields[q].op = "irecv"
  PROVE  RequestInv'
<1>1. TypeOK /\ to \in Alive /\ to \notin Sending
  BY DEF RequestInv, Alive, Sending, Receiving
<1>2. UNCHANGED <<free_slots, proc_free, free, messages, ring, box, delivered, status,
                  buf, taken, disturbed, slot>>
  BY DEF shmVars, mailVars, readVars
<1>3. TypeOK'
  BY <1>1, <1>2, CallTypes DEF TypeOK
<1> QED  BY <1>1, <1>2, <1>3, BlockingCallKeeps

\* OSMP_Send reserves a place of the receiver's ring.
LEMMA SendReserveKeeps ==
  ASSUME RequestInv, NEW q \in Requests, SendReserve(q)
  PROVE  RequestInv'
<1>1. /\ TypeOK /\ Advance(q, "calling", "placed") /\ fields[q].op = "isend" /\ Accepted(q)
      /\ proc_free[fields[q].dest] > 0
      /\ proc_free' = [proc_free EXCEPT ![fields[q].dest] = @ - 1]
      /\ UNCHANGED <<free_slots, free, messages, ring, box, delivered, status, buf, taken,
                     disturbed, slot>>
  BY DEF SendReserve, mailVars, readVars, RequestInv
<1>2. proc_free' \in [Ranks -> Nat]
  <2>1. PICK d \in Ranks : d = fields[q].dest
    BY <1>1 DEF Accepted, Deliverable
  <2>2. proc_free \in [Ranks -> Nat] /\ proc_free' = [proc_free EXCEPT ![d] = @ - 1]
        /\ proc_free[d] > 0
    BY <1>1, <2>1 DEF TypeOK
  <2>3. proc_free[d] - 1 \in Nat
    BY <2>2
  <2> QED  BY <2>2, <2>3
<1>3. "placed" \in Alive /\ "placed" \in Sending /\ "placed" \notin Receiving
  BY DEF Alive, Sending, Receiving
<1>4. TypeOK'
  BY <1>1, <1>2, <1>3, CallTypes DEF TypeOK
<1> QED  BY <1>1, <1>3, <1>4, BlockingCallKeeps

\* It takes a slot off the free list, which has one if there is a permit.
LEMMA SendPopKeeps ==
  ASSUME RequestInv, NEW q \in Requests, SendPop(q), free # <<>>
  PROVE  RequestInv'
<1>1. /\ TypeOK /\ Advance(q, "placed", "writing")
      /\ free_slots > 0 /\ free_slots' = free_slots - 1
      /\ slot' = [slot EXCEPT ![q] = Head(free)] /\ free' = Tail(free)
      /\ disturbed' = disturbed \cup {s \in Requests : Reading(s) /\ slot[s] = Head(free)}
      /\ UNCHANGED <<proc_free, messages, ring, box, delivered, status, buf, taken>>
  BY DEF SendPop, mailVars, RequestInv
<1>2. Head(free) \in Slots /\ Tail(free) \in Seq(Slots)
  BY <1>1, SlotListTyped DEF TypeOK
<1>3. free_slots' \in Nat /\ slot' \in [Requests -> Slots] /\ disturbed' \subseteq Requests
  BY <1>1, <1>2 DEF TypeOK
<1>4. {"placed", "writing"} \subseteq Sending /\ "writing" \in Alive /\ "writing" \notin Receiving
  BY DEF Alive, Sending, Receiving
<1>5. TypeOK'
  BY <1>1, <1>2, <1>3, <1>4, CallTypes DEF TypeOK
<1>6. fields[q].op = "isend" /\ Accepted(q)
  BY <1>1, <1>4, InCall DEF Advance
<1> QED  BY <1>1, <1>4, <1>5, <1>6, BlockingCallKeeps

\* It writes header and payload.
LEMMA SendWriteKeeps ==
  ASSUME RequestInv, NEW q \in Requests, SendHeader(q) \/ SendPayload(q)
  PROVE  /\ RequestInv'
         /\ messages' \in [Slots -> Contents]
         /\ \A s \in Slots : s # slot[q] => messages'[s] = messages[s]
         /\ SendHeader(q) => messages'[slot[q]].header = fields[q].id
         /\ SendPayload(q) => /\ messages'[slot[q]].header = messages[slot[q]].header
                              /\ messages'[slot[q]].payload = fields[q].id
<1>1. /\ TypeOK
      /\ UNCHANGED <<free_slots, proc_free, free, ring, box, delivered, status, buf, taken,
                     disturbed, slot>>
      /\ SendHeader(q) => Advance(q, "writing", "half")
      /\ SendPayload(q) => Advance(q, "half", "written")
  BY DEF SendHeader, SendPayload, mailVars, readVars, RequestInv
<1>2. {"writing", "half", "written"} \subseteq Sending
      /\ {"half", "written"} \subseteq Alive
      /\ "half" \notin Receiving /\ "written" \notin Receiving
  BY DEF Alive, Sending, Receiving
<1>3. fields[q].op = "isend" /\ Accepted(q) /\ fields[q].id \in Message
  BY <1>1, <1>2, InCall DEF Advance
<1> PICK s \in Slots : s = slot[q]
  BY InCall
<1> PICK c \in Contents : c = messages[s]
  BY <1>1 DEF TypeOK
<1> PICK m \in Message : m = fields[q].id
  BY <1>3
<1>4. /\ SendHeader(q) => messages' = [messages EXCEPT ![s] = [header |-> m, payload |-> c.payload]]
      /\ SendPayload(q) => messages' = [messages EXCEPT ![s] = [header |-> c.header, payload |-> m]]
  <2>1. /\ SendHeader(q) => messages' = [messages EXCEPT ![s] = [messages[s] EXCEPT !.header = m]]
        /\ SendPayload(q) => messages' = [messages EXCEPT ![s] = [messages[s] EXCEPT !.payload = m]]
    BY DEF SendHeader, SendPayload
  <2>2. \A x : /\ [c EXCEPT !.header = x] = [header |-> x, payload |-> c.payload]
              /\ [c EXCEPT !.payload = x] = [header |-> c.header, payload |-> x]
    BY DEF Contents
  <2> QED  BY <2>1, <2>2
<1>5. /\ [header |-> m, payload |-> c.payload] \in Contents
      /\ [header |-> c.header, payload |-> m] \in Contents
  BY DEF Contents
<1>6. /\ messages' \in [Slots -> Contents]
      /\ \A u \in Slots : u # s => messages'[u] = messages[u]
      /\ SendHeader(q) => messages'[s] = [header |-> m, payload |-> c.payload]
      /\ SendPayload(q) => messages'[s] = [header |-> c.header, payload |-> m]
  <2>1. ASSUME NEW x \in Contents, messages' = [messages EXCEPT ![s] = x]
        PROVE  /\ messages' \in [Slots -> Contents] /\ messages'[s] = x
               /\ \A u \in Slots : u # s => messages'[u] = messages[u]
    BY <1>1, <2>1 DEF TypeOK
  <2> QED  BY <1>4, <1>5, <2>1
<1>7. /\ SendHeader(q) => messages'[s].header = m
      /\ SendPayload(q) => messages'[s].header = c.header /\ messages'[s].payload = m
  BY <1>6
<1>8. TypeOK'
  BY <1>1, <1>2, <1>6, CallTypes DEF TypeOK
<1>9. RequestInv'
  BY <1>1, <1>2, <1>3, <1>8, BlockingCallKeeps
<1> QED  BY <1>6, <1>7, <1>9

\* It publishes the slot.
LEMMA SendPublishKeeps ==
  ASSUME RequestInv, NEW q \in Requests, SendPublish(q)
  PROVE  RequestInv'
<1>1. /\ TypeOK /\ Advance(q, "written", "returned")
      /\ ring' = [ring EXCEPT ![fields[q].dest] = Append(@, slot[q])]
      /\ box' = [box EXCEPT ![fields[q].dest] = Append(@, fields[q].id)]
      /\ UNCHANGED <<free_slots, proc_free, free, messages, delivered, status, buf, taken,
                     disturbed, slot>>
  BY DEF SendPublish, readVars, RequestInv
<1>2. "written" \in Sending /\ "returned" \in Alive
      /\ "returned" \notin Sending /\ "returned" \notin Receiving
  BY DEF Alive, Sending, Receiving
<1>3. fields[q].id \in Message /\ fields[q].dest \in Ranks /\ slot[q] \in Slots
  BY <1>1, <1>2, InCall DEF Advance
<1>4. Append(box[fields[q].dest], fields[q].id) \in Seq(Message)
      /\ Append(ring[fields[q].dest], slot[q]) \in Seq(Slots)
  BY <1>1, <1>3, SlotListTyped DEF TypeOK
<1>5. box' \in [Ranks -> Seq(Message)] /\ ring' \in [Ranks -> Seq(Slots)]
  BY <1>1, <1>4 DEF TypeOK
<1>6. TypeOK'
  BY <1>1, <1>2, <1>5, CallTypes DEF TypeOK
<1> QED  BY <1>1, <1>2, <1>6, BlockingCallKeeps

\* OSMP_Recv takes a slot out of its ring and frees it.
LEMMA RecvTakeKeeps ==
  ASSUME RequestInv, NEW q \in Requests, RecvTake(q)
  PROVE  RequestInv' /\ Head(box[Owner[q]]) \in Message /\ Head(ring[Owner[q]]) \in Slots
<1> PICK o \in Ranks : o = Owner[q]
  OBVIOUS
<1>1. /\ TypeOK /\ Advance(q, "calling", "taken")
      /\ fields[q].op = "irecv" /\ ring[o] # <<>> /\ box[o] # <<>>
      /\ ring' = [ring EXCEPT ![o] = Tail(@)]
      /\ slot' = [slot EXCEPT ![q] = Head(ring[o])]
      /\ free' = <<Head(ring[o])>> \o free
      /\ box' = [box EXCEPT ![o] = Tail(@)]
      /\ delivered' = [delivered EXCEPT ![o] = Append(@, Head(box[o]))]
      /\ taken' = [taken EXCEPT ![q] = Head(box[o])]
      /\ UNCHANGED <<free_slots, proc_free, messages, status, buf, disturbed>>
  BY DEF RecvTake, RequestInv, Mailbox!Take
<1>2. ring[o] \in Seq(Slots) /\ free \in Seq(Slots)
      /\ box[o] \in Seq(Message) /\ delivered[o] \in Seq(Message)
  BY <1>1 DEF TypeOK
<1>3. Head(ring[o]) \in Slots /\ Tail(ring[o]) \in Seq(Slots)
  BY <1>1, <1>2, SlotListTyped
<1>4. <<Head(ring[o])>> \o free \in Seq(Slots)
  BY <1>2, <1>3, SlotListTyped
<1>5. Head(box[o]) \in Message /\ Tail(box[o]) \in Seq(Message)
  BY <1>1, <1>2
<1>6. Append(delivered[o], Head(box[o])) \in Seq(Message)
  BY <1>2, <1>5
<1>7. /\ ring' \in [Ranks -> Seq(Slots)] /\ slot' \in [Requests -> Slots]
      /\ box' \in [Ranks -> Seq(Message)] /\ delivered' \in [Ranks -> Seq(Message)]
      /\ taken' \in [Requests -> Message \cup {NoMessage}]
  BY <1>1, <1>3, <1>5, <1>6 DEF TypeOK
<1>8. "taken" \in Alive /\ "taken" \in Receiving /\ "taken" \notin Sending
  BY DEF Alive, Sending, Receiving
<1>9. TypeOK'
  BY <1>1, <1>4, <1>7, <1>8, CallTypes DEF TypeOK
<1> QED  BY <1>1, <1>3, <1>5, <1>8, <1>9, BlockingCallKeeps

\* It copies header and payload.
LEMMA RecvCopyKeeps ==
  ASSUME RequestInv, NEW q \in Requests, RecvHeader(q) \/ RecvPayload(q)
  PROVE  /\ RequestInv'
         /\ \A s \in Requests : s # q => buf'[s] = buf[s]
         /\ RecvHeader(q) => buf'[q] = [header |-> messages[slot[q]].header,
                                        payload |-> buf[q].payload]
         /\ RecvPayload(q) => buf'[q] = [header |-> buf[q].header,
                                         payload |-> messages[slot[q]].payload]
<1>1. /\ TypeOK
      /\ UNCHANGED <<free, messages, ring, box, delivered, status, taken, disturbed, slot>>
      /\ RecvHeader(q) => /\ Advance(q, "accepted", "header")
                          /\ UNCHANGED <<free_slots, proc_free>>
      /\ RecvPayload(q) => /\ Advance(q, "header", "returned")
                           /\ free_slots' = free_slots + 1
                           /\ proc_free' = [proc_free EXCEPT ![Owner[q]] = @ + 1]
  BY DEF RecvHeader, RecvPayload, shmVars, mailVars, RequestInv
<1>2. {"accepted", "header"} \subseteq Receiving /\ {"header", "returned"} \subseteq Alive
      /\ "header" \notin Sending /\ "returned" \notin Sending \cup Receiving
  BY DEF Alive, Sending, Receiving
<1>3. fields[q].op = "irecv" /\ slot[q] \in Slots
  BY <1>1, <1>2, InCall DEF Advance
<1> PICK c \in Contents : c = messages[slot[q]]
  BY <1>1, <1>3 DEF TypeOK
<1> PICK b \in Contents : b = buf[q]
  BY <1>1 DEF TypeOK
<1>4. /\ RecvHeader(q) => buf' = [buf EXCEPT ![q] = [header |-> c.header, payload |-> b.payload]]
      /\ RecvPayload(q) => buf' = [buf EXCEPT ![q] = [header |-> b.header, payload |-> c.payload]]
  <2>1. /\ RecvHeader(q) => buf' = [buf EXCEPT ![q] = [buf[q] EXCEPT !.header = c.header]]
        /\ RecvPayload(q) => buf' = [buf EXCEPT ![q] = [buf[q] EXCEPT !.payload = c.payload]]
    BY DEF RecvHeader, RecvPayload
  <2>2. /\ [b EXCEPT !.header = c.header] = [header |-> c.header, payload |-> b.payload]
        /\ [b EXCEPT !.payload = c.payload] = [header |-> b.header, payload |-> c.payload]
    BY DEF Contents
  <2> QED  BY <2>1, <2>2
<1>5. /\ [header |-> c.header, payload |-> b.payload] \in Contents
      /\ [header |-> b.header, payload |-> c.payload] \in Contents
  BY DEF Contents
<1>6. /\ buf' \in [Requests -> Contents]
      /\ \A s \in Requests : s # q => buf'[s] = buf[s]
      /\ RecvHeader(q) => buf'[q] = [header |-> c.header, payload |-> b.payload]
      /\ RecvPayload(q) => buf'[q] = [header |-> b.header, payload |-> c.payload]
  <2>1. ASSUME NEW x \in Contents, buf' = [buf EXCEPT ![q] = x]
        PROVE  /\ buf' \in [Requests -> Contents] /\ buf'[q] = x
               /\ \A s \in Requests : s # q => buf'[s] = buf[s]
    BY <1>1, <2>1 DEF TypeOK
  <2> QED  BY <1>4, <1>5, <2>1
<1>7. free_slots' \in Nat /\ proc_free' \in [Ranks -> Nat]
  <2>1. PICK o \in Ranks : o = Owner[q]
    OBVIOUS
  <2>2. /\ proc_free[o] + 1 \in Nat /\ proc_free \in [Ranks -> Nat]
        /\ free_slots \in Nat /\ free_slots + 1 \in Nat
    BY <1>1 DEF TypeOK
  <2> QED  BY <1>1, <2>1, <2>2
<1>8. TypeOK'
  BY <1>1, <1>2, <1>6, <1>7, CallTypes DEF TypeOK
<1>9. RequestInv'
  BY <1>1, <1>2, <1>3, <1>8, BlockingCallKeeps
<1> QED  BY <1>6, <1>9

\* The other steps move nothing but the thread.
LEMMA MovesKeep ==
  ASSUME RequestInv, NEW q \in Requests,
         SendRejected(q) \/ RecvAccept(q) \/ RecvTooLong(q)
  PROVE  RequestInv'
<1>1. "taken" \in Receiving /\ "accepted" \in Receiving /\ "returned" \notin Receiving
  BY DEF Receiving
<1>2. CASE SendRejected(q)
  BY <1>1, <1>2, MoveKeeps DEF SendRejected
<1>3. CASE RecvAccept(q)
  <2>1. fields[q].op = "irecv"
    BY <1>1, <1>3, InCall DEF RecvAccept, Advance
  <2> QED  BY <1>1, <1>3, <2>1, MoveKeeps DEF RecvAccept
<1>4. CASE RecvTooLong(q)
  BY <1>1, <1>4, MoveKeeps DEF RecvTooLong
<1> QED  BY <1>2, <1>3, <1>4

\* A step that changes nothing keeps it.
LEMMA StutterKeeps == RequestInv /\ UNCHANGED vars => RequestInv'
  BY DEF RequestInv, TypeOK, Consistent, Accepted, RequestOutlivesThread,
         ProgressTruthful, Over, vars, shmVars, mailVars, requestVars, readVars

\* A permit for a slot means that the free list has one.
LEMMA PermitMeansSlot ==
  ASSUME RequestInv, PermitsCovered, free_slots > 0
  PROVE  free # <<>>
<1>1. IsFiniteSet(Readers)
  BY FS_Subset DEF Readers
<1>2. Cardinality(Readers) \in Nat
  BY <1>1, FS_CardinalityType
<1>3. free_slots \in Nat /\ free \in Seq(Slots) /\ Len(free) \in Nat
  BY DEF RequestInv, TypeOK
<1>4. Len(free) > 0
  BY <1>2, <1>3 DEF PermitsCovered
<1> QED  BY <1>4

\* Every step keeps the first part of the invariant.
LEMMA NextKeeps ==
  ASSUME RequestInv, PermitsCovered, [Next]_vars
  PROVE  RequestInv'
<1>0. TypeOK
  BY DEF RequestInv
<1>1. CASE \E p \in Ranks : Main(p)
  <2>1. PICK p \in Ranks : Main(p)
    BY <1>1
  <2>2. CASE CreateRequest(p)
    BY <2>2, CreateKeeps
  <2>3. CASE RemoveRequest(p)
    BY <2>3, RemoveKeeps
  <2>4. CASE Isend(p)
    <3>1. Running(p) /\ Start(p, SendOf(p)) /\ SendOf(p) \in Operation
      BY <1>0, <2>4, OperationTyped DEF Isend
    <3> QED  BY <3>1, StartKeeps
  <2>5. CASE Irecv(p)
    <3> DEFINE o == [op |-> "irecv", max |-> Call(p).max]
    <3>1. Running(p) /\ Start(p, o) /\ o \in Operation
      BY <1>0, <2>5, OperationTyped DEF Irecv
    <3> HIDE DEF o
    <3> QED  BY <3>1, StartKeeps
  <2>6. CASE Wait(p)
    BY <2>6, WaitKeeps
  <2> QED  BY <2>1, <2>2, <2>3, <2>4, <2>5, <2>6 DEF Main
<1>2. CASE \E q \in Requests : Worker(q) \/ Test(q)
  <2>1. PICK q \in Requests : Worker(q) \/ Test(q)
    BY <1>2
  <2>2. CASE Mark(q) \/ Finish(q)
    BY <2>2, MarksKeep
  <2>3. CASE SendReserve(q)
    BY <2>3, SendReserveKeeps
  <2>4. CASE SendPop(q)
    <3>1. free # <<>>
      BY <2>4, PermitMeansSlot DEF SendPop
    <3> QED  BY <2>4, <3>1, SendPopKeeps
  <2>5. CASE SendHeader(q) \/ SendPayload(q)
    BY <2>5, SendWriteKeeps
  <2>6. CASE SendPublish(q)
    BY <2>6, SendPublishKeeps
  <2>7. CASE RecvTake(q)
    BY <2>7, RecvTakeKeeps
  <2>8. CASE RecvHeader(q) \/ RecvPayload(q)
    BY <2>8, RecvCopyKeeps
  <2>9. CASE SendRejected(q) \/ RecvAccept(q) \/ RecvTooLong(q)
    BY <2>9, MovesKeep
  <2>10. CASE Test(q)
    BY <2>10, TestKeeps
  <2> QED  BY <2>1, <2>2, <2>3, <2>4, <2>5, <2>6, <2>7, <2>8, <2>9, <2>10
           DEF Worker, Sender, Receiver
<1>3. CASE UNCHANGED vars
  BY <1>3, StutterKeeps
<1> QED  BY <1>1, <1>2, <1>3 DEF Next, Terminating

-----------------------------------------------------------------------------
(* Sequences of messages or slots.                                         *)

\* What occurs in a sequence with one element added at the end.
LEMMA AppendWithin ==
  ASSUME NEW S, NEW s \in Seq(S), NEW e \in S
  PROVE  /\ \A m : Within(Append(s, e), m) <=> Within(s, m) \/ m = e
         /\ Distinct(s) /\ ~Within(s, e) => Distinct(Append(s, e))
<1>1. /\ DOMAIN s = 1 .. Len(s) /\ Len(s) \in Nat
      /\ DOMAIN Append(s, e) = 1 .. Len(s) + 1
      /\ \A i \in 1 .. Len(s) : Append(s, e)[i] = s[i]
      /\ Append(s, e)[Len(s) + 1] = e
  OBVIOUS
<1>2. \A i : i \in 1 .. Len(s) + 1 <=> i \in 1 .. Len(s) \/ i = Len(s) + 1
  BY <1>1
<1> DEFINE a == Append(s, e)
           n == Len(s) + 1
           D == 1 .. Len(s)
           E == 1 .. Len(s) + 1
<1>3. /\ DOMAIN s = D /\ DOMAIN a = E /\ a[n] = e /\ \A i \in D : a[i] = s[i]
      /\ \A i : i \in E <=> i \in D \/ i = n
  BY <1>1, <1>2
<1> HIDE DEF a, n, D, E
<1>4. \A m : Within(a, m) <=> Within(s, m) \/ m = e
  BY <1>3 DEF Within
<1>5. Distinct(s) /\ ~Within(s, e) => Distinct(a)
  BY <1>3 DEF Within, Distinct
<1> QED  BY <1>4, <1>5 DEF a

\* What occurs in a sequence without repetitions when its head is taken off.
LEMMA TailWithin ==
  ASSUME NEW S, NEW s \in Seq(S), s # <<>>, Distinct(s)
  PROVE  /\ Distinct(Tail(s)) /\ ~Within(Tail(s), Head(s))
         /\ \A m : Within(s, m) <=> Within(Tail(s), m) \/ m = Head(s)
<1>1. /\ DOMAIN s = 1 .. Len(s) /\ Len(s) \in Nat \ {0} /\ Head(s) = s[1]
      /\ DOMAIN Tail(s) = 1 .. Len(s) - 1
      /\ \A i \in 1 .. Len(s) - 1 : Tail(s)[i] = s[i + 1]
  OBVIOUS
<1>2. \A i \in 1 .. Len(s) - 1 : i + 1 \in 1 .. Len(s) /\ i + 1 # 1
  BY <1>1
<1>3. Distinct(Tail(s))
  BY <1>1, <1>2 DEF Distinct
<1>4. ~Within(Tail(s), Head(s))
  BY <1>1, <1>2 DEF Distinct, Within
<1>5. ASSUME NEW m
      PROVE  Within(s, m) <=> Within(Tail(s), m) \/ m = Head(s)
  <2>1. ASSUME NEW i \in 1 .. Len(s), s[i] = m, i # 1
        PROVE  Within(Tail(s), m)
    <3>1. PICK j \in Nat : j = i - 1
      BY <1>1, <2>1
    <3>2. j \in 1 .. Len(s) - 1 /\ j + 1 = i
      BY <1>1, <2>1, <3>1
    <3> QED  BY <1>1, <2>1, <3>2 DEF Within
  <2>2. Within(s, m) => Within(Tail(s), m) \/ m = Head(s)
    BY <1>1, <2>1 DEF Within
  <2>3. Within(Tail(s), m) => Within(s, m)
    BY <1>1, <1>2 DEF Within
  <2>4. 1 \in DOMAIN s
    BY <1>1
  <2> QED  BY <1>1, <2>2, <2>3, <2>4 DEF Within
<1> QED  BY <1>3, <1>4, <1>5

\* What occurs in a sequence with one element put in front of it.
LEMMA PrependWithin ==
  ASSUME NEW S, NEW s \in Seq(S), NEW e \in S
  PROVE  /\ \A m : Within(<<e>> \o s, m) <=> Within(s, m) \/ m = e
         /\ Distinct(s) /\ ~Within(s, e) => Distinct(<<e>> \o s)
<1>0. <<e>> \in Seq(S) /\ Len(<<e>>) = 1 /\ <<e>>[1] = e
  OBVIOUS
<1>1. /\ DOMAIN s = 1 .. Len(s) /\ Len(s) \in Nat
      /\ DOMAIN (<<e>> \o s) = 1 .. Len(s) + 1
      /\ (<<e>> \o s)[1] = e
      /\ \A i \in 1 .. Len(s) + 1 : i # 1 => (<<e>> \o s)[i] = s[i - 1]
  BY <1>0
<1> DEFINE a == <<e>> \o s
<1>2. /\ \A i \in 1 .. Len(s) + 1 : i = 1 \/ i - 1 \in 1 .. Len(s)
      /\ \A i \in 1 .. Len(s) : /\ i + 1 \in 1 .. Len(s) + 1 /\ i + 1 # 1
                               /\ (i + 1) - 1 = i
      /\ 1 \in 1 .. Len(s) + 1
  BY <1>1
<1>3. /\ DOMAIN a = 1 .. Len(s) + 1 /\ a[1] = e
      /\ \A i \in 1 .. Len(s) + 1 : i # 1 => a[i] = s[i - 1]
  BY <1>1
<1> HIDE DEF a
<1>4. ASSUME NEW m
      PROVE  Within(a, m) <=> Within(s, m) \/ m = e
  <2>1. ASSUME NEW i \in 1 .. Len(s) + 1, a[i] = m
        PROVE  Within(s, m) \/ m = e
    <3>1. i = 1 \/ (i - 1 \in DOMAIN s /\ a[i] = s[i - 1])
      BY <1>1, <1>2, <1>3
    <3> QED  BY <1>3, <2>1, <3>1 DEF Within
  <2>2. ASSUME NEW i \in 1 .. Len(s), s[i] = m
        PROVE  Within(a, m)
    <3>1. a[i + 1] = m /\ i + 1 \in DOMAIN a
      BY <1>2, <1>3, <2>2
    <3> QED  BY <3>1 DEF Within
  <2>3. Within(a, e)
    BY <1>2, <1>3 DEF Within
  <2> QED  BY <1>1, <1>3, <2>1, <2>2, <2>3 DEF Within
<1>5. ASSUME Distinct(s), ~Within(s, e)
      PROVE  Distinct(a)
  <2>1. ASSUME NEW i \in DOMAIN a, NEW j \in DOMAIN a, a[i] = a[j]
        PROVE  i = j
    <3>1. i \in Nat /\ j \in Nat
      BY <1>1, <1>3
    <3>2. i # 1 => i - 1 \in DOMAIN s /\ a[i] = s[i - 1]
      BY <1>1, <1>2, <1>3
    <3>3. j # 1 => j - 1 \in DOMAIN s /\ a[j] = s[j - 1]
      BY <1>1, <1>2, <1>3
    <3>4. CASE i = 1 \/ j = 1
      BY <1>3, <1>5, <2>1, <3>2, <3>3, <3>4 DEF Within
    <3>5. CASE i # 1 /\ j # 1
      <4>1. i - 1 = j - 1
        BY <1>5, <2>1, <3>2, <3>3, <3>5 DEF Distinct
      <4> QED  BY <3>1, <4>1
    <3> QED  BY <3>4, <3>5
  <2> QED  BY <2>1 DEF Distinct
<1> QED  BY <1>4, <1>5 DEF a

-----------------------------------------------------------------------------
(* Messages.                                                               *)

\* The calls a process has made are of its program, for its own requests.
LEMMA CallMade ==
  ASSUME TypeOK, MessageInv, NEW p \in Ranks, NEW i \in 1 .. next[p] - 1
  PROVE  /\ Program[p][i] \in Calls /\ i \in Nat /\ <<p, i>> \in Message
         /\ Program[p][i].req \in Requests /\ Owner[Program[p][i].req] = p
<1>1. Program[p] \in Seq(Calls) /\ next[p] \in Nat /\ next[p] <= Len(Program[p]) + 1
  BY DEF TypeOK, MessageInv
<1>2. i \in 1 .. Len(Program[p]) /\ DOMAIN Program[p] = 1 .. Len(Program[p])
  BY <1>1
<1>3. Program[p][i] \in Calls /\ Owner[Program[p][i].req] = p
  BY <1>1, <1>2
<1> QED  BY <1>2, <1>3 DEF Calls, Message

\* A message is its sender and its number, and not the absence of one.
LEMMA MessageParts ==
  ASSUME NEW m \in Message
  PROVE  m[1] \in Ranks /\ m[2] \in Nat /\ m = <<m[1], m[2]>> /\ m # NoMessage
<1>1. PICK p \in Ranks, i \in Nat : m = <<p, i>>
  BY DEF Message
<1>2. Len(<<p, i>>) = 2 /\ Len(<<>>) = 0
  OBVIOUS
<1> QED  BY <1>1, <1>2 DEF NoMessage

\* What was sent has been sent after the next call as well.
LEMMA SentStays ==
  ASSUME TypeOK, NEW p \in Ranks, Proceed(p)
  PROVE  /\ next'[p] = next[p] + 1 /\ next[p] \in Nat \ {0}
         /\ \A r \in Ranks : r # p => next'[r] = next[r]
         /\ \A r : \A m \in Message : SentBy(m, r) => SentBy(m, r)'
         /\ \A r : \A m \in Message : SentTo(m, r) => SentTo(m, r)'
<1>1. /\ next \in [Ranks -> Nat \ {0}]
      /\ next'[p] = next[p] + 1 /\ \A r \in Ranks : r # p => next'[r] = next[r]
  BY DEF TypeOK, Proceed
<1>2. \A r \in Ranks : next[r] \in Nat /\ (next'[r] = next[r] \/ next'[r] = next[r] + 1)
  BY <1>1
<1>3. ASSUME NEW r, NEW m \in Message, SentBy(m, r)
      PROVE  SentBy(m, r)'
  <2>1. m[1] \in Ranks /\ m[2] \in Nat
    BY MessageParts
  <2>2. m[2] \in 1 .. next'[m[1]] - 1
    BY <1>2, <1>3, <2>1 DEF SentBy
  <2> QED  BY <1>3, <2>2 DEF SentBy
<1>4. ASSUME NEW r, NEW m \in Message, SentTo(m, r)
      PROVE  SentTo(m, r)'
  BY <1>3, <1>4 DEF SentTo
<1> QED  BY <1>1, <1>3, <1>4

\* What the mailboxes hold and what was taken out of them are messages.
LEMMA ArrivedTyped ==
  ASSUME TypeOK, NEW r \in Ranks, NEW m, Arrived(m, r)
  PROVE  m \in Message
<1>1. box[r] \in Seq(Message) /\ delivered[r] \in Seq(Message)
  BY DEF TypeOK
<1> QED  BY <1>1 DEF Arrived, Within

\* MessagesOnce in terms of messages instead of positions.
LEMMA OnceFacts ==
  ASSUME TypeOK, MessagesOnce, NEW r \in Ranks
  PROVE  /\ Distinct(box[r]) /\ Distinct(delivered[r])
         /\ \A m : ~(Within(box[r], m) /\ Within(delivered[r], m))
         /\ \A m : Arrived(m, r) => SentTo(m, r) /\ SentBy(m, r) /\ m \in Message
<1>1. \A m : ~(Within(box[r], m) /\ Within(delivered[r], m))
  BY DEF MessagesOnce, Within
<1>2. \A m : Arrived(m, r) => SentTo(m, r) /\ SentBy(m, r)
  BY DEF MessagesOnce, Within, Arrived, SentTo
<1> QED  BY <1>1, <1>2, ArrivedTyped DEF MessagesOnce

-----------------------------------------------------------------------------
(* The calls of a process and its messages.                                *)

\* A request whose fields a call leaves alone stays named by its call, if the
\* new call is no OSMP_Wait for it, or one that returned.
LEMMA NamedStays ==
  ASSUME TypeOK, NEW p \in Ranks, Proceed(p), NEW q \in Requests, Named(q),
         fields'[q] = fields[q], q \in waited => q \in waited',
         Call(p).op = "wait" => Call(p).req # q \/ q \in waited'
  PROVE  Named(q)'
<1> SUFFICES ASSUME fields[q].op = "isend" PROVE Named(q)'
  BY DEF Named
<1>1. PICK m \in Message : m = fields[q].id
  BY FieldsTyped
<1>2. PICK o \in Ranks : o = Owner[q]
  OBVIOUS
<1>3. m[1] = o /\ SentBy(m, fields[q].dest) /\ Program[o][m[2]].req = q
      /\ CallOf(m).len = fields[q].len
  BY <1>1, <1>2 DEF Named
<1>4. SentBy(m, fields[q].dest)'
  BY <1>3, SentStays
<1>5. ASSUME q \notin waited', NEW w \in m[2] + 1 .. next'[o] - 1,
             Program[o][w].op = "wait"
      PROVE  Program[o][w].req # q
  <2>1. CASE o = p /\ w = next[p]
    BY <1>5, <2>1 DEF Call
  <2>2. CASE ~(o = p /\ w = next[p])
    <3>1. next[o] \in Nat /\ m[2] \in Nat /\ (next'[o] = next[o] \/ (o = p /\ next'[o] = next[o] + 1))
      BY SentStays, MessageParts DEF TypeOK
    <3>2. w \in m[2] + 1 .. next[o] - 1
      BY <1>5, <2>2, <3>1
    <3> QED  BY <1>1, <1>2, <1>5, <3>2 DEF Named
  <2> QED  BY <2>1, <2>2
<1> QED  BY <1>1, <1>2, <1>3, <1>4, <1>5 DEF Named

\* A call that touches no mailbox and lets at most go of what receives have
\* taken leaves the messages where they are; the calls stay within the program.
LEMMA CallKeepsPlaces ==
  ASSUME TypeOK, MessageInv, NEW p \in Ranks, Running(p), Proceed(p),
         UNCHANGED <<box, delivered>>,
         \A q \in Requests : taken'[q] = taken[q] \/ taken'[q] = NoMessage
  PROVE  /\ \A r \in Ranks : next'[r] <= Len(Program[r]) + 1
         /\ MessagesOnce' /\ TakenApart'
         /\ \A r : \A m : Arrived(m, r)' <=> Arrived(m, r)
<1>1. ASSUME NEW r \in Ranks
      PROVE  next'[r] <= Len(Program[r]) + 1
  <2>1. next[r] \in Nat /\ next[r] <= Len(Program[r]) + 1 /\ Len(Program[r]) \in Nat
    BY DEF TypeOK, MessageInv
  <2>2. r = p => next[r] <= Len(Program[r]) /\ next'[r] = next[r] + 1
    BY SentStays DEF Running
  <2>3. r # p => next'[r] = next[r]
    BY SentStays
  <2> QED  BY <2>1, <2>2, <2>3
<1>2. ASSUME NEW r \in Ranks
      PROVE  /\ \A i \in DOMAIN box[r] : SentTo(box[r][i], r)'
             /\ \A i \in DOMAIN delivered[r] : SentTo(delivered[r][i], r)'
  <2>1. box[r] \in Seq(Message) /\ delivered[r] \in Seq(Message)
    BY DEF TypeOK
  <2>2. /\ \A i \in DOMAIN box[r] : SentTo(box[r][i], r) /\ box[r][i] \in Message
        /\ \A i \in DOMAIN delivered[r] :
             SentTo(delivered[r][i], r) /\ delivered[r][i] \in Message
    BY <2>1 DEF MessageInv, MessagesOnce
  <2>3. \A m \in Message : SentTo(m, r) => SentTo(m, r)'
    BY SentStays
  <2> QED  BY <2>2, <2>3
<1>3. MessagesOnce'
  BY <1>2 DEF MessageInv, MessagesOnce, Within
<1>4. TakenApart'
  <2>1. ASSUME NEW q \in Requests, taken'[q] # NoMessage
        PROVE  /\ Within(delivered[Owner[q]], taken'[q])
               /\ \A s \in Requests \ {q} : taken'[s] # taken'[q]
    BY <2>1 DEF MessageInv, TakenApart
  <2> QED  BY <2>1 DEF TakenApart, Within
<1> QED  BY <1>1, <1>3, <1>4 DEF Arrived, Within

\* A call that starts no send leaves every thread that has one to make as it
\* is, names no request anew, and, if it is OSMP_Wait, returns.
LEMMA CallKeeps ==
  ASSUME TypeOK, MessageInv, NEW p \in Ranks, Running(p), Proceed(p),
         UNCHANGED <<box, delivered>>,
         \A q \in Requests : taken'[q] = taken[q] \/ taken'[q] = NoMessage,
         Call(p).op # "isend", Call(p).op = "wait" => Call(p).req \in waited',
         \A q \in Requests : fields'[q].op = "isend" =>
           fields'[q] = fields[q] /\ (q \in waited => q \in waited'),
         \A q \in Requests : Unsent(q) => fields'[q] = fields[q],
         \A q \in Requests : fields[q].op = "isend" /\ fields'[q] = fields[q] =>
           thread'[q] = thread[q]
  PROVE  MessageInv'
<1>1. ASSUME NEW q \in Requests PROVE Named(q)'
  <2>1. CASE fields'[q].op = "isend"
    <3>1. Named(q) /\ fields'[q] = fields[q] /\ (q \in waited => q \in waited')
      BY <2>1 DEF MessageInv
    <3> QED  BY <3>1, NamedStays
  <2>2. CASE fields'[q].op # "isend"
    BY <2>2 DEF Named
  <2> QED  BY <2>1, <2>2
<1>2. ASSUME NEW q \in Requests
      PROVE  Unsent(q)' <=> Unsent(q) /\ fields'[q] = fields[q]
  BY DEF Unsent
<1>3. \A r : \A m : Arrived(m, r)' <=> Arrived(m, r)
  BY CallKeepsPlaces
<1>4. UnsentNotArrived'
  BY <1>2, <1>3 DEF MessageInv, UnsentNotArrived, Accepted
<1>5. ASSUME NEW r \in Ranks, NEW i \in 1 .. next'[r] - 1,
             Program[r][i].op = "isend", Deliverable(r, Program[r][i])
      PROVE  Arrived(<<r, i>>, Program[r][i].dest)'
               \/ (Unsent(Program[r][i].req)' /\ fields'[Program[r][i].req].id = <<r, i>>)
  <2>1. ~(r = p /\ i = next[p])
    BY <1>5 DEF Call
  <2>2. next[r] \in Nat /\ (next'[r] = next[r] \/ (r = p /\ next'[r] = next[r] + 1))
    BY SentStays DEF TypeOK
  <2>3. i \in 1 .. next[r] - 1
    BY <1>5, <2>1, <2>2
  <2>4. PICK q \in Requests : q = Program[r][i].req
    BY <2>3, CallMade
  <2>5. Arrived(<<r, i>>, Program[r][i].dest) \/ (Unsent(q) /\ fields[q].id = <<r, i>>)
    BY <1>5, <2>3, <2>4 DEF MessageInv, SendsArrive
  <2> QED  BY <1>2, <1>3, <2>4, <2>5
<1>6. SendsArrive'
  BY <1>5 DEF SendsArrive
<1> QED  BY <1>1, <1>4, <1>6, CallKeepsPlaces DEF MessageInv

\* OSMP_Isend starts a thread with a message that is in no mailbox yet.
LEMMA IsendKeeps ==
  ASSUME RequestInv, MessageInv, NEW p \in Ranks, Isend(p)
  PROVE  MessageInv'
<1>0. TypeOK /\ Running(p) /\ Call(p).op = "isend" /\ Call(p).req \in Requests
      /\ Call(p) \in Calls
  BY CallTyped DEF RequestInv, Isend
<1> PICK q \in Requests : q = Call(p).req
  BY <1>0
<1> PICK d \in Nat : d = Call(p).dest
  BY <1>0 DEF Calls
<1> PICK n \in Nat \ {0} : n = next[p]
  BY <1>0 DEF TypeOK
<1> PICK id \in Message : id = <<p, n>>
  BY DEF Message
<1> PICK l \in Nat : l = Call(p).len
  BY <1>0 DEF Calls
<1> DEFINE o == [op |-> "isend", dest |-> d, len |-> l, id |-> id]
<1>1. /\ TypeOK /\ Proceed(p) /\ q \in waited
      /\ fields' = [fields EXCEPT ![q] = o]
      /\ thread' = [thread EXCEPT ![q] = "created"]
      /\ waited' = waited \ {q}
      /\ taken' = [taken EXCEPT ![q] = NoMessage]
      /\ UNCHANGED <<box, delivered>>
  BY <1>0 DEF Isend, Start, SendOf, shmVars, mailVars
<1>2. o.op = "isend" /\ o.dest = d /\ o.len = l /\ o.id = id /\ id[1] = p /\ id[2] = n
  OBVIOUS
<1> HIDE DEF o
<1>3. /\ fields'[q] = o /\ thread'[q] = "created"
      /\ \A s \in Requests : s # q => fields'[s] = fields[s] /\ thread'[s] = thread[s]
  BY <1>1 DEF TypeOK
<1>4. ~Unsent(q)
  BY <1>1 DEF RequestInv, Consistent, Unsent, Sending
<1>5. \A s \in Requests : s # q => (Unsent(s)' <=> Unsent(s))
  BY <1>3 DEF Unsent
<1>6. \A r : \A m : Arrived(m, r)' <=> Arrived(m, r)
  BY <1>0, <1>1, CallKeepsPlaces
<1>7. next'[p] = n + 1 /\ Program[p][n] = Call(p)
  BY <1>1, SentStays DEF Call
<1>8. Owner[q] = p
  <2>1. Program[p] \in Seq(Calls) /\ n \in DOMAIN Program[p]
    BY <1>0 DEF Running
  <2> QED  BY <1>7, <2>1
<1>9. ASSUME NEW s \in Requests PROVE Named(s)'
  <2>1. CASE s = q
    <3>1. SentBy(id, d)'
      BY <1>0, <1>2, <1>7 DEF SentBy, CallOf
    <3>2. \A w \in n + 1 .. next'[p] - 1 : FALSE
      BY <1>7
    <3>3. CallOf(id).len = l
      BY <1>2, <1>7 DEF CallOf
    <3> QED  BY <1>2, <1>3, <1>7, <1>8, <2>1, <3>1, <3>2, <3>3 DEF Named
  <2>2. CASE s # q
    <3>1. Named(s) /\ fields'[s] = fields[s] /\ (s \in waited => s \in waited')
      BY <1>1, <1>3, <2>2 DEF MessageInv
    <3> QED  BY <1>0, <1>1, <3>1, NamedStays
  <2> QED  BY <2>1, <2>2
<1>10. UnsentNotArrived'
  <2>1. ~Arrived(id, d) \/ d \notin Ranks
    <3>1. ~SentBy(id, d)
      BY <1>2 DEF SentBy
    <3> QED  BY <1>1, <3>1, OnceFacts DEF MessageInv
  <2>2. ASSUME NEW s \in Requests, Unsent(s)', Accepted(s)'
        PROVE  ~Arrived(fields[s].id, fields[s].dest)'
    <3>1. CASE s = q
      <4>1. fields'[s].id = id /\ fields'[s].dest = d /\ d \in Ranks
        BY <1>2, <1>3, <2>2, <3>1 DEF Accepted, Deliverable
      <4> QED  BY <1>6, <2>1, <4>1
    <3>2. CASE s # q
      BY <1>3, <1>5, <1>6, <2>2, <3>2 DEF MessageInv, UnsentNotArrived, Accepted
    <3> QED  BY <3>1, <3>2
  <2> QED  BY <2>2 DEF UnsentNotArrived
<1>11. ASSUME NEW r \in Ranks, NEW i \in 1 .. next'[r] - 1,
              Program[r][i].op = "isend", Deliverable(r, Program[r][i])
       PROVE  Arrived(<<r, i>>, Program[r][i].dest)'
                \/ (Unsent(Program[r][i].req)' /\ fields'[Program[r][i].req].id = <<r, i>>)
  <2>1. CASE r = p /\ i = n
    BY <1>2, <1>3, <1>7, <2>1 DEF Unsent
  <2>2. CASE ~(r = p /\ i = n)
    <3>1. next[r] \in Nat /\ (next'[r] = next[r] \/ (r = p /\ next'[r] = next[r] + 1))
      BY <1>1, SentStays DEF TypeOK
    <3>2. i \in 1 .. next[r] - 1
      BY <1>11, <2>2, <3>1
    <3>3. PICK s \in Requests : s = Program[r][i].req
      BY <1>1, <3>2, CallMade
    <3>4. Arrived(<<r, i>>, Program[r][i].dest) \/ (Unsent(s) /\ fields[s].id = <<r, i>>)
      BY <1>11, <3>2, <3>3 DEF MessageInv, SendsArrive
    <3>5. Unsent(s) => Unsent(s)' /\ fields'[s] = fields[s]
      BY <1>3, <1>4, <1>5
    <3> QED  BY <1>6, <3>3, <3>4, <3>5
  <2> QED  BY <2>1, <2>2
<1>12. SendsArrive'
  BY <1>11 DEF SendsArrive
<1> QED  BY <1>0, <1>1, <1>9, <1>10, <1>12, CallKeepsPlaces DEF MessageInv

-----------------------------------------------------------------------------
(* The threads and their messages.                                         *)

\* A message still to be sent is one of its process's calls, made for the
\* request that names it.
LEMMA NamedFacts ==
  ASSUME TypeOK, NEW q \in Requests, Named(q), fields[q].op = "isend"
  PROVE  /\ fields[q].id \in Message /\ fields[q].id[1] = Owner[q]
         /\ SentBy(fields[q].id, fields[q].dest)
         /\ Program[Owner[q]][fields[q].id[2]].req = q
         /\ Program[Owner[q]][fields[q].id[2]].dest = fields[q].dest
         /\ Deliverable(Owner[q], Program[Owner[q]][fields[q].id[2]]) <=> Accepted(q)
<1>1. fields[q].id[1] = Owner[q] /\ SentBy(fields[q].id, fields[q].dest)
      /\ Program[Owner[q]][fields[q].id[2]].req = q
      /\ CallOf(fields[q].id).len = fields[q].len
  BY DEF Named
<1>2. Program[Owner[q]][fields[q].id[2]].dest = fields[q].dest
      /\ Program[Owner[q]][fields[q].id[2]].len = fields[q].len
  BY <1>1 DEF SentBy, CallOf
<1> QED  BY <1>1, <1>2, FieldsTyped DEF Accepted, Deliverable

\* A step that moves no message loses none, if it starts no send and ends none
\* that has another process to reach.
LEMMA QuietKeeps ==
  ASSUME TypeOK, MessageInv, UNCHANGED <<box, delivered, next, fields, taken, waited>>,
         \A q \in Requests : Unsent(q)' => Unsent(q),
         \A q \in Requests : Unsent(q) /\ Accepted(q) => Unsent(q)'
  PROVE  MessageInv'
<1>1. \A q \in Requests : Named(q)'
  BY DEF MessageInv, Named, SentBy
<1>2. MessagesOnce' /\ TakenApart'
  BY DEF MessageInv, MessagesOnce, TakenApart, SentBy, SentTo, Within, Distinct
<1>3. \A r : \A m : Arrived(m, r)' <=> Arrived(m, r)
  BY DEF Arrived, Within
<1>4. UnsentNotArrived'
  BY <1>3 DEF MessageInv, UnsentNotArrived, Accepted
<1>5. ASSUME NEW p \in Ranks, NEW i \in 1 .. next[p] - 1,
             Program[p][i].op = "isend", Deliverable(p, Program[p][i])
      PROVE  Arrived(<<p, i>>, Program[p][i].dest)
               \/ (Unsent(Program[p][i].req)' /\ fields[Program[p][i].req].id = <<p, i>>)
  <2>1. PICK q \in Requests : q = Program[p][i].req /\ Owner[q] = p
    BY CallMade
  <2>2. Arrived(<<p, i>>, Program[p][i].dest) \/ (Unsent(q) /\ fields[q].id = <<p, i>>)
    BY <1>5, <2>1 DEF MessageInv, SendsArrive
  <2>3. ASSUME Unsent(q), fields[q].id = <<p, i>>
        PROVE  Accepted(q)
    <3>1. Named(q) /\ fields[q].op = "isend"
      BY <2>3 DEF MessageInv, Unsent
    <3>2. fields[q].id[2] = i
      BY <2>3
    <3> QED  BY <1>5, <2>1, <3>1, <3>2, NamedFacts
  <2> QED  BY <2>1, <2>2, <2>3
<1>6. SendsArrive'
  BY <1>3, <1>5 DEF SendsArrive
<1>7. \A p \in Ranks : next'[p] <= Len(Program[p]) + 1
  BY DEF MessageInv
<1> QED  BY <1>1, <1>2, <1>4, <1>6, <1>7 DEF MessageInv

\* OSMP_Send brings its message where it was sent to, for the first time.
LEMMA SendPublishArrives ==
  ASSUME RequestInv, MessageInv, NEW q \in Requests, SendPublish(q)
  PROVE  MessageInv'
<1>0. "written" \in Sending /\ "returned" \notin {"created", "calling"} \cup Sending
  BY DEF Sending
<1>1. /\ TypeOK /\ Advance(q, "written", "returned")
      /\ fields[q].op = "isend" /\ Accepted(q) /\ fields[q].dest \in Ranks
      /\ box' = [box EXCEPT ![fields[q].dest] = Append(@, fields[q].id)]
      /\ UNCHANGED <<delivered, next, fields, taken, waited>>
  BY <1>0, InCall DEF RequestInv, SendPublish, Advance, readVars
<1> PICK d \in Ranks : d = fields[q].dest
  BY <1>1
<1> PICK m \in Message : m = fields[q].id
  BY <1>1, FieldsTyped
<1>2. /\ delivered' = delivered /\ box[d] \in Seq(Message)
      /\ box'[d] = Append(box[d], m)
      /\ \A r \in Ranks : r # d => box'[r] = box[r]
  BY <1>1 DEF TypeOK
<1>3. /\ Unsent(q) /\ ~Unsent(q)'
      /\ \A s \in Requests : s # q => (Unsent(s)' <=> Unsent(s))
  BY <1>0, <1>1, Advanced DEF Unsent
<1>4. /\ Named(q) /\ m[1] = Owner[q] /\ SentBy(m, d) /\ Program[Owner[q]][m[2]].req = q
      /\ SentTo(m, d)
  BY <1>1, NamedFacts DEF MessageInv, SentTo, CallOf
<1>5. ~Within(box[d], m) /\ ~Within(delivered[d], m)
  BY <1>1, <1>3 DEF MessageInv, UnsentNotArrived, Arrived
<1>6. /\ Distinct(box'[d])
      /\ \A x : Within(box'[d], x) <=> Within(box[d], x) \/ x = m
  BY <1>2, <1>5, AppendWithin DEF MessageInv, MessagesOnce
<1>7. \A r \in Ranks : \A x : Arrived(x, r)' <=> Arrived(x, r) \/ (r = d /\ x = m)
  BY <1>2, <1>6 DEF Arrived
<1>8. \A s \in Requests : Named(s)'
  BY <1>1 DEF MessageInv, Named, SentBy
<1>9. MessagesOnce'
  <2>1. ASSUME NEW r \in Ranks
        PROVE  /\ Distinct(box'[r]) /\ Distinct(delivered[r])
               /\ \A i \in DOMAIN box'[r] : ~Within(delivered[r], box'[r][i])
               /\ \A i \in DOMAIN box'[r] : SentTo(box'[r][i], r)
               /\ \A i \in DOMAIN delivered[r] : SentTo(delivered[r][i], r)
    <3>1. CASE r = d
      <4>1. \A i \in DOMAIN box'[d] : Within(box'[d], box'[d][i])
        BY DEF Within
      <4>2. \A x : Within(box[d], x) => ~Within(delivered[d], x) /\ SentTo(x, d)
        BY <1>1, OnceFacts DEF MessageInv, Arrived
      <4> QED  BY <1>4, <1>5, <1>6, <3>1, <4>1, <4>2 DEF MessageInv, MessagesOnce
    <3>2. CASE r # d
      BY <1>2, <3>2 DEF MessageInv, MessagesOnce
    <3> QED  BY <3>1, <3>2
  <2>2. \A x, r : SentTo(x, r)' <=> SentTo(x, r)
    BY <1>1 DEF SentBy, SentTo
  <2> QED  BY <1>2, <2>1, <2>2 DEF MessagesOnce, Distinct, Within
<1>10. UnsentNotArrived'
  <2>1. ASSUME NEW s \in Requests, Unsent(s)', Accepted(s)'
        PROVE  ~Arrived(fields[s].id, fields[s].dest)'
    <3>1. s # q /\ Unsent(s) /\ Accepted(s) /\ fields[s].op = "isend"
      BY <1>1, <1>3, <2>1 DEF Accepted, Unsent
    <3>2. ~Arrived(fields[s].id, fields[s].dest) /\ fields[s].dest \in Ranks
      BY <3>1 DEF MessageInv, UnsentNotArrived, Accepted, Deliverable
    <3>3. fields[s].id # m
      BY <1>1, <1>4, <3>1, NamedFacts DEF MessageInv
    <3> QED  BY <1>1, <1>7, <3>2, <3>3
  <2> QED  BY <2>1 DEF UnsentNotArrived
<1>11. ASSUME NEW p \in Ranks, NEW i \in 1 .. next[p] - 1,
              Program[p][i].op = "isend", Deliverable(p, Program[p][i])
       PROVE  Arrived(<<p, i>>, Program[p][i].dest)'
                \/ (Unsent(Program[p][i].req)' /\ fields[Program[p][i].req].id = <<p, i>>)
  <2>1. PICK s \in Requests : s = Program[p][i].req /\ Owner[s] = p
    BY <1>1, CallMade
  <2>2. Arrived(<<p, i>>, Program[p][i].dest) \/ (Unsent(s) /\ fields[s].id = <<p, i>>)
    BY <1>11, <2>1 DEF MessageInv, SendsArrive
  <2>3. ASSUME s = q, fields[s].id = <<p, i>>
        PROVE  Arrived(<<p, i>>, Program[p][i].dest)'
    <3>1. Program[p][i].dest = d /\ m = <<p, i>>
      BY <1>1, <1>4, <2>1, <2>3, NamedFacts
    <3> QED  BY <1>7, <3>1
  <2> QED  BY <1>3, <1>7, <1>11, <2>1, <2>2, <2>3 DEF Deliverable
<1>12. SendsArrive'
  BY <1>1, <1>11 DEF SendsArrive
<1>13. TakenApart'
  BY <1>1 DEF MessageInv, TakenApart, Within
<1>14. \A p \in Ranks : next'[p] <= Len(Program[p]) + 1
  BY <1>1 DEF MessageInv
<1> QED  BY <1>8, <1>9, <1>10, <1>12, <1>13, <1>14 DEF MessageInv

\* OSMP_Recv takes a message out of its ring that no other receive has taken.
LEMMA RecvTakeTakes ==
  ASSUME RequestInv, MessageInv, NEW q \in Requests, RecvTake(q)
  PROVE  MessageInv'
<1> PICK o \in Ranks : o = Owner[q]
  OBVIOUS
<1>1. /\ TypeOK /\ Advance(q, "calling", "taken") /\ fields[q].op = "irecv"
      /\ Mailbox!Take(o) /\ taken' = [taken EXCEPT ![q] = Head(box[o])]
      /\ UNCHANGED <<next, fields, waited>>
  BY DEF RequestInv, RecvTake, Advance
<1> PICK h \in Message : h = Head(box[o])
  BY RecvTakeKeeps
<1>2. /\ box[o] \in Seq(Message) /\ box[o] # <<>> /\ delivered[o] \in Seq(Message)
      /\ box'[o] = Tail(box[o]) /\ delivered'[o] = Append(delivered[o], h)
      /\ \A r \in Ranks : r # o => box'[r] = box[r] /\ delivered'[r] = delivered[r]
      /\ taken'[q] = h /\ \A s \in Requests : s # q => taken'[s] = taken[s]
  BY <1>1 DEF Mailbox!Take, TypeOK
<1>3. /\ Distinct(box[o]) /\ Distinct(delivered[o])
      /\ \A x : ~(Within(box[o], x) /\ Within(delivered[o], x))
  BY <1>1, OnceFacts DEF MessageInv
<1>4. /\ Distinct(box'[o]) /\ ~Within(box'[o], h)
      /\ \A x : Within(box[o], x) <=> Within(box'[o], x) \/ x = h
  BY <1>2, <1>3, TailWithin
<1>5. Within(box[o], h) /\ ~Within(delivered[o], h)
  BY <1>3, <1>4
<1>6. /\ Distinct(delivered'[o])
      /\ \A x : Within(delivered'[o], x) <=> Within(delivered[o], x) \/ x = h
  BY <1>2, <1>3, <1>5, AppendWithin
<1>7. \A r \in Ranks : \A x : Arrived(x, r)' <=> Arrived(x, r)
  BY <1>2, <1>4, <1>6 DEF Arrived
<1>8. \A s \in Requests : Unsent(s)' <=> Unsent(s)
  BY <1>1, Advanced DEF Unsent
<1>9. \A x, r : (SentBy(x, r)' <=> SentBy(x, r)) /\ (SentTo(x, r)' <=> SentTo(x, r))
  BY <1>1 DEF SentBy, SentTo
<1>10. \A s \in Requests : Named(s)'
  BY <1>1, <1>9 DEF MessageInv, Named
<1>11. ASSUME NEW r \in Ranks
       PROVE  /\ Distinct(box'[r]) /\ Distinct(delivered'[r])
              /\ \A i \in DOMAIN box'[r] : ~Within(delivered'[r], box'[r][i])
              /\ \A i \in DOMAIN box'[r] : SentTo(box'[r][i], r)
              /\ \A i \in DOMAIN delivered'[r] : SentTo(delivered'[r][i], r)
  <2>1. CASE r = o
    <3>1. /\ \A i \in DOMAIN box'[o] : Within(box'[o], box'[o][i])
          /\ \A i \in DOMAIN delivered'[o] : Within(delivered'[o], delivered'[o][i])
      BY DEF Within
    <3>2. \A x : Within(box'[o], x) => Within(box[o], x) /\ ~Within(delivered'[o], x)
      BY <1>3, <1>4, <1>6
    <3>3. \A x : Within(box[o], x) \/ Within(delivered[o], x) => SentTo(x, o)
      BY <1>1, OnceFacts DEF MessageInv, Arrived
    <3>4. \A x : Within(delivered'[o], x) => SentTo(x, o)
      BY <1>5, <1>6, <3>3
    <3> QED  BY <1>4, <1>6, <2>1, <3>1, <3>2, <3>3, <3>4
  <2>2. CASE r # o
    BY <1>2, <2>2 DEF MessageInv, MessagesOnce
  <2> QED  BY <2>1, <2>2
<1>12. MessagesOnce'
  BY <1>9, <1>11 DEF MessagesOnce, Distinct, Within
<1>13. UnsentNotArrived'
  BY <1>1, <1>7, <1>8 DEF MessageInv, UnsentNotArrived, Accepted, Deliverable
<1>14. ASSUME NEW p \in Ranks, NEW i \in 1 .. next[p] - 1,
              Program[p][i].op = "isend", Deliverable(p, Program[p][i])
       PROVE  Arrived(<<p, i>>, Program[p][i].dest)'
                \/ (Unsent(Program[p][i].req)' /\ fields[Program[p][i].req].id = <<p, i>>)
  <2>1. PICK s \in Requests : s = Program[p][i].req
    BY <1>1, CallMade
  <2>2. Arrived(<<p, i>>, Program[p][i].dest) \/ (Unsent(s) /\ fields[s].id = <<p, i>>)
    BY <1>14, <2>1 DEF MessageInv, SendsArrive
  <2> QED  BY <1>7, <1>8, <1>14, <2>1, <2>2 DEF Deliverable
<1>15. SendsArrive'
  BY <1>1, <1>14 DEF SendsArrive
<1>16. ASSUME NEW s \in Requests, s # q, taken[s] # NoMessage
       PROVE  Within(delivered'[Owner[s]], taken[s]) /\ taken[s] # h
  <2>1. Within(delivered[Owner[s]], taken[s]) /\ Owner[s] \in Ranks
    BY <1>16 DEF MessageInv, TakenApart
  <2>2. Within(delivered'[Owner[s]], taken[s])
    BY <1>2, <1>6, <2>1
  <2>3. SentBy(taken[s], Owner[s]) /\ SentBy(h, o)
    BY <1>1, <1>5, <2>1, OnceFacts DEF MessageInv, Arrived
  <2>4. taken[s] = h => Owner[s] = o
    BY <2>3 DEF SentBy
  <2> QED  BY <1>5, <2>1, <2>2, <2>4
<1>17. TakenApart'
  <2>1. ASSUME NEW s \in Requests, taken'[s] # NoMessage
        PROVE  /\ Within(delivered'[Owner[s]], taken'[s])
               /\ \A t \in Requests \ {s} : taken'[t] # taken'[s]
    <3>1. CASE s = q
      <4>1. Within(delivered'[o], h)
        BY <1>6
      <4>2. \A t \in Requests \ {s} : taken'[t] # h
        BY <1>2, <1>16, <3>1, MessageParts
      <4> QED  BY <1>2, <3>1, <4>1, <4>2
    <3>2. CASE s # q
      BY <1>2, <1>16, <2>1, <3>2 DEF MessageInv, TakenApart
    <3> QED  BY <3>1, <3>2
  <2> QED  BY <2>1 DEF TakenApart, Within
<1>18. \A p \in Ranks : next'[p] <= Len(Program[p]) + 1
  BY <1>1 DEF MessageInv
<1> QED  BY <1>10, <1>12, <1>13, <1>15, <1>17, <1>18 DEF MessageInv

-----------------------------------------------------------------------------
\* Nothing has been called and no message is anywhere at the start.
LEMMA InitMessages == Init => MessageInv
<1> SUFFICES ASSUME Init PROVE MessageInv
  OBVIOUS
<1>1. /\ box = [r \in Ranks |-> <<>>] /\ delivered = [r \in Ranks |-> <<>>]
      /\ next = [p \in Ranks |-> 1] /\ fields = [q \in Requests |-> Idle]
      /\ taken = [q \in Requests |-> NoMessage]
  BY DEF Init, Mailbox!Init
<1>2. /\ \A q \in Requests : Named(q) /\ ~Unsent(q)
      /\ UnsentNotArrived /\ TakenApart
  BY <1>1 DEF Named, Unsent, Idle, UnsentNotArrived, TakenApart
<1>3. MessagesOnce
  BY <1>1 DEF MessagesOnce, Distinct
<1>4. \A p \in Ranks : next[p] <= Len(Program[p]) + 1 /\ 1 .. next[p] - 1 = {}
  <2>1. \A p \in Ranks : next[p] = 1 /\ Len(Program[p]) \in Nat
    BY <1>1
  <2> QED  BY <2>1
<1>5. SendsArrive
  BY <1>4 DEF SendsArrive
<1> QED  BY <1>2, <1>3, <1>4, <1>5 DEF MessageInv

\* The calls of a process keep the messages in order.
LEMMA MainKeepsMessages ==
  ASSUME RequestInv, MessageInv, NEW p \in Ranks, Main(p)
  PROVE  MessageInv'
<1>1. TypeOK
  BY DEF RequestInv
<1>2. CASE CreateRequest(p)
  <2>1. /\ Running(p) /\ Proceed(p) /\ Call(p).op = "create"
        /\ UNCHANGED <<box, delivered, taken, fields, thread, waited>>
    BY <1>2 DEF CreateRequest, shmVars, mailVars, readVars
  <2> QED  BY <1>1, <2>1, CallKeeps
<1>3. CASE RemoveRequest(p)
  <2>1. /\ Running(p) /\ Proceed(p) /\ Call(p).op = "remove"
        /\ UNCHANGED <<box, delivered, taken, fields, thread, waited>>
    BY <1>3 DEF RemoveRequest, shmVars, mailVars, requestVars, readVars
  <2> QED  BY <1>1, <2>1, CallKeeps
<1>4. CASE Isend(p)
  BY <1>4, IsendKeeps
<1>5. CASE Irecv(p)
  <2> PICK q \in Requests : q = Call(p).req
    BY <1>1, <1>5, CallTyped DEF Irecv
  <2>1. /\ Running(p) /\ Proceed(p) /\ Call(p).op = "irecv" /\ q \in waited
        /\ fields' = [fields EXCEPT ![q] = [op |-> "irecv", max |-> Call(p).max]]
        /\ thread' = [thread EXCEPT ![q] = "created"]
        /\ waited' = waited \ {q}
        /\ taken' = [taken EXCEPT ![q] = NoMessage]
        /\ UNCHANGED <<box, delivered>>
    BY <1>5 DEF Irecv, Start, shmVars, mailVars
  <2>2. /\ fields'[q].op = "irecv"
        /\ \A s \in Requests : s # q => fields'[s] = fields[s] /\ thread'[s] = thread[s]
        /\ \A s \in Requests : taken'[s] = taken[s] \/ taken'[s] = NoMessage
    BY <1>1, <2>1 DEF TypeOK
  <2>3. ~Unsent(q)
    BY <2>1 DEF RequestInv, Consistent, Unsent, Sending
  <2>4. \A s \in Requests : fields'[s].op = "isend" =>
          fields'[s] = fields[s] /\ (s \in waited => s \in waited')
    BY <2>1, <2>2
  <2>5. \A s \in Requests : Unsent(s) => fields'[s] = fields[s]
    BY <2>2, <2>3
  <2>6. \A s \in Requests : fields[s].op = "isend" /\ fields'[s] = fields[s] =>
          thread'[s] = thread[s]
    BY <2>2
  <2> QED  BY <1>1, <2>1, <2>2, <2>4, <2>5, <2>6, CallKeeps
<1>6. CASE Wait(p)
  <2>1. /\ Running(p) /\ Proceed(p) /\ Call(p).op = "wait"
        /\ waited' = waited \cup {Call(p).req}
        /\ UNCHANGED <<box, delivered, taken, fields, thread>>
    BY <1>6 DEF Wait, shmVars, mailVars, requestVars, readVars
  <2> QED  BY <1>1, <2>1, CallKeeps
<1> QED  BY <1>2, <1>3, <1>4, <1>5, <1>6 DEF Main

\* So do the steps of a thread, and those of OSMP_Test.
LEMMA WorkerKeepsMessages ==
  ASSUME RequestInv, MessageInv, NEW q \in Requests, Worker(q) \/ Test(q)
  PROVE  MessageInv'
<1>0. TypeOK
  BY DEF RequestInv
<1> DEFINE Before == {"created", "calling"} \cup Sending
<1>1. /\ {"created", "calling", "placed", "writing", "half", "written"} \subseteq Before
      /\ {"returned", "ended", "accepted", "header", "taken"} \cap Before = {}
  BY DEF Sending
<1>2. ASSUME NEW from, NEW to, Advance(q, from, to), UNCHANGED <<box, delivered, taken>>,
             from \in Before <=> to \in Before
      PROVE  MessageInv'
  <2>1. /\ thread[q] = from /\ thread'[q] = to /\ UNCHANGED <<next, fields, waited>>
        /\ \A s \in Requests : s # q => thread'[s] = thread[s]
    BY <1>0, <1>2, Advanced
  <2>2. \A s \in Requests : Unsent(s)' <=> Unsent(s)
    BY <1>2, <2>1 DEF Unsent
  <2> QED  BY <1>0, <1>2, <2>1, <2>2, QuietKeeps
<1> HIDE DEF Before
<1>3. CASE Mark(q) \/ Finish(q)
  <2>1. /\ Advance(q, "created", "calling") \/ Advance(q, "returned", "ended")
        /\ UNCHANGED <<box, delivered, taken>>
    BY <1>3 DEF Mark, Finish, shmVars, mailVars, readVars
  <2> QED  BY <1>1, <1>2, <2>1
<1>4. CASE SendReserve(q) \/ SendPop(q) \/ SendHeader(q) \/ SendPayload(q)
  <2>1. /\ \/ Advance(q, "calling", "placed") \/ Advance(q, "placed", "writing")
           \/ Advance(q, "writing", "half") \/ Advance(q, "half", "written")
        /\ UNCHANGED <<box, delivered, taken>>
    BY <1>4 DEF SendReserve, SendPop, SendHeader, SendPayload, mailVars, readVars
  <2> QED  BY <1>1, <1>2, <2>1
<1>5. CASE RecvAccept(q) \/ RecvTooLong(q) \/ RecvHeader(q) \/ RecvPayload(q)
  <2>1. /\ \/ Advance(q, "taken", "accepted") \/ Advance(q, "taken", "returned")
           \/ Advance(q, "accepted", "header") \/ Advance(q, "header", "returned")
        /\ UNCHANGED <<box, delivered, taken>>
    BY <1>5 DEF RecvAccept, RecvTooLong, RecvHeader, RecvPayload, shmVars, mailVars, readVars
  <2> QED  BY <1>1, <1>2, <2>1
<1>6. CASE SendRejected(q)
  <2>1. /\ Advance(q, "calling", "returned") /\ ~Accepted(q)
        /\ UNCHANGED <<box, delivered, next, fields, taken, waited>>
    BY <1>6 DEF SendRejected, Advance, shmVars, mailVars, readVars
  <2>2. /\ thread'[q] = "returned" /\ fields' = fields
        /\ \A s \in Requests : s # q => thread'[s] = thread[s]
    BY <1>0, <2>1, Advanced
  <2>3. \A s \in Requests : Unsent(s)' => Unsent(s)
    BY <1>1, <2>2 DEF Unsent, Before
  <2>4. \A s \in Requests : Unsent(s) /\ Accepted(s) => Unsent(s)'
    BY <2>1, <2>2 DEF Unsent
  <2> QED  BY <1>0, <2>1, <2>3, <2>4, QuietKeeps
<1>7. CASE SendPublish(q)
  BY <1>7, SendPublishArrives
<1>8. CASE RecvTake(q)
  BY <1>8, RecvTakeTakes
<1>9. CASE Test(q)
  <2>1. UNCHANGED <<box, delivered, next, fields, taken, waited, thread>>
    BY <1>9 DEF Test, shmVars, mailVars, readVars
  <2>2. \A s \in Requests : Unsent(s)' <=> Unsent(s)
    BY <2>1 DEF Unsent
  <2> QED  BY <1>0, <2>1, <2>2, QuietKeeps
<1> QED  BY <1>3, <1>4, <1>5, <1>6, <1>7, <1>8, <1>9 DEF Worker, Sender, Receiver

-----------------------------------------------------------------------------
(* Slots.                                                                  *)

\* Two parts make contents, and the contents of whole messages tell them apart.
LEMMA WholeContents ==
  /\ \A c \in Contents : \A m : c.header = m /\ c.payload = m => c = Whole(m)
  /\ \A m, n : Whole(m) = Whole(n) => m = n
  /\ \A m : Whole(m).header = m
<1>1. ASSUME NEW m, NEW n, Whole(m) = Whole(n) PROVE m = n
  <2>1. Whole(m).header = m /\ Whole(n).header = n
    BY DEF Whole
  <2> QED  BY <1>1, <2>1
<1>2. \A c \in Contents : \A m : c.header = m /\ c.payload = m => c = Whole(m)
  BY DEF Contents, Whole
<1> QED  BY <1>1, <1>2 DEF Whole

\* What an element of a sequence is.
LEMMA AtWithin == \A s : \A i \in DOMAIN s : Within(s, s[i])
  BY DEF Within

\* A request keeps its part of the invariant if neither it nor its slot is touched.
LEMMA OtherHolds ==
  ASSUME NEW s \in Requests, SenderHolds(s), ReceiverHolds(s),
         thread'[s] = thread[s], fields'[s] = fields[s], slot'[s] = slot[s],
         taken'[s] = taken[s], buf'[s] = buf[s], s \in disturbed => s \in disturbed',
         Writing(s) => messages'[slot[s]] = messages[slot[s]],
         Reading(s) /\ s \notin disturbed' =>
           /\ messages'[slot[s]] = messages[slot[s]]
           /\ Within(free, slot[s]) => Within(free', slot[s])
  PROVE  SenderHolds(s)' /\ ReceiverHolds(s)'
<1>1. SenderHolds(s)'
  BY DEF SenderHolds, Writing
<1>2. ASSUME Reading(s)', s \notin disturbed'
      PROVE  /\ Within(free', slot'[s]) /\ messages'[slot'[s]] = Whole(taken'[s])
             /\ thread'[s] \in {"taken", "accepted"} => buf'[s] = Empty
             /\ thread'[s] \in {"accepted", "header"} =>
                  CallOf(taken'[s]).len <= fields'[s].max
             /\ thread'[s] = "header" => buf'[s] = [header |-> taken'[s], payload |-> NoMessage]
  <2>1. Reading(s) /\ s \notin disturbed
    BY <1>2 DEF Reading
  <2> QED  BY <1>2, <2>1 DEF ReceiverHolds
<1>3. Received(s)' = Received(s) /\ (Over(s)' <=> Over(s))
  BY DEF Received, Over, CallOf
<1>4. /\ thread'[s] \in {"created", "calling"} => buf'[s] = Empty
      /\ fields'[s].op = "irecv" /\ thread'[s] \in Receiving \cup {"returned", "ended"} =>
           taken'[s] # NoMessage
      /\ fields'[s].op = "irecv" /\ Over(s)' /\ s \notin disturbed' => buf'[s] = Received(s)'
  BY <1>3 DEF ReceiverHolds
<1>5. ReceiverHolds(s)'
  BY <1>2, <1>4 DEF ReceiverHolds, Within, CallOf
<1> QED  BY <1>1, <1>5

\* A step that moves no slot and writes none has only its own request to care for.
LEMMA SlotsStay ==
  ASSUME SlotInv, NEW q \in Requests, UNCHANGED <<free, ring, messages, slot, box>>,
         \A s \in Requests : s # q =>
           /\ thread'[s] = thread[s] /\ fields'[s] = fields[s] /\ taken'[s] = taken[s]
           /\ buf'[s] = buf[s] /\ (s \in disturbed <=> s \in disturbed'),
         Writing(q)' => Writing(q), SenderHolds(q)', ReceiverHolds(q)'
  PROVE  SlotInv'
<1>1. \A s \in Requests : Writing(s)' => Writing(s)
  BY DEF Writing
<1>2. SlotsApart'
  <2>1. SlotsApart
    BY DEF SlotInv
  <2> QED  BY <1>1, <2>1 DEF SlotsApart, Distinct, Within
<1>3. RingHolds'
  BY DEF SlotInv, RingHolds
<1>4. ASSUME NEW s \in Requests
      PROVE  SenderHolds(s)' /\ ReceiverHolds(s)'
  <2>1. CASE s # q
    <3>1. SenderHolds(s) /\ ReceiverHolds(s)
      BY DEF SlotInv
    <3> QED  BY <2>1, <3>1, OtherHolds
  <2> QED  BY <2>1
<1> QED  BY <1>2, <1>3, <1>4 DEF SlotInv

\* The calls of a process, and the first and last step of a thread, move none.
LEMMA CallsKeepSlots ==
  ASSUME RequestInv, SlotInv,
         \/ \E p \in Ranks : Main(p)
         \/ \E q \in Requests : Test(q) \/ Mark(q) \/ Finish(q)
  PROVE  SlotInv'
<1>0. TypeOK
  BY DEF RequestInv
<1>1. ASSUME NEW p \in Ranks, CreateRequest(p) \/ RemoveRequest(p) \/ Wait(p)
      PROVE  SlotInv'
  <2>1. UNCHANGED <<free, ring, messages, slot, box, thread, fields, taken, buf, disturbed>>
    BY <1>1 DEF CreateRequest, RemoveRequest, Wait, shmVars, mailVars, requestVars, readVars
  <2>2. PICK q \in Requests : q = Call(p).req
    BY <1>0, <1>1, CallTyped DEF CreateRequest, RemoveRequest, Wait
  <2>3. SenderHolds(q) /\ ReceiverHolds(q) /\ (Writing(q)' <=> Writing(q))
    BY <2>1 DEF SlotInv, Writing
  <2>4. SenderHolds(q)' /\ ReceiverHolds(q)'
    BY <2>1, <2>3, OtherHolds
  <2> QED  BY <2>1, <2>3, <2>4, SlotsStay
<1>2. ASSUME NEW q \in Requests, Test(q)
      PROVE  SlotInv'
  <2>1. UNCHANGED <<free, ring, messages, slot, box, thread, fields, taken, buf, disturbed>>
    BY <1>2 DEF Test, shmVars, mailVars, readVars
  <2>2. SenderHolds(q) /\ ReceiverHolds(q) /\ (Writing(q)' <=> Writing(q))
    BY <2>1 DEF SlotInv, Writing
  <2>3. SenderHolds(q)' /\ ReceiverHolds(q)'
    BY <2>1, <2>2, OtherHolds
  <2> QED  BY <2>1, <2>2, <2>3, SlotsStay
<1>3. ASSUME NEW p \in Ranks, Isend(p) \/ Irecv(p)
      PROVE  SlotInv'
  <2>1. PICK q \in Requests : q = Call(p).req
    BY <1>0, <1>3, CallTyped DEF Isend, Irecv
  <2>2. PICK o : Start(p, o)
    BY <1>3 DEF Isend, Irecv
  <2>3. /\ UNCHANGED <<free, ring, messages, slot, box>>
        /\ fields' = [fields EXCEPT ![q] = o] /\ buf' = [buf EXCEPT ![q] = Empty]
        /\ thread' = [thread EXCEPT ![q] = "created"]
        /\ taken' = [taken EXCEPT ![q] = NoMessage] /\ disturbed' = disturbed \ {q}
    BY <2>1, <2>2 DEF Start, shmVars, mailVars
  <2>4. /\ thread'[q] = "created" /\ buf'[q] = Empty
        /\ \A s \in Requests : s # q =>
             /\ thread'[s] = thread[s] /\ fields'[s] = fields[s] /\ taken'[s] = taken[s]
             /\ buf'[s] = buf[s] /\ (s \in disturbed <=> s \in disturbed')
    BY <1>0, <2>3 DEF TypeOK
  <2>5. ~Writing(q)' /\ SenderHolds(q)' /\ ReceiverHolds(q)'
    BY <2>4 DEF Writing, Reading, SenderHolds, ReceiverHolds, Receiving, Over
  <2> QED  BY <2>3, <2>4, <2>5, SlotsStay
<1>4. ASSUME NEW q \in Requests, Mark(q) \/ Finish(q)
      PROVE  SlotInv'
  <2>1. /\ UNCHANGED <<free, ring, messages, slot, box, fields, taken, buf, disturbed>>
        /\ Advance(q, "created", "calling") \/ Advance(q, "returned", "ended")
    BY <1>4 DEF Mark, Finish, Advance, shmVars, mailVars, readVars
  <2>2. /\ \/ thread[q] = "created" /\ thread'[q] = "calling"
           \/ thread[q] = "returned" /\ thread'[q] = "ended"
        /\ \A s \in Requests : s # q => thread'[s] = thread[s]
    BY <1>0, <2>1, Advanced
  <2>3. ReceiverHolds(q)
    BY DEF SlotInv
  <2>4. Received(q)' = Received(q)
    BY <2>1 DEF Received, CallOf
  <2>5. ~Writing(q)' /\ SenderHolds(q)' /\ ~Reading(q)'
    BY <2>2 DEF Writing, Reading, SenderHolds
  <2>6. ReceiverHolds(q)'
    BY <2>1, <2>2, <2>3, <2>4, <2>5 DEF ReceiverHolds, Receiving, Over
  <2> QED  BY <2>1, <2>2, <2>5, <2>6, SlotsStay
<1> QED  BY <1>1, <1>2, <1>3, <1>4 DEF Main

\* Nor do the steps of the blocking calls that only look, count or copy out.
LEMMA LooksKeepSlots ==
  ASSUME RequestInv, SlotInv, NEW q \in Requests,
         \/ SendRejected(q) \/ SendReserve(q)
         \/ RecvAccept(q) \/ RecvTooLong(q) \/ RecvHeader(q) \/ RecvPayload(q)
  PROVE  SlotInv'
<1>0. TypeOK /\ ReceiverHolds(q) /\ slot[q] \in Slots
  BY InCall DEF RequestInv, SlotInv
<1>1. UNCHANGED <<free, ring, messages, slot, box, fields, taken, disturbed>>
  BY DEF SendRejected, SendReserve, RecvAccept, RecvTooLong, RecvHeader, RecvPayload,
         Advance, shmVars, mailVars, readVars
<1>2. CASE SendRejected(q) \/ SendReserve(q)
  <2>1. /\ Advance(q, "calling", "returned") \/ Advance(q, "calling", "placed")
        /\ fields[q].op = "isend" /\ buf' = buf
    BY <1>2 DEF SendRejected, SendReserve, readVars
  <2>2. /\ thread'[q] \in {"returned", "placed"}
        /\ \A s \in Requests : s # q => thread'[s] = thread[s]
    BY <1>0, <2>1, Advanced
  <2>3. ~Writing(q)' /\ SenderHolds(q)' /\ ReceiverHolds(q)'
    BY <1>1, <2>1, <2>2 DEF Writing, Reading, SenderHolds, ReceiverHolds
  <2> QED  BY <1>1, <2>1, <2>2, <2>3, SlotsStay
<1>3. CASE RecvAccept(q) \/ RecvTooLong(q) \/ RecvHeader(q) \/ RecvPayload(q)
  <2>1. /\ RecvAccept(q) => /\ Advance(q, "taken", "accepted") /\ buf' = buf
                            /\ Fits(q)
        /\ RecvTooLong(q) => /\ Advance(q, "taken", "returned") /\ buf' = buf
                             /\ ~Fits(q)
        /\ RecvHeader(q) => Advance(q, "accepted", "header")
        /\ RecvPayload(q) => Advance(q, "header", "returned")
    BY DEF RecvAccept, RecvTooLong, RecvHeader, RecvPayload, readVars
  <2>2. /\ RecvAccept(q) => thread[q] = "taken" /\ thread'[q] = "accepted"
        /\ RecvTooLong(q) => thread[q] = "taken" /\ thread'[q] = "returned"
        /\ RecvHeader(q) => thread[q] = "accepted" /\ thread'[q] = "header"
        /\ RecvPayload(q) => thread[q] = "header" /\ thread'[q] = "returned"
        /\ \A s \in Requests : s # q => thread'[s] = thread[s]
    BY <1>0, <1>3, <2>1, Advanced
  <2>3. /\ \A s \in Requests : s # q => buf'[s] = buf[s]
        /\ RecvHeader(q) => buf'[q] = [header |-> messages[slot[q]].header,
                                       payload |-> buf[q].payload]
        /\ RecvPayload(q) => buf'[q] = [header |-> buf[q].header,
                                        payload |-> messages[slot[q]].payload]
    BY <1>3, <2>1, RecvCopyKeeps
  <2>4. Reading(q) /\ fields[q].op = "irecv" /\ taken[q] # NoMessage
    BY <1>0, <1>3, <2>2, InCall DEF Reading, ReceiverHolds, Receiving
  <2>5. ~Writing(q)' /\ SenderHolds(q)'
    BY <1>3, <2>2 DEF Writing, SenderHolds
  <2>6. ASSUME q \notin disturbed
        PROVE  /\ Reading(q)' =>
                    /\ thread'[q] = "accepted" => buf'[q] = Empty
                    /\ CallOf(taken[q]).len <= fields[q].max
                    /\ thread'[q] = "header" =>
                         buf'[q] = [header |-> taken[q], payload |-> NoMessage]
               /\ ~Reading(q)' => buf'[q] = Received(q)
    <3>1. messages[slot[q]] = Whole(taken[q])
      BY <1>0, <2>4, <2>6 DEF ReceiverHolds
    <3>2. /\ messages[slot[q]].header = taken[q] /\ messages[slot[q]].payload = taken[q]
          /\ Fits(q) <=> CallOf(taken[q]).len <= fields[q].max
      BY <3>1 DEF Whole, Fits
    <3>3. CASE RecvAccept(q)
      <4>1. buf[q] = Empty
        BY <1>0, <2>2, <2>4, <2>6, <3>3 DEF ReceiverHolds
      <4> QED  BY <2>1, <2>2, <3>2, <3>3, <4>1 DEF Reading
    <3>4. CASE RecvTooLong(q)
      <4>1. buf[q] = Empty /\ ~Reading(q)'
        BY <1>0, <2>2, <2>4, <2>6, <3>4 DEF ReceiverHolds, Reading
      <4>2. ~(CallOf(taken[q]).len <= fields[q].max)
        BY <2>1, <3>2, <3>4
      <4> QED  BY <2>1, <3>4, <4>1, <4>2 DEF Received
    <3>5. CASE RecvHeader(q)
      <4>1. buf[q] = Empty /\ CallOf(taken[q]).len <= fields[q].max
        BY <1>0, <2>2, <2>4, <2>6, <3>5 DEF ReceiverHolds
      <4>2. buf'[q] = [header |-> taken[q], payload |-> NoMessage]
        BY <2>3, <3>2, <3>5, <4>1 DEF Empty
      <4> QED  BY <2>2, <3>5, <4>1, <4>2 DEF Reading
    <3>6. CASE RecvPayload(q)
      <4>1. buf[q] = [header |-> taken[q], payload |-> NoMessage]
            /\ CallOf(taken[q]).len <= fields[q].max
        BY <1>0, <2>2, <2>4, <2>6, <3>6 DEF ReceiverHolds
      <4>2. buf'[q] = Whole(taken[q]) /\ ~Reading(q)'
        BY <2>2, <2>3, <3>2, <3>6, <4>1 DEF Whole, Reading
      <4> QED  BY <4>1, <4>2 DEF Received
    <3> QED  BY <1>3, <3>3, <3>4, <3>5, <3>6
  <2>7. /\ thread'[q] \in {"accepted", "header", "returned"}
        /\ Reading(q)' <=> thread'[q] \in {"accepted", "header"}
    BY <1>3, <2>2 DEF Reading
  <2>8. ReceiverHolds(q)'
    <3>1. q \notin disturbed => Within(free, slot[q]) /\ messages[slot[q]] = Whole(taken[q])
      BY <1>0, <2>4 DEF ReceiverHolds
    <3>2. Received(q)' = Received(q)
      BY <1>1 DEF Received, CallOf
    <3> QED  BY <1>1, <2>4, <2>6, <2>7, <3>1, <3>2 DEF ReceiverHolds, Over, Within, CallOf
  <2> QED  BY <1>1, <2>2, <2>3, <2>5, <2>8, SlotsStay
<1> QED  BY <1>2, <1>3

\* OSMP_Send takes a slot off the free list; who still reads it is disturbed.
LEMMA SendPopKeepsSlots ==
  ASSUME RequestInv, SlotInv, NEW q \in Requests, SendPop(q), free # <<>>
  PROVE  SlotInv'
<1> DEFINE h == Head(free)
<1>1. /\ TypeOK /\ Advance(q, "placed", "writing")
      /\ slot' = [slot EXCEPT ![q] = h] /\ free' = Tail(free)
      /\ disturbed' = disturbed \cup {s \in Requests : Reading(s) /\ slot[s] = h}
      /\ UNCHANGED <<messages, ring, box, buf, taken, fields>>
  BY DEF SendPop, mailVars, RequestInv, Advance
<1>2. /\ thread[q] = "placed" /\ thread'[q] = "writing" /\ slot'[q] = h
      /\ \A s \in Requests : s # q => thread'[s] = thread[s] /\ slot'[s] = slot[s]
  BY <1>1, Advanced DEF TypeOK
<1>3. free \in Seq(Slots) /\ h \in Slots
  BY <1>1, SlotListTyped DEF TypeOK
<1>4. SlotsApart
  BY DEF SlotInv
<1>5. /\ Distinct(free') /\ ~Within(free', h)
      /\ \A s : Within(free, s) <=> Within(free', s) \/ s = h
  BY <1>1, <1>3, <1>4, TailWithin DEF SlotsApart
<1>6. Within(free, h)
  BY <1>5
<1> HIDE DEF h
<1>7. \A r \in Ranks : ~Within(ring[r], h)
  BY <1>3, <1>4, <1>6 DEF SlotsApart
<1>8. \A s \in Requests : Writing(s)' <=> Writing(s) \/ s = q
  BY <1>2 DEF Writing
<1>9. \A s \in Requests : Writing(s) => slot[s] # h /\ s # q
  BY <1>2, <1>4, <1>6 DEF SlotsApart, Writing
<1>10. \A s \in Requests : Writing(s)' =>
         /\ ~Within(free', slot'[s])
         /\ \A r \in Ranks : ~Within(ring[r], slot'[s])
         /\ \A u \in Requests \ {s} : Writing(u)' => slot'[u] # slot'[s]
  <2>1. ASSUME NEW s \in Requests, Writing(s)'
        PROVE  /\ ~Within(free', slot'[s])
               /\ \A r \in Ranks : ~Within(ring[r], slot'[s])
               /\ \A u \in Requests \ {s} : Writing(u)' => slot'[u] # slot'[s]
    <3>1. CASE s = q
      BY <1>2, <1>5, <1>7, <1>8, <1>9, <3>1
    <3>2. CASE s # q
      <4>1. Writing(s) /\ slot'[s] = slot[s]
        BY <1>2, <1>8, <2>1, <3>2
      <4>2. /\ ~Within(free, slot[s]) /\ \A r \in Ranks : ~Within(ring[r], slot[s])
            /\ \A u \in Requests \ {s} : Writing(u) => slot[u] # slot[s]
        BY <1>4, <4>1 DEF SlotsApart
      <4> QED  BY <1>2, <1>5, <1>8, <1>9, <4>1, <4>2
    <3> QED  BY <3>1, <3>2
  <2> QED  BY <2>1
<1>11. SlotsApart'
  <2>1. \A s \in Slots : \A r \in Ranks : Within(ring[r], s) =>
          ~Within(free', s) /\ \A o \in Ranks \ {r} : ~Within(ring[o], s)
    BY <1>4, <1>5 DEF SlotsApart
  <2>2. \A r \in Ranks : Distinct(ring[r])
    BY <1>4 DEF SlotsApart
  <2> QED  BY <1>1, <1>5, <1>10, <2>1, <2>2 DEF SlotsApart, Within, Distinct
<1>12. RingHolds'
  BY <1>1 DEF SlotInv, RingHolds
<1>13. ASSUME NEW s \in Requests
       PROVE  SenderHolds(s)' /\ ReceiverHolds(s)'
  <2>1. CASE s = q
    BY <1>1, <1>2, <2>1, InCall DEF SenderHolds, ReceiverHolds, Reading, Over, Sending
  <2>2. CASE s # q
    <3>1. SenderHolds(s) /\ ReceiverHolds(s) /\ (s \in disturbed => s \in disturbed')
      BY <1>1 DEF SlotInv
    <3>2. Reading(s) /\ s \notin disturbed' /\ Within(free, slot[s]) => Within(free', slot[s])
      BY <1>1, <1>5
    <3>3. /\ thread'[s] = thread[s] /\ fields'[s] = fields[s] /\ slot'[s] = slot[s]
          /\ taken'[s] = taken[s] /\ buf'[s] = buf[s]
          /\ messages'[slot[s]] = messages[slot[s]]
      BY <1>1, <1>2, <2>2
    <3> QED  BY <3>1, <3>2, <3>3, OtherHolds
  <2> QED  BY <2>1, <2>2
<1> QED  BY <1>11, <1>12, <1>13 DEF SlotInv

\* It writes a slot that no ring, no other sender and no undisturbed receive has.
LEMMA SendWriteKeepsSlots ==
  ASSUME RequestInv, SlotInv, NEW q \in Requests, SendHeader(q) \/ SendPayload(q)
  PROVE  SlotInv'
<1> DEFINE w == slot[q]
<1>1. /\ TypeOK /\ w \in Slots
      /\ UNCHANGED <<free, ring, slot, box, buf, taken, disturbed, fields>>
      /\ SendHeader(q) => Advance(q, "writing", "half")
      /\ SendPayload(q) => Advance(q, "half", "written")
  BY InCall DEF SendHeader, SendPayload, Advance, mailVars, readVars, RequestInv
<1>2. /\ SendHeader(q) => thread[q] = "writing" /\ thread'[q] = "half"
      /\ SendPayload(q) => thread[q] = "half" /\ thread'[q] = "written"
      /\ \A s \in Requests : s # q => thread'[s] = thread[s]
  BY <1>1, Advanced
<1>3. /\ messages' \in [Slots -> Contents]
      /\ \A s \in Slots : s # w => messages'[s] = messages[s]
      /\ SendHeader(q) => messages'[w].header = fields[q].id
      /\ SendPayload(q) => /\ messages'[w].header = messages[w].header
                           /\ messages'[w].payload = fields[q].id
  BY SendWriteKeeps
<1> HIDE DEF w
<1>4. Writing(q) /\ \A s \in Requests : Writing(s)' <=> Writing(s)
  BY <1>2 DEF Writing
<1>5. /\ ~Within(free, w) /\ \A r \in Ranks : ~Within(ring[r], w)
      /\ \A s \in Requests \ {q} : Writing(s) => slot[s] # w
  BY <1>4 DEF SlotInv, SlotsApart, w
<1>6. SlotsApart'
  BY <1>1, <1>4 DEF SlotInv, SlotsApart, Within, Distinct
<1>7. RingHolds'
  <2>1. ASSUME NEW r \in Ranks, NEW i \in DOMAIN ring[r]
        PROVE  messages'[ring[r][i]] = Whole(box[r][i])
    <3>1. ring[r][i] \in Slots /\ ring[r][i] # w
      BY <1>1, <1>5, AtWithin DEF TypeOK
    <3> QED  BY <1>3, <3>1 DEF SlotInv, RingHolds
  <2>2. \A r \in Ranks : Len(ring[r]) = Len(box[r])
    BY DEF SlotInv, RingHolds
  <2> QED  BY <1>1, <2>1, <2>2 DEF RingHolds, Whole
<1>8. ASSUME NEW s \in Requests
      PROVE  SenderHolds(s)' /\ ReceiverHolds(s)'
  <2>1. CASE s = q
    <3>1. thread'[q] = "written" => messages'[w] = Whole(fields[q].id)
      <4>1. ASSUME SendPayload(q) PROVE messages'[w] = Whole(fields[q].id)
        <5>1. messages[w].header = fields[q].id
          BY <1>2, <4>1 DEF SlotInv, SenderHolds, w
        <5>2. messages'[w] \in Contents
          BY <1>1, <1>3
        <5> QED  BY <1>3, <4>1, <5>1, <5>2, WholeContents
      <4> QED  BY <1>2, <4>1
    <3>2. thread'[q] = "half" => messages'[w].header = fields[q].id
      BY <1>2, <1>3
    <3>3. SenderHolds(q)'
      BY <1>1, <3>1, <3>2 DEF SenderHolds, Whole, w
    <3>4. ReceiverHolds(q)'
      BY <1>2 DEF ReceiverHolds, Reading, Receiving, Over
    <3> QED  BY <2>1, <3>3, <3>4
  <2>2. CASE s # q
    <3>1. SenderHolds(s) /\ ReceiverHolds(s) /\ slot[s] \in Slots
      BY InCall DEF SlotInv
    <3>2. Writing(s) => messages'[slot[s]] = messages[slot[s]]
      BY <1>3, <1>5, <2>2, <3>1
    <3>3. Reading(s) /\ s \notin disturbed => messages'[slot[s]] = messages[slot[s]]
      BY <1>3, <1>5, <3>1 DEF ReceiverHolds
    <3> QED  BY <1>1, <1>2, <2>2, <3>1, <3>2, <3>3, OtherHolds
  <2> QED  BY <2>1, <2>2
<1> QED  BY <1>6, <1>7, <1>8 DEF SlotInv

\* The slots of sequence s hold the messages of sequence t, in order.
Holding(g, s, t) ==
  Len(s) = Len(t) /\ \A i \in DOMAIN s : g[s[i]] = Whole(t[i])

\* The places of a sequence when an element is added at the end ...
LEMMA AppendAt ==
  ASSUME NEW S, NEW s \in Seq(S), NEW e \in S
  PROVE  /\ Len(s) \in Nat /\ DOMAIN s = 1 .. Len(s)
         /\ Len(Append(s, e)) = Len(s) + 1 /\ DOMAIN Append(s, e) = 1 .. Len(s) + 1
         /\ \A i \in 1 .. Len(s) : Append(s, e)[i] = s[i]
         /\ Append(s, e)[Len(s) + 1] = e
  OBVIOUS

\* ... and when its head is taken off.
LEMMA TailAt ==
  ASSUME NEW S, NEW s \in Seq(S), s # <<>>
  PROVE  /\ Len(s) \in Nat \ {0} /\ DOMAIN s = 1 .. Len(s) /\ Head(s) = s[1]
         /\ Len(Tail(s)) = Len(s) - 1 /\ DOMAIN Tail(s) = 1 .. Len(s) - 1
         /\ \A i \in 1 .. Len(s) - 1 : Tail(s)[i] = s[i + 1]
  OBVIOUS

\* The places of the longer sequence, and of the shorter one.
LEMMA PlacesOf ==
  ASSUME NEW n \in Nat
  PROVE  /\ \A i \in 1 .. n + 1 : i \in 1 .. n \/ i = n + 1
         /\ n # 0 => 1 \in 1 .. n
         /\ \A i \in 1 .. n - 1 : i + 1 \in 1 .. n
  OBVIOUS

\* Slots still hold their messages when a slot and its message are added at the
\* end ...
LEMMA HoldingAppend ==
  ASSUME NEW S, NEW T, NEW g, NEW s \in Seq(S), NEW t \in Seq(T), NEW e \in S, NEW m \in T,
         Holding(g, s, t), g[e] = Whole(m)
  PROVE  Holding(g, Append(s, e), Append(t, m))
<1> DEFINE a == Append(s, e)
           b == Append(t, m)
           n == Len(s)
<1>1. /\ n \in Nat /\ DOMAIN s = 1 .. n /\ Len(a) = n + 1 /\ DOMAIN a = 1 .. n + 1
      /\ a[n + 1] = e /\ \A i \in 1 .. n : a[i] = s[i]
  BY AppendAt
<1>2. n = Len(t) /\ \A i \in 1 .. n : g[s[i]] = Whole(t[i])
  BY <1>1 DEF Holding
<1>3. Len(b) = n + 1 /\ b[n + 1] = m /\ \A i \in 1 .. n : b[i] = t[i]
  <2>1. Len(b) = Len(t) + 1 /\ b[Len(t) + 1] = m /\ \A i \in 1 .. Len(t) : b[i] = t[i]
    BY AppendAt
  <2> HIDE DEF b, n
  <2> QED  BY <1>2, <2>1
<1> HIDE DEF a, b, n
<1>4. \A i \in 1 .. n + 1 : i \in 1 .. n \/ i = n + 1
  BY <1>1, PlacesOf
<1>5. \A i \in 1 .. n + 1 : g[a[i]] = Whole(b[i])
  BY <1>1, <1>2, <1>3, <1>4
<1>6. Holding(g, a, b)
  BY <1>1, <1>3, <1>5 DEF Holding
<1> QED  BY <1>6 DEF a, b

\* ... and when the first ones are taken off.
LEMMA HoldingTail ==
  ASSUME NEW S, NEW T, NEW g, NEW s \in Seq(S), NEW t \in Seq(T), s # <<>>,
         Holding(g, s, t), NEW h, h = Head(s), NEW m, m = Head(t)
  PROVE  Holding(g, Tail(s), Tail(t)) /\ g[h] = Whole(m)
<1> DEFINE a == Tail(s)
           b == Tail(t)
           n == Len(s)
<1>1. /\ n \in Nat /\ n # 0 /\ DOMAIN s = 1 .. n /\ Head(s) = s[1]
      /\ Len(a) = n - 1 /\ DOMAIN a = 1 .. n - 1 /\ \A i \in 1 .. n - 1 : a[i] = s[i + 1]
  BY TailAt
<1>2. n = Len(t) /\ \A i \in 1 .. n : g[s[i]] = Whole(t[i])
  BY <1>1 DEF Holding
<1>3. Len(b) = n - 1 /\ Head(t) = t[1] /\ \A i \in 1 .. n - 1 : b[i] = t[i + 1]
  <2>1. t # <<>>
    BY <1>1, <1>2
  <2>2. /\ Len(b) = Len(t) - 1 /\ Head(t) = t[1]
        /\ \A i \in 1 .. Len(t) - 1 : b[i] = t[i + 1]
    BY <2>1, TailAt
  <2> HIDE DEF b, n
  <2> QED  BY <1>2, <2>2
<1> HIDE DEF a, b, n
<1>4. 1 \in 1 .. n /\ \A i \in 1 .. n - 1 : i + 1 \in 1 .. n
  BY <1>1, PlacesOf
<1>5. \A i \in 1 .. n - 1 : g[a[i]] = Whole(b[i])
  BY <1>1, <1>2, <1>3, <1>4
<1>6. Holding(g, a, b)
  BY <1>1, <1>3, <1>5 DEF Holding
<1>7. g[h] = Whole(m)
  BY <1>1, <1>2, <1>3, <1>4
<1> QED  BY <1>6, <1>7 DEF a, b

\* It puts its slot into the ring.
LEMMA SendPublishKeepsSlots ==
  ASSUME RequestInv, SlotInv, NEW q \in Requests, SendPublish(q)
  PROVE  SlotInv'
<1>0. "written" \in Sending
  BY DEF Sending
<1> PICK w \in Slots : w = slot[q]
  BY InCall
<1>1. /\ TypeOK /\ Advance(q, "written", "returned") /\ fields[q].op = "isend"
      /\ fields[q].dest \in Ranks /\ fields[q].id \in Message
      /\ ring' = [ring EXCEPT ![fields[q].dest] = Append(@, w)]
      /\ box' = [box EXCEPT ![fields[q].dest] = Append(@, fields[q].id)]
      /\ UNCHANGED <<free, messages, slot, buf, taken, disturbed, fields>>
  BY <1>0, InCall DEF SendPublish, Advance, readVars, RequestInv
<1> PICK d \in Ranks : d = fields[q].dest
  BY <1>1
<1> PICK m \in Message : m = fields[q].id
  BY <1>1
<1>2. /\ thread[q] = "written" /\ thread'[q] = "returned"
      /\ \A s \in Requests : s # q => thread'[s] = thread[s]
  BY <1>1, Advanced
<1>3. /\ ring[d] \in Seq(Slots) /\ box[d] \in Seq(Message)
      /\ ring'[d] = Append(ring[d], w) /\ box'[d] = Append(box[d], m)
      /\ \A r \in Ranks : r # d => ring'[r] = ring[r] /\ box'[r] = box[r]
  BY <1>1 DEF TypeOK
<1>4. SlotsApart
  BY DEF SlotInv
<1>5. /\ ~Within(free, w) /\ \A r \in Ranks : ~Within(ring[r], w)
      /\ \A s \in Requests \ {q} : Writing(s) => slot[s] # w
  BY <1>2, <1>4 DEF SlotsApart, Writing
<1>6. /\ Distinct(ring'[d]) /\ \A s : Within(ring'[d], s) <=> Within(ring[d], s) \/ s = w
  BY <1>3, <1>4, <1>5, AppendWithin DEF SlotsApart
<1>7. \A s \in Requests : Writing(s)' <=> Writing(s) /\ s # q
  BY <1>2 DEF Writing
<1>8. SlotsApart'
  <2>1. ASSUME NEW s \in Slots, NEW r \in Ranks, Within(ring'[r], s)
        PROVE  ~Within(free, s) /\ \A o \in Ranks \ {r} : ~Within(ring'[o], s)
    <3>1. CASE s = w
      <4>1. r = d
        BY <1>3, <1>5, <2>1, <3>1
      <4> QED  BY <1>3, <1>5, <3>1, <4>1
    <3>2. CASE s # w
      <4>1. \A o \in Ranks : Within(ring'[o], s) <=> Within(ring[o], s)
        BY <1>3, <1>6, <3>2
      <4> QED  BY <1>4, <2>1, <4>1 DEF SlotsApart
    <3> QED  BY <3>1, <3>2
  <2>2. ASSUME NEW s \in Requests, Writing(s)'
        PROVE  /\ ~Within(free, slot[s]) /\ \A r \in Ranks : ~Within(ring'[r], slot[s])
               /\ \A u \in Requests \ {s} : Writing(u)' => slot[u] # slot[s]
    <3>1. Writing(s) /\ slot[s] # w
      BY <1>5, <1>7, <2>2
    <3>2. /\ ~Within(free, slot[s]) /\ \A r \in Ranks : ~Within(ring[r], slot[s])
          /\ \A u \in Requests \ {s} : Writing(u) => slot[u] # slot[s]
      BY <1>4, <3>1 DEF SlotsApart
    <3>3. \A r \in Ranks : ~Within(ring'[r], slot[s])
      BY <1>3, <1>6, <3>1, <3>2
    <3> QED  BY <1>7, <3>2, <3>3
  <2>3. \A r \in Ranks : Distinct(ring'[r])
    BY <1>3, <1>4, <1>6 DEF SlotsApart
  <2> QED  BY <1>1, <1>4, <2>1, <2>2, <2>3 DEF SlotsApart, Within, Distinct
<1>9. RingHolds'
  <2>1. messages[w] = Whole(m)
    BY <1>2 DEF SlotInv, SenderHolds
  <2>2. \A r \in Ranks : Holding(messages, ring[r], box[r])
    BY DEF SlotInv, RingHolds, Holding
  <2>3. Holding(messages, ring'[d], box'[d])
    BY <1>3, <2>1, <2>2, HoldingAppend
  <2>4. \A r \in Ranks : Holding(messages, ring'[r], box'[r])
    BY <1>3, <2>2, <2>3
  <2> QED  BY <1>1, <2>4 DEF RingHolds, Holding, Whole
<1>10. ASSUME NEW s \in Requests
       PROVE  SenderHolds(s)' /\ ReceiverHolds(s)'
  <2>1. CASE s = q
    BY <1>1, <1>2, <2>1 DEF SenderHolds, ReceiverHolds, Reading
  <2>2. CASE s # q
    <3>1. SenderHolds(s) /\ ReceiverHolds(s)
      BY DEF SlotInv
    <3> QED  BY <1>1, <1>2, <2>2, <3>1, OtherHolds
  <2> QED  BY <2>1, <2>2
<1> QED  BY <1>8, <1>9, <1>10 DEF SlotInv

\* OSMP_Recv moves a slot from its ring to the free list, where it keeps the
\* message until a sender gets it.
LEMMA RecvTakeKeepsSlots ==
  ASSUME RequestInv, SlotInv, NEW q \in Requests, RecvTake(q)
  PROVE  SlotInv'
<1> PICK o \in Ranks : o = Owner[q]
  OBVIOUS
<1> PICK h \in Slots : h = Head(ring[o])
  BY RecvTakeKeeps
<1> PICK m \in Message : m = Head(box[o])
  BY RecvTakeKeeps
<1>1. /\ TypeOK /\ Advance(q, "calling", "taken")
      /\ fields[q].op = "irecv" /\ ring[o] # <<>> /\ box[o] # <<>>
      /\ ring' = [ring EXCEPT ![o] = Tail(@)]
      /\ slot' = [slot EXCEPT ![q] = h]
      /\ free' = <<h>> \o free
      /\ box' = [box EXCEPT ![o] = Tail(@)]
      /\ taken' = [taken EXCEPT ![q] = m]
      /\ UNCHANGED <<messages, buf, disturbed, fields>>
  BY DEF RecvTake, RequestInv, Advance, Mailbox!Take
<1>2. /\ thread[q] = "calling" /\ thread'[q] = "taken" /\ slot'[q] = h /\ taken'[q] = m
      /\ \A s \in Requests : s # q =>
           thread'[s] = thread[s] /\ slot'[s] = slot[s] /\ taken'[s] = taken[s]
  <2>1. /\ thread[q] = "calling" /\ thread'[q] = "taken"
        /\ \A s \in Requests : s # q => thread'[s] = thread[s]
    BY <1>1, Advanced
  <2>2. slot'[q] = h /\ \A s \in Requests : s # q => slot'[s] = slot[s]
    BY <1>1 DEF TypeOK
  <2>3. taken'[q] = m /\ \A s \in Requests : s # q => taken'[s] = taken[s]
    BY <1>1 DEF TypeOK
  <2> QED  BY <2>1, <2>2, <2>3
<1>3. /\ ring[o] \in Seq(Slots) /\ box[o] \in Seq(Message) /\ free \in Seq(Slots)
      /\ ring'[o] = Tail(ring[o]) /\ box'[o] = Tail(box[o])
      /\ \A r \in Ranks : r # o => ring'[r] = ring[r] /\ box'[r] = box[r]
  BY <1>1 DEF TypeOK
<1>4. SlotsApart /\ Distinct(free) /\ Distinct(ring[o])
  BY DEF SlotInv, SlotsApart
<1>5. /\ Distinct(ring'[o]) /\ ~Within(ring'[o], h)
      /\ \A s : Within(ring[o], s) <=> Within(ring'[o], s) \/ s = h
  BY <1>1, <1>3, <1>4, TailWithin
<1>6. ~Within(free, h) /\ \A r \in Ranks \ {o} : ~Within(ring[r], h)
  BY <1>4, <1>5 DEF SlotsApart
<1>7. /\ Distinct(free') /\ \A s : Within(free', s) <=> Within(free, s) \/ s = h
  BY <1>1, <1>3, <1>4, <1>6, PrependWithin
<1>8. \A s \in Requests : Writing(s)' <=> Writing(s) /\ s # q
  BY <1>2 DEF Writing
<1>9. SlotsApart'
  <2>1. ASSUME NEW s \in Slots, NEW r \in Ranks, Within(ring'[r], s)
        PROVE  ~Within(free', s) /\ \A u \in Ranks \ {r} : ~Within(ring'[u], s)
    <3>1. s # h /\ \A u \in Ranks : Within(ring'[u], s) => Within(ring[u], s)
      BY <1>3, <1>5, <1>6, <2>1
    <3> QED  BY <1>4, <1>7, <2>1, <3>1 DEF SlotsApart
  <2>2. ASSUME NEW s \in Requests, Writing(s)'
        PROVE  /\ ~Within(free', slot'[s]) /\ \A r \in Ranks : ~Within(ring'[r], slot'[s])
               /\ \A u \in Requests \ {s} : Writing(u)' => slot'[u] # slot'[s]
    <3>1. Writing(s) /\ slot'[s] = slot[s]
      BY <1>2, <1>8, <2>2
    <3>2. /\ ~Within(free, slot[s]) /\ \A r \in Ranks : ~Within(ring[r], slot[s])
          /\ \A u \in Requests \ {s} : Writing(u) => slot[u] # slot[s]
      BY <1>4, <3>1 DEF SlotsApart
    <3>3. slot[s] # h
      BY <1>5, <3>2
    <3>4. \A r \in Ranks : ~Within(ring'[r], slot[s])
      BY <1>3, <1>5, <3>2
    <3> QED  BY <1>2, <1>7, <1>8, <3>1, <3>2, <3>3, <3>4
  <2>3. \A r \in Ranks : Distinct(ring'[r])
    BY <1>3, <1>4, <1>5 DEF SlotsApart
  <2> QED  BY <1>7, <2>1, <2>2, <2>3 DEF SlotsApart, Within, Distinct
<1>10. \A r \in Ranks : Holding(messages, ring[r], box[r])
  BY DEF SlotInv, RingHolds, Holding
<1>11. Holding(messages, ring'[o], box'[o]) /\ messages[h] = Whole(m)
  <2>1. Holding(messages, ring[o], box[o])
    BY <1>10
  <2>2. Holding(messages, Tail(ring[o]), Tail(box[o])) /\ messages[h] = Whole(m)
    BY <1>1, <1>3, <2>1, HoldingTail
  <2> QED  BY <1>3, <2>2
<1>12. RingHolds'
  <2>1. \A r \in Ranks : Holding(messages, ring'[r], box'[r])
    BY <1>3, <1>10, <1>11
  <2> QED  BY <1>1, <2>1 DEF RingHolds, Holding, Whole
<1>13. ASSUME NEW s \in Requests
       PROVE  SenderHolds(s)' /\ ReceiverHolds(s)'
  <2>1. CASE s = q
    <3>1. messages[h] = Whole(m)
      BY <1>11
    <3>2. Within(free', h) /\ m # NoMessage
      BY <1>7, MessageParts
    <3>3. buf[q] = Empty
      BY <1>2 DEF SlotInv, ReceiverHolds
    <3>4. messages'[slot'[q]] = Whole(taken'[q]) /\ Within(free', slot'[q])
      BY <1>1, <1>2, <3>1, <3>2
    <3> QED  BY <1>1, <1>2, <2>1, <3>2, <3>3, <3>4
             DEF SenderHolds, ReceiverHolds, Reading, Over, Within, Whole
  <2>2. CASE s # q
    <3>1. SenderHolds(s) /\ ReceiverHolds(s)
      BY DEF SlotInv
    <3>2. Within(free, slot[s]) => Within(free', slot[s])
      BY <1>7
    <3> QED  BY <1>1, <1>2, <2>2, <3>1, <3>2, OtherHolds
  <2> QED  BY <2>1, <2>2
<1> QED  BY <1>9, <1>12, <1>13 DEF SlotInv

-----------------------------------------------------------------------------
(* Permits.                                                                *)

One(q, S) == IF q \in S THEN 1 ELSE 0

\* A set of requests, counted without q.
LEMMA CountOthers ==
  ASSUME NEW S \in SUBSET Requests, NEW q \in Requests
  PROVE  /\ Cardinality(S \ {q}) \in Nat
         /\ Cardinality(S) = Cardinality(S \ {q}) + One(q, S)
<1>1. IsFiniteSet(S) /\ IsFiniteSet(S \ {q})
  BY FS_Subset
<1>2. Cardinality(S \ {q}) \in Nat /\ Cardinality(S) \in Nat
  BY <1>1, FS_CardinalityType
<1>3. Cardinality(S \ {q}) = IF q \in S THEN Cardinality(S) - 1 ELSE Cardinality(S)
  BY <1>1, FS_RemoveElement
<1> QED  BY <1>2, <1>3 DEF One

\* Permits a and places taken b, with n + k requests that keep one.
LEMMA Balance ==
  ASSUME NEW a \in Nat, NEW b \in Nat, NEW k \in Nat, NEW n \in Nat, NEW m \in Nat,
         NEW a1 \in Nat, NEW b1 \in Nat, NEW k1 \in Nat, NEW c, NEW c1,
         c = n + k, c1 = n + k1, a + b + c <= m, a1 + b1 + k1 <= a + b + k
  PROVE  a1 + b1 + c1 <= m
  OBVIOUS

\* A step of one request keeps the permits covered if it gives out no more of
\* them than it gives back, for slots and for the places of each ring.
LEMMA PermitsMove ==
  ASSUME TypeOK, TypeOK', PermitsCovered, NEW q \in Requests,
         \A s \in Requests : s # q => thread'[s] = thread[s] /\ fields'[s] = fields[s],
         free_slots' + One(q, Readers') + Len(free) <= free_slots + One(q, Readers) + Len(free'),
         \A r \in Ranks : proc_free'[r] + Len(ring'[r]) + One(q, Keeping(r)')
                            <= proc_free[r] + Len(ring[r]) + One(q, Keeping(r))
  PROVE  PermitsCovered'
<1>1. Readers' \ {q} = Readers \ {q}
  BY DEF Readers, Reading
<1>2. \A r \in Ranks : Keeping(r)' \ {q} = Keeping(r) \ {q}
  BY DEF Keeping, Reading
<1>3. One(q, Readers') \in Nat /\ One(q, Readers) \in Nat
      /\ \A r \in Ranks : One(q, Keeping(r)') \in Nat /\ One(q, Keeping(r)) \in Nat
  BY DEF One
<1>4. /\ free_slots \in Nat /\ free_slots' \in Nat
      /\ Len(free) \in Nat /\ Len(free') \in Nat
      /\ \A r \in Ranks : /\ proc_free[r] \in Nat /\ proc_free'[r] \in Nat
                          /\ Len(ring[r]) \in Nat /\ Len(ring'[r]) \in Nat
  <2>1. free_slots \in Nat /\ free_slots' \in Nat
        /\ \A r \in Ranks : proc_free[r] \in Nat /\ proc_free'[r] \in Nat
    BY DEF TypeOK
  <2>2. free \in Seq(Slots) /\ free' \in Seq(Slots)
        /\ \A r \in Ranks : ring[r] \in Seq(Slots) /\ ring'[r] \in Seq(Slots)
    BY DEF TypeOK
  <2>3. \A s \in Seq(Slots) : Len(s) \in Nat
    OBVIOUS
  <2> QED  BY <2>1, <2>2, <2>3
<1>5. free_slots' + Cardinality(Readers') <= Len(free')
  <2>1. /\ Cardinality(Readers \ {q}) \in Nat
        /\ Cardinality(Readers) = Cardinality(Readers \ {q}) + One(q, Readers)
    <3>1. Readers \in SUBSET Requests
      BY DEF Readers
    <3> QED  BY <3>1, CountOthers
  <2>2. Cardinality(Readers') = Cardinality(Readers \ {q}) + One(q, Readers')
    <3>1. Readers' \in SUBSET Requests
      BY DEF Readers
    <3> QED  BY <1>1, <3>1, CountOthers
  <2>3. free_slots + Cardinality(Readers) <= Len(free)
    BY DEF PermitsCovered
  <2> QED  BY <1>3, <1>4, <2>1, <2>2, <2>3
<1>6. ASSUME NEW r \in Ranks
      PROVE  proc_free'[r] + Len(ring'[r]) + Cardinality(Keeping(r)') <= Capacity
  <2>1. /\ Cardinality(Keeping(r) \ {q}) \in Nat
        /\ Cardinality(Keeping(r)) = Cardinality(Keeping(r) \ {q}) + One(q, Keeping(r))
    <3>1. Keeping(r) \in SUBSET Requests
      BY DEF Keeping
    <3> QED  BY <3>1, CountOthers
  <2>2. Cardinality(Keeping(r)') = Cardinality(Keeping(r) \ {q}) + One(q, Keeping(r)')
    <3>1. Keeping(r)' \in SUBSET Requests
      BY DEF Keeping
    <3> QED  BY <1>2, <3>1, CountOthers
  <2>3. proc_free[r] + Len(ring[r]) + Cardinality(Keeping(r)) <= Capacity
    BY DEF PermitsCovered
  <2>4. proc_free'[r] + Len(ring'[r]) + One(q, Keeping(r)')
          <= proc_free[r] + Len(ring[r]) + One(q, Keeping(r))
    OBVIOUS
  <2>5. /\ One(q, Keeping(r)') \in Nat /\ One(q, Keeping(r)) \in Nat
        /\ proc_free[r] \in Nat /\ proc_free'[r] \in Nat
        /\ Len(ring[r]) \in Nat /\ Len(ring'[r]) \in Nat /\ Capacity \in Nat
    BY <1>3, <1>4
  <2> DEFINE a1 == proc_free'[r]
             b1 == Len(ring'[r])
             k1 == One(q, Keeping(r)')
             c1 == Cardinality(Keeping(r)')
             a == proc_free[r]
             b == Len(ring[r])
             k == One(q, Keeping(r))
             n == Cardinality(Keeping(r) \ {q})
             c == Cardinality(Keeping(r))
  <2>6. /\ a \in Nat /\ b \in Nat /\ k \in Nat
        /\ a1 \in Nat /\ b1 \in Nat /\ k1 \in Nat /\ n \in Nat /\ Capacity \in Nat
    BY <2>1, <2>5
  <2>7. c = n + k /\ c1 = n + k1
    BY <2>1, <2>2
  <2>8. a + b + c <= Capacity
    BY <2>3
  <2>9. a1 + b1 + k1 <= a + b + k
    BY <2>4
  <2> HIDE DEF a1, b1, k1, c1, a, b, k, n, c
  <2>10. a1 + b1 + c1 <= Capacity
    BY <2>6, <2>7, <2>8, <2>9, Balance
  <2> QED  BY <2>10 DEF a1, b1, c1
<1> QED  BY <1>5, <1>6 DEF PermitsCovered

\* Who reads, and who keeps a place of r's ring.
LEMMA Members ==
  ASSUME NEW q \in Requests
  PROVE  /\ q \in Readers <=> Reading(q)
         /\ q \in Readers' <=> Reading(q)'
         /\ \A r : q \in Keeping(r) <=> \/ thread[q] \in Sending /\ fields[q].dest = r
                                        \/ Reading(q) /\ Owner[q] = r
         /\ \A r : q \in Keeping(r)' <=> \/ thread'[q] \in Sending /\ fields'[q].dest = r
                                         \/ Reading(q)' /\ Owner[q] = r
         /\ \A S : /\ One(q, S) \in Nat
                   /\ q \in S => One(q, S) = 1
                   /\ q \notin S => One(q, S) = 0
  BY DEF Readers, Keeping, One, Reading

\* A step that moves no permit and after which its request keeps no more.
LEMMA QuietPermits ==
  ASSUME TypeOK, TypeOK', PermitsCovered, NEW q \in Requests,
         \A s \in Requests : s # q => thread'[s] = thread[s] /\ fields'[s] = fields[s],
         UNCHANGED <<free_slots, proc_free, free, ring>>,
         Reading(q)' => Reading(q),
         \A r \in Ranks : q \in Keeping(r)' => q \in Keeping(r)
  PROVE  PermitsCovered'
<1> PICK f \in Nat : f = free_slots
  BY DEF TypeOK
<1> PICK l \in Nat : l = Len(free)
  <2>1. free \in Seq(Slots)
    BY DEF TypeOK
  <2> QED  BY <2>1
<1>1. One(q, Readers') <= One(q, Readers)
  BY Members
<1>2. f + One(q, Readers') + l <= f + One(q, Readers) + l
  BY <1>1, Members
<1>3. ASSUME NEW r \in Ranks
      PROVE  proc_free[r] + Len(ring[r]) + One(q, Keeping(r)')
               <= proc_free[r] + Len(ring[r]) + One(q, Keeping(r))
  <2> PICK a \in Nat : a = proc_free[r]
    BY DEF TypeOK
  <2> PICK b \in Nat : b = Len(ring[r])
    <3>1. ring[r] \in Seq(Slots)
      BY DEF TypeOK
    <3> QED  BY <3>1
  <2>1. One(q, Keeping(r)') <= One(q, Keeping(r))
    <3>1. q \in Keeping(r)' => q \in Keeping(r)
      OBVIOUS
    <3> QED  BY <3>1 DEF One
  <2> QED  BY <2>1, Members
<1> QED  BY <1>2, <1>3, PermitsMove

\* The calls of a process, and the first and last step of a thread.
LEMMA CallsKeepPermits ==
  ASSUME RequestInv, TypeOK', PermitsCovered,
         \/ \E p \in Ranks : Main(p)
         \/ \E q \in Requests : Test(q) \/ Mark(q) \/ Finish(q)
  PROVE  PermitsCovered'
<1>0. TypeOK
  BY DEF RequestInv
<1>1. ASSUME NEW p \in Ranks, CreateRequest(p) \/ RemoveRequest(p) \/ Wait(p)
      PROVE  PermitsCovered'
  <2>1. UNCHANGED <<free_slots, proc_free, free, ring, thread, fields>>
    BY <1>1 DEF CreateRequest, RemoveRequest, Wait, shmVars, requestVars
  <2> QED  BY <2>1 DEF PermitsCovered, Readers, Keeping, Reading
<1>2. ASSUME NEW q \in Requests, Test(q)
      PROVE  PermitsCovered'
  BY <1>2 DEF Test, shmVars, PermitsCovered, Readers, Keeping, Reading
<1>3. ASSUME NEW p \in Ranks, Isend(p) \/ Irecv(p)
      PROVE  PermitsCovered'
  <2>1. PICK q \in Requests : q = Call(p).req
    BY <1>0, <1>3, CallTyped DEF Isend, Irecv
  <2>2. PICK o : Start(p, o)
    BY <1>3 DEF Isend, Irecv
  <2>3. /\ UNCHANGED <<free_slots, proc_free, free, ring>>
        /\ fields' = [fields EXCEPT ![q] = o] /\ thread' = [thread EXCEPT ![q] = "created"]
    BY <2>1, <2>2 DEF Start, shmVars
  <2>4. /\ thread'[q] = "created"
        /\ \A s \in Requests : s # q => thread'[s] = thread[s] /\ fields'[s] = fields[s]
    BY <1>0, <2>3 DEF TypeOK
  <2>5. ~Reading(q)' /\ thread'[q] \notin Sending
    BY <2>4 DEF Reading, Sending
  <2> QED  BY <1>0, <2>3, <2>4, <2>5, Members, QuietPermits
<1>4. ASSUME NEW q \in Requests, Mark(q) \/ Finish(q)
      PROVE  PermitsCovered'
  <2>1. /\ UNCHANGED <<free_slots, proc_free, free, ring, fields>>
        /\ Advance(q, "created", "calling") \/ Advance(q, "returned", "ended")
    BY <1>4 DEF Mark, Finish, Advance, shmVars
  <2>2. /\ thread'[q] \in {"calling", "ended"}
        /\ \A s \in Requests : s # q => thread'[s] = thread[s]
    BY <1>0, <2>1, Advanced
  <2>3. ~Reading(q)' /\ thread'[q] \notin Sending
    BY <2>2 DEF Reading, Sending
  <2> QED  BY <1>0, <2>1, <2>2, <2>3, Members, QuietPermits
<1> QED  BY <1>1, <1>2, <1>3, <1>4 DEF Main

\* The steps of OSMP_Send and OSMP_Recv that neither take nor post a permit.
LEMMA MovesKeepPermits ==
  ASSUME RequestInv, TypeOK', PermitsCovered, NEW q \in Requests,
         \/ SendRejected(q) \/ SendHeader(q) \/ SendPayload(q)
         \/ RecvAccept(q) \/ RecvTooLong(q) \/ RecvHeader(q)
  PROVE  PermitsCovered'
<1>0. TypeOK
  BY DEF RequestInv
<1>1. /\ UNCHANGED <<free_slots, proc_free, free, ring, fields>>
      /\ \/ Advance(q, "calling", "returned") \/ Advance(q, "taken", "returned")
         \/ Advance(q, "writing", "half") \/ Advance(q, "half", "written")
         \/ Advance(q, "taken", "accepted") \/ Advance(q, "accepted", "header")
  BY DEF SendRejected, SendHeader, SendPayload, RecvAccept, RecvTooLong, RecvHeader,
         Advance, shmVars
<1>2. /\ \/ thread'[q] = "returned"
         \/ thread[q] \in {"writing", "half"} /\ thread'[q] \in {"half", "written"}
         \/ thread[q] \in {"taken", "accepted"} /\ thread'[q] \in {"accepted", "header"}
      /\ \A s \in Requests : s # q => thread'[s] = thread[s]
  BY <1>0, <1>1, Advanced
<1>3. /\ Reading(q)' => Reading(q)
      /\ thread'[q] \in Sending => thread[q] \in Sending
  BY <1>2 DEF Reading, Sending
<1> QED  BY <1>0, <1>1, <1>2, <1>3, Members, QuietPermits

\* OSMP_Send takes a permit for a place, which its request keeps from then on ...
LEMMA SendReserveKeepsPermits ==
  ASSUME RequestInv, TypeOK', PermitsCovered, NEW q \in Requests, SendReserve(q)
  PROVE  PermitsCovered'
<1> PICK d \in Ranks : d = fields[q].dest
  BY DEF SendReserve, Accepted, Deliverable
<1>1. /\ TypeOK /\ Advance(q, "calling", "placed") /\ fields[q].op = "isend"
      /\ proc_free[d] > 0 /\ proc_free' = [proc_free EXCEPT ![d] = @ - 1]
      /\ UNCHANGED <<free_slots, free, ring, fields>>
  BY DEF SendReserve, RequestInv, Advance
<1>2. /\ thread[q] = "calling" /\ thread'[q] = "placed"
      /\ \A s \in Requests : s # q => thread'[s] = thread[s]
  BY <1>1, Advanced
<1>3. /\ ~Reading(q) /\ ~Reading(q)'
      /\ thread[q] \notin Sending /\ thread'[q] \in Sending
  BY <1>2 DEF Reading, Sending
<1>4. /\ One(q, Readers') = 0 /\ One(q, Readers) = 0
      /\ \A r \in Ranks : One(q, Keeping(r)) = 0
      /\ \A r \in Ranks : One(q, Keeping(r)') = IF r = d THEN 1 ELSE 0
  BY <1>1, <1>3, Members
<1>5. free_slots' + One(q, Readers') + Len(free) <= free_slots + One(q, Readers) + Len(free')
  <2> PICK f \in Nat : f = free_slots
    BY <1>1 DEF TypeOK
  <2> PICK l \in Nat : l = Len(free)
    <3>1. free \in Seq(Slots)
      BY <1>1 DEF TypeOK
    <3> QED  BY <3>1
  <2> QED  BY <1>1, <1>4
<1>6. ASSUME NEW r \in Ranks
      PROVE  proc_free'[r] + Len(ring'[r]) + One(q, Keeping(r)')
               <= proc_free[r] + Len(ring[r]) + One(q, Keeping(r))
  <2> PICK a \in Nat : a = proc_free[r]
    BY <1>1 DEF TypeOK
  <2> PICK b \in Nat : b = Len(ring[r]) /\ b = Len(ring'[r])
    <3>1. ring[r] \in Seq(Slots) /\ ring' = ring
      BY <1>1 DEF TypeOK
    <3> QED  BY <3>1
  <2>1. proc_free'[r] = IF r = d THEN a - 1 ELSE a
    BY <1>1 DEF TypeOK
  <2> QED  BY <1>4, <2>1
<1> QED  BY <1>1, <1>2, <1>5, <1>6, PermitsMove

\* ... and one for a slot, which it takes.
LEMMA SendPopKeepsPermits ==
  ASSUME RequestInv, TypeOK', PermitsCovered, NEW q \in Requests, SendPop(q), free # <<>>
  PROVE  PermitsCovered'
<1>1. /\ TypeOK /\ Advance(q, "placed", "writing")
      /\ free_slots > 0 /\ free_slots' = free_slots - 1 /\ free' = Tail(free)
      /\ UNCHANGED <<proc_free, ring, fields>>
  BY DEF SendPop, RequestInv, Advance
<1>2. /\ thread[q] = "placed" /\ thread'[q] = "writing"
      /\ \A s \in Requests : s # q => thread'[s] = thread[s]
  BY <1>1, Advanced
<1>3. /\ ~Reading(q) /\ ~Reading(q)'
      /\ thread[q] \in Sending /\ thread'[q] \in Sending
  BY <1>2 DEF Reading, Sending
<1>4. /\ One(q, Readers') = 0 /\ One(q, Readers) = 0
      /\ \A r \in Ranks : One(q, Keeping(r)') = One(q, Keeping(r))
  <2>1. \A r \in Ranks : q \in Keeping(r)' <=> q \in Keeping(r)
    BY <1>1, <1>3, Members
  <2> QED  BY <1>3, <2>1, Members
<1>5. free_slots' + One(q, Readers') + Len(free) <= free_slots + One(q, Readers) + Len(free')
  <2> PICK f \in Nat : f = free_slots
    BY <1>1 DEF TypeOK
  <2> PICK l \in Nat : l = Len(free) /\ Len(free') = l - 1
    <3>1. free \in Seq(Slots)
      BY <1>1 DEF TypeOK
    <3> QED  BY <1>1, <3>1, SlotListTyped
  <2> QED  BY <1>1, <1>4
<1>6. ASSUME NEW r \in Ranks
      PROVE  proc_free'[r] + Len(ring'[r]) + One(q, Keeping(r)')
               <= proc_free[r] + Len(ring[r]) + One(q, Keeping(r))
  <2> PICK a \in Nat : a = proc_free[r] /\ a = proc_free'[r]
    BY <1>1 DEF TypeOK
  <2> PICK b \in Nat : b = Len(ring[r]) /\ b = Len(ring'[r])
    <3>1. ring[r] \in Seq(Slots) /\ ring' = ring
      BY <1>1 DEF TypeOK
    <3> QED  BY <3>1
  <2> PICK k \in Nat : k = One(q, Keeping(r)) /\ k = One(q, Keeping(r)')
    BY <1>4, Members
  <2> QED  OBVIOUS
<1> QED  BY <1>1, <1>2, <1>5, <1>6, PermitsMove

\* With the message, the place goes from the sender to the ring.
LEMMA SendPublishKeepsPermits ==
  ASSUME RequestInv, TypeOK', PermitsCovered, NEW q \in Requests, SendPublish(q)
  PROVE  PermitsCovered'
<1>0. "written" \in Sending
  BY DEF Sending
<1> PICK d \in Ranks : d = fields[q].dest
  BY <1>0, InCall DEF SendPublish, Advance
<1>1. /\ TypeOK /\ Advance(q, "written", "returned")
      /\ ring' = [ring EXCEPT ![d] = Append(@, slot[q])]
      /\ UNCHANGED <<free_slots, proc_free, free, fields>>
  BY DEF SendPublish, RequestInv, Advance
<1>2. /\ thread[q] = "written" /\ thread'[q] = "returned"
      /\ \A s \in Requests : s # q => thread'[s] = thread[s]
  BY <1>1, Advanced
<1>3. /\ ~Reading(q) /\ ~Reading(q)'
      /\ thread[q] \in Sending /\ thread'[q] \notin Sending
  BY <1>2 DEF Reading, Sending
<1>4. /\ One(q, Readers') = 0 /\ One(q, Readers) = 0
      /\ \A r \in Ranks : One(q, Keeping(r)') = 0
      /\ \A r \in Ranks : One(q, Keeping(r)) = IF r = d THEN 1 ELSE 0
  BY <1>1, <1>3, Members
<1>5. free_slots' + One(q, Readers') + Len(free) <= free_slots + One(q, Readers) + Len(free')
  <2> PICK f \in Nat : f = free_slots
    BY <1>1 DEF TypeOK
  <2> PICK l \in Nat : l = Len(free)
    <3>1. free \in Seq(Slots)
      BY <1>1 DEF TypeOK
    <3> QED  BY <3>1
  <2> QED  BY <1>1, <1>4
<1>6. ASSUME NEW r \in Ranks
      PROVE  proc_free'[r] + Len(ring'[r]) + One(q, Keeping(r)')
               <= proc_free[r] + Len(ring[r]) + One(q, Keeping(r))
  <2> PICK a \in Nat : a = proc_free[r] /\ a = proc_free'[r]
    BY <1>1 DEF TypeOK
  <2> PICK b \in Nat : b = Len(ring[r]) /\ Len(ring'[r]) = IF r = d THEN b + 1 ELSE b
    <3>1. ring[r] \in Seq(Slots) /\ slot[q] \in Slots
          /\ ring'[r] = IF r = d THEN Append(ring[r], slot[q]) ELSE ring[r]
      BY <1>1 DEF TypeOK
    <3>2. Len(ring[r]) \in Nat /\ Len(Append(ring[r], slot[q])) = Len(ring[r]) + 1
      BY <3>1, AppendAt
    <3> QED  BY <3>1, <3>2
  <2> QED  BY <1>4
<1> QED  BY <1>1, <1>2, <1>5, <1>6, PermitsMove

\* OSMP_Recv keeps both permits from here ...
LEMMA RecvTakeKeepsPermits ==
  ASSUME RequestInv, TypeOK', PermitsCovered, NEW q \in Requests, RecvTake(q)
  PROVE  PermitsCovered'
<1> PICK o \in Ranks : o = Owner[q]
  OBVIOUS
<1> PICK h \in Slots : h = Head(ring[o])
  BY RecvTakeKeeps
<1>1. /\ TypeOK /\ Advance(q, "calling", "taken") /\ ring[o] # <<>>
      /\ ring' = [ring EXCEPT ![o] = Tail(@)] /\ free' = <<h>> \o free
      /\ UNCHANGED <<free_slots, proc_free, fields>>
  BY DEF RecvTake, RequestInv, Advance
<1>2. /\ thread[q] = "calling" /\ thread'[q] = "taken"
      /\ \A s \in Requests : s # q => thread'[s] = thread[s]
  BY <1>1, Advanced
<1>3. /\ ~Reading(q) /\ Reading(q)'
      /\ thread[q] \notin Sending /\ thread'[q] \notin Sending
  BY <1>2 DEF Reading, Sending
<1>4. /\ One(q, Readers') = 1 /\ One(q, Readers) = 0
      /\ \A r \in Ranks : One(q, Keeping(r)) = 0
      /\ \A r \in Ranks : One(q, Keeping(r)') = IF r = o THEN 1 ELSE 0
  BY <1>1, <1>3, Members
<1>5. free_slots' + One(q, Readers') + Len(free) <= free_slots + One(q, Readers) + Len(free')
  <2> PICK f \in Nat : f = free_slots
    BY <1>1 DEF TypeOK
  <2> PICK l \in Nat : l = Len(free) /\ Len(free') = l + 1
    <3>1. free \in Seq(Slots)
      BY <1>1 DEF TypeOK
    <3> QED  BY <1>1, <3>1, SlotListTyped
  <2> QED  BY <1>1, <1>4
<1>6. ASSUME NEW r \in Ranks
      PROVE  proc_free'[r] + Len(ring'[r]) + One(q, Keeping(r)')
               <= proc_free[r] + Len(ring[r]) + One(q, Keeping(r))
  <2> PICK a \in Nat : a = proc_free[r] /\ a = proc_free'[r]
    BY <1>1 DEF TypeOK
  <2> PICK b \in Nat : b = Len(ring[r]) /\ Len(ring'[r]) = IF r = o THEN b - 1 ELSE b
    <3>1. ring[r] \in Seq(Slots)
          /\ ring'[r] = IF r = o THEN Tail(ring[r]) ELSE ring[r]
      BY <1>1 DEF TypeOK
    <3>2. Len(ring[r]) \in Nat
      BY <3>1
    <3>3. r = o => Len(Tail(ring[r])) = Len(ring[r]) - 1
      BY <1>1, <3>1, TailAt
    <3>4. Len(ring'[r]) = IF r = o THEN Len(ring[r]) - 1 ELSE Len(ring[r])
      BY <3>1, <3>3
    <3> QED  BY <3>2, <3>4
  <2> QED  BY <1>4
<1> QED  BY <1>1, <1>2, <1>5, <1>6, PermitsMove

\* ... to the end, where it posts them.
LEMMA RecvPayloadKeepsPermits ==
  ASSUME RequestInv, TypeOK', PermitsCovered, NEW q \in Requests, RecvPayload(q)
  PROVE  PermitsCovered'
<1> PICK o \in Ranks : o = Owner[q]
  OBVIOUS
<1>1. /\ TypeOK /\ Advance(q, "header", "returned")
      /\ free_slots' = free_slots + 1 /\ proc_free' = [proc_free EXCEPT ![o] = @ + 1]
      /\ UNCHANGED <<free, ring, fields>>
  BY DEF RecvPayload, RequestInv, Advance
<1>2. /\ thread[q] = "header" /\ thread'[q] = "returned"
      /\ \A s \in Requests : s # q => thread'[s] = thread[s]
  BY <1>1, Advanced
<1>3. /\ Reading(q) /\ ~Reading(q)'
      /\ thread[q] \notin Sending /\ thread'[q] \notin Sending
  BY <1>2 DEF Reading, Sending
<1>4. /\ One(q, Readers') = 0 /\ One(q, Readers) = 1
      /\ \A r \in Ranks : One(q, Keeping(r)') = 0
      /\ \A r \in Ranks : One(q, Keeping(r)) = IF r = o THEN 1 ELSE 0
  BY <1>1, <1>3, Members
<1>5. free_slots' + One(q, Readers') + Len(free) <= free_slots + One(q, Readers) + Len(free')
  <2> PICK f \in Nat : f = free_slots
    BY <1>1 DEF TypeOK
  <2> PICK l \in Nat : l = Len(free)
    <3>1. free \in Seq(Slots)
      BY <1>1 DEF TypeOK
    <3> QED  BY <3>1
  <2> QED  BY <1>1, <1>4
<1>6. ASSUME NEW r \in Ranks
      PROVE  proc_free'[r] + Len(ring'[r]) + One(q, Keeping(r)')
               <= proc_free[r] + Len(ring[r]) + One(q, Keeping(r))
  <2> PICK a \in Nat : a = proc_free[r]
    BY <1>1 DEF TypeOK
  <2> PICK b \in Nat : b = Len(ring[r]) /\ b = Len(ring'[r])
    <3>1. ring[r] \in Seq(Slots) /\ ring' = ring
      BY <1>1 DEF TypeOK
    <3> QED  BY <3>1
  <2>1. proc_free'[r] = IF r = o THEN a + 1 ELSE a
    BY <1>1 DEF TypeOK
  <2> QED  BY <1>4, <2>1
<1> QED  BY <1>1, <1>2, <1>5, <1>6, PermitsMove

-----------------------------------------------------------------------------
(* The invariant.                                                          *)

\* At the start all slots are free, all permits there and nobody reads.
LEMMA InitSlots == Init => SlotInv /\ PermitsCovered
<1> SUFFICES ASSUME Init PROVE SlotInv /\ PermitsCovered
  OBVIOUS
<1>1. /\ free = [i \in 1 .. MaxSlots - 1 |-> i - 1] /\ free_slots = MaxSlots - 1
      /\ \A r \in Ranks : ring[r] = <<>> /\ box[r] = <<>> /\ proc_free[r] = Capacity
      /\ \A q \in Requests : thread[q] = "none" /\ fields[q] = Idle
  BY DEF Init, Mailbox!Init
<1>2. MaxSlots - 1 \in Nat /\ free \in Seq(Int) /\ Len(free) = MaxSlots - 1
  BY <1>1
<1>3. Distinct(free)
  BY <1>1, <1>2 DEF Distinct
<1>4. \A q \in Requests : ~Writing(q) /\ ~Reading(q) /\ thread[q] \notin Sending
  BY <1>1 DEF Writing, Reading, Sending
<1>5. \A r \in Ranks : Distinct(ring[r]) /\ \A s : ~Within(ring[r], s)
  BY <1>1 DEF Distinct, Within
<1>6. SlotsApart
  BY <1>3, <1>4, <1>5 DEF SlotsApart
<1>7. RingHolds
  BY <1>1 DEF RingHolds
<1>8. \A q \in Requests : SenderHolds(q) /\ ReceiverHolds(q)
  BY <1>1, <1>4 DEF SenderHolds, ReceiverHolds, Receiving, Over
<1>9. Readers = {} /\ \A r \in Ranks : Keeping(r) = {}
  BY <1>4 DEF Readers, Keeping
<1>10. Cardinality({}) = 0
  BY FS_EmptySet
<1>11. free_slots + Cardinality(Readers) <= Len(free)
  BY <1>1, <1>2, <1>9, <1>10
<1>12. \A r \in Ranks : proc_free[r] + Len(ring[r]) + Cardinality(Keeping(r)) <= Capacity
  <2>1. ASSUME NEW r \in Ranks
        PROVE  proc_free[r] + Len(ring[r]) + Cardinality(Keeping(r)) <= Capacity
    <3>1. proc_free[r] = Capacity /\ Len(ring[r]) = 0 /\ Cardinality(Keeping(r)) = 0
      <4>1. proc_free[r] = Capacity /\ ring[r] = <<>>
        BY <1>1
      <4>2. Keeping(r) = {}
        BY <1>9
      <4>3. Cardinality(Keeping(r)) = 0
        BY <1>10, <4>2
      <4>4. Len(ring[r]) = 0
        BY <4>1
      <4> QED  BY <4>1, <4>3, <4>4
    <3> QED  BY <3>1
  <2> QED  BY <2>1
<1> QED  BY <1>6, <1>7, <1>8, <1>11, <1>12 DEF SlotInv, PermitsCovered

\* Every step keeps the invariant.
LEMMA StepKeeps == IInv /\ [Next]_vars => IInv'
<1> SUFFICES ASSUME IInv, [Next]_vars PROVE IInv'
  OBVIOUS
<1>1. RequestInv /\ MessageInv /\ SlotInv /\ PermitsCovered
  BY DEF IInv
<1>2. RequestInv' /\ TypeOK'
  BY <1>1, NextKeeps DEF RequestInv
<1>3. ASSUME \E p \in Ranks : Main(p)
      PROVE  MessageInv' /\ SlotInv' /\ PermitsCovered'
  BY <1>1, <1>2, <1>3, MainKeepsMessages, CallsKeepSlots, CallsKeepPermits
<1>4. ASSUME NEW q \in Requests, Worker(q) \/ Test(q)
      PROVE  MessageInv' /\ SlotInv' /\ PermitsCovered'
  <2>1. MessageInv'
    BY <1>1, <1>4, WorkerKeepsMessages
  <2>2. CASE Test(q) \/ Mark(q) \/ Finish(q)
    BY <1>1, <1>2, <2>1, <2>2, CallsKeepSlots, CallsKeepPermits
  <2>3. CASE SendRejected(q) \/ RecvAccept(q) \/ RecvTooLong(q) \/ RecvHeader(q)
    BY <1>1, <1>2, <2>1, <2>3, LooksKeepSlots, MovesKeepPermits
  <2>4. CASE SendReserve(q)
    BY <1>1, <1>2, <2>1, <2>4, LooksKeepSlots, SendReserveKeepsPermits
  <2>5. CASE SendPop(q)
    <3>1. free # <<>>
      BY <1>1, <2>5, PermitMeansSlot DEF SendPop
    <3> QED  BY <1>1, <1>2, <2>1, <2>5, <3>1, SendPopKeepsSlots, SendPopKeepsPermits
  <2>6. CASE SendHeader(q) \/ SendPayload(q)
    BY <1>1, <1>2, <2>1, <2>6, SendWriteKeepsSlots, MovesKeepPermits
  <2>7. CASE SendPublish(q)
    BY <1>1, <1>2, <2>1, <2>7, SendPublishKeepsSlots, SendPublishKeepsPermits
  <2>8. CASE RecvTake(q)
    BY <1>1, <1>2, <2>1, <2>8, RecvTakeKeepsSlots, RecvTakeKeepsPermits
  <2>9. CASE RecvPayload(q)
    BY <1>1, <1>2, <2>1, <2>9, LooksKeepSlots, RecvPayloadKeepsPermits
  <2> QED  BY <1>4, <2>2, <2>3, <2>4, <2>5, <2>6, <2>7, <2>8, <2>9
           DEF Worker, Sender, Receiver
<1>5. ASSUME UNCHANGED vars
      PROVE  MessageInv' /\ SlotInv' /\ PermitsCovered'
  <2>1. /\ UNCHANGED <<free_slots, proc_free, free, messages, ring, box, delivered>>
        /\ UNCHANGED <<next, waited, fields, buf, thread, slot, taken, disturbed>>
    BY <1>5 DEF vars, shmVars, mailVars, requestVars, readVars
  <2>2. MessageInv'
    BY <1>1, <2>1, QuietKeeps DEF RequestInv, Unsent
  <2>3. SlotInv'
    <3>1. SlotsApart' /\ RingHolds'
      BY <1>1, <2>1 DEF SlotInv, SlotsApart, RingHolds, Writing, Within, Distinct
    <3>2. ASSUME NEW s \in Requests
          PROVE  SenderHolds(s)' /\ ReceiverHolds(s)'
      <4>1. SenderHolds(s) /\ ReceiverHolds(s)
        BY <1>1 DEF SlotInv
      <4> QED  BY <2>1, <4>1, OtherHolds
    <3> QED  BY <3>1, <3>2 DEF SlotInv
  <2>4. PermitsCovered'
    BY <1>1, <2>1 DEF PermitsCovered, Readers, Keeping, Reading
  <2> QED  BY <2>2, <2>3, <2>4
<1>6. MessageInv' /\ SlotInv' /\ PermitsCovered'
  BY <1>3, <1>4, <1>5 DEF Next, Terminating
<1> QED  BY <1>2, <1>6 DEF IInv

-----------------------------------------------------------------------------
(* What follows from it.                                                   *)

\* A message that has arrived is in one place of the ring or was taken once.
LEMMA OneCopy ==
  ASSUME TypeOK, MessagesOnce, RingHolds, NEW r \in Ranks, NEW m \in Message, Arrived(m, r)
  PROVE  Single(Copies(m, r))
<1> DEFINE B == {i \in DOMAIN ring[r] : messages[ring[r][i]] = Whole(m)}
           D == {i \in DOMAIN delivered[r] : delivered[r][i] = m}
<1>1. /\ Distinct(box[r]) /\ Distinct(delivered[r])
      /\ ~(Within(box[r], m) /\ Within(delivered[r], m))
  BY OnceFacts
<1>2. B = {i \in DOMAIN box[r] : box[r][i] = m}
  <2>1. ring[r] \in Seq(Slots) /\ box[r] \in Seq(Message) /\ Len(ring[r]) = Len(box[r])
        /\ \A i \in DOMAIN ring[r] : messages[ring[r][i]] = Whole(box[r][i])
    BY DEF TypeOK, RingHolds
  <2>2. DOMAIN ring[r] = DOMAIN box[r]
    <3>1. DOMAIN ring[r] = 1 .. Len(ring[r])
      BY <2>1
    <3>2. DOMAIN box[r] = 1 .. Len(box[r])
      BY <2>1
    <3> QED  BY <2>1, <3>1, <3>2
  <2>3. \A a, b : Whole(a) = Whole(b) <=> a = b
    BY DEF Whole
  <2> QED  BY <2>1, <2>2, <2>3
<1> HIDE DEF B
<1>3. CASE Within(box[r], m)
  <2>1. PICK i \in DOMAIN box[r] : box[r][i] = m
    BY <1>3 DEF Within
  <2>2. B = {i} /\ D = {}
    BY <1>1, <1>2, <1>3, <2>1 DEF Distinct, Within
  <2> HIDE DEF D
  <2>3. (B \X {"ring"}) \cup (D \X {"delivered"}) = {<<i, "ring">>}
    BY <2>2
  <2> QED  BY <2>3 DEF Single, Copies, B, D
<1>4. CASE Within(delivered[r], m)
  <2>1. PICK i \in DOMAIN delivered[r] : delivered[r][i] = m
    BY <1>4 DEF Within
  <2>2. D = {i} /\ B = {}
    BY <1>1, <1>2, <1>4, <2>1 DEF Distinct, Within
  <2> HIDE DEF D
  <2>3. (B \X {"ring"}) \cup (D \X {"delivered"}) = {<<i, "delivered">>}
    BY <2>2
  <2> QED  BY <2>3 DEF Single, Copies, B, D
<1> QED  BY <1>3, <1>4 DEF Arrived

\* A send that was waited for has arrived: the request that could still hold
\* it back is pending, so no OSMP_Wait for it has returned.
LEMMA ArrivedOnce == IInv => WaitedSendsArrive
<1> SUFFICES ASSUME IInv PROVE WaitedSendsArrive
  OBVIOUS
<1>1. RequestInv /\ TypeOK /\ MessageInv /\ MessagesOnce /\ RingHolds
  BY DEF IInv, RequestInv, MessageInv, SlotInv
<1>2. ASSUME NEW p \in Ranks, NEW w \in 1 .. next[p] - 1, NEW i \in 1 .. next[p] - 1,
             WaitsFor(p, w, i), Program[p][i].op = "isend",
             Deliverable(p, Program[p][i])
      PROVE  Single(Copies(<<p, i>>, Program[p][i].dest))
  <2>1. PICK q \in Requests : q = Program[p][i].req /\ Owner[q] = p
    BY <1>1, CallMade
  <2>2. /\ i \in Nat /\ w \in i + 1 .. next[p] - 1
        /\ Program[p][w].op = "wait" /\ Program[p][w].req = q
    <3>1. next[p] \in Nat /\ i < w
      BY <1>1, <1>2 DEF TypeOK, WaitsFor
    <3> QED  BY <1>2, <2>1, <3>1 DEF WaitsFor
  <2>3. ASSUME Unsent(q), fields[q].id = <<p, i>>
        PROVE  FALSE
    <3>1. q \notin waited /\ fields[q].op = "isend"
      BY <1>1, <2>3 DEF RequestInv, Consistent, Unsent, Sending
    <3>2. fields[q].id[2] = i
      BY <2>3
    <3> QED  BY <1>1, <2>1, <2>2, <3>1, <3>2 DEF MessageInv, Named
  <2>4. Arrived(<<p, i>>, Program[p][i].dest)
    BY <1>1, <1>2, <2>1, <2>3 DEF MessageInv, SendsArrive
  <2>5. <<p, i>> \in Message /\ Program[p][i].dest \in Ranks
    BY <1>2, <2>2 DEF Message, Deliverable
  <2> QED  BY <1>1, <2>4, <2>5, OneCopy
<1>3. ASSUME NEW r \in Ranks, NEW i \in DOMAIN ring[r]
      PROVE  LET m == messages[ring[r][i]].header IN
             messages[ring[r][i]] = Whole(m) /\ SentTo(m, r)
  <2>1. messages[ring[r][i]] = Whole(box[r][i]) /\ Len(ring[r]) = Len(box[r])
    BY <1>1 DEF RingHolds
  <2>2. i \in DOMAIN box[r]
    <3>1. ring[r] \in Seq(Slots) /\ box[r] \in Seq(Message)
      BY <1>1 DEF TypeOK
    <3>2. DOMAIN ring[r] = 1 .. Len(ring[r]) /\ DOMAIN box[r] = 1 .. Len(box[r])
      BY <3>1
    <3> QED  BY <2>1, <3>2
  <2>3. SentTo(box[r][i], r)
    BY <1>1, <2>2 DEF MessagesOnce
  <2>4. messages[ring[r][i]].header = box[r][i]
    BY <2>1 DEF Whole
  <2> QED  BY <2>1, <2>3, <2>4
<1> QED  BY <1>2, <1>3 DEF WaitedSendsArrive

\* A receive that was waited for is over, so its buffer holds what it took.
LEMMA BuffersWhole == IInv => BuffersIntact
<1> SUFFICES ASSUME IInv, NEW q \in waited, fields[q].op = "irecv"
             PROVE  /\ taken[q] # NoMessage
                    /\ \A s \in waited \ {q} : taken[s] # taken[q]
                    /\ q \notin disturbed => buf[q] = Received(q)
  BY DEF BuffersIntact
<1>1. q \in Requests /\ waited \subseteq Requests
  BY DEF IInv, RequestInv, TypeOK
<1>2. Consistent(q) /\ ReceiverHolds(q) /\ TakenApart
  BY <1>1 DEF IInv, RequestInv, SlotInv, MessageInv
<1>3. thread[q] = "ended"
  BY <1>2 DEF Consistent, Idle
<1>4. taken[q] # NoMessage /\ (q \notin disturbed => buf[q] = Received(q))
  BY <1>2, <1>3 DEF ReceiverHolds, Over
<1> QED  BY <1>1, <1>2, <1>4 DEF TakenApart

-----------------------------------------------------------------------------
\* Requests, threads, messages, slots and permits stay consistent, whatever the
\* programs do.
THEOREM InductiveInvariant == Spec => []IInv
<1>1. Init => IInv
  BY InitEstablishes, InitMessages, InitSlots DEF IInv
<1>2. IInv /\ [Next]_vars => IInv'
  BY StepKeeps
<1> QED  BY <1>1, <1>2, PTL DEF Spec

\* The types of shared memory, requests and histories.
THEOREM TypeCorrect == Spec => []TypeOK
  BY InductiveInvariant, PTL DEF IInv, RequestInv

\* thread_send and thread_recv write status, and read the other fields, of a
\* request only while its memory is allocated.
THEOREM ThreadsSafe == Spec => []RequestOutlivesThread
  BY InductiveInvariant, PTL DEF IInv, RequestInv

\* A process that has seen inprogress in OSMP_Test sees done only after the
\* thread's call of OSMP_Send or OSMP_Recv has returned.
THEOREM ProgressSafe == Spec => []ProgressTruthful
  BY InductiveInvariant, PTL DEF IInv, RequestInv

\* When OSMP_Wait has returned for an OSMP_Isend with a valid destination and
\* length, exactly one copy of the message lies whole in the receiver's ring or
\* was taken out of it, and a ring holds only whole messages that were sent to
\* its process and not refused.
THEOREM SendsSafe == Spec => []WaitedSendsArrive
  BY InductiveInvariant, ArrivedOnce, PTL

\* A receive that was waited for has a message of its own, and all of it, or
\* nothing of one that is too long, unless a sender was handed the slot that
\* OSMP_Recv gives back before it reads it.
THEOREM BuffersSafe == Spec => []BuffersIntact
  BY InductiveInvariant, BuffersWhole, PTL
=============================================================================
