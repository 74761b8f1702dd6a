--------------------------- MODULE OsmpMessaging ---------------------------
(***************************************************************************)
(* OSMP_Send and OSMP_Recv (OSMP/lib/OSMPlib.c): blocking messages between *)
(* the processes of one OSMP program.  All state is one shared memory      *)
(* segment: a pool of message slots handed out from a linked free list,    *)
(* and one ring of slot numbers per process.                               *)
(*                                                                         *)
(* A step is one semaphore operation or one access to shared memory.  A    *)
(* critical section is one step with the sem_post that ends it: everything *)
(* it touches is touched under the same semaphore only, so no other thread *)
(* can see the middle of it.                                               *)
(***************************************************************************)
EXTENDS Integers, Sequences, FiniteSets

CONSTANTS
  Size,             \* number of OSMP processes (shared_memory.size)
  Threads,          \* threads that call the library
  RankOf,           \* the rank of the process a thread belongs to
  MaxSlots,         \* OSMP_MAX_SLOTS
  MaxMessagesProc,  \* OSMP_MAX_MESSAGES_PROC
  MaxPayload,       \* OSMP_MAX_PAYLOAD_LENGTH
  Data,             \* message contents
  NoData,           \* contents of a slot nobody has written yet
  Program           \* the library calls each thread makes, in order

Ranks == 0 .. Size - 1
\* The slots of the free list; slot MaxSlots - 1 is OSMP_BCAST_SLOT.
Slots == 0 .. MaxSlots - 2
RingIndex == 0 .. MaxMessagesProc - 1

Message == [src : Ranks, len : 0 .. MaxPayload, data : Data \cup {NoData}]
\* What OSMP_Recv leaves behind when it returns OSMP_ERROR.
Failed == [src |-> -1, len |-> 0, data |-> NoData]

SendCalls == [op : {"send"}, dest : Int, len : Nat, data : Data]
RecvCalls == [op : {"recv"}, max : Nat]
CallsOf(t) == {Program[t][i] : i \in DOMAIN Program[t]}
Receivers == {t \in Threads : \E c \in CallsOf(t) : c.op = "recv"}

ASSUME ConstantsAssumption ==
  /\ Size \in Nat \ {0}
  /\ MaxSlots \in Nat /\ MaxSlots >= 2
  /\ MaxMessagesProc \in Nat \ {0}
  /\ MaxPayload \in Nat
  /\ IsFiniteSet(Threads)
  /\ RankOf \in [Threads -> Ranks]
  /\ Program \in [Threads -> Seq(SendCalls \cup RecvCalls)]

\* OSMP_Recv moves read_index without a lock (proc_mutex is commented out),
\* so the programs considered here receive in one thread per process.
ASSUME OneReceiverAssumption ==
  \A t, u \in Receivers : RankOf[t] = RankOf[u] => t = u

VARIABLES
  \* struct shared_memory
  shm_mutex, free_slots, actual_free_slot,
  messages,            \* sender_pr_rank, msg_len and payload of a slot
  next_free_msg_slot,
  \* struct process, by rank
  proc_mutex, proc_full, proc_free, read_index, write_index, msg_slots,
  \* the threads
  pc, todo,
  slot,                \* my_msg_index in OSMP_Send, msg_slot in OSMP_Recv
  out,                 \* *source, *len and *buf of OSMP_Recv
  \* history: what the data structures stand for, never read by the code
  free,                \* the slots of the free list, head first
  queue,               \* the slots published to a process and not yet taken
  taken,               \* the messages OSMP_Recv found in the ring
  got                  \* the results OSMP_Recv handed to its caller

shmVars == <<shm_mutex, free_slots, actual_free_slot, messages,
             next_free_msg_slot>>
procVars == <<proc_mutex, proc_full, proc_free, read_index, write_index,
              msg_slots>>
threadVars == <<pc, todo, slot, out>>
history == <<free, queue, taken, got>>
vars == <<shmVars, procVars, threadVars, history>>

-----------------------------------------------------------------------------
\* initMemory chains slot i to (i + 1) % (OSMP_MAX_SLOTS - 1), so the last one
\* points back to slot 0; initChild has run for every process.
Init ==
  /\ shm_mutex = 1
  /\ free_slots = MaxSlots - 1
  /\ actual_free_slot = 0
  /\ messages = [s \in Slots |-> [src |-> 0, len |-> 0, data |-> NoData]]
  /\ next_free_msg_slot = [s \in Slots |-> (s + 1) % (MaxSlots - 1)]
  /\ proc_mutex = [r \in Ranks |-> 1]
  /\ proc_full = [r \in Ranks |-> 0]
  /\ proc_free = [r \in Ranks |-> MaxMessagesProc]
  /\ read_index = [r \in Ranks |-> 0]
  /\ write_index = [r \in Ranks |-> 0]
  /\ msg_slots = [r \in Ranks |-> [i \in RingIndex |-> 0]]
  /\ pc = [t \in Threads |-> "idle"]
  /\ todo = Program
  /\ slot = [t \in Threads |-> 0]
  /\ out = [t \in Threads |-> Failed]
  /\ free = [i \in 1 .. MaxSlots - 1 |-> i - 1]
  /\ queue = [r \in Ranks |-> <<>>]
  /\ taken = [r \in Ranks |-> <<>>]
  /\ got = [r \in Ranks |-> <<>>]

Call(t) == Head(todo[t])
Dest(t) == Call(t).dest
Self(t) == RankOf[t]

Goto(t, from, to) ==
  /\ pc[t] = from
  /\ pc' = [pc EXCEPT ![t] = to]

\* The call returns to the program, which goes on to its next one.
Return(t, from) ==
  /\ Goto(t, from, "idle")
  /\ todo' = [todo EXCEPT ![t] = Tail(@)]

-----------------------------------------------------------------------------
\* OSMP_Send: the checks of dest and of the payload length.
Sendable(t) ==
  /\ Dest(t) \in Ranks /\ Dest(t) # Self(t)
  /\ Call(t).len <= MaxPayload

SendCall(t) ==
  /\ todo[t] # <<>> /\ Call(t).op = "send" /\ Sendable(t)
  /\ Goto(t, "idle", "S_procFree")
  /\ UNCHANGED <<shmVars, procVars, todo, slot, out, history>>

SendRejected(t) ==
  /\ todo[t] # <<>> /\ Call(t).op = "send" /\ ~Sendable(t)
  /\ Return(t, "idle")
  /\ UNCHANGED <<shmVars, procVars, slot, out, history>>

\* Mutation: OSMP_Send does not wait for a place in the ring.
SendWithoutPlace(t) ==
  /\ Goto(t, "S_procFree", "S_freeSlots")
  /\ UNCHANGED <<shmVars, procVars, todo, slot, out, history>>

SendWaitProcFree(t) ==
  /\ Goto(t, "S_procFree", "S_freeSlots")
  /\ proc_free[Dest(t)] > 0
  /\ proc_free' = [proc_free EXCEPT ![Dest(t)] = @ - 1]
  /\ UNCHANGED <<shmVars, proc_mutex, proc_full, read_index, write_index,
                 msg_slots, todo, slot, out, history>>

SendWaitFreeSlots(t) ==
  /\ Goto(t, "S_freeSlots", "S_shmMutex")
  /\ free_slots > 0
  /\ free_slots' = free_slots - 1
  /\ UNCHANGED <<shm_mutex, actual_free_slot, messages, next_free_msg_slot,
                 procVars, todo, slot, out, history>>

SendLockShm(t) ==
  /\ Goto(t, "S_shmMutex", "S_pop")
  /\ shm_mutex > 0
  /\ shm_mutex' = shm_mutex - 1
  /\ UNCHANGED <<free_slots, actual_free_slot, messages, next_free_msg_slot,
                 procVars, todo, slot, out, history>>

\* Mutation: the head of the free list stays where it is.
SendPopHeadStays(t) ==
  /\ Goto(t, "S_pop", "S_header")
  /\ slot' = [slot EXCEPT ![t] = actual_free_slot]
  /\ shm_mutex' = shm_mutex + 1
  /\ free' = Tail(free)
  /\ UNCHANGED <<free_slots, actual_free_slot, messages, next_free_msg_slot,
                 procVars, todo, out, queue, taken, got>>

SendPopSlot(t) ==
  /\ Goto(t, "S_pop", "S_header")
  /\ slot' = [slot EXCEPT ![t] = actual_free_slot]
  /\ actual_free_slot' = next_free_msg_slot[actual_free_slot]
  /\ shm_mutex' = shm_mutex + 1
  /\ free' = Tail(free)
  /\ UNCHANGED <<free_slots, messages, next_free_msg_slot, procVars, todo,
                 out, queue, taken, got>>

\* Mutation: the payload is not copied.
SendHeaderOnly(t) ==
  /\ Goto(t, "S_header", "S_procMutex")
  /\ messages' = [messages EXCEPT ![slot[t]].src = Self(t),
                                  ![slot[t]].len = Call(t).len]
  /\ UNCHANGED <<shm_mutex, free_slots, actual_free_slot, next_free_msg_slot,
                 procVars, todo, slot, out, history>>

\* The slot is filled without a lock: header first, then the payload.
SendHeader(t) ==
  /\ Goto(t, "S_header", "S_payload")
  /\ messages' = [messages EXCEPT ![slot[t]].src = Self(t),
                                  ![slot[t]].len = Call(t).len]
  /\ UNCHANGED <<shm_mutex, free_slots, actual_free_slot, next_free_msg_slot,
                 procVars, todo, slot, out, history>>

SendPayload(t) ==
  /\ Goto(t, "S_payload", "S_procMutex")
  /\ messages' = [messages EXCEPT ![slot[t]].data = Call(t).data]
  /\ UNCHANGED <<shm_mutex, free_slots, actual_free_slot, next_free_msg_slot,
                 procVars, todo, slot, out, history>>

SendLockProc(t) ==
  /\ Goto(t, "S_procMutex", "S_enqueue")
  /\ proc_mutex[Dest(t)] > 0
  /\ proc_mutex' = [proc_mutex EXCEPT ![Dest(t)] = @ - 1]
  /\ UNCHANGED <<shmVars, proc_full, proc_free, read_index, write_index,
                 msg_slots, todo, slot, out, history>>

\* Mutation: write_index is not incremented.
SendEnqueueStays(t) ==
  LET d == Dest(t)
      w == write_index[d] % MaxMessagesProc
  IN  /\ Goto(t, "S_enqueue", "S_procFull")
      /\ msg_slots' = [msg_slots EXCEPT ![d][w] = slot[t]]
      /\ write_index' = [write_index EXCEPT ![d] = w]
      /\ proc_mutex' = [proc_mutex EXCEPT ![d] = @ + 1]
      /\ queue' = [queue EXCEPT ![d] = Append(@, slot[t])]
      /\ UNCHANGED <<shmVars, proc_full, proc_free, read_index, todo, slot,
                     out, free, taken, got>>

SendEnqueue(t) ==
  LET d == Dest(t)
      w == write_index[d] % MaxMessagesProc
  IN  /\ Goto(t, "S_enqueue", "S_procFull")
      /\ msg_slots' = [msg_slots EXCEPT ![d][w] = slot[t]]
      /\ write_index' = [write_index EXCEPT ![d] = w + 1]
      /\ proc_mutex' = [proc_mutex EXCEPT ![d] = @ + 1]
      /\ queue' = [queue EXCEPT ![d] = Append(@, slot[t])]
      /\ UNCHANGED <<shmVars, proc_full, proc_free, read_index, todo, slot,
                     out, free, taken, got>>

\* Mutation: the receiver is not told.
SendSilently(t) ==
  /\ Return(t, "S_procFull")
  /\ UNCHANGED <<shmVars, procVars, slot, out, history>>

SendSignalFull(t) ==
  /\ Return(t, "S_procFull")
  /\ proc_full' = [proc_full EXCEPT ![Dest(t)] = @ + 1]
  /\ UNCHANGED <<shmVars, proc_mutex, proc_free, read_index, write_index,
                 msg_slots, slot, out, history>>

-----------------------------------------------------------------------------
RecvCall(t) ==
  /\ todo[t] # <<>> /\ Call(t).op = "recv"
  /\ Goto(t, "idle", "R_procFull")
  /\ UNCHANGED <<shmVars, procVars, todo, slot, out, history>>

RecvWaitFull(t) ==
  /\ Goto(t, "R_procFull", "R_take")
  /\ proc_full[Self(t)] > 0
  /\ proc_full' = [proc_full EXCEPT ![Self(t)] = @ - 1]
  /\ UNCHANGED <<shmVars, proc_mutex, proc_free, read_index, write_index,
                 msg_slots, todo, slot, out, history>>

\* Mutation: read_index is not incremented.
RecvTakeAgain(t) ==
  LET r == Self(t)
      p == read_index[r] % MaxMessagesProc
  IN  /\ Goto(t, "R_take", "R_shmMutex")
      /\ slot' = [slot EXCEPT ![t] = msg_slots[r][p]]
      /\ read_index' = [read_index EXCEPT ![r] = p]
      /\ queue' = [queue EXCEPT ![r] = Tail(@)]
      /\ taken' = [taken EXCEPT ![r] = Append(@, messages[msg_slots[r][p]])]
      /\ UNCHANGED <<shmVars, proc_mutex, proc_full, proc_free, write_index,
                     msg_slots, todo, out, free, got>>

\* Only this thread moves read_index: wrap, load and increment are one step.
RecvTake(t) ==
  LET r == Self(t)
      p == read_index[r] % MaxMessagesProc
  IN  /\ Goto(t, "R_take", "R_shmMutex")
      /\ slot' = [slot EXCEPT ![t] = msg_slots[r][p]]
      /\ read_index' = [read_index EXCEPT ![r] = p + 1]
      /\ queue' = [queue EXCEPT ![r] = Tail(@)]
      /\ taken' = [taken EXCEPT ![r] = Append(@, messages[msg_slots[r][p]])]
      /\ UNCHANGED <<shmVars, proc_mutex, proc_full, proc_free, write_index,
                     msg_slots, todo, out, free, got>>

\* Mutation: a message too long for the caller is refused before its slot is
\* given back.
RecvCheckFirst(t) ==
  \/ /\ Goto(t, "R_shmMutex", "R_push")
     /\ messages[slot[t]].len <= Call(t).max
     /\ shm_mutex > 0
     /\ shm_mutex' = shm_mutex - 1
     /\ UNCHANGED <<free_slots, actual_free_slot, messages, next_free_msg_slot,
                    procVars, todo, slot, out, history>>
  \/ /\ Return(t, "R_shmMutex")
     /\ messages[slot[t]].len > Call(t).max
     /\ got' = [got EXCEPT ![Self(t)] = Append(@, Failed)]
     /\ UNCHANGED <<shmVars, procVars, slot, out, free, queue, taken>>

RecvLockShm(t) ==
  /\ Goto(t, "R_shmMutex", "R_push")
  /\ shm_mutex > 0
  /\ shm_mutex' = shm_mutex - 1
  /\ UNCHANGED <<free_slots, actual_free_slot, messages, next_free_msg_slot,
                 procVars, todo, slot, out, history>>

\* The slot goes back to the free list before it has been read.
RecvPushSlot(t) ==
  /\ Goto(t, "R_push", "R_check")
  /\ next_free_msg_slot' =
       [next_free_msg_slot EXCEPT ![slot[t]] = actual_free_slot]
  /\ actual_free_slot' = slot[t]
  /\ shm_mutex' = shm_mutex + 1
  /\ free' = <<slot[t]>> \o free
  /\ UNCHANGED <<free_slots, messages, procVars, todo, slot, out, queue,
                 taken, got>>

RecvAccept(t) ==
  /\ Goto(t, "R_check", "R_header")
  /\ messages[slot[t]].len <= Call(t).max
  /\ UNCHANGED <<shmVars, procVars, todo, slot, out, history>>

\* A message longer than the caller's buffer: the error return skips both
\* sem_posts, so the slot's and the ring's permit are lost.
RecvTooLong(t) ==
  /\ Return(t, "R_check")
  /\ messages[slot[t]].len > Call(t).max
  /\ got' = [got EXCEPT ![Self(t)] = Append(@, Failed)]
  /\ UNCHANGED <<shmVars, procVars, slot, out, free, queue, taken>>

RecvHeader(t) ==
  /\ Goto(t, "R_header", "R_payload")
  /\ out' = [out EXCEPT ![t].src = messages[slot[t]].src,
                        ![t].len = messages[slot[t]].len]
  /\ UNCHANGED <<shmVars, procVars, todo, slot, history>>

RecvPayload(t) ==
  /\ Goto(t, "R_payload", "R_freeSlots")
  /\ out' = [out EXCEPT ![t].data = messages[slot[t]].data]
  /\ UNCHANGED <<shmVars, procVars, todo, slot, history>>

\* Mutation: the slot's permit is not given back.
RecvKeepsPermit(t) ==
  /\ Goto(t, "R_freeSlots", "R_procFree")
  /\ UNCHANGED <<shmVars, procVars, todo, slot, out, history>>

RecvSignalFreeSlots(t) ==
  /\ Goto(t, "R_freeSlots", "R_procFree")
  /\ free_slots' = free_slots + 1
  /\ UNCHANGED <<shm_mutex, actual_free_slot, messages, next_free_msg_slot,
                 procVars, todo, slot, out, history>>

RecvSignalProcFree(t) ==
  /\ Return(t, "R_procFree")
  /\ proc_free' = [proc_free EXCEPT ![Self(t)] = @ + 1]
  /\ got' = [got EXCEPT ![Self(t)] = Append(@, out[t])]
  /\ UNCHANGED <<shmVars, proc_mutex, proc_full, read_index, write_index,
                 msg_slots, slot, out, free, queue, taken>>

-----------------------------------------------------------------------------
Send(t) ==
  \/ SendCall(t) \/ SendRejected(t)
  \/ SendWaitProcFree(t) \/ SendWaitFreeSlots(t)
  \/ SendLockShm(t) \/ SendPopSlot(t)
  \/ SendHeader(t) \/ SendPayload(t)
  \/ SendLockProc(t) \/ SendEnqueue(t) \/ SendSignalFull(t)

Recv(t) ==
  \/ RecvCall(t) \/ RecvWaitFull(t) \/ RecvTake(t)
  \/ RecvLockShm(t) \/ RecvPushSlot(t)
  \/ RecvAccept(t) \/ RecvTooLong(t) \/ RecvHeader(t) \/ RecvPayload(t)
  \/ RecvSignalFreeSlots(t) \/ RecvSignalProcFree(t)

Step(t) == Send(t) \/ Recv(t)
Returned == \A t \in Threads : todo[t] = <<>>
Terminating == Returned /\ UNCHANGED vars

Next == (\E t \in Threads : Step(t)) \/ Terminating
Spec == Init /\ [][Next]_vars
\* The kernel keeps scheduling every thread that is not blocked.
FairSpec == Spec /\ \A t \in Threads : WF_vars(Step(t))

-----------------------------------------------------------------------------
Results == [src : Ranks \cup {-1}, len : 0 .. MaxPayload, data : Data \cup {NoData}]
SendPCs == {"S_procFree", "S_freeSlots", "S_shmMutex", "S_pop", "S_header",
            "S_payload", "S_procMutex", "S_enqueue", "S_procFull"}
RecvPCs == {"R_procFull", "R_take", "R_shmMutex", "R_push", "R_check",
            "R_header", "R_payload", "R_freeSlots", "R_procFree"}
\* A thread owns its slot from the pop until it has published the slot, and
\* from taking the slot out of the ring until it has pushed it back.
OwnerPCs == {"S_header", "S_payload", "S_procMutex", "S_enqueue",
             "R_shmMutex", "R_push"}
Owners == {t \in Threads : pc[t] \in OwnerPCs}

\* Type correctness of the shared memory segment, of the threads and of the
\* history; a thread inside OSMP_Send or OSMP_Recv is executing such a call.
TypeOK ==
  /\ shm_mutex \in {0, 1}
  /\ free_slots \in Nat
  /\ actual_free_slot \in Slots
  /\ messages \in [Slots -> Message]
  /\ next_free_msg_slot \in [Slots -> Slots]
  /\ proc_mutex \in [Ranks -> {0, 1}]
  /\ proc_full \in [Ranks -> Nat]
  /\ proc_free \in [Ranks -> Nat]
  /\ read_index \in [Ranks -> 0 .. MaxMessagesProc]
  /\ write_index \in [Ranks -> 0 .. MaxMessagesProc]
  /\ msg_slots \in [Ranks -> [RingIndex -> Slots]]
  /\ pc \in [Threads -> {"idle"} \cup SendPCs \cup RecvPCs]
  /\ todo \in [Threads -> Seq(SendCalls \cup RecvCalls)]
  /\ \A t \in Threads :
       /\ pc[t] \in SendPCs => todo[t] # <<>> /\ Call(t).op = "send" /\ Sendable(t)
       /\ pc[t] \in RecvPCs => todo[t] # <<>> /\ Call(t).op = "recv"
       /\ \A i \in DOMAIN todo[t] : todo[t][i] \in CallsOf(t)
  /\ slot \in [Threads -> Slots]
  /\ out \in [Threads -> Results]
  /\ free \in Seq(Slots)
  /\ queue \in [Ranks -> Seq(Slots)]
  /\ taken \in [Ranks -> Seq(Message)]
  /\ got \in [Ranks -> Seq(Results)]

(***************************************************************************)
(* Permits: what the semaphores promise to the threads that have not used  *)
(* their promise yet.                                                      *)
(***************************************************************************)
InShmMutex == {t \in Threads : pc[t] \in {"S_pop", "R_push"}}
InProcMutex(r) == {t \in Threads : pc[t] = "S_enqueue" /\ Dest(t) = r}
\* May still pop a slot, or has pushed one without posting free_slots.
SlotPromised == {t \in Threads : pc[t] \in {"S_shmMutex", "S_pop", "R_check",
                                   "R_header", "R_payload", "R_freeSlots"}}
\* Published but not posted, or waited for but not taken.
FullPromised(r) ==
  {t \in Threads :
     \/ pc[t] = "S_procFull" /\ Dest(t) = r
     \/ pc[t] = "R_take" /\ Self(t) = r}
\* A place in the ring reserved but not filled, or emptied but not released.
ReservedPCs == {"S_freeSlots", "S_shmMutex", "S_pop", "S_header", "S_payload",
                "S_procMutex", "S_enqueue"}
EmptiedPCs == {"R_shmMutex", "R_push", "R_check", "R_header", "R_payload",
               "R_freeSlots", "R_procFree"}
PlaceReserved(r) ==
  {t \in Threads :
     \/ pc[t] \in ReservedPCs /\ Dest(t) = r
     \/ pc[t] \in EmptiedPCs /\ Self(t) = r}

\* shm_mutex and proc_mutex are mutexes: whoever is inside holds the permit.
Locks ==
  /\ shm_mutex + Cardinality(InShmMutex) = 1
  /\ \A r \in Ranks : proc_mutex[r] + Cardinality(InProcMutex(r)) = 1

\* free_slots never promises more slots than the free list holds, so
\* OSMP_Send never pops from an empty list; proc_full counts exactly the
\* messages in the ring; proc_free never promises more places than the ring
\* has, so OSMP_Send never overwrites a slot number nobody has taken.
PermitsSuffice ==
  /\ free_slots + Cardinality(SlotPromised) <= Len(free)
  /\ \A r \in Ranks :
       /\ proc_full[r] + Cardinality(FullPromised(r)) = Len(queue[r])
       /\ proc_free[r] + Len(queue[r]) + Cardinality(PlaceReserved(r))
            <= MaxMessagesProc

\* The calls of OSMP_Recv on rank r that returned OSMP_ERROR.
Failures(r) == {i \in DOMAIN got[r] : got[r][i] = Failed}

\* No permit is lost or invented, except one of each kind by every OSMP_Recv
\* that fails (its error return skips the two sem_posts).
PermitsConserved ==
  /\ free_slots + Cardinality(SlotPromised)
       + Cardinality(UNION {{r} \X Failures(r) : r \in Ranks}) = Len(free)
  /\ \A r \in Ranks :
       proc_free[r] + Len(queue[r]) + Cardinality(PlaceReserved(r))
         + Cardinality(Failures(r)) = MaxMessagesProc

(***************************************************************************)
(* Slots.                                                                  *)
(***************************************************************************)
\* A slot is in the free list, or in the ring of one process, or owned by one
\* thread, and in one place only: OSMP_Send writes to no slot that another
\* thread may pop, publish or receive.
SlotExclusive ==
  /\ \A i, j \in DOMAIN free : free[i] = free[j] => i = j
  /\ \A r, q \in Ranks : \A i \in DOMAIN queue[r], j \in DOMAIN queue[q] :
       queue[r][i] = queue[q][j] => r = q /\ i = j
  /\ \A t, u \in Owners : slot[t] = slot[u] => t = u
  /\ \A i \in DOMAIN free, r \in Ranks : \A j \in DOMAIN queue[r] :
       free[i] # queue[r][j]
  /\ \A t \in Owners : \A i \in DOMAIN free : slot[t] # free[i]
  /\ \A t \in Owners, r \in Ranks : \A i \in DOMAIN queue[r] :
       slot[t] # queue[r][i]

\* No slot leaks: every slot is free, queued or owned.
NoSlotLost ==
  \A s \in Slots :
    \/ \E i \in DOMAIN free : free[i] = s
    \/ \E r \in Ranks : \E i \in DOMAIN queue[r] : queue[r][i] = s
    \/ \E t \in Owners : slot[t] = s

\* The links lead from actual_free_slot through the free slots in order: a
\* push never cuts off or shares the tail another thread is going to pop.
FreeListIntact ==
  /\ free # <<>> => actual_free_slot = free[1]
  /\ \A i \in 1 .. Len(free) - 1 : next_free_msg_slot[free[i]] = free[i + 1]

\* Between read_index and write_index the ring holds the published slots that
\* were not taken yet, oldest first.
RingIntact ==
  \A r \in Ranks :
    /\ \A i \in 1 .. Len(queue[r]) :
         msg_slots[r][(read_index[r] + i - 1) % MaxMessagesProc] = queue[r][i]
    /\ (read_index[r] + Len(queue[r])) % MaxMessagesProc
         = write_index[r] % MaxMessagesProc

\* A sender's slot holds what it has written so far, whatever others do.
SlotContents ==
  \A t \in Threads :
    /\ pc[t] \in {"S_payload", "S_procMutex", "S_enqueue"} =>
         /\ messages[slot[t]].src = Self(t)
         /\ messages[slot[t]].len = Call(t).len
    /\ pc[t] \in {"S_procMutex", "S_enqueue"} =>
         messages[slot[t]].data = Call(t).data

\* Between the header's copy and its return OSMP_Recv has named a sender, so
\* its result differs from the one of a refused call.
SenderNamed ==
  \A t \in Threads :
    pc[t] \in {"R_payload", "R_freeSlots", "R_procFree"} => out[t].src \in Ranks

\* The inductive invariant.
IInv ==
  /\ TypeOK
  /\ Locks /\ PermitsSuffice
  /\ SlotExclusive /\ FreeListIntact /\ RingIntact /\ SlotContents
  /\ NoSlotLost /\ SenderNamed /\ PermitsConserved

(***************************************************************************)
(* Messages.                                                               *)
(***************************************************************************)
Box(r) == [i \in DOMAIN queue[r] |-> messages[queue[r][i]]]

\* The number of calls of thread t whose message is published or that returned.
Ended(t) ==
  Len(Program[t]) - Len(todo[t]) + (IF pc[t] = "S_procFull" THEN 1 ELSE 0)
\* Those of them that OSMP_Send accepted for rank r, and their messages.
SentTo(t, r) ==
  { i \in 1 .. Ended(t) : /\ Program[t][i].op = "send" /\ Program[t][i].dest = r
                          /\ Program[t][i].len <= MaxPayload }
MessageOf(t, i) ==
  [src |-> RankOf[t], len |-> Program[t][i].len, data |-> Program[t][i].data]

\* The messages from t's process in a are those of t's calls S, in their order.
Correspond(t, S, a) ==
  LET From == { j \in DOMAIN a : a[j].src = RankOf[t] }
  IN  \E place \in [S -> From] :
        /\ \A j \in From : \E i \in S : place[i] = j
        /\ \A i, k \in S : i < k => place[i] < place[k]
        /\ \A i \in S : a[place[i]] = MessageOf(t, i)

Arrivals(r) == taken[r] \o Box(r)
OnlySender(t) == \A u \in Threads \ {t} : RankOf[u] # RankOf[t]

\* What a process's ring delivers from a sender is what that sender sent to
\* it: nothing lost, duplicated, altered or overtaken on the way, whoever else
\* sends to the same process or reuses the same slots.
DeliveryExact ==
  \A t \in Threads, r \in Ranks :
    OnlySender(t) /\ r # RankOf[t] => Correspond(t, SentTo(t, r), Arrivals(r))

\* What a thread has still to call is the rest of its program.
RestOfProgram ==
  \A t \in Threads :
    /\ Len(todo[t]) <= Len(Program[t])
    /\ \A i \in 1 .. Len(todo[t]) :
         todo[t][i] = Program[t][Len(Program[t]) - Len(todo[t]) + i]

\* The caller of OSMP_Recv gets the message that was taken from its ring.
RecvIntact ==
  \A r \in Ranks : \A i \in DOMAIN got[r] :
    got[r][i] # Failed => got[r][i] = taken[r][i]

\* Where every message has a receiver, all calls return.
AllReturn == <>Returned

\* The rings and slots implement one bounded mailbox per process.
Mailbox == INSTANCE OsmpMailbox WITH
  Capacity <- MaxMessagesProc,
  box <- [r \in Ranks |-> Box(r)],
  delivered <- taken
ImplementsMailbox == Mailbox!Spec
=============================================================================
