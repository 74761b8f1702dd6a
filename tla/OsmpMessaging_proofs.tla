------------------------ MODULE OsmpMessaging_proofs ------------------------
(***************************************************************************)
(* The slots, rings and semaphores behind OSMP_Send and OSMP_Recv are used *)
(* consistently, for every number of processes and threads, every size of  *)
(* the pool and of the rings, and every program whose processes receive in *)
(* one thread each.                                                        *)
(***************************************************************************)
EXTENDS OsmpMessaging, FiniteSetTheorems, TLAPS

\* Ring arithmetic: % on the values an index can take.
LEMMA ModFacts ==
  ASSUME NEW n \in Nat \ {0}, NEW a \in Nat
  PROVE  /\ a % n \in 0 .. n - 1
         /\ a < n => a % n = a
         /\ n <= a /\ a < n + n => a % n = a - n
         /\ a = n + n => a % n = 0
         /\ n % n = 0
<1>1. a % n \in 0 .. n - 1
  OBVIOUS
<1>2. a < n => a % n = a
  OBVIOUS
<1>3. n <= a /\ a < n + n => a % n = a - n
  OBVIOUS
<1>4. a = n + n => a % n = 0
  OBVIOUS
<1>5. n % n = 0
  OBVIOUS
<1> QED  BY <1>1, <1>2, <1>3, <1>4, <1>5

\* Positions of a ring: stepping through it, and the room between two of them.
LEMMA RingArithmetic ==
  ASSUME NEW m \in Nat \ {0}, NEW a \in 0 .. m, NEW k \in 0 .. m
  PROVE  /\ ((a % m) + k) % m = (a + k) % m
         /\ k < m => (((a + k) % m) + 1) % m = (a + k + 1) % m
         /\ \A j \in 0 .. m - 1 : k < j => (a + k) % m # (a + j) % m
<1>1. ((a % m) + k) % m = (a + k) % m
  <2>1. CASE a < m
    <3>1. a % m = a
      BY <2>1, ModFacts
    <3> QED  BY <3>1
  <2>2. CASE a = m /\ k < m
    <3>1. a % m = 0 /\ k % m = k /\ (m + k) % m = m + k - m
      BY <2>2, ModFacts
    <3> QED  BY <2>2, <3>1
  <2>3. CASE a = m /\ k = m
    <3>1. a % m = 0 /\ m % m = 0 /\ (m + m) % m = 0
      BY <2>3, ModFacts
    <3> QED  BY <2>3, <3>1
  <2> QED  BY <2>1, <2>2, <2>3
<1>0. PICK z \in Nat : z = a + k
  OBVIOUS
<1>2. ASSUME k < m
      PROVE  ((z % m) + 1) % m = (z + 1) % m
  <2>0. z < m + m
    BY <1>0, <1>2
  <2>1. CASE z < m
    <3>1. z % m = z
      BY <2>1, ModFacts
    <3> QED  BY <3>1
  <2>2. CASE z >= m
    <3>1. PICK y \in Nat : z = y + m
      BY <2>2
    <3>2. y < m /\ z % m = y
      BY <2>0, <2>2, <3>1, ModFacts
    <3>3. CASE y + 1 < m
      <4>1. PICK x \in Nat : x = z + 1
        OBVIOUS
      <4>2. m <= x /\ x < m + m /\ x - m = y + 1
        BY <3>1, <3>3, <4>1
      <4>3. x % m = y + 1
        BY <4>2, ModFacts
      <4>4. (y + 1) % m = y + 1
        BY <3>3
      <4> QED  BY <3>2, <4>1, <4>3, <4>4
    <3>4. CASE y + 1 = m
      <4>1. z + 1 = m + m
        BY <3>1, <3>4
      <4>2. m % m = 0
        BY ModFacts
      <4>3. PICK x \in Nat : x = m + m
        OBVIOUS
      <4>4. x % m = 0
        BY <4>3, ModFacts
      <4> QED  BY <3>2, <3>4, <4>1, <4>2, <4>3, <4>4
    <3> QED  BY <3>2, <3>3, <3>4
  <2> QED  BY <2>1, <2>2
<1>3. ASSUME NEW j \in 0 .. m - 1, k < j
      PROVE  (a + k) % m # (a + j) % m
  <2>1. PICK y \in Nat : y = a + j
    OBVIOUS
  <2>2. z < y /\ y < m + m /\ y - m < z /\ z \in Int /\ y \in Int
    BY <1>0, <1>3, <2>1
  <2>3. ASSUME NEW i \in Nat, i < m + m
        PROVE  \/ i < m /\ i % m = i
               \/ i >= m /\ i % m = i - m
    <3>1. i < m => i % m = i
      BY ModFacts
    <3>2. m <= i => i % m = i - m
      BY <2>3, ModFacts
    <3> QED  BY <3>1, <3>2
  <2>4. z < m + m
    BY <2>2
  <2>5. z % m # y % m
    <3>1. \/ z < m /\ z % m = z
          \/ z >= m /\ z % m = z - m
      BY <2>3, <2>4
    <3>2. \/ y < m /\ y % m = y
          \/ y >= m /\ y % m = y - m
      BY <2>2, <2>3
    <3> QED  BY <2>2, <3>1, <3>2
  <2> QED  BY <1>0, <2>1, <2>5
<1> QED  BY <1>0, <1>1, <1>2, <1>3

USE ConstantsAssumption

-----------------------------------------------------------------------------
(* Sequences, indices and counters.                                        *)

\* What is left of a nonempty sequence when its head is taken off.
LEMMA TailFacts ==
  ASSUME NEW S, NEW s \in Seq(S), s # <<>>
  PROVE  /\ Tail(s) \in Seq(S) /\ Len(Tail(s)) = Len(s) - 1 /\ Len(s) \in Nat \ {0}
         /\ \A i \in 1 .. Len(s) - 1 : Tail(s)[i] = s[i + 1]
         /\ s[1] \in S
  OBVIOUS

\* A sequence with one element added at the end.
LEMMA AppendFacts ==
  ASSUME NEW S, NEW s \in Seq(S), NEW e \in S
  PROVE  /\ Append(s, e) \in Seq(S) /\ Len(Append(s, e)) = Len(s) + 1
         /\ \A i \in 1 .. Len(s) : Append(s, e)[i] = s[i]
         /\ Append(s, e)[Len(s) + 1] = e
  OBVIOUS

\* A sequence with one element added at the front, as OSMP_Recv pushes a slot.
LEMMA PushFacts ==
  ASSUME NEW S, NEW s \in Seq(S), NEW e \in S
  PROVE  /\ <<e>> \o s \in Seq(S) /\ Len(<<e>> \o s) = Len(s) + 1
         /\ \A i \in 1 .. Len(s) : (<<e>> \o s)[i + 1] = s[i]
         /\ (<<e>> \o s)[1] = e
  OBVIOUS

\* How the number of threads in a set changes when one thread moves.
Moved(S, T, t) ==
  /\ Cardinality(S) \in Nat /\ Cardinality(T) \in Nat
  /\ \/ t \in S /\ t \in T /\ Cardinality(T) = Cardinality(S)
     \/ t \notin S /\ t \notin T /\ Cardinality(T) = Cardinality(S)
     \/ t \notin S /\ t \in T /\ Cardinality(T) = Cardinality(S) + 1
     \/ t \in S /\ t \notin T /\ Cardinality(T) = Cardinality(S) - 1

\* Two sets of threads that differ at most in t differ in size by t alone.
LEMMA CountMove ==
  ASSUME NEW S \in SUBSET Threads, NEW T \in SUBSET Threads, NEW t \in Threads,
         \A u \in Threads \ {t} : u \in S <=> u \in T
  PROVE  Moved(S, T, t)
<1>1. IsFiniteSet(S) /\ IsFiniteSet(T)
  BY FS_Subset
<1>2. Cardinality(S) \in Nat /\ Cardinality(T) \in Nat
  BY <1>1, FS_CardinalityType
<1>3. CASE t \in S <=> t \in T
  <2>1. S = T
    <3>1. \A u \in Threads : u \in S <=> u \in T
      BY <1>3
    <3> QED  BY <3>1
  <2>2. Cardinality(S) = Cardinality(T)
    BY <2>1
  <2> QED  BY <1>2, <1>3, <2>2 DEF Moved
<1>4. CASE t \notin S /\ t \in T
  <2>1. T = S \cup {t}
    BY <1>4
  <2> QED  BY <1>1, <1>2, <1>4, <2>1, FS_AddElement DEF Moved
<1>5. CASE t \in S /\ t \notin T
  <2>1. T = S \ {t}
    BY <1>5
  <2> QED  BY <1>1, <1>2, <1>5, <2>1, FS_RemoveElement DEF Moved
<1> QED  BY <1>3, <1>4, <1>5

\* A set of threads with a member is not empty.
LEMMA CountPositive ==
  ASSUME NEW S \in SUBSET Threads, NEW t \in S
  PROVE  Cardinality(S) \in Nat \ {0}
<1>1. IsFiniteSet(S) /\ Cardinality(S) \in Nat
  BY FS_Subset, FS_CardinalityType
<1> QED  BY <1>1, FS_EmptySet

-----------------------------------------------------------------------------
(* Threads and their calls.                                                *)

PCs == {"idle"} \cup SendPCs \cup RecvPCs

\* The call a thread executes, and those left after it, are of its program.
LEMMA CallFacts ==
  ASSUME TypeOK, NEW t \in Threads, todo[t] # <<>>
  PROVE  /\ Call(t) \in SendCalls \cup RecvCalls
         /\ Call(t) \in CallsOf(t)
         /\ Tail(todo[t]) \in Seq(SendCalls \cup RecvCalls)
         /\ \A i \in DOMAIN Tail(todo[t]) : Tail(todo[t])[i] \in CallsOf(t)
<1>1. todo[t] \in Seq(SendCalls \cup RecvCalls)
  BY DEF TypeOK
<1>2. \A i \in 1 .. Len(todo[t]) : todo[t][i] \in CallsOf(t)
  BY <1>1 DEF TypeOK
<1>3. Call(t) = todo[t][1] /\ 1 \in 1 .. Len(todo[t])
  BY <1>1 DEF Call
<1> QED  BY <1>1, <1>2, <1>3, TailFacts

\* A thread inside OSMP_Send executes a send call that passed the checks.
LEMMA SendFacts ==
  ASSUME TypeOK, NEW t \in Threads, pc[t] \in SendPCs
  PROVE  /\ todo[t] # <<>> /\ Call(t) \in SendCalls
         /\ Dest(t) \in Ranks /\ Dest(t) # Self(t)
         /\ Call(t).len \in 0 .. MaxPayload /\ Call(t).data \in Data
<1>1. todo[t] # <<>> /\ Call(t).op = "send" /\ Sendable(t)
  BY DEF TypeOK
<1>2. Call(t) \in SendCalls
  BY <1>1, CallFacts DEF RecvCalls
<1> QED  BY <1>1, <1>2 DEF SendCalls, Sendable, Dest

\* A thread inside OSMP_Recv is its process's receiver.
LEMMA RecvFacts ==
  ASSUME TypeOK, NEW t \in Threads, pc[t] \in RecvPCs
  PROVE  todo[t] # <<>> /\ t \in Receivers /\ Self(t) \in Ranks
  BY CallFacts DEF TypeOK, Receivers, Self

\* One thread per process receives.
LEMMA OneReceiver ==
  ASSUME TypeOK, NEW t \in Threads, NEW u \in Threads,
         pc[t] \in RecvPCs, pc[u] \in RecvPCs, Self(t) = Self(u)
  PROVE  t = u
  BY RecvFacts, OneReceiverAssumption DEF Self

\* A step of thread t leaves the other threads where they are, and t in its
\* call unless the call returns.
Moves(t) ==
  /\ \A u \in Threads \ {t} :
       pc'[u] = pc[u] /\ todo'[u] = todo[u] /\ slot'[u] = slot[u]
  /\ pc' \in [Threads -> PCs]
  /\ \/ UNCHANGED todo /\ pc'[t] # "idle"
     \/ todo[t] # <<>> /\ todo' = [todo EXCEPT ![t] = Tail(@)] /\ pc'[t] = "idle"

\* A step of OSMP_Send moves one thread only.
LEMMA SendMoves ==
  ASSUME TypeOK, NEW t \in Threads, Send(t)
  PROVE  Moves(t)
<1>1. CASE SendCall(t) \/ SendRejected(t) \/ SendWaitProcFree(t)
           \/ SendWaitFreeSlots(t) \/ SendLockShm(t)
  BY <1>1 DEF SendCall, SendRejected, SendWaitProcFree, SendWaitFreeSlots,
              SendLockShm, Goto, Return, Moves, TypeOK, PCs, SendPCs
<1>2. CASE SendPopSlot(t) \/ SendHeader(t) \/ SendPayload(t)
           \/ SendLockProc(t) \/ SendEnqueue(t)
  BY <1>2 DEF SendPopSlot, SendHeader, SendPayload, SendLockProc, SendEnqueue,
              Goto, Moves, TypeOK, PCs, SendPCs
<1>3. CASE SendSignalFull(t)
  BY <1>3, SendFacts DEF SendSignalFull, Goto, Return, Moves, TypeOK, PCs, SendPCs
<1> QED  BY <1>1, <1>2, <1>3 DEF Send

\* A step of OSMP_Recv moves one thread only.
LEMMA RecvMoves ==
  ASSUME TypeOK, NEW t \in Threads, Recv(t)
  PROVE  Moves(t)
<1>1. CASE RecvCall(t) \/ RecvWaitFull(t) \/ RecvTake(t) \/ RecvLockShm(t)
           \/ RecvPushSlot(t)
  BY <1>1 DEF RecvCall, RecvWaitFull, RecvTake, RecvLockShm, RecvPushSlot,
              Goto, Moves, TypeOK, PCs, RecvPCs
<1>2. CASE RecvAccept(t) \/ RecvHeader(t) \/ RecvPayload(t)
           \/ RecvSignalFreeSlots(t)
  BY <1>2 DEF RecvAccept, RecvHeader, RecvPayload, RecvSignalFreeSlots, Goto,
              Moves, TypeOK, PCs, RecvPCs
<1>3. CASE RecvTooLong(t) \/ RecvSignalProcFree(t)
  BY <1>3, RecvFacts DEF RecvTooLong, RecvSignalProcFree, Goto, Return, Moves,
                         TypeOK, PCs, RecvPCs
<1> QED  BY <1>1, <1>2, <1>3 DEF Recv

\* The part of TypeOK about calls.
InCalls ==
  /\ pc \in [Threads -> PCs]
  /\ todo \in [Threads -> Seq(SendCalls \cup RecvCalls)]
  /\ \A t \in Threads :
       /\ pc[t] \in SendPCs => todo[t] # <<>> /\ Call(t).op = "send" /\ Sendable(t)
       /\ pc[t] \in RecvPCs => todo[t] # <<>> /\ Call(t).op = "recv"
       /\ \A i \in DOMAIN todo[t] : todo[t][i] \in CallsOf(t)

\* After a step every thread is still in the call its pc stands for.
LEMMA InCallsStep ==
  ASSUME TypeOK, NEW t \in Threads, Step(t)
  PROVE  InCalls'
<1>1. Moves(t)
  BY SendMoves, RecvMoves DEF Step
<1>2. InCalls
  BY DEF TypeOK, InCalls, PCs
<1>3. ASSUME NEW u \in Threads \ {t}
      PROVE  /\ pc'[u] \in SendPCs =>
                  todo'[u] # <<>> /\ Call(u)'.op = "send" /\ Sendable(u)'
             /\ pc'[u] \in RecvPCs => todo'[u] # <<>> /\ Call(u)'.op = "recv"
             /\ \A i \in DOMAIN todo'[u] : todo'[u][i] \in CallsOf(u)
  BY <1>1, <1>2 DEF Moves, InCalls, Call, Sendable, Dest, Self
<1>4. CASE todo[t] # <<>> /\ todo' = [todo EXCEPT ![t] = Tail(@)] /\ pc'[t] = "idle"
  BY <1>1, <1>2, <1>3, <1>4, CallFacts
     DEF InCalls, Moves, SendPCs, RecvPCs, TypeOK
<1>5. CASE UNCHANGED todo /\ pc'[t] # "idle"
  <2>1. pc'[t] \in SendPCs => pc[t] \in SendPCs \/ SendCall(t)
    BY <1>5 DEF Step, Send, Recv, SendRejected, SendWaitProcFree,
       SendWaitFreeSlots, SendLockShm, SendPopSlot, SendHeader, SendPayload,
       SendLockProc, SendEnqueue, SendSignalFull, RecvCall, RecvWaitFull,
       RecvTake, RecvLockShm, RecvPushSlot, RecvAccept, RecvTooLong,
       RecvHeader, RecvPayload, RecvSignalFreeSlots, RecvSignalProcFree, Goto,
       Return, SendPCs, RecvPCs, TypeOK
  <2>2. pc'[t] \in RecvPCs => pc[t] \in RecvPCs \/ RecvCall(t)
    BY <1>5 DEF Step, Send, Recv, SendCall, SendRejected, SendWaitProcFree,
       SendWaitFreeSlots, SendLockShm, SendPopSlot, SendHeader, SendPayload,
       SendLockProc, SendEnqueue, SendSignalFull, RecvWaitFull,
       RecvTake, RecvLockShm, RecvPushSlot, RecvAccept, RecvTooLong,
       RecvHeader, RecvPayload, RecvSignalFreeSlots, RecvSignalProcFree, Goto,
       Return, SendPCs, RecvPCs, TypeOK
  <2>3. pc'[t] \in SendPCs => todo[t] # <<>> /\ Call(t).op = "send" /\ Sendable(t)
    BY <1>2, <2>1 DEF InCalls, SendCall
  <2>4. pc'[t] \in RecvPCs => todo[t] # <<>> /\ Call(t).op = "recv"
    BY <1>2, <2>2 DEF InCalls, RecvCall
  <2> QED
    BY <1>1, <1>2, <1>3, <1>5, <2>3, <2>4
       DEF InCalls, Moves, Call, Sendable, Dest, Self
<1> QED  BY <1>1, <1>4, <1>5 DEF Moves

-----------------------------------------------------------------------------
(* Semaphores and permits.                                                 *)

\* A step of t changes the sets of threads that hold or await permits by t only.
LEMMA SetsMove ==
  ASSUME NEW t \in Threads, Moves(t)
  PROVE  /\ Moved(InShmMutex, InShmMutex', t)
         /\ Moved(SlotPromised, SlotPromised', t)
         /\ \A r \in Ranks : /\ Moved(InProcMutex(r), InProcMutex(r)', t)
                            /\ Moved(FullPromised(r), FullPromised(r)', t)
                            /\ Moved(PlaceReserved(r), PlaceReserved(r)', t)
<1>0. \A u \in Threads \ {t} : /\ pc'[u] = pc[u] /\ Dest(u)' = Dest(u)
                              /\ Self(u)' = Self(u)
  BY DEF Moves, Dest, Call, Self
<1>1. Moved(InShmMutex, InShmMutex', t)
  BY <1>0, CountMove DEF InShmMutex
<1>2. Moved(SlotPromised, SlotPromised', t)
  BY <1>0, CountMove DEF SlotPromised
<1> SUFFICES ASSUME NEW r \in Ranks
             PROVE  /\ Moved(InProcMutex(r), InProcMutex(r)', t)
                    /\ Moved(FullPromised(r), FullPromised(r)', t)
                    /\ Moved(PlaceReserved(r), PlaceReserved(r)', t)
  BY <1>1, <1>2
<1>3. Moved(InProcMutex(r), InProcMutex(r)', t)
  BY <1>0, CountMove DEF InProcMutex
<1>4. Moved(FullPromised(r), FullPromised(r)', t)
  BY <1>0, CountMove DEF FullPromised
<1>5. Moved(PlaceReserved(r), PlaceReserved(r)', t)
  BY <1>0, CountMove DEF PlaceReserved
<1> QED  BY <1>3, <1>4, <1>5

\* What a step of t does to shm_mutex, and where it takes t.
LEMMA ShmMutexCases ==
  ASSUME TypeOK, NEW t \in Threads, Step(t)
  PROVE  \/ /\ shm_mutex' = shm_mutex
            /\ t \notin InShmMutex /\ t \notin InShmMutex'
         \/ /\ shm_mutex = 1 /\ shm_mutex' = 0
            /\ t \notin InShmMutex /\ t \in InShmMutex'
         \/ /\ shm_mutex' = shm_mutex + 1
            /\ t \in InShmMutex /\ t \notin InShmMutex'
<1>1. CASE SendLockShm(t) \/ RecvLockShm(t)
  BY <1>1 DEF SendLockShm, RecvLockShm, Goto, InShmMutex, TypeOK
<1>2. CASE SendPopSlot(t) \/ RecvPushSlot(t)
  BY <1>2 DEF SendPopSlot, RecvPushSlot, Goto, InShmMutex, TypeOK
<1>3. CASE SendCall(t) \/ SendRejected(t) \/ SendWaitProcFree(t)
           \/ SendWaitFreeSlots(t) \/ SendHeader(t) \/ SendPayload(t)
           \/ SendLockProc(t) \/ SendEnqueue(t) \/ SendSignalFull(t)
  BY <1>3 DEF SendCall, SendRejected, SendWaitProcFree, SendWaitFreeSlots,
              SendHeader, SendPayload, SendLockProc, SendEnqueue,
              SendSignalFull, Goto, Return, shmVars, InShmMutex, TypeOK
<1>4. CASE RecvCall(t) \/ RecvWaitFull(t) \/ RecvTake(t) \/ RecvAccept(t)
           \/ RecvTooLong(t) \/ RecvHeader(t) \/ RecvPayload(t)
           \/ RecvSignalFreeSlots(t) \/ RecvSignalProcFree(t)
  BY <1>4 DEF RecvCall, RecvWaitFull, RecvTake, RecvAccept, RecvTooLong,
              RecvHeader, RecvPayload, RecvSignalFreeSlots,
              RecvSignalProcFree, Goto, Return, shmVars, InShmMutex, TypeOK
<1> QED  BY <1>1, <1>2, <1>3, <1>4 DEF Step, Send, Recv

\* What a step of t does to proc_mutex of rank r, and where it takes t.
LEMMA ProcMutexCases ==
  ASSUME TypeOK, NEW t \in Threads, Step(t), NEW r \in Ranks
  PROVE  \/ /\ proc_mutex'[r] = proc_mutex[r]
            /\ t \notin InProcMutex(r) /\ t \notin InProcMutex(r)'
         \/ /\ proc_mutex[r] = 1 /\ proc_mutex'[r] = 0
            /\ t \notin InProcMutex(r) /\ t \in InProcMutex(r)'
         \/ /\ proc_mutex'[r] = proc_mutex[r] + 1
            /\ t \in InProcMutex(r) /\ t \notin InProcMutex(r)'
<1>1. CASE SendLockProc(t)
  <2>1. proc_mutex \in [Ranks -> {0, 1}] /\ pc \in [Threads -> PCs]
    BY DEF TypeOK, PCs
  <2>2. Dest(t)' = Dest(t) /\ pc[t] = "S_procMutex" /\ pc'[t] = "S_enqueue"
    BY <1>1, <2>1 DEF SendLockProc, Goto, Dest, Call
  <2>3. Dest(t) \in Ranks /\ proc_mutex[Dest(t)] = 1
    BY <1>1, <2>1, <2>2, SendFacts DEF SendLockProc, SendPCs
  <2> QED  BY <1>1, <2>1, <2>2, <2>3 DEF SendLockProc, InProcMutex
<1>2. CASE SendEnqueue(t)
  BY <1>2, SendFacts DEF SendEnqueue, Goto, InProcMutex, TypeOK, Dest, Call
<1>3. CASE SendCall(t) \/ SendRejected(t) \/ SendWaitProcFree(t)
           \/ SendWaitFreeSlots(t) \/ SendLockShm(t) \/ SendPopSlot(t)
           \/ SendHeader(t) \/ SendPayload(t) \/ SendSignalFull(t)
  BY <1>3 DEF SendCall, SendRejected, SendWaitProcFree, SendWaitFreeSlots,
              SendLockShm, SendPopSlot, SendHeader, SendPayload,
              SendSignalFull, Goto, Return, procVars, InProcMutex, TypeOK
<1>4. CASE Recv(t)
  BY <1>4 DEF Recv, RecvCall, RecvWaitFull, RecvTake, RecvLockShm,
              RecvPushSlot, RecvAccept, RecvTooLong,
              RecvHeader, RecvPayload, RecvSignalFreeSlots,
              RecvSignalProcFree, Goto, Return, procVars, InProcMutex, TypeOK
<1> QED  BY <1>1, <1>2, <1>3, <1>4 DEF Step, Send

\* The two mutexes stay mutexes: a permit is free or held by one thread.
LEMMA LocksStep ==
  ASSUME TypeOK, Locks, NEW t \in Threads, Step(t), proc_mutex' \in [Ranks -> Int]
  PROVE  Locks' /\ shm_mutex' \in {0, 1} /\ proc_mutex' \in [Ranks -> {0, 1}]
<1>1. Moves(t)
  BY SendMoves, RecvMoves DEF Step
<1>2. shm_mutex' + Cardinality(InShmMutex') = 1 /\ shm_mutex' \in {0, 1}
  <2>1. Moved(InShmMutex, InShmMutex', t)
    BY <1>1, SetsMove
  <2>2. shm_mutex + Cardinality(InShmMutex) = 1 /\ shm_mutex \in {0, 1}
    BY DEF Locks, TypeOK
  <2> QED  BY <2>1, <2>2, ShmMutexCases DEF Moved
<1>3. ASSUME NEW r \in Ranks
      PROVE  /\ proc_mutex'[r] + Cardinality(InProcMutex(r)') = 1
             /\ proc_mutex'[r] \in {0, 1}
  <2>1. Moved(InProcMutex(r), InProcMutex(r)', t)
    BY <1>1, SetsMove
  <2>2. proc_mutex[r] + Cardinality(InProcMutex(r)) = 1 /\ proc_mutex[r] \in {0, 1}
    BY DEF Locks, TypeOK
  <2> QED  BY <2>1, <2>2, ProcMutexCases DEF Moved
<1> QED  BY <1>2, <1>3 DEF Locks

\* proc_full, the ring and the threads between the two.
FullCase(t, r) ==
  \/ /\ proc_full'[r] = proc_full[r] /\ queue'[r] = queue[r]
     /\ t \notin FullPromised(r) /\ t \notin FullPromised(r)'
  \/ /\ proc_full'[r] = proc_full[r]
     /\ Len(queue'[r]) = Len(queue[r]) + 1 /\ queue'[r] \in Seq(Slots)
     /\ t \notin FullPromised(r) /\ t \in FullPromised(r)'
  \/ /\ proc_full'[r] = proc_full[r] + 1 /\ queue'[r] = queue[r]
     /\ t \in FullPromised(r) /\ t \notin FullPromised(r)'
  \/ /\ proc_full[r] > 0
     /\ proc_full'[r] = proc_full[r] - 1 /\ queue'[r] = queue[r]
     /\ t \notin FullPromised(r) /\ t \in FullPromised(r)'
  \/ /\ proc_full'[r] = proc_full[r]
     /\ queue[r] # <<>> =>
          Len(queue'[r]) = Len(queue[r]) - 1 /\ queue'[r] \in Seq(Slots)
     /\ t \in FullPromised(r) /\ t \notin FullPromised(r)'

\* proc_full, the ring's contents and the threads between the two.
LEMMA FullCases ==
  ASSUME TypeOK, NEW t \in Threads, Step(t), NEW r \in Ranks
  PROVE  FullCase(t, r)
<1>0. /\ proc_full \in [Ranks -> Nat] /\ pc \in [Threads -> PCs]
      /\ queue \in [Ranks -> Seq(Slots)] /\ slot \in [Threads -> Slots]
  BY DEF TypeOK, PCs
<1>1. CASE SendEnqueue(t)
  <2>1. /\ Dest(t)' = Dest(t) /\ Dest(t) \in Ranks
        /\ pc[t] = "S_enqueue" /\ pc'[t] = "S_procFull"
    BY <1>0, <1>1, SendFacts DEF SendEnqueue, Goto, Dest, Call, SendPCs
  <2>2. /\ proc_full' = proc_full
        /\ queue' = [queue EXCEPT ![Dest(t)] = Append(@, slot[t])]
    BY <1>1 DEF SendEnqueue
  <2> QED  BY <1>0, <2>1, <2>2, AppendFacts DEF FullPromised, FullCase
<1>2. CASE SendSignalFull(t)
  <2>1. Dest(t) \in Ranks /\ pc[t] = "S_procFull" /\ pc'[t] = "idle"
    BY <1>0, <1>2, SendFacts DEF SendSignalFull, Return, Goto, SendPCs
  <2> QED  BY <1>0, <1>2, <2>1 DEF SendSignalFull, history, FullPromised, FullCase
<1>3. CASE RecvWaitFull(t)
  BY <1>0, <1>3 DEF RecvWaitFull, Goto, history, FullPromised, FullCase, Self
<1>4. CASE RecvTake(t)
  <2>1. queue[r] # <<>> => /\ Tail(queue[r]) \in Seq(Slots)
                           /\ Len(Tail(queue[r])) = Len(queue[r]) - 1
    BY <1>0, TailFacts
  <2> QED  BY <1>0, <1>4, <2>1 DEF RecvTake, Goto, FullPromised, FullCase, Self
<1>5. CASE SendCall(t) \/ SendRejected(t) \/ SendWaitProcFree(t)
           \/ SendWaitFreeSlots(t) \/ SendLockShm(t) \/ SendPopSlot(t)
           \/ SendHeader(t) \/ SendPayload(t) \/ SendLockProc(t)
  BY <1>0, <1>5
     DEF SendCall, SendRejected, SendWaitProcFree, SendWaitFreeSlots,
         SendLockShm, SendPopSlot, SendHeader, SendPayload, SendLockProc,
         Goto, Return, procVars, history, FullPromised, FullCase
<1>6. CASE RecvCall(t) \/ RecvLockShm(t) \/ RecvPushSlot(t) \/ RecvAccept(t)
           \/ RecvTooLong(t) \/ RecvHeader(t) \/ RecvPayload(t)
           \/ RecvSignalFreeSlots(t) \/ RecvSignalProcFree(t)
  BY <1>0, <1>6
     DEF RecvCall, RecvLockShm, RecvPushSlot, RecvAccept, RecvTooLong,
         RecvHeader, RecvPayload, RecvSignalFreeSlots, RecvSignalProcFree,
         Goto, Return, procVars, history, FullPromised, FullCase
<1> QED  BY <1>1, <1>2, <1>3, <1>4, <1>5, <1>6 DEF Step, Send, Recv

\* free_slots, the free list and the threads between the two.
LEMMA SlotCases ==
  ASSUME TypeOK, NEW t \in Threads, Step(t)
  PROVE  \/ /\ free_slots' = free_slots /\ free' = free
            /\ t \in SlotPromised <=> t \in SlotPromised'
         \/ /\ free_slots > 0 /\ free_slots' = free_slots - 1 /\ free' = free
            /\ t \notin SlotPromised /\ t \in SlotPromised'
         \/ /\ free_slots' = free_slots
            /\ free # <<>> => Len(free') = Len(free) - 1 /\ free' \in Seq(Slots)
            /\ t \in SlotPromised /\ t \notin SlotPromised'
         \/ /\ free_slots' = free_slots
            /\ Len(free') = Len(free) + 1 /\ free' \in Seq(Slots)
            /\ t \notin SlotPromised /\ t \in SlotPromised'
         \/ /\ free_slots' = IF RecvTooLong(t) THEN free_slots ELSE free_slots + 1
            /\ free' = free
            /\ t \in SlotPromised /\ t \notin SlotPromised'
<1>0. /\ pc \in [Threads -> PCs] /\ slot \in [Threads -> Slots]
      /\ free \in Seq(Slots)
  BY DEF TypeOK, PCs
<1>1. CASE SendWaitFreeSlots(t) \/ SendPopSlot(t)
  <2>1. free # <<>> => Len(Tail(free)) = Len(free) - 1 /\ Tail(free) \in Seq(Slots)
    BY <1>0, TailFacts
  <2> QED
  BY <1>0, <1>1, <2>1
     DEF SendWaitFreeSlots, SendPopSlot, Goto, history, SlotPromised
<1>2. CASE RecvPushSlot(t)
  BY <1>0, <1>2, PushFacts DEF RecvPushSlot, Goto, SlotPromised
<1>3. CASE RecvTooLong(t) \/ RecvSignalFreeSlots(t)
  BY <1>0, <1>3
     DEF RecvTooLong, RecvSignalFreeSlots, Goto, Return, shmVars, history,
         SlotPromised
<1>4. CASE SendCall(t) \/ SendRejected(t) \/ SendWaitProcFree(t)
           \/ SendLockShm(t) \/ SendHeader(t) \/ SendPayload(t)
           \/ SendLockProc(t) \/ SendEnqueue(t) \/ SendSignalFull(t)
  BY <1>0, <1>4
     DEF SendCall, SendRejected, SendWaitProcFree, SendLockShm, SendHeader,
         SendPayload, SendLockProc, SendEnqueue, SendSignalFull, Goto, Return,
         shmVars, history, SlotPromised
<1>5. CASE RecvCall(t) \/ RecvWaitFull(t) \/ RecvTake(t) \/ RecvLockShm(t)
           \/ RecvAccept(t) \/ RecvHeader(t) \/ RecvPayload(t)
           \/ RecvSignalProcFree(t)
  BY <1>0, <1>5
     DEF RecvCall, RecvWaitFull, RecvTake, RecvLockShm, RecvAccept,
         RecvHeader, RecvPayload, RecvSignalProcFree, Goto, Return, shmVars,
         history, SlotPromised
<1> QED  BY <1>1, <1>2, <1>3, <1>4, <1>5 DEF Step, Send, Recv

\* proc_free, the ring and the threads that hold a place in it.
PlaceCase(t, r) ==
  \/ /\ proc_free'[r] = proc_free[r] /\ queue'[r] = queue[r]
     /\ t \in PlaceReserved(r) <=> t \in PlaceReserved(r)'
  \/ /\ proc_free[r] > 0
     /\ proc_free'[r] = proc_free[r] - 1 /\ queue'[r] = queue[r]
     /\ t \notin PlaceReserved(r) /\ t \in PlaceReserved(r)'
  \/ /\ proc_free'[r] = proc_free[r]
     /\ Len(queue'[r]) = Len(queue[r]) + 1 /\ queue'[r] \in Seq(Slots)
     /\ t \in PlaceReserved(r) /\ t \notin PlaceReserved(r)'
  \/ /\ proc_free'[r] = proc_free[r]
     /\ queue[r] # <<>> => Len(queue'[r]) = Len(queue[r]) - 1
     /\ t \in FullPromised(r)
     /\ t \notin PlaceReserved(r) /\ t \in PlaceReserved(r)'
  \/ /\ proc_free'[r] = IF RecvTooLong(t) THEN proc_free[r] ELSE proc_free[r] + 1
     /\ queue'[r] = queue[r]
     /\ t \in PlaceReserved(r) /\ t \notin PlaceReserved(r)'

\* proc_free, the ring's contents and the threads that hold a place in it.
LEMMA PlaceCases ==
  ASSUME TypeOK, NEW t \in Threads, Step(t), NEW r \in Ranks
  PROVE  PlaceCase(t, r)
<1>0. /\ proc_free \in [Ranks -> Nat] /\ pc \in [Threads -> PCs]
      /\ queue \in [Ranks -> Seq(Slots)] /\ slot \in [Threads -> Slots]
  BY DEF TypeOK, PCs
<1> USE DEF ReservedPCs, EmptiedPCs
<1>1. CASE SendWaitProcFree(t)
  <2>1. /\ Dest(t)' = Dest(t) /\ Dest(t) \in Ranks
        /\ pc[t] = "S_procFree" /\ pc'[t] = "S_freeSlots"
    BY <1>0, <1>1, SendFacts DEF SendWaitProcFree, Goto, Dest, Call, SendPCs
  <2>2. /\ queue' = queue /\ proc_free[Dest(t)] > 0
        /\ proc_free' = [proc_free EXCEPT ![Dest(t)] = @ - 1]
    BY <1>1 DEF SendWaitProcFree, history
  <2> QED  BY <1>0, <2>1, <2>2 DEF PlaceReserved, PlaceCase
<1>2. CASE SendEnqueue(t)
  <2>1. /\ Dest(t)' = Dest(t) /\ Dest(t) \in Ranks
        /\ pc[t] = "S_enqueue" /\ pc'[t] = "S_procFull"
    BY <1>0, <1>2, SendFacts DEF SendEnqueue, Goto, Dest, Call, SendPCs
  <2>2. /\ proc_free' = proc_free
        /\ queue' = [queue EXCEPT ![Dest(t)] = Append(@, slot[t])]
    BY <1>2 DEF SendEnqueue
  <2> QED  BY <1>0, <2>1, <2>2, AppendFacts DEF PlaceReserved, PlaceCase
<1>3. CASE RecvTake(t)
  <2>1. queue[r] # <<>> => Len(Tail(queue[r])) = Len(queue[r]) - 1
    BY <1>0, TailFacts
  <2> QED  BY <1>0, <1>3, <2>1 DEF RecvTake, Goto, PlaceReserved, PlaceCase, FullPromised, Self
<1>4. CASE RecvTooLong(t) \/ RecvSignalProcFree(t)
  BY <1>0, <1>4
     DEF RecvTooLong, RecvSignalProcFree, Goto, Return, procVars,
         PlaceReserved, PlaceCase, Self
<1>5. CASE SendCall(t) \/ SendRejected(t) \/ SendSignalFull(t)
  BY <1>0, <1>5
     DEF SendCall, SendRejected, SendSignalFull, Goto, Return, procVars,
         history, PlaceReserved, PlaceCase
<1>6. CASE SendWaitFreeSlots(t) \/ SendLockShm(t) \/ SendPopSlot(t)
           \/ SendHeader(t) \/ SendPayload(t) \/ SendLockProc(t)
  BY <1>0, <1>6
     DEF SendWaitFreeSlots, SendLockShm, SendPopSlot, SendHeader, SendPayload,
         SendLockProc, Goto, procVars, history, PlaceReserved, PlaceCase, Dest, Call
<1>7. CASE RecvCall(t) \/ RecvWaitFull(t) \/ RecvLockShm(t)
           \/ RecvPushSlot(t) \/ RecvAccept(t) \/ RecvHeader(t)
           \/ RecvPayload(t) \/ RecvSignalFreeSlots(t)
  BY <1>0, <1>7
     DEF RecvCall, RecvWaitFull, RecvLockShm, RecvPushSlot, RecvAccept,
         RecvHeader, RecvPayload, RecvSignalFreeSlots, Goto, procVars,
         history, PlaceReserved, PlaceCase, Self
<1> QED
  BY <1>1, <1>2, <1>3, <1>4, <1>5, <1>6, <1>7 DEF Step, Send, Recv

\* No step lets a semaphore promise more than there is.
LEMMA PermitsStep ==
  ASSUME TypeOK, PermitsSuffice, NEW t \in Threads, Step(t)
  PROVE  /\ PermitsSuffice'
         /\ free_slots' \in Nat /\ free' \in Seq(Slots)
         /\ \A r \in Ranks : /\ proc_full'[r] \in Nat /\ proc_free'[r] \in Nat
                            /\ queue'[r] \in Seq(Slots)
<1>0. Moves(t)
  BY SendMoves, RecvMoves DEF Step
<1>1. /\ free_slots' + Cardinality(SlotPromised') <= Len(free')
      /\ free_slots' \in Nat /\ free' \in Seq(Slots)
  <2>1. Moved(SlotPromised, SlotPromised', t)
    BY <1>0, SetsMove
  <2>2. free_slots + Cardinality(SlotPromised) <= Len(free)
    BY DEF PermitsSuffice
  <2>3. free_slots \in Nat /\ free \in Seq(Slots) /\ Len(free) \in Nat
    BY DEF TypeOK
  <2>4. t \in SlotPromised => Cardinality(SlotPromised) \in Nat \ {0} /\ free # <<>>
    <3>1. SlotPromised \in SUBSET Threads
      BY DEF SlotPromised
    <3> QED  BY <2>2, <2>3, <3>1, CountPositive
  <2> QED  BY <2>1, <2>2, <2>3, <2>4, SlotCases DEF Moved
<1>2. ASSUME NEW r \in Ranks
      PROVE  /\ proc_full'[r] + Cardinality(FullPromised(r)') = Len(queue'[r])
             /\ proc_free'[r] + Len(queue'[r]) + Cardinality(PlaceReserved(r)')
                  <= MaxMessagesProc
             /\ proc_full'[r] \in Nat /\ proc_free'[r] \in Nat
             /\ queue'[r] \in Seq(Slots)
  <2>1. /\ Moved(FullPromised(r), FullPromised(r)', t)
        /\ Moved(PlaceReserved(r), PlaceReserved(r)', t)
    BY <1>0, SetsMove
  <2>2. /\ proc_full[r] + Cardinality(FullPromised(r)) = Len(queue[r])
        /\ proc_free[r] + Len(queue[r]) + Cardinality(PlaceReserved(r))
             <= MaxMessagesProc
    BY DEF PermitsSuffice
  <2>3. /\ proc_full[r] \in Nat /\ proc_free[r] \in Nat
        /\ queue[r] \in Seq(Slots) /\ Len(queue[r]) \in Nat
    BY DEF TypeOK
  <2>4. t \in FullPromised(r) =>
          Cardinality(FullPromised(r)) \in Nat \ {0} /\ queue[r] # <<>>
    <3>1. FullPromised(r) \in SUBSET Threads
      BY DEF FullPromised
    <3> QED  BY <2>2, <2>3, <3>1, CountPositive
  <2>5. /\ proc_full'[r] + Cardinality(FullPromised(r)') = Len(queue'[r])
        /\ proc_full'[r] \in Nat /\ queue'[r] \in Seq(Slots)
    <3>1. FullCase(t, r)
      BY FullCases
    <3> DEFINE C == Cardinality(FullPromised(r))
               D == Cardinality(FullPromised(r)')
               p == proc_full[r]
               q == proc_full'[r]
               l == Len(queue[r])
               m == Len(queue'[r])
    <3>2. C \in Nat /\ D \in Nat
      BY <2>1 DEF Moved
    <3>6. p + C = l
      BY <2>2
    <3>3. CASE t \notin FullPromised(r) /\ t \notin FullPromised(r)'
      <4>1. D = C
        BY <2>1, <3>3 DEF Moved
      <4>2. proc_full'[r] = proc_full[r] /\ queue'[r] = queue[r]
        BY <3>1, <3>3 DEF FullCase
      <4> QED  BY <2>2, <2>3, <4>1, <4>2
    <3>4. CASE t \notin FullPromised(r) /\ t \in FullPromised(r)'
      <4>1. D = C + 1
        BY <2>1, <3>4 DEF Moved
      <4>2. \/ /\ proc_full'[r] = proc_full[r]
               /\ Len(queue'[r]) = Len(queue[r]) + 1 /\ queue'[r] \in Seq(Slots)
            \/ /\ proc_full[r] > 0
               /\ proc_full'[r] = proc_full[r] - 1 /\ queue'[r] = queue[r]
        BY <3>1, <3>4 DEF FullCase
      <4>3. queue'[r] \in Seq(Slots)
        BY <2>3, <4>2
      <4>4. proc_full'[r] \in Nat
        BY <2>3, <4>2
      <4>5. \/ q = p /\ m = l + 1
            \/ q = p - 1 /\ m = l
        BY <4>2
      <4>6. q + D = m
        <5>1. p \in Nat /\ l \in Nat /\ q \in Nat /\ m \in Nat
          BY <2>3, <4>3, <4>4
        <5> HIDE DEF p, q, l, m, C, D
        <5> QED  BY <3>2, <3>6, <4>1, <4>5, <5>1
      <4> QED  BY <4>3, <4>4, <4>6
    <3>5. CASE t \in FullPromised(r) /\ t \notin FullPromised(r)'
      <4>1. D = C - 1
        BY <2>1, <3>5 DEF Moved
      <4>2. \/ proc_full'[r] = proc_full[r] + 1 /\ queue'[r] = queue[r]
            \/ /\ proc_full'[r] = proc_full[r]
               /\ Len(queue'[r]) = Len(queue[r]) - 1 /\ queue'[r] \in Seq(Slots)
        BY <2>4, <3>1, <3>5 DEF FullCase
      <4>3. queue'[r] \in Seq(Slots)
        BY <2>3, <4>2
      <4>4. proc_full'[r] \in Nat
        BY <2>3, <4>2
      <4>5. \/ q = p + 1 /\ m = l
            \/ q = p /\ m = l - 1
        BY <4>2
      <4>6. q + D = m
        <5>1. p \in Nat /\ l \in Nat /\ q \in Nat /\ m \in Nat
          BY <2>3, <4>3, <4>4
        <5> HIDE DEF p, q, l, m, C, D
        <5> QED  BY <3>2, <3>6, <4>1, <4>5, <5>1
      <4> QED  BY <4>3, <4>4, <4>6
    <3> QED  BY <3>1, <3>3, <3>4, <3>5 DEF FullCase
  <2>6. /\ proc_free'[r] + Len(queue'[r]) + Cardinality(PlaceReserved(r)')
             <= MaxMessagesProc
        /\ proc_free'[r] \in Nat
    <3>1. PlaceCase(t, r)
      BY PlaceCases
    <3> DEFINE C == Cardinality(PlaceReserved(r))
               D == Cardinality(PlaceReserved(r)')
               p == proc_free[r]
               q == proc_free'[r]
               l == Len(queue[r])
               m == Len(queue'[r])
    <3>2. /\ C \in Nat /\ D \in Nat /\ MaxMessagesProc \in Nat
          /\ p \in Nat /\ l \in Nat
      BY <2>1, <2>3 DEF Moved
    <3>6. p + l + C <= MaxMessagesProc
      BY <2>2
    <3>3. CASE t \in PlaceReserved(r) <=> t \in PlaceReserved(r)'
      <4>1. D = C
        BY <2>1, <3>3 DEF Moved
      <4>2. proc_free'[r] = proc_free[r] /\ queue'[r] = queue[r]
        BY <3>1, <3>3 DEF PlaceCase
      <4> QED  BY <2>2, <2>3, <4>1, <4>2
    <3>4. CASE t \notin PlaceReserved(r) /\ t \in PlaceReserved(r)'
      <4>1. D = C + 1
        BY <2>1, <3>4 DEF Moved
      <4>2. \/ /\ proc_free'[r] = proc_free[r]
               /\ Len(queue'[r]) = Len(queue[r]) - 1
            \/ /\ proc_free[r] > 0
               /\ proc_free'[r] = proc_free[r] - 1 /\ queue'[r] = queue[r]
        BY <2>4, <3>1, <3>4 DEF PlaceCase
      <4>3. \/ q = p /\ m = l - 1
            \/ p > 0 /\ q = p - 1 /\ m = l
        BY <4>2
      <4>4. q + m + D <= MaxMessagesProc /\ q \in Nat
        <5> HIDE DEF p, q, l, m, C, D
        <5> QED  BY <3>2, <3>6, <4>1, <4>3
      <4> QED  BY <4>4
    <3>5. CASE t \in PlaceReserved(r) /\ t \notin PlaceReserved(r)'
      <4>1. D = C - 1
        BY <2>1, <3>5 DEF Moved
      <4>2. \/ q \in {p, p + 1} /\ m = l
            \/ q = p /\ m = l + 1
        BY <3>1, <3>5 DEF PlaceCase
      <4>3. q + m + D <= MaxMessagesProc /\ q \in Nat
        <5> HIDE DEF p, q, l, m, C, D
        <5> QED  BY <3>2, <3>6, <4>1, <4>2
      <4> QED  BY <4>3
    <3> QED  BY <3>3, <3>4, <3>5
  <2> QED  BY <2>5, <2>6
<1> QED  BY <1>1, <1>2 DEF PermitsSuffice

-----------------------------------------------------------------------------
(* Types.                                                                  *)

\* The part of TypeOK about shared memory and results; what a semaphore or a
\* sequence holds follows from Locks and PermitsSuffice.
InMemory ==
  /\ actual_free_slot \in Slots
  /\ messages \in [Slots -> Message]
  /\ next_free_msg_slot \in [Slots -> Slots]
  /\ proc_mutex \in [Ranks -> Int]
  /\ proc_full \in [Ranks -> Int] /\ proc_free \in [Ranks -> Int]
  /\ read_index \in [Ranks -> 0 .. MaxMessagesProc]
  /\ write_index \in [Ranks -> 0 .. MaxMessagesProc]
  /\ msg_slots \in [Ranks -> [RingIndex -> Slots]]
  /\ slot \in [Threads -> Slots] /\ out \in [Threads -> Results]
  /\ queue = [r \in Ranks |-> queue[r]]
  /\ taken \in [Ranks -> Seq(Message)] /\ got \in [Ranks -> Seq(Results)]

\* The part of the types that only depends on memory follows from TypeOK.
LEMMA InMemoryStart ==
  ASSUME TypeOK
  PROVE  InMemory
<1>1. /\ proc_mutex \in [Ranks -> Int] /\ proc_full \in [Ranks -> Int]
      /\ proc_free \in [Ranks -> Int]
  BY DEF TypeOK
<1>2. queue = [r \in Ranks |-> queue[r]]
  BY DEF TypeOK
<1> QED  BY <1>1, <1>2 DEF TypeOK, InMemory

\* A ring index stays in range when it is wrapped and incremented.
LEMMA IndexStep ==
  ASSUME NEW i \in 0 .. MaxMessagesProc
  PROVE  /\ i % MaxMessagesProc \in RingIndex
         /\ (i % MaxMessagesProc) + 1 \in 0 .. MaxMessagesProc
<1>1. i \in Nat /\ MaxMessagesProc \in Nat \ {0}
  OBVIOUS
<1> QED  BY <1>1, ModFacts DEF RingIndex

\* A semaphore of one rank counted up or down is still an integer.
LEMMA CounterStep ==
  ASSUME NEW f \in [Ranks -> Int], NEW r \in Ranks
  PROVE  /\ [f EXCEPT ![r] = f[r] + 1] \in [Ranks -> Int]
         /\ [f EXCEPT ![r] = f[r] - 1] \in [Ranks -> Int]
<1>1. f[r] + 1 \in Int /\ f[r] - 1 \in Int
  OBVIOUS
<1> QED  BY <1>1

\* A step of OSMP_Send keeps memory well typed.
LEMMA SendMemory ==
  ASSUME TypeOK, NEW t \in Threads, Send(t)
  PROVE  InMemory'
<1>0. InMemory /\ RankOf[t] \in Ranks
  BY InMemoryStart
<1>1. CASE SendCall(t) \/ SendRejected(t) \/ SendWaitFreeSlots(t) \/ SendLockShm(t)
  BY <1>0, <1>1 DEF SendCall, SendRejected, SendWaitFreeSlots, SendLockShm,
     shmVars, procVars, history, InMemory
<1>2. CASE SendPopSlot(t)
  BY <1>0, <1>2 DEF SendPopSlot, procVars, InMemory
<1>3. CASE SendHeader(t)
  <2>1. slot[t] \in Slots /\ messages[slot[t]] \in Message
    BY <1>0 DEF InMemory
  <2>2. Self(t) \in Ranks /\ Call(t).len \in 0 .. MaxPayload
    BY <1>0, <1>3, SendFacts DEF SendHeader, Goto, SendPCs, Self
  <2>3. [messages[slot[t]] EXCEPT !.src = Self(t), !.len = Call(t).len] \in Message
    BY <2>1, <2>2 DEF Message
  <2>4. messages' \in [Slots -> Message]
    BY <1>0, <1>3, <2>1, <2>2, <2>3 DEF SendHeader, InMemory, Message
  <2> QED  BY <1>0, <1>3, <2>4 DEF SendHeader, procVars, history, InMemory
<1>4. CASE SendPayload(t)
  <2>1. slot[t] \in Slots /\ messages[slot[t]] \in Message
    BY <1>0 DEF InMemory
  <2>2. Call(t).data \in Data
    BY <1>0, <1>4, SendFacts DEF SendPayload, Goto, SendPCs
  <2>4. messages' \in [Slots -> Message]
    BY <1>0, <1>4, <2>1, <2>2 DEF SendPayload, InMemory, Message
  <2> QED  BY <1>0, <1>4, <2>4 DEF SendPayload, procVars, history, InMemory
<1>5. CASE SendWaitProcFree(t) \/ SendLockProc(t) \/ SendSignalFull(t)
  <2>1. Dest(t) \in Ranks
    BY <1>5, SendFacts DEF SendWaitProcFree, SendLockProc, SendSignalFull, Goto,
                           Return, SendPCs
  <2>2. CASE SendWaitProcFree(t)
    <3>1. proc_free' \in [Ranks -> Int]
      BY <1>0, <2>1, <2>2, CounterStep DEF SendWaitProcFree, InMemory
    <3> QED  BY <1>0, <2>2, <3>1 DEF SendWaitProcFree, shmVars, history, InMemory
  <2>3. CASE SendLockProc(t)
    <3>1. proc_mutex' \in [Ranks -> Int]
      BY <1>0, <2>1, <2>3, CounterStep DEF SendLockProc, InMemory
    <3> QED  BY <1>0, <2>3, <3>1 DEF SendLockProc, shmVars, history, InMemory
  <2>4. CASE SendSignalFull(t)
    <3>1. proc_full' \in [Ranks -> Int]
      BY <1>0, <2>1, <2>4, CounterStep DEF SendSignalFull, InMemory
    <3> QED  BY <1>0, <2>4, <3>1 DEF SendSignalFull, shmVars, history, InMemory
  <2> QED  BY <1>5, <2>2, <2>3, <2>4
<1>6. CASE SendEnqueue(t)
  <2>1. Dest(t) \in Ranks
    BY <1>6, SendFacts DEF SendEnqueue, Goto, SendPCs
  <2>2. /\ write_index[Dest(t)] % MaxMessagesProc \in RingIndex
        /\ (write_index[Dest(t)] % MaxMessagesProc) + 1 \in 0 .. MaxMessagesProc
    BY <1>0, <2>1, IndexStep DEF InMemory
  <2>3. proc_mutex' \in [Ranks -> Int]
    BY <1>0, <1>6, <2>1, CounterStep DEF SendEnqueue, InMemory
  <2>4. write_index' \in [Ranks -> 0 .. MaxMessagesProc]
    BY <1>0, <1>6, <2>2 DEF SendEnqueue, InMemory
  <2>5. msg_slots' \in [Ranks -> [RingIndex -> Slots]]
    BY <1>0, <1>6, <2>1, <2>2 DEF SendEnqueue, InMemory
  <2>6. queue' = [r \in Ranks |-> queue'[r]]
    BY <1>0, <1>6 DEF SendEnqueue, InMemory
  <2> QED  BY <1>0, <1>6, <2>3, <2>4, <2>5, <2>6 DEF SendEnqueue, shmVars, InMemory
<1> QED  BY <1>1, <1>2, <1>3, <1>4, <1>5, <1>6 DEF Send

\* A step of OSMP_Recv keeps memory well typed.
LEMMA RecvMemory ==
  ASSUME TypeOK, NEW t \in Threads, Recv(t)
  PROVE  InMemory'
<1>0. InMemory /\ Self(t) \in Ranks
  BY InMemoryStart DEF Self
<1>1. CASE RecvCall(t) \/ RecvLockShm(t) \/ RecvAccept(t) \/ RecvSignalFreeSlots(t)
  BY <1>0, <1>1 DEF RecvCall, RecvLockShm, RecvAccept, RecvSignalFreeSlots,
     shmVars, procVars, history, InMemory
<1>2. CASE RecvWaitFull(t)
  <2>1. proc_full' \in [Ranks -> Int]
    BY <1>0, <1>2, CounterStep DEF RecvWaitFull, InMemory
  <2> QED  BY <1>0, <1>2, <2>1 DEF RecvWaitFull, shmVars, history, InMemory
<1>3. CASE RecvTake(t)
  <2>1. /\ read_index[Self(t)] % MaxMessagesProc \in RingIndex
        /\ (read_index[Self(t)] % MaxMessagesProc) + 1 \in 0 .. MaxMessagesProc
    BY <1>0, IndexStep DEF InMemory
  <2>2. msg_slots[Self(t)][read_index[Self(t)] % MaxMessagesProc] \in Slots
    BY <1>0, <2>1 DEF InMemory
  <2>3. slot' \in [Threads -> Slots]
    BY <1>0, <1>3, <2>2 DEF RecvTake, InMemory
  <2>4. read_index' \in [Ranks -> 0 .. MaxMessagesProc]
    BY <1>0, <1>3, <2>1 DEF RecvTake, InMemory
  <2>5. taken' \in [Ranks -> Seq(Message)]
    BY <1>0, <1>3, <2>2, AppendFacts DEF RecvTake, InMemory
  <2>6. queue' = [r \in Ranks |-> queue'[r]]
    BY <1>0, <1>3 DEF RecvTake, InMemory
  <2> QED  BY <1>0, <1>3, <2>3, <2>4, <2>5, <2>6 DEF RecvTake, shmVars, InMemory
<1>4. CASE RecvPushSlot(t)
  BY <1>0, <1>4 DEF RecvPushSlot, procVars, InMemory
<1>5. CASE RecvTooLong(t)
  <2>1. Failed \in Results
    BY DEF Failed, Results
  <2>2. got' \in [Ranks -> Seq(Results)]
    BY <1>0, <1>5, <2>1, AppendFacts DEF RecvTooLong, InMemory
  <2> QED  BY <1>0, <1>5, <2>2 DEF RecvTooLong, shmVars, procVars, InMemory
<1>6. CASE RecvHeader(t) \/ RecvPayload(t)
  <2>1. /\ messages[slot[t]].src \in Ranks \cup {-1}
        /\ messages[slot[t]].len \in 0 .. MaxPayload
        /\ messages[slot[t]].data \in Data \cup {NoData}
    BY <1>0 DEF InMemory, Message
  <2>2. out' \in [Threads -> Results]
    <3>1. out[t] \in Results /\ out \in [Threads -> Results]
      BY <1>0 DEF InMemory
    <3>2. [out[t] EXCEPT !.src = messages[slot[t]].src,
                         !.len = messages[slot[t]].len] \in Results
      BY <2>1, <3>1 DEF Results
    <3>3. [out[t] EXCEPT !.data = messages[slot[t]].data] \in Results
      BY <2>1, <3>1 DEF Results
    <3>4. CASE RecvHeader(t)
      BY <3>1, <3>2, <3>4 DEF RecvHeader, Results
    <3>5. CASE RecvPayload(t)
      BY <3>1, <3>3, <3>5 DEF RecvPayload, Results
    <3> QED  BY <1>6, <3>4, <3>5
  <2> QED  BY <1>0, <1>6, <2>2
     DEF RecvHeader, RecvPayload, shmVars, procVars, history, InMemory
<1>7. CASE RecvSignalProcFree(t)
  <2>1. proc_free' \in [Ranks -> Int]
    BY <1>0, <1>7, CounterStep DEF RecvSignalProcFree, InMemory
  <2>2. got' \in [Ranks -> Seq(Results)]
    BY <1>0, <1>7, AppendFacts DEF RecvSignalProcFree, InMemory
  <2> QED  BY <1>0, <1>7, <2>1, <2>2 DEF RecvSignalProcFree, shmVars, InMemory
<1> QED  BY <1>1, <1>2, <1>3, <1>4, <1>5, <1>6, <1>7 DEF Recv

\* Types, mutexes and permits are preserved together.
LEMMA TypeStep ==
  ASSUME TypeOK, Locks, PermitsSuffice, NEW t \in Threads, Step(t)
  PROVE  TypeOK' /\ Locks' /\ PermitsSuffice'
<1>1. InMemory'
  BY SendMemory, RecvMemory DEF Step
<1>2. InCalls'
  BY InCallsStep
<1>3. Locks' /\ shm_mutex' \in {0, 1} /\ proc_mutex' \in [Ranks -> {0, 1}]
  BY <1>1, LocksStep DEF InMemory
<1>4. /\ PermitsSuffice'
      /\ free_slots' \in Nat /\ free' \in Seq(Slots)
      /\ \A r \in Ranks : /\ proc_full'[r] \in Nat /\ proc_free'[r] \in Nat
                         /\ queue'[r] \in Seq(Slots)
  BY PermitsStep
<1>5. proc_full' \in [Ranks -> Nat] /\ proc_free' \in [Ranks -> Nat]
  BY <1>1, <1>4 DEF InMemory
<1>6. queue' \in [Ranks -> Seq(Slots)]
  BY <1>1, <1>4 DEF InMemory
<1> QED
  BY <1>1, <1>2, <1>3, <1>4, <1>5, <1>6 DEF TypeOK, InMemory, InCalls, PCs

-----------------------------------------------------------------------------
(* Slots.                                                                  *)

\* A thread that is about to pop, take or publish a slot can do so: the free
\* list or the ring has one for it, or the ring has room.
LEMMA Promises ==
  ASSUME TypeOK, PermitsSuffice, FreeListIntact, RingIntact, NEW t \in Threads
  PROVE  /\ pc[t] = "S_pop" => free # <<>> /\ actual_free_slot = free[1]
         /\ pc[t] = "R_take" =>
              LET r == Self(t)
              IN  /\ r \in Ranks /\ queue[r] # <<>>
                  /\ msg_slots[r][read_index[r] % MaxMessagesProc] = queue[r][1]
         /\ pc[t] = "S_enqueue" =>
              Dest(t) \in Ranks /\ Len(queue[Dest(t)]) < MaxMessagesProc
<1>1. CASE pc[t] = "S_pop"
  <2>1. t \in SlotPromised /\ SlotPromised \in SUBSET Threads
    BY <1>1 DEF SlotPromised
  <2>2. Cardinality(SlotPromised) \in Nat \ {0}
    BY <2>1, CountPositive
  <2>3. free # <<>>
    BY <2>2 DEF TypeOK, PermitsSuffice
  <2> QED  BY <1>1, <2>3 DEF FreeListIntact
<1>2. CASE pc[t] = "R_take"
  <2> DEFINE r == Self(t)
  <2>1. r \in Ranks
    BY DEF Self
  <2>2. t \in FullPromised(r) /\ FullPromised(r) \in SUBSET Threads
    BY <1>2 DEF FullPromised
  <2>3. Cardinality(FullPromised(r)) \in Nat \ {0}
    BY <2>2, CountPositive
  <2>4. proc_full[r] \in Nat /\ queue[r] \in Seq(Slots)
    BY <2>1 DEF TypeOK
  <2>5. queue[r] # <<>> /\ 1 \in 1 .. Len(queue[r])
    BY <2>1, <2>3, <2>4 DEF PermitsSuffice
  <2>6. read_index[r] + 1 - 1 = read_index[r]
    BY <2>1 DEF TypeOK
  <2>7. msg_slots[r][read_index[r] % MaxMessagesProc] = queue[r][1]
    BY <2>1, <2>5, <2>6 DEF RingIntact
  <2> QED  BY <1>2, <2>1, <2>5, <2>7
<1>3. CASE pc[t] = "S_enqueue"
  <2> DEFINE r == Dest(t)
  <2>1. r \in Ranks
    BY <1>3, SendFacts DEF SendPCs
  <2>2. t \in PlaceReserved(r) /\ PlaceReserved(r) \in SUBSET Threads
    BY <1>3 DEF PlaceReserved, ReservedPCs
  <2>3. Cardinality(PlaceReserved(r)) \in Nat \ {0}
    BY <2>2, CountPositive
  <2>4. proc_free[r] \in Nat /\ queue[r] \in Seq(Slots) /\ Len(queue[r]) \in Nat
    BY <2>1 DEF TypeOK
  <2>5. proc_free[r] + Len(queue[r]) + Cardinality(PlaceReserved(r))
          <= MaxMessagesProc
    BY <2>1 DEF PermitsSuffice
  <2>6. Len(queue[r]) < MaxMessagesProc
    BY <2>3, <2>4, <2>5
  <2> QED  BY <1>3, <2>1, <2>6
<1> QED  BY <1>1, <1>2, <1>3

\* The ways a step of t moves a slot between the free list, a ring and t.
Stays(t) ==
  free' = free /\ queue' = queue /\ slot' = slot /\ (t \in Owners <=> t \in Owners')
Pops(t) ==
  /\ pc[t] = "S_pop"
  /\ free' = Tail(free) /\ queue' = queue /\ slot' = [slot EXCEPT ![t] = free[1]]
  /\ free # <<>> /\ t \notin Owners /\ t \in Owners'
Publishes(t) ==
  /\ pc[t] = "S_enqueue"
  /\ free' = free /\ slot' = slot
  /\ Dest(t) \in Ranks
  /\ queue' = [queue EXCEPT ![Dest(t)] = Append(queue[Dest(t)], slot[t])]
  /\ t \in Owners /\ t \notin Owners'
Takes(t) ==
  /\ pc[t] = "R_take"
  /\ free' = free /\ slot' = [slot EXCEPT ![t] = queue[Self(t)][1]]
  /\ Self(t) \in Ranks /\ queue[Self(t)] # <<>>
  /\ queue' = [queue EXCEPT ![Self(t)] = Tail(queue[Self(t)])]
  /\ t \notin Owners /\ t \in Owners'
Pushes(t) ==
  /\ pc[t] = "R_push"
  /\ free' = <<slot[t]>> \o free /\ queue' = queue /\ slot' = slot
  /\ t \in Owners /\ t \notin Owners'

\* A step moves at most one slot: from the free list to a sender, from there to
\* a ring, from there to a receiver, or from there back to the free list.
LEMMA SlotMoves ==
  ASSUME TypeOK, PermitsSuffice, FreeListIntact, RingIntact,
         NEW t \in Threads, Step(t)
  PROVE  \/ Stays(t) /\ ~SendPopSlot(t) /\ ~SendEnqueue(t) /\ ~RecvTake(t) /\ ~RecvPushSlot(t)
         \/ Pops(t) /\ SendPopSlot(t)
         \/ Publishes(t) /\ SendEnqueue(t)
         \/ Takes(t) /\ RecvTake(t)
         \/ Pushes(t) /\ RecvPushSlot(t)
<1>0. pc \in [Threads -> PCs]
  BY DEF TypeOK, PCs
<1>1. CASE SendPopSlot(t)
  BY <1>0, <1>1, Promises DEF SendPopSlot, Goto, Pops, Owners, OwnerPCs
<1>2. CASE SendEnqueue(t)
  BY <1>0, <1>2, Promises DEF SendEnqueue, Goto, Publishes, Owners, OwnerPCs
<1>3. CASE RecvTake(t)
  BY <1>0, <1>3, Promises DEF RecvTake, Goto, Takes, Owners, OwnerPCs
<1>4. CASE RecvPushSlot(t)
  BY <1>0, <1>4 DEF RecvPushSlot, Goto, Pushes, Owners, OwnerPCs
<1>5. ASSUME ~SendPopSlot(t), ~SendEnqueue(t), ~RecvTake(t), ~RecvPushSlot(t)
      PROVE  Stays(t)
  <2>1. CASE SendCall(t) \/ SendRejected(t) \/ SendWaitProcFree(t)
             \/ SendWaitFreeSlots(t) \/ SendLockShm(t) \/ SendHeader(t)
             \/ SendPayload(t) \/ SendLockProc(t) \/ SendSignalFull(t)
    BY <1>0, <2>1 DEF SendCall, SendRejected, SendWaitProcFree,
       SendWaitFreeSlots, SendLockShm, SendHeader, SendPayload, SendLockProc,
       SendSignalFull, Goto, Return, history, Stays, Owners, OwnerPCs
  <2>2. CASE RecvCall(t) \/ RecvWaitFull(t) \/ RecvLockShm(t) \/ RecvAccept(t)
             \/ RecvTooLong(t) \/ RecvHeader(t) \/ RecvPayload(t)
             \/ RecvSignalFreeSlots(t) \/ RecvSignalProcFree(t)
    BY <1>0, <2>2 DEF RecvCall, RecvWaitFull, RecvLockShm, RecvAccept,
       RecvTooLong, RecvHeader, RecvPayload, RecvSignalFreeSlots,
       RecvSignalProcFree, Goto, Return, history, Stays, Owners, OwnerPCs
  <2> QED  BY <1>5, <2>1, <2>2 DEF Step, Send, Recv
<1> QED  BY <1>1, <1>2, <1>3, <1>4, <1>5

\* No step puts a slot in two places: one fact per pair of places.
LEMMA ExclusiveStep ==
  ASSUME TypeOK, PermitsSuffice, SlotExclusive, FreeListIntact, RingIntact,
         NEW t \in Threads, Step(t)
  PROVE  SlotExclusive'
<1>1. /\ free \in Seq(Slots) /\ slot \in [Threads -> Slots]
      /\ queue \in [Ranks -> Seq(Slots)]
  BY DEF TypeOK
<1>2. \A u \in Threads \ {t} : (u \in Owners' <=> u \in Owners) /\ slot'[u] = slot[u]
  <2>1. Moves(t)
    BY SendMoves, RecvMoves DEF Step
  <2> QED  BY <2>1 DEF Moves, Owners
<1>3. Owners \in SUBSET Threads /\ Owners' \in SUBSET Threads
  BY DEF Owners
<1>4. CASE Stays(t)
  <2>1. Owners' = Owners
    <3>1. \A u \in Threads : u \in Owners' <=> u \in Owners
      BY <1>2, <1>4 DEF Stays
    <3> QED  BY <1>3, <3>1
  <2> QED  BY <1>4, <2>1 DEF Stays, SlotExclusive
<1>5. CASE Pops(t)
  <2>1. /\ \A i \in DOMAIN free' : free'[i] = free[i + 1] /\ i + 1 \in DOMAIN free
        /\ 1 \in DOMAIN free /\ \A i \in DOMAIN free' : i \in Nat /\ i + 1 # 1
    BY <1>1, <1>5, TailFacts DEF Pops
  <2>2. slot'[t] = free[1] /\ queue' = queue
    BY <1>1, <1>5 DEF Pops
  <2>3. \A u \in Owners' : u # t => u \in Owners /\ slot'[u] = slot[u]
    BY <1>2, <1>3
  <2>4. \A i, j \in DOMAIN free' : free'[i] = free'[j] => i = j
    BY <2>1 DEF SlotExclusive
  <2>5. \A u, v \in Owners' : slot'[u] = slot'[v] => u = v
    BY <2>1, <2>2, <2>3 DEF SlotExclusive
  <2>6. \A i \in DOMAIN free', r \in Ranks : \A j \in DOMAIN queue'[r] :
          free'[i] # queue'[r][j]
    BY <2>1, <2>2 DEF SlotExclusive
  <2>7. \A u \in Owners' : \A i \in DOMAIN free' : slot'[u] # free'[i]
    BY <2>1, <2>2, <2>3 DEF SlotExclusive
  <2>8. \A u \in Owners', r \in Ranks : \A i \in DOMAIN queue'[r] :
          slot'[u] # queue'[r][i]
    <3> SUFFICES ASSUME NEW u \in Owners', NEW r \in Ranks, NEW i \in DOMAIN queue[r]
                 PROVE  slot'[u] # queue[r][i]
      BY <2>2
    <3>1. CASE u = t
      BY <2>1, <2>2, <3>1 DEF SlotExclusive
    <3>2. CASE u # t
      BY <2>3, <3>2 DEF SlotExclusive
    <3> QED  BY <3>1, <3>2
  <2>9. \A r, q \in Ranks : \A i \in DOMAIN queue'[r], j \in DOMAIN queue'[q] :
          queue'[r][i] = queue'[q][j] => r = q /\ i = j
    BY <2>2 DEF SlotExclusive
  <2> QED  BY <2>4, <2>5, <2>6, <2>7, <2>8, <2>9 DEF SlotExclusive
<1>6. CASE Publishes(t)
  <2> DEFINE d == Dest(t)
             last == Len(queue[d]) + 1
  <2>1. /\ d \in Ranks /\ free' = free /\ slot' = slot
        /\ queue' = [queue EXCEPT ![d] = Append(queue[d], slot[t])] /\ t \in Owners
    BY <1>6 DEF Publishes
  <2>2. \A u \in Owners' : u \in Owners /\ u # t
    BY <1>2, <1>3, <1>6 DEF Publishes
  <2>3. queue[d] \in Seq(Slots) /\ slot[t] \in Slots
    BY <1>1, <2>1
  <2>4. /\ queue'[d] = Append(queue[d], slot[t])
        /\ DOMAIN queue'[d] = DOMAIN queue[d] \cup {last}
        /\ last \notin DOMAIN queue[d] /\ queue'[d][last] = slot[t]
        /\ \A i \in DOMAIN queue[d] : queue'[d][i] = queue[d][i]
    BY <1>1, <2>1, <2>3, AppendFacts
  <2>5. \A r \in Ranks : r # d => queue'[r] = queue[r]
    BY <1>1, <2>1
  <2> HIDE DEF d, last
  <2>6. \A r \in Ranks : \A i \in DOMAIN queue'[r] :
          \/ i \in DOMAIN queue[r] /\ queue'[r][i] = queue[r][i]
          \/ r = d /\ i = last /\ queue'[r][i] = slot[t]
    BY <2>4, <2>5
  <2>7. \A i \in DOMAIN free', r \in Ranks : \A j \in DOMAIN queue'[r] :
          free'[i] # queue'[r][j]
    BY <2>1, <2>6 DEF SlotExclusive
  <2>8. \A u \in Owners', r \in Ranks : \A i \in DOMAIN queue'[r] :
          slot'[u] # queue'[r][i]
    BY <2>1, <2>2, <2>6 DEF SlotExclusive
  <2>9. \A r, q \in Ranks : \A i \in DOMAIN queue'[r], j \in DOMAIN queue'[q] :
          queue'[r][i] = queue'[q][j] => r = q /\ i = j
    BY <2>1, <2>6 DEF SlotExclusive
  <2>10. /\ \A i, j \in DOMAIN free' : free'[i] = free'[j] => i = j
         /\ \A u, v \in Owners' : slot'[u] = slot'[v] => u = v
         /\ \A u \in Owners' : \A i \in DOMAIN free' : slot'[u] # free'[i]
    BY <2>1, <2>2 DEF SlotExclusive
  <2> QED  BY <2>7, <2>8, <2>9, <2>10 DEF SlotExclusive
<1>7. CASE Takes(t)
  <2> DEFINE d == Self(t)
  <2>1. /\ d \in Ranks /\ free' = free /\ queue[d] # <<>>
        /\ slot' = [slot EXCEPT ![t] = queue[d][1]]
        /\ queue' = [queue EXCEPT ![d] = Tail(queue[d])]
    BY <1>7 DEF Takes
  <2>2. slot'[t] = queue[d][1] /\ queue[d] \in Seq(Slots) /\ 1 \in DOMAIN queue[d]
    BY <1>1, <2>1
  <2>3. \A u \in Owners' : u # t => u \in Owners /\ slot'[u] = slot[u]
    BY <1>2, <1>3
  <2>4. \A i \in DOMAIN queue'[d] : /\ i \in Nat /\ i + 1 # 1
                                   /\ i + 1 \in DOMAIN queue[d]
                                   /\ queue'[d][i] = queue[d][i + 1]
    BY <1>1, <2>1, <2>2, TailFacts
  <2>5. \A r \in Ranks : r # d => queue'[r] = queue[r]
    BY <1>1, <2>1
  <2>6. \A r, q \in Ranks : \A i \in DOMAIN queue'[r], j \in DOMAIN queue'[q] :
          queue'[r][i] = queue'[q][j] => r = q /\ i = j
    <3> SUFFICES ASSUME NEW r \in Ranks, NEW q \in Ranks,
                        NEW i \in DOMAIN queue'[r], NEW j \in DOMAIN queue'[q],
                        queue'[r][i] = queue'[q][j]
                 PROVE  r = q /\ i = j
      OBVIOUS
    <3>1. CASE r = d /\ q = d
      <4>1. i + 1 = j + 1
        BY <2>1, <2>4, <3>1 DEF SlotExclusive
      <4> QED  BY <2>4, <3>1, <4>1
    <3>2. CASE r = d /\ q # d
      <4>1. /\ i + 1 \in DOMAIN queue[d] /\ j \in DOMAIN queue[q]
            /\ queue[d][i + 1] = queue[q][j]
        BY <2>4, <2>5, <3>2
      <4> QED  BY <2>1, <3>2, <4>1 DEF SlotExclusive
    <3>3. CASE r # d /\ q = d
      <4>1. /\ j + 1 \in DOMAIN queue[d] /\ i \in DOMAIN queue[r]
            /\ queue[d][j + 1] = queue[r][i]
        BY <2>4, <2>5, <3>3
      <4> QED  BY <2>1, <3>3, <4>1 DEF SlotExclusive
    <3>4. CASE r # d /\ q # d
      BY <2>5, <3>4 DEF SlotExclusive
    <3> QED  BY <3>1, <3>2, <3>3, <3>4
  <2>7. \A r \in Ranks : \A i \in DOMAIN queue'[r] :
          \E j \in DOMAIN queue[r] :
            queue'[r][i] = queue[r][j] /\ ~(r = d /\ j = 1)
    <3> SUFFICES ASSUME NEW r \in Ranks, NEW i \in DOMAIN queue'[r]
                 PROVE  \E j \in DOMAIN queue[r] :
                          queue'[r][i] = queue[r][j] /\ ~(r = d /\ j = 1)
      OBVIOUS
    <3>1. CASE r = d
      BY <2>4, <3>1
    <3>2. CASE r # d
      BY <2>5, <3>2
    <3> QED  BY <3>1, <3>2
  <2> HIDE DEF d
  <2>8. \A i \in DOMAIN free', r \in Ranks : \A j \in DOMAIN queue'[r] :
          free'[i] # queue'[r][j]
    BY <2>1, <2>7 DEF SlotExclusive
  <2>9. \A u \in Owners', r \in Ranks : \A i \in DOMAIN queue'[r] :
          slot'[u] # queue'[r][i]
    BY <2>1, <2>2, <2>3, <2>7 DEF SlotExclusive
  <2>10. \A u, v \in Owners' : slot'[u] = slot'[v] => u = v
    BY <2>1, <2>2, <2>3 DEF SlotExclusive
  <2>11. \A u \in Owners' : \A i \in DOMAIN free' : slot'[u] # free'[i]
    BY <2>1, <2>2, <2>3 DEF SlotExclusive
  <2>12. \A i, j \in DOMAIN free' : free'[i] = free'[j] => i = j
    BY <2>1 DEF SlotExclusive
  <2> QED  BY <2>6, <2>8, <2>9, <2>10, <2>11, <2>12 DEF SlotExclusive
<1>8. CASE Pushes(t)
  <2>1. /\ slot' = slot /\ queue' = queue /\ free' = <<slot[t]>> \o free
        /\ t \in Owners /\ slot[t] \in Slots
    BY <1>1, <1>8 DEF Pushes
  <2>2. \A u \in Owners' : u \in Owners /\ u # t
    BY <1>2, <1>3, <1>8 DEF Pushes
  <2>3. \A i \in DOMAIN free' :
          \/ i = 1 /\ free'[i] = slot[t]
          \/ i \in Nat /\ i - 1 \in DOMAIN free /\ free'[i] = free[i - 1]
    BY <1>1, <2>1, PushFacts
  <2>4. \A i, j \in DOMAIN free' : free'[i] = free'[j] => i = j
    <3> SUFFICES ASSUME NEW i \in DOMAIN free', NEW j \in DOMAIN free',
                        free'[i] = free'[j]
                 PROVE  i = j
      OBVIOUS
    <3>1. CASE i = 1 \/ j = 1
      BY <2>1, <2>3, <3>1 DEF SlotExclusive
    <3>2. CASE i # 1 /\ j # 1
      <4>1. /\ i \in Nat /\ i - 1 \in DOMAIN free /\ free'[i] = free[i - 1]
            /\ j \in Nat /\ j - 1 \in DOMAIN free /\ free'[j] = free[j - 1]
        BY <2>3, <3>2
      <4>2. i - 1 = j - 1
        BY <4>1 DEF SlotExclusive
      <4> QED  BY <4>1, <4>2
    <3> QED  BY <3>1, <3>2
  <2>5. \A u, v \in Owners' : slot'[u] = slot'[v] => u = v
    BY <2>1, <2>2 DEF SlotExclusive
  <2>6. \A i \in DOMAIN free', r \in Ranks : \A j \in DOMAIN queue'[r] :
          free'[i] # queue'[r][j]
    BY <2>1, <2>3 DEF SlotExclusive
  <2>7. \A u \in Owners' : \A i \in DOMAIN free' : slot'[u] # free'[i]
    BY <2>1, <2>2, <2>3 DEF SlotExclusive
  <2>8. /\ \A u \in Owners', r \in Ranks : \A i \in DOMAIN queue'[r] :
             slot'[u] # queue'[r][i]
        /\ \A r, q \in Ranks : \A i \in DOMAIN queue'[r], j \in DOMAIN queue'[q] :
             queue'[r][i] = queue'[q][j] => r = q /\ i = j
    BY <2>1, <2>2 DEF SlotExclusive
  <2> QED  BY <2>4, <2>5, <2>6, <2>7, <2>8 DEF SlotExclusive
<1> QED  BY <1>4, <1>5, <1>6, <1>7, <1>8, SlotMoves

\* A pop or a push keeps the links and the free list in step.
LEMMA FreeListStep ==
  ASSUME TypeOK, PermitsSuffice, SlotExclusive, FreeListIntact, RingIntact,
         NEW t \in Threads, Step(t)
  PROVE  FreeListIntact'
<1>1. /\ free \in Seq(Slots) /\ slot[t] \in Slots
      /\ next_free_msg_slot \in [Slots -> Slots]
  BY DEF TypeOK
<1>2. CASE Pops(t) /\ SendPopSlot(t)
  <2>1. /\ actual_free_slot' = next_free_msg_slot[free[1]]
        /\ next_free_msg_slot' = next_free_msg_slot
        /\ free' = Tail(free) /\ free # <<>>
    BY <1>2 DEF SendPopSlot, Pops, FreeListIntact
  <2>2. /\ free' \in Seq(Slots) /\ Len(free') = Len(free) - 1 /\ Len(free) \in Nat
        /\ \A i \in 1 .. Len(free) - 1 : free'[i] = free[i + 1]
    BY <1>1, <2>1, TailFacts
  <2>3. ASSUME free' # <<>>
        PROVE  actual_free_slot' = free'[1]
    <3>1. 1 \in 1 .. Len(free) - 1
      BY <2>2, <2>3
    <3> QED  BY <2>1, <2>2, <3>1 DEF FreeListIntact
  <2>4. ASSUME NEW i \in 1 .. Len(free') - 1
        PROVE  next_free_msg_slot'[free'[i]] = free'[i + 1]
    <3>1. /\ i \in 1 .. Len(free) - 1 /\ i + 1 \in 1 .. Len(free) - 1
      BY <2>2
    <3> QED  BY <2>1, <2>2, <3>1 DEF FreeListIntact
  <2> QED  BY <2>3, <2>4 DEF FreeListIntact
<1>3. CASE Pushes(t) /\ RecvPushSlot(t)
  <2>1. /\ actual_free_slot' = slot[t]
        /\ next_free_msg_slot' =
             [next_free_msg_slot EXCEPT ![slot[t]] = actual_free_slot]
        /\ free' = <<slot[t]>> \o free /\ t \in Owners
    BY <1>3 DEF RecvPushSlot, Pushes
  <2>2. /\ Len(free') = Len(free) + 1 /\ free'[1] = slot[t] /\ Len(free) \in Nat
        /\ \A i \in 1 .. Len(free) : free'[i + 1] = free[i]
    BY <1>1, <2>1, PushFacts
  <2>3. ASSUME NEW i \in 1 .. Len(free') - 1
        PROVE  next_free_msg_slot'[free'[i]] = free'[i + 1]
    <3>1. i \in 1 .. Len(free)
      BY <2>2
    <3>2. CASE i = 1
      <4>1. free # <<>> /\ free'[i + 1] = free[1]
        BY <1>1, <2>2, <3>1, <3>2
      <4> QED  BY <1>1, <2>1, <2>2, <3>2, <4>1 DEF FreeListIntact
    <3>3. CASE i # 1
      <4>1. /\ i - 1 \in 1 .. Len(free) - 1 /\ i - 1 \in 1 .. Len(free)
            /\ (i - 1) + 1 = i
        BY <3>1, <3>3
      <4>2. free'[i] = free[i - 1] /\ free'[i + 1] = free[i]
        BY <2>2, <3>1, <4>1
      <4>3. free[i - 1] \in Slots /\ free[i - 1] # slot[t]
        BY <1>1, <2>1, <4>1 DEF SlotExclusive
      <4>4. next_free_msg_slot[free[i - 1]] = free[i]
        BY <4>1 DEF FreeListIntact
      <4> QED  BY <1>1, <2>1, <4>2, <4>3, <4>4
    <3> QED  BY <3>2, <3>3
  <2> QED  BY <2>1, <2>2, <2>3 DEF FreeListIntact
<1>4. CASE Stays(t) /\ ~SendPopSlot(t) /\ ~RecvPushSlot(t)
  <2>1. CASE Send(t)
    BY <1>4, <2>1 DEF Send, SendCall, SendRejected, SendWaitProcFree,
       SendWaitFreeSlots, SendLockShm, SendHeader, SendPayload, SendLockProc,
       SendEnqueue, SendSignalFull, shmVars, Stays, FreeListIntact
  <2>2. CASE Recv(t)
    BY <1>4, <2>2 DEF Recv, RecvCall, RecvWaitFull, RecvTake, RecvLockShm,
       RecvAccept, RecvTooLong, RecvHeader, RecvPayload, RecvSignalFreeSlots,
       RecvSignalProcFree, shmVars, Stays, FreeListIntact
  <2> QED  BY <2>1, <2>2 DEF Step
<1>5. CASE SendEnqueue(t) \/ RecvTake(t)
  BY <1>5 DEF SendEnqueue, RecvTake, shmVars, FreeListIntact
<1> QED  BY <1>2, <1>3, <1>4, <1>5, SlotMoves

-----------------------------------------------------------------------------
(* Rings.                                                                  *)

\* Publishing and taking keep the ring and the queue in step.
LEMMA RingStep ==
  ASSUME TypeOK, PermitsSuffice, SlotExclusive, FreeListIntact, RingIntact,
         NEW t \in Threads, Step(t)
  PROVE  RingIntact'
<1> DEFINE M == MaxMessagesProc
<1>1. /\ queue \in [Ranks -> Seq(Slots)] /\ M \in Nat \ {0}
      /\ read_index \in [Ranks -> 0 .. M] /\ write_index \in [Ranks -> 0 .. M]
      /\ msg_slots \in [Ranks -> [RingIndex -> Slots]] /\ slot[t] \in Slots
  BY DEF TypeOK
<1>2. ASSUME NEW r \in Ranks
      PROVE  Len(queue[r]) \in 0 .. M
  <2>1. PlaceReserved(r) \in SUBSET Threads
    BY DEF PlaceReserved
  <2>2. Cardinality(PlaceReserved(r)) \in Nat
    BY <2>1, FS_Subset, FS_CardinalityType
  <2>3. proc_free[r] \in Nat /\ Len(queue[r]) \in Nat
    BY DEF TypeOK
  <2> QED  BY <1>1, <2>2, <2>3 DEF PermitsSuffice
<1>3. CASE Stays(t) /\ ~SendEnqueue(t) /\ ~RecvTake(t)
  <2>1. UNCHANGED <<read_index, write_index, msg_slots>>
    <3>1. CASE Send(t)
      BY <1>3, <3>1 DEF Send, SendCall, SendRejected, SendWaitProcFree,
         SendWaitFreeSlots, SendLockShm, SendPopSlot, SendHeader, SendPayload,
         SendLockProc, SendSignalFull, procVars
    <3>2. CASE Recv(t)
      BY <1>3, <3>2 DEF Recv, RecvCall, RecvWaitFull, RecvLockShm, RecvPushSlot,
         RecvAccept, RecvTooLong, RecvHeader, RecvPayload, RecvSignalFreeSlots,
         RecvSignalProcFree, procVars
    <3> QED  BY <3>1, <3>2 DEF Step
  <2> QED  BY <1>3, <2>1 DEF Stays, RingIntact
<1>4. CASE SendPopSlot(t) \/ RecvPushSlot(t)
  BY <1>4 DEF SendPopSlot, RecvPushSlot, procVars, RingIntact
<1>5. CASE Publishes(t) /\ SendEnqueue(t)
  <2> DEFINE d == Dest(t)
             w == write_index[d] % M
  <2>0. d \in Ranks /\ Len(queue[d]) < M /\ queue[d] \in Seq(Slots)
    BY <1>1, <1>5, Promises DEF Publishes
  <2>1. PICK n \in 0 .. M - 1, a \in 0 .. M : n = Len(queue[d]) /\ a = read_index[d]
    <3>1. Len(queue[d]) \in 0 .. M - 1 /\ read_index[d] \in 0 .. M
      BY <1>1, <1>2, <2>0
    <3> QED  BY <3>1
  <2>2. w \in RingIndex
    <3>1. write_index[d] \in 0 .. M
      BY <1>1, <2>0
    <3> QED  BY <3>1, IndexStep
  <2>3. /\ msg_slots' = [msg_slots EXCEPT ![d][w] = slot[t]]
        /\ write_index' = [write_index EXCEPT ![d] = w + 1]
        /\ read_index' = read_index
        /\ queue' = [queue EXCEPT ![d] = Append(queue[d], slot[t])]
    BY <1>5 DEF SendEnqueue, Publishes
  <2>4. (a + n) % M = w
    BY <2>0, <2>1 DEF RingIntact
  <2>5. ASSUME NEW i \in 1 .. n + 1
        PROVE  msg_slots'[d][(a + i - 1) % M] = queue'[d][i]
    <3>1. queue'[d] = Append(queue[d], slot[t]) /\ Append(queue[d], slot[t])[n + 1] = slot[t]
      BY <1>1, <2>0, <2>1, <2>3, AppendFacts
    <3>2. CASE i = n + 1
      <4>1. a + i - 1 = a + n
        BY <2>0, <2>1, <3>2
      <4>2. msg_slots'[d][w] = slot[t]
        BY <1>1, <2>0, <2>1, <2>2, <2>3
      <4> QED  BY <2>4, <3>1, <3>2, <4>1, <4>2
    <3>3. CASE i # n + 1
      <4>1. PICK k \in Nat : k = i - 1
        OBVIOUS
      <4>2. /\ k \in 0 .. M /\ k < n /\ i \in 1 .. n /\ n \in 0 .. M - 1
            /\ a + i - 1 = a + k
        BY <3>3, <4>1
      <4>3. (a + k) % M # w
        <5>1. (a + k) % M # (a + n) % M
          BY <4>2, RingArithmetic
        <5> QED  BY <2>4, <5>1
      <4>4. msg_slots[d][(a + k) % M] = queue[d][i]
        BY <2>0, <2>1, <4>2 DEF RingIntact
      <4>5. msg_slots'[d][(a + k) % M] = msg_slots[d][(a + k) % M]
        BY <1>1, <2>0, <2>1, <2>2, <2>3, <4>3
      <4>6. queue'[d][i] = queue[d][i]
        BY <1>1, <2>0, <2>1, <3>1, <4>2, AppendFacts
      <4> QED  BY <4>2, <4>4, <4>5, <4>6
    <3> QED  BY <3>2, <3>3
  <2>6. Len(queue'[d]) = n + 1 /\ read_index'[d] = a /\ write_index'[d] = w + 1
    BY <1>1, <2>0, <2>1, <2>3, AppendFacts
  <2>7. (a + (n + 1)) % M = (w + 1) % M
    <3>1. n \in 0 .. M /\ n < M
      BY <1>1, <2>0, <2>1
    <3>2. (((a + n) % M) + 1) % M = (a + n + 1) % M
      BY <1>1, <2>0, <2>1, <3>1, RingArithmetic
    <3>3. a + (n + 1) = a + n + 1
      BY <2>0, <2>1
    <3> QED  BY <2>4, <3>2, <3>3
  <2>8. \A r \in Ranks : r # d => /\ msg_slots'[r] = msg_slots[r]
                                 /\ write_index'[r] = write_index[r]
                                 /\ queue'[r] = queue[r]
    BY <1>1, <2>3
  <2> HIDE DEF d, w
  <2>9. ASSUME NEW r \in Ranks
        PROVE  /\ \A i \in 1 .. Len(queue'[r]) :
                    msg_slots'[r][(read_index'[r] + i - 1) % MaxMessagesProc]
                      = queue'[r][i]
               /\ (read_index'[r] + Len(queue'[r])) % MaxMessagesProc
                    = write_index'[r] % MaxMessagesProc
    <3>1. CASE r = d
      BY <2>5, <2>6, <2>7, <3>1
    <3>2. CASE r # d
      BY <2>3, <2>8, <3>2 DEF RingIntact
    <3> QED  BY <3>1, <3>2
  <2> QED  BY <2>9 DEF RingIntact
<1>6. CASE Takes(t) /\ RecvTake(t)
  <2> DEFINE d == Self(t)
  <2>0. d \in Ranks /\ queue[d] # <<>> /\ queue[d] \in Seq(Slots)
    BY <1>1, <1>6 DEF Takes
  <2>1. PICK n \in 1 .. M, a \in 0 .. M : n = Len(queue[d]) /\ a = read_index[d]
    <3>1. Len(queue[d]) \in Nat \ {0}
      BY <2>0, TailFacts
    <3>2. Len(queue[d]) \in 1 .. M /\ read_index[d] \in 0 .. M
      BY <1>1, <1>2, <2>0, <3>1
    <3> QED  BY <3>2
  <2>2. /\ read_index' = [read_index EXCEPT ![d] = (a % M) + 1]
        /\ msg_slots' = msg_slots /\ write_index' = write_index
        /\ queue' = [queue EXCEPT ![d] = Tail(queue[d])]
    BY <1>6, <2>1 DEF RecvTake, Takes
  <2>3. /\ read_index'[d] = (a % M) + 1 /\ Len(queue'[d]) = n - 1
        /\ a % M \in Nat
        /\ \A i \in 1 .. n - 1 : queue'[d][i] = queue[d][i + 1]
    <3>1. a % M \in Nat
      BY <1>1, IndexStep DEF RingIndex
    <3>2. queue[d] # <<>> /\ queue'[d] = Tail(queue[d])
      BY <1>1, <1>6, <2>0, <2>1, <2>2 DEF Takes
    <3> QED  BY <1>1, <2>0, <2>1, <2>2, <3>1, <3>2, TailFacts
  <2>4. ASSUME NEW i \in 1 .. n - 1
        PROVE  msg_slots'[d][((a % M) + 1 + i - 1) % M] = queue'[d][i]
    <3>0. PICK p \in Nat : p = a % M
      BY <2>3
    <3>1. p + 1 + i - 1 = p + i /\ i \in 0 .. M /\ i + 1 \in 1 .. n
      OBVIOUS
    <3>2. ((a % M) + i) % M = (a + i) % M
      BY <1>1, <2>0, <2>1, <3>1, RingArithmetic
    <3>3. a + i = a + (i + 1) - 1
      BY <2>0, <2>1
    <3>4. msg_slots[d][(a + (i + 1) - 1) % M] = queue[d][i + 1]
      BY <2>0, <2>1, <3>1 DEF RingIntact
    <3> QED  BY <2>2, <2>3, <3>0, <3>1, <3>2, <3>3, <3>4
  <2>5. ((a % M) + 1 + (n - 1)) % M = write_index'[d] % M
    <3>0. PICK p \in Nat : p = a % M
      BY <2>3
    <3>1. p + 1 + (n - 1) = p + n /\ n \in 0 .. M
      OBVIOUS
    <3>2. ((a % M) + n) % M = (a + n) % M
      BY <1>1, <2>0, <2>1, <3>1, RingArithmetic
    <3> QED  BY <2>0, <2>1, <2>2, <3>0, <3>1, <3>2 DEF RingIntact
  <2>6. \A r \in Ranks : r # d => queue'[r] = queue[r] /\ read_index'[r] = read_index[r]
    BY <1>1, <2>2
  <2> HIDE DEF d
  <2>7. ASSUME NEW r \in Ranks
        PROVE  /\ \A i \in 1 .. Len(queue'[r]) :
                    msg_slots'[r][(read_index'[r] + i - 1) % MaxMessagesProc]
                      = queue'[r][i]
               /\ (read_index'[r] + Len(queue'[r])) % MaxMessagesProc
                    = write_index'[r] % MaxMessagesProc
    <3>1. CASE r = d
      BY <2>3, <2>4, <2>5, <3>1
    <3>2. CASE r # d
      BY <2>2, <2>6, <3>2 DEF RingIntact
    <3> QED  BY <3>1, <3>2
  <2> QED  BY <2>7 DEF RingIntact
<1> QED  BY <1>3, <1>4, <1>5, <1>6, SlotMoves

-----------------------------------------------------------------------------
(* Contents of slots.                                                      *)

\* Only a sender writes to messages, and only to the slot it owns.
LEMMA SlotWrites ==
  ASSUME TypeOK, NEW t \in Threads, Step(t)
  PROVE  \A s \in Slots : \/ messages'[s] = messages[s]
                          \/ t \in Owners /\ s = slot[t]
<1>0. messages \in [Slots -> Message]
  BY DEF TypeOK
<1>1. CASE SendHeader(t) \/ SendPayload(t)
  <2>1. t \in Owners
    BY <1>1 DEF SendHeader, SendPayload, Goto, Owners, OwnerPCs
  <2>2. \A s \in Slots : s # slot[t] => messages'[s] = messages[s]
    BY <1>0, <1>1 DEF SendHeader, SendPayload
  <2> QED  BY <2>1, <2>2
<1>2. CASE SendCall(t) \/ SendRejected(t) \/ SendWaitProcFree(t)
           \/ SendWaitFreeSlots(t) \/ SendLockShm(t) \/ SendPopSlot(t)
           \/ SendLockProc(t) \/ SendEnqueue(t) \/ SendSignalFull(t)
  <2>1. UNCHANGED messages
    BY <1>2 DEF SendCall, SendRejected, SendWaitProcFree, SendWaitFreeSlots,
       SendLockShm, SendPopSlot, SendLockProc, SendEnqueue, SendSignalFull,
       shmVars
  <2> QED  BY <2>1
<1>3. CASE Recv(t)
  <2>1. UNCHANGED messages
    BY <1>3 DEF Recv, RecvCall, RecvWaitFull, RecvTake, RecvLockShm,
       RecvPushSlot, RecvAccept, RecvTooLong, RecvHeader, RecvPayload,
       RecvSignalFreeSlots, RecvSignalProcFree, shmVars
  <2> QED  BY <2>1
<1> QED  BY <1>1, <1>2, <1>3 DEF Step, Send

\* Nobody writes to a slot a sender is filling but that sender.
LEMMA ContentsStep ==
  ASSUME TypeOK, SlotExclusive, SlotContents, NEW t \in Threads, Step(t)
  PROVE  SlotContents'
<1>1. /\ pc \in [Threads -> PCs] /\ slot \in [Threads -> Slots]
      /\ messages \in [Slots -> Message]
  BY DEF TypeOK, PCs
<1>2. /\ \A u \in Threads \ {t} : /\ pc'[u] = pc[u] /\ todo'[u] = todo[u]
                                 /\ slot'[u] = slot[u]
      /\ pc' \in [Threads -> PCs]
  BY SendMoves, RecvMoves DEF Step, Moves
<1> DEFINE Filling == {"S_payload", "S_procMutex", "S_enqueue"}
           Filled == {"S_procMutex", "S_enqueue"}
<1>3. \A s \in Slots : \/ messages'[s] = messages[s]
                       \/ t \in Owners /\ s = slot[t]
  BY SlotWrites
<1>4. ASSUME NEW u \in Threads \ {t}
      PROVE  /\ pc'[u] \in Filling => /\ messages'[slot'[u]].src = Self(u)
                                     /\ messages'[slot'[u]].len = Call(u)'.len
             /\ pc'[u] \in Filled => messages'[slot'[u]].data = Call(u)'.data
  <2>1. pc'[u] = pc[u] /\ Call(u)' = Call(u) /\ slot'[u] = slot[u] /\ slot[u] \in Slots
    BY <1>1, <1>2 DEF Call
  <2>2. pc[u] \in Filling => messages'[slot[u]] = messages[slot[u]]
    BY <1>3, <2>1 DEF SlotExclusive, Owners, OwnerPCs
  <2> QED  BY <2>1, <2>2 DEF SlotContents
<1>5. /\ pc'[t] \in Filling => /\ messages'[slot'[t]].src = Self(t)
                              /\ messages'[slot'[t]].len = Call(t)'.len
      /\ pc'[t] \in Filled => messages'[slot'[t]].data = Call(t)'.data
  <2>1. CASE SendHeader(t)
    <3>1. pc'[t] = "S_payload" /\ slot' = slot /\ todo' = todo
      BY <1>1, <2>1 DEF SendHeader, Goto
    <3>2. slot[t] \in Slots /\ messages[slot[t]] \in Message
      BY <1>1
    <3>3. messages'[slot[t]].src = Self(t) /\ messages'[slot[t]].len = Call(t).len
      BY <1>1, <2>1, <3>2 DEF SendHeader, Message
    <3> QED  BY <3>1, <3>3 DEF Call
  <2>2. CASE SendPayload(t)
    <3>1. pc[t] = "S_payload" /\ slot' = slot /\ todo' = todo
      BY <1>1, <2>2 DEF SendPayload, Goto
    <3>2. slot[t] \in Slots /\ messages[slot[t]] \in Message
      BY <1>1
    <3>3. /\ messages'[slot[t]].data = Call(t).data
          /\ messages'[slot[t]].src = messages[slot[t]].src
          /\ messages'[slot[t]].len = messages[slot[t]].len
      BY <1>1, <2>2, <3>2 DEF SendPayload, Message
    <3> QED  BY <3>1, <3>3 DEF Call, SlotContents
  <2>3. CASE SendLockProc(t)
    <3>1. pc[t] = "S_procMutex" /\ UNCHANGED <<slot, todo, messages>>
      BY <1>1, <2>3 DEF SendLockProc, Goto, shmVars
    <3> QED  BY <3>1 DEF Call, SlotContents
  <2>4. CASE SendCall(t) \/ SendRejected(t) \/ SendWaitProcFree(t)
             \/ SendWaitFreeSlots(t) \/ SendLockShm(t) \/ SendPopSlot(t)
             \/ SendEnqueue(t) \/ SendSignalFull(t)
    <3>1. pc'[t] \notin Filling
      BY <1>1, <2>4 DEF SendCall, SendRejected, SendWaitProcFree,
         SendWaitFreeSlots, SendLockShm, SendPopSlot, SendEnqueue,
         SendSignalFull, Goto, Return
    <3> QED  BY <3>1
  <2>5. CASE Recv(t)
    <3>1. pc'[t] \notin Filling
      BY <1>1, <2>5 DEF Recv, RecvCall, RecvWaitFull, RecvTake, RecvLockShm,
         RecvPushSlot, RecvAccept, RecvTooLong, RecvHeader, RecvPayload,
         RecvSignalFreeSlots, RecvSignalProcFree, Goto, Return
    <3> QED  BY <3>1
  <2> QED  BY <2>1, <2>2, <2>3, <2>4, <2>5 DEF Step, Send
<1> QED  BY <1>4, <1>5 DEF SlotContents, Self

-----------------------------------------------------------------------------
(* No slot and no permit is lost.                                          *)

\* Where a slot is.
At(s) ==
  \/ \E i \in DOMAIN free : free[i] = s
  \/ \E r \in Ranks : \E i \in DOMAIN queue[r] : queue[r][i] = s
  \/ \E t \in Owners : slot[t] = s

\* A slot that a step takes away from one place is put into another.
LEMMA NoSlotLostStep ==
  ASSUME TypeOK, PermitsSuffice, FreeListIntact, RingIntact, NoSlotLost,
         NEW t \in Threads, Step(t)
  PROVE  NoSlotLost'
<1>1. /\ free \in Seq(Slots) /\ slot \in [Threads -> Slots]
      /\ queue \in [Ranks -> Seq(Slots)]
  BY DEF TypeOK
<1>2. \A u \in Threads \ {t} : (u \in Owners' <=> u \in Owners) /\ slot'[u] = slot[u]
  <2>1. Moves(t)
    BY SendMoves, RecvMoves DEF Step
  <2> QED  BY <2>1 DEF Moves, Owners
<1>3. Owners \in SUBSET Threads /\ Owners' \in SUBSET Threads
  BY DEF Owners
<1> SUFFICES ASSUME NEW s \in Slots, At(s)
               PROVE  At(s)'
  BY DEF NoSlotLost, At
<1>5. CASE Stays(t)
  <2>1. Owners' = Owners
    <3>1. \A u \in Threads : u \in Owners' <=> u \in Owners
      BY <1>2, <1>5 DEF Stays
    <3> QED  BY <1>3, <3>1
  <2> QED  BY <1>5, <2>1 DEF Stays, At
<1>6. CASE Pops(t)
  <2>1. /\ Len(free) \in Nat /\ DOMAIN free = 1 .. Len(free)
        /\ DOMAIN free' = 1 .. Len(free) - 1
        /\ \A i \in 1 .. Len(free) - 1 : free'[i] = free[i + 1]
    BY <1>1, <1>6, TailFacts DEF Pops
  <2>2. slot'[t] = free[1] /\ queue' = queue /\ t \in Owners'
    BY <1>1, <1>6 DEF Pops
  <2>3. CASE \E i \in DOMAIN free : free[i] = s
    <3>1. PICK i \in 1 .. Len(free) : free[i] = s
      BY <2>1, <2>3
    <3>2. CASE i = 1
      BY <2>2, <3>1, <3>2 DEF At
    <3>3. CASE i # 1
      <4>1. i - 1 \in 1 .. Len(free) - 1 /\ i - 1 + 1 = i
        BY <2>1, <3>3
      <4>2. free'[i - 1] = s
        BY <2>1, <3>1, <4>1
      <4> QED  BY <2>1, <4>1, <4>2 DEF At
    <3> QED  BY <3>2, <3>3
  <2>4. CASE \E u \in Owners : slot[u] = s
    <3>1. PICK u \in Owners : slot[u] = s
      BY <2>4
    <3>2. u # t
      BY <1>6 DEF Pops
    <3> QED  BY <1>2, <1>3, <3>1, <3>2 DEF At
  <2> QED  BY <2>2, <2>3, <2>4 DEF At
<1>7. CASE Publishes(t)
  <2>0. PICK d \in Ranks : d = Dest(t)
    BY <1>7 DEF Publishes
  <2>1. /\ Len(queue[d]) \in Nat /\ DOMAIN queue[d] = 1 .. Len(queue[d])
        /\ DOMAIN queue'[d] = 1 .. Len(queue[d]) + 1
        /\ queue'[d][Len(queue[d]) + 1] = slot[t]
        /\ \A i \in 1 .. Len(queue[d]) : queue'[d][i] = queue[d][i]
    <3>1. queue'[d] = Append(queue[d], slot[t])
      BY <1>1, <1>7, <2>0 DEF Publishes
    <3>2. queue[d] \in Seq(Slots) /\ slot[t] \in Slots
      BY <1>1
    <3> QED  BY <3>1, <3>2, AppendFacts
  <2>2. /\ free' = free /\ slot' = slot
        /\ \A r \in Ranks : r # d => queue'[r] = queue[r]
    BY <1>1, <1>7, <2>0 DEF Publishes
  <2>3. CASE \E r \in Ranks : \E i \in DOMAIN queue[r] : queue[r][i] = s
    <3>0. PICK r \in Ranks : \E i \in DOMAIN queue[r] : queue[r][i] = s
      BY <2>3
    <3>1. PICK i \in DOMAIN queue[r] : queue[r][i] = s
      BY <3>0
    <3>2. i \in DOMAIN queue'[r] /\ queue'[r][i] = s
      <4>1. CASE r = d
        BY <2>1, <3>1, <4>1
      <4>2. CASE r # d
        BY <2>2, <3>1, <4>2
      <4> QED  BY <4>1, <4>2
    <3> QED  BY <3>2 DEF At
  <2>4. CASE \E u \in Owners : slot[u] = s
    <3>1. PICK u \in Owners : slot[u] = s
      BY <2>4
    <3>2. CASE u = t
      <4>1. Len(queue[d]) + 1 \in DOMAIN queue'[d] /\ queue'[d][Len(queue[d]) + 1] = s
        BY <2>1, <3>1, <3>2
      <4> QED  BY <4>1 DEF At
    <3>3. CASE u # t
      BY <1>2, <1>3, <2>2, <3>1, <3>3 DEF At
    <3> QED  BY <3>2, <3>3
  <2> QED  BY <2>2, <2>3, <2>4 DEF At
<1>8. CASE Takes(t)
  <2>0. PICK d \in Ranks : d = Self(t)
    BY <1>8 DEF Takes
  <2>1. /\ Len(queue[d]) \in Nat /\ DOMAIN queue[d] = 1 .. Len(queue[d])
        /\ DOMAIN queue'[d] = 1 .. Len(queue[d]) - 1
        /\ \A i \in 1 .. Len(queue[d]) - 1 : queue'[d][i] = queue[d][i + 1]
    <3>1. queue'[d] = Tail(queue[d]) /\ queue[d] # <<>> /\ queue[d] \in Seq(Slots)
      BY <1>1, <1>8, <2>0 DEF Takes
    <3> QED  BY <3>1, TailFacts
  <2>2. /\ free' = free /\ slot'[t] = queue[d][1] /\ t \in Owners' /\ t \notin Owners
        /\ \A r \in Ranks : r # d => queue'[r] = queue[r]
    BY <1>1, <1>8, <2>0 DEF Takes
  <2>3. CASE \E r \in Ranks : \E i \in DOMAIN queue[r] : queue[r][i] = s
    <3>0. PICK r \in Ranks : \E i \in DOMAIN queue[r] : queue[r][i] = s
      BY <2>3
    <3>1. PICK i \in DOMAIN queue[r] : queue[r][i] = s
      BY <3>0
    <3>2. CASE r = d /\ i = 1
      BY <2>2, <3>1, <3>2 DEF At
    <3>3. CASE r = d /\ i # 1
      <4>1. i - 1 \in 1 .. Len(queue[d]) - 1 /\ i - 1 + 1 = i
        BY <2>1, <3>3
      <4>2. i - 1 \in DOMAIN queue'[d] /\ queue'[d][i - 1] = s
        BY <2>1, <3>1, <3>3, <4>1
      <4> QED  BY <4>2 DEF At
    <3>4. CASE r # d
      BY <2>2, <3>1, <3>4 DEF At
    <3> QED  BY <3>2, <3>3, <3>4
  <2>4. CASE \E u \in Owners : slot[u] = s
    BY <1>2, <1>3, <2>2, <2>4 DEF At
  <2> QED  BY <2>2, <2>3, <2>4 DEF At
<1>9. CASE Pushes(t)
  <2>1. /\ Len(free) \in Nat /\ DOMAIN free = 1 .. Len(free)
        /\ DOMAIN free' = 1 .. Len(free) + 1 /\ free'[1] = slot[t]
        /\ \A i \in 1 .. Len(free) : free'[i + 1] = free[i]
    <3>1. free' = <<slot[t]>> \o free /\ slot[t] \in Slots
      BY <1>1, <1>9 DEF Pushes
    <3> QED  BY <1>1, <3>1, PushFacts
  <2>2. queue' = queue /\ slot' = slot
    BY <1>9 DEF Pushes
  <2>3. CASE \E i \in DOMAIN free : free[i] = s
    <3>1. PICK i \in 1 .. Len(free) : free[i] = s
      BY <2>1, <2>3
    <3>2. i + 1 \in DOMAIN free' /\ free'[i + 1] = s
      BY <2>1, <3>1
    <3> QED  BY <3>2 DEF At
  <2>4. CASE \E u \in Owners : slot[u] = s
    <3>1. PICK u \in Owners : slot[u] = s
      BY <2>4
    <3>2. CASE u = t
      <4>1. 1 \in DOMAIN free' /\ free'[1] = s
        BY <2>1, <3>1, <3>2
      <4> QED  BY <4>1 DEF At
    <3>3. CASE u # t
      BY <1>2, <1>3, <2>2, <3>1, <3>3 DEF At
    <3> QED  BY <3>2, <3>3
  <2> QED  BY <2>2, <2>3, <2>4 DEF At
<1> QED  BY <1>5, <1>6, <1>7, <1>8, <1>9, SlotMoves

\* A receiver that has copied the header knows a sender.
LEMMA SenderNamedStep ==
  ASSUME TypeOK, SenderNamed, NEW t \in Threads, Step(t)
  PROVE  SenderNamed'
<1>1. /\ pc \in [Threads -> PCs] /\ out \in [Threads -> Results]
      /\ slot \in [Threads -> Slots] /\ messages \in [Slots -> Message]
  BY DEF TypeOK, PCs
<1> DEFINE Named == {"R_payload", "R_freeSlots", "R_procFree"}
<1>2. CASE RecvHeader(t)
  <2>1. /\ messages[slot[t]].src \in Ranks /\ out[t] \in Results
        /\ pc' = [pc EXCEPT ![t] = "R_payload"]
        /\ out' = [out EXCEPT ![t].src = messages[slot[t]].src,
                             ![t].len = messages[slot[t]].len]
    BY <1>1, <1>2 DEF Message, RecvHeader, Goto
  <2>2. out'[t].src = messages[slot[t]].src
    BY <1>1, <2>1 DEF Results
  <2>3. \A u \in Threads \ {t} : pc'[u] = pc[u] /\ out'[u] = out[u]
    BY <1>1, <2>1
  <2> QED  BY <2>1, <2>2, <2>3 DEF SenderNamed
<1>3. CASE RecvPayload(t)
  <2>1. /\ pc[t] = "R_payload" /\ pc' = [pc EXCEPT ![t] = "R_freeSlots"]
        /\ out' = [out EXCEPT ![t].data = messages[slot[t]].data]
        /\ out[t] \in Results
    BY <1>1, <1>3 DEF RecvPayload, Goto
  <2>2. out'[t].src = out[t].src
    BY <1>1, <2>1 DEF Results
  <2>3. \A u \in Threads \ {t} : pc'[u] = pc[u] /\ out'[u] = out[u]
    BY <1>1, <2>1
  <2> QED  BY <2>1, <2>2, <2>3 DEF SenderNamed
<1>4. CASE RecvSignalFreeSlots(t) \/ RecvSignalProcFree(t)
  BY <1>1, <1>4 DEF RecvSignalFreeSlots, RecvSignalProcFree, Goto, Return,
     SenderNamed
<1>5. CASE Send(t)
  <2>1. pc'[t] \notin Named /\ out' = out /\ \A u \in Threads \ {t} : pc'[u] = pc[u]
    BY <1>1, <1>5 DEF Send, SendCall, SendRejected, SendWaitProcFree,
       SendWaitFreeSlots, SendLockShm, SendPopSlot, SendHeader, SendPayload,
       SendLockProc, SendEnqueue, SendSignalFull, Goto, Return
  <2> QED  BY <2>1 DEF SenderNamed
<1>6. CASE RecvCall(t) \/ RecvWaitFull(t) \/ RecvTake(t) \/ RecvLockShm(t)
           \/ RecvPushSlot(t) \/ RecvAccept(t) \/ RecvTooLong(t)
  <2>1. pc'[t] \notin Named /\ out' = out /\ \A u \in Threads \ {t} : pc'[u] = pc[u]
    BY <1>1, <1>6 DEF RecvCall, RecvWaitFull, RecvTake, RecvLockShm,
       RecvPushSlot, RecvAccept, RecvTooLong, Goto, Return
  <2> QED  BY <2>1 DEF SenderNamed
<1> QED  BY <1>2, <1>3, <1>4, <1>5, <1>6 DEF Step, Recv

\* The refused calls of OSMP_Recv, of all ranks.
Refused == UNION {{r} \X Failures(r) : r \in Ranks}

\* They are finitely many.
LEMMA RefusedFinite ==
  ASSUME TypeOK
  PROVE  /\ \A r \in Ranks : /\ IsFiniteSet(Failures(r))
                            /\ Cardinality(Failures(r)) \in Nat
                            /\ Failures(r) \subseteq 1 .. Len(got[r])
         /\ IsFiniteSet(Refused) /\ Cardinality(Refused) \in Nat
<1>1. ASSUME NEW r \in Ranks
      PROVE  IsFiniteSet(Failures(r)) /\ Failures(r) \subseteq 1 .. Len(got[r])
  <2>1. got[r] \in Seq(Results)
    BY DEF TypeOK
  <2>2. Len(got[r]) \in Nat /\ DOMAIN got[r] = 1 .. Len(got[r])
    BY <2>1
  <2>3. Failures(r) \in SUBSET (1 .. Len(got[r]))
    BY <2>2 DEF Failures
  <2>4. IsFiniteSet(1 .. Len(got[r]))
    BY <2>2, FS_Interval
  <2> QED  BY <2>3, <2>4, FS_Subset
<1>2. IsFiniteSet({{r} \X Failures(r) : r \in Ranks})
  <2> DEFINE f == [r \in Ranks |-> {r} \X Failures(r)]
             S == {{r} \X Failures(r) : r \in Ranks}
  <2>1. f \in Surjection(Ranks, S)
    BY DEF Surjection
  <2>2. IsFiniteSet(Ranks)
    BY FS_Interval DEF Ranks
  <2> HIDE DEF f, S
  <2>3. IsFiniteSet(S)
    BY <2>1, <2>2, FS_Surjection
  <2> QED  BY <2>3 DEF S
<1>3. \A T \in {{r} \X Failures(r) : r \in Ranks} : IsFiniteSet(T)
  <2> SUFFICES ASSUME NEW r \in Ranks
               PROVE  IsFiniteSet({r} \X Failures(r))
    OBVIOUS
  <2> QED  BY <1>1, FS_Singleton, FS_Product
<1>4. IsFiniteSet(Refused)
  BY <1>2, <1>3, FS_UNION DEF Refused
<1> QED  BY <1>1, <1>4, FS_CardinalityType

\* Only a refused call adds to them, and it adds one.
LEMMA RefusedMoves ==
  ASSUME TypeOK, SenderNamed, NEW t \in Threads, Step(t)
  PROVE  /\ RecvTooLong(t) =>
              /\ Self(t) \in Ranks
              /\ Cardinality(Refused') = Cardinality(Refused) + 1
              /\ Cardinality(Failures(Self(t))') = Cardinality(Failures(Self(t))) + 1
              /\ \A r \in Ranks : r # Self(t) => Failures(r)' = Failures(r)
         /\ ~RecvTooLong(t) =>
              Refused' = Refused /\ \A r \in Ranks : Failures(r)' = Failures(r)
<1>0. /\ got \in [Ranks -> Seq(Results)] /\ out \in [Threads -> Results]
      /\ Self(t) \in Ranks
  BY DEF TypeOK, Self
<1> PICK d \in Ranks : d = Self(t)
  BY <1>0
<1>1. ASSUME NEW e \in Results, got' = [got EXCEPT ![d] = Append(@, e)]
      PROVE  /\ Failures(d)' = IF e = Failed THEN Failures(d) \cup {Len(got[d]) + 1}
                                             ELSE Failures(d)
             /\ \A r \in Ranks : r # d => Failures(r)' = Failures(r)
  <2>1. got'[d] = Append(got[d], e) /\ \A r \in Ranks : r # d => got'[r] = got[r]
    BY <1>0, <1>1
  <2>2. /\ DOMAIN got[d] = 1 .. Len(got[d]) /\ Len(got[d]) \in Nat
        /\ DOMAIN got'[d] = 1 .. Len(got[d]) + 1
        /\ \A i \in 1 .. Len(got[d]) : got'[d][i] = got[d][i]
        /\ got'[d][Len(got[d]) + 1] = e
    <3>1. got[d] \in Seq(Results)
      BY <1>0
    <3> QED  BY <2>1, <3>1, AppendFacts
  <2>3. /\ \A i : i \in Failures(d)' <=>
                 i \in 1 .. Len(got[d]) + 1 /\ got'[d][i] = Failed
        /\ \A i : i \in Failures(d) <=> i \in 1 .. Len(got[d]) /\ got[d][i] = Failed
    BY <2>2 DEF Failures
  <2>4. \A i : i \in Failures(d)' <=>
               i \in Failures(d) \/ (e = Failed /\ i = Len(got[d]) + 1)
    <3>1. \A i : i \in 1 .. Len(got[d]) + 1 <=>
                 i \in 1 .. Len(got[d]) \/ i = Len(got[d]) + 1
      BY <2>2
    <3>2. Len(got[d]) + 1 \notin 1 .. Len(got[d])
      BY <2>2
    <3> SUFFICES ASSUME NEW i
                 PROVE  i \in Failures(d)' <=>
                          i \in Failures(d) \/ (e = Failed /\ i = Len(got[d]) + 1)
      OBVIOUS
    <3>3. CASE i \in 1 .. Len(got[d])
      <4>1. got'[d][i] = got[d][i] /\ i # Len(got[d]) + 1
        BY <2>2, <3>2, <3>3
      <4>2. i \in Failures(d)' <=> got'[d][i] = Failed
        BY <2>3, <3>1, <3>3
      <4>3. i \in Failures(d) <=> got[d][i] = Failed
        BY <2>3, <3>3
      <4> QED  BY <4>1, <4>2, <4>3
    <3>4. CASE i = Len(got[d]) + 1
      BY <2>2, <2>3, <3>1, <3>2, <3>4
    <3>5. CASE i \notin 1 .. Len(got[d]) /\ i # Len(got[d]) + 1
      BY <2>3, <3>1, <3>5
    <3> QED  BY <3>3, <3>4, <3>5
  <2>5. \A r \in Ranks : r # d => Failures(r)' = Failures(r)
    BY <2>1 DEF Failures
  <2>6. Failures(d)' = IF e = Failed THEN Failures(d) \cup {Len(got[d]) + 1}
                                    ELSE Failures(d)
    <3> DEFINE F == Failures(d)
               G == Failures(d)'
               n == Len(got[d]) + 1
    <3>1. \A i : i \in G <=> i \in F \/ (e = Failed /\ i = n)
      BY <2>4
    <3>2. G = IF e = Failed THEN F \cup {n} ELSE F
      <4> HIDE DEF F, G, n
      <4>1. CASE e = Failed
        BY <3>1, <4>1
      <4>2. CASE e # Failed
        BY <3>1, <4>2
      <4> QED  BY <4>1, <4>2
    <3> QED  BY <3>2
  <2> QED  BY <2>5, <2>6
<1>2. CASE RecvTooLong(t)
  <2> DEFINE n == Len(got[d]) + 1
  <2>1. got' = [got EXCEPT ![d] = Append(@, Failed)] /\ Failed \in Results
    BY <1>2 DEF RecvTooLong, Failed, Results
  <2>2. /\ Failures(d)' = Failures(d) \cup {n}
        /\ \A r \in Ranks : r # d => Failures(r)' = Failures(r)
    BY <1>1, <2>1
  <2>3. n \notin Failures(d)
    <3>1. got[d] \in Seq(Results)
      BY <1>0
    <3> QED  BY <3>1, RefusedFinite
  <2> HIDE DEF n
  <2>4. Cardinality(Failures(d)') = Cardinality(Failures(d)) + 1
    BY <2>2, <2>3, RefusedFinite, FS_AddElement
  <2>5. Refused' = Refused \cup {<<d, n>>} /\ <<d, n>> \notin Refused
    <3>1. \A r \in Ranks : \A i : <<r, i>> \in Refused <=> i \in Failures(r)
      BY DEF Refused
    <3>2. \A r \in Ranks : \A i : <<r, i>> \in Refused' <=> i \in Failures(r)'
      BY DEF Refused
    <3>3. \A x \in Refused : \E r \in Ranks : \E i \in Failures(r) : x = <<r, i>>
      BY DEF Refused
    <3>4. \A x \in Refused' : \E r \in Ranks : \E i \in Failures(r)' : x = <<r, i>>
      BY DEF Refused
    <3> QED  BY <2>2, <2>3, <3>1, <3>2, <3>3, <3>4
  <2>6. Cardinality(Refused') = Cardinality(Refused) + 1
    BY <2>5, RefusedFinite, FS_AddElement
  <2> QED  BY <1>2, <2>2, <2>4, <2>6
<1>3. CASE RecvSignalProcFree(t)
  <2>1. out[t].src \in Ranks /\ got' = [got EXCEPT ![d] = Append(@, out[t])]
    BY <1>3 DEF RecvSignalProcFree, Return, Goto, SenderNamed
  <2>2. out[t] # Failed
    <3>1. Failed.src \notin Ranks
      BY DEF Failed, Ranks
    <3> QED  BY <2>1, <3>1
  <2>3. \A r \in Ranks : Failures(r)' = Failures(r)
    BY <1>0, <1>1, <2>1, <2>2
  <2>4. ~RecvTooLong(t)
    BY <1>3 DEF RecvSignalProcFree, RecvTooLong, Return, Goto
  <2> QED  BY <2>3, <2>4 DEF Refused
<1>4. CASE ~RecvTooLong(t) /\ ~RecvSignalProcFree(t)
  <2>1. got' = got
    BY <1>4 DEF Step, Send, Recv, SendCall, SendRejected, SendWaitProcFree,
       SendWaitFreeSlots, SendLockShm, SendPopSlot, SendHeader, SendPayload,
       SendLockProc, SendEnqueue, SendSignalFull, RecvCall, RecvWaitFull,
       RecvTake, RecvLockShm, RecvPushSlot, RecvAccept, RecvHeader,
       RecvPayload, RecvSignalFreeSlots, history
  <2>2. \A r \in Ranks : Failures(r)' = Failures(r)
    BY <2>1 DEF Failures
  <2> QED  BY <1>4, <2>2 DEF Refused
<1> QED  BY <1>2, <1>3, <1>4

\* Every permit is accounted for after a step: one that is given up by a
\* refused call of OSMP_Recv is counted there.
LEMMA ConservedStep ==
  ASSUME TypeOK, PermitsSuffice, SenderNamed, PermitsConserved,
         NEW t \in Threads, Step(t)
  PROVE  PermitsConserved'
<1>0. Moves(t)
  BY SendMoves, RecvMoves DEF Step
<1>1. free_slots' + Cardinality(SlotPromised') + Cardinality(Refused') = Len(free')
  <2> DEFINE C == Cardinality(SlotPromised)
             D == Cardinality(SlotPromised')
             F == Cardinality(Refused)
             G == Cardinality(Refused')
             l == Len(free)
             m == Len(free')
  <2>1. Moved(SlotPromised, SlotPromised', t)
    BY <1>0, SetsMove
  <2>2. free_slots + C + F = l
    BY DEF PermitsConserved, Refused
  <2>3. free_slots \in Nat /\ l \in Nat /\ F \in Nat /\ C \in Nat /\ D \in Nat
    <3>1. free_slots \in Nat /\ free \in Seq(Slots)
      BY DEF TypeOK
    <3>2. C \in Nat /\ D \in Nat
      BY <2>1 DEF Moved
    <3> QED  BY <3>1, <3>2, RefusedFinite
  <2>4. t \in SlotPromised => free # <<>>
    <3>1. SlotPromised \in SUBSET Threads
      BY DEF SlotPromised
    <3>2. t \in SlotPromised => C \in Nat \ {0}
      BY <3>1, CountPositive
    <3>3. t \in SlotPromised => l > 0
      BY <2>2, <2>3, <3>2
    <3> QED  BY <3>3
  <2>5. \/ /\ free_slots' = free_slots /\ m = l /\ D = C /\ ~RecvTooLong(t)
        \/ /\ free_slots' = free_slots - 1 /\ m = l /\ D = C + 1 /\ ~RecvTooLong(t)
        \/ /\ free_slots' = free_slots /\ m = l - 1 /\ D = C - 1 /\ ~RecvTooLong(t)
        \/ /\ free_slots' = free_slots /\ m = l + 1 /\ D = C + 1 /\ ~RecvTooLong(t)
        \/ /\ free_slots' = IF RecvTooLong(t) THEN free_slots ELSE free_slots + 1
           /\ m = l /\ D = C - 1
    <3>1. RecvTooLong(t) => t \in SlotPromised /\ t \notin SlotPromised' /\ free' = free
      BY DEF RecvTooLong, Return, Goto, SlotPromised, TypeOK
    <3>2. l - 1 # l
      BY <2>3
    <3> QED  BY <2>1, <2>4, <3>1, <3>2, SlotCases DEF Moved
  <2>6. G = IF RecvTooLong(t) THEN F + 1 ELSE F
    BY RefusedMoves
  <2>7. free_slots' + D + G = m
    <3> HIDE DEF C, D, F, G, l, m
    <3>1. CASE RecvTooLong(t)
      <4>1. G = F + 1 /\ free_slots' = free_slots /\ m = l /\ D = C - 1
        BY <2>5, <2>6, <3>1
      <4> QED  BY <2>2, <2>3, <4>1
    <3>2. CASE ~RecvTooLong(t)
      <4>1. /\ G = F
            /\ \/ free_slots' = free_slots /\ m = l /\ D = C
               \/ free_slots' = free_slots - 1 /\ m = l /\ D = C + 1
               \/ free_slots' = free_slots /\ m = l - 1 /\ D = C - 1
               \/ free_slots' = free_slots /\ m = l + 1 /\ D = C + 1
               \/ free_slots' = free_slots + 1 /\ m = l /\ D = C - 1
        BY <2>5, <2>6, <3>2
      <4> QED  BY <2>2, <2>3, <4>1
    <3> QED  BY <3>1, <3>2
  <2> QED  BY <2>7
<1>2. ASSUME NEW r \in Ranks
      PROVE  proc_free'[r] + Len(queue'[r]) + Cardinality(PlaceReserved(r)')
               + Cardinality(Failures(r)') = MaxMessagesProc
  <2> DEFINE C == Cardinality(PlaceReserved(r))
             D == Cardinality(PlaceReserved(r)')
             F == Cardinality(Failures(r))
             G == Cardinality(Failures(r)')
             p == proc_free[r]
             q == proc_free'[r]
             l == Len(queue[r])
             m == Len(queue'[r])
             Loses == RecvTooLong(t) /\ r = Self(t)
  <2>1. Moved(PlaceReserved(r), PlaceReserved(r)', t)
    BY <1>0, SetsMove
  <2>2. p + l + C + F = MaxMessagesProc
    BY DEF PermitsConserved
  <2>3. p \in Nat /\ l \in Nat /\ F \in Nat /\ C \in Nat /\ D \in Nat
    <3>1. proc_free[r] \in Nat /\ queue[r] \in Seq(Slots)
      BY DEF TypeOK
    <3>2. C \in Nat /\ D \in Nat
      BY <2>1 DEF Moved
    <3> QED  BY <3>1, <3>2, RefusedFinite
  <2>4. t \in FullPromised(r) => queue[r] # <<>>
    <3>1. FullPromised(r) \in SUBSET Threads
      BY DEF FullPromised
    <3>2. t \in FullPromised(r) => Cardinality(FullPromised(r)) \in Nat \ {0}
      BY <3>1, CountPositive
    <3>3. proc_full[r] \in Nat /\ proc_full[r] + Cardinality(FullPromised(r)) = l
      BY DEF PermitsSuffice, TypeOK
    <3>4. t \in FullPromised(r) => l > 0
      BY <2>3, <3>2, <3>3
    <3> QED  BY <3>4
  <2>5. \/ q = p /\ m = l /\ D = C /\ ~Loses
        \/ q = p - 1 /\ m = l /\ D = C + 1 /\ ~Loses
        \/ q = p /\ m = l + 1 /\ D = C - 1 /\ ~Loses
        \/ q = p /\ m = l - 1 /\ D = C + 1 /\ ~Loses
        \/ q = (IF Loses THEN p ELSE p + 1) /\ m = l /\ D = C - 1
    <3>1. Loses => /\ t \in PlaceReserved(r) /\ t \notin PlaceReserved(r)'
                   /\ queue' = queue
      BY DEF RecvTooLong, Return, Goto, PlaceReserved, ReservedPCs, EmptiedPCs,
             history, TypeOK
    <3>2. RecvTooLong(t) /\ t \in PlaceReserved(r) => Loses
      BY DEF RecvTooLong, Return, Goto, PlaceReserved, ReservedPCs, EmptiedPCs
    <3>3. l + 1 # l
      BY <2>3
    <3> HIDE DEF Loses
    <3>4. PlaceCase(t, r)
      BY PlaceCases
    <3>5. CASE t \in PlaceReserved(r) <=> t \in PlaceReserved(r)'
      <4>1. D = C
        BY <2>1, <3>5 DEF Moved
      <4>2. q = p /\ m = l /\ ~Loses
        BY <3>1, <3>4, <3>5 DEF PlaceCase
      <4> QED  BY <4>1, <4>2
    <3>6. CASE t \notin PlaceReserved(r) /\ t \in PlaceReserved(r)'
      <4>1. D = C + 1 /\ ~Loses
        BY <2>1, <3>1, <3>6 DEF Moved
      <4>2. \/ q = p - 1 /\ m = l
            \/ q = p /\ m = l - 1
        BY <2>4, <3>4, <3>6 DEF PlaceCase
      <4> QED  BY <4>1, <4>2
    <3>7. CASE t \in PlaceReserved(r) /\ t \notin PlaceReserved(r)'
      <4>1. D = C - 1
        BY <2>1, <3>7 DEF Moved
      <4>2. \/ q = (IF RecvTooLong(t) THEN p ELSE p + 1) /\ queue'[r] = queue[r]
            \/ q = p /\ m = l + 1
        BY <3>4, <3>7 DEF PlaceCase
      <4>3. CASE RecvTooLong(t)
        <5>1. Loses /\ m = l
          BY <3>1, <3>2, <3>7, <4>3
        <5>2. q = p
          BY <3>3, <4>2, <4>3, <5>1
        <5> QED  BY <4>1, <5>1, <5>2
      <4>4. CASE ~RecvTooLong(t)
        <5>1. ~Loses
          BY <4>4 DEF Loses
        <5>2. \/ q = p + 1 /\ m = l
              \/ q = p /\ m = l + 1
          BY <4>2, <4>4
        <5> QED  BY <4>1, <5>1, <5>2
      <4> QED  BY <4>3, <4>4
    <3> QED  BY <3>5, <3>6, <3>7
  <2>6. G = IF Loses THEN F + 1 ELSE F
    BY RefusedMoves
  <2>7. q + m + D + G = MaxMessagesProc
    <3> HIDE DEF C, D, F, G, p, q, l, m, Loses
    <3>1. CASE Loses
      <4>1. G = F + 1 /\ q = p /\ m = l /\ D = C - 1
        BY <2>5, <2>6, <3>1
      <4> QED  BY <2>2, <2>3, <4>1
    <3>2. CASE ~Loses
      <4>1. /\ G = F
            /\ \/ q = p /\ m = l /\ D = C
               \/ q = p - 1 /\ m = l /\ D = C + 1
               \/ q = p /\ m = l + 1 /\ D = C - 1
               \/ q = p /\ m = l - 1 /\ D = C + 1
               \/ q = p + 1 /\ m = l /\ D = C - 1
        BY <2>5, <2>6, <3>2
      <4>2. q \in Int /\ m \in Int
        BY <2>3, <4>1
      <4>3. q + m + D = p + l + C
        BY <2>3, <4>1, <4>2
      <4> QED  BY <2>2, <2>3, <4>1, <4>2, <4>3
    <3> QED  BY <3>1, <3>2
  <2> QED  BY <2>7
<1> QED  BY <1>1, <1>2 DEF PermitsConserved, Refused

-----------------------------------------------------------------------------
(* The inductive invariant.                                                *)

\* initMemory and initChild set the semaphores to what there is.
LEMMA InitPermits ==
  ASSUME Init
  PROVE  Locks /\ PermitsSuffice
<1>1. /\ InShmMutex = {} /\ SlotPromised = {}
      /\ \A r \in Ranks : InProcMutex(r) = {} /\ FullPromised(r) = {}
                          /\ PlaceReserved(r) = {}
  BY DEF Init, InShmMutex, SlotPromised, InProcMutex, FullPromised,
         PlaceReserved, ReservedPCs, EmptiedPCs
<1>2. Cardinality({}) = 0
  BY FS_EmptySet
<1>3. Locks
  <2>1. shm_mutex = 1 /\ Cardinality(InShmMutex) = 0
    BY <1>1, <1>2 DEF Init
  <2>2. \A r \in Ranks : proc_mutex[r] = 1 /\ Cardinality(InProcMutex(r)) = 0
    BY <1>1, <1>2 DEF Init
  <2> QED  BY <2>1, <2>2 DEF Locks
<1>4. free_slots + Cardinality(SlotPromised) <= Len(free)
  <2>1. Len(free) = MaxSlots - 1 /\ free_slots = MaxSlots - 1
    BY DEF Init
  <2> QED  BY <1>1, <1>2, <2>1
<1>5. ASSUME NEW r \in Ranks
      PROVE  /\ proc_full[r] + Cardinality(FullPromised(r)) = Len(queue[r])
             /\ proc_free[r] + Len(queue[r]) + Cardinality(PlaceReserved(r))
                  <= MaxMessagesProc
  <2>1. proc_full[r] = 0 /\ proc_free[r] = MaxMessagesProc /\ Len(queue[r]) = 0
    BY DEF Init
  <2>2. Cardinality(FullPromised(r)) = 0 /\ Cardinality(PlaceReserved(r)) = 0
    BY <1>1, <1>2
  <2>3. 0 + 0 = 0 /\ MaxMessagesProc + 0 + 0 <= MaxMessagesProc
    OBVIOUS
  <2> QED  BY <2>1, <2>2, <2>3
<1> QED  BY <1>3, <1>4, <1>5 DEF PermitsSuffice

\* The memory is well typed when the first process starts.
LEMMA InitType ==
  ASSUME Init
  PROVE  TypeOK
<1>1. /\ actual_free_slot \in Slots /\ 0 \in Slots /\ 0 \in Ranks
      /\ 0 \in 0 .. MaxMessagesProc /\ 0 \in 0 .. MaxPayload
  BY DEF Init, Slots, Ranks
<1>2. /\ messages \in [Slots -> Message] /\ out \in [Threads -> Results]
  BY <1>1 DEF Init, Message, Results, Failed
<1>3. next_free_msg_slot \in [Slots -> Slots]
  <2>1. ASSUME NEW s \in Slots
        PROVE  (s + 1) % (MaxSlots - 1) \in Slots
    <3>1. PICK n \in Nat \ {0}, a \in Nat : n = MaxSlots - 1 /\ a = s + 1
      BY DEF Slots
    <3>2. a % n \in 0 .. n - 1
      BY ModFacts
    <3> QED  BY <3>1, <3>2 DEF Slots
  <2> QED  BY <2>1 DEF Init
<1>4. free \in Seq(Slots)
  <2>1. \A i \in 1 .. MaxSlots - 1 : i - 1 \in Slots
    BY DEF Slots
  <2> QED  BY <2>1 DEF Init
<1>5. \A t \in Threads : \A i \in DOMAIN todo[t] : todo[t][i] \in CallsOf(t)
  BY DEF Init, CallsOf
<1>6. \A t \in Threads : pc[t] \notin SendPCs /\ pc[t] \notin RecvPCs
  BY DEF Init, SendPCs, RecvPCs
<1>7. /\ pc \in [Threads -> {"idle"} \cup SendPCs \cup RecvPCs]
      /\ todo \in [Threads -> Seq(SendCalls \cup RecvCalls)]
      /\ slot \in [Threads -> Slots]
  BY <1>1 DEF Init
<1>8. /\ queue \in [Ranks -> Seq(Slots)] /\ taken \in [Ranks -> Seq(Message)]
      /\ got \in [Ranks -> Seq(Results)]
  BY DEF Init
<1>9. /\ shm_mutex \in {0, 1} /\ free_slots \in Nat
      /\ proc_mutex \in [Ranks -> {0, 1}]
      /\ proc_full \in [Ranks -> Nat] /\ proc_free \in [Ranks -> Nat]
      /\ read_index \in [Ranks -> 0 .. MaxMessagesProc]
      /\ write_index \in [Ranks -> 0 .. MaxMessagesProc]
      /\ msg_slots \in [Ranks -> [RingIndex -> Slots]]
  BY <1>1 DEF Init
<1> QED  BY <1>1, <1>2, <1>3, <1>4, <1>5, <1>6, <1>7, <1>8, <1>9 DEF TypeOK

\* initMemory chains all slots in the free list, and the rings are empty.
LEMMA InitSlots ==
  ASSUME Init
  PROVE  SlotExclusive /\ FreeListIntact /\ RingIntact /\ SlotContents
<1>1. /\ Owners = {} /\ \A r \in Ranks : queue[r] = <<>>
      /\ free = [i \in 1 .. MaxSlots - 1 |-> i - 1]
      /\ DOMAIN free = 1 .. MaxSlots - 1 /\ Len(free) = MaxSlots - 1
  BY DEF Init, Owners, OwnerPCs
<1>2. SlotExclusive
  BY <1>1 DEF SlotExclusive
<1>3. FreeListIntact
  <2>1. actual_free_slot = free[1]
    BY <1>1 DEF Init
  <2>2. ASSUME NEW i \in 1 .. Len(free) - 1
        PROVE  next_free_msg_slot[free[i]] = free[i + 1]
    <3>1. free[i] = i - 1 /\ free[i + 1] = i /\ i - 1 \in Slots
      BY <1>1 DEF Slots
    <3>2. PICK n \in Nat \ {0}, a \in Nat : n = MaxSlots - 1 /\ a = i /\ a < n
      BY <1>1
    <3>3. a % n = a
      BY <3>2, ModFacts
    <3>4. i - 1 + 1 = a
      BY <3>2
    <3> QED  BY <3>1, <3>2, <3>3, <3>4 DEF Init
  <2> QED  BY <2>1, <2>2 DEF FreeListIntact
<1>4. RingIntact
  BY <1>1 DEF Init, RingIntact
<1>5. SlotContents
  BY DEF Init, SlotContents
<1> QED  BY <1>2, <1>3, <1>4, <1>5

\* All slots are free, and all permits are there.
LEMMA InitComplete ==
  ASSUME Init
  PROVE  NoSlotLost /\ SenderNamed /\ PermitsConserved
<1>1. NoSlotLost
  <2> SUFFICES ASSUME NEW s \in Slots
               PROVE  \E i \in DOMAIN free : free[i] = s
    BY DEF NoSlotLost
  <2>0. PICK i \in Int : i = s + 1
    BY DEF Slots
  <2>1. i \in 1 .. MaxSlots - 1 /\ i - 1 = s
    BY <2>0 DEF Slots
  <2>2. free = [j \in 1 .. MaxSlots - 1 |-> j - 1]
    BY DEF Init
  <2>3. i \in DOMAIN free /\ free[i] = s
    BY <2>1, <2>2
  <2> QED  BY <2>3
<1>2. SenderNamed
  BY DEF Init, SenderNamed
<1>3. \A r \in Ranks : Failures(r) = {} /\ PlaceReserved(r) = {}
  BY DEF Init, Failures, PlaceReserved, ReservedPCs, EmptiedPCs
<1>4. SlotPromised = {} /\ Refused = {}
  BY <1>3 DEF Init, SlotPromised, Refused
<1>5. Cardinality({}) = 0
  BY FS_EmptySet
<1>6. free_slots + Cardinality(SlotPromised) + Cardinality(Refused) = Len(free)
  <2>1. free_slots = MaxSlots - 1 /\ Len(free) = MaxSlots - 1
    BY DEF Init
  <2>2. Cardinality(SlotPromised) = 0 /\ Cardinality(Refused) = 0
    BY <1>4, <1>5
  <2> QED  BY <2>1, <2>2
<1>7. ASSUME NEW r \in Ranks
      PROVE  proc_free[r] + Len(queue[r]) + Cardinality(PlaceReserved(r))
               + Cardinality(Failures(r)) = MaxMessagesProc
  <2>1. proc_free[r] = MaxMessagesProc /\ Len(queue[r]) = 0
    BY DEF Init
  <2>2. Cardinality(PlaceReserved(r)) = 0 /\ Cardinality(Failures(r)) = 0
    BY <1>3, <1>5
  <2> QED  BY <2>1, <2>2
<1> QED  BY <1>1, <1>2, <1>6, <1>7 DEF PermitsConserved, Refused

\* IInv is preserved by every step.
LEMMA InvariantStep ==
  ASSUME IInv, [Next]_vars
  PROVE  IInv'
<1>1. ASSUME NEW t \in Threads, Step(t)
      PROVE  IInv'
  <2>1. /\ TypeOK' /\ Locks' /\ PermitsSuffice' /\ SlotExclusive'
        /\ FreeListIntact' /\ RingIntact' /\ SlotContents'
    BY <1>1, TypeStep, ExclusiveStep, FreeListStep, RingStep, ContentsStep DEF IInv
  <2>2. NoSlotLost' /\ SenderNamed' /\ PermitsConserved'
    BY <1>1, NoSlotLostStep, SenderNamedStep, ConservedStep DEF IInv
  <2> QED  BY <2>1, <2>2 DEF IInv
<1>2. CASE UNCHANGED vars
  <2>1. TypeOK'
    BY <1>2 DEF IInv, TypeOK, vars, shmVars, procVars, threadVars, history,
                Call, Sendable, Dest, Self
  <2>2. Locks' /\ PermitsSuffice'
    BY <1>2 DEF IInv, Locks, PermitsSuffice, vars, shmVars, procVars,
       threadVars, history, InShmMutex, InProcMutex, SlotPromised,
       FullPromised, PlaceReserved, Dest, Call, Self
  <2>3. SlotExclusive' /\ FreeListIntact' /\ RingIntact' /\ SlotContents'
    BY <1>2 DEF IInv, SlotExclusive, FreeListIntact, RingIntact, SlotContents,
       vars, shmVars, procVars, threadVars, history, Owners, Call, Self
  <2>4. NoSlotLost' /\ SenderNamed'
    BY <1>2 DEF IInv, NoSlotLost, SenderNamed, Owners, vars, shmVars, procVars,
                threadVars, history
  <2>5. PermitsConserved'
    BY <1>2 DEF IInv, PermitsConserved, Failures, SlotPromised, PlaceReserved,
                Dest, Call, Self, vars, shmVars, procVars, threadVars, history
  <2> QED  BY <2>1, <2>2, <2>3, <2>4, <2>5 DEF IInv
<1> QED  BY <1>1, <1>2 DEF Next, Terminating

\* Slots, rings and semaphores stay consistent in every reachable state.
THEOREM InductiveInvariant == Spec => []IInv
<1>1. Init => IInv
  BY InitPermits, InitType, InitSlots, InitComplete DEF IInv
<1>2. IInv /\ [Next]_vars => IInv'
  BY InvariantStep
<1> QED  BY <1>1, <1>2, PTL DEF Spec

\* The types of the shared memory segment and of the threads.
THEOREM TypeCorrect == Spec => []TypeOK
<1>1. IInv => TypeOK
  BY DEF IInv
<1> QED  BY InductiveInvariant, <1>1, PTL

\* shm_mutex and proc_mutex exclude; no OSMP_Send pops from an empty free list
\* or overwrites a ring entry nobody has taken, no OSMP_Recv takes from an
\* empty ring.
THEOREM PermitsSafe == Spec => [](Locks /\ PermitsSuffice)
<1>1. IInv => Locks /\ PermitsSuffice
  BY DEF IInv
<1> QED  BY InductiveInvariant, <1>1, PTL

\* No slot is ever free and queued, queued twice or owned by two threads.
THEOREM SlotsSafe == Spec => [](SlotExclusive /\ FreeListIntact /\ RingIntact)
<1>1. IInv => SlotExclusive /\ FreeListIntact /\ RingIntact
  BY DEF IInv
<1> QED  BY InductiveInvariant, <1>1, PTL

\* No slot leaks, whatever OSMP_Recv returns: every slot is in the free list, in
\* a ring, or with one thread that is about to publish it or give it back.
THEOREM NoSlotLeaks == Spec => []NoSlotLost
<1>1. IInv => NoSlotLost
  BY DEF IInv
<1> QED  BY InductiveInvariant, <1>1, PTL

\* The permits of free_slots and proc_free are all there but for exactly one of
\* each that every OSMP_Recv with too small a buffer has dropped.
THEOREM PermitsKept == Spec => []PermitsConserved
<1>1. IInv => PermitsConserved
  BY DEF IInv
<1> QED  BY InductiveInvariant, <1>1, PTL

-----------------------------------------------------------------------------
(* The rings and slots implement the mailboxes of OsmpMailbox.             *)

\* Sequences of one length with the same elements are equal.
LEMMA SequenceEqual ==
  ASSUME NEW S, NEW s \in Seq(S), NEW u \in Seq(S), Len(s) = Len(u),
         \A i \in 1 .. Len(s) : s[i] = u[i]
  PROVE  s = u
  OBVIOUS

\* The messages a sequence of slots stands for.
LEMMA BoxSequence ==
  ASSUME NEW q \in Seq(Slots), NEW m \in [Slots -> Message]
  PROVE  LET b == [i \in DOMAIN q |-> m[q[i]]]
         IN  /\ b \in Seq(Message) /\ Len(b) = Len(q) /\ Len(q) \in Nat
             /\ DOMAIN q = 1 .. Len(q)
             /\ \A i \in 1 .. Len(q) : q[i] \in Slots /\ b[i] = m[q[i]]
<1> DEFINE b == [i \in 1 .. Len(q) |-> m[q[i]]]
<1>1. DOMAIN q = 1 .. Len(q) /\ Len(q) \in Nat
  OBVIOUS
<1>2. \A i \in 1 .. Len(q) : q[i] \in Slots /\ m[q[i]] \in Message
  OBVIOUS
<1>3. b \in Seq(Message) /\ Len(b) = Len(q)
  BY <1>1, <1>2
<1> QED  BY <1>1, <1>2, <1>3

\* The mailbox of a rank: the messages of the slots in its ring.
LEMMA BoxFacts ==
  ASSUME TypeOK, NEW r \in Ranks
  PROVE  /\ Box(r) \in Seq(Message) /\ Len(Box(r)) = Len(queue[r])
         /\ DOMAIN queue[r] = 1 .. Len(queue[r]) /\ Len(queue[r]) \in Nat
         /\ \A i \in 1 .. Len(queue[r]) :
              queue[r][i] \in Slots /\ Box(r)[i] = messages[queue[r][i]]
<1>1. queue[r] \in Seq(Slots) /\ messages \in [Slots -> Message]
  BY DEF TypeOK
<1> QED  BY <1>1, BoxSequence DEF Box

\* The same of the mailbox after a step.
LEMMA NextBoxFacts ==
  ASSUME TypeOK', NEW r \in Ranks
  PROVE  /\ Box(r)' \in Seq(Message) /\ Len(Box(r)') = Len(queue'[r])
         /\ \A i \in 1 .. Len(queue'[r]) : Box(r)'[i] = messages'[queue'[r][i]]
<1>1. queue'[r] \in Seq(Slots) /\ messages' \in [Slots -> Message]
  BY DEF TypeOK
<1> QED  BY <1>1, BoxSequence DEF Box

\* A message waiting in a ring is not changed by anybody.
LEMMA WaitingStays ==
  ASSUME TypeOK, SlotExclusive, NEW t \in Threads, Step(t),
         NEW r \in Ranks, NEW i \in 1 .. Len(queue[r])
  PROVE  messages'[queue[r][i]] = messages[queue[r][i]]
<1>1. queue[r][i] \in Slots /\ i \in DOMAIN queue[r]
  BY BoxFacts
<1>2. t \in Owners => queue[r][i] # slot[t]
  BY <1>1 DEF SlotExclusive
<1> QED  BY <1>1, <1>2, SlotWrites

\* Publishing is Put, taking is Take, and every other step is a stutter.
LEMMA BoxMoves ==
  ASSUME IInv, IInv', NEW t \in Threads, Step(t)
  PROVE  \/ ~SendEnqueue(t) /\ UNCHANGED <<[r \in Ranks |-> Box(r)], taken>>
         \/ ~SendEnqueue(t) /\ \E r \in Ranks : Mailbox!Take(r)
         \/ SendEnqueue(t) /\ Mailbox!Put(Dest(t), messages[slot[t]])
<1> DEFINE box == [r \in Ranks |-> Box(r)]
<1>0. /\ TypeOK /\ TypeOK' /\ PermitsSuffice /\ SlotExclusive /\ FreeListIntact
      /\ RingIntact /\ Ranks' = Ranks
  BY DEF IInv
<1>1. \A r \in Ranks : queue'[r] = queue[r] => Box(r)' = Box(r)
  <2> SUFFICES ASSUME NEW r \in Ranks, queue'[r] = queue[r]
               PROVE  Box(r)' = Box(r)
    OBVIOUS
  <2>1. \A i \in DOMAIN queue[r] : messages'[queue[r][i]] = messages[queue[r][i]]
    BY <1>0, BoxFacts, WaitingStays
  <2> QED  BY <2>1 DEF Box
<1>2. CASE SendEnqueue(t) /\ Publishes(t)
  <2>0. PICK d \in Ranks, m \in Message : d = Dest(t) /\ m = messages[slot[t]]
    BY <1>0, <1>2 DEF Publishes, TypeOK
  <2>1. /\ Len(queue[d]) < MaxMessagesProc
        /\ queue[d] \in Seq(Slots) /\ slot[t] \in Slots
    BY <1>0, <1>2, <2>0, Promises DEF Publishes, TypeOK
  <2>2. /\ queue' = [queue EXCEPT ![d] = Append(queue[d], slot[t])]
        /\ messages' = messages /\ taken' = taken
    BY <1>2, <2>0 DEF SendEnqueue, Publishes, shmVars
  <2>3. queue'[d] = Append(queue[d], slot[t]) /\ \A r \in Ranks \ {d} : queue'[r] = queue[r]
    BY <1>0, <2>1, <2>2 DEF TypeOK
  <2>4. Box(d)' = Append(Box(d), m)
    <3>1. Box(d) \in Seq(Message) /\ Len(Box(d)) = Len(queue[d]) /\ Len(queue[d]) \in Nat
      BY <1>0, <2>1, BoxFacts
    <3>2. /\ Box(d)' \in Seq(Message) /\ Len(Box(d)') = Len(queue'[d])
          /\ \A i \in 1 .. Len(queue'[d]) : Box(d)'[i] = messages'[queue'[d][i]]
      BY <1>0, NextBoxFacts
    <3>3. /\ Append(Box(d), m) \in Seq(Message)
          /\ Len(Append(Box(d), m)) = Len(queue[d]) + 1
          /\ Len(queue'[d]) = Len(queue[d]) + 1
      BY <2>1, <2>3, <3>1, AppendFacts
    <3>4. ASSUME NEW i \in 1 .. Len(queue[d]) + 1
          PROVE  Box(d)'[i] = Append(Box(d), m)[i]
      <4>1. CASE i \in 1 .. Len(queue[d])
        <5>1. queue'[d][i] = queue[d][i] /\ Append(Box(d), m)[i] = Box(d)[i]
          BY <2>1, <2>3, <3>1, <4>1, AppendFacts
        <5>2. Box(d)[i] = messages[queue[d][i]]
          BY <1>0, <2>1, <4>1, BoxFacts
        <5> QED  BY <2>2, <3>2, <3>3, <5>1, <5>2
      <4>2. CASE i = Len(queue[d]) + 1
        <5>1. queue'[d][i] = slot[t] /\ Append(Box(d), m)[i] = m
          BY <2>1, <2>3, <3>1, <4>2, AppendFacts
        <5> QED  BY <2>0, <2>2, <3>2, <3>3, <5>1
      <4> QED  BY <3>1, <4>1, <4>2
    <3> QED  BY <3>2, <3>3, <3>4, SequenceEqual
  <2>5. box' = [box EXCEPT ![d] = Append(box[d], m)]
    <3>1. \A r \in Ranks \ {d} : Box(r)' = Box(r)
      BY <1>1, <2>3
    <3>2. box' = [r \in Ranks |-> Box(r)'] /\ box[d] = Box(d)
      BY <1>0
    <3> QED  BY <2>4, <3>1, <3>2
  <2>6. Len(box[d]) < MaxMessagesProc
    BY <1>0, <2>1, BoxFacts
  <2>7. Mailbox!Put(d, m)
    BY <2>1, <2>2, <2>5, <2>6 DEF Mailbox!Put
  <2> QED  BY <1>2, <2>0, <2>7
<1>3. CASE RecvTake(t) /\ Takes(t)
  <2>0. PICK d \in Ranks : d = Self(t)
    BY <1>3 DEF Takes
  <2> DEFINE s == queue[d][1]
  <2>1. /\ queue[d] # <<>> /\ queue[d] \in Seq(Slots)
        /\ msg_slots[d][read_index[d] % MaxMessagesProc] = s
    BY <1>0, <1>3, <2>0, Promises DEF Takes, TypeOK
  <2>2. /\ queue' = [queue EXCEPT ![d] = Tail(queue[d])]
        /\ messages' = messages
        /\ taken' = [taken EXCEPT ![d] = Append(taken[d], messages[s])]
    BY <1>3, <2>0, <2>1 DEF RecvTake, Takes, shmVars
  <2>3. queue'[d] = Tail(queue[d]) /\ \A r \in Ranks \ {d} : queue'[r] = queue[r]
    BY <1>0, <2>1, <2>2 DEF TypeOK
  <2>4. /\ Box(d) \in Seq(Message) /\ Len(Box(d)) = Len(queue[d])
        /\ Len(queue[d]) \in Nat \ {0} /\ Box(d) # <<>>
    <3>1. Len(queue[d]) \in Nat \ {0}
      BY <2>1, TailFacts
    <3>2. Box(d) \in Seq(Message) /\ Len(Box(d)) = Len(queue[d])
      BY <1>0, <2>1, BoxFacts
    <3> QED  BY <3>1, <3>2
  <2>5. Head(Box(d)) = messages[s]
    <3>1. 1 \in 1 .. Len(queue[d]) /\ Head(Box(d)) = Box(d)[1]
      BY <2>4
    <3> QED  BY <1>0, <2>1, <3>1, BoxFacts
  <2>6. Box(d)' = Tail(Box(d))
    <3>1. /\ Box(d)' \in Seq(Message) /\ Len(Box(d)') = Len(queue'[d])
          /\ \A i \in 1 .. Len(queue'[d]) : Box(d)'[i] = messages'[queue'[d][i]]
      BY <1>0, NextBoxFacts
    <3>2. /\ Tail(Box(d)) \in Seq(Message) /\ Len(Tail(Box(d))) = Len(queue[d]) - 1
          /\ Len(queue'[d]) = Len(queue[d]) - 1
          /\ \A i \in 1 .. Len(queue[d]) - 1 : /\ Tail(Box(d))[i] = Box(d)[i + 1]
                                              /\ queue'[d][i] = queue[d][i + 1]
      BY <2>1, <2>3, <2>4, TailFacts
    <3>3. ASSUME NEW i \in 1 .. Len(queue[d]) - 1
          PROVE  Box(d)'[i] = Tail(Box(d))[i]
      <4>1. i + 1 \in 1 .. Len(queue[d])
        BY <2>4
      <4>2. Box(d)[i + 1] = messages[queue[d][i + 1]]
        BY <1>0, <2>1, <4>1, BoxFacts
      <4> QED  BY <2>2, <3>1, <3>2, <4>2
    <3> QED  BY <3>1, <3>2, <3>3, SequenceEqual
  <2>7. box' = [box EXCEPT ![d] = Tail(box[d])]
    <3>1. \A r \in Ranks \ {d} : Box(r)' = Box(r)
      BY <1>1, <2>3
    <3>2. box' = [r \in Ranks |-> Box(r)'] /\ box[d] = Box(d)
      BY <1>0
    <3> QED  BY <2>6, <3>1, <3>2
  <2>8. Mailbox!Take(d)
    BY <2>1, <2>2, <2>4, <2>5, <2>7 DEF Mailbox!Take
  <2>9. ~SendEnqueue(t)
    BY <1>3 DEF Takes, SendEnqueue, Goto
  <2> QED  BY <2>0, <2>8, <2>9
<1>4. CASE ~SendEnqueue(t) /\ ~RecvTake(t)
  <2>1. queue' = queue
    BY <1>0, <1>4, SlotMoves DEF Stays, Pops, Pushes
  <2>2. taken' = taken
    <3>1. CASE Send(t)
      BY <1>4, <3>1 DEF Send, SendCall, SendRejected, SendWaitProcFree,
         SendWaitFreeSlots, SendLockShm, SendPopSlot, SendHeader, SendPayload,
         SendLockProc, SendSignalFull, history
    <3>2. CASE Recv(t)
      BY <1>4, <3>2 DEF Recv, RecvCall, RecvWaitFull, RecvLockShm, RecvPushSlot,
         RecvAccept, RecvTooLong, RecvHeader, RecvPayload, RecvSignalFreeSlots,
         RecvSignalProcFree, history
    <3> QED  BY <3>1, <3>2 DEF Step
  <2>3. box' = box
    BY <1>1, <2>1
  <2> QED  BY <1>4, <2>2, <2>3
<1>5. CASE SendEnqueue(t) \/ RecvTake(t)
  <2>1. SendEnqueue(t) => pc[t] = "S_enqueue"
    BY DEF SendEnqueue, Goto
  <2>2. RecvTake(t) => pc[t] = "R_take"
    BY DEF RecvTake, Goto
  <2>3. \/ SendEnqueue(t) /\ Publishes(t)
        \/ RecvTake(t) /\ Takes(t)
    BY <1>0, <1>5, <2>1, <2>2, SlotMoves DEF Pops, Publishes, Takes, Pushes
  <2> QED  BY <1>2, <1>3, <2>3
<1> QED  BY <1>4, <1>5

\* A step of a thread is a step of the mailboxes, or none.
LEMMA MailboxStep ==
  ASSUME IInv, IInv', NEW t \in Threads, Step(t)
  PROVE  [Mailbox!Next]_<<[r \in Ranks |-> Box(r)], taken>>
<1>1. SendEnqueue(t) => Dest(t) \in Ranks /\ messages[slot[t]] \in Message
  BY SendFacts DEF SendEnqueue, Goto, SendPCs, IInv, TypeOK
<1> QED  BY <1>1, BoxMoves DEF Mailbox!Next

\* OSMP_Send and OSMP_Recv implement one bounded FIFO mailbox per process:
\* whole messages, unaltered, in the order in which they were published.
THEOREM MailboxImplemented == Spec => ImplementsMailbox
<1>1. Init => Mailbox!Init
  <2> SUFFICES ASSUME Init PROVE Mailbox!Init
    OBVIOUS
  <2>1. \A r \in Ranks : Box(r) = <<>>
    <3> SUFFICES ASSUME NEW r \in Ranks PROVE Box(r) = <<>>
      OBVIOUS
    <3>1. queue[r] = <<>>
      BY DEF Init
    <3>2. Box(r) \in Seq(Message) /\ Len(Box(r)) = 0
      BY <3>1, InitType, BoxFacts
    <3> QED  BY <3>2
  <2> QED  BY <2>1 DEF Init, Mailbox!Init
<1>2. IInv /\ IInv' /\ [Next]_vars => [Mailbox!Next]_<<[r \in Ranks |-> Box(r)], taken>>
  <2> SUFFICES ASSUME IInv, IInv', [Next]_vars
               PROVE  [Mailbox!Next]_<<[r \in Ranks |-> Box(r)], taken>>
    OBVIOUS
  <2>1. CASE \E t \in Threads : Step(t)
    BY <2>1, MailboxStep
  <2>2. CASE UNCHANGED vars
    BY <2>2 DEF vars, shmVars, procVars, threadVars, history, Box
  <2> QED  BY <2>1, <2>2 DEF Next, Terminating
<1> QED  BY InductiveInvariant, <1>1, <1>2, PTL DEF Spec, ImplementsMailbox, Mailbox!Spec

-----------------------------------------------------------------------------
(* What arrives is what was sent.                                          *)

\* A sequence joined from two does not change when the first takes the head of
\* the second.
LEMMA TakeJoins ==
  ASSUME NEW S, NEW a \in Seq(S), NEW b \in Seq(S), b # <<>>
  PROVE  Append(a, Head(b)) \o Tail(b) = a \o b
  OBVIOUS

\* What is appended to the second of two joined sequences is at the end of both.
LEMMA PutJoins ==
  ASSUME NEW S, NEW a \in Seq(S), NEW b \in Seq(S), NEW e \in S
  PROVE  a \o Append(b, e) = Append(a \o b, e)
  OBVIOUS

\* Only OSMP_Send's publication changes what has arrived at a process.
LEMMA ArrivalsStep ==
  ASSUME IInv, IInv', NEW t \in Threads, Step(t), NEW r \in Ranks
  PROVE  /\ Arrivals(r) \in Seq(Message)
         /\ SendEnqueue(t) /\ r = Dest(t) =>
              Arrivals(r)' = Append(Arrivals(r), messages[slot[t]])
         /\ ~(SendEnqueue(t) /\ r = Dest(t)) => Arrivals(r)' = Arrivals(r)
<1> DEFINE box == [q \in Ranks |-> Box(q)]
<1>1. taken[r] \in Seq(Message) /\ Box(r) \in Seq(Message) /\ box[r] = Box(r)
  BY BoxFacts DEF IInv, TypeOK
<1>2. Arrivals(r) = taken[r] \o box[r] /\ Arrivals(r) \in Seq(Message)
  BY <1>1 DEF Arrivals
<1>3. Arrivals(r)' = taken'[r] \o box'[r]
  BY DEF Arrivals
<1>4. box \in [Ranks -> Seq(Message)] /\ taken \in [Ranks -> Seq(Message)]
  BY BoxFacts DEF IInv, TypeOK
<1>5. CASE ~SendEnqueue(t) /\ UNCHANGED <<box, taken>>
  BY <1>2, <1>3, <1>5
<1>6. CASE ~SendEnqueue(t) /\ \E q \in Ranks : Mailbox!Take(q)
  <2> PICK q \in Ranks : Mailbox!Take(q)
    BY <1>6
  <2> HIDE DEF box
  <2>1. /\ box[q] # <<>> /\ box' = [box EXCEPT ![q] = Tail(@)]
        /\ taken' = [taken EXCEPT ![q] = Append(@, Head(box[q]))]
    BY DEF Mailbox!Take, box
  <2>2. CASE q = r
    <3>1. taken'[r] = Append(taken[r], Head(box[r])) /\ box'[r] = Tail(box[r])
      BY <1>4, <2>1, <2>2
    <3>2. Append(taken[r], Head(box[r])) \o Tail(box[r]) = taken[r] \o box[r]
      <4> DEFINE a == taken[r]
                 b == box[r]
      <4>1. a \in Seq(Message) /\ b \in Seq(Message) /\ b # <<>>
        BY <1>1, <2>1, <2>2
      <4> HIDE DEF a, b
      <4>2. Append(a, Head(b)) \o Tail(b) = a \o b
        BY <4>1, TakeJoins
      <4> QED  BY <4>2 DEF a, b
    <3> QED  BY <1>2, <1>3, <1>6, <3>1, <3>2
  <2>3. CASE q # r
    BY <1>2, <1>3, <1>4, <1>6, <2>1, <2>3
  <2> QED  BY <2>2, <2>3
<1>7. CASE SendEnqueue(t) /\ Mailbox!Put(Dest(t), messages[slot[t]])
  <2> DEFINE m == messages[slot[t]]
             d == Dest(t)
  <2>1. m \in Message
    BY DEF IInv, TypeOK
  <2>2. box' = [box EXCEPT ![d] = Append(@, m)] /\ taken' = taken
    BY <1>7 DEF Mailbox!Put
  <2> HIDE DEF box, m, d
  <2>3. CASE r = d
    <3>1. box'[r] = Append(box[r], m)
      BY <1>4, <2>2, <2>3
    <3>2. Arrivals(r)' = Append(Arrivals(r), m)
      <4> DEFINE a == taken[r]
                 b == box[r]
      <4>1. a \in Seq(Message) /\ b \in Seq(Message)
        BY <1>1
      <4> HIDE DEF a, b
      <4>2. a \o Append(b, m) = Append(a \o b, m)
        BY <2>1, <4>1, PutJoins
      <4> QED  BY <1>2, <1>3, <2>2, <3>1, <4>2 DEF a, b
    <3> QED  BY <1>2, <1>7, <2>3, <3>2 DEF m, d
  <2>4. CASE r # d
    <3>1. box'[r] = box[r]
      BY <1>4, <2>2, <2>4
    <3> QED  BY <1>2, <1>3, <2>2, <2>4, <3>1 DEF d
  <2> QED  BY <2>3, <2>4
<1> QED  BY <1>5, <1>6, <1>7, BoxMoves

\* The call a thread is in is the first one of its program that has not ended.
LEMMA RestFacts ==
  ASSUME TypeOK, RestOfProgram, NEW t \in Threads
  PROVE  /\ Len(Program[t]) \in Nat /\ Len(todo[t]) \in Nat
         /\ Len(todo[t]) <= Len(Program[t])
         /\ todo[t] # <<>> =>
              /\ Len(todo[t]) # 0 /\ Len(Tail(todo[t])) = Len(todo[t]) - 1
              /\ Program[t][Len(Program[t]) - Len(todo[t]) + 1] = Call(t)
<1>1. todo[t] \in Seq(SendCalls \cup RecvCalls) /\ Program[t] \in Seq(SendCalls \cup RecvCalls)
  BY ConstantsAssumption DEF TypeOK
<1>2. Len(todo[t]) <= Len(Program[t])
  BY DEF RestOfProgram
<1>3. ASSUME todo[t] # <<>>
      PROVE  /\ Len(todo[t]) # 0 /\ Len(Tail(todo[t])) = Len(todo[t]) - 1
             /\ Program[t][Len(Program[t]) - Len(todo[t]) + 1] = Call(t)
  <2>1. 1 \in 1 .. Len(todo[t]) /\ Len(Tail(todo[t])) = Len(todo[t]) - 1
    BY <1>1, <1>3, TailFacts
  <2>2. todo[t][1] = Program[t][Len(Program[t]) - Len(todo[t]) + 1]
    BY <2>1 DEF RestOfProgram
  <2>3. Call(t) = todo[t][1]
    BY <1>1, <1>3 DEF Call
  <2> QED  BY <1>1, <2>1, <2>2, <2>3
<1>4. Len(Program[t]) \in Nat /\ Len(todo[t]) \in Nat
  BY <1>1
<1> QED  BY <1>2, <1>3, <1>4

\* Programs are worked off from their beginning.
LEMMA RestStep ==
  ASSUME TypeOK, RestOfProgram, NEW t \in Threads, Step(t)
  PROVE  RestOfProgram'
<1>1. Moves(t)
  BY SendMoves, RecvMoves DEF Step
<1>2. ASSUME NEW u \in Threads
      PROVE  /\ Len(todo'[u]) <= Len(Program[u])
             /\ \A i \in 1 .. Len(todo'[u]) :
                  todo'[u][i] = Program[u][Len(Program[u]) - Len(todo'[u]) + i]
  <2>1. CASE todo'[u] = todo[u]
    BY <2>1 DEF RestOfProgram
  <2>2. CASE u = t /\ todo[t] # <<>> /\ todo' = [todo EXCEPT ![t] = Tail(@)]
    <3>1. todo[t] \in Seq(SendCalls \cup RecvCalls) /\ todo'[t] = Tail(todo[t])
      BY <2>2 DEF TypeOK
    <3>2. /\ Len(Tail(todo[t])) = Len(todo[t]) - 1 /\ Len(todo[t]) \in Nat \ {0}
          /\ \A i \in 1 .. Len(todo[t]) - 1 : Tail(todo[t])[i] = todo[t][i + 1]
      BY <2>2, <3>1, TailFacts
    <3>3. Len(Program[t]) \in Nat /\ Len(todo[t]) <= Len(Program[t])
      BY RestFacts
    <3>4. ASSUME NEW i \in 1 .. Len(todo[t]) - 1
          PROVE  Tail(todo[t])[i]
                   = Program[t][Len(Program[t]) - (Len(todo[t]) - 1) + i]
      <4>1. i + 1 \in 1 .. Len(todo[t])
        BY <3>2
      <4>2. todo[t][i + 1] = Program[t][Len(Program[t]) - Len(todo[t]) + (i + 1)]
        BY <4>1 DEF RestOfProgram
      <4>3. Len(Program[t]) - Len(todo[t]) + (i + 1)
              = Len(Program[t]) - (Len(todo[t]) - 1) + i
        BY <3>2, <3>3
      <4> QED  BY <3>2, <4>2, <4>3
    <3>5. Len(todo'[t]) = Len(todo[t]) - 1 /\ Len(todo[t]) - 1 <= Len(Program[t])
      BY <3>1, <3>2, <3>3
    <3>6. \A i \in 1 .. Len(todo'[t]) :
            todo'[t][i] = Program[t][Len(Program[t]) - Len(todo'[t]) + i]
      BY <3>1, <3>4, <3>5
    <3> QED  BY <2>2, <3>5, <3>6
  <2> QED  BY <1>1, <2>1, <2>2 DEF Moves
<1> QED  BY <1>2 DEF RestOfProgram

\* How many calls of a thread have ended; one more when it publishes a message,
\* when OSMP_Send refuses one and when OSMP_Recv returns.
LEMMA EndedStep ==
  ASSUME TypeOK, RestOfProgram, NEW t \in Threads, Step(t)
  PROVE  /\ Ended(t) \in Nat
         /\ \A u \in Threads \ {t} : Ended(u)' = Ended(u)
         /\ SendEnqueue(t) => /\ Ended(t)' = Ended(t) + 1
                              /\ Program[t][Ended(t) + 1] = Call(t)
         /\ \/ SendEnqueue(t)
            \/ Ended(t)' = Ended(t)
            \/ /\ Ended(t)' = Ended(t) + 1
               /\ Program[t][Ended(t) + 1] = Call(t)
               /\ Call(t).op = "recv" \/ ~Sendable(t)
<1> DEFINE n == Len(Program[t])
           k == Len(todo[t])
<1>1. /\ n \in Nat /\ k \in Nat /\ k <= n
      /\ todo[t] # <<>> => /\ k # 0 /\ Len(Tail(todo[t])) = k - 1
                           /\ Program[t][n - k + 1] = Call(t)
  BY RestFacts
<1>2. /\ pc[t] \in SendPCs \cup RecvPCs => todo[t] # <<>>
      /\ pc[t] \in RecvPCs => Call(t).op = "recv"
      /\ pc \in [Threads -> PCs] /\ todo \in [Threads -> Seq(SendCalls \cup RecvCalls)]
  BY DEF TypeOK, PCs
<1>3. Moves(t)
  BY SendMoves, RecvMoves DEF Step
<1>4. \A u \in Threads \ {t} : Ended(u)' = Ended(u)
  BY <1>3 DEF Moves, Ended
<1>5. Ended(t) = n - k + (IF pc[t] = "S_procFull" THEN 1 ELSE 0)
  BY DEF Ended
<1>6. Ended(t)' = n - Len(todo'[t]) + (IF pc'[t] = "S_procFull" THEN 1 ELSE 0)
  BY DEF Ended
<1>7. Ended(t) \in Nat
  BY <1>1, <1>5
<1> HIDE DEF n, k
<1>8. CASE SendEnqueue(t)
  <2>1. pc[t] = "S_enqueue" /\ pc'[t] = "S_procFull" /\ todo' = todo
    BY <1>2, <1>8 DEF SendEnqueue, Goto
  <2>2. todo[t] # <<>>
    BY <1>2, <2>1 DEF SendPCs
  <2>3. Ended(t) = n - k /\ Ended(t)' = n - k + 1
    <3>1. Len(todo'[t]) = k
      BY <2>1 DEF k
    <3>2. Ended(t) = n - k + 0
      BY <1>5, <2>1
    <3>3. Ended(t)' = n - k + 1
      BY <1>6, <2>1, <3>1
    <3> QED  BY <1>1, <3>2, <3>3
  <2> QED  BY <1>1, <1>4, <1>7, <1>8, <2>2, <2>3
<1>9. CASE SendSignalFull(t)
  <2>1. pc[t] = "S_procFull" /\ pc'[t] = "idle" /\ todo'[t] = Tail(todo[t])
    BY <1>2, <1>9 DEF SendSignalFull, Return, Goto
  <2>2. todo[t] # <<>>
    BY <1>2, <2>1 DEF SendPCs
  <2>3. Ended(t)' = Ended(t) /\ ~SendEnqueue(t)
    BY <1>1, <1>5, <1>6, <2>1, <2>2 DEF SendEnqueue, Goto
  <2> QED  BY <1>4, <1>7, <2>3
<1>10. CASE SendRejected(t) \/ RecvTooLong(t) \/ RecvSignalProcFree(t)
  <2>1. /\ pc[t] \in {"idle", "R_check", "R_procFree"} /\ pc'[t] = "idle"
        /\ todo'[t] = Tail(todo[t])
    BY <1>2, <1>10 DEF SendRejected, RecvTooLong, RecvSignalProcFree, Return, Goto
  <2>2. todo[t] # <<>> /\ (Call(t).op = "recv" \/ ~Sendable(t))
    BY <1>2, <1>10 DEF SendRejected, RecvTooLong, RecvSignalProcFree, Return, Goto, RecvPCs
  <2>3. ~SendEnqueue(t)
    BY <2>1 DEF SendEnqueue, Goto
  <2>4. Ended(t) = n - k /\ Ended(t)' = Ended(t) + 1
    <3>1. Ended(t) = n - k + 0
      BY <1>5, <2>1
    <3>2. Ended(t)' = n - (k - 1) + 0
      BY <1>1, <1>6, <2>1, <2>2
    <3> QED  BY <1>1, <3>1, <3>2
  <2> QED  BY <1>1, <1>4, <1>7, <2>2, <2>3, <2>4
<1>11. CASE \/ SendCall(t) \/ SendWaitProcFree(t) \/ SendWaitFreeSlots(t)
           \/ SendLockShm(t) \/ SendPopSlot(t) \/ SendHeader(t)
           \/ SendPayload(t) \/ SendLockProc(t)
           \/ RecvCall(t) \/ RecvWaitFull(t) \/ RecvTake(t) \/ RecvLockShm(t)
           \/ RecvPushSlot(t) \/ RecvAccept(t) \/ RecvHeader(t)
           \/ RecvPayload(t) \/ RecvSignalFreeSlots(t)
  <2>1. /\ pc[t] # "S_procFull" /\ pc[t] # "S_enqueue"
        /\ pc'[t] # "S_procFull" /\ todo' = todo
    BY <1>2, <1>11 DEF SendCall, SendWaitProcFree, SendWaitFreeSlots, SendLockShm,
       SendPopSlot, SendHeader, SendPayload, SendLockProc, RecvCall, RecvWaitFull,
       RecvTake, RecvLockShm, RecvPushSlot, RecvAccept, RecvHeader, RecvPayload,
       RecvSignalFreeSlots, Goto
  <2>2. Ended(t)' = Ended(t) /\ ~SendEnqueue(t)
    <3>1. Len(todo'[t]) = k
      BY <2>1 DEF k
    <3>2. Ended(t) = n - k + 0 /\ Ended(t)' = n - k + 0
      BY <1>5, <1>6, <2>1, <3>1
    <3>3. ~SendEnqueue(t)
      BY <2>1 DEF SendEnqueue, Goto
    <3> QED  BY <3>2, <3>3
  <2> QED  BY <1>4, <1>7, <2>2
<1> QED  BY <1>8, <1>9, <1>10, <1>11 DEF Step, Send, Recv

\* The calls a rank has messages from grow by the one that is published.
LEMMA SentStep ==
  ASSUME TypeOK, RestOfProgram, NEW t \in Threads, Step(t),
         NEW u \in Threads, NEW r \in Ranks, r # RankOf[u]
  PROVE  /\ SendEnqueue(t) /\ u = t /\ r = Dest(t) =>
              /\ SentTo(u, r)' = SentTo(u, r) \cup {Ended(t) + 1}
              /\ \A i \in SentTo(u, r) : i \in Nat /\ i < Ended(t) + 1
              /\ Ended(t) + 1 \in Nat
         /\ ~(SendEnqueue(t) /\ u = t /\ r = Dest(t)) => SentTo(u, r)' = SentTo(u, r)
<1> DEFINE Accepted(i) == /\ Program[u][i].op = "send" /\ Program[u][i].dest = r
                          /\ Program[u][i].len <= MaxPayload
<1>1. SentTo(u, r) = { i \in 1 .. Ended(u) : Accepted(i) }
  BY DEF SentTo
<1>2. SentTo(u, r)' = { i \in 1 .. Ended(u)' : Accepted(i) }
  BY DEF SentTo
<1>3. ASSUME u = t, Ended(t)' = Ended(t) + 1, Program[t][Ended(t) + 1] = Call(t),
             Ended(t) \in Nat
      PROVE  SentTo(u, r)' = SentTo(u, r) \cup
               (IF Accepted(Ended(t) + 1) THEN {Ended(t) + 1} ELSE {})
  <2> HIDE DEF Accepted
  <2>1. 1 .. Ended(t) + 1 = (1 .. Ended(t)) \cup {Ended(t) + 1}
    BY <1>3
  <2> QED  BY <1>1, <1>2, <1>3, <2>1
<1>4. CASE SendEnqueue(t) /\ u = t
  <2>1. /\ Ended(t) \in Nat /\ Ended(t)' = Ended(t) + 1
        /\ Program[t][Ended(t) + 1] = Call(t)
    BY <1>4, EndedStep
  <2>2. Call(t).op = "send" /\ Call(t).len <= MaxPayload
    BY <1>4 DEF SendEnqueue, Goto, TypeOK, SendPCs, Sendable
  <2>3. Accepted(Ended(t) + 1) <=> r = Dest(t)
    BY <1>4, <2>1, <2>2 DEF Dest
  <2>4. \A i \in SentTo(u, r) : i \in Nat /\ i < Ended(t) + 1
    BY <1>1, <1>4, <2>1
  <2> HIDE DEF Accepted
  <2>5. CASE r = Dest(t)
    BY <1>3, <1>4, <2>1, <2>3, <2>4, <2>5
  <2>6. CASE r # Dest(t)
    BY <1>3, <1>4, <2>1, <2>3, <2>6
  <2> QED  BY <2>5, <2>6
<1>5. CASE ~SendEnqueue(t) /\ u = t
  <2>1. CASE Ended(t)' = Ended(t)
    BY <1>1, <1>2, <1>5, <2>1
  <2>2. CASE /\ Ended(t)' = Ended(t) + 1
             /\ Program[t][Ended(t) + 1] = Call(t)
             /\ Call(t).op = "recv" \/ ~Sendable(t)
    <3>1. ~Accepted(Ended(t) + 1)
      BY <1>5, <2>2 DEF Sendable, Dest, Self
    <3>2. Ended(t) \in Nat
      BY EndedStep
    <3> HIDE DEF Accepted
    <3> QED  BY <1>3, <1>5, <2>2, <3>1, <3>2
  <2> QED  BY <1>5, <2>1, <2>2, EndedStep
<1>6. CASE u # t
  <2>1. Ended(u)' = Ended(u)
    BY <1>6, EndedStep
  <2> QED  BY <1>1, <1>2, <1>6, <2>1
<1> QED  BY <1>4, <1>5, <1>6

\* A message from another process does not disturb the correspondence.
LEMMA CorrespondOther ==
  ASSUME NEW t \in Threads, NEW S, NEW a \in Seq(Message), NEW m \in Message,
         m.src # RankOf[t], Correspond(t, S, a)
  PROVE  Correspond(t, S, Append(a, m))
<1> DEFINE b == Append(a, m)
           From == { j \in DOMAIN a : a[j].src = RankOf[t] }
<1>1. /\ b \in Seq(Message) /\ Len(b) = Len(a) + 1 /\ Len(a) \in Nat
      /\ DOMAIN a = 1 .. Len(a) /\ DOMAIN b = 1 .. Len(b)
      /\ \A i \in 1 .. Len(a) : b[i] = a[i]
      /\ b[Len(a) + 1] = m
  BY AppendFacts
<1> HIDE DEF b
<1>2. { j \in DOMAIN b : b[j].src = RankOf[t] } = From
  BY <1>1
<1>3. PICK place \in [S -> From] :
        /\ \A j \in From : \E i \in S : place[i] = j
        /\ \A i, k \in S : i < k => place[i] < place[k]
        /\ \A i \in S : a[place[i]] = MessageOf(t, i)
  BY DEF Correspond
<1>4. \A i \in S : b[place[i]] = MessageOf(t, i)
  BY <1>1, <1>3
<1>5. Correspond(t, S, b)
  BY <1>2, <1>3, <1>4 DEF Correspond
<1> QED  BY <1>5 DEF b

\* The message of a later call, arriving last, extends it.
LEMMA CorrespondGrows ==
  ASSUME NEW t \in Threads, NEW S, NEW a \in Seq(Message), NEW n \in Nat,
         \A i \in S : i \in Nat /\ i < n,
         MessageOf(t, n) \in Message, Correspond(t, S, a)
  PROVE  Correspond(t, S \cup {n}, Append(a, MessageOf(t, n)))
<1> DEFINE m == MessageOf(t, n)
           b == Append(a, m)
           l == Len(a) + 1
           From == { j \in DOMAIN a : a[j].src = RankOf[t] }
<1>1. /\ b \in Seq(Message) /\ Len(b) = l /\ Len(a) \in Nat
      /\ DOMAIN a = 1 .. Len(a) /\ DOMAIN b = 1 .. l
      /\ \A i \in 1 .. Len(a) : b[i] = a[i]
      /\ b[l] = m
  BY AppendFacts
<1>2. m.src = RankOf[t]
  BY DEF MessageOf
<1> HIDE DEF b, m
<1>3. { j \in DOMAIN b : b[j].src = RankOf[t] } = From \cup {l}
  BY <1>1, <1>2
<1>4. PICK place \in [S -> From] :
        /\ \A j \in From : \E i \in S : place[i] = j
        /\ \A i, k \in S : i < k => place[i] < place[k]
        /\ \A i \in S : a[place[i]] = MessageOf(t, i)
  BY DEF Correspond
<1> DEFINE wider == [i \in S \cup {n} |-> IF i = n THEN l ELSE place[i]]
<1>5. n \notin S /\ wider[n] = l /\ \A i \in S : wider[i] = place[i]
  BY <1>1
<1>6. \A i \in S : place[i] \in From /\ place[i] \in 1 .. Len(a)
  BY <1>1, <1>4
<1>7. wider \in [S \cup {n} -> From \cup {l}]
  BY <1>6
<1> HIDE DEF wider
<1>8. \A j \in From \cup {l} : \E i \in S \cup {n} : wider[i] = j
  <2> HIDE DEF From, l
  <2> QED  BY <1>4, <1>5
<1>9. ASSUME NEW i \in S \cup {n}, NEW k \in S \cup {n}, i < k
      PROVE  wider[i] < wider[k]
  <2>1. i \in S
    BY <1>9
  <2>2. CASE k = n
    BY <1>1, <1>5, <1>6, <2>1, <2>2
  <2>3. CASE k \in S
    BY <1>4, <1>5, <1>9, <2>1, <2>3
  <2> QED  BY <2>2, <2>3
<1>10. \A i \in S \cup {n} : b[wider[i]] = MessageOf(t, i)
  BY <1>1, <1>4, <1>5, <1>6 DEF m
<1>11. Correspond(t, S \cup {n}, b)
  BY <1>3, <1>7, <1>8, <1>9, <1>10 DEF Correspond
<1> QED  BY <1>11 DEF b, m

\* Deliveries stay exact.  The sender of a message has written all of it when
\* it publishes the slot (SlotContents).
LEMMA DeliveryStep ==
  ASSUME IInv, IInv', RestOfProgram, DeliveryExact, NEW t \in Threads, Step(t)
  PROVE  DeliveryExact'
<1>1. SUFFICES ASSUME NEW u \in Threads, NEW r \in Ranks, OnlySender(u), r # RankOf[u]
               PROVE  Correspond(u, SentTo(u, r)', Arrivals(r)')
  BY DEF DeliveryExact, OnlySender
<1>2. TypeOK /\ SlotContents
  BY DEF IInv
<1>3. Correspond(u, SentTo(u, r), Arrivals(r)) /\ Arrivals(r) \in Seq(Message)
  BY <1>1, ArrivalsStep DEF DeliveryExact
<1>4. CASE ~(SendEnqueue(t) /\ r = Dest(t))
  BY <1>1, <1>2, <1>3, <1>4, ArrivalsStep, SentStep
<1>5. CASE SendEnqueue(t) /\ r = Dest(t)
  <2> DEFINE m == messages[slot[t]]
  <2>1. /\ m \in Message /\ m.src = RankOf[t] /\ m.len = Call(t).len
        /\ m.data = Call(t).data
    BY <1>2, <1>5 DEF SendEnqueue, Goto, SlotContents, TypeOK, Self
  <2>2. Arrivals(r)' = Append(Arrivals(r), m)
    BY <1>5, ArrivalsStep
  <2> HIDE DEF m
  <2>3. CASE u # t
    <3>1. m.src # RankOf[u]
      BY <1>1, <2>1, <2>3 DEF OnlySender
    <3>2. SentTo(u, r)' = SentTo(u, r)
      BY <1>1, <1>2, <2>3, SentStep
    <3> QED  BY <1>3, <2>1, <2>2, <3>1, <3>2, CorrespondOther
  <2>4. CASE u = t
    <3> DEFINE n == Ended(t) + 1
    <3>1. /\ SentTo(u, r)' = SentTo(u, r) \cup {n} /\ n \in Nat
          /\ \A i \in SentTo(u, r) : i \in Nat /\ i < n
      BY <1>1, <1>2, <1>5, <2>4, SentStep
    <3>2. Program[t][n] = Call(t)
      BY <1>2, <1>5, EndedStep
    <3> HIDE DEF n
    <3>3. m = MessageOf(u, n)
      BY <2>1, <2>4, <3>2 DEF MessageOf, Message
    <3>4. Correspond(u, SentTo(u, r) \cup {n}, Append(Arrivals(r), MessageOf(u, n)))
      BY <1>3, <2>1, <3>1, <3>3, CorrespondGrows
    <3> QED  BY <2>2, <3>1, <3>3, <3>4
  <2> QED  BY <2>3, <2>4
<1> QED  BY <1>4, <1>5

\* At the start no call has ended and nothing has arrived.
LEMMA DeliveryInit == Init => RestOfProgram /\ DeliveryExact
<1> SUFFICES ASSUME Init PROVE RestOfProgram /\ DeliveryExact
  OBVIOUS
<1>1. TypeOK
  BY InitType
<1>2. RestOfProgram
  BY ConstantsAssumption DEF Init, RestOfProgram
<1>3. ASSUME NEW t \in Threads, NEW r \in Ranks
      PROVE  Correspond(t, SentTo(t, r), Arrivals(r))
  <2>1. SentTo(t, r) = {}
    <3>1. Ended(t) = 0
      BY <1>1, <1>2, RestFacts DEF Init, Ended
    <3> QED  BY <3>1 DEF SentTo
  <2>2. Arrivals(r) = <<>>
    <3>1. taken[r] = <<>> /\ queue[r] = <<>>
      BY DEF Init
    <3>2. Box(r) \in Seq(Message) /\ Len(Box(r)) = 0
      BY <1>1, <3>1, BoxFacts
    <3>3. Box(r) = <<>>
      BY <3>2
    <3> QED  BY <3>1, <3>3 DEF Arrivals
  <2> DEFINE place == [i \in {} |-> 0]
  <2>3. { j \in DOMAIN Arrivals(r) : Arrivals(r)[j].src = RankOf[t] } = {}
    BY <2>2
  <2>4. place \in [{} -> {}]
    OBVIOUS
  <2> QED  BY <2>1, <2>3, <2>4 DEF Correspond
<1> QED  BY <1>2, <1>3 DEF DeliveryExact

\* From every sender each process gets exactly what was sent to it, each message
\* once, whole and in the order of the calls.
THEOREM DeliverySafe == Spec => []DeliveryExact
<1>1. Init => RestOfProgram /\ DeliveryExact
  BY DeliveryInit
<1>2. IInv /\ IInv' /\ RestOfProgram /\ DeliveryExact /\ [Next]_vars
        => RestOfProgram' /\ DeliveryExact'
  <2> SUFFICES ASSUME IInv, IInv', RestOfProgram, DeliveryExact, [Next]_vars
               PROVE  RestOfProgram' /\ DeliveryExact'
    OBVIOUS
  <2>1. CASE \E t \in Threads : Step(t)
    BY <2>1, RestStep, DeliveryStep DEF IInv
  <2>2. CASE UNCHANGED vars
    <3>1. RestOfProgram'
      BY <2>2 DEF RestOfProgram, vars, threadVars
    <3>2. \A t \in Threads, r \in Ranks :
            SentTo(t, r)' = SentTo(t, r) /\ Arrivals(r)' = Arrivals(r)
      BY <2>2 DEF SentTo, Ended, Arrivals, Box, vars, shmVars, threadVars, history
    <3> QED  BY <3>1, <3>2 DEF DeliveryExact, OnlySender
  <2> QED  BY <2>1, <2>2 DEF Next, Terminating
<1> QED  BY InductiveInvariant, <1>1, <1>2, PTL DEF Spec

=============================================================================
