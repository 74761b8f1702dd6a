------------------------- MODULE OsmpBarrier_proofs -------------------------
(***************************************************************************)
(* OSMP_Barrier releases nobody before all have arrived, and OSMP_Bcast    *)
(* hands every process the root's message, for every number of processes   *)
(* and every sequence of collective calls.                                 *)
(***************************************************************************)
EXTENDS OsmpBarrier, FiniteSetTheorems, TLAPS

USE ConstantsAssumption

-----------------------------------------------------------------------------
\* Ranks is finite, and has Size elements.
LEMMA RanksFinite == IsFiniteSet(Ranks) /\ Cardinality(Ranks) = Size
  BY FS_Interval DEF Ranks

\* If Size - 1 processes wait and p does not, all others wait.
LEMMA AllOthersWait ==
  ASSUME NEW W \in SUBSET Ranks, NEW p \in Ranks, p \notin W,
         1 + Cardinality(W) >= Size
  PROVE  W = Ranks \ {p}
<1>1. IsFiniteSet(W) /\ Cardinality(W) \in Nat
  BY RanksFinite, FS_Subset, FS_CardinalityType
<1>2. IsFiniteSet(Ranks \ {p}) /\ Cardinality(Ranks \ {p}) = Size - 1
  BY RanksFinite, FS_RemoveElement
<1>3. W \in SUBSET (Ranks \ {p})
  OBVIOUS
<1>4. Cardinality(W) <= Cardinality(Ranks \ {p})
  BY <1>2, <1>3, FS_Subset
<1>5. Cardinality(W) = Cardinality(Ranks \ {p})
  BY <1>1, <1>2, <1>4
<1> QED  BY <1>2, <1>3, <1>5, FS_Subset

\* The call a process is in is one of the program's.
LEMMA CallInProgram ==
  ASSUME TypeOK, NEW p \in Ranks, ~Finished(p)
  PROVE  /\ call[p] \in DOMAIN Program
         /\ call[p] + 1 \in 1 .. Len(Program) + 1
         /\ Call(p) \in Calls
  BY DEF TypeOK, Finished, Call

\* Inside OSMP_Bcast the call has a root and a message.
LEMMA BcastData ==
  ASSUME TypeOK, NEW p \in Ranks, pc[p] \notin {"idle", "barrier"}
  PROVE  Call(p).data \in Data /\ Call(p).root \in Ranks
<1>1. ~Finished(p) /\ Call(p).op = "bcast"
  BY DEF TypeOK
<1>2. Call(p) \in Calls
  BY <1>1, CallInProgram
<1> QED  BY <1>1, <1>2 DEF Calls

\* Writing the header or the payload alone leaves a well-typed slot.
LEMMA SlotUpdate ==
  ASSUME NEW s \in Slot, NEW t \in Slot
  PROVE  [s EXCEPT !.head = t.head] \in Slot /\ [s EXCEPT !.body = t.body] \in Slot
  BY DEF Slot

\* Writing one buffer of one process leaves well-typed buffers.
LEMMA BufUpdate ==
  ASSUME NEW b \in [Ranks -> [DOMAIN Program -> Slot]],
         NEW p \in Ranks, NEW c \in DOMAIN Program, NEW v \in Slot
  PROVE  [b EXCEPT ![p][c] = v] \in [Ranks -> [DOMAIN Program -> Slot]]
  OBVIOUS

\* The invariant holds when initMemory is done.
LEMMA InitInv == Init => IInv
<1> SUFFICES ASSUME Init PROVE IInv
  OBVIOUS
<1> USE DEF Init
<1>1. Cardinality(waiting) = 0
  BY FS_EmptySet
<1>2. TypeOK
  <2>1. buf \in [Ranks -> [DOMAIN Program -> Slot]]
    BY DEF Slot
  <2>2. bcast_slot \in Slot
    BY DEF Slot
  <2>3. Len(Program) \in Nat
    OBVIOUS
  <2> QED  BY <2>1, <2>2, <2>3 DEF TypeOK, PCs, AtBarrier
<1>3. SlotLocked
  BY DEF SlotLocked, Writing
<1>4. BarrierHolds
  BY DEF BarrierHolds
<1>5. NoEarlyWake
  BY <1>1 DEF NoEarlyWake
<1> QED  BY <1>2, <1>3, <1>4, <1>5 DEF IInv

-----------------------------------------------------------------------------
\* Everything but the histories and the wait sets after a barrier returns.
LEMMA ContinueType ==
  ASSUME TypeOK, NEW p \in Ranks, Continue(p), pc[p] \in AtBarrier
  PROVE  /\ pc' \in [Ranks -> PCs]
         /\ call' \in [Ranks -> 1 .. Len(Program) + 1]
         /\ \A q \in Ranks \ {p} : pc'[q] = pc[q] /\ call'[q] = call[q]
         /\ pc'[p] \in {"idle", "B_len", "B_second"}
         /\ pc'[p] # "idle" => pc[p] = "B_first" /\ call'[p] = call[p]
         /\ pc'[p] = "B_len" => ~IsRoot(p)
  BY CallInProgram DEF Continue, TypeOK, PCs, AtBarrier, Finished

\* When a barrier returns, every process is at a place its call has.
LEMMA ContinuePlace ==
  ASSUME TypeOK, NEW p \in Ranks, Continue(p), pc[p] \in AtBarrier
  PROVE  \A q \in Ranks :
           /\ pc'[q] # "idle" => ~Finished(q)'
           /\ pc'[q] \notin {"idle", "barrier"} => Call(q)'.op = "bcast"
           /\ pc'[q] = "barrier" => Call(q)'.op = "barrier"
           /\ pc'[q] \in {"B_lock", "B_header", "B_payload"} => IsRoot(q)'
           /\ pc'[q] \in {"B_len", "B_copy"} => ~IsRoot(q)'
<1> TAKE q \in Ranks
<1>1. CASE q = p
  BY <1>1, ContinueType DEF TypeOK, Finished, Call, IsRoot, AtBarrier
<1>2. CASE q # p
  BY <1>2, ContinueType DEF TypeOK, Finished, Call, IsRoot
<1> QED  BY <1>1, <1>2

\* Every step preserves the types and keeps the two histories in step.
LEMMA TypeStep == IInv /\ [Next]_vars => TypeOK'
<1> SUFFICES ASSUME IInv, [Next]_vars PROVE TypeOK'
  OBVIOUS
<1> USE DEF IInv
<1>1. CASE UNCHANGED vars
  BY <1>1 DEF vars, TypeOK, Finished, Call, IsRoot
<1>2. CASE Next
  <2> PICK p \in Ranks : Step(p)
    BY <1>2 DEF Next
  <2>1. CASE ArriveWait(p)
    BY <2>1 DEF ArriveWait, TypeOK, Finished, Call, IsRoot, AtBarrier, PCs
  <2>2. CASE ArriveLast(p)
    <3>1. Continue(p) /\ pc[p] \in AtBarrier
      BY <2>2 DEF ArriveLast
    <3>2. waiting = Ranks \ {p}
      BY <2>2, AllOthersWait DEF ArriveLast, TypeOK, NoEarlyWake
    <3>3. \A q \in Ranks \ {p} :
            /\ pc'[q] = pc[q] /\ pc[q] \in AtBarrier /\ call'[q] = call[q]
            /\ entered'[q] = passed'[q] + 1
      BY <2>2, <3>1, <3>2, ContinueType DEF ArriveLast, TypeOK
    <3>4. entered'[p] = passed'[p] /\ p \notin woken' \cup waiting'
      BY <2>2, <3>2 DEF ArriveLast, TypeOK, NoEarlyWake
    <3>5. /\ cond' \in 1 .. Size
          /\ waiting' \subseteq Ranks /\ woken' \subseteq Ranks
          /\ entered' \in [Ranks -> Nat] /\ passed' \in [Ranks -> Nat]
          /\ UNCHANGED <<shm_mutex, bcast_slot, buf>>
      BY <2>2 DEF ArriveLast, TypeOK
    <3>6. \A q \in Ranks \ {p} : q \in waiting' \cup woken'
      BY <2>2, <3>2 DEF ArriveLast
    <3>7. \A q \in Ranks :
            /\ q \in waiting' \cup woken' =>
                 pc'[q] \in AtBarrier /\ entered'[q] = passed'[q] + 1
            /\ q \notin waiting' \cup woken' => entered'[q] = passed'[q]
      BY <3>3, <3>4, <3>6
    <3> QED
      BY <3>1, <3>5, <3>7, ContinueType, ContinuePlace DEF TypeOK
  <2>3. CASE Leave(p)
    <3>1. Continue(p) /\ pc[p] \in AtBarrier
      BY <2>3 DEF Leave, TypeOK
    <3>2. /\ cond' \in 1 .. Size
          /\ waiting' \subseteq Ranks /\ woken' \subseteq Ranks
          /\ entered' \in [Ranks -> Nat] /\ passed' \in [Ranks -> Nat]
          /\ UNCHANGED <<shm_mutex, bcast_slot, buf>>
      BY <2>3 DEF Leave, TypeOK
    <3>3. entered'[p] = passed'[p] /\ p \notin woken' \cup waiting'
      BY <2>3 DEF Leave, TypeOK, NoEarlyWake
    <3>4. \A q \in Ranks \ {p} :
            /\ entered'[q] = entered[q] /\ passed'[q] = passed[q]
            /\ q \in waiting' \cup woken' <=> q \in waiting \cup woken
      BY <2>3 DEF Leave, TypeOK
    <3>5. \A q \in Ranks :
            /\ q \in waiting' \cup woken' =>
                 pc'[q] \in AtBarrier /\ entered'[q] = passed'[q] + 1
            /\ q \notin waiting' \cup woken' => entered'[q] = passed'[q]
      <4>1. \A q \in Ranks \ {p} : pc'[q] = pc[q]
        BY <3>1, ContinueType DEF TypeOK
      <4>2. \A q \in Ranks :
              /\ q \in waiting \cup woken =>
                   pc[q] \in AtBarrier /\ entered[q] = passed[q] + 1
              /\ q \notin waiting \cup woken => entered[q] = passed[q]
        BY DEF TypeOK
      <4> QED  BY <3>3, <3>4, <4>1, <4>2
    <3> QED
      BY <3>1, <3>2, <3>5, ContinueType, ContinuePlace DEF TypeOK
  <2>4. CASE BarrierCall(p)
    BY <2>4 DEF BarrierCall, barrierVars, Goto, TypeOK, Finished, Call,
                IsRoot, AtBarrier, PCs
  <2>5. CASE BcastCall(p)
    BY <2>5 DEF BcastCall, barrierVars, Goto, TypeOK, Finished, Call, IsRoot,
                AtBarrier, PCs
  <2>6. CASE BcastLock(p)
    BY <2>6 DEF BcastLock, barrierVars, Goto, TypeOK, Finished, Call, IsRoot,
                AtBarrier, PCs
  <2>7. CASE BcastHeader(p)
    <3>1. bcast_slot' \in Slot
      <4>1. Call(p).data \in Data
        BY <2>7, BcastData DEF BcastHeader, Goto
      <4>2. bcast_slot \in Slot
        BY DEF TypeOK
      <4> QED  BY <2>7, <4>1, <4>2 DEF BcastHeader, Slot
    <3> QED
      BY <2>7, <3>1 DEF BcastHeader, barrierVars, Goto, TypeOK, Finished,
                        Call, IsRoot, AtBarrier, PCs
  <2>8. CASE BcastPayload(p)
    <3>1. bcast_slot' \in Slot
      <4>1. Call(p).data \in Data
        BY <2>8, BcastData DEF BcastPayload, Goto
      <4>2. bcast_slot \in Slot
        BY DEF TypeOK
      <4> QED  BY <2>8, <4>1, <4>2 DEF BcastPayload, Slot
    <3>2. shm_mutex' \in {0, 1}
      BY <2>8 DEF BcastPayload, Goto, SlotLocked, Writing
    <3> QED
      BY <2>8, <3>1, <3>2 DEF BcastPayload, barrierVars, Goto, TypeOK,
                              Finished, Call, IsRoot, AtBarrier, PCs
  <2>9. CASE BcastReadLen(p)
    <3>1. buf' \in [Ranks -> [DOMAIN Program -> Slot]]
      <4>1. call[p] \in DOMAIN Program
        BY <2>9, CallInProgram DEF BcastReadLen, Goto, TypeOK
      <4>2. buf \in [Ranks -> [DOMAIN Program -> Slot]] /\ bcast_slot \in Slot
        BY DEF TypeOK
      <4>3. [buf[p][call[p]] EXCEPT !.head = bcast_slot.head] \in Slot
        BY <4>1, <4>2, SlotUpdate
      <4>4. buf' = [buf EXCEPT ![p][call[p]] =
                       [buf[p][call[p]] EXCEPT !.head = bcast_slot.head]]
        BY <2>9 DEF BcastReadLen
      <4> QED  BY <4>1, <4>2, <4>3, <4>4, BufUpdate
    <3> QED
      BY <2>9, <3>1 DEF BcastReadLen, barrierVars, Goto, TypeOK, Finished,
                        Call, IsRoot, AtBarrier, PCs
  <2>10. CASE BcastCopy(p)
    <3>1. buf' \in [Ranks -> [DOMAIN Program -> Slot]]
      <4>1. call[p] \in DOMAIN Program
        BY <2>10, CallInProgram DEF BcastCopy, Goto, TypeOK
      <4>2. buf \in [Ranks -> [DOMAIN Program -> Slot]] /\ bcast_slot \in Slot
        BY DEF TypeOK
      <4>3. [buf[p][call[p]] EXCEPT !.body = bcast_slot.body] \in Slot
        BY <4>1, <4>2, SlotUpdate
      <4>4. buf' = [buf EXCEPT ![p][call[p]] =
                       [buf[p][call[p]] EXCEPT !.body = bcast_slot.body]]
        BY <2>10 DEF BcastCopy
      <4> QED  BY <4>1, <4>2, <4>3, <4>4, BufUpdate
    <3> QED
      BY <2>10, <3>1 DEF BcastCopy, barrierVars, Goto, TypeOK, Finished,
                         Call, IsRoot, AtBarrier, PCs
  <2> QED
    BY <2>1, <2>2, <2>3, <2>4, <2>5, <2>6, <2>7, <2>8, <2>9, <2>10
       DEF Step, Barrier
<1> QED  BY <1>1, <1>2

\* Only the holder of shm_mutex writes the broadcast slot, after any step.
LEMMA SlotLockedStep == IInv /\ [Next]_vars => SlotLocked'
<1> SUFFICES ASSUME IInv, [Next]_vars PROVE SlotLocked'
  OBVIOUS
<1> USE DEF IInv, SlotLocked, Writing
<1>1. CASE UNCHANGED vars
  BY <1>1 DEF vars
<1>2. CASE Next
  <2> PICK p \in Ranks : Step(p)
    BY <1>2 DEF Next
  <2>1. CASE ArriveWait(p)
    BY <2>1 DEF ArriveWait
  <2>2. CASE ArriveLast(p)
    BY <2>2, ContinueType DEF ArriveLast
  <2>3. CASE Leave(p)
    <3>1. Continue(p) /\ pc[p] \in AtBarrier
      BY <2>3 DEF Leave, TypeOK
    <3> QED  BY <2>3, <3>1, ContinueType DEF Leave
  <2>4. CASE BarrierCall(p) \/ BcastCall(p)
    BY <2>4 DEF BarrierCall, BcastCall, Goto, TypeOK
  <2>5. CASE BcastLock(p)
    BY <2>5 DEF BcastLock, Goto, TypeOK
  <2>6. CASE BcastHeader(p) \/ BcastPayload(p)
    BY <2>6 DEF BcastHeader, BcastPayload, Goto, TypeOK
  <2>7. CASE BcastReadLen(p) \/ BcastCopy(p)
    BY <2>7 DEF BcastReadLen, BcastCopy, Goto, TypeOK
  <2> QED  BY <2>1, <2>2, <2>3, <2>4, <2>5, <2>6, <2>7 DEF Step, Barrier
<1> QED  BY <1>1, <1>2

\* Only the three steps of the barrier touch its variables.
LEMMA BarrierVarsStep ==
  ASSUME NEW p \in Ranks, Step(p)
  PROVE  Barrier(p) \/ UNCHANGED barrierVars
  BY DEF Step, BarrierCall, BcastCall, BcastLock, BcastHeader, BcastPayload,
         BcastReadLen, BcastCopy

\* No step wakes a process before all have arrived.
LEMMA BarrierStep == IInv /\ [Next]_vars => BarrierHolds' /\ NoEarlyWake'
<1> SUFFICES ASSUME IInv, [Next]_vars PROVE BarrierHolds' /\ NoEarlyWake'
  OBVIOUS
<1> USE DEF IInv
<1>1. CASE UNCHANGED barrierVars
  BY <1>1 DEF barrierVars, BarrierHolds, NoEarlyWake
<1>2. ASSUME NEW p \in Ranks, ArriveWait(p)
      PROVE  BarrierHolds' /\ NoEarlyWake'
  <2>1. BarrierHolds'
    BY <1>2 DEF ArriveWait, BarrierHolds, TypeOK
  <2>2. cond' + Cardinality(waiting') >= Size
    <3>1. IsFiniteSet(waiting) /\ Cardinality(waiting) \in Nat
      BY RanksFinite, FS_Subset, FS_CardinalityType DEF TypeOK
    <3>2. Cardinality(waiting') = Cardinality(waiting) + 1
      BY <1>2, <3>1, FS_AddElement DEF ArriveWait
    <3> QED  BY <1>2, <3>1, <3>2 DEF ArriveWait, NoEarlyWake, TypeOK
  <2>3. waiting' \cap woken' = {}
    BY <1>2 DEF ArriveWait, NoEarlyWake
  <2>4. \A w \in waiting', q \in Ranks : passed'[q] < entered'[w]
    BY <1>2 DEF ArriveWait, BarrierHolds, NoEarlyWake, TypeOK
  <2>5. \A w \in woken', q \in Ranks : entered'[w] <= entered'[q]
    BY <1>2 DEF ArriveWait, NoEarlyWake, TypeOK
  <2>6. \A w \in woken', q \in waiting' : entered'[w] < entered'[q]
    BY <1>2 DEF ArriveWait, NoEarlyWake, TypeOK
  <2> QED  BY <2>1, <2>2, <2>3, <2>4, <2>5, <2>6 DEF NoEarlyWake
<1>3. ASSUME NEW p \in Ranks, ArriveLast(p)
      PROVE  BarrierHolds' /\ NoEarlyWake'
  <2>1. waiting = Ranks \ {p}
    BY <1>3, AllOthersWait DEF ArriveLast, TypeOK, NoEarlyWake
  <2>2. \A q \in Ranks : entered'[q] = entered'[p]
    BY <1>3, <2>1 DEF ArriveLast, TypeOK, BarrierHolds, NoEarlyWake
  <2>3. woken' = Ranks \ {p} /\ waiting' = {} /\ cond' = Size
    BY <1>3, <2>1 DEF ArriveLast, NoEarlyWake, TypeOK
  <2>4. BarrierHolds'
    BY <1>3, <2>1, <2>2 DEF ArriveLast, BarrierHolds, TypeOK
  <2>5. NoEarlyWake'
    <3>1. Cardinality(waiting') = 0
      BY <2>3, FS_EmptySet
    <3>2. \A q \in Ranks : entered'[q] \in Nat
      BY TypeStep DEF TypeOK
    <3> QED  BY <2>2, <2>3, <3>1, <3>2 DEF NoEarlyWake
  <2> QED  BY <2>4, <2>5
<1>4. ASSUME NEW p \in Ranks, Leave(p)
      PROVE  BarrierHolds' /\ NoEarlyWake'
  <2>1. passed'[p] = entered[p] /\ \A q \in Ranks \ {p} : passed'[q] = passed[q]
    BY <1>4 DEF Leave, TypeOK
  <2>2. BarrierHolds'
    BY <1>4, <2>1 DEF Leave, BarrierHolds, NoEarlyWake
  <2>3. cond' + Cardinality(waiting') >= Size
    <3>1. Cardinality(waiting) \in Nat
      BY RanksFinite, FS_Subset, FS_CardinalityType DEF TypeOK
    <3> QED  BY <1>4, <3>1 DEF Leave
  <2>4. \A w \in waiting', q \in Ranks : passed'[q] < entered'[w]
    BY <1>4, <2>1 DEF Leave, NoEarlyWake
  <2>5. \A w \in woken' : w \in woken
    BY <1>4 DEF Leave
  <2> QED  BY <1>4, <2>2, <2>3, <2>4, <2>5 DEF Leave, NoEarlyWake
<1> QED
  <2>1. CASE UNCHANGED vars
    BY <1>1, <2>1 DEF vars, barrierVars
  <2>2. CASE Next
    BY <1>1, <1>2, <1>3, <1>4, <2>2, BarrierVarsStep DEF Next, Barrier
  <2> QED  BY <2>1, <2>2

\* IInv is an inductive invariant: type correctness, the lock on the slot, and
\* the barrier itself.
THEOREM InductiveInvariant == Spec => []IInv
<1>1. IInv /\ [Next]_vars => IInv'
  BY TypeStep, SlotLockedStep, BarrierStep DEF IInv
<1> QED  BY InitInv, <1>1, PTL DEF Spec

\* The types of the barrier, the broadcast slot and the processes.
THEOREM TypeCorrect == Spec => []TypeOK
<1>1. IInv => TypeOK
  BY DEF IInv
<1> QED  BY InductiveInvariant, <1>1, PTL

\* Nobody comes out of OSMP_Barrier before all have arrived at it, even though
\* late leavers reset the count under the feet of the early arrivals.
THEOREM BarrierSafe == Spec => []BarrierHolds
<1>1. IInv => BarrierHolds
  BY DEF IInv
<1> QED  BY InductiveInvariant, <1>1, PTL

-----------------------------------------------------------------------------
(***************************************************************************)
(* OSMP_Bcast.  The argument: processes that have left equally many        *)
(* barriers are in the same part of the same call (SamePlace), so while    *)
(* somebody reads the slot nobody is beyond the second barrier, where the  *)
(* next root could start to write (SlotHolds).                             *)
(***************************************************************************)
\* How many barriers a process has entered and left: one apart at most.
LEMMA Histories ==
  ASSUME IInv, NEW p \in Ranks
  PROVE  /\ passed[p] \in Nat /\ entered[p] \in Nat
         /\ passed[p] <= entered[p] /\ entered[p] <= passed[p] + 1
         /\ entered[p] # passed[p] => pc[p] \in AtBarrier
         /\ \A q \in Ranks : passed[q] <= entered[p]
<1>1. passed[p] \in Nat /\ entered[p] \in Nat
  BY DEF IInv, TypeOK
<1>2. \/ pc[p] \in AtBarrier /\ entered[p] = passed[p] + 1
      \/ entered[p] = passed[p]
  BY DEF IInv, TypeOK
<1>3. \A q \in Ranks : passed[q] <= entered[p]
  BY DEF IInv, BarrierHolds
<1> QED  BY <1>1, <1>2, <1>3

\* Leaving a barrier takes a process to the next part of the program.
LEMMA PassMoves ==
  ASSUME IInv, NEW p \in Ranks, Continue(p), pc[p] \in AtBarrier
  PROVE  /\ IF Call(p).op = "bcast" /\ ~After(p)
            THEN call'[p] = call[p] /\ After(p)'
            ELSE call'[p] = call[p] + 1 /\ ~After(p)'
         /\ \A q \in Ranks \ {p} : call'[q] = call[q] /\ (After(q)' <=> After(q))
<1>1. TypeOK
  BY DEF IInv
<1>2. CASE pc[p] = "B_first"
  <2>1. Call(p).op = "bcast" /\ ~After(p)
    BY <1>1, <1>2 DEF TypeOK, After
  <2>2. call'[p] = call[p] /\ pc'[p] \in {"B_second", "B_len"}
    BY <1>1, <1>2 DEF Continue, TypeOK
  <2> QED  BY <1>1, <2>1, <2>2, ContinueType DEF After
<1>3. CASE pc[p] # "B_first"
  BY <1>1, <1>3, ContinueType DEF After, Continue, TypeOK, AtBarrier
<1> QED  BY <1>2, <1>3

\* A barrier step that lets p out, whichever of the two it is.
Pass(p) ==
  /\ pc[p] \in AtBarrier /\ Continue(p)
  /\ passed' = [passed EXCEPT ![p] = @ + 1]
  /\ \A q \in Ranks \ {p} : passed[p] < entered[q]
  /\ UNCHANGED <<shm_mutex, bcast_slot, buf>>

\* A barrier step lets one process out, when all have entered, or nobody.
LEMMA BarrierPasses ==
  ASSUME IInv, NEW p \in Ranks, Barrier(p)
  PROVE  \/ Pass(p)
         \/ UNCHANGED <<passed, shm_mutex, bcast_slot, pc, call, buf>>
<1> USE DEF IInv
<1>1. CASE ArriveWait(p)
  BY <1>1 DEF ArriveWait
<1>2. CASE ArriveLast(p)
  <2>1. waiting = Ranks \ {p}
    BY <1>2, AllOthersWait DEF ArriveLast, TypeOK, NoEarlyWake
  <2> QED  BY <1>2, <2>1 DEF ArriveLast, Pass, NoEarlyWake
<1>3. CASE Leave(p)
  <2>1. \A q \in Ranks : passed[p] < entered[q]
    BY <1>3 DEF Leave, TypeOK, NoEarlyWake
  <2>2. pc[p] \in AtBarrier
    BY <1>3 DEF Leave, TypeOK
  <2> QED  BY <1>3, <2>1, <2>2 DEF Leave, Pass
<1> QED  BY <1>1, <1>2, <1>3 DEF Barrier

\* The other steps of OSMP_Bcast.
Local(p) ==
  \/ BarrierCall(p) \/ BcastCall(p)
  \/ BcastLock(p) \/ BcastHeader(p) \/ BcastPayload(p)
  \/ BcastReadLen(p) \/ BcastCopy(p)

\* The other steps of OSMP_Bcast leave the barriers and the other processes alone.
LEMMA LocalStays ==
  ASSUME TypeOK, NEW p \in Ranks, Local(p)
  PROVE  /\ UNCHANGED <<passed, call>>
         /\ \A q \in Ranks : After(q)' <=> After(q)
         /\ \A q \in Ranks \ {p} : pc'[q] = pc[q]
  BY DEF Local, BarrierCall, BcastCall, BcastLock, BcastHeader, BcastPayload,
         BcastReadLen, BcastCopy, Goto, barrierVars, After, TypeOK

\* The processes stay in step with each other, one barrier apart at most.
LEMMA SamePlaceStep == IInv /\ SamePlace /\ [Next]_vars => SamePlace'
<1> SUFFICES ASSUME IInv, SamePlace, [Next]_vars PROVE SamePlace'
  OBVIOUS
<1>0. TypeOK /\ BarrierHolds
  BY DEF IInv
<1>1. CASE UNCHANGED vars
  BY <1>1 DEF vars, SamePlace, After, Call
<1>2. ASSUME NEW p \in Ranks, Local(p)
      PROVE  SamePlace'
  BY <1>0, <1>2, LocalStays DEF SamePlace, Call
<1>3. CASE UNCHANGED <<passed, pc, call>>
  BY <1>3 DEF SamePlace, Call, After
<1>4. ASSUME NEW p \in Ranks, Pass(p)
      PROVE  SamePlace'
  <2>1. /\ IF Call(p).op = "bcast" /\ ~After(p)
           THEN call'[p] = call[p] /\ After(p)'
           ELSE call'[p] = call[p] + 1 /\ ~After(p)'
        /\ \A q \in Ranks \ {p} : call'[q] = call[q] /\ (After(q)' <=> After(q))
    BY <1>4, PassMoves DEF Pass
  <2>2. /\ passed'[p] = passed[p] + 1
        /\ \A q \in Ranks \ {p} : passed'[q] = passed[q]
        /\ \A q \in Ranks : passed[q] \in Nat /\ passed[q] <= passed[p] + 1
    <3>1. \A q \in Ranks : passed[q] \in Nat /\ passed[q] <= passed[p] + 1
      BY Histories
    <3>2. passed \in [Ranks -> Nat]
      BY <1>0 DEF TypeOK
    <3> QED  BY <1>4, <3>1, <3>2 DEF Pass
  <2> SUFFICES ASSUME NEW u \in Ranks, NEW v \in Ranks
               PROVE  /\ passed'[u] = passed'[v] =>
                           call'[u] = call'[v] /\ (After(u)' <=> After(v)')
                      /\ passed'[u] = passed'[v] + 1 =>
                           IF Call(v)'.op = "bcast" /\ ~After(v)'
                           THEN call'[u] = call'[v] /\ After(u)'
                           ELSE call'[u] = call'[v] + 1 /\ ~After(u)'
    BY DEF SamePlace
  <2>3. CASE u # p /\ v # p
    BY <2>1, <2>2, <2>3 DEF SamePlace, Call
  <2>4. CASE u = p /\ v # p
    <3>1. passed[p] = passed[v] => call[p] = call[v] /\ (After(p) <=> After(v))
      BY DEF SamePlace
    <3>2. passed[v] = passed[p] + 1 =>
             IF Call(p).op = "bcast" /\ ~After(p)
             THEN call[v] = call[p] /\ After(v)
             ELSE call[v] = call[p] + 1 /\ ~After(v)
      BY DEF SamePlace
    <3> QED  BY <2>1, <2>2, <2>4, <3>1, <3>2 DEF Call
  <2>5. CASE u # p /\ v = p
    <3>1. passed[u] = passed[p] + 1 =>
             IF Call(p).op = "bcast" /\ ~After(p)
             THEN call[u] = call[p] /\ After(u)
             ELSE call[u] = call[p] + 1 /\ ~After(u)
      BY DEF SamePlace
    <3> QED  BY <2>1, <2>2, <2>5, <3>1
  <2>6. CASE u = p /\ v = p
    BY <2>2, <2>6
  <2> QED  BY <2>3, <2>4, <2>5, <2>6
<1> QED
  BY <1>0, <1>1, <1>2, <1>3, <1>4, BarrierPasses DEF Next, Step, Local

\* When a process leaves the first barrier of a broadcast, the root has written
\* the slot for this broadcast and nobody has started the next one.
LEMMA SlotReady ==
  ASSUME IInv, SamePlace, SlotHolds, NEW p \in Ranks, pc[p] = "B_first",
         \A q \in Ranks \ {p} : passed[p] < entered[q]
  PROVE  bcast_slot = Whole(call[p])
<1>1. \A q \in Ranks : /\ passed[q] \in Nat /\ entered[q] \in Nat
                       /\ entered[q] # passed[q] => pc[q] \in AtBarrier
  BY Histories
<1>2. \A q \in Ranks : passed[q] <= passed[p] + 1
  BY Histories
<1>3. Call(p).op = "bcast" /\ ~After(p)
  BY DEF IInv, TypeOK, After
<1>4. CASE \E q \in Ranks : passed[q] = passed[p] + 1
  <2> PICK q \in Ranks : passed[q] = passed[p] + 1
    BY <1>4
  <2>1. call[q] = call[p] /\ After(q)
    BY <1>3 DEF SamePlace
  <2>2. \A u \in Ranks : passed[u] <= passed[q]
    BY <1>2
  <2> QED  BY <2>1, <2>2 DEF SlotHolds
<1>5. CASE ~\E q \in Ranks : passed[q] = passed[p] + 1
  <2>1. \A q \in Ranks : passed[q] <= passed[p]
    BY <1>1, <1>2, <1>5
  <2>2. CASE IsRoot(p)
    BY <2>1, <2>2 DEF SlotHolds
  <2>3. CASE ~IsRoot(p)
    <3> DEFINE r == Call(p).root
    <3>1. r \in Ranks /\ r # p
      BY <2>3, BcastData DEF IInv, IsRoot
    <3>2. passed[p] < entered[r] /\ passed[r] <= passed[p]
      BY <2>1, <3>1
    <3>3. passed[r] = passed[p] /\ pc[r] \in AtBarrier
      BY <1>1, <3>1, <3>2, Histories
    <3>4. call[r] = call[p] /\ ~After(r)
      BY <1>3, <3>1, <3>3 DEF SamePlace
    <3>5. pc[r] = "B_first" /\ IsRoot(r)
      BY <1>3, <3>1, <3>3, <3>4 DEF IInv, TypeOK, AtBarrier, After, Call, IsRoot
    <3> QED  BY <2>1, <3>1, <3>3, <3>4, <3>5 DEF SlotHolds
  <2> QED  BY <2>2, <2>3
<1> QED  BY <1>4, <1>5

\* While the root writes, nobody reads the slot or relies on what it held.
LEMMA NobodyReads ==
  ASSUME IInv, SamePlace, NEW p \in Ranks, pc[p] \in Writing,
         NEW q \in Ranks, q # p,
         After(q) \/ (pc[q] = "B_first" /\ IsRoot(q)),
         passed[p] <= passed[q]
  PROVE  FALSE
<1>1. entered[p] = passed[p] /\ passed[q] <= entered[p]
  BY Histories DEF Writing, AtBarrier
<1>2. passed[p] = passed[q]
  BY <1>1, Histories
<1>3. call[q] = call[p] /\ ~After(q) /\ IsRoot(p)
  BY <1>2 DEF SamePlace, After, Writing, IInv, TypeOK
<1> QED  BY <1>3 DEF IsRoot, Call

\* A process that reads the slot finds the whole message of its broadcast.
LEMMA ReaderSeesWhole ==
  ASSUME IInv, SlotHolds, NEW p \in Ranks, pc[p] \in {"B_len", "B_copy"}
  PROVE  bcast_slot = Whole(call[p])
<1>1. \A q \in Ranks : passed[q] <= passed[p]
  BY Histories DEF AtBarrier
<1> QED  BY <1>1 DEF SlotHolds, After

\* Reading the length leaves it in the buffer of this call.
LEMMA ReadLenResult ==
  ASSUME TypeOK, NEW p \in Ranks, BcastReadLen(p), call[p] \in DOMAIN Program
  PROVE  buf'[p][call[p]].head = bcast_slot.head
<1>1. buf[p][call[p]] \in Slot /\ bcast_slot \in Slot
  BY DEF TypeOK
<1>2. buf'[p][call[p]] = [buf[p][call[p]] EXCEPT !.head = bcast_slot.head]
  BY DEF TypeOK, BcastReadLen
<1> QED  BY <1>1, <1>2 DEF Slot

\* Copying leaves the payload beside the length in the buffer of this call.
LEMMA CopyResult ==
  ASSUME TypeOK, NEW p \in Ranks, BcastCopy(p), call[p] \in DOMAIN Program
  PROVE  buf'[p][call[p]] = [head |-> buf[p][call[p]].head,
                             body |-> bcast_slot.body]
<1>1. buf[p][call[p]] \in Slot
  BY DEF TypeOK
<1>2. buf'[p][call[p]] = [buf[p][call[p]] EXCEPT !.body = bcast_slot.body]
  BY DEF TypeOK, BcastCopy
<1> QED  BY <1>1, <1>2 DEF Slot

\* The slot keeps the current broadcast for as long as anybody needs it.
LEMMA SlotHoldsStep ==
  IInv /\ SamePlace /\ SlotHolds /\ [Next]_vars => SlotHolds'
<1> SUFFICES ASSUME IInv, SamePlace, SlotHolds, [Next]_vars PROVE SlotHolds'
  OBVIOUS
<1>0. TypeOK
  BY DEF IInv
<1>1. CASE UNCHANGED <<passed, bcast_slot, pc, call, buf>>
  BY <1>1 DEF SlotHolds, After, Call, IsRoot, Whole
<1>2. ASSUME NEW p \in Ranks, Pass(p)
      PROVE  SlotHolds'
  <2>1. /\ \A q \in Ranks \ {p} :
             pc'[q] = pc[q] /\ call'[q] = call[q] /\ passed'[q] = passed[q]
        /\ pc'[p] \in {"idle", "B_len", "B_second"}
        /\ pc'[p] # "idle" => pc[p] = "B_first" /\ call'[p] = call[p]
        /\ passed'[p] = passed[p] + 1
        /\ UNCHANGED <<bcast_slot, buf>>
    BY <1>0, <1>2, ContinueType DEF Pass, TypeOK
  <2>2. \A q \in Ranks : passed[q] \in Nat
    BY <1>0 DEF TypeOK
  <2>3. pc'[p] # "idle" => bcast_slot = Whole(call[p])
    BY <1>2, <2>1, SlotReady DEF Pass
  <2>4. ASSUME NEW u \in Ranks \ {p}
        PROVE  /\ pc'[u] = "B_payload" => bcast_slot'.head = Call(u)'.data
               /\ /\ After(u)' \/ (pc'[u] = "B_first" /\ IsRoot(u)')
                  /\ \A q \in Ranks : passed'[q] <= passed'[u]
                  => bcast_slot' = Whole(call[u])'
               /\ pc'[u] = "B_copy" => buf'[u][call'[u]].head = Call(u)'.data
    BY <2>1, <2>2, <2>4 DEF SlotHolds, After, Call, IsRoot, Whole
  <2> QED  BY <2>1, <2>3, <2>4 DEF SlotHolds, After, Whole
<1>3. ASSUME NEW p \in Ranks,
             BarrierCall(p) \/ BcastCall(p) \/ BcastLock(p)
      PROVE  SlotHolds'
  <2>1. /\ UNCHANGED <<passed, call, bcast_slot, buf>>
        /\ \A u \in Ranks : After(u)' <=> After(u)
        /\ \A u \in Ranks \ {p} : pc'[u] = pc[u]
    BY <1>0, <1>3, LocalStays
       DEF Local, BarrierCall, BcastCall, BcastLock, barrierVars
  <2>2. /\ pc'[p] \in {"barrier", "B_lock", "B_first", "B_header"}
        /\ pc'[p] = "B_first" => ~IsRoot(p)
    BY <1>0, <1>3 DEF BarrierCall, BcastCall, BcastLock, Goto, TypeOK
  <2> QED  BY <2>1, <2>2 DEF SlotHolds, Whole, Call, IsRoot
<1>4. ASSUME NEW p \in Ranks, BcastHeader(p) \/ BcastPayload(p)
      PROVE  SlotHolds'
  <2>1. /\ UNCHANGED <<passed, call, buf>>
        /\ \A u \in Ranks : After(u)' <=> After(u)
        /\ \A u \in Ranks \ {p} : pc'[u] = pc[u]
        /\ pc[p] \in Writing /\ ~After(p)
        /\ pc'[p] \in {"B_payload", "B_first"}
    BY <1>0, <1>4, LocalStays
       DEF Local, BcastHeader, BcastPayload, barrierVars, Goto, Writing,
           After, TypeOK
  <2>2. bcast_slot \in Slot
    BY <1>0 DEF TypeOK
  <2>3. pc'[p] = "B_payload" => bcast_slot'.head = Call(p).data
    BY <1>0, <1>4, <2>2 DEF BcastHeader, BcastPayload, Goto, TypeOK, Slot
  <2>4. pc'[p] = "B_first" => bcast_slot' = Whole(call[p])
    <3> HAVE pc'[p] = "B_first"
    <3>1. BcastPayload(p) /\ bcast_slot.head = Call(p).data
      BY <1>0, <1>4 DEF BcastHeader, BcastPayload, Goto, TypeOK, SlotHolds
    <3> QED  BY <2>2, <3>1 DEF BcastPayload, Whole, Slot, Call
  <2>5. \A u \in Ranks \ {p} : pc[u] \notin Writing
    BY <2>1 DEF IInv, SlotLocked
  <2>6. \A u \in Ranks \ {p} :
          ~ /\ After(u) \/ (pc[u] = "B_first" /\ IsRoot(u))
            /\ passed[p] <= passed[u]
    BY <2>1, NobodyReads
  <2>7. ASSUME NEW u \in Ranks
        PROVE  /\ pc'[u] = "B_payload" => bcast_slot'.head = Call(u)'.data
               /\ /\ After(u)' \/ (pc'[u] = "B_first" /\ IsRoot(u)')
                  /\ \A q \in Ranks : passed'[q] <= passed'[u]
                  => bcast_slot' = Whole(call[u])'
               /\ pc'[u] = "B_copy" => buf'[u][call'[u]].head = Call(u)'.data
    <3>1. CASE u = p
      BY <2>1, <2>3, <2>4, <3>1 DEF Whole, Call
    <3>2. CASE u # p
      BY <2>1, <2>5, <2>6, <3>2 DEF Whole, Call, IsRoot, Writing, SlotHolds
    <3> QED  BY <3>1, <3>2
  <2> QED  BY <2>7 DEF SlotHolds
<1>5. ASSUME NEW p \in Ranks, BcastReadLen(p) \/ BcastCopy(p)
      PROVE  SlotHolds'
  <2>1. /\ UNCHANGED <<passed, call, bcast_slot>>
        /\ \A u \in Ranks : After(u)' <=> After(u)
        /\ \A u \in Ranks \ {p} : pc'[u] = pc[u] /\ buf'[u] = buf[u]
        /\ pc[p] \in {"B_len", "B_copy"}
        /\ pc'[p] \in {"B_copy", "B_second"}
    BY <1>0, <1>5, LocalStays
       DEF Local, BcastReadLen, BcastCopy, barrierVars, Goto, TypeOK
  <2>2. bcast_slot = Whole(call[p])
    BY <2>1, ReaderSeesWhole
  <2>3. pc'[p] = "B_copy" => buf'[p][call'[p]].head = Call(p)'.data
    <3> HAVE pc'[p] = "B_copy"
    <3>1. BcastReadLen(p) /\ call[p] \in DOMAIN Program
      BY <1>0, <1>5, CallInProgram DEF BcastReadLen, BcastCopy, Goto, TypeOK
    <3> QED  BY <1>0, <2>1, <2>2, <3>1, ReadLenResult DEF Whole, Call
  <2> QED  BY <2>1, <2>3 DEF SlotHolds, Whole, Call, IsRoot, After
<1> QED
  <2>1. CASE UNCHANGED vars
    BY <1>1, <2>1 DEF vars
  <2>2. CASE Next
    <3> PICK p \in Ranks : Step(p)
      BY <2>2 DEF Next
    <3>1. CASE Barrier(p)
      BY <1>1, <1>2, <3>1, BarrierPasses
    <3> QED  BY <1>3, <1>4, <1>5, <3>1 DEF Step
  <2> QED  BY <2>1, <2>2

\* A process that finishes copying holds the whole message, and keeps it.
LEMMA DeliveredStep ==
  BInv /\ [Next]_vars => BcastDelivered'
<1> SUFFICES ASSUME BInv, [Next]_vars PROVE BcastDelivered'
  OBVIOUS
<1>0. IInv /\ TypeOK /\ SlotHolds /\ BcastDelivered
  BY DEF BInv, IInv
<1>1. CASE UNCHANGED <<pc, call, buf>>
  BY <1>0, <1>1 DEF BcastDelivered, Whole
<1>2. ASSUME NEW p \in Ranks, Pass(p)
      PROVE  BcastDelivered'
  <2>1. /\ \A q \in Ranks \ {p} : pc'[q] = pc[q] /\ call'[q] = call[q]
        /\ pc[p] \in AtBarrier /\ Continue(p)
        /\ UNCHANGED buf
    BY <1>0, <1>2, ContinueType DEF Pass
  <2>2. ASSUME NEW c \in DOMAIN Program, Program[c].op = "bcast",
               Program[c].root # p,
               c < call'[p] \/ (c = call'[p] /\ pc'[p] = "B_second")
        PROVE  c < call[p] \/ (c = call[p] /\ pc[p] = "B_second")
    <3>1. call \in [Ranks -> 1 .. Len(Program) + 1] /\ pc \in [Ranks -> PCs]
      BY <1>0 DEF TypeOK
    <3>2. CASE pc[p] = "B_first"
      BY <2>1, <2>2, <3>1, <3>2 DEF Continue, IsRoot, Call
    <3>3. CASE pc[p] = "barrier"
      <4>1. Program[call[p]].op = "barrier"
        BY <1>0, <3>3 DEF TypeOK, Call
      <4>2. pc'[p] = "idle" /\ call'[p] = call[p] + 1
        BY <2>1, <3>1, <3>3 DEF Continue
      <4> QED  BY <2>2, <3>1, <4>1, <4>2
    <3>4. CASE pc[p] = "B_second"
      <4>1. pc'[p] = "idle" /\ call'[p] = call[p] + 1
        BY <2>1, <3>1, <3>4 DEF Continue
      <4> QED  BY <2>2, <3>1, <3>4, <4>1
    <3> QED  BY <2>1, <3>2, <3>3, <3>4 DEF AtBarrier
  <2> QED  BY <1>0, <2>1, <2>2 DEF BcastDelivered, Whole
<1>3. ASSUME NEW p \in Ranks, Local(p), ~BcastReadLen(p), ~BcastCopy(p)
      PROVE  BcastDelivered'
  <2>1. /\ UNCHANGED <<call, buf>>
        /\ \A q \in Ranks \ {p} : pc'[q] = pc[q]
        /\ pc'[p] # "B_second"
    BY <1>0, <1>3
       DEF Local, BarrierCall, BcastCall, BcastLock, BcastHeader,
           BcastPayload, Goto, TypeOK
  <2> QED  BY <1>0, <2>1 DEF BcastDelivered, Whole
<1>4. ASSUME NEW p \in Ranks, BcastReadLen(p)
      PROVE  BcastDelivered'
  <2>1. /\ UNCHANGED call
        /\ \A q \in Ranks \ {p} : pc'[q] = pc[q] /\ buf'[q] = buf[q]
        /\ pc'[p] = "B_copy"
    BY <1>0, <1>4 DEF BcastReadLen, Goto, TypeOK
  <2>2. \A c \in DOMAIN Program : c # call[p] => buf'[p][c] = buf[p][c]
    BY <1>0, <1>4 DEF BcastReadLen, TypeOK
  <2>3. call[p] \in Nat
    BY <1>0 DEF TypeOK
  <2> QED  BY <1>0, <2>1, <2>2, <2>3 DEF BcastDelivered, Whole
<1>5. ASSUME NEW p \in Ranks, BcastCopy(p)
      PROVE  BcastDelivered'
  <2>1. /\ UNCHANGED call
        /\ \A q \in Ranks \ {p} : pc'[q] = pc[q] /\ buf'[q] = buf[q]
        /\ pc[p] = "B_copy"
    BY <1>0, <1>5 DEF BcastCopy, Goto, TypeOK
  <2>2. \A c \in DOMAIN Program : c # call[p] => buf'[p][c] = buf[p][c]
    BY <1>0, <1>5 DEF BcastCopy, TypeOK
  <2>3. call[p] \in Nat /\ call[p] \in DOMAIN Program
    BY <1>0, <2>1, CallInProgram DEF TypeOK
  <2>4. buf'[p][call[p]] = Whole(call[p])
    <3>1. bcast_slot = Whole(call[p]) /\ buf[p][call[p]].head = Call(p).data
      BY <1>0, <2>1, ReaderSeesWhole DEF SlotHolds
    <3> QED  BY <1>0, <1>5, <2>3, <3>1, CopyResult DEF Whole, Call
  <2> QED  BY <1>0, <2>1, <2>2, <2>3, <2>4 DEF BcastDelivered, Whole
<1> QED
  <2>1. CASE UNCHANGED vars
    BY <1>1, <2>1 DEF vars
  <2>2. CASE Next
    <3> PICK p \in Ranks : Step(p)
      BY <2>2 DEF Next
    <3>1. CASE Barrier(p)
      BY <1>0, <1>1, <1>2, <3>1, BarrierPasses
    <3> QED  BY <1>3, <1>4, <1>5, <3>1 DEF Step, Local
  <2> QED  BY <2>1, <2>2

\* BInv is inductive, for every number of processes and every program.
THEOREM BcastInvariant == Spec => []BInv
<1>1. Init => BInv
  <2> SUFFICES ASSUME Init PROVE BInv
    OBVIOUS
  <2>1. SamePlace
    BY DEF Init, SamePlace, After
  <2>2. SlotHolds /\ BcastDelivered
    BY DEF Init, SlotHolds, BcastDelivered, After
  <2> QED  BY <2>1, <2>2, InitInv DEF BInv
<1>2. BInv /\ [Next]_vars => BInv'
  BY TypeStep, SlotLockedStep, BarrierStep, SamePlaceStep, SlotHoldsStep,
     DeliveredStep
     DEF BInv, IInv
<1> QED  BY <1>1, <1>2, PTL DEF Spec

\* Every process that has copied a broadcast holds the root's message, however
\* the processes' speeds differ and whatever the roots of the next calls do.
THEOREM BcastSafe == Spec => []BcastDelivered
<1>1. BInv => BcastDelivered
  BY DEF BInv
<1> QED  BY BcastInvariant, <1>1, PTL

=============================================================================
