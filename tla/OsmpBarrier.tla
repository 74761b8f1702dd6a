---------------------------- MODULE OsmpBarrier ----------------------------
(***************************************************************************)
(* OSMP_Barrier and OSMP_Bcast (OSMP/lib/OSMPlib.c).  All processes run    *)
(* the same sequence of collective calls, each at its own speed.           *)
(*                                                                         *)
(* The body of OSMP_Barrier runs under bcast_mutex, which only             *)
(* pthread_cond_wait gives up in between: the part before the wait and the *)
(* part after it are one step each.  OSMP_Bcast writes the broadcast slot  *)
(* under shm_mutex and reads it under no lock.                             *)
(***************************************************************************)
EXTENDS Integers, Sequences, FiniteSets

CONSTANTS
  Size,     \* number of OSMP processes (shared_memory.size)
  Data,     \* broadcast messages
  NoData,   \* what the slot and the buffers hold before the first one
  Program   \* the collective calls, in order, the same in every process

Ranks == 0 .. Size - 1
Calls == [op : {"barrier"}] \cup [op : {"bcast"}, root : Ranks, data : Data]

ASSUME ConstantsAssumption ==
  /\ Size \in Nat \ {0}
  /\ Program \in Seq(Calls)

VARIABLES
  cond,        \* cond_barrier.cond: arrivals missing until the broadcast
  waiting,     \* processes blocked in pthread_cond_wait on bcast_cond
  woken,       \* processes signalled that have yet to reacquire bcast_mutex
  shm_mutex,
  bcast_slot,  \* messages[OSMP_BCAST_SLOT]: header and payload
  pc, call,    \* where each process is, and in which call of Program
  buf,         \* what each process copied in each call
  entered,     \* history: how many barriers each process has arrived at
  passed       \* history: how many barriers each process has left

vars == <<cond, waiting, woken, shm_mutex, bcast_slot, pc, call, buf,
          entered, passed>>
barrierVars == <<cond, waiting, woken, entered, passed>>

Slot == [head : Data \cup {NoData}, body : Data \cup {NoData}]

\* Mutation: the count starts one too low.
InitOneShort ==
  /\ cond = Size - 1
  /\ waiting = {} /\ woken = {}
  /\ shm_mutex = 1
  /\ bcast_slot = [head |-> NoData, body |-> NoData]
  /\ pc = [p \in Ranks |-> "idle"]
  /\ call = [p \in Ranks |-> 1]
  /\ buf = [p \in Ranks |-> [c \in DOMAIN Program |->
                               [head |-> NoData, body |-> NoData]]]
  /\ entered = [p \in Ranks |-> 0]
  /\ passed = [p \in Ranks |-> 0]

Init ==
  /\ cond = Size
  /\ waiting = {} /\ woken = {}
  /\ shm_mutex = 1
  /\ bcast_slot = [head |-> NoData, body |-> NoData]
  /\ pc = [p \in Ranks |-> "idle"]
  /\ call = [p \in Ranks |-> 1]
  /\ buf = [p \in Ranks |-> [c \in DOMAIN Program |->
                               [head |-> NoData, body |-> NoData]]]
  /\ entered = [p \in Ranks |-> 0]
  /\ passed = [p \in Ranks |-> 0]

Finished(p) == call[p] = Len(Program) + 1
Call(p) == Program[call[p]]
IsRoot(p) == Call(p).root = p
\* B_first and B_second are the two barriers inside OSMP_Bcast.
AtBarrier == {"barrier", "B_first", "B_second"}

Goto(p, from, to) ==
  /\ pc[p] = from
  /\ pc' = [pc EXCEPT ![p] = to]

-----------------------------------------------------------------------------
\* What a process does when OSMP_Barrier returns.
Continue(p) ==
  IF pc[p] = "B_first"
  THEN /\ pc' = [pc EXCEPT ![p] = IF IsRoot(p) THEN "B_second" ELSE "B_len"]
       /\ UNCHANGED call
  ELSE /\ pc' = [pc EXCEPT ![p] = "idle"]
       /\ call' = [call EXCEPT ![p] = @ + 1]

\* OSMP_Barrier before the wait: the count drops, and is not yet 0.
ArriveWait(p) ==
  /\ pc[p] \in AtBarrier /\ p \notin waiting \cup woken
  /\ cond # 1
  /\ cond' = cond - 1
  /\ waiting' = waiting \cup {p}
  /\ entered' = [entered EXCEPT ![p] = @ + 1]
  /\ UNCHANGED <<woken, passed, shm_mutex, bcast_slot, pc, call, buf>>

\* Mutation: pthread_cond_signal in place of pthread_cond_broadcast.
ArriveSignal(p) ==
  /\ pc[p] \in AtBarrier /\ p \notin waiting \cup woken
  /\ cond = 1
  /\ cond' = Size
  /\ \E S \in SUBSET waiting :
       /\ Cardinality(S) = IF waiting = {} THEN 0 ELSE 1
       /\ woken' = woken \cup S
       /\ waiting' = waiting \ S
  /\ entered' = [entered EXCEPT ![p] = @ + 1]
  /\ passed' = [passed EXCEPT ![p] = @ + 1]
  /\ Continue(p)
  /\ UNCHANGED <<shm_mutex, bcast_slot, buf>>

\* Mutation: the last one does not wake the others.
ArriveSilently(p) ==
  /\ pc[p] \in AtBarrier /\ p \notin waiting \cup woken
  /\ cond = 1
  /\ cond' = Size
  /\ entered' = [entered EXCEPT ![p] = @ + 1]
  /\ passed' = [passed EXCEPT ![p] = @ + 1]
  /\ Continue(p)
  /\ UNCHANGED <<waiting, woken, shm_mutex, bcast_slot, buf>>

\* The last one wakes the others, resets the count and returns.
ArriveLast(p) ==
  /\ pc[p] \in AtBarrier /\ p \notin waiting \cup woken
  /\ cond = 1
  /\ cond' = Size
  /\ woken' = woken \cup waiting
  /\ waiting' = {}
  /\ entered' = [entered EXCEPT ![p] = @ + 1]
  /\ passed' = [passed EXCEPT ![p] = @ + 1]
  /\ Continue(p)
  /\ UNCHANGED <<shm_mutex, bcast_slot, buf>>

\* Mutation: the leaving process counts itself out of the next barrier.
LeaveOneShort(p) ==
  /\ p \in woken
  /\ woken' = woken \ {p}
  /\ cond' = Size - 1
  /\ passed' = [passed EXCEPT ![p] = @ + 1]
  /\ Continue(p)
  /\ UNCHANGED <<waiting, entered, shm_mutex, bcast_slot, buf>>

\* A woken process gets the mutex back.  It resets the count too, whoever has
\* arrived at the next barrier in the meantime.
Leave(p) ==
  /\ p \in woken
  /\ woken' = woken \ {p}
  /\ cond' = Size
  /\ passed' = [passed EXCEPT ![p] = @ + 1]
  /\ Continue(p)
  /\ UNCHANGED <<waiting, entered, shm_mutex, bcast_slot, buf>>

-----------------------------------------------------------------------------
BarrierCall(p) ==
  /\ ~Finished(p) /\ Call(p).op = "barrier"
  /\ Goto(p, "idle", "barrier")
  /\ UNCHANGED <<barrierVars, shm_mutex, bcast_slot, call, buf>>

\* Mutation: the receivers do not wait for the root to have written.
BcastCallUnsynchronised(p) ==
  /\ ~Finished(p) /\ Call(p).op = "bcast"
  /\ Goto(p, "idle", IF IsRoot(p) THEN "B_lock" ELSE "B_len")
  /\ UNCHANGED <<barrierVars, shm_mutex, bcast_slot, call, buf>>

BcastCall(p) ==
  /\ ~Finished(p) /\ Call(p).op = "bcast"
  /\ Goto(p, "idle", IF IsRoot(p) THEN "B_lock" ELSE "B_first")
  /\ UNCHANGED <<barrierVars, shm_mutex, bcast_slot, call, buf>>

BcastLock(p) ==
  /\ Goto(p, "B_lock", "B_header")
  /\ shm_mutex > 0
  /\ shm_mutex' = shm_mutex - 1
  /\ UNCHANGED <<barrierVars, bcast_slot, call, buf>>

BcastHeader(p) ==
  /\ Goto(p, "B_header", "B_payload")
  /\ bcast_slot' = [bcast_slot EXCEPT !.head = Call(p).data]
  /\ UNCHANGED <<barrierVars, shm_mutex, call, buf>>

BcastPayload(p) ==
  /\ Goto(p, "B_payload", "B_first")
  /\ bcast_slot' = [bcast_slot EXCEPT !.body = Call(p).data]
  /\ shm_mutex' = shm_mutex + 1
  /\ UNCHANGED <<barrierVars, call, buf>>

\* The other processes read the length, then the payload, without the mutex.
BcastReadLen(p) ==
  /\ Goto(p, "B_len", "B_copy")
  /\ buf' = [buf EXCEPT ![p][call[p]].head = bcast_slot.head]
  /\ UNCHANGED <<barrierVars, shm_mutex, bcast_slot, call>>

BcastCopy(p) ==
  /\ Goto(p, "B_copy", "B_second")
  /\ buf' = [buf EXCEPT ![p][call[p]].body = bcast_slot.body]
  /\ UNCHANGED <<barrierVars, shm_mutex, bcast_slot, call>>

Barrier(p) == ArriveWait(p) \/ ArriveLast(p) \/ Leave(p)

Step(p) ==
  \/ Barrier(p)
  \/ BarrierCall(p) \/ BcastCall(p)
  \/ BcastLock(p) \/ BcastHeader(p) \/ BcastPayload(p)
  \/ BcastReadLen(p) \/ BcastCopy(p)

Next == \E p \in Ranks : Step(p)
Spec == Init /\ [][Next]_vars
\* Every process that can run is scheduled eventually; bcast_mutex is never
\* held across a step.
FairSpec == Spec /\ \A p \in Ranks : WF_vars(Step(p))

-----------------------------------------------------------------------------
PCs == AtBarrier \cup {"idle", "B_lock", "B_header", "B_payload", "B_len",
                       "B_copy"}

\* Type correctness, with the two histories in step: a process has entered one
\* barrier more than it has left while it is blocked in it, else as many.
TypeOK ==
  /\ cond \in 1 .. Size
  /\ waiting \subseteq Ranks /\ woken \subseteq Ranks
  /\ shm_mutex \in {0, 1}
  /\ bcast_slot \in Slot
  /\ pc \in [Ranks -> PCs]
  /\ call \in [Ranks -> 1 .. Len(Program) + 1]
  /\ buf \in [Ranks -> [DOMAIN Program -> Slot]]
  /\ entered \in [Ranks -> Nat]
  /\ passed \in [Ranks -> Nat]
  /\ \A p \in Ranks :
       /\ pc[p] # "idle" => ~Finished(p)
       /\ pc[p] \notin {"idle", "barrier"} => Call(p).op = "bcast"
       /\ pc[p] = "barrier" => Call(p).op = "barrier"
       /\ pc[p] \in {"B_lock", "B_header", "B_payload"} => IsRoot(p)
       /\ pc[p] \in {"B_len", "B_copy"} => ~IsRoot(p)
       /\ p \in waiting \cup woken =>
            pc[p] \in AtBarrier /\ entered[p] = passed[p] + 1
       /\ p \notin waiting \cup woken => entered[p] = passed[p]

\* Nobody has left a barrier that somebody has not arrived at.
BarrierHolds == \A p, q \in Ranks : passed[p] <= entered[q]

\* Why: only processes that still wait have lowered the count, so it gets to 0
\* only when everybody waits; nobody waits at a barrier that somebody has
\* left; and the woken ones are one barrier behind those that wait again.
NoEarlyWake ==
  /\ waiting \cap woken = {}
  /\ cond + Cardinality(waiting) >= Size
  /\ \A p \in waiting, q \in Ranks : passed[q] < entered[p]
  /\ \A p \in woken, q \in Ranks : entered[p] <= entered[q]
  /\ \A p \in woken, q \in waiting : entered[p] < entered[q]

\* Only one process writes the slot, under shm_mutex.
Writing == {"B_header", "B_payload"}
SlotLocked ==
  /\ \A p \in Ranks : pc[p] \in Writing => shm_mutex = 0
  /\ \A p, q \in Ranks : pc[p] \in Writing /\ pc[q] \in Writing => p = q

IInv == TypeOK /\ SlotLocked /\ BarrierHolds /\ NoEarlyWake

Whole(c) == [head |-> Program[c].data, body |-> Program[c].data]

\* Every process that has come out of a broadcast, or only finished copying,
\* holds the root's message, header and payload of the same one: the slot is
\* not overwritten by the next broadcast while a slow process still reads.
BcastDelivered ==
  \A p \in Ranks, c \in DOMAIN Program :
    LET copied == c < call[p] \/ (c = call[p] /\ pc[p] = "B_second") IN
    Program[c].op = "bcast" /\ Program[c].root # p /\ copied =>
      buf[p][c] = Whole(c)

\* Processes that have left equally many barriers are in the same part of the
\* same call; one that has left one more is in the part after it.
After(p) == pc[p] \in {"B_len", "B_copy", "B_second"}
SamePlace ==
  \A p, q \in Ranks :
    /\ passed[p] = passed[q] => call[p] = call[q] /\ (After(p) <=> After(q))
    /\ passed[p] = passed[q] + 1 =>
         IF Call(q).op = "bcast" /\ ~After(q)
         THEN call[p] = call[q] /\ After(p)
         ELSE call[p] = call[q] + 1 /\ ~After(p)

\* The slot holds the message of the current broadcast from the moment the
\* root has written it until somebody leaves the second barrier.
SlotHolds ==
  \A p \in Ranks :
    /\ pc[p] = "B_payload" => bcast_slot.head = Call(p).data
    /\ /\ After(p) \/ (pc[p] = "B_first" /\ IsRoot(p))
       /\ \A q \in Ranks : passed[q] <= passed[p]
       => bcast_slot = Whole(call[p])
    /\ pc[p] = "B_copy" => buf[p][call[p]].head = Call(p).data

BInv == IInv /\ SamePlace /\ SlotHolds /\ BcastDelivered

\* Barrier k has been reached, or left, by everybody.
AllIn(k) == \A p \in Ranks : entered[p] >= k
AllOut(k) == \A p \in Ranks : passed[p] >= k
Barriers ==
  1 .. Len(Program) + Cardinality({c \in DOMAIN Program : Program[c].op = "bcast"})

\* OSMP_Barrier returns in every process once all have arrived.
BarrierReturns == \A k \in Barriers : AllIn(k) ~> AllOut(k)

\* It does the first time.
FirstBarrierReturns == AllIn(1) ~> AllOut(1)

\* It does every time if nobody enters a barrier while others have yet to
\* leave the one before.
Orderly == woken = {} \/ waiting = {}
OrderlyBarrierReturns == []Orderly => BarrierReturns
=============================================================================
