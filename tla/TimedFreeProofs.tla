--------------------------- MODULE TimedFreeProofs ---------------------------
(* Theorems about TimedFree, for any timeout.                                *)
EXTENDS TimedFree, TLAPS

(* Who holds the mutex, and what the freeing thread has done when.           *)
MutexInv ==
  /\ waiter \in {"create", "wait", "unlock"} <=> mutex = "waiter"
  /\ freer \in {"complete", "broadcast", "unlock"} <=> mutex = "freer"

ProgressInv ==
  /\ waiter \in {"start", "lock", "create"} => freer = "none"
  /\ waiter = "wait" => freer \in {"read", "free", "lock"}
  /\ freer = "stray" => waiter = "returned"
  /\ freer \in {"lock", "complete", "broadcast", "unlock", "exit"} =>
       freed \/ waiter = "returned"
  /\ completed <=> freer \in {"broadcast", "unlock", "exit"}
  /\ signalled => freer \in {"unlock", "exit"}
  /\ result # "none" => waiter = "returned"
  /\ result = "success" => completed /\ freed

(* A wait that ended before the freeing thread was through ended by time.    *)
DeadlineInv ==
  waiter \in {"unlock", "return", "returned"} =>
    freer \in {"none", "exit"} \/ woke \in {"deadline", "spurious"}

Inv == TypeOK /\ MutexInv /\ ProgressInv /\ DeadlineInv
       /\ NoLostWakeup /\ FailureMeansTimeout

LEMMA WaiterInv ==
  ASSUME Inv, WaiterStep \/ Wake
  PROVE  Inv'
<1> USE DEF Inv, TypeOK, MutexInv, ProgressInv, DeadlineInv, NoLostWakeup,
        FailureMeansTimeout
<1>1. CASE GetTime \/ GiveUp
  BY <1>1 DEF GetTime, GiveUp
<1>2. CASE Lock \/ CreateFails \/ Create
  BY <1>2 DEF Lock, CreateFails, Create
<1>3. CASE Wait
  BY <1>3 DEF Wait
<1>4. CASE Wake
  BY <1>4 DEF Wake, WaitOver
<1>5. CASE Unlock
  BY <1>5 DEF Unlock
<1>6. CASE Return
  BY <1>6 DEF Return, Completed
<1> QED
  BY <1>1, <1>2, <1>3, <1>4, <1>5, <1>6 DEF WaiterStep

LEMMA FreerInv ==
  ASSUME Inv, FreeClient \/ FreerStep \/ Tick
  PROVE  Inv'
<1> USE DEF Inv, TypeOK, MutexInv, ProgressInv, DeadlineInv, NoLostWakeup,
        FailureMeansTimeout
<1>1. CASE FreeClient
  <2>1. freed' \in BOOLEAN /\ (freed => freed') /\ (freer = "free" => freed')
    BY <1>1, Zenon DEF FreeClient
  <2> QED BY <1>1, <2>1 DEF FreeClient
<1>7. CASE ReadClient
  BY <1>7 DEF ReadClient
<1>2. CASE FreerLock
  BY <1>2 DEF FreerLock
<1>3. CASE Complete
  BY <1>3 DEF Complete
<1>4. CASE Broadcast
  BY <1>4 DEF Broadcast
<1>5. CASE FreerUnlock
  BY <1>5 DEF FreerUnlock
<1>6. CASE Tick
  BY <1>6, TimedFreeAssumption DEF Tick
<1> QED
  BY <1>1, <1>2, <1>3, <1>4, <1>5, <1>6, <1>7 DEF FreerStep

LEMMA Invariant == Spec => []Inv
<1>1. Init => Inv
  <2> SUFFICES ASSUME Init PROVE Inv
    OBVIOUS
  <2>1. TypeOK
    <3>1. left \in 0..TimeoutSecs
      BY TimedFreeAssumption DEF Init
    <3>2. signalled \in BOOLEAN /\ completed \in BOOLEAN /\ freed \in BOOLEAN
      BY Zenon DEF Init
    <3> QED BY <3>1, <3>2 DEF Init, TypeOK
  <2>2. MutexInv
    BY DEF Init, MutexInv
  <2>3. ProgressInv
    BY DEF Init, ProgressInv
  <2>4. DeadlineInv /\ NoLostWakeup /\ FailureMeansTimeout
    BY DEF Init, DeadlineInv, NoLostWakeup, FailureMeansTimeout
  <2> QED BY <2>1, <2>2, <2>3, <2>4 DEF Inv
<1>2. Inv /\ [Next]_vars => Inv'
  <2>1. Inv /\ UNCHANGED vars => Inv'
    BY DEF Inv, TypeOK, MutexInv, ProgressInv, DeadlineInv, NoLostWakeup,
       FailureMeansTimeout, vars
  <2> QED
    BY <2>1, WaiterInv, FreerInv DEF Next, Terminated
<1> QED
  BY <1>1, <1>2, PTL DEF Spec

(* The two threads and the wall clock stay in their types.                   *)
THEOREM TimedTypeCorrect == Spec => []TypeOK
BY Invariant, PTL DEF Inv

(* Success is reported only of a client that is gone.                        *)
THEOREM SuccessIsFreed == Spec => []SuccessMeansFreed
<1>1. Inv => SuccessMeansFreed
  BY DEF Inv, ProgressInv, SuccessMeansFreed
<1> QED
  BY <1>1, Invariant, PTL

(* A thread that waits after the broadcast was woken by it.                  *)
THEOREM WakeupKept == Spec => []NoLostWakeup
BY Invariant, PTL DEF Inv

(* From its first use of the stack frame to its last, the freeing thread     *)
(* finds it there, unless the deadline or nothing ended the wait.            *)
THEOREM FrameKept == Spec => []FrameOutlivesUse
<1>1. Inv => FrameOutlivesUse
  BY DEF Inv, DeadlineInv, FrameOutlivesUse
<1> QED
  BY <1>1, Invariant, PTL

(* Failure is reported only after the timeout, after a failed call or after  *)
(* a spurious wake-up.                                                       *)
THEOREM FailureIsTimeout == Spec => []FailureMeansTimeout
BY Invariant, PTL DEF Inv

-----------------------------------------------------------------------------
(* ProcWin32 has the timed free as a few steps of a proc thread and its free *)
(* thread.  The steps of this module are steps of those two: the proc is the *)
(* only one here, its client is stopped, its pipe drained and closed.        *)
CONSTANT Faults  \* as in ProcWin32

proc == 0

ProcPc ==
  IF waiter = "returned" THEN "close_read"
  ELSE IF freer = "none" THEN "cleanup_client" ELSE "free_wait"

FreePc ==
  IF freer = "none" THEN "none" 
  ELSE IF freer \in {"read", "free", "stray"} THEN "client_free" ELSE "exit"

PcOf(t) ==
  IF t[1] = "proc" THEN ProcPc
  ELSE IF t[1] = "free" THEN FreePc
  ELSE IF t[1] = "conn" THEN "pthread_join" ELSE "exit"

ThreadIds == {"conn", "proc", "user", "free"} \X {proc}

PcMap == [t \in ThreadIds |-> PcOf(t)]

Threads == INSTANCE ProcWin32 WITH
  Users <- {proc}, Creators <- {proc}, PipeCapacity <- 1, Faults <- Faults,
  pc <- PcMap,
  procOf <- [u \in {proc} |-> u],
  procMem <- [p \in {proc} |-> "live"],
  clientMem <- [p \in {proc} |-> IF freed THEN "freed" ELSE "live"],
  running <- [p \in {proc} |-> ProcPc = "cleanup_client"],
  fdSocket <- [p \in {proc} |-> FALSE],
  writeEnd <- [p \in {proc} |-> FALSE],
  readEnd <- [p \in {proc} |-> TRUE],
  pipe <- [p \in {proc} |-> <<>>],
  loaded <- [p \in {proc} |-> TRUE],
  owner <- [p \in {proc} |-> FALSE],
  isOwner <- [u \in {proc} |-> TRUE],
  dup <- [u \in {proc} |-> "closed"]

(* What ProcWin32 allows only with a fault in Faults: to go on without the   *)
(* free thread, and to go on when the wait ended early.  It has no thread    *)
(* that is so late that it reads op->client from a frame that is gone.       *)
WithinFaults ==
  /\ waiter # "returned" /\ waiter' = "returned" /\ freer = "none" => "nofree" \in Faults
  /\ waiter = "return" /\ freer # "none" /\ woke \in {"deadline", "spurious"} =>
       "timeout" \in Faults
  /\ freer # "stray"

FreeSteps ==
  \/ Threads!CleanupClient(proc) \/ Threads!CleanupClientNoThread(proc)
  \/ Threads!FreeWait(proc) \/ Threads!ClientFree(proc)

(* Nothing but the proc thread and the free thread moves.                    *)
LEMMA PcMoves ==
  /\ PcMap[Threads!Proc(proc)] = ProcPc
  /\ PcMap[Threads!Free(proc)] = FreePc
  /\ PcMap' = [PcMap EXCEPT ![Threads!Proc(proc)] = ProcPc', ![Threads!Free(proc)] = FreePc']
  /\ FreePc' = FreePc => PcMap' = [PcMap EXCEPT ![Threads!Proc(proc)] = ProcPc']
  /\ ProcPc' = ProcPc => PcMap' = [PcMap EXCEPT ![Threads!Free(proc)] = FreePc']
<1>1. /\ Threads!Proc(proc) = <<"proc", proc>> /\ Threads!Free(proc) = <<"free", proc>>
  BY DEF Threads!Proc, Threads!Free
<1>2. \A t \in ThreadIds :
        \/ t = <<"proc", proc>> /\ PcOf(t) = ProcPc /\ PcOf(t)' = ProcPc'
        \/ t = <<"free", proc>> /\ PcOf(t) = FreePc /\ PcOf(t)' = FreePc'
        \/ t # <<"proc", proc>> /\ t # <<"free", proc>> /\ PcOf(t)' = PcOf(t)
  BY DEF ThreadIds, PcOf
<1>3. <<"proc", proc>> \in ThreadIds /\ <<"free", proc>> \in ThreadIds
  BY DEF ThreadIds
<1>4. <<"proc", proc>> # <<"free", proc>>
  OBVIOUS
<1>5. /\ PcMap = [t \in ThreadIds |-> PcOf(t)]
      /\ PcMap' = [t \in ThreadIds |-> PcOf(t)']
  BY DEF PcMap
<1> QED
  BY <1>1, <1>2, <1>3, <1>4, <1>5

(* The proc thread calls guacd_timed_client_free in its cleanup.             *)
FreeStarts == ProcPc = "cleanup_client" /\ FreePc = "none" /\ ~freed

LEMMA FreeStepByStep ==
  ASSUME Inv, [Next]_vars, [WithinFaults]_vars
  PROVE  [FreeSteps]_(Threads!vars)
<1> USE DEF Inv, TypeOK
<1>1. ASSUME ProcPc' = ProcPc, FreePc' = FreePc, freed' = freed
      PROVE  UNCHANGED Threads!vars
  <2>1. PcMap' = PcMap
    BY <1>1 DEF PcOf, PcMap, ThreadIds
  <2> QED
    BY <1>1, <2>1 DEF Threads!vars
<1>2. CASE GetTime \/ Lock \/ CreateFails \/ Wait \/ Wake \/ Unlock \/ Tick
  BY <1>1, <1>2 DEF GetTime, Lock, CreateFails, Wait, Wake, Unlock, Tick, ProcPc, FreePc,
       ProgressInv
<1>3. CASE ReadClient \/ FreerLock \/ Complete \/ Broadcast \/ FreerUnlock
  BY <1>1, <1>3 DEF ReadClient, FreerLock, Complete, Broadcast, FreerUnlock, ProcPc, FreePc
<1>4. CASE UNCHANGED vars
  BY <1>1, <1>4 DEF vars, ProcPc, FreePc
<1>5. CASE Create
  <2>1. freer = "none" /\ waiter # "returned"
    BY <1>5 DEF Create, ProgressInv
  <2>2. /\ ProcPc = "cleanup_client" /\ ProcPc' = "free_wait"
        /\ FreePc = "none" /\ FreePc' = "client_free" /\ freed' = freed
    BY <1>5, <2>1 DEF Create, ProcPc, FreePc
  <2> QED
    BY <2>2, PcMoves DEF FreeSteps, Threads!CleanupClient,
         Threads!memVars, Threads!pipeVars, Threads!userVars
<1>6. CASE FreeClient
  <2>1. /\ ProcPc' = ProcPc /\ FreePc = "client_free" /\ FreePc' = "exit" /\ freed' = TRUE
    <3>1. freer = "free"
      BY <1>6 DEF FreeClient, WithinFaults, vars
    <3> QED BY <1>6, <3>1 DEF FreeClient, ProcPc, FreePc
  <2> QED
    BY <2>1, PcMoves DEF FreeSteps, Threads!ClientFree, Threads!Goto,
         Threads!clientVars, Threads!pipeVars, Threads!userVars
<1>7. CASE GiveUp \/ Return
  <2>1. /\ waiter # "returned" /\ waiter' = "returned" /\ freer' = freer /\ freed' = freed
        /\ waiter' # waiter
    BY <1>7 DEF GiveUp, Return
  <2>2. ProcPc' = "close_read" /\ FreePc' = FreePc
    BY <2>1 DEF ProcPc, FreePc
  <2>3. WithinFaults
    BY <2>1 DEF vars
  <2>4. CASE freer = "none"
    <3>1. ProcPc = "cleanup_client" /\ "nofree" \in Faults
      BY <2>1, <2>3, <2>4 DEF ProcPc, WithinFaults
    <3> QED
      BY <2>1, <2>2, <3>1, PcMoves DEF FreeSteps, Threads!CleanupClientNoThread, Threads!Goto,
           Threads!memVars, Threads!pipeVars, Threads!userVars
  <2>5. CASE freer # "none"
    <3>1. ProcPc = "free_wait" /\ waiter = "return"
      BY <1>7, <2>1, <2>5 DEF ProcPc, GiveUp, Return, ProgressInv
    <3>2. FreePc = "exit" \/ "timeout" \in Faults
      BY <2>3, <2>5, <3>1 DEF WithinFaults, DeadlineInv, FreePc
    <3> QED
      BY <2>1, <2>2, <3>1, <3>2, PcMoves DEF FreeSteps, Threads!FreeWait, Threads!Goto,
           Threads!Proc, Threads!Free, Threads!memVars, Threads!clientVars, Threads!pipeVars,
           Threads!userVars
  <2> QED
    BY <2>4, <2>5
<1> QED
  BY <1>2, <1>3, <1>4, <1>5, <1>6, <1>7 DEF Next, WaiterStep, FreerStep, Terminated

(* guacd_timed_client_free and guacd_client_free_thread do what ProcWin32    *)
(* says of them: the proc thread goes on when the client is freed, or, with  *)
(* the faults ProcWin32 names for it, without the thread or before it is.    *)
THEOREM FreeIsOneWait ==
  Spec /\ [][WithinFaults]_vars => FreeStarts /\ [][FreeSteps]_(Threads!vars)
<1>1. Init => FreeStarts
  BY DEF Init, FreeStarts, ProcPc, FreePc
<1> QED
  BY <1>1, Invariant, FreeStepByStep, PTL DEF Spec
=============================================================================
