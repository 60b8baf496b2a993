---------------------------- MODULE CompatProofs ----------------------------
(***************************************************************************)
(* Proofs about the parts of compat/ that share nothing with each other:   *)
(* threads and mutexes of threads.h, identifiers of uuid.h; for any number *)
(* of threads, blocks, variables and buffers.                              *)
(***************************************************************************)
EXTENDS C11Threads, C11Mutex, Uuid, SequenceTheorems, TLAPS

(* C11Threads.  The invariant follows the wrapper: who owns it, that its     *)
(* owner is at a place where it has not given it away, and that what is      *)
(* written in it stays until its thread has read it.                         *)
OwnerHasBlock ==
  \A c \in Client :
    /\ OwnsWrapper(c) => wrap[c] \in Block
    /\ pc[c] \in {"start", "fill", "create"} => child[c] = "none"

WrapperWritten ==
  \A c \in Client :
    pc[c] = "create" \/ child[c] \in {"read_func", "read_arg"} =>
      func[wrap[c]] = c /\ arg[wrap[c]] = c

ReadInOrder == \A c \in Client : child[c] = "read_arg" => job[c].f = c

PointerHoldsResult ==
  \A c \in Client :
    /\ child[c] = "ended" => FromPointer(retval[c]) = result[c]
    /\ pc[c] = "joined" => child[c] = "ended"

C11Inv ==
  /\ C11TypeOK
  /\ OwnerHasBlock
  /\ OneOwnerEach
  /\ WrapperWritten
  /\ ReadInOrder
  /\ RunsItsOwn
  /\ PointerHoldsResult
  /\ JoinTellsResult

-----------------------------------------------------------------------------
LEMMA Remainder ==
  ASSUME NEW a \in Int, NEW q \in Int, NEW r \in Int, NEW b \in Nat,
         a = q * b + r, 0 <= r, r < b
  PROVE  a % b = r
  BY SMTT(60)

(* An int comes back from a void pointer.                                    *)
LEMMA PointerRoundTrip ==
  ASSUME NEW i \in Ints
  PROVE  ToPointer(i) \in 0..PtrSize - 1 /\ FromPointer(ToPointer(i)) = i
<1>1. /\ IntHalf \in Nat /\ IntHalf > 0 /\ i \in Int /\ -IntHalf <= i /\ i < IntHalf
      /\ IntSize \in Nat /\ IntSize > 0 /\ IntSize = IntHalf + IntHalf
  BY C11Assumption DEF Ints, IntSize
<1>2. PtrSize \in Nat /\ PtrSize = IntSize * IntSize /\ PtrSize >= IntSize
  BY <1>1 DEF PtrSize
<1>3. CASE i >= 0
  <2>1. ToPointer(i) = i
    <3>1. i = 0 * PtrSize + i /\ i < PtrSize
      BY <1>1, <1>2, <1>3
    <3> QED
      BY <3>1, <1>1, <1>2, <1>3, Remainder DEF ToPointer
  <2>2. i % IntSize = i
    <3>1. i = 0 * IntSize + i /\ i < IntSize
      BY <1>1, <1>3
    <3> QED
      BY <3>1, <1>1, <1>3, Remainder
  <2> QED
    BY <2>1, <2>2, <1>1, <1>2, <1>3 DEF FromPointer
<1>4. CASE i < 0
  <2>1. ToPointer(i) = PtrSize + i
    <3>1. i = (-1) * PtrSize + (PtrSize + i) /\ 0 <= PtrSize + i /\ PtrSize + i < PtrSize
      BY <1>1, <1>2, <1>4
    <3> QED
      BY <3>1, <1>1, <1>2, Remainder DEF ToPointer
  <2>2. (PtrSize + i) % IntSize = IntSize + i
    <3>0. PICK q \in Int : q = IntSize - 1
      BY <1>1
    <3>1. PtrSize + i = q * IntSize + (IntSize + i)
      BY <1>1, <1>2, <3>0
    <3>2. 0 <= IntSize + i /\ IntSize + i < IntSize
      BY <1>1, <1>4
    <3>3. PtrSize + i \in Int /\ IntSize + i \in Int
      BY <1>1, <1>2
    <3> QED
      BY <3>1, <3>2, <3>3, <1>1, Remainder
  <2> QED
    BY <2>1, <2>2, <1>1, <1>2, <1>4 DEF FromPointer
<1> QED
  BY <1>1, <1>3, <1>4

-----------------------------------------------------------------------------
LEMMA C11InitHolds == C11Init => C11Inv
<1> SUFFICES ASSUME C11Init PROVE C11Inv
  OBVIOUS
<1>1. 0 \in Ints /\ 0 \in 0..PtrSize - 1
  BY C11Assumption DEF Ints, IntSize, PtrSize
<1>2. C11TypeOK
  BY <1>1 DEF C11Init, C11TypeOK
<1> QED
  BY <1>2 DEF C11Init, C11Inv, OwnerHasBlock, OneOwnerEach, OwnsWrapper, WrapperWritten,
       ReadInOrder, RunsItsOwn, PointerHoldsResult, JoinTellsResult

LEMMA C11TypePreserved ==
  ASSUME C11Inv, [C11Next]_c11Vars
  PROVE  C11TypeOK'
<1>t. C11TypeOK
  BY DEF C11Inv
<1> USE DEF Step, free
<1>0. CASE UNCHANGED c11Vars
  BY <1>0, <1>t DEF c11Vars, C11TypeOK
<1>j. \A c \in Client : child[c] = "ended" => FromPointer(retval[c]) \in Ints
  BY <1>t DEF C11Inv, PointerHoldsResult, C11TypeOK
<1>r. \A c \in Client : child[c] \in {"read_func", "read_arg"} =>
        func[wrap[c]] = c /\ arg[wrap[c]] = c
  BY DEF C11Inv, WrapperWritten
<1>1. ASSUME NEW c \in Client, Malloc(c) PROVE C11TypeOK'
  BY <1>1, <1>t DEF Malloc, C11TypeOK
<1>2. ASSUME NEW c \in Client, Fill(c) PROVE C11TypeOK'
  BY <1>2, <1>t DEF Fill, C11TypeOK
<1>3. ASSUME NEW c \in Client, PthreadCreate(c) PROVE C11TypeOK'
  BY <1>3, <1>t DEF PthreadCreate, C11TypeOK
<1>4. ASSUME NEW c \in Client, PthreadCreateFails(c) PROVE C11TypeOK'
  BY <1>4, <1>t DEF PthreadCreateFails, C11TypeOK
<1>5. ASSUME NEW c \in Client, ReadFunc(c) PROVE C11TypeOK'
  BY <1>5, <1>t, <1>r DEF ReadFunc, C11TypeOK
<1>6. ASSUME NEW c \in Client, ReadArg(c) PROVE C11TypeOK'
  BY <1>6, <1>t, <1>r DEF ReadArg, C11TypeOK
<1>7. ASSUME NEW c \in Client, FreeWrapper(c) PROVE C11TypeOK'
  BY <1>7, <1>t DEF FreeWrapper, C11TypeOK
<1>8. ASSUME NEW c \in Client, End(c) PROVE C11TypeOK'
  BY <1>8, <1>t, PointerRoundTrip DEF End, C11TypeOK
<1>9. ASSUME NEW c \in Client, ThrdJoin(c) PROVE C11TypeOK'
  BY <1>9, <1>t, <1>j DEF ThrdJoin, C11TypeOK
<1>10. ASSUME NEW c \in Client, ThrdJoinFails(c) PROVE C11TypeOK'
  BY <1>10, <1>t DEF ThrdJoinFails, C11TypeOK
<1>11. ASSUME NEW c \in Client, ThrdDetach(c) PROVE C11TypeOK'
  BY <1>11, <1>t DEF ThrdDetach, C11TypeOK
<1> QED
  BY <1>0, <1>1, <1>2, <1>3, <1>4, <1>5, <1>6, <1>7, <1>8, <1>9, <1>10, <1>11 DEF C11Next

LEMMA C11Preserved ==
  ASSUME C11Inv, [C11Next]_c11Vars
  PROVE  C11Inv'
<1>t. C11TypeOK /\ OwnerHasBlock /\ OneOwnerEach /\ WrapperWritten /\ ReadInOrder /\ RunsItsOwn
      /\ PointerHoldsResult /\ JoinTellsResult
  BY DEF C11Inv
<1>T. C11TypeOK'
  BY C11TypePreserved
<1> USE DEF Step, free
<1>0. CASE UNCHANGED c11Vars
  BY <1>0, <1>t, <1>T DEF c11Vars, C11Inv, OwnerHasBlock, OneOwnerEach, OwnsWrapper,
     WrapperWritten, ReadInOrder, RunsItsOwn, PointerHoldsResult, JoinTellsResult
<1>1. ASSUME NEW c \in Client, Malloc(c) PROVE C11Inv'
  <2>1. OwnerHasBlock'
    BY <1>1, <1>t DEF Malloc, C11TypeOK, OwnerHasBlock, OwnsWrapper
  <2>2. OneOwnerEach'
    BY <1>1, <1>t DEF Malloc, C11TypeOK, OwnerHasBlock, OneOwnerEach, OwnsWrapper
  <2>3. WrapperWritten'
    BY <1>1, <1>t DEF Malloc, C11TypeOK, OwnerHasBlock, OneOwnerEach, OwnsWrapper, WrapperWritten
  <2>4. ReadInOrder' /\ RunsItsOwn'
    BY <1>1, <1>t DEF Malloc, C11TypeOK, WrapperWritten, ReadInOrder, RunsItsOwn
  <2>5. PointerHoldsResult' /\ JoinTellsResult'
    BY <1>1, <1>t DEF Malloc, C11TypeOK, OwnerHasBlock, PointerHoldsResult, JoinTellsResult
  <2> QED
    BY <2>1, <2>2, <2>3, <2>4, <2>5, <1>T DEF C11Inv
<1>2. ASSUME NEW c \in Client, Fill(c) PROVE C11Inv'
  <2>1. OwnerHasBlock'
    BY <1>2, <1>t DEF Fill, C11TypeOK, OwnerHasBlock, OwnsWrapper
  <2>2. OneOwnerEach'
    BY <1>2, <1>t DEF Fill, C11TypeOK, OwnerHasBlock, OneOwnerEach, OwnsWrapper
  <2>3. WrapperWritten'
    BY <1>2, <1>t DEF Fill, C11TypeOK, OwnerHasBlock, OneOwnerEach, OwnsWrapper, WrapperWritten
  <2>4. ReadInOrder' /\ RunsItsOwn'
    BY <1>2, <1>t DEF Fill, C11TypeOK, WrapperWritten, ReadInOrder, RunsItsOwn
  <2>5. PointerHoldsResult' /\ JoinTellsResult'
    BY <1>2, <1>t DEF Fill, C11TypeOK, OwnerHasBlock, PointerHoldsResult, JoinTellsResult
  <2> QED
    BY <2>1, <2>2, <2>3, <2>4, <2>5, <1>T DEF C11Inv
<1>3. ASSUME NEW c \in Client, PthreadCreate(c) PROVE C11Inv'
  <2>1. OwnerHasBlock'
    BY <1>3, <1>t DEF PthreadCreate, C11TypeOK, OwnerHasBlock, OwnsWrapper
  <2>2. OneOwnerEach'
    BY <1>3, <1>t DEF PthreadCreate, C11TypeOK, OwnerHasBlock, OneOwnerEach, OwnsWrapper
  <2>3. WrapperWritten'
    BY <1>3, <1>t DEF PthreadCreate, C11TypeOK, OwnerHasBlock, OneOwnerEach, OwnsWrapper, WrapperWritten
  <2>4. ReadInOrder' /\ RunsItsOwn'
    BY <1>3, <1>t DEF PthreadCreate, C11TypeOK, WrapperWritten, ReadInOrder, RunsItsOwn
  <2>5. PointerHoldsResult' /\ JoinTellsResult'
    BY <1>3, <1>t DEF PthreadCreate, C11TypeOK, OwnerHasBlock, PointerHoldsResult, JoinTellsResult
  <2> QED
    BY <2>1, <2>2, <2>3, <2>4, <2>5, <1>T DEF C11Inv
<1>4. ASSUME NEW c \in Client, PthreadCreateFails(c) PROVE C11Inv'
  <2>1. OwnerHasBlock'
    BY <1>4, <1>t DEF PthreadCreateFails, C11TypeOK, OwnerHasBlock, OwnsWrapper
  <2>2. OneOwnerEach'
    BY <1>4, <1>t DEF PthreadCreateFails, C11TypeOK, OwnerHasBlock, OneOwnerEach, OwnsWrapper
  <2>3. WrapperWritten'
    BY <1>4, <1>t DEF PthreadCreateFails, C11TypeOK, OwnerHasBlock, OneOwnerEach, OwnsWrapper, WrapperWritten
  <2>4. ReadInOrder' /\ RunsItsOwn'
    BY <1>4, <1>t DEF PthreadCreateFails, C11TypeOK, WrapperWritten, ReadInOrder, RunsItsOwn
  <2>5. PointerHoldsResult' /\ JoinTellsResult'
    BY <1>4, <1>t DEF PthreadCreateFails, C11TypeOK, OwnerHasBlock, PointerHoldsResult, JoinTellsResult
  <2> QED
    BY <2>1, <2>2, <2>3, <2>4, <2>5, <1>T DEF C11Inv
<1>5. ASSUME NEW c \in Client, ReadFunc(c) PROVE C11Inv'
  <2>1. OwnerHasBlock'
    BY <1>5, <1>t DEF ReadFunc, C11TypeOK, OwnerHasBlock, OwnsWrapper
  <2>2. OneOwnerEach'
    BY <1>5, <1>t DEF ReadFunc, C11TypeOK, OwnerHasBlock, OneOwnerEach, OwnsWrapper
  <2>3. WrapperWritten'
    BY <1>5, <1>t DEF ReadFunc, C11TypeOK, OwnerHasBlock, OneOwnerEach, OwnsWrapper, WrapperWritten
  <2>4. ReadInOrder' /\ RunsItsOwn'
    BY <1>5, <1>t DEF ReadFunc, C11TypeOK, WrapperWritten, ReadInOrder, RunsItsOwn
  <2>5. PointerHoldsResult' /\ JoinTellsResult'
    BY <1>5, <1>t DEF ReadFunc, C11TypeOK, OwnerHasBlock, PointerHoldsResult, JoinTellsResult
  <2> QED
    BY <2>1, <2>2, <2>3, <2>4, <2>5, <1>T DEF C11Inv
<1>6. ASSUME NEW c \in Client, ReadArg(c) PROVE C11Inv'
  <2>1. OwnerHasBlock'
    BY <1>6, <1>t DEF ReadArg, C11TypeOK, OwnerHasBlock, OwnsWrapper
  <2>2. OneOwnerEach'
    BY <1>6, <1>t DEF ReadArg, C11TypeOK, OwnerHasBlock, OneOwnerEach, OwnsWrapper
  <2>3. WrapperWritten'
    BY <1>6, <1>t DEF ReadArg, C11TypeOK, OwnerHasBlock, OneOwnerEach, OwnsWrapper, WrapperWritten
  <2>4. ReadInOrder' /\ RunsItsOwn'
    BY <1>6, <1>t DEF ReadArg, C11TypeOK, WrapperWritten, ReadInOrder, RunsItsOwn
  <2>5. PointerHoldsResult' /\ JoinTellsResult'
    BY <1>6, <1>t DEF ReadArg, C11TypeOK, OwnerHasBlock, PointerHoldsResult, JoinTellsResult
  <2> QED
    BY <2>1, <2>2, <2>3, <2>4, <2>5, <1>T DEF C11Inv
<1>7. ASSUME NEW c \in Client, FreeWrapper(c) PROVE C11Inv'
  <2>1. OwnerHasBlock'
    BY <1>7, <1>t DEF FreeWrapper, C11TypeOK, OwnerHasBlock, OwnsWrapper
  <2>2. OneOwnerEach'
    BY <1>7, <1>t DEF FreeWrapper, C11TypeOK, OwnerHasBlock, OneOwnerEach, OwnsWrapper
  <2>3. WrapperWritten'
    BY <1>7, <1>t DEF FreeWrapper, C11TypeOK, OwnerHasBlock, OneOwnerEach, OwnsWrapper, WrapperWritten
  <2>4. ReadInOrder' /\ RunsItsOwn'
    BY <1>7, <1>t DEF FreeWrapper, C11TypeOK, WrapperWritten, ReadInOrder, RunsItsOwn
  <2>5. PointerHoldsResult' /\ JoinTellsResult'
    BY <1>7, <1>t DEF FreeWrapper, C11TypeOK, OwnerHasBlock, PointerHoldsResult, JoinTellsResult
  <2> QED
    BY <2>1, <2>2, <2>3, <2>4, <2>5, <1>T DEF C11Inv
<1>8. ASSUME NEW c \in Client, End(c) PROVE C11Inv'
  <2>1. OwnerHasBlock'
    BY <1>8, <1>t DEF End, C11TypeOK, OwnerHasBlock, OwnsWrapper
  <2>2. OneOwnerEach'
    BY <1>8, <1>t DEF End, C11TypeOK, OwnerHasBlock, OneOwnerEach, OwnsWrapper
  <2>3. WrapperWritten'
    BY <1>8, <1>t DEF End, C11TypeOK, OwnerHasBlock, OneOwnerEach, OwnsWrapper, WrapperWritten
  <2>4. ReadInOrder' /\ RunsItsOwn'
    BY <1>8, <1>t DEF End, C11TypeOK, WrapperWritten, ReadInOrder, RunsItsOwn
  <2>5. PointerHoldsResult' /\ JoinTellsResult'
    BY <1>8, <1>t, PointerRoundTrip DEF End, C11TypeOK, OwnerHasBlock, PointerHoldsResult, JoinTellsResult
  <2> QED
    BY <2>1, <2>2, <2>3, <2>4, <2>5, <1>T DEF C11Inv
<1>9. ASSUME NEW c \in Client, ThrdJoin(c) PROVE C11Inv'
  <2>1. OwnerHasBlock'
    BY <1>9, <1>t DEF ThrdJoin, C11TypeOK, OwnerHasBlock, OwnsWrapper
  <2>2. OneOwnerEach'
    BY <1>9, <1>t DEF ThrdJoin, C11TypeOK, OwnerHasBlock, OneOwnerEach, OwnsWrapper
  <2>3. WrapperWritten'
    BY <1>9, <1>t DEF ThrdJoin, C11TypeOK, OwnerHasBlock, OneOwnerEach, OwnsWrapper, WrapperWritten
  <2>4. ReadInOrder' /\ RunsItsOwn'
    BY <1>9, <1>t DEF ThrdJoin, C11TypeOK, WrapperWritten, ReadInOrder, RunsItsOwn
  <2>5. PointerHoldsResult' /\ JoinTellsResult'
    BY <1>9, <1>t DEF ThrdJoin, C11TypeOK, OwnerHasBlock, PointerHoldsResult, JoinTellsResult
  <2> QED
    BY <2>1, <2>2, <2>3, <2>4, <2>5, <1>T DEF C11Inv
<1>10. ASSUME NEW c \in Client, ThrdJoinFails(c) PROVE C11Inv'
  <2>1. OwnerHasBlock'
    BY <1>10, <1>t DEF ThrdJoinFails, C11TypeOK, OwnerHasBlock, OwnsWrapper
  <2>2. OneOwnerEach'
    BY <1>10, <1>t DEF ThrdJoinFails, C11TypeOK, OwnerHasBlock, OneOwnerEach, OwnsWrapper
  <2>3. WrapperWritten'
    BY <1>10, <1>t DEF ThrdJoinFails, C11TypeOK, OwnerHasBlock, OneOwnerEach, OwnsWrapper, WrapperWritten
  <2>4. ReadInOrder' /\ RunsItsOwn'
    BY <1>10, <1>t DEF ThrdJoinFails, C11TypeOK, WrapperWritten, ReadInOrder, RunsItsOwn
  <2>5. PointerHoldsResult' /\ JoinTellsResult'
    BY <1>10, <1>t DEF ThrdJoinFails, C11TypeOK, OwnerHasBlock, PointerHoldsResult, JoinTellsResult
  <2> QED
    BY <2>1, <2>2, <2>3, <2>4, <2>5, <1>T DEF C11Inv
<1>11. ASSUME NEW c \in Client, ThrdDetach(c) PROVE C11Inv'
  <2>1. OwnerHasBlock'
    BY <1>11, <1>t DEF ThrdDetach, C11TypeOK, OwnerHasBlock, OwnsWrapper
  <2>2. OneOwnerEach'
    BY <1>11, <1>t DEF ThrdDetach, C11TypeOK, OwnerHasBlock, OneOwnerEach, OwnsWrapper
  <2>3. WrapperWritten'
    BY <1>11, <1>t DEF ThrdDetach, C11TypeOK, OwnerHasBlock, OneOwnerEach, OwnsWrapper, WrapperWritten
  <2>4. ReadInOrder' /\ RunsItsOwn'
    BY <1>11, <1>t DEF ThrdDetach, C11TypeOK, WrapperWritten, ReadInOrder, RunsItsOwn
  <2>5. PointerHoldsResult' /\ JoinTellsResult'
    BY <1>11, <1>t DEF ThrdDetach, C11TypeOK, OwnerHasBlock, PointerHoldsResult, JoinTellsResult
  <2> QED
    BY <2>1, <2>2, <2>3, <2>4, <2>5, <1>T DEF C11Inv
<1> QED
  BY <1>0, <1>1, <1>2, <1>3, <1>4, <1>5, <1>6, <1>7, <1>8, <1>9, <1>10, <1>11 DEF C11Next

LEMMA C11Invariant == C11Spec => []C11Inv
  BY C11InitHolds, C11Preserved, PTL DEF C11Spec

-----------------------------------------------------------------------------
(* Every variable of thrd_create(), _thrd_trampoline() and thrd_join() keeps *)
(* its type: in particular the pointer that carries an int is a pointer.     *)
THEOREM C11Types == C11Spec => []C11TypeOK
<1>1. C11Inv => C11TypeOK
  BY DEF C11Inv
<1> QED
  BY C11Invariant, <1>1, PTL

(* The wrapper that thrd_create() allocates has one owner at any time, until *)
(* it is freed: it is neither lost, nor freed twice, nor used afterwards.    *)
THEOREM WrapperHasOneOwner == C11Spec => []OneOwnerEach
<1>1. C11Inv => OneOwnerEach
  BY DEF C11Inv
<1> QED
  BY C11Invariant, <1>1, PTL

(* Whatever blocks malloc() hands out again, a thread calls the function     *)
(* that thrd_create() was given for it, with its argument.                   *)
THEOREM ThreadRunsItsOwn == C11Spec => []RunsItsOwn
<1>1. C11Inv => RunsItsOwn
  BY DEF C11Inv
<1> QED
  BY C11Invariant, <1>1, PTL

(* The result of a thread reaches thrd_join() through the pointer.           *)
THEOREM JoinIsTruthful == C11Spec => []JoinTellsResult
<1>1. C11Inv => JoinTellsResult
  BY DEF C11Inv
<1> QED
  BY C11Invariant, <1>1, PTL

-----------------------------------------------------------------------------
(* C11Mutex.  What the codes say is inductive with the types and with what   *)
(* is true of a thread in a wait: it has lent its one lock to pthreads.      *)
(* Whoever else counts a lock is the owner, so nobody else can be given it.  *)
MtxBelief ==
  \A t \in Thread :
    IF call[t] \in {"none", "lock", "timedlock"}
    THEN has[t] = IF owner = t THEN depth ELSE 0
    ELSE has[t] = 1 /\ owner # t

MtxInv == MtxTypeOK /\ MtxBelief

LEMMA MtxInitHolds == MtxInit => MtxInv
  BY MtxAssumption DEF MtxInit, MtxInv, MtxTypeOK, MtxBelief, Calls, Codes

LEMMA MtxPreserved ==
  ASSUME MtxInv, [MtxNext]_mtxVars
  PROVE  MtxInv'
<1>t. MtxTypeOK /\ MtxBelief
  BY DEF MtxInv
<1> USE MtxAssumption DEF Enter, Tell, Gains, Lock, CanLock, Unlock, MayLock, Calls, Codes
<1>0. CASE UNCHANGED mtxVars
  BY <1>0, <1>t DEF mtxVars, MtxInv, MtxTypeOK, MtxBelief
<1>1. ASSUME MtxInitCall PROVE MtxInv'
  <2>1. MtxTypeOK'
    BY <1>1, <1>t DEF MtxInitCall, MtxTypeOK, MtxBelief
  <2>2. MtxBelief'
    BY <1>1, <1>t DEF MtxInitCall, MtxTypeOK, MtxBelief
  <2> QED
    BY <2>1, <2>2 DEF MtxInv
<1>2. ASSUME NEW t \in Thread, CallLock(t) PROVE MtxInv'
  <2>1. MtxTypeOK'
    BY <1>2, <1>t DEF CallLock, MtxTypeOK, MtxBelief
  <2>2. MtxBelief'
    BY <1>2, <1>t DEF CallLock, MtxTypeOK, MtxBelief
  <2> QED
    BY <2>1, <2>2 DEF MtxInv
<1>3. ASSUME NEW t \in Thread, MtxLock(t) PROVE MtxInv'
  <2>1. MtxTypeOK'
    BY <1>3, <1>t DEF MtxLock, MtxTypeOK, MtxBelief
  <2>2. MtxBelief'
    BY <1>3, <1>t DEF MtxLock, MtxTypeOK, MtxBelief
  <2> QED
    BY <2>1, <2>2 DEF MtxInv
<1>4. ASSUME NEW t \in Thread, MtxTryLock(t) PROVE MtxInv'
  <2>1. MtxTypeOK'
    BY <1>4, <1>t DEF MtxTryLock, MtxTypeOK, MtxBelief
  <2>2. MtxBelief'
    BY <1>4, <1>t DEF MtxTryLock, MtxTypeOK, MtxBelief
  <2> QED
    BY <2>1, <2>2 DEF MtxInv
<1>5. ASSUME NEW t \in Thread, MtxTimedLock(t) PROVE MtxInv'
  <2>1. MtxTypeOK'
    BY <1>5, <1>t DEF MtxTimedLock, MtxTypeOK, MtxBelief
  <2>2. MtxBelief'
    BY <1>5, <1>t DEF MtxTimedLock, MtxTypeOK, MtxBelief
  <2> QED
    BY <2>1, <2>2 DEF MtxInv
<1>6. ASSUME NEW t \in Thread, MtxUnlock(t) PROVE MtxInv'
  <2>1. MtxTypeOK'
    BY <1>6, <1>t DEF MtxUnlock, MtxTypeOK, MtxBelief
  <2>2. MtxBelief'
    BY <1>6, <1>t DEF MtxUnlock, MtxTypeOK, MtxBelief
  <2> QED
    BY <2>1, <2>2 DEF MtxInv
<1>7. ASSUME NEW t \in Thread, CndCall(t) PROVE MtxInv'
  <2>1. MtxTypeOK'
    BY <1>7, <1>t DEF CndCall, MtxTypeOK, MtxBelief
  <2>2. MtxBelief'
    BY <1>7, <1>t DEF CndCall, MtxTypeOK, MtxBelief
  <2> QED
    BY <2>1, <2>2 DEF MtxInv
<1>8. ASSUME NEW t \in Thread, Wake(t) PROVE MtxInv'
  <2>1. MtxTypeOK'
    BY <1>8, <1>t DEF Wake, MtxTypeOK, MtxBelief
  <2>2. MtxBelief'
    BY <1>8, <1>t DEF Wake, MtxTypeOK, MtxBelief
  <2> QED
    BY <2>1, <2>2 DEF MtxInv
<1>9. ASSUME NEW t \in Thread, CndReturn(t) PROVE MtxInv'
  <2>1. MtxTypeOK'
    BY <1>9, <1>t DEF CndReturn, MtxTypeOK, MtxBelief
  <2>2. MtxBelief'
    BY <1>9, <1>t DEF CndReturn, MtxTypeOK, MtxBelief
  <2> QED
    BY <2>1, <2>2 DEF MtxInv
<1>10. ASSUME NEW t \in Thread, CndSignal(t) PROVE MtxInv'
  <2>1. MtxTypeOK'
    BY <1>10, <1>t DEF CndSignal, MtxTypeOK, MtxBelief
  <2>2. MtxBelief'
    BY <1>10, <1>t DEF CndSignal, MtxTypeOK, MtxBelief
  <2> QED
    BY <2>1, <2>2 DEF MtxInv
<1>11. ASSUME NEW t \in Thread, PthreadFails(t) PROVE MtxInv'
  <2>1. MtxTypeOK'
    BY <1>11, <1>t DEF PthreadFails, MtxTypeOK, MtxBelief
  <2>2. MtxBelief'
    BY <1>11, <1>t DEF PthreadFails, MtxTypeOK, MtxBelief
  <2> QED
    BY <2>1, <2>2 DEF MtxInv
<1>12. ASSUME MtxDestroy PROVE MtxInv'
  <2>1. MtxTypeOK'
    BY <1>12, <1>t DEF MtxDestroy, MtxTypeOK, MtxBelief
  <2>2. MtxBelief'
    BY <1>12, <1>t DEF MtxDestroy, MtxTypeOK, MtxBelief
  <2> QED
    BY <2>1, <2>2 DEF MtxInv
<1> QED
  BY <1>0, <1>1, <1>2, <1>3, <1>4, <1>5, <1>6, <1>7, <1>8, <1>9, <1>10, <1>11, <1>12
  DEF MtxNext, MtxStep

LEMMA MtxInvariant == MtxSpec => []MtxInv
  BY MtxInitHolds, MtxPreserved, PTL DEF MtxSpec

(* The mutex of pthreads is never locked more often than the clients of      *)
(* mtx_lock() may, and only threads in a wait sleep.                         *)
THEOREM MtxTypes == MtxSpec => []MtxTypeOK
<1>1. MtxInv => MtxTypeOK
  BY DEF MtxInv
<1> QED
  BY MtxInvariant, <1>1, PTL

(* The thrd_ codes of threads.h tell every thread how often it has the       *)
(* mutex, after any mixture of locks, time limits, waits and failures.       *)
THEOREM CodesAreTruthful == MtxSpec => []CodesTellTheTruth
<1>1. MtxInv => CodesTellTheTruth
  BY DEF MtxInv, MtxBelief, CodesTellTheTruth
<1> QED
  BY MtxInvariant, <1>1, PTL

-----------------------------------------------------------------------------
(* uuid/uuid.h. The GUIDs whose first number has 32 bits, as that of Windows *)
(* has: Nil and those that CoCreateGuid() leaves are of them.                *)
Known == {g \in Guid : g.Data1 \div 65536 \in Word}

LEMMA AreKnown == Guids \cup {Nil} \subseteq Known
<1>1. Nil \in Guid
  BY SMT DEF Guid, Nil, Word, Byte
<1>2. Nil.Data1 \div 65536 \in Word
  BY SMT DEF Nil, Word
<1> QED
  BY SMT, <1>1, <1>2, UuidAssumption DEF Known

(* A number is the sum of the bytes (unsigned char)(data >> k) leaves of it. *)
LEMMA AByte ==
  ASSUME NEW d \in Nat, NEW k \in Nat \ {0}
  PROVE  ByteOf(d, k) \in Byte
<1>1. d \div k \in Nat
  BY SMT
<1> QED
  BY SMT, <1>1 DEF ByteOf, Byte

LEMMA Quad ==
  ASSUME NEW d \in Nat, d \div 65536 \in Word
  PROVE  d = 16777216 * ByteOf(d, 16777216) + 65536 * ByteOf(d, 65536)
               + 256 * ByteOf(d, 256) + ByteOf(d, 1)
<1>1. d \div 65536 <= 65535
  BY SMT DEF Word
<1>2. ByteOf(d, 1) = d % 256
  BY SMT DEF ByteOf
<1> QED
  BY SMTT(60), <1>1, <1>2 DEF ByteOf

LEMMA Pair ==
  ASSUME NEW w \in Word
  PROVE  w \in Nat /\ w = 256 * ByteOf(w, 256) + ByteOf(w, 1)
<1>1. w \in Nat /\ w <= 65535
  BY SMT DEF Word
<1>2. ByteOf(w, 1) = w % 256
  BY SMT, <1>1 DEF ByteOf
<1> QED
  BY SMTT(60), <1>1, <1>2 DEF ByteOf

(* A function from 1..n is a sequence of n elements, and the other way round. *)
LEMMA IsSeq ==
  ASSUME NEW S, NEW n \in Nat, NEW f \in [1..n -> S]
  PROVE  f \in Seq(S) /\ Len(f) = n
<1>1. f \in Seq(S)
  BY SMT, SeqDef
<1> QED
  BY SMT, <1>1, LenProperties

LEMMA IsFun ==
  ASSUME NEW S, NEW n \in Nat, NEW s \in Seq(S), Len(s) = n
  PROVE  s \in [1..n -> S]
  BY LenProperties

(* The sixteen bytes of a GUID, one by one, and the fields they add up to.   *)
LEMMA BytesAt ==
  ASSUME NEW g \in Known
  PROVE  /\ Bytes(g) \in [1..16 -> Byte]
         /\ Bytes(g)[1] = ByteOf(g.Data1, 16777216) /\ Bytes(g)[2] = ByteOf(g.Data1, 65536)
         /\ Bytes(g)[3] = ByteOf(g.Data1, 256) /\ Bytes(g)[4] = ByteOf(g.Data1, 1)
         /\ Bytes(g)[5] = ByteOf(g.Data2, 256) /\ Bytes(g)[6] = ByteOf(g.Data2, 1)
         /\ Bytes(g)[7] = ByteOf(g.Data3, 256) /\ Bytes(g)[8] = ByteOf(g.Data3, 1)
         /\ \A i \in 1..8 : Bytes(g)[8 + i] = g.Data4[i]
<1> DEFINE front == <<ByteOf(g.Data1, 16777216), ByteOf(g.Data1, 65536),
                      ByteOf(g.Data1, 256), ByteOf(g.Data1, 1),
                      ByteOf(g.Data2, 256), ByteOf(g.Data2, 1),
                      ByteOf(g.Data3, 256), ByteOf(g.Data3, 1)>>
<1>0. g \in Guid
  BY SMT DEF Known
<1>1. g.Data1 \in Nat /\ g.Data2 \in Word /\ g.Data3 \in Word /\ g.Data4 \in [1..8 -> Byte]
  BY SMT, <1>0 DEF Guid
<1>2. g.Data1 \in Nat /\ g.Data2 \in Nat /\ g.Data3 \in Nat /\ g.Data4 \in [1..8 -> Byte]
  BY <1>1, Pair
<1>3. g.Data4 \in Seq(Byte) /\ Len(g.Data4) = 8
  <2> 8 \in Nat
    BY SMT
  <2> QED
    BY <1>2, IsSeq
<1>4. \A d \in Nat : /\ ByteOf(d, 16777216) \in Byte /\ ByteOf(d, 65536) \in Byte
                     /\ ByteOf(d, 256) \in Byte /\ ByteOf(d, 1) \in Byte
  BY SMT, AByte
<1>5. front \in Seq(Byte) /\ Len(front) = 8
  BY SMT, <1>2, <1>4
<1>6. Bytes(g) = front \o g.Data4
  BY SMT DEF Bytes
<1>7. /\ Bytes(g) \in Seq(Byte) /\ Len(Bytes(g)) = 16
      /\ \A i \in 1..16 : Bytes(g)[i] = IF i <= 8 THEN front[i] ELSE g.Data4[i - 8]
  <2>1. /\ front \o g.Data4 \in Seq(Byte) /\ Len(front \o g.Data4) = Len(front) + Len(g.Data4)
        /\ \A i \in 1..Len(front) + Len(g.Data4) :
             (front \o g.Data4)[i] =
               IF i <= Len(front) THEN front[i] ELSE g.Data4[i - Len(front)]
    <3> HIDE DEF front
    <3> QED
      BY <1>3, <1>5, ConcatProperties
  <2> HIDE DEF front
  <2> QED
    BY SMT, <1>3, <1>5, <1>6, <2>1
<1>8. Bytes(g) \in [1..16 -> Byte]
  <2>1. Bytes(g) \in Seq(Byte) /\ Len(Bytes(g)) = 16
    BY SMT, <1>7
  <2> HIDE DEF front
  <2>2. 16 \in Nat
    BY SMT
  <2> QED
    BY Zenon, <2>1, <2>2, IsFun
<1>9. \A i \in 1..8 : Bytes(g)[8 + i] = g.Data4[i]
  <2> TAKE i \in 1..8
  <2> QED
    BY SMT, <1>7
<1> QED
  BY SMT, <1>7, <1>8, <1>9

LEMMA FieldsOf ==
  ASSUME NEW g \in Known, NEW u, u = Bytes(g)
  PROVE  /\ u \in [1..16 -> Byte]
         /\ g.Data1 = 16777216 * u[1] + 65536 * u[2] + 256 * u[3] + u[4]
         /\ g.Data2 = 256 * u[5] + u[6]
         /\ g.Data3 = 256 * u[7] + u[8]
         /\ g.Data4 \in [1..8 -> Byte] /\ \A i \in 1..8 : g.Data4[i] = u[8 + i]
<1>1. g \in Guid /\ g.Data1 \div 65536 \in Word
  BY SMT DEF Known
<1>2. g.Data1 \in Nat /\ g.Data2 \in Word /\ g.Data3 \in Word /\ g.Data4 \in [1..8 -> Byte]
  BY SMT, <1>1 DEF Guid
<1>3. g.Data1 = 16777216 * ByteOf(g.Data1, 16777216) + 65536 * ByteOf(g.Data1, 65536)
                  + 256 * ByteOf(g.Data1, 256) + ByteOf(g.Data1, 1)
  BY SMT, <1>1, <1>2, Quad
<1>4. /\ g.Data2 = 256 * ByteOf(g.Data2, 256) + ByteOf(g.Data2, 1)
      /\ g.Data3 = 256 * ByteOf(g.Data3, 256) + ByteOf(g.Data3, 1)
  BY SMT, <1>2, Pair
<1> QED
  BY SMT, <1>2, <1>3, <1>4, BytesAt

(* Different GUIDs have different bytes.                                     *)
LEMMA BytesTell ==
  ASSUME NEW g \in Known, NEW h \in Known
  PROVE  Bytes(g) = Bytes(h) <=> g = h
<1>1. SUFFICES ASSUME Bytes(g) = Bytes(h) PROVE g = h
  BY SMT
<1>2. g \in Guid /\ h \in Guid
  BY SMT DEF Known
<1>3. g.Data1 = h.Data1 /\ g.Data2 = h.Data2 /\ g.Data3 = h.Data3
  BY SMT, <1>1, FieldsOf
<1>4. /\ g.Data4 \in [1..8 -> Byte] /\ h.Data4 \in [1..8 -> Byte]
      /\ \A i \in 1..8 : g.Data4[i] = h.Data4[i]
  BY SMT, <1>1, FieldsOf
<1>5. g.Data4 = h.Data4
  BY SMT, <1>4
<1> QED
  BY SMT, <1>2, <1>3, <1>5 DEF Guid

(* The bytes are ordered as the fields are: the first byte that differs is   *)
(* of the first field that differs.                                          *)
LEMMA BytesOrder ==
  ASSUME NEW g \in Known, NEW h \in Known
  PROVE  BytesLess(Bytes(g), Bytes(h)) <=> GuidLess(g, h)
<1> DEFINE u == Bytes(g)
           w == Bytes(h)
<1>1. /\ u \in [1..16 -> Byte] /\ w \in [1..16 -> Byte]
      /\ \A i \in 1..8 : g.Data4[i] = u[8 + i] /\ h.Data4[i] = w[8 + i]
  BY SMT, FieldsOf
<1>2. \A i \in 1..16 : u[i] \in Byte /\ w[i] \in Byte
  BY SMT, <1>1
<1>3. /\ g.Data1 = 16777216 * u[1] + 65536 * u[2] + 256 * u[3] + u[4]
      /\ h.Data1 = 16777216 * w[1] + 65536 * w[2] + 256 * w[3] + w[4]
  BY SMT, FieldsOf
<1>4. /\ g.Data2 = 256 * u[5] + u[6] /\ h.Data2 = 256 * w[5] + w[6]
      /\ g.Data3 = 256 * u[7] + u[8] /\ h.Data3 = 256 * w[7] + w[8]
  BY SMT, FieldsOf
<1> HIDE DEF u, w
<1>5. /\ g.Data1 < h.Data1 <=> \/ u[1] < w[1]
                               \/ u[1] = w[1] /\ u[2] < w[2]
                               \/ u[1] = w[1] /\ u[2] = w[2] /\ u[3] < w[3]
                               \/ u[1] = w[1] /\ u[2] = w[2] /\ u[3] = w[3] /\ u[4] < w[4]
      /\ g.Data1 = h.Data1 <=> u[1] = w[1] /\ u[2] = w[2] /\ u[3] = w[3] /\ u[4] = w[4]
  <2> DEFINE a1 == u[1]  a2 == u[2]  a3 == u[3]  a4 == u[4]  d == g.Data1
             b1 == w[1]  b2 == w[2]  b3 == w[3]  b4 == w[4]  e == h.Data1
  <2>1. /\ a1 \in Byte /\ a2 \in Byte /\ a3 \in Byte /\ a4 \in Byte
        /\ b1 \in Byte /\ b2 \in Byte /\ b3 \in Byte /\ b4 \in Byte
    BY SMT, <1>2
  <2>2. /\ d = 16777216 * a1 + 65536 * a2 + 256 * a3 + a4
        /\ e = 16777216 * b1 + 65536 * b2 + 256 * b3 + b4
    BY SMT, <1>3
  <2>3. /\ d < e <=> \/ a1 < b1
                     \/ a1 = b1 /\ a2 < b2
                     \/ a1 = b1 /\ a2 = b2 /\ a3 < b3
                     \/ a1 = b1 /\ a2 = b2 /\ a3 = b3 /\ a4 < b4
        /\ d = e <=> a1 = b1 /\ a2 = b2 /\ a3 = b3 /\ a4 = b4
    <3> HIDE DEF a1, a2, a3, a4, b1, b2, b3, b4, d, e
    <3> QED
      BY SMTT(30), <2>1, <2>2 DEF Byte
  <2> QED
    BY SMT, <2>3
<1>6. /\ g.Data2 < h.Data2 <=> u[5] < w[5] \/ (u[5] = w[5] /\ u[6] < w[6])
      /\ g.Data2 = h.Data2 <=> u[5] = w[5] /\ u[6] = w[6]
      /\ g.Data3 < h.Data3 <=> u[7] < w[7] \/ (u[7] = w[7] /\ u[8] < w[8])
      /\ g.Data3 = h.Data3 <=> u[7] = w[7] /\ u[8] = w[8]
  <2> DEFINE a1 == u[5]  a2 == u[6]  a3 == u[7]  a4 == u[8]  d == g.Data2  e == h.Data2
             b1 == w[5]  b2 == w[6]  b3 == w[7]  b4 == w[8]  f == g.Data3  k == h.Data3
  <2>1. /\ a1 \in Byte /\ a2 \in Byte /\ a3 \in Byte /\ a4 \in Byte
        /\ b1 \in Byte /\ b2 \in Byte /\ b3 \in Byte /\ b4 \in Byte
    BY SMT, <1>2
  <2>2. d = 256 * a1 + a2 /\ e = 256 * b1 + b2 /\ f = 256 * a3 + a4 /\ k = 256 * b3 + b4
    BY SMT, <1>4
  <2>3. /\ d < e <=> a1 < b1 \/ (a1 = b1 /\ a2 < b2)
        /\ d = e <=> a1 = b1 /\ a2 = b2
        /\ f < k <=> a3 < b3 \/ (a3 = b3 /\ a4 < b4)
        /\ f = k <=> a3 = b3 /\ a4 = b4
    <3> HIDE DEF a1, a2, a3, a4, b1, b2, b3, b4, d, e, f, k
    <3> QED
      BY SMTT(30), <2>1, <2>2 DEF Byte
  <2> QED
    BY SMT, <2>3
<1>7. ASSUME BytesLess(u, w) PROVE GuidLess(g, h)
  <2>1. PICK i \in 1..16 : u[i] < w[i] /\ \A k \in 1..i - 1 : u[k] = w[k]
    BY SMT, <1>7 DEF BytesLess
  <2>2. CASE i \in 1..4
    BY SMT, <2>1, <2>2, <1>5 DEF GuidLess
  <2>3. CASE i \in 5..6
    BY SMT, <2>1, <2>3, <1>5, <1>6 DEF GuidLess
  <2>4. CASE i \in 7..8
    BY SMT, <2>1, <2>4, <1>5, <1>6 DEF GuidLess
  <2>5. CASE i \in 9..16
    <3>1. g.Data1 = h.Data1 /\ g.Data2 = h.Data2 /\ g.Data3 = h.Data3
      BY SMT, <2>1, <2>5, <1>5, <1>6
    <3>2. i - 8 \in 1..8 /\ g.Data4[i - 8] < h.Data4[i - 8]
      <4>1. i - 8 \in 1..8 /\ 8 + (i - 8) = i
        BY SMT, <2>5
      <4> QED
        BY SMT, <4>1, <2>1, <1>1
    <3>3. \A k \in 1..i - 8 - 1 : g.Data4[k] = h.Data4[k]
      <4> TAKE k \in 1..i - 8 - 1
      <4>1. k \in 1..8 /\ 8 + k \in 1..i - 1
        BY SMT, <2>5
      <4> QED
        BY SMT, <4>1, <2>1, <1>1
    <3> QED
      BY SMT, <3>1, <3>2, <3>3 DEF GuidLess
  <2> QED
    BY SMT, <2>2, <2>3, <2>4, <2>5
<1>8. ASSUME GuidLess(g, h) PROVE BytesLess(u, w)
  <2>1. CASE g.Data1 < h.Data1
    BY SMT, <2>1, <1>2, <1>5 DEF BytesLess
  <2>2. CASE g.Data1 = h.Data1 /\ g.Data2 < h.Data2
    BY SMT, <2>2, <1>2, <1>5, <1>6 DEF BytesLess
  <2>3. CASE g.Data1 = h.Data1 /\ g.Data2 = h.Data2 /\ g.Data3 < h.Data3
    BY SMT, <2>3, <1>2, <1>5, <1>6 DEF BytesLess
  <2>4. CASE /\ <<g.Data1, g.Data2, g.Data3>> = <<h.Data1, h.Data2, h.Data3>>
             /\ \E i \in 1..8 :
                  g.Data4[i] < h.Data4[i] /\ \A k \in 1..i - 1 : g.Data4[k] = h.Data4[k]
    <3>1. PICK i \in 1..8 :
            g.Data4[i] < h.Data4[i] /\ \A k \in 1..i - 1 : g.Data4[k] = h.Data4[k]
      BY SMT, <2>4
    <3>2. \A k \in 1..8 : u[k] = w[k]
      <4>1. g.Data1 = h.Data1 /\ g.Data2 = h.Data2 /\ g.Data3 = h.Data3
        BY SMT, <2>4
      <4> QED
        BY SMT, <4>1, <1>5, <1>6
    <3>3. 8 + i \in 1..16 /\ u[8 + i] < w[8 + i]
      BY SMT, <3>1, <1>1
    <3>4. \A k \in 1..(8 + i) - 1 : u[k] = w[k]
      <4> TAKE k \in 1..(8 + i) - 1
      <4>1. CASE k \in 1..8
        BY SMT, <4>1, <3>2
      <4>2. CASE k \notin 1..8
        <5>1. k - 8 \in 1..i - 1 /\ k - 8 \in 1..8 /\ 8 + (k - 8) = k
          BY SMT, <4>2
        <5> QED
          BY SMT, <5>1, <3>1, <1>1
      <4> QED
        BY SMT, <4>1, <4>2
    <3> QED
      BY SMT, <3>3, <3>4 DEF BytesLess
  <2> QED
    BY SMT, <1>8, <2>1, <2>2, <2>3, <2>4 DEF GuidLess
<1> QED
  BY SMT, <1>7, <1>8 DEF u, w

(* Inductive: the bytes of every variable are those of the GUID noted for it. *)
VariablesHold ==
  /\ uuid \in [Var -> {Bytes(g) : g \in Guids \cup {Nil}}]
  /\ from \in [Var -> Guids \cup {Nil}]
  /\ \A v \in Var : uuid[v] = Bytes(from[v])

LEMMA ZerosAre == Zeros = Bytes(Nil)
<1>1. Nil \in Known
  BY SMT, AreKnown
<1>2. Nil.Data1 = 0 /\ Nil.Data2 = 0 /\ Nil.Data3 = 0 /\ \A i \in 1..8 : Nil.Data4[i] = 0
  BY SMT DEF Nil
<1>3. ByteOf(0, 16777216) = 0 /\ ByteOf(0, 65536) = 0 /\ ByteOf(0, 256) = 0 /\ ByteOf(0, 1) = 0
  BY SMT DEF ByteOf
<1>4. Bytes(Nil) \in [1..16 -> Byte]
  BY SMT, <1>1, BytesAt
<1>5. \A i \in 1..8 : Bytes(Nil)[i] = 0
  BY SMT, <1>1, <1>2, <1>3, BytesAt
<1>6. \A i \in 1..8 : Bytes(Nil)[8 + i] = 0
  BY SMT, <1>1, <1>2, BytesAt
<1>7. \A i \in 1..16 : Bytes(Nil)[i] = 0
  <2> TAKE i \in 1..16
  <2>1. CASE i \in 1..8
    BY SMT, <2>1, <1>5
  <2>2. CASE i \notin 1..8
    <3>1. i - 8 \in 1..8 /\ 8 + (i - 8) = i
      BY SMT, <2>2
    <3> QED
      BY SMT, <3>1, <1>6
  <2> QED
    BY SMT, <2>1, <2>2
<1> QED
  BY SMT, <1>4, <1>7 DEF Zeros

LEMMA VariablesGoOn ==
  ASSUME VariablesHold, [UuidNext]_uuidVars
  PROVE  VariablesHold'
<1>1. ASSUME NEW v \in Var, NEW g \in Guids \cup {Nil}, Assign(v, Bytes(g), g)
      PROVE  VariablesHold'
  BY SMT, <1>1 DEF VariablesHold, Assign
<1>2. ASSUME NEW v \in Var, uuid_generate(v) PROVE VariablesHold'
  BY SMT, <1>1, <1>2 DEF uuid_generate
<1>3. ASSUME NEW v \in Var, uuid_clear(v) PROVE VariablesHold'
  BY SMT, <1>1, <1>3, ZerosAre DEF uuid_clear
<1>4. ASSUME NEW v \in Var, NEW w \in Var, uuid_copy(v, w) PROVE VariablesHold'
  <2>1. from[w] \in Guids \cup {Nil} /\ uuid[w] = Bytes(from[w])
    BY SMT, <1>4 DEF VariablesHold
  <2> QED
    BY SMT, <1>1, <1>4, <2>1 DEF uuid_copy
<1>5. ASSUME NEW v \in Var, NEW b \in Buffer, uuid_unparse(v, b) PROVE VariablesHold'
  BY SMT, <1>5 DEF uuid_unparse, VariablesHold
<1>6. ASSUME UNCHANGED uuidVars PROVE VariablesHold'
  BY SMT, <1>6 DEF uuidVars, VariablesHold
<1> QED
  BY SMT, <1>2, <1>3, <1>4, <1>5, <1>6 DEF UuidNext

LEMMA VariablesCompare == VariablesHold => ComparesGuids
<1> SUFFICES ASSUME VariablesHold, NEW v \in Var, NEW w \in Var
             PROVE  /\ uuid_compare(uuid[v], uuid[w]) = 0 <=> from[v] = from[w]
                    /\ uuid_compare(uuid[v], uuid[w]) < 0 <=> GuidLess(from[v], from[w])
                    /\ uuid_is_null(uuid[v]) <=> from[v] = Nil
  BY SMT DEF ComparesGuids
<1>1. /\ from[v] \in Known /\ from[w] \in Known /\ Nil \in Known
      /\ uuid[v] = Bytes(from[v]) /\ uuid[w] = Bytes(from[w])
  BY SMT, AreKnown DEF VariablesHold
<1>2. uuid[v] = uuid[w] <=> from[v] = from[w]
  BY SMT, <1>1, BytesTell
<1>3. BytesLess(uuid[v], uuid[w]) <=> GuidLess(from[v], from[w])
  BY SMT, <1>1, BytesOrder
<1>4. uuid[v] = uuid[w] => ~ BytesLess(uuid[v], uuid[w])
  <2>1. \A i \in 1..16 : uuid[w][i] \in Byte
    BY SMT, <1>1, BytesAt
  <2>2. SUFFICES ASSUME uuid[v] = uuid[w], BytesLess(uuid[v], uuid[w]) PROVE FALSE
    BY SMT
  <2>3. PICK i \in 1..16 : uuid[w][i] < uuid[w][i]
    BY SMT, <2>2 DEF BytesLess
  <2> DEFINE x == uuid[w][i]
  <2>4. x \in Byte /\ x < x
    BY <2>1, <2>3
  <2> HIDE DEF x
  <2> QED
    BY SMT, <2>4 DEF Byte
<1>5. uuid[v] = Zeros <=> from[v] = Nil
  BY SMT, <1>1, BytesTell, ZerosAre
<1>6. uuid_is_null(uuid[v]) <=> uuid[v] = Zeros
  BY SMT DEF uuid_is_null, uuid_compare
<1> QED
  BY SMT, <1>2, <1>3, <1>4, <1>5, <1>6 DEF uuid_compare

(* uuid_compare() orders any two variables as their GUIDs are ordered and    *)
(* uuid_is_null() finds just the GUID of zeros, for every set of GUIDs.      *)
THEOREM BytesCompareAsGuids == UuidSpec => []ComparesGuids
<1>1. UuidInit => VariablesHold
  BY SMT, ZerosAre DEF UuidInit, VariablesHold
<1>2. VariablesHold /\ [UuidNext]_uuidVars => VariablesHold'
  BY VariablesGoOn
<1> QED
  BY <1>1, <1>2, VariablesCompare, PTL DEF UuidSpec

(* The digits and the dash: the numbers texts are made of.                   *)
Chars == 0..16

LEMMA HexIs ==
  ASSUME NEW u \in [1..16 -> Byte], NEW i \in 1..16, NEW j \in i..16
  PROVE  Hex(u, i, j) \in Seq(Chars) /\ Len(Hex(u, i, j)) = 2 * (j - i + 1)
<1> DEFINE n == 2 * (j - i + 1)
<1>1. n \in Nat
  BY SMT
<1>2. Hex(u, i, j) \in [1..n -> Chars]
  <2>1. ASSUME NEW k \in 1..n
        PROVE  i + (k - 1) \div 2 \in 1..16
    BY SMT
  <2>2. \A b \in Byte : b \div 16 \in Chars /\ b % 16 \in Chars
    BY SMT DEF Byte, Chars
  <2>3. ASSUME NEW k \in 1..n
        PROVE  (IF k % 2 = 1 THEN u[i + (k - 1) \div 2] \div 16
                             ELSE u[i + (k - 1) \div 2] % 16) \in Chars
    <3>1. u[i + (k - 1) \div 2] \in Byte
      BY SMT, <2>1
    <3> QED
      BY SMT, <3>1, <2>2
  <2> QED
    BY SMT, <2>3 DEF Hex
<1> QED
  BY SMT, <1>1, <1>2, IsSeq

(* Equal digits come of equal bytes.                                         *)
LEMMA HexTells ==
  ASSUME NEW u \in [1..16 -> Byte], NEW w \in [1..16 -> Byte],
         NEW i \in 1..16, NEW j \in i..16, Hex(u, i, j) = Hex(w, i, j)
  PROVE  \A k \in i..j : u[k] = w[k]
<1> TAKE k \in i..j
<1> DEFINE p == 2 * (k - i) + 1
<1>1. /\ p \in 1..2 * (j - i + 1) /\ p + 1 \in 1..2 * (j - i + 1)
      /\ p % 2 = 1 /\ (p + 1) % 2 = 0
      /\ i + (p - 1) \div 2 = k /\ i + ((p + 1) - 1) \div 2 = k
  BY SMT
<1> HIDE DEF p
<1>2. /\ Hex(u, i, j)[p] = u[k] \div 16 /\ Hex(u, i, j)[p + 1] = u[k] % 16
      /\ Hex(w, i, j)[p] = w[k] \div 16 /\ Hex(w, i, j)[p + 1] = w[k] % 16
  BY SMT, <1>1 DEF Hex
<1>3. u[k] \in Byte /\ w[k] \in Byte /\ u[k] \div 16 = w[k] \div 16 /\ u[k] % 16 = w[k] % 16
  BY SMT, <1>2
<1>4. \A b \in Byte : b = 16 * (b \div 16) + (b % 16)
  BY SMT DEF Byte
<1> QED
  BY SMT, <1>3, <1>4

(* Two parts of a text with the dash between them.                           *)
Joined(s, h) == s \o Dash \o h

(* Joined texts are equal only if the parts are, when the last are as long.  *)
LEMMA JoinTells ==
  ASSUME NEW s \in Seq(Chars), NEW t \in Seq(Chars), NEW h \in Seq(Chars), NEW k \in Seq(Chars)
  PROVE  /\ Joined(s, h) \in Seq(Chars)
         /\ Len(Joined(s, h)) = Len(s) + 1 + Len(h)
         /\ Len(h) = Len(k) /\ Joined(s, h) = Joined(t, k) => s = t /\ h = k
<1>1. Dash \in Seq(Chars) /\ Len(Dash) = 1
  BY SMT DEF Dash, Chars
<1>2. \A a \in Seq(Chars) : /\ a \o Dash \in Seq(Chars) /\ Len(a \o Dash) = Len(a) + 1
                            /\ Len(a) \in Nat
  BY <1>1, ConcatProperties, LenProperties
<1>3. \A a, b \in Seq(Chars) : /\ a \o b \in Seq(Chars) /\ Len(a \o b) = Len(a) + Len(b)
  BY ConcatProperties
<1>4. ASSUME NEW a \in Seq(Chars), NEW b \in Seq(Chars), NEW c \in Seq(Chars),
             NEW d \in Seq(Chars), Len(c) = Len(d), a \o c = b \o d
      PROVE  a = b /\ c = d
  <2>1. Len(a) \in Nat /\ Len(b) \in Nat /\ Len(c) \in Nat
    BY <1>2
  <2>2. Len(a) = Len(b)
    BY SMT, <2>1, <1>3, <1>4
  <2>3. \A i \in 1..Len(a) + Len(c) :
          /\ (a \o c)[i] = IF i <= Len(a) THEN a[i] ELSE c[i - Len(a)]
          /\ (b \o d)[i] = IF i <= Len(a) THEN b[i] ELSE d[i - Len(a)]
    BY <2>2, <1>4, ConcatProperties
  <2>4. \A i \in 1..Len(a) : a[i] = b[i]
    BY SMT, <2>1, <2>3, <1>4
  <2>5. \A i \in 1..Len(c) : c[i] = d[i]
    <3> TAKE i \in 1..Len(c)
    <3> DEFINE q == Len(a) + i
    <3>1. q \in 1..Len(a) + Len(c) /\ ~ (q <= Len(a)) /\ q - Len(a) = i
      BY SMT, <2>1
    <3> HIDE DEF q
    <3>2. (a \o c)[q] = c[i] /\ (b \o d)[q] = d[i]
      BY <3>1, <2>3
    <3> QED
      BY <3>2, <1>4
  <2> QED
    BY <2>2, <2>4, <2>5, <1>4, SeqEqual
<1> DEFINE sd == s \o Dash
           td == t \o Dash
<1>5. /\ sd \in Seq(Chars) /\ Len(sd) = Len(s) + 1
      /\ td \in Seq(Chars) /\ Len(td) = Len(t) + 1
  BY <1>2
<1>6. ASSUME sd = td PROVE s = t
  BY <1>1, <1>4, <1>6
<1> HIDE DEF sd, td
<1>7. sd \o h \in Seq(Chars) /\ Len(sd \o h) = Len(s) + 1 + Len(h)
  <2>1. sd \o h \in Seq(Chars) /\ Len(sd \o h) = Len(sd) + Len(h)
    BY <1>3, <1>5
  <2> QED
    BY Zenon, <1>5, <2>1
<1>8. ASSUME Len(h) = Len(k), sd \o h = td \o k PROVE sd = td /\ h = k
  BY <1>4, <1>5, <1>8
<1> QED
  BY <1>6, <1>7, <1>8 DEF sd, td, Joined

(* A text has 36 characters, and other bytes make another text.              *)
LEMMA TextTells ==
  ASSUME NEW u \in [1..16 -> Byte], NEW w \in [1..16 -> Byte]
  PROVE  /\ Len(Text(u)) = 36
         /\ Text(u) = Text(w) <=> u = w
<1> DEFINE a1 == Hex(u, 1, 4)  a2 == Hex(u, 5, 6)  a3 == Hex(u, 7, 8)
           a4 == Hex(u, 9, 10)  a5 == Hex(u, 11, 16)
           b1 == Hex(w, 1, 4)  b2 == Hex(w, 5, 6)  b3 == Hex(w, 7, 8)
           b4 == Hex(w, 9, 10)  b5 == Hex(w, 11, 16)
<1>1. /\ a1 \in Seq(Chars) /\ Len(a1) = 8 /\ b1 \in Seq(Chars) /\ Len(b1) = 8
      /\ a2 \in Seq(Chars) /\ Len(a2) = 4 /\ b2 \in Seq(Chars) /\ Len(b2) = 4
      /\ a3 \in Seq(Chars) /\ Len(a3) = 4 /\ b3 \in Seq(Chars) /\ Len(b3) = 4
      /\ a4 \in Seq(Chars) /\ Len(a4) = 4 /\ b4 \in Seq(Chars) /\ Len(b4) = 4
      /\ a5 \in Seq(Chars) /\ Len(a5) = 12 /\ b5 \in Seq(Chars) /\ Len(b5) = 12
  BY SMT, HexIs
<1>2. /\ Text(u) = a1 \o Dash \o a2 \o Dash \o a3 \o Dash \o a4 \o Dash \o a5
      /\ Text(w) = b1 \o Dash \o b2 \o Dash \o b3 \o Dash \o b4 \o Dash \o b5
  BY DEF Text
<1>3. ASSUME a1 = b1, a2 = b2, a3 = b3, a4 = b4, a5 = b5
      PROVE  u = w
  <2>1. \A k \in 1..4 : u[k] = w[k]
    BY SMT, <1>3, HexTells
  <2>2. \A k \in 5..6 : u[k] = w[k]
    BY SMT, <1>3, HexTells
  <2>3. \A k \in 7..8 : u[k] = w[k]
    BY SMT, <1>3, HexTells
  <2>4. \A k \in 9..10 : u[k] = w[k]
    BY SMT, <1>3, HexTells
  <2>5. \A k \in 11..16 : u[k] = w[k]
    BY SMT, <1>3, HexTells
  <2>6. \A k \in 1..16 : u[k] = w[k]
    BY SMT, <2>1, <2>2, <2>3, <2>4, <2>5
  <2> QED
    BY SMT, <2>6
<1> HIDE DEF a1, a2, a3, a4, a5, b1, b2, b3, b4, b5
<1> DEFINE s2 == Joined(a1, a2)  t2 == Joined(b1, b2)
           s3 == Joined(s2, a3)  t3 == Joined(t2, b3)
           s4 == Joined(s3, a4)  t4 == Joined(t3, b4)
           s5 == Joined(s4, a5)  t5 == Joined(t4, b5)
<1>4. /\ s2 \in Seq(Chars) /\ Len(s2) = Len(a1) + 1 + Len(a2)
      /\ t2 \in Seq(Chars)
      /\ s2 = t2 => a1 = b1 /\ a2 = b2
  <2>1. a1 \in Seq(Chars) /\ b1 \in Seq(Chars)
    BY <1>1
  <2>2. a2 \in Seq(Chars) /\ b2 \in Seq(Chars) /\ Len(a2) = Len(b2)
    BY <1>1
  <2> QED
    BY <2>1, <2>2, JoinTells
<1> HIDE DEF s2, t2
<1>5. /\ s3 \in Seq(Chars) /\ Len(s3) = Len(s2) + 1 + Len(a3)
      /\ t3 \in Seq(Chars)
      /\ s3 = t3 => s2 = t2 /\ a3 = b3
  <2>1. s2 \in Seq(Chars) /\ t2 \in Seq(Chars)
    BY <1>4
  <2>2. a3 \in Seq(Chars) /\ b3 \in Seq(Chars) /\ Len(a3) = Len(b3)
    BY <1>1
  <2> QED
    BY <2>1, <2>2, JoinTells
<1> HIDE DEF s3, t3
<1>6. /\ s4 \in Seq(Chars) /\ Len(s4) = Len(s3) + 1 + Len(a4)
      /\ t4 \in Seq(Chars)
      /\ s4 = t4 => s3 = t3 /\ a4 = b4
  <2>1. s3 \in Seq(Chars) /\ t3 \in Seq(Chars)
    BY <1>5
  <2>2. a4 \in Seq(Chars) /\ b4 \in Seq(Chars) /\ Len(a4) = Len(b4)
    BY <1>1
  <2> QED
    BY <2>1, <2>2, JoinTells
<1> HIDE DEF s4, t4
<1>7. /\ Len(s5) = Len(s4) + 1 + Len(a5)
      /\ s5 = t5 => s4 = t4 /\ a5 = b5
  <2>1. s4 \in Seq(Chars) /\ t4 \in Seq(Chars)
    BY <1>6
  <2>2. a5 \in Seq(Chars) /\ b5 \in Seq(Chars) /\ Len(a5) = Len(b5)
    BY <1>1
  <2> QED
    BY <2>1, <2>2, JoinTells
<1> HIDE DEF s5, t5
<1>8. Text(u) = s5 /\ Text(w) = t5
  BY <1>2 DEF s2, t2, s3, t3, s4, t4, s5, t5, Joined
<1>9. Len(s5) = 36
  BY SMT, <1>1, <1>4, <1>5, <1>6, <1>7
<1> QED
  BY <1>3, <1>4, <1>5, <1>6, <1>7, <1>8, <1>9

(* Inductive, with VariablesHold: every text is that of the GUID noted for it. *)
TextsHold ==
  /\ text \in [Buffer -> {<<>>} \cup {Text(Bytes(g)) : g \in Guids \cup {Nil}}]
  /\ textFrom \in [Buffer -> {{}} \cup {{g} : g \in Guids \cup {Nil}}]
  /\ \A b \in Buffer : \A g \in textFrom[b] : text[b] = Text(Bytes(g))
  /\ \A b \in Buffer : textFrom[b] = {} => text[b] = <<>>

LEMMA TextsGoOn ==
  ASSUME VariablesHold, TextsHold, [UuidNext]_uuidVars
  PROVE  TextsHold'
<1>1. ASSUME NEW v \in Var, NEW b \in Buffer, uuid_unparse(v, b) PROVE TextsHold'
  <2> DEFINE g == from[v]
  <2>1. g \in Guids \cup {Nil} /\ uuid[v] = Bytes(g)
    BY SMT DEF VariablesHold
  <2>2. text' = [text EXCEPT ![b] = Text(Bytes(g))] /\ textFrom' = [textFrom EXCEPT ![b] = {g}]
    BY SMT, <1>1, <2>1 DEF uuid_unparse
  <2> HIDE DEF g
  <2> QED
    BY SMT, <2>1, <2>2 DEF TextsHold
<1>2. ASSUME UNCHANGED <<text, textFrom>> PROVE TextsHold'
  BY SMT, <1>2 DEF TextsHold
<1> QED
  BY SMT, <1>1, <1>2
  DEF UuidNext, uuidVars, uuid_generate, uuid_clear, uuid_copy, Assign

LEMMA TextsTell == TextsHold => TextTellsGuid
<1> SUFFICES ASSUME TextsHold, NEW b \in Buffer, NEW c \in Buffer, textFrom[b] # {}
             PROVE  /\ Len(text[b]) + 1 = 37
                    /\ text[b] = text[c] <=> textFrom[b] = textFrom[c]
  BY SMT DEF TextTellsGuid
<1>1. PICK g \in Guids \cup {Nil} : textFrom[b] = {g} /\ text[b] = Text(Bytes(g))
  BY SMT DEF TextsHold
<1>2. g \in Known /\ Bytes(g) \in [1..16 -> Byte]
  BY SMT, AreKnown, BytesAt
<1>3. Len(text[b]) = 36
  BY <1>1, <1>2, TextTells
<1>4. CASE textFrom[c] = {}
  <2>1. text[c] = <<>> /\ Len(text[c]) = 0
    BY SMT, <1>4 DEF TextsHold
  <2>2. text[b] # text[c]
    <3>1. 36 # 0
      BY SMT
    <3> QED
      BY Zenon, <1>3, <2>1, <3>1
  <2> QED
    BY SMT, <1>1, <1>3, <1>4, <2>2
<1>5. CASE textFrom[c] # {}
  <2>1. PICK h \in Guids \cup {Nil} : textFrom[c] = {h} /\ text[c] = Text(Bytes(h))
    BY SMT, <1>5 DEF TextsHold
  <2>2. h \in Known /\ Bytes(h) \in [1..16 -> Byte]
    BY SMT, AreKnown, BytesAt
  <2>3. Text(Bytes(g)) = Text(Bytes(h)) <=> g = h
    BY <1>2, <2>2, TextTells, BytesTell
  <2> QED
    BY SMT, <1>1, <1>3, <2>1, <2>3
<1> QED
  BY <1>4, <1>5

(* Texts of uuid_unparse() fill the 37 bytes, and two are equal exactly if   *)
(* their GUIDs are, for every set of GUIDs.                                  *)
THEOREM TextsTellGuids == UuidSpec => []TextTellsGuid
<1>1. UuidInit => VariablesHold /\ TextsHold
  BY SMT, ZerosAre DEF UuidInit, VariablesHold, TextsHold
<1>2. VariablesHold /\ TextsHold /\ [UuidNext]_uuidVars => VariablesHold' /\ TextsHold'
  BY VariablesGoOn, TextsGoOn
<1> QED
  BY <1>1, <1>2, TextsTell, PTL DEF UuidSpec
=============================================================================
