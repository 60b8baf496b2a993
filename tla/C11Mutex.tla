------------------------------ MODULE C11Mutex ------------------------------
(***************************************************************************)
(* compat/threads.h: a mutex and a condition variable of C11 over those of *)
(* pthreads.  Clients believe what the thrd_ codes tell them; the mutex of *)
(* pthreads knows better.                                                  *)
(***************************************************************************)
EXTENDS Integers, FiniteSets

CONSTANTS
  Thread,
  MaxDepth      \* bound: how often a thread locks a mutex it has

Nobody == "nobody"

ASSUME MtxAssumption == MaxDepth \in Nat \ {0} /\ Nobody \notin Thread

VARIABLES
  type,         \* the flags given to mtx_init()
  kind,         \* the attribute of the pthread mutex
  owner, depth, \* its state
  call,         \* the call each thread is in
  told,         \* the thrd_ code of its last call
  has,          \* how many times it holds the mutex by these codes
  sleeping      \* the threads that wait for the condition

mtxVars == <<type, kind, owner, depth, call, told, has, sleeping>>

Calls == {"none", "lock", "timedlock", "wait", "timedwait", "awake", "timedout"}
Codes == {"none", "thrd_success", "thrd_busy", "thrd_timedout", "thrd_error"}

MtxTypeOK ==
  /\ type \subseteq {"mtx_recursive", "mtx_timed"}
  /\ kind \in {"none", "normal", "recursive"}
  /\ owner \in Thread \cup {Nobody}
  /\ depth \in 0..MaxDepth /\ (depth = 0 <=> owner = Nobody)
  /\ call \in [Thread -> Calls]
  /\ told \in [Thread -> Codes]
  /\ has \in [Thread -> 0..MaxDepth]
  /\ sleeping \subseteq {t \in Thread : call[t] \in {"wait", "timedwait"}}

MtxInit ==
  /\ type = {} /\ kind = "none"
  /\ owner = Nobody /\ depth = 0
  /\ call = [t \in Thread |-> "none"]
  /\ told = [t \in Thread |-> "none"]
  /\ has = [t \in Thread |-> 0]
  /\ sleeping = {}

-----------------------------------------------------------------------------
(* pthreads.                                                                 *)
CanLock(t) == owner = Nobody \/ (owner = t /\ kind = "recursive" /\ depth < MaxDepth)
Lock(t) ==
  /\ CanLock(t)
  /\ owner' = t /\ depth' = depth + 1
Unlock == depth' = depth - 1 /\ owner' = IF depth = 1 THEN Nobody ELSE owner

(* What a thread is told, and what it concludes.                             *)
Tell(t, code) == told' = [told EXCEPT ![t] = code]
Gains(t, code) ==
  /\ Tell(t, code)
  /\ has' = IF code = "thrd_success" THEN [has EXCEPT ![t] = @ + 1] ELSE has
Enter(t, from, to) == call[t] = from /\ call' = [call EXCEPT ![t] = to]

-----------------------------------------------------------------------------
(* mtx_init().  Mutant: every mutex is a plain one.                          *)
MtxInitPlain ==
  /\ kind = "none"
  /\ type' \in SUBSET {"mtx_recursive", "mtx_timed"}
  /\ kind' = "normal"
  /\ UNCHANGED <<owner, depth, call, told, has, sleeping>>

MtxInitCall ==
  /\ kind = "none"
  /\ type' \in SUBSET {"mtx_recursive", "mtx_timed"}
  /\ kind' = IF "mtx_recursive" \in type' THEN "recursive" ELSE "normal"
  /\ UNCHANGED <<owner, depth, call, told, has, sleeping>>

(* mtx_destroy(), of a mutex that nobody has or waits for; it may be         *)
(* initialised again, with other flags.                                      *)
MtxDestroy ==
  /\ kind # "none" /\ owner = Nobody /\ \A t \in Thread : call[t] = "none"
  /\ kind' = "none" /\ type' = {}
  /\ UNCHANGED <<owner, depth, call, told, has, sleeping>>

(* A client locks a mutex again only if it made it a recursive one.          *)
MayLock(t) ==
  /\ kind # "none" /\ call[t] = "none"
  /\ has[t] = 0 \/ ("mtx_recursive" \in type /\ has[t] < MaxDepth)

CallLock(t) ==
  /\ MayLock(t)
  /\ Enter(t, "none", "lock") \/ ("mtx_timed" \in type /\ Enter(t, "none", "timedlock"))
  /\ UNCHANGED <<type, kind, owner, depth, told, has, sleeping>>

(* mtx_lock(), when pthread_mutex_lock() returns.                            *)
MtxLock(t) ==
  /\ Enter(t, "lock", "none")
  /\ Lock(t)
  /\ Gains(t, "thrd_success")
  /\ UNCHANGED <<type, kind, sleeping>>

(* mtx_trylock(): 0, EBUSY.  Mutant: EBUSY is not told from 0.               *)
MtxTryLockAny(t) ==
  /\ MayLock(t)
  /\ IF CanLock(t) THEN Lock(t) ELSE UNCHANGED <<owner, depth>>
  /\ Gains(t, "thrd_success")
  /\ UNCHANGED <<type, kind, call, sleeping>>

MtxTryLock(t) ==
  /\ MayLock(t)
  /\ \/ Lock(t) /\ Gains(t, "thrd_success")
     \/ ~CanLock(t) /\ UNCHANGED <<owner, depth>> /\ Gains(t, "thrd_busy")
  /\ UNCHANGED <<type, kind, call, sleeping>>

(* mtx_timedlock(): 0, ETIMEDOUT.                                            *)
MtxTimedLock(t) ==
  /\ Enter(t, "timedlock", "none")
  /\ \/ Lock(t) /\ Gains(t, "thrd_success")
     \/ ~CanLock(t) /\ UNCHANGED <<owner, depth>> /\ Gains(t, "thrd_timedout")
  /\ UNCHANGED <<type, kind, sleeping>>

MtxUnlock(t) ==
  /\ call[t] = "none" /\ has[t] > 0
  /\ Unlock
  /\ Tell(t, "thrd_success")
  /\ has' = [has EXCEPT ![t] = @ - 1]
  /\ UNCHANGED <<type, kind, call, sleeping>>

-----------------------------------------------------------------------------
(* cnd_wait() and cnd_timedwait(), with a mutex locked once: pthreads gives  *)
(* it up and takes it again before the call returns, with 0 or ETIMEDOUT.    *)
CndCall(t) ==
  /\ has[t] = 1
  /\ Enter(t, "none", "wait") \/ Enter(t, "none", "timedwait")
  /\ Unlock
  /\ sleeping' = sleeping \cup {t}
  /\ UNCHANGED <<type, kind, told, has>>

(* A signal has come, or the thread wakes without one, or time is over.      *)
Wake(t) ==
  /\ Enter(t, "wait", "awake") \/ Enter(t, "timedwait", "awake")
     \/ (t \in sleeping /\ Enter(t, "timedwait", "timedout"))
  /\ sleeping' = sleeping \ {t}
  /\ UNCHANGED <<type, kind, owner, depth, told, has>>

CndReturn(t) ==
  /\ Lock(t)
  /\ \/ Enter(t, "awake", "none") /\ Tell(t, "thrd_success")
     \/ Enter(t, "timedout", "none") /\ Tell(t, "thrd_timedout")
  /\ UNCHANGED <<type, kind, has, sleeping>>

(* cnd_signal() and cnd_broadcast().                                         *)
CndSignal(t) ==
  /\ call[t] = "none" /\ sleeping # {}
  /\ \/ \E u \in sleeping : sleeping' = sleeping \ {u}
     \/ sleeping' = {}
  /\ Tell(t, "thrd_success")
  /\ UNCHANGED <<type, kind, owner, depth, call, has>>

(* Any of the calls fails otherwise: nothing is locked or given up.          *)
PthreadFails(t) ==
  /\ \/ Enter(t, "lock", "none") \/ Enter(t, "timedlock", "none")
     \/ Enter(t, "none", "none")
  /\ Tell(t, "thrd_error")
  /\ UNCHANGED <<type, kind, owner, depth, has, sleeping>>

MtxStep(t) ==
  \/ MtxLock(t) \/ MtxTimedLock(t) \/ CndReturn(t) \/ (t \notin sleeping /\ Wake(t))

MtxNext ==
  \/ MtxInitCall \/ MtxDestroy
  \/ \E t \in Thread :
       \/ CallLock(t) \/ MtxTryLock(t) \/ MtxUnlock(t) \/ CndCall(t) \/ CndSignal(t)
       \/ MtxStep(t) \/ Wake(t) \/ PthreadFails(t)

(* pthreads lets a thread that can go on go on; nobody has to call.          *)
MtxFairness == \A t \in Thread : WF_mtxVars(MtxStep(t))

MtxSpec == MtxInit /\ [][MtxNext]_mtxVars /\ MtxFairness

-----------------------------------------------------------------------------
(* The codes tell the truth: a thread that adds up what mtx_lock(),          *)
(* mtx_trylock(), mtx_timedlock() and mtx_unlock() told it, with all they    *)
(* return when the lock is taken, the time is over or the call fails, knows  *)
(* how often it has the mutex.                                               *)
CodesTellTheTruth ==
  \A t \in Thread :
    call[t] \in {"none", "lock", "timedlock"} =>
      has[t] = IF owner = t THEN depth ELSE 0

(* Locking a recursive mutex again, and locking with a time limit, returns,  *)
(* whatever the other threads do.                                            *)
CallsReturn ==
  \A t \in Thread :
    (call[t] = "timedlock" \/ (call[t] = "lock" /\ has[t] > 0)) ~> call[t] = "none"
=============================================================================
