------------------------------ MODULE TimedFree ------------------------------
(***************************************************************************)
(* guacd_timed_client_free and guacd_client_free_thread of                 *)
(* src-overrides/proc-win32.c: the proc thread starts a thread that frees  *)
(* the client and waits for it on a condition variable, at most            *)
(* GUACD_CLIENT_FREE_TIMEOUT seconds.  The mutex, the condition and the    *)
(* flag are in the structure op on the stack of the waiting thread.        *)
(* Freeing a client may take for ever.                                     *)
(***************************************************************************)
EXTENDS Naturals

CONSTANT TimeoutSecs  \* GUACD_CLIENT_FREE_TIMEOUT

ASSUME TimedFreeAssumption == TimeoutSecs \in Nat

VARIABLES
  left,       \* seconds until deadline
  waiter,     \* where guacd_timed_client_free is; "returned" is off the stack
  freer,      \* where guacd_client_free_thread is
  mutex,      \* who holds op.completed_mutex
  signalled,  \* the waiter was woken by the broadcast
  completed,  \* op.completed
  freed,      \* guac_client_free has returned
  result,     \* the value returned, once there is one
  woke        \* history: what ended the wait, once it is over

vars == <<left, waiter, freer, mutex, signalled, completed, freed, result, woke>>

TypeOK ==
  /\ left \in 0..TimeoutSecs
  /\ waiter \in {"start", "lock", "create", "wait", "wake", "unlock", "return",
                "returned"}
  /\ freer \in {"none", "read", "free", "stray", "lock", "complete", "broadcast", "unlock", "exit"}
  /\ mutex \in {"nobody", "waiter", "freer"}
  /\ signalled \in BOOLEAN /\ completed \in BOOLEAN /\ freed \in BOOLEAN
  /\ result \in {"none", "success", "failure"}
  /\ woke \in {"none", "broadcast", "deadline", "spurious"}

Init ==
  /\ left = TimeoutSecs
  /\ waiter = "start" /\ freer = "none" /\ mutex = "nobody"
  /\ signalled = FALSE /\ completed = FALSE /\ freed = FALSE
  /\ result = "none" /\ woke = "none"

(* One second of the wall clock; it counts once gettimeofday was called.    *)
Tick ==
  /\ left > 0 /\ waiter # "start"
  /\ left' = left - 1
  /\ UNCHANGED <<waiter, freer, mutex, signalled, completed, freed, result, woke>>

-----------------------------------------------------------------------------
(* Mutant: the deadline is rounded up to the next second.                   *)
GetTimeRoundedUp ==
  /\ waiter = "start"
  /\ waiter' = "lock"
  /\ left' = left + 1
  /\ UNCHANGED <<freer, mutex, signalled, completed, freed, result, woke>>

(* gettimeofday, from which the deadline is computed, ...                   *)
GetTime ==
  /\ waiter = "start"
  /\ waiter' = "lock"
  /\ UNCHANGED <<left, freer, mutex, signalled, completed, freed, result, woke>>

(* ... or pthread_mutex_lock fails: return 1.                               *)
GiveUp ==
  /\ waiter \in {"start", "lock"}
  /\ waiter' = "returned" /\ result' = "failure"
  /\ UNCHANGED <<left, freer, mutex, signalled, completed, freed, woke>>

(* Mutant: the thread is created without the mutex.                         *)
DoNotLock ==
  /\ waiter = "lock"
  /\ waiter' = "create"
  /\ UNCHANGED <<left, freer, mutex, signalled, completed, freed, result, woke>>

Lock ==
  /\ waiter = "lock" /\ mutex = "nobody"
  /\ waiter' = "create" /\ mutex' = "waiter"
  /\ UNCHANGED <<left, freer, signalled, completed, freed, result, woke>>

CreateFails ==
  /\ waiter = "create"
  /\ waiter' = "unlock"
  /\ UNCHANGED <<left, freer, mutex, signalled, completed, freed, result, woke>>

(* The new thread runs, and cannot complete before the waiter waits.        *)
Create ==
  /\ waiter = "create"
  /\ waiter' = "wait" /\ freer' = "read"
  /\ UNCHANGED <<left, mutex, signalled, completed, freed, result, woke>>

(* pthread_cond_timedwait releases the mutex and waits in one step, ...     *)
Wait ==
  /\ waiter = "wait"
  /\ waiter' = "wake" /\ mutex' = "nobody"
  /\ UNCHANGED <<left, freer, signalled, completed, freed, result, woke>>

(* Mutant: no deadline, as with pthread_cond_wait.                           *)
OnlySignalled == signalled

WaitOver == signalled \/ left = 0

(* ... and takes the mutex again before it returns; POSIX lets it return     *)
(* for no reason as well.                                                   *)
Wake ==
  /\ waiter = "wake" /\ mutex = "nobody"
  /\ waiter' = "unlock" /\ mutex' = "waiter"
  /\ woke' = IF signalled THEN "broadcast"
             ELSE IF left = 0 THEN "deadline" ELSE "spurious"
  /\ UNCHANGED <<left, freer, signalled, completed, freed, result>>

Unlock ==
  /\ waiter = "unlock"
  /\ waiter' = "return" /\ mutex' = "nobody"
  /\ UNCHANGED <<left, freer, signalled, completed, freed, result, woke>>

(* Mutants: any end of the wait before the deadline counts as success; the  *)
(* flag is tested the wrong way round.                                      *)
BeforeDeadline == left > 0
NotCompleted == ~completed

Completed == completed

(* return !op.completed, read without the mutex.                            *)
Return ==
  /\ waiter = "return"
  /\ waiter' = "returned"
  /\ result' = IF Completed THEN "success" ELSE "failure"
  /\ UNCHANGED <<left, freer, mutex, signalled, completed, freed, woke>>

-----------------------------------------------------------------------------
(* guacd_client_free_thread reads op->client, which is any pointer once the  *)
(* frame of the waiter is gone, ...                                         *)
ReadClient ==
  /\ freer = "read"
  /\ freer' \in IF waiter = "returned" THEN {"free", "stray"} ELSE {"free"}
  /\ UNCHANGED <<left, waiter, mutex, signalled, completed, freed, result, woke>>

(* ... and frees it; a stray pointer is not the client.                      *)
FreeClient ==
  /\ freer \in {"free", "stray"}
  /\ freer' = "lock" /\ freed' = (freed \/ freer = "free")
  /\ UNCHANGED <<left, waiter, mutex, signalled, completed, result, woke>>

(* Mutant: the flag is set and the waiter woken without the mutex.           *)
FreerLockNot ==
  /\ freer = "lock"
  /\ freer' = "complete"
  /\ UNCHANGED <<left, waiter, mutex, signalled, completed, freed, result, woke>>

(* A mutex on a stack that is gone may be found in any state, so from then   *)
(* on it does not hold the thread up.                                        *)
FreerLock ==
  /\ freer = "lock"
  /\ mutex = "nobody" \/ waiter = "returned"
  /\ freer' = "complete" /\ mutex' = "freer"
  /\ UNCHANGED <<left, waiter, signalled, completed, freed, result, woke>>

Complete ==
  /\ freer = "complete"
  /\ freer' = "broadcast" /\ completed' = TRUE
  /\ UNCHANGED <<left, waiter, mutex, signalled, freed, result, woke>>

Broadcast ==
  /\ freer = "broadcast"
  /\ freer' = "unlock" /\ signalled' = (waiter = "wake")
  /\ UNCHANGED <<left, waiter, mutex, completed, freed, result, woke>>

FreerUnlock ==
  /\ freer = "unlock"
  /\ freer' = "exit" /\ mutex' = "nobody"
  /\ UNCHANGED <<left, waiter, signalled, completed, freed, result, woke>>

-----------------------------------------------------------------------------
WaiterStep ==
  \/ GetTime \/ GiveUp \/ Lock \/ CreateFails \/ Create \/ Wait
  \/ WaitOver /\ Wake
  \/ Unlock \/ Return

FreerStep == ReadClient \/ FreerLock \/ Complete \/ Broadcast \/ FreerUnlock

Terminated == waiter = "returned" /\ left = 0 /\ UNCHANGED vars

Next ==
  Tick \/ WaiterStep \/ Wake \/ FreeClient \/ FreerStep \/ Terminated

(* Time passes and threads run; guac_client_free need not return.            *)
Fairness == WF_vars(Tick) /\ WF_vars(WaiterStep) /\ WF_vars(FreerStep)

Spec == Init /\ [][Next]_vars /\ Fairness

-----------------------------------------------------------------------------
(* "Client terminated successfully." is logged only of a client that is      *)
(* gone, although completed is read without the mutex.                       *)
SuccessMeansFreed == result = "success" => freed

(* No wake-up is lost: the mutex is held from before the freeing thread      *)
(* exists until the wait, so a waiter that waits after the broadcast was     *)
(* woken by it.                                                              *)
NoLostWakeup == waiter = "wake" /\ freer \in {"unlock", "exit"} => signalled

(* The function returns although freeing the client may take for ever.       *)
Returns == waiter = "start" ~> waiter = "returned"

(* The freeing thread works on the stack of guacd_timed_client_free, from    *)
(* op->client (line 133) to the unlock after its broadcast (line 138), and   *)
(* is done with it before the function returns: a waiter that was woken by   *)
(* the broadcast gets the mutex only when the thread has let go of it.  The  *)
(* code gives this up where it does not wait for the thread: when the        *)
(* deadline ended the wait, or nothing did.                                  *)
FrameOutlivesUse ==
  freer \in {"read", "lock", "complete", "broadcast", "unlock"}
      /\ waiter = "returned" =>
    woke \in {"deadline", "spurious"}

(* "Client did not terminate in a timely manner." is logged after the        *)
(* GUACD_CLIENT_FREE_TIMEOUT seconds, or when the freeing thread could not   *)
(* be run, or - the call is not repeated - after a spurious wake-up.         *)
FailureMeansTimeout ==
  result = "failure" => freer = "none" \/ woke \in {"deadline", "spurious"}
=============================================================================
