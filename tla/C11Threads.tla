----------------------------- MODULE C11Threads -----------------------------
(***************************************************************************)
(* compat/threads.h: thrd_create() hands the function and its argument to  *)
(* the new thread in a block of the heap that the thread frees before it   *)
(* calls the function; thrd_join() and thrd_detach() of what came of it.   *)
(* Every client c creates one thread; its function and its argument are    *)
(* both called c.  The heap is shared: what one frees, another is given,   *)
(* with what was written into it.                                          *)
(***************************************************************************)
EXTENDS Integers, FiniteSets

CONSTANTS
  Client,     \* the threads that call thrd_create(), and the threads they create
  Block,      \* the addresses malloc() returns
  IntHalf,    \* an int holds 2 * IntHalf values, 2^32
  NoBlock, NoClient

IntSize == 2 * IntHalf
PtrSize == IntSize * IntSize
Ints == -IntHalf..IntHalf - 1

ASSUME C11Assumption ==
  /\ IntHalf \in Nat \ {0}
  /\ NoBlock \notin Block /\ NoClient \notin Client

VARIABLES
  allocated,     \* the blocks in use
  func, arg,     \* what is written in each block
  pc,            \* where each client is
  code,          \* what thrd_create(), then thrd_join() or thrd_detach() returned
  wrap,          \* the block a client and its thread have for their wrapper
  child,         \* where the thread of each client is
  job,           \* the function and the argument it has read
  result,        \* the int it ends with
  retval,        \* the pointer it leaves to pthread_join()
  res            \* what thrd_join() stores

c11Vars == <<allocated, func, arg, pc, code, wrap, child, job, result, retval, res>>

(* An int as a void pointer, and a void pointer as an int.                   *)
ToPointer(i) == i % PtrSize

(* Mutant: the low half is taken for an unsigned number.                     *)
FromPointerUnsigned(q) == q % IntSize

FromPointer(q) ==
  LET low == q % IntSize IN IF low >= IntHalf THEN low - IntSize ELSE low

C11TypeOK ==
  /\ allocated \subseteq Block
  /\ func \in [Block -> Client \cup {NoClient}] /\ arg \in [Block -> Client \cup {NoClient}]
  /\ pc \in [Client -> {"start", "fill", "create", "created", "joined", "over"}]
  /\ code \in [Client -> {"none", "thrd_success", "thrd_nomem", "thrd_error"}]
  /\ wrap \in [Client -> Block \cup {NoBlock}]
  /\ child \in [Client -> {"none", "read_func", "read_arg", "free", "run", "ended"}]
  /\ job \in [Client -> [f : Client \cup {NoClient}, a : Client \cup {NoClient}]]
  /\ result \in [Client -> Ints]
  /\ retval \in [Client -> 0..PtrSize - 1]
  /\ res \in [Client -> Ints]

C11Init ==
  /\ allocated = {}
  /\ func = [b \in Block |-> NoClient] /\ arg = [b \in Block |-> NoClient]
  /\ pc = [c \in Client |-> "start"]
  /\ code = [c \in Client |-> "none"]
  /\ wrap = [c \in Client |-> NoBlock]
  /\ child = [c \in Client |-> "none"]
  /\ job = [c \in Client |-> [f |-> NoClient, a |-> NoClient]]
  /\ result = [c \in Client |-> 0]
  /\ retval = [c \in Client |-> 0]
  /\ res = [c \in Client |-> 0]

Step(v, c, from, to) == v[c] = from /\ v' = [v EXCEPT ![c] = to]

free(b) == allocated' = allocated \ {b}

-----------------------------------------------------------------------------
(* thrd_create()                                                             *)
Malloc(c) ==
  /\ \/ /\ Step(pc, c, "start", "fill")
        /\ \E b \in Block \ allocated :
             /\ allocated' = allocated \cup {b}
             /\ wrap' = [wrap EXCEPT ![c] = b]
        /\ UNCHANGED code
     \/ /\ Step(pc, c, "start", "over")
        /\ code' = [code EXCEPT ![c] = "thrd_nomem"]
        /\ UNCHANGED <<allocated, wrap>>
  /\ UNCHANGED <<func, arg, child, job, result, retval, res>>

Fill(c) ==
  /\ Step(pc, c, "fill", "create")
  /\ func' = [func EXCEPT ![wrap[c]] = c]
  /\ arg' = [arg EXCEPT ![wrap[c]] = c]
  /\ UNCHANGED <<allocated, code, wrap, child, job, result, retval, res>>

PthreadCreate(c) ==
  /\ Step(pc, c, "create", "created")
  /\ child' = [child EXCEPT ![c] = "read_func"]
  /\ code' = [code EXCEPT ![c] = "thrd_success"]
  /\ UNCHANGED <<allocated, func, arg, wrap, job, result, retval, res>>

(* Mutant: the wrapper is forgotten with the thread that was not created.    *)
PthreadCreateFailsKeeps(c) ==
  /\ Step(pc, c, "create", "over")
  /\ code' = [code EXCEPT ![c] = "thrd_error"]
  /\ UNCHANGED <<allocated, func, arg, wrap, child, job, result, retval, res>>

PthreadCreateFails(c) ==
  /\ Step(pc, c, "create", "over")
  /\ free(wrap[c])
  /\ code' = [code EXCEPT ![c] = "thrd_error"]
  /\ UNCHANGED <<func, arg, wrap, child, job, result, retval, res>>

-----------------------------------------------------------------------------
(* _thrd_trampoline()                                                        *)

(* Mutant: the wrapper is freed first.                                       *)
ReadFuncLate(c) ==
  /\ Step(child, c, "read_func", "read_arg")
  /\ job' = [job EXCEPT ![c].f = func[wrap[c]]]
  /\ free(wrap[c])
  /\ UNCHANGED <<func, arg, pc, code, wrap, result, retval, res>>

ReadFunc(c) ==
  /\ Step(child, c, "read_func", "read_arg")
  /\ job' = [job EXCEPT ![c].f = func[wrap[c]]]
  /\ UNCHANGED <<allocated, func, arg, pc, code, wrap, result, retval, res>>

ReadArg(c) ==
  /\ Step(child, c, "read_arg", "free")
  /\ job' = [job EXCEPT ![c].a = arg[wrap[c]]]
  /\ UNCHANGED <<allocated, func, arg, pc, code, wrap, result, retval, res>>

FreeWrapper(c) ==
  /\ Step(child, c, "free", "run")
  /\ free(wrap[c])
  /\ UNCHANGED <<func, arg, pc, code, wrap, job, result, retval, res>>

(* The function returns an int, or calls thrd_exit() with it wherever it is. *)
End(c) ==
  /\ Step(child, c, "run", "ended")
  /\ \E i \in Ints :
       /\ result' = [result EXCEPT ![c] = i]
       /\ retval' = [retval EXCEPT ![c] = ToPointer(i)]
  /\ UNCHANGED <<allocated, func, arg, pc, code, wrap, job, res>>

-----------------------------------------------------------------------------
(* thrd_join(), which pthread_join() may fail, and thrd_detach().            *)
ThrdJoin(c) ==
  /\ Step(pc, c, "created", "joined") /\ child[c] = "ended"
  /\ res' = [res EXCEPT ![c] = FromPointer(retval[c])]
  /\ code' = [code EXCEPT ![c] = "thrd_success"]
  /\ UNCHANGED <<allocated, func, arg, wrap, child, job, result, retval>>

ThrdJoinFails(c) ==
  /\ Step(pc, c, "created", "over")
  /\ code' = [code EXCEPT ![c] = "thrd_error"]
  /\ UNCHANGED <<allocated, func, arg, wrap, child, job, result, retval, res>>

ThrdDetach(c) ==
  /\ Step(pc, c, "created", "over")
  /\ code' = [code EXCEPT ![c] = "thrd_success"]
  /\ UNCHANGED <<allocated, func, arg, wrap, child, job, result, retval, res>>

C11Next ==
  \E c \in Client :
    \/ Malloc(c) \/ Fill(c) \/ PthreadCreate(c) \/ PthreadCreateFails(c)
    \/ ReadFunc(c) \/ ReadArg(c) \/ FreeWrapper(c) \/ End(c)
    \/ ThrdJoin(c) \/ ThrdJoinFails(c) \/ ThrdDetach(c)

C11Spec == C11Init /\ [][C11Next]_c11Vars

-----------------------------------------------------------------------------
(* Each block belongs to exactly one: to thrd_create() until there is a      *)
(* thread, then to the thread until it calls its function.  So whatever      *)
(* fails nothing leaks, nothing is freed twice or read after it was freed,   *)
(* and thrd_exit() leaves nothing behind.                                    *)
OwnsWrapper(c) ==
  pc[c] \in {"fill", "create"} \/ child[c] \in {"read_func", "read_arg", "free"}

OneOwnerEach ==
  /\ allocated = {wrap[c] : c \in {d \in Client : OwnsWrapper(d)}}
  /\ \A c, d \in Client : OwnsWrapper(c) /\ OwnsWrapper(d) /\ c # d => wrap[c] # wrap[d]

(* A thread calls the function its creator passed, with that argument,       *)
(* however many others are being created in the blocks freed meanwhile.      *)
RunsItsOwn ==
  \A c \in Client : child[c] \in {"free", "run", "ended"} => job[c] = [f |-> c, a |-> c]

(* thrd_join() stores the int the function returned or thrd_exit() was       *)
(* given, negative ones too, although it travels as a pointer.               *)
JoinTellsResult == \A c \in Client : pc[c] = "joined" => res[c] = result[c]
=============================================================================
