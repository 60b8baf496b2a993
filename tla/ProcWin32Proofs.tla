--------------------------- MODULE ProcWin32Proofs ---------------------------
(* Theorems about ProcWin32, for any set of connections, any capacity of the *)
(* pipe and any set of failures.                                             *)
EXTENDS ProcWin32, TLAPS

(* Where a thread may be.                                                    *)
PcMayBe(t, to) ==
  \/ t[1] = "conn" /\ to \in ConnPc \cup StopPc
  \/ t[1] = "proc" /\ to \in ProcPc
  \/ t[1] = "user" /\ to \in UserPc \cup StopPc
  \/ t[1] = "free" /\ to \in FreePc

(* A step of one thread to a place where it may be preserves PcOK.           *)
LEMMA GotoOK ==
  ASSUME PcOK, NEW t \in Thread, NEW from, NEW to, PcMayBe(t, to),
         Goto(t, from, to)
  PROVE  PcOK'
BY DEF PcOK, PcMayBe, Goto, Thread, Conn, Proc, User, Free

LEMMA ThreadOK ==
  ASSUME NEW u \in Users
  PROVE  /\ Conn(u) \in Thread /\ Conn(u)[1] = "conn"
         /\ Proc(u) \in Thread /\ Proc(u)[1] = "proc"
         /\ User(u) \in Thread /\ User(u)[1] = "user"
         /\ Free(u) \in Thread /\ Free(u)[1] = "free"
BY DEF Thread, Conn, Proc, User, Free

(* A step of guacd_proc_stop, by either kind of thread.                      *)
LEMMA StopTypeOK ==
  ASSUME TypeOK, NEW u \in Users, NEW t \in {Conn(u), User(u)}, NEW p, Stop(t, p)
  PROVE  TypeOK'
<1>1. t \in Thread /\ t[1] \in {"conn", "user"}
  BY ThreadOK
<1>2. PcOK'
  <2>1. ASSUME NEW from, NEW to, Goto(t, from, to),
               to \in StopPc \/ to = IF t[1] = "conn" THEN "mem_free" ELSE "cleanup"
        PROVE  PcOK'
    BY <1>1, <2>1, GotoOK DEF TypeOK, PcMayBe, ConnPc, UserPc
  <2> QED BY <2>1 DEF Stop, StopRead, StopClear, StopClose, StopClient, StopPc
<1>3. DataOK'
  BY DEF TypeOK, DataOK, Stop, StopRead, StopClear, StopClose, StopClient,
     memVars, clientVars, pipeVars, userVars
<1> QED BY <1>2, <1>3 DEF TypeOK

(* A step of a connection thread.                                            *)
LEMMA ConnTypeOK ==
  ASSUME TypeOK, NEW u \in Users,
         \/ CreateProc(u) \/ CreateProcFails(u)
         \/ \E p \in Users : JoinProc(u, p)
         \/ SendFdNoDup(u) \/ ConnStep(u)
  PROVE  TypeOK'
<1> USE DEF TypeOK
<1>0. ASSUME NEW from, NEW to, Goto(Conn(u), from, to), to \in ConnPc \cup StopPc
      PROVE  PcOK'
  BY <1>0, ThreadOK, GotoOK DEF PcMayBe
<1>1. CASE CreateProc(u)
  <2>1. PcOK'
    BY <1>1 DEF CreateProc, PcOK, Thread, Conn, Proc, User, Free, ConnPc, ProcPc
  <2>2. DataOK'
    BY <1>1 DEF CreateProc, DataOK, userVars
  <2> QED BY <2>1, <2>2
<1>2. CASE CreateProcFails(u)
  BY <1>0, <1>2 DEF CreateProcFails, DataOK, ConnPc, memVars, clientVars, pipeVars, userVars
<1>3. ASSUME NEW p \in Users, JoinProc(u, p)
      PROVE  TypeOK'
  BY <1>0, <1>3 DEF JoinProc, DataOK, ConnPc, memVars, clientVars, pipeVars, userVars
<1>4. CASE LoadFdSocket(u)
  BY <1>0, <1>4 DEF LoadFdSocket, AfterAddFail, DataOK, ConnPc, StopPc, memVars,
     clientVars, pipeVars, userVars
<1>5. CASE SendFdNoDup(u)
  BY <1>0, <1>5 DEF SendFdNoDup, AfterAddFail, DataOK, ConnPc, StopPc, memVars,
     clientVars, pipeVars, userVars
<1>6. CASE SendFdFails(u)
  BY <1>0, <1>6 DEF SendFdFails, AfterAddFail, DataOK, ConnPc, StopPc, memVars,
     clientVars, pipeVars, userVars
<1>7. CASE SendFd(u)
  <2>1. PcOK'
    BY <1>0, <1>7 DEF SendFd, AfterAdd, ConnPc
  <2>2. /\ pipe' \in [Users -> Seq(Users)]
        /\ \A p \in Users : Len(pipe'[p]) <= PipeCapacity
    <3> DEFINE p == procOf[u]
    <3>1. pipe' = [pipe EXCEPT ![p] = Append(@, u)] /\ Len(pipe[p]) < PipeCapacity
      BY <1>7 DEF SendFd, PipeHasRoom
    <3>2. CASE p \in Users
      <4>1. /\ Append(pipe[p], u) \in Seq(Users)
            /\ Len(Append(pipe[p], u)) = Len(pipe[p]) + 1
            /\ Len(pipe[p]) \in Nat
        BY <3>2 DEF DataOK
      <4> QED BY <3>1, <3>2, <4>1, ProcAssumption DEF DataOK
    <3>3. CASE p \notin Users
      BY <3>1, <3>3 DEF DataOK
    <3> QED BY <3>2, <3>3
  <2> QED
    BY <1>7, <2>1, <2>2 DEF SendFd, DataOK, memVars, clientVars
<1>8. CASE PthreadJoin(u)
  BY <1>0, <1>8 DEF PthreadJoin, DataOK, StopPc, memVars, clientVars, pipeVars, userVars
<1>9. CASE FreeProc(u)
  BY <1>0, <1>9 DEF FreeProc, DataOK, ConnPc, clientVars, pipeVars, userVars
<1>10. CASE Stop(Conn(u), procOf[u])
  BY <1>10, StopTypeOK
<1> QED
  BY <1>1, <1>2, <1>3, <1>4, <1>5, <1>6, <1>7, <1>8, <1>9, <1>10 DEF ConnStep

(* A step of a proc thread, or of the thread that frees its client.          *)
LEMMA ProcTypeOK ==
  ASSUME TypeOK, NEW p \in Users, ProcStep(p) \/ ClientFree(p)
  PROVE  TypeOK'
<1> USE DEF TypeOK
<1>0. ASSUME NEW from, NEW to, Goto(Proc(p), from, to), to \in ProcPc
      PROVE  PcOK'
  BY <1>0, ThreadOK, GotoOK DEF PcMayBe
<1>1. CASE LoadPlugin(p)
  BY <1>0, <1>1 DEF LoadPlugin, DataOK, ProcPc, memVars, pipeVars, userVars
<1>2. CASE LoadPluginFails(p)
  BY <1>0, <1>2 DEF LoadPluginFails, DataOK, ProcPc, memVars, clientVars, pipeVars, userVars
<1>3. ASSUME DataOK, pipe[p] # <<>>
      PROVE  /\ Head(pipe[p]) \in Users
             /\ Tail(pipe[p]) \in Seq(Users)
             /\ Len(Tail(pipe[p])) <= PipeCapacity
  BY <1>3, ProcAssumption DEF DataOK
<1>4. CASE RecvFd(p)
  <2>1. PcOK'
    BY <1>3, <1>4 DEF RecvFd, PcOK, Thread, Conn, Proc, User, Free, UserPc
  <2>2. DataOK'
    BY <1>3, <1>4 DEF RecvFd, OwnerAfter, DataOK, memVars
  <2> QED BY <2>1, <2>2
<1>5. CASE RecvFdNoThread(p)
  BY <1>3, <1>5 DEF RecvFdNoThread, OwnerAfter, PcOK, DataOK, memVars
<1>6. CASE RecvEof(p)
  BY <1>0, <1>6 DEF RecvEof, DataOK, ProcPc, memVars, clientVars, pipeVars, userVars
<1>7. CASE CleanupClient(p)
  <2>1. PcOK'
    BY <1>7 DEF CleanupClient, PcOK, Thread, Conn, Proc, User, Free, ProcPc, FreePc
  <2>2. DataOK'
    BY <1>7 DEF CleanupClient, DataOK, memVars, pipeVars, userVars
  <2> QED BY <2>1, <2>2
<1>8. CASE CleanupClientNoThread(p)
  BY <1>0, <1>8 DEF CleanupClientNoThread, DataOK, ProcPc, memVars, pipeVars, userVars
<1>9. CASE FreeWait(p)
  BY <1>0, <1>9 DEF FreeWait, DataOK, ProcPc, memVars, clientVars, pipeVars, userVars
<1>10. CASE CloseRead(p)
  <2>1. PcOK'
    BY <1>0, <1>10 DEF CloseRead, ProcPc
  <2>2. DataOK'
    BY <1>10, ProcAssumption DEF CloseRead, DataOK, memVars, clientVars
  <2> QED BY <2>1, <2>2
<1>11. CASE ClientFree(p)
  <2>1. PcOK'
    BY <1>11, ThreadOK, GotoOK DEF ClientFree, PcMayBe, FreePc
  <2>2. DataOK'
    BY <1>11 DEF ClientFree, DataOK, clientVars, pipeVars, userVars
  <2> QED BY <2>1, <2>2
<1> QED
  BY <1>1, <1>2, <1>4, <1>5, <1>6, <1>7, <1>8, <1>9, <1>10, <1>11 DEF ProcStep

(* A step of a user thread.                                                  *)
LEMMA UserTypeOK ==
  ASSUME TypeOK, NEW u \in Users, UserStep(u) \/ Leave(u)
  PROVE  TypeOK'
<1> USE DEF TypeOK
<1>0. ASSUME NEW from, NEW to, Goto(User(u), from, to), to \in UserPc \cup StopPc
      PROVE  PcOK'
  BY <1>0, ThreadOK, GotoOK DEF PcMayBe
<1>1. CASE SocketOpen(u)
  BY <1>0, <1>1 DEF SocketOpen, DataOK, UserPc, memVars, clientVars, pipeVars, userVars
<1>2. CASE SocketOpenFails(u)
  BY <1>0, <1>2 DEF SocketOpenFails, DataOK, UserPc, memVars, clientVars, pipeVars
<1>3. CASE Handshake(u)
  BY <1>0, <1>3 DEF Handshake, DataOK, UserPc, memVars, clientVars, pipeVars, userVars
<1>4. CASE CheckLast(u)
  BY <1>0, <1>4 DEF CheckLast, DataOK, UserPc, StopPc, memVars, clientVars,
     pipeVars, userVars
<1>5. CASE Cleanup(u)
  BY <1>0, <1>5 DEF Cleanup, DataOK, UserPc, memVars, clientVars, pipeVars
<1>6. CASE Stop(User(u), procOf[u])
  BY <1>6, StopTypeOK
<1>7. CASE Leave(u)
  BY <1>0, <1>7 DEF Leave, DataOK, UserPc, memVars, clientVars, pipeVars, userVars
<1> QED
  BY <1>1, <1>2, <1>3, <1>4, <1>5, <1>6, <1>7 DEF UserStep

(* Every thread and every component stays in its type; in particular the     *)
(* pipe never holds more than PipeCapacity sockets.                          *)
THEOREM TypeCorrect == Spec => []TypeOK
<1>1. Init => TypeOK
  BY ProcAssumption DEF Init, TypeOK, PcOK, DataOK, Thread, Conn, Proc, User,
     Free, ConnPc, ProcPc, UserPc, FreePc, StopPc
<1>2. TypeOK /\ [Next]_vars => TypeOK'
  <2> SUFFICES ASSUME TypeOK, [Next]_vars
               PROVE  TypeOK'
    OBVIOUS
  <2>1. ASSUME NEW u \in Users,
               \/ CreateProc(u) \/ CreateProcFails(u)
               \/ \E p \in Users : JoinProc(u, p)
               \/ SendFdNoDup(u) \/ ConnStep(u)
        PROVE  TypeOK'
    BY <2>1, ConnTypeOK
  <2>2. ASSUME NEW u \in Users, ProcStep(u) \/ ClientFree(u)
        PROVE  TypeOK'
    BY <2>2, ProcTypeOK
  <2>3. ASSUME NEW u \in Users, UserStep(u) \/ Leave(u)
        PROVE  TypeOK'
    BY <2>3, UserTypeOK
  <2>4. CASE UNCHANGED vars
    BY <2>4 DEF TypeOK, PcOK, DataOK, vars
  <2> QED
    BY <2>1, <2>2, <2>3, <2>4 DEF Next, Terminated
<1> QED
  BY <1>1, <1>2, PTL DEF Spec

-----------------------------------------------------------------------------

(* A proc is freed after its thread was joined.  What the invariant says of  *)
(* proc p, and of the connection and user p it is named after.               *)
Ended == StopPc \cup {"mem_free", "exit"}

JoinInvOf(p) ==
  /\ pc[Conn(p)] = "accept" =>
       procOf[p] = NoProc /\ procMem[p] = "none" /\ pc[Proc(p)] = "none"
  /\ procMem[p] # "none" => procOf[p] = p
  /\ procMem[p] = "freed" => pc[Conn(p)] = "exit"
  /\ pc[Conn(p)] \in StopPc \cup {"pthread_join", "mem_free"} => procOf[p] = p
  /\ pc[Conn(p)] \in {"accept", "add_user", "send_fd"} => dup[p] = "none"
  /\ dup[p] = "none" => pc[User(p)] = "none"
  /\ pc[Conn(p)] \in Ended /\ procOf[p] = p /\ dup[p] # "none" =>
       pc[Proc(p)] = "exit"

(* What is in a pipe was put there.                                          *)
PipedInv == \A p \in Users : \A i \in 1..Len(pipe[p]) : dup[pipe[p][i]] # "none"

JoinInv == PipedInv /\ \A p \in Users : JoinInvOf(p)

LEMMA InitJoin == Init => JoinInv
BY NoProcAssumption DEF Init, JoinInv, JoinInvOf, PipedInv, Ended, StopPc,
   Thread, Conn, Proc, User, Free

(* A step changes the place of the threads it is about and of no other.      *)
LEMMA GotoEffect ==
  ASSUME TypeOK, NEW t \in Thread, NEW from, NEW to, Goto(t, from, to)
  PROVE  /\ pc[t] = from /\ pc'[t] = to
         /\ \A s \in Thread \ {t} : pc'[s] = pc[s]
BY DEF TypeOK, PcOK, Goto

LEMMA ThreadsDiffer ==
  ASSUME NEW u \in Users, NEW v \in Users
  PROVE  /\ Conn(u) # Proc(v) /\ Conn(u) # User(v) /\ Conn(u) # Free(v)
         /\ Proc(u) # User(v) /\ Proc(u) # Free(v) /\ User(u) # Free(v)
         /\ u # v => /\ Conn(u) # Conn(v) /\ Proc(u) # Proc(v)
                     /\ User(u) # User(v) /\ Free(u) # Free(v)
BY DEF Conn, Proc, User, Free

LEMMA StopJoin ==
  ASSUME TypeOK, JoinInv, NEW u \in Users, NEW t \in {Conn(u), User(u)}, NEW q,
         Stop(t, q)
  PROVE  JoinInv'
<1>1. PipedInv'
  BY DEF JoinInv, PipedInv, Stop, StopRead, StopClear, StopClose, StopClient,
     clientVars, pipeVars, userVars
<1>2. ASSUME NEW p \in Users PROVE JoinInvOf(p)'
  <2>1. JoinInvOf(p) /\ JoinInvOf(u)
    BY DEF JoinInv
  <2>2. UNCHANGED <<procOf, procMem, dup>>
    BY DEF Stop, StopRead, StopClear, StopClose, StopClient, memVars, userVars
  <2>3. PICK from \in StopPc, to \in StopPc \cup {"mem_free", "cleanup"} :
          Goto(t, from, to) /\ (t[1] = "conn" => to # "cleanup")
    BY DEF Stop, StopRead, StopClear, StopClose, StopClient, StopPc
  <2>4. /\ pc[t] = from /\ pc'[t] = to
        /\ \A s \in Thread \ {t} : pc'[s] = pc[s]
    BY <2>3, GotoEffect, ThreadOK
  <2> QED
    BY <2>1, <2>2, <2>3, <2>4, ThreadOK, ThreadsDiffer
    DEF JoinInvOf, Ended, StopPc
<1> QED BY <1>1, <1>2 DEF JoinInv

LEMMA ConnJoin ==
  ASSUME TypeOK, JoinInv, NEW u \in Users,
         \/ CreateProc(u) \/ CreateProcFails(u)
         \/ \E q \in Users : JoinProc(u, q)
         \/ SendFdNoDup(u) \/ ConnStep(u)
  PROVE  JoinInv'
<1>1. CASE CreateProc(u)
  <2>1. PipedInv'
    BY <1>1 DEF CreateProc, JoinInv, PipedInv, userVars
  <2>2. ASSUME NEW p \in Users PROVE JoinInvOf(p)'
    <3>1. JoinInvOf(p) /\ JoinInvOf(u)
      BY DEF JoinInv
    <3> QED
      BY <1>1, <3>1, ThreadOK, ThreadsDiffer
      DEF CreateProc, JoinInvOf, Ended, StopPc, TypeOK, PcOK, DataOK, userVars
  <2> QED BY <2>1, <2>2 DEF JoinInv
<1>2. ASSUME NEW from, NEW to, Goto(Conn(u), from, to), pc'[Conn(u)] = to,
             \A s \in Thread \ {Conn(u)} : pc'[s] = pc[s],
             UNCHANGED <<procMem, dup, pipe>>,
             \/ /\ from = "accept" /\ to \in {"exit", "add_user"}
                /\ \A p \in Users \ {u} : procOf'[p] = procOf[p]
                /\ procOf[u] = NoProc
             \/ /\ from = "add_user" /\ to = "send_fd" /\ UNCHANGED procOf
             \/ /\ from \in {"add_user", "send_fd"} /\ UNCHANGED procOf
                /\ to = AfterAddFail(u)
             \/ /\ from = "pthread_join" /\ to = "stop_read" /\ UNCHANGED procOf
                /\ pc[Proc(u)] = "exit"
      PROVE  JoinInv'
  <2>1. PipedInv'
    BY <1>2 DEF JoinInv, PipedInv
  <2>2. ASSUME NEW p \in Users PROVE JoinInvOf(p)'
    <3>1. JoinInvOf(p) /\ JoinInvOf(u)
      BY DEF JoinInv
    <3>2. pc[Conn(u)] = from
      BY <1>2 DEF Goto
    <3>3. CASE p = u
      BY <1>2, <3>1, <3>2, <3>3, ThreadOK, ThreadsDiffer
      DEF JoinInvOf, Ended, StopPc, AfterAddFail
    <3>4. CASE p # u
      BY <1>2, <3>1, <3>4, ThreadOK, ThreadsDiffer DEF JoinInvOf, Ended, StopPc
    <3> QED BY <3>3, <3>4
  <2> QED BY <2>1, <2>2 DEF JoinInv
<1>3. ASSUME NEW from, NEW to, Goto(Conn(u), from, to)
      PROVE  pc'[Conn(u)] = to /\ \A s \in Thread \ {Conn(u)} : pc'[s] = pc[s]
  BY <1>3, GotoEffect, ThreadOK
<1>4. pc[Conn(u)] = "accept" => procOf[u] = NoProc
  BY DEF JoinInv, JoinInvOf
<1>5. CASE CreateProcFails(u)
  BY <1>2, <1>3, <1>4, <1>5 DEF CreateProcFails, Goto, memVars, pipeVars, userVars
<1>6. ASSUME NEW q \in Users, JoinProc(u, q)
      PROVE  JoinInv'
  <2>1. \A p \in Users \ {u} : procOf'[p] = procOf[p]
    BY <1>6 DEF JoinProc, TypeOK, DataOK
  <2> QED
    BY <1>2, <1>3, <1>4, <1>6, <2>1 DEF JoinProc, Goto, memVars, pipeVars, userVars
<1>7. CASE LoadFdSocket(u)
  BY <1>2, <1>3, <1>7 DEF LoadFdSocket, memVars, pipeVars, userVars
<1>8. CASE SendFdNoDup(u)
  BY <1>2, <1>3, <1>8 DEF SendFdNoDup, memVars, pipeVars, userVars
<1>9. CASE SendFdFails(u)
  BY <1>2, <1>3, <1>9 DEF SendFdFails, memVars, pipeVars, userVars
<1>10. CASE PthreadJoin(u)
  BY <1>2, <1>3, <1>10 DEF PthreadJoin, memVars, pipeVars, userVars
<1>11. CASE SendFd(u)
  <2> DEFINE q == procOf[u]
  <2>1. /\ pipe' = [pipe EXCEPT ![q] = Append(@, u)]
        /\ dup' = [dup EXCEPT ![u] = "piped"]
        /\ UNCHANGED <<procOf, procMem>>
        /\ Goto(Conn(u), "send_fd", AfterAdd(u))
    BY <1>11 DEF SendFd, memVars
  <2>2. PipedInv'
    <3>1. ASSUME NEW p \in Users, NEW i \in 1..Len(pipe'[p])
          PROVE  dup'[pipe'[p][i]] # "none"
      <4>1. pipe[p] \in Seq(Users)
        BY DEF TypeOK, DataOK
      <4>2. pipe'[p][i] = u \/ (i \in 1..Len(pipe[p]) /\ pipe'[p][i] = pipe[p][i])
        BY <2>1, <3>1, <4>1 DEF TypeOK, DataOK
      <4>3. i \in 1..Len(pipe[p]) => pipe[p][i] \in Users /\ dup[pipe[p][i]] # "none"
        BY <4>1 DEF JoinInv, PipedInv
      <4> QED BY <2>1, <4>2, <4>3 DEF TypeOK, DataOK
    <3> QED BY <3>1 DEF PipedInv
  <2>3. ASSUME NEW p \in Users PROVE JoinInvOf(p)'
    <3>1. JoinInvOf(p) /\ JoinInvOf(u)
      BY DEF JoinInv
    <3>2. pc'[Conn(u)] = AfterAdd(u) /\ \A s \in Thread \ {Conn(u)} : pc'[s] = pc[s]
      BY <1>3, <2>1
    <3> QED
      BY <2>1, <3>1, <3>2, ThreadOK, ThreadsDiffer
      DEF JoinInvOf, Ended, StopPc, AfterAdd, Goto, TypeOK, DataOK
  <2> QED BY <2>2, <2>3 DEF JoinInv
<1>12. CASE FreeProc(u)
  <2>1. PipedInv'
    BY <1>12 DEF FreeProc, JoinInv, PipedInv, pipeVars, userVars
  <2>2. ASSUME NEW p \in Users PROVE JoinInvOf(p)'
    <3>1. JoinInvOf(p) /\ JoinInvOf(u)
      BY DEF JoinInv
    <3>2. pc'[Conn(u)] = "exit" /\ \A s \in Thread \ {Conn(u)} : pc'[s] = pc[s]
      BY <1>3, <1>12 DEF FreeProc
    <3> QED
      BY <1>12, <3>1, <3>2, ThreadOK, ThreadsDiffer
      DEF FreeProc, JoinInvOf, Ended, StopPc, Goto, TypeOK, DataOK, userVars
  <2> QED BY <2>1, <2>2 DEF JoinInv
<1>13. CASE Stop(Conn(u), procOf[u])
  BY <1>13, StopJoin
<1> QED
  BY <1>1, <1>5, <1>6, <1>7, <1>8, <1>9, <1>10, <1>11, <1>12, <1>13 DEF ConnStep

(* Receiving or dropping a socket marks it, and never unmarks one.            *)
LEMMA ProcJoin ==
  ASSUME TypeOK, JoinInv, NEW q \in Users, ProcStep(q) \/ ClientFree(q)
  PROVE  JoinInv'
<1>1. ASSUME NEW t \in {Proc(q), Free(q)}, NEW from, NEW to, Goto(t, from, to),
             UNCHANGED <<procOf, procMem, dup, pipe>>,
             t = Proc(q) => from \notin {"none", "exit"}
      PROVE  JoinInv'
  <2>1. PipedInv'
    BY <1>1 DEF JoinInv, PipedInv
  <2>2. ASSUME NEW p \in Users PROVE JoinInvOf(p)'
    <3>1. JoinInvOf(p)
      BY DEF JoinInv
    <3>2. pc[t] = from /\ \A s \in Thread \ {t} : pc'[s] = pc[s]
      BY <1>1, GotoEffect, ThreadOK
    <3> QED
      BY <1>1, <3>1, <3>2, ThreadOK, ThreadsDiffer DEF JoinInvOf, Ended, StopPc
  <2> QED BY <2>1, <2>2 DEF JoinInv
<1>2. CASE LoadPlugin(q)
  BY <1>1, <1>2 DEF LoadPlugin, memVars, pipeVars, userVars
<1>3. CASE LoadPluginFails(q)
  BY <1>1, <1>3 DEF LoadPluginFails, memVars, pipeVars, userVars
<1>4. pipe[q] # <<>> =>
        /\ Head(pipe[q]) \in Users /\ dup[Head(pipe[q])] # "none"
        /\ \A i \in 1..Len(Tail(pipe[q])) :
             i+1 \in 1..Len(pipe[q]) /\ Tail(pipe[q])[i] = pipe[q][i+1]
  BY DEF JoinInv, PipedInv, TypeOK, DataOK
<1>5. ASSUME pipe[q] # <<>>, pipe' = [pipe EXCEPT ![q] = Tail(@)],
             NEW d \in {"owned", "lost"}, dup' = [dup EXCEPT ![Head(pipe[q])] = d]
      PROVE  PipedInv' /\ \A p \in Users : (dup'[p] = "none") <=> (dup[p] = "none")
  <2>1. \A p \in Users : (dup'[p] = "none") <=> (dup[p] = "none")
    BY <1>4, <1>5 DEF TypeOK, DataOK
  <2>2. ASSUME NEW p \in Users, NEW i \in 1..Len(pipe'[p])
        PROVE  dup'[pipe'[p][i]] # "none"
    <3>1. \E j \in 1..Len(pipe[p]) : pipe'[p][i] = pipe[p][j]
      BY <1>4, <1>5, <2>2 DEF TypeOK, DataOK
    <3>2. \A j \in 1..Len(pipe[p]) : pipe[p][j] \in Users /\ dup[pipe[p][j]] # "none"
      BY DEF JoinInv, PipedInv, TypeOK, DataOK
    <3> QED BY <2>1, <3>1, <3>2
  <2> QED BY <2>1, <2>2 DEF PipedInv
<1>6. CASE RecvFd(q)
  <2> DEFINE h == Head(pipe[q])
  <2>1. PipedInv' /\ \A p \in Users : (dup'[p] = "none") <=> (dup[p] = "none")
    BY <1>5, <1>6 DEF RecvFd
  <2>2. /\ \A s \in Thread \ {User(h)} : pc'[s] = pc[s]
        /\ UNCHANGED <<procOf, procMem>>
    BY <1>6 DEF RecvFd, memVars, TypeOK, PcOK
  <2>3. h \in Users /\ dup[h] # "none"
    BY <1>4, <1>6 DEF RecvFd
  <2>4. ASSUME NEW p \in Users PROVE JoinInvOf(p)'
    <3>1. JoinInvOf(p)
      BY DEF JoinInv
    <3> QED
      BY <2>1, <2>2, <2>3, <3>1, ThreadOK, ThreadsDiffer DEF JoinInvOf, Ended, StopPc
  <2> QED BY <2>1, <2>4 DEF JoinInv
<1>7. CASE RecvFdNoThread(q)
  <2>1. PipedInv' /\ \A p \in Users : (dup'[p] = "none") <=> (dup[p] = "none")
    BY <1>5, <1>7 DEF RecvFdNoThread
  <2>2. UNCHANGED <<pc, procOf, procMem>>
    BY <1>7 DEF RecvFdNoThread, memVars
  <2> QED BY <2>1, <2>2 DEF JoinInv, JoinInvOf
<1>8. CASE RecvEof(q)
  BY <1>1, <1>8 DEF RecvEof, memVars, pipeVars, userVars
<1>9. CASE CleanupClient(q)
  <2>1. PipedInv'
    BY <1>9 DEF CleanupClient, JoinInv, PipedInv, pipeVars, userVars
  <2>2. ASSUME NEW p \in Users PROVE JoinInvOf(p)'
    <3>1. JoinInvOf(p)
      BY DEF JoinInv
    <3> QED
      BY <1>9, <3>1, ThreadOK, ThreadsDiffer
      DEF CleanupClient, JoinInvOf, Ended, StopPc, TypeOK, PcOK, memVars, userVars
  <2> QED BY <2>1, <2>2 DEF JoinInv
<1>10. CASE CleanupClientNoThread(q)
  BY <1>1, <1>10 DEF CleanupClientNoThread, memVars, pipeVars, userVars
<1>11. CASE FreeWait(q)
  BY <1>1, <1>11 DEF FreeWait, memVars, pipeVars, userVars
<1>12. CASE CloseRead(q)
  <2>1. \A p \in Users : (dup'[p] = "none") => (dup[p] = "none")
    BY <1>12 DEF CloseRead
  <2>2. \A p \in Users : (dup[p] = "none") => (dup'[p] = "none")
    BY <1>12 DEF CloseRead, JoinInv, PipedInv
  <2>3. PipedInv'
    <3>1. ASSUME NEW p \in Users, NEW i \in 1..Len(pipe'[p])
          PROVE  dup'[pipe'[p][i]] # "none"
      <4>1. p # q /\ pipe'[p] = pipe[p]
        BY <1>12, <3>1 DEF CloseRead, TypeOK, DataOK
      <4> QED BY <2>1, <3>1, <4>1 DEF JoinInv, PipedInv, TypeOK, DataOK
    <3> QED BY <3>1 DEF PipedInv
  <2>4. ASSUME NEW p \in Users PROVE JoinInvOf(p)'
    <3>1. JoinInvOf(p)
      BY DEF JoinInv
    <3>2. pc[Proc(q)] = "close_read" /\ pc'[Proc(q)] = "exit"
          /\ \A s \in Thread \ {Proc(q)} : pc'[s] = pc[s]
      BY <1>12, GotoEffect, ThreadOK DEF CloseRead
    <3> QED
      BY <1>12, <2>1, <2>2, <3>1, <3>2, ThreadOK, ThreadsDiffer
      DEF CloseRead, JoinInvOf, Ended, StopPc, memVars
  <2> QED BY <2>3, <2>4 DEF JoinInv
<1>13. CASE ClientFree(q)
  BY <1>1, <1>13 DEF ClientFree, pipeVars, userVars
<1> QED
  BY <1>2, <1>3, <1>6, <1>7, <1>8, <1>9, <1>10, <1>11, <1>12, <1>13 DEF ProcStep

LEMMA UserJoin ==
  ASSUME TypeOK, JoinInv, NEW u \in Users, UserStep(u) \/ Leave(u)
  PROVE  JoinInv'
<1>1. CASE Stop(User(u), procOf[u])
  BY <1>1, StopJoin
<1>2. ASSUME NEW from, NEW to, Goto(User(u), from, to), from # "none",
             UNCHANGED <<procOf, procMem, pipe>>,
             dup' = dup \/ \E d \in {"lost", "closed"} : dup' = [dup EXCEPT ![u] = d]
      PROVE  JoinInv'
  <2>1. dup[u] # "none" /\ pc[User(u)] = from
    BY <1>2 DEF Goto, JoinInv, JoinInvOf
  <2>2. \A p \in Users : (dup'[p] = "none") <=> (dup[p] = "none")
    BY <1>2, <2>1 DEF TypeOK, DataOK
  <2>3. PipedInv'
    BY <1>2, <2>2 DEF JoinInv, PipedInv, TypeOK, DataOK
  <2>4. ASSUME NEW p \in Users PROVE JoinInvOf(p)'
    <3>1. JoinInvOf(p)
      BY DEF JoinInv
    <3>2. \A s \in Thread \ {User(u)} : pc'[s] = pc[s]
      BY <1>2, GotoEffect, ThreadOK
    <3> QED
      BY <1>2, <2>1, <2>2, <3>1, <3>2, ThreadOK, ThreadsDiffer
      DEF JoinInvOf, Ended, StopPc
  <2> QED BY <2>3, <2>4 DEF JoinInv
<1>3. CASE SocketOpen(u)
  BY <1>2, <1>3 DEF SocketOpen, memVars, pipeVars, userVars
<1>4. CASE SocketOpenFails(u)
  BY <1>2, <1>4 DEF SocketOpenFails, memVars, pipeVars
<1>5. CASE Handshake(u)
  BY <1>2, <1>5 DEF Handshake, memVars, pipeVars, userVars
<1>6. CASE CheckLast(u)
  BY <1>2, <1>6 DEF CheckLast, memVars, pipeVars, userVars
<1>7. CASE Cleanup(u)
  BY <1>2, <1>7 DEF Cleanup, memVars, pipeVars
<1>8. CASE Leave(u)
  BY <1>2, <1>8 DEF Leave, memVars, pipeVars, userVars
<1> QED
  BY <1>1, <1>3, <1>4, <1>5, <1>6, <1>7, <1>8 DEF UserStep

LEMMA JoinInvariant == Spec => []JoinInv
<1>1. TypeOK /\ JoinInv /\ [Next]_vars => JoinInv'
  <2> SUFFICES ASSUME TypeOK, JoinInv, [Next]_vars
               PROVE  JoinInv'
    OBVIOUS
  <2>1. ASSUME NEW u \in Users,
               \/ CreateProc(u) \/ CreateProcFails(u)
               \/ \E p \in Users : JoinProc(u, p)
               \/ SendFdNoDup(u) \/ ConnStep(u)
        PROVE  JoinInv'
    BY <2>1, ConnJoin
  <2>2. ASSUME NEW u \in Users, ProcStep(u) \/ ClientFree(u)
        PROVE  JoinInv'
    BY <2>2, ProcJoin
  <2>3. ASSUME NEW u \in Users, UserStep(u) \/ Leave(u)
        PROVE  JoinInv'
    BY <2>3, UserJoin
  <2>4. CASE UNCHANGED vars
    BY <2>4 DEF JoinInv, JoinInvOf, PipedInv, vars
  <2> QED
    BY <2>1, <2>2, <2>3, <2>4 DEF Next, Terminated
<1> QED
  BY InitJoin, TypeCorrect, <1>1, PTL DEF Spec

(* The structure of a proc that served its creator is freed only after its   *)
(* thread has returned, whoever stops it and whatever fails.                 *)
THEOREM JoinBeforeFree == Spec => []ProcFreedAfterJoin
<1>1. JoinInv => ProcFreedAfterJoin
  BY DEF JoinInv, JoinInvOf, ProcFreedAfterJoin, Ended, StopPc
<1> QED
  BY <1>1, JoinInvariant, PTL

-----------------------------------------------------------------------------
(* A client is freed after everybody handed over was started.  Where the     *)
(* proc thread is says what is already done.                                 *)
FreedInvOf(p) ==
  /\ pc[Proc(p)] \in {"none", "load_plugin"} => ~loaded[p]
  /\ pc[Proc(p)] \in {"cleanup_client", "free_wait", "close_read", "exit"} =>
       (loaded[p] => ~writeEnd[p] /\ pipe[p] = <<>>)
  /\ pc[Proc(p)] \in {"free_wait", "close_read", "exit"} => ~running[p]
  /\ pc[Free(p)] # "none" => pc[Proc(p)] \in {"free_wait", "close_read", "exit"}
  /\ ClientFreed(p) => pc[Free(p)] = "exit"

FreedInv == \A p \in Users : FreedInvOf(p)

(* Steps of connection and user threads undo none of it: a socket goes only  *)
(* into a pipe whose write end is open.                                      *)
LEMMA OutsideFreed ==
  ASSUME TypeOK, FreedInv,
         \A p \in Users : pc'[Proc(p)] = pc[Proc(p)] /\ pc'[Free(p)] = pc[Free(p)],
         UNCHANGED <<clientMem, loaded>>,
         \A p \in Users : /\ running'[p] => running[p]
                          /\ writeEnd'[p] => writeEnd[p]
                          /\ pipe'[p] = pipe[p] \/ writeEnd[p]
  PROVE  FreedInv'
BY DEF FreedInv, FreedInvOf, ClientFreed

LEMMA StopFreed ==
  ASSUME TypeOK, FreedInv, NEW u \in Users, NEW t \in {Conn(u), User(u)}, NEW q,
         Stop(t, q)
  PROVE  FreedInv'
<1>1. \A s \in Thread \ {t} : pc'[s] = pc[s]
  BY GotoEffect, ThreadOK
  DEF Stop, StopRead, StopClear, StopClose, StopClient
<1>2. UNCHANGED <<clientMem, loaded, pipe>>
  BY DEF Stop, StopRead, StopClear, StopClose, StopClient, memVars, clientVars, pipeVars
<1>3. \A p \in Users : (running'[p] => running[p]) /\ (writeEnd'[p] => writeEnd[p])
  BY DEF Stop, StopRead, StopClear, StopClose, StopClient, clientVars, pipeVars,
     TypeOK, DataOK
<1> QED
  BY <1>1, <1>2, <1>3, ThreadOK, ThreadsDiffer, OutsideFreed

LEMMA ConnFreed ==
  ASSUME TypeOK, JoinInv, FreedInv, NEW u \in Users,
         \/ CreateProc(u) \/ CreateProcFails(u)
         \/ \E q \in Users : JoinProc(u, q)
         \/ SendFdNoDup(u) \/ ConnStep(u)
  PROVE  FreedInv'
<1>1. CASE CreateProc(u)
  <2>1. pc[Proc(u)] = "none"
    BY <1>1 DEF CreateProc, JoinInv, JoinInvOf
  <2> QED
    BY <1>1, <2>1, ThreadOK, ThreadsDiffer
    DEF CreateProc, FreedInv, FreedInvOf, ClientFreed, TypeOK, PcOK, DataOK
<1>2. CASE Stop(Conn(u), procOf[u])
  BY <1>2, StopFreed
<1>3. CASE SendFd(u)
  <2>1. \A s \in Thread \ {Conn(u)} : pc'[s] = pc[s]
    BY <1>3, GotoEffect, ThreadOK DEF SendFd
  <2>2. \A p \in Users : pipe'[p] = pipe[p] \/ writeEnd[p]
    BY <1>3 DEF SendFd, Writable, TypeOK, DataOK
  <2> QED
    BY <1>3, <2>1, <2>2, ThreadOK, ThreadsDiffer, OutsideFreed
    DEF SendFd, memVars, clientVars
<1>4. ASSUME NEW from, NEW to, Goto(Conn(u), from, to),
             UNCHANGED <<clientMem, clientVars, pipeVars>>
      PROVE  FreedInv'
  <2>1. \A s \in Thread \ {Conn(u)} : pc'[s] = pc[s]
    BY <1>4, GotoEffect, ThreadOK
  <2> QED
    BY <1>4, <2>1, ThreadOK, ThreadsDiffer, OutsideFreed DEF clientVars, pipeVars
<1> QED
  BY <1>1, <1>2, <1>3, <1>4
  DEF ConnStep, CreateProcFails, JoinProc, LoadFdSocket, SendFdNoDup, SendFdFails,
      PthreadJoin, FreeProc, memVars

LEMMA UserFreed ==
  ASSUME TypeOK, FreedInv, NEW u \in Users, UserStep(u) \/ Leave(u)
  PROVE  FreedInv'
<1>1. CASE Stop(User(u), procOf[u])
  BY <1>1, StopFreed
<1>2. ASSUME NEW from, NEW to, Goto(User(u), from, to),
             UNCHANGED <<clientMem, clientVars, pipeVars>>
      PROVE  FreedInv'
  <2>1. \A s \in Thread \ {User(u)} : pc'[s] = pc[s]
    BY <1>2, GotoEffect, ThreadOK
  <2> QED
    BY <1>2, <2>1, ThreadOK, ThreadsDiffer, OutsideFreed DEF clientVars, pipeVars
<1> QED
  BY <1>1, <1>2
  DEF UserStep, SocketOpen, SocketOpenFails, Handshake, CheckLast, Cleanup, Leave,
      memVars

LEMMA ProcFreed ==
  ASSUME TypeOK, FreedInv, NEW q \in Users, ProcStep(q) \/ ClientFree(q)
  PROVE  FreedInv'
<1> SUFFICES ASSUME NEW p \in Users PROVE FreedInvOf(p)'
  BY DEF FreedInv
<1>1. FreedInvOf(p) /\ FreedInvOf(q)
  BY DEF FreedInv
<1> USE <1>1, ThreadOK, ThreadsDiffer DEF FreedInvOf, ClientFreed, TypeOK, PcOK, DataOK
<1>2. CASE LoadPlugin(q) \/ LoadPluginFails(q)
  BY <1>2 DEF LoadPlugin, LoadPluginFails, Goto, memVars, clientVars, pipeVars
<1>3. CASE RecvFd(q)
  <2>1. Head(pipe[q]) \in Users
    BY <1>3 DEF RecvFd
  <2> QED BY <1>3, <2>1 DEF RecvFd, memVars
<1>4. CASE RecvFdNoThread(q)
  BY <1>4 DEF RecvFdNoThread, memVars
<1>5. CASE RecvEof(q)
  BY <1>5 DEF RecvEof, AtEof, Goto, memVars, clientVars, pipeVars
<1>6. CASE CleanupClient(q)
  BY <1>6 DEF CleanupClient, memVars, pipeVars
<1>7. CASE CleanupClientNoThread(q)
  BY <1>7 DEF CleanupClientNoThread, Goto, memVars, pipeVars
<1>8. CASE FreeWait(q)
  BY <1>8 DEF FreeWait, Goto, memVars, clientVars, pipeVars
<1>9. CASE CloseRead(q)
  BY <1>9 DEF CloseRead, Goto, memVars, clientVars
<1>10. CASE ClientFree(q)
  BY <1>10 DEF ClientFree, Goto, clientVars, pipeVars
<1> QED
  BY <1>2, <1>3, <1>4, <1>5, <1>6, <1>7, <1>8, <1>9, <1>10 DEF ProcStep

LEMMA FreedInvariant == Spec => []FreedInv
<1>1. Init => FreedInv
  BY DEF Init, FreedInv, FreedInvOf, ClientFreed, Thread, Proc, Free
<1>2. TypeOK /\ JoinInv /\ FreedInv /\ [Next]_vars => FreedInv'
  <2> SUFFICES ASSUME TypeOK, JoinInv, FreedInv, [Next]_vars
               PROVE  FreedInv'
    OBVIOUS
  <2>1. ASSUME NEW u \in Users,
               \/ CreateProc(u) \/ CreateProcFails(u)
               \/ \E p \in Users : JoinProc(u, p)
               \/ SendFdNoDup(u) \/ ConnStep(u)
        PROVE  FreedInv'
    BY <2>1, ConnFreed
  <2>2. ASSUME NEW u \in Users, ProcStep(u) \/ ClientFree(u)
        PROVE  FreedInv'
    BY <2>2, ProcFreed
  <2>3. ASSUME NEW u \in Users, UserStep(u) \/ Leave(u)
        PROVE  FreedInv'
    BY <2>3, UserFreed
  <2>4. CASE UNCHANGED vars
    BY <2>4 DEF FreedInv, FreedInvOf, ClientFreed, vars
  <2> QED
    BY <2>1, <2>2, <2>3, <2>4 DEF Next, Terminated
<1> QED
  BY <1>1, <1>2, TypeCorrect, JoinInvariant, PTL DEF Spec

(* The client of a proc that came to serve users is freed only when nobody   *)
(* can be handed over any more and everybody who was has been received.      *)
THEOREM FreedAfterEof == Spec => []FreedOnlyAfterEof
<1>1. FreedInv => FreedOnlyAfterEof
  BY DEF FreedInv, FreedInvOf, FreedOnlyAfterEof
<1> QED
  BY <1>1, FreedInvariant, PTL

-----------------------------------------------------------------------------
(* The first socket a proc thread reads is its creator's.  The owner flag is *)
(* fresh until it was handed out and spent from then on.                     *)
Fresh(p) ==
  pc[Proc(p)] = "load_plugin" \/ (pc[Proc(p)] = "recv_fd" /\ owner[p])
Spent(p) == pc[Proc(p)] = "recv_fd" /\ ~owner[p]

OwnerInvOf(p) ==
  /\ pc[Conn(p)] = "pthread_join" => dup[p] # "none"
  /\ pc[Proc(p)] # "none" => procOf[p] = p
  /\ \A u \in Users \ {p} : procOf[u] = p => procOf[p] = p /\ dup[p] # "none"
  /\ \A i \in 1..Len(pipe[p]) : procOf[pipe[p][i]] = p
  /\ Fresh(p) /\ dup[p] = "none" => pipe[p] = <<>>
  /\ Fresh(p) /\ dup[p] # "none" =>
       /\ pipe[p] # <<>> /\ pipe[p][1] = p
       /\ \A i \in 2..Len(pipe[p]) : pipe[p][i] # p
  /\ Spent(p) =>
       /\ dup[p] # "none"
       /\ \A i \in 1..Len(pipe[p]) : pipe[p][i] # p
  /\ pc[User(p)] # "none" => (isOwner[p] <=> procOf[p] = p)

OwnerInv == \A p \in Users : OwnerInvOf(p)

(* Steps that start no thread and hand nothing over.                         *)
LEMMA QuietOwner ==
  ASSUME TypeOK, OwnerInv, UNCHANGED <<procOf, pipe, isOwner>>,
         \A p \in Users :
           /\ (dup'[p] = "none") <=> (dup[p] = "none")
           /\ pc'[Conn(p)] = "pthread_join" => pc[Conn(p)] = "pthread_join"
           /\ pc'[User(p)] # "none" => pc[User(p)] # "none"
           /\ pc'[Proc(p)] # "none" => pc[Proc(p)] # "none"
           /\ Fresh(p)' => Fresh(p)
           /\ Spent(p)' => Spent(p)
  PROVE  OwnerInv'
<1> SUFFICES ASSUME NEW p \in Users PROVE OwnerInvOf(p)'
  BY DEF OwnerInv
<1>1. OwnerInvOf(p)
  BY DEF OwnerInv
<1>2. Fresh(p)' => Fresh(p)
  OBVIOUS
<1>3. Spent(p)' => Spent(p)
  OBVIOUS
<1> HIDE DEF Fresh, Spent
<1> QED BY <1>1, <1>2, <1>3 DEF OwnerInvOf

(* A step of a connection or user thread that only goes on.                  *)
LEMMA GotoOwner ==
  ASSUME TypeOK, JoinInv, OwnerInv,
         NEW u \in Users, NEW t \in {Conn(u), User(u)}, NEW from, NEW to,
         Goto(t, from, to), t = User(u) => from # "none", to # "pthread_join",
         UNCHANGED <<procOf, pipe, owner, isOwner>>,
         dup' = dup \/ \E d \in {"lost", "closed"} :
                         t = User(u) /\ dup' = [dup EXCEPT ![u] = d]
  PROVE  OwnerInv'
<1>1. pc[t] = from /\ pc'[t] = to /\ \A s \in Thread \ {t} : pc'[s] = pc[s]
  BY GotoEffect, ThreadOK
<1>2. \A p \in Users : (dup'[p] = "none") <=> (dup[p] = "none")
  BY <1>1 DEF JoinInv, JoinInvOf, TypeOK, DataOK
<1>3. \A p \in Users :
        /\ pc'[Proc(p)] = pc[Proc(p)]
        /\ pc'[Conn(p)] = "pthread_join" => pc[Conn(p)] = "pthread_join"
        /\ pc'[User(p)] # "none" => pc[User(p)] # "none"
  BY <1>1, ThreadOK, ThreadsDiffer
<1>4. \A p \in Users : (Fresh(p)' => Fresh(p)) /\ (Spent(p)' => Spent(p))
  BY <1>3 DEF Fresh, Spent
<1> QED BY <1>2, <1>3, <1>4, QuietOwner

LEMMA StopOwner ==
  ASSUME TypeOK, JoinInv, OwnerInv,
         NEW u \in Users, NEW t \in {Conn(u), User(u)}, NEW q, Stop(t, q)
  PROVE  OwnerInv'
BY GotoOwner DEF Stop, StopRead, StopClear, StopClose, StopClient, memVars,
   clientVars, pipeVars, userVars

LEMMA UserOwner ==
  ASSUME TypeOK, JoinInv, OwnerInv, NEW u \in Users, UserStep(u) \/ Leave(u)
  PROVE  OwnerInv'
<1>1. CASE Stop(User(u), procOf[u])
  BY <1>1, StopOwner
<1> QED
  BY <1>1, GotoOwner
  DEF UserStep, SocketOpen, SocketOpenFails, Handshake, CheckLast, Cleanup, Leave,
      memVars, clientVars, pipeVars, userVars

LEMMA ConnOwner ==
  ASSUME TypeOK, JoinInv, OwnerInv, NEW u \in Users,
         \/ CreateProc(u) \/ CreateProcFails(u)
         \/ \E q \in Users : JoinProc(u, q)
         \/ SendFdNoDup(u) \/ ConnStep(u)
  PROVE  OwnerInv'
<1>0. OwnerInvOf(u) /\ JoinInvOf(u)
  BY DEF OwnerInv, JoinInv
<1>1. CASE Stop(Conn(u), procOf[u])
  BY <1>1, StopOwner
<1>2. CASE CreateProcFails(u) \/ LoadFdSocket(u) \/ SendFdNoDup(u) \/ SendFdFails(u)
           \/ PthreadJoin(u) \/ FreeProc(u)
  BY <1>2, GotoOwner
  DEF CreateProcFails, LoadFdSocket, SendFdNoDup, SendFdFails, PthreadJoin, FreeProc,
      AfterAddFail, memVars, clientVars, pipeVars, userVars
(* A connection that has no proc yet is in no pipe and has nobody in its own. *)
<1>3. ASSUME pc[Conn(u)] = "accept"
      PROVE  /\ procOf[u] = NoProc /\ dup[u] = "none" /\ pc[User(u)] = "none"
             /\ pc[Proc(u)] = "none"
             /\ \A p \in Users : procOf[p] # u
             /\ \A p \in Users : \A i \in 1..Len(pipe[p]) :
                  pipe[p][i] \in Users /\ pipe[p][i] # u
             /\ pipe[u] = <<>>
  <2>1. procOf[u] = NoProc /\ dup[u] = "none" /\ pc[User(u)] = "none"
        /\ pc[Proc(u)] = "none"
    BY <1>0, <1>3 DEF JoinInvOf
  <2>2. ASSUME NEW p \in Users PROVE procOf[p] # u
    BY <1>0, <2>1, NoProcAssumption DEF OwnerInvOf
  <2>3. ASSUME NEW p \in Users, NEW i \in 1..Len(pipe[p])
        PROVE  pipe[p][i] \in Users /\ pipe[p][i] # u
    BY <2>1, <2>3 DEF JoinInv, PipedInv, TypeOK, DataOK
  <2>4. ASSUME pipe[u] # <<>> PROVE FALSE
    <3>1. pipe[u] \in Seq(Users) /\ 1 \in 1..Len(pipe[u])
      BY <2>4 DEF TypeOK, DataOK
    <3>2. pipe[u][1] \in Users /\ procOf[pipe[u][1]] = u
      BY <1>0, <3>1 DEF OwnerInvOf
    <3> QED BY <2>2, <3>2
  <2> QED BY <2>1, <2>2, <2>3, <2>4
<1>4. CASE CreateProc(u)
  <2> SUFFICES ASSUME NEW p \in Users PROVE OwnerInvOf(p)'
    BY DEF OwnerInv
  <2>1. OwnerInvOf(p)
    BY DEF OwnerInv
  <2>2. /\ procOf' = [procOf EXCEPT ![u] = u]
        /\ UNCHANGED <<pipe, owner, isOwner, dup>>
        /\ pc' = [pc EXCEPT ![Conn(u)] = "add_user", ![Proc(u)] = "load_plugin"]
        /\ pc[Conn(u)] = "accept"
    BY <1>4 DEF CreateProc, userVars
  <2>3. /\ \A v \in Users : pc'[User(v)] = pc[User(v)]
        /\ \A v \in Users \ {u} : pc'[Conn(v)] = pc[Conn(v)] /\ pc'[Proc(v)] = pc[Proc(v)]
        /\ pc'[Conn(u)] = "add_user" /\ pc'[Proc(u)] = "load_plugin"
    BY <2>2, ThreadOK, ThreadsDiffer DEF TypeOK, PcOK
  <2>6. \A v \in Users : procOf'[v] = IF v = u THEN u ELSE procOf[v]
    BY <2>2 DEF TypeOK, DataOK
  <2>7. /\ procOf[u] = NoProc /\ dup[u] = "none" /\ pc[User(u)] = "none"
        /\ pc[Proc(u)] = "none" /\ pipe[u] = <<>> /\ u # NoProc
        /\ \A v \in Users : procOf[v] # u
        /\ \A i \in 1..Len(pipe[p]) : pipe[p][i] \in Users /\ pipe[p][i] # u
    BY <1>3, <2>2, NoProcAssumption
  <2>4. CASE p = u
    <3>1. 1..Len(pipe'[u]) = {} /\ pipe'[u] = <<>> /\ dup'[u] = "none"
      BY <2>2, <2>7
    <3>2. \A v \in Users \ {u} : procOf'[v] # u
      BY <2>6, <2>7
    <3>3. ~Spent(u)' /\ pc'[User(u)] = "none" /\ procOf'[u] = u
          /\ pc'[Conn(u)] # "pthread_join"
      BY <2>3, <2>6, <2>7 DEF Spent
    <3> HIDE DEF Fresh, Spent
    <3> QED
      BY <2>4, <3>1, <3>2, <3>3 DEF OwnerInvOf
  <2>5. CASE p # u
    <3>1. /\ procOf'[p] = procOf[p] /\ pipe'[p] = pipe[p] /\ dup'[p] = dup[p]
          /\ isOwner'[p] = isOwner[p]
          /\ pc'[Conn(p)] = pc[Conn(p)] /\ pc'[Proc(p)] = pc[Proc(p)]
          /\ pc'[User(p)] = pc[User(p)]
      BY <2>2, <2>3, <2>5, <2>6
    <3>2. (Fresh(p)' <=> Fresh(p)) /\ (Spent(p)' <=> Spent(p))
      BY <2>2, <3>1 DEF Fresh, Spent
    <3>3. \A v \in Users \ {p} : procOf'[v] = p => procOf[v] = p
      BY <2>5, <2>6
    <3>4. \A i \in 1..Len(pipe[p]) : procOf'[pipe[p][i]] = procOf[pipe[p][i]]
      BY <2>6, <2>7
    <3> HIDE DEF Fresh, Spent
    <3> QED
      BY <2>1, <3>1, <3>2, <3>3, <3>4 DEF OwnerInvOf
  <2> QED BY <2>4, <2>5
<1>5. ASSUME NEW q \in Users, JoinProc(u, q) PROVE OwnerInv'
  <2> SUFFICES ASSUME NEW p \in Users PROVE OwnerInvOf(p)'
    BY DEF OwnerInv
  <2>1. OwnerInvOf(p) /\ OwnerInvOf(q) /\ JoinInvOf(q)
    BY DEF OwnerInv, JoinInv
  <2>2. /\ procOf' = [procOf EXCEPT ![u] = q]
        /\ UNCHANGED <<pipe, owner, isOwner, dup>>
        /\ pc[Conn(u)] = "accept" /\ pc[Conn(q)] = "pthread_join"
        /\ Goto(Conn(u), "accept", "add_user")
    BY <1>5 DEF JoinProc, InProcMap, Goto, clientVars, pipeVars, userVars
  <2>3. /\ \A v \in Users : pc'[User(v)] = pc[User(v)] /\ pc'[Proc(v)] = pc[Proc(v)]
        /\ \A v \in Users \ {u} : pc'[Conn(v)] = pc[Conn(v)]
        /\ pc'[Conn(u)] = "add_user"
    BY <2>2, GotoEffect, ThreadOK, ThreadsDiffer
  <2>4. q # u /\ procOf[q] = q /\ dup[q] # "none"
    BY <2>1, <2>2 DEF OwnerInvOf, JoinInvOf
  <2>5. CASE p = u
    BY <1>3, <2>1, <2>2, <2>3, <2>4, <2>5 DEF OwnerInvOf, Fresh, Spent, TypeOK, DataOK
  <2>6. CASE p # u
    <3>1. /\ procOf'[p] = procOf[p]
          /\ Fresh(p)' = Fresh(p) /\ Spent(p)' = Spent(p)
          /\ \A v \in Users : procOf'[v] = p => procOf[v] = p \/ p = q
          /\ \A i \in 1..Len(pipe[p]) :
               procOf[pipe[p][i]] = p => procOf'[pipe[p][i]] = p
      BY <1>3, <2>2, <2>3, <2>6 DEF Fresh, Spent, TypeOK, DataOK
    <3> QED
      BY <2>1, <2>2, <2>3, <2>4, <2>6, <3>1 DEF OwnerInvOf
  <2> QED BY <2>5, <2>6
<1>6. CASE SendFd(u)
  <2> SUFFICES ASSUME NEW p \in Users PROVE OwnerInvOf(p)'
    BY DEF OwnerInv
  <2> DEFINE q == procOf[u]
  <2>1. OwnerInvOf(p)
    BY DEF OwnerInv
  <2>2. /\ pipe' = [pipe EXCEPT ![q] = Append(@, u)]
        /\ dup' = [dup EXCEPT ![u] = "piped"]
        /\ UNCHANGED <<procOf, owner, isOwner>>
        /\ Goto(Conn(u), "send_fd", AfterAdd(u))
    BY <1>6 DEF SendFd, clientVars
  <2>3. /\ \A v \in Users : pc'[User(v)] = pc[User(v)] /\ pc'[Proc(v)] = pc[Proc(v)]
        /\ \A v \in Users \ {u} : pc'[Conn(v)] = pc[Conn(v)]
        /\ pc[Conn(u)] = "send_fd"
    BY <2>2, GotoEffect, ThreadOK, ThreadsDiffer
  <2>4. dup[u] = "none" /\ pc[User(u)] = "none"
    BY <1>0, <2>3 DEF JoinInvOf
  <2>5. \A v \in Users : dup'[v] = IF v = u THEN "piped" ELSE dup[v]
    BY <2>2 DEF TypeOK, DataOK
  <2>6. pipe[p] \in Seq(Users) /\ pipe \in [Users -> Seq(Users)]
    BY DEF TypeOK, DataOK
  <2>7. CASE p # q
    <3>1. pipe'[p] = pipe[p]
      BY <2>2, <2>6, <2>7
    <3>2. p = u => pc[Proc(p)] = "none"
      BY <1>0, <2>7 DEF OwnerInvOf
    <3> QED
      BY <2>1, <2>2, <2>3, <2>4, <2>5, <3>1, <3>2 DEF OwnerInvOf, Fresh, Spent
  <2>8. CASE p = q
    <3>1. /\ pipe'[p] = Append(pipe[p], u)
          /\ Len(pipe'[p]) = Len(pipe[p]) + 1 /\ Len(pipe[p]) \in Nat
          /\ pipe'[p][Len(pipe[p]) + 1] = u
          /\ \A i \in 1..Len(pipe[p]) : pipe'[p][i] = pipe[p][i]
      BY <2>2, <2>6, <2>8
    <3>2. pipe[p] = <<>> <=> Len(pipe[p]) = 0
      BY <2>6
    <3>3. p # u => procOf[p] = p /\ dup[p] # "none"
      BY <2>1, <2>8 DEF OwnerInvOf
    <3>4. \A i \in 1..Len(pipe'[p]) : i \in 1..Len(pipe[p]) \/ i = Len(pipe[p]) + 1
      BY <3>1
    <3>5. CASE p = u
      <4>1. ~Spent(p) /\ (Fresh(p) => pipe[p] = <<>>)
        BY <2>1, <2>4, <3>5 DEF OwnerInvOf
      <4>2. /\ dup'[p] # "none" /\ pc'[User(p)] = "none"
            /\ ~Spent(p)' /\ (Fresh(p)' => Fresh(p))
        BY <2>2, <2>3, <2>4, <2>5, <3>5, <4>1 DEF Fresh, Spent
      <4>3. pc'[Proc(p)] # "none" => procOf'[p] = p
        BY <2>1, <2>2, <2>3 DEF OwnerInvOf
      <4>4. \A v \in Users \ {p} : procOf'[v] = p => procOf'[p] = p
        BY <2>1, <2>2 DEF OwnerInvOf
      <4>5. \A i \in 1..Len(pipe'[p]) : procOf'[pipe'[p][i]] = p
        BY <2>1, <2>2, <2>8, <3>1, <3>4 DEF OwnerInvOf
      <4>6. Fresh(p)' =>
              /\ pipe'[p] # <<>> /\ pipe'[p][1] = p
              /\ \A i \in 2..Len(pipe'[p]) : pipe'[p][i] # p
        <5> SUFFICES ASSUME Fresh(p)'
                     PROVE  /\ pipe'[p] # <<>> /\ pipe'[p][1] = p
                            /\ \A i \in 2..Len(pipe'[p]) : pipe'[p][i] # p
          OBVIOUS
        <5>1. Len(pipe[p]) = 0
          BY <3>2, <4>1, <4>2
        <5>2. Len(pipe'[p]) = 1 /\ pipe'[p][1] = p
          BY <3>1, <3>5, <5>1
        <5>3. pipe'[p] # <<>>
          BY <5>2
        <5> QED
          BY <5>2, <5>3
      <4> QED
        BY ONLY <4>2, <4>3, <4>4, <4>5, <4>6 DEF OwnerInvOf
    <3>6. CASE p # u
      <4>1. /\ dup'[p] = dup[p] /\ dup[p] # "none" /\ procOf[p] = p
            /\ pc'[Conn(p)] = pc[Conn(p)]
        BY <2>3, <2>5, <3>3, <3>6
      <4>2. /\ Fresh(p)' <=> Fresh(p)
            /\ Spent(p)' <=> Spent(p)
        BY <2>2, <2>3 DEF Fresh, Spent
      <4>3. \A i \in 1..Len(pipe'[p]) : procOf'[pipe'[p][i]] = p
        BY <2>1, <2>2, <2>8, <3>1, <3>4 DEF OwnerInvOf
      <4>4. Fresh(p)' =>
              /\ pipe'[p] # <<>> /\ pipe'[p][1] = p
              /\ \A i \in 2..Len(pipe'[p]) : pipe'[p][i] # p
        BY <2>1, <3>1, <3>2, <3>4, <3>6, <4>1, <4>2 DEF OwnerInvOf
      <4>5. Spent(p)' => \A i \in 1..Len(pipe'[p]) : pipe'[p][i] # p
        BY <2>1, <3>1, <3>4, <3>6, <4>2 DEF OwnerInvOf
      <4> HIDE DEF Fresh, Spent
      <4> QED
        BY <2>1, <2>2, <2>3, <2>5, <4>1, <4>3, <4>4, <4>5 DEF OwnerInvOf
    <3> QED BY <3>5, <3>6
  <2> QED BY <2>7, <2>8
<1> QED
  BY <1>1, <1>2, <1>4, <1>5, <1>6 DEF ConnStep

LEMMA ProcOwner ==
  ASSUME TypeOK, JoinInv, OwnerInv, NEW q \in Users, ProcStep(q) \/ ClientFree(q)
  PROVE  OwnerInv'
<1>0. OwnerInvOf(q) /\ pipe[q] \in Seq(Users)
  BY DEF OwnerInv, TypeOK, DataOK
<1>1. ASSUME NEW t \in {Proc(q), Free(q)}, NEW from, NEW to, Goto(t, from, to),
             t = Proc(q) =>
               \/ from = "load_plugin" /\ to = "recv_fd" /\ owner'[q]
               \/ from \notin {"none"} /\ to \notin {"load_plugin", "recv_fd"},
             \A p \in Users \ {q} : owner'[p] = owner[p],
             owner'[q] = owner[q] \/ t = Proc(q),
             UNCHANGED <<procOf, pipe, isOwner, dup>>
      PROVE  OwnerInv'
  <2>1. pc[t] = from /\ pc'[t] = to /\ \A s \in Thread \ {t} : pc'[s] = pc[s]
    BY <1>1, GotoEffect, ThreadOK
  <2>2. \A p \in Users :
          /\ pc'[Conn(p)] = "pthread_join" => pc[Conn(p)] = "pthread_join"
          /\ pc'[User(p)] # "none" => pc[User(p)] # "none"
          /\ pc'[Proc(p)] # "none" => pc[Proc(p)] # "none"
          /\ (dup'[p] = "none") <=> (dup[p] = "none")
    BY <1>1, <2>1, ThreadOK, ThreadsDiffer
  <2>3. \A p \in Users : (Fresh(p)' => Fresh(p)) /\ (Spent(p)' => Spent(p))
    BY <1>1, <2>1, ThreadOK, ThreadsDiffer DEF Fresh, Spent
  <2> QED BY <1>1, <2>2, <2>3, QuietOwner
<1>2. CASE LoadPlugin(q)
  BY <1>1, <1>2 DEF LoadPlugin, memVars, pipeVars, userVars, TypeOK, DataOK
<1>3. CASE \/ LoadPluginFails(q) \/ RecvEof(q) \/ CleanupClientNoThread(q)
           \/ FreeWait(q) \/ ClientFree(q)
  BY <1>1, <1>3
  DEF LoadPluginFails, RecvEof, CleanupClientNoThread, FreeWait, ClientFree, memVars,
      clientVars, pipeVars, userVars
(* A turn of the recv loop: h is the user whose socket is read.               *)
<1>4. ASSUME pc[Proc(q)] = "recv_fd", pipe[q] # <<>>,
             pipe' = [pipe EXCEPT ![q] = Tail(@)],
             owner' = [owner EXCEPT ![q] = FALSE],
             NEW d \in {"owned", "lost"}, dup' = [dup EXCEPT ![Head(pipe[q])] = d],
             UNCHANGED procOf,
             \/ UNCHANGED <<pc, isOwner>>
             \/ /\ pc' = [pc EXCEPT ![User(Head(pipe[q]))] = "socket_open"]
                /\ isOwner' = [isOwner EXCEPT ![Head(pipe[q])] = owner[q]]
      PROVE  OwnerInv'
  <2> DEFINE h == Head(pipe[q])
  <2>1. /\ h \in Users /\ h = pipe[q][1] /\ dup[h] # "none" /\ procOf[h] = q
        /\ \A i \in 1..Len(Tail(pipe[q])) :
             i+1 \in 2..Len(pipe[q]) /\ Tail(pipe[q])[i] = pipe[q][i+1]
    BY <1>0, <1>4 DEF OwnerInvOf, JoinInv, PipedInv
  <2>2. owner[q] <=> h = q
    BY <1>0, <1>4, <2>1 DEF OwnerInvOf, Fresh, Spent
  <2>3. dup[q] # "none" /\ \A i \in 2..Len(pipe[q]) : pipe[q][i] # q
    BY <1>0, <1>4, <2>1 DEF OwnerInvOf, Fresh, Spent
  <2>4. \A p \in Users : /\ (dup'[p] = "none") <=> (dup[p] = "none")
                         /\ pc'[Conn(p)] = pc[Conn(p)] /\ pc'[Proc(p)] = pc[Proc(p)]
                         /\ p # h => pc'[User(p)] = pc[User(p)] /\ isOwner'[p] = isOwner[p]
    BY <1>4, <2>1, ThreadOK, ThreadsDiffer DEF TypeOK, DataOK, PcOK
  <2>5. pc'[User(h)] # "none" => (isOwner'[h] <=> procOf[h] = h)
    <3>1. CASE UNCHANGED <<pc, isOwner>>
      BY <2>1, <3>1 DEF OwnerInv, OwnerInvOf
    <3>2. CASE isOwner' = [isOwner EXCEPT ![h] = owner[q]]
      BY <2>1, <2>2, <3>2 DEF TypeOK, DataOK
    <3> QED BY <1>4, <3>1, <3>2
  <2> SUFFICES ASSUME NEW p \in Users PROVE OwnerInvOf(p)'
    BY DEF OwnerInv
  <2>6. OwnerInvOf(p)
    BY DEF OwnerInv
  <2>7. pc'[User(p)] # "none" => (isOwner'[p] <=> procOf'[p] = p)
    BY <1>4, <2>4, <2>5, <2>6 DEF OwnerInvOf
  <2>8. CASE p # q
    <3>1. pipe'[p] = pipe[p] /\ owner'[p] = owner[p]
      BY <1>4, <2>8 DEF TypeOK, DataOK
    <3>2. (Fresh(p)' <=> Fresh(p)) /\ (Spent(p)' <=> Spent(p))
      BY <2>4, <3>1 DEF Fresh, Spent
    <3> HIDE DEF Fresh, Spent
    <3>3. procOf' = procOf /\ ((dup'[p] = "none") <=> (dup[p] = "none"))
          /\ pc'[Conn(p)] = pc[Conn(p)] /\ pc'[Proc(p)] = pc[Proc(p)]
      BY <1>4, <2>4
    <3> QED BY <2>6, <2>7, <3>1, <3>2, <3>3 DEF OwnerInvOf
  <2>9. CASE p = q
    <3>1. pipe'[p] = Tail(pipe[q]) /\ ~owner'[p]
      BY <1>4, <2>9 DEF TypeOK, DataOK
    <3>2. ~Fresh(p)'
      BY <1>4, <2>4, <2>9, <3>1 DEF Fresh
    <3>3. ASSUME NEW i \in 1..Len(pipe'[p])
          PROVE  pipe'[p][i] # p /\ procOf'[pipe'[p][i]] = p
      <4>1. i+1 \in 2..Len(pipe[q]) /\ pipe'[p][i] = pipe[q][i+1]
        BY <2>1, <3>1
      <4>2. \A j \in 1..Len(pipe[q]) : procOf[pipe[q][j]] = q
        BY <1>0 DEF OwnerInvOf
      <4>3. i+1 \in 1..Len(pipe[q])
        BY <4>1
      <4> QED BY <1>4, <2>3, <2>9, <4>1, <4>2, <4>3
    <3> HIDE DEF Fresh, Spent
    <3> QED BY <1>4, <2>3, <2>4, <2>6, <2>7, <2>9, <3>2, <3>3 DEF OwnerInvOf
  <2> QED BY <2>8, <2>9
<1>5. CASE RecvFd(q)
  BY <1>4, <1>5 DEF RecvFd, OwnerAfter
<1>6. CASE RecvFdNoThread(q)
  BY <1>4, <1>6 DEF RecvFdNoThread, OwnerAfter
<1>7. CASE CleanupClient(q)
  <2>1. \A p \in Users :
          /\ pc'[Conn(p)] = pc[Conn(p)] /\ pc'[User(p)] = pc[User(p)]
          /\ pc'[Proc(p)] = IF p = q THEN "free_wait" ELSE pc[Proc(p)]
    BY <1>7, ThreadOK, ThreadsDiffer DEF CleanupClient, TypeOK, PcOK
  <2>2. UNCHANGED <<procOf, pipe, owner, isOwner, dup>> /\ pc[Proc(q)] = "cleanup_client"
    BY <1>7 DEF CleanupClient, pipeVars, userVars
  <2>3. \A p \in Users : (Fresh(p)' => Fresh(p)) /\ (Spent(p)' => Spent(p))
    BY <2>1, <2>2 DEF Fresh, Spent
  <2> QED BY <2>1, <2>2, <2>3, QuietOwner
<1>8. CASE CloseRead(q)
  <2>1. /\ Goto(Proc(q), "close_read", "exit")
        /\ pipe' = [pipe EXCEPT ![q] = <<>>]
        /\ UNCHANGED <<procOf, owner, isOwner>>
    BY <1>8 DEF CloseRead, clientVars
  <2>2. \A p \in Users :
          /\ pc'[Conn(p)] = pc[Conn(p)] /\ pc'[User(p)] = pc[User(p)]
          /\ pc'[Proc(p)] = IF p = q THEN "exit" ELSE pc[Proc(p)]
          /\ pc[Proc(q)] = "close_read"
    BY <2>1, GotoEffect, ThreadOK, ThreadsDiffer
  <2>3. \A p \in Users : (dup'[p] = "none") <=> (dup[p] = "none")
    BY <1>8 DEF CloseRead, JoinInv, PipedInv
  <2> SUFFICES ASSUME NEW p \in Users PROVE OwnerInvOf(p)'
    BY DEF OwnerInv
  <2>4. OwnerInvOf(p)
    BY DEF OwnerInv
  <2>5. (Fresh(p)' => Fresh(p) /\ p # q) /\ (Spent(p)' => Spent(p) /\ p # q)
    BY <2>1, <2>2 DEF Fresh, Spent
  <2>6. p # q => pipe'[p] = pipe[p]
    BY <2>1 DEF TypeOK, DataOK
  <2>7. \A i \in 1..Len(pipe'[p]) : procOf'[pipe'[p][i]] = p
    BY <2>1, <2>4, <2>6 DEF OwnerInvOf, TypeOK, DataOK
  <2> HIDE DEF Fresh, Spent
  <2> QED BY <2>1, <2>2, <2>3, <2>4, <2>5, <2>6, <2>7 DEF OwnerInvOf
<1> QED
  BY <1>2, <1>3, <1>5, <1>6, <1>7, <1>8 DEF ProcStep

LEMMA OwnerInvariant == Spec => []OwnerInv
<1>1. Init => OwnerInv
  BY NoProcAssumption DEF Init, OwnerInv, OwnerInvOf, Fresh, Spent, Thread, Conn,
     Proc, User
<1>2. TypeOK /\ JoinInv /\ OwnerInv /\ [Next]_vars => OwnerInv'
  <2> SUFFICES ASSUME TypeOK, JoinInv, OwnerInv, [Next]_vars
               PROVE  OwnerInv'
    OBVIOUS
  <2>1. ASSUME NEW u \in Users,
               \/ CreateProc(u) \/ CreateProcFails(u)
               \/ \E p \in Users : JoinProc(u, p)
               \/ SendFdNoDup(u) \/ ConnStep(u)
        PROVE  OwnerInv'
    BY <2>1, ConnOwner
  <2>2. ASSUME NEW u \in Users, ProcStep(u) \/ ClientFree(u)
        PROVE  OwnerInv'
    BY <2>2, ProcOwner
  <2>3. ASSUME NEW u \in Users, UserStep(u) \/ Leave(u)
        PROVE  OwnerInv'
    BY <2>3, UserOwner
  <2>4. CASE UNCHANGED vars
    BY <2>4 DEF OwnerInv, OwnerInvOf, Fresh, Spent, vars
  <2> QED
    BY <2>1, <2>2, <2>3, <2>4 DEF Next, Terminated
<1> QED
  BY <1>1, <1>2, TypeCorrect, JoinInvariant, PTL DEF Spec

(* The user who is told that it owns the connection is the one who created   *)
(* it, however many join before the proc thread reads its first socket.      *)
THEOREM CreatorOwns == Spec => []OwnerIsCreator
<1>1. OwnerInv => OwnerIsCreator
  BY DEF OwnerInv, OwnerInvOf, OwnerIsCreator
<1> QED
  BY <1>1, OwnerInvariant, PTL

-----------------------------------------------------------------------------
(* Every duplicate that guacd_send_fd made is in one place of one pipe, with *)
(* its running user thread, closed by it, or lost by a failure the code does *)
(* not handle.                                                               *)
Holding == {"socket_open", "handshake", "session", "check_last", "cleanup"} \cup StopPc

At(p, i, u) == i \in 1..Len(pipe[p]) /\ pipe[p][i] = u

PlaceOf(u) ==
  /\ dup[u] = "piped" <=> \E p \in Users, i \in Nat : At(p, i, u)
  /\ dup[u] = "owned" <=> pc[User(u)] \in Holding
  /\ dup[u] = "closed" => pc[User(u)] = "exit"
  /\ pc[User(u)] = "exit" => dup[u] \in {"closed", "lost"}
  /\ dup[u] = "lost" => Faults \cap {"plugin", "thread", "open"} # {}

OnePlace ==
  \A p, q \in Users, i, j \in Nat, u \in Users : At(p, i, u) /\ At(q, j, u) => p = q /\ i = j

(* A proc thread that is past load_plugin without a plugin saw it fail.      *)
PluginOf(p) ==
  pc[Proc(p)] \in {"recv_fd", "cleanup_client", "free_wait", "close_read", "exit"} =>
    loaded[p] \/ "plugin" \in Faults

SocketsAccounted ==
  /\ \A u \in Users : PlaceOf(u)
  /\ OnePlace
  /\ \A p \in Users : PluginOf(p)

(* A connection that adds its user has a proc: its own, or one it found in   *)
(* the process map.                                                          *)
Adding == {"add_user", "send_fd"}
HoldsProc == \A u \in Users : pc[Conn(u)] \in Adding => procOf[u] \in Users

LEMMA AddingStep ==
  ASSUME TypeOK, HoldsProc, [Next]_vars
  PROVE  HoldsProc'
<1>1. ASSUME NEW t \in Thread, NEW from, NEW to, Goto(t, from, to), UNCHANGED procOf,
             t[1] = "conn" => from \in Adding \/ to \notin Adding
      PROVE  HoldsProc'
  <2>1. pc[t] = from /\ pc'[t] = to /\ \A s \in Thread \ {t} : pc'[s] = pc[s]
    BY <1>1, GotoEffect
  <2> QED
    BY <1>1, <2>1, ThreadOK DEF HoldsProc
<1>2. ASSUME UNCHANGED procOf, \A u \in Users : pc'[Conn(u)] = pc[Conn(u)]
      PROVE  HoldsProc'
  BY <1>2 DEF HoldsProc
<1>3. ASSUME NEW u \in Users, CreateProc(u) PROVE HoldsProc'
  BY <1>3, ThreadOK, ThreadsDiffer DEF CreateProc, HoldsProc, TypeOK, PcOK, DataOK
<1>4. ASSUME NEW u \in Users, NEW p \in Users, JoinProc(u, p) PROVE HoldsProc'
  <2>1. \A s \in Thread \ {Conn(u)} : pc'[s] = pc[s]
    BY <1>4, GotoEffect, ThreadOK DEF JoinProc
  <2> QED
    BY <1>4, <2>1, ThreadOK, ThreadsDiffer DEF JoinProc, HoldsProc, TypeOK, DataOK
<1>5. ASSUME NEW u \in Users, NEW t \in {Conn(u), User(u)}, NEW q, Stop(t, q)
      PROVE  HoldsProc'
  <2>1. PICK from, to : Goto(t, from, to) /\ to \notin Adding
    BY <1>5 DEF Stop, StopRead, StopClear, StopClose, StopClient, Adding
  <2> QED
    BY <1>1, <1>5, <2>1, ThreadOK
    DEF Stop, StopRead, StopClear, StopClose, StopClient
<1>6. ASSUME NEW u \in Users, CreateProcFails(u) \/ SendFdNoDup(u) \/ ConnStep(u)
      PROVE  HoldsProc'
  BY <1>1, <1>5, <1>6, ThreadOK
  DEF ConnStep, CreateProcFails, LoadFdSocket, SendFdNoDup, SendFd, SendFdFails,
      PthreadJoin, FreeProc, Adding
<1>7. ASSUME NEW u \in Users, UserStep(u) \/ Leave(u)
      PROVE  HoldsProc'
  BY <1>1, <1>5, <1>7, ThreadOK
  DEF UserStep, Leave, SocketOpen, SocketOpenFails, Handshake, CheckLast, Cleanup
<1>8. ASSUME NEW p \in Users, ProcStep(p) \/ ClientFree(p)
      PROVE  HoldsProc'
  <2>1. CASE RecvFd(p)
    <3>1. Head(pipe[p]) \in Users
      BY <2>1 DEF RecvFd, TypeOK, DataOK
    <3> QED
      BY <1>2, <2>1, <3>1, ThreadOK, ThreadsDiffer DEF RecvFd, TypeOK, PcOK
  <2>2. CASE RecvFdNoThread(p) \/ CleanupClient(p)
    BY <1>2, <2>2, ThreadOK, ThreadsDiffer DEF RecvFdNoThread, CleanupClient, TypeOK, PcOK
  <2>3. CASE \/ LoadPlugin(p) \/ LoadPluginFails(p) \/ RecvEof(p)
             \/ CleanupClientNoThread(p) \/ FreeWait(p) \/ CloseRead(p) \/ ClientFree(p)
    BY <1>1, <2>3, ThreadOK
    DEF LoadPlugin, LoadPluginFails, RecvEof, CleanupClientNoThread, FreeWait, CloseRead,
        ClientFree
  <2> QED
    BY <1>8, <2>1, <2>2, <2>3 DEF ProcStep
<1>9. CASE UNCHANGED vars
  BY <1>2, <1>9 DEF vars
<1> QED
  BY <1>3, <1>4, <1>6, <1>7, <1>8, <1>9 DEF Next, Terminated

LEMMA HoldsProcInvariant == Spec => []HoldsProc
<1>1. Init => HoldsProc
  BY ThreadOK DEF Init, HoldsProc, Adding
<1> QED
  BY <1>1, AddingStep, TypeCorrect, PTL DEF Spec

LEMMA AtAppend ==
  ASSUME TypeOK, NEW p \in Users, NEW u \in Users, pipe' = [pipe EXCEPT ![p] = Append(@, u)]
  PROVE  \A q \in Users, i \in Nat, v \in Users :
           At(q, i, v)' <=> At(q, i, v) \/ (q = p /\ i = Len(pipe[p]) + 1 /\ v = u)
<1> TAKE q \in Users, i \in Nat, v \in Users
<1>1. pipe \in [Users -> Seq(Users)]
  BY DEF TypeOK, DataOK
<1>2. CASE q # p
  BY <1>1, <1>2 DEF At
<1>3. CASE q = p
  <2> DEFINE s == pipe[p]
  <2>1. s \in Seq(Users) /\ pipe'[p] = Append(s, u)
    BY <1>1
  <2> HIDE DEF s
  <2>2. /\ Len(s) \in Nat /\ Len(Append(s, u)) = Len(s) + 1
        /\ \A k \in 1..Len(s) + 1 : Append(s, u)[k] = IF k = Len(s) + 1 THEN u ELSE s[k]
    BY <2>1
  <2> QED
    BY <1>3, <2>1, <2>2 DEF At, s
<1> QED
  BY <1>2, <1>3

LEMMA AtTail ==
  ASSUME TypeOK, NEW p \in Users, pipe[p] # <<>>, pipe' = [pipe EXCEPT ![p] = Tail(@)]
  PROVE  /\ Head(pipe[p]) \in Users /\ At(p, 1, Head(pipe[p]))
         /\ \A q \in Users, i \in Nat, v \in Users :
              At(q, i, v)' <=> IF q = p THEN i # 0 /\ At(p, i + 1, v) ELSE At(q, i, v)
<1>1. pipe \in [Users -> Seq(Users)]
  BY DEF TypeOK, DataOK
<1> DEFINE s == pipe[p]
<1>2. s \in Seq(Users) /\ s # <<>> /\ pipe'[p] = Tail(s)
  BY <1>1
<1>3. \A q \in Users \ {p} : pipe'[q] = pipe[q]
  BY <1>1
<1> HIDE DEF s
<1>4. /\ Len(s) \in Nat \ {0} /\ Head(s) = s[1] /\ s[1] \in Users /\ Len(Tail(s)) = Len(s) - 1
      /\ \A k \in 1..Len(s) - 1 : Tail(s)[k] = s[k + 1]
  BY <1>2
<1>5. Head(pipe[p]) \in Users /\ At(p, 1, Head(pipe[p]))
  BY <1>4 DEF At, s
<1>6. ASSUME NEW q \in Users, NEW i \in Nat, NEW v \in Users
      PROVE  At(q, i, v)' <=> IF q = p THEN i # 0 /\ At(p, i + 1, v) ELSE At(q, i, v)
  <2>1. CASE q # p
    BY <1>3, <2>1 DEF At
  <2>2. CASE q = p
    <3>1. At(p, i, v)' <=> i \in 1..Len(s) - 1 /\ Tail(s)[i] = v
      BY <1>2, <1>4 DEF At
    <3>2. At(p, i + 1, v) <=> i + 1 \in 1..Len(s) /\ s[i + 1] = v
      BY DEF At, s
    <3>3. i \in 1..Len(s) - 1 <=> i # 0 /\ i + 1 \in 1..Len(s)
      BY <1>4
    <3> QED
      BY <1>4, <2>2, <3>1, <3>2, <3>3
  <2> QED
    BY <2>1, <2>2
<1> QED
  BY <1>5, <1>6

LEMMA AtClear ==
  ASSUME TypeOK, NEW p \in Users, pipe' = [pipe EXCEPT ![p] = <<>>]
  PROVE  \A q \in Users, i \in Nat, v \in Users : At(q, i, v)' <=> q # p /\ At(q, i, v)
  BY DEF TypeOK, DataOK, At

(* A step that moves no socket.                                              *)
LEMMA QuietPlaces ==
  ASSUME SocketsAccounted, UNCHANGED <<pipe, dup>>,
         \A u \in Users : /\ pc'[User(u)] \in Holding <=> pc[User(u)] \in Holding
                          /\ pc'[User(u)] = "exit" <=> pc[User(u)] = "exit",
         \A p \in Users : PluginOf(p)'
  PROVE  SocketsAccounted'
<1>1. \A q \in Users, i \in Nat, v \in Users : At(q, i, v)' <=> At(q, i, v)
  BY DEF At
<1>2. OnePlace'
  BY <1>1 DEF SocketsAccounted, OnePlace
<1>3. ASSUME NEW u \in Users PROVE PlaceOf(u)'
  BY <1>1 DEF SocketsAccounted, PlaceOf
<1> QED
  BY <1>2, <1>3 DEF SocketsAccounted

LEMMA OutsidePlaces ==
  ASSUME TypeOK, SocketsAccounted, NEW u \in Users, NEW t \in {Conn(u), User(u), Free(u)},
         NEW from, NEW to, Goto(t, from, to), UNCHANGED <<pipe, dup, loaded>>,
         t = User(u) => from \in Holding /\ to \in Holding
  PROVE  SocketsAccounted'
<1>1. pc[t] = from /\ pc'[t] = to /\ \A s \in Thread \ {t} : pc'[s] = pc[s]
  BY GotoEffect, ThreadOK
<1>2. \A p \in Users : PluginOf(p)'
  BY <1>1, ThreadOK, ThreadsDiffer DEF SocketsAccounted, PluginOf
<1>3. "exit" \notin Holding
  BY DEF Holding, StopPc
<1>4. ASSUME NEW v \in Users
      PROVE  /\ pc'[User(v)] \in Holding <=> pc[User(v)] \in Holding
             /\ pc'[User(v)] = "exit" <=> pc[User(v)] = "exit"
  <2>1. CASE User(v) = t
    BY <1>1, <1>3, <2>1, ThreadOK, ThreadsDiffer
  <2>2. CASE User(v) # t
    BY <1>1, <2>2, ThreadOK
  <2> QED
    BY <2>1, <2>2
<1> QED
  BY <1>2, <1>4, QuietPlaces

LEMMA StopPlaces ==
  ASSUME TypeOK, SocketsAccounted, NEW u \in Users, NEW t \in {Conn(u), User(u)}, NEW q,
         Stop(t, q)
  PROVE  SocketsAccounted'
<1>1. t = User(u) => t[1] # "conn"
  BY ThreadOK
<1>2. StopPc \subseteq Holding /\ "cleanup" \in Holding
  BY DEF Holding
<1>3. UNCHANGED <<pipe, dup, loaded>>
  BY DEF Stop, StopRead, StopClear, StopClose, StopClient, pipeVars, userVars, clientVars
<1>4. PICK from, to : Goto(t, from, to) /\ (t = User(u) => from \in Holding /\ to \in Holding)
  <2>1. CASE StopRead(t, q)
    BY <1>2, <2>1 DEF StopRead, StopPc
  <2>2. CASE StopClear(t, q)
    BY <1>2, <2>2 DEF StopClear, StopPc
  <2>3. CASE StopClose(t, q)
    BY <1>2, <2>3 DEF StopClose, StopPc
  <2>4. CASE StopClient(t, q)
    BY <1>1, <1>2, <2>4 DEF StopClient, StopPc
  <2> QED
    BY <2>1, <2>2, <2>3, <2>4 DEF Stop
<1> QED
  BY <1>3, <1>4, OutsidePlaces

LEMMA ConnPlaces ==
  ASSUME TypeOK, JoinInv, HoldsProc, SocketsAccounted, NEW u \in Users,
         \/ CreateProc(u) \/ CreateProcFails(u)
         \/ \E q \in Users : JoinProc(u, q)
         \/ SendFdNoDup(u) \/ ConnStep(u)
  PROVE  SocketsAccounted'
<1>1. CASE CreateProc(u)
  <2>1. /\ UNCHANGED <<pipe, dup, loaded>>
        /\ pc' = [pc EXCEPT ![Conn(u)] = "add_user", ![Proc(u)] = "load_plugin"]
    BY <1>1 DEF CreateProc, userVars
  <2>2. \A v \in Users : pc'[User(v)] = pc[User(v)]
    BY <2>1, ThreadOK, ThreadsDiffer DEF TypeOK, PcOK
  <2>3. \A p \in Users : PluginOf(p)'
    BY <2>1, ThreadOK, ThreadsDiffer DEF SocketsAccounted, PluginOf, TypeOK, PcOK
  <2> QED
    BY <2>1, <2>2, <2>3, QuietPlaces
<1>2. CASE Stop(Conn(u), procOf[u])
  BY <1>2, StopPlaces
<1>3. CASE SendFd(u)
  <2> DEFINE p == procOf[u]
  <2>1. /\ Goto(Conn(u), "send_fd", AfterAdd(u)) /\ Writable(p)
        /\ pipe' = [pipe EXCEPT ![p] = Append(@, u)]
        /\ dup' = [dup EXCEPT ![u] = "piped"] /\ UNCHANGED loaded
    BY <1>3 DEF SendFd, clientVars
  <2>2. pc[Conn(u)] = "send_fd" /\ \A s \in Thread \ {Conn(u)} : pc'[s] = pc[s]
    BY <2>1, GotoEffect, ThreadOK
  <2>3. dup[u] = "none" /\ pc[User(u)] = "none" /\ p \in Users
    BY <2>2 DEF JoinInv, JoinInvOf, HoldsProc, Adding
  <2>4. \A v \in Users : /\ pc'[User(v)] = pc[User(v)]
                         /\ dup'[v] = IF v = u THEN "piped" ELSE dup[v]
    BY <2>1, <2>2, ThreadOK, ThreadsDiffer DEF TypeOK, DataOK
  <2>5. \A q \in Users, i \in Nat, v \in Users :
          At(q, i, v)' <=> At(q, i, v) \/ (q = p /\ i = Len(pipe[p]) + 1 /\ v = u)
    BY <2>1, <2>3, AtAppend
  <2>6. \A q \in Users, i \in Nat : ~At(q, i, u)
    BY <2>3 DEF SocketsAccounted, PlaceOf
  <2>7. OnePlace'
    BY <2>5, <2>6 DEF SocketsAccounted, OnePlace
  <2>8. Len(pipe[p]) + 1 \in Nat
    BY <2>3 DEF TypeOK, DataOK
  <2>9. ASSUME NEW v \in Users PROVE PlaceOf(v)'
    <3>1. CASE v = u
      <4>1. PICK q \in Users, i \in Nat : q = p /\ i = Len(pipe[p]) + 1
        BY <2>3, <2>8
      <4>2. At(q, i, v)'
        BY <2>5, <3>1, <4>1
      <4>3. dup'[v] = "piped" /\ pc'[User(v)] = "none"
        BY <2>3, <2>4, <3>1
      <4> HIDE DEF p
      <4> QED
        BY <4>2, <4>3 DEF PlaceOf, Holding, StopPc
    <3>2. CASE v # u
      BY <2>4, <2>5, <3>2 DEF SocketsAccounted, PlaceOf
    <3> QED
      BY <3>1, <3>2
  <2>10. \A q \in Users : PluginOf(q)'
    BY <2>1, <2>2, ThreadOK, ThreadsDiffer DEF SocketsAccounted, PluginOf
  <2> QED
    BY <2>7, <2>9, <2>10 DEF SocketsAccounted
<1> QED
  BY <1>1, <1>2, <1>3, OutsidePlaces, ThreadsDiffer
  DEF ConnStep, CreateProcFails, JoinProc, LoadFdSocket, SendFdNoDup, SendFdFails,
      PthreadJoin, FreeProc, clientVars, pipeVars, userVars

LEMMA UserPlaces ==
  ASSUME TypeOK, SocketsAccounted, NEW u \in Users, UserStep(u) \/ Leave(u)
  PROVE  SocketsAccounted'
<1>1. CASE Stop(User(u), procOf[u])
  BY <1>1, StopPlaces
<1>2. ASSUME NEW from \in Holding, NEW d \in {"closed", "lost"},
             Goto(User(u), from, "exit"), dup' = [dup EXCEPT ![u] = d],
             UNCHANGED <<pipe, loaded>>,
             d = "lost" => "open" \in Faults
      PROVE  SocketsAccounted'
  <2>1. pc[User(u)] = from /\ pc'[User(u)] = "exit" /\ \A s \in Thread \ {User(u)} : pc'[s] = pc[s]
    BY <1>2, GotoEffect, ThreadOK
  <2>2. \A q \in Users, i \in Nat, v \in Users : At(q, i, v)' <=> At(q, i, v)
    BY <1>2 DEF At
  <2>3. OnePlace'
    BY <2>2 DEF SocketsAccounted, OnePlace
  <2>4. dup[u] = "owned" /\ \A v \in Users : dup'[v] = IF v = u THEN d ELSE dup[v]
    BY <1>2, <2>1 DEF SocketsAccounted, PlaceOf, TypeOK, DataOK
  <2>5. "exit" \notin Holding
    BY DEF Holding, StopPc
  <2>6. ASSUME NEW v \in Users PROVE PlaceOf(v)'
    <3>1. CASE v = u
      BY <1>2, <2>1, <2>2, <2>4, <2>5, <3>1 DEF SocketsAccounted, PlaceOf
    <3>2. CASE v # u
      <4>1. pc'[User(v)] = pc[User(v)]
        BY <2>1, <3>2, ThreadOK, ThreadsDiffer
      <4> QED
        BY <2>2, <2>4, <3>2, <4>1 DEF SocketsAccounted, PlaceOf
    <3> QED
      BY <3>1, <3>2
  <2>7. \A q \in Users : PluginOf(q)'
    BY <1>2, <2>1, ThreadOK, ThreadsDiffer DEF SocketsAccounted, PluginOf
  <2> QED
    BY <2>3, <2>6, <2>7 DEF SocketsAccounted
<1>3. CASE SocketOpenFails(u)
  BY <1>2, <1>3 DEF SocketOpenFails, Holding, pipeVars, clientVars
<1>4. CASE Cleanup(u)
  BY <1>2, <1>4 DEF Cleanup, Holding, pipeVars, clientVars
<1>5. CASE SocketOpen(u) \/ Handshake(u) \/ CheckLast(u) \/ Leave(u)
  BY <1>5, OutsidePlaces
  DEF SocketOpen, Handshake, CheckLast, Leave, Holding, StopPc, pipeVars, clientVars, userVars
<1> QED
  BY <1>1, <1>3, <1>4, <1>5 DEF UserStep

LEMMA ProcPlaces ==
  ASSUME TypeOK, JoinInv, FreedInv, SocketsAccounted, NEW p \in Users,
         ProcStep(p) \/ ClientFree(p)
  PROVE  SocketsAccounted'
<1> DEFINE Past == {"recv_fd", "cleanup_client", "free_wait", "close_read", "exit"}
<1>p. PluginOf(p)
  BY DEF SocketsAccounted
(* Steps of the proc thread alone.                                            *)
<1>1. ASSUME UNCHANGED <<pipe, dup>>,
             \A s \in Thread \ {Proc(p), Free(p)} : pc'[s] = pc[s],
             \A q \in Users \ {p} : loaded'[q] = loaded[q],
             PluginOf(p)'
      PROVE  SocketsAccounted'
  <2>1. \A v \in Users : pc'[User(v)] = pc[User(v)]
    BY <1>1, ThreadOK, ThreadsDiffer
  <2>2. \A q \in Users : PluginOf(q)'
    BY <1>1, ThreadOK, ThreadsDiffer DEF SocketsAccounted, PluginOf
  <2> QED
    BY <1>1, <2>1, <2>2, QuietPlaces
<1>2. CASE LoadPlugin(p)
  BY <1>1, <1>2, GotoEffect, ThreadOK DEF LoadPlugin, PluginOf, pipeVars, userVars, TypeOK, DataOK
<1>3. CASE LoadPluginFails(p)
  BY <1>1, <1>3, GotoEffect, ThreadOK
  DEF LoadPluginFails, PluginOf, pipeVars, userVars, clientVars
<1>4. CASE RecvEof(p) \/ CleanupClientNoThread(p) \/ FreeWait(p)
  BY <1>p, <1>1, <1>4, GotoEffect, ThreadOK
  DEF RecvEof, CleanupClientNoThread, FreeWait, PluginOf, pipeVars, userVars, clientVars
<1>5. CASE CleanupClient(p)
  BY <1>p, <1>1, <1>5, ThreadOK
  DEF CleanupClient, PluginOf, pipeVars, userVars, TypeOK, PcOK
<1>6. CASE ClientFree(p)
  BY <1>p, <1>1, <1>6, GotoEffect, ThreadOK, ThreadsDiffer
  DEF ClientFree, PluginOf, pipeVars, userVars, clientVars
(* A socket leaves the pipe.                                                  *)
<1>7. ASSUME NEW h \in Users, h = Head(pipe[p]), pipe[p] # <<>>,
             pipe' = [pipe EXCEPT ![p] = Tail(@)], UNCHANGED loaded,
             \A s \in Thread \ {User(h)} : pc'[s] = pc[s],
             \/ pc'[User(h)] = "socket_open" /\ dup' = [dup EXCEPT ![h] = "owned"]
             \/ /\ pc'[User(h)] = pc[User(h)] /\ dup' = [dup EXCEPT ![h] = "lost"]
                /\ "thread" \in Faults
      PROVE  SocketsAccounted'
  <2>1. /\ At(p, 1, h)
        /\ \A q \in Users, i \in Nat, v \in Users :
             At(q, i, v)' <=> IF q = p THEN i # 0 /\ At(p, i + 1, v) ELSE At(q, i, v)
    BY <1>7, AtTail
  <2>2. dup[h] = "piped" /\ pc[User(h)] \notin Holding /\ pc[User(h)] # "exit"
    BY <2>1 DEF SocketsAccounted, PlaceOf
  <2>3. \A q \in Users, i \in Nat : ~At(q, i, h)'
    <3> SUFFICES ASSUME NEW q \in Users, NEW i \in Nat, At(q, i, h)' PROVE FALSE
      OBVIOUS
    <3>1. CASE q = p
      BY <2>1, <3>1 DEF SocketsAccounted, OnePlace
    <3>2. CASE q # p
      BY <2>1, <3>2 DEF SocketsAccounted, OnePlace
    <3> QED
      BY <3>1, <3>2
  <2>4. OnePlace'
    <3> SUFFICES ASSUME NEW q \in Users, NEW r \in Users, NEW i \in Nat, NEW j \in Nat,
                        NEW v \in Users, At(q, i, v)', At(r, j, v)'
                 PROVE  q = r /\ i = j
      BY DEF OnePlace
    <3> DEFINE a == IF q = p THEN i + 1 ELSE i
               b == IF r = p THEN j + 1 ELSE j
    <3>1. At(q, a, v) /\ At(r, b, v) /\ a \in Nat /\ b \in Nat
      BY <2>1
    <3>2. q = r /\ a = b
      BY <3>1 DEF SocketsAccounted, OnePlace
    <3> QED
      BY <3>2
  <2>5. ASSUME NEW v \in Users, v # h PROVE PlaceOf(v)'
    <3>1. pc'[User(v)] = pc[User(v)] /\ dup'[v] = dup[v]
      BY <1>7, <2>5, ThreadOK, ThreadsDiffer DEF TypeOK, DataOK
    <3>2. (\E q \in Users, i \in Nat : At(q, i, v)') <=> (\E q \in Users, i \in Nat : At(q, i, v))
      <4>1. ASSUME NEW q \in Users, NEW i \in Nat, At(q, i, v)'
            PROVE  \E r \in Users, j \in Nat : At(r, j, v)
        BY <2>1, <4>1
      <4>2. ASSUME NEW q \in Users, NEW i \in Nat, At(q, i, v)
            PROVE  \E r \in Users, j \in Nat : At(r, j, v)'
        <5>1. CASE q # p
          BY <2>1, <4>2, <5>1
        <5>2. CASE q = p
          <6>1. i # 0 /\ i # 1
            BY <1>7, <2>5, <4>2, <5>2 DEF At, TypeOK, DataOK
          <6>2. i - 1 \in Nat /\ i - 1 # 0 /\ (i - 1) + 1 = i
            BY <6>1
          <6> QED
            BY <2>1, <4>2, <5>2, <6>2
        <5> QED
          BY <5>1, <5>2
      <4> QED
        BY <4>1, <4>2
    <3> QED
      BY <3>1, <3>2 DEF SocketsAccounted, PlaceOf
  <2>6. PlaceOf(h)'
    BY <1>7, <2>2, <2>3 DEF PlaceOf, Holding, TypeOK, DataOK
  <2>7. \A q \in Users : PluginOf(q)'
    BY <1>7, ThreadOK, ThreadsDiffer DEF SocketsAccounted, PluginOf
  <2> QED
    BY <2>4, <2>5, <2>6, <2>7 DEF SocketsAccounted
<1>8. CASE RecvFd(p) \/ RecvFdNoThread(p)
  <2> DEFINE h == Head(pipe[p])
  <2>1. pipe[p] # <<>> /\ pipe' = [pipe EXCEPT ![p] = Tail(@)] /\ UNCHANGED loaded
    BY <1>8 DEF RecvFd, RecvFdNoThread
  <2>2. h \in Users
    BY <2>1, AtTail
  <2>3. CASE RecvFd(p)
    <3>1. pc' = [pc EXCEPT ![User(h)] = "socket_open"] /\ dup' = [dup EXCEPT ![h] = "owned"]
      BY <2>3 DEF RecvFd
    <3> HIDE DEF h
    <3>2. pc'[User(h)] = "socket_open" /\ \A s \in Thread \ {User(h)} : pc'[s] = pc[s]
      BY <2>2, <3>1, ThreadOK DEF TypeOK, PcOK
    <3> QED
      BY <1>7, <2>1, <2>2, <3>1, <3>2 DEF h
  <2>4. CASE RecvFdNoThread(p)
    BY <1>7, <2>1, <2>2, <2>4 DEF RecvFdNoThread
  <2> QED
    BY <1>8, <2>3, <2>4
(* What is left in the pipe is dropped; only a failed plugin leaves any.      *)
<1>9. CASE CloseRead(p)
  <2>1. /\ pc[Proc(p)] = "close_read" /\ pc'[Proc(p)] = "exit"
        /\ \A s \in Thread \ {Proc(p)} : pc'[s] = pc[s]
        /\ pipe' = [pipe EXCEPT ![p] = <<>>] /\ UNCHANGED loaded
        /\ dup' = [u \in Users |->
             IF \E i \in 1..Len(pipe[p]) : pipe[p][i] = u THEN "lost" ELSE dup[u]]
    BY <1>9, GotoEffect, ThreadOK DEF CloseRead, clientVars
  <2>2. \A q \in Users, i \in Nat, v \in Users : At(q, i, v)' <=> q # p /\ At(q, i, v)
    BY <2>1, AtClear
  <2>3. OnePlace'
    BY <2>2 DEF SocketsAccounted, OnePlace
  <2>4. \A q \in Users : PluginOf(q)'
    BY <2>1, ThreadOK, ThreadsDiffer DEF SocketsAccounted, PluginOf
  <2>5. ASSUME NEW v \in Users PROVE PlaceOf(v)'
    <3>0. pc'[User(v)] = pc[User(v)] /\ PlaceOf(v)
      BY <2>1, ThreadOK, ThreadsDiffer DEF SocketsAccounted
    <3>1. CASE \E i \in Nat : At(p, i, v)
      <4>1. PICK i \in Nat : At(p, i, v)
        BY <3>1
      <4>2. dup'[v] = "lost" /\ pipe[p] # <<>> /\ dup[v] = "piped"
        BY <2>1, <3>0, <4>1 DEF At, PlaceOf
      <4>3. "plugin" \in Faults
        BY <2>1, <4>2 DEF SocketsAccounted, PluginOf, FreedInv, FreedInvOf
      <4>4. \A q \in Users, j \in Nat : ~At(q, j, v)'
        BY <2>2, <4>1 DEF SocketsAccounted, OnePlace
      <4> QED
        BY <3>0, <4>2, <4>3, <4>4 DEF PlaceOf
    <3>2. CASE ~\E i \in Nat : At(p, i, v)
      <4>1. dup'[v] = dup[v]
        BY <2>1, <3>2 DEF At, TypeOK, DataOK
      <4>2. \A q \in Users, i \in Nat : At(q, i, v)' <=> At(q, i, v)
        BY <2>2, <3>2
      <4> QED
        BY <3>0, <4>1, <4>2 DEF PlaceOf
    <3> QED
      BY <3>1, <3>2
  <2> QED
    BY <2>3, <2>4, <2>5 DEF SocketsAccounted
<1> QED
  BY <1>2, <1>3, <1>4, <1>5, <1>6, <1>8, <1>9 DEF ProcStep

LEMMA SocketsInvariant == Spec => []SocketsAccounted
<1>1. Init => SocketsAccounted
  BY DEF Init, SocketsAccounted, PlaceOf, OnePlace, PluginOf, At, Holding, StopPc,
     Thread, Proc, User
<1>2. TypeOK /\ JoinInv /\ FreedInv /\ HoldsProc /\ SocketsAccounted /\ [Next]_vars => SocketsAccounted'
  <2> SUFFICES ASSUME TypeOK, JoinInv, FreedInv, HoldsProc, SocketsAccounted, [Next]_vars
               PROVE  SocketsAccounted'
    OBVIOUS
  <2>1. ASSUME NEW u \in Users,
               \/ CreateProc(u) \/ CreateProcFails(u)
               \/ \E q \in Users : JoinProc(u, q)
               \/ SendFdNoDup(u) \/ ConnStep(u)
        PROVE  SocketsAccounted'
    BY <2>1, ConnPlaces
  <2>2. ASSUME NEW u \in Users, ProcStep(u) \/ ClientFree(u)
        PROVE  SocketsAccounted'
    BY <2>2, ProcPlaces
  <2>3. ASSUME NEW u \in Users, UserStep(u) \/ Leave(u)
        PROVE  SocketsAccounted'
    BY <2>3, UserPlaces
  <2>4. CASE UNCHANGED vars
    BY <2>4, QuietPlaces DEF vars, SocketsAccounted, PluginOf
  <2> QED
    BY <2>1, <2>2, <2>3, <2>4 DEF Next, Terminated
<1> QED
  BY <1>1, <1>2, TypeCorrect, JoinInvariant, FreedInvariant, HoldsProcInvariant,
     PTL DEF Spec

(* A socket handed over is read from the pipe once, by one user thread, and  *)
(* that thread closes it before it ends.  It is lost only when the plugin,   *)
(* pthread_create of a user thread or guac_socket_open fails: never because  *)
(* a proc was stopped by several threads, or freed late or not at all.       *)
THEOREM SocketsHaveOnePlace == Spec => []((\A u \in Users : PlaceOf(u)) /\ OnePlace)
<1>1. SocketsAccounted => (\A u \in Users : PlaceOf(u)) /\ OnePlace
  BY DEF SocketsAccounted
<1> QED
  BY <1>1, SocketsInvariant, PTL

(* Only connections that create a proc are named by one.                     *)
CreatorInv == \A p \in Users : procOf[p] = p => p \in Creators

LEMMA CreatorStep ==
  ASSUME TypeOK, CreatorInv, [Next]_vars
  PROVE  CreatorInv'
<1>1. ASSUME UNCHANGED procOf PROVE CreatorInv'
  BY <1>1 DEF CreatorInv
<1>2. ASSUME NEW u \in Users, CreateProc(u) PROVE CreatorInv'
  BY <1>2 DEF CreateProc, CreatorInv, TypeOK, DataOK
<1>3. ASSUME NEW u \in Users, NEW p \in Users, JoinProc(u, p) PROVE CreatorInv'
  <2>1. u # p
    BY <1>3 DEF JoinProc, InProcMap, Goto
  <2> QED
    BY <1>3, <2>1 DEF JoinProc, CreatorInv, TypeOK, DataOK
<1>4. ASSUME NEW t, NEW q, Stop(t, q) PROVE UNCHANGED procOf
  BY <1>4 DEF Stop, StopRead, StopClear, StopClose, StopClient
<1>5. ASSUME NEW u \in Users,
             \/ CreateProcFails(u) \/ SendFdNoDup(u) \/ ConnStep(u) \/ ProcStep(u)
             \/ UserStep(u) \/ Leave(u) \/ ClientFree(u)
      PROVE  UNCHANGED procOf
  BY <1>4, <1>5
  DEF CreateProcFails, SendFdNoDup, ConnStep, LoadFdSocket, SendFd, SendFdFails, PthreadJoin,
      FreeProc, ProcStep, LoadPlugin, LoadPluginFails, RecvFd, RecvFdNoThread, RecvEof,
      CleanupClient, CleanupClientNoThread, FreeWait, CloseRead, UserStep, SocketOpen,
      SocketOpenFails, Handshake, CheckLast, Cleanup, Leave, ClientFree
<1>6. UNCHANGED vars => UNCHANGED procOf
  BY DEF vars
<1> QED
  BY <1>1, <1>2, <1>3, <1>5, <1>6 DEF Next, Terminated

LEMMA CreatorInvariant == Spec => []CreatorInv
<1>1. Init => CreatorInv
  BY NoProcAssumption DEF Init, CreatorInv
<1> QED
  BY <1>1, CreatorStep, TypeCorrect, PTL DEF Spec

(* When nothing runs any more.                                               *)
AllEnded ==
  /\ \A p \in Creators : pc[Proc(p)] = "exit"
  /\ \A u \in Users : pc[User(u)] \in {"none", "exit"}

(* proc-win32.c: a duplicate that was written to the pipe is closed when the *)
(* proc thread and the user threads have ended, however many of them stopped *)
(* the proc, unless one of three failures happens that the code does not     *)
(* handle.  This is of one proc: with others, a second close of its number   *)
(* may close an end of theirs, which is not in this model.                   *)
THEOREM NoSocketLost ==
  ASSUME Faults \cap {"plugin", "thread", "open"} = {},
         \A p, q \in Creators : p = q
  PROVE  Spec => [](AllEnded => \A u \in Users : dup[u] \in {"none", "closed"})
<1>1. TypeOK /\ FreedInv /\ OwnerInv /\ SocketsAccounted /\ CreatorInv =>
        (AllEnded => \A u \in Users : dup[u] \in {"none", "closed"})
  <2> SUFFICES ASSUME TypeOK, FreedInv, OwnerInv, SocketsAccounted, CreatorInv, AllEnded,
                      NEW u \in Users
               PROVE  dup[u] \in {"none", "closed"}
    OBVIOUS
  <2>1. dup[u] \in {"none", "piped", "owned", "closed", "lost"}
    BY DEF TypeOK, DataOK
  <2>2. dup[u] # "lost"
    BY DEF SocketsAccounted, PlaceOf
  <2>3. dup[u] # "owned"
    BY DEF SocketsAccounted, PlaceOf, AllEnded, Holding, StopPc
  <2>4. ASSUME dup[u] = "piped" PROVE FALSE
    <3>1. PICK p \in Users, i \in Nat : At(p, i, u)
      BY <2>4 DEF SocketsAccounted, PlaceOf
    <3>2. i \in 1..Len(pipe[p]) /\ pipe[p][i] = u /\ pipe[p] # <<>>
      BY <3>1 DEF At
    <3>3. procOf[p] = p
      BY <3>2 DEF OwnerInv, OwnerInvOf
    <3>4. pc[Proc(p)] = "exit"
      BY <3>3 DEF CreatorInv, AllEnded
    <3>5. loaded[p]
      BY <3>4 DEF SocketsAccounted, PluginOf
    <3> QED
      BY <3>2, <3>4, <3>5 DEF FreedInv, FreedInvOf
  <2> QED
    BY <2>1, <2>2, <2>3, <2>4
<1> QED
  BY <1>1, TypeCorrect, FreedInvariant, OwnerInvariant, SocketsInvariant, CreatorInvariant, PTL
=============================================================================
