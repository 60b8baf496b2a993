-------------------------------- MODULE CrtFd --------------------------------
(***************************************************************************)
(* The pipes of several guacd_procs as the C runtime sees them: small      *)
(* integers in one table of the process, the lowest free one handed out    *)
(* next (src-overrides/proc-win32.c and move-fd-win32.c).                  *)
(*                                                                         *)
(* guacd_send_fd is called with a copy of proc->fd_socket, and             *)
(* guacd_proc_stop closes a copy of it after clearing the field; neither   *)
(* holds a lock.  A copy may be used after another thread closed the       *)
(* number, and after guacd_create_proc was given the same number again.    *)
(*                                                                         *)
(* User u belongs to the proc ProcOf[u]; Creator[p] is the user whose      *)
(* connection created p.  Every user may decide that it was the last one   *)
(* and run guacd_proc_stop: module ProcWin32 shows that several do.        *)
(*                                                                         *)
(* A hand-over fails only where write() does: a duplication that fails or  *)
(* a plugin that does not load lets the creator stop the proc as well, and *)
(* opens and closes no other numbers than that.                            *)
(***************************************************************************)
EXTENDS Integers, Sequences, FiniteSets, FiniteSetsExt

CONSTANTS
  Procs, Users,
  Creator,       \* [Procs -> Users]
  ProcOf,        \* [Users -> Procs]
  MaxFd          \* descriptors 0..MaxFd exist; enough for every proc

Fds == 0..MaxFd
NoFd == -1
Free == <<>>

ASSUME CrtFdAssumption ==
  /\ MaxFd \in Nat /\ IsFiniteSet(Procs)
  /\ Creator \in [Procs -> Users]
  /\ ProcOf \in [Users -> Procs]
  /\ \A p \in Procs : ProcOf[Creator[p]] = p
  /\ Cardinality(Fds) >= 2 * Cardinality(Procs)

VARIABLES
  table,     \* which pipe end each descriptor number stands for
  fdSocket,  \* proc->fd_socket
  readFd,    \* the local variable read_fd of the proc thread
  procPc,    \* where the proc thread is
  pc,        \* where the connection and the user thread of each user are
  fd,        \* the copy of fd_socket such a thread works with
  pipe,      \* the contents of each pipe
  received   \* the users whose socket the thread of a proc has received

vars == <<table, fdSocket, readFd, procPc, pc, fd, pipe, received>>

Conn(u) == <<"conn", u>>
User(u) == <<"user", u>>
Thread == {"conn", "user"} \X Users
End(p, e) == <<p, e>>
Ends == Procs \X {"read", "write"}

TypeOK ==
  /\ table \in [Fds -> Ends \cup {Free}]
  /\ fdSocket \in [Procs -> Fds \cup {NoFd}]
  /\ readFd \in [Procs -> Fds \cup {NoFd}]
  /\ procPc \in [Procs -> {"none", "recv_fd", "cleanup_client", "exit"}]
  /\ pc \in [Thread -> {"accept", "add_user", "send_fd", "pthread_join", "none",
                        "session", "stop_read", "stop_clear", "stop_close", "exit"}]
  /\ fd \in [Thread -> Fds \cup {NoFd}]
  /\ pipe \in [Procs -> Seq(Users)]
  /\ received \in [Procs -> SUBSET Users]

Init ==
  /\ table = [f \in Fds |-> Free]
  /\ fdSocket = [p \in Procs |-> NoFd]
  /\ readFd = [p \in Procs |-> NoFd]
  /\ procPc = [p \in Procs |-> "none"]
  /\ pc = [t \in Thread |-> IF t[1] = "conn" THEN "accept" ELSE "none"]
  /\ fd = [t \in Thread |-> NoFd]
  /\ pipe = [p \in Procs |-> <<>>]
  /\ received = [p \in Procs |-> {}]

Goto(t, from, to) ==
  /\ pc[t] = from
  /\ pc' = [pc EXCEPT ![t] = to]

-----------------------------------------------------------------------------
(* The descriptor table.                                                    *)
FreeFds == {f \in Fds : table[f] = Free}
IsOpen(e) == \E f \in Fds : table[f] = e
StandsFor(f, e) == f \in Fds /\ table[f] = e

(* close() of a number that is not open fails with EBADF and changes nothing. *)
Close(f) == table' = [g \in Fds |-> IF g = f THEN Free ELSE table[g]]

(* guacd_create_proc: _pipe() takes the two lowest free numbers, the read   *)
(* end first.                                                               *)
CreateProc(p) ==
  LET r == Min(FreeFds)
      w == Min(FreeFds \ {r})
  IN
  /\ Goto(Conn(Creator[p]), "accept", "add_user")
  /\ table' = [table EXCEPT ![r] = End(p, "read"), ![w] = End(p, "write")]
  /\ fdSocket' = [fdSocket EXCEPT ![p] = w]
  /\ readFd' = [readFd EXCEPT ![p] = r]
  /\ procPc' = [procPc EXCEPT ![p] = "recv_fd"]
  /\ UNCHANGED <<fd, pipe, received>>

IsCreator(u) == u = Creator[ProcOf[u]]

(* connection.c: the proc is in the map while its creator waits for it.     *)
JoinProc(u) ==
  /\ ~IsCreator(u)
  /\ pc[Conn(Creator[ProcOf[u]])] = "pthread_join"
  /\ Goto(Conn(u), "accept", "add_user")
  /\ UNCHANGED <<table, fdSocket, readFd, procPc, fd, pipe, received>>

(* What a thread reads from proc->fd_socket: any number, once the connection *)
(* of the creator has freed the proc.                                        *)
FdSocketRead(p) ==
  IF pc[Conn(Creator[p])] = "exit" THEN Fds \cup {NoFd} ELSE {fdSocket[p]}

(* guacd_send_fd(proc->fd_socket, ...): the argument is evaluated, the      *)
(* socket duplicated, and then written to whatever the number stands for.   *)
LoadFdSocket(u) ==
  /\ Goto(Conn(u), "add_user", "send_fd")
  /\ \E f \in FdSocketRead(ProcOf[u]) : fd' = [fd EXCEPT ![Conn(u)] = f]
  /\ UNCHANGED <<table, fdSocket, readFd, procPc, pipe, received>>

Writable(f, p) == StandsFor(f, End(p, "write")) /\ IsOpen(End(p, "read"))
SendFd(u) ==
  /\ Goto(Conn(u), "send_fd", IF IsCreator(u) THEN "pthread_join" ELSE "exit")
  /\ \E p \in Procs :
       /\ Writable(fd[Conn(u)], p)
       /\ pipe' = [pipe EXCEPT ![p] = Append(@, u)]
  /\ UNCHANGED <<table, fdSocket, readFd, procPc, fd, received>>

(* write() fails; connection.c then stops a proc that got no user.          *)
SendFdFails(u) ==
  /\ Goto(Conn(u), "send_fd", IF IsCreator(u) THEN "stop_read" ELSE "exit")
  /\ \A p \in Procs : ~Writable(fd[Conn(u)], p)
  /\ UNCHANGED <<table, fdSocket, readFd, procPc, fd, pipe, received>>

-----------------------------------------------------------------------------
(* guacd_proc_thread_main, from its recv loop on.                           *)
RecvFd(p) ==
  /\ procPc[p] = "recv_fd"
  /\ \E q \in Procs :
       /\ StandsFor(readFd[p], End(q, "read"))
       /\ pipe[q] # <<>>
       /\ LET u == Head(pipe[q]) IN
            /\ pc' = [pc EXCEPT ![User(u)] = "session"]
            /\ received' = [received EXCEPT ![p] = @ \cup {u}]
       /\ pipe' = [pipe EXCEPT ![q] = Tail(@)]
  /\ UNCHANGED <<table, fdSocket, readFd, procPc, fd>>

(* guacd_recv_fd returns -1: read() fails, or it finds the end of the file. *)
ReadFails(f) == \A q \in Procs : ~StandsFor(f, End(q, "read"))

(* Mutant: a closed write end ends the loop before the pipe is drained.      *)
AtEofUndrained(f) ==
  \E q \in Procs : StandsFor(f, End(q, "read")) /\ ~IsOpen(End(q, "write"))

AtEof(f) ==
  \E q \in Procs :
    StandsFor(f, End(q, "read")) /\ pipe[q] = <<>> /\ ~IsOpen(End(q, "write"))

RecvEnds(p) ==
  /\ procPc[p] = "recv_fd"
  /\ ReadFails(readFd[p]) \/ AtEof(readFd[p])
  /\ procPc' = [procPc EXCEPT ![p] = "cleanup_client"]
  /\ UNCHANGED <<table, fdSocket, readFd, pc, fd, pipe, received>>

(* cleanup_client, with close(read_fd).                                     *)
CloseRead(p) ==
  /\ procPc[p] = "cleanup_client"
  /\ procPc' = [procPc EXCEPT ![p] = "exit"]
  /\ Close(readFd[p])
  /\ UNCHANGED <<fdSocket, readFd, pc, fd, pipe, received>>

(* connection.c stops the proc again after pthread_join.                    *)
PthreadJoin(u) ==
  /\ Goto(Conn(u), "pthread_join", "stop_read")
  /\ procPc[ProcOf[u]] = "exit"
  /\ UNCHANGED <<table, fdSocket, readFd, procPc, fd, pipe, received>>

(* A user leaves and its thread then checks connected_users.  By that time   *)
(* any of the others may have left as well, and one still in its handshake   *)
(* does not count: the thread may always find zero, and another number only  *)
(* while another user of the proc is there, whose own check is yet to come.  *)
Leave(u) ==
  /\ \/ Goto(User(u), "session", "stop_read")
     \/ /\ \E v \in Users \ {u} : ProcOf[v] = ProcOf[u] /\ pc[User(v)] = "session"
        /\ Goto(User(u), "session", "exit")
  /\ UNCHANGED <<table, fdSocket, readFd, procPc, fd, pipe, received>>

-----------------------------------------------------------------------------
(* guacd_proc_stop, run by thread t of a user of proc p: three steps that    *)
(* other threads may come between.                                           *)
StopRead(t, p) ==
  /\ \E f \in FdSocketRead(p) :
       /\ Goto(t, "stop_read", IF f >= 0 THEN "stop_clear" ELSE "exit")
       /\ fd' = [fd EXCEPT ![t] = f]
  /\ UNCHANGED <<table, fdSocket, readFd, procPc, pipe, received>>

(* Mutant: the field keeps the number of the closed descriptor.              *)
StopClearNot(t, p) ==
  /\ Goto(t, "stop_clear", "stop_close")
  /\ UNCHANGED <<table, fdSocket, readFd, procPc, fd, pipe, received>>

StopClear(t, p) ==
  /\ Goto(t, "stop_clear", "stop_close")
  /\ fdSocket' = [fdSocket EXCEPT ![p] = NoFd]
  /\ UNCHANGED <<table, readFd, procPc, fd, pipe, received>>

StopClose(t) ==
  /\ Goto(t, "stop_close", "exit")
  /\ Close(fd[t])
  /\ UNCHANGED <<fdSocket, readFd, procPc, fd, pipe, received>>

Stop(t, p) == StopRead(t, p) \/ StopClear(t, p) \/ StopClose(t)

-----------------------------------------------------------------------------
Terminated ==
  /\ \A t \in Thread : pc[t] \in {"accept", "none", "exit"}
  /\ \A p \in Procs : procPc[p] \in {"none", "exit"}
  /\ UNCHANGED vars

ConnStep(u) ==
  \/ LoadFdSocket(u) \/ SendFd(u) \/ SendFdFails(u) \/ PthreadJoin(u)
  \/ Stop(Conn(u), ProcOf[u])

ProcStep(p) == RecvFd(p) \/ RecvEnds(p) \/ CloseRead(p)

Next ==
  \/ \E p \in Procs : CreateProc(p) \/ ProcStep(p)
  \/ \E u \in Users :
       \/ JoinProc(u)
       \/ ConnStep(u)
       \/ Leave(u)
       \/ Stop(User(u), ProcOf[u])
  \/ Terminated

(* Every proc thread is scheduled.                                           *)
Fairness == \A p \in Procs : WF_vars(ProcStep(p))

Spec == Init /\ [][Next]_vars /\ Fairness

-----------------------------------------------------------------------------
(* A channel per proc: open while its write end is, ended when the proc      *)
(* thread has left its recv loop.                                            *)
ChannelState ==
  [p \in Procs |->
    IF procPc[p] = "none" THEN "none"
    ELSE IF procPc[p] # "recv_fd" THEN "ended"
    ELSE IF IsOpen(End(p, "write")) THEN "open" ELSE "closed"]

Channel ==
  INSTANCE FdChannel WITH
    Channel <- Procs, Socket <- Users,
    state <- ChannelState, queue <- pipe, received <- received

(* guacd_send_fd, guacd_recv_fd and guacd_proc_stop keep the promise of      *)
(* FdChannel, liveness included, when the users of one proc are the only     *)
(* ones, or every proc has one user.                                         *)
ImplementsFdChannel == Channel!Spec

(* No number outlives what it stands for: a pipe end has one descriptor, the *)
(* fd_socket of a proc is -1 or its open write end, its thread reads from    *)
(* its own pipe, and a copy somebody is about to write to or to close stands *)
(* for the write end of that user's proc or for nothing.                     *)
OwnDescriptors ==
  /\ TypeOK
  /\ \A f, g \in Fds : table[f] = table[g] /\ table[f] # Free => f = g
  /\ \A p \in Procs :
       /\ fdSocket[p] # NoFd => table[fdSocket[p]] = End(p, "write")
       /\ procPc[p] = "recv_fd" => table[readFd[p]] = End(p, "read")
  /\ \A u \in Users : \A t \in {Conn(u), User(u)} :
       pc[t] \in {"send_fd", "stop_close"} /\ fd[t] # NoFd =>
         table[fd[t]] \in {Free, End(ProcOf[u], "write")}

(* proc-win32.c: "connection.c sends user-socket fds down this pipe", the    *)
(* pipe of the proc the user asked for: its thread receives only its users.  *)
ServedByOwnProc ==
  \A p \in Procs : \A u \in received[p] : ProcOf[u] = p
=============================================================================
