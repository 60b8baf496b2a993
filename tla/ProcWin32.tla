------------------------------ MODULE ProcWin32 ------------------------------
(***************************************************************************)
(* The thread-based process model of guacd on Windows                      *)
(* (src-overrides/proc-win32.c, proc-win32.h and move-fd-win32.c).         *)
(*                                                                         *)
(* Every client connection u is served by a connection thread (Conn(u), in *)
(* connection.c, outside this repository).  It either creates a guacd_proc *)
(* or joins one that is in the process map.  A guacd_proc is named after   *)
(* the connection that created it.  It owns a pipe, a guac_client and a    *)
(* proc thread (Proc(p)); each socket read from the pipe gets a detached   *)
(* user thread (User(u)), and the client is freed by a helper thread       *)
(* (Free(p)) that the proc thread waits for with a timeout.                *)
(*                                                                         *)
(* guacd_proc_stop is four steps here (read fd_socket, clear it, close it, *)
(* stop the client) because several threads run it on the same proc with   *)
(* no lock.  Descriptor NUMBERS, and what happens when one is used after   *)
(* it was closed and handed out again, are the subject of module CrtFd;    *)
(* here a pipe end is open or closed, and a thread that uses the number of *)
(* an end that is closed meets nobody else's.  So it is with one proc, or  *)
(* with one user for each (CrtFdProofs).                                   *)
(***************************************************************************)
EXTENDS Naturals, Sequences, FiniteSets

CONSTANTS
  Users,         \* client connections
  Creators,      \* those that select a protocol; the others join by ID
  PipeCapacity,  \* socket values the pipe holds (4096 bytes / 8 in the code)
  Faults         \* the failures the environment may inject

(* create: any failure inside guacd_create_proc;  dup: WSADuplicateSocketW  *)
(* or WSASocketW;  plugin: guac_client_load_plugin;  thread: pthread_create *)
(* of a user thread;  open: guac_socket_open;  nofree: the free thread      *)
(* cannot be started;  timeout: the wait for it returns before it is done.  *)
FaultKinds ==
  {"create", "dup", "plugin", "thread", "open", "nofree", "timeout"}

ASSUME ProcAssumption ==
  /\ Creators \subseteq Users
  /\ PipeCapacity \in Nat \ {0}
  /\ Faults \subseteq FaultKinds

NoProc == "no proc"

ASSUME NoProcAssumption == NoProc \notin Users

VARIABLES
  pc,        \* where each thread is
  procOf,    \* the guacd_proc* a connection thread (and its user thread) holds
  procMem,   \* the guacd_proc structure
  clientMem, \* the guac_client, shared by every thread of the proc
  running,   \* client->state is running, not stopping
  fdSocket,  \* proc->fd_socket >= 0
  writeEnd,  \* the write end of the pipe is open
  readEnd,   \* the read end of the pipe is open
  pipe,      \* the sockets in the pipe, by the user they belong to
  loaded,    \* guac_client_load_plugin succeeded
  owner,     \* the local variable owner of the proc thread
  isOwner,   \* params->owner of a user thread
  dup        \* the duplicated SOCKET of a user

vars == <<pc, procOf, procMem, clientMem, running, fdSocket, writeEnd,
          readEnd, pipe, loaded, owner, isOwner, dup>>
pipeVars   == <<writeEnd, readEnd, pipe>>
memVars    == <<procMem, clientMem>>
clientVars == <<running, loaded, owner>>
userVars   == <<isOwner, dup>>

Conn(u) == <<"conn", u>>
Proc(p) == <<"proc", p>>
User(u) == <<"user", u>>
Free(p) == <<"free", p>>
Thread == {"conn", "proc", "user", "free"} \X Users

StopPc == {"stop_read", "stop_clear", "stop_close", "stop_client"}
ConnPc == {"accept", "add_user", "send_fd", "pthread_join", "mem_free", "exit"}
ProcPc == {"none", "load_plugin", "recv_fd", "cleanup_client", "free_wait",
           "close_read", "exit"}
UserPc == {"none", "socket_open", "handshake", "session", "check_last",
           "cleanup", "exit"}
FreePc == {"none", "client_free", "exit"}

PcOK ==
  /\ pc \in [Thread -> ConnPc \cup ProcPc \cup UserPc \cup FreePc \cup StopPc]
  /\ \A u \in Users :
       /\ pc[Conn(u)] \in ConnPc \cup StopPc
       /\ pc[Proc(u)] \in ProcPc
       /\ pc[User(u)] \in UserPc \cup StopPc
       /\ pc[Free(u)] \in FreePc

DataOK ==
  /\ procOf \in [Users -> Users \cup {NoProc}]
  /\ procMem \in [Users -> {"none", "live", "freed"}]
  /\ clientMem \in [Users -> {"none", "live", "freed"}]
  /\ running \in [Users -> BOOLEAN]
  /\ fdSocket \in [Users -> BOOLEAN]
  /\ writeEnd \in [Users -> BOOLEAN]
  /\ readEnd \in [Users -> BOOLEAN]
  /\ pipe \in [Users -> Seq(Users)]
  /\ \A p \in Users : Len(pipe[p]) <= PipeCapacity
  /\ loaded \in [Users -> BOOLEAN]
  /\ owner \in [Users -> BOOLEAN]
  /\ isOwner \in [Users -> BOOLEAN]
  /\ dup \in [Users -> {"none", "piped", "owned", "closed", "lost"}]

TypeOK == PcOK /\ DataOK

Init ==
  /\ pc = [t \in Thread |-> IF t[1] = "conn" THEN "accept" ELSE "none"]
  /\ procOf = [u \in Users |-> NoProc]
  /\ procMem = [p \in Users |-> "none"]
  /\ clientMem = [p \in Users |-> "none"]
  /\ running = [p \in Users |-> FALSE]
  /\ fdSocket = [p \in Users |-> FALSE]
  /\ writeEnd = [p \in Users |-> FALSE]
  /\ readEnd = [p \in Users |-> FALSE]
  /\ pipe = [p \in Users |-> <<>>]
  /\ loaded = [p \in Users |-> FALSE]
  /\ owner = [p \in Users |-> FALSE]
  /\ isOwner = [u \in Users |-> FALSE]
  /\ dup = [u \in Users |-> "none"]

Goto(t, from, to) ==
  /\ pc[t] = from
  /\ pc' = [pc EXCEPT ![t] = to]

ClientFreed(p) == clientMem[p] = "freed"

-----------------------------------------------------------------------------
(* guacd_create_proc: pipe, structure, client and proc thread.              *)
CreateProc(u) ==
  /\ u \in Creators
  /\ pc[Conn(u)] = "accept"
  /\ pc' = [pc EXCEPT ![Conn(u)] = "add_user", ![Proc(u)] = "load_plugin"]
  /\ procOf' = [procOf EXCEPT ![u] = u]
  /\ procMem' = [procMem EXCEPT ![u] = "live"]
  /\ clientMem' = [clientMem EXCEPT ![u] = "live"]
  /\ running' = [running EXCEPT ![u] = TRUE]
  /\ fdSocket' = [fdSocket EXCEPT ![u] = TRUE]
  /\ writeEnd' = [writeEnd EXCEPT ![u] = TRUE]
  /\ readEnd' = [readEnd EXCEPT ![u] = TRUE]
  /\ UNCHANGED <<pipe, loaded, owner, userVars>>

(* ... each of its failure paths releases what it had acquired and returns  *)
(* NULL, and the connection ends.                                           *)
CreateProcFails(u) ==
  /\ u \in Creators
  /\ "create" \in Faults
  /\ Goto(Conn(u), "accept", "exit")
  /\ UNCHANGED <<procOf, memVars, clientVars, fdSocket, pipeVars, userVars>>

(* connection.c: a proc is in the process map from the hand-over of its     *)
(* creator until its thread was joined; another connection may look it up.  *)
InProcMap(p) == pc[Conn(p)] = "pthread_join"

JoinProc(u, p) ==
  /\ InProcMap(p)
  /\ Goto(Conn(u), "accept", "add_user")
  /\ procOf' = [procOf EXCEPT ![u] = p]
  /\ UNCHANGED <<memVars, clientVars, fdSocket, pipeVars, userVars>>

(* connection.c after guacd_add_user: the creator of the proc waits for its *)
(* thread if the user was added and stops it at once if not; the connection *)
(* thread of a joining user is finished either way.                         *)
AfterAdd(u)     == IF procOf[u] = u THEN "pthread_join" ELSE "exit"
AfterAddFail(u) == IF procOf[u] = u THEN "stop_read" ELSE "exit"

(* proc->fd_socket as a thread finds it: anything if the structure is freed. *)
FdSocketRead(p) == IF procMem[p] = "freed" THEN BOOLEAN ELSE {fdSocket[p]}

(* guacd_send_fd(proc->fd_socket, ...): the descriptor is loaded before the *)
(* socket is duplicated and written, by a joining user perhaps from a proc  *)
(* that its creator has freed meanwhile.                                    *)
LoadFdSocket(u) ==
  /\ pc[Conn(u)] = "add_user"
  /\ \E isOpen \in FdSocketRead(procOf[u]) :
       Goto(Conn(u), "add_user", IF isOpen THEN "send_fd" ELSE AfterAddFail(u))
  /\ UNCHANGED <<procOf, memVars, clientVars, fdSocket, pipeVars, userVars>>

SendFdNoDup(u) ==
  /\ "dup" \in Faults
  /\ Goto(Conn(u), "send_fd", AfterAddFail(u))
  /\ UNCHANGED <<procOf, memVars, clientVars, fdSocket, pipeVars, userVars>>

(* Mutants: one socket too many, one too few, and a write to a closed end.  *)
RoomForOneMore(p) == Len(pipe[p]) <= PipeCapacity
RoomForOneLess(p) == Len(pipe[p]) + 1 < PipeCapacity

PipeHasRoom(p) == Len(pipe[p]) < PipeCapacity

WritableThoughClosed(p) == readEnd[p]

Writable(p) == writeEnd[p] /\ readEnd[p]

(* write() blocks while the pipe is full and both ends are open.            *)
SendFd(u) ==
  LET p == procOf[u] IN
  /\ Goto(Conn(u), "send_fd", AfterAdd(u))
  /\ Writable(p) /\ PipeHasRoom(p)
  /\ pipe' = [pipe EXCEPT ![p] = Append(@, u)]
  /\ dup' = [dup EXCEPT ![u] = "piped"]
  /\ UNCHANGED <<procOf, memVars, clientVars, fdSocket, writeEnd, readEnd,
                 isOwner>>

(* write() fails: the duplicate is closed again and 0 is returned.          *)
SendFdFails(u) ==
  /\ Goto(Conn(u), "send_fd", AfterAddFail(u))
  /\ ~Writable(procOf[u])
  /\ UNCHANGED <<procOf, memVars, clientVars, fdSocket, pipeVars, userVars>>

(* Mutant: waitpid() as compat/windows-posix.h provides it, which does not   *)
(* wait.                                                                     *)
PthreadJoinAtOnce(u) ==
  /\ Goto(Conn(u), "pthread_join", "stop_read")
  /\ UNCHANGED <<procOf, memVars, clientVars, fdSocket, pipeVars, userVars>>

(* The replacement of waitpid(): returns when the proc thread has returned. *)
PthreadJoin(u) ==
  /\ pc[Proc(u)] = "exit"
  /\ Goto(Conn(u), "pthread_join", "stop_read")
  /\ UNCHANGED <<procOf, memVars, clientVars, fdSocket, pipeVars, userVars>>

(* connection.c: "proc itself is freed by connection.c".                    *)
FreeProc(u) ==
  /\ Goto(Conn(u), "mem_free", "exit")
  /\ procMem' = [procMem EXCEPT ![u] = "freed"]
  /\ UNCHANGED <<procOf, clientMem, clientVars, fdSocket, pipeVars, userVars>>

-----------------------------------------------------------------------------
(* guacd_proc_stop(procOf[u]), run by thread t: the connection thread of the *)
(* creator or the user thread of any user, on the same proc and unlocked.    *)
(* User threads are detached, and may still run it when the proc is freed.   *)
StopRead(t, p) ==
  /\ pc[t] = "stop_read"
  /\ \E isOpen \in FdSocketRead(p) :
       Goto(t, "stop_read", IF isOpen THEN "stop_clear" ELSE "stop_client")
  /\ UNCHANGED <<procOf, memVars, clientVars, fdSocket, pipeVars, userVars>>

StopClear(t, p) ==
  /\ Goto(t, "stop_clear", "stop_close")
  /\ fdSocket' = [fdSocket EXCEPT ![p] = FALSE]
  /\ UNCHANGED <<procOf, memVars, clientVars, pipeVars, userVars>>

(* close() of a number that was closed already is an error here, whoever the *)
(* number belongs to by now; CrtFd follows it.                               *)
StopClose(t, p) ==
  /\ Goto(t, "stop_close", "stop_client")
  /\ writeEnd' = [writeEnd EXCEPT ![p] = FALSE]
  /\ UNCHANGED <<procOf, memVars, clientVars, fdSocket, readEnd, pipe,
                 userVars>>

StopClient(t, p) ==
  /\ Goto(t, "stop_client", IF t[1] = "conn" THEN "mem_free" ELSE "cleanup")
  /\ running' = [running EXCEPT ![p] = FALSE]
  /\ UNCHANGED <<procOf, memVars, loaded, owner, fdSocket, pipeVars, userVars>>

Stop(t, p) ==
  StopRead(t, p) \/ StopClear(t, p) \/ StopClose(t, p) \/ StopClient(t, p)

-----------------------------------------------------------------------------
(* guacd_proc_thread_main.  It reads proc->client once, on entry.  If the    *)
(* hand-over failed the creator may have freed proc before that: a client    *)
(* that is not one is a plugin that does not load.                           *)
LoadPlugin(p) ==
  /\ Goto(Proc(p), "load_plugin", "recv_fd")
  /\ loaded' = [loaded EXCEPT ![p] = TRUE]
  /\ owner' = [owner EXCEPT ![p] = TRUE]
  /\ UNCHANGED <<procOf, memVars, running, fdSocket, pipeVars, userVars>>

LoadPluginFails(p) ==
  /\ "plugin" \in Faults
  /\ Goto(Proc(p), "load_plugin", "cleanup_client")
  /\ UNCHANGED <<procOf, memVars, clientVars, fdSocket, pipeVars, userVars>>

(* Mutant: the owner flag is never cleared.                                  *)
OwnerStays(p) == owner[p]

(* owner = 0 at the end of each turn of the loop.                            *)
OwnerAfter(p) == FALSE

(* guacd_recv_fd and guacd_proc_add_user: a socket starts a user thread, the *)
(* first one with params->owner set.                                         *)
RecvFd(p) ==
  /\ pc[Proc(p)] = "recv_fd"
  /\ pipe[p] # <<>>
  /\ LET u == Head(pipe[p]) IN
       /\ pc' = [pc EXCEPT ![User(u)] = "socket_open"]
       /\ isOwner' = [isOwner EXCEPT ![u] = owner[p]]
       /\ dup' = [dup EXCEPT ![u] = "owned"]
  /\ pipe' = [pipe EXCEPT ![p] = Tail(@)]
  /\ owner' = [owner EXCEPT ![p] = OwnerAfter(p)]
  /\ UNCHANGED <<procOf, memVars, running, loaded, fdSocket, writeEnd, readEnd>>

(* ... whose pthread_create is not checked: params and the socket are lost.  *)
RecvFdNoThread(p) ==
  /\ "thread" \in Faults
  /\ pc[Proc(p)] = "recv_fd"
  /\ pipe[p] # <<>>
  /\ dup' = [dup EXCEPT ![Head(pipe[p])] = "lost"]
  /\ pipe' = [pipe EXCEPT ![p] = Tail(@)]
  /\ owner' = [owner EXCEPT ![p] = OwnerAfter(p)]
  /\ UNCHANGED <<pc, procOf, memVars, running, loaded, fdSocket, writeEnd,
                 readEnd, isOwner>>

(* Mutants: the loop ends with sockets in the pipe; it waits for the wrong   *)
(* end to be closed.                                                         *)
AtEofUndrained(p) == ~writeEnd[p]
AtEofOfReadEnd(p) == pipe[p] = <<>> /\ ~readEnd[p]

(* read() returns 0 once the write end is closed and the pipe is drained.    *)
AtEof(p) == pipe[p] = <<>> /\ ~writeEnd[p]

RecvEof(p) ==
  /\ AtEof(p)
  /\ Goto(Proc(p), "recv_fd", "cleanup_client")
  /\ UNCHANGED <<procOf, memVars, clientVars, fdSocket, pipeVars, userVars>>

(* cleanup_client: guac_client_stop, then guacd_timed_client_free starts the *)
(* thread that frees the client ...                                          *)
CleanupClient(p) ==
  /\ pc[Proc(p)] = "cleanup_client"
  /\ pc' = [pc EXCEPT ![Proc(p)] = "free_wait", ![Free(p)] = "client_free"]
  /\ running' = [running EXCEPT ![p] = FALSE]
  /\ UNCHANGED <<procOf, memVars, loaded, owner, fdSocket, pipeVars, userVars>>

(* ... or fails to start it, and the client is never freed.                  *)
CleanupClientNoThread(p) ==
  /\ "nofree" \in Faults
  /\ Goto(Proc(p), "cleanup_client", "close_read")
  /\ running' = [running EXCEPT ![p] = FALSE]
  /\ UNCHANGED <<procOf, memVars, loaded, owner, fdSocket, pipeVars, userVars>>

FreeWait(p) ==
  /\ pc[Free(p)] = "exit" \/ "timeout" \in Faults
  /\ Goto(Proc(p), "free_wait", "close_read")
  /\ UNCHANGED <<procOf, memVars, clientVars, fdSocket, pipeVars, userVars>>

ClientFree(p) ==
  /\ Goto(Free(p), "client_free", "exit")
  /\ clientMem' = [clientMem EXCEPT ![p] = "freed"]
  /\ UNCHANGED <<procOf, procMem, clientVars, fdSocket, pipeVars, userVars>>

(* Closing the read end drops the sockets still in the pipe.                 *)
CloseRead(p) ==
  /\ Goto(Proc(p), "close_read", "exit")
  /\ readEnd' = [readEnd EXCEPT ![p] = FALSE]
  /\ pipe' = [pipe EXCEPT ![p] = <<>>]
  /\ dup' = [u \in Users |->
               IF \E i \in 1..Len(pipe[p]) : pipe[p][i] = u THEN "lost" ELSE dup[u]]
  /\ UNCHANGED <<procOf, memVars, clientVars, fdSocket, writeEnd, isOwner>>

-----------------------------------------------------------------------------
(* guacd_user_thread; guac_user_handle_connection is handshake and session.  *)
(* connected_users of the client counts the users in a session.              *)
Connected(p) == {u \in Users : procOf[u] = p /\ pc[User(u)] = "session"}

SocketOpen(u) ==
  /\ Goto(User(u), "socket_open", "handshake")
  /\ UNCHANGED <<procOf, memVars, clientVars, fdSocket, pipeVars, userVars>>

(* guac_socket_open fails: the thread returns and the socket stays open.     *)
SocketOpenFails(u) ==
  /\ "open" \in Faults
  /\ Goto(User(u), "socket_open", "exit")
  /\ dup' = [dup EXCEPT ![u] = "lost"]
  /\ UNCHANGED <<procOf, memVars, clientVars, fdSocket, pipeVars, isOwner>>

(* The handshake ends with the user joining, or fails or times out.          *)
Handshake(u) ==
  /\ \/ Goto(User(u), "handshake", "session")
     \/ Goto(User(u), "handshake", "check_last")
  /\ UNCHANGED <<procOf, memVars, clientVars, fdSocket, pipeVars, userVars>>

(* The user disconnects, or is disconnected because the client is stopping.  *)
Leave(u) ==
  /\ Goto(User(u), "session", "check_last")
  /\ UNCHANGED <<procOf, memVars, clientVars, fdSocket, pipeVars, userVars>>

(* Mutant: the user still counts itself.                                     *)
NobodyElseConnected(p) == Cardinality(Connected(p)) = 1

NobodyConnected(p) == Connected(p) = {}

(* client->connected_users == 0; anything if the client is freed.            *)
CheckLast(u) ==
  LET p == procOf[u] IN
  /\ \/ /\ Goto(User(u), "check_last", "stop_read")
        /\ NobodyConnected(p) \/ ClientFreed(p)
     \/ /\ Goto(User(u), "check_last", "cleanup")
        /\ ~NobodyConnected(p) \/ ClientFreed(p)
  /\ UNCHANGED <<procOf, memVars, clientVars, fdSocket, pipeVars, userVars>>

Cleanup(u) ==
  /\ Goto(User(u), "cleanup", "exit")
  /\ dup' = [dup EXCEPT ![u] = "closed"]
  /\ UNCHANGED <<procOf, memVars, clientVars, fdSocket, pipeVars, isOwner>>

-----------------------------------------------------------------------------
ConnStep(u) ==
  \/ LoadFdSocket(u) \/ SendFd(u) \/ SendFdFails(u)
  \/ PthreadJoin(u) \/ FreeProc(u)
  \/ Stop(Conn(u), procOf[u])

ProcStep(p) ==
  \/ LoadPlugin(p) \/ LoadPluginFails(p)
  \/ RecvFd(p) \/ RecvFdNoThread(p) \/ RecvEof(p)
  \/ CleanupClient(p) \/ CleanupClientNoThread(p)
  \/ FreeWait(p) \/ CloseRead(p)

UserStep(u) ==
  \/ SocketOpen(u) \/ SocketOpenFails(u) \/ Handshake(u)
  \/ CheckLast(u) \/ Cleanup(u)
  \/ Stop(User(u), procOf[u])

Terminated ==
  /\ \A u \in Users :
       /\ pc[Conn(u)] \in {"accept", "exit"}
       /\ \A t \in {Proc(u), User(u), Free(u)} : pc[t] \in {"none", "exit"}
  /\ UNCHANGED vars

Next ==
  \/ \E u \in Users :
       \/ CreateProc(u) \/ CreateProcFails(u)
       \/ \E p \in Users : JoinProc(u, p)
       \/ SendFdNoDup(u) \/ ConnStep(u)
       \/ ProcStep(u)
       \/ UserStep(u)
       \/ Leave(u)
       \/ ClientFree(u)
  \/ Terminated

(* Threads are scheduled, but a duplication need not fail; the handshake     *)
(* ends by its 15 second timeout; a session must end only when the client is *)
(* stopping; freeing ends.  New connections need not arrive.                 *)
Fairness ==
  \A u \in Users :
    /\ WF_vars(ConnStep(u))
    /\ WF_vars(ProcStep(u))
    /\ WF_vars(UserStep(u))
    /\ WF_vars(Leave(u) /\ ~running[procOf[u]])
    /\ WF_vars(ClientFree(u))

Spec == Init /\ [][Next]_vars /\ Fairness

-----------------------------------------------------------------------------
(* The proc a user belongs to is freed only after its proc thread returned,  *)
(* once its creator was handed over: the join in connection.c orders the two *)
(* frees whatever the other users do.                                        *)
ProcFreedAfterJoin ==
  \A p \in Users :
    procMem[p] = "freed" /\ dup[p] # "none" => pc[Proc(p)] = "exit"

(* guacd_recv_fd hands the owner flag to the first socket it reads: that is  *)
(* always the creator's, never the one of a user who joined the proc.        *)
OwnerIsCreator ==
  \A u \in Users :
    pc[User(u)] # "none" => (isOwner[u] <=> procOf[u] = u)

(* The client of a proc that served users is freed only when nobody can be   *)
(* handed over any more and everybody who was has been started: the write    *)
(* end is closed, the pipe drained and the client told to stop.              *)
FreedOnlyAfterEof ==
  \A p \in Users :
    ClientFreed(p) =>
      /\ ~running[p]
      /\ loaded[p] => ~writeEnd[p] /\ pipe[p] = <<>>

(* Closing the write end ends the proc thread: EOF reaches the recv loop     *)
(* past every socket already in the pipe (proc-win32.c, header comment).     *)
StopEndsProc ==
  \A p \in Users :
    (procMem[p] # "none" /\ ~writeEnd[p]) ~> pc[Proc(p)] = "exit"

(* A proc whose users have all gone ends by itself: whichever user checks    *)
(* connected_users last finds it zero and stops the proc.                    *)
Deserted(p) ==
  /\ dup[p] # "none" /\ procOf[p] = p
  /\ \A u \in Users : procOf[u] = p /\ dup[u] # "none" => pc[User(u)] = "exit"

LastUserStops == \A p \in Users : Deserted(p) ~> pc[Proc(p)] = "exit"

(* A socket that was duplicated for the proc thread is closed once the       *)
(* client is stopping, whether it was in the pipe or with a user thread.     *)
SocketsReleased ==
  \A u \in Users :
    (dup[u] \in {"piped", "owned"} /\ ~running[procOf[u]]) ~> dup[u] = "closed"

(* A connection thread does not stay blocked in write(), whatever fails on   *)
(* the other side of the pipe.                                               *)
HandOverEnds ==
  \A u \in Users : pc[Conn(u)] = "send_fd" ~> pc[Conn(u)] # "send_fd"

(* The pipe of a proc, its recv loop and guacd_proc_stop are the channel of  *)
(* module FdChannel, provided that the plugin loads and that a received      *)
(* socket gets its thread and its guac_socket.                               *)
ChannelState ==
  [p \in Users |->
    IF procMem[p] = "none" THEN "none"
    ELSE IF pc[Proc(p)] \notin {"load_plugin", "recv_fd"} THEN "ended"
    ELSE IF writeEnd[p] THEN "open" ELSE "closed"]

Received ==
  [p \in Users |-> {u \in Users : procOf[u] = p /\ dup[u] \in {"owned", "closed"}}]

Channel ==
  INSTANCE FdChannel WITH
    Channel <- Users, Socket <- Users,
    state <- ChannelState, queue <- pipe, received <- Received

ImplementsFdChannel == Channel!Spec

(* proc-win32.c: guac_client_stop in guacd_proc_stop is "safe to call from   *)
(* any thread".  A thread may reach it after the client was freed.           *)
StopSafe ==
  \A u \in Users : \A t \in {Conn(u), User(u)} :
    pc[t] = "stop_client" => ~ClientFreed(procOf[u])
=============================================================================
