----------------------------- MODULE SocketPair -----------------------------
(***************************************************************************)
(* The sockets of a connection from socketpair() of compat/windows-posix.h *)
(* on: two ends of a TCP connection on the loopback, one read by the I/O   *)
(* thread of connection.c, the other duplicated, sent through the pipe     *)
(* (move-fd-win32.c), used by the user thread and closed.  Meanwhile the   *)
(* session opens a socket of its own and makes it non-blocking (fcntl).    *)
(*                                                                         *)
(* Everything between two Winsock calls keeps a SOCKET as an int and       *)
(* converts it back, with the sign in connection.c, without it elsewhere.  *)
(* Handles that were closed are handed out again to any thread.            *)
(*                                                                         *)
(* connection.c calls a copy of socketpair() (patch-source.py) that closes *)
(* the listener before it tests what accept() returned, not after it.      *)
(***************************************************************************)
EXTENDS Integers, Sequences, FiniteSets

CONSTANTS
  Conn,          \* connection threads
  Handles,       \* the SOCKET values Winsock hands out
  IntSize,       \* an int holds IntSize values, 2^32
  SocketSize,    \* a SOCKET SocketSize, 2^64
  LowestFirst    \* whether the lowest free handle is handed out next

IntHalf == IntSize \div 2
Names == {"listener", "s0", "s1", "dup", "tcp"}
INVALID_SOCKET == -1

(* windows-posix.h: "valid for small handle indices that WinSock uses in     *)
(* practice".                                                                *)
ASSUME SmallHandles ==
  /\ IntSize \in Nat /\ IntHalf \in Nat /\ IntSize = IntHalf + IntHalf
  /\ SocketSize \in Nat /\ SocketSize >= IntSize
  /\ Handles \subseteq 1..IntHalf - 1
  /\ LowestFirst \in BOOLEAN

VARIABLES
  sock,          \* what each handle is open for: a socket of a connection, or Free
  pc,            \* where each connection thread is
  session,       \* where the user thread of each connection is
  local,         \* the SOCKET variables of each connection, by name
  asInt,         \* the ints that stand for them
  backlog,       \* who waits for an accept() at the listener of each connection
  peer,          \* to whom the accepted socket is connected
  nonblocking    \* the sockets in non-blocking mode

socketVars == <<sock, pc, session, local, asInt, backlog, peer, nonblocking>>

(* A duplicate is another handle for the same socket.                        *)
Socket(c, n) == <<c, IF n = "dup" THEN "s1" ELSE n>>
Sockets == {Socket(c, n) : c \in Conn, n \in Names}
Free == <<>>

Before == {"start", "prepare", "socket_s0", "connect", "accept", "close_listener", "err_s0",
           "err_listener", "failed"}
After == {"duplicate", "write", "send_failed", "close_proc_fd", "io", "io_close",
          "browser_left", "done"}

NoSocket == [n \in Names |-> INVALID_SOCKET]

SocketTypeOK ==
  /\ sock \in [Handles -> Sockets \cup {Free}]
  /\ pc \in [Conn -> Before \cup After]
  /\ session \in [Conn -> {"none", "recv", "plugin", "fcntl", "session", "close_tcp",
                           "close", "end"}]
  /\ local \in [Conn -> [Names -> Handles \cup {INVALID_SOCKET}]]
  /\ asInt \in [Conn -> [Names -> Int]]
  /\ backlog \in [Conn -> Seq({"s0", "stranger"})]
  /\ peer \in [Conn -> {"none", "s0", "stranger"}]
  /\ nonblocking \subseteq Sockets
  /\ \A c \in Conn : session[c] = "recv" => local[c]["dup"] \in Handles

SocketInit ==
  /\ sock = [h \in Handles |-> Free]
  /\ pc = [c \in Conn |-> "start"]
  /\ session = [c \in Conn |-> "none"]
  /\ local = [c \in Conn |-> NoSocket]
  /\ asInt = [c \in Conn |-> [n \in Names |-> 0]]
  /\ backlog = [c \in Conn |-> <<>>]
  /\ peer = [c \in Conn |-> "none"]
  /\ nonblocking = {}

-----------------------------------------------------------------------------
(* The conversions.                                                          *)

(* Mutant: the value is cut to fewer bits than an int has.                   *)
ToShort(h) == h % (IntHalf \div 2)

(* (int)(intptr_t)s, and the last line of guacd_recv_fd: the low half.       *)
ToInt(h) ==
  LET low == h % IntSize IN IF low >= IntHalf THEN low - IntSize ELSE low

(* (SOCKET)(uintptr_t)(unsigned int)fd and (SOCKET)(intptr_t)fd.             *)
ZeroExtend(i) == i % IntSize
SignExtend(i) == i % SocketSize

(* Winsock.                                                                  *)
IsFree(h) ==
  /\ h \in Handles /\ sock[h] = Free
  /\ LowestFirst => \A g \in Handles : sock[g] = Free => h <= g

Goto(c, from, to) ==
  /\ pc[c] = from
  /\ pc' = [pc EXCEPT ![c] = to]

UserGoto(c, from, to) ==
  /\ session[c] = from
  /\ session' = [session EXCEPT ![c] = to]

(* A call that creates a socket for a variable.                              *)
Open(c, n) ==
  \E h \in Handles :
    /\ IsFree(h)
    /\ sock' = [sock EXCEPT ![h] = Socket(c, n)]
    /\ local' = [local EXCEPT ![c][n] = h]
    /\ nonblocking' = nonblocking \ {Socket(c, n)}

(* closesocket() of a value that is no open handle fails and changes nothing. *)
closesocket(h) == sock' = [g \in Handles |-> IF g = h THEN Free ELSE sock[g]]

(* What a thread remembers ends with the function, or the client, it is in.  *)
Forget(c) == local' = [local EXCEPT ![c] = NoSocket]
ForgetInts(c, names) ==
  asInt' = [asInt EXCEPT ![c] = [n \in Names |-> IF n \in names THEN 0 ELSE asInt[c][n]]]

-----------------------------------------------------------------------------
(* socketpair(): every call may fail.                                        *)
sameButSock == <<session, local, asInt, backlog, peer, nonblocking>>

SocketListener(c) ==
  \/ /\ Goto(c, "start", "prepare") /\ Open(c, "listener")
     /\ UNCHANGED <<session, asInt, backlog, peer>>
  \/ /\ Goto(c, "start", "failed")
     /\ UNCHANGED <<sock, sameButSock>>

(* bind(), listen() and getsockname(), each with the same way out.           *)
Prepare(c) ==
  /\ Goto(c, "prepare", "socket_s0") \/ Goto(c, "prepare", "err_listener")
  /\ UNCHANGED <<sock, sameButSock>>

SocketS0(c) ==
  \/ /\ Goto(c, "socket_s0", "connect") /\ Open(c, "s0")
     /\ UNCHANGED <<session, asInt, backlog, peer>>
  \/ /\ Goto(c, "socket_s0", "err_listener")
     /\ UNCHANGED <<sock, sameButSock>>

Connect(c) ==
  \/ /\ Goto(c, "connect", "accept")
     /\ backlog' = [backlog EXCEPT ![c] = Append(@, "s0")]
     /\ UNCHANGED <<sock, session, local, asInt, peer, nonblocking>>
  \/ /\ Goto(c, "connect", "err_s0")
     /\ UNCHANGED <<sock, sameButSock>>

(* Another program connects to the port first.                               *)
Stranger(c) ==
  /\ pc[c] \in {"socket_s0", "connect"}
  /\ backlog[c] = <<>>
  /\ backlog' = [backlog EXCEPT ![c] = <<"stranger">>]
  /\ UNCHANGED <<sock, pc, session, local, asInt, peer, nonblocking>>

Accept(c) ==
  \/ /\ Goto(c, "accept", "close_listener") /\ Open(c, "s1")
     /\ peer' = [peer EXCEPT ![c] = Head(backlog[c])]
     /\ backlog' = [backlog EXCEPT ![c] = Tail(@)]
     /\ UNCHANGED <<session, asInt>>
  \/ /\ Goto(c, "accept", "err_s0")
     /\ UNCHANGED <<sock, sameButSock>>

CloseListener(c) ==
  /\ Goto(c, "close_listener", "duplicate")
  /\ closesocket(local[c]["listener"])
  /\ asInt' = [asInt EXCEPT ![c]["s0"] = ToInt(local[c]["s0"]),
                            ![c]["s1"] = ToInt(local[c]["s1"])]
  /\ Forget(c)
  /\ backlog' = [backlog EXCEPT ![c] = <<>>]
  /\ UNCHANGED <<session, peer, nonblocking>>

(* Mutant: a failed connect() or accept() leaves the first socket open.      *)
ErrS0Not(c) ==
  /\ Goto(c, "err_s0", "err_listener")
  /\ UNCHANGED <<sock, sameButSock>>

ErrS0(c) ==
  /\ Goto(c, "err_s0", "err_listener")
  /\ closesocket(local[c]["s0"])
  /\ UNCHANGED sameButSock

ErrListener(c) ==
  /\ Goto(c, "err_listener", "failed")
  /\ closesocket(local[c]["listener"])
  /\ Forget(c)
  /\ backlog' = [backlog EXCEPT ![c] = <<>>]
  /\ UNCHANGED <<session, asInt, peer, nonblocking>>

-----------------------------------------------------------------------------
(* guacd_send_fd(proc->fd_socket, proc_fd), proc_fd being sv[1]; what its    *)
(* caller does after a failure is not in the repository.  The mutant does    *)
(* not test the result of the duplication.                                   *)
DuplicateUnchecked(c) ==
  LET h == ZeroExtend(asInt[c]["s1"]) IN
  \/ /\ Goto(c, "duplicate", "write")
     /\ h \in Handles /\ sock[h] # Free
     /\ \E g \in Handles :
          /\ IsFree(g)
          /\ sock' = [sock EXCEPT ![g] = sock[h]]
          /\ local' = [local EXCEPT ![c]["dup"] = g]
     /\ UNCHANGED <<session, asInt, backlog, peer, nonblocking>>
  \/ /\ Goto(c, "duplicate", "write")
     /\ UNCHANGED <<sock, sameButSock>>

Duplicate(c) ==
  LET h == ZeroExtend(asInt[c]["s1"]) IN
  \/ /\ Goto(c, "duplicate", "write")
     /\ h \in Handles /\ sock[h] # Free
     /\ \E g \in Handles :
          /\ IsFree(g)
          /\ sock' = [sock EXCEPT ![g] = sock[h]]
          /\ local' = [local EXCEPT ![c]["dup"] = g]
     /\ UNCHANGED <<session, asInt, backlog, peer, nonblocking>>
  \/ /\ Goto(c, "duplicate", "send_failed")
     /\ UNCHANGED <<sock, sameButSock>>

(* The value in the pipe is as wide as a SOCKET.                             *)
WriteToPipe(c) ==
  /\ Goto(c, "write", "close_proc_fd")
  /\ session' = [session EXCEPT ![c] = "recv"]
  /\ UNCHANGED <<sock, local, asInt, backlog, peer, nonblocking>>

WriteFails(c) ==
  /\ Goto(c, "write", "send_failed")
  /\ closesocket(local[c]["dup"])
  /\ Forget(c)
  /\ UNCHANGED <<session, asInt, backlog, peer, nonblocking>>

(* Mutant: close() of the C runtime, which knows no SOCKET.                  *)
CloseProcFdNot(c) ==
  /\ Goto(c, "close_proc_fd", "io")
  /\ UNCHANGED <<sock, sameButSock>>

(* connection.c: CLOSE_SOCKET(proc_fd).                                      *)
CloseProcFd(c) ==
  /\ Goto(c, "close_proc_fd", "io")
  /\ closesocket(SignExtend(asInt[c]["s1"]))
  /\ UNCHANGED sameButSock

(* READ_SOCKET(params->fd, ...) returns 0 or less: there is no such socket,  *)
(* it does not block, or nobody has the other end any more.                  *)
ReadEnds(c) ==
  LET h == SignExtend(asInt[c]["s0"]) IN
  \/ h \notin Handles
  \/ sock[h] \in {Free} \cup nonblocking
  \/ peer[c] = "stranger"
  \/ \A g \in Handles : sock[g] # Socket(c, "s1")

IoEnds(c) ==
  /\ Goto(c, "io", "io_close")
  /\ ReadEnds(c)
  /\ UNCHANGED <<sock, sameButSock>>

(* What was read cannot be written to the browser, or the browser has        *)
(* disconnected: the thread ends whatever the session does.                  *)
BrowserLeaves(c) ==
  /\ Goto(c, "io", "browser_left")
  /\ UNCHANGED <<sock, sameButSock>>

(* CLOSE_SOCKET(params->fd).                                                 *)
IoClose(c) ==
  /\ Goto(c, "io_close", "done") \/ Goto(c, "browser_left", "done")
  /\ closesocket(SignExtend(asInt[c]["s0"]))
  /\ ForgetInts(c, {"s0", "s1"})
  /\ UNCHANGED <<session, local, backlog, peer, nonblocking>>

-----------------------------------------------------------------------------
(* guacd_recv_fd, in the proc thread.                                        *)
RecvFd(c) ==
  /\ UserGoto(c, "recv", "plugin")
  /\ asInt' = [asInt EXCEPT ![c]["dup"] = ToInt(local[c]["dup"])]
  /\ Forget(c)
  /\ UNCHANGED <<sock, pc, backlog, peer, nonblocking>>

(* tcp.c: a socket of the session's own.                                     *)
OpenTcp(c) ==
  \/ /\ UserGoto(c, "plugin", "fcntl")
     /\ \E h \in Handles :
          /\ IsFree(h)
          /\ sock' = [sock EXCEPT ![h] = Socket(c, "tcp")]
          /\ asInt' = [asInt EXCEPT ![c]["tcp"] = ToInt(h)]
     /\ nonblocking' = nonblocking \ {Socket(c, "tcp")}
     /\ UNCHANGED <<pc, local, backlog, peer>>
  \/ /\ UserGoto(c, "plugin", "close")
     /\ UNCHANGED <<sock, pc, local, asInt, backlog, peer, nonblocking>>

(* opt = fcntl(fd, F_GETFL); fcntl(fd, F_SETFL, opt | O_NONBLOCK).           *)
F_GETFL == {}
F_SETFL(fd, flags) ==
  LET h == ZeroExtend(fd) IN
  nonblocking' =
    IF h \notin Handles \/ sock[h] = Free THEN nonblocking
    ELSE IF "O_NONBLOCK" \in flags THEN nonblocking \cup {sock[h]}
    ELSE nonblocking \ {sock[h]}

(* Mutant: the mode is set on the user's socket, not on the one just opened. *)
SetNonBlockingUser(c) ==
  /\ UserGoto(c, "fcntl", "session")
  /\ F_SETFL(asInt[c]["dup"], F_GETFL \cup {"O_NONBLOCK"})
  /\ UNCHANGED <<sock, pc, local, asInt, backlog, peer>>

SetNonBlocking(c) ==
  /\ UserGoto(c, "fcntl", "session")
  /\ F_SETFL(asInt[c]["tcp"], F_GETFL \cup {"O_NONBLOCK"})
  /\ UNCHANGED <<sock, pc, local, asInt, backlog, peer>>

(* The session ends and closes its own socket, then the user's, with         *)
(* SOCKET_CLOSE.                                                             *)
EndSession(c) ==
  /\ UserGoto(c, "session", "close_tcp")
  /\ UNCHANGED <<sock, pc, local, asInt, backlog, peer, nonblocking>>

CloseTcp(c) ==
  /\ UserGoto(c, "close_tcp", "close")
  /\ closesocket(ZeroExtend(asInt[c]["tcp"]))
  /\ ForgetInts(c, {"tcp"})
  /\ UNCHANGED <<pc, local, backlog, peer, nonblocking>>

(* Mutant: the number is closed that the sender had for the socket.          *)
CloseUserSent(c) ==
  /\ UserGoto(c, "close", "end")
  /\ closesocket(ZeroExtend(asInt[c]["s1"]))
  /\ ForgetInts(c, {"dup"})
  /\ UNCHANGED <<pc, local, backlog, peer, nonblocking>>

CloseUser(c) ==
  /\ UserGoto(c, "close", "end")
  /\ closesocket(ZeroExtend(asInt[c]["dup"]))
  /\ ForgetInts(c, {"dup"})
  /\ UNCHANGED <<pc, local, backlog, peer, nonblocking>>

-----------------------------------------------------------------------------
ConnStep(c) ==
  \/ SocketListener(c) \/ Prepare(c) \/ SocketS0(c)
  \/ Connect(c) \/ Accept(c) \/ CloseListener(c) \/ ErrS0(c) \/ ErrListener(c)
  \/ Duplicate(c) \/ WriteToPipe(c) \/ WriteFails(c)
  \/ CloseProcFd(c) \/ IoEnds(c) \/ IoClose(c)

UserStep(c) ==
  \/ RecvFd(c) \/ OpenTcp(c) \/ SetNonBlocking(c) \/ CloseTcp(c) \/ CloseUser(c)

SocketNext ==
  \E c \in Conn :
    ConnStep(c) \/ UserStep(c) \/ EndSession(c) \/ Stranger(c) \/ BrowserLeaves(c)

(* The threads are scheduled; a session may last for ever, a browser stay.   *)
SocketFairness == \A c \in Conn : WF_socketVars(ConnStep(c)) /\ WF_socketVars(UserStep(c))

SocketSpec == SocketInit /\ [][SocketNext]_socketVars /\ SocketFairness

-----------------------------------------------------------------------------
(* A value given to Winsock is an open handle of the socket s.               *)
LeadsTo(h, s) == h \in Handles /\ sock[h] = s

SocketsOf(c) == {h \in Handles : sock[h] # Free /\ sock[h][1] = c}

(* A socketpair() that fails leaves no socket open, whichever call failed,   *)
(* and a connection that has ended neither, on either side.                  *)
NothingLeaks ==
  \A c \in Conn :
    pc[c] = "failed" \/ (pc[c] = "done" /\ session[c] = "end") => SocketsOf(c) = {}

(* From the return of socketpair() until they are closed, both ints lead to  *)
(* this connection's two sockets by the casts of their users, and so does    *)
(* the duplicate's int.  (That the two are connected to each other is more   *)
(* than the code ensures: a stranger may have been accepted.)                *)
PairBelongsTogether ==
  \A c \in Conn :
    /\ pc[c] \in After \ {"done"} => LeadsTo(SignExtend(asInt[c]["s0"]), Socket(c, "s0"))
    /\ pc[c] \in {"duplicate", "write", "send_failed", "close_proc_fd"} =>
         LeadsTo(ZeroExtend(asInt[c]["s1"]), Socket(c, "s1"))
    /\ session[c] \in {"plugin", "fcntl", "session", "close_tcp", "close"} =>
         LeadsTo(ZeroExtend(asInt[c]["dup"]), Socket(c, "s1"))

(* While the browser stays, the I/O thread gives a connection up only when   *)
(* its session has closed the user's socket, or the socket never led there,  *)
(* not because a wrong socket was closed or made non-blocking; and the       *)
(* session finds its end of the pair still blocking.                         *)
NotCutOff ==
  \A c \in Conn :
    /\ pc[c] = "io_close" => session[c] = "end" \/ peer[c] = "stranger"
    /\ session[c] = "session" => Socket(c, "s1") \notin nonblocking

(* Whatever handles are reused, a socket is closed only by a step of a       *)
(* thread of its own connection.                                             *)
ClosedByItsOwn ==
  [][\A h \in Handles :
       sock[h] # Free /\ sock'[h] # sock[h] =>
         \/ pc'[sock[h][1]] # pc[sock[h][1]]
         \/ session'[sock[h][1]] # session[sock[h][1]]]_socketVars

(* When the user thread has closed its socket, the I/O thread notices: no    *)
(* other handle keeps the connection open.                                   *)
EofArrives == \A c \in Conn : session[c] = "end" ~> pc[c] = "done"
=============================================================================
