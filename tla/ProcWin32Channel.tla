-------------------------- MODULE ProcWin32Channel --------------------------
(* ProcWin32 keeps the safety promise of FdChannel, for any connections and  *)
(* any capacity, when plugins load and received sockets get their thread and *)
(* their guac_socket.                                                        *)
EXTENDS ProcWin32Proofs

ServesUsers == Faults \cap {"plugin", "thread", "open"} = {}

(* A proc past load_plugin has its plugin, a running user thread its socket, *)
(* and what does not exist is not open.                                      *)
ServedInvOf(p) ==
  /\ procMem[p] = "none" <=> pc[Proc(p)] = "none"
  /\ procMem[p] = "none" => procOf[p] # p /\ ~writeEnd[p]
  /\ pc[Proc(p)] \notin {"none", "load_plugin"} => loaded[p]
  /\ pc[User(p)] \notin {"none", "exit"} => dup[p] = "owned"

ServedInv == \A p \in Users : ServedInvOf(p)

AllInv == TypeOK /\ JoinInv /\ FreedInv /\ OwnerInv /\ ServedInv

LEMMA ServedSafe ==
  ASSUME ServesUsers, AllInv, [Next]_vars
  PROVE  ServedInv'
<1> USE ThreadOK, ThreadsDiffer DEF AllInv
<1> SUFFICES ASSUME NEW p \in Users PROVE ServedInvOf(p)'
  BY DEF ServedInv
<1>0. ServedInvOf(p) /\ JoinInvOf(p)
  BY DEF ServedInv, JoinInv
(* A thread goes on, and what it does beyond that keeps the three parts.      *)
<1>1. ASSUME NEW t \in Thread, NEW from, NEW to, Goto(t, from, to),
             procMem'[p] = "none" <=> procMem[p] = "none",
             procMem[p] = "none" =>
               (procOf'[p] = p => procOf[p] = p) /\ (writeEnd'[p] => writeEnd[p]),
             t = Proc(p) => from # "none" /\ to # "none",
             t = Proc(p) /\ to # "load_plugin" => loaded'[p],
             loaded[p] => loaded'[p],
             dup'[p] = dup[p] \/ pc[User(p)] = "none" \/ (t = User(p) /\ to = "exit"),
             t = User(p) => from \notin {"none", "exit"}
      PROVE  ServedInvOf(p)'
  BY <1>0, <1>1, GotoEffect DEF ServedInvOf
<1>2. ASSUME NEW u \in Users, NEW t \in {Conn(u), User(u)}, Stop(t, procOf[u])
      PROVE  ServedInvOf(p)'
  BY <1>1, <1>2
  DEF Stop, StopRead, StopClear, StopClose, StopClient, memVars, clientVars,
      pipeVars, userVars, TypeOK, DataOK
<1>3. ASSUME NEW u \in Users,
             \/ CreateProcFails(u) \/ LoadFdSocket(u) \/ SendFdNoDup(u)
             \/ SendFdFails(u) \/ PthreadJoin(u)
      PROVE  ServedInvOf(p)'
  BY <1>1, <1>3
  DEF CreateProcFails, LoadFdSocket, SendFdNoDup, SendFdFails, PthreadJoin,
      memVars, clientVars, pipeVars, userVars, TypeOK, DataOK
<1>9. ASSUME NEW u \in Users, FreeProc(u)
      PROVE  ServedInvOf(p)'
  <2>1. procMem[u] # "none"
    BY <1>9 DEF FreeProc, Goto, JoinInv, JoinInvOf, ServedInv, ServedInvOf
  <2> QED
    BY <1>1, <1>9, <2>1 DEF FreeProc, clientVars, pipeVars, userVars, TypeOK, DataOK
<1>10. ASSUME NEW u \in Users, NEW q \in Users, JoinProc(u, q)
      PROVE  ServedInvOf(p)'
  <2>1. q # u
    BY <1>10 DEF JoinProc, InProcMap, Goto
  <2> QED
    BY <1>1, <1>10, <2>1
    DEF JoinProc, memVars, clientVars, pipeVars, userVars, TypeOK, DataOK
<1>4. ASSUME NEW u \in Users, CreateProc(u)
      PROVE  ServedInvOf(p)'
  <2>1. /\ pc' = [pc EXCEPT ![Conn(u)] = "add_user", ![Proc(u)] = "load_plugin"]
        /\ procMem' = [procMem EXCEPT ![u] = "live"]
        /\ writeEnd' = [writeEnd EXCEPT ![u] = TRUE]
        /\ procOf' = [procOf EXCEPT ![u] = u]
        /\ UNCHANGED <<loaded, dup>>
    BY <1>4 DEF CreateProc, userVars
  <2>2. CASE p = u
    BY <1>0, <2>1, <2>2 DEF ServedInvOf, TypeOK, PcOK, DataOK
  <2>3. CASE p # u
    BY <1>0, <2>1, <2>3 DEF ServedInvOf, TypeOK, PcOK, DataOK
  <2> QED BY <2>2, <2>3
<1>5. ASSUME NEW u \in Users, SendFd(u)
      PROVE  ServedInvOf(p)'
  <2>1. dup[u] = "none" /\ pc[User(u)] = "none"
    BY <1>5 DEF SendFd, Goto, JoinInv, JoinInvOf
  <2>2. /\ Goto(Conn(u), "send_fd", AfterAdd(u))
        /\ dup' = [dup EXCEPT ![u] = "piped"]
        /\ UNCHANGED <<procOf, procMem, loaded, writeEnd>>
    BY <1>5 DEF SendFd, memVars, clientVars
  <2> QED BY <1>1, <2>1, <2>2 DEF TypeOK, DataOK
<1>6. ASSUME NEW q \in Users, ProcStep(q) \/ ClientFree(q)
      PROVE  ServedInvOf(p)'
  <2>0. ServedInvOf(q) /\ FreedInvOf(q)
    BY DEF ServedInv, FreedInv
  <2>1. CASE LoadPlugin(q)
    BY <1>0, <1>1, <2>0, <2>1 DEF LoadPlugin, Goto, ServedInvOf, memVars, pipeVars,
       userVars, TypeOK, DataOK
  <2>2. ~LoadPluginFails(q) /\ ~RecvFdNoThread(q)
    BY DEF ServesUsers, LoadPluginFails, RecvFdNoThread
  <2>3. CASE RecvFd(q)
    <3> DEFINE h == Head(pipe[q])
    <3>1. h \in Users
      BY <2>3 DEF RecvFd, TypeOK, DataOK
    <3>2. /\ pc' = [pc EXCEPT ![User(h)] = "socket_open"]
          /\ dup' = [dup EXCEPT ![h] = "owned"]
          /\ UNCHANGED <<procOf, procMem, loaded, writeEnd>>
      BY <2>3 DEF RecvFd, memVars
    <3> QED BY <1>0, <3>1, <3>2 DEF ServedInvOf, TypeOK, PcOK, DataOK
  <2>4. CASE RecvEof(q) \/ CleanupClientNoThread(q) \/ FreeWait(q)
    BY <1>0, <1>1, <2>0, <2>4
    DEF RecvEof, CleanupClientNoThread, FreeWait, Goto, ServedInvOf, memVars,
        clientVars, pipeVars, userVars
  <2>5. CASE CleanupClient(q)
    BY <1>0, <2>0, <2>5
    DEF CleanupClient, ServedInvOf, memVars, pipeVars, userVars, TypeOK, PcOK
  <2>6. CASE CloseRead(q)
    <3>1. pc[Proc(q)] = "close_read" /\ loaded[q] /\ pipe[q] = <<>>
      BY <2>0, <2>6 DEF CloseRead, Goto, ServedInvOf, FreedInvOf
    <3>2. dup'[p] = dup[p]
      BY <2>6, <3>1 DEF CloseRead
    <3> QED
      BY <1>0, <1>1, <2>0, <2>6, <3>1, <3>2
      DEF CloseRead, Goto, ServedInvOf, memVars, clientVars
  <2>7. CASE ClientFree(q)
    BY <1>1, <2>7 DEF ClientFree, clientVars, pipeVars, userVars
  <2> QED
    BY <1>6, <2>1, <2>2, <2>3, <2>4, <2>5, <2>6, <2>7 DEF ProcStep
<1>7. ASSUME NEW u \in Users, UserStep(u) \/ Leave(u)
      PROVE  ServedInvOf(p)'
  <2>1. ~SocketOpenFails(u)
    BY DEF ServesUsers, SocketOpenFails
  <2>2. CASE Cleanup(u)
    BY <1>1, <2>2 DEF Cleanup, memVars, clientVars, pipeVars, TypeOK, DataOK
  <2>3. CASE SocketOpen(u) \/ Handshake(u) \/ CheckLast(u) \/ Leave(u)
    BY <1>1, <2>3 DEF SocketOpen, Handshake, CheckLast, Leave, memVars, clientVars,
       pipeVars, userVars
  <2> QED
    BY <1>2, <1>7, <2>1, <2>2, <2>3 DEF UserStep
<1>8. CASE UNCHANGED vars
  BY <1>0, <1>8 DEF ServedInvOf, vars
<1> QED
  BY <1>2, <1>3, <1>4, <1>5, <1>6, <1>7, <1>8, <1>9, <1>10
  DEF Next, ConnStep, Terminated

-----------------------------------------------------------------------------
(* A step that changes neither where a proc is nor who has been received.     *)
LEMMA Stutter ==
  ASSUME AllInv, UNCHANGED pipe,
         \A p \in Users :
           /\ procMem'[p] = "none" <=> procMem[p] = "none"
           /\ pc'[Proc(p)] \in {"load_plugin", "recv_fd"} <=>
                pc[Proc(p)] \in {"load_plugin", "recv_fd"}
           /\ writeEnd'[p] = writeEnd[p],
         \A u \in Users :
           \/ procOf'[u] = procOf[u]
              /\ (dup'[u] \in {"owned", "closed"} <=> dup[u] \in {"owned", "closed"})
           \/ dup[u] \notin {"owned", "closed"} /\ dup'[u] \notin {"owned", "closed"}
  PROVE  UNCHANGED Channel!vars
<1>1. ChannelState' = ChannelState
  BY DEF ChannelState
<1>2. ASSUME NEW p \in Users
      PROVE  {u \in Users : procOf'[u] = p /\ dup'[u] \in {"owned", "closed"}}
             = {u \in Users : procOf[u] = p /\ dup[u] \in {"owned", "closed"}}
  OBVIOUS
<1>3. Received' = Received
  BY <1>2 DEF Received
<1> QED BY <1>1, <1>3 DEF Channel!vars

(* A step of one thread that is not a proc thread.                            *)
LEMMA StutterGoto ==
  ASSUME AllInv, NEW t \in Thread, t[1] # "proc", NEW from, NEW to,
         Goto(t, from, to), UNCHANGED <<procMem, writeEnd, pipe>>,
         \A u \in Users :
           \/ procOf'[u] = procOf[u]
              /\ (dup'[u] \in {"owned", "closed"} <=> dup[u] \in {"owned", "closed"})
           \/ dup[u] \notin {"owned", "closed"} /\ dup'[u] \notin {"owned", "closed"}
  PROVE  UNCHANGED Channel!vars
<1>1. \A p \in Users : pc'[Proc(p)] = pc[Proc(p)]
  BY GotoEffect, ThreadOK DEF AllInv
<1> QED BY <1>1, Stutter

LEMMA StopChannel ==
  ASSUME AllInv, NEW u \in Users, NEW t \in {Conn(u), User(u)}, Stop(t, procOf[u])
  PROVE  [Channel!Next]_Channel!vars
<1> DEFINE q == procOf[u]
<1>1. t \in Thread /\ t[1] # "proc"
  BY ThreadOK
<1>2. CASE StopRead(t, q) \/ StopClear(t, q) \/ StopClient(t, q)
  BY <1>1, <1>2, StutterGoto
  DEF StopRead, StopClear, StopClient, memVars, pipeVars, userVars
<1>3. CASE StopClose(t, q)
  <2>1. /\ writeEnd' = [writeEnd EXCEPT ![q] = FALSE]
        /\ Goto(t, "stop_close", "stop_client")
        /\ UNCHANGED <<procOf, procMem, pipe, dup>>
    BY <1>3 DEF StopClose, memVars, userVars
  <2>2. Received' = Received
    BY <2>1 DEF Received
  <2>3. \A p \in Users : pc'[Proc(p)] = pc[Proc(p)]
    BY <1>1, <2>1, GotoEffect, ThreadOK DEF AllInv
  <2>4. CASE q \in Users /\ ChannelState[q] = "open"
    <3>1. ChannelState' = [ChannelState EXCEPT ![q] = "closed"]
      BY <2>1, <2>3, <2>4 DEF ChannelState, AllInv, TypeOK, DataOK
    <3> QED BY <2>1, <2>2, <2>4, <3>1 DEF Channel!Next, Channel!Close
  <2>5. CASE ~(q \in Users /\ ChannelState[q] = "open")
    <3>1. ChannelState' = ChannelState
      BY <2>1, <2>3, <2>5 DEF ChannelState, AllInv, TypeOK, DataOK
    <3> QED BY <2>1, <2>2, <3>1 DEF Channel!vars
  <2> QED BY <2>4, <2>5
<1> QED BY <1>2, <1>3 DEF Stop

LEMMA ConnChannel ==
  ASSUME ServesUsers, AllInv, NEW u \in Users,
         \/ CreateProc(u) \/ CreateProcFails(u)
         \/ \E q \in Users : JoinProc(u, q)
         \/ SendFdNoDup(u) \/ ConnStep(u)
  PROVE  [Channel!Next]_Channel!vars
<1>0. Conn(u) \in Thread /\ Conn(u)[1] # "proc" /\ JoinInvOf(u)
  BY ThreadOK DEF AllInv, JoinInv
<1>1. CASE Stop(Conn(u), procOf[u])
  BY <1>1, StopChannel
<1>2. CASE CreateProc(u)
  <2>1. procMem[u] = "none" /\ dup[u] = "none" /\ pc[Proc(u)] = "none"
    BY <1>0, <1>2 DEF CreateProc, JoinInvOf
  <2>2. /\ pc' = [pc EXCEPT ![Conn(u)] = "add_user", ![Proc(u)] = "load_plugin"]
        /\ procMem' = [procMem EXCEPT ![u] = "live"]
        /\ writeEnd' = [writeEnd EXCEPT ![u] = TRUE]
        /\ procOf' = [procOf EXCEPT ![u] = u]
        /\ UNCHANGED <<pipe, dup>>
    BY <1>2 DEF CreateProc, userVars
  <2>3. /\ \A p \in Users \ {u} : pc'[Proc(p)] = pc[Proc(p)]
        /\ pc'[Proc(u)] = "load_plugin"
    BY <2>2, ThreadOK, ThreadsDiffer DEF AllInv, TypeOK, PcOK
  <2>4. ChannelState[u] = "none" /\ ChannelState' = [ChannelState EXCEPT ![u] = "open"]
    BY <2>1, <2>2, <2>3 DEF ChannelState, AllInv, TypeOK, DataOK
  <2>5. Received' = Received
    BY <2>1, <2>2 DEF Received, AllInv, TypeOK, DataOK
  <2> QED BY <2>2, <2>4, <2>5 DEF Channel!Next, Channel!Open
<1>3. CASE \/ CreateProcFails(u) \/ LoadFdSocket(u) \/ SendFdNoDup(u) \/ SendFdFails(u)
           \/ PthreadJoin(u)
  BY <1>0, <1>3, StutterGoto
  DEF CreateProcFails, LoadFdSocket, SendFdNoDup, SendFdFails, PthreadJoin,
      memVars, clientVars, pipeVars, userVars
<1>4. CASE FreeProc(u)
  <2>1. procMem[u] # "none"
    BY <1>0, <1>4 DEF FreeProc, Goto, JoinInvOf, AllInv, ServedInv, ServedInvOf
  <2>2. \A p \in Users : pc'[Proc(p)] = pc[Proc(p)]
    BY <1>0, <1>4, GotoEffect, ThreadOK DEF FreeProc, AllInv
  <2> QED
    BY <1>4, <2>1, <2>2, Stutter DEF FreeProc, pipeVars, userVars, AllInv, TypeOK, DataOK
<1>5. ASSUME NEW q \in Users, JoinProc(u, q)
      PROVE  UNCHANGED Channel!vars
  <2>1. dup[u] = "none"
    BY <1>0, <1>5 DEF JoinProc, Goto, JoinInvOf
  <2> QED
    BY <1>0, <1>5, <2>1, StutterGoto
    DEF JoinProc, memVars, pipeVars, userVars, AllInv, TypeOK, DataOK
<1>6. CASE SendFd(u)
  <2> DEFINE q == procOf[u]
  <2>1. /\ Goto(Conn(u), "send_fd", AfterAdd(u)) /\ Writable(q)
        /\ pipe' = [pipe EXCEPT ![q] = Append(@, u)]
        /\ dup' = [dup EXCEPT ![u] = "piped"]
        /\ UNCHANGED <<procOf, procMem, writeEnd>>
    BY <1>6 DEF SendFd, memVars
  <2>2. dup[u] = "none"
    BY <1>0, <2>1 DEF Goto, JoinInvOf
  <2>3. \A p \in Users : pc'[Proc(p)] = pc[Proc(p)]
    BY <1>0, <2>1, GotoEffect, ThreadOK DEF AllInv
  <2>4. ChannelState' = ChannelState
    BY <2>1, <2>3 DEF ChannelState
  <2>5. Received' = Received
    BY <2>1, <2>2 DEF Received, AllInv, TypeOK, DataOK
  <2>6. CASE q \in Users
    <3>1. ServedInvOf(q) /\ FreedInvOf(q) /\ pc[Proc(q)] \in ProcPc
      BY <2>6 DEF AllInv, ServedInv, FreedInv, TypeOK, PcOK
    <3>2. ChannelState[q] = "open"
      BY <2>1, <2>6, <3>1 DEF ChannelState, Writable, ServedInvOf, FreedInvOf, ProcPc,
         AllInv, TypeOK, DataOK
    <3> QED BY <2>1, <2>4, <2>5, <2>6, <3>2 DEF Channel!Next, Channel!Send
  <2>7. CASE q \notin Users
    <3>1. pipe' = pipe
      BY <2>1, <2>7 DEF AllInv, TypeOK, DataOK
    <3> QED BY <2>4, <2>5, <3>1 DEF Channel!vars
  <2> QED BY <2>6, <2>7
<1> QED
  BY <1>1, <1>2, <1>3, <1>4, <1>5, <1>6 DEF ConnStep

LEMMA UserChannel ==
  ASSUME ServesUsers, AllInv, NEW u \in Users, UserStep(u) \/ Leave(u)
  PROVE  [Channel!Next]_Channel!vars
<1>0. User(u) \in Thread /\ User(u)[1] # "proc"
  BY ThreadOK
<1>1. CASE Stop(User(u), procOf[u])
  BY <1>1, StopChannel
<1>2. ~SocketOpenFails(u)
  BY DEF ServesUsers, SocketOpenFails
<1>3. CASE SocketOpen(u) \/ Handshake(u) \/ CheckLast(u) \/ Leave(u)
  BY <1>0, <1>3, StutterGoto
  DEF SocketOpen, Handshake, CheckLast, Leave, memVars, pipeVars, userVars
<1>4. CASE Cleanup(u)
  <2>1. dup[u] = "owned"
    BY <1>4 DEF Cleanup, Goto, AllInv, ServedInv, ServedInvOf
  <2> QED
    BY <1>0, <1>4, <2>1, StutterGoto
    DEF Cleanup, memVars, pipeVars, AllInv, TypeOK, DataOK
<1> QED
  BY <1>1, <1>2, <1>3, <1>4 DEF UserStep

LEMMA ProcChannel ==
  ASSUME ServesUsers, AllInv, NEW q \in Users, ProcStep(q) \/ ClientFree(q)
  PROVE  [Channel!Next]_Channel!vars
<1>0. ServedInvOf(q) /\ FreedInvOf(q) /\ OwnerInvOf(q)
  BY DEF AllInv, ServedInv, FreedInv, OwnerInv
<1>1. ASSUME NEW from, NEW to, Goto(Proc(q), from, to)
      PROVE  /\ pc[Proc(q)] = from /\ pc'[Proc(q)] = to
             /\ \A p \in Users \ {q} : pc'[Proc(p)] = pc[Proc(p)]
  BY <1>1, GotoEffect, ThreadOK, ThreadsDiffer DEF AllInv
<1>2. ~LoadPluginFails(q) /\ ~RecvFdNoThread(q)
  BY DEF ServesUsers, LoadPluginFails, RecvFdNoThread
<1>3. CASE LoadPlugin(q) \/ CleanupClientNoThread(q) \/ FreeWait(q)
  BY <1>1, <1>3, Stutter
  DEF LoadPlugin, CleanupClientNoThread, FreeWait, memVars, pipeVars, userVars
<1>4. CASE RecvFd(q)
  <2> DEFINE h == Head(pipe[q])
  <2>1. /\ pc' = [pc EXCEPT ![User(h)] = "socket_open"]
        /\ dup' = [dup EXCEPT ![h] = "owned"]
        /\ pipe' = [pipe EXCEPT ![q] = Tail(@)]
        /\ pipe[q] # <<>>
        /\ UNCHANGED <<procOf, procMem, writeEnd>>
    BY <1>4 DEF RecvFd, memVars
  <2>2. h \in Users /\ procOf[h] = q
    BY <1>0, <2>1 DEF OwnerInvOf, AllInv, TypeOK, DataOK
  <2>3. \A p \in Users : pc'[Proc(p)] = pc[Proc(p)]
    BY <2>1, <2>2, ThreadOK, ThreadsDiffer DEF AllInv, TypeOK, PcOK
  <2>4. ChannelState' = ChannelState
    BY <2>1, <2>3 DEF ChannelState
  <2>5. Received' = [Received EXCEPT ![q] = @ \cup {h}]
    <3>1. dup \in [Users -> {"none", "piped", "owned", "closed", "lost"}]
      BY DEF AllInv, TypeOK, DataOK
    <3>2. \A p \in Users :
            {u \in Users : procOf[u] = p /\ dup'[u] \in {"owned", "closed"}}
            = IF p = q
              THEN {u \in Users : procOf[u] = p /\ dup[u] \in {"owned", "closed"}} \cup {h}
              ELSE {u \in Users : procOf[u] = p /\ dup[u] \in {"owned", "closed"}}
      <4>1. \A u \in Users : dup'[u] = IF u = h THEN "owned" ELSE dup[u]
        BY <2>1, <2>2, <3>1
      <4> QED BY <2>2, <4>1
    <3>3. \A p \in Users : Received'[p] = IF p = q THEN Received[p] \cup {h} ELSE Received[p]
      BY <2>1, <3>2 DEF Received
    <3> QED BY <3>3 DEF Received
  <2> QED BY <2>1, <2>4, <2>5 DEF Channel!Next, Channel!Receive
<1>5. CASE RecvEof(q)
  <2>1. /\ Goto(Proc(q), "recv_fd", "cleanup_client") /\ AtEof(q)
        /\ UNCHANGED <<procOf, procMem, pipe, writeEnd, dup>>
    BY <1>5 DEF RecvEof, memVars, pipeVars, userVars
  <2>2. Received' = Received
    BY <2>1 DEF Received
  <2>3. procMem[q] # "none"
    BY <1>0, <1>1, <2>1 DEF ServedInvOf
  <2>6. \A p \in Users : pc'[Proc(p)] = IF p = q THEN "cleanup_client" ELSE pc[Proc(p)]
    BY <1>1, <2>1
  <2>7. pc[Proc(q)] = "recv_fd" /\ ~writeEnd[q]
    BY <2>1 DEF Goto, AtEof
  <2>4. ChannelState[q] = "closed" /\ ChannelState' = [ChannelState EXCEPT ![q] = "ended"]
    BY <2>1, <2>3, <2>6, <2>7 DEF ChannelState
  <2>5. pipe[q] = <<>>
    BY <2>1 DEF AtEof
  <2> QED BY <2>1, <2>2, <2>4, <2>5 DEF Channel!Next, Channel!End
<1>6. CASE CleanupClient(q)
  <2>1. \A p \in Users : pc'[Proc(p)] = IF p = q THEN "free_wait" ELSE pc[Proc(p)]
    BY <1>6, ThreadOK, ThreadsDiffer DEF CleanupClient, AllInv, TypeOK, PcOK
  <2>2. UNCHANGED <<procOf, procMem, writeEnd, pipe, dup>> /\ pc[Proc(q)] = "cleanup_client"
    BY <1>6 DEF CleanupClient, memVars, pipeVars, userVars
  <2>3. \A p \in Users : pc'[Proc(p)] \in {"load_plugin", "recv_fd"}
                         <=> pc[Proc(p)] \in {"load_plugin", "recv_fd"}
    BY <2>1, <2>2
  <2> QED
    BY <2>2, <2>3, Stutter
<1>7. CASE CloseRead(q)
  <2>1. pipe[q] = <<>>
    BY <1>0, <1>7 DEF CloseRead, Goto, ServedInvOf, FreedInvOf
  <2>2. pipe' = pipe /\ \A u \in Users : dup'[u] = dup[u]
    BY <1>7, <2>1 DEF CloseRead, AllInv, TypeOK, DataOK
  <2> QED
    BY <1>1, <1>7, <2>2, Stutter DEF CloseRead, memVars
<1>8. CASE ClientFree(q)
  BY <1>8, ThreadOK, StutterGoto DEF ClientFree, pipeVars, userVars
<1> QED
  BY <1>2, <1>3, <1>4, <1>5, <1>6, <1>7, <1>8 DEF ProcStep

(* Pipe, recv loop and guacd_proc_stop are the channel of FdChannel: what is  *)
(* sent goes in only while the channel is open, comes out once and in order,  *)
(* and the proc thread ends only when everything that went in was received.   *)
THEOREM KeepsChannelPromise ==
  ASSUME ServesUsers
  PROVE  Spec => Channel!SafetySpec
<1>1. Init => ServedInv
  BY NoProcAssumption DEF Init, ServedInv, ServedInvOf, Thread, Proc, User
<1>2. TypeOK /\ JoinInv /\ FreedInv /\ OwnerInv /\ ServedInv /\ [Next]_vars => ServedInv'
  BY ServedSafe DEF AllInv
<1>3. Spec => []ServedInv
  BY <1>1, <1>2, TypeCorrect, JoinInvariant, FreedInvariant, OwnerInvariant, PTL DEF Spec
<1>4. Init => Channel!Init
  BY DEF Init, Channel!Init, ChannelState, Received
<1>5. TypeOK /\ JoinInv /\ FreedInv /\ OwnerInv /\ ServedInv /\ [Next]_vars
        => [Channel!Next]_Channel!vars
  <2> SUFFICES ASSUME AllInv, [Next]_vars
               PROVE  [Channel!Next]_Channel!vars
    BY DEF AllInv
  <2>1. ASSUME NEW u \in Users,
               \/ CreateProc(u) \/ CreateProcFails(u)
               \/ \E q \in Users : JoinProc(u, q)
               \/ SendFdNoDup(u) \/ ConnStep(u)
        PROVE  [Channel!Next]_Channel!vars
    BY <2>1, ConnChannel
  <2>2. ASSUME NEW u \in Users, ProcStep(u) \/ ClientFree(u)
        PROVE  [Channel!Next]_Channel!vars
    BY <2>2, ProcChannel
  <2>3. ASSUME NEW u \in Users, UserStep(u) \/ Leave(u)
        PROVE  [Channel!Next]_Channel!vars
    BY <2>3, UserChannel
  <2>4. CASE UNCHANGED vars
    BY <2>4 DEF vars, Channel!vars, ChannelState, Received
  <2> QED
    BY <2>1, <2>2, <2>3, <2>4 DEF Next, Terminated
<1> QED
  BY <1>3, <1>4, <1>5, TypeCorrect, JoinInvariant, FreedInvariant, OwnerInvariant, PTL
  DEF Spec, Channel!SafetySpec
=============================================================================
