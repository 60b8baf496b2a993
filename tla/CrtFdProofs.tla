----------------------------- MODULE CrtFdProofs -----------------------------
(***************************************************************************)
(* Proofs about CrtFd for any number of procs and users.  What holds       *)
(* whoever the users are: the descriptors suffice, and a pipe end has one. *)
(* What holds only where no number is reused under a copy of it: that the  *)
(* numbers stand for what their holders believe, and the promise of        *)
(* FdChannel.                                                              *)
(***************************************************************************)
EXTENDS CrtFd, FiniteSetTheorems, FunctionTheorems, WellFoundedInduction, TLAPS

OnlyProc == \A p, q \in Procs : p = q
OneUserEach == \A u, v \in Users : ProcOf[u] = ProcOf[v] => u = v

ThreadsOf(u) == {Conn(u), User(u)}

(* A pipe end has one descriptor.                                            *)
OneDescriptorEach ==
  \A f, g \in Fds : table[f] = table[g] /\ table[f] # Free => f = g

(* Nobody works for a proc before it is created, and it has no pipe then.    *)
StartedOf(u) ==
  /\ pc[Conn(u)] = "accept" => pc[User(u)] = "none"
  /\ pc[Conn(u)] # "accept" => procPc[ProcOf[u]] # "none"

NotYetOf(p) ==
  /\ pc[Conn(Creator[p])] = "accept" => procPc[p] = "none"
  /\ procPc[p] = "none" =>
       fdSocket[p] = NoFd /\ ~IsOpen(End(p, "read")) /\ ~IsOpen(End(p, "write"))

BaseInv ==
  /\ TypeOK
  /\ OneDescriptorEach
  /\ \A u \in Users : StartedOf(u)
  /\ \A p \in Procs : NotYetOf(p)
  /\ \A p \in Procs : \A i \in 1..Len(pipe[p]) : pc[Conn(pipe[p][i])] # "accept"

(* What the numbers of a proc stand for: its field, the variable of its      *)
(* thread, and that its write end is closed when the thread leaves the loop, *)
(* and both are when it has returned.                                        *)
ProcOwns(p) ==
  /\ fdSocket[p] # NoFd => table[fdSocket[p]] = End(p, "write")
  /\ procPc[p] \in {"recv_fd", "cleanup_client"} =>
       readFd[p] # NoFd /\ table[readFd[p]] = End(p, "read")
  /\ procPc[p] \in {"cleanup_client", "exit"} => ~IsOpen(End(p, "write"))
  /\ procPc[p] = "exit" => ~IsOpen(End(p, "read"))

(* A copy in use stands for the write end of the user's proc, or for nothing *)
(* any more; the field was cleared before the copy is closed.                *)
CopyOwn(u, t) ==
  /\ pc[t] \in {"send_fd", "stop_clear", "stop_close"} /\ fd[t] # NoFd =>
       table[fd[t]] \in {Free, End(ProcOf[u], "write")}
  /\ pc[t] = "stop_close" => fdSocket[ProcOf[u]] = NoFd

OwnInv ==
  /\ \A p \in Procs : ProcOwns(p)
  /\ \A u \in Users : \A t \in ThreadsOf(u) : CopyOwn(u, t)

(* With one user for each proc no copy outlives the descriptor: the user is  *)
(* sent while the field is set, the pipe then has that user only, and the    *)
(* connection finds the field cleared when its proc thread has returned.     *)
AloneOf(u) ==
  /\ pc[Conn(u)] \in {"accept", "add_user", "send_fd"} => pc[User(u)] = "none"
  /\ pc[Conn(u)] # "accept" /\ pc[User(u)] \in {"none", "session", "stop_read", "stop_clear"}
       => fdSocket[ProcOf[u]] # NoFd
  /\ pc[Conn(u)] = "send_fd" => fd[Conn(u)] = fdSocket[ProcOf[u]]
  /\ pc[User(u)] = "stop_clear" => fd[User(u)] = fdSocket[ProcOf[u]]
  /\ pc[User(u)] = "stop_close" =>
       fd[User(u)] # NoFd /\ table[fd[User(u)]] = End(ProcOf[u], "write")
  /\ pc[Conn(u)] \notin {"stop_clear", "stop_close"} /\ pc[User(u)] \notin {"add_user", "send_fd"}
  /\ pc[Conn(u)] = "stop_read" => fdSocket[ProcOf[u]] = NoFd

InPipe(p, i) ==
  /\ pc[Conn(pipe[p][i])] \notin {"accept", "add_user", "send_fd"}
  /\ pc[User(pipe[p][i])] = "none"

AloneInv ==
  /\ \A u \in Users : AloneOf(u)
  /\ \A p \in Procs : \A i \in 1..Len(pipe[p]) : InPipe(p, i)
  /\ \A p, q \in Procs : \A i \in 1..Len(pipe[p]), j \in 1..Len(pipe[q]) :
       pipe[p][i] = pipe[q][j] => p = q /\ i = j

(* Who is in the pipe of a proc or was received from it is its user.         *)
OwnUsers ==
  \A p \in Procs :
    /\ \A i \in 1..Len(pipe[p]) : ProcOf[pipe[p][i]] = p
    /\ \A u \in received[p] : ProcOf[u] = p

-----------------------------------------------------------------------------
(* Threads, pipe ends and numbers.                                           *)
LEMMA ThreadOK ==
  ASSUME NEW u \in Users
  PROVE  Conn(u) \in Thread /\ User(u) \in Thread
  BY DEF Thread, Conn, User

LEMMA ThreadsDiffer ==
  ASSUME NEW u, NEW v
  PROVE  /\ Conn(u) # User(v)
         /\ Conn(u) = Conn(v) => u = v
         /\ User(u) = User(v) => u = v
  BY DEF Conn, User

LEMMA EndsDiffer ==
  ASSUME NEW p, NEW q
  PROVE  /\ End(p, "read") # Free /\ End(p, "write") # Free
         /\ End(p, "read") # End(q, "write")
         /\ End(p, "read") = End(q, "read") => p = q
         /\ End(p, "write") = End(q, "write") => p = q
  BY DEF End, Free

LEMMA FdsAreNat == Fds \subseteq Nat /\ NoFd \notin Fds /\ NoFd = -1
  BY CrtFdAssumption DEF Fds, NoFd

LEMMA CreatorsDiffer ==
  ASSUME NEW p \in Procs, NEW q \in Procs, Creator[p] = Creator[q]
  PROVE  p = q
  BY CrtFdAssumption

LEMMA TailAt ==
  ASSUME NEW S, NEW s \in Seq(S), s # <<>>, NEW i \in 1..Len(Tail(s))
  PROVE  i + 1 \in 1..Len(s) /\ Tail(s)[i] = s[i + 1]
  OBVIOUS

(* The least of a set of numbers is one of them.                             *)
LEMMA MinIsIn ==
  ASSUME NEW S, S \subseteq Nat, S # {}
  PROVE  Min(S) \in S
<1> DEFINE Less == {ss \in Nat \X Nat : ss[1] < ss[2]}
<1>1. IsWellFoundedOn(Less, Nat)
  BY NatLessThanWellFounded DEF OpToRel
<1>2. \E x \in S : \A y \in S : ~(<<y, x>> \in Less)
  <2> HIDE DEF Less
  <2> QED
    BY <1>1, WFMin
<1>3. \E x \in S : \A y \in S : x =< y
  <2>1. PICK x \in S : \A y \in S : ~(<<y, x>> \in Less)
    BY <1>2
  <2>2. ASSUME NEW y \in S PROVE x =< y
    <3>1. <<y, x>> \in Nat \X Nat
      OBVIOUS
    <3>2. ~(y < x)
      BY <2>1, <3>1
    <3> QED
      BY <3>2
  <2> QED
    BY <2>2
<1> QED
  BY <1>3 DEF Min

(* Before a proc is created two numbers at least are free: the open ones     *)
(* stand for pipe ends of the other procs, no two for the same.              *)
LEMMA TwoAreFree ==
  ASSUME TypeOK, OneDescriptorEach, NEW p \in Procs,
         ~IsOpen(End(p, "read")), ~IsOpen(End(p, "write"))
  PROVE  FreeFds # {} /\ \A f \in FreeFds : FreeFds \ {f} # {}
<1> DEFINE Used == {f \in Fds : table[f] # Free}
           Others == (Procs \ {p}) \X {"read", "write"}
           g == [f \in Used |-> table[f]]
<1>1. g \in Injection(Used, Others)
  <2>1. ASSUME NEW f \in Used PROVE table[f] \in Others
    <3>1. table[f] \in Procs \X {"read", "write"}
      BY DEF TypeOK, Ends
    <3>2. table[f] # End(p, "read") /\ table[f] # End(p, "write")
      BY DEF IsOpen
    <3> QED
      BY <3>1, <3>2 DEF End
  <2>2. g \in [Used -> Others]
    BY <2>1
  <2>3. \A a, b \in Used : g[a] = g[b] => a = b
    BY DEF OneDescriptorEach
  <2> QED
    BY <2>2, <2>3, Fun_IsInj
<1>2. /\ IsFiniteSet(Procs \ {p}) /\ Cardinality(Procs \ {p}) = Cardinality(Procs) - 1
      /\ Cardinality(Procs) \in Nat
  BY CrtFdAssumption, FS_RemoveElement, FS_CardinalityType
<1>3. IsFiniteSet({"read", "write"}) /\ Cardinality({"read", "write"}) = 2
  <2>1. IsFiniteSet({"read"}) /\ Cardinality({"read"}) = 1
    BY FS_Singleton
  <2>2. {"read", "write"} = {"read"} \cup {"write"} /\ "write" \notin {"read"}
    OBVIOUS
  <2> QED
    BY <2>1, <2>2, FS_AddElement
<1>4. IsFiniteSet(Others) /\ Cardinality(Others) = (Cardinality(Procs) - 1) * 2
  BY <1>2, <1>3, FS_Product
<1>5. IsFiniteSet(Used) /\ Cardinality(Used) <= Cardinality(Others)
  BY <1>1, <1>4, FS_Injection
<1>6. IsFiniteSet(Fds)
  BY CrtFdAssumption, FS_Interval DEF Fds
<1>7. /\ IsFiniteSet(FreeFds)
      /\ Cardinality(FreeFds) = Cardinality(Fds) - Cardinality(Used)
  <2>1. FreeFds = Fds \ Used /\ Fds \cap Used = Used
    BY DEF FreeFds
  <2> QED
    BY <1>6, <2>1, FS_Difference
<1>8. Cardinality(FreeFds) >= 2
  <2>1. Cardinality(Used) \in Nat /\ Cardinality(Fds) \in Nat
    BY <1>5, <1>6, FS_CardinalityType
  <2> QED
    BY <1>2, <1>4, <1>5, <1>7, <2>1, CrtFdAssumption
<1>9. FreeFds # {}
  BY <1>8, FS_EmptySet
<1>10. ASSUME NEW f \in FreeFds, FreeFds \ {f} = {} PROVE FALSE
  <2>1. FreeFds = {f}
    BY <1>10
  <2>2. Cardinality(FreeFds) = 1
    BY <2>1, FS_Singleton
  <2> QED
    BY <1>8, <2>2
<1> QED
  BY <1>9, <1>10

-----------------------------------------------------------------------------
(* What a step of one thread changes in pc.                                  *)
LEMMA GotoEffect ==
  ASSUME TypeOK, NEW t \in Thread, NEW from, NEW to, Goto(t, from, to)
  PROVE  pc[t] = from /\ pc'[t] = to /\ \A s \in Thread : s # t => pc'[s] = pc[s]
  BY DEF TypeOK, Goto

(* guacd_create_proc gives the proc two numbers that stood for nothing.      *)
LEMMA CreateEffect ==
  ASSUME BaseInv, NEW p \in Procs, CreateProc(p)
  PROVE  /\ procPc[p] = "none"
         /\ Goto(Conn(Creator[p]), "accept", "add_user")
         /\ \E r, w \in Fds :
              /\ r # w /\ table[r] = Free /\ table[w] = Free
              /\ table' = [table EXCEPT ![r] = End(p, "read"), ![w] = End(p, "write")]
              /\ fdSocket' = [fdSocket EXCEPT ![p] = w]
              /\ readFd' = [readFd EXCEPT ![p] = r]
         /\ procPc' = [procPc EXCEPT ![p] = "recv_fd"]
         /\ UNCHANGED <<fd, pipe, received>>
<1>1. procPc[p] = "none"
  BY DEF BaseInv, NotYetOf, CreateProc, Goto
<1>2. FreeFds # {} /\ \A f \in FreeFds : FreeFds \ {f} # {}
  BY <1>1, TwoAreFree DEF BaseInv, NotYetOf
<1>3. FreeFds \subseteq Nat
  BY FdsAreNat DEF FreeFds
<1> DEFINE r == Min(FreeFds)
           w == Min(FreeFds \ {r})
<1>4. r \in FreeFds
  BY <1>2, <1>3, MinIsIn
<1>5. w \in FreeFds \ {r}
  <2>1. FreeFds \ {r} \subseteq Nat /\ FreeFds \ {r} # {}
    BY <1>2, <1>3, <1>4
  <2> HIDE DEF r
  <2> QED
    BY <2>1, MinIsIn
<1>6. /\ table' = [table EXCEPT ![r] = End(p, "read"), ![w] = End(p, "write")]
      /\ fdSocket' = [fdSocket EXCEPT ![p] = w]
      /\ readFd' = [readFd EXCEPT ![p] = r]
  BY DEF CreateProc
<1>7. r \in Fds /\ w \in Fds /\ r # w /\ table[r] = Free /\ table[w] = Free
  BY <1>4, <1>5 DEF FreeFds
<1> HIDE DEF r, w
<1> QED
  BY <1>1, <1>6, <1>7 DEF CreateProc

LEMMA TypesKept ==
  ASSUME BaseInv, [Next]_vars
  PROVE  TypeOK'
<1>t. TypeOK
  BY DEF BaseInv
<1> USE <1>t, ThreadOK, FdsAreNat
<1>0. CASE UNCHANGED vars
  BY <1>0 DEF vars, TypeOK
<1>1. ASSUME NEW p \in Procs, CreateProc(p) PROVE TypeOK'
  <2>1. Creator[p] \in Users /\ End(p, "read") \in Ends /\ End(p, "write") \in Ends
    BY CrtFdAssumption DEF End, Ends
  <2>2. PICK r \in Fds, w \in Fds :
          /\ table' = [table EXCEPT ![r] = End(p, "read"), ![w] = End(p, "write")]
          /\ fdSocket' = [fdSocket EXCEPT ![p] = w]
          /\ readFd' = [readFd EXCEPT ![p] = r]
    BY <1>1, CreateEffect
  <2> QED
    BY <1>1, <2>1, <2>2 DEF CreateProc, TypeOK, Goto
<1>2. ASSUME NEW p \in Procs, ProcStep(p) PROVE TypeOK'
  <2>1. CASE RecvFd(p)
    <3>1. PICK q \in Procs :
            /\ pipe[q] # <<>>
            /\ pc' = [pc EXCEPT ![User(Head(pipe[q]))] = "session"]
            /\ received' = [received EXCEPT ![p] = @ \cup {Head(pipe[q])}]
            /\ pipe' = [pipe EXCEPT ![q] = Tail(@)]
      BY <2>1 DEF RecvFd
    <3>2. Head(pipe[q]) \in Users /\ Tail(pipe[q]) \in Seq(Users)
      BY <3>1 DEF TypeOK
    <3> QED
      BY <2>1, <3>1, <3>2 DEF RecvFd, TypeOK
  <2>2. CASE RecvEnds(p) \/ CloseRead(p)
    BY <2>2 DEF RecvEnds, CloseRead, Close, TypeOK
  <2> QED
    BY <1>2, <2>1, <2>2 DEF ProcStep
<1>3. ASSUME NEW u \in Users, NEW t \in ThreadsOf(u), Stop(t, ProcOf[u]) PROVE TypeOK'
  <2>1. t \in Thread /\ ProcOf[u] \in Procs
    BY CrtFdAssumption DEF ThreadsOf
  <2>2. CASE StopRead(t, ProcOf[u])
    <3>1. PICK f \in Fds \cup {NoFd}, to \in {"stop_clear", "exit"} :
            Goto(t, "stop_read", to) /\ fd' = [fd EXCEPT ![t] = f]
      BY <2>1, <2>2 DEF StopRead, FdSocketRead, TypeOK
    <3> QED
      BY <2>1, <2>2, <3>1 DEF StopRead, Goto, TypeOK
  <2>3. CASE StopClear(t, ProcOf[u]) \/ StopClose(t)
    BY <2>1, <2>3 DEF StopClear, StopClose, Close, Goto, TypeOK
  <2> QED
    BY <1>3, <2>2, <2>3 DEF Stop
<1>4. ASSUME NEW u \in Users, JoinProc(u) \/ LoadFdSocket(u) \/ SendFdFails(u) \/ PthreadJoin(u)
      PROVE  TypeOK'
  <2>1. ProcOf[u] \in Procs
    BY CrtFdAssumption
  <2>2. CASE LoadFdSocket(u)
    <3>1. PICK f \in Fds \cup {NoFd} : fd' = [fd EXCEPT ![Conn(u)] = f]
      BY <2>1, <2>2 DEF LoadFdSocket, FdSocketRead, TypeOK
    <3> QED
      BY <2>1, <2>2, <3>1 DEF LoadFdSocket, Goto, TypeOK
  <2>3. CASE JoinProc(u) \/ SendFdFails(u) \/ PthreadJoin(u)
    BY <2>3 DEF JoinProc, SendFdFails, PthreadJoin, Goto, TypeOK
  <2> QED
    BY <1>4, <2>2, <2>3
<1>5. ASSUME NEW u \in Users, SendFd(u) PROVE TypeOK'
  BY <1>5 DEF SendFd, Goto, TypeOK
<1>6. ASSUME NEW u \in Users, Leave(u) PROVE TypeOK'
  BY <1>6 DEF Leave, Goto, TypeOK
<1> QED
  BY <1>0, <1>1, <1>2, <1>3, <1>4, <1>5, <1>6 DEF Next, ConnStep, Terminated, ThreadsOf

-----------------------------------------------------------------------------
(* What a step that creates no proc leaves of the bookkeeping of BaseInv:    *)
(* numbers are only given up, procs and connections only go on, and who is   *)
(* in a pipe has a connection that was accepted.                             *)
GoesOn ==
  /\ \A f \in Fds : table'[f] \in {table[f], Free}
  /\ \A p \in Procs : fdSocket'[p] \in {fdSocket[p], NoFd}
  /\ \A p \in Procs : procPc'[p] = "none" <=> procPc[p] = "none"
  /\ \A u \in Users :
       /\ pc'[Conn(u)] = "accept" => pc[Conn(u)] = "accept" /\ pc'[User(u)] = pc[User(u)]
       /\ pc'[Conn(u)] # "accept" /\ pc[Conn(u)] = "accept" =>
            procPc[ProcOf[u]] # "none" /\ u # Creator[ProcOf[u]]
  /\ \A p \in Procs : \A i \in 1..Len(pipe'[p]) : pc'[Conn(pipe'[p][i])] # "accept"

LEMMA StepsGoOn ==
  ASSUME BaseInv, [Next]_vars, \A p \in Procs : ~CreateProc(p)
  PROVE  GoesOn
<1>t. TypeOK
  BY DEF BaseInv
<1>p. \A p \in Procs : \A i \in 1..Len(pipe[p]) :
        pipe[p][i] \in Users /\ pc[Conn(pipe[p][i])] # "accept"
  BY DEF BaseInv, TypeOK
<1> USE <1>t, ThreadOK, FdsAreNat
<1>0. CASE UNCHANGED vars
  BY <1>0, <1>p DEF vars, GoesOn, TypeOK, BaseInv
(* One thread moves to a place that is not "accept", and the pipes stay.     *)
<1>g. ASSUME NEW t \in Thread, NEW from, NEW to, Goto(t, from, to),
             from # "accept", to # "accept", UNCHANGED <<procPc, pipe>>,
             \A f \in Fds : table'[f] \in {table[f], Free},
             \A p \in Procs : fdSocket'[p] \in {fdSocket[p], NoFd},
             \A u \in Users : t = User(u) => pc[Conn(u)] # "accept"
      PROVE  GoesOn
  BY <1>g, <1>p, GotoEffect, ThreadsDiffer DEF GoesOn
<1>c. \A u \in Users : pc[User(u)] # "none" => pc[Conn(u)] # "accept"
  BY DEF BaseInv, StartedOf
<1>2. ASSUME NEW p \in Procs, ProcStep(p) PROVE GoesOn
  <2>1. CASE RecvFd(p)
    <3>1. PICK q \in Procs :
            /\ pipe[q] # <<>>
            /\ pc' = [pc EXCEPT ![User(Head(pipe[q]))] = "session"]
            /\ pipe' = [pipe EXCEPT ![q] = Tail(@)]
      BY <2>1 DEF RecvFd
    <3>2. Head(pipe[q]) \in Users /\ Head(pipe[q]) = pipe[q][1] /\ 1 \in 1..Len(pipe[q])
      BY <3>1 DEF TypeOK
    <3>3. pc[Conn(Head(pipe[q]))] # "accept"
      BY <3>2, <1>p
    <3>4. \A v \in Users : pc'[Conn(v)] = pc[Conn(v)]
      BY <3>1, ThreadsDiffer DEF TypeOK
    <3>5. \A v \in Users : pc'[User(v)] # pc[User(v)] => v = Head(pipe[q])
      BY <3>1, <3>2, ThreadsDiffer DEF TypeOK
    <3>6. ASSUME NEW r \in Procs, NEW i \in 1..Len(pipe'[r])
          PROVE  pipe'[r][i] \in Users /\ pc[Conn(pipe'[r][i])] # "accept"
      <4>1. CASE r = q
        <5>1. pipe'[q] = Tail(pipe[q]) /\ pipe[q] \in Seq(Users)
          BY <3>1 DEF TypeOK
        <5>2. i + 1 \in 1..Len(pipe[q]) /\ pipe'[q][i] = pipe[q][i + 1]
          BY <3>1, <4>1, <5>1, <3>6, TailAt
        <5> QED
          BY <4>1, <5>2, <1>p
      <4>2. CASE r # q
        BY <3>1, <4>2, <3>6, <1>p DEF TypeOK
      <4> QED
        BY <4>1, <4>2
    <3>7. UNCHANGED <<table, fdSocket, procPc>>
      BY <2>1 DEF RecvFd
    <3> QED
      BY <3>2, <3>3, <3>4, <3>5, <3>6, <3>7 DEF GoesOn
  <2>2. CASE RecvEnds(p) \/ CloseRead(p)
    BY <2>2, <1>p DEF RecvEnds, CloseRead, Close, TypeOK, GoesOn
  <2> QED
    BY <1>2, <2>1, <2>2 DEF ProcStep
<1>3. ASSUME NEW u \in Users, NEW t \in ThreadsOf(u), Stop(t, ProcOf[u]) PROVE GoesOn
  <2>1. t \in Thread /\ ProcOf[u] \in Procs
    BY CrtFdAssumption DEF ThreadsOf
  <2>2. pc[t] # "none"
    BY <1>3 DEF Stop, StopRead, StopClear, StopClose, Goto
  <2>3. CASE StopRead(t, ProcOf[u])
    BY <2>1, <2>2, <2>3, <1>g, <1>c DEF StopRead
  <2>4. CASE StopClear(t, ProcOf[u])
    BY <2>1, <2>2, <2>4, <1>g, <1>c DEF StopClear, TypeOK
  <2>5. CASE StopClose(t)
    BY <2>1, <2>2, <2>5, <1>g, <1>c DEF StopClose, Close
  <2> QED
    BY <1>3, <2>3, <2>4, <2>5 DEF Stop
<1>4. ASSUME NEW u \in Users, LoadFdSocket(u) \/ SendFdFails(u) \/ PthreadJoin(u)
      PROVE  GoesOn
  BY <1>4, <1>g, ThreadsDiffer DEF LoadFdSocket, SendFdFails, PthreadJoin
<1>5. ASSUME NEW u \in Users, SendFd(u) PROVE GoesOn
  <2>1. PICK p \in Procs : pipe' = [pipe EXCEPT ![p] = Append(@, u)]
    BY <1>5 DEF SendFd
  <2>2. /\ pc[Conn(u)] = "send_fd" /\ pc'[Conn(u)] \in {"pthread_join", "exit"}
        /\ \A s \in Thread : s # Conn(u) => pc'[s] = pc[s]
        /\ UNCHANGED <<table, fdSocket, procPc>>
    BY <1>5 DEF SendFd, Goto, TypeOK
  <2>3. ASSUME NEW r \in Procs, NEW i \in 1..Len(pipe'[r])
        PROVE  pipe'[r][i] \in Users /\ pc[Conn(pipe'[r][i])] # "accept"
    <3>1. pipe[r] \in Seq(Users)
      BY DEF TypeOK
    <3>2. CASE r = p
      BY <2>1, <2>2, <2>3, <3>1, <3>2, <1>p DEF TypeOK
    <3>3. CASE r # p
      BY <2>1, <2>3, <3>3, <1>p DEF TypeOK
    <3> QED
      BY <3>2, <3>3
  <2>4. \A v \in Users : pc'[User(v)] = pc[User(v)] /\ (pc'[Conn(v)] = "accept" <=> pc[Conn(v)] = "accept")
    BY <2>2, ThreadsDiffer
  <2> QED
    BY <2>2, <2>3, <2>4 DEF GoesOn
<1>6. ASSUME NEW u \in Users, Leave(u) PROVE GoesOn
  BY <1>6, <1>g, <1>c, ThreadsDiffer DEF Leave, Goto
<1>7. ASSUME NEW u \in Users, JoinProc(u) PROVE GoesOn
  <2>1. Creator[ProcOf[u]] \in Users /\ ProcOf[Creator[ProcOf[u]]] = ProcOf[u]
    BY CrtFdAssumption
  <2>2. procPc[ProcOf[u]] # "none" /\ u # Creator[ProcOf[u]]
    BY <1>7, <2>1 DEF JoinProc, IsCreator, BaseInv, StartedOf
  <2>3. /\ pc'[Conn(u)] = "add_user" /\ \A s \in Thread : s # Conn(u) => pc'[s] = pc[s]
        /\ UNCHANGED <<table, fdSocket, procPc, pipe>>
    BY <1>7 DEF JoinProc, Goto, TypeOK
  <2> QED
    BY <2>2, <2>3, <1>p, ThreadsDiffer DEF GoesOn
<1> QED
  BY <1>0, <1>2, <1>3, <1>4, <1>5, <1>6, <1>7 DEF Next, ConnStep, Terminated, ThreadsOf

LEMMA BaseInit == Init => BaseInv
<1> SUFFICES ASSUME Init PROVE BaseInv
  OBVIOUS
<1>1. TypeOK
  BY CrtFdAssumption DEF Init, TypeOK, Thread
<1>2. \A u \in Users : pc[Conn(u)] = "accept" /\ pc[User(u)] = "none"
  BY ThreadOK DEF Init, Conn, User
<1> QED
  BY <1>1, <1>2, EndsDiffer, CrtFdAssumption
  DEF Init, BaseInv, OneDescriptorEach, StartedOf, NotYetOf, IsOpen

LEMMA BaseSafe ==
  ASSUME BaseInv, [Next]_vars
  PROVE  BaseInv'
<1>t. TypeOK /\ TypeOK'
  BY TypesKept DEF BaseInv
<1> USE <1>t, ThreadOK, FdsAreNat
<1>1. ASSUME NEW p \in Procs, CreateProc(p) PROVE BaseInv'
  <2>c. Creator[p] \in Users /\ ProcOf[Creator[p]] = p
    BY CrtFdAssumption
  <2>1. PICK r \in Fds, w \in Fds :
          /\ r # w /\ table[r] = Free /\ table[w] = Free
          /\ table' = [table EXCEPT ![r] = End(p, "read"), ![w] = End(p, "write")]
          /\ fdSocket' = [fdSocket EXCEPT ![p] = w]
    BY <1>1, CreateEffect
  <2>2. /\ procPc[p] = "none" /\ procPc' = [procPc EXCEPT ![p] = "recv_fd"]
        /\ pc'[Conn(Creator[p])] = "add_user" /\ pipe' = pipe
        /\ \A s \in Thread : s # Conn(Creator[p]) => pc'[s] = pc[s]
    BY <1>1, <2>c, CreateEffect, GotoEffect
  <2>3. \A f \in Fds : table'[f] = IF f = r THEN End(p, "read")
                                    ELSE IF f = w THEN End(p, "write") ELSE table[f]
    BY <2>1 DEF TypeOK
  <2>4. \A f \in Fds : table[f] # End(p, "read") /\ table[f] # End(p, "write")
    BY <2>2 DEF BaseInv, NotYetOf, IsOpen
  <2>5. OneDescriptorEach'
    BY <2>1, <2>3, <2>4, EndsDiffer DEF BaseInv, OneDescriptorEach
  <2>6. ASSUME NEW u \in Users PROVE StartedOf(u)'
    BY <2>c, <2>2, ThreadsDiffer DEF BaseInv, StartedOf, TypeOK
  <2>7. ASSUME NEW q \in Procs PROVE NotYetOf(q)'
    <3>1. CASE q = p
      BY <2>2, <3>1 DEF NotYetOf, TypeOK
    <3>2. CASE q # p
      <4>1. /\ procPc'[q] = procPc[q] /\ fdSocket'[q] = fdSocket[q]
            /\ pc'[Conn(Creator[q])] = pc[Conn(Creator[q])]
        <5>1. Creator[q] \in Users /\ Creator[q] # Creator[p]
          BY <3>2, CreatorsDiffer, CrtFdAssumption
        <5>2. Conn(Creator[q]) \in Thread /\ Conn(Creator[q]) # Conn(Creator[p])
          BY <5>1, ThreadsDiffer
        <5>3. procPc'[q] = procPc[q]
          BY <2>2, <3>2 DEF TypeOK
        <5>4. fdSocket'[q] = fdSocket[q]
          BY <2>1, <3>2 DEF TypeOK
        <5> QED
          BY <2>2, <5>2, <5>3, <5>4
      <4>2. IsOpen(End(q, "read"))' => IsOpen(End(q, "read"))
        BY <2>3, <3>2, EndsDiffer DEF IsOpen
      <4>3. IsOpen(End(q, "write"))' => IsOpen(End(q, "write"))
        BY <2>3, <3>2, EndsDiffer DEF IsOpen
      <4> QED
        BY <4>1, <4>2, <4>3 DEF BaseInv, NotYetOf
    <3> QED
      BY <3>1, <3>2
  <2>8. ASSUME NEW q \in Procs, NEW i \in 1..Len(pipe'[q])
        PROVE  pc'[Conn(pipe'[q][i])] # "accept"
    <3>1. pipe[q][i] \in Users /\ pc[Conn(pipe[q][i])] # "accept"
      BY <2>2 DEF BaseInv, TypeOK
    <3> QED
      BY <2>2, <3>1
  <2> QED
    BY <2>5, <2>6, <2>7, <2>8 DEF BaseInv
<1>2. CASE \A p \in Procs : ~CreateProc(p)
  <2>1. GoesOn
    BY <1>2, StepsGoOn
  <2>2. OneDescriptorEach'
    BY <2>1 DEF BaseInv, GoesOn, OneDescriptorEach
  <2>3. ASSUME NEW u \in Users PROVE StartedOf(u)'
    BY <2>1, CrtFdAssumption DEF BaseInv, StartedOf, GoesOn
  <2>4. ASSUME NEW p \in Procs PROVE NotYetOf(p)'
    <3>1. Creator[p] \in Users
      BY CrtFdAssumption
    <3>2. pc'[Conn(Creator[p])] = "accept" => procPc'[p] = "none"
      BY <2>1, <3>1 DEF BaseInv, NotYetOf, GoesOn
    <3>3. procPc'[p] = "none" => procPc[p] = "none" /\ fdSocket'[p] \in {fdSocket[p], NoFd}
      BY <2>1 DEF GoesOn
    <3>4. IsOpen(End(p, "read"))' => IsOpen(End(p, "read"))
      BY <2>1, EndsDiffer DEF IsOpen, GoesOn
    <3>5. IsOpen(End(p, "write"))' => IsOpen(End(p, "write"))
      BY <2>1, EndsDiffer DEF IsOpen, GoesOn
    <3> QED
      BY <3>2, <3>3, <3>4, <3>5 DEF BaseInv, NotYetOf
  <2> QED
    BY <2>1, <2>2, <2>3, <2>4 DEF BaseInv, GoesOn
<1> QED
  BY <1>1, <1>2

LEMMA BaseInvariant == Spec => []BaseInv
  BY BaseInit, BaseSafe, PTL DEF Spec

(* Whoever the users are, a new proc finds two free numbers, and every copy  *)
(* and field of proc-win32.c holds a descriptor or -1.                       *)
THEOREM CrtFdTypes == Spec => []TypeOK
<1>1. BaseInv => TypeOK
  BY DEF BaseInv
<1> QED
  BY BaseInvariant, <1>1, PTL

-----------------------------------------------------------------------------
(* Other threads than the creator's connection work for a proc only from the *)
(* time on at which the creator waits for its thread, or the thread is gone. *)
InUse(u) ==
  \/ u # Creator[ProcOf[u]] /\ pc[Conn(u)] # "accept"
  \/ pc[User(u)] # "none"
  \/ \E q \in Procs : \E i \in 1..Len(pipe[q]) : pipe[q][i] = u

Waits(p) == pc[Conn(Creator[p])] = "pthread_join" \/ procPc[p] = "exit"

WaitedFor == \A u \in Users : InUse(u) => Waits(ProcOf[u])

LEMMA WaitedForSafe ==
  ASSUME BaseInv, WaitedFor, [Next]_vars
  PROVE  WaitedFor'
<1>t. TypeOK /\ \A u \in Users : ProcOf[u] \in Procs /\ Creator[ProcOf[u]] \in Users
  BY CrtFdAssumption DEF BaseInv
<1> USE <1>t, ThreadOK
<1>0. CASE UNCHANGED vars
  BY <1>0 DEF vars, WaitedFor, InUse, Waits
(* What the steps have in common: nobody begins to work for a proc that is   *)
(* not waited for, and a wait ends only when the proc thread has returned.   *)
<1>g. ASSUME \A p \in Procs : procPc[p] = "exit" => procPc'[p] = "exit",
             \A p \in Procs : pc[Conn(Creator[p])] = "pthread_join" => Waits(p)',
             \A v \in Users : InUse(v)' => InUse(v) \/ Waits(ProcOf[v])'
      PROVE  WaitedFor'
  BY <1>g DEF WaitedFor, Waits
<1>w. ASSUME \A v \in Users : pc'[Conn(v)] = pc[Conn(v)]
      PROVE  \A p \in Procs : pc[Conn(Creator[p])] = "pthread_join" => Waits(p)'
  BY <1>w, CrtFdAssumption DEF Waits
(* One thread of a user moves on, and nobody else.                           *)
<1>m. ASSUME NEW u \in Users, NEW t \in ThreadsOf(u), NEW from, NEW to, Goto(t, from, to),
             from \notin {"accept", "none", "pthread_join"}, to \notin {"accept", "none"},
             UNCHANGED <<procPc, pipe>>
      PROVE  WaitedFor'
  <2>1. t \in Thread
    BY <1>m DEF ThreadsOf
  <2>2. pc[t] = from /\ pc'[t] = to /\ \A s \in Thread : s # t => pc'[s] = pc[s]
    BY <1>m, <2>1, GotoEffect
  <2>3. \A v \in Users : InUse(v)' => InUse(v)
    BY <1>m, <2>1, <2>2 DEF InUse
  <2>4. \A p \in Procs : pc[Conn(Creator[p])] = "pthread_join" => Waits(p)'
    BY <1>m, <2>1, <2>2, CrtFdAssumption DEF Waits
  <2> QED
    BY <1>g, <1>m, <2>3, <2>4
<1>1. ASSUME NEW p \in Procs, CreateProc(p) PROVE WaitedFor'
  <2>1. /\ procPc[p] = "none" /\ procPc' = [procPc EXCEPT ![p] = "recv_fd"] /\ pipe' = pipe
        /\ Creator[p] \in Users /\ ProcOf[Creator[p]] = p
        /\ pc[Conn(Creator[p])] = "accept"
        /\ \A s \in Thread : s # Conn(Creator[p]) => pc'[s] = pc[s]
    BY <1>1, CreateEffect, GotoEffect, CrtFdAssumption
  <2>2. \A v \in Users : InUse(v)' => InUse(v)
    BY <2>1, ThreadsDiffer DEF InUse
  <2>3. \A q \in Procs : pc[Conn(Creator[q])] = "pthread_join" => Waits(q)'
    BY <2>1, CrtFdAssumption DEF Waits
  <2> QED
    BY <1>g, <2>1, <2>2, <2>3 DEF TypeOK
<1>2. ASSUME NEW p \in Procs, RecvFd(p) PROVE WaitedFor'
  <2>1. PICK q \in Procs :
          /\ pipe[q] # <<>>
          /\ pc' = [pc EXCEPT ![User(Head(pipe[q]))] = "session"]
          /\ pipe' = [pipe EXCEPT ![q] = Tail(@)]
    BY <1>2 DEF RecvFd
  <2>2. /\ pipe[q] \in Seq(Users) /\ Head(pipe[q]) = pipe[q][1] /\ 1 \in 1..Len(pipe[q])
        /\ Head(pipe[q]) \in Users
    BY <2>1 DEF TypeOK
  <2>3. \A v \in Users : pc'[Conn(v)] = pc[Conn(v)]
    BY <2>1, <2>2, ThreadsDiffer DEF TypeOK
  <2>4. \A v \in Users : v # Head(pipe[q]) => pc'[User(v)] = pc[User(v)]
    BY <2>1, <2>2, ThreadsDiffer DEF TypeOK
  <2>5. ASSUME NEW r \in Procs, NEW i \in 1..Len(pipe'[r])
        PROVE  \E j \in 1..Len(pipe[r]) : pipe[r][j] = pipe'[r][i]
    <3>1. CASE r = q
      BY <2>1, <2>2, <2>5, <3>1, TailAt DEF TypeOK
    <3>2. CASE r # q
      BY <2>1, <2>5, <3>2 DEF TypeOK
    <3> QED
      BY <3>1, <3>2
  <2>6. InUse(Head(pipe[q]))
    BY <2>2 DEF InUse
  <2>7. ASSUME NEW v \in Users, InUse(v)' PROVE InUse(v)
    <3>1. CASE v = Head(pipe[q])
      BY <2>6, <3>1
    <3>2. CASE \E r \in Procs : \E i \in 1..Len(pipe'[r]) : pipe'[r][i] = v
      <4>1. \E r \in Procs : \E j \in 1..Len(pipe[r]) : pipe[r][j] = v
        BY <2>5, <3>2
      <4> QED
        BY <4>1 DEF InUse
    <3>3. CASE v # Head(pipe[q]) /\ (pc'[User(v)] # "none" \/ (v # Creator[ProcOf[v]] /\ pc'[Conn(v)] # "accept"))
      BY <2>3, <2>4, <3>3 DEF InUse
    <3> QED
      BY <2>7, <3>1, <3>2, <3>3 DEF InUse
  <2> QED
    BY <1>2, <1>g, <1>w, <2>3, <2>7 DEF RecvFd
<1>3. ASSUME NEW p \in Procs, RecvEnds(p) \/ CloseRead(p) PROVE WaitedFor'
  <2>1. UNCHANGED <<pc, pipe>> /\ \A q \in Procs : procPc[q] = "exit" => procPc'[q] = "exit"
    BY <1>3 DEF RecvEnds, CloseRead, TypeOK
  <2>2. \A v \in Users : InUse(v)' => InUse(v)
    BY <2>1 DEF InUse
  <2> QED
    BY <1>g, <1>w, <2>1, <2>2
<1>4. ASSUME NEW u \in Users, JoinProc(u) PROVE WaitedFor'
  <2>1. /\ u # Creator[ProcOf[u]] /\ pc[Conn(Creator[ProcOf[u]])] = "pthread_join"
        /\ UNCHANGED <<procPc, pipe>> /\ pc[Conn(u)] = "accept"
        /\ \A s \in Thread : s # Conn(u) => pc'[s] = pc[s]
    BY <1>4, GotoEffect DEF JoinProc, IsCreator
  <2>2. \A p \in Procs : pc[Conn(Creator[p])] = "pthread_join" => Waits(p)'
    BY <2>1, CrtFdAssumption DEF Waits
  <2>3. ASSUME NEW v \in Users, v # u PROVE InUse(v)' => InUse(v)
    BY <2>1, <2>3, ThreadsDiffer DEF InUse
  <2>4. Waits(ProcOf[u])'
    BY <2>1, <2>2
  <2> QED
    BY <1>g, <2>1, <2>2, <2>3, <2>4
<1>5. ASSUME NEW u \in Users, SendFd(u) PROVE WaitedFor'
  <2>1. PICK p \in Procs : pipe' = [pipe EXCEPT ![p] = Append(@, u)]
    BY <1>5 DEF SendFd
  <2>2. /\ pc[Conn(u)] = "send_fd" /\ procPc' = procPc
        /\ pc'[Conn(u)] = IF u = Creator[ProcOf[u]] THEN "pthread_join" ELSE "exit"
        /\ \A s \in Thread : s # Conn(u) => pc'[s] = pc[s]
    BY <1>5, GotoEffect DEF SendFd, IsCreator
  <2>3. ASSUME NEW r \in Procs, NEW i \in 1..Len(pipe'[r]), pipe'[r][i] # u
        PROVE  \E j \in 1..Len(pipe[r]) : pipe[r][j] = pipe'[r][i]
    <3>1. pipe[r] \in Seq(Users)
      BY DEF TypeOK
    <3>2. CASE r = p
      BY <2>1, <2>3, <3>1, <3>2 DEF TypeOK
    <3>3. CASE r # p
      BY <2>1, <2>3, <3>1, <3>3 DEF TypeOK
    <3> QED
      BY <3>2, <3>3
  <2>4. ASSUME NEW v \in Users, v # u, InUse(v)' PROVE InUse(v)
    <3>1. pc'[Conn(v)] = pc[Conn(v)] /\ pc'[User(v)] = pc[User(v)]
      BY <2>2, <2>4, ThreadsDiffer
    <3>2. CASE \E r \in Procs : \E i \in 1..Len(pipe'[r]) : pipe'[r][i] = v
      <4>1. \E r \in Procs : \E j \in 1..Len(pipe[r]) : pipe[r][j] = v
        BY <2>3, <2>4, <3>2
      <4> QED
        BY <4>1 DEF InUse
    <3>3. CASE pc[User(v)] # "none" \/ (v # Creator[ProcOf[v]] /\ pc[Conn(v)] # "accept")
      BY <3>3 DEF InUse
    <3> QED
      BY <2>4, <3>1, <3>2, <3>3 DEF InUse
  <2>5. u # Creator[ProcOf[u]] => InUse(u)
    BY <2>2 DEF InUse
  <2>6. u = Creator[ProcOf[u]] => Waits(ProcOf[u])'
    BY <2>2 DEF Waits
  <2>7. \A q \in Procs : pc[Conn(Creator[q])] = "pthread_join" => Waits(q)'
    BY <2>2, CrtFdAssumption DEF Waits
  <2> QED
    BY <1>g, <2>2, <2>4, <2>5, <2>6, <2>7
<1>6. ASSUME NEW u \in Users, PthreadJoin(u) PROVE WaitedFor'
  <2>1. /\ procPc[ProcOf[u]] = "exit" /\ UNCHANGED <<procPc, pipe>>
        /\ pc[Conn(u)] = "pthread_join" /\ pc'[Conn(u)] = "stop_read"
        /\ \A s \in Thread : s # Conn(u) => pc'[s] = pc[s]
    BY <1>6, GotoEffect DEF PthreadJoin
  <2>2. \A v \in Users : InUse(v)' => InUse(v)
    BY <2>1, ThreadsDiffer DEF InUse
  <2>3. \A p \in Procs : pc[Conn(Creator[p])] = "pthread_join" => Waits(p)'
    BY <2>1, ThreadsDiffer, CrtFdAssumption DEF Waits
  <2> QED
    BY <1>g, <2>1, <2>2, <2>3
<1>7. ASSUME NEW u \in Users, LoadFdSocket(u) \/ SendFdFails(u) PROVE WaitedFor'
  BY <1>7, <1>m DEF LoadFdSocket, SendFdFails, ThreadsOf
<1>8. ASSUME NEW u \in Users, Leave(u) PROVE WaitedFor'
  BY <1>8, <1>m DEF Leave, ThreadsOf
<1>9. ASSUME NEW u \in Users, NEW t \in ThreadsOf(u), Stop(t, ProcOf[u]) PROVE WaitedFor'
  <2>1. CASE StopRead(t, ProcOf[u])
    BY <2>1, <1>m DEF StopRead
  <2>2. CASE StopClear(t, ProcOf[u]) \/ StopClose(t)
    BY <2>2, <1>m DEF StopClear, StopClose
  <2> QED
    BY <1>9, <2>1, <2>2 DEF Stop
<1> QED
  BY <1>0, <1>1, <1>2, <1>3, <1>4, <1>5, <1>6, <1>7, <1>8, <1>9
  DEF Next, ConnStep, ProcStep, Terminated, ThreadsOf

LEMMA WaitedForInit == Init => WaitedFor
<1> SUFFICES ASSUME Init, NEW u \in Users PROVE ~InUse(u)
  BY DEF WaitedFor
<1>1. pc[Conn(u)] = "accept" /\ pc[User(u)] = "none" /\ \A q \in Procs : pipe[q] = <<>>
  BY ThreadOK DEF Init, Conn, User
<1> QED
  BY <1>1 DEF InUse

-----------------------------------------------------------------------------
(* Where no number is reused under a copy of it: a proc is created when its  *)
(* users have no copies, and the other procs' copies all stand for an end.   *)
Apart == OnlyProc \/ OneUserEach

CopyInUse(t) == pc[t] \in {"send_fd", "stop_clear", "stop_close"} /\ fd[t] # NoFd

LEMMA ThreadsOfOne ==
  ASSUME NEW u \in Users, NEW t \in ThreadsOf(u)
  PROVE  t \in Thread /\ \A v \in Users : t \in ThreadsOf(v) => v = u
  BY ThreadOK, ThreadsDiffer DEF ThreadsOf

LEMMA CopiesOpen ==
  ASSUME BaseInv, OwnInv, OneUserEach, AloneInv,
         NEW u \in Users, NEW t \in ThreadsOf(u), CopyInUse(t)
  PROVE  table[fd[t]] = End(ProcOf[u], "write")
<1>1. ProcOf[u] \in Procs /\ ProcOwns(ProcOf[u]) /\ AloneOf(u)
  BY CrtFdAssumption DEF OwnInv, AloneInv
<1>2. CASE t = Conn(u)
  BY <1>1, <1>2 DEF CopyInUse, AloneOf, ProcOwns
<1>3. CASE t = User(u)
  BY <1>1, <1>3 DEF CopyInUse, AloneOf, ProcOwns
<1> QED
  BY <1>2, <1>3 DEF ThreadsOf

(* A new proc is given numbers that nobody has.                              *)
LEMMA CreateOwn ==
  ASSUME Apart, BaseInv, OwnInv, OneUserEach => AloneInv,
         NEW p \in Procs, CreateProc(p)
  PROVE  OwnInv'
<1>t. TypeOK /\ Creator[p] \in Users
  BY CrtFdAssumption DEF BaseInv
<1>1. PICK r \in Fds, w \in Fds :
        /\ r # w /\ table[r] = Free /\ table[w] = Free
        /\ table' = [table EXCEPT ![r] = End(p, "read"), ![w] = End(p, "write")]
        /\ fdSocket' = [fdSocket EXCEPT ![p] = w]
        /\ readFd' = [readFd EXCEPT ![p] = r]
  BY CreateEffect
<1>2. /\ procPc[p] = "none" /\ procPc' = [procPc EXCEPT ![p] = "recv_fd"] /\ fd' = fd
      /\ pc'[Conn(Creator[p])] = "add_user"
      /\ \A s \in Thread : s # Conn(Creator[p]) => pc'[s] = pc[s]
  BY <1>t, ThreadOK, CreateEffect, GotoEffect
<1>3. \A f \in Fds : table[f] # Free => table'[f] = table[f]
  BY <1>t, <1>1 DEF TypeOK
<1>4. ASSUME NEW q \in Procs PROVE ProcOwns(q)'
  <2>1. CASE q = p
    <3>1. fdSocket'[p] \in Fds /\ readFd'[p] \in Fds /\ procPc'[p] = "recv_fd"
      BY <1>t, <1>1, <1>2 DEF TypeOK
    <3>2. table'[fdSocket'[p]] = End(p, "write") /\ table'[readFd'[p]] = End(p, "read")
      BY <1>t, <1>1 DEF TypeOK
    <3> QED
      BY <2>1, <3>1, <3>2, FdsAreNat DEF ProcOwns
  <2>2. CASE q # p
    <3>1. ProcOwns(q) /\ fdSocket'[q] = fdSocket[q] /\ readFd'[q] = readFd[q] /\ procPc'[q] = procPc[q]
      BY <1>t, <1>1, <1>2, <2>2 DEF OwnInv, TypeOK
    <3>2. fdSocket'[q] # NoFd => table'[fdSocket'[q]] = End(q, "write")
      BY <1>t, <1>3, <3>1, EndsDiffer DEF ProcOwns, TypeOK
    <3>3. procPc'[q] \in {"recv_fd", "cleanup_client"} =>
            readFd'[q] # NoFd /\ table'[readFd'[q]] = End(q, "read")
      BY <1>t, <1>3, <3>1, EndsDiffer DEF ProcOwns, TypeOK
    <3>4. IsOpen(End(q, "write"))' => IsOpen(End(q, "write"))
      BY <1>t, <1>1, <2>2, EndsDiffer DEF IsOpen, TypeOK
    <3>5. IsOpen(End(q, "read"))' => IsOpen(End(q, "read"))
      BY <1>t, <1>1, <2>2, EndsDiffer DEF IsOpen, TypeOK
    <3> QED
      BY <3>1, <3>2, <3>3, <3>4, <3>5 DEF ProcOwns
  <2> QED
    BY <2>1, <2>2
<1>5. ASSUME NEW u \in Users, NEW t \in ThreadsOf(u) PROVE CopyOwn(u, t)'
  <2>0. ProcOf[u] \in Procs /\ t \in Thread /\ CopyOwn(u, t)
    BY CrtFdAssumption, ThreadsOfOne DEF OwnInv
  <2>1. CASE ProcOf[u] = p
    <3>1. pc[Conn(u)] = "accept" /\ pc[User(u)] = "none"
      BY <1>2, <2>1 DEF BaseInv, StartedOf
    <3>2. pc'[t] \in {"accept", "none", "add_user"}
      BY <1>2, <2>0, <3>1 DEF ThreadsOf
    <3> QED
      BY <3>2 DEF CopyOwn
  <2>2. CASE ProcOf[u] # p
    <3>1. OneUserEach /\ AloneInv
      BY <2>0, <2>2 DEF Apart, OnlyProc
    <3>2. t # Conn(Creator[p])
      BY <1>t, <2>2, ThreadsDiffer, CrtFdAssumption DEF ThreadsOf
    <3>3. pc'[t] = pc[t] /\ fd'[t] = fd[t] /\ fdSocket'[ProcOf[u]] = fdSocket[ProcOf[u]]
      BY <1>t, <1>1, <1>2, <2>0, <2>2, <3>2 DEF TypeOK
    <3>4. ASSUME CopyInUse(t) PROVE table'[fd[t]] = End(ProcOf[u], "write")
      <4>1. table[fd[t]] = End(ProcOf[u], "write") /\ fd[t] \in Fds
        BY <1>t, <2>0, <3>1, <3>4, CopiesOpen DEF CopyInUse, TypeOK
      <4> QED
        BY <1>3, <4>1, EndsDiffer
    <3> QED
      BY <2>0, <3>3, <3>4 DEF CopyOwn, CopyInUse
  <2> QED
    BY <2>1, <2>2
<1> QED
  BY <1>4, <1>5 DEF OwnInv

(* A user that has a proc for itself reads fd_socket only while it is there. *)
LEMMA AloneReads ==
  ASSUME OneUserEach, BaseInv, WaitedFor, OwnInv, AloneInv,
         NEW u \in Users, NEW t \in ThreadsOf(u), pc[t] \in {"add_user", "stop_read"}
  PROVE  FdSocketRead(ProcOf[u]) = {fdSocket[ProcOf[u]]}
<1> SUFFICES ASSUME pc[Conn(Creator[ProcOf[u]])] = "exit" PROVE FALSE
  BY DEF FdSocketRead
<1>1. ProcOf[u] \in Procs /\ Creator[ProcOf[u]] = u
  BY CrtFdAssumption DEF OneUserEach
<1>2. t = User(u) /\ pc[User(u)] \in {"add_user", "stop_read"} /\ pc[Conn(u)] = "exit"
  BY <1>1 DEF ThreadsOf
<1>3. procPc[ProcOf[u]] = "exit"
  BY <1>1, <1>2 DEF WaitedFor, InUse, Waits
<1>4. fdSocket[ProcOf[u]] = NoFd
  BY <1>1, <1>3 DEF OwnInv, ProcOwns, IsOpen, BaseInv, TypeOK
<1>5. pc[User(u)] # "add_user"
  BY <1>1, <1>2 DEF BaseInv, TypeOK, AloneInv, AloneOf
<1> QED
  BY <1>1, <1>2, <1>4, <1>5 DEF AloneInv, AloneOf

(* With one proc, no number stands for anything when the proc is freed.      *)
LEMMA ReadsOwn ==
  ASSUME Apart, BaseInv, WaitedFor, OwnInv, OneUserEach => AloneInv,
         NEW u \in Users, NEW t \in ThreadsOf(u), pc[t] \in {"add_user", "stop_read"},
         NEW f \in FdSocketRead(ProcOf[u])
  PROVE  f # NoFd => table[f] \in {Free, End(ProcOf[u], "write")}
<1>0. TypeOK /\ ProcOf[u] \in Procs /\ ProcOwns(ProcOf[u])
  BY CrtFdAssumption DEF BaseInv, OwnInv
<1>1. CASE f = fdSocket[ProcOf[u]]
  BY <1>0, <1>1 DEF ProcOwns
<1>2. CASE f # fdSocket[ProcOf[u]]
  <2>1. OnlyProc
    BY <1>2, AloneReads DEF Apart
  <2>2. pc[Conn(Creator[ProcOf[u]])] = "exit" /\ f \in Fds \cup {NoFd}
    BY <1>2 DEF FdSocketRead
  <2>3. InUse(u)
    BY <2>2 DEF InUse, ThreadsOf
  <2>4. procPc[ProcOf[u]] = "exit"
    BY <2>2, <2>3 DEF WaitedFor, Waits
  <2>5. \A g \in Fds : table[g] = Free
    <3>1. ~IsOpen(End(ProcOf[u], "read")) /\ ~IsOpen(End(ProcOf[u], "write"))
      BY <1>0, <2>4 DEF ProcOwns
    <3>2. ASSUME NEW g \in Fds, table[g] # Free
          PROVE  table[g] \in {End(ProcOf[u], "read"), End(ProcOf[u], "write")}
      <4>1. table[g] \in Ends
        BY <1>0, <3>2 DEF TypeOK
      <4> QED
        BY <1>0, <2>1, <4>1 DEF Ends, End, OnlyProc
    <3> QED
      BY <3>1, <3>2 DEF IsOpen
  <2> QED
    BY <2>2, <2>5
<1> QED
  BY <1>1, <1>2

(* The other steps close what is theirs.                                     *)
LEMMA OwnSafe ==
  ASSUME Apart, BaseInv, WaitedFor, OwnInv, OneUserEach => AloneInv, [Next]_vars
  PROVE  OwnInv'
<1>t. TypeOK
  BY DEF BaseInv
<1>o. /\ \A p \in Procs : ProcOwns(p)
      /\ \A v \in Users : \A s \in ThreadsOf(v) : CopyOwn(v, s)
  BY DEF OwnInv
<1> USE <1>t, ThreadOK, FdsAreNat
<1>0. CASE UNCHANGED vars
  BY <1>0, <1>o DEF vars, OwnInv, ProcOwns, CopyOwn, IsOpen
<1>1. ASSUME NEW p \in Procs, CreateProc(p) PROVE OwnInv'
  BY <1>1, CreateOwn
(* One thread of a user moves, and closes nothing.                           *)
<1>g. ASSUME NEW u \in Users, NEW t \in ThreadsOf(u), NEW from, NEW to, Goto(t, from, to),
             UNCHANGED <<table, readFd, procPc>>,
             \A s \in Thread : s # t => fd'[s] = fd[s],
             \A p \in Procs : fdSocket'[p] = fdSocket[p] \/ (fdSocket'[p] = NoFd /\ p = ProcOf[u]),
             CopyOwn(u, t)'
      PROVE  OwnInv'
  <2>1. \A p \in Procs : ProcOwns(p)'
    BY <1>g, <1>o DEF ProcOwns, IsOpen
  <2>2. ASSUME NEW v \in Users, NEW s \in ThreadsOf(v), s # t PROVE CopyOwn(v, s)'
    <3>1. s \in Thread /\ t \in Thread /\ ProcOf[v] \in Procs
      BY <1>g, ThreadsOfOne, CrtFdAssumption
    <3>2. pc'[s] = pc[s] /\ fd'[s] = fd[s] /\ fdSocket'[ProcOf[v]] \in {fdSocket[ProcOf[v]], NoFd}
      BY <1>g, <2>2, <3>1, GotoEffect
    <3> QED
      BY <1>g, <1>o, <3>2 DEF CopyOwn
  <2> QED
    BY <1>g, <2>1, <2>2, ThreadsOfOne DEF OwnInv
<1>2. ASSUME NEW p \in Procs, RecvFd(p) PROVE OwnInv'
  <2>1. PICK q \in Procs :
          pipe[q] # <<>> /\ pc' = [pc EXCEPT ![User(Head(pipe[q]))] = "session"]
    BY <1>2 DEF RecvFd
  <2>2. \A s \in Thread : pc'[s] \in {pc[s], "session"}
    BY <2>1 DEF TypeOK
  <2>3. \A v \in Users : \A s \in ThreadsOf(v) : CopyOwn(v, s)'
    BY <1>2, <1>o, <2>2, ThreadsOfOne DEF RecvFd, CopyOwn
  <2>4. \A r \in Procs : ProcOwns(r)'
    BY <1>2, <1>o DEF RecvFd, ProcOwns, IsOpen
  <2> QED
    BY <2>3, <2>4 DEF OwnInv
<1>3. ASSUME NEW p \in Procs, RecvEnds(p) PROVE OwnInv'
  <2>1. procPc[p] = "recv_fd" /\ readFd[p] \in Fds /\ table[readFd[p]] = End(p, "read")
    BY <1>3, <1>o DEF RecvEnds, ProcOwns, TypeOK
  <2>2. ~IsOpen(End(p, "write"))
    BY <1>3, <2>1, EndsDiffer DEF RecvEnds, ReadFails, AtEof, StandsFor
  <2>3. ASSUME NEW r \in Procs PROVE ProcOwns(r)'
    BY <1>3, <1>o, <2>1, <2>2 DEF RecvEnds, ProcOwns, IsOpen, TypeOK
  <2>4. \A v \in Users : \A s \in ThreadsOf(v) : CopyOwn(v, s)'
    BY <1>3, <1>o DEF RecvEnds, CopyOwn
  <2> QED
    BY <2>3, <2>4 DEF OwnInv
<1>4. ASSUME NEW p \in Procs, CloseRead(p) PROVE OwnInv'
  <2>1. procPc[p] = "cleanup_client" /\ readFd[p] \in Fds /\ table[readFd[p]] = End(p, "read")
    BY <1>4, <1>o DEF CloseRead, ProcOwns, TypeOK
  <2>2. \A f \in Fds : table'[f] = IF table[f] = End(p, "read") THEN Free ELSE table[f]
    BY <1>4, <2>1, EndsDiffer DEF CloseRead, Close, BaseInv, OneDescriptorEach
  <2>3. procPc' = [procPc EXCEPT ![p] = "exit"] /\ UNCHANGED <<fdSocket, readFd, pc, fd>>
    BY <1>4 DEF CloseRead
  <2>4. ASSUME NEW r \in Procs PROVE ProcOwns(r)'
    <3>1. IsOpen(End(r, "write"))' => IsOpen(End(r, "write"))
      BY <2>2, EndsDiffer DEF IsOpen
    <3>2. fdSocket'[r] # NoFd => table'[fdSocket'[r]] = End(r, "write")
      BY <1>o, <2>2, <2>3, EndsDiffer DEF ProcOwns, TypeOK
    <3>3. procPc'[r] \in {"recv_fd", "cleanup_client"} =>
            r # p /\ readFd'[r] # NoFd /\ table'[readFd'[r]] = End(r, "read")
      BY <1>o, <2>2, <2>3, EndsDiffer DEF ProcOwns, TypeOK
    <3>4. procPc'[r] \in {"cleanup_client", "exit"} => procPc[r] \in {"cleanup_client", "exit"}
      BY <2>1, <2>3 DEF TypeOK
    <3>5. procPc'[r] = "exit" => ~IsOpen(End(r, "read"))'
      <4>1. CASE r = p
        BY <2>2, <4>1, EndsDiffer DEF IsOpen
      <4>2. CASE r # p
        <5>1. IsOpen(End(r, "read"))' => IsOpen(End(r, "read"))
          BY <2>2, EndsDiffer DEF IsOpen
        <5> QED
          BY <1>o, <2>3, <4>2, <5>1 DEF ProcOwns, TypeOK
      <4> QED
        BY <4>1, <4>2
    <3> QED
      BY <1>o, <3>1, <3>2, <3>3, <3>4, <3>5 DEF ProcOwns
  <2>5. ASSUME NEW v \in Users, NEW s \in ThreadsOf(v) PROVE CopyOwn(v, s)'
    <3>1. fd[s] \in Fds \cup {NoFd} /\ CopyOwn(v, s)
      BY <1>o, ThreadsOfOne DEF TypeOK
    <3> QED
      BY <2>2, <2>3, <3>1, EndsDiffer DEF CopyOwn
  <2> QED
    BY <2>4, <2>5 DEF OwnInv
<1>5. ASSUME NEW u \in Users, NEW t \in ThreadsOf(u), Stop(t, ProcOf[u]) PROVE OwnInv'
  <2>1. t \in Thread /\ ProcOf[u] \in Procs /\ ProcOwns(ProcOf[u]) /\ CopyOwn(u, t)
    BY <1>o, ThreadsOfOne, CrtFdAssumption
  <2>2. CASE StopRead(t, ProcOf[u])
    <3>0. PICK f \in FdSocketRead(ProcOf[u]), to \in {"stop_clear", "exit"} :
            /\ Goto(t, "stop_read", to) /\ fd' = [fd EXCEPT ![t] = f]
            /\ UNCHANGED <<table, fdSocket, readFd, procPc, pipe>>
      BY <2>2 DEF StopRead
    <3>1. CopyOwn(u, t)'
      <4>1. pc[t] = "stop_read" /\ pc'[t] = to /\ fd'[t] = f
        BY <2>1, <3>0, GotoEffect DEF TypeOK
      <4>2. f # NoFd => table[f] \in {Free, End(ProcOf[u], "write")}
        BY <4>1, ReadsOwn
      <4> QED
        BY <3>0, <4>1, <4>2 DEF CopyOwn
    <3>2. \A s \in Thread : s # t => fd'[s] = fd[s]
      BY <2>1, <3>0 DEF TypeOK
    <3> QED
      BY <2>1, <3>0, <3>1, <3>2, <1>g
  <2>3. CASE StopClear(t, ProcOf[u])
    <3>1. CopyOwn(u, t)'
      BY <2>1, <2>3, GotoEffect DEF StopClear, CopyOwn, TypeOK
    <3>2. \A p \in Procs : fdSocket'[p] = IF p = ProcOf[u] THEN NoFd ELSE fdSocket[p]
      BY <2>1, <2>3 DEF StopClear, TypeOK
    <3> QED
      BY <2>1, <2>3, <3>1, <3>2, <1>g DEF StopClear
  <2>4. CASE StopClose(t)
    <3>1. pc[t] = "stop_close" /\ pc'[t] = "exit" /\ fdSocket[ProcOf[u]] = NoFd
      BY <2>1, <2>4, GotoEffect DEF StopClose, CopyOwn
    <3>2. \A s \in Thread : s # t => pc'[s] = pc[s]
      BY <2>1, <2>4, GotoEffect DEF StopClose
    <3>3. UNCHANGED <<fdSocket, readFd, procPc, fd>>
      BY <2>4 DEF StopClose
    <3>4. \A f \in Fds : /\ table'[f] = IF f = fd[t] THEN Free ELSE table[f]
                         /\ f = fd[t] => table[f] \in {Free, End(ProcOf[u], "write")}
      BY <2>1, <2>4, <3>1 DEF StopClose, Close, CopyOwn
    <3>5. ASSUME NEW r \in Procs PROVE ProcOwns(r)'
      <4>1. IsOpen(End(r, "write"))' => IsOpen(End(r, "write"))
        BY <3>4, EndsDiffer DEF IsOpen
      <4>2. fdSocket'[r] # NoFd => table'[fdSocket'[r]] = End(r, "write")
        <5>1. ASSUME fdSocket[r] # NoFd
              PROVE  fdSocket[r] \in Fds /\ table[fdSocket[r]] = End(r, "write") /\ r # ProcOf[u]
          BY <1>o, <3>1, <5>1 DEF ProcOwns, TypeOK
        <5>2. fdSocket[r] # NoFd => fdSocket[r] # fd[t]
          BY <2>1, <3>4, <5>1, EndsDiffer
        <5> QED
          BY <3>3, <3>4, <5>1, <5>2
      <4>3. procPc'[r] \in {"recv_fd", "cleanup_client"} =>
              readFd'[r] # NoFd /\ table'[readFd'[r]] = End(r, "read")
        <5>1. ASSUME procPc[r] \in {"recv_fd", "cleanup_client"}
              PROVE  /\ readFd[r] \in Fds /\ readFd[r] # NoFd
                     /\ table[readFd[r]] = End(r, "read")
          BY <1>o, <5>1 DEF ProcOwns, TypeOK
        <5>2. procPc[r] \in {"recv_fd", "cleanup_client"} => readFd[r] # fd[t]
          BY <2>1, <3>4, <5>1, EndsDiffer
        <5> QED
          BY <3>3, <3>4, <5>1, <5>2
      <4>4. IsOpen(End(r, "read"))' => IsOpen(End(r, "read"))
        BY <3>4, EndsDiffer DEF IsOpen
      <4> QED
        BY <1>o, <3>3, <4>1, <4>2, <4>3, <4>4 DEF ProcOwns
    <3>6. ASSUME NEW v \in Users, NEW s \in ThreadsOf(v) PROVE CopyOwn(v, s)'
      <4>1. s \in Thread /\ fd[s] \in Fds \cup {NoFd} /\ CopyOwn(v, s)
        BY <1>o, ThreadsOfOne DEF TypeOK
      <4> QED
        BY <3>1, <3>2, <3>3, <3>4, <4>1 DEF CopyOwn
    <3> QED
      BY <3>5, <3>6 DEF OwnInv
  <2> QED
    BY <1>5, <2>2, <2>3, <2>4 DEF Stop
<1>6. ASSUME NEW u \in Users, LoadFdSocket(u) PROVE OwnInv'
  <2>1. Conn(u) \in ThreadsOf(u) /\ ProcOf[u] \in Procs /\ ProcOwns(ProcOf[u])
    BY <1>o, CrtFdAssumption DEF ThreadsOf
  <2>0. PICK f \in FdSocketRead(ProcOf[u]) : fd' = [fd EXCEPT ![Conn(u)] = f]
    BY <1>6 DEF LoadFdSocket
  <2>2. CopyOwn(u, Conn(u))'
    <3>1. pc[Conn(u)] = "add_user" /\ pc'[Conn(u)] = "send_fd" /\ fd'[Conn(u)] = f
      BY <1>6, <2>0, GotoEffect DEF LoadFdSocket, TypeOK
    <3>2. f # NoFd => table[f] \in {Free, End(ProcOf[u], "write")}
      BY <2>1, <3>1, ReadsOwn
    <3> QED
      BY <1>6, <3>1, <3>2 DEF LoadFdSocket, CopyOwn
  <2>3. \A s \in Thread : s # Conn(u) => fd'[s] = fd[s]
    BY <2>0 DEF TypeOK
  <2> QED
    BY <1>6, <2>1, <2>2, <2>3, <1>g DEF LoadFdSocket
<1>7. ASSUME NEW u \in Users,
             JoinProc(u) \/ SendFd(u) \/ SendFdFails(u) \/ PthreadJoin(u) \/ Leave(u)
      PROVE  OwnInv'
  <2>1. PICK t \in ThreadsOf(u) :
          \E from, to : Goto(t, from, to) /\ to \notin {"send_fd", "stop_clear", "stop_close"}
    BY <1>7 DEF JoinProc, SendFd, SendFdFails, PthreadJoin, Leave, ThreadsOf
  <2>2. UNCHANGED <<table, fdSocket, readFd, procPc, fd>>
    BY <1>7 DEF JoinProc, SendFd, SendFdFails, PthreadJoin, Leave
  <2>3. CopyOwn(u, t)'
    BY <2>1, ThreadsOfOne, GotoEffect DEF CopyOwn
  <2> QED
    BY <2>1, <2>2, <2>3, <1>g
<1> QED
  BY <1>0, <1>1, <1>2, <1>3, <1>4, <1>5, <1>6, <1>7
  DEF Next, ConnStep, ProcStep, Terminated, ThreadsOf

-----------------------------------------------------------------------------
PipesAlone ==
  /\ \A p \in Procs : \A i \in 1..Len(pipe[p]) : InPipe(p, i)
  /\ \A p, q \in Procs : \A i \in 1..Len(pipe[p]), j \in 1..Len(pipe[q]) :
       pipe[p][i] = pipe[q][j] => p = q /\ i = j

(* With one user for each proc guacd_send_fd finds the pipe open at both     *)
(* ends.                                                                     *)
LEMMA SendSucceeds ==
  ASSUME OneUserEach, BaseInv, OwnInv, AloneInv, NEW u \in Users
  PROVE  ~SendFdFails(u)
<1> SUFFICES ASSUME SendFdFails(u) PROVE FALSE
  OBVIOUS
<1> DEFINE p == ProcOf[u]
<1>t. TypeOK /\ p \in Procs
  BY CrtFdAssumption DEF BaseInv
<1>1. pc[Conn(u)] = "send_fd"
  BY DEF SendFdFails, Goto
<1>2. fdSocket[p] # NoFd /\ fd[Conn(u)] = fdSocket[p]
  BY <1>1 DEF AloneInv, AloneOf
<1>3. fdSocket[p] \in Fds /\ table[fdSocket[p]] = End(p, "write")
  BY <1>t, <1>2 DEF OwnInv, ProcOwns, TypeOK
<1>4. procPc[p] # "none" /\ procPc[p] \notin {"cleanup_client", "exit"}
  BY <1>t, <1>1, <1>3 DEF BaseInv, StartedOf, OwnInv, ProcOwns, IsOpen
<1>5. procPc[p] = "recv_fd"
  BY <1>t, <1>4 DEF TypeOK
<1>6. readFd[p] \in Fds /\ table[readFd[p]] = End(p, "read")
  BY <1>t, <1>5 DEF OwnInv, ProcOwns, TypeOK
<1>7. Writable(fd[Conn(u)], p)
  BY <1>2, <1>3, <1>6 DEF Writable, StandsFor, IsOpen
<1> QED
  BY <1>t, <1>7 DEF SendFdFails

LEMMA AloneSafe ==
  ASSUME OneUserEach, BaseInv, WaitedFor, OwnInv, AloneInv, [Next]_vars
  PROVE  AloneInv'
<1>t. TypeOK
  BY DEF BaseInv
<1>a. \A v \in Users : AloneOf(v) /\ ProcOf[v] \in Procs
  BY CrtFdAssumption DEF AloneInv
<1>p. PipesAlone /\ \A p \in Procs : \A i \in 1..Len(pipe[p]) : pipe[p][i] \in Users
  BY <1>t DEF AloneInv, PipesAlone, TypeOK
<1>u. ASSUME NEW p \in Procs, NEW q \in Procs,
             NEW i \in 1..Len(pipe[p]), NEW j \in 1..Len(pipe[q]), pipe[p][i] = pipe[q][j]
      PROVE  p = q /\ i = j
  BY <1>p, <1>u DEF PipesAlone
<1> USE <1>t, ThreadOK, FdsAreNat
<1>c. \A u \in Users : Creator[ProcOf[u]] = u
  BY <1>a, CrtFdAssumption DEF OneUserEach
(* What does not concern a user and its proc.                                *)
<1>v. ASSUME NEW v \in Users,
             pc'[Conn(v)] = pc[Conn(v)], pc'[User(v)] = pc[User(v)],
             fd'[Conn(v)] = fd[Conn(v)], fd'[User(v)] = fd[User(v)],
             fdSocket'[ProcOf[v]] = fdSocket[ProcOf[v]],
             pc[User(v)] = "stop_close" => table'[fd[User(v)]] = table[fd[User(v)]]
      PROVE  AloneOf(v)'
  BY <1>v, <1>a DEF AloneOf
(* What does not concern the pipes.                                          *)
<1>q. ASSUME pipe' = pipe,
             \A v \in Users :
               /\ pc[Conn(v)] \notin {"accept", "add_user", "send_fd"} =>
                    pc'[Conn(v)] \notin {"accept", "add_user", "send_fd"}
               /\ pc[User(v)] = "none" /\ pc[Conn(v)] \notin {"accept", "add_user", "send_fd"} =>
                    pc'[User(v)] = "none"
      PROVE  PipesAlone'
  BY <1>q, <1>p DEF PipesAlone, InPipe
<1>s. (\A v \in Users : AloneOf(v)') /\ PipesAlone' => AloneInv'
  BY DEF AloneInv, PipesAlone
(* One thread of a user moves.                                               *)
<1>g. ASSUME NEW u \in Users, NEW t \in ThreadsOf(u), NEW from, NEW to, Goto(t, from, to),
             pipe' = pipe,
             \A s \in Thread : s # t => fd'[s] = fd[s],
             \A p \in Procs : p # ProcOf[u] => fdSocket'[p] = fdSocket[p],
             \A v \in Users : v # u /\ pc[User(v)] = "stop_close" =>
               table'[fd[User(v)]] = table[fd[User(v)]],
             to \in {"accept", "add_user", "send_fd"} => from \in {"accept", "add_user", "send_fd"},
             from # "none",
             AloneOf(u)'
      PROVE  AloneInv'
  <2>1. \A s \in Thread : s # t => pc'[s] = pc[s]
    BY <1>g, ThreadsOfOne, GotoEffect
  <2>2. pc[t] = from /\ pc'[t] = to
    BY <1>g, ThreadsOfOne, GotoEffect
  <2>3. ASSUME NEW v \in Users, v # u PROVE AloneOf(v)'
    <3>1. ProcOf[v] # ProcOf[u] /\ Conn(v) # t /\ User(v) # t
      BY <1>g, <2>3, ThreadsOfOne DEF OneUserEach, ThreadsOf
    <3> QED
      BY <1>g, <1>a, <2>1, <2>3, <3>1, <1>v
  <2>4. ASSUME NEW v \in Users
        PROVE  /\ pc[Conn(v)] \notin {"accept", "add_user", "send_fd"} =>
                    pc'[Conn(v)] \notin {"accept", "add_user", "send_fd"}
               /\ pc[User(v)] = "none" => pc'[User(v)] = "none"
    BY <1>g, <2>1, <2>2
  <2> QED
    BY <1>g, <1>q, <1>s, <2>3, <2>4
<1>0. CASE UNCHANGED vars
  <2>1. \A v \in Users : AloneOf(v)'
    BY <1>0, <1>v DEF vars
  <2> QED
    BY <1>0, <2>1, <1>q, <1>s DEF vars
<1>1. ASSUME NEW p \in Procs, CreateProc(p) PROVE AloneInv'
  <2>1. PICK r \in Fds, w \in Fds :
          /\ table[r] = Free /\ table[w] = Free
          /\ table' = [table EXCEPT ![r] = End(p, "read"), ![w] = End(p, "write")]
          /\ fdSocket' = [fdSocket EXCEPT ![p] = w]
    BY <1>1, CreateEffect
  <2>2. Creator[p] \in Users /\ ProcOf[Creator[p]] = p /\ Conn(Creator[p]) \in ThreadsOf(Creator[p])
    BY CrtFdAssumption DEF ThreadsOf
  <2>3. /\ Goto(Conn(Creator[p]), "accept", "add_user") /\ UNCHANGED <<fd, pipe>>
        /\ procPc[p] = "none"
    BY <1>1, CreateEffect
  <2>4. ASSUME NEW v \in Users, v # Creator[p], pc[User(v)] = "stop_close"
        PROVE  table'[fd[User(v)]] = table[fd[User(v)]]
    <3>1. fd[User(v)] \in Fds /\ table[fd[User(v)]] = End(ProcOf[v], "write")
      BY <1>a, <2>4 DEF AloneOf, TypeOK
    <3> QED
      BY <2>1, <3>1, EndsDiffer DEF TypeOK
  <2>5. AloneOf(Creator[p])'
    <3>1. /\ pc'[Conn(Creator[p])] = "add_user"
          /\ pc'[User(Creator[p])] = pc[User(Creator[p])]
          /\ pc[Conn(Creator[p])] = "accept"
      BY <2>2, <2>3, GotoEffect, ThreadsDiffer
    <3>2. pc[User(Creator[p])] = "none"
      BY <2>2, <3>1 DEF BaseInv, StartedOf
    <3>3. fdSocket'[p] # NoFd
      BY <2>1 DEF TypeOK
    <3> QED
      BY <2>2, <3>1, <3>2, <3>3 DEF AloneOf
  <2>6. \A q \in Procs : q # p => fdSocket'[q] = fdSocket[q]
    BY <2>1 DEF TypeOK
  <2> QED
    BY <2>2, <2>3, <2>4, <2>5, <2>6, <1>g
<1>2. ASSUME NEW u \in Users, JoinProc(u) PROVE FALSE
  BY <1>2, <1>c DEF JoinProc, IsCreator
<1>3. ASSUME NEW u \in Users, LoadFdSocket(u) PROVE AloneInv'
  <2>1. Conn(u) \in ThreadsOf(u) /\ Goto(Conn(u), "add_user", "send_fd")
    BY <1>3 DEF ThreadsOf, LoadFdSocket
  <2>2. /\ pc[Conn(u)] = "add_user" /\ pc'[Conn(u)] = "send_fd" /\ pc'[User(u)] = pc[User(u)]
    BY <2>1, GotoEffect, ThreadsDiffer
  <2>r. FdSocketRead(ProcOf[u]) = {fdSocket[ProcOf[u]]}
    BY <2>1, <2>2, AloneReads
  <2>3. /\ fd'[Conn(u)] = fdSocket[ProcOf[u]]
        /\ \A s \in Thread : s # Conn(u) => fd'[s] = fd[s]
        /\ UNCHANGED <<table, fdSocket, pipe>>
    BY <1>3, <2>r DEF LoadFdSocket, TypeOK
  <2>4. AloneOf(u)'
    BY <1>a, <2>2, <2>3 DEF AloneOf
  <2> QED
    BY <2>1, <2>3, <2>4, <1>g
<1>4. ASSUME NEW u \in Users, PthreadJoin(u) PROVE AloneInv'
  <2>1. Conn(u) \in ThreadsOf(u) /\ Goto(Conn(u), "pthread_join", "stop_read")
    BY <1>4 DEF ThreadsOf, PthreadJoin
  <2>2. /\ pc[Conn(u)] = "pthread_join" /\ pc'[Conn(u)] = "stop_read"
        /\ pc'[User(u)] = pc[User(u)]
    BY <2>1, GotoEffect, ThreadsDiffer
  <2>3. fdSocket[ProcOf[u]] = NoFd
    BY <1>4, <1>a DEF PthreadJoin, OwnInv, ProcOwns, IsOpen, TypeOK
  <2>4. UNCHANGED <<table, fdSocket, pipe, fd>>
    BY <1>4 DEF PthreadJoin
  <2>5. AloneOf(u)'
    BY <1>a, <2>2, <2>3, <2>4 DEF AloneOf
  <2> QED
    BY <2>1, <2>4, <2>5, <1>g
<1>5. ASSUME NEW u \in Users, NEW t \in ThreadsOf(u), Stop(t, ProcOf[u]) PROVE AloneInv'
  <2>0. t \in Thread /\ ProcOf[u] \in Procs /\ AloneOf(u) /\ t \in {Conn(u), User(u)}
    BY <1>a, ThreadsOfOne DEF ThreadsOf
  <2>c. t = User(u) => pc[Conn(u)] \notin {"accept", "add_user", "send_fd"}
    BY <1>5, <2>0 DEF Stop, StopRead, StopClear, StopClose, Goto, AloneOf, BaseInv, StartedOf
  <2>1. CASE StopRead(t, ProcOf[u])
    <3>0. FdSocketRead(ProcOf[u]) = {fdSocket[ProcOf[u]]}
      BY <2>1, AloneReads DEF StopRead, Goto
    <3>1. PICK to \in {"stop_clear", "exit"} :
            Goto(t, "stop_read", to) /\ (to = "stop_clear" <=> fdSocket[ProcOf[u]] >= 0)
      BY <2>1, <3>0 DEF StopRead
    <3>2. /\ pc[t] = "stop_read" /\ pc'[t] = to
          /\ \A s \in Thread : s # t => pc'[s] = pc[s]
      BY <2>0, <3>1, GotoEffect
    <3>3. /\ fd'[t] = fdSocket[ProcOf[u]]
          /\ \A s \in Thread : s # t => fd'[s] = fd[s]
          /\ UNCHANGED <<table, fdSocket, pipe>>
      BY <2>0, <2>1, <3>0 DEF StopRead, TypeOK
    <3>4. fdSocket[ProcOf[u]] >= 0 <=> fdSocket[ProcOf[u]] # NoFd
      <4>1. fdSocket[ProcOf[u]] \in Fds \cup {NoFd}
        BY <2>0 DEF TypeOK
      <4> QED
        BY <4>1 DEF Fds, NoFd
    <3>5. AloneOf(u)'
      <4>1. CASE t = Conn(u)
        BY <2>0, <3>1, <3>2, <3>3, <3>4, <4>1, ThreadsDiffer DEF AloneOf
      <4>2. CASE t = User(u)
        BY <2>0, <2>c, <3>1, <3>2, <3>3, <3>4, <4>2, ThreadsDiffer DEF AloneOf
      <4> QED
        BY <2>0, <4>1, <4>2
    <3> QED
      BY <3>1, <3>3, <3>5, <1>g
  <2>2. CASE StopClear(t, ProcOf[u])
    <3>1. Goto(t, "stop_clear", "stop_close") /\ UNCHANGED <<table, fd, pipe>>
      BY <2>2 DEF StopClear
    <3>2. \A p \in Procs : fdSocket'[p] = IF p = ProcOf[u] THEN NoFd ELSE fdSocket[p]
      BY <2>2 DEF StopClear, TypeOK
    <3>3. /\ pc[t] = "stop_clear" /\ pc'[t] = "stop_close"
          /\ \A s \in Thread : s # t => pc'[s] = pc[s]
      BY <2>0, <3>1, GotoEffect
    <3>4. t = User(u) /\ pc'[Conn(u)] = pc[Conn(u)]
      BY <2>0, <3>3, ThreadsDiffer DEF AloneOf
    <3>5. fd[User(u)] # NoFd /\ table[fd[User(u)]] = End(ProcOf[u], "write")
      BY <2>0, <2>c, <3>3, <3>4 DEF AloneOf, OwnInv, ProcOwns
    <3>6. AloneOf(u)'
      BY <2>0, <2>c, <3>1, <3>2, <3>3, <3>4, <3>5 DEF AloneOf
    <3> QED
      BY <3>1, <3>2, <3>6, <1>g
  <2>3. CASE StopClose(t)
    <3>1. Goto(t, "stop_close", "exit") /\ UNCHANGED <<fdSocket, fd, pipe>>
      BY <2>3 DEF StopClose
    <3>2. /\ pc[t] = "stop_close" /\ pc'[t] = "exit"
          /\ \A s \in Thread : s # t => pc'[s] = pc[s]
      BY <2>0, <3>1, GotoEffect
    <3>3. t = User(u) /\ pc'[Conn(u)] = pc[Conn(u)]
      BY <2>0, <3>2, ThreadsDiffer DEF AloneOf
    <3>4. ASSUME NEW v \in Users, v # u, pc[User(v)] = "stop_close"
          PROVE  table'[fd[User(v)]] = table[fd[User(v)]]
      <4>1. /\ fd[User(v)] \in Fds /\ table[fd[User(v)]] = End(ProcOf[v], "write")
            /\ table[fd[User(u)]] = End(ProcOf[u], "write")
        BY <1>a, <3>2, <3>3, <3>4 DEF AloneOf, TypeOK
      <4>2. fd[User(v)] # fd[t]
        BY <3>3, <3>4, <4>1, EndsDiffer DEF OneUserEach
      <4> QED
        BY <2>3, <4>1, <4>2 DEF StopClose, Close
    <3>5. AloneOf(u)'
      BY <2>0, <2>c, <3>1, <3>2, <3>3 DEF AloneOf
    <3> QED
      BY <3>1, <3>4, <3>5, <1>g
  <2> QED
    BY <1>5, <2>1, <2>2, <2>3 DEF Stop
<1>6. ASSUME NEW u \in Users, Leave(u) PROVE AloneInv'
  <2>1. User(u) \in ThreadsOf(u) /\ Goto(User(u), "session", "stop_read")
    BY <1>6 DEF Leave, ThreadsOf, OneUserEach
  <2>2. /\ pc[User(u)] = "session" /\ pc'[User(u)] = "stop_read"
        /\ pc'[Conn(u)] = pc[Conn(u)]
    BY <2>1, GotoEffect, ThreadsDiffer
  <2>3. UNCHANGED <<table, fdSocket, pipe, fd>>
    BY <1>6 DEF Leave
  <2>4. AloneOf(u)'
    BY <1>a, <2>2, <2>3 DEF AloneOf
  <2> QED
    BY <2>1, <2>3, <2>4, <1>g
<1>7. ASSUME NEW u \in Users, SendFd(u) PROVE AloneInv'
  <2>1. PICK p \in Procs : pipe' = [pipe EXCEPT ![p] = Append(@, u)]
    BY <1>7 DEF SendFd
  <2>2. Goto(Conn(u), "send_fd", "pthread_join") /\ UNCHANGED <<table, fdSocket, fd>>
    BY <1>7, <1>c DEF SendFd, IsCreator
  <2>3. /\ pc[Conn(u)] = "send_fd" /\ pc'[Conn(u)] = "pthread_join"
        /\ \A s \in Thread : s # Conn(u) => pc'[s] = pc[s]
    BY <2>2, GotoEffect
  <2>4. ASSUME NEW v \in Users PROVE AloneOf(v)'
    <3>1. CASE v = u
      BY <1>a, <2>2, <2>3, <3>1, ThreadsDiffer DEF AloneOf
    <3>2. CASE v # u
      BY <2>2, <2>3, <3>2, <1>v, ThreadsDiffer
    <3> QED
      BY <3>1, <3>2
  <2>5. \A q \in Procs : \A i \in 1..Len(pipe[q]) : pipe[q][i] # u
    BY <1>p, <2>3 DEF PipesAlone, InPipe
  <2>6. pc[User(u)] = "none"
    BY <1>a, <2>3 DEF AloneOf
  <2>7. \A v \in Users : /\ pc'[User(v)] = pc[User(v)]
                         /\ v # u => pc'[Conn(v)] = pc[Conn(v)]
    BY <2>3, ThreadsDiffer
  <2>8. ASSUME NEW q \in Procs, NEW i \in 1..Len(pipe'[q])
        PROVE  \/ i \in 1..Len(pipe[q]) /\ pipe'[q][i] = pipe[q][i]
               \/ q = p /\ i = Len(pipe[p]) + 1 /\ pipe'[q][i] = u
    <3>1. pipe[q] \in Seq(Users)
      BY DEF TypeOK
    <3>2. CASE q = p
      <4>1. pipe'[q] = Append(pipe[p], u)
        BY <2>1, <3>2 DEF TypeOK
      <4> QED
        BY <2>8, <3>1, <3>2, <4>1
    <3>3. CASE q # p
      BY <2>1, <2>8, <3>3 DEF TypeOK
    <3> QED
      BY <3>2, <3>3
  <2>9. PipesAlone'
    <3>1. ASSUME NEW q \in Procs, NEW i \in 1..Len(pipe'[q]) PROVE InPipe(q, i)'
      BY <2>3, <2>6, <2>7, <2>8, <1>p DEF PipesAlone, InPipe
    <3>2. ASSUME NEW q \in Procs, NEW r \in Procs,
                 NEW i \in 1..Len(pipe'[q]), NEW j \in 1..Len(pipe'[r]),
                 pipe'[q][i] = pipe'[r][j]
          PROVE  q = r /\ i = j
      <4>1. CASE i \in 1..Len(pipe[q]) /\ pipe'[q][i] = pipe[q][i]
        <5>1. j \in 1..Len(pipe[r]) /\ pipe'[r][j] = pipe[r][j]
          BY <2>5, <2>8, <3>2, <4>1
        <5>2. i \in 1..Len(pipe[q]) /\ j \in 1..Len(pipe[r]) /\ pipe[q][i] = pipe[r][j]
          BY <3>2, <4>1, <5>1
        <5> QED
          BY <5>2, <1>u
      <4>2. CASE q = p /\ i = Len(pipe[p]) + 1 /\ pipe'[q][i] = u
        BY <2>5, <2>8, <3>2, <4>2
      <4> QED
        BY <2>8, <4>1, <4>2
    <3> QED
      BY <3>1, <3>2 DEF PipesAlone
  <2> QED
    BY <2>4, <2>9, <1>s
<1>8. ASSUME NEW p \in Procs, RecvFd(p) PROVE AloneInv'
  <2>1. PICK q \in Procs :
          /\ pipe[q] # <<>>
          /\ pc' = [pc EXCEPT ![User(Head(pipe[q]))] = "session"]
          /\ pipe' = [pipe EXCEPT ![q] = Tail(@)]
    BY <1>8 DEF RecvFd
  <2> DEFINE h == Head(pipe[q])
  <2>2. h \in Users /\ h = pipe[q][1] /\ 1 \in 1..Len(pipe[q])
    BY <2>1 DEF TypeOK
  <2>3. pc[Conn(h)] \notin {"accept", "add_user", "send_fd"} /\ pc[User(h)] = "none"
    BY <2>2, <1>p DEF PipesAlone, InPipe
  <2>4. /\ pc'[User(h)] = "session"
        /\ \A s \in Thread : s # User(h) => pc'[s] = pc[s]
    BY <2>1, <2>2 DEF TypeOK
  <2>5. UNCHANGED <<table, fdSocket, fd>>
    BY <1>8 DEF RecvFd
  <2>6. ASSUME NEW v \in Users PROVE AloneOf(v)'
    <3>1. CASE v = h
      BY <1>a, <2>2, <2>3, <2>4, <2>5, <3>1, ThreadsDiffer DEF AloneOf
    <3>2. CASE v # h
      BY <2>2, <2>4, <2>5, <3>2, <1>v, ThreadsDiffer
    <3> QED
      BY <3>1, <3>2
  <2>7. ASSUME NEW r \in Procs, NEW i \in 1..Len(pipe'[r])
        PROVE  \E j \in 1..Len(pipe[r]) :
                 /\ pipe'[r][i] = pipe[r][j] /\ <<r, j>> # <<q, 1>>
                 /\ j = IF r = q THEN i + 1 ELSE i
    <3>1. CASE r = q
      <4>1. pipe'[q] = Tail(pipe[q]) /\ pipe[q] \in Seq(Users)
        BY <2>1 DEF TypeOK
      <4>2. i \in 1..Len(Tail(pipe[q])) /\ i + 1 # 1
        BY <2>7, <3>1, <4>1
      <4>3. i + 1 \in 1..Len(pipe[q]) /\ pipe'[q][i] = pipe[q][i + 1]
        BY <2>1, <4>1, <4>2, TailAt
      <4> QED
        BY <3>1, <4>2, <4>3
    <3>2. CASE r # q
      BY <2>1, <2>7, <3>2 DEF TypeOK
    <3> QED
      BY <3>1, <3>2
  <2>8. PipesAlone'
    <3>1. ASSUME NEW r \in Procs, NEW i \in 1..Len(pipe'[r]) PROVE InPipe(r, i)'
      <4>1. PICK j \in 1..Len(pipe[r]) : pipe'[r][i] = pipe[r][j] /\ <<r, j>> # <<q, 1>>
        BY <2>7, <3>1
      <4>2. pipe[r][j] # h /\ pipe[r][j] \in Users /\ InPipe(r, j)
        BY <2>2, <4>1, <1>p DEF PipesAlone
      <4> QED
        BY <2>4, <4>1, <4>2, ThreadsDiffer DEF InPipe
    <3>2. ASSUME NEW r \in Procs, NEW s \in Procs,
                 NEW i \in 1..Len(pipe'[r]), NEW j \in 1..Len(pipe'[s]),
                 pipe'[r][i] = pipe'[s][j]
          PROVE  r = s /\ i = j
      <4>1. PICK k \in 1..Len(pipe[r]) :
              pipe'[r][i] = pipe[r][k] /\ k = IF r = q THEN i + 1 ELSE i
        BY <2>7, <3>2
      <4>2. PICK l \in 1..Len(pipe[s]) :
              pipe'[s][j] = pipe[s][l] /\ l = IF s = q THEN j + 1 ELSE j
        BY <2>7, <3>2
      <4>3. r = s /\ k = l
        <5>1. pipe[r][k] = pipe[s][l]
          BY <3>2, <4>1, <4>2
        <5> QED
          BY <5>1, <1>u
      <4> QED
        BY <4>1, <4>2, <4>3
    <3> QED
      BY <3>1, <3>2 DEF PipesAlone
  <2> QED
    BY <2>6, <2>8, <1>s
<1>9. ASSUME NEW p \in Procs, RecvEnds(p) \/ CloseRead(p) PROVE AloneInv'
  <2>1. UNCHANGED <<pc, fd, fdSocket, pipe>>
    BY <1>9 DEF RecvEnds, CloseRead
  <2>2. ASSUME NEW v \in Users, pc[User(v)] = "stop_close"
        PROVE  table'[fd[User(v)]] = table[fd[User(v)]]
    <3>1. fd[User(v)] \in Fds /\ table[fd[User(v)]] = End(ProcOf[v], "write")
      BY <1>a, <2>2 DEF AloneOf, TypeOK
    <3>2. CASE RecvEnds(p)
      BY <3>2 DEF RecvEnds
    <3>3. CASE CloseRead(p)
      <4>1. readFd[p] # fd[User(v)]
        BY <3>1, <3>3, EndsDiffer DEF CloseRead, OwnInv, ProcOwns
      <4> QED
        BY <3>1, <3>3, <4>1 DEF CloseRead, Close
    <3> QED
      BY <1>9, <3>2, <3>3
  <2>3. \A v \in Users : AloneOf(v)'
    BY <2>1, <2>2, <1>v
  <2> QED
    BY <2>1, <2>3, <1>q, <1>s
<1> QED
  BY <1>0, <1>1, <1>2, <1>3, <1>4, <1>5, <1>6, <1>7, <1>8, <1>9, SendSucceeds
  DEF Next, ConnStep, ProcStep, Terminated, ThreadsOf

-----------------------------------------------------------------------------
LEMMA OwnUsersSafe ==
  ASSUME BaseInv, OwnInv, OwnUsers, [Next]_vars
  PROVE  OwnUsers'
<1>t. TypeOK
  BY DEF BaseInv
<1>1. CASE UNCHANGED <<pipe, received>>
  BY <1>1 DEF OwnUsers
<1>2. ASSUME NEW u \in Users, SendFd(u) PROVE OwnUsers'
  <2>1. PICK p \in Procs : /\ Writable(fd[Conn(u)], p)
                           /\ pipe' = [pipe EXCEPT ![p] = Append(@, u)]
    BY <1>2 DEF SendFd
  <2>2. /\ pc[Conn(u)] = "send_fd" /\ fd[Conn(u)] # NoFd
        /\ table[fd[Conn(u)]] = End(p, "write")
    BY <1>2, <2>1, FdsAreNat DEF SendFd, Goto, Writable, StandsFor
  <2>3. ProcOf[u] = p
    BY <2>2, EndsDiffer DEF OwnInv, CopyOwn, ThreadsOf
  <2>4. ASSUME NEW q \in Procs, NEW i \in 1..Len(pipe'[q]) PROVE ProcOf[pipe'[q][i]] = q
    <3>1. pipe[q] \in Seq(Users)
      BY <1>t DEF TypeOK
    <3>2. CASE q = p
      <4>1. pipe'[q] = Append(pipe[p], u)
        BY <1>t, <2>1, <3>2 DEF TypeOK
      <4>2. \/ i \in 1..Len(pipe[q]) /\ pipe'[q][i] = pipe[q][i]
            \/ pipe'[q][i] = u
        BY <2>4, <3>1, <3>2, <4>1
      <4> QED
        BY <2>3, <3>2, <4>2 DEF OwnUsers
    <3>3. CASE q # p
      <4>1. pipe'[q] = pipe[q]
        BY <1>t, <2>1, <3>3 DEF TypeOK
      <4> QED
        BY <2>4, <4>1 DEF OwnUsers
    <3> QED
      BY <3>2, <3>3
  <2> QED
    BY <1>2, <2>4 DEF SendFd, OwnUsers
<1>3. ASSUME NEW p \in Procs, RecvFd(p) PROVE OwnUsers'
  <2>1. PICK q \in Procs :
          /\ StandsFor(readFd[p], End(q, "read")) /\ pipe[q] # <<>>
          /\ received' = [received EXCEPT ![p] = @ \cup {Head(pipe[q])}]
          /\ pipe' = [pipe EXCEPT ![q] = Tail(@)]
    BY <1>3 DEF RecvFd
  <2>2. q = p
    BY <1>3, <2>1, EndsDiffer DEF RecvFd, StandsFor, OwnInv, ProcOwns
  <2>3. Head(pipe[p]) = pipe[p][1] /\ 1 \in 1..Len(pipe[p])
    BY <1>t, <2>1, <2>2 DEF TypeOK
  <2>4. ASSUME NEW r \in Procs PROVE \A v \in received'[r] : ProcOf[v] = r
    BY <1>t, <2>1, <2>2, <2>3 DEF OwnUsers, TypeOK
  <2>5. ASSUME NEW r \in Procs, NEW i \in 1..Len(pipe'[r]) PROVE ProcOf[pipe'[r][i]] = r
    <3>1. CASE r = p
      <4>1. pipe'[r] = Tail(pipe[r]) /\ pipe[r] \in Seq(Users) /\ pipe[r] # <<>>
        BY <1>t, <2>1, <2>2, <3>1 DEF TypeOK
      <4>2. i + 1 \in 1..Len(pipe[r]) /\ pipe'[r][i] = pipe[r][i + 1]
        BY <2>5, <4>1, TailAt
      <4> QED
        BY <4>2 DEF OwnUsers
    <3>2. CASE r # p
      <4>1. pipe'[r] = pipe[r]
        BY <1>t, <2>1, <2>2, <3>2 DEF TypeOK
      <4> QED
        BY <2>5, <4>1 DEF OwnUsers
    <3> QED
      BY <3>1, <3>2
  <2> QED
    BY <2>4, <2>5 DEF OwnUsers
<1>4. ASSUME NEW u \in Users, NEW t, NEW p, Stop(t, p) PROVE UNCHANGED <<pipe, received>>
  BY <1>4 DEF Stop, StopRead, StopClear, StopClose
<1> QED
  BY <1>1, <1>2, <1>3, <1>4
  DEF Next, ConnStep, ProcStep, Terminated, vars, CreateProc, RecvEnds, CloseRead, JoinProc,
      LoadFdSocket, SendFdFails, PthreadJoin, Leave

ApartInv ==
  /\ BaseInv
  /\ WaitedFor
  /\ OwnInv
  /\ OneUserEach => AloneInv
  /\ OwnUsers

LEMMA ApartInvariant ==
  ASSUME Apart
  PROVE  Spec => []ApartInv
<1>1. Init => ApartInv
  <2> SUFFICES ASSUME Init PROVE ApartInv
    OBVIOUS
  <2>1. \A u \in Users : pc[Conn(u)] = "accept" /\ pc[User(u)] = "none"
    BY ThreadOK DEF Init, Conn, User
  <2>2. \A u \in Users : \A t \in ThreadsOf(u) : pc[t] \in {"accept", "none"}
    BY <2>1 DEF ThreadsOf
  <2>3. OwnInv
    BY <2>2 DEF Init, OwnInv, ProcOwns, CopyOwn
  <2>4. AloneInv
    BY <2>1 DEF Init, AloneInv, AloneOf, InPipe
  <2>5. OwnUsers
    BY DEF Init, OwnUsers
  <2>6. WaitedFor
    BY WaitedForInit
  <2> QED
    BY <2>3, <2>4, <2>5, <2>6, BaseInit DEF ApartInv
<1>2. ApartInv /\ [Next]_vars => ApartInv'
  BY BaseSafe, WaitedForSafe, OwnSafe, AloneSafe, OwnUsersSafe DEF ApartInv
<1> QED
  BY <1>1, <1>2, PTL DEF Spec

(* Where there is one proc, or each proc has one user, the numbers stand for *)
(* what guacd_send_fd, guacd_recv_fd and guacd_proc_stop believe: no copy of *)
(* proc->fd_socket leads to a descriptor of somebody else, although it may   *)
(* be used after another thread closed it.                                   *)
THEOREM NumbersStandForTheirs ==
  ASSUME Apart
  PROVE  Spec => []OwnDescriptors
<1>1. ApartInv => OwnDescriptors
  BY DEF ApartInv, BaseInv, OneDescriptorEach, OwnInv, ProcOwns, CopyOwn, ThreadsOf, OwnDescriptors
<1> QED
  BY <1>1, ApartInvariant, PTL

(* There a proc thread receives the sockets of its own users only.           *)
THEOREM UsersMeetTheirProc ==
  ASSUME Apart
  PROVE  Spec => []ServedByOwnProc
<1>1. ApartInv => ServedByOwnProc
  BY DEF ApartInv, OwnUsers, ServedByOwnProc
<1> QED
  BY <1>1, ApartInvariant, PTL

-----------------------------------------------------------------------------
LEMMA StepsToChannel ==
  ASSUME ApartInv, [Next]_vars
  PROVE  [Channel!Next]_Channel!vars
<1>t. TypeOK /\ \A p \in Procs : ProcOwns(p)
  BY DEF ApartInv, BaseInv, OwnInv
<1> USE <1>t
<1>v. UNCHANGED <<table, procPc, pipe, received>> => UNCHANGED Channel!vars
  BY DEF Channel!vars, ChannelState, IsOpen
<1>s. ASSUME NEW p \in Procs
      PROVE  ChannelState[p] =
               IF procPc[p] = "none" THEN "none"
               ELSE IF procPc[p] # "recv_fd" THEN "ended"
               ELSE IF IsOpen(End(p, "write")) THEN "open" ELSE "closed"
  BY DEF ChannelState
<1>1. ASSUME NEW p \in Procs, CreateProc(p) PROVE Channel!Open(p)
  <2>1. PICK r \in Fds, w \in Fds :
          /\ r # w /\ table[r] = Free /\ table[w] = Free
          /\ table' = [table EXCEPT ![r] = End(p, "read"), ![w] = End(p, "write")]
    BY <1>1, CreateEffect DEF ApartInv
  <2>2. /\ procPc[p] = "none" /\ procPc' = [procPc EXCEPT ![p] = "recv_fd"]
        /\ UNCHANGED <<pipe, received>>
    BY <1>1, CreateEffect DEF ApartInv
  <2>3. \A f \in Fds : table'[f] = IF f = r THEN End(p, "read")
                                   ELSE IF f = w THEN End(p, "write") ELSE table[f]
    BY <2>1 DEF TypeOK
  <2>4. IsOpen(End(p, "write"))'
    BY <2>1, <2>3 DEF IsOpen
  <2>5. \A q \in Procs : q # p => (IsOpen(End(q, "write"))' <=> IsOpen(End(q, "write")))
    BY <2>1, <2>3, EndsDiffer DEF IsOpen
  <2>6. ChannelState' = [ChannelState EXCEPT ![p] = "open"]
    BY <2>2, <2>4, <2>5 DEF ChannelState, TypeOK
  <2> QED
    BY <1>s, <2>2, <2>6 DEF Channel!Open
<1>2. ASSUME NEW u \in Users, SendFd(u) PROVE \E p \in Procs : Channel!Send(p, u)
  <2>1. PICK p \in Procs : /\ Writable(fd[Conn(u)], p)
                           /\ pipe' = [pipe EXCEPT ![p] = Append(@, u)]
    BY <1>2 DEF SendFd
  <2>2. IsOpen(End(p, "write"))
    BY <2>1 DEF Writable, StandsFor, IsOpen
  <2>3. procPc[p] = "recv_fd"
    BY <2>2 DEF ApartInv, BaseInv, NotYetOf, ProcOwns, TypeOK
  <2>4. ChannelState[p] = "open"
    BY <1>s, <2>2, <2>3
  <2>5. ChannelState' = ChannelState /\ received' = received
    BY <1>2 DEF SendFd, ChannelState, IsOpen
  <2> QED
    BY <2>1, <2>4, <2>5 DEF Channel!Send
<1>3. ASSUME NEW p \in Procs, RecvFd(p) PROVE Channel!Receive(p)
  <2>1. PICK q \in Procs :
          /\ StandsFor(readFd[p], End(q, "read")) /\ pipe[q] # <<>>
          /\ received' = [received EXCEPT ![p] = @ \cup {Head(pipe[q])}]
          /\ pipe' = [pipe EXCEPT ![q] = Tail(@)]
    BY <1>3 DEF RecvFd
  <2>2. q = p
    BY <1>3, <2>1, EndsDiffer DEF RecvFd, StandsFor, ProcOwns
  <2>3. ChannelState' = ChannelState
    BY <1>3 DEF RecvFd, ChannelState, IsOpen
  <2> QED
    BY <2>1, <2>2, <2>3 DEF Channel!Receive
<1>4. ASSUME NEW p \in Procs, RecvEnds(p) PROVE Channel!End(p)
  <2>1. procPc[p] = "recv_fd" /\ readFd[p] \in Fds /\ table[readFd[p]] = End(p, "read")
    BY <1>4 DEF RecvEnds, ProcOwns, TypeOK
  <2>2. pipe[p] = <<>> /\ ~IsOpen(End(p, "write"))
    BY <1>4, <2>1, EndsDiffer DEF RecvEnds, ReadFails, AtEof, StandsFor
  <2>3. ChannelState[p] = "closed"
    BY <1>s, <2>1, <2>2
  <2>4. ChannelState' = [ChannelState EXCEPT ![p] = "ended"] /\ UNCHANGED <<pipe, received>>
    BY <1>4 DEF RecvEnds, ChannelState, IsOpen, TypeOK
  <2> QED
    BY <2>2, <2>3, <2>4 DEF Channel!End
<1>5. ASSUME NEW p \in Procs, CloseRead(p) PROVE UNCHANGED Channel!vars
  <2>1. procPc[p] = "cleanup_client" /\ readFd[p] \in Fds /\ table[readFd[p]] = End(p, "read")
    BY <1>5 DEF CloseRead, ProcOwns, TypeOK
  <2>2. procPc' = [procPc EXCEPT ![p] = "exit"] /\ UNCHANGED <<pipe, received>>
    BY <1>5 DEF CloseRead
  <2>3. \A q \in Procs : IsOpen(End(q, "write"))' <=> IsOpen(End(q, "write"))
    BY <1>5, <2>1, EndsDiffer DEF CloseRead, Close, IsOpen
  <2> QED
    BY <2>1, <2>2, <2>3 DEF Channel!vars, ChannelState, TypeOK
<1>6. ASSUME NEW u \in Users, NEW t \in ThreadsOf(u), Stop(t, ProcOf[u])
      PROVE  Channel!Close(ProcOf[u]) \/ UNCHANGED Channel!vars
  <2>0. t \in Thread /\ ProcOf[u] \in Procs /\ CopyOwn(u, t)
    BY ThreadsOfOne, CrtFdAssumption DEF ApartInv, OwnInv
  <2>1. CASE StopRead(t, ProcOf[u]) \/ StopClear(t, ProcOf[u])
    BY <2>1, <1>v DEF StopRead, StopClear
  <2>2. CASE StopClose(t)
    <3>1. UNCHANGED <<procPc, pipe, received>> /\ pc[t] = "stop_close"
      BY <2>2 DEF StopClose, Goto
    <3>2. \A f \in Fds : /\ table'[f] = IF f = fd[t] THEN Free ELSE table[f]
                         /\ f = fd[t] => table[f] \in {Free, End(ProcOf[u], "write")}
      BY <2>0, <2>2, <3>1, FdsAreNat DEF StopClose, Close, CopyOwn
    <3>3. ASSUME NEW q \in Procs, q # ProcOf[u]
          PROVE  IsOpen(End(q, "write"))' <=> IsOpen(End(q, "write"))
      BY <2>0, <3>2, <3>3, EndsDiffer DEF IsOpen
    <3>4. IsOpen(End(ProcOf[u], "write"))' => IsOpen(End(ProcOf[u], "write"))
      BY <3>2, EndsDiffer DEF IsOpen
    <3>5. CASE ChannelState'[ProcOf[u]] = ChannelState[ProcOf[u]]
      BY <3>1, <3>3, <3>5 DEF Channel!vars, ChannelState
    <3>6. CASE ChannelState'[ProcOf[u]] # ChannelState[ProcOf[u]]
      <4>1. ChannelState[ProcOf[u]] = "open" /\ ChannelState'[ProcOf[u]] = "closed"
        BY <2>0, <3>1, <3>4, <3>6 DEF ChannelState
      <4>2. ChannelState' = [ChannelState EXCEPT ![ProcOf[u]] = "closed"]
        BY <3>1, <3>3, <4>1 DEF ChannelState
      <4> QED
        BY <3>1, <4>1, <4>2 DEF Channel!Close
    <3> QED
      BY <3>5, <3>6
  <2> QED
    BY <1>6, <2>1, <2>2 DEF Stop
<1>7. ASSUME NEW u \in Users,
             \/ JoinProc(u) \/ LoadFdSocket(u) \/ SendFdFails(u) \/ PthreadJoin(u)
             \/ Leave(u) \/ UNCHANGED vars
      PROVE  UNCHANGED Channel!vars
  BY <1>7, <1>v DEF JoinProc, LoadFdSocket, SendFdFails, PthreadJoin, Leave, vars
<1>8. CASE UNCHANGED vars
  BY <1>8, <1>v DEF vars
<1> QED
  <2>1. ASSUME NEW p \in Procs, CreateProc(p) \/ ProcStep(p)
        PROVE  [Channel!Next]_Channel!vars
    BY <1>1, <1>3, <1>4, <1>5, <2>1 DEF ProcStep, Channel!Next
  <2>2. ASSUME NEW u \in Users, JoinProc(u) \/ ConnStep(u) \/ Leave(u) \/ Stop(User(u), ProcOf[u])
        PROVE  [Channel!Next]_Channel!vars
    <3>1. ASSUME NEW t \in ThreadsOf(u), Stop(t, ProcOf[u]) PROVE [Channel!Next]_Channel!vars
      <4>1. ProcOf[u] \in Procs
        BY CrtFdAssumption
      <4> QED
        BY <1>6, <3>1, <4>1 DEF Channel!Next
    <3>2. ASSUME SendFd(u) PROVE Channel!Next
      BY <1>2, <3>2 DEF Channel!Next
    <3> QED
      BY <1>7, <2>2, <3>1, <3>2 DEF ConnStep, ThreadsOf
  <2> QED
    BY <1>8, <2>1, <2>2 DEF Next, Terminated

(* There guacd_send_fd, guacd_recv_fd and guacd_proc_stop keep the safety    *)
(* promise of FdChannel, over descriptor numbers that are reused.            *)
THEOREM KeepsPromiseOverNumbers ==
  ASSUME Apart
  PROVE  Spec => Channel!SafetySpec
<1>1. Init => Channel!Init
  BY DEF Init, Channel!Init, ChannelState
<1>2. ApartInv /\ [Next]_vars => [Channel!Next]_Channel!vars
  BY StepsToChannel
<1> QED
  BY <1>1, <1>2, ApartInvariant, PTL DEF Spec, Channel!SafetySpec
=============================================================================
