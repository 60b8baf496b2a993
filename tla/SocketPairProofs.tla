-------------------------- MODULE SocketPairProofs --------------------------
(***************************************************************************)
(* Proofs about SocketPair, for any number of connections and handles as   *)
(* long as a handle fits a positive int (SmallHandles).                    *)
(*                                                                         *)
(* The invariant says who holds which handle, as a SOCKET variable or as   *)
(* an int, at each point of the code: what is held is open and for the     *)
(* socket its holder believes in, what is open is held by somebody, and a  *)
(* socket and its duplicate are held under two handles.  Every step then   *)
(* opens a free handle, closes one it holds, or moves what it holds.       *)
(***************************************************************************)
EXTENDS SocketPair, TLAPS

InLocal(c, n) ==
  \/ n = "listener" /\ pc[c] \in {"prepare", "socket_s0", "connect", "accept",
                                  "close_listener", "err_s0", "err_listener"}
  \/ n = "s0" /\ pc[c] \in {"connect", "accept", "close_listener", "err_s0"}
  \/ n = "s1" /\ pc[c] = "close_listener"
  \/ n = "dup" /\ (pc[c] = "write" \/ session[c] = "recv")

InInt(c, n) ==
  \/ n = "s0" /\ pc[c] \in {"duplicate", "write", "send_failed", "close_proc_fd", "io", "io_close", "browser_left"}
  \/ n = "s1" /\ pc[c] \in {"duplicate", "write", "send_failed", "close_proc_fd"}
  \/ n = "dup" /\ session[c] \in {"plugin", "fcntl", "session", "close_tcp", "close"}
  \/ n = "tcp" /\ session[c] \in {"fcntl", "session", "close_tcp"}

Holds(c, n, h) ==
  \/ InLocal(c, n) /\ local[c][n] = h
  \/ InInt(c, n) /\ asInt[c][n] = h

HeldIsOpen ==
  \A c \in Conn : \A n \in Names : \A h : Holds(c, n, h) => LeadsTo(h, Socket(c, n))

OpenIsHeld ==
  \A h \in Handles : sock[h] # Free => \E c \in Conn : \E n \in Names : Holds(c, n, h)

DuplicateDiffers ==
  \A c \in Conn : \A h : ~ (Holds(c, "s1", h) /\ Holds(c, "dup", h))

SessionAfterSend ==
  \A c \in Conn : session[c] # "none" <=> pc[c] \in {"close_proc_fd", "io", "io_close", "browser_left", "done"}

OnlyTcpNonBlocking ==
  \A s \in nonblocking : \E c \in Conn : s = Socket(c, "tcp")

AcceptFindsOne ==
  \A c \in Conn : pc[c] = "accept" => backlog[c] # <<>>

HandleInv ==
  /\ SocketTypeOK
  /\ HeldIsOpen
  /\ OpenIsHeld
  /\ DuplicateDiffers
  /\ SessionAfterSend
  /\ OnlyTcpNonBlocking
  /\ AcceptFindsOne

-----------------------------------------------------------------------------
(* A handle survives the way through an int and back, with either cast.      *)
LEMMA CastsKeepHandles ==
  ASSUME NEW h \in Handles
  PROVE  /\ h \in Int
         /\ ToInt(h) = h
         /\ ZeroExtend(h) = h
         /\ SignExtend(h) = h
<1>1. h \in 1..IntHalf - 1
  BY SmallHandles
<1>2. /\ h \in Int /\ 0 < h /\ h < IntHalf
      /\ IntHalf \in Int /\ IntSize \in Int /\ SocketSize \in Int
      /\ h < IntSize /\ h < SocketSize
  BY <1>1, SmallHandles
<1>3. h % IntSize = h /\ h % SocketSize = h
  BY <1>2, SMTT(30)
<1> QED
  BY <1>2, <1>3 DEF ToInt, ZeroExtend, SignExtend

LEMMA SocketsDiffer ==
  ASSUME NEW c \in Conn, NEW n \in Names
  PROVE  /\ Socket(c, n) # Free
         /\ Socket(c, n)[1] = c
         /\ Socket(c, n) \in Sockets
         /\ \A d \in Conn, m \in Names :
              Socket(d, m) = Socket(c, n) =>
                d = c /\ (m = n \/ (m = "s1" /\ n = "dup") \/ (m = "dup" /\ n = "s1"))
<1>1. Socket(c, n) \in Sockets
  BY DEF Sockets
<1>2. Socket(c, n) # Free /\ Socket(c, n)[1] = c
  BY DEF Socket, Free
<1>3. ASSUME NEW d \in Conn, NEW m \in Names, Socket(d, m) = Socket(c, n)
      PROVE  d = c /\ (m = n \/ (m = "s1" /\ n = "dup") \/ (m = "dup" /\ n = "s1"))
  BY <1>3 DEF Socket, Names
<1> QED
  BY <1>1, <1>2, <1>3

(* What a conn may hold, at the same point under one handle only.            *)
LEMMA HeldOnce ==
  ASSUME SessionAfterSend, NEW c \in Conn, NEW n \in Names, NEW h, NEW g,
         Holds(c, n, h), Holds(c, n, g)
  PROVE  h = g
  BY DEF Holds, InLocal, InInt, SessionAfterSend

-----------------------------------------------------------------------------
(* The three things a step does to the handles.                              *)
HandleFacts == HeldIsOpen /\ OpenIsHeld /\ DuplicateDiffers

LEMMA StepMoves ==
  ASSUME HandleFacts, sock' = sock,
         \A c \in Conn, n \in Names : \A h : Holds(c, n, h)' <=> Holds(c, n, h)
  PROVE  HandleFacts'
<1>1. HeldIsOpen'
  BY DEF HandleFacts, HeldIsOpen, LeadsTo, Socket
<1>2. OpenIsHeld'
  BY DEF HandleFacts, OpenIsHeld
<1>3. DuplicateDiffers'
  BY DEF HandleFacts, DuplicateDiffers, Names
<1> QED
  BY <1>1, <1>2, <1>3 DEF HandleFacts

LEMMA StepOpens ==
  ASSUME HandleFacts, sock \in [Handles -> Sockets \cup {Free}],
         NEW c \in Conn, NEW n \in Names, NEW h \in Handles,
         sock[h] = Free, sock' = [sock EXCEPT ![h] = Socket(c, n)],
         \A d \in Conn, m \in Names : \A g :
           Holds(d, m, g)' <=> Holds(d, m, g) \/ (d = c /\ m = n /\ g = h)
  PROVE  HandleFacts'
<1>1. \A d \in Conn, m \in Names : Socket(d, m) # Free
  BY SocketsDiffer
<1>2. \A d \in Conn, m \in Names : \A g : Holds(d, m, g) => g # h
  BY <1>1 DEF HandleFacts, HeldIsOpen, LeadsTo
<1>3. HeldIsOpen'
  <2> SUFFICES ASSUME NEW d \in Conn, NEW m \in Names, NEW g, Holds(d, m, g)'
               PROVE  g \in Handles /\ sock'[g] = Socket(d, m)
    BY DEF HeldIsOpen, LeadsTo, Socket
  <2>1. CASE Holds(d, m, g)
    BY <2>1, <1>2 DEF HandleFacts, HeldIsOpen, LeadsTo
  <2>2. CASE d = c /\ m = n /\ g = h
    BY <2>2
  <2> QED
    BY <2>1, <2>2
<1>4. OpenIsHeld'
  BY DEF HandleFacts, OpenIsHeld
<1>5. DuplicateDiffers'
  BY <1>2 DEF HandleFacts, DuplicateDiffers, Names
<1> QED
  BY <1>3, <1>4, <1>5 DEF HandleFacts

LEMMA StepCloses ==
  ASSUME HandleFacts, sock \in [Handles -> Sockets \cup {Free}],
         SessionAfterSend,
         NEW c \in Conn, NEW n \in Names, NEW h,
         Holds(c, n, h), closesocket(h),
         \A d \in Conn, m \in Names : \A g :
           Holds(d, m, g)' <=> Holds(d, m, g) /\ ~ (d = c /\ m = n)
  PROVE  HandleFacts'
<1>1. h \in Handles /\ sock[h] = Socket(c, n)
  BY DEF HandleFacts, HeldIsOpen, LeadsTo
<1>2. ASSUME NEW d \in Conn, NEW m \in Names, Holds(d, m, h)
      PROVE  d = c /\ m = n
  <2>1. Socket(d, m) = Socket(c, n)
    BY <1>1, <1>2 DEF HandleFacts, HeldIsOpen, LeadsTo
  <2>2. d = c /\ (m = n \/ (m = "s1" /\ n = "dup") \/ (m = "dup" /\ n = "s1"))
    BY <2>1, SocketsDiffer
  <2> QED
    BY <2>2, <1>2 DEF HandleFacts, DuplicateDiffers
<1>3. sock' = [g \in Handles |-> IF g = h THEN Free ELSE sock[g]]
  BY DEF closesocket
<1>4. HeldIsOpen'
  <2> SUFFICES ASSUME NEW d \in Conn, NEW m \in Names, NEW g, Holds(d, m, g)'
               PROVE  g \in Handles /\ sock'[g] = Socket(d, m)
    BY DEF HeldIsOpen, LeadsTo, Socket
  <2>1. Holds(d, m, g) /\ g # h
    BY <1>2
  <2> QED
    BY <2>1, <1>3 DEF HandleFacts, HeldIsOpen, LeadsTo
<1>5. OpenIsHeld'
  <2> SUFFICES ASSUME NEW g \in Handles, sock'[g] # Free
               PROVE  \E d \in Conn : \E m \in Names : Holds(d, m, g)'
    BY DEF OpenIsHeld
  <2>1. g # h /\ sock[g] # Free
    BY <1>3
  <2>2. \E d \in Conn : \E m \in Names : Holds(d, m, g)
    BY <2>1 DEF HandleFacts, OpenIsHeld
  <2>3. PICK d \in Conn, m \in Names : Holds(d, m, g)
    BY <2>2
  <2>4. ~ (d = c /\ m = n)
    BY <2>1, <2>3, HeldOnce
  <2> QED
    BY <2>3, <2>4
<1>6. DuplicateDiffers'
  BY DEF HandleFacts, DuplicateDiffers, Names
<1> QED
  BY <1>4, <1>5, <1>6 DEF HandleFacts

-----------------------------------------------------------------------------
LEMMA InitHolds == SocketInit => HandleInv
<1> SUFFICES ASSUME SocketInit PROVE HandleInv
  OBVIOUS
<1>1. SocketTypeOK
  BY DEF SocketInit, SocketTypeOK, NoSocket, INVALID_SOCKET, Names, Before
<1>2. \A c \in Conn, n \in Names : \A h : ~ Holds(c, n, h)
  BY DEF SocketInit, Holds, InLocal, InInt
<1>3. HeldIsOpen /\ OpenIsHeld /\ DuplicateDiffers
  BY <1>2 DEF HeldIsOpen, OpenIsHeld, DuplicateDiffers, Names, SocketInit
<1>4. SessionAfterSend /\ OnlyTcpNonBlocking /\ AcceptFindsOne
  BY DEF SocketInit, SessionAfterSend, OnlyTcpNonBlocking, AcceptFindsOne
<1> QED
  BY <1>1, <1>3, <1>4 DEF HandleInv

LEMMA OpenTypes ==
  ASSUME SocketTypeOK, NEW c \in Conn, NEW n \in Names, Open(c, n)
  PROVE  /\ sock' \in [Handles -> Sockets \cup {Free}]
         /\ local' \in [Conn -> [Names -> Handles \cup {INVALID_SOCKET}]]
         /\ nonblocking' \subseteq Sockets
<1>1. PICK h \in Handles :
        /\ sock' = [sock EXCEPT ![h] = Socket(c, n)]
        /\ local' = [local EXCEPT ![c][n] = h]
        /\ nonblocking' = nonblocking \ {Socket(c, n)}
  BY DEF Open
<1>2. Socket(c, n) \in Sockets
  BY SocketsDiffer
<1> QED
  BY <1>1, <1>2 DEF SocketTypeOK

(* The type of each variable after a step.                                   *)
LEMMA TypePreserved ==
  ASSUME HandleInv, [SocketNext]_socketVars
  PROVE  SocketTypeOK'
<1> USE DEF Goto, UserGoto, sameButSock, Before, After, closesocket,
            Forget, ForgetInts, NoSocket, INVALID_SOCKET, F_SETFL
<1>0. CASE UNCHANGED socketVars
  BY <1>0 DEF socketVars, HandleInv, SocketTypeOK
<1> SUFFICES ASSUME NEW c \in Conn,
                    ConnStep(c) \/ UserStep(c) \/ EndSession(c) \/ Stranger(c) \/ BrowserLeaves(c)
             PROVE  SocketTypeOK'
  BY <1>0 DEF SocketNext
<1>i. \A h \in Handles : ToInt(h) = h /\ h \in Int
  BY CastsKeepHandles
<1>s. \A n \in Names : Socket(c, n) \in Sockets
  BY SocketsDiffer
<1>t. SocketTypeOK
  BY DEF HandleInv
<1>r. pc[c] \in Before \cup {"duplicate", "write", "send_failed"} => session[c] = "none"
  BY DEF HandleInv, SessionAfterSend
<1>w. pc[c] = "write" => local[c]["dup"] \in Handles
  BY DEF HandleInv, HeldIsOpen, LeadsTo, Holds, InLocal, Names
<1>h. pc[c] = "close_listener" => local[c]["s0"] \in Handles /\ local[c]["s1"] \in Handles
  BY DEF HandleInv, HeldIsOpen, LeadsTo, Holds, InLocal, Names
<1>q. \A b \in Seq({"s0", "stranger"}) :
        /\ Append(b, "s0") \in Seq({"s0", "stranger"})
        /\ b # <<>> => Head(b) \in {"s0", "stranger"} /\ Tail(b) \in Seq({"s0", "stranger"})
  OBVIOUS
<1>b. pc[c] = "accept" => backlog[c] # <<>>
  BY DEF HandleInv, AcceptFindsOne
<1>1. CASE SocketListener(c)
  <2>o. Open(c, "listener") \/ UNCHANGED <<sock, local, nonblocking>>
    BY <1>1 DEF SocketListener
  <2>p. /\ sock' \in [Handles -> Sockets \cup {Free}]
        /\ local' \in [Conn -> [Names -> Handles \cup {INVALID_SOCKET}]]
        /\ nonblocking' \subseteq Sockets
    BY <2>o, <1>t, OpenTypes DEF SocketTypeOK, Names
  <2>1. /\ sock' \in [Handles -> Sockets \cup {Free}]
        /\ pc' \in [Conn -> Before \cup After]
        /\ session' \in [Conn -> {"none", "recv", "plugin", "fcntl", "session", "close_tcp",
                                 "close", "end"}]
    BY <1>1, <1>t, <2>p DEF SocketListener, SocketTypeOK
  <2>3. asInt' \in [Conn -> [Names -> Int]]
    BY <1>1, <1>t, <1>i, <1>h DEF SocketListener, SocketTypeOK, Names
  <2>4. /\ backlog' \in [Conn -> Seq({"s0", "stranger"})]
        /\ peer' \in [Conn -> {"none", "s0", "stranger"}]
        /\ nonblocking' \subseteq Sockets
    BY <1>1, <1>t, <2>p, <1>q, <1>b DEF SocketListener, SocketTypeOK
  <2>5. \A d \in Conn : session'[d] = "recv" => local'[d]["dup"] \in Handles
    <3>1. session' = session /\ session[c] = "none"
      BY <1>1, <1>r DEF SocketListener
    <3>2. \A d \in Conn : d # c => local'[d] = local[d]
      BY <1>1, <1>t DEF SocketListener, Open, SocketTypeOK
    <3> QED
      BY <3>1, <3>2, <1>t DEF SocketTypeOK
  <2> QED
    BY <2>1, <2>p, <2>3, <2>4, <2>5 DEF SocketTypeOK
<1>2. CASE Prepare(c)
  BY <1>2, <1>t DEF Prepare, SocketTypeOK
<1>3. CASE SocketS0(c)
  <2>o. Open(c, "s0") \/ UNCHANGED <<sock, local, nonblocking>>
    BY <1>3 DEF SocketS0
  <2>p. /\ sock' \in [Handles -> Sockets \cup {Free}]
        /\ local' \in [Conn -> [Names -> Handles \cup {INVALID_SOCKET}]]
        /\ nonblocking' \subseteq Sockets
    BY <2>o, <1>t, OpenTypes DEF SocketTypeOK, Names
  <2>1. /\ sock' \in [Handles -> Sockets \cup {Free}]
        /\ pc' \in [Conn -> Before \cup After]
        /\ session' \in [Conn -> {"none", "recv", "plugin", "fcntl", "session", "close_tcp",
                                 "close", "end"}]
    BY <1>3, <1>t, <2>p DEF SocketS0, SocketTypeOK
  <2>3. asInt' \in [Conn -> [Names -> Int]]
    BY <1>3, <1>t, <1>i, <1>h DEF SocketS0, SocketTypeOK, Names
  <2>4. /\ backlog' \in [Conn -> Seq({"s0", "stranger"})]
        /\ peer' \in [Conn -> {"none", "s0", "stranger"}]
        /\ nonblocking' \subseteq Sockets
    BY <1>3, <1>t, <2>p, <1>q, <1>b DEF SocketS0, SocketTypeOK
  <2>5. \A d \in Conn : session'[d] = "recv" => local'[d]["dup"] \in Handles
    <3>1. session' = session /\ session[c] = "none"
      BY <1>3, <1>r DEF SocketS0
    <3>2. \A d \in Conn : d # c => local'[d] = local[d]
      BY <1>3, <1>t DEF SocketS0, Open, SocketTypeOK
    <3> QED
      BY <3>1, <3>2, <1>t DEF SocketTypeOK
  <2> QED
    BY <2>1, <2>p, <2>3, <2>4, <2>5 DEF SocketTypeOK
<1>4. CASE Connect(c)
  <2>1. /\ sock' \in [Handles -> Sockets \cup {Free}]
        /\ pc' \in [Conn -> Before \cup After]
        /\ session' \in [Conn -> {"none", "recv", "plugin", "fcntl", "session", "close_tcp",
                                 "close", "end"}]
    BY <1>4, <1>t, <1>s DEF Connect, SocketTypeOK, Names
  <2>2. local' \in [Conn -> [Names -> Handles \cup {INVALID_SOCKET}]]
    BY <1>4, <1>t DEF Connect, SocketTypeOK, Names
  <2>3. asInt' \in [Conn -> [Names -> Int]]
    BY <1>4, <1>t, <1>i, <1>h DEF Connect, SocketTypeOK, Names
  <2>c. UNCHANGED backlog \/ backlog' = [backlog EXCEPT ![c] = Append(backlog[c], "s0")]
    BY <1>4 DEF Connect
  <2>a. backlog \in [Conn -> Seq({"s0", "stranger"})]
    BY <1>t DEF SocketTypeOK
  <2>b. Append(backlog[c], "s0") \in Seq({"s0", "stranger"})
    BY <2>a, <1>q
  <2>d. backlog' \in [Conn -> Seq({"s0", "stranger"})]
    BY <2>a, <2>b, <2>c, Zenon
  <2>4. /\ backlog' \in [Conn -> Seq({"s0", "stranger"})]
        /\ peer' \in [Conn -> {"none", "s0", "stranger"}]
        /\ nonblocking' \subseteq Sockets
    BY <1>4, <1>t, <2>d DEF Connect, SocketTypeOK
  <2>5. \A d \in Conn : session'[d] = "recv" => local'[d]["dup"] \in Handles
    BY <1>4, <1>t, <1>r, <1>w DEF Connect, SocketTypeOK, Names
  <2> QED
    BY <2>1, <2>2, <2>3, <2>4, <2>5 DEF SocketTypeOK
<1>5. CASE Accept(c)
  <2>o. Open(c, "s1") \/ UNCHANGED <<sock, local, nonblocking>>
    BY <1>5 DEF Accept
  <2>p. /\ sock' \in [Handles -> Sockets \cup {Free}]
        /\ local' \in [Conn -> [Names -> Handles \cup {INVALID_SOCKET}]]
        /\ nonblocking' \subseteq Sockets
    BY <2>o, <1>t, OpenTypes DEF SocketTypeOK, Names
  <2>1. /\ sock' \in [Handles -> Sockets \cup {Free}]
        /\ pc' \in [Conn -> Before \cup After]
        /\ session' \in [Conn -> {"none", "recv", "plugin", "fcntl", "session", "close_tcp",
                                 "close", "end"}]
    BY <1>5, <1>t, <2>p DEF Accept, SocketTypeOK
  <2>3. asInt' \in [Conn -> [Names -> Int]]
    BY <1>5, <1>t, <1>i, <1>h DEF Accept, SocketTypeOK, Names
  <2>c. \/ UNCHANGED <<backlog, peer>>
        \/ /\ pc[c] = "accept"
           /\ backlog' = [backlog EXCEPT ![c] = Tail(backlog[c])]
           /\ peer' = [peer EXCEPT ![c] = Head(backlog[c])]
    BY <1>5 DEF Accept
  <2>d. /\ backlog' \in [Conn -> Seq({"s0", "stranger"})]
        /\ peer' \in [Conn -> {"none", "s0", "stranger"}]
    <3>1. CASE UNCHANGED <<backlog, peer>>
      BY <3>1, <1>t DEF SocketTypeOK
    <3>2. CASE /\ pc[c] = "accept"
               /\ backlog' = [backlog EXCEPT ![c] = Tail(backlog[c])]
               /\ peer' = [peer EXCEPT ![c] = Head(backlog[c])]
      <4>1. /\ backlog \in [Conn -> Seq({"s0", "stranger"})]
            /\ peer \in [Conn -> {"none", "s0", "stranger"}]
        BY <1>t DEF SocketTypeOK
      <4>2. backlog[c] \in Seq({"s0", "stranger"}) /\ backlog[c] # <<>>
        BY <4>1, <3>2, <1>b
      <4>3. Head(backlog[c]) \in {"s0", "stranger"} /\ Tail(backlog[c]) \in Seq({"s0", "stranger"})
        BY <4>2, <1>q
      <4>4. backlog' \in [Conn -> Seq({"s0", "stranger"})]
        BY <4>1, <4>3, <3>2, Zenon
      <4>5. peer' \in [Conn -> {"none", "s0", "stranger"}]
        BY <4>1, <4>3, <3>2
      <4> QED
        BY <4>4, <4>5
    <3> QED
      BY <3>1, <3>2, <2>c
  <2>4. /\ backlog' \in [Conn -> Seq({"s0", "stranger"})]
        /\ peer' \in [Conn -> {"none", "s0", "stranger"}]
        /\ nonblocking' \subseteq Sockets
    BY <2>d, <2>p
  <2>5. \A d \in Conn : session'[d] = "recv" => local'[d]["dup"] \in Handles
    <3>1. session' = session /\ session[c] = "none"
      BY <1>5, <1>r DEF Accept
    <3>2. \A d \in Conn : d # c => local'[d] = local[d]
      BY <1>5, <1>t DEF Accept, Open, SocketTypeOK
    <3> QED
      BY <3>1, <3>2, <1>t DEF SocketTypeOK
  <2> QED
    BY <2>1, <2>p, <2>3, <2>4, <2>5 DEF SocketTypeOK
<1>6. CASE CloseListener(c)
  <2>1. /\ sock' \in [Handles -> Sockets \cup {Free}]
        /\ pc' \in [Conn -> Before \cup After]
        /\ session' \in [Conn -> {"none", "recv", "plugin", "fcntl", "session", "close_tcp",
                                 "close", "end"}]
    BY <1>6, <1>t, <1>s DEF CloseListener, SocketTypeOK, Names
  <2>2. local' \in [Conn -> [Names -> Handles \cup {INVALID_SOCKET}]]
    BY <1>6, <1>t DEF CloseListener, SocketTypeOK, Names
  <2>3. asInt' \in [Conn -> [Names -> Int]]
    BY <1>6, <1>t, <1>i, <1>h DEF CloseListener, SocketTypeOK, Names
  <2>4. /\ backlog' \in [Conn -> Seq({"s0", "stranger"})]
        /\ peer' \in [Conn -> {"none", "s0", "stranger"}]
        /\ nonblocking' \subseteq Sockets
    BY <1>6, <1>t, <1>q, <1>b DEF CloseListener, SocketTypeOK
  <2>5. \A d \in Conn : session'[d] = "recv" => local'[d]["dup"] \in Handles
    BY <1>6, <1>t, <1>r, <1>w DEF CloseListener, SocketTypeOK, Names
  <2> QED
    BY <2>1, <2>2, <2>3, <2>4, <2>5 DEF SocketTypeOK
<1>7. CASE ErrS0(c)
  BY <1>7, <1>t DEF ErrS0, SocketTypeOK
<1>8. CASE ErrListener(c)
  <2>1. /\ sock' \in [Handles -> Sockets \cup {Free}]
        /\ pc' \in [Conn -> Before \cup After]
        /\ session' \in [Conn -> {"none", "recv", "plugin", "fcntl", "session", "close_tcp",
                                 "close", "end"}]
    BY <1>8, <1>t, <1>s DEF ErrListener, SocketTypeOK, Names
  <2>2. local' \in [Conn -> [Names -> Handles \cup {INVALID_SOCKET}]]
    BY <1>8, <1>t DEF ErrListener, SocketTypeOK, Names
  <2>3. asInt' \in [Conn -> [Names -> Int]]
    BY <1>8, <1>t, <1>i, <1>h DEF ErrListener, SocketTypeOK, Names
  <2>4. /\ backlog' \in [Conn -> Seq({"s0", "stranger"})]
        /\ peer' \in [Conn -> {"none", "s0", "stranger"}]
        /\ nonblocking' \subseteq Sockets
    BY <1>8, <1>t, <1>q, <1>b DEF ErrListener, SocketTypeOK
  <2>5. \A d \in Conn : session'[d] = "recv" => local'[d]["dup"] \in Handles
    BY <1>8, <1>t, <1>r, <1>w DEF ErrListener, SocketTypeOK, Names
  <2> QED
    BY <2>1, <2>2, <2>3, <2>4, <2>5 DEF SocketTypeOK
<1>9. CASE Duplicate(c)
  <2>1. /\ sock' \in [Handles -> Sockets \cup {Free}]
        /\ pc' \in [Conn -> Before \cup After]
        /\ session' \in [Conn -> {"none", "recv", "plugin", "fcntl", "session", "close_tcp",
                                 "close", "end"}]
    BY <1>9, <1>t, <1>s DEF Duplicate, SocketTypeOK, Names
  <2>g. UNCHANGED local \/ \E g \in Handles : local' = [local EXCEPT ![c]["dup"] = g]
    BY <1>9 DEF Duplicate
  <2>2. local' \in [Conn -> [Names -> Handles \cup {INVALID_SOCKET}]]
    <3>1. CASE UNCHANGED local
      BY <3>1, <1>t DEF SocketTypeOK
    <3>2. CASE \E g \in Handles : local' = [local EXCEPT ![c]["dup"] = g]
      <4>1. PICK g \in Handles : local' = [local EXCEPT ![c]["dup"] = g]
        BY <3>2
      <4> QED
        BY <4>1, <1>t DEF SocketTypeOK
    <3> QED
      BY <3>1, <3>2, <2>g
  <2>3. asInt' \in [Conn -> [Names -> Int]]
    BY <1>9, <1>t, <1>i, <1>h DEF Duplicate, SocketTypeOK, Names
  <2>4. /\ backlog' \in [Conn -> Seq({"s0", "stranger"})]
        /\ peer' \in [Conn -> {"none", "s0", "stranger"}]
        /\ nonblocking' \subseteq Sockets
    BY <1>9, <1>t, <1>q, <1>b DEF Duplicate, SocketTypeOK
  <2>5. \A d \in Conn : session'[d] = "recv" => local'[d]["dup"] \in Handles
    BY <1>9, <1>t, <1>r, <1>w DEF Duplicate, SocketTypeOK, Names
  <2> QED
    BY <2>1, <2>2, <2>3, <2>4, <2>5 DEF SocketTypeOK
<1>10. CASE WriteToPipe(c)
  <2>1. /\ sock' \in [Handles -> Sockets \cup {Free}]
        /\ pc' \in [Conn -> Before \cup After]
        /\ session' \in [Conn -> {"none", "recv", "plugin", "fcntl", "session", "close_tcp",
                                 "close", "end"}]
    BY <1>10, <1>t, <1>s DEF WriteToPipe, SocketTypeOK, Names
  <2>2. local' \in [Conn -> [Names -> Handles \cup {INVALID_SOCKET}]]
    BY <1>10, <1>t DEF WriteToPipe, SocketTypeOK, Names
  <2>3. asInt' \in [Conn -> [Names -> Int]]
    BY <1>10, <1>t, <1>i, <1>h DEF WriteToPipe, SocketTypeOK, Names
  <2>4. /\ backlog' \in [Conn -> Seq({"s0", "stranger"})]
        /\ peer' \in [Conn -> {"none", "s0", "stranger"}]
        /\ nonblocking' \subseteq Sockets
    BY <1>10, <1>t, <1>q, <1>b DEF WriteToPipe, SocketTypeOK
  <2>5. \A d \in Conn : session'[d] = "recv" => local'[d]["dup"] \in Handles
    BY <1>10, <1>t, <1>r, <1>w DEF WriteToPipe, SocketTypeOK, Names
  <2> QED
    BY <2>1, <2>2, <2>3, <2>4, <2>5 DEF SocketTypeOK
<1>11. CASE WriteFails(c)
  <2>1. /\ sock' \in [Handles -> Sockets \cup {Free}]
        /\ pc' \in [Conn -> Before \cup After]
        /\ session' \in [Conn -> {"none", "recv", "plugin", "fcntl", "session", "close_tcp",
                                 "close", "end"}]
    BY <1>11, <1>t, <1>s DEF WriteFails, SocketTypeOK, Names
  <2>2. local' \in [Conn -> [Names -> Handles \cup {INVALID_SOCKET}]]
    BY <1>11, <1>t DEF WriteFails, SocketTypeOK, Names
  <2>3. asInt' \in [Conn -> [Names -> Int]]
    BY <1>11, <1>t, <1>i, <1>h DEF WriteFails, SocketTypeOK, Names
  <2>4. /\ backlog' \in [Conn -> Seq({"s0", "stranger"})]
        /\ peer' \in [Conn -> {"none", "s0", "stranger"}]
        /\ nonblocking' \subseteq Sockets
    BY <1>11, <1>t, <1>q, <1>b DEF WriteFails, SocketTypeOK
  <2>5. \A d \in Conn : session'[d] = "recv" => local'[d]["dup"] \in Handles
    BY <1>11, <1>t, <1>r, <1>w DEF WriteFails, SocketTypeOK, Names
  <2> QED
    BY <2>1, <2>2, <2>3, <2>4, <2>5 DEF SocketTypeOK
<1>12. CASE CloseProcFd(c)
  BY <1>12, <1>t DEF CloseProcFd, SocketTypeOK
<1>13. CASE IoEnds(c)
  BY <1>13, <1>t DEF IoEnds, SocketTypeOK
<1>14. CASE IoClose(c)
  <2>1. pc' \in [Conn -> Before \cup After]
    BY <1>14, <1>t DEF IoClose, SocketTypeOK
  <2>2. sock' \in [Handles -> Sockets \cup {Free}]
    BY <1>14, <1>t DEF IoClose, SocketTypeOK
  <2>3. asInt' \in [Conn -> [Names -> Int]]
    BY <1>14, <1>t DEF IoClose, SocketTypeOK
  <2> QED
    BY <1>14, <2>1, <2>2, <2>3, <1>t DEF IoClose, SocketTypeOK
<1>15. CASE RecvFd(c)
  BY <1>15, <1>t, <1>i DEF RecvFd, SocketTypeOK
<1>16. CASE OpenTcp(c)
  <2>g. \/ UNCHANGED <<sock, asInt>>
        \/ \E h \in Handles : /\ sock' = [sock EXCEPT ![h] = Socket(c, "tcp")]
                             /\ asInt' = [asInt EXCEPT ![c]["tcp"] = ToInt(h)]
    BY <1>16 DEF OpenTcp
  <2>u. Socket(c, "tcp") \in Sockets
    BY <1>s DEF Names
  <2>k. /\ sock' \in [Handles -> Sockets \cup {Free}]
        /\ asInt' \in [Conn -> [Names -> Int]]
    <3>1. CASE UNCHANGED <<sock, asInt>>
      BY <3>1, <1>t DEF SocketTypeOK
    <3>2. CASE \E h \in Handles : /\ sock' = [sock EXCEPT ![h] = Socket(c, "tcp")]
                                  /\ asInt' = [asInt EXCEPT ![c]["tcp"] = ToInt(h)]
      <4>1. PICK h \in Handles : /\ sock' = [sock EXCEPT ![h] = Socket(c, "tcp")]
                                /\ asInt' = [asInt EXCEPT ![c]["tcp"] = ToInt(h)]
        BY <3>2
      <4>2. ToInt(h) \in Int
        BY <1>i
      <4> QED
        BY <4>1, <4>2, <2>u, <1>t DEF SocketTypeOK
    <3> QED
      BY <3>1, <3>2, <2>g
  <2>1. /\ sock' \in [Handles -> Sockets \cup {Free}]
        /\ pc' \in [Conn -> Before \cup After]
        /\ session' \in [Conn -> {"none", "recv", "plugin", "fcntl", "session", "close_tcp",
                                 "close", "end"}]
    BY <1>16, <1>t, <2>k DEF OpenTcp, SocketTypeOK
  <2>2. local' \in [Conn -> [Names -> Handles \cup {INVALID_SOCKET}]]
    BY <1>16, <1>t DEF OpenTcp, SocketTypeOK, Names
  <2>3. asInt' \in [Conn -> [Names -> Int]]
    BY <2>k
  <2>4. /\ backlog' \in [Conn -> Seq({"s0", "stranger"})]
        /\ peer' \in [Conn -> {"none", "s0", "stranger"}]
        /\ nonblocking' \subseteq Sockets
    BY <1>16, <1>t, <1>q, <1>b DEF OpenTcp, SocketTypeOK
  <2>5. \A d \in Conn : session'[d] = "recv" => local'[d]["dup"] \in Handles
    BY <1>16, <1>t, <1>r, <1>w DEF OpenTcp, SocketTypeOK, Names
  <2> QED
    BY <2>1, <2>2, <2>3, <2>4, <2>5 DEF SocketTypeOK
<1>17. CASE SetNonBlocking(c)
  BY <1>17, <1>t DEF SetNonBlocking, SocketTypeOK
<1>18. CASE CloseTcp(c)
  BY <1>18, <1>t DEF CloseTcp, SocketTypeOK
<1>19. CASE CloseUser(c)
  BY <1>19, <1>t DEF CloseUser, SocketTypeOK
<1>20. CASE EndSession(c)
  BY <1>20, <1>t DEF EndSession, SocketTypeOK
<1>21. CASE Stranger(c)
  BY <1>21, <1>t DEF Stranger, SocketTypeOK
<1>22. CASE BrowserLeaves(c)
  BY <1>22, <1>t DEF BrowserLeaves, SocketTypeOK
<1> QED
  BY <1>1, <1>2, <1>3, <1>4, <1>5, <1>6, <1>7, <1>8, <1>9, <1>10, <1>11, <1>12, <1>13,
     <1>14, <1>15, <1>16, <1>17, <1>18, <1>19, <1>20, <1>21, <1>22 DEF ConnStep, UserStep

-----------------------------------------------------------------------------
(* Each step does one of the three things to the handles.                    *)
LEMMA HandlesPreserved ==
  ASSUME HandleInv, [SocketNext]_socketVars
  PROVE  HandleFacts'
<1> USE DEF Goto, UserGoto, sameButSock
<1>0. CASE UNCHANGED socketVars
  <2>1. \A d \in Conn, m \in Names : \A g : Holds(d, m, g)' <=> Holds(d, m, g)
    BY <1>0 DEF socketVars, Holds, InLocal, InInt
  <2> QED
    BY <1>0, <2>1, StepMoves DEF socketVars, HandleInv, HandleFacts
<1> SUFFICES ASSUME NEW c \in Conn,
                    ConnStep(c) \/ UserStep(c) \/ EndSession(c) \/ Stranger(c) \/ BrowserLeaves(c)
             PROVE  HandleFacts'
  BY <1>0 DEF SocketNext
<1>t. /\ SocketTypeOK /\ SessionAfterSend /\ HandleFacts
      /\ sock \in [Handles -> Sockets \cup {Free}]
  BY DEF HandleInv, HandleFacts, SocketTypeOK
<1>f. /\ pc \in [Conn -> Before \cup After]
      /\ DOMAIN session = Conn /\ session = [d \in Conn |-> session[d]]
      /\ local \in [Conn -> [Names -> Handles \cup {INVALID_SOCKET}]]
      /\ asInt \in [Conn -> [Names -> Int]]
  BY <1>t DEF SocketTypeOK
<1>i. \A h \in Handles : ToInt(h) = h /\ ZeroExtend(h) = h /\ SignExtend(h) = h
  BY CastsKeepHandles
<1>a. \A n \in Names : \A h : Holds(c, n, h) => h \in Handles /\ sock[h] = Socket(c, n)
  BY <1>t DEF HandleFacts, HeldIsOpen, LeadsTo
<1>r. pc[c] \in Before \cup {"duplicate", "write", "send_failed"} <=> session[c] = "none"
  BY <1>t, <1>f DEF SessionAfterSend, Before, After
<1>2. CASE Prepare(c)
  <2>1. \A d \in Conn, m \in Names : \A g : Holds(d, m, g)' <=> Holds(d, m, g)
    BY <1>2, <1>f, <1>r DEF Prepare, Holds, InLocal, InInt, Before
  <2> QED
    BY <1>2, <2>1, <1>t, StepMoves DEF Prepare
<1>4. CASE Connect(c)
  <2>1. \A d \in Conn, m \in Names : \A g : Holds(d, m, g)' <=> Holds(d, m, g)
    BY <1>4, <1>f, <1>r DEF Connect, Holds, InLocal, InInt, Before
  <2> QED
    BY <1>4, <2>1, <1>t, StepMoves DEF Connect
<1>10. CASE WriteToPipe(c)
  <2>1. \A d \in Conn, m \in Names : \A g : Holds(d, m, g)' <=> Holds(d, m, g)
    BY <1>10, <1>f, <1>r DEF WriteToPipe, Holds, InLocal, InInt, Before
  <2> QED
    BY <1>10, <2>1, <1>t, StepMoves DEF WriteToPipe
<1>13. CASE IoEnds(c)
  <2>1. \A d \in Conn, m \in Names : \A g : Holds(d, m, g)' <=> Holds(d, m, g)
    BY <1>13, <1>f, <1>r DEF IoEnds, Holds, InLocal, InInt, Before
  <2> QED
    BY <1>13, <2>1, <1>t, StepMoves DEF IoEnds
<1>17. CASE SetNonBlocking(c)
  <2>1. \A d \in Conn, m \in Names : \A g : Holds(d, m, g)' <=> Holds(d, m, g)
    BY <1>17, <1>f, <1>r DEF SetNonBlocking, Holds, InLocal, InInt, Before
  <2> QED
    BY <1>17, <2>1, <1>t, StepMoves DEF SetNonBlocking
<1>20. CASE EndSession(c)
  <2>1. \A d \in Conn, m \in Names : \A g : Holds(d, m, g)' <=> Holds(d, m, g)
    BY <1>20, <1>f, <1>r DEF EndSession, Holds, InLocal, InInt, Before
  <2> QED
    BY <1>20, <2>1, <1>t, StepMoves DEF EndSession
<1>21. CASE Stranger(c)
  <2>1. \A d \in Conn, m \in Names : \A g : Holds(d, m, g)' <=> Holds(d, m, g)
    BY <1>21, <1>f, <1>r DEF Stranger, Holds, InLocal, InInt, Before
  <2> QED
    BY <1>21, <2>1, <1>t, StepMoves DEF Stranger
<1>22. CASE BrowserLeaves(c)
  <2>1. \A d \in Conn, m \in Names : \A g : Holds(d, m, g)' <=> Holds(d, m, g)
    BY <1>22, <1>f, <1>r DEF BrowserLeaves, Holds, InLocal, InInt, Before
  <2> QED
    BY <1>22, <2>1, <1>t, StepMoves DEF BrowserLeaves
<1>7. CASE ErrS0(c)
  <2>h. PICK h : h = local[c]["s0"]
    OBVIOUS
  <2>1. Holds(c, "s0", h)
    BY <1>7, <2>h DEF ErrS0, Holds, InLocal, InInt
  <2>2. h \in Handles
    BY <2>1, <1>a DEF Names
  <2>3. closesocket(h)
    BY <1>7, <2>h, <2>2, <1>i DEF ErrS0
  <2>4. \A d \in Conn, m \in Names : \A g :
          Holds(d, m, g)' <=> Holds(d, m, g) /\ ~ (d = c /\ m = "s0")
    BY <1>7, <1>f, <1>r DEF ErrS0, Holds, InLocal, InInt, Before, Forget, ForgetInts
  <2> QED
    BY <2>1, <2>3, <2>4, <1>t, StepCloses DEF Names
<1>8. CASE ErrListener(c)
  <2>h. PICK h : h = local[c]["listener"]
    OBVIOUS
  <2>1. Holds(c, "listener", h)
    BY <1>8, <2>h DEF ErrListener, Holds, InLocal, InInt
  <2>2. h \in Handles
    BY <2>1, <1>a DEF Names
  <2>3. closesocket(h)
    BY <1>8, <2>h, <2>2, <1>i DEF ErrListener
  <2>4. \A d \in Conn, m \in Names : \A g :
          Holds(d, m, g)' <=> Holds(d, m, g) /\ ~ (d = c /\ m = "listener")
    BY <1>8, <1>f, <1>r DEF ErrListener, Holds, InLocal, InInt, Before, Forget, ForgetInts
  <2> QED
    BY <2>1, <2>3, <2>4, <1>t, StepCloses DEF Names
<1>11. CASE WriteFails(c)
  <2>h. PICK h : h = local[c]["dup"]
    OBVIOUS
  <2>1. Holds(c, "dup", h)
    BY <1>11, <2>h DEF WriteFails, Holds, InLocal, InInt
  <2>2. h \in Handles
    BY <2>1, <1>a DEF Names
  <2>3. closesocket(h)
    BY <1>11, <2>h, <2>2, <1>i DEF WriteFails
  <2>4. \A d \in Conn, m \in Names : \A g :
          Holds(d, m, g)' <=> Holds(d, m, g) /\ ~ (d = c /\ m = "dup")
    BY <1>11, <1>f, <1>r DEF WriteFails, Holds, InLocal, InInt, Before, Forget, ForgetInts
  <2> QED
    BY <2>1, <2>3, <2>4, <1>t, StepCloses DEF Names
<1>12. CASE CloseProcFd(c)
  <2>h. PICK h : h = asInt[c]["s1"]
    OBVIOUS
  <2>1. Holds(c, "s1", h)
    BY <1>12, <2>h DEF CloseProcFd, Holds, InLocal, InInt
  <2>2. h \in Handles
    BY <2>1, <1>a DEF Names
  <2>3. closesocket(h)
    BY <1>12, <2>h, <2>2, <1>i DEF CloseProcFd
  <2>4. \A d \in Conn, m \in Names : \A g :
          Holds(d, m, g)' <=> Holds(d, m, g) /\ ~ (d = c /\ m = "s1")
    BY <1>12, <1>f, <1>r DEF CloseProcFd, Holds, InLocal, InInt, Before, Forget, ForgetInts
  <2> QED
    BY <2>1, <2>3, <2>4, <1>t, StepCloses DEF Names
<1>14. CASE IoClose(c)
  <2>h. PICK h : h = asInt[c]["s0"]
    OBVIOUS
  <2>1. Holds(c, "s0", h)
    BY <1>14, <2>h DEF IoClose, Holds, InLocal, InInt
  <2>2. h \in Handles
    BY <2>1, <1>a DEF Names
  <2>3. closesocket(h)
    BY <1>14, <2>h, <2>2, <1>i DEF IoClose
  <2>4. \A d \in Conn, m \in Names : \A g :
          Holds(d, m, g)' <=> Holds(d, m, g) /\ ~ (d = c /\ m = "s0")
    BY <1>14, <1>f, <1>r DEF IoClose, Holds, InLocal, InInt, Before, Forget, ForgetInts
  <2> QED
    BY <2>1, <2>3, <2>4, <1>t, StepCloses DEF Names
<1>18. CASE CloseTcp(c)
  <2>h. PICK h : h = asInt[c]["tcp"]
    OBVIOUS
  <2>1. Holds(c, "tcp", h)
    BY <1>18, <2>h DEF CloseTcp, Holds, InLocal, InInt
  <2>2. h \in Handles
    BY <2>1, <1>a DEF Names
  <2>3. closesocket(h)
    BY <1>18, <2>h, <2>2, <1>i DEF CloseTcp
  <2>4. \A d \in Conn, m \in Names : \A g :
          Holds(d, m, g)' <=> Holds(d, m, g) /\ ~ (d = c /\ m = "tcp")
    BY <1>18, <1>f, <1>r DEF CloseTcp, Holds, InLocal, InInt, Before, Forget, ForgetInts
  <2> QED
    BY <2>1, <2>3, <2>4, <1>t, StepCloses DEF Names
<1>19. CASE CloseUser(c)
  <2>h. PICK h : h = asInt[c]["dup"]
    OBVIOUS
  <2>1. Holds(c, "dup", h)
    BY <1>19, <2>h DEF CloseUser, Holds, InLocal, InInt
  <2>2. h \in Handles
    BY <2>1, <1>a DEF Names
  <2>3. closesocket(h)
    BY <1>19, <2>h, <2>2, <1>i DEF CloseUser
  <2>4. \A d \in Conn, m \in Names : \A g :
          Holds(d, m, g)' <=> Holds(d, m, g) /\ ~ (d = c /\ m = "dup")
    BY <1>19, <1>f, <1>r DEF CloseUser, Holds, InLocal, InInt, Before, Forget, ForgetInts
  <2> QED
    BY <2>1, <2>3, <2>4, <1>t, StepCloses DEF Names
<1>1. CASE SocketListener(c)
  <2>1. CASE Goto(c, "start", "prepare") /\ Open(c, "listener") /\ UNCHANGED <<session, asInt>>
    <3>1. PICK h \in Handles : /\ sock[h] = Free
                              /\ sock' = [sock EXCEPT ![h] = Socket(c, "listener")]
                              /\ local' = [local EXCEPT ![c]["listener"] = h]
      BY <2>1 DEF Open, IsFree
    <3>2. /\ pc[c] = "start" /\ pc' = [pc EXCEPT ![c] = "prepare"]
          /\ UNCHANGED <<session, asInt>>
      BY <2>1
    <3>3. \A d \in Conn, m \in Names : \A g :
            Holds(d, m, g)' <=> Holds(d, m, g) \/ (d = c /\ m = "listener" /\ g = h)
      BY <3>1, <3>2, <1>f, <1>r DEF Holds, InLocal, InInt, Before, Names
    <3> QED
      BY <3>1, <3>3, <1>t, StepOpens DEF Names
  <2>2. CASE Goto(c, "start", "failed") /\ UNCHANGED <<sock, session, local, asInt>>
    <3>1. \A d \in Conn, m \in Names : \A g : Holds(d, m, g)' <=> Holds(d, m, g)
      BY <2>2, <1>f, <1>r DEF Holds, InLocal, InInt, Before
    <3> QED
      BY <2>2, <3>1, <1>t, StepMoves
  <2> QED
    BY <1>1, <2>1, <2>2 DEF SocketListener
<1>3. CASE SocketS0(c)
  <2>1. CASE Goto(c, "socket_s0", "connect") /\ Open(c, "s0") /\ UNCHANGED <<session, asInt>>
    <3>1. PICK h \in Handles : /\ sock[h] = Free
                              /\ sock' = [sock EXCEPT ![h] = Socket(c, "s0")]
                              /\ local' = [local EXCEPT ![c]["s0"] = h]
      BY <2>1 DEF Open, IsFree
    <3>2. /\ pc[c] = "socket_s0" /\ pc' = [pc EXCEPT ![c] = "connect"]
          /\ UNCHANGED <<session, asInt>>
      BY <2>1
    <3>3. \A d \in Conn, m \in Names : \A g :
            Holds(d, m, g)' <=> Holds(d, m, g) \/ (d = c /\ m = "s0" /\ g = h)
      BY <3>1, <3>2, <1>f, <1>r DEF Holds, InLocal, InInt, Before, Names
    <3> QED
      BY <3>1, <3>3, <1>t, StepOpens DEF Names
  <2>2. CASE Goto(c, "socket_s0", "err_listener") /\ UNCHANGED <<sock, session, local, asInt>>
    <3>1. \A d \in Conn, m \in Names : \A g : Holds(d, m, g)' <=> Holds(d, m, g)
      BY <2>2, <1>f, <1>r DEF Holds, InLocal, InInt, Before
    <3> QED
      BY <2>2, <3>1, <1>t, StepMoves
  <2> QED
    BY <1>3, <2>1, <2>2 DEF SocketS0
<1>5. CASE Accept(c)
  <2>1. CASE Goto(c, "accept", "close_listener") /\ Open(c, "s1") /\ UNCHANGED <<session, asInt>>
    <3>1. PICK h \in Handles : /\ sock[h] = Free
                              /\ sock' = [sock EXCEPT ![h] = Socket(c, "s1")]
                              /\ local' = [local EXCEPT ![c]["s1"] = h]
      BY <2>1 DEF Open, IsFree
    <3>2. /\ pc[c] = "accept" /\ pc' = [pc EXCEPT ![c] = "close_listener"]
          /\ UNCHANGED <<session, asInt>>
      BY <2>1
    <3>3. \A d \in Conn, m \in Names : \A g :
            Holds(d, m, g)' <=> Holds(d, m, g) \/ (d = c /\ m = "s1" /\ g = h)
      BY <3>1, <3>2, <1>f, <1>r DEF Holds, InLocal, InInt, Before, Names
    <3> QED
      BY <3>1, <3>3, <1>t, StepOpens DEF Names
  <2>2. CASE Goto(c, "accept", "err_s0") /\ UNCHANGED <<sock, session, local, asInt>>
    <3>1. \A d \in Conn, m \in Names : \A g : Holds(d, m, g)' <=> Holds(d, m, g)
      BY <2>2, <1>f, <1>r DEF Holds, InLocal, InInt, Before
    <3> QED
      BY <2>2, <3>1, <1>t, StepMoves
  <2> QED
    BY <1>5, <2>1, <2>2 DEF Accept
<1>6. CASE CloseListener(c)
  <2>1. PICK h : h = local[c]["listener"]
    OBVIOUS
  <2>2. Holds(c, "listener", h) /\ Holds(c, "s0", local[c]["s0"]) /\ Holds(c, "s1", local[c]["s1"])
    BY <1>6, <2>1 DEF CloseListener, Holds, InLocal, InInt
  <2>3. ToInt(local[c]["s0"]) = local[c]["s0"] /\ ToInt(local[c]["s1"]) = local[c]["s1"]
    BY <2>2, <1>a, <1>i DEF Names
  <2>4. asInt' = [asInt EXCEPT ![c]["s0"] = local[c]["s0"], ![c]["s1"] = local[c]["s1"]]
    BY <1>6, <2>3 DEF CloseListener
  <2>5. \A d \in Conn, m \in Names : \A g :
          Holds(d, m, g)' <=> Holds(d, m, g) /\ ~ (d = c /\ m = "listener")
    BY <1>6, <2>4, <1>f, <1>r DEF CloseListener, Holds, InLocal, InInt, Before, Forget, Names
  <2> QED
    BY <1>6, <2>1, <2>2, <2>5, <1>t, StepCloses DEF CloseListener, Names
<1>9. CASE Duplicate(c)
  <2>1. CASE Goto(c, "duplicate", "send_failed") /\ UNCHANGED <<sock, session, local, asInt>>
    <3>1. \A d \in Conn, m \in Names : \A g : Holds(d, m, g)' <=> Holds(d, m, g)
      BY <2>1, <1>f, <1>r DEF Holds, InLocal, InInt, Before
    <3> QED
      BY <2>1, <3>1, <1>t, StepMoves
  <2>2. CASE Goto(c, "duplicate", "write")
    <3>1. PICK h : h = asInt[c]["s1"]
      OBVIOUS
    <3>2. pc[c] = "duplicate" /\ pc' = [pc EXCEPT ![c] = "write"] /\ UNCHANGED <<session, asInt>>
      BY <1>9, <2>2, <1>f DEF Duplicate
    <3>3. Holds(c, "s1", h)
      BY <3>1, <3>2 DEF Holds, InInt
    <3>4. h \in Handles /\ sock[h] = Socket(c, "s1") /\ ZeroExtend(asInt[c]["s1"]) = h
      BY <3>1, <3>3, <1>a, <1>i DEF Names
    <3>5. Socket(c, "s1") = Socket(c, "dup")
      BY DEF Socket
    <3>6. PICK k \in Handles : /\ sock[k] = Free
                              /\ sock' = [sock EXCEPT ![k] = Socket(c, "dup")]
                              /\ local' = [local EXCEPT ![c]["dup"] = k]
      BY <1>9, <2>2, <3>4, <3>5, <1>f DEF Duplicate, IsFree
    <3>7. \A d \in Conn, m \in Names : \A g :
            Holds(d, m, g)' <=> Holds(d, m, g) \/ (d = c /\ m = "dup" /\ g = k)
      BY <3>2, <3>6, <1>f, <1>r DEF Holds, InLocal, InInt, Before, Names
    <3> QED
      BY <3>6, <3>7, <1>t, StepOpens DEF Names
  <2> QED
    BY <1>9, <2>1, <2>2 DEF Duplicate
<1>15. CASE RecvFd(c)
  <2>1. Holds(c, "dup", local[c]["dup"])
    BY <1>15 DEF RecvFd, Holds, InLocal
  <2>2. asInt' = [asInt EXCEPT ![c]["dup"] = local[c]["dup"]]
    BY <1>15, <2>1, <1>a, <1>i DEF RecvFd, Names
  <2>3. \A d \in Conn, m \in Names : \A g : Holds(d, m, g)' <=> Holds(d, m, g)
    BY <1>15, <2>2, <1>f, <1>r DEF RecvFd, Holds, InLocal, InInt, Before, Forget, Names
  <2> QED
    BY <1>15, <2>3, <1>t, StepMoves DEF RecvFd
<1>16. CASE OpenTcp(c)
  <2>1. CASE UserGoto(c, "plugin", "close") /\ UNCHANGED <<sock, pc, local, asInt>>
    <3>1. \A d \in Conn, m \in Names : \A g : Holds(d, m, g)' <=> Holds(d, m, g)
      BY <2>1, <1>f, <1>r DEF Holds, InLocal, InInt, Before
    <3> QED
      BY <2>1, <3>1, <1>t, StepMoves
  <2>2. CASE UserGoto(c, "plugin", "fcntl")
    <3>1. /\ session[c] = "plugin" /\ session' = [session EXCEPT ![c] = "fcntl"]
          /\ UNCHANGED <<pc, local>>
      BY <1>16, <2>2, <1>f DEF OpenTcp
    <3>2. PICK h \in Handles : /\ sock[h] = Free
                              /\ sock' = [sock EXCEPT ![h] = Socket(c, "tcp")]
                              /\ asInt' = [asInt EXCEPT ![c]["tcp"] = ToInt(h)]
      BY <1>16, <2>2, <1>f DEF OpenTcp, IsFree
    <3>3. ToInt(h) = h
      BY <1>i
    <3>4. \A d \in Conn, m \in Names : \A g :
            Holds(d, m, g)' <=> Holds(d, m, g) \/ (d = c /\ m = "tcp" /\ g = h)
      BY <3>1, <3>2, <3>3, <1>f, <1>r DEF Holds, InLocal, InInt, Before, Names
    <3> QED
      BY <3>2, <3>4, <1>t, StepOpens DEF Names
  <2> QED
    BY <1>16, <2>1, <2>2 DEF OpenTcp
<1> QED
  BY <1>1, <1>2, <1>3, <1>4, <1>5, <1>6, <1>7, <1>8, <1>9, <1>10, <1>11, <1>12, <1>13,
     <1>14, <1>15, <1>16, <1>17, <1>18, <1>19, <1>20, <1>21, <1>22 DEF ConnStep, UserStep

-----------------------------------------------------------------------------
(* The session follows the hand-over.                                        *)
LEMMA SessionPreserved ==
  ASSUME HandleInv, [SocketNext]_socketVars
  PROVE  SessionAfterSend'
<1> USE DEF Goto, UserGoto, sameButSock
<1>0. CASE UNCHANGED socketVars
  BY <1>0 DEF socketVars, HandleInv, SessionAfterSend
<1> SUFFICES ASSUME NEW c \in Conn,
                    ConnStep(c) \/ UserStep(c) \/ EndSession(c) \/ Stranger(c) \/ BrowserLeaves(c)
             PROVE  SessionAfterSend'
  BY <1>0 DEF SocketNext
<1>t. /\ SessionAfterSend
      /\ pc \in [Conn -> Before \cup After]
      /\ session = [d \in Conn |-> session[d]]
  BY DEF HandleInv, SocketTypeOK
<1>1. CASE UNCHANGED session
  <2>0. \A d \in Conn : d # c => pc'[d] = pc[d]
    BY <1>1, <1>t DEF ConnStep, UserStep, SocketListener, Prepare, SocketS0, Connect,
         Accept, CloseListener, ErrS0, ErrListener, Duplicate, WriteToPipe, WriteFails,
         CloseProcFd, IoEnds, IoClose, RecvFd, OpenTcp, SetNonBlocking, CloseTcp, CloseUser,
         EndSession, Stranger, BrowserLeaves
  <2>1. CASE UNCHANGED pc
    BY <1>1, <2>1, <1>t DEF SessionAfterSend
  <2>2. CASE SocketListener(c) \/ Prepare(c) \/ SocketS0(c) \/ Connect(c) \/ Accept(c)
             \/ CloseListener(c) \/ ErrS0(c) \/ ErrListener(c) \/ Duplicate(c) \/ WriteFails(c)
    <3>1. /\ pc[c] \notin {"close_proc_fd", "io", "io_close", "browser_left", "done"}
          /\ pc'[c] \notin {"close_proc_fd", "io", "io_close", "browser_left", "done"}
      BY <2>2, <1>t DEF SocketListener, Prepare, SocketS0, Connect,
           Accept, CloseListener, ErrS0, ErrListener, Duplicate, WriteFails
    <3> QED
      BY <1>1, <2>0, <3>1, <1>t DEF SessionAfterSend
  <2>3. CASE CloseProcFd(c) \/ IoEnds(c) \/ BrowserLeaves(c) \/ IoClose(c)
    <3>1. /\ pc[c] \in {"close_proc_fd", "io", "io_close", "browser_left", "done"}
          /\ pc'[c] \in {"close_proc_fd", "io", "io_close", "browser_left", "done"}
      BY <2>3, <1>t DEF CloseProcFd, IoEnds, BrowserLeaves, IoClose
    <3> QED
      BY <1>1, <2>0, <3>1, <1>t DEF SessionAfterSend
  <2>4. ~ WriteToPipe(c)
    BY <1>1, <1>t DEF WriteToPipe, SessionAfterSend
  <2> QED
    BY <2>1, <2>2, <2>3, <2>4 DEF ConnStep, UserStep, RecvFd, OpenTcp, SetNonBlocking,
         CloseTcp, CloseUser, EndSession, Stranger, BrowserLeaves
<1>2. CASE WriteToPipe(c)
  BY <1>2, <1>t DEF WriteToPipe, SessionAfterSend
<1>3. CASE RecvFd(c) \/ OpenTcp(c) \/ SetNonBlocking(c) \/ EndSession(c) \/ CloseTcp(c) \/ CloseUser(c)
  <2>1. /\ UNCHANGED pc
        /\ session[c] # "none"
        /\ \E x \in {"plugin", "fcntl", "session", "close_tcp", "close", "end"} :
             session' = [session EXCEPT ![c] = x]
    BY <1>3 DEF RecvFd, OpenTcp, SetNonBlocking, EndSession, CloseTcp, CloseUser
  <2> QED
    BY <1>t, <2>1 DEF SessionAfterSend
<1>4. ConnStep(c) => WriteToPipe(c) \/ UNCHANGED session
  BY DEF ConnStep, SocketListener, Prepare, SocketS0, Connect,
         Accept, CloseListener, ErrS0, ErrListener, Duplicate, WriteFails,
         CloseProcFd, IoEnds, IoClose
<1> QED
  BY <1>1, <1>2, <1>3, <1>4 DEF UserStep, Stranger, BrowserLeaves

(* Only the session's own socket is ever made non-blocking.                  *)
LEMMA ModePreserved ==
  ASSUME HandleInv, [SocketNext]_socketVars
  PROVE  OnlyTcpNonBlocking'
<1> SUFFICES ASSUME NEW s \in nonblocking', s \notin nonblocking
             PROVE  \E c \in Conn : s = Socket(c, "tcp")
  BY DEF HandleInv, OnlyTcpNonBlocking, Socket
<1>1. ~ UNCHANGED socketVars
  BY DEF socketVars
<1>2. PICK c \in Conn : ConnStep(c) \/ UserStep(c) \/ EndSession(c) \/ Stranger(c) \/ BrowserLeaves(c)
  BY <1>1 DEF SocketNext
<1>3. SetNonBlocking(c)
  BY <1>2 DEF ConnStep, UserStep, SocketListener, Prepare, SocketS0, Connect, sameButSock,
         Accept, CloseListener, ErrS0, ErrListener, Duplicate, WriteToPipe, WriteFails,
         CloseProcFd, IoEnds, IoClose, RecvFd, OpenTcp, CloseTcp, CloseUser,
         EndSession, Stranger, BrowserLeaves, Open
<1>4. PICK h : h = asInt[c]["tcp"]
  OBVIOUS
<1>5. Holds(c, "tcp", h)
  BY <1>3, <1>4 DEF SetNonBlocking, UserGoto, Holds, InInt
<1>6. h \in Handles /\ sock[h] = Socket(c, "tcp")
  BY <1>5 DEF HandleInv, HeldIsOpen, LeadsTo, Names
<1>7. ZeroExtend(asInt[c]["tcp"]) = h
  BY <1>4, <1>6, CastsKeepHandles
<1> QED
  BY <1>3, <1>6, <1>7 DEF SetNonBlocking, F_SETFL

LEMMA AcceptPreserved ==
  ASSUME HandleInv, [SocketNext]_socketVars
  PROVE  AcceptFindsOne'
<1> SUFFICES ASSUME NEW d \in Conn, pc'[d] = "accept"
             PROVE  backlog'[d] # <<>>
  BY DEF AcceptFindsOne
<1> USE DEF Goto, UserGoto, sameButSock
<1>t. /\ AcceptFindsOne
      /\ pc \in [Conn -> Before \cup After]
      /\ backlog \in [Conn -> Seq({"s0", "stranger"})]
  BY DEF HandleInv, SocketTypeOK
<1>0. CASE UNCHANGED socketVars
  BY <1>0, <1>t DEF socketVars, AcceptFindsOne
<1> SUFFICES ASSUME NEW c \in Conn,
                    ConnStep(c) \/ UserStep(c) \/ EndSession(c) \/ Stranger(c) \/ BrowserLeaves(c)
             PROVE  backlog'[d] # <<>>
  BY <1>0 DEF SocketNext
<1>1. CASE Connect(c)
  <2>0. \A b \in Seq({"s0", "stranger"}) : Append(b, "s0") # <<>>
    OBVIOUS
  <2>1. Append(backlog[c], "s0") # <<>>
    BY <1>t, <2>0
  <2> QED
    BY <1>1, <1>t, <2>1 DEF Connect, AcceptFindsOne
<1>2. CASE Stranger(c)
  BY <1>2, <1>t DEF Stranger, AcceptFindsOne
<1>3. CASE c = d /\ ~ Connect(c) /\ ~ Stranger(c)
  <2>1. UNCHANGED <<pc, backlog>>
    BY <1>3, <1>t DEF ConnStep, UserStep, SocketListener, Prepare, SocketS0,
         Accept, CloseListener, ErrS0, ErrListener, Duplicate, WriteToPipe, WriteFails,
         CloseProcFd, IoEnds, IoClose, RecvFd, OpenTcp, SetNonBlocking, CloseTcp, CloseUser,
         EndSession, BrowserLeaves
  <2> QED
    BY <2>1, <1>t DEF AcceptFindsOne
<1>4. CASE c # d /\ ~ Connect(c) /\ ~ Stranger(c)
  <2>1. pc'[d] = pc[d] /\ backlog'[d] = backlog[d]
    BY <1>4, <1>t DEF ConnStep, UserStep, SocketListener, Prepare, SocketS0,
         Accept, CloseListener, ErrS0, ErrListener, Duplicate, WriteToPipe, WriteFails,
         CloseProcFd, IoEnds, IoClose, RecvFd, OpenTcp, SetNonBlocking, CloseTcp, CloseUser,
         EndSession, BrowserLeaves
  <2> QED
    BY <2>1, <1>t DEF AcceptFindsOne
<1> QED
  BY <1>1, <1>2, <1>3, <1>4

LEMMA HandlesInvariant == SocketSpec => []HandleInv
<1>1. HandleInv /\ [SocketNext]_socketVars => HandleInv'
  BY TypePreserved, HandlesPreserved, SessionPreserved, ModePreserved, AcceptPreserved
     DEF HandleInv, HandleFacts
<1> QED
  BY InitHolds, <1>1, PTL DEF SocketSpec

-----------------------------------------------------------------------------
(* Every variable keeps its type, and the pipe carries only open handles'    *)
(* numbers, never the INVALID_SOCKET of a duplication that failed            *)
(* (guacd_send_fd of move-fd-win32.c).                                       *)
THEOREM SocketTypes == SocketSpec => []SocketTypeOK
<1>1. HandleInv => SocketTypeOK
  BY DEF HandleInv
<1> QED
  BY HandlesInvariant, <1>1, PTL

(* socketpair() of windows-posix.h closes what it opened at each of its      *)
(* failures, and the threads of connection.c, between them, whatever the     *)
(* hand-over left open.                                                      *)
THEOREM NoHandleLeaks == SocketSpec => []NothingLeaks
<1>1. HandleInv => NothingLeaks
  <2> SUFFICES ASSUME HandleInv, NEW c \in Conn,
                      pc[c] = "failed" \/ (pc[c] = "done" /\ session[c] = "end"),
                      NEW h \in Handles, sock[h] # Free, sock[h][1] = c
               PROVE  FALSE
    BY DEF NothingLeaks, SocketsOf
  <2>1. \E d \in Conn : \E m \in Names : Holds(d, m, h)
    BY DEF HandleInv, OpenIsHeld
  <2>2. PICK d \in Conn, m \in Names : Holds(d, m, h)
    BY <2>1
  <2>3. sock[h] = Socket(d, m)
    BY <2>2 DEF HandleInv, HeldIsOpen, LeadsTo
  <2>4. Holds(c, m, h)
    BY <2>2, <2>3, SocketsDiffer
  <2>5. pc[c] = "failed" => session[c] = "none"
    BY DEF HandleInv, SessionAfterSend
  <2> QED
    BY <2>4, <2>5 DEF Holds, InLocal, InInt
<1> QED
  BY HandlesInvariant, <1>1, PTL

(* Until they are closed, the ints that connection.c and the session keep    *)
(* lead to the two ends of this connection's pair, however the handles of    *)
(* other connections are opened, duplicated, closed and reused meanwhile.    *)
THEOREM IntsLeadToThePair == SocketSpec => []PairBelongsTogether
<1>1. HandleInv => PairBelongsTogether
  <2> SUFFICES ASSUME HandleInv PROVE PairBelongsTogether
    OBVIOUS
  <2>1. ASSUME NEW c \in Conn, NEW n \in Names, InInt(c, n)
        PROVE  /\ LeadsTo(SignExtend(asInt[c][n]), Socket(c, n))
               /\ LeadsTo(ZeroExtend(asInt[c][n]), Socket(c, n))
    <3>1. PICK h : h = asInt[c][n]
      OBVIOUS
    <3>2. LeadsTo(h, Socket(c, n))
      BY <2>1, <3>1 DEF HandleInv, HeldIsOpen, Holds
    <3>3. SignExtend(h) = h /\ ZeroExtend(h) = h
      BY <3>2, CastsKeepHandles DEF LeadsTo
    <3> QED
      BY <3>1, <3>2, <3>3
  <2>2. ASSUME NEW c \in Conn, pc[c] \in After \ {"done"}
        PROVE  LeadsTo(SignExtend(asInt[c]["s0"]), Socket(c, "s0"))
    BY <2>1, <2>2 DEF After, InInt, Names
  <2>3. ASSUME NEW c \in Conn,
               pc[c] \in {"duplicate", "write", "send_failed", "close_proc_fd"}
        PROVE  LeadsTo(ZeroExtend(asInt[c]["s1"]), Socket(c, "s1"))
    BY <2>1, <2>3 DEF InInt, Names
  <2>4. ASSUME NEW c \in Conn,
               session[c] \in {"plugin", "fcntl", "session", "close_tcp", "close"}
        PROVE  LeadsTo(ZeroExtend(asInt[c]["dup"]), Socket(c, "s1"))
    <3>1. LeadsTo(ZeroExtend(asInt[c]["dup"]), Socket(c, "dup"))
      BY <2>1, <2>4 DEF InInt, Names
    <3> QED
      BY <3>1 DEF Socket
  <2> QED
    BY <2>2, <2>3, <2>4 DEF PairBelongsTogether
<1> QED
  BY HandlesInvariant, <1>1, PTL

(* A handle that stops being open was held by the connection whose thread    *)
(* takes the step: no stale int of connection.c, of the hand-over or of the  *)
(* session closes a socket of somebody else.                                 *)
THEOREM NobodyElseCloses == SocketSpec => ClosedByItsOwn
<1> DEFINE Own == \A h \in Handles :
             sock[h] # Free /\ sock'[h] # sock[h] =>
               \/ pc'[sock[h][1]] # pc[sock[h][1]]
               \/ session'[sock[h][1]] # session[sock[h][1]]
<1>1. HandleInv /\ [SocketNext]_socketVars => [Own]_socketVars
  <2> SUFFICES ASSUME HandleInv, SocketNext, NEW h \in Handles,
                      sock[h] # Free, sock'[h] # sock[h]
               PROVE  \/ pc'[sock[h][1]] # pc[sock[h][1]]
                      \/ session'[sock[h][1]] # session[sock[h][1]]
    BY DEF socketVars
  <2>1. PICK c \in Conn : ConnStep(c) \/ UserStep(c) \/ EndSession(c) \/ Stranger(c) \/ BrowserLeaves(c)
    BY DEF SocketNext
  <2>t. /\ pc \in [Conn -> Before \cup After]
        /\ session = [d \in Conn |-> session[d]]
        /\ sock \in [Handles -> Sockets \cup {Free}]
    BY DEF HandleInv, SocketTypeOK
  <2>a. \A n \in Names : \A g : Holds(c, n, g) => g \in Handles /\ sock[g][1] = c
    BY SocketsDiffer DEF HandleInv, HeldIsOpen, LeadsTo
  <2>i. \A g \in Handles : ZeroExtend(g) = g /\ SignExtend(g) = g
    BY CastsKeepHandles
  <2>2. CASE CloseListener(c) \/ ErrListener(c)
    <3>1. closesocket(local[c]["listener"]) /\ Holds(c, "listener", local[c]["listener"])
      BY <2>2 DEF CloseListener, ErrListener, Goto, Holds, InLocal
    <3>2. h = local[c]["listener"]
      BY <3>1, <2>t DEF closesocket
    <3>3. sock[h][1] = c
      BY <3>1, <3>2, <2>a DEF Names
    <3> QED
      BY <2>2, <3>3, <2>t DEF CloseListener, ErrListener, Goto
  <2>3. CASE ErrS0(c)
    <3>1. closesocket(local[c]["s0"]) /\ Holds(c, "s0", local[c]["s0"])
      BY <2>3 DEF ErrS0, Goto, Holds, InLocal
    <3>2. h = local[c]["s0"]
      BY <3>1, <2>t DEF closesocket
    <3>3. sock[h][1] = c
      BY <3>1, <3>2, <2>a DEF Names
    <3> QED
      BY <2>3, <3>3, <2>t DEF ErrS0, Goto
  <2>4. CASE WriteFails(c)
    <3>1. closesocket(local[c]["dup"]) /\ Holds(c, "dup", local[c]["dup"])
      BY <2>4 DEF WriteFails, Goto, Holds, InLocal
    <3>2. h = local[c]["dup"]
      BY <3>1, <2>t DEF closesocket
    <3>3. sock[h][1] = c
      BY <3>1, <3>2, <2>a DEF Names
    <3> QED
      BY <2>4, <3>3, <2>t DEF WriteFails, Goto
  <2>5. CASE CloseProcFd(c)
    <3>1. closesocket(SignExtend(asInt[c]["s1"])) /\ Holds(c, "s1", asInt[c]["s1"])
      BY <2>5 DEF CloseProcFd, Goto, Holds, InInt
    <3>2. SignExtend(asInt[c]["s1"]) = asInt[c]["s1"]
      BY <3>1, <2>a, <2>i DEF Names
    <3>3. sock[h][1] = c
      BY <3>1, <3>2, <2>a, <2>t DEF Names, closesocket
    <3> QED
      BY <2>5, <3>3, <2>t DEF CloseProcFd, Goto
  <2>6. CASE IoClose(c)
    <3>1. closesocket(SignExtend(asInt[c]["s0"])) /\ Holds(c, "s0", asInt[c]["s0"])
      BY <2>6 DEF IoClose, Goto, Holds, InInt
    <3>2. SignExtend(asInt[c]["s0"]) = asInt[c]["s0"]
      BY <3>1, <2>a, <2>i DEF Names
    <3>3. sock[h][1] = c
      BY <3>1, <3>2, <2>a, <2>t DEF Names, closesocket
    <3> QED
      BY <2>6, <3>3, <2>t DEF IoClose, Goto
  <2>7. CASE CloseTcp(c)
    <3>1. closesocket(ZeroExtend(asInt[c]["tcp"])) /\ Holds(c, "tcp", asInt[c]["tcp"])
      BY <2>7 DEF CloseTcp, UserGoto, Holds, InInt
    <3>2. ZeroExtend(asInt[c]["tcp"]) = asInt[c]["tcp"]
      BY <3>1, <2>a, <2>i DEF Names
    <3>3. sock[h][1] = c
      BY <3>1, <3>2, <2>a, <2>t DEF Names, closesocket
    <3> QED
      BY <2>7, <3>3, <2>t DEF CloseTcp, UserGoto
  <2>8. CASE CloseUser(c)
    <3>1. closesocket(ZeroExtend(asInt[c]["dup"])) /\ Holds(c, "dup", asInt[c]["dup"])
      BY <2>8 DEF CloseUser, UserGoto, Holds, InInt
    <3>2. ZeroExtend(asInt[c]["dup"]) = asInt[c]["dup"]
      BY <3>1, <2>a, <2>i DEF Names
    <3>3. sock[h][1] = c
      BY <3>1, <3>2, <2>a, <2>t DEF Names, closesocket
    <3> QED
      BY <2>8, <3>3, <2>t DEF CloseUser, UserGoto
  <2>9. ~ (SocketListener(c) \/ SocketS0(c) \/ Accept(c) \/ Duplicate(c) \/ OpenTcp(c))
    <3>1. ASSUME NEW g \in Handles, NEW s, sock[g] = Free, sock' = [sock EXCEPT ![g] = s]
          PROVE  FALSE
      BY <3>1, <2>t
    <3>2. ASSUME NEW n \in Names, Open(c, n) PROVE FALSE
      BY <3>1, <3>2 DEF Open, IsFree
    <3>3. ~ SocketListener(c) /\ ~ SocketS0(c) /\ ~ Accept(c)
      BY <3>2 DEF SocketListener, SocketS0, Accept, Names
    <3>4. ~ Duplicate(c) /\ ~ OpenTcp(c)
      BY <3>1 DEF Duplicate, OpenTcp, IsFree
    <3> QED
      BY <3>3, <3>4
  <2> QED
    BY <2>1, <2>2, <2>3, <2>4, <2>5, <2>6, <2>7, <2>8, <2>9
       DEF ConnStep, UserStep, Prepare, Connect, WriteToPipe, IoEnds, RecvFd, SetNonBlocking,
           EndSession, Stranger, BrowserLeaves
<1> QED
  BY HandlesInvariant, <1>1, PTL DEF SocketSpec, ClosedByItsOwn

(* The I/O thread of connection.c does not give a connection up while its    *)
(* session lasts, and the session keeps a blocking socket: fcntl() of tcp.c  *)
(* reaches the socket it was called for only.                                *)
THEOREM SessionKeepsItsPair == SocketSpec => []NotCutOff
<1>1. SocketInit => NotCutOff
  BY DEF SocketInit, NotCutOff
<1> DEFINE PairBlocks == \A c \in Conn : Socket(c, "s1") \notin nonblocking
<1>2. HandleInv => PairBlocks
  <2> SUFFICES ASSUME HandleInv, NEW c \in Conn, Socket(c, "s1") \in nonblocking
               PROVE  FALSE
    OBVIOUS
  <2>1. PICK d \in Conn : Socket(c, "s1") = Socket(d, "tcp")
    BY DEF HandleInv, OnlyTcpNonBlocking
  <2> QED
    BY <2>1, SocketsDiffer DEF Names
<1> DEFINE Ended(c) == session[c] = "end" \/ peer[c] = "stranger"
           Given(c) == pc[c] = "io_close" => Ended(c)
<1>3. HandleInv /\ HandleInv' /\ PairBlocks' /\ NotCutOff /\ [SocketNext]_socketVars
        => NotCutOff'
  <2> SUFFICES ASSUME HandleInv, HandleInv', PairBlocks', NotCutOff, [SocketNext]_socketVars,
                      NEW d \in Conn
               PROVE  Given(d)'
    BY DEF NotCutOff
  <2>g. Given(d)
    BY DEF NotCutOff
  <2>0. CASE UNCHANGED socketVars
    BY <2>0, <2>g DEF socketVars
  <2> SUFFICES ASSUME NEW c \in Conn,
                      ConnStep(c) \/ UserStep(c) \/ EndSession(c) \/ Stranger(c) \/ BrowserLeaves(c)
               PROVE  Given(d)'
    BY <2>0 DEF SocketNext
  <2>t. /\ pc \in [Conn -> Before \cup After]
        /\ session = [e \in Conn |-> session[e]]
        /\ peer \in [Conn -> {"none", "s0", "stranger"}]
    BY DEF HandleInv, SocketTypeOK
  <2> USE DEF Goto, UserGoto, sameButSock
  <2>1. CASE pc'[d] = pc[d] /\ (session'[d] = session[d] \/ session[d] # "end")
             /\ (peer'[d] = peer[d])
    BY <2>1, <2>g
  <2>2. CASE c = d /\ IoEnds(c)
    <3>1. ReadEnds(c) /\ pc[c] = "io" /\ UNCHANGED <<session, peer>>
      BY <2>2 DEF IoEnds
    <3>2. PICK h : h = asInt[c]["s0"]
      OBVIOUS
    <3>3. Holds(c, "s0", h)
      BY <3>1, <3>2 DEF Holds, InInt
    <3>4. h \in Handles /\ sock[h] = Socket(c, "s0") /\ SignExtend(asInt[c]["s0"]) = h
      BY <3>2, <3>3, CastsKeepHandles DEF HandleInv, HeldIsOpen, LeadsTo, Names
    <3>5. sock[h] # Free
      BY <3>4, SocketsDiffer DEF Names
    <3>6. sock[h] \notin nonblocking
      <4>1. ASSUME NEW e \in Conn PROVE Socket(c, "s0") # Socket(e, "tcp")
        BY SocketsDiffer DEF Names
      <4> QED
        BY <3>4, <4>1 DEF HandleInv, OnlyTcpNonBlocking
    <3>7. peer[c] = "stranger" \/ \A g \in Handles : sock[g] # Socket(c, "s1")
      BY <3>1, <3>4, <3>5, <3>6 DEF ReadEnds
    <3>8. ASSUME session[c] # "end" PROVE \E g \in Handles : sock[g] = Socket(c, "s1")
      <4>1. session[c] # "none"
        BY <3>1 DEF HandleInv, SessionAfterSend
      <4>2. Holds(c, "dup", local[c]["dup"]) \/ Holds(c, "dup", asInt[c]["dup"])
        BY <3>8, <4>1 DEF HandleInv, SocketTypeOK, Holds, InLocal, InInt
      <4>3. \E g \in Handles : sock[g] = Socket(c, "dup")
        BY <4>2 DEF HandleInv, HeldIsOpen, LeadsTo, Names
      <4> QED
        BY <4>3 DEF Socket
    <3> QED
      BY <2>2, <3>1, <3>7, <3>8
  <2>3. CASE c = d /\ IoClose(c)
    BY <2>3, <2>t DEF IoClose
  <2>4. CASE c = d /\ ConnStep(c) /\ ~ IoEnds(c) /\ ~ IoClose(c)
    <3>1. pc'[d] # "io_close"
      BY <2>4, <2>t DEF ConnStep, SocketListener, Prepare, SocketS0, Connect,
         Accept, CloseListener, ErrS0, ErrListener, Duplicate, WriteToPipe, WriteFails,
         CloseProcFd
    <3> QED
      BY <3>1
  <2>5. CASE c # d /\ ConnStep(c)
    <3>1. pc'[d] = pc[d] /\ session'[d] = session[d] /\ peer'[d] = peer[d]
      BY <2>5, <2>t DEF ConnStep, SocketListener, Prepare, SocketS0, Connect,
         Accept, CloseListener, ErrS0, ErrListener, Duplicate, WriteToPipe, WriteFails,
         CloseProcFd, IoEnds, IoClose
    <3> QED
      BY <2>1, <3>1
  <2>7. CASE BrowserLeaves(c)
    BY <2>7, <2>g, <2>t DEF BrowserLeaves
  <2>6. CASE UserStep(c) \/ EndSession(c) \/ Stranger(c)
    <3>1. /\ pc'[d] = pc[d] /\ peer'[d] = peer[d]
          /\ session'[d] = session[d] \/ session[d] # "end"
      BY <2>6, <2>t DEF UserStep, RecvFd, OpenTcp, SetNonBlocking, CloseTcp, CloseUser,
         EndSession, Stranger, BrowserLeaves
    <3> QED
      BY <2>1, <3>1
  <2> QED
    BY <2>2, <2>3, <2>4, <2>5, <2>6, <2>7
<1> QED
  <2> HIDE DEF PairBlocks
  <2> QED
    BY HandlesInvariant, <1>1, <1>2, <1>3, PTL DEF SocketSpec
=============================================================================
