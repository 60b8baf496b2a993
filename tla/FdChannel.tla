------------------------------ MODULE FdChannel ------------------------------
(***************************************************************************)
(* What guacd_send_fd, guacd_recv_fd and guacd_proc_stop promise together, *)
(* in the words of the header comment of src-overrides/proc-win32.c: a     *)
(* channel c, from connection.c to the proc thread that created it.        *)
(*                                                                         *)
(* A socket whose guacd_send_fd succeeds enters the channel of the proc it *)
(* was sent to, and no other.  Sockets come out in order, each once.       *)
(* Stopping closes the channel to new sockets, and the proc thread ends    *)
(* when it has received every socket that went in.                         *)
(***************************************************************************)
EXTENDS Naturals, Sequences

CONSTANTS
  Channel,   \* one for every guacd_proc
  Socket     \* the user sockets; each is meant for one channel

VARIABLES
  state,     \* "none", "open", "closed" or "ended"
  queue,     \* sockets sent and not yet received
  received   \* sockets received so far

vars == <<state, queue, received>>

Init ==
  /\ state = [c \in Channel |-> "none"]
  /\ queue = [c \in Channel |-> <<>>]
  /\ received = [c \in Channel |-> {}]

Open(c) ==
  /\ state[c] = "none"
  /\ state' = [state EXCEPT ![c] = "open"]
  /\ UNCHANGED <<queue, received>>

Send(c, s) ==
  /\ state[c] = "open"
  /\ queue' = [queue EXCEPT ![c] = Append(@, s)]
  /\ UNCHANGED <<state, received>>

Receive(c) ==
  /\ queue[c] # <<>>
  /\ received' = [received EXCEPT ![c] = @ \cup {Head(queue[c])}]
  /\ queue' = [queue EXCEPT ![c] = Tail(@)]
  /\ UNCHANGED state

Close(c) ==
  /\ state[c] = "open"
  /\ state' = [state EXCEPT ![c] = "closed"]
  /\ UNCHANGED <<queue, received>>

End(c) ==
  /\ state[c] = "closed"
  /\ queue[c] = <<>>
  /\ state' = [state EXCEPT ![c] = "ended"]
  /\ UNCHANGED <<queue, received>>

Next ==
  \E c \in Channel :
    \/ Open(c) \/ Receive(c) \/ Close(c) \/ End(c)
    \/ \E s \in Socket : Send(c, s)

(* The receiving thread is scheduled; nobody need ever send or close.       *)
Fairness == \A c \in Channel : WF_vars(Receive(c)) /\ WF_vars(End(c))

SafetySpec == Init /\ [][Next]_vars

Spec == SafetySpec /\ Fairness
=============================================================================
