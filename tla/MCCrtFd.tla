------------------------------- MODULE MCCrtFd -------------------------------
(* Instances of CrtFd: how many procs share the descriptor table, and which  *)
(* users belong to them.                                                     *)
EXTENDS CrtFd

CONSTANTS p1, p2, p3, u1, u2, u3

(* Three users of one proc, whose threads may all stop it.                   *)
OneProc        == {p1}
OneProcCreator == [p \in {p1} |-> u1]
OneProcOf      == [u \in {u1, u2, u3} |-> p1]

(* Three procs with one user each.                                           *)
ThreeProcs        == {p1, p2, p3}
ThreeProcsCreator == [p \in {p1, p2, p3} |->
                       CASE p = p1 -> u1 [] p = p2 -> u2 [] p = p3 -> u3]
OneUserEachOf     == [u \in {u1, u2, u3} |->
                       CASE u = u1 -> p1 [] u = u2 -> p2 [] u = u3 -> p3]

(* Two procs, the first with a second user, u3.                              *)
TwoProcs        == {p1, p2}
TwoProcsCreator == [p \in {p1, p2} |-> IF p = p1 THEN u1 ELSE u2]
TwoProcsOf      == [u \in {u1, u2, u3} |-> IF u = u2 THEN p2 ELSE p1]
=============================================================================
