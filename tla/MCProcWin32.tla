----------------------------- MODULE MCProcWin32 -----------------------------
(* Three connections, of which the first creates a proc and the others may   *)
(* join it.                                                                  *)
EXTENDS ProcWin32

CONSTANTS u1, u2, u3

AllUsers   == {u1, u2, u3}
OneCreator == {u1}
=============================================================================
