------------------------------ MODULE MCCompat ------------------------------
(***************************************************************************)
(* The parts of compat/ that share nothing with each other, checked one    *)
(* after the other: part says which, the others stay as they were made.    *)
(***************************************************************************)
EXTENDS Fnmatch, C11Threads, C11Mutex, Uuid

CONSTANTS MaxPattern, MaxString

VARIABLE part

(* Every pattern of up to MaxPattern characters, every name of up to         *)
(* MaxString characters.                                                     *)
MCSymbol == {"a", "b", Star, Any}
MCPatterns == UNION {[1..n -> MCSymbol] : n \in 0..MaxPattern}
MCStrings == UNION {[1..n -> MCSymbol \ {Any}] : n \in 0..MaxString}

(* GUIDs that differ in one field, in one byte, in the order of two bytes,   *)
(* in the sign of a byte; and the largest that TLC can add one to.           *)
MkGuid(d1, d2, d3, i, b) ==
  [Data1 |-> d1, Data2 |-> d2, Data3 |-> d3, Data4 |-> [Nil.Data4 EXCEPT ![i] = b]]
MCGuids == {
  Nil,
  MkGuid(1, 0, 0, 1, 0), MkGuid(256, 0, 0, 1, 0), MkGuid(65536, 0, 0, 1, 0),
  MkGuid(16777216, 0, 0, 1, 0), MkGuid(2147483647, 65535, 65535, 1, 255),
  MkGuid(0, 1, 0, 1, 0), MkGuid(0, 32768, 0, 1, 0),
  MkGuid(0, 0, 255, 1, 0), MkGuid(0, 0, 256, 1, 0),
  MkGuid(0, 0, 0, 1, 128), MkGuid(0, 0, 0, 2, 127), MkGuid(0, 0, 0, 3, 1), MkGuid(0, 0, 0, 8, 16)}

-----------------------------------------------------------------------------
vars == <<part, fnmatchVars, c11Vars, mtxVars, uuidVars>>

Init ==
  /\ part \in {"fnmatch", "threads", "mutex", "uuid"}
  /\ FnmatchInit /\ C11Init /\ MtxInit /\ UuidInit

Next ==
  /\ UNCHANGED part
  /\ \/ /\ part = "fnmatch" /\ FnmatchNext
        /\ UNCHANGED <<c11Vars, mtxVars, uuidVars>>
     \/ /\ part = "threads" /\ C11Next
        /\ UNCHANGED <<fnmatchVars, mtxVars, uuidVars>>
     \/ /\ part = "mutex" /\ MtxNext
        /\ UNCHANGED <<fnmatchVars, c11Vars, uuidVars>>
     \/ /\ part = "uuid" /\ UuidNext
        /\ UNCHANGED <<fnmatchVars, c11Vars, mtxVars>>

(* The fairness of each part, while it is the one that is checked.           *)
Fairness ==
  /\ WF_vars(part = "fnmatch" /\ FnmatchStep /\ UNCHANGED <<part, c11Vars, mtxVars, uuidVars>>)
  /\ \A t \in Thread :
       WF_vars(part = "mutex" /\ MtxStep(t) /\ UNCHANGED <<part, fnmatchVars, c11Vars, uuidVars>>)

Spec == Init /\ [][Next]_vars /\ Fairness
=============================================================================
