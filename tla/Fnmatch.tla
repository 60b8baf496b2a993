------------------------------- MODULE Fnmatch -------------------------------
(***************************************************************************)
(* compat/fnmatch.h: the loop over a pattern of characters, "?" and "*",   *)
(* and the calls of itself with which it tries the ends a "*" may have.    *)
(* A position in the pattern or the string stands for the pointer to it,   *)
(* the position after the last one for the terminating zero.               *)
(***************************************************************************)
EXTENDS Integers, Sequences, FiniteSets

CONSTANTS
  Symbol,     \* the characters, "*" and "?" among them
  Patterns,   \* the patterns and
  Strings     \* the names fnmatch() is called with

Star == "*"
Any == "?"

ASSUME FnmatchAssumption ==
  /\ {Star, Any} \subseteq Symbol
  /\ Patterns \subseteq Seq(Symbol)
  /\ Strings \subseteq Seq(Symbol)

VARIABLES
  pattern, string,   \* the arguments of the outermost call
  p, s,              \* where the innermost call is in both
  calls,             \* the calls that wait for it: where a "*" ended, and where in
                     \* the string the rest of the pattern is being tried
  ret                \* what the innermost call returned, "running" until it does

fnmatchVars == <<pattern, string, p, s, calls, ret>>

(* A call waits behind a "*" in the pattern and within the string.           *)
Call(pat, str) == [p : 2..Len(pat), s : 1..Len(str)]

(* No pointer passes the end of what it points into.                         *)
FnmatchTypeOK ==
  /\ pattern \in Seq(Symbol) /\ string \in Seq(Symbol)
  /\ p \in 1..Len(pattern) + 1 /\ s \in 1..Len(string) + 1
  /\ calls \in Seq(Call(pattern, string))
  /\ ret = "idle" => calls = <<>>
  /\ ret \in {"idle", "running", "match", "nomatch"}

FnmatchInit ==
  /\ pattern = <<>> /\ string = <<>> /\ p = 1 /\ s = 1
  /\ calls = <<>>
  /\ ret = "idle"

FnmatchCall ==
  /\ ret = "idle"
  /\ pattern' \in Patterns /\ string' \in Strings
  /\ p' = 1 /\ s' = 1
  /\ ret' = "running"
  /\ UNCHANGED calls

-----------------------------------------------------------------------------
Return(result) ==
  /\ ret' = result
  /\ UNCHANGED <<pattern, string, p, s, calls>>

At(c) == ret = "running" /\ p <= Len(pattern) /\ pattern[p] = c
AtPiece == ret = "running" /\ p <= Len(pattern) /\ pattern[p] # Star

SkipStar ==
  /\ At(Star) /\ p < Len(pattern) /\ pattern[p + 1] = Star
  /\ p' = p + 1
  /\ UNCHANGED <<pattern, string, s, calls, ret>>

TrailingStar == At(Star) /\ p = Len(pattern) /\ Return("match")

(* The rest of the pattern is tried from every position that is left.       *)
LastStar == At(Star) /\ p < Len(pattern) /\ pattern[p + 1] # Star

(* Mutant: the recursive call is given the pattern with its "*".             *)
TryFromStar ==
  /\ LastStar /\ s <= Len(string)
  /\ calls' = Append(calls, [p |-> p, s |-> s])
  /\ UNCHANGED <<pattern, string, p, s, ret>>

TryHere ==
  /\ LastStar /\ s <= Len(string)
  /\ calls' = Append(calls, [p |-> p + 1, s |-> s])
  /\ p' = p + 1
  /\ UNCHANGED <<pattern, string, s, ret>>

NothingLeft == LastStar /\ s > Len(string) /\ Return("nomatch")

(* Mutant: "?" fits the end of the string.                                   *)
FitsPastEnd == pattern[p] = Any \/ (s <= Len(string) /\ pattern[p] = string[s])

Fits == s <= Len(string) /\ pattern[p] \in {Any, string[s]}

Advance ==
  /\ AtPiece /\ Fits
  /\ p' = p + 1 /\ s' = s + 1
  /\ UNCHANGED <<pattern, string, calls, ret>>

Mismatch == AtPiece /\ ~Fits /\ Return("nomatch")

PatternEnd ==
  /\ ret = "running" /\ p > Len(pattern)
  /\ Return(IF s <= Len(string) THEN "nomatch" ELSE "match")

-----------------------------------------------------------------------------
(* The innermost call has returned to the for loop of the one before it.    *)
Waiting == calls[Len(calls)]
Pop == calls' = SubSeq(calls, 1, Len(calls) - 1)

PassMatch ==
  /\ calls # <<>> /\ ret = "match"
  /\ Pop
  /\ UNCHANGED <<pattern, string, p, s, ret>>

(* Mutant: one suffix too few.                                               *)
MoreLeftButLast == Waiting.s + 1 < Len(string)

MoreLeft == Waiting.s < Len(string)

(* Mutant: the string pointer of the loop is not advanced.                   *)
TrySame ==
  /\ calls # <<>> /\ ret = "nomatch" /\ MoreLeft
  /\ p' = Waiting.p /\ s' = Waiting.s
  /\ ret' = "running"
  /\ UNCHANGED <<pattern, string, calls>>

TryNext ==
  /\ calls # <<>> /\ ret = "nomatch" /\ MoreLeft
  /\ calls' = [calls EXCEPT ![Len(calls)] = [p |-> Waiting.p, s |-> Waiting.s + 1]]
  /\ p' = Waiting.p /\ s' = Waiting.s + 1
  /\ ret' = "running"
  /\ UNCHANGED <<pattern, string>>

GiveUp ==
  /\ calls # <<>> /\ ret = "nomatch" /\ ~MoreLeft
  /\ Pop
  /\ UNCHANGED <<pattern, string, p, s, ret>>

FnmatchStep ==
  \/ SkipStar \/ TrailingStar \/ TryHere \/ NothingLeft
  \/ Advance \/ Mismatch \/ PatternEnd
  \/ PassMatch \/ TryNext \/ GiveUp

FnmatchReturned == ret \in {"match", "nomatch"} /\ calls = <<>>
FnmatchDone == FnmatchReturned /\ UNCHANGED fnmatchVars

FnmatchNext == FnmatchCall \/ FnmatchStep \/ FnmatchDone

FnmatchSpec == FnmatchInit /\ [][FnmatchNext]_fnmatchVars /\ WF_fnmatchVars(FnmatchStep)

-----------------------------------------------------------------------------
(* What a pattern means, without an algorithm: the string from j on can be   *)
(* cut into one part for each piece of the pattern from i on, a part of any  *)
(* length for "*" and of one fitting character for any other piece.          *)
Part(pat, str, k, from, to) ==
  IF pat[k] = Star THEN from <= to
  ELSE to = from + 1 /\ pat[k] \in {Any, str[from]}

Matches(pat, str, i, j) ==
  \E cut \in [i..Len(pat) + 1 -> 1..Len(str) + 1] :
    /\ cut[i] = j /\ cut[Len(pat) + 1] = Len(str) + 1
    /\ \A k \in i..Len(pat) : Part(pat, str, k, cut[k], cut[k + 1])

(* fnmatch.h: "a minimal fnmatch() supporting * and ? wildcards": it returns *)
(* 0 exactly for the strings the pattern matches.                            *)
MatchAgrees ==
  FnmatchReturned => (ret = "match" <=> Matches(pattern, string, 1, 1))

(* The calls on the stack are never more than the pattern has "*", whatever  *)
(* the string: each of them waits behind another "*".                        *)
RecursionBounded ==
  Len(calls) <= Cardinality({i \in 1..Len(pattern) : pattern[i] = Star})

(* fnmatch() returns, however often it has to go back.                       *)
FnmatchReturns == ret = "running" ~> FnmatchReturned
=============================================================================
