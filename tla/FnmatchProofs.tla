---------------------------- MODULE FnmatchProofs ----------------------------
(***************************************************************************)
(* fnmatch() returns 0 exactly for the strings a pattern matches, for all  *)
(* patterns and strings.  The invariant: the pattern matches the string if *)
(* and only if it did already, the innermost call is about to find it, or  *)
(* a try that a waiting call has not made yet will.                        *)
(***************************************************************************)
EXTENDS Fnmatch, FiniteSetTheorems, SequenceTheorems, TLAPS

-----------------------------------------------------------------------------
(* The stack of calls: its last element, without it, with another one.       *)
LEMMA StackProperties ==
  ASSUME NEW F, NEW c \in Seq(F), c # <<>>
  PROVE  /\ Len(c) \in 1..Len(c) /\ c[Len(c)] \in F
         /\ SubSeq(c, 1, Len(c) - 1) \in Seq(F)
         /\ Len(SubSeq(c, 1, Len(c) - 1)) = Len(c) - 1
         /\ \A k \in 1..Len(c) - 1 : SubSeq(c, 1, Len(c) - 1)[k] = c[k]
         /\ \A f \in F : /\ [c EXCEPT ![Len(c)] = f] \in Seq(F)
                         /\ Len([c EXCEPT ![Len(c)] = f]) = Len(c)
<1>1. Len(c) \in Nat /\ Len(c) # 0
  OBVIOUS
<1>2. Len(c) \in 1..Len(c)
  BY <1>1
<1>3. c[Len(c)] \in F
  BY <1>2
<1> DEFINE front == SubSeq(c, 1, Len(c) - 1)
<1>4. front \in Seq(F) /\ Len(front) = Len(c) - 1
  <2>1. Len(c) - 1 \in Int /\ 1 \in Int /\ \A k \in 1..Len(c) - 1 : c[k] \in F
    BY <1>1
  <2>2. /\ front \in Seq(F)
        /\ Len(front) = IF 1 <= Len(c) - 1 THEN Len(c) - 1 - 1 + 1 ELSE 0
    BY <2>1, SubSeqProperties
  <2>3. CASE Len(c) = 1
    BY <2>2, <2>3
  <2>4. CASE Len(c) > 1
    <3>1. 1 <= Len(c) - 1 /\ Len(c) - 1 - 1 + 1 = Len(c) - 1
      BY <1>1, <2>4
    <3> HIDE DEF front
    <3> QED
      BY <2>2, <3>1, Zenon
  <2>5. Len(c) = 1 \/ Len(c) > 1
    BY <1>1
  <2> HIDE DEF front
  <2> QED
    BY <2>3, <2>4, <2>5
<1>5. \A k \in 1..Len(c) - 1 : SubSeq(c, 1, Len(c) - 1)[k] = c[k]
  BY <1>1
<1>6. \A f \in F : /\ [c EXCEPT ![Len(c)] = f] \in Seq(F)
                  /\ Len([c EXCEPT ![Len(c)] = f]) = Len(c)
  BY <1>2
<1> QED
  BY <1>2, <1>3, <1>4, <1>5, <1>6

-----------------------------------------------------------------------------
(* What Matches says of the first piece of the rest of a pattern.            *)

(* No piece is left: nothing of the string may be left.                      *)
LEMMA MatchesEnd ==
  ASSUME NEW pat \in Seq(Symbol), NEW str \in Seq(Symbol),
         NEW j \in 1..Len(str) + 1
  PROVE  Matches(pat, str, Len(pat) + 1, j) <=> j = Len(str) + 1
<1> DEFINE n == Len(pat) + 1
           m == Len(str) + 1
<1>1. n \in Nat /\ m \in Nat
  OBVIOUS
<1>2. Matches(pat, str, n, j) => j = m
  BY DEF Matches
<1>3. ASSUME j = m PROVE Matches(pat, str, n, j)
  <2> DEFINE c == [k \in n..n |-> m]
  <2>1. c \in [n..n -> 1..m]
    BY <1>1, <1>3
  <2>2. c[n] = j /\ c[n] = m
    BY <1>1, <1>3
  <2>3. \A k \in n..Len(pat) : Part(pat, str, k, c[k], c[k + 1])
    BY <1>1
  <2> QED
    BY <2>1, <2>2, <2>3 DEF Matches
<1> QED
  BY <1>2, <1>3

(* The first piece takes the part up to k, the rest of the pattern the rest. *)
LEMMA MatchesPiece ==
  ASSUME NEW pat \in Seq(Symbol), NEW str \in Seq(Symbol),
         NEW i \in 1..Len(pat), NEW j \in 1..Len(str) + 1
  PROVE  Matches(pat, str, i, j) <=>
           \E k \in j..Len(str) + 1 :
             Part(pat, str, i, j, k) /\ Matches(pat, str, i + 1, k)
<1> DEFINE n == Len(pat) + 1
           m == Len(str) + 1
<1>0. n \in Nat /\ m \in Nat /\ i \in Nat /\ j \in Nat /\ i + 1 <= n
  OBVIOUS
<1>1. ASSUME Matches(pat, str, i, j)
      PROVE  \E k \in j..m : Part(pat, str, i, j, k) /\ Matches(pat, str, i + 1, k)
  <2>1. PICK c \in [i..n -> 1..m] :
               /\ c[i] = j /\ c[n] = m
               /\ \A k \in i..Len(pat) : Part(pat, str, k, c[k], c[k + 1])
    BY <1>1 DEF Matches
  <2> DEFINE k == c[i + 1]
             d == [l \in i + 1..n |-> c[l]]
  <2>2. k \in 1..m /\ Part(pat, str, i, j, k)
    BY <1>0, <2>1
  <2>3. k \in j..m
    BY <1>0, <2>2 DEF Part
  <2>4. d \in [i + 1..n -> 1..m]
    BY <1>0, <2>1
  <2>5. d[i + 1] = k /\ d[n] = m
    BY <1>0, <2>1
  <2>6. \A l \in i + 1..Len(pat) : Part(pat, str, l, d[l], d[l + 1])
    BY <1>0, <2>1
  <2>7. Matches(pat, str, i + 1, k)
    BY <2>4, <2>5, <2>6 DEF Matches
  <2> QED
    BY <2>2, <2>3, <2>7
<1>2. ASSUME NEW k \in j..m, Part(pat, str, i, j, k), Matches(pat, str, i + 1, k)
      PROVE  Matches(pat, str, i, j)
  <2>1. PICK c \in [i + 1..n -> 1..m] :
               /\ c[i + 1] = k /\ c[n] = m
               /\ \A l \in i + 1..Len(pat) : Part(pat, str, l, c[l], c[l + 1])
    BY <1>2 DEF Matches
  <2> DEFINE d == [l \in i..n |-> IF l = i THEN j ELSE c[l]]
  <2>2. d \in [i..n -> 1..m]
    BY <1>0, <2>1
  <2>3. d[i] = j /\ d[n] = m
    BY <1>0, <2>1
  <2>4. \A l \in i..Len(pat) : Part(pat, str, l, d[l], d[l + 1])
    BY <1>0, <1>2, <2>1 DEF Part
  <2> QED
    BY <2>2, <2>3, <2>4 DEF Matches
<1> QED
  BY <1>1, <1>2

(* A piece that is no "*" takes one character.                               *)
LEMMA MatchesFitting ==
  ASSUME NEW pat \in Seq(Symbol), NEW str \in Seq(Symbol),
         NEW i \in 1..Len(pat), NEW j \in 1..Len(str) + 1, pat[i] # Star
  PROVE  Matches(pat, str, i, j) <=>
           j <= Len(str) /\ pat[i] \in {Any, str[j]} /\ Matches(pat, str, i + 1, j + 1)
<1>1. \A k \in j..Len(str) + 1 :
        Part(pat, str, i, j, k) <=> k = j + 1 /\ pat[i] \in {Any, str[j]}
  BY DEF Part
<1>2. j \in Nat /\ Len(str) \in Nat
  OBVIOUS
<1> QED
  BY <1>1, <1>2, MatchesPiece

(* A "*" takes a part of any length.                                         *)
LEMMA MatchesStar ==
  ASSUME NEW pat \in Seq(Symbol), NEW str \in Seq(Symbol),
         NEW i \in 1..Len(pat), NEW j \in 1..Len(str) + 1, pat[i] = Star
  PROVE  Matches(pat, str, i, j) <=>
           \E k \in j..Len(str) + 1 : Matches(pat, str, i + 1, k)
<1>1. \A k \in j..Len(str) + 1 : Part(pat, str, i, j, k)
  BY DEF Part
<1> QED
  BY <1>1, MatchesPiece

(* Two "*" in a row are one.                                                 *)
LEMMA MatchesStarStar ==
  ASSUME NEW pat \in Seq(Symbol), NEW str \in Seq(Symbol),
         NEW i \in 1..Len(pat), NEW j \in 1..Len(str) + 1,
         i < Len(pat), pat[i] = Star, pat[i + 1] = Star
  PROVE  Matches(pat, str, i, j) <=> Matches(pat, str, i + 1, j)
<1>1. i + 1 \in 1..Len(pat) /\ j \in j..Len(str) + 1
  OBVIOUS
<1>2. \A k \in j..Len(str) + 1 : k \in 1..Len(str) + 1
  OBVIOUS
<1>3. Matches(pat, str, i, j) <=> \E k \in j..Len(str) + 1 : Matches(pat, str, i + 1, k)
  BY MatchesStar
<1>4. \A k \in j..Len(str) + 1 :
        Matches(pat, str, i + 1, k) <=>
          \E l \in k..Len(str) + 1 : Matches(pat, str, (i + 1) + 1, l)
  BY <1>1, <1>2, MatchesStar
<1>5. ASSUME NEW k \in j..Len(str) + 1, Matches(pat, str, i + 1, k)
      PROVE  Matches(pat, str, i + 1, j)
  <2>1. PICK l \in k..Len(str) + 1 : Matches(pat, str, (i + 1) + 1, l)
    BY <1>4, <1>5
  <2>2. l \in j..Len(str) + 1
    OBVIOUS
  <2> QED
    BY <1>1, <1>4, <2>1, <2>2
<1> QED
  BY <1>1, <1>3, <1>5

(* After the last "*" of a row comes a piece that needs a character, so the  *)
(* end of the string need not be tried.                                      *)
LEMMA MatchesLastStar ==
  ASSUME NEW pat \in Seq(Symbol), NEW str \in Seq(Symbol),
         NEW i \in 1..Len(pat), NEW j \in 1..Len(str) + 1,
         i < Len(pat), pat[i] = Star, pat[i + 1] # Star
  PROVE  Matches(pat, str, i, j) <=>
           \E k \in j..Len(str) : Matches(pat, str, i + 1, k)
<1>1. i + 1 \in 1..Len(pat) /\ Len(str) + 1 \in 1..Len(str) + 1 /\ ~(Len(str) + 1 <= Len(str))
  OBVIOUS
<1>2. ~Matches(pat, str, i + 1, Len(str) + 1)
  BY <1>1, MatchesFitting
<1>3. \A k : k \in j..Len(str) + 1 <=> k \in j..Len(str) \/ k = Len(str) + 1
  OBVIOUS
<1> QED
  BY <1>2, <1>3, MatchesStar

-----------------------------------------------------------------------------
(* A try that a waiting call has not made yet.                               *)
Pending ==
  \E k \in 1..Len(calls) : \E j \in calls[k].s + 1..Len(string) :
    Matches(pattern, string, calls[k].p, j)

WaitsAtPiece == \A k \in 1..Len(calls) : pattern[calls[k].p] # Star

NothingMissed ==
  ret # "idle" =>
    (Matches(pattern, string, 1, 1) <=>
       \/ ret = "match"
       \/ ret = "running" /\ Matches(pattern, string, p, s)
       \/ Pending)

FnmatchInv == FnmatchTypeOK /\ WaitsAtPiece /\ NothingMissed

LEMMA FnmatchInitInv == FnmatchInit => FnmatchInv
<1> SUFFICES ASSUME FnmatchInit PROVE FnmatchInv
  OBVIOUS
<1>1. FnmatchTypeOK
  BY DEF FnmatchInit, FnmatchTypeOK
<1> QED
  BY <1>1 DEF FnmatchInit, FnmatchInv, WaitsAtPiece, NothingMissed

(* Types, with it: no pointer passes the end of what it points into.         *)
LEMMA FnmatchTypeStep ==
  FnmatchTypeOK /\ [FnmatchNext]_fnmatchVars => FnmatchTypeOK'
<1> SUFFICES ASSUME FnmatchTypeOK, [FnmatchNext]_fnmatchVars
             PROVE  FnmatchTypeOK'
  OBVIOUS
<1> USE DEF FnmatchTypeOK
<1>1. CASE FnmatchCall
  BY <1>1, FnmatchAssumption DEF FnmatchCall
<1>2. CASE SkipStar
  BY <1>2 DEF SkipStar, At
<1>3. CASE TrailingStar
  BY <1>3 DEF TrailingStar, Return
<1>4. CASE TryHere
  <2>1. [p |-> p + 1, s |-> s] \in Call(pattern, string)
    BY <1>4 DEF TryHere, LastStar, At, Call
  <2> QED
    BY <1>4, <2>1 DEF TryHere, LastStar, At
<1>5. CASE NothingLeft
  BY <1>5 DEF NothingLeft, Return
<1>6. CASE Advance
  BY <1>6 DEF Advance, AtPiece, Fits
<1>7. CASE Mismatch
  BY <1>7 DEF Mismatch, Return
<1>8. CASE PatternEnd
  BY <1>8 DEF PatternEnd, Return
<1>9. CASE PassMatch
  BY <1>9, StackProperties DEF PassMatch, Pop
<1>10. CASE TryNext
  <2>1. Waiting \in Call(pattern, string)
    BY <1>10, StackProperties DEF TryNext, Waiting
  <2>2. [p |-> Waiting.p, s |-> Waiting.s + 1] \in Call(pattern, string)
    BY <1>10, <2>1 DEF TryNext, MoreLeft, Call
  <2>4. calls' \in Seq(Call(pattern, string))
    BY <1>10, <2>2, StackProperties DEF TryNext
  <2>5. Waiting.p \in 2..Len(pattern) /\ Waiting.s + 1 \in 1..Len(string)
    BY <1>10, <2>1 DEF TryNext, MoreLeft, Call
  <2> QED
    BY <1>10, <2>4, <2>5 DEF TryNext
<1>11. CASE GiveUp
  BY <1>11, StackProperties DEF GiveUp, Pop
<1>12. CASE FnmatchDone \/ UNCHANGED fnmatchVars
  BY <1>12 DEF FnmatchDone, fnmatchVars
<1> QED
  BY <1>1, <1>2, <1>3, <1>4, <1>5, <1>6, <1>7, <1>8, <1>9, <1>10, <1>11, <1>12
  DEF FnmatchNext, FnmatchStep

(* The tries of the innermost waiting call, and those of the others.         *)
PendingIn(c) ==
  \E j \in c.s + 1..Len(string) : Matches(pattern, string, c.p, j)

LEMMA PendingSplit ==
  ASSUME FnmatchTypeOK, calls # <<>>
  PROVE  /\ Len(calls) \in Nat /\ Len(calls) >= 1
         /\ Waiting \in Call(pattern, string)
         /\ Pending <=> \/ PendingIn(Waiting)
                        \/ \E k \in 1..Len(calls) - 1 : PendingIn(calls[k])
<1> DEFINE n == Len(calls)
<1>1. n \in Nat /\ n \in 1..n
  BY StackProperties DEF FnmatchTypeOK
<1>2. \A k : k \in 1..n <=> k \in 1..n - 1 \/ k = n
  BY <1>1
<1>3. Pending <=> \E k \in 1..n : PendingIn(calls[k])
  BY DEF Pending, PendingIn
<1>4. Waiting \in Call(pattern, string)
  BY StackProperties DEF FnmatchTypeOK, Waiting
<1> QED
  BY <1>1, <1>2, <1>3, <1>4 DEF Waiting

(* The searches of a step are those of the step before, less what it has     *)
(* found out.                                                                *)
LEMMA FnmatchStepInv ==
  FnmatchInv /\ [FnmatchNext]_fnmatchVars => FnmatchInv'
<1> SUFFICES ASSUME FnmatchInv, [FnmatchNext]_fnmatchVars
             PROVE  WaitsAtPiece' /\ NothingMissed'
  BY FnmatchTypeStep DEF FnmatchInv
<1>0. FnmatchTypeOK /\ WaitsAtPiece /\ NothingMissed
  BY DEF FnmatchInv
<1> DEFINE M(i, j) == Matches(pattern, string, i, j)
<1> USE DEF FnmatchTypeOK
<1>1. CASE FnmatchCall
  BY <1>0, <1>1 DEF FnmatchCall, WaitsAtPiece, NothingMissed, Pending
<1>2. CASE SkipStar
  <2>1. M(p, s) <=> M(p + 1, s)
    BY <1>0, <1>2, MatchesStarStar DEF SkipStar, At
  <2>2. p' = p + 1 /\ UNCHANGED <<pattern, string, s, calls, ret>> /\ ret = "running"
    BY <1>2 DEF SkipStar, At
  <2> QED
    BY <1>0, <2>1, <2>2 DEF WaitsAtPiece, NothingMissed, Pending
<1>3. CASE TrailingStar
  <2>1. \E k \in s..Len(string) + 1 : M(p + 1, k)
    <3>1. Len(string) + 1 \in s..Len(string) + 1 /\ Len(string) + 1 \in 1..Len(string) + 1
      BY <1>0
    <3>2. M(Len(pattern) + 1, Len(string) + 1)
      BY <1>0, <3>1, MatchesEnd
    <3> QED
      BY <1>3, <3>1, <3>2 DEF TrailingStar
  <2>2. M(p, s)
    BY <1>0, <1>3, <2>1, MatchesStar DEF TrailingStar, At
  <2> QED
    BY <1>0, <1>3, <2>2 DEF TrailingStar, At, Return, WaitsAtPiece, NothingMissed, Pending
<1>4. CASE NothingLeft
  <2>1. ~M(p, s)
    BY <1>0, <1>4, MatchesLastStar DEF NothingLeft, LastStar, At
  <2> QED
    BY <1>0, <1>4, <2>1
    DEF NothingLeft, LastStar, At, Return, WaitsAtPiece, NothingMissed, Pending
<1>5. CASE Advance
  <2>0. p \in 1..Len(pattern) /\ s \in 1..Len(string) + 1 /\ pattern[p] # Star /\ Fits
    BY <1>0, <1>5 DEF Advance, AtPiece
  <2>1. M(p, s) <=> M(p + 1, s + 1)
    BY <1>0, <2>0, MatchesFitting DEF Fits
  <2> QED
    BY <1>0, <1>5, <2>1 DEF Advance, AtPiece, WaitsAtPiece, NothingMissed, Pending
<1>6. CASE Mismatch
  <2>1. ~M(p, s)
    BY <1>0, <1>6, MatchesFitting DEF Mismatch, AtPiece, Fits
  <2> QED
    BY <1>0, <1>6, <2>1 DEF Mismatch, AtPiece, Return, WaitsAtPiece, NothingMissed, Pending
<1>7. CASE PatternEnd
  <2>1. p = Len(pattern) + 1
    BY <1>0, <1>7 DEF PatternEnd
  <2>2. M(p, s) <=> s = Len(string) + 1
    BY <1>0, <2>1, MatchesEnd
  <2>3. M(p, s) <=> ~(s <= Len(string))
    BY <1>0, <2>2
  <2> QED
    BY <1>0, <1>7, <2>3 DEF PatternEnd, Return, WaitsAtPiece, NothingMissed, Pending
<1>8. CASE TryHere
  <2> DEFINE f == [p |-> p + 1, s |-> s]
             n == Len(calls)
  <2>1. M(p, s) <=> \E j \in s..Len(string) : M(p + 1, j)
    BY <1>0, <1>8, MatchesLastStar DEF TryHere, LastStar, At
  <2>2. M(p, s) <=> M(p + 1, s) \/ \E j \in s + 1..Len(string) : M(p + 1, j)
    <3>1. s \in Nat /\ Len(string) \in Nat /\ s <= Len(string)
      BY <1>0, <1>8 DEF TryHere
    <3>2. \A j : j \in s..Len(string) <=> j = s \/ j \in s + 1..Len(string)
      BY <3>1
    <3> QED
      BY <2>1, <3>2
  <2>3. /\ n \in Nat /\ Len(calls') = n + 1 /\ calls'[n + 1] = f
        /\ \A k \in 1..n : calls'[k] = calls[k]
    BY <1>0, <1>8 DEF TryHere
  <2>4. f.p = p + 1 /\ f.s = s
    OBVIOUS
  <2>5. Pending' <=> Pending \/ \E j \in s + 1..Len(string) : M(p + 1, j)
    <3>1. \A k : k \in 1..n + 1 <=> k \in 1..n \/ k = n + 1
      BY <2>3
    <3>2. UNCHANGED <<pattern, string>>
      BY <1>8 DEF TryHere
    <3> HIDE DEF f, n
    <3>3. Pending' <=> \E k \in 1..n + 1 : \E j \in calls'[k].s + 1..Len(string) : M(calls'[k].p, j)
      BY <2>3, <3>2 DEF Pending
    <3>4. Pending <=> \E k \in 1..n : \E j \in calls'[k].s + 1..Len(string) : M(calls'[k].p, j)
      BY <2>3 DEF Pending, n
    <3> QED
      BY <2>3, <2>4, <3>1, <3>3, <3>4
  <2>6. WaitsAtPiece'
    <3>1. pattern[f.p] # Star
      BY <1>8, <2>4 DEF TryHere, LastStar
    <3>2. \A k \in 1..n + 1 : k \in 1..n \/ k = n + 1
      BY <2>3
    <3> QED
      BY <1>0, <1>8, <2>3, <3>1, <3>2 DEF TryHere, WaitsAtPiece
  <2>7. ret = "running" /\ UNCHANGED <<pattern, string, s, ret>> /\ p' = p + 1
    BY <1>8 DEF TryHere, LastStar, At
  <2> QED
    BY <1>0, <2>2, <2>5, <2>6, <2>7 DEF NothingMissed
<1>9. ASSUME calls # <<>>, Pop, UNCHANGED <<pattern, string>>
      PROVE  /\ Pending' <=> \E k \in 1..Len(calls) - 1 : PendingIn(calls[k])
             /\ WaitsAtPiece'
  <2> DEFINE n == Len(calls)
  <2>1. /\ n \in Nat /\ n >= 1 /\ Len(calls') = n - 1
        /\ \A k \in 1..n - 1 : calls'[k] = calls[k]
    BY <1>0, <1>9, StackProperties, PendingSplit DEF Pop
  <2>2. Pending' <=> \E k \in 1..n - 1 : PendingIn(calls[k])
    <3> HIDE DEF n
    <3> QED
      BY <1>9, <2>1 DEF Pending, PendingIn
  <2>3. WaitsAtPiece'
    <3>1. \A k \in 1..n - 1 : pattern[calls[k].p] # Star
      BY <1>0, <2>1 DEF WaitsAtPiece
    <3> HIDE DEF n
    <3> QED
      BY <1>9, <2>1, <3>1 DEF WaitsAtPiece
  <2> QED
    BY <2>2, <2>3
<1>10. CASE PassMatch
  BY <1>0, <1>9, <1>10 DEF PassMatch, NothingMissed
<1>11. CASE GiveUp
  <2>1. ~PendingIn(Waiting)
    <3>0. Waiting \in Call(pattern, string)
      BY <1>0, <1>11, PendingSplit DEF GiveUp
    <3>1. Waiting.s \in Nat /\ Len(string) \in Nat /\ ~(Waiting.s < Len(string))
      BY <1>0, <1>11, <3>0 DEF GiveUp, MoreLeft, Call
    <3>2. Waiting.s + 1..Len(string) = {}
      BY <3>1
    <3> QED
      BY <3>2 DEF PendingIn
  <2>2. Pending' <=> Pending
    BY <1>0, <1>9, <1>11, <2>1, PendingSplit DEF GiveUp
  <2> QED
    BY <1>0, <1>9, <1>11, <2>2 DEF GiveUp, NothingMissed
<1>12. CASE TryNext
  <2> DEFINE n == Len(calls)
             q == Waiting.p
             t == Waiting.s + 1
             f == [p |-> q, s |-> t]
  <2>1. n \in Nat /\ n >= 1 /\ q \in 2..Len(pattern) /\ t \in Nat /\ t <= Len(string)
    <3>1. n \in Nat /\ n >= 1 /\ Waiting \in Call(pattern, string)
      BY <1>0, <1>12, PendingSplit DEF TryNext
    <3>2. Waiting.s < Len(string) /\ string \in Seq(Symbol)
      BY <1>0, <1>12 DEF TryNext, MoreLeft
    <3> QED
      BY <3>1, <3>2 DEF Call
  <2>2. calls' = [calls EXCEPT ![n] = f]
    BY <1>12 DEF TryNext
  <2>3. Len(calls') = n /\ calls'[n] = f /\ \A k \in 1..n - 1 : calls'[k] = calls[k]
    BY <1>0, <2>1, <2>2
  <2>4. f.p = q /\ f.s = t
    OBVIOUS
  <2>5. /\ p' = q /\ s' = t /\ ret' = "running" /\ ret = "nomatch"
        /\ UNCHANGED <<pattern, string>>
    BY <1>12 DEF TryNext
  <2>6. \A k : k \in 1..n <=> k \in 1..n - 1 \/ k = n
    BY <2>1
  <2>7. Pending' <=> \/ \E j \in t + 1..Len(string) : M(q, j)
                     \/ \E k \in 1..n - 1 : PendingIn(calls[k])
    <3>1. Pending' <=> \E k \in 1..n : \E j \in calls'[k].s + 1..Len(string) : M(calls'[k].p, j)
      <4> HIDE DEF n, f
      <4> QED
        BY <2>3, <2>5 DEF Pending
    <3> HIDE DEF n, f, q, t
    <3> QED
      BY <2>3, <2>4, <2>6, <3>1 DEF PendingIn
  <2>8. PendingIn(Waiting) <=> M(q, t) \/ \E j \in t + 1..Len(string) : M(q, j)
    <3>1. \A j : j \in t..Len(string) <=> j = t \/ j \in t + 1..Len(string)
      BY <1>0, <2>1
    <3> QED
      BY <3>1 DEF PendingIn
  <2>9. Pending <=> M(q, t) \/ Pending'
    BY <1>0, <1>12, <2>7, <2>8, PendingSplit DEF TryNext
  <2>10. WaitsAtPiece'
    <3>1. pattern[q] # Star
      BY <1>0, <2>1 DEF WaitsAtPiece, Waiting
    <3>2. \A k \in 1..n - 1 : pattern[calls[k].p] # Star
      BY <1>0, <2>1 DEF WaitsAtPiece
    <3> HIDE DEF n, f, q, t
    <3> QED
      BY <2>3, <2>4, <2>5, <2>6, <3>1, <3>2 DEF WaitsAtPiece
  <2> QED
    BY <1>0, <2>5, <2>9, <2>10 DEF NothingMissed
<1>13. CASE FnmatchDone \/ UNCHANGED fnmatchVars
  BY <1>0, <1>13 DEF FnmatchDone, fnmatchVars, WaitsAtPiece, NothingMissed, Pending
<1> QED
  BY <1>1, <1>2, <1>3, <1>4, <1>5, <1>6, <1>7, <1>8, <1>10, <1>11, <1>12, <1>13
  DEF FnmatchNext, FnmatchStep

LEMMA FnmatchInvariant == FnmatchSpec => []FnmatchInv
<1> QED
  BY FnmatchInitInv, FnmatchStepInv, PTL DEF FnmatchSpec

(* No pointer of fnmatch() passes the end of the pattern or of the string.   *)
THEOREM PointersInBounds == FnmatchSpec => []FnmatchTypeOK
<1>1. FnmatchInv => FnmatchTypeOK
  BY DEF FnmatchInv
<1> QED
  BY <1>1, FnmatchInvariant, PTL

(* fnmatch() returns 0 for a string if and only if the pattern matches it,   *)
(* for every pattern and every string.                                       *)
THEOREM MatchesMeaning == FnmatchSpec => []MatchAgrees
<1>1. FnmatchInv => MatchAgrees
  <2> SUFFICES ASSUME FnmatchInv, ret \in {"match", "nomatch"}, calls = <<>>
               PROVE  ret = "match" <=> Matches(pattern, string, 1, 1)
    BY DEF MatchAgrees, FnmatchReturned
  <2>1. ~Pending
    BY DEF Pending
  <2> QED
    BY <2>1 DEF FnmatchInv, NothingMissed
<1> QED
  BY <1>1, FnmatchInvariant, PTL

-----------------------------------------------------------------------------
(* Every waiting call waits behind a "*" of its own, further on than those   *)
(* before it.                                                                *)
BehindStars ==
  /\ \A k \in 1..Len(calls) : pattern[calls[k].p - 1] = Star
  /\ \A k, l \in 1..Len(calls) : k < l => calls[k].p < calls[l].p
  /\ ret = "running" => \A k \in 1..Len(calls) : calls[k].p <= p

LEMMA BehindStarsPop ==
  ASSUME FnmatchTypeOK, BehindStars, calls # <<>>, Pop, ret # "running",
         UNCHANGED <<pattern, ret>>
  PROVE  BehindStars'
<1> DEFINE n == Len(calls)
<1>1. /\ n \in Nat /\ n >= 1 /\ Len(calls') = n - 1
      /\ \A k \in 1..n - 1 : calls'[k] = calls[k]
  BY StackProperties, PendingSplit DEF Pop, FnmatchTypeOK
<1>2. \A k \in 1..n - 1 : k \in 1..n
  BY <1>1
<1>3. /\ \A k \in 1..n : pattern[calls[k].p - 1] = Star
      /\ \A k, l \in 1..n : k < l => calls[k].p < calls[l].p
  BY DEF BehindStars
<1> HIDE DEF n
<1> QED
  BY <1>1, <1>2, <1>3 DEF BehindStars

LEMMA BehindStarsStep ==
  FnmatchTypeOK /\ BehindStars /\ [FnmatchNext]_fnmatchVars => BehindStars'
<1> SUFFICES ASSUME FnmatchTypeOK, BehindStars, [FnmatchNext]_fnmatchVars
             PROVE  BehindStars'
  OBVIOUS
<1> DEFINE n == Len(calls)
<1>0. /\ calls \in Seq(Call(pattern, string)) /\ n \in Nat
      /\ p \in Int /\ (ret = "idle" => calls = <<>>)
      /\ \A k \in 1..n : calls[k] \in Call(pattern, string)
  BY DEF FnmatchTypeOK
<1>t. \A k \in 1..n : calls[k].p \in Int
  BY <1>0 DEF Call
<1>b. /\ \A k \in 1..n : pattern[calls[k].p - 1] = Star
      /\ \A k, l \in 1..n : k < l => calls[k].p < calls[l].p
      /\ ret = "running" => \A k \in 1..n : calls[k].p <= p
  BY DEF BehindStars
<1>1. CASE FnmatchCall
  BY <1>0, <1>1 DEF FnmatchCall, BehindStars
<1>2. CASE SkipStar \/ Advance
  <2>1. ret = "running" /\ p' = p + 1 /\ UNCHANGED <<pattern, calls, ret>>
    BY <1>2 DEF SkipStar, At, Advance, AtPiece
  <2> QED
    BY <1>0, <1>t, <1>b, <2>1 DEF BehindStars
<1>3. CASE TrailingStar \/ NothingLeft \/ Mismatch \/ PatternEnd
  <2>1. ret' # "running" /\ UNCHANGED <<pattern, calls>>
    BY <1>3 DEF TrailingStar, NothingLeft, Mismatch, PatternEnd, Return
  <2> QED
    BY <1>b, <2>1 DEF BehindStars
<1>4. CASE TryHere
  <2>1. /\ n + 1 \in Nat /\ Len(calls') = n + 1
        /\ calls'[n + 1] = [p |-> p + 1, s |-> s]
        /\ \A k \in 1..n : calls'[k] = calls[k]
    BY <1>0, <1>4 DEF TryHere
  <2>2. calls'[n + 1].p = p + 1
    BY <2>1
  <2>3. ret = "running" /\ pattern[p] = Star /\ p' = p + 1 /\ UNCHANGED <<pattern, ret>>
    BY <1>4 DEF TryHere, LastStar, At
  <2>4. \A k \in 1..n + 1 : k \in 1..n \/ k = n + 1
    BY <1>0
  <2>5. \A k \in 1..n : calls'[k].p = calls[k].p /\ calls[k].p \in Int /\ calls[k].p < p + 1
    BY <1>0, <1>t, <1>b, <2>1, <2>3
  <2>6. \A k \in 1..n + 1 : pattern'[calls'[k].p - 1] = Star
    <3>1. \A k \in 1..n : pattern[calls'[k].p - 1] = Star
      BY <1>b, <2>5
    <3>2. pattern[calls'[n + 1].p - 1] = Star
      <4>1. calls'[n + 1].p - 1 = p
        BY <1>0, <2>2
      <4> QED
        BY <2>3, <4>1
    <3> HIDE DEF n
    <3> QED
      BY <2>3, <2>4, <3>1, <3>2
  <2>7. ASSUME NEW k \in 1..n + 1, NEW l \in 1..n + 1, k < l
        PROVE  calls'[k].p < calls'[l].p
    <3>1. k \in 1..n
      BY <1>0, <2>7
    <3>2. CASE l = n + 1
      BY <2>2, <2>5, <3>1, <3>2
    <3>3. CASE l \in 1..n
      BY <1>b, <2>5, <2>7, <3>1, <3>3
    <3> QED
      BY <2>4, <3>2, <3>3
  <2>8. \A k \in 1..n + 1 : calls'[k].p <= p'
    BY <1>0, <2>2, <2>3, <2>4, <2>5
  <2> HIDE DEF n
  <2> QED
    BY <2>1, <2>6, <2>7, <2>8 DEF BehindStars
<1>5. CASE PassMatch
  BY <1>5, BehindStarsPop DEF PassMatch
<1>6. CASE GiveUp
  BY <1>6, BehindStarsPop DEF GiveUp
<1>7. CASE TryNext
  <2>1. n \in 1..n /\ Len(calls') = n
    BY <1>0, <1>7, StackProperties, PendingSplit DEF TryNext
  <2>2. \A k \in 1..n : calls'[k].p = calls[k].p
    <3>1. calls' = [calls EXCEPT ![n] = [p |-> calls[n].p, s |-> calls[n].s + 1]]
      BY <1>7 DEF TryNext, Waiting
    <3> QED
      BY <1>0, <3>1
  <2>3. p' = calls[n].p /\ UNCHANGED pattern
    BY <1>7 DEF TryNext, Waiting
  <2>4. \A k \in 1..n : k < n \/ k = n
    BY <1>0
  <2>5. \A k \in 1..n : calls'[k].p <= p'
    BY <1>t, <1>b, <2>1, <2>2, <2>3, <2>4
  <2> HIDE DEF n
  <2> QED
    BY <1>b, <2>1, <2>2, <2>3, <2>5 DEF BehindStars
<1>8. CASE FnmatchDone \/ UNCHANGED fnmatchVars
  BY <1>8 DEF FnmatchDone, fnmatchVars, BehindStars
<1> QED
  BY <1>1, <1>2, <1>3, <1>4, <1>5, <1>6, <1>7, <1>8 DEF FnmatchNext, FnmatchStep

(* The stack of calls of fnmatch() is bounded by the stars of the pattern,   *)
(* for strings of any length.                                                *)
THEOREM StackIsBounded == FnmatchSpec => []RecursionBounded
<1>1. FnmatchInit => BehindStars
  BY DEF FnmatchInit, BehindStars
<1>2. FnmatchTypeOK /\ BehindStars => RecursionBounded
  <2> SUFFICES ASSUME FnmatchTypeOK, BehindStars PROVE RecursionBounded
    OBVIOUS
  <2> DEFINE n == Len(calls)
             stars == {i \in 1..Len(pattern) : pattern[i] = Star}
             f == [k \in 1..n |-> calls[k].p - 1]
  <2>1. n \in Nat /\ Len(pattern) \in Nat
    BY DEF FnmatchTypeOK
  <2>2. \A k \in 1..n : calls[k].p \in 2..Len(pattern)
    <3>1. \A k \in 1..n : calls[k] \in Call(pattern, string)
      BY DEF FnmatchTypeOK
    <3> QED
      BY <3>1 DEF Call
  <2>3. f \in [1..n -> stars]
    BY <2>1, <2>2 DEF BehindStars
  <2>4. \A k, l \in 1..n : f[k] = f[l] => k = l
    <3>1. ASSUME NEW k \in 1..n, NEW l \in 1..n, f[k] = f[l] PROVE k = l
      <4>1. calls[k].p = calls[l].p
        BY <2>2, <3>1
      <4>2. ~(k < l) /\ ~(l < k)
        BY <2>2, <4>1 DEF BehindStars
      <4> QED
        BY <2>1, <4>2
    <3> QED
      BY <3>1
  <2>5. f \in Injection(1..n, stars)
    BY <2>3, <2>4 DEF Injection, IsInjective
  <2>6. IsFiniteSet(stars)
    <3>1. IsFiniteSet(1..Len(pattern))
      BY <2>1, FS_Interval
    <3>2. stars \in SUBSET (1..Len(pattern))
      OBVIOUS
    <3> QED
      BY <3>1, <3>2, FS_Subset
  <2>7. Cardinality(1..n) = n
    <3>0. 1 \in Int /\ n \in Int
      BY <2>1
    <3> HIDE DEF n
    <3>1. Cardinality(1..n) = IF 1 > n THEN 0 ELSE n - 1 + 1
      BY <3>0, FS_Interval, Zenon
    <3> QED
      BY <2>1, <3>1
  <2>8. Cardinality(1..n) <= Cardinality(stars)
    BY <2>5, <2>6, FS_Injection
  <2> QED
    BY <2>7, <2>8 DEF RecursionBounded
<1> QED
  BY <1>1, <1>2, BehindStarsStep, PointersInBounds, PTL DEF FnmatchSpec
=============================================================================
