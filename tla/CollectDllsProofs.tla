-------------------------- MODULE CollectDllsProofs --------------------------
(* Theorems about CollectDlls, for any binaries and any dependencies, those  *)
(* that form cycles included.                                                *)
EXTENDS CollectDlls, SequenceTheorems, TLAPS

-----------------------------------------------------------------------------
(* Sequences as sets.                                                        *)
LEMMA RangeOfOne ==
  ASSUME NEW S, NEW e \in S
  PROVE  <<e>> \in Seq(S) /\ Range(<<e>>) = {e}
<1>1. <<e>> \in Seq(S) /\ Len(<<e>>) = 1 /\ <<e>>[1] = e
  OBVIOUS
<1>2. Range(<<e>>) = {<<e>>[i] : i \in 1 .. 1}
  BY <1>1, RangeEquality
<1> QED
  BY <1>1, <1>2

LEMMA RangeOfHeadTail ==
  ASSUME NEW S, NEW s \in Seq(S), s # <<>>
  PROVE  /\ Head(s) \in S /\ Tail(s) \in Seq(S)
         /\ Range(s) = {Head(s)} \cup Range(Tail(s))
<1>1. Head(s) \in S /\ Tail(s) \in Seq(S) /\ s = <<Head(s)>> \o Tail(s)
  OBVIOUS
<1>2. <<Head(s)>> \in Seq(S) /\ Range(<<Head(s)>>) = {Head(s)}
  BY <1>1, RangeOfOne
<1>3. Range(<<Head(s)>> \o Tail(s)) = Range(<<Head(s)>>) \cup Range(Tail(s))
  BY <1>1, <1>2, RangeConcatenation
<1> QED
  BY <1>1, <1>2, <1>3

LEMMA RangeOfAppend ==
  ASSUME NEW S, NEW s \in Seq(S), NEW e \in S
  PROVE  /\ Append(s, e) \in Seq(S)
         /\ Range(Append(s, e)) = Range(s) \cup {e}
<1>1. Append(s, e) = s \o <<e>> /\ Append(s, e) \in Seq(S)
  OBVIOUS
<1>2. <<e>> \in Seq(S) /\ Range(<<e>>) = {e}
  BY RangeOfOne
<1>3. Range(s \o <<e>>) = Range(s) \cup Range(<<e>>)
  BY <1>2, RangeConcatenation
<1> QED
  BY <1>1, <1>2, <1>3

LEMMA RangeOfEmpty == Range(<<>>) = {}
BY DEF Range

-----------------------------------------------------------------------------
(* What is needed is sufficient, and no more than what is sufficient.        *)
LEMMA NeededIsSufficient == TypeOK => Sufficient(Needed)
<1> SUFFICES ASSUME TypeOK PROVE Sufficient(Needed)
  OBVIOUS
<1> USE CollectAssumption DEF TypeOK, Files, Bins
<1>1. ASSUME NEW b \in built PROVE Range(Ldd[b]) \subseteq Needed
  <2>1. Range(Ldd[b]) \subseteq Dlls
    BY RangeOfSeq
  <2> QED
    BY <2>1 DEF Needed, Sufficient
<1>2. ASSUME NEW d \in Needed \cap OnDisk PROVE Range(Ldd[d]) \subseteq Needed
  <2>1. d \in Dlls /\ Range(Ldd[d]) \subseteq Dlls
    BY RangeOfSeq
  <2> QED
    BY <2>1 DEF Needed, Sufficient
<1> QED
  BY <1>1, <1>2 DEF Sufficient

LEMMA NeededIsLeast ==
  ASSUME NEW S \in SUBSET Dlls, Sufficient(S)
  PROVE  Needed \subseteq S
BY DEF Needed

LEMMA NeededKept == UNCHANGED built => Needed' = Needed
BY DEF Needed, Sufficient

-----------------------------------------------------------------------------
(* Everything known to the search is needed, if ldd was not misled ...       *)
SoundInv ==
  /\ todo \subseteq built
  /\ NoneOld => visited \cup Range(pending) \cup Range(lines) \subseteq Needed
  /\ pc \in {"copy", "recurse"} => dll \in visited \cap OnDisk

(* ... and everything needed by what was searched is known, or was in the    *)
(* bundle when ldd was asked.                                                *)
Known == visited \cup Range(pending)
InBundle == {d \in Dlls : bundle[d] # "none"}

CompleteInv ==
  /\ pc \in {"failed", "exe", "plugins"} => visited = {} /\ pending = <<>>
  /\ pc \notin {"copy", "recurse"} => lines = <<>>
  /\ pc = "done" => pending = <<>>
  /\ pc \in {"seed", "search", "copy", "recurse", "done"} =>
       /\ \A b \in built \ BundleFirst :
            Range(Ldd[b]) \subseteq Known \/ (pc = "seed" /\ b \in todo)
       /\ NoneOld /\ NoneBroken => \A b \in built \cap BundleFirst :
            Range(Ldd[b]) \subseteq Known \cup InBundle \/ (pc = "seed" /\ b \in todo)
  /\ \A d \in visited \cap OnDisk :
       Range(Ldd[d]) \subseteq Known \cup (IF d = dll THEN Range(lines) ELSE {})

(* The file of a visited DLL is there, and none is written twice.            *)
FilesInv ==
  /\ \A d \in visited \cap OnDisk : bundle[d] # "none" \/ (pc = "copy" /\ d = dll)
  /\ pc = "copy" => bundle[dll] = "none"

(* A step that leaves the DLLs of the bundle alone, or adds one, leaves what *)
(* is in the way of ldd as it is.                                            *)
LEMMA LeftoversKept ==
  ASSUME TypeOK, built' = built,
         \A d \in Dlls : bundle'[d] = bundle[d] \/ (bundle[d] = "none" /\ bundle'[d] = "current")
  PROVE  /\ NoneOld' <=> NoneOld
         /\ NoneBroken' <=> NoneBroken
         /\ InBundle \subseteq InBundle'
<1>1. \A b \in built : \A d \in Range(Ldd[b]) : d \in Dlls
  BY CollectAssumption, RangeOfSeq DEF TypeOK, Files, Bins
<1> QED
  BY <1>1 DEF NoneOld, NoneBroken, Finds, InBundle

LEMMA LeftoversSame ==
  ASSUME UNCHANGED <<built, bundle>>
  PROVE  /\ NoneOld' <=> NoneOld
         /\ NoneBroken' <=> NoneBroken
         /\ InBundle' = InBundle
BY DEF NoneOld, NoneBroken, Finds, InBundle

Inv == TypeOK /\ SoundInv /\ CompleteInv /\ FilesInv

LEMMA InitInv == Init => Inv
<1> SUFFICES ASSUME Init PROVE Inv
  OBVIOUS
<1>1. TypeOK
  <2>1. bundle \in [Files -> {"none", "partial", "old", "current"}]
    BY DEF Init
  <2>2. <<>> \in Seq(Dlls)
    OBVIOUS
  <2> QED
    BY <2>1, <2>2 DEF Init, TypeOK
<1>2. SoundInv /\ CompleteInv /\ FilesInv
  BY RangeOfEmpty DEF Init, SoundInv, CompleteInv, FilesInv
<1> QED
  BY <1>1, <1>2 DEF Inv

(* Starting, exiting and copying the binaries.                               *)
LEMMA StartInv ==
  ASSUME Inv,
         Run \/ NoExe \/ CopyExe \/ (\E b \in Bins : CopyPlugin(b)) \/ NoPlugin
           \/ PluginsCopied \/ Interrupt
  PROVE  Inv'
<1>0. ASSUME CopyExe \/ (\E b \in Bins : CopyPlugin(b)) \/ PluginsCopied
      PROVE  NoneOld' <=> NoneOld
  <2>1. \A d \in Dlls : bundle'[d] = bundle[d]
    BY <1>0, CollectAssumption DEF CopyExe, CopyPlugin, PluginsCopied, Put, Inv, TypeOK, Files, Bins
  <2>2. built' = built
    BY <1>0 DEF CopyExe, CopyPlugin, PluginsCopied
  <2> QED
    BY <2>1, <2>2, LeftoversKept DEF Inv
<1> USE CollectAssumption, RangeOfEmpty
    DEF Inv, TypeOK, SoundInv, CompleteInv, FilesInv, Known, Running, Files, Bins
<1>1. CASE Run
  BY <1>1 DEF Run
<1>2. CASE NoExe \/ NoPlugin
  BY <1>2 DEF NoExe, NoPlugin, Exit
<1>3. CASE CopyExe
  BY <1>0, <1>3, NeededKept DEF CopyExe, Put
<1>4. CASE \E b \in Bins : CopyPlugin(b)
  BY <1>0, <1>4, NeededKept DEF CopyPlugin, Put
<1>5. CASE PluginsCopied
  BY <1>0, <1>5, NeededKept DEF PluginsCopied
<1>6. CASE Interrupt
  <2>1. bundle' \in [Files -> {"none", "partial", "old", "current"}]
    BY <1>6 DEF Interrupt, BeingWritten
  <2> QED
    BY <1>6, <2>1 DEF Interrupt, Exit
<1> QED
  BY <1>1, <1>2, <1>3, <1>4, <1>5, <1>6

(* The search: what leaves pending is visited, and what a visited DLL needs  *)
(* is still in lines or known.                                               *)
LEMMA SeedInv ==
  ASSUME Inv, (\E b \in Bins : Seed(b)) \/ Seeded \/ Done
  PROVE  Inv'
<1> USE CollectAssumption DEF Inv
<1>1. ASSUME NEW b \in Bins, Seed(b) PROVE Inv'
  <2>1. PICK printed \in Listings \cup {Ldd[b]} :
          Prints(b, printed) /\ pending' = pending \o printed
    BY <1>1 DEF Seed
  <2>2. Ldd[b] \in Seq(Dlls) /\ printed \in Seq(Dlls) /\ b \in built
    BY <1>1, <2>1, ListingsAssumption DEF Seed, Files, SoundInv
  <2>3. pending' \in Seq(Dlls) /\ Range(pending') = Range(pending) \cup Range(printed)
    BY <2>1, <2>2, RangeConcatenation, ConcatProperties DEF TypeOK
  <2>4. NoneOld => Range(printed) \subseteq Needed
    <3>1. Range(Ldd[b]) \subseteq Needed
      BY <2>2, NeededIsSufficient DEF Sufficient
    <3> QED
      BY <2>1, <2>2, <3>1 DEF Prints, NoneOld
  <2>5. /\ b \notin BundleFirst => Range(printed) = Range(Ldd[b])
        /\ b \in BundleFirst /\ NoneOld /\ NoneBroken =>
             Range(Ldd[b]) \subseteq Range(printed) \cup InBundle
    <3>1. Range(Ldd[b]) \subseteq Dlls
      BY <2>2, RangeOfSeq
    <3> QED
      BY <2>1, <2>2, <3>1 DEF Prints, NoneOld, NoneBroken, InBundle
  <2>6. UNCHANGED <<built, bundle, pc, visited, lines, dll>> /\ pc = "seed" /\ todo' = todo \ {b}
    BY <1>1 DEF Seed
  <2>7. TypeOK'
    BY <2>3, <2>6 DEF TypeOK
  <2>8. SoundInv'
    BY <2>3, <2>4, <2>6, NeededKept, LeftoversSame DEF SoundInv
  <2>9. CompleteInv'
    <3>1. Range(pending) \subseteq Range(pending')
      BY <2>3
    <3>2. /\ \A c \in built \ BundleFirst :
               Range(Ldd[c]) \subseteq Known' \/ c \in todo'
          /\ NoneOld /\ NoneBroken => \A c \in built \cap BundleFirst :
               Range(Ldd[c]) \subseteq Known' \cup InBundle \/ c \in todo'
      BY <2>3, <2>5, <2>6 DEF CompleteInv, Known
    <3> QED
      BY <2>6, <3>1, <3>2, LeftoversSame DEF CompleteInv, Known
  <2>10. FilesInv'
    BY <2>6 DEF FilesInv
  <2> QED
    BY <2>7, <2>8, <2>9, <2>10
<1>2. CASE Seeded \/ Done
  <2>1. TypeOK'
    BY <1>2 DEF Seeded, Done, loopVars, TypeOK, Running
  <2>2. SoundInv'
    BY <1>2, NeededKept, LeftoversSame DEF Seeded, Done, loopVars, SoundInv
  <2>3. CompleteInv'
    BY <1>2, LeftoversSame DEF Seeded, Done, loopVars, CompleteInv, Known
  <2>4. FilesInv'
    BY <1>2 DEF Seeded, Done, loopVars, FilesInv
  <2> QED
    BY <2>1, <2>2, <2>3, <2>4
<1> QED
  BY <1>1, <1>2

LEMMA SearchInv ==
  ASSUME Inv, Skip \/ Visit \/ CopyDll \/ Recurse \/ Recursed
  PROVE  Inv'
<1> USE CollectAssumption, RangeOfEmpty DEF Inv
<1>1. CASE Skip
  <2>1. /\ Tail(pending) \in Seq(Dlls)
        /\ Range(pending) = {Head(pending)} \cup Range(Tail(pending))
    BY <1>1, RangeOfHeadTail DEF Skip, loopVars, TypeOK
  <2>2. TypeOK'
    BY <1>1, <2>1 DEF Skip, loopVars, TypeOK, Running
  <2>3. SoundInv'
    BY <1>1, <2>1, NeededKept, LeftoversSame DEF Skip, loopVars, SoundInv
  <2>4. CompleteInv'
    BY <1>1, <2>1, LeftoversSame DEF Skip, loopVars, CompleteInv, Known
  <2>5. FilesInv'
    BY <1>1, <2>1 DEF Skip, loopVars, FilesInv
  <2> QED
    BY <2>2, <2>3, <2>4, <2>5
<1>2. CASE Visit
  <2>1. PICK d \in Dlls, rest \in Seq(Dlls) :
          /\ d = Head(pending) /\ rest = Tail(pending)
          /\ Range(pending) = {d} \cup Range(rest)
    <3>1. pending \in Seq(Dlls) /\ pending # <<>>
      BY <1>2 DEF Visit, TypeOK
    <3>2. /\ Head(pending) \in Dlls /\ Tail(pending) \in Seq(Dlls)
          /\ Range(pending) = {Head(pending)} \cup Range(Tail(pending))
      BY <3>1, RangeOfHeadTail
    <3> QED
      BY <3>2
  <2>2. (NoneOld => d \in Needed) /\ lines = <<>> /\ d \notin visited
    BY <1>2, <2>1 DEF Visit, SoundInv, CompleteInv
  <2>3. visited' = visited \cup {d} /\ pending' = rest
    BY <1>2, <2>1 DEF Visit, Mark
  <2>4. CASE d \in OnDisk
    <3>1. Ldd[d] \in Seq(Dlls) /\ (NoneOld => Range(Ldd[d]) \subseteq Needed)
      BY <2>1, <2>2, <2>4, NeededIsSufficient DEF Files, Sufficient
    <3>2. /\ dll' = d /\ lines' = Ldd[d]
          /\ pc' = IF bundle[d] = "none" THEN "copy" ELSE "recurse"
          /\ pc = "search" /\ UNCHANGED <<loopVars, bundle>>
      BY <1>2, <2>1, <2>4 DEF Visit, AfterMark
    <3>3. TypeOK'
      BY <2>1, <2>2, <2>3, <2>4, <3>1, <3>2 DEF loopVars, TypeOK, Running
    <3>4. SoundInv'
      BY <2>1, <2>2, <2>3, <2>4, <3>1, <3>2, NeededKept, LeftoversSame DEF loopVars, SoundInv
    <3>5. CompleteInv'
      BY <2>1, <2>2, <2>3, <2>4, <3>1, <3>2, LeftoversSame DEF loopVars, CompleteInv, Known
    <3>6. FilesInv'
      BY <2>1, <2>2, <2>3, <2>4, <3>1, <3>2 DEF loopVars, FilesInv
    <3> QED
      BY <3>3, <3>4, <3>5, <3>6
  <2>5. CASE d \notin OnDisk
    <3>1. pc = "search" /\ UNCHANGED <<loopVars, pc, dll, lines, bundle>>
      BY <1>2, <2>1, <2>5 DEF Visit
    <3>2. TypeOK'
      BY <2>1, <2>2, <2>3, <2>5, <3>1 DEF loopVars, TypeOK, Running
    <3>3. SoundInv'
      BY <2>1, <2>2, <2>3, <2>5, <3>1, NeededKept, LeftoversSame DEF loopVars, SoundInv
    <3>4. CompleteInv'
      BY <2>1, <2>2, <2>3, <2>5, <3>1, LeftoversSame DEF loopVars, CompleteInv, Known
    <3>5. FilesInv'
      BY <2>1, <2>2, <2>3, <2>5, <3>1 DEF loopVars, FilesInv
    <3> QED
      BY <3>2, <3>3, <3>4, <3>5
  <2> QED
    BY <2>4, <2>5
<1>3. CASE CopyDll
  <2>0. /\ NoneOld' <=> NoneOld
        /\ NoneBroken' <=> NoneBroken
        /\ InBundle \subseteq InBundle'
    BY <1>3, LeftoversKept DEF CopyDll, Put, loopVars, Files, TypeOK, FilesInv
  <2>1. TypeOK'
    BY <1>3 DEF CopyDll, Put, loopVars, Files, TypeOK, Running
  <2>2. SoundInv'
    BY <1>3, <2>0, NeededKept DEF CopyDll, loopVars, SoundInv
  <2>3. CompleteInv'
    BY <1>3, <2>0 DEF CopyDll, loopVars, CompleteInv, Known
  <2>4. FilesInv'
    BY <1>3 DEF CopyDll, Put, loopVars, Files, FilesInv, TypeOK, SoundInv
  <2> QED
    BY <2>1, <2>2, <2>3, <2>4
<1>4. CASE Recurse
  <2>1. PICK d \in Dlls, rest \in Seq(Dlls) :
          /\ d = Head(lines) /\ rest = Tail(lines)
          /\ Range(lines) = {d} \cup Range(rest)
    <3>1. lines \in Seq(Dlls) /\ lines # <<>>
      BY <1>4 DEF Recurse, TypeOK
    <3>2. /\ Head(lines) \in Dlls /\ Tail(lines) \in Seq(Dlls)
          /\ Range(lines) = {Head(lines)} \cup Range(Tail(lines))
      BY <3>1, RangeOfHeadTail
    <3> QED
      BY <3>2
  <2>2. pending' \in Seq(Dlls) /\ Range(pending') \subseteq Range(pending) \cup {d}
        /\ Range(pending) \subseteq Range(pending')
        /\ (d \in visited \/ d \in Range(pending')) /\ lines' = rest
    BY <1>4, <2>1, RangeOfAppend DEF Recurse, TypeOK
  <2>3. pc = "recurse" /\ UNCHANGED <<loopVars, pc, visited, dll, bundle>>
    BY <1>4 DEF Recurse
  <2>4. TypeOK'
    BY <2>1, <2>2, <2>3 DEF loopVars, TypeOK, Running
  <2>5. SoundInv'
    BY <2>1, <2>2, <2>3, NeededKept, LeftoversSame DEF loopVars, SoundInv
  <2>6. CompleteInv'
    BY <2>1, <2>2, <2>3, LeftoversSame DEF loopVars, CompleteInv, Known
  <2>7. FilesInv'
    BY <2>1, <2>2, <2>3 DEF loopVars, FilesInv
  <2> QED
    BY <2>4, <2>5, <2>6, <2>7
<1>5. CASE Recursed
  <2>1. TypeOK'
    BY <1>5 DEF Recursed, loopVars, TypeOK, Running
  <2>2. SoundInv'
    BY <1>5, NeededKept, LeftoversSame DEF Recursed, loopVars, SoundInv
  <2>3. CompleteInv'
    BY <1>5, LeftoversSame DEF Recursed, loopVars, CompleteInv, Known
  <2>4. FilesInv'
    BY <1>5 DEF Recursed, loopVars, FilesInv
  <2> QED
    BY <2>1, <2>2, <2>3, <2>4
<1> QED
  BY <1>1, <1>2, <1>3, <1>4, <1>5

LEMMA StutterInv == Inv /\ UNCHANGED vars => Inv'
BY NeededKept, LeftoversSame
   DEF Inv, TypeOK, SoundInv, CompleteInv, FilesInv, Known, vars

LEMMA NextInv == Inv /\ [Next]_vars => Inv'
BY StartInv, SeedInv, SearchInv, StutterInv DEF Next, Step

LEMMA AlwaysInv == Spec => []Inv
<1>1. Inv /\ [Next]_vars => Inv'
  BY NextInv
<1> QED
  BY InitInv, <1>1, PTL DEF Spec

-----------------------------------------------------------------------------
(* When the search is through, what it has visited, with all that the        *)
(* binaries need for which it may have been found in the bundle, is          *)
(* sufficient; so it has all that is needed.                                 *)
LEMMA AllFound ==
  ASSUME Inv, pc = "done", NoneOld, NoneBroken
  PROVE  Needed \cap OnDisk \subseteq InBundle
<1> DEFINE S == visited \cup UNION {Range(Ldd[b]) : b \in built \cap BundleFirst}
<1>1. \A b \in built : Ldd[b] \in Seq(Dlls) /\ Range(Ldd[b]) \subseteq Dlls
  BY CollectAssumption, RangeOfSeq DEF Inv, TypeOK, Files, Bins
<1>2. S \in SUBSET Dlls
  BY <1>1 DEF Inv, TypeOK
<1>3. /\ \A b \in built \ BundleFirst : Range(Ldd[b]) \subseteq visited
      /\ \A b \in built \cap BundleFirst : Range(Ldd[b]) \subseteq visited \cup InBundle
      /\ \A d \in visited \cap OnDisk : Range(Ldd[d]) \subseteq visited
  BY RangeOfEmpty DEF Inv, CompleteInv, Known
<1>4. Sufficient(S)
  <2>1. \A b \in built : Range(Ldd[b]) \subseteq S
    BY <1>3
  <2>2. ASSUME NEW d \in S \cap OnDisk PROVE Range(Ldd[d]) \subseteq S
    <3>1. CASE d \in visited
      BY <1>3, <3>1
    <3>2. CASE d \notin visited
      <4>1. PICK b \in built \cap BundleFirst : d \in Range(Ldd[b])
        BY <3>2
      <4>2. Range(Ldd[d]) \subseteq Range(Ldd[b])
        BY <4>1, LddAssumption
      <4> QED
        BY <4>1, <4>2
    <3> QED
      BY <3>1, <3>2
  <2> QED
    BY <2>1, <2>2 DEF Sufficient
<1>5. Needed \subseteq S
  BY <1>2, <1>4, NeededIsLeast
<1>6. visited \cap OnDisk \subseteq InBundle
  BY CollectAssumption DEF Inv, TypeOK, FilesInv, InBundle
<1> QED
  BY <1>3, <1>5, <1>6

(* The bundle of a run that succeeds lacks no DLL that guacd or a plugin     *)
(* needs, whatever runs were interrupted before it, as long as no remains of *)
(* a cp or of another build mislead ldd.                                     *)
THEOREM NothingMissing == Spec => []BundleComplete
<1>1. Inv => BundleComplete
  BY AllFound DEF BundleComplete, InBundle
<1> QED
  BY AlwaysInv, <1>1, PTL

(* The search visits and copies nothing that what was built does not need,   *)
(* unless ldd met an old DLL, and its data keep their types.                 *)
THEOREM NothingTooMuch == Spec => []NothingElse
<1>1. Inv => NothingElse
  BY DEF Inv, SoundInv, NothingElse
<1> QED
  BY AlwaysInv, <1>1, PTL

-----------------------------------------------------------------------------
(* Every binary of the build is copied anew before the search begins, and    *)
(* the search writes only DLLs.                                              *)
BinsInv ==
  /\ pc = "plugins" => \A b \in built \ todo : bundle[b] = "current"
  /\ pc \in {"seed", "search", "copy", "recurse", "done"} =>
       \A b \in built : bundle[b] = "current"

LEMMA BinsStep == Inv /\ BinsInv /\ [Next]_vars => BinsInv'
<1> SUFFICES ASSUME Inv, BinsInv, [Next]_vars PROVE BinsInv'
  OBVIOUS
<1>0. /\ built \subseteq Bins /\ bundle \in [Files -> {"none", "partial", "old", "current"}]
      /\ pc = "copy" => dll \in Dlls
  BY DEF Inv, TypeOK, SoundInv
<1> USE CollectAssumption DEF BinsInv, Files, Bins
<1>1. CASE Run \/ NoExe \/ NoPlugin \/ Interrupt
  BY <1>1 DEF Run, NoExe, NoPlugin, Interrupt, Exit
<1>2. CASE CopyExe
  BY <1>0, <1>2 DEF CopyExe, Put
<1>3. CASE \E b \in Bins : CopyPlugin(b)
  BY <1>0, <1>3 DEF CopyPlugin, Put
<1>4. CASE PluginsCopied
  BY <1>4 DEF PluginsCopied
<1>5. CASE (\E b \in Bins : Seed(b)) \/ Seeded \/ Done
  BY <1>5 DEF Seed, Seeded, Done, loopVars
<1>6. CASE CopyDll
  BY <1>0, <1>6 DEF CopyDll, Put, loopVars
<1>7. CASE Skip \/ Recurse \/ Recursed
  BY <1>7 DEF Skip, Recurse, Recursed, loopVars
<1>8. CASE Visit
  BY <1>8 DEF Visit, AfterMark, loopVars
<1>9. CASE UNCHANGED vars
  BY <1>9 DEF vars
<1> QED
  BY <1>1, <1>2, <1>3, <1>4, <1>5, <1>6, <1>7, <1>8, <1>9 DEF Next, Step

(* After a run of collect-dlls.sh that succeeds the binaries of the bundle   *)
(* are those of the build, whatever earlier runs left there.                 *)
THEOREM BinsRenewed == Spec => []BinsCurrent
<1>1. Init => BinsInv
  BY DEF Init, BinsInv
<1>2. BinsInv => BinsCurrent
  BY DEF BinsInv, BinsCurrent
<1> QED
  BY <1>1, <1>2, AlwaysInv, BinsStep, PTL DEF Spec
=============================================================================
