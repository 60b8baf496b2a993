----------------------------- MODULE CollectDlls -----------------------------
(***************************************************************************)
(* collect-dlls.sh: guacd.exe, the protocol plugins and every DLL of the   *)
(* MinGW bin directory they need, directly or through other DLLs, are      *)
(* copied into a bundle directory.                                         *)
(*                                                                         *)
(* The script runs with set -e and can be interrupted anywhere, in the     *)
(* middle of a cp as well; it is then run again on the same directory.     *)
(* Between two runs guacd may be built again and the package manager may   *)
(* upgrade DLLs.  Files are known by the name they have in the bundle.     *)
(*                                                                         *)
(* The function collect_dlls lets Windows load a file and prints the DLLs  *)
(* that were loaded from the MinGW bin directory.  The binaries it is      *)
(* given lie in the bundle, and for some Windows looks for DLLs there      *)
(* first: for guacd.exe, whose directory it is.  What is printed for these *)
(* depends on the bundle.  The license files are left out.                 *)
(***************************************************************************)
EXTENDS Sequences, Functions

CONSTANTS
  Exe,       \* guacd.exe
  Plugins,   \* protocol plugins
  Dlls,      \* DLLs of the MinGW bin directory
  Ldd,       \* what collect_dlls prints for a file, with no DLL in the bundle
  OnDisk,    \* DLLs whose path, as ldd prints it, is that of a file
  BundleFirst, \* the binaries for which Windows looks in the bundle first
  Listings   \* what collect_dlls may print if the bundle has other DLLs

Bins == {Exe} \cup Plugins
Files == Bins \cup Dlls

ASSUME CollectAssumption ==
  /\ Ldd \in [Files -> Seq(Dlls)]
  /\ OnDisk \subseteq Dlls
  /\ Bins \cap Dlls = {} /\ Exe \notin Plugins
  /\ BundleFirst \subseteq Bins

(* With a binary Windows loads all that its DLLs need.                       *)
ASSUME LddAssumption ==
  \A b \in BundleFirst : \A d \in Range(Ldd[b]) : Range(Ldd[d]) \subseteq Range(Ldd[b])

ASSUME ListingsAssumption ==
  /\ Listings \subseteq Seq(Dlls)
  /\ \A b \in BundleFirst : \A S \in SUBSET Range(Ldd[b]) :
       \E printed \in Listings : Range(printed) = S

VARIABLES
  pc,        \* where the script is
  built,     \* what the build has produced
  todo,      \* binaries still to be copied, then to be searched
  pending,   \* the array pending
  visited,   \* the keys of visited
  dll,       \* the DLL at hand
  lines,     \* what collect_dlls printed for it and is not yet read
  bundle     \* the files of the bundle directory

vars == <<pc, built, todo, pending, visited, dll, lines, bundle>>
loopVars == <<built, todo>>

Running == {"exe", "plugins", "seed", "search", "copy", "recurse"}

TypeOK ==
  /\ pc \in Running \cup {"done", "failed"}
  /\ built \subseteq Bins
  /\ todo \subseteq Bins
  /\ pending \in Seq(Dlls)
  /\ visited \subseteq Dlls
  /\ dll \in Dlls \cup {Exe}
  /\ lines \in Seq(Dlls)
  /\ bundle \in [Files -> {"none", "partial", "old", "current"}]

Init ==
  /\ pc = "failed"
  /\ built = {} /\ todo = {}
  /\ pending = <<>> /\ visited = {} /\ dll = Exe /\ lines = <<>>
  /\ bundle = [f \in Files |-> "none"]

Put(f) == bundle' = [bundle EXCEPT ![f] = "current"]

-----------------------------------------------------------------------------
(* The build or an upgrade makes copies of files old; the script is started. *)
Run ==
  /\ pc \in {"done", "failed"}
  /\ pc' = "exe"
  /\ built' \in SUBSET Bins
  /\ \E upgraded \in SUBSET {f \in Files : bundle[f] = "current"} :
       bundle' = [f \in Files |-> IF f \in upgraded THEN "old" ELSE bundle[f]]
  /\ todo' = {} /\ pending' = <<>> /\ visited' = {} /\ dll' = Exe /\ lines' = <<>>

(* The shell exits, and its variables are gone.                              *)
Exit ==
  /\ pc' = "failed"
  /\ todo' = {} /\ pending' = <<>> /\ visited' = {} /\ dll' = Exe /\ lines' = <<>>
  /\ UNCHANGED built

NoExe == pc = "exe" /\ Exe \notin built /\ Exit /\ UNCHANGED bundle

CopyExe ==
  /\ pc = "exe" /\ Exe \in built
  /\ pc' = "plugins" /\ todo' = built \ {Exe}
  /\ Put(Exe)
  /\ UNCHANGED <<built, pending, visited, dll, lines>>

(* Mutant: a plugin that is in the bundle is not copied again, as for DLLs.  *)
CopyPluginOnce(p) ==
  /\ pc = "plugins" /\ p \in todo
  /\ todo' = todo \ {p}
  /\ IF bundle[p] = "none" THEN Put(p) ELSE UNCHANGED bundle
  /\ UNCHANGED <<pc, built, pending, visited, dll, lines>>

CopyPlugin(p) ==
  /\ pc = "plugins" /\ p \in todo
  /\ todo' = todo \ {p}
  /\ Put(p)
  /\ UNCHANGED <<pc, built, pending, visited, dll, lines>>

NoPlugin ==
  pc = "plugins" /\ built \cap Plugins = {} /\ Exit /\ UNCHANGED bundle

(* Mutant: what is searched is every binary that is in the bundle.           *)
PluginsGlobbed ==
  /\ pc = "plugins" /\ todo = {} /\ built \cap Plugins # {}
  /\ pc' = "seed" /\ todo' = {b \in Bins : bundle[b] # "none"}
  /\ UNCHANGED <<built, pending, visited, dll, lines, bundle>>

PluginsCopied ==
  /\ pc = "plugins" /\ todo = {} /\ built \cap Plugins # {}
  /\ pc' = "seed" /\ todo' = built
  /\ UNCHANGED <<built, pending, visited, dll, lines, bundle>>

(* Of the DLLs that b needs, one in the bundle is not complete, or not of    *)
(* this build.                                                               *)
Finds(b, state) == \E d \in Range(Ldd[b]) : bundle[d] = state

(* What collect_dlls prints for a binary.  DLLs that are found in the bundle *)
(* are dropped (line 40).  One that is not complete cannot be loaded: the    *)
(* list ends, and the error is not seen (2>/dev/null, and the status of the  *)
(* pipeline is that of a process substitution).  An old one may need others. *)
Prints(b, printed) ==
  IF b \notin BundleFirst THEN printed = Ldd[b]
  ELSE /\ \A d \in Range(printed) : bundle[d] = "none"
       /\ ~Finds(b, "old") => Range(printed) \subseteq Range(Ldd[b])
       /\ ~Finds(b, "old") /\ ~Finds(b, "partial") =>
            \A d \in Range(Ldd[b]) : d \in Range(printed) \/ bundle[d] # "none"

Seed(b) ==
  /\ pc = "seed" /\ b \in todo
  /\ todo' = todo \ {b}
  /\ \E printed \in Listings \cup {Ldd[b]} :
       Prints(b, printed) /\ pending' = pending \o printed
  /\ UNCHANGED <<pc, built, visited, dll, lines, bundle>>

Seeded ==
  /\ pc = "seed" /\ todo = {}
  /\ pc' = "search"
  /\ UNCHANGED <<loopVars, pending, visited, dll, lines, bundle>>

-----------------------------------------------------------------------------
(* The search.  A DLL that was visited is skipped ...                        *)
Skip ==
  /\ pc = "search" /\ pending # <<>>
  /\ Head(pending) \in visited
  /\ pending' = Tail(pending)
  /\ UNCHANGED <<loopVars, pc, visited, dll, lines, bundle>>

(* Mutant: the visited keys are not recorded.                                *)
MarkNot(d) == visited

Mark(d) == visited \cup {d}

(* Mutant: a DLL that the bundle has is passed over, dependencies and all.    *)
PassOver(d) == IF bundle[d] = "none" THEN "copy" ELSE "search"

AfterMark(d) == IF bundle[d] = "none" THEN "copy" ELSE "recurse"

(* ... and any other is marked, copied if the bundle has no file of that     *)
(* name, and searched for more.                                              *)
Visit ==
  /\ pc = "search" /\ pending # <<>>
  /\ Head(pending) \notin visited
  /\ visited' = Mark(Head(pending))
  /\ pending' = Tail(pending)
  /\ IF Head(pending) \in OnDisk
     THEN /\ dll' = Head(pending)
          /\ lines' = Ldd[Head(pending)]
          /\ pc' = AfterMark(Head(pending))
     ELSE UNCHANGED <<pc, dll, lines>>
  /\ UNCHANGED <<loopVars, bundle>>

CopyDll ==
  /\ pc = "copy"
  /\ pc' = "recurse"
  /\ Put(dll)
  /\ UNCHANGED <<loopVars, pending, visited, dll, lines>>

Recurse ==
  /\ pc = "recurse" /\ lines # <<>>
  /\ lines' = Tail(lines)
  /\ pending' = IF Head(lines) \in visited THEN pending
                ELSE Append(pending, Head(lines))
  /\ UNCHANGED <<loopVars, pc, visited, dll, bundle>>

Recursed ==
  /\ pc = "recurse" /\ lines = <<>>
  /\ pc' = "search"
  /\ UNCHANGED <<loopVars, pending, visited, dll, lines, bundle>>

Done ==
  /\ pc = "search" /\ pending = <<>>
  /\ pc' = "done"
  /\ UNCHANGED <<loopVars, pending, visited, dll, lines, bundle>>

(* The script is interrupted, or a cp fails: the file being written, if any, *)
(* is left as it is.                                                         *)
BeingWritten ==
  {f \in Files : \/ pc = "exe" /\ f = Exe
                 \/ pc = "plugins" /\ f \in todo
                 \/ pc = "copy" /\ f = dll}

Interrupt ==
  /\ pc \in Running /\ Exit
  /\ \/ UNCHANGED bundle
     \/ \E f \in BeingWritten : bundle' = [bundle EXCEPT ![f] = "partial"]

-----------------------------------------------------------------------------
Step ==
  \/ NoExe \/ CopyExe \/ NoPlugin \/ PluginsCopied \/ Seeded
  \/ \E b \in Bins : CopyPlugin(b) \/ Seed(b)
  \/ Skip \/ Visit \/ CopyDll \/ Recurse \/ Recursed \/ Done

Next == Run \/ Step \/ Interrupt

(* A script that was started goes on; nobody need run it again.              *)
Spec == Init /\ [][Next]_vars /\ WF_vars(Step)

-----------------------------------------------------------------------------
(* A set of DLLs with which every binary of the build and every DLL of the   *)
(* set finds all it needs; the least one is what has to be in the bundle.    *)
Sufficient(S) ==
  /\ \A b \in built : Range(Ldd[b]) \subseteq S
  /\ \A d \in S \cap OnDisk : Range(Ldd[d]) \subseteq S

Needed ==
  {d \in Dlls : \A S \in SUBSET Dlls : Sufficient(S) => d \in S}

(* No binary is searched with DLLs of an earlier build in the way, ...       *)
NoneOld == \A b \in built \cap BundleFirst : ~Finds(b, "old")

(* ... or with the remains of an interrupted cp.                             *)
NoneBroken == \A b \in built \cap BundleFirst : ~Finds(b, "partial")

(* After a run that succeeds, every DLL guacd or a plugin needs has a file   *)
(* in the bundle, whatever part of them earlier runs had copied when they    *)
(* were interrupted: what is found in the bundle is not printed, but hides   *)
(* nothing else.  Only a copy that is not complete or not of this build, and *)
(* that Windows finds first, can hide others.                                *)
BundleComplete ==
  pc = "done" /\ NoneOld /\ NoneBroken =>
    \A d \in Needed \cap OnDisk : bundle[d] # "none"

(* Nothing is copied but what is needed by what was built, unless an old DLL *)
(* of the bundle needs it.                                                   *)
NothingElse ==
  /\ TypeOK
  /\ NoneOld => visited \subseteq Needed /\ (pc = "copy" => dll \in Needed)

(* The binaries of the bundle are those of the last build, whatever was in   *)
(* the bundle before.                                                        *)
BinsCurrent ==
  pc = "done" => \A b \in built : bundle[b] = "current"

(* The search ends although DLLs need each other.                            *)
Ends == pc \in Running ~> pc \in {"done", "failed"}

(* collect-dlls.sh: "Copies guacd.exe and all required runtime DLLs into a   *)
(* self-contained bundle directory."                                         *)
BundleCurrent ==
  pc = "done" => \A f \in built \cup (Needed \cap OnDisk) : bundle[f] = "current"
=============================================================================
