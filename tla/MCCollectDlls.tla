---------------------------- MODULE MCCollectDlls ----------------------------
(* guacd and a plugin, for which Windows looks in the bundle first, with two *)
(* DLLs that need each other and one that ldd names but that is no file; a   *)
(* second plugin, for which it does not, with a DLL that needs another one.  *)
EXTENDS CollectDlls

CONSTANTS exe, rdp, vnc, dllA, dllB, dllC, gone, extra

AllPlugins == {rdp, vnc}
AllDlls    == {dllA, dllB, dllC, gone, extra}
FilesHere  == {dllA, dllB, dllC, extra}
Beside     == {exe, rdp}

LddOutput ==
  [f \in {exe, rdp, vnc} \cup AllDlls |->
    CASE f = exe   -> <<dllA, dllB>>
      [] f = rdp   -> <<dllA, dllB, gone>>
      [] f = vnc   -> <<extra>>
      [] f = dllA  -> <<dllB>>
      [] f = dllB  -> <<dllA>>
      [] f = extra -> <<dllC>>
      [] OTHER     -> <<>>]

(* Any of the DLLs, in the order of sort.                                    *)
Sorted(S) == SelectSeq(<<dllA, dllB, dllC, extra, gone>>, LAMBDA d : d \in S)
Printed   == {Sorted(S) : S \in SUBSET AllDlls}
=============================================================================
