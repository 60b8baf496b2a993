SPECIFICATION Spec
CONSTANTS
  exe = exe
  rdp = rdp
  vnc = vnc
  dllA = dllA
  dllB = dllB
  dllC = dllC
  gone = gone
  extra = extra
  Exe = exe
  Plugins <- AllPlugins
  Dlls <- AllDlls
  Ldd <- LddOutput
  OnDisk <- FilesHere
  BundleFirst <- Beside
  Listings <- Printed
INVARIANTS
  BundleCurrent
