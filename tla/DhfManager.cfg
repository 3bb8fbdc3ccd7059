SPECIFICATION Spec
CONSTANTS
  Path = {p1, p2}
  Addr = {1, 2, 3, 4, 5}
  AddrMod = 8
  MaxPathDesc = 2
  HostFd = {0, 1, 2, 3}
  Inherited = {1}
INVARIANTS ReachesOwnFile NoSilentFdLeak BlocksAccounted ManagerInv
PROPERTIES OnlyOwnFdCloses
