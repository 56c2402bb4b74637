CONSTANTS
  a = a
  b = b
  l1 = l1
  l2 = l2
  NoFd = NoFd
  Fds <- MCFds
  Sockets <- MCSockets
  Loops <- MCLoops
SPECIFICATION Spec
INVARIANTS OneOwner LoopsEndWithTheirOpen
PROPERTIES LostOnlyByOverwrite StopIsSeen
