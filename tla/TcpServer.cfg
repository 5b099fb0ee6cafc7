SPECIFICATION FairSpec
CONSTANTS
  base = base
  io1 = io1
  io2 = io2
  c1 = c1
  c2 = c2
  f1 = f1
  f2 = f2
  u1 = u1
  Conns <- MCConns
  Fds <- MCFds
  Base = base
  Users <- MCUsers
  Deployments <- MCDeployments
INVARIANTS
  TypeOK
  NoAssertionFails
  RegisteredIsAlive
PROPERTIES
  ImplementsConnectionLife
  PeerCloseReleases
  WaitingIsAnswered
CHECK_DEADLOCK FALSE
