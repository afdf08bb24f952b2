SPECIFICATION CoreSpec
CONSTANTS
  ThreadCount = 2
  Conns = {c1, c2}
  Fds = {f1, f2}
  Listen = listen
  None = none
  Returns = {"suspend", "send", "disconnect"}
  IdleReturns = {"suspend"}
  Admits = {"suspend"}
  EndWaitExpires = FALSE
  WaitErrors = FALSE
  ListenErrs = FALSE
  c1 = c1  c2 = c2  c3 = c3  f1 = f1  f2 = f2  listen = listen  none = none
SYMMETRY Sym
INVARIANTS IInv SoleOwner InUseIsRegistered TableMatchesKernel ClosesItsOwn
PROPERTY ConnectionsLive
