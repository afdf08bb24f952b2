SPECIFICATION ApiSpec
CONSTANTS
  ThreadCount = 1
  Conns = {c1, c2, c3}
  Fds = {f1}
  Listen = listen
  None = none
  Returns = {"suspend", "send", "run", "reconnected", "disconnect"}
  IdleReturns = {"suspend"}
  Admits = {"suspend", "send", "disconnect"}
  EndWaitExpires = FALSE
  WaitErrors = TRUE
  ListenErrs = TRUE
  c1 = c1  c2 = c2  c3 = c3  f1 = f1  f2 = f2  listen = listen  none = none
SYMMETRY Sym
INVARIANTS NoDoubleFree TableIsLive
