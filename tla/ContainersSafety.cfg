SPECIFICATION Spec
CONSTANTS
  Nil = Nil
  Procs = {p1, p2}
  Ids = {c1, c2}
  Names = {n1}
  ExitCodes = {0}
  Env = {"refuse", "monitor", "stream", "oom", "exec", "sandbox", "crash"}
  MaxEnv = 1
SYMMETRY Symmetry
INVARIANTS TypeOK NamesHeld RemovalExclusive RunningHasResources NoOrphanResources ExitPending
PROPERTIES StopMeansStopped LifecycleSpec
