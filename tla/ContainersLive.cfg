SPECIFICATION FairSpec
CONSTANTS
  Nil = Nil
  Procs = {p1, p2}
  Ids = {c1}
  Names = {n1}
  ExitCodes = {0}
  Env = {"refuse", "cancel", "monitor", "stream", "crash"}
  MaxEnv = 2
INVARIANTS NoOrphanResources ExitPending
PROPERTIES LifecycleSpec RequestsReturn KillObserved ExitObserved
