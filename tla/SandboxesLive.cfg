SPECIFICATION FairSpec
CONSTANTS
  Nil = Nil
  Procs = {p1, p2}
  Ids = {s1}
  Names = {n1}
  Ctrs = {c1}
  Readers = {}
  Configs <- HostOnly
  Env = {"refuse", "cancel", "stream", "sandbox", "crash"}
  MaxEnv = 1
INVARIANT NoOrphanResources
PROPERTIES StopMeansDown RequestsReturn
