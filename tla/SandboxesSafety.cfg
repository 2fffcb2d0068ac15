SPECIFICATION Spec
CONSTANTS
  Nil = Nil
  Procs = {p1, p2}
  Ids = {s1, s2}
  Names = {n1}
  Ctrs = {c1}
  Readers = {p1, p2}
  Configs <- OwnOnly
  Env = {"refuse", "cancel", "stream", "sandbox", "crash"}
  MaxEnv = 1
SYMMETRY Symmetry
INVARIANTS TypeOK NamesHeld NoOrphanResources OnlyLateContainersOutlive NotReadyIsFinal
PROPERTIES StopMeansDown ContainersFollowLifecycle
