SPECIFICATION Spec
CONSTANTS
  Nil = Nil
  Procs = {p1, p2}
  Ids = {s1}
  Names = {n1}
  Ctrs = {c1}
  Readers = {}
  Configs <- OwnOnly
  Env = {}
  MaxEnv = 0
PROPERTY RunningContainersRemoved
