SPECIFICATION FairSpec
CONSTANTS
  Nil = Nil
  Procs = {p1, p2}
  Ids = {i1}
  Names = {t1}
  Schema1 = {}
  Env = {"refuse"}
  MaxEnv = 1
  MaxRequests = 1
PROPERTY WaitEnds
