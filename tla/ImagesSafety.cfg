SPECIFICATION Spec
CONSTANTS
  Nil = Nil
  Procs = {p1, p2}
  Ids = {i1, i2}
  Names = {t1}
  Schema1 = {i2}
  Env = {"refuse", "cancel", "push", "crash"}
  MaxEnv = 1
  MaxRequests = 3
SYMMETRY Symmetry
INVARIANTS TypeOK ReadyMeansUnpacked  NamesHaveContent
 
