SPECIFICATION Spec
CONSTANTS
  Nil = Nil
  Procs = {p1, p2}
  Ids = {c1}
  Names = {n1}
  ExitCodes = {0}
  Env = {"cancel"}
  MaxEnv = 1
PROPERTY MissingContainerTolerated
