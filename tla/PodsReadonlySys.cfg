SPECIFICATION MCSpec
CONSTANTS
  Nil = Nil
  Procs = {p1, p2}
  Ids = {c1}
  Names = {t1}
  Streamers = {p2}
  Execs = {e1, e2}
  ExitCodes = {0, 1}
  Env = {"refuse", "cancel", "stream"}
  MaxEnv = 1
  Words <- MCWords
  Creates = {d1, d2}
  Commands <- MCCommands
  Entrypoint <- MCEntrypoint
  Cmd <- MCCmd
  Spare = 1
  Builds = {b1, b2}
  EnvWords <- MCEnvWords
  DefaultEnv <- MCDefaultEnv
  ImageEnvs <- MCImageEnvs
  ConfigEnvs <- MCConfigEnvs
  PodConfigs <- MCPodConfigs
  CtrConfigs <- MCCtrConfigs
  DefaultCaps = {"CHOWN", "KILL"}
  AllCaps = {"CHOWN", "KILL", "SYS_ADMIN"}
  HostDevices = {"null", "kvm"}
  Streams = {"stdout", "stderr"}
  BufSize = 2
  MaxBytes = 3
  MaxFaults = 2
CHECK_DEADLOCK FALSE
INVARIANT SysReadonlyWithRoot
