----------------------------- MODULE MCProcesses -----------------------------
(***************************************************************************)
(* The machines about processes.  They share no variable, so a behaviour   *)
(* is one of one machine while the others stay where they start.           *)
(***************************************************************************)
EXTENDS ExecService, ProcessArgs, ProcessEnv, PodSpec, ContainerLog

MCWords      == {"", "a", "b", "c", "e", "m"}
MCCommands   == {<<>>, <<"a">>, <<"b", "c">>}
MCEntrypoint == <<"e">>
MCCmd        == <<"m">>

MCEnvWords   == {"TERM", "xterm", "PATH", "X", "default", "image", "other", "a", "config"}
MCDefaultEnv == <<Variable("PATH", "default")>>
MCImageEnvs  == { <<>>, <<Variable("PATH", "image")>>, <<Variable("X", "image"), Variable("PATH", "image")>>,
                  <<Variable("PATH", "other"), [name |-> "X", value |-> "a", parts |-> 3]>> }
MCConfigEnvs == { <<>>, <<Variable("X", "config"), Variable("PATH", "config")>> }

MCPodConfigs == [host : SUBSET {"network", "pid", "ipc"}, searches : {0, 6, 7}]
MCMounts     == { <<>>, <<BindMount("/etc/hosts", "a", FALSE), BindMount("/etc/hosts", "b", TRUE)>>,
                  <<BindMount("/dev/shm", "a", TRUE)>>, <<BindMount("/sys", "a", TRUE)>> }
MCCtrConfigs ==
  [hostIpc : BOOLEAN, privileged : BOOLEAN, readonlyRootfs : BOOLEAN, mounts : MCMounts,
   add : {{}, {"CHOWN", "SYS_ADMIN"}, {"NONE"}}, drop : {{}, {"CHOWN"}}, devices : {{}, {"null"}, {"missing"}}]

MCInit == Init /\ ArgsInit /\ EnvInit /\ PodInit /\ LogInit

MCNext ==
  \/ /\ ArgsInit /\ EnvInit /\ PodInit /\ LogInit
     /\ Next /\ UNCHANGED <<argsVars, envVars, podVars, logVars>>
  \/ /\ Init /\ EnvInit /\ PodInit /\ LogInit
     /\ ArgsNext /\ UNCHANGED <<vars, envVars, podVars, logVars>>
  \/ /\ Init /\ ArgsInit /\ PodInit /\ LogInit
     /\ EnvNext /\ UNCHANGED <<vars, argsVars, podVars, logVars>>
  \/ /\ Init /\ ArgsInit /\ EnvInit /\ LogInit
     /\ PodNext /\ UNCHANGED <<vars, argsVars, envVars, logVars>>
  \/ /\ Init /\ ArgsInit /\ EnvInit /\ PodInit
     /\ LogNext /\ UNCHANGED <<vars, argsVars, envVars, podVars>>

MCSpec == MCInit /\ [][MCNext]_<<vars, argsVars, envVars, podVars, logVars>> /\ Fairness /\ LogFairness
=============================================================================
