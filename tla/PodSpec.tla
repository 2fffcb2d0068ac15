------------------------------- MODULE PodSpec -------------------------------
(***************************************************************************)
(* What a sandbox and a container of it are set up to share: the OCI specs *)
(* that generateSandboxContainerSpec (sandbox_run.go) and                  *)
(* generateContainerSpec (container_create.go) make of the configurations, *)
(* and the files of setupSandboxFiles that the container mounts.           *)
(*                                                                         *)
(* A spec has what can be told apart by its user: namespaces, mounts,      *)
(* capabilities and devices.  Values that are only copied (limits, cgroup  *)
(* path, host name, sysctls, groups) are left out; arguments and variables *)
(* are in ProcessArgs and ProcessEnv.  The OCI generator and containerd's  *)
(* default spec are external.                                              *)
(***************************************************************************)
EXTENDS Naturals, Sequences

CONSTANTS
  PodConfigs,   \* host: the namespaces shared with the host; searches: how many DNS domains
  CtrConfigs,   \* hostIpc, privileged, readonlyRootfs, mounts, add, drop, devices
  DefaultCaps,  \* capabilities of containerd's default spec
  AllCaps,      \* capabilities there are
  HostDevices   \* devices of the host

(* The runtime shares three namespaces at most, and the mounts of a request    *)
(* become bind mounts.                                                         *)
ASSUME PodAssumption ==
  /\ \A conf \in PodConfigs : conf.host \subseteq {"network", "pid", "ipc"}
  /\ \A conf \in CtrConfigs :
       /\ {conf.hostIpc, conf.privileged, conf.readonlyRootfs} \subseteq BOOLEAN
       /\ conf.mounts \in Seq([type : {"bind"}, dst : STRING, src : STRING, ro : BOOLEAN])

VARIABLES
  podConfig,    \* the configuration of the sandbox, or none
  podSpec,      \* its OCI spec
  files,        \* what there is to mount: the sandbox's files and the host's
  ctrConfig,    \* the configuration of the container, or none
  ctrSpec       \* its OCI spec

podVars == <<podConfig, podSpec, files, ctrConfig, ctrSpec>>

NoConfig == [none |-> TRUE]

PodInit ==
  /\ podConfig = NoConfig /\ podSpec = NoConfig
  /\ files = {"host shm"}
  /\ ctrConfig = NoConfig /\ ctrSpec = NoConfig

-----------------------------------------------------------------------------
(* containerd.GenerateSpec, as far as the code looks at it. *)
BindMount(dst, src, ro) == [type |-> "bind", dst |-> dst, src |-> src, ro |-> ro]

DefaultSpec == [
  namespaces   |-> [ns \in {"pid", "ipc", "uts", "mount", "network"} |-> "new"],
  mounts       |-> <<[type |-> "tmpfs", dst |-> "/dev/shm", src |-> "new shm", ro |-> FALSE],
                     [type |-> "sysfs", dst |-> "/sys", src |-> "sysfs", ro |-> TRUE]>>,
  rootReadonly |-> FALSE,
  bounding     |-> DefaultCaps,
  ambient      |-> {},
  devices      |-> {} ]

-----------------------------------------------------------------------------
(* The sandbox.  A namespace that is taken out of the spec is the runtime's,  *)
(* which is the host's.                                                       *)
GenerateSandboxContainerSpec(conf) ==
  [DefaultSpec EXCEPT
     !.namespaces = [ns \in DOMAIN @ \ conf.host |-> @[ns]],
     !.rootReadonly = TRUE]

maxDNSSearches == 6

(* setupSandboxFiles.  The hosts file is the host's, and so is resolv.conf if  *)
(* the pod has no DNS options.                                                *)
SandboxFiles(conf) ==
  {"pod hosts", "pod resolv.conf"} \cup (IF "ipc" \in conf.host THEN {} ELSE {"pod shm"})

(* parseDNSOptions refuses a search list that is too long. *)
RunPodSandbox(conf) ==
  /\ podConfig = NoConfig
  /\ conf.searches <= maxDNSSearches
  /\ podConfig' = conf
  /\ podSpec' = GenerateSandboxContainerSpec(conf)
  /\ files' = files \cup SandboxFiles(conf)
  /\ UNCHANGED <<ctrConfig, ctrSpec>>

-----------------------------------------------------------------------------
(* The container. *)

(* Mutant: the sandbox's shm whatever the container asks for. *)
SandboxDevShmAlways(conf) == "pod shm"

SandboxDevShm(conf) == IF conf.hostIpc THEN "host shm" ELSE "pod shm"

GenerateContainerMounts(conf) ==
  << BindMount("/etc/hosts", "pod hosts", conf.readonlyRootfs),
     BindMount("/etc/resolv.conf", "pod resolv.conf", conf.readonlyRootfs),
     BindMount("/dev/shm", SandboxDevShm(conf), FALSE) >>

(* Mutant: the mounts of the request first. *)
MountsSwapped(conf) == conf.mounts \o GenerateContainerMounts(conf)

(* Extra mounts first, so that the ones of the request can override them. *)
Mounts(conf) == GenerateContainerMounts(conf) \o conf.mounts

ClearReadOnly(m) == [m EXCEPT !.ro = FALSE]

AddOCIBindMounts(spec, mounts, privileged) ==
  LET cgroup == [type |-> "cgroup", dst |-> "/sys/fs/cgroup", src |-> "cgroup", ro |-> TRUE]
      all == spec.mounts \o <<cgroup>> \o mounts
      Clears(m) == (m.dst = "/sys" /\ ~spec.rootReadonly) \/ m.type = "cgroup" IN
  [spec EXCEPT !.mounts =
     [i \in DOMAIN all |-> IF privileged /\ Clears(all[i]) THEN ClearReadOnly(all[i]) ELSE all[i]]]

SetRootReadonly(spec, readonly) == [spec EXCEPT !.rootReadonly = readonly]

AddOCIDevices(spec, devs, privileged) ==
  [spec EXCEPT !.devices = IF privileged THEN HostDevices ELSE devs]

(* A capability that the default spec has is not added to the ambient ones:   *)
(* AddProcessCapability returns when it finds it in the bounding set.         *)
SetOCICapabilities(spec, conf) ==
  IF conf.privileged THEN [spec EXCEPT !.bounding = AllCaps, !.ambient = AllCaps]
  ELSE [spec EXCEPT !.bounding = (@ \cup conf.add) \ conf.drop,
                    !.ambient = (@ \cup (conf.add \ spec.bounding)) \ conf.drop]

(* The namespaces of the process of the sandbox, by its pid; what the request *)
(* says of namespaces is not looked at.                                       *)
SetOCINamespaces(spec) ==
  [spec EXCEPT !.namespaces =
     [ns \in DOMAIN @ |-> IF ns \in {"network", "ipc", "uts", "pid"} THEN "of sandbox" ELSE @[ns]]]

GenerateContainerSpec(conf) ==
  LET mounted == AddOCIBindMounts(DefaultSpec, Mounts(conf), conf.privileged)
      rooted  == SetRootReadonly(mounted, conf.readonlyRootfs)
      devs    == AddOCIDevices(rooted, conf.devices, conf.privileged)
      capable == SetOCICapabilities(devs, conf) IN
  SetOCINamespaces(capable)

(* The request fails on a device the host does not have, and on a capability  *)
(* that there is not; neither is looked at if the container is privileged.    *)
(* It may also fail to list the devices of the host for one that is.  A       *)
(* request that fails leaves all as it is: it is no step.                     *)
Generates(conf) == conf.privileged \/ (conf.devices \subseteq HostDevices /\ conf.add \cup conf.drop \subseteq AllCaps)

CreateInPod(conf) ==
  /\ podConfig # NoConfig /\ ctrConfig = NoConfig
  /\ Generates(conf)
  /\ ctrConfig' = conf
  /\ ctrSpec' = GenerateContainerSpec(conf)
  /\ UNCHANGED <<podConfig, podSpec, files>>

PodNext ==
  \/ \E conf \in PodConfigs : RunPodSandbox(conf)
  \/ \E conf \in CtrConfigs : CreateInPod(conf)

PodSetup == PodInit /\ [][PodNext]_podVars

-----------------------------------------------------------------------------
(* Whose namespace the container is in. *)
NamespaceOf(ns) ==
  IF ctrSpec.namespaces[ns] # "of sandbox" THEN "container"
  ELSE IF ns \in DOMAIN podSpec.namespaces THEN "pod" ELSE "host"

MountsAt(mounts, dst) == {i \in DOMAIN mounts : mounts[i].dst = dst}

(* The mount that is on top. *)
TopMount(mounts, dst) ==
  mounts[CHOOSE i \in MountsAt(mounts, dst) : \A j \in MountsAt(mounts, dst) : j <= i]

(* A container is in the namespaces of its pod, which are the host's where    *)
(* the pod asked for the host's (it cannot ask for the host's name); and if the container says the same of IPC as *)
(* its pod does, its /dev/shm is the one that belongs to its IPC namespace,   *)
(* and is there to be mounted (setOCINamespaces, container_create.go:467, and *)
(* setupSandboxFiles, which looks at the pod's options, with                  *)
(* generateContainerMounts, which looks at the container's).                  *)
PodShared ==
  ctrConfig # NoConfig =>
    /\ \A ns \in {"network", "pid", "ipc", "uts"} :
         NamespaceOf(ns) = IF ns \in podConfig.host THEN "host" ELSE "pod"
    /\ LET shm == TopMount(ctrSpec.mounts, "/dev/shm") IN
       MountsAt(ctrConfig.mounts, "/dev/shm") = {} /\ (ctrConfig.hostIpc <=> "ipc" \in podConfig.host) =>
         /\ shm.src = IF NamespaceOf("ipc") = "host" THEN "host shm" ELSE "pod shm"
         /\ shm.src \in files

(* What a container finds at a path is what its request mounts there last, if *)
(* it mounts anything there, and it is read-only if the request says so; only *)
(* where the request is silent it is the file of the sandbox, read-only like  *)
(* the root (container_create.go:222).  A privileged container can write to   *)
(* /sys and to the cgroups, and no other can unless the request mounts them   *)
(* (addOCIBindMounts); of /sys this is said only if the root can be written   *)
(* to, see SysReadonlyWithRoot.  A container that is not privileged has the   *)
(* devices it asks for, all of them devices of the host, and no capability    *)
(* that was to be dropped.                                                    *)
SpecAsAsked ==
  ctrConfig # NoConfig =>
    /\ \A dst \in {"/etc/hosts", "/etc/resolv.conf", "/dev/shm", "/sys", "/sys/fs/cgroup"} :
         LET top == TopMount(ctrSpec.mounts, dst)
             m == TopMount(ctrConfig.mounts, dst)
             open == dst = "/sys" /\ ctrConfig.privileged /\ ctrConfig.readonlyRootfs IN
         IF MountsAt(ctrConfig.mounts, dst) # {}
         THEN top.src = m.src /\ (open \/ (top.ro <=> m.ro /\ ~(dst = "/sys" /\ ctrConfig.privileged)))
         ELSE \/ dst \in {"/etc/hosts", "/etc/resolv.conf"} /\ (top.ro <=> ctrSpec.rootReadonly) /\ top.src \in files
              \/ dst = "/dev/shm" /\ ~top.ro
              \/ dst \in {"/sys", "/sys/fs/cgroup"} /\ (open \/ (top.ro <=> ~ctrConfig.privileged))
    /\ ~ctrConfig.privileged =>
         /\ ctrSpec.devices = ctrConfig.devices /\ ctrSpec.devices \subseteq HostDevices
         /\ (ctrSpec.bounding \cup ctrSpec.ambient) \cap ctrConfig.drop = {}
         /\ ctrConfig.add \ ctrConfig.drop \subseteq ctrSpec.bounding
         /\ ctrSpec.ambient \subseteq ctrSpec.bounding

(* A container whose root is read-only has /sys read-only, privileged or not, *)
(* unless its request mounts something there: "sysfs should mount as 'ro' if  *)
(* root filrsystem is readonly" (container_create_test.go:412).  The code     *)
(* looks at the flag of the root before it sets it (container_create.go:223,  *)
(* 225), which the test does in the other order.                              *)
SysReadonlyWithRoot ==
  ctrConfig # NoConfig =>
    (ctrConfig.readonlyRootfs /\ MountsAt(ctrConfig.mounts, "/sys") = {} => TopMount(ctrSpec.mounts, "/sys").ro)
=============================================================================
