--------------------------- MODULE SandboxService ---------------------------
(***************************************************************************)
(* The life of a pod sandbox in cri-containerd: the handlers RunPodSandbox,*)
(* StopPodSandbox, RemovePodSandbox, ListPodSandbox and PodSandboxStatus,  *)
(* run concurrently by the gRPC server, with the containers of the sandbox.*)
(* A handler goes through its calls one at a time, and other handlers come *)
(* between (see Requests).                                                 *)
(*                                                                         *)
(* The containers are those of ContainerLifecycle, which ContainerService  *)
(* implements: a container is created, started, exits and is removed, at   *)
(* any time, by handlers that are not shown here.  What is kept of them is *)
(* where they look at the sandbox, and the status lock a start holds.      *)
(*                                                                         *)
(* containerd, the network plugin and the sandbox processes are external.  *)
(***************************************************************************)
EXTENDS Requests

CONSTANTS
  Ctrs,         \* containers that may be created
  Readers,      \* bound: the handlers that may list sandboxes, among Procs
  Configs       \* sandbox configurations, a subset of AllConfigs

AllConfigs == [hostNetwork : BOOLEAN, hostIpc : BOOLEAN]

ASSUME ConfigAssumption == Configs \subseteq AllConfigs
ASSUME CtrAssumption == Nil \notin Ctrs

VARIABLES
  (* Memory of cri-containerd, lost when it restarts. *)
  names,        \* sandboxNameIndex
  sandboxes,    \* sandboxStore: the ids it holds
  ctr,          \* the containers and their states
  owner,        \* the sandbox of each container
  todo,         \* per handler: what is left of the containers it has listed
  cur,          \* per handler: the container it waits for
  listed,       \* per handler: sandboxes to report on, then those not ready
  ears,         \* per handler: its own event stream, in stopSandboxContainer
  undoing,      \* the handlers that run the deferred calls of RunPodSandbox
  (* containerd, the file system, the network, the processes. *)
  nameOf,       \* the name each id was generated for; Nil: id not used yet
  config,       \* the configuration of each sandbox
  snapshots,    \* ids with a rootfs snapshot
  ctrs,         \* ids with a containerd container
  dirs,         \* ids with a sandbox root directory
  mounts,       \* ids with a shm mount in it
  task,         \* the containerd task of each sandbox container
  killed,       \* ids whose task has been sent SIGKILL
  network,      \* ids whose pod network is set up
  (* History. *)
  skipped,      \* ids whose network could not be torn down: no netns is left
  late          \* containers added to a sandbox when its removal had listed them

memory   == <<names, sandboxes>>
pods     == <<ctr, owner>>
loop     == <<todo, cur, listed>>
stopping == <<ears, undoing>>
made     == <<nameOf, config>>
runtime  == <<snapshots, ctrs, dirs, mounts, task, killed, network>>
history  == <<skipped, late>>
vars == <<memory, pods, loop, stopping, up, handler, made, runtime, history, leaked, spent>>

-----------------------------------------------------------------------------
(* Types.                                                                    *)

RunPcs    == {"image", "view", "newCtr", "mkdir", "files", "newTask", "setUp", "runTask", "add",
              "undoNet", "undoMount", "undoDir", "undoCtr", "undoSnapshot", "undoName"}
StopPcs   == {"list", "stopCtrs", "ctrWait", "tearDown", "unmount", "umount"}
KillPcs   == {"subscribe", "get", "kill", "wait", "delete"}     \* stopSandboxContainer
ListPcs   == {"tasks"}
RemovePcs == {"rmCheck", "rmSnapshot", "rmList", "rmCtrs", "rmCtr", "rmStore", "rmName"}
Returned  == {"ok", "err"}
Busy      == RunPcs \cup StopPcs \cup KillPcs \cup RemovePcs
Pcs       == {"idle"} \cup Returned \cup Busy \cup ListPcs

(* A container is in the container store in these states. *)
Stored == {"created", "starting", "running", "exited"}

TypeOK ==
  /\ names \in Registrars(Names, Ids)
  /\ sandboxes \subseteq Ids
  /\ ctr \in [Ctrs -> {"absent", "creating", "removed"} \cup Stored]
  /\ owner \in [Ctrs -> Ids \cup {Nil}]
  /\ todo \in [Procs -> SUBSET Ctrs]
  /\ cur \in [Procs -> Ctrs \cup {Nil}]
  /\ listed \in [Procs -> SUBSET Ids]
  /\ ears \in [Procs -> {"closed", "open", "exit", "broken"}]
  /\ undoing \subseteq Procs
  /\ up \in BOOLEAN
  /\ pc \in [Procs -> Pcs]
  /\ arg \in [Procs -> Ids \cup {Nil}]
  /\ \A p \in Procs : pc[p] \in Busy => arg[p] # Nil
  /\ \A p \in Procs : pc[p] = "ctrWait" => cur[p] # Nil
  /\ \A p \in Procs : pc[p] \in {"get", "kill", "wait", "delete"} => ears[p] # "closed"
  /\ \A p \in undoing : pc[p] \in KillPcs
  /\ done \subseteq Procs
  /\ nameOf \in [Ids -> Names \cup {Nil}]
  /\ config \in [Ids -> AllConfigs \cup {Nil}]
  /\ snapshots \subseteq Ids /\ ctrs \subseteq Ids /\ dirs \subseteq Ids /\ mounts \subseteq Ids
  /\ task \in [Ids -> {"none", "created", "running", "stopped"}]
  /\ killed \subseteq Ids /\ network \subseteq Ids
  /\ skipped \subseteq Ids /\ leaked \subseteq Ids /\ late \subseteq Ctrs
  /\ spent \in Nat

Init ==
  /\ names = NewRegistrar(Names, Ids) /\ sandboxes = {}
  /\ ctr = [c \in Ctrs |-> "absent"] /\ owner = [c \in Ctrs |-> Nil]
  /\ todo = [p \in Procs |-> {}] /\ cur = [p \in Procs |-> Nil]
  /\ listed = [p \in Procs |-> {}]
  /\ ears = [p \in Procs |-> "closed"] /\ undoing = {}
  /\ up = TRUE
  /\ pc = [p \in Procs |-> "idle"] /\ arg = [p \in Procs |-> Nil] /\ done = {}
  /\ nameOf = [id \in Ids |-> Nil] /\ config = [id \in Ids |-> Nil]
  /\ snapshots = {} /\ ctrs = {} /\ dirs = {} /\ mounts = {}
  /\ task = [id \in Ids |-> "none"] /\ killed = {} /\ network = {}
  /\ skipped = {} /\ late = {} /\ leaked = {} /\ spent = 0

(* The process of the sandbox container exists, and with it its network       *)
(* namespace, which is the one under /proc.                                   *)
Alive(id) == task[id] \in {"created", "running"}

(* The network plugin is not called for a sandbox in the host's network, and  *)
(* nothing is unmounted for one that shares the host's IPC namespace.         *)
NetworkOutcomes(id) == IF config[id].hostNetwork THEN {"ok"} ELSE LocalOutcomes
MountOutcomes(id)   == IF config[id].hostIpc THEN {"ok"} ELSE LocalOutcomes

-----------------------------------------------------------------------------
(* RunPodSandbox (sandbox_run.go).  The spec, the pipes and the files it makes*)
(* in the root directory are data and are left out; the shm mount is kept.    *)

RunPodSandbox(p) ==
  \E id \in Ids, n \in Names, cfg \in Configs :
    /\ nameOf[id] = Nil
    /\ Reservable(names, n, id)
    /\ Arrives(p, id, "image")
    /\ names' = Reserve(names, n, id)
    /\ nameOf' = [nameOf EXCEPT ![id] = n]
    /\ config' = [config EXCEPT ![id] = cfg]
    /\ UNCHANGED <<sandboxes, pods, loop, stopping, up, runtime, history, leaked>>

(* The name is taken. *)
RunPodSandboxRejected(p) ==
  \E id \in Ids, n \in Names :
    /\ nameOf[id] = Nil
    /\ ~Reservable(names, n, id)
    /\ Arrives(p, id, "err")
    /\ UNCHANGED <<memory, pods, loop, stopping, up, made, runtime, history, leaked>>

(* ensureImageExists resolves the sandbox image, or pulls it. *)
EnsureImage(p) ==
  /\ \E out \in Outcomes(p) : Calls(p, "image", out, "view", "undoName")
  /\ UNCHANGED <<memory, pods, loop, stopping, up, made, runtime, history, leaked>>

(* A snapshot whose answer is lost has no deferred removal. *)
ViewSnapshot(p) ==
  \E out \in Outcomes(p) :
    /\ Calls(p, "view", out, "newCtr", "undoName")
    /\ snapshots' = IF Effective(out) THEN snapshots \cup {arg[p]} ELSE snapshots
    /\ Leaks(arg[p], out = "lost")
    /\ UNCHANGED <<memory, pods, loop, stopping, up, made, ctrs, dirs, mounts, task, killed, network, history>>

(* The spec is generated from the configuration and the image, and the *)
(* containerd container made of it.                                    *)
CreateContainerdContainer(p) ==
  \E out \in Outcomes(p) :
    /\ Calls(p, "newCtr", out, "mkdir", "undoSnapshot")
    /\ ctrs' = IF Effective(out) THEN ctrs \cup {arg[p]} ELSE ctrs
    /\ Leaks(arg[p], out = "lost")
    /\ UNCHANGED <<memory, pods, loop, stopping, up, made, snapshots, dirs, mounts, task, killed, network, history>>

CreateRootDir(p) ==
  \E out \in LocalOutcomes :
    /\ CallsLocal(p, "mkdir", out, "files", "undoCtr")
    /\ dirs' = IF Effective(out) THEN dirs \cup {arg[p]} ELSE dirs
    /\ UNCHANGED <<memory, pods, loop, stopping, up, made, snapshots, ctrs, mounts, task, killed, network, history, leaked>>

(* The pipes, the loggers, and setupSandboxFiles.  The mount is its last call, *)
(* and a sandbox that shares the host's IPC namespace has none.                *)
SetupSandboxFiles(p) ==
  \E out \in LocalOutcomes :
    /\ CallsLocal(p, "files", out, "newTask", "undoDir")
    /\ mounts' = IF out = "ok" /\ ~config[arg[p]].hostIpc THEN mounts \cup {arg[p]} ELSE mounts
    /\ UNCHANGED <<memory, pods, loop, stopping, up, made, snapshots, ctrs, dirs, task, killed, network, history, leaked>>

(* stopSandboxContainer is deferred only once Create has answered. *)
CreateSandboxTask(p) ==
  \E out \in Outcomes(p) :
    /\ Calls(p, "newTask", out, "setUp", "undoMount")
    /\ task' = IF Effective(out) THEN [task EXCEPT ![arg[p]] = "created"] ELSE task
    /\ Leaks(arg[p], out = "lost")
    /\ UNCHANGED <<memory, pods, loop, stopping, up, made, snapshots, ctrs, dirs, mounts, killed, network, history>>

(* A SetUpPod that fails is taken to leave nothing behind. *)
SetUpPod(p) ==
  /\ pc[p] = "setUp"
  /\ \E out \in NetworkOutcomes(arg[p]) :
       /\ CallsLocal(p, "setUp", out, "runTask", "subscribe")
       /\ network' = IF out = "ok" /\ ~config[arg[p]].hostNetwork THEN network \cup {arg[p]} ELSE network
       /\ undoing' = IF out = "ok" THEN undoing ELSE undoing \cup {p}
  /\ UNCHANGED <<memory, pods, loop, ears, up, made, snapshots, ctrs, dirs, mounts, task, killed, history, leaked>>

StartSandboxTask(p) ==
  \E out \in Outcomes(p) :
    /\ Calls(p, "runTask", out, "add", "undoNet")
    /\ task' = IF Effective(out) THEN [task EXCEPT ![arg[p]] = "running"] ELSE task
    /\ UNCHANGED <<memory, pods, loop, stopping, up, made, snapshots, ctrs, dirs, mounts, killed, network, history, leaked>>

(* Store.Add can not fail: the id is new. *)
AddToStore(p) ==
  /\ Moves(p, "add", "ok")
  /\ sandboxes' = sandboxes \cup {arg[p]}
  /\ UNCHANGED <<names, pods, loop, stopping, up, done, made, runtime, history, leaked, spent>>

(* The deferred calls, last one first: stopSandboxContainer follows. *)
UndoNetwork(p) ==
  /\ pc[p] = "undoNet"
  /\ \E out \in NetworkOutcomes(arg[p]) :
       /\ CallsLocal(p, "undoNet", out, "subscribe", "subscribe")
       /\ network' = IF out = "ok" THEN network \ {arg[p]} ELSE network
       /\ undoing' = undoing \cup {p}
       /\ Leaks(arg[p], out # "ok")
  /\ UNCHANGED <<memory, pods, loop, ears, up, made, snapshots, ctrs, dirs, mounts, task, killed, history>>

UndoMount(p) ==
  /\ pc[p] = "undoMount"
  /\ \E out \in MountOutcomes(arg[p]) :
       /\ CallsLocal(p, "undoMount", out, "undoDir", "undoDir")
       /\ mounts' = IF out = "ok" THEN mounts \ {arg[p]} ELSE mounts
       /\ Leaks(arg[p], out # "ok")
  /\ UNCHANGED <<memory, pods, loop, stopping, up, made, snapshots, ctrs, dirs, task, killed, network, history>>

(* A directory with a mount in it is not removed. *)
UndoRootDir(p) ==
  /\ \/ /\ arg[p] \notin mounts
        /\ \E out \in LocalOutcomes :
             /\ CallsLocal(p, "undoDir", out, "undoCtr", "undoCtr")
             /\ dirs' = IF out = "ok" THEN dirs \ {arg[p]} ELSE dirs
             /\ Leaks(arg[p], out # "ok")
     \/ /\ arg[p] \in mounts
        /\ Fails(p, "undoDir", "undoCtr")
        /\ UNCHANGED <<dirs, leaked>>
  /\ UNCHANGED <<memory, pods, loop, stopping, up, made, snapshots, ctrs, mounts, task, killed, network, history>>

UndoContainerdContainer(p) ==
  \E out \in Outcomes(p) :
    /\ Calls(p, "undoCtr", out, "undoSnapshot", "undoSnapshot")
    /\ ctrs' = IF Effective(out) THEN ctrs \ {arg[p]} ELSE ctrs
    /\ Leaks(arg[p], out = "refused")
    /\ UNCHANGED <<memory, pods, loop, stopping, up, made, snapshots, dirs, mounts, task, killed, network, history>>

UndoSnapshot(p) ==
  \E out \in Outcomes(p) :
    /\ Calls(p, "undoSnapshot", out, "undoName", "undoName")
    /\ snapshots' = IF Effective(out) THEN snapshots \ {arg[p]} ELSE snapshots
    /\ Leaks(arg[p], out = "refused")
    /\ UNCHANGED <<memory, pods, loop, stopping, up, made, ctrs, dirs, mounts, task, killed, network, history>>

UndoName(p) ==
  /\ Moves(p, "undoName", "err")
  /\ names' = ReleaseByName(names, nameOf[arg[p]])
  /\ UNCHANGED <<sandboxes, pods, loop, stopping, up, done, made, runtime, history, leaked, spent>>

-----------------------------------------------------------------------------
(* StopPodSandbox (sandbox_stop.go).                                         *)

StopPodSandbox(p) ==
  \E id \in Ids :
    /\ Arrives(p, id, IF id \in sandboxes THEN "list" ELSE "err")
    /\ UNCHANGED <<memory, pods, loop, stopping, up, made, runtime, history, leaked>>

Containers(id) == {c \in Ctrs : ctr[c] \in Stored /\ owner[c] = id}

(* containerStore.List, by StopPodSandbox and by RemovePodSandbox. *)
ListContainers(p) ==
  /\ Moves(p, "list", "stopCtrs") \/ Moves(p, "rmList", "rmCtrs")
  /\ todo' = [todo EXCEPT ![p] = Containers(arg[p])]
  /\ UNCHANGED <<memory, pods, cur, listed, stopping, up, done, made, runtime, history, leaked, spent>>

(* stopContainer with no grace period, for one container of the list: nothing *)
(* if it is not running, else SIGKILL.  Its status can not be read while a    *)
(* StartContainer is at work on it.                                           *)
StopNext(p) ==
  /\ pc[p] = "stopCtrs"
  /\ \E c \in todo[p] :
       /\ ctr[c] # "starting"
       /\ todo' = [todo EXCEPT ![p] = @ \ {c}]
       /\ IF ctr[c] = "running"
          THEN /\ \E out \in Outcomes(p) : Calls(p, "stopCtrs", out, "ctrWait", "err")
               /\ cur' = [cur EXCEPT ![p] = c]
          ELSE /\ Moves(p, "stopCtrs", "stopCtrs")
               /\ UNCHANGED <<cur, done, spent>>
  /\ UNCHANGED <<memory, pods, listed, stopping, up, made, runtime, history, leaked>>

(* waitContainerStop: the container exits or is removed, or the wait ends. *)
ContainerStopped(p) ==
  /\ pc[p] = "ctrWait" /\ ctr[cur[p]] # "running"
  /\ Moves(p, "ctrWait", "stopCtrs")
  /\ UNCHANGED <<memory, pods, loop, stopping, up, done, made, runtime, history, leaked, spent>>

ContainerWaitEnds(p) ==
  /\ Moves(p, "ctrWait", "err")
  /\ UNCHANGED <<memory, pods, loop, stopping, up, done, made, runtime, history, leaked, spent>>

(* The network namespace is looked for.  "It's ok for sandbox.NetNS to *not*   *)
(* exist": nothing is torn down then.                                          *)
StatNetNS(p) ==
  /\ pc[p] = "stopCtrs" /\ todo[p] = {}
  /\ \E out \in LocalOutcomes :
       CallsLocal(p, "stopCtrs", out, IF Alive(arg[p]) THEN "tearDown" ELSE "unmount", "err")
  /\ skipped' = IF pc'[p] = "unmount" /\ arg[p] \in network THEN skipped \cup {arg[p]} ELSE skipped
  /\ UNCHANGED <<memory, pods, loop, stopping, up, made, runtime, late, leaked>>

(* Mutant: an error of the network plugin is passed over. *)
TearDownPodLogged(p) ==
  /\ pc[p] = "tearDown"
  /\ \E out \in NetworkOutcomes(arg[p]) :
       /\ CallsLocal(p, "tearDown", out, "unmount", "unmount")
       /\ network' = IF out = "ok" THEN network \ {arg[p]} ELSE network
  /\ UNCHANGED <<memory, pods, loop, stopping, up, made, snapshots, ctrs, dirs, mounts, task, killed, history, leaked>>

(* The namespace may be gone by now, and the plugin may mind. *)
TearDownPod(p) ==
  /\ pc[p] = "tearDown"
  /\ \/ \E out \in NetworkOutcomes(arg[p]) :
          /\ CallsLocal(p, "tearDown", out, "unmount", "err")
          /\ network' = IF out = "ok" THEN network \ {arg[p]} ELSE network
     \/ /\ ~Alive(arg[p]) /\ ~config[arg[p]].hostNetwork
        /\ Fails(p, "tearDown", "err")
        /\ UNCHANGED network
  /\ UNCHANGED <<memory, pods, loop, stopping, up, made, snapshots, ctrs, dirs, mounts, task, killed, history, leaked>>

(* unmountSandboxFiles: RealOS.Unmount reads the mount table first, and there *)
(* is nothing to do for a shm that is not mounted ...                         *)
UnmountSandboxFiles(p) ==
  /\ pc[p] = "unmount"
  /\ \E out \in MountOutcomes(arg[p]) :
       CallsLocal(p, "unmount", out, IF arg[p] \in mounts THEN "umount" ELSE "subscribe", "err")
  /\ UNCHANGED <<memory, pods, loop, stopping, up, made, runtime, history, leaked>>

(* ... and the system call fails if another handler has unmounted it since.    *)
Unmount(p) ==
  /\ \/ /\ arg[p] \in mounts
        /\ \E out \in LocalOutcomes :
             /\ CallsLocal(p, "umount", out, "subscribe", "err")
             /\ mounts' = IF out = "ok" THEN mounts \ {arg[p]} ELSE mounts
     \/ /\ arg[p] \notin mounts
        /\ Fails(p, "umount", "err")
        /\ UNCHANGED mounts
  /\ UNCHANGED <<memory, pods, loop, stopping, up, made, snapshots, ctrs, dirs, task, killed, network, history, leaked>>

-----------------------------------------------------------------------------
(* stopSandboxContainer: the last thing StopPodSandbox does, and one of the  *)
(* deferred calls of RunPodSandbox, which goes on whatever it comes to.      *)

After(p, result) == IF p \in undoing THEN "undoMount" ELSE result

(* The handler leaves stopSandboxContainer, or stays in it: its event stream  *)
(* is closed, and a task it could not delete for RunPodSandbox is left there. *)
LeavesKill(p) ==
  LET leaves == pc'[p] \notin KillPcs IN
  /\ undoing' = IF leaves THEN undoing \ {p} ELSE undoing
  /\ Leaks(arg[p], leaves /\ p \in undoing /\ task'[arg[p]] # "none")

Closes(p) == ears' = [ears EXCEPT ![p] = IF pc'[p] \in KillPcs THEN @ ELSE "closed"]

Subscribe(p) ==
  /\ \E out \in Outcomes(p) :
       /\ Calls(p, "subscribe", out, "get", After(p, "err"))
       /\ ears' = IF out = "ok" THEN [ears EXCEPT ![p] = "open"] ELSE ears
  /\ UNCHANGED task
  /\ LeavesKill(p)
  /\ UNCHANGED <<memory, pods, loop, up, made, snapshots, ctrs, dirs, mounts, killed, network, history>>

(* A sandbox container with no task is stopped already. *)
GetTask(p) ==
  /\ pc[p] = "get"
  /\ \E out \in Outcomes(p) :
       Calls(p, "get", out, CASE task[arg[p]] = "none"    -> After(p, "ok")
                             [] task[arg[p]] = "stopped" -> "delete"
                             [] OTHER                    -> "kill", After(p, "err"))
  /\ Closes(p)
  /\ UNCHANGED task
  /\ LeavesKill(p)
  /\ UNCHANGED <<memory, pods, loop, up, made, snapshots, ctrs, dirs, mounts, killed, network, history>>

(* Mutant: the event stream is opened after the kill. *)
KillTaskThenSubscribe(p) ==
  /\ \E out \in Outcomes(p) :
       /\ Calls(p, "kill", out, "wait", After(p, "err"))
       /\ killed' = IF Effective(out) /\ Alive(arg[p]) THEN killed \cup {arg[p]} ELSE killed
  /\ ears' = [ears EXCEPT ![p] = IF pc'[p] \in KillPcs THEN "open" ELSE "closed"]
  /\ UNCHANGED task
  /\ LeavesKill(p)
  /\ UNCHANGED <<memory, pods, loop, up, made, snapshots, ctrs, dirs, mounts, network, history>>

(* A task that is gone, or has exited, since GetTask is not an error. *)
KillTask(p) ==
  /\ \E out \in Outcomes(p) :
       /\ Calls(p, "kill", out, "wait", After(p, "err"))
       /\ killed' = IF Effective(out) /\ Alive(arg[p]) THEN killed \cup {arg[p]} ELSE killed
  /\ Closes(p)
  /\ UNCHANGED task
  /\ LeavesKill(p)
  /\ UNCHANGED <<memory, pods, loop, up, made, snapshots, ctrs, dirs, mounts, network, history>>

(* waitSandboxContainer: until the exit is received, or there is no stream. *)
WaitSandbox(p) ==
  /\ \/ ears[p] = "exit" /\ Moves(p, "wait", "delete")
     \/ (ears[p] = "broken" \/ p \in done) /\ Moves(p, "wait", After(p, "err"))
  /\ Closes(p)
  /\ UNCHANGED task
  /\ LeavesKill(p)
  /\ UNCHANGED <<memory, pods, loop, up, done, made, snapshots, ctrs, dirs, mounts, killed, network, history, spent>>

(* Mutant: an error of the deletion is only logged. *)
DeleteTaskLogged(p) ==
  /\ \E out \in Outcomes(p) :
       /\ Calls(p, "delete", out, After(p, "ok"), After(p, "ok"))
       /\ task' = IF Effective(out) THEN [task EXCEPT ![arg[p]] = "none"] ELSE task
  /\ Closes(p)
  /\ LeavesKill(p)
  /\ UNCHANGED <<memory, pods, loop, up, made, snapshots, ctrs, dirs, mounts, killed, network, history>>

DeleteTask(p) ==
  /\ \E out \in Outcomes(p) :
       /\ Calls(p, "delete", out, After(p, "ok"), After(p, "err"))
       /\ task' = IF Effective(out) THEN [task EXCEPT ![arg[p]] = "none"] ELSE task
  /\ Closes(p)
  /\ LeavesKill(p)
  /\ UNCHANGED <<memory, pods, loop, up, made, snapshots, ctrs, dirs, mounts, killed, network, history>>

-----------------------------------------------------------------------------
(* RemovePodSandbox (sandbox_remove.go).                                     *)

(* A sandbox the store does not hold is removed already. *)
RemovePodSandbox(p) ==
  \E id \in Ids :
    /\ Arrives(p, id, IF id \in sandboxes THEN "rmCheck" ELSE "ok")
    /\ UNCHANGED <<memory, pods, loop, stopping, up, made, runtime, history, leaked>>

(* Mutant: a sandbox container that is not stopped is no obstacle. *)
CheckStoppedSkipped(p) ==
  /\ \E out \in Outcomes(p) : Calls(p, "rmCheck", out, "rmSnapshot", "err")
  /\ UNCHANGED <<memory, pods, loop, stopping, up, made, runtime, history, leaked>>

(* "Return error if sandbox container is not fully stopped." *)
CheckStopped(p) ==
  /\ pc[p] = "rmCheck"
  /\ \E out \in Outcomes(p) :
       Calls(p, "rmCheck", out, IF task[arg[p]] = "none" THEN "rmSnapshot" ELSE "err", "err")
  /\ UNCHANGED <<memory, pods, loop, stopping, up, made, runtime, history, leaked>>

(* A snapshot that does not exist is not an error. *)
RemoveSnapshot(p) ==
  \E out \in Outcomes(p) :
    /\ Calls(p, "rmSnapshot", out, "rmList", "err")
    /\ snapshots' = IF Effective(out) THEN snapshots \ {arg[p]} ELSE snapshots
    /\ UNCHANGED <<memory, pods, loop, stopping, up, made, ctrs, dirs, mounts, task, killed, network, history, leaked>>

(* Mutants: a running container is passed over; it is removed. *)
RemoveNextPastRunning(p) ==
  /\ pc[p] = "rmCtrs"
  /\ \E c \in todo[p] :
       /\ ctr[c] # "starting"
       /\ todo' = [todo EXCEPT ![p] = @ \ {c}]
       /\ IF ctr[c] \in {"created", "exited"}
          THEN \E out \in Outcomes(p) :
                 /\ Calls(p, "rmCtrs", out, "rmCtrs", "err")
                 /\ ctr' = IF out = "ok" THEN [ctr EXCEPT ![c] = "removed"] ELSE ctr
          ELSE Moves(p, "rmCtrs", "rmCtrs") /\ UNCHANGED <<ctr, done, spent>>
  /\ UNCHANGED <<memory, owner, cur, listed, stopping, up, made, runtime, history, leaked>>

RemoveNextRunning(p) ==
  /\ pc[p] = "rmCtrs"
  /\ \E c \in todo[p] :
       /\ ctr[c] # "starting"
       /\ todo' = [todo EXCEPT ![p] = @ \ {c}]
       /\ \E out \in Outcomes(p) :
            /\ Calls(p, "rmCtrs", out, "rmCtrs", "err")
            /\ ctr' = IF out = "ok" THEN [ctr EXCEPT ![c] = "removed"] ELSE ctr
  /\ UNCHANGED <<memory, owner, cur, listed, stopping, up, made, runtime, history, leaked>>

(* RemoveContainer, for one container of the list: it does nothing if the     *)
(* container is gone from the store, and fails if it is running or if another *)
(* RemoveContainer is at work on it.  The calls it makes are one step here;   *)
(* one that fails leaves the container in the store.                          *)
RemoveNext(p) ==
  /\ pc[p] = "rmCtrs"
  /\ \E c \in todo[p] :
       /\ ctr[c] # "starting"
       /\ todo' = [todo EXCEPT ![p] = @ \ {c}]
       /\ \/ /\ ctr[c] \in {"created", "exited"}
             /\ \E out \in Outcomes(p) :
                  /\ Calls(p, "rmCtrs", out, "rmCtrs", "err")
                  /\ ctr' = IF out = "ok" THEN [ctr EXCEPT ![c] = "removed"] ELSE ctr
          \/ /\ ctr[c] \in {"running", "created", "exited"}
             /\ Fails(p, "rmCtrs", "err")
             /\ UNCHANGED ctr
          \/ /\ ctr[c] \notin Stored
             /\ Moves(p, "rmCtrs", "rmCtrs")
             /\ UNCHANGED <<ctr, done, spent>>
  /\ UNCHANGED <<memory, owner, cur, listed, stopping, up, made, runtime, history, leaked>>

(* A directory with a mount in it is not removed. *)
RemoveRootDir(p) ==
  /\ pc[p] = "rmCtrs" /\ todo[p] = {}
  /\ \/ /\ arg[p] \notin mounts
        /\ \E out \in LocalOutcomes :
             /\ CallsLocal(p, "rmCtrs", out, "rmCtr", "err")
             /\ dirs' = IF out = "ok" THEN dirs \ {arg[p]} ELSE dirs
     \/ /\ arg[p] \in mounts
        /\ Fails(p, "rmCtrs", "err")
        /\ UNCHANGED dirs
  /\ UNCHANGED <<memory, pods, loop, stopping, up, made, snapshots, ctrs, mounts, task, killed, network, history, leaked>>

(* As in RemoveContainer, "not found" is not recognised and fails the removal. *)
DeleteContainerdContainer(p) ==
  /\ pc[p] = "rmCtr"
  /\ \/ /\ arg[p] \in ctrs
        /\ \E out \in Outcomes(p) :
             /\ Calls(p, "rmCtr", out, "rmStore", "err")
             /\ ctrs' = IF Effective(out) THEN ctrs \ {arg[p]} ELSE ctrs
     \/ /\ arg[p] \notin ctrs
        /\ Fails(p, "rmCtr", "err")
        /\ UNCHANGED ctrs
  /\ UNCHANGED <<memory, pods, loop, stopping, up, made, snapshots, dirs, mounts, task, killed, network, history, leaked>>

DeleteFromStore(p) ==
  /\ Moves(p, "rmStore", "rmName")
  /\ sandboxes' = sandboxes \ {arg[p]}
  /\ UNCHANGED <<names, pods, loop, stopping, up, done, made, runtime, history, leaked, spent>>

ReleaseName(p) ==
  /\ Moves(p, "rmName", "ok")
  /\ names' = ReleaseByKey(names, arg[p])
  /\ UNCHANGED <<sandboxes, pods, loop, stopping, up, done, made, runtime, history, leaked, spent>>

-----------------------------------------------------------------------------
(* ListPodSandbox (sandbox_list.go) and PodSandboxStatus (sandbox_status.go):  *)
(* the store is read first, the tasks afterwards.                              *)

(* Mutant: sandboxes are listed from the moment they have a name. *)
ListNamedSandboxes(p) ==
  /\ p \in Readers
  /\ Arrives(p, Nil, "tasks")
  /\ listed' = [listed EXCEPT ![p] = {id \in Ids : names.keyToName[id] # Nil}]
  /\ UNCHANGED <<memory, pods, todo, cur, stopping, up, made, runtime, history, leaked>>

ListPodSandbox(p) ==
  /\ p \in Readers
  /\ Arrives(p, Nil, "tasks")
  /\ listed' = [listed EXCEPT ![p] = sandboxes]
  /\ UNCHANGED <<memory, pods, todo, cur, stopping, up, made, runtime, history, leaked>>

PodSandboxStatus(p) ==
  /\ p \in Readers
  /\ \E id \in sandboxes :
       /\ Arrives(p, id, "tasks")
       /\ listed' = [listed EXCEPT ![p] = {id}]
  /\ UNCHANGED <<memory, pods, todo, cur, stopping, up, made, runtime, history, leaked>>

(* A sandbox is READY if its task is running, and NOTREADY otherwise.  The     *)
(* network is asked for the address last, and its error is ignored.            *)
ReportStates(p) ==
  \E out \in Outcomes(p) :
    /\ Calls(p, "tasks", out, "ok", "err")
    /\ listed' = [listed EXCEPT ![p] = IF out = "ok" THEN {id \in @ : task[id] # "running"} ELSE {}]
    /\ UNCHANGED <<memory, pods, todo, cur, stopping, up, made, runtime, history, leaked>>

(* The handler has its result and the response is sent. *)
Respond(p) ==
  /\ up
  /\ pc[p] \in Returned
  /\ pc' = [pc EXCEPT ![p] = "idle"]
  /\ arg' = [arg EXCEPT ![p] = Nil]
  /\ todo' = [todo EXCEPT ![p] = {}]
  /\ cur' = [cur EXCEPT ![p] = Nil]
  /\ listed' = [listed EXCEPT ![p] = {}]
  /\ done' = done \ {p}
  /\ UNCHANGED <<memory, pods, stopping, up, made, runtime, history, leaked, spent>>

-----------------------------------------------------------------------------
(* The containers: where their handlers look at the sandbox.                 *)

ContainerMoves(c, from, to) ==
  /\ up
  /\ ctr[c] = from
  /\ ctr' = [ctr EXCEPT ![c] = to]
  /\ UNCHANGED <<memory, loop, stopping, up, handler, made, runtime, skipped, leaked, spent>>

(* CreateContainer finds the sandbox in the store ... *)
CreateContainer(c) ==
  \E id \in sandboxes :
    /\ ContainerMoves(c, "absent", "creating")
    /\ owner' = [owner EXCEPT ![c] = id]
    /\ UNCHANGED late

(* ... and later fails, or adds the container to the store whatever has become *)
(* of the sandbox: "container could still be created after this point"         *)
(* (sandbox_remove.go:74).                                                     *)
Listed(id) == \E p \in Procs : arg[p] = id /\ pc[p] \in {"rmCtrs", "rmCtr", "rmStore", "rmName"}

EndCreate(c) ==
  \/ /\ ContainerMoves(c, "creating", "created")
     /\ late' = IF Listed(owner[c]) \/ owner[c] \notin sandboxes THEN late \cup {c} ELSE late
     /\ UNCHANGED owner
  \/ /\ ContainerMoves(c, "creating", "absent")
     /\ owner' = [owner EXCEPT ![c] = Nil]
     /\ UNCHANGED late

(* StartContainer needs the sandbox in the store and its task running, and     *)
(* holds the status lock from then on.                                         *)
StartContainer(c) ==
  /\ ctr[c] = "created"
  /\ ContainerMoves(c, "created",
       IF owner[c] \in sandboxes /\ task[owner[c]] = "running" THEN "starting" ELSE "exited")
  /\ UNCHANGED <<owner, late>>

EndStart(c) ==
  /\ \E to \in {"running", "exited"} : ContainerMoves(c, "starting", to)
  /\ UNCHANGED <<owner, late>>

ContainerExits(c) ==
  /\ ContainerMoves(c, "running", "exited")
  /\ UNCHANGED <<owner, late>>

RemoveContainer(c) ==
  /\ \E from \in {"created", "exited"} : ContainerMoves(c, from, "removed")
  /\ UNCHANGED <<owner, late>>

-----------------------------------------------------------------------------
(* containerd, the sandbox processes, and the clients.                       *)

(* The sandbox container exits, killed or by itself, and the handlers that    *)
(* have subscribed and work on it will receive that.                          *)
SandboxExits(id) ==
  /\ Alive(id)
  /\ id \in killed \/ (task[id] = "running" /\ May("sandbox"))
  /\ task' = [task EXCEPT ![id] = "stopped"]
  /\ ears' = [p \in Procs |-> IF ears[p] = "open" /\ arg[p] = id THEN "exit" ELSE ears[p]]
  /\ Spend(IF id \in killed THEN 0 ELSE 1)
  /\ UNCHANGED <<memory, pods, loop, undoing, up, handler, made, snapshots, ctrs, dirs, mounts, killed, network, history, leaked>>

StreamBreaks(p) ==
  /\ May("stream")
  /\ ears[p] \in {"open", "exit"}
  /\ ears' = [ears EXCEPT ![p] = "broken"]
  /\ Spend(1)
  /\ UNCHANGED <<memory, pods, loop, undoing, up, handler, made, runtime, history, leaked>>

Cancel(p) ==
  /\ May("cancel")
  /\ pc[p] \in Busy \cup ListPcs
  /\ p \notin done
  /\ done' = done \cup {p}
  /\ Spend(1)
  /\ UNCHANGED <<memory, pods, loop, stopping, up, pc, arg, made, runtime, history, leaked>>

HasResources(id) == id \in snapshots \cup ctrs \cup dirs \cup mounts \cup network \/ task[id] # "none"

Crash ==
  /\ May("crash")
  /\ up
  /\ up' = FALSE
  /\ names' = NewRegistrar(Names, Ids) /\ sandboxes' = {}
  /\ ctr' = [c \in Ctrs |-> "absent"] /\ owner' = [c \in Ctrs |-> Nil]
  /\ todo' = [p \in Procs |-> {}] /\ cur' = [p \in Procs |-> Nil]
  /\ listed' = [p \in Procs |-> {}]
  /\ ears' = [p \in Procs |-> "closed"] /\ undoing' = {}
  /\ pc' = [p \in Procs |-> "idle"] /\ arg' = [p \in Procs |-> Nil] /\ done' = {}
  /\ leaked' = leaked \cup {id \in Ids : HasResources(id)}
  /\ late' = {}
  /\ Spend(1)
  /\ UNCHANGED <<made, runtime, skipped>>

(* NewCRIContainerdService makes new stores; nothing is recovered. *)
Restart ==
  /\ ~up
  /\ up' = TRUE
  /\ UNCHANGED <<memory, pods, loop, stopping, handler, made, runtime, history, leaked, spent>>

-----------------------------------------------------------------------------
Request(p) ==
  RunPodSandbox(p) \/ RunPodSandboxRejected(p) \/ StopPodSandbox(p) \/ RemovePodSandbox(p)
  \/ ListPodSandbox(p) \/ PodSandboxStatus(p)

RunStep(p) ==
  \/ EnsureImage(p) \/ ViewSnapshot(p) \/ CreateContainerdContainer(p) \/ CreateRootDir(p)
  \/ SetupSandboxFiles(p) \/ CreateSandboxTask(p) \/ SetUpPod(p) \/ StartSandboxTask(p) \/ AddToStore(p)
  \/ UndoNetwork(p) \/ UndoMount(p) \/ UndoRootDir(p) \/ UndoContainerdContainer(p)
  \/ UndoSnapshot(p) \/ UndoName(p)

StopStep(p) ==
  \/ ListContainers(p) \/ StopNext(p) \/ ContainerStopped(p) \/ ContainerWaitEnds(p)
  \/ StatNetNS(p) \/ TearDownPod(p) \/ UnmountSandboxFiles(p) \/ Unmount(p)
  \/ Subscribe(p) \/ GetTask(p) \/ KillTask(p) \/ WaitSandbox(p) \/ DeleteTask(p)

RemoveStep(p) ==
  \/ CheckStopped(p) \/ RemoveSnapshot(p) \/ RemoveNext(p) \/ RemoveRootDir(p)
  \/ DeleteContainerdContainer(p) \/ DeleteFromStore(p) \/ ReleaseName(p)

HandlerStep(p) == RunStep(p) \/ StopStep(p) \/ RemoveStep(p) \/ ReportStates(p) \/ Respond(p)

ContainerStep(c) ==
  \/ CreateContainer(c) \/ EndCreate(c) \/ StartContainer(c) \/ EndStart(c)
  \/ ContainerExits(c) \/ RemoveContainer(c)

EnvStep ==
  \/ \E id \in Ids : SandboxExits(id)
  \/ \E p \in Procs : StreamBreaks(p) \/ Cancel(p)
  \/ Crash \/ Restart

Next ==
  \/ \E p \in Procs : Request(p) \/ HandlerStep(p)
  \/ \E c \in Ctrs : ContainerStep(c)
  \/ EnvStep

Spec == Init /\ [][Next]_vars

(* Goroutines run, calls return, timers fire, a StartContainer ends, and a   *)
(* process that is sent SIGKILL dies.                                        *)
Fairness ==
  /\ \A p \in Procs : WF_vars(HandlerStep(p))
  /\ \A c \in Ctrs : WF_vars(EndStart(c))
  /\ \A id \in Ids : WF_vars(id \in killed /\ SandboxExits(id))
  /\ WF_vars(Restart)

FairSpec == Spec /\ Fairness

-----------------------------------------------------------------------------
(* Properties.                                                               *)

(* The name of a sandbox in the store is held by that sandbox, "to avoid       *)
(* concurrent RunPodSandbox request starting the same sandbox"                 *)
(* (sandbox_run.go:57), whatever runs fail and whatever removals race.         *)
NamesHeld ==
  /\ OneToOne(names)
  /\ \A id \in sandboxes : names.nameToKey[nameOf[id]] = id

(* What containerd, the file system and the network hold for an id the store  *)
(* does not hold belongs to a RunPodSandbox in progress, to a cleanup that     *)
(* failed, or is a network whose namespace was gone before StopPodSandbox:     *)
(* the defers of RunPodSandbox, the order of StopPodSandbox and the check      *)
(* RemovePodSandbox starts with miss nothing.                                  *)
NoOrphanResources ==
  \A id \in Ids \ sandboxes :
    HasResources(id) =>
      \/ id \in leaked
      \/ \E p \in Procs : arg[p] = id /\ (pc[p] \in RunPcs \/ p \in undoing)
      \/ id \in skipped /\ id \notin snapshots \cup ctrs \cup dirs \cup mounts /\ task[id] = "none"

(* A StopPodSandbox that succeeds leaves no task, no mount and no network that *)
(* could still be torn down, whatever other handler works on the sandbox and   *)
(* whenever its process dies (sandbox_stop.go).                                *)
StopMeansDown ==
  [][\A p \in Procs :
       pc[p] \in {"get", "delete"} /\ pc'[p] = "ok" =>
         /\ task'[arg[p]] = "none"
         /\ arg[p] \notin mounts'
         /\ arg[p] \in network' => arg[p] \in skipped]_vars

(* A container outlives its sandbox only if its creation was on the way while  *)
(* the sandbox was removed: "container could still be created after this point"*)
(* (sandbox_remove.go:74) is the only way.                                     *)
OnlyLateContainersOutlive ==
  \A c \in Ctrs : ctr[c] \in Stored /\ owner[c] \notin sandboxes => c \in late

(* A sandbox that is reported as NOTREADY is not running, and never will be,  *)
(* however late the answer arrives: it is taken from the store before the     *)
(* tasks are looked at (sandbox_list.go:43), and RunPodSandbox adds it to the *)
(* store only when its task has been started.                                 *)
NotReadyIsFinal ==
  \A p \in Procs : pc[p] = "ok" => \A id \in listed[p] : task[id] # "running"

(* What happens to the containers here, RemovePodSandbox included, is what     *)
(* ContainerLifecycle allows: a running container is never removed.            *)
ContainerView ==
  [c \in Ctrs |->
     [name  |-> IF ctr[c] \in Stored THEN c ELSE Nil,
      state |-> CASE ctr[c] \in {"created", "starting"} -> "CREATED"
                  [] ctr[c] = "running" -> "RUNNING"
                  [] ctr[c] = "exited"  -> "EXITED"
                  [] ctr[c] = "removed" -> "REMOVED"
                  [] OTHER              -> "UNKNOWN",
      exitCode |-> 0]]

Lifecycle ==
  INSTANCE ContainerLifecycle WITH Ids <- Ctrs, Names <- Ctrs, ExitCodes <- {0}, StartErrorCode <- 0,
                                   view <- ContainerView

ContainersFollowLifecycle == Lifecycle!Spec

(* "If there are running containers in the sandbox, they should be forcibly    *)
(* removed" (sandbox_remove.go:31): a running container does not make          *)
(* RemovePodSandbox fail.                                                      *)
RunningContainersRemoved ==
  [][\A p \in Procs : pc[p] = "rmCtrs" /\ pc'[p] = "err" => \A c \in todo[p] : ctr[c] # "running"]_vars

(* Every request is answered: the wait for the exit of the sandbox container,  *)
(* which has no timeout, ends because the stream is opened before the task is  *)
(* looked at (sandbox_stop.go:95), and no start holds the lock for ever.       *)
RequestsReturn == \A p \in Procs : pc[p] # "idle" ~> pc[p] = "idle"
=============================================================================
