-------------------------- MODULE ContainerService --------------------------
(***************************************************************************)
(* The life of a container in cri-containerd: the handlers CreateContainer,*)
(* StartContainer, StopContainer and RemoveContainer, run concurrently by  *)
(* the gRPC server, the goroutine that follows containerd's event stream,  *)
(* and the three things they share: the container name index, the container*)
(* store and the status storage of each container with its lock.           *)
(*                                                                         *)
(* A handler is a process p with a program counter.  One step is one call  *)
(* to containerd, one file-system call, or one critical section of a lock, *)
(* because those are the places where another goroutine can come between   *)
(* (see Requests).                                                         *)
(*                                                                         *)
(* containerd and the containers' processes are external: they are modelled*)
(* from the calls the handlers make and from the errors they test for.     *)
(***************************************************************************)
EXTENDS Sequences, Requests

CONSTANT
  ExitCodes     \* exit codes of a container's init process

ASSUME ExitCodeAssumption == ExitCodes \subseteq Nat

VARIABLES
  (* Memory of cri-containerd, lost when it restarts. *)
  names,        \* containerNameIndex
  containers,   \* containerStore: the ids it holds
  status,       \* the Status of each status storage; a handler that holds a
                \* container still reaches it when the store has dropped it
  lock,         \* the handler inside a long Status.Update, per container
  mpc,          \* where the event monitor is
  mev,          \* the event it is handling
  panicked,     \* cri-containerd has died of a nil pointer
  (* containerd, the file system, the processes. *)
  nameOf,       \* the name each id was generated for; Nil: id not used yet
  snapshots,    \* ids with a rootfs snapshot
  dirs,         \* ids with a container root directory
  ctrs,         \* ids with a containerd container
  task,         \* the containerd task of each container
  killed,       \* ids whose task has been sent SIGKILL
  sandbox,      \* the pod sandbox: "ready", "notready", "removed"
  subscribed,   \* the event monitor has an event stream
  stream,       \* the events on it not received yet
  (* History. *)
  missed        \* ids whose init exit can no longer reach the event monitor

memory  == <<names, containers, status, lock>>
monitor == <<mpc, mev>>
daemon  == <<up, panicked>>
runtime == <<snapshots, dirs, ctrs, task, killed>>
events  == <<subscribed, stream, missed>>
vars == <<memory, handler, monitor, daemon, nameOf, runtime, sandbox, events, leaked, spent>>

-----------------------------------------------------------------------------
(* Container status (pkg/store/container/status.go).  A timestamp is kept as *)
(* whether it is set; a process id as which of the container's processes it  *)
(* belongs to; Message is left out.                                          *)

NoPid   == 0
InitPid == 1
ExecPid == 2

errorStartExitCode == 128
errorStartReason   == "StartError"
oomExitReason      == "OOMKilled"

Statuses ==
  [pid : {NoPid, InitPid}, createdAt : BOOLEAN, startedAt : BOOLEAN, finishedAt : BOOLEAN,
   exitCode : Nat, reason : {"", errorStartReason, oomExitReason}, removing : BOOLEAN]

ZeroStatus ==
  [pid |-> NoPid, createdAt |-> FALSE, startedAt |-> FALSE, finishedAt |-> FALSE,
   exitCode |-> 0, reason |-> "", removing |-> FALSE]

State(s) ==
  CASE s.finishedAt -> "EXITED"
    [] ~s.finishedAt /\ s.startedAt -> "RUNNING"
    [] ~s.finishedAt /\ ~s.startedAt /\ s.createdAt -> "CREATED"
    [] OTHER -> "UNKNOWN"

CreatedStatus == [ZeroStatus EXCEPT !.createdAt = TRUE]

(* Mutant: a removal in progress is not looked at. *)
StartableWhileRemoving(s) == State(s) = "CREATED"

Startable(s) == State(s) = "CREATED" /\ ~s.removing

StartedStatus(s) == [s EXCEPT !.pid = InitPid, !.startedAt = TRUE]

StartFailedStatus(s) ==
  [s EXCEPT !.pid = NoPid, !.finishedAt = TRUE, !.exitCode = errorStartExitCode,
            !.reason = errorStartReason]

(* Mutant: the end of the container is not recorded. *)
ExitedStatusNoFinish(s, code) ==
  IF s.finishedAt THEN s ELSE [s EXCEPT !.pid = NoPid, !.exitCode = code]

ExitedStatus(s, code) ==
  IF s.finishedAt THEN s
  ELSE [s EXCEPT !.pid = NoPid, !.finishedAt = TRUE, !.exitCode = code]

(* Mutants: each of the two tests of setContainerRemoving is dropped. *)
RemovableWhileRunning(s) == ~s.removing
RemovableTwice(s) == State(s) # "RUNNING"

Removable(s) == State(s) # "RUNNING" /\ ~s.removing

RemovingStatus(s, removing) == [s EXCEPT !.removing = removing]

OOMStatus(s) == [s EXCEPT !.reason = oomExitReason]

-----------------------------------------------------------------------------
(* Types.                                                                    *)

CreatePcs == {"resolve", "snapshot", "mkdir", "newCtr", "add", "undoDir", "undoSnapshot", "undoName"}
StartPcs  == {"lock", "checkSandbox", "mounts", "newTask", "runTask", "started", "undoTask", "startFailed"}
StopPcs   == {"state", "term", "termWait", "kill", "killWait"}
RemovePcs == {"setRemoving", "rmSnapshot", "rmDir", "rmCtr", "rmStore", "rmName", "resetRemoving"}
Returned  == {"ok", "err"}
Busy      == CreatePcs \cup StartPcs \cup StopPcs \cup RemovePcs
Pcs       == {"idle"} \cup Returned \cup Busy

(* An event of a container that is not in Ids, such as a sandbox container, has *)
(* the id Nil: the subscription has no filter.                                  *)
Events == [type : {"exit", "oom"}, id : Ids \cup {Nil}, pid : {NoPid, InitPid, ExecPid}, code : Nat]

ExitEvent(id, pid, code) == [type |-> "exit", id |-> id, pid |-> pid, code |-> code]
OOMEvent(id)             == [type |-> "oom", id |-> id, pid |-> NoPid, code |-> 0]

MemoryType ==
  /\ names \in Registrars(Names, Ids)
  /\ containers \subseteq Ids
  /\ status \in [Ids -> Statuses]
  /\ lock \in [Ids -> Procs \cup {Nil}]

HandlerType ==
  /\ pc \in [Procs -> Pcs]
  /\ arg \in [Procs -> Ids \cup {Nil}]
  /\ \A p \in Procs : pc[p] \in Busy => arg[p] # Nil
  /\ \A p \in Procs : pc[p] \in CreatePcs => nameOf[arg[p]] # Nil
  /\ done \subseteq Procs

MonitorType ==
  /\ mpc \in {"recv", "pid", "delete", "update", "oom"}
  /\ mev \in Events \cup {Nil}
  /\ mpc # "recv" => mev \in Events /\ mev.id # Nil

RuntimeType ==
  /\ nameOf \in [Ids -> Names \cup {Nil}]
  /\ snapshots \subseteq Ids /\ dirs \subseteq Ids /\ ctrs \subseteq Ids
  /\ task \in [Ids -> {"none", "created", "running", "stopped"}]
  /\ killed \subseteq Ids
  /\ sandbox \in {"ready", "notready", "removed"}

EventType ==
  /\ up \in BOOLEAN /\ panicked \in BOOLEAN /\ subscribed \in BOOLEAN
  /\ stream \in Seq(Events)
  /\ missed \subseteq Ids /\ leaked \subseteq Ids
  /\ spent \in Nat

(* Every variable has its type; a busy handler works on an id, a creation has  *)
(* its name, and the monitor past "recv" is on an event of one of our ids.     *)
TypeOK == MemoryType /\ HandlerType /\ MonitorType /\ RuntimeType /\ EventType

Init ==
  /\ names = NewRegistrar(Names, Ids)
  /\ containers = {}
  /\ status = [id \in Ids |-> ZeroStatus]
  /\ lock = [id \in Ids |-> Nil]
  /\ pc = [p \in Procs |-> "idle"]
  /\ arg = [p \in Procs |-> Nil]
  /\ done = {}
  /\ mpc = "recv" /\ mev = Nil
  /\ up = TRUE /\ panicked = FALSE
  /\ nameOf = [id \in Ids |-> Nil]
  /\ snapshots = {} /\ dirs = {} /\ ctrs = {}
  /\ task = [id \in Ids |-> "none"]
  /\ killed = {}
  /\ sandbox = "ready"
  /\ subscribed = FALSE /\ stream = <<>>
  /\ missed = {} /\ leaked = {}
  /\ spent = 0

-----------------------------------------------------------------------------
(* The handler has its result and the response is sent. *)
Respond(p) ==
  /\ up
  /\ pc[p] \in Returned
  /\ pc' = [pc EXCEPT ![p] = "idle"]
  /\ arg' = [arg EXCEPT ![p] = Nil]
  /\ done' = done \ {p}
  /\ UNCHANGED <<memory, monitor, daemon, nameOf, runtime, sandbox, events, leaked, spent>>

-----------------------------------------------------------------------------
(* CreateContainer (container_create.go).  The spec it generates is data and *)
(* is left out.                                                              *)

(* The sandbox is looked up, an id generated, and the name reserved for it. *)
CreateContainer(p) ==
  \E id \in Ids, n \in Names :
    /\ nameOf[id] = Nil
    /\ sandbox # "removed"
    /\ Reservable(names, n, id)
    /\ Arrives(p, id, "resolve")
    /\ names' = Reserve(names, n, id)
    /\ nameOf' = [nameOf EXCEPT ![id] = n]
    /\ UNCHANGED <<containers, status, lock, monitor, daemon, runtime, sandbox, events, leaked>>

(* The sandbox is gone, or the name is taken. *)
CreateContainerRejected(p) ==
  \E id \in Ids, n \in Names :
    /\ nameOf[id] = Nil
    /\ sandbox = "removed" \/ ~Reservable(names, n, id)
    /\ Arrives(p, id, "err")
    /\ UNCHANGED <<memory, monitor, daemon, nameOf, runtime, sandbox, events, leaked>>

(* localResolve, and the generation of the spec from the image. *)
ResolveImage(p) ==
  \E out \in Outcomes(p) :
    /\ Calls(p, "resolve", out, "snapshot", "undoName")
    /\ UNCHANGED <<memory, monitor, daemon, nameOf, runtime, sandbox, events, leaked>>

(* A snapshot whose answer is lost has no deferred removal. *)
CreateSnapshot(p) ==
  \E out \in Outcomes(p) :
    /\ Calls(p, "snapshot", out, "mkdir", "undoName")
    /\ snapshots' = IF Effective(out) THEN snapshots \cup {arg[p]} ELSE snapshots
    /\ Leaks(arg[p], out = "lost")
    /\ UNCHANGED <<memory, monitor, daemon, nameOf, dirs, ctrs, task, killed, sandbox, events>>

(* Mutant: the removal of the snapshot is not deferred. *)
CreateRootDirNoDefer(p) ==
  \E out \in LocalOutcomes :
    /\ CallsLocal(p, "mkdir", out, "newCtr", "undoName")
    /\ dirs' = IF Effective(out) THEN dirs \cup {arg[p]} ELSE dirs
    /\ UNCHANGED <<memory, monitor, daemon, nameOf, snapshots, ctrs, task, killed, sandbox, events, leaked>>

CreateRootDir(p) ==
  \E out \in LocalOutcomes :
    /\ CallsLocal(p, "mkdir", out, "newCtr", "undoSnapshot")
    /\ dirs' = IF Effective(out) THEN dirs \cup {arg[p]} ELSE dirs
    /\ UNCHANGED <<memory, monitor, daemon, nameOf, snapshots, ctrs, task, killed, sandbox, events, leaked>>

CreateContainerdContainer(p) ==
  \E out \in Outcomes(p) :
    /\ Calls(p, "newCtr", out, "add", "undoDir")
    /\ ctrs' = IF Effective(out) THEN ctrs \cup {arg[p]} ELSE ctrs
    /\ Leaks(arg[p], out = "lost")
    /\ UNCHANGED <<memory, monitor, daemon, nameOf, snapshots, dirs, task, killed, sandbox, events>>

(* NewContainer and Store.Add.  Neither can fail here: StoreStatus returns no *)
(* error and the id is new, so the deferred Delete of the containerd container*)
(* is never reached.                                                          *)
AddToStore(p) ==
  /\ Moves(p, "add", "ok")
  /\ status' = [status EXCEPT ![arg[p]] = CreatedStatus]
  /\ containers' = containers \cup {arg[p]}
  /\ UNCHANGED <<names, lock, done, monitor, daemon, nameOf, runtime, sandbox, events, leaked, spent>>

UndoRootDir(p) ==
  \E out \in LocalOutcomes :
    /\ CallsLocal(p, "undoDir", out, "undoSnapshot", "undoSnapshot")
    /\ dirs' = IF Effective(out) THEN dirs \ {arg[p]} ELSE dirs
    /\ Leaks(arg[p], out # "ok")
    /\ UNCHANGED <<memory, monitor, daemon, nameOf, snapshots, ctrs, task, killed, sandbox, events>>

UndoSnapshot(p) ==
  \E out \in Outcomes(p) :
    /\ Calls(p, "undoSnapshot", out, "undoName", "undoName")
    /\ snapshots' = IF Effective(out) THEN snapshots \ {arg[p]} ELSE snapshots
    /\ Leaks(arg[p], out = "refused")
    /\ UNCHANGED <<memory, monitor, daemon, nameOf, dirs, ctrs, task, killed, sandbox, events>>

UndoName(p) ==
  /\ Moves(p, "undoName", "err")
  /\ names' = ReleaseByName(names, nameOf[arg[p]])
  /\ UNCHANGED <<containers, status, lock, done, monitor, daemon, nameOf, runtime, sandbox, events, leaked, spent>>

-----------------------------------------------------------------------------
(* StartContainer (container_start.go).  Status.Update holds the write lock  *)
(* of the status storage while startContainer runs, so the lock is taken here*)
(* and given back when the new status is stored.                             *)

StartContainer(p) ==
  \E id \in Ids :
    /\ Arrives(p, id, IF id \in containers THEN "lock" ELSE "err")
    /\ UNCHANGED <<memory, monitor, daemon, nameOf, runtime, sandbox, events, leaked>>

BeginStart(p) ==
  /\ pc[p] = "lock" /\ lock[arg[p]] = Nil
  /\ IF Startable(status[arg[p]])
     THEN Moves(p, "lock", "checkSandbox") /\ lock' = [lock EXCEPT ![arg[p]] = p]
     ELSE Moves(p, "lock", "err") /\ UNCHANGED lock
  /\ UNCHANGED <<names, containers, status, done, monitor, daemon, nameOf, runtime, sandbox, events, leaked, spent>>

(* The sandbox has to be in the store and its task running. *)
CheckSandbox(p) ==
  /\ \/ sandbox = "ready" /\ \E out \in Outcomes(p) : Calls(p, "checkSandbox", out, "mounts", "startFailed")
     \/ sandbox # "ready" /\ Fails(p, "checkSandbox", "startFailed")
  /\ UNCHANGED <<memory, monitor, daemon, nameOf, runtime, sandbox, events, leaked>>

(* The pipes are in the root directory, the mounts are those of the snapshot; *)
(* an earlier removal that failed half way may have removed either.           *)
PrepareRootfs(p) ==
  LET id == arg[p] IN
  /\ \/ id \in snapshots \cap dirs /\ \E out \in Outcomes(p) : Calls(p, "mounts", out, "newTask", "startFailed")
     \/ id \notin snapshots \cap dirs /\ Fails(p, "mounts", "startFailed")
  /\ UNCHANGED <<memory, monitor, daemon, nameOf, runtime, sandbox, events, leaked>>

(* The deletion of the task is deferred only once Create has answered. *)
CreateTask(p) ==
  \E out \in Outcomes(p) :
    /\ Calls(p, "newTask", out, "runTask", "startFailed")
    /\ task' = IF Effective(out) THEN [task EXCEPT ![arg[p]] = "created"] ELSE task
    /\ Leaks(arg[p], out = "lost")
    /\ UNCHANGED <<memory, monitor, daemon, nameOf, snapshots, dirs, ctrs, killed, sandbox, events>>

StartTask(p) ==
  \E out \in Outcomes(p) :
    /\ Calls(p, "runTask", out, "started", "undoTask")
    /\ task' = IF Effective(out) THEN [task EXCEPT ![arg[p]] = "running"] ELSE task
    /\ UNCHANGED <<memory, monitor, daemon, nameOf, snapshots, dirs, ctrs, killed, sandbox, events, leaked>>

EndStart(p) ==
  /\ Moves(p, "started", "ok")
  /\ status' = [status EXCEPT ![arg[p]] = StartedStatus(@)]
  /\ lock' = [lock EXCEPT ![arg[p]] = Nil]
  /\ UNCHANGED <<names, containers, done, monitor, daemon, nameOf, runtime, sandbox, events, leaked, spent>>

(* "Cleanup the containerd task if an error is returned." *)
UndoTask(p) ==
  \E out \in Outcomes(p) :
    /\ Calls(p, "undoTask", out, "startFailed", "startFailed")
    /\ task' = IF Effective(out) THEN [task EXCEPT ![arg[p]] = "none"] ELSE task
    /\ Leaks(arg[p], out = "refused")
    /\ UNCHANGED <<memory, monitor, daemon, nameOf, snapshots, dirs, ctrs, killed, sandbox, events>>

(* Mutant: the status lock is kept when the start fails. *)
FailStartLocked(p) ==
  /\ Moves(p, "startFailed", "err")
  /\ status' = [status EXCEPT ![arg[p]] = StartFailedStatus(@)]
  /\ UNCHANGED <<names, containers, lock, done, monitor, daemon, nameOf, runtime, sandbox, events, leaked, spent>>

FailStart(p) ==
  /\ Moves(p, "startFailed", "err")
  /\ status' = [status EXCEPT ![arg[p]] = StartFailedStatus(@)]
  /\ lock' = [lock EXCEPT ![arg[p]] = Nil]
  /\ UNCHANGED <<names, containers, done, monitor, daemon, nameOf, runtime, sandbox, events, leaked, spent>>

-----------------------------------------------------------------------------
(* StopContainer (container_stop.go).                                        *)

StopContainer(p) ==
  \E id \in Ids :
    /\ Arrives(p, id, IF id \in containers THEN "state" ELSE "err")
    /\ UNCHANGED <<memory, monitor, daemon, nameOf, runtime, sandbox, events, leaked>>

(* A container that is not running is left alone.  A request with no grace   *)
(* period goes straight to SIGKILL.                                          *)
StopRunning(p) ==
  /\ pc[p] = "state" /\ lock[arg[p]] = Nil
  /\ IF State(status[arg[p]]) = "RUNNING"
     THEN \E to \in {"term", "kill"} : Moves(p, "state", to)
     ELSE Moves(p, "state", "ok")
  /\ UNCHANGED <<memory, done, monitor, daemon, nameOf, runtime, sandbox, events, leaked, spent>>

(* The stop signal of the image is sent.  The image lookup and the parsing of *)
(* the signal can fail like the call.  The process may heed the signal or not,*)
(* and a task that is gone or finished is not an error.                       *)
SendStopSignal(p) ==
  \E out \in Outcomes(p) :
    /\ Calls(p, "term", out, "termWait", "err")
    /\ UNCHANGED <<memory, monitor, daemon, nameOf, runtime, sandbox, events, leaked>>

SendKill(p) ==
  \E out \in Outcomes(p) :
    /\ Calls(p, "kill", out, "killWait", "err")
    /\ killed' = IF Effective(out) /\ task[arg[p]] = "running" THEN killed \cup {arg[p]} ELSE killed
    /\ UNCHANGED <<memory, monitor, daemon, nameOf, snapshots, dirs, ctrs, task, sandbox, events, leaked>>

(* waitContainerStop: a poll finds the container exited or gone. *)
StopObserved(p) ==
  /\ pc[p] \in {"termWait", "killWait"}
  /\ \/ arg[p] \notin containers
     \/ lock[arg[p]] = Nil /\ State(status[arg[p]]) = "EXITED"
  /\ Moves(p, pc[p], "ok")
  /\ UNCHANGED <<memory, done, monitor, daemon, nameOf, runtime, sandbox, events, leaked, spent>>

(* waitContainerStop: the timer or the context ends the wait, after a poll *)
(* that found the container still there.                                   *)
StopWaitEnds(p) ==
  /\ \/ Moves(p, "termWait", "kill")
     \/ Moves(p, "killWait", "err")
  /\ UNCHANGED <<memory, done, monitor, daemon, nameOf, runtime, sandbox, events, leaked, spent>>

-----------------------------------------------------------------------------
(* RemoveContainer (container_remove.go).                                    *)

(* A container the store does not hold is removed already. *)
RemoveContainer(p) ==
  \E id \in Ids :
    /\ Arrives(p, id, IF id \in containers THEN "setRemoving" ELSE "ok")
    /\ UNCHANGED <<memory, monitor, daemon, nameOf, runtime, sandbox, events, leaked>>

SetRemoving(p) ==
  /\ pc[p] = "setRemoving" /\ lock[arg[p]] = Nil
  /\ IF Removable(status[arg[p]])
     THEN /\ Moves(p, "setRemoving", "rmSnapshot")
          /\ status' = [status EXCEPT ![arg[p]] = RemovingStatus(@, TRUE)]
     ELSE Moves(p, "setRemoving", "err") /\ UNCHANGED status
  /\ UNCHANGED <<names, containers, lock, done, monitor, daemon, nameOf, runtime, sandbox, events, leaked, spent>>

(* A snapshot that does not exist is not an error. *)
RemoveSnapshot(p) ==
  \E out \in Outcomes(p) :
    /\ Calls(p, "rmSnapshot", out, "rmDir", "resetRemoving")
    /\ snapshots' = IF Effective(out) THEN snapshots \ {arg[p]} ELSE snapshots
    /\ UNCHANGED <<memory, monitor, daemon, nameOf, dirs, ctrs, task, killed, sandbox, events, leaked>>

RemoveRootDir(p) ==
  \E out \in LocalOutcomes :
    /\ CallsLocal(p, "rmDir", out, "rmCtr", "resetRemoving")
    /\ dirs' = IF Effective(out) THEN dirs \ {arg[p]} ELSE dirs
    /\ UNCHANGED <<memory, monitor, daemon, nameOf, snapshots, ctrs, task, killed, sandbox, events, leaked>>

(* Mutant: any error of the deletion is logged and passed over. *)
DeleteContainerdContainerLogged(p) ==
  /\ \E out \in Outcomes(p) :
       /\ Calls(p, "rmCtr", out, "rmStore", "rmStore")
       /\ ctrs' = IF Effective(out) THEN ctrs \ {arg[p]} ELSE ctrs
  /\ UNCHANGED <<memory, monitor, daemon, nameOf, snapshots, dirs, task, killed, sandbox, events, leaked>>

(* The container store client returns errdefs errors, which carry no gRPC     *)
(* code: isContainerdGRPCNotFoundError does not recognise its "not found", and*)
(* a containerd container that does not exist fails the removal.              *)
DeleteContainerdContainer(p) ==
  /\ \/ /\ arg[p] \in ctrs
        /\ \E out \in Outcomes(p) :
             /\ Calls(p, "rmCtr", out, "rmStore", "resetRemoving")
             /\ ctrs' = IF Effective(out) THEN ctrs \ {arg[p]} ELSE ctrs
     \/ /\ arg[p] \notin ctrs
        /\ Fails(p, "rmCtr", "resetRemoving")
        /\ UNCHANGED ctrs
  /\ UNCHANGED <<memory, monitor, daemon, nameOf, snapshots, dirs, task, killed, sandbox, events, leaked>>

DeleteFromStore(p) ==
  /\ Moves(p, "rmStore", "rmName")
  /\ containers' = containers \ {arg[p]}
  /\ UNCHANGED <<names, status, lock, done, monitor, daemon, nameOf, runtime, sandbox, events, leaked, spent>>

ReleaseName(p) ==
  /\ Moves(p, "rmName", "ok")
  /\ names' = ReleaseByKey(names, arg[p])
  /\ UNCHANGED <<containers, status, lock, done, monitor, daemon, nameOf, runtime, sandbox, events, leaked, spent>>

ResetRemoving(p) ==
  /\ pc[p] = "resetRemoving" /\ lock[arg[p]] = Nil
  /\ Moves(p, "resetRemoving", "err")
  /\ status' = [status EXCEPT ![arg[p]] = RemovingStatus(@, FALSE)]
  /\ UNCHANGED <<names, containers, lock, done, monitor, daemon, nameOf, runtime, sandbox, events, leaked, spent>>

-----------------------------------------------------------------------------
(* The event monitor (events.go).                                            *)

ResetMemory ==
  /\ names' = NewRegistrar(Names, Ids)
  /\ containers' = {}
  /\ status' = [id \in Ids |-> ZeroStatus]
  /\ lock' = [id \in Ids |-> Nil]
  /\ pc' = [p \in Procs |-> "idle"]
  /\ arg' = [p \in Procs |-> Nil]
  /\ done' = {}
  /\ mpc' = "recv" /\ mev' = Nil
  /\ subscribed' = FALSE /\ stream' = <<>>

HasResources(id) == id \in snapshots \cup dirs \cup ctrs \/ task[id] # "none"

Dies ==
  /\ up' = FALSE
  /\ ResetMemory
  /\ leaked' = leaked \cup {id \in Ids : HasResources(id)}

IsInitExit(e, id) == e.type = "exit" /\ e.id = id /\ e.pid = InitPid

InitExitQueued(id) == \E i \in DOMAIN stream : IsInitExit(stream[i], id)

Subscribe ==
  /\ up
  /\ mpc = "recv"
  /\ ~subscribed
  /\ subscribed' = TRUE
  /\ UNCHANGED <<memory, handler, monitor, daemon, nameOf, runtime, sandbox, stream, missed, leaked, spent>>

MonitorAt(at, e) ==
  /\ mpc' = at
  /\ mev' = e
  /\ UNCHANGED <<names, containers, handler, daemon, nameOf, sandbox, leaked>>

(* handleEvent finds the container of the event in the store. *)
ReceiveEvent ==
  /\ up
  /\ mpc = "recv"
  /\ stream # <<>>
  /\ LET e == Head(stream) IN
       /\ e.id \in containers
       /\ MonitorAt(IF e.type = "exit" THEN "pid" ELSE "oom", e)
  /\ stream' = Tail(stream)
  /\ UNCHANGED <<status, lock, runtime, subscribed, missed, spent>>

(* The exit of a container that is not in the store is dropped. *)
DropExit ==
  /\ up
  /\ mpc = "recv"
  /\ stream # <<>>
  /\ Head(stream).type = "exit" /\ Head(stream).id \notin containers
  /\ stream' = Tail(stream)
  /\ UNCHANGED <<memory, handler, monitor, daemon, nameOf, runtime, sandbox, subscribed, missed, leaked, spent>>

(* The OOM of a container that is not in the store is logged and then handled *)
(* all the same, on the nil status storage of a zero Container.               *)
PanicOnOOM ==
  /\ up
  /\ mpc = "recv"
  /\ stream # <<>>
  /\ Head(stream).type = "oom" /\ Head(stream).id \notin containers
  /\ Dies
  /\ panicked' = TRUE
  /\ UNCHANGED <<nameOf, runtime, sandbox, missed, spent>>

(* Mutant: the status is read without the lock. *)
ComparePidUnlocked ==
  /\ up
  /\ mpc = "pid"
  /\ IF mev.pid = status[mev.id].pid THEN MonitorAt("delete", mev) ELSE MonitorAt("recv", Nil)
  /\ UNCHANGED <<status, lock, runtime, events, spent>>

(* The exit of a process that is not the init process is ignored.  Status.Get *)
(* waits for a StartContainer in progress.                                    *)
ComparePid ==
  /\ up
  /\ mpc = "pid"
  /\ lock[mev.id] = Nil
  /\ IF mev.pid = status[mev.id].pid THEN MonitorAt("delete", mev) ELSE MonitorAt("recv", Nil)
  /\ UNCHANGED <<status, lock, runtime, events, spent>>

(* A task that is gone is fine; any other error drops the event. *)
DeleteTask ==
  /\ up
  /\ mpc = "delete"
  /\ \/ /\ MonitorAt("update", mev)
        /\ task' = [task EXCEPT ![mev.id] = "none"]
        /\ UNCHANGED <<missed, spent>>
     \/ /\ May("monitor")
        /\ MonitorAt("recv", Nil)
        /\ missed' = missed \cup {mev.id}
        /\ Spend(1)
        /\ UNCHANGED task
  /\ UNCHANGED <<status, lock, snapshots, dirs, ctrs, killed, subscribed, stream>>

RecordExit ==
  /\ up
  /\ mpc = "update"
  /\ lock[mev.id] = Nil
  /\ MonitorAt("recv", Nil)
  /\ status' = [status EXCEPT ![mev.id] = ExitedStatus(@, mev.code)]
  /\ UNCHANGED <<lock, runtime, events, spent>>

RecordOOM ==
  /\ up
  /\ mpc = "oom"
  /\ lock[mev.id] = Nil
  /\ MonitorAt("recv", Nil)
  /\ status' = [status EXCEPT ![mev.id] = OOMStatus(@)]
  /\ UNCHANGED <<lock, runtime, events, spent>>

-----------------------------------------------------------------------------
(* containerd, the processes and the clients.                                *)

Publish(e) == stream' = IF subscribed THEN Append(stream, e) ELSE stream

(* The init process of a container exits, by itself or killed. *)
ProcessExits(id) ==
  /\ task[id] = "running"
  /\ task' = [task EXCEPT ![id] = "stopped"]
  /\ \E code \in ExitCodes : Publish(ExitEvent(id, InitPid, code))
  /\ missed' = IF subscribed THEN missed ELSE missed \cup {id}
  /\ UNCHANGED <<memory, handler, monitor, daemon, nameOf, snapshots, dirs, ctrs, killed, sandbox, subscribed, leaked, spent>>

ExecExits(id) ==
  /\ May("exec")
  /\ task[id] = "running"
  /\ \E code \in ExitCodes : Publish(ExitEvent(id, ExecPid, code))
  /\ Spend(1)
  /\ UNCHANGED <<memory, handler, monitor, daemon, nameOf, runtime, sandbox, subscribed, missed, leaked>>

(* An OOM of one of our containers, or of a container not in the store. *)
OOM(id) ==
  /\ May("oom")
  /\ id # Nil => task[id] \in {"running", "stopped"}
  /\ Publish(OOMEvent(id))
  /\ Spend(1)
  /\ UNCHANGED <<memory, handler, monitor, daemon, nameOf, runtime, sandbox, subscribed, missed, leaked>>

StreamBreaks ==
  /\ May("stream")
  /\ subscribed
  /\ subscribed' = FALSE
  /\ stream' = <<>>
  /\ missed' = missed \cup {id \in Ids : InitExitQueued(id)}
  /\ Spend(1)
  /\ UNCHANGED <<memory, handler, monitor, daemon, nameOf, runtime, sandbox, leaked>>

SandboxGoes ==
  /\ May("sandbox")
  /\ \/ sandbox = "ready" /\ sandbox' = "notready"
     \/ sandbox = "notready" /\ sandbox' = "removed"
  /\ Spend(1)
  /\ UNCHANGED <<memory, handler, monitor, daemon, nameOf, runtime, events, leaked>>

Cancel(p) ==
  /\ May("cancel")
  /\ pc[p] \in Busy
  /\ p \notin done
  /\ done' = done \cup {p}
  /\ Spend(1)
  /\ UNCHANGED <<memory, pc, arg, monitor, daemon, nameOf, runtime, sandbox, events, leaked>>

Crash ==
  /\ May("crash")
  /\ up
  /\ Dies
  /\ Spend(1)
  /\ UNCHANGED <<panicked, nameOf, runtime, sandbox, missed>>

(* NewCRIContainerdService makes new stores; nothing is recovered. *)
Restart ==
  /\ ~up
  /\ up' = TRUE
  /\ UNCHANGED <<memory, handler, monitor, panicked, nameOf, runtime, sandbox, events, leaked, spent>>

-----------------------------------------------------------------------------
Request(p) ==
  \/ CreateContainer(p) \/ CreateContainerRejected(p)
  \/ StartContainer(p) \/ StopContainer(p) \/ RemoveContainer(p)

CreateStep(p) ==
  \/ ResolveImage(p) \/ CreateSnapshot(p) \/ CreateRootDir(p) \/ CreateContainerdContainer(p)
  \/ AddToStore(p) \/ UndoRootDir(p) \/ UndoSnapshot(p) \/ UndoName(p)

StartStep(p) ==
  \/ BeginStart(p) \/ CheckSandbox(p) \/ PrepareRootfs(p) \/ CreateTask(p) \/ StartTask(p)
  \/ EndStart(p) \/ UndoTask(p) \/ FailStart(p)

StopStep(p) ==
  \/ StopRunning(p) \/ SendStopSignal(p) \/ SendKill(p) \/ StopObserved(p) \/ StopWaitEnds(p)

RemoveStep(p) ==
  \/ SetRemoving(p) \/ RemoveSnapshot(p) \/ RemoveRootDir(p) \/ DeleteContainerdContainer(p)
  \/ DeleteFromStore(p) \/ ReleaseName(p) \/ ResetRemoving(p)

HandlerStep(p) == CreateStep(p) \/ StartStep(p) \/ StopStep(p) \/ RemoveStep(p) \/ Respond(p)

MonitorStep ==
  \/ Subscribe \/ ReceiveEvent \/ DropExit \/ PanicOnOOM
  \/ ComparePid \/ DeleteTask \/ RecordExit \/ RecordOOM

EnvStep ==
  \/ \E id \in Ids : ProcessExits(id) \/ ExecExits(id)
  \/ \E id \in Ids \cup {Nil} : OOM(id)
  \/ \E p \in Procs : Cancel(p)
  \/ StreamBreaks \/ SandboxGoes \/ Crash \/ Restart

Next == (\E p \in Procs : Request(p) \/ HandlerStep(p)) \/ MonitorStep \/ EnvStep

Spec == Init /\ [][Next]_vars

(* Goroutines run, calls return, timers fire, and a process that is sent     *)
(* SIGKILL dies.  Nothing else is fair: clients need not call, and containers*)
(* need not exit by themselves.                                              *)
Fairness ==
  /\ \A p \in Procs : WF_vars(HandlerStep(p))
  /\ WF_vars(MonitorStep)
  /\ WF_vars(Restart)
  /\ \A id \in Ids : WF_vars(id \in killed /\ ProcessExits(id))

FairSpec == Spec /\ Fairness

-----------------------------------------------------------------------------
(* Safety.                                                                   *)

(* The registrar is one-to-one, and every container in the store holds its    *)
(* name: two live containers never share one, whatever creations fail and     *)
(* whatever removals race (Reserve in CreateContainer, ReleaseByName on its   *)
(* error path, ReleaseByKey in RemoveContainer).                              *)
NamesHeld ==
  /\ OneToOne(names)
  /\ \A id \in containers : names.nameToKey[nameOf[id]] = id

(* "In removing state, the container will not be started or removed again"    *)
(* (container_remove.go:105): one handler at most is between setting and      *)
(* resetting Removing, and no StartContainer is inside its transaction then.  *)
RemovalExclusive ==
  \A p \in Procs : pc[p] \in RemovePcs \ {"setRemoving"} =>
    /\ lock[arg[p]] = Nil
    /\ \A q \in Procs \ {p} : pc[q] \in RemovePcs \ {"setRemoving"} => arg[q] # arg[p]

(* "Do not remove container if it's still running" (container_remove.go:109): *)
(* while the init process of a container runs, its snapshot, its root         *)
(* directory and its containerd container are there.                          *)
RunningHasResources ==
  \A id \in Ids : task[id] = "running" => id \in snapshots \cap dirs \cap ctrs

(* What containerd and the file system hold for an id the store does not hold *)
(* belongs to a CreateContainer in progress or to a cleanup that failed: the  *)
(* defers of CreateContainer and the order of RemoveContainer miss nothing.   *)
NoOrphanResources ==
  \A id \in Ids \ containers :
    HasResources(id) => \/ id \in leaked
                        \/ \E p \in Procs : arg[p] = id /\ pc[p] \in CreatePcs

(* A container shown RUNNING whose init process has exited still has that exit*)
(* on its way to the monitor, or the exit was missed: no interleaving of the  *)
(* start transaction with the monitor makes it ignore the event ("update      *)
(* container status in one transaction to avoid race with event monitor",     *)
(* container_start.go:53).                                                    *)
ExitPending ==
  \A id \in Ids :
    State(status[id]) = "RUNNING" /\ task[id] # "running" =>
      \/ id \in missed
      \/ InitExitQueued(id)
      \/ mpc \in {"pid", "delete", "update"} /\ IsInitExit(mev, id)

(* A stop that reports success after waiting has seen the process go: EXITED, *)
(* or "container was removed means it is already stopped"                     *)
(* (container_stop.go:150).                                                   *)
StopMeansStopped ==
  [][\A p \in Procs :
       pc[p] \in {"termWait", "killWait"} /\ pc'[p] = "ok" => task[arg[p]] # "running"]_vars

(* "monitors and handles all container events" (events.go:41): no event makes *)
(* the monitor bring the service down.                                        *)
NoPanic == ~panicked

(* "Remove called for containerd container that does not exist"               *)
(* (container_remove.go:95) is not a failure: with a live context, removal     *)
(* goes on when the containerd container is gone already.                     *)
MissingContainerTolerated ==
  [][\A p \in Procs :
       pc[p] = "rmCtr" /\ arg[p] \notin ctrs /\ p \notin done /\ up' => pc'[p] # "resetRemoving"]_vars

(* What a client sees of the containers follows ContainerLifecycle. *)
View ==
  [id \in Ids |->
     IF id \in containers
     THEN [name |-> nameOf[id], state |-> State(status[id]), exitCode |-> status[id].exitCode]
     ELSE [name |-> Nil, state |-> IF status[id].removing THEN "REMOVED" ELSE "UNKNOWN", exitCode |-> 0]]

Lifecycle == INSTANCE ContainerLifecycle WITH view <- View, StartErrorCode <- errorStartExitCode

(* The service implements the life cycle it promises: every step of a handler, *)
(* of the monitor or of the environment is a step of ContainerLifecycle or     *)
(* changes nothing a client sees.                                              *)
LifecycleSpec == Lifecycle!Spec

-----------------------------------------------------------------------------
(* Liveness.                                                                 *)

(* Every request is answered: no handler waits for ever for the status lock,  *)
(* for the event monitor or for a timer.                                      *)
RequestsReturn == \A p \in Procs : pc[p] # "idle" ~> pc[p] = "idle"

(* A container whose init process was sent SIGKILL stops being RUNNING, unless*)
(* its exit event was missed ("Wait for a fixed timeout until container stop  *)
(* is observed by event monitor", container_stop.go:130).                     *)
KillObserved ==
  \A id \in Ids : id \in killed ~> (State(status[id]) # "RUNNING" \/ id \in missed)

(* An exit that reaches the monitor's stream is recorded, whatever handler is *)
(* at work on the container.                                                  *)
ExitObserved ==
  \A id \in Ids :
    InitExitQueued(id) ~> (State(status[id]) \in {"EXITED", "UNKNOWN"} \/ id \in missed)
=============================================================================
