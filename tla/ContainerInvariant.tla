------------------------- MODULE ContainerInvariant -------------------------
(***************************************************************************)
(* The inductive invariant of ContainerService.  Its parts say who may be  *)
(* at work on a container in which state; the properties of ContainerService*)
(* follow from them, and each part needs the others to be preserved.       *)
(***************************************************************************)
EXTENDS ContainerService

(* p is inside the status transaction of StartContainer. *)
Starting(p) == pc[p] \in StartPcs \ {"lock"}

(* p is between setContainerRemoving and the end of RemoveContainer. *)
Removing(p) == pc[p] \in RemovePcs \ {"setRemoving"}

(* Nothing is known of an id generateID has not returned yet. *)
FreshInv ==
  \A id \in Ids : nameOf[id] = Nil =>
    /\ status[id] = ZeroStatus
    /\ id \notin containers
    /\ names.keyToName[id] = Nil

(* A creation works alone on its id, which has no status yet, and holds the *)
(* name it has reserved.                                                    *)
CreateInv ==
  \A p \in Procs : pc[p] \in CreatePcs =>
    /\ status[arg[p]] = ZeroStatus
    /\ arg[p] \notin containers
    /\ names.nameToKey[nameOf[arg[p]]] = arg[p]
    /\ \A q \in Procs : pc[q] \in CreatePcs /\ arg[q] = arg[p] => q = p

(* What the store holds, and what the other handlers work on, was created.  *)
KnownInv ==
  /\ \A id \in containers : status[id].createdAt
  /\ \A p \in Procs : pc[p] \in StartPcs \cup StopPcs \cup RemovePcs => status[arg[p]].createdAt

(* The fields of a status are set in the order of a container's life. *)
StatusInv ==
  \A id \in Ids :
    /\ status[id].createdAt \/ status[id] = ZeroStatus
    /\ status[id].pid = InitPid => status[id].startedAt /\ ~status[id].finishedAt

(* The write lock of a status belongs to the StartContainer inside its      *)
(* transaction, and until that ends the container stays startable.          *)
LockInv ==
  /\ \A id \in Ids : lock[id] # Nil => arg[lock[id]] = id /\ Starting(lock[id])
  /\ \A p \in Procs : Starting(p) =>
       /\ lock[arg[p]] = p
       /\ arg[p] \in containers
       /\ Startable(status[arg[p]])

(* One RemoveContainer at most is at work on a container; meanwhile it is    *)
(* marked, and not running.  What has left the store stays marked.          *)
RemoveInv ==
  /\ \A p \in Procs : Removing(p) =>
       /\ status[arg[p]].removing
       /\ State(status[arg[p]]) # "RUNNING"
       /\ arg[p] \in containers <=> pc[p] # "rmName"
       /\ \A q \in Procs : Removing(q) /\ arg[q] = arg[p] => q = p
  /\ \A id \in Ids \ containers : status[id].createdAt =>
       status[id].removing /\ State(status[id]) # "RUNNING"

(* An exit event names a process and an exit code of a container. *)
ExitEventOK(e) == e.type = "exit" => e.pid # NoPid /\ e.code \in ExitCodes

StreamInv == \A i \in DOMAIN stream : ExitEventOK(stream[i])

(* The monitor records an exit only for a container that was started. *)
MonitorInv ==
  /\ mpc # "recv" => ExitEventOK(mev) /\ status[mev.id].createdAt
  /\ mpc \in {"pid", "delete", "update"} => mev.type = "exit"
  /\ mpc \in {"delete", "update"} => mev.pid = InitPid /\ status[mev.id].startedAt

HandlerInv ==
  /\ NamesHeld /\ FreshInv /\ CreateInv /\ KnownInv
  /\ StatusInv /\ LockInv /\ RemoveInv

(* This much holds whatever the environment does. *)
IInv == TypeOK /\ HandlerInv /\ StreamInv /\ MonitorInv

-----------------------------------------------------------------------------
(* So does this, about the exits of processes and what is left behind.       *)

(* The init process runs, or has run, and the service knows it or is about to *)
(* record it.                                                                 *)
Recorded(id) ==
  \/ State(status[id]) = "RUNNING"
  \/ lock[id] # Nil /\ pc[lock[id]] = "started"

ExitHeld(id) == mpc \in {"pid", "delete", "update"} /\ IsInitExit(mev, id)

(* The exit of a recorded process is missed, on the stream or with the        *)
(* monitor, which will find the pid it compares.                              *)
PendingInv ==
  \A id \in Ids :
    /\ State(status[id]) = "RUNNING" => status[id].pid = InitPid
    /\ Recorded(id) /\ task[id] # "running" => id \in missed \/ InitExitQueued(id) \/ ExitHeld(id)

(* The task of a container that is not running has been deleted: by the       *)
(* monitor before it records the exit, or by the StartContainer that made it. *)
TaskGone(id) ==
  /\ task[id] # "none" => \/ State(status[id]) = "RUNNING"
                          \/ lock[id] # Nil /\ pc[lock[id]] \in {"runTask", "started", "undoTask"}
  /\ mpc = "update" /\ mev.id = id => task[id] = "none"

(* What is not there when a handler is at a place. *)
SnapshotGone == {"resolve", "snapshot", "undoName", "rmDir", "rmCtr", "rmStore", "rmName"}
DirGone      == {"resolve", "snapshot", "mkdir", "undoSnapshot", "undoName", "rmCtr", "rmStore", "rmName"}
CtrGone      == (CreatePcs \ {"add"}) \cup {"rmStore", "rmName"}

FilesGone(id) ==
  /\ \A p \in Procs : arg[p] = id =>
       /\ pc[p] \in SnapshotGone => id \notin snapshots
       /\ pc[p] \in DirGone => id \notin dirs
       /\ pc[p] \in CtrGone => id \notin ctrs
  /\ id \in snapshots \cup dirs \cup ctrs =>
       id \in containers \/ \E p \in Procs : arg[p] = id /\ pc[p] \in CreatePcs

OrphanInv == \A id \in Ids \ leaked : TaskGone(id) /\ FilesGone(id)

-----------------------------------------------------------------------------
(* The rest holds when no request's context ends before its handler does.   *)

(* The service was restarted since the container was created. *)
Forgotten(id) ==
  /\ nameOf[id] # Nil
  /\ status[id] = ZeroStatus
  /\ \A p \in Procs : pc[p] \in CreatePcs => arg[p] # id

(* The init process has been started, by a StartContainer that has recorded *)
(* it, is about to, or died before.                                         *)
Ran(id) ==
  \/ Forgotten(id)
  \/ status[id].startedAt
  \/ lock[id] # Nil /\ pc[lock[id]] = "started"

ExitOnItsWay(id) ==
  \/ InitExitQueued(id)
  \/ mpc \in {"pid", "delete", "update"} /\ IsInitExit(mev, id)

(* A running process is one the service knows to run, or has forgotten. *)
TaskInv ==
  \A id \in Ids :
    /\ task[id] \in {"running", "stopped"} => Ran(id)
    /\ task[id] = "running" => ~status[id].finishedAt /\ ~status[id].removing
    /\ ExitOnItsWay(id) => Ran(id) /\ task[id] # "running"

(* What the handler at a place relies on having been made for its id, or     *)
(* removed.                                                                 *)
PlaceInv(p) ==
  /\ pc[p] \in {"mkdir", "newCtr", "add"} => arg[p] \in snapshots
  /\ pc[p] \in {"newCtr", "add"} => arg[p] \in dirs
  /\ pc[p] = "add" => arg[p] \in ctrs
  /\ pc[p] \in {"newTask", "runTask", "started"} => arg[p] \in snapshots
  /\ pc[p] \in {"rmDir", "rmCtr", "rmStore", "rmName"} => arg[p] \notin snapshots

(* RemoveContainer removes the snapshot first: a created container that has *)
(* its snapshot has the rest, and one that lost it can not be started.      *)
ResourceInv ==
  /\ \A id \in snapshots : status[id].createdAt => id \in dirs \cap ctrs
  /\ \A p \in Procs : PlaceInv(p)

UncancelledInv == TaskInv /\ ResourceInv /\ RunningHasResources
=============================================================================
