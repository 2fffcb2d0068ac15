-------------------------- MODULE SandboxInvariant --------------------------
(***************************************************************************)
(* The inductive invariant of SandboxService: who works on a sandbox, and  *)
(* what each of them has made or has taken away already.                   *)
(***************************************************************************)
EXTENDS SandboxService

(* p is a RunPodSandbox that has reserved its name, or runs its defers. *)
Running(p) == pc[p] \in RunPcs \/ p \in undoing

(* p is a StopPodSandbox or a RemovePodSandbox of a sandbox it has found. *)
Working(p) == pc[p] \in StopPcs \cup KillPcs \cup RemovePcs /\ p \notin undoing

(* Nothing is known of an id generateID has not returned yet. *)
FreshInv ==
  \A id \in Ids : nameOf[id] = Nil =>
    id \notin sandboxes /\ names.keyToName[id] = Nil

(* A RunPodSandbox works alone on its id, which holds its name and is not in  *)
(* the store; the others find an id in the store, and so nobody runs it.      *)
RunInv ==
  \A p \in Procs : Running(p) =>
    /\ nameOf[arg[p]] # Nil
    /\ names.nameToKey[nameOf[arg[p]]] = arg[p]
    /\ arg[p] \notin sandboxes
    /\ \A q \in Procs : Running(q) /\ arg[q] = arg[p] => q = p

Known(id) == nameOf[id] # Nil /\ \A p \in Procs : Running(p) => arg[p] # id

WorkInv ==
  /\ \A id \in sandboxes : Known(id)
  /\ \A p \in Procs : Working(p) => Known(arg[p])
  /\ \A p \in Procs : pc[p] = "rmName" => arg[p] \notin sandboxes

ListInv ==
  \A p \in Procs :
    /\ listed[p] # {} => pc[p] \in ListPcs \cup Returned
    /\ \A id \in listed[p] : Known(id)

NameInv == FreshInv /\ RunInv /\ WorkInv /\ ListInv /\ NamesHeld /\ NotReadyIsFinal

(* The containers of a sandbox that is being removed: those that were listed  *)
(* and are not removed yet, and the late ones.                                *)
LateInv ==
  /\ \A p \in Procs : pc[p] = "rmCtrs" => Containers(arg[p]) \subseteq todo[p] \cup late
  /\ \A p \in Procs : pc[p] \in {"rmCtr", "rmStore", "rmName"} => Containers(arg[p]) \subseteq late
  /\ OnlyLateContainersOutlive

UnusedInv == \A id \in Ids : nameOf[id] = Nil => ~HasResources(id)

(* What a RunPodSandbox has made and not undone, if no cleanup has failed. *)
MadeBy(at, id) ==
  /\ id \in snapshots => at \notin {"image", "view", "undoName"}
  /\ id \in ctrs => at \notin {"image", "view", "newCtr", "undoSnapshot", "undoName"}
  /\ id \in dirs => at \notin {"image", "view", "newCtr", "mkdir", "undoCtr", "undoSnapshot", "undoName"}
  /\ id \in mounts => at \in {"newTask", "setUp", "runTask", "add", "undoNet", "undoMount"} \cup KillPcs
  /\ id \in network => at \in {"runTask", "add", "undoNet"}
  /\ task[id] # "none" => at \in {"setUp", "runTask", "add", "undoNet"} \cup KillPcs

MadeInv ==
  \A p \in Procs : Running(p) =>
    /\ arg[p] \in leaked \/ MadeBy(pc[p], arg[p])
    /\ pc[p] \in {"setUp", "runTask", "add", "undoNet"} => task[arg[p]] # "none"

(* What a StopPodSandbox or a RemovePodSandbox has done already. *)
GoneFor(at, id) ==
  /\ at \in {"unmount", "umount"} \cup KillPcs => (id \in network => id \in skipped)
  /\ at \in KillPcs => id \notin mounts
  /\ at \in RemovePcs \ {"rmCheck"} => task[id] = "none"
  /\ at \in RemovePcs \ {"rmCheck", "rmSnapshot"} => id \notin snapshots
  /\ at \in {"rmCtr", "rmStore", "rmName"} => id \notin dirs \cup mounts
  /\ at \in {"rmStore", "rmName"} => id \notin ctrs

GoneInv == \A p \in Procs : Working(p) => GoneFor(pc[p], arg[p])

(* A network outlives the task of its sandbox only if it was skipped, or if   *)
(* it could not be torn down.                                                 *)
NetworkInv == \A id \in network : task[id] = "none" => id \in skipped \cup leaked

ResourceInv == UnusedInv /\ MadeInv /\ GoneInv /\ NetworkInv /\ NoOrphanResources

SandboxInv == TypeOK /\ NameInv /\ LateInv /\ ResourceInv
=============================================================================
