------------------------- MODULE ContainerLifecycle -------------------------
(***************************************************************************)
(* What the container half of the runtime service promises a client: the   *)
(* containers it lists, each with its name, state and exit code.  A name    *)
(* belongs to one container at a time, a container only moves forward from *)
(* CREATED to RUNNING to EXITED, what is recorded of its exit stays, a      *)
(* RUNNING container is never removed and a removed one never comes back.   *)
(* A restart of the service forgets every container.                       *)
(***************************************************************************)
CONSTANTS Ids, Names, ExitCodes, StartErrorCode, Nil

VARIABLE view     \* what ListContainers shows of each id

Entry(name, state, code) == [name |-> name, state |-> state, exitCode |-> code]

Absent  == Entry(Nil, "UNKNOWN", 0)
Removed == Entry(Nil, "REMOVED", 0)

Init == view = [id \in Ids |-> Absent]

Create(id, n) ==
  /\ view[id] = Absent
  /\ \A other \in Ids : view[other].name # n
  /\ view' = [view EXCEPT ![id] = Entry(n, "CREATED", 0)]

Start(id) ==
  /\ view[id].state = "CREATED"
  /\ view' = [view EXCEPT ![id] = Entry(@.name, "RUNNING", @.exitCode)]

FailToStart(id) ==
  /\ view[id].state = "CREATED"
  /\ view' = [view EXCEPT ![id] = Entry(@.name, "EXITED", StartErrorCode)]

Exit(id, code) ==
  /\ view[id].state = "RUNNING"
  /\ view' = [view EXCEPT ![id] = Entry(@.name, "EXITED", code)]

Remove(id) ==
  /\ view[id].state \in {"CREATED", "EXITED"}
  /\ view' = [view EXCEPT ![id] = Removed]

Restart == view' = [id \in Ids |-> Absent]

Next ==
  \/ \E id \in Ids :
       \/ \E n \in Names : Create(id, n)
       \/ \E code \in ExitCodes : Exit(id, code)
       \/ Start(id) \/ FailToStart(id) \/ Remove(id)
  \/ Restart

Spec == Init /\ [][Next]_view
=============================================================================
