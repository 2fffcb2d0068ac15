----------------------- MODULE ContainerCleanupProofs -----------------------
(***************************************************************************)
(* What ContainerService keeps whatever the environment does, the end of a *)
(* request's context and the death of the service included: the exit of a  *)
(* process it shows as running is not ignored, and what it made for a      *)
(* container it no longer holds is cleaned up, or the cleanup failed.      *)
(***************************************************************************)
EXTENDS ContainerInvariantProofs

USE ZenonT(30)

(* How a step of a handler changes statuses, locks and places. *)
Storing(p) == AddToStore(p) \/ EndStart(p) \/ FailStart(p) \/ SetRemoving(p) \/ ResetRemoving(p)
Arriving(p) ==
  \/ CreateContainerRejected(p) \/ StartContainer(p) \/ StopContainer(p)
  \/ RemoveContainer(p) \/ Respond(p)

LEMMA HandlerCases ==
  ASSUME NEW p \in Procs, Request(p) \/ HandlerStep(p)
  PROVE  \/ QuietAction(p) \/ Arriving(p) \/ Storing(p)
         \/ CreateContainer(p) \/ UndoName(p) \/ ReleaseName(p) \/ BeginStart(p) \/ DeleteFromStore(p)
BY DEF Request, HandlerStep, CreateStep, StartStep, StopStep, RemoveStep, QuietAction, Arriving, Storing

(* A handler makes no container RUNNING but the one it has started, and none *)
(* stops being RUNNING by a handler.                                         *)
LEMMA HandlerRunning ==
  ASSUME IInv, NEW p \in Procs, Request(p) \/ HandlerStep(p), NEW id \in Ids
  PROVE  /\ State(status'[id]) = "RUNNING" =>
              \/ State(status[id]) = "RUNNING" /\ status'[id].pid = status[id].pid
              \/ EndStart(p) /\ arg[p] = id /\ status'[id].pid = InitPid
         /\ State(status[id]) = "RUNNING" => State(status'[id]) = "RUNNING"
<1> USE DEF IInv, TypeOK, MemoryType, HandlerType
<1>0. status[id] \in Statuses
  OBVIOUS
<1>1. CASE status'[id] = status[id]
  BY <1>1
<1>2. CASE EndStart(p) /\ arg[p] = id
  <2>1. status'[id] = StartedStatus(status[id]) /\ Startable(status[id])
    BY <1>2 DEF EndStart, Moves, HandlerInv, LockInv, Starting, StartPcs
  <2>2. StartedStatus(status[id]) \in Statuses /\ StartedStatus(status[id]).pid = InitPid
    BY <1>0, StatusTypes, StartedFields
  <2>3. ~(State(status[id]) = "RUNNING")
    BY <1>0, <2>1, StateFacts
  <2> QED
    BY <1>2, <2>1, <2>2, <2>3
<1>3. CASE FailStart(p) /\ arg[p] = id
  <2>1. status'[id] = StartFailedStatus(status[id]) /\ Startable(status[id])
    BY <1>3 DEF FailStart, Moves, HandlerInv, LockInv, Starting, StartPcs
  <2>2. StartFailedStatus(status[id]) \in Statuses /\ StartFailedStatus(status[id]).finishedAt
    BY <1>0, StatusTypes, StartedFields
  <2>3. ~(State(status[id]) = "RUNNING") /\ ~(State(status'[id]) = "RUNNING")
    BY <1>0, <2>1, <2>2, StateFacts
  <2> QED
    BY <2>3
<1>4. CASE AddToStore(p) /\ arg[p] = id
  <2>1. status'[id] = CreatedStatus /\ status[id] = ZeroStatus
    BY <1>4 DEF AddToStore, Moves, HandlerInv, CreateInv, CreatePcs
  <2>2. CreatedStatus \in Statuses /\ ~CreatedStatus.startedAt
    BY StatusTypes DEF CreatedStatus, ZeroStatus
  <2>3. ~(State(status[id]) = "RUNNING") /\ ~(State(status'[id]) = "RUNNING")
    BY <1>0, <2>1, <2>2, ZeroFields, StateFacts
  <2> QED
    BY <2>3
<1>5. CASE (SetRemoving(p) \/ ResetRemoving(p)) /\ arg[p] = id
  <2>1. status'[id] = status[id] \/ \E b \in BOOLEAN : status'[id] = RemovingStatus(status[id], b)
    BY <1>5 DEF SetRemoving, ResetRemoving
  <2>2. ASSUME NEW b \in BOOLEAN, status'[id] = RemovingStatus(status[id], b)
        PROVE  State(status'[id]) = State(status[id]) /\ status'[id].pid = status[id].pid
    <3>1. RemovingStatus(status[id], b) \in Statuses
      BY <1>0, StatusTypes
    <3>2. LET t == RemovingStatus(status[id], b) IN
            /\ t.createdAt = status[id].createdAt /\ t.startedAt = status[id].startedAt
            /\ t.finishedAt = status[id].finishedAt /\ t.pid = status[id].pid
      BY <1>0, RemovingFields
    <3>3. State(RemovingStatus(status[id], b)) = State(status[id])
      BY <1>0, <3>1, <3>2, StateSame
    <3> QED
      BY <2>2, <3>2, <3>3
  <2> QED
    BY <2>1, <2>2
<1>6. \/ status'[id] = status[id]
      \/ (EndStart(p) \/ FailStart(p) \/ AddToStore(p) \/ SetRemoving(p) \/ ResetRemoving(p)) /\ arg[p] = id
  <2>1. CASE Storing(p)
    BY <2>1 DEF Storing, EndStart, FailStart, AddToStore, SetRemoving, ResetRemoving
  <2>2. CASE ~Storing(p)
    <3>1. UNCHANGED status
      BY <2>2, HandlerCases, QuietMoves, ArrivalMoves DEF Arriving, CreateContainer, UndoName, ReleaseName, BeginStart,
         DeleteFromStore, memory
    <3> QED
      BY <3>1
  <2> QED
    BY <2>1, <2>2
<1> QED
  BY <1>1, <1>2, <1>3, <1>4, <1>5, <1>6

(* Only BeginStart takes the lock of a status, and only the end of the same   *)
(* StartContainer gives it back.                                              *)
LEMMA HandlerLock ==
  ASSUME IInv, NEW p \in Procs, Request(p) \/ HandlerStep(p), NEW id \in Ids
  PROVE  \/ lock'[id] = lock[id]
         \/ BeginStart(p) /\ arg[p] = id /\ lock[id] = Nil /\ lock'[id] = p /\ Startable(status[id])
         \/ (EndStart(p) \/ FailStart(p)) /\ arg[p] = id /\ lock[id] = p /\ lock'[id] = Nil
<1> USE DEF IInv, TypeOK, MemoryType, HandlerType
<1>1. CASE BeginStart(p)
  BY <1>1 DEF BeginStart
<1>2. CASE EndStart(p) \/ FailStart(p)
  <2>1. lock' = [lock EXCEPT ![arg[p]] = Nil] /\ lock[arg[p]] = p
    BY <1>2 DEF EndStart, FailStart, Moves, HandlerInv, LockInv, Starting, StartPcs
  <2> QED
    BY <1>2, <2>1
<1>3. CASE AddToStore(p) \/ SetRemoving(p) \/ ResetRemoving(p)
  BY <1>3 DEF AddToStore, SetRemoving, ResetRemoving
<1>4. CASE CreateContainer(p) \/ UndoName(p) \/ ReleaseName(p) \/ DeleteFromStore(p)
  BY <1>4 DEF CreateContainer, UndoName, ReleaseName, DeleteFromStore
<1>5. CASE QuietAction(p) \/ Arriving(p)
  BY <1>5, QuietMoves, ArrivalMoves DEF Arriving, memory
<1> QED
  BY <1>1, <1>2, <1>3, <1>4, <1>5, HandlerCases DEF Storing

(* A handler moves itself; only StartTask takes it to "started". *)
LEMMA HandlerPlaces ==
  ASSUME IInv, NEW p \in Procs, Request(p) \/ HandlerStep(p)
  PROVE  /\ \A q \in Procs : q # p => pc'[q] = pc[q] /\ arg'[q] = arg[q]
         /\ pc'[p] = "started" => StartTask(p)
         /\ pc[p] \in {"runTask", "started", "undoTask"} => StartTask(p) \/ EndStart(p) \/ UndoTask(p)
         /\ UNCHANGED <<mpc, mev, stream, missed>>
<1> USE DEF IInv, TypeOK, HandlerType
<1> DEFINE Still == UNCHANGED <<mpc, mev, stream, missed>>
<1>1. CASE ResolveImage(p) \/ CreateSnapshot(p)
  <2>1. UNCHANGED arg /\ \E to \in {"snapshot", "mkdir", "undoName"} : pc' = [pc EXCEPT ![p] = to]
    BY <1>1 DEF ResolveImage, CreateSnapshot, Calls, Moves
  <2>2. Still
    BY <1>1 DEF ResolveImage, CreateSnapshot, monitor, events
  <2>3. pc[p] \notin {"runTask", "started", "undoTask"}
    BY <1>1 DEF ResolveImage, CreateSnapshot, Calls, Moves
  <2> QED
    BY <2>1, <2>2, <2>3
<1>2. CASE CreateRootDir(p) \/ CreateContainerdContainer(p)
  <2>1. UNCHANGED arg /\ \E to \in {"newCtr", "add", "undoDir", "undoSnapshot"} : pc' = [pc EXCEPT ![p] = to]
    BY <1>2 DEF CreateRootDir, CreateContainerdContainer, Calls, CallsLocal, Moves
  <2>2. Still
    BY <1>2 DEF CreateRootDir, CreateContainerdContainer, monitor, events
  <2>3. pc[p] \notin {"runTask", "started", "undoTask"}
    BY <1>2 DEF CreateRootDir, CreateContainerdContainer, Calls, CallsLocal, Moves
  <2> QED
    BY <2>1, <2>2, <2>3
<1>3. CASE UndoRootDir(p) \/ UndoSnapshot(p)
  <2>1. UNCHANGED arg /\ \E to \in {"undoSnapshot", "undoName"} : pc' = [pc EXCEPT ![p] = to]
    BY <1>3 DEF UndoRootDir, UndoSnapshot, Calls, CallsLocal, Moves
  <2>2. Still
    BY <1>3 DEF UndoRootDir, UndoSnapshot, monitor, events
  <2>3. pc[p] \notin {"runTask", "started", "undoTask"}
    BY <1>3 DEF UndoRootDir, UndoSnapshot, Calls, CallsLocal, Moves
  <2> QED
    BY <2>1, <2>2, <2>3
<1>4. CASE CheckSandbox(p) \/ PrepareRootfs(p) \/ CreateTask(p)
  <2>1. UNCHANGED arg /\ \E to \in {"mounts", "newTask", "runTask", "startFailed"} : pc' = [pc EXCEPT ![p] = to]
    BY <1>4 DEF CheckSandbox, PrepareRootfs, CreateTask, Calls, Fails, Moves
  <2>2. Still
    BY <1>4 DEF CheckSandbox, PrepareRootfs, CreateTask, monitor, events
  <2>3. pc[p] \notin {"runTask", "started", "undoTask"}
    BY <1>4 DEF CheckSandbox, PrepareRootfs, CreateTask, Calls, Fails, Moves
  <2> QED
    BY <2>1, <2>2, <2>3
<1>5. CASE StopRunning(p) \/ SendStopSignal(p) \/ SendKill(p)
  <2>1. UNCHANGED arg /\ \E to \in {"term", "kill", "ok", "termWait", "killWait", "err"} : pc' = [pc EXCEPT ![p] = to]
    BY <1>5 DEF StopRunning, SendStopSignal, SendKill, Calls, Moves
  <2>2. Still
    BY <1>5 DEF StopRunning, SendStopSignal, SendKill, monitor, events
  <2>3. pc[p] \notin {"runTask", "started", "undoTask"}
    BY <1>5 DEF StopRunning, SendStopSignal, SendKill, Calls, Moves
  <2> QED
    BY <2>1, <2>2, <2>3
<1>6. CASE StopObserved(p) \/ StopWaitEnds(p)
  <2>1. UNCHANGED arg /\ \E to \in {"ok", "kill", "err"} : pc' = [pc EXCEPT ![p] = to]
    BY <1>6 DEF StopObserved, StopWaitEnds, Moves
  <2>2. Still
    BY <1>6 DEF StopObserved, StopWaitEnds, monitor, events
  <2>3. pc[p] \notin {"runTask", "started", "undoTask"}
    BY <1>6 DEF StopObserved, StopWaitEnds, Moves
  <2> QED
    BY <2>1, <2>2, <2>3
<1>7. CASE RemoveSnapshot(p) \/ RemoveRootDir(p)
  <2>1. UNCHANGED arg /\ \E to \in {"rmDir", "rmCtr", "resetRemoving"} : pc' = [pc EXCEPT ![p] = to]
    BY <1>7 DEF RemoveSnapshot, RemoveRootDir, Calls, CallsLocal, Moves
  <2>2. Still
    BY <1>7 DEF RemoveSnapshot, RemoveRootDir, monitor, events
  <2>3. pc[p] \notin {"runTask", "started", "undoTask"}
    BY <1>7 DEF RemoveSnapshot, RemoveRootDir, Calls, CallsLocal, Moves
  <2> QED
    BY <2>1, <2>2, <2>3
<1>8. CASE DeleteContainerdContainer(p)
  <2>1. UNCHANGED arg /\ \E to \in {"rmStore", "resetRemoving"} : pc' = [pc EXCEPT ![p] = to]
    BY <1>8 DEF DeleteContainerdContainer, Calls, Fails, Moves
  <2>2. Still
    BY <1>8 DEF DeleteContainerdContainer, monitor, events
  <2>3. pc[p] \notin {"runTask", "started", "undoTask"}
    BY <1>8 DEF DeleteContainerdContainer, Calls, Fails, Moves
  <2> QED
    BY <2>1, <2>2, <2>3
<1>9. CASE AddToStore(p) \/ EndStart(p) \/ FailStart(p)
  <2>1. UNCHANGED arg /\ \E to \in {"ok", "err"} : pc' = [pc EXCEPT ![p] = to]
    BY <1>9 DEF AddToStore, EndStart, FailStart, Moves
  <2>2. Still
    BY <1>9 DEF AddToStore, EndStart, FailStart, monitor, events
  <2>3. pc[p] \in {"runTask", "started", "undoTask"} => EndStart(p)
    BY <1>9 DEF AddToStore, EndStart, FailStart, Moves
  <2> QED
    BY <2>1, <2>2, <2>3
<1>10. CASE SetRemoving(p) \/ ResetRemoving(p)
  <2>1. UNCHANGED arg /\ \E to \in {"rmSnapshot", "err"} : pc' = [pc EXCEPT ![p] = to]
    BY <1>10 DEF SetRemoving, ResetRemoving, Moves
  <2>2. Still
    BY <1>10 DEF SetRemoving, ResetRemoving, monitor, events
  <2>3. pc[p] \notin {"runTask", "started", "undoTask"}
    BY <1>10 DEF SetRemoving, ResetRemoving, Moves
  <2> QED
    BY <2>1, <2>2, <2>3
<1>11. CASE UndoName(p) \/ ReleaseName(p) \/ DeleteFromStore(p)
  <2>1. UNCHANGED arg /\ \E to \in {"ok", "err", "rmName"} : pc' = [pc EXCEPT ![p] = to]
    BY <1>11 DEF UndoName, ReleaseName, DeleteFromStore, Moves
  <2>2. Still
    BY <1>11 DEF UndoName, ReleaseName, DeleteFromStore, monitor, events
  <2>3. pc[p] \notin {"runTask", "started", "undoTask"}
    BY <1>11 DEF UndoName, ReleaseName, DeleteFromStore, Moves
  <2> QED
    BY <2>1, <2>2, <2>3
<1>12. CASE BeginStart(p)
  <2>1. UNCHANGED arg /\ \E to \in {"checkSandbox", "err"} : pc' = [pc EXCEPT ![p] = to]
    BY <1>12 DEF BeginStart, Moves
  <2>2. Still
    BY <1>12 DEF BeginStart, monitor, events
  <2>3. pc[p] \notin {"runTask", "started", "undoTask"}
    BY <1>12 DEF BeginStart, Moves
  <2> QED
    BY <2>1, <2>2, <2>3
<1>13. CASE StartTask(p) \/ UndoTask(p)
  <2>1. UNCHANGED arg /\ \E to \in {"started", "undoTask", "startFailed"} : pc' = [pc EXCEPT ![p] = to]
    BY <1>13 DEF StartTask, UndoTask, Calls, Moves
  <2>2. Still
    BY <1>13 DEF StartTask, UndoTask, monitor, events
  <2>3. UndoTask(p) => pc' = [pc EXCEPT ![p] = "startFailed"]
    BY DEF UndoTask, Calls, Moves
  <2> QED
    BY <1>13, <2>1, <2>2, <2>3
<1>14. CASE Arriving(p)
  <2>1. Still
    BY <1>14 DEF Arriving, CreateContainerRejected, StartContainer, StopContainer, RemoveContainer, Respond,
       monitor, events
  <2> QED
    BY <1>14, <2>1, ArrivalMoves DEF Arriving
<1>15. CASE CreateContainer(p)
  <2>1. /\ pc[p] = "idle" /\ pc' = [pc EXCEPT ![p] = "resolve"]
        /\ \E id \in Ids : arg' = [arg EXCEPT ![p] = id]
    BY <1>15 DEF CreateContainer, Arrives
  <2>2. Still
    BY <1>15 DEF CreateContainer, monitor, events
  <2> QED
    BY <2>1, <2>2
<1> QED
  BY HandlerCases, <1>1, <1>2, <1>3, <1>4, <1>5, <1>6, <1>7, <1>8, <1>9, <1>10, <1>11, <1>12, <1>13, <1>14, <1>15
     DEF QuietAction, Storing

(* Only StartContainer makes, starts or deletes the task of a container. *)
LEMMA HandlerTask ==
  ASSUME IInv, NEW p \in Procs, Request(p) \/ HandlerStep(p), NEW id \in Ids,
         ~((CreateTask(p) \/ StartTask(p) \/ UndoTask(p)) /\ arg[p] = id)
  PROVE  task'[id] = task[id]
<1>1. CASE StartTask(p) \/ CreateTask(p) \/ UndoTask(p)
  BY <1>1 DEF StartTask, CreateTask, UndoTask, IInv, TypeOK, RuntimeType
<1>2. CASE ~(StartTask(p) \/ CreateTask(p) \/ UndoTask(p)) /\ QuietAction(p)
  BY <1>2 DEF QuietAction, ResolveImage, CreateSnapshot, CreateRootDir, CreateContainerdContainer,
     UndoRootDir, UndoSnapshot, CheckSandbox, PrepareRootfs,
     StopRunning, SendStopSignal, SendKill, StopObserved, StopWaitEnds,
     RemoveSnapshot, RemoveRootDir, DeleteContainerdContainer, runtime
<1>3. CASE Arriving(p)
  BY <1>3, ArrivalMoves DEF Arriving, runtime
<1>4. CASE \/ Storing(p) \/ CreateContainer(p) \/ UndoName(p) \/ ReleaseName(p)
           \/ BeginStart(p) \/ DeleteFromStore(p)
  BY <1>4 DEF Storing, AddToStore, EndStart, FailStart, SetRemoving, ResetRemoving, CreateContainer, UndoName,
     ReleaseName, BeginStart, DeleteFromStore, runtime
<1> QED
  BY <1>1, <1>2, <1>3, <1>4, HandlerCases

-----------------------------------------------------------------------------
(* The exit of a process the service has recorded. *)

ExitKnown(id) == id \in missed \/ InitExitQueued(id) \/ ExitHeld(id)

LEMMA PendingFrame ==
  ASSUME PendingInv,
         \A id \in Ids : State(status'[id]) = "RUNNING" =>
            status'[id].pid = InitPid \/ (State(status[id]) = "RUNNING" /\ status'[id].pid = status[id].pid),
         \A id \in Ids : Recorded(id)' /\ task'[id] # "running" =>
            ExitKnown(id)' \/ (Recorded(id) /\ task[id] # "running" /\ (ExitKnown(id) => ExitKnown(id)'))
  PROVE  PendingInv'
<1>1. \A id \in Ids : State(status'[id]) = "RUNNING" => status'[id].pid = InitPid
  BY DEF PendingInv
<1>2. \A id \in Ids : Recorded(id)' /\ task'[id] # "running" => ExitKnown(id)'
  BY DEF PendingInv, ExitKnown
<1> QED
  BY <1>1, <1>2 DEF PendingInv, ExitKnown

(* The container of a recorded process is in the store. *)
LEMMA RecordedStored ==
  ASSUME IInv, NEW id \in Ids, Recorded(id)
  PROVE  id \in containers
<1> USE DEF IInv, TypeOK, MemoryType, HandlerInv
<1>1. CASE State(status[id]) = "RUNNING"
  <2>1. status[id].startedAt
    BY <1>1, StateFacts
  <2>2. status[id].createdAt
    BY <2>1, ZeroFields DEF StatusInv
  <2> QED
    BY <1>1, <2>2 DEF RemoveInv
<1>2. CASE lock[id] # Nil
  BY <1>2 DEF LockInv
<1> QED
  BY <1>1, <1>2 DEF Recorded

(* What is on the stream stays there until it is received. *)
LEMMA QueuedGrows ==
  ASSUME stream \in Seq(Events), NEW e \in Events, Publish(e), NEW id \in Ids,
         InitExitQueued(id) \/ (subscribed /\ IsInitExit(e, id))
  PROVE  InitExitQueued(id)'
<1>1. \A i \in DOMAIN stream : i \in DOMAIN stream' /\ stream'[i] = stream[i]
  BY SMTT(30) DEF Publish
<1>2. subscribed => Len(stream) + 1 \in DOMAIN stream' /\ stream'[Len(stream) + 1] = e
  BY SMTT(30) DEF Publish
<1>3. CASE InitExitQueued(id)
  <2>1. PICK i \in DOMAIN stream : IsInitExit(stream[i], id)
    BY <1>3 DEF InitExitQueued
  <2>2. i \in DOMAIN stream' /\ IsInitExit(stream'[i], id)
    BY <1>1, <2>1
  <2> QED
    BY <2>2 DEF InitExitQueued, IsInitExit
<1>4. CASE subscribed /\ IsInitExit(e, id)
  BY <1>2, <1>4 DEF InitExitQueued, IsInitExit
<1> QED
  BY <1>3, <1>4

LEMMA QueuedStays ==
  ASSUME stream \in Seq(Events), stream # <<>>, stream' = Tail(stream), NEW id \in Ids, InitExitQueued(id)
  PROVE  InitExitQueued(id)' \/ IsInitExit(Head(stream), id)
<1>1. \A i \in DOMAIN stream : i = 1 \/ (i - 1 \in DOMAIN Tail(stream) /\ Tail(stream)[i - 1] = stream[i])
  BY SMTT(30)
<1>2. Head(stream) = stream[1]
  BY SMTT(30)
<1>3. PICK i \in DOMAIN stream : IsInitExit(stream[i], id)
  BY DEF InitExitQueued
<1>4. CASE i = 1
  BY <1>2, <1>3, <1>4
<1>5. CASE i - 1 \in DOMAIN Tail(stream) /\ Tail(stream)[i - 1] = stream[i]
  BY <1>3, <1>5 DEF InitExitQueued, IsInitExit
<1> QED
  BY <1>1, <1>4, <1>5

LEMMA PendingHandlerStep ==
  ASSUME IInv, PendingInv, NEW p \in Procs, Request(p) \/ HandlerStep(p)
  PROVE  PendingInv'
<1> USE DEF IInv, TypeOK, MemoryType, HandlerType, RuntimeType
<1>1. \A id \in Ids : State(status'[id]) = "RUNNING" =>
        status'[id].pid = InitPid \/ (State(status[id]) = "RUNNING" /\ status'[id].pid = status[id].pid)
  BY HandlerRunning
<1>2. /\ \A q \in Procs : q # p => pc'[q] = pc[q] /\ arg'[q] = arg[q]
      /\ pc'[p] = "started" => StartTask(p)
      /\ UNCHANGED <<mpc, mev, stream, missed>>
  BY HandlerPlaces
<1>3. \A id \in Ids : ExitKnown(id) => ExitKnown(id)'
  BY <1>2 DEF ExitKnown, InitExitQueued, ExitHeld
<1>4. ASSUME NEW id \in Ids, Recorded(id)'
      PROVE  Recorded(id) \/ (StartTask(p) /\ arg[p] = id /\ pc'[p] = "started")
  <2>1. CASE State(status'[id]) = "RUNNING"
    <3>1. State(status[id]) = "RUNNING" \/ (EndStart(p) /\ arg[p] = id)
      BY <2>1, HandlerRunning
    <3>2. EndStart(p) /\ arg[p] = id => lock[id] = p /\ pc[p] = "started"
      BY DEF EndStart, Moves, HandlerInv, LockInv, Starting, StartPcs
    <3> QED
      BY <3>1, <3>2, NilAssumption DEF Recorded
  <2>2. CASE lock'[id] # Nil /\ pc'[lock'[id]] = "started"
    <3>1. CASE lock'[id] = lock[id] /\ lock[id] # p
      BY <1>2, <2>2, <3>1 DEF Recorded
    <3>2. CASE lock'[id] = lock[id] /\ lock[id] = p
      BY <1>2, <2>2, <3>2 DEF HandlerInv, LockInv
    <3>3. CASE BeginStart(p) /\ lock'[id] = p
      <4>1. pc'[p] # "started"
        BY <3>3 DEF BeginStart, Moves
      <4> QED
        BY <2>2, <3>3, <4>1
    <3> QED
      BY <2>2, <3>1, <3>2, <3>3, HandlerLock
  <2> QED
    BY <1>4, <2>1, <2>2 DEF Recorded
<1>5. ASSUME NEW id \in Ids, Recorded(id)', task'[id] # "running"
      PROVE  Recorded(id) /\ task[id] # "running"
  <2>1. CASE StartTask(p) /\ arg[p] = id
    <3>1. PICK out \in Outcomes(p) :
            /\ pc' = [pc EXCEPT ![p] = IF out = "ok" THEN "started" ELSE "undoTask"]
            /\ task' = IF Effective(out) THEN [task EXCEPT ![arg[p]] = "running"] ELSE task
      BY <2>1 DEF StartTask, Calls, Moves
    <3>2. out # "ok"
      BY <1>5, <2>1, <3>1 DEF Effective
    <3>3. ~Effective(out)
      BY <1>5, <2>1, <3>1
    <3>4. pc'[p] # "started"
      BY <3>1, <3>2
    <3> QED
      BY <1>4, <1>5, <3>1, <3>3, <3>4
  <2>2. CASE (CreateTask(p) \/ UndoTask(p)) /\ arg[p] = id
    <3>1. lock[id] = p /\ Startable(status[id]) /\ pc[p] # "started"
      BY <2>2 DEF CreateTask, UndoTask, Calls, Moves, HandlerInv, LockInv, Starting, StartPcs
    <3>2. ~Recorded(id)
      BY <3>1, StateFacts DEF Recorded
    <3>3. pc'[p] # "started"
      BY <2>2 DEF CreateTask, UndoTask, Calls, Moves
    <3> QED
      BY <1>4, <1>5, <3>2, <3>3
  <2>3. CASE ~((StartTask(p) \/ CreateTask(p) \/ UndoTask(p)) /\ arg[p] = id)
    <3>1. task'[id] = task[id]
      BY <2>3, HandlerTask
    <3> QED
      BY <1>4, <1>5, <2>3, <3>1
  <2> QED
    BY <2>1, <2>2, <2>3
<1> QED
  BY <1>1, <1>3, <1>5, PendingFrame

LEMMA PendingFrameStill ==
  ASSUME PendingInv, UNCHANGED <<status, lock, pc>>,
         \A id \in Ids : Recorded(id) => \/ ExitKnown(id)'
                                         \/ task'[id] = "running"
                                         \/ task[id] # "running" /\ (ExitKnown(id) => ExitKnown(id)')
  PROVE  PendingInv'
<1>1. \A id \in Ids : Recorded(id)' <=> Recorded(id)
  BY DEF Recorded
<1> QED
  BY <1>1, PendingFrame

LEMMA ZeroNotRunning == ~(State(ZeroStatus) = "RUNNING")
<1>1. ZeroStatus \in Statuses
  BY SMTT(30) DEF ZeroStatus, Statuses, NoPid, InitPid
<1> QED
  BY <1>1, ZeroFields, StateFacts

LEMMA PendingDies ==
  ASSUME Dies
  PROVE  PendingInv'
<1>1. \A id \in Ids : status'[id] = ZeroStatus /\ lock'[id] = Nil
  BY DEF Dies, ResetMemory
<1>2. ~(State(ZeroStatus) = "RUNNING")
  BY ZeroNotRunning
<1> QED
  BY <1>1, <1>2 DEF PendingInv, Recorded

LEMMA PendingMonitorStep ==
  ASSUME IInv, PendingInv, MonitorStep
  PROVE  PendingInv'
<1> USE DEF IInv, TypeOK, MemoryType, EventType, MonitorType
<1>1. CASE Subscribe
  <2>1. UNCHANGED <<status, lock, pc, task, missed, stream, mpc, mev>>
    BY <1>1 DEF Subscribe, memory, handler, runtime, monitor
  <2> QED
    BY <2>1, PendingFrameStill DEF ExitKnown, InitExitQueued, ExitHeld
<1>2. CASE ReceiveEvent
  <2>1. /\ UNCHANGED <<status, lock, pc, task, missed>>
        /\ stream # <<>> /\ stream' = Tail(stream) /\ mpc = "recv" /\ mev' = Head(stream)
        /\ mpc' = IF Head(stream).type = "exit" THEN "pid" ELSE "oom"
    BY <1>2 DEF ReceiveEvent, MonitorAt, handler, runtime
  <2>2. ASSUME NEW id \in Ids, ExitKnown(id) PROVE ExitKnown(id)'
    <3>1. CASE id \in missed
      BY <2>1, <3>1 DEF ExitKnown
    <3>2. CASE InitExitQueued(id)
      <4>1. InitExitQueued(id)' \/ IsInitExit(Head(stream), id)
        BY <2>1, <3>2, QueuedStays
      <4>2. IsInitExit(Head(stream), id) => ExitHeld(id)'
        BY <2>1 DEF IsInitExit, ExitHeld
      <4> QED
        BY <4>1, <4>2 DEF ExitKnown
    <3> QED
      BY <2>1, <2>2, <3>1, <3>2 DEF ExitKnown, ExitHeld
  <2> QED
    BY <2>1, <2>2, PendingFrameStill
<1>3. CASE DropExit
  <2>1. /\ UNCHANGED <<status, lock, pc, task, missed, mpc, mev>>
        /\ stream # <<>> /\ stream' = Tail(stream) /\ Head(stream).id \notin containers
    BY <1>3 DEF DropExit, memory, handler, monitor, runtime
  <2>2. ASSUME NEW id \in Ids, Recorded(id), ExitKnown(id) PROVE ExitKnown(id)'
    <3>1. ~IsInitExit(Head(stream), id)
      BY <2>1, <2>2, RecordedStored DEF IsInitExit
    <3>2. InitExitQueued(id) => InitExitQueued(id)'
      BY <2>1, <3>1, QueuedStays
    <3> QED
      BY <2>1, <2>2, <3>2 DEF ExitKnown, ExitHeld
  <2> QED
    BY <2>1, <2>2, PendingFrameStill
<1>4. CASE PanicOnOOM
  BY <1>4, PendingDies DEF PanicOnOOM
<1>5. CASE ComparePid
  <2>1. /\ UNCHANGED <<status, lock, pc, task, missed, stream>>
        /\ mpc = "pid" /\ lock[mev.id] = Nil
        /\ mev.pid = status[mev.id].pid => mpc' = "delete" /\ mev' = mev
    BY <1>5 DEF ComparePid, MonitorAt, handler, runtime, events
  <2>2. ASSUME NEW id \in Ids, Recorded(id), ExitKnown(id) PROVE ExitKnown(id)'
    <3>1. CASE ExitHeld(id)
      <4>1. mev.id = id /\ mev.pid = InitPid /\ IsInitExit(mev, id)
        BY <3>1 DEF ExitHeld, IsInitExit
      <4>2. status[id].pid = InitPid
        BY <2>1, <2>2, <4>1 DEF Recorded, PendingInv
      <4> QED
        BY <2>1, <4>1, <4>2 DEF ExitKnown, ExitHeld
    <3>2. CASE id \in missed \/ InitExitQueued(id)
      BY <2>1, <3>2 DEF ExitKnown, InitExitQueued
    <3> QED
      BY <2>2, <3>1, <3>2 DEF ExitKnown
  <2> QED
    BY <2>1, <2>2, PendingFrameStill
<1>6. CASE DeleteTask
  <2>1. /\ UNCHANGED <<status, lock, pc, stream>>
        /\ mpc = "delete" /\ mev.id \in Ids
        /\ \/ mpc' = "update" /\ mev' = mev /\ task' = [task EXCEPT ![mev.id] = "none"] /\ missed' = missed
           \/ missed' = missed \cup {mev.id} /\ task' = task
    BY <1>6 DEF DeleteTask, MonitorAt, handler, Events
  <2>2. IsInitExit(mev, mev.id)
    BY <2>1 DEF MonitorInv, IsInitExit
  <2>3. ASSUME NEW id \in Ids, ExitKnown(id) PROVE ExitKnown(id)'
    <3>1. CASE ExitHeld(id)
      BY <2>1, <3>1 DEF ExitHeld, ExitKnown, IsInitExit
    <3>2. CASE id \in missed \/ InitExitQueued(id)
      BY <2>1, <3>2 DEF ExitKnown, InitExitQueued
    <3> QED
      BY <2>3, <3>1, <3>2 DEF ExitKnown
  <2>4. ExitKnown(mev.id)
    BY <2>1, <2>2 DEF ExitKnown, ExitHeld
  <2>5. \A id \in Ids : id # mev.id => task'[id] = task[id]
    BY <2>1, SMTT(30) DEF RuntimeType
  <2>6. ASSUME NEW id \in Ids
        PROVE  \/ ExitKnown(id)' \/ task'[id] = "running"
               \/ task[id] # "running" /\ (ExitKnown(id) => ExitKnown(id)')
    <3>1. CASE id = mev.id
      BY <2>3, <2>4, <3>1
    <3>2. CASE id # mev.id
      BY <2>3, <2>5, <3>2
    <3> QED
      BY <3>1, <3>2
  <2> QED
    BY <2>1, <2>6, PendingFrameStill
<1>7. CASE RecordExit
  <2>0. PICK m \in Ids : m = mev.id
    BY <1>7 DEF RecordExit, Events
  <2>1. /\ UNCHANGED <<lock, pc, task, missed, stream>>
        /\ mpc = "update" /\ lock[m] = Nil
        /\ status' = [status EXCEPT ![m] = ExitedStatus(status[m], mev.code)]
    BY <1>7, <2>0 DEF RecordExit, MonitorAt, handler, runtime, events
  <2> DEFINE t == ExitedStatus(status[m], mev.code)
  <2>2. t \in Statuses /\ t.finishedAt
    <3>1. status[m] \in Statuses /\ mev.code \in Nat
      BY <2>1 DEF Events
    <3> QED
      BY <3>1, ExitedFields, StatusTypes
  <2>3. status'[m] = t /\ \A id \in Ids : id # m => status'[id] = status[id]
    BY <2>1
  <2>4. State(status'[m]) # "RUNNING"
    BY <2>2, <2>3, StateFacts
  <2>5. ~Recorded(m)'
    BY <2>1, <2>4 DEF Recorded
  <2>6. \A id \in Ids : id # m => (Recorded(id)' <=> Recorded(id))
    BY <2>1, <2>3 DEF Recorded
  <2>7. \A id \in Ids : id # m => (ExitKnown(id) => ExitKnown(id)')
    BY <2>0, <2>1 DEF ExitKnown, ExitHeld, IsInitExit, InitExitQueued
  <2> HIDE DEF t
  <2>8. \A id \in Ids : State(status'[id]) = "RUNNING" => State(status[id]) = "RUNNING" /\ status'[id].pid = status[id].pid
    BY <2>3, <2>4
  <2>9. \A id \in Ids : Recorded(id)' /\ task'[id] # "running" =>
          Recorded(id) /\ task[id] # "running" /\ (ExitKnown(id) => ExitKnown(id)')
    BY <2>1, <2>5, <2>6, <2>7
  <2> QED
    BY <2>8, <2>9, PendingFrame
<1>8. CASE RecordOOM
  <2>1. /\ UNCHANGED <<lock, pc, task, missed, stream>>
        /\ mpc = "oom" /\ mev.id \in Ids
        /\ status' = [status EXCEPT ![mev.id] = OOMStatus(status[mev.id])]
    BY <1>8 DEF RecordOOM, MonitorAt, handler, runtime, events, Events
  <2> DEFINE t == OOMStatus(status[mev.id])
  <2>2. State(t) = State(status[mev.id]) /\ t.pid = status[mev.id].pid
    BY <2>1, OOMFields, StatusTypes, StateSame
  <2>3. status'[mev.id] = t /\ \A id \in Ids : id # mev.id => status'[id] = status[id]
    BY <2>1
  <2> HIDE DEF t
  <2>4. \A id \in Ids : State(status'[id]) = State(status[id]) /\ status'[id].pid = status[id].pid
    BY <2>2, <2>3
  <2>5. \A id \in Ids : Recorded(id)' <=> Recorded(id)
    BY <2>1, <2>4 DEF Recorded
  <2>6. \A id \in Ids : ExitKnown(id) => ExitKnown(id)'
    BY <2>1 DEF ExitKnown, ExitHeld, InitExitQueued
  <2> QED
    BY <2>1, <2>4, <2>5, <2>6, PendingFrame
<1> QED
  BY <1>1, <1>2, <1>3, <1>4, <1>5, <1>6, <1>7, <1>8 DEF MonitorStep

LEMMA PendingEnvStep ==
  ASSUME IInv, PendingInv, EnvStep
  PROVE  PendingInv'
<1> USE DEF IInv, TypeOK, MemoryType, EventType, RuntimeType
<1>0. ASSUME UNCHANGED <<status, lock, pc, task, missed, mpc, mev>>,
             \A id \in Ids : InitExitQueued(id) => InitExitQueued(id)'
      PROVE  PendingInv'
  BY <1>0, PendingFrameStill DEF ExitKnown, ExitHeld
<1>1. ASSUME NEW id \in Ids, ProcessExits(id) PROVE PendingInv'
  <2>1. /\ UNCHANGED <<status, lock, pc, mpc, mev>> /\ task' = [task EXCEPT ![id] = "stopped"]
        /\ missed' = IF subscribed THEN missed ELSE missed \cup {id}
    BY <1>1 DEF ProcessExits, memory, handler, monitor
  <2>2. PICK code \in ExitCodes : Publish(ExitEvent(id, InitPid, code))
    BY <1>1 DEF ProcessExits
  <2>3. ExitEvent(id, InitPid, code) \in Events
    BY EventTypes
  <2>4. IsInitExit(ExitEvent(id, InitPid, code), id)
    BY DEF IsInitExit, ExitEvent
  <2>5. subscribed => InitExitQueued(id)'
    BY <2>2, <2>3, <2>4, QueuedGrows
  <2>6. ExitKnown(id)'
    BY <2>1, <2>5 DEF ExitKnown
  <2>7. \A i \in Ids : InitExitQueued(i) => InitExitQueued(i)'
    BY <2>2, <2>3, QueuedGrows
  <2>8. \A i \in Ids : ExitKnown(i) => ExitKnown(i)'
    BY <2>1, <2>7 DEF ExitKnown, ExitHeld
  <2>9. \A i \in Ids : i # id => task'[i] = task[i]
    BY <2>1
  <2> QED
    BY <2>1, <2>6, <2>8, <2>9, PendingFrameStill
<1>2. ASSUME NEW id \in Ids, ExecExits(id) PROVE PendingInv'
  <2>1. PICK code \in ExitCodes : Publish(ExitEvent(id, ExecPid, code))
    BY <1>2 DEF ExecExits
  <2>2. ExitEvent(id, ExecPid, code) \in Events
    BY EventTypes
  <2>3. \A i \in Ids : InitExitQueued(i) => InitExitQueued(i)'
    BY <2>1, <2>2, QueuedGrows
  <2> QED
    BY <1>0, <1>2, <2>3 DEF ExecExits, memory, handler, monitor, runtime
<1>3. ASSUME NEW id \in Ids \cup {Nil}, OOM(id) PROVE PendingInv'
  <2>1. Publish(OOMEvent(id)) /\ OOMEvent(id) \in Events
    BY <1>3, EventTypes DEF OOM
  <2>2. \A i \in Ids : InitExitQueued(i) => InitExitQueued(i)'
    BY <2>1, QueuedGrows
  <2> QED
    BY <1>0, <1>3, <2>2 DEF OOM, memory, handler, monitor, runtime
<1>4. CASE StreamBreaks
  <2>1. /\ UNCHANGED <<status, lock, pc, task, mpc, mev>>
        /\ missed' = missed \cup {id \in Ids : InitExitQueued(id)}
    BY <1>4 DEF StreamBreaks, memory, handler, monitor, runtime
  <2>2. \A id \in Ids : ExitKnown(id) => ExitKnown(id)'
    BY <2>1 DEF ExitKnown, ExitHeld
  <2> QED
    BY <2>1, <2>2, PendingFrameStill
<1>5. ASSUME NEW p \in Procs, Cancel(p) PROVE PendingInv'
  BY <1>0, <1>5 DEF Cancel, memory, monitor, runtime, events, InitExitQueued
<1>6. CASE SandboxGoes \/ Restart
  BY <1>0, <1>6 DEF SandboxGoes, Restart, memory, handler, monitor, runtime, events, InitExitQueued
<1>7. CASE Crash
  BY <1>7, PendingDies DEF Crash
<1> QED
  BY <1>1, <1>2, <1>3, <1>4, <1>5, <1>6, <1>7 DEF EnvStep

LEMMA PendingStep == IInv /\ PendingInv /\ [Next]_vars => PendingInv'
<1> SUFFICES ASSUME IInv, PendingInv, [Next]_vars PROVE PendingInv'
  OBVIOUS
<1>1. CASE UNCHANGED vars
  BY <1>1, PendingFrameStill DEF vars, memory, handler, monitor, runtime, events, ExitKnown, ExitHeld, InitExitQueued
<1> QED
  BY <1>1, PendingHandlerStep, PendingMonitorStep, PendingEnvStep DEF Next

(* ExitPending of ContainerService, whatever the environment does: the exit  *)
(* of a container shown RUNNING whose process is gone is never ignored by the *)
(* event monitor, because StartContainer records the process under the lock  *)
(* for which handleEvent waits (container_start.go:53, events.go:103).        *)
THEOREM ExitsStayPending == Spec => []ExitPending
<1>1. Init => PendingInv
  <2>1. ~(State(ZeroStatus) = "RUNNING")
    BY ZeroNotRunning
  <2> QED
    BY <2>1 DEF Init, PendingInv, Recorded
<1>2. PendingInv => ExitPending
  BY DEF PendingInv, ExitPending, Recorded, ExitHeld
<1> QED
  BY <1>1, <1>2, PendingStep, Invariance, PTL DEF Spec

-----------------------------------------------------------------------------
(* What is left behind. *)

(* A task that is there when its StartContainer ends is that of a container  *)
(* shown RUNNING, or its deletion failed.                                    *)
LEMMA TaskGoneHandler ==
  ASSUME IInv, NEW p \in Procs, Request(p) \/ HandlerStep(p), NEW id \in Ids, TaskGone(id), id \notin leaked'
  PROVE  TaskGone(id)'
<1> USE DEF IInv, TypeOK, MemoryType, HandlerType, RuntimeType
<1> DEFINE Held == {"runTask", "started", "undoTask"}
<1>1. /\ \A q \in Procs : q # p => pc'[q] = pc[q]
      /\ pc[p] \in Held => StartTask(p) \/ EndStart(p) \/ UndoTask(p)
      /\ UNCHANGED <<mpc, mev>>
  BY HandlerPlaces
<1>2. ASSUME (CreateTask(p) \/ StartTask(p) \/ UndoTask(p)) /\ arg[p] = id
      PROVE  lock'[id] = p /\ Startable(status[id])
  <2>1. lock[id] = p /\ Startable(status[id])
    BY <1>2 DEF CreateTask, StartTask, UndoTask, Calls, Moves, HandlerInv, LockInv, Starting, StartPcs
  <2>2. UNCHANGED lock
    BY <1>2 DEF CreateTask, StartTask, UndoTask, memory
  <2> QED
    BY <2>1, <2>2
<1>3. CASE UndoTask(p) /\ arg[p] = id
  <2>1. PICK out \in Outcomes(p) :
          /\ task' = IF Effective(out) THEN [task EXCEPT ![arg[p]] = "none"] ELSE task
          /\ Leaks(arg[p], out = "refused")
    BY <1>3 DEF UndoTask
  <2>2. out # "refused"
    BY <1>3, <2>1 DEF Leaks
  <2>3. Effective(out)
    BY <2>2 DEF Outcomes, Effective
  <2>4. task'[id] = "none"
    BY <1>3, <2>1, <2>3
  <2> QED
    BY <2>4 DEF TaskGone
<1>4. CASE (CreateTask(p) \/ StartTask(p)) /\ arg[p] = id
  <2>1. ~(mpc = "update" /\ mev.id = id)
    <3>1. ~status[id].startedAt
      BY <1>2, <1>4, StateFacts
    <3> QED
      BY <3>1 DEF MonitorInv
  <2>2. pc'[p] \in Held \/ (CreateTask(p) /\ task' = task /\ pc[p] \notin Held)
    <3>1. CASE CreateTask(p)
      <4>1. PICK out \in Outcomes(p) :
              /\ pc[p] = "newTask"
              /\ pc' = [pc EXCEPT ![p] = IF out = "ok" THEN "runTask" ELSE "startFailed"]
              /\ task' = IF Effective(out) THEN [task EXCEPT ![arg[p]] = "created"] ELSE task
              /\ Leaks(arg[p], out = "lost")
        BY <3>1 DEF CreateTask, Calls, Moves
      <4>2. out # "lost"
        BY <1>4, <4>1 DEF Leaks
      <4>3. out = "ok" \/ ~Effective(out)
        BY <4>2 DEF Effective
      <4> QED
        BY <3>1, <4>1, <4>3
    <3>2. CASE StartTask(p)
      BY <3>2 DEF StartTask, Calls, Moves
    <3> QED
      BY <1>4, <3>1, <3>2
  <2>3. CASE pc'[p] \in Held
    BY <1>1, <1>2, <1>4, <2>1, <2>3, NilAssumption DEF TaskGone
  <2>4. CASE CreateTask(p) /\ task' = task /\ pc[p] \notin Held
    <3>1. lock[id] = p
      BY <1>4, <2>4 DEF CreateTask, Calls, Moves, HandlerInv, LockInv, Starting, StartPcs
    <3>2. State(status[id]) # "RUNNING"
      BY <1>2, <1>4, StateFacts
    <3>3. task[id] = "none"
      BY <2>4, <3>1, <3>2 DEF TaskGone
    <3> QED
      BY <2>1, <2>4, <3>3, <1>1 DEF TaskGone
  <2> QED
    BY <2>2, <2>3, <2>4
<1>5. CASE ~((CreateTask(p) \/ StartTask(p) \/ UndoTask(p)) /\ arg[p] = id)
  <2>1. task'[id] = task[id]
    BY <1>5, HandlerTask
  <2>2. State(status[id]) = "RUNNING" => State(status'[id]) = "RUNNING"
    BY HandlerRunning
  <2>3. ASSUME lock[id] # Nil, pc[lock[id]] \in Held
        PROVE  State(status'[id]) = "RUNNING" \/ (lock'[id] # Nil /\ pc'[lock'[id]] \in Held)
    <3>1. CASE lock[id] = p
      <4>1. arg[p] = id
        BY <2>3, <3>1 DEF HandlerInv, LockInv
      <4>2. EndStart(p)
        BY <1>1, <1>5, <2>3, <3>1, <4>1
      <4>3. status'[id] = StartedStatus(status[id]) /\ Startable(status[id])
        BY <4>1, <4>2 DEF EndStart, Moves, HandlerInv, LockInv, Starting, StartPcs
      <4>4. /\ StartedStatus(status[id]) \in Statuses /\ StartedStatus(status[id]).startedAt
            /\ ~StartedStatus(status[id]).finishedAt
        BY <4>3, StatusTypes, StartedFields, StateFacts, ZenonT(90)
      <4> QED
        BY <4>3, <4>4, StateFacts
    <3>2. CASE lock[id] # p
      <4>1. lock'[id] = lock[id]
        BY <2>3, <3>2, HandlerLock
      <4> QED
        BY <1>1, <2>3, <3>2, <4>1
    <3> QED
      BY <3>1, <3>2
  <2> QED
    BY <1>1, <2>1, <2>2, <2>3 DEF TaskGone
<1> QED
  BY <1>3, <1>4, <1>5

(* The places at which something is known to be gone. *)
LEMMA GonePlaces ==
  ASSUME NEW p \in Procs, pc[p] \in SnapshotGone \cup DirGone \cup CtrGone
  PROVE  pc[p] \in CreatePcs \/ Removing(p)
BY DEF SnapshotGone, DirGone, CtrGone, CreatePcs, Removing, RemovePcs

(* What p's own id has to fulfil when p goes to a place. *)
OwnGone(p, to) ==
  /\ to \in SnapshotGone => arg[p] \notin snapshots'
  /\ to \in DirGone => arg[p] \notin dirs'
  /\ to \in CtrGone => arg[p] \notin ctrs'
  /\ arg[p] \in snapshots' \cup dirs' \cup ctrs' => arg[p] \in containers' \/ to \in CreatePcs

(* A creation or removal is alone with its id, and leaves the others as they *)
(* are.                                                                      *)
LEMMA FilesOwn ==
  ASSUME IInv, NEW p \in Procs, pc[p] \in CreatePcs \/ Removing(p), NEW to,
         pc' = [pc EXCEPT ![p] = to], UNCHANGED arg,
         NEW id \in Ids, FilesGone(id),
         id # arg[p] => /\ id \in snapshots' => id \in snapshots
                        /\ id \in dirs' => id \in dirs
                        /\ id \in ctrs' => id \in ctrs
                        /\ id \in containers => id \in containers',
         id = arg[p] => OwnGone(p, to)
  PROVE  FilesGone(id)'
<1> USE DEF IInv, TypeOK, HandlerType
<1>1. pc'[p] = to /\ arg' = arg /\ \A q \in Procs : q # p => pc'[q] = pc[q]
  OBVIOUS
<1>2. CASE id # arg[p]
  BY <1>1, <1>2 DEF FilesGone
<1>3. CASE id = arg[p]
  <2>1. \A q \in Procs : q # p /\ arg[q] = id => pc[q] \notin SnapshotGone \cup DirGone \cup CtrGone
    BY <1>3, GonePlaces, AloneAt
  <2>2. OwnGone(p, to)
    BY <1>3
  <2> QED
    BY <1>1, <1>3, <2>1, <2>2 DEF FilesGone, OwnGone
<1> QED
  BY <1>2, <1>3

(* The other handlers leave what there is, and go where nothing is gone. *)
LEMMA FilesKept ==
  ASSUME IInv, NEW p \in Procs, pc[p] \notin CreatePcs,
         \A q \in Procs : q # p => pc'[q] = pc[q] /\ arg'[q] = arg[q],
         pc'[p] \notin SnapshotGone \cup DirGone \cup CtrGone,
         UNCHANGED <<snapshots, dirs, ctrs, containers>>,
         NEW id \in Ids, FilesGone(id)
  PROVE  FilesGone(id)'
BY DEF FilesGone

LEMMA FilesGoneCreate ==
  ASSUME IInv, NEW p \in Procs,
         \/ ResolveImage(p) \/ CreateSnapshot(p) \/ CreateRootDir(p) \/ CreateContainerdContainer(p)
         \/ UndoRootDir(p) \/ UndoSnapshot(p) \/ UndoName(p) \/ AddToStore(p),
         NEW id \in Ids, id \notin leaked', FilesGone(id)
  PROVE  FilesGone(id)'
<1> USE DEF IInv, TypeOK, HandlerType
<1>0. id = arg[p] => /\ pc[p] \in SnapshotGone => id \notin snapshots
                     /\ pc[p] \in DirGone => id \notin dirs
                     /\ pc[p] \in CtrGone => id \notin ctrs
  BY DEF FilesGone
<1>1. CASE ResolveImage(p)
  <2>1. /\ UNCHANGED <<snapshots, dirs, ctrs, containers, arg>> /\ pc[p] = "resolve"
        /\ \E to \in {"snapshot", "undoName"} : pc' = [pc EXCEPT ![p] = to]
    BY <1>1 DEF ResolveImage, Calls, Moves, runtime, memory
  <2>2. PICK to \in {"snapshot", "undoName"} : pc' = [pc EXCEPT ![p] = to]
    BY <2>1
  <2>3. id = arg[p] => OwnGone(p, to)
    BY <1>0, <2>1, <2>2 DEF OwnGone, SnapshotGone, DirGone, CtrGone, CreatePcs
  <2>4. pc[p] \in CreatePcs
    BY <2>1 DEF CreatePcs
  <2> QED
    BY <2>1, <2>2, <2>3, <2>4, FilesOwn
<1>2. CASE CreateSnapshot(p)
  <2>1. PICK out \in Outcomes(p) :
          /\ pc[p] = "snapshot" /\ UNCHANGED <<arg, dirs, ctrs, containers>>
          /\ pc' = [pc EXCEPT ![p] = IF out = "ok" THEN "mkdir" ELSE "undoName"]
          /\ snapshots' = IF Effective(out) THEN snapshots \cup {arg[p]} ELSE snapshots
          /\ Leaks(arg[p], out = "lost")
    BY <1>2 DEF CreateSnapshot, Calls, Moves, memory
  <2>2. id = arg[p] => out # "lost"
    BY <2>1 DEF Leaks
  <2> DEFINE to == IF out = "ok" THEN "mkdir" ELSE "undoName"
  <2>3. id = arg[p] => OwnGone(p, to)
    BY <1>0, <2>1, <2>2 DEF OwnGone, SnapshotGone, DirGone, CtrGone, CreatePcs, Effective
  <2>4. pc[p] \in CreatePcs /\ (id # arg[p] => (id \in snapshots' => id \in snapshots))
    BY <2>1 DEF CreatePcs
  <2> HIDE DEF to
  <2> QED
    BY <2>1, <2>3, <2>4, FilesOwn DEF to
<1>3. CASE CreateRootDir(p)
  <2>1. PICK out \in LocalOutcomes :
          /\ pc[p] = "mkdir" /\ UNCHANGED <<arg, snapshots, ctrs, containers>>
          /\ pc' = [pc EXCEPT ![p] = IF out = "ok" THEN "newCtr" ELSE "undoSnapshot"]
          /\ dirs' = IF Effective(out) THEN dirs \cup {arg[p]} ELSE dirs
    BY <1>3 DEF CreateRootDir, CallsLocal, Moves, memory
  <2>2. out # "lost"
    BY DEF LocalOutcomes
  <2> DEFINE to == IF out = "ok" THEN "newCtr" ELSE "undoSnapshot"
  <2>3. id = arg[p] => OwnGone(p, to)
    BY <1>0, <2>1, <2>2 DEF OwnGone, SnapshotGone, DirGone, CtrGone, CreatePcs, Effective
  <2>4. pc[p] \in CreatePcs /\ (id # arg[p] => (id \in dirs' => id \in dirs))
    BY <2>1 DEF CreatePcs
  <2> HIDE DEF to
  <2> QED
    BY <2>1, <2>3, <2>4, FilesOwn DEF to
<1>4. CASE CreateContainerdContainer(p)
  <2>1. PICK out \in Outcomes(p) :
          /\ pc[p] = "newCtr" /\ UNCHANGED <<arg, snapshots, dirs, containers>>
          /\ pc' = [pc EXCEPT ![p] = IF out = "ok" THEN "add" ELSE "undoDir"]
          /\ ctrs' = IF Effective(out) THEN ctrs \cup {arg[p]} ELSE ctrs
          /\ Leaks(arg[p], out = "lost")
    BY <1>4 DEF CreateContainerdContainer, Calls, Moves, memory
  <2>2. id = arg[p] => out # "lost"
    BY <2>1 DEF Leaks
  <2> DEFINE to == IF out = "ok" THEN "add" ELSE "undoDir"
  <2>3. id = arg[p] => OwnGone(p, to)
    BY <1>0, <2>1, <2>2 DEF OwnGone, SnapshotGone, DirGone, CtrGone, CreatePcs, Effective
  <2>4. pc[p] \in CreatePcs /\ (id # arg[p] => (id \in ctrs' => id \in ctrs))
    BY <2>1 DEF CreatePcs
  <2> HIDE DEF to
  <2> QED
    BY <2>1, <2>3, <2>4, FilesOwn DEF to
<1>5. CASE UndoRootDir(p)
  <2>1. PICK out \in LocalOutcomes :
          /\ pc[p] = "undoDir" /\ UNCHANGED <<arg, snapshots, ctrs, containers>>
          /\ pc' = [pc EXCEPT ![p] = "undoSnapshot"]
          /\ dirs' = IF Effective(out) THEN dirs \ {arg[p]} ELSE dirs
          /\ Leaks(arg[p], out # "ok")
    BY <1>5 DEF UndoRootDir, CallsLocal, Moves, memory
  <2>2. id = arg[p] => out = "ok"
    BY <2>1 DEF Leaks
  <2>3. id = arg[p] => OwnGone(p, "undoSnapshot")
    BY <1>0, <2>1, <2>2 DEF OwnGone, SnapshotGone, DirGone, CtrGone, CreatePcs, Effective
  <2>4. pc[p] \in CreatePcs /\ (id # arg[p] => (id \in dirs' => id \in dirs))
    BY <2>1 DEF CreatePcs
  <2> QED
    BY <2>1, <2>3, <2>4, FilesOwn
<1>6. CASE UndoSnapshot(p)
  <2>1. PICK out \in Outcomes(p) :
          /\ pc[p] = "undoSnapshot" /\ UNCHANGED <<arg, dirs, ctrs, containers>>
          /\ pc' = [pc EXCEPT ![p] = "undoName"]
          /\ snapshots' = IF Effective(out) THEN snapshots \ {arg[p]} ELSE snapshots
          /\ Leaks(arg[p], out = "refused")
    BY <1>6 DEF UndoSnapshot, Calls, Moves, memory
  <2>2. id = arg[p] => Effective(out)
    BY <2>1 DEF Leaks, Outcomes, Effective
  <2>3. id = arg[p] => OwnGone(p, "undoName")
    BY <1>0, <2>1, <2>2 DEF OwnGone, SnapshotGone, DirGone, CtrGone, CreatePcs
  <2>4. pc[p] \in CreatePcs /\ (id # arg[p] => (id \in snapshots' => id \in snapshots))
    BY <2>1 DEF CreatePcs
  <2> QED
    BY <2>1, <2>3, <2>4, FilesOwn
<1>7. CASE UndoName(p)
  <2>1. /\ pc[p] = "undoName" /\ UNCHANGED <<arg, snapshots, dirs, ctrs, containers>>
        /\ pc' = [pc EXCEPT ![p] = "err"]
    BY <1>7 DEF UndoName, Moves, runtime
  <2>2. id = arg[p] => OwnGone(p, "err")
    BY <1>0, <2>1 DEF OwnGone, SnapshotGone, DirGone, CtrGone, CreatePcs
  <2>3. pc[p] \in CreatePcs
    BY <2>1 DEF CreatePcs
  <2> QED
    BY <2>1, <2>2, <2>3, FilesOwn
<1>8. CASE AddToStore(p)
  <2>1. /\ pc[p] = "add" /\ UNCHANGED <<arg, snapshots, dirs, ctrs>>
        /\ pc' = [pc EXCEPT ![p] = "ok"] /\ containers' = containers \cup {arg[p]}
    BY <1>8 DEF AddToStore, Moves, runtime
  <2>2. OwnGone(p, "ok")
    BY <2>1 DEF OwnGone, SnapshotGone, DirGone, CtrGone, CreatePcs
  <2>3. pc[p] \in CreatePcs
    BY <2>1 DEF CreatePcs
  <2> QED
    BY <2>1, <2>2, <2>3, FilesOwn
<1> QED
  BY <1>1, <1>2, <1>3, <1>4, <1>5, <1>6, <1>7, <1>8

LEMMA FilesGoneRemove ==
  ASSUME IInv, NEW p \in Procs,
         \/ RemoveSnapshot(p) \/ RemoveRootDir(p) \/ DeleteContainerdContainer(p)
         \/ DeleteFromStore(p) \/ ReleaseName(p) \/ ResetRemoving(p),
         NEW id \in Ids, FilesGone(id)
  PROVE  FilesGone(id)'
<1> USE DEF IInv, TypeOK, HandlerType
<1>0. id = arg[p] => /\ pc[p] \in SnapshotGone => id \notin snapshots
                     /\ pc[p] \in DirGone => id \notin dirs
                     /\ pc[p] \in CtrGone => id \notin ctrs
  BY DEF FilesGone
<1>r. Removing(p)
  BY DEF RemoveSnapshot, RemoveRootDir, DeleteContainerdContainer, DeleteFromStore, ReleaseName, ResetRemoving,
         Calls, CallsLocal, Fails, Moves, Removing, RemovePcs
<1>s. arg[p] \in containers <=> pc[p] # "rmName"
  BY <1>r DEF HandlerInv, RemoveInv
<1>1. CASE RemoveSnapshot(p)
  <2>1. PICK out \in Outcomes(p) :
          /\ pc[p] = "rmSnapshot" /\ UNCHANGED <<arg, dirs, ctrs, containers>>
          /\ pc' = [pc EXCEPT ![p] = IF out = "ok" THEN "rmDir" ELSE "resetRemoving"]
          /\ snapshots' = IF Effective(out) THEN snapshots \ {arg[p]} ELSE snapshots
    BY <1>1 DEF RemoveSnapshot, Calls, Moves, memory
  <2> DEFINE to == IF out = "ok" THEN "rmDir" ELSE "resetRemoving"
  <2>2. OwnGone(p, to)
    BY <1>s, <2>1 DEF OwnGone, SnapshotGone, DirGone, CtrGone, CreatePcs, Effective
  <2>3. id \in snapshots' => id \in snapshots
    BY <2>1
  <2> HIDE DEF to
  <2> QED
    BY <1>r, <2>1, <2>2, <2>3, FilesOwn DEF to
<1>2. CASE RemoveRootDir(p)
  <2>1. PICK out \in LocalOutcomes :
          /\ pc[p] = "rmDir" /\ UNCHANGED <<arg, snapshots, ctrs, containers>>
          /\ pc' = [pc EXCEPT ![p] = IF out = "ok" THEN "rmCtr" ELSE "resetRemoving"]
          /\ dirs' = IF Effective(out) THEN dirs \ {arg[p]} ELSE dirs
    BY <1>2 DEF RemoveRootDir, CallsLocal, Moves, memory
  <2> DEFINE to == IF out = "ok" THEN "rmCtr" ELSE "resetRemoving"
  <2>2. id = arg[p] => OwnGone(p, to)
    BY <1>0, <1>s, <2>1 DEF OwnGone, SnapshotGone, DirGone, CtrGone, CreatePcs, Effective
  <2>3. id \in dirs' => id \in dirs
    BY <2>1
  <2> HIDE DEF to
  <2> QED
    BY <1>r, <2>1, <2>2, <2>3, FilesOwn DEF to
<1>3. CASE DeleteContainerdContainer(p)
  <2>1. /\ pc[p] = "rmCtr" /\ UNCHANGED <<arg, snapshots, dirs, containers>>
        /\ \E to \in {"rmStore", "resetRemoving"} :
             /\ pc' = [pc EXCEPT ![p] = to]
             /\ ctrs' = ctrs \ {arg[p]} \/ (ctrs' = ctrs /\ to = "resetRemoving")
    BY <1>3 DEF DeleteContainerdContainer, Calls, Fails, Moves, memory, Effective
  <2>2. PICK to \in {"rmStore", "resetRemoving"} :
             /\ pc' = [pc EXCEPT ![p] = to]
             /\ ctrs' = ctrs \ {arg[p]} \/ (ctrs' = ctrs /\ to = "resetRemoving")
    BY <2>1
  <2>3. id = arg[p] => OwnGone(p, to)
    BY <1>0, <1>s, <2>1, <2>2 DEF OwnGone, SnapshotGone, DirGone, CtrGone, CreatePcs
  <2>4. id \in ctrs' => id \in ctrs
    BY <2>2
  <2> QED
    BY <1>r, <2>1, <2>2, <2>3, <2>4, FilesOwn
<1>4. CASE DeleteFromStore(p)
  <2>1. /\ pc[p] = "rmStore" /\ UNCHANGED <<arg, snapshots, dirs, ctrs>>
        /\ pc' = [pc EXCEPT ![p] = "rmName"] /\ containers' = containers \ {arg[p]}
    BY <1>4 DEF DeleteFromStore, Moves, runtime
  <2>2. id = arg[p] => OwnGone(p, "rmName")
    BY <1>0, <2>1 DEF OwnGone, SnapshotGone, DirGone, CtrGone, CreatePcs
  <2> QED
    BY <1>r, <2>1, <2>2, FilesOwn
<1>5. CASE ReleaseName(p)
  <2>1. /\ pc[p] = "rmName" /\ UNCHANGED <<arg, snapshots, dirs, ctrs, containers>>
        /\ pc' = [pc EXCEPT ![p] = "ok"]
    BY <1>5 DEF ReleaseName, Moves, runtime
  <2>2. id = arg[p] => OwnGone(p, "ok")
    BY <1>0, <2>1 DEF OwnGone, SnapshotGone, DirGone, CtrGone, CreatePcs
  <2> QED
    BY <1>r, <2>1, <2>2, FilesOwn
<1>6. CASE ResetRemoving(p)
  <2>1. /\ pc[p] = "resetRemoving" /\ UNCHANGED <<arg, snapshots, dirs, ctrs, containers>>
        /\ pc' = [pc EXCEPT ![p] = "err"]
    BY <1>6 DEF ResetRemoving, Moves, runtime
  <2>2. OwnGone(p, "err")
    BY <1>s, <2>1 DEF OwnGone, SnapshotGone, DirGone, CtrGone, CreatePcs
  <2> QED
    BY <1>r, <2>1, <2>2, FilesOwn
<1> QED
  BY <1>1, <1>2, <1>3, <1>4, <1>5, <1>6

LEMMA FilesGoneHandler ==
  ASSUME IInv, NEW p \in Procs, Request(p) \/ HandlerStep(p),
         NEW id \in Ids, id \notin leaked', FilesGone(id)
  PROVE  FilesGone(id)'
<1> USE DEF IInv, TypeOK, HandlerType
<1> DEFINE Gone == SnapshotGone \cup DirGone \cup CtrGone
<1>0. \A q \in Procs : q # p => pc'[q] = pc[q] /\ arg'[q] = arg[q]
  BY HandlerPlaces
<1>1. CASE CreateContainer(p)
  <2>1. PICK new \in Ids :
          /\ nameOf[new] = Nil
          /\ pc' = [pc EXCEPT ![p] = "resolve"] /\ arg' = [arg EXCEPT ![p] = new] /\ pc[p] = "idle"
          /\ UNCHANGED <<snapshots, dirs, ctrs, containers>>
    BY <1>1 DEF CreateContainer, Arrives, runtime
  <2>2. new \notin containers /\ \A q \in Procs : pc[q] \in CreatePcs => arg[q] # new
    BY <2>1 DEF HandlerInv, FreshInv
  <2>3. id = new => id \notin snapshots \cup dirs \cup ctrs
    BY <2>2 DEF FilesGone
  <2>4. pc[p] \notin CreatePcs /\ pc'[p] = "resolve" /\ arg'[p] = new
    BY <2>1 DEF CreatePcs
  <2> QED
    BY <1>0, <2>1, <2>3, <2>4 DEF FilesGone
<1>2. CASE Arriving(p)
  <2>1. /\ UNCHANGED <<snapshots, dirs, ctrs, containers>> /\ pc[p] \notin CreatePcs
        /\ pc'[p] \notin Gone
    BY <1>2, ArrivalMoves DEF Arriving, memory, runtime, CreatePcs, SnapshotGone, DirGone, CtrGone
  <2> QED
    BY <1>0, <2>1, FilesKept
<1>3. CASE CheckSandbox(p) \/ PrepareRootfs(p) \/ CreateTask(p) \/ StartTask(p) \/ UndoTask(p)
  <2>1. /\ pc[p] \in {"checkSandbox", "mounts", "newTask", "runTask", "undoTask"}
        /\ pc'[p] \in {"mounts", "newTask", "runTask", "started", "undoTask", "startFailed"}
    BY <1>3 DEF CheckSandbox, PrepareRootfs, CreateTask, StartTask, UndoTask, Calls, Fails, Moves
  <2>2. UNCHANGED <<snapshots, dirs, ctrs, containers>>
    BY <1>3 DEF CheckSandbox, PrepareRootfs, CreateTask, StartTask, UndoTask, memory, runtime
  <2>3. pc[p] \notin CreatePcs /\ pc'[p] \notin Gone
    BY <2>1 DEF CreatePcs, SnapshotGone, DirGone, CtrGone
  <2> QED
    BY <1>0, <2>2, <2>3, FilesKept
<1>4. CASE StopRunning(p) \/ SendStopSignal(p) \/ SendKill(p) \/ StopObserved(p) \/ StopWaitEnds(p)
  <2>1. /\ pc[p] \in {"state", "term", "kill", "termWait", "killWait"}
        /\ pc'[p] \in {"term", "kill", "termWait", "killWait", "ok", "err"}
    BY <1>4 DEF StopRunning, SendStopSignal, SendKill, StopObserved, StopWaitEnds, Calls, Moves
  <2>2. UNCHANGED <<snapshots, dirs, ctrs, containers>>
    BY <1>4 DEF StopRunning, SendStopSignal, SendKill, StopObserved, StopWaitEnds, memory, runtime
  <2>3. pc[p] \notin CreatePcs /\ pc'[p] \notin Gone
    BY <2>1 DEF CreatePcs, SnapshotGone, DirGone, CtrGone
  <2> QED
    BY <1>0, <2>2, <2>3, FilesKept
<1>5. CASE BeginStart(p) \/ EndStart(p) \/ FailStart(p) \/ SetRemoving(p)
  <2>1. /\ pc[p] \in {"lock", "started", "startFailed", "setRemoving"}
        /\ pc'[p] \in {"checkSandbox", "rmSnapshot", "ok", "err"}
    BY <1>5 DEF BeginStart, EndStart, FailStart, SetRemoving, Moves
  <2>2. UNCHANGED <<snapshots, dirs, ctrs, containers>>
    BY <1>5 DEF BeginStart, EndStart, FailStart, SetRemoving, runtime
  <2>3. pc[p] \notin CreatePcs /\ pc'[p] \notin Gone
    BY <2>1 DEF CreatePcs, SnapshotGone, DirGone, CtrGone
  <2> QED
    BY <1>0, <2>2, <2>3, FilesKept
<1> QED
  BY <1>1, <1>2, <1>3, <1>4, <1>5, HandlerCases, FilesGoneCreate, FilesGoneRemove DEF QuietAction, Storing

LEMMA OrphanHandlerStep ==
  ASSUME IInv, OrphanInv, NEW p \in Procs, Request(p) \/ HandlerStep(p)
  PROVE  OrphanInv'
<1>1. leaked \subseteq leaked'
  <2>1. CASE \/ CreateSnapshot(p) \/ CreateContainerdContainer(p) \/ UndoRootDir(p) \/ UndoSnapshot(p)
             \/ CreateTask(p) \/ UndoTask(p)
    BY <2>1 DEF CreateSnapshot, CreateContainerdContainer, UndoRootDir, UndoSnapshot, CreateTask, UndoTask, Leaks
  <2>2. CASE UNCHANGED leaked
    BY <2>2
  <2>3. CASE \/ ResolveImage(p) \/ CreateRootDir(p) \/ CheckSandbox(p) \/ PrepareRootfs(p) \/ StartTask(p)
             \/ StopRunning(p) \/ SendStopSignal(p) \/ SendKill(p) \/ StopObserved(p) \/ StopWaitEnds(p)
             \/ RemoveSnapshot(p) \/ RemoveRootDir(p) \/ DeleteContainerdContainer(p)
    BY <2>3 DEF ResolveImage, CreateRootDir, CheckSandbox, PrepareRootfs, StartTask, StopRunning, SendStopSignal,
                SendKill, StopObserved, StopWaitEnds, RemoveSnapshot, RemoveRootDir, DeleteContainerdContainer
  <2>4. CASE \/ Arriving(p) \/ Storing(p) \/ CreateContainer(p) \/ UndoName(p) \/ ReleaseName(p)
             \/ BeginStart(p) \/ DeleteFromStore(p)
    BY <2>4 DEF Arriving, CreateContainerRejected, StartContainer, StopContainer, RemoveContainer, Respond,
                Storing, AddToStore, EndStart, FailStart, SetRemoving, ResetRemoving, CreateContainer, UndoName,
                ReleaseName, BeginStart, DeleteFromStore
  <2> QED
    BY <2>1, <2>3, <2>4, HandlerCases DEF QuietAction
<1>2. ASSUME NEW id \in Ids \ leaked' PROVE TaskGone(id)' /\ FilesGone(id)'
  <2>1. TaskGone(id) /\ FilesGone(id)
    BY <1>1, <1>2 DEF OrphanInv
  <2> QED
    BY <1>2, <2>1, TaskGoneHandler, FilesGoneHandler
<1> QED
  BY <1>2 DEF OrphanInv

(* Neither the monitor nor the environment makes or removes files. *)
LEMMA OrphanFrame ==
  ASSUME OrphanInv, UNCHANGED <<pc, arg, snapshots, dirs, ctrs, containers, lock, leaked>>,
         \A id \in Ids \ leaked :
           /\ task[id] = "none" => task'[id] = "none"
           /\ State(status[id]) = "RUNNING" => State(status'[id]) = "RUNNING" \/ task'[id] = "none"
           /\ mpc' = "update" /\ mev'.id = id => task'[id] = "none"
  PROVE  OrphanInv'
<1>1. ASSUME NEW id \in Ids \ leaked' PROVE TaskGone(id)' /\ FilesGone(id)'
  <2>1. TaskGone(id) /\ FilesGone(id) /\ id \in Ids \ leaked
    BY <1>1 DEF OrphanInv
  <2>2. FilesGone(id)'
    BY <2>1 DEF FilesGone
  <2>3. TaskGone(id)'
    BY <2>1 DEF TaskGone
  <2> QED
    BY <2>2, <2>3
<1> QED
  BY <1>1 DEF OrphanInv

(* A service that dies leaves what there is. *)
LEMMA OrphanDies ==
  ASSUME TypeOK, Dies, UNCHANGED runtime
  PROVE  OrphanInv'
<1>1. ASSUME NEW id \in Ids \ leaked' PROVE TaskGone(id)' /\ FilesGone(id)'
  <2>1. task'[id] = "none" /\ id \notin snapshots' \cup dirs' \cup ctrs'
    BY <1>1 DEF Dies, HasResources, runtime
  <2> QED
    BY <2>1 DEF TaskGone, FilesGone
<1> QED
  BY <1>1 DEF OrphanInv

LEMMA OrphanMonitorStep ==
  ASSUME IInv, OrphanInv, MonitorStep
  PROVE  OrphanInv'
<1> USE DEF IInv, TypeOK, MemoryType, MonitorType, RuntimeType
<1>0. ASSUME UNCHANGED <<pc, arg, runtime, containers, lock, leaked, status>>,
             mpc' # "update" \/ (mpc' = mpc /\ mev' = mev)
      PROVE  OrphanInv'
  <2>1. \A id \in Ids \ leaked : mpc = "update" /\ mev.id = id => task[id] = "none"
    BY DEF OrphanInv, TaskGone
  <2> QED
    BY <1>0, <2>1, OrphanFrame DEF runtime
<1>1. CASE Subscribe \/ DropExit
  BY <1>0, <1>1 DEF Subscribe, DropExit, memory, handler, monitor
<1>2. CASE ReceiveEvent \/ ComparePid
  BY <1>0, <1>2 DEF ReceiveEvent, ComparePid, MonitorAt, handler
<1>3. CASE PanicOnOOM
  BY <1>3, OrphanDies DEF PanicOnOOM
<1>4. CASE DeleteTask
  <2>1. /\ UNCHANGED <<pc, arg, snapshots, dirs, ctrs, containers, lock, leaked, status>>
        /\ mev.id \in Ids
        /\ \/ mpc' = "update" /\ mev' = mev /\ task' = [task EXCEPT ![mev.id] = "none"]
           \/ mpc' = "recv" /\ task' = task
    BY <1>4 DEF DeleteTask, MonitorAt, handler, Events
  <2>2. CASE mpc' = "update" /\ mev' = mev /\ task' = [task EXCEPT ![mev.id] = "none"]
    <3>1. \A id \in Ids : task'[id] = task[id] \/ task'[id] = "none"
      BY <2>2
    <3>2. task'[mev.id] = "none"
      BY <2>1, <2>2
    <3> QED
      BY <2>1, <2>2, <3>1, <3>2, OrphanFrame
  <2>3. CASE mpc' = "recv" /\ task' = task
    BY <2>1, <2>3, OrphanFrame
  <2> QED
    BY <2>1, <2>2, <2>3
<1>5. CASE RecordExit
  <2>1. /\ UNCHANGED <<pc, arg, snapshots, dirs, ctrs, containers, lock, leaked, task>>
        /\ mpc = "update" /\ mpc' = "recv" /\ mev.id \in Ids
        /\ status' = [status EXCEPT ![mev.id] = ExitedStatus(status[mev.id], mev.code)]
    BY <1>5 DEF RecordExit, MonitorAt, handler, runtime, Events
  <2>2. mev.id \notin leaked => task[mev.id] = "none"
    BY <2>1 DEF OrphanInv, TaskGone
  <2>3. \A id \in Ids : id # mev.id => status'[id] = status[id]
    BY <2>1
  <2> QED
    BY <2>1, <2>2, <2>3, OrphanFrame
<1>6. CASE RecordOOM
  <2>1. /\ UNCHANGED <<pc, arg, snapshots, dirs, ctrs, containers, lock, leaked, task>>
        /\ mpc' = "recv" /\ mev.id \in Ids
        /\ status' = [status EXCEPT ![mev.id] = OOMStatus(status[mev.id])]
    BY <1>6 DEF RecordOOM, MonitorAt, handler, runtime, Events
  <2> DEFINE t == OOMStatus(status[mev.id])
  <2>2. State(t) = State(status[mev.id])
    BY <2>1, OOMFields, StatusTypes, StateSame
  <2>3. status'[mev.id] = t /\ \A id \in Ids : id # mev.id => status'[id] = status[id]
    BY <2>1
  <2> HIDE DEF t
  <2>4. \A id \in Ids : State(status'[id]) = State(status[id])
    BY <2>2, <2>3
  <2> QED
    BY <2>1, <2>4, OrphanFrame
<1> QED
  BY <1>1, <1>2, <1>3, <1>4, <1>5, <1>6 DEF MonitorStep

LEMMA OrphanEnvStep ==
  ASSUME IInv, OrphanInv, EnvStep
  PROVE  OrphanInv'
<1> USE DEF IInv, TypeOK, MemoryType, MonitorType, RuntimeType
<1>0. \A id \in Ids \ leaked : mpc = "update" /\ mev.id = id => task[id] = "none"
  BY DEF OrphanInv, TaskGone
<1>1. ASSUME NEW id \in Ids, ProcessExits(id) PROVE OrphanInv'
  <2>1. /\ UNCHANGED <<pc, arg, snapshots, dirs, ctrs, containers, lock, leaked, status, mpc, mev>>
        /\ task[id] = "running" /\ task' = [task EXCEPT ![id] = "stopped"]
    BY <1>1 DEF ProcessExits, memory, handler, monitor
  <2>2. \A i \in Ids : task[i] = "none" => task'[i] = "none"
    BY <2>1
  <2> QED
    BY <1>0, <2>1, <2>2, OrphanFrame
<1>2. ASSUME UNCHANGED <<memory, pc, arg, monitor, runtime, leaked>> PROVE OrphanInv'
  BY <1>0, <1>2, OrphanFrame DEF memory, monitor, runtime
<1>3. ASSUME NEW id \in Ids, ExecExits(id) PROVE OrphanInv'
  BY <1>2, <1>3 DEF ExecExits, handler
<1>4. ASSUME NEW id \in Ids \cup {Nil}, OOM(id) PROVE OrphanInv'
  BY <1>2, <1>4 DEF OOM, handler
<1>5. ASSUME NEW p \in Procs, Cancel(p) PROVE OrphanInv'
  BY <1>2, <1>5 DEF Cancel
<1>6. CASE StreamBreaks \/ SandboxGoes \/ Restart
  BY <1>2, <1>6 DEF StreamBreaks, SandboxGoes, Restart, handler
<1>7. CASE Crash
  BY <1>7, OrphanDies DEF Crash
<1> QED
  BY <1>1, <1>3, <1>4, <1>5, <1>6, <1>7 DEF EnvStep

LEMMA OrphanStep == IInv /\ OrphanInv /\ [Next]_vars => OrphanInv'
<1> SUFFICES ASSUME IInv, OrphanInv, [Next]_vars PROVE OrphanInv'
  OBVIOUS
<1>1. CASE UNCHANGED vars
  <2>1. \A id \in Ids \ leaked : mpc = "update" /\ mev.id = id => task[id] = "none"
    BY DEF OrphanInv, TaskGone
  <2> QED
    BY <1>1, <2>1, OrphanFrame DEF vars, memory, handler, monitor, runtime
<1> QED
  BY <1>1, OrphanHandlerStep, OrphanMonitorStep, OrphanEnvStep DEF Next

LEMMA OrphanInvSays == IInv /\ OrphanInv => NoOrphanResources
<1> SUFFICES ASSUME IInv, OrphanInv, NEW id \in Ids \ containers, HasResources(id), id \notin leaked
             PROVE  \E p \in Procs : arg[p] = id /\ pc[p] \in CreatePcs
  BY DEF NoOrphanResources
<1> USE DEF IInv, TypeOK, MemoryType, HandlerInv
<1>1. TaskGone(id) /\ FilesGone(id)
  BY DEF OrphanInv
<1>2. ~Recorded(id)
  BY RecordedStored
<1>3. lock[id] = Nil
  <2> SUFFICES ASSUME lock[id] # Nil PROVE FALSE
    OBVIOUS
  <2>1. lock[id] \in Procs /\ LockInv /\ id \in Ids /\ id \notin containers
    OBVIOUS
  <2>2. arg[lock[id]] = id /\ Starting(lock[id])
    BY <2>1, Zenon DEF LockInv
  <2>3. arg[lock[id]] \in containers
    BY <2>1, <2>2, Zenon DEF LockInv
  <2> QED  BY <2>1, <2>2, <2>3, Zenon
<1>4. task[id] = "none"
  BY <1>1, <1>2, <1>3 DEF TaskGone, Recorded
<1> QED
  BY <1>1, <1>4 DEF HasResources, FilesGone

(* NoOrphanResources of ContainerService, whatever the environment does: what *)
(* containerd and the file system hold for an id the store does not hold      *)
(* belongs to a CreateContainer in progress, or to a cleanup that failed or   *)
(* was never run.  The defers of CreateContainer and StartContainer and the   *)
(* order of RemoveContainer miss nothing else (container_create.go:65,        *)
(* container_start.go:180, container_remove.go:71).                           *)
THEOREM NoContainerResourcesOrphaned == Spec => []NoOrphanResources
<1>1. Init => OrphanInv
  BY SMTT(30) DEF Init, OrphanInv, TaskGone, FilesGone
<1> QED
  BY <1>1, OrphanStep, OrphanInvSays, Invariance, PTL DEF Spec
=============================================================================
