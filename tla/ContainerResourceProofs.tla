----------------------- MODULE ContainerResourceProofs -----------------------
(***************************************************************************)
(* What holds of the containers' processes and resources, and of what      *)
(* StopContainer says, when no request's context ends before its handler   *)
(* does ("cancel" \notin Env), for every value of the other constants.     *)
(***************************************************************************)
EXTENDS ContainerInvariantProofs

(* Zenon proves most leaves; the others name SMT. *)
USE ZenonT(30)

(* A container that has run has a name; so has every other one at work. *)
LEMMA RanNamed ==
  ASSUME IInv, NEW id \in Ids, Ran(id)
  PROVE  nameOf[id] # Nil
<1>1. CASE Forgotten(id)
  BY <1>1 DEF Forgotten
<1>2. CASE status[id].startedAt
  BY <1>2, ZeroFields DEF IInv, HandlerInv, FreshInv
<1>3. CASE lock[id] # Nil
  BY <1>3, SMTT(30) DEF IInv, HandlerInv, FreshInv, LockInv, TypeOK, MemoryType
<1> QED
  BY <1>1, <1>2, <1>3 DEF Ran

LEMMA RanMoves ==
  ASSUME NEW id \in Ids, Ran(id), nameOf'[id] = nameOf[id],
         Forgotten(id) => status'[id] = ZeroStatus,
         status[id].startedAt => status'[id].startedAt,
         \A q \in Procs : pc'[q] \in CreatePcs => arg'[q] # id \/ (pc[q] \in CreatePcs /\ arg[q] = id),
         lock[id] # Nil /\ pc[lock[id]] = "started" =>
           status'[id].startedAt \/ (lock'[id] = lock[id] /\ pc'[lock[id]] = "started")
  PROVE  Ran(id)'
BY DEF Ran, Forgotten

(* A container that has run stays one that has. *)
LEMMA RanStep ==
  ASSUME IInv, [Next]_vars, NEW id \in Ids, Ran(id)
  PROVE  Ran(id)'
<1> USE DEF IInv, TypeOK, MemoryType, HandlerType
<1>0. nameOf[id] # Nil
  BY RanNamed
(* A step of p that changes no status and is not the end of its start. *)
<1>q. ASSUME NEW p \in Procs, NEW to, pc[p] # "started", pc' = [pc EXCEPT ![p] = to],
             UNCHANGED status, nameOf'[id] = nameOf[id], lock[id] # Nil => lock'[id] = lock[id],
             \A q \in Procs \ {p} : arg'[q] = arg[q],
             to \in CreatePcs => arg'[p] # id \/ (pc[p] \in CreatePcs /\ arg'[p] = arg[p])
      PROVE  Ran(id)'
  <2>1. \A q \in Procs : pc'[q] \in CreatePcs => arg'[q] # id \/ (pc[q] \in CreatePcs /\ arg[q] = id)
    BY <1>q
  <2>2. lock[id] # Nil /\ pc[lock[id]] = "started" => lock'[id] = lock[id] /\ pc'[lock[id]] = "started"
    BY <1>q
  <2> QED
    BY <1>q, <2>1, <2>2, RanMoves DEF Forgotten
<1>1. ASSUME NEW p \in Procs, Request(p) \/ HandlerStep(p)
      PROVE  Ran(id)'
  <2>1. CASE QuietAction(p)
    <3>1. PICK to \in Pcs : SamePhase(pc[p], to) /\ pc[p] # "started" /\ pc' = [pc EXCEPT ![p] = to]
      BY <2>1, QuietMoves
    <3>2. UNCHANGED <<status, lock, arg, nameOf>>
      BY <2>1, QuietMoves DEF memory
    <3>3. to \in CreatePcs => pc[p] \in CreatePcs
      BY <3>1 DEF SamePhase, CreatePcs, StartPcs, StopPcs, RemovePcs, Returned
    <3> QED
      BY <1>q, <3>1, <3>2, <3>3
  <2>2. CASE \/ CreateContainerRejected(p) \/ StartContainer(p) \/ StopContainer(p)
             \/ RemoveContainer(p) \/ Respond(p)
    <3>1. PICK to \in {"idle", "ok", "err", "lock", "state", "setRemoving"} :
             pc[p] # "started" /\ pc' = [pc EXCEPT ![p] = to]
      BY <2>2, ArrivalMoves
    <3>2. UNCHANGED <<status, lock, nameOf>> /\ \A q \in Procs \ {p} : arg'[q] = arg[q]
      BY <2>2, ArrivalMoves DEF memory
    <3> QED
      BY <1>q, <3>1, <3>2 DEF CreatePcs
  <2>3. CASE CreateContainer(p)
    <3>1. PICK c \in Ids, n \in Names :
             /\ nameOf[c] = Nil /\ nameOf' = [nameOf EXCEPT ![c] = n]
             /\ pc[p] = "idle" /\ pc' = [pc EXCEPT ![p] = "resolve"] /\ arg' = [arg EXCEPT ![p] = c]
             /\ UNCHANGED <<status, lock>>
      BY <2>3 DEF CreateContainer, Arrives
    <3>2. c # id /\ nameOf'[id] = nameOf[id] /\ arg'[p] = c /\ pc[p] # "started"
          /\ \A q \in Procs \ {p} : arg'[q] = arg[q]
      BY <1>0, <3>1 DEF RuntimeType
    <3> QED
      BY <1>q, <3>1, <3>2
  <2>4. CASE UndoName(p) \/ ReleaseName(p) \/ BeginStart(p) \/ DeleteFromStore(p)
    <3>1. /\ UNCHANGED <<status, nameOf, arg>> /\ pc[p] \in {"undoName", "rmName", "lock", "rmStore"}
          /\ \E to \in {"err", "ok", "checkSandbox", "rmName"} : pc' = [pc EXCEPT ![p] = to]
          /\ lock' = lock \/ (lock[arg[p]] = Nil /\ lock' = [lock EXCEPT ![arg[p]] = p])
      BY <2>4 DEF UndoName, ReleaseName, BeginStart, DeleteFromStore, Moves
    <3>2. PICK to \in {"err", "ok", "checkSandbox", "rmName"} : pc' = [pc EXCEPT ![p] = to]
      BY <3>1
    <3>3. lock[id] # Nil => lock'[id] = lock[id]
      BY <3>1
    <3> QED
      BY <1>q, <3>1, <3>2, <3>3 DEF CreatePcs
  <2>5. CASE \/ AddToStore(p) \/ EndStart(p) \/ FailStart(p) \/ SetRemoving(p) \/ ResetRemoving(p)
    <3>1. status[id].startedAt => status'[id].startedAt
      BY <2>5, HandlerStatusStep
    <3>2. /\ UNCHANGED <<nameOf, arg>> /\ arg[p] \in Ids
          /\ \E to \in {"ok", "err", "rmSnapshot"} : pc' = [pc EXCEPT ![p] = to]
          /\ status' = status \/ \E t : status' = [status EXCEPT ![arg[p]] = t]
      BY <2>5 DEF AddToStore, EndStart, FailStart, SetRemoving, ResetRemoving, Moves, Busy,
           CreatePcs, StartPcs, RemovePcs
    <3>3. Forgotten(id) => status'[id] = ZeroStatus
      <4>1. pc[p] \in CreatePcs \/ status[arg[p]].createdAt
        BY <2>5 DEF AddToStore, EndStart, FailStart, SetRemoving, ResetRemoving, Moves,
             CreatePcs, StartPcs, RemovePcs, HandlerInv, KnownInv
      <4> QED
        BY <3>2, <4>1, ZeroFields DEF Forgotten
    <3>4. lock[id] # Nil /\ pc[lock[id]] = "started" =>
             status'[id].startedAt \/ (lock'[id] = lock[id] /\ pc'[lock[id]] = "started")
      <4> SUFFICES ASSUME lock[id] # Nil, pc[lock[id]] = "started", lock[id] \in Procs, arg[lock[id]] = id
                   PROVE  status'[id].startedAt \/ (lock'[id] = lock[id] /\ pc'[lock[id]] = "started")
        BY SMTT(30) DEF HandlerInv, LockInv
      <4>1. CASE EndStart(p) /\ lock[id] = p
        BY <4>1, StartedFields, SMTT(30) DEF EndStart
      <4>2. CASE EndStart(p) /\ lock[id] # p
        <5>1. arg[p] # id
          BY <4>2 DEF EndStart, Moves, HandlerInv, LockInv, Starting, StartPcs
        <5> QED
          BY <4>2, <5>1, <3>2 DEF EndStart, Moves
      <4>3. CASE FailStart(p)
        <5>1. arg[p] # id /\ lock[id] # p
          BY <4>3 DEF FailStart, Moves, HandlerInv, LockInv, Starting, StartPcs
        <5> QED
          BY <4>3, <5>1, <3>2 DEF FailStart, Moves
      <4>4. CASE AddToStore(p) \/ SetRemoving(p) \/ ResetRemoving(p)
        BY <4>4, <3>2 DEF AddToStore, SetRemoving, ResetRemoving, Moves
      <4> QED
        BY <2>5, <4>1, <4>2, <4>3, <4>4
    <3> QED
      BY <3>1, <3>2, <3>3, <3>4, RanMoves DEF CreatePcs
  <2> QED
    BY <1>1, <2>1, <2>2, <2>3, <2>4, <2>5
       DEF Request, HandlerStep, CreateStep, StartStep, StopStep, RemoveStep, QuietAction
<1>2. ASSUME Dies, UNCHANGED nameOf
      PROVE  Ran(id)'
  BY <1>0, <1>2 DEF Dies, ResetMemory, Ran, Forgotten, CreatePcs
<1>3. ASSUME UNCHANGED <<status, lock, pc, arg, nameOf>>
      PROVE  Ran(id)'
  BY <1>3 DEF Ran, Forgotten
<1>4. CASE MonitorStep
  <2>1. CASE RecordExit \/ RecordOOM
    <3>1. /\ UNCHANGED <<lock, pc, arg, nameOf>> /\ mev.id \in Ids /\ status[mev.id].createdAt
          /\ mev.code \in Nat
      BY <2>1 DEF RecordExit, RecordOOM, MonitorAt, handler, MonitorInv, MonitorType, Events
    <3>2. status[id].startedAt => status'[id].startedAt
      BY <2>1, <3>1, ExitedFields, OOMFields, SMTT(30) DEF RecordExit, RecordOOM
    <3>3. Forgotten(id) => status'[id] = ZeroStatus
      BY <2>1, <3>1, ZeroFields DEF RecordExit, RecordOOM, Forgotten
    <3> QED
      BY <3>1, <3>2, <3>3, RanMoves
  <2>2. CASE PanicOnOOM
    BY <1>2, <2>2 DEF PanicOnOOM
  <2>3. CASE Subscribe \/ ReceiveEvent \/ DropExit \/ ComparePid \/ DeleteTask
    BY <1>3, <2>3 DEF Subscribe, ReceiveEvent, DropExit, ComparePid, DeleteTask, MonitorAt, memory, handler
  <2> QED
    BY <1>4, <2>1, <2>2, <2>3 DEF MonitorStep
<1>5. CASE EnvStep
  <2>1. CASE Crash
    BY <1>2, <2>1 DEF Crash
  <2>2. CASE ~Crash
    BY <1>3, <1>5, <2>2 DEF EnvStep, ProcessExits, ExecExits, OOM, Cancel, StreamBreaks, SandboxGoes,
         Restart, memory, handler
  <2> QED
    BY <2>1, <2>2
<1>6. CASE UNCHANGED vars
  BY <1>3, <1>6 DEF vars, memory, handler
<1> QED
  BY <1>1, <1>4, <1>5, <1>6 DEF Next

-----------------------------------------------------------------------------
(* Without cancellation no answer is lost. *)
LEMMA NoLostAnswer ==
  ASSUME "cancel" \notin Env, NEW p \in Procs
  PROVE  Outcomes(p) \subseteq {"ok", "refused"}
BY DEF Outcomes, May

(* A step that starts no process, ends none, and announces no exit. *)
LEMMA TaskFrame ==
  ASSUME TaskInv, \A id \in Ids : Ran(id) => Ran(id)',
         \A id \in Ids : task'[id] \in {"running", "stopped"} => task'[id] = task[id],
         \A id \in Ids : task[id] = "running" =>
            /\ status'[id].finishedAt => status[id].finishedAt
            /\ status'[id].removing => status[id].removing,
         \A id \in Ids : ExitOnItsWay(id)' => ExitOnItsWay(id)
  PROVE  TaskInv'
BY DEF TaskInv

(* The process of a container in its start transaction before "started" has not *)
(* run; nor has that of a container a removal may begin on.                     *)
LEMMA NotRan ==
  ASSUME IInv, NEW p \in Procs, Starting(p), pc[p] # "started"
  PROVE  arg[p] \in Ids /\ ~Ran(arg[p])
<1>1. /\ arg[p] \in Ids /\ lock[arg[p]] = p
      /\ status[arg[p]] \in Statuses /\ Startable(status[arg[p]])
  BY DEF IInv, HandlerInv, LockInv, TypeOK, HandlerType, MemoryType, Starting, Busy
<1>2. status[arg[p]].createdAt /\ ~status[arg[p]].startedAt
  BY <1>1, StateFacts
<1> QED
  BY <1>1, <1>2, ZeroFields DEF Ran, Forgotten

(* No status is ended, and none is marked, while the process runs. *)
LEMMA RunningUnmarked ==
  ASSUME IInv, TaskInv, NEW p \in Procs, NEW id \in Ids, task[id] = "running",
         FailStart(p) \/ SetRemoving(p) \/ EndStart(p) \/ AddToStore(p) \/ ResetRemoving(p)
  PROVE  /\ status'[id].finishedAt => status[id].finishedAt
         /\ status'[id].removing => status[id].removing
<1> USE DEF IInv, TypeOK, MemoryType, HandlerType
<1>0. Ran(id) /\ ~status[id].finishedAt /\ ~status[id].removing /\ status[id] \in Statuses
  BY DEF TaskInv
<1>1. CASE FailStart(p)
  <2>1. arg[p] # id
    BY <1>0, <1>1, NotRan DEF FailStart, Moves, Starting, StartPcs
  <2> QED
    BY <1>1, <2>1 DEF FailStart
<1>2. CASE SetRemoving(p)
  <2>1. CASE arg[p] = id
    <3>1. status[id].createdAt /\ lock[id] = Nil
      BY <1>2, <2>1 DEF SetRemoving, HandlerInv, KnownInv, RemovePcs
    <3>2. status[id].startedAt
      BY <1>0, <3>1, ZeroFields DEF Ran, Forgotten
    <3>3. ~Removable(status[id])
      BY <1>0, <3>2, StateFacts
    <3> QED
      BY <1>2, <2>1, <3>3 DEF SetRemoving
  <2>2. CASE arg[p] # id
    BY <1>2, <2>2 DEF SetRemoving
  <2> QED
    BY <2>1, <2>2
<1>3. CASE EndStart(p)
  BY <1>0, <1>3, StartedFields, SMTT(30) DEF EndStart
<1>4. CASE AddToStore(p)
  <2>1. ~CreatedStatus.finishedAt /\ ~CreatedStatus.removing
    BY DEF CreatedStatus, ZeroStatus
  <2> QED
    BY <1>4, <2>1 DEF AddToStore
<1>5. CASE ResetRemoving(p)
  <2>1. /\ RemovingStatus(status[id], FALSE).finishedAt = status[id].finishedAt
        /\ ~RemovingStatus(status[id], FALSE).removing
    BY <1>0, RemovingFields
  <2>2. status'[id] = status[id] \/ status'[id] = RemovingStatus(status[id], FALSE)
    BY <1>5 DEF ResetRemoving
  <2> QED
    BY <2>1, <2>2
<1> QED
  BY <1>1, <1>2, <1>3, <1>4, <1>5

(* Exits on the stream when an event is published or received. *)
LEMMA QueuedPublish ==
  ASSUME stream \in Seq(Events), NEW e \in Events, Publish(e), NEW id \in Ids, InitExitQueued(id)'
  PROVE  InitExitQueued(id) \/ IsInitExit(e, id)
<1>1. PICK i \in DOMAIN stream' : IsInitExit(stream'[i], id)
  BY DEF InitExitQueued, IsInitExit
<1>2. stream'[i] = e \/ (i \in DOMAIN stream /\ stream'[i] = stream[i])
  BY SMTT(30) DEF Publish
<1> QED
  BY <1>1, <1>2 DEF InitExitQueued

LEMMA QueuedReceive ==
  ASSUME stream \in Seq(Events), stream # <<>>, stream' = Tail(stream), NEW id \in Ids
  PROVE  /\ InitExitQueued(id)' => InitExitQueued(id)
         /\ IsInitExit(Head(stream), id) => InitExitQueued(id)
<1>1. \A i \in DOMAIN Tail(stream) : i + 1 \in DOMAIN stream /\ Tail(stream)[i] = stream[i + 1]
  BY SMTT(30)
<1>2. 1 \in DOMAIN stream /\ Head(stream) = stream[1]
  BY SMTT(30)
<1>3. IsInitExit(Head(stream), id) => InitExitQueued(id)
  BY <1>2 DEF InitExitQueued
<1>4. ASSUME InitExitQueued(id)' PROVE InitExitQueued(id)
  <2>1. PICK i \in DOMAIN stream' : IsInitExit(stream'[i], id)
    BY <1>4 DEF InitExitQueued, IsInitExit
  <2> QED
    BY <1>1, <2>1 DEF InitExitQueued
<1> QED
  BY <1>3, <1>4

(* StartTask is the one step that makes a process run; its container had not run, *)
(* so no exit of it is on its way.                                                *)
LEMMA StartTaskStep ==
  ASSUME "cancel" \notin Env, IInv, TaskInv, NEW p \in Procs, StartTask(p),
         \A id \in Ids : Ran(id) => Ran(id)'
  PROVE  TaskInv'
<1> USE DEF IInv, TypeOK, MemoryType, HandlerType, RuntimeType
<1>0. pc[p] = "runTask"
  BY DEF StartTask, Calls, Moves
<1>c. PICK c \in Ids : c = arg[p]
  BY <1>0 DEF Busy, StartPcs
<1>1. PICK out \in {"ok", "refused"} :
         /\ Calls(p, "runTask", out, "started", "undoTask")
         /\ task' = IF Effective(out) THEN [task EXCEPT ![c] = "running"] ELSE task
  BY <1>c, NoLostAnswer, SMTT(30) DEF StartTask
<1>2. /\ UNCHANGED <<status, lock, monitor, stream>> /\ pc[p] = "runTask"
      /\ pc' = [pc EXCEPT ![p] = IF out = "ok" THEN "started" ELSE "undoTask"]
  BY <1>1 DEF StartTask, Calls, Moves, memory, events
<1>3. Starting(p) /\ pc[p] # "started"
  BY <1>2 DEF Starting, StartPcs
<1>4. ~Ran(c) /\ lock[c] = p /\ status[c] \in Statuses /\ Startable(status[c])
  BY <1>3, <1>c, NotRan DEF HandlerInv, LockInv
<1>5. \A id \in Ids : ExitOnItsWay(id)' <=> ExitOnItsWay(id)
  BY <1>2 DEF ExitOnItsWay, InitExitQueued, monitor
<1>6. CASE out = "refused"
  <2>1. task' = task
    BY <1>1, <1>6 DEF Effective
  <2> QED
    BY <1>2, <1>5, <2>1, TaskFrame
<1>7. CASE out = "ok"
  <2>1. task' = [task EXCEPT ![c] = "running"]
    BY <1>1, <1>7 DEF Effective
  <2>2. Ran(c)'
    BY <1>2, <1>4, <1>7, NilAssumption DEF Ran
  <2>3. ~status[c].finishedAt /\ ~status[c].removing
    BY <1>4, StateFacts
  <2>4. ~ExitOnItsWay(c)
    BY <1>4 DEF TaskInv
  <2>5. UNCHANGED status
    BY <1>2
  <2> QED
    BY <1>4, <1>5, <2>1, <2>2, <2>3, <2>4, <2>5 DEF TaskInv
<1> QED
  BY <1>6, <1>7

(* What runs is what the service knows to run. *)
LEMMA TaskStep ==
  ASSUME "cancel" \notin Env, IInv, TaskInv, [Next]_vars
  PROVE  TaskInv'
<1> USE DEF IInv, TypeOK, MemoryType, HandlerType, RuntimeType, EventType
<1>0. \A id \in Ids : Ran(id) => Ran(id)'
  BY RanStep
<1>1. ASSUME NEW p \in Procs, Request(p) \/ HandlerStep(p)
      PROVE  TaskInv'
  <2>1. CASE StartTask(p)
    BY <1>0, <2>1, StartTaskStep
  <2>2. CASE FailStart(p) \/ SetRemoving(p) \/ EndStart(p) \/ AddToStore(p) \/ ResetRemoving(p)
    <3>1. UNCHANGED <<task, monitor, stream>>
      BY <2>2 DEF FailStart, SetRemoving, EndStart, AddToStore, ResetRemoving, runtime, events
    <3>2. \A id \in Ids : ExitOnItsWay(id)' <=> ExitOnItsWay(id)
      BY <3>1 DEF ExitOnItsWay, InitExitQueued, monitor
    <3>3. \A id \in Ids : task[id] = "running" =>
             /\ status'[id].finishedAt => status[id].finishedAt
             /\ status'[id].removing => status[id].removing
      BY <2>2, RunningUnmarked
    <3> QED
      BY <1>0, <3>1, <3>2, <3>3, TaskFrame
  <2>3. CASE \/ QuietAction(p) /\ ~StartTask(p)
             \/ CreateContainerRejected(p) \/ StartContainer(p) \/ StopContainer(p)
             \/ RemoveContainer(p) \/ Respond(p) \/ CreateContainer(p)
             \/ UndoName(p) \/ ReleaseName(p) \/ BeginStart(p) \/ DeleteFromStore(p)
    <3>1. UNCHANGED <<status, monitor, stream>>
      BY <2>3, QuietMoves, ArrivalMoves DEF CreateContainer, UndoName, ReleaseName, BeginStart, DeleteFromStore,
           memory, events
    <3>2. task' = task \/ \E t \in {"created", "none"} : task' = [task EXCEPT ![arg[p]] = t]
      <4>1. CASE CreateTask(p) \/ UndoTask(p)
        BY <4>1 DEF CreateTask, UndoTask
      <4>2. CASE ~(CreateTask(p) \/ UndoTask(p)) /\ QuietAction(p) /\ ~StartTask(p)
        BY <4>2 DEF QuietAction, ResolveImage, CreateSnapshot, CreateRootDir, CreateContainerdContainer,
           UndoRootDir, UndoSnapshot, CheckSandbox, PrepareRootfs,
           StopRunning, SendStopSignal, SendKill, StopObserved, StopWaitEnds,
           RemoveSnapshot, RemoveRootDir, DeleteContainerdContainer, runtime
      <4>3. CASE \/ CreateContainerRejected(p) \/ StartContainer(p) \/ StopContainer(p)
                 \/ RemoveContainer(p) \/ Respond(p) \/ CreateContainer(p)
                 \/ UndoName(p) \/ ReleaseName(p) \/ BeginStart(p) \/ DeleteFromStore(p)
        BY <4>3, ArrivalMoves DEF CreateContainer, UndoName, ReleaseName, BeginStart, DeleteFromStore, runtime
      <4> QED
        BY <2>3, <4>1, <4>2, <4>3
    <3>3. \A id \in Ids : ExitOnItsWay(id)' <=> ExitOnItsWay(id)
      BY <3>1 DEF ExitOnItsWay, InitExitQueued, monitor
    <3>4. \A id \in Ids : task'[id] \in {"running", "stopped"} => task'[id] = task[id]
      BY <3>2
    <3> QED
      BY <1>0, <3>1, <3>3, <3>4, TaskFrame
  <2> QED
    BY <1>1, <2>1, <2>2, <2>3
       DEF Request, HandlerStep, CreateStep, StartStep, StopStep, RemoveStep, QuietAction
<1>2. CASE MonitorStep
  <2>1. CASE Subscribe
    <3>1. UNCHANGED <<task, status, monitor, stream>>
      BY <2>1 DEF Subscribe, runtime, memory
    <3> QED
      BY <1>0, <3>1, TaskFrame DEF ExitOnItsWay, InitExitQueued, monitor
  <2>2. CASE ReceiveEvent \/ DropExit
    <3>1. /\ UNCHANGED <<task, status>> /\ stream # <<>> /\ stream' = Tail(stream) /\ mpc = "recv"
          /\ (mpc' = mpc \/ mev' = Head(stream))
      BY <2>2 DEF ReceiveEvent, DropExit, MonitorAt, runtime, memory, monitor
    <3>2. \A id \in Ids : ExitOnItsWay(id)' => ExitOnItsWay(id)
      BY <3>1, QueuedReceive DEF ExitOnItsWay, IsInitExit
    <3> QED
      BY <1>0, <3>1, <3>2, TaskFrame
  <2>3. CASE ComparePid \/ DeleteTask
    <3>1. /\ UNCHANGED <<status, stream>> /\ mpc \in {"pid", "delete"}
          /\ (mev' = mev \/ mpc' = "recv")
          /\ task' = task \/ task' = [task EXCEPT ![mev.id] = "none"]
      BY <2>3 DEF ComparePid, DeleteTask, MonitorAt, runtime, events
    <3>2. \A id \in Ids : ExitOnItsWay(id)' => ExitOnItsWay(id)
      BY <3>1 DEF ExitOnItsWay, InitExitQueued
    <3>3. \A id \in Ids : task'[id] \in {"running", "stopped"} => task'[id] = task[id]
      BY <3>1
    <3> QED
      BY <1>0, <3>1, <3>2, <3>3, TaskFrame
  <2>4. CASE RecordExit \/ RecordOOM
    <3>1. /\ UNCHANGED <<task, stream>> /\ mpc' = "recv" /\ mev.id \in Ids /\ mev.code \in Nat
      BY <2>4 DEF RecordExit, RecordOOM, MonitorAt, runtime, events, MonitorType, Events
    <3>2. \A id \in Ids : ExitOnItsWay(id)' => ExitOnItsWay(id)
      BY <3>1 DEF ExitOnItsWay, InitExitQueued
    <3>3. ASSUME NEW id \in Ids, task[id] = "running"
          PROVE  /\ status'[id].finishedAt => status[id].finishedAt
                 /\ status'[id].removing => status[id].removing
      <4>1. CASE RecordOOM
        BY <3>1, <4>1, OOMFields, SMTT(30) DEF RecordOOM
      <4>2. CASE RecordExit
        <5>1. IsInitExit(mev, mev.id) /\ mpc = "update"
          BY <4>2 DEF RecordExit, MonitorInv, IsInitExit
        <5>2. mev.id # id
          BY <3>1, <3>3, <5>1 DEF TaskInv, ExitOnItsWay
        <5> QED
          BY <4>2, <5>2 DEF RecordExit
      <4> QED
        BY <2>4, <4>1, <4>2
    <3> QED
      BY <1>0, <3>1, <3>2, <3>3, TaskFrame
  <2>5. CASE PanicOnOOM
    <3>1. /\ status' = [id \in Ids |-> ZeroStatus] /\ stream' = <<>> /\ mpc' = "recv" /\ UNCHANGED task
      BY <2>5 DEF PanicOnOOM, Dies, ResetMemory, runtime
    <3> QED
      BY <1>0, <3>1, ZeroFields, SMTT(30) DEF TaskInv, ExitOnItsWay, InitExitQueued
  <2> QED
    BY <1>2, <2>1, <2>2, <2>3, <2>4, <2>5 DEF MonitorStep
<1>3. CASE EnvStep
  <2>1. ASSUME NEW c \in Ids, ProcessExits(c)
        PROVE  TaskInv'
    <3>1. PICK code \in ExitCodes : Publish(ExitEvent(c, InitPid, code))
      BY <2>1 DEF ProcessExits
    <3>2. /\ task[c] = "running" /\ task' = [task EXCEPT ![c] = "stopped"] /\ UNCHANGED <<status, monitor>>
      BY <2>1 DEF ProcessExits, memory
    <3>3. ASSUME NEW id \in Ids, ExitOnItsWay(id)'
          PROVE  ExitOnItsWay(id) \/ id = c
      <4>1. InitExitQueued(id)' => InitExitQueued(id) \/ IsInitExit(ExitEvent(c, InitPid, code), id)
        BY <3>1, QueuedPublish, EventTypes
      <4> QED
        BY <3>2, <3>3, <4>1 DEF ExitOnItsWay, IsInitExit, ExitEvent, monitor
    <3>4. Ran(c)
      BY <3>2 DEF TaskInv
    <3> QED
      BY <1>0, <3>2, <3>3, <3>4 DEF TaskInv
  <2>2. ASSUME NEW c \in Ids, ExecExits(c)
        PROVE  TaskInv'
    <3>1. PICK code \in ExitCodes : Publish(ExitEvent(c, ExecPid, code))
      BY <2>2 DEF ExecExits
    <3>2. UNCHANGED <<task, status, monitor>>
      BY <2>2 DEF ExecExits, memory, runtime
    <3>3. \A id \in Ids : ~IsInitExit(ExitEvent(c, ExecPid, code), id)
      BY SMTT(30) DEF IsInitExit, ExitEvent, InitPid, ExecPid
    <3>4. \A id \in Ids : InitExitQueued(id)' => InitExitQueued(id)
      BY <3>1, <3>3, QueuedPublish, EventTypes
    <3>5. \A id \in Ids : ExitOnItsWay(id)' => ExitOnItsWay(id)
      BY <3>2, <3>4 DEF ExitOnItsWay, IsInitExit, monitor
    <3> QED
      BY <1>0, <3>2, <3>5, TaskFrame
  <2>3. ASSUME NEW c \in Ids \cup {Nil}, OOM(c)
        PROVE  TaskInv'
    <3>1. Publish(OOMEvent(c)) /\ UNCHANGED <<task, status, monitor>>
      BY <2>3 DEF OOM, memory, runtime
    <3>2. \A id \in Ids : ~IsInitExit(OOMEvent(c), id)
      BY DEF IsInitExit, OOMEvent
    <3>3. \A id \in Ids : InitExitQueued(id)' => InitExitQueued(id)
      BY <3>1, <3>2, QueuedPublish, EventTypes
    <3>4. \A id \in Ids : ExitOnItsWay(id)' => ExitOnItsWay(id)
      BY <3>1, <3>3 DEF ExitOnItsWay, IsInitExit, monitor
    <3> QED
      BY <1>0, <3>1, <3>4, TaskFrame
  <2>4. CASE StreamBreaks
    <3>1. UNCHANGED <<task, status, monitor>> /\ stream' = <<>>
      BY <2>4 DEF StreamBreaks, memory, runtime
    <3>2. \A id \in Ids : ExitOnItsWay(id)' => ExitOnItsWay(id)
      BY <3>1, SMTT(30) DEF ExitOnItsWay, IsInitExit, InitExitQueued, monitor
    <3> QED
      BY <1>0, <3>1, <3>2, TaskFrame
  <2>5. CASE SandboxGoes \/ Restart \/ \E p \in Procs : Cancel(p)
    <3>1. UNCHANGED <<task, status, monitor, stream>>
      BY <2>5 DEF SandboxGoes, Restart, Cancel, memory, runtime, events
    <3> QED
      BY <1>0, <3>1, TaskFrame DEF ExitOnItsWay, InitExitQueued, monitor
  <2>6. CASE Crash
    <3>1. /\ status' = [id \in Ids |-> ZeroStatus] /\ stream' = <<>> /\ mpc' = "recv" /\ UNCHANGED task
      BY <2>6 DEF Crash, Dies, ResetMemory, runtime
    <3> QED
      BY <1>0, <3>1, ZeroFields, SMTT(30) DEF TaskInv, ExitOnItsWay, InitExitQueued
  <2> QED
    BY <1>3, <2>1, <2>2, <2>3, <2>4, <2>5, <2>6 DEF EnvStep
<1>4. CASE UNCHANGED vars
  <2>1. UNCHANGED <<task, status, monitor, stream>>
    BY <1>4 DEF vars, memory, runtime, events
  <2> QED
    BY <1>0, <2>1, TaskFrame DEF ExitOnItsWay, InitExitQueued, monitor
<1> QED
  BY <1>1, <1>2, <1>3, <1>4 DEF Next

-----------------------------------------------------------------------------
(* The resources of a container, and what StopContainer says. *)
LEMMA ResourceFrame ==
  ASSUME ResourceInv, RunningHasResources, RuntimeType,
         UNCHANGED <<snapshots, dirs, ctrs>>,
         \A id \in Ids : status'[id].createdAt => status[id].createdAt \/ id \in dirs \cap ctrs,
         \A id \in Ids : task'[id] = "running" =>
            task[id] = "running" \/ (id \in snapshots /\ status[id].createdAt),
         \A p \in Procs : PlaceInv(p)'
  PROVE  ResourceInv' /\ RunningHasResources'
BY DEF ResourceInv, RunningHasResources, RuntimeType

(* The init process of a container being created or removed does not run. *)
LEMMA NotRunningAt ==
  ASSUME IInv, TaskInv, NEW p \in Procs, pc[p] \in CreatePcs \/ Removing(p), arg[p] \in Ids
  PROVE  task[arg[p]] # "running"
<1> USE DEF IInv, HandlerInv
<1>1. CASE pc[p] \in CreatePcs
  <2>1. status[arg[p]] = ZeroStatus /\ arg[p] \notin containers
    BY <1>1 DEF CreateInv
  <2>2. lock[arg[p]] = Nil
    BY <2>1 DEF LockInv, TypeOK, MemoryType
  <2>3. ~Ran(arg[p])
    BY <1>1, <2>1, <2>2, ZeroFields DEF Ran, Forgotten
  <2> QED
    BY <2>3 DEF TaskInv
<1>2. CASE Removing(p)
  BY <1>2 DEF RemoveInv, TaskInv
<1> QED
  BY <1>1, <1>2

LEMMA ResourceChange ==
  ASSUME IInv, TaskInv, ResourceInv, RunningHasResources,
         NEW p \in Procs, pc[p] \in CreatePcs \/ Removing(p), NEW to \in Pcs,
         pc' = [pc EXCEPT ![p] = to], UNCHANGED <<arg, status, task>>,
         snapshots' \subseteq Ids,
         \A id \in Ids \ {arg[p]} : /\ (id \in snapshots') = (id \in snapshots)
                                   /\ (id \in dirs') = (id \in dirs)
                                   /\ (id \in ctrs') = (id \in ctrs),
         arg[p] \in snapshots' /\ status[arg[p]].createdAt => arg[p] \in dirs' \cap ctrs',
         PlaceInv(p)'
  PROVE  ResourceInv' /\ RunningHasResources'
<1> USE DEF IInv, TypeOK, HandlerType, RuntimeType
<1>0. /\ arg' = arg /\ status' = status /\ task' = task
      /\ \A id \in Ids : id # arg[p] => /\ (id \in snapshots') = (id \in snapshots)
                                      /\ (id \in dirs') = (id \in dirs)
                                      /\ (id \in ctrs') = (id \in ctrs)
  OBVIOUS
<1>1. arg[p] \in Ids
  BY DEF Removing, Busy
<1>2. task[arg[p]] # "running"
  BY <1>1, NotRunningAt
<1>3. RunningHasResources'
  BY <1>0, <1>1, <1>2 DEF RunningHasResources
<1>4. \A id \in snapshots' : status'[id].createdAt => id \in dirs' \cap ctrs'
  BY <1>0, <1>1 DEF ResourceInv
<1>5. ASSUME NEW q \in Procs, q # p
      PROVE  PlaceInv(q)'
  <2>1. pc'[q] = pc[q] /\ arg'[q] = arg[q]
    BY <1>0, <1>5
  <2>2. PlaceInv(q)
    BY DEF ResourceInv
  <2>3. pc[q] \in {"mkdir", "newCtr", "add", "newTask", "runTask", "started", "rmDir", "rmCtr", "rmStore", "rmName"}
          => arg[q] # arg[p] /\ arg[q] \in Ids
    <3>1. pc[q] \in {"mkdir", "newCtr", "add"} => pc[q] \in CreatePcs
      BY DEF CreatePcs
    <3>2. pc[q] \in {"newTask", "runTask", "started"} => Starting(q)
      BY DEF Starting, StartPcs
    <3>3. pc[q] \in {"rmDir", "rmCtr", "rmStore", "rmName"} => Removing(q)
      BY DEF Removing, RemovePcs
    <3>4. pc[q] \in CreatePcs \/ Starting(q) \/ Removing(q) => arg[q] \in Ids
      BY DEF Starting, Removing, Busy
    <3> QED
      BY <1>5, <3>1, <3>2, <3>3, <3>4, AloneAt
  <2> QED
    BY <1>0, <2>1, <2>2, <2>3 DEF PlaceInv
<1>6. \A q \in Procs : PlaceInv(q)'
  BY <1>5
<1> QED
  BY <1>3, <1>4, <1>6 DEF ResourceInv

(* The steps that make or remove a resource. *)
LEMMA ResourceActionStep ==
  ASSUME "cancel" \notin Env, IInv, TaskInv, ResourceInv, RunningHasResources, NEW p \in Procs,
         \/ CreateSnapshot(p) \/ CreateRootDir(p) \/ CreateContainerdContainer(p)
         \/ UndoRootDir(p) \/ UndoSnapshot(p)
         \/ RemoveSnapshot(p) \/ RemoveRootDir(p) \/ DeleteContainerdContainer(p)
  PROVE  ResourceInv' /\ RunningHasResources'
<1> USE DEF IInv, TypeOK, HandlerType, RuntimeType
<1>1. PlaceInv(p) /\ \A id \in snapshots : status[id].createdAt => id \in dirs \cap ctrs
  BY DEF ResourceInv
<1>2. pc[p] \in CreatePcs => ~status[arg[p]].createdAt
  BY ZeroFields DEF HandlerInv, CreateInv
<1>3. UNCHANGED <<arg, status, task>>
  BY DEF CreateSnapshot, CreateRootDir, CreateContainerdContainer, UndoRootDir, UndoSnapshot,
         RemoveSnapshot, RemoveRootDir, DeleteContainerdContainer, Calls, CallsLocal, Fails, Moves, memory
<1>4. CASE CreateSnapshot(p)
  <2>1. /\ pc[p] = "snapshot" /\ UNCHANGED <<dirs, ctrs>>
        /\ \E to \in {"mkdir", "undoName"} :
              /\ pc' = [pc EXCEPT ![p] = to]
              /\ (snapshots' = snapshots \cup {arg[p]} /\ to = "mkdir") \/ (snapshots' = snapshots /\ to = "undoName")
    BY <1>4, NoLostAnswer DEF CreateSnapshot, Calls, Outcomes, Effective, Moves
  <2>2. PICK to \in {"mkdir", "undoName"} :
           /\ pc' = [pc EXCEPT ![p] = to]
           /\ (snapshots' = snapshots \cup {arg[p]} /\ to = "mkdir") \/ (snapshots' = snapshots /\ to = "undoName")
    BY <2>1
  <2>3. pc[p] \in CreatePcs /\ to \in Pcs /\ arg[p] \in Ids
    BY <2>1 DEF CreatePcs, Busy, Pcs, Returned
  <2>4. \A id \in Ids \ {arg[p]} : /\ (id \in snapshots') = (id \in snapshots)
                                  /\ (id \in dirs') = (id \in dirs)
                                  /\ (id \in ctrs') = (id \in ctrs)
    BY <2>1, <2>2, SMTT(30)
  <2>5. arg[p] \in snapshots' /\ status[arg[p]].createdAt => arg[p] \in dirs' \cap ctrs'
    BY <1>1, <1>2, <2>1, <2>2, <2>3 DEF PlaceInv
  <2>6. PlaceInv(p)'
    BY <1>1, <1>3, <2>1, <2>2, <2>3 DEF PlaceInv
  <2>7. snapshots' \subseteq Ids
    BY <2>1, <2>2, <2>3
  <2>8. pc' = [pc EXCEPT ![p] = to]
    BY <2>2
  <2> QED
    BY <1>3, <2>3, <2>4, <2>5, <2>6, <2>7, <2>8, ResourceChange
<1>5. CASE CreateRootDir(p)
  <2>1. /\ pc[p] = "mkdir" /\ UNCHANGED <<snapshots, ctrs>>
        /\ \E to \in {"newCtr", "undoSnapshot"} :
              /\ pc' = [pc EXCEPT ![p] = to]
              /\ (dirs' = dirs \cup {arg[p]} /\ to = "newCtr") \/ (dirs' = dirs /\ to = "undoSnapshot")
    BY <1>5 DEF CreateRootDir, CallsLocal, LocalOutcomes, Effective, Moves, May
  <2>2. PICK to \in {"newCtr", "undoSnapshot"} :
           /\ pc' = [pc EXCEPT ![p] = to]
           /\ (dirs' = dirs \cup {arg[p]} /\ to = "newCtr") \/ (dirs' = dirs /\ to = "undoSnapshot")
    BY <2>1
  <2>3. pc[p] \in CreatePcs /\ to \in Pcs /\ arg[p] \in Ids
    BY <2>1 DEF CreatePcs, Busy, Pcs, Returned
  <2>4. \A id \in Ids \ {arg[p]} : /\ (id \in snapshots') = (id \in snapshots)
                                  /\ (id \in dirs') = (id \in dirs)
                                  /\ (id \in ctrs') = (id \in ctrs)
    BY <2>1, <2>2, SMTT(30)
  <2>5. arg[p] \in snapshots' /\ status[arg[p]].createdAt => arg[p] \in dirs' \cap ctrs'
    BY <1>1, <1>2, <2>1, <2>2, <2>3 DEF PlaceInv
  <2>6. PlaceInv(p)'
    BY <1>1, <1>3, <2>1, <2>2, <2>3 DEF PlaceInv
  <2>7. snapshots' \subseteq Ids
    BY <2>1, <2>2, <2>3
  <2>8. pc' = [pc EXCEPT ![p] = to]
    BY <2>2
  <2> QED
    BY <1>3, <2>3, <2>4, <2>5, <2>6, <2>7, <2>8, ResourceChange
<1>6. CASE CreateContainerdContainer(p)
  <2>1. /\ pc[p] = "newCtr" /\ UNCHANGED <<snapshots, dirs>>
        /\ \E to \in {"add", "undoDir"} :
              /\ pc' = [pc EXCEPT ![p] = to]
              /\ (ctrs' = ctrs \cup {arg[p]} /\ to = "add") \/ (ctrs' = ctrs /\ to = "undoDir")
    BY <1>6, NoLostAnswer DEF CreateContainerdContainer, Calls, Outcomes, Effective, Moves
  <2>2. PICK to \in {"add", "undoDir"} :
           /\ pc' = [pc EXCEPT ![p] = to]
           /\ (ctrs' = ctrs \cup {arg[p]} /\ to = "add") \/ (ctrs' = ctrs /\ to = "undoDir")
    BY <2>1
  <2>3. pc[p] \in CreatePcs /\ to \in Pcs /\ arg[p] \in Ids
    BY <2>1 DEF CreatePcs, Busy, Pcs, Returned
  <2>4. \A id \in Ids \ {arg[p]} : /\ (id \in snapshots') = (id \in snapshots)
                                  /\ (id \in dirs') = (id \in dirs)
                                  /\ (id \in ctrs') = (id \in ctrs)
    BY <2>1, <2>2, SMTT(30)
  <2>5. arg[p] \in snapshots' /\ status[arg[p]].createdAt => arg[p] \in dirs' \cap ctrs'
    BY <1>1, <1>2, <2>1, <2>2, <2>3 DEF PlaceInv
  <2>6. PlaceInv(p)'
    BY <1>1, <1>3, <2>1, <2>2, <2>3 DEF PlaceInv
  <2>7. snapshots' \subseteq Ids
    BY <2>1, <2>2, <2>3
  <2>8. pc' = [pc EXCEPT ![p] = to]
    BY <2>2
  <2> QED
    BY <1>3, <2>3, <2>4, <2>5, <2>6, <2>7, <2>8, ResourceChange
<1>7. CASE UndoRootDir(p)
  <2>1. /\ pc[p] = "undoDir" /\ UNCHANGED <<snapshots, ctrs>>
        /\ \E to \in {"undoSnapshot"} :
              /\ pc' = [pc EXCEPT ![p] = to]
              /\ (dirs' = dirs \ {arg[p]}) \/ (dirs' = dirs)
    BY <1>7 DEF UndoRootDir, CallsLocal, LocalOutcomes, Effective, Moves, May
  <2>2. PICK to \in {"undoSnapshot"} :
           /\ pc' = [pc EXCEPT ![p] = to]
           /\ (dirs' = dirs \ {arg[p]}) \/ (dirs' = dirs)
    BY <2>1
  <2>3. pc[p] \in CreatePcs /\ to \in Pcs /\ arg[p] \in Ids
    BY <2>1 DEF CreatePcs, Busy, Pcs, Returned
  <2>4. \A id \in Ids \ {arg[p]} : /\ (id \in snapshots') = (id \in snapshots)
                                  /\ (id \in dirs') = (id \in dirs)
                                  /\ (id \in ctrs') = (id \in ctrs)
    BY <2>1, <2>2, SMTT(30)
  <2>5. arg[p] \in snapshots' /\ status[arg[p]].createdAt => arg[p] \in dirs' \cap ctrs'
    BY <1>1, <1>2, <2>1, <2>2, <2>3 DEF PlaceInv
  <2>6. PlaceInv(p)'
    BY <1>1, <1>3, <2>1, <2>2, <2>3 DEF PlaceInv
  <2>7. snapshots' \subseteq Ids
    BY <2>1, <2>2, <2>3
  <2>8. pc' = [pc EXCEPT ![p] = to]
    BY <2>2
  <2> QED
    BY <1>3, <2>3, <2>4, <2>5, <2>6, <2>7, <2>8, ResourceChange
<1>8. CASE UndoSnapshot(p)
  <2>1. /\ pc[p] = "undoSnapshot" /\ UNCHANGED <<dirs, ctrs>>
        /\ \E to \in {"undoName"} :
              /\ pc' = [pc EXCEPT ![p] = to]
              /\ (snapshots' = snapshots \ {arg[p]}) \/ (snapshots' = snapshots)
    BY <1>8, NoLostAnswer DEF UndoSnapshot, Calls, Outcomes, Effective, Moves
  <2>2. PICK to \in {"undoName"} :
           /\ pc' = [pc EXCEPT ![p] = to]
           /\ (snapshots' = snapshots \ {arg[p]}) \/ (snapshots' = snapshots)
    BY <2>1
  <2>3. pc[p] \in CreatePcs /\ to \in Pcs /\ arg[p] \in Ids
    BY <2>1 DEF CreatePcs, Busy, Pcs, Returned
  <2>4. \A id \in Ids \ {arg[p]} : /\ (id \in snapshots') = (id \in snapshots)
                                  /\ (id \in dirs') = (id \in dirs)
                                  /\ (id \in ctrs') = (id \in ctrs)
    BY <2>1, <2>2, SMTT(30)
  <2>5. arg[p] \in snapshots' /\ status[arg[p]].createdAt => arg[p] \in dirs' \cap ctrs'
    BY <1>1, <1>2, <2>1, <2>2, <2>3 DEF PlaceInv
  <2>6. PlaceInv(p)'
    BY <1>1, <1>3, <2>1, <2>2, <2>3 DEF PlaceInv
  <2>7. snapshots' \subseteq Ids
    BY <2>1, <2>2, <2>3
  <2>8. pc' = [pc EXCEPT ![p] = to]
    BY <2>2
  <2> QED
    BY <1>3, <2>3, <2>4, <2>5, <2>6, <2>7, <2>8, ResourceChange
<1>9. CASE RemoveSnapshot(p)
  <2>1. /\ pc[p] = "rmSnapshot" /\ UNCHANGED <<dirs, ctrs>>
        /\ \E to \in {"rmDir", "resetRemoving"} :
              /\ pc' = [pc EXCEPT ![p] = to]
              /\ (snapshots' = snapshots \ {arg[p]} /\ to = "rmDir") \/ (snapshots' = snapshots /\ to = "resetRemoving")
    BY <1>9, NoLostAnswer DEF RemoveSnapshot, Calls, Outcomes, Effective, Moves
  <2>2. PICK to \in {"rmDir", "resetRemoving"} :
           /\ pc' = [pc EXCEPT ![p] = to]
           /\ (snapshots' = snapshots \ {arg[p]} /\ to = "rmDir") \/ (snapshots' = snapshots /\ to = "resetRemoving")
    BY <2>1
  <2>3. Removing(p) /\ to \in Pcs /\ arg[p] \in Ids
    BY <2>1 DEF Removing, RemovePcs, Busy, Pcs, Returned
  <2>4. \A id \in Ids \ {arg[p]} : /\ (id \in snapshots') = (id \in snapshots)
                                  /\ (id \in dirs') = (id \in dirs)
                                  /\ (id \in ctrs') = (id \in ctrs)
    BY <2>1, <2>2, SMTT(30)
  <2>5. arg[p] \in snapshots' /\ status[arg[p]].createdAt => arg[p] \in dirs' \cap ctrs'
    BY <1>1, <1>2, <2>1, <2>2, <2>3 DEF PlaceInv
  <2>6. PlaceInv(p)'
    BY <1>1, <1>3, <2>1, <2>2, <2>3 DEF PlaceInv
  <2>7. snapshots' \subseteq Ids
    BY <2>1, <2>2, <2>3
  <2>8. pc' = [pc EXCEPT ![p] = to]
    BY <2>2
  <2> QED
    BY <1>3, <2>3, <2>4, <2>5, <2>6, <2>7, <2>8, ResourceChange
<1>10. CASE RemoveRootDir(p)
  <2>1. /\ pc[p] = "rmDir" /\ UNCHANGED <<snapshots, ctrs>>
        /\ \E to \in {"rmCtr", "resetRemoving"} :
              /\ pc' = [pc EXCEPT ![p] = to]
              /\ (dirs' = dirs \ {arg[p]} /\ to = "rmCtr") \/ (dirs' = dirs /\ to = "resetRemoving")
    BY <1>10 DEF RemoveRootDir, CallsLocal, LocalOutcomes, Effective, Moves, May
  <2>2. PICK to \in {"rmCtr", "resetRemoving"} :
           /\ pc' = [pc EXCEPT ![p] = to]
           /\ (dirs' = dirs \ {arg[p]} /\ to = "rmCtr") \/ (dirs' = dirs /\ to = "resetRemoving")
    BY <2>1
  <2>3. Removing(p) /\ to \in Pcs /\ arg[p] \in Ids
    BY <2>1 DEF Removing, RemovePcs, Busy, Pcs, Returned
  <2>4. \A id \in Ids \ {arg[p]} : /\ (id \in snapshots') = (id \in snapshots)
                                  /\ (id \in dirs') = (id \in dirs)
                                  /\ (id \in ctrs') = (id \in ctrs)
    BY <2>1, <2>2, SMTT(30)
  <2>5. arg[p] \in snapshots' /\ status[arg[p]].createdAt => arg[p] \in dirs' \cap ctrs'
    BY <1>1, <1>2, <2>1, <2>2, <2>3 DEF PlaceInv
  <2>6. PlaceInv(p)'
    BY <1>1, <1>3, <2>1, <2>2, <2>3 DEF PlaceInv
  <2>7. snapshots' \subseteq Ids
    BY <2>1, <2>2, <2>3
  <2>8. pc' = [pc EXCEPT ![p] = to]
    BY <2>2
  <2> QED
    BY <1>3, <2>3, <2>4, <2>5, <2>6, <2>7, <2>8, ResourceChange
<1>11. CASE DeleteContainerdContainer(p)
  <2>1. /\ pc[p] = "rmCtr" /\ UNCHANGED <<snapshots, dirs>>
        /\ \E to \in {"rmStore", "resetRemoving"} :
              /\ pc' = [pc EXCEPT ![p] = to]
              /\ (ctrs' = ctrs \ {arg[p]} /\ to = "rmStore") \/ (ctrs' = ctrs /\ to = "resetRemoving")
    BY <1>11, NoLostAnswer DEF DeleteContainerdContainer, Calls, Outcomes, Fails, Effective, Moves
  <2>2. PICK to \in {"rmStore", "resetRemoving"} :
           /\ pc' = [pc EXCEPT ![p] = to]
           /\ (ctrs' = ctrs \ {arg[p]} /\ to = "rmStore") \/ (ctrs' = ctrs /\ to = "resetRemoving")
    BY <2>1
  <2>3. Removing(p) /\ to \in Pcs /\ arg[p] \in Ids
    BY <2>1 DEF Removing, RemovePcs, Busy, Pcs, Returned
  <2>4. \A id \in Ids \ {arg[p]} : /\ (id \in snapshots') = (id \in snapshots)
                                  /\ (id \in dirs') = (id \in dirs)
                                  /\ (id \in ctrs') = (id \in ctrs)
    BY <2>1, <2>2, SMTT(30)
  <2>5. arg[p] \in snapshots' /\ status[arg[p]].createdAt => arg[p] \in dirs' \cap ctrs'
    BY <1>1, <1>2, <2>1, <2>2, <2>3 DEF PlaceInv
  <2>6. PlaceInv(p)'
    BY <1>1, <1>3, <2>1, <2>2, <2>3 DEF PlaceInv
  <2>7. snapshots' \subseteq Ids
    BY <2>1, <2>2, <2>3
  <2>8. pc' = [pc EXCEPT ![p] = to]
    BY <2>2
  <2> QED
    BY <1>3, <2>3, <2>4, <2>5, <2>6, <2>7, <2>8, ResourceChange
<1> QED
  BY <1>4, <1>5, <1>6, <1>7, <1>8, <1>9, <1>10, <1>11

(* The other steps of a handler. *)
LEMMA ResourceMove ==
  ASSUME IInv, ResourceInv, RunningHasResources, NEW p \in Procs,
         UNCHANGED <<snapshots, dirs, ctrs>>,
         \A id \in Ids : status'[id].createdAt => status[id].createdAt \/ id \in dirs \cap ctrs,
         \A id \in Ids : task'[id] = "running" =>
            task[id] = "running" \/ (id \in snapshots /\ status[id].createdAt),
         \A q \in Procs : q # p => pc'[q] = pc[q] /\ arg'[q] = arg[q],
         PlaceInv(p)'
  PROVE  ResourceInv' /\ RunningHasResources'
<1>1. ASSUME NEW q \in Procs, q # p PROVE PlaceInv(q)'
  <2>1. pc'[q] = pc[q] /\ arg'[q] = arg[q]
    BY <1>1
  <2>2. PlaceInv(q)
    BY DEF ResourceInv
  <2> QED
    BY <2>1, <2>2 DEF PlaceInv
<1>2. \A q \in Procs : PlaceInv(q)'
  BY <1>1
<1> QED
  BY <1>2, ResourceFrame DEF IInv, TypeOK

LEMMA ResourceStep ==
  ASSUME "cancel" \notin Env, IInv, TaskInv, ResourceInv, RunningHasResources, [Next]_vars
  PROVE  ResourceInv' /\ RunningHasResources'
<1> USE DEF IInv, TypeOK, MemoryType, HandlerType, RuntimeType
<1>1. ASSUME NEW p \in Procs, Request(p) \/ HandlerStep(p)
      PROVE  ResourceInv' /\ RunningHasResources'
  <2>0. PlaceInv(p)
    BY DEF ResourceInv
  <2>1. CASE \/ CreateSnapshot(p) \/ CreateRootDir(p) \/ CreateContainerdContainer(p)
             \/ UndoRootDir(p) \/ UndoSnapshot(p)
             \/ RemoveSnapshot(p) \/ RemoveRootDir(p) \/ DeleteContainerdContainer(p)
    BY <2>1, ResourceActionStep
  <2>2. CASE \/ CreateContainerRejected(p) \/ StartContainer(p) \/ StopContainer(p)
             \/ RemoveContainer(p) \/ Respond(p) \/ CreateContainer(p)
    <3>1. /\ UNCHANGED <<status, snapshots, dirs, ctrs, task>>
          /\ \E to \in {"idle", "ok", "err", "lock", "state", "setRemoving", "resolve"} : pc' = [pc EXCEPT ![p] = to]
          /\ \E id \in Ids \cup {Nil} : arg' = [arg EXCEPT ![p] = id]
      BY <2>2, ArrivalMoves DEF CreateContainer, Arrives, runtime, memory
    <3>2. PlaceInv(p)' /\ \A q \in Procs : q # p => pc'[q] = pc[q] /\ arg'[q] = arg[q]
      BY <3>1 DEF PlaceInv
    <3> QED
      BY <3>1, <3>2, ResourceMove
  <2>3. CASE \/ ResolveImage(p) \/ UndoName(p) \/ BeginStart(p) \/ CheckSandbox(p) \/ UndoTask(p)
             \/ StopRunning(p) \/ SendStopSignal(p) \/ SendKill(p) \/ StopObserved(p) \/ StopWaitEnds(p)
             \/ ReleaseName(p)
    <3>1. UNCHANGED <<status, snapshots, dirs, ctrs, arg>>
      BY <2>3 DEF ResolveImage, UndoName, BeginStart, CheckSandbox, UndoTask, StopRunning, SendStopSignal,
           SendKill, StopObserved, StopWaitEnds, ReleaseName, Calls, Fails, Moves, memory, runtime
    <3>2. \E to \in {"snapshot", "undoName", "ok", "err", "checkSandbox", "mounts", "startFailed",
                    "term", "kill", "termWait", "killWait"} : pc' = [pc EXCEPT ![p] = to]
      <4>1. CASE ResolveImage(p) \/ UndoName(p) \/ ReleaseName(p)
        BY <4>1 DEF ResolveImage, UndoName, ReleaseName, Calls, Moves
      <4>2. CASE BeginStart(p) \/ CheckSandbox(p) \/ UndoTask(p)
        BY <4>2 DEF BeginStart, CheckSandbox, UndoTask, Calls, Fails, Moves
      <4>3. CASE StopRunning(p) \/ SendStopSignal(p) \/ SendKill(p) \/ StopObserved(p) \/ StopWaitEnds(p)
        BY <4>3 DEF StopRunning, SendStopSignal, SendKill, StopObserved, StopWaitEnds, Calls, Moves
      <4> QED
        BY <2>3, <4>1, <4>2, <4>3
    <3>3. task' = task \/ task' = [task EXCEPT ![arg[p]] = "none"]
      BY <2>3 DEF ResolveImage, UndoName, BeginStart, CheckSandbox, UndoTask, StopRunning, SendStopSignal,
           SendKill, StopObserved, StopWaitEnds, ReleaseName, runtime
    <3>4. \A id \in Ids : task'[id] = "running" => task[id] = "running"
      BY <3>3
    <3>5. PlaceInv(p)' /\ \A q \in Procs : q # p => pc'[q] = pc[q] /\ arg'[q] = arg[q]
      BY <3>1, <3>2 DEF PlaceInv
    <3> QED
      BY <3>1, <3>4, <3>5, ResourceMove
  <2>4. CASE PrepareRootfs(p)
    <3>1. UNCHANGED <<status, snapshots, dirs, ctrs, task, arg>>
      BY <2>4 DEF PrepareRootfs, Calls, Fails, Moves, memory, runtime
    <3>2. \E to \in {"newTask", "startFailed"} :
             pc' = [pc EXCEPT ![p] = to] /\ (to = "newTask" => arg[p] \in snapshots)
      BY <2>4 DEF PrepareRootfs, Calls, Fails, Moves
    <3>3. PlaceInv(p)' /\ \A q \in Procs : q # p => pc'[q] = pc[q] /\ arg'[q] = arg[q]
      BY <3>1, <3>2 DEF PlaceInv
    <3> QED
      BY <3>1, <3>3, ResourceMove
  <2>5. CASE CreateTask(p)
    <3>1. /\ UNCHANGED <<status, snapshots, dirs, ctrs, arg>> /\ pc[p] = "newTask"
          /\ task' = task \/ task' = [task EXCEPT ![arg[p]] = "created"]
      BY <2>5 DEF CreateTask, Calls, Moves, memory
    <3>2. \E to \in {"runTask", "startFailed"} : pc' = [pc EXCEPT ![p] = to]
      BY <2>5 DEF CreateTask, Calls, Moves
    <3>3. PlaceInv(p)' /\ \A q \in Procs : q # p => pc'[q] = pc[q] /\ arg'[q] = arg[q]
      BY <2>0, <3>1, <3>2 DEF PlaceInv
    <3>4. \A id \in Ids : task'[id] = "running" => task[id] = "running"
      BY <3>1
    <3> QED
      BY <3>1, <3>3, <3>4, ResourceMove
  <2>6. CASE StartTask(p)
    <3>1. /\ UNCHANGED <<status, snapshots, dirs, ctrs, arg>> /\ pc[p] = "runTask"
          /\ task' = task \/ task' = [task EXCEPT ![arg[p]] = "running"]
      BY <2>6 DEF StartTask, Calls, Moves, memory
    <3>2. \E to \in {"started", "undoTask"} : pc' = [pc EXCEPT ![p] = to]
      BY <2>6 DEF StartTask, Calls, Moves
    <3>3. PlaceInv(p)' /\ \A q \in Procs : q # p => pc'[q] = pc[q] /\ arg'[q] = arg[q]
      BY <2>0, <3>1, <3>2 DEF PlaceInv
    <3>4. arg[p] \in snapshots /\ status[arg[p]].createdAt
      BY <2>0, <3>1 DEF PlaceInv, HandlerInv, KnownInv, StartPcs
    <3>5. \A id \in Ids : task'[id] = "running" =>
            task[id] = "running" \/ (id \in snapshots /\ status[id].createdAt)
      BY <3>1, <3>4
    <3> QED
      BY <3>1, <3>3, <3>5, ResourceMove
  <2>7. CASE DeleteFromStore(p)
    <3>1. /\ UNCHANGED <<status, snapshots, dirs, ctrs, task, arg>>
          /\ pc[p] = "rmStore" /\ pc' = [pc EXCEPT ![p] = "rmName"]
      BY <2>7 DEF DeleteFromStore, Moves, runtime
    <3>2. PlaceInv(p)' /\ \A q \in Procs : q # p => pc'[q] = pc[q] /\ arg'[q] = arg[q]
      BY <2>0, <3>1 DEF PlaceInv
    <3> QED
      BY <3>1, <3>2, ResourceMove
  <2>8. CASE AddToStore(p) \/ EndStart(p) \/ FailStart(p) \/ SetRemoving(p) \/ ResetRemoving(p)
    <3>1. /\ UNCHANGED <<snapshots, dirs, ctrs, task, arg>>
          /\ \E to \in {"ok", "err", "rmSnapshot"} : pc' = [pc EXCEPT ![p] = to]
      BY <2>8 DEF AddToStore, EndStart, FailStart, SetRemoving, ResetRemoving, Moves, runtime
    <3>2. PlaceInv(p)' /\ \A q \in Procs : q # p => pc'[q] = pc[q] /\ arg'[q] = arg[q]
      BY <3>1 DEF PlaceInv
    <3>3. \A id \in Ids : status'[id].createdAt => status[id].createdAt \/ id \in dirs \cap ctrs
      <4>1. CASE AddToStore(p)
        BY <2>0, <4>1 DEF AddToStore, Moves, PlaceInv
      <4>2. CASE EndStart(p) \/ FailStart(p) \/ SetRemoving(p) \/ ResetRemoving(p)
        <5>1. arg[p] \in Ids
          BY <4>2 DEF EndStart, FailStart, SetRemoving, ResetRemoving, Moves, Busy, StartPcs, RemovePcs
        <5>2. status' = status \/ \E s \in {StartedStatus(status[arg[p]]), StartFailedStatus(status[arg[p]]),
                  RemovingStatus(status[arg[p]], TRUE), RemovingStatus(status[arg[p]], FALSE)} :
                 status' = [status EXCEPT ![arg[p]] = s]
          BY <4>2, <5>1 DEF EndStart, FailStart, SetRemoving, ResetRemoving
        <5>3. \A s \in {StartedStatus(status[arg[p]]), StartFailedStatus(status[arg[p]]),
                  RemovingStatus(status[arg[p]], TRUE), RemovingStatus(status[arg[p]], FALSE)} :
                 s.createdAt = status[arg[p]].createdAt
          BY <5>1 DEF StartedStatus, StartFailedStatus, RemovingStatus, Statuses
        <5> QED
          BY <5>1, <5>2, <5>3
      <4> QED
        BY <2>8, <4>1, <4>2
    <3> QED
      BY <3>1, <3>2, <3>3, ResourceMove
  <2> QED
    BY <1>1, <2>1, <2>2, <2>3, <2>4, <2>5, <2>6, <2>7, <2>8
       DEF Request, HandlerStep, CreateStep, StartStep, StopStep, RemoveStep
<1>2. CASE PanicOnOOM \/ Crash
  <2>1. /\ status' = [id \in Ids |-> ZeroStatus] /\ pc' = [p \in Procs |-> "idle"]
        /\ UNCHANGED <<snapshots, dirs, ctrs, task>>
    BY <1>2 DEF PanicOnOOM, Crash, Dies, ResetMemory, runtime
  <2>2. \A p \in Procs : PlaceInv(p)'
    BY <2>1 DEF PlaceInv
  <2>3. \A id \in Ids : ~status'[id].createdAt
    BY <2>1, ZeroFields
  <2> QED
    BY <2>1, <2>2, <2>3, ResourceFrame
<1>3. CASE ((MonitorStep \/ EnvStep) /\ ~PanicOnOOM /\ ~Crash) \/ UNCHANGED vars
  <2>1. UNCHANGED <<pc, arg, snapshots, dirs, ctrs>>
    BY <1>3 DEF MonitorStep, EnvStep, Subscribe, ReceiveEvent, DropExit, ComparePid, DeleteTask, RecordExit,
         RecordOOM, MonitorAt, ProcessExits, ExecExits, OOM, Cancel, StreamBreaks, SandboxGoes, Restart,
         handler, runtime, vars
  <2>2. \A id \in Ids : task'[id] = "running" => task[id] = "running"
    <3>1. task' = task \/ (\E id \in Ids, t \in {"none", "stopped"} : task' = [task EXCEPT ![id] = t])
      BY <1>3 DEF MonitorStep, EnvStep, Subscribe, ReceiveEvent, DropExit, ComparePid, DeleteTask, RecordExit,
         RecordOOM, MonitorAt, ProcessExits, ExecExits, OOM, Cancel, StreamBreaks, SandboxGoes, Restart,
         runtime, vars, MonitorType, Events
    <3> QED
      BY <3>1
  <2>3. \A id \in Ids : status'[id].createdAt => status[id].createdAt
    <3>1. CASE RecordExit \/ RecordOOM
      <4>1. mev.id \in Ids /\ mev.code \in Nat
        BY <3>1 DEF RecordExit, RecordOOM, MonitorType, Events
      <4> QED
        BY <3>1, <4>1, ExitedFields, OOMFields, SMTT(30) DEF RecordExit, RecordOOM
    <3>2. CASE ~RecordExit /\ ~RecordOOM
      <4>1. status' = status
        BY <1>3, <3>2 DEF MonitorStep, EnvStep, Subscribe, ReceiveEvent, DropExit, ComparePid, DeleteTask,
           ProcessExits, ExecExits, OOM, Cancel, StreamBreaks, SandboxGoes, Restart, memory, vars
      <4> QED
        BY <4>1
    <3> QED
      BY <3>1, <3>2
  <2>4. \A p \in Procs : PlaceInv(p)'
    <3>1. \A p \in Procs : PlaceInv(p)
      BY DEF ResourceInv
    <3> QED
      BY <2>1, <3>1 DEF PlaceInv
  <2> QED
    BY <2>1, <2>2, <2>3, <2>4, ResourceFrame
<1> QED
  BY <1>1, <1>2, <1>3 DEF Next

LEMMA UncancelledInit ==
  ASSUME Init
  PROVE  UncancelledInv
<1>1. \A id \in Ids : task[id] = "none" /\ ~ExitOnItsWay(id)
  BY SMTT(30) DEF Init, ExitOnItsWay, InitExitQueued
<1> QED
  BY <1>1 DEF Init, UncancelledInv, TaskInv, ResourceInv, PlaceInv, RunningHasResources

(* While no context is cancelled, the containers that run are known to run, and *)
(* no removal that fails half way leaves a container that can be started without *)
(* what it needs: the invariant from which the next two theorems follow.         *)
THEOREM Uncancelled ==
  ASSUME "cancel" \notin Env
  PROVE  Spec => []UncancelledInv
<1>1. Init => UncancelledInv
  BY UncancelledInit
<1>2. IInv /\ UncancelledInv /\ [Next]_vars => UncancelledInv'
  BY TaskStep, ResourceStep DEF UncancelledInv
<1> QED
  BY <1>1, <1>2, Invariance, PTL DEF Spec

(* setContainerRemoving and the status transaction of StartContainer keep the   *)
(* snapshot, the root directory and the containerd container of a container     *)
(* whose init process runs, whatever interleaves and whatever calls fail, as    *)
(* long as no request's context is cancelled.                                   *)
THEOREM RunningKeepsResources ==
  ASSUME "cancel" \notin Env
  PROVE  Spec => []RunningHasResources
<1>1. UncancelledInv => RunningHasResources
  BY DEF UncancelledInv
<1> QED
  BY <1>1, Uncancelled, PTL

(* A step of a handler moves that handler alone. *)
LEMMA HandlerMoves ==
  ASSUME NEW p \in Procs, NEW q \in Procs, p # q, pc \in [Procs -> Pcs], Request(q) \/ HandlerStep(q)
  PROVE  pc'[p] = pc[p]
<1>1. CASE QuietAction(q)
  BY <1>1, QuietMoves
<1>2. CASE CreateContainerRejected(q) \/ StartContainer(q) \/ StopContainer(q) \/ RemoveContainer(q) \/ Respond(q)
  BY <1>2, ArrivalMoves
<1>3. CASE \/ CreateContainer(q) \/ AddToStore(q) \/ UndoName(q) \/ BeginStart(q) \/ EndStart(q) \/ FailStart(q)
           \/ SetRemoving(q) \/ DeleteFromStore(q) \/ ReleaseName(q) \/ ResetRemoving(q)
  BY <1>3 DEF CreateContainer, AddToStore, UndoName, BeginStart, EndStart, FailStart, SetRemoving,
     DeleteFromStore, ReleaseName, ResetRemoving, Arrives, Moves
<1> QED
  BY <1>1, <1>2, <1>3 DEF Request, HandlerStep, CreateStep, StartStep, StopStep, RemoveStep, QuietAction

(* waitContainerStop reports a stop only when the init process is gone, both when *)
(* it polls EXITED and when it finds the container removed.                       *)
THEOREM StopsAreStops ==
  ASSUME "cancel" \notin Env
  PROVE  Spec => StopMeansStopped
<1>1. ASSUME IInv, UncancelledInv, [Next]_vars, NEW p \in Procs,
             pc[p] \in {"termWait", "killWait"}, pc'[p] = "ok"
      PROVE  task[arg[p]] # "running"
  <2> USE DEF IInv, TypeOK, MemoryType, HandlerType, RuntimeType
  <2>1. arg[p] \in Ids /\ status[arg[p]].createdAt /\ status[arg[p]] \in Statuses
    BY <1>1 DEF Busy, StopPcs, HandlerInv, KnownInv
  <2>2. StopObserved(p)
    <3>1. PICK q \in Procs : Request(q) \/ HandlerStep(q)
      <4>1. CASE MonitorStep \/ EnvStep \/ UNCHANGED vars
        <5>1. pc' = pc \/ pc' = [q \in Procs |-> "idle"]
          BY <4>1 DEF MonitorStep, EnvStep, Subscribe, ReceiveEvent, DropExit, ComparePid, DeleteTask, RecordExit,
             RecordOOM, PanicOnOOM, Crash, Dies, ResetMemory, MonitorAt, ProcessExits, ExecExits, OOM, Cancel,
             StreamBreaks, SandboxGoes, Restart, handler, vars
        <5> QED
          BY <1>1, <5>1
      <4> QED
        BY <1>1, <4>1 DEF Next
    <3>2. CASE q # p
      <4>1. pc'[p] = pc[p]
        BY <1>1, <3>1, <3>2, HandlerMoves
      <4> QED
        BY <1>1, <4>1
    <3>3. CASE q = p
      BY <1>1, <3>1, <3>3 DEF Request, HandlerStep, CreateStep, StartStep, StopStep, RemoveStep,
           CreateContainer, CreateContainerRejected, StartContainer, StopContainer, RemoveContainer, Arrives,
           ResolveImage, CreateSnapshot, CreateRootDir, CreateContainerdContainer, AddToStore, UndoRootDir,
           UndoSnapshot, UndoName, BeginStart, CheckSandbox, PrepareRootfs, CreateTask, StartTask, EndStart,
           UndoTask, FailStart, StopRunning, SendStopSignal, SendKill, StopWaitEnds, SetRemoving,
           RemoveSnapshot, RemoveRootDir, DeleteContainerdContainer, DeleteFromStore, ReleaseName, ResetRemoving,
           Respond, Returned, Calls, CallsLocal, Fails, Moves
    <3> QED
      BY <3>2, <3>3
  <2>3. CASE arg[p] \notin containers
    BY <1>1, <2>1, <2>3 DEF HandlerInv, RemoveInv, UncancelledInv, TaskInv
  <2>4. CASE State(status[arg[p]]) = "EXITED"
    BY <1>1, <2>1, <2>4, StateFacts DEF UncancelledInv, TaskInv
  <2> QED
    BY <2>2, <2>3, <2>4 DEF StopObserved
<1>2. IInv /\ UncancelledInv /\ [Next]_vars =>
        [\A p \in Procs : pc[p] \in {"termWait", "killWait"} /\ pc'[p] = "ok" => task[arg[p]] # "running"]_vars
  BY <1>1
<1> QED
  BY <1>2, Invariance, Uncancelled, PTL DEF Spec, StopMeansStopped
==============================================================================
