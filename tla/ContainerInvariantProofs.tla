---------------------- MODULE ContainerInvariantProofs -----------------------
(***************************************************************************)
(* The invariant of ContainerInvariant is inductive, for every value of the*)
(* constants, and what follows from it: the safety properties, and that    *)
(* ContainerService implements ContainerLifecycle whatever the environment *)
(* does.                                                                   *)
(***************************************************************************)
EXTENDS ContainerInvariant, TLAPS

(* Zenon proves most leaves; the others name SMT. *)
USE ZenonT(30)

(* What the status callbacks return is a status. *)
LEMMA StatusTypes ==
  ASSUME NEW s \in Statuses
  PROVE  /\ ZeroStatus \in Statuses /\ CreatedStatus \in Statuses
         /\ StartedStatus(s) \in Statuses
         /\ StartFailedStatus(s) \in Statuses
         /\ \A code \in Nat : ExitedStatus(s, code) \in Statuses
         /\ RemovingStatus(s, TRUE) \in Statuses /\ RemovingStatus(s, FALSE) \in Statuses
         /\ OOMStatus(s) \in Statuses
<1> USE DEF Statuses, NoPid, InitPid, errorStartExitCode, errorStartReason, oomExitReason
<1>1. ZeroStatus \in Statuses /\ CreatedStatus \in Statuses
  BY DEF ZeroStatus, CreatedStatus
<1>2. StartedStatus(s) \in Statuses
  BY DEF StartedStatus
<1>3. StartFailedStatus(s) \in Statuses
  BY DEF StartFailedStatus
<1>4. \A code \in Nat : ExitedStatus(s, code) \in Statuses
  BY DEF ExitedStatus
<1>5. RemovingStatus(s, TRUE) \in Statuses /\ RemovingStatus(s, FALSE) \in Statuses
  BY DEF RemovingStatus
<1>6. OOMStatus(s) \in Statuses
  BY DEF OOMStatus
<1> QED
  BY <1>1, <1>2, <1>3, <1>4, <1>5, <1>6

(* Every operation of a registrar yields a registrar. *)
LEMMA RegistrarTypes ==
  ASSUME NEW N, NEW K, NEW r \in Registrars(N, K)
  PROVE  /\ NewRegistrar(N, K) \in Registrars(N, K)
         /\ \A n \in N, k \in K : Reserve(r, n, k) \in Registrars(N, K)
         /\ \A n \in N : ReleaseByName(r, n) \in Registrars(N, K)
         /\ \A k \in K : ReleaseByKey(r, k) \in Registrars(N, K)
<1> USE DEF Registrars
<1>1. NewRegistrar(N, K) \in Registrars(N, K)
  BY DEF NewRegistrar
<1>2. ASSUME NEW n \in N, NEW k \in K PROVE Reserve(r, n, k) \in Registrars(N, K)
  BY DEF Reserve, Bind
<1>3. ASSUME NEW n \in N PROVE ReleaseByName(r, n) \in Registrars(N, K)
  BY DEF ReleaseByName, Unbind
<1>4. ASSUME NEW k \in K PROVE ReleaseByKey(r, k) \in Registrars(N, K)
  BY DEF ReleaseByKey, Unbind
<1> QED
  BY <1>1, <1>2, <1>3, <1>4

(* What containerd publishes is an event. *)
LEMMA EventTypes ==
  /\ \A id \in Ids, code \in ExitCodes :
       ExitEvent(id, InitPid, code) \in Events /\ ExitEvent(id, ExecPid, code) \in Events
  /\ \A id \in Ids \cup {Nil} : OOMEvent(id) \in Events
BY ExitCodeAssumption DEF Events, ExitEvent, OOMEvent, NoPid, InitPid, ExecPid

(* A new instance of the service starts from well-typed memory. *)
LEMMA ResetTypes ==
  ASSUME ResetMemory
  PROVE  MemoryType' /\ HandlerType' /\ MonitorType'
<1> USE DEF ResetMemory
<1>1. NewRegistrar(Names, Ids) \in Registrars(Names, Ids)
  BY DEF NewRegistrar, Registrars
<1>2. ZeroStatus \in Statuses
  BY DEF ZeroStatus, Statuses, NoPid
<1>3. MemoryType'
  BY <1>1, <1>2 DEF MemoryType
<1>4. HandlerType'
  BY DEF HandlerType, Pcs, Busy, CreatePcs, StartPcs, StopPcs, RemovePcs
<1>5. MonitorType'
  BY DEF MonitorType
<1> QED
  BY <1>3, <1>4, <1>5

LEMMA TypeInit == Init => TypeOK
<1> SUFFICES ASSUME Init PROVE TypeOK
  OBVIOUS
<1> USE DEF Init
<1>1. NewRegistrar(Names, Ids) \in Registrars(Names, Ids)
  BY DEF NewRegistrar, Registrars
<1>2. ZeroStatus \in Statuses
  BY DEF ZeroStatus, Statuses, NoPid
<1>3. MemoryType
  BY <1>1, <1>2 DEF MemoryType
<1>4. HandlerType
  BY DEF HandlerType, Pcs, Busy, CreatePcs, StartPcs, StopPcs, RemovePcs
<1>5. MonitorType
  BY DEF MonitorType
<1>6. RuntimeType
  BY DEF RuntimeType
<1>7. EventType
  <2>1. up \in BOOLEAN /\ panicked \in BOOLEAN /\ subscribed \in BOOLEAN
    OBVIOUS
  <2>2. stream \in Seq(Events) /\ missed \subseteq Ids /\ leaked \subseteq Ids /\ spent \in Nat
    BY SMTT(30)
  <2> QED
    BY <2>1, <2>2 DEF EventType
<1> QED
  BY <1>3, <1>4, <1>5, <1>6, <1>7 DEF TypeOK

(* Every step of a handler, of the monitor and of the environment preserves the *)
(* types; the groups of variables an action can change have a step each.        *)
LEMMA TypeStep == TypeOK /\ [Next]_vars => TypeOK'
<1> SUFFICES ASSUME TypeOK, [Next]_vars PROVE TypeOK'
  OBVIOUS
<1> USE NilAssumption DEF TypeOK, memory, handler, monitor, daemon, runtime, events
<1>1. ASSUME NEW p \in Procs, CreateContainer(p) PROVE TypeOK'
  <2> USE <1>1 DEF CreateContainer, Arrives
  <2>1. MonitorType' /\ EventType' BY DEF MonitorType, EventType
  <2>2. MemoryType' BY RegistrarTypes, SMTT(30) DEF MemoryType
  <2>3. HandlerType' BY SMTT(30) DEF HandlerType, RuntimeType, Pcs, Busy, CreatePcs
  <2>4. RuntimeType' BY SMTT(30) DEF RuntimeType
  <2> QED BY <2>1, <2>2, <2>3, <2>4
<1>2. ASSUME NEW p \in Procs, CreateContainerRejected(p) PROVE TypeOK'
  <2> USE <1>2 DEF CreateContainerRejected, Arrives
  <2>1. MemoryType' /\ MonitorType' /\ RuntimeType' /\ EventType' BY SMTT(30) DEF MemoryType, MonitorType, RuntimeType, EventType
  <2>2. HandlerType' BY SMTT(30) DEF HandlerType, Pcs, Returned, Busy, CreatePcs
  <2> QED BY <2>1, <2>2
<1>3. ASSUME NEW p \in Procs, StartContainer(p) PROVE TypeOK'
  <2> USE <1>3 DEF StartContainer, Arrives
  <2>1. MemoryType' /\ MonitorType' /\ RuntimeType' /\ EventType' BY DEF MemoryType, MonitorType, RuntimeType, EventType
  <2>2. HandlerType' BY SMTT(30) DEF HandlerType, Pcs, Returned, Busy, CreatePcs, StartPcs
  <2> QED BY <2>1, <2>2
<1>4. ASSUME NEW p \in Procs, StopContainer(p) PROVE TypeOK'
  <2> USE <1>4 DEF StopContainer, Arrives
  <2>1. MemoryType' /\ MonitorType' /\ RuntimeType' /\ EventType' BY DEF MemoryType, MonitorType, RuntimeType, EventType
  <2>2. HandlerType' BY SMTT(30) DEF HandlerType, Pcs, Returned, Busy, CreatePcs, StopPcs
  <2> QED BY <2>1, <2>2
<1>5. ASSUME NEW p \in Procs, RemoveContainer(p) PROVE TypeOK'
  <2> USE <1>5 DEF RemoveContainer, Arrives
  <2>1. MemoryType' /\ MonitorType' /\ RuntimeType' /\ EventType' BY DEF MemoryType, MonitorType, RuntimeType, EventType
  <2>2. HandlerType' BY SMTT(30) DEF HandlerType, Pcs, Returned, Busy, CreatePcs, RemovePcs
  <2> QED BY <2>1, <2>2
<1>6. ASSUME NEW p \in Procs, ResolveImage(p) PROVE TypeOK'
  <2> USE <1>6 DEF ResolveImage, Calls, Moves, Spend
  <2>1. MemoryType' /\ MonitorType' /\ RuntimeType' BY DEF MemoryType, MonitorType, RuntimeType
  <2>2. HandlerType' BY SMTT(30) DEF HandlerType, Pcs, Returned, Busy, CreatePcs
  <2>3. EventType' BY SMTT(30) DEF EventType
  <2> QED BY <2>1, <2>2, <2>3
<1>7. ASSUME NEW p \in Procs, CreateSnapshot(p) PROVE TypeOK'
  <2> USE <1>7 DEF CreateSnapshot, Calls, Moves, Spend, Leaks
  <2>1. MemoryType' /\ MonitorType' BY DEF MemoryType, MonitorType
  <2>2. HandlerType' BY SMTT(30) DEF HandlerType, Pcs, Returned, Busy, CreatePcs
  <2>3. RuntimeType' BY SMTT(30) DEF RuntimeType, HandlerType, Busy, CreatePcs
  <2>4. EventType' BY SMTT(30) DEF EventType, HandlerType, Busy, CreatePcs
  <2> QED BY <2>1, <2>2, <2>3, <2>4
<1>8. ASSUME NEW p \in Procs, CreateRootDir(p) PROVE TypeOK'
  <2> USE <1>8 DEF CreateRootDir, CallsLocal, Moves, Spend
  <2>1. MemoryType' /\ MonitorType' BY DEF MemoryType, MonitorType
  <2>2. HandlerType' BY SMTT(30) DEF HandlerType, Pcs, Returned, Busy, CreatePcs
  <2>3. RuntimeType' BY SMTT(30) DEF RuntimeType, HandlerType, Busy, CreatePcs
  <2>4. EventType' BY SMTT(30) DEF EventType
  <2> QED BY <2>1, <2>2, <2>3, <2>4
<1>9. ASSUME NEW p \in Procs, CreateContainerdContainer(p) PROVE TypeOK'
  <2> USE <1>9 DEF CreateContainerdContainer, Calls, Moves, Spend, Leaks
  <2>1. MemoryType' /\ MonitorType' BY DEF MemoryType, MonitorType
  <2>2. HandlerType' BY SMTT(30) DEF HandlerType, Pcs, Returned, Busy, CreatePcs
  <2>3. RuntimeType' BY SMTT(30) DEF RuntimeType, HandlerType, Busy, CreatePcs
  <2>4. EventType' BY SMTT(30) DEF EventType, HandlerType, Busy, CreatePcs
  <2> QED BY <2>1, <2>2, <2>3, <2>4
<1>10. ASSUME NEW p \in Procs, AddToStore(p) PROVE TypeOK'
  <2> USE <1>10 DEF AddToStore, Moves
  <2>1. MonitorType' /\ RuntimeType' /\ EventType' BY DEF MonitorType, RuntimeType, EventType
  <2>2. MemoryType' BY StatusTypes DEF MemoryType, HandlerType, Busy, CreatePcs
  <2>3. HandlerType' BY DEF HandlerType, Pcs, Returned, Busy, CreatePcs
  <2> QED BY <2>1, <2>2, <2>3
<1>11. ASSUME NEW p \in Procs, UndoRootDir(p) PROVE TypeOK'
  <2> USE <1>11 DEF UndoRootDir, CallsLocal, Moves, Spend, Leaks
  <2>1. MemoryType' /\ MonitorType' BY DEF MemoryType, MonitorType
  <2>2. HandlerType' BY SMTT(30) DEF HandlerType, Pcs, Returned, Busy, CreatePcs
  <2>3. RuntimeType' BY DEF RuntimeType, HandlerType, Busy, CreatePcs
  <2>4. EventType' BY SMTT(30) DEF EventType, HandlerType, Busy, CreatePcs
  <2> QED BY <2>1, <2>2, <2>3, <2>4
<1>12. ASSUME NEW p \in Procs, UndoSnapshot(p) PROVE TypeOK'
  <2> USE <1>12 DEF UndoSnapshot, Calls, Moves, Spend, Leaks
  <2>1. MemoryType' /\ MonitorType' BY DEF MemoryType, MonitorType
  <2>2. HandlerType' BY SMTT(30) DEF HandlerType, Pcs, Returned, Busy, CreatePcs
  <2>3. RuntimeType' BY DEF RuntimeType, HandlerType, Busy, CreatePcs
  <2>4. EventType' BY SMTT(30) DEF EventType, HandlerType, Busy, CreatePcs
  <2> QED BY <2>1, <2>2, <2>3, <2>4
<1>13. ASSUME NEW p \in Procs, UndoName(p) PROVE TypeOK'
  <2> USE <1>13 DEF UndoName, Moves
  <2>1. MonitorType' /\ RuntimeType' /\ EventType' BY DEF MonitorType, RuntimeType, EventType
  <2>2. MemoryType'
    <3>1. nameOf[arg[p]] \in Names BY DEF HandlerType, RuntimeType, Busy, CreatePcs
    <3>2. names' \in Registrars(Names, Ids) BY <3>1, RegistrarTypes DEF MemoryType
    <3> QED BY <3>2 DEF MemoryType
  <2>3. HandlerType' BY DEF HandlerType, Pcs, Returned, Busy, CreatePcs
  <2> QED BY <2>1, <2>2, <2>3
<1>14. ASSUME NEW p \in Procs, BeginStart(p) PROVE TypeOK'
  <2> USE <1>14 DEF BeginStart, Moves
  <2>1. MonitorType' /\ RuntimeType' /\ EventType' BY DEF MonitorType, RuntimeType, EventType
  <2>2. MemoryType' BY StatusTypes, SMTT(30) DEF MemoryType, HandlerType, Busy, StartPcs
  <2>3. HandlerType' BY SMTT(30) DEF HandlerType, Pcs, Returned, Busy, CreatePcs, StartPcs
  <2> QED BY <2>1, <2>2, <2>3
<1>15. ASSUME NEW p \in Procs, CheckSandbox(p) PROVE TypeOK'
  <2> USE <1>15 DEF CheckSandbox, Calls, Moves, Spend, Fails
  <2>1. MemoryType' /\ MonitorType' /\ RuntimeType' BY DEF MemoryType, MonitorType, RuntimeType
  <2>2. HandlerType' BY SMTT(30) DEF HandlerType, Pcs, Returned, Busy, CreatePcs, StartPcs
  <2>3. EventType' BY SMTT(30) DEF EventType
  <2> QED BY <2>1, <2>2, <2>3
<1>16. ASSUME NEW p \in Procs, PrepareRootfs(p) PROVE TypeOK'
  <2> USE <1>16 DEF PrepareRootfs, Calls, Moves, Spend, Fails
  <2>1. MemoryType' /\ MonitorType' /\ RuntimeType' BY DEF MemoryType, MonitorType, RuntimeType
  <2>2. HandlerType' BY SMTT(30) DEF HandlerType, Pcs, Returned, Busy, CreatePcs, StartPcs
  <2>3. EventType' BY SMTT(30) DEF EventType
  <2> QED BY <2>1, <2>2, <2>3
<1>17. ASSUME NEW p \in Procs, CreateTask(p) PROVE TypeOK'
  <2> USE <1>17 DEF CreateTask, Calls, Moves, Spend, Leaks
  <2>1. MemoryType' /\ MonitorType' BY DEF MemoryType, MonitorType
  <2>2. HandlerType' BY SMTT(30) DEF HandlerType, Pcs, Returned, Busy, CreatePcs, StartPcs
  <2>3. RuntimeType' BY SMTT(30) DEF RuntimeType, HandlerType, Busy, StartPcs
  <2>4. EventType' BY SMTT(30) DEF EventType, HandlerType, Busy, StartPcs
  <2> QED BY <2>1, <2>2, <2>3, <2>4
<1>18. ASSUME NEW p \in Procs, StartTask(p) PROVE TypeOK'
  <2> USE <1>18 DEF StartTask, Calls, Moves, Spend
  <2>1. MemoryType' /\ MonitorType' BY DEF MemoryType, MonitorType
  <2>2. HandlerType' BY SMTT(30) DEF HandlerType, Pcs, Returned, Busy, CreatePcs, StartPcs
  <2>3. RuntimeType' BY SMTT(30) DEF RuntimeType, HandlerType, Busy, StartPcs
  <2>4. EventType' BY SMTT(30) DEF EventType
  <2> QED BY <2>1, <2>2, <2>3, <2>4
<1>19. ASSUME NEW p \in Procs, EndStart(p) PROVE TypeOK'
  <2> USE <1>19 DEF EndStart, Moves
  <2>1. MonitorType' /\ RuntimeType' /\ EventType' BY DEF MonitorType, RuntimeType, EventType
  <2>2. MemoryType' BY StatusTypes DEF MemoryType, HandlerType, Busy, StartPcs
  <2>3. HandlerType' BY DEF HandlerType, Pcs, Returned, Busy, CreatePcs, StartPcs
  <2> QED BY <2>1, <2>2, <2>3
<1>20. ASSUME NEW p \in Procs, UndoTask(p) PROVE TypeOK'
  <2> USE <1>20 DEF UndoTask, Calls, Moves, Spend, Leaks
  <2>1. MemoryType' /\ MonitorType' BY DEF MemoryType, MonitorType
  <2>2. HandlerType' BY SMTT(30) DEF HandlerType, Pcs, Returned, Busy, CreatePcs, StartPcs
  <2>3. RuntimeType' BY SMTT(30) DEF RuntimeType, HandlerType, Busy, StartPcs
  <2>4. EventType' BY SMTT(30) DEF EventType, HandlerType, Busy, StartPcs
  <2> QED BY <2>1, <2>2, <2>3, <2>4
<1>21. ASSUME NEW p \in Procs, FailStart(p) PROVE TypeOK'
  <2> USE <1>21 DEF FailStart, Moves
  <2>1. MonitorType' /\ RuntimeType' /\ EventType' BY DEF MonitorType, RuntimeType, EventType
  <2>2. MemoryType' BY StatusTypes DEF MemoryType, HandlerType, Busy, StartPcs
  <2>3. HandlerType' BY DEF HandlerType, Pcs, Returned, Busy, CreatePcs, StartPcs
  <2> QED BY <2>1, <2>2, <2>3
<1>22. ASSUME NEW p \in Procs, StopRunning(p) PROVE TypeOK'
  <2> USE <1>22 DEF StopRunning, Moves
  <2>1. MemoryType' /\ MonitorType' /\ RuntimeType' /\ EventType' BY DEF MemoryType, MonitorType, RuntimeType, EventType
  <2>2. HandlerType' BY SMTT(30) DEF HandlerType, Pcs, Returned, Busy, CreatePcs, StopPcs
  <2> QED BY <2>1, <2>2
<1>23. ASSUME NEW p \in Procs, SendStopSignal(p) PROVE TypeOK'
  <2> USE <1>23 DEF SendStopSignal, Calls, Moves, Spend
  <2>1. MemoryType' /\ MonitorType' /\ RuntimeType' BY DEF MemoryType, MonitorType, RuntimeType
  <2>2. HandlerType' BY SMTT(30) DEF HandlerType, Pcs, Returned, Busy, CreatePcs, StopPcs
  <2>3. EventType' BY SMTT(30) DEF EventType
  <2> QED BY <2>1, <2>2, <2>3
<1>24. ASSUME NEW p \in Procs, SendKill(p) PROVE TypeOK'
  <2> USE <1>24 DEF SendKill, Calls, Moves, Spend
  <2>1. MemoryType' /\ MonitorType' BY DEF MemoryType, MonitorType
  <2>2. HandlerType' BY SMTT(30) DEF HandlerType, Pcs, Returned, Busy, CreatePcs, StopPcs
  <2>3. RuntimeType' BY SMTT(30) DEF RuntimeType, HandlerType, Busy, StopPcs
  <2>4. EventType' BY SMTT(30) DEF EventType
  <2> QED BY <2>1, <2>2, <2>3, <2>4
<1>25. ASSUME NEW p \in Procs, StopObserved(p) PROVE TypeOK'
  <2> USE <1>25 DEF StopObserved, Moves
  <2>1. MemoryType' /\ MonitorType' /\ RuntimeType' /\ EventType' BY DEF MemoryType, MonitorType, RuntimeType, EventType
  <2>2. HandlerType' BY DEF HandlerType, Pcs, Returned, Busy, CreatePcs, StopPcs
  <2> QED BY <2>1, <2>2
<1>26. ASSUME NEW p \in Procs, StopWaitEnds(p) PROVE TypeOK'
  <2> USE <1>26 DEF StopWaitEnds, Moves
  <2>1. MemoryType' /\ MonitorType' /\ RuntimeType' /\ EventType' BY DEF MemoryType, MonitorType, RuntimeType, EventType
  <2>2. HandlerType' BY SMTT(30) DEF HandlerType, Pcs, Returned, Busy, CreatePcs, StopPcs
  <2> QED BY <2>1, <2>2
<1>27. ASSUME NEW p \in Procs, SetRemoving(p) PROVE TypeOK'
  <2> USE <1>27 DEF SetRemoving, Moves
  <2>1. MonitorType' /\ RuntimeType' /\ EventType' BY DEF MonitorType, RuntimeType, EventType
  <2>2. MemoryType'
    <3>1. arg[p] \in Ids BY DEF HandlerType, Busy, RemovePcs
    <3>2. RemovingStatus(status[arg[p]], TRUE) \in Statuses BY <3>1, StatusTypes DEF MemoryType
    <3>3. status' \in [Ids -> Statuses] BY <3>1, <3>2 DEF MemoryType
    <3> QED BY <3>3 DEF MemoryType
  <2>3. HandlerType' BY ZenonT(90) DEF HandlerType, Pcs, Returned, Busy, CreatePcs, RemovePcs
  <2> QED BY <2>1, <2>2, <2>3
<1>28. ASSUME NEW p \in Procs, RemoveSnapshot(p) PROVE TypeOK'
  <2> USE <1>28 DEF RemoveSnapshot, Calls, Moves, Spend
  <2>1. MemoryType' /\ MonitorType' BY DEF MemoryType, MonitorType
  <2>2. HandlerType' BY SMTT(30) DEF HandlerType, Pcs, Returned, Busy, CreatePcs, RemovePcs
  <2>3. RuntimeType' BY DEF RuntimeType, HandlerType, Busy, RemovePcs
  <2>4. EventType' BY SMTT(30) DEF EventType
  <2> QED BY <2>1, <2>2, <2>3, <2>4
<1>29. ASSUME NEW p \in Procs, RemoveRootDir(p) PROVE TypeOK'
  <2> USE <1>29 DEF RemoveRootDir, CallsLocal, Moves, Spend
  <2>1. MemoryType' /\ MonitorType' BY DEF MemoryType, MonitorType
  <2>2. HandlerType' BY SMTT(30) DEF HandlerType, Pcs, Returned, Busy, CreatePcs, RemovePcs
  <2>3. RuntimeType' BY DEF RuntimeType, HandlerType, Busy, RemovePcs
  <2>4. EventType' BY SMTT(30) DEF EventType
  <2> QED BY <2>1, <2>2, <2>3, <2>4
<1>30. ASSUME NEW p \in Procs, DeleteContainerdContainer(p) PROVE TypeOK'
  <2> USE <1>30 DEF DeleteContainerdContainer, Calls, Moves, Spend, Fails
  <2>1. MemoryType' /\ MonitorType' BY DEF MemoryType, MonitorType
  <2>2. HandlerType' BY SMTT(30) DEF HandlerType, Pcs, Returned, Busy, CreatePcs, RemovePcs
  <2>3. RuntimeType' BY DEF RuntimeType, HandlerType, Busy, RemovePcs
  <2>4. EventType'
    <3>1. spent' \in Nat BY SMTT(30) DEF EventType
    <3> QED BY <3>1 DEF EventType
  <2> QED BY <2>1, <2>2, <2>3, <2>4
<1>31. ASSUME NEW p \in Procs, DeleteFromStore(p) PROVE TypeOK'
  <2> USE <1>31 DEF DeleteFromStore, Moves
  <2>1. MonitorType' /\ RuntimeType' /\ EventType' BY DEF MonitorType, RuntimeType, EventType
  <2>2. MemoryType' BY DEF MemoryType
  <2>3. HandlerType' BY DEF HandlerType, Pcs, Returned, Busy, CreatePcs, RemovePcs
  <2> QED BY <2>1, <2>2, <2>3
<1>32. ASSUME NEW p \in Procs, ReleaseName(p) PROVE TypeOK'
  <2> USE <1>32 DEF ReleaseName, Moves
  <2>1. MonitorType' /\ RuntimeType' /\ EventType' BY DEF MonitorType, RuntimeType, EventType
  <2>2. MemoryType' BY RegistrarTypes DEF MemoryType, HandlerType, Busy, RemovePcs
  <2>3. HandlerType' BY DEF HandlerType, Pcs, Returned, Busy, CreatePcs, RemovePcs
  <2> QED BY <2>1, <2>2, <2>3
<1>33. ASSUME NEW p \in Procs, ResetRemoving(p) PROVE TypeOK'
  <2> USE <1>33 DEF ResetRemoving, Moves
  <2>1. MonitorType' /\ RuntimeType' /\ EventType' BY DEF MonitorType, RuntimeType, EventType
  <2>2. MemoryType' BY StatusTypes DEF MemoryType, HandlerType, Busy, RemovePcs
  <2>3. HandlerType' BY DEF HandlerType, Pcs, Returned, Busy, CreatePcs, RemovePcs
  <2> QED BY <2>1, <2>2, <2>3
<1>34. ASSUME NEW p \in Procs, Respond(p) PROVE TypeOK'
  <2> USE <1>34 DEF Respond
  <2>1. MemoryType' /\ MonitorType' /\ RuntimeType' /\ EventType' BY DEF MemoryType, MonitorType, RuntimeType, EventType
  <2>2. HandlerType' BY DEF HandlerType, Pcs, Busy, CreatePcs, StartPcs, StopPcs, RemovePcs
  <2> QED BY <2>1, <2>2
<1>35. ASSUME Subscribe PROVE TypeOK'
  <2> USE <1>35 DEF Subscribe
  <2>1. MemoryType' /\ HandlerType' /\ MonitorType' /\ RuntimeType' BY DEF MemoryType, HandlerType, MonitorType, RuntimeType
  <2>2. EventType' BY DEF EventType
  <2> QED BY <2>1, <2>2
<1>36. ASSUME ReceiveEvent PROVE TypeOK'
  <2> USE <1>36 DEF ReceiveEvent, MonitorAt
  <2>1. MemoryType' /\ HandlerType' /\ RuntimeType' BY DEF MemoryType, HandlerType, RuntimeType
  <2>2. MonitorType'
    <3>1. Head(stream) \in Events BY SMTT(30) DEF EventType
    <3>2. Head(stream).id # Nil BY DEF MemoryType
    <3> QED BY <3>1, <3>2 DEF MonitorType
  <2>3. EventType' BY SMTT(30) DEF EventType
  <2> QED BY <2>1, <2>2, <2>3
<1>37. ASSUME DropExit PROVE TypeOK'
  <2> USE <1>37 DEF DropExit
  <2>1. MemoryType' /\ HandlerType' /\ MonitorType' /\ RuntimeType' BY DEF MemoryType, HandlerType, MonitorType, RuntimeType
  <2>2. EventType' BY SMTT(30) DEF EventType
  <2> QED BY <2>1, <2>2
<1>38. ASSUME PanicOnOOM PROVE TypeOK'
  <2> USE <1>38 DEF PanicOnOOM, Dies
  <2>1. MemoryType' /\ HandlerType' /\ MonitorType' BY ResetTypes
  <2>2. RuntimeType' BY DEF RuntimeType
  <2>3. EventType'
    <3>1. (up' \in BOOLEAN) /\ (panicked' \in BOOLEAN) /\ (subscribed' \in BOOLEAN) BY DEF EventType, ResetMemory
    <3>2. stream' \in Seq(Events) /\ missed' \subseteq Ids /\ leaked' \subseteq Ids /\ spent' \in Nat BY SMTT(30) DEF EventType, ResetMemory
    <3> QED BY <3>1, <3>2 DEF EventType
  <2> QED BY <2>1, <2>2, <2>3
<1>39. ASSUME ComparePid PROVE TypeOK'
  <2> USE <1>39 DEF ComparePid, MonitorAt
  <2>1. MemoryType' /\ HandlerType' /\ RuntimeType' /\ EventType' BY DEF MemoryType, HandlerType, RuntimeType, EventType
  <2>2. MonitorType' BY DEF MonitorType
  <2> QED BY <2>1, <2>2
<1>40. ASSUME DeleteTask PROVE TypeOK'
  <2> USE <1>40 DEF DeleteTask, MonitorAt, Spend
  <2>1. MemoryType' /\ HandlerType' BY DEF MemoryType, HandlerType
  <2>2. MonitorType' BY DEF MonitorType
  <2>3. RuntimeType' BY DEF RuntimeType, MonitorType, Events
  <2>4. EventType'
    <3>1. mev.id \in Ids BY DEF MonitorType, Events
    <3>2. missed' \subseteq Ids BY <3>1 DEF EventType
    <3>3. spent' = spent \/ spent' = spent + 1 OBVIOUS
    <3>4. spent' \in Nat BY <3>3, SMTT(30) DEF EventType
    <3> QED BY <3>2, <3>4 DEF EventType
  <2> QED BY <2>1, <2>2, <2>3, <2>4
<1>41. ASSUME RecordExit PROVE TypeOK'
  <2> USE <1>41 DEF RecordExit, MonitorAt
  <2>1. HandlerType' /\ RuntimeType' /\ EventType' BY DEF HandlerType, RuntimeType, EventType
  <2>2. MemoryType' BY StatusTypes DEF MemoryType, MonitorType, Events
  <2>3. MonitorType' BY DEF MonitorType
  <2> QED BY <2>1, <2>2, <2>3
<1>42. ASSUME RecordOOM PROVE TypeOK'
  <2> USE <1>42 DEF RecordOOM, MonitorAt
  <2>1. HandlerType' /\ RuntimeType' /\ EventType' BY DEF HandlerType, RuntimeType, EventType
  <2>2. MemoryType' BY StatusTypes DEF MemoryType, MonitorType, Events
  <2>3. MonitorType' BY DEF MonitorType
  <2> QED BY <2>1, <2>2, <2>3
<1>43. ASSUME NEW id \in Ids, ProcessExits(id) PROVE TypeOK'
  <2> USE <1>43 DEF ProcessExits, Publish
  <2>1. MemoryType' /\ HandlerType' /\ MonitorType' BY DEF MemoryType, HandlerType, MonitorType
  <2>2. RuntimeType' BY DEF RuntimeType
  <2>3. EventType' BY EventTypes, SMTT(30) DEF EventType
  <2> QED BY <2>1, <2>2, <2>3
<1>44. ASSUME NEW id \in Ids, ExecExits(id) PROVE TypeOK'
  <2> USE <1>44 DEF ExecExits, Publish, Spend
  <2>1. MemoryType' /\ HandlerType' /\ MonitorType' /\ RuntimeType' BY DEF MemoryType, HandlerType, MonitorType, RuntimeType
  <2>2. EventType' BY EventTypes, SMTT(30) DEF EventType
  <2> QED BY <2>1, <2>2
<1>45. ASSUME NEW id \in Ids \cup {Nil}, OOM(id) PROVE TypeOK'
  <2> USE <1>45 DEF OOM, Publish, Spend
  <2>1. MemoryType' /\ HandlerType' /\ MonitorType' /\ RuntimeType' BY DEF MemoryType, HandlerType, MonitorType, RuntimeType
  <2>2. EventType' BY EventTypes, SMTT(30) DEF EventType
  <2> QED BY <2>1, <2>2
<1>46. ASSUME StreamBreaks PROVE TypeOK'
  <2> USE <1>46 DEF StreamBreaks, Spend
  <2>1. MemoryType' /\ HandlerType' /\ MonitorType' /\ RuntimeType' BY DEF MemoryType, HandlerType, MonitorType, RuntimeType
  <2>2. EventType'
    <3>1. (subscribed' \in BOOLEAN) OBVIOUS
    <3>2. missed' \subseteq Ids BY DEF EventType
    <3> QED BY <3>1, <3>2, SMTT(30) DEF EventType
  <2> QED BY <2>1, <2>2
<1>47. ASSUME SandboxGoes PROVE TypeOK'
  <2> USE <1>47 DEF SandboxGoes, Spend
  <2>1. MemoryType' /\ HandlerType' /\ MonitorType' BY DEF MemoryType, HandlerType, MonitorType
  <2>2. RuntimeType' BY DEF RuntimeType
  <2>3. EventType' BY SMTT(30) DEF EventType
  <2> QED BY <2>1, <2>2, <2>3
<1>48. ASSUME NEW p \in Procs, Cancel(p) PROVE TypeOK'
  <2> USE <1>48 DEF Cancel, Spend
  <2>1. MemoryType' /\ MonitorType' /\ RuntimeType' BY DEF MemoryType, MonitorType, RuntimeType
  <2>2. HandlerType' BY DEF HandlerType
  <2>3. EventType' BY SMTT(30) DEF EventType
  <2> QED BY <2>1, <2>2, <2>3
<1>49. ASSUME Crash PROVE TypeOK'
  <2> USE <1>49 DEF Crash, Dies, Spend
  <2>1. MemoryType' /\ HandlerType' /\ MonitorType' BY ResetTypes
  <2>2. RuntimeType' BY DEF RuntimeType
  <2>3. EventType'
    <3>1. (up' \in BOOLEAN) /\ (panicked' \in BOOLEAN) /\ (subscribed' \in BOOLEAN) BY DEF EventType, ResetMemory
    <3>2. stream' \in Seq(Events) /\ missed' \subseteq Ids /\ leaked' \subseteq Ids /\ spent' \in Nat BY SMTT(30) DEF EventType, ResetMemory
    <3> QED BY <3>1, <3>2 DEF EventType
  <2> QED BY <2>1, <2>2, <2>3
<1>50. ASSUME Restart PROVE TypeOK'
  <2> USE <1>50 DEF Restart
  <2>1. MemoryType' /\ HandlerType' /\ MonitorType' /\ RuntimeType' BY DEF MemoryType, HandlerType, MonitorType, RuntimeType
  <2>2. EventType' BY DEF EventType
  <2> QED BY <2>1, <2>2
<1>51. CASE UNCHANGED vars
  BY <1>51 DEF vars, MemoryType, HandlerType, MonitorType, RuntimeType, EventType
<1> QED
  BY <1>1, <1>2, <1>3, <1>4, <1>5, <1>6, <1>7, <1>8, <1>9, <1>10, <1>11, <1>12, <1>13, <1>14, <1>15, <1>16, <1>17, <1>18, <1>19, <1>20, <1>21, <1>22, <1>23, <1>24, <1>25, <1>26, <1>27, <1>28, <1>29, <1>30, <1>31, <1>32, <1>33, <1>34, <1>35, <1>36, <1>37, <1>38, <1>39, <1>40, <1>41, <1>42, <1>43, <1>44, <1>45, <1>46, <1>47, <1>48, <1>49, <1>50, <1>51
     DEF Next, Request, HandlerStep, CreateStep, StartStep, StopStep, RemoveStep, MonitorStep, EnvStep

(* Every variable keeps its type in every behaviour of the service, for any   *)
(* number of handlers, containers and names and any environment.              *)
THEOREM TypeCorrect == Spec => []TypeOK
<1>1. Init => TypeOK
  BY TypeInit
<1>2. TypeOK /\ [Next]_vars => TypeOK'
  BY TypeStep
<1> QED
  BY <1>1, <1>2, PTL DEF Spec

-----------------------------------------------------------------------------
(* What the steps do to the handlers' part of the invariant. *)
(* What the tests on a status look at. *)
LEMMA StateFacts ==
  ASSUME NEW s \in Statuses
  PROVE  /\ State(s) = "RUNNING" <=> s.startedAt /\ ~s.finishedAt
         /\ State(s) = "EXITED" <=> s.finishedAt
         /\ Startable(s) <=> s.createdAt /\ ~s.startedAt /\ ~s.finishedAt /\ ~s.removing
         /\ Removable(s) <=> ~(s.startedAt /\ ~s.finishedAt) /\ ~s.removing
BY DEF State, Statuses, Startable, Removable

LEMMA ZeroFields ==
  /\ ~ZeroStatus.createdAt /\ ~ZeroStatus.startedAt /\ ~ZeroStatus.finishedAt
  /\ ~ZeroStatus.removing /\ ZeroStatus.pid # InitPid
BY SMTT(30) DEF ZeroStatus, NoPid, InitPid

(* What the status callbacks change. *)
LEMMA StartedFields ==
  ASSUME NEW s \in Statuses
  PROVE  /\ StartedStatus(s).createdAt = s.createdAt /\ StartedStatus(s).startedAt
         /\ StartedStatus(s).finishedAt = s.finishedAt /\ StartedStatus(s).removing = s.removing
         /\ StartedStatus(s).pid = InitPid
         /\ StartFailedStatus(s).createdAt = s.createdAt /\ StartFailedStatus(s).startedAt = s.startedAt
         /\ StartFailedStatus(s).finishedAt /\ StartFailedStatus(s).removing = s.removing
         /\ StartFailedStatus(s).pid = NoPid
BY DEF StartedStatus, StartFailedStatus, Statuses

LEMMA ExitedFields ==
  ASSUME NEW s \in Statuses, NEW code \in Nat
  PROVE  LET t == ExitedStatus(s, code) IN
         /\ t.createdAt = s.createdAt /\ t.startedAt = s.startedAt
         /\ t.finishedAt /\ t.removing = s.removing
         /\ s.finishedAt => t = s
         /\ ~s.finishedAt => t.pid = NoPid /\ t.exitCode = code
BY DEF ExitedStatus, Statuses

LEMMA RemovingFields ==
  ASSUME NEW s \in Statuses, NEW b \in BOOLEAN
  PROVE  LET t == RemovingStatus(s, b) IN
         /\ t.createdAt = s.createdAt /\ t.startedAt = s.startedAt
         /\ t.finishedAt = s.finishedAt /\ t.removing = b /\ t.pid = s.pid
         /\ t.exitCode = s.exitCode
BY DEF RemovingStatus, Statuses

LEMMA OOMFields ==
  ASSUME NEW s \in Statuses
  PROVE  LET t == OOMStatus(s) IN
         /\ t.createdAt = s.createdAt /\ t.startedAt = s.startedAt
         /\ t.finishedAt = s.finishedAt /\ t.removing = s.removing /\ t.pid = s.pid
         /\ t.exitCode = s.exitCode
BY DEF OOMStatus, Statuses

(* What the lemmas below use of the invariant and of the types. *)
HandlerFacts ==
  /\ NamesHeld /\ FreshInv /\ CreateInv /\ KnownInv /\ StatusInv /\ LockInv /\ RemoveInv
  /\ names \in Registrars(Names, Ids) /\ containers \subseteq Ids
  /\ status \in [Ids -> Statuses] /\ lock \in [Ids -> Procs \cup {Nil}]
  /\ pc \in [Procs -> Pcs] /\ arg \in [Procs -> Ids \cup {Nil}]
  /\ nameOf \in [Ids -> Names \cup {Nil}]
  /\ \A p \in Procs : pc[p] \in Busy => arg[p] # Nil
  /\ \A p \in Procs : pc[p] \in CreatePcs => nameOf[arg[p]] # Nil
  /\ Nil \notin Procs /\ Nil \notin Ids /\ Nil \notin Names

LEMMA HandlerFactsHold ==
  ASSUME HandlerInv, TypeOK
  PROVE  HandlerFacts
BY NilAssumption DEF HandlerFacts, HandlerInv, TypeOK, MemoryType, HandlerType, RuntimeType

(* A step inside a creation, inside a start transaction, inside a stop, or    *)
(* inside a removal; or a start or a removal that is turned down.             *)
SamePhase(from, to) ==
  \/ from \in CreatePcs /\ to \in CreatePcs
  \/ from \in StartPcs \ {"lock"} /\ to \in StartPcs \ {"lock"}
  \/ from \in StopPcs /\ to \in StopPcs \cup Returned
  \/ from \in RemovePcs \ {"setRemoving", "rmName"} /\ to \in RemovePcs \ {"setRemoving", "rmName"}
  \/ from \in {"lock", "setRemoving"} /\ to = "err"

(* A step of p inside one handler that leaves the memory alone. *)
LEMMA QuietStep ==
  ASSUME HandlerInv, TypeOK, UNCHANGED <<memory, nameOf, arg>>,
         NEW p \in Procs, NEW to, pc' = [pc EXCEPT ![p] = to], SamePhase(pc[p], to)
  PROVE  HandlerInv'
<1>f. HandlerFacts
  BY HandlerFactsHold
<1> USE <1>f DEF HandlerFacts, memory
<1>1. /\ to \in CreatePcs => pc[p] \in CreatePcs
      /\ to \in StartPcs \cup StopPcs \cup RemovePcs => pc[p] \in StartPcs \cup StopPcs \cup RemovePcs
      /\ to \in StartPcs \ {"lock"} <=> pc[p] \in StartPcs \ {"lock"}
      /\ to \in RemovePcs \ {"setRemoving"} =>
           pc[p] \in RemovePcs \ {"setRemoving", "rmName"} /\ to # "rmName"
  BY DEF SamePhase, CreatePcs, StartPcs, StopPcs, RemovePcs, Returned
<1>2. NamesHeld' /\ FreshInv' /\ StatusInv'
  BY DEF NamesHeld, FreshInv, StatusInv
<1>3. CreateInv'
  BY <1>1 DEF CreateInv
<1>4. KnownInv'
  BY <1>1 DEF KnownInv
<1>5. LockInv'
  BY <1>1, NilAssumption, SMTT(30) DEF LockInv, Starting
<1>6. RemoveInv'
  BY <1>1 DEF RemoveInv, Removing
<1> QED
  BY <1>2, <1>3, <1>4, <1>5, <1>6 DEF HandlerInv

(* A request that arrives for a container the store holds, or a handler that *)
(* has nothing more to do.                                                   *)
LEMMA ArrivalStep ==
  ASSUME HandlerInv, TypeOK, UNCHANGED <<memory, nameOf>>,
         NEW p \in Procs, NEW id \in Ids \cup {Nil}, NEW to,
         pc[p] \notin Busy,
         pc' = [pc EXCEPT ![p] = to], arg' = [arg EXCEPT ![p] = id],
         to \notin Busy \/ (to \in {"lock", "state", "setRemoving"} /\ id \in containers)
  PROVE  HandlerInv'
<1>f. HandlerFacts
  BY HandlerFactsHold
<1> USE <1>f DEF HandlerFacts, memory, Busy, CreatePcs, StartPcs, StopPcs, RemovePcs
<1>1. NamesHeld' /\ FreshInv' /\ StatusInv'
  BY DEF NamesHeld, FreshInv, StatusInv
<1>2. CreateInv'
  BY SMTT(30) DEF CreateInv
<1>3. KnownInv'
  BY DEF KnownInv
<1>4. LockInv'
  BY NilAssumption, SMTT(30) DEF LockInv, Starting
<1>5. RemoveInv'
  BY SMTT(30) DEF RemoveInv, Removing
<1> QED
  BY <1>1, <1>2, <1>3, <1>4, <1>5 DEF HandlerInv

(* The registrar stays one-to-one, and loses only the name that is released. *)
LEMMA ReserveFacts ==
  ASSUME NEW N, NEW K, Nil \notin N, Nil \notin K, NEW r \in Registrars(N, K), OneToOne(r),
         NEW n \in N, NEW k \in K, Reservable(r, n, k), r.keyToName[k] = Nil
  PROVE  /\ OneToOne(Reserve(r, n, k))
         /\ Reserve(r, n, k).nameToKey = [r.nameToKey EXCEPT ![n] = k]
         /\ Reserve(r, n, k).keyToName = [r.keyToName EXCEPT ![k] = n]
         /\ r.nameToKey[n] = Nil
<1>1. r.nameToKey[n] = Nil
  BY SMTT(30) DEF Reservable, OneToOne, Registrars
<1>2. Reserve(r, n, k) = Bind(r, n, k)
  BY <1>1 DEF Reserve
<1> QED
  BY <1>1, <1>2, SMTT(30) DEF Bind, OneToOne, Registrars

LEMMA ReleaseFacts ==
  ASSUME NEW N, NEW K, Nil \notin N, Nil \notin K, NEW r \in Registrars(N, K), OneToOne(r),
         NEW n \in N, NEW k \in K, r.nameToKey[n] = k
  PROVE  /\ OneToOne(ReleaseByKey(r, k))
         /\ ReleaseByKey(r, k).nameToKey = [r.nameToKey EXCEPT ![n] = Nil]
         /\ ReleaseByKey(r, k).keyToName = [r.keyToName EXCEPT ![k] = Nil]
<1>1. r.keyToName[k] = n
  BY DEF OneToOne, Registrars
<1>2. ReleaseByKey(r, k) = Unbind(r, n, k)
  BY <1>1 DEF ReleaseByKey
<1> QED
  BY <1>1, <1>2, SMTT(30) DEF Unbind, OneToOne, Registrars

(* CreateContainer: a new id gets a free name. *)
LEMMA CreateContainerStep ==
  ASSUME HandlerInv, TypeOK, NEW p \in Procs, CreateContainer(p)
  PROVE  HandlerInv'
<1>f. HandlerFacts
  BY HandlerFactsHold
<1> USE <1>f DEF HandlerFacts, memory
<1>1. PICK id \in Ids, n \in Names :
         /\ nameOf[id] = Nil
         /\ Reservable(names, n, id)
         /\ Arrives(p, id, "resolve")
         /\ names' = Reserve(names, n, id)
         /\ nameOf' = [nameOf EXCEPT ![id] = n]
         /\ UNCHANGED <<containers, status, lock>>
  BY DEF CreateContainer
<1>2. pc[p] = "idle" /\ pc' = [pc EXCEPT ![p] = "resolve"] /\ arg' = [arg EXCEPT ![p] = id]
  BY <1>1 DEF Arrives
<1>3. /\ OneToOne(names') /\ names.nameToKey[n] = Nil
      /\ names'.nameToKey = [names.nameToKey EXCEPT ![n] = id]
      /\ names'.keyToName = [names.keyToName EXCEPT ![id] = n]
  <2>1. names.keyToName[id] = Nil /\ OneToOne(names) /\ names \in Registrars(Names, Ids)
    BY <1>1 DEF FreshInv, NamesHeld
  <2> HIDE <1>f DEF HandlerFacts
  <2> QED
    BY <1>1, <2>1, NilAssumption, ReserveFacts, SMTT(30)
<1>4. status[id] = ZeroStatus /\ id \notin containers
  BY <1>1 DEF FreshInv
<1>5. names.nameToKey \in [Names -> Ids \cup {Nil}] /\ names.keyToName \in [Ids -> Names \cup {Nil}]
  BY DEF Registrars
<1>6. NamesHeld'
  BY <1>1, <1>3, <1>4, <1>5, SMTT(30) DEF NamesHeld
<1>7. FreshInv'
  BY <1>1, <1>3, <1>5, SMTT(30) DEF FreshInv
<1>8. CreateInv'
  <2>1. ASSUME NEW q \in Procs \ {p}, pc[q] \in CreatePcs
        PROVE  /\ arg[q] # id /\ arg[q] \in Ids
               /\ nameOf[arg[q]] # n /\ nameOf[arg[q]] \in Names
    BY <1>1, <1>3, <2>1, SMTT(30) DEF CreateInv, Busy
  <2>2. ASSUME NEW q \in Procs, pc'[q] \in CreatePcs
        PROVE  /\ status'[arg'[q]] = ZeroStatus /\ arg'[q] \notin containers'
               /\ names'.nameToKey[nameOf'[arg'[q]]] = arg'[q]
    <3>1. CASE q = p
      BY <1>1, <1>2, <1>3, <1>4, <1>5, <3>1, SMTT(30)
    <3>2. CASE q # p
      BY <1>1, <1>2, <1>3, <1>5, <2>1, <2>2, <3>2, SMTT(30) DEF CreateInv
    <3> QED
      BY <3>1, <3>2
  <2>3. ASSUME NEW q \in Procs, NEW r \in Procs, pc'[q] \in CreatePcs, pc'[r] \in CreatePcs, arg'[r] = arg'[q]
        PROVE  r = q
    <3>1. CASE q = p \/ r = p
      BY SMT, <1>2, <2>1, <2>3, <3>1
    <3>2. CASE q # p /\ r # p
      BY <1>2, <2>3, <3>2 DEF CreateInv
    <3> QED
      BY <3>1, <3>2
  <2> QED
    BY <2>2, <2>3 DEF CreateInv
<1>9. KnownInv'
  BY <1>1, <1>2 DEF KnownInv, StartPcs, StopPcs, RemovePcs
<1>10. StatusInv'
  BY <1>1 DEF StatusInv
<1>11. LockInv'
  BY <1>1, <1>2, SMTT(30) DEF LockInv, Starting, StartPcs
<1>12. RemoveInv'
  BY <1>1, <1>2, SMTT(30) DEF RemoveInv, Removing, RemovePcs
<1> QED
  BY <1>6, <1>7, <1>8, <1>9, <1>10, <1>11, <1>12 DEF HandlerInv

(* The end of CreateContainer: the container enters the store, CREATED. *)
LEMMA AddToStoreStep ==
  ASSUME HandlerInv, TypeOK, NEW p \in Procs, AddToStore(p)
  PROVE  HandlerInv'
<1>f. HandlerFacts
  BY HandlerFactsHold
<1> USE <1>f DEF HandlerFacts, memory
<1> DEFINE c == arg[p]
<1>1. /\ pc[p] = "add" /\ pc' = [pc EXCEPT ![p] = "ok"]
      /\ status' = [status EXCEPT ![c] = CreatedStatus]
      /\ containers' = containers \cup {c}
      /\ UNCHANGED <<names, lock, arg, nameOf>>
  BY DEF AddToStore, Moves
<1>2. c \in Ids /\ pc[p] \in CreatePcs
  BY <1>1 DEF Busy, CreatePcs
<1>3. /\ status[c] = ZeroStatus /\ c \notin containers /\ nameOf[c] # Nil
      /\ names.nameToKey[nameOf[c]] = c
  BY <1>2 DEF CreateInv
<1>4. /\ ~ZeroStatus.createdAt /\ CreatedStatus.createdAt /\ ~CreatedStatus.startedAt
      /\ CreatedStatus.pid # InitPid
  BY SMTT(30) DEF ZeroStatus, CreatedStatus, InitPid, NoPid
<1>5. \A q \in Procs : pc[q] \in StartPcs \cup StopPcs \cup RemovePcs => arg[q] # c
  BY <1>3, <1>4 DEF KnownInv
<1> HIDE DEF c
<1>6. NamesHeld'
  BY <1>1, <1>3 DEF NamesHeld
<1>7. FreshInv'
  BY <1>1, <1>2, <1>3 DEF FreshInv
<1>8. CreateInv'
  BY <1>1, <1>2, SMTT(30) DEF CreateInv, CreatePcs, c
<1>9. KnownInv'
  BY <1>1, <1>2, <1>4, SMTT(30) DEF KnownInv, StartPcs, StopPcs, RemovePcs
<1>10. StatusInv'
  BY <1>1, <1>2, <1>4 DEF StatusInv
<1>11. LockInv'
  BY <1>1, <1>2, <1>5, SMTT(30) DEF LockInv, Starting, StartPcs
<1>12. RemoveInv'
  BY <1>1, <1>2, <1>5, SMTT(30) DEF RemoveInv, Removing, RemovePcs
<1> QED
  BY <1>6, <1>7, <1>8, <1>9, <1>10, <1>11, <1>12 DEF HandlerInv

(* The release of the name of an id that no longer is, or never was, in the *)
(* store leaves every other name where it is.                               *)
LEMMA ReleaseStep ==
  ASSUME HandlerInv, TypeOK, UNCHANGED <<containers, status, lock, nameOf, arg>>,
         NEW p \in Procs, NEW to \in Returned,
         pc[p] \in {"undoName", "rmName"},
         pc' = [pc EXCEPT ![p] = to],
         names' = ReleaseByKey(names, arg[p])
  PROVE  HandlerInv'
<1>f. HandlerFacts
  BY HandlerFactsHold
<1> USE <1>f DEF HandlerFacts
<1> DEFINE c == arg[p]
<1>0. ~ZeroStatus.createdAt
  BY DEF ZeroStatus
<1>1. c \in Ids
  BY DEF Busy, CreatePcs, RemovePcs
<1>2. c \notin containers /\ nameOf[c] # Nil
  <2>1. CASE pc[p] = "undoName"
    BY <2>1 DEF CreateInv, CreatePcs
  <2>2. CASE pc[p] = "rmName"
    <3>1. c \notin containers /\ status[c].createdAt
      BY <2>2 DEF RemoveInv, Removing, KnownInv, RemovePcs
    <3> QED
      BY <1>0, <1>1, <3>1 DEF FreshInv
  <2> QED
    BY <2>1, <2>2
<1>3. \A q \in Procs \ {p} : pc[q] \in CreatePcs => arg[q] # c
  <2>1. CASE pc[p] = "undoName"
    BY <2>1 DEF CreateInv, CreatePcs
  <2>2. CASE pc[p] = "rmName"
    BY <1>0, <2>2, SMTT(30) DEF CreateInv, KnownInv, RemovePcs
  <2> QED
    BY <2>1, <2>2
<1>4. names.nameToKey \in [Names -> Ids \cup {Nil}] /\ names.keyToName \in [Ids -> Names \cup {Nil}]
  BY DEF Registrars
<1> HIDE DEF c
<1>5. /\ OneToOne(names')
      /\ \A n \in Names : names.nameToKey[n] # c => names'.nameToKey[n] = names.nameToKey[n]
      /\ \A k \in Ids : names.keyToName[k] = Nil => names'.keyToName[k] = Nil
  <2>1. names' = ReleaseByKey(names, c) /\ names \in Registrars(Names, Ids) /\ OneToOne(names)
    BY DEF NamesHeld, c
  <2>2. CASE names.keyToName[c] = Nil
    BY <2>1, <2>2 DEF ReleaseByKey
  <2>3. CASE names.keyToName[c] # Nil
    <3>1. PICK n \in Names : names.keyToName[c] = n
      BY <1>1, <1>4, <2>3
    <3>2. names.nameToKey[n] = c
      BY <1>1, <1>4, <2>1, <3>1, SMTT(30) DEF OneToOne
    <3> HIDE <1>f DEF HandlerFacts
    <3>3. /\ OneToOne(names')
          /\ names'.nameToKey = [names.nameToKey EXCEPT ![n] = Nil]
          /\ names'.keyToName = [names.keyToName EXCEPT ![c] = Nil]
      BY <1>1, <2>1, <3>2, NilAssumption, ReleaseFacts, SMTT(30)
    <3> QED
      BY <1>4, <3>2, <3>3
  <2> QED
    BY <2>2, <2>3
<1>6. NamesHeld'
  BY <1>2, <1>4, <1>5, SMTT(30) DEF NamesHeld, FreshInv
<1>7. FreshInv'
  BY <1>5 DEF FreshInv
<1>8. CreateInv'
  BY <1>3, <1>4, <1>5, SMTT(30) DEF CreateInv, CreatePcs, Returned, Busy, c
<1>9. KnownInv'
  BY DEF KnownInv, StartPcs, StopPcs, RemovePcs, Returned
<1>10. StatusInv'
  BY DEF StatusInv
<1>11. LockInv'
  BY SMTT(30) DEF LockInv, Starting, StartPcs, Returned
<1>12. RemoveInv'
  BY DEF RemoveInv, Removing, RemovePcs, Returned
<1> QED
  BY <1>6, <1>7, <1>8, <1>9, <1>10, <1>11, <1>12 DEF HandlerInv

(* The error path of CreateContainer releases the name by name, which is the same. *)
LEMMA UndoNameStep ==
  ASSUME HandlerInv, TypeOK, NEW p \in Procs, UndoName(p)
  PROVE  HandlerInv'
<1> DEFINE n == nameOf[arg[p]]
           c == arg[p]
<1>1. c \in Ids /\ n \in Names /\ names' = ReleaseByName(names, n)
  BY DEF UndoName, Moves, TypeOK, HandlerType, RuntimeType, Busy, CreatePcs
<1>2. names.nameToKey[n] = c /\ OneToOne(names) /\ names \in Registrars(Names, Ids)
  BY DEF UndoName, Moves, CreatePcs, HandlerInv, CreateInv, NamesHeld, TypeOK, MemoryType
<1> HIDE DEF n, c
<1>3. ReleaseByName(names, n) = ReleaseByKey(names, c)
  <2>1. names.keyToName[c] = n
    BY <1>1, <1>2 DEF OneToOne, Registrars
  <2> QED
    BY <1>1, <1>2, <2>1, NilAssumption DEF ReleaseByName, ReleaseByKey
<1>4. names' = ReleaseByKey(names, arg[p])
  BY <1>1, <1>3 DEF c
<1> QED
  BY <1>4, ReleaseStep DEF UndoName, Moves, Returned

(* StartContainer takes the status lock of a container it finds startable; *)
(* such a container is in the store.                                       *)
LEMMA BeginStartStep ==
  ASSUME HandlerInv, TypeOK, NEW p \in Procs, BeginStart(p)
  PROVE  HandlerInv'
<1>f. HandlerFacts
  BY HandlerFactsHold
<1> USE <1>f DEF HandlerFacts, memory
<1> DEFINE c == arg[p]
<1>1. /\ pc[p] = "lock" /\ lock[c] = Nil /\ c \in Ids /\ status[c] \in Statuses
      /\ UNCHANGED <<names, containers, status, nameOf, arg>>
  BY DEF BeginStart, Moves, Busy, StartPcs
<1>2. CASE ~Startable(status[c])
  <2>1. pc' = [pc EXCEPT ![p] = "err"] /\ UNCHANGED lock
    BY <1>2 DEF BeginStart, Moves
  <2> QED
    BY <1>1, <2>1, QuietStep DEF SamePhase
<1>3. CASE Startable(status[c])
  <2>1. pc' = [pc EXCEPT ![p] = "checkSandbox"] /\ lock' = [lock EXCEPT ![c] = p]
    BY <1>3 DEF BeginStart, Moves
  <2>2. status[c].createdAt /\ ~status[c].removing /\ c \in containers
    BY <1>1, <1>3, StateFacts DEF RemoveInv
  <2>3. NamesHeld' /\ FreshInv' /\ StatusInv'
    BY <1>1 DEF NamesHeld, FreshInv, StatusInv
  <2>4. CreateInv'
    BY <1>1, <2>1, SMTT(30) DEF CreateInv, CreatePcs
  <2>5. KnownInv'
    BY <1>1, <2>1 DEF KnownInv, StartPcs
  <2>6. LockInv'
    BY <1>1, <1>3, <2>1, <2>2, SMTT(30) DEF LockInv, Starting, StartPcs
  <2>7. RemoveInv'
    BY <1>1, <2>1 DEF RemoveInv, Removing, RemovePcs
  <2> QED
    BY <2>3, <2>4, <2>5, <2>6, <2>7 DEF HandlerInv
<1> QED
  BY <1>2, <1>3

(* StartContainer stores the status its transaction ends with and gives the *)
(* lock back; no creation and no removal is at work on the container then.  *)
LEMMA EndOfStartStep ==
  ASSUME HandlerInv, TypeOK, NEW p \in Procs, NEW to \in Returned,
         NEW s \in Statuses, s.createdAt, s.pid = InitPid => s.startedAt /\ ~s.finishedAt,
         Starting(p), pc' = [pc EXCEPT ![p] = to],
         status' = [status EXCEPT ![arg[p]] = s],
         lock' = [lock EXCEPT ![arg[p]] = Nil],
         UNCHANGED <<names, containers, arg, nameOf>>
  PROVE  HandlerInv'
<1>f. HandlerFacts
  BY HandlerFactsHold
<1> USE <1>f DEF HandlerFacts, memory
<1> DEFINE c == arg[p]
<1>1. c \in Ids /\ lock[c] = p /\ c \in containers /\ Startable(status[c])
  BY DEF Busy, LockInv, Starting, StartPcs
<1>2. status[c].createdAt /\ ~status[c].removing /\ status[c] \in Statuses
  BY <1>1, StateFacts
<1>3. ~ZeroStatus.createdAt
  BY DEF ZeroStatus
<1>4. nameOf[c] # Nil
  BY <1>1 DEF FreshInv
<1>5. \A q \in Procs : (pc[q] \in CreatePcs \/ Removing(q)) => arg[q] # c
  BY <1>1, <1>2, <1>3 DEF CreateInv, RemoveInv
<1>6. \A q \in Procs \ {p} : Starting(q) => arg[q] # c
  BY <1>1 DEF LockInv
<1>7. NamesHeld'
  BY DEF NamesHeld
<1>8. FreshInv'
  BY <1>4 DEF FreshInv
<1>9. CreateInv'
  BY <1>5, SMTT(30) DEF CreateInv, CreatePcs, Returned
<1>10. KnownInv'
  BY <1>1, SMTT(30) DEF KnownInv, StartPcs, StopPcs, RemovePcs, Returned
<1>11. StatusInv'
  BY DEF StatusInv
<1>12. LockInv'
  BY <1>1, <1>6, SMTT(30) DEF LockInv, Starting, StartPcs, Returned
<1>13. RemoveInv'
  BY <1>1, <1>5, SMTT(30) DEF RemoveInv, Removing, RemovePcs, Returned
<1> QED
  BY <1>7, <1>8, <1>9, <1>10, <1>11, <1>12, <1>13 DEF HandlerInv

LEMMA EndStartStep ==
  ASSUME HandlerInv, TypeOK, NEW p \in Procs, EndStart(p) \/ FailStart(p)
  PROVE  HandlerInv'
<1>1. Starting(p) /\ arg[p] \in Ids
  BY DEF EndStart, FailStart, Moves, Starting, StartPcs, TypeOK, HandlerType, Busy
<1>2. status[arg[p]] \in Statuses /\ Startable(status[arg[p]])
  BY <1>1 DEF TypeOK, MemoryType, HandlerInv, LockInv
<1>3. status[arg[p]].createdAt /\ ~status[arg[p]].finishedAt
  BY <1>2, StateFacts
<1>4. CASE EndStart(p)
  <2>1. /\ StartedStatus(status[arg[p]]) \in Statuses /\ StartedStatus(status[arg[p]]).createdAt
        /\ StartedStatus(status[arg[p]]).startedAt /\ ~StartedStatus(status[arg[p]]).finishedAt
    BY <1>2, <1>3, StatusTypes, StartedFields
  <2> QED
    BY <1>1, <1>4, <2>1, EndOfStartStep DEF EndStart, Moves, Returned
<1>5. CASE FailStart(p)
  <2>0. NoPid # InitPid
    BY SMTT(30) DEF InitPid, NoPid
  <2>1. /\ StartFailedStatus(status[arg[p]]) \in Statuses /\ StartFailedStatus(status[arg[p]]).createdAt
        /\ StartFailedStatus(status[arg[p]]).pid # InitPid
    BY <1>2, <1>3, <2>0, StatusTypes, StartedFields
  <2> QED
    BY <1>1, <1>5, <2>1, EndOfStartStep DEF FailStart, Moves, Returned
<1> QED
  BY <1>4, <1>5

(* setContainerRemoving: a container that is not marked is in the store, and *)
(* no start transaction is open on it.                                       *)
LEMMA SetRemovingStep ==
  ASSUME HandlerInv, TypeOK, NEW p \in Procs, SetRemoving(p)
  PROVE  HandlerInv'
<1>f. HandlerFacts
  BY HandlerFactsHold
<1> USE <1>f DEF HandlerFacts, memory
<1> DEFINE c == arg[p]
<1>1. /\ pc[p] = "setRemoving" /\ lock[c] = Nil /\ c \in Ids /\ status[c] \in Statuses
      /\ UNCHANGED <<names, containers, lock, nameOf, arg>>
  BY DEF SetRemoving, Moves, Busy, RemovePcs
<1>2. CASE ~Removable(status[c])
  <2>1. pc' = [pc EXCEPT ![p] = "err"] /\ UNCHANGED status
    BY <1>2 DEF SetRemoving, Moves
  <2> QED
    BY <1>1, <2>1, QuietStep DEF SamePhase
<1>3. CASE Removable(status[c])
  <2> DEFINE t == RemovingStatus(status[c], TRUE)
  <2>1. pc' = [pc EXCEPT ![p] = "rmSnapshot"] /\ status' = [status EXCEPT ![c] = t]
    BY <1>3 DEF SetRemoving, Moves
  <2>2. status[c].createdAt /\ ~status[c].removing /\ State(status[c]) # "RUNNING"
    BY <1>1, <1>3 DEF KnownInv, RemovePcs, Removable
  <2>3. c \in containers
    BY <1>1, <2>2 DEF RemoveInv
  <2>4. /\ t \in Statuses /\ t.createdAt /\ t.removing /\ t.pid = status[c].pid
        /\ t.startedAt = status[c].startedAt /\ t.finishedAt = status[c].finishedAt
    BY <1>1, <2>2, RemovingFields, StatusTypes
  <2>5. State(t) # "RUNNING"
    BY <1>1, <2>2, <2>4, StateFacts
  <2>6. \A q \in Procs : Removing(q) \/ Starting(q) \/ pc[q] \in CreatePcs => arg[q] # c
    <3>1. \A q \in Procs : Removing(q) => arg[q] # c
      BY <2>2 DEF RemoveInv
    <3>2. \A q \in Procs : Starting(q) => arg[q] # c
      BY SMT, <1>1, NilAssumption DEF LockInv
    <3>3. \A q \in Procs : pc[q] \in CreatePcs => arg[q] # c
      BY <2>3 DEF CreateInv
    <3> QED
      BY <3>1, <3>2, <3>3
  <2>7. nameOf[c] # Nil
    BY <1>1, <2>3 DEF FreshInv
  <2> HIDE DEF t, c
  <2>8. NamesHeld'
    BY <1>1 DEF NamesHeld
  <2>9. FreshInv'
    BY <1>1, <2>1, <2>7 DEF FreshInv
  <2>10. CreateInv'
    <3>1. \A q \in Procs : pc'[q] \in CreatePcs => pc[q] \in CreatePcs /\ arg[q] # c /\ arg[q] \in Ids
      BY <1>1, <2>1, <2>6 DEF CreatePcs, Busy
    <3>2. \A id \in Ids : id # c => status'[id] = status[id]
      BY <1>1, <2>1
    <3> QED
      BY <1>1, <3>1, <3>2 DEF CreateInv
  <2>11. KnownInv'
    BY <1>1, <2>1, <2>4, SMTT(30) DEF KnownInv, RemovePcs
  <2>12. StatusInv'
    BY <1>1, <2>1, <2>4 DEF StatusInv
  <2>13. LockInv'
    BY <1>1, <2>1, <2>6, SMTT(30) DEF LockInv, Starting, StartPcs, Busy
  <2>14. RemoveInv'
    BY <1>1, <2>1, <2>3, <2>4, <2>5, <2>6, SMTT(30) DEF RemoveInv, Removing, RemovePcs, Busy, c
  <2> QED
    BY <2>8, <2>9, <2>10, <2>11, <2>12, <2>13, <2>14 DEF HandlerInv
<1> QED
  BY <1>2, <1>3

(* The error path of RemoveContainer takes the mark away again; the removal *)
(* was the only one.                                                        *)
LEMMA ResetRemovingStep ==
  ASSUME HandlerInv, TypeOK, NEW p \in Procs, ResetRemoving(p)
  PROVE  HandlerInv'
<1>f. HandlerFacts
  BY HandlerFactsHold
<1> USE <1>f DEF HandlerFacts, memory
<1> DEFINE c == arg[p]
           t == RemovingStatus(status[c], FALSE)
<1>1. /\ pc[p] = "resetRemoving" /\ lock[c] = Nil /\ c \in Ids /\ status[c] \in Statuses
      /\ pc' = [pc EXCEPT ![p] = "err"] /\ status' = [status EXCEPT ![c] = t]
      /\ UNCHANGED <<names, containers, lock, nameOf, arg>>
  BY DEF ResetRemoving, Moves, Busy, RemovePcs
<1>2. Removing(p)
  BY <1>1 DEF Removing, RemovePcs
<1>3. status[c].createdAt /\ status[c].removing /\ c \in containers
  BY <1>1, <1>2 DEF RemoveInv, KnownInv, RemovePcs
<1>4. /\ t \in Statuses /\ t.createdAt /\ t.pid = status[c].pid
      /\ t.startedAt = status[c].startedAt /\ t.finishedAt = status[c].finishedAt
  BY <1>1, <1>3, RemovingFields, StatusTypes
<1>5. /\ \A q \in Procs : Starting(q) \/ pc[q] \in CreatePcs => arg[q] # c
      /\ \A q \in Procs \ {p} : Removing(q) => arg[q] # c
  <2>1. \A q \in Procs \ {p} : Removing(q) => arg[q] # c
    BY <1>2 DEF RemoveInv
  <2>2. \A q \in Procs : Starting(q) => arg[q] # c
    BY SMT, <1>1, NilAssumption DEF LockInv
  <2>3. \A q \in Procs : pc[q] \in CreatePcs => arg[q] # c
    BY <1>3 DEF CreateInv
  <2> QED
    BY <2>1, <2>2, <2>3
<1>6. nameOf[c] # Nil
  BY <1>1, <1>3 DEF FreshInv
<1> HIDE DEF t, c
<1>7. NamesHeld'
  BY <1>1 DEF NamesHeld
<1>8. FreshInv'
  BY <1>1, <1>6 DEF FreshInv
<1>9. CreateInv'
  <2>1. \A q \in Procs : pc'[q] \in CreatePcs => pc[q] \in CreatePcs /\ arg[q] # c /\ arg[q] \in Ids
    BY <1>1, <1>5 DEF CreatePcs, Busy
  <2>2. \A id \in Ids : id # c => status'[id] = status[id]
    BY <1>1
  <2> QED
    BY <1>1, <2>1, <2>2 DEF CreateInv
<1>10. KnownInv'
  BY <1>1, <1>4, SMTT(30) DEF KnownInv, StartPcs, StopPcs, RemovePcs
<1>11. StatusInv'
  BY <1>1, <1>4 DEF StatusInv
<1>12. LockInv'
  BY <1>1, <1>5, SMTT(30) DEF LockInv, Starting, StartPcs, Busy
<1>13. RemoveInv'
  BY <1>1, <1>3, <1>5 DEF RemoveInv, Removing, RemovePcs, Busy
<1> QED
  BY <1>7, <1>8, <1>9, <1>10, <1>11, <1>12, <1>13 DEF HandlerInv

(* The container leaves the store, marked for ever. *)
LEMMA DeleteFromStoreStep ==
  ASSUME HandlerInv, TypeOK, NEW p \in Procs, DeleteFromStore(p)
  PROVE  HandlerInv'
<1>f. HandlerFacts
  BY HandlerFactsHold
<1> USE <1>f DEF HandlerFacts, memory
<1> DEFINE c == arg[p]
<1>1. /\ pc[p] = "rmStore" /\ c \in Ids
      /\ pc' = [pc EXCEPT ![p] = "rmName"] /\ containers' = containers \ {c}
      /\ UNCHANGED <<names, status, lock, nameOf, arg>>
  BY DEF DeleteFromStore, Moves, Busy, RemovePcs
<1>2. Removing(p)
  BY <1>1 DEF Removing, RemovePcs
<1>3. status[c].removing /\ State(status[c]) # "RUNNING"
  BY <1>1, <1>2 DEF RemoveInv
<1>4. \A q \in Procs : Starting(q) => arg[q] # c
  BY <1>1, <1>3 DEF LockInv, Startable
<1> HIDE DEF c
<1>5. NamesHeld' /\ FreshInv' /\ StatusInv'
  BY <1>1 DEF NamesHeld, FreshInv, StatusInv
<1>6. CreateInv'
  BY <1>1 DEF CreateInv, CreatePcs
<1>7. KnownInv'
  BY <1>1 DEF KnownInv, RemovePcs
<1>8. LockInv'
  BY <1>1, <1>4, SMTT(30) DEF LockInv, Starting, StartPcs
<1>9. RemoveInv'
  BY <1>1, <1>2, <1>3, SMTT(30) DEF RemoveInv, Removing, RemovePcs, c
<1> QED
  BY <1>5, <1>6, <1>7, <1>8, <1>9 DEF HandlerInv

(* The monitor changes the status of a created container under its lock; it *)
(* never marks one, unmarks one or makes one RUNNING.                       *)
LEMMA MonitorStatusStep ==
  ASSUME HandlerInv, TypeOK, UNCHANGED <<names, containers, lock, pc, arg, nameOf>>,
         NEW c \in Ids, NEW t \in Statuses, status' = [status EXCEPT ![c] = t],
         lock[c] = Nil, status[c].createdAt,
         t.createdAt, t.removing = status[c].removing,
         State(t) = "RUNNING" => State(status[c]) = "RUNNING",
         t.pid = InitPid => t.startedAt /\ ~t.finishedAt
  PROVE  HandlerInv'
<1>f. HandlerFacts
  BY HandlerFactsHold
<1> USE <1>f DEF HandlerFacts
<1>1. ~ZeroStatus.createdAt
  BY DEF ZeroStatus
<1>2. \A q \in Procs : Starting(q) \/ pc[q] \in CreatePcs => arg[q] # c
  BY <1>1, SMTT(30) DEF LockInv, CreateInv
<1>3. nameOf[c] # Nil
  BY <1>1 DEF FreshInv
<1>4. NamesHeld'
  BY DEF NamesHeld
<1>5. FreshInv'
  BY <1>3 DEF FreshInv
<1>6. CreateInv'
  <2>1. ASSUME NEW q \in Procs, pc[q] \in CreatePcs PROVE status'[arg[q]] = status[arg[q]]
    <3>1. arg[q] \in Ids /\ arg[q] # c
      BY <1>2, <2>1 DEF Busy
    <3> QED  BY <3>1
  <2> QED  BY <2>1 DEF CreateInv
<1>7. KnownInv'
  BY SMTT(30) DEF KnownInv
<1>8. StatusInv'
  BY DEF StatusInv
<1>9. LockInv'
  BY <1>2 DEF LockInv, Starting, Busy
<1>10. RemoveInv'
  BY DEF RemoveInv, Removing, Busy
<1> QED
  BY <1>4, <1>5, <1>6, <1>7, <1>8, <1>9, <1>10 DEF HandlerInv

-----------------------------------------------------------------------------
LEMMA RecordExitStep ==
  ASSUME HandlerInv, TypeOK, MonitorInv, RecordExit
  PROVE  HandlerInv'
<1> DEFINE t == ExitedStatus(status[mev.id], mev.code)
<1>1. mev \in Events /\ mev.id \in Ids /\ mev.code \in Nat
  BY DEF RecordExit, TypeOK, MonitorType, Events
<1>2. status[mev.id] \in Statuses /\ status[mev.id].createdAt
  BY <1>1 DEF TypeOK, MemoryType, MonitorInv, RecordExit
<1>3. /\ t \in Statuses /\ t.createdAt /\ t.finishedAt /\ t.removing = status[mev.id].removing
      /\ status[mev.id].finishedAt => t = status[mev.id]
      /\ ~status[mev.id].finishedAt => t.pid = NoPid
  BY <1>1, <1>2, StatusTypes, ExitedFields
<1>4. State(t) # "RUNNING" /\ (t.pid = InitPid => t.startedAt /\ ~t.finishedAt)
  <2>1. State(t) # "RUNNING"
    BY <1>3, StateFacts
  <2>2. NoPid # InitPid
    BY SMTT(30) DEF NoPid, InitPid
  <2> QED
    BY <1>1, <1>3, <2>1, <2>2 DEF HandlerInv, StatusInv
<1> QED
  BY <1>1, <1>2, <1>3, <1>4, MonitorStatusStep DEF RecordExit, MonitorAt, runtime, handler

LEMMA RecordOOMStep ==
  ASSUME HandlerInv, TypeOK, MonitorInv, RecordOOM
  PROVE  HandlerInv'
<1> DEFINE t == OOMStatus(status[mev.id])
<1>1. mev.id \in Ids
  BY DEF RecordOOM, TypeOK, MonitorType, Events
<1>2. status[mev.id] \in Statuses /\ status[mev.id].createdAt
  BY <1>1 DEF TypeOK, MemoryType, MonitorInv, RecordOOM
<1>3. /\ t \in Statuses /\ t.createdAt /\ t.removing = status[mev.id].removing
      /\ t.startedAt = status[mev.id].startedAt /\ t.finishedAt = status[mev.id].finishedAt
      /\ t.pid = status[mev.id].pid
  BY <1>1, <1>2, StatusTypes, OOMFields
<1>4. /\ State(t) = "RUNNING" => State(status[mev.id]) = "RUNNING"
      /\ t.pid = InitPid => t.startedAt /\ ~t.finishedAt
  BY <1>1, <1>2, <1>3, StateFacts DEF HandlerInv, StatusInv
<1> QED
  BY <1>1, <1>2, <1>3, <1>4, MonitorStatusStep DEF RecordOOM, MonitorAt, runtime, handler

(* A new instance of the service knows no container and runs no handler. *)
LEMMA DiesStep ==
  ASSUME TypeOK, Dies, UNCHANGED nameOf
  PROVE  HandlerInv' /\ StreamInv' /\ MonitorInv'
<1> USE NilAssumption DEF Dies, ResetMemory
<1>1. names'.nameToKey = [n \in Names |-> Nil] /\ names'.keyToName = [id \in Ids |-> Nil]
  BY DEF NewRegistrar
<1>2. NamesHeld'
  BY <1>1 DEF NamesHeld, OneToOne
<1>3. FreshInv' /\ StatusInv'
  BY <1>1, ZeroFields DEF FreshInv, StatusInv
<1>4. CreateInv' /\ KnownInv'
  BY DEF CreateInv, KnownInv, CreatePcs, StartPcs, StopPcs, RemovePcs
<1>5. LockInv' /\ RemoveInv'
  BY DEF LockInv, RemoveInv, Starting, Removing, StartPcs, RemovePcs, ZeroStatus
<1>6. StreamInv' /\ MonitorInv'
  BY SMTT(30) DEF StreamInv, MonitorInv
<1> QED
  BY <1>2, <1>3, <1>4, <1>5, <1>6 DEF HandlerInv

(* What is published is appended, and what is received is taken from the front. *)
LEMMA PublishStep ==
  ASSUME StreamInv, TypeOK, NEW e \in Events, ExitEventOK(e), Publish(e)
  PROVE  StreamInv'
BY SMTT(30) DEF StreamInv, Publish, TypeOK, EventType

LEMMA ReceiveStep ==
  ASSUME StreamInv, TypeOK, stream # <<>>, stream' = Tail(stream)
  PROVE  /\ StreamInv'
         /\ Head(stream) \in Events /\ ExitEventOK(Head(stream))
<1> USE DEF TypeOK, EventType
<1>1. ExitEventOK(Head(stream)) /\ Head(stream) \in Events
  BY SMTT(30) DEF StreamInv
<1>2. \A i \in DOMAIN Tail(stream) : i + 1 \in DOMAIN stream /\ Tail(stream)[i] = stream[i + 1]
  BY SMTT(30)
<1>3. StreamInv'
  BY <1>2 DEF StreamInv
<1> QED
  BY <1>1, <1>3

(* The events containerd publishes are well formed. *)
LEMMA PublishedOK ==
  /\ \A id \in Ids, code \in ExitCodes :
       ExitEventOK(ExitEvent(id, InitPid, code)) /\ ExitEventOK(ExitEvent(id, ExecPid, code))
  /\ \A id \in Ids \cup {Nil} : ExitEventOK(OOMEvent(id))
BY SMTT(30) DEF ExitEventOK, ExitEvent, OOMEvent, NoPid, InitPid, ExecPid

(* What the monitor knows of its container stays true while handlers work: no *)
(* handler takes a timestamp back.                                            *)
LEMMA MonitorFrame ==
  ASSUME MonitorInv, TypeOK, UNCHANGED monitor,
         \A id \in Ids : /\ status[id].createdAt => status'[id].createdAt
                         /\ status[id].startedAt => status'[id].startedAt
  PROVE  MonitorInv'
BY DEF MonitorInv, monitor, TypeOK, MonitorType, Events

(* The calls a handler makes to containerd and to the file system, and its waits, *)
(* leave the memory alone.                                                        *)
QuietAction(p) ==
  \/ ResolveImage(p) \/ CreateSnapshot(p) \/ CreateRootDir(p) \/ CreateContainerdContainer(p)
  \/ UndoRootDir(p) \/ UndoSnapshot(p) \/ CheckSandbox(p) \/ PrepareRootfs(p)
  \/ CreateTask(p) \/ StartTask(p) \/ UndoTask(p) \/ StopRunning(p)
  \/ SendStopSignal(p) \/ SendKill(p) \/ StopObserved(p) \/ StopWaitEnds(p)
  \/ RemoveSnapshot(p) \/ RemoveRootDir(p) \/ DeleteContainerdContainer(p)

LEMMA QuietMoves ==
  ASSUME NEW p \in Procs, QuietAction(p)
  PROVE  /\ UNCHANGED <<memory, nameOf, arg, monitor, stream>>
         /\ \E to \in Pcs : SamePhase(pc[p], to) /\ pc[p] # "started" /\ pc' = [pc EXCEPT ![p] = to]
<1>1. CASE ResolveImage(p)
  <2>1. /\ UNCHANGED <<memory, nameOf, arg, monitor, stream>>
        /\ pc[p] \in {"resolve"} /\ \E to \in {"snapshot", "undoName"} : pc' = [pc EXCEPT ![p] = to]
    BY <1>1 DEF ResolveImage, Calls, Moves, events
  <2> QED
    BY <2>1 DEF SamePhase, Pcs, Busy, CreatePcs
<1>2. CASE CreateSnapshot(p)
  <2>1. /\ UNCHANGED <<memory, nameOf, arg, monitor, stream>>
        /\ pc[p] \in {"snapshot"} /\ \E to \in {"mkdir", "undoName"} : pc' = [pc EXCEPT ![p] = to]
    BY <1>2 DEF CreateSnapshot, Calls, Moves, events
  <2> QED
    BY <2>1 DEF SamePhase, Pcs, Busy, CreatePcs
<1>3. CASE CreateRootDir(p)
  <2>1. /\ UNCHANGED <<memory, nameOf, arg, monitor, stream>>
        /\ pc[p] \in {"mkdir"} /\ \E to \in {"newCtr", "undoSnapshot"} : pc' = [pc EXCEPT ![p] = to]
    BY <1>3 DEF CreateRootDir, CallsLocal, Moves, events
  <2> QED
    BY <2>1 DEF SamePhase, Pcs, Busy, CreatePcs
<1>4. CASE CreateContainerdContainer(p)
  <2>1. /\ UNCHANGED <<memory, nameOf, arg, monitor, stream>>
        /\ pc[p] \in {"newCtr"} /\ \E to \in {"add", "undoDir"} : pc' = [pc EXCEPT ![p] = to]
    BY <1>4 DEF CreateContainerdContainer, Calls, Moves, events
  <2> QED
    BY <2>1 DEF SamePhase, Pcs, Busy, CreatePcs
<1>5. CASE UndoRootDir(p)
  <2>1. /\ UNCHANGED <<memory, nameOf, arg, monitor, stream>>
        /\ pc[p] \in {"undoDir"} /\ \E to \in {"undoSnapshot"} : pc' = [pc EXCEPT ![p] = to]
    BY <1>5 DEF UndoRootDir, CallsLocal, Moves, events
  <2> QED
    BY <2>1 DEF SamePhase, Pcs, Busy, CreatePcs
<1>6. CASE UndoSnapshot(p)
  <2>1. /\ UNCHANGED <<memory, nameOf, arg, monitor, stream>>
        /\ pc[p] \in {"undoSnapshot"} /\ \E to \in {"undoName"} : pc' = [pc EXCEPT ![p] = to]
    BY <1>6 DEF UndoSnapshot, Calls, Moves, events
  <2> QED
    BY <2>1 DEF SamePhase, Pcs, Busy, CreatePcs
<1>7. CASE CheckSandbox(p)
  <2>1. /\ UNCHANGED <<memory, nameOf, arg, monitor, stream>>
        /\ pc[p] \in {"checkSandbox"} /\ \E to \in {"mounts", "startFailed"} : pc' = [pc EXCEPT ![p] = to]
    BY <1>7 DEF CheckSandbox, Calls, Moves, Fails, events
  <2> QED
    BY <2>1 DEF SamePhase, Pcs, Busy, StartPcs
<1>8. CASE PrepareRootfs(p)
  <2>1. /\ UNCHANGED <<memory, nameOf, arg, monitor, stream>>
        /\ pc[p] \in {"mounts"} /\ \E to \in {"newTask", "startFailed"} : pc' = [pc EXCEPT ![p] = to]
    BY <1>8 DEF PrepareRootfs, Calls, Moves, Fails, events
  <2> QED
    BY <2>1 DEF SamePhase, Pcs, Busy, StartPcs
<1>9. CASE CreateTask(p)
  <2>1. /\ UNCHANGED <<memory, nameOf, arg, monitor, stream>>
        /\ pc[p] \in {"newTask"} /\ \E to \in {"runTask", "startFailed"} : pc' = [pc EXCEPT ![p] = to]
    BY <1>9 DEF CreateTask, Calls, Moves, events
  <2> QED
    BY <2>1 DEF SamePhase, Pcs, Busy, StartPcs
<1>10. CASE StartTask(p)
  <2>1. /\ UNCHANGED <<memory, nameOf, arg, monitor, stream>>
        /\ pc[p] \in {"runTask"} /\ \E to \in {"started", "undoTask"} : pc' = [pc EXCEPT ![p] = to]
    BY <1>10 DEF StartTask, Calls, Moves, events
  <2> QED
    BY <2>1 DEF SamePhase, Pcs, Busy, StartPcs
<1>11. CASE UndoTask(p)
  <2>1. /\ UNCHANGED <<memory, nameOf, arg, monitor, stream>>
        /\ pc[p] \in {"undoTask"} /\ \E to \in {"startFailed"} : pc' = [pc EXCEPT ![p] = to]
    BY <1>11 DEF UndoTask, Calls, Moves, events
  <2> QED
    BY <2>1 DEF SamePhase, Pcs, Busy, StartPcs
<1>12. CASE StopRunning(p)
  <2>1. /\ UNCHANGED <<memory, nameOf, arg, monitor, stream>>
        /\ pc[p] \in {"state"} /\ \E to \in {"term", "kill", "ok"} : pc' = [pc EXCEPT ![p] = to]
    BY <1>12 DEF StopRunning, Moves, events
  <2> QED
    BY <2>1 DEF SamePhase, Pcs, Busy, StopPcs, Returned
<1>13. CASE SendStopSignal(p)
  <2>1. /\ UNCHANGED <<memory, nameOf, arg, monitor, stream>>
        /\ pc[p] \in {"term"} /\ \E to \in {"termWait", "err"} : pc' = [pc EXCEPT ![p] = to]
    BY <1>13 DEF SendStopSignal, Calls, Moves, events
  <2> QED
    BY <2>1 DEF SamePhase, Pcs, Busy, StopPcs, Returned
<1>14. CASE SendKill(p)
  <2>1. /\ UNCHANGED <<memory, nameOf, arg, monitor, stream>>
        /\ pc[p] \in {"kill"} /\ \E to \in {"killWait", "err"} : pc' = [pc EXCEPT ![p] = to]
    BY <1>14 DEF SendKill, Calls, Moves, events
  <2> QED
    BY <2>1 DEF SamePhase, Pcs, Busy, StopPcs, Returned
<1>15. CASE StopObserved(p)
  <2>1. /\ UNCHANGED <<memory, nameOf, arg, monitor, stream>>
        /\ pc[p] \in {"termWait", "killWait"} /\ \E to \in {"ok"} : pc' = [pc EXCEPT ![p] = to]
    BY <1>15 DEF StopObserved, Moves, events
  <2> QED
    BY <2>1 DEF SamePhase, Pcs, Busy, StopPcs, Returned
<1>16. CASE StopWaitEnds(p)
  <2>1. /\ UNCHANGED <<memory, nameOf, arg, monitor, stream>>
        /\ pc[p] \in {"termWait", "killWait"} /\ \E to \in {"kill", "err"} : pc' = [pc EXCEPT ![p] = to]
    BY <1>16 DEF StopWaitEnds, Moves, events
  <2> QED
    BY <2>1 DEF SamePhase, Pcs, Busy, StopPcs, Returned
<1>17. CASE RemoveSnapshot(p)
  <2>1. /\ UNCHANGED <<memory, nameOf, arg, monitor, stream>>
        /\ pc[p] \in {"rmSnapshot"} /\ \E to \in {"rmDir", "resetRemoving"} : pc' = [pc EXCEPT ![p] = to]
    BY <1>17 DEF RemoveSnapshot, Calls, Moves, events
  <2> QED
    BY <2>1 DEF SamePhase, Pcs, Busy, RemovePcs
<1>18. CASE RemoveRootDir(p)
  <2>1. /\ UNCHANGED <<memory, nameOf, arg, monitor, stream>>
        /\ pc[p] \in {"rmDir"} /\ \E to \in {"rmCtr", "resetRemoving"} : pc' = [pc EXCEPT ![p] = to]
    BY <1>18 DEF RemoveRootDir, CallsLocal, Moves, events
  <2> QED
    BY <2>1 DEF SamePhase, Pcs, Busy, RemovePcs
<1>19. CASE DeleteContainerdContainer(p)
  <2>1. /\ UNCHANGED <<memory, nameOf, arg, monitor, stream>>
        /\ pc[p] \in {"rmCtr"} /\ \E to \in {"rmStore", "resetRemoving"} : pc' = [pc EXCEPT ![p] = to]
    BY <1>19 DEF DeleteContainerdContainer, Calls, Moves, Fails, events
  <2> QED
    BY <2>1 DEF SamePhase, Pcs, Busy, RemovePcs
<1> QED
  BY <1>1, <1>2, <1>3, <1>4, <1>5, <1>6, <1>7, <1>8, <1>9, <1>10, <1>11, <1>12, <1>13, <1>14, <1>15, <1>16, <1>17, <1>18, <1>19 DEF QuietAction

LEMMA QuietActionStep ==
  ASSUME HandlerInv, TypeOK, NEW p \in Procs, QuietAction(p)
  PROVE  HandlerInv' /\ UNCHANGED <<status, monitor, stream>>
BY QuietMoves, QuietStep DEF memory

(* Requests that arrive, and responses that are sent. *)
LEMMA ArrivalActionStep ==
  ASSUME HandlerInv, TypeOK, NEW p \in Procs,
         \/ CreateContainerRejected(p) \/ StartContainer(p) \/ StopContainer(p)
         \/ RemoveContainer(p) \/ Respond(p)
  PROVE  HandlerInv' /\ UNCHANGED <<status, monitor, stream>>
<1>1. \A pl \in Returned \cup {"idle"} : pl \notin Busy
  BY DEF Returned, Busy, CreatePcs, StartPcs, StopPcs, RemovePcs
<1>2. ASSUME NEW id \in Ids, NEW at \in {"lock", "state", "setRemoving"}, NEW other \in Returned,
             Arrives(p, id, IF id \in containers THEN at ELSE other),
             UNCHANGED <<memory, nameOf, monitor, stream>>
      PROVE  HandlerInv' /\ UNCHANGED <<status, monitor, stream>>
  <2>1. pc[p] \notin Busy
    BY <1>1, <1>2 DEF Arrives
  <2>2. CASE id \in containers
    BY <1>2, <2>1, <2>2, ArrivalStep DEF Arrives, memory
  <2>3. CASE id \notin containers
    BY <1>1, <1>2, <2>1, <2>3, ArrivalStep DEF Arrives, memory
  <2> QED
    BY <2>2, <2>3
<1>3. CASE CreateContainerRejected(p)
  <2>1. PICK id \in Ids : Arrives(p, id, "err") /\ UNCHANGED <<memory, nameOf, monitor, stream>>
    BY <1>3 DEF CreateContainerRejected, events
  <2>2. pc[p] \notin Busy /\ "err" \notin Busy
    BY <1>1, <2>1 DEF Arrives, Returned
  <2> QED
    BY <2>1, <2>2, ArrivalStep DEF Arrives, memory
<1>4. CASE StartContainer(p)
  BY <1>2, <1>4 DEF StartContainer, Returned, events
<1>5. CASE StopContainer(p)
  BY <1>2, <1>5 DEF StopContainer, Returned, events
<1>6. CASE RemoveContainer(p)
  BY <1>2, <1>6 DEF RemoveContainer, Returned, events
<1>7. CASE Respond(p)
  <2>1. pc[p] \notin Busy /\ "idle" \notin Busy
    BY <1>1, <1>7 DEF Respond
  <2> QED
    BY <1>7, <2>1, ArrivalStep DEF Respond, memory, events
<1> QED
  BY <1>3, <1>4, <1>5, <1>6, <1>7

(* The steps of the environment leave memory and handlers alone. *)
LEMMA FrameStep ==
  ASSUME HandlerInv, UNCHANGED <<memory, pc, arg, nameOf>>
  PROVE  HandlerInv'
<1> USE DEF memory, HandlerInv
<1>1. NamesHeld' /\ FreshInv' /\ StatusInv'
  BY DEF NamesHeld, FreshInv, StatusInv
<1>2. CreateInv' /\ KnownInv'
  BY DEF CreateInv, KnownInv
<1>3. LockInv' /\ RemoveInv'
  BY DEF LockInv, RemoveInv, Starting, Removing
<1> QED
  BY <1>1, <1>2, <1>3

LEMMA IInvInit == Init => IInv
<1> SUFFICES ASSUME Init PROVE IInv
  OBVIOUS
<1>1. TypeOK
  BY TypeInit
<1> USE NilAssumption DEF Init
<1>2. names.nameToKey = [n \in Names |-> Nil] /\ names.keyToName = [id \in Ids |-> Nil]
  BY DEF NewRegistrar
<1>3. NamesHeld
  BY <1>2 DEF NamesHeld, OneToOne
<1>4. FreshInv /\ StatusInv
  BY <1>2, ZeroFields DEF FreshInv, StatusInv
<1>5. CreateInv /\ KnownInv
  BY DEF CreateInv, KnownInv, CreatePcs, StartPcs, StopPcs, RemovePcs
<1>6. LockInv /\ RemoveInv
  BY ZeroFields DEF LockInv, RemoveInv, Starting, Removing, StartPcs, RemovePcs
<1>7. StreamInv /\ MonitorInv
  BY SMTT(30) DEF StreamInv, MonitorInv
<1> QED
  BY <1>1, <1>3, <1>4, <1>5, <1>6, <1>7 DEF IInv, HandlerInv

(* The steps of handlers that change the status of a container take no timestamp *)
(* back, and leave the monitor alone.                                            *)
LEMMA HandlerStatusStep ==
  ASSUME HandlerInv, TypeOK, NEW p \in Procs,
         \/ AddToStore(p) \/ EndStart(p) \/ FailStart(p) \/ SetRemoving(p) \/ ResetRemoving(p)
  PROVE  /\ UNCHANGED <<monitor, stream>>
         /\ \A id \in Ids : /\ status[id].createdAt => status'[id].createdAt
                            /\ status[id].startedAt => status'[id].startedAt
<1> USE DEF TypeOK, MemoryType, HandlerType, events
<1>1. CASE AddToStore(p)
  <2>1. arg[p] \in Ids /\ status[arg[p]] = ZeroStatus
    BY <1>1 DEF AddToStore, Moves, HandlerInv, CreateInv, CreatePcs, Busy
  <2> QED
    BY <1>1, <2>1, ZeroFields DEF AddToStore
<1>2. CASE EndStart(p)
  <2> DEFINE t == StartedStatus(status[arg[p]])
  <2>1. arg[p] \in Ids
    BY <1>2 DEF EndStart, Moves, StartPcs, Busy
  <2>2. t.createdAt = status[arg[p]].createdAt /\ (status[arg[p]].startedAt => t.startedAt)
    BY <2>1, StartedFields
  <2>3. status' = [status EXCEPT ![arg[p]] = t] /\ UNCHANGED <<monitor, stream>>
    BY <1>2 DEF EndStart
  <2> HIDE DEF t
  <2> QED
    BY <2>1, <2>2, <2>3
<1>3. CASE FailStart(p)
  <2> DEFINE t == StartFailedStatus(status[arg[p]])
  <2>1. arg[p] \in Ids
    BY <1>3 DEF FailStart, Moves, StartPcs, Busy
  <2>2. t.createdAt = status[arg[p]].createdAt /\ (status[arg[p]].startedAt => t.startedAt)
    BY <2>1, StartedFields
  <2>3. status' = [status EXCEPT ![arg[p]] = t] /\ UNCHANGED <<monitor, stream>>
    BY <1>3 DEF FailStart
  <2> HIDE DEF t
  <2> QED
    BY <2>1, <2>2, <2>3
<1>4. CASE SetRemoving(p)
  <2> DEFINE t == RemovingStatus(status[arg[p]], TRUE)
  <2>1. arg[p] \in Ids
    BY <1>4 DEF SetRemoving, RemovePcs, Busy
  <2>2. t.createdAt = status[arg[p]].createdAt /\ t.startedAt = status[arg[p]].startedAt
    BY <2>1, RemovingFields
  <2>3. status' = status \/ status' = [status EXCEPT ![arg[p]] = t]
    BY <1>4 DEF SetRemoving
  <2> HIDE DEF t
  <2> QED
    BY <1>4, <2>1, <2>2, <2>3 DEF SetRemoving
<1>5. CASE ResetRemoving(p)
  <2> DEFINE t == RemovingStatus(status[arg[p]], FALSE)
  <2>1. arg[p] \in Ids
    BY <1>5 DEF ResetRemoving, RemovePcs, Busy
  <2>2. t.createdAt = status[arg[p]].createdAt /\ t.startedAt = status[arg[p]].startedAt
    BY <2>1, RemovingFields
  <2>3. status' = status \/ status' = [status EXCEPT ![arg[p]] = t]
    BY <1>5 DEF ResetRemoving
  <2> HIDE DEF t
  <2> QED
    BY <1>5, <2>1, <2>2, <2>3 DEF ResetRemoving
<1> QED
  BY <1>1, <1>2, <1>3, <1>4, <1>5

(* What each step of the monitor leaves it with. *)
LEMMA MonitorActionStep ==
  ASSUME IInv, MonitorStep
  PROVE  HandlerInv' /\ StreamInv' /\ MonitorInv'
<1> USE DEF IInv
<1>1. CASE Subscribe
  BY <1>1, FrameStep DEF Subscribe, StreamInv, MonitorInv, handler, memory, monitor
<1>2. CASE ReceiveEvent
  <2>1. HandlerInv'
    BY <1>2, FrameStep DEF ReceiveEvent, MonitorAt, handler, memory
  <2>2. StreamInv' /\ Head(stream) \in Events /\ ExitEventOK(Head(stream))
    BY <1>2, ReceiveStep DEF ReceiveEvent
  <2>3. status[Head(stream).id].createdAt
    BY <1>2 DEF ReceiveEvent, HandlerInv, KnownInv
  <2>4. mev' = Head(stream) /\ mpc' = IF Head(stream).type = "exit" THEN "pid" ELSE "oom"
    BY <1>2 DEF ReceiveEvent, MonitorAt
  <2>5. UNCHANGED status
    BY <1>2 DEF ReceiveEvent
  <2>6. MonitorInv'
    BY <2>2, <2>3, <2>4, <2>5 DEF MonitorInv
  <2> QED
    BY <2>1, <2>2, <2>6
<1>3. CASE DropExit
  BY <1>3, FrameStep, ReceiveStep DEF DropExit, MonitorInv, handler, memory, monitor
<1>4. CASE PanicOnOOM
  BY <1>4, DiesStep DEF PanicOnOOM
<1>5. CASE ComparePid
  <2>1. HandlerInv' /\ StreamInv'
    BY <1>5, FrameStep DEF ComparePid, MonitorAt, StreamInv, handler, memory, events
  <2>2. mev.id \in Ids /\ mev.pid # NoPid /\ mev.type = "exit"
    BY <1>5 DEF ComparePid, MonitorInv, ExitEventOK, TypeOK, MonitorType, Events
  <2>3. CASE mev.pid = status[mev.id].pid
    <3>1. mev.pid = InitPid
      BY <2>2, <2>3 DEF TypeOK, MemoryType, Statuses
    <3>2. status[mev.id].startedAt
      BY <2>2, <2>3, <3>1 DEF HandlerInv, StatusInv
    <3> QED
      BY <1>5, <2>1, <2>3, <3>1, <3>2 DEF ComparePid, MonitorAt, MonitorInv
  <2>4. CASE mev.pid # status[mev.id].pid
    BY <1>5, <2>1, <2>4 DEF ComparePid, MonitorAt, MonitorInv
  <2> QED
    BY <2>3, <2>4
<1>6. CASE DeleteTask
  BY <1>6, FrameStep DEF DeleteTask, MonitorAt, MonitorInv, StreamInv, handler, memory
<1>7. CASE RecordExit
  BY <1>7, RecordExitStep DEF RecordExit, MonitorAt, MonitorInv, StreamInv, events
<1>8. CASE RecordOOM
  BY <1>8, RecordOOMStep DEF RecordOOM, MonitorAt, MonitorInv, StreamInv, events
<1> QED
  BY <1>1, <1>2, <1>3, <1>4, <1>5, <1>6, <1>7, <1>8 DEF MonitorStep

LEMMA EnvActionStep ==
  ASSUME IInv, EnvStep
  PROVE  HandlerInv' /\ StreamInv' /\ MonitorInv'
<1> USE DEF IInv
<1>0. ASSUME UNCHANGED <<memory, pc, arg, nameOf, monitor>>
      PROVE  HandlerInv' /\ MonitorInv'
  BY <1>0, FrameStep DEF MonitorInv, memory, monitor
<1>1. ASSUME NEW id \in Ids, ProcessExits(id) \/ ExecExits(id)
      PROVE  HandlerInv' /\ StreamInv' /\ MonitorInv'
  <2>1. StreamInv'
    BY <1>1, PublishStep, PublishedOK, EventTypes DEF ProcessExits, ExecExits
  <2> QED
    BY <1>0, <1>1, <2>1 DEF ProcessExits, ExecExits, handler
<1>2. ASSUME NEW id \in Ids \cup {Nil}, OOM(id)
      PROVE  HandlerInv' /\ StreamInv' /\ MonitorInv'
  <2>1. StreamInv'
    BY <1>2, PublishStep, PublishedOK, EventTypes DEF OOM
  <2> QED
    BY <1>0, <1>2, <2>1 DEF OOM, handler
<1>3. ASSUME NEW p \in Procs, Cancel(p)
      PROVE  HandlerInv' /\ StreamInv' /\ MonitorInv'
  BY <1>0, <1>3 DEF Cancel, StreamInv, events
<1>4. CASE StreamBreaks
  BY <1>0, <1>4, SMTT(30) DEF StreamBreaks, StreamInv, handler
<1>5. CASE SandboxGoes
  BY <1>0, <1>5 DEF SandboxGoes, StreamInv, handler, events
<1>6. CASE Crash
  BY <1>6, DiesStep DEF Crash
<1>7. CASE Restart
  BY <1>0, <1>7 DEF Restart, StreamInv, handler, events
<1> QED
  BY <1>1, <1>2, <1>3, <1>4, <1>5, <1>6, <1>7 DEF EnvStep

(* The invariant is inductive. *)
LEMMA IInvStep == IInv /\ [Next]_vars => IInv'
<1> SUFFICES ASSUME IInv, [Next]_vars PROVE IInv'
  OBVIOUS
<1> USE DEF IInv
<1>1. TypeOK'
  BY TypeStep
<1>2. ASSUME NEW p \in Procs, Request(p) \/ HandlerStep(p)
      PROVE  HandlerInv' /\ StreamInv' /\ MonitorInv'
  <2>0. ASSUME UNCHANGED <<status, monitor, stream>>
        PROVE  StreamInv' /\ MonitorInv'
    BY <2>0, MonitorFrame DEF StreamInv
  <2>1. CASE QuietAction(p)
    BY <2>0, <2>1, QuietActionStep
  <2>2. CASE \/ CreateContainerRejected(p) \/ StartContainer(p) \/ StopContainer(p)
             \/ RemoveContainer(p) \/ Respond(p)
    BY <2>0, <2>2, ArrivalActionStep
  <2>3. CASE CreateContainer(p)
    BY <2>0, <2>3, CreateContainerStep DEF CreateContainer, events
  <2>4. CASE UndoName(p)
    BY <2>0, <2>4, UndoNameStep DEF UndoName, events
  <2>5. CASE ReleaseName(p)
    BY <2>0, <2>5, ReleaseStep DEF ReleaseName, Moves, Returned, events
  <2>6. CASE BeginStart(p)
    BY <2>0, <2>6, BeginStartStep DEF BeginStart, events
  <2>7. CASE DeleteFromStore(p)
    BY <2>0, <2>7, DeleteFromStoreStep DEF DeleteFromStore, events
  <2>8. CASE \/ AddToStore(p) \/ EndStart(p) \/ FailStart(p) \/ SetRemoving(p) \/ ResetRemoving(p)
    <3>1. StreamInv' /\ MonitorInv'
      BY <2>8, HandlerStatusStep, MonitorFrame DEF StreamInv
    <3>2. HandlerInv'
      BY <2>8, AddToStoreStep, EndStartStep, SetRemovingStep, ResetRemovingStep
    <3> QED
      BY <3>1, <3>2
  <2> QED
    BY <1>2, <2>1, <2>2, <2>3, <2>4, <2>5, <2>6, <2>7, <2>8
       DEF Request, HandlerStep, CreateStep, StartStep, StopStep, RemoveStep, QuietAction
<1>3. CASE MonitorStep
  BY <1>1, <1>3, MonitorActionStep
<1>4. CASE EnvStep
  BY <1>1, <1>4, EnvActionStep
<1>5. CASE UNCHANGED vars
  BY <1>1, <1>5, FrameStep DEF vars, memory, handler, monitor, events, StreamInv, MonitorInv
<1> QED
  BY <1>1, <1>2, <1>3, <1>4, <1>5 DEF Next

(* The invariant holds in every behaviour, whatever the environment does. *)
THEOREM Invariance == Spec => []IInv
BY IInvInit, IInvStep, PTL DEF Spec

(* Two live containers never share a name: the registrar stays one-to-one and *)
(* every container in the store holds its name, for any number of concurrent  *)
(* creations and removals (container_create.go:62, container_remove.go:100).  *)
THEOREM NamesAlwaysHeld == Spec => []NamesHeld
<1>1. IInv => NamesHeld
  BY DEF IInv, HandlerInv
<1> QED
  BY <1>1, Invariance, PTL

(* At most one RemoveContainer works on a container, and never inside a start *)
(* transaction (setContainerRemoving, container_remove.go:107).               *)
THEOREM RemovalsExclusive == Spec => []RemovalExclusive
<1>1. IInv => RemovalExclusive
  <2> SUFFICES ASSUME IInv, NEW p \in Procs, Removing(p)
               PROVE  /\ lock[arg[p]] = Nil
                      /\ \A q \in Procs \ {p} : Removing(q) => arg[q] # arg[p]
    BY DEF RemovalExclusive, Removing
  <2>1. arg[p] \in Ids /\ status[arg[p]].removing
    BY DEF IInv, HandlerInv, RemoveInv, Removing, TypeOK, HandlerType, Busy
  <2>2. lock[arg[p]] = Nil
    BY <2>1, SMTT(30) DEF IInv, HandlerInv, LockInv, Startable, TypeOK, MemoryType
  <2>3. \A q \in Procs \ {p} : Removing(q) => arg[q] # arg[p]
    BY DEF IInv, HandlerInv, RemoveInv
  <2> QED
    BY <2>2, <2>3
<1> QED
  BY <1>1, Invariance, PTL

-----------------------------------------------------------------------------
(* ContainerService implements ContainerLifecycle. *)
(* The state of a container depends on its three timestamps. *)
LEMMA StateSame ==
  ASSUME NEW s \in Statuses, NEW t \in Statuses,
         s.createdAt = t.createdAt, s.startedAt = t.startedAt, s.finishedAt = t.finishedAt
  PROVE  State(s) = State(t)
BY DEF State

LEMMA StateValues ==
  ASSUME NEW s \in Statuses
  PROVE  /\ s.finishedAt => State(s) = "EXITED"
         /\ ~s.finishedAt /\ s.startedAt => State(s) = "RUNNING"
         /\ ~s.finishedAt /\ ~s.startedAt /\ s.createdAt => State(s) = "CREATED"
BY DEF State, Statuses

(* A step that changes neither the statuses nor the store shows nothing new. *)
LEMMA ViewFrame ==
  ASSUME UNCHANGED <<containers, status>>, \A id \in containers : nameOf'[id] = nameOf[id]
  PROVE  View' = View
BY DEF View

(* A step that changes the status of one container, c. *)
LEMMA ViewStatus ==
  ASSUME NEW c \in Ids, NEW t \in Statuses, TypeOK,
         status' = [status EXCEPT ![c] = t], UNCHANGED <<containers, nameOf>>,
         c \in containers
  PROVE  View' = [View EXCEPT ![c] =
                    [name |-> nameOf[c], state |-> State(t), exitCode |-> t.exitCode]]
BY DEF View, TypeOK, MemoryType

LEMMA AddRefines ==
  ASSUME IInv, NEW p \in Procs, AddToStore(p)
  PROVE  \E id \in Ids, n \in Names : Lifecycle!Create(id, n)
<1> DEFINE c == arg[p]
           n == nameOf[c]
<1>1. /\ pc[p] \in CreatePcs /\ c \in Ids /\ n \in Names
      /\ status' = [status EXCEPT ![c] = CreatedStatus]
      /\ containers' = containers \cup {c} /\ UNCHANGED nameOf
  BY DEF AddToStore, Moves, CreatePcs, Busy, IInv, TypeOK, HandlerType, RuntimeType
<1>2. status[c] = ZeroStatus /\ c \notin containers /\ names.nameToKey[n] = c
  BY <1>1 DEF IInv, HandlerInv, CreateInv
<1>3. status \in [Ids -> Statuses]
  BY DEF IInv, TypeOK, MemoryType
<1>4. View[c] = Lifecycle!Absent
  <2>1. View[c] = [name |-> Nil, state |-> "UNKNOWN", exitCode |-> 0]
    BY <1>1, <1>2, ZeroFields DEF View
  <2> QED
    BY <2>1 DEF Lifecycle!Absent, Lifecycle!Entry
<1>5. \A other \in Ids : View[other].name # n
  BY <1>1, <1>2, NilAssumption DEF View, IInv, HandlerInv, NamesHeld
<1>6. State(CreatedStatus) = "CREATED" /\ CreatedStatus.exitCode = 0
  BY DEF CreatedStatus, ZeroStatus, State
<1> HIDE DEF n, c
<1>7. View' = [View EXCEPT ![c] = Lifecycle!Entry(n, "CREATED", 0)]
  BY <1>1, <1>2, <1>3, <1>6 DEF View, Lifecycle!Entry, n
<1> QED
  BY <1>1, <1>4, <1>5, <1>7 DEF Lifecycle!Create

LEMMA StartRefines ==
  ASSUME IInv, NEW p \in Procs, EndStart(p) \/ FailStart(p)
  PROVE  \E id \in Ids : Lifecycle!Start(id) \/ Lifecycle!FailToStart(id)
<1> DEFINE c == arg[p]
           s == status[c]
<1>1. Starting(p) /\ c \in Ids
  BY DEF EndStart, FailStart, Moves, Starting, StartPcs, IInv, TypeOK, HandlerType, Busy
<1>2. c \in containers /\ s \in Statuses /\ Startable(s)
  BY <1>1 DEF IInv, HandlerInv, LockInv, TypeOK, MemoryType
<1>3. State(s) = "CREATED" /\ ~s.finishedAt
  BY <1>2, StateFacts DEF Startable
<1>4. View[c] = [name |-> nameOf[c], state |-> "CREATED", exitCode |-> s.exitCode]
  BY <1>1, <1>2, <1>3 DEF View
<1>5. CASE EndStart(p)
  <2>1. StartedStatus(s) \in Statuses /\ State(StartedStatus(s)) = "RUNNING"
    BY <1>2, <1>3, StatusTypes, StartedFields, StateFacts
  <2>2. StartedStatus(s).exitCode = s.exitCode
    BY <1>2 DEF StartedStatus, Statuses
  <2>3. View' = [View EXCEPT ![c] = [name |-> nameOf[c], state |-> "RUNNING", exitCode |-> s.exitCode]]
    BY <1>1, <1>2, <1>5, <2>1, <2>2, ViewStatus DEF EndStart, IInv
  <2> QED
    BY <1>1, <1>4, <2>3 DEF Lifecycle!Start, Lifecycle!Entry, View
<1>6. CASE FailStart(p)
  <2>1. StartFailedStatus(s) \in Statuses /\ State(StartFailedStatus(s)) = "EXITED"
    BY <1>2, StatusTypes, StartedFields, StateFacts
  <2>2. StartFailedStatus(s).exitCode = errorStartExitCode
    BY <1>2 DEF StartFailedStatus, Statuses
  <2>3. View' = [View EXCEPT ![c] = [name |-> nameOf[c], state |-> "EXITED", exitCode |-> errorStartExitCode]]
    BY <1>1, <1>2, <1>6, <2>1, <2>2, ViewStatus DEF FailStart, IInv
  <2> QED
    BY <1>1, <1>4, <2>3 DEF Lifecycle!FailToStart, Lifecycle!Entry, View
<1> QED
  BY <1>5, <1>6

LEMMA RemoveRefines ==
  ASSUME IInv, NEW p \in Procs, DeleteFromStore(p)
  PROVE  \E id \in Ids : Lifecycle!Remove(id)
<1> DEFINE c == arg[p]
<1>1. /\ pc[p] = "rmStore" /\ c \in Ids /\ containers' = containers \ {c} /\ UNCHANGED <<status, nameOf>>
  BY DEF DeleteFromStore, Moves, RemovePcs, Busy, IInv, TypeOK, HandlerType
<1>2. Removing(p)
  BY <1>1 DEF Removing, RemovePcs
<1>3. /\ status[c].removing /\ State(status[c]) # "RUNNING" /\ c \in containers
      /\ status[c].createdAt /\ status[c] \in Statuses
  BY <1>1, <1>2 DEF IInv, HandlerInv, RemoveInv, KnownInv, TypeOK, MemoryType
<1>4. State(status[c]) \in {"CREATED", "EXITED"}
  BY <1>3, StateValues DEF Statuses
<1> HIDE DEF c
<1>5. View[c].state \in {"CREATED", "EXITED"}
  BY <1>1, <1>3, <1>4 DEF View
<1>6. View' = [View EXCEPT ![c] = [name |-> Nil, state |-> "REMOVED", exitCode |-> 0]]
  BY <1>1, <1>3 DEF View
<1> QED
  BY <1>1, <1>5, <1>6 DEF Lifecycle!Remove, Lifecycle!Removed, Lifecycle!Entry

(* Marking a container shows nothing. *)
LEMMA MarkRefines ==
  ASSUME IInv, NEW p \in Procs, SetRemoving(p) \/ ResetRemoving(p)
  PROVE  View' = View
<1> DEFINE c == arg[p]
<1>1. c \in Ids /\ status[c] \in Statuses /\ UNCHANGED <<containers, nameOf>>
  BY DEF SetRemoving, ResetRemoving, RemovePcs, Busy, IInv, TypeOK, HandlerType, MemoryType
<1>2. CASE UNCHANGED status
  BY <1>1, <1>2, ViewFrame
<1>3. ASSUME NEW b \in BOOLEAN, status' = [status EXCEPT ![c] = RemovingStatus(@, b)], c \in containers
      PROVE  View' = View
  <2> DEFINE t == RemovingStatus(status[c], b)
  <2>1. t \in Statuses
    BY <1>1, <1>3, StatusTypes
  <2>2. State(t) = State(status[c]) /\ t.exitCode = status[c].exitCode
    BY <1>1, <2>1, RemovingFields, StateSame
  <2>3. View' = [View EXCEPT ![c] = [name |-> nameOf[c], state |-> State(t), exitCode |-> t.exitCode]]
    BY <1>1, <1>3, <2>1, ViewStatus DEF IInv
  <2>4. View[c] = [name |-> nameOf[c], state |-> State(status[c]), exitCode |-> status[c].exitCode]
    BY <1>1, <1>3 DEF View
  <2>5. View = [id \in Ids |-> View[id]]
    BY DEF View
  <2>6. View' = [View EXCEPT ![c] = View[c]]
    BY <2>2, <2>3, <2>4, Zenon
  <2> QED
    BY <1>1, <2>5, <2>6
<1>4. CASE SetRemoving(p) /\ ~UNCHANGED status
  <2>1. /\ Removable(status[c]) /\ pc[p] = "setRemoving"
        /\ status' = [status EXCEPT ![c] = RemovingStatus(@, TRUE)]
    BY <1>4 DEF SetRemoving
  <2>2. c \in containers
    BY <1>1, <2>1 DEF Removable, IInv, HandlerInv, KnownInv, RemoveInv, RemovePcs
  <2> QED
    BY <1>3, <2>1, <2>2
<1>5. CASE ResetRemoving(p)
  <2>1. c \in containers
    BY <1>5 DEF ResetRemoving, IInv, HandlerInv, RemoveInv, Removing, RemovePcs
  <2> QED
    BY <1>3, <1>5, <2>1 DEF ResetRemoving
<1> QED
  BY <1>2, <1>4, <1>5

(* The monitor records an exit once, with the code of the event; an OOM is not *)
(* shown here.                                                                 *)
LEMMA RecordRefines ==
  ASSUME IInv, RecordExit \/ RecordOOM
  PROVE  View' = View \/ \E id \in Ids, code \in ExitCodes : Lifecycle!Exit(id, code)
<1> DEFINE c == mev.id
           s == status[c]
<1>1. /\ c \in Ids /\ s \in Statuses /\ mev.code \in Nat
      /\ UNCHANGED <<containers, nameOf>>
  BY DEF RecordExit, RecordOOM, MonitorAt, IInv, TypeOK, MonitorType, Events, MemoryType
<1>2. ASSUME NEW t \in Statuses, status' = [status EXCEPT ![c] = t], t.removing = s.removing,
             State(t) = State(s), t.exitCode = s.exitCode
      PROVE  View' = View
  BY <1>1, <1>2 DEF View, IInv, TypeOK, MemoryType
<1>3. CASE RecordOOM
  <2>1. OOMStatus(s) \in Statuses /\ State(OOMStatus(s)) = State(s)
    BY <1>1, StatusTypes, OOMFields, StateSame
  <2> QED
    BY <1>1, <1>2, <1>3, <2>1, OOMFields DEF RecordOOM
<1>4. CASE RecordExit
  <2> DEFINE t == ExitedStatus(s, mev.code)
  <2>1. status' = [status EXCEPT ![c] = t] /\ t \in Statuses
    BY <1>1, <1>4, StatusTypes DEF RecordExit
  <2>2. CASE s.finishedAt
    <3>1. t = s
      BY <2>2 DEF ExitedStatus
    <3> QED
      BY <1>1, <1>2, <2>1, <3>1
  <2>3. CASE ~s.finishedAt
    <3>1. s.startedAt /\ s.createdAt /\ mev.code \in ExitCodes
      BY <1>4 DEF RecordExit, IInv, MonitorInv, ExitEventOK
    <3>2. State(s) = "RUNNING"
      BY <1>1, <2>3, <3>1, StateFacts
    <3>3. c \in containers
      BY <1>1, <3>1, <3>2 DEF IInv, HandlerInv, RemoveInv
    <3>4. State(t) = "EXITED" /\ t.exitCode = mev.code
      BY <1>1, <2>1, <2>3, ExitedFields, StateFacts, SMTT(30)
    <3>5. View[c].state = "RUNNING" /\ View[c].name = nameOf[c]
      BY <1>1, <3>2, <3>3 DEF View
    <3> HIDE DEF t
    <3>6. View' = [View EXCEPT ![c] = [name |-> nameOf[c], state |-> "EXITED", exitCode |-> mev.code]]
      BY <1>1, <2>1, <3>3, <3>4, ViewStatus DEF IInv
    <3> QED
      BY <1>1, <3>1, <3>5, <3>6 DEF Lifecycle!Exit, Lifecycle!Entry, View
  <2> QED
    BY <1>1, <2>2, <2>3 DEF Statuses
<1> QED
  BY <1>3, <1>4

LEMMA DiesRefines ==
  ASSUME Dies
  PROVE  Lifecycle!Restart
<1>1. View' = [id \in Ids |-> [name |-> Nil, state |-> "UNKNOWN", exitCode |-> 0]]
  BY ZeroFields DEF Dies, ResetMemory, View
<1> QED
  BY <1>1 DEF Lifecycle!Restart, Lifecycle!Absent, Lifecycle!Entry

(* Every step is a step of the life cycle, or shows nothing. *)
LEMMA StepRefines == IInv /\ [Next]_vars => [Lifecycle!Next]_View
<1> SUFFICES ASSUME IInv, [Next]_vars PROVE Lifecycle!Next \/ View' = View
  OBVIOUS
<1>1. ASSUME NEW p \in Procs, Request(p) \/ HandlerStep(p)
      PROVE  Lifecycle!Next \/ View' = View
  <2>1. CASE QuietAction(p)
    <3>1. UNCHANGED <<containers, status, nameOf>>
      BY <2>1 DEF QuietAction, ResolveImage, CreateSnapshot, CreateRootDir, CreateContainerdContainer,
           UndoRootDir, UndoSnapshot, CheckSandbox, PrepareRootfs, CreateTask, StartTask, UndoTask,
           StopRunning, SendStopSignal, SendKill, StopObserved, StopWaitEnds,
           RemoveSnapshot, RemoveRootDir, DeleteContainerdContainer, memory
    <3> QED
      BY <3>1, ViewFrame
  <2>2. CASE \/ CreateContainerRejected(p) \/ StartContainer(p) \/ StopContainer(p)
             \/ RemoveContainer(p) \/ Respond(p) \/ UndoName(p) \/ ReleaseName(p) \/ BeginStart(p)
    <3>1. UNCHANGED <<containers, status, nameOf>>
      BY <2>2 DEF CreateContainerRejected, StartContainer, StopContainer, RemoveContainer, Respond,
           UndoName, ReleaseName, BeginStart, memory
    <3> QED
      BY <3>1, ViewFrame
  <2>3. CASE CreateContainer(p)
    <3>1. PICK id \in Ids, n \in Names :
             /\ nameOf[id] = Nil /\ nameOf' = [nameOf EXCEPT ![id] = n]
             /\ UNCHANGED <<containers, status>>
      BY <2>3 DEF CreateContainer
    <3>2. id \notin containers /\ containers \subseteq Ids /\ nameOf \in [Ids -> Names \cup {Nil}]
      BY <3>1 DEF IInv, HandlerInv, FreshInv, TypeOK, MemoryType, RuntimeType
    <3> QED
      BY <3>1, <3>2, ViewFrame
  <2>4. CASE AddToStore(p)
    BY <2>4, AddRefines DEF Lifecycle!Next
  <2>5. CASE EndStart(p) \/ FailStart(p)
    BY <2>5, StartRefines DEF Lifecycle!Next
  <2>6. CASE SetRemoving(p) \/ ResetRemoving(p)
    BY <2>6, MarkRefines
  <2>7. CASE DeleteFromStore(p)
    BY <2>7, RemoveRefines DEF Lifecycle!Next
  <2> QED
    BY <1>1, <2>1, <2>2, <2>3, <2>4, <2>5, <2>6, <2>7
       DEF Request, HandlerStep, CreateStep, StartStep, StopStep, RemoveStep, QuietAction
<1>2. CASE MonitorStep
  <2>1. CASE RecordExit \/ RecordOOM
    BY <2>1, RecordRefines DEF Lifecycle!Next
  <2>2. CASE PanicOnOOM
    BY <2>2, DiesRefines DEF PanicOnOOM, Lifecycle!Next
  <2>3. CASE Subscribe \/ ReceiveEvent \/ DropExit \/ ComparePid \/ DeleteTask
    <3>1. UNCHANGED <<containers, status, nameOf>>
      BY <2>3 DEF Subscribe, ReceiveEvent, DropExit, ComparePid, DeleteTask, MonitorAt, memory
    <3> QED
      BY <3>1, ViewFrame
  <2> QED
    BY <1>2, <2>1, <2>2, <2>3 DEF MonitorStep
<1>3. CASE EnvStep
  <2>1. CASE Crash
    BY <2>1, DiesRefines DEF Crash, Lifecycle!Next
  <2>2. CASE ~Crash
    <3>1. UNCHANGED <<containers, status, nameOf>>
      BY <1>3, <2>2 DEF EnvStep, ProcessExits, ExecExits, OOM, Cancel, StreamBreaks, SandboxGoes, Restart, memory
    <3> QED
      BY <3>1, ViewFrame
  <2> QED
    BY <2>1, <2>2
<1>4. CASE UNCHANGED vars
  BY <1>4, ViewFrame DEF vars, memory
<1> QED
  BY <1>1, <1>2, <1>3, <1>4 DEF Next

(* What clients see of the containers follows the life cycle: forward only, the *)
(* exit recorded once and kept, never removed while RUNNING, names unique, for  *)
(* any number of handlers and containers and any environment.                   *)
THEOREM ImplementsLifecycle == Spec => LifecycleSpec
<1>1. Init => Lifecycle!Init
  <2> SUFFICES ASSUME Init PROVE Lifecycle!Init
    OBVIOUS
  <2>1. View = [id \in Ids |-> [name |-> Nil, state |-> "UNKNOWN", exitCode |-> 0]]
    BY ZeroFields DEF Init, View
  <2> QED
    BY <2>1 DEF Lifecycle!Init, Lifecycle!Absent, Lifecycle!Entry
<1>2. IInv /\ [Next]_vars => [Lifecycle!Next]_View
  BY StepRefines
<1>3. Spec => []IInv
  BY Invariance
<1> QED
  BY <1>1, <1>2, <1>3, PTL DEF Spec, LifecycleSpec, Lifecycle!Spec

-----------------------------------------------------------------------------
(* Of use for the other results about handlers. *)
(* Where a request arrives, or a response is sent. *)
LEMMA ArrivalMoves ==
  ASSUME NEW p \in Procs,
         \/ CreateContainerRejected(p) \/ StartContainer(p) \/ StopContainer(p)
         \/ RemoveContainer(p) \/ Respond(p)
  PROVE  /\ UNCHANGED <<memory, nameOf, monitor, stream, runtime>>
         /\ pc[p] \in {"idle", "ok", "err"}
         /\ \E to \in {"idle", "ok", "err", "lock", "state", "setRemoving"} : pc' = [pc EXCEPT ![p] = to]
         /\ \E id \in Ids \cup {Nil} : arg' = [arg EXCEPT ![p] = id]
<1> USE DEF Arrives, events
<1>1. CASE CreateContainerRejected(p)
  BY <1>1 DEF CreateContainerRejected
<1>2. CASE StartContainer(p)
  BY <1>2 DEF StartContainer
<1>3. CASE StopContainer(p)
  BY <1>3 DEF StopContainer
<1>4. CASE RemoveContainer(p)
  BY <1>4 DEF RemoveContainer
<1>5. CASE Respond(p)
  BY <1>5 DEF Respond, Returned
<1> QED
  BY <1>1, <1>2, <1>3, <1>4, <1>5

(* A handler that makes or removes resources is alone with the id. *)
LEMMA AloneAt ==
  ASSUME IInv, NEW p \in Procs, NEW q \in Procs, p # q,
         pc[p] \in CreatePcs \/ Removing(p),
         pc[q] \in CreatePcs \/ Removing(q) \/ Starting(q)
  PROVE  arg[q] # arg[p]
<1> USE DEF IInv, HandlerInv
<1>1. pc[p] \in CreatePcs => ~status[arg[p]].createdAt
  BY ZeroFields DEF CreateInv
<1>2. pc[q] \in CreatePcs => ~status[arg[q]].createdAt
  BY ZeroFields DEF CreateInv
<1>3. Removing(p) => status[arg[p]].createdAt
  BY DEF KnownInv, Removing
<1>4. Removing(q) \/ Starting(q) => status[arg[q]].createdAt
  BY DEF KnownInv, Removing, Starting
<1>5. pc[p] \in CreatePcs /\ pc[q] \in CreatePcs => arg[q] # arg[p]
  BY DEF CreateInv
<1>6. Removing(p) /\ Removing(q) => arg[q] # arg[p]
  BY DEF RemoveInv
<1>7. ASSUME Removing(p), Starting(q) PROVE arg[q] # arg[p]
  BY <1>7 DEF RemoveInv, LockInv, Startable
<1> QED
  BY <1>1, <1>2, <1>3, <1>4, <1>5, <1>6, <1>7
=============================================================================
