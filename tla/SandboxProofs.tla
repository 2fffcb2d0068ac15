---------------------------- MODULE SandboxProofs ----------------------------
(***************************************************************************)
(* The properties of SandboxService hold for every value of the constants: *)
(* any handlers, sandboxes, containers, configurations and disturbances.   *)
(***************************************************************************)
EXTENDS SandboxInvariant, TLAPS

(* Zenon proves most leaves; the others name SMT. *)
USE ZenonT(30)

-----------------------------------------------------------------------------
(* What the steps of RunPodSandbox, StopPodSandbox and RemovePodSandbox do:  *)
(* where they lead, and what they make and take away.                        *)

(* The registrar stays one-to-one, and loses only the name that is released. *)
LEMMA ReserveFacts ==
  ASSUME NEW N, NEW K, Nil \notin N, Nil \notin K, NEW r \in Registrars(N, K), OneToOne(r),
         NEW n \in N, NEW k \in K, Reservable(r, n, k), r.keyToName[k] = Nil
  PROVE  /\ Reserve(r, n, k) \in Registrars(N, K)
         /\ OneToOne(Reserve(r, n, k))
         /\ Reserve(r, n, k).nameToKey = [r.nameToKey EXCEPT ![n] = k]
         /\ Reserve(r, n, k).keyToName = [r.keyToName EXCEPT ![k] = n]
         /\ r.nameToKey[n] = Nil
<1>1. r.nameToKey[n] = Nil
  BY SMTT(30) DEF Reservable, OneToOne, Registrars
<1>2. Reserve(r, n, k) = Bind(r, n, k)
  BY <1>1 DEF Reserve
<1> QED
  BY <1>1, <1>2, SMTT(30) DEF Bind, OneToOne, Registrars

LEMMA ReleaseFacts ==
  ASSUME NEW N, NEW K, Nil \notin N, Nil \notin K, NEW r \in Registrars(N, K), OneToOne(r),
         NEW n \in N, NEW k \in K, r.nameToKey[n] = k
  PROVE  /\ ReleaseByName(r, n) = Unbind(r, n, k) /\ ReleaseByKey(r, k) = Unbind(r, n, k)
         /\ Unbind(r, n, k) \in Registrars(N, K) /\ OneToOne(Unbind(r, n, k))
         /\ Unbind(r, n, k).nameToKey = [r.nameToKey EXCEPT ![n] = Nil]
         /\ Unbind(r, n, k).keyToName = [r.keyToName EXCEPT ![k] = Nil]
<1>1. r.keyToName[k] = n /\ n # Nil /\ k # Nil
  BY DEF OneToOne, Registrars
<1>2. ReleaseByName(r, n) = Unbind(r, n, k) /\ ReleaseByKey(r, k) = Unbind(r, n, k)
  BY <1>1 DEF ReleaseByName, ReleaseByKey
<1> QED
  BY <1>1, <1>2, SMTT(30) DEF Unbind, OneToOne, Registrars

-----------------------------------------------------------------------------
(* Types.                                                                    *)

HandlerType ==
  /\ todo \in [Procs -> SUBSET Ctrs]
  /\ cur \in [Procs -> Ctrs \cup {Nil}]
  /\ listed \in [Procs -> SUBSET Ids]
  /\ ears \in [Procs -> {"closed", "open", "exit", "broken"}]
  /\ undoing \subseteq Procs
  /\ up \in BOOLEAN
  /\ pc \in [Procs -> Pcs]
  /\ arg \in [Procs -> Ids \cup {Nil}]
  /\ \A p \in Procs : pc[p] \in Busy => arg[p] # Nil
  /\ \A p \in Procs : pc[p] = "ctrWait" => cur[p] # Nil
  /\ \A p \in Procs : pc[p] \in {"get", "kill", "wait", "delete"} => ears[p] # "closed"
  /\ \A p \in undoing : pc[p] \in KillPcs
  /\ done \subseteq Procs
  /\ spent \in Nat

PodType ==
  /\ names \in Registrars(Names, Ids) /\ sandboxes \subseteq Ids
  /\ ctr \in [Ctrs -> {"absent", "creating", "removed"} \cup Stored]
  /\ owner \in [Ctrs -> Ids \cup {Nil}]
  /\ nameOf \in [Ids -> Names \cup {Nil}]
  /\ config \in [Ids -> AllConfigs \cup {Nil}]
  /\ late \subseteq Ctrs

RuntimeType ==
  /\ snapshots \subseteq Ids /\ ctrs \subseteq Ids /\ dirs \subseteq Ids /\ mounts \subseteq Ids
  /\ task \in [Ids -> {"none", "created", "running", "stopped"}]
  /\ killed \subseteq Ids /\ network \subseteq Ids
  /\ skipped \subseteq Ids /\ leaked \subseteq Ids

LEMMA TypeSplit == TypeOK <=> HandlerType /\ PodType /\ RuntimeType
  BY DEF TypeOK, HandlerType, PodType, RuntimeType

LEMMA BusyArg == ASSUME HandlerType, NEW p \in Procs, pc[p] \in Busy PROVE arg[p] \in Ids
  BY DEF HandlerType

(* p goes on to a place, and the other handlers stay where they are. *)
Steps(p, to) ==
  /\ pc' = [pc EXCEPT ![p] = to] /\ arg' = arg /\ up' = up
  /\ done' \subseteq Procs /\ spent' \in Nat
  /\ listed' = listed
  /\ \A q \in Procs \ {p} :
       todo'[q] = todo[q] /\ cur'[q] = cur[q] /\ ears'[q] = ears[q] /\ (q \in undoing' <=> q \in undoing)

LEMMA StepsType ==
  ASSUME HandlerType, NEW p \in Procs, NEW to \in Pcs, pc[p] \in Busy, Steps(p, to),
         todo' \in [Procs -> SUBSET Ctrs], cur' \in [Procs -> Ctrs \cup {Nil}],
         ears' \in [Procs -> {"closed", "open", "exit", "broken"}], undoing' \subseteq Procs,
         to = "ctrWait" => cur'[p] # Nil,
         to \in {"get", "kill", "wait", "delete"} => ears'[p] # "closed",
         p \in undoing' => to \in KillPcs
  PROVE  HandlerType'
<1>1. \A q \in Procs : pc'[q] = IF q = p THEN to ELSE pc[q]
  BY DEF HandlerType, Steps
<1>2. pc' \in [Procs -> Pcs] /\ arg' \in [Procs -> Ids \cup {Nil}] /\ listed' \in [Procs -> SUBSET Ids]
  BY DEF HandlerType, Steps
<1>3. \A q \in Procs : pc'[q] \in Busy => arg'[q] # Nil
  BY <1>1 DEF HandlerType, Steps
<1>4. \A q \in Procs : pc'[q] = "ctrWait" => cur'[q] # Nil
  BY <1>1 DEF HandlerType, Steps
<1>5. \A q \in Procs : pc'[q] \in {"get", "kill", "wait", "delete"} => ears'[q] # "closed"
  BY <1>1 DEF HandlerType, Steps
<1>6. \A q \in undoing' : pc'[q] \in KillPcs
  BY <1>1 DEF HandlerType, Steps
<1> QED
  BY <1>2, <1>3, <1>4, <1>5, <1>6 DEF HandlerType, Steps

(* Calls, with and without the context of the request. *)
LEMMA CallFacts ==
  ASSUME HandlerType, NEW p \in Procs, NEW from, NEW out, NEW a, NEW b,
         Calls(p, from, out, a, b) \/ CallsLocal(p, from, out, a, b)
  PROVE  /\ pc[p] = from /\ pc' = [pc EXCEPT ![p] = IF out = "ok" THEN a ELSE b] /\ arg' = arg
         /\ done' \subseteq Procs /\ spent' \in Nat
         /\ out \in {"ok", "refused", "lost"}
<1>1. pc[p] = from /\ pc' = [pc EXCEPT ![p] = IF out = "ok" THEN a ELSE b] /\ arg' = arg
  BY DEF Calls, CallsLocal, Moves
<1>2. done' \subseteq Procs
  BY DEF Calls, CallsLocal, HandlerType
<1>3. spent' \in Nat
  BY SMT DEF Calls, CallsLocal, Spend, HandlerType
<1>4. out \in {"ok", "refused", "lost"}
  BY DEF Calls, CallsLocal, Outcomes, LocalOutcomes
<1> QED  BY <1>1, <1>2, <1>3, <1>4

LEMMA LocalFacts ==
  ASSUME NEW p \in Procs, NEW from, NEW out, NEW a, NEW b, CallsLocal(p, from, out, a, b)
  PROVE  out \in {"ok", "refused"}
  BY DEF CallsLocal, LocalOutcomes

(* A step that leaves the loops and the streams alone. *)
LEMMA PlainSteps ==
  ASSUME HandlerType, NEW p \in Procs, NEW to \in Pcs, pc[p] \in Busy, pc' = [pc EXCEPT ![p] = to], arg' = arg,
         done' \subseteq Procs, spent' \in Nat, UNCHANGED <<todo, cur, listed, ears, undoing, up>>,
         to = "ctrWait" => cur[p] # Nil,
         to \in {"get", "kill", "wait", "delete"} => ears[p] # "closed",
         p \in undoing => to \in KillPcs
  PROVE  Steps(p, to) /\ HandlerType'
<1>1. Steps(p, to)
  BY DEF Steps
<1> QED  BY <1>1, StepsType DEF HandlerType

-----------------------------------------------------------------------------
(* RunPodSandbox.                                                            *)

(* Its steps, but for the last one of a run that succeeds and of one that fails. *)
RunCalls(p) ==
  \/ EnsureImage(p) \/ ViewSnapshot(p) \/ CreateContainerdContainer(p) \/ CreateRootDir(p)
  \/ SetupSandboxFiles(p) \/ CreateSandboxTask(p) \/ SetUpPod(p) \/ StartSandboxTask(p)
  \/ UndoNetwork(p) \/ UndoMount(p) \/ UndoRootDir(p) \/ UndoContainerdContainer(p) \/ UndoSnapshot(p)

Untouched == UNCHANGED <<names, sandboxes, ctr, owner, nameOf, config, skipped, late, todo>>

(* Where they lead: RunPodSandbox goes on, or comes to its defers. *)
LEMMA RunEffect ==
  ASSUME HandlerType, NEW p \in Procs, RunCalls(p)
  PROVE  /\ pc[p] \in RunPcs /\ Running(p)'
         /\ Steps(p, pc'[p]) /\ HandlerType' /\ Untouched
<1> DEFINE Goal == /\ pc[p] \in RunPcs /\ Running(p)'
                   /\ Steps(p, pc'[p]) /\ HandlerType' /\ Untouched
<1>1. ASSUME NEW to \in RunPcs, pc[p] \in RunPcs, pc' = [pc EXCEPT ![p] = to], arg' = arg,
             done' \subseteq Procs, spent' \in Nat, Untouched, UNCHANGED <<cur, listed, stopping, up>>
      PROVE  Goal
  <2>1. /\ to \in Pcs /\ pc[p] \in Busy /\ pc'[p] = to /\ p \notin undoing
        /\ to \notin {"ctrWait", "get", "kill", "wait", "delete"}
    BY <1>1 DEF HandlerType, Pcs, Busy, RunPcs, KillPcs
  <2>2. Steps(p, to) /\ HandlerType'
    BY <1>1, <2>1, PlainSteps DEF Untouched, stopping
  <2> QED  BY <1>1, <2>1, <2>2 DEF Running
<1>2. ASSUME pc[p] \in RunPcs, pc' = [pc EXCEPT ![p] = "subscribe"], arg' = arg, undoing' = undoing \cup {p},
             done' \subseteq Procs, spent' \in Nat, Untouched, UNCHANGED <<cur, listed, ears, up>>
      PROVE  Goal
  <2>1. "subscribe" \in Pcs /\ pc[p] \in Busy /\ pc'[p] = "subscribe" /\ "subscribe" \in KillPcs
    BY <1>2 DEF HandlerType, Pcs, Busy, RunPcs, KillPcs
  <2>2. Steps(p, "subscribe")
    BY <1>2 DEF Steps, Untouched
  <2>3. HandlerType'
    BY <1>2, <2>1, <2>2, StepsType DEF HandlerType, Untouched
  <2> QED  BY <1>2, <2>1, <2>2, <2>3 DEF Running
<1>3. ASSUME NEW from \in RunPcs, NEW out, NEW a \in RunPcs, NEW b \in RunPcs,
             Calls(p, from, out, a, b) \/ CallsLocal(p, from, out, a, b),
             Untouched, UNCHANGED <<cur, listed, stopping, up>>
      PROVE  Goal
  BY <1>1, <1>3, CallFacts, ZenonT(90)
<1> SUFFICES Goal  OBVIOUS
<1> HIDE DEF Goal
<1>4. CASE EnsureImage(p)
  <2>1. PICK out : Calls(p, "image", out, "view", "undoName")
    BY <1>4 DEF EnsureImage
  <2>2. Untouched /\ UNCHANGED <<cur, listed, stopping, up>>
    BY SMT, <1>4 DEF EnsureImage, Untouched, memory, pods, loop, stopping, made, history
  <2> QED  BY <1>3, <2>1, <2>2 DEF RunPcs
<1>5. CASE ViewSnapshot(p)
  <2>1. PICK out : Calls(p, "view", out, "newCtr", "undoName")
    BY <1>5 DEF ViewSnapshot
  <2>2. Untouched /\ UNCHANGED <<cur, listed, stopping, up>>
    BY SMT, <1>5 DEF ViewSnapshot, Untouched, memory, pods, loop, stopping, made, history
  <2> QED  BY <1>3, <2>1, <2>2 DEF RunPcs
<1>6. CASE CreateContainerdContainer(p)
  <2>1. PICK out : Calls(p, "newCtr", out, "mkdir", "undoSnapshot")
    BY <1>6 DEF CreateContainerdContainer
  <2>2. Untouched /\ UNCHANGED <<cur, listed, stopping, up>>
    BY SMT, <1>6 DEF CreateContainerdContainer, Untouched, memory, pods, loop, stopping, made, history
  <2> QED  BY <1>3, <2>1, <2>2 DEF RunPcs
<1>7. CASE CreateRootDir(p)
  <2>1. PICK out : CallsLocal(p, "mkdir", out, "files", "undoCtr")
    BY <1>7 DEF CreateRootDir
  <2>2. Untouched /\ UNCHANGED <<cur, listed, stopping, up>>
    BY SMT, <1>7 DEF CreateRootDir, Untouched, memory, pods, loop, stopping, made, history
  <2> QED  BY <1>3, <2>1, <2>2 DEF RunPcs
<1>8. CASE SetupSandboxFiles(p)
  <2>1. PICK out : CallsLocal(p, "files", out, "newTask", "undoDir")
    BY <1>8 DEF SetupSandboxFiles
  <2>2. Untouched /\ UNCHANGED <<cur, listed, stopping, up>>
    BY SMT, <1>8 DEF SetupSandboxFiles, Untouched, memory, pods, loop, stopping, made, history
  <2> QED  BY <1>3, <2>1, <2>2 DEF RunPcs
<1>9. CASE CreateSandboxTask(p)
  <2>1. PICK out : Calls(p, "newTask", out, "setUp", "undoMount")
    BY <1>9 DEF CreateSandboxTask
  <2>2. Untouched /\ UNCHANGED <<cur, listed, stopping, up>>
    BY SMT, <1>9 DEF CreateSandboxTask, Untouched, memory, pods, loop, stopping, made, history
  <2> QED  BY <1>3, <2>1, <2>2 DEF RunPcs
<1>10. CASE StartSandboxTask(p)
  <2>1. PICK out : Calls(p, "runTask", out, "add", "undoNet")
    BY <1>10 DEF StartSandboxTask
  <2>2. Untouched /\ UNCHANGED <<cur, listed, stopping, up>>
    BY SMT, <1>10 DEF StartSandboxTask, Untouched, memory, pods, loop, stopping, made, history
  <2> QED  BY <1>3, <2>1, <2>2 DEF RunPcs
<1>11. CASE UndoMount(p)
  <2>1. PICK out : CallsLocal(p, "undoMount", out, "undoDir", "undoDir")
    BY <1>11 DEF UndoMount
  <2>2. Untouched /\ UNCHANGED <<cur, listed, stopping, up>>
    BY SMT, <1>11 DEF UndoMount, Untouched, memory, pods, loop, stopping, made, history
  <2> QED  BY <1>3, <2>1, <2>2 DEF RunPcs
<1>12. CASE UndoContainerdContainer(p)
  <2>1. PICK out : Calls(p, "undoCtr", out, "undoSnapshot", "undoSnapshot")
    BY <1>12 DEF UndoContainerdContainer
  <2>2. Untouched /\ UNCHANGED <<cur, listed, stopping, up>>
    BY SMT, <1>12 DEF UndoContainerdContainer, Untouched, memory, pods, loop, stopping, made, history
  <2> QED  BY <1>3, <2>1, <2>2 DEF RunPcs
<1>13. CASE UndoSnapshot(p)
  <2>1. PICK out : Calls(p, "undoSnapshot", out, "undoName", "undoName")
    BY <1>13 DEF UndoSnapshot
  <2>2. Untouched /\ UNCHANGED <<cur, listed, stopping, up>>
    BY SMT, <1>13 DEF UndoSnapshot, Untouched, memory, pods, loop, stopping, made, history
  <2> QED  BY <1>3, <2>1, <2>2 DEF RunPcs
<1>14. CASE SetUpPod(p)
  <2>1. PICK out : CallsLocal(p, "setUp", out, "runTask", "subscribe")
                   /\ undoing' = IF out = "ok" THEN undoing ELSE undoing \cup {p}
    BY <1>14 DEF SetUpPod
  <2>2. Untouched /\ UNCHANGED <<cur, listed, ears, up>>
    BY SMT, <1>14 DEF SetUpPod, Untouched, memory, pods, loop, made, history
  <2>3. /\ pc[p] = "setUp" /\ pc' = [pc EXCEPT ![p] = IF out = "ok" THEN "runTask" ELSE "subscribe"] /\ arg' = arg
        /\ done' \subseteq Procs /\ spent' \in Nat
    BY <2>1, CallFacts
  <2> QED  BY <1>1, <1>2, <2>1, <2>2, <2>3 DEF RunPcs, stopping
<1>15. CASE UndoNetwork(p)
  <2>1. PICK out : CallsLocal(p, "undoNet", out, "subscribe", "subscribe")
                   /\ undoing' = undoing \cup {p}
    BY <1>15 DEF UndoNetwork
  <2>2. Untouched /\ UNCHANGED <<cur, listed, ears, up>>
    BY SMT, <1>15 DEF UndoNetwork, Untouched, memory, pods, loop, made, history
  <2>3. /\ pc[p] = "undoNet" /\ pc' = [pc EXCEPT ![p] = IF out = "ok" THEN "subscribe" ELSE "subscribe"] /\ arg' = arg
        /\ done' \subseteq Procs /\ spent' \in Nat
    BY <2>1, CallFacts
  <2> QED  BY <1>2, <2>1, <2>2, <2>3 DEF RunPcs, stopping
<1>16. CASE UndoRootDir(p)
  <2>1. Untouched /\ UNCHANGED <<cur, listed, stopping, up>>
    BY SMT, <1>16 DEF UndoRootDir, Untouched, memory, pods, loop, stopping, made, history
  <2>2. CASE Fails(p, "undoDir", "undoCtr")
    <3>1. pc[p] = "undoDir" /\ pc' = [pc EXCEPT ![p] = "undoCtr"] /\ arg' = arg /\ done' \subseteq Procs /\ spent' \in Nat
      BY <2>2 DEF Fails, Moves, HandlerType
    <3> QED  BY <1>1, <2>1, <3>1 DEF RunPcs
  <2>3. CASE \E out : CallsLocal(p, "undoDir", out, "undoCtr", "undoCtr")
    BY <1>3, <2>1, <2>3 DEF RunPcs
  <2> QED  BY <1>16, <2>2, <2>3 DEF UndoRootDir
<1> QED
  BY <1>4, <1>5, <1>6, <1>7, <1>8, <1>9, <1>10, <1>11, <1>12, <1>13, <1>14, <1>15, <1>16 DEF RunCalls

(* A step that changes what there is for one id, and for no other. *)
Elsewhere(id) ==
  /\ \A i \in Ids \ {id} :
       /\ (i \in snapshots' <=> i \in snapshots) /\ (i \in ctrs' <=> i \in ctrs)
       /\ (i \in dirs' <=> i \in dirs) /\ (i \in mounts' <=> i \in mounts)
       /\ (i \in network' <=> i \in network) /\ task'[i] = task[i]
  /\ leaked \subseteq leaked' /\ skipped \subseteq skipped'

HasTask(at, id) == at \in {"setUp", "runTask", "add", "undoNet"} => task[id] # "none"

(* What RunPodSandbox makes it undoes when it fails, unless a cleanup fails. *)
LEMMA RunMakes ==
  ASSUME TypeOK, NEW p \in Procs, RunCalls(p),
         arg[p] \in leaked \/ MadeBy(pc[p], arg[p]), HasTask(pc[p], arg[p])
  PROVE  /\ RuntimeType' /\ Elsewhere(arg[p])
         /\ arg[p] \in leaked' \/ MadeBy(pc[p], arg[p])'
         /\ HasTask(pc[p], arg[p])'
<1> DEFINE id == arg[p]
<1>1. id \in Ids /\ HandlerType /\ RuntimeType /\ arg' = arg /\ skipped' = skipped /\ pc \in [Procs -> Pcs]
  BY TypeSplit, RunEffect, BusyArg DEF Busy, Untouched, Steps, HandlerType
<1>2. CASE EnsureImage(p)
  <2>1. PICK out : /\ Calls(p, "image", out, "view", "undoName")
                   /\ UNCHANGED runtime /\ leaked' = leaked
    BY <1>2 DEF EnsureImage
  <2>2. UNCHANGED <<snapshots, ctrs, dirs, mounts, task, network>> /\ killed' = killed
    BY SMT, <1>2 DEF EnsureImage, runtime
  <2> QED  BY SMT, <1>1, <2>1, <2>2, CallFacts DEF RuntimeType, Elsewhere, MadeBy, HasTask, Effective, Leaks, KillPcs
<1>3. CASE ViewSnapshot(p)
  <2>1. PICK out : /\ Calls(p, "view", out, "newCtr", "undoName")
                   /\ snapshots' = (IF Effective(out) THEN snapshots \cup {id} ELSE snapshots) /\ Leaks(id, out = "lost")
    BY <1>3 DEF ViewSnapshot
  <2>2. UNCHANGED <<ctrs, dirs, mounts, task, network>> /\ killed' = killed
    BY SMT, <1>3 DEF ViewSnapshot, runtime
  <2> QED  BY SMT, <1>1, <2>1, <2>2, CallFacts DEF RuntimeType, Elsewhere, MadeBy, HasTask, Effective, Leaks, KillPcs
<1>4. CASE CreateContainerdContainer(p)
  <2>1. PICK out : /\ Calls(p, "newCtr", out, "mkdir", "undoSnapshot")
                   /\ ctrs' = (IF Effective(out) THEN ctrs \cup {id} ELSE ctrs) /\ Leaks(id, out = "lost")
    BY <1>4 DEF CreateContainerdContainer
  <2>2. UNCHANGED <<snapshots, dirs, mounts, task, network>> /\ killed' = killed
    BY SMT, <1>4 DEF CreateContainerdContainer, runtime
  <2> QED  BY SMT, <1>1, <2>1, <2>2, CallFacts DEF RuntimeType, Elsewhere, MadeBy, HasTask, Effective, Leaks, KillPcs
<1>5. CASE CreateRootDir(p)
  <2>1. PICK out : /\ CallsLocal(p, "mkdir", out, "files", "undoCtr")
                   /\ dirs' = (IF Effective(out) THEN dirs \cup {id} ELSE dirs) /\ leaked' = leaked
    BY <1>5 DEF CreateRootDir
  <2>2. UNCHANGED <<snapshots, ctrs, mounts, task, network>> /\ killed' = killed
    BY SMT, <1>5 DEF CreateRootDir, runtime
  <2> QED  BY SMT, <1>1, <2>1, <2>2, CallFacts, LocalFacts DEF RuntimeType, Elsewhere, MadeBy, HasTask, Effective, Leaks, KillPcs
<1>6. CASE SetupSandboxFiles(p)
  <2>1. PICK out : /\ CallsLocal(p, "files", out, "newTask", "undoDir")
                   /\ mounts' \in {mounts, IF out = "ok" THEN mounts \cup {id} ELSE mounts} /\ leaked' = leaked
    BY <1>6 DEF SetupSandboxFiles
  <2>2. UNCHANGED <<snapshots, ctrs, dirs, task, network>> /\ killed' = killed
    BY SMT, <1>6 DEF SetupSandboxFiles, runtime
  <2> QED  BY SMT, <1>1, <2>1, <2>2, CallFacts DEF RuntimeType, Elsewhere, MadeBy, HasTask, Effective, Leaks, KillPcs
<1>7. CASE CreateSandboxTask(p)
  <2>1. PICK out : /\ Calls(p, "newTask", out, "setUp", "undoMount")
                   /\ task' = (IF Effective(out) THEN [task EXCEPT ![id] = "created"] ELSE task) /\ Leaks(id, out = "lost")
    BY <1>7 DEF CreateSandboxTask
  <2>2. UNCHANGED <<snapshots, ctrs, dirs, mounts, network>> /\ killed' = killed
    BY SMT, <1>7 DEF CreateSandboxTask, runtime
  <2> QED  BY SMT, <1>1, <2>1, <2>2, CallFacts DEF RuntimeType, Elsewhere, MadeBy, HasTask, Effective, Leaks, KillPcs
<1>8. CASE SetUpPod(p)
  <2>1. PICK out : /\ CallsLocal(p, "setUp", out, "runTask", "subscribe")
                   /\ network' \in {network, IF out = "ok" THEN network \cup {id} ELSE network} /\ leaked' = leaked
    BY <1>8 DEF SetUpPod
  <2>2. UNCHANGED <<snapshots, ctrs, dirs, mounts, task>> /\ killed' = killed
    BY SMT, <1>8 DEF SetUpPod, runtime
  <2> QED  BY SMT, <1>1, <2>1, <2>2, CallFacts DEF RuntimeType, Elsewhere, MadeBy, HasTask, Effective, Leaks, KillPcs
<1>9. CASE StartSandboxTask(p)
  <2>1. PICK out : /\ Calls(p, "runTask", out, "add", "undoNet")
                   /\ task' = (IF Effective(out) THEN [task EXCEPT ![id] = "running"] ELSE task) /\ leaked' = leaked
    BY <1>9 DEF StartSandboxTask
  <2>2. UNCHANGED <<snapshots, ctrs, dirs, mounts, network>> /\ killed' = killed
    BY SMT, <1>9 DEF StartSandboxTask, runtime
  <2> QED  BY SMT, <1>1, <2>1, <2>2, CallFacts DEF RuntimeType, Elsewhere, MadeBy, HasTask, Effective, Leaks, KillPcs
<1>10. CASE UndoNetwork(p)
  <2>1. PICK out : /\ CallsLocal(p, "undoNet", out, "subscribe", "subscribe")
                   /\ network' = (IF out = "ok" THEN network \ {id} ELSE network) /\ Leaks(id, out # "ok")
    BY <1>10 DEF UndoNetwork
  <2>2. UNCHANGED <<snapshots, ctrs, dirs, mounts, task>> /\ killed' = killed
    BY SMT, <1>10 DEF UndoNetwork, runtime
  <2> QED  BY SMT, <1>1, <2>1, <2>2, CallFacts DEF RuntimeType, Elsewhere, MadeBy, HasTask, Effective, Leaks, KillPcs
<1>11. CASE UndoMount(p)
  <2>1. PICK out : /\ CallsLocal(p, "undoMount", out, "undoDir", "undoDir")
                   /\ mounts' = (IF out = "ok" THEN mounts \ {id} ELSE mounts) /\ Leaks(id, out # "ok")
    BY <1>11 DEF UndoMount
  <2>2. UNCHANGED <<snapshots, ctrs, dirs, task, network>> /\ killed' = killed
    BY SMT, <1>11 DEF UndoMount, runtime
  <2> QED  BY SMT, <1>1, <2>1, <2>2, CallFacts DEF RuntimeType, Elsewhere, MadeBy, HasTask, Effective, Leaks, KillPcs
<1>12. CASE UndoContainerdContainer(p)
  <2>1. PICK out : /\ Calls(p, "undoCtr", out, "undoSnapshot", "undoSnapshot")
                   /\ ctrs' = (IF Effective(out) THEN ctrs \ {id} ELSE ctrs) /\ Leaks(id, out = "refused")
    BY <1>12 DEF UndoContainerdContainer
  <2>2. UNCHANGED <<snapshots, dirs, mounts, task, network>> /\ killed' = killed
    BY SMT, <1>12 DEF UndoContainerdContainer, runtime
  <2> QED  BY SMT, <1>1, <2>1, <2>2, CallFacts DEF RuntimeType, Elsewhere, MadeBy, HasTask, Effective, Leaks, KillPcs
<1>13. CASE UndoSnapshot(p)
  <2>1. PICK out : /\ Calls(p, "undoSnapshot", out, "undoName", "undoName")
                   /\ snapshots' = (IF Effective(out) THEN snapshots \ {id} ELSE snapshots) /\ Leaks(id, out = "refused")
    BY <1>13 DEF UndoSnapshot
  <2>2. UNCHANGED <<ctrs, dirs, mounts, task, network>> /\ killed' = killed
    BY SMT, <1>13 DEF UndoSnapshot, runtime
  <2> QED  BY SMT, <1>1, <2>1, <2>2, CallFacts DEF RuntimeType, Elsewhere, MadeBy, HasTask, Effective, Leaks, KillPcs
<1>14. CASE UndoRootDir(p)
  <2>1. UNCHANGED <<snapshots, ctrs, mounts, task, network>> /\ killed' = killed
    BY SMT, <1>14 DEF UndoRootDir
  <2>2. CASE id \in mounts
    <3>1. Fails(p, "undoDir", "undoCtr") /\ UNCHANGED <<dirs, leaked>>
      BY <1>14, <2>2 DEF UndoRootDir
    <3> QED  BY SMT, <1>1, <2>1, <2>2, <3>1 DEF RuntimeType, Elsewhere, MadeBy, HasTask, Fails, Moves, KillPcs
  <2>3. CASE id \notin mounts
    <3>1. PICK out : /\ CallsLocal(p, "undoDir", out, "undoCtr", "undoCtr")
                     /\ dirs' = (IF out = "ok" THEN dirs \ {id} ELSE dirs) /\ Leaks(id, out # "ok")
      BY <1>14, <2>3 DEF UndoRootDir
    <3> QED  BY SMT, <1>1, <2>1, <2>3, <3>1, CallFacts DEF RuntimeType, Elsewhere, MadeBy, HasTask, Leaks, KillPcs
  <2> QED  BY <2>2, <2>3
<1> QED
  BY <1>2, <1>3, <1>4, <1>5, <1>6, <1>7, <1>8, <1>9, <1>10, <1>11, <1>12, <1>13, <1>14 DEF RunCalls

-----------------------------------------------------------------------------
(* stopSandboxContainer.                                                     *)

KillCalls(p) == Subscribe(p) \/ GetTask(p) \/ KillTask(p) \/ WaitSandbox(p) \/ DeleteTask(p)

Streams == {"closed", "open", "exit", "broken"}

(* A deferred stopSandboxContainer stays in RunPodSandbox, the one of         *)
(* StopPodSandbox returns.                                                    *)
LEMMA KillShape ==
  ASSUME HandlerType, NEW p \in Procs, pc[p] \in KillPcs,
         NEW to \in KillPcs \cup {After(p, "ok"), After(p, "err")}, pc' = [pc EXCEPT ![p] = to],
         UNCHANGED <<arg, up, listed, todo, cur>>, done' \subseteq Procs, spent' \in Nat,
         NEW e \in Streams, ears' = [ears EXCEPT ![p] = e],
         to \in {"get", "kill", "wait", "delete"} => e # "closed", LeavesKill(p)
  PROVE  /\ pc'[p] = to /\ Steps(p, to) /\ HandlerType'
         /\ p \in undoing => Running(p)' /\ to \in KillPcs \cup {"undoMount"}
         /\ p \notin undoing => p \notin undoing' /\ to \in KillPcs \cup Returned
         /\ leaked' = leaked \/ (leaked' = leaked \cup {arg[p]})
         /\ p \in undoing /\ to \notin KillPcs => arg[p] \in leaked' \/ task'[arg[p]] = "none"
<1>1. pc'[p] = to /\ pc[p] \in Busy /\ to \in Pcs
  BY DEF HandlerType, After, Pcs, Busy, RunPcs, Returned
<1>2. undoing' = IF to \in KillPcs THEN undoing ELSE undoing \ {p}
  BY <1>1 DEF LeavesKill
<1>3. ears' \in [Procs -> Streams] /\ ears'[p] = e /\ \A q \in Procs \ {p} : ears'[q] = ears[q]
  BY DEF HandlerType, Streams
<1>4. Steps(p, to)
  BY <1>2, <1>3 DEF Steps
<1>5. to # "ctrWait"
  BY DEF After, KillPcs
<1>6. HandlerType'
  BY <1>1, <1>2, <1>3, <1>4, <1>5, StepsType DEF HandlerType, Streams
<1>7. p \in undoing => Running(p)' /\ to \in KillPcs \cup {"undoMount"}
  BY <1>1, <1>2 DEF Running, After, RunPcs
<1>8. p \notin undoing => p \notin undoing' /\ to \in KillPcs \cup Returned
  BY <1>2 DEF After, Returned
<1>9. /\ leaked' = leaked \/ (leaked' = leaked \cup {arg[p]})
      /\ p \in undoing /\ to \notin KillPcs => arg[p] \in leaked' \/ task'[arg[p]] = "none"
  BY <1>1 DEF LeavesKill, Leaks
<1> QED  BY <1>1, <1>4, <1>6, <1>7, <1>8, <1>9

(* It deletes the task, if anything, and if it succeeds there is none. *)
KillFacts(p) ==
  /\ pc[p] \in KillPcs /\ Steps(p, pc'[p]) /\ HandlerType' /\ Untouched
  /\ p \in undoing => Running(p)' /\ pc'[p] \in KillPcs \cup {"undoMount"}
  /\ p \notin undoing => p \notin undoing' /\ pc'[p] \in KillPcs \cup Returned
  /\ leaked' = leaked \/ (leaked' = leaked \cup {arg[p]})
  /\ p \in undoing /\ pc'[p] \notin KillPcs => arg[p] \in leaked' \/ task'[arg[p]] = "none"
  /\ UNCHANGED <<snapshots, ctrs, dirs, mounts, network>> /\ killed' \subseteq Ids
  /\ task' = task \/ (task' = [task EXCEPT ![arg[p]] = "none"])
  /\ pc'[p] = "ok" => task'[arg[p]] = "none"

LEMMA KillEffect ==
  ASSUME HandlerType, RuntimeType, NEW p \in Procs, KillCalls(p)
  PROVE  KillFacts(p)
<1> DEFINE Same == UNCHANGED <<up, listed, cur, snapshots, ctrs, dirs, mounts, network>> /\ Untouched
           Goes(to) == /\ to \in KillPcs \cup {After(p, "ok"), After(p, "err")}
                       /\ pc' = [pc EXCEPT ![p] = to] /\ arg' = arg /\ done' \subseteq Procs /\ spent' \in Nat
                       /\ LeavesKill(p)
           Hears(to) == \E e \in Streams : /\ ears' = [ears EXCEPT ![p] = e]
                                           /\ to \in {"get", "kill", "wait", "delete"} => e # "closed"
<1>1. ASSUME pc[p] \in KillPcs, NEW to, Goes(to), Hears(to), Same, killed' \subseteq Ids,
             task' = task \/ (task' = [task EXCEPT ![arg[p]] = "none"]), to = "ok" => task'[arg[p]] = "none"
      PROVE  KillFacts(p)
  <2>1. PICK e \in Streams : /\ ears' = [ears EXCEPT ![p] = e]
                             /\ to \in {"get", "kill", "wait", "delete"} => e # "closed"
    BY <1>1
  <2>2. UNCHANGED <<arg, up, listed, todo, cur>>
    BY <1>1 DEF Untouched
  <2>3. /\ pc'[p] = to /\ Steps(p, to) /\ HandlerType'
        /\ p \in undoing => Running(p)' /\ to \in KillPcs \cup {"undoMount"}
        /\ p \notin undoing => p \notin undoing' /\ to \in KillPcs \cup Returned
        /\ leaked' = leaked \/ (leaked' = leaked \cup {arg[p]})
        /\ p \in undoing /\ to \notin KillPcs => arg[p] \in leaked' \/ task'[arg[p]] = "none"
    BY <1>1, <2>1, <2>2, KillShape
  <2> QED  BY <1>1, <2>3 DEF KillFacts
<1>2. ASSUME NEW to, Goes(to), pc[p] \in {"get", "kill", "wait", "delete"}, Closes(p)
      PROVE  Hears(to) /\ pc[p] \in KillPcs
  BY <1>2 DEF HandlerType, Closes, Streams, KillPcs
<1>3. After(p, "err") # "ok" /\ pc \in [Procs -> Pcs]
  BY DEF After, HandlerType
<1>4. CASE Subscribe(p)
  <2>1. PICK out : /\ Calls(p, "subscribe", out, "get", After(p, "err"))
                   /\ ears' = IF out = "ok" THEN [ears EXCEPT ![p] = "open"] ELSE ears
    BY <1>4 DEF Subscribe
  <2> DEFINE to == IF out = "ok" THEN "get" ELSE After(p, "err")
  <2>2. pc[p] = "subscribe" /\ Goes(to)
    BY <1>4, <2>1, CallFacts DEF Subscribe, KillPcs
  <2>3. Hears(to)
    <3>1. CASE out = "ok"
      BY <2>1, <3>1 DEF Streams
    <3>2. CASE out # "ok"
      <4>1. ears' = [ears EXCEPT ![p] = ears[p]] /\ ears[p] \in Streams
        BY <2>1, <3>2 DEF HandlerType, Streams
      <4>2. to \notin {"get", "kill", "wait", "delete"}
        BY <3>2 DEF After
      <4> QED  BY <4>1, <4>2
    <3> QED  BY <3>1, <3>2
  <2>4. Same /\ killed' = killed /\ task' = task
    BY SMT, <1>4 DEF Subscribe, Untouched, memory, pods, loop, made, history
  <2> QED  BY <1>1, <1>3, <2>2, <2>3, <2>4 DEF KillPcs, RuntimeType
<1>5. CASE GetTask(p)
  <2> DEFINE next == CASE task[arg[p]] = "none"    -> After(p, "ok")
                       [] task[arg[p]] = "stopped" -> "delete"
                       [] OTHER                    -> "kill"
  <2>1. PICK out : Calls(p, "get", out, next, After(p, "err"))
    BY <1>5 DEF GetTask
  <2>2. next \in {"delete", "kill"} \/ (next = After(p, "ok") /\ task[arg[p]] = "none")
    <3>1. CASE task[arg[p]] = "none"
      BY <3>1
    <3>2. CASE task[arg[p]] = "stopped"
      BY <3>2
    <3>3. CASE task[arg[p]] \notin {"none", "stopped"}
      BY <3>3
    <3> QED  BY <3>1, <3>2, <3>3
  <2> HIDE DEF next
  <2> DEFINE to == IF out = "ok" THEN next ELSE After(p, "err")
  <2>3. Same /\ killed' = killed /\ task' = task /\ Closes(p) /\ LeavesKill(p)
    BY <1>5 DEF GetTask, Untouched, memory, pods, loop, made, history
  <2>4. pc[p] = "get" /\ Goes(to)
    BY <2>1, <2>2, <2>3, CallFacts, ZenonT(90) DEF KillPcs
  <2>5. to = "ok" => task[arg[p]] = "none"
    BY <1>3, <2>2
  <2> QED  BY <1>1, <1>2, <2>3, <2>4, <2>5 DEF RuntimeType
<1>6. CASE KillTask(p)
  <2>1. PICK out : /\ Calls(p, "kill", out, "wait", After(p, "err"))
                   /\ killed' \in {killed \cup {arg[p]}, killed}
    BY <1>6 DEF KillTask
  <2> DEFINE to == IF out = "ok" THEN "wait" ELSE After(p, "err")
  <2>2. pc[p] = "kill" /\ Goes(to) /\ to # "ok"
    BY <1>3, <1>6, <2>1, CallFacts DEF KillTask, KillPcs
  <2>3. Same /\ task' = task /\ Closes(p)
    BY SMT, <1>6 DEF KillTask, Untouched, memory, pods, loop, made, history
  <2>4. arg[p] \in Ids
    BY <2>2, BusyArg DEF Busy, KillPcs
  <2>5. killed' \subseteq Ids
    BY <2>1, <2>4 DEF RuntimeType
  <2> QED  BY <1>1, <1>2, <2>2, <2>3, <2>5
<1>7. CASE WaitSandbox(p)
  <2>1. PICK to \in {"delete", After(p, "err")} : pc[p] = "wait" /\ pc' = [pc EXCEPT ![p] = to] /\ arg' = arg
    BY <1>7 DEF WaitSandbox, Moves
  <2>2. Same /\ killed' = killed /\ task' = task /\ UNCHANGED <<done, spent>> /\ Closes(p)
    BY SMT, <1>7 DEF WaitSandbox, Untouched, memory, pods, loop, made, history
  <2>3. Goes(to) /\ to # "ok"
    BY <1>3, <1>7, <2>1, <2>2 DEF WaitSandbox, KillPcs, HandlerType
  <2> QED  BY <1>1, <1>2, <2>1, <2>2, <2>3 DEF RuntimeType
<1>8. CASE DeleteTask(p)
  <2>1. PICK out : /\ Calls(p, "delete", out, After(p, "ok"), After(p, "err"))
                   /\ task' = IF Effective(out) THEN [task EXCEPT ![arg[p]] = "none"] ELSE task
    BY <1>8 DEF DeleteTask
  <2> DEFINE to == IF out = "ok" THEN After(p, "ok") ELSE After(p, "err")
  <2>2. pc[p] = "delete" /\ Goes(to)
    BY <1>8, <2>1, CallFacts DEF DeleteTask
  <2>3. Same /\ killed' = killed /\ Closes(p)
    BY SMT, <1>8 DEF DeleteTask, Untouched, memory, pods, loop, made, history
  <2>4. arg[p] \in Ids
    BY <2>2, BusyArg DEF Busy, KillPcs
  <2>5. to = "ok" => task'[arg[p]] = "none"
    BY <1>3, <2>1, <2>4 DEF Effective, RuntimeType
  <2> QED  BY <1>1, <1>2, <2>1, <2>2, <2>3, <2>5 DEF RuntimeType
<1> QED  BY <1>4, <1>5, <1>6, <1>7, <1>8 DEF KillCalls

-----------------------------------------------------------------------------
(* StopPodSandbox up to stopSandboxContainer, and RemovePodSandbox up to the *)
(* store.                                                                    *)

WorkCalls(p) ==
  \/ ListContainers(p) \/ StopNext(p) \/ ContainerStopped(p) \/ ContainerWaitEnds(p)
  \/ StatNetNS(p) \/ TearDownPod(p) \/ UnmountSandboxFiles(p) \/ Unmount(p)
  \/ CheckStopped(p) \/ RemoveSnapshot(p) \/ RemoveNext(p) \/ RemoveRootDir(p)
  \/ DeleteContainerdContainer(p)

WorkPcs == (StopPcs \cup RemovePcs) \ {"rmStore", "rmName"}
WorkTo  == StopPcs \cup {"subscribe", "err"} \cup (RemovePcs \ {"rmName"})

WorkFacts(p) ==
  /\ pc[p] \in WorkPcs /\ pc'[p] \in WorkTo
  /\ p \notin undoing /\ undoing' = undoing
  /\ Steps(p, pc'[p]) /\ HandlerType'
  /\ UNCHANGED <<names, sandboxes, owner, nameOf, config, late>>

(* Where they lead: the handler goes on or fails. *)
LEMMA WorkEffect ==
  ASSUME HandlerType, NEW p \in Procs, WorkCalls(p)
  PROVE  WorkFacts(p)
<1> DEFINE Same == UNCHANGED <<listed, stopping, up, names, sandboxes, owner, nameOf, config, late>>
           Goes(from, to) == /\ pc[p] = from /\ pc' = [pc EXCEPT ![p] = to] /\ arg' = arg
                             /\ done' \subseteq Procs /\ spent' \in Nat
<1>1. ASSUME NEW from \in WorkPcs, NEW to \in WorkTo, Goes(from, to), Same,
             todo' \in [Procs -> SUBSET Ctrs], \A q \in Procs \ {p} : todo'[q] = todo[q],
             cur' \in [Procs -> Ctrs \cup {Nil}], \A q \in Procs \ {p} : cur'[q] = cur[q],
             to = "ctrWait" => cur'[p] # Nil
      PROVE  WorkFacts(p)
  <2>1. /\ to \in Pcs /\ pc[p] \in Busy /\ pc'[p] = to /\ p \notin undoing
        /\ to \notin {"get", "kill", "wait", "delete"}
    BY <1>1 DEF HandlerType, WorkPcs, WorkTo, Pcs, Busy, Returned, StopPcs, RemovePcs, KillPcs
  <2>2. Steps(p, to)
    BY <1>1 DEF Steps, stopping
  <2>3. HandlerType'
    BY <1>1, <2>1, <2>2, StepsType DEF HandlerType, stopping
  <2> QED  BY <1>1, <2>1, <2>2, <2>3 DEF WorkFacts, stopping
<1>2. ASSUME NEW from \in WorkPcs, NEW to \in WorkTo \ {"ctrWait"}, Goes(from, to), Same, UNCHANGED <<todo, cur>>
      PROVE  WorkFacts(p)
  BY <1>1, <1>2 DEF HandlerType
<1>3. ASSUME NEW from \in WorkPcs, NEW out, NEW a \in WorkTo \ {"ctrWait"}, NEW b \in WorkTo \ {"ctrWait"},
             Calls(p, from, out, a, b) \/ CallsLocal(p, from, out, a, b), Same, UNCHANGED <<todo, cur>>
      PROVE  WorkFacts(p)
  <2>1. Goes(from, IF out = "ok" THEN a ELSE b)
    BY <1>3, CallFacts
  <2> QED  BY <1>2, <1>3, <2>1
<1>4. ASSUME NEW from, NEW to, Fails(p, from, to) PROVE Goes(from, to)
  BY <1>4 DEF Fails, Moves, HandlerType
<1>5. ASSUME NEW from, NEW to, Moves(p, from, to), UNCHANGED <<done, spent>> PROVE Goes(from, to)
  BY <1>5 DEF Moves, HandlerType
<1>6. CASE ListContainers(p)
  <2>1. Same /\ UNCHANGED <<cur, done, spent>> /\ todo' = [todo EXCEPT ![p] = Containers(arg[p])]
    BY <1>6 DEF ListContainers, memory, stopping, pods, made, history
  <2>2. todo' \in [Procs -> SUBSET Ctrs] /\ \A q \in Procs \ {p} : todo'[q] = todo[q]
    BY <2>1 DEF HandlerType, Containers
  <2>3. Goes("list", "stopCtrs") \/ Goes("rmList", "rmCtrs")
    BY <1>5, <1>6, <2>1 DEF ListContainers
  <2> QED  BY <1>1, <2>1, <2>2, <2>3 DEF HandlerType, WorkPcs, WorkTo, StopPcs, RemovePcs
<1>7. CASE StopNext(p)
  <2>1. PICK c \in todo[p] :
          /\ todo' = [todo EXCEPT ![p] = @ \ {c}]
          /\ \/ (\E out : Calls(p, "stopCtrs", out, "ctrWait", "err")) /\ cur' = [cur EXCEPT ![p] = c]
             \/ Moves(p, "stopCtrs", "stopCtrs") /\ UNCHANGED <<cur, done, spent>>
    BY <1>7 DEF StopNext
  <2>2. Same
    BY <1>7 DEF StopNext, memory, stopping, pods, made, history
  <2>3. todo' \in [Procs -> SUBSET Ctrs] /\ (\A q \in Procs \ {p} : todo'[q] = todo[q]) /\ c \in Ctrs /\ c # Nil
    BY <2>1, CtrAssumption DEF HandlerType
  <2>4. CASE \E out : Calls(p, "stopCtrs", out, "ctrWait", "err") /\ cur' = [cur EXCEPT ![p] = c]
    <3>1. Goes("stopCtrs", "ctrWait") \/ Goes("stopCtrs", "err")
      BY <2>4, CallFacts
    <3>2. cur' \in [Procs -> Ctrs \cup {Nil}] /\ cur'[p] = c /\ \A q \in Procs \ {p} : cur'[q] = cur[q]
      BY <2>3, <2>4 DEF HandlerType
    <3> QED  BY <1>1, <2>2, <2>3, <3>1, <3>2 DEF WorkPcs, WorkTo, StopPcs
  <2>5. CASE Moves(p, "stopCtrs", "stopCtrs") /\ UNCHANGED <<cur, done, spent>>
    <3>1. Goes("stopCtrs", "stopCtrs")
      BY <1>5, <2>5
    <3> QED  BY <1>1, <2>2, <2>3, <2>5, <3>1 DEF HandlerType, WorkPcs, WorkTo, StopPcs
  <2> QED  BY <2>1, <2>4, <2>5
<1>8. CASE ContainerStopped(p) \/ ContainerWaitEnds(p)
  <2>1. Same /\ UNCHANGED <<todo, cur, done, spent>>
    BY <1>8 DEF ContainerStopped, ContainerWaitEnds, memory, stopping, pods, made, history, loop
  <2>2. Goes("ctrWait", "stopCtrs") \/ Goes("ctrWait", "err")
    BY <1>5, <1>8, <2>1 DEF ContainerStopped, ContainerWaitEnds
  <2> QED  BY <1>2, <2>1, <2>2 DEF WorkPcs, WorkTo, StopPcs
<1>9. CASE StatNetNS(p)
  <2>1. PICK out : CallsLocal(p, "stopCtrs", out, IF Alive(arg[p]) THEN "tearDown" ELSE "unmount", "err")
    BY <1>9 DEF StatNetNS
  <2>2. Same /\ UNCHANGED <<todo, cur>>
    BY <1>9 DEF StatNetNS, memory, stopping, pods, made, loop
  <2> QED  BY <1>3, <2>1, <2>2 DEF WorkPcs, WorkTo, StopPcs
<1>10. CASE TearDownPod(p)
  <2>1. Same /\ UNCHANGED <<todo, cur>>
    BY <1>10 DEF TearDownPod, memory, stopping, pods, made, loop, history
  <2>2. (\E out : CallsLocal(p, "tearDown", out, "unmount", "err")) \/ Goes("tearDown", "err")
    BY <1>4, <1>10 DEF TearDownPod
  <2> QED  BY <1>2, <1>3, <2>1, <2>2 DEF WorkPcs, WorkTo, StopPcs
<1>11. CASE UnmountSandboxFiles(p)
  <2>1. PICK out : CallsLocal(p, "unmount", out, IF arg[p] \in mounts THEN "umount" ELSE "subscribe", "err")
    BY <1>11 DEF UnmountSandboxFiles
  <2>2. Same /\ UNCHANGED <<todo, cur>>
    BY <1>11 DEF UnmountSandboxFiles, memory, stopping, pods, made, loop, history
  <2> QED  BY <1>3, <2>1, <2>2 DEF WorkPcs, WorkTo, StopPcs
<1>12. CASE Unmount(p)
  <2>1. Same /\ UNCHANGED <<todo, cur>>
    BY <1>12 DEF Unmount, memory, stopping, pods, made, loop, history
  <2>2. (\E out : CallsLocal(p, "umount", out, "subscribe", "err")) \/ Goes("umount", "err")
    BY <1>4, <1>12 DEF Unmount
  <2> QED  BY <1>2, <1>3, <2>1, <2>2 DEF WorkPcs, WorkTo, StopPcs
<1>13. CASE CheckStopped(p)
  <2>1. PICK out : Calls(p, "rmCheck", out, IF task[arg[p]] = "none" THEN "rmSnapshot" ELSE "err", "err")
    BY <1>13 DEF CheckStopped
  <2>2. Same /\ UNCHANGED <<todo, cur>>
    BY <1>13 DEF CheckStopped, memory, stopping, pods, made, loop, history
  <2> QED  BY <1>3, <2>1, <2>2 DEF WorkPcs, WorkTo, RemovePcs
<1>14. CASE RemoveSnapshot(p)
  <2>1. PICK out : Calls(p, "rmSnapshot", out, "rmList", "err")
    BY <1>14 DEF RemoveSnapshot
  <2>2. Same /\ UNCHANGED <<todo, cur>>
    BY <1>14 DEF RemoveSnapshot, memory, stopping, pods, made, loop, history
  <2> QED  BY <1>3, <2>1, <2>2 DEF WorkPcs, WorkTo, RemovePcs
<1>15. CASE RemoveNext(p)
  <2>1. PICK c \in todo[p] :
          /\ todo' = [todo EXCEPT ![p] = @ \ {c}]
          /\ \/ \E out : Calls(p, "rmCtrs", out, "rmCtrs", "err")
             \/ Fails(p, "rmCtrs", "err")
             \/ Moves(p, "rmCtrs", "rmCtrs") /\ UNCHANGED <<done, spent>>
    BY <1>15 DEF RemoveNext
  <2>2. Same /\ cur' = cur
    BY <1>15 DEF RemoveNext, memory, stopping, made, history
  <2>3. todo' \in [Procs -> SUBSET Ctrs] /\ \A q \in Procs \ {p} : todo'[q] = todo[q]
    BY <2>1 DEF HandlerType
  <2>4. Goes("rmCtrs", "rmCtrs") \/ Goes("rmCtrs", "err")
    BY <1>4, <1>5, <2>1, CallFacts
  <2> QED  BY <1>1, <2>2, <2>3, <2>4 DEF HandlerType, WorkPcs, WorkTo, RemovePcs
<1>16. CASE RemoveRootDir(p)
  <2>1. Same /\ UNCHANGED <<todo, cur>>
    BY <1>16 DEF RemoveRootDir, memory, stopping, pods, made, loop, history
  <2>2. (\E out : CallsLocal(p, "rmCtrs", out, "rmCtr", "err")) \/ Goes("rmCtrs", "err")
    BY <1>4, <1>16 DEF RemoveRootDir
  <2> QED  BY <1>2, <1>3, <2>1, <2>2 DEF WorkPcs, WorkTo, RemovePcs
<1>17. CASE DeleteContainerdContainer(p)
  <2>1. Same /\ UNCHANGED <<todo, cur>>
    BY <1>17 DEF DeleteContainerdContainer, memory, stopping, pods, made, loop, history
  <2>2. (\E out : Calls(p, "rmCtr", out, "rmStore", "err")) \/ Goes("rmCtr", "err")
    BY <1>4, <1>17 DEF DeleteContainerdContainer
  <2> QED  BY <1>2, <1>3, <2>1, <2>2 DEF WorkPcs, WorkTo, RemovePcs
<1> QED
  BY <1>6, <1>7, <1>8, <1>9, <1>10, <1>11, <1>12, <1>13, <1>14, <1>15, <1>16, <1>17 DEF WorkCalls

(* What they take away stays away. *)
TakeFacts(p) ==
  /\ UNCHANGED <<task, killed, leaked>> /\ RuntimeType' /\ Elsewhere(arg[p])
  /\ snapshots' \subseteq snapshots /\ ctrs' \subseteq ctrs /\ dirs' \subseteq dirs
  /\ mounts' \subseteq mounts /\ network' \subseteq network
  /\ pc'[p] # "err" => GoneFor(pc[p], arg[p])'

LEMMA WorkTakes ==
  ASSUME TypeOK, NEW p \in Procs, WorkCalls(p), GoneFor(pc[p], arg[p])
  PROVE  TakeFacts(p)
<1> DEFINE id == arg[p]
           Rest == UNCHANGED <<task, killed, leaked>>
<1>1. /\ id \in Ids /\ HandlerType /\ RuntimeType /\ arg' = arg /\ pc'[p] \in WorkTo
      /\ pc \in [Procs -> Pcs]
  BY TypeSplit, WorkEffect, BusyArg DEF WorkFacts, WorkPcs, Busy, Steps, HandlerType
<1>2. ASSUME UNCHANGED runtime, leaked' = leaked, skipped \subseteq skipped', skipped' \subseteq Ids,
             pc'[p] # "err" => GoneFor(pc[p], arg[p])'
      PROVE  TakeFacts(p)
  BY SMT, <1>1, <1>2 DEF TakeFacts, runtime, RuntimeType, Elsewhere
<1>3. ASSUME NEW from, NEW to, pc[p] = from, pc' = [pc EXCEPT ![p] = to], UNCHANGED runtime, UNCHANGED <<leaked, skipped>>,
             \/ to = "err"
             \/ from \in StopPcs \ {"unmount", "umount"} /\ to \in StopPcs \ {"unmount", "umount"}
             \/ from = "rmList" /\ to = "rmCtrs"
             \/ from = "rmCtrs" /\ to = "rmCtrs"
             \/ from = "unmount" /\ to = "umount"
             \/ from = "unmount" /\ to = "subscribe" /\ id \notin mounts
             \/ from = "rmCheck" /\ to = "rmSnapshot" /\ task[id] = "none"
      PROVE  TakeFacts(p)
  <2>1. to # "err" => GoneFor(to, id)'
    BY SMT, <1>1, <1>3 DEF GoneFor, StopPcs, KillPcs, RemovePcs, runtime
  <2> QED  BY <1>1, <1>2, <1>3, <2>1 DEF RuntimeType
<1>fails. ASSUME NEW from, NEW to, Fails(p, from, to) \/ Moves(p, from, to)
       PROVE  pc[p] = from /\ pc'[p] = to /\ pc' = [pc EXCEPT ![p] = to]
  BY <1>1, <1>fails DEF Fails, Moves
<1>calls. ASSUME NEW from, NEW out, NEW a, NEW b, Calls(p, from, out, a, b) \/ CallsLocal(p, from, out, a, b)
       PROVE  /\ pc[p] = from /\ pc' = [pc EXCEPT ![p] = IF out = "ok" THEN a ELSE b]
              /\ out = "ok" => pc'[p] = a
              /\ out # "ok" => pc'[p] = b
  <2>1. pc[p] = from /\ pc' = [pc EXCEPT ![p] = IF out = "ok" THEN a ELSE b]
    BY <1>1, <1>calls, CallFacts
  <2> QED  BY <1>1, <2>1
<1>4. CASE ListContainers(p)
  <2>1. UNCHANGED <<runtime, leaked, skipped>>
    BY <1>4 DEF ListContainers, history
  <2> QED  BY <1>3, <1>4, <2>1 DEF ListContainers, Moves, StopPcs
<1>5. CASE StopNext(p)
  <2>1. UNCHANGED <<runtime, leaked, skipped>>
    BY <1>5 DEF StopNext, history
  <2>2. \E to \in {"stopCtrs", "ctrWait", "err"} : pc[p] = "stopCtrs" /\ pc' = [pc EXCEPT ![p] = to]
    BY SMT, <1>5, <1>fails, <1>calls DEF StopNext
  <2> QED  BY <1>3, <2>1, <2>2 DEF StopPcs
<1>6. CASE ContainerStopped(p) \/ ContainerWaitEnds(p)
  <2>1. UNCHANGED <<runtime, leaked, skipped>>
    BY <1>6 DEF ContainerStopped, ContainerWaitEnds, history
  <2> QED  BY <1>3, <1>6, <2>1 DEF ContainerStopped, ContainerWaitEnds, Moves, StopPcs
<1>7. CASE StatNetNS(p)
  <2>1. PICK out : CallsLocal(p, "stopCtrs", out, IF Alive(id) THEN "tearDown" ELSE "unmount", "err")
    BY <1>7 DEF StatNetNS
  <2>2. /\ skipped' = IF pc'[p] = "unmount" /\ id \in network THEN skipped \cup {id} ELSE skipped
        /\ UNCHANGED <<runtime, leaked>>
    BY <1>7 DEF StatNetNS
  <2>3. pc'[p] \in {"tearDown", "unmount", "err"}
    BY <1>calls, <2>1
  <2>4. pc'[p] # "err" => GoneFor(pc[p], id)'
    BY SMT, <1>1, <2>2, <2>3 DEF GoneFor, KillPcs, RemovePcs, runtime
  <2>5. skipped \subseteq skipped' /\ skipped' \subseteq Ids
    BY <1>1, <2>2 DEF RuntimeType
  <2> QED  BY <1>2, <2>2, <2>4, <2>5
<1>8. CASE TearDownPod(p)
  <2>1. UNCHANGED <<snapshots, ctrs, dirs, mounts, task, killed, skipped, leaked>>
    BY <1>8 DEF TearDownPod, history
  <2>2. /\ pc'[p] \in {"unmount", "err"} /\ network' \in {network, network \ {id}}
        /\ pc'[p] = "unmount" => network' = network \ {id}
    <3>1. CASE \E out : /\ CallsLocal(p, "tearDown", out, "unmount", "err")
                        /\ network' = IF out = "ok" THEN network \ {id} ELSE network
      BY SMT, <1>calls, <3>1
    <3>2. CASE Fails(p, "tearDown", "err") /\ UNCHANGED network
      BY SMT, <1>fails, <3>2
    <3> QED  BY <1>8, <3>1, <3>2 DEF TearDownPod
  <2> QED  BY SMT, <1>1, <2>1, <2>2 DEF TakeFacts, RuntimeType, Elsewhere, GoneFor, KillPcs, RemovePcs
<1>9. CASE UnmountSandboxFiles(p)
  <2>1. PICK out : CallsLocal(p, "unmount", out, IF id \in mounts THEN "umount" ELSE "subscribe", "err")
    BY <1>9 DEF UnmountSandboxFiles
  <2>2. UNCHANGED <<runtime, leaked, skipped>>
    BY <1>9 DEF UnmountSandboxFiles, history
  <2>3. pc[p] = "unmount" /\ pc' = [pc EXCEPT ![p] = IF out = "ok" THEN (IF id \in mounts THEN "umount" ELSE "subscribe") ELSE "err"]
    BY <1>1, <2>1, CallFacts
  <2> QED  BY <1>3, <2>2, <2>3
<1>10. CASE Unmount(p)
  <2>1. UNCHANGED <<snapshots, ctrs, dirs, network, task, killed, skipped, leaked>>
    BY <1>10 DEF Unmount, history
  <2>2. /\ pc[p] = "umount" /\ pc'[p] \in {"subscribe", "err"} /\ mounts' \in {mounts, mounts \ {id}}
        /\ pc'[p] = "subscribe" => mounts' = mounts \ {id}
    <3>1. CASE \E out : /\ CallsLocal(p, "umount", out, "subscribe", "err")
                        /\ mounts' = IF out = "ok" THEN mounts \ {id} ELSE mounts
      BY SMT, <1>calls, <3>1
    <3>2. CASE Fails(p, "umount", "err") /\ UNCHANGED mounts
      BY SMT, <1>fails, <3>2
    <3> QED  BY <1>10, <3>1, <3>2 DEF Unmount
  <2> QED  BY SMT, <1>1, <2>1, <2>2 DEF TakeFacts, RuntimeType, Elsewhere, GoneFor, KillPcs, RemovePcs
<1>11. CASE CheckStopped(p)
  <2>1. PICK out : Calls(p, "rmCheck", out, IF task[id] = "none" THEN "rmSnapshot" ELSE "err", "err")
    BY <1>11 DEF CheckStopped
  <2>2. UNCHANGED <<runtime, leaked, skipped>>
    BY <1>11 DEF CheckStopped, history
  <2>3. pc[p] = "rmCheck" /\ pc' = [pc EXCEPT ![p] = IF out = "ok" THEN (IF task[id] = "none" THEN "rmSnapshot" ELSE "err") ELSE "err"]
    BY <1>1, <2>1, CallFacts
  <2> QED  BY <1>3, <2>2, <2>3
<1>12. CASE RemoveSnapshot(p)
  <2>1. UNCHANGED <<network, ctrs, dirs, mounts, task, killed, skipped, leaked>>
    BY <1>12 DEF RemoveSnapshot, history
  <2>2. /\ pc[p] = "rmSnapshot" /\ pc'[p] \in {"rmList", "err"} /\ snapshots' \in {snapshots, snapshots \ {id}}
        /\ pc'[p] = "rmList" => snapshots' = snapshots \ {id}
    <3>1. PICK out : /\ Calls(p, "rmSnapshot", out, "rmList", "err")
                     /\ snapshots' = IF Effective(out) THEN snapshots \ {id} ELSE snapshots
      BY <1>12 DEF RemoveSnapshot
    <3> QED  BY SMT, <1>calls, <3>1 DEF Effective
  <2> QED  BY SMT, <1>1, <2>1, <2>2 DEF TakeFacts, RuntimeType, Elsewhere, GoneFor, KillPcs, RemovePcs
<1>13. CASE RemoveNext(p)
  <2>1. UNCHANGED <<runtime, leaked, skipped>>
    BY <1>13 DEF RemoveNext, history
  <2>2. \E to \in {"rmCtrs", "err"} : pc[p] = "rmCtrs" /\ pc' = [pc EXCEPT ![p] = to]
    BY SMT, <1>13, <1>fails, <1>calls DEF RemoveNext
  <2> QED  BY <1>3, <2>1, <2>2
<1>14. CASE RemoveRootDir(p)
  <2>1. UNCHANGED <<snapshots, ctrs, mounts, network, task, killed, skipped, leaked>>
    BY <1>14 DEF RemoveRootDir, history
  <2>2. /\ pc[p] = "rmCtrs" /\ pc'[p] \in {"rmCtr", "err"} /\ dirs' \in {dirs, dirs \ {id}}
        /\ pc'[p] = "rmCtr" => dirs' = dirs \ {id} /\ id \notin mounts
    <3>1. CASE \E out : /\ CallsLocal(p, "rmCtrs", out, "rmCtr", "err") /\ id \notin mounts
                        /\ dirs' = IF out = "ok" THEN dirs \ {id} ELSE dirs
      BY SMT, <1>calls, <3>1
    <3>2. CASE Fails(p, "rmCtrs", "err") /\ UNCHANGED dirs
      BY SMT, <1>fails, <3>2
    <3> QED  BY <1>14, <3>1, <3>2 DEF RemoveRootDir
  <2> QED  BY SMT, <1>1, <2>1, <2>2 DEF TakeFacts, RuntimeType, Elsewhere, GoneFor, KillPcs, RemovePcs
<1>15. CASE DeleteContainerdContainer(p)
  <2>1. UNCHANGED <<snapshots, dirs, mounts, network, task, killed, skipped, leaked>>
    BY <1>15 DEF DeleteContainerdContainer, history
  <2>2. /\ pc[p] = "rmCtr" /\ pc'[p] \in {"rmStore", "err"} /\ ctrs' \in {ctrs, ctrs \ {id}}
        /\ pc'[p] = "rmStore" => ctrs' = ctrs \ {id}
    <3>1. CASE \E out : /\ Calls(p, "rmCtr", out, "rmStore", "err")
                        /\ ctrs' = IF Effective(out) THEN ctrs \ {id} ELSE ctrs
      BY SMT, <1>calls, <3>1 DEF Effective
    <3>2. CASE Fails(p, "rmCtr", "err") /\ UNCHANGED ctrs
      BY SMT, <1>fails, <3>2
    <3> QED  BY <1>15, <3>1, <3>2 DEF DeleteContainerdContainer
  <2> QED  BY SMT, <1>1, <2>1, <2>2 DEF TakeFacts, RuntimeType, Elsewhere, GoneFor, KillPcs, RemovePcs
<1> QED
  BY <1>4, <1>5, <1>6, <1>7, <1>8, <1>9, <1>10, <1>11, <1>12, <1>13, <1>14, <1>15 DEF WorkCalls

(* They remove no container but those that were listed, and remove all of     *)
(* these before the root directory.                                           *)
ListFacts(p) ==
  /\ \/ ctr' = ctr
     \/ \E c \in Ctrs : ctr[c] \in {"created", "exited"} /\ ctr' = [ctr EXCEPT ![c] = "removed"]
  /\ pc'[p] = "rmCtrs" =>
       \/ ctr' = ctr /\ todo'[p] = Containers(arg[p])
       \/ pc[p] = "rmCtrs" /\ \E c \in todo[p] : todo'[p] = todo[p] \ {c} /\ ctr'[c] \notin Stored
  /\ pc'[p] \in {"rmCtr", "rmStore", "rmName"} => pc[p] = "rmCtr" \/ (pc[p] = "rmCtrs" /\ todo[p] = {})

LEMMA WorkLists ==
  ASSUME HandlerType, PodType, NEW p \in Procs, WorkCalls(p)
  PROVE  ListFacts(p)
<1>1. pc \in [Procs -> Pcs] /\ todo \in [Procs -> SUBSET Ctrs]
  BY DEF HandlerType
<1>2. ASSUME ctr' = ctr, pc'[p] \notin {"rmCtrs", "rmCtr", "rmStore", "rmName"} PROVE ListFacts(p)
  BY <1>2 DEF ListFacts
<1>calls. ASSUME NEW from, NEW out, NEW a, NEW b, Calls(p, from, out, a, b) \/ CallsLocal(p, from, out, a, b)
          PROVE  pc[p] = from /\ ((pc'[p] = a /\ out = "ok") \/ (pc'[p] = b /\ out # "ok"))
  <2>1. pc[p] = from /\ pc' = [pc EXCEPT ![p] = IF out = "ok" THEN a ELSE b]
    BY <1>calls, CallFacts
  <2> QED  BY <1>1, <2>1
<1>moves. ASSUME NEW from, NEW to, Moves(p, from, to) \/ Fails(p, from, to)
          PROVE  pc[p] = from /\ pc'[p] = to
  BY <1>1, <1>moves DEF Moves, Fails
<1>3. CASE ListContainers(p)
  <2>1. ctr' = ctr /\ todo' = [todo EXCEPT ![p] = Containers(arg[p])]
    BY <1>3 DEF ListContainers, pods
  <2>2. pc'[p] \in {"stopCtrs", "rmCtrs"}
    BY <1>3, <1>moves DEF ListContainers
  <2> QED  BY SMT, <1>1, <2>1, <2>2 DEF ListFacts
<1>4. CASE StopNext(p)
  <2>1. ctr' = ctr
    BY <1>4 DEF StopNext, pods
  <2>2. pc'[p] \in {"stopCtrs", "ctrWait", "err"}
    BY SMT, <1>4, <1>moves, <1>calls DEF StopNext
  <2> QED  BY <1>2, <2>1, <2>2
<1>5. CASE ContainerStopped(p) \/ ContainerWaitEnds(p)
  <2>1. ctr' = ctr
    BY <1>5 DEF ContainerStopped, ContainerWaitEnds, pods
  <2>2. pc'[p] \in {"stopCtrs", "err"}
    BY <1>5, <1>moves DEF ContainerStopped, ContainerWaitEnds
  <2> QED  BY <1>2, <2>1, <2>2
<1>6. CASE StatNetNS(p) \/ TearDownPod(p) \/ UnmountSandboxFiles(p) \/ Unmount(p) \/ CheckStopped(p) \/ RemoveSnapshot(p)
  <2>1. ctr' = ctr
    BY <1>6 DEF StatNetNS, TearDownPod, UnmountSandboxFiles, Unmount, CheckStopped, RemoveSnapshot, pods
  <2>2. pc'[p] \in {"tearDown", "unmount", "umount", "subscribe", "rmSnapshot", "rmList", "err"}
    <3>1. CASE StatNetNS(p)
      BY SMT, <1>calls, <3>1 DEF StatNetNS
    <3>2. CASE TearDownPod(p)
      BY SMT, <1>calls, <1>moves, <3>2 DEF TearDownPod
    <3>3. CASE UnmountSandboxFiles(p)
      BY SMT, <1>calls, <3>3 DEF UnmountSandboxFiles
    <3>4. CASE Unmount(p)
      BY SMT, <1>calls, <1>moves, <3>4 DEF Unmount
    <3>5. CASE CheckStopped(p)
      BY SMT, <1>calls, <3>5 DEF CheckStopped
    <3>6. CASE RemoveSnapshot(p)
      BY SMT, <1>calls, <3>6 DEF RemoveSnapshot
    <3> QED  BY <1>6, <3>1, <3>2, <3>3, <3>4, <3>5, <3>6
  <2> QED  BY <1>2, <2>1, <2>2
<1>7. CASE RemoveNext(p)
  <2>1. PICK c \in todo[p] :
          /\ todo' = [todo EXCEPT ![p] = @ \ {c}]
          /\ \/ /\ ctr[c] \in {"created", "exited"}
                /\ \E out : /\ Calls(p, "rmCtrs", out, "rmCtrs", "err")
                            /\ ctr' = IF out = "ok" THEN [ctr EXCEPT ![c] = "removed"] ELSE ctr
             \/ Fails(p, "rmCtrs", "err") /\ ctr' = ctr
             \/ ctr[c] \notin Stored /\ Moves(p, "rmCtrs", "rmCtrs") /\ ctr' = ctr
    BY <1>7 DEF RemoveNext
  <2>2. c \in Ctrs /\ todo'[p] = todo[p] \ {c}
    BY <1>1, <2>1
  <2>3. CASE /\ ctr[c] \in {"created", "exited"}
             /\ \E out : /\ Calls(p, "rmCtrs", out, "rmCtrs", "err")
                         /\ ctr' = IF out = "ok" THEN [ctr EXCEPT ![c] = "removed"] ELSE ctr
    <3>1. PICK out : /\ Calls(p, "rmCtrs", out, "rmCtrs", "err")
                     /\ ctr' = IF out = "ok" THEN [ctr EXCEPT ![c] = "removed"] ELSE ctr
      BY <2>3
    <3>2. pc[p] = "rmCtrs" /\ ((pc'[p] = "rmCtrs" /\ out = "ok") \/ (pc'[p] = "err" /\ out # "ok"))
      BY <1>calls, <3>1
    <3>3. out = "ok" => ctr'[c] \notin Stored
      BY <2>2, <3>1 DEF Stored, PodType
    <3>4. ctr' = ctr \/ (ctr[c] \in {"created", "exited"} /\ ctr' = [ctr EXCEPT ![c] = "removed"])
      BY <2>3, <3>1
    <3> QED  BY <2>1, <2>2, <3>2, <3>3, <3>4 DEF ListFacts
  <2>4. CASE Fails(p, "rmCtrs", "err") /\ ctr' = ctr
    <3>1. pc'[p] = "err"
      BY <1>moves, <2>4
    <3> QED  BY <1>2, <2>4, <3>1
  <2>5. CASE ctr[c] \notin Stored /\ Moves(p, "rmCtrs", "rmCtrs") /\ ctr' = ctr
    <3>1. pc[p] = "rmCtrs" /\ pc'[p] = "rmCtrs"
      BY <1>moves, <2>5
    <3> QED  BY <2>1, <2>2, <2>5, <3>1 DEF ListFacts
  <2> QED  BY <2>1, <2>3, <2>4, <2>5
<1>8. CASE RemoveRootDir(p)
  <2>1. ctr' = ctr /\ pc[p] = "rmCtrs" /\ todo[p] = {}
    BY <1>8 DEF RemoveRootDir, pods
  <2>2. pc'[p] \in {"rmCtr", "err"}
    BY SMT, <1>calls, <1>moves, <1>8 DEF RemoveRootDir
  <2> QED  BY <2>1, <2>2 DEF ListFacts
<1>9. CASE DeleteContainerdContainer(p)
  <2>1. ctr' = ctr /\ pc[p] = "rmCtr"
    BY <1>9 DEF DeleteContainerdContainer, pods
  <2>2. pc'[p] \in {"rmStore", "err"}
    BY SMT, <1>calls, <1>moves, <1>9 DEF DeleteContainerdContainer
  <2> QED  BY <2>1, <2>2 DEF ListFacts
<1> QED
  BY <1>3, <1>4, <1>5, <1>6, <1>7, <1>8, <1>9 DEF WorkCalls

-----------------------------------------------------------------------------
(* What they keep. *)

(* The calls of the handlers, which leave the stores of cri-containerd alone. *)
Calling(p) == RunCalls(p) \/ KillCalls(p) \/ WorkCalls(p)

(* A RunPodSandbox goes on as one, and nobody else becomes one. *)
CallFrame(p) ==
  /\ pc[p] \in Busy /\ pc'[p] # "rmName" /\ pc'[p] \notin ListPcs
  /\ Steps(p, pc'[p]) /\ HandlerType'
  /\ UNCHANGED <<names, sandboxes, owner, nameOf, config, late>>
  /\ \A q \in Procs : (Running(q)' <=> Running(q)) /\ (Working(q)' => Working(q))
  /\ Running(p) \/ Working(p)
  /\ Running(p) => pc'[p] \in RunPcs \cup KillPcs

LEMMA CallingFrame ==
  ASSUME TypeOK, NEW p \in Procs, Calling(p)
  PROVE  CallFrame(p)
<1>1. HandlerType /\ PodType /\ RuntimeType
  BY TypeSplit
<1>2. ASSUME Steps(p, pc'[p]), NEW q \in Procs, q # p
      PROVE  (Running(q)' <=> Running(q)) /\ (Working(q)' <=> Working(q))
  BY <1>1, <1>2 DEF Steps, Running, Working, HandlerType
<1>3. CASE RunCalls(p)
  <2>1. /\ pc[p] \in RunPcs /\ Running(p)' /\ Steps(p, pc'[p]) /\ HandlerType' /\ Untouched
    BY <1>1, <1>3, RunEffect
  <2>2. Running(p) /\ pc[p] \in Busy /\ ~Working(p)'
    BY <2>1 DEF Running, Working, Busy, RunPcs, StopPcs, KillPcs, RemovePcs
  <2>3. pc'[p] \in RunPcs \cup KillPcs
    BY <2>1 DEF Running, HandlerType
  <2>4. pc'[p] # "rmName" /\ pc'[p] \notin ListPcs
    BY <2>3 DEF RunPcs, KillPcs, ListPcs
  <2> QED  BY <1>2, <2>1, <2>2, <2>3, <2>4 DEF CallFrame, Untouched
<1>4. CASE KillCalls(p)
  <2>1. KillFacts(p)
    BY <1>1, <1>4, KillEffect
  <2>2. pc[p] \in Busy /\ pc[p] \notin RunPcs /\ pc'[p] \in KillPcs \cup {"undoMount"} \cup Returned
    BY <2>1 DEF KillFacts, Busy, KillPcs, RunPcs
  <2>3. pc'[p] # "rmName" /\ pc'[p] \notin ListPcs /\ "undoMount" \in RunPcs
    BY <2>2 DEF KillPcs, ListPcs, Returned, RunPcs
  <2>4. CASE p \in undoing
    <3>1. Running(p) /\ Running(p)' /\ ~Working(p)'
      BY <2>1, <2>4 DEF KillFacts, Running, Working, RunPcs, StopPcs, KillPcs, RemovePcs
    <3> QED  BY <1>2, <2>1, <2>2, <2>3, <2>4, <3>1 DEF CallFrame, KillFacts, Untouched
  <2>5. CASE p \notin undoing
    <3>1. Working(p) /\ ~Running(p) /\ ~Running(p)'
      BY <2>1, <2>2, <2>5 DEF KillFacts, Running, Working, Returned, RunPcs, KillPcs
    <3> QED  BY <1>2, <2>1, <2>2, <2>3, <2>5, <3>1 DEF CallFrame, KillFacts, Untouched
  <2> QED  BY <2>4, <2>5
<1>5. CASE WorkCalls(p)
  <2>1. WorkFacts(p)
    BY <1>1, <1>5, WorkEffect
  <2>2. pc[p] \in Busy /\ pc'[p] # "rmName" /\ pc'[p] \notin ListPcs
    BY <2>1 DEF WorkFacts, WorkPcs, WorkTo, Busy, ListPcs, StopPcs, RemovePcs
  <2>3. Working(p) /\ ~Running(p) /\ ~Running(p)'
    BY <2>1 DEF WorkFacts, WorkPcs, WorkTo, Running, Working, RunPcs, StopPcs, RemovePcs
  <2> QED  BY <1>2, <2>1, <2>2, <2>3 DEF CallFrame, WorkFacts
<1> QED  BY <1>3, <1>4, <1>5 DEF Calling

-----------------------------------------------------------------------------
(* Names: who works on which sandbox.                                        *)

(* A step that leaves the stores alone, and that makes nobody run or stop     *)
(* running a RunPodSandbox.                                                   *)
LEMMA NameFrame ==
  ASSUME NameInv, UNCHANGED <<names, sandboxes, nameOf>>,
         \A q \in Procs : Running(q)' <=> Running(q),
         \A q \in Procs : Running(q) => arg'[q] = arg[q],
         \A q \in Procs : Working(q)' => Known(arg'[q]),
         \A q \in Procs : pc'[q] = "rmName" => arg'[q] \notin sandboxes,
         \A q \in Procs : listed'[q] # {} => pc'[q] \in ListPcs \cup Returned,
         \A q \in Procs : \A id \in listed'[q] : Known(id),
         \A q \in Procs : pc'[q] = "ok" => \A id \in listed'[q] : task'[id] # "running"
  PROVE  NameInv'
<1>1. \A id : Known(id) => Known(id)'
  BY DEF Known
<1>2. FreshInv' /\ NamesHeld'
  BY DEF NameInv, FreshInv, NamesHeld
<1>3. RunInv'
  BY DEF NameInv, RunInv
<1>4. WorkInv'
  BY <1>1 DEF NameInv, WorkInv
<1>5. ListInv' /\ NotReadyIsFinal'
  BY <1>1 DEF ListInv, NotReadyIsFinal
<1> QED  BY <1>2, <1>3, <1>4, <1>5 DEF NameInv

(* A step of nobody, or of one handler that calls. *)
LEMMA NameKept ==
  ASSUME NameInv, UNCHANGED <<names, sandboxes, nameOf, arg, listed>>,
         \A q \in Procs : Running(q)' <=> Running(q),
         \A q \in Procs : Working(q)' => Working(q),
         \A q \in Procs : pc'[q] = "rmName" => pc[q] = "rmName",
         \A q \in Procs : pc'[q] = pc[q] \/ pc[q] \in Busy,
         \A id \in Ids : task'[id] = "running" =>
           task[id] = "running" \/ \E q \in Procs : Running(q) /\ arg[q] = id,
         listed \in [Procs -> SUBSET Ids]
  PROVE  NameInv'
<1>1. \A q \in Procs : pc[q] \in Busy => listed[q] = {}
  BY DEF NameInv, ListInv, Busy, RunPcs, StopPcs, KillPcs, RemovePcs, ListPcs, Returned
<1>2. \A q \in Procs : listed'[q] # {} => pc'[q] \in ListPcs \cup Returned
  BY <1>1 DEF NameInv, ListInv
<1>3. \A q \in Procs : \A id \in listed'[q] : Known(id)
  BY DEF NameInv, ListInv
<1>4. ASSUME NEW q \in Procs, pc'[q] = "ok", NEW id \in listed'[q] PROVE task'[id] # "running"
  <2>1. pc[q] = "ok" /\ id \in listed[q] /\ id \in Ids
    BY <1>1, <1>4
  <2>2. task[id] # "running" /\ \A r \in Procs : Running(r) => arg[r] # id
    BY <1>3, <1>4, <2>1 DEF NameInv, NotReadyIsFinal, Known
  <2> QED  BY <2>1, <2>2
<1>5. \A q \in Procs : Working(q)' => Known(arg'[q])
  BY DEF NameInv, WorkInv
<1>6. \A q \in Procs : pc'[q] = "rmName" => arg'[q] \notin sandboxes
  BY DEF NameInv, WorkInv
<1> QED  BY <1>2, <1>3, <1>4, <1>5, <1>6, NameFrame

(* What a call does to the runtime, as RunMakes, KillEffect and WorkTakes say. *)
LEMMA CallingTask ==
  ASSUME TypeOK, ResourceInv, NEW p \in Procs, Calling(p)
  PROVE  /\ RuntimeType'
         /\ \A id \in Ids : task'[id] = "running" => task[id] = "running" \/ (Running(p) /\ arg[p] = id)
<1>1. HandlerType /\ PodType /\ RuntimeType
  BY TypeSplit
<1>2. CASE RunCalls(p)
  <2>1. Running(p)
    BY <1>1, <1>2, RunEffect DEF Running
  <2>2. RuntimeType' /\ Elsewhere(arg[p])
    BY <1>2, <2>1, RunMakes DEF ResourceInv, MadeInv, HasTask
  <2> QED  BY <2>1, <2>2 DEF Elsewhere
<1>3. CASE KillCalls(p)
  <2>1. KillFacts(p)
    BY <1>1, <1>3, KillEffect
  <2>2. arg[p] \in Ids
    BY <1>1, <2>1, BusyArg DEF KillFacts, Busy
  <2>3. task' \in [Ids -> {"none", "created", "running", "stopped"}] /\ leaked' \subseteq Ids
    BY <1>1, <2>1, <2>2 DEF KillFacts, RuntimeType
  <2>4. RuntimeType'
    BY <1>1, <2>1, <2>3 DEF KillFacts, RuntimeType, Untouched
  <2> QED  BY <1>1, <2>1, <2>2, <2>4 DEF KillFacts, RuntimeType
<1>4. CASE WorkCalls(p)
  <2>1. Working(p) /\ pc[p] \in Busy
    BY <1>1, <1>4, WorkEffect DEF WorkFacts, Working, WorkPcs, Busy
  <2>2. TakeFacts(p)
    BY <1>4, <2>1, WorkTakes DEF ResourceInv, GoneInv
  <2> QED  BY <2>2 DEF TakeFacts
<1> QED  BY <1>2, <1>3, <1>4 DEF Calling

LEMMA CallingNames ==
  ASSUME TypeOK, NameInv, ResourceInv, NEW p \in Procs, Calling(p)
  PROVE  TypeOK' /\ NameInv'
<1>1. HandlerType /\ PodType /\ RuntimeType
  BY TypeSplit
<1>2. CallFrame(p)
  BY CallingFrame
<1>3. /\ RuntimeType'
      /\ \A id \in Ids : task'[id] = "running" => task[id] = "running" \/ (Running(p) /\ arg[p] = id)
  BY CallingTask
<1>4. ctr' \in [Ctrs -> {"absent", "creating", "removed"} \cup Stored]
  <2>1. CASE RunCalls(p)
    BY <1>1, <2>1, RunEffect DEF Untouched, PodType
  <2>2. CASE KillCalls(p)
    BY <1>1, <2>2, KillEffect DEF KillFacts, Untouched, PodType
  <2>3. CASE WorkCalls(p)
    BY <1>1, <2>3, WorkLists DEF ListFacts, PodType
  <2> QED  BY <2>1, <2>2, <2>3 DEF Calling
<1>5. TypeOK'
  <2>1. PodType'
    BY <1>1, <1>2, <1>4 DEF CallFrame, PodType
  <2> QED  BY <1>2, <1>3, <2>1 DEF CallFrame, TypeOK, HandlerType, PodType, RuntimeType
<1>6. \A q \in Procs \ {p} : pc'[q] = pc[q]
  BY <1>1, <1>2 DEF CallFrame, Steps, HandlerType
<1>7. UNCHANGED <<names, sandboxes, nameOf, arg, listed>>
  BY <1>2 DEF CallFrame, Steps
<1>8. NameInv'
  BY <1>1, <1>2, <1>3, <1>6, <1>7, NameKept DEF CallFrame, HandlerType
<1> QED  BY <1>5, <1>8

(* A request arrives at an idle handler, which is nobody until then. *)
LEMMA ArrivesFacts ==
  ASSUME HandlerType, NEW p \in Procs, NEW id \in Ids \cup {Nil}, NEW at \in Pcs, Arrives(p, id, at),
         at \in Busy => id # Nil, at \notin KillPcs \cup {"ctrWait"},
         UNCHANGED <<todo, cur, stopping, up>>, listed' \in [Procs -> SUBSET Ids]
  PROVE  /\ HandlerType' /\ ~Running(p) /\ ~Working(p) /\ p \notin undoing'
         /\ pc'[p] = at /\ arg'[p] = id /\ pc[p] = "idle"
         /\ \A q \in Procs \ {p} : /\ pc'[q] = pc[q] /\ arg'[q] = arg[q]
                                   /\ (Running(q)' <=> Running(q)) /\ (Working(q)' <=> Working(q))
<1>1. pc[p] = "idle" /\ pc' = [pc EXCEPT ![p] = at] /\ arg' = [arg EXCEPT ![p] = id] /\ UNCHANGED <<done, spent>>
  BY DEF Arrives
<1>2. /\ pc'[p] = at /\ arg'[p] = id /\ pc' \in [Procs -> Pcs] /\ arg' \in [Procs -> Ids \cup {Nil}]
      /\ \A q \in Procs \ {p} : pc'[q] = pc[q] /\ arg'[q] = arg[q]
  BY <1>1 DEF HandlerType
<1>3. p \notin undoing /\ undoing' = undoing /\ ears' = ears
  BY <1>1 DEF HandlerType, KillPcs, stopping
<1>4. /\ \A q \in Procs : pc'[q] \in Busy => arg'[q] # Nil
      /\ \A q \in Procs : pc'[q] = "ctrWait" => cur'[q] # Nil
      /\ \A q \in undoing' : pc'[q] \in KillPcs
  BY <1>2, <1>3 DEF HandlerType
<1>5. \A q \in Procs : pc'[q] \in {"get", "kill", "wait", "delete"} => ears'[q] # "closed"
  BY <1>2, <1>3 DEF HandlerType, KillPcs
<1>6. HandlerType'
  BY <1>1, <1>2, <1>3, <1>4, <1>5 DEF HandlerType
<1>7. ~Running(p) /\ ~Working(p)
  BY <1>1, <1>3 DEF Running, Working, RunPcs, StopPcs, KillPcs, RemovePcs
<1>8. \A q \in Procs \ {p} : (Running(q)' <=> Running(q)) /\ (Working(q)' <=> Working(q))
  BY <1>2, <1>3 DEF Running, Working
<1> QED  BY <1>1, <1>2, <1>3, <1>6, <1>7, <1>8

(* RunPodSandbox reserves a name for an id that nothing is known of. *)
LEMMA RunPodSandboxNames ==
  ASSUME TypeOK, NameInv, NEW p \in Procs, RunPodSandbox(p)
  PROVE  TypeOK' /\ NameInv'
<1>1. HandlerType /\ PodType /\ RuntimeType
  BY TypeSplit
<1>2. PICK id \in Ids, n \in Names, cfg \in Configs :
        /\ nameOf[id] = Nil /\ Reservable(names, n, id) /\ Arrives(p, id, "image")
        /\ names' = Reserve(names, n, id)
        /\ nameOf' = [nameOf EXCEPT ![id] = n] /\ config' = [config EXCEPT ![id] = cfg]
  BY DEF RunPodSandbox
<1>3. UNCHANGED <<sandboxes, ctr, owner, todo, cur, listed, stopping, up, snapshots, ctrs, dirs, mounts, task,
                  killed, network, skipped, late, leaked>>
  BY DEF RunPodSandbox, pods, loop, runtime, history
<1>4. Nil \notin Names /\ Nil \notin Ids /\ cfg \in AllConfigs
  BY NilAssumption, ConfigAssumption
<1>5. id \notin sandboxes /\ names.keyToName[id] = Nil
  BY <1>2 DEF NameInv, FreshInv
<1>6. /\ names' \in Registrars(Names, Ids) /\ OneToOne(names)'
      /\ names'.nameToKey = [names.nameToKey EXCEPT ![n] = id]
      /\ names'.keyToName = [names.keyToName EXCEPT ![id] = n]
      /\ names.nameToKey[n] = Nil
  <2>1. OneToOne(names) /\ names \in Registrars(Names, Ids)
    BY <1>1 DEF NameInv, NamesHeld, PodType
  <2> DEFINE r == Reserve(names, n, id)
  <2>2. /\ r \in Registrars(Names, Ids) /\ OneToOne(r)
        /\ r.nameToKey = [names.nameToKey EXCEPT ![n] = id]
        /\ r.keyToName = [names.keyToName EXCEPT ![id] = n]
        /\ names.nameToKey[n] = Nil
    BY SMT, <1>2, <1>4, <1>5, <2>1, ReserveFacts
  <2>3. names' = r
    BY <1>2
  <2> HIDE DEF r
  <2> QED  BY SMT, <2>2, <2>3 DEF OneToOne
<1>7. /\ nameOf \in [Ids -> Names \cup {Nil}] /\ nameOf'[id] = n /\ n # Nil
      /\ \A i \in Ids \ {id} : nameOf'[i] = nameOf[i]
  BY <1>1, <1>2, <1>4 DEF PodType
<1>8. /\ names'.nameToKey[n] = id /\ names'.keyToName[id] = n
      /\ \A m \in Names \ {n} : names'.nameToKey[m] = names.nameToKey[m]
      /\ \A i \in Ids \ {id} : names'.keyToName[i] = names.keyToName[i]
  BY <1>1, <1>6 DEF PodType, Registrars
<1>9. /\ HandlerType' /\ ~Running(p) /\ pc'[p] = "image" /\ arg'[p] = id /\ pc[p] = "idle" /\ p \notin undoing'
      /\ \A q \in Procs \ {p} : /\ pc'[q] = pc[q] /\ arg'[q] = arg[q]
                                /\ (Running(q)' <=> Running(q)) /\ (Working(q)' <=> Working(q))
  <2>1. "image" \in Pcs /\ "image" \notin KillPcs \cup {"ctrWait"} /\ id # Nil /\ listed' \in [Procs -> SUBSET Ids]
    BY <1>1, <1>3, <1>4 DEF Pcs, Busy, RunPcs, KillPcs, HandlerType
  <2> QED  BY <1>1, <1>2, <1>3, <2>1, ArrivesFacts
<1>10. TypeOK'
  <2>1. nameOf' \in [Ids -> Names \cup {Nil}] /\ config' \in [Ids -> AllConfigs \cup {Nil}]
    BY <1>1, <1>2, <1>4 DEF PodType
  <2>2. PodType' /\ RuntimeType'
    BY <1>1, <1>3, <1>6, <2>1 DEF PodType, RuntimeType
  <2> QED  BY <1>9, <2>2 DEF TypeOK, HandlerType, PodType, RuntimeType
<1>11. ASSUME NEW q \in Procs, Running(q) \/ Working(q) PROVE arg[q] \in Ids
  BY <1>1, <1>11, BusyArg DEF Running, Working, Busy, HandlerType
<1>12. Running(p)' /\ ~Working(p)'
  BY <1>9 DEF Running, Working, RunPcs, StopPcs, KillPcs, RemovePcs
<1>13. ASSUME NEW i \in Ids, Known(i) PROVE Known(i)' /\ i # id
  <2>1. i # id
    BY <1>2, <1>13 DEF Known
  <2> QED  BY <1>7, <1>9, <1>13, <2>1 DEF Known
<1>14. ASSUME NEW i \in Ids, nameOf[i] # Nil, names.nameToKey[nameOf[i]] = i
       PROVE  nameOf'[i] = nameOf[i] /\ names'.nameToKey[nameOf[i]] = i
  <2>1. nameOf[i] \in Names /\ nameOf[i] # n /\ i # id
    BY <1>2, <1>4, <1>6, <1>7, <1>14
  <2> QED  BY <1>7, <1>8, <1>14, <2>1
<1>15. FreshInv'
  BY <1>3, <1>7, <1>8 DEF NameInv, FreshInv
<1>16. RunInv'
  <2>1. ASSUME NEW q \in Procs, Running(q)', q # p
        PROVE  arg'[q] = arg[q] /\ arg[q] # id /\ Running(q) /\ arg[q] \in Ids
    <3>1. Running(q) /\ arg'[q] = arg[q]
      BY <1>9, <2>1
    <3>2. nameOf[arg[q]] # Nil
      BY <3>1 DEF NameInv, RunInv
    <3> QED  BY <1>2, <1>11, <3>1, <3>2
  <2>2. ASSUME NEW q \in Procs, Running(q)', q # p
        PROVE  /\ nameOf'[arg'[q]] # Nil /\ names'.nameToKey[nameOf'[arg'[q]]] = arg'[q]
               /\ arg'[q] \notin sandboxes'
    <3>1. nameOf[arg[q]] # Nil /\ names.nameToKey[nameOf[arg[q]]] = arg[q] /\ arg[q] \notin sandboxes
      BY <2>1, <2>2 DEF NameInv, RunInv
    <3> QED  BY <1>3, <1>14, <2>1, <2>2, <3>1
  <2>3. ASSUME NEW q \in Procs, NEW r \in Procs, Running(q)', Running(r)', arg'[q] = arg'[r] PROVE q = r
    <3>1. CASE q = p \/ r = p
      BY <1>9, <2>1, <2>3, <3>1
    <3>2. CASE q # p /\ r # p
      BY <2>1, <2>3, <3>2 DEF NameInv, RunInv
    <3> QED  BY <3>1, <3>2
  <2> QED  BY <1>3, <1>5, <1>7, <1>8, <1>9, <2>2, <2>3 DEF RunInv
<1>17. WorkInv'
  <2>1. \A i \in sandboxes' : Known(i)'
    BY <1>1, <1>3, <1>13 DEF NameInv, WorkInv, PodType
  <2>2. \A q \in Procs : Working(q)' => Known(arg[q])'
    BY <1>9, <1>11, <1>12, <1>13 DEF NameInv, WorkInv
  <2>3. \A q \in Procs : pc'[q] = "rmName" => arg'[q] \notin sandboxes'
    BY <1>3, <1>9 DEF NameInv, WorkInv
  <2> QED  BY <2>1, <2>2, <2>3 DEF WorkInv
<1>18. ListInv' /\ NotReadyIsFinal'
  <2>1. listed[p] = {}
    BY <1>9 DEF NameInv, ListInv, ListPcs, Returned
  <2>2. \A q \in Procs : \A i \in listed[q] : i \in Ids
    BY <1>1 DEF HandlerType
  <2>3. ListInv'
    BY <1>3, <1>9, <1>13, <2>1, <2>2 DEF NameInv, ListInv
  <2> QED  BY <1>3, <1>9, <2>1, <2>3 DEF NameInv, NotReadyIsFinal
<1>19. NamesHeld'
  <2>1. ASSUME NEW i \in sandboxes' PROVE names'.nameToKey[nameOf'[i]] = i
    <3>1. i \in sandboxes /\ i \in Ids /\ nameOf[i] # Nil /\ names.nameToKey[nameOf[i]] = i
      BY <1>1, <1>3, <2>1 DEF NameInv, WorkInv, Known, NamesHeld, PodType
    <3> QED  BY <1>14, <3>1
  <2> QED  BY <1>6, <2>1 DEF NamesHeld
<1> QED  BY <1>10, <1>15, <1>16, <1>17, <1>18, <1>19 DEF NameInv

(* The requests that read the store only. *)
PlainRequest(p) ==
  \/ RunPodSandboxRejected(p) \/ StopPodSandbox(p) \/ RemovePodSandbox(p) \/ ListPodSandbox(p) \/ PodSandboxStatus(p)

RequestTo == {"list", "rmCheck", "tasks", "ok", "err"}

RequestFacts(p) ==
  /\ HandlerType' /\ pc[p] = "idle" /\ pc'[p] \in RequestTo /\ ~Running(p)' /\ ~Running(p)
  /\ pc'[p] \in {"list", "rmCheck"} => arg'[p] \in sandboxes
  /\ listed'[p] # {} => pc'[p] = "tasks" /\ listed'[p] \subseteq sandboxes
  /\ \A q \in Procs \ {p} : /\ pc'[q] = pc[q] /\ arg'[q] = arg[q] /\ listed'[q] = listed[q]
                            /\ (Running(q)' <=> Running(q)) /\ (Working(q)' <=> Working(q))
  /\ UNCHANGED <<memory, pods, todo, cur, stopping, up, made, runtime, history, leaked>>

LEMMA PlainRequestFacts ==
  ASSUME TypeOK, NameInv, NEW p \in Procs, PlainRequest(p)
  PROVE  RequestFacts(p)
<1>1. HandlerType /\ PodType /\ Nil \notin Ids
  BY TypeSplit, NilAssumption
<1>2. UNCHANGED <<memory, pods, todo, cur, stopping, up, made, runtime, history, leaked>>
  BY DEF PlainRequest, RunPodSandboxRejected, StopPodSandbox, RemovePodSandbox, ListPodSandbox, PodSandboxStatus, loop
<1>3. ASSUME NEW id \in Ids \cup {Nil}, NEW at \in RequestTo, Arrives(p, id, at),
             at \in {"list", "rmCheck"} => id \in sandboxes,
             listed' \in [Procs -> SUBSET Ids], \A q \in Procs \ {p} : listed'[q] = listed[q],
             listed'[p] # {} => at = "tasks" /\ listed'[p] \subseteq sandboxes
      PROVE  RequestFacts(p)
  <2>1. at \in Pcs /\ at \notin KillPcs \cup {"ctrWait"} /\ (at \in Busy => at \in {"list", "rmCheck"}) /\ at \notin RunPcs
    BY DEF RequestTo, Pcs, Busy, Returned, ListPcs, RunPcs, StopPcs, KillPcs, RemovePcs
  <2>2. at \in Busy => id # Nil
    BY <1>1, <1>3, <2>1 DEF PodType
  <2>3. UNCHANGED <<todo, cur, stopping, up>>
    BY <1>2
  <2>4. /\ HandlerType' /\ ~Running(p) /\ ~Working(p) /\ p \notin undoing'
        /\ pc'[p] = at /\ arg'[p] = id /\ pc[p] = "idle"
        /\ \A q \in Procs \ {p} : /\ pc'[q] = pc[q] /\ arg'[q] = arg[q]
                                  /\ (Running(q)' <=> Running(q)) /\ (Working(q)' <=> Working(q))
    BY <1>1, <1>3, <2>1, <2>2, <2>3, ArrivesFacts
  <2>5. ~Running(p)'
    BY <2>1, <2>4 DEF Running
  <2> QED  BY <1>2, <1>3, <2>4, <2>5 DEF RequestFacts
<1>4. ASSUME listed' = listed, pc[p] = "idle"
      PROVE  listed' \in [Procs -> SUBSET Ids] /\ listed'[p] = {}
  BY <1>1, <1>4 DEF HandlerType, NameInv, ListInv, ListPcs, Returned
<1>5. CASE RunPodSandboxRejected(p) \/ StopPodSandbox(p) \/ RemovePodSandbox(p)
  <2>1. PICK id \in Ids, at \in RequestTo : Arrives(p, id, at) /\ (at \in {"list", "rmCheck"} => id \in sandboxes)
    BY <1>5 DEF RunPodSandboxRejected, StopPodSandbox, RemovePodSandbox, RequestTo
  <2>2. listed' = listed /\ pc[p] = "idle"
    BY <1>5, <2>1 DEF RunPodSandboxRejected, StopPodSandbox, RemovePodSandbox, loop, Arrives
  <2> QED  BY <1>3, <1>4, <2>1, <2>2
<1>6. CASE ListPodSandbox(p)
  <2>1. Arrives(p, Nil, "tasks") /\ listed' = [listed EXCEPT ![p] = sandboxes]
    BY <1>6 DEF ListPodSandbox
  <2>2. listed' \in [Procs -> SUBSET Ids] /\ listed'[p] = sandboxes /\ \A q \in Procs \ {p} : listed'[q] = listed[q]
    BY <1>1, <2>1 DEF HandlerType, PodType
  <2> QED  BY <1>3, <2>1, <2>2 DEF RequestTo
<1>7. CASE PodSandboxStatus(p)
  <2>1. PICK id \in sandboxes : Arrives(p, id, "tasks") /\ listed' = [listed EXCEPT ![p] = {id}]
    BY <1>7 DEF PodSandboxStatus
  <2>2. /\ id \in Ids /\ listed' \in [Procs -> SUBSET Ids] /\ listed'[p] = {id}
        /\ \A q \in Procs \ {p} : listed'[q] = listed[q]
    BY <1>1, <2>1 DEF HandlerType, PodType
  <2> QED  BY <1>3, <2>1, <2>2 DEF RequestTo
<1> QED  BY <1>5, <1>6, <1>7 DEF PlainRequest

LEMMA PlainRequestNames ==
  ASSUME TypeOK, NameInv, NEW p \in Procs, PlainRequest(p)
  PROVE  TypeOK' /\ NameInv'
<1>1. HandlerType /\ PodType /\ RuntimeType /\ RequestFacts(p)
  BY TypeSplit, PlainRequestFacts
<1>2. UNCHANGED <<names, sandboxes, nameOf, task>>
  BY <1>1 DEF RequestFacts, memory, made, runtime
<1>3. TypeOK'
  <2>1. PodType' /\ RuntimeType'
    BY <1>1 DEF RequestFacts, PodType, RuntimeType, memory, pods, made, runtime, history
  <2> QED  BY <1>1, <2>1 DEF RequestFacts, TypeOK, HandlerType, PodType, RuntimeType
<1>4. /\ \A q \in Procs : Running(q)' <=> Running(q)
      /\ \A q \in Procs : Running(q) => arg'[q] = arg[q]
  BY <1>1 DEF RequestFacts
<1>5. \A q \in Procs : Working(q)' => Known(arg'[q])
  <2>1. Working(p)' => arg'[p] \in sandboxes
    BY <1>1 DEF RequestFacts, Working, RequestTo, StopPcs, KillPcs, RemovePcs
  <2> QED  BY <1>1, <2>1 DEF RequestFacts, NameInv, WorkInv
<1>6. \A q \in Procs : pc'[q] = "rmName" => arg'[q] \notin sandboxes
  BY <1>1 DEF RequestFacts, RequestTo, NameInv, WorkInv
<1>7. /\ \A q \in Procs : listed'[q] # {} => pc'[q] \in ListPcs \cup Returned
      /\ \A q \in Procs : \A id \in listed'[q] : Known(id)
      /\ \A q \in Procs : pc'[q] = "ok" => \A id \in listed'[q] : task'[id] # "running"
  <2>1. listed'[p] # {} => pc'[p] = "tasks" /\ listed'[p] \subseteq sandboxes
    BY <1>1 DEF RequestFacts
  <2>2. ASSUME NEW q \in Procs \ {p} PROVE pc'[q] = pc[q] /\ listed'[q] = listed[q]
    BY <1>1, <2>2 DEF RequestFacts
  <2>3. \A q \in Procs : listed'[q] # {} => pc'[q] \in ListPcs \cup Returned
    BY <2>1, <2>2 DEF NameInv, ListInv, ListPcs
  <2>4. \A q \in Procs : \A id \in listed'[q] : Known(id)
    BY <2>1, <2>2 DEF NameInv, ListInv, WorkInv
  <2>5. \A q \in Procs : pc'[q] = "ok" => \A id \in listed'[q] : task'[id] # "running"
    BY <1>2, <2>1, <2>2 DEF NameInv, NotReadyIsFinal
  <2> QED  BY <2>3, <2>4, <2>5
<1>8. NameInv'
  BY <1>2, <1>4, <1>5, <1>6, <1>7, NameFrame
<1> QED  BY <1>3, <1>8

(* A handler that has listed sandboxes looks at their tasks, or answers. *)
AnswerFacts(p) ==
  /\ HandlerType' /\ pc[p] \in ListPcs \cup Returned /\ pc'[p] \in {"idle"} \cup Returned
  /\ ~Running(p) /\ ~Working(p) /\ ~Running(p)' /\ ~Working(p)'
  /\ listed'[p] \subseteq listed[p] /\ (pc'[p] = "idle" => listed'[p] = {})
  /\ pc'[p] = "ok" => \A id \in listed'[p] : task[id] # "running"
  /\ \A q \in Procs \ {p} : /\ pc'[q] = pc[q] /\ arg'[q] = arg[q] /\ listed'[q] = listed[q] /\ todo'[q] = todo[q]
                            /\ (Running(q)' <=> Running(q)) /\ (Working(q)' <=> Working(q))
  /\ UNCHANGED <<memory, pods, stopping, up, made, runtime, history, leaked>>

LEMMA Answers ==
  ASSUME TypeOK, NEW p \in Procs, ReportStates(p) \/ Respond(p)
  PROVE  AnswerFacts(p)
<1>1. HandlerType
  BY TypeSplit
<1>2. ASSUME NEW to \in {"idle"} \cup Returned, pc[p] \in ListPcs \cup Returned, pc' = [pc EXCEPT ![p] = to],
             NEW x \in Ids \cup {Nil}, arg' = [arg EXCEPT ![p] = x],
             NEW l \in SUBSET listed[p], listed' = [listed EXCEPT ![p] = l],
             to = "idle" => l = {}, to = "ok" => \A id \in l : task[id] # "running",
             todo' \in [Procs -> SUBSET Ctrs], \A q \in Procs \ {p} : todo'[q] = todo[q],
             cur' \in [Procs -> Ctrs \cup {Nil}], \A q \in Procs \ {p} : cur'[q] = cur[q],
             UNCHANGED <<memory, pods, stopping, up, made, runtime, history, leaked>>,
             done' \subseteq Procs, spent' \in Nat
      PROVE  AnswerFacts(p)
  <2>1. /\ to \in Pcs /\ to \notin Busy /\ to \notin {"ctrWait", "get", "kill", "wait", "delete"} \cup RunPcs
        /\ pc[p] \notin Busy /\ pc[p] \notin RunPcs /\ p \notin undoing
    BY <1>1, <1>2 DEF HandlerType, Pcs, Busy, Returned, ListPcs, RunPcs, StopPcs, KillPcs, RemovePcs
  <2>2. /\ pc'[p] = to /\ arg' \in [Procs -> Ids \cup {Nil}] /\ pc' \in [Procs -> Pcs]
        /\ listed' \in [Procs -> SUBSET Ids] /\ listed'[p] = l
        /\ \A q \in Procs \ {p} : pc'[q] = pc[q] /\ arg'[q] = arg[q] /\ listed'[q] = listed[q]
    BY <1>1, <1>2, <2>1 DEF HandlerType
  <2>3. undoing' = undoing /\ ears' = ears
    BY <1>2 DEF stopping
  <2>4. HandlerType'
    <3>1. \A q \in Procs : pc'[q] \in Busy => arg'[q] # Nil
      BY <1>1, <2>1, <2>2 DEF HandlerType
    <3>2. \A q \in Procs : pc'[q] = "ctrWait" => cur'[q] # Nil
      BY <1>1, <1>2, <2>1, <2>2 DEF HandlerType
    <3>3. \A q \in Procs : pc'[q] \in {"get", "kill", "wait", "delete"} => ears'[q] # "closed"
      BY <1>1, <2>1, <2>2, <2>3 DEF HandlerType
    <3>4. \A q \in undoing' : pc'[q] \in KillPcs
      BY <1>1, <2>1, <2>2, <2>3 DEF HandlerType
    <3> QED  BY <1>1, <1>2, <2>2, <2>3, <3>1, <3>2, <3>3, <3>4 DEF HandlerType
  <2>5. ~Running(p) /\ ~Working(p) /\ ~Running(p)' /\ ~Working(p)'
    BY <2>1, <2>2, <2>3 DEF Running, Working, Busy
  <2>6. \A q \in Procs \ {p} : (Running(q)' <=> Running(q)) /\ (Working(q)' <=> Working(q))
    BY <2>2, <2>3 DEF Running, Working
  <2> QED  BY <1>2, <2>2, <2>4, <2>5, <2>6 DEF AnswerFacts
<1>3. CASE ReportStates(p)
  <2>1. PICK out :
          /\ Calls(p, "tasks", out, "ok", "err")
          /\ listed' = [listed EXCEPT ![p] = IF out = "ok" THEN {id \in @ : task[id] # "running"} ELSE {}]
          /\ UNCHANGED <<memory, pods, todo, cur, stopping, up, made, runtime, history, leaked>>
    BY <1>3 DEF ReportStates
  <2> DEFINE to == IF out = "ok" THEN "ok" ELSE "err"
             l  == IF out = "ok" THEN {id \in listed[p] : task[id] # "running"} ELSE {}
  <2>2. pc[p] = "tasks" /\ pc' = [pc EXCEPT ![p] = to] /\ arg' = arg /\ done' \subseteq Procs /\ spent' \in Nat
    BY <1>1, <2>1, CallFacts
  <2>3. listed' = [listed EXCEPT ![p] = l] /\ arg' = [arg EXCEPT ![p] = arg[p]] /\ arg[p] \in Ids \cup {Nil}
    BY <1>1, <2>1, <2>2 DEF HandlerType
  <2>4. to \in {"idle"} \cup Returned /\ to # "idle" /\ (to = "ok" => out = "ok")
    BY DEF Returned
  <2>5. l \in SUBSET listed[p] /\ (to = "ok" => \A id \in l : task[id] # "running")
    BY <2>4
  <2> HIDE DEF to, l
  <2>6. pc[p] \in ListPcs \cup Returned
    BY <2>2 DEF ListPcs
  <2> QED  BY <1>1, <1>2, <2>1, <2>2, <2>3, <2>4, <2>5, <2>6 DEF HandlerType
<1>4. CASE Respond(p)
  <2>1. /\ pc[p] \in Returned /\ pc' = [pc EXCEPT ![p] = "idle"] /\ arg' = [arg EXCEPT ![p] = Nil]
        /\ listed' = [listed EXCEPT ![p] = {}] /\ done' \subseteq Procs /\ spent' \in Nat
        /\ todo' = [todo EXCEPT ![p] = {}] /\ cur' = [cur EXCEPT ![p] = Nil]
        /\ UNCHANGED <<memory, pods, stopping, up, made, runtime, history, leaked>>
    BY <1>1, <1>4 DEF Respond, HandlerType
  <2>2. /\ todo' \in [Procs -> SUBSET Ctrs] /\ \A q \in Procs \ {p} : todo'[q] = todo[q]
        /\ cur' \in [Procs -> Ctrs \cup {Nil}] /\ \A q \in Procs \ {p} : cur'[q] = cur[q]
    BY <1>1, <2>1 DEF HandlerType
  <2>3. "idle" \in {"idle"} \cup Returned /\ Nil \in Ids \cup {Nil} /\ {} \in SUBSET listed[p] /\ "idle" # "ok"
    OBVIOUS
  <2> QED  BY <1>2, <2>1, <2>2, <2>3
<1> QED  BY <1>3, <1>4

LEMMA AnswerNames ==
  ASSUME TypeOK, NameInv, NEW p \in Procs, ReportStates(p) \/ Respond(p)
  PROVE  TypeOK' /\ NameInv'
<1>1. HandlerType /\ PodType /\ RuntimeType /\ AnswerFacts(p)
  BY TypeSplit, Answers
<1>2. UNCHANGED <<names, sandboxes, nameOf, task>>
  BY <1>1 DEF AnswerFacts, memory, made, runtime
<1>3. TypeOK'
  <2>1. PodType' /\ RuntimeType'
    BY <1>1 DEF AnswerFacts, PodType, RuntimeType, memory, pods, made, runtime, history
  <2> QED  BY <1>1, <2>1 DEF AnswerFacts, TypeOK, HandlerType, PodType, RuntimeType
<1>4. /\ \A q \in Procs : Running(q)' <=> Running(q)
      /\ \A q \in Procs : Running(q) => arg'[q] = arg[q]
      /\ \A q \in Procs : Working(q)' => Known(arg'[q])
  BY <1>1 DEF AnswerFacts, NameInv, WorkInv
<1>5. \A q \in Procs : pc'[q] = "rmName" => arg'[q] \notin sandboxes
  BY <1>1 DEF AnswerFacts, Returned, NameInv, WorkInv
<1>6. \A q \in Procs : listed'[q] # {} => pc'[q] \in ListPcs \cup Returned
  BY <1>1 DEF AnswerFacts, NameInv, ListInv
<1>7. \A q \in Procs : \A id \in listed'[q] : Known(id)
  BY <1>1 DEF AnswerFacts, NameInv, ListInv
<1>8. \A q \in Procs : pc'[q] = "ok" => \A id \in listed'[q] : task'[id] # "running"
  BY <1>1, <1>2 DEF AnswerFacts, NameInv, NotReadyIsFinal
<1>9. NameInv'
  BY <1>2, <1>4, <1>5, <1>6, <1>7, <1>8, NameFrame
<1> QED  BY <1>3, <1>9

(* The steps on the stores: one handler moves, the others stay. *)
MoveFacts(p) ==
  /\ HandlerType' /\ pc[p] \in Busy /\ arg[p] \in Ids /\ ~Running(p)'
  /\ UNCHANGED <<arg, listed, todo>> /\ p \notin undoing /\ p \notin undoing'
  /\ \A q \in Procs \ {p} : /\ pc'[q] = pc[q]
                            /\ (Running(q)' <=> Running(q)) /\ (Working(q)' <=> Working(q))

LEMMA MovesFacts ==
  ASSUME HandlerType, NEW p \in Procs, NEW from \in Busy \ KillPcs, NEW to \in {"ok", "err", "rmName"},
         Moves(p, from, to), UNCHANGED <<loop, stopping, up, done, spent>>
  PROVE  MoveFacts(p) /\ pc[p] = from /\ pc'[p] = to
<1>1. pc[p] = from /\ pc' = [pc EXCEPT ![p] = to] /\ arg' = arg
  BY DEF Moves
<1>2. /\ to \in Pcs /\ to \notin RunPcs /\ to \notin {"ctrWait", "get", "kill", "wait", "delete"}
      /\ p \notin undoing /\ arg[p] \in Ids
  BY <1>1, BusyArg DEF HandlerType, Pcs, Returned, Busy, RemovePcs, RunPcs
<1>3. UNCHANGED <<todo, cur, listed, ears, undoing, up>> /\ done' \subseteq Procs /\ spent' \in Nat
  BY DEF loop, stopping, HandlerType
<1>4. HandlerType' /\ Steps(p, to)
  BY <1>1, <1>2, <1>3, PlainSteps
<1>5. pc'[p] = to /\ \A q \in Procs \ {p} : pc'[q] = pc[q]
  BY <1>1 DEF HandlerType
<1>6. ~Running(p)' /\ \A q \in Procs \ {p} : (Running(q)' <=> Running(q)) /\ (Working(q)' <=> Working(q))
  BY <1>2, <1>3, <1>5 DEF Running, Working
<1> QED  BY <1>1, <1>2, <1>3, <1>4, <1>5, <1>6 DEF MoveFacts

(* Nobody but p runs the sandbox of p. *)
Alone(p) == \A q \in Procs \ {p} : Running(q) => arg[q] # arg[p]

LEMMA AloneFacts ==
  ASSUME NameInv, NEW p \in Procs, Running(p) \/ Working(p)
  PROVE  Alone(p) /\ nameOf[arg[p]] # Nil
  BY DEF NameInv, RunInv, WorkInv, Known, Alone

(* RunPodSandbox adds the sandbox to the store and returns. *)
LEMMA AddToStoreNames ==
  ASSUME TypeOK, NameInv, NEW p \in Procs, AddToStore(p)
  PROVE  TypeOK' /\ NameInv' /\ MoveFacts(p) /\ pc[p] = "add"
<1>1. HandlerType /\ PodType /\ RuntimeType
  BY TypeSplit
<1>2. MoveFacts(p) /\ pc[p] = "add" /\ pc'[p] = "ok"
  <2>1. "add" \in Busy \ KillPcs
    BY DEF Busy, RunPcs, KillPcs
  <2> QED  BY <1>1, <2>1, MovesFacts DEF AddToStore
<1>3. /\ sandboxes' = sandboxes \cup {arg[p]}
      /\ UNCHANGED <<names, pods, made, runtime, history, leaked>>
  BY DEF AddToStore
<1>4. Running(p) /\ Alone(p)
  BY <1>2, AloneFacts DEF Running, RunPcs
<1>5. nameOf[arg[p]] # Nil /\ names.nameToKey[nameOf[arg[p]]] = arg[p]
  BY <1>4 DEF NameInv, RunInv
<1>6. UNCHANGED <<nameOf, task, arg, listed>>
  BY <1>2, <1>3 DEF MoveFacts, made, runtime
<1>7. TypeOK'
  <2>1. PodType' /\ RuntimeType'
    BY <1>1, <1>2, <1>3 DEF MoveFacts, PodType, RuntimeType, pods, made, runtime, history
  <2> QED  BY <1>2, <2>1 DEF MoveFacts, TypeOK, HandlerType, PodType, RuntimeType
<1>8. FreshInv' /\ NamesHeld'
  BY <1>3, <1>5, <1>6 DEF NameInv, FreshInv, NamesHeld
<1>9. ASSUME NEW q \in Procs, Running(q)' PROVE q # p /\ Running(q) /\ arg[q] # arg[p]
  BY <1>2, <1>4, <1>9 DEF MoveFacts, Alone
<1>10. RunInv'
  BY <1>3, <1>6, <1>9 DEF NameInv, RunInv
<1>11. \A id : Known(id) \/ id = arg[p] => Known(id)'
  BY <1>5, <1>6, <1>9 DEF Known
<1>12. WorkInv'
  <2>1. \A id \in sandboxes' : Known(id)'
    BY <1>3, <1>11 DEF NameInv, WorkInv
  <2>2. \A q \in Procs : Working(q)' => Known(arg[q])'
    BY <1>2, <1>6, <1>11 DEF MoveFacts, Working, NameInv, WorkInv, StopPcs, KillPcs, RemovePcs
  <2>3. ASSUME NEW q \in Procs, pc'[q] = "rmName" PROVE arg[q] \notin sandboxes'
    <3>1. q # p /\ pc[q] = "rmName" /\ Working(q)
      BY <1>1, <1>2, <2>3 DEF MoveFacts, Working, RemovePcs, HandlerType, KillPcs
    <3>2. arg[q] # arg[p] /\ arg[q] \notin sandboxes
      BY <1>4, <3>1 DEF NameInv, WorkInv, Known
    <3> QED  BY <1>3, <3>2
  <2> QED  BY <1>6, <2>1, <2>2, <2>3 DEF WorkInv
<1>13. ListInv' /\ NotReadyIsFinal'
  <2>1. listed[p] = {}
    BY <1>2 DEF NameInv, ListInv, ListPcs, Returned
  <2> QED  BY <1>2, <1>6, <1>11, <2>1 DEF MoveFacts, NameInv, ListInv, NotReadyIsFinal
<1> QED  BY <1>2, <1>7, <1>8, <1>10, <1>12, <1>13 DEF NameInv

(* A name is released only by who holds it, and for a sandbox that is not in  *)
(* the store.                                                                 *)
LEMMA ReleasedNames ==
  ASSUME TypeOK, NameInv, NEW p \in Procs, MoveFacts(p), Alone(p), pc'[p] \in Returned,
         arg[p] \notin sandboxes, UNCHANGED <<sandboxes, pods, made, runtime, history, leaked>>,
         NEW n \in Names, names.nameToKey[n] = arg[p], names' = Unbind(names, n, arg[p])
  PROVE  TypeOK' /\ NameInv'
<1>1. HandlerType /\ PodType /\ RuntimeType /\ arg[p] \in Ids /\ Nil \notin Names /\ Nil \notin Ids
  BY TypeSplit, NilAssumption DEF MoveFacts
<1>2. /\ names' \in Registrars(Names, Ids) /\ OneToOne(names')
      /\ names'.nameToKey = [names.nameToKey EXCEPT ![n] = Nil]
      /\ names'.keyToName = [names.keyToName EXCEPT ![arg[p]] = Nil]
  <2>1. OneToOne(names) /\ names \in Registrars(Names, Ids)
    BY <1>1 DEF NameInv, NamesHeld, PodType
  <2> QED  BY SMT, <1>1, <2>1, ReleaseFacts
<1>3. /\ \A m \in Names \ {n} : names'.nameToKey[m] = names.nameToKey[m]
      /\ \A i \in Ids : names'.keyToName[i] \in {names.keyToName[i], Nil}
  BY <1>1, <1>2 DEF PodType, Registrars
<1>4. UNCHANGED <<nameOf, task, arg, listed>>
  BY DEF MoveFacts, made, runtime
<1>5. TypeOK'
  <2>1. PodType' /\ RuntimeType'
    BY <1>1, <1>2 DEF PodType, RuntimeType, pods, made, runtime, history
  <2> QED  BY <2>1 DEF MoveFacts, TypeOK, HandlerType, PodType, RuntimeType
<1>6. ASSUME NEW i \in Ids, i # arg[p], nameOf[i] # Nil, names.nameToKey[nameOf[i]] = i
      PROVE  names'.nameToKey[nameOf'[i]] = i
  BY <1>1, <1>3, <1>4, <1>6 DEF PodType
<1>7. FreshInv'
  BY <1>3, <1>4 DEF NameInv, FreshInv
<1>8. ASSUME NEW q \in Procs, Running(q)' PROVE q # p /\ Running(q) /\ arg[q] # arg[p] /\ arg[q] \in Ids
  <2>1. q # p /\ Running(q) /\ arg[q] # arg[p]
    BY <1>8 DEF MoveFacts, Alone
  <2> QED  BY <1>1, <2>1, BusyArg DEF Running, Busy, HandlerType
<1>9. RunInv'
  BY <1>4, <1>6, <1>8 DEF NameInv, RunInv
<1>10. \A id : Known(id) => Known(id)'
  BY <1>4, <1>8 DEF Known
<1>11. WorkInv'
  <2>1. \A id \in sandboxes' : Known(id)'
    BY <1>10 DEF NameInv, WorkInv
  <2>2. \A q \in Procs : Working(q)' => Known(arg[q])'
    BY <1>4, <1>10 DEF MoveFacts, Working, NameInv, WorkInv, StopPcs, KillPcs, RemovePcs, Returned
  <2>3. \A q \in Procs : pc'[q] = "rmName" => arg'[q] \notin sandboxes'
    BY <1>4 DEF MoveFacts, NameInv, WorkInv, Returned
  <2> QED  BY <2>1, <2>2, <2>3 DEF WorkInv
<1>12. ListInv' /\ NotReadyIsFinal'
  <2>1. listed[p] = {}
    BY DEF MoveFacts, NameInv, ListInv, ListPcs, Returned, Busy, RunPcs, StopPcs, KillPcs, RemovePcs
  <2> QED  BY <1>4, <1>10, <2>1 DEF MoveFacts, NameInv, ListInv, NotReadyIsFinal
<1>13. NamesHeld'
  <2>1. ASSUME NEW i \in sandboxes' PROVE names'.nameToKey[nameOf'[i]] = i
    BY <1>1, <1>6, <2>1 DEF NameInv, WorkInv, Known, NamesHeld, PodType
  <2> QED  BY SMT, <1>2, <2>1 DEF NamesHeld, OneToOne
<1> QED  BY <1>5, <1>7, <1>9, <1>11, <1>12, <1>13 DEF NameInv

LEMMA UndoNameNames ==
  ASSUME TypeOK, NameInv, NEW p \in Procs, UndoName(p)
  PROVE  TypeOK' /\ NameInv' /\ MoveFacts(p) /\ pc[p] = "undoName" /\ pc'[p] = "err"
<1>1. HandlerType /\ PodType /\ Nil \notin Ids
  BY TypeSplit, NilAssumption
<1>2. MoveFacts(p) /\ pc[p] = "undoName" /\ pc'[p] = "err"
  <2>1. "undoName" \in Busy \ KillPcs
    BY DEF Busy, RunPcs, KillPcs
  <2> QED  BY <1>1, <2>1, MovesFacts DEF UndoName
<1>3. Running(p) /\ Alone(p)
  BY <1>2, AloneFacts DEF Running, RunPcs
<1>4. /\ nameOf[arg[p]] \in Names /\ names.nameToKey[nameOf[arg[p]]] = arg[p] /\ arg[p] \notin sandboxes
  BY <1>1, <1>2, <1>3 DEF MoveFacts, NameInv, RunInv, PodType
<1>5. names' = Unbind(names, nameOf[arg[p]], arg[p])
  BY <1>1, <1>2, <1>4 DEF UndoName, ReleaseByName, MoveFacts
<1>6. UNCHANGED <<sandboxes, pods, made, runtime, history, leaked>>
  BY DEF UndoName
<1> QED  BY <1>2, <1>3, <1>4, <1>5, <1>6, ReleasedNames DEF Returned

LEMMA DeleteFromStoreNames ==
  ASSUME TypeOK, NameInv, NEW p \in Procs, DeleteFromStore(p)
  PROVE  TypeOK' /\ NameInv' /\ MoveFacts(p) /\ pc[p] = "rmStore" /\ pc'[p] = "rmName"
<1>1. HandlerType /\ PodType /\ RuntimeType
  BY TypeSplit
<1>2. MoveFacts(p) /\ pc[p] = "rmStore" /\ pc'[p] = "rmName"
  <2>1. "rmStore" \in Busy \ KillPcs
    BY DEF Busy, RemovePcs, KillPcs
  <2> QED  BY <1>1, <2>1, MovesFacts DEF DeleteFromStore
<1>3. /\ sandboxes' = sandboxes \ {arg[p]}
      /\ UNCHANGED <<names, pods, made, runtime, history, leaked>>
  BY DEF DeleteFromStore
<1>4. Working(p) /\ ~Running(p)
  BY <1>2 DEF MoveFacts, Working, Running, RunPcs, RemovePcs
<1>5. UNCHANGED <<nameOf, task, arg, listed>>
  BY <1>2, <1>3 DEF MoveFacts, made, runtime
<1>6. TypeOK'
  <2>1. PodType' /\ RuntimeType'
    BY <1>1, <1>3 DEF PodType, RuntimeType, pods, made, runtime, history
  <2> QED  BY <1>2, <2>1 DEF MoveFacts, TypeOK, HandlerType, PodType, RuntimeType
<1>7. \A q \in Procs : Running(q)' <=> Running(q)
  BY <1>2, <1>4 DEF MoveFacts
<1>8. FreshInv' /\ RunInv' /\ NamesHeld'
  BY <1>3, <1>5, <1>7 DEF NameInv, FreshInv, RunInv, NamesHeld
<1>9. \A id : Known(id) => Known(id)'
  BY <1>5, <1>7 DEF Known
<1>10. WorkInv'
  <2>1. \A id \in sandboxes' : Known(id)'
    BY <1>3, <1>9 DEF NameInv, WorkInv
  <2>2. \A q \in Procs : Working(q)' => Known(arg[q])'
    BY <1>2, <1>4, <1>5, <1>9 DEF MoveFacts, NameInv, WorkInv
  <2>3. \A q \in Procs : pc'[q] = "rmName" => arg'[q] \notin sandboxes'
    BY <1>2, <1>3, <1>5 DEF MoveFacts, NameInv, WorkInv
  <2> QED  BY <2>1, <2>2, <2>3 DEF WorkInv
<1>11. ListInv' /\ NotReadyIsFinal'
  <2>1. listed[p] = {}
    BY <1>2 DEF NameInv, ListInv, ListPcs, Returned
  <2> QED  BY <1>2, <1>5, <1>9, <2>1 DEF MoveFacts, NameInv, ListInv, NotReadyIsFinal
<1> QED  BY <1>2, <1>6, <1>8, <1>10, <1>11 DEF NameInv

LEMMA ReleaseNameNames ==
  ASSUME TypeOK, NameInv, NEW p \in Procs, ReleaseName(p)
  PROVE  TypeOK' /\ NameInv' /\ MoveFacts(p) /\ pc[p] = "rmName" /\ pc'[p] = "ok"
<1>1. HandlerType /\ PodType /\ RuntimeType /\ Nil \notin Ids
  BY TypeSplit, NilAssumption
<1>2. MoveFacts(p) /\ pc[p] = "rmName" /\ pc'[p] = "ok"
  <2>1. "rmName" \in Busy \ KillPcs
    BY DEF Busy, RemovePcs, KillPcs
  <2> QED  BY <1>1, <2>1, MovesFacts DEF ReleaseName
<1>3. Working(p) /\ ~Running(p) /\ Alone(p) /\ arg[p] \notin sandboxes
  <2>1. Working(p) /\ ~Running(p)
    BY <1>2 DEF MoveFacts, Working, Running, RunPcs, RemovePcs
  <2> QED  BY <1>2, <2>1, AloneFacts DEF NameInv, WorkInv
<1>4. UNCHANGED <<sandboxes, pods, made, runtime, history, leaked>>
  BY DEF ReleaseName
<1>5. CASE names.keyToName[arg[p]] = Nil
  <2>1. UNCHANGED <<names, sandboxes, nameOf, task, arg, listed>>
    BY <1>2, <1>4, <1>5 DEF ReleaseName, ReleaseByKey, MoveFacts, made, runtime
  <2>2. TypeOK'
    <3>1. PodType' /\ RuntimeType'
      BY <1>1, <1>4, <2>1 DEF PodType, RuntimeType, pods, made, runtime, history
    <3> QED  BY <1>2, <3>1 DEF MoveFacts, TypeOK, HandlerType, PodType, RuntimeType
  <2>3. /\ \A q \in Procs : Running(q)' <=> Running(q)
        /\ \A q \in Procs : Working(q)' => Working(q)
        /\ \A q \in Procs : pc'[q] = "rmName" => pc[q] = "rmName"
        /\ \A q \in Procs : pc'[q] = pc[q] \/ pc[q] \in Busy
    BY <1>2, <1>3 DEF MoveFacts
  <2>4. NameInv'
    BY <1>1, <2>1, <2>3, NameKept DEF HandlerType
  <2> QED  BY <1>2, <2>2, <2>4
<1>6. CASE names.keyToName[arg[p]] # Nil
  <2> DEFINE n == names.keyToName[arg[p]]
  <2>1. n \in Names /\ arg[p] \in Ids
    BY <1>1, <1>2, <1>6 DEF MoveFacts, PodType, Registrars
  <2>2. names.nameToKey[n] = arg[p]
    BY SMT, <1>1, <2>1 DEF NameInv, NamesHeld, OneToOne, PodType, Registrars
  <2>3. names' = Unbind(names, n, arg[p])
    BY <1>6 DEF ReleaseName, ReleaseByKey
  <2> HIDE DEF n
  <2> QED  BY <1>2, <1>3, <1>4, <2>1, <2>2, <2>3, ReleasedNames DEF Returned
<1> QED  BY <1>5, <1>6

(* The containers come and go, and no handler moves. *)
LEMMA ContainerNames ==
  ASSUME TypeOK, NameInv, NEW c \in Ctrs, ContainerStep(c)
  PROVE  /\ TypeOK' /\ NameInv'
         /\ UNCHANGED <<memory, loop, stopping, up, handler, made, runtime, skipped, leaked, spent>>
<1>1. HandlerType /\ PodType /\ RuntimeType
  BY TypeSplit
<1>2. PICK to \in {"absent", "creating", "removed"} \cup Stored :
        /\ ctr' = [ctr EXCEPT ![c] = to]
        /\ UNCHANGED <<memory, loop, stopping, up, handler, made, runtime, skipped, leaked, spent>>
  BY DEF ContainerStep, CreateContainer, EndCreate, StartContainer, EndStart, ContainerExits, RemoveContainer,
         ContainerMoves, Stored
<1>3. owner' \in [Ctrs -> Ids \cup {Nil}] /\ late' \subseteq Ctrs
  BY <1>1 DEF ContainerStep, CreateContainer, EndCreate, StartContainer, EndStart, ContainerExits, RemoveContainer,
         PodType
<1>4. UNCHANGED <<names, sandboxes, nameOf, task, arg, listed, pc, undoing>>
  BY <1>2 DEF memory, loop, stopping, handler, made, runtime
<1>5. TypeOK'
  <2>1. HandlerType' /\ RuntimeType'
    BY <1>1, <1>2 DEF HandlerType, RuntimeType, loop, stopping, handler, runtime
  <2>2. ctr' \in [Ctrs -> {"absent", "creating", "removed"} \cup Stored]
    BY <1>1, <1>2 DEF PodType
  <2>3. PodType'
    BY <1>1, <1>2, <1>3, <2>2 DEF PodType, memory, made
  <2> QED  BY <2>1, <2>3 DEF TypeOK, HandlerType, PodType, RuntimeType
<1>6. \A q \in Procs : (Running(q)' <=> Running(q)) /\ (Working(q)' <=> Working(q))
  BY <1>4 DEF Running, Working
<1>7. NameInv'
  BY <1>1, <1>4, <1>6, NameKept DEF HandlerType
<1> QED  BY <1>2, <1>5, <1>7

(* The sandbox container exits, a stream breaks, a client gives up, or the    *)
(* service is started again.                                                  *)
Disturbs ==
  \/ \E id \in Ids : SandboxExits(id)
  \/ \E p \in Procs : StreamBreaks(p) \/ Cancel(p)
  \/ Restart

DisturbFacts ==
  /\ HandlerType' /\ RuntimeType'
  /\ UNCHANGED <<memory, pods, loop, undoing, pc, arg, made, snapshots, ctrs, dirs, mounts, network, history, leaked>>
  /\ \A id \in Ids : task'[id] = task[id] \/ (task[id] # "none" /\ task'[id] = "stopped")

LEMMA DisturbsFacts ==
  ASSUME TypeOK, Disturbs
  PROVE  DisturbFacts
<1>1. HandlerType /\ RuntimeType
  BY TypeSplit
<1>2. ASSUME NEW id \in Ids, SandboxExits(id) PROVE DisturbFacts
  <2>1. /\ UNCHANGED <<memory, pods, loop, undoing, pc, arg, made, snapshots, ctrs, dirs, mounts, network, history, leaked>>
        /\ UNCHANGED <<up, done, killed>>
    BY <1>2 DEF SandboxExits, handler
  <2>2. task' = [task EXCEPT ![id] = "stopped"] /\ task[id] # "none"
    BY <1>2 DEF SandboxExits, Alive
  <2>3. /\ task' \in [Ids -> {"none", "created", "running", "stopped"}]
        /\ \A i \in Ids : task'[i] = task[i] \/ (task[i] # "none" /\ task'[i] = "stopped")
    BY <1>1, <2>2 DEF RuntimeType
  <2>4. /\ ears' \in [Procs -> {"closed", "open", "exit", "broken"}]
        /\ \A p \in Procs : ears'[p] = "closed" => ears[p] = "closed"
    BY <1>1, <1>2 DEF SandboxExits, HandlerType
  <2>5. spent' \in Nat
    BY SMT, <1>1, <1>2 DEF SandboxExits, Spend, HandlerType
  <2>6. HandlerType'
    BY <1>1, <2>1, <2>4, <2>5 DEF HandlerType, loop
  <2>7. RuntimeType'
    BY <1>1, <2>1, <2>3 DEF RuntimeType, history
  <2> QED  BY <2>1, <2>3, <2>6, <2>7 DEF DisturbFacts
<1>3. ASSUME NEW p \in Procs, StreamBreaks(p) PROVE DisturbFacts
  <2>1. /\ UNCHANGED <<memory, pods, loop, undoing, pc, arg, made, runtime, history, leaked>>
        /\ UNCHANGED <<up, done>>
    BY <1>3 DEF StreamBreaks, handler
  <2>2. /\ ears' \in [Procs -> {"closed", "open", "exit", "broken"}]
        /\ \A q \in Procs : ears'[q] = "closed" => ears[q] = "closed"
    BY <1>1, <1>3 DEF StreamBreaks, HandlerType
  <2>3. spent' \in Nat
    BY SMT, <1>1, <1>3 DEF StreamBreaks, Spend, HandlerType
  <2>4. HandlerType'
    BY <1>1, <2>1, <2>2, <2>3 DEF HandlerType, loop
  <2> QED  BY <1>1, <2>1, <2>4 DEF DisturbFacts, RuntimeType, runtime, history
<1>4. ASSUME NEW p \in Procs, Cancel(p) PROVE DisturbFacts
  <2>1. UNCHANGED <<memory, pods, loop, stopping, up, pc, arg, made, runtime, history, leaked>>
    BY <1>4 DEF Cancel
  <2>2. done' \subseteq Procs
    BY <1>1, <1>4 DEF Cancel, HandlerType
  <2>3. spent' \in Nat
    BY SMT, <1>1, <1>4 DEF Cancel, Spend, HandlerType
  <2>4. HandlerType'
    BY <1>1, <2>1, <2>2, <2>3 DEF HandlerType, loop, stopping
  <2> QED  BY <1>1, <2>1, <2>4 DEF DisturbFacts, RuntimeType, runtime, history, stopping
<1>5. ASSUME Restart PROVE DisturbFacts
  <2>1. UNCHANGED <<memory, pods, loop, stopping, handler, made, runtime, history, leaked, spent>> /\ up' = TRUE
    BY <1>5 DEF Restart
  <2>2. HandlerType'
    BY <1>1, <2>1 DEF HandlerType, loop, stopping, handler
  <2> QED  BY <1>1, <2>1, <2>2 DEF DisturbFacts, RuntimeType, runtime, history, stopping, handler
<1> QED  BY <1>2, <1>3, <1>4, <1>5 DEF Disturbs

LEMMA DisturbNames ==
  ASSUME TypeOK, NameInv, Disturbs
  PROVE  TypeOK' /\ NameInv'
<1>1. HandlerType /\ PodType /\ DisturbFacts
  BY TypeSplit, DisturbsFacts
<1>2. UNCHANGED <<names, sandboxes, nameOf, arg, listed, pc, undoing>>
  BY <1>1 DEF DisturbFacts, memory, made, loop
<1>3. TypeOK'
  <2>1. PodType'
    BY <1>1 DEF DisturbFacts, PodType, memory, pods, made, history
  <2> QED  BY <1>1, <2>1 DEF DisturbFacts, TypeOK, HandlerType, PodType, RuntimeType
<1>4. \A q \in Procs : (Running(q)' <=> Running(q)) /\ (Working(q)' <=> Working(q))
  BY <1>2 DEF Running, Working
<1>5. \A id \in Ids : task'[id] = "running" => task[id] = "running"
  BY <1>1 DEF DisturbFacts
<1>6. NameInv'
  BY <1>1, <1>2, <1>4, <1>5, NameKept DEF HandlerType
<1> QED  BY <1>3, <1>6

(* A crash leaves nothing in memory. *)
LEMMA CrashNames ==
  ASSUME TypeOK, NameInv, Crash
  PROVE  TypeOK' /\ NameInv' /\ \A p \in Procs : ~Running(p)' /\ ~Working(p)'
<1>1. PodType /\ RuntimeType /\ HandlerType
  BY TypeSplit
<1>2. /\ pc' = [p \in Procs |-> "idle"] /\ arg' = [p \in Procs |-> Nil] /\ undoing' = {} /\ sandboxes' = {}
      /\ listed' = [p \in Procs |-> {}] /\ names' = NewRegistrar(Names, Ids) /\ late' = {}
      /\ UNCHANGED <<made, runtime, skipped>> /\ leaked' = leaked \cup {id \in Ids : HasResources(id)}
  BY DEF Crash
<1>3. /\ names' \in Registrars(Names, Ids) /\ names'.keyToName = [id \in Ids |-> Nil]
      /\ names'.nameToKey = [n \in Names |-> Nil]
  BY SMT, <1>2 DEF NewRegistrar, Registrars
<1>4. OneToOne(names)'
  BY SMT, <1>3, NilAssumption DEF OneToOne
<1>5. HandlerType'
  <2>1. spent' \in Nat
    BY SMT, <1>1 DEF Crash, Spend, HandlerType
  <2> QED  BY <1>2, <2>1 DEF Crash, HandlerType, Pcs, Busy, RunPcs, StopPcs, KillPcs, RemovePcs
<1>6. PodType' /\ RuntimeType'
  <2>1. ctr' \in [Ctrs -> {"absent", "creating", "removed"} \cup Stored] /\ owner' \in [Ctrs -> Ids \cup {Nil}]
    BY DEF Crash
  <2> QED  BY <1>1, <1>2, <1>3, <2>1 DEF PodType, RuntimeType, made, runtime
<1>7. TypeOK'
  BY <1>5, <1>6 DEF TypeOK, HandlerType, PodType, RuntimeType
<1>8. \A p \in Procs : ~Running(p)' /\ ~Working(p)' /\ pc'[p] = "idle" /\ listed'[p] = {}
  BY <1>2 DEF Running, Working, RunPcs, StopPcs, KillPcs, RemovePcs
<1>9. FreshInv' /\ NamesHeld'
  BY <1>2, <1>3, <1>4 DEF FreshInv, NamesHeld
<1>10. RunInv' /\ WorkInv' /\ ListInv' /\ NotReadyIsFinal'
  BY <1>2, <1>8 DEF RunInv, WorkInv, ListInv, NotReadyIsFinal
<1> QED  BY <1>7, <1>8, <1>9, <1>10 DEF NameInv

-----------------------------------------------------------------------------
(* Containers: which ones a removal leaves behind.                           *)

LatePcs == {"rmCtr", "rmStore", "rmName"}

(* A step that adds no container to the store. *)
LEMMA LateFrame ==
  ASSUME LateInv, sandboxes \subseteq sandboxes', late \subseteq late',
         \A c \in Ctrs : ctr'[c] \in Stored => ctr[c] \in Stored /\ owner'[c] = owner[c],
         \A q \in Procs : pc'[q] = "rmCtrs" =>
           Containers(arg[q])' \subseteq todo'[q] \/ (pc[q] = "rmCtrs" /\ arg'[q] = arg[q] /\ todo'[q] = todo[q]),
         \A q \in Procs : pc'[q] \in LatePcs => Containers(arg[q])' \subseteq late' \/ (pc[q] \in LatePcs /\ arg'[q] = arg[q])
  PROVE  LateInv'
<1>1. \A q \in Procs : arg'[q] = arg[q] => Containers(arg[q])' \subseteq Containers(arg[q])
  BY DEF Containers
<1>2. \A q \in Procs : pc'[q] = "rmCtrs" => Containers(arg[q])' \subseteq todo'[q] \cup late'
  BY <1>1 DEF LateInv
<1>3. \A q \in Procs : pc'[q] \in LatePcs => Containers(arg[q])' \subseteq late'
  BY <1>1 DEF LateInv, LatePcs
<1>4. OnlyLateContainersOutlive'
  BY DEF LateInv, OnlyLateContainersOutlive
<1> QED  BY <1>2, <1>3, <1>4 DEF LateInv, LatePcs

(* ... and in which no handler goes on with a removal. *)
LEMMA LateKept ==
  ASSUME LateInv, sandboxes \subseteq sandboxes', UNCHANGED <<ctr, owner, late>>, NEW p \in Procs,
         pc'[p] \notin LatePcs \cup {"rmCtrs"},
         \A q \in Procs \ {p} : pc'[q] = pc[q] /\ arg'[q] = arg[q] /\ todo'[q] = todo[q]
  PROVE  LateInv'
  BY LateFrame

LEMMA WorkLate ==
  ASSUME TypeOK, LateInv, NEW p \in Procs, WorkCalls(p)
  PROVE  LateInv'
<1>1. HandlerType /\ PodType /\ WorkFacts(p) /\ ListFacts(p)
  BY TypeSplit, WorkEffect, WorkLists
<1>2. UNCHANGED <<arg, sandboxes, owner, late>> /\ \A q \in Procs \ {p} : pc'[q] = pc[q] /\ todo'[q] = todo[q]
  BY <1>1 DEF WorkFacts, Steps, HandlerType
<1>3. \A c \in Ctrs : ctr'[c] \in Stored => ctr[c] \in Stored
  BY <1>1 DEF ListFacts, PodType, Stored
<1>4. Containers(arg[p])' \subseteq Containers(arg[p])
  BY <1>2, <1>3 DEF Containers
<1>5. pc'[p] = "rmCtrs" => Containers(arg[p])' \subseteq todo'[p] \cup late'
  <2>1. CASE ctr' = ctr /\ todo'[p] = Containers(arg[p])
    BY <1>4, <2>1
  <2>2. CASE pc[p] = "rmCtrs" /\ \E c \in todo[p] : todo'[p] = todo[p] \ {c} /\ ctr'[c] \notin Stored
    <3>1. PICK c \in todo[p] : todo'[p] = todo[p] \ {c} /\ ctr'[c] \notin Stored
      BY <2>2
    <3>2. c \notin Containers(arg[p])'
      BY <3>1 DEF Containers
    <3>3. Containers(arg[p]) \subseteq todo[p] \cup late
      BY <2>2 DEF LateInv
    <3> QED  BY <1>2, <1>4, <3>1, <3>2, <3>3
  <2> QED  BY <1>1, <2>1, <2>2 DEF ListFacts
<1>6. pc'[p] \in LatePcs => Containers(arg[p])' \subseteq late'
  <2>1. CASE pc[p] = "rmCtr"
    BY <1>2, <1>4, <2>1 DEF LateInv
  <2>2. CASE pc[p] = "rmCtrs" /\ todo[p] = {}
    BY <1>2, <1>4, <2>2 DEF LateInv
  <2> QED  BY <1>1, <2>1, <2>2 DEF ListFacts, LatePcs
<1>7. ASSUME NEW q \in Procs, q # p
      PROVE  /\ pc'[q] = "rmCtrs" => Containers(arg[q])' \subseteq todo'[q] \cup late'
             /\ pc'[q] \in LatePcs => Containers(arg[q])' \subseteq late'
  <2>1. Containers(arg[q])' \subseteq Containers(arg[q]) /\ pc'[q] = pc[q] /\ todo'[q] = todo[q]
    BY <1>2, <1>3, <1>7 DEF Containers
  <2> QED  BY <1>2, <2>1 DEF LateInv, LatePcs
<1>8. OnlyLateContainersOutlive'
  BY <1>2, <1>3 DEF LateInv, OnlyLateContainersOutlive
<1> QED  BY <1>5, <1>6, <1>7, <1>8 DEF LateInv, LatePcs

LEMMA CallingLate ==
  ASSUME TypeOK, LateInv, NEW p \in Procs, Calling(p)
  PROVE  LateInv'
<1>1. HandlerType /\ RuntimeType /\ CallFrame(p)
  BY TypeSplit, CallingFrame
<1>2. ASSUME Untouched, pc'[p] \notin LatePcs \cup {"rmCtrs"} PROVE LateInv'
  <2>1. \A q \in Procs \ {p} : pc'[q] = pc[q] /\ arg'[q] = arg[q] /\ todo'[q] = todo[q]
    BY <1>1 DEF CallFrame, Steps, HandlerType
  <2>2. UNCHANGED <<ctr, owner, late>> /\ sandboxes \subseteq sandboxes'
    BY <1>2 DEF Untouched
  <2> QED  BY <1>2, <2>1, <2>2, LateKept
<1>3. CASE RunCalls(p)
  <2>1. Untouched /\ Running(p)
    BY <1>1, <1>3, RunEffect DEF Running
  <2>2. pc'[p] \in RunPcs \cup KillPcs
    BY <1>1, <2>1 DEF CallFrame
  <2> QED  BY <1>2, <2>1, <2>2 DEF RunPcs, KillPcs, LatePcs
<1>4. CASE KillCalls(p)
  <2>1. Untouched /\ pc'[p] \in KillPcs \cup {"undoMount"} \cup Returned
    BY <1>1, <1>4, KillEffect DEF KillFacts
  <2> QED  BY <1>2, <2>1 DEF KillPcs, LatePcs, Returned
<1>5. CASE WorkCalls(p)
  BY <1>5, WorkLate
<1> QED  BY <1>3, <1>4, <1>5 DEF Calling

LEMMA RequestLate ==
  ASSUME TypeOK, NameInv, LateInv, NEW p \in Procs, Request(p)
  PROVE  LateInv'
<1>1. HandlerType
  BY TypeSplit
<1>2. CASE RunPodSandbox(p)
  <2>1. PICK id \in Ids : Arrives(p, id, "image")
    BY <1>2 DEF RunPodSandbox
  <2>2. pc'[p] = "image" /\ \A q \in Procs \ {p} : pc'[q] = pc[q] /\ arg'[q] = arg[q]
    BY <1>1, <2>1 DEF Arrives, HandlerType
  <2>3. UNCHANGED <<sandboxes, ctr, owner, late, todo>>
    BY <1>2 DEF RunPodSandbox, pods, history, loop
  <2> QED  BY <2>2, <2>3, LateKept DEF LatePcs
<1>3. CASE PlainRequest(p)
  <2>1. RequestFacts(p)
    BY <1>3, PlainRequestFacts
  <2>2. pc'[p] \notin LatePcs \cup {"rmCtrs"}
    BY <2>1 DEF RequestFacts, RequestTo, LatePcs
  <2>3. UNCHANGED <<sandboxes, ctr, owner, late, todo>>
    BY <2>1 DEF RequestFacts, memory, pods, history
  <2> QED  BY <2>1, <2>2, <2>3, LateKept DEF RequestFacts
<1> QED  BY <1>2, <1>3 DEF Request, PlainRequest

LEMMA AnswerLate ==
  ASSUME TypeOK, LateInv, NEW p \in Procs, ReportStates(p) \/ Respond(p)
  PROVE  LateInv'
<1>1. AnswerFacts(p)
  BY Answers
<1>2. pc'[p] \notin LatePcs \cup {"rmCtrs"}
  BY <1>1 DEF AnswerFacts, Returned, LatePcs
<1>3. UNCHANGED <<sandboxes, ctr, owner, late>>
  BY <1>1 DEF AnswerFacts, memory, pods, history
<1> QED  BY <1>1, <1>2, <1>3, LateKept DEF AnswerFacts

LEMMA StoreLate ==
  ASSUME TypeOK, NameInv, LateInv, NEW p \in Procs,
         AddToStore(p) \/ UndoName(p) \/ DeleteFromStore(p) \/ ReleaseName(p)
  PROVE  LateInv'
<1>1. MoveFacts(p)
  BY AddToStoreNames, UndoNameNames, DeleteFromStoreNames, ReleaseNameNames
<1>2. \A q \in Procs \ {p} : pc'[q] = pc[q] /\ arg'[q] = arg[q] /\ todo'[q] = todo[q]
  BY <1>1 DEF MoveFacts
<1>3. UNCHANGED <<ctr, owner, late>>
  BY DEF AddToStore, UndoName, DeleteFromStore, ReleaseName, pods, history
<1>4. CASE AddToStore(p) \/ UndoName(p) \/ ReleaseName(p)
  <2>1. pc'[p] \in {"ok", "err"}
    <3>1. pc \in [Procs -> Pcs]
      BY TypeSplit DEF HandlerType
    <3> QED  BY <1>4, <3>1 DEF AddToStore, UndoName, ReleaseName, Moves
  <2>2. sandboxes \subseteq sandboxes'
    BY <1>4 DEF AddToStore, UndoName, ReleaseName
  <2> QED  BY <1>2, <1>3, <2>1, <2>2, LateKept DEF LatePcs
<1>5. CASE DeleteFromStore(p)
  <2>1. pc[p] = "rmStore" /\ pc'[p] = "rmName"
    BY <1>5, DeleteFromStoreNames
  <2>2. sandboxes' = sandboxes \ {arg[p]} /\ arg' = arg
    BY <1>1, <1>5 DEF DeleteFromStore, MoveFacts
  <2>3. Containers(arg[p]) \subseteq late
    BY <2>1 DEF LateInv
  <2>4. OnlyLateContainersOutlive'
    <3>1. ASSUME NEW c \in Ctrs, ctr'[c] \in Stored, owner'[c] \notin sandboxes' PROVE c \in late'
      <4>1. CASE owner[c] = arg[p]
        BY <1>3, <2>3, <3>1, <4>1 DEF Containers
      <4>2. CASE owner[c] # arg[p]
        BY <1>3, <2>2, <3>1, <4>2 DEF LateInv, OnlyLateContainersOutlive
      <4> QED  BY <4>1, <4>2
    <3> QED  BY <3>1 DEF OnlyLateContainersOutlive
  <2>5. \A q \in Procs : Containers(arg[q])' = Containers(arg[q])
    BY <1>3, <2>2 DEF Containers
  <2>6. /\ \A q \in Procs : pc'[q] = "rmCtrs" => Containers(arg[q])' \subseteq todo'[q] \cup late'
        /\ \A q \in Procs : pc'[q] \in LatePcs => Containers(arg[q])' \subseteq late'
    BY <1>2, <1>3, <2>1, <2>3, <2>5 DEF LateInv, LatePcs
  <2> QED  BY <2>4, <2>6 DEF LateInv, LatePcs
<1> QED  BY <1>4, <1>5

LEMMA ContainerLate ==
  ASSUME TypeOK, NameInv, LateInv, NEW c \in Ctrs, ContainerStep(c)
  PROVE  LateInv'
<1>1. PodType
  BY TypeSplit
<1>2. UNCHANGED <<sandboxes, todo, pc, arg>>
  BY ContainerNames DEF memory, loop, handler
<1>3. CASE /\ ContainerMoves(c, "creating", "created") /\ owner' = owner
           /\ late' = IF Listed(owner[c]) \/ owner[c] \notin sandboxes THEN late \cup {c} ELSE late
  <2>1. \A d \in Ctrs \ {c} : ctr'[d] = ctr[d]
    BY <1>1, <1>3 DEF ContainerMoves, PodType
  <2>2. late \subseteq late' /\ (c \in late' \/ (~Listed(owner[c]) /\ owner[c] \in sandboxes))
    BY <1>3
  <2>3. ASSUME NEW q \in Procs, pc'[q] \in LatePcs \cup {"rmCtrs"}
        PROVE  Containers(arg[q])' \subseteq Containers(arg[q]) \cup late'
    <3>1. arg[q] = owner[c] => Listed(owner[c])
      BY <1>2, <2>3 DEF Listed, LatePcs
    <3> QED  BY <1>2, <1>3, <2>1, <2>2, <3>1 DEF Containers
  <2>4. /\ \A q \in Procs : pc'[q] = "rmCtrs" => Containers(arg[q])' \subseteq todo'[q] \cup late'
        /\ \A q \in Procs : pc'[q] \in LatePcs => Containers(arg[q])' \subseteq late'
    BY <1>2, <2>2, <2>3 DEF LateInv, LatePcs
  <2>5. OnlyLateContainersOutlive'
    BY <1>2, <1>3, <2>1, <2>2 DEF LateInv, OnlyLateContainersOutlive
  <2> QED  BY <2>4, <2>5 DEF LateInv, LatePcs
<1>4. CASE ~(/\ ContainerMoves(c, "creating", "created") /\ owner' = owner
             /\ late' = IF Listed(owner[c]) \/ owner[c] \notin sandboxes THEN late \cup {c} ELSE late)
  <2>1. /\ late' = late
        /\ \A d \in Ctrs \ {c} : ctr'[d] = ctr[d] /\ owner'[d] = owner[d]
        /\ ctr'[c] \in Stored => ctr[c] \in Stored /\ owner'[c] = owner[c]
    <3>1. CASE CreateContainer(c)
      BY <1>1, <3>1 DEF CreateContainer, ContainerMoves, PodType, Stored
    <3>2. CASE EndCreate(c)
      BY <1>1, <1>4, <3>2 DEF EndCreate, ContainerMoves, PodType, Stored
    <3>3. CASE StartContainer(c) \/ EndStart(c) \/ ContainerExits(c) \/ RemoveContainer(c)
      BY <1>1, <3>3 DEF StartContainer, EndStart, ContainerExits, RemoveContainer, ContainerMoves, PodType, Stored
    <3> QED  BY <3>1, <3>2, <3>3 DEF ContainerStep
  <2>2. \A d \in Ctrs : ctr'[d] \in Stored => ctr[d] \in Stored /\ owner'[d] = owner[d]
    BY <2>1
  <2> QED  BY <1>2, <2>1, <2>2, LateFrame
<1> QED  BY <1>3, <1>4

LEMMA EnvLate ==
  ASSUME TypeOK, LateInv, EnvStep
  PROVE  LateInv'
<1>1. CASE Disturbs
  <2>1. UNCHANGED <<sandboxes, ctr, owner, late, todo, pc, arg>>
    BY <1>1, DisturbsFacts DEF DisturbFacts, memory, pods, loop, history
  <2> QED  BY <2>1, LateFrame
<1>2. CASE Crash
  <2>1. ctr' = [c \in Ctrs |-> "absent"] /\ pc' = [p \in Procs |-> "idle"]
    BY <1>2 DEF Crash
  <2> QED  BY <2>1 DEF LateInv, OnlyLateContainersOutlive, Stored
<1> QED  BY <1>1, <1>2 DEF EnvStep, Disturbs

-----------------------------------------------------------------------------
(* Resources: what is made, undone and taken away.                           *)

(* A step that leaves what there is alone, and who runs what. *)
LEMMA ResourceFrame ==
  ASSUME ResourceInv, UNCHANGED <<nameOf, sandboxes, snapshots, ctrs, dirs, mounts, network, skipped, leaked>>,
         \A id \in Ids : task'[id] = "none" <=> task[id] = "none",
         network \subseteq Ids,
         \A q \in Procs : Running(q)' <=> Running(q),
         \A q \in Procs : Running(q) => pc'[q] = pc[q] /\ arg'[q] = arg[q] /\ arg[q] \in Ids,
         \A q \in Procs : Working(q)' =>
           arg'[q] \in Ids /\ (pc'[q] \in {"list", "rmCheck"} \/ (Working(q) /\ pc'[q] = pc[q] /\ arg'[q] = arg[q]))
  PROVE  ResourceInv'
<1>1. \A id \in Ids : HasResources(id)' <=> HasResources(id)
  BY DEF HasResources
<1>2. UnusedInv'
  BY <1>1 DEF ResourceInv, UnusedInv
<1>3. MadeInv'
  <2>1. ASSUME NEW q \in Procs, Running(q)'
        PROVE  /\ arg'[q] \in leaked' \/ MadeBy(pc[q], arg[q])'
               /\ pc'[q] \in {"setUp", "runTask", "add", "undoNet"} => task'[arg'[q]] # "none"
    <3>1. pc'[q] = pc[q] /\ arg'[q] = arg[q] /\ arg[q] \in Ids
      BY <2>1
    <3>2. /\ arg[q] \in leaked \/ MadeBy(pc[q], arg[q])
          /\ pc[q] \in {"setUp", "runTask", "add", "undoNet"} => task[arg[q]] # "none"
      BY <2>1 DEF ResourceInv, MadeInv
    <3>3. MadeBy(pc[q], arg[q]) => MadeBy(pc[q], arg[q])'
      BY <3>1 DEF MadeBy
    <3> QED  BY <3>1, <3>2, <3>3
  <2> QED  BY <2>1 DEF MadeInv
<1>4. GoneInv'
  <2>1. ASSUME NEW q \in Procs, Working(q)' PROVE GoneFor(pc[q], arg[q])'
    <3>1. CASE pc'[q] \in {"list", "rmCheck"}
      BY <3>1 DEF GoneFor, KillPcs, RemovePcs
    <3>2. CASE Working(q) /\ pc'[q] = pc[q] /\ arg'[q] = arg[q]
      <4>1. GoneFor(pc[q], arg[q]) /\ arg[q] \in Ids
        BY <2>1, <3>2 DEF ResourceInv, GoneInv
      <4> QED  BY <3>2, <4>1 DEF GoneFor
    <3> QED  BY <2>1, <3>1, <3>2
  <2> QED  BY <2>1 DEF GoneInv
<1>5. NetworkInv'
  BY DEF ResourceInv, NetworkInv
<1>6. NoOrphanResources'
  <2>1. ASSUME NEW id \in Ids \ sandboxes', HasResources(id)'
        PROVE  \/ id \in leaked'
               \/ \E p \in Procs : arg'[p] = id /\ Running(p)'
               \/ id \in skipped' /\ id \notin (snapshots \cup ctrs \cup dirs \cup mounts)' /\ task'[id] = "none"
    <3>1. \/ id \in leaked
          \/ \E p \in Procs : arg[p] = id /\ Running(p)
          \/ id \in skipped /\ id \notin snapshots \cup ctrs \cup dirs \cup mounts /\ task[id] = "none"
      BY <1>1, <2>1 DEF ResourceInv, NoOrphanResources, Running
    <3> QED  BY <3>1
  <2> QED  BY <2>1 DEF NoOrphanResources, Running
<1> QED  BY <1>2, <1>3, <1>4, <1>5, <1>6 DEF ResourceInv

(* A step that changes what there is for the sandbox of p only. *)
LEMMA OwnFrame ==
  ASSUME TypeOK, NameInv, ResourceInv, NEW p \in Procs, Elsewhere(arg[p]), Running(p) \/ Working(p),
         UNCHANGED <<arg, nameOf>>, network' \subseteq Ids, sandboxes' \ {arg[p]} = sandboxes \ {arg[p]},
         \A q \in Procs \ {p} : pc'[q] = pc[q] /\ (Running(q)' <=> Running(q)) /\ (Working(q)' => Working(q)),
         Running(p)' => arg[p] \in leaked' \/ MadeBy(pc[p], arg[p])',
         Running(p)' => HasTask(pc[p], arg[p])',
         Working(p)' => GoneFor(pc[p], arg[p])',
         \A q \in Procs \ {p} : Working(q) /\ arg[q] = arg[p] => GoneFor(pc[q], arg[q])',
         arg[p] \in network' /\ task'[arg[p]] = "none" => arg[p] \in skipped' \cup leaked',
         arg[p] \notin sandboxes' /\ HasResources(arg[p])' =>
           \/ arg[p] \in leaked' \/ Running(p)'
           \/ arg[p] \in skipped' /\ arg[p] \notin (snapshots \cup ctrs \cup dirs \cup mounts)' /\ task'[arg[p]] = "none"
  PROVE  ResourceInv'
<1>1. Alone(p) /\ nameOf[arg[p]] # Nil
  BY AloneFacts
<1>2. HandlerType
  BY TypeSplit
<1>3. ASSUME NEW q \in Procs, Running(q) \/ Working(q) PROVE arg[q] \in Ids
  BY <1>2, <1>3, BusyArg DEF Running, Working, Busy, HandlerType
<1>4. /\ leaked \subseteq leaked' /\ skipped \subseteq skipped'
      /\ \A i \in Ids \ {arg[p]} : HasResources(i)' <=> HasResources(i)
  BY DEF Elsewhere, HasResources
<1>5. UnusedInv'
  BY <1>1, <1>4 DEF ResourceInv, UnusedInv
<1>6. MadeInv'
  <2>1. ASSUME NEW q \in Procs, Running(q)', q # p
        PROVE  /\ arg[q] \in leaked' \/ MadeBy(pc[q], arg[q])'
               /\ pc'[q] \in {"setUp", "runTask", "add", "undoNet"} => task'[arg[q]] # "none"
    <3>1. pc'[q] = pc[q] /\ arg'[q] = arg[q] /\ arg[q] \in Ids \ {arg[p]} /\ Running(q)
      BY <1>1, <1>3, <2>1 DEF Alone
    <3>2. /\ arg[q] \in leaked \/ MadeBy(pc[q], arg[q])
          /\ pc[q] \in {"setUp", "runTask", "add", "undoNet"} => task[arg[q]] # "none"
      BY <3>1 DEF ResourceInv, MadeInv
    <3>3. MadeBy(pc[q], arg[q]) => MadeBy(pc[q], arg[q])'
      BY <3>1 DEF MadeBy, Elsewhere
    <3> QED  BY <1>4, <3>1, <3>2, <3>3 DEF Elsewhere
  <2> QED  BY <2>1 DEF MadeInv, HasTask
<1>7. GoneInv'
  <2>1. ASSUME NEW q \in Procs, Working(q)', q # p PROVE GoneFor(pc[q], arg[q])'
    <3>1. Working(q) /\ GoneFor(pc[q], arg[q]) /\ arg[q] \in Ids /\ pc'[q] = pc[q]
      BY <1>3, <2>1 DEF ResourceInv, GoneInv
    <3>2. CASE arg[q] # arg[p]
      BY <3>1, <3>2 DEF GoneFor, Elsewhere
    <3> QED  BY <2>1, <3>1, <3>2
  <2> QED  BY <2>1 DEF GoneInv
<1>8. NetworkInv'
  BY <1>4 DEF ResourceInv, NetworkInv, Elsewhere
<1>9. NoOrphanResources'
  <2>1. ASSUME NEW id \in Ids \ sandboxes', HasResources(id)'
        PROVE  \/ id \in leaked'
               \/ \E q \in Procs : arg'[q] = id /\ Running(q)'
               \/ id \in skipped' /\ id \notin (snapshots \cup ctrs \cup dirs \cup mounts)' /\ task'[id] = "none"
    <3>1. CASE id = arg[p]
      BY <2>1, <3>1
    <3>2. CASE id # arg[p]
      <4>1. id \in Ids \ sandboxes /\ HasResources(id)
        BY <1>4, <2>1, <3>2
      <4>2. \/ id \in leaked
            \/ \E q \in Procs : arg[q] = id /\ Running(q)
            \/ id \in skipped /\ id \notin snapshots \cup ctrs \cup dirs \cup mounts /\ task[id] = "none"
        BY <4>1 DEF ResourceInv, NoOrphanResources, Running
      <4>3. (\E q \in Procs : arg[q] = id /\ Running(q)) => \E q \in Procs : arg'[q] = id /\ Running(q)'
        BY <3>2
      <4> QED  BY <1>4, <3>2, <4>2, <4>3 DEF Elsewhere
    <3> QED  BY <3>1, <3>2
  <2> QED  BY <2>1 DEF NoOrphanResources, Running
<1> QED  BY <1>5, <1>6, <1>7, <1>8, <1>9 DEF ResourceInv

(* A step of StopPodSandbox or RemovePodSandbox, which takes things away. *)
LEMMA ShrinkFrame ==
  ASSUME TypeOK, NameInv, ResourceInv, NEW p \in Procs, Elsewhere(arg[p]), Working(p), ~Running(p), ~Running(p)',
         UNCHANGED <<arg, nameOf, sandboxes>>,
         \A q \in Procs \ {p} : pc'[q] = pc[q] /\ (Running(q)' <=> Running(q)) /\ (Working(q)' => Working(q)),
         snapshots' \subseteq snapshots, ctrs' \subseteq ctrs, dirs' \subseteq dirs, mounts' \subseteq mounts,
         network' \subseteq network, task'[arg[p]] \in {task[arg[p]], "none"},
         Working(p)' => GoneFor(pc[p], arg[p])',
         arg[p] \in network' /\ task'[arg[p]] = "none" => arg[p] \in skipped' \cup leaked'
  PROVE  ResourceInv'
<1>1. Alone(p)
  BY AloneFacts
<1>2. HandlerType /\ RuntimeType
  BY TypeSplit
<1>3. arg[p] \in Ids /\ network' \subseteq Ids
  BY <1>2, BusyArg DEF Working, Busy, RuntimeType
<1>4. ASSUME NEW q \in Procs \ {p}, Working(q), arg[q] = arg[p] PROVE GoneFor(pc[q], arg[q])'
  <2>1. GoneFor(pc[q], arg[q]) /\ pc'[q] = pc[q] /\ arg'[q] = arg[q]
    BY <1>4 DEF ResourceInv, GoneInv
  <2>2. skipped \subseteq skipped'
    BY DEF Elsewhere
  <2> QED  BY <1>4, <2>1, <2>2 DEF GoneFor
<1>5. ASSUME arg[p] \notin sandboxes', HasResources(arg[p])'
      PROVE  \/ arg[p] \in leaked' \/ Running(p)'
             \/ arg[p] \in skipped' /\ arg[p] \notin (snapshots \cup ctrs \cup dirs \cup mounts)' /\ task'[arg[p]] = "none"
  <2>1. HasResources(arg[p]) /\ arg[p] \notin sandboxes
    BY <1>5 DEF HasResources
  <2>2. ~\E q \in Procs : arg[q] = arg[p] /\ Running(q)
    BY <1>1 DEF Alone
  <2>3. \/ arg[p] \in leaked
        \/ arg[p] \in skipped /\ arg[p] \notin snapshots \cup ctrs \cup dirs \cup mounts /\ task[arg[p]] = "none"
    BY <1>3, <2>1, <2>2 DEF ResourceInv, NoOrphanResources, Running
  <2>4. leaked \subseteq leaked' /\ skipped \subseteq skipped'
    BY DEF Elsewhere
  <2> QED  BY <2>3, <2>4
<1> QED  BY <1>3, <1>4, <1>5, OwnFrame

LEMMA CallingResources ==
  ASSUME TypeOK, NameInv, ResourceInv, NEW p \in Procs, Calling(p)
  PROVE  ResourceInv'
<1>1. HandlerType /\ RuntimeType /\ CallFrame(p) /\ RuntimeType'
  BY TypeSplit, CallingFrame, CallingTask
<1>2. /\ UNCHANGED <<arg, nameOf, sandboxes>> /\ network' \subseteq Ids /\ arg[p] \in Ids
      /\ \A q \in Procs \ {p} : pc'[q] = pc[q] /\ (Running(q)' <=> Running(q)) /\ (Working(q)' => Working(q))
      /\ pc[p] \in Busy
  BY <1>1, BusyArg DEF CallFrame, Steps, HandlerType, RuntimeType
<1>3. ASSUME Running(p), Running(p)', Elsewhere(arg[p]),
             arg[p] \in leaked' \/ MadeBy(pc[p], arg[p])', HasTask(pc[p], arg[p])'
      PROVE  ResourceInv'
  <2>1. ~Working(p)'
    BY <1>1, <1>3 DEF CallFrame, Working, Running, HandlerType, RunPcs, StopPcs, KillPcs, RemovePcs
  <2>2. \A q \in Procs \ {p} : Working(q) => arg[q] # arg[p]
    BY <1>3 DEF NameInv, WorkInv, Known
  <2>3. arg[p] \in network' /\ task'[arg[p]] = "none" => arg[p] \in skipped' \cup leaked'
    BY <1>2, <1>3 DEF MadeBy, HasTask
  <2> QED  BY <1>2, <1>3, <2>1, <2>2, <2>3, OwnFrame
<1>4. CASE RunCalls(p)
  <2>1. Running(p) /\ Running(p)'
    BY <1>1, <1>4, RunEffect DEF Running
  <2>2. /\ Elsewhere(arg[p]) /\ HasTask(pc[p], arg[p])'
        /\ arg[p] \in leaked' \/ MadeBy(pc[p], arg[p])'
    BY <1>4, <2>1, RunMakes DEF ResourceInv, MadeInv, HasTask
  <2> QED  BY <1>3, <2>1, <2>2
<1>5. CASE KillCalls(p)
  <2>1. KillFacts(p)
    BY <1>1, <1>5, KillEffect
  <2>2. Elsewhere(arg[p]) /\ task'[arg[p]] \in {task[arg[p]], "none"}
    <3>1. \A i \in Ids : task'[i] = task[i] \/ (i = arg[p] /\ task'[i] = "none")
      BY <1>1, <2>1 DEF KillFacts, RuntimeType
    <3> QED  BY <1>2, <2>1, <3>1 DEF KillFacts, Elsewhere, Untouched
  <2>3. CASE p \in undoing
    <3>1. Running(p) /\ Running(p)' /\ pc'[p] \in KillPcs \cup {"undoMount"}
      BY <2>1, <2>3 DEF Running, KillFacts
    <3>2. HasTask(pc[p], arg[p])'
      BY <3>1 DEF HasTask, KillPcs
    <3>3. arg[p] \in leaked' \/ MadeBy(pc[p], arg[p])'
      <4>1. arg[p] \in leaked \/ MadeBy(pc[p], arg[p])
        BY <3>1 DEF ResourceInv, MadeInv
      <4>2. leaked \subseteq leaked' /\ pc[p] \in KillPcs /\ UNCHANGED <<snapshots, ctrs, dirs, mounts, network, arg>>
        BY <1>2, <2>1 DEF KillFacts
      <4>3. CASE pc'[p] \in KillPcs
        BY <4>1, <4>2, <4>3 DEF MadeBy, KillPcs
      <4>4. CASE pc'[p] \notin KillPcs
        <5>1. pc'[p] = "undoMount" /\ (arg[p] \in leaked' \/ task'[arg[p]] = "none")
          BY <2>1, <2>3, <3>1, <4>4 DEF KillFacts
        <5> QED  BY <4>1, <4>2, <5>1 DEF MadeBy, KillPcs
      <4> QED  BY <4>3, <4>4
    <3> QED  BY <1>3, <2>2, <3>1, <3>2, <3>3
  <2>4. CASE p \notin undoing
    <3>1. Working(p) /\ ~Running(p) /\ ~Running(p)' /\ (Working(p)' => pc'[p] \in KillPcs)
      BY <1>1, <2>1, <2>4 DEF CallFrame, KillFacts, Working, Running, RunPcs, StopPcs, KillPcs, RemovePcs, Returned
    <3>2. GoneFor(pc[p], arg[p]) /\ pc[p] \in KillPcs /\ UNCHANGED <<snapshots, ctrs, dirs, mounts, network, skipped>>
      BY <2>1, <3>1 DEF ResourceInv, GoneInv, KillFacts, Untouched
    <3>3. Working(p)' => GoneFor(pc[p], arg[p])'
      BY <1>2, <3>1, <3>2 DEF GoneFor, KillPcs, RemovePcs
    <3>4. arg[p] \in network' => arg[p] \in skipped'
      BY <3>2 DEF GoneFor
    <3> QED  BY <1>2, <2>2, <3>1, <3>2, <3>3, <3>4, ShrinkFrame
  <2> QED  BY <2>3, <2>4
<1>6. CASE WorkCalls(p)
  <2>1. WorkFacts(p)
    BY <1>1, <1>6, WorkEffect
  <2>2. Working(p) /\ ~Running(p) /\ ~Running(p)' /\ pc[p] \in WorkPcs
    BY <1>1, <2>1 DEF WorkFacts, CallFrame, WorkPcs, Running, Working, RunPcs, StopPcs, RemovePcs
  <2>3. TakeFacts(p)
    BY <1>6, <2>2, WorkTakes DEF ResourceInv, GoneInv
  <2>4. Working(p)' => GoneFor(pc[p], arg[p])'
    BY <2>3 DEF TakeFacts, Working, StopPcs, KillPcs, RemovePcs
  <2>5. arg[p] \in network' /\ task'[arg[p]] = "none" => arg[p] \in skipped' \cup leaked'
    BY <2>3 DEF TakeFacts, Elsewhere, ResourceInv, NetworkInv
  <2> QED  BY <1>2, <2>2, <2>3, <2>4, <2>5, ShrinkFrame DEF TakeFacts
<1> QED  BY <1>4, <1>5, <1>6 DEF Calling

(* The steps on the stores: what leaves the store, or never gets there, has   *)
(* nothing left.                                                              *)
LEMMA StoreResources ==
  ASSUME TypeOK, NameInv, ResourceInv, NEW p \in Procs,
         AddToStore(p) \/ UndoName(p) \/ DeleteFromStore(p) \/ ReleaseName(p)
  PROVE  ResourceInv'
<1>1. RuntimeType /\ MoveFacts(p)
  BY TypeSplit, AddToStoreNames, UndoNameNames, DeleteFromStoreNames, ReleaseNameNames
<1>2. /\ UNCHANGED <<arg, nameOf, snapshots, ctrs, dirs, mounts, network, task, skipped, leaked>>
      /\ arg[p] \in Ids /\ ~Running(p)' /\ network' \subseteq Ids
      /\ \A q \in Procs \ {p} : pc'[q] = pc[q] /\ (Running(q)' <=> Running(q)) /\ (Working(q)' => Working(q))
  BY <1>1 DEF MoveFacts, RuntimeType, AddToStore, UndoName, DeleteFromStore, ReleaseName, made, runtime, history
<1>3. Elsewhere(arg[p])
  BY <1>2 DEF Elsewhere
<1>4. ASSUME NEW q \in Procs \ {p}, Working(q) PROVE GoneFor(pc[q], arg[q])'
  <2>1. GoneFor(pc[q], arg[q]) /\ pc'[q] = pc[q]
    BY <1>2, <1>4 DEF ResourceInv, GoneInv
  <2> QED  BY <1>2, <2>1 DEF GoneFor
<1>5. arg[p] \in network' /\ task'[arg[p]] = "none" => arg[p] \in skipped' \cup leaked'
  BY <1>2 DEF ResourceInv, NetworkInv
<1>6. ASSUME Running(p) \/ Working(p), Working(p)' => GoneFor(pc[p], arg[p])',
             sandboxes' \ {arg[p]} = sandboxes \ {arg[p]},
             arg[p] \notin sandboxes' /\ HasResources(arg[p]) =>
               \/ arg[p] \in leaked
               \/ arg[p] \in skipped /\ arg[p] \notin snapshots \cup ctrs \cup dirs \cup mounts /\ task[arg[p]] = "none"
      PROVE  ResourceInv'
  <2>1. arg[p] \notin sandboxes' /\ HasResources(arg[p])' =>
           \/ arg[p] \in leaked' \/ Running(p)'
           \/ arg[p] \in skipped' /\ arg[p] \notin (snapshots \cup ctrs \cup dirs \cup mounts)' /\ task'[arg[p]] = "none"
    BY <1>2, <1>6 DEF HasResources
  <2> QED  BY <1>2, <1>3, <1>4, <1>5, <1>6, <2>1, OwnFrame
<1>7. CASE AddToStore(p)
  <2>1. pc[p] = "add" /\ pc'[p] = "ok" /\ sandboxes' = sandboxes \cup {arg[p]}
    <3>1. pc \in [Procs -> Pcs]
      BY TypeSplit DEF HandlerType
    <3> QED  BY <1>7, <3>1 DEF AddToStore, Moves
  <2>2. Running(p) /\ ~Working(p)'
    BY <2>1 DEF Running, Working, RunPcs, StopPcs, KillPcs, RemovePcs
  <2> QED  BY <1>6, <2>1, <2>2
<1>8. CASE UndoName(p)
  <2>1. pc[p] = "undoName" /\ pc'[p] = "err" /\ sandboxes' = sandboxes
    BY <1>8, UndoNameNames DEF UndoName
  <2>2. Running(p) /\ ~Working(p)'
    BY <2>1 DEF Running, Working, RunPcs, StopPcs, KillPcs, RemovePcs
  <2>3. arg[p] \in leaked \/ MadeBy(pc[p], arg[p])
    BY <2>2 DEF ResourceInv, MadeInv
  <2>4. MadeBy(pc[p], arg[p]) => ~HasResources(arg[p])
    BY <2>1 DEF MadeBy, HasResources, KillPcs
  <2> QED  BY <1>6, <2>1, <2>2, <2>3, <2>4
<1>9. CASE DeleteFromStore(p)
  <2>1. pc[p] = "rmStore" /\ pc'[p] = "rmName" /\ sandboxes' = sandboxes \ {arg[p]}
    BY <1>9, DeleteFromStoreNames DEF DeleteFromStore
  <2>2. Working(p)
    BY <1>1, <2>1 DEF MoveFacts, Working, RemovePcs
  <2>3. GoneFor(pc[p], arg[p])
    BY <2>2 DEF ResourceInv, GoneInv
  <2>4. task[arg[p]] = "none" /\ arg[p] \notin snapshots \cup ctrs \cup dirs \cup mounts
    BY <2>1, <2>3 DEF GoneFor, RemovePcs
  <2>5. GoneFor(pc[p], arg[p])'
    BY <1>2, <2>1, <2>4 DEF GoneFor, KillPcs
  <2>6. HasResources(arg[p]) => arg[p] \in skipped \cup leaked
    BY <2>4 DEF HasResources, ResourceInv, NetworkInv
  <2> QED  BY <1>6, <2>1, <2>2, <2>4, <2>5, <2>6
<1>10. CASE ReleaseName(p)
  <2>1. pc[p] = "rmName" /\ pc'[p] = "ok" /\ sandboxes' = sandboxes
    BY <1>10, ReleaseNameNames DEF ReleaseName
  <2>2. Working(p) /\ ~Working(p)'
    BY <1>1, <2>1 DEF MoveFacts, Working, StopPcs, KillPcs, RemovePcs
  <2>3. GoneFor(pc[p], arg[p])
    BY <2>2 DEF ResourceInv, GoneInv
  <2>4. task[arg[p]] = "none" /\ arg[p] \notin snapshots \cup ctrs \cup dirs \cup mounts
    BY <2>1, <2>3 DEF GoneFor, RemovePcs
  <2>5. HasResources(arg[p]) => arg[p] \in skipped \cup leaked
    BY <2>4 DEF HasResources, ResourceInv, NetworkInv
  <2> QED  BY <1>6, <2>1, <2>2, <2>4, <2>5
<1> QED  BY <1>7, <1>8, <1>9, <1>10

LEMMA RequestResources ==
  ASSUME TypeOK, NameInv, ResourceInv, NEW p \in Procs, Request(p)
  PROVE  ResourceInv'
<1>1. HandlerType /\ PodType /\ RuntimeType /\ Nil \notin Ids
  BY TypeSplit, NilAssumption
<1>2. ASSUME NEW q \in Procs, Running(q) \/ Working(q) PROVE arg[q] \in Ids
  BY <1>1, <1>2, BusyArg DEF Running, Working, Busy, HandlerType
<1>3. CASE RunPodSandbox(p)
  <2>1. PICK id \in Ids, n \in Names :
          nameOf[id] = Nil /\ Arrives(p, id, "image") /\ nameOf' = [nameOf EXCEPT ![id] = n]
    BY <1>3 DEF RunPodSandbox
  <2>2. UNCHANGED <<sandboxes, stopping, snapshots, ctrs, dirs, mounts, network, task, skipped, leaked>>
    BY <1>3 DEF RunPodSandbox, runtime, history
  <2>3. /\ pc'[p] = "image" /\ arg'[p] = id /\ pc[p] = "idle"
        /\ \A q \in Procs \ {p} : pc'[q] = pc[q] /\ arg'[q] = arg[q]
    BY <1>1, <2>1 DEF Arrives, HandlerType
  <2>4. /\ ~Running(p) /\ ~Working(p)'
        /\ \A q \in Procs \ {p} : (Running(q)' <=> Running(q)) /\ (Working(q)' <=> Working(q))
    BY <1>1, <2>2, <2>3 DEF Running, Working, HandlerType, stopping, RunPcs, StopPcs, KillPcs, RemovePcs
  <2>5. ~HasResources(id) /\ \A i : HasResources(i)' <=> HasResources(i)
    BY <2>1, <2>2 DEF ResourceInv, UnusedInv, HasResources
  <2>6. UnusedInv'
    <3>1. \A i \in Ids \ {id} : nameOf'[i] = nameOf[i]
      BY <1>1, <2>1 DEF PodType
    <3> QED  BY <2>5, <3>1 DEF ResourceInv, UnusedInv
  <2>7. MadeInv'
    <3>1. MadeBy(pc[p], arg[p])' /\ pc'[p] \notin {"setUp", "runTask", "add", "undoNet"}
      BY <2>2, <2>3, <2>5 DEF MadeBy, HasResources
    <3>2. ASSUME NEW q \in Procs \ {p}, Running(q)'
          PROVE  /\ arg'[q] \in leaked' \/ MadeBy(pc[q], arg[q])'
                 /\ pc'[q] \in {"setUp", "runTask", "add", "undoNet"} => task'[arg'[q]] # "none"
      <4>1. /\ arg[q] \in leaked \/ MadeBy(pc[q], arg[q])
            /\ pc[q] \in {"setUp", "runTask", "add", "undoNet"} => task[arg[q]] # "none"
        BY <2>4, <3>2 DEF ResourceInv, MadeInv
      <4>2. MadeBy(pc[q], arg[q]) => MadeBy(pc[q], arg[q])'
        BY <2>2, <2>3 DEF MadeBy
      <4> QED  BY <2>2, <2>3, <4>1, <4>2
    <3> QED  BY <3>1, <3>2 DEF MadeInv
  <2>8. GoneInv'
    <3>1. ASSUME NEW q \in Procs, Working(q)' PROVE GoneFor(pc[q], arg[q])'
      <4>1. q # p /\ GoneFor(pc[q], arg[q])
        BY <2>4, <3>1 DEF ResourceInv, GoneInv
      <4> QED  BY <2>2, <2>3, <4>1 DEF GoneFor
    <3> QED  BY <3>1 DEF GoneInv
  <2>9. NetworkInv'
    BY <2>2 DEF ResourceInv, NetworkInv
  <2>10. NoOrphanResources'
    <3>1. ASSUME NEW i \in Ids \ sandboxes', HasResources(i)'
          PROVE  \/ i \in leaked'
                 \/ \E q \in Procs : arg'[q] = i /\ Running(q)'
                 \/ i \in skipped' /\ i \notin (snapshots \cup ctrs \cup dirs \cup mounts)' /\ task'[i] = "none"
      <4>1. \/ i \in leaked
            \/ \E q \in Procs : arg[q] = i /\ Running(q)
            \/ i \in skipped /\ i \notin snapshots \cup ctrs \cup dirs \cup mounts /\ task[i] = "none"
        BY <2>2, <2>5, <3>1 DEF ResourceInv, NoOrphanResources, Running
      <4>2. (\E q \in Procs : arg[q] = i /\ Running(q)) => \E q \in Procs : arg'[q] = i /\ Running(q)'
        BY <2>3, <2>4
      <4> QED  BY <2>2, <4>1, <4>2
    <3> QED  BY <3>1 DEF NoOrphanResources, Running
  <2> QED  BY <2>6, <2>7, <2>8, <2>9, <2>10 DEF ResourceInv
<1>4. CASE PlainRequest(p)
  <2>1. RequestFacts(p)
    BY <1>4, PlainRequestFacts
  <2>2. UNCHANGED <<nameOf, sandboxes, snapshots, ctrs, dirs, mounts, network, task, skipped, leaked>>
    BY <2>1 DEF RequestFacts, memory, made, runtime, history
  <2>3. Working(p)' => pc'[p] \in {"list", "rmCheck"} /\ arg'[p] \in Ids
    BY <1>1, <2>1 DEF RequestFacts, RequestTo, Working, StopPcs, KillPcs, RemovePcs, PodType
  <2>4. \A q \in Procs : Working(q)' =>
          arg'[q] \in Ids /\ (pc'[q] \in {"list", "rmCheck"} \/ (Working(q) /\ pc'[q] = pc[q] /\ arg'[q] = arg[q]))
    BY <1>2, <2>1, <2>3 DEF RequestFacts
  <2>5. /\ \A q \in Procs : Running(q)' <=> Running(q)
        /\ \A q \in Procs : Running(q) => pc'[q] = pc[q] /\ arg'[q] = arg[q] /\ arg[q] \in Ids
    BY <1>2, <2>1 DEF RequestFacts
  <2> QED  BY <1>1, <2>2, <2>4, <2>5, ResourceFrame DEF RuntimeType
<1> QED  BY <1>3, <1>4 DEF Request, PlainRequest

LEMMA AnswerResources ==
  ASSUME TypeOK, NameInv, ResourceInv, NEW p \in Procs, ReportStates(p) \/ Respond(p)
  PROVE  ResourceInv'
<1>1. HandlerType /\ RuntimeType /\ AnswerFacts(p)
  BY TypeSplit, Answers
<1>2. ASSUME NEW q \in Procs, Running(q) \/ Working(q) PROVE arg[q] \in Ids
  BY <1>1, <1>2, BusyArg DEF Running, Working, Busy, HandlerType
<1>3. UNCHANGED <<nameOf, sandboxes, snapshots, ctrs, dirs, mounts, network, task, skipped, leaked>>
  BY <1>1 DEF AnswerFacts, memory, made, runtime, history
<1>4. \A q \in Procs : Working(q)' =>
        arg'[q] \in Ids /\ (pc'[q] \in {"list", "rmCheck"} \/ (Working(q) /\ pc'[q] = pc[q] /\ arg'[q] = arg[q]))
  BY <1>1, <1>2 DEF AnswerFacts
<1>5. /\ \A q \in Procs : Running(q)' <=> Running(q)
      /\ \A q \in Procs : Running(q) => pc'[q] = pc[q] /\ arg'[q] = arg[q] /\ arg[q] \in Ids
  BY <1>1, <1>2 DEF AnswerFacts
<1> QED  BY <1>1, <1>3, <1>4, <1>5, ResourceFrame DEF RuntimeType

(* The containers of a sandbox, and the disturbances, leave its resources. *)
LEMMA OtherResources ==
  ASSUME TypeOK, NameInv, ResourceInv, (\E c \in Ctrs : ContainerStep(c)) \/ Disturbs
  PROVE  ResourceInv'
<1>1. HandlerType /\ RuntimeType
  BY TypeSplit
<1>2. /\ UNCHANGED <<nameOf, sandboxes, snapshots, ctrs, dirs, mounts, network, skipped, leaked, pc, arg, undoing>>
      /\ \A id \in Ids : task'[id] = "none" <=> task[id] = "none"
  <2>1. CASE \E c \in Ctrs : ContainerStep(c)
    BY <2>1, ContainerNames DEF memory, made, runtime, handler, stopping
  <2>2. CASE Disturbs
    BY <2>2, DisturbsFacts DEF DisturbFacts, memory, made, history
  <2> QED  BY <2>1, <2>2
<1>3. \A q \in Procs : (Running(q)' <=> Running(q)) /\ (Working(q)' <=> Working(q))
  BY <1>2 DEF Running, Working
<1>4. \A q \in Procs : Running(q) \/ Working(q) => arg[q] \in Ids
  BY <1>1, BusyArg DEF Running, Working, Busy, HandlerType
<1> QED  BY <1>1, <1>2, <1>3, <1>4, ResourceFrame DEF RuntimeType

LEMMA CrashResources ==
  ASSUME TypeOK, NameInv, ResourceInv, Crash
  PROVE  ResourceInv'
<1>1. \A p \in Procs : ~Running(p)' /\ ~Working(p)'
  BY CrashNames
<1>2. /\ leaked' = leaked \cup {id \in Ids : HasResources(id)}
      /\ UNCHANGED <<nameOf, snapshots, ctrs, dirs, mounts, network, task, skipped>>
  BY DEF Crash, made, runtime
<1>3. \A id : HasResources(id)' <=> HasResources(id)
  BY <1>2 DEF HasResources
<1>4. UnusedInv' /\ MadeInv' /\ GoneInv'
  BY <1>1, <1>2, <1>3 DEF ResourceInv, UnusedInv, MadeInv, GoneInv
<1>5. NetworkInv' /\ NoOrphanResources'
  BY <1>2, <1>3 DEF ResourceInv, NetworkInv, NoOrphanResources
<1> QED  BY <1>4, <1>5 DEF ResourceInv

-----------------------------------------------------------------------------
(* The inductive invariant.                                                  *)

(* Every step is one of those above. *)
LEMMA StepKinds ==
  ASSUME Next
  PROVE  \/ \E p \in Procs : \/ Request(p) \/ Calling(p) \/ ReportStates(p) \/ Respond(p)
                             \/ AddToStore(p) \/ UndoName(p) \/ DeleteFromStore(p) \/ ReleaseName(p)
         \/ \E c \in Ctrs : ContainerStep(c)
         \/ Disturbs \/ Crash
<1>1. ASSUME NEW p \in Procs, RunStep(p) PROVE RunCalls(p) \/ AddToStore(p) \/ UndoName(p)
  BY <1>1 DEF RunStep, RunCalls
<1>2. ASSUME NEW p \in Procs, StopStep(p) PROVE WorkCalls(p) \/ KillCalls(p)
  BY <1>2 DEF StopStep, WorkCalls, KillCalls
<1>3. ASSUME NEW p \in Procs, RemoveStep(p) PROVE WorkCalls(p) \/ DeleteFromStore(p) \/ ReleaseName(p)
  BY <1>3 DEF RemoveStep, WorkCalls
<1> QED  BY <1>1, <1>2, <1>3 DEF Next, HandlerStep, EnvStep, Calling, Disturbs

LEMMA SandboxInit == Init => SandboxInv
<1> SUFFICES ASSUME Init PROVE SandboxInv
  OBVIOUS
<1>1. /\ names \in Registrars(Names, Ids) /\ names.keyToName = [id \in Ids |-> Nil]
      /\ names.nameToKey = [n \in Names |-> Nil]
  BY SMT DEF Init, NewRegistrar, Registrars
<1>2. OneToOne(names)
  BY SMT, <1>1, NilAssumption DEF OneToOne
<1>3. \A p \in Procs : pc[p] = "idle" /\ listed[p] = {} /\ ~Running(p) /\ ~Working(p)
  BY DEF Init, Running, Working, RunPcs, StopPcs, KillPcs, RemovePcs
<1>4. TypeOK
  <2>1. "idle" \in Pcs /\ "idle" \notin Busy \cup {"ctrWait", "get", "kill", "wait", "delete"} /\ spent \in Nat
    BY SMT DEF Init, Pcs, Busy, RunPcs, StopPcs, KillPcs, RemovePcs
  <2>2. HandlerType
    BY <1>3, <2>1 DEF Init, HandlerType
  <2>3. PodType /\ RuntimeType
    BY <1>1 DEF Init, PodType, RuntimeType
  <2> QED  BY <2>2, <2>3, TypeSplit
<1>5. NameInv
  BY <1>1, <1>2, <1>3 DEF Init, NameInv, FreshInv, RunInv, WorkInv, ListInv, NamesHeld, NotReadyIsFinal
<1>6. LateInv
  BY <1>3 DEF Init, LateInv, OnlyLateContainersOutlive, Stored
<1>7. \A id \in Ids : ~HasResources(id)
  BY DEF Init, HasResources
<1>8. ResourceInv
  BY <1>3, <1>7 DEF Init, ResourceInv, UnusedInv, MadeInv, GoneInv, NetworkInv, NoOrphanResources
<1> QED  BY <1>4, <1>5, <1>6, <1>8 DEF SandboxInv

LEMMA SandboxStep == SandboxInv /\ [Next]_vars => SandboxInv'
<1> SUFFICES ASSUME SandboxInv, [Next]_vars PROVE SandboxInv'
  OBVIOUS
<1>1. TypeOK /\ NameInv /\ LateInv /\ ResourceInv
  BY DEF SandboxInv
<1>2. ASSUME NEW p \in Procs, Request(p) PROVE SandboxInv'
  <2>1. TypeOK' /\ NameInv'
    BY <1>1, <1>2, RunPodSandboxNames, PlainRequestNames DEF Request, PlainRequest
  <2> QED  BY <1>1, <1>2, <2>1, RequestLate, RequestResources DEF SandboxInv
<1>3. ASSUME NEW p \in Procs, Calling(p) PROVE SandboxInv'
  BY <1>1, <1>3, CallingNames, CallingLate, CallingResources DEF SandboxInv
<1>4. ASSUME NEW p \in Procs, ReportStates(p) \/ Respond(p) PROVE SandboxInv'
  BY <1>1, <1>4, AnswerNames, AnswerLate, AnswerResources DEF SandboxInv
<1>5. ASSUME NEW p \in Procs, AddToStore(p) \/ UndoName(p) \/ DeleteFromStore(p) \/ ReleaseName(p) PROVE SandboxInv'
  <2>1. TypeOK' /\ NameInv'
    BY <1>1, <1>5, AddToStoreNames, UndoNameNames, DeleteFromStoreNames, ReleaseNameNames
  <2> QED  BY <1>1, <1>5, <2>1, StoreLate, StoreResources DEF SandboxInv
<1>6. ASSUME NEW c \in Ctrs, ContainerStep(c) PROVE SandboxInv'
  BY <1>1, <1>6, ContainerNames, ContainerLate, OtherResources DEF SandboxInv
<1>7. CASE Disturbs
  <2>1. EnvStep
    BY <1>7 DEF Disturbs, EnvStep
  <2> QED  BY <1>1, <1>7, <2>1, DisturbNames, EnvLate, OtherResources DEF SandboxInv
<1>8. CASE Crash
  <2>1. EnvStep
    BY <1>8 DEF EnvStep
  <2> QED  BY <1>1, <1>8, <2>1, CrashNames, EnvLate, CrashResources DEF SandboxInv
<1>9. CASE UNCHANGED vars
  <2>1. /\ UNCHANGED <<names, sandboxes, ctr, owner, todo, cur, listed, ears, undoing, up, pc, arg, done>>
        /\ UNCHANGED <<nameOf, config, snapshots, ctrs, dirs, mounts, task, killed, network, skipped, late, leaked, spent>>
    BY <1>9 DEF vars, memory, pods, loop, stopping, handler, made, runtime, history
  <2>2. TypeOK'
    BY <1>1, <2>1 DEF TypeOK
  <2>3. \A q \in Procs : (Running(q)' <=> Running(q)) /\ (Working(q)' <=> Working(q))
    BY <2>1 DEF Running, Working
  <2>4. HandlerType /\ RuntimeType
    BY <1>1, TypeSplit
  <2>5. NameInv'
    BY <1>1, <2>1, <2>3, <2>4, NameKept DEF HandlerType
  <2>6. LateInv'
    BY <1>1, <2>1, LateFrame
  <2>7. \A q \in Procs : Running(q) \/ Working(q) => arg[q] \in Ids
    BY <2>4, BusyArg DEF Running, Working, Busy, HandlerType
  <2>8. ResourceInv'
    BY <1>1, <2>1, <2>3, <2>4, <2>7, ResourceFrame DEF RuntimeType
  <2> QED  BY <2>2, <2>5, <2>6, <2>8 DEF SandboxInv
<1> QED  BY <1>2, <1>3, <1>4, <1>5, <1>6, <1>7, <1>8, <1>9, StepKinds

LEMMA SandboxInvHolds == Spec => []SandboxInv
  BY SandboxInit, SandboxStep, PTL DEF Spec

(* Every variable keeps its type: the stores hold ids, a handler that is at   *)
(* work has an argument, and one that has a stream open is in                 *)
(* stopSandboxContainer.                                                      *)
THEOREM SandboxTypeCorrect == Spec => []TypeOK
<1>1. SandboxInv => TypeOK
  BY DEF SandboxInv
<1> QED  BY <1>1, SandboxInvHolds, PTL

(* The name of a sandbox in the store is its own, whichever RunPodSandbox     *)
(* fail and release their names and whichever RemovePodSandbox race           *)
(* (sandbox_run.go, sandbox_remove.go).                                       *)
THEOREM SandboxNamesAreHeld == Spec => []NamesHeld
<1>1. SandboxInv => NamesHeld
  BY DEF SandboxInv, NameInv
<1> QED  BY <1>1, SandboxInvHolds, PTL

(* ListPodSandbox and PodSandboxStatus report as NOTREADY only sandboxes that *)
(* do not run and never will, however old their answer is (sandbox_list.go,   *)
(* sandbox_status.go).                                                        *)
THEOREM NotReadyStays == Spec => []NotReadyIsFinal
<1>1. SandboxInv => NotReadyIsFinal
  BY DEF SandboxInv, NameInv
<1> QED  BY <1>1, SandboxInvHolds, PTL

(* RemovePodSandbox removes every container of the sandbox but those that     *)
(* were added after it listed them (sandbox_remove.go:74).                    *)
THEOREM ContainersOutliveOnlyLate == Spec => []OnlyLateContainersOutlive
<1>1. SandboxInv => OnlyLateContainersOutlive
  BY DEF SandboxInv, LateInv
<1> QED  BY <1>1, SandboxInvHolds, PTL

(* RunPodSandbox, StopPodSandbox and RemovePodSandbox leave no snapshot,      *)
(* container, directory, mount, network or task behind for a sandbox that is  *)
(* not in the store, unless a cleanup failed or the network namespace was     *)
(* gone (sandbox_run.go, sandbox_stop.go, sandbox_remove.go).                 *)
THEOREM NoSandboxResourcesOrphaned == Spec => []NoOrphanResources
<1>1. SandboxInv => NoOrphanResources
  BY DEF SandboxInv, ResourceInv
<1> QED  BY <1>1, SandboxInvHolds, PTL

-----------------------------------------------------------------------------
(* What a StopPodSandbox has done when it returns.                           *)

Stopped(p) ==
  pc[p] \in {"get", "delete"} /\ pc'[p] = "ok" =>
    /\ task'[arg[p]] = "none"
    /\ arg[p] \notin mounts'
    /\ arg[p] \in network' => arg[p] \in skipped

LEMMA StoppedStep ==
  ASSUME SandboxInv, Next, NEW p \in Procs
  PROVE  Stopped(p)
<1>1. TypeOK /\ NameInv /\ ResourceInv /\ HandlerType /\ RuntimeType
  BY TypeSplit DEF SandboxInv
<1> SUFFICES ASSUME pc[p] \in {"get", "delete"}, pc'[p] = "ok"
             PROVE  /\ task'[arg[p]] = "none" /\ arg[p] \notin mounts'
                    /\ arg[p] \in network' => arg[p] \in skipped
  BY DEF Stopped
<1>2. pc[p] \in KillPcs /\ pc[p] \notin RunPcs \cup WorkPcs \cup Returned \cup ListPcs /\ pc[p] # pc'[p]
  BY DEF KillPcs, RunPcs, WorkPcs, StopPcs, RemovePcs, Returned, ListPcs
<1>3. ASSUME NEW q \in Procs, Calling(q) PROVE q = p /\ KillCalls(p)
  <2>1. q = p
    <3>1. Steps(q, pc'[q])
      BY <1>1, <1>3, CallingFrame DEF CallFrame
    <3> QED  BY <1>1, <1>2, <3>1 DEF Steps, HandlerType
  <2>2. ~RunCalls(p)
    BY <1>1, <1>2, RunEffect
  <2>3. ~WorkCalls(p)
    BY <1>1, <1>2, WorkEffect DEF WorkFacts
  <2> QED  BY <1>3, <2>1, <2>2, <2>3 DEF Calling
<1>4. ASSUME KillCalls(p)
      PROVE  /\ task'[arg[p]] = "none" /\ arg[p] \notin mounts'
             /\ arg[p] \in network' => arg[p] \in skipped
  <2>1. KillFacts(p)
    BY <1>1, <1>4, KillEffect
  <2>2. Working(p)
    BY <1>2, <2>1 DEF KillFacts, KillPcs, Working
  <2>3. GoneFor(pc[p], arg[p])
    BY <1>1, <2>2 DEF ResourceInv, GoneInv
  <2> QED  BY <1>2, <2>1, <2>3 DEF KillFacts, GoneFor
<1>5. ASSUME NEW q \in Procs, Request(q) PROVE FALSE
  <2>1. PICK id, at : Arrives(q, id, at)
    BY <1>5 DEF Request, RunPodSandbox, RunPodSandboxRejected, StopPodSandbox, RemovePodSandbox, ListPodSandbox,
                PodSandboxStatus
  <2> QED  BY <1>1, <1>2, <2>1 DEF Arrives, HandlerType
<1>6. ASSUME NEW q \in Procs, ReportStates(q) \/ Respond(q) PROVE FALSE
  <2>1. AnswerFacts(q)
    BY <1>1, <1>6, Answers
  <2> QED  BY <1>2, <2>1 DEF AnswerFacts
<1>7. ASSUME NEW q \in Procs, AddToStore(q) \/ UndoName(q) \/ DeleteFromStore(q) \/ ReleaseName(q) PROVE FALSE
  <2>1. PICK from \in {"add", "undoName", "rmStore", "rmName"} : \E to : Moves(q, from, to)
    BY <1>7 DEF AddToStore, UndoName, DeleteFromStore, ReleaseName
  <2> QED  BY <1>1, <1>2, <2>1 DEF Moves, HandlerType
<1>8. ASSUME NEW c \in Ctrs, ContainerStep(c) PROVE FALSE
  BY <1>1, <1>2, <1>8, ContainerNames DEF handler
<1>9. ~Disturbs
  BY <1>1, <1>2, DisturbsFacts DEF DisturbFacts
<1>10. ~Crash
  BY DEF Crash
<1> QED  BY <1>3, <1>4, <1>5, <1>6, <1>7, <1>8, <1>9, <1>10, StepKinds

(* A StopPodSandbox that succeeds leaves no task, no mount, and no network    *)
(* that it could tear down (sandbox_stop.go).                                 *)
THEOREM StopLeavesNothingUp == Spec => StopMeansDown
<1>1. SandboxInv /\ [Next]_vars => [\A p \in Procs : Stopped(p)]_vars
  BY StoppedStep
<1>2. Spec => [][\A p \in Procs : Stopped(p)]_vars
  BY <1>1, SandboxInvHolds, PTL DEF Spec
<1> QED  BY <1>2 DEF StopMeansDown, Stopped

-----------------------------------------------------------------------------
(* The containers of the sandboxes implement ContainerLifecycle.             *)

StateView(c, s) ==
  [name  |-> IF s \in Stored THEN c ELSE Nil,
   state |-> CASE s \in {"created", "starting"} -> "CREATED"
               [] s = "running" -> "RUNNING"
               [] s = "exited"  -> "EXITED"
               [] s = "removed" -> "REMOVED"
               [] OTHER         -> "UNKNOWN",
   exitCode |-> 0]

LEMMA StateViews ==
  ASSUME NEW c
  PROVE  /\ StateView(c, "absent") = Lifecycle!Absent /\ StateView(c, "creating") = Lifecycle!Absent
         /\ StateView(c, "created") = Lifecycle!Entry(c, "CREATED", 0)
         /\ StateView(c, "starting") = Lifecycle!Entry(c, "CREATED", 0)
         /\ StateView(c, "running") = Lifecycle!Entry(c, "RUNNING", 0)
         /\ StateView(c, "exited") = Lifecycle!Entry(c, "EXITED", 0)
         /\ StateView(c, "removed") = Lifecycle!Removed
<1>1. StateView(c, "absent") = Lifecycle!Absent /\ StateView(c, "creating") = Lifecycle!Absent
  BY DEF StateView, Stored, Lifecycle!Absent, Lifecycle!Entry
<1>2. /\ StateView(c, "created") = Lifecycle!Entry(c, "CREATED", 0)
      /\ StateView(c, "starting") = Lifecycle!Entry(c, "CREATED", 0)
  BY DEF StateView, Stored, Lifecycle!Entry
<1>3. StateView(c, "running") = Lifecycle!Entry(c, "RUNNING", 0)
  BY DEF StateView, Stored, Lifecycle!Entry
<1>4. StateView(c, "exited") = Lifecycle!Entry(c, "EXITED", 0)
  BY DEF StateView, Stored, Lifecycle!Entry
<1>5. StateView(c, "removed") = Lifecycle!Removed
  BY DEF StateView, Stored, Lifecycle!Removed, Lifecycle!Entry
<1> QED  BY <1>1, <1>2, <1>3, <1>4, <1>5

LEMMA ViewSteps ==
  ASSUME ctr \in [Ctrs -> {"absent", "creating", "removed"} \cup Stored], NEW c \in Ctrs,
         NEW to, ctr' = [ctr EXCEPT ![c] = to]
  PROVE  /\ ContainerView[c] = StateView(c, ctr[c])
         /\ ContainerView' = [ContainerView EXCEPT ![c] = StateView(c, to)]
<1>1. ContainerView = [d \in Ctrs |-> StateView(d, ctr[d])]
  BY DEF ContainerView, StateView
<1>2. ContainerView' = [d \in Ctrs |-> StateView(d, ctr'[d])]
  BY DEF ContainerView, StateView
<1>3. \A d \in Ctrs : ctr'[d] = IF d = c THEN to ELSE ctr[d]
  OBVIOUS
<1> HIDE DEF StateView
<1> QED  BY <1>1, <1>2, <1>3

LEMMA EntryFields ==
  ASSUME NEW n, NEW s
  PROVE  /\ Lifecycle!Entry(n, s, 0).name = n
         /\ Lifecycle!Entry(n, s, 0).state = s
         /\ Lifecycle!Entry(n, s, 0).exitCode = 0
  BY SMT DEF Lifecycle!Entry

(* A step of the containers is a step of ContainerLifecycle, or none. *)
LEMMA ViewMoves ==
  ASSUME PodType, NEW c \in Ctrs, NEW to, ctr' = [ctr EXCEPT ![c] = to],
         \/ ctr[c] = "absent" /\ to = "creating"
         \/ ctr[c] = "creating" /\ to \in {"created", "absent"}
         \/ ctr[c] = "created" /\ to \in {"starting", "exited"}
         \/ ctr[c] = "starting" /\ to \in {"running", "exited"}
         \/ ctr[c] = "running" /\ to = "exited"
         \/ ctr[c] \in {"created", "exited"} /\ to = "removed"
  PROVE  [Lifecycle!Next]_ContainerView
<1>1. /\ ContainerView[c] = StateView(c, ctr[c])
      /\ ContainerView' = [ContainerView EXCEPT ![c] = StateView(c, to)]
  BY ViewSteps DEF PodType
<1>2. ContainerView = [d \in Ctrs |-> StateView(d, ctr[d])]
  BY DEF ContainerView, StateView
<1>3. ASSUME StateView(c, to) = StateView(c, ctr[c]) PROVE ContainerView' = ContainerView
  BY <1>1, <1>2, <1>3
<1>4. CASE ctr[c] = "absent" /\ to = "creating"
  BY <1>3, <1>4, StateViews
<1>5. CASE ctr[c] = "creating" /\ to = "absent"
  BY <1>3, <1>5, StateViews
<1>6. CASE ctr[c] = "created" /\ to = "starting"
  BY <1>3, <1>6, StateViews
<1>7. CASE ctr[c] = "creating" /\ to = "created"
  <2>1. ASSUME NEW d \in Ctrs PROVE ContainerView[d].name # c
    <3>1. ContainerView[d].name = IF ctr[d] \in Stored THEN d ELSE Nil
      BY DEF ContainerView
    <3> QED  BY <1>7, <3>1, CtrAssumption DEF Stored
  <2>2. ContainerView[c] = Lifecycle!Absent /\ StateView(c, to) = Lifecycle!Entry(c, "CREATED", 0)
    BY <1>1, <1>7, StateViews
  <2>3. Lifecycle!Create(c, c)
    BY <1>1, <2>1, <2>2 DEF Lifecycle!Create
  <2> QED  BY <2>3 DEF Lifecycle!Next
<1>8. CASE ctr[c] \in {"created", "starting"} /\ to = "exited"
  <2>1. ContainerView[c] = Lifecycle!Entry(c, "CREATED", 0) /\ StateView(c, to) = Lifecycle!Entry(c, "EXITED", 0)
    BY <1>1, <1>8, StateViews
  <2>2. ContainerView[c].state = "CREATED" /\ ContainerView[c].name = c
    BY SMT, <2>1, EntryFields
  <2>3. Lifecycle!FailToStart(c)
    BY <1>1, <2>1, <2>2 DEF Lifecycle!FailToStart
  <2> QED  BY <2>3 DEF Lifecycle!Next
<1>9. CASE ctr[c] = "starting" /\ to = "running"
  <2>1. ContainerView[c] = Lifecycle!Entry(c, "CREATED", 0) /\ StateView(c, to) = Lifecycle!Entry(c, "RUNNING", 0)
    BY <1>1, <1>9, StateViews
  <2>2. ContainerView[c].state = "CREATED" /\ ContainerView[c].name = c /\ ContainerView[c].exitCode = 0
    BY SMT, <2>1, EntryFields
  <2>3. Lifecycle!Start(c)
    BY <1>1, <2>1, <2>2 DEF Lifecycle!Start
  <2> QED  BY <2>3 DEF Lifecycle!Next
<1>10. CASE ctr[c] = "running" /\ to = "exited"
  <2>1. ContainerView[c] = Lifecycle!Entry(c, "RUNNING", 0) /\ StateView(c, to) = Lifecycle!Entry(c, "EXITED", 0)
    BY <1>1, <1>10, StateViews
  <2>2. ContainerView[c].state = "RUNNING" /\ ContainerView[c].name = c
    BY SMT, <2>1, EntryFields
  <2>3. Lifecycle!Exit(c, 0)
    BY <1>1, <2>1, <2>2 DEF Lifecycle!Exit
  <2> QED  BY <2>3 DEF Lifecycle!Next
<1>11. CASE ctr[c] \in {"created", "exited"} /\ to = "removed"
  <2>1. /\ ContainerView[c] \in {Lifecycle!Entry(c, "CREATED", 0), Lifecycle!Entry(c, "EXITED", 0)}
        /\ StateView(c, to) = Lifecycle!Removed
    BY <1>1, <1>11, StateViews
  <2>2. ContainerView[c].state \in {"CREATED", "EXITED"}
    BY SMT, <2>1, EntryFields
  <2>3. Lifecycle!Remove(c)
    BY <1>1, <2>1, <2>2 DEF Lifecycle!Remove
  <2> QED  BY <2>3 DEF Lifecycle!Next
<1> QED  BY <1>4, <1>5, <1>6, <1>7, <1>8, <1>9, <1>10, <1>11

LEMMA LifecycleStep ==
  ASSUME TypeOK, Next
  PROVE  [Lifecycle!Next]_ContainerView
<1>1. HandlerType /\ PodType /\ RuntimeType
  BY TypeSplit
<1>2. ASSUME ctr' = ctr PROVE [Lifecycle!Next]_ContainerView
  BY <1>2 DEF ContainerView
<1>3. ASSUME NEW p \in Procs, Calling(p) PROVE [Lifecycle!Next]_ContainerView
  <2>1. CASE RunCalls(p)
    BY <1>1, <1>2, <2>1, RunEffect DEF Untouched
  <2>2. CASE KillCalls(p)
    BY <1>1, <1>2, <2>2, KillEffect DEF KillFacts, Untouched
  <2>3. CASE WorkCalls(p)
    <3>1. \/ ctr' = ctr
          \/ \E c \in Ctrs : ctr[c] \in {"created", "exited"} /\ ctr' = [ctr EXCEPT ![c] = "removed"]
      BY <1>1, <2>3, WorkLists DEF ListFacts
    <3> QED  BY <1>1, <1>2, <3>1, ViewMoves
  <2> QED  BY <1>3, <2>1, <2>2, <2>3 DEF Calling
<1>4. ASSUME NEW p \in Procs,
             \/ Request(p) \/ ReportStates(p) \/ Respond(p)
             \/ AddToStore(p) \/ UndoName(p) \/ DeleteFromStore(p) \/ ReleaseName(p)
      PROVE  [Lifecycle!Next]_ContainerView
  <2>1. ctr' = ctr
    BY <1>4 DEF Request, RunPodSandbox, RunPodSandboxRejected, StopPodSandbox, RemovePodSandbox, ListPodSandbox,
                PodSandboxStatus, ReportStates, Respond, AddToStore, UndoName, DeleteFromStore, ReleaseName, pods
  <2> QED  BY <1>2, <2>1
<1>5. ASSUME NEW c \in Ctrs, ContainerStep(c) PROVE [Lifecycle!Next]_ContainerView
  <2>1. ASSUME NEW from, NEW to, ContainerMoves(c, from, to) PROVE ctr[c] = from /\ ctr' = [ctr EXCEPT ![c] = to]
    BY <2>1 DEF ContainerMoves
  <2>2. CASE CreateContainer(c)
    BY <1>1, <2>1, <2>2, ViewMoves DEF CreateContainer
  <2>3. CASE EndCreate(c)
    BY <1>1, <2>1, <2>3, ViewMoves DEF EndCreate
  <2>4. CASE StartContainer(c)
    <3>1. PICK to \in {"starting", "exited"} : ContainerMoves(c, "created", to)
      BY <2>4 DEF StartContainer
    <3> QED  BY <1>1, <2>1, <3>1, ViewMoves
  <2>5. CASE EndStart(c)
    BY <1>1, <2>1, <2>5, ViewMoves DEF EndStart
  <2>6. CASE ContainerExits(c)
    BY <1>1, <2>1, <2>6, ViewMoves DEF ContainerExits
  <2>7. CASE RemoveContainer(c)
    <3>1. PICK from \in {"created", "exited"} : ContainerMoves(c, from, "removed")
      BY <2>7 DEF RemoveContainer
    <3>2. ctr[c] \in {"created", "exited"} /\ ctr' = [ctr EXCEPT ![c] = "removed"]
      BY <2>1, <3>1
    <3> QED  BY <1>1, <3>2, ViewMoves
  <2> QED  BY <1>5, <2>2, <2>3, <2>4, <2>5, <2>6, <2>7 DEF ContainerStep
<1>6. CASE Disturbs
  BY <1>2, <1>6, DisturbsFacts DEF DisturbFacts, pods
<1>7. CASE Crash
  <2>1. \A c \in Ctrs : ctr'[c] = "absent"
    BY <1>7 DEF Crash
  <2>2. ContainerView' = [c \in Ctrs |-> StateView(c, ctr'[c])]
    BY DEF ContainerView, StateView
  <2>3. ContainerView' = [c \in Ctrs |-> Lifecycle!Absent]
    BY <2>1, <2>2, StateViews
  <2> QED  BY <2>3 DEF Lifecycle!Next, Lifecycle!Restart
<1> QED  BY <1>3, <1>4, <1>5, <1>6, <1>7, StepKinds

(* What happens to the containers of the sandboxes, RemovePodSandbox          *)
(* included, is what ContainerLifecycle allows, which the container service   *)
(* implements as well.                                                        *)
THEOREM SandboxesImplementLifecycle == Spec => ContainersFollowLifecycle
<1>1. Init => Lifecycle!Init
  <2> SUFFICES ASSUME Init PROVE Lifecycle!Init
    OBVIOUS
  <2>1. ContainerView = [c \in Ctrs |-> StateView(c, ctr[c])]
    BY DEF ContainerView, StateView
  <2>2. \A c \in Ctrs : ctr[c] = "absent"
    BY DEF Init
  <2> QED  BY <2>1, <2>2, StateViews DEF Lifecycle!Init
<1>2. TypeOK /\ [Next]_vars => [Lifecycle!Next]_ContainerView
  <2>1. ASSUME UNCHANGED vars PROVE ContainerView' = ContainerView
    BY <2>1 DEF vars, pods, ContainerView
  <2> QED  BY <2>1, LifecycleStep
<1> QED  BY <1>1, <1>2, SandboxTypeCorrect, PTL DEF Spec, ContainersFollowLifecycle, Lifecycle!Spec
=============================================================================
