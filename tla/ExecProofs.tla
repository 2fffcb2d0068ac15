----------------------------- MODULE ExecProofs -----------------------------
(***************************************************************************)
(* About the processes of containers, for all sets of handlers, exec ids,  *)
(* containers, tokens and disturbances, any commands and any room after    *)
(* the entrypoint: that a handler of ExecSync reports the exit of its own  *)
(* process and leaves none behind, and that the arguments of a spec are    *)
(* its own unless another handler has come between.                        *)
(***************************************************************************)
EXTENDS ExecService, ProcessArgs, SequenceTheorems, TLAPS

-----------------------------------------------------------------------------
(* ExecSync. *)

(* A process belongs to one handler. *)
Attends == \A p, q \in Procs : exec[p] # Nil /\ exec[p] = exec[q] => p = q

(* Where a handler is tells what its process is. *)
Phase ==
  \A p \in Procs :
    /\ pc[p] = "prepare" => proc[exec[p]] = "unused"
    /\ pc[p] \in {"subscribe", "start"} => proc[exec[p]] = "prepared"
    /\ answer[p] # Nil => exec[p] # Nil /\ pc[p] \in {"delete"} \cup Returned

(* Events are true. *)
Heard ==
  \A p \in Procs : \A ev \in inbox[p] :
    ev.id \in Execs =>
      /\ proc[ev.id] \in {"stopped", "deleted"}
      /\ proc[ev.id] = "stopped" => ev.code = code[ev.id]

ExecInv == TypeOK /\ Attends /\ Phase /\ Heard /\ ExecAnswersOwn /\ NoExecLeft

-----------------------------------------------------------------------------
LEMMA NewExecIsNew ==
  ASSUME NEW p \in Procs, NEW id \in Ids, Serves(p, id)
  PROVE  \E e \in Execs :
           /\ e # Nil /\ proc[e] = "unused" /\ \A q \in Procs : exec[q] # e
           /\ exec' = [exec EXCEPT ![p] = e]
<1>1. (CHOOSE e \in NewExecs : TRUE) \in NewExecs
  BY DEF Serves
<1> QED  BY <1>1, ExecAssumption DEF NewExecs, Serves

LEMMA KilledIsCode == Killed \in ExitCodes
  BY ExecAssumption DEF Killed

LEMMA InitExec == Init => ExecInv
<1> SUFFICES ASSUME Init PROVE ExecInv
  OBVIOUS
<1>1. TypeOK
  BY DEF Init, TypeOK, ExecPcs, Returned
<1> QED  BY <1>1 DEF Init, ExecInv, Attends, Phase, Heard, ExecAnswersOwn, NoExecLeft

-----------------------------------------------------------------------------
(* Types. *)
LEMMA TypeStep == TypeOK /\ Phase /\ [Next]_vars => TypeOK'
<1> SUFFICES ASSUME TypeOK, Phase, [Next]_vars PROVE TypeOK'
  OBVIOUS
<1> USE DEF TypeOK, ExecPcs, Returned
<1>1. ASSUME NEW p \in Procs, ExecSync(p) PROVE TypeOK'
  <2>1. PICK id \in Ids : Serves(p, id)
    BY <1>1 DEF ExecSync
  <2>2. PICK e \in Execs : e # Nil /\ exec' = [exec EXCEPT ![p] = e]
    BY <2>1, NewExecIsNew
  <2>3. Arrives(p, id, "prepare")
    BY <2>1 DEF Serves
  <2> QED  BY <1>1, <2>2, <2>3, NilAssumption DEF ExecSync, Arrives, procs, streams
<1>2. ASSUME NEW p \in Procs, StreamExec(p) PROVE TypeOK'
  <2>1. PICK t \in Names : url[t] \in Ids /\ Serves(p, url[t]) /\ url' = [url EXCEPT ![t] = "used"]
    BY <1>2 DEF StreamExec
  <2>2. PICK e \in Execs : e # Nil /\ exec' = [exec EXCEPT ![p] = e]
    BY <2>1, NewExecIsNew
  <2>3. Arrives(p, url[t], "prepare")
    BY <2>1 DEF Serves
  <2> QED  BY <1>2, <2>1, <2>2, <2>3, NilAssumption DEF StreamExec, Arrives, procs, streams
<1>3. ASSUME NEW p \in Procs, PrepareExec(p) PROVE TypeOK'
  BY <1>3, ExecAssumption DEF PrepareExec, Calls, Fails, Moves, Spend, ExecOutcomes, Outcomes, streams, serving
<1>4. ASSUME NEW p \in Procs, SubscribeEvents(p) PROVE TypeOK'
  BY <1>4, ExecAssumption DEF SubscribeEvents, Calls, Fails, Moves, Spend, ExecOutcomes, Outcomes, procs, serving
<1>5. ASSUME NEW p \in Procs, StartExec(p) PROVE TypeOK'
  <2>1. /\ pc' \in [Procs -> {"idle"} \cup Returned \cup ExecPcs] /\ UNCHANGED <<arg, exec>>
        /\ done' \subseteq Procs \ Streamers /\ spent' \in Nat
        /\ \A q \in Procs : pc'[q] \in ExecPcs => pc[q] \in ExecPcs
    BY <1>5, ExecAssumption DEF StartExec, Calls, Fails, Moves, Spend, ExecOutcomes, Outcomes, serving
  <2>2. /\ ears' \in [Procs -> {"closed", "open", "broken"}] /\ inbox' \in [Procs -> SUBSET Events]
    BY <1>5 DEF StartExec, Unsubscribes, streams
  <2>3. exec[p] \in Execs /\ proc[exec[p]] = "prepared" /\ home[exec[p]] # Nil
    BY <1>5 DEF StartExec, Phase
  <2> QED  BY <1>5, <2>1, <2>2, <2>3 DEF StartExec, serving
<1>6. ASSUME NEW p \in Procs, WaitContainerExec(p) PROVE TypeOK'
  BY <1>6 DEF WaitContainerExec, Unsubscribes, Moves, Events, procs, streams
<1>7. ASSUME NEW p \in Procs, WaitFails(p) PROVE TypeOK'
  BY <1>7 DEF WaitFails, Unsubscribes, Moves, procs, serving
<1>8. ASSUME NEW p \in Procs, DeleteExec(p) PROVE TypeOK'
  BY <1>8, ExecAssumption DEF DeleteExec, Result, Forgets, Leaks, Calls, Fails, Moves, Spend, ExecOutcomes, Outcomes, streams, serving
<1>9. ASSUME NEW p \in Procs, Respond(p) PROVE TypeOK'
  BY <1>9 DEF Respond, procs, streams
<1>10. ASSUME NEW id \in Ids, Exec(id) PROVE TypeOK'
  BY <1>10 DEF Exec, procs, streams, serving, handler
<1>11. ASSUME NEW id \in Ids, CreateContainer(id) \/ StartContainer(id) \/ RemoveContainer(id) PROVE TypeOK'
  BY <1>11 DEF CreateContainer, StartContainer, RemoveContainer, procs, streams, serving, handler
<1>12. ASSUME NEW id \in Ids, InitExits(id) PROVE TypeOK'
  BY <1>12, ExecAssumption DEF InitExits, Publish, Events, procs, streams, serving, handler
<1>13. ASSUME NEW id \in Ids, MonitorDeletesTask(id) PROVE TypeOK'
  BY <1>13, KilledIsCode DEF MonitorDeletesTask, Forgets, Publish, Events, procs, streams, serving, handler
<1>14. ASSUME NEW e \in Execs, ExecExits(e) PROVE TypeOK'
  BY <1>14 DEF ExecExits, Publish, Events, procs, streams, serving, handler
<1>15. ASSUME NEW e \in Execs, OutputCloses(e) PROVE TypeOK'
  BY <1>15 DEF OutputCloses, procs, streams, serving, handler
<1>16. ASSUME NEW t \in Names, UrlExpires(t) PROVE TypeOK'
  BY <1>16 DEF UrlExpires, procs, streams, serving, handler
<1>17. ASSUME NEW p \in Procs, StreamBreaks(p) \/ Cancel(p) PROVE TypeOK'
  BY <1>17 DEF StreamBreaks, Cancel, Spend, procs, streams, serving, handler
<1>18. CASE UNCHANGED vars
  BY <1>18 DEF vars, procs, streams, serving, handler
<1> QED
  BY <1>1, <1>2, <1>3, <1>4, <1>5, <1>6, <1>7, <1>8, <1>9, <1>10, <1>11, <1>12, <1>13, <1>14, <1>15, <1>16,
     <1>17, <1>18
     DEF Next, Request, HandlerStep, ExecStep, ContainerStep, EnvStep

-----------------------------------------------------------------------------
(* The steps that change no process and no handler. *)
LEMMA FrameStep ==
  ASSUME ExecInv, UNCHANGED <<exec, answer, pc, proc, code, leaked>>,
         \A p \in Procs : inbox'[p] \subseteq inbox[p],
         \A e \in Execs : output[e] = "closed" => output'[e] = "closed"
  PROVE  Attends' /\ Phase' /\ Heard' /\ ExecAnswersOwn' /\ NoExecLeft'
<1>1. Attends' /\ Phase' /\ NoExecLeft'
  BY DEF ExecInv, Attends, Phase, NoExecLeft
<1>2. Heard'
  BY DEF ExecInv, Heard
<1>3. ExecAnswersOwn'
  BY DEF ExecInv, TypeOK, Phase, ExecAnswersOwn
<1> QED  BY <1>1, <1>2, <1>3

(* A handler takes up a process that is new. *)
LEMMA ServesStep ==
  ASSUME ExecInv, NEW p \in Procs, NEW id \in Ids, Serves(p, id),
         UNCHANGED <<streams, answer, procs, leaked>>
  PROVE  Attends' /\ Phase' /\ Heard' /\ ExecAnswersOwn' /\ NoExecLeft'
<1>1. PICK e \in Execs :
        /\ e # Nil /\ proc[e] = "unused" /\ \A q \in Procs : exec[q] # e
        /\ exec' = [exec EXCEPT ![p] = e]
  BY NewExecIsNew
<1>2. pc[p] = "idle" /\ pc' = [pc EXCEPT ![p] = "prepare"] /\ answer[p] = Nil
  BY DEF Serves, Arrives, ExecInv, Phase, Returned
<1>3. Attends'
  BY <1>1 DEF ExecInv, TypeOK, Attends
<1>4. Phase'
  BY <1>1, <1>2 DEF ExecInv, TypeOK, Phase, procs
<1>5. Heard'
  BY DEF ExecInv, Heard, procs, streams
<1>6. ExecAnswersOwn'
  BY <1>1, <1>2 DEF ExecInv, TypeOK, ExecAnswersOwn, procs
<1>7. NoExecLeft'
  BY <1>1, <1>2 DEF ExecInv, TypeOK, NoExecLeft, procs, ExecPcs
<1> QED  BY <1>3, <1>4, <1>5, <1>6, <1>7

(* A handler goes from one place to the next and its process stays as it is. *)
LEMMA HandlerMoves ==
  ASSUME ExecInv, NEW p \in Procs, NEW to,
         pc[p] \in ExecPcs, pc' = [pc EXCEPT ![p] = to],
         to \in {"start", "wait", "delete"},
         to = "start" => proc[exec[p]] = "prepared",
         to = "wait" => answer[p] = Nil,
         UNCHANGED <<exec, answer, proc, code, leaked>>,
         \A q \in Procs : inbox'[q] \subseteq inbox[q],
         \A e \in Execs : output[e] = "closed" => output'[e] = "closed",
         pc[p] # "delete"
  PROVE  Attends' /\ Phase' /\ Heard' /\ ExecAnswersOwn' /\ NoExecLeft'
<1>1. answer[p] = Nil
  BY DEF ExecInv, Phase, Returned, ExecPcs
<1>2. Attends' /\ Phase' /\ Heard'
  BY <1>1 DEF ExecInv, TypeOK, Attends, Phase, Heard
<1>3. ExecAnswersOwn'
  BY <1>1 DEF ExecInv, TypeOK, Phase, ExecAnswersOwn
<1>4. NoExecLeft'
  BY DEF ExecInv, TypeOK, NoExecLeft, ExecPcs
<1> QED  BY <1>2, <1>3, <1>4

LEMMA PrepareStep ==
  ASSUME ExecInv, NEW p \in Procs, PrepareExec(p)
  PROVE  Attends' /\ Phase' /\ Heard' /\ ExecAnswersOwn' /\ NoExecLeft'
<1>1. /\ pc[p] = "prepare" /\ exec[p] \in Execs /\ proc[exec[p]] = "unused" /\ answer[p] = Nil
      /\ \A q \in Procs : q # p => exec[q] # exec[p]
  BY DEF PrepareExec, ExecInv, TypeOK, Attends, Phase, ExecPcs, Returned
<1>2. \/ /\ pc' = [pc EXCEPT ![p] = "subscribe"]
         /\ proc' = [proc EXCEPT ![exec[p]] = "prepared"]
         /\ output' = [output EXCEPT ![exec[p]] = "open"]
      \/ pc' = [pc EXCEPT ![p] = "err"] /\ UNCHANGED <<proc, output>>
  BY DEF PrepareExec, Calls, Fails, Moves
<1>3. UNCHANGED <<inbox, exec, answer, code, leaked>>
  BY DEF PrepareExec, streams, serving
<1>4. Attends'
  BY <1>3 DEF ExecInv, Attends
<1>5. Phase'
  BY <1>1, <1>2, <1>3 DEF ExecInv, TypeOK, Phase, ExecPcs, Returned
<1>6. Heard'
  BY <1>1, <1>2, <1>3 DEF ExecInv, TypeOK, Heard
<1>7. ExecAnswersOwn'
  BY <1>1, <1>2, <1>3 DEF ExecInv, TypeOK, Phase, ExecAnswersOwn
<1>8. NoExecLeft'
  BY <1>1, <1>2, <1>3 DEF ExecInv, TypeOK, NoExecLeft, ExecPcs
<1> QED  BY <1>4, <1>5, <1>6, <1>7, <1>8

LEMMA StartStep ==
  ASSUME ExecInv, NEW p \in Procs, StartExec(p)
  PROVE  Attends' /\ Phase' /\ Heard' /\ ExecAnswersOwn' /\ NoExecLeft'
<1>1. /\ pc[p] = "start" /\ exec[p] \in Execs /\ proc[exec[p]] = "prepared" /\ answer[p] = Nil
      /\ \A q \in Procs : q # p => exec[q] # exec[p]
  BY DEF StartExec, ExecInv, TypeOK, Attends, Phase, ExecPcs, Returned
<1>2. PICK to \in {"wait", "delete"} : pc' = [pc EXCEPT ![p] = to]
  BY DEF StartExec, Calls, Fails, Moves
<1>3. /\ UNCHANGED <<exec, answer, code, leaked>>
      /\ \A q \in Procs : inbox'[q] \subseteq inbox[q]
  BY DEF StartExec, serving, streams, Unsubscribes, ExecInv, TypeOK
<1>4. /\ proc' = proc \/ proc' = [proc EXCEPT ![exec[p]] = "running"]
      /\ output' = output \/ output' = [output EXCEPT ![exec[p]] = "closed"]
  BY DEF StartExec
<1>5. Attends'
  BY <1>3 DEF ExecInv, Attends
<1>6. Phase'
  BY <1>1, <1>2, <1>3, <1>4 DEF ExecInv, TypeOK, Phase, ExecPcs, Returned
<1>7. Heard'
  BY <1>1, <1>3, <1>4 DEF ExecInv, TypeOK, Heard
<1>8. ExecAnswersOwn'
  BY <1>1, <1>2, <1>3, <1>4 DEF ExecInv, TypeOK, Phase, ExecAnswersOwn
<1>9. NoExecLeft'
  BY <1>1, <1>2, <1>3, <1>4 DEF ExecInv, TypeOK, NoExecLeft, ExecPcs
<1> QED  BY <1>5, <1>6, <1>7, <1>8, <1>9

LEMMA WaitStep ==
  ASSUME ExecInv, NEW p \in Procs, WaitContainerExec(p)
  PROVE  Attends' /\ Phase' /\ Heard' /\ ExecAnswersOwn' /\ NoExecLeft'
<1>1. PICK ev \in inbox[p] :
        IF OwnExit(p, ev)
        THEN Moves(p, "wait", "delete") /\ answer' = [answer EXCEPT ![p] = ev.code] /\ Unsubscribes(p)
        ELSE /\ Moves(p, "wait", "wait") /\ inbox' = [inbox EXCEPT ![p] = @ \ {ev}]
             /\ UNCHANGED <<answer, ears>>
  BY DEF WaitContainerExec
<1>2. /\ UNCHANGED <<exec, procs, leaked>> /\ pc[p] = "wait" /\ exec[p] \in Execs
      /\ \A q \in Procs : inbox'[q] \subseteq inbox[q]
  BY <1>1 DEF WaitContainerExec, Moves, Unsubscribes, ExecInv, TypeOK, ExecPcs
<1>3. CASE OwnExit(p, ev)
  <2>1. /\ pc' = [pc EXCEPT ![p] = "delete"] /\ answer' = [answer EXCEPT ![p] = ev.code]
        /\ proc[exec[p]] \in {"stopped", "deleted"}
        /\ proc[exec[p]] = "stopped" => ev.code = code[exec[p]]
    BY <1>1, <1>2, <1>3 DEF OwnExit, Moves, ExecInv, Heard
  <2>2. Attends' /\ Heard'
    BY <1>2 DEF ExecInv, Attends, Heard, procs
  <2>3. Phase'
    BY <1>2, <2>1, ExecAssumption DEF ExecInv, TypeOK, Phase, procs
  <2>4. ExecAnswersOwn'
    BY <1>2, <2>1 DEF ExecInv, TypeOK, ExecAnswersOwn, procs
  <2>5. NoExecLeft'
    BY <1>2, <2>1 DEF ExecInv, TypeOK, NoExecLeft, procs, ExecPcs
  <2> QED  BY <2>2, <2>3, <2>4, <2>5
<1>4. CASE ~OwnExit(p, ev)
  <2>1. pc' = [pc EXCEPT ![p] = "wait"] /\ UNCHANGED answer
    BY <1>1, <1>4 DEF Moves
  <2>2. UNCHANGED <<pc, answer>>
    BY <1>2, <2>1 DEF ExecInv, TypeOK
  <2> QED  BY <1>2, <2>2, FrameStep DEF procs
<1> QED  BY <1>3, <1>4

LEMMA DeleteStep ==
  ASSUME ExecInv, NEW p \in Procs, DeleteExec(p)
  PROVE  Attends' /\ Phase' /\ Heard' /\ ExecAnswersOwn' /\ NoExecLeft'
<1>1. /\ pc[p] = "delete" /\ exec[p] \in Execs /\ output[exec[p]] = "closed"
      /\ \A q \in Procs : q # p => exec[q] # exec[p]
  BY DEF DeleteExec, ExecInv, TypeOK, Attends, ExecPcs
<1>2. pc' = [pc EXCEPT ![p] = Result(p)] /\ Result(p) \in Returned
  BY DEF DeleteExec, Calls, Fails, Moves, Result, Returned
<1>3. UNCHANGED <<exec, answer, inbox, output>>
  BY DEF DeleteExec, serving, streams
<1>4. \/ proc[exec[p]] = "stopped" /\ Forgets({exec[p]}) /\ leaked' = leaked
      \/ UNCHANGED <<proc, code>> /\ leaked' = leaked \cup {exec[p]}
      \/ proc[exec[p]] \notin {"running", "stopped"} /\ UNCHANGED <<proc, code, leaked>>
  BY DEF DeleteExec, Leaks, Calls, Outcomes, Effective
<1>5. /\ \A e \in Execs : \/ proc'[e] = proc[e] /\ code'[e] = code[e]
                          \/ e = exec[p] /\ proc[e] = "stopped" /\ proc'[e] = "deleted"
      /\ leaked \subseteq leaked'
      /\ proc'[exec[p]] \in {"running", "stopped"} => exec[p] \in leaked'
  <2>1. CASE proc[exec[p]] = "stopped" /\ Forgets({exec[p]}) /\ leaked' = leaked
    BY <1>1, <2>1 DEF Forgets
  <2>2. CASE UNCHANGED <<proc, code>> /\ leaked' = leaked \cup {exec[p]}
    BY <1>1, <2>2
  <2>3. CASE proc[exec[p]] \notin {"running", "stopped"} /\ UNCHANGED <<proc, code, leaked>>
    BY <1>1, <2>3
  <2> QED  BY <1>4, <2>1, <2>2, <2>3
<1>6. Attends'
  BY <1>3 DEF ExecInv, Attends
<1>7. Phase'
  BY <1>1, <1>2, <1>3, <1>5 DEF ExecInv, TypeOK, Phase, Returned, ExecPcs
<1>8. Heard'
  BY <1>3, <1>5 DEF ExecInv, Heard
<1>9. ExecAnswersOwn'
  BY <1>1, <1>2, <1>3, <1>5 DEF ExecInv, TypeOK, Phase, ExecAnswersOwn
<1>10. NoExecLeft'
  BY <1>1, <1>2, <1>3, <1>5 DEF ExecInv, TypeOK, NoExecLeft, ExecPcs, Returned
<1> QED  BY <1>6, <1>7, <1>8, <1>9, <1>10

LEMMA RespondStep ==
  ASSUME ExecInv, NEW p \in Procs, Respond(p)
  PROVE  Attends' /\ Phase' /\ Heard' /\ ExecAnswersOwn' /\ NoExecLeft'
<1>1. /\ pc[p] \in Returned /\ pc' = [pc EXCEPT ![p] = "idle"] /\ UNCHANGED <<procs, streams, leaked>>
      /\ exec' = [exec EXCEPT ![p] = Nil] /\ answer' = [answer EXCEPT ![p] = Nil]
  BY DEF Respond
<1>2. Attends'
  BY <1>1 DEF ExecInv, TypeOK, Attends
<1>3. Phase'
  BY <1>1 DEF ExecInv, TypeOK, Phase, procs
<1>4. Heard'
  BY <1>1 DEF ExecInv, Heard, procs, streams
<1>5. ExecAnswersOwn'
  BY <1>1 DEF ExecInv, TypeOK, ExecAnswersOwn, procs
<1>6. NoExecLeft'
  BY <1>1 DEF ExecInv, TypeOK, NoExecLeft, procs, ExecPcs, Returned
<1> QED  BY <1>2, <1>3, <1>4, <1>5, <1>6

(* A process exits: nobody has been told of its exit before. *)
LEMMA ExitStep ==
  ASSUME ExecInv, NEW e \in Execs, ExecExits(e)
  PROVE  Attends' /\ Phase' /\ Heard' /\ ExecAnswersOwn' /\ NoExecLeft'
<1>1. PICK c \in ExitCodes :
        /\ code' = [code EXCEPT ![e] = c]
        /\ Publish({[ctr |-> home[e], id |-> e, code |-> c]})
  BY DEF ExecExits
<1>2. /\ proc[e] = "running" /\ proc' = [proc EXCEPT ![e] = "stopped"]
      /\ UNCHANGED <<exec, answer, pc, output, leaked>>
  BY DEF ExecExits, serving, handler
<1>3. Attends' /\ Phase'
  BY <1>2 DEF ExecInv, TypeOK, Attends, Phase, ExecPcs, Returned
<1>4. Heard'
  <2> SUFFICES ASSUME NEW p \in Procs, NEW ev \in inbox'[p], ev.id \in Execs
               PROVE  /\ proc'[ev.id] \in {"stopped", "deleted"}
                      /\ proc'[ev.id] = "stopped" => ev.code = code'[ev.id]
    BY DEF Heard
  <2>1. ev \in inbox[p] \/ ev = [ctr |-> home[e], id |-> e, code |-> c]
    BY <1>1 DEF Publish
  <2>2. CASE ev \in inbox[p]
    BY <1>1, <1>2, <2>2 DEF ExecInv, TypeOK, Heard
  <2>3. CASE ev = [ctr |-> home[e], id |-> e, code |-> c]
    BY <1>1, <1>2, <2>3 DEF ExecInv, TypeOK
  <2> QED  BY <2>1, <2>2, <2>3
<1>5. ExecAnswersOwn'
  BY <1>1, <1>2 DEF ExecInv, TypeOK, Phase, ExecAnswersOwn
<1>6. NoExecLeft'
  BY <1>2 DEF ExecInv, TypeOK, NoExecLeft
<1> QED  BY <1>3, <1>4, <1>5, <1>6

(* The monitor deletes a task and the processes that were started in it. *)
LEMMA MonitorStep ==
  ASSUME ExecInv, NEW id \in Ids, MonitorDeletesTask(id)
  PROVE  Attends' /\ Phase' /\ Heard' /\ ExecAnswersOwn' /\ NoExecLeft'
<1> DEFINE known == {e \in Execs : home[e] = id /\ proc[e] # "prepared"}
<1>1. PICK heard \in SUBSET {e \in known : proc[e] = "running"} :
        /\ Forgets(known)
        /\ output' = [e \in Execs |-> IF e \in known THEN "closed" ELSE output[e]]
        /\ Publish({[ctr |-> id, id |-> e, code |-> Killed] : e \in heard})
  BY DEF MonitorDeletesTask
<1>2. UNCHANGED <<exec, answer, pc, leaked>>
  BY DEF MonitorDeletesTask, serving, handler
<1>3. /\ \A e \in known : proc[e] \in {"running", "stopped"} /\ proc'[e] = "deleted" /\ output'[e] = "closed"
      /\ \A e \in Execs \ known : proc'[e] = proc[e] /\ code'[e] = code[e] /\ output'[e] = output[e]
  BY <1>1, NilAssumption DEF Forgets, ExecInv, TypeOK
<1>4. Attends' /\ Phase'
  BY <1>2, <1>3 DEF ExecInv, TypeOK, Attends, Phase, ExecPcs, Returned
<1>5. Heard'
  <2> SUFFICES ASSUME NEW p \in Procs, NEW ev \in inbox'[p], ev.id \in Execs
               PROVE  /\ proc'[ev.id] \in {"stopped", "deleted"}
                      /\ proc'[ev.id] = "stopped" => ev.code = code'[ev.id]
    BY DEF Heard
  <2>1. ev \in inbox[p] \/ \E e \in heard : ev = [ctr |-> id, id |-> e, code |-> Killed]
    BY <1>1 DEF Publish
  <2>2. CASE ev \in inbox[p]
    <3>1. /\ proc[ev.id] \in {"stopped", "deleted"}
          /\ proc[ev.id] = "stopped" => ev.code = code[ev.id]
      BY <2>2 DEF ExecInv, Heard
    <3> QED  BY <1>3, <3>1
  <2>3. CASE \E e \in heard : ev = [ctr |-> id, id |-> e, code |-> Killed]
    <3>1. ev.id \in known
      BY <2>3
    <3> QED  BY <1>3, <3>1
  <2> QED  BY <2>1, <2>2, <2>3
<1>6. ExecAnswersOwn'
  BY <1>2, <1>3 DEF ExecInv, TypeOK, Phase, ExecAnswersOwn
<1>7. NoExecLeft'
  BY <1>2, <1>3 DEF ExecInv, TypeOK, NoExecLeft
<1> QED  BY <1>4, <1>5, <1>6, <1>7

(* Init exits: its event is of no exec process. *)
LEMMA InitExitStep ==
  ASSUME ExecInv, NEW id \in Ids, InitExits(id)
  PROVE  Attends' /\ Phase' /\ Heard' /\ ExecAnswersOwn' /\ NoExecLeft'
<1>1. /\ UNCHANGED <<exec, answer, pc, proc, code, output, leaked>>
      /\ Publish({[ctr |-> id, id |-> id, code |-> 0]})
  BY DEF InitExits, serving, handler, procs
<1>2. Attends' /\ Phase' /\ ExecAnswersOwn' /\ NoExecLeft'
  BY <1>1 DEF ExecInv, Attends, Phase, ExecAnswersOwn, NoExecLeft
<1>3. Heard'
  <2> SUFFICES ASSUME NEW p \in Procs, NEW ev \in inbox'[p], ev.id \in Execs
               PROVE  /\ proc'[ev.id] \in {"stopped", "deleted"}
                      /\ proc'[ev.id] = "stopped" => ev.code = code'[ev.id]
    BY DEF Heard
  <2>1. ev \in inbox[p]
    BY <1>1, ExecAssumption DEF Publish
  <2> QED  BY <1>1, <2>1 DEF ExecInv, Heard
<1> QED  BY <1>2, <1>3

LEMMA InvStep == ExecInv /\ [Next]_vars => ExecInv'
<1> SUFFICES ASSUME ExecInv, [Next]_vars PROVE ExecInv'
  OBVIOUS
<1>1. TypeOK'
  BY TypeStep DEF ExecInv
<1> DEFINE Rest == Attends /\ Phase /\ Heard /\ ExecAnswersOwn /\ NoExecLeft
<1>2. ASSUME NEW p \in Procs, Request(p) PROVE Rest'
  <2>1. PICK id \in Ids : Serves(p, id) /\ UNCHANGED <<streams, answer, procs, leaked>>
    BY <1>2 DEF Request, ExecSync, StreamExec
  <2> QED  BY <2>1, ServesStep
<1>3. ASSUME NEW p \in Procs, SubscribeEvents(p) PROVE Rest'
  <2>1. PICK to \in {"start", "delete"} : pc[p] = "subscribe" /\ pc' = [pc EXCEPT ![p] = to]
    BY <1>3 DEF SubscribeEvents, Calls, Moves
  <2>2. UNCHANGED <<inbox, exec, answer, proc, code, output, leaked>>
    BY <1>3 DEF SubscribeEvents, serving, procs
  <2>3. proc[exec[p]] = "prepared"
    BY <2>1 DEF ExecInv, Phase
  <2> QED  BY <2>1, <2>2, <2>3, HandlerMoves DEF ExecPcs
<1>4. ASSUME NEW p \in Procs, WaitFails(p) PROVE Rest'
  <2>1. pc[p] = "wait" /\ pc' = [pc EXCEPT ![p] = "delete"]
    BY <1>4 DEF WaitFails, Moves
  <2>2. /\ UNCHANGED <<exec, answer, proc, code, output, leaked>>
        /\ \A q \in Procs : inbox'[q] \subseteq inbox[q]
    BY <1>4 DEF WaitFails, Unsubscribes, serving, procs, ExecInv, TypeOK
  <2> QED  BY <2>1, <2>2, HandlerMoves DEF ExecPcs
<1>5. ASSUME NEW p \in Procs, HandlerStep(p) PROVE Rest'
  BY <1>3, <1>4, <1>5, PrepareStep, StartStep, WaitStep, DeleteStep, RespondStep DEF HandlerStep, ExecStep
<1>6. ASSUME NEW id \in Ids, ContainerStep(id) PROVE Rest'
  <2>1. ASSUME CreateContainer(id) \/ StartContainer(id) \/ RemoveContainer(id) \/ Exec(id) PROVE Rest'
    <3>1. UNCHANGED <<inbox, exec, answer, pc, proc, code, output, leaked>>
      BY <2>1 DEF CreateContainer, StartContainer, RemoveContainer, Exec, serving, streams, procs, handler
    <3> QED  BY <3>1, FrameStep
  <2> QED  BY <1>6, <2>1, InitExitStep, MonitorStep DEF ContainerStep
<1>7. ASSUME EnvStep PROVE Rest'
  <2>1. ASSUME NEW e \in Execs, OutputCloses(e) PROVE Rest'
    <3>1. UNCHANGED <<inbox, exec, answer, pc, proc, code, leaked>>
      BY <2>1 DEF OutputCloses, serving, streams, handler
    <3>2. \A d \in Execs : output[d] = "closed" => output'[d] = "closed"
      BY <2>1 DEF OutputCloses, ExecInv, TypeOK
    <3> QED  BY <3>1, <3>2, FrameStep
  <2>2. ASSUME NEW t \in Names, UrlExpires(t) PROVE Rest'
    <3>1. UNCHANGED <<inbox, exec, answer, pc, proc, code, output, leaked>>
      BY <2>2 DEF UrlExpires, serving, streams, procs, handler
    <3> QED  BY <3>1, FrameStep
  <2>3. ASSUME NEW p \in Procs, StreamBreaks(p) \/ Cancel(p) PROVE Rest'
    <3>1. UNCHANGED <<inbox, exec, answer, pc, proc, code, output, leaked>>
      BY <2>3 DEF StreamBreaks, Cancel, serving, streams, procs, handler
    <3> QED  BY <3>1, FrameStep
  <2> QED  BY <1>7, <2>1, <2>2, <2>3, ExitStep DEF EnvStep
<1>8. CASE UNCHANGED vars
  <2>1. UNCHANGED <<inbox, exec, answer, pc, proc, code, output, leaked>>
    BY <1>8 DEF vars, serving, streams, procs, handler
  <2> QED  BY <1>1, <2>1, FrameStep DEF ExecInv
<1>9. CASE Next
  BY <1>1, <1>2, <1>5, <1>6, <1>7, <1>9 DEF Next, ExecInv
<1> QED  BY <1>8, <1>9

LEMMA InvAlways == Spec => []ExecInv
<1> QED  BY InitExec, InvStep, PTL DEF Spec

-----------------------------------------------------------------------------
(* Every reachable state of the handlers of execInContainer is well typed; in *)
(* particular only a request of the kubelet's, never a stream, is cancelled.  *)
THEOREM ExecTypeCorrect == Spec => []TypeOK
<1>1. ExecInv => TypeOK
  BY DEF ExecInv
<1> QED  BY <1>1, InvAlways, PTL

(* The exit code waitContainerExec returns is that of the handler's own       *)
(* process, and a handler that succeeds has all of its output.                *)
THEOREM ExecOwnExit == Spec => []ExecAnswersOwn
<1>1. ExecInv => ExecAnswersOwn
  BY DEF ExecInv
<1> QED  BY <1>1, InvAlways, PTL

(* Every way out of execInContainer deletes the process, or has been told     *)
(* that it could not be deleted.                                              *)
THEOREM ExecsDeleted == Spec => []NoExecLeft
<1>1. ExecInv => NoExecLeft
  BY DEF ExecInv
<1> QED  BY <1>1, InvAlways, PTL

-----------------------------------------------------------------------------
(* The arguments of a process. *)

Asked  == [kind : {"none", "container", "sandbox"}, command : Seq(Words), args : Seq(Words)]
Slices == [shared : BOOLEAN, len : Nat, own : Seq(Words)]

ArgsTypes ==
  /\ at \in [Creates -> {"idle", "args", "marshal", "create"}]
  /\ request \in [Creates -> Asked]
  /\ slice \in [Creates -> Slices]
  /\ rawArgs \in [Creates -> Seq(Words)]
  /\ spare \in [1 .. Spare -> Words]
  /\ raced \subseteq Creates

(* What a slice holds between the append and json.Marshal. *)
Holds(c) ==
  /\ slice[c].shared =>
       /\ request[c].command = <<>>
       /\ slice[c].len = Len(ArgsOf(request[c])) /\ slice[c].len <= Spare
       /\ c \notin raced => SubSeq(spare, 1, slice[c].len) = ArgsOf(request[c])
  /\ ~slice[c].shared => slice[c].own = Wanted(request[c])

ArgsInv ==
  /\ ArgsTypes
  /\ \A c \in Creates : at[c] = "marshal" => Holds(c)
  /\ ArgsOnlyByRace

-----------------------------------------------------------------------------
(* What setOCIProcessArgs makes of a request is what is called for. *)
LEMMA WantedIsAppended ==
  ASSUME NEW r \in Asked
  PROVE  /\ CommandOf(r) \in Seq(Words) /\ ArgsOf(r) \in Seq(Words)
         /\ Wanted(r) = CommandOf(r) \o ArgsOf(r) /\ Wanted(r) \in Seq(Words)
<1>1. CommandOf(r) \in Seq(Words) /\ ArgsOf(r) \in Seq(Words)
  BY ArgsAssumption DEF CommandOf, ArgsOf, Asked
<1>2. Wanted(r) = CommandOf(r) \o ArgsOf(r)
  BY DEF Wanted, CommandOf, ArgsOf
<1>3. CommandOf(r) \o ArgsOf(r) \in Seq(Words)
  BY <1>1, ConcatProperties
<1> QED  BY <1>1, <1>2, <1>3

(* The cells an append in place has written are the words appended. *)
LEMMA AppendedCells ==
  ASSUME NEW a \in Seq(Words), Fits(a), spare \in [1 .. Spare -> Words]
  PROVE  /\ Written(a) \in [1 .. Spare -> Words]
         /\ SubSeq(Written(a), 1, Len(a)) = a
         /\ a = <<>> => Written(a) = spare
<1>1. Len(a) \in Nat /\ Len(a) <= Spare /\ \A i \in 1 .. Len(a) : a[i] \in Words
  BY LenProperties, ElementOfSeq DEF Fits
<1> DEFINE n == Len(a)
<1>2. Spare \in Nat
  BY ArgsAssumption
<1>3. /\ n \in Nat /\ n <= Spare /\ \A i \in 1 .. n : a[i] \in Words
      /\ Written(a) = [i \in 1 .. Spare |-> IF i <= n THEN a[i] ELSE spare[i]]
  BY <1>1 DEF Written
<1> HIDE DEF n
<1>4. Written(a) \in [1 .. Spare -> Words]
  BY <1>2, <1>3
<1>5. \A i \in 1 .. n : Written(a)[i] = a[i]
  BY <1>2, <1>3
<1>6. SubSeq(Written(a), 1, Len(a)) = a
  <2> DEFINE w == Written(a)
  <2>1. \A i \in 1 .. Len(a) : w[i] = a[i] /\ w[i] \in Words
    BY <1>1, <1>5 DEF n
  <2> HIDE DEF w
  <2>2. /\ SubSeq(w, 1, Len(a)) \in Seq(Words)
        /\ Len(SubSeq(w, 1, Len(a))) = IF 1 <= Len(a) THEN Len(a) - 1 + 1 ELSE 0
        /\ \A i \in 1 .. Len(a) - 1 + 1 : SubSeq(w, 1, Len(a))[i] = w[1 + i - 1]
    BY <1>1, <2>1, SubSeqProperties
  <2>3. Len(SubSeq(w, 1, Len(a))) = Len(a) /\ \A i \in 1 .. Len(a) : SubSeq(w, 1, Len(a))[i] = w[i]
    BY <1>1, <2>2
  <2> DEFINE v == SubSeq(w, 1, Len(a))
  <2>4. v \in Seq(Words) /\ Len(v) = Len(a) /\ \A i \in 1 .. Len(v) : v[i] = a[i]
    BY <2>1, <2>2, <2>3
  <2> HIDE DEF v
  <2>5. v = a
    BY <2>4, SeqEqual
  <2> QED  BY <2>5 DEF v, w
<1>7. a = <<>> => Written(a) = spare
  BY EmptySeq, <1>2 DEF Written
<1> QED  BY <1>4, <1>6, <1>7

-----------------------------------------------------------------------------
LEMMA InitArgs == ArgsInit => ArgsInv
<1> SUFFICES ASSUME ArgsInit PROVE ArgsInv
  OBVIOUS
<1>1. <<>> \in Seq(Words) /\ "" \in Words
  BY EmptySeq, ArgsAssumption
<1>2. ArgsTypes
  BY <1>1 DEF ArgsInit, ArgsTypes, NoRequest, Private, Asked, Slices
<1> QED  BY <1>2 DEF ArgsInit, ArgsInv, ArgsOnlyByRace

(* The append is where one handler can disturb another. *)
LEMMA SharedFields == \A n : Shared(n).shared /\ Shared(n).len = n
BY DEF Shared

LEMMA SetArgsStep ==
  ASSUME ArgsInv, NEW c \in Creates, SetProcessArgs(c)
  PROVE  ArgsInv'
<1> DEFINE r == request[c]
           a == ArgsOf(r)
<1>1. /\ r \in Asked /\ a \in Seq(Words) /\ CommandOf(r) \in Seq(Words)
      /\ Wanted(r) = CommandOf(r) \o a /\ Wanted(r) \in Seq(Words)
  BY WantedIsAppended DEF ArgsInv, ArgsTypes
<1>2. Len(a) \in Nat /\ <<>> \in Seq(Words)
  BY <1>1, LenProperties, EmptySeq
<1>3. /\ ArgsTypes /\ UNCHANGED <<request, rawArgs>>
      /\ at' = [at EXCEPT ![c] = "marshal"] /\ at[c] = "args"
  BY DEF ArgsInv, SetProcessArgs
<1>4. ArgsOnlyByRace'
  <2>1. raced \subseteq raced'
    BY DEF SetProcessArgs
  <2> QED  BY <1>3, <2>1 DEF ArgsInv, ArgsTypes, ArgsOnlyByRace, Wanted
<1>5. CASE /\ r.command = <<>> /\ Fits(a)
           /\ spare' = Written(a)
           /\ slice' = [slice EXCEPT ![c] = Shared(Len(a))]
           /\ raced' = raced \cup
                {d \in Creates : at[d] = "marshal" /\ slice[d].shared /\ a # <<>> /\ ArgsOf(request[d]) # a}
  <2>1. /\ spare' \in [1 .. Spare -> Words] /\ SubSeq(spare', 1, Len(a)) = a
        /\ a = <<>> => spare' = spare
    BY <1>1, <1>3, <1>5, AppendedCells DEF ArgsTypes
  <2>2. ArgsTypes'
    <3>1. Shared(Len(a)) \in Slices
      BY <1>2 DEF Shared, Slices
    <3> HIDE DEF a
    <3> QED  BY <1>3, <1>5, <2>1, <3>1 DEF ArgsTypes
  <2>3. Holds(c)'
    <3>1. slice'[c] = Shared(Len(a)) /\ request'[c] = r
      BY <1>3, <1>5, Zenon DEF ArgsTypes
    <3>2. Len(a) <= Spare
      BY <1>5 DEF Fits
    <3>3. ArgsOf(request[c])' = a
      BY <3>1, Zenon DEF ArgsOf
    <3> HIDE DEF a
    <3>4. slice'[c].shared /\ slice'[c].len = Len(a)
      BY <3>1, SharedFields, Zenon
    <3>5. request'[c].command = <<>>
      BY <1>5, <3>1, Zenon
    <3> QED  BY <2>1, <3>2, <3>3, <3>4, <3>5, Zenon DEF Holds
  <2>4. ASSUME NEW d \in Creates, d # c, at'[d] = "marshal" PROVE Holds(d)'
    <3>1. at[d] = "marshal" /\ slice'[d] = slice[d] /\ request'[d] = request[d] /\ Holds(d)
      BY <1>3, <1>5, <2>4 DEF ArgsTypes, ArgsInv
    <3>2. CASE ~slice[d].shared
      BY <3>1, <3>2 DEF Holds, Wanted
    <3>3. CASE slice[d].shared /\ d \in raced'
      BY <3>1, <3>3 DEF Holds, ArgsOf
    <3>4. CASE slice[d].shared /\ d \notin raced'
      <4>1. d \notin raced /\ (a = <<>> \/ ArgsOf(request[d]) = a)
        BY <1>5, <3>1, <3>4
      <4>2. SubSeq(spare', 1, slice[d].len) = ArgsOf(request[d])
        BY <2>1, <3>1, <3>4, <4>1 DEF Holds
      <4> QED  BY <3>1, <3>4, <4>2 DEF Holds, ArgsOf
    <3> QED  BY <3>2, <3>3, <3>4
  <2> QED  BY <1>4, <2>2, <2>3, <2>4 DEF ArgsInv
<1>6. CASE /\ r.command # <<>> \/ ~Fits(a)
           /\ slice' = [slice EXCEPT ![c] = Private(CommandOf(r) \o a)]
           /\ UNCHANGED <<spare, raced>>
  <2>1. slice'[c] = [shared |-> FALSE, len |-> 0, own |-> Wanted(r)] /\ request'[c] = r
    BY <1>1, <1>3, <1>6 DEF ArgsTypes, Private
  <2>2. ArgsTypes'
    <3>1. Private(CommandOf(r) \o a) \in Slices
      BY <1>1 DEF Private, Slices
    <3> QED  BY <1>3, <1>6, <3>1 DEF ArgsTypes
  <2>3. Holds(c)'
    BY <2>1 DEF Holds, Wanted
  <2>4. ASSUME NEW d \in Creates, d # c, at'[d] = "marshal" PROVE Holds(d)'
    <3>1. at[d] = "marshal" /\ slice'[d] = slice[d] /\ request'[d] = request[d] /\ Holds(d)
      BY <1>3, <1>6, <2>4 DEF ArgsTypes, ArgsInv
    <3> QED  BY <1>6, <3>1 DEF Holds, Wanted, ArgsOf
  <2> QED  BY <1>4, <2>2, <2>3, <2>4 DEF ArgsInv
<1> QED  BY <1>5, <1>6 DEF SetProcessArgs

(* json.Marshal reads what the append has left. *)
LEMMA MarshalStep ==
  ASSUME ArgsInv, NEW c \in Creates, MarshalSpec(c)
  PROVE  ArgsInv'
<1>1. /\ ArgsTypes /\ at[c] = "marshal" /\ Holds(c) /\ UNCHANGED <<request, spare, raced>>
      /\ at' = [at EXCEPT ![c] = "create"]
      /\ rawArgs' = [rawArgs EXCEPT ![c] = ReadSlice(slice[c])]
      /\ slice' = [slice EXCEPT ![c] = Private(<<>>)]
  BY DEF ArgsInv, MarshalSpec
<1> DEFINE r == request[c]
<1>2. /\ r \in Asked /\ ArgsOf(r) \in Seq(Words) /\ <<>> \in Seq(Words) /\ Entrypoint \in Seq(Words)
      /\ Wanted(r) = CommandOf(r) \o ArgsOf(r) /\ Wanted(r) \in Seq(Words)
  BY <1>1, WantedIsAppended, EmptySeq, ArgsAssumption DEF ArgsTypes
<1>3. c \notin raced => ReadSlice(slice[c]) = Wanted(r)
  BY <1>1, <1>2 DEF Holds, ReadSlice, CommandOf
<1>4. ReadSlice(slice[c]) \in Seq(Words)
  <2>1. CASE ~slice[c].shared
    BY <1>1, <1>2, <2>1 DEF Holds, ReadSlice
  <2>2. CASE slice[c].shared
    <3> DEFINE n == slice[c].len
    <3>1. n \in Nat /\ n <= Spare /\ Spare \in Nat /\ \A i \in 1 .. Spare : spare[i] \in Words
      BY <1>1, <1>2, <2>2, ArgsAssumption DEF Holds, ArgsTypes, Slices
    <3> HIDE DEF n
    <3>2. 1 \in Int /\ n \in Int /\ \A i \in 1 .. n : spare[i] \in Words
      BY <3>1
    <3>3. SubSeq(spare, 1, n) \in Seq(Words)
      BY <3>2, SubSeqProperties
    <3>4. Entrypoint \o SubSeq(spare, 1, n) \in Seq(Words)
      BY <1>2, <3>3, ConcatProperties
    <3> QED  BY <2>2, <3>4 DEF ReadSlice, n
  <2> QED  BY <2>1, <2>2
<1>5. ArgsTypes'
  <2>1. Private(<<>>) \in Slices
    BY <1>2 DEF Private, Slices
  <2> QED  BY <1>1, <1>4, <2>1 DEF ArgsTypes
<1>6. ASSUME NEW d \in Creates, at'[d] = "marshal" PROVE Holds(d)'
  <2>1. d # c /\ at[d] = "marshal" /\ slice'[d] = slice[d] /\ Holds(d)
    BY <1>1, <1>6 DEF ArgsTypes, ArgsInv
  <2> QED  BY <1>1, <2>1 DEF Holds, Wanted, ArgsOf
<1>7. ArgsOnlyByRace'
  <2> SUFFICES ASSUME NEW d \in Creates, at'[d] = "create", d \notin raced
               PROVE  rawArgs'[d] = Wanted(request[d])
    BY <1>1 DEF ArgsOnlyByRace, Wanted
  <2>1. CASE d = c
    BY <1>1, <1>3, <2>1 DEF ArgsTypes
  <2>2. CASE d # c
    BY <1>1, <2>2 DEF ArgsTypes, ArgsInv, ArgsOnlyByRace
  <2> QED  BY <2>1, <2>2
<1> QED  BY <1>5, <1>6, <1>7 DEF ArgsInv

(* The steps that touch no slice and no cell. *)
LEMMA QuietStep ==
  ASSUME ArgsInv, ArgsTypes', UNCHANGED <<slice, spare>>,
         \A d \in Creates : at'[d] = "marshal" => at[d] = "marshal" /\ request'[d] = request[d],
         \A d \in Creates : at'[d] = "create" =>
           at[d] = "create" /\ request'[d] = request[d] /\ rawArgs'[d] = rawArgs[d],
         \A d \in Creates : at'[d] \in {"marshal", "create"} => (d \in raced' <=> d \in raced)
  PROVE  ArgsInv'
<1>1. ASSUME NEW d \in Creates, at'[d] = "marshal" PROVE Holds(d)'
  BY <1>1 DEF ArgsInv, Holds, Wanted, ArgsOf
<1>2. ArgsOnlyByRace'
  BY DEF ArgsInv, ArgsOnlyByRace, Wanted
<1> QED  BY <1>1, <1>2 DEF ArgsInv

LEMMA StepArgs == ArgsInv /\ [ArgsNext]_argsVars => ArgsInv'
<1> SUFFICES ASSUME ArgsInv, [ArgsNext]_argsVars PROVE ArgsInv'
  OBVIOUS
<1>1. <<>> \in Seq(Words) /\ Commands \subseteq Seq(Words) /\ ArgsTypes
  BY EmptySeq, ArgsAssumption DEF ArgsInv
<1>2. NoRequest \in Asked
  BY <1>1 DEF NoRequest, Asked
<1>3. ASSUME NEW c \in Creates, CreatesContainer(c) PROVE ArgsInv'
  <2>1. ArgsTypes'
    <3>1. PICK command \in Commands, args \in Commands :
            request' = [request EXCEPT ![c] = [kind |-> "container", command |-> command, args |-> args]]
      BY <1>3, Zenon DEF CreatesContainer
    <3> DEFINE new == [kind |-> "container", command |-> command, args |-> args]
    <3>2. new \in Asked
      BY <1>1, Zenon DEF Asked
    <3>3. request' = [request EXCEPT ![c] = new]
      BY <3>1
    <3> HIDE DEF new
    <3> QED  BY <1>1, <1>3, <3>2, <3>3, Zenon DEF CreatesContainer, ArgsTypes
  <2> QED  BY <1>1, <1>3, <2>1, QuietStep DEF CreatesContainer, ArgsTypes
<1>4. ASSUME NEW c \in Creates, RunsPodSandbox(c) PROVE ArgsInv'
  <2>1. ArgsTypes'
    <3> DEFINE new == [kind |-> "sandbox", command |-> <<>>, args |-> <<>>]
    <3>1. new \in Asked
      BY <1>1, Zenon DEF Asked
    <3>2. request' = [request EXCEPT ![c] = new]
      BY <1>4 DEF RunsPodSandbox
    <3> HIDE DEF new
    <3> QED  BY <1>1, <1>4, <3>1, <3>2, Zenon DEF RunsPodSandbox, ArgsTypes
  <2> QED  BY <1>1, <1>4, <2>1, QuietStep DEF RunsPodSandbox, ArgsTypes
<1>5. ASSUME NEW c \in Creates, NoCommand(c) PROVE ArgsInv'
  <2>1. ArgsTypes'
    BY <1>1, <1>2, <1>5 DEF NoCommand, ArgsTypes
  <2> QED  BY <1>1, <1>5, <2>1, QuietStep DEF NoCommand, ArgsTypes
<1>6. ASSUME NEW c \in Creates, CreateWithSpec(c) PROVE ArgsInv'
  <2>1. ArgsTypes'
    BY <1>1, <1>2, <1>6 DEF CreateWithSpec, ArgsTypes
  <2> QED  BY <1>1, <1>6, <2>1, QuietStep DEF CreateWithSpec, ArgsTypes
<1>7. CASE UNCHANGED argsVars
  <2>1. ArgsTypes'
    BY <1>1, <1>7 DEF argsVars, ArgsTypes
  <2> QED  BY <1>7, <2>1, QuietStep DEF argsVars
<1> QED
  BY <1>3, <1>4, <1>5, <1>6, <1>7, SetArgsStep, MarshalStep DEF ArgsNext

(* The arguments of a container are its own unless another handler has        *)
(* appended different ones to the shared entrypoint between the append of     *)
(* setOCIProcessArgs and json.Marshal (container_create.go:308): for any      *)
(* number of handlers, any commands and any room after the entrypoint.        *)
THEOREM ArgsMixedOnlyByRace == ArgsSpec => []ArgsOnlyByRace
<1>1. ArgsInv => ArgsOnlyByRace
  BY DEF ArgsInv
<1> QED  BY <1>1, InitArgs, StepArgs, PTL DEF ArgsSpec
=============================================================================
