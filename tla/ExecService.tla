----------------------------- MODULE ExecService -----------------------------
(***************************************************************************)
(* The processes cri-containerd runs in a container on request: ExecSync,  *)
(* and the streaming server's Exec.  Both go through execInContainer, which*)
(* starts a process, waits for its exit and its output, and deletes it.    *)
(*                                                                         *)
(* The containers are those of ContainerLifecycle, created, started, ended *)
(* and removed by handlers that are not shown here.  containerd, its event *)
(* service, the streams of a process and the URL cache of the streaming    *)
(* server are external.                                                    *)
(***************************************************************************)
EXTENDS Requests

CONSTANTS
  Execs,        \* ids generateID can return for exec processes
  Streamers,    \* the handlers that are the streaming server's, among Procs
  ExitCodes     \* exit codes of processes

ASSUME ExecAssumption ==
  /\ Nil \notin Execs /\ Execs \cap Ids = {} /\ Streamers \subseteq Procs
  /\ Nil \notin ExitCodes /\ 0 \in ExitCodes /\ ExitCodes # {0}

VARIABLES
  (* Memory of cri-containerd. *)
  ctr,          \* the containers, as the container store has them
  exec,         \* per handler: the exec process it works on
  ears,         \* per handler: its event stream
  inbox,        \* per handler: events sent to it and not received yet
  answer,       \* per handler: the exit code it has been told
  url,          \* the tokens of the URLs Exec gave out, and for which container
  (* containerd. *)
  task,         \* the init process of each container
  proc,         \* the exec processes
  home,         \* the container of each
  code,         \* the exit code of each
  output,       \* the streams of each, open until no process holds them
  (* History. *)
  unheard       \* exec processes that ended with the task, without an event

streams == <<ears, inbox>>
serving == <<exec, answer>>
procs   == <<proc, home, code, output, unheard>>
vars == <<ctr, streams, serving, url, task, procs, up, handler, leaked, spent>>

-----------------------------------------------------------------------------
(* Types.                                                                    *)

ExecPcs  == {"prepare", "subscribe", "start", "wait", "delete"}
Returned == {"ok", "err"}

Events == [ctr : Ids, id : Ids \cup Execs, code : ExitCodes]

TypeOK ==
  /\ ctr \in [Ids -> {"absent", "created", "running", "exited", "removed"}]
  /\ exec \in [Procs -> Execs \cup {Nil}]
  /\ ears \in [Procs -> {"closed", "open", "broken"}]
  /\ inbox \in [Procs -> SUBSET Events]
  /\ answer \in [Procs -> ExitCodes \cup {Nil}]
  /\ url \in [Names -> Ids \cup {Nil, "used"}]
  /\ task \in [Ids -> {"none", "running", "stopped"}]
  /\ proc \in [Execs -> {"unused", "prepared", "running", "stopped", "deleted"}]
  /\ home \in [Execs -> Ids \cup {Nil}]
  /\ code \in [Execs -> ExitCodes \cup {Nil}]
  /\ output \in [Execs -> {"none", "open", "closed"}]
  /\ up \in BOOLEAN
  /\ pc \in [Procs -> {"idle"} \cup Returned \cup ExecPcs]
  /\ arg \in [Procs -> Ids \cup {Nil}]
  /\ \A p \in Procs : pc[p] \in ExecPcs => arg[p] # Nil /\ exec[p] # Nil
  /\ \A e \in Execs : home[e] = Nil <=> proc[e] \in {"unused", "deleted"}
  /\ done \subseteq Procs \ Streamers
  /\ unheard \subseteq Execs /\ leaked \subseteq Execs
  /\ spent \in Nat

Init ==
  /\ ctr = [id \in Ids |-> "absent"]
  /\ exec = [p \in Procs |-> Nil] /\ answer = [p \in Procs |-> Nil]
  /\ ears = [p \in Procs |-> "closed"] /\ inbox = [p \in Procs |-> {}]
  /\ url = [t \in Names |-> Nil]
  /\ task = [id \in Ids |-> "none"]
  /\ proc = [e \in Execs |-> "unused"] /\ home = [e \in Execs |-> Nil]
  /\ code = [e \in Execs |-> Nil] /\ output = [e \in Execs |-> "none"]
  /\ up = TRUE
  /\ pc = [p \in Procs |-> "idle"] /\ arg = [p \in Procs |-> Nil] /\ done = {}
  /\ unheard = {} /\ leaked = {} /\ spent = 0

-----------------------------------------------------------------------------
(* execInContainer (container_execsync.go).                                  *)

(* The container has to be in the store, and running as far as its status     *)
(* says; otherwise the request fails at once and nothing changes.  The exec   *)
(* id is one that generateID has not returned before.                         *)
NewExecs == {e \in Execs : proc[e] = "unused" /\ \A p \in Procs : exec[p] # e}

Serves(p, id) ==
  /\ ctr[id] = "running" /\ NewExecs # {}
  /\ Arrives(p, id, "prepare")
  /\ exec' = [exec EXCEPT ![p] = CHOOSE e \in NewExecs : TRUE]

ExecSync(p) ==
  /\ p \notin Streamers
  /\ \E id \in Ids : Serves(p, id)
  /\ UNCHANGED <<ctr, streams, answer, url, task, procs, up, leaked>>

(* Exec (container_exec.go) gives out a URL for a container that is running;  *)
(* it makes no call.  The token of a URL is never given out again.            *)
Exec(id) ==
  /\ up
  /\ ctr[id] = "running"
  /\ \E t \in Names :
       /\ url[t] = Nil
       /\ url' = [url EXCEPT ![t] = id]
  /\ UNCHANGED <<ctr, streams, serving, task, procs, up, handler, leaked, spent>>

(* The client connects to the URL (streaming.go): the token is good for once, *)
(* and the container is looked at again.                                      *)
StreamExec(p) ==
  /\ p \in Streamers
  /\ \E t \in Names :
       /\ url[t] \in Ids
       /\ Serves(p, url[t])
       /\ url' = [url EXCEPT ![t] = "used"]
  /\ UNCHANGED <<ctr, streams, answer, task, procs, up, leaked>>

(* Mutant: a stream is served with the context of a request. *)
ExecOutcomesOfRequest(p) == Outcomes(p)

(* The context of a stream is context.Background(): nobody gives up. *)
ExecOutcomes(p) == IF p \in Streamers THEN Outcomes(p) \ {"lost"} ELSE Outcomes(p)

(* LoadContainer and container.Task only read, and a container that is removed *)
(* has no task either; task.Exec makes named pipes that nobody else knows of,  *)
(* and goroutines that copy from them.                                         *)
PrepareExec(p) ==
  /\ pc[p] = "prepare"
  /\ \/ /\ task[arg[p]] # "none"
        /\ \E out \in ExecOutcomes(p) :
             /\ Calls(p, "prepare", out, "subscribe", "err")
             /\ IF out = "ok"
                THEN /\ proc' = [proc EXCEPT ![exec[p]] = "prepared"]
                     /\ output' = [output EXCEPT ![exec[p]] = "open"]
                     /\ home' = [home EXCEPT ![exec[p]] = arg[p]]
                ELSE UNCHANGED <<proc, output, home>>
     \/ /\ task[arg[p]] = "none"
        /\ Fails(p, "prepare", "err")
        /\ UNCHANGED <<proc, output, home>>
  /\ UNCHANGED <<ctr, streams, serving, url, task, code, unheard, up, leaked>>

SubscribeEvents(p) ==
  /\ \E out \in ExecOutcomes(p) :
       /\ Calls(p, "subscribe", out, "start", "delete")
       /\ ears' = IF out = "ok" THEN [ears EXCEPT ![p] = "open"] ELSE ears
  /\ UNCHANGED <<ctr, inbox, serving, url, task, procs, up, leaked>>

(* The deferred cancel. *)
Unsubscribes(p) ==
  /\ ears' = [ears EXCEPT ![p] = "closed"]
  /\ inbox' = [inbox EXCEPT ![p] = {}]

(* process.Start.  When it fails it stops the copying from pipes that nobody  *)
(* has opened; a process that runs although the answer was lost has opened    *)
(* them.                                                                      *)
StartExec(p) ==
  /\ pc[p] = "start"
  /\ \/ /\ task[arg[p]] = "running"
        /\ \E out \in ExecOutcomes(p) :
             /\ Calls(p, "start", out, "wait", "delete")
             /\ IF Effective(out)
                THEN /\ proc' = [proc EXCEPT ![exec[p]] = "running"]
                     /\ UNCHANGED output
                ELSE /\ output' = [output EXCEPT ![exec[p]] = "closed"]
                     /\ UNCHANGED proc
             /\ IF out = "ok" THEN UNCHANGED streams ELSE Unsubscribes(p)
     \/ /\ task[arg[p]] # "running"
        /\ Fails(p, "start", "delete")
        /\ output' = [output EXCEPT ![exec[p]] = "closed"]
        /\ Unsubscribes(p)
        /\ UNCHANGED proc
  /\ UNCHANGED <<ctr, serving, url, task, home, code, unheard, up, leaked>>

(* Mutant: any exit in the container. *)
AnyExit(p, ev) == ev.ctr = arg[p]

(* Mutant: the exit of the container, in place of the process. *)
InitExit(p, ev) == ev.ctr = arg[p] /\ ev.id = arg[p]

OwnExit(p, ev) == ev.ctr = arg[p] /\ ev.id = exec[p]

(* waitContainerExec: events are received until one is the exit of the        *)
(* process.  The stream is not read again, and the deferred cancel closes it. *)
WaitContainerExec(p) ==
  /\ \E ev \in inbox[p] :
       IF OwnExit(p, ev)
       THEN /\ Moves(p, "wait", "delete")
            /\ answer' = [answer EXCEPT ![p] = ev.code]
            /\ Unsubscribes(p)
       ELSE /\ Moves(p, "wait", "wait")
            /\ inbox' = [inbox EXCEPT ![p] = @ \ {ev}]
            /\ UNCHANGED <<answer, ears>>
  /\ UNCHANGED <<ctr, exec, url, task, procs, up, done, leaked, spent>>

(* Mutant: the process is deleted by the success path only. *)
WaitFailsKeeps(p) ==
  /\ ears[p] = "broken" \/ p \in done
  /\ Moves(p, "wait", "err")
  /\ Unsubscribes(p)
  /\ UNCHANGED <<ctr, serving, url, task, procs, up, done, leaked, spent>>

(* The stream is broken, or its context is done. *)
WaitFails(p) ==
  /\ ears[p] = "broken" \/ p \in done
  /\ Moves(p, "wait", "delete")
  /\ Unsubscribes(p)
  /\ UNCHANGED <<ctr, serving, url, task, procs, up, done, leaked, spent>>

(* streamRuntime.Exec makes an error of an exit code; ExecSync passes it on. *)
Result(p) == IF answer[p] = Nil \/ (p \in Streamers /\ answer[p] # 0) THEN "err" ELSE "ok"

(* containerd forgets the processes in gone. *)
Forgets(gone) ==
  /\ proc' = [e \in Execs |-> IF e \in gone THEN "deleted" ELSE proc[e]]
  /\ home' = [e \in Execs |-> IF e \in gone THEN Nil ELSE home[e]]
  /\ code' = [e \in Execs |-> IF e \in gone THEN Nil ELSE code[e]]

(* process.IO().Wait(), on success, and the deferred process.Delete, both wait *)
(* for the copying to end.  containerd is then asked to forget the process,    *)
(* which it does for one that has ended; an error is logged.                   *)
DeleteExec(p) ==
  /\ pc[p] = "delete" /\ output[exec[p]] = "closed"
  /\ \/ /\ proc[exec[p]] = "stopped"
        /\ \E out \in ExecOutcomes(p) :
             /\ Calls(p, "delete", out, Result(p), Result(p))
             /\ IF Effective(out) THEN Forgets({exec[p]}) ELSE UNCHANGED <<proc, home, code>>
             /\ Leaks(exec[p], out = "refused")
     \/ /\ proc[exec[p]] # "stopped"
        /\ Fails(p, "delete", Result(p))
        /\ Leaks(exec[p], proc[exec[p]] = "running")
        /\ UNCHANGED <<proc, home, code>>
  /\ UNCHANGED <<ctr, streams, serving, url, task, output, unheard, up>>

Respond(p) ==
  /\ up
  /\ pc[p] \in Returned
  /\ pc' = [pc EXCEPT ![p] = "idle"]
  /\ arg' = [arg EXCEPT ![p] = Nil]
  /\ exec' = [exec EXCEPT ![p] = Nil]
  /\ answer' = [answer EXCEPT ![p] = Nil]
  /\ done' = done \ {p}
  /\ UNCHANGED <<ctr, streams, url, task, procs, up, leaked, spent>>

-----------------------------------------------------------------------------
(* containerd, the processes and the clients.                                *)

(* The event service sends events to every open stream. *)
Publish(evs) == inbox' = [p \in Procs |-> IF ears[p] = "open" THEN inbox[p] \cup evs ELSE inbox[p]]

(* The container's own handlers and the event monitor (ContainerService). *)
CreateContainer(id) ==
  /\ up
  /\ ctr[id] = "absent"
  /\ ctr' = [ctr EXCEPT ![id] = "created"]
  /\ UNCHANGED <<streams, serving, url, task, procs, up, handler, leaked, spent>>

StartContainer(id) ==
  /\ up
  /\ ctr[id] = "created"
  /\ ctr' = [ctr EXCEPT ![id] = "running"]
  /\ task' = [task EXCEPT ![id] = "running"]
  /\ UNCHANGED <<streams, serving, url, procs, up, handler, leaked, spent>>

(* The code init exits with plays no part here. *)
InitExits(id) ==
  /\ task[id] = "running"
  /\ task' = [task EXCEPT ![id] = "stopped"]
  /\ Publish({[ctr |-> id, id |-> id, code |-> 0]})
  /\ UNCHANGED <<ctr, ears, serving, url, procs, up, handler, leaked, spent>>

(* What a process that was killed exits with. *)
Killed == CHOOSE c \in ExitCodes : c # 0

(* The monitor deletes the task.  The exec processes that are left die with   *)
(* it, and with the shim that would have told of their exit: it may or may    *)
(* not have done so.                                                          *)
MonitorDeletesTask(id) ==
  /\ up
  /\ task[id] = "stopped"
  /\ LET known == {e \in Execs : home[e] = id /\ proc[e] # "prepared"}
         left == {e \in known : proc[e] = "running"} IN
     \E heard \in SUBSET left :
       /\ task' = [task EXCEPT ![id] = "none"]
       /\ ctr' = [ctr EXCEPT ![id] = "exited"]
       /\ Forgets(known)
       /\ output' = [e \in Execs |-> IF e \in known THEN "closed" ELSE output[e]]
       /\ unheard' = unheard \cup (left \ heard)
       /\ Publish({[ctr |-> id, id |-> e, code |-> Killed] : e \in heard})
  /\ UNCHANGED <<ears, serving, url, up, handler, leaked, spent>>

RemoveContainer(id) ==
  /\ up
  /\ ctr[id] = "exited"
  /\ ctr' = [ctr EXCEPT ![id] = "removed"]
  /\ UNCHANGED <<streams, serving, url, task, procs, up, handler, leaked, spent>>

(* The process exits. *)
ExecExits(e) ==
  /\ proc[e] = "running"
  /\ proc' = [proc EXCEPT ![e] = "stopped"]
  /\ \E c \in ExitCodes :
       /\ code' = [code EXCEPT ![e] = c]
       /\ Publish({[ctr |-> home[e], id |-> e, code |-> c]})
  /\ UNCHANGED <<ctr, ears, serving, url, task, home, output, unheard, up, handler, leaked, spent>>

(* The process closes its streams, before it exits or after: a child of it    *)
(* may keep them open.                                                        *)
OutputCloses(e) ==
  /\ proc[e] \in {"running", "stopped"} /\ output[e] = "open"
  /\ output' = [output EXCEPT ![e] = "closed"]
  /\ UNCHANGED <<ctr, streams, serving, url, task, proc, home, code, unheard, up, handler, leaked, spent>>

(* A token is good for one minute; it is also spent when the client connects  *)
(* and the container is not running any more.                                 *)
UrlExpires(t) ==
  /\ url[t] \in Ids
  /\ url' = [url EXCEPT ![t] = "used"]
  /\ UNCHANGED <<ctr, streams, serving, task, procs, up, handler, leaked, spent>>

StreamBreaks(p) ==
  /\ May("stream")
  /\ ears[p] = "open"
  /\ ears' = [ears EXCEPT ![p] = "broken"]
  /\ Spend(1)
  /\ UNCHANGED <<ctr, inbox, serving, url, task, procs, up, handler, leaked>>

Cancel(p) ==
  /\ May("cancel")
  /\ pc[p] \in ExecPcs
  /\ p \notin Streamers \cup done
  /\ done' = done \cup {p}
  /\ Spend(1)
  /\ UNCHANGED <<ctr, streams, serving, url, task, procs, up, pc, arg, leaked>>

-----------------------------------------------------------------------------
Request(p) == ExecSync(p) \/ StreamExec(p)

ExecStep(p) ==
  \/ PrepareExec(p) \/ SubscribeEvents(p) \/ StartExec(p)
  \/ WaitContainerExec(p) \/ WaitFails(p) \/ DeleteExec(p)

HandlerStep(p) == ExecStep(p) \/ Respond(p)

ContainerStep(id) ==
  \/ CreateContainer(id) \/ StartContainer(id) \/ Exec(id)
  \/ InitExits(id) \/ MonitorDeletesTask(id) \/ RemoveContainer(id)

EnvStep ==
  \/ \E e \in Execs : ExecExits(e) \/ OutputCloses(e)
  \/ \E t \in Names : UrlExpires(t)
  \/ \E p \in Procs : StreamBreaks(p) \/ Cancel(p)

Next ==
  \/ \E p \in Procs : Request(p) \/ HandlerStep(p)
  \/ \E id \in Ids : ContainerStep(id)
  \/ EnvStep

Spec == Init /\ [][Next]_vars

(* Goroutines run and calls return.  Nothing is assumed of the processes: a  *)
(* command may run for ever, and ExecSync has no timeout.                    *)
Fairness == \A p \in Procs : WF_vars(HandlerStep(p))

FairSpec == Spec /\ Fairness

-----------------------------------------------------------------------------
(* Properties.                                                               *)

(* An exit code that waitContainerExec returns is that of the handler's own   *)
(* process, which has exited, whatever else exits in the container; and a     *)
(* handler that succeeds has copied all of its output (waitContainerExec,     *)
(* container_execsync.go:160-180, and IO().Wait at 154).                      *)
ExecAnswersOwn ==
  \A p \in Procs :
    answer[p] # Nil =>
      /\ proc[exec[p]] \in {"stopped", "deleted"}
      /\ proc[exec[p]] = "stopped" => answer[p] = code[exec[p]]
      /\ pc[p] = "ok" => output[exec[p]] = "closed"

(* A process that containerd knows and no handler attends to is one whose     *)
(* deletion failed: the deferred Delete (container_execsync.go:122-126) is    *)
(* run on every way out, and the one of a stream is not lost to a client that *)
(* gives up.                                                                  *)
NoExecLeft ==
  \A e \in Execs :
    proc[e] \in {"running", "stopped"} =>
      e \in leaked \/ \E p \in Procs : exec[p] = e /\ pc[p] \in ExecPcs

(* The handlers with nothing left to wait for: the process has ended and its  *)
(* streams are closed.  An exit that containerd never published is waited for *)
(* in vain.                                                                   *)
Due ==
  {p \in Procs : /\ exec[p] # Nil /\ exec[p] \notin unheard
                 /\ output[exec[p]] = "closed" /\ proc[exec[p]] # "running"}

(* A handler that is due returns: the exit of its process is not missed, as   *)
(* the stream of events is opened before the process is started               *)
(* (container_execsync.go:138), and nothing else that exits is taken for it.  *)
ExecReturns == Due # {} ~> Due = {}
=============================================================================
