------------------------------ MODULE Requests ------------------------------
(***************************************************************************)
(* How the gRPC server runs the handlers of the CRI services, and what     *)
(* the calls they make can come to.  A handler is a process p with a       *)
(* program counter.  One step is one call to containerd, one file-system   *)
(* call, or one critical section of a lock; a deferred cleanup is a step of*)
(* its own, in the order Go runs defers.                                   *)
(***************************************************************************)
EXTENDS Naturals, Registrar

CONSTANTS
  Procs,        \* request handlers that may run at the same time
  Ids,          \* what is managed: the ids generateID can return, or image ids
  Names,        \* names made from the metadata of a request, or tags
  Env,          \* what the environment may do, a subset of Disturbances
  MaxEnv        \* bound: how many disturbances a behaviour has

Disturbances == {
  "refuse",     \* a call made by a handler fails and has no effect
  "cancel",     \* the client gives up: the request's context is done
  "monitor",    \* the task deletion made by the event monitor fails
  "stream",     \* an event stream breaks
  "oom",        \* the kernel kills some process of a container for memory
  "exec",       \* a process of a container other than init exits
  "sandbox",    \* the sandbox container exits by itself, or the sandbox goes
  "push",       \* a tag is moved to another image in the registry
  "crash" }     \* cri-containerd is killed and started again

ASSUME NilAssumption == Nil \notin Procs /\ Nil \notin Ids /\ Nil \notin Names
ASSUME EnvAssumption == Env \subseteq Disturbances /\ MaxEnv \in Nat

VARIABLES
  up,           \* cri-containerd is running
  pc,           \* where each handler is
  arg,          \* what each handler works on
  done,         \* the handlers whose request context is done
  leaked,       \* history: ids for which a cleanup failed or was never run
  spent         \* disturbances so far

handler == <<pc, arg, done>>

May(d) == d \in Env /\ spent < MaxEnv

(* What a call made with the context of p's request can come to.  "ok": it   *)
(* took effect and said so.  "refused": an error, and no effect.  "lost": it *)
(* took effect but the context was done before the answer, an error as well. *)
(* Once the context is done every later call with it is refused, and that    *)
(* includes the calls the deferred cleanups make.                            *)
Outcomes(p) ==
  IF p \in done THEN {"refused"}
  ELSE {"ok"} \cup {out \in {"refused"} : May("refuse")}
              \cup {out \in {"lost"} : May("cancel")}

Effective(out) == out \in {"ok", "lost"}

(* File-system calls take no context. *)
LocalOutcomes == {"ok"} \cup {out \in {"refused"} : May("refuse")}

Spend(n) == spent' = spent + n

Moves(p, from, to) ==
  /\ up
  /\ pc[p] = from
  /\ pc' = [pc EXCEPT ![p] = to]
  /\ UNCHANGED arg

(* p is at "from" and makes a call with its context, which comes to out. *)
Calls(p, from, out, onOk, onErr) ==
  /\ Moves(p, from, IF out = "ok" THEN onOk ELSE onErr)
  /\ out \in Outcomes(p)
  /\ done' = IF out = "lost" THEN done \cup {p} ELSE done
  /\ Spend(IF out = "ok" \/ p \in done THEN 0 ELSE 1)

(* The call fails whatever the environment does. *)
Fails(p, from, onErr) ==
  /\ Moves(p, from, onErr)
  /\ UNCHANGED <<done, spent>>

CallsLocal(p, from, out, onOk, onErr) ==
  /\ Moves(p, from, IF out = "ok" THEN onOk ELSE onErr)
  /\ out \in LocalOutcomes
  /\ Spend(IF out = "ok" THEN 0 ELSE 1)
  /\ UNCHANGED done

Leaks(id, cond) == leaked' = IF cond THEN leaked \cup {id} ELSE leaked

(* A request arrives at an idle handler. *)
Arrives(p, id, at) ==
  /\ up
  /\ pc[p] = "idle"
  /\ pc' = [pc EXCEPT ![p] = at]
  /\ arg' = [arg EXCEPT ![p] = id]
  /\ UNCHANGED <<done, spent>>
=============================================================================
