# A TLA+ model of cri-containerd

cri-containerd implements the Kubernetes Container Runtime Interface (CRI) on top of
containerd. The kubelet calls it over gRPC; each request runs in a goroutine of its own and
makes a series of calls to containerd, to the file system and to the network plugin. Apart
from a few in-memory maps, all that is real (tasks, snapshots, containers, mounts, networks,
images) lives on the other side of those calls. This directory models the handlers call by
call, checks them with TLC on small instances, and proves their safety with TLAPS for all
instances: of the container, sandbox and image services, of exec processes, and of specs.

## 1. Inventory

### Parts and state

| Part | Source (`src/pkg/`) | State |
|---|---|---|
| Name registrars | `registrar/registrar.go` | two maps, name to key and key to name, under one mutex |
| Container service | `server/container_{create,start,stop,remove}.go`, `store/container/` | the container store; per container a status (timestamps, pid, exit code, reason, `Removing`) under an RWMutex |
| Event monitor | `server/events.go` | one goroutine, one event stream from containerd |
| Pod sandbox service | `server/sandbox_{run,stop,remove,list,status}.go`, `store/sandbox/`, `os/os.go` | the sandbox store; tasks, mounts, network namespaces |
| Image service | `server/image_{pull,remove,status}.go`, `server/helpers.go`, `store/image/` | the image store (names, chain id); names, blobs and snapshots in containerd |
| gRPC server and start-up | `server/server.go`, `server/service.go` | request contexts; nothing is persisted |
| Exec and streaming | `server/container_exec*.go`, `server/streaming.go` | exec processes, an event stream per request, the tokens of the streaming server |
| Logger | `server/agents/` | per stream a goroutine and its read buffer; one log file |
| List and status requests | `server/*_list.go`, `server/*_status.go`, `server/status.go` | none of their own |
| Spec generation, helpers | parts of `container_create.go`, `sandbox_run.go`, `helpers.go` | none that is meant: arrays that specs share with an image's configuration and with containerd's default environment |

### Interactions

- `CreateContainer` looks the sandbox up, reserves a name, resolves the image, makes a snapshot,
  a root directory and a containerd container, and adds the container to the store. Deferred
  functions undo each of these on an error, with the context of the request.
- `StartContainer` does all its work inside one status transaction, so it holds the write lock
  of the status over several calls to containerd. The event monitor and `StopContainer` read the
  status under the same lock.
- The event monitor is the only one that records that a container exited. `StopContainer` sends
  signals and polls the status.
- `StopPodSandbox` and `RemovePodSandbox` walk a list of the containers taken earlier and call
  the container service; `startContainer` looks at the task of the sandbox.
- `PullImage` and `RemoveImage` share containerd's names with each other and with
  `ensureImageExists`, without a lock (`image_pull.go:194` notes it).
- `execInContainer` subscribes to containerd's events before it starts a process, and waits for
  the exit of that process among all events; the event monitor deletes the task of a container,
  and with it what is left of its exec processes.
- `generateContainerSpec` starts from a default spec and the configuration of the image, both of
  which other handlers use at the same time, and refers to files and namespaces that
  `RunPodSandbox` made from another configuration.

### Hard behaviours

Concurrent requests for the same object; an exit before the start is recorded; a removal that
fails half way, and its retry; a request whose context is done, after which every cleanup made
with that context is refused; an answer that is lost although the call took effect; event
streams that break; a restart, which loses all memory; a tag that is moved while it is pulled; an
exec process that ends early, or with its container; a slice that two handlers append to; a list
made from two reads.
`PROJECT.json` lists each with the line where it bites.

### What should be true

Names are unique; at most one removal works on a container and none on one that starts; a running
process keeps its snapshot, directory and containerd container; nothing is left in containerd
for an object the store does not know, except after a cleanup that failed; an exit is recorded
unless its event is lost; a stop or a sandbox stop that succeeds has stopped what it should;
containers go through created, running and exited in that order; an image shown to the kubelet is
complete and unpacked; an exec request reports the exit of its own process and leaves none behind; a
container runs with its own arguments, variables and mounts; the log has all that was written, in
order; every request returns.

## 2. Modules

| Module | Models |
|---|---|
| `Registrar` | the name registrar as operators on a record of two maps |
| `Requests` | what all handlers share: program counters, what a call can come to, cancelled contexts, the budget of disturbances |
| `ContainerService` | the container handlers, the status transactions, the event monitor, and the part of containerd they use |
| `ContainerLifecycle` | the abstract specification: what a client may see of a container over time |
| `ContainerInvariant` | the inductive invariants of `ContainerService` |
| `SandboxInvariant`, `ImageInvariant` | the same for `SandboxService` and `ImageService` |
| `SandboxService` | the sandbox handlers, lists and status requests included, with the containers of a sandbox at the grain of `ContainerLifecycle` |
| `ImageService` | the image handlers, containerd's names and blobs, the registry |
| `ExecService` | `ExecSync`, `Exec`, the streaming server's `Exec`, `execInContainer` |
| `ProcessArgs` | the arguments of init processes, from slices that share an array |
| `ProcessEnv` | the environment of init processes, from an array that all specs share |
| `PodSpec` | namespaces, mounts, capabilities and devices of a sandbox and of a container in it |
| `ContainerLog` | the loggers of a container's two streams |
| `MCContainerService`, `MCSandboxService`, `MCImageService`, `MCProcesses` | the instances TLC checks |
| `ContainerInvariantProofs`, `ContainerCleanupProofs`, `ContainerResourceProofs` | the proofs about `ContainerService` |
| `SandboxProofs` | the proofs about `SandboxService` |
| `ImageProofs` | the proofs about `ImageService` |
| `ExecProofs` | the proofs about `ExecService` and `ProcessArgs` |
| `ContainerLogProofs` | the proof about `ContainerLog` |
| `SpecProofs` | the proofs about `ProcessEnv` and `PodSpec` |

### How the code is represented

A handler is a process `p`; `pc[p]` is the call it makes next and `arg[p]` the object it works
on. One step is one external call together with the assignments up to the next call, or one
critical section of a lock. An error return leads to the deferred cleanups, one step each, in
the order Go runs them. The names of the actions are those of the functions or of the calls.

A call with the request's context has one of three outcomes (`Requests!Outcomes`): it succeeds, it
is refused without effect, or it takes effect and the answer is lost because the context is done.
Once the context is done, every further call with it is refused. File-system and network-plugin
calls take no context and only succeed or fail. All that may go wrong is in the constant `Env` and
counted by `spent` against `MaxEnv`.

Container service: `status`, `containers` and `names` are the memory of the process; `lock` is the
write lock that `StartContainer` holds; `task`, `snapshots`, `dirs` and `ctrs` are containerd and
the file system; `stream` holds the events published and not yet received, `mpc` and `mev` are the
event monitor. Timestamps are reduced to whether they are set, pids to none, init and other.
`sandbox` is what `CreateContainer` and `StartContainer` see of the sandbox.

Sandbox service: `task` and `network` and `mounts` are per sandbox; `ears` are the event streams
`stopSandboxContainer` opens; `ctr` and `owner` are the containers. Configurations tell apart
what the code branches on, the host's network and the host's IPC namespace. A container is created,
started and removed by other handlers in steps that look at the sandbox where the code does. The
handlers in `Readers` list sandboxes: `listed` holds what they found in the store and, once they
have read the tasks, those they report as not ready.

Image service: a name is a tag, a digest or an image id. `refs` is containerd's image store,
`content` says for each image whether its blobs are absent, being written, left partial, or complete.
`local` holds the local variables of each handler: `desc` is what the registry said, `got` what
containerd said when the name was read back, `chain` what it said the second time.

Exec: `exec[p]` is the process a handler works on, `ears` and `inbox` its event stream, `answer` the
exit code it was told. `proc`, `home`, `code` and `output` are containerd's processes and their
streams. `Streamers` are the handlers of the streaming server, whose context is never done; the
tokens of its URLs are `Names`. Containers are created, started, ended and removed in single steps,
as in `ContainerLifecycle`. The request's timeout is passed on and used nowhere in the code, so
there is none in the model.

Specs: a slice is either a piece of the shared array (`Entrypoint`'s in `ProcessArgs`, `defaultEnv`
in `ProcessEnv`) or has an array of its own. A handler generates its spec and marshals it in
separate steps; other handlers come between. A string is read and written whole: a torn one, which
Go allows in a race, is left out. `PodSpec` has `generateContainerSpec` as the composition of its
helpers, in the code's order. It leaves out values that are only copied.

`ProcessArgs` has no empty command that is not nil, which no request carries: protobuf decodes a
list without elements as nil. Only the variables of an image are strings to be split; those of a
request come as key and value. A request for which `HostDevices()` fails, like any other that
`generateContainerSpec` refuses, makes no spec and is no step of `PodSpec`.

Logger: a byte is a newline or not. `bufio.ReadLine` is a buffer of `BufSize` bytes that is
filled as far as the pipe allows; `isPrefix` is ignored as in the code. A read that fails puts an error
behind the bytes in the buffer. If there are any, `ReadLine` returns them as a line and forgets the error,
so the logger reads on; if there are none, the logger returns. `input` is what was written, with
the errors in their places.

`leaked` (ids for which a cleanup failed, was never run, or a download failed), `missed` (exits
whose event was lost), `unheard`, `late`, `skipped`, `moved`, `raced`, `mixed`, `overwritten`, `gaps` and
`input` are history variables. They occur in no
guard; properties use them to say exactly when an exception is allowed.

### Assumptions about what is outside

- containerd marks a task stopped and publishes its exit event in one step, and delivers the events
  of one stream in order.
- When `Subscribe` returns, containerd has registered the stream: an event published after that is on
  it. The gRPC call only opens the stream, and the client does not wait for the server to say so;
  without the assumption an exit between the two would be lost, and neither `RequestsReturn` of the
  sandboxes nor `ExecReturns` would hold.
- A `SetUpPod` that fails leaves no network behind.
- `containerService.Delete` reports a missing container with an error that is not a gRPC status
  (the vendored client converts it with `errdefs.FromGRPC`); the task service reports plain gRPC
  errors; the image and snapshot errors are tested with `errdefs`, and recognised.
- `ListStatuses` lists every ingest that is neither committed nor aborted; a fetch waits while
  another has the ingest open, until its context is done.
- `task.Exec` makes the streams of a process and no call that needs undoing; `process.Start` that
  fails ends the copying; `process.Delete` waits for it and is refused while the process runs. When
  a task is deleted, the exit events of exec processes that die with it may or may not be sent.
- The JSON decoder may leave spare capacity after `Entrypoint`; a slice literal such as `defaultEnv`
  has none.
- A write of one record to a file opened with `O_APPEND` is not split by another.

## 3. Runs

| Run | Instance | What it shows |
|---|---|---|
| `containers_safety` | 2 handlers, 2 ids, 1 name, 1 disturbance of any kind but cancellation; 177,120 states | `NamesHeld`, `RemovalExclusive`, `RunningHasResources`, `NoOrphanResources`, `ExitPending`, `StopMeansStopped`, and that `ContainerService` implements `ContainerLifecycle` |
| `containers_live` | 1 id, 2 disturbances, cancellation and restarts included, fair scheduling; 43,778 states | what still holds when deferred cleanups fail (`NoOrphanResources`, `ExitPending`, `LifecycleSpec`); every request returns; a killed process and a queued exit are recorded |
| `containers_oom` | violation | an OOM event for a container the store does not hold ends the process |
| `containers_lost_answer` | violation | after a cancelled start a running task can lose its resources |
| `containers_remove_retry` | violation | a removal never gets past a containerd container that is gone |
| `sandboxes_safety` | 2 handlers, 2 sandboxes of 1 name, 1 container, 1 disturbance, both handlers may list; 548,369 states | `NamesHeld`, `NoOrphanResources`, `StopMeansDown`, `OnlyLateContainersOutlive`, `ContainersFollowLifecycle`; `NotReadyIsFinal`: a sandbox reported as not ready never becomes ready, although store and tasks are read one after the other |
| `sandboxes_live` | 1 sandbox in the host's namespaces, fair scheduling; 61,765 states | the same for the other configuration, and that every request returns |
| `sandboxes_forced` | violation | `RemovePodSandbox` does not remove running containers |
| `images_safety` | 2 handlers, 2 images (one of schema 1), 1 tag, 3 requests, 1 disturbance; 1,062,411 states | `ReadyMeansUnpacked`, `MixedOnlyByRace`, `NamesHaveContent`, `RemovalSparesOthers` |
| `pods_readonly_sys` | violation | a privileged container with a read-only root has a writable `/sys` |
| `images_wait` | violation, fair scheduling | a pull waits for its own abandoned download |
| `processes` | five machines, see below; 124,502 states | an exec request reports its own process (`ExecAnswersOwn`), leaves none behind (`NoExecLeft`) and returns (`ExecReturns`); a container's arguments, variables, mounts and namespaces (`ArgsOnlyByRace`, `EnvOnlyByOthers`, `SpecAsAsked`, `PodShared`); the log (`LogComplete`, `LogDrains`) |

The violations state what a comment or a test of the code says; `PROJECT.json` quotes each under
`findings`. Each property of the other runs has a mutant: a plausible slip in the code for which
TLC finds the property violated.

Some properties of `processes` hold with an exception that the code makes necessary. Each is stated
exactly, so that nothing else can go wrong:

- `ArgsOnlyByRace`: two handlers that create containers from one image may append to the same spare
  cells of `Entrypoint` (`container_create.go:308`), and one container gets arguments of the other.
- `EnvOnlyByOthers`: `AddProcessEnv` replaces `PATH` in the array of containerd's `defaultEnv`. The
  `PATH` of one image is then the default of every later container whose image and request set
  none, without any race (`container_create.go:212`, `sandbox_run.go`).
- `SpecAsAsked` does not say whether a privileged container with a read-only root can write to `/sys`.
  `addOCIBindMounts` looks at `Root.Readonly` (called at `container_create.go:223`) before
  `SetRootReadonly` sets it (`:225`), so it can. `TestPrivilegedBindMount` says "sysfs should mount as
  'ro' if root filrsystem is readonly" (`container_create_test.go:412`), and sets the flag first. That
  is `SysReadonlyWithRoot`, which `pods_readonly_sys` shows violated.
- `PodShared`: `/dev/shm` is chosen by the container's `HostIpc`, the namespace and the sandbox's files
  by the pod's. If the two differ, `/dev/shm` is not that of the IPC namespace, or is missing.
- `ExecAnswersOwn` is about the exit code that is returned, not about whether it comes with an error. In
  the model, as in the code, a non-zero code of `ExecSync` comes without one, although its comment says "If
  command exits with a non-zero exit code, an error is returned." (`container_execsync.go:35`); no
  property takes a side on that.
- `ExecReturns` leaves out two kinds of requests. If a process died with its task and its exit was
  never published (`unheard`), nothing ends the wait but the client. If `Subscribe` fails after
  `task.Exec`, the deferred `Delete` waits for streams that nobody opens, and the request hangs
  (`container_execsync.go:123`, `138`).

### Bounds

- Two handlers: every hazard listed is a race of two requests, or of one request with the event
  monitor, which is a process of its own. Three handlers would only add waiting.
- Two ids and one name make creations compete for a name and let one object be removed while
  another is created under the same name. Each id is returned once by `generateID`.
- `containers_live` has one id, as TLC cannot use symmetry with liveness. `NamesHeld`, which is about two,
  is checked without cancellation (`containers_safety`) and proved with it.
- `MaxEnv` 1 or 2: one failure may occur at any call of any handler; with two, the failure of a
  cleanup after a failure, or a failure after a restart. Which disturbances a run has is in its cfg.
- `MaxRequests` 3 in `ImageService` (`ImageStatus` requests are not counted): two pulls that race
  and a removal that acts on the result, which is the longest scenario the properties tell apart.
- One exit code in `ContainerService`, where codes are copied and never compared; two in
  `ExecService`, where the streaming server compares them with 0.
- `processes` puts five machines into one state space. They share no variable, and in a behaviour
  one of them moves while the others stay in their initial states, so the states add up.
  `ExecService` has an `ExecSync` handler and a stream, one container, two processes, one token and one
  disturbance; `ProcessArgs` and `ProcessEnv` have two handlers, one shared array, and requests with and
  without a command, arguments and variables, the invalid included. `PodSpec` is checked for all of
  24 configurations of a pod with 576 of a container, among them the refused ones (7 search
  domains, a missing device, an unknown capability). `ContainerLog` has a buffer of 2 bytes and 3 bytes
  of output over both streams, so that a line can exceed the buffer and end without a newline, and two
  reads or writes that fail: a read that fails in a line and then the next, or a write after it.
- The symmetry of handlers (and, for containers and sandboxes, of ids) is used in the runs that
  check no liveness.

### Fairness

Weak fairness of each handler's steps, of the event monitor, of the end of a `StartContainer` (in
`SandboxService`), of each logger's goroutine, of a restart (a supervisor starts the service
again), and of the death of a process that was sent SIGKILL. The Go scheduler runs every runnable
goroutine, calls return, and tickers and timers fire, so a step that stays enabled is taken; the kernel delivers SIGKILL.
No fairness is assumed of requests, of processes that were not killed (an exec process may run for
ever, and may keep its streams open), or of disturbances.

## 4. Proofs

The theorems hold for any sets of handlers, ids, names, exit codes and requests, any `MaxEnv` and any
`Env`; only the three of `ContainerResourceProofs` suppose that `"cancel"` is not in `Env`. They rest on
these named assumptions on the constants, which TLC evaluates in the runs of the modules that extend
them:

| Assumption | Module | Says |
|---|---|---|
| `NilAssumption`, `EnvAssumption` | `Requests` | `Nil` is no handler, id or name; `Env` is a subset of `Disturbances`, `MaxEnv` a number |
| `ExitCodeAssumption` | `ContainerService` | exit codes are numbers |
| `ConfigAssumption`, `CtrAssumption` | `SandboxService` | `Configs` is a subset of `AllConfigs`; `Nil` is no container |
| `ImagesAssumption` | `ImageService` | the schema 1 images are images; `MaxRequests` is a number |
| `ExecAssumption` | `ExecService` | no exec id is a container's id or `Nil`; streamers are handlers; 0 is an exit code, `Nil` is none, and there is another than 0 |
| `ArgsAssumption` | `ProcessArgs` | commands, `Entrypoint` and `Cmd` are sequences of words, `""` is a word, `Spare` is a number, and an empty `Entrypoint` has no spare cells |
| `LogAssumption` | `ContainerLog` | the buffer has room for a byte; the bounds are numbers |
| `EnvStringsAssumption` | `ProcessEnv` | environments are sequences of variables over `EnvWords`, which has `TERM` and `xterm`; `DefaultEnv` has no name twice; the variables of a request have a name and a value |
| `PodAssumption` | `PodSpec` | what a pod takes from the host is among its network, PID and IPC namespaces; the flags of a container are Booleans and its mounts a sequence of bind mounts |

Each service has one inductive invariant, because its properties are not inductive by themselves and
need one another. The proof that a step keeps it has a case per action or per kind of action; the facts
about single steps are lemmas. TLC has checked the invariants as well, as further invariants of the
runs' configurations (they are not listed there): `SandboxInv` on the 548,369 states of `sandboxes_safety`,
`ImageInv` on the 1,062,411 of `images_safety`, and `IInv`, `PendingInv` and `OrphanInv` on 523,071 of
`ContainerService`, with the instance of `containers_safety` and two disturbances among cancellation,
broken streams and restarts; `LogInv` on 283,408 states of `ContainerLog` alone, with 4 bytes of output and, for
`Whole`, up to 3 that may follow.

### Container service

- `ContainerInvariantProofs`: `TypeCorrect` is `Spec => []TypeOK`, `Invariance` is `Spec => []IInv`.
  `NamesHeld` needs to know that a creation in progress has no entry in the store and
  holds the name it will release on an error (`CreateInv`, `FreshInv`). `RemovalExclusive` needs the
  link between the lock and the program counter (`LockInv`), between `Removing` and the handler
  that set it (`RemoveInv`), and that a handler's container was created (`KnownInv`, `StatusInv`).
  The monitor's part (`StreamInv`, `MonitorInv`) says that an exit it is about to record is that of
  a container that was started. `NamesAlwaysHeld` and `RemovalsExclusive` follow.
- `ImplementsLifecycle`: `Spec => LifecycleSpec`. Initial states map to initial states, and each step
  maps to a step of `ContainerLifecycle` or to a stutter, given `IInv`.
- `ContainerCleanupProofs!ExitsStayPending`: `Spec => []ExitPending`. The property is about a status that
  is stored; the invariant (`PendingInv`) has to begin earlier, when `StartContainer` has started the
  process and still holds the lock (`Recorded`). An exit event received then waits in `ComparePid` for
  the lock, and finds the pid it compares with because a RUNNING status has one. An event is dropped for
  a container that is not in the store, and a recorded one is.
- `NoContainerResourcesOrphaned`: `Spec => []NoOrphanResources`. `OrphanInv` says what is gone at each
  place of a creation and of a removal (`FilesGone`), and that a task is there only for a container
  shown RUNNING or one that is being started (`TaskGone`): the monitor deletes the task before it
  records the exit, and a start that fails deletes the task before it gives up the lock. It says so
  of the ids that are not in `leaked`, which has those whose cleanup was refused, those for which the
  answer to the making of a resource was lost, and those that had resources when the service died.
- `ContainerResourceProofs`: when `"cancel"` is not in `Env`, `UncancelledInv` is invariant (`Uncancelled`),
  and from it `RunningHasResources` (`RunningKeepsResources`) and `StopMeansStopped` (`StopsAreStops`).
  The assumption is needed: `containers_lost_answer` is the counterexample without it. The argument
  is that a running task was recorded as started or is about to be (`TaskInv`), that a removal takes
  the snapshot first, and that a start fails without it (`ResourceInv`, `PlaceInv`).

### Sandbox service

`SandboxProofs` proves `Spec => []SandboxInv`. From it:

- `SandboxTypeCorrect`; `SandboxNamesAreHeld`: a `RunPodSandbox`, its defers included, is alone with its id and
  holds its name until the store has it (`RunInv`), and whoever stops or removes a sandbox has found
  it in the store, after which nobody runs it (`WorkInv`).
- `NotReadyStays` (`NotReadyIsFinal`): what a list has found in the store is no longer being run (`ListInv`),
  and only `RunPodSandbox` starts the task. That is why reading the store and the tasks one after
  the other does no harm.
- `ContainersOutliveOnlyLate`: the containers of a sandbox being removed are those it still has to
  remove or `late` ones (`LateInv`).
- `NoSandboxResourcesOrphaned`: what a `RunPodSandbox` at a place can have made (`MadeInv`), and what a stop or
  a removal at a place has taken away (`GoneInv`). Two removals of one sandbox work side by side, so
  `GoneFor` says of each place only what nobody can bring back.
- `StopLeavesNothingUp` (`StopMeansDown`): from `GoneInv` at the last step of a stop.
- `SandboxesImplementLifecycle`: the containers of sandboxes follow `ContainerLifecycle`.

### Image service

`ImageProofs` proves `Spec => []ImageInv`. `PlaceInv` says which local variables a handler has at a place.

- `ImageTypeCorrect`; `NamesHaveTheirContent`: one handler at a time has the ingest of an image open, and
  whoever is past the wait has its blobs, or the download failed (`DownloadInv`).
- `StoredImagesAreReady` (`ReadyMeansUnpacked`): an id is registered and added only after `Unpack` of what
  the name was read back to be (`ReadyInv`).
- `StoredImagesMixOnlyByRace`: a pull whose tag nobody moved meanwhile has one image in `desc`, `got`
  and `chain`, and so have the other pulls of the tag (`MixInv`).
- `RemovalSparesOtherImages` (`RemovalSparesOthers`): the names of a stored image refer to it or to nothing as
  long as no tag was moved (`RemovalInv`); an action property.

### Processes and specs

- `ExecProofs`: `ExecTypeCorrect`, `ExecOwnExit` and `ExecsDeleted`, which are `TypeOK`, `ExecAnswersOwn` and
  `NoExecLeft` for any handlers, containers, processes and disturbances. The inductive invariant
  `ExecInv` adds that a process belongs to one handler (`Attends`), that the program counter tells
  the state of the process (`Phase`), and that an event about an exec process in an inbox is true
  (`Heard`). `Heard` is what makes the answer right: the code trusts any event with its two ids.
- `ArgsMixedOnlyByRace`: `ArgsSpec => []ArgsOnlyByRace`, for any image, any requests, any
  number of handlers and of spare cells. The invariant says what the shared cells hold as long
  as a handler is not in `raced`.
- `ContainerLogProofs!LogsComplete`: `LogSpec => []LogComplete`, for any streams, any size of the buffer and output of any length.
  `LogInv` says of each stream that its records, its buffer and its pipe make up what was written, in
  this order (`Ordered`), and that what was taken from the buffer ends with a record (`Whole`: the records of
  what follows are added to those there are, and change none), unless the stream is drained, as its last
  line may have no newline. A read that failed is an item of the input, at which a line ends. So `ReadLine` takes what `RecordsOf` cuts off next, wherever the reads
  have split the output (`NextRecord`). The equation of `RecordsOf`, a recursive function, is derived
  by hand (`RecordsEquation`): there is a solution for sequences up to any length, and two of them agree.
- `SpecProofs!EnvironmentsMixOnlyInShared`: `EnvSpec => []EnvOnlyByOthers`, for variables in any number.
  The invariant `EnvInv` says what the environment of a handler is after each prefix of its calls
  of `AddProcessEnv` (`MadeSoFar`): each name once, with the value those calls give it, or else a name of
  the shared array whose variable was overwritten there (`Excused`). That the last call wins
  is `LastCallWins`.
- `ContainersShareTheirPod` and `SpecsAreAsAsked`: `PodShared` and `SpecAsAsked` for every configuration. The
  work is in the lemmas about the composition of helpers: which mount is on top at a path
  (`TopAsked`, `TopSilent`, `TopOfSandbox`), and what the fields of a generated spec come to (`SpecFields`).

Sequences of any length are dealt with by the least-number principle for a set (`LeastNatural`,
`GreatestIndex`), which needs no operator as a parameter.

### Only model-checked

- All liveness (`RequestsReturn`, `KillObserved`, `ExitObserved`, `ExecReturns`, `LogDrains` and the like): the
  prover has no rules for fairness or ENABLED.
- The violations, which are counterexamples.

## 5. Not modelled

- Attach, PortForward, statistics and other requests that are stubs in the code; the resizing of a
  terminal.
- `ListContainers`, `ContainerStatus`, `ListImages`, `Status` and `Version`: each reads one store or asks
  once, and changes nothing; the filters of lists.
- Values that a spec only copies, the paths and names that helpers format, the text of `resolv.conf`
  and of log records; the sandbox logger, which discards all it reads.
- The parsing of image references and of credentials; the command line.
- What makes up one string in a data race (see section 2).
- The image store and the containers are not composed: that `StopContainer` fails because its image
  is gone is a refused call in `ContainerService`.

## 6. Plan

1. Compositions: `ContainerService` with the image store (the stop signal of an image that is
   gone), and with `SandboxService` and `ExecService` in place of the abstract containers.
2. Proofs: every safety property of a passing run has one; what is left is liveness, for which the
   prover has no rules.
