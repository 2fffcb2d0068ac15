----------------------------- MODULE ProcessArgs -----------------------------
(***************************************************************************)
(* The arguments of the init process of a container, from the request and  *)
(* the configuration of the image: setOCIProcessArgs (container_create.go) *)
(* and its counterpart for sandboxes (sandbox_run.go).                     *)
(*                                                                         *)
(* The image store hands out a pointer to one configuration per image, and *)
(* append writes to the array of its Entrypoint when there is room after   *)
(* it: the handlers that create containers from one image share that       *)
(* array, from the append until json.Marshal has read it.                  *)
(***************************************************************************)
EXTENDS Naturals, Sequences

CONSTANTS
  Words,        \* the words commands are made of
  Creates,      \* the handlers that create a container or a sandbox from the image
  Commands,     \* commands and argument lists a ContainerConfig may have
  Entrypoint,   \* of the image's configuration
  Cmd,          \* of the image's configuration
  Spare         \* cells after Entrypoint in its array, left by the JSON decoder

ASSUME ArgsAssumption ==
  /\ Commands \subseteq Seq(Words) /\ Entrypoint \in Seq(Words) /\ Cmd \in Seq(Words) /\ "" \in Words
  /\ Spare \in Nat /\ (Entrypoint = <<>> => Spare = 0)

VARIABLES
  at,           \* where each handler is
  request,      \* the command and the arguments it was asked for
  slice,        \* process.Args of the spec it generates
  rawArgs,      \* the same in the spec it has marshalled
  spare,        \* what the cells after Entrypoint hold
  raced         \* history: handlers whose slice another has changed

argsVars == <<at, request, slice, rawArgs, spare, raced>>

(* A slice of Entrypoint's array, n cells of which follow Entrypoint, or one  *)
(* with an array of its own.                                                  *)
Shared(n)  == [shared |-> TRUE, len |-> n, own |-> <<>>]
Private(s) == [shared |-> FALSE, len |-> 0, own |-> s]

NoRequest == [kind |-> "none", command |-> <<>>, args |-> <<>>]

ArgsInit ==
  /\ at = [c \in Creates |-> "idle"]
  /\ request = [c \in Creates |-> NoRequest]
  /\ slice = [c \in Creates |-> Private(<<>>)]
  /\ rawArgs = [c \in Creates |-> <<>>]
  /\ spare = [i \in 1 .. Spare |-> ""]
  /\ raced = {}

-----------------------------------------------------------------------------
(* CreateContainer has resolved the image, ... *)
CreatesContainer(c) ==
  /\ at[c] = "idle"
  /\ at' = [at EXCEPT ![c] = "args"]
  /\ \E command \in Commands, args \in Commands :
       request' = [request EXCEPT ![c] = [kind |-> "container", command |-> command, args |-> args]]
  /\ UNCHANGED <<slice, rawArgs, spare, raced>>

(* ... or RunPodSandbox, whose image is an image like any other. *)
RunsPodSandbox(c) ==
  /\ at[c] = "idle"
  /\ at' = [at EXCEPT ![c] = "args"]
  /\ request' = [request EXCEPT ![c] = [kind |-> "sandbox", command |-> <<>>, args |-> <<>>]]
  /\ UNCHANGED <<slice, rawArgs, spare, raced>>

(* Mutant: the image's Cmd is added to the command of the request. *)
ArgsOfImage(r) == IF r.args = <<>> THEN Cmd ELSE r.args

(* A request that names neither leaves both to the image.  A repeated field   *)
(* of a request that is empty is nil in Go: a command that is empty but not   *)
(* nil, which a test passes to setOCIProcessArgs, comes from no request.      *)
CommandOf(r) == IF r.command = <<>> THEN Entrypoint ELSE r.command
ArgsOf(r)    == IF r.command = <<>> /\ r.args = <<>> THEN Cmd ELSE r.args

(* There has to be something to run; a sandbox image needs an entrypoint. *)
Empty(r) == CommandOf(r) = <<>> /\ (ArgsOf(r) = <<>> \/ r.kind = "sandbox")

(* append(imageConfig.Entrypoint, a...) is done in place if there is room. *)
Fits(a)    == Len(a) <= Spare
Written(a) == [i \in 1 .. Spare |-> IF i <= Len(a) THEN a[i] ELSE spare[i]]

(* setOCIProcessArgs.  The command of a request belongs to the request. *)
SetProcessArgs(c) ==
  LET r == request[c]
      a == ArgsOf(r) IN
  /\ at[c] = "args" /\ ~Empty(r)
  /\ at' = [at EXCEPT ![c] = "marshal"]
  /\ \/ /\ r.command = <<>> /\ Fits(a)
        /\ spare' = Written(a)
        /\ slice' = [slice EXCEPT ![c] = Shared(Len(a))]
        /\ raced' = raced \cup
             {d \in Creates : at[d] = "marshal" /\ slice[d].shared /\ a # <<>> /\ ArgsOf(request[d]) # a}
     \/ /\ r.command # <<>> \/ ~Fits(a)
        /\ slice' = [slice EXCEPT ![c] = Private(CommandOf(r) \o a)]
        /\ UNCHANGED <<spare, raced>>
  /\ UNCHANGED <<request, rawArgs>>

NoCommand(c) ==
  /\ at[c] = "args" /\ Empty(request[c])
  /\ at' = [at EXCEPT ![c] = "idle"]
  /\ request' = [request EXCEPT ![c] = NoRequest]
  /\ UNCHANGED <<slice, rawArgs, spare, raced>>

ReadSlice(s) == IF s.shared THEN Entrypoint \o SubSeq(spare, 1, s.len) ELSE s.own

(* json.Marshal(spec): the cells are read now. *)
MarshalSpec(c) ==
  /\ at[c] = "marshal"
  /\ at' = [at EXCEPT ![c] = "create"]
  /\ rawArgs' = [rawArgs EXCEPT ![c] = ReadSlice(slice[c])]
  /\ slice' = [slice EXCEPT ![c] = Private(<<>>)]
  /\ UNCHANGED <<request, spare, raced>>

(* containerService.Create, with the marshalled spec. *)
CreateWithSpec(c) ==
  /\ at[c] = "create"
  /\ at' = [at EXCEPT ![c] = "idle"]
  /\ request' = [request EXCEPT ![c] = NoRequest]
  /\ rawArgs' = [rawArgs EXCEPT ![c] = <<>>]
  /\ raced' = raced \ {c}
  /\ UNCHANGED <<slice, spare>>

ArgsNext ==
  \E c \in Creates :
    \/ CreatesContainer(c) \/ RunsPodSandbox(c)
    \/ SetProcessArgs(c) \/ NoCommand(c) \/ MarshalSpec(c) \/ CreateWithSpec(c)

ArgsSpec == ArgsInit /\ [][ArgsNext]_argsVars

-----------------------------------------------------------------------------
(* What the request and the image call for (TestContainerSpecCommand). *)
Wanted(r) ==
  IF r.command # <<>> THEN r.command \o r.args
  ELSE Entrypoint \o (IF r.args # <<>> THEN r.args ELSE Cmd)

(* The arguments in the spec of a container are the ones its own request and  *)
(* its image call for, unless a handler with other arguments has appended     *)
(* them to the same Entrypoint (container_create.go:308) between this one's   *)
(* append and its json.Marshal.  In particular handlers that leave the        *)
(* arguments to the image, as those of sandboxes do, never disturb each other.*)
ArgsOnlyByRace ==
  \A c \in Creates : at[c] = "create" => rawArgs[c] = Wanted(request[c]) \/ c \in raced
=============================================================================
