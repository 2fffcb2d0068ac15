----------------------------- MODULE ProcessEnv -----------------------------
(***************************************************************************)
(* The environment of the init process of a container or a sandbox, as     *)
(* generateContainerSpec (container_create.go) and                         *)
(* generateSandboxContainerSpec (sandbox_run.go) put it together.          *)
(*                                                                         *)
(* containerd.GenerateSpec gives every spec the same slice, the package's  *)
(* defaultEnv.  AddProcessEnv replaces a variable of that name in place,   *)
(* and so in the array all specs share; a variable that is new is appended,*)
(* for which there is no room, and gives the spec an array of its own.     *)
(* A string is taken to be read and written whole.                         *)
(***************************************************************************)
EXTENDS Naturals, Sequences, FiniteSets

CONSTANTS
  Builds,       \* the handlers that generate a spec
  EnvWords,     \* names and values of variables
  DefaultEnv,   \* defaultEnv when the process starts
  ImageEnvs,    \* what images have for Env
  ConfigEnvs    \* what a ContainerConfig has for Envs

(* A variable has a name, a value, and the number of parts that "=" makes.    *)
EnvStrings == [name : EnvWords, value : EnvWords, parts : Nat]

(* No name is twice in defaultEnv (spec_unix.go has PATH only).  A request    *)
(* has its names and values apart, and only an image has strings to split.    *)
ASSUME EnvStringsAssumption ==
  /\ {"TERM", "xterm"} \subseteq EnvWords
  /\ DefaultEnv \in Seq(EnvStrings)
  /\ \A i, j \in DOMAIN DefaultEnv : DefaultEnv[i].name = DefaultEnv[j].name => i = j
  /\ ImageEnvs \subseteq Seq(EnvStrings) /\ ConfigEnvs \subseteq Seq(EnvStrings)
  /\ \A env \in ConfigEnvs : \A i \in DOMAIN env : env[i].parts = 2

VARIABLES
  stage,        \* where each handler is
  asked,        \* the image's and the request's variables
  calls,        \* the calls of AddProcessEnv that are left
  envSlice,     \* process.Env of the spec: shared, or its own
  rawEnv,       \* the same in the spec it has marshalled
  defaultEnv,   \* what the shared array holds
  overwritten,  \* history: the variables that were replaced there
  mixed         \* history: handlers whose variable another has replaced

envVars == <<stage, asked, calls, envSlice, rawEnv, defaultEnv, overwritten, mixed>>

Variable(k, v) == [name |-> k, value |-> v, parts |-> 2]
NamesIn(env)   == {env[i].name : i \in DOMAIN env}
NothingAsked   == [image |-> <<>>, config |-> <<>>, tty |-> FALSE]
SharedEnv      == [shared |-> TRUE, own |-> <<>>]
OwnEnv(env)    == [shared |-> FALSE, own |-> env]

EnvInit ==
  /\ stage = [c \in Builds |-> "idle"]
  /\ asked = [c \in Builds |-> NothingAsked]
  /\ calls = [c \in Builds |-> <<>>]
  /\ envSlice = [c \in Builds |-> SharedEnv]
  /\ rawEnv = [c \in Builds |-> <<>>]
  /\ defaultEnv = DefaultEnv
  /\ overwritten = {} /\ mixed = {}

-----------------------------------------------------------------------------
Term(tty) == IF tty THEN <<Variable("TERM", "xterm")>> ELSE <<>>

(* Mutant: the variables of the image come last. *)
EnvCallsImageLast(r) == Term(r.tty) \o r.config \o r.image

(* The calls of AddProcessEnv, in the order the code makes them. *)
EnvCalls(r) == Term(r.tty) \o r.image \o r.config

Begins(c, r) ==
  /\ stage[c] = "idle"
  /\ stage' = [stage EXCEPT ![c] = "env"]
  /\ asked' = [asked EXCEPT ![c] = r]
  /\ calls' = [calls EXCEPT ![c] = EnvCalls(r)]
  /\ envSlice' = [envSlice EXCEPT ![c] = SharedEnv]
  /\ UNCHANGED <<rawEnv, defaultEnv, overwritten, mixed>>

GenerateContainerEnv(c) ==
  \E image \in ImageEnvs, config \in ConfigEnvs, tty \in BOOLEAN :
    Begins(c, [image |-> image, config |-> config, tty |-> tty])

(* A sandbox has the variables of its image only. *)
GenerateSandboxEnv(c) ==
  \E image \in ImageEnvs : Begins(c, [NothingAsked EXCEPT !.image = image])

EnvOf(c) == IF envSlice[c].shared THEN defaultEnv ELSE envSlice[c].own

Replace(env, e) == [i \in DOMAIN env |-> IF env[i].name = e.name THEN e ELSE env[i]]

(* The handlers that have set e.name in the shared array, or that leave it as *)
(* it is, and find another value there now.                                   *)
Overtaken(c, e) ==
  {d \in Builds \ {c} :
     /\ stage[d] = "env" /\ envSlice[d].shared /\ e.name \notin NamesIn(calls[d])
     /\ Replace(defaultEnv, e) # defaultEnv}

AddProcessEnv(c) ==
  /\ stage[c] = "env" /\ calls[c] # <<>> /\ Head(calls[c]).parts = 2
  /\ calls' = [calls EXCEPT ![c] = Tail(@)]
  /\ LET e == Head(calls[c]) IN
     \/ /\ e.name \in NamesIn(EnvOf(c)) /\ envSlice[c].shared
        /\ defaultEnv' = Replace(defaultEnv, e)
        /\ overwritten' = overwritten \cup {e.name}
        /\ mixed' = mixed \cup Overtaken(c, e)
        /\ UNCHANGED envSlice
     \/ /\ e.name \in NamesIn(EnvOf(c)) /\ ~envSlice[c].shared
        /\ envSlice' = [envSlice EXCEPT ![c] = OwnEnv(Replace(@.own, e))]
        /\ UNCHANGED <<defaultEnv, overwritten, mixed>>
     \/ /\ e.name \notin NamesIn(EnvOf(c))
        /\ envSlice' = [envSlice EXCEPT ![c] = OwnEnv(Append(EnvOf(c), e))]
        /\ UNCHANGED <<defaultEnv, overwritten, mixed>>
  /\ UNCHANGED <<stage, asked, rawEnv>>

Ends(c) ==
  /\ stage' = [stage EXCEPT ![c] = "idle"]
  /\ asked' = [asked EXCEPT ![c] = NothingAsked]
  /\ calls' = [calls EXCEPT ![c] = <<>>]
  /\ envSlice' = [envSlice EXCEPT ![c] = SharedEnv]
  /\ rawEnv' = [rawEnv EXCEPT ![c] = <<>>]
  /\ mixed' = mixed \ {c}
  /\ UNCHANGED <<defaultEnv, overwritten>>

(* addImageEnvs: a variable that is not of the form name=value, without       *)
(* another "=", makes the request fail; the ones before it have been added.   *)
InvalidImageEnv(c) ==
  /\ stage[c] = "env" /\ calls[c] # <<>> /\ Head(calls[c]).parts # 2
  /\ Ends(c)

MarshalEnv(c) ==
  /\ stage[c] = "env" /\ calls[c] = <<>>
  /\ stage' = [stage EXCEPT ![c] = "create"]
  /\ rawEnv' = [rawEnv EXCEPT ![c] = EnvOf(c)]
  /\ envSlice' = [envSlice EXCEPT ![c] = SharedEnv]
  /\ UNCHANGED <<asked, calls, defaultEnv, overwritten, mixed>>

CreateWithEnv(c) == stage[c] = "create" /\ Ends(c)

EnvNext ==
  \E c \in Builds :
    \/ GenerateContainerEnv(c) \/ GenerateSandboxEnv(c)
    \/ AddProcessEnv(c) \/ InvalidImageEnv(c) \/ MarshalEnv(c) \/ CreateWithEnv(c)

EnvSpec == EnvInit /\ [][EnvNext]_envVars

-----------------------------------------------------------------------------
(* The last value a list has for a name. *)
LastValue(env, k) ==
  env[CHOOSE i \in DOMAIN env : env[i].name = k /\ \A j \in DOMAIN env : env[j].name = k => j <= i].value

(* Where the value of k has to come from: the request, then the image, then   *)
(* the terminal, then the default.                                            *)
Source(r, k) ==
  LET ranked == <<r.config, r.image, Term(r.tty), DefaultEnv>> IN
  ranked[CHOOSE n \in 1 .. 4 : k \in NamesIn(ranked[n]) /\ \A m \in 1 .. n - 1 : k \notin NamesIn(ranked[m])]

(* A spec has the variables that its request, its image and the default call  *)
(* for and no others, each with the value that takes precedence               *)
(* (container_create.go:206-217), whatever specs are generated before or at   *)
(* the same time; except that a variable of the default environment may have  *)
(* a value that some other image or request gave it: if this spec does not    *)
(* set it, at any time after that, and otherwise if the two were generated at *)
(* the same time.                                                             *)
EnvOnlyByOthers ==
  \A c \in Builds :
    stage[c] = "create" =>
      /\ NamesIn(rawEnv[c]) = NamesIn(EnvCalls(asked[c])) \cup NamesIn(DefaultEnv)
      /\ Len(rawEnv[c]) = Cardinality(NamesIn(rawEnv[c]))
      /\ \A i \in DOMAIN rawEnv[c] :
           LET k == rawEnv[c][i].name
               r == asked[c] IN
           \/ rawEnv[c][i].value = LastValue(Source(r, k), k)
           \/ /\ k \in NamesIn(DefaultEnv) /\ k \in overwritten
              /\ c \in mixed \/ k \notin NamesIn(EnvCalls(r))
=============================================================================
