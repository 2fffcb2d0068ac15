---------------------------- MODULE ImageService ----------------------------
(***************************************************************************)
(* Image management in cri-containerd: PullImage, RemoveImage, ImageStatus *)
(* and ensureImageExists, run concurrently by the gRPC server (Requests),  *)
(* over the in-memory image store and containerd's image store, content    *)
(* store and snapshots.                                                    *)
(*                                                                         *)
(* Ids are the images, each with its manifest, its config (whose digest is *)
(* the image id) and its chain of layers; Names are the tags.  The blobs of*)
(* an image are kept as one resource.  containerd and the registry are     *)
(* external.                                                               *)
(***************************************************************************)
EXTENDS Requests, FiniteSets

CONSTANTS
  Schema1,      \* the images that have a schema 1 manifest
  MaxRequests   \* bound: how many requests other than ImageStatus arrive

ASSUME ImagesAssumption == Schema1 \subseteq Ids /\ MaxRequests \in Nat

(* The names in containerd's image store. *)
TagRef(t)    == [kind |-> "tag", of |-> t]
DigestRef(i) == [kind |-> "digest", of |-> i]
IdRef(i)     == [kind |-> "id", of |-> i]

RepoRefs == {TagRef(t) : t \in Names} \cup {DigestRef(i) : i \in Ids}
Refs     == RepoRefs \cup {IdRef(i) : i \in Ids}

VARIABLES
  (* Memory of cri-containerd, lost when it restarts. *)
  images,       \* imageStore: the tags and digests of each image, and its chain
  local,        \* the local variables of each handler
  (* containerd and the registry. *)
  registry,     \* the image of each tag
  refs,         \* the image of each name in containerd's image store
  content,      \* the blobs of each image in the content store
  unpacked,     \* the images whose layers are unpacked in snapshots
  (* History. *)
  moved,        \* tags moved in the registry after the start
  raced,        \* those moved while a handler was pulling them
  asked         \* requests so far, but ImageStatus

runtime == <<registry, refs, content, unpacked>>
history == <<moved, raced, asked>>
vars    == <<images, local, up, handler, runtime, history, leaked, spent>>

-----------------------------------------------------------------------------
(* Types.                                                                    *)

ResolvePcs == {"lookup", "load"}                                  \* localResolve
PullPcs    == {"resolve", "fetch", "fetching", "waitDl", "convert", "create", "update",
               "get", "unpack", "info", "add"}
RemovePcs  == {"delete", "forget"}
Returned   == {"ok", "err"}
Busy       == ResolvePcs \cup PullPcs \cup RemovePcs \cup {"recheck"}

Images == [names : SUBSET RepoRefs, chain : Ids]

Locals == [
  op    : {"", "pull", "ensure", "remove", "status"},   \* what it was called for
  desc  : Ids \cup {Nil},   \* the image the registry resolved the name to
  got   : Ids \cup {Nil},   \* the image containerd resolved the name to
  chain : Ids \cup {Nil},   \* the image whose chain id it has read
  todo  : SUBSET Refs ]     \* the names it still has to create or delete

NoLocals == [op |-> "", desc |-> Nil, got |-> Nil, chain |-> Nil, todo |-> {}]

op(p)   == local[p].op
desc(p) == local[p].desc
got(p)  == local[p].got
todo(p) == local[p].todo

(* p goes on with the local variables l, which are gone when it returns. *)
Local(p, l) == local' = [local EXCEPT ![p] = IF pc'[p] \in Returned THEN NoLocals ELSE l]

KeepsLocal(p) == Local(p, local[p])

TypeOK ==
  /\ images \in [Ids -> Images \cup {Nil}]
  /\ local \in [Procs -> Locals]
  /\ up \in BOOLEAN
  /\ pc \in [Procs -> {"idle"} \cup Returned \cup Busy]
  /\ arg \in [Procs -> Refs \cup {Nil}]
  /\ done \subseteq Procs
  /\ \A p \in Procs : pc[p] \in PullPcs \ {"resolve"} => arg[p] \in RepoRefs /\ desc(p) # Nil
  /\ \A p \in Procs : pc[p] \in {"unpack", "info", "add", "load", "delete", "forget"} => got(p) # Nil
  /\ \A p \in Procs : pc[p] \in {"create", "update", "delete"} => todo(p) # {}
  /\ registry \in [Names -> Ids]
  /\ refs \in [Refs -> Ids \cup {Nil}]
  /\ content \in [Ids -> {"none", "open", "partial", "complete"}]
  /\ unpacked \subseteq Ids
  /\ raced \subseteq moved /\ moved \subseteq Names /\ leaked \subseteq Ids
  /\ asked \in 0 .. MaxRequests /\ spent \in Nat

Init ==
  /\ images = [i \in Ids |-> Nil]
  /\ local = [p \in Procs |-> NoLocals]
  /\ up = TRUE
  /\ pc = [p \in Procs |-> "idle"] /\ arg = [p \in Procs |-> Nil] /\ done = {}
  /\ registry \in [Names -> Ids]
  /\ refs = [r \in Refs |-> Nil]
  /\ content = [i \in Ids |-> "none"]
  /\ unpacked = {}
  /\ moved = {} /\ raced = {} /\ leaked = {} /\ asked = 0 /\ spent = 0

-----------------------------------------------------------------------------
(* The in-memory image store.  An image that is added again keeps its chain  *)
(* id and gets the names as well.                                            *)

MergeStringSlices(a, b) == a \cup b

StoreAdd(i, names, chain) ==
  LET e == images[i]
  IN images' = [images EXCEPT ![i] =
       IF e = Nil THEN [names |-> names, chain |-> chain]
       ELSE [names |-> MergeStringSlices(e.names, names), chain |-> e.chain]]

StoreHas(i) == images[i] # Nil

StoreDelete(i) == images' = [images EXCEPT ![i] = Nil]

-----------------------------------------------------------------------------
(* The requests.                                                             *)

Asks(p, for, ref, at) ==
  /\ for = "status" \/ asked < MaxRequests
  /\ asked' = IF for = "status" THEN asked ELSE asked + 1
  /\ Arrives(p, ref, at)
  /\ Local(p, [NoLocals EXCEPT !.op = for, !.got = IF at = "load" THEN ref.of ELSE Nil])
  /\ UNCHANGED <<images, up, runtime, moved, raced, leaked>>

PullImage(p) == \E ref \in RepoRefs : Asks(p, "pull", ref, "resolve")

(* localResolve takes an image id as it is, and looks any other name up. *)
ResolveFrom(ref) == IF ref.kind = "id" THEN "load" ELSE "lookup"

RemoveImage(p)       == \E ref \in Refs : Asks(p, "remove", ref, ResolveFrom(ref))
ImageStatus(p)       == \E ref \in Refs : Asks(p, "status", ref, ResolveFrom(ref))
EnsureImageExists(p) == \E ref \in Refs : Asks(p, "ensure", ref, ResolveFrom(ref))

-----------------------------------------------------------------------------
(* localResolve.                                                             *)

(* What the caller does when localResolve finds no image. *)
Missing(p) == IF op(p) = "ensure" THEN "resolve" ELSE "ok"

(* Get from containerd's image store, and Config, which reads the manifest.  *)
Lookup(p) ==
  /\ pc[p] = "lookup"
  /\ LET i == refs[arg[p]]
     IN \/ /\ i = Nil
           /\ \E out \in Outcomes(p) : Calls(p, "lookup", out, Missing(p), "err")
           /\ KeepsLocal(p)
        \/ /\ i # Nil
           /\ content[i] = "complete"
           /\ \E out \in Outcomes(p) : Calls(p, "lookup", out, "load", "err")
           /\ Local(p, [local[p] EXCEPT !.got = i])
        \/ /\ i # Nil
           /\ content[i] # "complete"
           /\ Fails(p, "lookup", "err")
           /\ KeepsLocal(p)
  /\ UNCHANGED <<images, up, runtime, history, leaked>>

(* imageStore.Get.  RemoveImage goes on with the names of the entry and the  *)
(* id; ImageStatus and ensureImageExists return the entry.                   *)
Load(p) ==
  /\ LET i == got(p)
     IN \/ /\ i # Nil /\ ~StoreHas(i)
           /\ Moves(p, "load", Missing(p))
           /\ Local(p, [local[p] EXCEPT !.got = Nil])
        \/ /\ i # Nil /\ StoreHas(i)
           /\ Moves(p, "load", IF op(p) = "remove" THEN "delete" ELSE "ok")
           /\ Local(p, [local[p] EXCEPT !.todo = images[i].names \cup {IdRef(i)}])
  /\ UNCHANGED <<images, up, done, runtime, history, leaked, spent>>

-----------------------------------------------------------------------------
(* PullImage.                                                                *)

(* getRepoDigestAndTag: a schema 1 image has no digest but one it is pulled  *)
(* by.                                                                       *)
GetRepoDigestAndTag(ref, i) ==
  {ref} \cup {r \in {DigestRef(i)} : ref.kind = "tag" /\ i \notin Schema1}

(* Mutant: the names are created before the download. *)
ResolveThenCreate(p) ==
  /\ pc[p] = "resolve" /\ arg[p].kind # "id"
  /\ \E out \in Outcomes(p) : Calls(p, "resolve", out, "create", "err")
  /\ LET i == IF arg[p].kind = "tag" THEN registry[arg[p].of] ELSE arg[p].of
     IN Local(p, [local[p] EXCEPT !.desc = i, !.todo = GetRepoDigestAndTag(arg[p], i)])
  /\ UNCHANGED <<images, up, runtime, history, leaked>>

(* The registry resolves the name.  An image id names no repository. *)
Resolve(p) ==
  /\ pc[p] = "resolve"
  /\ \/ /\ arg[p].kind = "id"
        /\ Fails(p, "resolve", "err")
        /\ KeepsLocal(p)
     \/ /\ arg[p].kind # "id"
        /\ \E out \in Outcomes(p) : Calls(p, "resolve", out, "fetch", "err")
        /\ LET i == IF arg[p].kind = "tag" THEN registry[arg[p].of] ELSE arg[p].of
           IN Local(p, [local[p] EXCEPT !.desc = i, !.todo = GetRepoDigestAndTag(arg[p], i)])
  /\ UNCHANGED <<images, up, runtime, history, leaked>>

(* Dispatch opens an ingest for the blobs that are not there.  It waits      *)
(* while another pull has it open, until its own context is done.  Its error *)
(* is only logged: the handler goes on to wait in any case.                  *)
Fetch(p) ==
  LET i == desc(p)
  IN /\ i # Nil
     /\ \E out \in Outcomes(p) :
          /\ content[i] = "open" => out = "refused" /\ p \in done
          /\ Calls(p, "fetch", out, IF content[i] = "complete" THEN "waitDl" ELSE "fetching", "waitDl")
          /\ content' = IF content[i] \in {"none", "partial"}
                        THEN [content EXCEPT ![i] = CASE out = "ok" -> "open"
                                                      [] out = "lost" -> "partial"
                                                      [] OTHER -> @]
                        ELSE content
          /\ Leaks(i, out # "ok")
     /\ UNCHANGED <<images, local, up, registry, refs, unpacked, history>>

(* The download ends.  One that fails leaves its ingest behind, so that it   *)
(* can be resumed.                                                           *)
FetchEnds(p) ==
  LET i == desc(p)
  IN /\ \E out \in Outcomes(p) :
          /\ Calls(p, "fetching", out, "waitDl", "waitDl")
          /\ content' = [content EXCEPT ![i] = IF Effective(out) THEN "complete" ELSE "partial"]
          /\ Leaks(i, ~Effective(out))
     /\ UNCHANGED <<images, local, up, registry, refs, unpacked, history>>

(* ListStatuses lists every ingest that is not committed, whether or not     *)
(* anybody is still writing to it.                                           *)
WaitForResourcesDownloading(p) ==
  /\ pc[p] = "waitDl"
  /\ \E out \in Outcomes(p) :
       /\ out = "ok" => content[desc(p)] \notin {"open", "partial"}
       /\ Calls(p, "waitDl", out, IF desc(p) \in Schema1 THEN "convert" ELSE "create", "err")
  /\ KeepsLocal(p)
  /\ UNCHANGED <<images, up, runtime, history, leaked>>

Convert(p) ==
  /\ pc[p] = "convert"
  /\ \/ /\ content[desc(p)] = "complete"
        /\ \E out \in Outcomes(p) : Calls(p, "convert", out, "create", "err")
     \/ /\ content[desc(p)] # "complete"
        /\ Fails(p, "convert", "err")
  /\ KeepsLocal(p)
  /\ UNCHANGED <<images, up, runtime, history, leaked>>

(* The name a loop over the names of an image takes next: tags, then         *)
(* digests, then the id.                                                     *)
Earlier(r, s) == r.kind = "tag" \/ s.kind = "id" \/ r.kind = s.kind

Nexts(p) == {r \in todo(p) : \A s \in todo(p) : Earlier(r, s)}

(* createImageReference is called for the tag and the digest, and at the end *)
(* of pullImage for the id.                                                  *)
Created(p, r) ==
  IF todo(p) # {r} THEN "create" ELSE IF r.kind = "id" THEN "info" ELSE "get"

SetRef(p, r, out) == refs' = IF Effective(out) THEN [refs EXCEPT ![r] = desc(p)] ELSE refs

(* Mutant: AlreadyExists is taken for success. *)
CreateImageReferenceOnce(p) ==
  /\ \E r \in Nexts(p), out \in Outcomes(p) :
       /\ Calls(p, "create", out, Created(p, r), "err")
       /\ IF refs[r] = Nil THEN SetRef(p, r, out) ELSE UNCHANGED refs
       /\ Local(p, [local[p] EXCEPT !.todo = @ \ {r}])
  /\ UNCHANGED <<images, up, registry, content, unpacked, history, leaked>>

CreateImageReference(p) ==
  /\ \E r \in Nexts(p), out \in Outcomes(p) :
       \/ /\ refs[r] = Nil
          /\ Calls(p, "create", out, Created(p, r), "err")
          /\ SetRef(p, r, out)
          /\ Local(p, [local[p] EXCEPT !.todo = @ \ {r}])
       \/ /\ refs[r] # Nil                                   \* AlreadyExists
          /\ Calls(p, "create", out, "update", "err")
          /\ KeepsLocal(p)
          /\ UNCHANGED refs
  /\ UNCHANGED <<images, up, registry, content, unpacked, history, leaked>>

UpdateImageReference(p) ==
  /\ \E r \in Nexts(p) :
       \/ /\ refs[r] # Nil
          /\ \E out \in Outcomes(p) :
               /\ Calls(p, "update", out, Created(p, r), "err")
               /\ SetRef(p, r, out)
          /\ Local(p, [local[p] EXCEPT !.todo = @ \ {r}])
       \/ /\ refs[r] = Nil                       \* deleted since it was created
          /\ Fails(p, "update", "err")
          /\ KeepsLocal(p)
          /\ UNCHANGED refs
  /\ UNCHANGED <<images, up, registry, content, unpacked, history, leaked>>

(* Mutant: that the name is gone is not noticed. *)
GetImageUnchecked(p) ==
  /\ pc[p] = "get"
  /\ \E out \in Outcomes(p) : Calls(p, "get", out, "unpack", "err")
  /\ Local(p, [local[p] EXCEPT !.got = refs[arg[p]]])
  /\ UNCHANGED <<images, up, runtime, history, leaked>>

(* The name is read back from containerd: what it refers to from here on may *)
(* not be desc.                                                              *)
GetImage(p) ==
  /\ pc[p] = "get"
  /\ LET i == refs[arg[p]]
     IN \/ /\ i # Nil
           /\ \E out \in Outcomes(p) : Calls(p, "get", out, "unpack", "err")
           /\ Local(p, [local[p] EXCEPT !.got = i])
        \/ /\ i = Nil
           /\ Fails(p, "get", "err")
           /\ KeepsLocal(p)
  /\ UNCHANGED <<images, up, runtime, history, leaked>>

(* Mutant: an error of ApplyLayers is only logged. *)
UnpackLogged(p) ==
  /\ pc[p] = "unpack"
  /\ \E out \in Outcomes(p) :
       /\ Calls(p, "unpack", out, "create", "create")
       /\ unpacked' = IF Effective(out) THEN unpacked \cup {got(p)} ELSE unpacked
  /\ Local(p, [local[p] EXCEPT !.todo = {IdRef(got(p))}])
  /\ UNCHANGED <<images, up, registry, refs, content, history, leaked>>

(* ReadBlob, RootFS, ApplyLayers and Config: all need the blobs.  The id of  *)
(* the image read back is then registered, as a name of desc.                *)
Unpack(p) ==
  /\ pc[p] = "unpack"
  /\ \/ /\ content[got(p)] = "complete"
        /\ \E out \in Outcomes(p) :
             /\ Calls(p, "unpack", out, "create", "err")
             /\ unpacked' = IF Effective(out) THEN unpacked \cup {got(p)} ELSE unpacked
        /\ Local(p, [local[p] EXCEPT !.todo = {IdRef(got(p))}])
     \/ /\ content[got(p)] # "complete"
        /\ Fails(p, "unpack", "err")
        /\ KeepsLocal(p)
        /\ UNCHANGED unpacked
  /\ UNCHANGED <<images, up, registry, refs, content, history, leaked>>

(* getImageInfo looks the name up once more, for the chain id. *)
GetImageInfo(p) ==
  /\ pc[p] = "info"
  /\ LET i == refs[arg[p]]
     IN \/ /\ i # Nil /\ content[i] = "complete"
           /\ \E out \in Outcomes(p) : Calls(p, "info", out, "add", "err")
           /\ Local(p, [local[p] EXCEPT !.chain = i])
        \/ /\ IF i = Nil THEN TRUE ELSE content[i] # "complete"
           /\ Fails(p, "info", "err")
           /\ KeepsLocal(p)
  /\ UNCHANGED <<images, up, runtime, history, leaked>>

AddToStore(p) ==
  /\ Moves(p, "add", IF op(p) = "ensure" THEN "recheck" ELSE "ok")
  /\ StoreAdd(got(p), GetRepoDigestAndTag(arg[p], desc(p)), local[p].chain)
  /\ KeepsLocal(p)
  /\ UNCHANGED <<up, done, runtime, history, leaked, spent>>

(* ensureImageExists gets the entry from the store after the pull. *)
Recheck(p) ==
  /\ pc[p] = "recheck"
  /\ Moves(p, "recheck", IF StoreHas(got(p)) THEN "ok" ELSE "err")
  /\ KeepsLocal(p)
  /\ UNCHANGED <<images, up, done, runtime, history, leaked, spent>>

-----------------------------------------------------------------------------
(* RemoveImage.                                                              *)

(* A name that is not there is as good as deleted.  What a name refers to is *)
(* not looked at.                                                            *)
DeleteReference(p) ==
  /\ \E r \in Nexts(p), out \in Outcomes(p) :
       /\ Calls(p, "delete", out, IF todo(p) = {r} THEN "forget" ELSE "delete", "err")
       /\ refs' = IF Effective(out) THEN [refs EXCEPT ![r] = Nil] ELSE refs
       /\ Local(p, [local[p] EXCEPT !.todo = @ \ {r}])
  /\ UNCHANGED <<images, up, registry, content, unpacked, history, leaked>>

Forget(p) ==
  /\ Moves(p, "forget", "ok")
  /\ StoreDelete(got(p))
  /\ KeepsLocal(p)
  /\ UNCHANGED <<up, done, runtime, history, leaked, spent>>

-----------------------------------------------------------------------------
Respond(p) ==
  /\ up
  /\ pc[p] \in Returned
  /\ pc' = [pc EXCEPT ![p] = "idle"]
  /\ arg' = [arg EXCEPT ![p] = Nil]
  /\ done' = done \ {p}
  /\ UNCHANGED <<images, local, up, runtime, history, leaked, spent>>

-----------------------------------------------------------------------------
(* The environment.                                                          *)

Push(t, i) ==
  /\ May("push")
  /\ registry[t] # i
  /\ registry' = [registry EXCEPT ![t] = i]
  /\ moved' = moved \cup {t}
  /\ raced' = IF \E p \in Procs : pc[p] \in PullPcs /\ arg[p] = TagRef(t) THEN raced \cup {t} ELSE raced
  /\ Spend(1)
  /\ UNCHANGED <<images, local, up, handler, refs, content, unpacked, asked, leaked>>

Cancel(p) ==
  /\ May("cancel")
  /\ pc[p] \in Busy
  /\ p \notin done
  /\ done' = done \cup {p}
  /\ Spend(1)
  /\ UNCHANGED <<images, local, up, pc, arg, runtime, history, leaked>>

Crash ==
  /\ May("crash")
  /\ up
  /\ up' = FALSE
  /\ images' = [i \in Ids |-> Nil]
  /\ local' = [p \in Procs |-> NoLocals]
  /\ pc' = [p \in Procs |-> "idle"] /\ arg' = [p \in Procs |-> Nil] /\ done' = {}
  /\ content' = [i \in Ids |-> IF content[i] = "open" THEN "partial" ELSE content[i]]
  /\ leaked' = leaked \cup {i \in Ids : content[i] = "open"}
  /\ Spend(1)
  /\ UNCHANGED <<registry, refs, unpacked, history>>

(* Nothing is loaded from containerd: the store starts empty. *)
Restart ==
  /\ ~up
  /\ up' = TRUE
  /\ UNCHANGED <<images, local, handler, runtime, history, leaked, spent>>

-----------------------------------------------------------------------------
Request(p) == PullImage(p) \/ RemoveImage(p) \/ ImageStatus(p) \/ EnsureImageExists(p)

PullStep(p) ==
  \/ Resolve(p) \/ Fetch(p) \/ FetchEnds(p) \/ WaitForResourcesDownloading(p) \/ Convert(p)
  \/ CreateImageReference(p) \/ UpdateImageReference(p) \/ GetImage(p) \/ Unpack(p)
  \/ GetImageInfo(p) \/ AddToStore(p) \/ Recheck(p)

HandlerStep(p) ==
  \/ Lookup(p) \/ Load(p) \/ PullStep(p) \/ DeleteReference(p) \/ Forget(p) \/ Respond(p)

EnvStep ==
  \/ \E t \in Names, i \in Ids : Push(t, i)
  \/ \E p \in Procs : Cancel(p)
  \/ Crash \/ Restart

Next == (\E p \in Procs : Request(p) \/ HandlerStep(p)) \/ EnvStep

Spec == Init /\ [][Next]_vars

(* Goroutines run, calls return and the ticker fires. *)
Fairness == (\A p \in Procs : WF_vars(HandlerStep(p))) /\ WF_vars(Restart)

FairSpec == Spec /\ Fairness

-----------------------------------------------------------------------------
(* Properties.                                                               *)

(* An image in the store, which is what ListImages and ImageStatus show as   *)
(* ready, has all its blobs and is unpacked, whatever failed on the way and  *)
(* however pulls and removals of it overlapped (PullImage, pullImage).       *)
ReadyMeansUnpacked ==
  \A i \in Ids : images[i] # Nil => i \in unpacked /\ content[i] = "complete"

(* An entry of the store has the chain id and the digests of its own image.  *)
(* The one way to mix two images up is that one of the tags of the entry was *)
(* moved in the registry while it was being pulled: pullImage, and           *)
(* getImageInfo once more, read back the name, not the descriptor.           *)
MixedOnlyByRace ==
  \A i \in Ids : images[i] # Nil =>
    \/ images[i].chain = i /\ \A r \in images[i].names : r.kind = "digest" => r.of = i
    \/ \E t \in raced : TagRef(t) \in images[i].names

(* A name that RemoveImage deletes resolves to the image it removes, although*)
(* it does not look at that: other names are deleted only if the name is a   *)
(* tag that was moved in the registry, or a pull raced with such a move.     *)
RemovalSparesOthers ==
  [][\A p \in Procs, r \in Refs :
       pc[p] = "delete" /\ r \in todo(p) \ local'[p].todo /\ refs[r] # Nil /\ refs'[r] = Nil
         => \/ refs[r] = got(p)
            \/ r.kind = "tag" /\ r.of \in moved
            \/ raced # {}]_vars

(* A name in containerd refers to an image that has all its blobs, unless a  *)
(* download of it failed: the error of Dispatch is only logged, and pullImage*)
(* goes on to create the names when there is no ingest to wait for.          *)
NamesHaveContent ==
  \A r \in Refs : refs[r] # Nil => content[refs[r]] = "complete" \/ refs[r] \in leaked

(* waitForResourcesDownloading ends once nobody is downloading any more.     *)
WaitEnds ==
  \A p \in Procs :
    (pc[p] = "waitDl" /\ \A i \in Ids : content[i] # "open") ~> pc[p] # "waitDl"
=============================================================================
