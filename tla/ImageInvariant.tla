--------------------------- MODULE ImageInvariant ----------------------------
(***************************************************************************)
(* The inductive invariant of ImageService: where a handler is tells what  *)
(* it knows, and what it knows ties the names in containerd, the blobs, the*)
(* snapshots and the image store together.                                 *)
(***************************************************************************)
EXTENDS ImageService

(* Where a handler is tells what its local variables are.  pullImage comes to *)
(* "create" twice: with the names of the request, before it has read back     *)
(* what they refer to, and with the image id.                                 *)
Place(at, ref, l) ==
  /\ at \in Busy => ref \in Refs
  /\ at \in PullPcs \ {"resolve"} => ref \in RepoRefs /\ l.desc # Nil
  /\ at \in {"lookup", "resolve", "fetch", "fetching", "waitDl", "convert", "get"} => l.got = Nil
  /\ at \in {"unpack", "info", "add", "load", "delete", "forget", "recheck"} => l.got # Nil
  /\ at \in {"fetch", "fetching", "waitDl", "convert"} => l.todo = GetRepoDigestAndTag(ref, l.desc)
  /\ at \in {"create", "update"} =>
       /\ l.todo # {}
       /\ IF l.got = Nil THEN l.todo \subseteq GetRepoDigestAndTag(ref, l.desc) ELSE l.todo = {IdRef(l.got)}
  /\ at \in {"get", "unpack", "info", "add"} => l.todo = {}
  /\ at \in ResolvePcs \cup PullPcs => (l.chain = Nil <=> at # "add")
  /\ at = "delete" => l.todo # {}

PlaceInv == \A p \in Procs : Place(pc[p], arg[p], local[p])

(* One handler at a time downloads an image; and once a handler has stopped   *)
(* waiting for a download, the blobs are there or the download has failed.    *)
Present(i) == content[i] = "complete" \/ i \in leaked

DownloadInv ==
  /\ \A p \in Procs : pc[p] = "fetching" => content[desc(p)] = "open"
  /\ \A p, q \in Procs : pc[p] = "fetching" /\ pc[q] = "fetching" /\ desc(p) = desc(q) => p = q
  /\ \A p \in Procs : pc[p] \in PullPcs \ {"resolve", "fetch", "fetching"} => Present(desc(p))
  /\ NamesHaveContent

(* The image a pull has read back is unpacked when its id is registered. *)
ReadyInv ==
  /\ \A p \in Procs :
       pc[p] \in {"create", "update", "info", "add"} /\ got(p) # Nil =>
         got(p) \in unpacked /\ content[got(p)] = "complete"
  /\ ReadyMeansUnpacked

(* A pull whose tag was not moved under it has one image from beginning to    *)
(* end, and so have the pulls of that tag at the same time.                   *)
Follows(ref, l) ==
  (ref.kind = "tag" => ref.of \notin raced) =>
    /\ l.desc = IF ref.kind = "tag" THEN registry[ref.of] ELSE ref.of
    /\ l.got \in {Nil, l.desc} /\ l.chain \in {Nil, l.desc}
    /\ ref \notin l.todo => refs[ref] \in {Nil, l.desc}

MixInv ==
  /\ \A i \in Ids : refs[DigestRef(i)] \in {Nil, i}
  /\ \A p \in Procs : pc[p] \in PullPcs \ {"resolve"} => Follows(arg[p], local[p])
  /\ MixedOnlyByRace

(* What the names of an image refer to as long as no tag is moved. *)
Own(r, i) ==
  /\ r.kind \in {"digest", "id"} /\ raced = {} => r.of = i
  /\ r.kind = "tag" /\ r.of \notin moved => registry[r.of] = i

RemovalInv ==
  /\ raced = {} => \A i \in Ids : refs[IdRef(i)] \in {Nil, i}
  /\ \A t \in Names \ moved : refs[TagRef(t)] \in {Nil, registry[t]}
  /\ \A i \in Ids : images[i] # Nil => \A r \in images[i].names : Own(r, i)
  /\ \A p \in Procs : pc[p] = "delete" => \A r \in todo(p) : Own(r, got(p))

ImageInv == TypeOK /\ PlaceInv /\ DownloadInv /\ ReadyInv /\ MixInv /\ RemovalInv
==============================================================================
