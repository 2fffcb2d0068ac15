----------------------------- MODULE ImageProofs -----------------------------
(***************************************************************************)
(* The properties of ImageService hold for every value of the constants:   *)
(* any handlers, images, tags, schema 1 images and disturbances.           *)
(***************************************************************************)
EXTENDS ImageInvariant, TLAPS

(* The names of images. *)
LEMMA RefKinds ==
  ASSUME NEW r \in Refs
  PROVE  /\ r.kind \in {"tag", "digest", "id"}
         /\ r.kind = "tag" => r.of \in Names /\ r = TagRef(r.of)
         /\ r.kind = "digest" => r.of \in Ids /\ r = DigestRef(r.of)
         /\ r.kind = "id" => r.of \in Ids /\ r = IdRef(r.of)
         /\ r \in RepoRefs <=> r.kind # "id"
  BY DEF Refs, RepoRefs, TagRef, DigestRef, IdRef

LEMMA WantedRefs ==
  ASSUME NEW ref \in RepoRefs, NEW i \in Ids
  PROVE  /\ GetRepoDigestAndTag(ref, i) \subseteq RepoRefs /\ RepoRefs \subseteq Refs
         /\ ref \in GetRepoDigestAndTag(ref, i)
  BY DEF GetRepoDigestAndTag, Refs, RepoRefs

(* A step of one handler. *)
Pcs == {"idle"} \cup Returned \cup Busy

Goes(p, at, ref, l) ==
  /\ at \in Pcs /\ pc' = [pc EXCEPT ![p] = at]
  /\ ref \in Refs \cup {Nil} /\ arg' = [arg EXCEPT ![p] = ref]
  /\ l \in Locals /\ local' = [local EXCEPT ![p] = l]

HandlerTypeOK ==
  /\ local \in [Procs -> Locals]
  /\ pc \in [Procs -> Pcs]
  /\ arg \in [Procs -> Refs \cup {Nil}]
  /\ PlaceInv

LEMMA GoesTypes ==
  ASSUME HandlerTypeOK, NEW p \in Procs, NEW at, NEW ref, NEW l, Goes(p, at, ref, l), Place(at, ref, l)
  PROVE  HandlerTypeOK'
<1>1. local' \in [Procs -> Locals] /\ pc' \in [Procs -> Pcs] /\ arg' \in [Procs -> Refs \cup {Nil}]
  BY DEF HandlerTypeOK, Goes
<1>2. ASSUME NEW q \in Procs PROVE Place(pc'[q], arg'[q], local'[q])
  <2>1. CASE q = p
    BY <2>1 DEF HandlerTypeOK, Goes
  <2>2. CASE q # p
    BY <2>2 DEF HandlerTypeOK, Goes, PlaceInv
  <2> QED  BY <2>1, <2>2
<1> QED  BY <1>1, <1>2 DEF HandlerTypeOK, PlaceInv

(* Where a handler is that neither pulls nor deletes names. *)
Aside == {"idle", "ok", "err", "lookup", "load", "resolve", "recheck", "forget"}

(* What a handler's step comes to: a list of the places it may get to, with   *)
(* the local variables it then has.                                           *)
LEMMA CallFacts ==
  ASSUME TypeOK, NEW p \in Procs, NEW from, NEW a, NEW b,
         \/ \E out \in Outcomes(p) : Calls(p, from, out, a, b)
         \/ Fails(p, from, b)
  PROVE  /\ up /\ pc[p] = from /\ arg' = [arg EXCEPT ![p] = arg[p]]
         /\ \E at \in {a, b} : pc' = [pc EXCEPT ![p] = at]
         /\ done' \subseteq Procs /\ spent' \in Nat
  BY DEF TypeOK, Calls, Fails, Moves, Spend, Outcomes

LEMMA NoLocalsType == NoLocals \in Locals
  BY ZenonT(30) DEF Locals, NoLocals

LEMMA ReturnPlace == \A at \in {"idle", "ok", "err"} : \A ref, l : Place(at, ref, l)
  BY DEF Place, Busy, ResolvePcs, PullPcs, RemovePcs

(* p gets to "at", with the local variables l unless it returns. *)
LEMMA LocalGoes ==
  ASSUME TypeOK, NEW p \in Procs, NEW at \in Pcs, NEW l \in Locals,
         pc' = [pc EXCEPT ![p] = at], arg' = arg, Local(p, l),
         at \in Returned \/ Place(at, arg[p], l)
  PROVE  \E k : Goes(p, at, arg[p], k) /\ Place(at, arg[p], k) /\ (at \in Returned \/ k = l)
<1>1. pc'[p] = at /\ arg' = [arg EXCEPT ![p] = arg[p]] /\ arg[p] \in Refs \cup {Nil}
  BY DEF TypeOK
<1> DEFINE k == IF at \in Returned THEN NoLocals ELSE l
<1>2. local' = [local EXCEPT ![p] = k]
  BY ZenonT(30), <1>1 DEF Local
<1>3. k \in Locals /\ Place(at, arg[p], k)
  BY ZenonT(30), NoLocalsType, ReturnPlace DEF Returned
<1> QED  BY ZenonT(30), <1>1, <1>2, <1>3 DEF Goes

LEMMA AsksEffect ==
  ASSUME TypeOK, NEW p \in Procs, Request(p)
  PROVE  /\ \E at \in Aside : \E ref, l : Goes(p, at, ref, l) /\ Place(at, ref, l)
         /\ done' = done /\ spent' = spent /\ asked' \in 0 .. MaxRequests
         /\ UNCHANGED <<images, up, runtime, moved, raced, leaked>>
<1>1. PICK for \in {"pull", "ensure", "remove", "status"}, ref \in Refs, at \in {"resolve", "lookup", "load"} :
        Asks(p, for, ref, at) /\ (at = "load" => ref.kind = "id")
  BY DEF Request, PullImage, RemoveImage, ImageStatus, EnsureImageExists, ResolveFrom, Refs
<1> DEFINE i == IF at = "load" THEN ref.of ELSE Nil
           l == [NoLocals EXCEPT !.op = for, !.got = i]
<1>2. i \in Ids \cup {Nil} /\ (at = "load" => i # Nil) /\ (at # "load" => i = Nil)
  BY <1>1, RefKinds, NilAssumption
<1> HIDE DEF i
<1>3. l \in Locals /\ l.got = i /\ l.chain = Nil /\ at \notin Returned
  BY ZenonT(30), <1>2 DEF NoLocals, Locals, Returned
<1>4. Asks(p, for, ref, at) /\ Local(p, l)
  BY <1>1 DEF Asks, i
<1> HIDE DEF l
<1>5. Place(at, ref, l)
  BY <1>2, <1>3 DEF Place, Busy, ResolvePcs, PullPcs, RemovePcs
<1>6. Goes(p, at, ref, l)
  BY ZenonT(30), <1>3, <1>4 DEF TypeOK, Goes, Asks, Arrives, Local, Pcs, Busy, ResolvePcs, PullPcs
<1>7. asked' \in 0 .. MaxRequests
  BY <1>1, ImagesAssumption DEF TypeOK, Asks
<1> QED  BY <1>4, <1>5, <1>6, <1>7 DEF Asks, Arrives, Aside

LEMMA LookupEffect ==
  ASSUME TypeOK, PlaceInv, NEW p \in Procs, Lookup(p)
  PROVE  /\ \E at \in Aside : \E l : Goes(p, at, arg[p], l) /\ Place(at, arg[p], l)
         /\ done' \subseteq Procs /\ spent' \in Nat
<1>1. arg[p] \in Refs /\ Place("lookup", arg[p], local[p]) /\ local[p] \in Locals
  BY DEF TypeOK, Lookup, PlaceInv, Place, Busy, ResolvePcs
<1> DEFINE i == refs[arg[p]]
           l == [local[p] EXCEPT !.got = i]
<1>2. i \in Ids \cup {Nil}
  BY <1>1 DEF TypeOK
<1>3. l \in Locals /\ l.got = i /\ l.chain = local[p].chain
  BY ZenonT(30), <1>1, <1>2 DEF Locals
<1>4. \/ /\ \/ \E out \in Outcomes(p) : Calls(p, "lookup", out, Missing(p), "err")
            \/ Fails(p, "lookup", "err")
         /\ Local(p, local[p])
      \/ i # Nil /\ (\E out \in Outcomes(p) : Calls(p, "lookup", out, "load", "err")) /\ Local(p, l)
  BY DEF Lookup, KeepsLocal
<1> HIDE DEF i, l
<1>5. PICK at \in {"resolve", "ok", "load", "err"} :
        /\ pc' = [pc EXCEPT ![p] = at] /\ arg' = arg
        /\ \/ at # "load" /\ Local(p, local[p])
           \/ i # Nil /\ at \in {"load", "err"} /\ Local(p, l)
  BY ZenonT(30), <1>4 DEF Missing, Calls, Fails, Moves
<1>6. done' \subseteq Procs /\ spent' \in Nat
  BY ZenonT(30), <1>4, CallFacts
<1>7. Place("resolve", arg[p], local[p]) /\ (i # Nil => Place("load", arg[p], l))
  BY <1>1, <1>3 DEF Place, Busy, ResolvePcs, PullPcs, RemovePcs
<1>8. at \in Pcs /\ at \in Aside /\ (at \in Returned <=> at \in {"ok", "err"})
  BY DEF Pcs, Aside, Busy, ResolvePcs, PullPcs, Returned
<1> QED  BY ZenonT(30), <1>1, <1>3, <1>5, <1>6, <1>7, <1>8, LocalGoes

LEMMA LoadEffect ==
  ASSUME TypeOK, PlaceInv, NEW p \in Procs, Load(p)
  PROVE  \E at, l :
           /\ Goes(p, at, arg[p], l) /\ Place(at, arg[p], l)
           /\ \/ at \in Aside
              \/ /\ at = "delete" /\ images[got(p)] # Nil
                 /\ l.got = got(p) /\ l.todo = images[got(p)].names \cup {IdRef(got(p))}
<1>1. pc[p] = "load" /\ arg[p] \in Refs /\ Place("load", arg[p], local[p]) /\ local[p] \in Locals
  BY DEF TypeOK, Load, Moves, PlaceInv, Place, Busy, ResolvePcs
<1> DEFINE i == got(p)
           S == images[i].names \cup {IdRef(i)}
           k == [local[p] EXCEPT !.got = Nil]
           l == [local[p] EXCEPT !.todo = S]
<1>2. i \in Ids
  BY ZenonT(30), <1>1 DEF Locals, Place, got
<1>3. k \in Locals /\ k.got = Nil /\ k.chain = local[p].chain
  BY ZenonT(30), <1>1 DEF Locals
<1>4. images[i] # Nil => S \in SUBSET Refs
  BY <1>2 DEF TypeOK, Images, Refs
<1>5. images[i] # Nil => l \in Locals /\ l.todo = S /\ l.got = i /\ l.chain = local[p].chain
  BY ZenonT(30), <1>1, <1>4 DEF Locals, got
<1>6. \/ Moves(p, "load", Missing(p)) /\ Local(p, k)
      \/ images[i] # Nil /\ Moves(p, "load", IF op(p) = "remove" THEN "delete" ELSE "ok") /\ Local(p, l)
  BY ZenonT(30) DEF Load, StoreHas
<1> HIDE DEF k, l
<1>7. PICK at \in {"resolve", "ok", "delete"} :
        /\ pc' = [pc EXCEPT ![p] = at] /\ arg' = arg
        /\ \/ at # "delete" /\ Local(p, k)
           \/ images[i] # Nil /\ at \in {"delete", "ok"} /\ Local(p, l)
  BY ZenonT(30), <1>6 DEF Missing, Moves
<1>8. Place("resolve", arg[p], k) /\ (images[i] # Nil => Place("delete", arg[p], l))
  BY <1>1, <1>2, <1>3, <1>5, NilAssumption DEF Place, Busy, ResolvePcs, PullPcs, RemovePcs
<1>9. at \in Pcs /\ (at \in Aside <=> at # "delete") /\ (at \in Returned <=> at = "ok")
  BY DEF Pcs, Aside, Busy, ResolvePcs, PullPcs, RemovePcs, Returned
<1> HIDE DEF i, S
<1>10. \/ at # "delete" /\ \E m : Goes(p, at, arg[p], m) /\ Place(at, arg[p], m)
       \/ at = "delete" /\ images[i] # Nil /\ Goes(p, at, arg[p], l) /\ Place(at, arg[p], l)
  BY ZenonT(30), <1>1, <1>3, <1>5, <1>7, <1>8, <1>9, LocalGoes
<1> QED  BY ZenonT(30), <1>5, <1>9, <1>10 DEF i, S

-----------------------------------------------------------------------------
(* The steps of a pull.                                                       *)
LEMMA ResolveEffect ==
  ASSUME TypeOK, PlaceInv, NEW p \in Procs, Resolve(p)
  PROVE  /\ \E at, l :
              /\ Goes(p, at, arg[p], l) /\ Place(at, arg[p], l)
              /\ \/ at \in Aside
                 \/ /\ at = "fetch" /\ l.got = Nil /\ l.chain = Nil /\ arg[p] \in l.todo
                    /\ l.desc = IF arg[p].kind = "tag" THEN registry[arg[p].of] ELSE arg[p].of
         /\ done' \subseteq Procs /\ spent' \in Nat
<1>1. arg[p] \in Refs /\ Place("resolve", arg[p], local[p]) /\ local[p] \in Locals
  BY DEF TypeOK, Resolve, PlaceInv, Place, Busy, PullPcs
<1> DEFINE i == IF arg[p].kind = "tag" THEN registry[arg[p].of] ELSE arg[p].of
           S == GetRepoDigestAndTag(arg[p], i)
           l == [local[p] EXCEPT !.desc = i, !.todo = S]
<1>2. arg[p].kind # "id" => arg[p] \in RepoRefs /\ i \in Ids /\ S \in SUBSET Refs /\ arg[p] \in S
  BY <1>1, RefKinds, WantedRefs DEF TypeOK
<1>3. arg[p].kind # "id" =>
        l \in Locals /\ l.desc = i /\ l.todo = S /\ l.got = local[p].got /\ l.chain = local[p].chain
  BY ZenonT(30), <1>1, <1>2 DEF Locals
<1>4. \/ Fails(p, "resolve", "err") /\ Local(p, local[p])
      \/ /\ arg[p].kind # "id" /\ \E out \in Outcomes(p) : Calls(p, "resolve", out, "fetch", "err")
         /\ Local(p, l)
  BY ZenonT(30) DEF Resolve, KeepsLocal
<1> HIDE DEF l
<1>5. PICK at \in {"fetch", "err"} :
        /\ pc' = [pc EXCEPT ![p] = at] /\ arg' = arg
        /\ \/ at = "err" /\ Local(p, local[p])
           \/ arg[p].kind # "id" /\ Local(p, l)
  BY ZenonT(30), <1>4 DEF Calls, Fails, Moves
<1>6. done' \subseteq Procs /\ spent' \in Nat
  BY ZenonT(30), <1>4, CallFacts
<1>7. arg[p].kind # "id" => l.got = Nil /\ l.chain = Nil /\ Place("fetch", arg[p], l)
  BY <1>1, <1>2, <1>3, NilAssumption DEF Place, Busy, ResolvePcs, PullPcs, RemovePcs
<1>8. at \in Pcs /\ (at = "fetch" \/ at \in Aside) /\ (at \in Returned <=> at = "err")
  BY DEF Pcs, Aside, Busy, PullPcs, Returned
<1> HIDE DEF i, S
<1>9. \/ at = "err" /\ \E m : Goes(p, at, arg[p], m) /\ Place(at, arg[p], m)
      \/ at = "fetch" /\ arg[p].kind # "id" /\ Goes(p, at, arg[p], l) /\ Place(at, arg[p], l)
  BY ZenonT(30), <1>1, <1>3, <1>5, <1>7, <1>8, LocalGoes
<1> QED  BY ZenonT(30), <1>2, <1>3, <1>6, <1>7, <1>8, <1>9 DEF i

(* The download: the local variables stay. *)
LEMMA FetchEffect ==
  ASSUME TypeOK, PlaceInv, NEW p \in Procs, Fetch(p)
  PROVE  /\ pc[p] = "fetch" /\ desc(p) \in Ids
         /\ \E at \in {"waitDl", "fetching"}, k \in {"none", "open", "partial", "complete"} :
              /\ Goes(p, at, arg[p], local[p]) /\ Place(at, arg[p], local[p])
              /\ content' = [content EXCEPT ![desc(p)] = k]
              /\ at = "fetching" => k = "open" /\ leaked' = leaked /\ content[desc(p)] \notin {"open", "complete"}
              /\ at = "waitDl" =>
                   /\ content[desc(p)] \in {"open", "complete"} => k = content[desc(p)]
                   /\ \/ leaked' = leaked \cup {desc(p)}
                      \/ leaked' = leaked /\ k = "complete"
         /\ done' \subseteq Procs /\ spent' \in Nat
<1>1. pc[p] = "fetch" /\ Place("fetch", arg[p], local[p]) /\ local[p] \in Locals
  BY DEF TypeOK, Fetch, Calls, Moves, PlaceInv
<1>2. desc(p) \in Ids /\ content[desc(p)] \in {"none", "open", "partial", "complete"}
  BY ZenonT(30), <1>1 DEF TypeOK, Place, PullPcs, Locals, desc
<1>3. Place("waitDl", arg[p], local[p]) /\ Place("fetching", arg[p], local[p])
  BY <1>1 DEF Place, Busy, ResolvePcs, PullPcs, RemovePcs
<1>4. ASSUME NEW at \in {"waitDl", "fetching"}, pc' = [pc EXCEPT ![p] = at], arg' = arg, local' = local
      PROVE  Goes(p, at, arg[p], local[p])
  BY <1>1, <1>4 DEF TypeOK, Goes, Pcs, Busy, PullPcs
<1>5. content = [content EXCEPT ![desc(p)] = content[desc(p)]]
  BY DEF TypeOK
<1>6. PICK out \in Outcomes(p) :
        /\ content[desc(p)] = "open" => out = "refused" /\ p \in done
        /\ Calls(p, "fetch", out, IF content[desc(p)] = "complete" THEN "waitDl" ELSE "fetching", "waitDl")
        /\ content' = IF content[desc(p)] \in {"none", "partial"}
                      THEN [content EXCEPT ![desc(p)] = CASE out = "ok" -> "open"
                                                          [] out = "lost" -> "partial"
                                                          [] OTHER -> @]
                      ELSE content
        /\ Leaks(desc(p), out # "ok")
  BY ZenonT(30) DEF Fetch
<1>7. out \in {"ok", "lost", "refused"} /\ local' = local /\ arg' = arg
  BY <1>6 DEF Outcomes, Calls, Moves, Fetch
<1>8. done' \subseteq Procs /\ spent' \in Nat
  BY ZenonT(30), <1>6, CallFacts
<1>9. CASE content[desc(p)] \in {"open", "complete"}
  <2>1. content' = content
    BY <1>6, <1>9
  <2>2. pc' = [pc EXCEPT ![p] = "waitDl"]
    BY ZenonT(30), <1>6, <1>9 DEF Calls, Moves
  <2>3. leaked' = leaked \/ leaked' = leaked \cup {desc(p)}
    BY <1>6 DEF Leaks
  <2>4. content[desc(p)] = "open" => leaked' = leaked \cup {desc(p)}
    BY <1>6 DEF Leaks
  <2> QED  BY ZenonT(30), <1>1, <1>2, <1>3, <1>4, <1>5, <1>7, <1>8, <1>9, <2>1, <2>2, <2>3, <2>4
<1>10. CASE content[desc(p)] \in {"none", "partial"} /\ out = "ok"
  <2>1. content' = [content EXCEPT ![desc(p)] = "open"]
    BY ZenonT(30), <1>6, <1>10
  <2>2. pc' = [pc EXCEPT ![p] = "fetching"] /\ leaked' = leaked
    BY ZenonT(30), <1>6, <1>10 DEF Calls, Moves, Leaks
  <2> QED  BY ZenonT(30), <1>1, <1>2, <1>3, <1>4, <1>7, <1>8, <1>10, <2>1, <2>2
<1>11. CASE content[desc(p)] \in {"none", "partial"} /\ out = "lost"
  <2>1. content' = [content EXCEPT ![desc(p)] = "partial"]
    BY ZenonT(30), <1>6, <1>11
  <2>2. pc' = [pc EXCEPT ![p] = "waitDl"] /\ leaked' = leaked \cup {desc(p)}
    BY ZenonT(30), <1>6, <1>11 DEF Calls, Moves, Leaks
  <2> QED  BY ZenonT(30), <1>1, <1>2, <1>3, <1>4, <1>7, <1>8, <1>11, <2>1, <2>2
<1>12. CASE content[desc(p)] \in {"none", "partial"} /\ out = "refused"
  <2>1. content' = [content EXCEPT ![desc(p)] = content[desc(p)]]
    BY ZenonT(30), <1>6, <1>12
  <2>2. pc' = [pc EXCEPT ![p] = "waitDl"] /\ leaked' = leaked \cup {desc(p)}
    BY ZenonT(30), <1>6, <1>12 DEF Calls, Moves, Leaks
  <2> QED  BY ZenonT(30), <1>1, <1>2, <1>3, <1>4, <1>7, <1>8, <2>1, <2>2
<1> QED  BY <1>2, <1>7, <1>9, <1>10, <1>11, <1>12

LEMMA FetchEndsEffect ==
  ASSUME TypeOK, PlaceInv, NEW p \in Procs, FetchEnds(p)
  PROVE  /\ pc[p] = "fetching" /\ desc(p) \in Ids
         /\ Goes(p, "waitDl", arg[p], local[p]) /\ Place("waitDl", arg[p], local[p])
         /\ \/ content' = [content EXCEPT ![desc(p)] = "complete"] /\ leaked' = leaked
            \/ content' = [content EXCEPT ![desc(p)] = "partial"] /\ leaked' = leaked \cup {desc(p)}
         /\ done' \subseteq Procs /\ spent' \in Nat
<1>1. pc[p] = "fetching" /\ Place("fetching", arg[p], local[p]) /\ local[p] \in Locals
  BY DEF TypeOK, FetchEnds, Calls, Moves, PlaceInv
<1>2. desc(p) \in Ids /\ Place("waitDl", arg[p], local[p])
  BY ZenonT(30), <1>1 DEF Place, Busy, ResolvePcs, PullPcs, RemovePcs, Locals, desc
<1>3. Goes(p, "waitDl", arg[p], local[p])
  BY <1>1 DEF TypeOK, FetchEnds, Calls, Moves, Goes, Pcs, Busy, PullPcs
<1>4. done' \subseteq Procs /\ spent' \in Nat
  BY ZenonT(30), CallFacts DEF FetchEnds
<1> QED  BY ZenonT(30), <1>1, <1>2, <1>3, <1>4 DEF FetchEnds, Leaks

(* A call that goes on at "to" with the local variables l, or returns an      *)
(* error.                                                                     *)
LEMMA CallEffect ==
  ASSUME TypeOK, NEW p \in Procs, NEW from, NEW to \in Pcs \ Returned, NEW l \in Locals,
         \/ \E out \in Outcomes(p) : Calls(p, from, out, to, "err")
         \/ Fails(p, from, "err"),
         Local(p, l), Place(to, arg[p], l)
  PROVE  /\ \E at, k : /\ Goes(p, at, arg[p], k) /\ Place(at, arg[p], k)
                       /\ at = "err" \/ (at = to /\ k = l)
         /\ done' \subseteq Procs /\ spent' \in Nat
<1>1. PICK at \in {to, "err"} : pc' = [pc EXCEPT ![p] = at]
  BY ZenonT(30) DEF Calls, Fails, Moves
<1>2. arg' = arg
  BY ZenonT(30) DEF Calls, Fails, Moves
<1>3. at \in Pcs /\ "err" \in Returned /\ to \notin Returned
  BY DEF Pcs, Returned
<1>4. PICK k : Goes(p, at, arg[p], k) /\ Place(at, arg[p], k) /\ (at \in Returned \/ k = l)
  BY ZenonT(30), <1>1, <1>2, <1>3, LocalGoes
<1>5. done' \subseteq Procs /\ spent' \in Nat
  BY ZenonT(30), CallFacts
<1> QED  BY <1>1, <1>3, <1>4, <1>5

LEMMA FailEffect ==
  ASSUME TypeOK, NEW p \in Procs, NEW from, NEW l \in Locals, Fails(p, from, "err"), Local(p, l)
  PROVE  /\ \E k : Goes(p, "err", arg[p], k) /\ Place("err", arg[p], k)
         /\ done' \subseteq Procs /\ spent' \in Nat
<1>1. pc' = [pc EXCEPT ![p] = "err"] /\ arg' = arg /\ "err" \in Pcs /\ "err" \in Returned
  BY DEF Fails, Moves, Pcs, Returned
<1>2. done' \subseteq Procs /\ spent' \in Nat
  BY DEF TypeOK, Fails
<1> QED  BY ZenonT(30), <1>1, <1>2, LocalGoes

LEMMA WaitEffect ==
  ASSUME TypeOK, PlaceInv, NEW p \in Procs, WaitForResourcesDownloading(p) \/ Convert(p)
  PROVE  /\ pc[p] \in {"waitDl", "convert"}
         /\ \E at, l : /\ Goes(p, at, arg[p], l) /\ Place(at, arg[p], l)
                       /\ at = "err" \/ (at \in {"convert", "create"} /\ l = local[p])
         /\ done' \subseteq Procs /\ spent' \in Nat
<1>1. pc[p] \in {"waitDl", "convert"} /\ Place(pc[p], arg[p], local[p]) /\ local[p] \in Locals
  BY DEF TypeOK, WaitForResourcesDownloading, Convert, PlaceInv
<1>2. desc(p) \in Ids /\ arg[p] \in RepoRefs
  BY ZenonT(30), <1>1 DEF Place, PullPcs, Locals, desc
<1>3. Place("convert", arg[p], local[p]) /\ Place("create", arg[p], local[p])
  BY <1>1, <1>2, WantedRefs DEF Place, Busy, ResolvePcs, PullPcs, RemovePcs, desc
<1>4. PICK to \in {"convert", "create"} :
        /\ \/ \E out \in Outcomes(p) : Calls(p, pc[p], out, to, "err")
           \/ Fails(p, pc[p], "err")
        /\ Local(p, local[p])
  BY DEF WaitForResourcesDownloading, Convert, KeepsLocal
<1>5. to \in Pcs \ Returned
  BY DEF Pcs, Busy, PullPcs, Returned
<1> QED  BY <1>1, <1>3, <1>4, <1>5, CallEffect

(* A name is created, or updated: it refers to desc then. *)
LEMMA NameEffect ==
  ASSUME TypeOK, PlaceInv, NEW p \in Procs, CreateImageReference(p) \/ UpdateImageReference(p)
  PROVE  /\ pc[p] \in {"create", "update"} /\ desc(p) \in Ids
         /\ \E r \in todo(p) : \E at, l :
              /\ Goes(p, at, arg[p], l) /\ Place(at, arg[p], l)
              /\ \/ at = "err" /\ refs' = refs
                 \/ at = "err" /\ refs' = [refs EXCEPT ![r] = desc(p)]
                 \/ at = "update" /\ l = local[p] /\ refs' = refs
                 \/ /\ at \in {"create", "get", "info"} /\ refs' = [refs EXCEPT ![r] = desc(p)]
                    /\ l.desc = desc(p) /\ l.got = got(p) /\ l.chain = Nil /\ l.todo = todo(p) \ {r}
         /\ done' \subseteq Procs /\ spent' \in Nat
<1>1. pc[p] \in {"create", "update"} /\ Place(pc[p], arg[p], local[p]) /\ local[p] \in Locals
  BY ZenonT(30) DEF TypeOK, CreateImageReference, UpdateImageReference, Calls, Fails, Moves, PlaceInv
<1>2. desc(p) \in Ids /\ arg[p] \in RepoRefs /\ local[p].chain = Nil
  BY ZenonT(30), <1>1 DEF Place, PullPcs, Locals, desc
<1>3. Place("update", arg[p], local[p])
  BY <1>1 DEF Place, Busy, ResolvePcs, PullPcs, RemovePcs
<1>4. PICK r \in todo(p) :
        \/ /\ \E out \in Outcomes(p) : Calls(p, pc[p], out, Created(p, r), "err") /\ SetRef(p, r, out)
           /\ Local(p, [local[p] EXCEPT !.todo = @ \ {r}])
        \/ /\ \/ \E out \in Outcomes(p) : Calls(p, pc[p], out, "update", "err")
              \/ Fails(p, pc[p], "err")
           /\ Local(p, local[p])
           /\ refs' = refs
  <2>1. CASE CreateImageReference(p)
    BY ZenonT(30), <2>1, <1>1 DEF CreateImageReference, Nexts, KeepsLocal, Calls, Moves
  <2>2. CASE UpdateImageReference(p)
    BY ZenonT(30), <2>2, <1>1 DEF UpdateImageReference, Nexts, KeepsLocal, Calls, Fails, Moves
  <2> QED  BY <2>1, <2>2
<1> DEFINE l == [local[p] EXCEPT !.todo = @ \ {r}]
<1>5. /\ l \in Locals /\ l.todo = todo(p) \ {r}
      /\ l.desc = desc(p) /\ l.got = got(p) /\ l.chain = local[p].chain
  BY ZenonT(30), <1>1 DEF Locals, todo, desc, got
<1>6. CASE /\ \E out \in Outcomes(p) : Calls(p, pc[p], out, Created(p, r), "err") /\ SetRef(p, r, out)
           /\ Local(p, l)
  <2> HIDE DEF l
  <2>1. got(p) = Nil => r.kind # "id"
    BY <1>1, <1>2, WantedRefs, RefKinds DEF Place, got, desc, todo
  <2>2. got(p) # Nil => r.kind = "id" /\ todo(p) = {r}
    BY <1>1 DEF Place, got, todo, IdRef
  <2>3. Place(Created(p, r), arg[p], l)
    <3>1. CASE todo(p) # {r}
      BY <1>1, <1>2, <1>5, <2>2, <3>1 DEF Created, Place, Busy, ResolvePcs, PullPcs, RemovePcs, desc, got, todo
    <3>2. CASE todo(p) = {r}
      BY <1>1, <1>2, <1>5, <2>1, <2>2, <3>2 DEF Created, Place, Busy, ResolvePcs, PullPcs, RemovePcs, desc, got, todo
    <3> QED  BY <3>1, <3>2
  <2>4. Created(p, r) \in {"create", "get", "info"} /\ Created(p, r) \in Pcs \ Returned
    BY DEF Created, Pcs, Busy, PullPcs, Returned
  <2>5. PICK out \in Outcomes(p) : Calls(p, pc[p], out, Created(p, r), "err") /\ SetRef(p, r, out)
    BY <1>6
  <2>6. PICK at, k :
          /\ Goes(p, at, arg[p], k) /\ Place(at, arg[p], k)
          /\ at = "err" \/ (at = Created(p, r) /\ k = l)
    BY <1>5, <1>6, <2>3, <2>4, CallEffect
  <2>7. done' \subseteq Procs /\ spent' \in Nat
    BY ZenonT(30), <1>6, CallFacts
  <2>8. at # "err" => out = "ok"
    BY <2>5, <2>6 DEF TypeOK, Goes, Calls, Moves
  <2>9. /\ refs' = refs \/ refs' = [refs EXCEPT ![r] = desc(p)]
        /\ at # "err" => refs' = [refs EXCEPT ![r] = desc(p)]
    BY <2>5, <2>8 DEF SetRef, Effective
  <2>10. CASE at = "err"
    BY ZenonT(30), <1>1, <1>2, <2>6, <2>7, <2>9, <2>10
  <2>11. CASE at # "err"
    BY ZenonT(30), <1>1, <1>2, <1>5, <2>4, <2>6, <2>7, <2>9, <2>11
  <2> QED  BY <2>10, <2>11
<1>7. CASE /\ \/ \E out \in Outcomes(p) : Calls(p, pc[p], out, "update", "err")
              \/ Fails(p, pc[p], "err")
           /\ Local(p, local[p])
           /\ refs' = refs
  <2>1. "update" \in Pcs \ Returned
    BY DEF Pcs, Busy, PullPcs, Returned
  <2>2. PICK at, k :
          /\ Goes(p, at, arg[p], k) /\ Place(at, arg[p], k)
          /\ at = "err" \/ (at = "update" /\ k = local[p])
    BY <1>1, <1>3, <1>7, <2>1, CallEffect
  <2>3. done' \subseteq Procs /\ spent' \in Nat
    BY ZenonT(30), <1>7, CallFacts
  <2> QED  BY ZenonT(30), <1>1, <1>2, <1>7, <2>2, <2>3
<1> QED  BY ZenonT(30), <1>4, <1>6, <1>7

(* The name is read back, twice. *)
LEMMA GetEffect ==
  ASSUME TypeOK, PlaceInv, NEW p \in Procs, GetImage(p)
  PROVE  /\ pc[p] = "get"
         /\ \E at, l :
              /\ Goes(p, at, arg[p], l) /\ Place(at, arg[p], l)
              /\ \/ at = "err"
                 \/ /\ at = "unpack" /\ l.got = refs[arg[p]]
                    /\ l.desc = desc(p) /\ l.chain = Nil /\ l.todo = {}
         /\ done' \subseteq Procs /\ spent' \in Nat
<1>1. pc[p] = "get" /\ Place("get", arg[p], local[p]) /\ local[p] \in Locals
  BY DEF TypeOK, GetImage, PlaceInv
<1>2. arg[p] \in Refs /\ refs[arg[p]] \in Ids \cup {Nil}
  BY <1>1 DEF TypeOK, Place, Busy, PullPcs
<1> DEFINE i == refs[arg[p]]
           l == [local[p] EXCEPT !.got = i]
<1>3. l \in Locals /\ l.got = i /\ l.desc = desc(p) /\ l.chain = local[p].chain /\ l.todo = local[p].todo
  BY ZenonT(30), <1>1, <1>2 DEF Locals, desc
<1>4. \/ i # Nil /\ (\E out \in Outcomes(p) : Calls(p, "get", out, "unpack", "err")) /\ Local(p, l)
      \/ i = Nil /\ Fails(p, "get", "err") /\ Local(p, local[p])
  BY ZenonT(30) DEF GetImage, KeepsLocal
<1> HIDE DEF i, l
<1>5. i # Nil => Place("unpack", arg[p], l)
  BY <1>1, <1>3 DEF Place, Busy, ResolvePcs, PullPcs, RemovePcs, desc
<1>6. l.chain = Nil /\ l.todo = {}
  BY <1>1, <1>3 DEF Place, PullPcs
<1>7. "unpack" \in Pcs \ Returned
  BY DEF Pcs, Busy, PullPcs, Returned
<1>8. CASE i # Nil
  <2>1. PICK at, k :
          /\ Goes(p, at, arg[p], k) /\ Place(at, arg[p], k)
          /\ at = "err" \/ (at = "unpack" /\ k = l)
    BY <1>3, <1>4, <1>5, <1>7, <1>8, CallEffect
  <2>2. done' \subseteq Procs /\ spent' \in Nat
    BY ZenonT(30), <1>4, <1>8, CallFacts
  <2> QED  BY <1>1, <1>3, <1>6, <2>1, <2>2 DEF i
<1>9. CASE i = Nil
  BY ZenonT(30), <1>1, <1>4, <1>9, FailEffect
<1> QED  BY <1>8, <1>9

LEMMA UnpackEffect ==
  ASSUME TypeOK, PlaceInv, NEW p \in Procs, Unpack(p)
  PROVE  /\ pc[p] = "unpack" /\ got(p) \in Ids
         /\ \E at, l :
              /\ Goes(p, at, arg[p], l) /\ Place(at, arg[p], l)
              /\ \/ at = "err" /\ unpacked' = unpacked
                 \/ content[got(p)] = "complete" /\ unpacked' = unpacked \cup {got(p)}
              /\ at = "err" \/ /\ at = "create" /\ got(p) \in unpacked' /\ content[got(p)] = "complete"
                               /\ l.got = got(p) /\ l.desc = desc(p) /\ l.chain = Nil /\ l.todo = {IdRef(got(p))}
         /\ done' \subseteq Procs /\ spent' \in Nat
<1>1. pc[p] = "unpack" /\ Place("unpack", arg[p], local[p]) /\ local[p] \in Locals
  BY DEF TypeOK, Unpack, PlaceInv
<1>2. got(p) \in Ids /\ local[p].chain = Nil
  BY ZenonT(30), <1>1 DEF Place, PullPcs, Locals, got
<1> DEFINE S == {IdRef(got(p))}
           l == [local[p] EXCEPT !.todo = S]
<1>3. S \in SUBSET Refs
  BY <1>2 DEF Refs
<1>4. l \in Locals /\ l.todo = S /\ l.desc = desc(p) /\ l.got = got(p) /\ l.chain = local[p].chain
  BY ZenonT(30), <1>1, <1>3 DEF Locals, desc, got
<1>5. \/ /\ content[got(p)] = "complete" /\ Local(p, l)
         /\ \E out \in Outcomes(p) :
              /\ Calls(p, "unpack", out, "create", "err")
              /\ unpacked' = IF Effective(out) THEN unpacked \cup {got(p)} ELSE unpacked
      \/ Fails(p, "unpack", "err") /\ Local(p, local[p]) /\ unpacked' = unpacked
  BY ZenonT(30) DEF Unpack, KeepsLocal
<1> HIDE DEF l
<1>6. Place("create", arg[p], l)
  BY <1>1, <1>2, <1>4, NilAssumption DEF Place, Busy, ResolvePcs, PullPcs, RemovePcs, desc
<1>7. "create" \in Pcs \ Returned
  BY DEF Pcs, Busy, PullPcs, Returned
<1>8. /\ \E at, k :
           /\ Goes(p, at, arg[p], k) /\ Place(at, arg[p], k)
           /\ at = "err" \/ (at = "create" /\ k = l)
      /\ done' \subseteq Procs /\ spent' \in Nat
  <2>1. CASE Fails(p, "unpack", "err") /\ Local(p, local[p])
    BY ZenonT(30), <1>1, <2>1, FailEffect
  <2>2. CASE (\E out \in Outcomes(p) : Calls(p, "unpack", out, "create", "err")) /\ Local(p, l)
    BY <1>4, <1>6, <1>7, <2>2, CallEffect
  <2> QED  BY ZenonT(30), <1>5, <2>1, <2>2
<1>9. PICK at, k : /\ Goes(p, at, arg[p], k) /\ Place(at, arg[p], k)
                   /\ at = "err" \/ (at = "create" /\ k = l)
  BY <1>8
<1>10. pc'[p] = at
  BY <1>9 DEF TypeOK, Goes
<1>11. /\ (unpacked' = unpacked) \/ (content[got(p)] = "complete" /\ unpacked' = unpacked \cup {got(p)})
       /\ at # "err" => content[got(p)] = "complete" /\ unpacked' = unpacked \cup {got(p)}
  BY <1>5, <1>10 DEF TypeOK, Calls, Fails, Moves, Effective
<1> QED  BY <1>1, <1>2, <1>4, <1>8, <1>9, <1>11

LEMMA InfoEffect ==
  ASSUME TypeOK, PlaceInv, NEW p \in Procs, GetImageInfo(p)
  PROVE  /\ pc[p] = "info"
         /\ \E at, l :
              /\ Goes(p, at, arg[p], l) /\ Place(at, arg[p], l)
              /\ \/ at = "err"
                 \/ /\ at = "add" /\ l.chain = refs[arg[p]]
                    /\ l.desc = desc(p) /\ l.got = got(p) /\ l.todo = {}
         /\ done' \subseteq Procs /\ spent' \in Nat
<1>1. pc[p] = "info" /\ Place("info", arg[p], local[p]) /\ local[p] \in Locals
  BY DEF TypeOK, GetImageInfo, PlaceInv
<1>2. arg[p] \in Refs /\ refs[arg[p]] \in Ids \cup {Nil}
  BY <1>1 DEF TypeOK, Place, Busy, PullPcs
<1> DEFINE i == refs[arg[p]]
           l == [local[p] EXCEPT !.chain = i]
<1>3. l \in Locals /\ l.chain = i /\ l.desc = desc(p) /\ l.got = got(p) /\ l.todo = local[p].todo
  BY ZenonT(30), <1>1, <1>2 DEF Locals, desc, got
<1>4. \/ i # Nil /\ (\E out \in Outcomes(p) : Calls(p, "info", out, "add", "err")) /\ Local(p, l)
      \/ Fails(p, "info", "err") /\ Local(p, local[p])
  BY ZenonT(30) DEF GetImageInfo, KeepsLocal
<1> HIDE DEF i, l
<1>5. i # Nil => Place("add", arg[p], l)
  BY <1>1, <1>3 DEF Place, Busy, ResolvePcs, PullPcs, RemovePcs, desc, got
<1>6. l.todo = {} /\ "add" \in Pcs \ Returned
  BY <1>1, <1>3 DEF Place, Pcs, Busy, PullPcs, Returned
<1>7. CASE i # Nil /\ (\E out \in Outcomes(p) : Calls(p, "info", out, "add", "err")) /\ Local(p, l)
  <2>1. PICK at, k :
          /\ Goes(p, at, arg[p], k) /\ Place(at, arg[p], k)
          /\ at = "err" \/ (at = "add" /\ k = l)
    BY <1>3, <1>5, <1>6, <1>7, CallEffect
  <2>2. done' \subseteq Procs /\ spent' \in Nat
    BY ZenonT(30), <1>7, CallFacts
  <2> QED  BY <1>1, <1>3, <1>6, <2>1, <2>2 DEF i
<1>8. CASE Fails(p, "info", "err") /\ Local(p, local[p])
  BY ZenonT(30), <1>1, <1>8, FailEffect
<1> QED  BY <1>4, <1>7, <1>8

LEMMA AddEffect ==
  ASSUME TypeOK, PlaceInv, NEW p \in Procs, AddToStore(p)
  PROVE  /\ pc[p] = "add" /\ Place("add", arg[p], local[p]) /\ got(p) \in Ids /\ desc(p) \in Ids
         /\ \E at \in Aside : \E l : Goes(p, at, arg[p], l) /\ Place(at, arg[p], l)
         /\ \E e \in Images :
              /\ images' = [images EXCEPT ![got(p)] = e]
              /\ \/ images[got(p)] = Nil /\ e.names = GetRepoDigestAndTag(arg[p], desc(p)) /\ e.chain = local[p].chain
                 \/ /\ images[got(p)] # Nil /\ e.chain = images[got(p)].chain
                    /\ e.names = images[got(p)].names \cup GetRepoDigestAndTag(arg[p], desc(p))
<1>1. pc[p] = "add" /\ Place("add", arg[p], local[p]) /\ local[p] \in Locals
  BY DEF TypeOK, AddToStore, Moves, PlaceInv
<1>2. got(p) \in Ids /\ desc(p) \in Ids /\ local[p].chain \in Ids /\ arg[p] \in RepoRefs
  BY ZenonT(30), <1>1 DEF Place, PullPcs, Locals, got, desc
<1>3. Place("recheck", arg[p], local[p])
  BY <1>1 DEF Place, Busy, ResolvePcs, PullPcs, RemovePcs
<1>4. \E at \in Aside : \E l : Goes(p, at, arg[p], l) /\ Place(at, arg[p], l)
  <2>1. PICK at \in {"recheck", "ok"} : pc' = [pc EXCEPT ![p] = at] /\ arg' = arg /\ Local(p, local[p])
    BY ZenonT(30) DEF AddToStore, Moves, KeepsLocal
  <2>2. at \in Aside /\ at \in Pcs /\ (at = "ok" => at \in Returned)
    BY DEF Aside, Pcs, Busy, Returned
  <2> QED  BY ZenonT(30), <1>1, <1>3, <2>1, <2>2, LocalGoes
<1> DEFINE N == GetRepoDigestAndTag(arg[p], desc(p))
           e == images[got(p)]
<1>5. N \in SUBSET RepoRefs
  BY <1>2, WantedRefs
<1>6. CASE e = Nil
  <2>1. images' = [images EXCEPT ![got(p)] = [names |-> N, chain |-> local[p].chain]]
    BY ZenonT(30), <1>6 DEF AddToStore, StoreAdd
  <2>2. [names |-> N, chain |-> local[p].chain] \in Images
    BY <1>2, <1>5 DEF Images
  <2> QED  BY ZenonT(30), <1>1, <1>2, <1>4, <1>6, <2>1, <2>2
<1>7. CASE e # Nil
  <2>1. images' = [images EXCEPT ![got(p)] = [names |-> e.names \cup N, chain |-> e.chain]]
    BY ZenonT(30), <1>7 DEF AddToStore, StoreAdd, MergeStringSlices
  <2>2. e \in Images /\ e.names \cup N \in SUBSET RepoRefs
    BY <1>2, <1>5, <1>7 DEF TypeOK, Images
  <2>3. [names |-> e.names \cup N, chain |-> e.chain] \in Images
    BY <2>2 DEF Images
  <2> QED  BY ZenonT(30), <1>1, <1>2, <1>4, <1>7, <2>1, <2>3
<1> QED  BY <1>6, <1>7

LEMMA DeleteEffect ==
  ASSUME TypeOK, PlaceInv, NEW p \in Procs, DeleteReference(p)
  PROVE  /\ pc[p] = "delete"
         /\ \E r \in todo(p) : \E at, l :
              /\ Goes(p, at, arg[p], l) /\ Place(at, arg[p], l)
              /\ at \in Aside \/ (at = "delete" /\ l.got = got(p) /\ l.todo = todo(p) \ {r})
              /\ (refs' = refs) \/ (refs' = [refs EXCEPT ![r] = Nil])
         /\ done' \subseteq Procs /\ spent' \in Nat
<1>1. pc[p] = "delete" /\ Place("delete", arg[p], local[p]) /\ local[p] \in Locals
  BY ZenonT(30) DEF TypeOK, DeleteReference, Calls, Moves, PlaceInv
<1>2. PICK r \in todo(p), out \in Outcomes(p) :
        /\ Calls(p, "delete", out, IF todo(p) = {r} THEN "forget" ELSE "delete", "err")
        /\ refs' = IF Effective(out) THEN [refs EXCEPT ![r] = Nil] ELSE refs
        /\ Local(p, [local[p] EXCEPT !.todo = @ \ {r}])
  BY ZenonT(30) DEF DeleteReference, Nexts
<1> DEFINE l == [local[p] EXCEPT !.todo = @ \ {r}]
           to == IF todo(p) = {r} THEN "forget" ELSE "delete"
<1>3. l \in Locals /\ l.todo = todo(p) \ {r} /\ l.got = got(p)
  BY ZenonT(30), <1>1 DEF Locals, todo, got
<1>4. (\E o \in Outcomes(p) : Calls(p, "delete", o, to, "err")) /\ Local(p, l)
  BY ZenonT(30), <1>2
<1> HIDE DEF l
<1>5. Place(to, arg[p], l)
  BY <1>1, <1>3 DEF Place, Busy, ResolvePcs, PullPcs, RemovePcs, todo, got
<1>6. to \in Pcs \ Returned /\ (to = "delete" \/ to \in Aside) /\ "err" \in Aside
  BY DEF Pcs, Busy, RemovePcs, Returned, Aside
<1> HIDE DEF to
<1>7. PICK at, k : /\ Goes(p, at, arg[p], k) /\ Place(at, arg[p], k)
                   /\ at = "err" \/ (at = to /\ k = l)
  BY <1>3, <1>4, <1>5, <1>6, CallEffect
<1>8. done' \subseteq Procs /\ spent' \in Nat
  BY ZenonT(30), <1>4, CallFacts
<1>9. (refs' = refs) \/ (refs' = [refs EXCEPT ![r] = Nil])
  BY ZenonT(30), <1>2
<1> QED  BY <1>1, <1>3, <1>6, <1>7, <1>8, <1>9

(* ensureImageExists, RemoveImage and all handlers at the end. *)
LEMMA EndEffect ==
  ASSUME TypeOK, PlaceInv, NEW p \in Procs, Recheck(p) \/ Forget(p) \/ Respond(p)
  PROVE  /\ \E at \in Aside : \E ref, l : Goes(p, at, ref, l) /\ Place(at, ref, l)
         /\ done' \subseteq Procs /\ spent' = spent
         /\ \/ images' = images
            \/ got(p) \in Ids /\ images' = [images EXCEPT ![got(p)] = Nil]
         /\ UNCHANGED <<up, runtime, history, leaked>>
<1>1. local[p] \in Locals /\ Place(pc[p], arg[p], local[p]) /\ {"idle", "ok", "err"} \subseteq Aside \cap Pcs
  BY DEF TypeOK, PlaceInv, Aside, Pcs, Returned
<1>2. CASE Respond(p)
  <2>1. Goes(p, "idle", Nil, local[p])
    BY <1>1, <1>2 DEF TypeOK, Respond, Goes
  <2> QED  BY ZenonT(30), <1>1, <1>2, <2>1, ReturnPlace DEF TypeOK, Respond
<1>3. CASE Recheck(p) \/ Forget(p)
  <2>1. PICK at \in {"ok", "err"} : pc' = [pc EXCEPT ![p] = at] /\ arg' = arg /\ Local(p, local[p])
    BY ZenonT(30), <1>3 DEF Recheck, Forget, Moves, KeepsLocal
  <2>2. \E l : Goes(p, at, arg[p], l) /\ Place(at, arg[p], l)
    BY ZenonT(30), <1>1, <2>1, LocalGoes DEF Returned, Pcs
  <2>3. Forget(p) => got(p) \in Ids
    BY ZenonT(30), <1>1 DEF Forget, Moves, Place, Locals, got
  <2> QED  BY <1>1, <1>3, <2>2, <2>3 DEF TypeOK, Recheck, Forget, StoreDelete
<1> QED  BY <1>2, <1>3

-----------------------------------------------------------------------------
(* Types. *)
RestTypeOK ==
  /\ images \in [Ids -> Images \cup {Nil}]
  /\ up \in BOOLEAN /\ done \subseteq Procs
  /\ registry \in [Names -> Ids]
  /\ refs \in [Refs -> Ids \cup {Nil}]
  /\ content \in [Ids -> {"none", "open", "partial", "complete"}]
  /\ unpacked \subseteq Ids
  /\ raced \subseteq moved /\ moved \subseteq Names /\ leaked \subseteq Ids
  /\ asked \in 0 .. MaxRequests /\ spent \in Nat

LEMMA TypeSplit == TypeOK /\ PlaceInv <=> HandlerTypeOK /\ RestTypeOK
<1>1. ASSUME HandlerTypeOK, RestTypeOK PROVE TypeOK /\ PlaceInv
  <2>1. \A p \in Procs :
          /\ pc[p] \in PullPcs \ {"resolve"} => arg[p] \in RepoRefs /\ desc(p) # Nil
          /\ pc[p] \in {"unpack", "info", "add", "load", "delete", "forget"} => got(p) # Nil
          /\ pc[p] \in {"create", "update", "delete"} => todo(p) # {}
    BY <1>1 DEF HandlerTypeOK, PlaceInv, Place, desc, got, todo
  <2> QED  BY ZenonT(30), <1>1, <2>1 DEF HandlerTypeOK, RestTypeOK, TypeOK, Pcs
<1>2. ASSUME TypeOK, PlaceInv PROVE HandlerTypeOK /\ RestTypeOK
  BY ZenonT(30), <1>2 DEF HandlerTypeOK, RestTypeOK, TypeOK, Pcs
<1> QED  BY <1>1, <1>2

LEMMA InitTypes == Init => TypeOK /\ PlaceInv
<1> SUFFICES ASSUME Init PROVE HandlerTypeOK /\ RestTypeOK
  BY TypeSplit
<1>1. HandlerTypeOK
  <2>1. \A p \in Procs : Place("idle", Nil, NoLocals)
    BY ReturnPlace
  <2> QED  BY <2>1, NoLocalsType DEF Init, HandlerTypeOK, PlaceInv, Pcs
<1> QED  BY <1>1, ImagesAssumption DEF Init, RestTypeOK

LEMMA TypeStep == TypeOK /\ PlaceInv /\ [Next]_vars => TypeOK' /\ PlaceInv'
<1> SUFFICES ASSUME TypeOK, PlaceInv, [Next]_vars PROVE (TypeOK /\ PlaceInv)'
  OBVIOUS
<1> SUFFICES HandlerTypeOK' /\ RestTypeOK'
  BY TypeSplit, PTL
<1>1. HandlerTypeOK /\ RestTypeOK
  BY TypeSplit
<1>2. ASSUME NEW p \in Procs, Request(p) PROVE HandlerTypeOK' /\ RestTypeOK'
  BY ZenonT(30), <1>1, <1>2, AsksEffect, GoesTypes DEF RestTypeOK, runtime
<1>3. ASSUME NEW p \in Procs, Lookup(p) PROVE HandlerTypeOK' /\ RestTypeOK'
  BY ZenonT(30), <1>1, <1>3, LookupEffect, GoesTypes DEF RestTypeOK, Lookup, runtime, history
<1>4. ASSUME NEW p \in Procs, Load(p) PROVE HandlerTypeOK' /\ RestTypeOK'
  BY ZenonT(30), <1>1, <1>4, LoadEffect, GoesTypes DEF RestTypeOK, Load, runtime, history
<1>5. ASSUME NEW p \in Procs, Resolve(p) PROVE HandlerTypeOK' /\ RestTypeOK'
  BY ZenonT(30), <1>1, <1>5, ResolveEffect, GoesTypes DEF RestTypeOK, Resolve, runtime, history
<1>6. ASSUME NEW p \in Procs, Fetch(p) PROVE HandlerTypeOK' /\ RestTypeOK'
  <2>1. HandlerTypeOK'
    BY ZenonT(30), <1>1, <1>6, FetchEffect, GoesTypes
  <2>2. /\ content' \in [Ids -> {"none", "open", "partial", "complete"}]
        /\ leaked' \subseteq Ids /\ done' \subseteq Procs /\ spent' \in Nat
    BY <1>1, <1>6, FetchEffect DEF RestTypeOK
  <2> QED  BY ZenonT(30), <1>1, <1>6, <2>1, <2>2 DEF RestTypeOK, Fetch, history
<1>7. ASSUME NEW p \in Procs, FetchEnds(p) PROVE HandlerTypeOK' /\ RestTypeOK'
  <2>1. HandlerTypeOK'
    BY ZenonT(30), <1>1, <1>7, FetchEndsEffect, GoesTypes
  <2>2. /\ content' \in [Ids -> {"none", "open", "partial", "complete"}]
        /\ leaked' \subseteq Ids /\ done' \subseteq Procs /\ spent' \in Nat
    BY <1>1, <1>7, FetchEndsEffect DEF RestTypeOK
  <2> QED  BY ZenonT(30), <1>1, <1>7, <2>1, <2>2 DEF RestTypeOK, FetchEnds, history
<1>8. ASSUME NEW p \in Procs, WaitForResourcesDownloading(p) \/ Convert(p) PROVE HandlerTypeOK' /\ RestTypeOK'
  <2>1. HandlerTypeOK'
    BY ZenonT(30), <1>1, <1>8, WaitEffect, GoesTypes
  <2>2. UNCHANGED <<images, up, runtime, history, leaked>>
    BY <1>8 DEF WaitForResourcesDownloading, Convert
  <2> QED  BY ZenonT(30), <1>1, <1>8, <2>1, <2>2, WaitEffect DEF RestTypeOK, runtime, history
<1>9. ASSUME NEW p \in Procs, CreateImageReference(p) \/ UpdateImageReference(p) PROVE HandlerTypeOK' /\ RestTypeOK'
  <2>1. HandlerTypeOK'
    BY ZenonT(30), <1>1, <1>9, NameEffect, GoesTypes
  <2>2. refs' \in [Refs -> Ids \cup {Nil}] /\ done' \subseteq Procs /\ spent' \in Nat
    BY <1>1, <1>9, NameEffect DEF RestTypeOK
  <2> QED  BY ZenonT(30), <1>1, <1>9, <2>1, <2>2 DEF RestTypeOK, CreateImageReference, UpdateImageReference, history
<1>10. ASSUME NEW p \in Procs, GetImage(p) PROVE HandlerTypeOK' /\ RestTypeOK'
  BY ZenonT(30), <1>1, <1>10, GetEffect, GoesTypes DEF RestTypeOK, GetImage, runtime, history
<1>11. ASSUME NEW p \in Procs, Unpack(p) PROVE HandlerTypeOK' /\ RestTypeOK'
  <2>1. HandlerTypeOK'
    BY ZenonT(30), <1>1, <1>11, UnpackEffect, GoesTypes
  <2>2. unpacked' \subseteq Ids /\ done' \subseteq Procs /\ spent' \in Nat
    BY <1>1, <1>11, UnpackEffect DEF RestTypeOK
  <2> QED  BY ZenonT(30), <1>1, <1>11, <2>1, <2>2 DEF RestTypeOK, Unpack, history
<1>12. ASSUME NEW p \in Procs, GetImageInfo(p) PROVE HandlerTypeOK' /\ RestTypeOK'
  <2>1. HandlerTypeOK'
    BY ZenonT(30), <1>1, <1>12, InfoEffect, GoesTypes
  <2> QED  BY ZenonT(30), <1>1, <1>12, <2>1, InfoEffect DEF RestTypeOK, GetImageInfo, runtime, history
<1>13. ASSUME NEW p \in Procs, AddToStore(p) PROVE HandlerTypeOK' /\ RestTypeOK'
  <2>1. HandlerTypeOK'
    BY ZenonT(30), <1>1, <1>13, AddEffect, GoesTypes
  <2>2. images' \in [Ids -> Images \cup {Nil}]
    BY <1>1, <1>13, AddEffect DEF RestTypeOK
  <2> QED  BY ZenonT(30), <1>1, <1>13, <2>1, <2>2 DEF RestTypeOK, AddToStore, runtime, history
<1>14. ASSUME NEW p \in Procs, DeleteReference(p) PROVE HandlerTypeOK' /\ RestTypeOK'
  <2>1. HandlerTypeOK'
    BY ZenonT(30), <1>1, <1>14, DeleteEffect, GoesTypes
  <2>2. refs' \in [Refs -> Ids \cup {Nil}] /\ done' \subseteq Procs /\ spent' \in Nat
    BY <1>1, <1>14, DeleteEffect DEF RestTypeOK
  <2> QED  BY ZenonT(30), <1>1, <1>14, <2>1, <2>2 DEF RestTypeOK, DeleteReference, history
<1>15. ASSUME NEW p \in Procs, Recheck(p) \/ Forget(p) \/ Respond(p) PROVE HandlerTypeOK' /\ RestTypeOK'
  <2>1. HandlerTypeOK'
    BY ZenonT(30), <1>1, <1>15, EndEffect, GoesTypes
  <2>2. images' \in [Ids -> Images \cup {Nil}]
    BY <1>1, <1>15, EndEffect DEF RestTypeOK
  <2> QED  BY ZenonT(30), <1>1, <1>15, <2>1, <2>2, EndEffect DEF RestTypeOK, runtime, history
<1>16. ASSUME NEW t \in Names, NEW i \in Ids, Push(t, i) PROVE HandlerTypeOK' /\ RestTypeOK'
  <2>1. HandlerTypeOK'
    BY <1>1, <1>16 DEF Push, HandlerTypeOK, PlaceInv, handler
  <2>2. registry' \in [Names -> Ids] /\ moved' \subseteq Names /\ raced' \subseteq moved' /\ spent' \in Nat
    BY <1>1, <1>16 DEF RestTypeOK, Push, Spend
  <2> QED  BY ZenonT(30), <1>1, <1>16, <2>1, <2>2 DEF RestTypeOK, Push, handler
<1>17. ASSUME NEW p \in Procs, Cancel(p) PROVE HandlerTypeOK' /\ RestTypeOK'
  <2>1. HandlerTypeOK'
    BY <1>1, <1>17 DEF Cancel, HandlerTypeOK, PlaceInv
  <2> QED  BY <1>1, <1>17, <2>1 DEF RestTypeOK, Cancel, Spend, runtime, history
<1>18. CASE Crash
  <2>1. HandlerTypeOK'
    BY ZenonT(30), <1>18, NoLocalsType, ReturnPlace DEF Crash, HandlerTypeOK, PlaceInv, Pcs
  <2>2. images' \in [Ids -> Images \cup {Nil}] /\ done' \subseteq Procs /\ up' = FALSE /\ spent' \in Nat
    BY <1>1, <1>18 DEF RestTypeOK, Crash, Spend
  <2>3. content' \in [Ids -> {"none", "open", "partial", "complete"}] /\ leaked' \subseteq Ids
    BY <1>1, <1>18 DEF RestTypeOK, Crash
  <2> QED  BY ZenonT(30), <1>1, <1>18, <2>1, <2>2, <2>3 DEF RestTypeOK, Crash, history
<1>19. CASE Restart \/ UNCHANGED vars
  <2>1. HandlerTypeOK'
    BY <1>1, <1>19 DEF Restart, vars, HandlerTypeOK, PlaceInv, handler
  <2> QED  BY ZenonT(30), <1>1, <1>19, <2>1 DEF RestTypeOK, Restart, vars, handler, runtime, history
<1> QED
  BY <1>2, <1>3, <1>4, <1>5, <1>6, <1>7, <1>8, <1>9, <1>10, <1>11, <1>12, <1>13, <1>14, <1>15, <1>16, <1>17,
     <1>18, <1>19 DEF Next, HandlerStep, PullStep, EnvStep

LEMMA GoesFacts ==
  ASSUME TypeOK, NEW p \in Procs, NEW at, NEW ref, NEW l, Goes(p, at, ref, l)
  PROVE  /\ pc'[p] = at /\ arg'[p] = ref /\ local'[p] = l
         /\ \A q \in Procs : q # p => pc'[q] = pc[q] /\ arg'[q] = arg[q] /\ local'[q] = local[q]
  BY DEF TypeOK, Goes

-----------------------------------------------------------------------------
(* ZenonT(30) proves most leaves; the others name SMT. *)
USE ZenonT(30)

(* The names in containerd refer to images that are there. *)
Fetched == PullPcs \ {"resolve", "fetch", "fetching"}

(* Setting a name changes what that name refers to and no other. *)
LEMMA RefSet ==
  ASSUME TypeOK, NEW r \in Refs, NEW i, refs' = [refs EXCEPT ![r] = i]
  PROVE  refs'[r] = i /\ \A x \in Refs : x # r => refs'[x] = refs[x]
<1>1. refs \in [Refs -> Ids \cup {Nil}]
  BY DEF TypeOK
<1> QED  BY <1>1

LEMMA DownloadFrame ==
  ASSUME TypeOK, DownloadInv, NEW p \in Procs, NEW at, NEW ref, NEW l, Goes(p, at, ref, l),
         UNCHANGED <<content, leaked>>, at # "fetching", at \in Fetched => Present(l.desc),
         \/ refs' = refs
         \/ \E r \in Refs, i \in Ids \cup {Nil} : refs' = [refs EXCEPT ![r] = i] /\ (i = Nil \/ Present(i))
  PROVE  DownloadInv'
<1>1. \A q \in Procs : pc'[q] = "fetching" => content'[desc(q)'] = "open"
  BY SMT, GoesFacts DEF DownloadInv, desc
<1>2. \A q, r \in Procs : pc'[q] = "fetching" /\ pc'[r] = "fetching" /\ desc(q)' = desc(r)' => q = r
  BY SMT, GoesFacts DEF DownloadInv, desc
<1>3. \A q \in Procs : pc'[q] \in Fetched => Present(desc(q))'
  BY SMT, GoesFacts DEF DownloadInv, desc, Present, Fetched
<1>4. NamesHaveContent'
  <2>1. \A x \in Refs : refs[x] # Nil => Present(refs[x])
    BY DEF DownloadInv, NamesHaveContent, Present
  <2>2. ASSUME NEW x \in Refs, refs'[x] # Nil PROVE Present(refs'[x])
    <3>1. CASE refs' = refs
      BY <2>1, <2>2, <3>1
    <3>2. ASSUME NEW r \in Refs, NEW i \in Ids \cup {Nil}, refs' = [refs EXCEPT ![r] = i], i = Nil \/ Present(i)
          PROVE  Present(refs'[x])
      <4>1. refs'[r] = i /\ (x # r => refs'[x] = refs[x])
        BY <3>2, RefSet
      <4> QED  BY <2>1, <2>2, <3>2, <4>1
    <3> QED  BY <3>1, <3>2
  <2> QED  BY <2>2 DEF NamesHaveContent, Present
<1> QED  BY <1>1, <1>2, <1>3, <1>4 DEF DownloadInv, Fetched

LEMMA AsideNotFetched == \A at \in Aside : at # "fetching" /\ at \notin Fetched
  BY DEF Aside, Fetched, PullPcs

LEMMA DownloadStep == TypeOK /\ PlaceInv /\ DownloadInv /\ [Next]_vars => DownloadInv'
<1> SUFFICES ASSUME TypeOK, PlaceInv, DownloadInv, [Next]_vars PROVE DownloadInv'
  OBVIOUS
<1>1. \A p \in Procs : pc[p] \in Fetched => Present(desc(p))
  BY DEF DownloadInv, Fetched
<1>2. \A p \in Procs : todo(p) \subseteq Refs
  BY Zenon DEF TypeOK, Locals, todo
<1>3. ASSUME NEW p \in Procs, Request(p) PROVE DownloadInv'
  BY Zenon, <1>3, AsksEffect, DownloadFrame, AsideNotFetched DEF runtime
<1>4. ASSUME NEW p \in Procs, Lookup(p) PROVE DownloadInv'
  BY Zenon, <1>4, LookupEffect, DownloadFrame, AsideNotFetched DEF Lookup, runtime
<1>5. ASSUME NEW p \in Procs, Load(p) PROVE DownloadInv'
  <2>1. "delete" # "fetching" /\ "delete" \notin Fetched
    BY DEF Fetched, PullPcs
  <2> QED  BY Zenon, <1>5, <2>1, LoadEffect, DownloadFrame, AsideNotFetched DEF Load, runtime
<1>6. ASSUME NEW p \in Procs, Resolve(p) PROVE DownloadInv'
  <2>1. "fetch" # "fetching" /\ "fetch" \notin Fetched
    BY DEF Fetched
  <2> QED  BY Zenon, <1>6, <2>1, ResolveEffect, DownloadFrame, AsideNotFetched DEF Resolve, runtime
<1>7. ASSUME NEW p \in Procs, Fetch(p) PROVE DownloadInv'
  <2> DEFINE i == desc(p)
  <2>1. PICK at \in {"waitDl", "fetching"}, k \in {"none", "open", "partial", "complete"} :
          /\ Goes(p, at, arg[p], local[p])
          /\ content' = [content EXCEPT ![i] = k]
          /\ at = "fetching" => k = "open" /\ leaked' = leaked /\ content[i] \notin {"open", "complete"}
          /\ at = "waitDl" =>
               /\ content[i] \in {"open", "complete"} => k = content[i]
               /\ \/ leaked' = leaked \cup {i}
                  \/ leaked' = leaked /\ k = "complete"
    BY ZenonT(60), <1>7, FetchEffect
  <2>2. i \in Ids /\ pc[p] = "fetch" /\ refs' = refs /\ local' = local
    BY Zenon, <1>7, FetchEffect DEF Fetch
  <2>3. /\ pc'[p] = at /\ \A q \in Procs : q # p => pc'[q] = pc[q]
        /\ leaked \subseteq leaked' /\ content'[i] = k /\ \A j \in Ids : j # i => content'[j] = content[j]
    BY <2>1, <2>2, GoesFacts DEF TypeOK
  <2>4. \A q \in Procs : pc[q] \in PullPcs \ {"resolve"} => desc(q) \in Ids
    BY Zenon DEF TypeOK, Locals, desc
  <2>5. ASSUME NEW j \in Ids, Present(j) PROVE Present(j)'
    BY <2>1, <2>2, <2>3, <2>5 DEF Present
  <2>6. ASSUME NEW q \in Procs, pc'[q] = "fetching" 
      PROVE  content'[desc(q)] = "open" /\ (q # p /\ pc'[p] = "fetching" => desc(q) # i)
    <3>1. CASE q = p
      BY <2>1, <2>2, <2>3, <2>6, <3>1
    <3>2. CASE q # p
      <4>1. pc[q] = "fetching" /\ content[desc(q)] = "open" /\ desc(q) \in Ids
        BY <2>3, <2>4, <2>6, <3>2 DEF DownloadInv, PullPcs
      <4> QED  BY <2>1, <2>2, <2>3, <2>6, <3>2, <4>1
    <3> QED  BY <3>1, <3>2
  <2>7. ASSUME NEW q \in Procs, pc'[q] \in Fetched PROVE Present(desc(q))'
    <3>1. CASE q = p
      BY <2>1, <2>2, <2>3, <2>7, <3>1 DEF Present, Fetched, desc
    <3>2. CASE q # p
      BY <1>1, <2>2, <2>3, <2>4, <2>5, <2>7, <3>2 DEF Present, Fetched, desc
    <3> QED  BY <3>1, <3>2
  <2>8. \A r \in Refs : refs[r] # Nil => Present(refs[r])'
    BY <2>2, <2>5 DEF TypeOK, DownloadInv, NamesHaveContent, Present
  <2>9. \A q \in Procs : desc(q)' = desc(q)
    BY <2>2 DEF desc
  <2>10. \A q \in Procs : pc'[q] = "fetching" => content'[desc(q)'] = "open"
    BY <2>6, <2>9
  <2>11. ASSUME NEW q \in Procs, NEW s \in Procs, pc'[q] = "fetching", pc'[s] = "fetching", desc(q) = desc(s)
         PROVE  q = s
    <3>1. CASE q = p \/ s = p
      BY <2>6, <2>11, <3>1
    <3>2. CASE q # p /\ s # p
      BY <2>3, <2>11, <3>2 DEF DownloadInv
    <3> QED  BY <3>1, <3>2
  <2>12. NamesHaveContent'
    BY <2>2, <2>8 DEF NamesHaveContent, Present
  <2>13. \A q, s \in Procs : pc'[q] = "fetching" /\ pc'[s] = "fetching" /\ desc(q)' = desc(s)' => q = s
    BY <2>9, <2>11, Zenon
  <2>14. \A q \in Procs : pc'[q] \in PullPcs \ {"resolve", "fetch", "fetching"} => Present(desc(q))'
    BY <2>7, Zenon DEF Fetched
  <2> QED  BY <2>10, <2>12, <2>13, <2>14, Zenon DEF DownloadInv
<1>8. ASSUME NEW p \in Procs, FetchEnds(p) PROVE DownloadInv'
  <2> DEFINE i == desc(p)
  <2>1. PICK k \in {"complete", "partial"} :
          /\ Goes(p, "waitDl", arg[p], local[p])
          /\ content' = [content EXCEPT ![i] = k]
          /\ leaked' = leaked \/ leaked' = leaked \cup {i}
          /\ k = "complete" \/ i \in leaked'
    BY <1>8, FetchEndsEffect
  <2>2. i \in Ids /\ pc[p] = "fetching" /\ content[i] = "open" /\ refs' = refs /\ local' = local
    BY Zenon, <1>8, FetchEndsEffect DEF FetchEnds, DownloadInv
  <2>3. /\ pc'[p] = "waitDl" /\ \A q \in Procs : q # p => pc'[q] = pc[q]
        /\ leaked \subseteq leaked' /\ content'[i] = k /\ \A j \in Ids : j # i => content'[j] = content[j]
    <3>1. pc'[p] = "waitDl" /\ \A q \in Procs : q # p => pc'[q] = pc[q]
      BY <2>1, GoesFacts
    <3>2. leaked \subseteq leaked'
      BY <2>1
    <3>3. content \in [Ids -> {"none", "open", "partial", "complete"}]
      BY DEF TypeOK
    <3>4. content'[i] = k /\ \A j \in Ids : j # i => content'[j] = content[j]
      BY <2>1, <2>2, <3>3
    <3> QED  BY <3>1, <3>2, <3>4
  <2>4. \A q \in Procs : pc[q] \in PullPcs \ {"resolve"} => desc(q) \in Ids
    BY Zenon DEF TypeOK, Locals, desc
  <2>5. ASSUME NEW j \in Ids, Present(j) PROVE Present(j)'
    BY <2>1, <2>2, <2>3, <2>5 DEF Present
  <2>6. ASSUME NEW q \in Procs, pc'[q] = "fetching" PROVE content'[desc(q)] = "open"
    <3>1. q # p /\ pc[q] = "fetching" /\ content[desc(q)] = "open" /\ desc(q) \in Ids /\ desc(q) # i
      BY <2>2, <2>3, <2>4, <2>6 DEF DownloadInv, PullPcs
    <3> QED  BY <2>3, <3>1
  <2>7. ASSUME NEW q \in Procs, pc'[q] \in Fetched PROVE Present(desc(q))'
    <3>1. CASE q = p
      BY <2>1, <2>2, <2>3, <3>1 DEF Present, desc
    <3>2. CASE q # p
      BY <1>1, <2>2, <2>3, <2>4, <2>5, <2>7, <3>2 DEF Present, Fetched, desc
    <3> QED  BY <3>1, <3>2
  <2>8. \A r \in Refs : refs[r] # Nil => Present(refs[r])'
    BY <2>2, <2>5 DEF TypeOK, DownloadInv, NamesHaveContent, Present
  <2> QED  BY <2>2, <2>3, <2>6, <2>7, <2>8 DEF DownloadInv, Fetched, NamesHaveContent, Present, desc
<1>9. ASSUME NEW p \in Procs, WaitForResourcesDownloading(p) \/ Convert(p) PROVE DownloadInv'
  <2>1. PICK at, l : /\ Goes(p, at, arg[p], l)
                     /\ at = "err" \/ (at \in {"convert", "create"} /\ l = local[p])
    BY <1>9, WaitEffect
  <2>2. pc[p] \in Fetched
    BY <1>9, WaitEffect DEF Fetched, PullPcs
  <2>3. UNCHANGED <<content, leaked, refs>>
    BY <1>9 DEF WaitForResourcesDownloading, Convert, runtime
  <2>4. at # "fetching" /\ (at \in Fetched => Present(l.desc))
    BY <1>1, <2>1, <2>2 DEF desc, Fetched, PullPcs
  <2> QED  BY <2>1, <2>3, <2>4, DownloadFrame
<1>10. ASSUME NEW p \in Procs, CreateImageReference(p) \/ UpdateImageReference(p) PROVE DownloadInv'
  <2>1. PICK at, l, r :
          /\ r \in todo(p) /\ Goes(p, at, arg[p], l)
          /\ at = "err" \/ (at \in {"update", "create", "get", "info"} /\ l.desc = desc(p))
          /\ refs' \in {refs, [refs EXCEPT ![r] = desc(p)]}
    BY SMT, <1>10, NameEffect DEF desc
  <2>2. pc[p] \in Fetched /\ desc(p) \in Ids
    BY <1>10, NameEffect DEF Fetched, PullPcs
  <2>3. UNCHANGED <<content, leaked>>
    BY <1>10 DEF CreateImageReference, UpdateImageReference
  <2>4. at # "fetching" /\ (at \in Fetched => Present(l.desc)) /\ Present(desc(p))
    BY <1>1, <2>1, <2>2 DEF desc, Fetched, PullPcs
  <2> QED  BY <1>2, <2>1, <2>2, <2>3, <2>4, DownloadFrame
<1>11. ASSUME NEW p \in Procs, GetImage(p) PROVE DownloadInv'
  <2>1. PICK at, l : Goes(p, at, arg[p], l) /\ (at = "err" \/ (at = "unpack" /\ l.desc = desc(p)))
    BY SMT, <1>11, GetEffect
  <2>2. pc[p] \in Fetched /\ UNCHANGED <<content, leaked, refs>>
    BY <1>11 DEF GetImage, Fetched, PullPcs, runtime
  <2>3. at # "fetching" /\ (at \in Fetched => Present(l.desc))
    BY <1>1, <2>1, <2>2 DEF Fetched, PullPcs
  <2> QED  BY <2>1, <2>2, <2>3, DownloadFrame
<1>12. ASSUME NEW p \in Procs, Unpack(p) PROVE DownloadInv'
  <2>1. PICK at, l : Goes(p, at, arg[p], l) /\ (at = "err" \/ (at = "create" /\ l.desc = desc(p)))
    BY SMT, <1>12, UnpackEffect
  <2>2. pc[p] \in Fetched /\ UNCHANGED <<content, leaked, refs>>
    BY Zenon, <1>12 DEF Unpack, Fetched, PullPcs
  <2>3. at # "fetching" /\ (at \in Fetched => Present(l.desc))
    BY <1>1, <2>1, <2>2 DEF Fetched, PullPcs
  <2> QED  BY <2>1, <2>2, <2>3, DownloadFrame
<1>13. ASSUME NEW p \in Procs, GetImageInfo(p) PROVE DownloadInv'
  <2>1. PICK at, l : Goes(p, at, arg[p], l) /\ (at = "err" \/ (at = "add" /\ l.desc = desc(p)))
    BY SMT, <1>13, InfoEffect
  <2>2. pc[p] \in Fetched /\ UNCHANGED <<content, leaked, refs>>
    BY Zenon, <1>13 DEF GetImageInfo, Fetched, PullPcs, runtime
  <2>3. at # "fetching" /\ (at \in Fetched => Present(l.desc))
    BY <1>1, <2>1, <2>2 DEF Fetched, PullPcs
  <2> QED  BY <2>1, <2>2, <2>3, DownloadFrame
<1>14. ASSUME NEW p \in Procs, AddToStore(p) PROVE DownloadInv'
  BY Zenon, <1>14, AddEffect, DownloadFrame, AsideNotFetched DEF AddToStore, runtime
<1>15. ASSUME NEW p \in Procs, DeleteReference(p) PROVE DownloadInv'
  <2>1. PICK at, l, r :
          /\ r \in todo(p) /\ Goes(p, at, arg[p], l)
          /\ at \in Aside \/ at = "delete"
          /\ (refs' = refs) \/ (refs' = [refs EXCEPT ![r] = Nil])
    BY Zenon, <1>15, DeleteEffect
  <2>2. at # "fetching" /\ at \notin Fetched
    BY <2>1, AsideNotFetched DEF Fetched, PullPcs
  <2>3. UNCHANGED <<content, leaked>>
    BY Zenon, <1>15 DEF DeleteReference
  <2> QED  BY <1>2, <2>1, <2>2, <2>3, DownloadFrame
<1>16. ASSUME NEW p \in Procs, Recheck(p) \/ Forget(p) \/ Respond(p) PROVE DownloadInv'
  BY Zenon, <1>16, EndEffect, DownloadFrame, AsideNotFetched DEF runtime
<1>17. CASE UNCHANGED <<content, leaked, refs, pc, local>>
  BY <1>17 DEF DownloadInv, NamesHaveContent, Present, desc
<1>18. CASE Crash
  <2>1. \A q \in Procs : pc'[q] = "idle"
    BY <1>18 DEF Crash
  <2>2. \A i \in Ids : Present(i) => Present(i)'
    BY <1>18 DEF Crash, Present
  <2>3. refs' = refs /\ \A r \in Refs : refs[r] # Nil => Present(refs[r])'
    BY <1>18, <2>2 DEF Crash, TypeOK, DownloadInv, NamesHaveContent, Present
  <2> QED  BY <2>1, <2>3 DEF DownloadInv, NamesHaveContent, Present, PullPcs
<1>19. ASSUME NEW t \in Names, NEW i \in Ids, Push(t, i) PROVE DownloadInv'
  BY Zenon, <1>17, <1>19 DEF Push, handler
<1>20. ASSUME NEW p \in Procs, Cancel(p) PROVE DownloadInv'
  BY Zenon, <1>17, <1>20 DEF Cancel, runtime
<1>21. CASE Restart \/ UNCHANGED vars
  BY Zenon, <1>17, <1>21 DEF Restart, vars, handler, runtime
<1> QED
  BY <1>3, <1>4, <1>5, <1>6, <1>7, <1>8, <1>9, <1>10, <1>11, <1>12, <1>13, <1>14, <1>15, <1>16, <1>18, <1>19,
     <1>20, <1>21 DEF Next, HandlerStep, PullStep, EnvStep

-----------------------------------------------------------------------------
(* The images in the store are unpacked. *)
Ready(i) == i \in unpacked /\ content[i] = "complete"

(* Blobs and snapshots of an image stay. *)
LEMMA ReadyStays ==
  ASSUME TypeOK, PlaceInv, DownloadInv, [Next]_vars, NEW i \in Ids, Ready(i)
  PROVE  Ready(i)'
<1>1. ASSUME NEW p \in Procs, Fetch(p) PROVE Ready(i)'
  <2>1. PICK k \in {"none", "open", "partial", "complete"} :
          /\ content' = [content EXCEPT ![desc(p)] = k]
          /\ content[desc(p)] = "complete" => k = "complete"
    BY Zenon, <1>1, FetchEffect
  <2> QED  BY <1>1, <2>1 DEF TypeOK, Ready, Fetch
<1>2. ASSUME NEW p \in Procs, FetchEnds(p) PROVE Ready(i)'
  <2>1. desc(p) # i
    BY <1>2, FetchEndsEffect DEF DownloadInv, Ready
  <2> QED  BY <1>2, <2>1, FetchEndsEffect DEF TypeOK, Ready, FetchEnds
<1>3. ASSUME NEW p \in Procs, Unpack(p) PROVE Ready(i)'
  BY <1>3, UnpackEffect DEF Ready, Unpack
<1>4. CASE Crash
  BY <1>4 DEF Ready, Crash
<1>5. CASE UNCHANGED <<content, unpacked>>
  BY <1>5 DEF Ready
<1>6. ASSUME NEW p \in Procs, Request(p) PROVE Ready(i)'
  BY Zenon, <1>5, <1>6, AsksEffect DEF runtime
<1>7. ASSUME NEW p \in Procs, Lookup(p) \/ Load(p) \/ Resolve(p) PROVE Ready(i)'
  BY Zenon, <1>5, <1>7 DEF Lookup, Load, Resolve, runtime
<1>8. ASSUME NEW p \in Procs, WaitForResourcesDownloading(p) \/ Convert(p) \/ GetImage(p) \/ GetImageInfo(p)
      PROVE  Ready(i)'
  BY Zenon, <1>5, <1>8 DEF WaitForResourcesDownloading, Convert, GetImage, GetImageInfo, runtime
<1>9. ASSUME NEW p \in Procs, CreateImageReference(p) \/ UpdateImageReference(p) \/ DeleteReference(p) PROVE Ready(i)'
  BY Zenon, <1>5, <1>9 DEF CreateImageReference, UpdateImageReference, DeleteReference
<1>10. ASSUME NEW p \in Procs, AddToStore(p) \/ Recheck(p) \/ Forget(p) \/ Respond(p) PROVE Ready(i)'
  BY Zenon, <1>5, <1>10 DEF AddToStore, Recheck, Forget, Respond, runtime
<1>11. ASSUME NEW t \in Names, NEW j \in Ids, Push(t, j) PROVE Ready(i)'
  BY Zenon, <1>5, <1>11 DEF Push
<1>12. ASSUME NEW p \in Procs, Cancel(p) PROVE Ready(i)'
  BY Zenon, <1>5, <1>12 DEF Cancel, runtime
<1>13. CASE Restart \/ UNCHANGED vars
  BY Zenon, <1>5, <1>13 DEF Restart, vars, runtime
<1> QED
  BY <1>1, <1>2, <1>3, <1>4, <1>6, <1>7, <1>8, <1>9, <1>10, <1>11, <1>12, <1>13
     DEF Next, HandlerStep, PullStep, EnvStep

Unpacked == {"create", "update", "info", "add"}

StaysReady(i) == i \in unpacked' /\ content'[i] = "complete"

LEMMA ReadyFrame ==
  ASSUME TypeOK, PlaceInv, DownloadInv, ReadyInv, [Next]_vars,
         NEW p \in Procs, NEW at, NEW ref, NEW l, Goes(p, at, ref, l),
         at \in Unpacked /\ l.got # Nil => StaysReady(l.got),
         \A i \in Ids : images'[i] # Nil => images[i] # Nil \/ StaysReady(i)
  PROVE  ReadyInv'
<1>1. \A i \in Ids : Ready(i) => StaysReady(i)
  BY ReadyStays DEF Ready, StaysReady
<1>2. ASSUME NEW q \in Procs, pc'[q] \in Unpacked, local'[q].got # Nil
      PROVE  StaysReady(local'[q].got)
  <2>1. CASE q = p
    <3>1. local'[q] = l /\ pc'[q] = at
      BY SMT, <2>1, GoesFacts
    <3> QED  BY <1>2, <3>1
  <2>2. CASE q # p
    <3>1. local'[q] = local[q] /\ pc'[q] = pc[q]
      BY <2>2, GoesFacts
    <3>2. local[q].got \in Ids
      BY ZenonT(60), <1>2, <3>1 DEF TypeOK, Locals
    <3>3. Ready(local[q].got)
      BY <1>2, <3>1 DEF ReadyInv, Unpacked, Ready, got
    <3> QED  BY <1>1, <3>1, <3>2, <3>3
  <2> QED  BY <2>1, <2>2
<1>3. \A i \in Ids : images'[i] # Nil => StaysReady(i)
  BY <1>1 DEF ReadyInv, ReadyMeansUnpacked, Ready
<1> QED  BY <1>2, <1>3 DEF ReadyInv, ReadyMeansUnpacked, StaysReady, Unpacked, got

LEMMA AsideNotUnpacked == \A at \in Aside : at \notin Unpacked
  BY DEF Aside, Unpacked

LEMMA ReadyStep == TypeOK /\ PlaceInv /\ DownloadInv /\ ReadyInv /\ [Next]_vars => ReadyInv'
<1> SUFFICES ASSUME TypeOK, PlaceInv, DownloadInv, ReadyInv, [Next]_vars PROVE ReadyInv'
  OBVIOUS
<1>1. \A i \in Ids : Ready(i) => StaysReady(i)
  BY ReadyStays DEF Ready, StaysReady
<1>2. ASSUME NEW p \in Procs, pc[p] \in Unpacked, got(p) # Nil PROVE StaysReady(got(p))
  <2>1. got(p) \in Ids
    BY Zenon, <1>2 DEF TypeOK, Locals, got
  <2> QED  BY <1>1, <1>2, <2>1 DEF ReadyInv, Ready, Unpacked
<1>3. ASSUME NEW p \in Procs, Request(p) PROVE ReadyInv'
  BY Zenon, <1>3, AsksEffect, ReadyFrame, AsideNotUnpacked
<1>4. ASSUME NEW p \in Procs, Lookup(p) PROVE ReadyInv'
  BY Zenon, <1>4, LookupEffect, ReadyFrame, AsideNotUnpacked DEF Lookup
<1>5. ASSUME NEW p \in Procs, Load(p) PROVE ReadyInv'
  <2>1. "delete" \notin Unpacked
    BY DEF Unpacked
  <2> QED  BY Zenon, <1>5, <2>1, LoadEffect, ReadyFrame, AsideNotUnpacked DEF Load
<1>6. ASSUME NEW p \in Procs, Resolve(p) PROVE ReadyInv'
  <2>1. "fetch" \notin Unpacked
    BY DEF Unpacked
  <2> QED  BY Zenon, <1>6, <2>1, ResolveEffect, ReadyFrame, AsideNotUnpacked DEF Resolve
<1>7. ASSUME NEW p \in Procs, Fetch(p) PROVE ReadyInv'
  <2>1. "waitDl" \notin Unpacked /\ "fetching" \notin Unpacked
    BY DEF Unpacked
  <2> QED  BY Zenon, <1>7, <2>1, FetchEffect, ReadyFrame DEF Fetch
<1>8. ASSUME NEW p \in Procs, FetchEnds(p) PROVE ReadyInv'
  <2>1. "waitDl" \notin Unpacked
    BY DEF Unpacked
  <2> QED  BY Zenon, <1>8, <2>1, FetchEndsEffect, ReadyFrame DEF FetchEnds
<1>9. ASSUME NEW p \in Procs, WaitForResourcesDownloading(p) \/ Convert(p) PROVE ReadyInv'
  <2>1. PICK at, l : /\ Goes(p, at, arg[p], l)
                     /\ at = "err" \/ (at \in {"convert", "create"} /\ l = local[p])
    BY <1>9, WaitEffect
  <2>2. local[p].got = Nil
    BY <1>9, WaitEffect DEF PlaceInv, Place
  <2>3. images' = images
    BY Zenon, <1>9 DEF WaitForResourcesDownloading, Convert
  <2>4. at \in Unpacked => l.got = Nil
    BY <2>1, <2>2 DEF Unpacked
  <2> QED  BY <2>1, <2>3, <2>4, ReadyFrame
<1>10. ASSUME NEW p \in Procs, CreateImageReference(p) \/ UpdateImageReference(p) PROVE ReadyInv'
  <2>1. PICK at, l : Goes(p, at, arg[p], l) /\ (at = "err" \/ l.got = got(p))
    BY <1>10, NameEffect DEF got
  <2>2. pc[p] \in Unpacked /\ images' = images
    BY Zenon, <1>10, NameEffect DEF Unpacked, CreateImageReference, UpdateImageReference
  <2>3. at \in Unpacked => l.got = got(p)
    BY <2>1 DEF Unpacked
  <2> QED  BY <1>2, <2>1, <2>2, <2>3, ReadyFrame
<1>11. ASSUME NEW p \in Procs, GetImage(p) PROVE ReadyInv'
  <2>1. "err" \notin Unpacked /\ "unpack" \notin Unpacked
    BY DEF Unpacked
  <2>2. PICK at, l : Goes(p, at, arg[p], l) /\ at \in {"err", "unpack"}
    BY <1>11, GetEffect
  <2> QED  BY <1>11, <2>1, <2>2, ReadyFrame DEF GetImage
<1>12. ASSUME NEW p \in Procs, Unpack(p) PROVE ReadyInv'
  <2>1. PICK at, l :
          /\ Goes(p, at, arg[p], l)
          /\ at = "err" \/ (got(p) \in unpacked' /\ content[got(p)] = "complete" /\ l.got = got(p))
    BY SMT, <1>12, UnpackEffect
  <2>2. images' = images /\ content' = content
    BY Zenon, <1>12 DEF Unpack
  <2>3. at \in Unpacked => StaysReady(l.got)
    BY <2>1, <2>2 DEF Unpacked, StaysReady
  <2> QED  BY <2>1, <2>2, <2>3, ReadyFrame
<1>13. ASSUME NEW p \in Procs, GetImageInfo(p) PROVE ReadyInv'
  <2>1. PICK at, l : Goes(p, at, arg[p], l) /\ (at = "err" \/ l.got = got(p))
    BY SMT, <1>13, InfoEffect
  <2>2. pc[p] \in Unpacked /\ images' = images
    BY Zenon, <1>13, InfoEffect DEF Unpacked, GetImageInfo
  <2>3. at \in Unpacked => l.got = got(p)
    BY <2>1 DEF Unpacked
  <2> QED  BY <1>2, <2>1, <2>2, <2>3, ReadyFrame
<1>14. ASSUME NEW p \in Procs, AddToStore(p) PROVE ReadyInv'
  <2>1. PICK at \in Aside : \E l : Goes(p, at, arg[p], l)
    BY Zenon, <1>14, AddEffect
  <2>2. StaysReady(got(p))
    BY <1>2, <1>14, AddEffect, NilAssumption DEF Unpacked
  <2>3. \A i \in Ids : i # got(p) => images'[i] = images[i]
    BY <1>14, AddEffect DEF TypeOK
  <2> QED  BY <2>1, <2>2, <2>3, ReadyFrame, AsideNotUnpacked
<1>15. ASSUME NEW p \in Procs, DeleteReference(p) PROVE ReadyInv'
  <2>1. "delete" \notin Unpacked
    BY DEF Unpacked
  <2> QED  BY Zenon, <1>15, <2>1, DeleteEffect, ReadyFrame, AsideNotUnpacked DEF DeleteReference
<1>16. ASSUME NEW p \in Procs, Recheck(p) \/ Forget(p) \/ Respond(p) PROVE ReadyInv'
  <2>1. PICK at \in Aside : \E ref, l : Goes(p, at, ref, l)
    BY Zenon, <1>16, EndEffect
  <2>2. \A i \in Ids : images'[i] = images[i] \/ images'[i] = Nil
    BY <1>16, EndEffect DEF TypeOK
  <2> QED  BY <2>1, <2>2, ReadyFrame, AsideNotUnpacked
<1>17. CASE UNCHANGED <<content, unpacked, images, pc, local>>
  BY Zenon, <1>17 DEF ReadyInv, ReadyMeansUnpacked, got
<1>18. CASE Crash
  BY <1>18 DEF Crash, ReadyInv, ReadyMeansUnpacked
<1>19. ASSUME NEW t \in Names, NEW i \in Ids, Push(t, i) PROVE ReadyInv'
  BY Zenon, <1>17, <1>19 DEF Push, handler
<1>20. ASSUME NEW p \in Procs, Cancel(p) PROVE ReadyInv'
  BY Zenon, <1>17, <1>20 DEF Cancel, runtime
<1>21. CASE Restart \/ UNCHANGED vars
  BY Zenon, <1>17, <1>21 DEF Restart, vars, handler, runtime
<1> QED
  BY <1>3, <1>4, <1>5, <1>6, <1>7, <1>8, <1>9, <1>10, <1>11, <1>12, <1>13, <1>14, <1>15, <1>16, <1>18, <1>19,
     <1>20, <1>21 DEF Next, HandlerStep, PullStep, EnvStep

-----------------------------------------------------------------------------
(* An entry of the store mixes two images up only if a tag was moved.         *)
Pulled == PullPcs \ {"resolve"}

LEMMA AsideNotPulled == \A at \in Aside : at \notin Pulled
  BY DEF Aside, Pulled, PullPcs

(* What the names a handler creates refer to. *)
LEMMA NewNames ==
  ASSUME TypeOK, PlaceInv, MixInv, NEW p \in Procs, pc[p] \in {"create", "update"}, NEW r \in todo(p)
  PROVE  /\ r \in Refs
         /\ r.kind = "digest" => r.of = desc(p)
         /\ r.kind = "tag" => r = arg[p] /\ (r.of \notin raced => desc(p) = registry[r.of])
         /\ r.kind = "id" => r.of = got(p) /\ got(p) # Nil
<1>1. arg[p] \in RepoRefs /\ arg[p] \in Refs /\ r \in Refs /\ desc(p) \in Ids /\ Follows(arg[p], local[p])
  BY Zenon DEF TypeOK, Locals, MixInv, Refs, desc, todo, PullPcs
<1>2. IF got(p) = Nil THEN r \in GetRepoDigestAndTag(arg[p], desc(p)) ELSE r = IdRef(got(p))
  BY DEF PlaceInv, Place, got, desc, todo
<1>3. CASE got(p) # Nil
  BY SMT, <1>1, <1>2, <1>3 DEF IdRef
<1>4. CASE r = DigestRef(desc(p))
  BY <1>1, <1>4 DEF DigestRef
<1>5. CASE r = arg[p]
  BY <1>1, <1>5, RefKinds DEF Follows, desc
<1> QED  BY <1>2, <1>3, <1>4, <1>5 DEF GetRepoDigestAndTag

(* A name is set to i the way a pull may do it, or deleted. *)
Sets(r, i) ==
  /\ r \in Refs /\ i \in Ids \cup {Nil}
  /\ refs' = [refs EXCEPT ![r] = i]
  /\ i # Nil => /\ r.kind = "digest" => r.of = i
                /\ r.kind = "tag" /\ r.of \notin raced => registry[r.of] = i

LEMMA MixFrame ==
  ASSUME TypeOK, MixInv, NEW p \in Procs, NEW at, NEW ref, NEW l, Goes(p, at, ref, l),
         UNCHANGED <<registry, raced>>,
         (refs' = refs) \/ \E r, i : Sets(r, i),
         at \in Pulled => Follows(ref, l)',
         MixedOnlyByRace'
  PROVE  MixInv'
<1>1. \A i \in Ids : DigestRef(i) \in Refs /\ DigestRef(i).kind = "digest" /\ DigestRef(i).of = i
  BY DEF DigestRef, Refs, RepoRefs
<1>2. \A i \in Ids : refs'[DigestRef(i)] \in {Nil, i}
  BY <1>1 DEF TypeOK, MixInv, Sets
<1>3. ASSUME NEW q \in Procs, q # p, pc[q] \in Pulled PROVE Follows(arg[q], local[q])'
  <2>1. arg[q] \in Refs /\ Follows(arg[q], local[q]) /\ arg[q].kind # "id"
    BY <1>3, RefKinds DEF TypeOK, MixInv, Refs, Pulled
  <2>2. arg'[q] = arg[q] /\ local'[q] = local[q]
    BY <1>3, GoesFacts
  <2>3. ASSUME arg[q].kind = "tag" => arg[q].of \notin raced, refs[arg[q]] \in {Nil, desc(q)}
        PROVE  refs'[arg[q]] \in {Nil, desc(q)}
    BY <2>1, <2>3, RefKinds DEF TypeOK, Follows, Sets, desc
  <2> QED  BY <2>1, <2>2, <2>3 DEF Follows, desc
<1>4. ASSUME NEW q \in Procs, pc'[q] \in Pulled PROVE Follows(arg[q], local[q])'
  <2>1. CASE q = p
    <3>1. arg'[q] = ref /\ local'[q] = l /\ at \in Pulled
      BY SMT, <1>4, <2>1, GoesFacts
    <3> QED  BY <3>1 DEF Follows
  <2>2. CASE q # p
    BY <1>3, <1>4, <2>2, GoesFacts
  <2> QED  BY <2>1, <2>2
<1> QED  BY <1>2, <1>4 DEF MixInv, Pulled

LEMMA MixStep == TypeOK /\ PlaceInv /\ MixInv /\ [Next]_vars => MixInv'
<1> SUFFICES ASSUME TypeOK, PlaceInv, MixInv, [Next]_vars PROVE MixInv'
  OBVIOUS
<1>1. ASSUME UNCHANGED <<images, raced>> PROVE MixedOnlyByRace'
  BY <1>1 DEF MixInv, MixedOnlyByRace
<1>2. ASSUME NEW p \in Procs, pc[p] \in Pulled
      PROVE  arg[p] \in Refs /\ arg[p] \in RepoRefs /\ arg[p].kind # "id" /\ Follows(arg[p], local[p])
  BY <1>2, RefKinds DEF TypeOK, MixInv, Refs, Pulled
<1>3. ASSUME NEW p \in Procs, NEW at \in Aside, NEW ref, NEW l, Goes(p, at, ref, l),
             UNCHANGED <<images, raced, registry, refs>>
      PROVE  MixInv'
  BY <1>1, <1>3, MixFrame, AsideNotPulled
<1>4. ASSUME NEW p \in Procs, Request(p) PROVE MixInv'
  BY Zenon, <1>3, <1>4, AsksEffect DEF runtime
<1>5. ASSUME NEW p \in Procs, Lookup(p) PROVE MixInv'
  BY Zenon, <1>3, <1>5, LookupEffect DEF Lookup, runtime, history
<1>6. ASSUME NEW p \in Procs, Load(p) PROVE MixInv'
  <2>1. PICK at, ref, l : Goes(p, at, ref, l) /\ at \notin Pulled
    BY <1>6, LoadEffect, AsideNotPulled DEF Pulled, PullPcs
  <2>2. UNCHANGED <<images, raced, registry, refs>>
    BY Zenon, <1>6 DEF Load, runtime, history
  <2> QED  BY <1>1, <2>1, <2>2, MixFrame
<1>7. ASSUME NEW p \in Procs, Resolve(p) PROVE MixInv'
  <2>1. PICK at, ref, l :
          /\ Goes(p, at, ref, l)
          /\ \/ at \in Aside
             \/ /\ l.got = Nil /\ l.chain = Nil /\ ref \in l.todo
                /\ l.desc = IF ref.kind = "tag" THEN registry[ref.of] ELSE ref.of
    BY <1>7, ResolveEffect
  <2>2. UNCHANGED <<images, raced, registry, refs>>
    BY Zenon, <1>7 DEF Resolve, runtime, history
  <2>3. at \in Pulled => Follows(ref, l)'
    BY <2>1, <2>2, AsideNotPulled DEF Follows
  <2> QED  BY <1>1, <2>1, <2>2, <2>3, MixFrame
<1>8. ASSUME NEW p \in Procs, pc[p] \in Pulled, NEW at, Goes(p, at, arg[p], local[p]),
             UNCHANGED <<images, raced, registry, refs>>
      PROVE  MixInv'
  <2>1. PICK ref, l : ref = arg[p] /\ l = local[p]
    OBVIOUS
  <2>2. Follows(ref, l)'
    BY <1>2, <1>8, <2>1 DEF Follows
  <2> QED  BY <1>1, <1>8, <2>1, <2>2, MixFrame
<1>9. ASSUME NEW p \in Procs, Fetch(p) PROVE MixInv'
  <2>1. pc[p] \in Pulled
    BY Zenon, <1>9, FetchEffect DEF Pulled, PullPcs
  <2> QED  BY Zenon, <1>8, <1>9, <2>1, FetchEffect DEF Fetch, history
<1>10. ASSUME NEW p \in Procs, FetchEnds(p) PROVE MixInv'
  <2>1. pc[p] \in Pulled
    BY Zenon, <1>10, FetchEndsEffect DEF Pulled, PullPcs
  <2> QED  BY Zenon, <1>8, <1>10, <2>1, FetchEndsEffect DEF FetchEnds, history
<1>11. ASSUME NEW p \in Procs, WaitForResourcesDownloading(p) \/ Convert(p) PROVE MixInv'
  <2>1. PICK at, l : Goes(p, at, arg[p], l) /\ (at \in Aside \/ l = local[p])
    BY <1>11, WaitEffect DEF Aside
  <2>2. UNCHANGED <<images, raced, registry, refs>>
    BY Zenon, <1>11 DEF WaitForResourcesDownloading, Convert, runtime, history
  <2>3. pc[p] \in Pulled
    BY <1>11, WaitEffect DEF Pulled, PullPcs
  <2> QED  BY <1>3, <1>8, <2>1, <2>2, <2>3
<1>12. ASSUME NEW p \in Procs, CreateImageReference(p) \/ UpdateImageReference(p) PROVE MixInv'
  <2>1. PICK at, l, r :
          /\ r \in todo(p) /\ Goes(p, at, arg[p], l)
          /\ \/ at = "err" /\ refs' = refs
             \/ at = "err" /\ refs' = [refs EXCEPT ![r] = desc(p)]
             \/ l = local[p] /\ refs' = refs
             \/ /\ refs' = [refs EXCEPT ![r] = desc(p)]
                /\ l.desc = desc(p) /\ l.got = got(p) /\ l.chain = Nil /\ l.todo = todo(p) \ {r}
    BY SMT, <1>12, NameEffect DEF desc, got, todo
  <2>2. pc[p] \in {"create", "update"} /\ desc(p) \in Ids /\ pc[p] \in Pulled
    BY <1>12, NameEffect DEF Pulled, PullPcs
  <2>3. UNCHANGED <<images, raced, registry>>
    BY Zenon, <1>12 DEF CreateImageReference, UpdateImageReference, history
  <2>4. CASE refs' = refs /\ (at = "err" \/ l = local[p])
    BY SMT, <1>3, <1>8, <2>1, <2>2, <2>3, <2>4 DEF Aside
  <2>5. CASE refs' = [refs EXCEPT ![r] = desc(p)]
    <3>1. Sets(r, desc(p))
      BY <2>1, <2>2, <2>5, NewNames, RefKinds DEF Sets
    <3>2. PICK ref : ref = arg[p]
      OBVIOUS
    <3>3. CASE at = "err"
      BY <1>1, <2>1, <2>3, <3>1, <3>3, MixFrame DEF Pulled, PullPcs
    <3>4. CASE refs' = refs /\ l = local[p]
      BY <2>4, <3>4
    <3>5. CASE l.desc = desc(p) /\ l.got = got(p) /\ l.chain = Nil /\ l.todo = todo(p) \ {r}
      <4>1. Follows(ref, local[p]) /\ ref \in Refs
        BY <1>2, <2>2, <3>2
      <4>2. Follows(ref, l)'
        BY <2>2, <2>3, <2>5, <3>5, <4>1 DEF TypeOK, Follows, desc, got, todo
      <4> QED  BY <1>1, <2>1, <2>3, <3>1, <3>2, <4>2, MixFrame
    <3> QED  BY <2>1, <3>3, <3>4, <3>5
  <2> QED  BY <2>1, <2>4, <2>5
<1>13. ASSUME NEW p \in Procs, GetImage(p) PROVE MixInv'
  <2>1. PICK at, ref, l :
          /\ ref = arg[p] /\ Goes(p, at, ref, l)
          /\ at = "err" \/ (l.got = refs[ref] /\ l.desc = desc(p) /\ l.chain = Nil /\ l.todo = {})
    BY SMT, <1>13, GetEffect
  <2>2. UNCHANGED <<images, raced, registry, refs>>
    BY Zenon, <1>13 DEF GetImage, runtime, history
  <2>3. Follows(ref, local[p]) /\ local[p].todo = {}
    BY <1>2, <1>13, <2>1, GetEffect DEF Pulled, PullPcs, PlaceInv, Place
  <2>4. at \in Pulled => Follows(ref, l)'
    BY <2>1, <2>2, <2>3 DEF Follows, desc, Pulled, PullPcs
  <2> QED  BY <1>1, <2>1, <2>2, <2>4, MixFrame
<1>14. ASSUME NEW p \in Procs, Unpack(p) PROVE MixInv'
  <2>1. PICK at, ref, l :
          /\ ref = arg[p] /\ Goes(p, at, ref, l)
          /\ at = "err" \/ (l.got = got(p) /\ l.desc = desc(p) /\ l.chain = Nil)
    BY SMT, <1>14, UnpackEffect
  <2>2. UNCHANGED <<images, raced, registry, refs>>
    BY Zenon, <1>14 DEF Unpack, history
  <2>3. Follows(ref, local[p]) /\ local[p].todo = {}
    BY <1>2, <1>14, <2>1, UnpackEffect DEF Pulled, PullPcs, PlaceInv, Place
  <2>4. at \in Pulled => Follows(ref, l)'
    BY <2>1, <2>2, <2>3 DEF Follows, desc, got, Pulled, PullPcs
  <2> QED  BY <1>1, <2>1, <2>2, <2>4, MixFrame
<1>15. ASSUME NEW p \in Procs, GetImageInfo(p) PROVE MixInv'
  <2>1. PICK at, ref, l :
          /\ ref = arg[p] /\ Goes(p, at, ref, l)
          /\ at = "err" \/ (l.chain = refs[ref] /\ l.got = got(p) /\ l.desc = desc(p))
    BY SMT, <1>15, InfoEffect
  <2>2. UNCHANGED <<images, raced, registry, refs>>
    BY Zenon, <1>15 DEF GetImageInfo, runtime, history
  <2>3. Follows(ref, local[p]) /\ local[p].todo = {}
    BY <1>2, <1>15, <2>1, InfoEffect DEF Pulled, PullPcs, PlaceInv, Place
  <2>4. at \in Pulled => Follows(ref, l)'
    BY <2>1, <2>2, <2>3 DEF Follows, desc, got, Pulled, PullPcs
  <2> QED  BY <1>1, <2>1, <2>2, <2>4, MixFrame
<1>16. ASSUME NEW p \in Procs, AddToStore(p) PROVE MixInv'
  <2> DEFINE i == got(p)
             N == GetRepoDigestAndTag(arg[p], desc(p))
  <2>1. PICK at \in Aside, e \in Images :
          /\ \E ref, l : Goes(p, at, ref, l)
          /\ images' = [images EXCEPT ![i] = e]
          /\ \/ images[i] = Nil /\ e.names = N /\ e.chain = local[p].chain
             \/ images[i] # Nil /\ e.chain = images[i].chain /\ e.names = images[i].names \cup N
    BY Zenon, <1>16, AddEffect
  <2>2. UNCHANGED <<raced, registry, refs>> /\ pc[p] \in Pulled /\ i \in Ids /\ desc(p) \in Ids /\ local[p].chain # Nil
    BY Zenon, <1>16, AddEffect DEF AddToStore, runtime, history, Pulled, PullPcs, Place
  <2>3. arg[p] \in Refs /\ Follows(arg[p], local[p]) /\ arg[p].kind # "id"
    BY <1>2, <2>2
  <2>4. arg[p].kind = "tag" /\ arg[p].of \in raced => arg[p] = TagRef(arg[p].of) /\ arg[p] \in e.names
    BY <2>1, <2>3, RefKinds DEF GetRepoDigestAndTag
  <2>5. (arg[p].kind = "tag" => arg[p].of \notin raced) =>
          /\ local[p].chain = i
          /\ \A r \in N : r.kind = "digest" => r.of = i
    BY SMT, <2>2, <2>3, NilAssumption DEF Follows, GetRepoDigestAndTag, DigestRef, got, desc
  <2>6. \/ e.chain = i /\ \A r \in e.names : r.kind = "digest" => r.of = i
        \/ \E t \in raced : TagRef(t) \in e.names
    BY <2>1, <2>2, <2>4, <2>5 DEF MixInv, MixedOnlyByRace
  <2>7. MixedOnlyByRace'
    BY <2>1, <2>2, <2>6 DEF TypeOK, MixInv, MixedOnlyByRace
  <2> QED  BY <2>1, <2>2, <2>7, MixFrame, AsideNotPulled
<1>17. ASSUME NEW p \in Procs, DeleteReference(p) PROVE MixInv'
  <2>1. PICK at, l, r :
          /\ r \in todo(p) /\ Goes(p, at, arg[p], l)
          /\ at \in Aside \/ at = "delete"
          /\ (refs' = refs) \/ (refs' = [refs EXCEPT ![r] = Nil])
    BY Zenon, <1>17, DeleteEffect
  <2>2. at \notin Pulled
    BY <2>1, AsideNotPulled DEF Pulled, PullPcs
  <2>3. UNCHANGED <<images, raced, registry>>
    BY Zenon, <1>17 DEF DeleteReference, history
  <2>4. r \in Refs
    BY Zenon, <2>1 DEF TypeOK, Locals, todo
  <2>5. (refs' = refs) \/ Sets(r, Nil)
    BY <2>1, <2>4 DEF Sets
  <2> QED  BY <1>1, <2>1, <2>2, <2>3, <2>5, MixFrame
<1>18. ASSUME NEW p \in Procs, Recheck(p) \/ Forget(p) \/ Respond(p) PROVE MixInv'
  <2>1. PICK at \in Aside : \E ref, l : Goes(p, at, ref, l)
    BY Zenon, <1>18, EndEffect
  <2>2. UNCHANGED <<raced, registry, refs>> /\ \A i \in Ids : images'[i] = images[i] \/ images'[i] = Nil
    BY <1>18, EndEffect DEF TypeOK, runtime, history
  <2>3. MixedOnlyByRace'
    BY <2>2 DEF MixInv, MixedOnlyByRace
  <2> QED  BY <2>1, <2>2, <2>3, MixFrame, AsideNotPulled
<1>19. ASSUME NEW t \in Names, NEW i \in Ids, Push(t, i) PROVE MixInv'
  <2>1. UNCHANGED <<images, local, pc, arg, refs>> /\ raced \subseteq raced'
    BY <1>19 DEF Push, handler
  <2>2. MixedOnlyByRace'
    BY <2>1 DEF MixInv, MixedOnlyByRace
  <2>3. ASSUME NEW p \in Procs, pc[p] \in Pulled PROVE Follows(arg[p], local[p])'
    <3>1. CASE arg[p] = TagRef(t)
      <4>1. t \in raced'
        BY <1>19, <2>3, <3>1 DEF Push, Pulled
      <4>2. arg'[p].kind = "tag" /\ arg'[p].of = t
        <5>1. arg'[p] = TagRef(t)
          BY <2>1, <3>1
        <5>2. TagRef(t).kind = "tag" /\ TagRef(t).of = t
          BY DEF TagRef
        <5> QED  BY <5>1, <5>2
      <4> QED  BY <4>1, <4>2 DEF Follows
    <3>2. CASE arg[p] # TagRef(t)
      <4>1. arg[p].kind = "tag" => arg[p].of # t /\ arg[p].of \in Names
        BY <1>2, <2>3, <3>2, RefKinds
      <4>2. arg[p].kind = "tag" => registry'[arg[p].of] = registry[arg[p].of]
        BY <1>19, <4>1 DEF Push, TypeOK
      <4> QED  BY <1>2, <2>1, <2>3, <4>2 DEF Follows
    <3> QED  BY <3>1, <3>2
  <2> QED  BY <2>1, <2>2, <2>3 DEF MixInv, Pulled
<1>20. CASE UNCHANGED <<images, local, pc, arg, refs, registry, raced>>
  BY Zenon, <1>20 DEF MixInv, MixedOnlyByRace, Follows
<1>21. ASSUME NEW p \in Procs, Cancel(p) PROVE MixInv'
  BY Zenon, <1>20, <1>21 DEF Cancel, runtime, history
<1>22. CASE Crash
  <2>1. (\A q \in Procs : pc'[q] = "idle") /\ refs' = refs /\ \A i \in Ids : images'[i] = Nil
    BY <1>22 DEF Crash
  <2> QED  BY <2>1 DEF MixInv, MixedOnlyByRace, PullPcs
<1>23. CASE Restart \/ UNCHANGED vars
  BY Zenon, <1>20, <1>23 DEF Restart, vars, handler, runtime, history
<1> QED
  BY <1>4, <1>5, <1>6, <1>7, <1>9, <1>10, <1>11, <1>12, <1>13, <1>14, <1>15, <1>16, <1>17, <1>18, <1>19, <1>21,
     <1>22, <1>23 DEF Next, HandlerStep, PullStep, EnvStep

-----------------------------------------------------------------------------
(* RemoveImage deletes names of its own image as long as no tag is moved.     *)
Assigns(r, i) ==
  /\ r \in Refs /\ i \in Ids \cup {Nil}
  /\ refs' = [refs EXCEPT ![r] = i]
  /\ i # Nil => /\ r.kind = "id" /\ raced = {} => r.of = i
                /\ r.kind = "tag" /\ r.of \notin moved => registry[r.of] = i

LEMMA RemovalFrame ==
  ASSUME TypeOK, RemovalInv, NEW p \in Procs, NEW at, NEW ref, NEW l, Goes(p, at, ref, l),
         UNCHANGED <<registry, raced, moved>>,
         (refs' = refs) \/ \E r, i : Assigns(r, i),
         at = "delete" => \A r \in l.todo : Own(r, l.got),
         \A i \in Ids : images'[i] # Nil => \A r \in images'[i].names : Own(r, i)
  PROVE  RemovalInv'
<1>1. \A r, i : Own(r, i) <=> Own(r, i)'
  BY DEF Own
<1>2. (raced = {})' => \A i \in Ids : refs'[IdRef(i)] \in {Nil, i}
  <2>1. \A i \in Ids : IdRef(i) \in Refs /\ IdRef(i).kind = "id" /\ IdRef(i).of = i
    BY Zenon DEF IdRef, Refs
  <2>2. ASSUME NEW i \in Ids, raced = {} PROVE refs'[IdRef(i)] \in {Nil, i}
    <3>1. refs[IdRef(i)] \in {Nil, i}
      BY <2>2 DEF RemovalInv
    <3>2. CASE refs' = refs
      BY <3>1, <3>2
    <3>3. ASSUME NEW r, NEW j, Assigns(r, j) PROVE refs'[IdRef(i)] \in {Nil, i}
      <4>1. refs'[r] = j /\ (r # IdRef(i) => refs'[IdRef(i)] = refs[IdRef(i)])
        BY <2>1, <2>2, <3>3, RefSet DEF Assigns
      <4>2. r = IdRef(i) => j \in {Nil, i}
        BY <2>1, <2>2, <3>3 DEF Assigns
      <4> QED  BY <3>1, <4>1, <4>2
    <3> QED  BY <3>2, <3>3
  <2> QED  BY <2>2
<1>3. \A t \in Names \ moved : refs'[TagRef(t)] \in {Nil, registry[t]}
  <2>1. \A t \in Names : TagRef(t) \in Refs /\ TagRef(t).kind = "tag" /\ TagRef(t).of = t
    BY DEF TagRef, Refs, RepoRefs
  <2>2. ASSUME NEW t \in Names \ moved PROVE refs'[TagRef(t)] \in {Nil, registry[t]}
    <3>1. refs[TagRef(t)] \in {Nil, registry[t]}
      BY <2>2 DEF RemovalInv
    <3>2. CASE refs' = refs
      BY <3>1, <3>2
    <3>3. ASSUME NEW r, NEW j, Assigns(r, j) PROVE refs'[TagRef(t)] \in {Nil, registry[t]}
      <4>1. refs'[r] = j /\ (r # TagRef(t) => refs'[TagRef(t)] = refs[TagRef(t)])
        BY <2>1, <2>2, <3>3, RefSet DEF Assigns
      <4>2. r = TagRef(t) => j \in {Nil, registry[t]}
        BY <2>1, <2>2, <3>3 DEF Assigns
      <4> QED  BY <3>1, <4>1, <4>2
    <3> QED  BY <3>2, <3>3
  <2> QED  BY <2>2
<1>4. ASSUME NEW q \in Procs, pc'[q] = "delete" PROVE \A r \in local'[q].todo : Own(r, local'[q].got)
  <2>1. CASE q = p
    <3>1. pc' = [pc EXCEPT ![p] = at] /\ local' = [local EXCEPT ![p] = l]
      BY Zenon DEF Goes
    <3>2. p \in DOMAIN pc /\ p \in DOMAIN local
      BY Zenon DEF TypeOK
    <3>3. local'[p] = l /\ pc'[p] = at
      BY Zenon, <3>1, <3>2
    <3> QED  BY <1>4, <2>1, <3>3
  <2>2. CASE q # p
    <3>1. local'[q] = local[q] /\ pc[q] = "delete"
      BY <1>4, <2>2, GoesFacts
    <3> QED  BY <3>1 DEF RemovalInv, todo, got
  <2> QED  BY <2>1, <2>2
<1>5. \A q \in Procs : pc'[q] = "delete" => \A r \in todo(q)' : Own(r, got(q))'
  BY <1>4 DEF todo, got, Own
<1>6. \A i \in Ids : images'[i] # Nil => \A r \in images'[i].names : Own(r, i)'
  BY <1>1
<1> QED  BY <1>2, <1>3, <1>5, <1>6 DEF RemovalInv

LEMMA RemovalStep == TypeOK /\ PlaceInv /\ MixInv /\ RemovalInv /\ [Next]_vars => RemovalInv'
<1> SUFFICES ASSUME TypeOK, PlaceInv, MixInv, RemovalInv, [Next]_vars PROVE RemovalInv'
  OBVIOUS
<1>1. \A i \in Ids : images[i] # Nil => \A r \in images[i].names : Own(r, i)
  BY DEF RemovalInv
<1>2. ASSUME NEW p \in Procs, NEW at, NEW ref, NEW l, Goes(p, at, ref, l), at # "delete",
             UNCHANGED <<images, raced, moved, registry, refs>>
      PROVE  RemovalInv'
  BY <1>1, <1>2, RemovalFrame
<1>3. "delete" \notin Aside
  BY DEF Aside
<1>4. ASSUME NEW p \in Procs, Request(p) PROVE RemovalInv'
  BY Zenon, <1>2, <1>3, <1>4, AsksEffect DEF runtime
<1>5. ASSUME NEW p \in Procs, Lookup(p) PROVE RemovalInv'
  BY Zenon, <1>2, <1>3, <1>5, LookupEffect DEF Lookup, runtime, history
<1>6. ASSUME NEW p \in Procs, Load(p) PROVE RemovalInv'
  <2>1. PICK at, l :
          /\ Goes(p, at, arg[p], l)
          /\ \/ at \in Aside
             \/ images[got(p)] # Nil /\ l.got = got(p) /\ l.todo = images[got(p)].names \cup {IdRef(got(p))}
    BY <1>6, LoadEffect
  <2>2. UNCHANGED <<images, raced, moved, registry, refs>>
    BY Zenon, <1>6 DEF Load, runtime, history
  <2>3. got(p) \in Ids
    BY Zenon, <1>6 DEF TypeOK, Load, Moves, Locals, got
  <2>4. at = "delete" => \A r \in l.todo : Own(r, l.got)
    BY SMT, <1>1, <1>3, <2>1, <2>3 DEF Own, IdRef
  <2> QED  BY <1>1, <2>1, <2>2, <2>4, RemovalFrame
<1>7. ASSUME NEW p \in Procs, Resolve(p) PROVE RemovalInv'
  <2>1. PICK at, l : Goes(p, at, arg[p], l) /\ at # "delete"
    BY <1>3, <1>7, ResolveEffect
  <2> QED  BY Zenon, <1>2, <1>7, <2>1 DEF Resolve, runtime, history
<1>8. ASSUME NEW p \in Procs, Fetch(p) PROVE RemovalInv'
  <2>1. PICK at \in {"waitDl", "fetching"} : Goes(p, at, arg[p], local[p])
    BY Zenon, <1>8, FetchEffect
  <2> QED  BY Zenon, <1>2, <1>8, <2>1 DEF Fetch, history
<1>9. ASSUME NEW p \in Procs, FetchEnds(p) PROVE RemovalInv'
  BY Zenon, <1>2, <1>9, FetchEndsEffect DEF FetchEnds, history
<1>10. ASSUME NEW p \in Procs, WaitForResourcesDownloading(p) \/ Convert(p) PROVE RemovalInv'
  <2>1. PICK at, l : Goes(p, at, arg[p], l) /\ at # "delete"
    BY <1>10, WaitEffect
  <2>2. UNCHANGED <<images, raced, moved, registry, refs>>
    BY Zenon, <1>10 DEF WaitForResourcesDownloading, Convert, runtime, history
  <2> QED  BY <1>2, <2>1, <2>2
<1>11. ASSUME NEW p \in Procs, CreateImageReference(p) \/ UpdateImageReference(p) PROVE RemovalInv'
  <2>1. PICK at, l, r :
          /\ r \in todo(p) /\ Goes(p, at, arg[p], l) /\ at \in {"err", "update", "create", "get", "info"}
          /\ refs' \in {refs, [refs EXCEPT ![r] = desc(p)]}
    BY SMT, <1>11, NameEffect DEF desc
  <2>2. pc[p] \in {"create", "update"} /\ desc(p) \in Ids /\ Follows(arg[p], local[p]) /\ arg[p] \in Refs
    BY <1>11, NameEffect DEF TypeOK, MixInv, PullPcs, Refs
  <2>3. UNCHANGED <<images, raced, moved, registry>>
    BY Zenon, <1>11 DEF CreateImageReference, UpdateImageReference, history
  <2>4. /\ r \in Refs
        /\ r.kind = "tag" => (r.of \notin raced => desc(p) = registry[r.of])
        /\ r.kind = "id" => r.of = got(p) /\ got(p) # Nil
    BY Zenon, <2>1, <2>2, NewNames
  <2>5. r.kind = "id" /\ raced = {} => r.of = desc(p)
    BY <2>2, <2>4 DEF Follows, got, desc
  <2>6. (refs' = refs) \/ Assigns(r, desc(p))
    BY <2>1, <2>2, <2>4, <2>5 DEF TypeOK, Assigns
  <2> QED  BY <1>1, <2>1, <2>3, <2>6, RemovalFrame
<1>12. ASSUME NEW p \in Procs, GetImage(p) PROVE RemovalInv'
  <2>1. PICK at, l : Goes(p, at, arg[p], l) /\ at # "delete"
    BY <1>12, GetEffect
  <2> QED  BY Zenon, <1>2, <1>12, <2>1 DEF GetImage, runtime, history
<1>13. ASSUME NEW p \in Procs, Unpack(p) PROVE RemovalInv'
  <2>1. PICK at, l : Goes(p, at, arg[p], l) /\ at # "delete"
    BY <1>13, UnpackEffect
  <2> QED  BY Zenon, <1>2, <1>13, <2>1 DEF Unpack, history
<1>14. ASSUME NEW p \in Procs, GetImageInfo(p) PROVE RemovalInv'
  <2>1. PICK at, l : Goes(p, at, arg[p], l) /\ at # "delete"
    BY <1>14, InfoEffect
  <2> QED  BY Zenon, <1>2, <1>14, <2>1 DEF GetImageInfo, runtime, history
<1>15. ASSUME NEW p \in Procs, AddToStore(p) PROVE RemovalInv'
  <2> DEFINE i == got(p)
             N == GetRepoDigestAndTag(arg[p], desc(p))
  <2>1. PICK at \in Aside, e \in Images :
          /\ \E ref, l : Goes(p, at, ref, l)
          /\ images' = [images EXCEPT ![i] = e]
          /\ \/ images[i] = Nil /\ e.names = N
             \/ images[i] # Nil /\ e.names = images[i].names \cup N
    BY Zenon, <1>15, AddEffect
  <2>2. UNCHANGED <<raced, moved, registry, refs>> /\ pc[p] = "add" /\ i \in Ids /\ desc(p) \in Ids
    BY Zenon, <1>15, AddEffect DEF AddToStore, runtime, history
  <2>3. arg[p] \in RepoRefs /\ arg[p] \in Refs /\ Follows(arg[p], local[p])
    BY <2>2 DEF TypeOK, MixInv, PullPcs, Refs
  <2>4. \A r \in N : Own(r, i)
    <3>1. Own(arg[p], i)
      BY <2>2, <2>3, RefKinds, NilAssumption DEF TypeOK, Own, Follows, got, desc
    <3>2. Own(DigestRef(desc(p)), i)
      BY <2>2, <2>3, NilAssumption DEF Own, Follows, DigestRef, got, desc
    <3> QED  BY <3>1, <3>2 DEF GetRepoDigestAndTag
  <2>5. \A j \in Ids : images'[j] # Nil => \A r \in images'[j].names : Own(r, j)
    BY <1>1, <2>1, <2>2, <2>4 DEF TypeOK
  <2> QED  BY <1>3, <2>1, <2>2, <2>5, RemovalFrame
<1>16. ASSUME NEW p \in Procs, DeleteReference(p) PROVE RemovalInv'
  <2>1. PICK at, l, r :
          /\ r \in todo(p) /\ Goes(p, at, arg[p], l)
          /\ at \in Aside \/ (l.got = got(p) /\ l.todo = todo(p) \ {r})
          /\ (refs' = refs) \/ (refs' = [refs EXCEPT ![r] = Nil])
    BY SMT, <1>16, DeleteEffect
  <2>2. \A s \in todo(p) : Own(s, got(p))
    BY <1>16, DeleteEffect DEF RemovalInv
  <2>3. UNCHANGED <<images, raced, moved, registry>>
    BY Zenon, <1>16 DEF DeleteReference, history
  <2>4. r \in Refs
    BY Zenon, <2>1 DEF TypeOK, Locals, todo
  <2>5. (refs' = refs) \/ Assigns(r, Nil)
    BY <2>1, <2>4 DEF Assigns
  <2>6. at = "delete" => \A s \in l.todo : Own(s, l.got)
    BY <1>3, <2>1, <2>2
  <2> QED  BY <1>1, <2>1, <2>3, <2>5, <2>6, RemovalFrame
<1>17. ASSUME NEW p \in Procs, Recheck(p) \/ Forget(p) \/ Respond(p) PROVE RemovalInv'
  <2>1. PICK at \in Aside : \E ref, l : Goes(p, at, ref, l)
    BY Zenon, <1>17, EndEffect
  <2>2. UNCHANGED <<raced, moved, registry, refs>> /\ \A i \in Ids : images'[i] = images[i] \/ images'[i] = Nil
    BY <1>17, EndEffect DEF TypeOK, runtime, history
  <2>3. \A j \in Ids : images'[j] # Nil => \A r \in images'[j].names : Own(r, j)
    BY <1>1, <2>2
  <2> QED  BY <1>3, <2>1, <2>2, <2>3, RemovalFrame
<1>18. ASSUME NEW t \in Names, NEW i \in Ids, Push(t, i) PROVE RemovalInv'
  <2>1. /\ UNCHANGED <<images, local, pc, refs>> /\ raced \subseteq raced' /\ moved' = moved \cup {t}
        /\ \A u \in Names : u # t => registry'[u] = registry[u]
    BY <1>18 DEF Push, TypeOK, handler
  <2>2. \A r \in Refs : \A j : Own(r, j) => Own(r, j)'
    BY <2>1, RefKinds DEF Own
  <2>3. \A u \in Names \ moved' : refs'[TagRef(u)] \in {Nil, registry'[u]}
    BY <2>1 DEF RemovalInv
  <2>4. \A j \in Ids : images'[j] # Nil => \A r \in images'[j].names : Own(r, j)'
    BY <1>1, <2>1, <2>2 DEF TypeOK, Images, Refs
  <2>5. ASSUME NEW p \in Procs, pc[p] = "delete", NEW r \in todo(p) PROVE Own(r, got(p))'
    <3>1. r \in Refs /\ Own(r, got(p)) /\ local'[p] = local[p]
      BY Zenon, <2>1, <2>5 DEF TypeOK, Locals, RemovalInv, todo
    <3> QED  BY <2>2, <3>1 DEF got, Own
  <2> QED  BY <2>1, <2>3, <2>4, <2>5 DEF RemovalInv, todo
<1>19. CASE UNCHANGED <<images, local, pc, refs, registry, raced, moved>>
  BY Zenon, <1>19 DEF RemovalInv, Own, todo, got
<1>20. ASSUME NEW p \in Procs, Cancel(p) PROVE RemovalInv'
  BY Zenon, <1>19, <1>20 DEF Cancel, runtime, history
<1>21. CASE Crash
  <2>1. (\A q \in Procs : pc'[q] = "idle") /\ (\A i \in Ids : images'[i] = Nil) /\ UNCHANGED <<refs, registry, raced, moved>>
    BY <1>21 DEF Crash, history
  <2> QED  BY <2>1 DEF RemovalInv
<1>22. CASE Restart \/ UNCHANGED vars
  BY Zenon, <1>19, <1>22 DEF Restart, vars, handler, runtime, history
<1> QED
  BY <1>4, <1>5, <1>6, <1>7, <1>8, <1>9, <1>10, <1>11, <1>12, <1>13, <1>14, <1>15, <1>16, <1>17, <1>18, <1>20,
     <1>21, <1>22 DEF Next, HandlerStep, PullStep, EnvStep

-----------------------------------------------------------------------------
(* The invariant, and the properties that follow from it.                     *)
LEMMA InitImages == Init => ImageInv
<1> SUFFICES ASSUME Init PROVE ImageInv
  OBVIOUS
<1>1. (\A p \in Procs : pc[p] = "idle") /\ (\A r \in Refs : refs[r] = Nil) /\ (\A i \in Ids : images[i] = Nil)
  BY DEF Init
<1>2. DownloadInv /\ ReadyInv
  BY <1>1 DEF DownloadInv, ReadyInv, NamesHaveContent, ReadyMeansUnpacked, PullPcs
<1>3. MixInv /\ RemovalInv
  <2>1. \A i \in Ids : refs[DigestRef(i)] = Nil /\ refs[IdRef(i)] = Nil
    BY Zenon, <1>1 DEF DigestRef, IdRef, Refs, RepoRefs
  <2>2. \A t \in Names : refs[TagRef(t)] = Nil
    BY Zenon, <1>1 DEF TagRef, Refs, RepoRefs
  <2> QED  BY <1>1, <2>1, <2>2 DEF MixInv, RemovalInv, MixedOnlyByRace, PullPcs
<1> QED  BY <1>2, <1>3, InitTypes DEF ImageInv

LEMMA ImageStep == ImageInv /\ [Next]_vars => ImageInv'
<1> SUFFICES ASSUME ImageInv, [Next]_vars PROVE ImageInv'
  OBVIOUS
<1>1. TypeOK /\ PlaceInv /\ DownloadInv /\ ReadyInv /\ MixInv /\ RemovalInv
  BY DEF ImageInv
<1> QED  BY <1>1, TypeStep, DownloadStep, ReadyStep, MixStep, RemovalStep DEF ImageInv

LEMMA ImageInvHolds == Spec => []ImageInv
  BY InitImages, ImageStep, PTL DEF Spec

(* The variables of ImageService have their types: a handler that is pulling  *)
(* has a name to pull and a descriptor, and one that creates or deletes names *)
(* has a name left (PullImage, RemoveImage).                                  *)
THEOREM ImageTypeCorrect == Spec => []TypeOK
  BY ImageInvHolds, PTL DEF ImageInv

(* A name that pullImage has created or updated refers to an image whose      *)
(* blobs are all there, unless a download of that image failed or was lost.   *)
THEOREM NamesHaveTheirContent == Spec => []NamesHaveContent
  BY ImageInvHolds, PTL DEF ImageInv, DownloadInv

(* What ListImages and ImageStatus show is unpacked and has all its blobs,    *)
(* with any number of pulls and removals at once, failures and restarts.      *)
THEOREM StoredImagesAreReady == Spec => []ReadyMeansUnpacked
  BY ImageInvHolds, PTL DEF ImageInv, ReadyInv

(* pullImage and getImageInfo read the name back, and yet an entry of the     *)
(* image store is about one image unless one of its tags was moved in the     *)
(* registry during a pull.                                                    *)
THEOREM StoredImagesMixOnlyByRace == Spec => []MixedOnlyByRace
  BY ImageInvHolds, PTL DEF ImageInv, MixInv

LEMMA DeletionStep ==
  ASSUME ImageInv, [Next]_vars, NEW p \in Procs, NEW r \in Refs,
         pc[p] = "delete", r \in todo(p) \ local'[p].todo, refs[r] # Nil, raced = {},
         ~(r.kind = "tag" /\ r.of \in moved)
  PROVE  refs[r] = got(p)
<1>1. TypeOK /\ MixInv /\ RemovalInv
  BY DEF ImageInv
<1>2. Own(r, got(p))
  BY <1>1 DEF RemovalInv
<1>3. CASE r.kind = "tag"
  BY SMT, <1>1, <1>2, <1>3, RefKinds DEF Own, RemovalInv
<1>4. CASE r.kind = "digest"
  BY <1>1, <1>2, <1>4, RefKinds DEF Own, MixInv
<1>5. CASE r.kind = "id"
  BY SMT, <1>1, <1>2, <1>5, RefKinds DEF Own, RemovalInv
<1> QED  BY <1>3, <1>4, <1>5, RefKinds

(* RemoveImage does not look at what a name refers to when it deletes it;     *)
(* still it deletes no name of another image, unless a tag was moved in the   *)
(* registry.                                                                  *)
THEOREM RemovalSparesOtherImages == Spec => RemovalSparesOthers
<1>1. ImageInv /\ [Next]_vars =>
        [\A p \in Procs, r \in Refs :
           pc[p] = "delete" /\ r \in todo(p) \ local'[p].todo /\ refs[r] # Nil /\ refs'[r] = Nil
             => \/ refs[r] = got(p)
                \/ r.kind = "tag" /\ r.of \in moved
                \/ raced # {}]_vars
  BY DeletionStep
<1> QED  BY <1>1, ImageInvHolds, PTL DEF Spec, RemovalSparesOthers
==============================================================================
