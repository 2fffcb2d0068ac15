----------------------------- MODULE SpecProofs -----------------------------
(***************************************************************************)
(* About the specs of containers, for all handlers and all requests: that  *)
(* a spec has the environment its request, its image and the default call  *)
(* for, but for what others did to the shared array; and that the          *)
(* containers of a pod share what they should and have the mounts and      *)
(* rights they asked for.                                                  *)
(***************************************************************************)
EXTENDS ProcessEnv, PodSpec, Integers, SequenceTheorems, FiniteSetTheorems,
        WellFoundedInduction, TLAPS

(* A nonempty set of naturals has a least element: the least-number principle *)
(* for a set, from which an induction over data can be had.                   *)
LEMMA LeastNatural ==
  ASSUME NEW T \in SUBSET Nat, T # {}
  PROVE  \E x \in T : \A y \in T : x <= y
<1> DEFINE Less == {ss \in Nat \X Nat : ss[1] < ss[2]}
<1>1. IsWellFoundedOn(Less, Nat)
  BY NatLessThanWellFounded DEF OpToRel
<1> HIDE DEF Less
<1>2. PICK x \in T : \A y \in T : ~(<<y, x>> \in Less)
  BY <1>1, WFMin
<1>3. \A y \in T : ~(y < x)
  BY <1>2 DEF Less
<1> QED  BY <1>3

LEMMA GreatestIndex ==
  ASSUME NEW n \in Nat, NEW T \in SUBSET (1 .. n), T # {}
  PROVE  \E x \in T : \A y \in T : y <= x
<1> DEFINE D == {d \in Nat : n - d \in T}
<1>1. D \in SUBSET Nat /\ D # {}
  <2>1. PICK t \in T : TRUE
    OBVIOUS
  <2>2. n - t \in Nat /\ n - (n - t) = t
    OBVIOUS
  <2> QED  BY <2>1, <2>2
<1>2. PICK d \in D : \A e \in D : d <= e
  BY <1>1, LeastNatural
<1>3. ASSUME NEW y \in T PROVE y <= n - d
  <2>1. n - y \in Nat /\ n - (n - y) = y
    OBVIOUS
  <2>2. n - y \in D
    BY <2>1
  <2> QED  BY <1>2, <2>2
<1> QED  BY <1>2, <1>3
-----------------------------------------------------------------------------
(* The environment. *)

EnvRequests == [image : Seq(EnvStrings), config : Seq(EnvStrings), tty : BOOLEAN]
EnvSlices   == [shared : BOOLEAN, own : Seq(EnvStrings)]

EnvTypes ==
  /\ stage \in [Builds -> {"idle", "env", "create"}]
  /\ asked \in [Builds -> EnvRequests]
  /\ calls \in [Builds -> Seq(EnvStrings)]
  /\ envSlice \in [Builds -> EnvSlices]
  /\ rawEnv \in [Builds -> Seq(EnvStrings)]
  /\ defaultEnv \in Seq(EnvStrings)

(* The shared array has its variables where they were; only those that were   *)
(* replaced have another value.                                               *)
SharedArray ==
  /\ Len(defaultEnv) = Len(DefaultEnv)
  /\ \A i \in 1 .. Len(DefaultEnv) :
       /\ defaultEnv[i].name = DefaultEnv[i].name
       /\ defaultEnv[i].value = DefaultEnv[i].value \/ defaultEnv[i].name \in overwritten

(* The calls a handler has to make, and how many of them it has made. *)
AllCalls(c) == EnvCalls(asked[c])
Made(c)     == Len(AllCalls(c)) - Len(calls[c])

CallsLeft(c) ==
  /\ Len(calls[c]) <= Len(AllCalls(c))
  /\ \A i \in 1 .. Len(calls[c]) : calls[c][i] = AllCalls(c)[Made(c) + i]

(* What the first n of a list of calls have set. *)
SetBy(L, n) == {L[i].name : i \in 1 .. n}

ValueBy(L, n, k, v) ==
  \/ \E m \in 1 .. n : /\ L[m].name = k /\ L[m].value = v
                       /\ \A j \in 1 .. n : L[j].name = k => j <= m
  \/ k \notin SetBy(L, n) /\ \E i \in 1 .. Len(DefaultEnv) : DefaultEnv[i].name = k /\ DefaultEnv[i].value = v

(* Another handler's value is there, and there it may stay, or else this one  *)
(* has yet to set the variable.                                               *)
Excused(c, k) ==
  /\ k \in NamesIn(DefaultEnv) /\ k \in overwritten
  /\ c \in mixed \/ k \notin SetBy(AllCalls(c), Made(c)) \/ k \in NamesIn(calls[c])

(* The environment of a handler is what its calls so far have made of it. *)
MadeSoFar(c, env) ==
  /\ NamesIn(env) = NamesIn(DefaultEnv) \cup SetBy(AllCalls(c), Made(c))
  /\ \A i, j \in 1 .. Len(env) : env[i].name = env[j].name => i = j
  /\ \A i \in 1 .. Len(env) : ValueBy(AllCalls(c), Made(c), env[i].name, env[i].value) \/ Excused(c, env[i].name)

EnvSound(c) ==
  /\ stage[c] = "env" => CallsLeft(c) /\ MadeSoFar(c, EnvOf(c))
  /\ stage[c] = "create" => calls[c] = <<>> /\ MadeSoFar(c, rawEnv[c])

EnvInv == EnvTypes /\ SharedArray /\ \A c \in Builds : EnvSound(c)

LEMMA EnvCallsType ==
  ASSUME NEW r \in EnvRequests
  PROVE  /\ Term(r.tty) \in Seq(EnvStrings) /\ r.image \in Seq(EnvStrings) /\ r.config \in Seq(EnvStrings)
         /\ Term(r.tty) \o r.image \in Seq(EnvStrings) /\ EnvCalls(r) \in Seq(EnvStrings)
<1>1. Variable("TERM", "xterm") \in EnvStrings
  <2>1. 2 \in Nat
    OBVIOUS
  <2> QED  BY <2>1, EnvStringsAssumption, Zenon DEF Variable, EnvStrings
<1>2. <<Variable("TERM", "xterm")>> \in Seq(EnvStrings) /\ <<>> \in Seq(EnvStrings)
  BY <1>1
<1>3. Term(r.tty) \in Seq(EnvStrings)
  BY <1>2 DEF Term
<1>4. r.image \in Seq(EnvStrings) /\ r.config \in Seq(EnvStrings)
  BY DEF EnvRequests
<1>5. Term(r.tty) \o r.image \in Seq(EnvStrings)
  BY <1>3, <1>4, ConcatProperties
<1>6. EnvCalls(r) \in Seq(EnvStrings)
  BY <1>4, <1>5, ConcatProperties DEF EnvCalls
<1> QED  BY <1>3, <1>4, <1>5, <1>6

LEMMA NamesOfSeq ==
  ASSUME NEW env \in Seq(EnvStrings)
  PROVE  /\ Len(env) \in Nat /\ DOMAIN env = 1 .. Len(env)
         /\ NamesIn(env) = {env[i].name : i \in 1 .. Len(env)}
  BY LenProperties DEF NamesIn

(* AddProcessEnv in place. *)
LEMMA Replaced ==
  ASSUME NEW env \in Seq(EnvStrings), NEW e \in EnvStrings
  PROVE  /\ Replace(env, e) \in Seq(EnvStrings) /\ Len(Replace(env, e)) = Len(env)
         /\ \A i \in 1 .. Len(env) :
              /\ Replace(env, e)[i] = IF env[i].name = e.name THEN e ELSE env[i]
              /\ Replace(env, e)[i].name = env[i].name
         /\ NamesIn(Replace(env, e)) = NamesIn(env)
<1> DEFINE n == Len(env)
           new == Replace(env, e)
<1>1. n \in Nat /\ DOMAIN env = 1 .. n /\ \A i \in 1 .. n : env[i] \in EnvStrings
  BY LenProperties, ElementOfSeq
<1>2. new = [i \in 1 .. n |-> IF env[i].name = e.name THEN e ELSE env[i]]
  BY <1>1 DEF Replace
<1> HIDE DEF n, new
<1>3. new \in [1 .. n -> EnvStrings]
  BY <1>1, <1>2
<1>4. new \in Seq(EnvStrings) /\ Len(new) = n
  BY <1>1, <1>3
<1>5. \A i \in 1 .. n : new[i] = IF env[i].name = e.name THEN e ELSE env[i]
  BY <1>2
<1>6. \A i \in 1 .. n : new[i].name = env[i].name
  BY <1>5
<1>7. NamesIn(new) = NamesIn(env)
  <2>1. NamesIn(new) = {new[i].name : i \in 1 .. n} /\ NamesIn(env) = {env[i].name : i \in 1 .. n}
    BY <1>4, NamesOfSeq DEF n
  <2> QED  BY <1>6, <2>1
<1> QED  BY <1>4, <1>5, <1>6, <1>7 DEF n, new

(* AddProcessEnv at the end. *)
LEMMA Appended ==
  ASSUME NEW env \in Seq(EnvStrings), NEW e \in EnvStrings
  PROVE  /\ Append(env, e) \in Seq(EnvStrings) /\ Len(Append(env, e)) = Len(env) + 1
         /\ \A i \in 1 .. Len(env) : Append(env, e)[i] = env[i]
         /\ Append(env, e)[Len(env) + 1] = e
         /\ NamesIn(Append(env, e)) = NamesIn(env) \cup {e.name}
<1> DEFINE n == Len(env)
           new == Append(env, e)
<1>1. n \in Nat
  BY LenProperties
<1>2. new \in Seq(EnvStrings) /\ Len(new) = n + 1 /\ (\A i \in 1 .. n : new[i] = env[i]) /\ new[n + 1] = e
  BY AppendProperties
<1>3. NamesIn(new) = NamesIn(env) \cup {e.name}
  <2> HIDE DEF new
  <2>1. NamesIn(new) = {new[i].name : i \in 1 .. n + 1} /\ NamesIn(env) = {env[i].name : i \in 1 .. n}
    BY <1>2, NamesOfSeq
  <2> HIDE DEF n
  <2>2. 1 .. n + 1 = (1 .. n) \cup {n + 1}
    BY <1>1
  <2> QED  BY <1>2, <2>1, <2>2
<1> QED  BY <1>2, <1>3

(* One more call has been made. *)
LEMMA SetByNext ==
  ASSUME NEW L, NEW n \in Nat
  PROVE  SetBy(L, n + 1) = SetBy(L, n) \cup {L[n + 1].name}
<1>1. 1 .. n + 1 = (1 .. n) \cup {n + 1}
  OBVIOUS
<1> QED  BY <1>1 DEF SetBy

LEMMA ValueByNext ==
  ASSUME NEW L, NEW n \in Nat, NEW k, NEW v
  PROVE  /\ k = L[n + 1].name /\ v = L[n + 1].value => ValueBy(L, n + 1, k, v)
         /\ k # L[n + 1].name /\ ValueBy(L, n, k, v) => ValueBy(L, n + 1, k, v)
<1>1. ASSUME k = L[n + 1].name, v = L[n + 1].value PROVE ValueBy(L, n + 1, k, v)
  <2>1. n + 1 \in 1 .. n + 1 /\ \A j \in 1 .. n + 1 : j <= n + 1
    OBVIOUS
  <2> QED  BY <1>1, <2>1 DEF ValueBy
<1>2. ASSUME k # L[n + 1].name, NEW m \in 1 .. n, L[m].name = k, L[m].value = v,
             \A j \in 1 .. n : L[j].name = k => j <= m
      PROVE  ValueBy(L, n + 1, k, v)
  <2>1. m \in 1 .. n + 1 /\ \A j \in 1 .. n + 1 : L[j].name = k => j <= m
    BY <1>2
  <2> QED  BY <1>2, <2>1 DEF ValueBy
<1>3. ASSUME k # L[n + 1].name, k \notin SetBy(L, n),
             NEW i \in 1 .. Len(DefaultEnv), DefaultEnv[i].name = k, DefaultEnv[i].value = v
      PROVE  ValueBy(L, n + 1, k, v)
  <2>1. k \notin SetBy(L, n + 1)
    BY <1>3, SetByNext
  <2> QED  BY <1>3, <2>1 DEF ValueBy
<1> QED  BY <1>1, <1>2, <1>3 DEF ValueBy

(* The next call of a handler. *)
LEMMA NextCall ==
  ASSUME NEW c \in Builds, EnvTypes, CallsLeft(c), calls[c] # <<>>
  PROVE  /\ Head(calls[c]) \in EnvStrings /\ Tail(calls[c]) \in Seq(EnvStrings)
         /\ Made(c) \in Nat /\ Head(calls[c]) = AllCalls(c)[Made(c) + 1]
         /\ Len(AllCalls(c)) - Len(Tail(calls[c])) = Made(c) + 1
         /\ Len(Tail(calls[c])) <= Len(AllCalls(c))
         /\ \A i \in 1 .. Len(Tail(calls[c])) : Tail(calls[c])[i] = AllCalls(c)[Made(c) + 1 + i]
         /\ NamesIn(calls[c]) = NamesIn(Tail(calls[c])) \cup {Head(calls[c]).name}
<1> DEFINE s == calls[c]
           t == Tail(s)
           L == AllCalls(c)
<1>1. s \in Seq(EnvStrings) /\ s # <<>> /\ L \in Seq(EnvStrings)
  BY EnvCallsType DEF EnvTypes, AllCalls
<1>2. Len(s) \in Nat /\ Len(s) # 0 /\ Len(L) \in Nat
  BY <1>1, EmptySeq, LenProperties
<1>3. /\ Head(s) \in EnvStrings /\ t \in Seq(EnvStrings) /\ Len(t) = Len(s) - 1
      /\ \A i \in 1 .. Len(t) : t[i] = s[i + 1]
  BY <1>1, HeadTailProperties
<1>4. Head(s) = s[1]
  BY <1>1
<1>5. Len(s) <= Len(L) /\ Made(c) = Len(L) - Len(s) /\ \A i \in 1 .. Len(s) : s[i] = L[Made(c) + i]
  BY Zenon DEF CallsLeft, Made
<1> DEFINE n == Made(c)
<1> HIDE DEF s, t, L, n
<1>6. n \in Nat /\ Head(s) = L[n + 1] /\ Len(L) - Len(t) = n + 1 /\ Len(t) <= Len(L)
  BY <1>2, <1>3, <1>4, <1>5 DEF n
<1>7. ASSUME NEW i \in 1 .. Len(t) PROVE t[i] = L[n + 1 + i]
  <2>1. i + 1 \in 1 .. Len(s) /\ n + (i + 1) = n + 1 + i
    BY <1>2, <1>3, <1>6
  <2> QED  BY <1>3, <1>5, <2>1 DEF n
<1>8. NamesIn(s) = NamesIn(t) \cup {Head(s).name}
  <2>1. NamesIn(s) = {s[i].name : i \in 1 .. Len(s)} /\ NamesIn(t) = {t[i].name : i \in 1 .. Len(t)}
    BY <1>1, <1>3, NamesOfSeq
  <2>2. NamesIn(t) \cup {s[1].name} \subseteq NamesIn(s)
    <3>1. ASSUME NEW i \in 1 .. Len(t) PROVE t[i].name \in NamesIn(s)
      <4>1. i + 1 \in 1 .. Len(s) /\ t[i] = s[i + 1]
        BY <1>2, <1>3
      <4> QED  BY <2>1, <4>1
    <3>2. 1 \in 1 .. Len(s)
      BY <1>2
    <3>3. s[1].name \in NamesIn(s)
      BY <2>1, <3>2
    <3> QED  BY <2>1, <3>1, <3>3
  <2>3. ASSUME NEW i \in 1 .. Len(s) PROVE s[i].name \in NamesIn(t) \cup {s[1].name}
    <3>1. CASE i # 1
      <4>1. i - 1 \in 1 .. Len(t) /\ t[i - 1] = s[i]
        BY <1>2, <1>3, <3>1
      <4> QED  BY <2>1, <4>1
    <3> QED  BY <3>1
  <2> QED  BY <1>4, <2>1, <2>2, <2>3, Zenon
<1> QED  BY <1>3, <1>6, <1>7, <1>8 DEF s, t, L, n

-----------------------------------------------------------------------------
(* What a handler has does not change when the others move, except for what   *)
(* the history variables excuse.                                              *)
LEMMA EnvFrame ==
  ASSUME NEW c \in Builds, NEW env, MadeSoFar(c, env),
         asked'[c] = asked[c], calls'[c] = calls[c],
         overwritten \subseteq overwritten', c \in mixed => c \in mixed'
  PROVE  MadeSoFar(c, env)'
<1>1. AllCalls(c)' = AllCalls(c) /\ Made(c)' = Made(c)
  BY DEF AllCalls, Made
<1>2. ASSUME NEW k, Excused(c, k) PROVE Excused(c, k)'
  BY <1>1, <1>2 DEF Excused
<1> QED  BY <1>1, <1>2 DEF MadeSoFar

LEMMA OthersKept ==
  ASSUME NEW d \in Builds, EnvSound(d), stage'[d] = stage[d], asked'[d] = asked[d], calls'[d] = calls[d],
         envSlice'[d] = envSlice[d], rawEnv'[d] = rawEnv[d],
         stage[d] = "env" /\ envSlice[d].shared => defaultEnv' = defaultEnv,
         overwritten \subseteq overwritten', d \in mixed => d \in mixed'
  PROVE  EnvSound(d)'
<1>1. ASSUME stage'[d] = "env" PROVE CallsLeft(d)' /\ MadeSoFar(d, EnvOf(d))'
  <2>1. CallsLeft(d) /\ MadeSoFar(d, EnvOf(d)) /\ EnvOf(d)' = EnvOf(d)
    BY <1>1 DEF EnvSound, EnvOf
  <2>2. CallsLeft(d)'
    BY <2>1, Zenon DEF CallsLeft, AllCalls, Made
  <2>3. PICK env : env = EnvOf(d)
    OBVIOUS
  <2>4. MadeSoFar(d, env)'
    BY <2>1, <2>3, EnvFrame
  <2> QED  BY <2>1, <2>2, <2>3, <2>4
<1>2. ASSUME stage'[d] = "create" PROVE calls'[d] = <<>> /\ MadeSoFar(d, rawEnv[d])'
  <2>1. calls[d] = <<>> /\ MadeSoFar(d, rawEnv[d])
    BY <1>2 DEF EnvSound
  <2>2. PICK env : env = rawEnv[d]
    OBVIOUS
  <2>3. MadeSoFar(d, env)'
    BY <2>1, <2>2, EnvFrame
  <2> QED  BY <2>1, <2>2, <2>3
<1> QED  BY <1>1, <1>2 DEF EnvSound

(* A call of AddProcessEnv makes of the environment what it should. *)
LEMMA CallMakes ==
  ASSUME NEW c \in Builds, EnvTypes, CallsLeft(c), calls[c] # <<>>, NEW e, e = Head(calls[c]),
         NEW env \in Seq(EnvStrings), MadeSoFar(c, env), NEW new,
         \/ e.name \in NamesIn(env) /\ new = Replace(env, e)
         \/ e.name \notin NamesIn(env) /\ new = Append(env, e),
         asked'[c] = asked[c], calls'[c] = Tail(calls[c]),
         overwritten \subseteq overwritten', c \in mixed => c \in mixed'
  PROVE  CallsLeft(c)' /\ new \in Seq(EnvStrings) /\ MadeSoFar(c, new)'
<1> DEFINE L == AllCalls(c)
           n == Made(c)
<1>1. /\ e \in EnvStrings /\ Tail(calls[c]) \in Seq(EnvStrings)
      /\ n \in Nat /\ e = L[n + 1] /\ Len(L) - Len(Tail(calls[c])) = n + 1
      /\ Len(Tail(calls[c])) <= Len(L)
      /\ \A i \in 1 .. Len(Tail(calls[c])) : Tail(calls[c])[i] = L[n + 1 + i]
      /\ NamesIn(calls[c]) = NamesIn(Tail(calls[c])) \cup {e.name}
  BY NextCall, Zenon
<1>2. AllCalls(c)' = L
  BY DEF AllCalls
<1>3. Made(c)' = n + 1
  BY <1>1, <1>2, Zenon DEF Made
<1>4. CallsLeft(c)'
  BY <1>1, <1>2, <1>3 DEF CallsLeft
<1> HIDE DEF L, n
<1>5. SetBy(L, n + 1) = SetBy(L, n) \cup {e.name}
  <2>1. n \in Nat /\ e = L[n + 1]
    BY <1>1, Zenon
  <2>2. SetBy(L, n + 1) = SetBy(L, n) \cup {L[n + 1].name}
    BY <2>1, SetByNext, Zenon
  <2> QED  BY <2>1, <2>2, Zenon
<1>6. ASSUME NEW k, k # e.name, Excused(c, k) PROVE Excused(c, k)'
  <2>1. k \in NamesIn(DefaultEnv) /\ k \in overwritten /\ (c \in mixed \/ k \notin SetBy(L, n) \/ k \in NamesIn(calls[c]))
    BY <1>6 DEF Excused, L, n
  <2>2. c \in mixed' \/ k \notin SetBy(L, n + 1) \/ k \in NamesIn(calls'[c])
    BY <1>1, <1>5, <1>6, <2>1, Zenon
  <2> QED  BY <1>2, <1>3, <2>1, <2>2 DEF Excused
<1>7. /\ NamesIn(env) = NamesIn(DefaultEnv) \cup SetBy(L, n)
      /\ \A i, j \in 1 .. Len(env) : env[i].name = env[j].name => i = j
      /\ \A i \in 1 .. Len(env) : ValueBy(L, n, env[i].name, env[i].value) \/ Excused(c, env[i].name)
  BY DEF MadeSoFar, L, n
<1>8. ASSUME NamesIn(new) = NamesIn(env) \cup {e.name},
             \A i, j \in 1 .. Len(new) : new[i].name = new[j].name => i = j,
             \A i \in 1 .. Len(new) :
               new[i] = e \/ \E j \in 1 .. Len(env) : new[i] = env[j] /\ env[j].name # e.name
      PROVE  MadeSoFar(c, new)'
  <2>1. NamesIn(new) = NamesIn(DefaultEnv) \cup SetBy(L, n + 1)
    BY <1>5, <1>7, <1>8
  <2>2. ASSUME NEW i \in 1 .. Len(new)
        PROVE  ValueBy(L, n + 1, new[i].name, new[i].value) \/ Excused(c, new[i].name)'
    <3>1. CASE new[i] = e
      BY <1>1, <3>1, ValueByNext, Zenon
    <3>2. ASSUME NEW j \in 1 .. Len(env), new[i] = env[j], env[j].name # e.name
          PROVE  ValueBy(L, n + 1, new[i].name, new[i].value) \/ Excused(c, new[i].name)'
      <4>1. CASE ValueBy(L, n, env[j].name, env[j].value)
        BY <1>1, <3>2, <4>1, ValueByNext, Zenon
      <4>2. CASE Excused(c, env[j].name)
        BY <1>6, <3>2, <4>2
      <4> QED  BY <1>7, <3>2, <4>1, <4>2
    <3> QED  BY <1>8, <3>1, <3>2
  <2> QED  BY <1>2, <1>3, <1>8, <2>1, <2>2 DEF MadeSoFar
<1>9. CASE e.name \in NamesIn(env) /\ new = Replace(env, e)
  <2>1. /\ new \in Seq(EnvStrings) /\ Len(new) = Len(env) /\ NamesIn(new) = NamesIn(env)
        /\ \A i \in 1 .. Len(env) : /\ new[i] = IF env[i].name = e.name THEN e ELSE env[i]
                                    /\ new[i].name = env[i].name
    BY <1>1, <1>9, Replaced, Zenon
  <2>2. NamesIn(new) = NamesIn(env) \cup {e.name}
    BY <1>9, <2>1
  <2>3. \A i, j \in 1 .. Len(new) : new[i].name = new[j].name => i = j
    BY <1>7, <2>1
  <2>4. \A i \in 1 .. Len(new) : new[i] = e \/ \E j \in 1 .. Len(env) : new[i] = env[j] /\ env[j].name # e.name
    BY <2>1
  <2> QED  BY <1>4, <1>8, <2>1, <2>2, <2>3, <2>4
<1>10. CASE e.name \notin NamesIn(env) /\ new = Append(env, e)
  <2>1. /\ new \in Seq(EnvStrings) /\ Len(new) = Len(env) + 1 /\ NamesIn(new) = NamesIn(env) \cup {e.name}
        /\ \A i \in 1 .. Len(env) : new[i] = env[i]
        /\ new[Len(env) + 1] = e
    BY <1>1, <1>10, Appended, Zenon
  <2>2. Len(env) \in Nat /\ NamesIn(env) = {env[i].name : i \in 1 .. Len(env)}
    BY NamesOfSeq
  <2>3. \A i \in 1 .. Len(env) : env[i].name # e.name
    BY <1>10, <2>2
  <2>4. \A i \in 1 .. Len(new) : i \in 1 .. Len(env) \/ i = Len(env) + 1
    BY <2>1, <2>2
  <2>5. \A i, j \in 1 .. Len(new) : new[i].name = new[j].name => i = j
    BY <1>7, <2>1, <2>3, <2>4
  <2>6. \A i \in 1 .. Len(new) : new[i] = e \/ \E j \in 1 .. Len(env) : new[i] = env[j] /\ env[j].name # e.name
    BY <2>1, <2>3, <2>4
  <2> QED  BY <1>4, <1>8, <2>1, <2>5, <2>6
<1> QED  BY <1>9, <1>10

(* A variable that another handler replaces in the shared array is excused,   *)
(* and the others are as they were.                                           *)
LEMMA SharerOvertaken ==
  ASSUME NEW c \in Builds, NEW d \in Builds \ {c}, EnvTypes, EnvSound(d),
         stage[d] = "env", envSlice[d].shared, NEW e \in EnvStrings,
         e.name \in NamesIn(defaultEnv), NamesIn(defaultEnv) = NamesIn(DefaultEnv),
         stage'[d] = stage[d], asked'[d] = asked[d], calls'[d] = calls[d], envSlice'[d] = envSlice[d],
         defaultEnv' = Replace(defaultEnv, e),
         overwritten' = overwritten \cup {e.name}, mixed' = mixed \cup Overtaken(c, e)
  PROVE  EnvSound(d)'
<1>1. CallsLeft(d) /\ MadeSoFar(d, defaultEnv)
  BY DEF EnvSound, EnvOf
<1>2. CallsLeft(d)'
  BY <1>1, Zenon DEF CallsLeft, AllCalls, Made
<1>3. PICK env \in Seq(EnvStrings) : env = defaultEnv
  BY DEF EnvTypes
<1>4. PICK new : new = Replace(env, e)
  OBVIOUS
<1>5. /\ Len(new) = Len(env) /\ NamesIn(new) = NamesIn(env)
      /\ \A i \in 1 .. Len(env) : /\ new[i] = IF env[i].name = e.name THEN e ELSE env[i]
                                  /\ new[i].name = env[i].name
  <2>1. /\ Len(Replace(env, e)) = Len(env) /\ NamesIn(Replace(env, e)) = NamesIn(env)
        /\ \A i \in 1 .. Len(env) : /\ Replace(env, e)[i] = IF env[i].name = e.name THEN e ELSE env[i]
                                    /\ Replace(env, e)[i].name = env[i].name
    <3> HIDE DEF Replace
    <3> QED  BY Replaced
  <2> QED  BY <1>4, <2>1
<1>6. MadeSoFar(d, env)'
  BY <1>1, <1>3, EnvFrame
<1>7. MadeSoFar(d, new)'
  <2>1. CASE new = env
    BY <1>6, <2>1
  <2>2. CASE new # env
    <3>1. Excused(d, e.name)'
      <4>1. e.name \in NamesIn(DefaultEnv) /\ e.name \in overwritten'
        BY <1>3
      <4>2. d \in mixed' \/ e.name \in NamesIn(calls'[d])
        BY <1>3, <1>4, <2>2 DEF Overtaken
      <4> QED  BY <4>1, <4>2 DEF Excused
    <3>2. /\ NamesIn(env) = NamesIn(DefaultEnv) \cup SetBy(AllCalls(d)', Made(d)')
          /\ \A i, j \in 1 .. Len(env) : env[i].name = env[j].name => i = j
          /\ \A i \in 1 .. Len(env) :
               ValueBy(AllCalls(d)', Made(d)', env[i].name, env[i].value) \/ Excused(d, env[i].name)'
      BY <1>6 DEF MadeSoFar
    <3>3. \A i, j \in 1 .. Len(new) : new[i].name = new[j].name => i = j
      BY <1>5, <3>2
    <3>4. ASSUME NEW i \in 1 .. Len(new)
          PROVE  ValueBy(AllCalls(d)', Made(d)', new[i].name, new[i].value) \/ Excused(d, new[i].name)'
      <4>1. CASE env[i].name = e.name
        <5>1. new[i].name = e.name
          BY <1>5, <4>1
        <5> QED  BY <3>1, <5>1, Zenon
      <4>2. CASE env[i].name # e.name
        <5>1. i \in 1 .. Len(env) /\ new[i] = env[i]
          BY <1>5, <4>2
        <5> QED  BY <3>2, <5>1, Zenon
      <4> QED  BY <4>1, <4>2
    <3> QED  BY <1>5, <3>2, <3>3, <3>4 DEF MadeSoFar
  <2> QED  BY <2>1, <2>2
<1>8. EnvOf(d)' = new
  BY <1>3, <1>4 DEF EnvOf
<1> QED  BY <1>2, <1>7, <1>8 DEF EnvSound

(* Each name of the shared array is where it was. *)
LEMMA SharedNames ==
  ASSUME EnvTypes, SharedArray
  PROVE  NamesIn(defaultEnv) = NamesIn(DefaultEnv)
<1>1. /\ NamesIn(defaultEnv) = {defaultEnv[i].name : i \in 1 .. Len(defaultEnv)}
      /\ NamesIn(DefaultEnv) = {DefaultEnv[i].name : i \in 1 .. Len(DefaultEnv)}
  BY NamesOfSeq, EnvStringsAssumption DEF EnvTypes
<1> QED  BY <1>1 DEF SharedArray

LEMMA SharedReplaced ==
  ASSUME EnvTypes, SharedArray, NEW e \in EnvStrings, defaultEnv' = Replace(defaultEnv, e),
         overwritten' = overwritten \cup {e.name}
  PROVE  SharedArray'
<1>1. /\ Len(defaultEnv') = Len(defaultEnv)
      /\ \A i \in 1 .. Len(defaultEnv) : /\ defaultEnv'[i] = IF defaultEnv[i].name = e.name THEN e ELSE defaultEnv[i]
                                         /\ defaultEnv'[i].name = defaultEnv[i].name
  BY Replaced, Zenon DEF EnvTypes
<1> QED  BY <1>1 DEF SharedArray

LEMMA EnvOfType ==
  ASSUME EnvTypes, NEW c \in Builds
  PROVE  EnvOf(c) \in Seq(EnvStrings)
  BY DEF EnvTypes, EnvSlices, EnvOf

(* The effect of a call on the handler that makes it. *)
LEMMA OwnCall ==
  ASSUME EnvTypes, NEW c \in Builds, EnvSound(c), stage[c] = "env", calls[c] # <<>>, stage'[c] = stage[c],
         asked'[c] = asked[c], calls'[c] = Tail(calls[c]),
         overwritten \subseteq overwritten', c \in mixed => c \in mixed',
         \/ Head(calls[c]).name \in NamesIn(EnvOf(c)) /\ EnvOf(c)' = Replace(EnvOf(c), Head(calls[c]))
         \/ Head(calls[c]).name \notin NamesIn(EnvOf(c)) /\ EnvOf(c)' = Append(EnvOf(c), Head(calls[c]))
  PROVE  EnvSound(c)' /\ EnvOf(c)' \in Seq(EnvStrings)
<1>1. PICK env \in Seq(EnvStrings) : env = EnvOf(c)
  BY EnvOfType
<1>2. PICK e : e = Head(calls[c])
  OBVIOUS
<1>3. PICK new : new = EnvOf(c)'
  OBVIOUS
<1>4. CallsLeft(c) /\ MadeSoFar(c, env)
  BY <1>1 DEF EnvSound
<1>5. \/ e.name \in NamesIn(env) /\ new = Replace(env, e)
      \/ e.name \notin NamesIn(env) /\ new = Append(env, e)
  BY <1>1, <1>2, <1>3, Zenon
<1>6. CallsLeft(c)' /\ new \in Seq(EnvStrings) /\ MadeSoFar(c, new)'
  BY <1>2, <1>4, <1>5, CallMakes
<1> QED  BY <1>3, <1>6 DEF EnvSound

-----------------------------------------------------------------------------
LEMMA SliceTypes ==
  ASSUME NEW env \in Seq(EnvStrings)
  PROVE  /\ OwnEnv(env) \in EnvSlices /\ SharedEnv \in EnvSlices /\ NothingAsked \in EnvRequests
         /\ SharedEnv.shared /\ ~OwnEnv(env).shared /\ OwnEnv(env).own = env
<1>1. <<>> \in Seq(EnvStrings)
  OBVIOUS
<1>2. OwnEnv(env) \in EnvSlices /\ SharedEnv \in EnvSlices
  BY <1>1, Zenon DEF OwnEnv, SharedEnv, EnvSlices
<1>3. NothingAsked \in EnvRequests
  BY <1>1, Zenon DEF NothingAsked, EnvRequests
<1>4. SharedEnv.shared /\ ~OwnEnv(env).shared /\ OwnEnv(env).own = env
  BY Zenon DEF OwnEnv, SharedEnv
<1> QED  BY <1>2, <1>3, <1>4

LEMMA InitialEnv == EnvInit => EnvInv
<1> SUFFICES ASSUME EnvInit PROVE EnvInv
  OBVIOUS
<1>1. SharedEnv \in EnvSlices /\ NothingAsked \in EnvRequests /\ <<>> \in Seq(EnvStrings)
  <2>1. <<>> \in Seq(EnvStrings)
    OBVIOUS
  <2> QED  BY <2>1, SliceTypes, Zenon
<1>2. EnvTypes
  BY <1>1, EnvStringsAssumption DEF EnvInit, EnvTypes
<1>3. SharedArray
  BY DEF EnvInit, SharedArray
<1>4. \A c \in Builds : EnvSound(c)
  BY DEF EnvInit, EnvSound
<1> QED  BY <1>2, <1>3, <1>4 DEF EnvInv

LEMMA BeginsSound ==
  ASSUME EnvInv, NEW c \in Builds, NEW r \in EnvRequests, Begins(c, r)
  PROVE  EnvInv'
<1>1. EnvCalls(r) \in Seq(EnvStrings) /\ SharedEnv \in EnvSlices /\ SharedEnv.shared /\ <<>> \in Seq(EnvStrings)
  BY EnvCallsType, SliceTypes
<1>2. /\ EnvTypes'
      /\ stage'[c] = "env" /\ asked'[c] = r /\ calls'[c] = EnvCalls(r) /\ envSlice'[c] = SharedEnv
      /\ \A d \in Builds \ {c} : /\ stage'[d] = stage[d] /\ asked'[d] = asked[d] /\ calls'[d] = calls[d]
                                 /\ envSlice'[d] = envSlice[d] /\ rawEnv'[d] = rawEnv[d]
  <2>1. rawEnv' = [rawEnv EXCEPT ![c] = rawEnv[c]] /\ rawEnv[c] \in Seq(EnvStrings)
    BY DEF Begins, EnvInv, EnvTypes
  <2>2. defaultEnv' \in Seq(EnvStrings)
    BY DEF Begins, EnvInv, EnvTypes
  <2> QED  BY <1>1, <2>1, <2>2 DEF Begins, EnvInv, EnvTypes
<1>3. defaultEnv' = defaultEnv /\ overwritten' = overwritten /\ mixed' = mixed
  BY DEF Begins
<1>4. SharedArray'
  BY <1>3 DEF EnvInv, SharedArray
<1>5. \A d \in Builds \ {c} : EnvSound(d)'
  BY <1>2, <1>3, OthersKept DEF EnvInv
<1>6. EnvSound(c)'
  <2>1. AllCalls(c)' = EnvCalls(r) /\ Len(EnvCalls(r)) \in Nat
    BY <1>1, <1>2, LenProperties DEF AllCalls
  <2>2. Made(c)' = 0
    BY <1>2, <2>1 DEF Made
  <2>3. CallsLeft(c)'
    BY <1>2, <2>1, <2>2 DEF CallsLeft
  <2>4. SetBy(EnvCalls(r), 0) = {}
    BY DEF SetBy
  <2>5. EnvOf(c)' = defaultEnv
    BY <1>1, <1>2, <1>3 DEF EnvOf
  <2>6. PICK env \in Seq(EnvStrings) : env = defaultEnv
    BY DEF EnvInv, EnvTypes
  <2>7. NamesIn(env) = NamesIn(DefaultEnv) /\ env[1] = env[1]
    BY <2>6, SharedNames DEF EnvInv
  <2>8. /\ Len(env) = Len(DefaultEnv)
        /\ \A i \in 1 .. Len(env) : /\ env[i].name = DefaultEnv[i].name
                                    /\ env[i].value = DefaultEnv[i].value \/ env[i].name \in overwritten
    BY <2>6 DEF EnvInv, SharedArray
  <2>9. /\ NamesIn(env) = {env[i].name : i \in 1 .. Len(env)}
        /\ \A i, j \in 1 .. Len(DefaultEnv) : DefaultEnv[i].name = DefaultEnv[j].name => i = j
    BY NamesOfSeq, EnvStringsAssumption
  <2>10. ASSUME NEW i \in 1 .. Len(env)
         PROVE  ValueBy(EnvCalls(r), 0, env[i].name, env[i].value) \/ Excused(c, env[i].name)'
    <3>1. CASE env[i].value = DefaultEnv[i].value
      BY <2>4, <2>8, <3>1 DEF ValueBy
    <3>2. CASE env[i].name \in overwritten
      <4>1. env[i].name \in NamesIn(DefaultEnv)
        BY <2>7, <2>9
      <4> QED  BY <1>3, <2>1, <2>2, <2>4, <3>2, <4>1 DEF Excused
    <3> QED  BY <2>8, <3>1, <3>2
  <2>11. MadeSoFar(c, env)'
    <3>1. \A i, j \in 1 .. Len(env) : env[i].name = env[j].name => i = j
      BY <2>8, <2>9
    <3> QED  BY <2>1, <2>2, <2>4, <2>7, <2>10, <3>1 DEF MadeSoFar
  <2> QED  BY <1>2, <2>3, <2>5, <2>6, <2>11 DEF EnvSound
<1> QED  BY <1>2, <1>4, <1>5, <1>6 DEF EnvInv

LEMMA EndsSound ==
  ASSUME EnvInv, NEW c \in Builds, Ends(c)
  PROVE  EnvInv'
<1>1. SharedEnv \in EnvSlices /\ NothingAsked \in EnvRequests /\ <<>> \in Seq(EnvStrings)
  <2>1. <<>> \in Seq(EnvStrings)
    OBVIOUS
  <2> QED  BY <2>1, SliceTypes, Zenon
<1>2. /\ EnvTypes' /\ stage'[c] = "idle"
      /\ \A d \in Builds \ {c} : /\ stage'[d] = stage[d] /\ asked'[d] = asked[d] /\ calls'[d] = calls[d]
                                 /\ envSlice'[d] = envSlice[d] /\ rawEnv'[d] = rawEnv[d]
  <2>1. defaultEnv' \in Seq(EnvStrings)
    BY DEF Ends, EnvInv, EnvTypes
  <2> QED  BY <1>1, <2>1 DEF Ends, EnvInv, EnvTypes
<1>3. defaultEnv' = defaultEnv /\ overwritten' = overwritten /\ mixed' = mixed \ {c}
  BY DEF Ends
<1>4. SharedArray'
  BY <1>3 DEF EnvInv, SharedArray
<1>5. \A d \in Builds \ {c} : EnvSound(d)'
  BY <1>2, <1>3, OthersKept DEF EnvInv
<1>6. EnvSound(c)'
  BY <1>2 DEF EnvSound
<1> QED  BY <1>2, <1>4, <1>5, <1>6 DEF EnvInv

LEMMA MarshalSound ==
  ASSUME EnvInv, NEW c \in Builds, MarshalEnv(c)
  PROVE  EnvInv'
<1>1. SharedEnv \in EnvSlices /\ EnvOf(c) \in Seq(EnvStrings) /\ <<>> \in Seq(EnvStrings)
  BY SliceTypes, EnvOfType DEF EnvInv
<1>2. /\ EnvTypes' /\ stage'[c] = "create" /\ asked'[c] = asked[c] /\ calls'[c] = calls[c] /\ rawEnv'[c] = EnvOf(c)
      /\ \A d \in Builds \ {c} : /\ stage'[d] = stage[d] /\ asked'[d] = asked[d] /\ calls'[d] = calls[d]
                                 /\ envSlice'[d] = envSlice[d] /\ rawEnv'[d] = rawEnv[d]
  <2>1. /\ asked' = [asked EXCEPT ![c] = asked[c]] /\ asked[c] \in EnvRequests
        /\ calls' = [calls EXCEPT ![c] = calls[c]] /\ calls[c] \in Seq(EnvStrings)
    BY DEF MarshalEnv, EnvInv, EnvTypes
  <2>2. defaultEnv' \in Seq(EnvStrings)
    BY DEF MarshalEnv, EnvInv, EnvTypes
  <2> QED  BY <1>1, <2>1, <2>2 DEF MarshalEnv, EnvInv, EnvTypes
<1>3. defaultEnv' = defaultEnv /\ overwritten' = overwritten /\ mixed' = mixed
  BY DEF MarshalEnv
<1>4. SharedArray'
  BY <1>3 DEF EnvInv, SharedArray
<1>5. \A d \in Builds \ {c} : EnvSound(d)'
  BY <1>2, <1>3, OthersKept DEF EnvInv
<1>6. EnvSound(c)'
  <2>1. PICK env : env = EnvOf(c)
    OBVIOUS
  <2>2. MadeSoFar(c, env) /\ calls[c] = <<>>
    BY <2>1 DEF EnvInv, EnvSound, MarshalEnv
  <2>3. MadeSoFar(c, env)'
    BY <1>2, <1>3, <2>2, EnvFrame
  <2> QED  BY <1>2, <2>1, <2>2, <2>3 DEF EnvSound
<1> QED  BY <1>2, <1>4, <1>5, <1>6 DEF EnvInv

LEMMA AddProcessEnvSound ==
  ASSUME EnvInv, NEW c \in Builds, AddProcessEnv(c)
  PROVE  EnvInv'
<1> DEFINE e == Head(calls[c])
<1>1. /\ EnvTypes /\ SharedArray /\ EnvSound(c) /\ CallsLeft(c) /\ stage[c] = "env" /\ calls[c] # <<>>
      /\ calls' = [calls EXCEPT ![c] = Tail(calls[c])] /\ stage' = stage /\ asked' = asked /\ rawEnv' = rawEnv
  BY DEF EnvInv, EnvSound, AddProcessEnv
<1>2. e \in EnvStrings /\ Tail(calls[c]) \in Seq(EnvStrings) /\ EnvOf(c) \in Seq(EnvStrings)
  BY <1>1, NextCall, EnvOfType
<1>3. /\ stage' = [stage EXCEPT ![c] = stage[c]] /\ stage[c] \in {"idle", "env", "create"}
      /\ asked' = [asked EXCEPT ![c] = asked[c]] /\ asked[c] \in EnvRequests
      /\ rawEnv' = [rawEnv EXCEPT ![c] = rawEnv[c]] /\ rawEnv[c] \in Seq(EnvStrings)
  BY <1>1 DEF EnvTypes
<1> HIDE DEF e
<1>4. ASSUME NEW own \in Seq(EnvStrings), envSlice' = [envSlice EXCEPT ![c] = OwnEnv(own)],
             \/ e.name \in NamesIn(EnvOf(c)) /\ own = Replace(EnvOf(c), e)
             \/ e.name \notin NamesIn(EnvOf(c)) /\ own = Append(EnvOf(c), e),
             defaultEnv' = defaultEnv, overwritten' = overwritten, mixed' = mixed
      PROVE  EnvInv'
  <2>1. OwnEnv(own) \in EnvSlices /\ ~OwnEnv(own).shared /\ OwnEnv(own).own = own
    BY SliceTypes
  <2>2. defaultEnv' \in Seq(EnvStrings)
    BY <1>1, <1>4 DEF EnvTypes
  <2>3. /\ EnvTypes' /\ stage'[c] = stage[c] /\ asked'[c] = asked[c] /\ calls'[c] = Tail(calls[c])
        /\ envSlice'[c] = OwnEnv(own)
        /\ \A d \in Builds \ {c} : /\ stage'[d] = stage[d] /\ asked'[d] = asked[d] /\ calls'[d] = calls[d]
                                   /\ envSlice'[d] = envSlice[d] /\ rawEnv'[d] = rawEnv[d]
    BY <1>1, <1>2, <1>3, <1>4, <2>1, <2>2 DEF EnvTypes
  <2>4. SharedArray'
    BY <1>1, <1>4 DEF SharedArray
  <2>5. \A d \in Builds \ {c} : EnvSound(d)'
    BY <1>4, <2>3, OthersKept DEF EnvInv
  <2>6. EnvOf(c)' = own
    BY <2>1, <2>3 DEF EnvOf
  <2>7. \/ e.name \in NamesIn(EnvOf(c)) /\ EnvOf(c)' = Replace(EnvOf(c), e)
        \/ e.name \notin NamesIn(EnvOf(c)) /\ EnvOf(c)' = Append(EnvOf(c), e)
    BY <1>4, <2>6, Zenon
  <2>8. EnvSound(c)'
    BY <1>1, <1>4, <2>3, <2>7, OwnCall DEF e
  <2> QED  BY <2>3, <2>4, <2>5, <2>8 DEF EnvInv
<1>5. CASE /\ e.name \in NamesIn(EnvOf(c)) /\ envSlice[c].shared
           /\ defaultEnv' = Replace(defaultEnv, e)
           /\ overwritten' = overwritten \cup {e.name}
           /\ mixed' = mixed \cup Overtaken(c, e)
           /\ envSlice' = envSlice
  <2>1. EnvOf(c) = defaultEnv /\ EnvOf(c)' = Replace(EnvOf(c), e)
    BY <1>5 DEF EnvOf
  <2>2. envSlice' = [envSlice EXCEPT ![c] = envSlice[c]] /\ envSlice[c] \in EnvSlices
    BY <1>1, <1>5 DEF EnvTypes
  <2>3. calls'[c] = Tail(calls[c])
    BY <1>1 DEF EnvTypes
  <2>4. EnvSound(c)' /\ defaultEnv' \in Seq(EnvStrings)
    BY <1>1, <1>5, <2>1, <2>3, OwnCall DEF e
  <2>5. /\ EnvTypes'
        /\ \A d \in Builds \ {c} : /\ stage'[d] = stage[d] /\ asked'[d] = asked[d] /\ calls'[d] = calls[d]
                                   /\ envSlice'[d] = envSlice[d] /\ rawEnv'[d] = rawEnv[d]
    BY <1>1, <1>2, <1>3, <2>2, <2>4 DEF EnvTypes
  <2>6. SharedArray'
    BY <1>1, <1>2, <1>5, SharedReplaced
  <2>7. ASSUME NEW d \in Builds \ {c} PROVE EnvSound(d)'
    <3>1. EnvSound(d)
      BY DEF EnvInv
    <3>2. CASE stage[d] = "env" /\ envSlice[d].shared
      <4>1. e.name \in NamesIn(defaultEnv) /\ NamesIn(defaultEnv) = NamesIn(DefaultEnv)
        BY <1>1, <1>5, <2>1, SharedNames
      <4> QED  BY <1>1, <1>2, <1>5, <2>5, <3>1, <3>2, <4>1, SharerOvertaken
    <3>3. CASE ~(stage[d] = "env" /\ envSlice[d].shared)
      BY <1>5, <2>5, <3>1, <3>3, OthersKept
    <3> QED  BY <3>2, <3>3
  <2> QED  BY <2>4, <2>5, <2>6, <2>7 DEF EnvInv
<1>6. CASE /\ e.name \in NamesIn(EnvOf(c)) /\ ~envSlice[c].shared
           /\ envSlice' = [envSlice EXCEPT ![c] = OwnEnv(Replace(envSlice[c].own, e))]
           /\ UNCHANGED <<defaultEnv, overwritten, mixed>>
  <2>1. envSlice[c].own = EnvOf(c)
    BY <1>6 DEF EnvOf
  <2>2. Replace(EnvOf(c), e) \in Seq(EnvStrings)
    BY <1>2, Replaced
  <2> QED  BY <1>4, <1>6, <2>1, <2>2, Zenon
<1>7. CASE /\ e.name \notin NamesIn(EnvOf(c))
           /\ envSlice' = [envSlice EXCEPT ![c] = OwnEnv(Append(EnvOf(c), e))]
           /\ UNCHANGED <<defaultEnv, overwritten, mixed>>
  <2>1. Append(EnvOf(c), e) \in Seq(EnvStrings)
    BY <1>2, Appended
  <2> QED  BY <1>4, <1>7, <2>1, Zenon
<1> QED  BY <1>5, <1>6, <1>7 DEF AddProcessEnv, e

LEMMA EnvKept == EnvInv /\ [EnvNext]_envVars => EnvInv'
<1> SUFFICES ASSUME EnvInv, [EnvNext]_envVars PROVE EnvInv'
  OBVIOUS
<1>1. CASE UNCHANGED envVars
  <2>1. UNCHANGED <<stage, asked, calls, envSlice, rawEnv, defaultEnv, overwritten, mixed>>
    BY <1>1 DEF envVars
  <2>2. EnvTypes' /\ SharedArray'
    BY <2>1 DEF EnvInv, EnvTypes, SharedArray
  <2>3. \A d \in Builds : EnvSound(d)'
    BY <2>1, OthersKept DEF EnvInv
  <2> QED  BY <2>2, <2>3 DEF EnvInv
<1>2. ASSUME NEW c \in Builds, GenerateContainerEnv(c) PROVE EnvInv'
  <2>1. PICK image \in ImageEnvs, config \in ConfigEnvs, tty \in BOOLEAN :
          Begins(c, [image |-> image, config |-> config, tty |-> tty])
    BY <1>2 DEF GenerateContainerEnv
  <2>2. [image |-> image, config |-> config, tty |-> tty] \in EnvRequests
    BY EnvStringsAssumption DEF EnvRequests
  <2> QED  BY <2>1, <2>2, BeginsSound
<1>3. ASSUME NEW c \in Builds, GenerateSandboxEnv(c) PROVE EnvInv'
  <2>1. PICK image \in ImageEnvs : Begins(c, [NothingAsked EXCEPT !.image = image])
    BY <1>3 DEF GenerateSandboxEnv
  <2>2. image \in Seq(EnvStrings)
    BY EnvStringsAssumption
  <2>3. NothingAsked \in EnvRequests
    BY SliceTypes, <2>2
  <2>4. [NothingAsked EXCEPT !.image = image] \in EnvRequests
    BY <2>2, <2>3, Zenon DEF EnvRequests
  <2> QED  BY <2>1, <2>4, BeginsSound
<1>4. ASSUME NEW c \in Builds, InvalidImageEnv(c) \/ CreateWithEnv(c) PROVE EnvInv'
  BY <1>4, EndsSound DEF InvalidImageEnv, CreateWithEnv
<1> QED  BY <1>1, <1>2, <1>3, <1>4, AddProcessEnvSound, MarshalSound DEF EnvNext

-----------------------------------------------------------------------------
(* The last value of a name, in a list and in two lists one after the other. *)

LEMMA LastValueIs ==
  ASSUME NEW s \in Seq(EnvStrings), NEW k, NEW m \in 1 .. Len(s), s[m].name = k,
         \A j \in 1 .. Len(s) : s[j].name = k => j <= m
  PROVE  LastValue(s, k) = s[m].value
<1>1. DOMAIN s = 1 .. Len(s) /\ Len(s) \in Nat
  BY LenProperties
<1> DEFINE x == CHOOSE i \in DOMAIN s : s[i].name = k /\ \A j \in DOMAIN s : s[j].name = k => j <= i
<1>2. x \in DOMAIN s /\ s[x].name = k /\ \A j \in DOMAIN s : s[j].name = k => j <= x
  BY <1>1, Zenon
<1> HIDE DEF x
<1>3. x = m
  BY <1>1, <1>2
<1> QED  BY <1>3 DEF LastValue, x

LEMMA LastExists ==
  ASSUME NEW s \in Seq(EnvStrings), NEW k \in NamesIn(s)
  PROVE  \E m \in 1 .. Len(s) : s[m].name = k /\ \A j \in 1 .. Len(s) : s[j].name = k => j <= m
<1> DEFINE n == Len(s)
           T == {i \in 1 .. n : s[i].name = k}
<1>1. n \in Nat /\ T \in SUBSET (1 .. n) /\ T # {}
  BY NamesOfSeq
<1> HIDE DEF n
<1>2. PICK m \in T : \A j \in T : j <= m
  <2> HIDE DEF T
  <2> QED  BY <1>1, GreatestIndex, Zenon
<1> QED  BY <1>2 DEF n

LEMMA ConcatIs ==
  ASSUME NEW s \in Seq(EnvStrings), NEW t \in Seq(EnvStrings)
  PROVE  /\ s \o t \in Seq(EnvStrings) /\ Len(s \o t) = Len(s) + Len(t) /\ Len(s) \in Nat /\ Len(t) \in Nat
         /\ \A i \in 1 .. Len(s) : (s \o t)[i] = s[i]
         /\ \A i \in 1 .. Len(t) : (s \o t)[Len(s) + i] = t[i]
         /\ NamesIn(s \o t) = NamesIn(s) \cup NamesIn(t)
<1> DEFINE u == s \o t
<1>1. /\ u \in Seq(EnvStrings) /\ Len(u) = Len(s) + Len(t)
      /\ \A i \in 1 .. Len(s) + Len(t) : u[i] = IF i <= Len(s) THEN s[i] ELSE t[i - Len(s)]
  BY ConcatProperties
<1>2. Len(s) \in Nat /\ Len(t) \in Nat
  BY LenProperties
<1> HIDE DEF u
<1>3. \A i \in 1 .. Len(s) : i \in 1 .. Len(s) + Len(t) /\ u[i] = s[i]
  BY <1>1, <1>2
<1>4. ASSUME NEW i \in 1 .. Len(t)
      PROVE  Len(s) + i \in 1 .. Len(s) + Len(t) /\ u[Len(s) + i] = t[i]
  <2>1. Len(s) + i \in 1 .. Len(s) + Len(t) /\ ~(Len(s) + i <= Len(s)) /\ (Len(s) + i) - Len(s) = i
    BY <1>2
  <2>2. u[Len(s) + i] = t[(Len(s) + i) - Len(s)]
    BY <1>1, <2>1
  <2> QED  BY <2>1, <2>2
<1>5. \A i \in 1 .. Len(s) + Len(t) :
        \/ i \in 1 .. Len(s)
        \/ i - Len(s) \in 1 .. Len(t) /\ u[i] = t[i - Len(s)]
  BY <1>1, <1>2
<1>6. /\ NamesIn(u) = {u[i].name : i \in 1 .. Len(s) + Len(t)}
      /\ NamesIn(s) = {s[i].name : i \in 1 .. Len(s)} /\ NamesIn(t) = {t[i].name : i \in 1 .. Len(t)}
  BY <1>1, NamesOfSeq, Zenon
<1>7. NamesIn(u) = NamesIn(s) \cup NamesIn(t)
  <2>1. ASSUME NEW i \in 1 .. Len(s) + Len(t) PROVE u[i].name \in NamesIn(s) \cup NamesIn(t)
    <3>1. CASE i \in 1 .. Len(s)
      BY <1>3, <1>6, <3>1
    <3>2. CASE i - Len(s) \in 1 .. Len(t) /\ u[i] = t[i - Len(s)]
      BY <1>6, <3>2
    <3> QED  BY <1>5, <3>1, <3>2
  <2>2. \A i \in 1 .. Len(s) : s[i].name \in NamesIn(u)
    BY <1>3, <1>6
  <2>3. \A i \in 1 .. Len(t) : t[i].name \in NamesIn(u)
    BY <1>4, <1>6
  <2> QED  BY <1>6, <2>1, <2>2, <2>3, Zenon
<1> QED  BY <1>1, <1>2, <1>3, <1>4, <1>7 DEF u

LEMMA LastOfSecond ==
  ASSUME NEW s \in Seq(EnvStrings), NEW t \in Seq(EnvStrings), NEW k \in NamesIn(t)
  PROVE  LastValue(s \o t, k) = LastValue(t, k)
<1>1. PICK m \in 1 .. Len(t) : t[m].name = k /\ \A j \in 1 .. Len(t) : t[j].name = k => j <= m
  BY LastExists
<1>2. LastValue(t, k) = t[m].value
  BY <1>1, LastValueIs
<1>3. PICK u : u = s \o t
  BY Zenon
<1>4. /\ u \in Seq(EnvStrings) /\ Len(u) = Len(s) + Len(t) /\ Len(s) \in Nat /\ Len(t) \in Nat
      /\ \A i \in 1 .. Len(t) : u[Len(s) + i] = t[i]
  BY <1>3, ConcatIs
<1>5. Len(s) + m \in 1 .. Len(u) /\ u[Len(s) + m] = t[m]
  BY <1>4
<1>6. ASSUME NEW j \in 1 .. Len(u), u[j].name = k PROVE j <= Len(s) + m
  <2>1. CASE j <= Len(s)
    BY <1>4, <2>1
  <2>2. CASE j > Len(s)
    <3>1. PICK i \in 1 .. Len(t) : j = Len(s) + i
      <4>1. j - Len(s) \in 1 .. Len(t) /\ j = Len(s) + (j - Len(s))
        BY <1>4, <2>2
      <4> QED  BY <4>1, Zenon
    <3> QED  BY <1>1, <1>4, <1>6, <3>1
  <2> QED  BY <1>4, <2>1, <2>2
<1>7. LastValue(u, k) = u[Len(s) + m].value
  BY <1>1, <1>4, <1>5, <1>6, LastValueIs, Zenon
<1> QED  BY <1>2, <1>3, <1>5, <1>7

LEMMA LastOfFirst ==
  ASSUME NEW s \in Seq(EnvStrings), NEW t \in Seq(EnvStrings), NEW k \in NamesIn(s), k \notin NamesIn(t)
  PROVE  LastValue(s \o t, k) = LastValue(s, k)
<1>1. PICK m \in 1 .. Len(s) : s[m].name = k /\ \A j \in 1 .. Len(s) : s[j].name = k => j <= m
  BY LastExists
<1>2. LastValue(s, k) = s[m].value
  BY <1>1, LastValueIs
<1>3. PICK u : u = s \o t
  BY Zenon
<1>4. /\ u \in Seq(EnvStrings) /\ Len(u) = Len(s) + Len(t) /\ Len(s) \in Nat /\ Len(t) \in Nat
      /\ \A i \in 1 .. Len(s) : u[i] = s[i]
      /\ \A i \in 1 .. Len(t) : u[Len(s) + i] = t[i]
  BY <1>3, ConcatIs
<1>5. m \in 1 .. Len(u) /\ u[m] = s[m]
  BY <1>4
<1>6. \A i \in 1 .. Len(t) : t[i].name # k
  BY NamesOfSeq
<1>7. ASSUME NEW j \in 1 .. Len(u), u[j].name = k PROVE j <= m
  <2>1. CASE j <= Len(s)
    BY <1>1, <1>4, <1>7, <2>1
  <2>2. CASE j > Len(s)
    <3>1. PICK i \in 1 .. Len(t) : j = Len(s) + i
      <4>1. j - Len(s) \in 1 .. Len(t) /\ j = Len(s) + (j - Len(s))
        BY <1>4, <2>2
      <4> QED  BY <4>1
    <3> QED  BY <1>4, <1>6, <1>7, <3>1
  <2> QED  BY <1>4, <2>1, <2>2
<1>8. LastValue(u, k) = u[m].value
  BY <1>1, <1>4, <1>5, <1>7, LastValueIs, Zenon
<1> QED  BY <1>2, <1>3, <1>5, <1>8

(* The list that takes precedence. *)
LEMMA FirstRanked ==
  ASSUME NEW ranked, NEW k, NEW n \in 1 .. 4, k \in NamesIn(ranked[n]),
         \A m \in 1 .. n - 1 : k \notin NamesIn(ranked[m])
  PROVE  (CHOOSE i \in 1 .. 4 : k \in NamesIn(ranked[i]) /\ \A m \in 1 .. i - 1 : k \notin NamesIn(ranked[m])) = n
<1> HIDE DEF NamesIn
<1> DEFINE x == CHOOSE i \in 1 .. 4 : k \in NamesIn(ranked[i]) /\ \A m \in 1 .. i - 1 : k \notin NamesIn(ranked[m])
<1>1. x \in 1 .. 4 /\ k \in NamesIn(ranked[x]) /\ \A m \in 1 .. x - 1 : k \notin NamesIn(ranked[m])
  OBVIOUS
<1> HIDE DEF x
<1>2. x = n
  <2>1. ~(x < n)
    <3>1. x < n => x \in 1 .. n - 1
      BY <1>1
    <3> QED  BY <1>1, <3>1
  <2>2. ~(n < x)
    <3>1. n < x => n \in 1 .. x - 1
      BY <1>1
    <3> QED  BY <1>1, <3>1
  <2> QED  BY <1>1, <2>1, <2>2
<1> QED  BY <1>2 DEF x

LEMMA SourceIs ==
  ASSUME NEW r, NEW k
  PROVE  /\ k \in NamesIn(r.config) => Source(r, k) = r.config
         /\ k \notin NamesIn(r.config) /\ k \in NamesIn(r.image) => Source(r, k) = r.image
         /\ k \notin NamesIn(r.config) /\ k \notin NamesIn(r.image) /\ k \in NamesIn(Term(r.tty))
              => Source(r, k) = Term(r.tty)
         /\ k \notin NamesIn(r.config) /\ k \notin NamesIn(r.image) /\ k \notin NamesIn(Term(r.tty))
              /\ k \in NamesIn(DefaultEnv) => Source(r, k) = DefaultEnv
<1>1. PICK ranked : ranked = <<r.config, r.image, Term(r.tty), DefaultEnv>>
  BY Zenon
<1>2. ranked[1] = r.config /\ ranked[2] = r.image /\ ranked[3] = Term(r.tty) /\ ranked[4] = DefaultEnv
  BY <1>1
<1> DEFINE x == CHOOSE i \in 1 .. 4 : k \in NamesIn(ranked[i]) /\ \A m \in 1 .. i - 1 : k \notin NamesIn(ranked[m])
<1>3. Source(r, k) = ranked[x]
  BY <1>1 DEF Source
<1>4. \A n \in 1 .. 4 : k \in NamesIn(ranked[n]) /\ (\A m \in 1 .. n - 1 : k \notin NamesIn(ranked[m])) => x = n
  BY FirstRanked
<1> HIDE DEF x
<1>5. k \in NamesIn(ranked[1]) => x = 1
  BY <1>4
<1>6. k \notin NamesIn(ranked[1]) /\ k \in NamesIn(ranked[2]) => x = 2
  <2>1. \A m \in 1 .. 2 - 1 : m = 1
    OBVIOUS
  <2> QED  BY <1>4, <2>1
<1>7. k \notin NamesIn(ranked[1]) /\ k \notin NamesIn(ranked[2]) /\ k \in NamesIn(ranked[3]) => x = 3
  <2>1. \A m \in 1 .. 3 - 1 : m = 1 \/ m = 2
    OBVIOUS
  <2> QED  BY <1>4, <2>1
<1>8. k \notin NamesIn(ranked[1]) /\ k \notin NamesIn(ranked[2]) /\ k \notin NamesIn(ranked[3])
        /\ k \in NamesIn(ranked[4]) => x = 4
  <2>1. \A m \in 1 .. 4 - 1 : m = 1 \/ m = 2 \/ m = 3
    OBVIOUS
  <2> QED  BY <1>4, <2>1
<1> QED  BY <1>2, <1>3, <1>5, <1>6, <1>7, <1>8

(* What the calls have made of a name when all are made is what takes         *)
(* precedence.                                                                *)
LEMMA LastCallWins ==
  ASSUME NEW r \in EnvRequests, NEW k, NEW v, ValueBy(EnvCalls(r), Len(EnvCalls(r)), k, v)
  PROVE  v = LastValue(Source(r, k), k)
<1> DEFINE L == EnvCalls(r)
           T == Term(r.tty)
           I == r.image
           C == r.config
<1>1. /\ T \in Seq(EnvStrings) /\ I \in Seq(EnvStrings) /\ C \in Seq(EnvStrings)
      /\ T \o I \in Seq(EnvStrings) /\ L \in Seq(EnvStrings)
  BY EnvCallsType
<1>2. L = (T \o I) \o C
  BY <1>1 DEF EnvCalls
<1>3. /\ k \in NamesIn(C) => Source(r, k) = C
      /\ k \notin NamesIn(C) /\ k \in NamesIn(I) => Source(r, k) = I
      /\ k \notin NamesIn(C) /\ k \notin NamesIn(I) /\ k \in NamesIn(T) => Source(r, k) = T
      /\ k \notin NamesIn(C) /\ k \notin NamesIn(I) /\ k \notin NamesIn(T) /\ k \in NamesIn(DefaultEnv)
           => Source(r, k) = DefaultEnv
  BY SourceIs
<1>4. SetBy(L, Len(L)) = NamesIn(L)
  BY <1>1, NamesOfSeq DEF SetBy
<1> HIDE DEF L, T, I, C
<1>5. NamesIn(L) = NamesIn(T \o I) \cup NamesIn(C) /\ NamesIn(T \o I) = NamesIn(T) \cup NamesIn(I)
  BY <1>1, <1>2, ConcatIs, Zenon
<1>6. CASE k \in NamesIn(L)
  <2>1. v = LastValue(L, k)
    <3>1. PICK m \in 1 .. Len(L) : L[m].name = k /\ L[m].value = v /\ \A j \in 1 .. Len(L) : L[j].name = k => j <= m
      BY <1>4, <1>6 DEF ValueBy, L
    <3> QED  BY <1>1, <3>1, LastValueIs, Zenon
  <2>2. CASE k \in NamesIn(C)
    <3>1. LastValue((T \o I) \o C, k) = LastValue(C, k)
      BY <1>1, <2>2, LastOfSecond, Zenon
    <3> QED  BY <1>2, <1>3, <2>1, <2>2, <3>1
  <2>3. CASE k \notin NamesIn(C)
    <3>1. k \in NamesIn(T \o I)
      BY <1>5, <1>6, <2>3
    <3>2. LastValue(L, k) = LastValue(T \o I, k)
      BY <1>1, <1>2, <2>3, <3>1, LastOfFirst, Zenon
    <3>3. CASE k \in NamesIn(I)
      BY <1>1, <1>3, <2>1, <2>3, <3>2, <3>3, LastOfSecond
    <3>4. CASE k \notin NamesIn(I)
      <4>1. k \in NamesIn(T)
        BY <1>5, <3>1, <3>4
      <4> QED  BY <1>1, <1>3, <2>1, <2>3, <3>2, <3>4, <4>1, LastOfFirst
    <3> QED  BY <3>3, <3>4
  <2> QED  BY <2>2, <2>3
<1>7. CASE k \notin NamesIn(L)
  <2>1. PICK i \in 1 .. Len(DefaultEnv) : DefaultEnv[i].name = k /\ DefaultEnv[i].value = v
    <3>1. ~\E m \in 1 .. Len(L) : L[m].name = k
      BY <1>4, <1>7 DEF SetBy
    <3> QED  BY <3>1 DEF ValueBy, L
  <2>2. /\ DefaultEnv \in Seq(EnvStrings) /\ DOMAIN DefaultEnv = 1 .. Len(DefaultEnv) /\ Len(DefaultEnv) \in Nat
        /\ NamesIn(DefaultEnv) = {DefaultEnv[j].name : j \in 1 .. Len(DefaultEnv)}
    BY EnvStringsAssumption, NamesOfSeq
  <2>3. \A j \in 1 .. Len(DefaultEnv) : DefaultEnv[j].name = k => j <= i
    BY <2>1, <2>2, EnvStringsAssumption
  <2>4. LastValue(DefaultEnv, k) = v
    BY <2>1, <2>2, <2>3, LastValueIs
  <2>5. Source(r, k) = DefaultEnv
    BY <1>3, <1>5, <1>7, <2>1, <2>2
  <2> QED  BY <2>4, <2>5
<1> QED  BY <1>6, <1>7

LEMMA DistinctNames ==
  ASSUME NEW env \in Seq(EnvStrings), \A i, j \in 1 .. Len(env) : env[i].name = env[j].name => i = j
  PROVE  Len(env) = Cardinality(NamesIn(env))
<1>1. Len(env) \in Nat /\ NamesIn(env) = {env[i].name : i \in 1 .. Len(env)}
  BY NamesOfSeq
<1> DEFINE f == [i \in 1 .. Len(env) |-> env[i].name]
<1>2. f \in [1 .. Len(env) -> NamesIn(env)]
  BY <1>1
<1>3. f \in Bijection(1 .. Len(env), NamesIn(env))
  BY <1>1, <1>2 DEF Bijection, Injection, IsInjective, Surjection
<1>4. ExistsBijection(1 .. Len(env), NamesIn(env))
  BY <1>3, Zenon DEF ExistsBijection
<1> QED  BY <1>1, <1>4, FS_CountingElements

LEMMA EnvInvOnlyByOthers == EnvInv => EnvOnlyByOthers
<1> SUFFICES ASSUME EnvInv, NEW c \in Builds, stage[c] = "create"
             PROVE  /\ NamesIn(rawEnv[c]) = NamesIn(EnvCalls(asked[c])) \cup NamesIn(DefaultEnv)
                    /\ Len(rawEnv[c]) = Cardinality(NamesIn(rawEnv[c]))
                    /\ \A i \in DOMAIN rawEnv[c] :
                         \/ rawEnv[c][i].value = LastValue(Source(asked[c], rawEnv[c][i].name), rawEnv[c][i].name)
                         \/ /\ rawEnv[c][i].name \in NamesIn(DefaultEnv) /\ rawEnv[c][i].name \in overwritten
                            /\ c \in mixed \/ rawEnv[c][i].name \notin NamesIn(EnvCalls(asked[c]))
  BY DEF EnvOnlyByOthers
<1>1. asked[c] \in EnvRequests /\ rawEnv[c] \in Seq(EnvStrings) /\ calls[c] = <<>> /\ MadeSoFar(c, rawEnv[c])
  BY DEF EnvInv, EnvTypes, EnvSound
<1> DEFINE L == EnvCalls(asked[c])
<1>2. L \in Seq(EnvStrings) /\ Len(L) \in Nat /\ NamesIn(L) = {L[i].name : i \in 1 .. Len(L)}
  BY <1>1, EnvCallsType, NamesOfSeq
<1>3. AllCalls(c) = L
  BY DEF AllCalls
<1> HIDE DEF L
<1>4. Made(c) = Len(L)
  BY <1>1, <1>2, <1>3 DEF Made
<1>5. SetBy(L, Len(L)) = NamesIn(L)
  BY <1>2 DEF SetBy
<1>6. NamesIn(rawEnv[c]) = NamesIn(L) \cup NamesIn(DefaultEnv)
  BY <1>1, <1>3, <1>4, <1>5 DEF MadeSoFar
<1>7. Len(rawEnv[c]) = Cardinality(NamesIn(rawEnv[c]))
  <2>1. \A i, j \in 1 .. Len(rawEnv[c]) : rawEnv[c][i].name = rawEnv[c][j].name => i = j
    BY <1>1, Zenon DEF MadeSoFar
  <2> QED  BY <1>1, <2>1, DistinctNames
<1>8. ASSUME NEW i \in DOMAIN rawEnv[c]
      PROVE  \/ rawEnv[c][i].value = LastValue(Source(asked[c], rawEnv[c][i].name), rawEnv[c][i].name)
             \/ /\ rawEnv[c][i].name \in NamesIn(DefaultEnv) /\ rawEnv[c][i].name \in overwritten
                /\ c \in mixed \/ rawEnv[c][i].name \notin NamesIn(L)
  <2>1. i \in 1 .. Len(rawEnv[c])
    BY <1>1, NamesOfSeq
  <2>2. PICK k, v : k = rawEnv[c][i].name /\ v = rawEnv[c][i].value
    OBVIOUS
  <2>3. ValueBy(L, Len(L), k, v) \/ Excused(c, k)
    BY <1>1, <1>3, <1>4, <2>1, <2>2 DEF MadeSoFar
  <2>4. CASE ValueBy(L, Len(L), k, v)
    BY <1>1, <2>2, <2>4, LastCallWins DEF L
  <2>5. CASE Excused(c, k)
    <3>1. NamesIn(calls[c]) = {}
      BY <1>1 DEF NamesIn
    <3> QED  BY <1>3, <1>4, <1>5, <2>2, <2>5, <3>1 DEF Excused
  <2> QED  BY <2>3, <2>4, <2>5, Zenon
<1> QED  BY <1>6, <1>7, <1>8 DEF L

(* A spec has the environment its request, its image and the default call for *)
(* (generateContainerSpec, generateSandboxContainerSpec): whatever specs are  *)
(* generated at the same time in whatever order, only a variable of           *)
(* containerd's shared default environment can have another value, and only   *)
(* one that another request or image gave it.                                 *)
THEOREM EnvironmentsMixOnlyInShared == EnvSpec => []EnvOnlyByOthers
<1>1. EnvSpec => []EnvInv
  BY InitialEnv, EnvKept, PTL DEF EnvSpec
<1> QED  BY <1>1, EnvInvOnlyByOthers, PTL

-----------------------------------------------------------------------------
(* The spec of a container, field by field. *)

SpecKeys == {"namespaces", "mounts", "rootReadonly", "bounding", "ambient", "devices"}

AllNamespaces == {"pid", "ipc", "uts", "mount", "network"}

(* All mounts of a container, before the flags of a privileged one. *)
AllMounts(conf) == DefaultSpec.mounts \o
  <<[type |-> "cgroup", dst |-> "/sys/fs/cgroup", src |-> "cgroup", ro |-> TRUE]>> \o Mounts(conf)

Cleared(conf, m) ==
  IF conf.privileged /\ (m.dst = "/sys" \/ m.type = "cgroup") THEN ClearReadOnly(m) ELSE m

(* What each of the calls of the generator sets, and that it leaves the rest. *)
LEMMA RootSetter ==
  ASSUME NEW spec, DOMAIN spec = SpecKeys, NEW x
  PROVE  LET r == SetRootReadonly(spec, x) IN
         /\ DOMAIN r = SpecKeys /\ r.rootReadonly = x
         /\ r.mounts = spec.mounts /\ r.namespaces = spec.namespaces
         /\ r.bounding = spec.bounding /\ r.ambient = spec.ambient
<1>1. SpecKeys \subseteq DOMAIN spec
  OBVIOUS
<1> QED  BY <1>1, Zenon DEF SetRootReadonly, SpecKeys

LEMMA DeviceSetter ==
  ASSUME NEW spec, DOMAIN spec = SpecKeys, NEW x, NEW y
  PROVE  LET r == AddOCIDevices(spec, x, y) IN
         /\ DOMAIN r = SpecKeys /\ r.rootReadonly = spec.rootReadonly
         /\ r.devices = IF y THEN HostDevices ELSE x
         /\ r.mounts = spec.mounts /\ r.namespaces = spec.namespaces
         /\ r.bounding = spec.bounding /\ r.ambient = spec.ambient
<1>1. SpecKeys \subseteq DOMAIN spec
  OBVIOUS
<1> QED  BY <1>1, Zenon DEF AddOCIDevices, SpecKeys

LEMMA CapabilitySetter ==
  ASSUME NEW spec, DOMAIN spec = SpecKeys, NEW conf
  PROVE  LET r == SetOCICapabilities(spec, conf) IN
         /\ DOMAIN r = SpecKeys /\ r.rootReadonly = spec.rootReadonly /\ r.devices = spec.devices
         /\ r.mounts = spec.mounts /\ r.namespaces = spec.namespaces
         /\ ~conf.privileged =>
              /\ r.bounding = (spec.bounding \cup conf.add) \ conf.drop
              /\ r.ambient = (spec.ambient \cup (conf.add \ spec.bounding)) \ conf.drop
<1>1. SpecKeys \subseteq DOMAIN spec
  OBVIOUS
<1>2. CASE conf.privileged
  BY <1>1, <1>2, Zenon DEF SetOCICapabilities, SpecKeys
<1>3. CASE ~conf.privileged
  <2> DEFINE b == (spec.bounding \cup conf.add) \ conf.drop
             am == (spec.ambient \cup (conf.add \ spec.bounding)) \ conf.drop
  <2>1. SetOCICapabilities(spec, conf) = [spec EXCEPT !.bounding = b, !.ambient = am]
    BY <1>3, Zenon DEF SetOCICapabilities
  <2> HIDE DEF b, am
  <2>2. LET r == [spec EXCEPT !.bounding = b, !.ambient = am] IN
        /\ DOMAIN r = SpecKeys /\ r.rootReadonly = spec.rootReadonly /\ r.devices = spec.devices
        /\ r.mounts = spec.mounts /\ r.namespaces = spec.namespaces
        /\ r.bounding = b /\ r.ambient = am
    BY <1>1, Zenon DEF SpecKeys
  <2> QED  BY <2>1, <2>2, Zenon DEF b, am
<1> QED  BY <1>2, <1>3

LEMMA NamespaceSetter ==
  ASSUME NEW spec, DOMAIN spec = SpecKeys
  PROVE  LET r == SetOCINamespaces(spec) IN
         /\ r.rootReadonly = spec.rootReadonly /\ r.mounts = spec.mounts /\ r.devices = spec.devices
         /\ r.bounding = spec.bounding /\ r.ambient = spec.ambient
         /\ r.namespaces = [ns \in DOMAIN spec.namespaces |->
              IF ns \in {"network", "ipc", "uts", "pid"} THEN "of sandbox" ELSE spec.namespaces[ns]]
<1>1. SpecKeys \subseteq DOMAIN spec
  OBVIOUS
<1> QED  BY <1>1, Zenon DEF SetOCINamespaces, SpecKeys

LEMMA SpecFields ==
  ASSUME NEW conf
  PROVE  LET spec == GenerateContainerSpec(conf) IN
         /\ spec.namespaces = [ns \in AllNamespaces |-> IF ns \in {"network", "ipc", "uts", "pid"} THEN "of sandbox" ELSE "new"]
         /\ spec.mounts = [i \in DOMAIN AllMounts(conf) |-> Cleared(conf, AllMounts(conf)[i])]
         /\ spec.rootReadonly = conf.readonlyRootfs
         /\ ~conf.privileged =>
              /\ spec.devices = conf.devices
              /\ spec.bounding = (DefaultCaps \cup conf.add) \ conf.drop
              /\ spec.ambient = (conf.add \ DefaultCaps) \ conf.drop
<1> DEFINE ms == [i \in DOMAIN AllMounts(conf) |-> Cleared(conf, AllMounts(conf)[i])]
           mounted == AddOCIBindMounts(DefaultSpec, Mounts(conf), conf.privileged)
           rooted  == SetRootReadonly(mounted, conf.readonlyRootfs)
           devs    == AddOCIDevices(rooted, conf.devices, conf.privileged)
           capable == SetOCICapabilities(devs, conf)
<1>1. /\ DOMAIN DefaultSpec = SpecKeys /\ DefaultSpec.rootReadonly = FALSE
      /\ DefaultSpec.bounding = DefaultCaps /\ DefaultSpec.ambient = {}
      /\ DefaultSpec.namespaces = [ns \in AllNamespaces |-> "new"]
  BY DEF DefaultSpec, SpecKeys, AllNamespaces
<1>2. mounted = [DefaultSpec EXCEPT !.mounts = ms]
  BY <1>1, Zenon DEF AddOCIBindMounts, AllMounts, Cleared
<1> HIDE DEF ms
<1>3. /\ DOMAIN mounted = SpecKeys /\ mounted.rootReadonly = FALSE /\ mounted.mounts = ms
      /\ mounted.bounding = DefaultCaps /\ mounted.ambient = {}
      /\ mounted.namespaces = [ns \in AllNamespaces |-> "new"]
  <2>1. {"namespaces", "mounts", "rootReadonly", "bounding", "ambient", "devices"} \subseteq DOMAIN DefaultSpec
    BY <1>1 DEF SpecKeys
  <2>2. /\ DOMAIN [DefaultSpec EXCEPT !.mounts = ms] = DOMAIN DefaultSpec
        /\ [DefaultSpec EXCEPT !.mounts = ms].rootReadonly = DefaultSpec.rootReadonly
        /\ [DefaultSpec EXCEPT !.mounts = ms].mounts = ms
        /\ [DefaultSpec EXCEPT !.mounts = ms].bounding = DefaultSpec.bounding
        /\ [DefaultSpec EXCEPT !.mounts = ms].ambient = DefaultSpec.ambient
        /\ [DefaultSpec EXCEPT !.mounts = ms].namespaces = DefaultSpec.namespaces
    BY <2>1, Zenon
  <2> HIDE DEF mounted
  <2> QED  BY <1>1, <1>2, <2>2, Zenon
<1> HIDE DEF mounted
<1>4. /\ DOMAIN rooted = SpecKeys /\ rooted.rootReadonly = conf.readonlyRootfs /\ rooted.mounts = ms
      /\ rooted.bounding = DefaultCaps /\ rooted.ambient = {} /\ rooted.namespaces = mounted.namespaces
  <2>1. DOMAIN mounted = SpecKeys
    BY <1>3
  <2>2. /\ DOMAIN rooted = SpecKeys /\ rooted.rootReadonly = conf.readonlyRootfs
        /\ rooted.mounts = mounted.mounts /\ rooted.namespaces = mounted.namespaces
        /\ rooted.bounding = mounted.bounding /\ rooted.ambient = mounted.ambient
    BY <2>1, RootSetter, Zenon
  <2> HIDE DEF rooted
  <2> QED  BY <1>3, <2>2
<1> HIDE DEF rooted
<1>5. /\ DOMAIN devs = SpecKeys /\ devs.rootReadonly = conf.readonlyRootfs /\ devs.mounts = ms
      /\ devs.bounding = DefaultCaps /\ devs.ambient = {} /\ devs.namespaces = mounted.namespaces
      /\ devs.devices = IF conf.privileged THEN HostDevices ELSE conf.devices
  <2>1. DOMAIN rooted = SpecKeys
    BY <1>4
  <2>2. /\ DOMAIN devs = SpecKeys /\ devs.rootReadonly = rooted.rootReadonly
        /\ devs.mounts = rooted.mounts /\ devs.namespaces = rooted.namespaces
        /\ devs.bounding = rooted.bounding /\ devs.ambient = rooted.ambient
        /\ devs.devices = IF conf.privileged THEN HostDevices ELSE conf.devices
    BY <2>1, DeviceSetter
  <2> HIDE DEF devs
  <2> QED  BY <1>4, <2>2
<1> HIDE DEF devs
<1>6. /\ DOMAIN capable = SpecKeys /\ capable.rootReadonly = conf.readonlyRootfs /\ capable.mounts = ms
      /\ capable.namespaces = mounted.namespaces /\ capable.devices = devs.devices
      /\ ~conf.privileged =>
           /\ capable.bounding = (devs.bounding \cup conf.add) \ conf.drop
           /\ capable.ambient = (devs.ambient \cup (conf.add \ devs.bounding)) \ conf.drop
  BY <1>5, CapabilitySetter, Zenon
<1> HIDE DEF capable
<1>7. LET r == SetOCINamespaces(capable) IN
      /\ r.rootReadonly = capable.rootReadonly /\ r.mounts = capable.mounts /\ r.devices = capable.devices
      /\ r.bounding = capable.bounding /\ r.ambient = capable.ambient
      /\ r.namespaces = [ns \in DOMAIN capable.namespaces |->
           IF ns \in {"network", "ipc", "uts", "pid"} THEN "of sandbox" ELSE capable.namespaces[ns]]
  BY <1>6, NamespaceSetter, Zenon
<1>8. GenerateContainerSpec(conf) = SetOCINamespaces(capable)
  BY Zenon DEF GenerateContainerSpec, capable, devs, rooted, mounted
<1> DEFINE spec == GenerateContainerSpec(conf)
<1>9. /\ spec.rootReadonly = conf.readonlyRootfs /\ spec.mounts = ms /\ spec.devices = capable.devices
      /\ spec.bounding = capable.bounding /\ spec.ambient = capable.ambient
      /\ spec.namespaces = [ns \in DOMAIN capable.namespaces |->
           IF ns \in {"network", "ipc", "uts", "pid"} THEN "of sandbox" ELSE capable.namespaces[ns]]
  BY <1>6, <1>7, <1>8, Zenon
<1> HIDE DEF spec
<1>10. spec.namespaces = [ns \in AllNamespaces |-> IF ns \in {"network", "ipc", "uts", "pid"} THEN "of sandbox" ELSE "new"]
  <2>1. capable.namespaces = [ns \in AllNamespaces |-> "new"]
    BY <1>3, <1>6
  <2>2. DOMAIN capable.namespaces = AllNamespaces /\ \A ns \in AllNamespaces : capable.namespaces[ns] = "new"
    BY <2>1
  <2> QED  BY <1>9, <2>2
<1>11. ~conf.privileged =>
         spec.bounding = (DefaultCaps \cup conf.add) \ conf.drop /\ spec.ambient = (conf.add \ DefaultCaps) \ conf.drop
  <2>1. \A A, B : ({} \cup A) \ B = A \ B
    OBVIOUS
  <2> QED  BY <1>5, <1>6, <1>9, <2>1, Zenon
<1>12. ~conf.privileged => spec.devices = conf.devices
  BY <1>5, <1>6, <1>9, Zenon
<1> QED  BY <1>9, <1>10, <1>11, <1>12, Zenon DEF spec, ms

-----------------------------------------------------------------------------
(* The mount on top. *)

LEMMA TopIs ==
  ASSUME NEW n \in Nat, NEW ms, DOMAIN ms = 1 .. n, NEW dst, NEW i \in MountsAt(ms, dst),
         \A j \in MountsAt(ms, dst) : j <= i
  PROVE  TopMount(ms, dst) = ms[i]
<1>1. MountsAt(ms, dst) \subseteq Int
  BY DEF MountsAt
<1> DEFINE k == CHOOSE k \in MountsAt(ms, dst) : \A j \in MountsAt(ms, dst) : j <= k
<1>2. k \in MountsAt(ms, dst) /\ \A j \in MountsAt(ms, dst) : j <= k
  OBVIOUS
<1> HIDE DEF k
<1>3. k <= i /\ i <= k /\ k \in Int /\ i \in Int
  BY <1>1, <1>2
<1>4. k = i
  BY <1>3
<1> QED  BY <1>4 DEF TopMount, k

LEMMA TopExists ==
  ASSUME NEW n \in Nat, NEW ms, DOMAIN ms = 1 .. n, NEW dst, MountsAt(ms, dst) # {}
  PROVE  \E i \in MountsAt(ms, dst) :
           /\ i \in 1 .. n /\ \A j \in MountsAt(ms, dst) : j <= i
           /\ ms[i].dst = dst /\ TopMount(ms, dst) = ms[i]
<1>1. MountsAt(ms, dst) \in SUBSET (1 .. n)
  BY DEF MountsAt
<1>2. PICK i \in MountsAt(ms, dst) : \A j \in MountsAt(ms, dst) : j <= i
  BY <1>1, GreatestIndex
<1>3. TopMount(ms, dst) = ms[i]
  BY <1>2, TopIs
<1>4. ms[i].dst = dst /\ i \in 1 .. n
  BY <1>1 DEF MountsAt
<1> QED  BY <1>2, <1>3, <1>4

BindMounts == [type : {"bind"}, dst : STRING, src : STRING, ro : BOOLEAN]

(* What is mounted in a container, one after the other: containerd's two, the  *)
(* cgroups, the three of the sandbox, and those of the request.                *)
Mounted(conf, ms) ==
  /\ DOMAIN ms = 1 .. 6 + Len(conf.mounts)
  /\ ms[1].dst = "/dev/shm"
  /\ ms[2].dst = "/sys" /\ ms[2].ro = ~conf.privileged
  /\ ms[3].dst = "/sys/fs/cgroup" /\ ms[3].ro = ~conf.privileged
  /\ ms[4] = BindMount("/etc/hosts", "pod hosts", conf.readonlyRootfs)
  /\ ms[5] = BindMount("/etc/resolv.conf", "pod resolv.conf", conf.readonlyRootfs)
  /\ ms[6] = BindMount("/dev/shm", SandboxDevShm(conf), FALSE)
  /\ \A i \in 1 .. Len(conf.mounts) :
       /\ ms[6 + i].dst = conf.mounts[i].dst /\ ms[6 + i].src = conf.mounts[i].src
       /\ ms[6 + i].ro = (conf.mounts[i].ro /\ ~(conf.mounts[i].dst = "/sys" /\ conf.privileged))

IsMount(m) == {"type", "dst", "src", "ro"} \subseteq DOMAIN m

(* addOCIBindMounts makes some mounts of a privileged container writable. *)
LEMMA ClearedKeeps ==
  ASSUME NEW conf, NEW m, IsMount(m)
  PROVE  Cleared(conf, m).dst = m.dst /\ Cleared(conf, m).src = m.src
<1>1. ClearReadOnly(m).dst = m.dst /\ ClearReadOnly(m).src = m.src
  BY Zenon DEF ClearReadOnly, IsMount
<1> QED  BY <1>1, Zenon DEF Cleared

LEMMA ClearedWritable ==
  ASSUME NEW conf, NEW m, IsMount(m), conf.privileged, m.dst = "/sys" \/ m.type = "cgroup"
  PROVE  Cleared(conf, m).ro = FALSE
<1>1. ClearReadOnly(m).ro = FALSE
  BY Zenon DEF ClearReadOnly, IsMount
<1> QED  BY <1>1, Zenon DEF Cleared

LEMMA ClearedNot ==
  ASSUME NEW conf, NEW m, ~(conf.privileged /\ (m.dst = "/sys" \/ m.type = "cgroup"))
  PROVE  Cleared(conf, m) = m
  BY Zenon DEF Cleared

LEMMA SixAndMore ==
  ASSUME NEW S, NEW x1, NEW x2, NEW x3, NEW x4, NEW x5, NEW x6, NEW s \in Seq(S)
  PROVE  LET all == (<<x1, x2>> \o <<x3>>) \o (<<x4, x5, x6>> \o s) IN
         /\ DOMAIN all = 1 .. 6 + Len(s)
         /\ all[1] = x1 /\ all[2] = x2 /\ all[3] = x3 /\ all[4] = x4 /\ all[5] = x5 /\ all[6] = x6
         /\ \A i \in 1 .. Len(s) : all[6 + i] = s[i]
<1> DEFINE T == S \cup {x1, x2, x3, x4, x5, x6}
           a1 == <<x1, x2>>
           a2 == <<x3>>
           b == <<x4, x5, x6>>
<1>1. a1 \in Seq(T) /\ Len(a1) = 2 /\ a1[1] = x1 /\ a1[2] = x2
  OBVIOUS
<1>2. a2 \in Seq(T) /\ Len(a2) = 1 /\ a2[1] = x3
  OBVIOUS
<1>3. b \in Seq(T) /\ Len(b) = 3 /\ b[1] = x4 /\ b[2] = x5 /\ b[3] = x6
  OBVIOUS
<1>4. s \in Seq(T) /\ Len(s) \in Nat
  OBVIOUS
<1> HIDE DEF a1, a2, b, T
<1> DEFINE a == a1 \o a2
           c == b \o s
           all == a \o c
<1>5. a \in Seq(T) /\ Len(a) = 3 /\ \A i \in 1 .. 3 : a[i] = IF i <= 2 THEN a1[i] ELSE a2[i - 2]
  <2>1. a1 \in Seq(T) /\ a2 \in Seq(T)
    BY <1>1, <1>2
  <2>2. /\ a \in Seq(T) /\ Len(a) = Len(a1) + Len(a2)
        /\ \A i \in 1 .. Len(a1) + Len(a2) : a[i] = IF i <= Len(a1) THEN a1[i] ELSE a2[i - Len(a1)]
    BY <2>1, ConcatProperties
  <2> HIDE DEF a
  <2> QED  BY <1>1, <1>2, <2>2
<1>6. c \in Seq(T) /\ Len(c) = 3 + Len(s) /\ \A i \in 1 .. 3 + Len(s) : c[i] = IF i <= 3 THEN b[i] ELSE s[i - 3]
  <2>1. b \in Seq(T) /\ s \in Seq(T)
    BY <1>3, <1>4
  <2>2. /\ c \in Seq(T) /\ Len(c) = Len(b) + Len(s)
        /\ \A i \in 1 .. Len(b) + Len(s) : c[i] = IF i <= Len(b) THEN b[i] ELSE s[i - Len(b)]
    BY <2>1, ConcatProperties
  <2> HIDE DEF c
  <2> QED  BY <1>3, <1>4, <2>2
<1> HIDE DEF a, c
<1>7. /\ all \in Seq(T) /\ Len(all) = 3 + (3 + Len(s))
      /\ \A i \in 1 .. 3 + (3 + Len(s)) : all[i] = IF i <= 3 THEN a[i] ELSE c[i - 3]
  <2>1. a \in Seq(T) /\ c \in Seq(T)
    BY <1>5, <1>6
  <2>2. /\ all \in Seq(T) /\ Len(all) = Len(a) + Len(c)
        /\ \A i \in 1 .. Len(a) + Len(c) : all[i] = IF i <= Len(a) THEN a[i] ELSE c[i - Len(a)]
    BY <2>1, ConcatProperties
  <2> HIDE DEF all
  <2> QED  BY <1>5, <1>6, <2>2
<1> HIDE DEF all
<1>8. all[1] = x1 /\ all[2] = x2 /\ all[3] = x3
  BY <1>1, <1>2, <1>4, <1>5, <1>7
<1>9. all[4] = x4 /\ all[5] = x5 /\ all[6] = x6
  BY <1>3, <1>4, <1>6, <1>7
<1>10. ASSUME NEW i \in 1 .. Len(s) PROVE all[6 + i] = s[i]
  <2>1. all[6 + i] = c[3 + i]
    BY <1>4, <1>7
  <2> QED  BY <1>4, <1>6, <2>1
<1>11. DOMAIN all = 1 .. 6 + Len(s)
  BY <1>4, <1>7
<1> QED  BY <1>8, <1>9, <1>10, <1>11 DEF all, a, c, a1, a2, b

LEMMA SpecMounts ==
  ASSUME NEW conf \in CtrConfigs
  PROVE  Mounted(conf, GenerateContainerSpec(conf).mounts)
<1> DEFINE n == Len(conf.mounts)
           all == AllMounts(conf)
           ms == GenerateContainerSpec(conf).mounts
           x1 == [type |-> "tmpfs", dst |-> "/dev/shm", src |-> "new shm", ro |-> FALSE]
           x2 == [type |-> "sysfs", dst |-> "/sys", src |-> "sysfs", ro |-> TRUE]
           x3 == [type |-> "cgroup", dst |-> "/sys/fs/cgroup", src |-> "cgroup", ro |-> TRUE]
           x4 == BindMount("/etc/hosts", "pod hosts", conf.readonlyRootfs)
           x5 == BindMount("/etc/resolv.conf", "pod resolv.conf", conf.readonlyRootfs)
           x6 == BindMount("/dev/shm", SandboxDevShm(conf), FALSE)
<1>1. conf.mounts \in Seq(BindMounts) /\ conf.privileged \in BOOLEAN
  BY PodAssumption DEF BindMounts
<1>2. n \in Nat
  BY <1>1
<1>3. DefaultSpec.mounts = <<x1, x2>>
  BY DEF DefaultSpec
<1>4. all = (<<x1, x2>> \o <<x3>>) \o (<<x4, x5, x6>> \o conf.mounts)
  BY <1>3, Zenon DEF AllMounts, Mounts, GenerateContainerMounts
<1>5. /\ \A x \in {x1, x2, x3, x4, x5, x6} : IsMount(x)
      /\ x1.dst = "/dev/shm" /\ x1.type = "tmpfs"
      /\ x2.dst = "/sys" /\ x2.ro = TRUE /\ x2.type = "sysfs"
      /\ x3.dst = "/sys/fs/cgroup" /\ x3.ro = TRUE /\ x3.type = "cgroup"
      /\ x4.dst # "/sys" /\ x4.type = "bind" /\ x5.dst # "/sys" /\ x5.type = "bind"
      /\ x6.dst # "/sys" /\ x6.type = "bind"
  BY DEF BindMount, IsMount
<1> HIDE DEF x1, x2, x3, x4, x5, x6, all
<1>6. /\ DOMAIN all = 1 .. 6 + n
      /\ all[1] = x1 /\ all[2] = x2 /\ all[3] = x3 /\ all[4] = x4 /\ all[5] = x5 /\ all[6] = x6
      /\ \A i \in 1 .. n : all[6 + i] = conf.mounts[i]
  BY <1>1, <1>4, SixAndMore
<1>7. ms = [i \in DOMAIN all |-> Cleared(conf, all[i])]
  BY SpecFields, Zenon DEF all
<1> HIDE DEF ms, n
<1>8. DOMAIN ms = 1 .. 6 + n /\ \A i \in 1 .. 6 + n : ms[i] = Cleared(conf, all[i])
  BY <1>6, <1>7
<1>9. /\ ms[1] = Cleared(conf, x1) /\ ms[2] = Cleared(conf, x2) /\ ms[3] = Cleared(conf, x3)
      /\ ms[4] = Cleared(conf, x4) /\ ms[5] = Cleared(conf, x5) /\ ms[6] = Cleared(conf, x6)
  BY <1>2, <1>6, <1>8
<1>10. ms[1].dst = "/dev/shm" /\ ms[2].dst = "/sys" /\ ms[3].dst = "/sys/fs/cgroup"
  <2>1. ASSUME NEW x \in {x1, x2, x3} PROVE Cleared(conf, x).dst = x.dst
    BY <1>5, ClearedKeeps
  <2> QED  BY <1>5, <1>9, <2>1
<1>11. ms[2].ro = ~conf.privileged /\ ms[3].ro = ~conf.privileged
  <2>1. CASE conf.privileged
    <3>1. Cleared(conf, x2).ro = FALSE
      BY <1>5, <2>1, ClearedWritable
    <3>2. Cleared(conf, x3).ro = FALSE
      BY <1>5, <2>1, ClearedWritable
    <3> QED  BY <1>9, <2>1, <3>1, <3>2
  <2>2. CASE ~conf.privileged
    BY <1>5, <1>9, <2>2, ClearedNot
  <2> QED  BY <1>1, <2>1, <2>2
<1>12. ms[4] = x4 /\ ms[5] = x5 /\ ms[6] = x6
  BY <1>5, <1>9, ClearedNot
<1>13. ASSUME NEW i \in 1 .. n
       PROVE  /\ ms[6 + i].dst = conf.mounts[i].dst /\ ms[6 + i].src = conf.mounts[i].src
              /\ ms[6 + i].ro = (conf.mounts[i].ro /\ ~(conf.mounts[i].dst = "/sys" /\ conf.privileged))
  <2> DEFINE m == conf.mounts[i]
  <2>1. m \in BindMounts
    BY <1>1 DEF n
  <2>2. IsMount(m) /\ m.type = "bind" /\ m.ro \in BOOLEAN
    BY <2>1 DEF BindMounts, IsMount
  <2>3. ms[6 + i] = Cleared(conf, m)
    BY <1>2, <1>6, <1>8
  <2> HIDE DEF m
  <2>4. ms[6 + i].dst = m.dst /\ ms[6 + i].src = m.src
    BY <2>2, <2>3, ClearedKeeps
  <2>5. ms[6 + i].ro = (m.ro /\ ~(m.dst = "/sys" /\ conf.privileged))
    <3>1. CASE conf.privileged /\ m.dst = "/sys"
      <4>1. ms[6 + i].ro = FALSE
        BY <2>2, <2>3, <3>1, ClearedWritable
      <4> QED  BY <3>1, <4>1
    <3>2. CASE ~(conf.privileged /\ m.dst = "/sys")
      <4>1. ms[6 + i] = m
        BY <2>2, <2>3, <3>2, ClearedNot
      <4> QED  BY <2>2, <3>2, <4>1
    <3> QED  BY <3>1, <3>2
  <2> QED  BY <2>4, <2>5 DEF m
<1> QED  BY <1>8, <1>10, <1>11, <1>12, <1>13 DEF Mounted, ms, n, x4, x5, x6

(* The mount on top at a path is the last of the request's there ... *)
LEMMA TopAsked ==
  ASSUME NEW conf \in CtrConfigs, NEW ms, Mounted(conf, ms), NEW dst, MountsAt(conf.mounts, dst) # {}
  PROVE  LET top == TopMount(ms, dst)
             m   == TopMount(conf.mounts, dst) IN
         /\ top.src = m.src /\ m.ro \in BOOLEAN
         /\ top.ro = (m.ro /\ ~(dst = "/sys" /\ conf.privileged))
<1> DEFINE n == Len(conf.mounts)
<1>1. conf.mounts \in Seq(BindMounts)
  BY PodAssumption DEF BindMounts
<1>2. n \in Nat /\ DOMAIN conf.mounts = 1 .. n /\ \A i \in 1 .. n : conf.mounts[i] \in BindMounts
  BY <1>1
<1> HIDE DEF n
<1>3. PICK i \in MountsAt(conf.mounts, dst) :
        /\ i \in 1 .. n /\ \A j \in MountsAt(conf.mounts, dst) : j <= i
        /\ conf.mounts[i].dst = dst /\ TopMount(conf.mounts, dst) = conf.mounts[i]
  BY <1>2, TopExists
<1>4. /\ DOMAIN ms = 1 .. 6 + n /\ 6 + n \in Nat
      /\ \A j \in 1 .. n : ms[6 + j].dst = conf.mounts[j].dst
      /\ ms[6 + i].src = conf.mounts[i].src
      /\ ms[6 + i].ro = (conf.mounts[i].ro /\ ~(conf.mounts[i].dst = "/sys" /\ conf.privileged))
  <2>1. 6 + n \in Nat
    BY <1>2
  <2> QED  BY <1>3, <2>1, Zenon DEF Mounted, n
<1>5. 6 + i \in MountsAt(ms, dst)
  BY <1>2, <1>3, <1>4 DEF MountsAt
<1>6. ASSUME NEW j \in MountsAt(ms, dst) PROVE j <= 6 + i
  <2>1. j \in 1 .. 6 + n /\ ms[j].dst = dst
    BY <1>4 DEF MountsAt
  <2>2. CASE j > 6
    <3>1. j - 6 \in 1 .. n /\ 6 + (j - 6) = j
      BY <1>2, <2>1, <2>2
    <3>2. conf.mounts[j - 6].dst = dst
      BY <1>4, <2>1, <3>1
    <3>3. j - 6 \in MountsAt(conf.mounts, dst)
      BY <1>2, <3>1, <3>2 DEF MountsAt
    <3> QED  BY <1>3, <2>1, <3>3
  <2> QED  BY <1>3, <2>1, <2>2
<1>7. TopMount(ms, dst) = ms[6 + i]
  BY <1>4, <1>5, <1>6, TopIs
<1>8. conf.mounts[i].ro \in BOOLEAN
  BY <1>2, <1>3 DEF BindMounts
<1> QED  BY <1>3, <1>4, <1>7, <1>8

(* ... and where the request is silent it is the last of the others. *)
LEMMA TopSilent ==
  ASSUME NEW conf \in CtrConfigs, NEW ms, Mounted(conf, ms), NEW dst, MountsAt(conf.mounts, dst) = {},
         NEW k \in 1 .. 6, ms[k].dst = dst, \A j \in 1 .. 6 : ms[j].dst = dst => j <= k
  PROVE  TopMount(ms, dst) = ms[k]
<1> DEFINE n == Len(conf.mounts)
<1>1. conf.mounts \in Seq(BindMounts)
  BY PodAssumption DEF BindMounts
<1>2. n \in Nat /\ DOMAIN conf.mounts = 1 .. n
  BY <1>1
<1> HIDE DEF n
<1>3. DOMAIN ms = 1 .. 6 + n /\ 6 + n \in Nat /\ \A j \in 1 .. n : ms[6 + j].dst = conf.mounts[j].dst
  <2>1. 6 + n \in Nat
    BY <1>2
  <2> QED  BY <2>1, Zenon DEF Mounted, n
<1>4. k \in MountsAt(ms, dst)
  BY <1>2, <1>3 DEF MountsAt
<1>5. ASSUME NEW j \in MountsAt(ms, dst) PROVE j <= k
  <2>1. j \in 1 .. 6 + n /\ ms[j].dst = dst
    BY <1>3 DEF MountsAt
  <2>2. CASE j > 6
    <3>1. j - 6 \in 1 .. n /\ 6 + (j - 6) = j
      BY <1>2, <2>1, <2>2
    <3>2. conf.mounts[j - 6].dst = dst
      BY <1>3, <2>1, <3>1
    <3> QED  BY <1>2, <3>1, <3>2 DEF MountsAt
  <2> QED  BY <2>1, <2>2
<1> QED  BY <1>3, <1>4, <1>5, TopIs

LEMMA TopOfSandbox ==
  ASSUME NEW conf \in CtrConfigs, NEW ms, Mounted(conf, ms)
  PROVE  /\ MountsAt(conf.mounts, "/sys") = {} => TopMount(ms, "/sys").ro = ~conf.privileged
         /\ MountsAt(conf.mounts, "/sys/fs/cgroup") = {} => TopMount(ms, "/sys/fs/cgroup").ro = ~conf.privileged
         /\ MountsAt(conf.mounts, "/etc/hosts") = {} =>
              TopMount(ms, "/etc/hosts").ro = conf.readonlyRootfs /\ TopMount(ms, "/etc/hosts").src = "pod hosts"
         /\ MountsAt(conf.mounts, "/etc/resolv.conf") = {} =>
              /\ TopMount(ms, "/etc/resolv.conf").ro = conf.readonlyRootfs
              /\ TopMount(ms, "/etc/resolv.conf").src = "pod resolv.conf"
         /\ MountsAt(conf.mounts, "/dev/shm") = {} =>
              TopMount(ms, "/dev/shm").ro = FALSE /\ TopMount(ms, "/dev/shm").src = SandboxDevShm(conf)
<1> DEFINE x4 == BindMount("/etc/hosts", "pod hosts", conf.readonlyRootfs)
           x5 == BindMount("/etc/resolv.conf", "pod resolv.conf", conf.readonlyRootfs)
           x6 == BindMount("/dev/shm", SandboxDevShm(conf), FALSE)
<1>1. /\ ms[1].dst = "/dev/shm" /\ ms[2].dst = "/sys" /\ ms[3].dst = "/sys/fs/cgroup"
      /\ ms[2].ro = ~conf.privileged /\ ms[3].ro = ~conf.privileged
      /\ ms[4] = x4 /\ ms[5] = x5 /\ ms[6] = x6
  BY Zenon DEF Mounted
<1>2. /\ x4.dst = "/etc/hosts" /\ x4.src = "pod hosts" /\ x4.ro = conf.readonlyRootfs
      /\ x5.dst = "/etc/resolv.conf" /\ x5.src = "pod resolv.conf" /\ x5.ro = conf.readonlyRootfs
      /\ x6.dst = "/dev/shm" /\ x6.src = SandboxDevShm(conf) /\ x6.ro = FALSE
  BY DEF BindMount
<1> HIDE DEF x4, x5, x6
<1>3. /\ ms[4].dst = "/etc/hosts" /\ ms[4].src = "pod hosts" /\ ms[4].ro = conf.readonlyRootfs
      /\ ms[5].dst = "/etc/resolv.conf" /\ ms[5].src = "pod resolv.conf" /\ ms[5].ro = conf.readonlyRootfs
      /\ ms[6].dst = "/dev/shm" /\ ms[6].src = SandboxDevShm(conf) /\ ms[6].ro = FALSE
  BY <1>1, <1>2, Zenon
<1>4. /\ \A j \in 1 .. 6 : ms[j].dst = "/sys" => j <= 2
      /\ \A j \in 1 .. 6 : ms[j].dst = "/sys/fs/cgroup" => j <= 3
      /\ \A j \in 1 .. 6 : ms[j].dst = "/etc/hosts" => j <= 4
      /\ \A j \in 1 .. 6 : ms[j].dst = "/etc/resolv.conf" => j <= 5
      /\ \A j \in 1 .. 6 : ms[j].dst = "/dev/shm" => j <= 6
  <2>1. /\ ms[1].dst = "/dev/shm" /\ ms[2].dst = "/sys" /\ ms[3].dst = "/sys/fs/cgroup"
        /\ ms[4].dst = "/etc/hosts" /\ ms[5].dst = "/etc/resolv.conf" /\ ms[6].dst = "/dev/shm"
    BY <1>1, <1>3, Zenon
  <2> QED  BY <2>1
<1>5. ASSUME NEW k \in 1 .. 6, NEW dst, MountsAt(conf.mounts, dst) = {}, ms[k].dst = dst,
             \A j \in 1 .. 6 : ms[j].dst = dst => j <= k
      PROVE  TopMount(ms, dst) = ms[k]
  BY <1>5, TopSilent
<1>6. 2 \in 1 .. 6 /\ 3 \in 1 .. 6 /\ 4 \in 1 .. 6 /\ 5 \in 1 .. 6 /\ 6 \in 1 .. 6
  OBVIOUS
<1>7. ASSUME MountsAt(conf.mounts, "/sys") = {} PROVE TopMount(ms, "/sys").ro = ~conf.privileged
  <2>1. TopMount(ms, "/sys") = ms[2]
    BY <1>1, <1>4, <1>5, <1>6, <1>7, Zenon
  <2> QED  BY <1>1, <2>1, Zenon
<1>8. ASSUME MountsAt(conf.mounts, "/sys/fs/cgroup") = {} PROVE TopMount(ms, "/sys/fs/cgroup").ro = ~conf.privileged
  <2>1. TopMount(ms, "/sys/fs/cgroup") = ms[3]
    BY <1>1, <1>4, <1>5, <1>6, <1>8, Zenon
  <2> QED  BY <1>1, <2>1, Zenon
<1>9. ASSUME MountsAt(conf.mounts, "/etc/hosts") = {}
      PROVE  TopMount(ms, "/etc/hosts").ro = conf.readonlyRootfs /\ TopMount(ms, "/etc/hosts").src = "pod hosts"
  <2>1. TopMount(ms, "/etc/hosts") = ms[4]
    BY <1>3, <1>4, <1>5, <1>6, <1>9, Zenon
  <2> QED  BY <1>3, <2>1, Zenon
<1>10. ASSUME MountsAt(conf.mounts, "/etc/resolv.conf") = {}
       PROVE  /\ TopMount(ms, "/etc/resolv.conf").ro = conf.readonlyRootfs
              /\ TopMount(ms, "/etc/resolv.conf").src = "pod resolv.conf"
  <2>1. TopMount(ms, "/etc/resolv.conf") = ms[5]
    BY <1>3, <1>4, <1>5, <1>6, <1>10, Zenon
  <2> QED  BY <1>3, <2>1, Zenon
<1>11. ASSUME MountsAt(conf.mounts, "/dev/shm") = {}
       PROVE  TopMount(ms, "/dev/shm").ro = FALSE /\ TopMount(ms, "/dev/shm").src = SandboxDevShm(conf)
  <2>1. TopMount(ms, "/dev/shm") = ms[6]
    BY <1>3, <1>4, <1>5, <1>6, <1>11, Zenon
  <2> QED  BY <1>3, <2>1, Zenon
<1> QED  BY <1>7, <1>8, <1>9, <1>10, <1>11, Zenon

-----------------------------------------------------------------------------
(* The specs are what their configurations make of them. *)
PodInv ==
  /\ "host shm" \in files
  /\ podConfig # NoConfig =>
       /\ podConfig \in PodConfigs /\ podSpec = GenerateSandboxContainerSpec(podConfig)
       /\ SandboxFiles(podConfig) \subseteq files
  /\ ctrConfig # NoConfig =>
       /\ podConfig # NoConfig /\ Generates(ctrConfig)
       /\ ctrConfig \in CtrConfigs /\ ctrSpec = GenerateContainerSpec(ctrConfig)

LEMMA SandboxNamespaces ==
  ASSUME NEW conf
  PROVE  DOMAIN GenerateSandboxContainerSpec(conf).namespaces = AllNamespaces \ conf.host
<1> DEFINE nss == [ns \in DOMAIN DefaultSpec.namespaces \ conf.host |-> DefaultSpec.namespaces[ns]]
<1>1. GenerateSandboxContainerSpec(conf) = [DefaultSpec EXCEPT !.namespaces = nss, !.rootReadonly = TRUE]
  BY Zenon DEF GenerateSandboxContainerSpec
<1>2. DOMAIN nss = AllNamespaces \ conf.host
  BY DEF DefaultSpec, AllNamespaces
<1>3. {"namespaces", "rootReadonly"} \subseteq DOMAIN DefaultSpec
  BY DEF DefaultSpec
<1> HIDE DEF nss
<1>4. [DefaultSpec EXCEPT !.namespaces = nss, !.rootReadonly = TRUE].namespaces = nss
  BY <1>3, Zenon
<1> QED  BY <1>1, <1>2, <1>4, Zenon

LEMMA PodInvShared == PodInv => PodShared
<1> SUFFICES ASSUME PodInv, ctrConfig # NoConfig PROVE PodShared
  BY DEF PodShared
<1> DEFINE conf == ctrConfig
           pod  == podConfig
           ms   == ctrSpec.mounts
<1>1. /\ conf \in CtrConfigs /\ ctrSpec = GenerateContainerSpec(conf)
      /\ podSpec = GenerateSandboxContainerSpec(pod) /\ SandboxFiles(pod) \subseteq files /\ "host shm" \in files
  BY DEF PodInv
<1>2. ASSUME NEW ns \in {"network", "pid", "ipc", "uts"}
      PROVE  NamespaceOf(ns) = IF ns \in pod.host THEN "host" ELSE "pod"
  <2>1. ctrSpec.namespaces = [k \in AllNamespaces |-> IF k \in {"network", "ipc", "uts", "pid"} THEN "of sandbox" ELSE "new"]
    BY <1>1, SpecFields, Zenon
  <2>2. ctrSpec.namespaces[ns] = "of sandbox"
    BY <2>1 DEF AllNamespaces
  <2>3. DOMAIN podSpec.namespaces = AllNamespaces \ pod.host
    BY <1>1, SandboxNamespaces
  <2> QED  BY <2>2, <2>3 DEF NamespaceOf, AllNamespaces
<1>3. ASSUME MountsAt(conf.mounts, "/dev/shm") = {}, conf.hostIpc <=> "ipc" \in pod.host
      PROVE  LET shm == TopMount(ms, "/dev/shm") IN
             /\ shm.src = IF NamespaceOf("ipc") = "host" THEN "host shm" ELSE "pod shm"
             /\ shm.src \in files
  <2>1. Mounted(conf, ms)
    BY <1>1, SpecMounts
  <2>3. TopMount(ms, "/dev/shm").src = SandboxDevShm(conf)
    BY <1>1, <1>3, <2>1, TopOfSandbox, Zenon
  <2>4. NamespaceOf("ipc") = IF "ipc" \in pod.host THEN "host" ELSE "pod"
    BY <1>2
  <2>5. SandboxDevShm(conf) = IF "ipc" \in pod.host THEN "host shm" ELSE "pod shm"
    BY <1>3 DEF SandboxDevShm
  <2>6. SandboxDevShm(conf) \in files
    BY <1>1, <2>5 DEF SandboxFiles
  <2> QED  BY <2>3, <2>4, <2>5, <2>6
<1> QED  BY <1>2, <1>3, Zenon DEF PodShared

LEMMA PodInvAsked == PodInv => SpecAsAsked
<1> SUFFICES ASSUME PodInv, ctrConfig # NoConfig PROVE SpecAsAsked
  BY DEF SpecAsAsked
<1> DEFINE conf == ctrConfig
           ms   == ctrSpec.mounts
<1>1. /\ conf \in CtrConfigs /\ ctrSpec = GenerateContainerSpec(conf)
      /\ SandboxFiles(podConfig) \subseteq files /\ Generates(conf)
  BY DEF PodInv
<1>2. Mounted(conf, ms) /\ conf.privileged \in BOOLEAN /\ conf.readonlyRootfs \in BOOLEAN
  BY <1>1, SpecMounts, PodAssumption
<1>3. /\ ctrSpec.rootReadonly = conf.readonlyRootfs
      /\ ~conf.privileged =>
           /\ ctrSpec.devices = conf.devices
           /\ ctrSpec.bounding = (DefaultCaps \cup conf.add) \ conf.drop
           /\ ctrSpec.ambient = (conf.add \ DefaultCaps) \ conf.drop
  BY <1>1, SpecFields, Zenon
<1>4. "pod hosts" \in files /\ "pod resolv.conf" \in files
  BY <1>1 DEF SandboxFiles
<1> DEFINE Open(dst) == dst = "/sys" /\ conf.privileged /\ conf.readonlyRootfs
           Overrides(dst) ==
      LET top == TopMount(ms, dst)
          m   == TopMount(conf.mounts, dst) IN
      top.src = m.src /\ (Open(dst) \/ (top.ro <=> m.ro /\ ~(dst = "/sys" /\ conf.privileged)))
           Silent(dst) ==
      LET top == TopMount(ms, dst) IN
      \/ dst \in {"/etc/hosts", "/etc/resolv.conf"} /\ (top.ro <=> ctrSpec.rootReadonly) /\ top.src \in files
      \/ dst = "/dev/shm" /\ ~top.ro
      \/ dst \in {"/sys", "/sys/fs/cgroup"} /\ (Open(dst) \/ (top.ro <=> ~conf.privileged))
<1>5. ASSUME NEW dst, MountsAt(conf.mounts, dst) # {} PROVE Overrides(dst)
  BY <1>1, <1>2, <1>5, TopAsked
<1>6. ASSUME NEW dst \in {"/etc/hosts", "/etc/resolv.conf", "/dev/shm", "/sys", "/sys/fs/cgroup"},
             MountsAt(conf.mounts, dst) = {}
      PROVE  Silent(dst)
  <2>1. CASE dst = "/etc/hosts"
    <3>1. TopMount(ms, dst).ro = conf.readonlyRootfs /\ TopMount(ms, dst).src = "pod hosts"
      BY <1>1, <1>2, <1>6, <2>1, TopOfSandbox, Zenon
    <3> QED  BY <1>2, <1>3, <1>4, <2>1, <3>1, Zenon
  <2>2. CASE dst = "/etc/resolv.conf"
    <3>1. TopMount(ms, dst).ro = conf.readonlyRootfs /\ TopMount(ms, dst).src = "pod resolv.conf"
      BY <1>1, <1>2, <1>6, <2>2, TopOfSandbox, Zenon
    <3> QED  BY <1>2, <1>3, <1>4, <2>2, <3>1, Zenon
  <2>3. CASE dst = "/dev/shm"
    <3>1. TopMount(ms, dst).ro = FALSE
      BY <1>1, <1>2, <1>6, <2>3, TopOfSandbox, Zenon
    <3> QED  BY <1>2, <1>3, <1>4, <2>3, <3>1, Zenon
  <2>4. CASE dst = "/sys"
    <3>1. TopMount(ms, dst).ro = ~conf.privileged
      BY <1>1, <1>2, <1>6, <2>4, TopOfSandbox, Zenon
    <3> QED  BY <1>2, <1>3, <1>4, <2>4, <3>1, Zenon
  <2>5. CASE dst = "/sys/fs/cgroup"
    <3>1. TopMount(ms, dst).ro = ~conf.privileged
      BY <1>1, <1>2, <1>6, <2>5, TopOfSandbox, Zenon
    <3> QED  BY <1>2, <1>3, <1>4, <2>5, <3>1, Zenon
  <2> QED  BY <1>6, <2>1, <2>2, <2>3, <2>4, <2>5
<1>7. ~conf.privileged =>
        /\ (ctrSpec.bounding \cup ctrSpec.ambient) \cap conf.drop = {}
        /\ conf.add \ conf.drop \subseteq ctrSpec.bounding
        /\ ctrSpec.ambient \subseteq ctrSpec.bounding
  BY <1>3
<1>8. ~conf.privileged => ctrSpec.devices = conf.devices /\ ctrSpec.devices \subseteq HostDevices
  BY <1>1, <1>3, Zenon DEF Generates
<1> QED  BY <1>5, <1>6, <1>7, <1>8, Zenon DEF SpecAsAsked

LEMMA PodInvHolds == PodSetup => []PodInv
<1>1. PodInit => PodInv
  BY DEF PodInit, PodInv
<1>2. PodInv /\ [PodNext]_podVars => PodInv'
  <2> SUFFICES ASSUME PodInv, [PodNext]_podVars PROVE PodInv'
    OBVIOUS
  <2>1. ASSUME NEW conf \in PodConfigs, RunPodSandbox(conf) PROVE PodInv'
    BY <2>1 DEF RunPodSandbox, PodInv
  <2>2. ASSUME NEW conf \in CtrConfigs, CreateInPod(conf) PROVE PodInv'
    BY <2>2 DEF CreateInPod, PodInv
  <2>3. CASE UNCHANGED podVars
    BY <2>3 DEF podVars, PodInv
  <2> QED  BY <2>1, <2>2, <2>3 DEF PodNext
<1> QED  BY <1>1, <1>2, PTL DEF PodSetup

(* Whatever a sandbox and a container of it are configured with, the          *)
(* container is in the namespaces of its pod and, if the two agree on IPC, on *)
(* the shared memory that belongs to them (setOCINamespaces,                  *)
(* container_create.go:467, with setupSandboxFiles).                          *)
THEOREM ContainersShareTheirPod == PodSetup => []PodShared
  BY PodInvHolds, PodInvShared, PTL

(* Whatever mounts, devices and capabilities a request has, in any number,    *)
(* what the container finds at a path is what the request mounts there last,  *)
(* and a file of the sandbox only where the request is silent; it has the     *)
(* devices that were asked for and no capability that was dropped             *)
(* (generateContainerSpec, container_create.go:222).                          *)
THEOREM SpecsAreAsAsked == PodSetup => []SpecAsAsked
  BY PodInvHolds, PodInvAsked, PTL
==============================================================================
