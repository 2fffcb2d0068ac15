----------------------------- MODULE Registrar -----------------------------
(***************************************************************************)
(* The name registrar (pkg/registrar/registrar.go): a one-to-one index     *)
(* between names and keys behind one mutex, so each operation is a function*)
(* from a registrar to a registrar.  The service keeps two of them, one for*)
(* container names and one for sandbox names; the key is the random id.    *)
(*                                                                         *)
(* A Go map is a total function here, with Nil where the key is absent; Nil*)
(* is neither a name nor a key, as the empty string is in the code.        *)
(***************************************************************************)

CONSTANT Nil

Registrars(Names, Keys) ==
  [nameToKey : [Names -> Keys \cup {Nil}], keyToName : [Keys -> Names \cup {Nil}]]

NewRegistrar(Names, Keys) ==
  [nameToKey |-> [n \in Names |-> Nil], keyToName |-> [k \in Keys |-> Nil]]

-----------------------------------------------------------------------------
(* Mutant: a name that is taken can be reserved again. *)
ReservableByKey(r, name, key) == r.keyToName[key] \in {Nil, name}

(* Reserve returns an error exactly when this is false. *)
Reservable(r, name, key) ==
  IF r.nameToKey[name] # Nil
  THEN r.nameToKey[name] = key
  ELSE r.keyToName[key] \in {Nil, name}

(* Mutant: key and value are mixed up. *)
BindMixedUp(r, name, key) ==
  [nameToKey |-> [r.nameToKey EXCEPT ![name] = name],
   keyToName |-> [r.keyToName EXCEPT ![key] = key]]

Bind(r, name, key) ==
  [nameToKey |-> [r.nameToKey EXCEPT ![name] = key],
   keyToName |-> [r.keyToName EXCEPT ![key] = name]]

Unbind(r, name, key) ==
  [nameToKey |-> [r.nameToKey EXCEPT ![name] = Nil],
   keyToName |-> [r.keyToName EXCEPT ![key] = Nil]]

Reserve(r, name, key) ==
  IF r.nameToKey[name] = Nil /\ r.keyToName[key] = Nil
  THEN Bind(r, name, key) ELSE r

ReleaseByName(r, name) ==
  IF r.nameToKey[name] = Nil THEN r ELSE Unbind(r, name, r.nameToKey[name])

ReleaseByKey(r, key) ==
  IF r.keyToName[key] = Nil THEN r ELSE Unbind(r, r.keyToName[key], key)

-----------------------------------------------------------------------------
(* "Registrar stores one-to-one name<->key mappings" (registrar.go:24): the*)
(* two maps are each other's inverse.                                      *)
OneToOne(r) ==
  \A n \in DOMAIN r.nameToKey, k \in DOMAIN r.keyToName :
     r.nameToKey[n] = k <=> r.keyToName[k] = n
=============================================================================
