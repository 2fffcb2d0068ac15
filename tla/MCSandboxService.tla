-------------------------- MODULE MCSandboxService --------------------------
EXTENDS SandboxInvariant, TLC

(* A sandbox with everything of its own, and one with everything the host's. *)
Own  == [hostNetwork |-> FALSE, hostIpc |-> FALSE]
Host == [hostNetwork |-> TRUE, hostIpc |-> TRUE]

OwnOnly  == {Own}
HostOnly == {Host}

Symmetry == Permutations(Procs) \cup Permutations(Ids)
=============================================================================
