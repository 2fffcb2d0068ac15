--------------------------- MODULE MCImageService ---------------------------
(***************************************************************************)
(* ImageService for TLC.                                                   *)
(***************************************************************************)
EXTENDS ImageInvariant, TLC

Symmetry == Permutations(Procs)
=============================================================================
