--------------------------- MODULE MCAsyncServer ---------------------------
(* Instances of AsyncServer for TLC. *)
EXTENDS AsyncServer, TLC

Symmetry == Permutations(Workers)
=============================================================================
