----------------------------- MODULE MCGptStore -----------------------------
(* GptStore for TLC: tears are interchangeable. *)
EXTENDS GptStore, TLC

Symmetry == Permutations(Tears)
=============================================================================
