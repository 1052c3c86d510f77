----------------------------- MODULE MCJsonRpc ------------------------------
(* Small instances of JsonRpc for TLC. *)
EXTENDS JsonRpc, TLC

\* Requests are interchangeable.
RequestSymmetry == Permutations(Requests)
=============================================================================
