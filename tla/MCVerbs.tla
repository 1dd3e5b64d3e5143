------------------------------- MODULE MCVerbs -------------------------------
(* Small instances of Verbs for TLC. *)
EXTENDS Verbs, TLC
CONSTANTS v1, v2, v3

(* Interchangeable calls: all but those with the TTL Forever. *)
Symmetry == Permutations(Calls \ Eternal)
=============================================================================
