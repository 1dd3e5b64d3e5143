----------------------------- MODULE MCLifetimes -----------------------------
(* Small instances of Lifetimes for TLC. *)
EXTENDS Lifetimes, TLC
CONSTANTS v1, v2, v3

(* TTLs: invalid, none, less than a second, the last relative one, and an  *)
(* absolute one.                                                           *)
SmallOffers == ({"incr"} \X {0, 1, 7}) \cup ({"decr"} \X {4}) \cup ({"set"} \X {-1, 0, 7})
               \cup ({"invalidate"} \X {4, 7}) \cup ({"touch"} \X {4}) \cup {<<"get", 0>>}

(* One call counts by two, the others by one. *)
Amounts == [c \in Calls |-> IF c = v3 THEN 2 ELSE 1]

Symmetry == Permutations(Calls \ {v3})
=============================================================================
