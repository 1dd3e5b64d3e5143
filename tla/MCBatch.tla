------------------------------- MODULE MCBatch -------------------------------
(* Small instances of Batch for TLC: two servers, one key at each of them  *)
(* by their hashes, and a custom router that swaps the servers and knows   *)
(* nothing of a third key.                                                 *)
EXTENDS Batch, TLC
CONSTANTS s1, s2, k1, k2, k3

TwoServers == <<s1, s2>>

(* k3 hashes alike with both addresses. *)
Hashes == [k \in Keys |-> [a \in Addresses |->
              IF k = k3 THEN 1 ELSE IF (k = k1) = (a = s1) THEN 2 ELSE 1]]

Swapping == [order |-> <<s2, s1>>,
             index |-> [k \in Keys |-> IF k = k1 THEN 1 ELSE IF k = k2 THEN 2 ELSE 3]]

Op(shape, k) == [kind |-> shape[1], opt |-> shape[2], key |-> k]

Calls(verb, shapes, keys, n) ==
    {[verb |-> verb, custom |-> c, ops |-> o] :
        c \in BOOLEAN, o \in [1..n -> {Op(s, k) : s \in shapes, k \in keys}]}

Reads == {"plain", "touch"}

(* Three operations on both servers, and three on one key. *)
Triples == {
    <<Op(<<"set", "plain">>, k1), Op(<<"get", "vivify">>, k2), Op(<<"get", "touch">>, k1)>>,
    <<Op(<<"set", "plain">>, k1), Op(<<"delete", "plain">>, k1), Op(<<"get", "plain">>, k1)>>}

(* Otherwise two operations: of any kind in a batch, or a collection verb's. *)
(* The first key is k1 without loss of generality.                           *)
SmallPlans == {p \in
    Calls("batch", Shapes, {k1, k2}, 2)
    \cup UNION {Calls("getmany", {<<"get", r>>}, {k1, k2}, 2) : r \in Reads}
    \cup {p \in Calls("setmany", {<<"set", "plain">>}, Keys, 2) :
            p.ops[1].key # p.ops[2].key}
    \cup Calls("deletemany", {<<"delete", "plain">>}, {k1, k2}, 2)
    \cup {[verb |-> "batch", custom |-> FALSE, ops |-> t] : t \in Triples} :
        p.ops[1].key = k1 /\ (p.custom => p.ops[1].kind = "set")}

(* Nothing, or an empty value that was invalidated. *)
SmallItems == {Absent, [Absent EXCEPT !.has = TRUE, !.empty = TRUE, !.stale = TRUE]}
=============================================================================
