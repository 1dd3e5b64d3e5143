------------------------------- MODULE MCFetch -------------------------------
(* Small instances of Fetch for TLC. *)
EXTENDS Fetch, TLC
CONSTANTS a, b, d, k1, k2, p1, p2

(* Every call on one client, or one call on a client of its own. *)
OneProc  == [c \in Calls |-> p1]
TwoProcs == [c \in Calls |-> IF c = d THEN p2 ELSE p1]

(* Every call for one key, or calls of FetchMany for both. *)
OneKey  == [c \in Calls |-> {k1}]
AllKeys == [c \in Calls |-> IF c \in Many THEN Keys ELSE {k1}]
=============================================================================
