----------------------------- MODULE MCTransport -----------------------------
(* Small instances of Transport for TLC: the requests and connections the  *)
(* configurations choose from.  Connections are told apart by the CHOOSE   *)
(* of pickLocked and requests by their roles, so there is no symmetry.     *)
EXTENDS Transport, TLC
CONSTANTS r1, r2, c1, c2
=============================================================================
