------------------------------- MODULE Expiry -------------------------------
(***************************************************************************)
(* The conversion of durations to memcached's TTLs (types.go) and what the *)
(* server makes of them.  Time is counted in ticks, several to a second;   *)
(* the reach of the relative form is a parameter instead of 30 days.       *)
(***************************************************************************)
EXTENDS Integers

CONSTANTS
    Second,       \* ticks in a second
    MaxRelative   \* maxRelativeExpiration, in seconds

ASSUME ExpiryAssumption == Second \in Nat \ {0} /\ MaxRelative \in Nat \ {0}

Forever == 0

(* Whole seconds, rounded down; ExpiresAt. *)
Unix(t) == t \div Second

(* Slip: the switch to a timestamp is forgotten. *)
ExpiresIn_Relative(d, now) == (d + Second - 1) \div Second

(* Rounded up to whole seconds; beyond MaxRelative an absolute timestamp.  *)
(* Go's division of a negative duration truncates towards zero.            *)
ExpiresIn(d, now) ==
    IF d < 0 THEN LET whole == -((-d) \div Second) IN IF whole = 0 THEN -1 ELSE whole
    ELSE IF d > MaxRelative * Second THEN Unix(now + d)
    ELSE (d + Second - 1) \div Second

(* The second at which the server drops an item (external); Never is an    *)
(* item without expiration.                                                *)
Never == -1

realtime(e, second) ==
    IF e = 0 THEN Never ELSE IF e < 0 THEN second
    ELSE IF e > MaxRelative THEN e ELSE second + e

=============================================================================
