----------------------------- MODULE CounterSpec -----------------------------
(***************************************************************************)
(* What Incr and Decr promise a caller who knows nothing of items: there   *)
(* is one number, a counter that does not exist is zero, Incr adds to it   *)
(* modulo the width of the counter, Decr subtracts down to zero, and each  *)
(* call counts once at most and is told the number it made.                *)
(***************************************************************************)
EXTENDS Integers

CONSTANTS Calls, Amount, Modulus, Untold

VARIABLES
    value,    \* the number
    kind,     \* the verb of each call
    counted,  \* the calls of Incr and Decr that have taken effect
    told      \* what each call was told; Untold before it has been

avars == <<value, kind, counted, told>>

AInit ==
    /\ value = 0 /\ counted = {}
    /\ kind = [c \in Calls |-> "none"]
    /\ told = [c \in Calls |-> Untold]

Call(c) ==
    /\ kind[c] = "none"
    /\ \E k \in {"incr", "decr", "set", "touch", "invalidate", "get"} :
         kind' = [kind EXCEPT ![c] = k]
    /\ UNCHANGED <<value, counted, told>>

(* A call counts and is told so, or is left without an answer; a counter   *)
(* may be created when its lifetime is over.                               *)
Count(c) ==
    LET n == IF kind[c] = "incr" THEN (value + Amount[c]) % Modulus
             ELSE IF Amount[c] > value THEN 0 ELSE value - Amount[c]
    IN
    /\ kind[c] \in {"incr", "decr"} /\ c \notin counted
    /\ counted' = counted \cup {c}
    /\ told' \in {told, [told EXCEPT ![c] = n]}
    /\ value' \in {n, 0}
    /\ UNCHANGED kind

(* Set stores a number over the counter. *)
Store(c) ==
    /\ kind[c] = "set"
    /\ value' \in {Amount[c], 0}
    /\ UNCHANGED <<kind, counted, told>>

(* The counter expires: it counts from zero again. *)
Reset == value' = 0 /\ UNCHANGED <<kind, counted, told>>

ANext == Reset \/ \E c \in Calls : Call(c) \/ Count(c) \/ Store(c)

ASpec == AInit /\ [][ANext]_avars

=============================================================================
