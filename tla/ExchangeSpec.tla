---------------------------- MODULE ExchangeSpec ----------------------------
(***************************************************************************)
(* What serverPool.exchange promises the code above it, without any        *)
(* connection: a command is handed to the server at most once, it is       *)
(* settled once and for good, and the number of bytes reported as written  *)
(* can be trusted.  The callers' ambiguity rule rests on the last point:   *)
(* an error with fewer bytes than the payload means that the server has    *)
(* not executed, and will never execute, the command.                      *)
(***************************************************************************)
EXTENDS Naturals

CONSTANTS Calls, Outcomes, Pending

VARIABLES
    sent,     \* how often the whole command has been handed to the server
    outcome   \* what exchange returned; Pending before it has

avars == <<sent, outcome>>

AInit ==
    /\ sent = [r \in Calls |-> 0]
    /\ outcome = [r \in Calls |-> Pending]

(* A command may still reach the server after its caller has given up, but *)
(* only when the caller was told that all of it may have been written.     *)
Send(r) ==
    /\ sent[r] = 0
    /\ outcome[r] = Pending \/ outcome[r].wrote = "all"
    /\ sent' = [sent EXCEPT ![r] = 1]
    /\ UNCHANGED outcome

(* One step of the engine may settle several calls. *)
Settles(r, o) ==
    /\ outcome[r] = Pending
    /\ o \in Outcomes
    /\ o.wrote # "all" => sent[r] = 0
    /\ o.err = "ok" => sent[r] = 1

Settle ==
    /\ outcome' = [r \in Calls |-> outcome'[r]]
    /\ \A r \in Calls : outcome'[r] = outcome[r] \/ Settles(r, outcome'[r])
    /\ UNCHANGED sent

ANext == Settle \/ \E r \in Calls : Send(r)

ASpec == AInit /\ [][ANext]_avars

=============================================================================
