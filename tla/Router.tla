------------------------------- MODULE Router -------------------------------
(***************************************************************************)
(* The routing of keys to servers: RendezvousRouter.Pick (options.go) and  *)
(* Client.server (client.go).  The 64-bit FNV-1a sums are a constant       *)
(* function: nothing but their order matters, and two of them may be equal.*)
(***************************************************************************)
EXTENDS Integers, Sequences

CONSTANTS
    Keys,
    Addresses,  \* of the servers clients may be configured with
    Sum,        \* Sum[k][a]: the hash of key k and address a
    Custom      \* a Router of the application: the order it gives to the
                \* list it is handed, and the index it returns for each key

ASSUME RouterAssumption ==
    /\ Sum \in [Keys -> [Addresses -> Nat]]
    /\ Custom \in [order : Seq(Addresses), index : [Keys -> Int]]

(* RendezvousRouter.Pick: a server replaces the best so far only with a    *)
(* higher sum, so the first of the highest wins.                           *)
Pick(key, servers) ==
    CHOOSE i \in DOMAIN servers : \A j \in DOMAIN servers :
        \/ Sum[key][servers[j]] < Sum[key][servers[i]]
        \/ Sum[key][servers[j]] = Sum[key][servers[i]] /\ i <= j

(* No pool: the index is out of range, or the address is not configured. *)
NoServer == 0

(* Slip: the index is taken to count in the list of the configuration. *)
server_Unmapped(key, servers, custom) ==
    IF ~custom THEN Pick(key, servers)
    ELSE IF Custom.index[key] \in DOMAIN servers THEN Custom.index[key] ELSE NoServer

(* Client.server: a Router of the application may have reordered its       *)
(* private copy of the list, so the address is mapped back to its pool.    *)
server(key, servers, custom) ==
    LET index == Custom.index[key]
        pools == {i \in DOMAIN servers : index \in DOMAIN Custom.order
                                            /\ servers[i] = Custom.order[index]}
    IN IF ~custom THEN Pick(key, servers)
       ELSE IF pools = {} THEN NoServer ELSE CHOOSE i \in pools : TRUE

=============================================================================
