--------------------------- MODULE InventoryService ---------------------------
(***************************************************************************)
(* What the registry promises the meta-tool handlers about inventories:    *)
(* the contract between UpstreamRegistry, which implements it, and         *)
(* Aggregator, which is written against it.  A server that is open answers *)
(* with an inventory it has had since the connection in use was listed,    *)
(* not necessarily the newest; it stays open until the session ends.       *)
(***************************************************************************)
CONSTANTS
    Servers,
    Inventories     \* what an upstream may list

VARIABLES
    newest,         \* each upstream's inventory
    had,            \* those it had since its last first listing
    open            \* the servers the registry has a connection to

vars == <<newest, had, open>>

Init ==
    /\ newest \in [Servers -> Inventories]
    /\ had = [s \in Servers |-> {}]
    /\ open = [s \in Servers |-> FALSE]

(* A connection under construction is listed; an attempt that comes to     *)
(* nothing is forgotten by the next.                                       *)
List(s) ==
    /\ ~open[s]
    /\ had' = [had EXCEPT ![s] = {newest[s]}]
    /\ UNCHANGED <<newest, open>>

Open(s) ==
    /\ ~open[s] /\ had[s] # {}
    /\ open' = [open EXCEPT ![s] = TRUE]
    /\ UNCHANGED <<newest, had>>

Change(s, inv) ==
    /\ inv \in Inventories \ {newest[s]}
    /\ newest' = [newest EXCEPT ![s] = inv]
    /\ had' = [had EXCEPT ![s] = IF @ = {} THEN {} ELSE @ \cup {inv}]
    /\ UNCHANGED open

Close ==
    /\ open' = [s \in Servers |-> FALSE]
    /\ UNCHANGED <<newest, had>>

Next == Close \/ \E s \in Servers : List(s) \/ Open(s) \/ Change(s, newest'[s])

Spec == Init /\ [][Next]_vars

(* What a request that reads server s may be given.                        *)
Read(s, inv) == open[s] /\ inv \in had[s]
=============================================================================
