---------------------------- MODULE RegistryService ----------------------------
(***************************************************************************)
(* The registry as an implementation of InventoryService.  A history       *)
(* variable remembers which inventory each server's last connection was    *)
(* first listed with; an inventory is its version.                         *)
(***************************************************************************)
EXTENDS UpstreamRegistry

VARIABLE since      \* history: the version last listed while connecting

serviceVars == <<vars, since>>

ServiceInit == Init /\ since = [s \in Servers |-> NoReply]

(* A tools/list of a connection to s under construction is answered.       *)
ListedFirst(s) ==
    \E r \in Requests : /\ Target[r] = s /\ pc[r] = "connect"
                        /\ reply[r] = NoReply /\ reply'[r] # NoReply

ServiceNext ==
    /\ Next
    /\ since' = [s \in Servers |-> IF ListedFirst(s) THEN version[s] ELSE since[s]]

ServiceSpec == ServiceInit /\ [][ServiceNext]_serviceVars

Had == [s \in Servers |-> IF since[s] = NoReply THEN {} ELSE since[s]..version[s]]
Opened == [s \in Servers |-> entry[s] # None]

Service == INSTANCE InventoryService
              WITH Inventories <- Versions, newest <- version, had <- Had, open <- Opened

(* The registry implements InventoryService: a server is opened only once  *)
(* listed, never listed anew while it is open, and open until the session  *)
(* ends, whoever races, times out or is cancelled (get_or_connect).        *)
ImplementsService == Service!Spec

(* A request is decided on an inventory that InventoryService promises:    *)
(* never one of an attempt that was dropped, nor one from before the       *)
(* connection it uses, overlapping and cancelled refetches included        *)
(* (inventory, call_tool).                                                 *)
ReadsFromService ==
    [][\A r \in Requests : served'[r] # served[r] =>
          Service!Read(Target[r], served'[r])]_serviceVars
=============================================================================
