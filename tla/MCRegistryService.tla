--------------------------- MODULE MCRegistryService ---------------------------
(* Two requests for a healthy server whose inventory changes, and one for  *)
(* a server that hangs: what the handlers are promised, and isolation.     *)
EXTENDS RegistryService, TLC

CONSTANTS r1, r2, r3, s1, s2

ThreeRequests == {r1, r2, r3}
TwoServers == {s1, s2}
SplitTarget == [r \in ThreeRequests |-> IF r = r3 THEN s2 ELSE s1]
S1Changes == [s \in TwoServers |-> IF s = s1 THEN 1 ELSE 0]

(* Only requests to s1 are known to run: s2 hangs, and nothing that a      *)
(* request to s2 does, not even its timeout, is assumed to happen.         *)
IsolationSpec == ServiceSpec /\ FairFor({s1})

(* Every request to the healthy server s1 is answered although s2 hangs:   *)
(* no task holds a lock of the registry across an await (D-007), and a     *)
(* guard is handed on whether its holder connects, fails, times out or is  *)
(* cancelled.                                                              *)
HealthyAnswered == AnsweredIn({s1})
=============================================================================
