----------------------------- MODULE LazyUpstream -----------------------------
(***************************************************************************)
(* What the registry promises of each upstream, without init guards,       *)
(* rechecks or futures: an upstream is opened only for a request that      *)
(* needs it (D-002, lazy), by one request at a time, at most once          *)
(* successfully, and a request is served only through an opened upstream.  *)
(* A failed opening fails the request that made it and nothing else.       *)
(***************************************************************************)
CONSTANTS Requests, Servers, None, Target

VARIABLES
    ask,        \* each request: new, open, served or failed
    opener,     \* the request that is opening each server's upstream
    upstream,   \* each server's upstream: absent, up or down
    over        \* the session has ended

vars == <<ask, opener, upstream, over>>

Init ==
    /\ ask = [r \in Requests |-> "new"]
    /\ opener = [s \in Servers |-> None]
    /\ upstream = [s \in Servers |-> "absent"]
    /\ over = FALSE

Arrive(r) ==
    /\ ~over
    /\ ask[r] = "new"
    /\ ask' = [ask EXCEPT ![r] = "open"]
    /\ UNCHANGED <<opener, upstream, over>>

Open(r) ==
    /\ ask[r] = "open"
    /\ opener[Target[r]] = None
    /\ upstream[Target[r]] = "absent"
    /\ opener' = [opener EXCEPT ![Target[r]] = r]
    /\ UNCHANGED <<ask, upstream, over>>

Opened(r) ==
    /\ opener[Target[r]] = r
    /\ opener' = [opener EXCEPT ![Target[r]] = None]
    /\ \E u \in {"up", "down"} : upstream' = [upstream EXCEPT ![Target[r]] = u]
    /\ UNCHANGED <<ask, over>>

OpenFails(r) ==
    /\ opener[Target[r]] = r
    /\ opener' = [opener EXCEPT ![Target[r]] = None]
    /\ ask' = [ask EXCEPT ![r] = "failed"]
    /\ UNCHANGED <<upstream, over>>

Lose(s) ==
    /\ upstream[s] = "up"
    /\ upstream' = [upstream EXCEPT ![s] = "down"]
    /\ UNCHANGED <<ask, opener, over>>

Serve(r) ==
    /\ ask[r] = "open"
    /\ upstream[Target[r]] # "absent"
    /\ ask' = [ask EXCEPT ![r] = "served"]
    /\ UNCHANGED <<opener, upstream, over>>

(* A request that is not opening anything may fail at any time. *)
Fail(r) ==
    /\ ask[r] = "open"
    /\ opener[Target[r]] # r
    /\ ask' = [ask EXCEPT ![r] = "failed"]
    /\ UNCHANGED <<opener, upstream, over>>

Close ==
    /\ over' = TRUE
    /\ ask' = [r \in Requests |-> IF ask[r] = "open" THEN "failed" ELSE ask[r]]
    /\ opener' = [s \in Servers |-> None]
    /\ upstream' = [s \in Servers |-> "absent"]

Next ==
    \/ \E r \in Requests :
          Arrive(r) \/ Open(r) \/ Opened(r) \/ OpenFails(r) \/ Serve(r) \/ Fail(r)
    \/ \E s \in Servers : Lose(s)
    \/ Close

Spec == Init /\ [][Next]_vars
=============================================================================
