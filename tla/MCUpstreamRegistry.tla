-------------------------- MODULE MCUpstreamRegistry --------------------------
(* Instances of UpstreamRegistry for TLC. *)
EXTENDS UpstreamRegistry, TLC

CONSTANTS r1, r2, r3, s1

(* Three requests for one server, one of them not cancellable: the race    *)
(* for a cold server and for a dirty inventory.                            *)
OneServer == {s1}
ThreeRequests == {r1, r2, r3}
AllToS1 == [r \in ThreeRequests |-> s1]
TwoInvokes == {r1, r2}

TwoChanges == [s \in OneServer |-> 2]

(* r1 and r2 are interchangeable: same server, same kind. *)
SwapInvokes == Permutations(TwoInvokes)
=============================================================================
