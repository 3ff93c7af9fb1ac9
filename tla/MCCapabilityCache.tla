--------------------------- MODULE MCCapabilityCache ---------------------------
(* Two checks and a session over configs that differ in what the           *)
(* fingerprint covers (servers and a filter) and in what it omits (an env  *)
(* value); the budget has room for the first server's hint and a part of   *)
(* the second's.                                                           *)
EXTENDS CapabilityCache, TLC

CONSTANTS db, api, read, write, drop, old, new

MCRank == api :> 1 @@ db :> 2
MCInventories == db :> {{read, write}, {read, write, drop}} @@ api :> {{write}}

Config(S, f, h) == [servers |-> S, tools |-> f, visible |-> old, hidden |-> h]
MCConfigs == {Config({db}, db :> {read, drop}, old),
              Config({db, api}, <<>>, old),
              Config({db, api}, <<>>, new)}

(* Checks are interchangeable: no definition tells them apart.             *)
CheckSymmetry == Permutations(Checks)

=============================================================================
