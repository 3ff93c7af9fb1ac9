----------------------------- MODULE MCCredentials -----------------------------
(* Instances of Credentials for TLC. *)
EXTENDS Credentials, TLC

CONSTANTS p1, p2, p3, a, b, idx, fromEnv

ThreeProcs == {p1, p2, p3}
TwoKeys == {a, b}

Cmd(op, key, store) == [op |-> op, key |-> key, store |-> store]

(* Two keys and the index's own name; one key is also in the environment;   *)
(* each command with the read-only store once.                             *)
AllCommands ==
    {Cmd(op, key, "keyring") : op \in {"set", "rm"}, key \in {a, b, idx}}
    \cup {Cmd("get", a, "keyring"), Cmd("get", b, "keyring"), Cmd("list", a, "keyring")}
    \cup {Cmd(op, a, "env") : op \in {"set", "rm", "get", "list"}}

MCEnv == [k \in {a, b, idx} |-> IF k = a THEN fromEnv ELSE None]

(* Processes differ only in the command they are given. *)
SwapProcs == Permutations(ThreeProcs)
=============================================================================
