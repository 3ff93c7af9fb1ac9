------------------------------ MODULE Credentials ------------------------------
(***************************************************************************)
(* The credentials of one server (src/src/credentials.rs), the cred        *)
(* subcommands that change them (src/src/main.rs) and the lookup of a      *)
(* ${KEY} at connect time (src/src/process.rs).  Every command is a process *)
(* of its own and nothing locks the keyring, so the keyring operations of  *)
(* two commands interleave; each of them can be refused (a locked or       *)
(* missing keyring), and a process can be killed between two of them.      *)
(*                                                                         *)
(* The keyring has no listing: beside one entry per key there is one entry *)
(* that holds the list of keys, the index.                                 *)
(***************************************************************************)
CONSTANTS
    Procs,      \* processes; the secret that p is given to store is called p
    Keys,       \* names of credentials
    IndexKey,   \* the entry "__CRED_KEYS__"
    Commands,   \* what a process may be asked to do
    Env,        \* the process environment, None where a name is not set
    None        \* no entry, no value

Names == Keys \cup {IndexKey}
Lists == [names: SUBSET Names]

ASSUME NoneAssumption == None \notin Procs
ASSUME KeysAssumption == IndexKey \notin Keys
ASSUME CommandsAssumption ==
    Commands \subseteq [op: {"set", "rm", "list", "get"}, key: Names,
                        store: {"keyring", "env"}]
ASSUME EnvAssumption == DOMAIN Env = Names

VARIABLES
    ring,       \* the keyring: a secret, a list of names, or nothing
    pc,         \* the keyring operation each process is at, or how it ended
    job,        \* the command of each process
    loaded,     \* the index as each process has read it
    value,      \* what a lookup returned
    refused,    \* the keyring operations each process was refused
    before      \* the processes that had ended when each one started

vars == <<ring, pc, job, loaded, value, refused, before>>

Operations == {"write", "delete", "load", "save", "get"}
Endings == {"stored", "failed", "removed", "rejected", "listed", "resolved",
            "unresolved", "killed"}

Started == {p \in Procs : pc[p] # "idle"}
Ended == {p \in Procs : pc[p] \in Endings}

(* Processes that store or remove a credential in the keyring. *)
Writers == {p \in Started : job[p].op \in {"set", "rm"} /\ pc[p] # "rejected"}

TypeOK ==
    /\ ring \in [Names -> Procs \cup {None} \cup Lists]
    /\ pc \in [Procs -> {"idle"} \cup Operations \cup Endings]
    /\ job \in [Procs -> Commands \cup {None}]
    /\ \A p \in Started : job[p] \in Commands
    /\ loaded \in [Procs -> SUBSET Names]
    /\ value \in [Procs -> Procs \cup {None} \cup Lists \cup {Env[k] : k \in Names}]
    /\ refused \in [Procs -> SUBSET Operations]
    /\ before \in [Procs -> SUBSET Procs]
    \* a connect never goes on without the value it asked for
    /\ \A p \in Procs : pc[p] = "resolved" => value[p] # None

Init ==
    /\ ring = [k \in Names |-> None]
    /\ pc = [p \in Procs |-> "idle"]
    /\ job = [p \in Procs |-> None]
    /\ loaded = [p \in Procs |-> {}]
    /\ value = [p \in Procs |-> None]
    /\ refused = [p \in Procs |-> {}]
    /\ before = [p \in Procs |-> {}]

-----------------------------------------------------------------------------
(* Helpers *)

Goto(p, stage) == pc' = [pc EXCEPT ![p] = stage]
Store(key, content) == ring' = [ring EXCEPT ![key] = content]
Refuse(p) == refused' = [refused EXCEPT ![p] = @ \cup {pc[p]}]

(* load_index: an entry that is missing or is not a list reads as no names. *)
Index == IF ring[IndexKey] \in Lists THEN ring[IndexKey].names ELSE {}

(* As if: a new name only joins an index that is already there. *)
ExtendOnlyIndex(p) == IF job[p].op = "set" /\ loaded[p] # {}
                      THEN loaded[p] \cup {job[p].key}
                      ELSE loaded[p] \ {job[p].key}

(* The index p is about to save. *)
NewIndex(p) == IF job[p].op = "set" THEN loaded[p] \cup {job[p].key}
                                    ELSE loaded[p] \ {job[p].key}

-----------------------------------------------------------------------------
(* The commands *)

(* run_cred, up to the first keyring operation.  The environment is        *)
(* read-only, and set also needs a secret that is not empty.               *)
Begin(p) ==
    /\ pc[p] = "idle"
    /\ \E c \in Commands :
          /\ job' = [job EXCEPT ![p] = c]
          /\ \/ c.op = "set" /\ c.store = "keyring" /\ Goto(p, "write")
             \/ c.op = "rm" /\ c.store = "keyring" /\ Goto(p, "delete")
             \/ c.op = "set" /\ Goto(p, "rejected")
             \/ c.op = "rm" /\ c.store = "env" /\ Goto(p, "rejected")
             \/ c.op = "list" /\ Goto(p, "load")
             \/ c.op = "get" /\ Goto(p, "get")
    /\ before' = [before EXCEPT ![p] = Ended]
    /\ UNCHANGED <<ring, loaded, value, refused>>

WriteSecret(p) ==
    /\ pc[p] = "write"
    /\ Store(job[p].key, p)
    /\ Goto(p, "load")
    /\ UNCHANGED <<job, loaded, value, refused, before>>

(* As if: set goes on after a refused write, as rm does after a refused    *)
(* deletion.                                                               *)
WriteRefusedIgnored(p) ==
    /\ pc[p] = "write"
    /\ Goto(p, "load")
    /\ Refuse(p)
    /\ UNCHANGED <<ring, job, loaded, value, before>>

DeleteSecret(p) ==
    /\ pc[p] = "delete"
    /\ Store(job[p].key, None)
    /\ Goto(p, "load")
    /\ UNCHANGED <<job, loaded, value, refused, before>>

WriteRefused(p) ==
    /\ pc[p] = "write"
    /\ Goto(p, "failed")
    /\ Refuse(p)
    /\ UNCHANGED <<ring, job, loaded, value, before>>

(* A deletion that is refused is ignored. *)
DeleteRefused(p) ==
    /\ pc[p] = "delete"
    /\ Goto(p, "load")
    /\ Refuse(p)
    /\ UNCHANGED <<ring, job, loaded, value, before>>

AfterLoad(p) == Goto(p, IF job[p].op = "list" THEN "listed" ELSE "save")

(* The environment store lists nothing. *)
LoadIndex(p) ==
    /\ pc[p] = "load"
    /\ loaded' = [loaded EXCEPT ![p] = IF job[p].store = "keyring" THEN Index ELSE {}]
    /\ AfterLoad(p)
    /\ UNCHANGED <<ring, job, value, refused, before>>

(* An index that cannot be read is taken for empty. *)
LoadRefused(p) ==
    /\ pc[p] = "load"
    /\ job[p].store = "keyring"
    /\ loaded' = [loaded EXCEPT ![p] = {}]
    /\ AfterLoad(p)
    /\ Refuse(p)
    /\ UNCHANGED <<ring, job, value, before>>

SaveIndex(p) ==
    /\ pc[p] = "save"
    /\ Store(IndexKey, [names |-> NewIndex(p)])
    /\ Goto(p, IF job[p].op = "set" THEN "stored" ELSE "removed")
    /\ UNCHANGED <<job, loaded, value, refused, before>>

(* set reports it, though the secret is in the keyring; rm ignores it. *)
SaveRefused(p) ==
    /\ pc[p] = "save"
    /\ Goto(p, IF job[p].op = "set" THEN "failed" ELSE "removed")
    /\ Refuse(p)
    /\ UNCHANGED <<ring, job, loaded, value, before>>

-----------------------------------------------------------------------------
(* resolve_env_value, for one ${KEY} *)

(* As if: a name that is set nowhere resolves to nothing. *)
FallBackToNothing(p) ==
    /\ value' = [value EXCEPT ![p] = Env[job[p].key]]
    /\ Goto(p, "resolved")

FallBack(p) ==
    /\ value' = [value EXCEPT ![p] = Env[job[p].key]]
    /\ Goto(p, IF Env[job[p].key] = None THEN "unresolved" ELSE "resolved")

LookUp(p) ==
    /\ pc[p] = "get"
    /\ LET found == ring[job[p].key] IN
       IF job[p].store = "keyring" /\ found # None
       THEN value' = [value EXCEPT ![p] = found] /\ Goto(p, "resolved")
       ELSE FallBack(p)
    /\ UNCHANGED <<ring, job, loaded, refused, before>>

(* A keyring error is taken for a missing entry. *)
LookUpRefused(p) ==
    /\ pc[p] = "get"
    /\ job[p].store = "keyring"
    /\ FallBack(p)
    /\ Refuse(p)
    /\ UNCHANGED <<ring, job, loaded, before>>

-----------------------------------------------------------------------------
(* The process is killed between two keyring operations. *)
Kill(p) ==
    /\ pc[p] \in Operations
    /\ Goto(p, "killed")
    /\ UNCHANGED <<ring, job, loaded, value, refused, before>>

Next ==
    \E p \in Procs :
        \/ Begin(p) \/ Kill(p)
        \/ WriteSecret(p) \/ WriteRefused(p)
        \/ DeleteSecret(p) \/ DeleteRefused(p)
        \/ LoadIndex(p) \/ LoadRefused(p)
        \/ SaveIndex(p) \/ SaveRefused(p)
        \/ LookUp(p) \/ LookUpRefused(p)

Spec == Init /\ [][Next]_vars

-----------------------------------------------------------------------------
(* Properties *)

(* p had ended before any other process that writes its key started, or    *)
(* they before it: nobody else has written the key beside it or since.     *)
LastToWrite(p) ==
    /\ job[p].key # IndexKey
    /\ \A q \in Writers \ {p} : job[q].key = job[p].key => q \in before[p]

(* The lookups of p's key that started after p, and were answered by the   *)
(* keyring.                                                                *)
LookupsAfter(p) ==
    {g \in Started : /\ p \in before[g]
                     /\ job[g].op = "get" /\ job[g].store = "keyring"
                     /\ job[g].key = job[p].key
                     /\ pc[g] \in {"resolved", "unresolved"}
                     /\ "get" \notin refused[g]}

(* A credential reported stored is what every later lookup finds, whatever *)
(* the environment holds and whatever other commands do to other keys and  *)
(* to the index; one reported removed is found by none, unless the keyring *)
(* refused the deletion, which the command does not tell.                  *)
SecretSticks ==
    \A p \in Ended :
        LastToWrite(p) =>
            /\ pc[p] = "stored" =>
                  /\ ring[job[p].key] = p
                  /\ \A g \in LookupsAfter(p) : value[g] = p
            /\ pc[p] = "removed" /\ "delete" \notin refused[p] =>
                  /\ ring[job[p].key] = None
                  /\ \A g \in LookupsAfter(p) : value[g] = Env[job[p].key]

(* p ended without being refused anything; no other command was at work    *)
(* beside it; and none since has written its key, has failed to read the   *)
(* index, or was about an entry with the index's own name.                 *)
Settled(p) ==
    /\ pc[p] \in {"stored", "removed"}
    /\ refused[p] = {}
    /\ job[p].key # IndexKey
    /\ \A q \in Writers \ {p} :
          \/ q \in before[p]
          \/ /\ p \in before[q]
             /\ job[q].key \notin {IndexKey, job[p].key}
             /\ "load" \notin refused[q]

(* The index is exact about a settled command: it names the key if and     *)
(* only if it was stored, and so does what a later command has read of it. *)
(* Two later commands may overlap and save over each other, fail to save,  *)
(* or be killed: they drop each other's names, never this one.             *)
IndexIsExact ==
    \A p \in Ended :
        Settled(p) =>
            /\ job[p].key \in Index <=> pc[p] = "stored"
            /\ \A q \in Started :
                  /\ p \in before[q] /\ "load" \notin refused[q]
                  /\ job[q].store = "keyring" /\ pc[q] \in {"save", "listed"}
                  => (job[p].key \in loaded[q] <=> pc[p] = "stored")

(* What cred set says when it fails: "no secret was stored"                *)
(* (src/src/main.rs:393).                                                  *)
FailedSetStoresNothing ==
    \A p \in Ended : pc[p] = "failed" => ring[job[p].key] # p
=============================================================================
