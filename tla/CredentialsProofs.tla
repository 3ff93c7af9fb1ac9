--------------------------- MODULE CredentialsProofs ---------------------------
(***************************************************************************)
(* Proofs about Credentials, for every set of processes, keys and commands: *)
(* what a command reported holds for as long as nobody undoes it, however  *)
(* the other commands interleave, fail or are killed.                      *)
(***************************************************************************)
EXTENDS Credentials, TLAPS

USE NoneAssumption, KeysAssumption, CommandsAssumption, EnvAssumption

LEMMA InitType == Init => TypeOK
  BY DEF Init, TypeOK, Started, Operations, Endings, Lists

LEMMA IndexType == TypeOK => Index \in SUBSET Names
  BY DEF TypeOK, Index, Lists

LEMMA NextType == TypeOK /\ [Next]_vars => TypeOK'
<1> SUFFICES ASSUME TypeOK, [Next]_vars
             PROVE  TypeOK'
  OBVIOUS
<1> USE DEF TypeOK, Started, Operations, Endings, Goto, Store, Refuse, Names
<1>1. CASE UNCHANGED vars
  BY <1>1 DEF vars
<1>2. ASSUME NEW p \in Procs, Begin(p)
      PROVE  TypeOK'
  BY <1>2 DEF Begin, Ended
<1>3. ASSUME NEW p \in Procs, Kill(p) \/ WriteSecret(p) \/ DeleteSecret(p)
      PROVE  TypeOK'
  BY <1>3 DEF Kill, WriteSecret, DeleteSecret
<1>4. ASSUME NEW p \in Procs, WriteRefused(p) \/ DeleteRefused(p) \/ SaveRefused(p)
      PROVE  TypeOK'
  BY <1>4 DEF WriteRefused, DeleteRefused, SaveRefused
<1>5. ASSUME NEW p \in Procs, LoadIndex(p) \/ LoadRefused(p)
      PROVE  TypeOK'
  <2>1. CASE LoadIndex(p)
    BY <2>1, IndexType DEF LoadIndex, AfterLoad
  <2>2. CASE LoadRefused(p)
    BY <2>2 DEF LoadRefused, AfterLoad
  <2>. QED
    BY <1>5, <2>1, <2>2
<1>6. ASSUME NEW p \in Procs, SaveIndex(p)
      PROVE  TypeOK'
  BY <1>6 DEF SaveIndex, NewIndex, Lists
<1>7. ASSUME NEW p \in Procs, LookUp(p) \/ LookUpRefused(p)
      PROVE  TypeOK'
  BY <1>7 DEF LookUp, LookUpRefused, FallBack
<1> QED
  BY <1>1, <1>2, <1>3, <1>4, <1>5, <1>6, <1>7 DEF Next

(* Every keyring state a command can leave behind is well formed, and a    *)
(* connect that went on has every value it asked for.                      *)
THEOREM TypeCorrect == Spec => []TypeOK
  BY InitType, NextType, PTL DEF Spec

-----------------------------------------------------------------------------
(* Who can be where, and who came before whom *)

Roles ==
    \A p \in Procs :
        /\ pc[p] = "idle" => before[p] = {} /\ refused[p] = {}
        /\ before[p] \subseteq Ended /\ p \notin before[p]
        /\ pc[p] \in {"write", "stored"} => job[p].op = "set"
        /\ pc[p] \in {"delete", "removed"} => job[p].op = "rm"
        /\ pc[p] \in {"write", "delete"} => job[p].store = "keyring"
        /\ pc[p] = "save" => job[p].op \in {"set", "rm"} /\ job[p].store = "keyring"
        /\ pc[p] = "load" /\ job[p].op # "list" => job[p].store = "keyring"
        /\ pc[p] = "load" => job[p].op \in {"set", "rm", "list"}
        /\ pc[p] = "listed" => job[p].op = "list"
        /\ pc[p] = "get" => job[p].op = "get"

LEMMA InitRoles == Init => Roles
  BY DEF Init, Roles, Ended, Endings

LEMMA NextRoles == TypeOK /\ Roles /\ [Next]_vars => Roles'
<1> SUFFICES ASSUME TypeOK, Roles, [Next]_vars
             PROVE  Roles'
  OBVIOUS
<1> USE DEF TypeOK, Roles, Started, Operations, Endings, Goto, Refuse, Ended
<1>1. CASE UNCHANGED vars
  BY <1>1 DEF vars
<1>2. ASSUME NEW p \in Procs, Begin(p)
      PROVE  Roles'
  BY <1>2 DEF Begin
<1>3. ASSUME NEW p \in Procs,
             Kill(p) \/ WriteSecret(p) \/ DeleteSecret(p) \/ SaveIndex(p)
      PROVE  Roles'
  BY <1>3 DEF Kill, WriteSecret, DeleteSecret, SaveIndex
<1>4. ASSUME NEW p \in Procs, WriteRefused(p) \/ DeleteRefused(p) \/ SaveRefused(p)
      PROVE  Roles'
  <2>1. /\ pc[p] \in Operations /\ pc[p] # "idle" /\ UNCHANGED <<job, before>>
        /\ \A q \in Procs : q # p => refused'[q] = refused[q]
    BY <1>4 DEF WriteRefused, DeleteRefused, SaveRefused
  <2>2. CASE WriteRefused(p)
    BY <2>1, <2>2 DEF WriteRefused
  <2>3. CASE DeleteRefused(p)
    BY <2>1, <2>3 DEF DeleteRefused
  <2>4. CASE SaveRefused(p)
    BY <2>1, <2>4 DEF SaveRefused
  <2> QED
    BY <1>4, <2>2, <2>3, <2>4
<1>5. ASSUME NEW p \in Procs, LoadIndex(p) \/ LoadRefused(p)
      PROVE  Roles'
  <2>1. /\ pc[p] = "load" /\ UNCHANGED <<job, before>>
        /\ pc' = [pc EXCEPT ![p] = IF job[p].op = "list" THEN "listed" ELSE "save"]
        /\ \A q \in Procs : q # p => refused'[q] = refused[q]
    BY <1>5 DEF LoadIndex, LoadRefused, AfterLoad
  <2>2. \A q \in Procs : q # p => pc'[q] = pc[q]
    BY <2>1
  <2>3. pc'[p] = IF job[p].op = "list" THEN "listed" ELSE "save"
    BY <2>1
  <2>4. Ended \subseteq Ended'
    BY <2>1, <2>2
  <2>5. job[p].op \in {"set", "rm", "list"}
        /\ (job[p].op # "list" => job[p].store = "keyring")
    BY <2>1
  <2> QED
    BY <2>1, <2>2, <2>3, <2>4, <2>5
<1>6. ASSUME NEW p \in Procs, LookUp(p) \/ LookUpRefused(p)
      PROVE  Roles'
  BY <1>6 DEF LookUp, LookUpRefused, FallBack
<1> QED
  BY <1>1, <1>2, <1>3, <1>4, <1>5, <1>6 DEF Next

(* The command and the past of a process that has started are fixed, and a *)
(* process that writes remains one.                                        *)
LEMMA Fixed ==
    ASSUME TypeOK, Roles, Next
    PROVE  /\ \A q \in Started : /\ q \in Started'
                                /\ job'[q] = job[q] /\ before'[q] = before[q]
           /\ Writers \subseteq Writers'
           /\ \A q \in Ended : /\ pc'[q] = pc[q] /\ refused'[q] = refused[q]
                              /\ value'[q] = value[q] /\ loaded'[q] = loaded[q]
<1> USE DEF TypeOK, Roles, Started, Operations, Endings, Goto, Refuse, Ended,
            Writers
<1>1. PICK p \in Procs :
          \/ Begin(p) \/ Kill(p) \/ WriteSecret(p) \/ WriteRefused(p)
          \/ DeleteSecret(p) \/ DeleteRefused(p) \/ LoadIndex(p)
          \/ LoadRefused(p) \/ SaveIndex(p) \/ SaveRefused(p)
          \/ LookUp(p) \/ LookUpRefused(p)
  BY DEF Next
<1>2. CASE Begin(p)
  BY <1>2 DEF Begin
<1>3. CASE Kill(p) \/ WriteSecret(p) \/ DeleteSecret(p) \/ SaveIndex(p)
  BY <1>3 DEF Kill, WriteSecret, DeleteSecret, SaveIndex
<1>4. CASE WriteRefused(p) \/ DeleteRefused(p) \/ SaveRefused(p)
  BY <1>4 DEF WriteRefused, DeleteRefused, SaveRefused
<1>5. CASE LoadIndex(p) \/ LoadRefused(p)
  BY <1>5 DEF LoadIndex, LoadRefused, AfterLoad
<1>6. CASE LookUp(p) \/ LookUpRefused(p)
  BY <1>6 DEF LookUp, LookUpRefused, FallBack
<1> QED
  BY <1>1, <1>2, <1>3, <1>4, <1>5, <1>6

-----------------------------------------------------------------------------
(* Secrets *)

(* What a command that is past it has done to its key. *)
Done(p) ==
    LastToWrite(p) =>
        /\ job[p].op = "set" /\ pc[p] \in {"load", "save", "stored"} =>
              ring[job[p].key] = p
        /\ /\ job[p].op = "rm" /\ pc[p] \in {"load", "save", "removed"}
           /\ "delete" \notin refused[p]
           => ring[job[p].key] = None

(* What the lookups after a command that has ended have found. *)
Found(p) ==
    LastToWrite(p) =>
        /\ pc[p] = "stored" => \A g \in LookupsAfter(p) : value[g] = p
        /\ pc[p] = "removed" /\ "delete" \notin refused[p] =>
              \A g \in LookupsAfter(p) : value[g] = Env[job[p].key]

Sticks == \A p \in Started : Done(p) /\ Found(p)

(* To have been the last to write is only ever lost. *)
LEMMA LastBefore ==
    ASSUME TypeOK, Roles, Next, NEW p \in Started, LastToWrite(p)'
    PROVE  LastToWrite(p)
<1>1. /\ job'[p] = job[p] /\ before'[p] = before[p] /\ Writers \subseteq Writers'
      /\ \A q \in Writers : job'[q] = job[q]
  BY Fixed DEF Writers
<1> QED
  BY <1>1 DEF LastToWrite

(* Nobody else is writing the key of the last to write it. *)
LEMMA RingKept ==
    ASSUME TypeOK, Roles, Next, NEW p \in Started, LastToWrite(p),
           pc[p] \notin {"write", "delete"}
    PROVE  ring'[job[p].key] = ring[job[p].key]
<1>1. \A q \in Procs : pc[q] \in {"write", "delete"} => job[q].key # job[p].key
  BY DEF LastToWrite, Writers, Started, Roles, Ended, Endings
<1>2. PICK q \in Procs :
          \/ WriteSecret(q) \/ DeleteSecret(q) \/ SaveIndex(q)
          \/ UNCHANGED ring
  BY DEF Next, Begin, Kill, WriteRefused, DeleteRefused, LoadIndex, LoadRefused,
         SaveRefused, LookUp, LookUpRefused
<1> QED
  BY <1>1, <1>2 DEF WriteSecret, DeleteSecret, SaveIndex, Store, LastToWrite,
     TypeOK, Started

LEMMA InitSticks == Init => Sticks
  BY DEF Init, Sticks, Started

LEMMA NextDone ==
    ASSUME TypeOK, Roles, Sticks, Next, NEW p \in Procs, p \in Started'
    PROVE  Done(p)'
<1> USE DEF TypeOK, Goto, Refuse, Store
<1>1. CASE p \notin Started
  <2>1. Begin(p)
    BY <1>1 DEF Started, Next, Begin, Kill, WriteSecret, WriteRefused,
       DeleteSecret, DeleteRefused, LoadIndex, LoadRefused, AfterLoad, SaveIndex,
       SaveRefused, LookUp, LookUpRefused, FallBack, Operations
  <2> QED
    BY <2>1 DEF Begin, Done
<1>2. CASE p \in Started
  <2> SUFFICES ASSUME LastToWrite(p)'
               PROVE  Done(p)'
    BY DEF Done
  <2>1. LastToWrite(p) /\ job'[p] = job[p]
    BY <1>2, LastBefore, Fixed
  <2>2. CASE UNCHANGED <<pc[p], refused[p]>>
    <3>1. pc[p] \notin {"write", "delete"} => ring'[job[p].key] = ring[job[p].key]
      BY <1>2, <2>1, RingKept
    <3> QED
      BY <1>2, <2>1, <2>2, <3>1 DEF Done, Sticks
  <2>3. CASE ~ UNCHANGED <<pc[p], refused[p]>>
    <3>1. \/ Begin(p) \/ Kill(p) \/ WriteSecret(p) \/ WriteRefused(p)
          \/ DeleteSecret(p) \/ DeleteRefused(p) \/ LoadIndex(p)
          \/ LoadRefused(p) \/ SaveIndex(p) \/ SaveRefused(p)
          \/ LookUp(p) \/ LookUpRefused(p)
      BY <2>3 DEF Next, Begin, Kill, WriteSecret, WriteRefused, DeleteSecret,
         DeleteRefused, LoadIndex, LoadRefused, AfterLoad, SaveIndex, SaveRefused,
         LookUp, LookUpRefused, FallBack
    <3>2. ~ Begin(p) /\ p \in Procs
      BY <1>2 DEF Begin, Started
    <3>3. CASE WriteSecret(p) \/ DeleteSecret(p)
      BY <2>1, <3>3 DEF WriteSecret, DeleteSecret, Done, Roles, LastToWrite, Started
    <3>4. CASE Kill(p) \/ WriteRefused(p) \/ LookUp(p) \/ LookUpRefused(p)
      BY <3>4 DEF Kill, WriteRefused, LookUp, LookUpRefused, FallBack, Done
    <3>5. CASE DeleteRefused(p)
      BY <2>1, <3>5 DEF DeleteRefused, Done, Roles
    <3>6. CASE LoadIndex(p) \/ LoadRefused(p)
      <4>1. /\ pc[p] = "load" /\ ring' = ring
            /\ refused[p] \subseteq refused'[p]
            /\ pc'[p] \in {"save", "listed"}
        BY <3>6 DEF LoadIndex, LoadRefused, AfterLoad
      <4> QED
        BY <1>2, <2>1, <4>1 DEF Done, Sticks
    <3>7. CASE SaveIndex(p) \/ SaveRefused(p)
      <4>1. /\ pc[p] = "save" /\ refused[p] \subseteq refused'[p]
            /\ pc'[p] \in {"stored", "failed", "removed"}
            /\ pc'[p] = "stored" => job[p].op = "set"
        BY <3>7 DEF SaveIndex, SaveRefused
      <4>2. ring'[job[p].key] = ring[job[p].key]
        BY <1>2, <2>1, <4>1, RingKept
      <4> QED
        BY <1>2, <2>1, <4>1, <4>2 DEF Done, Sticks
    <3> QED
      BY <3>1, <3>2, <3>3, <3>4, <3>5, <3>6, <3>7
  <2> QED
    BY <2>2, <2>3
<1> QED
  BY <1>1, <1>2

LEMMA NextFound ==
    ASSUME TypeOK, Roles, Sticks, Next, NEW p \in Procs, p \in Started'
    PROVE  Found(p)'
<1> USE DEF TypeOK, Goto, Refuse
<1> SUFFICES ASSUME LastToWrite(p)', pc'[p] \in {"stored", "removed"},
                    pc'[p] = "removed" => "delete" \notin refused'[p],
                    NEW g \in Procs, g \in LookupsAfter(p)'
             PROVE  value'[g] = IF pc'[p] = "stored" THEN p ELSE Env[job'[p].key]
  BY DEF Found, LookupsAfter, Started
(* g started after p had ended, so p ended before this step. *)
<1>1. p \in before'[g] /\ pc'[g] \in {"resolved", "unresolved"}
      /\ job'[g].op = "get" /\ job'[g].store = "keyring"
      /\ job'[g].key = job'[p].key /\ "get" \notin refused'[g]
  BY DEF LookupsAfter
<1>2. g \in Started
  BY <1>1 DEF Started, Next, Begin, Kill, WriteSecret, WriteRefused, DeleteSecret,
     DeleteRefused, LoadIndex, LoadRefused, AfterLoad, SaveIndex, SaveRefused,
     LookUp, LookUpRefused, FallBack
<1>3. /\ p \in before[g] /\ p \in Ended
      /\ job'[g] = job[g] /\ before'[g] = before[g]
  BY <1>1, <1>2, Fixed DEF Roles, Started
<1>4. /\ p \in Started /\ pc'[p] = pc[p] /\ refused'[p] = refused[p]
      /\ job'[p] = job[p] /\ LastToWrite(p)
  <2>1. p \in Started
    BY <1>3 DEF Ended, Started, Endings
  <2> QED
    BY <1>3, <2>1, Fixed, LastBefore
<1>5. CASE g \in Ended
  <2>1. g \in LookupsAfter(p) /\ value'[g] = value[g]
    <3>1. pc'[g] = pc[g] /\ refused'[g] = refused[g] /\ value'[g] = value[g]
      BY <1>5, Fixed
    <3> QED
      BY <1>1, <1>2, <1>3, <1>4, <3>1 DEF LookupsAfter
  <2> QED
    BY <1>4, <2>1 DEF Sticks, Found
<1>6. CASE g \notin Ended
  <2>1. LookUp(g)
    BY <1>1, <1>2, <1>6 DEF Started, Ended, Endings, Next, Begin, Kill,
       WriteSecret, WriteRefused, DeleteSecret, DeleteRefused, LoadIndex,
       LoadRefused, AfterLoad, SaveIndex, SaveRefused, LookUp, LookUpRefused,
       FallBack, Operations
  <2>2. job[g].store = "keyring" /\ job[g].key = job[p].key
    BY <1>1, <1>3, <1>4
  <2>3. ring[job[p].key] = IF pc[p] = "stored" THEN p ELSE None
    BY <1>4 DEF Sticks, Done, Roles
  <2> QED
    BY <1>4, <2>1, <2>2, <2>3 DEF LookUp, FallBack
<1> QED
  BY <1>5, <1>6

LEMMA NextSticks == TypeOK /\ Roles /\ Sticks /\ [Next]_vars => Sticks'
<1> SUFFICES ASSUME TypeOK, Roles, Sticks, [Next]_vars
             PROVE  Sticks'
  OBVIOUS
<1>1. CASE Next
  BY <1>1, NextDone, NextFound DEF Sticks, Started
<1>2. CASE UNCHANGED vars
  BY <1>2 DEF vars, Sticks, Done, Found, LastToWrite, LookupsAfter, Writers,
     Started
<1> QED
  BY <1>1, <1>2

(* What cred reports about a secret is what every later connect sees, for  *)
(* any number of commands in any interleaving, refused or killed anywhere. *)
THEOREM ReportedSecretsStick == Spec => []SecretSticks
<1>1. Roles /\ Sticks => SecretSticks
  BY DEF Roles, Sticks, Done, Found, SecretSticks, Ended, Started, Endings
<1> QED
  BY <1>1, InitType, InitRoles, InitSticks, NextType, NextRoles, NextSticks, PTL
     DEF Spec

-----------------------------------------------------------------------------
(* The index *)

LEMMA RefusedGrows ==
    ASSUME TypeOK, Next, NEW q \in Procs
    PROVE  refused[q] \subseteq refused'[q]
  BY DEF TypeOK, Next, Begin, Kill, WriteSecret, WriteRefused, DeleteSecret,
     DeleteRefused, LoadIndex, LoadRefused, SaveIndex, SaveRefused, LookUp,
     LookUpRefused, Refuse

(* Whatever makes a command unsettled stays. *)
LEMMA SettledBefore ==
    ASSUME TypeOK, Roles, Next, NEW p \in Ended, Settled(p)'
    PROVE  Settled(p)
<1>1. /\ pc'[p] = pc[p] /\ refused'[p] = refused[p]
      /\ job'[p] = job[p] /\ before'[p] = before[p]
  BY Fixed DEF Ended, Started, Endings
<1>2. \A q \in Writers : /\ q \in Writers' /\ refused[q] \subseteq refused'[q]
                         /\ job'[q] = job[q] /\ before'[q] = before[q]
  BY Fixed, RefusedGrows DEF Writers, Started
<1> QED
  BY <1>1, <1>2 DEF Settled

(* A command at work while p is settled started after p, and spares its key. *)
LEMMA WorkingAfterSettled ==
    ASSUME TypeOK, Roles, NEW p \in Ended, Settled(p), NEW q \in Procs,
           pc[q] \in {"write", "delete", "save"}
    PROVE  /\ p \in before[q] /\ "load" \notin refused[q]
           /\ job[q].key \notin {IndexKey, job[p].key}
<1>1. q \in Writers \ {p} /\ q \notin before[p]
  BY DEF Roles, Writers, Started, Ended, Endings
<1> QED
  BY <1>1 DEF Settled

(* The step by which p ends. *)
LEMMA EndingIsExact ==
    ASSUME TypeOK, Roles, NEW p \in Procs, p \notin Ended, Next, Settled(p)'
    PROVE  /\ job'[p].key \in Index' <=> pc'[p] = "stored"
           /\ \A q \in Started' : p \notin before'[q]
<1> USE DEF TypeOK, Goto, Refuse
<1>1. SaveIndex(p) \/ SaveRefused(p)
  BY DEF Settled, Ended, Endings, Next, Begin, Kill, WriteSecret, WriteRefused,
     DeleteSecret, DeleteRefused, LoadIndex, LoadRefused, AfterLoad, SaveIndex,
     SaveRefused, LookUp, LookUpRefused, FallBack
<1>2. SaveIndex(p)
  <2>1. SaveRefused(p) => refused'[p] # {}
    BY DEF SaveRefused
  <2> QED
    BY <1>1, <2>1 DEF Settled
<1>3. NewIndex(p) \in SUBSET Names
  BY <1>2 DEF SaveIndex, NewIndex, Started
<1>4. ring'[IndexKey] = [names |-> NewIndex(p)]
  BY <1>2 DEF SaveIndex, Store, Names
<1>5. Index' = NewIndex(p)
  BY <1>3, <1>4 DEF Index, Lists
<1>6. job'[p].key \in Index' <=> pc'[p] = "stored"
  BY <1>2, <1>5 DEF SaveIndex, NewIndex, Roles
<1>7. \A q \in Started' : p \notin before'[q]
  BY <1>2 DEF SaveIndex, Roles, Started
<1> QED
  BY <1>6, <1>7

LEMMA NextExact == TypeOK /\ Roles /\ IndexIsExact /\ [Next]_vars => IndexIsExact'
<1> SUFFICES ASSUME TypeOK, Roles, IndexIsExact, [Next]_vars
             PROVE  IndexIsExact'
  OBVIOUS
<1>1. CASE UNCHANGED vars
  BY <1>1 DEF vars, IndexIsExact, Settled, Index, Writers, Started, Ended
<1>2. CASE Next
  <2> USE DEF TypeOK, Goto, Refuse
  <2> SUFFICES ASSUME NEW p \in Procs, p \in Ended', Settled(p)'
               PROVE  /\ job'[p].key \in Index' <=> pc'[p] = "stored"
                      /\ \A q \in Started' :
                            /\ p \in before'[q] /\ "load" \notin refused'[q]
                            /\ job'[q].store = "keyring" /\ pc'[q] \in {"save", "listed"}
                            => (job'[p].key \in loaded'[q] <=> pc'[p] = "stored")
    BY DEF IndexIsExact, Ended
  <2>1. CASE p \notin Ended
    BY <1>2, <2>1, EndingIsExact
  <2>2. CASE p \in Ended
    <3>1. Settled(p) /\ pc'[p] = pc[p] /\ job'[p] = job[p]
      BY <1>2, <2>2, SettledBefore, Fixed DEF Ended, Started, Endings
    <3>2. job[p].key \in Index <=> pc[p] = "stored"
      BY <2>2, <3>1 DEF IndexIsExact
    <3>3. job[p].key \in Index' <=> pc[p] = "stored"
      <4>1. PICK q \in Procs :
                \/ WriteSecret(q) \/ DeleteSecret(q) \/ SaveIndex(q)
                \/ UNCHANGED ring
        BY <1>2 DEF Next, Begin, Kill, WriteRefused, DeleteRefused, LoadIndex,
           LoadRefused, SaveRefused, LookUp, LookUpRefused
      <4>2. CASE UNCHANGED ring
        BY <3>2, <4>2 DEF Index
      <4>3. CASE WriteSecret(q) \/ DeleteSecret(q)
        <5>1. job[q].key # IndexKey
          BY <2>2, <3>1, <4>3, WorkingAfterSettled DEF WriteSecret, DeleteSecret
        <5>2. ring'[IndexKey] = ring[IndexKey]
          BY <4>3, <5>1 DEF WriteSecret, DeleteSecret, Store, Names
        <5> QED
          BY <3>2, <5>2 DEF Index
      <4>4. CASE SaveIndex(q)
        <5>1. /\ p \in before[q] /\ "load" \notin refused[q]
              /\ job[q].key # job[p].key
          BY <2>2, <3>1, <4>4, WorkingAfterSettled DEF SaveIndex
        <5>2. job[p].key \in loaded[q] <=> pc[p] = "stored"
          BY <2>2, <3>1, <4>4, <5>1 DEF SaveIndex, IndexIsExact, Roles, Started
        <5>3. NewIndex(q) \in SUBSET Names
          BY <4>4 DEF SaveIndex, NewIndex, Started
        <5>4. ring'[IndexKey] = [names |-> NewIndex(q)]
          BY <4>4 DEF SaveIndex, Store, Names
        <5>5. Index' = NewIndex(q)
          BY <5>3, <5>4 DEF Index, Lists
        <5> QED
          BY <5>1, <5>2, <5>5 DEF NewIndex
      <4> QED
        BY <4>1, <4>2, <4>3, <4>4
    <3>4. ASSUME NEW q \in Procs, q \in Started', p \in before'[q],
                 "load" \notin refused'[q], job'[q].store = "keyring",
                 pc'[q] \in {"save", "listed"}
          PROVE  job[p].key \in loaded'[q] <=> pc[p] = "stored"
      <4>1. q \in Started
        BY <1>2, <3>4 DEF Started, Next, Begin, Kill, WriteSecret, WriteRefused,
           DeleteSecret, DeleteRefused, LoadIndex, LoadRefused, AfterLoad,
           SaveIndex, SaveRefused, LookUp, LookUpRefused, FallBack
      <4>2. p \in before[q] /\ "load" \notin refused[q] /\ job[q].store = "keyring"
        BY <1>2, <3>4, <4>1, Fixed, RefusedGrows
      <4>3. \/ LoadIndex(q)
            \/ loaded'[q] = loaded[q] /\ pc[q] \in {"save", "listed"}
        BY <1>2, <3>4, <4>1 DEF Started, Next, Begin, Kill, WriteSecret,
           WriteRefused, DeleteSecret, DeleteRefused, LoadIndex, LoadRefused,
           AfterLoad, SaveIndex, SaveRefused, LookUp, LookUpRefused, FallBack
      <4>4. CASE LoadIndex(q)
        BY <3>2, <4>2, <4>4 DEF LoadIndex
      <4>5. CASE loaded'[q] = loaded[q] /\ pc[q] \in {"save", "listed"}
        BY <2>2, <3>1, <4>1, <4>2, <4>5 DEF IndexIsExact
      <4> QED
        BY <4>3, <4>4, <4>5
    <3> QED
      BY <3>1, <3>3, <3>4 DEF Started
  <2> QED
    BY <2>1, <2>2
<1> QED
  BY <1>1, <1>2

(* A command that met no trouble is remembered by the index, whatever      *)
(* befalls the commands that come after it on other keys.                  *)
THEOREM IndexRemembersSettled == Spec => []IndexIsExact
<1>1. Init => IndexIsExact
  BY DEF Init, IndexIsExact, Ended, Endings
<1> QED
  BY <1>1, InitType, InitRoles, NextType, NextRoles, NextExact, PTL DEF Spec
=============================================================================
