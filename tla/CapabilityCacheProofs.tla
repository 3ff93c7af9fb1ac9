------------------------- MODULE CapabilityCacheProofs -------------------------
(***************************************************************************)
(* Proofs about the capability cache: type correctness, the verdict of     *)
(* check, what a readable cache holds, why one may be unreadable, where    *)
(* the hints of a session come from and that they fit into the budget.     *)
(***************************************************************************)
EXTENDS CapabilityCache, FiniteSetTheorems, TLAPS

(* c has a config and its --server argument names one of its servers. *)
Begun(c) ==
    /\ stage[c] # "idle"
    /\ loaded[c] # None
    /\ filter[c] # None => filter[c] \in loaded[c].servers

Scope(c) == IF filter[c] = None THEN loaded[c].servers ELSE {filter[c]}

(* How far a check has come, and what it knows by then: every server in    *)
(* scope is still to do, has answered, or has failed.                      *)
WalkOf(c) ==
    /\ stage[c] = "idle" => loaded[c] = None
    /\ stage[c] \in {"walk", "writing", "drop", "emit", "killed"} => Begun(c)
    /\ ~ Begun(c) => DOMAIN found[c] = {} /\ running[c] = {} /\ exit[c] # "ok"
    /\ Begun(c) =>
          /\ todo[c] \cup DOMAIN found[c] \subseteq Scope(c)
          /\ todo[c] \cap DOMAIN found[c] = {}
          /\ Scope(c) \subseteq todo[c] \cup DOMAIN found[c] \cup failed[c]
          /\ \A s \in DOMAIN found[c] \ failed[c] :
                Explicit(loaded[c], s) \subseteq found[c][s]
          /\ stage[c] # "walk" => todo[c] = {}
    /\ stage[c] \in {"emit", "done"} => running[c] = {}
    /\ exit[c] # "none" => stage[c] = "done"
    /\ exit[c] = "ok" => Begun(c) /\ failed[c] = {}
    /\ stage[c] = "writing" => MayWrite(c)

Walk == \A c \in Checks : WalkOf(c)

(* While nothing has gone wrong there is at most one writer, and it has    *)
(* the file to itself.                                                     *)
OneCleanWriter ==
    \/ torn
    \/ Writers = {} /\ file \notin {Empty, Broken}
    \/ \E c \in Checks : Writers = {c} /\ file = Empty

-----------------------------------------------------------------------------
(* Types *)

(* What it has found is sets of tools of some servers. *)
LEMMA InventoriesType ==
    ASSUME NEW f \in PartialInventories
    PROVE  DOMAIN f \subseteq Servers /\ \A s \in DOMAIN f : f[s] \subseteq Tools
  BY DEF PartialInventories

(* A summary is a set of tools. *)
LEMMA SummaryType ==
    ASSUME TypeOK, NEW c \in Configs, NEW s \in Servers
    PROVE  Summary(c, s) \subseteq Tools
<1>1. CASE ~ (Matches(c) /\ s \in DOMAIN file.tools)
  BY <1>1 DEF Summary
<1>2. CASE Matches(c) /\ s \in DOMAIN file.tools
  <2>1. file \in Bodies
    BY <1>2 DEF Matches, TypeOK
  <2>2. PICK d \in Configs, f \in PartialInventories : file = Body(d, f)
    BY <2>1 DEF Bodies
  <2>3. file.tools = f
    BY <2>2 DEF Body
  <2>4. file.tools[s] \subseteq Tools
    BY <1>2, <2>3, InventoriesType
  <2>. QED
    BY <1>2, <2>4 DEF Summary
<1>. QED
  BY <1>1, <1>2

LEMMA InitType == Init => TypeOK
<1> SUFFICES ASSUME Init PROVE TypeOK
  OBVIOUS
<1>1. [s \in {} |-> {}] \in PartialInventories
  <2>1. [s \in {} |-> {}] \in [{} -> SUBSET Tools]
    OBVIOUS
  <2>. QED
    BY <2>1 DEF PartialInventories
<1>2. found \in [Checks -> PartialInventories]
  BY <1>1 DEF Init
<1>3. /\ file \in Bodies \cup {None, Empty, Broken}
      /\ DOMAIN toc = Sessions
      /\ \A n \in Sessions : toc[n] = None
  BY DEF Init
<1>4. config \in Configs \cup {None} /\ live \in [Servers -> SUBSET Tools]
  BY DEF Init
<1>7. edits \in 0 .. Edits
  BY CostsAssumption DEF Init
<1>8. torn \in BOOLEAN
  BY DEF Init
<1>5. /\ stage \in [Checks -> Stages] /\ loaded \in [Checks -> Configs \cup {None}]
      /\ filter \in [Checks -> Servers \cup {None}] /\ writes \in [Checks -> BOOLEAN]
      /\ todo \in [Checks -> SUBSET Servers] /\ failed \in [Checks -> SUBSET Servers]
      /\ running \in [Checks -> SUBSET Servers]
      /\ exit \in [Checks -> {"none", "ok", "failure"}]
  BY DEF Init, Stages
<1>6. serving \in [Sessions -> Configs \cup {None}]
  BY DEF Init
<1>. QED
  BY <1>2, <1>3, <1>4, <1>5, <1>6, <1>7, <1>8 DEF TypeOK

(* A table of contents is a hint for every server. *)
LEMMA AdvertiseType ==
    ASSUME TypeOK, NEW n \in Sessions, Advertise(n)
    PROVE  /\ DOMAIN toc' = Sessions
           /\ \A m \in Sessions : m # n => toc'[m] = toc[m]
           /\ toc'[n] \in [serving[n].servers -> Hints]
<1> DEFINE c == serving[n]
<1>1. PICK names \in [c.servers -> SUBSET Tools] :
         /\ \A s \in c.servers : names[s] \subseteq Summary(c, s)
         /\ toc' = [toc EXCEPT ![n] = [s \in c.servers |->
                IF names[s] = {} THEN NoHint
                ELSE [names |-> names[s], more |-> Cardinality(Summary(c, s) \ names[s])]]]
  BY DEF Advertise
<1>2. c \in Configs /\ c.servers \subseteq Servers /\ DOMAIN toc = Sessions
  BY ConfigsAssumption DEF Advertise, TypeOK
<1>3. IsFiniteSet(Tools) /\ Cardinality(Tools) \in Nat
  BY ToolsAssumption, FS_CardinalityType
<1>4. ASSUME NEW s \in c.servers
      PROVE  Cardinality(Summary(c, s) \ names[s]) \in 0 .. Cardinality(Tools)
  <2>1. Summary(c, s) \ names[s] \subseteq Tools
    BY <1>2, SummaryType
  <2>2. /\ IsFiniteSet(Summary(c, s) \ names[s])
        /\ Cardinality(Summary(c, s) \ names[s]) <= Cardinality(Tools)
    BY <2>1, <1>3, FS_Subset
  <2>. QED
    BY <2>2, <1>3, FS_CardinalityType
<1>5. NoHint \in Hints
  BY <1>3 DEF NoHint, Hints
<1>6. toc'[n] = [s \in c.servers |->
                IF names[s] = {} THEN NoHint
                ELSE [names |-> names[s], more |-> Cardinality(Summary(c, s) \ names[s])]]
  BY <1>1, <1>2
<1>7. toc'[n] \in [c.servers -> Hints]
  BY <1>4, <1>5, <1>6 DEF Hints
<1>. QED
  BY <1>1, <1>2, <1>7

LEMMA NextType == TypeOK /\ Walk /\ [Next]_vars => TypeOK'
<1> SUFFICES ASSUME TypeOK, Walk, [Next]_vars PROVE TypeOK'
  OBVIOUS
<1> USE CostsAssumption DEF TypeOK, Goto, worldVars, checkVars, sessionVars, Stages
<1>0. \A c \in Configs : c.servers \subseteq Servers
  BY ConfigsAssumption
<1>1. CASE EditConfig
  BY <1>1 DEF EditConfig
<1>2. ASSUME NEW s \in Servers, UpstreamChanges(s) PROVE TypeOK'
  <2>1. Inventories[s] \subseteq SUBSET Tools
    BY InventoriesAssumption
  <2>2. live' \in [Servers -> SUBSET Tools]
    BY <1>2, <2>1 DEF UpstreamChanges
  <2>. QED
    BY <1>2, <2>2 DEF UpstreamChanges
<1>3. ASSUME NEW c \in Checks, StartCheck(c) PROVE TypeOK'
  <2>1. PICK s \in Servers \cup {None}, w \in BOOLEAN :
          /\ filter' = [filter EXCEPT ![c] = s]
          /\ writes' = [writes EXCEPT ![c] = w]
          /\ loaded' = [loaded EXCEPT ![c] = config]
          /\ \/ /\ Goto(c, "done")
                /\ exit' = [exit EXCEPT ![c] = "failure"]
                /\ UNCHANGED todo
             \/ /\ InScope(s)
                /\ Goto(c, "walk")
                /\ todo' = [todo EXCEPT ![c] = IF s = None THEN config.servers ELSE {s}]
                /\ UNCHANGED exit
    BY <1>3 DEF StartCheck
  <2>2. InScope(s) => (IF s = None THEN config.servers ELSE {s}) \in SUBSET Servers
    BY <1>0 DEF InScope
  <2>3. todo' \in [Checks -> SUBSET Servers]
    BY <2>1, <2>2
  <2>. QED
    BY <1>3, <2>1, <2>3 DEF StartCheck
<1>4. ASSUME NEW c \in Checks, InventoryServer(c) PROVE TypeOK'
  <2>1. PICK s \in todo[c] :
          /\ todo' = [todo EXCEPT ![c] = @ \ {s}]
          /\ found' = [found EXCEPT ![c] =
                [u \in DOMAIN @ \cup {s} |-> IF u = s THEN live[s] ELSE @[u]]]
          /\ failed' = [failed EXCEPT ![c] =
                IF Explicit(loaded[c], s) \subseteq live[s] THEN @ ELSE @ \cup {s}]
          /\ running' = [running EXCEPT ![c] = @ \cup {s}]
    BY <1>4 DEF InventoryServer
  <2>2. s \in Servers /\ live[s] \in SUBSET Tools /\ found[c] \in PartialInventories
    BY <2>1
  <2>3. found' \in [Checks -> PartialInventories]
    <3> DEFINE more == [u \in DOMAIN found[c] \cup {s} |->
                          IF u = s THEN live[s] ELSE found[c][u]]
    <3>1. more \in PartialInventories
      <4>1. PICK S \in SUBSET Servers : found[c] \in [S -> SUBSET Tools]
        BY <2>2 DEF PartialInventories
      <4>2. DOMAIN found[c] = S /\ \A u \in S : found[c][u] \in SUBSET Tools
        BY <4>1
      <4>3. more \in [S \cup {s} -> SUBSET Tools]
        BY <2>2, <4>2
      <4>4. S \cup {s} \in SUBSET Servers
        BY <2>2, <4>1
      <4>. QED
        BY <4>3, <4>4 DEF PartialInventories
    <3>2. found' = [found EXCEPT ![c] = more]
      BY <2>1
    <3> HIDE DEF more
    <3>. QED
      BY <3>1, <3>2
  <2>. QED
    BY <1>4, <2>1, <2>2, <2>3 DEF InventoryServer
<1>5. ASSUME NEW c \in Checks, InventoryFails(c) PROVE TypeOK'
  BY <1>5 DEF InventoryFails
<1>6. ASSUME NEW c \in Checks, NoWrite(c) \/ OpenCache(c) PROVE TypeOK'
  BY <1>6 DEF NoWrite, OpenCache
<1>7. ASSUME NEW c \in Checks, WriteCache(c) PROVE TypeOK'
  <2>0. loaded[c] \in Configs
    BY <1>7 DEF WriteCache, Walk, WalkOf, Begun
  <2>1. Body(loaded[c], found[c]) \in Bodies
    BY <2>0 DEF Bodies
  <2>2. file' \in Bodies \cup {None, Empty, Broken}
    BY <1>7, <2>1 DEF WriteCache
  <2>3. torn' \in BOOLEAN
    BY <1>7 DEF WriteCache
  <2>. QED
    BY <1>7, <2>2, <2>3 DEF WriteCache
<1>8. ASSUME NEW c \in Checks, WriteFails(c) \/ Kill(c) PROVE TypeOK'
  BY <1>8 DEF WriteFails, Kill
<1>9. ASSUME NEW c \in Checks, DropRegistry(c) \/ Emit(c) PROVE TypeOK'
  BY <1>9 DEF DropRegistry, Emit
<1>10. ASSUME NEW n \in Sessions, StartSession(n) PROVE TypeOK'
  BY <1>10 DEF StartSession
<1>11. ASSUME NEW n \in Sessions, Advertise(n) PROVE TypeOK'
  <2>1. toc'[n] # None => serving[n] # None
    BY <1>11 DEF Advertise
  <2>. QED
    BY <1>11, <2>1, AdvertiseType DEF Advertise
<1>12. CASE UNCHANGED vars
  BY <1>12 DEF vars
<1>. QED
  BY <1>1, <1>2, <1>3, <1>4, <1>5, <1>6, <1>7, <1>8, <1>9, <1>10, <1>11, <1>12 DEF Next, Check

-----------------------------------------------------------------------------
(* The walk *)

LEMMA InitWalk == Init => Walk
<1> SUFFICES ASSUME Init, NEW c \in Checks PROVE WalkOf(c)
  BY DEF Walk
<1>1. /\ stage[c] = "idle" /\ loaded[c] = None /\ exit[c] = "none"
      /\ running[c] = {} /\ DOMAIN found[c] = {}
  BY DEF Init
<1>. QED
  BY <1>1 DEF WalkOf, Begun

(* A check that takes no step stays where it is. *)
LEMMA OthersWalk ==
    ASSUME NEW d, WalkOf(d),
           stage'[d] = stage[d], loaded'[d] = loaded[d], filter'[d] = filter[d],
           writes'[d] = writes[d], todo'[d] = todo[d], found'[d] = found[d],
           failed'[d] = failed[d], running'[d] = running[d], exit'[d] = exit[d]
    PROVE  WalkOf(d)'
  BY DEF WalkOf, Begun, Scope, MayWrite, Explicit

(* It starts with every server in scope to do, or ends at once. *)
LEMMA StartWalk ==
    ASSUME TypeOK, Walk, NEW c \in Checks, StartCheck(c)
    PROVE  Walk'
<1> USE DEF Goto, worldVars, sessionVars
<1>1. ASSUME NEW d \in Checks, d # c PROVE WalkOf(d)'
  BY <1>1, OthersWalk DEF StartCheck, TypeOK, Walk
<1>2. /\ stage[c] = "idle" /\ ~ Begun(c)
      /\ DOMAIN found[c] = {} /\ running[c] = {} /\ exit[c] # "ok" /\ exit[c] = "none"
  BY DEF StartCheck, Walk, WalkOf, Begun, TypeOK
<1>3. found' = found /\ failed' = failed /\ running' = running
  BY DEF StartCheck
<1>4. PICK s \in Servers \cup {None} :
        /\ filter'[c] = s /\ loaded'[c] = config
        /\ \/ ~ InScope(s) /\ stage'[c] = "done" /\ exit'[c] = "failure"
           \/ /\ InScope(s) /\ stage'[c] = "walk" /\ exit' = exit
              /\ todo'[c] = IF s = None THEN config.servers ELSE {s}
  BY DEF StartCheck, TypeOK
<1>5. CASE ~ InScope(s)
  <2>1. ~ Begun(c)'
    BY <1>4, <1>5 DEF Begun, InScope
  <2>2. WalkOf(c)'
    BY <1>2, <1>3, <1>4, <1>5, <2>1 DEF WalkOf
  <2>. QED
    BY <1>1, <2>2 DEF Walk
<1>6. CASE InScope(s)
  <2>1. Begun(c)' /\ stage'[c] = "walk" /\ exit'[c] = "none"
    BY <1>2, <1>4, <1>6 DEF Begun, InScope
  <2>2. todo'[c] = Scope(c)'
    BY <1>4, <1>6 DEF Scope
  <2>3. WalkOf(c)'
    BY <1>2, <1>3, <2>1, <2>2 DEF WalkOf
  <2>. QED
    BY <1>1, <2>3 DEF Walk
<1>. QED
  BY <1>5, <1>6

(* A server in scope is taken off the list when it has answered or failed. *)
LEMMA ServerWalk ==
    ASSUME TypeOK, Walk, NEW c \in Checks, InventoryServer(c) \/ InventoryFails(c)
    PROVE  Walk'
<1> USE DEF worldVars, sessionVars
<1>1. ASSUME NEW d \in Checks, d # c PROVE WalkOf(d)'
  BY <1>1, OthersWalk DEF InventoryServer, InventoryFails, TypeOK, Walk
<1>2. /\ UNCHANGED <<stage, loaded, filter, writes, exit>>
      /\ stage[c] = "walk"
  BY DEF InventoryServer, InventoryFails
<1>3. Begun(c) /\ Begun(c)' /\ Scope(c)' = Scope(c) /\ exit[c] = "none"
  BY <1>2 DEF Walk, WalkOf, Begun, Scope, TypeOK
<1>4. /\ todo[c] \cup DOMAIN found[c] \subseteq Scope(c)
      /\ todo[c] \cap DOMAIN found[c] = {}
      /\ Scope(c) \subseteq todo[c] \cup DOMAIN found[c] \cup failed[c]
      /\ \A s \in DOMAIN found[c] \ failed[c] : Explicit(loaded[c], s) \subseteq found[c][s]
  BY <1>3 DEF Walk, WalkOf
<1>5. CASE InventoryServer(c)
  <2>1. PICK s \in todo[c] :
          /\ todo'[c] = todo[c] \ {s}
          /\ found'[c] = [u \in DOMAIN found[c] \cup {s} |->
                              IF u = s THEN live[s] ELSE found[c][u]]
          /\ failed'[c] = IF Explicit(loaded[c], s) \subseteq live[s]
                          THEN failed[c] ELSE failed[c] \cup {s}
    BY <1>5 DEF InventoryServer, TypeOK
  <2>2. /\ DOMAIN found'[c] = DOMAIN found[c] \cup {s}
        /\ \A u \in DOMAIN found'[c] :
              found'[c][u] = IF u = s THEN live[s] ELSE found[c][u]
        /\ failed[c] \subseteq failed'[c]
    BY <2>1
  <2>3. /\ todo'[c] \cup DOMAIN found'[c] \subseteq Scope(c)
        /\ todo'[c] \cap DOMAIN found'[c] = {}
        /\ Scope(c) \subseteq todo'[c] \cup DOMAIN found'[c] \cup failed'[c]
    BY <1>4, <2>1, <2>2
  <2>4. ASSUME NEW u \in DOMAIN found'[c] \ failed'[c]
        PROVE  Explicit(loaded[c], u) \subseteq found'[c][u]
    BY <1>4, <2>1, <2>2
  <2>5. WalkOf(c)'
    BY <1>2, <1>3, <2>3, <2>4 DEF WalkOf, Explicit
  <2>. QED
    BY <1>1, <2>5 DEF Walk
<1>6. CASE InventoryFails(c)
  <2>1. PICK s \in todo[c] :
          /\ todo'[c] = todo[c] \ {s}
          /\ failed'[c] = failed[c] \cup {s}
          /\ found'[c] = found[c]
    BY <1>6 DEF InventoryFails, TypeOK
  <2>2. /\ todo'[c] \cup DOMAIN found'[c] \subseteq Scope(c)
        /\ todo'[c] \cap DOMAIN found'[c] = {}
        /\ Scope(c) \subseteq todo'[c] \cup DOMAIN found'[c] \cup failed'[c]
        /\ \A u \in DOMAIN found'[c] \ failed'[c] :
              Explicit(loaded[c], u) \subseteq found'[c][u]
    BY <1>4, <2>1
  <2>3. WalkOf(c)'
    BY <1>2, <1>3, <2>2 DEF WalkOf, Explicit
  <2>. QED
    BY <1>1, <2>3 DEF Walk
<1>. QED
  BY <1>5, <1>6

(* From the end of the walk on only the stage moves, until the registry is *)
(* dropped and the result is out.                                          *)
LEMMA EndWalk ==
    ASSUME TypeOK, Walk, NEW c \in Checks,
           \/ NoWrite(c) \/ OpenCache(c) \/ WriteCache(c) \/ WriteFails(c)
           \/ DropRegistry(c) \/ Emit(c) \/ Kill(c)
    PROVE  Walk'
<1> USE DEF Goto, worldVars, sessionVars, WalkDone
<1>1. ASSUME NEW d \in Checks, d # c PROVE WalkOf(d)'
  <2>1. UNCHANGED <<loaded, filter, writes, todo, found, failed>>
    BY DEF NoWrite, OpenCache, WriteCache, WriteFails, DropRegistry, Emit, Kill
  <2>2. stage'[d] = stage[d]
    BY <1>1 DEF NoWrite, OpenCache, WriteCache, WriteFails, DropRegistry, Emit, Kill, TypeOK
  <2>3. running'[d] = running[d]
    BY <1>1 DEF NoWrite, OpenCache, WriteCache, WriteFails, DropRegistry, Emit, Kill, TypeOK
  <2>4. exit'[d] = exit[d]
    BY <1>1 DEF NoWrite, OpenCache, WriteCache, WriteFails, DropRegistry, Emit, Kill, TypeOK
  <2>. QED
    BY <1>1, <2>1, <2>2, <2>3, <2>4, OthersWalk DEF Walk
<1>2. /\ UNCHANGED <<loaded, filter, writes, todo, found, failed>>
      /\ stage[c] \in {"walk", "writing", "drop", "emit"}
      /\ stage[c] = "walk" => todo[c] = {}
  BY DEF NoWrite, OpenCache, WriteCache, WriteFails, DropRegistry, Emit, Kill
<1>3. /\ stage'[c] \in {"writing", "drop", "emit", "done", "killed"}
      /\ stage'[c] = "writing" => MayWrite(c)
      /\ stage'[c] = "emit" => running'[c] = {}
      /\ stage'[c] = "done" => stage[c] = "emit" /\ running' = running
  BY DEF NoWrite, OpenCache, WriteCache, WriteFails, DropRegistry, Emit, Kill, TypeOK
<1>4. /\ exit'[c] # "none" => exit' = exit \/ stage'[c] = "done"
      /\ exit'[c] = "ok" => exit' = exit \/ failed[c] = {}
  BY DEF NoWrite, OpenCache, WriteCache, WriteFails, DropRegistry, Emit, Kill, TypeOK
<1>5. Begun(c) /\ exit[c] = "none"
  BY <1>2 DEF Walk, WalkOf, TypeOK
<1>6. Begun(c)' /\ Scope(c)' = Scope(c)
  BY <1>2, <1>3, <1>5 DEF Begun, Scope
<1>7. /\ todo[c] = {}
      /\ DOMAIN found[c] \subseteq Scope(c)
      /\ Scope(c) \subseteq DOMAIN found[c] \cup failed[c]
      /\ \A s \in DOMAIN found[c] \ failed[c] : Explicit(loaded[c], s) \subseteq found[c][s]
      /\ stage[c] = "emit" => running[c] = {}
  BY <1>2, <1>5 DEF Walk, WalkOf
<1>8. WalkOf(c)'
  <2>1. Begun(c)' =>
          /\ todo'[c] \cup DOMAIN found'[c] \subseteq Scope(c)'
          /\ todo'[c] \cap DOMAIN found'[c] = {}
          /\ Scope(c)' \subseteq todo'[c] \cup DOMAIN found'[c] \cup failed'[c]
          /\ \A s \in DOMAIN found'[c] \ failed'[c] :
                Explicit(loaded'[c], s) \subseteq found'[c][s]
          /\ stage'[c] # "walk" => todo'[c] = {}
    BY <1>2, <1>6, <1>7
  <2>2. stage'[c] \in {"emit", "done"} => running'[c] = {}
    BY <1>3, <1>7
  <2>3. exit'[c] # "none" => stage'[c] = "done"
    BY <1>4, <1>5
  <2>4. exit'[c] = "ok" => failed'[c] = {}
    BY <1>2, <1>4, <1>5
  <2>5. stage'[c] = "writing" => MayWrite(c)'
    BY <1>2, <1>3 DEF MayWrite
  <2>. QED
    BY <1>3, <1>6, <2>1, <2>2, <2>3, <2>4, <2>5 DEF WalkOf, Explicit
<1>. QED
  BY <1>1, <1>8 DEF Walk

LEMMA NextWalk == TypeOK /\ Walk /\ [Next]_vars => Walk'
<1> SUFFICES ASSUME TypeOK, Walk, [Next]_vars PROVE Walk'
  OBVIOUS
<1>1. ASSUME UNCHANGED checkVars PROVE Walk'
  BY <1>1, OthersWalk DEF checkVars, Walk
<1>2. CASE EditConfig \/ (\E s \in Servers : UpstreamChanges(s))
  BY <1>1, <1>2 DEF EditConfig, UpstreamChanges
<1>3. CASE \E n \in Sessions : StartSession(n) \/ Advertise(n)
  BY <1>1, <1>3 DEF StartSession, Advertise
<1>4. CASE UNCHANGED vars
  BY <1>1, <1>4 DEF vars
<1>5. CASE \E c \in Checks : Check(c)
  BY <1>5, StartWalk, ServerWalk, EndWalk DEF Check
<1>. QED
  BY <1>2, <1>3, <1>4, <1>5 DEF Next

LEMMA TypeAndWalk == Spec => [](TypeOK /\ Walk)
  BY InitType, NextType, InitWalk, NextWalk, PTL DEF Spec

-----------------------------------------------------------------------------
(* What a passed check has found stays as it is. *)

LEMMA PassedStays ==
    ASSUME TypeOK, Walk, [Next]_vars, NEW c \in Checks, Passed(c)
    PROVE  /\ Passed(c)'
           /\ loaded'[c] = loaded[c] /\ found'[c] = found[c] /\ writes'[c] = writes[c]
<1>1. stage[c] # "idle" /\ todo[c] = {}
  <2>1. stage[c] # "idle"
    BY DEF Passed, Walk, WalkOf
  <2>2. Begun(c) /\ Scope(c) = loaded[c].servers
    BY <2>1 DEF Passed, Begun, Scope
  <2>3. todo[c] \subseteq Scope(c) /\ todo[c] \cap DOMAIN found[c] = {}
    BY <2>2 DEF Walk, WalkOf
  <2>. QED
    BY <2>1, <2>2, <2>3 DEF Passed
<1> DEFINE Same == /\ loaded'[c] = loaded[c] /\ filter'[c] = filter[c]
                   /\ writes'[c] = writes[c] /\ found'[c] = found[c]
                   /\ failed'[c] = failed[c]
<1>2. SUFFICES Same
  BY DEF Passed
<1> USE DEF worldVars, checkVars, sessionVars
<1>3. ASSUME UNCHANGED checkVars PROVE Same
  BY <1>3
<1>4. ASSUME NEW d \in Checks, Check(d) PROVE Same
  <2>1. CASE d = c
    <3>1. ~ StartCheck(d) /\ ~ InventoryServer(d) /\ ~ InventoryFails(d)
      BY <1>1, <2>1 DEF StartCheck, InventoryServer, InventoryFails
    <3>. QED
      BY <1>4, <3>1 DEF Check, NoWrite, OpenCache, WriteCache, WriteFails, DropRegistry,
         Emit, Kill
  <2>2. CASE d # c
    <3>1. CASE StartCheck(d)
      BY <2>2, <3>1 DEF StartCheck, TypeOK
    <3>2. CASE InventoryServer(d)
      BY <2>2, <3>2 DEF InventoryServer, TypeOK
    <3>3. CASE InventoryFails(d)
      BY <2>2, <3>3 DEF InventoryFails, TypeOK
    <3>. QED
      BY <1>4, <3>1, <3>2, <3>3 DEF Check, NoWrite, OpenCache, WriteCache, WriteFails,
         DropRegistry, Emit, Kill
  <2>. QED
    BY <2>1, <2>2
<1>. QED
  BY <1>3, <1>4 DEF Next, vars, EditConfig, UpstreamChanges, StartSession, Advertise

(* A check that is writing has passed. *)
LEMMA WriterPassed ==
    ASSUME Walk, NEW c \in Checks, stage[c] = "writing"
    PROVE  /\ Passed(c) /\ writes[c]
           /\ \A s \in loaded[c].servers : Explicit(loaded[c], s) \subseteq found[c][s]
<1>1. Begun(c) /\ MayWrite(c)
  BY DEF Walk, WalkOf
<1>2. Scope(c) = loaded[c].servers /\ failed[c] = {} /\ filter[c] = None /\ writes[c]
  BY <1>1 DEF MayWrite, Scope
<1>3. /\ todo[c] = {} /\ DOMAIN found[c] = Scope(c)
      /\ \A s \in DOMAIN found[c] : Explicit(loaded[c], s) \subseteq found[c][s]
  BY <1>1, <1>2 DEF Walk, WalkOf
<1>. QED
  BY <1>1, <1>2, <1>3 DEF Passed, Begun

LEMMA NextCache == TypeOK /\ Walk /\ CacheIsPreflight /\ [Next]_vars => CacheIsPreflight'
<1> SUFFICES ASSUME TypeOK, Walk, CacheIsPreflight, [Next]_vars,
                    file' \notin {None, Empty, Broken}
             PROVE  \E c \in Checks :
                       /\ Passed(c)' /\ writes'[c]
                       /\ file' = Body(loaded'[c], found'[c])
                       /\ \A s \in loaded'[c].servers :
                             Explicit(loaded'[c], s) \subseteq file'.tools[s]
  BY DEF CacheIsPreflight, Explicit
<1>1. CASE file' = file
  <2>1. PICK c \in Checks :
           /\ Passed(c) /\ writes[c]
           /\ file = Body(loaded[c], found[c])
           /\ \A s \in loaded[c].servers : Explicit(loaded[c], s) \subseteq file.tools[s]
    BY <1>1 DEF CacheIsPreflight
  <2>. QED
    BY <1>1, <2>1, PassedStays
<1>2. ASSUME NEW c \in Checks, WriteCache(c), file' = Body(loaded[c], found[c])
      PROVE  \E d \in Checks :
                /\ Passed(d)' /\ writes'[d]
                /\ file' = Body(loaded'[d], found'[d])
                /\ \A s \in loaded'[d].servers :
                      Explicit(loaded'[d], s) \subseteq file'.tools[s]
  <2>1. /\ Passed(c) /\ writes[c]
        /\ \A s \in loaded[c].servers : Explicit(loaded[c], s) \subseteq found[c][s]
    BY <1>2, WriterPassed DEF WriteCache
  <2>2. file'.tools = found[c]
    BY <1>2 DEF Body
  <2>. QED
    BY <1>2, <2>1, <2>2, PassedStays
<1>3. ASSUME file' # file
      PROVE  \E c \in Checks : WriteCache(c) /\ file' = Body(loaded[c], found[c])
  <2>1. ~ UNCHANGED vars
    BY <1>3 DEF vars
  <2>2. PICK c \in Checks : Check(c)
    BY <1>3, <2>1 DEF Next, EditConfig, UpstreamChanges, StartSession, Advertise
  <2>3. WriteCache(c)
    BY <1>3, <2>2 DEF Check, StartCheck, InventoryServer, InventoryFails, NoWrite, OpenCache,
       WriteFails, DropRegistry, Emit, Kill
  <2>. QED
    BY <2>3 DEF WriteCache
<1>. QED
  BY <1>1, <1>2, <1>3
-----------------------------------------------------------------------------
(* Why the cache may be unreadable *)

(* What a check writes can be read. *)
LEMMA BodiesReadable ==
    ASSUME TypeOK, Walk, NEW c \in Checks, stage[c] = "writing"
    PROVE  Body(loaded[c], found[c]) \notin {None, Empty, Broken}
<1>1. loaded[c] \in Configs /\ found[c] \in PartialInventories
  BY DEF Walk, WalkOf, Begun, TypeOK
<1>. QED
  BY <1>1, FilesAssumption DEF Bodies

LEMMA NextClean ==
    TypeOK /\ Walk /\ OneCleanWriter /\ [Next]_vars => OneCleanWriter'
<1> SUFFICES ASSUME TypeOK, Walk, OneCleanWriter, [Next]_vars PROVE OneCleanWriter'
  OBVIOUS
<1> USE DEF Goto, worldVars, checkVars, sessionVars, WalkDone
<1>1. ASSUME file' = file, torn' = torn, Writers' = Writers PROVE OneCleanWriter'
  BY <1>1 DEF OneCleanWriter
<1>2. ASSUME NEW c \in Checks, OpenCache(c) PROVE OneCleanWriter'
  <2>1. /\ file' = Empty /\ torn' = (torn \/ Writers # {})
        /\ stage[c] = "walk" /\ stage' = [stage EXCEPT ![c] = "writing"]
    BY <1>2 DEF OpenCache
  <2>2. Writers' = Writers \cup {c}
    BY <2>1 DEF Writers, TypeOK
  <2>3. CASE torn' 
    BY <2>3 DEF OneCleanWriter
  <2>4. CASE ~ torn'
    <3>1. Writers' = {c}
      BY <2>1, <2>2, <2>4
    <3>. QED
      BY <2>1, <3>1 DEF OneCleanWriter
  <2>. QED
    BY <2>3, <2>4
<1>3. ASSUME NEW c \in Checks, WriteCache(c) PROVE OneCleanWriter'
  <2> DEFINE mine == Body(loaded[c], found[c])
  <2>1. /\ IF file \in {Empty, mine} THEN file' = mine ELSE file' \in {mine, Broken}
        /\ torn' = (torn /\ ~ (file = Empty /\ Writers = {c}))
        /\ stage[c] = "writing" /\ stage' = [stage EXCEPT ![c] = "drop"]
    BY <1>3 DEF WriteCache
  <2>2. Writers' = Writers \ {c} /\ c \in Writers
    BY <2>1 DEF Writers, TypeOK
  <2>3. mine \notin {Empty, Broken}
    BY <2>1, BodiesReadable
  <2>4. CASE torn'
    BY <2>4 DEF OneCleanWriter
  <2>5. CASE ~ torn'
    <3>1. Writers = {c} /\ file = Empty
      BY <2>1, <2>2, <2>5 DEF OneCleanWriter
    <3>2. Writers' = {} /\ file' = mine
      BY <2>1, <2>2, <3>1
    <3>. QED
      BY <2>3, <3>2 DEF OneCleanWriter
  <2>. QED
    BY <2>4, <2>5
<1>4. ASSUME NEW c \in Checks, WriteFails(c) \/ Kill(c) PROVE OneCleanWriter'
  BY <1>4 DEF WriteFails, Kill, OneCleanWriter
<1>5. ASSUME NEW c \in Checks,
             \/ StartCheck(c) \/ InventoryServer(c) \/ InventoryFails(c)
             \/ NoWrite(c) \/ DropRegistry(c) \/ Emit(c)
      PROVE  OneCleanWriter'
  <2>1. file' = file /\ torn' = torn
    BY <1>5 DEF StartCheck, InventoryServer, InventoryFails, NoWrite, DropRegistry, Emit
  <2>2. \A d \in Checks : stage'[d] = "writing" <=> stage[d] = "writing"
    BY <1>5 DEF StartCheck, InventoryServer, InventoryFails, NoWrite, DropRegistry, Emit,
       TypeOK
  <2>3. Writers' = Writers
    BY <2>2 DEF Writers
  <2>. QED
    BY <1>1, <2>1, <2>3
<1>6. ASSUME UNCHANGED <<file, stage, torn>> PROVE OneCleanWriter'
  BY <1>1, <1>6 DEF Writers
<1>7. CASE \E c \in Checks : Check(c)
  BY <1>2, <1>3, <1>4, <1>5, <1>7 DEF Check
<1>. QED
  BY <1>6, <1>7 DEF Next, vars, EditConfig, UpstreamChanges, StartSession, Advertise

-----------------------------------------------------------------------------
(* Where hints come from *)

(* A hint is one that check c gives. *)
HintFrom(c, n, hints) ==
    \A s \in DOMAIN hints : hints[s] # NoHint =>
        LET permitted == {t \in found[c][s] : Permits(serving[n], s, t)}
        IN  /\ hints[s].names \subseteq permitted
            /\ hints[s].more = Cardinality(permitted \ hints[s].names)

(* A session that advertises a hint takes it from the check that wrote the *)
(* cache.                                                                  *)
LEMMA AdvertiseHints ==
    ASSUME TypeOK, CacheIsPreflight, NEW n \in Sessions, Advertise(n),
           NEW s0 \in DOMAIN toc'[n], toc'[n][s0] # NoHint
    PROVE  \E c \in Checks :
              /\ Passed(c) /\ Fingerprint(loaded[c]) = Fingerprint(serving[n])
              /\ HintFrom(c, n, toc'[n])
<1> DEFINE d == serving[n]
<1>1. PICK names \in [d.servers -> SUBSET Tools] :
         /\ \A s \in d.servers : names[s] \subseteq Summary(d, s)
         /\ toc' = [toc EXCEPT ![n] = [s \in d.servers |->
                IF names[s] = {} THEN NoHint
                ELSE [names |-> names[s], more |-> Cardinality(Summary(d, s) \ names[s])]]]
  BY DEF Advertise
<1>2. toc'[n] = [s \in d.servers |->
                IF names[s] = {} THEN NoHint
                ELSE [names |-> names[s], more |-> Cardinality(Summary(d, s) \ names[s])]]
  BY <1>1 DEF TypeOK
<1>3. /\ DOMAIN toc'[n] = d.servers
      /\ \A s \in d.servers : toc'[n][s] # NoHint =>
            /\ names[s] # {} /\ toc'[n][s].names = names[s]
            /\ toc'[n][s].more = Cardinality(Summary(d, s) \ names[s])
  BY <1>2
<1>4. \A s \in d.servers : names[s] # {} => Matches(d) /\ s \in DOMAIN file.tools
  BY <1>1 DEF Summary
<1>5. Matches(d)
  BY <1>3, <1>4
<1>6. PICK c \in Checks : Passed(c) /\ file = Body(loaded[c], found[c])
  BY <1>5 DEF Matches, CacheIsPreflight
<1>7. file.tools = found[c] /\ file.print = Fingerprint(loaded[c])
  BY <1>6 DEF Body
<1>8. \A s \in d.servers : names[s] # {} =>
         Summary(d, s) = {t \in found[c][s] : Permits(d, s, t)}
  BY <1>4, <1>7 DEF Summary
<1>9. HintFrom(c, n, toc'[n])
  BY <1>1, <1>3, <1>8 DEF HintFrom
<1>. QED
  BY <1>5, <1>6, <1>7, <1>9 DEF Matches

(* Only its own advertisements change a session's table of contents.       *)
LEMMA OnlyAdvertise ==
    ASSUME TypeOK, [Next]_vars, NEW n \in Sessions, ~ Advertise(n)
    PROVE  toc'[n] = toc[n]
<1> USE DEF worldVars, checkVars, sessionVars
<1>1. ASSUME NEW m \in Sessions, Advertise(m) PROVE toc'[n] = toc[n]
  BY <1>1, AdvertiseType
<1>. QED
  BY <1>1 DEF Next, vars, EditConfig, UpstreamChanges, StartSession, Check, StartCheck,
     InventoryServer, InventoryFails, NoWrite, OpenCache, WriteCache, WriteFails,
     DropRegistry, Emit, Kill

LEMMA NextHints ==
    /\ TypeOK /\ Walk /\ CacheIsPreflight /\ HintsComeFromCheck /\ [Next]_vars
    => HintsComeFromCheck'
<1> SUFFICES ASSUME TypeOK, Walk, CacheIsPreflight, HintsComeFromCheck, [Next]_vars,
                    NEW n \in Sessions, toc'[n] # None,
                    NEW s0 \in DOMAIN toc'[n], toc'[n][s0] # NoHint
             PROVE  \E c \in Checks :
                       /\ Passed(c)'
                       /\ Fingerprint(loaded'[c]) = Fingerprint(serving'[n])
                       /\ \A s \in DOMAIN toc'[n] : toc'[n][s] # NoHint =>
                             LET permitted == {t \in found'[c][s] : Permits(serving'[n], s, t)}
                             IN  /\ toc'[n][s].names \subseteq permitted
                                 /\ toc'[n][s].more = Cardinality(permitted \ toc'[n][s].names)
  BY DEF HintsComeFromCheck, NoHint, Fingerprint, Permits
<1> USE DEF worldVars, checkVars, sessionVars
\* the check is found before the step, and keeps
<1>1. SUFFICES /\ serving'[n] = serving[n]
               /\ \E c \in Checks :
                     /\ Passed(c) /\ Fingerprint(loaded[c]) = Fingerprint(serving[n])
                     /\ HintFrom(c, n, toc'[n])
  BY PassedStays DEF HintFrom
<1>2. CASE Advertise(n)
  BY <1>2, AdvertiseHints DEF Advertise
<1>3. CASE ~ Advertise(n)
  <2>1. toc'[n] = toc[n]
    BY <1>3, OnlyAdvertise
  <2>2. serving[n] # None
    BY <2>1 DEF TypeOK
  <2>3. serving'[n] = serving[n]
    <3>1. ASSUME NEW m \in Sessions, StartSession(m) PROVE serving'[n] = serving[n]
      BY <2>2, <3>1 DEF StartSession, TypeOK
    <3>. QED
      BY <3>1 DEF Next, vars, EditConfig, UpstreamChanges, Advertise, Check, StartCheck,
         InventoryServer, InventoryFails, NoWrite, OpenCache, WriteCache, WriteFails,
         DropRegistry, Emit, Kill
  <2>. QED
    BY <2>1, <2>3 DEF HintsComeFromCheck, HintFrom
<1>. QED
  BY <1>2, <1>3

-----------------------------------------------------------------------------
(* Sums *)

(* The recursive function behind SumFunctionOnSet.                         *)
IsSumOf(it, f, S) ==
    it = [T \in SUBSET S |->
             IF T = {} THEN 0 ELSE LET x == CHOOSE x \in T : TRUE IN f[x] + it[T \ {x}]]

(* The library's sum is that function at the set.                          *)
LEMMA SumIs ==
    ASSUME NEW f, NEW S
    PROVE  SumFunctionOnSet(f, S) = (CHOOSE it : IsSumOf(it, f, S))[S]
  BY DEF SumFunctionOnSet, FoldFunctionOnSet, MapThenFoldSet, IsSumOf

(* What it counts: f[x] units of each x.                                   *)
Units(f, T) == UNION {{x} \X (1 .. f[x]) : x \in T}

(* There are k units of an element that counts k.                          *)
LEMMA UnitsOfOne ==
    ASSUME NEW x, NEW k \in Nat
    PROVE  IsFiniteSet({x} \X (1..k)) /\ Cardinality({x} \X (1..k)) = k
<1> DEFINE g == [i \in 1..k |-> <<x, i>>]
<1>1. g \in [1..k -> {x} \X (1..k)]
  OBVIOUS
<1>2. \A a, b \in 1..k : g[a] = g[b] => a = b
  OBVIOUS
<1>3. ASSUME NEW t \in {x} \X (1..k) PROVE \E i \in 1..k : g[i] = t
  <2>1. t = <<x, t[2]>> /\ t[2] \in 1..k
    OBVIOUS
  <2>2. g[t[2]] = t
    BY <2>1
  <2>. QED
    BY <2>1, <2>2
<1> HIDE DEF g
<1>4. ExistsBijection(1..k, {x} \X (1..k))
  <2>1. g \in Injection(1..k, {x} \X (1..k))
    BY <1>1, <1>2 DEF Injection, IsInjective
  <2>2. g \in Surjection(1..k, {x} \X (1..k))
    BY <1>1, <1>3 DEF Surjection
  <2>. QED
    BY <2>1, <2>2 DEF ExistsBijection, Bijection
<1>5. IsFiniteSet(1..k) /\ Cardinality(1..k) = k
  BY FS_Interval
<1>. QED
  BY <1>4, <1>5, FS_Bijection

(* Adding an element adds its units.                                       *)
LEMMA UnitsAdd ==
    ASSUME NEW f, NEW T, NEW x \in T, f[x] \in Nat,
           IsFiniteSet(Units(f, T \ {x}))
    PROVE  /\ IsFiniteSet(Units(f, T))
           /\ Cardinality(Units(f, T)) = f[x] + Cardinality(Units(f, T \ {x}))
<1> DEFINE A == {x} \X (1 .. f[x])
           B == Units(f, T \ {x})
<1>1. Units(f, T) = A \cup B
  BY DEF Units
<1>2. A \cap B = {}
  BY DEF Units
<1>3. IsFiniteSet(A) /\ Cardinality(A) = f[x]
  BY UnitsOfOne
<1>4. Cardinality(A \cap B) = 0 /\ IsFiniteSet(B) /\ Cardinality(B) \in Nat
  BY <1>2, FS_EmptySet, FS_CardinalityType
<1> HIDE DEF A, B
<1>5. IsFiniteSet(A \cup B) /\ Cardinality(A \cup B) = f[x] + Cardinality(B)
  BY <1>3, <1>4, FS_Union
<1>. QED
  BY <1>1, <1>5 DEF B

(* Among the sets of subsets of a finite set that go wrong, one has no     *)
(* smaller one: what takes the place of an induction over finite sets.     *)
LEMMA SmallestSubset ==
    ASSUME NEW S, IsFiniteSet(S), NEW Bad \in SUBSET SUBSET S, Bad # {}
    PROVE  \E T \in Bad : \A U \in Bad : ~ (U \subseteq T /\ U # T)
<1>1. IsWellFoundedOn(StrictSubsetOrdering(S), SUBSET S)
  BY FS_StrictSubsetOrderingWellFounded, FS_FiniteSubsetsOfFinite
<1>2. PICK T \in Bad : \A U \in Bad : ~ (<<U, T>> \in StrictSubsetOrdering(S))
  BY <1>1, WFMin
<1>. QED
  BY <1>2 DEF StrictSubsetOrdering

(* There are finitely many units in a finite set.                          *)
LEMMA UnitsFinite ==
    ASSUME NEW S, IsFiniteSet(S), NEW f, \A x \in S : f[x] \in Nat
    PROVE  \A T \in SUBSET S : IsFiniteSet(Units(f, T))
<1> DEFINE Bad == {T \in SUBSET S : ~ IsFiniteSet(Units(f, T))}
<1>1. SUFFICES ASSUME Bad # {} PROVE FALSE
  OBVIOUS
<1>2. PICK T \in Bad : \A U \in Bad : ~ (U \subseteq T /\ U # T)
  <2>1. Bad \in SUBSET SUBSET S
    OBVIOUS
  <2> HIDE DEF Bad
  <2>. QED
    BY <1>1, <2>1, SmallestSubset
<1>3. CASE T = {}
  BY <1>3, FS_EmptySet DEF Units
<1>4. CASE T # {}
  <2>1. PICK x \in T : TRUE
    BY <1>4
  <2>2. IsFiniteSet(Units(f, T \ {x}))
    BY <1>2
  <2>. QED
    BY <2>2, UnitsAdd
<1>. QED
  BY <1>3, <1>4

(* The sum of natural numbers over a finite set is the number of units.    *)
LEMMA SumCounts ==
    ASSUME NEW S, IsFiniteSet(S), NEW f, \A x \in S : f[x] \in Nat
    PROVE  SumFunctionOnSet(f, S) = Cardinality(Units(f, S))
<1> DEFINE w == [T \in SUBSET S |-> Cardinality(Units(f, T))]
           it == CHOOSE g : IsSumOf(g, f, S)
<1>1. ASSUME NEW T \in SUBSET S
      PROVE  w[T] = IF T = {} THEN 0
                    ELSE LET x == CHOOSE x \in T : TRUE IN f[x] + w[T \ {x}]
  <2>1. CASE T = {}
    BY <2>1, FS_EmptySet DEF Units
  <2>2. CASE T # {}
    <3> DEFINE x == CHOOSE x \in T : TRUE
    <3>1. x \in T
      BY <2>2
    <3> HIDE DEF x
    <3>2. Cardinality(Units(f, T)) = f[x] + Cardinality(Units(f, T \ {x}))
      BY <3>1, UnitsFinite, UnitsAdd
    <3>3. w[T] = f[x] + w[T \ {x}]
      BY <3>2
    <3>. QED
      BY <2>2, <3>3 DEF x
  <2>. QED
    BY <2>1, <2>2
<1>2. IsSumOf(w, f, S)
  <2> DEFINE rhs == [T \in SUBSET S |->
             IF T = {} THEN 0 ELSE LET x == CHOOSE x \in T : TRUE IN f[x] + w[T \ {x}]]
  <2>1. \A T \in SUBSET S : w[T] = rhs[T]
    BY <1>1
  <2>2. w = rhs
    BY <2>1
  <2>. QED
    BY <2>2 DEF IsSumOf
<1>3. IsSumOf(it, f, S)
  BY <1>2
<1> HIDE DEF it
<1>4. \A T \in SUBSET S : it[T] = w[T]
  <2> DEFINE Bad == {T \in SUBSET S : it[T] # w[T]}
  <2>1. SUFFICES ASSUME Bad # {} PROVE FALSE
    OBVIOUS
  <2>2. PICK T \in Bad : \A U \in Bad : ~ (U \subseteq T /\ U # T)
    <3>1. Bad \in SUBSET SUBSET S
      OBVIOUS
    <3> HIDE DEF Bad
    <3>. QED
      BY <2>1, <3>1, SmallestSubset
  <2>3. it[T] = IF T = {} THEN 0
                ELSE LET x == CHOOSE x \in T : TRUE IN f[x] + it[T \ {x}]
    BY <1>3, <2>2 DEF IsSumOf
  <2>4. T # {} => it[T \ {CHOOSE x \in T : TRUE}] = w[T \ {CHOOSE x \in T : TRUE}]
    <3> DEFINE x == CHOOSE x \in T : TRUE
    <3>1. T # {} => x \in T
      OBVIOUS
    <3> HIDE DEF x
    <3>2. T # {} => T \ {x} \notin Bad /\ T \ {x} \in SUBSET S
      BY <2>2, <3>1
    <3>. QED
      BY <3>2 DEF x
  <2>. QED
    BY <1>1, <2>2, <2>3, <2>4
<1>. QED
  BY <1>4, SumIs DEF it

(* A part sums up to no more than the whole.                               *)
LEMMA SumOfPart ==
    ASSUME NEW S, IsFiniteSet(S), NEW f, \A x \in S : f[x] \in Nat, NEW T \in SUBSET S
    PROVE  /\ SumFunctionOnSet(f, T) \in Nat
           /\ SumFunctionOnSet(f, T) <= SumFunctionOnSet(f, S)
<1>1. IsFiniteSet(T) /\ \A x \in T : f[x] \in Nat
  BY FS_Subset
<1>2. Units(f, T) \subseteq Units(f, S)
  BY DEF Units
<1>3. IsFiniteSet(Units(f, S))
  BY UnitsFinite
<1>. QED
  BY <1>1, <1>2, <1>3, SumCounts, FS_Subset, FS_CardinalityType

(* One element's share can be taken out of a sum.                          *)
LEMMA SumWithout ==
    ASSUME NEW S, IsFiniteSet(S), NEW f, \A x \in S : f[x] \in Nat, NEW x \in S
    PROVE  SumFunctionOnSet(f, S) = f[x] + SumFunctionOnSet(f, S \ {x})
<1>1. IsFiniteSet(S \ {x}) /\ \A y \in S \ {x} : f[y] \in Nat
  BY FS_Subset
<1>2. IsFiniteSet(Units(f, S \ {x}))
  BY UnitsFinite
<1>3. Cardinality(Units(f, S)) = f[x] + Cardinality(Units(f, S \ {x}))
  BY <1>2, UnitsAdd
<1>. QED
  BY <1>1, <1>3, SumCounts

(* Functions that agree on a set have the same sum over it.                *)
LEMMA SumSame ==
    ASSUME NEW S, IsFiniteSet(S), NEW f, NEW g,
           \A x \in S : f[x] \in Nat /\ g[x] = f[x]
    PROVE  SumFunctionOnSet(f, S) = SumFunctionOnSet(g, S)
<1>1. Units(f, S) = Units(g, S)
  BY DEF Units
<1>. QED
  BY <1>1, SumCounts

-----------------------------------------------------------------------------
(* The budget *)

(* Of finitely many servers, one comes last. *)
LEMMA LastServer ==
    ASSUME NEW S \in SUBSET Servers, IsFiniteSet(S), S # {}
    PROVE  \E s \in S : \A u \in S \ {s} : Rank[u] < Rank[s]
<1> DEFINE After(s) == {u \in S : Rank[u] > Rank[s]}
           All == {After(s) : s \in S}
<1>1. \A s \in Servers : Rank[s] \in Int
  BY RankAssumption
<1>2. PICK T \in All : \A U \in All : ~ (U \subseteq T /\ U # T)
  <2>1. All \in SUBSET SUBSET S /\ All # {}
    OBVIOUS
  <2> HIDE DEF All
  <2>. QED
    BY <2>1, SmallestSubset
<1>3. PICK s \in S : T = After(s)
  BY <1>2
<1>4. ASSUME NEW u \in After(s) PROVE FALSE
  <2>1. u \in S /\ Rank[u] > Rank[s] /\ After(u) \in All
    BY <1>4
  <2>2. After(u) \subseteq After(s) /\ u \notin After(u)
    BY <1>1, <2>1
  <2>. QED
    BY <1>2, <1>3, <1>4, <2>1, <2>2
<1>5. ASSUME NEW u \in S \ {s} PROVE Rank[u] < Rank[s]
  BY <1>1, <1>4, RankAssumption
<1>. QED
  BY <1>5

(* The hints that are advertised fit, whatever the summaries are: the last *)
(* server with a hint fitted into what all the others had left.            *)
LEMMA GreedyFits ==
    ASSUME TypeOK, NEW c \in Configs, NEW names \in [c.servers -> SUBSET Tools],
           \A s \in c.servers : names[s] \subseteq Summary(c, s),
           Greedy(c, [s \in c.servers |-> Cardinality(names[s])]),
           NEW H, H = {s \in c.servers : names[s] # {}}, H # {}
    PROVE  LET shown == [s \in c.servers |-> Cardinality(names[s])]
           IN  /\ \A s \in H : Costs(c, shown)[s] \in Nat
               /\ LineCost * Cardinality(c.servers) + SumFunctionOnSet(Costs(c, shown), H)
                     <= Budget
<1> DEFINE shown == [s \in c.servers |-> Cardinality(names[s])]
           costs == Costs(c, shown)
           base == LineCost * Cardinality(c.servers)
<1>1. c.servers \subseteq Servers /\ IsFiniteSet(c.servers)
  BY ConfigsAssumption
<1>2. ASSUME NEW s \in c.servers
      PROVE  shown[s] \in Nat /\ Cardinality(Summary(c, s)) \in Nat
  BY <1>1, SummaryType, ToolsAssumption, FS_Subset, FS_CardinalityType
<1>3. ASSUME NEW s \in c.servers
      PROVE  costs[s] = Cost(shown[s], Cardinality(Summary(c, s))) /\ costs[s] \in Nat
  BY <1>2, CostsAssumption DEF Costs, Cost
<1>4. base \in Nat
  BY <1>1, CostsAssumption, FS_CardinalityType
<1>5. H \in SUBSET Servers /\ IsFiniteSet(H)
  BY <1>1, FS_Subset
<1>6. PICK s \in H : \A u \in H \ {s} : Rank[u] < Rank[s]
  BY <1>5, LastServer
<1>7. shown[s] > 0
  <2>1. IsFiniteSet(names[s]) /\ names[s] # {} /\ s \in c.servers
    BY <1>6, ToolsAssumption, FS_Subset
  <2>. QED
    BY <2>1, FS_EmptySet, FS_CardinalityType
<1> DEFINE before == {u \in c.servers : Rank[u] < Rank[s]}
<1>8. costs[s] <= HintBudget(c) - SumFunctionOnSet(costs, before)
  BY <1>3, <1>6, <1>7 DEF Greedy, Fits, Spent
<1>9. costs[s] > 0
  BY <1>2, <1>3, <1>6, <1>7, CostsAssumption DEF Cost
<1> HIDE DEF costs, shown, before, base
<1>10. SumFunctionOnSet(costs, H) = costs[s] + SumFunctionOnSet(costs, H \ {s})
  BY <1>3, <1>5, <1>6, SumWithout
<1>11. /\ SumFunctionOnSet(costs, H \ {s}) \in Nat
       /\ SumFunctionOnSet(costs, H \ {s}) <= SumFunctionOnSet(costs, before)
       /\ SumFunctionOnSet(costs, before) \in Nat
  <2>1. H \ {s} \in SUBSET before /\ before \in SUBSET c.servers
    BY <1>6 DEF before
  <2>2. IsFiniteSet(before) /\ \A u \in before : costs[u] \in Nat
    BY <1>1, <1>3, <2>1, FS_Subset
  <2>. QED
    BY <2>1, <2>2, SumOfPart
<1>12. HintBudget(c) > 0
  BY <1>2, <1>3, <1>6, <1>7, <1>8, <1>9, <1>11, <1>4, CostsAssumption DEF HintBudget, base
<1>13. HintBudget(c) = Budget - base
  BY <1>12 DEF HintBudget, base
<1>14. base + SumFunctionOnSet(costs, H) <= Budget
  BY <1>3, <1>4, <1>6, <1>8, <1>10, <1>11, <1>13, CostsAssumption
<1>. QED
  BY <1>3, <1>14 DEF costs, shown, base


(* What a table of contents costs. *)
Hinted(t) == {s \in DOMAIN t : t[s] # NoHint}
LineOf(t) == [s \in Hinted(t) |-> HintCost + Cardinality(t[s].names)
                                     + IF t[s].more > 0 THEN MoreCost ELSE 0]

(* One that is advertised costs what the greedy choice counted.            *)
LEMMA AdvertiseFits ==
    ASSUME TypeOK, NEW n \in Sessions, Advertise(n)
    PROVE  Hinted(toc'[n]) # {} =>
              LineCost * Cardinality(DOMAIN toc'[n])
                  + SumFunctionOnSet(LineOf(toc'[n]), Hinted(toc'[n])) <= Budget
<1> DEFINE c == serving[n]
           H == Hinted(toc'[n])
<1>0. SUFFICES ASSUME H # {}
               PROVE  LineCost * Cardinality(DOMAIN toc'[n])
                         + SumFunctionOnSet(LineOf(toc'[n]), H) <= Budget
  OBVIOUS
<1>1. PICK names \in [c.servers -> SUBSET Tools] :
         /\ \A s \in c.servers : names[s] \subseteq Summary(c, s)
         /\ Greedy(c, [s \in c.servers |-> Cardinality(names[s])])
         /\ toc' = [toc EXCEPT ![n] = [s \in c.servers |->
                IF names[s] = {} THEN NoHint
                ELSE [names |-> names[s], more |-> Cardinality(Summary(c, s) \ names[s])]]]
  BY DEF Advertise
<1> DEFINE shown == [s \in c.servers |-> Cardinality(names[s])]
<1>2. c \in Configs /\ c.servers \subseteq Servers /\ IsFiniteSet(c.servers)
  BY ConfigsAssumption DEF Advertise, TypeOK
<1>3. toc'[n] = [s \in c.servers |->
                IF names[s] = {} THEN NoHint
                ELSE [names |-> names[s], more |-> Cardinality(Summary(c, s) \ names[s])]]
  BY <1>1 DEF TypeOK
<1>4. DOMAIN toc'[n] = c.servers
  BY <1>3
<1>5. H = {s \in c.servers : names[s] # {}}
  BY <1>3 DEF Hinted, NoHint
<1>6. /\ \A s \in H : Costs(c, shown)[s] \in Nat
      /\ LineCost * Cardinality(c.servers) + SumFunctionOnSet(Costs(c, shown), H) <= Budget
  BY <1>0, <1>1, <1>2, <1>5, GreedyFits
<1>7. ASSUME NEW s \in H PROVE LineOf(toc'[n])[s] = Costs(c, shown)[s]
  <2>1. s \in c.servers /\ names[s] # {} /\ names[s] \subseteq Summary(c, s)
    BY <1>1, <1>5
  <2>2. IsFiniteSet(Summary(c, s)) /\ IsFiniteSet(names[s])
    BY <1>2, <2>1, SummaryType, ToolsAssumption, FS_Subset
  <2>3. Cardinality(names[s]) # 0 /\ Cardinality(names[s]) \in Nat
    BY <2>1, <2>2, FS_EmptySet, FS_CardinalityType
  <2>4. Cardinality(Summary(c, s) \ names[s])
           = Cardinality(Summary(c, s)) - Cardinality(names[s])
    <3>1. names[s] = names[s] \cap Summary(c, s)
      BY <2>1
    <3>2. Cardinality(Summary(c, s) \ names[s])
            = Cardinality(Summary(c, s)) - Cardinality(Summary(c, s) \cap names[s])
      BY <2>2, FS_Difference
    <3>. QED
      BY <3>1, <3>2
  <2>5. Cardinality(Summary(c, s)) \in Nat
    BY <2>2, FS_CardinalityType
  <2>6. LineOf(toc'[n])[s] = HintCost + Cardinality(names[s])
           + IF Cardinality(Summary(c, s) \ names[s]) > 0 THEN MoreCost ELSE 0
    BY <1>3, <2>1 DEF LineOf
  <2>7. Costs(c, shown)[s] = Cost(Cardinality(names[s]), Cardinality(Summary(c, s)))
    BY <2>1 DEF Costs
  <2>. QED
    BY <2>3, <2>4, <2>5, <2>6, <2>7, CostsAssumption DEF Cost
<1>8. IsFiniteSet(H)
  BY <1>2, <1>5, FS_Subset
<1> HIDE DEF H, shown, c
<1>9. SumFunctionOnSet(Costs(c, shown), H) = SumFunctionOnSet(LineOf(toc'[n]), H)
  BY <1>6, <1>7, <1>8, SumSame
<1>. QED
  BY <1>4, <1>6, <1>9

LEMMA NextFit == TypeOK /\ Walk /\ HintsFit /\ [Next]_vars => HintsFit'
<1> SUFFICES ASSUME TypeOK, Walk, HintsFit, [Next]_vars, NEW n \in Sessions, toc'[n] # None
             PROVE  /\ DOMAIN toc'[n] = serving'[n].servers
                    /\ Hinted(toc'[n]) # {} =>
                          LineCost * Cardinality(DOMAIN toc'[n])
                             + SumFunctionOnSet(LineOf(toc'[n]), Hinted(toc'[n])) <= Budget
  BY DEF HintsFit, Hinted, LineOf
<1>1. DOMAIN toc'[n] = serving'[n].servers
  BY NextType DEF TypeOK
<1>2. CASE Advertise(n)
  BY <1>1, <1>2, AdvertiseFits
<1>3. CASE ~ Advertise(n)
  <2>1. toc'[n] = toc[n]
    BY <1>3, OnlyAdvertise
  <2>. QED
    BY <1>1, <2>1 DEF HintsFit, Hinted, LineOf
<1>. QED
  BY <1>2, <1>3

-----------------------------------------------------------------------------
(* The theorems *)

(* Every variable keeps its type, whatever the configs and inventories.    *)
THEOREM TypeCorrect == Spec => []TypeOK
  BY TypeAndWalk, PTL

(* A check reports success only if every server in scope answered with     *)
(* every tool its filter names.                                            *)
THEOREM VerdictSound == Spec => []VerdictIsSound
<1>1. Walk => VerdictIsSound
  <2> SUFFICES ASSUME Walk, NEW c \in Checks, exit[c] = "ok"
               PROVE  /\ loaded[c] # None
                      /\ DOMAIN found[c] = Scope(c)
                      /\ \A s \in DOMAIN found[c] : Explicit(loaded[c], s) \subseteq found[c][s]
    BY DEF VerdictIsSound, Scope
  <2>1. Begun(c) /\ failed[c] = {} /\ stage[c] = "done"
    BY DEF Walk, WalkOf
  <2>. QED
    BY <2>1 DEF Walk, WalkOf, Begun
<1>. QED
  BY <1>1, TypeAndWalk, PTL

(* No upstream of a check outlives its result.                             *)
THEOREM NothingOutlivesTheResult == Spec => []NothingLeftRunning
<1>1. Walk => NothingLeftRunning
  BY DEF Walk, WalkOf, NothingLeftRunning
<1>. QED
  BY <1>1, TypeAndWalk, PTL

(* However many checks write it, what can be read from the cache file is   *)
(* the result of one passed check.                                         *)
THEOREM CacheFromOneCheck == Spec => []CacheIsPreflight
<1>1. Init => CacheIsPreflight
  BY DEF Init, CacheIsPreflight
<1>. QED
  BY <1>1, NextCache, TypeAndWalk, PTL DEF Spec

(* However many checks write it, the cache is unreadable only after a      *)
(* write that was disturbed.                                               *)
THEOREM UnreadableOnlyForCause == Spec => []UnreadableForCause
<1>1. Init => OneCleanWriter
  <2> SUFFICES ASSUME Init PROVE OneCleanWriter
    OBVIOUS
  <2>1. file = None /\ Writers = {}
    BY DEF Init, Writers
  <2>. QED
    BY <2>1, FilesAssumption DEF OneCleanWriter
<1>2. OneCleanWriter => UnreadableForCause
  BY DEF OneCleanWriter, UnreadableForCause
<1>. QED
  BY <1>1, <1>2, NextClean, TypeAndWalk, PTL DEF Spec

(* However many checks and sessions there are, a hint comes from one       *)
(* passed check of a config with the session's fingerprint.                *)
THEOREM HintsFromOneCheck == Spec => []HintsComeFromCheck
<1>1. Init => HintsComeFromCheck
  BY DEF Init, HintsComeFromCheck
<1>. QED
  BY <1>1, NextHints, CacheFromOneCheck, TypeAndWalk, PTL DEF Spec

(* Whatever the configs, inventories and costs are, a session's hints stay *)
(* within what the instructions' budget leaves.                            *)
THEOREM HintsWithinBudget == Spec => []HintsFit
<1>1. Init => HintsFit
  BY DEF Init, HintsFit
<1>. QED
  BY <1>1, NextFit, TypeAndWalk, PTL DEF Spec
=============================================================================
