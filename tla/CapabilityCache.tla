---------------------------- MODULE CapabilityCache ----------------------------
(***************************************************************************)
(* The capability cache of fanin-mcp: `check' processes that inventory a   *)
(* namespace's servers and write the cache file (src/src/check.rs), and    *)
(* `serve' sessions that read it for the hints of their table of contents  *)
(* (configured_toc of src/src/server.rs).  The processes share nothing but *)
(* the config file and the cache file of one namespace, which the code     *)
(* neither locks nor replaces atomically.                                  *)
(***************************************************************************)
EXTENDS Integers, FiniteSets, Functions

CONSTANTS
    Checks,         \* runs of fanin-mcp check
    Sessions,       \* runs of fanin-mcp serve
    Servers,        \* server names of the config files
    Rank,           \* the sorted order of server names
    Tools,          \* tool names
    Configs,        \* valid contents of the config file, resolved
    None,           \* an invalid config, no file, no --server, no ToC
    Empty,          \* a cache file just truncated
    Broken,         \* a cache file that is no complete JSON document
    Inventories,    \* what each server's upstream may list
    Budget,         \* INSTRUCTIONS_BUDGET
    LineCost,       \* a server's line in the ToC
    HintCost,       \* " (tools: )"; a tool name in it costs 1
    MoreCost,       \* " +k more"
    Edits,          \* bound: changes of the config and of the upstreams
    Kills           \* bound: checks that are killed in a write

(* A resolved config: the namespace ACL, the server fields the fingerprint *)
(* covers (command, args, endpoint, ...) and those it leaves out (env,     *)
(* headers).                                                               *)
ASSUME ConfigsAssumption ==
    /\ None \notin Configs
    /\ \A c \in Configs : /\ DOMAIN c = {"servers", "tools", "visible", "hidden"}
                          /\ c.servers \subseteq Servers /\ IsFiniteSet(c.servers)
                          /\ DOMAIN c.tools \subseteq c.servers
                          /\ \A s \in DOMAIN c.tools : c.tools[s] \subseteq Tools
ASSUME ToolsAssumption == IsFiniteSet(Tools)
ASSUME RankAssumption ==
    /\ Rank \in [Servers -> Int]
    /\ \A s, u \in Servers : Rank[s] = Rank[u] => s = u
ASSUME InventoriesAssumption == Inventories \in [Servers -> SUBSET SUBSET Tools]
ASSUME CostsAssumption ==
    /\ Budget \in Nat /\ LineCost \in Nat /\ HintCost \in Nat /\ MoreCost \in Nat
    /\ Edits \in Nat /\ Kills \in Nat

VARIABLES
    config,     \* the config file
    file,       \* the cache file
    live,       \* each upstream's current inventory
    edits,      \* changes of the two above so far
    stage,      \* where each check is
    loaded,     \* the config each check has loaded
    filter,     \* its --server argument
    writes,     \* whether it runs without --no-cache-write
    todo,       \* servers it has not inventoried yet
    found,      \* the inventories it has collected
    failed,     \* the servers its errors name
    running,    \* the upstreams its registry has open
    exit,       \* what it reported
    serving,    \* the config each session runs under
    toc,        \* the table of contents it last advertised
    torn        \* history: a write failed, died or overlapped another since
                \* the last undisturbed one

checkVars == <<stage, loaded, filter, writes, todo, found, failed, running, exit>>
sessionVars == <<serving, toc>>
worldVars == <<config, live, edits>>
vars == <<worldVars, file, checkVars, sessionVars, torn>>

(* config_fingerprint.                                                     *)
Fingerprint(c) == [servers |-> c.servers, tools |-> c.tools, visible |-> c.visible]

(* What check writes: the inventories of the allowed servers, unfiltered.  *)
Body(c, inventories) == [print |-> Fingerprint(c), tools |-> inventories]
PartialInventories == UNION {[S -> SUBSET Tools] : S \in SUBSET Servers}
Bodies == {Body(c, f) : c \in Configs, f \in PartialInventories}

ASSUME FilesAssumption ==
    None \notin {Empty, Broken} /\ {None, Empty, Broken} \cap Bodies = {}

Permits(c, s, t) == s \in c.servers /\ (s \in DOMAIN c.tools => t \in c.tools[s])
Explicit(c, s) == IF s \in DOMAIN c.tools THEN c.tools[s] ELSE {}

(* A server's hint: the names it shows and how many it leaves out.         *)
Hints == [names : SUBSET Tools, more : 0..Cardinality(Tools)]
NoHint == [names |-> {}, more |-> 0]

Stages == {"idle", "walk", "writing", "drop", "emit", "done", "killed"}
Writers == {c \in Checks : stage[c] = "writing"}

TypeOK ==
    /\ config \in Configs \cup {None}
    /\ file \in Bodies \cup {None, Empty, Broken}
    /\ live \in [Servers -> SUBSET Tools]
    /\ edits \in 0..Edits
    /\ stage \in [Checks -> Stages]
    /\ loaded \in [Checks -> Configs \cup {None}]
    /\ filter \in [Checks -> Servers \cup {None}]
    /\ writes \in [Checks -> BOOLEAN]
    /\ todo \in [Checks -> SUBSET Servers]
    /\ found \in [Checks -> PartialInventories]
    /\ failed \in [Checks -> SUBSET Servers]
    /\ running \in [Checks -> SUBSET Servers]
    /\ exit \in [Checks -> {"none", "ok", "failure"}]
    /\ serving \in [Sessions -> Configs \cup {None}]
    /\ DOMAIN toc = Sessions
    /\ \A n \in Sessions :
          toc[n] # None => serving[n] # None /\ toc[n] \in [serving[n].servers -> Hints]
    /\ torn \in BOOLEAN

Init ==
    /\ config \in Configs \cup {None}
    /\ file = None
    /\ live \in [Servers -> SUBSET Tools]
    /\ \A s \in Servers : live[s] \in Inventories[s]
    /\ edits = 0
    /\ stage = [c \in Checks |-> "idle"]
    /\ loaded = [c \in Checks |-> None]
    /\ filter = [c \in Checks |-> None]
    /\ writes = [c \in Checks |-> TRUE]
    /\ todo = [c \in Checks |-> {}]
    /\ found = [c \in Checks |-> [s \in {} |-> {}]]
    /\ failed = [c \in Checks |-> {}]
    /\ running = [c \in Checks |-> {}]
    /\ exit = [c \in Checks |-> "none"]
    /\ serving = [n \in Sessions |-> None]
    /\ toc = [n \in Sessions |-> None]
    /\ torn = FALSE

-----------------------------------------------------------------------------
(* The world: the user edits the config, upstreams change what they list *)

EditConfig ==
    /\ edits < Edits /\ edits' = edits + 1
    /\ config' \in (Configs \cup {None}) \ {config}
    /\ UNCHANGED <<live, file, checkVars, sessionVars, torn>>

UpstreamChanges(s) ==
    /\ edits < Edits /\ edits' = edits + 1
    /\ \E inv \in Inventories[s] \ {live[s]} : live' = [live EXCEPT ![s] = inv]
    /\ UNCHANGED <<config, file, checkVars, sessionVars, torn>>

-----------------------------------------------------------------------------
(* check *)

Goto(c, s) == stage' = [stage EXCEPT ![c] = s]

InScope(s) == config # None /\ (s # None => s \in config.servers)

(* The config is loaded, validated and resolved; a --server argument must  *)
(* name a server of the namespace.  Otherwise the failure is reported at   *)
(* once, no registry having been built.                                    *)
StartCheck(c) ==
    /\ stage[c] = "idle"
    /\ \E s \in Servers \cup {None}, w \in BOOLEAN :
          /\ filter' = [filter EXCEPT ![c] = s]
          /\ writes' = [writes EXCEPT ![c] = w]
          /\ loaded' = [loaded EXCEPT ![c] = config]
          /\ \/ /\ ~InScope(s)
                /\ Goto(c, "done")
                /\ exit' = [exit EXCEPT ![c] = "failure"]
                /\ UNCHANGED todo
             \/ /\ InScope(s)
                /\ Goto(c, "walk")
                /\ todo' = [todo EXCEPT ![c] = IF s = None THEN config.servers ELSE {s}]
                /\ UNCHANGED exit
    /\ UNCHANGED <<worldVars, file, found, failed, running, sessionVars, torn>>

First(c, s) == s \in todo[c] /\ \A u \in todo[c] : Rank[s] <= Rank[u]

(* A server answers: its tools are kept, and it fails the check if a tool  *)
(* its filter names is not among them.                                     *)
InventoryServer(c) ==
    /\ stage[c] = "walk"
    /\ \E s \in todo[c] :
          /\ First(c, s)
          /\ todo' = [todo EXCEPT ![c] = @ \ {s}]
          /\ found' = [found EXCEPT ![c] =
                [u \in DOMAIN @ \cup {s} |-> IF u = s THEN live[s] ELSE @[u]]]
          /\ failed' = [failed EXCEPT ![c] =
                IF Explicit(loaded[c], s) \subseteq live[s] THEN @ ELSE @ \cup {s}]
          /\ running' = [running EXCEPT ![c] = @ \cup {s}]
    /\ UNCHANGED <<worldVars, file, stage, loaded, filter, writes, exit, sessionVars, torn>>

(* As if a server that does not answer were skipped.                       *)
SkipServer(c) ==
    /\ stage[c] = "walk"
    /\ \E s \in todo[c] : First(c, s) /\ todo' = [todo EXCEPT ![c] = @ \ {s}]
    /\ UNCHANGED <<worldVars, file, stage, loaded, filter, writes, found, failed, running,
                   exit, sessionVars, torn>>

(* A server fails or times out: the walk goes on with the next.            *)
InventoryFails(c) ==
    /\ stage[c] = "walk"
    /\ \E s \in todo[c] :
          /\ First(c, s)
          /\ todo' = [todo EXCEPT ![c] = @ \ {s}]
          /\ failed' = [failed EXCEPT ![c] = @ \cup {s}]
    /\ UNCHANGED <<worldVars, file, stage, loaded, filter, writes, found, running, exit,
                   sessionVars, torn>>

WalkDone(c) == stage[c] = "walk" /\ todo[c] = {}

(* As if only the flags decided.                                           *)
MayWriteFailed(c) == filter[c] = None /\ writes[c]

MayWrite(c) == failed[c] = {} /\ filter[c] = None /\ writes[c]

(* No write: it is not due, or the cache directory cannot be used.         *)
NoWrite(c) ==
    /\ WalkDone(c)
    /\ Goto(c, "drop")
    /\ UNCHANGED <<worldVars, file, loaded, filter, writes, todo, found, failed, running,
                   exit, sessionVars, torn>>

(* As if the file were opened for writing without truncating it.           *)
OpenCacheKeeps(c) ==
    /\ WalkDone(c) /\ MayWrite(c)
    /\ Goto(c, "writing")
    /\ file' = IF file = None THEN Empty ELSE file
    /\ torn' = (torn \/ Writers # {})
    /\ UNCHANGED <<worldVars, loaded, filter, writes, todo, found, failed, running, exit,
                   sessionVars>>

(* fs::write creates or truncates the file, ...                            *)
OpenCache(c) ==
    /\ WalkDone(c) /\ MayWrite(c)
    /\ Goto(c, "writing")
    /\ file' = Empty
    /\ torn' = (torn \/ Writers # {})
    /\ UNCHANGED <<worldVars, loaded, filter, writes, todo, found, failed, running, exit,
                   sessionVars>>

(* ... then writes from its start.  What another writer put there since is *)
(* overwritten, up to the shorter of the two.                              *)
WriteCache(c) ==
    /\ stage[c] = "writing"
    /\ LET mine == Body(loaded[c], found[c])
       IN  IF file \in {Empty, mine} THEN file' = mine ELSE file' \in {mine, Broken}
    /\ torn' = (torn /\ ~(file = Empty /\ Writers = {c}))
    /\ Goto(c, "drop")
    /\ UNCHANGED <<worldVars, loaded, filter, writes, todo, found, failed, running, exit,
                   sessionVars>>

(* The write fails in the middle; the check only logs it.                  *)
WriteFails(c) ==
    /\ stage[c] = "writing"
    /\ file' \in {file, Broken}
    /\ torn' = TRUE
    /\ Goto(c, "drop")
    /\ UNCHANGED <<worldVars, loaded, filter, writes, todo, found, failed, running, exit,
                   sessionVars>>

(* As if the registry were still there when the result is printed.         *)
DropLater(c) ==
    /\ stage[c] = "drop"
    /\ Goto(c, "emit")
    /\ UNCHANGED <<worldVars, file, loaded, filter, writes, todo, found, failed, running,
                   exit, sessionVars, torn>>

(* drop(registry): every containment guard fires.                          *)
DropRegistry(c) ==
    /\ stage[c] = "drop"
    /\ Goto(c, "emit")
    /\ running' = [running EXCEPT ![c] = {}]
    /\ UNCHANGED <<worldVars, file, loaded, filter, writes, todo, found, failed, exit,
                   sessionVars, torn>>

(* A result that cannot be printed is a failure too.                       *)
Emit(c) ==
    /\ stage[c] = "emit"
    /\ Goto(c, "done")
    /\ \E code \in {"ok", "failure"} : /\ code = "ok" => failed[c] = {}
                                      /\ exit' = [exit EXCEPT ![c] = code]
    /\ UNCHANGED <<worldVars, file, loaded, filter, writes, todo, found, failed, running,
                   sessionVars, torn>>

(* A check is killed in the middle of its write.  (Killed at any other     *)
(* point it leaves nothing behind that a check which just takes no further *)
(* step does not, and no fairness makes it take one.)                      *)
Kill(c) ==
    /\ stage[c] = "writing"
    /\ Cardinality({d \in Checks : stage[d] = "killed"}) < Kills
    /\ Goto(c, "killed")
    /\ file' \in {file, Broken}
    /\ torn' = TRUE
    /\ UNCHANGED <<worldVars, loaded, filter, writes, todo, found, failed, running,
                   exit, sessionVars>>

-----------------------------------------------------------------------------
(* serve *)

(* As if a running session took up an edited config.                       *)
ReloadSession(n) ==
    /\ config # None
    /\ serving' = [serving EXCEPT ![n] = config]
    /\ UNCHANGED <<worldVars, file, checkVars, toc, torn>>

StartSession(n) ==
    /\ serving[n] = None /\ config # None
    /\ serving' = [serving EXCEPT ![n] = config]
    /\ UNCHANGED <<worldVars, file, checkVars, toc, torn>>

(* As if any readable cache would do.                                      *)
MatchesAny(c) == file \notin {None, Empty, Broken}

(* matching_cache_tool_summaries: the cached tools of the servers and with *)
(* the names the live ACL permits, if the cache is this config's.          *)
Matches(c) == file \notin {None, Empty, Broken} /\ file.print = Fingerprint(c)

(* As if the cache had been filtered when it was written.                  *)
SummaryUnfiltered(c, s) ==
    IF Matches(c) /\ s \in DOMAIN file.tools THEN file.tools[s] ELSE {}

Summary(c, s) ==
    IF Matches(c) /\ s \in DOMAIN file.tools
    THEN {t \in file.tools[s] : Permits(c, s, t)} ELSE {}

(* What a hint showing k of n names costs.                                 *)
Cost(k, n) == IF k = 0 THEN 0 ELSE HintCost + k + IF k < n THEN MoreCost ELSE 0

(* The budget that is left for hints once every server has its line; it    *)
(* saturates at zero.                                                      *)
HintBudget(c) == LET base == LineCost * Cardinality(c.servers)
                 IN  IF base <= Budget THEN Budget - base ELSE 0

Costs(c, shown) == [s \in c.servers |-> Cost(shown[s], Cardinality(Summary(c, s)))]
Spent(c, shown, S) == SumFunctionOnSet(Costs(c, shown), S)

(* As if every server had the whole budget.                                *)
FitsAlone(c, shown, s, k) == Cost(k, Cardinality(Summary(c, s))) <= HintBudget(c)

(* k names of server s fit into what the servers before it have left.      *)
Fits(c, shown, s, k) ==
    Cost(k, Cardinality(Summary(c, s)))
        <= HintBudget(c) - Spent(c, shown, {u \in c.servers : Rank[u] < Rank[s]})

(* Each server in turn shows as many names as fit.                         *)
Greedy(c, shown) ==
    \A s \in c.servers : LET n == Cardinality(Summary(c, s)) IN
        /\ shown[s] <= n
        /\ shown[s] > 0 => Fits(c, shown, s, shown[s])
        /\ \A k \in (shown[s] + 1)..n : ~Fits(c, shown, s, k)

(* initialize and tools/list each read the cache again.                    *)
Advertise(n) ==
    /\ serving[n] # None /\ serving[n].servers # {}
    /\ LET c == serving[n]
       IN  \E names \in [c.servers -> SUBSET Tools] :
             /\ \A s \in c.servers : names[s] \subseteq Summary(c, s)
             /\ Greedy(c, [s \in c.servers |-> Cardinality(names[s])])
             /\ toc' = [toc EXCEPT ![n] = [s \in c.servers |->
                   IF names[s] = {} THEN NoHint
                   ELSE [names |-> names[s],
                         more |-> Cardinality(Summary(c, s) \ names[s])]]]
    /\ UNCHANGED <<worldVars, file, checkVars, serving, torn>>

-----------------------------------------------------------------------------

Check(c) == \/ StartCheck(c) \/ InventoryServer(c) \/ InventoryFails(c)
            \/ NoWrite(c) \/ OpenCache(c) \/ WriteCache(c) \/ WriteFails(c)
            \/ DropRegistry(c) \/ Emit(c) \/ Kill(c)

Next == \/ EditConfig
        \/ \E s \in Servers : UpstreamChanges(s)
        \/ \E c \in Checks : Check(c)
        \/ \E n \in Sessions : StartSession(n) \/ Advertise(n)

Spec == Init /\ [][Next]_vars

-----------------------------------------------------------------------------
(* Properties *)

(* A check of the whole namespace that found nothing wrong.                *)
Passed(c) == /\ loaded[c] # None /\ filter[c] = None /\ failed[c] = {}
             /\ DOMAIN found[c] = loaded[c].servers

(* A readable cache is the complete result of one passed check, tool names *)
(* the config asks for included: never of a partial, failed or filtered    *)
(* one, nor a blend of two (run, write_capability_cache).                  *)
CacheIsPreflight ==
    file \notin {None, Empty, Broken} =>
        \E c \in Checks :
            /\ Passed(c) /\ writes[c]
            /\ file = Body(loaded[c], found[c])
            /\ \A s \in loaded[c].servers : Explicit(loaded[c], s) \subseteq file.tools[s]

(* A session's hints come from one passed check of a config that looks the *)
(* same, name only tools the session's own ACL permits, and count the rest *)
(* exactly; whatever was edited, written or torn in between                *)
(* (matching_cache_tool_summaries, configured_toc).                        *)
HintsComeFromCheck ==
    \A n \in Sessions : toc[n] # None /\ (\E s \in DOMAIN toc[n] : toc[n][s] # NoHint) =>
        \E c \in Checks :
            /\ Passed(c) /\ Fingerprint(loaded[c]) = Fingerprint(serving[n])
            /\ \A s \in DOMAIN toc[n] : toc[n][s] # NoHint =>
                  LET permitted == {t \in found[c][s] : Permits(serving[n], s, t)}
                  IN  /\ toc[n][s].names \subseteq permitted
                      /\ toc[n][s].more = Cardinality(permitted \ toc[n][s].names)

(* The ToC lists every allowed server; hints are added only within what    *)
(* INSTRUCTIONS_BUDGET leaves after those lines (configured_toc).          *)
HintsFit ==
    \A n \in Sessions : toc[n] # None =>
        LET hinted == {s \in DOMAIN toc[n] : toc[n][s] # NoHint}
            cost == [s \in hinted |-> HintCost + Cardinality(toc[n][s].names)
                                        + IF toc[n][s].more > 0 THEN MoreCost ELSE 0]
        IN  /\ DOMAIN toc[n] = serving[n].servers
            /\ hinted # {} => LineCost * Cardinality(DOMAIN toc[n])
                                 + SumFunctionOnSet(cost, hinted) <= Budget

(* The exit code tells the truth: success means that every server in scope *)
(* answered with every tool its filter names (run).                        *)
VerdictIsSound ==
    \A c \in Checks : exit[c] = "ok" =>
        /\ loaded[c] # None
        /\ DOMAIN found[c] = IF filter[c] = None THEN loaded[c].servers ELSE {filter[c]}
        /\ \A s \in DOMAIN found[c] : Explicit(loaded[c], s) \subseteq found[c][s]

(* When the result is out, no upstream is left running (run, the comment   *)
(* on drop(registry)).                                                     *)
NothingLeftRunning == \A c \in Checks : exit[c] # "none" => running[c] = {}

(* Nobody writing, the cache is unreadable only after a write that failed, *)
(* was killed, or overlapped another; the next undisturbed check repairs   *)
(* it (write_capability_cache, which replaces the file in place).          *)
UnreadableForCause == file \in {Empty, Broken} /\ Writers = {} => torn

=============================================================================
