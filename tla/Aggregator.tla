------------------------------ MODULE Aggregator ------------------------------
(***************************************************************************)
(* The downstream surface of fanin-mcp: the three meta-tools of            *)
(* src/src/server.rs, served to one client under one namespace ACL.  A     *)
(* request is checked without an await, then walks the registry: a listing *)
(* over its servers in order, a schema lookup or a call over one server.   *)
(*                                                                         *)
(* The registry is what InventoryService promises of it, or an error.      *)
(* RegistryService shows that UpstreamRegistry keeps that promise, stale   *)
(* answers included.                                                       *)
(***************************************************************************)
EXTENDS Integers

CONSTANTS
    Requests,       \* downstream tools/call requests of one session
    Servers,        \* configured servers
    Names,          \* server names a client sends, configured or not
    Rank,           \* the order in which the servers are listed
    Tools,          \* tool names
    Shown,          \* a tool's name in a list_tools row, after sanitizing
    Inventories,    \* what an upstream may list
    Acls,           \* namespace ACLs a session may run under
    Asks,           \* what the client asks
    None,           \* no ACL, no server name
    Changes         \* bound: how often an upstream's inventory changes

ByName == {"get_tool_schema", "invoke_tool"}
MetaTools == ByName \cup {"list_tools"}

(* Any name that is no meta-tool's is the same to dispatch_tool.           *)
Ops == MetaTools \cup {"other"}

(* An absent server and a server that is no string are the same to         *)
(* list_tools; a name that is absent, no string, or not server__tool is    *)
(* refused by the other two.  Both are a request whose server is None.     *)
AskType == [op : Ops, server : Names \cup {None}, tool : Tools, object : BOOLEAN]

ASSUME ServersAssumption == Servers \subseteq Names /\ None \notin Names
ASSUME RankAssumption == Rank \in [Servers -> Int]
ASSUME ShownAssumption == Shown \in [Tools -> Tools]
ASSUME InventoriesAssumption == Inventories \subseteq SUBSET Tools
ASSUME AclsAssumption ==
    /\ None \notin Acls
    /\ \A a \in Acls : /\ a.servers \subseteq Servers
                       /\ DOMAIN a.tools \subseteq a.servers
                       /\ \A s \in DOMAIN a.tools : a.tools[s] \subseteq Tools
ASSUME AsksAssumption == Asks \subseteq AskType
ASSUME ChangesAssumption == Changes \in Nat

VARIABLES
    acl,        \* the session's ACL, or None: served without --config
    pc,         \* where each request is, or how it was answered
    ask,        \* what each request asks
    todo,       \* the servers a listing has left to inventory
    rows,       \* the rows a listing has collected
    live,       \* each upstream's current inventory
    lists,      \* the inventories it had since it was first listed
    open,       \* the servers the registry has a connection to
    changes,    \* inventory changes so far
    contacted,  \* the servers each request went to the registry for
    calls       \* the calls each request has put to an upstream

vars == <<acl, pc, ask, todo, rows, live, lists, open, changes, contacted, calls>>
upstreamVars == <<live, lists, open, changes>>

(* Codes of error.rs: a request refused before the registry is asked, and  *)
(* what the registry's failures are answered with.                         *)
Refusals == {"invalid_request", "not_implemented", "unknown_server",
             "namespace_denied"}
Failures == {"upstream_connect", "upstream_timeout", "upstream_disconnected",
             "upstream_call", "credential_resolution_failed"}
Answers == Refusals \cup Failures \cup {"ok", "unknown_tool", "call_cancelled"}
Working == {"walk", "schema", "call", "calling"}

Configured == acl # None

(* ActiveNamespace::is_tool_allowed.                                       *)
Permits(s, t) == /\ s \in acl.servers
                 /\ s \in DOMAIN acl.tools => t \in acl.tools[s]

(* As if a listing of everything covered whatever name clients use.        *)
ScopeOfAnyName(a) == IF a.op = "list_tools" /\ a.server = None THEN Names
                                                               ELSE {a.server}

(* The servers a request may go to.                                        *)
Scope(a) == IF a.op = "list_tools" /\ a.server = None THEN acl.servers
                                                      ELSE {a.server}

TypeOK ==
    /\ acl \in Acls \cup {None}
    /\ pc \in [Requests -> {"idle", "dispatch"} \cup Working \cup Answers]
    /\ ask \in [Requests -> AskType \cup {None}]
    /\ \A r \in Requests : pc[r] # "idle" => ask[r] \in AskType
    /\ todo \in [Requests -> SUBSET Servers]
    /\ rows \in [Requests -> SUBSET (Servers \X Tools)]
    /\ live \in [Servers -> SUBSET Tools]
    /\ lists \in [Servers -> SUBSET SUBSET Tools]
    /\ open \in [Servers -> BOOLEAN]
    /\ changes \in 0..Changes
    /\ contacted \in [Requests -> SUBSET Servers]
    /\ calls \in [Requests -> Nat]

Init ==
    /\ acl \in Acls \cup {None}
    /\ pc = [r \in Requests |-> "idle"]
    /\ ask = [r \in Requests |-> None]
    /\ todo = [r \in Requests |-> {}]
    /\ rows = [r \in Requests |-> {}]
    /\ live \in [Servers -> Inventories]
    /\ lists = [s \in Servers |-> {}]
    /\ open = [s \in Servers |-> FALSE]
    /\ changes = 0
    /\ contacted = [r \in Requests |-> {}]
    /\ calls = [r \in Requests |-> 0]

-----------------------------------------------------------------------------
(* Dispatch: checks before the first await *)

Goto(r, stage) == pc' = [pc EXCEPT ![r] = stage]

Receive(r) ==
    /\ pc[r] = "idle"
    /\ \E a \in Asks : ask' = [ask EXCEPT ![r] = a]
    /\ Goto(r, "dispatch")
    /\ UNCHANGED <<acl, todo, rows, upstreamVars, contacted, calls>>

Refuse(r, code) ==
    /\ Goto(r, code)
    /\ UNCHANGED <<acl, ask, todo, rows, upstreamVars, contacted, calls>>

(* Served by no handler, with --config or without.                         *)
NoSuchMetaTool(r) ==
    /\ pc[r] = "dispatch"
    /\ ask[r].op \notin MetaTools
    /\ Refuse(r, "not_implemented")

(* get_tool_schema and invoke_tool look at their name first.               *)
Malformed(r) ==
    /\ pc[r] = "dispatch"
    /\ ask[r].op \in ByName /\ ask[r].server = None
    /\ Refuse(r, "invalid_request")

WellFormed(a) == \/ a.op = "list_tools"
                 \/ a.op \in ByName /\ a.server # None

(* Without --config there is no registry and no namespace.                 *)
Unconfigured(r) ==
    /\ pc[r] = "dispatch"
    /\ WellFormed(ask[r]) /\ ~Configured
    /\ Refuse(r, "not_implemented")

UnknownServer(r) ==
    /\ pc[r] = "dispatch"
    /\ Configured
    /\ WellFormed(ask[r]) /\ ask[r].server \notin Servers \cup {None}
    /\ Refuse(r, "unknown_server")

(* As if a listing of one server only asked whether it is configured.      *)
AllowedIfConfigured(a) == IF a.op = "list_tools" THEN a.server \in Servers \cup {None}
                                                 ELSE Permits(a.server, a.tool)

Allowed(a) == IF a.op = "list_tools" THEN a.server \in acl.servers \cup {None}
                                     ELSE Permits(a.server, a.tool)

NamespaceDenied(r) ==
    /\ pc[r] = "dispatch"
    /\ Configured
    /\ WellFormed(ask[r]) /\ ask[r].server \in Servers \cup {None}
    /\ ~Allowed(ask[r])
    /\ Refuse(r, "namespace_denied")

(* invoke_tool looks at its arguments last.                                *)
BadArguments(r) ==
    /\ pc[r] = "dispatch"
    /\ Configured
    /\ ask[r].op = "invoke_tool"
    /\ ask[r].server \in Servers /\ Allowed(ask[r]) /\ ~ask[r].object
    /\ Refuse(r, "invalid_request")

Begin(r) ==
    /\ pc[r] = "dispatch"
    /\ Configured
    /\ WellFormed(ask[r]) /\ ask[r].server \in Servers \cup {None}
    /\ Allowed(ask[r])
    /\ ask[r].op = "invoke_tool" => ask[r].object
    /\ \/ /\ ask[r].op = "list_tools"
          /\ Goto(r, "walk")
          /\ todo' = [todo EXCEPT ![r] = Scope(ask[r])]
       \/ /\ ask[r].op = "get_tool_schema"
          /\ Goto(r, "schema")
          /\ UNCHANGED todo
       \/ /\ ask[r].op = "invoke_tool"
          /\ Goto(r, "call")
          /\ UNCHANGED todo
    /\ UNCHANGED <<acl, ask, rows, upstreamVars, contacted, calls>>

-----------------------------------------------------------------------------
(* The registry, as a handler sees it *)

Service == INSTANCE InventoryService WITH newest <- live, had <- lists

Contact(r, s) == contacted' = [contacted EXCEPT ![r] = @ \cup {s}]

(* The server a listing inventories next.                                  *)
First(r, s) == s \in todo[r] /\ \A u \in todo[r] : Rank[s] <= Rank[u]

(* The handler of r is at server s.                                        *)
At(r, s) == \/ pc[r] = "walk" /\ First(r, s)
            \/ pc[r] \in {"schema", "call"} /\ s = ask[r].server

(* get_or_connect on behalf of r: the attempt is listed, or succeeds.      *)
ServerConnects(r) ==
    \E s \in Servers :
        /\ At(r, s)
        /\ Contact(r, s)
        /\ Service!List(s) \/ Service!Open(s)
        /\ UNCHANGED <<acl, pc, ask, todo, rows, changes, calls>>

(* get_or_connect and ensure_fresh succeed.                                *)
Inventory(r, s, inv) ==
    /\ Contact(r, s)
    /\ Service!Read(s, inv)
    /\ UNCHANGED upstreamVars

(* They fail, or time out: the handler answers the registry's error.       *)
RegistryFails(r, s) ==
    /\ Contact(r, s)
    /\ \E code \in Failures : Goto(r, code)
    /\ UNCHANGED upstreamVars

UpstreamChanges(s) ==
    /\ changes < Changes
    /\ changes' = changes + 1
    /\ \E inv \in Inventories : Service!Change(s, inv)
    /\ UNCHANGED <<acl, pc, ask, todo, rows, contacted, calls>>

-----------------------------------------------------------------------------
(* The handlers, from their first await *)

(* As if a listing filtered its rows by server only.                       *)
ListServerUnfiltered(r) ==
    /\ pc[r] = "walk"
    /\ \E s \in todo[r], inv \in SUBSET Tools :
          /\ First(r, s)
          /\ Inventory(r, s, inv)
          /\ rows' = [rows EXCEPT ![r] = @ \cup {<<s, Shown[t]>> : t \in inv}]
          /\ todo' = [todo EXCEPT ![r] = @ \ {s}]
    /\ UNCHANGED <<acl, pc, ask, calls>>

ListServer(r) ==
    /\ pc[r] = "walk"
    /\ \E s \in todo[r], inv \in SUBSET Tools :
          /\ First(r, s)
          /\ Inventory(r, s, inv)
          /\ rows' = [rows EXCEPT ![r] =
                @ \cup {<<s, Shown[t]>> : t \in {u \in inv : Permits(s, u)}}]
          /\ todo' = [todo EXCEPT ![r] = @ \ {s}]
    /\ UNCHANGED <<acl, pc, ask, calls>>

(* As if a listing skipped a server that fails, as check does.             *)
ListSkips(r) ==
    /\ pc[r] = "walk"
    /\ \E s \in todo[r] :
          /\ First(r, s)
          /\ Contact(r, s)
          /\ todo' = [todo EXCEPT ![r] = @ \ {s}]
    /\ UNCHANGED <<acl, pc, ask, rows, upstreamVars, calls>>

(* One failing server fails the whole listing.                             *)
ListFails(r) ==
    /\ pc[r] = "walk"
    /\ \E s \in todo[r] : First(r, s) /\ RegistryFails(r, s)
    /\ todo' = [todo EXCEPT ![r] = {}]
    /\ rows' = [rows EXCEPT ![r] = {}]
    /\ UNCHANGED <<acl, ask, calls>>

(* As if a listing waited for a first row.                                 *)
ListDoneNonEmpty(r) ==
    /\ pc[r] = "walk"
    /\ todo[r] = {} /\ rows[r] # {}
    /\ Goto(r, "ok")
    /\ UNCHANGED <<acl, ask, todo, rows, upstreamVars, contacted, calls>>

ListDone(r) ==
    /\ pc[r] = "walk"
    /\ todo[r] = {}
    /\ Goto(r, "ok")
    /\ UNCHANGED <<acl, ask, todo, rows, upstreamVars, contacted, calls>>

ReadSchema(r) ==
    /\ pc[r] = "schema"
    /\ \E inv \in SUBSET Tools :
          /\ Inventory(r, ask[r].server, inv)
          /\ Goto(r, IF ask[r].tool \in inv THEN "ok" ELSE "unknown_tool")
    /\ UNCHANGED <<acl, ask, todo, rows, calls>>

SchemaFails(r) ==
    /\ pc[r] = "schema"
    /\ RegistryFails(r, ask[r].server)
    /\ UNCHANGED <<acl, ask, todo, rows, calls>>

(* Registry::call_tool: the call goes out if the inventory has the tool.   *)
PutCall(r) ==
    /\ pc[r] = "call"
    /\ \E inv \in SUBSET Tools :
          /\ Inventory(r, ask[r].server, inv)
          /\ \/ /\ ask[r].tool \in inv
                /\ Goto(r, "calling")
                /\ calls' = [calls EXCEPT ![r] = @ + 1]
             \/ /\ ask[r].tool \notin inv
                /\ Goto(r, "unknown_tool")
                /\ UNCHANGED calls
    /\ UNCHANGED <<acl, ask, todo, rows>>

CallNotPut(r) ==
    /\ pc[r] = "call"
    /\ RegistryFails(r, ask[r].server)
    /\ UNCHANGED <<acl, ask, todo, rows, calls>>

(* As if a failed call were put again.                                     *)
CallRetried(r) ==
    /\ pc[r] = "calling"
    /\ Goto(r, IF calls[r] < 2 THEN "call" ELSE "ok")
    /\ UNCHANGED <<acl, ask, todo, rows, upstreamVars, contacted, calls>>

CallReturns(r) ==
    /\ pc[r] = "calling"
    /\ \E code \in {"ok", "upstream_timeout", "upstream_disconnected",
                    "upstream_call"} : Goto(r, code)
    /\ UNCHANGED <<acl, ask, todo, rows, upstreamVars, contacted, calls>>

(* Only invoke_tool races its call against the client's cancellation.      *)
Cancel(r) ==
    /\ pc[r] \in {"call", "calling"}
    /\ Goto(r, "call_cancelled")
    /\ UNCHANGED <<acl, ask, todo, rows, upstreamVars, contacted, calls>>

-----------------------------------------------------------------------------

Dispatch(r) == \/ NoSuchMetaTool(r)
               \/ Malformed(r) \/ Unconfigured(r) \/ UnknownServer(r)
               \/ NamespaceDenied(r) \/ BadArguments(r) \/ Begin(r)

Handle(r) == \/ ServerConnects(r)
             \/ ListServer(r) \/ ListFails(r) \/ ListDone(r)
             \/ ReadSchema(r) \/ SchemaFails(r)
             \/ PutCall(r) \/ CallNotPut(r) \/ CallReturns(r)

Next == \/ \E r \in Requests : Receive(r) \/ Dispatch(r) \/ Handle(r) \/ Cancel(r)
        \/ \E s \in Servers : UpstreamChanges(s)

Spec == Init /\ [][Next]_vars

(* The runtime polls a ready handler, and an upstream that does not answer *)
(* is answered for by the registry's timers.                               *)
FairSpec == Spec /\ \A r \in Requests : WF_vars(Dispatch(r) \/ Handle(r))

-----------------------------------------------------------------------------
(* Properties *)

(* The inventories an open server may have answered with.                  *)
Provided(s) == {inv \in lists[s] : open[s]}

(* The ACL comes before any contact: a request goes to the registry, which *)
(* may spawn a process, only for a server the namespace allows, and with a *)
(* tool name only for a tool it allows (server.rs, the order of the checks *)
(* in the three handlers).                                                 *)
AclBeforeContact ==
    \A r \in Requests : \A s \in contacted[r] :
        /\ Configured
        /\ s \in Scope(ask[r]) \cap acl.servers
        /\ ask[r].op # "list_tools" => Permits(s, ask[r].tool)

(* An answer tells the client what happened: a refused request contacted   *)
(* no upstream, an unknown tool was not called, a success was called once, *)
(* and nothing is ever called twice, whatever fails (handle_invoke_tool    *)
(* and Registry::call_tool do not retry).                                  *)
AnswerIsTruthful ==
    \A r \in Requests :
        /\ pc[r] \in Refusals => contacted[r] = {}
        /\ pc[r] = "unknown_tool" => calls[r] = 0
        /\ pc[r] = "ok" /\ ask[r].op = "invoke_tool" => calls[r] = 1
        /\ calls[r] <= 1
        /\ calls[r] = 1 => \E inv \in Provided(ask[r].server) : ask[r].tool \in inv

Listed(r) == pc[r] = "ok" /\ ask[r].op = "list_tools"

(* A listing is whole: for each server it covers it shows what the ACL     *)
(* permits of one inventory that server had, neither a mixture of several  *)
(* nor a part, and it covers every server that was asked for although each *)
(* was inventoried at a different time (handle_list_tools).                *)
ListingIsWhole ==
    \A r \in Requests : Listed(r) =>
        /\ \A s \in Scope(ask[r]) : \E inv \in Provided(s) :
              {t \in Tools : <<s, t>> \in rows[r]}
                = {Shown[t] : t \in {u \in inv : Permits(s, u)}}
        /\ \A row \in rows[r] : row[1] \in Scope(ask[r])

Verbatim(n) == \A t \in Tools : Shown[t] = n => t = n

(* Discovery and dispatch agree: a tool some listing showed by its own     *)
(* name is never denied to another request and its server never unknown;   *)
(* it is unknown only if that upstream's inventory has changed.  A row     *)
(* whose name was altered for display gives no such promise.               *)
ListedIsInvocable ==
    \A q, r \in Requests :
        /\ Listed(q)
        /\ pc[r] # "idle" /\ ask[r].op # "list_tools"
        /\ <<ask[r].server, ask[r].tool>> \in rows[q]
        /\ Verbatim(ask[r].tool)
        => /\ pc[r] \notin {"unknown_server", "namespace_denied"}
           /\ pc[r] = "unknown_tool" =>
                 \E inv \in Provided(ask[r].server) : ask[r].tool \notin inv

(* Every request is answered, although any upstream may fail at any time   *)
(* and a listing stops at the first that does.                             *)
EveryRequestAnswered == \A r \in Requests : pc[r] = "dispatch" ~> pc[r] \in Answers

=============================================================================
