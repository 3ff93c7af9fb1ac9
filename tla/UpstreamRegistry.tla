--------------------------- MODULE UpstreamRegistry ---------------------------
(***************************************************************************)
(* The lazy upstream registry of fanin-mcp (src/src/registry.rs), driven   *)
(* by the meta-tool handlers of src/src/server.rs.  A downstream request   *)
(* is a task that looks its server up, connects it under the per-server    *)
(* init guard if nobody has, refetches the tool inventory if a list_changed *)
(* notification made it dirty, and forwards its call.  Any await can time  *)
(* out, and an invoke_tool request can be dropped at any await.            *)
(*                                                                         *)
(* A request calls get_or_connect once, so a connection (an UpstreamEntry, *)
(* its child process and its dirty flag) is named by the request that      *)
(* opened it.  An inventory is represented by its version: what tells two  *)
(* tools/list results apart is which change of the upstream they include.  *)
(***************************************************************************)
EXTENDS Integers, FiniteSets

CONSTANTS
    Requests,       \* downstream tools/call requests of one session
    Servers,        \* configured upstream servers
    None,           \* no request, no connection
    Target,         \* the server each request names
    Invokes,        \* the invoke_tool requests; the others read an inventory
    Listing,        \* the versions whose inventory lists the invoked tool
    Changes,        \* bound: how often each server's inventory changes
    MaxInFlight,    \* requests the downstream client keeps open at once
    Cancellation    \* whether the downstream client cancels requests

ASSUME RequestsAssumption == None \notin Requests
ASSUME TargetAssumption == Target \in [Requests -> Servers]
ASSUME InvokesAssumption == Invokes \subseteq Requests
ASSUME BoundsAssumption == /\ Changes \in [Servers -> Nat]
                           /\ MaxInFlight \in Nat \ {0}
                           /\ Listing \subseteq Nat
                           /\ Cancellation \in BOOLEAN

VARIABLES
    closed,     \* the downstream session has ended
    pc,         \* where each request is, or how it was answered
    holder,     \* the request that holds each server's init guard
    entry,      \* the registry map: each server's cached connection
    conn,       \* the connection each request is using
    live,       \* connections whose upstream process is running
    dirty,      \* each connection's list_changed flag
    cached,     \* each connection's cached inventory
    reply,      \* the tools/list answer a request has been sent
    version,    \* each server's current inventory
    notes,      \* list_changed notifications not handled yet, per connection
    seen,       \* latest version whose notification was handled, per server
    floor,      \* what the request may rely on: seen when it arrived, or
                \* NoReply once it has gone ahead of a refetch
    served,     \* the inventory the request was decided on
    lapsed      \* connections on which a refetch was dropped or overtaken

vars == <<closed, pc, holder, entry, conn, live, dirty, cached, reply,
          version, notes, seen, floor, served, lapsed>>

registryVars == <<holder, entry>>
inventoryVars == <<dirty, cached>>
upstreamVars == <<version, notes, seen>>
historyVars == <<floor, served, lapsed>>

NoReply == -1
Versions == Nat

(* Stages of get_or_connect that hold the init guard, and of these the     *)
(* ones at which an upstream has been opened.                              *)
Dialling == {"connect", "insert"}
Guarded == {"recheck"} \cup Dialling
(* Stages after get_or_connect returned a connection. *)
Using == {"fresh", "swap", "refetch", "serve", "calling"}
(* How a request ends: a result, one of the codes of error.rs, or dropped  *)
(* with the session.                                                       *)
Answers == {"ok", "unknown_tool", "upstream_connect", "upstream_timeout",
            "upstream_disconnected", "upstream_call",
            "credential_resolution_failed", "call_cancelled", "dropped"}
Stages == {"idle", "lookup", "guard"} \cup Guarded \cup Using
(* Stages at an .await: a dropped future stops there and nowhere else.     *)
Awaits == Stages \ {"idle", "fresh", "swap"}

InFlight == {r \in Requests : pc[r] \in Stages \ {"idle"}}

TypeOK ==
    /\ closed \in BOOLEAN
    /\ pc \in [Requests -> Stages \cup Answers]
    /\ holder \in [Servers -> Requests \cup {None}]
    /\ entry \in [Servers -> Requests \cup {None}]
    /\ conn \in [Requests -> Requests \cup {None}]
    /\ live \in SUBSET Requests
    /\ dirty \in [Requests -> BOOLEAN]
    /\ cached \in [Requests -> Versions \cup {NoReply}]
    /\ reply \in [Requests -> Versions \cup {NoReply}]
    /\ version \in [Servers -> Versions]
    /\ notes \in [Requests -> SUBSET Versions]
    /\ seen \in [Servers -> Versions]
    /\ floor \in [Requests -> Versions \cup {NoReply}]
    /\ served \in [Requests -> Versions \cup {NoReply}]
    /\ lapsed \in SUBSET Requests
    \* an UpstreamEntry is built with its inventory, never without
    /\ \A r \in Requests : pc[r] = "insert" => cached[r] \in Versions
    /\ \A s \in Servers : entry[s] # None => cached[entry[s]] \in Versions

Init ==
    /\ closed = FALSE
    /\ pc = [r \in Requests |-> "idle"]
    /\ holder = [s \in Servers |-> None]
    /\ entry = [s \in Servers |-> None]
    /\ conn = [r \in Requests |-> None]
    /\ live = {}
    /\ dirty = [r \in Requests |-> FALSE]
    /\ cached = [r \in Requests |-> NoReply]
    /\ reply = [r \in Requests |-> NoReply]
    /\ version = [s \in Servers |-> 0]
    /\ notes = [r \in Requests |-> {}]
    /\ seen = [s \in Servers |-> 0]
    /\ floor = [r \in Requests |-> 0]
    /\ served = [r \in Requests |-> NoReply]
    /\ lapsed = {}

-----------------------------------------------------------------------------
(* Helpers *)

Goto(r, stage) == pc' = [pc EXCEPT ![r] = stage]

(* The MutexGuard of r's server is dropped, if r holds it. *)
ReleaseGuard(r) ==
    holder' = [s \in Servers |-> IF holder[s] = r THEN None ELSE holder[s]]

(* The connection r was opening is dropped: its ContainmentGuard kills the  *)
(* process group and its service stops handling notifications.             *)
DropConnection(r) ==
    /\ live' = live \ {r}
    /\ notes' = [notes EXCEPT ![r] = {}]

-----------------------------------------------------------------------------
(* get_or_connect *)

Receive(r) ==
    /\ ~closed
    /\ pc[r] = "idle"
    /\ Cardinality(InFlight) < MaxInFlight
    /\ Goto(r, "lookup")
    /\ floor' = [floor EXCEPT ![r] = seen[Target[r]]]
    /\ UNCHANGED <<closed, registryVars, conn, live, inventoryVars, reply,
                   upstreamVars, served, lapsed>>

LookupHit(r) ==
    /\ pc[r] = "lookup"
    /\ entry[Target[r]] # None
    /\ conn' = [conn EXCEPT ![r] = entry[Target[r]]]
    /\ Goto(r, "fresh")
    /\ UNCHANGED <<closed, registryVars, live, inventoryVars, reply,
                   upstreamVars, historyVars>>

LookupMiss(r) ==
    /\ pc[r] = "lookup"
    /\ entry[Target[r]] = None
    /\ Goto(r, "guard")
    /\ UNCHANGED <<closed, registryVars, conn, live, inventoryVars, reply,
                   upstreamVars, historyVars>>

(* As if: the guard is not exclusive. *)
AcquireHeldGuard(r) ==
    /\ pc[r] = "guard"
    /\ holder' = [holder EXCEPT ![Target[r]] = r]
    /\ Goto(r, "recheck")
    /\ UNCHANGED <<closed, entry, conn, live, inventoryVars, reply,
                   upstreamVars, historyVars>>

(* As if: one guard for all servers. *)
AcquireGlobalGuard(r) ==
    /\ pc[r] = "guard"
    /\ \A s \in Servers : holder[s] = None
    /\ holder' = [holder EXCEPT ![Target[r]] = r]
    /\ Goto(r, "recheck")
    /\ UNCHANGED <<closed, entry, conn, live, inventoryVars, reply,
                   upstreamVars, historyVars>>

(* tokio hands the mutex over in arrival order; here any waiter may be     *)
(* next, so what holds here holds for arrival order too.                   *)
AcquireGuard(r) ==
    /\ pc[r] = "guard"
    /\ holder[Target[r]] = None
    /\ holder' = [holder EXCEPT ![Target[r]] = r]
    /\ Goto(r, "recheck")
    /\ UNCHANGED <<closed, entry, conn, live, inventoryVars, reply,
                   upstreamVars, historyVars>>

RecheckHit(r) ==
    /\ pc[r] = "recheck"
    /\ entry[Target[r]] # None
    /\ conn' = [conn EXCEPT ![r] = entry[Target[r]]]
    /\ ReleaseGuard(r)
    /\ Goto(r, "fresh")
    /\ UNCHANGED <<closed, entry, live, inventoryVars, reply, upstreamVars,
                   historyVars>>

(* A configured value or the cwd does not resolve, or the spawn itself     *)
(* fails: nothing was opened, and nothing is cached.                       *)
ConnectRefused(r) ==
    /\ pc[r] = "recheck"
    /\ entry[Target[r]] = None
    /\ \E code \in {"credential_resolution_failed", "upstream_connect"} :
          Goto(r, code)
    /\ ReleaseGuard(r)
    /\ UNCHANGED <<closed, entry, conn, live, inventoryVars, reply,
                   upstreamVars, historyVars>>

(* As if: the map is not checked again under the guard. *)
StartConnectUnchecked(r) ==
    /\ pc[r] = "recheck"
    /\ live' = live \cup {r}
    /\ dirty' = [dirty EXCEPT ![r] = FALSE]
    /\ conn' = [conn EXCEPT ![r] = r]
    /\ Goto(r, "connect")
    /\ UNCHANGED <<closed, registryVars, cached, reply, upstreamVars,
                   historyVars>>

(* As if: the entry is built before tools/list has answered. *)
ConnectOkUnlisted(r) ==
    /\ pc[r] = "connect"
    /\ cached' = [cached EXCEPT ![r] = reply[r]]
    /\ reply' = [reply EXCEPT ![r] = NoReply]
    /\ Goto(r, "insert")
    /\ UNCHANGED <<closed, registryVars, conn, live, dirty, upstreamVars,
                   historyVars>>

(* The upstream is spawned or dialled; its handshake and first tools/list  *)
(* are under way.                                                          *)
StartConnect(r) ==
    /\ pc[r] = "recheck"
    /\ entry[Target[r]] = None
    /\ live' = live \cup {r}
    /\ dirty' = [dirty EXCEPT ![r] = FALSE]
    /\ conn' = [conn EXCEPT ![r] = r]
    /\ Goto(r, "connect")
    /\ UNCHANGED <<closed, registryVars, cached, reply, upstreamVars,
                   historyVars>>

(* As if: the answer to the first tools/list were kept for a refetch. *)
ConnectOkKeepsReply(r) ==
    /\ pc[r] = "connect"
    /\ reply[r] # NoReply
    /\ cached' = [cached EXCEPT ![r] = reply[r]]
    /\ Goto(r, "insert")
    /\ UNCHANGED <<closed, registryVars, conn, live, dirty, reply, upstreamVars,
                   historyVars>>

ConnectOk(r) ==
    /\ pc[r] = "connect"
    /\ reply[r] # NoReply
    /\ cached' = [cached EXCEPT ![r] = reply[r]]
    /\ reply' = [reply EXCEPT ![r] = NoReply]
    /\ Goto(r, "insert")
    /\ UNCHANGED <<closed, registryVars, conn, live, dirty, upstreamVars,
                   historyVars>>

(* As if: an attempt that fails leaves its process running. *)
ConnectFailsKeepsUpstream(r) ==
    /\ pc[r] = "connect"
    /\ \E code \in {"upstream_connect", "upstream_timeout"} : Goto(r, code)
    /\ ReleaseGuard(r)
    /\ reply' = [reply EXCEPT ![r] = NoReply]
    /\ UNCHANGED <<closed, entry, conn, live, inventoryVars, upstreamVars,
                   historyVars>>

(* As if: the flag is created with the entry, after the first tools/list. *)
InsertEntryResetsFlag(r) ==
    /\ pc[r] = "insert"
    /\ entry' = [entry EXCEPT ![Target[r]] = r]
    /\ dirty' = [dirty EXCEPT ![r] = FALSE]
    /\ ReleaseGuard(r)
    /\ Goto(r, "fresh")
    /\ UNCHANGED <<closed, conn, live, cached, reply, upstreamVars,
                   historyVars>>

(* The handshake or the first tools/list fails, or both together exceed    *)
(* the server's timeout: the attempt is dropped and nothing is cached.     *)
ConnectFails(r) ==
    /\ pc[r] = "connect"
    /\ \E code \in {"upstream_connect", "upstream_timeout"} : Goto(r, code)
    /\ DropConnection(r)
    /\ ReleaseGuard(r)
    /\ reply' = [reply EXCEPT ![r] = NoReply]
    /\ UNCHANGED <<closed, entry, conn, inventoryVars, version, seen,
                   historyVars>>

InsertEntry(r) ==
    /\ pc[r] = "insert"
    /\ entry' = [entry EXCEPT ![Target[r]] = r]
    /\ ReleaseGuard(r)
    /\ Goto(r, "fresh")
    /\ UNCHANGED <<closed, conn, live, inventoryVars, reply, upstreamVars,
                   historyVars>>

-----------------------------------------------------------------------------
(* ensure_fresh *)

(* A refetch of connection c is under way. *)
Refetching(c) == \E q \in Requests : pc[q] = "refetch" /\ conn[q] = c

(* r goes on with the cached list.  If a refetch of it is under way, r has *)
(* gone ahead of the refetch, and is promised nothing.                     *)
GoAhead(r) ==
    /\ Goto(r, "serve")
    /\ floor' = [floor EXCEPT ![r] = IF Refetching(conn[r]) THEN NoReply ELSE @]

LoadClean(r) ==
    /\ pc[r] = "fresh"
    /\ ~dirty[conn[r]]
    /\ GoAhead(r)
    /\ UNCHANGED <<closed, registryVars, conn, live, inventoryVars, reply,
                   upstreamVars, served, lapsed>>

LoadDirty(r) ==
    /\ pc[r] = "fresh"
    /\ dirty[conn[r]]
    /\ Goto(r, "swap")
    /\ UNCHANGED <<closed, registryVars, conn, live, inventoryVars, reply,
                   upstreamVars, historyVars>>

(* The swap's winner refetches.  Nothing keeps a later winner waiting for  *)
(* an earlier one, so two refetches of a connection can overlap.           *)
SwapWins(r) ==
    /\ pc[r] = "swap"
    /\ dirty[conn[r]]
    /\ dirty' = [dirty EXCEPT ![conn[r]] = FALSE]
    /\ Goto(r, "refetch")
    /\ lapsed' = IF Refetching(conn[r]) THEN lapsed \cup {conn[r]} ELSE lapsed
    /\ UNCHANGED <<closed, registryVars, conn, live, cached, reply,
                   upstreamVars, floor, served>>

(* The swap's loser goes on with the cached list. *)
SwapLoses(r) ==
    /\ pc[r] = "swap"
    /\ ~dirty[conn[r]]
    /\ GoAhead(r)
    /\ UNCHANGED <<closed, registryVars, conn, live, inventoryVars, reply,
                   upstreamVars, served, lapsed>>

InstallFresh(r) ==
    /\ pc[r] = "refetch"
    /\ reply[r] # NoReply
    /\ cached' = [cached EXCEPT ![conn[r]] = reply[r]]
    /\ reply' = [reply EXCEPT ![r] = NoReply]
    /\ Goto(r, "serve")
    /\ UNCHANGED <<closed, registryVars, conn, live, dirty, upstreamVars,
                   historyVars>>

(* As if: a failed refetch forgets the notification. *)
RefetchFailsClean(r) ==
    /\ pc[r] = "refetch"
    /\ \/ Goto(r, "upstream_call")
       \/ Goto(r, "upstream_timeout")
       \/ conn[r] \notin live /\ Goto(r, "upstream_disconnected")
    /\ reply' = [reply EXCEPT ![r] = NoReply]
    /\ UNCHANGED <<closed, registryVars, conn, live, inventoryVars,
                   upstreamVars, historyVars>>

(* An error answer, a dead transport or the timeout: the flag is restored. *)
RefetchFails(r) ==
    /\ pc[r] = "refetch"
    /\ \/ Goto(r, "upstream_call")
       \/ Goto(r, "upstream_timeout")
       \/ conn[r] \notin live /\ Goto(r, "upstream_disconnected")
    /\ dirty' = [dirty EXCEPT ![conn[r]] = TRUE]
    /\ reply' = [reply EXCEPT ![r] = NoReply]
    /\ UNCHANGED <<closed, registryVars, conn, live, cached, upstreamVars,
                   historyVars>>

-----------------------------------------------------------------------------
(* inventory and call_tool, after ensure_fresh *)

ServeInventory(r) ==
    /\ pc[r] = "serve"
    /\ r \notin Invokes
    /\ served' = [served EXCEPT ![r] = cached[conn[r]]]
    /\ Goto(r, "ok")
    /\ UNCHANGED <<closed, registryVars, conn, live, inventoryVars, reply,
                   upstreamVars, floor, lapsed>>

LookupTool(r) ==
    /\ pc[r] = "serve"
    /\ r \in Invokes
    /\ served' = [served EXCEPT ![r] = cached[conn[r]]]
    /\ Goto(r, IF cached[conn[r]] \in Listing THEN "calling"
                                              ELSE "unknown_tool")
    /\ UNCHANGED <<closed, registryVars, conn, live, inventoryVars, reply,
                   upstreamVars, floor, lapsed>>

CallReturns(r) ==
    /\ pc[r] = "calling"
    /\ conn[r] \in live
    /\ \E answer \in {"ok", "upstream_call"} : Goto(r, answer)
    /\ UNCHANGED <<closed, registryVars, conn, live, inventoryVars, reply,
                   upstreamVars, historyVars>>

(* As if: a dead upstream is evicted, so that the next request reconnects. *)
CallDisconnectedEvicts(r) ==
    /\ pc[r] = "calling"
    /\ conn[r] \notin live
    /\ Goto(r, "upstream_disconnected")
    /\ entry' = [entry EXCEPT ![Target[r]] = None]
    /\ UNCHANGED <<closed, holder, conn, live, inventoryVars, reply,
                   upstreamVars, historyVars>>

CallDisconnected(r) ==
    /\ pc[r] = "calling"
    /\ conn[r] \notin live
    /\ Goto(r, "upstream_disconnected")
    /\ UNCHANGED <<closed, registryVars, conn, live, inventoryVars, reply,
                   upstreamVars, historyVars>>

CallTimeout(r) ==
    /\ pc[r] = "calling"
    /\ Goto(r, "upstream_timeout")
    /\ UNCHANGED <<closed, registryVars, conn, live, inventoryVars, reply,
                   upstreamVars, historyVars>>

(* handle_invoke_tool's select!: the call future is dropped where it       *)
(* awaits, with everything it owns: the init guard and, while connecting,  *)
(* the connection.  A refetch that is dropped leaves the flag cleared.     *)
Cancel(r) ==
    /\ Cancellation
    /\ r \in Invokes
    /\ pc[r] \in Awaits
    /\ Goto(r, "call_cancelled")
    /\ ReleaseGuard(r)
    /\ IF pc[r] \in Dialling THEN DropConnection(r)
                             ELSE UNCHANGED <<live, notes>>
    /\ reply' = [reply EXCEPT ![r] = NoReply]
    /\ lapsed' = IF pc[r] = "refetch" THEN lapsed \cup {conn[r]} ELSE lapsed
    /\ UNCHANGED <<closed, entry, conn, inventoryVars, version, seen, floor,
                   served>>

-----------------------------------------------------------------------------
(* The upstreams, their notifications, and the end of the session *)

UpstreamLists(r) ==
    /\ pc[r] \in {"connect", "refetch"}
    /\ conn[r] \in live
    /\ reply[r] = NoReply
    /\ reply' = [reply EXCEPT ![r] = version[Target[r]]]
    /\ UNCHANGED <<closed, pc, registryVars, conn, live, inventoryVars,
                   upstreamVars, historyVars>>

UpstreamChanges(s) ==
    /\ ~closed
    /\ version[s] < Changes[s]
    /\ version' = [version EXCEPT ![s] = @ + 1]
    /\ notes' = [c \in Requests |-> IF c \in live /\ Target[c] = s
                                    THEN notes[c] \cup {version[s] + 1}
                                    ELSE notes[c]]
    /\ UNCHANGED <<closed, pc, registryVars, conn, live, inventoryVars, reply,
                   seen, historyVars>>

(* on_tool_list_changed.  Each notification runs in a task of its own, so   *)
(* two of them may be handled in either order.                             *)
ToolListChanged(c) ==
    \E v \in notes[c] :
        /\ dirty' = [dirty EXCEPT ![c] = TRUE]
        /\ notes' = [notes EXCEPT ![c] = @ \ {v}]
        /\ seen' = [seen EXCEPT ![Target[c]] = IF v > @ THEN v ELSE @]
        /\ UNCHANGED <<closed, pc, registryVars, conn, live, cached, reply,
                       version, historyVars>>

UpstreamDies(c) ==
    /\ c \in live
    /\ live' = live \ {c}
    /\ UNCHANGED <<closed, pc, registryVars, conn, inventoryVars, reply,
                   upstreamVars, historyVars>>

(* stdin reaches EOF: the service loop ends, the runtime drops every task  *)
(* and the registry its entries, and each containment guard kills.         *)
Shutdown ==
    /\ ~closed
    /\ closed' = TRUE
    /\ pc' = [r \in Requests |-> IF r \in InFlight THEN "dropped" ELSE pc[r]]
    /\ holder' = [s \in Servers |-> None]
    /\ entry' = [s \in Servers |-> None]
    /\ live' = {}
    /\ notes' = [c \in Requests |-> {}]
    /\ reply' = [r \in Requests |-> NoReply]
    /\ UNCHANGED <<conn, inventoryVars, version, seen, historyVars>>

-----------------------------------------------------------------------------
GetOrConnect(r) ==
    \/ LookupHit(r) \/ LookupMiss(r) \/ AcquireGuard(r) \/ RecheckHit(r)
    \/ ConnectRefused(r) \/ StartConnect(r) \/ ConnectOk(r) \/ ConnectFails(r)
    \/ InsertEntry(r)

EnsureFresh(r) ==
    \/ LoadClean(r) \/ LoadDirty(r) \/ SwapWins(r) \/ SwapLoses(r)
    \/ InstallFresh(r) \/ RefetchFails(r)

Forward(r) ==
    \/ ServeInventory(r) \/ LookupTool(r) \/ CallReturns(r)
    \/ CallDisconnected(r) \/ CallTimeout(r)

(* What the runtime does for a request it has accepted, timers included. *)
Step(r) == GetOrConnect(r) \/ EnsureFresh(r) \/ Forward(r)

Next ==
    \/ \E r \in Requests : Receive(r) \/ Step(r) \/ Cancel(r) \/ UpstreamLists(r)
    \/ \E s \in Servers : UpstreamChanges(s)
    \/ \E c \in Requests : ToolListChanged(c) \/ UpstreamDies(c)
    \/ Shutdown

Spec == Init /\ [][Next]_vars

(* The runtime polls every ready task and every timer fires: each accepted  *)
(* request to a server of S keeps taking steps.  Nothing is assumed of the *)
(* upstreams, nor of requests to other servers.                            *)
FairFor(S) == \A r \in {q \in Requests : Target[q] \in S} : WF_vars(Step(r))

-----------------------------------------------------------------------------
(* The registry as an implementation of LazyUpstream: the opener is the    *)
(* guard's holder once it has started to connect, and the upstream is what *)
(* the map holds.                                                          *)
Ask == [r \in Requests |->
            CASE pc[r] = "idle" -> "new"
              [] pc[r] = "ok"   -> "served"
              [] pc[r] \in Stages \ {"idle"}  -> "open"
              [] pc[r] \in Answers \ {"ok"}   -> "failed"]

Opener == [s \in Servers |->
              IF holder[s] # None /\ pc[holder[s]] \in Dialling THEN holder[s]
                                                               ELSE None]

Upstream == [s \in Servers |->
                IF entry[s] = None THEN "absent"
                ELSE IF entry[s] \in live THEN "up" ELSE "down"]

Lazy == INSTANCE LazyUpstream
           WITH ask <- Ask, opener <- Opener, upstream <- Upstream, over <- closed

-----------------------------------------------------------------------------
(* Properties *)

(* The registry implements LazyUpstream: laziness, single flight, failures *)
(* that stay with the request that met them, no upstream opened twice.     *)
ImplementsLazyUpstream == Lazy!Spec

(* Two connects to one server never leave two upstream processes running:  *)
(* not while racing for a cold server, not after a connect that timed out  *)
(* or was cancelled handed the guard on.                                   *)
OneUpstream ==
    \A c, d \in live : Target[c] = Target[d] => c = d

(* No upstream process outlives its owner: each is owned by a connect      *)
(* still in progress or by the registry entry, which Drop reaches.         *)
NoOrphan ==
    \A c \in live : pc[c] \in Dialling \/ entry[Target[c]] = c

(* Every request past get_or_connect uses the connection in the map, so a  *)
(* notification handled for that connection is seen by all its users.      *)
SharedConnection ==
    \A r \in Requests : pc[r] \in Using => conn[r] = entry[Target[r]]

(* Why the four properties above and below hold together, as an inductive  *)
(* invariant: the guard belongs to the request between the recheck and the *)
(* insert, that request is connecting a server the map has no entry for,   *)
(* through a connection of its own, and everyone else uses the map's.      *)
GuardOwned ==
    /\ \A r \in Requests : pc[r] \in Guarded => holder[Target[r]] = r
    /\ \A s \in Servers :
          holder[s] # None => /\ pc[holder[s]] \in Guarded
                              /\ Target[holder[s]] = s

DialsOwn ==
    \A r \in Requests :
        pc[r] \in Dialling => entry[Target[r]] = None /\ conn[r] = r

UsesEntry ==
    \A r \in Requests :
        pc[r] \in Using => entry[Target[r]] # None /\ conn[r] = entry[Target[r]]

EntryOfServer ==
    \A s \in Servers : entry[s] # None => Target[entry[s]] = s

Ownership == GuardOwned /\ DialsOwn /\ UsesEntry /\ EntryOfServer /\ NoOrphan

(* An entry is never replaced or evicted before the session ends: there is *)
(* no silent reconnect, even after the upstream died.                      *)
NoReconnect ==
    [][\A s \in Servers :
          entry[s] # None => entry'[s] = entry[s] \/ closed']_vars

(* The cached inventory of a running upstream is out of date. *)
Stale(s) == entry[s] \in live /\ cached[entry[s]] < version[s]

(* ... and the next reader, or one already at it, will fetch it again. *)
Marked(c) == dirty[c] \/ notes[c] # {} \/ Refetching(c)

(* ensure_fresh loses no signal: while a running upstream's cached         *)
(* inventory is out of date, a notification is still to be handled, the    *)
(* flag is set, or a refetch is under way.                                 *)
StaleIsMarked == \A s \in Servers : Stale(s) => Marked(entry[s])

(* The only ways the registry loses a signal are a refetch dropped by a    *)
(* cancelled call and two overlapping refetches: races for the cold server, *)
(* a flag set while the first tools/list runs, failed refetches and a lost *)
(* swap do not.                                                            *)
StaleForCause ==
    \A s \in Servers :
        Stale(s) /\ entry[s] \notin lapsed => Marked(entry[s])

(* Outside those two ways, a request is decided on an inventory that       *)
(* includes every change whose notification had been handled when the      *)
(* request arrived, unless it went ahead of a refetch under way.           *)
NoStaleRead ==
    \A r \in Requests :
        served[r] # NoReply /\ conn[r] \notin lapsed => served[r] >= floor[r]

(* Outside those two ways a connection's list never goes back in time:     *)
(* ensure_fresh writes what it was sent without looking at what it         *)
(* replaces, and still replaces nothing newer.                             *)
CacheMovesForward ==
    [][\A c \in Requests : c \notin lapsed' => cached'[c] >= cached[c]]_vars

(* Every accepted request to a server of S is answered. *)
AnsweredIn(S) ==
    \A r \in {q \in Requests : Target[q] \in S} :
        (r \in InFlight) ~> (r \notin InFlight)
=============================================================================
