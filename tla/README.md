# A verification development for fanin-mcp

fanin-mcp is an MCP aggregator: it shows an MCP client three meta-tools
(`list_tools`, `get_tool_schema`, `invoke_tool`) and connects, lazily, to the
upstream MCP servers of a config file. This directory holds TLA+ models of its
components, the TLC configurations that check them on small instances, and
proofs, checked by TLAPS, that the main properties hold for every instance.

To repeat the work: `tlc -config MCUpstreamRegistry_safety.cfg
MCUpstreamRegistry.tla` checks one configuration, `tlapm
UpstreamRegistryProofs.tla` one module of proofs. Four configurations are
expected to end in a violation; see *Findings*.

Contents: 1 inventory, 2 models, 3 runs and their bounds, 4 fairness,
5 theorems, 6 findings, 7 what is only model-checked, 8 abstractions and what
is not modelled, 9 plan.

## 1. Inventory

All paths are relative to the repository.

| Component | State it keeps | Operations | What makes it correct |
|---|---|---|---|
| **Upstream registry** `src/src/registry.rs` | the map of connections; one init guard per configured server; per connection the cached tool list and a dirty flag | `get_or_connect`, `connect`, `inventory`, `ensure_fresh`, `call_tool`, drop | one process per server; every process owned; a connection shared and never replaced; a `list_changed` signal not lost; a hung server holds up nobody else |
| **Meta-tool handlers** `src/src/server.rs` | none between requests but the pinned namespace and the registry | `initialize`, `tools/list`, the three meta-tools | checks before contact; answers that say what happened; whole listings; what is listed can be invoked |
| **Preflight and capability cache** `src/src/check.rs`, reader in `server.rs` | the cache file of a namespace; a check's inventories and errors | `check`: load, walk, verdict, write, drop, emit; `serve`: read at `initialize` and `tools/list` | the cache is one complete, passed preflight; hints obey the session's own ACL and budget; the exit code is sound |
| **Elicitation forwarding** `src/src/forward.rs`, `main.rs` | the downstream peer cell; what each upstream was told | peer capture, `get_info` for upstreams, `create_elicitation` | consent is never invented or swapped; a capability told to an upstream is there; every question is settled |
| **Namespace resolution** `src/src/config.rs`, `namespace.rs` | during validation the visit marks, the memo and the recursion | `validate`, `resolve_namespace`, `is_tool_allowed` | the ACL is that of the whole lineage; filters only narrow; rejection for cause; no panic |
| **Credential store** `src/src/credentials.rs`, `cred` commands | keyring entries and, per server, an index of its keys | `set`, `list`, `rm`, `resolve_env_value` | what was reported stored is found, what was reported removed is not; commands never spoil the index for a command that was over; failures reported truly |
| **Log pipeline** `src/src/process.rs`, notifications in `forward.rs` | `LOG_WRITERS`: one bounded channel and writer task per log file and server | stderr reader, notification handlers, `log_sender`, writer, redaction | lines in order and under the right name, none lost silently, no upstream blocked for good |
| **Spawning and containment** `src/src/process.rs` | a guard per child: job object or process group | spawn, drop | no process survives its guard |
| **Error model** `src/src/error.rs` | none | constructors, JSON | codes tell failures apart |
| **Command line and startup** `src/src/main.rs` | the running service | flags, serve, teardown | peer captured before upstreams need it; teardown when the client leaves |
| **Tests and benches** `src/tests`, `src/benches` | – | – | read for the promises they state |

**How they interact.** One `serve` process has one downstream session. rmcp
runs every downstream request in a task of its own, so any number of meta-tool
handlers call the one registry at the same time. The registry owns the
connections; each connection has a service task that also receives what the
upstream sends on its own: `list_changed` sets the dirty flag of that
connection, `create_elicitation` goes to `forward.rs`, which asks the
downstream client over the peer cell that `main.rs` fills in after the
handshake. `select!` in `handle_invoke_tool` drops a handler's future at
whatever `.await` it is suspended in when the client cancels. `check` is
another process with a registry of its own; it talks to `serve` only through
the cache file. `cred` commands are processes too, and talk to `serve` and
`check` only through the keyring, which nobody locks. The stderr of every
child, and the logging and progress notifications of every upstream, go
through the log pipeline into files that servers may share. Namespace resolution runs before everything else and hands an
`ActiveNamespace` to both.

**What is hard.**

- *Interleaving*: cold-start races for one server; an inventory refetch beside
  a notification; two questions over one peer; two checks over one file; two
  `cred` commands over one index; readers and notifications over one log.
- *Cancellation at an await*: a dropped future runs none of the code that
  follows, neither its success nor its error arm.
- *Timeouts*: a connect, a `tools/list`, a call and a question each have a
  timer; a late answer races it.
- *Partial failure*: one server of a listing or a check fails; a child is
  spawned and its handshake fails; a file is half written; a secret is stored
  and its index entry is not.
- *Staleness*: cached inventories, advertised capabilities, a cache file
  written under another config.
- *Boundaries*: inheritance depth, an emptied filter against an absent one, an
  instructions budget that is used up, a log channel and a stderr pipe that are
  full.

`PROJECT.json` lists each hazard at the line where it bites, with the
properties that would catch it.

## 2. The models

Each component has its module; an `MC…` module gives the constants values for
TLC, an `…Proofs` module holds the theorems. Some definitions have a
comment that starts with "As if". They are not part of the specifications: each is
a plausible mistake in the definition that follows it, and the property it is
paired with in `PROJECT.json` fails when it takes that action's place.

### UpstreamRegistry (`registry.rs`), LazyUpstream

Every request of the session goes through `pc`; each value between two awaits
is one atomic step.

| Action | Code |
|---|---|
| `LookupHit`, `LookupMiss` | read lock on the map, fast path of `get_or_connect` |
| `AcquireGuard`, `RecheckHit` | the server's init guard and the second look |
| `StartConnect`, `ConnectRefused`, `ConnectOk`, `ConnectFails` | spawn, handshake and first `tools/list`, all under the connect timeout |
| `InsertEntry` | write lock, insert; the guard is released |
| `LoadClean`, `LoadDirty`, `SwapWins`, `SwapLoses`, `InstallFresh`, `RefetchFails` | `ensure_fresh` |
| `ServeInventory`, `LookupTool`, `CallReturns`, `CallDisconnected`, `CallTimeout` | `inventory`, `call_tool` |
| `Cancel` | the future dropped at an await: the guard it holds is released and the upstream it was opening goes, nothing else runs |
| `UpstreamLists`, `UpstreamChanges`, `ToolListChanged`, `UpstreamDies` | the upstream and the notification handler |
| `Shutdown` | the session ends and the registry is dropped |

A connection is named by the request that opened it, so `Requests` also
bounds the connections. An inventory is the number of its version: `version`
is the upstream's, `cached` the registry's, `seen` the latest one whose
notification has been handled. `Listing` says which versions contain the
invoked tool.

Three history variables state what staleness means without restricting the
instance. `floor[r]` is the version r may rely on (what had been notified when
it arrived, or nothing once it has gone ahead of a refetch that was under way,
`GoAhead`), `served[r]` the version it was decided on, and `lapsed` the
connections on which a refetch was dropped by a cancelled request, or overlapped
by another. `StaleForCause` and `NoStaleRead` hold of every connection that is
not in `lapsed`; the two runs that are expected to fail show that each way into
`lapsed` does lose a signal.

`LazyUpstream` is the abstract promise: each server has at most one opener
and, once opened, one upstream until the session ends; every request is
answered by it or fails. `UpstreamRegistry` implements it through the mapping
`Ask`, `Opener`, `Upstream`, which forgets guards, flags, caches and the order
of lookups. The property is `ImplementsLazyUpstream`.

`CacheMovesForward` is an action property: a cached inventory changes only to a
newer version, or goes back in a step on a connection that has lapsed.

### InventoryService, RegistryService (`registry.rs`)

`InventoryService` is the contract between the registry and the handlers: what
a request may be told of an upstream's tools. A server that is open answers
with an inventory it has had since the connection in use was first listed
(`Read`), which need not be the newest (see *Findings*); it is never listed
anew while open, and stays open until the session ends. `RegistryService` is
`UpstreamRegistry` with a history variable, `since`, the version each server's
last connection was first listed with, and the mapping to the contract: the
inventories had are the versions from `since` to the upstream's own (`Had`), a
server is open when the map has an entry for it (`Opened`). `ImplementsService`
says that the registry keeps the contract, `ReadsFromService` that every
inventory a request is decided on is one of those promised. `Aggregator` is
written against the same module, so the two meet there.

### Aggregator (`server.rs`)

A name that is no meta-tool's is refused by `dispatch_tool` itself
(`NoSuchMetaTool`). Otherwise there is one action per check, in the order each
handler has them: `Malformed`, `Unconfigured`, `UnknownServer`,
`NamespaceDenied`, `BadArguments`, and `Begin` when all of them passed. A listing then walks its servers (`ListServer`,
`ListFails`, `ListDone`), a schema request reads one inventory (`ReadSchema`,
`SchemaFails`), a call is put to the upstream (`PutCall`, `CallNotPut`,
`CallReturns`) and may be cancelled. The registry is an instance of
`InventoryService` (`Service`): its variables are `live`, `lists` and `open`,
upstreams change by `Service!Change`, a request that needs a connection takes
`ServerConnects` (first listing, or insert), and an inventory is one that
`Service!Read` allows; or the request fails. Between the first listing and the
insert the upstream may already change, so that even the first request may be
given an old inventory. `contacted` and `calls` record what a request did to
the outside.

### CapabilityCache (`check.rs`, `configured_toc` of `server.rs`)

Any number of `check` and `serve` processes share a config file and a cache
file. `StartCheck`, `InventoryServer`, `InventoryFails`, then
`NoWrite` or the write, `DropRegistry`, `Emit` follow `check::run`. `fs::write`
is not atomic and is modelled as two steps, `OpenCache` (truncate) and
`WriteCache`; between them the write may fail or the check be killed. `Advertise` is
`configured_toc`: read the cache, compare fingerprints, filter by the live
ACL, and show as many names per server as the budget has left.

### Elicitation (`forward.rs`, peer capture in `main.rs`)

A call is active between `ForwardCall` and its end (`EndCall`, `CallExpires`).
While it is active its upstream may ask (`Elicit`); `create_elicitation`
refuses locally or passes the question on with a timer, and the client's
answer (`ClientAnswersPrompt`, relayed by `RelayAnswer`), the timer
(`PromptExpires`) and the loss of the client (`ClientLeaves`, `PromptDropped`)
race. Nothing ties a question to its call: an upstream that was not told of
the call's end may still ask. `Tick` is the passing of time; it does not run
past a deadline that is due.

### NamespaceResolver (`config.rs`, `namespace.rs`)

The recursion of `resolve_namespace_inner` is an explicit stack of frames
(namespace, next parent, ACL collected so far); `visit` and `resolved` are its
`HashMap`s. `SelectActive`, `Resolve`, then `TooDeep`, `Cycle`, `ReuseDone`,
`UnknownParent`, `Descend`, `Return` are the branches of the recursion;
`Accept`, `RejectServers`, `RejectFilters` what `validate` does with each
result, `Activate` is `ActiveNamespace::new`. `validate` goes through a
`HashMap`, so any namespace may be next. The reference is stated without
recursion: `Lineage(n)` is the least set with n that is closed under
`extends`, and `Reference(n)` the union of the servers and the intersection of
the filters of that set.

### Credentials (`credentials.rs`, `run_cred`, `resolve_env_value`)

Every `cred` command and every lookup of a `${KEY}` at connect time is a
process. The keyring has no listing, so beside an entry per key there is one
entry with the list of keys, and a command is a sequence of keyring operations:
`WriteSecret` or `DeleteSecret`, `LoadIndex`, `SaveIndex`; `cred list` is
`LoadIndex` alone and a lookup is `LookUp`, which falls back on the
environment. Each of them has its `…Refused` action, with what the code makes
of the error: `cred set` reports it, `cred rm` ignores it, a failed read of the
index is an empty index, a failed lookup is a missing entry. Operations of
different processes interleave, and `Kill` ends a process between two of them.
The entry of the index has a name of its own, `__CRED_KEYS__`, which a user may
also give as a key; the instance includes that. A secret is the name of the
process that stored it. `before` records which processes had ended when one
started, so that the properties can say "later" and "beside".

### LogPipeline (`process.rs`, notifications in `forward.rs`)

A source is a stderr reader or one notification; each line takes the way
`ReadLine` (or `Notify`), `GetSender`, `Send`. A chunk may end within a line
(`ReadPiece`): the reader keeps the beginning, and the line has its number from
then on. It is completed by a later `ReadLine`, or by the end of the stream, at
which it is logged as it is (`ReadUnended`; with nothing begun, `ReadEnds`), or
it is dropped when the read fails (`ReadFails`): the code logs the error as a
line of its own and leaves `line` behind. `cut` marks the readers to which that
has happened. `GetSender` is one step because `log_sender` holds the lock of
`LOG_WRITERS` throughout. `Send` waits for room in the channel. The writer task opens its file (`OpenFile`,
`OpenFails`) and then takes one line at a time (`WriteLine`, `WriteFails`); a
writer that could not open its file is gone, but its sender stays in the map,
so `SendRefused` drops every later line with a warning. The child is part of
the model, because its stderr is a pipe: it `Prints` when the pipe has room and
waits otherwise. `Exit` is the end of `main`: all tasks go, with the lines they
hold.

## 3. Runs

| Run | Instance | What it shows |
|---|---|---|
| `registry_safety` | 3 requests for one cold server (two calls, one listing), two inventory changes, cancellation, death of the upstream, shutdown | `OneUpstream`, `NoOrphan`, the refinement of `LazyUpstream`; `CacheMovesForward`: but for a lapsed connection, the cache never goes back; `StaleForCause`: a stale cache is marked dirty, or a refetch was dropped or overlapped; `NoStaleRead`: but for those, no request is decided on an inventory older than what had been notified when it arrived |
| `registry_isolation` | two requests for a healthy server whose inventory changes once, a call and a reader, one for a server that hangs; cancellation, shutdown | `HealthyAnswered`, with fairness for the healthy server only; `ImplementsService`: the registry keeps `InventoryService`; `ReadsFromService`: every inventory a request is decided on is one promised there |
| `registry_cancelled_refetch`, `registry_double_refetch` | the same three requests and changes: one open at a time, with cancellation; or two open, none cancelled | expected violations of `StaleIsMarked`, that is, of `StaleForCause` without its exceptions |
| `aggregator` | 2 requests, 2 servers and an unknown name, 3 tools of which one is displayed under another's name, ACLs with no filter, a filter, a deny-all filter, one and no server, one inventory change | `AclBeforeContact`, `AnswerIsTruthful`, `ListingIsWhole`, `ListedIsInvocable`, `EveryRequestAnswered` |
| `capability_cache` | 2 checks, 1 session, 3 configs (two with the same fingerprint), one edit, one kill | `CacheIsPreflight`, `HintsComeFromCheck`, `HintsFit`, `VerdictIsSound`, `NothingLeftRunning`, `UnreadableForCause` |
| `elicitation_forward` | 2 calls to 2 upstreams, timeout of 2 ticks | `AcceptIsConsent`, `HonestCapability`, `EveryPromptResolved` |
| `elicitation_deadline` | the same | expected violation of `InheritsCallDeadline` |
| `credentials_keyring` | 3 processes, each given any command on two keys, on the index's own name or on the read-only store; one key is also set in the environment | `SecretSticks`: what was reported stored is found, what was reported removed is not; `IndexIsExact`: the index stays right about a command that ended undisturbed, through later commands that overlap, fail or are killed |
| `credentials_failed_set` | the same | expected violation of `FailedSetStoresNothing` |
| `log_pipeline` | readers of 2 children and one notification, 2 servers that log to one file, pipes and channels of one line, 2 lines of one child and 1 of the other, each in any number of pieces | `InOrder`, `Attributed`, `NoSilentLoss`, `NeverStuck` |
| `namespace_resolve` | every `extends` graph of 3 namespaces with lists of length up to 2 and an undeclared name; every small ACL on a diamond, a chain and a fan; an active namespace that does not exist | `ResolvesLineage`, `VerdictIsJust`, `NeverPanics`, `StackIsChain` |

**Bounds, and why they are enough.** Three requests are the least that have a
winner, a loser waiting at the guard, and a third that arrives after the
winner has failed; requests are never reused, so the third also stands for a
retry. Inventory changes are bounded (`Changes`): two are the least for a
refetch that overlaps a second notification. Connections need no bound of
their own. In `aggregator` two requests suffice because requests meet only in
the inventories (the proofs say so: lemma `Frame`). Timeouts need no clock but
in `Elicitation`, where durations are compared; elsewhere a timer may fire
whenever its await is pending. `Timeout = 2` is the least with a tick before
and after a question. `capability_cache` has `Edits = 1` and `Kills = 1`:
what can go wrong needs one change or one death; the costs are 1 and
`Budget = 7`, so that the first server's hint fits whole and the second's only
in part. `namespace_resolve` has `MaxDepth = 2`
(the code has 64), so that chains of three declared names reach the limit.
`Credentials` has no bound but its three processes: two that overlap and one
that came before or comes after. In `log_pipeline` a pipe and a channel of one
line are full as soon as they hold anything, so every wait happens; two lines
of one child are the least with an order, one of the other the least to mix with
them (a failed read adds a line to each); three sources are two of one server and
one of another server with the same file.
Symmetry is used between requests of the same kind for the same server,
between checks and between `cred` processes; never in a configuration with a
liveness property.

`CHECK_DEADLOCK FALSE` stands where the system really stops: every request
answered, every command ended, or the process gone.

## 4. Fairness

- `UpstreamRegistry!FairFor(S)`: weak fairness of `Step(r)` for each request
  to a server of S. `Step` is what the runtime does for a request it has
  accepted: tokio polls a task that is ready and fires a timer that is due.
  Every await has a timer around it (so a `Step` is always possible), but for
  the wait at an init guard, and the guard's holder has one. Nothing is
  assumed of upstreams, of cancellation, or of a request to another server:
  `HealthyAnswered` holds although the other server's requests need never take
  another step, not even to time out.
- `Elicitation!FairSpec`: time passes (`Tick`) and a timer that is due fires
  (`CallExpires`, `PromptExpires`). Nothing is assumed of the client, of the
  upstreams, or of the relaying of answers.
- `Aggregator!FairSpec`: weak fairness of `Dispatch ∨ Handle` for each request.
  `ListFails`, `SchemaFails` and `CallReturns` are always possible while the
  registry is being awaited, because the registry answers, if only with
  `upstream_timeout`; that is what `registry_isolation` shows. `ServerConnects`
  is part of `Handle`; a server is opened once, and while it is not, it is listed
  anew only after a change of its inventory, of which the instance has finitely
  many. In the code one request connects at most once.
- `LogPipeline!Fairness`: weak fairness of a reader that has something to read,
  of `GetSender`, and of the writer's open and write, which end one way or the
  other; strong fairness of `Send ∨ SendRefused`, because tokio's channel hands
  out its permits in the order they were asked for, so a source that waits is
  not overtaken for ever. Nothing is assumed of the child, and neither that the
  file can ever be opened nor that a write ever succeeds.
- `CapabilityCache` and `Credentials` have no liveness property and need no
  fairness: a command that is killed or stops has promised nothing.

## 5. Theorems

All of these hold for every value of the constants that satisfies the named
assumptions (`RequestsAssumption`, `ViaAssumption`, `ServersAssumption`, …),
which only say that sets are of the right kind and that "none" is no member.

**UpstreamRegistryProofs.** `TypeCorrect`, `AtMostOneUpstream`,
`NoOrphanProcess`, `ConnectionIsShared`, `EntryIsPermanent`. `OneUpstream` is
not inductive: that two upstreams never run follows from *who may open one*.
The strengthening is `Ownership`:

- `GuardOwned`: a request between the recheck and the insert holds its
  server's guard, and the holder of a guard is there, so at most one is;
- `DialsOwn`: while a request is connecting, the map has no entry for its
  server, and its connection is its own;
- `UsesEntry`: a request past `get_or_connect` uses the entry of its server;
- `EntryOfServer`: an entry was opened by a request for that server;
- `NoOrphan`: a running upstream is an entry or is being opened.

`SignalLostOnlyForCause` and `NoRequestReadsStale` rest on `Freshness`, whose
centre is `Current(c, v)`: while the flag of c is clear, v includes every change
notified so far, and the notification of the latest one is still to come. A
list being opened, a list being installed and the cached list of an entry that
nobody is refetching are all current (`OpeningCurrent`, `RefetchCurrent`,
`EntryCurrent`); on a connection that has not lapsed at most one request is
refetching (`OneRefetch`); a request about to be decided has a list as new as
its `floor` (`ServesCurrent`); and nothing is ahead of the upstream
(`NotAhead`). It is not inductive without `lapsed`, which is where the two
findings are.

`Ownership`, `SharedConnection` and `NoReconnect` are stated by theorems only; what
a client sees of them is in `ImplementsLazyUpstream`. Requests that are open when
the session ends are included; dropping a future must release the guard *and* the
upstream, and the proof has a step for each.

`CacheNeverGoesBack` (`CacheMovesForward`) adds to `Freshness` that a connection
which has not been listed yet has no cached list (`Unlisted`): then a cache
changes by the first install or by that of a refetch, and the refetch of a
connection that has not lapsed is the only one, hence newer.

**UpstreamRegistryRefinement.** `ImplementsLazy`: initial states map to
initial states, and each step to a step of `LazyUpstream` or a stutter. Some
steps change nothing that the mapping shows (`Invisible`, `GuardInvisible`);
the rest have a lemma each. `Ownership` is used throughout.

`RegistryImplementsService` (`ImplementsService`) and `ReadsArePromised`
(`ReadsFromService`) need the invariant `Since`: every version held anywhere on
behalf of the connection in use, by the cache, by a refetch under way, or by a
request about to be decided, is between `since` and the upstream's own. It holds
with lapsed connections too, which is why the contract can be relied on whoever
is cancelled. That a server is not listed anew while it is open is `DialsOwn` of
`Ownership` again.

**ElicitationProofs.** `TypeCorrect`, `AcceptNeedsConsent`,
`AdvertisedIsNeverRejected`. The last one relates the handshake of an upstream
to a question much later, and needs `Honesty`: while some upstream has been told
"yes", the peer is captured and has declared the capability
(`AdvertisedIsAvailable`); a call is forwarded only over a finished handshake
(`ForwardedIsConnected`); and an upstream whose question was rejected had been
told "no" (`RejectedIsUnadvertised`).

**NamespaceResolverProofs.** `ResolutionIsCorrect` (`ResolvesLineage`),
`RecursionIsBounded` (`StackIsChain`), `NoToolRegained`, `TypeCorrect`, for
every set of config files and every depth limit. The invariant `IInv` adds to
`TypeOK`, `StackIsChain` and `ResolvesLineage` (each memo entry is the
reference of its name) that frames stay within their `extends` lists
(`FramesInRange`) and that each has collected exactly the lineages of the
parents before its `next` (`Collected`). The step that finishes a namespace rests on two facts
proved as lemmas: `Lineage(n)` is n together with the lineages of its parents,
and merging the combination of A with that of B gives the combination of
A ∪ B. The second is where an emptied filter must not become an absent one.
Since a namespace may be reached along several paths, A and B overlap, and the
merge must be idempotent. `NoToolRegained` is the consequence users rely on
(D-023): no descendant gets back a tool that an ancestor filtered out.

`VerdictIsForCause` (`VerdictIsJust`) has an invariant of its own, `Verdict`. Each
call on the stack is in the lineage of those below it (`Ancestry`), so a
parent met on the stack closes a cycle. What is done is closed under extends and
declared, and a name that becomes done extends only what was done before it,
hence not itself (`DoneIsSound`): no cycle passes. `AcceptedIsSound` keeps this
for what `validate` has accepted until the session starts.

`VerdictIsOrderFree`: whether a config is accepted does not depend on the order
in which `validate` happens to go through its `HashMap`. A ready session has an
active namespace that is declared, over a config where the walk of every declared
namespace succeeds and names only servers that exist; a rejected one has not
(`Acceptable`, which mentions the config file alone). Which of several errors is
reported may depend on that order, and the depth limit on the order of `extends`
(see *Findings*, last paragraph).

`StartupNeverPanics` (`NeverPanics`) cannot follow from what the graph is like,
because whether the depth limit is hit depends on the order of `extends` and
on the memo. It follows from determinism: `Move` is the one step of the walk as a
function, `Safe(c, w)` says that no walk from w fails, and a step keeps `Safe` in both
directions. So a walk that has come to its end was safe from its start, and
the second walk for the selected namespace starts where that one did.

**AggregatorProofs.** `TypeCorrect`, `NoContactBeforeAcl`,
`AnswersAreTruthful`, `ListingsAreWhole`, `ListedToolsAreInvocable`. The
invariant has a part per request: what its stage says about the checks it
passed (`Passed`), why it was refused (`Reasoned`), how often a call was put
(`Counted`), what its rows are (`Walked`), and what it contacted (`Guarded`).
Requests interact only through the inventories an upstream has provided
(`Provided`, what `InventoryService` calls `had` once the server is open), which
only grow (`ServiceGrows`); lemma `Frame` uses that to keep every other request's
part. With `RegistryImplementsService` and `ReadsArePromised` these hold over
the registry as it is, since all that is used of it is the contract.

**CapabilityCacheProofs.** `TypeCorrect`, `VerdictSound`,
`NothingOutlivesTheResult`, `CacheFromOneCheck`, `UnreadableOnlyForCause`,
`HintsFromOneCheck`, `HintsWithinBudget`, for any number of checks and sessions. `Walk` says of each
check that every server in scope is still to do, has answered or has failed;
lemma `PassedStays` that what a passed check has found is never changed, so that
the cache's contents can be traced to it at any later time. `OneCleanWriter`
says that until a write has been disturbed, at most one check is writing and the
file is its own: `UnreadableForCause` is not inductive without it.

`HintsWithinBudget` (`HintsFit`) is about the sum of what the hints of all
servers cost, under any costs. What a sum over a set is needs induction, which
the provers here cannot apply as a theorem; a statement about every finite set is
proved by contradiction instead, from a smallest set that fails (`SmallestSubset`,
from `WFMin` of the library), and `SumCounts` turns the fold into the cardinality
of a set of units. Servers are
served in the order of their ranks, so each is shown at most what those before
it have left, and the sum up to any rank stays within the budget.

**CredentialsProofs.** `TypeCorrect`, `ReportedSecretsStick`,
`IndexRemembersSettled`, for any number of commands. `Roles` ties each command's
stage to what it was asked to do and orders commands by `before`; the proof of
`SecretSticks` shows that no operation of a command that came before, or is about
another key or the index, touches the entry. For the index the point is that
a command that loads after a settled one reads a list that is right about it, and
so saves one that is, whoever saves last.

**LogPipelineProofs.** `TypeCorrect`, `LogsInOrder`, `LogsAttributed`,
`NoLineLostSilently`, for any number of sources, servers and files and any
capacity. `OneWriter` says that a pair of file and server has one writer and one
sender; then a line is in hand (begun, held or being sent), in that one queue,
in the file, failed, or cut off by a failed read (`LinesInHand`, `QueuedLines`,
`SettledLines`). A reader that is reading has not closed (`LinesInHand`), so a
read fails at most once and the line that tells of it stays the very next. The
queue and the file are in order (`QueueOrder`, `FileOrder`), what a writer is
done with is older than what is queued of the same source (`SettledLines`), and
nothing before it is still on its way (`NoGap`).

## 6. Findings

1. **A cancelled refetch loses the `list_changed` signal**
   (`src/src/registry.rs:341`, run `registry_cancelled_refetch`).
   `ensure_fresh` clears the flag before it awaits `tools/list` and restores it
   in the error and timeout arms. Cancelling the request drops the future at
   that await; neither arm runs. The old inventory stays, marked clean, until
   the upstream changes again.
2. **Overlapping refetches install out of order** (`src/src/registry.rs:374`,
   run `registry_double_refetch`). The comment at line 340 calls a double
   refetch benign. If a second notification arrives between two refetches, the
   older answer may be installed last, over the newer one, with the flag clear.
3. **A question does not inherit the deadline of its call**
   (`src/src/forward.rs:166`, run `elicitation_deadline`). It gets a timer of
   the full length when it is asked; `forward.rs:54-55` and
   `src/docs/DECISIONS.md:147` say otherwise.
4. **A failed `cred set` stores the secret** (`src/src/credentials.rs:110`, run
   `credentials_failed_set`). `set` writes the secret, then the index, and
   returns the index's error as its own. `src/src/main.rs:393` then reports "no
   secret was stored": it is there, a connect will use it, and `cred list` does
   not name it.

Observed, and not counted as disagreements: `src/docs/ARCHITECTURE.md:156`
says that cancellations are forwarded to in-flight upstream calls,
`server.rs:410-413` that they are not (they are not); whether a deep config
passes the depth check depends on the order of `extends`, because a memoized
parent is not descended into again; the second `has_server` check in
`server.rs:240` never fires for a validated config.

## 7. Only model-checked

Liveness (`HealthyAnswered`, `EveryPromptResolved`, `EveryRequestAnswered`,
`NeverStuck`) is out of the prover's reach: it needs ENABLED for the fairness
conditions. Every other property of a run is stated by a theorem. Of what the
liveness of the registry and the log pipeline rests on, the part that is not
temporal is proved for every instance: a request takes at most ten steps and is
never set back (`EveryRequestAdvances`), waits at most for a request of its own
server that does not wait (`NobodyWaitsInACircle`), and a source waits only for a
writer that can go on (`SendersAreServed`). What remains for TLC is that fairness
makes these steps happen.

## 8. Abstractions

- *Init guards*: any waiter may be next. tokio's mutex is first come, first
  served; the model allows more.
- *Transports*: HTTP and stdio upstreams are alike to the registry. A paginated
  `tools/list` is one answer, of one version.
- *Shutdown* is one step; the order in which fields are dropped is not
  modelled.
- *One question per call* in `Elicitation`, one timeout for all upstreams.
- *The registry in `Aggregator`* is `InventoryService`. That is weaker than what
  it promises when nothing is cancelled, and all the handlers' properties need.
  An upstream that dies is there one that answers no more.
- *Names that cannot be parsed* are one value; display sanitizing is a constant
  function from tools to names.
- *Cache file*: no file, just truncated, not a document, or a document.
  Which of two overlapping writers leaves a tail depends on lengths; the model
  lets either happen. A read is atomic. One namespace, hence one file. The
  timestamp is left out. Configs are equal in the fingerprint or not; `env` and
  `headers` are outside it, as in the code.
- *A killed check* matters to the cache only in the middle of its write, which
  is where `Kill` has it; killed elsewhere it is a check that takes no further
  step, which no fairness excludes. It leaves `running` as it is: no
  destructor runs, and what becomes of its children is the operating system's
  doing (a job object, or PR_SET_PDEATHSIG). `NothingLeftRunning` is about checks that report.
- *Config syntax*, server name and `cwd` checks are pure functions of one value
  and precede the walk.
- *Keyring*: an operation succeeds or is refused without effect; the entries of
  one server. An index that is not a list reads as empty, and so it is in the
  model. The prompt for a secret yields one or the command is rejected.
- *Log lines* are known by source and number. Redaction and truncation change a
  line, not its way. The pipe is counted in lines or pieces of one, taken one at
  a time; a chunk of several lines is several steps. The line about a failed read
  has a number of its own, after the line that was cut off. A write that fails loses its line; a writer writes one line
  at a time and flushes it.
- Not modelled: JSON rendering, redaction of strings, schema rewriting, job
  objects and process groups as such, tracing.

## 9. Plan

Done, the most important behaviour first: `UpstreamRegistry`, `LazyUpstream` and
the refinement; `Elicitation`; `NamespaceResolver`; `Aggregator`;
`CapabilityCache`; `Credentials`; `LogPipeline`; each with its proofs; and
`InventoryService`, where `Aggregator` and `UpstreamRegistry` meet.

