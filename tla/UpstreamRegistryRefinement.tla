---------------------- MODULE UpstreamRegistryRefinement ----------------------
(***************************************************************************)
(* The registry implements LazyUpstream, for every set of requests and     *)
(* servers: each step of UpstreamRegistry is, under the mapping of Ask,    *)
(* Opener and Upstream, a step of LazyUpstream or leaves its state alone.  *)
(* With the history of RegistryService it implements InventoryService in   *)
(* the same way, and reads from it.                                        *)
(***************************************************************************)
EXTENDS UpstreamRegistryProofs, RegistryService

USE RequestsAssumption, TargetAssumption, InvokesAssumption, BoundsAssumption

(* The mapped state, as one tuple. *)
mapped == <<Ask, Opener, Upstream, closed>>

LEMMA InitRefines == Init => Lazy!Init
<1> SUFFICES ASSUME Init
             PROVE  Lazy!Init
  OBVIOUS
<1>1. Ask = [r \in Requests |-> "new"]
  <2>1. \A r \in Requests : pc[r] = "idle"
    BY DEF Init
  <2> QED
    BY <2>1 DEF Ask, Stages, Guarded, Dialling, Using, Answers
<1>2. Opener = [s \in Servers |-> None]
  BY DEF Init, Opener
<1>3. Upstream = [s \in Servers |-> "absent"]
  BY DEF Init, Upstream
<1>4. closed = FALSE
  BY DEF Init
<1> QED
  BY <1>1, <1>2, <1>3, <1>4 DEF Lazy!Init

(* Where a request's own stage goes, everything else standing still. *)
LEMMA SameOpener ==
    ASSUME TypeOK, Ownership, NEW r \in Requests, NEW stage,
           Goto(r, stage), holder' = holder,
           stage \in Dialling <=> pc[r] \in Dialling
    PROVE  Opener' = Opener
  BY DEF TypeOK, Ownership, GuardOwned, Goto, Opener

LEMMA SameUpstream ==
    ASSUME entry' = entry, live' = live
    PROVE  Upstream' = Upstream
  BY DEF Upstream

LEMMA SameAsk ==
    ASSUME TypeOK, NEW r \in Requests, NEW stage, Goto(r, stage),
           pc[r] \in Stages \ {"idle"}, stage \in Stages \ {"idle"}
    PROVE  Ask' = Ask
  BY DEF TypeOK, Goto, Ask, Stages, Guarded, Dialling, Using, Answers

LEMMA AskOpen ==
    ASSUME TypeOK, NEW r \in Requests, pc[r] \in Stages \ {"idle"}
    PROVE  Ask[r] = "open"
  BY DEF TypeOK, Ask, Stages, Guarded, Dialling, Using, Answers

LEMMA AskFailed ==
    ASSUME TypeOK, NEW r \in Requests, NEW stage, Goto(r, stage),
           stage \in Answers \ {"ok"}
    PROVE  Ask' = [Ask EXCEPT ![r] = "failed"]
  BY ZenonT(40) DEF TypeOK, Goto, Ask, Stages, Guarded, Dialling, Using, Answers

LEMMA AskServed ==
    ASSUME TypeOK, NEW r \in Requests, Goto(r, "ok")
    PROVE  Ask' = [Ask EXCEPT ![r] = "served"]
  BY DEF TypeOK, Goto, Ask, Stages, Guarded, Dialling, Using, Answers

(* A request that opens nothing fails. *)
LEMMA FailRefines ==
    ASSUME TypeOK, Ownership, NEW r \in Requests, NEW stage,
           Goto(r, stage), stage \in Answers \ {"ok"},
           pc[r] \in Stages \ ({"idle"} \cup Dialling),
           \/ holder' = holder
           \/ ReleaseGuard(r),
           entry' = entry, live' = live, closed' = closed
    PROVE  Lazy!Fail(r)
<1>1. Ask[r] = "open"
  BY AskOpen
<1>2. Ask' = [Ask EXCEPT ![r] = "failed"]
  BY AskFailed
<1>3. Upstream' = Upstream
  BY SameUpstream
<1>4. Opener' = Opener /\ Opener[Target[r]] # r
  BY DEF TypeOK, Ownership, GuardOwned, Goto, Opener, ReleaseGuard, Dialling,
         Answers
<1> QED
  BY <1>1, <1>2, <1>3, <1>4 DEF Lazy!Fail

(* The request that is opening an upstream fails. *)
LEMMA OpenFailsRefines ==
    ASSUME TypeOK, Ownership, NEW r \in Requests, NEW stage,
           Goto(r, stage), stage \in Answers \ {"ok"}, pc[r] \in Dialling,
           ReleaseGuard(r), entry' = entry, live' = live \ {r},
           closed' = closed
    PROVE  Lazy!OpenFails(r)
<1>1. Ask' = [Ask EXCEPT ![r] = "failed"]
  BY AskFailed
<1>2. Opener[Target[r]] = r
  BY DEF TypeOK, Ownership, GuardOwned, Opener, Guarded
<1>3. Opener' = [Opener EXCEPT ![Target[r]] = None]
  <2>1. \A s \in Servers : Opener'[s] = IF s = Target[r] THEN None ELSE Opener[s]
    BY DEF TypeOK, Ownership, GuardOwned, Goto, Opener, ReleaseGuard, Guarded
  <2> QED
    BY <2>1 DEF Opener
<1>4. Upstream' = Upstream
  BY DEF TypeOK, Ownership, DialsOwn, EntryOfServer, Upstream
<1> QED
  BY <1>1, <1>2, <1>3, <1>4 DEF Lazy!OpenFails

-----------------------------------------------------------------------------
(* Steps that LazyUpstream does not see *)

LEMMA Invisible ==
    ASSUME TypeOK, Ownership, NEW r \in Requests, NEW stage, Goto(r, stage),
           pc[r] \in Stages \ {"idle"}, stage \in Stages \ {"idle"},
           stage \in Dialling <=> pc[r] \in Dialling,
           UNCHANGED <<closed, holder, entry, live>>
    PROVE  UNCHANGED mapped
<1>1. Ask' = Ask
  BY SameAsk
<1>2. Opener' = Opener
  BY SameOpener
<1>3. Upstream' = Upstream
  BY SameUpstream
<1> QED
  BY <1>1, <1>2, <1>3 DEF mapped

(* The guard changes hands outside a connect. *)
LEMMA GuardInvisible ==
    ASSUME TypeOK, Ownership, NEW r \in Requests,
           AcquireGuard(r) \/ RecheckHit(r)
    PROVE  UNCHANGED mapped
<1> USE DEF AcquireGuard, RecheckHit
<1>1. Ask' = Ask
  BY DEF TypeOK, Goto, Ask, Stages, Guarded, Dialling, Using, Answers
<1>2. Opener' = Opener
  BY DEF TypeOK, Ownership, GuardOwned, Goto, Opener, ReleaseGuard, Guarded,
         Dialling
<1>3. Upstream' = Upstream
  BY SameUpstream
<1> QED
  BY <1>1, <1>2, <1>3 DEF mapped

-----------------------------------------------------------------------------
(* get_or_connect *)

LEMMA ConnectRefines ==
    ASSUME TypeOK, Ownership, NEW r \in Requests, GetOrConnect(r)
    PROVE  Lazy!Next \/ UNCHANGED mapped
<1> USE DEF registryVars, upstreamVars
<1>1. CASE LookupHit(r) \/ LookupMiss(r)
  <2>1. PICK stage \in {"fresh", "guard"} :
           /\ Goto(r, stage)
           /\ pc[r] = "lookup"
           /\ UNCHANGED <<closed, holder, entry, live>>
    BY <1>1 DEF LookupHit, LookupMiss
  <2> QED
    BY <2>1, Invisible DEF Stages, Guarded, Dialling, Using
<1>2. CASE AcquireGuard(r) \/ RecheckHit(r)
  BY <1>2, GuardInvisible
<1>3. CASE ConnectRefused(r)
  <2>1. PICK code \in {"credential_resolution_failed", "upstream_connect"} :
           Goto(r, code)
    BY <1>3 DEF ConnectRefused
  <2>2. Lazy!Fail(r)
    BY <1>3, <2>1, FailRefines DEF ConnectRefused, Stages, Guarded, Dialling,
       Answers
  <2> QED
    BY <2>2 DEF Lazy!Next
<1>4. CASE StartConnect(r)
  <2> USE <1>4 DEF StartConnect
  <2>1. Ask' = Ask /\ Ask[r] = "open"
    BY SameAsk, AskOpen DEF Stages, Guarded, Dialling
  <2>2. Opener[Target[r]] = None /\ Opener' = [Opener EXCEPT ![Target[r]] = r]
    BY DEF TypeOK, Ownership, GuardOwned, Goto, Opener, Guarded, Dialling
  <2>3. Upstream' = Upstream /\ Upstream[Target[r]] = "absent"
    BY DEF TypeOK, Ownership, EntryOfServer, Upstream
  <2>4. Lazy!Open(r)
    BY <2>1, <2>2, <2>3 DEF Lazy!Open
  <2> QED
    BY <2>4 DEF Lazy!Next
<1>5. CASE ConnectOk(r)
  <2>1. Goto(r, "insert") /\ pc[r] = "connect"
    BY <1>5 DEF ConnectOk
  <2>2. UNCHANGED <<closed, holder, entry, live>>
    BY <1>5 DEF ConnectOk
  <2> QED
    BY <2>1, <2>2, Invisible DEF Stages, Guarded, Dialling
<1>6. CASE ConnectFails(r)
  <2>1. PICK code \in {"upstream_connect", "upstream_timeout"} : Goto(r, code)
    BY <1>6 DEF ConnectFails
  <2>2. Lazy!OpenFails(r)
    BY <1>6, <2>1, OpenFailsRefines DEF ConnectFails, DropConnection,
       Dialling, Answers
  <2> QED
    BY <2>2 DEF Lazy!Next
<1>7. CASE InsertEntry(r)
  <2> USE <1>7 DEF InsertEntry
  <2>1. Ask' = Ask
    BY SameAsk DEF Stages, Guarded, Dialling, Using
  <2>2. Opener[Target[r]] = r
    BY DEF TypeOK, Ownership, GuardOwned, Opener, Guarded, Dialling
  <2>3. Opener' = [Opener EXCEPT ![Target[r]] = None]
    <3>1. \A s \in Servers :
             Opener'[s] = IF s = Target[r] THEN None ELSE Opener[s]
      BY DEF TypeOK, Ownership, GuardOwned, Goto, Opener, ReleaseGuard,
             Guarded, Dialling
    <3> QED
      BY <3>1 DEF Opener
  <2>4. PICK u \in {"up", "down"} :
           Upstream' = [Upstream EXCEPT ![Target[r]] = u]
    <3>1. CASE r \in live
      BY <3>1 DEF TypeOK, Upstream
    <3>2. CASE r \notin live
      BY <3>2 DEF TypeOK, Upstream
    <3> QED
      BY <3>1, <3>2
  <2>5. Lazy!Opened(r)
    BY <2>1, <2>2, <2>3, <2>4 DEF Lazy!Opened
  <2> QED
    BY <2>5 DEF Lazy!Next
<1> QED
  BY <1>1, <1>2, <1>3, <1>4, <1>5, <1>6, <1>7 DEF GetOrConnect

-----------------------------------------------------------------------------
(* A request that is served from the map's connection. *)
LEMMA ServeRefines ==
    ASSUME TypeOK, Ownership, NEW r \in Requests, Goto(r, "ok"),
           pc[r] \in Using, UNCHANGED <<closed, holder, entry, live>>
    PROVE  Lazy!Serve(r)
<1>1. Ask[r] = "open"
  BY AskOpen DEF Stages, Guarded, Dialling, Using
<1>2. Ask' = [Ask EXCEPT ![r] = "served"]
  BY AskServed
<1>3. Upstream' = Upstream /\ Upstream[Target[r]] # "absent"
  BY SameUpstream DEF TypeOK, Ownership, UsesEntry, Upstream
<1>4. Opener' = Opener
  BY SameOpener DEF Dialling, Using
<1> QED
  BY <1>1, <1>2, <1>3, <1>4 DEF Lazy!Serve

(* After get_or_connect a request moves between its own stages, is served, *)
(* or fails, and touches neither the map nor a guard.                      *)
LEMMA UsingRefines ==
    ASSUME TypeOK, Ownership, NEW r \in Requests, pc[r] \in Using,
           NEW stage \in Using \cup Answers, Goto(r, stage),
           UNCHANGED <<closed, holder, entry, live>>
    PROVE  Lazy!Next \/ UNCHANGED mapped
<1>1. CASE stage \in Using
  BY <1>1, Invisible DEF Stages, Guarded, Dialling, Using
<1>2. CASE stage = "ok"
  BY <1>2, ServeRefines DEF Lazy!Next
<1>3. CASE stage \in Answers \ {"ok"}
  BY <1>3, FailRefines DEF Lazy!Next, Stages, Guarded, Dialling, Using
<1> QED
  BY <1>1, <1>2, <1>3

LEMMA EnsureFreshRefines ==
    ASSUME TypeOK, Ownership, NEW r \in Requests, EnsureFresh(r)
    PROVE  Lazy!Next \/ UNCHANGED mapped
<1>1. pc[r] \in Using /\ UNCHANGED <<closed, holder, entry, live>>
  BY DEF EnsureFresh, LoadClean, GoAhead, LoadDirty, SwapWins, SwapLoses,
         InstallFresh, RefetchFails, registryVars, Using
<1>2. PICK stage \in Using \cup Answers : Goto(r, stage)
  <2>1. CASE LoadClean(r) \/ LoadDirty(r) \/ SwapWins(r)
             \/ SwapLoses(r) \/ InstallFresh(r)
    BY <2>1 DEF LoadClean, GoAhead, LoadDirty, SwapWins, SwapLoses,
         InstallFresh, Using
  <2>2. CASE RefetchFails(r)
    BY <2>2 DEF RefetchFails, Answers
  <2> QED
    BY <2>1, <2>2 DEF EnsureFresh
<1> QED
  BY <1>1, <1>2, UsingRefines

LEMMA ForwardRefines ==
    ASSUME TypeOK, Ownership, NEW r \in Requests, Forward(r)
    PROVE  Lazy!Next \/ UNCHANGED mapped
<1>1. pc[r] \in Using /\ UNCHANGED <<closed, holder, entry, live>>
  BY DEF Forward, ServeInventory, LookupTool, CallReturns, CallDisconnected,
         CallTimeout, registryVars, Using
<1>2. PICK stage \in Using \cup Answers : Goto(r, stage)
  <2>1. CASE ServeInventory(r) \/ LookupTool(r)
    BY <2>1 DEF ServeInventory, LookupTool, Using, Answers
  <2>2. CASE CallReturns(r) \/ CallDisconnected(r) \/ CallTimeout(r)
    BY <2>2 DEF CallReturns, CallDisconnected, CallTimeout, Answers
  <2> QED
    BY <2>1, <2>2 DEF Forward
<1> QED
  BY <1>1, <1>2, UsingRefines

-----------------------------------------------------------------------------
(* Arrival, cancellation and the environment *)

LEMMA ReceiveRefines ==
    ASSUME TypeOK, Ownership, NEW r \in Requests, Receive(r)
    PROVE  Lazy!Next
<1> USE DEF Receive, registryVars
<1>1. Ask[r] = "new" /\ Ask' = [Ask EXCEPT ![r] = "open"]
  BY DEF TypeOK, Goto, Ask, Stages, Guarded, Dialling, Using, Answers
<1>2. Opener' = Opener
  BY SameOpener DEF Dialling
<1>3. Upstream' = Upstream
  BY SameUpstream
<1>4. Lazy!Arrive(r)
  BY <1>1, <1>2, <1>3 DEF Lazy!Arrive
<1> QED
  BY <1>4 DEF Lazy!Next

LEMMA CancelRefines ==
    ASSUME TypeOK, Ownership, NEW r \in Requests, Cancel(r)
    PROVE  Lazy!Next
<1> USE DEF Cancel
<1>1. CASE pc[r] \in Dialling
  BY <1>1, OpenFailsRefines DEF DropConnection, Answers, Lazy!Next
<1>2. CASE pc[r] \notin Dialling
  BY <1>2, FailRefines DEF Awaits, Answers, Lazy!Next
<1> QED
  BY <1>1, <1>2

LEMMA DiesRefines ==
    ASSUME TypeOK, Ownership, NEW c \in Requests, UpstreamDies(c)
    PROVE  Lazy!Next \/ UNCHANGED mapped
<1> USE DEF UpstreamDies, registryVars
<1>1. Ask' = Ask /\ Opener' = Opener
  BY DEF Ask, Opener
<1>2. CASE entry[Target[c]] = c
  <2>1. /\ Upstream[Target[c]] = "up"
        /\ Upstream' = [Upstream EXCEPT ![Target[c]] = "down"]
    BY <1>2 DEF TypeOK, Ownership, EntryOfServer, Upstream
  <2>2. Lazy!Lose(Target[c])
    BY <1>1, <2>1 DEF Lazy!Lose
  <2> QED
    BY <2>2 DEF Lazy!Next
<1>3. CASE entry[Target[c]] # c
  <2>1. Upstream' = Upstream
    BY <1>3 DEF TypeOK, Ownership, EntryOfServer, Upstream
  <2> QED
    BY <1>1, <2>1 DEF mapped
<1> QED
  BY <1>2, <1>3

LEMMA ShutdownRefines ==
    ASSUME TypeOK, Shutdown
    PROVE  Lazy!Next
<1> USE DEF Shutdown
<1>1. Ask' = [r \in Requests |-> IF Ask[r] = "open" THEN "failed" ELSE Ask[r]]
  BY DEF TypeOK, Ask, InFlight, Stages, Guarded, Dialling, Using, Answers
<1>2. Opener' = [s \in Servers |-> None]
  BY DEF Opener
<1>3. Upstream' = [s \in Servers |-> "absent"]
  BY DEF Upstream
<1>4. Lazy!Close
  BY <1>1, <1>2, <1>3 DEF Lazy!Close
<1> QED
  BY <1>4 DEF Lazy!Next

LEMMA StutterRefines ==
    ASSUME UNCHANGED <<pc, closed, registryVars, live>>
    PROVE  UNCHANGED mapped
<1>1. Ask' = Ask
  BY DEF Ask
<1>2. Opener' = Opener /\ Upstream' = Upstream
  BY DEF Opener, Upstream, registryVars
<1> QED
  BY <1>1, <1>2 DEF mapped

LEMMA NextRefines ==
    ASSUME TypeOK, Ownership, [Next]_vars
    PROVE  Lazy!Next \/ UNCHANGED mapped
<1>1. ASSUME NEW r \in Requests, Receive(r) \/ Step(r) \/ Cancel(r)
      PROVE  Lazy!Next \/ UNCHANGED mapped
  BY <1>1, ReceiveRefines, ConnectRefines, EnsureFreshRefines,
     ForwardRefines, CancelRefines DEF Step
<1>2. ASSUME NEW r \in Requests, UpstreamLists(r) \/ ToolListChanged(r)
      PROVE  UNCHANGED mapped
  BY <1>2, StutterRefines DEF UpstreamLists, ToolListChanged
<1>3. ASSUME NEW s \in Servers, UpstreamChanges(s)
      PROVE  UNCHANGED mapped
  BY <1>3, StutterRefines DEF UpstreamChanges
<1>4. CASE UNCHANGED vars
  BY <1>4, StutterRefines DEF vars, registryVars
<1> QED
  BY <1>1, <1>2, <1>3, <1>4, DiesRefines, ShutdownRefines DEF Next

(* The registry is lazy, opens each upstream in one flight at a time and   *)
(* never twice, and a failed connect fails the request that made it alone. *)
THEOREM ImplementsLazy == Spec => ImplementsLazyUpstream
<1>1. TypeOK /\ Ownership /\ [Next]_vars => [Lazy!Next]_(Lazy!vars)
  BY NextRefines DEF mapped, Lazy!vars
<1> QED
  BY <1>1, InitRefines, OwnershipInvariant, PTL
     DEF Spec, ImplementsLazyUpstream, Lazy!Spec

-----------------------------------------------------------------------------
(* The registry as an InventoryService *)

(* Every list the registry holds or is about to, first lists and refetched *)
(* ones, dates from the listing that `since' remembers or later.           *)
Since ==
    /\ since \in [Servers -> Versions \cup {NoReply}]
    /\ \A s \in Servers : since[s] <= version[s]
    /\ \A r \in Requests :
          /\ pc[r] = "connect" /\ reply[r] # NoReply =>
                since[Target[r]] # NoReply /\ reply[r] >= since[Target[r]]
          /\ pc[r] = "insert" =>
                since[Target[r]] # NoReply /\ cached[r] >= since[Target[r]]
          /\ pc[r] = "refetch" /\ reply[r] # NoReply => reply[r] >= since[Target[r]]
    /\ \A s \in Servers : entry[s] # None =>
          since[s] # NoReply /\ cached[entry[s]] >= since[s]

(* Only an answered tools/list of a connection under construction counts   *)
(* as a first listing.                                                     *)
LEMMA SinceStays ==
    ASSUME TypeOK, ServiceNext, NEW s \in Servers, since \in [Servers -> Versions \cup {NoReply}],
           \A r \in Requests : pc[r] = "connect" /\ Target[r] = s =>
              reply'[r] \in {reply[r], NoReply}
    PROVE  since'[s] = since[s]
  BY DEF ServiceNext, ListedFirst

(* What since keeps while nobody is answered a first listing.              *)
LEMMA SinceUnchanged ==
    ASSUME TypeOK, Since, ServiceNext,
           \A r \in Requests : pc[r] = "connect" => reply'[r] \in {reply[r], NoReply}
    PROVE  since' = since
<1>1. \A s \in Servers : since'[s] = since[s]
  BY SinceStays DEF Since
<1>2. since' = [s \in Servers |-> since'[s]] /\ since = [s \in Servers |-> since[s]]
  BY DEF ServiceNext, Since
<1>. QED
  BY <1>1, <1>2

(* Steps that neither list, open nor install: what each request relies on  *)
(* is what it relied on before.                                            *)
LEMMA QuietSince ==
    ASSUME TypeOK, Since, since' = since, entry' = entry, cached' = cached,
           \A s \in Servers : version'[s] >= version[s],
           \A r \in Requests :
              /\ pc'[r] = "connect" => /\ pc[r] = "connect" \/ reply'[r] = NoReply
                                       /\ reply'[r] \in {reply[r], NoReply}
              /\ pc'[r] = "insert" => pc[r] = "insert"
              /\ pc'[r] = "refetch" => /\ pc[r] = "refetch" \/ reply'[r] = NoReply
                                       /\ reply'[r] \in {reply[r], NoReply},
           version' \in [Servers -> Versions]
    PROVE  Since'
<1>1. \A s \in Servers : since'[s] <= version'[s]
  BY DEF Since, TypeOK, Versions, NoReply
<1>. QED
  BY <1>1 DEF Since

(* The mapped state, as one tuple, and what is shown of every step.        *)
provided == <<version, Had, Opened>>
Serves == Since' /\ (Service!Next \/ UNCHANGED provided)

LEMMA SameService ==
    ASSUME version' = version, since' = since, entry' = entry
    PROVE  UNCHANGED provided
  BY DEF provided, Had, Opened

(* A request moves on without a listing, or loses the answer it had.       *)
LEMMA MoveServes ==
    ASSUME TypeOK, Since, ServiceNext, NEW r \in Requests, NEW stage, Goto(r, stage),
           stage \notin {"connect", "insert", "refetch"},
           reply' \in {reply, [reply EXCEPT ![r] = NoReply]},
           UNCHANGED <<entry, cached, version>>
    PROVE  Serves
<1>1. \A q \in Requests : reply'[q] \in {reply[q], NoReply}
  BY DEF TypeOK
<1>2. since' = since
  BY <1>1, SinceUnchanged
<1>3. \A q \in Requests : pc'[q] \in {"connect", "insert", "refetch"} => pc'[q] = pc[q]
  BY DEF Goto, TypeOK
<1>4. \A s \in Servers : version'[s] >= version[s]
  BY DEF TypeOK, Versions
<1>5. Since'
  BY <1>1, <1>2, <1>3, <1>4, QuietSince DEF TypeOK
<1>. QED
  BY <1>2, <1>5, SameService DEF Serves

(* The request that connects or refetches has no answer yet.               *)
LEMMA AskServes ==
    ASSUME TypeOK, Freshness, Since, ServiceNext, NEW r \in Requests,
           StartConnect(r) \/ SwapWins(r)
    PROVE  Serves
<1>1. /\ \/ pc' = [pc EXCEPT ![r] = "connect"]
         \/ pc' = [pc EXCEPT ![r] = "refetch"]
      /\ UNCHANGED <<entry, cached, version, reply>>
  BY DEF StartConnect, SwapWins, Goto, registryVars, upstreamVars
<1>2. reply[r] = NoReply
  BY DEF StartConnect, SwapWins, Freshness, Expected
<1>3. since' = since
  BY <1>1, SinceUnchanged
<1>4. \A s \in Servers : version'[s] >= version[s]
  BY <1>1 DEF TypeOK, Versions
<1>5. \A q \in Requests : q # r => pc'[q] = pc[q]
  BY <1>1 DEF TypeOK
<1>6. pc'[r] # "insert" /\ reply'[r] = NoReply
  BY <1>1, <1>2 DEF TypeOK
<1>7. Since'
  BY <1>1, <1>3, <1>4, <1>5, <1>6, QuietSince DEF TypeOK
<1>. QED
  BY <1>1, <1>3, <1>7, SameService DEF Serves

LEMMA PassingServes ==
    ASSUME TypeOK, Since, ServiceNext, NEW r \in Requests,
           \/ Receive(r) \/ LookupHit(r) \/ LookupMiss(r) \/ AcquireGuard(r)
           \/ RecheckHit(r) \/ ConnectRefused(r) \/ ConnectFails(r)
    PROVE  Serves
<1>1. \E stage \in {"lookup", "fresh", "guard", "recheck"} \cup Answers :
         /\ Goto(r, stage)
         /\ reply' \in {reply, [reply EXCEPT ![r] = NoReply]}
         /\ UNCHANGED <<entry, cached, version>>
  BY DEF Receive, LookupHit, LookupMiss, AcquireGuard, RecheckHit, ConnectRefused,
     ConnectFails, Answers, registryVars, inventoryVars, upstreamVars
<1>. QED
  BY <1>1, MoveServes DEF Answers

LEMMA ReadingServes ==
    ASSUME TypeOK, Since, ServiceNext, NEW r \in Requests,
           \/ LoadClean(r) \/ LoadDirty(r) \/ SwapLoses(r) \/ RefetchFails(r)
           \/ Forward(r) \/ Cancel(r)
    PROVE  Serves
<1>1. \E stage \in {"serve", "swap", "calling"} \cup Answers :
         /\ Goto(r, stage)
         /\ reply' \in {reply, [reply EXCEPT ![r] = NoReply]}
         /\ UNCHANGED <<entry, cached, version>>
  BY DEF LoadClean, LoadDirty, SwapLoses, GoAhead, RefetchFails, Forward, ServeInventory,
     LookupTool, CallReturns, CallDisconnected, CallTimeout, Cancel, Answers,
     registryVars, inventoryVars, upstreamVars
<1>. QED
  BY <1>1, MoveServes DEF Answers

(* The upstream's answer becomes the list of the entry to be.              *)
LEMMA ConnectOkServes ==
    ASSUME TypeOK, Ownership, Since, ServiceNext, NEW r \in Requests, ConnectOk(r)
    PROVE  Serves
<1>1. /\ pc[r] = "connect" /\ reply[r] # NoReply
      /\ pc' = [pc EXCEPT ![r] = "insert"]
      /\ cached' = [cached EXCEPT ![r] = reply[r]]
      /\ reply' = [reply EXCEPT ![r] = NoReply]
      /\ UNCHANGED <<entry, version>>
  BY DEF ConnectOk, Goto, registryVars, upstreamVars
<1>2. since' = since
  BY <1>1, SinceUnchanged DEF TypeOK
<1>3. entry[Target[r]] = None
  BY <1>1 DEF Ownership, DialsOwn, Dialling
<1>4. \A s \in Servers : entry[s] # None => entry[s] # r
  BY <1>3 DEF Ownership, EntryOfServer
<1>5. Since'
  <2>1. \A s \in Servers : entry'[s] # None =>
           since'[s] # NoReply /\ cached'[entry'[s]] >= since'[s]
    BY <1>1, <1>2, <1>4 DEF Since, TypeOK
  <2>2. ASSUME NEW q \in Requests
        PROVE  /\ pc'[q] = "connect" /\ reply'[q] # NoReply =>
                     since'[Target[q]] # NoReply /\ reply'[q] >= since'[Target[q]]
               /\ pc'[q] = "insert" =>
                     since'[Target[q]] # NoReply /\ cached'[q] >= since'[Target[q]]
               /\ pc'[q] = "refetch" /\ reply'[q] # NoReply =>
                     reply'[q] >= since'[Target[q]]
    <3>1. CASE q = r
      BY <1>1, <1>2, <3>1 DEF Since, TypeOK
    <3>2. CASE q # r
      BY <1>1, <1>2, <3>2 DEF Since, TypeOK
    <3>. QED
      BY <3>1, <3>2
  <2>. QED
    BY <1>1, <1>2, <2>1, <2>2 DEF Since
<1>. QED
  BY <1>1, <1>2, <1>5, SameService DEF Serves

(* An entry opens its server, which has been listed.                       *)
LEMMA InsertServes ==
    ASSUME TypeOK, Ownership, Since, ServiceNext, NEW r \in Requests, InsertEntry(r)
    PROVE  Serves
<1> DEFINE s == Target[r]
<1>1. /\ pc[r] = "insert"
      /\ pc' = [pc EXCEPT ![r] = "fresh"]
      /\ entry' = [entry EXCEPT ![s] = r]
      /\ UNCHANGED <<cached, reply, version>>
  BY DEF InsertEntry, Goto, inventoryVars, upstreamVars
<1>2. since' = since
  BY <1>1, SinceUnchanged
<1>3. s \in Servers /\ entry[s] = None /\ r # None
  BY <1>1 DEF Ownership, DialsOwn, Dialling
<1>4. since[s] # NoReply /\ cached[r] >= since[s]
  BY <1>1 DEF Since
<1>5. Since'
  BY <1>1, <1>2, <1>3, <1>4 DEF Since, TypeOK
<1>6. Service!Open(s)
  <2>1. Had[s] # {}
    <3>1. since[s] \in Nat /\ version[s] \in Nat /\ since[s] <= version[s]
      BY <1>3, <1>4 DEF Since, TypeOK, Versions
    <3>2. since[s] \in since[s]..version[s]
      BY <3>1
    <3>. QED
      BY <1>3, <1>4, <3>2 DEF Had
  <2>2. Had' = Had
    BY <1>1, <1>2 DEF Had
  <2>3. Opened' = [Opened EXCEPT ![s] = TRUE] /\ ~Opened[s]
    BY <1>1, <1>3 DEF Opened, TypeOK
  <2>. QED
    BY <1>1, <2>1, <2>2, <2>3 DEF Service!Open
<1>. QED
  BY <1>3, <1>5, <1>6 DEF Serves, Service!Next

(* A refetched list replaces the cached one.                               *)
LEMMA InstallServes ==
    ASSUME TypeOK, Ownership, Since, ServiceNext, NEW r \in Requests, InstallFresh(r)
    PROVE  Serves
<1>1. /\ pc[r] = "refetch" /\ reply[r] # NoReply
      /\ pc' = [pc EXCEPT ![r] = "serve"]
      /\ cached' = [cached EXCEPT ![conn[r]] = reply[r]]
      /\ reply' = [reply EXCEPT ![r] = NoReply]
      /\ UNCHANGED <<entry, version>>
  BY DEF InstallFresh, Goto, registryVars, upstreamVars
<1>2. since' = since
  BY <1>1, SinceUnchanged DEF TypeOK
<1>3. /\ entry[Target[r]] # None /\ conn[r] = entry[Target[r]] /\ conn[r] \in Requests
      /\ Target[conn[r]] = Target[r]
  BY <1>1 DEF Ownership, UsesEntry, Using, EntryOfServer, TypeOK
<1>4. pc[conn[r]] # "insert"
  BY <1>3 DEF Ownership, DialsOwn, Dialling
<1>5. \A s \in Servers : entry'[s] # None =>
         since'[s] # NoReply /\ cached'[entry'[s]] >= since'[s]
  <2> SUFFICES ASSUME NEW s \in Servers, entry[s] # None
               PROVE  since[s] # NoReply /\ cached'[entry[s]] >= since[s]
    BY <1>1, <1>2
  <2>1. CASE entry[s] = conn[r]
    <3>1. s = Target[r]
      BY <1>3, <2>1 DEF Ownership, EntryOfServer
    <3>. QED
      BY <1>1, <1>3, <2>1, <3>1 DEF Since, TypeOK
  <2>2. CASE entry[s] # conn[r]
    BY <1>1, <2>2 DEF Since, TypeOK
  <2>. QED
    BY <2>1, <2>2
<1>6. \A q \in Requests : pc'[q] = "insert" => pc[q] = "insert" /\ cached'[q] = cached[q]
  BY <1>1, <1>4 DEF TypeOK
<1>7. \A q \in Requests : pc'[q] \in {"connect", "refetch"} /\ reply'[q] # NoReply =>
         pc'[q] = pc[q] /\ reply'[q] = reply[q]
  BY <1>1 DEF TypeOK
<1>8. Since'
  BY <1>1, <1>2, <1>5, <1>6, <1>7 DEF Since
<1>. QED
  BY <1>1, <1>2, <1>8, SameService DEF Serves

(* The answer to a first tools/list is a listing of the server; nobody     *)
(* else is connecting to it or uses it.                                    *)
LEMMA FirstListServes ==
    ASSUME TypeOK, Ownership, Since, ServiceNext, NEW r \in Requests,
           UpstreamLists(r), pc[r] = "connect"
    PROVE  Serves
<1> DEFINE s == Target[r]
<1>1. /\ reply[r] = NoReply
      /\ reply' = [reply EXCEPT ![r] = version[s]]
      /\ UNCHANGED <<pc, entry, cached, version>>
  BY DEF UpstreamLists, registryVars, inventoryVars, upstreamVars
<1>2. s \in Servers /\ entry[s] = None /\ version[s] \in Nat /\ version[s] # NoReply
  BY DEF Ownership, DialsOwn, Dialling, TypeOK, Versions, NoReply
<1>3. \A q \in Requests : Target[q] = s /\ pc[q] \in Dialling => q = r
  BY DEF Ownership, GuardOwned, Guarded, Dialling
<1>4. \A q \in Requests : Target[q] = s => pc[q] # "refetch"
  BY <1>2 DEF Ownership, UsesEntry, Using
<1>5. since' = [since EXCEPT ![s] = version[s]]
  <2>1. ListedFirst(s)
    BY <1>1, <1>2 DEF ListedFirst, TypeOK
  <2>2. \A t \in Servers : ListedFirst(t) => t = s
    BY <1>1 DEF ListedFirst, TypeOK
  <2>3. \A t \in Servers : since'[t] = IF t = s THEN version[s] ELSE since[t]
    BY <1>2, <2>1, <2>2 DEF ServiceNext
  <2>4. since' = [t \in Servers |-> since'[t]] /\ since = [t \in Servers |-> since[t]]
    BY DEF ServiceNext, Since
  <2>. QED
    BY <2>3, <2>4
<1>6. Since'
  <2>1. since' \in [Servers -> Versions \cup {NoReply}]
    BY <1>2, <1>5 DEF Since, Versions
  <2>2. \A t \in Servers : since'[t] <= version'[t]
    BY <1>1, <1>2, <1>5 DEF Since
  <2>3. \A t \in Servers : entry'[t] # None =>
           since'[t] # NoReply /\ cached'[entry'[t]] >= since'[t]
    BY <1>1, <1>2, <1>5 DEF Since
  <2>4. ASSUME NEW q \in Requests
        PROVE  /\ pc'[q] = "connect" /\ reply'[q] # NoReply =>
                     since'[Target[q]] # NoReply /\ reply'[q] >= since'[Target[q]]
               /\ pc'[q] = "insert" =>
                     since'[Target[q]] # NoReply /\ cached'[q] >= since'[Target[q]]
               /\ pc'[q] = "refetch" /\ reply'[q] # NoReply =>
                     reply'[q] >= since'[Target[q]]
    <3>1. CASE q = r
      BY <1>1, <1>2, <1>5, <3>1 DEF TypeOK, Since
    <3>2. CASE q # r /\ Target[q] = s
      BY <1>1, <1>3, <1>4, <3>2 DEF Dialling
    <3>3. CASE q # r /\ Target[q] # s
      BY <1>1, <1>5, <3>3 DEF Since, TypeOK
    <3>. QED
      BY <3>1, <3>2, <3>3
  <2>. QED
    BY <2>1, <2>2, <2>3, <2>4 DEF Since
<1>7. Service!List(s)
  <2>1. Had' = [Had EXCEPT ![s] = {version[s]}]
    <3>1. version[s]..version[s] = {version[s]}
      BY <1>2
    <3>2. \A t \in Servers : Had'[t] = IF t = s THEN {version[s]} ELSE Had[t]
      BY <1>1, <1>2, <1>5, <3>1 DEF Had, Since
    <3>. QED
      BY <3>2 DEF Had
  <2>2. Opened' = Opened /\ ~Opened[s]
    BY <1>1, <1>2 DEF Opened
  <2>. QED
    BY <1>1, <2>1, <2>2 DEF Service!List
<1>. QED
  BY <1>2, <1>6, <1>7 DEF Serves, Service!Next

(* The answer to a refetch is no older than the connection's listing.      *)
LEMMA RefetchAnswerServes ==
    ASSUME TypeOK, Since, ServiceNext, NEW r \in Requests,
           UpstreamLists(r), pc[r] = "refetch"
    PROVE  Serves
<1>1. /\ reply' = [reply EXCEPT ![r] = version[Target[r]]]
      /\ UNCHANGED <<pc, entry, cached, version>>
  BY DEF UpstreamLists, registryVars, inventoryVars, upstreamVars
<1>2. since' = since
  BY <1>1, SinceUnchanged DEF TypeOK
<1>3. reply'[r] >= since'[Target[r]]
  <2>1. version[Target[r]] \in Nat /\ since[Target[r]] \in Int
        /\ since[Target[r]] <= version[Target[r]]
    BY DEF TypeOK, Since, Versions, NoReply
  <2>. QED
    BY <1>1, <1>2, <2>1 DEF TypeOK
<1>4. \A q \in Requests : q # r => reply'[q] = reply[q]
  BY <1>1 DEF TypeOK
<1>5. Since'
  BY <1>1, <1>2, <1>3, <1>4 DEF Since
<1>. QED
  BY <1>1, <1>2, <1>5, SameService DEF Serves

(* A changed upstream has one inventory more to answer with.               *)
LEMMA ChangeServes ==
    ASSUME TypeOK, Since, ServiceNext, NEW s \in Servers, UpstreamChanges(s)
    PROVE  Serves
<1>1. /\ version' = [version EXCEPT ![s] = version[s] + 1]
      /\ UNCHANGED <<pc, entry, cached, reply>>
  BY DEF UpstreamChanges, registryVars, inventoryVars
<1>2. since' = since
  BY <1>1, SinceUnchanged
<1>3. /\ version[s] \in Nat /\ version'[s] = version[s] + 1
      /\ version' \in [Servers -> Versions]
      /\ \A t \in Servers : version'[t] >= version[t]
  BY <1>1 DEF TypeOK, Versions
<1>4. Since'
  BY <1>1, <1>2, <1>3, QuietSince
<1>5. Service!Change(s, version'[s])
  <2>1. Had' = [Had EXCEPT ![s] = IF @ = {} THEN {} ELSE @ \cup {version'[s]}]
    <3>1. since[s] \in Versions \cup {NoReply} /\ since[s] <= version[s]
      BY DEF Since
    <3>2. since[s] # NoReply =>
             /\ since[s]..(version[s] + 1) = (since[s]..version[s]) \cup {version[s] + 1}
             /\ since[s]..version[s] # {}
      <4>1. SUFFICES ASSUME since[s] \in Nat
                     PROVE  /\ since[s]..(version[s] + 1)
                                  = (since[s]..version[s]) \cup {version[s] + 1}
                            /\ since[s] \in since[s]..version[s]
        BY <3>1 DEF Versions
      <4>. QED
        BY <1>3, <3>1, <4>1
    <3>3. Had'[s] = IF Had[s] = {} THEN {} ELSE Had[s] \cup {version'[s]}
      BY <1>2, <1>3, <3>2 DEF Had
    <3>4. \A t \in Servers : t # s => Had'[t] = Had[t]
      BY <1>1, <1>2 DEF Had, TypeOK
    <3>. QED
      BY <3>3, <3>4 DEF Had
  <2>2. version' = [version EXCEPT ![s] = version'[s]] /\ version'[s] \in Versions \ {version[s]}
    BY <1>1, <1>3 DEF TypeOK, Versions
  <2>3. Opened' = Opened
    BY <1>1 DEF Opened
  <2>. QED
    BY <2>1, <2>2, <2>3 DEF Service!Change
<1>. QED
  BY <1>4, <1>5 DEF Serves, Service!Next

(* A notification, and the death of an upstream, list nothing.             *)
LEMMA EventServes ==
    ASSUME TypeOK, Since, ServiceNext, NEW c \in Requests,
           ToolListChanged(c) \/ UpstreamDies(c)
    PROVE  Serves
<1>1. UNCHANGED <<pc, entry, cached, reply, version>>
  BY DEF ToolListChanged, UpstreamDies, registryVars, inventoryVars, upstreamVars
<1>2. since' = since
  BY <1>1, SinceUnchanged
<1>3. \A s \in Servers : version'[s] >= version[s]
  BY <1>1 DEF TypeOK, Versions
<1>4. Since'
  BY <1>1, <1>2, <1>3, QuietSince DEF TypeOK
<1>. QED
  BY <1>1, <1>2, <1>4, SameService DEF Serves

LEMMA ShutdownServes ==
    ASSUME TypeOK, Since, ServiceNext, Shutdown
    PROVE  Serves
<1>1. /\ entry' = [s \in Servers |-> None]
      /\ reply' = [r \in Requests |-> NoReply]
      /\ pc' = [r \in Requests |-> IF r \in InFlight THEN "dropped" ELSE pc[r]]
      /\ UNCHANGED <<cached, version>>
  BY DEF Shutdown, inventoryVars
<1>2. since' = since
  BY <1>1, SinceUnchanged
<1>3. \A r \in Requests : pc'[r] \notin {"connect", "insert", "refetch"}
  BY <1>1 DEF InFlight, Stages, Guarded, Dialling, Using
<1>4. Since'
  BY <1>1, <1>2, <1>3 DEF Since
<1>5. Service!Close
  <2>1. Opened' = [s \in Servers |-> FALSE]
    BY <1>1 DEF Opened
  <2>2. Had' = Had
    BY <1>1, <1>2 DEF Had
  <2>. QED
    BY <1>1, <2>1, <2>2 DEF Service!Close
<1>. QED
  BY <1>4, <1>5 DEF Serves, Service!Next

LEMMA NextServes ==
    ASSUME TypeOK, Ownership, Freshness, Since, [ServiceNext]_serviceVars
    PROVE  Serves
<1>1. ASSUME ServiceNext, NEW r \in Requests, Receive(r) \/ Step(r) \/ Cancel(r)
      PROVE  Serves
  BY <1>1, PassingServes, ReadingServes, AskServes, ConnectOkServes, InsertServes,
     InstallServes DEF Step, GetOrConnect, EnsureFresh
<1>2. ASSUME ServiceNext, NEW r \in Requests, UpstreamLists(r) PROVE Serves
  BY <1>2, FirstListServes, RefetchAnswerServes DEF UpstreamLists
<1>3. CASE UNCHANGED serviceVars
  <2>1. UNCHANGED <<pc, entry, cached, reply, version, since>>
    BY <1>3 DEF serviceVars, vars, registryVars, inventoryVars, upstreamVars
  <2>2. Since'
    BY <2>1 DEF Since
  <2>. QED
    BY <2>1, <2>2, SameService DEF Serves
<1>. QED
  BY <1>1, <1>2, <1>3, ChangeServes, EventServes, ShutdownServes DEF ServiceNext, Next

LEMMA InitServes == ServiceInit => Since /\ Service!Init
<1> SUFFICES ASSUME ServiceInit
             PROVE  Since /\ Service!Init
  OBVIOUS
<1>1. Since
  BY DEF ServiceInit, Init, Since, Versions, NoReply
<1>2. Had = [s \in Servers |-> {}] /\ Opened = [s \in Servers |-> FALSE]
  BY DEF ServiceInit, Init, Had, Opened
<1>3. version \in [Servers -> Versions]
  BY DEF ServiceInit, Init, Versions
<1>. QED
  BY <1>1, <1>2, <1>3 DEF Service!Init

LEMMA SinceInvariant == ServiceSpec => [](TypeOK /\ Ownership /\ Freshness /\ Since)
<1>1. ServiceInit => Init
  BY DEF ServiceInit
<1>2. [ServiceNext]_serviceVars => [Next]_vars
  BY DEF ServiceNext, serviceVars
<1>3. ServiceSpec => Spec
  BY <1>1, <1>2, PTL DEF ServiceSpec, Spec
<1>4. TypeOK /\ Ownership /\ Freshness /\ Since /\ [ServiceNext]_serviceVars => Since'
  BY NextServes DEF Serves
<1>. QED
  BY <1>3, <1>4, FreshnessInvariant, InitServes, PTL DEF ServiceSpec

(* The registry opens a server only once it has been listed and lists it   *)
(* anew only while it is not open, however its requests interleave.        *)
THEOREM RegistryImplementsService == ServiceSpec => ImplementsService
<1>1. TypeOK /\ Ownership /\ Freshness /\ Since /\ [ServiceNext]_serviceVars
         => [Service!Next]_(Service!vars)
  BY NextServes DEF Serves, provided, Service!vars
<1>. QED
  BY <1>1, InitServes, SinceInvariant, PTL DEF ServiceSpec, ImplementsService, Service!Spec

(* A decision is taken by a request that uses the entry of its server.     *)
LEMMA ServedChanges ==
    ASSUME TypeOK, [Next]_vars, NEW r \in Requests, served'[r] # served[r]
    PROVE  pc[r] = "serve" /\ served'[r] = cached[conn[r]]
<1>1. \/ served' = served
      \/ \E q \in Requests : ServeInventory(q) \/ LookupTool(q)
  BY DEF vars, historyVars, Next, Step, GetOrConnect, EnsureFresh, Forward, Receive,
     LookupHit, LookupMiss, AcquireGuard, RecheckHit, ConnectRefused, StartConnect,
     ConnectOk, ConnectFails, InsertEntry, LoadClean, LoadDirty, SwapWins, SwapLoses,
     InstallFresh, RefetchFails, CallReturns, CallDisconnected, CallTimeout, Cancel,
     UpstreamLists, UpstreamChanges, ToolListChanged, UpstreamDies, Shutdown
<1>. QED
  BY <1>1 DEF ServeInventory, LookupTool, TypeOK

(* Every request is decided on an inventory its server has had since the   *)
(* connection in use was listed, overlapping and cancelled refetches       *)
(* included, for every number of requests, servers and changes.            *)
THEOREM ReadsArePromised == ServiceSpec => ReadsFromService
<1>1. ASSUME TypeOK, Ownership, Freshness, Since, [ServiceNext]_serviceVars
      PROVE  [\A r \in Requests : served'[r] # served[r] =>
                 Service!Read(Target[r], served'[r])]_serviceVars
  <2> SUFFICES ASSUME NEW r \in Requests, served'[r] # served[r]
               PROVE  Service!Read(Target[r], served'[r])
    OBVIOUS
  <2> DEFINE s == Target[r]
  <2>1. [Next]_vars
    BY <1>1 DEF ServiceNext, serviceVars
  <2>2. pc[r] = "serve" /\ served'[r] = cached[conn[r]]
    BY <1>1, <2>1, ServedChanges
  <2>3. s \in Servers /\ entry[s] # None /\ conn[r] = entry[s] /\ Target[entry[s]] = s
        /\ entry[s] \in Requests
    BY <1>1, <2>2 DEF Ownership, UsesEntry, EntryOfServer, Using, TypeOK
  <2>4. since[s] # NoReply /\ cached[entry[s]] >= since[s]
    BY <1>1, <2>3 DEF Since
  <2>5. cached[entry[s]] <= version[s] /\ cached[entry[s]] \in Int
        /\ since[s] \in Int /\ version[s] \in Int
    BY <1>1, <2>3 DEF Freshness, NotAhead, TypeOK, Since, Versions, NoReply
  <2>6. cached[entry[s]] \in since[s]..version[s]
    BY <2>4, <2>5
  <2>. QED
    BY <2>2, <2>3, <2>4, <2>6 DEF Service!Read, Opened, Had
<1>. QED
  BY <1>1, SinceInvariant, PTL DEF ServiceSpec, ReadsFromService
=============================================================================
