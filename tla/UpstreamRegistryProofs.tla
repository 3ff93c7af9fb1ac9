------------------------ MODULE UpstreamRegistryProofs ------------------------
(***************************************************************************)
(* Proofs about UpstreamRegistry, for every set of requests and servers:   *)
(* type correctness, then the inductive invariant behind "one upstream per *)
(* server, owned, shared by all its users, and never replaced".            *)
(***************************************************************************)
EXTENDS UpstreamRegistry, TLAPS

USE RequestsAssumption, TargetAssumption, InvokesAssumption, BoundsAssumption

-----------------------------------------------------------------------------
(* Type correctness *)

LEMMA InitType == Init => TypeOK
<1> SUFFICES ASSUME Init
             PROVE  TypeOK
  OBVIOUS
<1> USE DEF Init
<1>1. /\ closed \in BOOLEAN
      /\ pc \in [Requests -> Stages \cup Answers]
  BY DEF Stages
<1>2. /\ holder \in [Servers -> Requests \cup {None}]
      /\ entry \in [Servers -> Requests \cup {None}]
      /\ conn \in [Requests -> Requests \cup {None}]
      /\ live \in SUBSET Requests
  OBVIOUS
<1>3. /\ dirty \in [Requests -> BOOLEAN]
      /\ cached \in [Requests -> Versions \cup {NoReply}]
      /\ reply \in [Requests -> Versions \cup {NoReply}]
      /\ served \in [Requests -> Versions \cup {NoReply}]
  OBVIOUS
<1>4. /\ version \in [Servers -> Versions]
      /\ seen \in [Servers -> Versions]
      /\ floor \in [Requests -> Versions \cup {NoReply}]
      /\ lapsed \in SUBSET Requests
      /\ notes \in [Requests -> SUBSET Versions]
  BY DEF Versions
<1> QED
  BY <1>1, <1>2, <1>3, <1>4 DEF TypeOK

LEMMA StepType ==
    ASSUME TypeOK, UsesEntry, NEW r \in Requests,
           Receive(r) \/ Step(r) \/ Cancel(r) \/ UpstreamLists(r)
    PROVE  TypeOK'
<1> USE DEF TypeOK, Goto, registryVars, inventoryVars, upstreamVars,
            historyVars, Stages, Guarded, Dialling, Using, Answers, Versions
<1>1. CASE Receive(r)
  BY <1>1 DEF Receive
<1>2. CASE LookupHit(r) \/ LookupMiss(r)
  BY <1>2 DEF LookupHit, LookupMiss
<1>3. CASE AcquireGuard(r)
  BY <1>3 DEF AcquireGuard
<1>4. CASE RecheckHit(r)
  BY <1>4 DEF RecheckHit, ReleaseGuard
<1>5. CASE ConnectRefused(r)
  BY <1>5 DEF ConnectRefused, ReleaseGuard
<1>6. CASE StartConnect(r)
  BY <1>6 DEF StartConnect
<1>7. CASE ConnectOk(r)
  BY <1>7 DEF ConnectOk
<1>8. CASE ConnectFails(r)
  BY <1>8 DEF ConnectFails, ReleaseGuard, DropConnection
<1>9. CASE InsertEntry(r)
  BY <1>9 DEF InsertEntry, ReleaseGuard
<1>10. CASE EnsureFresh(r)
  <2>1. CASE LoadClean(r) \/ LoadDirty(r)
    BY <2>1 DEF LoadClean, GoAhead, LoadDirty
  <2>2. CASE SwapWins(r)
    <3>1. conn[r] \in Requests
      BY <2>2 DEF SwapWins, UsesEntry
    <3>2. lapsed' \in SUBSET Requests
      BY <2>2, <3>1 DEF SwapWins
    <3>3. /\ pc' \in [Requests -> Stages \cup Answers]
          /\ dirty' \in [Requests -> BOOLEAN]
      BY <2>2 DEF SwapWins
    <3>4. UNCHANGED <<closed, holder, entry, conn, live, cached, reply, version,
                      notes, seen, floor, served>>
      BY <2>2 DEF SwapWins
    <3>5. \A q \in Requests : pc'[q] = "insert" => pc[q] = "insert"
      BY <2>2 DEF SwapWins
    <3> QED
      BY <3>2, <3>3, <3>4, <3>5
  <2>3. CASE SwapLoses(r)
    BY <2>3 DEF SwapLoses, GoAhead
  <2>4. CASE InstallFresh(r)
    BY <2>4 DEF InstallFresh
  <2>5. CASE RefetchFails(r)
    BY <2>5 DEF RefetchFails
  <2> QED
    BY <1>10, <2>1, <2>2, <2>3, <2>4, <2>5 DEF EnsureFresh
<1>11. CASE Forward(r)
  <2>1. CASE ServeInventory(r) \/ LookupTool(r)
    <3>1. pc' \in [Requests -> Stages \cup Answers]
      BY <2>1 DEF ServeInventory, LookupTool
    <3>2. served' \in [Requests -> Versions \cup {NoReply}]
      BY <2>1 DEF ServeInventory, LookupTool, UsesEntry
    <3>3. UNCHANGED <<closed, holder, entry, conn, live, dirty, cached, reply,
                      version, notes, seen, floor, lapsed>>
      BY <2>1 DEF ServeInventory, LookupTool
    <3>4. \A q \in Requests : pc'[q] = "insert" => pc[q] = "insert"
      BY <2>1 DEF ServeInventory, LookupTool
    <3> QED
      BY <3>1, <3>2, <3>3, <3>4
  <2>2. CASE CallReturns(r) \/ CallDisconnected(r) \/ CallTimeout(r)
    BY <2>2 DEF CallReturns, CallDisconnected, CallTimeout
  <2> QED
    BY <1>11, <2>1, <2>2 DEF Forward
<1>12. CASE Cancel(r)
  <2>1. lapsed' \in SUBSET Requests
    BY <1>12 DEF Cancel, UsesEntry
  <2> QED
    BY <1>12, <2>1 DEF Cancel, ReleaseGuard, DropConnection
<1>13. CASE UpstreamLists(r)
  BY <1>13 DEF UpstreamLists
<1> QED
  BY <1>1, <1>2, <1>3, <1>4, <1>5, <1>6, <1>7, <1>8, <1>9, <1>10, <1>11,
     <1>12, <1>13 DEF Step, GetOrConnect

LEMMA EnvironmentType ==
    ASSUME TypeOK,
           \/ \E s \in Servers : UpstreamChanges(s)
           \/ \E c \in Requests : ToolListChanged(c) \/ UpstreamDies(c)
           \/ Shutdown
    PROVE  TypeOK'
<1> USE DEF TypeOK, registryVars, inventoryVars, upstreamVars, historyVars,
            Versions
<1>1. ASSUME NEW s \in Servers, UpstreamChanges(s)
      PROVE  TypeOK'
  BY <1>1 DEF UpstreamChanges
<1>2. ASSUME NEW c \in Requests, ToolListChanged(c)
      PROVE  TypeOK'
  BY <1>2 DEF ToolListChanged
<1>3. ASSUME NEW c \in Requests, UpstreamDies(c)
      PROVE  TypeOK'
  BY <1>3 DEF UpstreamDies
<1>4. CASE Shutdown
  BY <1>4 DEF Shutdown, Answers
<1> QED
  BY <1>1, <1>2, <1>3, <1>4

-----------------------------------------------------------------------------
(* Ownership *)

LEMMA InitOwnership == Init => Ownership
  BY DEF Init, Ownership, GuardOwned, DialsOwn, UsesEntry, EntryOfServer,
            NoOrphan, Guarded,
         Dialling, Using

(* A request's own step, action by action. *)
LEMMA StepOwnership ==
    ASSUME TypeOK, Ownership, NEW r \in Requests,
           Receive(r) \/ Step(r) \/ Cancel(r) \/ UpstreamLists(r)
    PROVE  Ownership'
<1> USE DEF TypeOK, Ownership, GuardOwned, DialsOwn, UsesEntry, EntryOfServer,
            NoOrphan,
            Goto, registryVars, Guarded, Dialling, Using
<1>1. CASE Receive(r)
  BY <1>1 DEF Receive
<1>2. CASE LookupHit(r) \/ LookupMiss(r)
  BY <1>2 DEF LookupHit, LookupMiss
<1>3. CASE AcquireGuard(r)
  BY <1>3 DEF AcquireGuard
<1>4. CASE RecheckHit(r)
  BY <1>4 DEF RecheckHit, ReleaseGuard
<1>5. CASE ConnectRefused(r)
  BY <1>5 DEF ConnectRefused, ReleaseGuard
<1>6. CASE StartConnect(r)
  BY <1>6 DEF StartConnect
<1>7. CASE ConnectOk(r)
  BY <1>7 DEF ConnectOk
<1>8. CASE ConnectFails(r)
  BY <1>8 DEF ConnectFails, ReleaseGuard, DropConnection
<1>9. CASE InsertEntry(r)
  BY <1>9 DEF InsertEntry, ReleaseGuard
<1>10. CASE EnsureFresh(r)
  <2>1. CASE LoadClean(r) \/ LoadDirty(r)
    BY <2>1 DEF LoadClean, GoAhead, LoadDirty
  <2>2. CASE SwapWins(r) \/ SwapLoses(r)
    BY <2>2 DEF SwapWins, SwapLoses, GoAhead
  <2>3. CASE InstallFresh(r) \/ RefetchFails(r)
    BY <2>3 DEF InstallFresh, RefetchFails
  <2> QED
    BY <1>10, <2>1, <2>2, <2>3 DEF EnsureFresh
<1>11. CASE Forward(r)
  BY <1>11 DEF Forward, ServeInventory, LookupTool, CallReturns,
               CallDisconnected, CallTimeout
<1>12. CASE Cancel(r)
  BY <1>12 DEF Cancel, ReleaseGuard, DropConnection
<1>13. CASE UpstreamLists(r)
  BY <1>13 DEF UpstreamLists
<1> QED
  BY <1>1, <1>2, <1>3, <1>4, <1>5, <1>6, <1>7, <1>8, <1>9, <1>10, <1>11,
     <1>12, <1>13 DEF Step, GetOrConnect

LEMMA EnvironmentOwnership ==
    ASSUME TypeOK, Ownership,
           \/ \E s \in Servers : UpstreamChanges(s)
           \/ \E c \in Requests : ToolListChanged(c) \/ UpstreamDies(c)
           \/ Shutdown
    PROVE  Ownership'
<1> USE DEF TypeOK, Ownership, GuardOwned, DialsOwn, UsesEntry, EntryOfServer,
            NoOrphan,
            registryVars, Guarded, Dialling, Using
<1>1. ASSUME NEW s \in Servers, UpstreamChanges(s)
      PROVE  Ownership'
  BY <1>1 DEF UpstreamChanges
<1>2. ASSUME NEW c \in Requests, ToolListChanged(c)
      PROVE  Ownership'
  BY <1>2 DEF ToolListChanged
<1>3. ASSUME NEW c \in Requests, UpstreamDies(c)
      PROVE  Ownership'
  BY <1>3 DEF UpstreamDies
<1>4. CASE Shutdown
  BY <1>4 DEF Shutdown, InFlight, Stages, Answers
<1> QED
  BY <1>1, <1>2, <1>3, <1>4

LEMMA NextOwnership ==
    TypeOK /\ Ownership /\ [Next]_vars => TypeOK' /\ Ownership'
<1> SUFFICES ASSUME TypeOK, Ownership, [Next]_vars
             PROVE  TypeOK' /\ Ownership'
  OBVIOUS
<1>1. CASE UNCHANGED vars
  <2>1. TypeOK'
    BY <1>1 DEF vars, TypeOK
  <2>2. Ownership'
    BY <1>1 DEF vars, Ownership, GuardOwned, DialsOwn, UsesEntry, EntryOfServer,
            NoOrphan
  <2> QED
    BY <2>1, <2>2
<1>2. CASE Next
  <2>1. UsesEntry
    BY DEF Ownership
  <2>2. TypeOK'
    BY <1>2, <2>1, StepType, EnvironmentType DEF Next
  <2>3. Ownership'
    BY <1>2, StepOwnership, EnvironmentOwnership DEF Next
  <2> QED
    BY <2>2, <2>3
<1> QED
  BY <1>1, <1>2

LEMMA OwnershipInvariant == Spec => [](TypeOK /\ Ownership)
  BY InitType, InitOwnership, NextOwnership, PTL DEF Spec

-----------------------------------------------------------------------------
(* What a step may change *)

(* A cached list is written by the request that opens its connection, or   *)
(* by one that refetches.                                                  *)
LEMMA CachedChanges ==
    ASSUME [Next]_vars
    PROVE  \/ cached' = cached
           \/ \E r \in Requests : ConnectOk(r) \/ InstallFresh(r)
  BY DEF vars, Next, Step, GetOrConnect, EnsureFresh, Forward, Receive, LookupHit,
     LookupMiss, AcquireGuard, RecheckHit, ConnectRefused, StartConnect, ConnectFails,
     InsertEntry, LoadClean, LoadDirty, SwapWins, SwapLoses, RefetchFails, ServeInventory,
     LookupTool, CallReturns, CallDisconnected, CallTimeout, Cancel, UpstreamLists,
     UpstreamChanges, ToolListChanged, UpstreamDies, Shutdown, inventoryVars

(* The registry map is written by an insert and at the end of the session. *)
LEMMA EntryChanges ==
    ASSUME [Next]_vars
    PROVE  \/ entry' = entry
           \/ \E r \in Requests : InsertEntry(r)
           \/ Shutdown
  BY DEF vars, Next, Step, GetOrConnect, EnsureFresh, Forward, Receive, LookupHit,
     LookupMiss, AcquireGuard, RecheckHit, ConnectRefused, StartConnect, ConnectFails,
     ConnectOk, LoadClean, LoadDirty, SwapWins, SwapLoses, InstallFresh, RefetchFails,
     ServeInventory, LookupTool, CallReturns, CallDisconnected, CallTimeout, Cancel,
     UpstreamLists, UpstreamChanges, ToolListChanged, UpstreamDies, registryVars

(* A request that has not been listed anything over a connection of its    *)
(* own, and one that may have.                                             *)
Early == {"idle", "lookup", "guard", "recheck", "connect"}

LEMMA EarlyBefore ==
    ASSUME TypeOK, [Next]_vars, NEW r \in Requests, pc'[r] \in Early
    PROVE  pc[r] \in Early
<1> USE DEF TypeOK, Goto, Early
<1>1. ASSUME NEW q \in Requests, Receive(q) \/ GetOrConnect(q) PROVE pc[r] \in Early
  BY <1>1 DEF Receive, GetOrConnect, LookupHit, LookupMiss, AcquireGuard, RecheckHit,
     ConnectRefused, StartConnect, ConnectOk, ConnectFails, InsertEntry
<1>2. ASSUME NEW q \in Requests, EnsureFresh(q) \/ Cancel(q) PROVE pc[r] \in Early
  BY <1>2 DEF EnsureFresh, LoadClean, LoadDirty, SwapWins, SwapLoses, GoAhead, InstallFresh,
     RefetchFails, Cancel
<1>3. ASSUME NEW q \in Requests, Forward(q) PROVE pc[r] \in Early
  BY <1>3 DEF Forward, ServeInventory, LookupTool, CallReturns, CallDisconnected, CallTimeout
<1>4. CASE UNCHANGED pc
  BY <1>4
<1>5. CASE Shutdown
  BY <1>5 DEF Shutdown
<1>. QED
  BY <1>1, <1>2, <1>3, <1>4, <1>5 DEF vars, Next, Step, UpstreamLists, UpstreamChanges,
     ToolListChanged, UpstreamDies

(* A connection has no list, and no place in the map, before its opener    *)
(* has been answered.                                                      *)
Unlisted ==
    \A r \in Requests :
        pc[r] \in Early => cached[r] = NoReply /\ entry[Target[r]] # r

LEMMA NextUnlisted ==
    TypeOK /\ Ownership /\ Unlisted /\ [Next]_vars => Unlisted'
<1> SUFFICES ASSUME TypeOK, Ownership, Unlisted, [Next]_vars,
                    NEW r \in Requests, pc'[r] \in Early
             PROVE  cached'[r] = NoReply /\ entry'[Target[r]] # r
  BY DEF Unlisted
<1>1. pc[r] \in Early /\ cached[r] = NoReply /\ entry[Target[r]] # r
  BY EarlyBefore DEF Unlisted
<1>2. cached'[r] = NoReply
  <2>1. ASSUME NEW q \in Requests, ConnectOk(q) PROVE cached'[r] = NoReply
    <3>1. q # r
      BY <2>1 DEF ConnectOk, Goto, TypeOK, Early
    <3>. QED
      BY <1>1, <2>1, <3>1 DEF ConnectOk, TypeOK
  <2>2. ASSUME NEW q \in Requests, InstallFresh(q) PROVE cached'[r] = NoReply
    <3>1. conn[q] = entry[Target[q]] /\ Target[conn[q]] = Target[q]
      BY <2>2 DEF InstallFresh, Ownership, UsesEntry, EntryOfServer, Using, TypeOK
    <3>2. conn[q] # r
      BY <1>1, <3>1
    <3>. QED
      BY <1>1, <2>2, <3>2 DEF InstallFresh, TypeOK
  <2>. QED
    BY <1>1, <2>1, <2>2, CachedChanges
<1>3. entry'[Target[r]] # r
  <2>1. ASSUME NEW q \in Requests, InsertEntry(q) PROVE entry'[Target[r]] # r
    <3>1. q # r
      BY <2>1 DEF InsertEntry, Goto, TypeOK, Early
    <3>. QED
      BY <1>1, <2>1, <3>1 DEF InsertEntry, TypeOK
  <2>2. CASE Shutdown
    BY <2>2 DEF Shutdown
  <2>. QED
    BY <1>1, <2>1, <2>2, EntryChanges
<1>. QED
  BY <1>2, <1>3

LEMMA UnlistedInvariant == Spec => []Unlisted
<1>1. Init => Unlisted
  BY DEF Init, Unlisted
<1>. QED
  BY <1>1, NextUnlisted, OwnershipInvariant, PTL DEF Spec

-----------------------------------------------------------------------------
(* Freshness *)

(* Why StaleForCause, NoStaleRead and CacheMovesForward hold, as an        *)
(* inductive invariant.  An inventory v of c is current if, while the flag *)
(* is clear, it includes every change notified so far and the notification *)
(* of the latest one is still to come.                                     *)
Current(c, v) ==
    ~dirty[c] =>
        /\ v >= seen[Target[c]]
        /\ (c \in live /\ v < version[Target[c]]) => version[Target[c]] \in notes[c]

(* Nobody is ahead of the upstream, and no request of what was handled. *)
NotAhead ==
    /\ \A s \in Servers : seen[s] <= version[s]
    /\ \A r \in Requests : /\ cached[r] <= version[Target[r]]
                           /\ reply[r] <= version[Target[r]]
                           /\ floor[r] <= seen[Target[r]]
                           /\ \A v \in notes[r] : v <= version[Target[r]]

(* Answers and notifications only exist where somebody waits for them, and *)
(* a decision where one was taken.                                         *)
Expected ==
    \A r \in Requests :
        /\ reply[r] # NoReply => pc[r] \in {"connect", "refetch"}
        /\ served[r] # NoReply => pc[r] \in {"calling"} \cup Answers
        /\ notes[r] # {} => pc[r] \in Dialling \/ entry[Target[r]] = r

OpeningCurrent ==
    \A c \in Requests :
        /\ pc[c] = "connect" /\ reply[c] # NoReply => Current(c, reply[c])
        /\ pc[c] = "insert" => Current(c, cached[c])

EntryCurrent ==
    \A s \in Servers :
        entry[s] # None /\ entry[s] \notin lapsed /\ ~Refetching(entry[s]) =>
            Current(entry[s], cached[entry[s]])

OneRefetch ==
    \A q, r \in Requests :
        /\ pc[q] = "refetch" /\ pc[r] = "refetch"
        /\ conn[q] = conn[r] /\ conn[r] \notin lapsed
        => q = r

RefetchCurrent ==
    \A r \in Requests :
        pc[r] = "refetch" /\ reply[r] # NoReply =>
            /\ reply[r] >= floor[r]
            /\ conn[r] \notin lapsed => /\ reply[r] >= cached[conn[r]]
                                        /\ Current(conn[r], reply[r])

ServesCurrent ==
    \A r \in Requests :
        pc[r] = "serve" /\ conn[r] \notin lapsed => cached[conn[r]] >= floor[r]

Freshness ==
    /\ NotAhead /\ Expected /\ OpeningCurrent /\ EntryCurrent /\ OneRefetch
    /\ RefetchCurrent /\ ServesCurrent /\ NoStaleRead

LEMMA InitFreshness == Init => Freshness
<1> SUFFICES ASSUME Init
             PROVE  Freshness
  OBVIOUS
<1>1. NotAhead /\ NoStaleRead
  BY DEF Init, NotAhead, NoStaleRead, NoReply
<1>2. /\ Expected /\ OpeningCurrent /\ EntryCurrent /\ OneRefetch
      /\ RefetchCurrent /\ ServesCurrent
  BY DEF Init, Expected, OpeningCurrent, EntryCurrent, OneRefetch,
         RefetchCurrent, ServesCurrent
<1> QED
  BY <1>1, <1>2 DEF Freshness

(* Stages at which a request's inventory is in the making or in use. *)
Reading == {"connect", "insert", "refetch", "serve"}

(* A request goes between two other stages, perhaps to take up a connection. *)
LEMMA QuietStep ==
    ASSUME TypeOK, Freshness, NEW r \in Requests, NEW stage, Goto(r, stage),
           pc[r] \notin Reading, stage \notin Reading,
           pc[r] \in Stages, pc[r] = "calling" => stage \in {"calling"} \cup Answers,
           UNCHANGED <<entry, live, dirty, cached, reply, version, notes, seen,
                       floor, served, lapsed>>,
           \/ conn' = conn
           \/ pc[r] # "calling" /\ \E c : conn' = [conn EXCEPT ![r] = c]
    PROVE  Freshness'
<1> USE DEF TypeOK, Freshness, Goto, Reading
<1>1. \A q \in Requests : pc'[q] \in Reading \/ pc[q] \in Reading =>
          q # r /\ pc'[q] = pc[q] /\ conn'[q] = conn[q]
  OBVIOUS
<1>2. NotAhead'
  BY DEF NotAhead
<1>3. Expected'
  BY <1>1 DEF Expected, Dialling, Stages, Answers, Guarded, Using
<1>4. OpeningCurrent'
  BY <1>1 DEF OpeningCurrent, Current
<1>5. \A c : Refetching(c)' <=> Refetching(c)
  BY <1>1 DEF Refetching
<1>6. EntryCurrent'
  BY <1>5 DEF EntryCurrent, Current
<1>7. OneRefetch' /\ RefetchCurrent' /\ ServesCurrent'
  BY <1>1 DEF OneRefetch, RefetchCurrent, ServesCurrent, Current
<1>8. NoStaleRead'
  BY DEF NoStaleRead, Expected, Stages, Guarded, Dialling, Using, Answers
<1> QED
  BY <1>2, <1>3, <1>4, <1>6, <1>7, <1>8

(* The tracked state of everybody but r is untouched, and r reads nothing. *)
LEMMA ArrivalFreshness ==
    ASSUME TypeOK, Freshness, NEW r \in Requests, Receive(r)
    PROVE  Freshness'
<1> USE DEF TypeOK, Freshness, Receive, Goto, registryVars, inventoryVars,
            upstreamVars
<1>1. \A q \in Requests : pc'[q] \in Reading \/ pc[q] \in Reading =>
          q # r /\ pc'[q] = pc[q] /\ floor'[q] = floor[q]
  BY DEF Reading
<1>2. NotAhead'
  BY DEF NotAhead, Versions
<1>3. Expected'
  BY DEF Expected, Dialling, Answers
<1>4. OpeningCurrent'
  BY <1>1 DEF OpeningCurrent, Current, Reading
<1>5. \A c : Refetching(c)' <=> Refetching(c)
  BY <1>1 DEF Refetching, Reading
<1>6. EntryCurrent'
  BY <1>5 DEF EntryCurrent, Current
<1>7. OneRefetch' /\ RefetchCurrent' /\ ServesCurrent'
  BY <1>1 DEF OneRefetch, RefetchCurrent, ServesCurrent, Current, Reading
<1>8. NoStaleRead'
  BY DEF NoStaleRead, Expected, Answers
<1> QED
  BY <1>2, <1>3, <1>4, <1>6, <1>7, <1>8

LEMMA StartConnectFreshness ==
    ASSUME TypeOK, Ownership, Freshness, NEW r \in Requests, StartConnect(r)
    PROVE  Freshness'
<1> USE DEF TypeOK, Freshness, StartConnect, Goto, registryVars, upstreamVars,
            historyVars
(* r has no notification, no answer, and is nobody's connection. *)
<1>1. reply[r] = NoReply /\ served[r] = NoReply
  BY DEF Expected, Answers
<1>2. /\ \A s \in Servers : entry[s] # r
      /\ \A q \in Requests : pc[q] \in Using => conn[q] # r
  BY DEF Ownership, UsesEntry, EntryOfServer
<1>3. NotAhead'
  BY DEF NotAhead
<1>4. Expected'
  BY DEF Expected, Dialling, Answers
<1>5. OpeningCurrent'
  BY <1>1 DEF OpeningCurrent, Current
<1>6. \A c : c # r => (Refetching(c)' <=> Refetching(c))
  BY DEF Refetching
<1>7. EntryCurrent'
  BY <1>2, <1>6 DEF EntryCurrent, Current
<1>8. OneRefetch' /\ RefetchCurrent' /\ ServesCurrent'
  BY <1>2 DEF OneRefetch, RefetchCurrent, ServesCurrent, Current, Using
<1>9. NoStaleRead'
  BY <1>1 DEF NoStaleRead
<1> QED
  BY <1>3, <1>4, <1>5, <1>7, <1>8, <1>9

LEMMA ConnectFreshness ==
    ASSUME TypeOK, Ownership, Freshness, NEW r \in Requests,
           ConnectOk(r) \/ ConnectFails(r) \/ InsertEntry(r)
    PROVE  Freshness'
<1> USE DEF TypeOK, Freshness, Goto, registryVars, inventoryVars, upstreamVars,
            historyVars
<1>0. /\ pc[r] \in Dialling /\ served[r] = NoReply /\ entry[Target[r]] = None
      /\ \A s \in Servers : entry[s] # r
      /\ \A q \in Requests : pc[q] \in Using => conn[q] # r
  BY DEF Ownership, DialsOwn, UsesEntry, EntryOfServer, Expected, Dialling,
         Answers, ConnectOk, ConnectFails, InsertEntry
<1>1. CASE ConnectOk(r)
  <2> USE <1>1 DEF ConnectOk
  <2>1. NotAhead' /\ Expected'
    BY DEF NotAhead, Expected, Dialling, Answers, NoReply, Versions
  <2>2. OpeningCurrent'
    BY DEF OpeningCurrent, Current
  <2>3. \A c : c # r => (Refetching(c)' <=> Refetching(c))
    BY DEF Refetching
  <2>4. EntryCurrent'
    BY <1>0, <2>3 DEF EntryCurrent, Current
  <2>5. OneRefetch' /\ RefetchCurrent' /\ ServesCurrent' /\ NoStaleRead'
    BY <1>0 DEF OneRefetch, RefetchCurrent, ServesCurrent, NoStaleRead, Current,
                Using
  <2> QED
    BY <2>1, <2>2, <2>4, <2>5
<1>2. CASE ConnectFails(r)
  <2> USE <1>2 DEF ConnectFails, DropConnection
  <2>1. NotAhead'
    BY DEF NotAhead, NoReply, Versions
  <2>2. Expected'
    BY <1>0 DEF Expected, Answers
  <2>3. OpeningCurrent'
    BY DEF OpeningCurrent, Current
  <2>4. \A c : Refetching(c)' <=> Refetching(c)
    BY DEF Refetching
  <2>5. EntryCurrent'
    BY <1>0, <2>4 DEF EntryCurrent, Current
  <2>6. OneRefetch' /\ RefetchCurrent' /\ ServesCurrent' /\ NoStaleRead'
    BY <1>0 DEF OneRefetch, RefetchCurrent, ServesCurrent, NoStaleRead, Current,
                Using
  <2> QED
    BY <2>1, <2>2, <2>3, <2>5, <2>6
<1>3. CASE InsertEntry(r)
  <2> USE <1>3 DEF InsertEntry
  <2>1. NotAhead' /\ Expected'
    BY <1>0 DEF NotAhead, Expected, Dialling, Answers
  <2>2. OpeningCurrent'
    BY DEF OpeningCurrent, Current
  <2>3. \A c : Refetching(c)' <=> Refetching(c)
    BY DEF Refetching
  <2>4. EntryCurrent'
    BY <2>3 DEF EntryCurrent, OpeningCurrent, Current
  <2>5. OneRefetch' /\ RefetchCurrent' /\ ServesCurrent' /\ NoStaleRead'
    BY <1>0 DEF OneRefetch, RefetchCurrent, ServesCurrent, NoStaleRead, Current,
                Using
  <2> QED
    BY <2>1, <2>2, <2>4, <2>5
<1> QED
  BY <1>1, <1>2, <1>3

LEMMA GoAheadFreshness ==
    ASSUME TypeOK, Ownership, Freshness, NEW r \in Requests,
           LoadClean(r) \/ SwapLoses(r)
    PROVE  Freshness'
<1> USE DEF TypeOK, Freshness
<1>1. /\ pc[r] \in {"fresh", "swap"} /\ ~dirty[conn[r]]
      /\ pc' = [pc EXCEPT ![r] = "serve"]
      /\ floor' = [floor EXCEPT ![r] = IF Refetching(conn[r]) THEN NoReply ELSE @]
      /\ UNCHANGED <<entry, conn, live, dirty, cached, reply, version, notes,
                     seen, served, lapsed>>
  BY DEF LoadClean, SwapLoses, GoAhead, Goto, registryVars, inventoryVars,
         upstreamVars
<1>2. /\ conn[r] = entry[Target[r]] /\ conn[r] \in Requests
      /\ Target[conn[r]] = Target[r] /\ served[r] = NoReply
  BY <1>1 DEF Ownership, UsesEntry, EntryOfServer, Using, Expected, Answers
<1>3. NotAhead'
  BY <1>1 DEF NotAhead, NoReply, Versions
<1>4. Expected' /\ OpeningCurrent' /\ OneRefetch'
  BY <1>1 DEF Expected, OpeningCurrent, OneRefetch, Current, Dialling, Answers
<1>5. \A c : Refetching(c)' <=> Refetching(c)
  BY <1>1 DEF Refetching
<1>6. EntryCurrent'
  BY <1>1, <1>5 DEF EntryCurrent, Current
<1>7. RefetchCurrent'
  BY <1>1 DEF RefetchCurrent, Current
<1>8. ServesCurrent'
  (* r itself: either nothing is promised, or the entry is current. *)
  <2>1. conn[r] \notin lapsed /\ ~Refetching(conn[r]) => cached[conn[r]] >= seen[Target[r]]
    BY <1>1, <1>2 DEF EntryCurrent, Current
  <2>2. seen[Target[r]] >= floor[r] /\ cached[conn[r]] >= NoReply
    BY <1>2 DEF NotAhead, NoReply, Versions
  <2>3. conn[r] \notin lapsed => cached[conn[r]] >= floor'[r]
    <3>1. CASE Refetching(conn[r])
      <4>1. floor'[r] = NoReply
        BY <1>1, <3>1, Zenon
      <4> QED
        BY <2>2, <4>1
    <3>2. CASE ~Refetching(conn[r])
      <4>1. floor'[r] = floor[r]
        BY <1>1, <3>2, Zenon
      <4>2. /\ cached[conn[r]] \in Int /\ floor[r] \in Int
            /\ seen[Target[r]] \in Int
        BY <1>2 DEF NoReply, Versions
      <4> QED
        BY <2>1, <2>2, <3>2, <4>1, <4>2
    <3> QED
      BY <3>1, <3>2
  <2> QED
    BY <1>1, <2>3 DEF ServesCurrent
<1>9. NoStaleRead'
  BY <1>1, <1>2 DEF NoStaleRead
<1> QED
  BY <1>3, <1>4, <1>6, <1>7, <1>8, <1>9

LEMMA SwapWinsFreshness ==
    ASSUME TypeOK, Ownership, Freshness, NEW r \in Requests, SwapWins(r)
    PROVE  Freshness'
<1> USE DEF TypeOK, Freshness, SwapWins, Goto, registryVars, upstreamVars
<1>1. /\ conn[r] = entry[Target[r]] /\ conn[r] \in Requests
      /\ served[r] = NoReply /\ reply[r] = NoReply
      /\ \A c \in Requests : pc[c] \in Dialling => c # conn[r]
  BY DEF Ownership, UsesEntry, DialsOwn, EntryOfServer, Using, Expected, Answers
<1>2. NotAhead' /\ Expected'
  BY <1>1 DEF NotAhead, Expected, Dialling, Answers
<1>3. OpeningCurrent'
  BY <1>1 DEF OpeningCurrent, Current, Dialling
<1>4. Refetching(conn[r])' /\ \A c : Refetching(c) => Refetching(c)'
  BY DEF Refetching
<1>5. \A c : c # conn[r] => /\ Refetching(c)' <=> Refetching(c)
                            /\ c \in lapsed' <=> c \in lapsed
  BY DEF Refetching
<1>6. EntryCurrent'
  BY <1>1, <1>4, <1>5 DEF EntryCurrent, Current
<1>7. OneRefetch'
  <2> SUFFICES ASSUME NEW p \in Requests, NEW q \in Requests,
                      pc'[p] = "refetch", pc'[q] = "refetch", conn[p] = conn[q],
                      conn[q] \notin lapsed'
               PROVE  p = q
    BY DEF OneRefetch
  <2>1. p = r => q = r
    BY DEF Refetching
  <2>2. q = r => p = r
    BY DEF Refetching
  <2>3. lapsed \subseteq lapsed'
    OBVIOUS
  <2>4. p # r /\ q # r => p = q
    BY <2>3 DEF OneRefetch
  <2> QED
    BY <2>1, <2>2, <2>4
<1>8. RefetchCurrent'
  (* Another refetch of this connection makes it lapse. *)
  <2> SUFFICES ASSUME NEW q \in Requests, pc'[q] = "refetch", reply[q] # NoReply
               PROVE  /\ reply[q] >= floor[q]
                      /\ conn[q] \notin lapsed' =>
                            reply[q] >= cached[conn[q]] /\ Current(conn[q], reply[q])'
    BY DEF RefetchCurrent
  <2>1. q # r /\ pc[q] = "refetch"
    BY <1>1
  <2>2. conn[q] \notin lapsed' => conn[q] # conn[r] /\ conn[q] \notin lapsed
    BY <2>1 DEF Refetching
  <2>3. conn[q] \in Requests
    BY <2>1 DEF Ownership, UsesEntry, Using
  <2> QED
    BY <1>1, <2>1, <2>2, <2>3 DEF RefetchCurrent, Current
<1>9. ServesCurrent' /\ NoStaleRead'
  BY <1>1 DEF ServesCurrent, NoStaleRead
<1> QED
  BY <1>2, <1>3, <1>6, <1>7, <1>8, <1>9

LEMMA InstallFreshness ==
    ASSUME TypeOK, Ownership, Freshness, NEW r \in Requests, InstallFresh(r)
    PROVE  Freshness'
<1> USE DEF TypeOK, Freshness, InstallFresh, Goto, registryVars, upstreamVars,
            historyVars
<1>1. /\ conn[r] = entry[Target[r]] /\ conn[r] \in Requests
      /\ Target[conn[r]] = Target[r] /\ served[r] = NoReply
      /\ \A c \in Requests : pc[c] \in Dialling => c # conn[r]
      /\ \A q \in Requests : pc[q] \in Using => conn[q] \in Requests
  BY DEF Ownership, UsesEntry, DialsOwn, EntryOfServer, Using, Expected, Answers
<1>2. NotAhead'
  BY <1>1 DEF NotAhead, NoReply, Versions
<1>3. Expected'
  BY <1>1 DEF Expected, Dialling, Answers
<1>4. OpeningCurrent'
  BY <1>1 DEF OpeningCurrent, Current, Dialling
<1>5. \A c : c # conn[r] => (Refetching(c)' <=> Refetching(c))
  BY DEF Refetching
<1>6. EntryCurrent'
  <2> SUFFICES ASSUME NEW s \in Servers, entry[s] # None,
                      entry[s] \notin lapsed, ~Refetching(entry[s])'
               PROVE  Current(entry[s], cached[entry[s]])'
    BY DEF EntryCurrent
  <2>1. CASE entry[s] = conn[r]
    BY <1>1, <2>1 DEF RefetchCurrent, Current
  <2>2. CASE entry[s] # conn[r]
    BY <1>5, <2>2 DEF EntryCurrent, Current
  <2> QED
    BY <2>1, <2>2
<1>7. OneRefetch'
  BY DEF OneRefetch
<1>8. RefetchCurrent'
  BY <1>1 DEF RefetchCurrent, OneRefetch, Current, Using
<1>9. ServesCurrent'
  <2> SUFFICES ASSUME NEW q \in Requests, pc'[q] = "serve", conn[q] \notin lapsed
               PROVE  cached'[conn[q]] >= floor[q]
    BY DEF ServesCurrent
  <2>1. CASE q = r
    BY <1>1, <2>1 DEF RefetchCurrent
  <2>2. CASE q # r /\ conn[q] # conn[r]
    BY <2>2 DEF ServesCurrent
  <2>3. CASE q # r /\ conn[q] = conn[r]
    BY <1>1, <2>3 DEF ServesCurrent, RefetchCurrent, Versions, NoReply
  <2> QED
    BY <2>1, <2>2, <2>3
<1>10. NoStaleRead'
  BY DEF NoStaleRead
<1> QED
  BY <1>2, <1>3, <1>4, <1>6, <1>7, <1>8, <1>9, <1>10

LEMMA RefetchFailsFreshness ==
    ASSUME TypeOK, Ownership, Freshness, NEW r \in Requests, RefetchFails(r)
    PROVE  Freshness'
<1> USE DEF TypeOK, Freshness
<1>1. PICK code \in Answers :
          /\ pc[r] = "refetch" /\ pc' = [pc EXCEPT ![r] = code]
          /\ dirty' = [dirty EXCEPT ![conn[r]] = TRUE]
          /\ reply' = [reply EXCEPT ![r] = NoReply]
          /\ UNCHANGED <<entry, conn, live, cached, version, notes, seen, floor,
                         served, lapsed>>
  BY DEF RefetchFails, Goto, Answers, registryVars, upstreamVars, historyVars
<1>2. code \notin {"connect", "insert", "refetch", "serve"}
  BY DEF Answers
<1>3. conn[r] \in Requests
  BY <1>1 DEF Ownership, UsesEntry, Using
<1>4. NotAhead'
  BY <1>1 DEF NotAhead, NoReply, Versions
<1>5. Expected'
  BY <1>1, <1>2 DEF Expected, Dialling
<1>6. OpeningCurrent'
  BY <1>1, <1>2, <1>3 DEF OpeningCurrent, Current
<1>7. \A c : c # conn[r] => (Refetching(c)' <=> Refetching(c))
  BY <1>1, <1>2 DEF Refetching
<1>8. EntryCurrent'
  BY <1>1, <1>3, <1>7 DEF EntryCurrent, Current
<1>9. OneRefetch' /\ RefetchCurrent'
  BY <1>1, <1>2, <1>3 DEF OneRefetch, RefetchCurrent, Current
<1>10. ServesCurrent' /\ NoStaleRead'
  BY <1>1, <1>2 DEF ServesCurrent, NoStaleRead
<1> QED
  BY <1>4, <1>5, <1>6, <1>8, <1>9, <1>10

(* The decision is taken on what the request found when it got there. *)
LEMMA DecideFreshness ==
    ASSUME TypeOK, Ownership, Freshness, NEW r \in Requests,
           ServeInventory(r) \/ LookupTool(r)
    PROVE  Freshness'
<1> USE DEF TypeOK, Freshness
<1>1. PICK stage \in {"calling"} \cup Answers :
          /\ pc[r] = "serve" /\ pc' = [pc EXCEPT ![r] = stage]
          /\ served' = [served EXCEPT ![r] = cached[conn[r]]]
          /\ UNCHANGED <<entry, conn, live, dirty, cached, reply, version, notes,
                         seen, floor, lapsed>>
  BY DEF ServeInventory, LookupTool, Goto, Answers, registryVars, inventoryVars,
         upstreamVars
<1>2. stage \notin Reading
  BY DEF Reading, Answers
<1>3. NotAhead' /\ Expected'
  BY <1>1 DEF NotAhead, Expected, Dialling
<1>4. OpeningCurrent'
  BY <1>1, <1>2 DEF OpeningCurrent, Current, Reading
<1>5. \A c : Refetching(c)' <=> Refetching(c)
  BY <1>1, <1>2 DEF Refetching, Reading
<1>6. EntryCurrent'
  BY <1>1, <1>5 DEF EntryCurrent, Current
<1>7. OneRefetch' /\ RefetchCurrent' /\ ServesCurrent'
  BY <1>1, <1>2 DEF OneRefetch, RefetchCurrent, ServesCurrent, Current, Reading
<1>8. NoStaleRead'
  BY <1>1 DEF NoStaleRead, ServesCurrent
<1> QED
  BY <1>3, <1>4, <1>6, <1>7, <1>8

LEMMA CancelFreshness ==
    ASSUME TypeOK, Ownership, Freshness, NEW r \in Requests, Cancel(r)
    PROVE  Freshness'
<1> USE DEF TypeOK, Freshness
<1>1. /\ pc[r] \in Awaits /\ pc' = [pc EXCEPT ![r] = "call_cancelled"]
      /\ reply' = [reply EXCEPT ![r] = NoReply]
      /\ lapsed' = IF pc[r] = "refetch" THEN lapsed \cup {conn[r]} ELSE lapsed
      /\ IF pc[r] \in Dialling THEN /\ live' = live \ {r}
                                    /\ notes' = [notes EXCEPT ![r] = {}]
                               ELSE UNCHANGED <<live, notes>>
      /\ UNCHANGED <<entry, conn, dirty, cached, version, seen, floor, served>>
  BY DEF Cancel, Goto, DropConnection, inventoryVars
<1>2. /\ notes' \in [Requests -> SUBSET Versions]
      /\ \A q \in Requests : notes'[q] # {} =>
             notes'[q] = notes[q] /\ (q = r => pc[r] \notin Dialling)
      /\ \A q \in Requests :
            q # r \/ pc[r] \notin Dialling => /\ notes'[q] = notes[q]
                                              /\ q \in live' <=> q \in live
  <2>1. CASE pc[r] \in Dialling
    BY <1>1, <2>1
  <2>2. CASE pc[r] \notin Dialling
    BY <1>1, <2>2
  <2> QED
    BY <2>1, <2>2
<1>3. /\ \A s \in Servers : pc[r] \in Dialling => entry[s] # r
      /\ \A q \in Requests : pc[q] \in Using => /\ conn[q] \in Requests
                                                /\ pc[r] \in Dialling => conn[q] # r
  BY DEF Ownership, DialsOwn, UsesEntry, EntryOfServer
<1>4. NotAhead'
  <2>1. \A q \in Requests : \A v \in notes'[q] : v <= version[Target[q]]
    BY <1>2 DEF NotAhead
  <2>2. \A q \in Requests : reply'[q] <= version[Target[q]]
    BY <1>1 DEF NotAhead, NoReply, Versions
  <2> QED
    BY <1>1, <2>1, <2>2 DEF NotAhead
<1>5. Expected'
  <2> SUFFICES ASSUME NEW q \in Requests
               PROVE  /\ reply'[q] # NoReply => pc'[q] \in {"connect", "refetch"}
                      /\ served'[q] # NoReply => pc'[q] \in {"calling"} \cup Answers
                      /\ notes'[q] # {} => pc'[q] \in Dialling \/ entry'[Target[q]] = q
    BY DEF Expected
  <2>1. reply'[q] # NoReply => pc'[q] \in {"connect", "refetch"}
    BY <1>1 DEF Expected
  <2>2. served'[q] # NoReply => pc'[q] \in {"calling"} \cup Answers
    BY <1>1 DEF Expected, Answers
  <2>3. notes'[q] # {} => pc'[q] \in Dialling \/ entry'[Target[q]] = q
    BY <1>1, <1>2 DEF Expected
  <2> QED
    BY <2>1, <2>2, <2>3
<1>6. OpeningCurrent'
  BY <1>1, <1>2 DEF OpeningCurrent, Current
<1>7. /\ \A c : Refetching(c)' => Refetching(c)
      /\ \A c : c \notin lapsed' => /\ c \notin lapsed
                                    /\ Refetching(c) => Refetching(c)'
  BY <1>1 DEF Refetching
<1>8. EntryCurrent'
  BY <1>1, <1>2, <1>3, <1>7 DEF EntryCurrent, Current
<1>9. OneRefetch' /\ ServesCurrent' /\ NoStaleRead'
  BY <1>1, <1>7 DEF OneRefetch, ServesCurrent, NoStaleRead
<1>10. RefetchCurrent'
  BY <1>1, <1>2, <1>3, <1>7 DEF RefetchCurrent, Current, Using
<1> QED
  BY <1>4, <1>5, <1>6, <1>8, <1>9, <1>10

LEMMA UpstreamListsFreshness ==
    ASSUME TypeOK, Ownership, Freshness, NEW r \in Requests, UpstreamLists(r)
    PROVE  Freshness'
<1> USE DEF TypeOK, Freshness, UpstreamLists, registryVars, inventoryVars,
            upstreamVars, historyVars
<1>1. /\ Target[conn[r]] = Target[r] /\ conn[r] \in Requests
      /\ pc[r] = "connect" => conn[r] = r
  BY DEF Ownership, DialsOwn, UsesEntry, EntryOfServer, Dialling, Using
<1>2. NotAhead' /\ Expected'
  BY DEF NotAhead, Expected, Versions
<1>3. OpeningCurrent'
  BY <1>1 DEF OpeningCurrent, Current, NotAhead, Versions
<1>4. \A c : Refetching(c)' <=> Refetching(c)
  BY DEF Refetching
<1>5. EntryCurrent'
  BY <1>4 DEF EntryCurrent, Current
<1>6. RefetchCurrent'
  <2>1. reply'[r] >= floor[r] /\ reply'[r] >= cached[conn[r]]
    BY <1>1 DEF NotAhead, Versions, NoReply
  <2>2. Current(conn[r], reply[r])'
    BY <1>1 DEF NotAhead, Current, Versions
  <2> QED
    BY <2>1, <2>2 DEF RefetchCurrent, Current
<1>7. OneRefetch' /\ ServesCurrent' /\ NoStaleRead'
  BY DEF OneRefetch, ServesCurrent, NoStaleRead
<1> QED
  BY <1>2, <1>3, <1>5, <1>6, <1>7

(* The other steps of a request neither read nor make an inventory. *)
LEMMA OtherStepsFreshness ==
    ASSUME TypeOK, Ownership, Freshness, NEW r \in Requests,
           \/ LookupHit(r) \/ LookupMiss(r) \/ AcquireGuard(r) \/ RecheckHit(r)
           \/ ConnectRefused(r) \/ LoadDirty(r) \/ CallReturns(r)
           \/ CallDisconnected(r) \/ CallTimeout(r)
    PROVE  Freshness'
<1> USE DEF registryVars, inventoryVars, upstreamVars, historyVars, Stages,
            Guarded, Dialling, Using
<1>1. CASE LookupHit(r) \/ LookupMiss(r) \/ AcquireGuard(r) \/ RecheckHit(r)
           \/ LoadDirty(r)
  <2>1. PICK stage \in {"fresh", "guard", "recheck", "swap"} : Goto(r, stage)
    BY <1>1 DEF LookupHit, LookupMiss, AcquireGuard, RecheckHit, LoadDirty
  <2>2. /\ pc[r] \in {"lookup", "guard", "recheck", "fresh"}
        /\ UNCHANGED <<live, dirty, cached, reply, version, notes, seen,
                       floor, served, lapsed>>
        /\ entry' = entry
        /\ conn' = conn \/ \E c : conn' = [conn EXCEPT ![r] = c]
    BY <1>1 DEF LookupHit, LookupMiss, AcquireGuard, RecheckHit, LoadDirty
  <2> QED
    BY <2>1, <2>2, QuietStep DEF Reading
<1>2. CASE ConnectRefused(r) \/ CallReturns(r) \/ CallDisconnected(r)
           \/ CallTimeout(r)
  <2>1. PICK stage \in Answers : Goto(r, stage)
    BY <1>2 DEF ConnectRefused, CallReturns, CallDisconnected, CallTimeout,
                Answers
  <2>2. /\ pc[r] \in {"recheck", "calling"} /\ stage \notin Reading
        /\ UNCHANGED <<entry, conn, live, dirty, cached, reply, version, notes,
                       seen, floor, served, lapsed>>
    BY <1>2, <2>1 DEF ConnectRefused, CallReturns, CallDisconnected, CallTimeout,
                      Answers, Reading
  <2> QED
    BY <2>1, <2>2, QuietStep DEF Reading
<1> QED
  BY <1>1, <1>2

LEMMA StepFreshness ==
    ASSUME TypeOK, Ownership, Freshness, NEW r \in Requests,
           Receive(r) \/ Step(r) \/ Cancel(r) \/ UpstreamLists(r)
    PROVE  Freshness'
<1>1. CASE Receive(r) \/ Cancel(r) \/ UpstreamLists(r)
  BY <1>1, ArrivalFreshness, CancelFreshness, UpstreamListsFreshness
<1>2. CASE GetOrConnect(r)
  BY <1>2, OtherStepsFreshness, StartConnectFreshness, ConnectFreshness
     DEF GetOrConnect
<1>3. CASE EnsureFresh(r)
  BY <1>3, OtherStepsFreshness, GoAheadFreshness, SwapWinsFreshness,
     InstallFreshness, RefetchFailsFreshness DEF EnsureFresh
<1>4. CASE Forward(r)
  BY <1>4, OtherStepsFreshness, DecideFreshness DEF Forward
<1> QED
  BY <1>1, <1>2, <1>3, <1>4 DEF Step

LEMMA ChangeFreshness ==
    ASSUME TypeOK, Ownership, Freshness, NEW s \in Servers, UpstreamChanges(s)
    PROVE  Freshness'
<1> USE DEF TypeOK, Freshness, UpstreamChanges, registryVars, inventoryVars,
            historyVars
<1>1. NotAhead'
  BY DEF NotAhead, Versions, NoReply
<1>2. Expected'
  BY DEF Expected, Ownership, NoOrphan
<1>3. \A c \in Requests : \A v : Current(c, v) => Current(c, v)'
  BY DEF Current, Versions
<1>4. OpeningCurrent'
  BY <1>3 DEF OpeningCurrent
<1>5. \A c : Refetching(c)' <=> Refetching(c)
  BY DEF Refetching
<1>6. EntryCurrent'
  <2>1. \A q \in Servers : entry[q] # None => entry[q] \in Requests
    OBVIOUS
  <2> QED
    BY <1>3, <1>5, <2>1 DEF EntryCurrent
<1>7. RefetchCurrent'
  <2>1. \A q \in Requests : pc[q] = "refetch" => conn[q] \in Requests
    BY DEF Ownership, UsesEntry, Using
  <2> QED
    BY <1>3, <2>1 DEF RefetchCurrent
<1>8. OneRefetch' /\ ServesCurrent' /\ NoStaleRead'
  BY DEF OneRefetch, ServesCurrent, NoStaleRead
<1> QED
  BY <1>1, <1>2, <1>4, <1>6, <1>7, <1>8

(* A notification sets the flag of the only connection of its server. *)
LEMMA NotifyFreshness ==
    ASSUME TypeOK, Ownership, Freshness, NEW c \in Requests, ToolListChanged(c)
    PROVE  Freshness'
<1> USE DEF TypeOK, Freshness
<1>1. PICK v \in notes[c] :
          /\ dirty' = [dirty EXCEPT ![c] = TRUE]
          /\ notes' = [notes EXCEPT ![c] = @ \ {v}]
          /\ seen' = [seen EXCEPT ![Target[c]] = IF v > @ THEN v ELSE @]
          /\ UNCHANGED <<pc, entry, conn, live, cached, reply, version, floor,
                         served, lapsed>>
  BY DEF ToolListChanged, registryVars, historyVars
<1>2. /\ v \in Versions /\ v <= version[Target[c]]
      /\ seen'[Target[c]] \in Versions
      /\ seen'[Target[c]] >= seen[Target[c]] /\ seen'[Target[c]] <= version[Target[c]]
      /\ \A s \in Servers : s # Target[c] => seen'[s] = seen[s]
  BY <1>1 DEF NotAhead, Versions
<1>3. NotAhead'
  <2>1. \A s \in Servers : seen'[s] <= version[s] /\ seen'[s] >= seen[s]
    BY <1>2 DEF NotAhead, Versions
  <2>2. \A r \in Requests : \A w \in notes'[r] : w <= version[Target[r]]
    BY <1>1 DEF NotAhead
  <2>3. \A r \in Requests : floor[r] <= seen'[Target[r]]
    BY <1>1, <1>2, <2>1 DEF NotAhead, Versions, NoReply
  <2> QED
    BY <1>1, <2>1, <2>2, <2>3 DEF NotAhead
<1>4. Expected'
  BY <1>1 DEF Expected
(* No other connection of this server is in use. *)
<1>5. \A w : \A b \in Requests :
          /\ pc[b] \in Dialling \/ entry[Target[b]] = b
          /\ Current(b, w)
          => Current(b, w)'
  <2> SUFFICES ASSUME NEW b \in Requests, NEW w,
                      pc[b] \in Dialling \/ entry[Target[b]] = b,
                      Current(b, w)
               PROVE  Current(b, w)'
    OBVIOUS
  <2>1. CASE b = c
    BY <1>1, <2>1 DEF Current
  <2>2. CASE b # c
    <3>1. pc[c] \in Dialling \/ entry[Target[c]] = c
      BY <1>1 DEF Expected
    <3>2. Target[b] # Target[c]
      BY <2>2, <3>1 DEF Ownership, GuardOwned, DialsOwn, Guarded
    <3>3. dirty'[b] = dirty[b] /\ notes'[b] = notes[b] /\ seen'[Target[b]] = seen[Target[b]]
      BY <1>1, <1>2, <2>2, <3>2
    <3> QED
      BY <1>1, <3>3 DEF Current
  <2> QED
    BY <2>1, <2>2
<1>6. OpeningCurrent'
  BY <1>1, <1>5 DEF OpeningCurrent, Dialling
<1>7. \A b : Refetching(b)' <=> Refetching(b)
  BY <1>1 DEF Refetching
<1>8. EntryCurrent'
  <2>1. \A s \in Servers : entry[s] # None =>
            entry[s] \in Requests /\ entry[Target[entry[s]]] = entry[s]
    BY DEF Ownership, EntryOfServer
  <2> QED
    BY <1>1, <1>5, <1>7, <2>1 DEF EntryCurrent
<1>9. RefetchCurrent'
  <2>1. \A q \in Requests : pc[q] = "refetch" =>
            conn[q] \in Requests /\ entry[Target[conn[q]]] = conn[q]
    BY DEF Ownership, UsesEntry, EntryOfServer, Using
  <2> QED
    BY <1>1, <1>5, <2>1 DEF RefetchCurrent
<1>10. OneRefetch' /\ ServesCurrent' /\ NoStaleRead'
  BY <1>1 DEF OneRefetch, ServesCurrent, NoStaleRead
<1> QED
  BY <1>3, <1>4, <1>6, <1>8, <1>9, <1>10

LEMMA DeathFreshness ==
    ASSUME TypeOK, Freshness, NEW c \in Requests, UpstreamDies(c)
    PROVE  Freshness'
<1> USE DEF TypeOK, Freshness, UpstreamDies, registryVars, inventoryVars,
            upstreamVars, historyVars
<1>1. NotAhead' /\ Expected' /\ OneRefetch' /\ ServesCurrent' /\ NoStaleRead'
  BY DEF NotAhead, Expected, OneRefetch, ServesCurrent, NoStaleRead
<1>2. \A b, v : Current(b, v) => Current(b, v)'
  BY DEF Current
<1>3. \A b : Refetching(b)' <=> Refetching(b)
  BY DEF Refetching
<1>4. OpeningCurrent' /\ EntryCurrent' /\ RefetchCurrent'
  BY <1>2, <1>3 DEF OpeningCurrent, EntryCurrent, RefetchCurrent
<1> QED
  BY <1>1, <1>4

LEMMA ShutdownFreshness ==
    ASSUME TypeOK, Freshness, Shutdown
    PROVE  Freshness'
<1> USE DEF TypeOK, Freshness, Shutdown, inventoryVars, historyVars
<1>1. \A r \in Requests : pc'[r] \notin Stages \ {"idle"}
  BY DEF InFlight, Stages, Guarded, Dialling, Using, Answers
<1>2. NotAhead'
  BY DEF NotAhead, Versions, NoReply
<1>3. Expected'
  BY DEF Expected, InFlight, Stages, Guarded, Dialling, Using, Answers
<1>4. /\ OpeningCurrent' /\ EntryCurrent' /\ OneRefetch' /\ RefetchCurrent'
      /\ ServesCurrent'
  BY <1>1 DEF OpeningCurrent, EntryCurrent, OneRefetch, RefetchCurrent,
     ServesCurrent, Stages, Guarded, Dialling, Using
<1>5. NoStaleRead'
  BY DEF NoStaleRead
<1> QED
  BY <1>2, <1>3, <1>4, <1>5

LEMMA NextFreshness ==
    TypeOK /\ Ownership /\ Freshness /\ [Next]_vars => Freshness'
<1> SUFFICES ASSUME TypeOK, Ownership, Freshness, [Next]_vars
             PROVE  Freshness'
  OBVIOUS
<1>1. CASE UNCHANGED vars
  <2>1. NotAhead' /\ Expected' /\ OneRefetch' /\ ServesCurrent' /\ NoStaleRead'
    BY <1>1 DEF vars, Freshness, NotAhead, Expected, OneRefetch, ServesCurrent,
                NoStaleRead
  <2>2. OpeningCurrent' /\ EntryCurrent' /\ RefetchCurrent'
    BY <1>1 DEF vars, Freshness, OpeningCurrent, EntryCurrent, RefetchCurrent,
                Current, Refetching
  <2> QED
    BY <2>1, <2>2 DEF Freshness
<1>2. CASE Next
  BY <1>2, StepFreshness, ChangeFreshness, NotifyFreshness, DeathFreshness,
     ShutdownFreshness DEF Next
<1> QED
  BY <1>1, <1>2

LEMMA FreshnessInvariant == Spec => [](TypeOK /\ Ownership /\ Freshness)
  BY InitType, InitOwnership, InitFreshness, NextOwnership, NextFreshness, PTL
     DEF Spec

-----------------------------------------------------------------------------
(* What follows *)

(* Every reachable state is well typed, whatever the requests, servers and *)
(* bounds.                                                                 *)
THEOREM TypeCorrect == Spec => []TypeOK
  BY OwnershipInvariant, PTL

(* However many requests race, time out or are cancelled, a server never   *)
(* has two upstream processes (get_or_connect's guard and recheck).        *)
THEOREM AtMostOneUpstream == Spec => []OneUpstream
<1>1. TypeOK /\ Ownership => OneUpstream
  BY DEF TypeOK, Ownership, GuardOwned, DialsOwn, NoOrphan, OneUpstream,
         Guarded, Dialling
<1> QED
  BY <1>1, OwnershipInvariant, PTL

(* No upstream process is ever without an owner whose drop kills it.       *)
THEOREM NoOrphanProcess == Spec => []NoOrphan
<1>1. Ownership => NoOrphan
  BY DEF Ownership
<1> QED
  BY <1>1, OwnershipInvariant, PTL

(* Every request that got a connection got the one in the registry map.    *)
THEOREM ConnectionIsShared == Spec => []SharedConnection
<1>1. Ownership => SharedConnection
  BY DEF Ownership, UsesEntry, SharedConnection
<1> QED
  BY <1>1, OwnershipInvariant, PTL

(* Guard, connection, entry and process agree at every step, for every     *)
(* number of requests and servers: the invariant the others rest on.       *)
THEOREM OwnershipHolds == Spec => []Ownership
  BY OwnershipInvariant, PTL

(* ensure_fresh loses a list_changed signal only through a refetch that a  *)
(* cancelled call dropped, or two that overlapped.                         *)
THEOREM SignalLostOnlyForCause == Spec => []StaleForCause
<1>1. TypeOK /\ Ownership /\ Freshness => StaleForCause
  <2> SUFFICES ASSUME TypeOK, Ownership, Freshness, NEW s \in Servers, Stale(s),
                      entry[s] \notin lapsed, ~Refetching(entry[s]),
                      ~dirty[entry[s]]
               PROVE  notes[entry[s]] # {}
    BY DEF StaleForCause, Marked
  <2>1. entry[s] # None /\ Target[entry[s]] = s
    BY DEF Stale, TypeOK, Ownership, EntryOfServer
  <2>2. Current(entry[s], cached[entry[s]])
    BY <2>1 DEF Freshness, EntryCurrent
  <2> QED
    BY <2>1, <2>2 DEF Current, Stale
<1> QED
  BY <1>1, FreshnessInvariant, PTL

(* Outside those two cases, and unless it overtook a refetch, a request is *)
(* decided on an inventory with every change it could have been told of.   *)
THEOREM NoRequestReadsStale == Spec => []NoStaleRead
<1>1. Freshness => NoStaleRead
  BY DEF Freshness
<1> QED
  BY <1>1, FreshnessInvariant, PTL

(* A cached entry stays until the session ends. *)
THEOREM EntryIsPermanent == Spec => NoReconnect
<1>1. ASSUME TypeOK, Ownership, [Next]_vars
      PROVE  [\A s \in Servers :
                 entry[s] # None => entry'[s] = entry[s] \/ closed']_vars
  <2> SUFFICES ASSUME NEW s \in Servers, entry[s] # None
               PROVE  entry'[s] = entry[s] \/ closed'
    OBVIOUS
  <2>1. ASSUME NEW r \in Requests, InsertEntry(r) PROVE entry'[s] = entry[s]
    BY <1>1, <2>1 DEF InsertEntry, TypeOK, Ownership, DialsOwn, Dialling
  <2>2. CASE Shutdown
    BY <2>2 DEF Shutdown
  <2> QED
    BY <1>1, <2>1, <2>2, EntryChanges
<1> QED
  BY <1>1, OwnershipInvariant, PTL DEF Spec, NoReconnect

(* No refetch outside those two cases puts an older list over a newer one, *)
(* however many requests, notifications and upstreams there are.           *)
THEOREM CacheNeverGoesBack == Spec => CacheMovesForward
<1>1. ASSUME TypeOK, Freshness, Unlisted, [Next]_vars
      PROVE  [\A c \in Requests : c \notin lapsed' => cached'[c] >= cached[c]]_vars
  <2> SUFFICES ASSUME NEW c \in Requests, c \notin lapsed'
               PROVE  cached'[c] >= cached[c]
    OBVIOUS
  <2>0. cached[c] \in Int
    BY <1>1 DEF TypeOK, Versions, NoReply
  <2>1. ASSUME NEW r \in Requests, ConnectOk(r) PROVE cached'[c] >= cached[c]
    \* the first list is installed over none
    <3>1. cached' = [cached EXCEPT ![r] = reply[r]] /\ reply[r] \in Nat
      BY <1>1, <2>1 DEF ConnectOk, TypeOK, Versions
    <3>2. cached[r] = NoReply
      BY <1>1, <2>1 DEF ConnectOk, Unlisted, Early
    <3>. QED
      BY <1>1, <2>0, <3>1, <3>2 DEF NoReply, TypeOK
  <2>2. ASSUME NEW r \in Requests, InstallFresh(r) PROVE cached'[c] >= cached[c]
    <3>1. pc[r] = "refetch" /\ reply[r] # NoReply /\ lapsed' = lapsed
      BY <2>2 DEF InstallFresh, historyVars
    <3>2. cached' = [cached EXCEPT ![conn[r]] = reply[r]]
      BY <2>2 DEF InstallFresh
    <3>3. conn[r] = c => reply[r] >= cached[c]
      BY <1>1, <3>1 DEF Freshness, RefetchCurrent
    <3>. QED
      BY <1>1, <2>0, <3>2, <3>3 DEF TypeOK
  <2>. QED
    BY <1>1, <2>0, <2>1, <2>2, CachedChanges
<1> QED
  BY <1>1, FreshnessInvariant, UnlistedInvariant, PTL DEF Spec, CacheMovesForward

-----------------------------------------------------------------------------
(* What HealthyAnswered rests on, beside the fairness of the scheduler: a  *)
(* request waits for nobody but a request of its own server that does not  *)
(* wait, and has few steps to take.                                        *)

StepsLeft(stage) ==
    CASE stage = "idle" -> 11   [] stage = "lookup" -> 10  [] stage = "guard" -> 9
      [] stage = "recheck" -> 8 [] stage = "connect" -> 7  [] stage = "insert" -> 6
      [] stage = "fresh" -> 5   [] stage = "swap" -> 4     [] stage = "refetch" -> 3
      [] stage = "serve" -> 2   [] stage = "calling" -> 1  [] OTHER -> 0

Advances(r) ==
    /\ StepsLeft(pc'[r]) <= StepsLeft(pc[r])
    /\ Step(r) => StepsLeft(pc'[r]) < StepsLeft(pc[r])

(* Where a request goes by a step of its own. *)
LEMMA StepGoes ==
    ASSUME TypeOK, NEW r \in Requests, Step(r)
    PROVE  /\ pc' = [pc EXCEPT ![r] = pc'[r]]
           /\ StepsLeft(pc'[r]) < StepsLeft(pc[r])
<1> USE DEF TypeOK, Goto, StepsLeft
<1>1. CASE GetOrConnect(r)
  BY <1>1 DEF GetOrConnect, LookupHit, LookupMiss, AcquireGuard, RecheckHit,
     ConnectRefused, StartConnect, ConnectOk, ConnectFails, InsertEntry
<1>2. CASE EnsureFresh(r)
  BY <1>2 DEF EnsureFresh, LoadClean, LoadDirty, SwapWins, SwapLoses, InstallFresh,
     RefetchFails, GoAhead
<1>3. CASE Forward(r)
  BY <1>3 DEF Forward, ServeInventory, LookupTool, CallReturns, CallDisconnected,
     CallTimeout
<1> QED
  BY <1>1, <1>2, <1>3 DEF Step

(* A request is never set back: no failure is retried, no refetch or       *)
(* connect of another request sends it to an earlier stage, so it takes at *)
(* most ten steps, however many others there are.                          *)
THEOREM EveryRequestAdvances == Spec => [][\A r \in Requests : Advances(r)]_vars
<1>1. ASSUME TypeOK, [Next]_vars
      PROVE  [\A r \in Requests : Advances(r)]_vars
  <2> SUFFICES ASSUME NEW r \in Requests
               PROVE  Advances(r)
    OBVIOUS
  <2>0. pc[r] \in Stages \cup Answers
    BY <1>1 DEF TypeOK
  <2>1. CASE Step(r)
    BY <1>1, <2>1, StepGoes DEF Advances, StepsLeft
  <2>2. CASE ~ Step(r) /\ \E q \in Requests : Step(q)
    BY <1>1, <2>2, StepGoes DEF Advances, StepsLeft, TypeOK
  <2>3. ASSUME NEW q \in Requests, Receive(q) \/ Cancel(q), ~ Step(r)
        PROVE  Advances(r)
    BY <1>1, <2>0, <2>3 DEF Receive, Cancel, Goto, Advances, StepsLeft, TypeOK, Awaits
  <2>4. CASE Shutdown /\ ~ Step(r)
    BY <1>1, <2>0, <2>4 DEF Shutdown, Advances, StepsLeft, TypeOK
  <2>5. CASE pc' = pc /\ ~ Step(r)
    BY <2>5 DEF Advances, StepsLeft
  <2>6. \/ \E q \in Requests : Step(q) \/ Receive(q) \/ Cancel(q)
        \/ Shutdown
        \/ pc' = pc
    BY <1>1 DEF Next, UpstreamLists, UpstreamChanges, ToolListChanged, UpstreamDies, vars
  <2> QED
    BY <2>1, <2>2, <2>3, <2>4, <2>5, <2>6
<1> QED
  BY <1>1, OwnershipInvariant, PTL DEF Spec

(* Nobody waits in a circle: whoever waits at an init guard waits for one  *)
(* other request of the same server, which is connecting under a timer and *)
(* waits at no guard itself.  Elsewhere a request waits for no request.    *)
THEOREM NobodyWaitsInACircle ==
    Spec => [](\A r \in Requests : pc[r] = "guard" =>
                  LET q == holder[Target[r]] IN
                  \/ q = None
                  \/ /\ q \in Requests \ {r} /\ Target[q] = Target[r]
                     /\ pc[q] \in Guarded)
<1>1. ASSUME TypeOK, Ownership
      PROVE  \A r \in Requests : pc[r] = "guard" =>
                  LET q == holder[Target[r]] IN
                  \/ q = None
                  \/ /\ q \in Requests \ {r} /\ Target[q] = Target[r]
                     /\ pc[q] \in Guarded
  BY <1>1 DEF TypeOK, Ownership, GuardOwned, Guarded, Dialling
<1> QED
  BY <1>1, OwnershipInvariant, PTL
=============================================================================
