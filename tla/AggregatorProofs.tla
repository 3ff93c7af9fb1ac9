--------------------------- MODULE AggregatorProofs ---------------------------
(***************************************************************************)
(* Proofs about Aggregator, for every set of requests, servers, tools and  *)
(* ACLs.  The inductive invariant IInv says of each request, stage by      *)
(* stage, which checks it passed, what it has counted and what it has      *)
(* collected.  A request depends on the others through Provided only,      *)
(* which grows: Frame carries its part over the steps of the others.       *)
(***************************************************************************)
EXTENDS Aggregator, TLAPS

(* A request past dispatch passed every check, and is at                   *)
(* the stage of its own handler.                                           *)
Passed(r) == pc[r] \notin {"idle", "dispatch"} \cup Refusals =>
    /\ Configured
    /\ Allowed(ask[r])
    /\ ask[r].op # "list_tools" => ask[r].server # None
    /\ pc[r] = "walk" => ask[r].op = "list_tools"
    /\ pc[r] = "unknown_tool" => ask[r].op # "list_tools"
    /\ pc[r] = "schema" => ask[r].op = "get_tool_schema"
    /\ pc[r] \in {"call", "calling", "call_cancelled"} => ask[r].op = "invoke_tool"

(* A refusal says why, and an unknown tool was missing from some inventory. *)
Reasoned(r) ==
    /\ pc[r] = "unknown_server" => ask[r].server \notin Servers
    /\ pc[r] = "namespace_denied" => ~Allowed(ask[r])
    /\ pc[r] = "unknown_tool" =>
          \E inv \in Provided(ask[r].server) : ask[r].tool \notin inv

Counted(r) ==
    /\ pc[r] \in {"idle", "dispatch"} \cup Refusals => contacted[r] = {}
    /\ pc[r] \in {"idle", "dispatch", "walk", "schema", "call", "unknown_tool"}
                \cup Refusals => calls[r] = 0
    /\ pc[r] = "calling" => calls[r] = 1
    /\ pc[r] = "ok" /\ ask[r].op = "invoke_tool" => calls[r] = 1
    /\ calls[r] <= 1
    /\ calls[r] = 1 => ask[r].op = "invoke_tool"
    /\ calls[r] = 1 => \E inv \in Provided(ask[r].server) : ask[r].tool \in inv

(* What a listing has shown of a server it is done with.                   *)
Complete(r, s) == \E inv \in Provided(s) :
    {t \in Tools : <<s, t>> \in rows[r]}
        = {Shown[t] : t \in {u \in inv : Permits(s, u)}}

Walked(r) ==
    /\ pc[r] \in {"idle", "dispatch"} => rows[r] = {}
    /\ pc[r] = "walk" \/ Listed(r) =>
          /\ todo[r] \subseteq Scope(ask[r])
          /\ \A s \in Scope(ask[r]) \ todo[r] : Complete(r, s)
          /\ \A row \in rows[r] : row[1] \in Scope(ask[r]) \ todo[r]
    /\ Listed(r) => todo[r] = {}

(* AclBeforeContact, of one request.                                       *)
Guarded(r) == \A s \in contacted[r] :
    /\ Configured
    /\ s \in Scope(ask[r]) \cap acl.servers
    /\ ask[r].op # "list_tools" => Permits(s, ask[r].tool)

Handled(r) == Passed(r) /\ Reasoned(r) /\ Counted(r) /\ Walked(r) /\ Guarded(r)

IInv == TypeOK /\ \A r \in Requests : Handled(r)

-----------------------------------------------------------------------------
(* Facts about one state *)

(* What a step leaves open: inventories that were promised still are.      *)
Growing == \A s \in Servers : Provided(s) \subseteq Provided(s)'

LEMMA SameGrowing == ASSUME UNCHANGED <<lists, open>> PROVE Growing
  BY DEF Growing, Provided

(* A request that passed its checks goes to servers of the ACL, and those  *)
(* are configured.                                                         *)
LEMMA PassedScope ==
    ASSUME TypeOK, NEW r \in Requests, Passed(r),
           pc[r] \notin {"idle", "dispatch"} \cup Refusals
    PROVE  /\ acl \in Acls /\ ask[r] \in AskType
           /\ Scope(ask[r]) \subseteq acl.servers
           /\ acl.servers \subseteq Servers
           /\ ask[r].op # "list_tools" => /\ ask[r].server \in Servers
                                          /\ Permits(ask[r].server, ask[r].tool)
  BY AclsAssumption DEF TypeOK, Passed, Configured, Allowed, Scope, Permits, Refusals, AskType

(* What a request relies on survives a step that leaves it alone: the      *)
(* inventories an open server has provided are only added to.              *)
LEMMA Frame ==
    ASSUME TypeOK, NEW q \in Requests, Handled(q), acl' = acl,
           pc'[q] = pc[q], ask'[q] = ask[q], todo'[q] = todo[q],
           rows'[q] = rows[q], contacted'[q] = contacted[q], calls'[q] = calls[q],
           Growing
    PROVE  Handled(q)'
  <1>1. Passed(q)' /\ Guarded(q)'
    BY DEF Handled, Passed, Guarded, Configured, Allowed, Scope, Permits
  <1>2. pc[q] \notin {"idle", "dispatch"} \cup Refusals => Scope(ask[q]) \subseteq Servers
    BY PassedScope DEF Handled
  <1>3. pc[q] = "unknown_tool" \/ calls[q] = 1 => ask[q].server \in Servers
    <2>1. pc[q] = "unknown_tool" \/ calls[q] = 1 =>
              ask[q].op # "list_tools" /\ pc[q] \notin {"idle", "dispatch"} \cup Refusals
      BY DEF Handled, Counted, Passed, Refusals
    <2> QED BY <2>1, <1>2 DEF Scope
  <1>4. Reasoned(q)' /\ Counted(q)'
    BY <1>3 DEF Handled, Reasoned, Counted, Allowed, Permits, Growing
  <1>5. ASSUME NEW s \in Servers, Complete(q, s) PROVE Complete(q, s)'
    BY <1>5 DEF Complete, Permits, Growing
  <1>6. Walked(q)'
    <2>1. pc[q] = "walk" \/ Listed(q) => Scope(ask[q]) \subseteq Servers
      BY <1>2 DEF Listed, Refusals
    <2> QED BY <1>5, <2>1 DEF Handled, Walked, Listed, Scope
  <1> QED BY <1>1, <1>4, <1>6 DEF Handled

(* A step of request r, or of no request, leaves the others alone.         *)
Others(r) ==
    /\ acl' = acl
    /\ \A q \in Requests \ {r} :
          /\ pc'[q] = pc[q] /\ ask'[q] = ask[q] /\ todo'[q] = todo[q]
          /\ rows'[q] = rows[q] /\ contacted'[q] = contacted[q]
          /\ calls'[q] = calls[q]
    /\ Growing

LEMMA OneRequest ==
    ASSUME IInv, TypeOK', NEW r \in Requests, Others(r), Handled(r)'
    PROVE  IInv'
  BY Frame DEF IInv, Others

-----------------------------------------------------------------------------
(* Receiving and checking a request *)

LEMMA ReceiveHandled ==
    ASSUME IInv, NEW r \in Requests, Receive(r)
    PROVE  IInv'
  <1> USE DEF IInv
  <1>1. TypeOK'
    BY AsksAssumption DEF Receive, Goto, TypeOK, upstreamVars
  <1>2. Others(r)
    BY SameGrowing DEF Receive, Goto, TypeOK, Others, upstreamVars
  <1>3. pc'[r] = "dispatch" /\ rows'[r] = {} /\ contacted'[r] = {} /\ calls'[r] = 0
    BY DEF Receive, Goto, TypeOK, upstreamVars, Handled, Walked, Counted
  <1>4. Handled(r)'
    BY <1>3 DEF Handled, Passed, Reasoned, Counted, Walked, Guarded, Listed, Refusals
  <1> QED BY <1>1, <1>2, <1>4, OneRequest

(* A refusal leaves a request as it was received.                          *)
LEMMA RefuseHandled ==
    ASSUME IInv, NEW r \in Requests, pc[r] = "dispatch",
           NEW code \in Refusals, Refuse(r, code),
           code = "unknown_server" => ask[r].server \notin Servers,
           code = "namespace_denied" => ~Allowed(ask[r])
    PROVE  IInv'
  <1> USE DEF IInv
  <1>1. TypeOK'
    BY DEF Refuse, Goto, TypeOK, upstreamVars, Answers
  <1>2. Others(r)
    BY SameGrowing DEF Refuse, Goto, TypeOK, Others, upstreamVars
  <1>3. /\ pc'[r] = code /\ ask' = ask /\ acl' = acl
        /\ rows'[r] = {} /\ contacted'[r] = {} /\ calls'[r] = 0
    BY DEF Refuse, Goto, TypeOK, upstreamVars, Handled, Walked, Counted
  <1>4. Handled(r)'
    BY <1>3 DEF Handled, Passed, Reasoned, Counted, Walked, Guarded, Listed, Refusals,
                Allowed, Permits
  <1> QED BY <1>1, <1>2, <1>4, OneRequest

LEMMA BeginHandled ==
    ASSUME IInv, NEW r \in Requests, Begin(r)
    PROVE  IInv'
  <1> USE DEF IInv
  <1>1. acl \in Acls /\ acl.servers \subseteq Servers /\ ask[r] \in AskType
    BY AclsAssumption DEF Begin, TypeOK, Configured
  <1>2. ask[r].op = "list_tools" => Scope(ask[r]) \subseteq Servers
    BY <1>1, ServersAssumption DEF Begin, Scope, Allowed
  <1>3. TypeOK'
    BY <1>2 DEF Begin, Goto, TypeOK, upstreamVars, Working
  <1>4. Others(r)
    BY SameGrowing DEF Begin, Goto, TypeOK, Others, upstreamVars
  <1>5. /\ ask' = ask /\ acl' = acl
        /\ rows'[r] = {} /\ contacted'[r] = {} /\ calls'[r] = 0
    BY DEF Begin, Goto, TypeOK, upstreamVars, Handled, Walked, Counted
  <1>6. \/ pc'[r] = "walk" /\ ask[r].op = "list_tools" /\ todo'[r] = Scope(ask[r])
        \/ pc'[r] = "schema" /\ ask[r].op = "get_tool_schema"
        \/ pc'[r] = "call" /\ ask[r].op = "invoke_tool"
    BY DEF Begin, Goto, TypeOK
  <1>7. Passed(r)' /\ Reasoned(r)' /\ Guarded(r)'
    BY <1>5, <1>6 DEF Begin, WellFormed, Passed, Reasoned, Guarded, Allowed, Permits, Configured
  <1>8. Counted(r)' /\ Walked(r)'
    BY <1>5, <1>6 DEF Counted, Walked, Listed, Refusals, Scope
  <1> QED BY <1>3, <1>4, <1>7, <1>8, OneRequest DEF Handled

LEMMA DispatchHandled ==
    ASSUME IInv, NEW r \in Requests, Dispatch(r)
    PROVE  IInv'
  <1>1. CASE Malformed(r)
    BY <1>1, RefuseHandled DEF Malformed, Refusals
  <1>2. CASE Unconfigured(r)
    BY <1>2, RefuseHandled DEF Unconfigured, Refusals
  <1>3. CASE UnknownServer(r)
    BY <1>3, RefuseHandled DEF UnknownServer, Refusals
  <1>4. CASE NamespaceDenied(r)
    BY <1>4, RefuseHandled DEF NamespaceDenied, Refusals
  <1>5. CASE BadArguments(r)
    BY <1>5, RefuseHandled DEF BadArguments, Refusals
  <1>6. CASE Begin(r)
    BY <1>6, BeginHandled
  <1>7. CASE NoSuchMetaTool(r)
    BY <1>7, RefuseHandled DEF NoSuchMetaTool, Refusals
  <1> QED BY <1>1, <1>2, <1>3, <1>4, <1>5, <1>6, <1>7 DEF Dispatch

-----------------------------------------------------------------------------
(* Asking the registry *)

(* A first listing touches what nobody was given, and an open server's     *)
(* inventories only grow.                                                  *)
LEMMA ServiceGrows ==
    ASSUME TypeOK, NEW s \in Servers,
           \/ Service!List(s) \/ Service!Open(s)
           \/ \E inv \in Inventories : Service!Change(s, inv)
    PROVE  /\ Growing
           /\ live' \in [Servers -> SUBSET Tools]
           /\ lists' \in [Servers -> SUBSET SUBSET Tools]
           /\ open' \in [Servers -> BOOLEAN]
  <1>1. CASE Service!List(s)
    BY <1>1 DEF TypeOK, Service!List, Growing, Provided
  <1>2. CASE Service!Open(s)
    BY <1>2 DEF TypeOK, Service!Open, Growing, Provided
  <1>3. ASSUME NEW inv \in Inventories, Service!Change(s, inv)
        PROVE  /\ Growing
               /\ live' \in [Servers -> SUBSET Tools]
               /\ lists' \in [Servers -> SUBSET SUBSET Tools]
               /\ open' \in [Servers -> BOOLEAN]
    BY <1>3, InventoriesAssumption DEF TypeOK, Service!Change, Growing, Provided
  <1> QED BY <1>1, <1>2, <1>3

(* What a request that asks the registry for server s adds to the state.   *)
Asked(r, s) ==
    /\ contacted' = [contacted EXCEPT ![r] = @ \cup {s}]
    /\ UNCHANGED upstreamVars
    /\ Growing

LEMMA InventoryAsked ==
    ASSUME TypeOK, NEW r \in Requests, NEW s \in Servers, NEW inv \in SUBSET Tools,
           Inventory(r, s, inv)
    PROVE  Asked(r, s) /\ inv \in Provided(s)'
  BY SameGrowing DEF TypeOK, Inventory, Contact, Asked, upstreamVars, Service!Read, Provided

LEMMA FailureAsked ==
    ASSUME TypeOK, NEW r \in Requests, NEW s \in Servers, RegistryFails(r, s)
    PROVE  Asked(r, s) /\ \E code \in Failures : pc' = [pc EXCEPT ![r] = code]
  BY SameGrowing DEF TypeOK, RegistryFails, Contact, Goto, Asked, upstreamVars

(* The server a handler asks for is configured, and allowed.               *)
LEMMA Target ==
    ASSUME IInv, NEW r \in Requests, pc[r] \in Working
    PROVE  /\ acl \in Acls /\ ask[r] \in AskType
           /\ Scope(ask[r]) \subseteq acl.servers \cap Servers
           /\ pc[r] = "walk" => ask[r].op = "list_tools" /\ todo[r] \subseteq Scope(ask[r])
           /\ pc[r] = "schema" => ask[r].op = "get_tool_schema"
           /\ pc[r] \in {"call", "calling"} => ask[r].op = "invoke_tool"
           /\ pc[r] # "walk" => /\ ask[r].server \in Scope(ask[r]) \cap Servers
                                /\ Permits(ask[r].server, ask[r].tool)
  <1>1. Passed(r) /\ Walked(r) /\ pc[r] \notin {"idle", "dispatch"} \cup Refusals
    BY DEF IInv, Handled, Working, Refusals
  <1>2. /\ acl \in Acls /\ ask[r] \in AskType
        /\ Scope(ask[r]) \subseteq acl.servers /\ acl.servers \subseteq Servers
        /\ ask[r].op # "list_tools" => /\ ask[r].server \in Servers
                                       /\ Permits(ask[r].server, ask[r].tool)
    BY <1>1, PassedScope DEF IInv
  <1> QED BY <1>1, <1>2 DEF Passed, Walked, Scope, Working

LEMMA GuardedContact ==
    ASSUME IInv, NEW r \in Requests, pc[r] \in Working, NEW s \in Scope(ask[r]),
           contacted' = [contacted EXCEPT ![r] = @ \cup {s}], acl' = acl, ask' = ask
    PROVE  Guarded(r)'
  <1>1. /\ Configured /\ s \in acl.servers
        /\ ask[r].op # "list_tools" => s = ask[r].server /\ Permits(s, ask[r].tool)
    BY Target, AclsAssumption DEF Configured, Scope, Working
  <1>2. contacted'[r] = contacted[r] \cup {s} /\ Guarded(r)
    BY DEF IInv, TypeOK, Handled
  <1> QED BY <1>1, <1>2 DEF Guarded, Configured, Scope, Permits

(* A connection on behalf of r leaves every request what it relies on.     *)
LEMMA ConnectsHandled ==
    ASSUME IInv, NEW r \in Requests, ServerConnects(r)
    PROVE  IInv'
  <1> USE DEF IInv
  <1>1. PICK s \in Servers : /\ At(r, s) /\ Contact(r, s)
                             /\ Service!List(s) \/ Service!Open(s)
                             /\ UNCHANGED <<acl, pc, ask, todo, rows, changes, calls>>
    BY DEF ServerConnects
  <1>2. /\ pc[r] \in {"walk", "schema", "call"} /\ pc[r] \in Working
        /\ s \in Scope(ask[r]) /\ calls[r] = 0
    BY <1>1, Target DEF At, First, Working, Handled, Counted
  <1>3. /\ Growing
        /\ live' \in [Servers -> SUBSET Tools]
        /\ lists' \in [Servers -> SUBSET SUBSET Tools]
        /\ open' \in [Servers -> BOOLEAN]
    BY <1>1, ServiceGrows
  <1>4. contacted' = [contacted EXCEPT ![r] = @ \cup {s}]
    BY <1>1 DEF Contact
  <1>5. TypeOK'
    BY <1>1, <1>3, <1>4 DEF TypeOK
  <1>6. Others(r)
    BY <1>1, <1>3, <1>4 DEF Others, TypeOK
  <1>7. Guarded(r)'
    BY <1>1, <1>2, <1>4, GuardedContact
  <1>8. Passed(r)' /\ Reasoned(r)' /\ Counted(r)'
    BY <1>1, <1>2, <1>3 DEF Handled, Passed, Reasoned, Counted, Configured, Allowed,
                            Permits, Refusals, Working
  <1>9. Walked(r)'
    <2>1. Scope(ask[r]) \subseteq Servers
      BY <1>2, Target
    <2>2. ASSUME NEW u \in Servers, Complete(r, u) PROVE Complete(r, u)'
      BY <1>1, <1>3, <2>2 DEF Complete, Growing, Permits
    <2> QED BY <1>1, <1>2, <2>1, <2>2 DEF Handled, Walked, Listed, Scope, Working
  <1> QED BY <1>5, <1>6, <1>7, <1>8, <1>9, OneRequest DEF Handled

-----------------------------------------------------------------------------
(* list_tools *)

LEMMA ListServerHandled ==
    ASSUME IInv, NEW r \in Requests, ListServer(r)
    PROVE  IInv'
  <1> USE DEF IInv
  <1>1. PICK s \in todo[r], inv \in SUBSET Tools :
            /\ Inventory(r, s, inv)
            /\ rows' = [rows EXCEPT ![r] =
                  @ \cup {<<s, Shown[t]>> : t \in {u \in inv : Permits(s, u)}}]
            /\ todo' = [todo EXCEPT ![r] = @ \ {s}]
    BY DEF ListServer
  <1>2. /\ pc[r] = "walk" /\ acl' = acl /\ pc' = pc /\ ask' = ask /\ calls' = calls
    BY DEF ListServer
  <1>3. /\ Scope(ask[r]) \subseteq Servers /\ todo[r] \subseteq Scope(ask[r])
        /\ s \in Servers /\ s \in Scope(ask[r]) /\ ask[r].op = "list_tools"
    BY <1>1, <1>2, Target DEF Working
  <1>4. Asked(r, s) /\ inv \in Provided(s)'
    BY <1>1, <1>3, InventoryAsked
  <1>5. rows' \in [Requests -> SUBSET (Servers \X Tools)]
    BY <1>1, <1>3, ShownAssumption DEF TypeOK
  <1>6. TypeOK'
    BY <1>1, <1>2, <1>3, <1>4, <1>5 DEF TypeOK, Asked, upstreamVars
  <1>7. Others(r)
    BY <1>1, <1>2, <1>4 DEF Others, Asked, TypeOK
  <1>8. Guarded(r)'
    BY <1>2, <1>3, <1>4, GuardedContact DEF Working, Asked
  <1>9. Passed(r)' /\ Reasoned(r)' /\ Counted(r)'
    BY <1>2, <1>3, <1>4 DEF Handled, Passed, Reasoned, Counted, Configured, Allowed,
                            Permits, Refusals, Asked
  <1>10. /\ rows'[r] = rows[r] \cup {<<s, Shown[t]>> : t \in {u \in inv : Permits(s, u)}}
         /\ todo'[r] = todo[r] \ {s}
         /\ \A row \in rows[r] : row[1] \in Scope(ask[r]) \ todo[r]
         /\ \A u \in Scope(ask[r]) \ todo[r] : Complete(r, u)
    BY <1>1, <1>2 DEF TypeOK, Handled, Walked
  <1>11. Complete(r, s)'
    <2>1. \A t : <<s, t>> \notin rows[r]
      BY <1>10, <1>1
    <2>2. {t \in Tools : <<s, t>> \in rows'[r]}
              = {Shown[t] : t \in {u \in inv : Permits(s, u)}}
      BY <2>1, <1>10, ShownAssumption
    <2> QED BY <2>2, <1>2, <1>4 DEF Complete, Permits
  <1>12. ASSUME NEW u \in Scope(ask[r]) \ todo[r] PROVE Complete(r, u)'
    <2>1. u # s /\ u \in Servers /\ Complete(r, u)
      BY <1>12, <1>10, <1>1, <1>3
    <2>2. {t \in Tools : <<u, t>> \in rows'[r]} = {t \in Tools : <<u, t>> \in rows[r]}
      BY <2>1, <1>10
    <2> QED BY <2>1, <2>2, <1>2, <1>4 DEF Complete, Permits, Asked, Growing
  <1>13. Walked(r)'
    <2>1. pc'[r] = "walk" /\ ~Listed(r)' /\ Scope(ask[r])' = Scope(ask[r])
      BY <1>2 DEF Listed, Scope
    <2>2. todo'[r] \subseteq Scope(ask[r])
      BY <1>3, <1>10
    <2>3. \A u \in Scope(ask[r]) \ todo'[r] : Complete(r, u)'
      BY <1>10, <1>11, <1>12
    <2>4. \A row \in rows'[r] : row[1] \in Scope(ask[r]) \ todo'[r]
      BY <1>3, <1>10
    <2> QED BY <2>1, <2>2, <2>3, <2>4 DEF Walked
  <1> QED BY <1>6, <1>7, <1>8, <1>9, <1>13, OneRequest DEF Handled

LEMMA ListFailsHandled ==
    ASSUME IInv, NEW r \in Requests, ListFails(r)
    PROVE  IInv'
  <1> USE DEF IInv
  <1>1. PICK s \in todo[r] : RegistryFails(r, s)
    BY DEF ListFails
  <1>2. /\ pc[r] = "walk" /\ acl' = acl /\ ask' = ask /\ calls' = calls
        /\ todo' = [todo EXCEPT ![r] = {}] /\ rows' = [rows EXCEPT ![r] = {}]
    BY DEF ListFails
  <1>3. s \in Servers /\ s \in Scope(ask[r]) /\ ask[r].op = "list_tools"
    BY <1>1, <1>2, Target DEF Working
  <1>4. Asked(r, s) /\ \E code \in Failures : pc' = [pc EXCEPT ![r] = code]
    BY <1>1, <1>3, FailureAsked
  <1>5. pc' \in [Requests -> {"idle", "dispatch"} \cup Working \cup Answers]
    BY <1>4 DEF TypeOK, Answers
  <1>6. TypeOK'
    BY <1>2, <1>3, <1>4, <1>5, pc[r] # "idle" DEF TypeOK, Asked, upstreamVars
  <1>7. Others(r)
    BY <1>2, <1>4 DEF Others, Asked, TypeOK
  <1>8. Guarded(r)'
    BY <1>2, <1>3, <1>4, GuardedContact DEF Working, Asked
  <1>9. pc'[r] \in Failures /\ rows'[r] = {} /\ calls'[r] = 0
    BY <1>2, <1>4 DEF TypeOK, Handled, Counted
  <1>10. Passed(r)' /\ Reasoned(r)' /\ Counted(r)' /\ Walked(r)'
    BY <1>2, <1>3, <1>9 DEF Handled, Passed, Reasoned, Counted, Walked, Listed, Configured,
                            Allowed, Permits, Refusals, Failures
  <1> QED BY <1>6, <1>7, <1>8, <1>10, OneRequest DEF Handled

LEMMA ListDoneHandled ==
    ASSUME IInv, NEW r \in Requests, ListDone(r)
    PROVE  IInv'
  <1> USE DEF IInv
  <1>1. /\ pc[r] = "walk" /\ todo[r] = {} /\ pc' = [pc EXCEPT ![r] = "ok"]
        /\ UNCHANGED <<acl, ask, todo, rows, upstreamVars, contacted, calls>>
    BY DEF ListDone, Goto, upstreamVars
  <1>2. ask[r].op = "list_tools"
    BY <1>1, Target DEF Working
  <1>3. TypeOK'
    BY <1>1 DEF TypeOK, Answers, upstreamVars
  <1>4. Others(r)
    BY <1>1, SameGrowing DEF Others, TypeOK, upstreamVars
  <1>5. pc'[r] = "ok"
    BY <1>1 DEF TypeOK
  <1>6. Passed(r)' /\ Reasoned(r)' /\ Counted(r)' /\ Guarded(r)'
    BY <1>1, <1>2, <1>5 DEF Handled, Passed, Reasoned, Counted, Guarded, Configured,
                            Allowed, Scope, Permits, Refusals
  <1>7. Walked(r)'
    BY <1>1, <1>2, <1>5 DEF Handled, Walked, Listed, Scope, Complete, Provided, Permits,
                            upstreamVars
  <1> QED BY <1>3, <1>4, <1>6, <1>7, OneRequest DEF Handled

-----------------------------------------------------------------------------
(* get_tool_schema and invoke_tool *)

(* What the steps of these two handlers have in common: they ask for the   *)
(* request's server, or ask nothing, and leave the listing state alone.    *)
LEMMA SingleServer ==
    ASSUME IInv, NEW r \in Requests, pc[r] \in Working \ {"walk"},
           Asked(r, ask[r].server) \/ UNCHANGED <<contacted, upstreamVars>>,
           UNCHANGED <<acl, ask, todo, rows>>,
           NEW stage \in {"calling"} \cup (Answers \ Refusals), Goto(r, stage),
           stage = "ok" => ask[r].op # "list_tools",
           stage \in {"calling", "call_cancelled"} => ask[r].op = "invoke_tool",
           calls' \in [Requests -> Nat],
           \A q \in Requests \ {r} : calls'[q] = calls[q],
           Reasoned(r)', Counted(r)'
    PROVE  IInv'
  <1> USE DEF IInv
  <1>1. /\ ask[r].op # "list_tools" /\ pc[r] # "idle"
        /\ ask[r].server \in Scope(ask[r]) \cap Servers
        /\ Permits(ask[r].server, ask[r].tool) /\ ask[r].server # None
    BY Target, ServersAssumption DEF Working
  <1>2. pc' = [pc EXCEPT ![r] = stage] /\ pc'[r] = stage
    BY DEF Goto, TypeOK
  <1>3. TypeOK'
    <2>1. pc' \in [Requests -> {"idle", "dispatch"} \cup Working \cup Answers]
      BY <1>2 DEF TypeOK, Working
    <2>2. contacted' \in [Requests -> SUBSET Servers]
          /\ UNCHANGED upstreamVars
      BY <1>1 DEF TypeOK, Asked
    <2> QED BY <1>1, <1>2, <2>1, <2>2 DEF TypeOK, upstreamVars
  <1>4. Others(r)
    BY <1>2, SameGrowing DEF Others, TypeOK, Asked, upstreamVars
  <1>5. Passed(r)'
    BY <1>1, <1>2 DEF Handled, Passed, Working, Refusals, Answers, Failures, Configured,
                      Allowed, Permits
  <1>6. Walked(r)'
    BY <1>1, <1>2 DEF Handled, Walked, Listed, Answers, Refusals, Failures
  <1>7. Guarded(r)'
    <2>1. CASE Asked(r, ask[r].server)
      BY <1>1, <2>1, GuardedContact DEF Asked
    <2>2. CASE UNCHANGED <<contacted, upstreamVars>>
      BY <2>2 DEF Handled, Guarded, Configured, Scope, Permits
    <2> QED BY <2>1, <2>2
  <1> QED BY <1>3, <1>4, <1>5, <1>6, <1>7, OneRequest DEF Handled

LEMMA SchemaHandled ==
    ASSUME IInv, NEW r \in Requests, ReadSchema(r) \/ SchemaFails(r)
    PROVE  IInv'
  <1>1. /\ pc[r] = "schema" /\ pc[r] \in Working \ {"walk"}
        /\ UNCHANGED <<acl, ask, todo, rows, calls>>
    BY DEF ReadSchema, SchemaFails, Working
  <1>2. /\ ask[r].op = "get_tool_schema" /\ ask[r].server \in Servers
        /\ calls[r] = 0 /\ calls \in [Requests -> Nat]
    BY <1>1, Target DEF IInv, TypeOK, Handled, Counted
  <1>3. CASE ReadSchema(r)
    <2>1. PICK inv \in SUBSET Tools :
              /\ Inventory(r, ask[r].server, inv)
              /\ Goto(r, IF ask[r].tool \in inv THEN "ok" ELSE "unknown_tool")
      BY <1>3 DEF ReadSchema
    <2>2. Asked(r, ask[r].server) /\ inv \in Provided(ask[r].server)'
      BY <1>1, <1>2, <2>1, InventoryAsked DEF IInv
    <2>3. \/ Goto(r, "ok") /\ pc'[r] = "ok"
          \/ Goto(r, "unknown_tool") /\ pc'[r] = "unknown_tool" /\ ask[r].tool \notin inv
      BY <2>1 DEF Goto, IInv, TypeOK
    <2>4. Reasoned(r)' /\ Counted(r)'
      BY <1>1, <1>2, <2>2, <2>3 DEF Reasoned, Counted, Refusals
    <2> QED BY <1>1, <1>2, <2>2, <2>3, <2>4, SingleServer DEF Answers, Refusals
  <1>4. CASE SchemaFails(r)
    <2>1. Asked(r, ask[r].server)
      BY <1>2, <1>4, FailureAsked DEF SchemaFails, IInv
    <2>2. PICK code \in Failures : Goto(r, code)
      BY <1>4 DEF SchemaFails, RegistryFails
    <2>3. pc'[r] = code
      BY <2>2 DEF Goto, IInv, TypeOK
    <2>4. Reasoned(r)' /\ Counted(r)'
      BY <1>1, <1>2, <2>3 DEF Reasoned, Counted, Refusals, Failures
    <2> QED BY <1>1, <1>2, <2>1, <2>2, <2>4, SingleServer DEF Answers, Refusals, Failures
  <1> QED BY <1>3, <1>4

LEMMA PutCallHandled ==
    ASSUME IInv, NEW r \in Requests, PutCall(r) \/ CallNotPut(r)
    PROVE  IInv'
  <1>1. /\ pc[r] = "call" /\ pc[r] \in Working \ {"walk"}
        /\ UNCHANGED <<acl, ask, todo, rows>>
    BY DEF PutCall, CallNotPut, Working
  <1>2. /\ ask[r].op = "invoke_tool" /\ ask[r].server \in Servers
        /\ calls[r] = 0 /\ calls \in [Requests -> Nat]
    BY <1>1, Target DEF IInv, TypeOK, Handled, Counted
  <1>3. CASE PutCall(r)
    <2>1. PICK inv \in SUBSET Tools :
              /\ Inventory(r, ask[r].server, inv)
              /\ \/ /\ ask[r].tool \in inv
                    /\ Goto(r, "calling")
                    /\ calls' = [calls EXCEPT ![r] = @ + 1]
                 \/ /\ ask[r].tool \notin inv
                    /\ Goto(r, "unknown_tool")
                    /\ calls' = calls
      BY <1>3 DEF PutCall
    <2>2. Asked(r, ask[r].server) /\ inv \in Provided(ask[r].server)'
      BY <1>1, <1>2, <2>1, InventoryAsked DEF IInv
    <2>3. CASE ask[r].tool \in inv
      <3>1. Goto(r, "calling") /\ pc'[r] = "calling" /\ calls'[r] = 1
        BY <1>2, <2>1, <2>3 DEF Goto, IInv, TypeOK
      <3>2. Reasoned(r)' /\ Counted(r)'
        BY <1>1, <1>2, <2>2, <2>3, <3>1 DEF Reasoned, Counted, Refusals
      <3>3. calls' \in [Requests -> Nat] /\ \A q \in Requests \ {r} : calls'[q] = calls[q]
        BY <1>2, <2>1
      <3> QED BY <1>1, <1>2, <2>2, <3>1, <3>2, <3>3, SingleServer
    <2>4. CASE ask[r].tool \notin inv
      <3>1. Goto(r, "unknown_tool") /\ pc'[r] = "unknown_tool" /\ calls' = calls
        BY <2>1, <2>4 DEF Goto, IInv, TypeOK
      <3>2. Reasoned(r)' /\ Counted(r)'
        BY <1>1, <1>2, <2>2, <2>4, <3>1 DEF Reasoned, Counted, Refusals
      <3> QED BY <1>1, <1>2, <2>2, <3>1, <3>2, SingleServer DEF Answers, Refusals
    <2> QED BY <2>3, <2>4
  <1>4. CASE CallNotPut(r)
    <2>1. Asked(r, ask[r].server) /\ calls' = calls
      BY <1>2, <1>4, FailureAsked DEF CallNotPut, IInv
    <2>2. PICK code \in Failures : Goto(r, code)
      BY <1>4 DEF CallNotPut, RegistryFails
    <2>3. pc'[r] = code
      BY <2>2 DEF Goto, IInv, TypeOK
    <2>4. Reasoned(r)' /\ Counted(r)'
      BY <1>1, <1>2, <2>1, <2>3 DEF Reasoned, Counted, Refusals, Failures
    <2> QED BY <1>1, <1>2, <2>1, <2>2, <2>4, SingleServer DEF Answers, Refusals, Failures
  <1> QED BY <1>3, <1>4

LEMMA CallEndsHandled ==
    ASSUME IInv, NEW r \in Requests, CallReturns(r) \/ Cancel(r)
    PROVE  IInv'
  <1>1. /\ pc[r] \in {"call", "calling"} /\ pc[r] \in Working \ {"walk"}
        /\ UNCHANGED <<acl, ask, todo, rows, upstreamVars, contacted, calls>>
    BY DEF CallReturns, Cancel, Working, upstreamVars
  <1>2. ask[r].op = "invoke_tool" /\ calls \in [Requests -> Nat] /\ Counted(r)
    BY <1>1, Target DEF IInv, TypeOK, Handled
  <1>3. PICK code \in {"ok", "call_cancelled"} \cup Failures :
            Goto(r, code) /\ (code = "ok" => pc[r] = "calling")
    BY DEF CallReturns, Cancel, Failures
  <1>4. pc'[r] = code
    BY <1>3 DEF Goto, IInv, TypeOK
  <1>5. Reasoned(r)' /\ Counted(r)'
    BY <1>1, <1>2, <1>3, <1>4 DEF Reasoned, Counted, Refusals, Failures, Provided,
                                  upstreamVars
  <1> QED BY <1>1, <1>2, <1>3, <1>5, SingleServer DEF Answers, Refusals, Failures

-----------------------------------------------------------------------------
(* The invariant *)

LEMMA InitIInv == Init => IInv
  <1> SUFFICES ASSUME Init PROVE IInv
    OBVIOUS
  <1>1. TypeOK
    BY InventoriesAssumption, ChangesAssumption DEF Init, TypeOK
  <1>2. ASSUME NEW r \in Requests PROVE Handled(r)
    <2>1. pc[r] = "idle" /\ rows[r] = {} /\ contacted[r] = {} /\ calls[r] = 0
      BY DEF Init
    <2> QED BY <2>1 DEF Handled, Passed, Reasoned, Counted, Walked, Guarded, Listed, Refusals
  <1> QED BY <1>1, <1>2 DEF IInv

LEMMA ChangesIInv ==
    ASSUME IInv, NEW s \in Servers, UpstreamChanges(s)
    PROVE  IInv'
  <1>1. UNCHANGED <<acl, pc, ask, todo, rows, contacted, calls>>
        /\ changes < Changes /\ changes' = changes + 1
    BY DEF UpstreamChanges
  <1>2. /\ Growing
        /\ live' \in [Servers -> SUBSET Tools]
        /\ lists' \in [Servers -> SUBSET SUBSET Tools]
        /\ open' \in [Servers -> BOOLEAN]
    BY ServiceGrows DEF UpstreamChanges, IInv
  <1>3. TypeOK'
    BY <1>1, <1>2, ChangesAssumption DEF IInv, TypeOK
  <1> QED BY <1>1, <1>2, <1>3, Frame DEF IInv

LEMMA StutterIInv == IInv /\ UNCHANGED vars => IInv'
  BY Frame, SameGrowing DEF IInv, vars, TypeOK

LEMMA Invariance == Spec => []IInv
  <1>1. IInv /\ [Next]_vars => IInv'
    <2> SUFFICES ASSUME IInv, [Next]_vars PROVE IInv'
      OBVIOUS
    <2>1. ASSUME NEW r \in Requests, Handle(r) PROVE IInv'
      BY <2>1, ConnectsHandled, ListServerHandled, ListFailsHandled, ListDoneHandled, SchemaHandled,
         PutCallHandled, CallEndsHandled DEF Handle
    <2>2. ASSUME NEW r \in Requests, Receive(r) \/ Dispatch(r) \/ Cancel(r) PROVE IInv'
      BY <2>2, ReceiveHandled, DispatchHandled, CallEndsHandled
    <2>3. ASSUME NEW s \in Servers, UpstreamChanges(s) PROVE IInv'
      BY <2>3, ChangesIInv
    <2>4. CASE UNCHANGED vars
      BY <2>4, StutterIInv
    <2> QED BY <2>1, <2>2, <2>3, <2>4 DEF Next
  <1> QED BY <1>1, InitIInv, PTL DEF Spec

(* The session's state stays well typed: in particular a listing never     *)
(* holds a server that is not configured.                                  *)
THEOREM TypeCorrect == Spec => []TypeOK
  <1>1. IInv => TypeOK
    BY DEF IInv
  <1> QED BY <1>1, Invariance, PTL

(* No server is contacted that the namespace does not allow, and none on   *)
(* behalf of a tool it does not allow, for every ACL and every request.    *)
THEOREM NoContactBeforeAcl == Spec => []AclBeforeContact
  <1>1. IInv => AclBeforeContact
    BY DEF IInv, Handled, Guarded, AclBeforeContact
  <1> QED BY <1>1, Invariance, PTL

(* A refused request had no effect, no request is called twice, and what   *)
(* is answered of a call is what happened to it.                           *)
THEOREM AnswersAreTruthful == Spec => []AnswerIsTruthful
  <1>1. IInv => AnswerIsTruthful
    BY DEF IInv, Handled, Counted, AnswerIsTruthful
  <1> QED BY <1>1, Invariance, PTL

(* A successful listing shows, of every server in its scope, exactly what  *)
(* the ACL permits of one inventory of that server.                        *)
THEOREM ListingsAreWhole == Spec => []ListingIsWhole
  <1>1. IInv => ListingIsWhole
    BY DEF IInv, Handled, Walked, Complete, Listed, ListingIsWhole
  <1> QED BY <1>1, Invariance, PTL

(* What a listing showed, no later or concurrent request is denied.        *)
THEOREM ListedToolsAreInvocable == Spec => []ListedIsInvocable
  <1>1. IInv => ListedIsInvocable
    <2> SUFFICES ASSUME IInv, NEW q \in Requests, NEW r \in Requests,
                        Listed(q), pc[r] # "idle", ask[r].op # "list_tools",
                        <<ask[r].server, ask[r].tool>> \in rows[q],
                        Verbatim(ask[r].tool)
                 PROVE  /\ pc[r] \notin {"unknown_server", "namespace_denied"}
                        /\ pc[r] = "unknown_tool" =>
                              \E inv \in Provided(ask[r].server) : ask[r].tool \notin inv
      BY DEF ListedIsInvocable
    <2> DEFINE s == ask[r].server
               t == ask[r].tool
    <2>1. /\ s \in Scope(ask[q]) /\ Complete(q, s)
          /\ s \in Servers /\ t \in Tools
      BY DEF IInv, TypeOK, Handled, Walked, Listed
    <2>2. \E u \in Tools : Shown[u] = t /\ Permits(s, u)
      <3>1. PICK inv \in Provided(s) : {v \in Tools : <<s, v>> \in rows[q]}
                     = {Shown[v] : v \in {u \in inv : Permits(s, u)}}
        BY <2>1 DEF Complete
      <3>2. t \in {Shown[v] : v \in {u \in inv : Permits(s, u)}} /\ inv \subseteq Tools
        BY <2>1, <3>1 DEF IInv, TypeOK, Provided
      <3> QED BY <3>2
    <2>3. Permits(s, t)
      BY <2>2 DEF Verbatim
    <2>4. Allowed(ask[r])
      BY <2>3 DEF Allowed
    <2> QED BY <2>1, <2>4 DEF IInv, Handled, Reasoned
  <1> QED BY <1>1, Invariance, PTL

=============================================================================
