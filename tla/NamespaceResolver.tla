--------------------------- MODULE NamespaceResolver ---------------------------
(***************************************************************************)
(* How fanin-mcp turns the namespaces of its config file into the access   *)
(* control list of a session (src/src/config.rs, src/src/namespace.rs).    *)
(*                                                                         *)
(* Namespaces extend one another.  validate resolves every one of them,    *)
(* and if all are acceptable ActiveNamespace::new resolves the selected    *)
(* one again.  A resolution is a depth-first walk along extends with a     *)
(* depth limit, a mark for the names on the stack and a memo of those      *)
(* completed; each call and each return of the walk is a step here.        *)
(*                                                                         *)
(* An ACL is a set of servers and, for each server, a filter: NoFilter for *)
(* a key that is absent (all tools), a set of tools for one that is        *)
(* present.                                                                *)
(***************************************************************************)
EXTENDS Naturals, Sequences

CONSTANTS
    Names,          \* namespace names, declared or only mentioned
    Servers,        \* server names, configured or only mentioned
    Configured,     \* the servers of the config file
    Tools,          \* tool names
    NoFilter,       \* an absent tool filter
    MaxDepth,       \* MAX_NAMESPACE_INHERITANCE_DEPTH
    Configs         \* config files considered, with the namespace selected

Filters == {NoFilter} \cup SUBSET Tools
Acls == [servers : SUBSET Servers, tools : [Servers -> Filters]]
ConfigFiles == [active : Names, declared : SUBSET Names,
                extends : [Names -> Seq(Names)], own : [Names -> Acls]]

ASSUME ConfiguredAssumption == Configured \subseteq Servers
ASSUME FilterAssumption == \A tools \in SUBSET Tools : NoFilter # tools
ASSUME DepthAssumption == MaxDepth \in Nat
ASSUME ConfigsAssumption == Configs \subseteq ConfigFiles

VARIABLES
    config,     \* the selected namespace, the declared ones, what each
                \* extends and its own ACL
    phase,      \* where validate and ActiveNamespace::new are, or how they end
    todo,       \* namespaces validate has not accepted yet
    root,       \* the namespace the current or last resolution is for
    stack,      \* the calls of resolve_namespace_inner, outermost first
    visit,      \* VisitState of each name in the current resolution
    resolved,   \* the memo of the current resolution
    acl         \* what the last finished resolution returned

vars == <<config, phase, todo, root, stack, visit, resolved, acl>>

resolution == <<root, stack, visit, resolved, acl>>

NoAcl == [servers |-> {}, tools |-> [s \in Servers |-> NoFilter]]

(* A call is resolving a name, has followed extends up to next, and has     *)
(* collected an ACL from the parents before it.                            *)
Frames == [name : Names, next : Nat \ {0}, acl : Acls]

Errors == {"unknown_namespace", "unknown_parent", "cycle", "too_deep",
           "effective_server_unknown", "tool_filter_unknown_server"}

TypeOK ==
    /\ config \in ConfigFiles
    /\ phase \in {"start", "idle", "resolving", "resolved", "ready", "panicked"}
                 \cup Errors
    /\ todo \in SUBSET config.declared
    /\ root \in Names
    /\ stack \in Seq(Frames)
    /\ visit \in [Names -> {"unseen", "visiting", "done"}]
    /\ resolved \in [Names -> Acls]
    /\ acl \in Acls

(* As if: names that are only mentioned are validated too. *)
InitMentioned ==
    /\ config \in Configs
    /\ phase = "start"
    /\ todo = Names
    /\ root = config.active
    /\ stack = <<>>
    /\ visit = [n \in Names |-> "unseen"]
    /\ resolved = [n \in Names |-> NoAcl]
    /\ acl = NoAcl

Init ==
    /\ config \in Configs
    /\ phase = "start"
    /\ todo = config.declared
    /\ root = config.active
    /\ stack = <<>>
    /\ visit = [n \in Names |-> "unseen"]
    /\ resolved = [n \in Names |-> NoAcl]
    /\ acl = NoAcl

-----------------------------------------------------------------------------
(* Helpers *)

(* As if: a filter that denies everything is dropped. *)
MeetDropsEmpty(f, g) ==
    IF f = NoFilter THEN g
    ELSE IF g = NoFilter THEN f
    ELSE IF f \cap g = {} THEN NoFilter ELSE f \cap g

(* Filters intersect; an absent one is the identity, an empty one stays.    *)
Meet(f, g) ==
    IF f = NoFilter THEN g ELSE IF g = NoFilter THEN f ELSE f \cap g

Merge(a, b) ==
    [servers |-> a.servers \cup b.servers,
     tools   |-> [s \in Servers |-> Meet(a.tools[s], b.tools[s])]]

Top == stack[Len(stack)]
Extends(n) == config.extends[n]

(* The call on top is about to resolve its next parent. *)
Calling == phase = "resolving" /\ Top.next <= Len(Extends(Top.name))
Parent == Extends(Top.name)[Top.next]

(* The call at index i of the given stack gets a result for its parent. *)
Receive(calls, i, result) ==
    [calls EXCEPT ![i] = [name |-> @.name, next |-> @.next + 1,
                          acl |-> Merge(@.acl, result)]]

(* A call that has not resolved any parent yet. *)
Entered(n) == [name |-> n, next |-> 1, acl |-> NoAcl]

(* validate returns an error; ActiveNamespace::new panics on one. *)
Fail(code) ==
    /\ phase' = IF todo = {} THEN "panicked" ELSE code
    /\ UNCHANGED <<config, todo, resolution>>

-----------------------------------------------------------------------------
(* validate, ActiveNamespace::new *)

SelectActive ==
    /\ phase = "start"
    /\ IF config.active \in config.declared THEN phase' = "idle"
                                     ELSE phase' = "unknown_namespace"
    /\ UNCHANGED <<config, todo, resolution>>

(* Every declared namespace in any order, then the selected one. *)
Resolve(n) ==
    /\ phase = "idle"
    /\ IF todo = {} THEN n = config.active ELSE n \in todo
    /\ root' = n
    /\ stack' = <<Entered(n)>>
    /\ visit' = [m \in Names |-> IF m = n THEN "visiting" ELSE "unseen"]
    /\ resolved' = [m \in Names |-> NoAcl]
    /\ phase' = "resolving"
    /\ UNCHANGED <<config, todo, acl>>

(* As if: only one namespace is validated. *)
AcceptAll ==
    /\ phase = "resolved"
    /\ todo # {}
    /\ acl.servers \subseteq Configured
    /\ \A s \in Servers \ acl.servers : acl.tools[s] = NoFilter
    /\ todo' = {}
    /\ phase' = "idle"
    /\ UNCHANGED <<config, resolution>>

(* The effective servers are configured, the effective filters visible. *)
Accept ==
    /\ phase = "resolved"
    /\ todo # {}
    /\ acl.servers \subseteq Configured
    /\ \A s \in Servers \ acl.servers : acl.tools[s] = NoFilter
    /\ todo' = todo \ {root}
    /\ phase' = "idle"
    /\ UNCHANGED <<config, resolution>>

RejectServers ==
    /\ phase = "resolved"
    /\ todo # {}
    /\ ~(acl.servers \subseteq Configured)
    /\ Fail("effective_server_unknown")

RejectFilters ==
    /\ phase = "resolved"
    /\ todo # {}
    /\ acl.servers \subseteq Configured
    /\ \E s \in Servers \ acl.servers : acl.tools[s] # NoFilter
    /\ Fail("tool_filter_unknown_server")

(* The session starts with what was resolved last. *)
Activate ==
    /\ phase = "resolved"
    /\ todo = {}
    /\ phase' = "ready"
    /\ UNCHANGED <<config, todo, resolution>>

-----------------------------------------------------------------------------
(* resolve_namespace_inner, called for Parent at depth Len(stack) *)

TooDeep ==
    /\ Calling
    /\ Len(stack) > MaxDepth
    /\ Fail("too_deep")

(* As if: a name seen before is a cycle, even off the stack. *)
CycleIfSeen ==
    /\ Calling
    /\ Len(stack) <= MaxDepth
    /\ visit[Parent] # "unseen"
    /\ Fail("cycle")

Cycle ==
    /\ Calling
    /\ Len(stack) <= MaxDepth
    /\ visit[Parent] = "visiting"
    /\ Fail("cycle")

ReuseDone ==
    /\ Calling
    /\ Len(stack) <= MaxDepth
    /\ visit[Parent] = "done"
    /\ stack' = Receive(stack, Len(stack), resolved[Parent])
    /\ UNCHANGED <<config, phase, todo, root, visit, resolved, acl>>

UnknownParent ==
    /\ Calling
    /\ Len(stack) <= MaxDepth
    /\ visit[Parent] = "unseen"
    /\ Parent \notin config.declared
    /\ Fail("unknown_parent")

(* As if: the name is not marked before its parents are resolved. *)
DescendUnmarked ==
    /\ Calling
    /\ Len(stack) <= MaxDepth
    /\ visit[Parent] = "unseen"
    /\ Parent \in config.declared
    /\ stack' = Append(stack, Entered(Parent))
    /\ UNCHANGED <<config, phase, todo, root, visit, resolved, acl>>

Descend ==
    /\ Calling
    /\ Len(stack) <= MaxDepth
    /\ visit[Parent] = "unseen"
    /\ Parent \in config.declared
    /\ stack' = Append(stack, Entered(Parent))
    /\ visit' = [visit EXCEPT ![Parent] = "visiting"]
    /\ UNCHANGED <<config, phase, todo, root, resolved, acl>>

(* All parents are merged; the name's own ACL comes last. *)
Return ==
    /\ phase = "resolving"
    /\ ~Calling
    /\ LET n == Top.name
           effective == Merge(Top.acl, config.own[n])
           callers == Len(stack) - 1
           rest == SubSeq(stack, 1, callers)
       IN /\ visit' = [visit EXCEPT ![n] = "done"]
          /\ resolved' = [resolved EXCEPT ![n] = effective]
          /\ IF callers = 0
             THEN /\ stack' = rest
                  /\ acl' = effective
                  /\ phase' = "resolved"
             ELSE /\ stack' = Receive(rest, callers, effective)
                  /\ UNCHANGED <<acl, phase>>
    /\ UNCHANGED <<config, todo, root>>

-----------------------------------------------------------------------------
(* Startup is over, one way or the other. *)
Over ==
    /\ phase \in {"ready", "panicked"} \cup Errors
    /\ UNCHANGED vars

Next ==
    \/ SelectActive
    \/ \E n \in Names : Resolve(n)
    \/ Accept \/ RejectServers \/ RejectFilters \/ Activate
    \/ TooDeep \/ Cycle \/ ReuseDone \/ UnknownParent \/ Descend \/ Return
    \/ Over

Spec == Init /\ [][Next]_vars

-----------------------------------------------------------------------------
(* Reference: what extends means, without a walk *)

Parents(n) == {Extends(n)[i] : i \in 1 .. Len(Extends(n))}

Closed(S) == \A m \in S : Parents(m) \subseteq S

(* n and everything it extends, directly or through others. *)
Lineage(n) == {m \in Names : \A S \in SUBSET Names : n \in S /\ Closed(S) => m \in S}

Permits(filter, t) == filter = NoFilter \/ t \in filter

(* The union of the servers; a tool only if every filter permits it. *)
Combine(acls) ==
    [servers |-> UNION {r.servers : r \in acls},
     tools   |-> [s \in Servers |->
                    IF \A r \in acls : r.tools[s] = NoFilter THEN NoFilter
                    ELSE {t \in Tools : \A r \in acls : Permits(r.tools[s], t)}]]

OwnAcls(names) == {config.own[m] : m \in names}
Reference(n) == Combine(OwnAcls(Lineage(n)))

Cyclic == \E n \in config.declared : \E p \in Parents(n) : n \in Lineage(p)

Unknown == \E n \in config.declared : ~(Parents(n) \subseteq config.declared)

(* What a namespace resolves to is usable: its servers are configured, and *)
(* it filters no server that it does not show.                             *)
Usable(r) == /\ r.servers \subseteq Configured
             /\ \A s \in Servers \ r.servers : r.tools[s] = NoFilter

(* Some walk along extends has more than MaxDepth links. *)
Deep == \E walk \in [1 .. MaxDepth + 2 -> Names] :
            \A i \in 1 .. MaxDepth + 1 : walk[i + 1] \in Parents(walk[i])

-----------------------------------------------------------------------------
(* Properties *)

(* However a resolution reaches a namespace, first or through the memo,    *)
(* what it computes is the union of the servers of everything the          *)
(* namespace extends and the intersection of their filters: no child or    *)
(* sibling regains a tool that any of them removed (D-023).                *)
ResolvesLineage ==
    \A n \in Names : visit[n] = "done" => resolved[n] = Reference(n)

(* The session's ACL is that of the selected namespace, and what startup   *)
(* accepts or rejects it rejects for cause: a diamond is not a cycle, a    *)
(* cycle never passes, nor does an unknown parent or server, in whichever  *)
(* namespace, and a filter is only refused for a server nothing shows.     *)
VerdictIsJust ==
    /\ phase = "ready" => /\ config.active \in config.declared
                          /\ acl = Reference(config.active)
                          /\ ~Cyclic /\ ~Unknown
                          /\ \A n \in config.declared : Usable(Reference(n))
    /\ phase = "unknown_namespace" => config.active \notin config.declared
    /\ phase = "cycle" => Cyclic
    /\ phase = "unknown_parent" => Unknown
    /\ phase = "too_deep" => Deep
    /\ phase = "effective_server_unknown" =>
           \E n \in config.declared : ~(Reference(n).servers \subseteq Configured)
    /\ phase = "tool_filter_unknown_server" =>
           \E n \in config.declared, s \in Servers :
               s \notin Reference(n).servers /\ Reference(n).tools[s] # NoFilter

(* ActiveNamespace::new never meets the error it would panic on: validate  *)
(* has resolved the selected namespace before, among all others.           *)
NeverPanics == phase # "panicked"

(* The stack of calls stays within the depth limit, is a chain of extends  *)
(* links without repetition, and consists of the names marked visiting.    *)
StackIsChain ==
    phase = "resolving" =>
        /\ Len(stack) \in 1 .. MaxDepth + 1
        /\ \A i \in 1 .. Len(stack) - 1 :
               stack[i + 1].name = Extends(stack[i].name)[stack[i].next]
        /\ \A i, j \in 1 .. Len(stack) : stack[i].name = stack[j].name => i = j
        /\ {n \in Names : visit[n] = "visiting"} = {stack[i].name : i \in 1 .. Len(stack)}
=============================================================================
