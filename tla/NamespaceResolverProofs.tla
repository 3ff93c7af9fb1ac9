------------------------ MODULE NamespaceResolverProofs ------------------------
(***************************************************************************)
(* The walk of resolve_namespace_inner computes, for every config file and *)
(* depth limit, the ACL that the extends relation defines: the union of    *)
(* the servers and the intersection of the filters of everything a         *)
(* namespace extends, whichever way the memo is met.                       *)
(***************************************************************************)
EXTENDS NamespaceResolver, TLAPS

USE FilterAssumption, DepthAssumption

-----------------------------------------------------------------------------
(* The algebra of ACLs: Merge is union of sets of ACLs under Combine. *)

LEMMA MeetType ==
    ASSUME NEW f \in Filters, NEW g \in Filters
    PROVE  Meet(f, g) \in Filters
BY DEF Meet, Filters

LEMMA MergeType ==
    ASSUME NEW a \in Acls, NEW b \in Acls
    PROVE  Merge(a, b) \in Acls
<1>1. \A s \in Servers : Meet(a.tools[s], b.tools[s]) \in Filters
  BY MeetType DEF Acls
<1> QED
  BY <1>1 DEF Merge, Acls

LEMMA CombineEmpty == Combine({}) = NoAcl
BY DEF Combine, NoAcl

LEMMA CombineOne ==
    ASSUME NEW a \in Acls
    PROVE  Combine({a}) = a
<1>1. UNION {r.servers : r \in {a}} = a.servers
  OBVIOUS
<1>2. \A s \in Servers :
         a.tools[s] = IF \A r \in {a} : r.tools[s] = NoFilter THEN NoFilter
                      ELSE {t \in Tools : \A r \in {a} : Permits(r.tools[s], t)}
  <2> SUFFICES ASSUME NEW s \in Servers, a.tools[s] # NoFilter
               PROVE  a.tools[s] = {t \in Tools : Permits(a.tools[s], t)}
    OBVIOUS
  <2>1. a.tools[s] \in SUBSET Tools
    BY DEF Acls, Filters
  <2> QED
    BY <2>1 DEF Permits
<1>3. a.tools = Combine({a}).tools
  BY <1>2 DEF Combine, Acls
<1> QED
  BY <1>1, <1>3 DEF Combine, Acls

LEMMA CombineUnion ==
    ASSUME NEW A \in SUBSET Acls, NEW B \in SUBSET Acls
    PROVE  Merge(Combine(A), Combine(B)) = Combine(A \cup B)
<1>1. Combine(A).servers \cup Combine(B).servers = Combine(A \cup B).servers
  BY DEF Combine
<1>2. ASSUME NEW s \in Servers
      PROVE  Meet(Combine(A).tools[s], Combine(B).tools[s]) = Combine(A \cup B).tools[s]
  <2> DEFINE Absent(S) == \A r \in S : r.tools[s] = NoFilter
             Allowed(S) == {t \in Tools : \A r \in S : Permits(r.tools[s], t)}
  <2>1. \A S \in {A, B, A \cup B} :
           Combine(S).tools[s] = IF Absent(S) THEN NoFilter ELSE Allowed(S)
    BY DEF Combine
  <2>2. \A S \in {A, B} : Absent(S) => Allowed(S) = Tools
    BY DEF Permits
  <2>3. Allowed(A) \cap Allowed(B) = Allowed(A \cup B)
    OBVIOUS
  <2>4. \A S \in {A, B} : Allowed(S) # NoFilter /\ Allowed(S) \subseteq Tools
    OBVIOUS
  <2>5. Absent(A \cup B) <=> Absent(A) /\ Absent(B)
    OBVIOUS
  <2> HIDE DEF Absent, Allowed
  <2>6. CASE Absent(A) /\ Absent(B)
    BY <2>1, <2>5, <2>6 DEF Meet
  <2>7. CASE Absent(A) /\ ~Absent(B)
    <3>1. Allowed(A \cup B) = Allowed(B)
      BY <2>2, <2>3, <2>4, <2>7
    <3> QED
      BY <2>1, <2>5, <2>7, <3>1 DEF Meet
  <2>8. CASE ~Absent(A) /\ Absent(B)
    <3>1. Allowed(A \cup B) = Allowed(A)
      BY <2>2, <2>3, <2>4, <2>8
    <3> QED
      BY <2>1, <2>4, <2>5, <2>8, <3>1 DEF Meet
  <2>9. CASE ~Absent(A) /\ ~Absent(B)
    BY <2>1, <2>3, <2>4, <2>5, <2>9 DEF Meet
  <2> QED
    BY <2>6, <2>7, <2>8, <2>9
<1>3. Combine(A \cup B).tools
        = [s \in Servers |-> Meet(Combine(A).tools[s], Combine(B).tools[s])]
  BY <1>2 DEF Combine
<1> QED
  BY <1>1, <1>3 DEF Merge, Combine

-----------------------------------------------------------------------------
(* Lineages *)

LEMMA LineageStep ==
    ASSUME TypeOK, NEW n \in Names
    PROVE  Lineage(n) = {n} \cup UNION {Lineage(p) : p \in Parents(n)}
<1> DEFINE Below == {n} \cup UNION {Lineage(p) : p \in Parents(n)}
<1>1. \A m \in Names : Parents(m) \subseteq Names
  BY DEF TypeOK, ConfigFiles, Parents, Extends
<1>2. Below \subseteq Lineage(n)
  <2>1. n \in Lineage(n)
    BY DEF Lineage
  <2>2. ASSUME NEW p \in Parents(n), NEW m \in Lineage(p)
        PROVE  m \in Lineage(n)
    BY <1>1, <2>2 DEF Lineage, Closed
  <2> QED
    BY <2>1, <2>2
<1>3. Below \subseteq Names
  BY DEF Lineage
<1>4. Closed(Below)
  <2> SUFFICES ASSUME NEW m \in Below, NEW q \in Parents(m)
               PROVE  q \in Below
    BY DEF Closed
  <2>1. q \in Lineage(q)
    BY <1>1, <1>3 DEF Lineage
  <2>2. CASE m = n
    BY <2>1, <2>2
  <2>3. ASSUME NEW p \in Parents(n), m \in Lineage(p)
        PROVE  q \in Below
    <3>1. q \in Lineage(p)
      BY <1>1, <1>3, <2>3 DEF Lineage, Closed
    <3> QED
      BY <3>1
  <2> QED
    BY <2>2, <2>3
<1>5. Lineage(n) \subseteq Below
  BY <1>3, <1>4 DEF Lineage
<1> QED
  BY <1>2, <1>5

(* The lineages of the parents before position k of n's extends list. *)
Before(n, k) == UNION {Lineage(Extends(n)[j]) : j \in 1 .. (k - 1)}

LEMMA BeforeSteps ==
    ASSUME TypeOK, NEW n \in Names
    PROVE  /\ Before(n, 1) = {}
           /\ \A k \in 1 .. Len(Extends(n)) :
                 Before(n, k + 1) = Before(n, k) \cup Lineage(Extends(n)[k])
           /\ \A k \in 1 .. Len(Extends(n)) + 1 : Before(n, k) \subseteq Names
           /\ Before(n, Len(Extends(n)) + 1) \cup {n} = Lineage(n)
<1>1. Extends(n) \in Seq(Names)
  BY DEF TypeOK, ConfigFiles, Extends
<1>2. Before(n, 1) = {}
  BY DEF Before
<1>3. ASSUME NEW k \in 1 .. Len(Extends(n))
      PROVE  Before(n, k + 1) = Before(n, k) \cup Lineage(Extends(n)[k])
  <2>1. 1 .. ((k + 1) - 1) = (1 .. (k - 1)) \cup {k}
    BY <1>1
  <2> QED
    BY <2>1 DEF Before
<1>4. \A m : Lineage(m) \subseteq Names
  BY DEF Lineage
<1>5. \A k \in 1 .. Len(Extends(n)) + 1 : Before(n, k) \subseteq Names
  BY <1>4 DEF Before
<1>6. Before(n, Len(Extends(n)) + 1) \cup {n} = Lineage(n)
  <2>1. 1 .. ((Len(Extends(n)) + 1) - 1) = 1 .. Len(Extends(n))
    BY <1>1
  <2>2. Before(n, Len(Extends(n)) + 1) = UNION {Lineage(q) : q \in Parents(n)}
    BY <2>1 DEF Before, Parents
  <2> QED
    BY <2>2, LineageStep
<1> QED
  BY <1>2, <1>3, <1>5, <1>6

LEMMA OwnAclsType ==
    ASSUME TypeOK, NEW S \in SUBSET Names
    PROVE  OwnAcls(S) \in SUBSET Acls
BY DEF TypeOK, ConfigFiles, OwnAcls

LEMMA OwnAclsUnion ==
    ASSUME NEW S, NEW T
    PROVE  OwnAcls(S \cup T) = OwnAcls(S) \cup OwnAcls(T)
BY DEF OwnAcls

-----------------------------------------------------------------------------
(* The inductive invariant: the stack is a chain of calls, each call has    *)
(* collected exactly the lineages of the parents before the one it is      *)
(* about to resolve or waits for, and the memo holds references.           *)

FramesInRange ==
    phase = "resolving" =>
        \A i \in 1 .. Len(stack) :
            /\ stack[i].next <= Len(Extends(stack[i].name)) + 1
            /\ i < Len(stack) => stack[i].next <= Len(Extends(stack[i].name))

Collected ==
    phase = "resolving" =>
        \A i \in 1 .. Len(stack) :
            stack[i].acl = Combine(OwnAcls(Before(stack[i].name, stack[i].next)))

IInv == TypeOK /\ StackIsChain /\ FramesInRange /\ Collected /\ ResolvesLineage

(* What a config file means does not change while it is resolved. *)
LEMMA MeaningIsConstant ==
    ASSUME config' = config
    PROVE  /\ \A n : Extends(n)' = Extends(n)
           /\ \A n : Reference(n)' = Reference(n)
           /\ \A n, k : Combine(OwnAcls(Before(n, k)))' = Combine(OwnAcls(Before(n, k)))
<1>1. \A n : Extends(n)' = Extends(n)
  BY DEF Extends
<1>2. \A n : Lineage(n)' = Lineage(n)
  BY <1>1 DEF Lineage, Closed, Parents
<1>3. \A S : Combine(OwnAcls(S))' = Combine(OwnAcls(S))
  BY DEF Combine, OwnAcls
<1>4. \A n : Reference(n)' = Reference(n)
  BY <1>2 DEF Reference, Combine, OwnAcls
<1>5. \A n, k : Before(n, k)' = Before(n, k)
  BY <1>1, <1>2 DEF Before
<1> QED
  BY <1>1, <1>4, <1>5 DEF Combine, OwnAcls

LEMMA TopType ==
    ASSUME TypeOK, StackIsChain, phase = "resolving"
    PROVE  /\ Len(stack) \in Nat \ {0}
           /\ Len(stack) \in 1 .. Len(stack)
           /\ Top \in Frames
           /\ Top = stack[Len(stack)]
           /\ Extends(Top.name) \in Seq(Names)
           /\ Calling => /\ Top.next \in 1 .. Len(Extends(Top.name))
                         /\ Parent \in Names
<1>1. Len(stack) \in Nat \ {0} /\ Len(stack) \in 1 .. Len(stack)
  BY DEF TypeOK, StackIsChain
<1>2. Top \in Frames
  BY <1>1 DEF Top, TypeOK
<1>3. Extends(Top.name) \in Seq(Names)
  BY <1>2 DEF Frames, TypeOK, ConfigFiles, Extends
<1>4. Calling => /\ Top.next \in 1 .. Len(Extends(Top.name))
                 /\ Parent \in Names
  BY <1>2, <1>3 DEF Calling, Frames, Parent
<1> QED
  BY <1>1, <1>2, <1>3, <1>4 DEF Top

LEMMA EnteredType ==
    ASSUME NEW n \in Names
    PROVE  Entered(n) \in Frames
BY DEF Entered, Frames, Acls, NoAcl, Filters

LEMMA ReceiveShape ==
    ASSUME NEW calls \in Seq(Frames), NEW i \in 1 .. Len(calls), NEW result \in Acls
    PROVE  /\ Receive(calls, i, result) \in Seq(Frames)
           /\ Len(Receive(calls, i, result)) = Len(calls)
           /\ \A j \in 1 .. Len(calls) :
                 j # i => Receive(calls, i, result)[j] = calls[j]
           /\ Receive(calls, i, result)[i]
                 = [name |-> calls[i].name, next |-> calls[i].next + 1,
                    acl |-> Merge(calls[i].acl, result)]
<1> DEFINE f == [name |-> calls[i].name, next |-> calls[i].next + 1,
                 acl |-> Merge(calls[i].acl, result)]
<1>1. calls[i] \in Frames
  OBVIOUS
<1>2. f \in Frames
  BY <1>1, MergeType DEF Frames
<1>3. Receive(calls, i, result) = [calls EXCEPT ![i] = f]
  BY DEF Receive
<1> QED
  BY <1>2, <1>3

LEMMA CombineType ==
    ASSUME NEW A \in SUBSET Acls
    PROVE  Combine(A) \in Acls
<1>1. UNION {r.servers : r \in A} \in SUBSET Servers
  BY DEF Acls
<1>2. \A s \in Servers : Combine(A).tools[s] \in Filters
  BY DEF Combine, Filters
<1> QED
  BY <1>1, <1>2 DEF Combine, Acls

(* A call that has merged all parents and its own ACL returns a reference. *)
LEMMA EffectiveIsReference ==
    ASSUME IInv, phase = "resolving", ~Calling
    PROVE  /\ Merge(Top.acl, config.own[Top.name]) = Reference(Top.name)
           /\ Reference(Top.name) \in Acls
<1> DEFINE n == Top.name
           S == Before(n, Len(Extends(n)) + 1)
<1>1. n \in Names /\ Top.next \in Nat /\ Extends(n) \in Seq(Names)
  BY TopType DEF IInv, Frames
<1>2. Top.next = Len(Extends(n)) + 1
  <2>1. Top.next <= Len(Extends(n)) + 1
    BY TopType DEF IInv, FramesInRange
  <2>2. ~(Top.next <= Len(Extends(n)))
    BY DEF Calling
  <2>3. Len(Extends(n)) \in Nat
    BY <1>1
  <2> QED
    BY <1>1, <2>1, <2>2, <2>3
<1>3. Top.acl = Combine(OwnAcls(S))
  BY <1>2, TopType DEF IInv, Collected
<1>4. S \in SUBSET Names /\ S \cup {n} = Lineage(n)
  <2>1. Len(Extends(n)) + 1 \in 1 .. Len(Extends(n)) + 1
    BY <1>1
  <2> QED
    BY <1>1, <2>1, BeforeSteps DEF IInv
<1>5. config.own[n] \in Acls
  BY <1>1 DEF IInv, TypeOK, ConfigFiles
<1>6. OwnAcls({n}) = {config.own[n]}
  BY DEF OwnAcls
<1>7. /\ OwnAcls(S) \in SUBSET Acls
      /\ OwnAcls({n}) \in SUBSET Acls
      /\ OwnAcls(S) \cup OwnAcls({n}) = OwnAcls(Lineage(n))
  BY <1>4, <1>5, <1>6, OwnAclsType, OwnAclsUnion DEF IInv
<1>8. Merge(Combine(OwnAcls(S)), Combine(OwnAcls({n}))) = Reference(n)
  BY <1>7, CombineUnion DEF Reference
<1>9. Combine(OwnAcls({n})) = config.own[n]
  BY <1>5, <1>6, CombineOne
<1>10. OwnAcls(Lineage(n)) \in SUBSET Acls
  BY <1>7
<1>11. Reference(n) \in Acls
  BY <1>10, CombineType DEF Reference
<1> HIDE DEF S
<1> QED
  BY <1>3, <1>8, <1>9, <1>11

(* The effect of Return on n, the name on top, and on the calls below it. *)
Returned(n, callers) ==
    /\ n \in Names
    /\ n = stack[callers + 1].name
    /\ visit' = [visit EXCEPT ![n] = "done"]
    /\ resolved' = [resolved EXCEPT ![n] = Reference(n)]
    /\ Reference(n) \in Acls
    /\ callers = 0 => phase' = "resolved" /\ stack' \in Seq(Frames) /\ acl' \in Acls
    /\ callers # 0 =>
         /\ callers \in Nat \ {0}
         /\ phase' = "resolving"
         /\ stack' \in Seq(Frames)
         /\ Len(stack') = callers
         /\ \A i \in 1 .. callers : i # callers => stack'[i] = stack[i]
         /\ stack'[callers] = [name |-> stack[callers].name,
                               next |-> stack[callers].next + 1,
                               acl  |-> Merge(stack[callers].acl, Reference(n))]
         /\ n = Extends(stack[callers].name)[stack[callers].next]
         /\ stack[callers] \in Frames
         /\ acl' = acl

LEMMA ReturnShape ==
    ASSUME IInv, Return
    PROVE  Returned(Top.name, Len(stack) - 1)
<1> SUFFICES ASSUME NEW n, n = Top.name, NEW callers, callers = Len(stack) - 1
             PROVE  Returned(n, callers)
  OBVIOUS
<1> DEFINE rest == SubSeq(stack, 1, callers)
<1>1. phase = "resolving" /\ ~Calling
  BY DEF Return
<1>2. /\ n \in Names /\ Len(stack) \in Nat \ {0} /\ Top = stack[Len(stack)]
      /\ callers \in Nat /\ stack \in Seq(Frames)
  BY <1>1, TopType DEF IInv, Frames, TypeOK
<1>n. n = stack[callers + 1].name
  BY <1>2
<1>3. Merge(Top.acl, config.own[n]) = Reference(n) /\ Reference(n) \in Acls
  BY <1>1, EffectiveIsReference
<1>4. /\ visit' = [visit EXCEPT ![n] = "done"]
      /\ resolved' = [resolved EXCEPT ![n] = Reference(n)]
  BY <1>3 DEF Return
<1>5. /\ rest \in Seq(Frames)
      /\ Len(rest) = callers
      /\ \A i \in 1 .. callers : rest[i] = stack[i]
  BY <1>2
<1>6. CASE callers = 0
  <2>1. stack' = rest /\ acl' = Reference(n) /\ phase' = "resolved"
    BY <1>3, <1>6 DEF Return
  <2> QED
    <3> HIDE DEF rest
    <3> QED
      BY <1>2, <1>3, <1>4, <1>5, <1>6, <1>n, <2>1, Zenon DEF Returned
<1>7. CASE callers # 0
  <2>1. stack' = Receive(rest, callers, Reference(n)) /\ acl' = acl /\ phase' = "resolving"
    BY <1>1, <1>3, <1>7 DEF Return
  <2>2. callers \in 1 .. Len(rest)
    BY <1>2, <1>5, <1>7
  <2>3. /\ stack' \in Seq(Frames)
        /\ Len(stack') = callers
        /\ \A i \in 1 .. callers : i # callers => stack'[i] = stack[i]
        /\ stack'[callers] = [name |-> stack[callers].name,
                              next |-> stack[callers].next + 1,
                              acl  |-> Merge(stack[callers].acl, Reference(n))]
    <3> HIDE DEF rest
    <3>1. Len(rest) = callers /\ callers \in 1 .. callers
      BY <1>5, <2>2
    <3>2. rest[callers] = stack[callers]
      BY <1>5, <3>1
    <3>3. \A i \in 1 .. callers : i # callers => stack'[i] = rest[i]
      <4>1. \A i \in 1 .. Len(rest) :
               i # callers => Receive(rest, callers, Reference(n))[i] = rest[i]
        BY <1>3, <1>5, <2>2, ReceiveShape
      <4> QED
        BY <2>1, <3>1, <4>1
    <3>4. /\ stack' \in Seq(Frames)
          /\ Len(stack') = callers
          /\ stack'[callers] = [name |-> rest[callers].name,
                                next |-> rest[callers].next + 1,
                                acl  |-> Merge(rest[callers].acl, Reference(n))]
      BY <1>3, <1>5, <2>1, <2>2, ReceiveShape
    <3> QED
      BY <1>5, <3>2, <3>3, <3>4
  <2>4. n = Extends(stack[callers].name)[stack[callers].next]
    <3>1. callers \in 1 .. Len(stack) - 1 /\ stack[callers + 1].name = n
      BY <1>2, <1>7, <1>n
    <3> QED
      BY <1>1, <3>1 DEF IInv, StackIsChain
  <2>5. stack[callers] \in Frames
    BY <1>2, <1>7
  <2>6. callers \in Nat \ {0}
    BY <1>2, <1>7
  <2> HIDE DEF rest
  <2> QED
    BY <1>2, <1>3, <1>4, <1>7, <1>n, <2>1, <2>3, <2>4, <2>5, <2>6, Zenon DEF Returned
<1> QED
  BY <1>6, <1>7

-----------------------------------------------------------------------------
(* Every step preserves the invariant. *)

LEMMA InitInvariant == Init => IInv
<1> SUFFICES ASSUME Init
             PROVE  IInv
  OBVIOUS
<1>1. config \in ConfigFiles
  BY ConfigsAssumption DEF Init
<1>2. NoAcl \in Acls
  BY DEF NoAcl, Acls, Filters
<1>3. config.active \in Names
  BY <1>1 DEF ConfigFiles
<1>4. TypeOK
  BY <1>1, <1>2, <1>3 DEF Init, TypeOK
<1>5. StackIsChain /\ FramesInRange /\ Collected /\ ResolvesLineage
  BY DEF Init, StackIsChain, FramesInRange, Collected, ResolvesLineage
<1> QED
  BY <1>4, <1>5 DEF IInv

(* The steps of validate and ActiveNamespace::new, and every error, leave   *)
(* the resolution as it is and the walk behind.                            *)
LEMMA OutsideWalk ==
    ASSUME IInv,
           \/ SelectActive \/ Accept \/ RejectServers \/ RejectFilters \/ Activate
           \/ TooDeep \/ Cycle \/ UnknownParent \/ Over \/ UNCHANGED vars
    PROVE  IInv'
<1>1. /\ UNCHANGED <<config, resolution>>
      /\ phase' = "resolving" => phase = "resolving"
      /\ phase' \in {"start", "idle", "resolving", "resolved", "ready", "panicked"}
                    \cup Errors
      /\ todo' \in SUBSET todo
  BY DEF IInv, TypeOK, SelectActive, Accept, RejectServers, RejectFilters, Activate,
         TooDeep, Cycle, UnknownParent, Over, Fail, Errors, vars, resolution
<1>2. TypeOK'
  BY <1>1 DEF IInv, TypeOK, resolution
<1> HIDE DEF TypeOK
<1>3. /\ \A n : Extends(n)' = Extends(n)
      /\ \A n : Reference(n)' = Reference(n)
      /\ \A n, k : Combine(OwnAcls(Before(n, k)))' = Combine(OwnAcls(Before(n, k)))
  BY <1>1, MeaningIsConstant
<1>4. StackIsChain' /\ FramesInRange'
  BY <1>1, <1>3 DEF IInv, StackIsChain, FramesInRange, resolution
<1>5. Collected' /\ ResolvesLineage'
  BY <1>1, <1>3 DEF IInv, Collected, ResolvesLineage, resolution
<1> QED
  BY <1>2, <1>4, <1>5 DEF IInv

LEMMA ResolveStep ==
    ASSUME IInv, NEW n \in Names, Resolve(n)
    PROVE  IInv'
<1>1. /\ config' = config /\ phase' = "resolving" /\ todo' = todo /\ root' = n
      /\ acl' = acl
      /\ stack' = <<Entered(n)>>
      /\ visit' = [m \in Names |-> IF m = n THEN "visiting" ELSE "unseen"]
      /\ resolved' = [m \in Names |-> NoAcl]
  BY DEF Resolve
<1>2. /\ \A m : Extends(m)' = Extends(m)
      /\ \A m, k : Combine(OwnAcls(Before(m, k)))' = Combine(OwnAcls(Before(m, k)))
  BY <1>1, MeaningIsConstant
<1>3. /\ Len(stack') = 1 /\ stack'[1] = Entered(n) /\ stack' \in Seq(Frames)
      /\ \A i \in 1 .. Len(stack') : i = 1
  BY <1>1, EnteredType
<1>4. NoAcl \in Acls
  BY DEF NoAcl, Acls, Filters
<1>5. TypeOK'
  BY <1>1, <1>3, <1>4 DEF IInv, TypeOK
<1>6. StackIsChain'
  <2>1. {m \in Names : visit'[m] = "visiting"} = {stack'[i].name : i \in 1 .. Len(stack')}
    BY <1>1, <1>3 DEF Entered
  <2> QED
    BY <1>3, <2>1 DEF StackIsChain
<1>7. FramesInRange'
  <2>1. Extends(n) \in Seq(Names)
    BY DEF IInv, TypeOK, ConfigFiles, Extends
  <2> QED
    BY <1>2, <1>3, <2>1 DEF FramesInRange, Entered
<1>8. Collected'
  <2>1. Combine(OwnAcls(Before(n, 1))) = NoAcl
    <3>1. OwnAcls({}) = {}
      BY DEF OwnAcls
    <3> QED
      BY <3>1, BeforeSteps, CombineEmpty DEF IInv
  <2> QED
    BY <1>2, <1>3, <2>1 DEF Collected, Entered
<1>9. ResolvesLineage'
  BY <1>1 DEF ResolvesLineage
<1> QED
  BY <1>5, <1>6, <1>7, <1>8, <1>9 DEF IInv

(* Merging the reference of the next parent collects one lineage more. *)
LEMMA CollectNext ==
    ASSUME TypeOK, NEW n \in Names, NEW k \in 1 .. Len(Extends(n))
    PROVE  Merge(Combine(OwnAcls(Before(n, k))), Reference(Extends(n)[k]))
             = Combine(OwnAcls(Before(n, k + 1)))
<1> DEFINE S == Before(n, k)
           T == Lineage(Extends(n)[k])
<1>1. Extends(n) \in Seq(Names)
  BY DEF TypeOK, ConfigFiles, Extends
<1>2. S \in SUBSET Names /\ Before(n, k + 1) = S \cup T
  <2>1. k \in 1 .. Len(Extends(n)) + 1
    BY <1>1
  <2> QED
    BY <2>1, BeforeSteps
<1>3. T \in SUBSET Names
  BY DEF Lineage
<1>4. /\ OwnAcls(S) \in SUBSET Acls
      /\ OwnAcls(T) \in SUBSET Acls
      /\ OwnAcls(S \cup T) = OwnAcls(S) \cup OwnAcls(T)
  BY <1>2, <1>3, OwnAclsType, OwnAclsUnion
<1>5. Reference(Extends(n)[k]) = Combine(OwnAcls(T))
  BY DEF Reference
<1> HIDE DEF S, T
<1>6. Merge(Combine(OwnAcls(S)), Combine(OwnAcls(T))) = Combine(OwnAcls(S \cup T))
  BY <1>4, CombineUnion
<1> QED
  BY <1>2, <1>5, <1>6 DEF S

LEMMA ReuseStep ==
    ASSUME IInv, ReuseDone
    PROVE  IInv'
<1> DEFINE d == Len(stack)
           k == Top.next
<1>1. /\ phase = "resolving" /\ Calling /\ visit[Parent] = "done"
      /\ stack' = Receive(stack, d, resolved[Parent])
      /\ UNCHANGED <<config, phase, todo, root, visit, resolved, acl>>
  BY DEF ReuseDone, Calling
<1>2. /\ d \in Nat \ {0} /\ d \in 1 .. d /\ Top \in Frames /\ Top = stack[d]
      /\ k \in 1 .. Len(Extends(Top.name)) /\ Parent \in Names
      /\ Extends(Top.name) \in Seq(Names)
  BY <1>1, TopType DEF IInv
<1>3. resolved[Parent] = Reference(Parent) /\ resolved[Parent] \in Acls
  BY <1>1, <1>2 DEF IInv, ResolvesLineage, TypeOK
<1>4. stack \in Seq(Frames)
  BY DEF IInv, TypeOK
<1>5. /\ stack' \in Seq(Frames)
      /\ Len(stack') = d
      /\ stack'[d] = [name |-> stack[d].name, next |-> stack[d].next + 1,
                      acl |-> Merge(stack[d].acl, Reference(Parent))]
  BY <1>1, <1>2, <1>3, <1>4, ReceiveShape
<1>6. \A i \in 1 .. d : i # d => stack'[i] = stack[i]
  <2>1. \A i \in 1 .. d : i # d => Receive(stack, d, resolved[Parent])[i] = stack[i]
    BY <1>2, <1>3, <1>4, ReceiveShape
  <2> QED
    BY <1>1, <2>1
<1>7. /\ \A n : Extends(n)' = Extends(n)
      /\ \A n : Reference(n)' = Reference(n)
      /\ \A n, m : Combine(OwnAcls(Before(n, m)))' = Combine(OwnAcls(Before(n, m)))
  BY <1>1, MeaningIsConstant
<1>8. TypeOK'
  BY <1>1, <1>5 DEF IInv, TypeOK
<1>9. \A i \in 1 .. d : /\ stack'[i].name = stack[i].name
                        /\ i # d => stack'[i].next = stack[i].next
  BY <1>5, <1>6
<1> HIDE DEF d
<1>10. StackIsChain'
  <2>1. /\ d \in 1 .. MaxDepth + 1
        /\ \A i \in 1 .. d - 1 :
               stack[i + 1].name = Extends(stack[i].name)[stack[i].next]
        /\ \A i, j \in 1 .. d : stack[i].name = stack[j].name => i = j
        /\ {n \in Names : visit[n] = "visiting"} = {stack[i].name : i \in 1 .. d}
    BY <1>1 DEF IInv, StackIsChain, d
  <2>2. \A i \in 1 .. d - 1 : i \in 1 .. d /\ i # d /\ i + 1 \in 1 .. d
    BY <1>2
  <2>3. \A i \in 1 .. d - 1 :
           stack'[i + 1].name = Extends(stack'[i].name)[stack'[i].next]
    BY <1>9, <2>1, <2>2
  <2>4. {stack'[i].name : i \in 1 .. d} = {stack[i].name : i \in 1 .. d}
    BY <1>9
  <2> QED
    BY <1>1, <1>5, <1>7, <1>9, <2>1, <2>3, <2>4 DEF StackIsChain
<1>11. FramesInRange'
  <2>1. \A i \in 1 .. d :
           /\ stack[i].next <= Len(Extends(stack[i].name)) + 1
           /\ i < d => stack[i].next <= Len(Extends(stack[i].name))
    BY <1>1 DEF IInv, FramesInRange, d
  <2>2. stack'[d].next <= Len(Extends(stack'[d].name)) + 1
    BY <1>2, <1>5
  <2>3. \A i \in 1 .. d :
           /\ stack'[i].next <= Len(Extends(stack'[i].name)) + 1
           /\ i < d => stack'[i].next <= Len(Extends(stack'[i].name))
    <3> TAKE i \in 1 .. d
    <3>1. CASE i = d
      BY <1>2, <2>2, <3>1
    <3>2. CASE i # d
      BY <1>6, <2>1, <3>2
    <3> QED
      BY <3>1, <3>2
  <2> QED
    BY <1>5, <1>7, <2>3 DEF FramesInRange
<1>12. Collected'
  <2>1. \A i \in 1 .. d :
           stack[i].acl = Combine(OwnAcls(Before(stack[i].name, stack[i].next)))
    BY <1>1 DEF IInv, Collected, d
  <2>2. stack'[d].acl = Combine(OwnAcls(Before(stack'[d].name, stack'[d].next)))
    <3>1. Parent = Extends(Top.name)[k] /\ Top.name \in Names
      BY <1>2 DEF Parent, Frames
    <3>2. Merge(Combine(OwnAcls(Before(Top.name, k))), Reference(Parent))
            = Combine(OwnAcls(Before(Top.name, k + 1)))
      BY <1>2, <3>1, CollectNext DEF IInv
    <3> QED
      BY <1>2, <1>5, <2>1, <3>2
  <2>3. \A i \in 1 .. d :
           stack'[i].acl = Combine(OwnAcls(Before(stack'[i].name, stack'[i].next)))
    BY <1>6, <2>1, <2>2
  <2> QED
    BY <1>5, <1>7, <2>3 DEF Collected
<1>13. ResolvesLineage'
  BY <1>1, <1>7 DEF IInv, ResolvesLineage
<1> QED
  BY <1>8, <1>10, <1>11, <1>12, <1>13 DEF IInv

LEMMA DescendStep ==
    ASSUME IInv, Descend
    PROVE  IInv'
<1> DEFINE d == Len(stack)
           q == Parent
<1>1. /\ phase = "resolving" /\ Calling /\ visit[q] = "unseen" /\ d <= MaxDepth
      /\ stack' = Append(stack, Entered(q))
      /\ visit' = [visit EXCEPT ![q] = "visiting"]
      /\ UNCHANGED <<config, phase, todo, root, resolved, acl>>
  BY DEF Descend, Calling
<1>2. /\ d \in Nat \ {0} /\ d \in 1 .. d /\ Top \in Frames /\ Top = stack[d]
      /\ Top.next \in 1 .. Len(Extends(Top.name)) /\ q \in Names
  BY <1>1, TopType DEF IInv
<1>3. stack \in Seq(Frames) /\ Entered(q) \in Frames
  BY <1>2, EnteredType DEF IInv, TypeOK
<1> HIDE DEF q
<1>4. /\ stack' \in Seq(Frames)
      /\ Len(stack') = d + 1
      /\ stack'[d + 1] = Entered(q)
      /\ \A i \in 1 .. d : stack'[i] = stack[i]
  BY <1>1, <1>3
<1>5. /\ \A n : Extends(n)' = Extends(n)
      /\ \A n : Reference(n)' = Reference(n)
      /\ \A n, m : Combine(OwnAcls(Before(n, m)))' = Combine(OwnAcls(Before(n, m)))
  BY <1>1, MeaningIsConstant
<1>6. TypeOK'
  BY <1>1, <1>4 DEF IInv, TypeOK
<1> HIDE DEF d
<1>7. \A i \in 1 .. d + 1 : i \in 1 .. d \/ i = d + 1
  BY <1>2
<1>8. StackIsChain'
  <2>1. /\ d \in 1 .. MaxDepth + 1
        /\ \A i \in 1 .. d - 1 :
               stack[i + 1].name = Extends(stack[i].name)[stack[i].next]
        /\ \A i, j \in 1 .. d : stack[i].name = stack[j].name => i = j
        /\ {n \in Names : visit[n] = "visiting"} = {stack[i].name : i \in 1 .. d}
    BY <1>1 DEF IInv, StackIsChain, d
  <2>2. d + 1 \in 1 .. MaxDepth + 1
    BY <1>1, <1>2
  <2>3. \A i \in 1 .. d : stack[i].name # q
    <3>1. q \notin {n \in Names : visit[n] = "visiting"}
      BY <1>1
    <3> QED
      BY <2>1, <3>1
  <2>4. \A i, j \in 1 .. d + 1 : stack'[i].name = stack'[j].name => i = j
    BY <1>4, <1>7, <2>1, <2>3 DEF Entered
  <2>5. \A i \in 1 .. d : stack'[i + 1].name = Extends(stack'[i].name)[stack'[i].next]
    <3> TAKE i \in 1 .. d
    <3>1. CASE i = d
      BY <1>2, <1>4, <3>1 DEF Parent, Entered, q
    <3>2. CASE i # d
      <4>1. i \in 1 .. d - 1 /\ i + 1 \in 1 .. d
        BY <1>2, <3>2
      <4> QED
        BY <1>4, <2>1, <4>1
    <3> QED
      BY <3>1, <3>2
  <2>6. {n \in Names : visit'[n] = "visiting"} = {stack'[i].name : i \in 1 .. d + 1}
    <3>1. {n \in Names : visit'[n] = "visiting"}
            = {n \in Names : visit[n] = "visiting"} \cup {q}
      BY <1>1, <1>2 DEF IInv, TypeOK
    <3>2. {stack'[i].name : i \in 1 .. d + 1} = {stack[i].name : i \in 1 .. d} \cup {q}
      <4>1. 1 .. d + 1 = (1 .. d) \cup {d + 1}
        BY <1>2
      <4>2. stack'[d + 1].name = q
        BY <1>4 DEF Entered
      <4>3. {stack'[i].name : i \in 1 .. d} = {stack[i].name : i \in 1 .. d}
        BY <1>4
      <4> QED
        BY <4>1, <4>2, <4>3
    <3> QED
      BY <2>1, <3>1, <3>2
  <2>7. 1 .. Len(stack') = 1 .. d + 1 /\ 1 .. Len(stack') - 1 = 1 .. d
    BY <1>2, <1>4
  <2> QED
    BY <1>4, <1>5, <2>2, <2>4, <2>5, <2>6, <2>7 DEF StackIsChain
<1>9. FramesInRange'
  <2>1. Extends(q) \in Seq(Names)
    BY <1>2 DEF IInv, TypeOK, ConfigFiles, Extends
  <2>2. stack'[d + 1].next <= Len(Extends(stack'[d + 1].name)) + 1
    BY <1>4, <2>1 DEF Entered
  <2>3. \A i \in 1 .. d : stack[i].next <= Len(Extends(stack[i].name)) + 1
                         /\ (i < d => stack[i].next <= Len(Extends(stack[i].name)))
    BY <1>1 DEF IInv, FramesInRange, d
  <2>4. stack[d].next <= Len(Extends(stack[d].name))
    BY <1>2
  <2>5. ASSUME NEW i \in 1 .. d
        PROVE  stack[i].next <= Len(Extends(stack[i].name))
    <3>1. i = d \/ i < d
      BY <1>2
    <3> QED
      BY <2>3, <2>4, <3>1
  <2>6. ASSUME NEW i \in 1 .. d + 1
        PROVE  /\ stack'[i].next <= Len(Extends(stack'[i].name)) + 1
               /\ i < d + 1 => stack'[i].next <= Len(Extends(stack'[i].name))
    <3>1. CASE i \in 1 .. d
      BY <1>4, <2>3, <2>5, <3>1
    <3>2. CASE i = d + 1
      BY <1>2, <2>2, <3>2
    <3> QED
      BY <1>7, <3>1, <3>2
  <2> QED
    BY <1>4, <1>5, <2>6 DEF FramesInRange
<1>10. Collected'
  <2>1. Combine(OwnAcls(Before(q, 1))) = NoAcl
    <3>1. OwnAcls({}) = {}
      BY DEF OwnAcls
    <3> QED
      BY <1>2, <3>1, BeforeSteps, CombineEmpty DEF IInv
  <2>2. \A i \in 1 .. d :
           stack[i].acl = Combine(OwnAcls(Before(stack[i].name, stack[i].next)))
    BY <1>1 DEF IInv, Collected, d
  <2>3. \A i \in 1 .. d + 1 :
           stack'[i].acl = Combine(OwnAcls(Before(stack'[i].name, stack'[i].next)))
    BY <1>4, <1>7, <2>1, <2>2 DEF Entered
  <2> QED
    BY <1>4, <1>5, <2>3 DEF Collected
<1>11. ResolvesLineage'
  BY <1>1, <1>2, <1>5 DEF IInv, TypeOK, ResolvesLineage
<1> QED
  BY <1>6, <1>8, <1>9, <1>10, <1>11 DEF IInv

LEMMA ReturnStep ==
    ASSUME IInv, Return
    PROVE  IInv'
<1>0. PICK n, c : n = Top.name /\ c = Len(stack) - 1
  OBVIOUS
<1>1. Returned(n, c)
  BY <1>0, ReturnShape
<1> USE DEF Returned
<1>4. /\ UNCHANGED <<config, todo, root>> /\ phase = "resolving"
  BY DEF Return
<1>5. Len(stack) \in Nat \ {0} /\ Len(stack) = c + 1
  BY <1>0, <1>4, TopType DEF IInv
<1>6. /\ \A m : Extends(m)' = Extends(m)
      /\ \A m : Reference(m)' = Reference(m)
      /\ \A m, k : Combine(OwnAcls(Before(m, k)))' = Combine(OwnAcls(Before(m, k)))
  BY <1>4, MeaningIsConstant
<1>7. TypeOK'
  <2>1. /\ stack' \in Seq(Frames) /\ acl' \in Acls
        /\ phase' \in {"resolving", "resolved"}
    BY <1>1 DEF IInv, TypeOK
  <2>2. /\ visit' \in [Names -> {"unseen", "visiting", "done"}]
        /\ resolved' \in [Names -> Acls]
    BY <1>1 DEF IInv, TypeOK
  <2> QED
    BY <1>4, <2>1, <2>2 DEF IInv, TypeOK
<1>8. ResolvesLineage'
  BY <1>1, <1>6 DEF IInv, TypeOK, ResolvesLineage
<1>9. CASE c = 0
  BY <1>1, <1>7, <1>8, <1>9 DEF IInv, StackIsChain, FramesInRange, Collected
<1>10. CASE c # 0
  <2> USE <1>10
  <2>1. /\ c + 1 \in 1 .. MaxDepth + 1
        /\ \A i \in 1 .. c :
               stack[i + 1].name = Extends(stack[i].name)[stack[i].next]
        /\ \A i, j \in 1 .. c + 1 : stack[i].name = stack[j].name => i = j
        /\ {m \in Names : visit[m] = "visiting"} = {stack[i].name : i \in 1 .. c + 1}
    <3>1. Len(stack) = c + 1 /\ Len(stack) - 1 = c
      BY <1>1, <1>5
    <3>2. StackIsChain /\ phase = "resolving"
      BY <1>4 DEF IInv
    <3> QED
      BY <3>1, <3>2 DEF StackIsChain
  <2>2. \A i \in 1 .. c : /\ stack'[i].name = stack[i].name
                          /\ i # c => stack'[i].next = stack[i].next
    <3>1. stack'[c].name = stack[c].name
      BY <1>1
    <3> QED
      BY <1>1, <3>1
  <2>3. StackIsChain'
    <3>1. c \in 1 .. MaxDepth + 1
      BY <1>1, <2>1
    <3>2. \A i, j \in 1 .. c : stack'[i].name = stack'[j].name => i = j
      <4>1. \A i \in 1 .. c : i \in 1 .. c + 1
        BY <1>1
      <4> QED
        BY <2>1, <2>2, <4>1
    <3>3. \A i \in 1 .. c - 1 :
             stack'[i + 1].name = Extends(stack'[i].name)[stack'[i].next]
      <4>1. \A i \in 1 .. c - 1 : i \in 1 .. c /\ i # c /\ i + 1 \in 1 .. c
        BY <1>1
      <4> QED
        BY <2>1, <2>2, <4>1
    <3>4. {m \in Names : visit'[m] = "visiting"} = {stack'[i].name : i \in 1 .. c}
      <4>1. {m \in Names : visit'[m] = "visiting"}
              = {m \in Names : visit[m] = "visiting"} \ {n}
        BY <1>1 DEF IInv, TypeOK
      <4>2. {stack[i].name : i \in 1 .. c + 1} \ {n} = {stack[i].name : i \in 1 .. c}
        <5>1. 1 .. c + 1 = (1 .. c) \cup {c + 1} /\ c + 1 \notin 1 .. c
          BY <1>1
        <5>2. \A i \in 1 .. c : stack[i].name # n
          BY <1>1, <2>1, <5>1
        <5> QED
          BY <1>1, <5>1, <5>2
      <4>3. {stack'[i].name : i \in 1 .. c} = {stack[i].name : i \in 1 .. c}
        BY <2>2
      <4> QED
        BY <2>1, <4>1, <4>2, <4>3
    <3> QED
      BY <1>1, <1>6, <3>1, <3>2, <3>3, <3>4 DEF StackIsChain
  <2>4. \A i \in 1 .. c :
           /\ stack[i].next <= Len(Extends(stack[i].name))
           /\ stack[i].acl = Combine(OwnAcls(Before(stack[i].name, stack[i].next)))
    <3>1. \A i \in 1 .. c : i \in 1 .. Len(stack) /\ i < Len(stack)
      BY <1>1, <1>5
    <3> QED
      BY <1>4, <3>1 DEF IInv, FramesInRange, Collected
  <2>5. /\ stack[c].name \in Names
        /\ stack[c].next \in 1 .. Len(Extends(stack[c].name))
        /\ stack[c].next \in Nat
        /\ Extends(stack[c].name) \in Seq(Names)
    <3>1. stack[c].name \in Names /\ stack[c].next \in Nat \ {0} /\ c \in 1 .. c
      BY <1>1 DEF Frames
    <3>2. Extends(stack[c].name) \in Seq(Names)
      BY <3>1 DEF IInv, TypeOK, ConfigFiles, Extends
    <3> QED
      BY <2>4, <3>1, <3>2
  <2>6. FramesInRange'
    <3>1. ASSUME NEW i \in 1 .. c
          PROVE  /\ stack'[i].next <= Len(Extends(stack'[i].name)) + 1
                 /\ i < c => stack'[i].next <= Len(Extends(stack'[i].name))
      <4>1. CASE i = c
        BY <1>1, <2>5, <4>1
      <4>2. CASE i # c
        <5>1. stack'[i] = stack[i]
          BY <1>1, <4>2
        <5>2. i \in 1 .. Len(stack)
          BY <1>1, <1>5
        <5>3. /\ stack[i].next <= Len(Extends(stack[i].name)) + 1
              /\ stack[i].next <= Len(Extends(stack[i].name))
          BY <1>4, <2>4, <5>2 DEF IInv, FramesInRange
        <5> QED
          BY <5>1, <5>3
      <4> QED
        BY <4>1, <4>2
    <3> QED
      BY <1>1, <1>6, <3>1 DEF FramesInRange
  <2>7. Collected'
    <3>1. stack'[c].acl = Combine(OwnAcls(Before(stack'[c].name, stack'[c].next)))
      <4>1. stack[c].acl = Combine(OwnAcls(Before(stack[c].name, stack[c].next)))
        BY <1>1, <2>4
      <4>2. Merge(stack[c].acl, Reference(n))
              = Combine(OwnAcls(Before(stack[c].name, stack[c].next + 1)))
        BY <1>1, <2>5, <4>1, CollectNext DEF IInv
      <4> QED
        BY <1>1, <4>2
    <3>2. \A i \in 1 .. c :
             stack'[i].acl = Combine(OwnAcls(Before(stack'[i].name, stack'[i].next)))
      BY <1>1, <2>4, <3>1
    <3> QED
      BY <1>1, <1>6, <3>2 DEF Collected
  <2> QED
    BY <1>7, <1>8, <2>3, <2>6, <2>7 DEF IInv
<1> QED
  BY <1>9, <1>10

-----------------------------------------------------------------------------
(* Why startup rejects for cause: a second invariant, on top of IInv.      *)

(* Only declared namespaces are resolved, the selected one among them. *)
DeclaredOnly ==
    /\ phase \in {"idle", "resolving", "resolved", "ready"} =>
           config.active \in config.declared
    /\ phase = "resolving" => \A i \in 1 .. Len(stack) : stack[i].name \in config.declared

(* The outermost call is for the root, and its result is the ACL. *)
ForRoot ==
    /\ phase = "resolving" => stack[1].name = root
    /\ phase = "resolved" => visit[root] = "done" /\ acl = Reference(root)
    /\ phase \in {"resolving", "resolved"} /\ todo = {} => root = config.active

(* A call is for a name that every call below it extends. *)
Ancestry ==
    phase = "resolving" =>
        \A i, j \in 1 .. Len(stack) : i <= j => stack[j].name \in Lineage(stack[i].name)

(* The parents a call has passed are done. *)
ParentsDone ==
    phase = "resolving" =>
        \A i \in 1 .. Len(stack) : \A k \in 1 .. stack[i].next - 1 :
            visit[Extends(stack[i].name)[k]] = "done"

(* What is done is declared, off every cycle, and closed under extends. *)
DoneIsSound ==
    \A n \in Names : visit[n] = "done" =>
        /\ n \in config.declared
        /\ \A p \in Parents(n) : visit[p] = "done" /\ n \notin Lineage(p)

(* So is what validate has accepted, which stays accepted. *)
Sound(n) ==
    /\ Parents(n) \subseteq config.declared
    /\ \A p \in Parents(n) : n \notin Lineage(p)
    /\ Usable(Reference(n))

AcceptedIsSound == \A n \in config.declared \ todo : Sound(n)

Verdict ==
    /\ DeclaredOnly /\ ForRoot /\ Ancestry /\ ParentsDone
    /\ DoneIsSound /\ AcceptedIsSound /\ VerdictIsJust

(* What the files say stays as it is while they are resolved. *)
LEMMA FilesStay ==
    ASSUME config' = config
    PROVE  /\ \A n : Extends(n)' = Extends(n)
           /\ \A n : Parents(n)' = Parents(n)
           /\ \A n : Lineage(n)' = Lineage(n)
           /\ \A n : Reference(n)' = Reference(n)
           /\ \A n : Sound(n)' <=> Sound(n)
           /\ Cyclic' <=> Cyclic
           /\ Unknown' <=> Unknown
           /\ Deep' <=> Deep
<1>1. \A n : Extends(n)' = Extends(n) /\ Reference(n)' = Reference(n)
  BY MeaningIsConstant
<1>2. \A n : Parents(n)' = Parents(n)
  BY <1>1 DEF Parents
<1>3. \A n : Lineage(n)' = Lineage(n)
  BY <1>2 DEF Lineage, Closed
<1>4. \A n : Sound(n)' <=> Sound(n)
  BY <1>1, <1>2, <1>3 DEF Sound, Usable
<1>5. (Cyclic' <=> Cyclic) /\ (Unknown' <=> Unknown)
  BY <1>2, <1>3 DEF Cyclic, Unknown
<1>6. Deep' <=> Deep
  BY <1>2 DEF Deep
<1> QED
  BY <1>1, <1>2, <1>3, <1>4, <1>5, <1>6

LEMMA LineageFacts ==
    ASSUME TypeOK, NEW n \in Names
    PROVE  /\ Parents(n) \subseteq Names
           /\ n \in Lineage(n)
           /\ \A m \in Lineage(n) : Parents(m) \subseteq Lineage(n)
           /\ \A S \in SUBSET Names : n \in S /\ Closed(S) => Lineage(n) \subseteq S
<1>1. \A m \in Names : Parents(m) \subseteq Names
  BY DEF TypeOK, ConfigFiles, Parents, Extends
<1> QED
  BY <1>1 DEF Lineage, Closed

LEMMA InitVerdict == Init => Verdict
BY DEF Init, Verdict, DeclaredOnly, ForRoot, Ancestry, ParentsDone, DoneIsSound,
       AcceptedIsSound, VerdictIsJust

(* The walk that is TooDeep is the stack and the next parent. *)
LEMMA TooDeepIsDeep ==
    ASSUME IInv, TooDeep
    PROVE  Deep
<1> DEFINE d == MaxDepth + 1
           walk == [i \in 1 .. MaxDepth + 2 |-> IF i = d + 1 THEN Parent ELSE stack[i].name]
<1>1. phase = "resolving" /\ Calling /\ Len(stack) = d /\ d \in Nat \ {0}
  BY TopType DEF TooDeep, Calling, IInv, StackIsChain
<1>2. /\ stack \in Seq(Frames) /\ Top = stack[d] /\ Parent \in Names
      /\ Top.next \in 1 .. Len(Extends(Top.name))
  BY <1>1, TopType DEF IInv, TypeOK
<1>3. \A i \in 1 .. d : stack[i] \in Frames
  BY <1>1, <1>2
<1>4. walk \in [1 .. MaxDepth + 2 -> Names]
  BY <1>1, <1>2, <1>3 DEF Frames
<1>5. ASSUME NEW i \in 1 .. MaxDepth + 1
      PROVE  walk[i + 1] \in Parents(walk[i])
  <2>1. walk[i] = stack[i].name
    BY <1>1
  <2>2. CASE i = d
    <3>1. walk[i + 1] = Extends(stack[d].name)[stack[d].next]
      BY <1>1, <1>2, <2>2 DEF Parent
    <3> QED
      BY <1>2, <2>1, <2>2, <3>1 DEF Parents
  <2>3. CASE i # d
    <3>1. i \in 1 .. d - 1 /\ i + 1 \in 1 .. d /\ i < Len(stack)
      BY <1>1, <2>3
    <3>2. walk[i + 1] = stack[i + 1].name
      BY <1>1, <3>1
    <3>3. stack[i + 1].name = Extends(stack[i].name)[stack[i].next]
      BY <1>1, <3>1 DEF IInv, StackIsChain
    <3>4. stack[i].next \in 1 .. Len(Extends(stack[i].name))
      <4>1. stack[i].next <= Len(Extends(stack[i].name)) /\ stack[i] \in Frames
        BY <1>1, <1>3, <3>1 DEF IInv, FramesInRange
      <4> QED
        BY <4>1 DEF Frames
    <3> QED
      BY <2>1, <3>2, <3>3, <3>4 DEF Parents
  <2> QED
    BY <2>2, <2>3
<1> HIDE DEF walk
<1> QED
  BY <1>4, <1>5 DEF Deep

(* The parent that is on the stack extends the name on top of it. *)
LEMMA CycleIsCyclic ==
    ASSUME IInv, Verdict, Cycle
    PROVE  Cyclic
<1>1. phase = "resolving" /\ Calling /\ visit[Parent] = "visiting"
  BY DEF Cycle, Calling
<1>2. /\ Len(stack) \in 1 .. Len(stack) /\ Top = stack[Len(stack)] /\ Parent \in Names
      /\ Top.next \in 1 .. Len(Extends(Top.name))
  BY <1>1, TopType DEF IInv
<1>3. PICK i \in 1 .. Len(stack) : stack[i].name = Parent
  BY <1>1, <1>2 DEF IInv, StackIsChain
<1>4. i <= Len(stack) /\ Top.name \in config.declared /\ Top.name \in Lineage(Parent)
  BY <1>1, <1>2, <1>3 DEF Verdict, DeclaredOnly, Ancestry
<1>5. Parent \in Parents(Top.name)
  BY <1>2 DEF Parent, Parents
<1> QED
  BY <1>4, <1>5 DEF Cyclic

LEMMA UnknownParentIsUnknown ==
    ASSUME IInv, Verdict, UnknownParent
    PROVE  Unknown
<1>1. phase = "resolving" /\ Calling /\ Parent \notin config.declared
  BY DEF UnknownParent, Calling
<1>2. /\ Len(stack) \in 1 .. Len(stack) /\ Top = stack[Len(stack)]
      /\ Top.next \in 1 .. Len(Extends(Top.name))
  BY <1>1, TopType DEF IInv
<1>3. Top.name \in config.declared
  BY <1>1, <1>2 DEF Verdict, DeclaredOnly
<1>4. Parent \in Parents(Top.name)
  BY <1>2 DEF Parent, Parents
<1> QED
  BY <1>1, <1>3, <1>4 DEF Unknown

(* The walk ends in an error, for cause. *)
LEMMA WalkFails ==
    ASSUME IInv, Verdict, TooDeep \/ Cycle \/ UnknownParent
    PROVE  Verdict'
<1>1. /\ UNCHANGED <<config, todo, root, stack, visit, resolved, acl>>
      /\ phase' \in {"panicked", "too_deep", "cycle", "unknown_parent"}
      /\ phase' = "too_deep" => Deep
      /\ phase' = "cycle" => Cyclic
      /\ phase' = "unknown_parent" => Unknown
  <2>1. CASE TooDeep
    BY <2>1, TooDeepIsDeep DEF TooDeep, Fail, resolution
  <2>2. CASE Cycle
    BY <2>2, CycleIsCyclic DEF Cycle, Fail, resolution
  <2>3. CASE UnknownParent
    BY <2>3, UnknownParentIsUnknown DEF UnknownParent, Fail, resolution
  <2> QED
    BY <2>1, <2>2, <2>3
<1>2. DeclaredOnly' /\ ForRoot' /\ Ancestry' /\ ParentsDone'
  BY <1>1 DEF DeclaredOnly, ForRoot, Ancestry, ParentsDone
<1>3. DoneIsSound' /\ AcceptedIsSound'
  BY <1>1, FilesStay DEF Verdict, DoneIsSound, AcceptedIsSound
<1>4. VerdictIsJust'
  BY <1>1, FilesStay DEF VerdictIsJust
<1> QED
  BY <1>2, <1>3, <1>4 DEF Verdict

(* What has been resolved is sound, if it is usable. *)
LEMMA ResolvedIsSound ==
    ASSUME IInv, Verdict, phase = "resolved", Usable(acl)
    PROVE  Sound(root)
<1>1. /\ root \in Names /\ visit[root] = "done" /\ acl = Reference(root)
  BY DEF IInv, TypeOK, Verdict, ForRoot
<1>2. /\ Parents(root) \subseteq Names
      /\ \A p \in Parents(root) : visit[p] = "done" /\ root \notin Lineage(p)
  BY <1>1, LineageFacts DEF IInv, Verdict, DoneIsSound
<1>3. Parents(root) \subseteq config.declared
  BY <1>2 DEF Verdict, DoneIsSound
<1> QED
  BY <1>1, <1>2, <1>3 DEF Sound

(* validate and ActiveNamespace::new, between walks. *)
LEMMA BetweenWalks ==
    ASSUME IInv, Verdict,
           \/ SelectActive \/ Accept \/ RejectServers \/ RejectFilters \/ Activate
           \/ Over \/ UNCHANGED vars
    PROVE  Verdict'
<1>1. UNCHANGED <<config, root, stack, visit, resolved, acl>>
  BY DEF SelectActive, Accept, RejectServers, RejectFilters, Activate, Over, Fail, vars,
         resolution
<1>2. DoneIsSound'
  BY <1>1, FilesStay DEF Verdict, DoneIsSound
<1>3. CASE SelectActive
  <2>1. /\ phase' \in {"idle", "unknown_namespace"} /\ todo' = todo
        /\ IF phase' = "idle" THEN config.active \in config.declared
                              ELSE config.active \notin config.declared
    BY <1>3 DEF SelectActive
  <2>2. AcceptedIsSound'
    BY <1>1, <2>1, FilesStay DEF Verdict, AcceptedIsSound
  <2> QED
    BY <1>1, <1>2, <2>1, <2>2 DEF Verdict, DeclaredOnly, ForRoot, Ancestry, ParentsDone,
       VerdictIsJust
<1>4. CASE Accept
  <2>1. /\ phase = "resolved" /\ phase' = "idle" /\ todo' = todo \ {root}
        /\ Usable(acl)
    BY <1>4 DEF Accept, Usable
  <2>2. Sound(root)
    BY <2>1, ResolvedIsSound
  <2>3. AcceptedIsSound'
    BY <1>1, <2>1, <2>2, FilesStay DEF Verdict, AcceptedIsSound
  <2> QED
    BY <1>1, <1>2, <2>1, <2>3 DEF Verdict, DeclaredOnly, ForRoot, Ancestry, ParentsDone,
       VerdictIsJust
<1>5. CASE RejectServers \/ RejectFilters
  <2>1. /\ phase' \in {"panicked", "effective_server_unknown", "tool_filter_unknown_server"}
        /\ todo' = todo
    BY <1>5 DEF RejectServers, RejectFilters, Fail
  <2>2. AcceptedIsSound'
    BY <1>1, <2>1, FilesStay DEF Verdict, AcceptedIsSound
  <2>3. acl = Reference(root) /\ root \in config.declared
    BY <1>5 DEF RejectServers, RejectFilters, IInv, TypeOK, Verdict, ForRoot, DoneIsSound
  <2>4. /\ phase' = "effective_server_unknown" =>
               ~(Reference(root).servers \subseteq Configured)
        /\ phase' = "tool_filter_unknown_server" =>
               \E s \in Servers :
                   s \notin Reference(root).servers /\ Reference(root).tools[s] # NoFilter
    BY <1>5, <2>3 DEF RejectServers, RejectFilters, Fail
  <2>5. VerdictIsJust'
    BY <1>1, <2>1, <2>3, <2>4, FilesStay DEF VerdictIsJust
  <2> QED
    BY <1>1, <1>2, <2>1, <2>2, <2>5 DEF Verdict, DeclaredOnly, ForRoot, Ancestry, ParentsDone
<1>6. CASE Activate
  <2>1. phase = "resolved" /\ phase' = "ready" /\ todo = {} /\ todo' = todo
    BY <1>6 DEF Activate
  <2>2. acl = Reference(config.active) /\ config.active \in config.declared
    BY <2>1 DEF Verdict, ForRoot, DeclaredOnly
  <2>3. \A n \in config.declared : Sound(n)
    BY <2>1 DEF Verdict, AcceptedIsSound
  <2>4. ~Cyclic /\ ~Unknown /\ \A n \in config.declared : Usable(Reference(n))
    BY <2>3 DEF Sound, Cyclic, Unknown
  <2>5. \A n : Usable(Reference(n))' <=> Usable(Reference(n))
    BY <1>1, FilesStay DEF Usable
  <2>6. VerdictIsJust'
    BY <1>1, <2>1, <2>2, <2>4, <2>5, FilesStay DEF VerdictIsJust
  <2>7. AcceptedIsSound'
    BY <1>1, <2>1, FilesStay DEF Verdict, AcceptedIsSound
  <2> QED
    BY <1>1, <1>2, <2>1, <2>2, <2>6, <2>7 DEF Verdict, DeclaredOnly, ForRoot, Ancestry,
       ParentsDone
<1>7. CASE Over \/ UNCHANGED vars
  <2>1. phase' = phase /\ todo' = todo
    BY <1>7 DEF Over, vars
  <2>2. DeclaredOnly' /\ ForRoot' /\ Ancestry' /\ ParentsDone'
    BY <1>1, <2>1, FilesStay DEF Verdict, DeclaredOnly, ForRoot, Ancestry, ParentsDone
  <2>3. AcceptedIsSound' /\ VerdictIsJust'
    BY <1>1, <2>1, FilesStay DEF Verdict, AcceptedIsSound, VerdictIsJust, Usable
  <2> QED
    BY <1>2, <2>2, <2>3 DEF Verdict
<1> QED
  BY <1>3, <1>4, <1>5, <1>6, <1>7

LEMMA ResolveVerdict ==
    ASSUME IInv, Verdict, NEW n \in Names, Resolve(n)
    PROVE  Verdict'
<1>1. /\ config' = config /\ phase' = "resolving" /\ todo' = todo /\ root' = n
      /\ stack' = <<Entered(n)>>
      /\ visit' = [m \in Names |-> IF m = n THEN "visiting" ELSE "unseen"]
      /\ phase = "idle" /\ (IF todo = {} THEN n = config.active ELSE n \in todo)
  BY DEF Resolve
<1>2. n \in config.declared /\ config.active \in config.declared
  BY <1>1 DEF IInv, TypeOK, Verdict, DeclaredOnly
<1>3. Len(stack') = 1 /\ stack'[1].name = n /\ stack'[1].next = 1
  BY <1>1 DEF Entered
<1>4. \A i \in 1 .. Len(stack') : i = 1
  BY <1>3
<1>5. DeclaredOnly' /\ ForRoot'
  BY <1>1, <1>2, <1>3, <1>4 DEF DeclaredOnly, ForRoot
<1>6. Ancestry'
  <2>1. n \in Lineage(n)'
    BY <1>1, FilesStay, LineageFacts DEF IInv
  <2> QED
    BY <1>3, <1>4, <2>1 DEF Ancestry
<1>7. ParentsDone'
  <2>1. 1 .. stack'[1].next - 1 = {}
    BY <1>3
  <2> QED
    BY <1>4, <2>1 DEF ParentsDone
<1>8. DoneIsSound'
  BY <1>1 DEF DoneIsSound
<1>9. AcceptedIsSound' /\ VerdictIsJust'
  BY <1>1, FilesStay DEF Verdict, AcceptedIsSound, VerdictIsJust
<1> QED
  BY <1>5, <1>6, <1>7, <1>8, <1>9 DEF Verdict

LEMMA ReuseVerdict ==
    ASSUME IInv, Verdict, ReuseDone
    PROVE  Verdict'
<1> DEFINE d == Len(stack)
<1>1. /\ phase = "resolving" /\ Calling /\ visit[Parent] = "done"
      /\ stack' = Receive(stack, d, resolved[Parent])
      /\ UNCHANGED <<config, phase, todo, root, visit, resolved, acl>>
  BY DEF ReuseDone, Calling
<1>2. /\ d \in Nat \ {0} /\ d \in 1 .. d /\ Top = stack[d] /\ Parent \in Names
      /\ Top \in Frames /\ stack \in Seq(Frames) /\ resolved[Parent] \in Acls
  BY <1>1, TopType DEF IInv, TypeOK
<1>3. /\ Len(stack') = d
      /\ stack'[d].name = stack[d].name /\ stack'[d].next = stack[d].next + 1
      /\ \A i \in 1 .. d : i # d => stack'[i] = stack[i]
  <2>1. \A i \in 1 .. d : i # d => Receive(stack, d, resolved[Parent])[i] = stack[i]
    BY <1>2, ReceiveShape
  <2>2. /\ Len(stack') = d
        /\ stack'[d] = [name |-> stack[d].name, next |-> stack[d].next + 1,
                        acl |-> Merge(stack[d].acl, resolved[Parent])]
    BY <1>1, <1>2, ReceiveShape
  <2> QED
    BY <1>1, <2>1, <2>2
<1>4. \A i \in 1 .. d : stack'[i].name = stack[i].name
  BY <1>3
<1> HIDE DEF d
<1>5. DeclaredOnly' /\ ForRoot'
  <2>1. /\ config.active \in config.declared
        /\ \A i \in 1 .. d : stack[i].name \in config.declared
    BY <1>1 DEF Verdict, DeclaredOnly, d
  <2>2. stack[1].name = root /\ (todo = {} => root = config.active) /\ 1 \in 1 .. d
    BY <1>1, <1>2 DEF Verdict, ForRoot
  <2> QED
    BY <1>1, <1>3, <1>4, <2>1, <2>2 DEF DeclaredOnly, ForRoot
<1>6. Ancestry'
  <2>1. \A i, j \in 1 .. d : i <= j => stack[j].name \in Lineage(stack[i].name)
    BY <1>1 DEF Verdict, Ancestry, d
  <2> QED
    BY <1>1, <1>3, <1>4, <2>1, FilesStay DEF Ancestry
<1>7. ParentsDone'
  <2>1. \A i \in 1 .. d : \A k \in 1 .. stack[i].next - 1 :
           visit[Extends(stack[i].name)[k]] = "done"
    BY <1>1 DEF Verdict, ParentsDone, d
  <2>2. ASSUME NEW k \in 1 .. stack[d].next
        PROVE  visit[Extends(stack[d].name)[k]] = "done"
    <3>1. k \in 1 .. stack[d].next - 1 \/ k = stack[d].next
      BY <1>2 DEF Frames
    <3> QED
      BY <1>1, <1>2, <2>1, <3>1 DEF Parent
  <2>3. 1 .. stack'[d].next - 1 = 1 .. stack[d].next
    BY <1>2, <1>3 DEF Frames
  <2>4. ASSUME NEW i \in 1 .. d, NEW k \in 1 .. stack'[i].next - 1
        PROVE  visit'[Extends(stack'[i].name)[k]] = "done"
    <3>1. CASE i = d
      BY <1>1, <1>4, <2>2, <2>3, <3>1
    <3>2. CASE i # d
      BY <1>1, <1>3, <2>1, <3>2
    <3> QED
      BY <3>1, <3>2
  <2> QED
    BY <1>1, <1>3, <2>4, FilesStay DEF ParentsDone
<1>8. DoneIsSound' /\ AcceptedIsSound' /\ VerdictIsJust'
  BY <1>1, FilesStay DEF Verdict, DoneIsSound, AcceptedIsSound, VerdictIsJust
<1> QED
  BY <1>5, <1>6, <1>7, <1>8 DEF Verdict

LEMMA DescendVerdict ==
    ASSUME IInv, Verdict, Descend
    PROVE  Verdict'
<1> DEFINE d == Len(stack)
           q == Parent
<1>1. /\ phase = "resolving" /\ Calling /\ visit[q] = "unseen" /\ q \in config.declared
      /\ stack' = Append(stack, Entered(q))
      /\ visit' = [visit EXCEPT ![q] = "visiting"]
      /\ UNCHANGED <<config, phase, todo, root, resolved, acl>>
  BY DEF Descend, Calling
<1>2. /\ d \in Nat \ {0} /\ d \in 1 .. d /\ Top = stack[d] /\ q \in Names
      /\ Top.next \in 1 .. Len(Extends(Top.name))
      /\ stack \in Seq(Frames) /\ Entered(q) \in Frames
  BY <1>1, TopType, EnteredType DEF IInv, TypeOK
<1>3. q \in Parents(stack[d].name)
  BY <1>2 DEF Parent, Parents, q
<1> HIDE DEF q
<1>4. /\ Len(stack') = d + 1
      /\ stack'[d + 1].name = q /\ stack'[d + 1].next = 1
      /\ \A i \in 1 .. d : /\ stack'[i] = stack[i]
                            /\ stack[i] \in Frames /\ stack[i].name \in Names
  <2>1. /\ Len(stack') = d + 1 /\ stack'[d + 1] = Entered(q)
        /\ \A i \in 1 .. d : stack'[i] = stack[i]
    BY <1>1, <1>2
  <2>2. \A i \in 1 .. d : stack[i] \in Frames
    BY <1>2
  <2> QED
    BY <2>1, <2>2 DEF Entered, Frames
<1> HIDE DEF d
<1>5. \A i \in 1 .. d + 1 : i \in 1 .. d \/ i = d + 1
  BY <1>2
<1>6. \A m \in Names : visit'[m] = "done" <=> visit[m] = "done"
  BY <1>1, <1>2 DEF IInv, TypeOK
<1>7. DeclaredOnly' /\ ForRoot'
  <2>1. /\ config.active \in config.declared
        /\ \A i \in 1 .. d : stack[i].name \in config.declared
    BY <1>1 DEF Verdict, DeclaredOnly, d
  <2>2. stack[1].name = root /\ (todo = {} => root = config.active) /\ 1 \in 1 .. d
    BY <1>1, <1>2 DEF Verdict, ForRoot
  <2> QED
    BY <1>1, <1>4, <1>5, <2>1, <2>2 DEF DeclaredOnly, ForRoot
<1>8. Ancestry'
  <2>1. \A i, j \in 1 .. d : i <= j => stack[j].name \in Lineage(stack[i].name)
    BY <1>1 DEF Verdict, Ancestry, d
  <2>2. \A i \in 1 .. d : q \in Lineage(stack[i].name)
    <3> TAKE i \in 1 .. d
    <3>1. stack[d].name \in Lineage(stack[i].name)
      BY <1>2, <2>1
    <3> QED
      BY <1>3, <1>4, <3>1, LineageFacts DEF IInv
  <2>3. q \in Lineage(q)
    BY <1>2, LineageFacts DEF IInv
  <2>4. ASSUME NEW i \in 1 .. d + 1, NEW j \in 1 .. d + 1, i <= j
        PROVE  stack'[j].name \in Lineage(stack'[i].name)
    <3>1. CASE j \in 1 .. d
      <4>1. i \in 1 .. d
        BY <2>4, <3>1, <1>2
      <4> QED
        BY <1>4, <2>1, <2>4, <3>1, <4>1
    <3>2. CASE j = d + 1
      BY <1>4, <1>5, <2>2, <2>3, <3>2
    <3> QED
      BY <1>5, <3>1, <3>2
  <2> QED
    BY <1>1, <1>4, <2>4, FilesStay DEF Ancestry
<1>9. ParentsDone'
  <2>1. \A i \in 1 .. d : \A k \in 1 .. stack[i].next - 1 :
           visit[Extends(stack[i].name)[k]] = "done"
    BY <1>1 DEF Verdict, ParentsDone, d
  <2>2. \A i \in 1 .. d : \A k \in 1 .. stack[i].next - 1 :
           Extends(stack[i].name)[k] \in Names
    <3> TAKE i \in 1 .. d
    <3> TAKE k \in 1 .. stack[i].next - 1
    <3>1. Extends(stack[i].name) \in Seq(Names)
      BY <1>4 DEF IInv, TypeOK, ConfigFiles, Extends
    <3>2. /\ stack[i].next \in Nat
          /\ stack[i].next <= Len(Extends(stack[i].name)) + 1
      BY <1>1, <1>4 DEF IInv, FramesInRange, Frames, d
    <3>3. k \in 1 .. Len(Extends(stack[i].name))
      BY <3>1, <3>2
    <3> QED
      BY <3>1, <3>3
  <2>3. 1 .. stack'[d + 1].next - 1 = {}
    BY <1>4
  <2>4. \A i \in 1 .. d + 1 : \A k \in 1 .. stack'[i].next - 1 :
           visit'[Extends(stack'[i].name)[k]] = "done"
    BY <1>4, <1>5, <1>6, <2>1, <2>2, <2>3
  <2> QED
    BY <1>1, <1>4, <2>4, FilesStay DEF ParentsDone
<1>10. DoneIsSound'
  <2>1. \A n \in Names : Parents(n) \subseteq Names
    BY LineageFacts DEF IInv
  <2> QED
    BY <1>1, <1>6, <2>1, FilesStay DEF Verdict, DoneIsSound
<1>11. AcceptedIsSound' /\ VerdictIsJust'
  BY <1>1, FilesStay DEF Verdict, AcceptedIsSound, VerdictIsJust
<1> QED
  BY <1>7, <1>8, <1>9, <1>10, <1>11 DEF Verdict

(* A name whose parents are all done is on no cycle: what is done is       *)
(* closed under extends and the name is not yet part of it.                *)
LEMMA ReturnedIsSound ==
    ASSUME IInv, Verdict, phase = "resolving", ~Calling
    PROVE  \A p \in Parents(Top.name) : visit[p] = "done" /\ Top.name \notin Lineage(p)
<1> DEFINE n == Top.name
           D == {m \in Names : visit[m] = "done"}
<1>1. /\ Len(stack) \in 1 .. Len(stack) /\ Top = stack[Len(stack)] /\ Top \in Frames
      /\ Extends(n) \in Seq(Names) /\ n \in Names
  BY TopType DEF IInv, Frames
<1>2. visit[n] = "visiting"
  <2>1. n \in {stack[i].name : i \in 1 .. Len(stack)}
    BY <1>1
  <2> QED
    BY <2>1 DEF IInv, StackIsChain
<1>3. 1 .. Len(Extends(n)) \subseteq 1 .. Top.next - 1
  <2>1. ~(Top.next <= Len(Extends(n)))
    BY DEF Calling
  <2>2. Top.next \in Nat /\ Len(Extends(n)) \in Nat
    BY <1>1 DEF Frames
  <2> QED
    BY <2>1, <2>2
<1>4. \A p \in Parents(n) : visit[p] = "done"
  BY <1>1, <1>3 DEF Parents, Verdict, ParentsDone
<1>5. Closed(D)
  <2>1. \A m \in D : Parents(m) \subseteq Names
    BY LineageFacts DEF IInv
  <2> QED
    BY <2>1 DEF Closed, Verdict, DoneIsSound
<1>6. ASSUME NEW p \in Parents(n)
      PROVE  n \notin Lineage(p)
  <2>1. p \in D
    BY <1>1, <1>4, LineageFacts DEF IInv
  <2>2. Lineage(p) \subseteq D
    <3> HIDE DEF D
    <3>1. D \in SUBSET Names /\ p \in Names
      BY <2>1 DEF D
    <3> QED
      BY <1>5, <2>1, <3>1, LineageFacts DEF IInv
  <2> QED
    BY <1>2, <2>2
<1> QED
  BY <1>4, <1>6

LEMMA ReturnVerdict ==
    ASSUME IInv, Verdict, Return
    PROVE  Verdict'
<1>0. PICK n, c : n = Top.name /\ c = Len(stack) - 1
  OBVIOUS
<1>1. Returned(n, c)
  BY <1>0, ReturnShape
<1>2. /\ UNCHANGED <<config, todo, root>> /\ phase = "resolving" /\ ~Calling
  BY DEF Return
<1>3. /\ Len(stack) \in Nat \ {0} /\ Len(stack) = c + 1 /\ stack[c + 1].name = n
      /\ n \in Names /\ c \in Nat
  BY <1>0, <1>1, <1>2, TopType DEF IInv, Returned
<1>4. /\ visit' = [visit EXCEPT ![n] = "done"]
      /\ \A m \in Names : visit[m] = "done" => visit'[m] = "done"
      /\ visit'[n] = "done"
      /\ \A m \in Names : visit'[m] = "done" => visit[m] = "done" \/ m = n
  BY <1>1, <1>3 DEF Returned, IInv, TypeOK
<1>5. n \in config.declared /\ config.active \in config.declared
  <2>1. c + 1 \in 1 .. Len(stack)
    BY <1>3
  <2> QED
    BY <1>2, <1>3, <2>1 DEF Verdict, DeclaredOnly
<1>6. DoneIsSound'
  <2>1. \A p \in Parents(n) : visit[p] = "done" /\ n \notin Lineage(p)
    BY <1>0, <1>2, ReturnedIsSound
  <2>2. \A m \in Names : Parents(m) \subseteq Names
    BY LineageFacts DEF IInv
  <2> QED
    BY <1>2, <1>3, <1>4, <1>5, <2>1, <2>2, FilesStay DEF Verdict, DoneIsSound
<1>7. AcceptedIsSound' /\ VerdictIsJust'
  <2>1. phase' \in {"resolving", "resolved"}
    BY <1>1 DEF Returned
  <2> QED
    BY <1>2, <2>1, FilesStay DEF Verdict, AcceptedIsSound, VerdictIsJust
<1>8. CASE c = 0
  <2>1. phase' = "resolved" /\ acl' = Reference(n)
    BY <1>0, <1>2, <1>8, EffectiveIsReference DEF Return
  <2>2. n = root
    BY <1>2, <1>3, <1>8 DEF Verdict, ForRoot
  <2>3. DeclaredOnly' /\ ForRoot'
    BY <1>2, <1>4, <1>5, <2>1, <2>2, FilesStay DEF Verdict, DeclaredOnly, ForRoot
  <2>4. Ancestry' /\ ParentsDone'
    BY <2>1 DEF Ancestry, ParentsDone
  <2> QED
    BY <1>6, <1>7, <2>3, <2>4 DEF Verdict
<1>9. CASE c # 0
  <2>1. /\ c \in Nat \ {0} /\ c \in 1 .. c /\ 1 \in 1 .. c
        /\ phase' = "resolving" /\ Len(stack') = c
        /\ \A i \in 1 .. c : i # c => stack'[i] = stack[i]
        /\ stack'[c].name = stack[c].name /\ stack'[c].next = stack[c].next + 1
        /\ n = Extends(stack[c].name)[stack[c].next]
        /\ stack[c].next \in Nat \ {0}
    BY <1>1, <1>9 DEF Returned, Frames
  <2>2. \A i \in 1 .. c : /\ stack'[i].name = stack[i].name
                          /\ i \in 1 .. Len(stack)
    BY <1>3, <2>1
  <2>3. DeclaredOnly' /\ ForRoot'
    BY <1>2, <1>5, <2>1, <2>2 DEF Verdict, DeclaredOnly, ForRoot
  <2>4. Ancestry'
    BY <1>2, <2>1, <2>2, FilesStay DEF Verdict, Ancestry
  <2>5. ParentsDone'
    <3>1. ASSUME NEW i \in 1 .. c, NEW k \in 1 .. stack[i].next - 1
          PROVE  visit'[Extends(stack[i].name)[k]] = "done"
      <4>1. visit[Extends(stack[i].name)[k]] = "done"
        BY <1>2, <2>2 DEF Verdict, ParentsDone
      <4>2. Extends(stack[i].name)[k] \in Names
        <5>1. stack[i] \in Frames
          BY <2>2 DEF IInv, TypeOK
        <5>2. Extends(stack[i].name) \in Seq(Names)
          BY <5>1 DEF IInv, TypeOK, ConfigFiles, Extends, Frames
        <5>3. /\ stack[i].next \in Nat
              /\ stack[i].next <= Len(Extends(stack[i].name)) + 1
          BY <1>2, <2>2, <5>1 DEF IInv, FramesInRange, Frames
        <5>4. k \in 1 .. Len(Extends(stack[i].name))
          BY <5>2, <5>3
        <5> QED
          BY <5>2, <5>4
      <4> QED
        BY <1>4, <4>1, <4>2
    <3>2. ASSUME NEW k \in 1 .. stack'[c].next - 1
          PROVE  visit'[Extends(stack[c].name)[k]] = "done"
      <4>1. k \in 1 .. stack[c].next - 1 \/ k = stack[c].next
        BY <2>1
      <4> QED
        BY <1>4, <2>1, <3>1, <4>1
    <3>3. ASSUME NEW i \in 1 .. c, NEW k \in 1 .. stack'[i].next - 1
          PROVE  visit'[Extends(stack'[i].name)[k]] = "done"
      BY <2>1, <2>2, <3>1, <3>2
    <3> QED
      BY <1>2, <2>1, <3>3, FilesStay DEF ParentsDone
  <2> QED
    BY <1>6, <1>7, <2>3, <2>4, <2>5 DEF Verdict
<1> QED
  BY <1>8, <1>9

-----------------------------------------------------------------------------
(* Why ActiveNamespace::new never panics, and why the order in which       *)
(* validate meets the namespaces cannot decide its verdict.  Whether the   *)
(* depth limit is hit can depend on the order of extends, so that no       *)
(* property of the graph excludes it; but the walk for a namespace is      *)
(* deterministic, and the selected one has been walked before.             *)

Here == [stack |-> stack, visit |-> visit, resolved |-> resolved]

(* Where the walk for n starts. *)
Start(n) == [stack    |-> <<Entered(n)>>,
             visit    |-> [m \in Names |-> IF m = n THEN "visiting" ELSE "unseen"],
             resolved |-> [m \in Names |-> NoAcl]]

(* The call on top of walk w is about to resolve a parent, under config c. *)
LastOf(w) == w.stack[Len(w.stack)]
CallingIn(c, w) == LastOf(w).next <= Len(c.extends[LastOf(w).name])
ParentIn(c, w) == c.extends[LastOf(w).name][LastOf(w).next]

(* The walk fails at w. *)
Stuck(c, w) ==
    /\ w.stack # <<>>
    /\ CallingIn(c, w)
    /\ \/ Len(w.stack) > MaxDepth
       \/ w.visit[ParentIn(c, w)] = "visiting"
       \/ w.visit[ParentIn(c, w)] = "unseen" /\ ParentIn(c, w) \notin c.declared

(* The one step from w, where it goes on. *)
Move(c, w) ==
    LET d == Len(w.stack)
        n == LastOf(w).name
        p == ParentIn(c, w)
        rest == SubSeq(w.stack, 1, d - 1)
        effective == Merge(LastOf(w).acl, c.own[n])
    IN  IF CallingIn(c, w)
        THEN IF w.visit[p] = "done"
             THEN [stack |-> Receive(w.stack, d, w.resolved[p]),
                   visit |-> w.visit, resolved |-> w.resolved]
             ELSE [stack |-> Append(w.stack, Entered(p)),
                   visit |-> [w.visit EXCEPT ![p] = "visiting"], resolved |-> w.resolved]
        ELSE [stack |-> IF d - 1 = 0 THEN rest ELSE Receive(rest, d - 1, effective),
              visit |-> [w.visit EXCEPT ![n] = "done"],
              resolved |-> [w.resolved EXCEPT ![n] = effective]]

(* No walk from w fails. *)
Safe(c, w) ==
    \E S : /\ w \in S
           /\ \A u \in S : /\ ~Stuck(c, u)
                           /\ u.stack # <<>> => Move(c, u) \in S

Repeatable ==
    /\ phase = "resolving" => (Safe(config, Here) <=> Safe(config, Start(root)))
    /\ phase = "resolved" => Safe(config, Start(root))
    /\ \A n \in config.declared \ todo : Safe(config, Start(n))
    /\ phase = "ready" => todo = {}
    /\ phase \in {"too_deep", "cycle", "unknown_parent"} =>
           \E n \in config.declared : ~Safe(config, Start(n))
    /\ NeverPanics

LEMMA SafeEnd ==
    ASSUME NEW c, NEW w, w.stack = <<>>
    PROVE  Safe(c, w)
<1> DEFINE S == {w}
<1>1. w \in S /\ \A u \in S : ~Stuck(c, u) /\ (u.stack # <<>> => Move(c, u) \in S)
  BY DEF Stuck
<1> QED
  BY <1>1 DEF Safe

LEMMA SafeMove ==
    ASSUME NEW c, NEW w, w.stack # <<>>, ~Stuck(c, w)
    PROVE  Safe(c, Move(c, w)) <=> Safe(c, w)
<1>1. ASSUME Safe(c, w)
      PROVE  Safe(c, Move(c, w))
  BY <1>1 DEF Safe
<1>2. ASSUME Safe(c, Move(c, w))
      PROVE  Safe(c, w)
  <2>1. PICK S : /\ Move(c, w) \in S
                 /\ \A u \in S : ~Stuck(c, u) /\ (u.stack # <<>> => Move(c, u) \in S)
    BY <1>2 DEF Safe
  <2> DEFINE T == S \cup {w}
  <2>2. w \in T /\ \A u \in T : ~Stuck(c, u) /\ (u.stack # <<>> => Move(c, u) \in T)
    BY <2>1
  <2> HIDE DEF T
  <2> QED
    BY <2>2 DEF Safe
<1> QED
  BY <1>1, <1>2

(* The steps of the walk are Move's. *)
LEMMA StepIsMove ==
    ASSUME IInv, ReuseDone \/ Descend \/ Return
    PROVE  /\ phase = "resolving"
           /\ Here.stack # <<>> /\ ~Stuck(config, Here)
           /\ Here' = Move(config, Here)
<1>1. phase = "resolving"
  BY DEF ReuseDone, Descend, Return, Calling
<1>2. Len(stack) \in Nat \ {0} /\ stack # <<>> /\ stack \in Seq(Frames)
  BY <1>1, TopType DEF IInv, TypeOK
<1>3. /\ LastOf(Here) = Top
      /\ CallingIn(config, Here) <=> Calling
      /\ ParentIn(config, Here) = Parent
  BY <1>1 DEF LastOf, Here, Top, CallingIn, Calling, ParentIn, Parent, Extends
<1>4. CASE ReuseDone
  <2>1. /\ Calling /\ Len(stack) <= MaxDepth /\ visit[Parent] = "done"
        /\ stack' = Receive(stack, Len(stack), resolved[Parent])
        /\ visit' = visit /\ resolved' = resolved
    BY <1>4 DEF ReuseDone
  <2>2. ~Stuck(config, Here)
    BY <1>2, <1>3, <2>1 DEF Stuck, Here
  <2>3. Here' = Move(config, Here)
    BY <1>3, <2>1 DEF Move, Here
  <2> QED
    BY <1>1, <1>2, <2>2, <2>3 DEF Here
<1>5. CASE Descend
  <2>1. /\ Calling /\ Len(stack) <= MaxDepth /\ visit[Parent] = "unseen"
        /\ Parent \in config.declared
        /\ stack' = Append(stack, Entered(Parent))
        /\ visit' = [visit EXCEPT ![Parent] = "visiting"] /\ resolved' = resolved
    BY <1>5 DEF Descend
  <2>2. ~Stuck(config, Here)
    BY <1>2, <1>3, <2>1 DEF Stuck, Here
  <2>3. Here' = Move(config, Here)
    BY <1>3, <2>1 DEF Move, Here
  <2> QED
    BY <1>1, <1>2, <2>2, <2>3 DEF Here
<1>6. CASE Return
  <2> DEFINE effective == Merge(Top.acl, config.own[Top.name])
             rest == SubSeq(stack, 1, Len(stack) - 1)
  <2>1. /\ ~Calling
        /\ stack' = IF Len(stack) - 1 = 0 THEN rest
                    ELSE Receive(rest, Len(stack) - 1, effective)
        /\ visit' = [visit EXCEPT ![Top.name] = "done"]
        /\ resolved' = [resolved EXCEPT ![Top.name] = effective]
    BY <1>6 DEF Return
  <2>2. ~Stuck(config, Here)
    BY <1>3, <2>1 DEF Stuck
  <2>3. Here' = Move(config, Here)
    BY <1>3, <2>1 DEF Move, Here
  <2> QED
    BY <1>1, <1>2, <2>2, <2>3 DEF Here
<1> QED
  BY <1>4, <1>5, <1>6

LEMMA InitRepeatable == Init => Repeatable
BY DEF Init, Repeatable, NeverPanics

LEMMA NextRepeatable ==
    ASSUME IInv, Verdict, Repeatable, [Next]_vars
    PROVE  Repeatable'
<1>1. ASSUME NEW n \in Names, Resolve(n)
      PROVE  Repeatable'
  <2>1. /\ config' = config /\ todo' = todo /\ root' = n /\ phase' = "resolving"
        /\ Here' = Start(n)
    BY <1>1 DEF Resolve, Here, Start
  <2> QED
    BY <2>1 DEF Repeatable, NeverPanics
<1>2. CASE ReuseDone \/ Descend \/ Return
  <2>1. /\ phase = "resolving" /\ UNCHANGED <<config, todo, root>>
        /\ phase' \in {"resolving", "resolved"}
    BY <1>2, StepIsMove DEF ReuseDone, Descend, Return
  <2>2. Safe(config, Here') <=> Safe(config, Start(root))
    BY <1>2, <2>1, StepIsMove, SafeMove DEF Repeatable
  <2>3. phase' = "resolved" => Safe(config, Start(root))
    <3> SUFFICES ASSUME phase' = "resolved"
                 PROVE  Safe(config, Start(root))
      OBVIOUS
    <3>1. Return /\ Len(stack) - 1 = 0
      BY <1>2, <2>1 DEF ReuseDone, Descend, Return
    <3>2. stack' = SubSeq(stack, 1, 0)
      BY <3>1 DEF Return
    <3>3. stack \in Seq(Frames)
      BY DEF IInv, TypeOK
    <3>4. stack' = <<>>
      BY <3>2, <3>3
    <3>5. Here'.stack = <<>>
      BY <3>4 DEF Here
    <3> QED
      BY <2>2, <3>5, SafeEnd
  <2> QED
    BY <2>1, <2>2, <2>3 DEF Repeatable, NeverPanics
<1>3. CASE TooDeep \/ Cycle \/ UnknownParent
  <2>1. /\ Calling /\ phase = "resolving"
        /\ \/ Len(stack) > MaxDepth
           \/ visit[Parent] = "visiting"
           \/ visit[Parent] = "unseen" /\ Parent \notin config.declared
    BY <1>3 DEF TooDeep, Cycle, UnknownParent, Calling
  <2>2. stack # <<>>
    BY <2>1, TopType DEF IInv
  <2>3. Stuck(config, Here)
    BY <2>1, <2>2 DEF Stuck, Here, CallingIn, ParentIn, LastOf, Calling, Parent, Top, Extends
  <2>4. ~Safe(config, Start(root))
    BY <2>1, <2>3 DEF Safe, Repeatable
  <2>5. todo # {}
    <3>1. todo = {} => root = config.active /\ config.active \in config.declared \ todo
      BY <2>1 DEF Verdict, ForRoot, DeclaredOnly
    <3> QED
      BY <2>4, <3>1 DEF Repeatable
  <2>6. root \in config.declared
    BY <2>1, TopType DEF IInv, Verdict, ForRoot, DeclaredOnly
  <2>7. /\ UNCHANGED <<config, todo, root>>
        /\ phase' \in {"too_deep", "cycle", "unknown_parent"}
    BY <1>3, <2>5 DEF TooDeep, Cycle, UnknownParent, Fail, resolution
  <2> QED
    BY <2>4, <2>6, <2>7 DEF Repeatable, NeverPanics
<1>4. CASE Accept
  <2>1. /\ phase = "resolved" /\ phase' = "idle" /\ todo' = todo \ {root}
        /\ UNCHANGED config
    BY <1>4 DEF Accept
  <2> QED
    BY <2>1 DEF Repeatable, NeverPanics
<1>5. CASE SelectActive \/ RejectServers \/ RejectFilters \/ Activate
  <2>1. /\ UNCHANGED <<config, todo>>
        /\ phase' \notin {"resolving", "resolved", "panicked", "too_deep", "cycle",
                          "unknown_parent"}
        /\ phase' = "ready" => todo' = {}
    BY <1>5 DEF SelectActive, RejectServers, RejectFilters, Activate, Fail
  <2> QED
    BY <2>1 DEF Repeatable, NeverPanics
<1>6. CASE Over \/ UNCHANGED vars
  <2>1. UNCHANGED <<config, phase, todo, root>> /\ Here' = Here
    BY <1>6 DEF Over, vars, Here
  <2> QED
    BY <2>1 DEF Repeatable, NeverPanics
<1> QED
  BY <1>1, <1>2, <1>3, <1>4, <1>5, <1>6 DEF Next

-----------------------------------------------------------------------------
(* Theorems *)

THEOREM Invariance == Spec => []IInv
<1>1. IInv /\ [Next]_vars => IInv'
  <2> SUFFICES ASSUME IInv, [Next]_vars
               PROVE  IInv'
    OBVIOUS
  <2>1. ASSUME NEW n \in Names, Resolve(n)
        PROVE  IInv'
    BY <2>1, ResolveStep
  <2> QED
    BY <2>1, OutsideWalk, ReuseStep, DescendStep, ReturnStep DEF Next
<1> QED
  BY <1>1, InitInvariant, PTL DEF Spec

THEOREM SecondInvariance == Spec => [](IInv /\ Verdict /\ Repeatable)
<1>1. IInv /\ Verdict /\ [Next]_vars => Verdict'
  <2> SUFFICES ASSUME IInv, Verdict, [Next]_vars
               PROVE  Verdict'
    OBVIOUS
  <2>1. ASSUME NEW n \in Names, Resolve(n)
        PROVE  Verdict'
    BY <2>1, ResolveVerdict
  <2> QED
    BY <2>1, WalkFails, BetweenWalks, ReuseVerdict, DescendVerdict, ReturnVerdict DEF Next
<1> QED
  BY <1>1, Invariance, InitVerdict, InitRepeatable, NextRepeatable, PTL DEF Spec

(* The state of startup stays well typed for every set of config files. *)
THEOREM TypeCorrect == Spec => []TypeOK
<1>1. IInv => TypeOK
  BY DEF IInv
<1> QED
  BY <1>1, Invariance, PTL

(* resolve_namespace_inner is right: whatever the extends lists, the depth *)
(* limit and the order of visits, a completed namespace has the union of   *)
(* the servers and the intersection of the filters of all it extends.      *)
THEOREM ResolutionIsCorrect == Spec => []ResolvesLineage
<1>1. IInv => ResolvesLineage
  BY DEF IInv
<1> QED
  BY <1>1, Invariance, PTL

(* The recursion is bounded by MAX_NAMESPACE_INHERITANCE_DEPTH, and the    *)
(* names marked visiting are those of the calls on the stack.              *)
THEOREM RecursionIsBounded == Spec => []StackIsChain
<1>1. IInv => StackIsChain
  BY DEF IInv
<1> QED
  BY <1>1, Invariance, PTL

(* Least privilege (D-023): a tool that the filter of any namespace in the *)
(* lineage leaves out is out of the resolved namespace's filter.           *)
THEOREM NoToolRegained ==
    ASSUME TypeOK, ResolvesLineage,
           NEW n \in Names, visit[n] = "done",
           NEW m \in Lineage(n), NEW s \in Servers,
           config.own[m].tools[s] # NoFilter
    PROVE  /\ resolved[n].tools[s] # NoFilter
           /\ resolved[n].tools[s] \subseteq config.own[m].tools[s]
<1>1. resolved[n] = Combine(OwnAcls(Lineage(n)))
  BY DEF ResolvesLineage, Reference
<1>2. config.own[m] \in OwnAcls(Lineage(n))
  BY DEF OwnAcls
<1> QED
  BY <1>1, <1>2 DEF Combine, Permits

(* Startup rejects a config file for cause, and what it accepts is right:  *)
(* for every file and depth limit, the session's ACL is that of the        *)
(* selected namespace, no cycle and no unknown parent or server passes.    *)
THEOREM VerdictIsForCause == Spec => []VerdictIsJust
<1>1. Verdict => VerdictIsJust
  BY DEF Verdict
<1> QED
  BY <1>1, SecondInvariance, PTL

(* The .expect() of ActiveNamespace::new is never reached.                 *)
THEOREM StartupNeverPanics == Spec => []NeverPanics
<1>1. Repeatable => NeverPanics
  BY DEF Repeatable
<1> QED
  BY <1>1, SecondInvariance, PTL

(* What validate's verdict depends on: nothing but the file, every declared *)
(* namespace walked on its own, from a fresh memo.                         *)
Acceptable ==
    /\ config.active \in config.declared
    /\ \A n \in config.declared : Safe(config, Start(n)) /\ Usable(Reference(n))

(* validate goes through the namespaces in the order of a HashMap, another *)
(* at every start: no order accepts a file that another order rejects.     *)
THEOREM VerdictIsOrderFree ==
    Spec => [](/\ phase = "ready" => Acceptable
               /\ phase \in Errors => ~Acceptable)
<1>1. ASSUME Verdict, Repeatable
      PROVE  /\ phase = "ready" => Acceptable
             /\ phase \in Errors => ~Acceptable
  <2>1. phase = "ready" => Acceptable
    BY <1>1 DEF Verdict, VerdictIsJust, Repeatable, Acceptable
  <2>2. phase \in {"too_deep", "cycle", "unknown_parent"} => ~Acceptable
    BY <1>1 DEF Repeatable, Acceptable
  <2>3. phase = "unknown_namespace" => ~Acceptable
    BY <1>1 DEF Verdict, VerdictIsJust, Acceptable
  <2>4. phase \in {"effective_server_unknown", "tool_filter_unknown_server"} => ~Acceptable
    BY <1>1 DEF Verdict, VerdictIsJust, Acceptable, Usable
  <2> QED
    BY <2>1, <2>2, <2>3, <2>4 DEF Errors
<1> QED
  BY <1>1, SecondInvariance, PTL
=============================================================================
