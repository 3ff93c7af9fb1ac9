-------------------------- MODULE MCNamespaceResolver --------------------------
(* Three declared namespaces and an undeclared name: all extends lists of   *)
(* length at most two, and all ACLs on a diamond, a chain and a fan.      *)
EXTENDS NamespaceResolver

CONSTANTS a, b, c, x, s1, s2, t1, t2

FourNames == {a, b, c, x}
Declared == {a, b, c}
TwoServers == {s1, s2}
OneConfigured == {s1}
TwoTools == {t1, t2}

Lists == {<<>>} \cup {<<m>> : m \in FourNames}
                \cup {<<m, n>> : m \in FourNames, n \in FourNames}

File(extends, own) ==
    [active |-> a, declared |-> Declared, extends |-> extends, own |-> own]

Own(servers, filter) ==
    [servers |-> servers, tools |-> [s \in TwoServers |-> IF s = s1 THEN filter ELSE NoFilter]]

Blank == Own({}, NoFilter)

(* Each namespace but one adds something of its own. *)
Marked == [n \in FourNames |->
             CASE n = a -> Own({s1}, NoFilter)
               [] n = b -> Own({s1}, {t1})
               [] n = c -> Own({s1}, {t2})
               [] n = x -> Blank]

Shapes == {File([n \in FourNames |-> IF n = x THEN <<>> ELSE e[n]], Marked) :
              e \in [Declared -> Lists]}

Links(la, lb) == [n \in FourNames |-> IF n = a THEN la ELSE IF n = b THEN lb ELSE <<>>]

SomeAcls == {Own(servers, filter) : servers \in {{}, {s1}, {s1, s2}},
                                    filter \in {NoFilter, {}, {t1}, {t1, t2}}}

Contents == {File(e, [n \in FourNames |-> IF n = x THEN Blank ELSE o[n]]) :
                e \in {Links(<<c, b>>, <<c>>), Links(<<b>>, <<c>>), Links(<<b, c>>, <<>>)},
                o \in [Declared -> SomeAcls]}

Unselectable == [File([n \in FourNames |-> <<>>], Marked) EXCEPT !.active = x]

AllConfigs == Shapes \cup Contents \cup {Unselectable}
=============================================================================
