----------------------------- MODULE MCElicitation -----------------------------
(* Two calls through two upstreams that may ask at the same time. *)
EXTENDS Elicitation

CONSTANTS c1, c2, u1, u2

TwoCalls == {c1, c2}
TwoUpstreams == {u1, u2}
OneEach == [c \in TwoCalls |-> IF c = c1 THEN u1 ELSE u2]
=============================================================================
