------------------------------ MODULE Elicitation ------------------------------
(***************************************************************************)
(* Forwarding of upstream elicitation requests to the downstream client    *)
(* (src/src/forward.rs, and the peer capture in src/src/main.rs).          *)
(*                                                                         *)
(* While it works on a tool call an upstream may ask the user a question.  *)
(* The handler forwards it if the downstream peer has been captured and    *)
(* declared elicitation, waits for the answer under a timer of its own,    *)
(* and gives the upstream a verdict.  The tool call runs under a second    *)
(* timer in the registry, and may also be cancelled.  A call asks at most  *)
(* one question here, so a question is named by its call.                  *)
(***************************************************************************)
EXTENDS Naturals

CONSTANTS
    Calls,          \* forwarded tool calls
    Upstreams,      \* connected upstream servers
    Via,            \* the upstream that runs each call
    Timeout         \* ticks in timeout_secs, the same for every upstream

ASSUME ViaAssumption == Via \in [Calls -> Upstreams]
ASSUME TimeoutAssumption == Timeout \in Nat \ {0}

VARIABLES
    declared,       \* the client declared elicitation at initialize
    captured,       \* the downstream peer cell has been set
    present,        \* the downstream client is still connected
    advertised,     \* what each upstream was told: unset, yes or no
    call,           \* each call: new, active, or how it ended
    callLeft,       \* ticks left of the registry's call timeout
    prompt,         \* the question as the client sees it
    promptLeft,     \* ticks left of create_elicitation_with_timeout
    verdict         \* what the upstream was told

vars == <<declared, captured, present, advertised, call, callLeft, prompt,
          promptLeft, verdict>>

callVars == <<call, callLeft>>
promptVars == <<prompt, promptLeft>>
sessionVars == <<declared, captured, present, advertised>>

(* The client accepts, declines (or cancels), or answers with an error. *)
ClientAnswers == {"accept", "decline", "error"}
Ended == {"answered", "timed_out", "cancelled"}

TypeOK ==
    /\ declared \in BOOLEAN
    /\ captured \in BOOLEAN
    /\ present \in BOOLEAN
    /\ advertised \in [Upstreams -> {"unset", "yes", "no"}]
    /\ call \in [Calls -> {"new", "active"} \cup Ended]
    /\ callLeft \in [Calls -> 0 .. Timeout]
    /\ prompt \in [Calls -> {"none", "shown", "withdrawn"} \cup ClientAnswers]
    /\ promptLeft \in [Calls -> 0 .. Timeout]
    /\ verdict \in [Calls -> {"none", "accept", "decline", "rejected",
                              "non_accept"}]

Init ==
    /\ declared \in BOOLEAN
    /\ captured = FALSE
    /\ present = TRUE
    /\ advertised = [u \in Upstreams |-> "unset"]
    /\ call = [c \in Calls |-> "new"]
    /\ callLeft = [c \in Calls |-> 0]
    /\ prompt = [c \in Calls |-> "none"]
    /\ promptLeft = [c \in Calls |-> 0]
    /\ verdict = [c \in Calls |-> "none"]

(* downstream_elicitation_available: one condition, read when it is needed. *)
Available == captured /\ declared

(* A forwarded question the upstream is still waiting on. *)
Pending(c) == prompt[c] # "none" /\ verdict[c] = "none"

Decide(c, v) == verdict' = [verdict EXCEPT ![c] = v]

-----------------------------------------------------------------------------
(* The session *)

(* serve(stdio()) has returned.  Its service loop is already running, so   *)
(* requests can be handled before this.                                    *)
CapturePeer ==
    /\ ~captured
    /\ captured' = TRUE
    /\ UNCHANGED <<declared, present, advertised, callVars, promptVars, verdict>>

ClientLeaves ==
    /\ present
    /\ present' = FALSE
    /\ UNCHANGED <<declared, captured, advertised, callVars, promptVars, verdict>>

(* As if: the capability is advertised without asking for the peer. *)
ConnectDeclared(u) ==
    /\ advertised[u] = "unset"
    /\ \E c \in Calls : Via[c] = u /\ call[c] = "new"
    /\ advertised' = [advertised EXCEPT ![u] = IF declared THEN "yes" ELSE "no"]
    /\ UNCHANGED <<declared, captured, present, callVars, promptVars, verdict>>

(* The handshake of a lazily opened upstream reads get_info once. *)
Connect(u) ==
    /\ advertised[u] = "unset"
    /\ \E c \in Calls : Via[c] = u /\ call[c] = "new"
    /\ advertised' = [advertised EXCEPT ![u] = IF Available THEN "yes" ELSE "no"]
    /\ UNCHANGED <<declared, captured, present, callVars, promptVars, verdict>>

-----------------------------------------------------------------------------
(* The tool call *)

ForwardCall(c) ==
    /\ call[c] = "new"
    /\ advertised[Via[c]] # "unset"
    /\ call' = [call EXCEPT ![c] = "active"]
    /\ callLeft' = [callLeft EXCEPT ![c] = Timeout]
    /\ UNCHANGED <<sessionVars, promptVars, verdict>>

(* The upstream's result, or the client's cancellation. *)
EndCall(c) ==
    /\ call[c] = "active"
    /\ \E how \in {"answered", "cancelled"} : call' = [call EXCEPT ![c] = how]
    /\ UNCHANGED <<sessionVars, callLeft, promptVars, verdict>>

CallExpires(c) ==
    /\ call[c] = "active"
    /\ callLeft[c] = 0
    /\ call' = [call EXCEPT ![c] = "timed_out"]
    /\ UNCHANGED <<sessionVars, callLeft, promptVars, verdict>>

-----------------------------------------------------------------------------
(* The question *)

(* As if: the timer is given the timeout twice over. *)
ElicitDoubleBudget(c) ==
    /\ call[c] # "new"
    /\ prompt[c] = "none"
    /\ verdict[c] = "none"
    /\ Available /\ present
    /\ prompt' = [prompt EXCEPT ![c] = "shown"]
    /\ promptLeft' = [promptLeft EXCEPT ![c] = 2 * Timeout]
    /\ UNCHANGED <<sessionVars, callVars, verdict>>

(* create_elicitation.  Nothing ties the question to the call: an upstream *)
(* that was not told of the call's end may still ask.                      *)
Elicit(c) ==
    /\ call[c] # "new"
    /\ prompt[c] = "none"
    /\ verdict[c] = "none"
    /\ \/ /\ Available /\ present
          /\ prompt' = [prompt EXCEPT ![c] = "shown"]
          /\ promptLeft' = [promptLeft EXCEPT ![c] = Timeout]
          /\ UNCHANGED verdict
       \/ /\ Available /\ ~present
          /\ Decide(c, "non_accept")
          /\ UNCHANGED promptVars
       \/ /\ ~Available
          /\ Decide(c, "rejected")
          /\ UNCHANGED promptVars
    /\ UNCHANGED <<sessionVars, callVars>>

ClientAnswersPrompt(c) ==
    /\ present
    /\ prompt[c] = "shown"
    /\ \E a \in ClientAnswers : prompt' = [prompt EXCEPT ![c] = a]
    /\ UNCHANGED <<sessionVars, callVars, promptLeft, verdict>>

(* As if: one slot for the current question, whoever asked it. *)
RelayAnswerToAny(c) ==
    /\ Pending(c)
    /\ \E d \in Calls : /\ prompt[d] \in ClientAnswers
                        /\ Decide(c, IF prompt[d] = "error" THEN "non_accept"
                                                            ELSE prompt[d])
    /\ UNCHANGED <<sessionVars, callVars, promptVars>>

(* The answer is relayed verbatim; an error is never an accept. *)
RelayAnswer(c) ==
    /\ Pending(c)
    /\ prompt[c] \in ClientAnswers
    /\ Decide(c, IF prompt[c] = "error" THEN "non_accept" ELSE prompt[c])
    /\ UNCHANGED <<sessionVars, callVars, promptVars>>

(* As if: the forward waits as long as the client does. *)
PromptNeverExpires(c) ==
    /\ FALSE
    /\ UNCHANGED vars

(* The timer fires, possibly with an answer on its way.  The client is     *)
(* told to drop the question, the upstream gets a non-accept.              *)
PromptExpires(c) ==
    /\ Pending(c)
    /\ promptLeft[c] = 0
    /\ Decide(c, "non_accept")
    /\ prompt' = [prompt EXCEPT ![c] = IF @ = "shown" THEN "withdrawn" ELSE @]
    /\ UNCHANGED <<sessionVars, callVars, promptLeft>>

(* The downstream transport is gone and so is the answer. *)
PromptDropped(c) ==
    /\ Pending(c)
    /\ ~present
    /\ Decide(c, "non_accept")
    /\ UNCHANGED <<sessionVars, callVars, promptVars>>

-----------------------------------------------------------------------------
(* Time passes; a timer that has run out fires before it goes on.  With no *)
(* timer running there is nothing to count.                                *)
Tick ==
    /\ \A c \in Calls : /\ call[c] = "active" => callLeft[c] > 0
                        /\ Pending(c) => promptLeft[c] > 0
    /\ \E c \in Calls : call[c] = "active" \/ Pending(c)
    /\ callLeft' = [c \in Calls |->
                       IF call[c] = "active" THEN callLeft[c] - 1 ELSE callLeft[c]]
    /\ promptLeft' = [c \in Calls |->
                       IF Pending(c) THEN promptLeft[c] - 1 ELSE promptLeft[c]]
    /\ UNCHANGED <<sessionVars, call, prompt, verdict>>

Next ==
    \/ CapturePeer
    \/ ClientLeaves
    \/ \E u \in Upstreams : Connect(u)
    \/ \E c \in Calls :
          \/ ForwardCall(c) \/ EndCall(c) \/ CallExpires(c) \/ Elicit(c)
          \/ ClientAnswersPrompt(c) \/ RelayAnswer(c) \/ PromptExpires(c)
          \/ PromptDropped(c)
    \/ Tick

Spec == Init /\ [][Next]_vars

(* The clock runs and expired timers fire; nothing is assumed of the       *)
(* client, the upstreams or the relaying of answers.                       *)
FairSpec ==
    /\ Spec
    /\ WF_vars(Tick)
    /\ \A c \in Calls : WF_vars(CallExpires(c)) /\ WF_vars(PromptExpires(c))

-----------------------------------------------------------------------------
(* Properties *)

(* Default deny: an upstream is told "accept" only if the client accepted  *)
(* that very question, and never after the client was told to drop it,     *)
(* whatever other upstreams ask at the same time and however a late answer *)
(* races the timer.                                                        *)
AcceptIsConsent ==
    \A c \in Calls : verdict[c] = "accept" => prompt[c] = "accept"

(* Capability honesty (GOTCHA 8): an upstream that was told elicitation is *)
(* available is never refused for lack of it later in the session.         *)
HonestCapability ==
    \A c \in Calls : verdict[c] = "rejected" => advertised[Via[c]] # "yes"

(* No question dangles: every forwarded one gets a verdict although the    *)
(* client never answers.                                                   *)
EveryPromptResolved ==
    \A c \in Calls : Pending(c) ~> verdict[c] # "none"

(* The deadline D-020 documents: while a call is running, the question it  *)
(* asked has no more time left than the call.                              *)
InheritsCallDeadline ==
    \A c \in Calls :
        (call[c] = "active" /\ Pending(c)) => promptLeft[c] <= callLeft[c]
=============================================================================
