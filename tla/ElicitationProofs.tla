--------------------------- MODULE ElicitationProofs ---------------------------
(***************************************************************************)
(* Type correctness and the two safety invariants of Elicitation, for any  *)
(* number of calls, upstreams and ticks.                                   *)
(***************************************************************************)
EXTENDS Elicitation, TLAPS

(* An upstream was told "yes" only under the condition that still gates the *)
(* forwarding, since neither conjunct of Available is ever withdrawn.      *)
AdvertisedIsAvailable ==
    \A u \in Upstreams : advertised[u] = "yes" => Available

(* A call is forwarded over a finished handshake only, and what a handshake *)
(* said is not said again.                                                 *)
ForwardedIsConnected ==
    \A c \in Calls : call[c] # "new" => advertised[Via[c]] # "unset"

RejectedIsUnadvertised ==
    \A c \in Calls : verdict[c] = "rejected" => advertised[Via[c]] = "no"

Honesty == AdvertisedIsAvailable /\ ForwardedIsConnected /\ RejectedIsUnadvertised

(* The state is well typed: no timer of create_elicitation or of call_tool  *)
(* ever holds more than the configured timeout, or runs below zero.        *)
THEOREM TypeCorrect == Spec => []TypeOK
<1>1. Init => TypeOK
  <2> SUFFICES ASSUME Init
               PROVE  TypeOK
    OBVIOUS
  <2>1. /\ callLeft \in [Calls -> 0 .. Timeout]
        /\ promptLeft \in [Calls -> 0 .. Timeout]
    BY TimeoutAssumption DEF Init
  <2>2. /\ declared \in BOOLEAN /\ captured \in BOOLEAN /\ present \in BOOLEAN
    BY DEF Init
  <2> QED
    BY <2>1, <2>2 DEF Init, TypeOK
<1>2. TypeOK /\ [Next]_vars => TypeOK'
  <2> SUFFICES ASSUME TypeOK, [Next]_vars
               PROVE  TypeOK'
    OBVIOUS
  <2> USE ViaAssumption, TimeoutAssumption DEF TypeOK
  <2>1. CASE CapturePeer
    BY <2>1 DEF CapturePeer, callVars, promptVars
  <2>2. CASE ClientLeaves
    BY <2>2 DEF ClientLeaves, callVars, promptVars
  <2>3. ASSUME NEW u \in Upstreams, Connect(u)
        PROVE  TypeOK'
    BY <2>3 DEF Connect, callVars, promptVars
  <2>4. ASSUME NEW c \in Calls, ForwardCall(c)
        PROVE  TypeOK'
    BY <2>4 DEF ForwardCall, sessionVars, promptVars
  <2>5. ASSUME NEW c \in Calls, EndCall(c)
        PROVE  TypeOK'
    BY <2>5 DEF EndCall, sessionVars, promptVars, Ended
  <2>6. ASSUME NEW c \in Calls, CallExpires(c)
        PROVE  TypeOK'
    BY <2>6 DEF CallExpires, sessionVars, promptVars, Ended
  <2>7. ASSUME NEW c \in Calls, Elicit(c)
        PROVE  TypeOK'
    BY <2>7 DEF Elicit, Decide, sessionVars, callVars, promptVars
  <2>8. ASSUME NEW c \in Calls, ClientAnswersPrompt(c)
        PROVE  TypeOK'
    BY <2>8 DEF ClientAnswersPrompt, sessionVars, callVars
  <2>9. ASSUME NEW c \in Calls, RelayAnswer(c)
        PROVE  TypeOK'
    BY <2>9 DEF RelayAnswer, Decide, sessionVars, callVars, promptVars,
                ClientAnswers
  <2>10. ASSUME NEW c \in Calls, PromptExpires(c)
         PROVE  TypeOK'
    BY <2>10 DEF PromptExpires, Decide, sessionVars, callVars
  <2>11. ASSUME NEW c \in Calls, PromptDropped(c)
         PROVE  TypeOK'
    BY <2>11 DEF PromptDropped, Decide, sessionVars, callVars, promptVars
  <2>12. CASE Tick
    <3>1. \A c \in Calls : /\ callLeft'[c] \in 0 .. Timeout
                           /\ promptLeft'[c] \in 0 .. Timeout
      BY <2>12 DEF Tick
    <3>2. /\ callLeft' = [c \in Calls |-> callLeft'[c]]
          /\ promptLeft' = [c \in Calls |-> promptLeft'[c]]
      BY <2>12 DEF Tick
    <3>3. /\ callLeft' \in [Calls -> 0 .. Timeout]
          /\ promptLeft' \in [Calls -> 0 .. Timeout]
      BY <3>1, <3>2
    <3> QED BY <2>12, <3>3 DEF Tick, sessionVars
  <2>13. CASE UNCHANGED vars
    BY <2>13 DEF vars
  <2> QED
    BY <2>1, <2>2, <2>3, <2>4, <2>5, <2>6, <2>7, <2>8, <2>9, <2>10, <2>11,
       <2>12, <2>13 DEF Next
<1> QED
  BY <1>1, <1>2, PTL DEF Spec

(* Default deny: whatever other questions are open and however a late      *)
(* answer races the timer, create_elicitation tells an upstream "accept"   *)
(* only if the client accepted that question before it was withdrawn.      *)
THEOREM AcceptNeedsConsent == Spec => []AcceptIsConsent
<1>1. Init => AcceptIsConsent
  BY DEF Init, AcceptIsConsent
<1>2. TypeOK /\ AcceptIsConsent /\ [Next]_vars => AcceptIsConsent'
  <2> SUFFICES ASSUME TypeOK, AcceptIsConsent, [Next]_vars,
                      NEW d \in Calls, verdict'[d] = "accept"
               PROVE  prompt'[d] = "accept"
    BY DEF AcceptIsConsent
  <2> USE DEF TypeOK, AcceptIsConsent
  <2>1. CASE UNCHANGED <<prompt, verdict>>
    BY <2>1
  <2>2. ASSUME NEW c \in Calls, Elicit(c)
        PROVE  prompt'[d] = "accept"
    BY <2>2 DEF Elicit, Decide, promptVars
  <2>3. ASSUME NEW c \in Calls, ClientAnswersPrompt(c)
        PROVE  prompt'[d] = "accept"
    BY <2>3 DEF ClientAnswersPrompt
  <2>4. ASSUME NEW c \in Calls, RelayAnswer(c)
        PROVE  prompt'[d] = "accept"
    BY <2>4 DEF RelayAnswer, Decide, promptVars
  <2>5. ASSUME NEW c \in Calls, PromptExpires(c)
        PROVE  prompt'[d] = "accept"
    BY <2>5 DEF PromptExpires, Decide, Pending
  <2>6. ASSUME NEW c \in Calls, PromptDropped(c)
        PROVE  prompt'[d] = "accept"
    BY <2>6 DEF PromptDropped, Decide, promptVars
  <2>7. CASE CapturePeer \/ ClientLeaves \/ Tick
    BY <2>1, <2>7 DEF CapturePeer, ClientLeaves, Tick, promptVars
  <2>8. ASSUME NEW c \in Calls, ForwardCall(c) \/ EndCall(c) \/ CallExpires(c)
        PROVE  prompt'[d] = "accept"
    BY <2>1, <2>8 DEF ForwardCall, EndCall, CallExpires, promptVars
  <2>9. ASSUME NEW u \in Upstreams, Connect(u)
        PROVE  prompt'[d] = "accept"
    BY <2>1, <2>9 DEF Connect, promptVars
  <2>10. CASE UNCHANGED vars
    BY <2>1, <2>10 DEF vars
  <2> QED
    BY <2>2, <2>3, <2>4, <2>5, <2>6, <2>7, <2>8, <2>9, <2>10 DEF Next
<1> QED
  BY <1>1, <1>2, TypeCorrect, PTL DEF Spec

(* Honesty is inductive: the peer cell is set once and what the client     *)
(* declared does not change, so a "yes" given at a handshake stays true.   *)
LEMMA HonestyInvariant == Spec => []Honesty
<1> USE DEF Honesty, AdvertisedIsAvailable, ForwardedIsConnected,
            RejectedIsUnadvertised
<1>1. Init => Honesty
  BY ViaAssumption DEF Init
<1>2. TypeOK /\ Honesty /\ [Next]_vars => Honesty'
  <2> SUFFICES ASSUME TypeOK, Honesty, [Next]_vars
               PROVE  Honesty'
    OBVIOUS
  <2> USE ViaAssumption DEF TypeOK, Available
  <2>1. CASE CapturePeer
    BY <2>1 DEF CapturePeer, callVars
  <2>2. CASE ClientLeaves \/ Tick
    BY <2>2 DEF ClientLeaves, Tick, sessionVars, callVars
  <2>3. ASSUME NEW u \in Upstreams, Connect(u)
        PROVE  Honesty'
    BY <2>3 DEF Connect, callVars
  <2>4. ASSUME NEW c \in Calls, ForwardCall(c)
        PROVE  Honesty'
    BY <2>4 DEF ForwardCall, sessionVars
  <2>5. ASSUME NEW c \in Calls, EndCall(c) \/ CallExpires(c)
        PROVE  Honesty'
    BY <2>5 DEF EndCall, CallExpires, sessionVars, Ended
  <2>6. ASSUME NEW c \in Calls, Elicit(c)
        PROVE  Honesty'
    BY <2>6 DEF Elicit, Decide, sessionVars, callVars
  <2>7. ASSUME NEW c \in Calls,
               ClientAnswersPrompt(c) \/ RelayAnswer(c) \/ PromptExpires(c)
                   \/ PromptDropped(c)
        PROVE  Honesty'
    BY <2>7 DEF ClientAnswersPrompt, RelayAnswer, PromptExpires, PromptDropped,
                Decide, Pending, ClientAnswers, sessionVars, callVars
  <2>8. CASE UNCHANGED vars
    BY <2>8 DEF vars
  <2> QED
    BY <2>1, <2>2, <2>3, <2>4, <2>5, <2>6, <2>7, <2>8 DEF Next
<1> QED
  BY <1>1, <1>2, TypeCorrect, PTL DEF Spec

(* Capability honesty: create_elicitation never refuses an upstream whose  *)
(* handshake was answered with the elicitation capability.                 *)
THEOREM AdvertisedIsNeverRejected == Spec => []HonestCapability
<1>1. TypeOK /\ Honesty => HonestCapability
  BY ViaAssumption DEF Honesty, RejectedIsUnadvertised, HonestCapability
<1> QED
  BY <1>1, TypeCorrect, HonestyInvariant, PTL
=============================================================================
