----------------------------- MODULE Lifecycle -----------------------------
(***************************************************************************)
(* What the deployment ledger promises about a device it only hears from:  *)
(* a deployment moves from an intention to a delivery to what the device   *)
(* has said of it, no claim is ever ahead of the device's word, and none   *)
(* is taken back except by the deployment ending.  Gates, sequence         *)
(* numbers, slots and locks are left out.                                  *)
(***************************************************************************)
CONSTANT Deployment

VARIABLES
  word,    \* what the device has said of each deployment
  claim    \* what the ledger says of it

vars == <<word, claim>>

Words == {"installed", "activated", "reverted"}

Init ==
  /\ word = [d \in Deployment |-> {}]
  /\ claim = [d \in Deployment |-> "none"]

MayClaim(d, c) ==
  \/ c = "intended" /\ claim[d] = "none"
  \/ c = "sent"     /\ claim[d] = "intended"
  \/ c = "refused"  /\ claim[d] \in {"intended", "sent"} /\ word[d] = {}
  \/ c = "held"     /\ claim[d] = "sent" /\ "installed" \in word[d]
  \/ c = "running"  /\ claim[d] = "held" /\ "activated" \in word[d]
  \/ c = "over"     /\ claim[d] \in {"held", "running"} /\ "reverted" \in word[d]

\* The ledger is written: one deployment's claim moves one step.
Claim(d) ==
  \E c \in {"intended", "sent", "refused", "held", "running", "over"} :
    /\ MayClaim(d, c)
    /\ claim' = [claim EXCEPT ![d] = c]
    /\ UNCHANGED word

\* The device speaks: of nothing it was not sent, or that it refused.
Speak(d, w) ==
  /\ IF w = "installed" THEN claim[d] = "sent" ELSE "installed" \in word[d]
  /\ word' = [word EXCEPT ![d] = @ \cup {w}]
  /\ UNCHANGED claim

Next == \E d \in Deployment : Claim(d) \/ \E w \in Words : Speak(d, w)

Spec == Init /\ [][Next]_vars
=============================================================================
