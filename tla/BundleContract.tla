---------------------------- MODULE BundleContract ----------------------------
(***************************************************************************)
(* What a Stage 2 evidence bundle promises, without directories, syncs or  *)
(* steps.  seen[b] is what inspect_bundle_state reports of bundle b,       *)
(* told[b] what the caller that built it was told: nothing yet, that it is *)
(* committed, or that it is invalid.  Until the caller is told, the bundle *)
(* may still be published and retracted; what was told is never withdrawn, *)
(* not even by a power loss, and nothing but a power loss (losses counts   *)
(* them) moves a bundle in any other way.                                  *)
(***************************************************************************)
EXTENDS Naturals

CONSTANT Bundles

VARIABLES seen, told, losses

vars == <<seen, told, losses>>

Seen == {"INCOMPLETE", "INVALID", "COMMITTED"}
Told == {"nothing", "committed", "invalid"}

Init ==
  /\ seen = [b \in Bundles |-> "INCOMPLETE"]
  /\ told = [b \in Bundles |-> "nothing"]
  /\ losses = 0

Turn(b, from, to) ==
  /\ told[b] = "nothing"
  /\ seen[b] = from
  /\ seen' = [seen EXCEPT ![b] = to]
  /\ UNCHANGED <<told, losses>>

Publish(b) == Turn(b, "INCOMPLETE", "COMMITTED")
Retract(b) == Turn(b, "COMMITTED", "INCOMPLETE")
Condemn(b) == Turn(b, "INCOMPLETE", "INVALID")

Answer(b, answer, state) ==
  /\ told[b] = "nothing"
  /\ seen[b] = state
  /\ told' = [told EXCEPT ![b] = answer]
  /\ UNCHANGED <<seen, losses>>

Confirm(b) == Answer(b, "committed", "COMMITTED")
Reject(b) == Answer(b, "invalid", "INVALID")

PowerLoss ==
  /\ losses' = losses + 1
  /\ seen' \in [Bundles -> Seen]
  /\ \A b \in Bundles : told[b] # "nothing" => seen'[b] = seen[b]
  /\ UNCHANGED told

Next ==
  \/ \E b \in Bundles : Publish(b) \/ Retract(b) \/ Condemn(b) \/ Confirm(b) \/ Reject(b)
  \/ PowerLoss

Spec == Init /\ [][Next]_vars
=============================================================================
