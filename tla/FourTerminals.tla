---------------------------- MODULE FourTerminals ----------------------------
(***************************************************************************)
(* What the evidence of a completed request promises of its stream: the    *)
(* generation, usage, protocol and transport terminal, each once and each  *)
(* strictly later than the one before.  at[i] is the time of terminal i,   *)
(* 0 while it has not been seen.  A stream may be refused at any time and  *)
(* is then done with.                                                      *)
(***************************************************************************)
EXTENDS Naturals

CONSTANT Times  \* the values of the clock, none of them 0

VARIABLES at, outcome

vars == <<at, outcome>>

Terminals == 1..4

Init == at = [i \in Terminals |-> 0] /\ outcome = "open"

Reach(i) ==
  /\ outcome = "open"
  /\ at[i] = 0
  /\ \E t \in Times :
       /\ \A j \in 1..(i - 1) : at[j] # 0 /\ at[j] < t
       /\ at' = [at EXCEPT ![i] = t]

\* The last terminal decides what becomes of the stream.
Observe == \E i \in 1..3 : Reach(i) /\ UNCHANGED outcome
Finish == Reach(4) /\ outcome' \in {"evidence", "refused"}
Refuse == outcome = "open" /\ outcome' = "refused" /\ UNCHANGED at

Next == Observe \/ Finish \/ Refuse

Spec == Init /\ [][Next]_vars
=============================================================================
