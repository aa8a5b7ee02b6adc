------------------------------ MODULE ClosedLoop ------------------------------
(***************************************************************************)
(* What a closed-loop load promises: the requests start in their declared  *)
(* order, each once, and at most Concurrency of them are running.          *)
(***************************************************************************)
EXTENDS Naturals, Sequences, FiniteSets

CONSTANT Concurrency

VARIABLES order, started, running

vars == <<order, started, running>>

Init == started = <<>> /\ running = {}

Start ==
  \E n \in (Len(started) + 1)..Len(order) :
    LET new == {order[i] : i \in (Len(started) + 1)..n}
    IN /\ Cardinality(running \cup new) <= Concurrency
       /\ started' = SubSeq(order, 1, n)
       /\ running' = running \cup new
       /\ UNCHANGED order

End(r) == r \in running /\ running' = running \ {r} /\ UNCHANGED <<order, started>>

Next == Start \/ \E r \in running : End(r)

Spec == Init /\ [][Next]_vars
=============================================================================
