-------------------------- MODULE MCBundleLifecycle --------------------------
(* BundleLifecycle with one raw file, the derived file it reconstructs to    *)
(* and a derived file nothing reconstructs to.                               *)
EXTENDS BundleLifecycle

CONSTANTS b1, b2, requests, summary, stray

MCRaw == {requests}
MCDerived == {summary, stray}
MCReconstruct(R) == IF requests \in R THEN {summary} ELSE {}
=============================================================================
