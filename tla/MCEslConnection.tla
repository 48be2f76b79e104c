-------------------------- MODULE MCEslConnection --------------------------
(* Model values and symmetry for the runs of EslConnection.                *)
EXTENDS EslConnection, TLC

CONSTANTS c1, c2, c3, d1

TwoCalls == {c1, c2}
ThreeCalls == {c1, c2, c3}
OneCloser == {d1}
ThreeCallsAndCloser == {c1, c2, c3, d1}
OneCallAndCloser == {c1, d1}
NoTask == {}

\* Calls are interchangeable: no action and no invariant names one of them.
Symmetry == Permutations(ThreeCalls)

=============================================================================
