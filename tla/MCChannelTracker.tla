-------------------------- MODULE MCChannelTracker --------------------------
(***************************************************************************)
(* Two channels, which the fields of the code do not tell apart.           *)
(***************************************************************************)
EXTENDS ChannelTracker, TLC

CONSTANTS a, b

TwoChannels == {a, b}

\* For runs without temporal properties only.
Symmetry == Permutations(TwoChannels)

=============================================================================
