----------------------------- MODULE MCSweepRace -----------------------------
(* Small instances of SweepRace for TLC. *)
EXTENDS SweepRace, TLC

CONSTANTS n1, n2, g1, g2, a, b

\* One payment, in the block the final link names.
OnePaid == n1 :> 1

\* Two payments, in blocks a lagging gateway may or may not serve.
TwoPaid == n1 :> 1 @@ n2 :> 2

TabSymmetry == Permutations(Tabs)
=============================================================================
