--------------------------- MODULE MCSignalFunnel ---------------------------
(* Two pairs of a strategy that has one slot. *)
EXTENDS SignalFunnel, TLC

CONSTANTS a, b, c, orb

MCStrategyOf == [pair \in Pairs |-> orb]
MCStrategyCap == (orb :> 1)
MCTwoSlots == (orb :> 2)
MCSymmetry == Permutations(Pairs)
=============================================================================
