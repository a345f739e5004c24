--------------------------- MODULE MCPaperBroker ---------------------------
(* One symbol that prints, and one that never prints again. *)
EXTENDS PaperBroker, TLC

CONSTANTS a, b

MCSymmetry == Permutations(OrderIds)
MCMaxTape == [s \in Symbols |-> 4]
MCGttShapes == {[triggers |-> {1}, last |-> 2, side |-> "SELL", qty |-> 2]}
=============================================================================
