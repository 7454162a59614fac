-------------------------- MODULE MCPriceTracking --------------------------
(* TLC instances of PriceTracking. *)
EXTENDS PriceTracking, TLC

\* The identifiers that can be published within the bounds.
MCEvents == LeaderIds \cup TargetIds

Symmetry == Permutations(Monitors) \cup Permutations(Handlers) \cup Permutations(Savers)
=============================================================================
