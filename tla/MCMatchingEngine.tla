-------------------------- MODULE MCMatchingEngine --------------------------
(* Instances of MatchingEngine for TLC. *)
EXTENDS MatchingEngine, TLC

\* Order ids are only compared with one another.
IdSymmetry == Permutations(OrderIds)

NoFlags == {{}}
SomeFlagSets == {{}, {"post_only"}, {"hidden"}, {"iceberg"}}
=============================================================================
