----------------------------- MODULE MCRiskGate -----------------------------
(* RiskGate with one of each scope but two assets (debt and collateral).    *)
EXTENDS RiskGate, FiniteSets, TLC

CONSTANTS a1, a2, MaxConditions

Assets == {a1, a2}
AssetSymmetry == Permutations(Assets)

(* At most MaxConditions conditions hold at a time; two on one scope and one *)
(* on another tell every case of the properties apart.                      *)
FewConditions == Cardinality(world) <= MaxConditions
=============================================================================
