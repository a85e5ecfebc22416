------------------------------ MODULE MCFolds -------------------------------
(* The lending adapters' folds, each over an instance of its own.       *)
EXTENDS Integers, FiniteSets, TLC

VARIABLES
  inst, pool, store, logs, dirty, drifted, failed, ops, part

vars == <<inst, pool, store, logs, dirty, drifted, failed, ops, part>>

Aave3 == INSTANCE AaveV3 WITH
    Account <- {1, 2}, Treasury <- 2, Reserve <- {1, 2}, Listed <- {1, 2},
    Instances <- {"v35", "spark", "v2"}, Ray <- 2, MaxIndex <- 4,
    MaxAmount <- 2, MaxBalance <- 2, MaxOps <- 1
Aave4 == INSTANCE AaveV4 WITH
    Spoke <- {"s1", "s2"}, User <- {"u1", "u2"}, Mapped <- {1},
    MaxAssets <- 2, MaxAmount <- 3, MaxKey <- 2, MaxOps <- 2
Morpho == INSTANCE MorphoBlue WITH
    User <- {"u1", "u2"}, FeeTo <- "u2", Market <- {"a", "b", "c", "x"},
    Tracked <- {"a", "b", "c"}, Pinned <- {"a"}, LAST_MARKET <- 2,
    Virtual <- 2, MaxAmount <- 2, MaxOps <- 2
Silo == INSTANCE SiloV2 WITH
    User <- {"u", "h"}, Hook <- "h", RESOLVED_GROWTH <- 2,
    AVERAGE_WINDOW <- 1, Ray <- 4, MaxAmount <- 2, MaxOps <- 2
Fluid == INSTANCE FluidVaults WITH
    Vault <- {1, 2, 9}, LAST_VAULT_MARKET <- 2, SmartCol <- {2},
    SmartDebt <- {2}, Unmapped <- {<<2, "col", 1>>}, MaxAmount <- 2,
    MaxOps <- 3
Liquity == INSTANCE LiquityV2 WITH
    Trove <- {1, 2, 9},
    Home <- [t \in {1, 2, 9} |-> IF t = 9 THEN "B" ELSE "A"], TAIL <- 8,
    MIN_DEBT <- 2, MaxDebt <- 2, MaxTime <- 2, MaxOps <- 3

(* A behaviour exercises one part; the parts share their variables.     *)

Init ==
  \/ /\ part = "Aave3" /\ Aave3!Init
  \/ /\ part = "Aave4" /\ Aave4!Init
  \/ /\ part = "Morpho" /\ Morpho!Init
  \/ /\ part = "Silo" /\ Silo!Init
  \/ /\ part = "Fluid" /\ Fluid!Init
  \/ /\ part = "Liquity" /\ Liquity!Init

StepAave3 == part = "Aave3" /\ Aave3!Next /\ UNCHANGED part
StepAave4 == part = "Aave4" /\ Aave4!Next /\ UNCHANGED part
StepMorpho == part = "Morpho" /\ Morpho!Next /\ UNCHANGED part
StepSilo == part = "Silo" /\ Silo!Next /\ UNCHANGED part
StepFluid == part = "Fluid" /\ Fluid!Next /\ UNCHANGED part
StepLiquity == part = "Liquity" /\ Liquity!Next /\ UNCHANGED part

Next ==
  \/ StepAave3
  \/ StepAave4
  \/ StepMorpho
  \/ StepSilo
  \/ StepFluid
  \/ StepLiquity

Spec == Init /\ [][Next]_vars

-----------------------------------------------------------------------------
(* Once a transaction's logs are folded the adapter's copy is what its  *)
(* protocol holds: balances, shares, flags and risk parameters of every *)
(* account and row no unfolded change touched, and again after a resync *)
(* (apply.rs, resync.rs of each adapter).                               *)
FoldExact ==
  /\ part = "Aave3" => Aave3!FoldExact
  /\ part = "Aave4" => Aave4!FoldExact
  /\ part = "Morpho" => Morpho!FoldExact
  /\ part = "Silo" => Silo!FoldExact
  /\ part = "Fluid" => Fluid!FoldExact
  /\ part = "Liquity" => Liquity!FoldExact

(* A fold reports every position whose health inputs it changed, by     *)
(* name, by a row the position holds, or protocol-wide (the DirtySet    *)
(* each apply_log returns).                                             *)
DirtyCovers ==
  [][/\ part = "Aave3" => Aave3!DirtyCovers
     /\ part = "Aave4" => Aave4!DirtyCovers
     /\ part = "Morpho" => Morpho!DirtyCovers
     /\ part = "Silo" => Silo!DirtyCovers
     /\ part = "Fluid" => Fluid!DirtyCovers
     /\ part = "Liquity" => Liquity!DirtyCovers]_vars
=============================================================================
