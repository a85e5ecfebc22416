------------------------------ MODULE MCHealth ------------------------------
(* What the lending adapters compute from their copies, each over an    *)
(* instance of its own.                                                 *)
EXTENDS Integers, FiniteSets, TLC

VARIABLES
  acct, px, ts, gate, part

vars == <<acct, px, ts, gate, part>>

Aave3Risk == <<[lt |-> 8, bonus |-> 11, fee |-> 0, rate |-> 40], [lt |-> 6, bonus |-> 12, fee |-> 3, rate |-> 0]>>
Aave4Hub == <<[rate |-> 20, fee |-> 1, liq |-> 3, added |-> 6, drawn |-> 3, prem |-> 1],
              [rate |-> 0, fee |-> 0, liq |-> 5, added |-> 4, drawn |-> 0, prem |-> 0]>>
Aave4Factor == <<[cf |-> 8, bonus |-> 11], [cf |-> 6, bonus |-> 13]>>
Aave3 == INSTANCE AaveHealth WITH
    Reserve <- {1, 2}, Versions <- {"v3", "spark", "v2"}, Unit <- 2,
    Risk <- Aave3Risk, Balances <- {0, 2, 5}, MaxPrice <- 3, MaxTime <- 1,
    Ray <- 100, Wad <- 100, Bps <- 10, Year <- 4, Horizon <- 4, Window <- 1,
    MinBase <- 4, CloseFactor <- 5, CloseHf <- 60
Aave4 == INSTANCE AaveV4Health WITH
    Reserve <- {1, 2}, Hub <- Aave4Hub, Factor <- Aave4Factor,
    MaxShares <- 2, MaxPrice <- 3, MaxTime <- 1, Scale <- 2, Ray <- 10,
    Wad <- 20, Bps <- 10, Unit <- 2, Year <- 4, Virtual <- 2, Horizon <- 6,
    Dust <- 40, TargetHf <- 24, HfForMax <- 14, BonusFactor <- 5
Morpho == INSTANCE MorphoHealth WITH
    Lift <- 3, Lltvs <- {8, 9}, Rates <- {0, 1}, MaxShares <- 5,
    Collaterals <- {0, 2, 5}, BorrowAssets <- {2, 5},
    BorrowShares <- {5, 7}, MaxPrice <- 3, MaxTime <- 1, Wad <- 10,
    Scale <- 6, Virtual <- 2, Cursor <- 3, MaxLif <- 12, Horizon <- 6
Silo == INSTANCE SiloHealth WITH
    DebtShares <- {0, 1, 5}, CollShares <- {0, 2, 6}, ProtShares <- {0, 3},
    DebtTotals <- {5, 8}, CollTotals <- {9, 12}, Lent <- {6}, Lts <- {8},
    Targets <- {0, 7}, Rates <- {0, 1}, Fee <- 1, InterestFee <- 2,
    Shares <- 8, MaxPrice <- 3, MaxTime <- 1, Wad <- 10, Ray <- 10,
    Unit <- 2, Offset <- 1, Full <- 9, Haircut <- 10
Fluid == INSTANCE FluidHealth WITH
    MaxAmount <- 2, MaxPrice <- 3, MaxTime <- 3, FRESH_SECS <- 1, Ray <- 10,
    Unit <- 2
Liquity == INSTANCE LiquityHealth WITH
    Debts <- {0, 3, 8}, Colls <- {0, 2, 6}, Rates <- {0, 5},
    Batches <- {[debt |-> 9, shares |-> 2, total |-> 3, fee |-> 2], [debt |-> 0, shares |-> 0, total |-> 0, fee |-> 1]},
    Shutdowns <- {0, 2}, Pools <- {0, 1, 6}, Gains <- {0, 5}, MCR <- 11,
    Wad <- 10, Year <- 2, Ray <- 100, ETH_GAS <- 2, GAS_DIVISOR <- 2,
    GAS_CAP <- 2, MIN_IN_SP <- 1, MaxPrice <- 3, MaxTime <- 2, Horizon <- 6

(* A behaviour exercises one part; the parts share their variables.     *)

Init ==
  \/ /\ part = "Aave3" /\ Aave3!Init
  \/ /\ part = "Aave4" /\ Aave4!Init
  \/ /\ part = "Morpho" /\ Morpho!Init
  \/ /\ part = "Silo" /\ Silo!Init
  \/ /\ part = "Fluid" /\ Fluid!Init
  \/ /\ part = "Liquity" /\ Liquity!Init

StepAave3 == part = "Aave3" /\ Aave3!Next /\ UNCHANGED part
StepAave4 == part = "Aave4" /\ Aave4!Next /\ UNCHANGED part
StepMorpho == part = "Morpho" /\ Morpho!Next /\ UNCHANGED part
StepSilo == part = "Silo" /\ Silo!Next /\ UNCHANGED part
StepFluid == part = "Fluid" /\ Fluid!Next /\ UNCHANGED part
StepLiquity == part = "Liquity" /\ Liquity!Next /\ UNCHANGED part

Next ==
  \/ StepAave3
  \/ StepAave4
  \/ StepMorpho
  \/ StepSilo
  \/ StepFluid
  \/ StepLiquity

Spec == Init /\ [][Next]_vars

-----------------------------------------------------------------------------
(* The price each adapter gives the threshold index is the last healthy *)
(* one: healthy there, not one unit further toward danger; where it     *)
(* gives none, no price of that asset crosses (solve.rs                 *)
(* liquidation_price).                                                  *)
LastHealthyPrice ==
  /\ part = "Aave3" => Aave3!LastHealthyPrice
  /\ part = "Aave4" => Aave4!LastHealthyPrice
  /\ part = "Morpho" => Morpho!LastHealthyPrice
  /\ part = "Silo" => Silo!LastHealthyPrice
  /\ part = "Liquity" => Liquity!LastHealthyPrice

(* time_to_cross is the first unhealthy instant at today's prices, and  *)
(* there is none within the horizon when it gives none (solve.rs        *)
(* time_to_cross).                                                      *)
CrossTime ==
  /\ part = "Aave3" => Aave3!CrossTime
  /\ part = "Aave4" => Aave4!CrossTime
  /\ part = "Morpho" => Morpho!CrossTime
  /\ part = "Silo" => Silo!CrossTime
  /\ part = "Liquity" => Liquity!CrossTime

(* A quoted liquidation is one the protocol accepts at this state: an   *)
(* unhealthy position, open assets, no more than is owed or held, and   *)
(* the protocol's close-factor and dust rules kept (quote.rs).          *)
QuoteWithinRule ==
  /\ part = "Aave3" => Aave3!QuoteWithinRule
  /\ part = "Aave4" => Aave4!QuoteWithinRule
  /\ part = "Morpho" => Morpho!QuoteWithinRule
  /\ part = "Silo" => Silo!QuoteWithinRule
  /\ part = "Fluid" => Fluid!QuoteWithinRule
  /\ part = "Liquity" => Liquity!QuoteWithinRule
=============================================================================
