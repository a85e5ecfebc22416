-------------------------- MODULE MCEngineReported --------------------------
(* The engine alone, for what a block's reports promise.                     *)
EXTENDS Engine, TLC
=============================================================================
