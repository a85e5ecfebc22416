--------------------------- MODULE VersionedStore ---------------------------
(***************************************************************************)
(* What liq-state's StateStore promises its one writer, the hot thread:    *)
(* the state of the open block can be changed at will, and as long as a    *)
(* block is no more than Depth blocks below the tip the store can be put   *)
(* back to exactly the state in which that block was left.                 *)
(***************************************************************************)
EXTENDS Naturals

CONSTANTS Image,    \* the values a whole store can have
          Depth,    \* blocks of history kept (UNDO_DEPTH)
          Block     \* block numbers

VARIABLES image,    \* the state of the store
          tip,      \* last block applied
          floor,    \* lowest block the store can be put back to
          ended     \* ended[b]: the state in which block b was left

vars == <<image, tip, floor, ended>>

Init ==
    /\ image \in Image
    /\ tip \in Block
    /\ floor = tip
    /\ ended \in [Block -> Image]

(* Opening the next block freezes the tip's state; history older than Depth *)
(* blocks is given up.                                                      *)
Begin ==
    /\ tip + 1 \in Block
    /\ ended' = [ended EXCEPT ![tip] = image]
    /\ tip' = tip + 1
    /\ floor' = IF tip' - floor > Depth THEN tip' - Depth ELSE floor
    /\ UNCHANGED image

Write ==
    /\ image' \in Image
    /\ UNCHANGED <<tip, floor, ended>>

(* Back to block t: exactly the state t was left in. *)
Unwind(t) ==
    /\ image' = ended[t]
    /\ tip' = t
    /\ UNCHANGED <<floor, ended>>

Next == Begin \/ Write \/ \E t \in floor .. tip - 1 : Unwind(t)

Spec == Init /\ [][Next]_vars
=============================================================================
