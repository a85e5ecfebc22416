---------------------------- MODULE BandManager -----------------------------
(* The band lists of liq-engine's band.rs: one band per position, and for    *)
(* each walked band a dense list from which a position is swap-removed.      *)
EXTENDS Naturals, Sequences, Functions

CONSTANTS
  BPos,      \* positions
  NO_SLOT,   \* the position's band has no list
  NoBand     \* never classified

VARIABLES
  band,   \* per position, its band
  slot,   \* per position, its place in its band's list
  sets    \* the lists of the walked bands

vars == <<band, slot, sets>>

Walked == {"Hot", "Warm", "Unfundable"}
Band   == Walked \union {"Cold"}

Init ==
  /\ band = [p \in BPos |-> NoBand] /\ slot = [p \in BPos |-> NO_SLOT]
  /\ sets = [b \in Walked |-> <<>>]

(* The lists and places once p has left the list of its band: the last member*)
(* is popped and, unless it was p's own place, moved into the gap.           *)
LeftSlotStale(p) ==
  LET b == band[p]
      last == sets[b][Len(sets[b])]
      rest == SubSeq(sets[b], 1, Len(sets[b]) - 1)
  IN  IF b \notin Walked THEN <<sets, slot>>
      ELSE IF slot[p] <= Len(rest)
      THEN <<[sets EXCEPT ![b] = [rest EXCEPT ![slot[p]] = last]], slot>>
      ELSE <<[sets EXCEPT ![b] = rest], slot>>
Left(p) ==
  LET b == band[p]
      last == sets[b][Len(sets[b])]
      rest == SubSeq(sets[b], 1, Len(sets[b]) - 1)
  IN  IF b \notin Walked THEN <<sets, slot>>
      ELSE IF slot[p] <= Len(rest)
      THEN <<[sets EXCEPT ![b] = [rest EXCEPT ![slot[p]] = last]], [slot EXCEPT ![last] = slot[p]]>>
      ELSE <<[sets EXCEPT ![b] = rest], slot>>

set(p, new) ==
  /\ band[p] # new
  /\ band' = [band EXCEPT ![p] = new]
  /\ sets' = IF new \in Walked THEN [Left(p)[1] EXCEPT ![new] = Append(@, p)] ELSE Left(p)[1]
  /\ slot' = [Left(p)[2] EXCEPT ![p] = IF new \in Walked THEN Len(Left(p)[1][new]) + 1 ELSE NO_SLOT]

Next == \E p \in BPos, b \in Band : set(p, b)

Spec == Init /\ [][Next]_vars

-----------------------------------------------------------------------------
(* After any sequence of moves the list a tick walks holds each position of  *)
(* its band once, and nothing else.                                          *)
ListsExact ==
  \A b \in Walked : IsInjective(sets[b]) /\ Range(sets[b]) = {p \in BPos : band[p] = b}
=============================================================================
