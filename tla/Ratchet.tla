------------------------------- MODULE Ratchet -------------------------------
(***************************************************************************)
(* What the moving stops of bot/supervise.py and bot/engine.py promise of  *)
(* one open position: there is a price at which it will be sold, that      *)
(* price only ever gets better, and the position is not left at a worse    *)
(* one.  Only its orders being taken off the exchange by somebody else can *)
(* undo that.  Prices count from the entry, in the favour of the trade.    *)
(***************************************************************************)
EXTENDS Integers

CONSTANT Start       \* where the first stop was placed

VARIABLES
  held,     \* is there a position
  floor,    \* the price it is sold at
  left,     \* the price it was left at
  bare      \* its orders were taken away

vars == <<held, floor, left, bare>>

Init == held = TRUE /\ floor = Start /\ left \in Int /\ bare = FALSE

Tighten ==
  /\ held /\ ~bare /\ floor' \in Int /\ floor' > floor
  /\ UNCHANGED <<held, left, bare>>

TakenAway == held /\ bare' = TRUE /\ UNCHANGED <<held, left>>

Leave ==
  /\ held /\ held' = FALSE /\ left' \in Int /\ (bare \/ left' >= floor)
  /\ UNCHANGED bare

\* A position that is gone, or whose orders are, promises nothing.
Drifts == /\ bare \/ ~held
          /\ held' => held /\ UNCHANGED left
          /\ UNCHANGED bare

Next == Tighten \/ TakenAway \/ Leave \/ Drifts

Spec == Init /\ [][Next]_vars
===============================================================================
