--------------------------- MODULE ProtectionProofs ---------------------------
(***************************************************************************)
(* What holds of Protection for every value of the constants: its types,   *)
(* three invariants and two action properties.  Each invariant is          *)
(* inductive relative to the ones before it:                               *)
(*   TypeInv   the types.  TypeOK is not inductive: that a quantity stays  *)
(*             within MaxQty needs the bound on what a symbol holds and    *)
(*             has resting together (Within), and that a new entry finds   *)
(*             none in place needs to know where an entry order can be     *)
(*             (EntryKnown);                                               *)
(*   PlanInv   what it takes for the reconcile's two reads -- the position *)
(*             and then the orders -- to tell a finished trade from a live *)
(*             one: ReconcileNeverStrips;                                  *)
(*   CoverInv  every live stop is large enough for what is open or may     *)
(*             still fill: StopCoversPosition;                             *)
(*   LookInv   what a handler that is about to cancel, to rename or to     *)
(*             repair still knows of the position it looked at:            *)
(*             NeverStripsUnlessRaced and RecoverySettles.                 *)
(***************************************************************************)
EXTENDS Protection, TLAPS

(* What the symbol may hold, filled or resting, stays within the bound.    *)
Within == amt + entry + orphan <= MaxQty

(* An entry whose id the engine knows belongs to a tracked trade or to a   *)
(* place() still running (or interrupted on its way out).                  *)
EntryKnown ==
  entry = 0 \/ tracked \/ pc \in {"place_stop", "place_tp", "recover_cancel",
                                  "recover_read", "exit"}

TypeInv == TypeOK /\ Within /\ EntryKnown

(* The same, in the parts the lemmas below are about.                      *)
Holdings == amt \in Qty /\ entry \in Qty /\ orphan \in Qty /\ Within
Protective ==
  stop \in Qty /\ new \in Qty /\ extra \in Qty /\
    tp \in {"none", "mine", "other"}

-------------------------------------------------------------------------------
(* Arithmetic and the small operators.                                     *)

\* Rounding a quantity down never makes it negative or larger.
LEMMA RoundQtyRange ==
  ASSUME NEW q \in Nat
  PROVE  RoundQty(q) \in 0 .. q
BY StepAssumption DEF RoundQty

\* The bound's own arithmetic: what may be called a quantity.
LEMMA QtyFacts ==
  /\ 0 \in Qty /\ Lot \in Qty
  /\ \A q \in Nat : Cap(q) \in Qty
  /\ \A p, q \in Qty : p + q \in Nat
BY LotAssumption, MaxQtyAssumption DEF Qty, Cap, Least

\* A fault spends one of the faults left and never goes below none.
LEMMA FaultFacts ==
  ASSUME faults \in 0 .. MaxFaults, Fault
  PROVE  faults' \in 0 .. MaxFaults
BY FaultAssumption DEF Fault

\* The invariant, part by part.
LEMMA TypeParts == TypeInv <=>
   Holdings /\ Protective /\ EngineTypes /\ CallTypes /\ SeenTypes /\
     EntryKnown
BY DEF TypeInv, TypeOK, Holdings, Protective, ExchangeTypes

\* Whatever a cancel did to the entry orders, the bound still holds.
LEMMA HoldingsKept ==
  ASSUME Holdings, UNCHANGED amt, ClassicKept \/ ClassicGone \/
         ClassicForgotten
  PROVE Holdings'
BY MaxQtyAssumption DEF Holdings, Within, Qty, ClassicKept, ClassicGone,
   ClassicForgotten

\* Keeping, cancelling or forgetting the stops leaves quantities.
LEMMA ProtectiveKept ==
  ASSUME Protective, AlgoKept \/ AlgoGone \/ AlgoForgotten
  PROVE Protective'
<1> Stops \in Nat BY DEF Protective, Qty, Stops
<1> Cap(Stops) \in Qty BY QtyFacts
<1> QED BY QtyFacts DEF Protective, AlgoKept, AlgoGone, AlgoForgotten

\* A failure counted up to close_after_attempts stays in range.
LEMMA FailsKept ==
  ASSUME EngineTypes
  PROVE  0 \in 0 .. CloseAfter /\
         Least(fails + 1, CloseAfter) \in 0 .. CloseAfter
BY CloseAssumption DEF EngineTypes, Least

\* The bookkeeping flag stays a truth value when orders are dropped.
LEMMA LooseKept ==
  ASSUME loose \in BOOLEAN, ClassicKept \/ ClassicGone \/ ClassicForgotten
  PROVE loose' \in BOOLEAN
BY DEF ClassicKept, ClassicGone, ClassicForgotten

\* A cancel or a drop of the entry order leaves all of it or nothing.
LEMMA EntryKept ==
  /\ ClassicKept => entry' = entry
  /\ ClassicGone \/ ClassicForgotten => entry' = 0
BY DEF ClassicKept, ClassicGone, ClassicForgotten

\* The bound is a number.
LEMMA BoundFact == MaxQty \in Nat
BY MaxQtyAssumption

\* A comparison is a truth value.
LEMMA BoolValue == \A a, b : (a > b) \in BOOLEAN
OBVIOUS

\* Selling, stopping out or cancelling keeps the holdings in bounds.
LEMMA Shrinks ==
  ASSUME Holdings, NEW a \in 0 .. amt, NEW e \in 0 .. entry,
         amt' = a, entry' = e, orphan' = orphan
  PROVE  Holdings'
BY BoundFact DEF Holdings, Within, Qty

-------------------------------------------------------------------------------
(* The parts, step by step.                                                *)

\* No step takes the position and the resting entries past the bound:
\* place() is the only one that adds, and its guard reads both.
LEMMA HoldingsInv ==
  ASSUME Holdings, Protective, SeenTypes, EntryKnown, [Next]_vars
  PROVE  Holdings'
<1>1. CASE UNCHANGED vars
  BY <1>1 DEF vars, exchange, Holdings, Within
<1>2. CASE CommandClose \/ Halt \/ Resume \/ Kill \/ StopRequested \/
           Interrupt \/ EnsureRead \/ EnsureOrders \/ CloseRead \/
           CancelRead \/ WatchRead \/ LoopExit \/ Restart
  BY <1>2 DEF Holdings, Within, exchange, EnsureRead, EnsureOrders, CloseRead,
     WatchRead, CommandClose, Halt, Resume, Kill, StopRequested, LoopExit,
     Interrupt, CancelRead, Restart
<1>3. CASE MoveStop \/ PlaceStop \/ PlaceTarget \/ EnsureStop \/
           EnsureTarget \/ ReplaceCancel \/ AdoptOrders \/ WatchOrders \/
           Recheck \/ RecoverRead
  BY <1>3, HoldingsKept DEF Hold, Forget, PlaceStop, PlaceTarget, RecoverRead,
     EnsureStop, EnsureTarget, Adopt, WatchUntracked, WatchOpen, LetGo,
     WatchFlat, WatchOrders, Recheck, MoveStop, ReplaceCancel, AdoptOrders
<1>4. CASE RecoverCancel \/ CloseCancel \/ LeftCancel \/ ExpireCancel \/
           CancelEverything \/ ExitProcess \/ Crash
  BY <1>4, HoldingsKept DEF Forget, Cancelled, CancelRefused, CancelLost,
     DropRefused, DropLost, RecoverCancel, CloseCancel, LeftCancel,
     ExpireCancel, CancelEverything, Gone, ExitProcess, Crash
<1>5. CASE EntryFills \/ OrphanFills \/ HandCloses \/ OrderVanishes
  BY <1>5, BoundFact DEF Holdings, Within, Qty, EntryFills, OrphanFills,
     HandCloses, OrderVanishes
<1>6. CASE TpFires
  <2>1. /\ amt' \in 0 .. amt /\ entry \in 0 .. entry
        /\ entry' = entry /\ orphan' = orphan
    BY <1>6 DEF TpFires, Holdings, Qty
  <2> QED BY <2>1, Shrinks
<1>7. CASE StopFires
  <2>1. PICK q \in Nat : amt' = amt - Least(amt, q)
    BY <1>7 DEF StopFires, Protective, Qty
  <2>2. amt - Least(amt, q) \in 0 .. amt /\ entry \in 0 .. entry
    BY DEF Least, Holdings, Qty
  <2> QED BY <1>7, <2>1, <2>2, Shrinks DEF StopFires
<1>8. CASE CloseMarket
  <2> DEFINE sold == Least(RoundQty(seenAmt), amt)
  <2>1. /\ entry' = entry /\ orphan' = orphan
        /\ amt' = amt \/ amt' = amt - sold
    BY <1>8 DEF CloseMarket, Sold, Hold, ClassicKept
  <2>2. amt \in 0 .. amt /\ entry \in 0 .. entry /\ amt - sold \in 0 .. amt
    BY RoundQtyRange DEF Holdings, SeenTypes, Qty, Least
  <2> QED BY <2>1, <2>2, Shrinks
<1>9. CASE CancelEntry
  <2>1. amt' = amt /\ orphan' = orphan /\ (entry' = 0 \/ entry' = entry)
    BY <1>9 DEF CancelEntry
  <2>2. amt \in 0 .. amt /\ 0 \in 0 .. entry /\ entry \in 0 .. entry
    BY DEF Holdings, Qty
  <2> QED BY <2>1, <2>2, Shrinks
<1>10. CASE PlaceEntry
  <2>1. amt' = amt /\ entry = 0 /\ amt + orphan + Lot <= MaxQty
    BY <1>10 DEF PlaceEntry, Idle, EntryKnown
  <2>2. \/ entry' = Lot /\ orphan' = orphan
        \/ entry' = entry /\ orphan' = orphan + Lot
    BY <1>10 DEF PlaceEntry
  <2> QED BY <2>1, <2>2, LotAssumption, BoundFact DEF Holdings, Within, Qty
<1> QED
  BY <1>1, <1>2, <1>3, <1>4, <1>5, <1>6, <1>7, <1>8, <1>9, <1>10 DEF Next,
     Exchange, Commands, Handler

\* No step leaves a stop or take-profit of an impossible kind.
LEMMA ProtectiveInv ==
  ASSUME Protective, Holdings, EngineTypes, [Next]_vars
  PROVE  Protective'
<1>1. CASE UNCHANGED vars
  BY <1>1 DEF vars, exchange, Protective
<1>2. CASE CommandClose \/ Halt \/ Resume \/ Kill \/ StopRequested \/
           Interrupt \/ EnsureRead \/ EnsureOrders \/ CloseRead \/
           CancelRead \/ WatchRead \/ LoopExit \/ Restart \/
           CancelEntry \/ HandCloses \/ OrphanFills \/ EntryFills \/
           PlaceEntry \/ CloseMarket
  BY <1>2, ProtectiveKept DEF Protective, exchange, Hold, EntryFills,
     OrphanFills, HandCloses, PlaceEntry, EnsureRead, EnsureOrders, CloseRead,
     CloseMarket, WatchRead, CommandClose, Halt, Resume, Kill, StopRequested,
     LoopExit, Interrupt, CancelRead, CancelEntry, Restart
<1>3. CASE RecoverCancel \/ CloseCancel \/ LeftCancel \/ ExpireCancel \/
           CancelEverything \/ ExitProcess \/ Crash \/ RecoverRead \/
           Recheck
  BY <1>3, ProtectiveKept DEF Hold, Forget, Cancelled, CancelRefused,
     CancelLost, DropRefused, DropLost, RecoverCancel, RecoverRead,
     CloseCancel, LetGo, Recheck, LeftCancel, ExpireCancel, CancelEverything,
     Gone, ExitProcess, Crash
<1>4. CASE PlaceStop \/ EnsureStop \/ MoveStop
  BY <1>4, QtyFacts DEF Protective, EngineTypes, StopMaybe, PlaceStop,
     EnsureStop, MoveStop
<1>5. CASE PlaceTarget
  BY <1>5, ProtectiveKept, QtyFacts DEF Protective, Hold, TargetMaybe,
     PlaceTarget
<1>6. CASE EnsureTarget
  BY <1>6 DEF Protective, TargetMaybe, EnsureTarget
<1>7. CASE ReplaceCancel
  BY <1>7, QtyFacts DEF Protective, ReplaceCancel
<1>8. CASE WatchOrders \/ AdoptOrders
  BY <1>8, ProtectiveKept, QtyFacts DEF Protective, Hold, Forget, Adopt,
     WatchUntracked, WatchOpen, LetGo, WatchFlat, WatchOrders, AdoptOrders
<1>9. CASE TpFires \/ OrderVanishes
  BY <1>9, QtyFacts DEF Protective, TpFires, OrderVanishes
<1>10. CASE StopFires
  <2>1. /\ tp' = tp
        /\ stop' = 0 \/ stop' = stop
        /\ new' = 0 \/ new' = new
        /\ extra' = extra \/ \E q \in 1 .. extra : extra' = extra - q
    BY <1>10 DEF StopFires
  <2>2. extra' \in Qty
    BY <2>1, BoundFact DEF Protective, Qty
  <2> QED BY <2>1, <2>2, QtyFacts DEF Protective
<1> QED
  BY <1>1, <1>2, <1>3, <1>4, <1>5, <1>6, <1>7, <1>8, <1>9, <1>10 DEF Next,
     Exchange, Commands, Handler

\* No handler leaves the book, the failure count, the halt or the stop
\* request outside its range.
LEMMA EngineInv ==
  ASSUME EngineTypes, Holdings, SeenTypes, [Next]_vars
  PROVE  EngineTypes'
<1>1. CASE UNCHANGED vars
  BY <1>1 DEF vars, book, control, EngineTypes
<1>2. CASE EntryFills \/ OrphanFills \/ StopFires \/ TpFires \/
           HandCloses \/ OrderVanishes \/ MoveStop \/ CommandClose \/
           WatchRead \/ LoopExit \/ RecoverCancel \/ ReplaceCancel \/
           CancelRead \/ CancelEverything \/ CancelEntry \/ Restart \/
           EnsureRead
  BY <1>2 DEF EngineTypes, book, control, Moves, EntryFills, OrphanFills,
     StopFires, TpFires, HandCloses, OrderVanishes, RecoverCancel, EnsureRead,
     WatchRead, MoveStop, ReplaceCancel, CommandClose, LoopExit, CancelRead,
     CancelEverything, CancelEntry, Restart
<1>3. CASE PlaceEntry \/ Halt \/ Resume \/ Kill \/ StopRequested \/
           Interrupt
  BY <1>3 DEF EngineTypes, book, PlaceEntry, Halt, Resume, Kill,
     StopRequested, Interrupt
<1>4. CASE PlaceStop \/ PlaceTarget \/ RecoverRead \/ LeftCancel \/
           ExpireCancel \/ Recheck
  BY <1>4, QtyFacts DEF EngineTypes, Holdings, book, control, Release, Track,
     PlaceStop, PlaceTarget, RecoverRead, LetGo, Recheck, LeftCancel,
     ExpireCancel
<1>5. CASE EnsureOrders \/ EnsureStop \/ EnsureTarget \/ CloseRead \/
           CloseMarket \/ CloseCancel \/ ExitProcess \/ Crash
  BY <1>5, QtyFacts, FailsKept DEF EngineTypes, SeenTypes, book, Release,
     EnsureOrders, Repaired, NoTarget, NoStop, EnsureStop, EnsureTarget,
     CloseSucceeds, CloseFails, CloseAborts, CloseRead, CloseMarket,
     CloseCancel, Gone, ExitProcess, Crash
<1>6. CASE WatchOrders
  <2>1. planned' = planned \/ planned' = FALSE \/ planned' = (extra > 0)
    BY <1>6 DEF WatchOrders, WatchUntracked, WatchOpen, WatchFlat, LetGo,
       Release, Adopt, book
  <2>2. planned' \in BOOLEAN
    BY <2>1, BoolValue, Zenon DEF EngineTypes
  <2>3. tracked' \in BOOLEAN /\ filled' \in BOOLEAN
    BY <1>6 DEF EngineTypes, WatchOrders, WatchUntracked, WatchOpen,
       WatchFlat, LetGo, Release, Adopt, book
  <2>4. /\ qty' \in {0, qty, seenAmt} /\ fails' \in {0, fails}
        /\ halted' = halted /\ stopping' = stopping
    BY <1>6 DEF WatchOrders, WatchUntracked, WatchOpen, WatchFlat, LetGo,
       Release, Adopt, EnsureFirst, Repaired, book
  <2> QED BY <2>2, <2>3, <2>4, QtyFacts, FailsKept DEF EngineTypes, SeenTypes
<1>7. CASE AdoptOrders
  <2>1. planned' = planned \/ planned' = (extra > 0)
    BY <1>7 DEF AdoptOrders, Adopt, book
  <2>2. planned' \in BOOLEAN
    BY <2>1, BoolValue, Zenon DEF EngineTypes
  <2>3. tracked' \in BOOLEAN /\ filled' \in BOOLEAN /\ qty' \in {qty, seenAmt}
    BY <1>7 DEF EngineTypes, AdoptOrders, Adopt, book
  <2> QED BY <1>7, <2>2, <2>3 DEF EngineTypes, SeenTypes, AdoptOrders, control
<1> QED
  BY <1>1, <1>2, <1>3, <1>4, <1>5, <1>6, <1>7 DEF Next, Exchange, Commands,
     Handler

\* Every handler hands over to a call that exists, with a caller that exists.
LEMMA CallInv ==
  ASSUME CallTypes, [Next]_vars
  PROVE  CallTypes'
<1>1. CASE UNCHANGED vars
  BY <1>1 DEF vars, local, CallTypes
<1>2. CASE EntryFills \/ OrphanFills \/ StopFires \/ TpFires \/
           HandCloses \/ OrderVanishes
  BY <1>2 DEF CallTypes, local, Moves, EntryFills, OrphanFills, StopFires,
     TpFires, HandCloses, OrderVanishes
<1>3. CASE PlaceEntry \/ MoveStop \/ CommandClose \/ Halt \/ Resume \/
           Kill \/ StopRequested \/ Interrupt \/ WatchRead \/ LoopExit \/
           Crash \/ Restart \/ ExitProcess \/ AdoptOrders
  BY <1>3 DEF CallTypes, local, Goto, GotoAs, Saw, Finish, Done, Escaped,
     PlaceEntry, WatchRead, MoveStop, CommandClose, Halt, Resume, Kill,
     StopRequested, LoopExit, Interrupt, Gone, ExitProcess, Crash, Restart,
     AdoptOrders
<1>4. CASE PlaceStop \/ PlaceTarget \/ RecoverCancel \/ RecoverRead \/
           EnsureRead \/ EnsureOrders \/ EnsureStop \/ EnsureTarget \/
           CloseRead \/ CloseMarket \/ CloseCancel
  BY <1>4 DEF CallTypes, Goto, GotoAs, Saw, Finish, Done, Escaped, Track,
     Recover, PlaceStop, PlaceTarget, RecoverCancel, RecoverRead, EnsureFails,
     EnsureRead, EnsureOrders, Repaired, NoTarget, NoStop, EnsureStop,
     EnsureTarget, CloseSucceeds, CloseFails, CloseAborts, CloseRead,
     CloseMarket, CloseCancel
<1>5. CASE WatchOrders \/ Recheck \/ LeftCancel \/ ExpireCancel \/
           ReplaceCancel \/ CancelRead \/ CancelEverything \/ CancelEntry
  BY <1>5 DEF CallTypes, Goto, GotoAs, Saw, Finish, Done, Escaped, Repaired,
     EnsureFirst, WatchUntracked, WatchOpen, LetGo, WatchFlat, WatchOrders,
     Recheck, LeftCancel, ExpireCancel, ReplaceCancel, CancelReturns,
     CancelThrows, CancelRead, CancelEverything, CancelEntry
<1> QED
  BY <1>1, <1>2, <1>3, <1>4, <1>5 DEF Next, Exchange, Commands, Handler

\* What a handler remembers of its reads is a quantity or a flag.
LEMMA SeenInv ==
  ASSUME SeenTypes, Holdings, [Next]_vars
  PROVE  SeenTypes'
<1>1. CASE UNCHANGED vars
  BY <1>1 DEF vars, local, SeenTypes
<1>2. CASE EntryFills \/ OrphanFills \/ StopFires \/ TpFires \/
           HandCloses \/ OrderVanishes
  BY <1>2, FaultFacts DEF SeenTypes, local, Moves, EntryFills, OrphanFills,
     StopFires, TpFires, HandCloses, OrderVanishes
<1>3. CASE MoveStop \/ CommandClose \/ Halt \/ Resume \/ Kill \/
           StopRequested \/ Interrupt \/ WatchRead \/ LoopExit \/
           Crash \/ Restart \/ ExitProcess \/ AdoptOrders
  BY <1>3, QtyFacts, FaultFacts, LooseKept DEF SeenTypes, Holdings, local, Ok,
     Refused, Lost, Hold, Forget, Goto, GotoAs, Saw, Finish, Done, Escaped,
     WatchRead, Adopt, MoveStop, CommandClose, Halt, Resume, Kill,
     StopRequested, LoopExit, Interrupt, Gone, ExitProcess, Crash, Restart,
     AdoptOrders
<1>4. CASE PlaceStop \/ PlaceTarget \/ RecoverCancel \/ RecoverRead \/
           EnsureRead \/ EnsureOrders \/ EnsureStop \/ EnsureTarget \/
           CloseRead \/ CloseMarket \/ CloseCancel
  BY <1>4, QtyFacts, FaultFacts, LooseKept DEF SeenTypes, Holdings, Ok,
     Refused, Lost, Hold, Forget, Cancelled, CancelRefused, CancelLost,
     DropRefused, DropLost, Goto, GotoAs, Saw, Finish, Done, Escaped, Track,
     Recover, PlaceStop, PlaceTarget, RecoverCancel, RecoverRead, EnsureFails,
     EnsureRead, EnsureOrders, Repaired, NoTarget, NoStop, EnsureStop,
     EnsureTarget, CloseSucceeds, CloseFails, CloseAborts, CloseRead,
     CloseMarket, CloseCancel
<1>5. CASE WatchOrders \/ Recheck \/ LeftCancel \/ ExpireCancel \/
           ReplaceCancel \/ CancelRead \/ CancelEverything \/ CancelEntry
  BY <1>5, QtyFacts, FaultFacts, LooseKept DEF SeenTypes, Holdings, Ok,
     Refused, Lost, Hold, Forget, Cancelled, CancelRefused, CancelLost,
     DropRefused, Goto, GotoAs, Saw, Finish, Done, Escaped, Repaired,
     EnsureFirst, Adopt, WatchUntracked, WatchOpen, Left, LetGo, WatchFlat,
     WatchOrders, Recheck, LeftCancel, ExpireCancel, ReplaceCancel,
     CancelReturns, CancelThrows, CancelRead, CancelEverything, CancelEntry
<1>6. CASE PlaceEntry
  <2>1. loose' = (amt + orphan + Stops > 0) \/ loose' = TRUE
    BY <1>6 DEF PlaceEntry
  <2>2. loose' \in BOOLEAN
    BY <2>1, BoolValue, Zenon
  <2>3. faults' \in 0 .. MaxFaults
    BY <1>6, FaultFacts DEF PlaceEntry, SeenTypes, Ok, Lost
  <2> QED
    BY <1>6, <2>2, <2>3, QtyFacts DEF SeenTypes, PlaceEntry, GotoAs, Escaped,
       Finish
<1> QED
  BY <1>1, <1>2, <1>3, <1>4, <1>5, <1>6 DEF Next, Exchange, Commands, Handler

\* An entry order whose id the engine knows belongs to a tracked trade or
\* to a place() still on its way: no release, crash or shutdown keeps one.
LEMMA EntryInv ==
  ASSUME EntryKnown, Holdings, [Next]_vars
  PROVE  EntryKnown'
<1>1. CASE UNCHANGED vars
  BY <1>1 DEF vars, exchange, book, local, EntryKnown
<1>2. CASE OrphanFills \/ StopFires \/ TpFires \/ HandCloses \/
           OrderVanishes
  BY <1>2 DEF EntryKnown, book, local, Moves, OrphanFills, StopFires, TpFires,
     HandCloses, OrderVanishes
<1>3. CASE PlaceEntry
  BY <1>3 DEF EntryKnown, Idle, GotoAs, PlaceEntry
<1>4. CASE MoveStop \/ CommandClose \/ Halt \/ Resume
  BY <1>4 DEF EntryKnown, exchange, book, Idle, MoveStop, CommandClose, Halt,
     Resume
<1>5. CASE Kill \/ StopRequested
  BY <1>5 DEF EntryKnown, exchange, book, Idle, Kill, StopRequested
<1>6. CASE Interrupt
  BY <1>6 DEF EntryKnown, book, Finish, Interrupt
<1>7. CASE WatchRead \/ LoopExit \/ Crash \/ Restart \/ ExitProcess \/
           AdoptOrders
  BY <1>7, EntryKept DEF EntryKnown, exchange, book, Idle, Up, Hold, Forget,
     WatchRead, Adopt, LoopExit, Gone, ExitProcess, Crash, Restart,
     AdoptOrders
<1>8. CASE PlaceStop \/ PlaceTarget \/ RecoverCancel \/ RecoverRead \/
           EnsureRead \/ EnsureOrders \/ EnsureStop \/ EnsureTarget \/
           CloseRead \/ CloseMarket \/ CloseCancel
  BY <1>8, EntryKept DEF EntryKnown, exchange, book, Hold, Forget, Cancelled,
     CancelLost, DropRefused, DropLost, Goto, GotoAs, Track, Recover,
     PlaceStop, PlaceTarget, RecoverCancel, RecoverRead, EnsureRead,
     EnsureOrders, EnsureStop, EnsureTarget, CloseRead, CloseMarket,
     CloseCancel
<1>9. CASE WatchOrders \/ Recheck \/ LeftCancel \/ ExpireCancel \/
           ReplaceCancel \/ CancelRead \/ CancelEverything \/ CancelEntry
  BY <1>9, EntryKept DEF EntryKnown, exchange, book, Hold, Forget, Cancelled,
     CancelRefused, CancelLost, DropRefused, Adopt, WatchUntracked, WatchOpen,
     LetGo, WatchFlat, WatchOrders, Recheck, LeftCancel, ExpireCancel,
     ReplaceCancel, CancelRead, CancelEverything, CancelEntry
<1>10. CASE EntryFills
  BY <1>10 DEF EntryKnown, EntryFills, Moves, book, local
<1> QED
  BY <1>1, <1>2, <1>3, <1>4, <1>5, <1>6, <1>7, <1>8, <1>9, <1>10 DEF Next,
     Exchange, Commands, Handler

-------------------------------------------------------------------------------
\* Holdings within the bound, known entries accounted for and every variable of
\* its type: in every state of every execution.
THEOREM TypeInvariant == Spec => []TypeInv
<1>1. Init => TypeInv
  <2> SUFFICES ASSUME Init PROVE TypeInv
    OBVIOUS
  <2>1. Within
    <3>1. amt = 0 /\ entry = 0 /\ orphan = 0
      BY DEF Init
    <3> QED
      BY <3>1, BoundFact DEF Within
  <2>3. EntryKnown
    BY DEF Init, EntryKnown
  <2>2. 0 \in 0 .. CloseAfter /\ MaxFaults \in 0 .. MaxFaults
    BY CloseAssumption, FaultAssumption
  <2> QED
    BY <2>1, <2>2, <2>3, QtyFacts DEF Init, TypeInv, TypeOK, ExchangeTypes,
       EngineTypes, CallTypes, SeenTypes
<1>2. TypeInv /\ [Next]_vars => TypeInv'
  <2> SUFFICES ASSUME TypeInv, [Next]_vars PROVE TypeInv'
    OBVIOUS
  <2>1. Holdings /\ Protective /\ EngineTypes /\ CallTypes /\ SeenTypes /\
        EntryKnown
    BY TypeParts
  <2>2. Holdings' /\ Protective'
    BY <2>1, HoldingsInv, ProtectiveInv
  <2>3. EngineTypes' /\ CallTypes' /\ SeenTypes' /\ EntryKnown'
    BY <2>1, EngineInv, CallInv, SeenInv, EntryInv
  <2> QED
    BY <2>2, <2>3 DEF TypeInv, TypeOK, ExchangeTypes, Holdings, Protective
<1> QED
  BY <1>1, <1>2, PTL DEF Spec

\* The type invariant the runs check, for every value of the constants.
THEOREM TypeCorrect == Spec => []TypeOK
BY TypeInvariant, PTL DEF TypeInv

-------------------------------------------------------------------------------
(* Nothing outside the plan may fill, and the entry fills in one piece.    *)
Whole ==
  /\ orphan = 0 \/ loose
  /\ entry = 0 \/ loose \/ amt = 0
  /\ ~filled \/ loose \/ entry = 0

(* Only a tracked trade is filled or re-checked, and a process that is     *)
(* starting or gone has no book.                                           *)
Booked ==
  /\ filled \/ pc = "recheck" => tracked
  /\ pc \in {"down", "off", "adopt_orders"} => ~tracked

(* What the reconcile knows at each of its calls about a trade to plan.    *)
Reads ==
  /\ pc = "watch_orders" => loose \/ seenAmt = 0 \/ entry = 0
  /\ pc = "watch_orders" /\ filled => loose \/ seenAmt # 0 \/ amt = 0
  /\ pc = "recheck" => loose \/ entry = 0
  /\ pc = "left_cancel" => loose \/ (amt = 0 /\ entry = 0)

PlanInv == Whole /\ Booked /\ Reads

(* What is open or may still fill of the entry, and what is large enough   *)
(* for it: nothing at all, or at least that much.                          *)
Need == amt + entry
Enough(q) == q = 0 \/ loose \/ q >= Need

(* A trade to plan never holds more than one lot; its recorded quantity    *)
(* and each of its stops alone are enough.                                 *)
Sized ==
  /\ loose \/ Need <= Lot
  /\ tracked => Enough(qty)
  /\ Enough(stop) /\ Enough(new) /\ Enough(extra)

(* A size the handler will act on is not below the position.               *)
SeenEnough ==
  /\ pc \in {"ensure_read", "ensure_orders", "ensure_stop", "ensure_tp"}
       => tracked /\ filled
  /\ pc \in {"watch_orders", "adopt_orders", "ensure_orders"} =>
     Enough(seenAmt)

CoverInv == Sized /\ SeenEnough

(* A step has not made the need larger, or the trade has left its plan.    *)
Eased   == (loose => loose') /\ (loose' \/ Need' <= Need)
Smaller == amt' \in 0 .. amt /\ entry' \in 0 .. entry /\ (loose => loose')

-------------------------------------------------------------------------------
(* PlanInv: a trade given up is over.                                      *)

\* Dropping a trade's orders takes the trade off its plan, or drops nothing.
LEMMA PlanKept ==
  ASSUME Holdings, Whole, ClassicKept \/ ClassicGone \/ ClassicForgotten
  PROVE  /\ orphan' = 0 \/ loose'
         /\ entry' = 0 \/ entry' = entry
         /\ loose => loose'
<1>1. CASE ClassicForgotten
  <2>1. CASE loose \/ entry # 0
    <3>1. entry > 0 \/ loose BY <2>1 DEF Holdings, Qty
    <3> QED BY <1>1, <3>1 DEF ClassicForgotten
  <2>2. CASE ~loose /\ entry = 0
    BY <1>1, <2>2 DEF ClassicForgotten, Whole
  <2> QED BY <2>1, <2>2
<1>2. CASE ClassicKept \/ ClassicGone
  BY <1>2 DEF ClassicKept, ClassicGone, Whole
<1> QED BY <1>1, <1>2

\* No step leaves a filled or re-checked trade out of the book, or a book in
\* a process that is down.
LEMMA BookedInv ==
  ASSUME Booked, [Next]_vars
  PROVE  Booked'
<1>1. CASE UNCHANGED vars
  BY <1>1 DEF vars, book, local, Booked
<1>2. CASE EntryFills \/ OrphanFills \/ StopFires \/ TpFires \/
           HandCloses \/ OrderVanishes \/ Halt \/ Resume \/ StopRequested
  BY <1>2 DEF Booked, book, local, Moves, EntryFills, OrphanFills, StopFires,
     TpFires, HandCloses, OrderVanishes, Halt, Resume, StopRequested
<1>3. CASE Recheck
  BY <1>3 DEF Booked, book, Release, Saw, Finish, Done, LetGo, Recheck
<1>4. CASE Crash \/ ExitProcess
  BY <1>4 DEF Booked, Release, Finish, Gone, ExitProcess, Crash
<1>5. CASE Restart
  BY <1>5 DEF Booked, book, Up, Saw, Finish, Done, Restart
<1>6. CASE WatchOrders
  <2>1. \/ filled' = FALSE \/ tracked' = TRUE
        \/ tracked' = tracked /\ filled' = filled
    BY <1>6 DEF book, Release, Adopt, WatchUntracked, WatchOpen, LetGo,
       WatchFlat, WatchOrders
  <2>2. /\ pc' \notin {"down", "off", "adopt_orders"}
        /\ pc' = "recheck" => tracked /\ tracked' = tracked
    BY <1>6 DEF book, Goto, Finish, Done, Repaired, EnsureFirst,
       WatchUntracked, WatchOpen, LetGo, WatchFlat, WatchOrders
  <2> QED BY <2>1, <2>2 DEF Booked
<1>7. CASE AdoptOrders
  <2>1. \/ filled' = FALSE \/ tracked' = TRUE
        \/ tracked' = tracked /\ filled' = filled
    BY <1>7 DEF book, Adopt, AdoptOrders
  <2>2. pc = "adopt_orders" /\ (pc' = "idle" \/ (pc' = "down" /\
        tracked' = tracked))
    BY <1>7 DEF book, Finish, Done, AdoptOrders
  <2> QED BY <2>1, <2>2 DEF Booked
<1>8. CASE PlaceStop \/ PlaceTarget \/ RecoverRead \/ CloseCancel \/
           LeftCancel \/ ExpireCancel
  <2>1. \/ filled' = FALSE \/ tracked' = TRUE
        \/ tracked' = tracked /\ filled' = filled
    BY <1>8 DEF book, Release, Track, PlaceStop, PlaceTarget, RecoverRead,
       CloseCancel, LeftCancel, ExpireCancel
  <2>2. pc' \notin {"recheck", "down", "off", "adopt_orders"}
    BY <1>8 DEF Goto, GotoAs, Finish, Done, Escaped, Track, Recover,
       PlaceStop, PlaceTarget, RecoverRead, CloseSucceeds, CloseAborts,
       CloseCancel, LeftCancel, ExpireCancel
  <2> QED BY <2>1, <2>2 DEF Booked
<1>9. CASE PlaceEntry \/ MoveStop \/ CommandClose \/ Kill \/ Interrupt \/
           WatchRead \/ LoopExit
  <2>1. \/ filled' = FALSE \/ tracked' = TRUE
        \/ tracked' = tracked /\ filled' = filled
    BY <1>9 DEF book, PlaceEntry, WatchRead, MoveStop, CommandClose, Kill,
       LoopExit, Interrupt
  <2>2. pc' \notin {"recheck", "down", "off", "adopt_orders"}
    BY <1>9 DEF Goto, GotoAs, Saw, Finish, Done, Escaped, PlaceEntry,
       WatchRead, MoveStop, CommandClose, Kill, LoopExit, Interrupt
  <2> QED BY <2>1, <2>2 DEF Booked
<1>10. CASE RecoverCancel \/ EnsureRead \/ EnsureOrders \/ EnsureStop \/
           EnsureTarget \/ CloseRead \/ CloseMarket
  <2>1. \/ filled' = FALSE \/ tracked' = TRUE
        \/ tracked' = tracked /\ filled' = filled
    BY <1>10 DEF book, RecoverCancel, EnsureRead, EnsureOrders, EnsureStop,
       EnsureTarget, CloseRead, CloseMarket
  <2>2. pc' \notin {"recheck", "down", "off", "adopt_orders"}
    BY <1>10 DEF Goto, GotoAs, Saw, Finish, Done, Escaped, RecoverCancel,
       EnsureFails, EnsureRead, EnsureOrders, Repaired, NoTarget, NoStop,
       EnsureStop, EnsureTarget, CloseFails, CloseAborts, CloseRead,
       CloseMarket
  <2> QED BY <2>1, <2>2 DEF Booked
<1>11. CASE ReplaceCancel \/ CancelRead \/ CancelEverything \/ CancelEntry
  <2>1. \/ filled' = FALSE \/ tracked' = TRUE
        \/ tracked' = tracked /\ filled' = filled
    BY <1>11 DEF book, ReplaceCancel, CancelRead, CancelEverything,
       CancelEntry
  <2>2. pc' \notin {"recheck", "down", "off", "adopt_orders"}
    BY <1>11 DEF GotoAs, Saw, Finish, Done, Escaped, ReplaceCancel,
       CancelReturns, CancelThrows, CancelRead, CancelEverything, CancelEntry
  <2> QED BY <2>1, <2>2 DEF Booked
<1> QED
  BY <1>1, <1>2, <1>3, <1>4, <1>5, <1>6, <1>7, <1>8, <1>9, <1>10, <1>11 DEF
     Next, Exchange, Commands, Handler

\* No step lets quantity outside the plan fill without the trade counting as
\* off its plan: an entry rests or is open, and a filled one rests no more.
LEMMA WholeInv ==
  ASSUME Holdings, Protective, SeenTypes, EntryKnown, Booked,
         Whole, Reads, [Next]_vars
  PROVE  Whole'
<1>1. CASE UNCHANGED vars
  BY <1>1 DEF vars, exchange, book, Whole
<1>2. CASE OrphanFills \/ StopFires \/ TpFires \/ HandCloses \/
           OrderVanishes
  BY <1>2 DEF Whole, book, Moves, OrphanFills, StopFires, TpFires, HandCloses,
     OrderVanishes
<1>3. CASE Recheck
  BY <1>3, PlanKept DEF Whole, Reads, Hold, Forget, LetGo, Recheck
<1>4. CASE CancelEntry
  BY <1>4 DEF Whole, book, CancelEntry
<1>5. CASE PlaceStop
  <2>1. amt' = amt /\ (ClassicKept \/ ClassicGone \/ ClassicForgotten)
    BY <1>5 DEF PlaceStop
  <2>2. filled' = FALSE \/ filled' = filled \/ loose \/ entry = 0
    BY <1>5 DEF book, Track, PlaceStop
  <2> QED BY <2>1, <2>2, PlanKept DEF Whole
<1>6. CASE PlaceTarget
  <2>1. amt' = amt /\ (ClassicKept \/ ClassicGone \/ ClassicForgotten)
    BY <1>6 DEF Hold, PlaceTarget
  <2>2. filled' = FALSE \/ filled' = filled \/ loose \/ entry = 0
    BY <1>6 DEF book, Track, PlaceTarget
  <2> QED BY <2>1, <2>2, PlanKept DEF Whole
<1>7. CASE ExpireCancel
  <2>1. amt' = amt /\ (ClassicKept \/ ClassicGone \/ ClassicForgotten)
    BY <1>7 DEF Cancelled, CancelRefused, CancelLost, ExpireCancel
  <2>2. filled' = FALSE \/ filled' = filled \/ loose \/ entry = 0
    BY <1>7 DEF book, Release, ExpireCancel
  <2> QED BY <2>1, <2>2, PlanKept DEF Whole
<1>8. CASE CloseCancel
  <2>1. amt' = amt /\ (ClassicKept \/ ClassicGone \/ ClassicForgotten)
    BY <1>8 DEF Cancelled, CancelLost, DropRefused, CloseCancel
  <2>2. filled' = FALSE \/ filled' = filled \/ loose \/ entry = 0
    BY <1>8 DEF book, Release, CloseCancel
  <2> QED BY <2>1, <2>2, PlanKept DEF Whole
<1>9. CASE WatchOrders
  <2>1. amt' = amt /\ (ClassicKept \/ ClassicGone \/ ClassicForgotten)
    BY <1>9 DEF Hold, Forget, Adopt, WatchUntracked, WatchOpen, LetGo,
       WatchFlat, WatchOrders
  <2>2. CASE WatchUntracked
    <3>1. ~tracked /\ pc = "watch_orders" BY <1>9, <2>2 DEF WatchOrders,
                                             WatchUntracked
    <3>2. entry = 0 BY <3>1 DEF EntryKnown
    <3> QED BY <2>1, <3>2, PlanKept DEF Whole
  <2>3. CASE WatchOpen
    <3>1. pc = "watch_orders" /\ seenAmt # 0
      BY <1>9, <2>3 DEF WatchOrders, WatchOpen
    <3>2. loose \/ entry = 0 BY <3>1 DEF Reads
    <3> QED BY <2>1, <3>2, PlanKept DEF Whole
  <2>4. CASE ~WatchUntracked /\ ~WatchOpen
    <3>1. filled' = FALSE \/ filled' = filled
      BY <1>9, <2>4 DEF WatchOrders, WatchFlat, LetGo, Release, book
    <3> QED BY <2>1, <3>1, PlanKept DEF Whole
  <2> QED BY <2>2, <2>3, <2>4
<1>10. CASE RecoverRead
  <2>1. amt' = amt /\ (ClassicKept \/ ClassicGone \/ ClassicForgotten)
    BY <1>10 DEF Forget, RecoverRead
  <2>2. filled' = filled \/ amt > 0
    BY <1>10 DEF RecoverRead, book
  <2>3. filled' = filled \/ loose \/ entry = 0
    BY <2>2 DEF Whole
  <2> QED BY <2>1, <2>3, PlanKept DEF Whole
<1>11. CASE CloseMarket
  <2> DEFINE sold == Least(RoundQty(seenAmt), amt)
  <2>1. /\ UNCHANGED <<entry, orphan, loose, filled>>
        /\ amt' = amt \/ amt' = amt - sold
    BY <1>11 DEF CloseMarket, Sold, Hold, ClassicKept, book
  <2>2. amt = 0 => amt - sold = 0
    BY RoundQtyRange DEF SeenTypes, Qty, Least
  <2> QED BY <2>1, <2>2 DEF Whole
<1>12. CASE AdoptOrders
  <2>1. amt' = amt /\ (ClassicKept \/ ClassicGone \/ ClassicForgotten)
    BY <1>12 DEF Hold, Adopt, AdoptOrders
  <2>2. entry = 0
    BY <1>12 DEF AdoptOrders, Booked, EntryKnown
  <2> QED BY <2>1, <2>2, PlanKept DEF Whole
<1>13. CASE PlaceEntry
  <2>1. /\ amt' = amt /\ UNCHANGED filled /\ ~tracked
        /\ \/ loose' = TRUE
           \/ orphan' = orphan /\ loose' = (amt + orphan + Stops > 0)
    BY <1>13 DEF PlaceEntry, book
  <2>2. ~filled BY <2>1 DEF Booked
  <2>3. Stops \in Nat BY DEF Protective, Qty, Stops
  <2>4. amt + orphan + Stops > 0 \/ (amt = 0 /\ orphan = 0)
    BY <2>3 DEF Holdings, Qty
  <2> QED BY <2>1, <2>2, <2>4 DEF Whole
<1>14. CASE EntryFills
  <2>1. PICK q \in 1 .. entry :
          entry' = entry - q /\ loose' = (loose \/ q < entry)
    BY <1>14 DEF EntryFills
  <2>2. UNCHANGED <<orphan, filled>>
    BY <1>14 DEF EntryFills, Moves, book
  <2>3. q < entry \/ entry - q = 0
    BY DEF Holdings, Qty
  <2>4. loose' \/ entry' = 0
    BY <2>1, <2>3
  <2>5. loose => loose'
    BY <2>1
  <2> QED BY <2>2, <2>4, <2>5 DEF Whole
<1>15. CASE MoveStop \/ CommandClose \/ Halt \/ Resume \/ Kill \/
            StopRequested \/
           Interrupt \/ WatchRead \/ LoopExit \/ Restart
  <2>1. amt' = amt /\ (ClassicKept \/ ClassicGone \/ ClassicForgotten)
    BY <1>15 DEF ClassicKept, exchange, WatchRead, MoveStop, CommandClose,
       Halt, Resume, Kill, StopRequested, LoopExit, Interrupt, Restart
  <2>2. filled' = filled \/ filled' = FALSE
    BY <1>15 DEF book, WatchRead, MoveStop, CommandClose, Halt, Resume, Kill,
       StopRequested, LoopExit, Interrupt, Restart
  <2> QED BY <2>1, <2>2, PlanKept DEF Whole
<1>16. CASE EnsureRead \/ EnsureStop \/ EnsureTarget \/ CloseRead \/
            RecoverCancel \/
           EnsureOrders
  <2>1. amt' = amt /\ (ClassicKept \/ ClassicGone \/ ClassicForgotten)
    BY <1>16 DEF ClassicKept, exchange, Cancelled, CancelRefused, DropLost,
       RecoverCancel, EnsureRead, EnsureOrders, EnsureStop, EnsureTarget,
       CloseRead
  <2>2. filled' = filled \/ filled' = FALSE
    BY <1>16 DEF book, RecoverCancel, EnsureRead, EnsureOrders, EnsureStop,
       EnsureTarget, CloseRead
  <2> QED BY <2>1, <2>2, PlanKept DEF Whole
<1>17. CASE ReplaceCancel \/ CancelRead \/ CancelEverything \/ LeftCancel \/
           ExitProcess \/ Crash
  <2>1. amt' = amt /\ (ClassicKept \/ ClassicGone \/ ClassicForgotten)
    BY <1>17 DEF ClassicKept, exchange, Forget, Cancelled, CancelRefused,
       CancelLost, DropRefused, LeftCancel, ReplaceCancel, CancelRead,
       CancelEverything, Gone, ExitProcess, Crash
  <2>2. filled' = filled \/ filled' = FALSE
    BY <1>17 DEF book, Release, LeftCancel, ReplaceCancel, CancelRead,
       CancelEverything, Gone, ExitProcess, Crash
  <2> QED BY <2>1, <2>2, PlanKept DEF Whole
<1> QED
  BY <1>1, <1>2, <1>3, <1>4, <1>5, <1>6, <1>7, <1>8, <1>9, <1>10, <1>11,
     <1>12, <1>13, <1>14, <1>15, <1>16, <1>17 DEF Next, Exchange, Commands,
     Handler

\* What the reconcile read of the position and then of the orders stays true
\* enough of the trade until it acts on it, whatever fills in between.
LEMMA ReadsInv ==
  ASSUME Holdings, Whole, Reads, [Next]_vars
  PROVE  Reads'
<1>1. CASE UNCHANGED vars
  BY <1>1 DEF vars, exchange, book, local, Reads
<1>2. CASE OrphanFills \/ StopFires \/ TpFires \/ HandCloses \/
           OrderVanishes
  BY <1>2 DEF Whole, Reads, book, local, Moves, OrphanFills, StopFires,
     TpFires, HandCloses, OrderVanishes
<1>3. CASE PlaceEntry \/ MoveStop \/ CommandClose \/ Halt \/ Resume \/
           Kill \/ StopRequested \/ Interrupt \/ WatchRead \/ LoopExit \/
           Restart
  BY <1>3 DEF Whole, Reads, exchange, local, Idle, Goto, GotoAs, Saw, Finish,
     Done, Escaped, PlaceEntry, WatchRead, MoveStop, CommandClose, Halt,
     Resume, Kill, StopRequested, LoopExit, Interrupt, Restart
<1>4. CASE PlaceStop \/ PlaceTarget \/ RecoverCancel \/ RecoverRead \/
           EnsureRead \/ EnsureOrders \/ EnsureStop
  BY <1>4 DEF Reads, Goto, GotoAs, Saw, Finish, Done, Escaped, Track, Recover,
     PlaceStop, PlaceTarget, RecoverCancel, RecoverRead, EnsureFails,
     EnsureRead, EnsureOrders, Repaired, NoStop, EnsureStop
<1>5. CASE EnsureTarget \/ CloseRead \/ CloseMarket \/ CloseCancel \/
           WatchOrders
  BY <1>5, PlanKept DEF Reads, Hold, Goto, GotoAs, Saw, Finish, Done, Escaped,
     EnsureFails, Repaired, NoTarget, NoStop, EnsureTarget, CloseSucceeds,
     CloseFails, CloseAborts, CloseRead, CloseMarket, CloseCancel,
     EnsureFirst, WatchUntracked, WatchOpen, LetGo, WatchFlat, WatchOrders
<1>6. CASE Recheck \/ LeftCancel \/ ExpireCancel \/ ReplaceCancel \/
           CancelRead
  BY <1>6, PlanKept DEF Reads, Hold, GotoAs, Saw, Finish, Done, Escaped,
     LetGo, Recheck, LeftCancel, ExpireCancel, ReplaceCancel, CancelReturns,
     CancelThrows, CancelRead
<1>7. CASE CancelEverything \/ CancelEntry \/ ExitProcess \/
           AdoptOrders \/ Crash
  BY <1>7 DEF Reads, GotoAs, Finish, Done, CancelReturns, CancelThrows,
     CancelEverything, CancelEntry, Gone, ExitProcess, Crash, AdoptOrders
<1>8. CASE EntryFills
  <2>1. PICK q \in 1 .. entry :
          entry' = entry - q /\ loose' = (loose \/ q < entry)
    BY <1>8 DEF EntryFills
  <2>2. UNCHANGED <<pc, seenAmt, filled>>
    BY <1>8 DEF EntryFills, Moves, book, local
  <2>3. entry # 0 /\ (q < entry \/ entry - q = 0)
    BY DEF Holdings, Qty
  <2>4. (loose' \/ entry' = 0) /\ (loose => loose')
    BY <2>1, <2>3
  <2> QED BY <2>2, <2>3, <2>4 DEF Reads, Whole
<1> QED
  BY <1>1, <1>2, <1>3, <1>4, <1>5, <1>6, <1>7, <1>8 DEF Next, Exchange,
     Commands, Handler

\* The reconcile's knowledge holds in every state of every execution.
THEOREM PlanInvariant == Spec => []PlanInv
<1>1. Init => PlanInv
  BY DEF Init, PlanInv, Whole, Booked, Reads
<1>2. TypeInv /\ PlanInv /\ [Next]_vars => PlanInv'
  <2> SUFFICES ASSUME TypeInv, PlanInv, [Next]_vars PROVE PlanInv'
    OBVIOUS
  <2>1. Holdings /\ Protective /\ SeenTypes /\ EntryKnown
    BY TypeParts
  <2>2. Whole /\ Booked /\ Reads
    BY DEF PlanInv
  <2>3. Whole' /\ Booked' /\ Reads'
    BY <2>1, <2>2, WholeInv, BookedInv, ReadsInv
  <2> QED
    BY <2>3 DEF PlanInv
<1> QED
  BY <1>1, <1>2, TypeInvariant, PTL DEF Spec

\* reconcile_position() never cancels the protection of a live trade that runs
\* to plan, for every value of the constants.
THEOREM FlatWhenGivenUp == Spec => []ReconcileNeverStrips
<1>1. PlanInv => ReconcileNeverStrips
  BY DEF PlanInv, Reads, ReconcileNeverStrips
<1> QED
  BY <1>1, PlanInvariant, PTL

-------------------------------------------------------------------------------
(* CoverInv: a stop is large enough.                                       *)

\* The need is a number within the bound.
LEMMA NeedRange ==
  ASSUME Holdings PROVE Need \in Nat /\ Need <= MaxQty
BY BoundFact DEF Holdings, Within, Qty, Need

\* Touching the entry order alone never makes the need larger.
LEMMA SmallerKept ==
  ASSUME Holdings, Whole, amt' = amt, ClassicKept \/ ClassicGone \/
         ClassicForgotten
  PROVE  Smaller
<1>1. entry' = 0 \/ entry' = entry
  BY PlanKept
<1> QED BY <1>1, PlanKept DEF Smaller, Holdings, Qty

\* A smaller position and a smaller rest make a smaller need.
LEMMA SmallerEased ==
  ASSUME Holdings, Smaller PROVE Eased
<1>1. PICK a \in 0 .. amt : amt' = a
  BY DEF Smaller
<1>2. PICK e \in 0 .. entry : entry' = e
  BY DEF Smaller
<1>3. a + e <= amt + entry
  BY DEF Holdings, Qty
<1>4. Need' = a + e /\ Need = amt + entry
  BY <1>1, <1>2 DEF Need
<1>5. Need' <= Need
  BY <1>3, <1>4
<1> QED BY <1>5 DEF Eased, Smaller

\* Apart from place() no step makes the need of a trade to plan larger.
LEMMA NeedEases ==
  ASSUME Holdings, Protective, SeenTypes, Whole, [Next]_vars, ~PlaceEntry
  PROVE  Eased
<1>1. CASE UNCHANGED vars
  <2>1. Need' = Need /\ loose' = loose
    BY <1>1 DEF vars, exchange, Need
  <2> QED BY <2>1, NeedRange DEF Eased
<1>2. CASE MoveStop \/ CommandClose \/ Halt \/ Resume \/ Kill \/
           StopRequested \/
           Interrupt \/ WatchRead \/ LoopExit \/ Restart
  <2>1. amt' = amt /\ (ClassicKept \/ ClassicGone \/ ClassicForgotten)
    BY <1>2 DEF ClassicKept, exchange, WatchRead, MoveStop, CommandClose,
       Halt, Resume, Kill, StopRequested, LoopExit, Interrupt, Restart
  <2> QED BY <2>1, SmallerKept, SmallerEased
<1>3. CASE EnsureRead \/ EnsureStop \/ EnsureTarget \/ CloseRead \/
           EnsureOrders \/
           PlaceStop \/ PlaceTarget \/ RecoverCancel \/ RecoverRead
  <2>1. amt' = amt /\ (ClassicKept \/ ClassicGone \/ ClassicForgotten)
    BY <1>3 DEF ClassicKept, exchange, Hold, Forget, Cancelled, CancelRefused,
       DropLost, PlaceStop, PlaceTarget, RecoverCancel, RecoverRead,
       EnsureRead, EnsureOrders, EnsureStop, EnsureTarget, CloseRead
  <2> QED BY <2>1, SmallerKept, SmallerEased
<1>4. CASE CloseCancel \/ ReplaceCancel \/ CancelRead \/ CancelEverything \/
           LeftCancel \/ ExpireCancel \/ ExitProcess \/ Crash
  <2>1. amt' = amt /\ (ClassicKept \/ ClassicGone \/ ClassicForgotten)
    BY <1>4 DEF ClassicKept, exchange, Forget, Cancelled, CancelRefused,
       CancelLost, DropRefused, CloseCancel, LeftCancel, ExpireCancel,
       ReplaceCancel, CancelRead, CancelEverything, Gone, ExitProcess, Crash
  <2> QED BY <2>1, SmallerKept, SmallerEased
<1>5. CASE WatchOrders \/ AdoptOrders \/ Recheck
  <2>1. amt' = amt /\ (ClassicKept \/ ClassicGone \/ ClassicForgotten)
    BY <1>5 DEF Hold, Forget, Adopt, WatchUntracked, WatchOpen, LetGo,
       WatchFlat, WatchOrders, Recheck, AdoptOrders
  <2> QED BY <2>1, SmallerKept, SmallerEased
<1>6. CASE CancelEntry
  <2>1. amt' = amt /\ loose' = loose /\ (entry' = 0 \/ entry' = entry)
    BY <1>6 DEF CancelEntry
  <2>2. Smaller
    BY <2>1 DEF Smaller, Holdings, Qty
  <2> QED BY <2>2, SmallerEased
<1>7. CASE StopFires \/ TpFires \/ HandCloses \/ OrderVanishes
  <2>1. loose' = loose /\ (entry' = 0 \/ entry' = entry)
    BY <1>7 DEF StopFires, TpFires, HandCloses, OrderVanishes
  <2>2. amt' \in 0 .. amt
    <3>1. CASE StopFires
      <4>1. PICK q \in Nat : amt' = amt - Least(amt, q)
        BY <3>1 DEF StopFires, Protective, Qty
      <4> QED BY <4>1 DEF Least, Holdings, Qty
    <3>2. CASE TpFires \/ HandCloses \/ OrderVanishes
      BY <3>2 DEF TpFires, HandCloses, OrderVanishes, Holdings, Qty
    <3> QED BY <1>7, <3>1, <3>2
  <2>3. Smaller
    BY <2>1, <2>2 DEF Smaller, Holdings, Qty
  <2> QED BY <2>3, SmallerEased
<1>8. CASE CloseMarket
  <2> DEFINE sold == Least(RoundQty(seenAmt), amt)
  <2>1. /\ entry' = entry /\ loose' = loose
        /\ amt' = amt \/ amt' = amt - sold
    BY <1>8 DEF CloseMarket, Sold, Hold, ClassicKept
  <2>2. amt \in 0 .. amt /\ entry \in 0 .. entry /\ amt - sold \in 0 .. amt
    BY RoundQtyRange DEF Holdings, SeenTypes, Qty, Least
  <2>3. Smaller
    BY <2>1, <2>2 DEF Smaller
  <2> QED BY <2>3, SmallerEased
<1>9. CASE EntryFills
  <2>1. PICK q \in 1 .. entry :
          /\ entry' = entry - q /\ amt' = amt + q
          /\ loose' = (loose \/ q < entry)
    BY <1>9 DEF EntryFills
  <2>2. loose => loose'
    BY <2>1
  <2>3. amt + q + (entry - q) = amt + entry
    BY DEF Holdings, Qty
  <2>4. Need' = Need
    BY <2>1, <2>3 DEF Need
  <2> QED BY <2>2, <2>4, NeedRange DEF Eased
<1>10. CASE OrphanFills
  <2>1. orphan # 0 /\ loose' = loose
    BY <1>10 DEF OrphanFills
  <2> QED BY <2>1 DEF Eased, Whole
<1> QED
  BY <1>1, <1>2, <1>3, <1>4, <1>5, <1>6, <1>7, <1>8, <1>9, <1>10 DEF Next,
     Exchange, Commands, Handler

\* A position as just read is enough: it rests no more, or it is off its plan.
LEMMA AmtEnough ==
  ASSUME Holdings, Whole PROVE Enough(amt)
BY DEF Holdings, Qty, Whole, Enough, Need

\* No stop at all is no stop that is too small.
LEMMA ZeroEnough == Enough(0)
BY DEF Enough

\* Two stops that are enough are enough together.
LEMMA CapEnough ==
  ASSUME Holdings, NEW p \in Qty, NEW q \in Qty, Enough(p), Enough(q)
  PROVE  Enough(Cap(p + q))
<1>1. Need \in Nat /\ Need <= MaxQty /\ MaxQty \in Nat /\ p \in Nat /\
      q \in Nat
  BY NeedRange, BoundFact DEF Qty
<1>2. CASE p = 0 /\ q = 0
  BY <1>1, <1>2 DEF Cap, Least
<1>3. CASE loose
  BY <1>3 DEF Enough
<1>4. CASE p >= Need \/ q >= Need
  <2>1. p + q >= Need
    BY <1>1, <1>4
  <2>2. Cap(p + q) >= Need
    BY <1>1, <2>1 DEF Cap, Least
  <2> QED BY <2>2 DEF Enough
<1> QED BY <1>2, <1>3, <1>4 DEF Enough

\* So are all of them.
LEMMA StopsSum ==
  ASSUME Holdings, Protective, Enough(stop), Enough(new), Enough(extra)
  PROVE  Enough(Cap(Stops))
<1>1. Need \in Nat /\ Need <= MaxQty /\ MaxQty \in Nat
  BY NeedRange, BoundFact
<1>2. stop \in Nat /\ new \in Nat /\ extra \in Nat
  BY DEF Protective, Qty
<1>3. Stops = 0 \/ loose \/ Stops >= Need
  BY <1>1, <1>2 DEF Stops, Enough
<1>4. Stops \in Nat
  BY <1>2 DEF Stops
<1>5. Cap(Stops) = 0 \/ loose \/ Cap(Stops) >= Need
  BY <1>1, <1>3, <1>4 DEF Cap, Least
<1> QED BY <1>5 DEF Enough

\* Keeping, cancelling or forgetting the stops makes none too small.
LEMMA AlgoEnough ==
  ASSUME Holdings, Protective, Enough(stop), Enough(new), Enough(extra),
         AlgoKept \/ AlgoGone \/ AlgoForgotten
  PROVE  Enough(stop') /\ Enough(new') /\ Enough(extra')
BY ZeroEnough, StopsSum DEF AlgoKept, AlgoGone, AlgoForgotten

\* What was enough for a need is enough when the need has not grown.
LEMMA EnoughStays ==
  ASSUME Holdings, Holdings', Protective', EngineTypes', SeenTypes', Eased
  PROVE  /\ Enough(stop') => Enough(stop)'
         /\ Enough(new') => Enough(new)'
         /\ Enough(extra') => Enough(extra)'
         /\ Enough(qty') => Enough(qty)'
         /\ Enough(seenAmt') => Enough(seenAmt)'
<1>1. Need \in Nat /\ Need' \in Nat
  <2>1. PICK a \in Nat : amt' = a
    BY DEF Holdings, Qty
  <2>2. PICK e \in Nat : entry' = e
    BY DEF Holdings, Qty
  <2> QED BY <2>1, <2>2, NeedRange DEF Need
<1>2. /\ stop' \in Nat /\ new' \in Nat /\ extra' \in Nat
      /\ qty' \in Nat /\ seenAmt' \in Nat
  BY DEF Protective, EngineTypes, SeenTypes, Qty
<1>3. ASSUME NEW q \in Nat, Enough(q) PROVE q = 0 \/ loose' \/ q >= Need'
  BY <1>1, <1>3 DEF Enough, Eased
<1> QED BY <1>2, <1>3 DEF Enough

\* The quantity every handler records covers the need: place() records the
\* lot, recovery, adoption, the repair and the re-check what they read.
LEMMA BookEnough ==
  ASSUME Holdings, Whole, Reads, Sized, SeenEnough,
         [Next]_vars, ~PlaceEntry
  PROVE  tracked' => Enough(qty')
<1>1. CASE UNCHANGED vars
  BY <1>1 DEF vars, book, Sized
<1>2. CASE EntryFills \/ OrphanFills \/ StopFires \/ TpFires \/ HandCloses \/
           OrderVanishes
  <2>1. tracked' = tracked /\ qty' = qty
    BY <1>2 DEF book, Moves, EntryFills, OrphanFills, StopFires, TpFires,
       HandCloses, OrderVanishes
  <2> QED BY <2>1 DEF Sized
<1>3. CASE MoveStop \/ CommandClose \/ Halt \/ Resume \/ Kill \/
           StopRequested \/
           Interrupt
  <2>1. tracked' = tracked /\ qty' = qty
    BY <1>3 DEF book, MoveStop, CommandClose, Halt, Resume, Kill,
       StopRequested, Interrupt
  <2> QED BY <2>1 DEF Sized
<1>4. CASE RecoverCancel \/ EnsureRead \/ EnsureStop \/ EnsureTarget \/
           CloseRead \/
           CloseMarket
  <2>1. tracked' = tracked /\ qty' = qty
    BY <1>4 DEF book, RecoverCancel, EnsureRead, EnsureStop, EnsureTarget,
       CloseRead, CloseMarket
  <2> QED BY <2>1 DEF Sized
<1>5. CASE ReplaceCancel \/ CancelRead \/ CancelEverything \/ CancelEntry \/
           WatchRead \/ LoopExit \/ Restart
  <2>1. tracked' = tracked /\ qty' = qty
    BY <1>5 DEF book, WatchRead, ReplaceCancel, LoopExit, CancelRead,
       CancelEverything, CancelEntry, Restart
  <2> QED BY <2>1 DEF Sized
<1>6. CASE CloseCancel \/ LeftCancel \/ ExpireCancel \/ ExitProcess \/ Crash
  <2>1. tracked' = FALSE \/ (tracked' = tracked /\ qty' = qty)
    BY <1>6 DEF book, Release, CloseCancel, LeftCancel, ExpireCancel, Gone,
       ExitProcess, Crash
  <2> QED BY <2>1 DEF Sized
<1>7. CASE PlaceStop \/ PlaceTarget
  <2>1. qty' = Lot \/ (tracked' = tracked /\ qty' = qty)
    BY <1>7 DEF book, Track, PlaceStop, PlaceTarget
  <2>2. Enough(Lot)
    BY DEF Enough, Sized
  <2> QED BY <2>1, <2>2 DEF Sized
<1>8. CASE RecoverRead \/ Recheck
  <2>1. tracked' = FALSE \/ qty' = amt \/ (tracked' = tracked /\ qty' = qty)
    BY <1>8 DEF book, Release, RecoverRead, LetGo, Recheck
  <2> QED BY <2>1, AmtEnough DEF Sized
<1>9. CASE WatchOrders \/ AdoptOrders \/ EnsureOrders
  <2>1. pc \in {"watch_orders", "adopt_orders", "ensure_orders"}
    BY <1>9 DEF WatchOrders, AdoptOrders, EnsureOrders
  <2>2. \/ tracked' = FALSE \/ qty' = seenAmt
        \/ tracked' = tracked /\ qty' = qty
    BY <1>9 DEF book, Release, EnsureOrders, Adopt, WatchUntracked, WatchOpen,
       LetGo, WatchFlat, WatchOrders, AdoptOrders
  <2> QED BY <2>1, <2>2 DEF Sized, SeenEnough
<1> QED
  BY <1>1, <1>2, <1>3, <1>4, <1>5, <1>6, <1>7, <1>8, <1>9 DEF Next, Exchange,
     Commands, Handler

\* Every stop that place(), the watchdog or the supervisor sends covers the
\* need, and so does each one they rename, adopt or lose.
LEMMA StopsEnough ==
  ASSUME Holdings, Protective, EngineTypes, Whole, Sized, SeenEnough,
         [Next]_vars, ~PlaceEntry, ~StopFires
  PROVE  Enough(stop') /\ Enough(new') /\ Enough(extra')
<1>1. CASE UNCHANGED vars
  BY <1>1 DEF vars, exchange, Sized
<1>2. CASE EntryFills \/ OrphanFills \/ TpFires \/ HandCloses \/
           CommandClose \/
           Halt \/ Resume \/ Kill \/ StopRequested \/ Interrupt \/
           WatchRead \/ LoopExit \/ Restart
  <2>1. UNCHANGED <<stop, new, extra>>
    BY <1>2 DEF exchange, EntryFills, OrphanFills, TpFires, HandCloses,
       WatchRead, CommandClose, Halt, Resume, Kill, StopRequested, LoopExit,
       Interrupt, Restart
  <2> QED BY <2>1 DEF Sized
<1>3. CASE EnsureRead \/ EnsureOrders \/ EnsureTarget \/ CloseRead \/
           CloseMarket \/
           CancelRead \/ CancelEntry
  <2>1. UNCHANGED <<stop, new, extra>>
    BY <1>3 DEF AlgoKept, exchange, Hold, EnsureRead, EnsureOrders,
       EnsureTarget, CloseRead, CloseMarket, CancelRead, CancelEntry
  <2> QED BY <2>1 DEF Sized
<1>4. CASE RecoverCancel \/ RecoverRead \/ CloseCancel \/ LeftCancel \/
           ExpireCancel \/ CancelEverything \/ Recheck \/ ExitProcess \/
           Crash
  <2>1. AlgoKept \/ AlgoGone \/ AlgoForgotten
    BY <1>4 DEF Hold, Forget, Cancelled, CancelRefused, CancelLost,
       DropRefused, DropLost, RecoverCancel, RecoverRead, CloseCancel, LetGo,
       Recheck, LeftCancel, ExpireCancel, CancelEverything, Gone, ExitProcess,
       Crash
  <2> QED BY <2>1, AlgoEnough DEF Sized
<1>5. CASE OrderVanishes
  <2>1. /\ stop' = 0 \/ stop' = stop
        /\ new' = new
        /\ extra' = 0 \/ extra' = extra
    BY <1>5 DEF OrderVanishes
  <2> QED BY <2>1, ZeroEnough DEF Sized
<1>6. CASE WatchOrders \/ AdoptOrders
  <2>1. \/ AlgoKept \/ AlgoForgotten
        \/ stop' = extra /\ extra' = 0 /\ new' = new
    BY <1>6 DEF Hold, Forget, Adopt, WatchUntracked, WatchOpen, LetGo,
       WatchFlat, WatchOrders, AdoptOrders
  <2> QED BY <2>1, AlgoEnough, ZeroEnough DEF Sized
<1>7. CASE PlaceStop
  <2>1. Enough(Lot)
    BY DEF Enough, Sized
  <2>2. Enough(Cap(extra + Lot))
    BY <2>1, CapEnough, QtyFacts DEF Protective, Sized
  <2>3. /\ new' = new
        /\ stop' = Lot \/ stop' = stop
        /\ extra' = extra \/ extra' = Cap(extra + Lot)
    BY <1>7 DEF PlaceStop, StopMaybe
  <2> QED BY <2>1, <2>2, <2>3 DEF Sized
<1>8. CASE PlaceTarget \/ ReplaceCancel
  <2>1. Enough(Cap(extra + stop)) /\ Enough(Cap(extra + new))
    BY CapEnough DEF Protective, Sized
  <2>2. /\ new' = 0 \/ new' = new
        /\ stop' \in {0, stop, new}
        /\ extra' \in {extra, Cap(extra + stop), Cap(extra + new)}
    BY <1>8 DEF PlaceTarget, ReplaceCancel, Hold, AlgoKept
  <2> QED BY <2>1, <2>2, ZeroEnough DEF Sized
<1>9. CASE MoveStop \/ EnsureStop
  <2>1. tracked
    BY <1>9 DEF MoveStop, EnsureStop, SeenEnough
  <2>2. Enough(qty)
    BY <2>1 DEF Sized
  <2>3. Enough(Cap(extra + qty))
    BY <2>2, CapEnough DEF Protective, EngineTypes, Sized
  <2>4. /\ new' \in {new, qty}
        /\ stop' \in {0, stop, qty}
        /\ extra' \in {extra, Cap(extra + qty)}
    BY <1>9 DEF MoveStop, EnsureStop, StopMaybe
  <2> QED BY <2>2, <2>3, <2>4, ZeroEnough DEF Sized
<1> QED
  BY <1>1, <1>2, <1>3, <1>4, <1>5, <1>6, <1>7, <1>8, <1>9 DEF Next, Exchange,
     Commands, Handler

\* A repair is of a tracked position that has filled.
LEMMA NextEnsuring ==
  ASSUME SeenEnough, [Next]_vars
  PROVE  pc' \in {"ensure_read", "ensure_orders", "ensure_stop", "ensure_tp"}
           => tracked' /\ filled'
<1>1. CASE UNCHANGED vars
  BY <1>1 DEF vars, book, local, SeenEnough
<1>2. CASE EntryFills \/ OrphanFills \/ StopFires \/ TpFires \/ HandCloses \/
           OrderVanishes \/ Halt \/ Resume \/ StopRequested
  <2>1. pc' = pc /\ tracked' = tracked /\ filled' = filled
    BY <1>2 DEF book, local, Moves, EntryFills, OrphanFills, StopFires,
       TpFires, HandCloses, OrderVanishes, Halt, Resume, StopRequested
  <2> QED BY <2>1 DEF SeenEnough
<1>3. CASE EnsureRead \/ EnsureOrders \/ EnsureStop \/ EnsureTarget
  <2>1. pc \in {"ensure_read", "ensure_orders", "ensure_stop", "ensure_tp"}
    BY <1>3 DEF EnsureRead, EnsureOrders, EnsureStop, EnsureTarget
  <2>2. tracked' = tracked /\ filled' = filled
    BY <1>3 DEF book, EnsureRead, EnsureOrders, EnsureStop, EnsureTarget
  <2> QED BY <2>1, <2>2 DEF SeenEnough
<1>4. CASE RecoverRead
  <2>1. pc' \in {"ensure_read", "ensure_orders", "ensure_stop", "ensure_tp"} =>
        tracked' = TRUE /\ filled' = TRUE
    BY <1>4 DEF Finish, Done, Escaped, RecoverRead
  <2> QED BY <2>1
<1>5. CASE WatchOrders
  <2>1. CASE WatchUntracked
    BY <2>1 DEF WatchUntracked, Adopt
  <2>2. CASE WatchOpen
    BY <2>2 DEF WatchOpen
  <2>3. CASE ~WatchUntracked /\ ~WatchOpen
    <3>1. pc' \notin {"ensure_read", "ensure_orders", "ensure_stop",
                      "ensure_tp"}
      BY <1>5, <2>3 DEF WatchOrders, WatchFlat, LetGo, Done, Finish, Goto
    <3> QED BY <3>1
  <2> QED BY <2>1, <2>2, <2>3
<1>6. CASE PlaceEntry \/ MoveStop \/ CommandClose \/ Kill \/ Interrupt \/
           PlaceStop
  <2>1. pc' \notin {"ensure_read", "ensure_orders", "ensure_stop", "ensure_tp"}
    BY <1>6 DEF Goto, GotoAs, Finish, Done, Escaped, PlaceEntry, Track,
       Recover, PlaceStop, MoveStop, CommandClose, Kill, Interrupt
  <2> QED BY <2>1
<1>7. CASE PlaceTarget \/ RecoverCancel \/ CloseRead \/ CloseMarket \/
           CloseCancel \/ Recheck
  <2>1. pc' \notin {"ensure_read", "ensure_orders", "ensure_stop", "ensure_tp"}
    BY <1>7 DEF Goto, GotoAs, Saw, Finish, Done, Escaped, Track, Recover,
       PlaceTarget, RecoverCancel, CloseSucceeds, CloseFails, CloseAborts,
       CloseRead, CloseMarket, CloseCancel, LetGo, Recheck
  <2> QED BY <2>1
<1>8. CASE LeftCancel \/ ExpireCancel \/ ReplaceCancel \/ CancelRead \/
           CancelEverything \/ CancelEntry
  <2>1. pc' \notin {"ensure_read", "ensure_orders", "ensure_stop", "ensure_tp"}
    BY <1>8 DEF GotoAs, Saw, Finish, Done, Escaped, LeftCancel, ExpireCancel,
       ReplaceCancel, CancelReturns, CancelThrows, CancelRead,
       CancelEverything, CancelEntry
  <2> QED BY <2>1
<1>9. CASE ExitProcess \/ AdoptOrders \/ WatchRead \/ LoopExit \/ Crash \/
           Restart
  <2>1. pc' \notin {"ensure_read", "ensure_orders", "ensure_stop", "ensure_tp"}
    BY <1>9 DEF GotoAs, Saw, Finish, Done, WatchRead, LoopExit, Gone,
       ExitProcess, Crash, Restart, AdoptOrders
  <2> QED BY <2>1
<1> QED
  BY <1>1, <1>2, <1>3, <1>4, <1>5, <1>6, <1>7, <1>8, <1>9 DEF Next, Exchange,
     Commands, Handler

\* The size a reconcile, an adoption or a repair goes on with covers the need.
LEMMA NextSeenEnough ==
  ASSUME Holdings, Whole, SeenEnough, [Next]_vars, ~PlaceEntry
  PROVE  pc' \in {"watch_orders", "adopt_orders", "ensure_orders"} =>
         Enough(seenAmt')
<1>1. CASE UNCHANGED vars
  BY <1>1 DEF vars, local, SeenEnough
<1>2. CASE WatchRead \/ Restart \/ EnsureRead
  <2>1. pc' \in {"watch_orders", "adopt_orders", "ensure_orders"} =>
        seenAmt' = amt
    BY <1>2 DEF GotoAs, Saw, Finish, Done, Escaped, EnsureFails, EnsureRead,
       WatchRead, Restart
  <2> QED BY <2>1, AmtEnough
<1>3. CASE EntryFills \/ OrphanFills \/ StopFires \/ TpFires \/ HandCloses \/
           OrderVanishes \/ Halt \/ Resume \/ StopRequested
  <2>1. pc' = pc /\ seenAmt' = seenAmt
    BY <1>3 DEF local, Moves, EntryFills, OrphanFills, StopFires, TpFires,
       HandCloses, OrderVanishes, Halt, Resume, StopRequested
  <2> QED BY <2>1 DEF SeenEnough
<1>4. CASE MoveStop \/ CommandClose \/ Kill \/ Interrupt \/ PlaceStop \/
           PlaceTarget \/ RecoverCancel
  <2>1. pc' \notin {"watch_orders", "adopt_orders", "ensure_orders"}
    BY <1>4 DEF Goto, GotoAs, Finish, Done, Escaped, Track, Recover,
       PlaceStop, PlaceTarget, RecoverCancel, MoveStop, CommandClose, Kill,
       Interrupt
  <2> QED BY <2>1
<1>5. CASE RecoverRead \/ EnsureOrders \/ EnsureStop \/ EnsureTarget \/
           CloseRead \/
           CloseMarket \/ CloseCancel
  <2>1. pc' \notin {"watch_orders", "adopt_orders", "ensure_orders"}
    BY <1>5 DEF Goto, GotoAs, Saw, Finish, Done, Escaped, RecoverRead,
       EnsureFails, EnsureOrders, Repaired, NoTarget, NoStop, EnsureStop,
       EnsureTarget, CloseSucceeds, CloseFails, CloseAborts, CloseRead,
       CloseMarket, CloseCancel
  <2> QED BY <2>1
<1>6. CASE WatchOrders \/ Recheck \/ LeftCancel \/ ExpireCancel \/
           ReplaceCancel \/
           CancelRead \/ CancelEverything
  <2>1. pc' \notin {"watch_orders", "adopt_orders", "ensure_orders"}
    BY <1>6 DEF Goto, GotoAs, Saw, Finish, Done, Escaped, Repaired,
       EnsureFirst, WatchUntracked, WatchOpen, LetGo, WatchFlat, WatchOrders,
       Recheck, LeftCancel, ExpireCancel, ReplaceCancel, CancelReturns,
       CancelThrows, CancelRead, CancelEverything
  <2> QED BY <2>1
<1>7. CASE CancelEntry \/ ExitProcess \/ AdoptOrders \/ LoopExit \/ Crash
  <2>1. pc' \notin {"watch_orders", "adopt_orders", "ensure_orders"}
    BY <1>7 DEF GotoAs, Finish, Done, LoopExit, CancelReturns, CancelThrows,
       CancelEntry, Gone, ExitProcess, Crash, AdoptOrders
  <2> QED BY <2>1
<1> QED
  BY <1>1, <1>2, <1>3, <1>4, <1>5, <1>6, <1>7 DEF Next, Exchange, Commands,
     Handler

\* A new entry needs one lot, and finds no stop in place unless it is off plan.
LEMMA SizedPlaceEntry ==
  ASSUME Holdings, Protective, Protective', EngineTypes, EntryKnown, PlaceEntry
  PROVE  Sized'
<1>1. /\ entry = 0 /\ amt' = amt /\ ~tracked /\ UNCHANGED <<tracked, qty>>
      /\ stop' = stop /\ new' = new /\ extra' = extra
  BY DEF PlaceEntry, Idle, EntryKnown, AlgoKept, book
<1>2. CASE loose'
  BY <1>1, <1>2 DEF Sized, Enough
<1>3. CASE ~loose'
  <2>1. entry' = Lot /\ ~(amt + orphan + Stops > 0)
    BY <1>3 DEF PlaceEntry
  <2>2. amt = 0 /\ stop = 0 /\ new = 0 /\ extra = 0
    BY <2>1 DEF Holdings, Protective, Qty, Stops
  <2>3. Need' = Lot
    BY <1>1, <2>1, <2>2, LotAssumption DEF Need
  <2>4. Need' <= Lot
    BY <2>3, LotAssumption
  <2> QED BY <1>1, <2>2, <2>4 DEF Sized, Enough
<1> QED BY <1>2, <1>3

\* Of the stops of nobody's id some may fire and the others stay: what they
\* close is gone from the need too.
LEMMA SizedStopFires ==
  ASSUME Holdings, Protective, Whole, Sized, Eased, StopFires,
         Holdings', Protective', EngineTypes', SeenTypes'
  PROVE  Enough(stop)' /\ Enough(new)' /\ Enough(extra)'
<1>1. /\ amt > 0 /\ entry' = entry /\ loose' = loose
      /\ stop' = 0 \/ stop' = stop
      /\ new' = 0 \/ new' = new
  BY DEF StopFires
<1>2. Enough(stop') /\ Enough(new')
  BY <1>1, ZeroEnough DEF Sized
<1>3. CASE extra' = extra
  BY <1>2, <1>3, EnoughStays DEF Sized
<1>4. CASE extra' # extra
  <2>1. PICK q \in 1 .. extra : extra' = extra - q /\
        amt' = amt - Least(amt, q)
    BY <1>4 DEF StopFires
  <2>2. Enough(extra)'
    <3>1. CASE loose
      BY <1>1, <3>1 DEF Enough
    <3>2. CASE ~loose
      <4>1. entry = 0
        BY <1>1, <3>2 DEF Whole
      <4>2. extra \in Nat /\ amt \in Nat /\ extra >= amt
        BY <2>1, <3>2, <4>1 DEF Sized, Enough, Need, Protective, Holdings, Qty
      <4>3. extra - q >= amt - Least(amt, q)
        BY <4>2 DEF Least
      <4>4. Need' = amt - Least(amt, q)
        BY <1>1, <2>1, <4>1, <4>2 DEF Need
      <4>5. extra' >= Need'
        BY <2>1, <4>3, <4>4
      <4> QED BY <4>5 DEF Enough
    <3> QED BY <3>1, <3>2
  <2> QED BY <1>2, <2>2, EnoughStays
<1> QED BY <1>3, <1>4

\* Every live stop is large enough, in every state of every execution.
THEOREM CoverInvariant == Spec => []CoverInv
<1>1. Init => CoverInv
  <2> SUFFICES ASSUME Init PROVE CoverInv
    OBVIOUS
  <2>1. amt = 0 /\ entry = 0
    BY DEF Init
  <2>2. Need <= Lot
    BY <2>1, LotAssumption DEF Need
  <2> QED BY <2>2 DEF Init, CoverInv, Sized, SeenEnough, Enough
<1>2. /\ TypeInv /\ PlanInv /\ CoverInv /\ [Next]_vars
      /\ TypeInv'
      => CoverInv'
  <2> SUFFICES ASSUME TypeInv, PlanInv, CoverInv, [Next]_vars, TypeInv'
               PROVE  CoverInv'
    OBVIOUS
  <2>1. Holdings /\ Protective /\ EngineTypes /\ SeenTypes /\ EntryKnown
    BY TypeParts
  <2>2. Holdings' /\ Protective' /\ EngineTypes' /\ SeenTypes'
    BY DEF TypeInv, TypeOK, ExchangeTypes, Holdings, Protective
  <2>3. Whole /\ Booked /\ Reads /\ Sized /\ SeenEnough
    BY DEF PlanInv, CoverInv
  <2>4. CASE PlaceEntry
    <3>1. Sized'
      BY <2>1, <2>2, <2>4, SizedPlaceEntry
    <3>2. pc' \notin {"watch_orders", "adopt_orders", "ensure_orders",
                      "ensure_read", "ensure_stop", "ensure_tp"}
      BY <2>4 DEF PlaceEntry, GotoAs, Escaped, Finish
    <3> QED BY <3>1, <3>2 DEF CoverInv, SeenEnough
  <2>5. CASE ~PlaceEntry
    <3>1. Eased
      BY <2>1, <2>3, <2>5, NeedEases
    <3>2. tracked' => Enough(qty)'
      BY <2>1, <2>2, <2>3, <2>5, <3>1, BookEnough, EnoughStays
    <3>3. Enough(stop)' /\ Enough(new)' /\ Enough(extra)'
      <4>1. CASE StopFires
        BY <2>1, <2>2, <2>3, <3>1, <4>1, SizedStopFires
      <4>2. CASE ~StopFires
        BY <2>1, <2>2, <2>3, <2>5, <3>1, <4>2, StopsEnough, EnoughStays
      <4> QED BY <4>1, <4>2
    <3>4. loose' \/ Need' <= Lot
      <4>1. PICK a \in Nat : amt' = a
        BY <2>2 DEF Holdings, Qty
      <4>2. PICK e \in Nat : entry' = e
        BY <2>2 DEF Holdings, Qty
      <4>3. Need' \in Nat /\ Need \in Nat /\ Lot \in Nat
        BY <2>1, <4>1, <4>2, NeedRange, LotAssumption DEF Need
      <4> QED BY <2>3, <3>1, <4>3 DEF Eased, Sized
    <3>5. Sized'
      BY <3>2, <3>3, <3>4 DEF Sized
    <3>6. SeenEnough'
      BY <2>1, <2>2, <2>3, <2>5, <3>1, NextEnsuring, NextSeenEnough,
         EnoughStays DEF SeenEnough
    <3> QED BY <3>5, <3>6 DEF CoverInv
  <2> QED BY <2>4, <2>5
<1> QED
  BY <1>1, <1>2, TypeInvariant, PlanInvariant, PTL DEF Spec

\* The live stops of a trade to plan add up to at least its position, for
\* every value of the constants.
THEOREM CoversPosition == Spec => []StopCoversPosition
<1>1. TypeInv /\ CoverInv => StopCoversPosition
  <2> SUFFICES ASSUME TypeInv, CoverInv, amt > 0, Covered, ~loose
               PROVE  Stops >= amt
    BY DEF StopCoversPosition
  <2>1. Holdings /\ Protective
    BY TypeParts
  <2>2. /\ stop \in Nat /\ new \in Nat /\ extra \in Nat
        /\ amt \in Nat /\ entry \in Nat
    BY <2>1 DEF Holdings, Protective, Qty
  <2> QED BY <2>2 DEF CoverInv, Sized, Enough, Need, Covered, Stops
<1> QED
  BY <1>1, TypeInvariant, CoverInvariant, PTL

-------------------------------------------------------------------------------
(* LookInv: what a handler knows of the position it looked at.             *)

(* A position that was read is what is open, or the exchange has moved.    *)
Looked ==
  pc \in {"watch_orders", "close_market"} => raced \/ seenAmt = amt

(* Where every stop is cancelled the position is flat, or the exchange has *)
(* moved: not where a size is cut to another symbol's step, nor after a    *)
(* flattening kill whose close went wrong.                                 *)
CancelsFlat ==
  /\ pc \in {"left_cancel", "expire_cancel"} => raced \/ amt = 0
  /\ pc = "close_cancel" /\ CloseStep = 1 => raced \/ amt = 0
  /\ pc = "cancel_all" /\ KillAction = "protect" => raced \/ amt = 0

(* A stop whose id is known belongs to a tracked trade, or to a place()    *)
(* that runs or was interrupted.                                           *)
StopKnown ==
  stop = 0 \/ tracked \/ pc \in {"place_tp", "recover_cancel",
                                 "recover_read", "exit"}

(* A trade in the book, and one about to enter it, has a size.             *)
Positive ==
  /\ tracked => qty > 0
  /\ pc \in {"adopt_orders", "ensure_orders"} => seenAmt > 0
  /\ pc = "watch_orders" => tracked \/ seenAmt > 0

(* A stop is sent where there is none, the old one is cancelled once the   *)
(* new one is live, and a repair that is past its stop has one.            *)
Repairing ==
  /\ pc = "ensure_stop" => Stops = 0
  /\ pc = "replace_cancel" => tracked /\ (raced \/ new > 0)
  /\ pc = "ensure_tp" => ret = "refused" \/ raced \/ Covered

(* Recovery runs the repair and the close, and the close it falls back on  *)
(* is the one that halts.                                                  *)
Recovering ==
  who = "recover" =>
    /\ pc \in {"ensure_read", "ensure_orders", "ensure_stop", "ensure_tp",
               "close_read", "close_market", "close_cancel"}
    /\ pc \in {"close_read", "close_market", "close_cancel"} =>
         ret \in {"now", "max", "last"}

LookInv ==
  /\ Looked /\ CancelsFlat /\ StopKnown /\ Positive /\ Repairing /\ Recovering

(* The calls before which something of the position is known.              *)
Looking ==
  {"watch_orders", "adopt_orders", "ensure_orders", "close_market",
   "close_cancel", "left_cancel", "expire_cancel", "cancel_all",
   "ensure_stop", "ensure_tp", "replace_cancel"}

\* Between two calls of a handler only the exchange moves, and it is seen to.
LEMMA MovesRaced ==
  ASSUME Exchange
  PROVE  /\ UNCHANGED <<pc, who, ret, seenAmt, tracked, qty>>
         /\ pc \in Looking => raced' = TRUE
<1>1. Moves
  BY DEF Exchange, EntryFills, OrphanFills, StopFires, TpFires, HandCloses,
     OrderVanishes
<1>2. pc \in Looking => Up /\ ~Idle
  BY DEF Looking, Up, Idle
<1> QED BY <1>1, <1>2 DEF Moves, local, book

\* Fills take stops away and add none.
LEMMA MovesStops ==
  ASSUME Protective, Exchange
  PROVE  /\ stop' \in {0, stop} /\ new' \in {0, new}
         /\ extra' \in 0 .. extra
<1>1. stop \in Nat /\ new \in Nat /\ extra \in Nat
  BY DEF Protective, Qty
<1>2. CASE StopFires
  BY <1>1, <1>2 DEF StopFires
<1>3. CASE EntryFills \/ OrphanFills \/ TpFires \/ HandCloses \/ OrderVanishes
  BY <1>1, <1>3 DEF EntryFills, OrphanFills, TpFires, HandCloses,
     OrderVanishes
<1> QED BY <1>2, <1>3 DEF Exchange

\* Which steps lead to one of those calls.
LEMMA Arrivals ==
  ASSUME [Next]_vars, pc' \in Looking
  PROVE  \/ UNCHANGED vars
         \/ Exchange
         \/ pc' = "watch_orders" /\ WatchRead
         \/ pc' = "adopt_orders" /\ Restart
         \/ pc' = "ensure_orders" /\ EnsureRead
         \/ pc' \in {"close_market", "close_cancel"} /\ CloseRead
         \/ pc' = "close_cancel" /\ CloseMarket
         \/ pc' \in {"left_cancel", "expire_cancel"} /\ WatchOrders
         \/ pc' = "left_cancel" /\ Recheck
         \/ pc' = "cancel_all" /\ CancelRead
         \/ pc' \in {"ensure_stop", "ensure_tp"} /\ EnsureOrders
         \/ pc' = "ensure_tp" /\ EnsureStop
         \/ pc' = "replace_cancel" /\ MoveStop
<1> USE DEF Looking
<1>1. CASE Halt \/ Resume \/ StopRequested
  <2>1. pc' = "idle"
    BY <1>1 DEF Halt, Resume, StopRequested, local, Idle
  <2> QED BY <2>1
<1>2. CASE PlaceEntry \/ CommandClose \/ Kill \/ Interrupt \/ LoopExit \/ Crash
  <2>1. pc' \notin Looking
    BY <1>2 DEF PlaceEntry, CommandClose, Kill, Interrupt, LoopExit, Crash,
       Gone, Escaped, Done, Finish, GotoAs
  <2> QED BY <2>1
<1>3. CASE PlaceStop \/ PlaceTarget \/ RecoverCancel \/ RecoverRead
  <2>1. pc' \notin Looking
    BY <1>3 DEF PlaceStop, PlaceTarget, RecoverCancel, RecoverRead, Track,
       Recover, Escaped, Done, Finish, GotoAs, Goto
  <2> QED BY <2>1
<1>4. CASE EnsureTarget \/ CloseCancel \/ LeftCancel \/ ExpireCancel \/
           ReplaceCancel
  <2>1. pc' \notin Looking
    BY <1>4 DEF EnsureTarget, Repaired, NoStop, NoTarget, EnsureFails,
       CloseCancel, CloseSucceeds, CloseAborts, LeftCancel, ExpireCancel,
       ReplaceCancel, Escaped, Done, Finish, GotoAs, Goto
  <2> QED BY <2>1
<1>5. CASE CancelEverything \/ CancelEntry \/ ExitProcess \/ AdoptOrders
  <2>1. pc' \notin Looking
    BY <1>5 DEF CancelEverything, CancelEntry, CancelReturns, CancelThrows,
       ExitProcess, AdoptOrders, Gone, Escaped, Done, Finish, GotoAs
  <2> QED BY <2>1
<1>6. CASE MoveStop \/ WatchRead \/ Restart
  BY <1>6 DEF MoveStop, WatchRead, Restart, Escaped, Done, Finish, Goto, Saw
<1>10. CASE EnsureRead \/ CancelRead \/ Recheck
  BY <1>10 DEF EnsureRead, CancelRead, Recheck, EnsureFails, CancelReturns,
     CancelThrows, LetGo, Escaped, Done, Finish, GotoAs, Saw
<1>7. CASE CloseRead \/ CloseMarket
  BY <1>7 DEF CloseRead, CloseMarket, CloseFails, CloseAborts, Escaped, Done,
     Finish, GotoAs, Goto, Saw
<1>8. CASE EnsureOrders \/ EnsureStop
  BY <1>8 DEF EnsureOrders, EnsureStop, EnsureFails, Repaired, NoStop,
     Escaped, Done, Finish, GotoAs
<1>9. CASE WatchOrders
  BY <1>9 DEF WatchOrders, WatchUntracked, WatchOpen, WatchFlat, EnsureFirst,
     Repaired, LetGo, Done, Finish, Goto
<1> QED
  BY <1>1, <1>2, <1>3, <1>4, <1>5, <1>6, <1>7, <1>8, <1>9, <1>10 DEF Next,
     Commands, Handler

\* A position read is known until the exchange moves.
LEMMA NextLooked ==
  ASSUME Looked, [Next]_vars
  PROVE  Looked'
<1> SUFFICES ASSUME pc' \in {"watch_orders", "close_market"}
             PROVE  raced' \/ seenAmt' = amt'
  BY DEF Looked
<1>1. CASE UNCHANGED vars
  BY <1>1 DEF vars, exchange, local, Looked
<1>2. CASE Exchange
  BY <1>2, MovesRaced DEF Looking
<1>3. CASE WatchRead \/ CloseRead
  BY <1>3 DEF WatchRead, CloseRead, exchange, Saw, CloseFails, CloseAborts,
     Escaped, Done, Finish, GotoAs, Goto
<1> QED BY <1>1, <1>2, <1>3, Arrivals DEF Looking

\* Everything is cancelled after a look at a flat position.
LEMMA NextCancelsFlat ==
  ASSUME Holdings, SeenTypes, Looked, CancelsFlat, [Next]_vars
  PROVE  CancelsFlat'
<1>1. CASE pc' \notin {"left_cancel", "expire_cancel", "close_cancel",
                       "cancel_all"}
  BY <1>1 DEF CancelsFlat
<1>2. CASE UNCHANGED vars
  BY <1>2 DEF vars, exchange, local, CancelsFlat
<1>3. CASE Exchange
  BY <1>3, MovesRaced DEF Looking, CancelsFlat
<1>4. CASE CloseRead
  <2>1. pc' = "close_cancel" => amt' = 0
    BY <1>4 DEF CloseRead, Holdings, Qty, exchange, Saw, CloseFails,
       CloseAborts, Escaped, Done, Finish, GotoAs, Goto
  <2>2. pc' \notin {"left_cancel", "expire_cancel", "cancel_all"}
    BY <1>4 DEF CloseRead, Saw, CloseFails, CloseAborts, Escaped, Done,
       Finish, GotoAs, Goto
  <2> QED BY <2>1, <2>2 DEF CancelsFlat
<1>5. CASE CloseMarket /\ pc' = "close_cancel"
  <2>1. amt' = amt - Sold /\ raced' = raced
    BY <1>5 DEF CloseMarket, CloseFails, CloseAborts, Escaped, Done, Finish,
       GotoAs, Goto
  <2>2. CASE CloseStep = 1 /\ ~raced
    <3>1. seenAmt = amt /\ amt \in Nat
      BY <1>5, <2>2 DEF CloseMarket, Looked, Holdings, Qty
    <3>2. RoundQty(amt) = amt
      BY <2>2, <3>1 DEF RoundQty
    <3> QED BY <1>5, <2>1, <3>1, <3>2 DEF Sold, Least, CancelsFlat
  <2>3. CASE raced \/ CloseStep # 1
    BY <1>5, <2>1, <2>3 DEF CancelsFlat
  <2> QED BY <2>2, <2>3
<1>6. CASE WatchOrders
  <2>1. pc' \in {"left_cancel", "expire_cancel"} =>
          seenAmt = 0 /\ raced' = raced /\ amt' = amt
    BY <1>6 DEF WatchOrders, WatchUntracked, WatchOpen, WatchFlat,
       EnsureFirst, Repaired, LetGo, Done, Finish, Goto
  <2>2. pc = "watch_orders"
    BY <1>6 DEF WatchOrders
  <2>3. pc' \notin {"close_cancel", "cancel_all"}
    BY <1>6 DEF WatchOrders, WatchUntracked, WatchOpen, WatchFlat,
       EnsureFirst, Repaired, LetGo, Done, Finish, Goto
  <2> QED BY <2>1, <2>2, <2>3 DEF Looked, CancelsFlat
<1>7. CASE Recheck /\ pc' = "left_cancel"
  <2>1. amt' = 0
    BY <1>7 DEF Recheck, Holdings, Qty, LetGo, Done, Finish
  <2> QED BY <1>7, <2>1 DEF CancelsFlat
<1>8. CASE CancelRead /\ pc' = "cancel_all"
  <2>1. KillAction = "protect" => amt' = 0
    BY <1>8 DEF CancelRead, KeepProtective, Holdings, Qty, exchange, Saw,
       CancelReturns, CancelThrows, Done, Finish, GotoAs
  <2> QED BY <1>8, <2>1 DEF CancelsFlat
<1> QED
  BY <1>1, <1>2, <1>3, <1>4, <1>5, <1>6, <1>7, <1>8, Arrivals DEF Looking

\* A stop the engine knows by its id is the stop of a tracked trade.
LEMMA NextStopKnown ==
  ASSUME Protective, SeenEnough, Repairing, StopKnown, [Next]_vars
  PROVE  StopKnown'
<1>1. CASE UNCHANGED vars
  BY <1>1 DEF vars, exchange, book, local, StopKnown
<1>2. CASE Exchange
  BY <1>2, MovesRaced, MovesStops DEF StopKnown
<1>3. CASE PlaceEntry \/ CommandClose \/ Halt \/ Resume \/ Kill \/
           StopRequested \/ Interrupt
  <2>1. stop' = stop /\ tracked' = tracked
    BY <1>3 DEF PlaceEntry, CommandClose, Halt, Resume, Kill, StopRequested,
       Interrupt, AlgoKept, exchange, book
  <2>2. ~tracked => pc' \notin {"place_tp", "recover_cancel"}
    BY <1>3 DEF PlaceEntry, CommandClose, Halt, Resume, Kill, StopRequested,
       Interrupt, Idle, local, Escaped, Done, Finish, GotoAs
  <2>3. stop = 0 \/ tracked \/ pc' = "exit"
    BY <1>3 DEF StopKnown, PlaceEntry, CommandClose, Halt, Resume, Kill,
       StopRequested, Interrupt, Idle, Finish
  <2> QED BY <2>1, <2>3 DEF StopKnown
<1>4. CASE WatchRead \/ LoopExit \/ Restart
  <2>1. stop' = stop /\ tracked' = tracked
    BY <1>4 DEF WatchRead, LoopExit, Restart, exchange, book
  <2>2. stop = 0 \/ tracked
    BY <1>4 DEF StopKnown, WatchRead, LoopExit, Restart, Idle, Up
  <2> QED BY <2>1, <2>2 DEF StopKnown
<1>5. CASE PlaceStop
  BY <1>5 DEF StopKnown, PlaceStop, Track, Recover, Escaped, Goto, GotoAs,
     Finish, Done, book
<1>6. CASE PlaceTarget
  BY <1>6 DEF StopKnown, PlaceTarget, Hold, AlgoKept, Track, Recover,
     Escaped, Goto, GotoAs, Finish, Done, book
<1>7. CASE RecoverCancel \/ RecoverRead
  BY <1>7 DEF StopKnown, RecoverCancel, RecoverRead, Cancelled,
     CancelRefused, DropLost, AlgoKept, AlgoGone, AlgoForgotten, Forget,
     Goto, book
<1>8. CASE EnsureRead \/ EnsureOrders \/ EnsureTarget \/ CloseRead \/
           CloseMarket \/ CancelRead \/ CancelEntry
  <2>1. stop' = stop /\ tracked' = tracked
    BY <1>8 DEF EnsureRead, EnsureOrders, EnsureTarget, CloseRead,
       CloseMarket, CancelRead, CancelEntry, Hold, AlgoKept, exchange, book
  <2>2. stop = 0 \/ tracked
    BY <1>8 DEF StopKnown, EnsureRead, EnsureOrders, EnsureTarget, CloseRead,
       CloseMarket, CancelRead, CancelEntry
  <2> QED BY <2>1, <2>2 DEF StopKnown
<1>9. CASE EnsureStop \/ MoveStop \/ ReplaceCancel
  <2>1. tracked' = tracked
    BY <1>9 DEF EnsureStop, MoveStop, ReplaceCancel, book
  <2>2. tracked
    BY <1>9 DEF SeenEnough, Repairing, EnsureStop, MoveStop, ReplaceCancel
  <2> QED BY <2>1, <2>2 DEF StopKnown
<1>10. CASE CloseCancel \/ LeftCancel \/ ExpireCancel \/ CancelEverything
  <2>1. stop' = 0 \/ (stop' = stop /\ tracked' = tracked)
    BY <1>10 DEF CloseCancel, LeftCancel, ExpireCancel, CancelEverything,
       Cancelled, CancelRefused, CancelLost, DropRefused, AlgoKept, AlgoGone,
       AlgoForgotten, book
  <2>2. stop = 0 \/ tracked
    BY <1>10 DEF StopKnown, CloseCancel, LeftCancel, ExpireCancel,
       CancelEverything
  <2> QED BY <2>1, <2>2 DEF StopKnown
<1>11. CASE WatchOrders \/ Recheck \/ AdoptOrders
  <2>1. \/ stop' = 0 \/ tracked'
        \/ stop' = stop /\ tracked' = tracked
    BY <1>11 DEF WatchOrders, WatchUntracked, WatchOpen, WatchFlat, Recheck,
       AdoptOrders, Adopt, LetGo, Forget, Hold, AlgoKept, AlgoForgotten, book
  <2>2. stop = 0 \/ tracked
    BY <1>11 DEF StopKnown, WatchOrders, Recheck, AdoptOrders
  <2> QED BY <2>1, <2>2 DEF StopKnown
<1>12. CASE ExitProcess \/ Crash
  BY <1>12 DEF StopKnown, ExitProcess, Crash, Gone, Forget, AlgoForgotten
<1> QED
  BY <1>1, <1>2, <1>3, <1>4, <1>5, <1>6, <1>7, <1>8, <1>9, <1>10, <1>11,
     <1>12 DEF Next, Commands, Handler

\* A trade enters the book, and stays in it, with a size.
LEMMA NextTrackedPositive ==
  ASSUME Holdings, EngineTypes, SeenTypes, Positive, [Next]_vars
  PROVE  tracked' => qty' > 0
<1>1. CASE UNCHANGED vars
  BY <1>1 DEF vars, book, Positive
<1>2. CASE Exchange
  BY <1>2, MovesRaced DEF Positive
<1>3. CASE PlaceEntry \/ MoveStop \/ CommandClose \/ Halt \/ Resume \/ Kill \/
           StopRequested \/ Interrupt \/ WatchRead \/ LoopExit \/ Restart
  <2>1. tracked' = tracked /\ qty' = qty
    BY <1>3 DEF PlaceEntry, MoveStop, CommandClose, Halt, Resume, Kill,
       StopRequested, Interrupt, WatchRead, LoopExit, Restart, book
  <2> QED BY <2>1 DEF Positive
<1>4. CASE PlaceStop \/ PlaceTarget \/ RecoverCancel \/ RecoverRead
  <2>1. \/ qty' = Lot \/ (qty' = amt /\ amt > 0)
        \/ tracked' = tracked /\ qty' = qty
    BY <1>4 DEF PlaceStop, PlaceTarget, RecoverCancel, RecoverRead, Track,
       book
  <2>2. Lot > 0
    BY LotAssumption
  <2>3. CASE tracked' = tracked /\ qty' = qty
    BY <2>3 DEF Positive
  <2> QED BY <2>1, <2>2, <2>3
<1>5. CASE EnsureRead \/ EnsureOrders \/ EnsureStop \/ EnsureTarget
  <2>1. \/ qty' = seenAmt /\ pc = "ensure_orders"
        \/ tracked' = tracked /\ qty' = qty
    BY <1>5 DEF EnsureRead, EnsureOrders, EnsureStop, EnsureTarget, book
  <2> QED BY <2>1 DEF Positive
<1>6. CASE CloseRead \/ CloseMarket \/ CloseCancel \/ LeftCancel \/
           ExpireCancel \/ ReplaceCancel
  <2>1. ~tracked' \/ (tracked' = tracked /\ qty' = qty)
    BY <1>6 DEF CloseRead, CloseMarket, CloseCancel, LeftCancel,
       ExpireCancel, ReplaceCancel, Release, book
  <2> QED BY <2>1 DEF Positive
<1>7. CASE CancelRead \/ CancelEverything \/ CancelEntry \/ ExitProcess \/
           Crash
  <2>1. ~tracked' \/ (tracked' = tracked /\ qty' = qty)
    BY <1>7 DEF CancelRead, CancelEverything, CancelEntry, ExitProcess, Crash,
       Gone, Release, book
  <2> QED BY <2>1 DEF Positive
<1>8. CASE Recheck
  BY <1>8 DEF Positive, Recheck, LetGo, Release, book
<1>9. CASE AdoptOrders
  BY <1>9 DEF Positive, AdoptOrders, Adopt, book
<1>10. CASE WatchOrders
  <2>1. CASE WatchUntracked
    BY <1>10, <2>1 DEF Positive, WatchOrders, WatchUntracked, Adopt
  <2>2. CASE WatchOpen
    <3>1. seenAmt > 0 /\ tracked /\ qty' = IF filled THEN qty ELSE seenAmt
      BY <2>2, SMT DEF WatchOpen, SeenTypes, Qty
    <3> QED BY <3>1 DEF Positive
  <2>3. CASE WatchFlat
    BY <2>3 DEF Positive, WatchFlat, LetGo, Release, book
  <2>4. ~tracked' \/ WatchUntracked \/ WatchOpen \/ WatchFlat
        \/ (tracked' = tracked /\ qty' = qty)
    BY <1>10 DEF WatchOrders, book
  <2> QED BY <2>1, <2>2, <2>3, <2>4 DEF Positive
<1> QED
  BY <1>1, <1>2, <1>3, <1>4, <1>5, <1>6, <1>7, <1>8, <1>9, <1>10 DEF Next,
     Commands, Handler

\* What is adopted or repaired was seen open.
LEMMA NextPositive ==
  ASSUME Holdings, EngineTypes, SeenTypes, Positive, [Next]_vars
  PROVE  Positive'
<1>1. tracked' => qty' > 0
  BY NextTrackedPositive
<1>2. CASE UNCHANGED vars
  BY <1>2 DEF vars, book, local, Positive
<1>3. CASE Exchange
  BY <1>1, <1>3, MovesRaced DEF Positive
<1>4. CASE pc' \notin {"adopt_orders", "ensure_orders", "watch_orders"}
  BY <1>1, <1>4 DEF Positive
<1>5. CASE \/ pc' = "watch_orders" /\ WatchRead
           \/ pc' = "adopt_orders" /\ Restart
           \/ pc' = "ensure_orders" /\ EnsureRead
  <2>1. CASE WatchRead
    BY <1>1, <2>1 DEF WatchRead, Saw, Positive, book
  <2>2. CASE pc' = "adopt_orders" /\ Restart
    <3>1. seenAmt' = amt /\ amt > 0
      BY <2>2 DEF Restart, Saw, Done, Finish
    <3> QED BY <1>1, <2>2, <3>1 DEF Positive
  <2>3. CASE pc' = "ensure_orders" /\ EnsureRead
    <3>1. seenAmt' = amt /\ amt > 0
      BY <2>3 DEF EnsureRead, Saw, Done, Escaped, EnsureFails, Finish, GotoAs
    <3> QED BY <1>1, <2>3, <3>1 DEF Positive
  <2> QED BY <1>5, <2>1, <2>2, <2>3
<1> QED BY <1>2, <1>3, <1>4, <1>5, Arrivals DEF Looking

\* What a stop covers is a number.
LEMMA StopsRange ==
  ASSUME Protective
  PROVE  /\ stop \in Nat /\ new \in Nat /\ extra \in Nat /\ Stops \in Nat
         /\ Stops = 0 <=> stop = 0 /\ new = 0 /\ extra = 0
BY DEF Protective, Qty, Stops

\* A sum is positive when a part of it is.
LEMMA PartPositive ==
  \A a, b, c \in Nat : a > 0 \/ b > 0 \/ c > 0 <=> a + b + c > 0
OBVIOUS

\* A repair sends a stop where there is none and goes on once there is one,
\* and a stop is replaced by one that is live.
LEMMA NextRepairing ==
  ASSUME Holdings, Protective, Protective', EngineTypes, SeenEnough, Positive,
         Repairing, [Next]_vars
  PROVE  Repairing'
<1>1. CASE pc' \notin {"ensure_stop", "ensure_tp", "replace_cancel"}
  BY <1>1 DEF Repairing
<1>2. CASE UNCHANGED vars
  BY <1>2 DEF vars, exchange, local, book, Repairing, Stops, Covered
<1>3. CASE Exchange /\ pc' \in Looking
  <2>1. /\ UNCHANGED <<pc, tracked>> /\ raced' = TRUE
    BY <1>3, MovesRaced
  <2>2. Stops = 0 => Stops' = 0
    BY <1>3, MovesStops, StopsRange DEF Stops
  <2> QED BY <2>1, <2>2 DEF Repairing
<1>4. CASE EnsureOrders /\ pc' \in {"ensure_stop", "ensure_tp"}
  <2>1. /\ UNCHANGED <<stop, new, extra>>
        /\ pc' = "ensure_stop" => ~Covered
        /\ pc' = "ensure_tp" => Covered
    BY <1>4 DEF EnsureOrders, exchange, Done, Escaped, EnsureFails, Finish,
       GotoAs
  <2> QED BY <1>4, <2>1, StopsRange DEF Repairing, Covered, Stops
<1>5. CASE EnsureStop /\ pc' = "ensure_tp"
  <2>1. tracked /\ qty > 0
    BY <1>5 DEF EnsureStop, SeenEnough, Positive
  <2>2. ret' = "refused" \/ stop' = qty
    BY <1>5 DEF EnsureStop, Repaired, NoStop, Done, Escaped, EnsureFails,
       Finish, GotoAs
  <2>3. new' \in Nat /\ extra' \in Nat /\ qty \in Nat
    BY DEF Protective, EngineTypes, Qty
  <2>4. stop' = qty => Stops' > 0
    BY <2>1, <2>3, PartPositive DEF Stops
  <2> QED BY <1>5, <2>2, <2>4 DEF Repairing, Covered
<1>6. CASE MoveStop /\ pc' = "replace_cancel"
  <2>1. tracked /\ tracked' = tracked /\ new' = qty
    BY <1>6 DEF MoveStop, Goto, Escaped, Finish, book
  <2> QED BY <1>6, <2>1 DEF Repairing, Positive
<1> QED BY <1>1, <1>2, <1>3, <1>4, <1>5, <1>6, Arrivals DEF Looking

\* Recovery is on its way until it is done.
LEMMA NextRecovering ==
  ASSUME Recovering, [Next]_vars
  PROVE  Recovering'
<1>1. CASE UNCHANGED vars
  BY <1>1 DEF vars, local, Recovering
<1>2. CASE Exchange
  BY <1>2, MovesRaced DEF Recovering
<1>3. CASE Halt \/ Resume \/ StopRequested
  BY <1>3 DEF Halt, Resume, StopRequested, local, Recovering
<1>4. CASE PlaceEntry \/ MoveStop \/ CommandClose \/ Kill \/ Interrupt \/
           WatchRead \/ LoopExit \/ Restart \/ Crash
  <2>1. who' # "recover"
    BY <1>4 DEF Recovering, PlaceEntry, MoveStop, CommandClose, Kill,
       Interrupt, WatchRead, LoopExit, Restart, Crash, Gone, Idle, Up, Saw,
       Escaped, Done, Finish, GotoAs, Goto
  <2> QED BY <2>1 DEF Recovering
<1>5. CASE PlaceStop \/ PlaceTarget \/ RecoverCancel \/ AdoptOrders
  <2>1. who' # "recover"
    BY <1>5 DEF Recovering, PlaceStop, PlaceTarget, RecoverCancel,
       AdoptOrders, Track, Recover, Escaped, Done, Finish, GotoAs, Goto
  <2> QED BY <2>1 DEF Recovering
<1>6. CASE WatchOrders \/ Recheck \/ LeftCancel \/ ExpireCancel \/
           ReplaceCancel
  <2>1. who' # "recover"
    BY <1>6 DEF Recovering, WatchOrders, WatchUntracked, WatchOpen,
       WatchFlat, EnsureFirst, Repaired, LetGo, Recheck, LeftCancel,
       ExpireCancel, ReplaceCancel, Saw, Escaped, Done, Finish, Goto
  <2> QED BY <2>1 DEF Recovering
<1>7. CASE CancelRead \/ CancelEverything \/ CancelEntry \/ ExitProcess
  <2>1. who' # "recover"
    BY <1>7 DEF Recovering, CancelRead, CancelEverything, CancelEntry,
       CancelReturns, CancelThrows, ExitProcess, Gone, Saw, Done, Finish,
       GotoAs
  <2> QED BY <2>1 DEF Recovering
<1>8. CASE RecoverRead
  BY <1>8 DEF Recovering, RecoverRead, Escaped, Done, Finish, GotoAs
<1>9. CASE EnsureRead \/ EnsureOrders
  BY <1>9 DEF Recovering, EnsureRead, EnsureOrders, EnsureFails, Saw,
     Escaped, Done, Finish, GotoAs
<1>10. CASE EnsureStop \/ EnsureTarget
  BY <1>10 DEF Recovering, EnsureStop, EnsureTarget, Repaired, NoStop,
     NoTarget, EnsureFails, Escaped, Done, Finish, GotoAs
<1>11. CASE CloseRead
  BY <1>11 DEF Recovering, CloseRead, CloseFails, CloseAborts, Saw, Escaped,
     Done, Finish, GotoAs, Goto
<1>12. CASE CloseMarket
  BY <1>12 DEF Recovering, CloseMarket, CloseFails, CloseAborts, Escaped,
     Done, Finish, GotoAs, Goto
<1>13. CASE CloseCancel
  BY <1>13 DEF Recovering, CloseCancel, CloseSucceeds, CloseAborts, Escaped,
     Done, Finish, Goto
<1> QED
  BY <1>1, <1>2, <1>3, <1>4, <1>5, <1>6, <1>7, <1>8, <1>9, <1>10, <1>11,
     <1>12, <1>13 DEF Next, Commands, Handler

\* What the handlers know of the position, in every execution.
THEOREM LookInvariant == Spec => []LookInv
<1>1. Init => LookInv
  BY DEF Init, LookInv, Looked, CancelsFlat, StopKnown, Positive, Repairing,
     Recovering
<1>2. /\ TypeInv /\ CoverInv /\ LookInv /\ [Next]_vars
      /\ TypeInv'
      => LookInv'
  <2> SUFFICES ASSUME TypeInv, CoverInv, LookInv, [Next]_vars, TypeInv'
               PROVE  LookInv'
    OBVIOUS
  <2>1. Holdings /\ Protective /\ EngineTypes /\ SeenTypes /\ SeenEnough
    BY TypeParts DEF CoverInv
  <2>2. Protective'
    BY DEF TypeInv, TypeOK, ExchangeTypes, Protective
  <2>3. /\ Looked /\ CancelsFlat /\ StopKnown
        /\ Positive /\ Repairing /\ Recovering
    BY DEF LookInv
  <2>4. Looked' /\ CancelsFlat'
    BY <2>1, <2>3, NextLooked, NextCancelsFlat
  <2>5. StopKnown' /\ Positive'
    BY <2>1, <2>3, NextStopKnown, NextPositive
  <2>6. Repairing' /\ Recovering'
    BY <2>1, <2>2, <2>3, NextRepairing, NextRecovering
  <2> QED BY <2>4, <2>5, <2>6 DEF LookInv
<1> QED
  BY <1>1, <1>2, TypeInvariant, CoverInvariant, PTL DEF Spec

\* Dropping the record of the stops leaves a covered position covered.
LEMMA ForgottenCovered ==
  ASSUME Protective, Covered, AlgoKept \/ AlgoForgotten
  PROVE  Covered'
<1>1. stop \in Nat /\ new \in Nat /\ extra \in Nat /\ Stops > 0
  BY StopsRange DEF Covered
<1>2. MaxQty > 0
  BY <1>1, BoundFact DEF Protective, Qty, Stops
<1>3. CASE AlgoKept
  BY <1>1, <1>3 DEF AlgoKept, Covered, Stops
<1>4. CASE AlgoForgotten
  <2>1. Stops' = Cap(Stops)
    BY <1>1, <1>4, BoundFact DEF AlgoForgotten, Stops, Cap, Least
  <2>2. Cap(Stops) > 0
    BY <1>1, <1>2, BoundFact, StopsRange DEF Cap, Least
  <2> QED BY <2>1, <2>2 DEF Covered
<1> QED BY <1>3, <1>4

\* A step that cancels every stop, of a handler that cancels them once the
\* position is flat.
LEMMA CancelsRaced ==
  ASSUME CancelsFlat, CloseStep = 1, KillAction = "protect",
         CloseCancel \/ LeftCancel \/ ExpireCancel \/ CancelEverything
  PROVE  raced \/ amt = 0
BY DEF CancelsFlat, CloseCancel, LeftCancel, ExpireCancel, CancelEverything

\* No step but a blind cancel of a handler takes the last stop away.
LEMMA StepsCover ==
  ASSUME Protective, Protective', EngineTypes, Booked, SeenEnough, LookInv,
         Covered, [Next]_vars, pc' # pc, ~raced,
         ~(CloseCancel \/ LeftCancel \/ ExpireCancel \/ CancelEverything),
         ~RecoverCancel
  PROVE  Covered'
<1>1. stop \in Nat /\ new \in Nat /\ extra \in Nat /\ Stops > 0
  BY StopsRange DEF Covered
<1>2. stop' \in Nat /\ new' \in Nat /\ extra' \in Nat
  BY DEF Protective, Qty
<1>3. MaxQty > 0 /\ MaxQty \in Nat
  BY <1>1, BoundFact DEF Protective, Qty, Stops
<1>4. stop' > 0 \/ new' > 0 \/ extra' > 0 => Covered'
  BY <1>2, PartPositive DEF Covered, Stops
<1>5. CASE AlgoKept \/ AlgoForgotten
  BY <1>5, ForgottenCovered
<1>6. CASE PlaceStop
  <2>1. \/ stop' = Lot
        \/ AlgoKept
        \/ stop' = stop /\ new' = new /\ extra' \in {extra, Cap(extra + Lot)}
    BY <1>6 DEF PlaceStop, StopMaybe, AlgoKept
  <2>2. extra' = Cap(extra + Lot) => extra' > 0
    BY <1>1, <1>3, LotAssumption DEF Cap, Least
  <2> QED BY <1>1, <1>4, <1>5, <2>1, <2>2, LotAssumption DEF Stops
<1>7. CASE PlaceTarget
  <2>1. \/ AlgoKept
        \/ UNCHANGED <<stop, new, extra>>
        \/ new' = new /\ extra' = Cap(extra + stop)
    BY <1>7 DEF PlaceTarget, Hold, AlgoKept
  <2>2. extra + stop > 0 => Cap(extra + stop) > 0
    BY <1>1, <1>3 DEF Cap, Least
  <2> QED BY <1>1, <1>4, <2>1, <2>2 DEF Stops, AlgoKept
<1>8. CASE EnsureStop
  BY <1>1, <1>8 DEF EnsureStop, LookInv, Repairing
<1>9. CASE MoveStop
  <2>1. UNCHANGED <<stop, tp>> /\ (new' = qty \/ (new' = new /\
          extra' \in {extra, Cap(extra + qty)}))
    BY <1>9 DEF MoveStop, StopMaybe
  <2>2. qty > 0 /\ qty \in Nat
    BY <1>9 DEF MoveStop, LookInv, Positive, EngineTypes, Qty
  <2>3. Cap(extra + qty) > 0
    BY <1>1, <1>3, <2>2 DEF Cap, Least
  <2> QED BY <1>1, <1>4, <2>1, <2>2, <2>3 DEF Stops
<1>10. CASE ReplaceCancel
  <2>1. new > 0
    BY <1>10 DEF ReplaceCancel, LookInv, Repairing
  <2>2. stop' = new \/ extra' = Cap(extra + new)
    BY <1>10 DEF ReplaceCancel
  <2>3. Cap(extra + new) > 0
    BY <1>1, <1>3, <2>1 DEF Cap, Least
  <2> QED BY <1>4, <2>1, <2>2, <2>3
<1>11. CASE WatchOrders \/ AdoptOrders
  <2>1. \/ AlgoKept \/ AlgoForgotten
        \/ Adopt /\ (~tracked \/ pc = "adopt_orders")
    BY <1>11 DEF WatchOrders, WatchUntracked, WatchOpen, WatchFlat,
       AdoptOrders, LetGo, Hold, Forget
  <2>2. CASE Adopt /\ (~tracked \/ pc = "adopt_orders")
    <3>1. stop = 0
      BY <1>11, <2>2 DEF WatchOrders, AdoptOrders, Booked, LookInv, StopKnown
    <3>2. stop' = extra /\ new' = new
      BY <2>2 DEF Adopt
    <3> QED BY <1>1, <1>4, <3>1, <3>2, PartPositive DEF Stops
  <2> QED BY <1>5, <2>1, <2>2
<1>12. CASE \/ PlaceEntry \/ CommandClose \/ Halt \/ Resume \/ Kill
            \/ StopRequested \/ Interrupt \/ WatchRead \/ LoopExit \/ Restart
  <2>1. UNCHANGED <<stop, new, extra>>
    BY <1>12 DEF PlaceEntry, CommandClose, Halt, Resume, Kill, StopRequested,
       Interrupt, WatchRead, LoopExit, Restart, AlgoKept, exchange
  <2> QED BY <1>1, <1>4, <2>1, PartPositive DEF Stops
<1>13. CASE \/ EnsureRead \/ EnsureOrders \/ EnsureTarget \/ CloseRead
            \/ CloseMarket \/ CancelRead \/ CancelEntry
  <2>1. UNCHANGED <<stop, new, extra>>
    BY <1>13 DEF EnsureRead, EnsureOrders, EnsureTarget, CloseRead,
       CloseMarket, CancelRead, CancelEntry, Hold, AlgoKept, exchange
  <2> QED BY <1>1, <1>4, <2>1, PartPositive DEF Stops
<1>14. CASE RecoverRead \/ Recheck \/ ExitProcess \/ Crash
  <2>1. AlgoKept \/ AlgoForgotten
    BY <1>14 DEF RecoverRead, Recheck, LetGo, ExitProcess, Crash, Gone, Hold,
       Forget
  <2> QED BY <1>5, <2>1
<1>15. ~Exchange /\ ~UNCHANGED vars
  <2>1. Exchange => pc' = pc
    BY MovesRaced
  <2>2. UNCHANGED vars => pc' = pc
    BY DEF vars, local
  <2> QED BY <2>1, <2>2
<1> QED
  BY <1>6, <1>7, <1>8, <1>9, <1>10, <1>11, <1>12, <1>13, <1>14, <1>15 DEF
     Next, Commands, Handler

\* Closing, replacing, reconciling, stopping: no step of the engine takes the
\* last stop off an open position unless the exchange moved after the handler
\* looked (engine.py, close_position, replace_protective, reconcile_book and
\* shutdown), for every lot, bound and number of faults -- with a protecting
\* kill, and where a size need not be cut to the step of another symbol.
THEOREM NeverStrips ==
  ASSUME CloseStep = 1, KillAction = "protect"
  PROVE  Spec => NeverStripsUnlessRaced
<1>1. /\ TypeInv /\ PlanInv /\ CoverInv /\ LookInv /\ [Next]_vars /\ TypeInv'
      => [pc' # pc /\ amt > 0 /\ Covered /\ amt' > 0
            => Covered' \/ raced \/ pc = "recover_cancel"]_vars
  <2> SUFFICES ASSUME TypeInv, PlanInv, CoverInv, LookInv, [Next]_vars,
                      TypeInv', pc' # pc, amt > 0, Covered, amt' > 0, ~raced,
                      pc # "recover_cancel"
               PROVE  Covered'
    OBVIOUS
  <2>1. /\ Holdings /\ Protective /\ EngineTypes
        /\ Booked /\ SeenEnough /\ CancelsFlat
    BY TypeParts DEF PlanInv, CoverInv, LookInv
  <2>2. Protective'
    BY DEF TypeInv, TypeOK, ExchangeTypes, Protective
  <2>3. ~(CloseCancel \/ LeftCancel \/ ExpireCancel \/ CancelEverything)
    <3>1. amt # 0
      BY <2>1 DEF Holdings, Qty
    <3> QED BY <2>1, <3>1, CancelsRaced
  <2>4. ~RecoverCancel
    BY DEF RecoverCancel
  <2> QED BY <2>1, <2>2, <2>3, <2>4, StepsCover
<1> QED
  BY <1>1, TypeInvariant, PlanInvariant, CoverInvariant, LookInvariant, PTL
     DEF Spec, NeverStripsUnlessRaced

\* A recovery that runs to its end is at its close or its repair.
LEMMA RecoveryEnds ==
  ASSUME LookInv, [Next]_vars, who = "recover", pc' = "idle",
         ret' # "escaped"
  PROVE  EnsureOrders \/ EnsureStop \/ EnsureTarget \/ CloseRead \/
         CloseMarket \/ CloseCancel
<1>1. pc \in {"ensure_read", "ensure_orders", "ensure_stop", "ensure_tp",
              "close_read", "close_market", "close_cancel"}
  BY DEF LookInv, Recovering
<1>2. ~Exchange /\ ~UNCHANGED vars
  <2>1. Exchange \/ UNCHANGED vars => pc' = pc
    BY MovesRaced DEF vars, local
  <2> QED BY <1>1, <2>1
<1>3. ~(Commands \/ WatchRead \/ LoopExit \/ Restart \/ Crash)
  BY <1>1 DEF Commands, PlaceEntry, MoveStop, CommandClose, Halt, Resume,
     Kill, StopRequested, Interrupt, WatchRead, LoopExit, Restart, Crash,
     Gone, Finish, Idle, Up
<1>4. ~EnsureRead
  BY DEF EnsureRead, EnsureFails, Saw, Escaped, Finish, GotoAs
<1>5. Handler => EnsureRead \/ EnsureOrders \/ EnsureStop \/ EnsureTarget \/
                 CloseRead \/ CloseMarket \/ CloseCancel
  BY <1>1 DEF Handler, PlaceStop, PlaceTarget, RecoverCancel, RecoverRead,
     WatchOrders, Recheck, LeftCancel, ExpireCancel, ReplaceCancel,
     CancelRead, CancelEverything, CancelEntry, ExitProcess, AdoptOrders
<1> QED BY <1>2, <1>3, <1>4, <1>5 DEF Next

\* A repair that ends there has a stop, a close that ends there has halted the
\* bot or sold what was open.
LEMMA RecoverySettled ==
  ASSUME Protective, Protective', EngineTypes, SeenEnough, LookInv,
         CloseStep = 1, [Next]_vars, who = "recover", pc' = "idle",
         ret' # "escaped", ~raced
  PROVE  halted' \/ amt' = 0 \/ Covered'
<1>1. /\ stop \in Nat /\ new \in Nat /\ extra \in Nat
      /\ stop' \in Nat /\ new' \in Nat /\ extra' \in Nat
  BY DEF Protective, Qty
<1>2. CASE EnsureOrders
  BY <1>2 DEF EnsureOrders, EnsureFails, Escaped, Finish, GotoAs, exchange,
     Complete, Covered, Stops
<1>3. CASE EnsureStop
  <2>1. stop' = qty
    BY <1>3 DEF EnsureStop, NoStop, EnsureFails, Escaped, Finish, GotoAs
  <2>2. qty > 0
    BY <1>3 DEF EnsureStop, SeenEnough, LookInv, Positive
  <2> QED BY <1>1, <2>1, <2>2, PartPositive DEF Covered, Stops
<1>4. CASE EnsureTarget
  <2>1. ret # "refused" /\ UNCHANGED <<stop, new, extra>>
    BY <1>4 DEF EnsureTarget, NoStop, NoTarget, EnsureFails, Escaped, Finish,
       GotoAs
  <2>2. Covered
    BY <1>4, <2>1 DEF EnsureTarget, LookInv, Repairing
  <2> QED BY <2>1, <2>2 DEF Covered, Stops
<1>5. CASE CloseRead \/ CloseMarket
  <2>1. ret \in {"now", "max", "last"}
    BY <1>5 DEF CloseRead, CloseMarket, LookInv, Recovering
  <2>2. CloseFails
    BY <1>5, <2>1 DEF CloseRead, CloseMarket, CloseAborts, Saw, Escaped,
       Finish, Goto
  <2> QED BY <2>1, <2>2 DEF CloseFails, GotoAs
<1>6. CASE CloseCancel
  BY <1>6 DEF CloseCancel, LookInv, CancelsFlat
<1> QED BY <1>2, <1>3, <1>4, <1>5, <1>6, RecoveryEnds

\* Recovery of a refused leg that runs to its end leaves the symbol halted,
\* flat or under a stop (engine.py, recover_failed_protection and the
\* ensure_protected and close_position it calls), for every value of the
\* other constants where a size is not cut to another symbol's step.
THEOREM RecoverySettlesAll ==
  ASSUME CloseStep = 1
  PROVE  Spec => RecoverySettles
<1>1. /\ TypeInv /\ CoverInv /\ LookInv /\ [Next]_vars /\ TypeInv'
      => [who = "recover" /\ pc' = "idle" /\ ret' # "escaped"
            => halted' \/ amt' = 0 \/ Covered' \/ raced]_vars
  <2> SUFFICES ASSUME TypeInv, CoverInv, LookInv, [Next]_vars, TypeInv',
                      who = "recover", pc' = "idle", ret' # "escaped", ~raced
               PROVE  halted' \/ amt' = 0 \/ Covered'
    OBVIOUS
  <2>1. Protective /\ EngineTypes /\ SeenEnough
    BY TypeParts DEF CoverInv
  <2>2. Protective'
    BY DEF TypeInv, TypeOK, ExchangeTypes, Protective
  <2> QED BY <2>1, <2>2, RecoverySettled
<1> QED
  BY <1>1, TypeInvariant, CoverInvariant, LookInvariant, PTL
     DEF Spec, RecoverySettles

===============================================================================
