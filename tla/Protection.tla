------------------------------ MODULE Protection ------------------------------
(***************************************************************************)
(* The life of ONE symbol's trade, as bot/engine.py runs it against the    *)
(* exchange: place() and its recovery, the protection watchdog, the        *)
(* reconcile that decides when a trade is over, the supervisor's stop      *)
(* moves, close_position(), the kill switch, shutdown, crash and restart.  *)
(*                                                                         *)
(* The engine is one thread, so its handlers never interleave with each    *)
(* other; every REST call of a handler is a step of its own, because the   *)
(* exchange fills, triggers and expires orders between any two of them.    *)
(* Handlers of other symbols look like a pause between two steps.          *)
(*                                                                         *)
(* Quantities are in lots.  The side, the prices and the quantity of the   *)
(* take-profit are abstracted; whether the market is past a level is a     *)
(* nondeterministic choice.                                                *)
(***************************************************************************)
EXTENDS Integers

CONSTANTS
  Lot,         \* quantity of one entry order
  MaxQty,      \* bound: what a symbol may hold and have resting, together
  CloseAfter,  \* supervise.protect.failure.close_after_attempts (0: never)
  KillAction,  \* risk.kill_action
  CloseStep,   \* LOT_SIZE step of cfg.symbol, in lots of this symbol
  MaxFaults    \* bound: refused or lost calls, vanished orders and crashes

ASSUME LotAssumption    == Lot \in Nat \ {0}
ASSUME MaxQtyAssumption == MaxQty \in Nat /\ MaxQty >= Lot
ASSUME CloseAssumption  == CloseAfter \in Nat
ASSUME KillAssumption   == KillAction \in {"flatten", "protect"}
ASSUME StepAssumption   == CloseStep \in Nat \ {0}
ASSUME FaultAssumption  == MaxFaults \in Nat

VARIABLES
  (* The exchange. *)
  amt,       \* size of the open position
  entry,     \* unfilled rest of the entry order the engine knows by its id
  orphan,    \* unfilled rest of entry orders the engine has no record of
  stop,      \* quantity of the live stop whose id the book holds, 0 if none
  new,       \* quantity of the stop replace_protective() has just placed
  extra,     \* quantity of the live stops whose id nobody holds (aggregate)
  tp,        \* live take-profit: "none", "mine" (id in the book) or "other"
  (* The engine. *)
  tracked,   \* the symbol is in self.book ...
  filled,    \* ... pos.filled ...
  qty,       \* ... pos.qty ...
  planned,   \* ... and pos.stop > 0: there is a planned stop level
  fails,     \* self._protect_failures[symbol], capped at CloseAfter
  halted,    \* state.halted: on disk, so it outlives the process
  stopping,  \* why the loop is to end: "no", "asked", "kill" or "signal"
  pc,        \* the next REST call of the running handler
  who,       \* the caller of ensure_protected: "watch" or "recover"
  ret,       \* the caller of close_position, or what a handler remembers
  seenAmt,   \* position size as this handler last read it
  seenTp,    \* a take-profit was listed when this handler read the orders
  seenLeft,  \* protective orders of the book were still listed then
  (* Bookkeeping of the model. *)
  loose,     \* the symbol holds quantity outside the plan of this trade
  raced,     \* the exchange moved since this handler last read the position
  faults     \* faults left

exchange == <<amt, entry, orphan, stop, new, extra, tp>>
book     == <<tracked, filled, qty, planned>>
control  == <<fails, halted, stopping>>
local    == <<pc, who, ret, seenAmt, seenTp, seenLeft>>
vars     == <<exchange, book, control, local, loose, raced, faults>>

-------------------------------------------------------------------------------
(* Values and small operators. *)

Qty == 0 .. MaxQty

Least(a, b) == IF a <= b THEN a ELSE b

\* Reduce-only stops beyond the largest possible position close nothing more.
Cap(q) == Least(q, MaxQty)

\* What protective_legs() finds in the order list.
Stops    == stop + new + extra
Covered  == Stops > 0
Complete == Covered /\ tp # "none"

Idle == pc = "idle"
Up   == pc \notin {"down", "off"}

ExchangeTypes ==
  /\ amt \in Qty /\ entry \in Qty /\ orphan \in Qty
  /\ stop \in Qty /\ new \in Qty /\ extra \in Qty
  /\ tp \in {"none", "mine", "other"}

EngineTypes ==
  /\ tracked \in BOOLEAN /\ filled \in BOOLEAN /\ planned \in BOOLEAN
  /\ qty \in Qty /\ fails \in 0 .. CloseAfter /\ halted \in BOOLEAN
  /\ stopping \in {"no", "asked", "kill", "signal"}

CallTypes ==
  /\ pc \in {"idle", "down", "off", "adopt_orders",
             "place_stop", "place_tp", "recover_cancel", "recover_read",
             "watch_orders", "recheck", "left_cancel", "expire_cancel",
             "ensure_read", "ensure_orders", "ensure_stop", "ensure_tp",
             "close_read", "close_market", "close_cancel", "replace_cancel",
             "cancel_read", "cancel_all", "cancel_entry", "exit"}
  /\ who \in {"", "watch", "recover"}
  /\ ret \in {"", "escaped", "crossed", "other", "had", "placed", "refused",
              "cmd", "kill", "now", "max", "last"}

SeenTypes ==
  /\ seenAmt \in Qty /\ seenTp \in BOOLEAN /\ seenLeft \in BOOLEAN
  /\ loose \in BOOLEAN /\ raced \in BOOLEAN
  /\ faults \in 0 .. MaxFaults

TypeOK == ExchangeTypes /\ EngineTypes /\ CallTypes /\ SeenTypes

Init ==
  /\ amt = 0 /\ entry = 0 /\ orphan = 0
  /\ stop = 0 /\ new = 0 /\ extra = 0 /\ tp = "none"
  /\ tracked = FALSE /\ filled = FALSE /\ qty = 0 /\ planned = FALSE
  /\ fails = 0 /\ halted = FALSE /\ stopping = "no"
  /\ pc = "idle" /\ who = "" /\ ret = ""
  /\ seenAmt = 0 /\ seenTp = FALSE /\ seenLeft = FALSE
  /\ loose = FALSE /\ raced = FALSE
  /\ faults = MaxFaults

-------------------------------------------------------------------------------
(* How a REST call ends.  Refused: not done, a BinanceError.  Lost: the     *)
(* reply never came -- TimeoutError or a dropped connection, which no      *)
(* handler catches -- and whether the exchange did it is open.             *)

Fault   == faults > 0 /\ faults' = faults - 1
Ok      == UNCHANGED faults
Refused == Fault
Lost    == Fault

(* Classic orders are the entries, algo orders the stops and take-profits. *)
(* Forgotten: the engine drops the symbol, so what still rests has no      *)
(* record any more.                                                        *)

ClassicKept == UNCHANGED <<entry, orphan, loose>>
ClassicGone == entry' = 0 /\ orphan' = 0 /\ UNCHANGED loose
ClassicForgotten ==
  entry' = 0 /\ orphan' = orphan + entry /\ loose' = (loose \/ entry > 0)

AlgoKept == UNCHANGED <<stop, new, extra, tp>>
AlgoGone == stop' = 0 /\ new' = 0 /\ extra' = 0 /\ tp' = "none"
AlgoForgotten ==
  /\ stop' = 0 /\ new' = 0 /\ extra' = Cap(Stops)
  /\ tp' = IF tp = "none" THEN "none" ELSE "other"

Hold   == ClassicKept /\ AlgoKept
Forget == ClassicForgotten /\ AlgoForgotten

\* api.cancel_all(): classic orders first; the algo call may fail after them.
Cancelled     == Ok /\ ClassicGone /\ AlgoGone
CancelRefused == Refused /\ (ClassicKept \/ ClassicGone) /\ AlgoKept
CancelLost    == \/ Lost /\ (ClassicKept \/ ClassicGone) /\ AlgoKept
                 \/ Lost /\ ClassicGone /\ AlgoGone

\* The same, when the engine drops the symbol whatever came of it.
DropRefused == Refused /\ (ClassicForgotten \/ ClassicGone) /\ AlgoForgotten
DropLost    == \/ Lost /\ (ClassicForgotten \/ ClassicGone) /\ AlgoForgotten
               \/ Lost /\ ClassicGone /\ AlgoGone

\* A stop or take-profit sent whose reply was lost: it may be live.
StopMaybe(q) == extra' \in {extra, Cap(extra + q)}
TargetMaybe  == tp' \in {tp, "other"}

\* release(): the symbol leaves the book.
Release ==
  tracked' = FALSE /\ filled' = FALSE /\ qty' = 0 /\ planned' = FALSE

\* Where the running handler goes next, and what it remembers.
Goto(p) == pc' = p /\ UNCHANGED <<who, ret, seenAmt, seenTp, seenLeft, raced>>
GotoAs(p, w, v) ==
  /\ pc' = p /\ who' = w /\ ret' = v
  /\ UNCHANGED <<seenAmt, seenTp, seenLeft, raced>>

\* A read of the position answers; the handler goes on with what it saw.
Saw(p, w) ==
  /\ pc' = p /\ who' = w /\ seenAmt' = amt /\ raced' = FALSE
  /\ UNCHANGED <<ret, seenTp, seenLeft>>

\* The handler is over.
Finish(p, how) ==
  /\ pc' = p /\ who' = "" /\ ret' = how
  /\ seenAmt' = 0 /\ seenTp' = FALSE /\ seenLeft' = FALSE /\ raced' = FALSE

Done    == Finish("idle", "")
Escaped == Finish("idle", "escaped")  \* by an exception the run loop logs

-------------------------------------------------------------------------------
(* The exchange: it may move between any two calls of the engine.          *)

Moves ==
  /\ raced' = (Up /\ ~Idle)
  /\ UNCHANGED <<book, control, local>>

\* The entry fills, whole or in part.
EntryFills ==
  /\ \E q \in 1 .. entry :
       /\ entry' = entry - q /\ amt' = amt + q
       /\ loose' = (loose \/ q < entry)
  /\ Moves /\ UNCHANGED <<orphan, stop, new, extra, tp, faults>>

OrphanFills ==
  /\ \E q \in 1 .. orphan : orphan' = orphan - q /\ amt' = amt + q
  /\ Moves /\ UNCHANGED <<entry, stop, new, extra, tp, loose, faults>>

\* A triggered stop closes at most what is open (reduceOnly).
StopFires ==
  /\ amt > 0
  /\ \/ /\ stop > 0 /\ amt' = amt - Least(amt, stop) /\ stop' = 0
        /\ UNCHANGED <<new, extra>>
     \/ /\ new > 0 /\ amt' = amt - Least(amt, new) /\ new' = 0
        /\ UNCHANGED <<stop, extra>>
     \/ /\ \E q \in 1 .. extra :
             extra' = extra - q /\ amt' = amt - Least(amt, q)
        /\ UNCHANGED <<stop, new>>
  /\ Moves /\ UNCHANGED <<entry, orphan, tp, loose, faults>>

\* The take-profit closes all of the position or the part it was sized for.
TpFires ==
  /\ amt > 0 /\ tp # "none"
  /\ amt' \in 0 .. amt - 1 /\ tp' = "none"
  /\ Moves /\ UNCHANGED <<entry, orphan, stop, new, extra, loose, faults>>

\* The user closes the position on Binance.
HandCloses ==
  /\ amt > 0 /\ amt' = 0
  /\ Moves /\ UNCHANGED <<entry, orphan, stop, new, extra, tp, loose, faults>>

\* An order disappears: expired by the exchange or cancelled by the user.
OrderVanishes ==
  /\ Fault
  /\ \/ entry > 0 /\ entry' = 0 /\ UNCHANGED <<stop, extra, tp>>
     \/ stop > 0 /\ stop' = 0 /\ UNCHANGED <<entry, extra, tp>>
     \/ extra > 0 /\ extra' = 0 /\ UNCHANGED <<entry, stop, tp>>
     \/ tp # "none" /\ tp' = "none" /\ UNCHANGED <<entry, stop, extra>>
  /\ Moves /\ UNCHANGED <<amt, orphan, new, loose>>

Exchange ==
  \/ EntryFills \/ OrphanFills \/ StopFires \/ TpFires \/ HandCloses
  \/ OrderVanishes

-------------------------------------------------------------------------------
(* place(): the entry, then its stop, then its take-profit.                *)

\* Gates that only decide NOT to trade are this action not happening.  The
\* halt is read once per decision cycle: a place() of the same cycle that
\* halts for another symbol before this one does not hold this one back.
PlaceEntry ==
  /\ Idle /\ stopping = "no" /\ ~halted /\ ~tracked
  /\ amt + orphan + Lot <= MaxQty
  /\ halted' \in BOOLEAN
  /\ \/ /\ Ok
        /\ entry' = Lot /\ loose' = (amt + orphan + Stops > 0)
        /\ GotoAs("place_stop", "", "") /\ UNCHANGED orphan
     \/ /\ Lost                 \* accepted: it rests and nobody knows it
        /\ orphan' = orphan + Lot /\ loose' = TRUE
        /\ Escaped /\ UNCHANGED entry
  /\ AlgoKept /\ UNCHANGED <<amt, book, fails, stopping>>

\* The new trade enters the book, not filled yet.
Track ==
  /\ tracked' = TRUE /\ filled' = FALSE /\ qty' = Lot /\ planned' = TRUE
  /\ Done

\* err.code of the refusal: -2021, the market has passed the level, or other.
Recover == \E e \in {"crossed", "other"} : GotoAs("recover_cancel", "", e)

PlaceStop ==
  /\ pc = "place_stop"
  /\ \/ /\ Ok /\ stop' = Lot
        /\ \/ Goto("place_tp") /\ UNCHANGED book
           \/ Track                       \* the signal has no take-profit
        /\ ClassicKept /\ UNCHANGED extra
     \/ Refused /\ Recover /\ ClassicKept /\ UNCHANGED <<stop, extra, book>>
     \/ /\ Lost /\ StopMaybe(Lot) /\ ClassicForgotten
        /\ Escaped /\ UNCHANGED <<stop, book>>
  /\ UNCHANGED <<amt, new, tp, control>>

PlaceTarget ==
  /\ pc = "place_tp"
  /\ \/ /\ Ok /\ tp' = "mine" /\ Track
        /\ ClassicKept /\ UNCHANGED <<stop, extra>>
     \/ Refused /\ Recover /\ Hold /\ UNCHANGED book
     \/ /\ Lost /\ TargetMaybe /\ ClassicForgotten
        /\ stop' = 0 /\ extra' = Cap(extra + stop)
        /\ Escaped /\ UNCHANGED book
  /\ UNCHANGED <<amt, new, control>>

-------------------------------------------------------------------------------
(* recover_failed_protection(): a leg was refused after the entry was sent. *)

RecoverCancel ==
  /\ pc = "recover_cancel"
  /\ \/ (Cancelled \/ CancelRefused) /\ Goto("recover_read")
     \/ DropLost /\ Escaped
  /\ UNCHANGED <<amt, book, control>>

RecoverRead ==
  /\ pc = "recover_read"
  /\ \/ /\ Refused /\ halted' = TRUE       \* unreadable: halt, nothing tracked
        /\ Forget /\ Done /\ UNCHANGED book
     \/ /\ Ok /\ amt = 0
        /\ halted' = (halted \/ ret = "other")
        /\ Forget /\ Done /\ UNCHANGED book
     \/ /\ Ok /\ amt > 0                    \* the entry had already filled
        /\ tracked' = TRUE /\ filled' = TRUE /\ qty' = amt /\ planned' = TRUE
        /\ AlgoForgotten                    \* the new row names no stop
        /\ GotoAs("ensure_read", "recover", "")
        /\ ClassicKept /\ UNCHANGED halted
     \/ Lost /\ Forget /\ Escaped /\ UNCHANGED <<book, halted>>
  /\ UNCHANGED <<amt, fails, stopping>>

-------------------------------------------------------------------------------
(* ensure_protected(): the watchdog's repair of one tracked position.  Its *)
(* caller is reconcile ("watch") or recover_failed_protection ("recover"), *)
(* which closes the position when the repair reports failure.              *)

EnsureFails ==
  IF who = "watch" THEN Done ELSE GotoAs("close_read", who, "last")

EnsureRead ==
  /\ pc = "ensure_read"
  /\ \/ Ok /\ amt > 0 /\ Saw("ensure_orders", who)
     \/ Ok /\ amt = 0 /\ EnsureFails
     \/ Refused /\ EnsureFails
     \/ Lost /\ Escaped
  /\ UNCHANGED <<exchange, book, control, loose>>

\* The orders and the mark price, then plan_protection().  Of two missing legs
\* the stop comes first; with the market past the planned stop the plan is to
\* close at once.
EnsureOrders ==
  /\ pc = "ensure_orders"
  /\ \/ /\ Ok /\ Complete
        /\ fails' = 0 /\ Done /\ UNCHANGED qty
     \/ /\ Ok /\ ~Complete
        /\ qty' = seenAmt /\ seenTp' = (tp # "none")
        /\ \/ ~Covered /\ planned /\ pc' = "close_read" /\ ret' = "now"
           \/ ~Covered /\ pc' = "ensure_stop" /\ ret' = ""
           \/ Covered /\ pc' = "ensure_tp" /\ ret' = "had"
        /\ UNCHANGED <<who, seenAmt, seenLeft, raced, fails>>
     \/ Refused /\ EnsureFails /\ UNCHANGED <<qty, fails>>
     \/ Lost /\ Escaped /\ UNCHANGED <<qty, fails>>
  /\ UNCHANGED <<exchange, tracked, filled, planned, halted, stopping, loose>>

\* What the repair reports once both legs have been tried.
Repaired == fails' = 0 /\ Done
NoTarget == fails' = 0 /\ EnsureFails
NoStop ==
  /\ fails' = Least(fails + 1, CloseAfter)
  /\ IF CloseAfter > 0 /\ fails + 1 >= CloseAfter
     THEN GotoAs("close_read", who, "max") ELSE EnsureFails

EnsureStop ==
  /\ pc = "ensure_stop"
  /\ \/ /\ Ok /\ stop' = qty /\ planned' = TRUE
        /\ \/ seenTp /\ Repaired
           \/ ~seenTp /\ GotoAs("ensure_tp", who, "placed") /\ UNCHANGED fails
        /\ UNCHANGED extra
     \/ /\ Refused /\ stop' = 0
        /\ \/ seenTp /\ NoStop
           \/ ~seenTp /\ GotoAs("ensure_tp", who, "refused") /\ UNCHANGED fails
        /\ UNCHANGED <<extra, planned>>
     \/ /\ Lost /\ StopMaybe(qty) /\ stop' = 0
        /\ Escaped /\ UNCHANGED <<planned, fails>>
  /\ ClassicKept
  /\ UNCHANGED <<amt, new, tp, tracked, filled, qty, halted, stopping>>

EnsureTarget ==
  /\ pc = "ensure_tp"
  /\ \/ /\ Ok /\ tp' = "mine"
        /\ IF ret = "refused" THEN NoStop ELSE Repaired
     \/ /\ Refused /\ UNCHANGED tp
        /\ CASE ret = "refused" -> NoStop
             [] ret = "had"     -> NoTarget
             [] OTHER           -> Repaired
     \/ Lost /\ TargetMaybe /\ Escaped /\ UNCHANGED fails
  /\ ClassicKept
  /\ UNCHANGED <<amt, stop, new, extra, book, halted, stopping>>

-------------------------------------------------------------------------------
(* close_position(): read, close at market, only then cancel.  `ret` names *)
(* the caller: the operator or the supervisor ("cmd"), close_all() of the  *)
(* kill switch ("kill"), the watchdog past the planned stop ("now") or     *)
(* after CloseAfter failures ("max"), the last resort of recovery ("last"). *)

CloseSucceeds ==
  /\ fails' = IF ret \in {"now", "max"} THEN 0 ELSE fails
  /\ Done /\ UNCHANGED halted

\* (Slip: the last resort of recovery fails and nobody is told.)
CloseFailsQuietly == Done /\ UNCHANGED <<fails, halted>>

CloseFails ==
  /\ fails' = IF ret = "now" THEN 0 ELSE fails
  /\ halted' = (halted \/ ret = "last")
  /\ CASE ret = "kill" -> Goto("cancel_read")
       [] ret \in {"now", "max"} /\ who = "recover"
                       -> GotoAs("close_read", who, "last")
       [] OTHER        -> Done

\* An exception leaves close_position(); only close_all() carries on after one.
CloseAborts ==
  /\ IF ret = "kill" THEN Goto("cancel_read") ELSE Escaped
  /\ UNCHANGED <<fails, halted>>

CloseRead ==
  /\ pc = "close_read"
  /\ \/ /\ Ok /\ Saw(IF amt > 0 THEN "close_market" ELSE "close_cancel", who)
        /\ UNCHANGED <<fails, halted>>
     \/ Refused /\ CloseFails
     \/ Lost /\ CloseAborts
  /\ UNCHANGED <<exchange, book, stopping, loose>>

\* self.rules.round_qty(): down to the step of cfg.symbol, whatever the symbol.
RoundQty(q) == q - (q % CloseStep)

\* reduceOnly: at most what is open.  (Slip: a plain market order.)
SoldBlind == RoundQty(seenAmt)
Sold == Least(RoundQty(seenAmt), amt)

CloseMarket ==
  /\ pc = "close_market"
  /\ \/ /\ Ok /\ Sold > 0 /\ amt' = amt - Sold
        /\ Goto("close_cancel") /\ UNCHANGED <<fails, halted>>
     \/ Ok /\ Sold = 0 /\ CloseFails /\ UNCHANGED amt  \* nothing it may reduce
     \/ Refused /\ CloseFails /\ UNCHANGED amt
     \/ Lost /\ amt' \in {amt, amt - Sold} /\ CloseAborts
  /\ Hold /\ UNCHANGED <<book, stopping>>

CloseCancel ==
  /\ pc = "close_cancel"
  /\ \/ (Cancelled \/ DropRefused) /\ Release /\ CloseSucceeds
     \/ CancelLost /\ CloseAborts /\ UNCHANGED book
  /\ UNCHANGED <<amt, stopping>>

-------------------------------------------------------------------------------
(* reconcile_book() and protect_positions(), once a minute, halted or not:  *)
(* positions are read BEFORE the orders.                                   *)

\* A read refused here ends the round with nothing done.
WatchRead ==
  /\ Idle /\ (tracked \/ amt > 0)
  /\ Saw("watch_orders", "watch")
  /\ UNCHANGED <<exchange, book, control, loose, faults>>

\* ensure_protected() on the order list already read.
EnsureFirst ==
  IF Complete THEN Repaired ELSE Goto("ensure_read") /\ UNCHANGED fails

\* adopt_row(): an open position the book does not hold, and its orders.
Adopt ==
  /\ tracked' = TRUE /\ filled' = TRUE /\ qty' = seenAmt
  /\ planned' = (extra > 0)
  /\ stop' = extra /\ extra' = 0
  /\ tp' = IF tp = "none" THEN "none" ELSE "mine"
  /\ ClassicKept /\ UNCHANGED new

\* reconcile_position() of an untracked, an open and a flat symbol in turn.
\* (Slip: warn_untracked() only, as with adopt_untracked off.)
WatchUntrackedWarns == ~tracked /\ Done /\ Hold /\ UNCHANGED <<book, fails>>
WatchUntracked == ~tracked /\ Adopt /\ EnsureFirst

WatchOpen ==
  /\ tracked /\ seenAmt > 0
  /\ filled' = TRUE /\ qty' = IF filled THEN qty ELSE seenAmt
  /\ EnsureFirst
  /\ Hold /\ UNCHANGED <<tracked, planned>>

Left == stop > 0 \/ tp = "mine"        \* protective orders of the book

\* The trade is over: what still rests, if anything, is nobody's any more.
\* (Slip: the reconcile logs it and leaves the book alone.)
LetGoKeeps == Done /\ Hold /\ UNCHANGED book
LetGo == Release /\ Forget /\ Done

\* (Slip: the reconcile before the LITUSDT re-check was written.)
WatchFlatAtOnce ==
  /\ tracked /\ seenAmt = 0 /\ UNCHANGED fails
  /\ \/ entry > 0 /\ (Done \/ Goto("expire_cancel")) /\ Hold /\ UNCHANGED book
     \/ entry = 0 /\ Left /\ Goto("left_cancel") /\ Hold /\ UNCHANGED book
     \/ entry = 0 /\ ~Left /\ LetGo

WatchFlat ==
  /\ tracked /\ seenAmt = 0 /\ UNCHANGED fails
  /\ \/ /\ entry > 0                        \* still resting: keep, or expired
        /\ Done \/ Goto("expire_cancel")
        /\ Hold /\ UNCHANGED book
     \/ /\ entry = 0 /\ ~filled             \* ambiguous: ask again
        /\ pc' = "recheck" /\ seenLeft' = Left
        /\ Hold /\ UNCHANGED <<book, who, ret, seenAmt, seenTp, raced>>
     \/ /\ entry = 0 /\ filled /\ Left
        /\ Goto("left_cancel") /\ Hold /\ UNCHANGED book
     \/ entry = 0 /\ filled /\ ~Left /\ LetGo

WatchOrders ==
  /\ pc = "watch_orders"
  /\ \/ Ok /\ (WatchUntracked \/ WatchOpen \/ WatchFlat)
     \/ (Refused \/ Lost) /\ Done /\ Hold /\ UNCHANGED <<book, fails>>
  /\ UNCHANGED <<amt, halted, stopping>>

\* The LITUSDT re-check: this symbol's position alone, before letting go.
Recheck ==
  /\ pc = "recheck"
  /\ \/ (Refused \/ Lost) /\ Done /\ Hold /\ UNCHANGED book
     \/ /\ Ok /\ amt > 0
        /\ filled' = TRUE /\ qty' = amt
        /\ Done /\ Hold /\ UNCHANGED <<tracked, planned>>
     \/ /\ Ok /\ amt = 0 /\ seenLeft
        /\ Saw("left_cancel", who) /\ Hold /\ UNCHANGED book
     \/ Ok /\ amt = 0 /\ ~seenLeft /\ LetGo
  /\ UNCHANGED <<amt, control>>

\* Flat with protective orders listed: cancel them and release.
LeftCancel ==
  /\ pc = "left_cancel"
  /\ \/ (Cancelled \/ DropRefused) /\ Release /\ Done
     \/ CancelLost /\ Escaped /\ UNCHANGED book
  /\ UNCHANGED <<amt, control>>

\* expire_stale_entry(): entry_expiry_minutes have passed.
ExpireCancel ==
  /\ pc = "expire_cancel"
  /\ \/ Cancelled /\ Release /\ Done
     \/ CancelRefused /\ Done /\ UNCHANGED book
     \/ CancelLost /\ Escaped /\ UNCHANGED book
  /\ UNCHANGED <<amt, control>>

-------------------------------------------------------------------------------
(* The supervisor's stop moves, replace_protective(): place, then cancel.  *)

\* (Slip: sized like the take-profit of a runner, half the position.)
MoveStopHalved ==
  /\ Idle /\ tracked /\ filled /\ planned
  /\ Ok /\ new' = qty \div 2 /\ Goto("replace_cancel")
  /\ ClassicKept /\ UNCHANGED <<amt, stop, extra, tp, book, control>>

MoveStop ==
  /\ Idle /\ tracked /\ filled /\ planned
  /\ \/ Ok /\ new' = qty /\ Goto("replace_cancel") /\ UNCHANGED extra
     \/ Lost /\ StopMaybe(qty) /\ Escaped /\ UNCHANGED new
  /\ ClassicKept /\ UNCHANGED <<amt, stop, tp, book, control>>

\* A failed cancel leaves the old stop live with no record of it.
ReplaceCancel ==
  /\ pc = "replace_cancel" /\ new' = 0
  /\ \/ Ok /\ stop' = new /\ Done /\ UNCHANGED extra
     \/ Refused /\ stop' = new /\ extra' = Cap(extra + stop) /\ Done
     \/ Lost /\ stop' \in {0, stop} /\ extra' = Cap(extra + new) /\ Escaped
  /\ ClassicKept /\ UNCHANGED <<amt, tp, book, control>>

-------------------------------------------------------------------------------
(* Commands, the halt, the kill switch and the end of the process.         *)

\* /close, close_all() and the supervisor's exit_now.
CommandClose ==
  /\ Idle /\ tracked
  /\ GotoAs("close_read", "", "cmd")
  /\ UNCHANGED <<exchange, book, control, loose, faults>>

\* state.halt(): the daily loss limit, the equity floor, another symbol.
Halt ==
  /\ Idle /\ halted' = TRUE
  /\ UNCHANGED <<exchange, book, fails, stopping, local, loose, raced, faults>>

Resume ==
  /\ Idle /\ halted' = FALSE
  /\ UNCHANGED <<exchange, book, fails, stopping, local, loose, raced, faults>>

\* trigger_kill() then close_all() or cancel_orders_safely().
Kill ==
  /\ Idle /\ stopping = "no"
  /\ halted' = TRUE /\ stopping' = "kill"
  /\ IF ~tracked THEN Done
     ELSE IF KillAction = "flatten" THEN GotoAs("close_read", "", "kill")
     ELSE GotoAs("cancel_read", "", "")
  /\ UNCHANGED <<exchange, book, fails, loose, faults>>

\* request_stop(): /stop and /restart.
StopRequested ==
  /\ Idle /\ stopping = "no" /\ stopping' = "asked"
  /\ UNCHANGED <<exchange, book, fails, halted, local, loose, raced, faults>>

\* The run loop ends.  After a kill shutdown() finds the exchange work done.
LoopExit ==
  /\ Idle /\ stopping \in {"asked", "kill"}
  /\ GotoAs(IF stopping = "asked" /\ tracked THEN "cancel_read" ELSE "exit",
            "", "")
  /\ UNCHANGED <<exchange, book, control, loose, faults>>

\* SIGINT, which is how systemd stops the service: the running handler is
\* abandoned wherever it is and shutdown() runs.
Interrupt ==
  /\ Up /\ stopping # "signal" /\ pc # "exit"
  /\ pc \in {"cancel_read", "cancel_all", "cancel_entry"} => stopping = "kill"
  /\ stopping' = "signal"
  /\ Finish(IF tracked THEN "cancel_read" ELSE "exit", "")
  /\ UNCHANGED <<exchange, book, fails, halted, loose, faults>>

\* _cancel_symbol() returns or throws: into the loop after a kill, else on to
\* the exit.
CancelReturns == IF stopping = "kill" THEN Done ELSE GotoAs("exit", "", "")
CancelThrows  ==
  IF stopping = "kill" THEN Done ELSE GotoAs("exit", "", "escaped")

\* (Slip: shutdown() cancels everything, as it did before QA R1.)
KeepNothing == FALSE

\* keep_protective: only a flattening kill does not ask for it.
KeepProtective == stopping # "kill" \/ KillAction = "protect"

CancelRead ==
  /\ pc = "cancel_read"
  /\ \/ Ok /\ amt > 0 /\ KeepProtective /\ Saw("cancel_entry", who)
     \/ Ok /\ ~(amt > 0 /\ KeepProtective) /\ Saw("cancel_all", who)
     \/ Refused /\ CancelReturns
     \/ Lost /\ CancelThrows
  /\ UNCHANGED <<exchange, book, control, loose>>

CancelEverything ==
  /\ pc = "cancel_all"
  /\ \/ (Cancelled \/ CancelRefused) /\ CancelReturns
     \/ CancelLost /\ CancelThrows
  /\ UNCHANGED <<amt, book, control>>

\* Only the resting entry is pulled.
CancelEntry ==
  /\ pc = "cancel_entry"
  /\ \/ Ok /\ entry' = 0 /\ CancelReturns         \* pulled, or not there
     \/ Refused /\ CancelReturns /\ UNCHANGED entry
     \/ Lost /\ entry' \in {0, entry} /\ CancelThrows
  /\ AlgoKept /\ UNCHANGED <<amt, orphan, loose, book, control>>

\* The process is gone: "down" comes back by Restart=on-failure, "off" does
\* not.  The book and the failure counts lived in its memory.
Gone(p) ==
  /\ Finish(p, "") /\ Release /\ Forget
  /\ fails' = 0 /\ stopping' = "no" /\ UNCHANGED <<amt, halted>>

\* /restart exits 75, /stop and a kill 0; an exception in shutdown() 1.
ExitProcess ==
  /\ pc = "exit" /\ Ok
  /\ \/ stopping = "asked" /\ Gone("down")
     \/ ~(stopping = "asked" /\ ret = "escaped") /\ Gone("off")

Crash ==
  /\ Up /\ Fault
  /\ IF stopping = "signal" THEN Gone("off") ELSE Gone("down")

\* startup(): a halted state refuses to start; else the positions are read.
Restart ==
  /\ ~Up /\ ~halted
  /\ \/ Ok /\ amt > 0 /\ Saw("adopt_orders", "")
     \/ Ok /\ amt = 0 /\ Done
     \/ Refused /\ Done
     \/ Lost /\ Finish("down", "")
  /\ UNCHANGED <<exchange, book, control, loose>>

\* adopt_open_positions(); a refused order list adopts nothing.
AdoptOrders ==
  /\ pc = "adopt_orders"
  /\ \/ Ok /\ Adopt /\ Done
     \/ Refused /\ Done /\ Hold /\ UNCHANGED book
     \/ Lost /\ Finish("down", "") /\ Hold /\ UNCHANGED book
  /\ UNCHANGED <<amt, control>>

-------------------------------------------------------------------------------
Handler ==
  \/ PlaceStop \/ PlaceTarget \/ RecoverCancel \/ RecoverRead
  \/ EnsureRead \/ EnsureOrders \/ EnsureStop \/ EnsureTarget
  \/ CloseRead \/ CloseMarket \/ CloseCancel
  \/ WatchOrders \/ Recheck \/ LeftCancel \/ ExpireCancel \/ ReplaceCancel
  \/ CancelRead \/ CancelEverything \/ CancelEntry \/ ExitProcess
  \/ AdoptOrders

Commands ==
  \/ PlaceEntry \/ MoveStop \/ CommandClose \/ Halt \/ Resume
  \/ Kill \/ StopRequested \/ Interrupt

Next ==
  \/ Exchange \/ Commands \/ Handler \/ WatchRead \/ LoopExit
  \/ Crash \/ Restart

\* A running handler runs on; the loop reaches the once-a-minute reconcile
\* again and again, whatever else it does between two of them; a stopping
\* loop ends and systemd brings a failed process back.  The exchange, the
\* operator and the market owe the engine nothing.
Fairness ==
  /\ WF_vars(Handler)
  /\ SF_vars(WatchRead)
  /\ WF_vars(LoopExit)
  /\ WF_vars(pc = "down" /\ Restart)

Spec     == Init /\ [][Next]_vars
FairSpec == Spec /\ Fairness

-------------------------------------------------------------------------------
(* Properties. *)

\* The reconcile that gives a trade up never does it to a live one: when it
\* is about to cancel the protective orders of a trade it holds for finished,
\* the position is flat, however the fills fell between its reads.  (The
\* LITUSDT trade of 2026-09-14 lost its stop there; a partly filled or an
\* unrecorded entry is outside the plan the code checks against.)
ReconcileNeverStrips ==
  pc = "left_cancel" => loose \/ (amt = 0 /\ entry = 0)

\* Closing, replacing, reconciling, stopping: no step of the engine leaves an
\* open position with no stop that had one, unless the exchange moved after
\* the handler's last look at the position.  Close before cancel, place before
\* cancel, read before cancel.  Recovery starts with a blind cancel by design.
NeverStripsUnlessRaced ==
  [][ pc' # pc /\ amt > 0 /\ Covered /\ amt' > 0
        => Covered' \/ raced \/ pc = "recover_cancel" ]_vars

\* A stop that exists is big enough: whatever the handlers have cancelled,
\* replaced or adopted, the live stops of a trade that runs to plan add up to
\* at least its position.
StopCoversPosition == amt > 0 /\ Covered /\ ~loose => Stops >= amt

\* Recovery of a refused leg that runs to its end leaves the symbol halted,
\* flat or under a stop, however the cancel, the read and the repair fared.
RecoverySettles ==
  [][ who = "recover" /\ pc' = "idle" /\ ret' # "escaped"
        => halted' \/ amt' = 0 \/ Covered' \/ raced ]_vars

\* An open position without a stop does not stay so: it is stopped, closed or
\* left by an operator who stopped the bot -- crashes, lost replies and
\* refused orders notwithstanding.  The exception is a halted bot that died.
NakedIsResolved ==
  amt > 0 /\ ~Covered
    ~> amt = 0 \/ Covered \/ pc = "off" \/ (pc = "down" /\ halted)

\* A trade that is over gives its slot back: with nothing open and nothing
\* resting that could open, the symbol leaves the book.
SlotIsFreed ==
  tracked /\ amt + entry + orphan = 0 ~> ~tracked \/ amt + entry + orphan > 0

-------------------------------------------------------------------------------
(* What the repository says of the program and the code does not do.       *)

\* "The account is never left holding a position with its stop removed": the
\* kill switch takes no stop off a position that stays open.
KillNeverStrips ==
  [][ stopping = "kill" /\ pc' # pc /\ amt > 0 /\ Covered /\ amt' > 0
        => Covered' \/ raced ]_vars

\* "A halt stops new entries and leaves an open position monitored": a halted
\* bot comes to track a position that is open, or it has been told to stop.
HaltLeavesMonitored ==
  halted /\ amt > 0 ~> amt = 0 \/ tracked \/ ~halted \/ pc = "off"

\* "Returns True only if it actually closed": a close that goes through and
\* lets go of the symbol leaves it flat.
CloseMeansClosed ==
  [][ pc = "close_cancel" /\ tracked /\ ~tracked' => amt' = 0 \/ raced ]_vars

\* "Ask again, for this symbol alone, before letting go of anything": with
\* every call answered, the reconcile cancels the protective orders of a flat
\* symbol only -- of a partly filled entry too.
AsksBeforeLettingGo == pc = "left_cancel" => amt = 0

===============================================================================
