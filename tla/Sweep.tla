------------------------------- MODULE Sweep -------------------------------
(***************************************************************************)
(* Banking part of the gainer's profit, and its principal, in the Funding  *)
(* wallet (gainer.sweep, gainer.limits): what every booked close does to   *)
(* the money, the bookkeeping that survives a restart, the equity the      *)
(* engine sizes and halts with, and the limits that pause new trades.      *)
(*                                                                         *)
(* Wallet amounts are whole cents.  Shares of a profit, and the equity     *)
(* they are taken from, are hundredths of a cent, so a percentage of a     *)
(* cent is exact and the rounding down to whole cents is the code's.       *)
(* A transfer is a request in flight: it may be refused, done, or done     *)
(* with its answer lost.                                                   *)
(***************************************************************************)
EXTENDS Integers, Sequences

CONSTANTS
  Pct, MinTransfer, StartAt,  \* sweep.pct, min_transfer, start_when_equity
  Trigger10,                  \* ten times sweep.principal_trigger_x
  PauseAfter, Drawdown, MaxExposure, GainerLoss,   \* gainer.limits
  DailyLoss, Floor,           \* risk.daily_loss_limit_pct, min_equity_usdt
  Notional,                   \* entry.notional_usdt
  Wins, Losses, Deposit,      \* what a trade may make or lose, one deposit
  MaxTrades, MaxDeposits, MaxDays, MaxFaults       \* bounds of the model

SweepSettings == Pct \in 0..100 /\ MinTransfer \in Nat /\ Trigger10 \in Nat
ASSUME SweepAssumption ==
  /\ SweepSettings
  /\ Wins \subseteq Nat /\ Losses \subseteq Nat
  /\ Deposit \in Nat /\ Notional \in Nat

VARIABLES
  wallet, \* the exchange: futures balance, Funding balance, deposits so far
  trades, \* open gainer trades, and the results of closed ones not booked
  mem,    \* the miner's bookkeeping
  disk,   \* the same, as its state file has it
  eng,    \* the engine: running, equity, day's opening equity, halted
  run,    \* where the booking of a close has got to
  count,  \* faults, opened trades, deposits, days: bounds
  past    \* what the properties remember: share earned, resting, last loss

vars == <<wallet, trades, mem, disk, eng, run, count, past>>

PnLs == Wins \cup {-l : l \in Losses}

AtLeast0(x) == IF x < 0 THEN 0 ELSE x

\* The margin balance of the futures wallet.
MarginBalance == 100 * wallet.futures

\* What came into the futures wallet from outside: our own moves to Funding
\* are negative rows of the same history and do not count.
Counted == wallet.deposited

\* Money waiting to move to Funding, which the engine does not trade.
Reserved(m) == AtLeast0(m.pending) + 100 * AtLeast0(m.principal)
SizingEquity(m) == AtLeast0(MarginBalance - Reserved(m))

Idle == [at |-> "idle", amount |-> 0, share |-> 0]

-----------------------------------------------------------------------------
(* One booked close: the loss streak, the pause, today's P&L.              *)

Noted(m, p) ==
  LET streak == IF p < 0 THEN m.streak + 1 ELSE 0
      resting == p < 0 /\ PauseAfter > 0 /\ streak >= PauseAfter
  IN [m EXCEPT !.today = @ + p,
               !.streak = IF resting THEN 0 ELSE streak,
               !.paused = @ \/ resting]

\* Whole cents of what is pending, rounded down.
Whole(m) == m.pending \div 100

\* sweep_profit applies: it is a win, and the equity has reached StartAt.
Sweeps(p) == p > 0 /\ eng.equity >= 100 * StartAt

\* What the file says once a close is noted; a share that waits for the
\* next win is saved with it.
\* (Slip: the share that waits is not saved.)
SavedSlip(noted, kept, waits) == noted
Saved(noted, kept, waits) == IF waits THEN kept ELSE noted

\* Book a close: note it, then set its share aside and either keep it for
\* the next win or ask the exchange to move it.
Book ==
  /\ eng.up /\ run.at = "idle" /\ trades.due # <<>>
  /\ LET p == Head(trades.due)
         noted == Noted(mem, p)
         kept == [noted EXCEPT !.pending = @ + p * Pct]
         small == Sweeps(p) /\ Whole(kept) < MinTransfer
     IN /\ mem' = IF Sweeps(p) THEN kept ELSE noted
        /\ trades' = [trades EXCEPT !.due = Tail(@)]
        /\ past' = [past EXCEPT
             !.resting = @ \/ (noted.paused /\ ~mem.paused),
             !.earned = IF small THEN @ + p * Pct ELSE @]
        /\ disk' = Saved(noted, kept, small)
        /\ run' = IF Sweeps(p) /\ ~small
                  THEN [at |-> "profit", amount |-> Whole(kept),
                        share |-> p * Pct]
                  ELSE [Idle EXCEPT !.at = "check"]
  /\ UNCHANGED <<wallet, eng, count>>

\* Deposits not yet moved out.
\* (Slip: what was already withdrawn is owed again.)
OwedSlip == Counted
Owed == Counted - mem.withdrawn

\* The trading balance has reached the trigger.
Grown == 10 * (eng.equity + Reserved(mem))
           >= Trigger10 * 100 * Counted

\* check_principal: retry what a failed move set aside, else move what is
\* owed once the balance has grown; the deposits may be unreadable.
CheckPrincipal ==
  /\ eng.up /\ run.at = "check"
  /\ LET amount == IF mem.principal > 0 THEN mem.principal ELSE Owed
         moves == mem.principal > 0 \/ (Owed > 0 /\ Grown)
     IN \/ moves
           /\ run' = [at |-> "principal", amount |-> amount, share |-> 0]
           /\ UNCHANGED count
        \/ ~moves /\ run' = Idle /\ UNCHANGED count
        \/ count.faults < MaxFaults
           /\ count' = [count EXCEPT !.faults = @ + 1] /\ run' = Idle
  /\ UNCHANGED <<wallet, trades, mem, disk, eng, past>>

Sent == [wallet EXCEPT !.futures = @ - run.amount,
                       !.funding = @ + run.amount]

\* What the bookkeeping says once the move was answered with success.
Banked ==
  IF run.at = "profit"
  THEN [mem EXCEPT !.pending = @ - 100 * run.amount,
                   !.swept = @ + run.amount]
  ELSE [mem EXCEPT !.principal = 0, !.withdrawn = @ + run.amount]

\* ... and once it failed: the money stays set aside.
\* (Slip: a failed move is booked as if it had been made.)
SetAsideSlip == Banked
SetAside ==
  IF run.at = "profit" THEN mem ELSE [mem EXCEPT !.principal = run.amount]

Settled ==
  /\ disk' = mem'
  /\ run' = IF run.at = "profit" THEN [Idle EXCEPT !.at = "check"] ELSE Idle
  /\ past' = [past EXCEPT !.earned = @ + run.share]
  /\ UNCHANGED <<trades, eng>>

InFlight == run.at \in {"profit", "principal"}

Moved ==
  /\ eng.up /\ InFlight /\ wallet.futures >= run.amount
  /\ wallet' = Sent /\ mem' = Banked
  /\ Settled /\ UNCHANGED count

Refused ==
  /\ eng.up /\ InFlight /\ count.faults < MaxFaults
  /\ count' = [count EXCEPT !.faults = @ + 1]
  /\ mem' = SetAside
  /\ Settled /\ UNCHANGED wallet

AnswerLost ==
  /\ eng.up /\ InFlight /\ count.faults < MaxFaults
  /\ wallet.futures >= run.amount
  /\ count' = [count EXCEPT !.faults = @ + 1]
  /\ wallet' = Sent /\ mem' = SetAside
  /\ Settled

-----------------------------------------------------------------------------
(* The engine: equity, the day, the guards of a new trade.                 *)

\* periodic: the exchange's balance, less what is set aside; a new day
\* opens at that equity.
Refresh ==
  /\ eng.up /\ run.at = "idle"
  /\ eng' = [eng EXCEPT !.equity = SizingEquity(mem),
                        !.dayStart = IF eng.newDay THEN SizingEquity(mem)
                                     ELSE @,
                        !.newDay = FALSE]
  /\ UNCHANGED <<wallet, trades, mem, disk, run, count, past>>

\* preflight's reasons to halt for good.
Halts ==
  \/ eng.equity < 100 * Floor
  \/ DailyLoss > 0 /\ eng.dayStart > 0
     /\ 100 * (eng.dayStart - eng.equity) >= DailyLoss * eng.dayStart

\* The equity is too far below its high.
Fallen(m) == Drawdown > 0 /\ 100 * eng.equity < m.peak * (100 - Drawdown)

\* trade_notional: the fixed amount.  A share of the equity, and the two modes
\* that scale it by volatility or by conviction, only choose another number.
TradeNotional == 100 * Notional

\* limit_reason: why no new gainer trade is opened.
Limited(m) ==
  \/ m.paused
  \/ MaxExposure > 0
     /\ 100 * TradeNotional * (trades.open + 1) > eng.equity * MaxExposure
  \/ GainerLoss > 0 /\ 100 * 100 * m.today < -(eng.dayStart * GainerLoss)
  \/ Fallen(m)

\* A poll of the board takes the equity's high, and opens a trade on a new
\* leader unless a limit or the engine's preflight forbids it.
Tick(leader) ==
  /\ eng.up /\ run.at = "idle"
  /\ LET m == [mem EXCEPT !.peak = IF eng.equity > @ THEN eng.equity ELSE @]
         opens == leader /\ ~Limited(m) /\ ~eng.halted /\ ~Halts
     IN /\ mem' = m
        /\ opens => count.opened < MaxTrades
        /\ disk' = IF opens THEN m ELSE disk
        /\ trades' = [trades EXCEPT !.open = IF opens THEN @ + 1 ELSE @]
        /\ count' = [count EXCEPT !.opened = IF opens THEN @ + 1 ELSE @]
        /\ eng' = [eng EXCEPT
             !.halted = @ \/ (leader /\ ~Limited(m) /\ Halts)]
  /\ UNCHANGED <<wallet, run, past>>

\* decide: a closed bar runs the preflight of every other strategy.
Decide ==
  /\ eng.up /\ run.at = "idle" /\ ~eng.halted /\ Halts
  /\ eng' = [eng EXCEPT !.halted = TRUE]
  /\ UNCHANGED <<wallet, trades, mem, disk, run, count, past>>

-----------------------------------------------------------------------------
(* The rest of the world.                                                  *)

\* The exchange closes a trade: its result is in the balance at once, and
\* booked later.
Closes(p) ==
  /\ trades.open > 0 /\ wallet.futures + p >= 0
  /\ wallet' = [wallet EXCEPT !.futures = @ + p]
  /\ trades' = [open |-> trades.open - 1,
                due |-> IF eng.up THEN Append(trades.due, p) ELSE trades.due]
  /\ past' = [past EXCEPT !.lost = @ \/ p < 0]
  /\ UNCHANGED <<mem, disk, eng, run, count>>

Deposits ==
  /\ count.deposits < MaxDeposits
  /\ count' = [count EXCEPT !.deposits = @ + 1]
  /\ wallet' = [wallet EXCEPT !.futures = @ + Deposit,
                              !.deposited = @ + Deposit]
  /\ UNCHANGED <<trades, mem, disk, eng, run, past>>

\* Midnight UTC: the day's P&L is filed under another date.
Midnight ==
  /\ count.days < MaxDays
  /\ count' = [count EXCEPT !.days = @ + 1]
  /\ eng' = [eng EXCEPT !.newDay = TRUE]
  /\ mem' = [mem EXCEPT !.today = 0] /\ disk' = [disk EXCEPT !.today = 0]
  /\ UNCHANGED <<wallet, trades, run, past>>

\* pause_until passes.
PauseEnds ==
  /\ past.resting
  /\ mem' = [mem EXCEPT !.paused = FALSE]
  /\ disk' = [disk EXCEPT !.paused = FALSE]
  /\ past' = [past EXCEPT !.resting = FALSE]
  /\ UNCHANGED <<wallet, trades, eng, run, count>>

\* The process dies; a transfer in flight may have been made.
Crash ==
  /\ eng.up /\ count.faults < MaxFaults
  /\ count' = [count EXCEPT !.faults = @ + 1]
  /\ \/ UNCHANGED wallet
     \/ InFlight /\ wallet.futures >= run.amount /\ wallet' = Sent
  /\ eng' = [eng EXCEPT !.up = FALSE]
  /\ run' = Idle
  /\ trades' = [trades EXCEPT !.due = <<>>]
  /\ UNCHANGED <<mem, disk, past>>

\* The bookkeeping a new process starts from.
\* (Slip: the pause is not read back.)
LoadSlip == [disk EXCEPT !.paused = FALSE]
Load == disk

\* A new process reads the file; results booked by nobody are gone.  A
\* halted state refuses to start.
Restart ==
  /\ ~eng.up /\ ~eng.halted
  /\ mem' = Load
  /\ eng' = [eng EXCEPT !.up = TRUE, !.equity = SizingEquity(Load),
                        !.dayStart = IF eng.newDay THEN SizingEquity(Load)
                                     ELSE @,
                        !.newDay = FALSE]
  /\ UNCHANGED <<wallet, trades, disk, run, count, past>>

-----------------------------------------------------------------------------
Fresh == [pending |-> 0, swept |-> 0, principal |-> 0, withdrawn |-> 0,
          streak |-> 0, paused |-> FALSE, today |-> 0, peak |-> 0]

Init ==
  /\ wallet = [futures |-> Deposit, funding |-> 0, deposited |-> Deposit]
  /\ trades = [open |-> 0, due |-> <<>>]
  /\ mem = Fresh /\ disk = Fresh
  /\ eng = [up |-> TRUE, equity |-> 100 * Deposit,
            dayStart |-> 100 * Deposit, newDay |-> FALSE, halted |-> FALSE]
  /\ run = Idle
  /\ count = [faults |-> 0, opened |-> 0, deposits |-> 1, days |-> 1]
  /\ past = [earned |-> 0, resting |-> FALSE, lost |-> FALSE]

Next ==
  \/ Book \/ CheckPrincipal \/ Moved \/ Refused \/ AnswerLost
  \/ Refresh \/ (\E leader \in BOOLEAN : Tick(leader)) \/ Decide
  \/ (\E p \in PnLs : Closes(p)) \/ Deposits \/ Midnight \/ PauseEnds
  \/ Crash \/ Restart

Spec == Init /\ [][Next]_vars

-----------------------------------------------------------------------------
(* Properties.                                                             *)

Book_ == [pending : Nat, swept : Nat, principal : Nat, withdrawn : Nat,
          streak : Nat, paused : BOOLEAN, today : Int, peak : Nat]

\* Every counter stays a whole, non-negative amount: in particular neither
\* the futures balance nor what is pending is ever driven below zero.
TypeOK ==
  /\ wallet \in [futures : Nat, funding : Nat, deposited : Nat]
  /\ trades \in [open : Nat, due : Seq(PnLs)]
  /\ mem \in Book_ /\ disk \in Book_
  /\ eng \in [up : BOOLEAN, equity : Nat, dayStart : Nat, newDay : BOOLEAN,
              halted : BOOLEAN]
  /\ run \in [at : {"idle", "check", "profit", "principal"},
              amount : Nat, share : Nat]
  /\ count \in [faults : Nat, opened : Nat, deposits : Nat, days : Nat]
  /\ past \in [earned : Nat, resting : BOOLEAN, lost : BOOLEAN]

\* sweep_profit: whatever fails, is refused or crashes, the saved file
\* accounts for the share of every win whose booking was finished, as moved
\* or as waiting: nothing is set aside twice and nothing is forgotten.
ShareAccounted == disk.pending + 100 * disk.swept = past.earned

\* The hourly status and every SWEEP message say what is banked in Funding:
\* it is never more than Funding really received.
BankedIsThere ==
  /\ mem.swept + mem.withdrawn <= wallet.funding
  /\ disk.swept + disk.withdrawn <= wallet.funding

\* check_principal moves deposits, never profit: what it has moved and what
\* it has set aside to move are together at most what was deposited.
PrincipalIsDeposits ==
  mem.withdrawn + mem.principal <= wallet.deposited

\* limits.pause_after_losses: from the close that completes the losing
\* streak until pause_hours have passed, no gainer trade is opened, however
\* many restarts fall in between.
PauseHolds == [][trades'.open > trades.open => ~past.resting]_vars

\* config.yaml on principal recovery: "move the deposits to Funding and keep
\* trading the remaining 1.5x": while no trade has lost, moving money out
\* neither pauses the gainer as fallen from its high nor halts the bot.
KeepsTrading == ~past.lost => ~eng.halted /\ ~Fallen(mem)

\* A failed move is retried, never made twice: Funding holds exactly what is
\* booked as moved whenever no transfer is under way.
MovedOnce ==
  eng.up /\ run.at = "idle" => wallet.funding = mem.swept + mem.withdrawn

\* "The bot will not trade with it": at a poll that may open a trade, the
\* equity it is sized with excludes what is set aside.
SetAsideNotTraded ==
  [][trades'.open > trades.open
       => eng.equity + Reserved(mem) <= 100 * wallet.futures]_vars
=============================================================================
