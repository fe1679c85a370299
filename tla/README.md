# A verification of the trading bot

This directory specifies the Binance USD-M futures bot of this repository in
TLA+, model-checks it with TLC and proves the safety properties that matter
most with TLAPS. It is written beside the code: a definition of a module stands
for the lines that `PROJECT.json` names under `map`.

## The system

One process, `run.py trade`, started by systemd (`deploy/trading-bot.service`).
`bot/engine.py` is its centre: a single thread that polls prices, decides,
places orders, reconciles with the exchange once a minute and executes
commands. Telegram and the dashboard are threads of their own that only put
commands on a queue; the optional websocket stream is a thread that only puts
events on one. So handlers of the engine never interleave with each other.
What they interleave with is the exchange: between any two REST calls an entry
may fill, a stop trigger, an order expire, the user close by hand. And any call
may be refused or lose its reply, and the process may die between any two.

| Component | State | Operations | Hard part | Module |
|---|---|---|---|---|
| engine, life of a trade (`engine.py`, `positions.py`) | the book of tracked positions (memory only), failure counts, the halt (on disk) | `place`, `recover_failed_protection`, `ensure_protected`, `reconcile_position`, `reconcile_book`, `replace_protective`, `close_position`, `expire_stale_entry`, `adopt_open_positions` | fills between reads, half-done sequences, lost replies, crash | `Protection` |
| engine, run loop (`engine.py`, `run.py`) | stop flag, exit code, clocks | `run`, `periodic`, `process_commands`, `emergency_check`, `trigger_kill`, `shutdown` | kill, halt, stop and restart share a path with different promises | `Protection`, `Lifecycle`, `Desk`, `Controls` |
| protective levels (`protect.py`) | none | `plan_protection` | levels on the right side of a market that moves | `Levels` |
| supervisor (`supervise.py`) | levels and flags of a position | `supervise` | five rules that move the same stop, carried out by calls that fail | `Levels`, `Ratchet` |
| risk, state, targets (`risk.py`, `state.py`, `targets.py`) | halt, day counters | `preflight`, `check_portfolio`, `roll_day_if_needed`, `rebase_equity_anchors` | day roll, halt, resume, restart and a capped equity in any order | `Desk`, `Sizing` |
| portfolio, filters (`portfolio.py`, `filters.py`, `risk.py`) | none | `allocate`, `size_position`, `round_qty` | minima, steps and budgets pull against each other | `Sizing` |
| a cycle of the portfolio (`engine.py`, `scanner.py`) | book, slots, the clock of the last entry | `portfolio_cycle`, `close_all` | orders that rest, fill late or are given up on by mistake | `Desk` |
| control surfaces (`telegram_control.py`, `dashboard.py`, `settings.py`) | queues, pending confirmations, update offset, settings file | enqueue, confirm, pop, execute | expiry, double presses, redelivery, a crash with a queue | `Controls`, `Confirmation` |
| stream (`stream.py`) | connection, subscriptions, bounded queue | dispatch, reconnect, keepalive, `on_order` | dropped, late and missing events beside a REST reconcile | `Feed` |
| gainer, squeeze (`gainer.py`, `squeeze.py`) | leader, tracks, cooldowns, rounds | `tick`, `check_leader`, `check_round`, `open`, `_protect`, `close`, `restore` | buys first and protects second; restarts that share one book | `Gainer` |
| gainer's money (`gainer.py`) | daily limits, sweep ledger | `note_close`, `sweep_profit`, `check_principal`, `limited` | transfers with no answer, bookkeeping saved in pieces | `Sweep` |
| restart budget (`engine.py`, systemd) | ledger of restarts, stop flag and exit code | `request_restart`, `request_stop`, `run`, the unit | two counters of starts, commands behind one that stops | `Lifecycle` |
| exchange client (`binanceapi.py`) | clock offset | REST calls | refused or unknown outcome | in every module |
| notifier, journal, reports, strategies, backtests | logs, caches | - | - | not modelled |

Every component is listed in `PROJECT.json` with its status; the hazards found
while reading are listed there at the line where each bites, with the
properties that cover it or the reason why none does.

## Modules

| Module | Models | Proved in |
|---|---|---|
| `Protection` | one symbol's trade against the exchange, call by call | `ProtectionProofs` |
| `Lifecycle` | the process as a systemd unit and the restart budget | `LifecycleProofs` |
| `Gainer` (`MCGainer`) | the two strategies that own their exits, and the engine they share | `GainerProofs` |
| `Desk` (`MCDesk`) | the trading day over several symbols | `DeskProofs` |
| `Levels` | where the stop and the target of a position move | `LevelsProofs` |
| `Ratchet` | what `Levels` promises, implemented by it | `LevelsProofs` |
| `Controls` | Telegram, dashboard, queues and the commands | `ControlsProofs` |
| `Confirmation` | what `Controls` promises of a question, implemented by it | `ControlsProofs` |
| `Feed` | the websocket beside the reconcile; dry run | `LifecycleProofs` |
| `Sweep` | the gainer's profit sweep, principal and limits | `SweepProofs` |
| `Sizing` | from the account to the order | `SizingProofs` |

The modules cut the engine by question, and each takes as one step what another
takes apart. `Protection` knows every call of one trade and nothing of prices;
`Levels` knows the prices of one trade and its orders; `Feed` has two trades of
one symbol in succession and two ways of hearing of them; `Desk` and `Gainer`
have several symbols, where closing or reconciling one is a single step;
`Lifecycle` decides whether a process that left comes back. `MCGainer` and
`MCDesk` only add the symmetry of the symbols.

Parenthesised "Slip" operators next to a definition are that definition with a
plausible mistake, some of them mistakes the code has had. They occur in no
specification; each shows that some property would notice.

### Protection

State. The exchange: size of the position (`amt`), what is left of the entry
order the book names (`entry`) and of entries it does not (`orphan`), the stops
(`stop` the book's, `new` the replacement just placed, `extra` all the others
together) and the take-profit. The book: `tracked`, `filled`, `qty`, `planned`.
The engine: `fails`, `halted`, `stopping`. The running handler: `pc` names its
next REST call, `who` and `ret` its callers, `seenAmt`, `seenTp`, `seenLeft`
what it has read so far.

Actions. One per REST call of a handler, with everything the handler does up to
its next call; the handler's early returns and exception paths are the
disjuncts. A call is answered, is refused (`BinanceError`: the branch the
handler has for it) or loses its reply (`TimeoutError`, a reset connection:
nothing in the handlers catches it, so it unwinds to the run loop, to
`protect_positions` or to `close_all`, and whether the exchange did it is open).
`cancel_all` is two calls, so it may also have done half. Exchange actions are
enabled in every state. `Crash` is enabled at every call; systemd brings the
process back and `Restart`, `AdoptOrders` rebuild the book. An operator's
SIGINT abandons the running handler.

What is abstracted: prices and levels (whether the market is past a level is a
choice), the side, the quantity of the take-profit and its moves, P&L, messages
and journal. The symbol is one of the scanner's, not `cfg.symbol`; the
configuration is the deployed one: polling, no dry run, the watchdog on with
`adopt_untracked`. Gates that only decide not to trade are the entry not
happening. A halt raised for another symbol earlier in the same cycle does not
hold a later `place()` back, so `PlaceEntry` may leave `halted` set. A refused
call is taken not to have been done, as the code takes it; answers that leave
it open (-1007, 503) are not split off. The classic and the algo list are
read as one: an entry appears only in the first and the protective orders only
in the second, and nothing is concluded from the two together.

`loose` marks a symbol that holds quantity outside its trade's plan: a partly
filled entry, an entry with a lost reply, an entry placed onto a position the
book does not hold. `ReconcileNeverStrips` and `StopCoversPosition` exclude it,
and `AsksBeforeLettingGo` (under Findings) shows why the first has to. `raced`
is true while the exchange has moved since the handler last read the position:
a handler cannot see that, so `NeverStripsUnlessRaced` asks only about the
rest. Both are history variables: no guard reads them.

### Lifecycle

State. The unit: its `phase`, the starts of the interval systemd is counting
(`starts`, each with the request it answers or 0), the tick from which
`RestartSec` lets it start again (`ready`), the request the next start would
answer (`asked`). The ledger file (`ledger`), the process's `stopping` and
`code`, the halt on disk. `asked`, the `req` of a start, `intact` and `told`
are there for the properties; no guard reads them.

Actions. systemd starts the unit after a failure, or refuses and fails it
(`StartUnit`, with the interval that begins at the first start outside the one
before, as systemd counts it); the operator starts it or resets the count from
a shell. `startup()` succeeds or exits 1, always while halted. The commands
`/restart` (refused, granted, granted but not written down), `/stop`, `/halt`,
`/resume` and the KILL file, any number of them before the loop sees its flag.
`shutdown()`, then the exit code decides; a crash, or an exception out of
`shutdown()`, is a failure like any other.

What is abstracted: the clock ticks as it likes, but each start and each
request takes at least one tick, so stamps differ; it is never corrected (the
source treats stamps from the future as current). What `startup()` refuses for
besides the halt is one choice. `systemctl restart` is `Interrupt` and then
`OperatorStarts`. `Fallible` FALSE switches every failure off.

### Gainer

State. Whose a position is (`owner`), whether it has a stop, the engine's
`book` with the strategy each position is tagged with; the strategies' own
files (`opened`, `armed`, `closedAt`, `rearm`, the leader of the `board`) and
what they keep in memory only (the candidate, the squeeze's `round`); `halted`
on disk; the thread: handler, strategy, symbol, work left. `soldAt` and the
settlement a round's purchases belong to are history.

Actions. A tick of the gainer (board, leader, ladder, exits, re-entry) and of
the squeeze (round, hold), with the calls of `open()` one by one: the buy, the
read of its fill, the stop, the target, the flattening of what could not be
protected, the cancel. Each is answered, refused or lost. The engine's side: it
closes, reconciles and adopts positions of the same book. Trades by hand, stops
that fire, `Crash` anywhere, `Restart` with `restore()`, whose adoption may
have read nothing.

What is abstracted: prices. Which coin leads, which rates are extreme, which
step of the ladder is reached, whether a filter passes, are choices; so
`CooldownHolds`, `RoundOnce` and `OpenSettles` hold for every market. One close
or reconcile of a symbol is one step, which `Protection` takes apart.

### Desk

State. Per symbol what the exchange has (flat, an entry resting, open) and what
the trade realised; the wallet; the state file with the day's counters, the halt
and the anchor of a tracked cap; what a process remembers (equity, cap, book,
the one clock of resting entries); the thread, with the symbols left in a
reconcile or a cycle, those a flattening still has to close, the one about to
be let go of, and the slots left. History: the wallet as last read, what the
day began with and booked, and the symbols the bot has lost sight of.

Actions. `Periodic` and `Reconcile` (an old entry expires, a fill is seen, a
flat position is booked and let go of), `CloseAll` one position at a time,
`GateHalts`, `Decide` with `allocate()`, `Cycle` one candidate at a time
(passed over, declined by `place()`, placed, refused, recovered from a refused
leg), closes by hand or by the supervisor, fills, exits, the clock, `Shutdown`,
`Crash`, `Restart` with another cap, `Resume`.

What is abstracted: a trade wins or loses one amount, percentages are whole and
divisions round down, the ranking of the scanner is a choice. A booking that
cannot be read is one of its outcomes. A symbol is `lost` while the exchange
has something there that a crash, a lost reply, a refused cancel or a failed
adoption took from the bot's view; `NeverStacks` and `SlotsHold` are about the
rest, and the reconcile is what ends the state.

### Levels and Ratchet

State. The side, the market, the quantity in halves, the stops and targets on
the exchange, the tracked position as the book has it, the plan the thread is
carrying out.

Actions. `Tick` is `supervise()` (break even, runner with its split, horizon
exits, failed breakout, ladder, patience), `Watch` the rebuilding of missing
orders by `plan_protection()`; then the calls of `replace_protective()` one by
one, new order first, old one cancelled second, each of which may fail.
`Move` lets the market step by one and fires what it crosses. `Vanish` takes
orders away from outside, `Crash` and `Adopt` lose the book and rebuild it.

`Ratchet` is the promise: a position has one price at which it will be sold,
that price only improves, and it is left at that price or better. `Levels`
implements it with the tightest of its stops as the floor (`FloorOnlyRises`).
Only orders taken away from outside (`Vanish`) leave it bare.

What is abstracted: a price is a tick on a short grid, ATR is one number, the
market moves one tick between two calls. Trailing orders of the exchange
(`TRAILING_STOP_MARKET`) and the dry run are left out.

### Controls

State. The updates Telegram still holds, the buttons on the operator's screen,
the Telegram thread (offset, batch, pending confirmations), the two queues, the
snapshot, the engine thread and its memory, `state.json` and the configuration
file.

Actions. The operator writes, presses, posts; a confirmation expires; the
thread polls, acknowledges by the next offset and handles one update at a time;
the engine pops, executes one command at a time and saves; saves fail, the
process dies between any two steps and restarts.

`Confirmation` is the promise: a question is a new one, may be answered until it
is forgotten, one answer makes it due, and what is due runs at most once; a
sweep, a crash or an exception may forget a question but nothing brings one
back. `Controls` implements it (`QuestionsRunOnce`). The mapping reads what can
be answered from the pending confirmations that have not expired, what is due
from the queue of the phone and the line the engine has in hand, and what is
spent from the offset and the number of the process: every update behind the
offset, and everything of an earlier life. A scan (`Order`) is queued without a
question. The dashboard asks nothing and is none of its business. `PressedOnce`
says of the queue what the promise means for it: no press in it is late, has run
or is there twice; it is proved, and a run does not check it beside
`QuestionsRunOnce`.

What is abstracted: nine commands stand for the menu, one for each way a
command acts (on positions, the halt, the strategy, a setting, the process,
nothing). Values of a setting are classes: what a key's registry, parser and
file each accept.

### Feed

State. What the exchange has of one symbol over two trades, the socket and its
subscriptions, the bounded queue, what the engine tracks, its thread, the dry
run's pending orders. `tally` counts what was booked, as history.

Actions. The socket connects, subscribes, loses its connection or its listen
key and drops the oldest event of a full queue; the engine handles one event
(an order update, a tick) or reconciles over REST, call by call. In a dry run
ticks decide what fills.

What is abstracted: prices; one symbol, whose trades follow one another; an
event carries which trade and how much.

### Sweep

State. Futures and funding balance, deposits, the open trades and the results
not booked; the strategy's bookkeeping in memory and in its file; the equity
and the halt of the engine; where the booking of a close has got to.

Actions. `note_close`, `sweep_profit`, `check_principal`, `limited`, each up to
its next transfer or save; a transfer is refused, done, or done without an
answer; deposits, days, crash and restart.

What is abstracted: amounts are whole cents and shares of them hundredths, so
rounding is the code's; unrealised P&L; which coin.

### Sizing

State. The account of a cycle, the allocation so far, the candidates left, the
orders sent and not over, as a bag.

Actions. Each trim of `allocate()`'s loops is a step, then a candidate is
passed over, or sized, checked against the book and rounded by the exchange's
filters into an order; orders end; the next cycle finds another account.

The book is a function from orders to how many there are, for the sums over it
to be the library's `SumFunction`, which can be reasoned about.

What is abstracted: floats are exact fractions, compared by multiplying out,
so the `1e-9` tolerances of the source have no counterpart. One position per
symbol, `stop_room` and the single-symbol path are not modelled.

## Runs

| Run | Question | Properties | Instance | Result |
|---|---|---|---|---|
| `protection_protect` | does any handler strip a stop; is it big enough; does recovery settle | `TypeOK`, `ReconcileNeverStrips`, `StopCoversPosition`, `NeverStripsUnlessRaced`, `RecoverySettles` | lot 3, up to 4, close after 2 failures, kill `protect`, 3 faults | holds, 6.7 M states |
| `protection_liveness` | is a naked position resolved, a slot freed | `NakedIsResolved`, `SlotIsFreed` | lot 1, up to 2, 2 faults, with fairness | holds, 0.29 M states |
| `kill_strips` | a kill never strips a stop | `KillNeverStrips` | lot 1, 1 fault | violated |
| `lifecycle_budget` | is the budget kept among systemd's starts; what fails the unit | `TypeOK`, `RestartsFitBudget`, `ReserveOutlastsRestarts` | interval 6, 3 starts, budget 1, 11 ticks, failures | holds, 2.5 M states |
| `gainer_mine` | who owns a position, how `open()` ends, cooldown, rounds | `TypeOK`, `StandsAside`, `RoundOnce`, `OpenSettles`, `CooldownHolds` | 2 coins, a slot each, hold 1 and 2, 2 buys a round, period 2, cooldown 2, 2 faults | holds, 6.0 M states |
| `gainer_live` | is an overdue position sold, a dead track dropped | `OverdueIsSold`, `TrackIsDropped` | 1 coin of 2, hold 1, 2 faults, with fairness | holds |
| `desk_day` | stacking, slots, loss limit and halts over a day roll and changing caps | `TypeOK`, `SlotsHold`, `NoPhantomHalt`, `LossStopsTheDay`, `NeverStacks` | 2 symbols, caps 0 and 60, limit 5 %, 1 trade a day, 2 days, 1 fault | holds, 5.1 M states |
| `levels_move` | do the moving stops implement the ratchet; break even | `TypeOK`, `BreakEvenHolds`, `BookedStopIsLive`, `FloorOnlyRises` | prices 8 to 16, risk 2, goal 4, every rule on, 1 fault | holds, 0.56 M states |
| `controls` | do the surfaces and the engine implement the confirmation, so that a press runs at most once; does a halt hold; is anything lost | `TypeOK`, `HaltHolds`, `NothingLost`, `QuestionsRunOnce` | 3 inputs, 2 lives, 2 faults | holds, 5.8 M states |
| `feed` | are fills counted once, finished trades released, positions tracked | `FillCountedOnce`, `FinishedIsReleased`, `HeldIsTracked` | 2 trades of 2, a queue of 2, 1 fault, with fairness | holds, 1.1 M states |
| `sweep` | is the money accounted for | `ShareAccounted`, `BankedIsThere`, `PrincipalIsDeposits`, `PauseHolds` | 3 trades, 2 deposits, 2 days, 2 faults | holds, 2.4 M states |
| `sizing` | is the allocation the largest, is the cycle in its budget | `AllocationIsLargest`, `CycleFitsBudget`, `LeverageHolds` | 3 accounts, 1 or 4 coins, 3 leverages, 2 cycles | holds, 0.1 M states |

Run one with `tlc -config <cfg> <module>.tla`; `PROJECT.json` names the pair,
and a mutant for every property: a definition changed the way a plausible
mistake would change the code, under which the run fails.

Bounds. In `Protection`, `MaxQty` above the lot leaves room for an entry
stacked on a remainder; a lot of 3 has partial fills and partial take-profits.
`CloseAfter = 2` has a failure that retries and one that closes. Three faults
reach a refused leg, a refused repair and a refused close in one recovery, the
longest failure path that still has somewhere to go. In `lifecycle_budget` a
limit of 3 with a budget of 1 leaves the reserve of 2 that 5 and 3 leave; 11
ticks hold a whole interval, the starts before it and a second one begun. Two
coins in `Gainer` and two symbols in `Desk` compete for a slot, and two faults
in `Gainer` are a refused protection and a refused flattening. Two days and one
trade a day in `Desk` let every counter reach its limit and be reset. The grid
of `Levels` has room for the entry, break even, two steps of the ladder and the
target. Two trades in `Feed` let events of the first arrive in the second; a
queue of two overflows. Two lives in `Controls` are what was queued before a
crash and after it. Where a theorem below names the property, it lifts the
bounds.

Deadlock is not checked: a stopped bot with nothing resting really stops, and
the bounded clocks and inputs run out.

Fairness. `Protection`: `WF(Handler)`, a handler that waits for a reply gets
one or a timeout, since every call has one; `SF(WatchRead)`, the loop comes by
`periodic()` every 60 seconds whatever else it does, and strongly because other
handlers run between two rounds; `WF(LoopExit)` and `WF(Restart)` after a
failure, the loop tests its flag each turn and systemd has
`Restart=on-failure`. `Gainer`: the same of the handlers and the restart;
`SF(Tick(m))` and `SF(ReleaseFlat(s))`, since polls and reconciles recur while
other handlers run in between. `Feed`: the engine handles what is queued, the
reconcile recurs, the socket's thread reconnects and subscribes. Not assumed
anywhere: anything of the exchange, the market, the operator. Faults are
finite in number, so calls succeed in the end.

## Findings

Each is a disagreement of the code with what the repository says of it.

`kill_strips`, a run: `trigger_kill` with `flatten` cancels everything after a
close that was refused, so the position stays open with no stop, which the
README calls the one behaviour deliberately excluded. `PROJECT.json` quotes the
lines.

These have a configuration of their own, to be run by hand; TLC finds each
property violated.

| Configuration | Property | What happens |
|---|---|---|
| `ProtectionHalted` | `HaltLeavesMonitored` | A halt is said to leave positions monitored. After a crash of a halted bot startup refuses before it adopts them, until somebody clears the halt. |
| `ProtectionRounding` | `CloseMeansClosed` | `close_position` rounds by the step of the configured symbol. Where that is coarser than the symbol's own, a remainder stays open, unprotected and untracked, and the close is reported as done. |
| `ProtectionPartFill` | `AsksBeforeLettingGo` | The re-check before a reconcile lets go of a trade is skipped once `filled` is set, which a partial fill does; a remainder filling between the reads is then stripped. |
| `LifecycleSpent` | `GrantedRestartReturns` | `/restart` is said to be refused when it would spend systemd's last start. The ledger knows only restarts that were asked for, so after crashes one is granted on a limit that is spent already, and the unit fails. |
| `LifecycleStop` | `StopStaysDown` | `/stop` behind a `/restart` in one iteration tells the operator that the bot stays down; the exit code of the restart stays, and systemd brings it back. |
| `GainerRestart` | `RestartReattaches` | "A restart re-attaches them to the right strategy" (`gainer.py:632`): a restart whose adoption read nothing drops the strategy's tracks, and the position is later adopted as one of the engine's own. |
| `DeskTracking` (of `MCDesk`) | `NoPhantomHalt` | `rebase_day_start_equity` is to keep "both halves of the daily-loss comparison on one basis" (`engine.py:671`). With `equity_cap_tracks_pnl` it does so only for an opening above equity and cap together (`engine.py:689`): a cap of 60 set in the middle of a day that opened with 100 reads as a loss of 40 and halts the bot, with no trade made. The default, a cap that does not track, is proved, and so is a tracking cap that is never changed. |
| `LevelsRunner` | `RunnerHasNoCeiling` | The remainder of a split position is "left to run on a trail with no ceiling"; the watchdog finds it without a take-profit and places one (`engine.py:2502`, `2570`). |
| `SweepPaused` | `KeepsTrading` | Moving the deposits out is said to leave the rest trading (`config.yaml:574`). The peak is never lowered, so the withdrawal reads as a drawdown and pauses new trades (`gainer.py:1038`). |
| `SweepTwice` | `MovedOnce` | A transfer that was done and lost its answer is kept as pending and made again (`gainer.py:1510`). |
| `SizingBook` | `BookFitsBudget` | `check_portfolio` counts what is held with the risk of the current cycle, so positions sized in a cycle with fewer coins add up past the budget (`risk.py:169`). |
| `SizingTrail` | `TrailIsNoWorse` | A trailing stop is said never to be worse than the fixed one it replaces; a wide ATR makes it so (`engine.py:3219`). |
| `SizingCheapest` | `CheapestSurvives` | The cheapest legal order "has to survive being handed straight back" (`tests/test_risk.py:145`); where it comes from the minimum quantity, a float a hair below it is floored to one step less and not raised again (`filters.py:62`). |

More properties of the same kind stand at the end of the modules, with no
configuration; naming one as a PROPERTY or INVARIANT of the module's run shows
it violated. `Sweep`: `SetAsideNotTraded`, what is "set aside -- the bot will
not trade with it" still counts as equity. `Desk`: `BookedOnce`, a close whose
booking reaches the target is booked again by the flattening it sets off;
`StandsDown`, after a target was reached and `stop_when_reached` flattened the
book, a booked loss lifts the stand-down; `HaltStopsEntries`, a halt raised by
one entry of a cycle does not stop the next. `Feed`, with two faults:
`TrackedIsFollowed` and `FollowedIsStreamed`, a symbol adopted by the
reconcile, or subscribed while the socket is down, gets no ticks;
`TradeCountsOnce` and `BookedOnce`, a fill or a close that queue and reconcile
both see is counted twice; `BookIsTrue`, the quantity an order has filled is
taken for the position, part of which a leg may have sold; `FilledTradesCool`,
a trade that filled and ended unseen starts no cooldown. `Controls`: `QueuedIsExecuted`, an exception
in a command drops the rest of the batch popped with it; `RefusalIsTrue`,
"Already halted." is answered from a snapshot a `/resume` has overtaken.

Met on the way, without a property: `deploy/oracle-notes.md:52` offers
`systemctl restart` "after a halt", while startup refuses until the halt is
cleared by hand, and each refusal is a start that counts; a setting written to
`config.yaml` has no effect while `config.local.yaml` sets the same key;
`/close` shows the first position and closes all of them; the squeeze's last
round is kept in memory only, so a restart inside the window acts again.

## Proofs

Checked with `tlapm <module>.tla`. They hold for every value of the constants
that the named assumptions of the modules allow: any finite set of symbols and
coins, any limit, setting, clock and number of faults. Where a theorem has a
hypothesis of its own, the text says what it leaves out.

### Protection

`TypeInvariant`, `TypeCorrect`. `TypeOK` is not inductive: `amt` may only take
a fill because position and resting entries *together* stay within the bound
(`Within`), and `place()` may only add a lot because it finds no entry with a
known id in place (`EntryKnown`). `TypeInv` is the three together.

`PlanInvariant`, `FlatWhenGivenUp`. That the reconcile only gives up a flat
trade is a fact about two reads and the fills between them. `PlanInv` says what
a filled trade to plan still has resting (`Whole`: nothing), who can be in the
book (`Booked`), and what a handler between its reads may rely on (`Reads`: an
entry found gone by a handler that saw no position has filled meanwhile or was
never there).

`CoverInvariant`, `CoversPosition`. A stop is compared not with the position of
the moment but with `Need`, the position and what of the entry may still fill
into it; every quantity recorded, read or sent is `Enough` for it (`Sized`,
`SeenEnough`), and no step but `place()` makes the need grow (`NeedEases`).

`LookInvariant`, `NeverStrips`, `RecoverySettlesAll`. `LookInv` says what a
handler that is about to act may still believe: what it read of the position is
so unless the exchange has moved (`Looked`), where it cancels everything it has
read flat (`CancelsFlat`), where it cancels one stop another rests
(`Repairing`), and the close a recovery falls back on is the one that halts
(`Recovering`). Both theorems suppose `CloseStep = 1`: with the step of another
symbol a close leaves a remainder, which is the hazard at `engine.py:1250`.
`NeverStrips` also supposes `KillAction = "protect"`; the other kill is
`kill_strips`. No hypothesis can be dropped: TLC finds both properties violated
with `CloseStep = 2`, and the first with `KillAction = "flatten"`.

### Lifecycle

`LifeInvariant`, `LifecycleTypes`, `RestartsStayInBudget`, `ReserveOutlasts`,
for every `Interval`, `Burst`, `Budget`, `RestartSec` and `Horizon`. The ledger
and systemd count different events at different moments, and the ledger forgets
a request before systemd forgets the start it led to, so the budget is no
simple count. `Stamps` is the order of things: a request comes after the start
of the process that received it, its own start after it, the next request after
that. `Charged`: a request still recent is still in the ledger, unless a write
was lost. So the requests behind the starts after any one counted start are
all younger than that start, map one to one into the spent restarts of the
ledger (`BudgetHolds`), and those are within the budget (`Fits`). Taking the
oldest counted start (a least element, by well-foundedness) gives the second
theorem: of the `Burst` attempts that fail the unit at least `Burst - Budget`
were not asked for.

### Gainer

`GainerInvariant`, `GainerTypes`, `MinersAreLeftAlone`, `NoEarlyRebuy`,
`OpensSettle`, `RoundsAreBounded`. `GainerInv` says how three records of one
position, two of them on disk and one in memory, fit together. `Tagged`: in a
live process whatever a strategy tracks and owns is in the book under a
strategy, and a dead process has no book. `Work`: the list the thread works off
agrees with the tracks. `Cooled`: what was sold is still tracked or on the
cooldown list, and a leader about to be bought is past it. `Settling`: what an
`open()` between its calls has already bought, stopped or booked. `RoundInv`
adds what the round under way may still buy.

### Desk

`DeskInvariant`, `DeskTypes`, `EntriesNeverStack`, `SlotsAreKept`. `Known`:
whatever the exchange has, the bot holds or has lost sight of; it survives the
reconcile because what is about to be let go of is flat (`Gone`). `Room`: the
slots left in a cycle and the positions held are never more than an allocation
over all `HardCap` coins, which needs that `allocate()` is monotonic in the
number of coins (`AllocateGrows`): a larger count that is feasible at all is
also fundable.

`DayInvariant`, `LossesStopTheDay`, `NoHaltWithoutLoss`. The limit compares two
numbers that are both moved by hand, the cap by a restart and the opening by a
re-base. `Fair`: the opening on file is never more than the day opened with,
and what it books is what was booked. So a lost day cannot look better than it
is. `Opens` is why the opening does not vanish: with a tracking cap it can
reach zero, where the floor under the account (`risk.min_equity_usdt`) has to
stop the cycle; hence `TracksPnl => Floor > 0`. (`LossStopsTheDay` itself is
about days that opened with something, as a percentage of nothing is skipped by
`preflight()`.) `Basis` is the other half, for a cap that is fixed: opening and
equity are capped alike, so one exceeds the other only when the wallet has
fallen. For a cap that tracks it is false as soon as the cap is changed
(`DeskTracking`), so `NoHaltWithoutLoss` supposes that a tracking cap is never
another (`TracksPnl => \E c : Caps = {c}`); a cap that does not track, the
default, may be set and lifted at will. Of a tracking cap `Steady` says that its
anchor stands as long as the day has an opening, so that opening and equity are
one function of the wallet, then and now; the function grows with the wallet
(`EffectiveGrows`), and a smaller value is a smaller wallet. The anchor is taken
again only while it is zero, which a day with an opening excludes
(`ReadingSteady`).

### Levels

`LevelInvariant`, `BookedStopHolds`, `LevelsRatchet`. The order about to be
cancelled is the one the book names, the book's stop is no tighter than the one
just placed, and that one still rests: so the tightest stop is never the one
taken away (`Wiser`, `Placed`, `Guarded`). From there every step of `Levels`
maps to a step of `Ratchet` or to a stutter.

`BreakEvenIsHeld`, `LevelTyping`. A trade that has been 1R ahead either has its
stop at break even or is on the way there, and the rules that move the stop
afterwards only tighten it. It supposes `Cost < Risk`: were the fees more than
1R, the market would already be past the level when the rule asks for it and
the exchange would refuse the stop. The smallest move is positive, as
`MIN_STOP_MOVE_PCT` is (`engine.py:1828`), and for the types all distances are
short of the lowest price, so no level is at or below zero.

### Controls

`HaltIsHeld`. What is on disk and what the engine holds may differ after a
failed save; the promise is the weaker of the two, and a process starts only
from a disk without a halt.

`ControlsInvariant`, `ControlsTypes`, `PressesRunOnce`, `UpdatesAreKept`. One
update may wait in five places: with Telegram, in the batch of the thread, as a
pending confirmation, in a queue, in the hands of the engine. The invariant
says that a nonce is in at most one of those that can still run it, that it is
behind the offset there, and that everything behind the offset was handled or
is the batch under way. A crash then loses places but never doubles one.

`ConfirmationHolds`. With the two invariants every step maps to a step of
`Confirmation` or to a stutter, one lemma for each part of the bot: a poll moves
the offset on and so spends what it acknowledges (`OffsetSpends`), a crash
spends its whole life, popping moves a line from the queue into the hand and
maps to a stutter, and a press answers what is pending only. A nonce that
is still to be asked is behind no offset, which is what `Ask` has to show. The
last of the theorems, `QuestionsHaveOneFate`, needs nothing of `Controls` any
more: it is an invariant of `Confirmation`, brought down through the mapping.

### Feed

`FillsAreCountedOnce`, at the end of `LifecycleProofs`, over variables of its
own (`F == INSTANCE Feed`). The fill of an entry may be reported by an event
that waited long, by the reconcile, by the recheck of an order over REST, and
the watchdog adopts positions nobody reported. No event has to be remembered
for the proof: `Uncounted` says that what is tracked and has not been seen to
fill has not been counted, and each way of counting marks the fill in the same
step. It stays true because a number is given to one entry only (`Unnumbered`)
and because what the watchdog adopts counts as filled already. A dry run, where
a tick decides what fills, is outside the property.

### Sweep

`SweepInvariant`, `SweepTypes`, `SharesAccounted`, `BankedHolds`,
`PrincipalHolds`, `PauseIsHeld`. The memory of a running process knows the
share under way that the file does not (`MemoryAccounts`); what is about to be
moved is covered by what is waiting or was deposited (`UnderWay`).

### Sizing

`SizesInvariant`, `AllocatesTheMost`, `LeverageIsKept`, `CycleIsBudgeted`.
Two of the three are about sums over the orders of the book, so `SizingProofs`
begins with the sum over a finite set: that it does not depend on the order of
its elements (`SumAdds`), what one more or one less of an element does to it
(`Changed`), and that a bound on the elements bounds the sum (`Bounded`). These
are inductions over subsets, which the provers cannot do; they are put as a
smallest subset for which the statement fails (`SmallestSet`, by
well-foundedness of the natural numbers).

`Trims` is the loop invariant of `allocate()`: no larger count is viable. It
carries over to the loop on the leverage because fewer positions are worth no
less each (`FewerAreLarger`), so a count that cleared the minimum still does.
`QuantityFits`: a quantity is worth no more than was asked for even where it
was rounded up, because what is asked for always pays for the cheapest legal
order (`AskedCovers`), and the rounding only goes up to that.
`BookInv` remembers of each order of this cycle that it was within the risk of
one position, and that the book was small enough for that risk when the last
one was sent; `Bounded` puts the two together.

### Left to TLC

Liveness (`NakedIsResolved`, `SlotIsFreed`, `OverdueIsSold`, `TrackIsDropped`,
`FinishedIsReleased`, `HeldIsTracked`), which is beyond the prover. Every other
property of a passing run is stated by a theorem.

## Not modelled

- Strategies, regime, context and the indicators: pure functions of candles.
  The modules take their answers as choices.
- Notifier, journal, signals log and reports: nothing in them acts on a trade.
- Backtester, `tools/`, and the subcommands of `run.py` other than `trade`.
- Of the exchange client: the clock resync, the signing, the rate limit, and
  the answers that leave an order's fate open (-1007, 503), which the code
  takes for refusals.
- Of the engine: partial take-profits booked as such, the report card, the
  reads of the brackets.
- Of risk: `check_add_to_position()`, `stop_room`, the wording of the schedule.
- Of the dashboard: its pages. The commands it posts are in `Controls`.

## Plan left

1. The composition of `Gainer` and `Desk`: one book, two kinds of slots, the
   halts of both.
2. The answers of the exchange that leave an order's fate open, in
   `Protection`.
