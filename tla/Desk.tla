--------------------------------- MODULE Desk ---------------------------------
(***************************************************************************)
(* The trading day of the engine in portfolio mode on live orders: the     *)
(* risk gate (bot/risk.py), the daily file (bot/state.py) and its target   *)
(* (bot/targets.py), the split of the risk budget (bot/portfolio.py), and  *)
(* the handlers of bot/engine.py that use them -- the entries of one bar,  *)
(* the periodic reconcile, the flattening of a reached target -- with the  *)
(* orders they leave resting and a process that dies between any two of    *)
(* their calls.  Stops and take-profits belong to module Protection: here  *)
(* an entry rests, fills and ends with a profit or a loss.  Money is in    *)
(* whole units, risk in percent.                                           *)
(***************************************************************************)
EXTENDS Integers, FiniteSetsExt

CONSTANTS
  Symbols,
  Stake,       \* the wallet at the start
  Move,        \* what a trade wins or loses
  Caps,        \* the values of risk.equity_cap_usdt a restart may find
  TracksPnl,   \* risk.equity_cap_tracks_pnl
  Floor,       \* risk.min_equity_usdt
  LossLimit,   \* risk.daily_loss_limit_pct, 0 for none
  TradeCap,    \* risk.max_trades_per_day, 0 for none
  Leverage,    \* risk.max_leverage
  Target,      \* today's target of the schedule
  StopReached, \* targets.stop_when_reached
  BudgetPct,   \* portfolio.portfolio_risk_pct
  SinglePct,   \* portfolio.single_position_cap_pct
  StopPct,     \* portfolio.stop_distance
  HardCap,     \* portfolio.hard_cap
  MinNotional, \* the cheapest legal order
  Cooldown,    \* context.entry.coin_cooldown_minutes
  Expiry,      \* risk.entry_expiry_minutes
  DayLength,
  Horizon,     \* bound on the clock
  MaxFaults    \* bound on refused and lost calls and on crashes

ASSUME MoneyAssumption ==
  /\ Stake \in Nat /\ Move \in Nat /\ Caps \subseteq Nat /\ Floor \in Nat
  /\ Target \in Nat /\ MinNotional \in Nat /\ Leverage \in Nat
ASSUME PercentAssumption ==
  /\ LossLimit \in Nat /\ BudgetPct \in Nat /\ SinglePct \in Nat
  /\ StopPct \in Nat \ {0}
ASSUME LimitsAssumption ==
  /\ TradeCap \in Nat /\ HardCap \in Nat \ {0} /\ Cooldown \in Nat
  /\ Expiry \in Nat
  /\ DayLength \in Nat \ {0} /\ Horizon \in Nat /\ MaxFaults \in Nat
  /\ TracksPnl \in BOOLEAN /\ StopReached \in BOOLEAN

ASSUME SymbolsAssumption == IsFiniteSet(Symbols)

VARIABLES
  ex,      \* the exchange: each symbol is flat, has an entry resting, is open
  due,     \* what the exchange reports as realised on a symbol, once closed
  wallet, now,
  st,      \* the state file
  exits,   \* the state file's last_exit_ms
  equity,  \* engine.equity, as last read
  cap,     \* risk.equity_cap_usdt of this process
  book,    \* engine.book: "none", "resting" or "filled"
  clock,   \* _entry_placed_at
  run,     \* what the thread is at
  faults,
  past     \* history: the wallet as last read, what the day opened with and
           \* what was booked on it, and what the bot has lost sight of

exchange == <<ex, due, wallet>>
file     == <<st, exits>>
tracked  == <<book, clock>>
vars     == <<ex, due, wallet, now, st, exits, equity, cap, book, clock,
              run, faults, past>>

Never == -1
Times == 0 .. Horizon
Today == now \div DayLength
\* (Slip: an entry that still rests takes no slot.)
HeldSlip == {s \in Symbols : book[s] = "filled"}
Held == {s \in Symbols : book[s] # "none"}

At(p) == run.at = p
NoSym == "none"
Idle  == [at |-> "idle", todo |-> {}, flat |-> {}, letgo |-> NoSym,
          free |-> 0, risk |-> 0]
Ok    == UNCHANGED faults
Fault == faults < MaxFaults /\ faults' = faults + 1

Init ==
  /\ ex = [s \in Symbols |-> "flat"] /\ due = [s \in Symbols |-> 0]
  /\ wallet = Stake /\ now = 0 /\ cap = 0 /\ equity = 0
  /\ st = [day |-> 0, start |-> 0, trades |-> 0, realized |-> 0,
           halted |-> FALSE, hit |-> FALSE, anchor |-> 0, anchorCap |-> 0]
  /\ exits = [s \in Symbols |-> Never]
  /\ book = [s \in Symbols |-> "none"]
  /\ clock = Never /\ run = [Idle EXCEPT !.at = "down"] /\ faults = 0
  /\ past = [read |-> 0, wallet |-> 0, equity |-> 0, booked |-> 0, lost |-> {}]

-------------------------------------------------------------------------------
(* The exchange and the clock. *)

Fills(s) ==
  /\ ex[s] = "resting" /\ ex' = [ex EXCEPT ![s] = "open"]
  /\ UNCHANGED <<due, wallet, now, file, equity, cap, tracked, run, faults,
                 past>>

\* A stop or take-profit fires, or the user closes the position.
Ends(s) ==
  /\ ex[s] = "open" /\ ex' = [ex EXCEPT ![s] = "flat"]
  /\ \E d \in {Move, -Move} :
       wallet' = wallet + d /\ due' = [due EXCEPT ![s] = d]
  /\ UNCHANGED <<now, file, equity, cap, tracked, run, faults, past>>

\* The calls of one handler are seconds apart, the limits hours.
Elapse ==
  /\ run \in {Idle, [Idle EXCEPT !.at = "down"]}
  /\ now < Horizon /\ now' = now + 1
  /\ UNCHANGED <<exchange, file, equity, cap, tracked, run, faults, past>>

-------------------------------------------------------------------------------
(* Equity and the day. *)

\* effective_equity(): the account behaves as if it held the cap, or as an
\* account funded with the cap when it was first seen.
Anchored(s, actual, c) ==
  IF TracksPnl /\ c > 0 /\ (s.anchor = 0 \/ s.anchorCap # c)
  THEN [s EXCEPT !.anchor = actual, !.anchorCap = c] ELSE s
Effective(s, actual, c) ==
  IF c = 0 THEN actual
  ELSE IF TracksPnl THEN Max({0, Min({actual, c + actual - s.anchor})})
  ELSE Min({actual, c})

\* (Slip: the opening equity keeps the basis it was read on.)
RebasedSlip(s, eq, c) == s

\* rebase_day_start_equity(): the opening equity on the basis of the cap.
Rebased(s, eq, c) ==
  IF c = 0 \/ s.start = 0 THEN s
  ELSE IF TracksPnl THEN [s EXCEPT !.start = IF @ > eq + c THEN eq ELSE @]
  ELSE [s EXCEPT !.start = Min({@, c})]

\* roll_day_if_needed(): halts do not clear.
NewDay(s) == s.day # Today \/ s.start = 0
Rolled(s, eq) ==
  IF NewDay(s)
  THEN [s EXCEPT !.day = Today, !.start = eq, !.trades = 0, !.realized = 0,
                 !.hit = FALSE]
  ELSE s

\* What the history keeps of the roll.
Opened(s, eq) ==
  IF NewDay(s)
  THEN [past EXCEPT !.read = wallet, !.wallet = wallet, !.equity = eq,
                    !.booked = 0]
  ELSE [past EXCEPT !.read = wallet]

\* check_target_reached(): announced once a day; what is held is closed.
Reached(s) == s.realized >= Target
CheckTarget(s, held) ==
  [st   |-> [s EXCEPT !.hit = @ \/ Reached(s)],
   flat |-> IF Reached(s) /\ ~s.hit /\ StopReached THEN held ELSE {}]

-------------------------------------------------------------------------------
(* Closing: booking and releasing. *)

\* book_close(), when the fills can be read.
Booked(s, d)    == [s EXCEPT !.realized = @ + d]
Accounted(p, d) == [p EXCEPT !.booked = @ + d]

\* release(): a trade that happened starts the cooldown of its coin.
Release(s, p) ==
  LET ended == IF book[s] = "filled" THEN now ELSE Never
  IN  /\ book' = [book EXCEPT ![s] = "none"]
      /\ exits' = [exits EXCEPT ![s] = Max({@, ended})]
      /\ past' = p
      /\ due' = [due EXCEPT ![s] = 0]

BookAndRelease(s, d, p) ==
  \/ st' = Booked(st, d) /\ Release(s, Accounted(p, d))
  \/ d # 0 /\ st' = st /\ Release(s, p)

\* (Slip: a close that was refused lets go of the trade all the same.)
ClosePositionSlip(s) ==
  Fault /\ UNCHANGED <<ex, wallet, st>> /\ Release(s, past)

\* close_position(): refused, with everything left as it was; sold; or flat,
\* with an entry that still rests cancelled, or not.
ClosePosition(s) ==
  \/ Fault /\ UNCHANGED <<exchange, st, exits, book, past>>
  \/ /\ ex[s] = "open" /\ Ok /\ ex' = [ex EXCEPT ![s] = "flat"]
     /\ \E d \in {Move, -Move} : /\ wallet' = wallet + d
                                 /\ BookAndRelease(s, d, past)
  \/ /\ ex[s] # "open" /\ UNCHANGED wallet
     /\ \/ /\ Ok /\ ex' = [ex EXCEPT ![s] = "flat"]
           /\ BookAndRelease(s, due[s], past)
        \/ /\ ex[s] = "resting" /\ Fault /\ UNCHANGED ex
           /\ BookAndRelease(s, due[s], [past EXCEPT !.lost = @ \union {s}])

\* close_all(): one position after the other, whatever is refused.
CloseAll ==
  /\ \E s \in run.flat :
       ClosePosition(s) /\ run' = [run EXCEPT !.flat = @ \ {s}]
  /\ UNCHANGED <<now, equity, cap, clock>>

Ready(p) == At(p) /\ run.flat = {} /\ run.letgo = NoSym

\* The supervisor or a command closes one position.
Closes(s) ==
  /\ Ready("idle") /\ s \in Held /\ ClosePosition(s)
  /\ UNCHANGED <<now, equity, cap, clock, run>>

-------------------------------------------------------------------------------
(* periodic(): equity, the day, then every position of the book. *)

Periodic ==
  /\ Ready("idle")
  /\ LET s  == Anchored(st, wallet, cap)
         eq == Effective(s, wallet, cap)
         r  == Rebased(s, eq, cap)
     IN  /\ equity' = eq /\ st' = Rolled(r, eq) /\ past' = Opened(r, eq)
  /\ run' = [Idle EXCEPT !.at = "reconcile",
                         !.todo = Held \union {s \in Symbols : ex[s] = "open"}]
  /\ UNCHANGED <<exchange, now, exits, cap, tracked, faults>>

Reconciled(s) == run' = [run EXCEPT !.todo = @ \ {s}]

\* An entry that rests is cancelled when the one clock says it is too old.
Expired == clock # Never /\ now - clock >= Expiry
ExpireEntry(s) ==
  /\ book[s] # "none" /\ ex[s] = "resting" /\ Reconciled(s)
  /\ \/ /\ Expired /\ Ok /\ clock' = Never /\ ex' = [ex EXCEPT ![s] = "flat"]
        /\ book' = [book EXCEPT ![s] = "none"]
     \/ Expired /\ Fault /\ UNCHANGED <<ex, tracked>>
     \/ ~Expired /\ Ok /\ UNCHANGED <<ex, tracked>>
  /\ UNCHANGED <<due, wallet, file, past>>

\* A size on the exchange confirms the fill; one the book lacks is adopted.
SeeOpen(s) ==
  /\ ex[s] = "open" /\ Ok /\ Reconciled(s)
  /\ book' = [book EXCEPT ![s] = "filled"]
  /\ clock' = IF clock = Never THEN now ELSE clock
  /\ past' = [past EXCEPT !.lost = @ \ {s}]
  /\ UNCHANGED <<exchange, file>>

\* Flat: booked, which may reach the target and close the whole book, the
\* position that was just booked included; then let go.
SeeFlat(s) ==
  /\ s \in Held /\ ex[s] = "flat" /\ Ok
  /\ \/ LET c == CheckTarget(Booked(st, due[s]), Held)
        IN  /\ st' = c.st /\ past' = Accounted(past, due[s])
            /\ run' = [run EXCEPT !.todo = @ \ {s}, !.flat = c.flat,
                                  !.letgo = s]
     \/ /\ due[s] # 0 /\ run' = [run EXCEPT !.todo = @ \ {s}, !.letgo = s]
        /\ UNCHANGED <<st, past>>
  /\ UNCHANGED <<exchange, exits, tracked>>

LetGo ==
  /\ run.letgo # NoSym /\ run.flat = {}
  /\ run' = [run EXCEPT !.letgo = NoSym] /\ clock' = Never
  /\ Release(run.letgo, past)
  /\ UNCHANGED <<ex, wallet, now, st, equity, cap, faults>>

Reconcile ==
  /\ Ready("reconcile")
  /\ \/ /\ run.todo = {} /\ run' = Idle
        /\ UNCHANGED <<exchange, file, tracked, faults, past>>
     \/ \E s \in run.todo :
          \/ ExpireEntry(s) \/ SeeOpen(s) \/ SeeFlat(s)
          \/ /\ s \notin Held /\ ex[s] # "open" /\ Ok /\ Reconciled(s)
             /\ UNCHANGED <<exchange, file, tracked, past>>
  /\ UNCHANGED <<now, equity, cap>>

-------------------------------------------------------------------------------
(* decide(): the gate, the target, the budget, then the entries of one bar. *)

\* (Slip: only the equity is looked at, not what was booked.)
LosingSlip ==
  /\ LossLimit > 0 /\ st.start > 0
  /\ 100 * (st.start - equity) >= LossLimit * st.start
Losing ==
  /\ LossLimit > 0 /\ st.start > 0
  /\ 100 * Max({st.start - equity, -st.realized}) >= LossLimit * st.start
TooPoor == equity < Floor
Spent   == TradeCap > 0 /\ st.trades >= TradeCap

GateHalts ==
  /\ Ready("idle") /\ ~st.halted /\ (TooPoor \/ Losing)
  /\ st' = [st EXCEPT !.halted = TRUE]
  /\ UNCHANGED <<exchange, now, exits, equity, cap, tracked, run, faults,
                 past>>

Preflight == Ready("idle") /\ ~st.halted /\ ~TooPoor /\ ~Losing /\ ~Spent

\* allocate(): each of n positions gets its part of the risk budget, as many as
\* clear the minimum order and fit the leverage.
RiskOf(n)     == Min({SinglePct, BudgetPct \div n})
NotionalOf(n) == (equity * RiskOf(n)) \div StopPct
Allocate(eligible) ==
  LET n == Max({k \in 1 .. Min({eligible, HardCap}) :
                  \/ k = 1
                  \/ /\ NotionalOf(k) >= MinNotional
                     /\ NotionalOf(k) * k <= equity * Leverage})
      fits == /\ MinNotional <= NotionalOf(n)
              /\ NotionalOf(n) <= equity * Leverage
  IN  [slots |-> IF fits THEN n ELSE 0, risk |-> RiskOf(n)]

Decide ==
  /\ Preflight
  /\ LET c == CheckTarget(st, Held) IN
     /\ st' = c.st
     /\ IF Reached(st) /\ StopReached
        THEN run' = [Idle EXCEPT !.flat = c.flat]
        ELSE \E ranked \in (SUBSET Symbols) \ {{}} :
               LET a    == Allocate(Cardinality(ranked))
                   free == a.slots - Cardinality(Held)
               IN  run' = IF free <= 0 THEN Idle
                          ELSE [Idle EXCEPT !.at = "cycle", !.free = free,
                                  !.todo = ranked \ Held, !.risk = a.risk]
  /\ UNCHANGED <<exchange, now, exits, equity, cap, tracked, faults, past>>

\* check_portfolio(): the book, measured with the risk of this cycle, and one
\* more.  What the notional held refuses is passed over below.
Fits(s) ==
  /\ s \notin Held
  /\ (Cardinality(Held) + 1) * run.risk <= BudgetPct

Cooling(s) == /\ Cooldown > 0 /\ exits[s] # Never
              /\ now - exits[s] < Cooldown

Tried(s) == run' = [run EXCEPT !.todo = @ \ {s}, !.free = @ - 1]

\* place() sends nothing: the coin cools down, the trend is against it, its
\* levels are crossed or its margin could not be set.  The slot is spent.
Declines(s) ==
  /\ Fits(s) /\ Ok /\ Tried(s)
  /\ UNCHANGED <<ex, due, wallet, file, tracked, past>>

\* No signal, or refused by the gates.
PassesOver(s) ==
  /\ Ok /\ run' = [run EXCEPT !.todo = @ \ {s}]
  /\ UNCHANGED <<ex, due, wallet, file, tracked, past>>

Sends(s) == Fits(s) /\ ~Cooling(s)
Rests(s) == [ex EXCEPT ![s] = IF @ = "open" THEN "open" ELSE "resting"]
Counted  == [st EXCEPT !.trades = @ + 1]
Loses(s) == past' = [past EXCEPT !.lost = @ \union {s}]

Enters(s, as) == book' = [book EXCEPT ![s] = as] /\ clock' = now

\* The entry rests, with its protection.
Places(s) ==
  /\ Sends(s) /\ Ok /\ Tried(s) /\ ex' = Rests(s) /\ Enters(s, "resting")
  /\ st' = Counted /\ UNCHANGED <<due, wallet, exits, past>>

\* The order is refused, or its reply lost: the exception ends the cycle.
Refused(s) ==
  /\ Sends(s) /\ Fault /\ run' = Idle
  /\ \/ UNCHANGED <<ex, past>>
     \/ ex' = Rests(s) /\ Loses(s)
  /\ UNCHANGED <<due, wallet, file, tracked>>

\* recover_failed_protection(): a leg was refused.
Recovers(s) ==
  /\ Sends(s) /\ Fault /\ Tried(s) /\ UNCHANGED <<due, wallet, exits>>
  /\ \/ /\ UNCHANGED <<ex, tracked, past>>              \* cancelled in time
        /\ st' \in {st, [st EXCEPT !.halted = TRUE]}
     \/ /\ ex' = [ex EXCEPT ![s] = "open"] /\ Enters(s, "filled")
        /\ st' = Counted /\ UNCHANGED past              \* filled, protected
     \/ /\ ex' = [ex EXCEPT ![s] = "open"] /\ Loses(s)  \* not to be read back
        /\ st' = [st EXCEPT !.halted = TRUE] /\ UNCHANGED tracked

Cycle ==
  /\ Ready("cycle")
  /\ \/ /\ run.todo = {} \/ run.free = 0
        /\ run' = Idle
        /\ UNCHANGED <<exchange, file, tracked, faults, past>>
     \/ /\ run.free > 0
        /\ \E s \in run.todo :
             \/ PassesOver(s) \/ Declines(s) \/ Places(s) \/ Refused(s)
             \/ Recovers(s)
  /\ UNCHANGED <<now, equity, cap>>

-------------------------------------------------------------------------------
(* The process. *)

\* (Slip: what the thread was at is not reset.)
ForgetsSlip(S) ==
  /\ run' = [run EXCEPT !.at = "down"] /\ clock' = Never
  /\ book' = [s \in Symbols |-> "none"]
  /\ past' = [past EXCEPT !.lost = @ \union S]
  /\ equity' = 0 /\ cap' = 0 /\ UNCHANGED <<due, wallet, now, file>>
Forgets(S) ==
  /\ run' = [Idle EXCEPT !.at = "down"] /\ clock' = Never
  /\ book' = [s \in Symbols |-> "none"]
  /\ past' = [past EXCEPT !.lost = @ \union S]
  /\ equity' = 0 /\ cap' = 0 /\ UNCHANGED <<due, wallet, now, file>>

Crash ==
  /\ ~At("down") /\ Fault /\ Forgets({s \in Symbols : ex[s] # "flat"})
  /\ UNCHANGED ex

\* shutdown(): the entries of the book are pulled.
Shutdown ==
  /\ Ready("idle") /\ Ok
  /\ ex' = [s \in Symbols |-> IF s \in Held /\ ex[s] = "resting" THEN "flat"
                              ELSE ex[s]]
  /\ Forgets({s \in Symbols : ex'[s] # "flat"})

\* startup(): equity and the day, then what is open is adopted; a bot that was
\* halted starts no further.  The config may carry another cap.
Restart ==
  /\ At("down") /\ UNCHANGED <<exchange, now, exits, clock>>
  /\ \E c \in Caps :
       LET s  == Anchored(st, wallet, c)
           eq == Effective(s, wallet, c)
           p  == Opened(s, eq)
       IN  /\ cap' = c /\ equity' = eq /\ st' = Rebased(Rolled(s, eq), eq, c)
           /\ \E seen \in {{s1 \in Symbols : ex[s1] = "open"}, {}} :
                /\ IF st.halted THEN UNCHANGED <<run, tracked>> /\ past' = p
                   ELSE /\ run' = Idle
                        /\ book' = [s1 \in Symbols |-> IF s1 \in seen
                                       THEN "filled" ELSE "none"]
                        /\ past' = [p EXCEPT !.lost = @ \ seen]
                /\ IF \E s1 \in Symbols \ seen : ex[s1] = "open"
                   THEN Fault ELSE Ok

Resume ==
  /\ st.halted /\ (Ready("idle") \/ At("down"))
  /\ st' = [st EXCEPT !.halted = FALSE]
  /\ UNCHANGED <<exchange, now, exits, equity, cap, tracked, run, faults,
                 past>>

-------------------------------------------------------------------------------
Next ==
  \/ Elapse \/ Periodic \/ Reconcile \/ LetGo \/ CloseAll
  \/ GateHalts \/ Decide \/ Cycle
  \/ Crash \/ Shutdown \/ Restart \/ Resume
  \/ \E s \in Symbols : Fills(s) \/ Ends(s) \/ Closes(s)

Spec == Init /\ [][Next]_vars

-------------------------------------------------------------------------------
(* Properties. *)

TypeOK ==
  /\ ex \in [Symbols -> {"flat", "resting", "open"}]
  /\ due \in [Symbols -> {0, Move, -Move}] /\ wallet \in Int /\ now \in Times
  /\ st \in [day : Nat, start : Int, trades : Nat, realized : Int,
            halted : BOOLEAN, hit : BOOLEAN, anchor : Int, anchorCap : Nat]
  /\ exits \in [Symbols -> Times \union {Never}]
  /\ equity \in Int /\ cap \in Caps \union {0}
  /\ book \in [Symbols -> {"none", "resting", "filled"}]
  /\ clock \in Times \union {Never}
  /\ run \in [at : {"idle", "reconcile", "cycle", "down"},
             todo : SUBSET Symbols, flat : SUBSET Symbols,
             letgo : Symbols \union {NoSym}, free : 0 .. HardCap, risk : Nat]
  /\ At("idle") \/ At("down") => run.todo = {}
  /\ faults \in 0 .. MaxFaults
  /\ past \in [read : Int, wallet : Int, equity : Int, booked : Int,
              lost : SUBSET Symbols]

\* An order for an entry goes out.
SendsFor(s) == st'.trades = st.trades + 1 /\ At("cycle") /\ s \in run.todo
                 /\ s \notin run'.todo

\* The daily loss limit halts the bot only on a day that lost something: never
\* for a cap that was set, lowered or lifted between two reads of the equity.
NoPhantomHalt ==
  [][ ~st.halted /\ st'.halted /\ At("idle") /\ ~TooPoor
        => past.booked < 0 \/ past.read < past.wallet ]_vars

\* A cycle of entries starts only on a day whose booked losses are inside the
\* limit, whatever was restarted, capped or re-based since it began.  (Nothing
\* is a percentage of a day that opened with nothing: preflight() skips it.)
LossStopsTheDay ==
  [][ run'.at = "cycle" /\ LossLimit > 0 /\ past.equity > 0
        => -100 * past.booked < LossLimit * past.equity ]_vars

\* No entry is stacked on what the symbol has already, unless the bot has lost
\* sight of that in a crash, a lost reply or a refused cancel.
NeverStacks ==
  [][ \A s \in Symbols :
        SendsFor(s) /\ ex[s] # "flat" => s \in past.lost ]_vars

\* An entry is sent only when the trades the exchange has, but for those the
\* bot has lost sight of, are fewer than the positions this equity can carry.
SlotsHold ==
  [][ \A s \in Symbols :
        LET seen == {x \in Symbols : ex[x] # "flat"} \ past.lost
        IN  SendsFor(s) => Cardinality(seen) < Allocate(HardCap).slots ]_vars

-------------------------------------------------------------------------------
(* What the repository says of the program and the code does not do.       *)

\* A trade that was booked when it was seen flat is not booked again by the
\* flattening its booking sets off.
BookedOnce ==
  [][ run.letgo # NoSym /\ run.letgo \in run.flat \ run'.flat
        => st'.realized = st.realized ]_vars

\* "Closing every open position and standing down for the day": no entry is
\* sent on a day whose target was reached.
StandsDown ==
  [][ run'.at = "cycle" /\ StopReached => ~st'.hit ]_vars

\* "No new trades" while the bot is halted.
HaltStopsEntries ==
  [][ \A s \in Symbols : SendsFor(s) => ~st.halted ]_vars

===============================================================================
