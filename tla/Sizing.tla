-------------------------------- MODULE Sizing --------------------------------
(***************************************************************************)
(* How large a trade is, from the account to the order: the risk budget is *)
(* split over the coins that qualified (bot/portfolio.py), a position is   *)
(* sized from its stop (bot/risk.py), the book is asked whether it has     *)
(* room, and the order is rounded to what the exchange takes               *)
(* (bot/filters.py, place() of bot/engine.py) -- cycle after cycle, while  *)
(* the account grows and shrinks.  A quantity is a number of LOT_SIZE      *)
(* steps, a price what one step costs, and money is in that unit, a tick.  *)
(***************************************************************************)
EXTENDS Integers, FiniteSetsExt

CONSTANTS
  Equities,      \* what the account may be worth
  Eligible,      \* how many coins may qualify
  Prices,
  Halves,        \* from an entry to its stop, in half ticks
  Least,         \* MIN_QTY
  Atrs,          \* the candidate's volatility, in tenths of a percent
  MinNotional,   \* MIN_NOTIONAL
  BudgetPct,     \* portfolio.portfolio_risk_pct
  SinglePct,     \* portfolio.single_position_cap_pct
  StopPct,       \* portfolio.stop_distance
  HardCap,       \* portfolio.hard_cap
  Leverages,     \* the values of risk.max_leverage
  PositionPct,   \* risk.max_position_pct
  TrailMult,     \* risk.trailing_atr_mult
  MaxCycles      \* bound on the cycles

ASSUME AccountAssumption ==
  /\ Equities \subseteq Nat \ {0} /\ Eligible \subseteq Nat \ {0}
  /\ Prices \subseteq Nat \ {0} /\ Halves \subseteq Nat \ {0}
  /\ Least \subseteq Nat \ {0} /\ Atrs \subseteq Nat /\ MinNotional \in Nat
RiskSettings == {BudgetPct, SinglePct, StopPct} \subseteq Nat \ {0}
PortfolioSettings == HardCap \in Nat \ {0} /\ PositionPct \in 1 .. 100
ASSUME SettingsAssumption ==
  /\ RiskSettings /\ PortfolioSettings
  /\ Leverages \subseteq Nat \ {0}
  /\ TrailMult \in Nat /\ MaxCycles \in Nat

VARIABLES
  acct,   \* the equity of this cycle, the coins that qualified, and the
          \* profile: risk.take_minimum_order and risk.max_leverage
  alloc,  \* allocate(): the count so far, whether it is the upsized minimum
  at,     \* which loop runs
  left,   \* the candidates not yet looked at
  book,   \* the orders sent and not yet over, a bag
  cycle

vars == <<acct, alloc, at, left, book, cycle>>

\* Exact fractions stand for the floats of these computations.
Leq(a, b)    == a.num * b.den <= b.num * a.den
Less(a, b)   == ~Leq(b, a)
Lesser(a, b) == IF Leq(a, b) THEN a ELSE b
Whole(n)     == [num |-> n, den |-> 1]
Times(k, a)  == [a EXCEPT !.num = k * @]
CeilDiv(a, b) == (a + b - 1) \div b

Ceiling == Whole(acct.equity * acct.leverage)
Minimum == Whole(MinNotional)

-------------------------------------------------------------------------------
(* allocate() *)

\* What each of k positions risks, in percent.
RiskOf(k) == Lesser([num |-> SinglePct, den |-> 1],
                    [num |-> BudgetPct, den |-> k])
NotionalOf(k) == [num |-> acct.equity * RiskOf(k).num,
                  den |-> RiskOf(k).den * StopPct]

Accounts == [equity : Equities, eligible : Eligible, takes : BOOLEAN,
             leverage : Leverages]
Fresh(a) == [slots |-> Min({a.eligible, HardCap}), upsized |-> FALSE]
Goto(p) == at' = p

\* Until every position clears the exchange minimum.
TrimMinimum ==
  /\ at = "minimum"
  /\ IF alloc.slots > 1 /\ Less(NotionalOf(alloc.slots), Minimum)
     THEN alloc' = [alloc EXCEPT !.slots = @ - 1] /\ UNCHANGED at
     ELSE IF Leq(Minimum, NotionalOf(alloc.slots))
     THEN Goto("leverage") /\ UNCHANGED alloc
     ELSE IF acct.takes /\ Leq(Minimum, Ceiling)
     THEN alloc' = [slots |-> 1, upsized |-> TRUE] /\ Goto("leverage")
     ELSE alloc' = [alloc EXCEPT !.slots = 0] /\ Goto("over")
  /\ UNCHANGED <<acct, left, book, cycle>>

Each == IF alloc.upsized THEN Minimum ELSE NotionalOf(alloc.slots)
\* (Slip: the value of one position is compared, not of all of them.)
TrimLeverageSlip ==
  /\ at = "leverage" /\ UNCHANGED <<acct, left, book, cycle>>
  /\ IF Less(Ceiling, Each)
     THEN alloc' = [alloc EXCEPT !.slots = 0] /\ Goto("over")
     ELSE Goto("cycle") /\ UNCHANGED alloc
\* Until the total respects the leverage.
TrimLeverage ==
  /\ at = "leverage" /\ UNCHANGED <<acct, left, book, cycle>>
  /\ IF alloc.slots > 1 /\ Less(Ceiling, Times(alloc.slots, Each))
     THEN alloc' = [alloc EXCEPT !.slots = @ - 1] /\ UNCHANGED at
     ELSE IF Less(Ceiling, Each)
     THEN alloc' = [alloc EXCEPT !.slots = 0] /\ Goto("over")
     ELSE Goto("cycle") /\ UNCHANGED alloc

RiskEach == IF alloc.upsized
            THEN [num |-> MinNotional * StopPct, den |-> acct.equity]
            ELSE RiskOf(alloc.slots)

-------------------------------------------------------------------------------
(* One candidate c: its price, the distance of its stop, its minimum and its *)
(* volatility.                                                               *)

Candidates ==
  [price : Prices, half : Halves, least : Least, long : BOOLEAN, atr : Atrs]

\* min_affordable_notional(), in steps.
Cheapest(c) == Max({CeilDiv(MinNotional, c.price), c.least})

\* (Slip: from the representative stop, not the candidate's.)
BySizeSlip(c) ==
  Lesser([num |-> acct.equity * RiskEach.num, den |-> RiskEach.den * StopPct],
         [num |-> acct.equity * acct.leverage * PositionPct, den |-> 100])
\* size_position(): from the stop, then clamped by the leverage.
BySize(c) ==
  Lesser([num |-> 2 * acct.equity * RiskEach.num * c.price,
          den |-> 100 * RiskEach.den * c.half],
         [num |-> acct.equity * acct.leverage * PositionPct, den |-> 100])
TooSmall(c) == Less(BySize(c), Whole(Cheapest(c) * c.price))
\* (Slip: compared with the exchange minimum alone, whatever the step costs.)
AskedSlip(c) ==
  IF Less(BySize(c), Minimum)
  THEN IF acct.takes THEN {Whole(Cheapest(c) * c.price)} ELSE {}
  ELSE {BySize(c)}
Asked(c) ==
  {n \in {IF TooSmall(c) THEN Whole(Cheapest(c) * c.price) ELSE BySize(c)} :
     (TooSmall(c) => acct.takes) /\ Leq(n, Ceiling)}

\* size_for_notional(): down to a step, and one step up if only the rounding
\* put it under the minimum.  A float that should be whole may lie below.
RoundsTo(n, price) ==
  LET step == n.den * price
      q    == n.num \div step
  IN  IF n.num % step = 0 THEN {q - 1, q} ELSE {q}
Stepped(q, n, price) ==
  IF q * price < MinNotional /\ Leq(Minimum, n) THEN q + 1 ELSE q
Quantities(c, n) ==
  {q \in {Stepped(r, n, c.price) : r \in RoundsTo(n, c.price)} :
     q >= c.least /\ q > 0 /\ q * c.price >= MinNotional}

\* round_price() rounds a stop down, which is away from a long's entry.
StopAt(c) == IF c.long THEN CeilDiv(c.half, 2) ELSE c.half \div 2

\* The callback of a trailing stop, in tenths of a percent: never inside the
\* stop, and none beyond what Binance takes.
Callback(c) ==
  LET wanted == Max({TrailMult * c.atr,
                     CeilDiv(1000 * StopAt(c), c.price), 1})
  IN  IF TrailMult = 0 \/ c.atr = 0 \/ wanted > 50 THEN 0 ELSE wanted

-------------------------------------------------------------------------------
(* portfolio_cycle() *)

Value(o)  == o.qty * o.price
\* What the stop costs, in half ticks.
Loss(o)   == 2 * o.qty * o.stop
Total(f(_), orders) ==
  SumFunction([o \in DOMAIN orders |-> orders[o] * f(o)])
Held == SumFunction(book)
Copies(o) == IF o \in DOMAIN book THEN book[o] ELSE 0
\* The book with n copies of o.
Having(o, n) ==
  [x \in (DOMAIN book \ {o}) \union (IF n = 0 THEN {} ELSE {o}) |->
     IF x = o THEN n ELSE book[x]]

\* check_portfolio(): the notional held and the risk, with the risk of this
\* cycle for every position of the book.
Fits(n) ==
  /\ Held < alloc.slots
  /\ Leq([n EXCEPT !.num = @ + Total(Value, book) * n.den], Ceiling)
  /\ (Held + 1) * RiskEach.num <= BudgetPct * RiskEach.den

Order(c, q) ==
  [qty |-> q, price |-> c.price, stop |-> StopAt(c), trail |-> Callback(c),
   upsized |-> TooSmall(c), cycle |-> cycle]

\* place() sends it.
Send(c) ==
  /\ at = "cycle" /\ left > 0 /\ StopAt(c) > 0
  /\ \E n \in Asked(c) :
       /\ Fits(n)
       /\ \E q \in Quantities(c, n) :
            book' = Having(Order(c, q), Copies(Order(c, q)) + 1)
  /\ left' = left - 1 /\ UNCHANGED <<acct, alloc, at, cycle>>

\* No signal, refused by a gate, or declined by place().
Pass ==
  /\ at = "cycle" /\ left > 0 /\ left' = left - 1
  /\ UNCHANGED <<acct, alloc, at, book, cycle>>

\* A trade is over.
Ends ==
  /\ at \in {"cycle", "over"} /\ left = 0
  /\ \E o \in DOMAIN book : book' = Having(o, book[o] - 1)
  /\ UNCHANGED <<acct, alloc, at, left, cycle>>

\* The next bar: the account has changed, and other coins qualify.
Begins(a) ==
  /\ at \in {"cycle", "over"} /\ left = 0 /\ cycle < MaxCycles
  /\ a.takes = acct.takes /\ a.leverage = acct.leverage
  /\ acct' = a /\ alloc' = Fresh(a) /\ left' = a.eligible
  /\ Goto("minimum") /\ cycle' = cycle + 1 /\ UNCHANGED book

Init ==
  /\ acct \in Accounts /\ alloc = Fresh(acct) /\ left = acct.eligible
  /\ at = "minimum" /\ book = [o \in {} |-> 0] /\ cycle = 1

Next ==
  \/ TrimMinimum \/ TrimLeverage
  \/ (\E c \in Candidates : Send(c)) \/ Pass \/ Ends
  \/ \E a \in Accounts : Begins(a)

Spec == Init /\ [][Next]_vars

-------------------------------------------------------------------------------
(* Properties. *)

\* Trimming one at a time finds the most positions that each clear the
\* exchange minimum and together respect the leverage.
Viable(k) ==
  Leq(Minimum, NotionalOf(k)) /\ Leq(Times(k, NotionalOf(k)), Ceiling)
AllocationIsLargest ==
  at \in {"cycle", "over"} /\ ~alloc.upsized
  => alloc.slots = Max({0} \union {k \in 1 .. Fresh(acct).slots : Viable(k)})

\* An order is never worth more than the size the risk manager gave it, so the
\* book it is added to respects the leverage whatever the exchange's steps are.
LeverageHolds ==
  [][ Held' > Held => Total(Value, book') <= Ceiling'.num ]_vars

\* What the stops of one cycle's orders can cost fits the risk budget of the
\* account, give or take the rounding of each stop, unless an order was taken
\* at the exchange minimum.
FitsBudget(orders) ==
  100 * Total(LAMBDA o : Loss(o) - o.qty, orders)
    <= 2 * BudgetPct * acct.equity
CycleFitsBudget ==
  LET sized == {o \in DOMAIN book : o.cycle = cycle /\ ~o.upsized}
  IN  ~alloc.upsized => FitsBudget([o \in sized |-> book[o]])

-------------------------------------------------------------------------------
(* What the repository says of the program and the code does not do.       *)

\* "Each position can be correctly sized on its own and the book still be
\* wrong": what the stops of the whole book can cost fits the budget.
BookFitsBudget ==
  alloc.upsized \/ (\E o \in DOMAIN book : o.upsized) \/ FitsBudget(book)

\* A trailing stop "never gets worse than the fixed stop it replaces".
TrailIsNoWorse ==
  \A o \in DOMAIN book : o.trail > 0 => o.trail * o.price <= 1000 * o.stop

\* The cheapest legal order "has to survive being handed straight back".
CheapestSurvives ==
  at = "cycle" =>
    \A c \in Candidates : TooSmall(c) =>
      \A n \in Asked(c) : \A r \in RoundsTo(n, c.price) :
        Stepped(r, n, c.price) >= c.least
===============================================================================
