------------------------------ MODULE DeskProofs ------------------------------
(***************************************************************************)
(* The entries of module Desk, for every finite set of symbols, every      *)
(* limit and any number of faults: none goes out for a symbol the bot      *)
(* knows to be taken, none beyond the positions the equity can carry, and  *)
(* none on a day whose losses have reached the limit; and the limit halts  *)
(* the bot on no day that lost nothing.                                    *)
(*                                                                         *)
(* Known is what the book is worth: whatever the exchange has, the bot     *)
(* holds or has lost sight of.  It survives a reconcile because what is    *)
(* about to be let go of is flat (Gone).  Room is the count of a cycle:    *)
(* slots left and positions held never add up to more than a fresh         *)
(* allocation over any number of coins could give.                         *)
(***************************************************************************)
EXTENDS Desk, FiniteSetTheorems, WellFoundedInduction, TLAPS

Days  == [day : Nat, start : Int, trades : Nat, realized : Int,
          halted : BOOLEAN, hit : BOOLEAN, anchor : Int, anchorCap : Nat]
Views == [read : Int, wallet : Int, equity : Int, booked : Int,
          lost : SUBSET Symbols]
Threads == [at : {"idle", "reconcile", "cycle", "down"},
            todo : SUBSET Symbols, flat : SUBSET Symbols,
            letgo : Symbols \union {NoSym}, free : 0 .. HardCap, risk : Nat]

\* TypeOK in these names; and a process that is down holds nothing.
Types ==
  /\ ex \in [Symbols -> {"flat", "resting", "open"}]
  /\ due \in [Symbols -> {0, Move, -Move}] /\ wallet \in Int /\ now \in Times
  /\ st \in Days /\ exits \in [Symbols -> Times \union {Never}]
  /\ equity \in Int /\ cap \in Caps \union {0}
  /\ book \in [Symbols -> {"none", "resting", "filled"}]
  /\ clock \in Times \union {Never}
  /\ run \in Threads /\ (At("idle") \/ At("down") => run.todo = {})
  /\ faults \in 0 .. MaxFaults /\ past \in Views
  /\ At("down") => Held = {}

Slots == Allocate(HardCap).slots

Known == \A s \in Symbols : ex[s] # "flat" => s \in Held \union past.lost
Gone  == run.letgo # NoSym => run.letgo \in Symbols /\ ex[run.letgo] = "flat"
Room  == At("cycle") => Cardinality(Held) + run.free <= Slots

DeskInv == Types /\ Known /\ Gone /\ Room

-------------------------------------------------------------------------------
(* Least and greatest.                                                     *)

Lt == OpToRel(<, Nat)

\* The order of the natural numbers is well-founded.
LEMMA LtWellFounded == IsWellFoundedOn(Lt, Nat)
BY NatLessThanWellFounded DEF Lt

\* What it relates.
LEMMA LtRelates == \A x, y \in Nat : x < y => <<x, y>> \in Lt
BY DEF Lt, OpToRel

\* A bounded set of numbers has a greatest.
LEMMA MaxOfSet ==
  ASSUME NEW top \in Nat, NEW S \in SUBSET (1 .. top), S # {}
  PROVE  Max(S) \in S /\ \A y \in S : Max(S) >= y
<1> DEFINE D == {top - y : y \in S}
<1>1. D \in SUBSET Nat /\ D # {}
  <2>1. ASSUME NEW y \in S PROVE top - y \in Nat
    OBVIOUS
  <2> QED BY <2>1
<1>2. PICK m \in D : \A k \in D : ~(<<k, m>> \in Lt)
  <2> HIDE DEF D
  <2> QED BY <1>1, LtWellFounded, WFMin
<1>3. PICK x \in S : m = top - x
  BY <1>2
<1>4. ASSUME NEW y \in S PROVE x >= y
  <2>1. top - y \in D
    OBVIOUS
  <2>2. ~(top - y < top - x)
    <3> HIDE DEF D
    <3> QED BY <1>1, <1>2, <1>3, <2>1, LtRelates
  <2> QED BY <2>2
<1> QED BY <1>4 DEF Max

\* The greater of two.
LEMMA MaxOfTwo ==
  ASSUME NEW a \in Int, NEW b \in Int
  PROVE  Max({a, b}) \in {a, b}
<1>1. \E x \in {a, b} : \A y \in {a, b} : x >= y
  OBVIOUS
<1> QED BY <1>1 DEF Max

\* The lesser of two.
LEMMA MinOfTwo ==
  ASSUME NEW a \in Int, NEW b \in Int
  PROVE  Min({a, b}) \in {a, b} /\ Min({a, b}) <= a /\ Min({a, b}) <= b
<1>1. \E x \in {a, b} : \A y \in {a, b} : x <= y
  OBVIOUS
<1> QED BY <1>1 DEF Min

-------------------------------------------------------------------------------
(* The split of the risk budget.                                           *)

\* The risk and the size of one of n positions are numbers.
LEMMA RiskTypes ==
  ASSUME equity \in Int, NEW n \in Nat \ {0}
  PROVE  RiskOf(n) \in Nat /\ NotionalOf(n) \in Int
<1>1. BudgetPct \div n \in Nat /\ SinglePct \in Nat
  BY PercentAssumption
<1>2. RiskOf(n) \in Nat
  <2>1. PICK q \in Nat : q = BudgetPct \div n
    BY <1>1
  <2>2. Min({SinglePct, q}) \in {SinglePct, q}
    <3>1. SinglePct \in Int /\ q \in Int
      BY <1>1
    <3> QED BY <3>1, MinOfTwo
  <2> QED BY <1>1, <2>1, <2>2 DEF RiskOf
<1>3. equity * RiskOf(n) \in Int /\ StopPct \in Nat \ {0}
  BY <1>2, PercentAssumption
<1> QED BY <1>2, <1>3 DEF NotionalOf

Able(k) == \/ k = 1
           \/ /\ NotionalOf(k) >= MinNotional
              /\ NotionalOf(k) * k <= equity * Leverage
Counts(eligible) == {k \in 1 .. Min({eligible, HardCap}) : Able(k)}
Most(eligible) == Max(Counts(eligible))
Funds(n) == /\ MinNotional <= NotionalOf(n)
            /\ NotionalOf(n) <= equity * Leverage

\* allocate(), in parts.
LEMMA AllocateIs ==
  ASSUME NEW e
  PROVE  Allocate(e) = [slots |-> IF Funds(Most(e)) THEN Most(e) ELSE 0,
                        risk |-> RiskOf(Most(e))]
BY DEF Allocate, Most, Counts, Able, Funds

\* The number of positions it settles on.
LEMMA MostIs ==
  ASSUME NEW e \in Nat \ {0}
  PROVE  /\ Most(e) \in Counts(e) /\ \A k \in Counts(e) : k <= Most(e)
         /\ Most(e) \in 1 .. HardCap
         /\ Counts(e) \subseteq Counts(HardCap)
<1>1. HardCap \in Nat \ {0}
  BY LimitsAssumption
<1>2. /\ Min({e, HardCap}) \in Nat \ {0} /\ Min({e, HardCap}) <= HardCap
      /\ Min({HardCap, HardCap}) = HardCap
  BY <1>1, MinOfTwo
<1>3. Counts(e) \in SUBSET (1 .. HardCap) /\ 1 \in Counts(e)
  BY <1>1, <1>2 DEF Counts, Able
<1>4. Most(e) \in Counts(e) /\ \A k \in Counts(e) : Most(e) >= k
  BY <1>1, <1>3, MaxOfSet DEF Most
<1>5. Most(e) \in 1 .. HardCap /\ \A k \in Counts(e) : k <= Most(e)
  BY <1>1, <1>3, <1>4
<1>6. Counts(e) \subseteq Counts(HardCap)
  BY <1>1, <1>2 DEF Counts
<1> QED BY <1>4, <1>5, <1>6

\* A product of a size and a count is no smaller than the size.
LEMMA ProductGrows ==
  ASSUME NEW x \in Nat, NEW n \in Nat \ {0}
  PROVE  x <= x * n
OBVIOUS

\* allocate() gives no fewer slots when more coins qualify.
LEMMA AllocateGrows ==
  ASSUME equity \in Int, NEW e \in Nat \ {0}
  PROVE  /\ Allocate(e).slots \in 0 .. HardCap
         /\ Allocate(e).slots <= Slots
         /\ Allocate(e).risk \in Nat
<1>1. HardCap \in Nat \ {0} /\ MinNotional \in Nat /\ Leverage \in Nat
  BY LimitsAssumption, MoneyAssumption
<1> DEFINE n == Most(e)
           m == Most(HardCap)
<1>2. /\ n \in 1 .. HardCap /\ m \in 1 .. HardCap /\ n <= m
      /\ m \in Counts(HardCap)
  BY <1>1, MostIs
<1>3. NotionalOf(n) \in Int /\ NotionalOf(m) \in Int /\ RiskOf(n) \in Nat
  BY <1>1, <1>2, RiskTypes
<1>4. Funds(n) => Funds(m)
  <2>1. CASE m = 1
    BY <1>1, <1>2, <2>1
  <2>2. CASE m # 1
    <3>1. /\ NotionalOf(m) >= MinNotional
          /\ NotionalOf(m) * m <= equity * Leverage
      BY <1>2, <2>2 DEF Counts, Able
    <3>2. NotionalOf(m) <= NotionalOf(m) * m
      BY <1>1, <1>2, <1>3, <3>1, ProductGrows
    <3>3. equity * Leverage \in Int /\ NotionalOf(m) * m \in Int
      BY <1>1, <1>2, <1>3
    <3> QED BY <1>1, <1>3, <3>1, <3>2, <3>3 DEF Funds
  <2> QED BY <2>1, <2>2
<1>5. /\ Allocate(e).slots = IF Funds(n) THEN n ELSE 0
      /\ Allocate(e).risk = RiskOf(n)
      /\ Slots = IF Funds(m) THEN m ELSE 0
  BY AllocateIs DEF Slots
<1> HIDE DEF n, m
<1> QED BY <1>1, <1>2, <1>3, <1>4, <1>5

-------------------------------------------------------------------------------
(* What the handlers compute.                                              *)

\* Nothing to do is a state of the thread.
LEMMA IdleIs ==
  /\ Idle \in Threads /\ [Idle EXCEPT !.at = "down"] \in Threads
  /\ Idle.at = "idle" /\ Idle.todo = {} /\ Idle.letgo = NoSym
BY LimitsAssumption DEF Idle, Threads

\* effective_equity() is a number, whatever the cap.
LEMMA EffectiveTypes ==
  ASSUME NEW s \in Days, NEW a \in Int, NEW c \in Nat
  PROVE  Effective(s, a, c) \in Int
<1>1. c + a - s.anchor \in Int
  BY DEF Days
<1>2. PICK b \in Int : b = c + a - s.anchor
  BY <1>1
<1>3. Min({a, b}) \in Int /\ Min({a, c}) \in Int
  <2>1. c \in Int
    OBVIOUS
  <2> QED BY <1>2, <2>1, MinOfTwo
<1>4. Max({0, Min({a, b})}) \in Int
  <2>1. PICK m \in Int : m = Min({a, b})
    BY <1>3
  <2>2. Max({0, m}) \in {0, m}
    BY <2>1, MaxOfTwo
  <2> QED BY <2>1, <2>2
<1> QED BY <1>2, <1>3, <1>4 DEF Effective

\* A new day keeps the file whole.
LEMMA DaysStay ==
  ASSUME NEW s \in Days, NEW d \in Nat, NEW e \in Int, NEW n \in Nat,
         NEW r \in Int, NEW h \in BOOLEAN
  PROVE  [s EXCEPT !.day = d, !.start = e, !.trades = n, !.realized = r,
                   !.hit = h] \in Days
BY DEF Days

\* Reading the equity and rolling the day keep the file and the history whole.
LEMMA DayTypes ==
  ASSUME now \in Times, wallet \in Int, past \in Views,
         NEW s \in Days, NEW eq \in Int, NEW c \in Nat
  PROVE  /\ Anchored(s, wallet, c) \in Days /\ Rebased(s, eq, c) \in Days
         /\ Rolled(s, eq) \in Days
         /\ Opened(s, eq) \in Views /\ Opened(s, eq).lost = past.lost
<1>0. 0 \in Nat /\ 0 \in Int /\ FALSE \in BOOLEAN
  OBVIOUS
<1>1. Anchored(s, wallet, c) \in Days
  BY DEF Anchored, Days
<1>2. Rebased(s, eq, c) \in Days
  <2>1. PICK b \in Int : b = s.start
    BY DEF Days
  <2>2. Min({b, c}) \in Int
    <3>1. c \in Int
      OBVIOUS
    <3> QED BY <2>1, <3>1, MinOfTwo
  <2> QED BY <2>1, <2>2 DEF Rebased, Days
<1>3. Today \in Nat
  BY LimitsAssumption DEF Today, Times
<1>4. Rolled(s, eq) \in Days
  <2>1. [s EXCEPT !.day = Today, !.start = eq, !.trades = 0, !.realized = 0,
                 !.hit = FALSE] \in Days
    BY <1>0, <1>3, DaysStay, Zenon
  <2> QED BY <2>1 DEF Rolled
<1>5. Opened(s, eq) \in Views /\ Opened(s, eq).lost = past.lost
  <2>1. /\ [past EXCEPT !.read = wallet] \in Views
        /\ [past EXCEPT !.read = wallet].lost = past.lost
    BY DEF Views
  <2>0. PICK z \in Int : z = 0
    OBVIOUS
  <2>2. PICK q : q = [past EXCEPT !.read = wallet, !.wallet = wallet,
                                  !.equity = eq, !.booked = z]
    OBVIOUS
  <2>3. q \in Views /\ q.lost = past.lost
    BY <2>2 DEF Views
  <2>4. Opened(s, eq) \in {q, [past EXCEPT !.read = wallet]}
    BY <2>0, <2>2, Zenon DEF Opened
  <2> QED BY <2>1, <2>3, <2>4
<1> QED BY <1>1, <1>2, <1>4, <1>5

\* A target that is reached closes positions of the book.
LEMMA TargetTypes ==
  ASSUME NEW s \in Days, NEW held \in SUBSET Symbols
  PROVE  /\ CheckTarget(s, held).st \in Days
         /\ CheckTarget(s, held).flat \in SUBSET Symbols
BY MoneyAssumption DEF CheckTarget, Reached, Days

\* Booking a result keeps the file and the history whole.
LEMMA BookingTypes ==
  ASSUME due \in [Symbols -> {0, Move, -Move}], NEW s \in Days,
         NEW p \in Views, NEW d \in {0, Move, -Move}
  PROVE  /\ Booked(s, d) \in Days /\ Booked(s, d).trades = s.trades
         /\ Accounted(p, d) \in Views /\ Accounted(p, d).lost = p.lost
<1>1. d \in Int
  BY MoneyAssumption
<1> QED BY <1>1 DEF Booked, Accounted, Days, Views

\* The book is finite, and so is a part of it.
LEMMA HeldIsFinite ==
  /\ IsFiniteSet(Held) /\ Cardinality(Held) \in Nat
  /\ \A T \in SUBSET Held : IsFiniteSet(T) /\ Cardinality(T) \in Nat
                             /\ Cardinality(T) <= Cardinality(Held)
<1>1. IsFiniteSet(Held)
  BY SymbolsAssumption, FS_Subset DEF Held
<1> QED BY <1>1, FS_Subset, FS_CardinalityType

\* One more position in the book counts at most one more.
LEMMA OneMore ==
  ASSUME NEW s \in Symbols, NEW B, B \subseteq Held \union {s}
  PROVE  Cardinality(B) \in Nat /\ Cardinality(B) <= Cardinality(Held) + 1
<1>1. IsFiniteSet(Held)
  BY HeldIsFinite
<1>2. /\ IsFiniteSet(Held \union {s})
      /\ Cardinality(Held \union {s}) =
           IF s \in Held THEN Cardinality(Held) ELSE Cardinality(Held) + 1
  BY <1>1, FS_AddElement
<1>3. /\ IsFiniteSet(B) /\ Cardinality(B) <= Cardinality(Held \union {s})
  BY <1>2, FS_Subset
<1> QED BY <1>1, <1>2, <1>3, FS_CardinalityType

-------------------------------------------------------------------------------
(* Closing.                                                                *)

\* release() takes one position out of the book.
LEMMA ReleaseIs ==
  ASSUME Types, NEW s \in Symbols, NEW p \in Views, Release(s, p)
  PROVE  /\ book' \in [Symbols -> {"none", "resting", "filled"}]
         /\ exits' \in [Symbols -> Times \union {Never}]
         /\ due' \in [Symbols -> {0, Move, -Move}]
         /\ past' = p /\ Held' = Held \ {s}
<1>1. book' = [book EXCEPT ![s] = "none"] /\ past' = p
  BY DEF Release
<1>2. /\ book' \in [Symbols -> {"none", "resting", "filled"}]
      /\ Held' = Held \ {s}
  BY <1>1 DEF Types, Held
<1>3. due' \in [Symbols -> {0, Move, -Move}]
  BY DEF Release, Types
<1>4. exits' \in [Symbols -> Times \union {Never}]
  <2>1. PICK e \in Times \union {Never} :
           exits' = [exits EXCEPT ![s] = Max({@, e})]
    BY DEF Release, Types
  <2>2. exits[s] \in Times \union {Never}
    BY DEF Types
  <2>3. Max({exits[s], e}) \in {exits[s], e}
    <3>1. exits[s] \in Int /\ e \in Int
      BY <2>1, <2>2, LimitsAssumption DEF Times, Never
    <3> QED BY <3>1, MaxOfTwo
  <2> QED BY <2>1, <2>2, <2>3 DEF Types
<1> QED BY <1>1, <1>2, <1>3, <1>4

\* close_position() leaves a symbol it lets go of flat, or out of sight.
LEMMA CloseIs ==
  ASSUME Types, Known, Gone, NEW s \in Symbols, ClosePosition(s)
  PROVE  /\ ex' \in [Symbols -> {"flat", "resting", "open"}]
         /\ due' \in [Symbols -> {0, Move, -Move}] /\ wallet' \in Int
         /\ st' \in Days /\ st'.trades = st.trades /\ past' \in Views
         /\ exits' \in [Symbols -> Times \union {Never}]
         /\ book' \in [Symbols -> {"none", "resting", "filled"}]
         /\ faults' \in 0 .. MaxFaults
         /\ Known' /\ Held' \subseteq Held
         /\ run.letgo # NoSym => ex'[run.letgo] = "flat"
<1> DEFINE Rest == /\ due' \in [Symbols -> {0, Move, -Move}]
                   /\ st' \in Days /\ st'.trades = st.trades
                   /\ exits' \in [Symbols -> Times \union {Never}]
                   /\ book' \in [Symbols -> {"none", "resting", "filled"}]
<1>1. /\ st \in Days /\ past \in Views /\ wallet \in Int
      /\ ex \in [Symbols -> {"flat", "resting", "open"}]
      /\ due \in [Symbols -> {0, Move, -Move}] /\ faults \in 0 .. MaxFaults
      /\ Move \in Int /\ MaxFaults \in Nat
  BY MoneyAssumption, LimitsAssumption DEF Types, Days, Views
<1>2. ASSUME NEW d \in {0, Move, -Move}, NEW p \in Views,
             BookAndRelease(s, d, p)
      PROVE  /\ Rest /\ past' \in Views /\ past'.lost = p.lost
             /\ Held' = Held \ {s}
  <2>1. CASE st' = Booked(st, d) /\ Release(s, Accounted(p, d))
    <3>1. /\ Booked(st, d) \in Days /\ Booked(st, d).trades = st.trades
          /\ Accounted(p, d) \in Views /\ Accounted(p, d).lost = p.lost
      BY <1>1, BookingTypes
    <3> QED BY <2>1, <3>1, ReleaseIs
  <2>2. CASE st' = st /\ Release(s, p)
    BY <1>1, <2>2, ReleaseIs
  <2> QED BY <1>2, <2>1, <2>2 DEF BookAndRelease
<1>3. CASE Fault /\ UNCHANGED <<exchange, st, exits, book, past>>
  <2>1. faults' \in 0 .. MaxFaults
    BY <1>1, <1>3 DEF Fault
  <2> QED BY <1>1, <1>3, <2>1
          DEF Types, Known, Held, Gone, exchange
<1>4. CASE /\ ex[s] = "open" /\ Ok /\ ex' = [ex EXCEPT ![s] = "flat"]
           /\ \E d \in {Move, -Move} : /\ wallet' = wallet + d
                                       /\ BookAndRelease(s, d, past)
  <2>1. PICK d \in {Move, -Move} : /\ wallet' = wallet + d
                                   /\ BookAndRelease(s, d, past)
    BY <1>4
  <2>2. Rest /\ past' \in Views /\ past'.lost = past.lost /\ Held' = Held \ {s}
    BY <1>1, <1>2, <2>1
  <2>3. wallet' \in Int
    BY <1>1, <2>1
  <2>4. Known'
    BY <1>1, <1>4, <2>2 DEF Known
  <2> QED BY <1>1, <1>4, <2>2, <2>3, <2>4 DEF Gone, Ok
<1>5. CASE /\ Ok /\ ex' = [ex EXCEPT ![s] = "flat"] /\ UNCHANGED wallet
           /\ BookAndRelease(s, due[s], past)
  <2>1. Rest /\ past' \in Views /\ past'.lost = past.lost /\ Held' = Held \ {s}
    BY <1>1, <1>2, <1>5
  <2>2. Known'
    BY <1>1, <1>5, <2>1 DEF Known
  <2> QED BY <1>1, <1>5, <2>1, <2>2 DEF Gone, Ok
<1>6. CASE /\ Fault /\ UNCHANGED <<ex, wallet>>
           /\ BookAndRelease(s, due[s], [past EXCEPT !.lost = @ \union {s}])
  <2> DEFINE p == [past EXCEPT !.lost = @ \union {s}]
  <2>1. p \in Views /\ p.lost = past.lost \union {s}
    BY <1>1 DEF Views
  <2>2. Rest /\ past' \in Views /\ past'.lost = p.lost /\ Held' = Held \ {s}
    <3> HIDE DEF p
    <3>1. BookAndRelease(s, due[s], p)
      BY <1>6 DEF p
    <3> QED BY <1>1, <1>2, <2>1, <3>1
  <2>3. faults' \in 0 .. MaxFaults
    BY <1>1, <1>6 DEF Fault
  <2> HIDE DEF p
  <2>4. Known'
    BY <1>1, <1>6, <2>1, <2>2 DEF Known
  <2> QED BY <1>1, <1>6, <2>2, <2>3, <2>4 DEF Gone
<1> QED BY <1>3, <1>4, <1>5, <1>6 DEF ClosePosition

-------------------------------------------------------------------------------
(* The exchange, the clock and the gate.                                   *)

\* At the start nothing is held and nothing is lost.
LEMMA InitDesk == Init => DeskInv
<1> SUFFICES ASSUME Init PROVE DeskInv
  OBVIOUS
<1>1. 0 \in Times /\ MaxFaults \in Nat /\ Move \in Int /\ Stake \in Int
  BY LimitsAssumption, MoneyAssumption DEF Times
<1>2. st \in Days /\ past \in Views
  BY DEF Init, Days, Views
<1>3. run \in Threads /\ run.todo = {} /\ run.at = "down" /\ run.letgo = NoSym
  BY IdleIs DEF Init, Idle
<1>4. Types
  BY <1>1, <1>2, <1>3 DEF Init, Types, Held
<1>5. Known /\ Gone /\ Room
  BY <1>3 DEF Init, Known, Gone, Room, At
<1> QED BY <1>4, <1>5 DEF DeskInv

\* A fill or an exit adds nothing the bot has not seen.
LEMMA MarketKeeps ==
  ASSUME DeskInv, NEW s \in Symbols, Fills(s) \/ Ends(s)
  PROVE  DeskInv'
<1>1. /\ ex' \in [Symbols -> {"flat", "resting", "open"}]
      /\ \A t \in Symbols : ex'[t] # "flat" => ex[t] # "flat"
      /\ UNCHANGED <<now, file, equity, cap, tracked, run, faults, past>>
  BY DEF Fills, Ends, DeskInv, Types
<1>2. wallet' \in Int /\ due' \in [Symbols -> {0, Move, -Move}]
  <2>1. Move \in Int
    BY MoneyAssumption
  <2> QED BY <2>1 DEF Fills, Ends, DeskInv, Types
<1>3. Types'
  BY <1>1, <1>2 DEF DeskInv, Types, file, tracked, At, Held
<1>4. Known' /\ Gone'
  BY <1>1 DEF DeskInv, Types, Known, Gone, Held, tracked
<1>5. Room'
  BY <1>1 DEF DeskInv, Room, Slots, Allocate, NotionalOf, Held, tracked, At
<1> QED BY <1>3, <1>4, <1>5 DEF DeskInv

\* Time, the gate and a resume change neither book nor exchange.
LEMMA QuietKeeps ==
  ASSUME DeskInv, Elapse \/ GateHalts \/ Resume
  PROVE  DeskInv'
<1>1. /\ UNCHANGED <<exchange, exits, equity, cap, tracked, run, faults, past>>
      /\ now' \in Times
  BY LimitsAssumption
     DEF Elapse, GateHalts, Resume, DeskInv, Types, file, Times
<1>2. st' \in Days
  BY DEF Elapse, GateHalts, Resume, DeskInv, Types, Days, file
<1>3. Types'
  BY <1>1, <1>2 DEF DeskInv, Types, exchange, tracked, At, Held
<1>4. Known' /\ Gone'
  BY <1>1 DEF DeskInv, Known, Gone, Held, exchange, tracked
<1>5. Room'
  BY <1>1 DEF DeskInv, Room, Slots, Allocate, NotionalOf, Held, tracked, At
<1> QED BY <1>3, <1>4, <1>5 DEF DeskInv

-------------------------------------------------------------------------------
(* Closing and reconciling.                                                *)

\* Fewer positions in the book leave as much room.
LEMMA RoomStays ==
  ASSUME Room, equity \in Int, UNCHANGED equity, Held' \subseteq Held,
         run'.at = "cycle" => At("cycle") /\ run'.free = run.free,
         run \in Threads
  PROVE  Room'
<1>1. Slots' = Slots
  BY DEF Slots, Allocate, NotionalOf
<1>2. Cardinality(Held') <= Cardinality(Held) /\ Cardinality(Held') \in Nat
      /\ Cardinality(Held) \in Nat
  BY HeldIsFinite
<1>3. CASE run'.at = "cycle"
  <2>1. Slots \in Int
    BY AllocateGrows, LimitsAssumption DEF Slots
  <2>2. run.free \in Int
    BY LimitsAssumption DEF Threads
  <2> QED BY <1>1, <1>2, <1>3, <2>1, <2>2 DEF Room, At
<1> QED BY <1>3 DEF Room, At

\* A close, by a command or by a target reached.
LEMMA ClosingKeeps ==
  ASSUME DeskInv, CloseAll \/ \E s \in Symbols : Closes(s)
  PROVE  DeskInv'
<1>1. PICK s \in Symbols :
        /\ ClosePosition(s) /\ UNCHANGED <<now, equity, cap, clock>>
        /\ run' = run \/ run' = [run EXCEPT !.flat = @ \ {s}]
  BY DEF CloseAll, Closes, Held, DeskInv, Types, Threads
<1>2. /\ run' \in Threads /\ run'.at = run.at /\ run'.letgo = run.letgo
      /\ run'.free = run.free /\ run'.todo = run.todo
  BY <1>1 DEF DeskInv, Types, Threads
<1>3. /\ ex' \in [Symbols -> {"flat", "resting", "open"}]
      /\ due' \in [Symbols -> {0, Move, -Move}] /\ wallet' \in Int
      /\ st' \in Days /\ past' \in Views
      /\ exits' \in [Symbols -> Times \union {Never}]
      /\ book' \in [Symbols -> {"none", "resting", "filled"}]
      /\ faults' \in 0 .. MaxFaults
      /\ Known' /\ Held' \subseteq Held
      /\ run.letgo # NoSym => ex'[run.letgo] = "flat"
  BY <1>1, CloseIs DEF DeskInv
<1>4. Types'
  BY <1>1, <1>2, <1>3 DEF DeskInv, Types, At
<1>5. Gone'
  BY <1>2, <1>3 DEF DeskInv, Gone
<1>6. Room'
  BY <1>1, <1>2, <1>3, RoomStays DEF DeskInv, Types, At
<1> QED BY <1>3, <1>4, <1>5, <1>6 DEF DeskInv

\* What is let go of is flat.
LEMMA LetGoKeeps ==
  ASSUME DeskInv, LetGo
  PROVE  DeskInv'
<1>1. /\ run.letgo \in Symbols /\ ex[run.letgo] = "flat"
      /\ run' = [run EXCEPT !.letgo = NoSym]
      /\ UNCHANGED <<ex, wallet, now, st, equity, cap, faults>>
      /\ clock' = Never /\ Release(run.letgo, past) /\ past \in Views
  BY DEF LetGo, DeskInv, Gone, Types
<1>2. /\ run' \in Threads /\ run'.at = run.at /\ run'.letgo = NoSym
      /\ run'.free = run.free /\ run'.todo = run.todo
  BY <1>1 DEF DeskInv, Types, Threads
<1>3. /\ book' \in [Symbols -> {"none", "resting", "filled"}]
      /\ exits' \in [Symbols -> Times \union {Never}]
      /\ due' \in [Symbols -> {0, Move, -Move}]
      /\ past' = past /\ Held' = Held \ {run.letgo}
  BY <1>1, ReleaseIs DEF DeskInv
<1>4. Types'
  BY <1>1, <1>2, <1>3 DEF DeskInv, Types, At
<1>5. Known' /\ Gone'
  BY <1>1, <1>2, <1>3 DEF DeskInv, Known, Gone
<1>6. Room'
  BY <1>1, <1>2, <1>3, RoomStays DEF DeskInv, Types, At
<1> QED BY <1>4, <1>5, <1>6 DEF DeskInv

\* The equity is read, the day rolls, and a reconcile begins.
LEMMA PeriodicKeeps ==
  ASSUME DeskInv, Periodic
  PROVE  DeskInv'
<1>1. /\ st \in Days /\ wallet \in Int /\ now \in Times /\ past \in Views
      /\ cap \in Nat
  BY MoneyAssumption DEF DeskInv, Types
<1> DEFINE s == Anchored(st, wallet, cap)
           eq == Effective(s, wallet, cap)
           r == Rebased(s, eq, cap)
<1>2. s \in Days
  BY <1>1, DayTypes
<1>3. eq \in Int
  BY <1>1, <1>2, EffectiveTypes
<1>4. r \in Days
  BY <1>1, <1>2, <1>3, DayTypes
<1>5. /\ Rolled(r, eq) \in Days /\ Opened(r, eq) \in Views
      /\ Opened(r, eq).lost = past.lost
  <2> HIDE DEF r, eq, s
  <2> QED BY <1>1, <1>3, <1>4, DayTypes
<1>6. /\ equity' = eq /\ st' = Rolled(r, eq) /\ past' = Opened(r, eq)
      /\ UNCHANGED <<exchange, now, exits, cap, tracked, faults>>
  BY DEF Periodic
<1> HIDE DEF r, eq, s
<1>7. /\ run' \in Threads /\ run'.at = "reconcile" /\ run'.letgo = NoSym
  <2>1. Held \union {t \in Symbols : ex[t] = "open"} \in SUBSET Symbols
    BY DEF Held
  <2> QED BY <2>1, IdleIs DEF Periodic, Idle, Threads
<1>8. Types'
  BY <1>3, <1>5, <1>6, <1>7 DEF DeskInv, Types, exchange, tracked, At
<1>9. Known' /\ Gone' /\ Room'
  BY <1>5, <1>6, <1>7
     DEF DeskInv, Known, Gone, Room, Held, exchange, tracked, At
<1> QED BY <1>8, <1>9 DEF DeskInv

\* One position is reconciled: what the book drops is flat, what it takes up
\* is open.
LEMMA ReconcileKeeps ==
  ASSUME DeskInv, Reconcile
  PROVE  DeskInv'
<1>1. /\ At("reconcile") /\ run \in Threads /\ run.letgo = NoSym
      /\ UNCHANGED <<now, equity, cap>> /\ Types
  BY DEF Reconcile, Ready, DeskInv, Types
<1>2. CASE /\ run' = Idle
           /\ UNCHANGED <<exchange, file, tracked, faults, past>>
  <2>1. Types'
    BY <1>1, <1>2, IdleIs DEF Types, exchange, file, tracked, At
  <2> QED BY <1>1, <1>2, <2>1, IdleIs
          DEF DeskInv, Known, Gone, Room, Held, exchange, tracked, At
<1>3. ASSUME NEW s \in run.todo,
             \/ ExpireEntry(s) \/ SeeOpen(s) \/ SeeFlat(s)
             \/ /\ s \notin Held /\ ex[s] # "open" /\ Ok /\ Reconciled(s)
                /\ UNCHANGED <<exchange, file, tracked, past>>
      PROVE  DeskInv'
  <2>0. s \in Symbols /\ faults \in 0 .. MaxFaults /\ MaxFaults \in Nat
    BY <1>1, LimitsAssumption DEF Threads, Types
  <2>1. CASE ExpireEntry(s)
    <3>1. /\ Reconciled(s) /\ UNCHANGED <<due, wallet, file, past>>
          /\ \/ /\ clock' = Never /\ ex' = [ex EXCEPT ![s] = "flat"]
                /\ book' = [book EXCEPT ![s] = "none"]
             \/ UNCHANGED <<ex, tracked>>
          /\ faults' \in 0 .. MaxFaults
      BY <2>0, <2>1 DEF ExpireEntry, Ok, Fault
    <3>2. /\ run' \in Threads /\ run'.at = "reconcile" /\ run'.letgo = NoSym
      BY <1>1, <3>1 DEF Reconciled, Threads, At
    <3>3. Types'
      BY <1>1, <2>0, <3>1, <3>2 DEF Types, file, tracked, At
    <3>4. Known'
      BY <2>0, <3>1 DEF DeskInv, Types, Known, Held, tracked
    <3> QED BY <3>2, <3>3, <3>4 DEF DeskInv, Gone, Room, At
  <2>2. CASE SeeOpen(s)
    <3>1. /\ Reconciled(s) /\ UNCHANGED <<exchange, file, faults>>
          /\ book' = [book EXCEPT ![s] = "filled"]
          /\ clock' \in {now, clock}
          /\ past' = [past EXCEPT !.lost = @ \ {s}]
      BY <2>2 DEF SeeOpen, Ok
    <3>2. /\ run' \in Threads /\ run'.at = "reconcile" /\ run'.letgo = NoSym
      BY <1>1, <3>1 DEF Reconciled, Threads, At
    <3>3. past' \in Views /\ past'.lost = past.lost \ {s}
      BY <1>1, <3>1 DEF Types, Views
    <3>4. Types'
      BY <1>1, <2>0, <3>1, <3>2, <3>3 DEF Types, exchange, file, At
    <3>5. Known'
      BY <2>0, <3>1, <3>3 DEF DeskInv, Types, Known, Held, exchange
    <3> QED BY <3>2, <3>4, <3>5 DEF DeskInv, Gone, Room, At
  <2>3. CASE SeeFlat(s)
    <3>1. /\ ex[s] = "flat" /\ UNCHANGED <<exchange, exits, tracked, faults>>
      BY <2>3 DEF SeeFlat, Ok
    <3>2. /\ st' \in Days /\ past' \in Views /\ past'.lost = past.lost
          /\ run' \in Threads /\ run'.at = "reconcile" /\ run'.letgo = s
      <4>1. CASE LET c == CheckTarget(Booked(st, due[s]), Held)
                 IN  /\ st' = c.st /\ past' = Accounted(past, due[s])
                     /\ run' = [run EXCEPT !.todo = @ \ {s}, !.flat = c.flat,
                                           !.letgo = s]
        <5>1. due[s] \in {0, Move, -Move} /\ st \in Days /\ past \in Views
          BY <1>1, <2>0 DEF Types
        <5>2. /\ Booked(st, due[s]) \in Days
              /\ Accounted(past, due[s]) \in Views
              /\ Accounted(past, due[s]).lost = past.lost
          BY <1>1, <5>1, BookingTypes DEF Types
        <5>3. PICK c : c = CheckTarget(Booked(st, due[s]), Held)
          OBVIOUS
        <5>4. c.st \in Days /\ c.flat \in SUBSET Symbols
          BY <5>2, <5>3, TargetTypes DEF Held
        <5>5. /\ st' = c.st /\ past' = Accounted(past, due[s])
              /\ run' = [run EXCEPT !.todo = @ \ {s}, !.flat = c.flat,
                                    !.letgo = s]
          BY <4>1, <5>3
        <5> QED BY <1>1, <2>0, <5>2, <5>4, <5>5 DEF Threads, At
      <4>2. CASE /\ run' = [run EXCEPT !.todo = @ \ {s}, !.letgo = s]
                 /\ UNCHANGED <<st, past>>
        BY <1>1, <2>0, <4>2 DEF Threads, At, Types
      <4> QED BY <2>3, <4>1, <4>2 DEF SeeFlat
    <3>3. Types'
      BY <1>1, <3>1, <3>2 DEF Types, exchange, tracked, At
    <3>4. Known' /\ Gone'
      BY <2>0, <3>1, <3>2 DEF DeskInv, Known, Gone, Held, exchange, tracked
    <3> QED BY <3>2, <3>3, <3>4 DEF DeskInv, Room, At
  <2>4. CASE Ok /\ Reconciled(s) /\ UNCHANGED <<exchange, file, tracked, past>>
    <3>1. /\ run' \in Threads /\ run'.at = "reconcile" /\ run'.letgo = NoSym
      BY <1>1, <2>4 DEF Reconciled, Threads, At
    <3>2. Types'
      BY <1>1, <2>4, <3>1 DEF Types, exchange, file, tracked, At, Ok
    <3> QED BY <2>4, <3>1, <3>2
            DEF DeskInv, Known, Gone, Room, Held, exchange, tracked, At
  <2> QED BY <1>3, <2>1, <2>2, <2>3, <2>4
<1> QED BY <1>2, <1>3 DEF Reconcile

-------------------------------------------------------------------------------
(* The entries of one bar.                                                 *)

\* A cycle starts with as many slots as the book leaves of the allocation.
LEMMA DecideKeeps ==
  ASSUME DeskInv, Decide
  PROVE  DeskInv'
<1>1. /\ UNCHANGED <<exchange, now, exits, equity, cap, tracked, faults, past>>
      /\ Types /\ st \in Days /\ equity \in Int
  BY DEF Decide, DeskInv, Types
<1>2. PICK c : c = CheckTarget(st, Held)
  OBVIOUS
<1>3. c.st \in Days /\ c.flat \in SUBSET Symbols
  BY <1>1, <1>2, TargetTypes DEF Held
<1>4. /\ st' = c.st
      /\ \/ run' = [Idle EXCEPT !.flat = c.flat]
         \/ \E ranked \in (SUBSET Symbols) \ {{}} :
               LET a    == Allocate(Cardinality(ranked))
                   free == a.slots - Cardinality(Held)
               IN  run' = IF free <= 0 THEN Idle
                          ELSE [Idle EXCEPT !.at = "cycle", !.free = free,
                                  !.todo = ranked \ Held, !.risk = a.risk]
  BY <1>2 DEF Decide
<1> DEFINE Starts ==
             /\ run' \in Threads /\ run'.letgo = NoSym
             /\ run'.at = "idle" => run'.todo = {}
             /\ run'.at \in {"idle", "cycle"}
             /\ run'.at = "cycle" => Cardinality(Held) + run'.free <= Slots
<1>5. Starts
  <2>1. CASE run' = [Idle EXCEPT !.flat = c.flat]
    BY <1>3, <2>1, IdleIs DEF Threads
  <2>2. CASE run' = Idle
    BY <2>2, IdleIs
  <2>3. ASSUME NEW ranked \in (SUBSET Symbols) \ {{}},
               NEW a, a = Allocate(Cardinality(ranked)),
               NEW free, free = a.slots - Cardinality(Held), ~(free <= 0),
               run' = [Idle EXCEPT !.at = "cycle", !.free = free,
                                   !.todo = ranked \ Held, !.risk = a.risk]
        PROVE  Starts
    <3>1. Cardinality(ranked) \in Nat \ {0}
      <4>1. IsFiniteSet(ranked) /\ ranked # {}
        <5>1. ranked \in SUBSET Symbols /\ ranked # {}
          OBVIOUS
        <5> QED BY <5>1, SymbolsAssumption, FS_Subset
      <4>2. Cardinality(ranked) \in Nat /\ Cardinality(ranked) # 0
        BY <4>1, FS_EmptySet, FS_CardinalityType
      <4> QED BY <4>2
    <3>2. a.slots \in 0 .. HardCap /\ a.slots <= Slots /\ a.risk \in Nat
      BY <1>1, <2>3, <3>1, AllocateGrows
    <3>3. Slots \in Int /\ HardCap \in Nat /\ Cardinality(Held) \in Nat
      BY <1>1, AllocateGrows, LimitsAssumption, HeldIsFinite DEF Slots
    <3>4. /\ free \in 0 .. HardCap /\ ranked \ Held \in SUBSET Symbols
          /\ Cardinality(Held) + free <= Slots
      BY <2>3, <3>2, <3>3
    <3>5. /\ run' \in Threads /\ run'.letgo = NoSym /\ run'.at = "cycle"
          /\ run'.free = free
      BY <2>3, <3>2, <3>4, IdleIs DEF Threads
    <3> QED BY <3>4, <3>5
  <2>4. CASE \E ranked \in (SUBSET Symbols) \ {{}} :
               LET a    == Allocate(Cardinality(ranked))
                   free == a.slots - Cardinality(Held)
               IN  run' = IF free <= 0 THEN Idle
                          ELSE [Idle EXCEPT !.at = "cycle", !.free = free,
                                  !.todo = ranked \ Held, !.risk = a.risk]
    <3> HIDE DEF Starts
    <3>1. PICK ranked \in (SUBSET Symbols) \ {{}} :
             LET a    == Allocate(Cardinality(ranked))
                 free == a.slots - Cardinality(Held)
             IN  run' = IF free <= 0 THEN Idle
                        ELSE [Idle EXCEPT !.at = "cycle", !.free = free,
                                !.todo = ranked \ Held, !.risk = a.risk]
      BY <2>4
    <3>2. PICK a : a = Allocate(Cardinality(ranked))
      OBVIOUS
    <3>3. PICK free : free = a.slots - Cardinality(Held)
      OBVIOUS
    <3>4. \/ run' = Idle
          \/ /\ ~(free <= 0)
             /\ run' = [Idle EXCEPT !.at = "cycle", !.free = free,
                                    !.todo = ranked \ Held, !.risk = a.risk]
      BY <3>1, <3>2, <3>3
    <3> QED BY <2>2, <2>3, <3>2, <3>3, <3>4
  <2> QED BY <1>4, <2>1, <2>4
<1>6. Types'
  BY <1>1, <1>3, <1>4, <1>5 DEF Types, exchange, tracked, At
<1>7. Known' /\ Gone'
  BY <1>1, <1>5 DEF DeskInv, Known, Gone, Held, exchange, tracked
<1>8. Room'
  BY <1>1, <1>5
     DEF Room, At, Slots, Allocate, NotionalOf, Held, tracked
<1> QED BY <1>6, <1>7, <1>8 DEF DeskInv

Tries(s) ==
  PassesOver(s) \/ Declines(s) \/ Places(s) \/ Refused(s) \/ Recovers(s)

\* Whatever becomes of an entry, the bot holds it or knows it lost sight of it.
LEMMA EntryIs ==
  ASSUME Types, NEW s \in run.todo, At("cycle"), run.free > 0, Tries(s)
  PROVE  /\ ex' \in [Symbols -> {"flat", "resting", "open"}]
         /\ book' \in [Symbols -> {"none", "resting", "filled"}]
         /\ clock' \in Times \union {Never} /\ UNCHANGED <<due, wallet, exits>>
         /\ st' \in Days /\ faults' \in 0 .. MaxFaults /\ past' \in Views
         /\ past.lost \subseteq past'.lost
         /\ \A t \in Symbols : book[t] # "none" => book'[t] # "none"
         /\ \A t \in Symbols : ex'[t] # "flat" /\ ex[t] = "flat"
                               => book'[t] # "none" \/ t \in past'.lost
<1>1. /\ s \in Symbols /\ st \in Days /\ past \in Views /\ now \in Times
      /\ ex \in [Symbols -> {"flat", "resting", "open"}]
      /\ book \in [Symbols -> {"none", "resting", "filled"}]
      /\ clock \in Times \union {Never}
      /\ faults \in 0 .. MaxFaults /\ MaxFaults \in Nat
  BY LimitsAssumption DEF Types, Threads
<1>2. Ok \/ Fault => faults' \in 0 .. MaxFaults
  BY <1>1 DEF Ok, Fault
<1>3. Rests(s) \in [Symbols -> {"flat", "resting", "open"}]
      /\ \A t \in Symbols : t # s => Rests(s)[t] = ex[t]
  BY <1>1 DEF Rests
<1>4. Counted \in Days /\ [st EXCEPT !.halted = TRUE] \in Days
  <2>1. [st EXCEPT !.trades = @ + 1] \in Days
    BY <1>1 DEF Days
  <2>2. [st EXCEPT !.halted = TRUE] \in Days
    BY <1>1 DEF Days
  <2> QED BY <2>1, <2>2 DEF Counted
<1>5. Loses(s) => /\ past' \in Views
                  /\ past'.lost = past.lost \union {s}
  BY <1>1 DEF Loses, Views
<1>6. ASSUME NEW as \in {"resting", "filled"}, Enters(s, as)
      PROVE  /\ book' \in [Symbols -> {"none", "resting", "filled"}]
             /\ book'[s] # "none" /\ clock' \in Times
             /\ \A t \in Symbols : t # s => book'[t] = book[t]
  BY <1>1, <1>6 DEF Enters
<1>7. CASE PassesOver(s) \/ Declines(s)
  BY <1>1, <1>2, <1>7 DEF PassesOver, Declines, file, tracked
<1>8. CASE Places(s)
  BY <1>1, <1>2, <1>3, <1>4, <1>6, <1>8 DEF Places
<1>9. CASE Refused(s)
  BY <1>1, <1>2, <1>3, <1>5, <1>9 DEF Refused, file, tracked
<1>10. CASE Recovers(s)
  <2>1. CASE UNCHANGED <<ex, tracked, past>>
    BY <1>1, <1>2, <1>4, <1>10, <2>1 DEF Recovers, tracked
  <2>2. CASE /\ ex' = [ex EXCEPT ![s] = "open"] /\ Enters(s, "filled")
             /\ UNCHANGED past
    BY <1>1, <1>2, <1>4, <1>6, <1>10, <2>2 DEF Recovers
  <2>3. CASE /\ ex' = [ex EXCEPT ![s] = "open"] /\ Loses(s)
             /\ UNCHANGED tracked
    BY <1>1, <1>2, <1>4, <1>5, <1>10, <2>3 DEF Recovers, tracked
  <2> QED BY <1>10, <2>1, <2>2, <2>3 DEF Recovers
<1> QED BY <1>7, <1>8, <1>9, <1>10 DEF Tries

\* A slot is spent on every position that enters the book.
LEMMA EntrySpends ==
  ASSUME Types, NEW s \in run.todo, At("cycle"), run.free > 0, Tries(s)
  PROVE  /\ run' \in Threads /\ (run' = Idle \/ run'.at = "cycle")
         /\ run'.letgo = run.letgo \/ run' = Idle
         /\ run'.at = "cycle" =>
              \/ Held' \subseteq Held /\ run'.free = run.free
              \/ Held' \subseteq Held \union {s} /\ run'.free = run.free - 1
         /\ At("cycle")' => run'.todo = run.todo \ {s}
<1>1. run \in Threads /\ run.free - 1 \in 0 .. HardCap /\ s \in Symbols
  BY LimitsAssumption DEF Types, Threads
<1>2. CASE PassesOver(s)
  <2>1. run' = [run EXCEPT !.todo = @ \ {s}] /\ book' = book
    BY <1>2 DEF PassesOver, tracked
  <2> QED BY <1>1, <2>1 DEF Threads, Held, At
<1>3. CASE Refused(s)
  BY <1>3, IdleIs DEF Refused, At
<1>4. CASE Declines(s) \/ Places(s) \/ Recovers(s)
  <2>1. /\ run' = [run EXCEPT !.todo = @ \ {s}, !.free = @ - 1]
        /\ book' = book \/ \E as : book' = [book EXCEPT ![s] = as]
    BY <1>4 DEF Declines, Places, Recovers, Tried, tracked, Enters
  <2>2. Held' \subseteq Held \union {s}
    BY <2>1 DEF Held, Types
  <2> QED BY <1>1, <2>1, <2>2 DEF Threads, At
<1> QED BY <1>2, <1>3, <1>4 DEF Tries

\* A cycle never has more slots left than the allocation and the book leave.
LEMMA CycleKeeps ==
  ASSUME DeskInv, Cycle
  PROVE  DeskInv'
<1>1. /\ At("cycle") /\ run \in Threads /\ run.letgo = NoSym
      /\ UNCHANGED <<now, equity, cap>> /\ Types /\ equity \in Int
  BY DEF Cycle, Ready, DeskInv, Types
<1>2. CASE /\ run' = Idle
           /\ UNCHANGED <<exchange, file, tracked, faults, past>>
  <2>1. Types'
    BY <1>1, <1>2, IdleIs DEF Types, exchange, file, tracked, At
  <2> QED BY <1>1, <1>2, <2>1, IdleIs
          DEF DeskInv, Known, Gone, Room, Held, exchange, tracked, At
<1>3. ASSUME NEW s \in run.todo, run.free > 0, Tries(s)
      PROVE  DeskInv'
  <2>1. Types'
    BY <1>1, <1>3, EntryIs, EntrySpends, IdleIs DEF Types, At
  <2>2. Known'
    BY <1>1, <1>3, EntryIs DEF DeskInv, Known, Held
  <2>3. Gone'
    BY <1>1, <1>3, EntrySpends, IdleIs DEF Gone
  <2>4. Room'
    <3>1. Slots' = Slots
      BY <1>1 DEF Slots, Allocate, NotionalOf
    <3>2. Slots \in Int /\ run.free \in Int /\ run'.free \in Int
      BY <1>1, <1>3, AllocateGrows, EntrySpends, LimitsAssumption
         DEF Slots, Threads
    <3>3. s \in Symbols /\ Cardinality(Held) \in Nat
          /\ Cardinality(Held) + run.free <= Slots
      BY <1>1, HeldIsFinite DEF Threads, DeskInv, Room
    <3>4. CASE Held' \subseteq Held /\ run'.free = run.free
      BY <1>1, <3>1, <3>2, <3>3, <3>4, HeldIsFinite DEF Room
    <3>5. CASE Held' \subseteq Held \union {s} /\ run'.free = run.free - 1
      BY <1>1, <3>1, <3>2, <3>3, <3>5, OneMore DEF Room
    <3>6. CASE run'.at # "cycle"
      BY <3>6 DEF Room, At
    <3> QED BY <1>1, <1>3, <3>4, <3>5, <3>6, EntrySpends
  <2> QED BY <2>1, <2>2, <2>3, <2>4 DEF DeskInv
<1> QED BY <1>2, <1>3 DEF Cycle, Tries

-------------------------------------------------------------------------------
(* The process.                                                            *)

\* A process that ends has lost sight of everything the exchange still has.
LEMMA EndingKeeps ==
  ASSUME DeskInv, NEW S \in SUBSET Symbols, Forgets(S),
         ex' \in [Symbols -> {"flat", "resting", "open"}],
         \A s \in Symbols : ex'[s] # "flat" => s \in S,
         faults' \in 0 .. MaxFaults
  PROVE  DeskInv'
<1>1. /\ run' = [Idle EXCEPT !.at = "down"] /\ clock' = Never
      /\ book' = [s \in Symbols |-> "none"]
      /\ past' = [past EXCEPT !.lost = @ \union S]
      /\ equity' = 0 /\ cap' = 0 /\ UNCHANGED <<due, wallet, now, file>>
  BY DEF Forgets
<1>2. /\ run' \in Threads /\ run'.at = "down" /\ run'.todo = {}
      /\ run'.letgo = NoSym
  BY <1>1, IdleIs DEF Idle
<1>3. past' \in Views /\ past'.lost = past.lost \union S
  BY <1>1 DEF DeskInv, Types, Views
<1>4. Types'
  BY <1>1, <1>2, <1>3 DEF DeskInv, Types, file, At, Held
<1>5. Known'
  BY <1>3 DEF Known
<1> QED BY <1>2, <1>4, <1>5 DEF DeskInv, Gone, Room, At

\* A crash and a shutdown end the process.
LEMMA EndsKeep ==
  ASSUME DeskInv, Crash \/ Shutdown
  PROVE  DeskInv'
<1>1. CASE Crash
  <2>1. faults' \in 0 .. MaxFaults
    BY <1>1, LimitsAssumption DEF Crash, Fault, DeskInv, Types
  <2>2. Forgets({s \in Symbols : ex[s] # "flat"}) /\ ex' = ex
    BY <1>1 DEF Crash
  <2> QED BY <2>1, <2>2, EndingKeeps DEF DeskInv, Types
<1>2. CASE Shutdown
  <2>1. Forgets({s \in Symbols : ex'[s] # "flat"}) /\ faults' = faults
    BY <1>2 DEF Shutdown, Ok
  <2>2. ex' \in [Symbols -> {"flat", "resting", "open"}]
    BY <1>2 DEF Shutdown, DeskInv, Types
  <2>3. PICK S \in SUBSET Symbols : S = {s \in Symbols : ex'[s] # "flat"}
    OBVIOUS
  <2>4. Forgets(S) /\ \A s \in Symbols : ex'[s] # "flat" => s \in S
    BY <2>1, <2>3
  <2> QED BY <2>1, <2>2, <2>4, EndingKeeps DEF DeskInv, Types
<1> QED BY <1>1, <1>2

\* A process that starts adopts what it reads and knows that it lost the rest.
LEMMA RestartKeeps ==
  ASSUME DeskInv, Restart
  PROVE  DeskInv'
<1>1. PICK c \in Caps :
        LET s  == Anchored(st, wallet, c)
            eq == Effective(s, wallet, c)
            p  == Opened(s, eq)
        IN  /\ cap' = c /\ equity' = eq
            /\ st' = Rebased(Rolled(s, eq), eq, c)
            /\ \E seen \in {{s1 \in Symbols : ex[s1] = "open"}, {}} :
                 /\ IF st.halted THEN UNCHANGED <<run, tracked>> /\ past' = p
                    ELSE /\ run' = Idle
                         /\ book' = [s1 \in Symbols |-> IF s1 \in seen
                                        THEN "filled" ELSE "none"]
                         /\ past' = [p EXCEPT !.lost = @ \ seen]
                 /\ IF \E s1 \in Symbols \ seen : ex[s1] = "open"
                    THEN Fault ELSE Ok
  BY DEF Restart
<1>2. /\ At("down") /\ UNCHANGED <<exchange, now, exits, clock>>
      /\ run \in Threads /\ Types /\ c \in Nat
  BY MoneyAssumption DEF Restart, DeskInv, Types
<1>3. PICK s : s = Anchored(st, wallet, c)
  OBVIOUS
<1>4. PICK eq : eq = Effective(s, wallet, c)
  OBVIOUS
<1>5. PICK p : p = Opened(s, eq)
  OBVIOUS
<1>6. s \in Days /\ eq \in Int
  BY <1>2, <1>3, <1>4, DayTypes, EffectiveTypes DEF Types
<1>7. Rolled(s, eq) \in Days
  BY <1>2, <1>6, DayTypes DEF Types
<1>8. /\ Rebased(Rolled(s, eq), eq, c) \in Days
      /\ p \in Views /\ p.lost = past.lost
  BY <1>2, <1>5, <1>6, <1>7, DayTypes DEF Types
<1>9. PICK seen \in {{s1 \in Symbols : ex[s1] = "open"}, {}} :
        /\ cap' = c /\ equity' = eq /\ st' = Rebased(Rolled(s, eq), eq, c)
        /\ \/ UNCHANGED <<run, tracked>> /\ past' = p
           \/ /\ run' = Idle
              /\ book' = [s1 \in Symbols |-> IF s1 \in seen
                             THEN "filled" ELSE "none"]
              /\ past' = [p EXCEPT !.lost = @ \ seen]
        /\ Fault \/ Ok
  BY <1>1, <1>3, <1>4, <1>5
<1>10. /\ st' \in Days /\ equity' \in Int /\ cap' \in Caps
       /\ faults' \in 0 .. MaxFaults
  BY <1>2, <1>6, <1>8, <1>9, LimitsAssumption DEF Types, Fault, Ok
<1>11. CASE UNCHANGED <<run, tracked>> /\ past' = p
  <2>1. Types'
    BY <1>2, <1>8, <1>10, <1>11 DEF Types, exchange, tracked, At, Held
  <2>2. Known' /\ Gone' /\ Room'
    BY <1>2, <1>8, <1>11
       DEF DeskInv, Known, Gone, Room, Held, exchange, tracked, At
  <2> QED BY <2>1, <2>2 DEF DeskInv
<1>12. CASE /\ run' = Idle
            /\ book' = [s1 \in Symbols |-> IF s1 \in seen
                           THEN "filled" ELSE "none"]
            /\ past' = [p EXCEPT !.lost = @ \ seen]
  <2>1. past' \in Views /\ past'.lost = p.lost \ seen
    BY <1>8, <1>12 DEF Views
  <2>2. book' \in [Symbols -> {"none", "resting", "filled"}]
    BY <1>12
  <2>3. Types'
    BY <1>2, <1>10, <1>12, <2>1, <2>2, IdleIs DEF Types, exchange, At
  <2>4. Known'
    <3>1. ASSUME NEW t \in Symbols, ex'[t] # "flat", t \notin past'.lost
          PROVE  t \in Held'
      <4>1. t \in seen
        BY <1>2, <1>8, <2>1, <3>1 DEF DeskInv, Types, Known, exchange
      <4> QED BY <1>12, <4>1 DEF Held
    <3> QED BY <3>1 DEF Known
  <2>5. Gone' /\ Room'
    BY <1>12, IdleIs DEF Gone, Room, At
  <2> QED BY <2>3, <2>4, <2>5 DEF DeskInv
<1> QED BY <1>9, <1>11, <1>12

-------------------------------------------------------------------------------
(* The results.                                                            *)

\* Every step keeps the invariant.
LEMMA NextDesk == DeskInv /\ [Next]_vars => DeskInv'
<1> SUFFICES ASSUME DeskInv, [Next]_vars PROVE DeskInv'
  OBVIOUS
<1>1. CASE UNCHANGED vars
  BY <1>1 DEF vars, DeskInv, Types, Known, Gone, Room, Slots, Allocate,
     NotionalOf, Held, At
<1>2. CASE Next
  BY <1>2, MarketKeeps, QuietKeeps, ClosingKeeps, LetGoKeeps, PeriodicKeeps,
     ReconcileKeeps, DecideKeeps, CycleKeeps, EndsKeep, RestartKeeps DEF Next
<1> QED BY <1>1, <1>2

\* What the exchange has, the bot holds or has lost sight of, and a cycle never
\* has more slots left than the allocation and the book leave.
THEOREM DeskInvariant == Spec => []DeskInv
BY InitDesk, NextDesk, PTL DEF Spec

\* Every variable keeps its type, with any number of symbols and faults.
THEOREM DeskTypes == Spec => []TypeOK
<1>1. DeskInv => TypeOK
  <2>1. run \in Threads => run.todo \in SUBSET Symbols
    BY DEF Threads
  <2> QED BY <2>1 DEF DeskInv, Types, TypeOK, Days, Views, Threads
<1> QED BY <1>1, DeskInvariant, PTL

\* Only a cycle sends an entry, and only for a coin the book does not hold.
LEMMA SendIs ==
  ASSUME DeskInv, Next, NEW s \in Symbols, SendsFor(s)
  PROVE  /\ s \notin Held /\ run.free > 0 /\ At("cycle")
<1>1. st.trades \in Nat /\ st'.trades # st.trades /\ At("cycle")
  BY DEF SendsFor, DeskInv, Types, Days
<1>2. ~(CloseAll \/ \E t \in Symbols : Closes(t))
  <2>1. ASSUME NEW t \in Symbols, ClosePosition(t) PROVE FALSE
    BY <1>1, <2>1, CloseIs DEF DeskInv
  <2> QED BY <2>1 DEF CloseAll, Closes, DeskInv, Types, Threads
<1>3. /\ ~Elapse /\ ~LetGo /\ ~Crash /\ ~Shutdown
      /\ \A t \in Symbols : ~Fills(t) /\ ~Ends(t)
  BY <1>1 DEF Elapse, LetGo, Crash, Shutdown, Fills, Ends, Forgets, file
<1>4. ~Periodic /\ ~Reconcile /\ ~GateHalts /\ ~Decide /\ ~Restart
  BY <1>1 DEF Periodic, Reconcile, GateHalts, Decide, Preflight, Restart,
     Ready, At
<1>5. ~Resume
  BY <1>1 DEF Resume, DeskInv, Types, Days
<1>6. Cycle
  BY <1>2, <1>3, <1>4, <1>5 DEF Next
<1>7. PICK t \in run.todo : run.free > 0 /\ Tries(t)
  BY <1>1, <1>6 DEF Cycle, Tries, file
<1>8. t \notin Held
  BY <1>1, <1>7 DEF Tries, PassesOver, Declines, Places, Refused, Recovers,
     Sends, Fits, file
<1>9. s = t
  <2>1. run' = Idle \/ run'.todo = run.todo \ {t}
    BY <1>1, <1>7, EntrySpends DEF DeskInv, At
  <2>2. Tried(t)
    BY <1>1, <1>7 DEF Tries, PassesOver, Declines, Places, Refused, Recovers,
       file
  <2>3. run'.at = "cycle"
    BY <1>1, <2>2 DEF Tried, DeskInv, Types, Threads, At
  <2> QED BY <2>1, <2>3, IdleIs DEF SendsFor
<1> QED BY <1>1, <1>7, <1>8, <1>9

\* No entry is stacked on what the symbol has already, unless the bot has lost
\* sight of it, for any symbols, limits and number of faults.
THEOREM EntriesNeverStack == Spec => NeverStacks
<1>1. DeskInv /\ [Next]_vars =>
        [ \A s \in Symbols :
            SendsFor(s) /\ ex[s] # "flat" => s \in past.lost ]_vars
  BY SendIs DEF DeskInv, Known
<1> QED BY <1>1, DeskInvariant, PTL DEF Spec, NeverStacks

\* No entry goes out beyond the positions the equity can carry.
THEOREM SlotsAreKept == Spec => SlotsHold
<1>1. DeskInv /\ Next => \A s \in Symbols :
        LET seen == {x \in Symbols : ex[x] # "flat"} \ past.lost
        IN  SendsFor(s) => Cardinality(seen) < Allocate(HardCap).slots
  <2> SUFFICES ASSUME DeskInv, Next, NEW s \in Symbols, SendsFor(s)
               PROVE  Cardinality({x \in Symbols : ex[x] # "flat"} \ past.lost)
                        < Allocate(HardCap).slots
    OBVIOUS
  <2>1. PICK seen : seen = {x \in Symbols : ex[x] # "flat"} \ past.lost
    OBVIOUS
  <2>2. seen \in SUBSET Held
    BY <2>1 DEF DeskInv, Known
  <2>3. /\ Cardinality(seen) \in Nat /\ Cardinality(Held) \in Nat
        /\ Cardinality(seen) <= Cardinality(Held)
    BY <2>2, HeldIsFinite
  <2>4. /\ Cardinality(Held) + run.free <= Slots /\ run.free > 0
        /\ run.free \in Int /\ Slots \in Int
    BY SendIs, AllocateGrows, LimitsAssumption
       DEF DeskInv, Room, Types, Threads, Slots
  <2>5. Cardinality(seen) < Slots
    BY <2>3, <2>4
  <2> QED BY <2>1, <2>5 DEF Slots
<1>2. DeskInv /\ [Next]_vars =>
      [ \A s \in Symbols :
          LET seen == {x \in Symbols : ex[x] # "flat"} \ past.lost
          IN  SendsFor(s) => Cardinality(seen) < Allocate(HardCap).slots ]_vars
  BY <1>1
<1> QED BY <1>2, DeskInvariant, PTL DEF Spec, SlotsHold

-------------------------------------------------------------------------------
(* The daily loss.                                                         *)
(*                                                                         *)
(* The limit compares the equity with what the day opened with, and both   *)
(* are moved by hand: the cap by a restart, the opening by a re-base.      *)
(* Fair is what keeps the comparison honest: the opening the file has is   *)
(* never more than what the day really opened with, in equity and, when it *)
(* is more than nothing, in the wallet; and what the file books is what    *)
(* was booked.  Basis is the consequence for a cap that is fixed: the      *)
(* opening and the equity are capped alike, so one is above the other only *)
(* when the wallet has fallen.                                             *)

Fair(s, p) ==
  /\ s.realized = p.booked /\ s.start <= p.equity
  /\ s.start > 0 => s.start <= p.wallet

Basis == ~TracksPnl /\ ~At("down") /\ st.start > 0 /\ st.start > equity
           => past.read < past.wallet
\* A day that opened with something still has an opening, unless a tracking
\* cap has taken it to nothing with the equity.
Opens == past.equity > 0
           => st.start > 0 \/ (TracksPnl /\ equity <= 0 /\ st.start = 0)
WithinLimit == LossLimit > 0 /\ past.equity > 0
                 => -100 * past.booked < LossLimit * past.equity
Inside == At("cycle") => run.flat = {} /\ run.letgo = NoSym /\ WithinLimit

Opening == Fair(st, past) /\ Basis /\ Opens
DayInv  == Opening /\ Inside

\* What effective_equity() gives, by what the cap is.
LEMMA EffectiveIs ==
  ASSUME NEW s \in Days, NEW a \in Int, NEW c \in Nat,
         NEW eq, eq = Effective(s, a, c)
  PROVE  /\ eq \in Int /\ (eq > 0 => eq <= a) /\ (c = 0 => eq = a)
         /\ c > 0 /\ ~TracksPnl => eq <= c /\ eq \in {a, c}
         /\ c > 0 /\ TracksPnl => eq >= 0
<1>0. eq \in Int /\ c \in Int
  BY EffectiveTypes
<1>1. PICK b \in Int : b = c + a - s.anchor
  BY DEF Days
<1>2. /\ Min({a, b}) \in {a, b} /\ Min({a, b}) <= a
      /\ Min({a, c}) \in {a, c} /\ Min({a, c}) <= a /\ Min({a, c}) <= c
  BY <1>0, <1>1, MinOfTwo
<1>3. PICK m \in Int : m = Min({a, b})
  BY <1>2
<1>4. \E x \in {0, m} : \A y \in {0, m} : x >= y
  OBVIOUS
<1>5. PICK x : x = Max({0, m})
  OBVIOUS
<1>6. x \in {0, m} /\ x >= 0
  BY <1>4, <1>5 DEF Max
<1>7. CASE c = 0
  BY <1>7 DEF Effective
<1>8. CASE c # 0 /\ TracksPnl
  <2>1. eq = x
    BY <1>1, <1>3, <1>5, <1>8 DEF Effective
  <2> QED BY <1>0, <1>2, <1>3, <1>6, <1>8, <2>1
<1>9. CASE c # 0 /\ ~TracksPnl
  <2>1. eq = Min({a, c})
    BY <1>9 DEF Effective
  <2> QED BY <1>0, <1>2, <1>9, <2>1
<1> QED BY <1>7, <1>8, <1>9

\* A re-base only lowers the opening, and to nothing only when a tracking cap
\* makes the equity nothing.
LEMMA RebasedIs ==
  ASSUME NEW s \in Days, NEW eq \in Int, NEW c \in Nat,
         c > 0 /\ TracksPnl => eq >= 0, NEW r, r = Rebased(s, eq, c)
  PROVE  /\ r \in Days /\ r.realized = s.realized /\ r.halted = s.halted
         /\ r.start <= s.start /\ (s.start = 0 => r.start = 0)
         /\ r.day = s.day
         /\ s.start > 0 => r.start > 0 \/ (TracksPnl /\ eq = 0 /\ r.start = 0)
         /\ ~TracksPnl /\ c > 0 => r.start <= c
         /\ s.start = eq => r.start = eq \/ (~TracksPnl /\ eq > c)
         /\ r.anchor = s.anchor /\ r.anchorCap = s.anchorCap
<1>1. PICK b \in Int : b = s.start
  BY DEF Days
<1>2. Min({b, c}) \in {b, c} /\ Min({b, c}) <= b /\ Min({b, c}) <= c
  BY <1>1, MinOfTwo
<1>3. PICK m \in Int : m = Min({b, c})
  BY <1>2
<1>4. CASE c = 0 \/ b = 0
  BY <1>1, <1>4 DEF Rebased
<1>5. CASE c # 0 /\ b # 0 /\ TracksPnl
  <2>1. PICK e \in Int : e = IF b > eq + c THEN eq ELSE b
    BY <1>1
  <2>2. r = [s EXCEPT !.start = e]
    BY <1>1, <1>5, <2>1 DEF Rebased
  <2>3. /\ r \in Days /\ r.start = e /\ r.day = s.day
        /\ r.realized = s.realized /\ r.halted = s.halted
        /\ r.anchor = s.anchor /\ r.anchorCap = s.anchorCap
    BY <2>2 DEF Days
  <2> QED BY <1>1, <1>5, <2>1, <2>3
<1>6. CASE c # 0 /\ b # 0 /\ ~TracksPnl
  <2>2. r = [s EXCEPT !.start = m]
    BY <1>1, <1>3, <1>6 DEF Rebased
  <2>3. /\ r \in Days /\ r.start = m /\ r.day = s.day
        /\ r.realized = s.realized /\ r.halted = s.halted
        /\ r.anchor = s.anchor /\ r.anchorCap = s.anchorCap
    BY <2>2 DEF Days
  <2> QED BY <1>1, <1>2, <1>3, <1>6, <2>3
<1> QED BY <1>4, <1>5, <1>6

\* Anchoring a tracking cap touches neither the day nor what was booked.
LEMMA AnchoredIs ==
  ASSUME NEW s \in Days, NEW a \in Int, NEW c \in Nat
  PROVE  LET t == Anchored(s, a, c)
         IN  /\ t \in Days /\ t.day = s.day /\ t.start = s.start
             /\ t.realized = s.realized /\ t.halted = s.halted
BY DEF Anchored, Days

\* The roll opens the day with what is read, or leaves it.
LEMMA RolledIs ==
  ASSUME Types, NEW s \in Days, NEW eq \in Int,
         NEW r, r = Rolled(s, eq), NEW p, p = Opened(s, eq)
  PROVE  /\ r \in Days /\ p \in Views /\ r.halted = s.halted
         /\ r.anchor = s.anchor /\ r.anchorCap = s.anchorCap
         /\ p.read = wallet
         /\ \/ /\ NewDay(s) /\ r.start = eq /\ r.realized = 0
               /\ p.booked = 0 /\ p.wallet = wallet /\ p.equity = eq
            \/ /\ s.start # 0 /\ r = s /\ p.booked = past.booked
               /\ p.wallet = past.wallet /\ p.equity = past.equity
<1>1. /\ wallet \in Int /\ past \in Views /\ now \in Times
  BY DEF Types
<1>2. r \in Days /\ p \in Views
  BY <1>1, DayTypes
<1>3. PICK z \in Int : z = 0
  OBVIOUS
<1>4. PICK f : f = FALSE
  OBVIOUS
<1>5. CASE NewDay(s)
  <2>1. PICK n : n = Today
    OBVIOUS
  <2>2. /\ r = [s EXCEPT !.day = n, !.start = eq, !.trades = z,
                         !.realized = z, !.hit = f]
        /\ p = [past EXCEPT !.read = wallet, !.wallet = wallet,
                            !.equity = eq, !.booked = z]
    BY <1>3, <1>4, <1>5, <2>1, Zenon DEF Rolled, Opened
  <2>3. /\ r.start = eq /\ r.realized = z /\ r.halted = s.halted
        /\ r.anchor = s.anchor /\ r.anchorCap = s.anchorCap
    BY <2>2 DEF Days
  <2>4. /\ p.booked = z /\ p.wallet = wallet /\ p.equity = eq
        /\ p.read = wallet
    BY <1>1, <2>2 DEF Views
  <2> QED BY <1>2, <1>3, <1>5, <2>3, <2>4
<1>6. CASE ~NewDay(s)
  <2>1. r = s /\ p = [past EXCEPT !.read = wallet]
    BY <1>6 DEF Rolled, Opened
  <2>2. p.booked = past.booked /\ p.wallet = past.wallet
        /\ p.equity = past.equity /\ p.read = wallet
    BY <1>1, <2>1 DEF Views
  <2> QED BY <1>2, <1>6, <2>1, <2>2 DEF NewDay
<1> QED BY <1>5, <1>6

\* What reading the equity leaves: a fair opening on the basis of the cap.
Sound(s, p, eq) ==
  /\ Fair(s, p)
  /\ ~TracksPnl /\ s.start > 0 /\ s.start > eq => p.read < p.wallet
  /\ p.equity > 0 => s.start > 0 \/ (TracksPnl /\ eq <= 0 /\ s.start = 0)
  /\ s.halted = st.halted

\* How the equity is read with a cap: on the anchor, as a new day or on the
\* one that is open.
ReadsWith(c) ==
  LET s == Anchored(st, wallet, c)
  IN  /\ equity' = Effective(s, wallet, c) /\ cap' = c
      /\ st'.anchor = s.anchor /\ st'.anchorCap = s.anchorCap
      /\ past'.read = wallet
      /\ \/ past'.wallet = wallet /\ st'.start <= equity'
         \/ past'.wallet = past.wallet /\ st'.start <= st.start

\* An opening on the basis of the cap is above the equity only in a loss.
LEMMA BasisIs ==
  ASSUME NEW s \in Days, NEW p \in Views, NEW c \in Nat, NEW eq \in Int,
         wallet \in Int, Fair(s, p), p.read = wallet, c = 0 => eq = wallet,
         c > 0 /\ ~TracksPnl => eq \in {wallet, c} /\ s.start <= c,
         ~TracksPnl, s.start > 0, s.start > eq
  PROVE  p.read < p.wallet
<1>1. s.start \in Int /\ p.wallet \in Int /\ s.start <= p.wallet
  BY DEF Fair, Days, Views
<1>2. eq # c \/ c = 0
  BY <1>1
<1>3. eq = wallet
  BY <1>2
<1> QED BY <1>1, <1>3

\* periodic() re-bases the opening and then rolls the day.
LEMMA PeriodicIsSound ==
  ASSUME Types, Opening, Periodic
  PROVE  /\ Sound(st', past', equity') /\ run'.at = "reconcile"
         /\ ~At("down") /\ ReadsWith(cap)
<1>0. cap \in Caps \union {0}
  BY DEF Types
<1>1. /\ st \in Days /\ wallet \in Int /\ now \in Times /\ past \in Views
      /\ cap \in Nat
  BY <1>0, MoneyAssumption DEF Types
<1>2. PICK s : s = Anchored(st, wallet, cap)
  OBVIOUS
<1>3. PICK eq : eq = Effective(s, wallet, cap)
  OBVIOUS
<1>4. PICK r : r = Rebased(s, eq, cap)
  OBVIOUS
<1>5. PICK n : n = Rolled(r, eq)
  OBVIOUS
<1>6. PICK p : p = Opened(r, eq)
  OBVIOUS
<1>7. /\ equity' = eq /\ st' = n /\ past' = p /\ run'.at = "reconcile"
      /\ cap' = cap /\ ~At("down")
  BY <1>2, <1>3, <1>4, <1>5, <1>6 DEF Periodic, Idle, Ready, At
<1>8. /\ s \in Days /\ s.start = st.start
      /\ s.realized = st.realized /\ s.halted = st.halted
  BY <1>1, <1>2, AnchoredIs
<1>9. /\ eq \in Int /\ (eq > 0 => eq <= wallet) /\ (cap = 0 => eq = wallet)
      /\ cap > 0 /\ ~TracksPnl => eq <= cap /\ eq \in {wallet, cap}
      /\ cap > 0 /\ TracksPnl => eq >= 0
  BY <1>1, <1>3, <1>8, EffectiveIs
<1>10. /\ r \in Days /\ r.realized = s.realized /\ r.halted = s.halted
       /\ r.start <= s.start /\ (s.start = 0 => r.start = 0)
       /\ s.start > 0 => r.start > 0 \/ (TracksPnl /\ eq = 0 /\ r.start = 0)
       /\ ~TracksPnl /\ cap > 0 => r.start <= cap
       /\ r.anchor = s.anchor /\ r.anchorCap = s.anchorCap
  BY <1>1, <1>4, <1>8, <1>9, RebasedIs
<1>11. /\ n \in Days /\ p \in Views /\ n.halted = r.halted
       /\ n.anchor = r.anchor /\ n.anchorCap = r.anchorCap
       /\ p.read = wallet
       /\ \/ /\ n.start = eq /\ n.realized = 0
             /\ p.booked = 0 /\ p.wallet = wallet /\ p.equity = eq
          \/ /\ r.start # 0 /\ n = r /\ p.booked = past.booked
             /\ p.wallet = past.wallet /\ p.equity = past.equity
  BY <1>5, <1>6, <1>9, <1>10, RolledIs
<1>12. /\ st.start \in Int /\ r.start \in Int /\ n.start \in Int
       /\ past.wallet \in Int /\ past.equity \in Int
  BY <1>1, <1>10, <1>11 DEF Days, Views
<1>13. /\ st.realized = past.booked /\ st.start <= past.equity
       /\ st.start > 0 => st.start <= past.wallet
  BY DEF Opening, Fair
<1>14. Fair(n, p)
  <2>1. CASE n.start = eq /\ n.realized = 0 /\ p.booked = 0
             /\ p.wallet = wallet /\ p.equity = eq
    BY <1>9, <2>1 DEF Fair
  <2>2. CASE n = r /\ p.booked = past.booked
             /\ p.wallet = past.wallet /\ p.equity = past.equity
    BY <1>8, <1>10, <1>12, <1>13, <2>2 DEF Fair
  <2> QED BY <1>11, <2>1, <2>2
<1>15. cap > 0 /\ ~TracksPnl => n.start <= cap
  BY <1>9, <1>10, <1>11
<1>16. ~TracksPnl /\ n.start > 0 /\ n.start > eq => p.read < p.wallet
  BY <1>1, <1>9, <1>11, <1>14, <1>15, BasisIs
<1>17. p.equity > 0 => n.start > 0
  <2>1. CASE n.start = eq /\ p.equity = eq
    BY <2>1
  <2>2. CASE r.start # 0 /\ n = r /\ p.equity = past.equity
    BY <1>8, <1>10, <1>12, <2>2 DEF Opening, Opens
  <2> QED BY <1>11, <2>1, <2>2
<1>18. Sound(st', past', equity')
  BY <1>7, <1>8, <1>10, <1>11, <1>14, <1>16, <1>17 DEF Sound
<1>19. ReadsWith(cap)
  BY <1>2, <1>3, <1>7, <1>8, <1>9, <1>10, <1>11, <1>12 DEF ReadsWith
<1> QED BY <1>7, <1>18, <1>19

\* startup() rolls the day and then re-bases the opening.
LEMMA RestartIsSound ==
  ASSUME Types, Opening, Restart
  PROVE  /\ Sound(st', past', equity') /\ run'.at \in {"idle", "down"}
         /\ \E c \in Caps : ReadsWith(c)
<1>1. PICK c \in Caps :
        LET s  == Anchored(st, wallet, c)
            eq == Effective(s, wallet, c)
            p  == Opened(s, eq)
        IN  /\ cap' = c /\ equity' = eq
            /\ st' = Rebased(Rolled(s, eq), eq, c)
            /\ \E seen \in {{s1 \in Symbols : ex[s1] = "open"}, {}} :
                 IF st.halted THEN UNCHANGED <<run, tracked>> /\ past' = p
                 ELSE run' = Idle /\ past' = [p EXCEPT !.lost = @ \ seen]
  BY DEF Restart
<1>2. /\ st \in Days /\ wallet \in Int /\ now \in Times /\ past \in Views
      /\ c \in Nat /\ At("down")
  BY MoneyAssumption DEF Types, Restart
<1>3. PICK s : s = Anchored(st, wallet, c)
  OBVIOUS
<1>4. PICK eq : eq = Effective(s, wallet, c)
  OBVIOUS
<1>5. PICK p : p = Opened(s, eq)
  OBVIOUS
<1>6. PICK r : r = Rolled(s, eq)
  OBVIOUS
<1>7. PICK n : n = Rebased(r, eq, c)
  OBVIOUS
<1>8. /\ equity' = eq /\ st' = n /\ cap' = c /\ run'.at \in {"idle", "down"}
      /\ past' = p \/ \E seen : past' = [p EXCEPT !.lost = @ \ seen]
  BY <1>1, <1>2, <1>3, <1>4, <1>5, <1>6, <1>7 DEF Idle, At
<1>9. /\ s \in Days /\ s.start = st.start
      /\ s.realized = st.realized /\ s.halted = st.halted
  BY <1>2, <1>3, AnchoredIs
<1>10. /\ eq \in Int /\ (eq > 0 => eq <= wallet) /\ (c = 0 => eq = wallet)
       /\ c > 0 /\ ~TracksPnl => eq <= c /\ eq \in {wallet, c}
       /\ c > 0 /\ TracksPnl => eq >= 0
  BY <1>2, <1>4, <1>9, EffectiveIs
<1>11. /\ r \in Days /\ p \in Views /\ r.halted = s.halted
       /\ r.anchor = s.anchor /\ r.anchorCap = s.anchorCap
       /\ p.read = wallet
       /\ \/ /\ r.start = eq /\ r.realized = 0
             /\ p.booked = 0 /\ p.wallet = wallet /\ p.equity = eq
          \/ /\ s.start # 0 /\ r = s /\ p.booked = past.booked
             /\ p.wallet = past.wallet /\ p.equity = past.equity
  BY <1>5, <1>6, <1>9, <1>10, RolledIs
<1>12. /\ n \in Days /\ n.realized = r.realized /\ n.halted = r.halted
       /\ n.anchor = r.anchor /\ n.anchorCap = r.anchorCap
       /\ n.start <= r.start
       /\ r.start > 0 => n.start > 0 \/ (TracksPnl /\ eq = 0 /\ n.start = 0)
       /\ ~TracksPnl /\ c > 0 => n.start <= c
  BY <1>2, <1>7, <1>10, <1>11, RebasedIs
<1>13. /\ st.start \in Int /\ r.start \in Int /\ n.start \in Int
       /\ past.wallet \in Int /\ past.equity \in Int
  BY <1>2, <1>11, <1>12 DEF Days, Views
<1>14. /\ st.realized = past.booked /\ st.start <= past.equity
       /\ st.start > 0 => st.start <= past.wallet
  BY DEF Opening, Fair
<1>15. Fair(n, p)
  <2>1. CASE r.start = eq /\ r.realized = 0 /\ p.booked = 0
             /\ p.wallet = wallet /\ p.equity = eq
    BY <1>2, <1>10, <1>12, <1>13, <2>1 DEF Fair
  <2>2. CASE r = s /\ p.booked = past.booked
             /\ p.wallet = past.wallet /\ p.equity = past.equity
    BY <1>9, <1>12, <1>13, <1>14, <2>2 DEF Fair
  <2> QED BY <1>11, <2>1, <2>2
<1>16. ~TracksPnl /\ n.start > 0 /\ n.start > eq => p.read < p.wallet
  BY <1>2, <1>10, <1>11, <1>12, <1>15, BasisIs
<1>17. p.equity > 0 => n.start > 0 \/ (TracksPnl /\ eq <= 0 /\ n.start = 0)
  <2>1. CASE r.start = eq /\ p.equity = eq
    BY <1>10, <1>12, <2>1
  <2>2. CASE s.start # 0 /\ r = s /\ p.equity = past.equity
    BY <1>9, <1>12, <1>13, <2>2 DEF Opening, Opens
  <2> QED BY <1>11, <2>1, <2>2
<1>18. Sound(n, p, eq)
  BY <1>9, <1>11, <1>12, <1>15, <1>16, <1>17 DEF Sound
<1>19. ASSUME NEW seen, past' = [p EXCEPT !.lost = @ \ seen]
       PROVE  Sound(n, past', eq)
  <2>1. PICK q : q = [p EXCEPT !.lost = @ \ seen]
    OBVIOUS
  <2>2. /\ q.read = p.read /\ q.wallet = p.wallet /\ q.equity = p.equity
        /\ q.booked = p.booked
    BY <1>11, <2>1 DEF Views
  <2>3. Sound(n, q, eq)
    BY <1>18, <2>2 DEF Sound, Fair
  <2> QED BY <1>19, <2>1, <2>3
<1>20. past'.read = p.read /\ past'.wallet = p.wallet
  BY <1>8, <1>11 DEF Views
<1>21. ReadsWith(c)
  BY <1>3, <1>4, <1>8, <1>9, <1>10, <1>11, <1>12, <1>13, <1>20
  DEF ReadsWith
<1>22. Sound(st', past', equity')
  BY <1>8, <1>18, <1>19
<1> QED BY <1>8, <1>21, <1>22

\* A step that reads no equity leaves the day as it opened, and books in the
\* file what is booked.
SameDay ==
  /\ st'.start = st.start /\ st'.anchor = st.anchor
  /\ st'.anchorCap = st.anchorCap /\ equity' = equity /\ cap' = cap
  /\ past'.read = past.read /\ past'.wallet = past.wallet
  /\ past'.equity = past.equity /\ (run'.at = "down" <=> At("down"))
Books == \E d \in Int : /\ st'.realized = st.realized + d
                        /\ past'.booked = past.booked + d

\* Such a step keeps the accounts of the day.
LEMMA SameDayKeeps ==
  ASSUME Opening, SameDay, Books
  PROVE  Opening'
<1>1. st.realized = past.booked /\ st'.realized = past'.booked
  BY DEF Opening, Fair, Books
<1> QED BY <1>1 DEF Opening, Fair, Basis, Opens, SameDay, At

\* Booking changes only what is booked.
LEMMA BookedIs ==
  ASSUME NEW s \in Days, NEW p \in Views, NEW d \in Int
  PROVE  /\ Booked(s, d).realized = s.realized + d
         /\ Booked(s, d).start = s.start /\ Booked(s, d).halted = s.halted
         /\ Booked(s, d).anchor = s.anchor
         /\ Booked(s, d).anchorCap = s.anchorCap
         /\ Accounted(p, d).booked = p.booked + d
         /\ Accounted(p, d).read = p.read /\ Accounted(p, d).wallet = p.wallet
         /\ Accounted(p, d).equity = p.equity
BY DEF Booked, Accounted, Days, Views

\* close_position() books on the day it has, and halts nothing.
LEMMA CloseBooks ==
  ASSUME Types, NEW s \in Symbols, ClosePosition(s),
         UNCHANGED <<equity, cap>>, run'.at = run.at
  PROVE  SameDay /\ Books /\ st'.halted = st.halted
<1>1. /\ st \in Days /\ past \in Views /\ Move \in Int
      /\ due \in [Symbols -> {0, Move, -Move}]
  BY MoneyAssumption DEF Types
<1>2. st.realized \in Int /\ past.booked \in Int
  BY <1>1 DEF Days, Views
<1>3. ASSUME NEW d \in Int, NEW p \in Views, BookAndRelease(s, d, p),
             p.read = past.read, p.wallet = past.wallet,
             p.equity = past.equity, p.booked = past.booked
      PROVE  SameDay /\ Books /\ st'.halted = st.halted
  <2>1. CASE st' = Booked(st, d) /\ past' = Accounted(p, d)
    BY <1>1, <1>3, <2>1, BookedIs DEF SameDay, Books, At
  <2>2. CASE st' = st /\ past' = p
    <3>1. 0 \in Int /\ st.realized = st.realized + 0
          /\ past.booked = past.booked + 0
      BY <1>2
    <3> QED BY <1>3, <2>2, <3>1 DEF SameDay, Books, At
  <2> QED BY <1>3, <2>1, <2>2 DEF BookAndRelease, Release
<1>4. CASE st' = st /\ past' = past
  <2>1. 0 \in Int /\ st.realized = st.realized + 0
        /\ past.booked = past.booked + 0
    BY <1>2
  <2> QED BY <1>4, <2>1 DEF SameDay, Books, At
<1>5. ASSUME NEW d \in {0, Move, -Move}, BookAndRelease(s, d, past)
      PROVE  SameDay /\ Books /\ st'.halted = st.halted
  BY <1>1, <1>3, <1>5
<1>6. CASE BookAndRelease(s, due[s], [past EXCEPT !.lost = @ \union {s}])
  <2>1. PICK p : p = [past EXCEPT !.lost = @ \union {s}]
    OBVIOUS
  <2>2. /\ p \in Views /\ p.read = past.read /\ p.wallet = past.wallet
        /\ p.equity = past.equity /\ p.booked = past.booked
    BY <1>1, <2>1 DEF Views
  <2>3. due[s] \in Int
    BY <1>1
  <2> QED BY <1>3, <1>6, <2>1, <2>2, <2>3
<1>7. due[s] \in {0, Move, -Move}
  BY <1>1
<1>8. \/ st' = st /\ past' = past
      \/ \E d \in {Move, -Move} : BookAndRelease(s, d, past)
      \/ BookAndRelease(s, due[s], past)
      \/ BookAndRelease(s, due[s], [past EXCEPT !.lost = @ \union {s}])
  BY DEF ClosePosition
<1> QED BY <1>4, <1>5, <1>6, <1>7, <1>8

\* A step that books nothing.
LEMMA NothingBooked ==
  ASSUME Types, st'.realized = st.realized, past'.booked = past.booked
  PROVE  Books
<1>1. st.realized \in Int /\ past.booked \in Int
  BY DEF Types, Days, Views
<1>2. 0 \in Int /\ st.realized = st.realized + 0
      /\ past.booked = past.booked + 0
  BY <1>1
<1> QED BY <1>2 DEF Books

\* At the start nothing is booked.
LEMMA InitDay == Init => DayInv
BY DEF Init, DayInv, Opening, Fair, Basis, Opens, Inside, Idle, At

\* The exchange, the clock, the gate and a resume leave the day alone.
LEMMA QuietDay ==
  ASSUME Types,
         \/ Elapse \/ GateHalts \/ Resume
         \/ \E s \in Symbols : Fills(s) \/ Ends(s)
  PROVE  SameDay /\ Books /\ UNCHANGED <<run, past>>
<1>1. /\ UNCHANGED <<equity, cap, run, past>>
      /\ st' = st \/ \E h : st' = [st EXCEPT !.halted = h]
  BY DEF Elapse, GateHalts, Resume, Fills, Ends, file
<1>2. /\ st'.start = st.start /\ st'.realized = st.realized
      /\ st'.anchor = st.anchor /\ st'.anchorCap = st.anchorCap
  BY <1>1 DEF Types, Days
<1> QED BY <1>1, <1>2, NothingBooked DEF SameDay, At

\* Closing keeps the thread where it is.
LEMMA ClosingDay ==
  ASSUME Types, CloseAll \/ \E s \in Symbols : Closes(s)
  PROVE  /\ SameDay /\ Books /\ st'.halted = st.halted
         /\ run'.at = run.at /\ (run.flat # {} \/ At("idle"))
<1>1. PICK s \in Symbols :
        /\ ClosePosition(s) /\ UNCHANGED <<now, equity, cap, clock>>
        /\ run' = run \/ run' = [run EXCEPT !.flat = @ \ {s}]
        /\ run.flat # {} \/ At("idle")
  BY DEF CloseAll, Closes, Held, Types, Threads, Ready
<1>2. run'.at = run.at
  BY <1>1 DEF Types, Threads
<1> QED BY <1>1, <1>2, CloseBooks

\* Letting go books nothing.
LEMMA LetGoDay ==
  ASSUME Types, LetGo
  PROVE  /\ SameDay /\ Books /\ st'.halted = st.halted
         /\ run'.at = run.at /\ run.letgo # NoSym
<1>1. /\ UNCHANGED <<st, equity, cap, past>> /\ run.letgo # NoSym
      /\ run'.at = run.at
  BY DEF LetGo, Release, Types, Threads
<1> QED BY <1>1, NothingBooked DEF SameDay, At

\* A target that is reached changes neither the day nor what was booked.
LEMMA TargetIs ==
  ASSUME NEW s \in Days, NEW held, NEW c, c = CheckTarget(s, held)
  PROVE  /\ c.st.start = s.start /\ c.st.realized = s.realized
         /\ c.st.halted = s.halted /\ c.st.anchor = s.anchor
         /\ c.st.anchorCap = s.anchorCap
BY DEF CheckTarget, Days

\* How a reconcile moves the thread on.
LEMMA ReconcileRuns ==
  ASSUME Reconcile
  PROVE  \/ run' = Idle
         \/ \E t : run' = [run EXCEPT !.todo = t]
         \/ \E t, l : run' = [run EXCEPT !.todo = t, !.letgo = l]
         \/ \E t, f, l : run' = [run EXCEPT !.todo = t, !.flat = f,
                                            !.letgo = l]
<1>1. ASSUME NEW s, Reconciled(s)
      PROVE  \E t : run' = [run EXCEPT !.todo = t]
  BY <1>1 DEF Reconciled
<1>2. ASSUME NEW s, SeeFlat(s)
      PROVE  \/ \E t, l : run' = [run EXCEPT !.todo = t, !.letgo = l]
             \/ \E t, f, l : run' = [run EXCEPT !.todo = t, !.flat = f,
                                                !.letgo = l]
  <2>1. CASE run' = [run EXCEPT !.todo = @ \ {s}, !.letgo = s]
    BY <2>1
  <2>2. ASSUME NEW f, run' = [run EXCEPT !.todo = @ \ {s}, !.flat = f,
                                         !.letgo = s]
        PROVE  \E t, g, l : run' = [run EXCEPT !.todo = t, !.flat = g,
                                               !.letgo = l]
    BY <2>2
  <2>3. PICK f : f = CheckTarget(Booked(st, due[s]), Held).flat
    OBVIOUS
  <2>4. \/ run' = [run EXCEPT !.todo = @ \ {s}, !.letgo = s]
        \/ run' = [run EXCEPT !.todo = @ \ {s}, !.flat = f, !.letgo = s]
    BY <1>2, <2>3, Zenon DEF SeeFlat
  <2> QED BY <2>1, <2>2, <2>4
<1>3. ASSUME NEW s, ExpireEntry(s) \/ SeeOpen(s)
      PROVE  Reconciled(s)
  BY <1>3 DEF ExpireEntry, SeeOpen
<1>4. \/ run' = Idle
      \/ \E s \in run.todo :
           ExpireEntry(s) \/ SeeOpen(s) \/ SeeFlat(s) \/ Reconciled(s)
  BY DEF Reconcile
<1> QED BY <1>1, <1>2, <1>3, <1>4

\* A reconcile books what it sees flat.
LEMMA ReconcileDay ==
  ASSUME Types, Reconcile
  PROVE  /\ SameDay /\ Books /\ st'.halted = st.halted
         /\ run'.at \in {"idle", "reconcile"}
<1>1. /\ st \in Days /\ past \in Views /\ run \in Threads /\ Move \in Int
      /\ due \in [Symbols -> {0, Move, -Move}] /\ At("reconcile")
      /\ UNCHANGED <<equity, cap>>
  BY MoneyAssumption DEF Types, Reconcile, Ready
<1>2. run'.at \in {"idle", "reconcile"}
  <2>1. \/ run' = Idle
        \/ \E t : run' = [run EXCEPT !.todo = t]
        \/ \E t, l : run' = [run EXCEPT !.todo = t, !.letgo = l]
        \/ \E t, f, l : run' = [run EXCEPT !.todo = t, !.flat = f,
                                           !.letgo = l]
    BY ReconcileRuns
  <2> QED BY <1>1, <2>1, IdleIs DEF Threads, At
<1>3. SameDay /\ Books /\ st'.halted = st.halted
  <2>1. CASE st' = st /\ past' = past
    BY <1>1, <1>2, <2>1, NothingBooked DEF SameDay, At
  <2>2. ASSUME NEW s \in Symbols, st' = st,
               past' = [past EXCEPT !.lost = @ \ {s}]
        PROVE  SameDay /\ Books /\ st'.halted = st.halted
    <3>1. /\ past'.read = past.read /\ past'.wallet = past.wallet
          /\ past'.equity = past.equity /\ past'.booked = past.booked
      BY <1>1, <2>2 DEF Views
    <3> QED BY <1>1, <1>2, <2>2, <3>1, NothingBooked DEF SameDay, At
  <2>3. ASSUME NEW s \in Symbols, past' = Accounted(past, due[s]),
               st' = CheckTarget(Booked(st, due[s]), Held).st
        PROVE  SameDay /\ Books /\ st'.halted = st.halted
    <3>1. PICK d \in Int : d = due[s]
      BY <1>1
    <3>2. PICK b : b = Booked(st, d)
      OBVIOUS
    <3>3. due[s] \in {0, Move, -Move}
      BY <1>1
    <3>4. b \in Days
      BY <1>1, <3>1, <3>2, <3>3, BookingTypes
    <3>5. PICK c : c = CheckTarget(b, Held)
      OBVIOUS
    <3>6. /\ st'.start = b.start /\ st'.realized = b.realized
          /\ st'.halted = b.halted /\ st'.anchor = b.anchor
          /\ st'.anchorCap = b.anchorCap
      BY <2>3, <3>1, <3>2, <3>4, <3>5, TargetIs
    <3>7. past' = Accounted(past, d)
      BY <2>3, <3>1
    <3> QED BY <1>1, <1>2, <3>2, <3>6, <3>7, BookedIs DEF SameDay, Books, At
  <2>4. \/ st' = st /\ past' = past
        \/ \E s \in Symbols :
             \/ st' = st /\ past' = [past EXCEPT !.lost = @ \ {s}]
             \/ /\ past' = Accounted(past, due[s])
                /\ st' = CheckTarget(Booked(st, due[s]), Held).st
    BY <1>1 DEF Reconcile, ExpireEntry, SeeOpen, SeeFlat, Threads, file
  <2> QED BY <2>1, <2>2, <2>3, <2>4
<1> QED BY <1>2, <1>3

\* Deciding books nothing, and a cycle starts with nothing to close.
LEMMA DecideDay ==
  ASSUME Types, Decide
  PROVE  /\ SameDay /\ Books /\ st'.halted = st.halted /\ past' = past
         /\ run'.at \in {"idle", "cycle"}
         /\ run'.at = "cycle" => run'.flat = {} /\ run'.letgo = NoSym
<1>1. st \in Days /\ UNCHANGED <<equity, cap, past>> /\ At("idle")
  BY DEF Types, Decide, Preflight, Ready
<1>2. PICK c : c = CheckTarget(st, Held)
  OBVIOUS
<1>3. /\ st' = c.st
      /\ \/ run' = Idle
         \/ run' = [Idle EXCEPT !.flat = c.flat]
         \/ \E f, t, r : run' = [Idle EXCEPT !.at = "cycle", !.free = f,
                                             !.todo = t, !.risk = r]
  BY <1>2, Zenon DEF Decide
<1>4. /\ st'.start = st.start /\ st'.realized = st.realized
      /\ st'.halted = st.halted /\ st'.anchor = st.anchor
      /\ st'.anchorCap = st.anchorCap
  <2>1. /\ c.st.start = st.start /\ c.st.realized = st.realized
        /\ c.st.halted = st.halted /\ c.st.anchor = st.anchor
        /\ c.st.anchorCap = st.anchorCap
    BY <1>1, <1>2, TargetIs
  <2> QED BY <1>3, <2>1
<1>5. /\ run'.at \in {"idle", "cycle"}
      /\ run'.at = "cycle" => run'.flat = {} /\ run'.letgo = NoSym
  <2>1. CASE run' = Idle
    BY <2>1 DEF Idle
  <2>2. CASE run' = [Idle EXCEPT !.flat = c.flat]
    BY <2>2 DEF Idle
  <2>3. ASSUME NEW f, NEW t, NEW r,
               run' = [Idle EXCEPT !.at = "cycle", !.free = f,
                                   !.todo = t, !.risk = r]
        PROVE  /\ run'.at = "cycle" /\ run'.flat = {}
               /\ run'.letgo = NoSym
    BY <2>3 DEF Idle
  <2> QED BY <1>3, <2>1, <2>2, <2>3
<1> QED BY <1>1, <1>4, <1>5, NothingBooked DEF SameDay, At

\* A cycle starts only within the limit.
LEMMA DecideInside ==
  ASSUME Opening, Types, Decide, TracksPnl => Floor > 0
  PROVE  WithinLimit
<1>1. /\ st \in Days /\ past \in Views /\ equity \in Int /\ Floor \in Nat
      /\ ~TooPoor /\ ~Losing
  BY MoneyAssumption DEF Types, Decide, Preflight
<1>2. ASSUME LossLimit > 0, past.equity > 0
      PROVE  -100 * past.booked < LossLimit * past.equity
  <2>1. /\ past.equity \in Int /\ past.booked \in Int /\ st.start \in Int
        /\ LossLimit \in Nat
    BY <1>1, PercentAssumption DEF Days, Views
  <2>2. st.start > 0
    BY <1>1, <1>2, <2>1 DEF Opening, Opens, TooPoor
  <2>3. st.realized = past.booked /\ st.start <= past.equity
    BY DEF Opening, Fair
  <2>4. PICK b \in Int : b = -st.realized /\ b = -past.booked
    BY <2>1, <2>3
  <2>5. PICK a \in Int : a = st.start - equity
    BY <1>1, <2>1
  <2>6. PICK m : m = Max({a, b})
    OBVIOUS
  <2>7. \E x \in {a, b} : \A y \in {a, b} : x >= y
    OBVIOUS
  <2>8. m \in Int /\ m >= b
    BY <2>6, <2>7 DEF Max
  <2>9. ~(100 * m >= LossLimit * st.start)
    BY <1>1, <1>2, <2>2, <2>4, <2>5, <2>6 DEF Losing
  <2>10. \A x, y \in Int, l \in Nat : x <= y => l * x <= l * y
    OBVIOUS
  <2>11. LossLimit * st.start <= LossLimit * past.equity
    BY <2>1, <2>3, <2>10
  <2>12. \A x, y \in Int : x >= y => 100 * y <= 100 * x
    OBVIOUS
  <2>13. 100 * b <= 100 * m
    BY <2>8, <2>12
  <2>14. PICK u \in Int, v \in Int :
            u = LossLimit * st.start /\ v = LossLimit * past.equity
    BY <2>1
  <2>15. 100 * b < v
    BY <2>8, <2>9, <2>11, <2>13, <2>14
  <2>16. 100 * b = -100 * past.booked
    BY <2>1, <2>4
  <2> QED BY <2>14, <2>15, <2>16
<1> QED BY <1>2 DEF WithinLimit

\* The entries of a bar book nothing.
LEMMA CycleDay ==
  ASSUME Types, Cycle
  PROVE  /\ SameDay /\ Books /\ At("cycle") /\ past'.booked = past.booked
         /\ run'.at \in {"idle", "cycle"} /\ run'.flat = {}
         /\ run'.letgo = NoSym
<1>1. /\ st \in Days /\ past \in Views /\ run \in Threads
      /\ Ready("cycle") /\ UNCHANGED <<equity, cap>>
  BY DEF Types, Cycle
<1>2. /\ \/ st' = st \/ st' = Counted
         \/ \E h : st' = [st EXCEPT !.halted = h]
      /\ past' = past \/ \E S : past' = [past EXCEPT !.lost = S]
      /\ \/ run' = Idle
         \/ \E t : run' = [run EXCEPT !.todo = t]
         \/ \E t, f : run' = [run EXCEPT !.todo = t, !.free = f]
  <2>1. CASE run' = Idle /\ UNCHANGED <<file, past>>
    BY <2>1 DEF file
  <2>2. ASSUME NEW s \in run.todo, Tries(s)
        PROVE  /\ \/ st' = st \/ st' = Counted
                  \/ \E h : st' = [st EXCEPT !.halted = h]
               /\ past' = past \/ \E S : past' = [past EXCEPT !.lost = S]
               /\ \/ run' = Idle
                  \/ \E t : run' = [run EXCEPT !.todo = t]
                  \/ \E t, f : run' = [run EXCEPT !.todo = t, !.free = f]
    <3>1. CASE PassesOver(s)
      BY <3>1 DEF PassesOver, file
    <3>2. CASE Declines(s)
      BY <3>2 DEF Declines, Tried, file
    <3>3. CASE Places(s)
      BY <3>3 DEF Places, Tried
    <3>4. CASE Refused(s)
      BY <3>4 DEF Refused, Loses, file
    <3>5. CASE Recovers(s)
      <4>1. Tried(s) /\ (past' = past \/ Loses(s))
        BY <3>5 DEF Recovers
      <4>2. st' = st \/ st' = Counted \/ st' = [st EXCEPT !.halted = TRUE]
        BY <3>5, Zenon DEF Recovers
      <4>3. \/ st' = st \/ st' = Counted
            \/ \E h : st' = [st EXCEPT !.halted = h]
        BY <4>2
      <4> QED BY <4>1, <4>3 DEF Tried, Loses
    <3> QED BY <2>2, <3>1, <3>2, <3>3, <3>4, <3>5 DEF Tries
  <2> QED BY <2>1, <2>2 DEF Cycle, Tries
<1>3. /\ st'.start = st.start /\ st'.realized = st.realized
      /\ st'.anchor = st.anchor /\ st'.anchorCap = st.anchorCap
  BY <1>1, <1>2 DEF Counted, Days
<1>4. /\ past'.read = past.read /\ past'.wallet = past.wallet
      /\ past'.equity = past.equity /\ past'.booked = past.booked
  BY <1>1, <1>2 DEF Views
<1>5. /\ run'.at \in {"idle", "cycle"} /\ run'.flat = {}
      /\ run'.letgo = NoSym
  <2>1. run.at = "cycle" /\ run.flat = {} /\ run.letgo = NoSym
    BY <1>1 DEF Ready, At
  <2>2. Idle.flat = {}
    BY DEF Idle
  <2> QED BY <1>1, <1>2, <2>1, <2>2, IdleIs DEF Threads
<1> QED BY <1>1, <1>3, <1>4, <1>5, NothingBooked DEF SameDay, Ready, At

\* A process that ends keeps the file.
LEMMA EndingDay ==
  ASSUME Types, Crash \/ Shutdown
  PROVE  /\ st' = st /\ run'.at = "down" /\ past'.wallet = past.wallet
         /\ past'.read = past.read /\ past'.equity = past.equity
         /\ past'.booked = past.booked /\ equity' = 0
<1>1. PICK S : Forgets(S)
  BY DEF Crash, Shutdown
<1>2. /\ run'.at = "down" /\ st' = st /\ equity' = 0
      /\ past' = [past EXCEPT !.lost = @ \union S]
  BY <1>1, IdleIs DEF Forgets, file, Idle
<1> QED BY <1>2 DEF Types, Views

\* What a step may do to the accounts of the day.
LEMMA DaySteps ==
  ASSUME Types, Opening, [Next]_vars
  PROVE  \/ SameDay /\ Books
         \/ Crash \/ Shutdown \/ Periodic \/ Restart
<1>1. CASE UNCHANGED vars
  <2>1. UNCHANGED <<st, equity, cap, run, past>>
    BY <1>1 DEF vars
  <2> QED BY <2>1, NothingBooked DEF SameDay, At
<1>2. CASE Next
  BY <1>2, QuietDay, ClosingDay, LetGoDay, ReconcileDay, DecideDay, CycleDay
  DEF Next
<1> QED BY <1>1, <1>2

\* The accounts of the day stay fair.
LEMMA NextOpening == Types /\ Opening /\ [Next]_vars => Opening'
<1> SUFFICES ASSUME Types, Opening, [Next]_vars PROVE Opening'
  OBVIOUS
<1>1. CASE SameDay /\ Books
  BY <1>1, SameDayKeeps
<1>2. CASE Crash \/ Shutdown
  BY <1>2, EndingDay DEF Opening, Fair, Basis, Opens, At
<1>3. CASE Periodic \/ Restart
  <2>1. Sound(st', past', equity')
    BY <1>3, PeriodicIsSound, RestartIsSound
  <2> QED BY <2>1 DEF Sound, Opening, Fair, Basis, Opens
<1> QED BY <1>1, <1>2, <1>3, DaySteps

\* Every step keeps the invariant of the day.
LEMMA NextDay ==
  ASSUME TracksPnl => Floor > 0
  PROVE  DeskInv /\ DayInv /\ [Next]_vars => DayInv'
<1> SUFFICES ASSUME DeskInv, DayInv, [Next]_vars PROVE DayInv'
  OBVIOUS
<1>1. Types /\ Opening /\ Inside
  BY DEF DeskInv, DayInv
<1>2. Opening'
  BY <1>1, NextOpening
<1> SUFFICES Inside'
  BY <1>2 DEF DayInv
<1>3. CASE UNCHANGED vars
  BY <1>1, <1>3 DEF vars, Inside, WithinLimit, At
<1>4. CASE \/ Elapse \/ GateHalts \/ Resume
           \/ \E s \in Symbols : Fills(s) \/ Ends(s)
  BY <1>1, <1>4, QuietDay DEF Inside, WithinLimit, At
<1>5. CASE CloseAll \/ LetGo \/ \E s \in Symbols : Closes(s)
  <2>1. /\ run'.at = run.at
        /\ run.flat # {} \/ run.letgo # NoSym \/ At("idle")
    BY <1>1, <1>5, ClosingDay, LetGoDay
  <2> QED BY <1>1, <2>1 DEF Inside, At
<1>6. CASE Reconcile \/ Crash \/ Shutdown \/ Periodic \/ Restart
  <2>1. run'.at # "cycle"
    BY <1>1, <1>6, ReconcileDay, EndingDay, PeriodicIsSound, RestartIsSound
  <2> QED BY <2>1 DEF Inside, At
<1>7. CASE Decide
  BY <1>1, <1>7, DecideDay, DecideInside DEF Inside, WithinLimit, At
<1>8. CASE Cycle
  BY <1>1, <1>8, CycleDay DEF Inside, WithinLimit, SameDay, At
<1> QED BY <1>3, <1>4, <1>5, <1>6, <1>7, <1>8 DEF Next

\* The opening of the day and what was booked on it stay honest, whatever is
\* capped, re-based or restarted.
THEOREM DayInvariant ==
  ASSUME TracksPnl => Floor > 0
  PROVE  Spec => []DayInv
<1>1. DeskInv /\ DayInv /\ [Next]_vars => DayInv'
  BY NextDay
<1> QED BY <1>1, InitDay, DeskInvariant, PTL DEF Spec

\* A cycle of entries starts only on a day whose booked losses are inside the
\* limit, for any caps, limits, symbols and faults.
THEOREM LossesStopTheDay ==
  ASSUME TracksPnl => Floor > 0
  PROVE  Spec => LossStopsTheDay
<1>1. DeskInv /\ DayInv /\ [Next]_vars =>
        [ run'.at = "cycle" /\ LossLimit > 0 /\ past.equity > 0
            => -100 * past.booked < LossLimit * past.equity ]_vars
  <2> SUFFICES ASSUME DeskInv, DayInv, Next, run'.at = "cycle",
                      LossLimit > 0, past.equity > 0
               PROVE  -100 * past.booked < LossLimit * past.equity
    OBVIOUS
  <2>1. DayInv' /\ Types /\ Opening
    BY NextDay DEF DeskInv, DayInv
  <2>2. -100 * past'.booked < LossLimit * past'.equity
        \/ ~(past'.equity > 0)
    BY <2>1 DEF DayInv, Inside, WithinLimit, At
  <2>3. past'.booked = past.booked /\ past'.equity = past.equity
    <3>1. CASE At("cycle")
      <4>1. run.flat = {} /\ run.letgo = NoSym
        BY <3>1 DEF DayInv, Inside
      <4>2. /\ ~CloseAll /\ ~LetGo /\ ~Periodic /\ ~Reconcile /\ ~Decide
            /\ ~Restart /\ \A s \in Symbols : ~Closes(s)
        BY <3>1, <4>1 DEF CloseAll, LetGo, Periodic, Reconcile, Decide,
           Preflight, Restart, Closes, Ready, At
      <4>3. CASE Cycle
        <5>1. past' = past \/ \E S : past' = [past EXCEPT !.lost = S]
          BY <4>3 DEF Cycle, PassesOver, Declines, Places, Refused, Recovers,
             Loses
        <5> QED BY <2>1, <5>1 DEF Types, Views
      <4>4. CASE Crash \/ Shutdown
        BY <4>4, IdleIs DEF Crash, Shutdown, Forgets, Idle
      <4>5. CASE \/ Elapse \/ GateHalts \/ Resume
                 \/ \E s \in Symbols : Fills(s) \/ Ends(s)
        BY <4>5 DEF Elapse, GateHalts, Resume, Fills, Ends
      <4> QED BY <4>2, <4>3, <4>4, <4>5 DEF Next
    <3>2. CASE ~At("cycle")
      <4>1. CASE Decide
        BY <4>1 DEF Decide
      <4>2. CASE Periodic \/ Restart
        BY <2>1, <4>2, PeriodicIsSound, RestartIsSound
      <4>3. CASE CloseAll \/ \E s \in Symbols : Closes(s)
        <5>1. run'.at = run.at
          BY <2>1, <4>3 DEF CloseAll, Closes, Types, Threads
        <5> QED BY <3>2, <5>1 DEF At
      <4>4. CASE LetGo
        BY <2>1, <3>2, <4>4 DEF LetGo, Types, Threads, At
      <4>5. CASE Reconcile
        <5>1. \/ run' = Idle
              \/ \E t : run' = [run EXCEPT !.todo = t]
              \/ \E t, l : run' = [run EXCEPT !.todo = t, !.letgo = l]
              \/ \E t, f, l : run' = [run EXCEPT !.todo = t, !.flat = f,
                                                 !.letgo = l]
          BY <4>5, ReconcileRuns
        <5> QED BY <2>1, <3>2, <5>1, IdleIs DEF Types, Threads, At
      <4>6. CASE Crash \/ Shutdown
        BY <4>6, IdleIs DEF Crash, Shutdown, Forgets, Idle
      <4>7. CASE \/ Elapse \/ GateHalts \/ Resume
                 \/ \E s \in Symbols : Fills(s) \/ Ends(s)
        BY <4>7 DEF Elapse, GateHalts, Resume, Fills, Ends
      <4>8. ~Cycle
        BY <3>2 DEF Cycle, Ready
      <4> QED BY <4>1, <4>2, <4>3, <4>4, <4>5, <4>6, <4>7, <4>8 DEF Next
    <3> QED BY <3>1, <3>2
  <2> QED BY <2>2, <2>3
<1> QED BY <1>1, DayInvariant, DeskInvariant, PTL DEF Spec, LossStopsTheDay

-------------------------------------------------------------------------------
(* The halt.  A cap that tracks the profit is anchored where it was first  *)
(* seen.  As long as it is one and the same cap, the anchor stands while   *)
(* the day has an opening, and opening and equity are the same function of *)
(* the wallet, then and now (Steady); that function grows with the wallet. *)

Steady(c) ==
  /\ st.start > 0 =>
       /\ c > 0 => st.anchor # 0 /\ st.anchorCap = c
       /\ st.start <= Effective(st, past.wallet, c)
  /\ ~At("down") =>
       /\ cap = c
       /\ st.start > 0 => equity = Effective(st, past.read, c)

\* The equity depends on the anchor only, and grows with what is there.
LEMMA EffectiveOf ==
  ASSUME NEW s, NEW t, s.anchor = t.anchor, NEW a, NEW c
  PROVE  Effective(s, a, c) = Effective(t, a, c)
BY DEF Effective

LEMMA EffectiveTracks ==
  ASSUME NEW s \in Days, NEW a \in Int, NEW c \in Nat \ {0}, TracksPnl
  PROVE  \E b \in Int :
           /\ b = c + a - s.anchor
           /\ Effective(s, a, c) = IF a <= b THEN (IF a <= 0 THEN 0 ELSE a)
                                   ELSE (IF b <= 0 THEN 0 ELSE b)
<1>1. PICK b \in Int : b = c + a - s.anchor
  BY DEF Days
<1>2. Min({a, b}) \in {a, b} /\ Min({a, b}) <= a /\ Min({a, b}) <= b
  BY <1>1, MinOfTwo
<1>3. PICK m \in Int : m = Min({a, b})
  BY <1>2
<1>4. \E x \in {0, m} : \A y \in {0, m} : x >= y
  OBVIOUS
<1>5. PICK x : x = Max({0, m})
  OBVIOUS
<1>6. x \in {0, m} /\ x >= 0 /\ x >= m
  BY <1>4, <1>5 DEF Max
<1>7. Effective(s, a, c) = x
  BY <1>1, <1>3, <1>5 DEF Effective
<1> QED BY <1>1, <1>2, <1>3, <1>6, <1>7

LEMMA EffectiveGrows ==
  ASSUME NEW s \in Days, NEW a \in Int, NEW b \in Int, NEW c \in Nat,
         a <= b, TracksPnl
  PROVE  Effective(s, a, c) <= Effective(s, b, c)
<1>1. CASE c = 0
  BY <1>1 DEF Effective
<1>2. CASE c # 0
  <2>1. s.anchor \in Int
    BY DEF Days
  <2> QED BY <1>2, <2>1, EffectiveTracks
<1> QED BY <1>1, <1>2

\* An anchor that was set for this cap stands; one that is set now is where
\* the wallet is.
LEMMA AnchorIs ==
  ASSUME NEW s \in Days, NEW a \in Int, NEW c \in Nat, TracksPnl, c > 0,
         NEW t, t = Anchored(s, a, c)
  PROVE  /\ t.anchorCap = c
         /\ s.anchor # 0 /\ s.anchorCap = c => t.anchor = s.anchor
         /\ t.anchor = 0 => a = 0
<1>1. CASE s.anchor = 0 \/ s.anchorCap # c
  <2>1. t = [s EXCEPT !.anchor = a, !.anchorCap = c]
    BY <1>1 DEF Anchored
  <2> QED BY <1>1, <2>1 DEF Days
<1>2. CASE ~(s.anchor = 0 \/ s.anchorCap # c)
  BY <1>2 DEF Anchored
<1> QED BY <1>1, <1>2

\* Reading the equity with the same cap.
LEMMA ReadingSteady ==
  ASSUME NEW c \in Nat, Types, Types', Steady(c), TracksPnl, ReadsWith(c)
  PROVE  Steady(c)'
<1>1. PICK s : s = Anchored(st, wallet, c)
  OBVIOUS
<1>2. /\ equity' = Effective(s, wallet, c) /\ cap' = c
      /\ st'.anchor = s.anchor /\ st'.anchorCap = s.anchorCap
      /\ past'.read = wallet
      /\ \/ past'.wallet = wallet /\ st'.start <= equity'
         \/ past'.wallet = past.wallet /\ st'.start <= st.start
  BY <1>1 DEF ReadsWith
<1>3. /\ st \in Days /\ st' \in Days /\ past \in Views /\ wallet \in Int
      /\ s \in Days /\ equity' \in Int
  BY <1>1, AnchoredIs DEF Types
<1>4. /\ st.start \in Int /\ st'.start \in Int /\ past.wallet \in Int
      /\ Effective(st, past.wallet, c) \in Int
  BY <1>3, EffectiveTypes DEF Days, Views
<1>5. \A a : Effective(s, a, c) = Effective(st', a, c)
  BY <1>2, EffectiveOf
<1>6. ASSUME st.start > 0
      PROVE  s.anchor = st.anchor /\ (c > 0 => s.anchor # 0)
  <2>1. CASE c = 0
    BY <1>1, <2>1 DEF Anchored
  <2>2. CASE c > 0
    BY <1>1, <1>3, <1>6, <2>2, AnchorIs DEF Steady
  <2> QED BY <2>1, <2>2
<1>7. ASSUME st'.start > 0, past'.wallet = wallet, st'.start <= equity'
      PROVE  c > 0 => s.anchor # 0
  <2> SUFFICES ASSUME c > 0, s.anchor = 0 PROVE FALSE
    OBVIOUS
  <2>1. wallet = 0
    BY <1>1, <1>3, AnchorIs
  <2>2. Effective(s, wallet, c) = 0
    BY <1>3, <2>1, EffectiveTracks
  <2> QED BY <1>2, <1>4, <1>7, <2>2
<1>8. ASSUME st'.start > 0
      PROVE  /\ c > 0 => s.anchor # 0 /\ s.anchorCap = c
             /\ st'.start <= Effective(st', past'.wallet, c)
  <2>1. c > 0 => s.anchorCap = c
    BY <1>1, <1>3, AnchorIs
  <2>2. CASE past'.wallet = wallet /\ st'.start <= equity'
    BY <1>2, <1>5, <1>7, <1>8, <2>1, <2>2
  <2>3. CASE past'.wallet = past.wallet /\ st'.start <= st.start
    <3>1. st.start > 0
      BY <1>4, <1>8, <2>3
    <3>2. Effective(st, past.wallet, c) = Effective(st', past.wallet, c)
      BY <1>2, <1>6, <3>1, EffectiveOf
    <3>3. st.start <= Effective(st, past.wallet, c)
      BY <3>1 DEF Steady
    <3> QED BY <1>4, <1>6, <2>1, <2>3, <3>1, <3>2, <3>3
  <2> QED BY <1>2, <2>2, <2>3
<1>9. equity' = Effective(st', past'.read, c)
  BY <1>2, <1>5
<1> QED BY <1>2, <1>8, <1>9 DEF Steady

\* Nothing else moves the anchor, the opening or the equity.
LEMMA NextSteady ==
  ASSUME NEW c, Caps = {c}, TracksPnl
  PROVE  Types /\ Types' /\ Opening /\ Steady(c) /\ [Next]_vars
           => Steady(c)'
<1> SUFFICES ASSUME Types, Types', Opening, Steady(c), [Next]_vars
             PROVE  Steady(c)'
  OBVIOUS
<1>0. c \in Nat
  BY MoneyAssumption
<1>1. CASE SameDay
  <2>1. \A a : Effective(st, a, c) = Effective(st', a, c)
    BY <1>1, EffectiveOf DEF SameDay
  <2> QED BY <1>1, <2>1 DEF SameDay, Steady, At
<1>2. CASE Crash \/ Shutdown
  BY <1>2, EndingDay DEF Steady, At
<1>3. CASE Periodic
  <2>1. ~At("down") /\ ReadsWith(cap)
    BY <1>3, PeriodicIsSound
  <2>2. cap = c
    BY <2>1 DEF Steady
  <2> QED BY <1>0, <2>1, <2>2, ReadingSteady
<1>4. CASE Restart
  <2>1. ReadsWith(c)
    BY <1>4, RestartIsSound
  <2> QED BY <1>0, <2>1, ReadingSteady
<1> QED BY <1>1, <1>2, <1>3, <1>4, DaySteps

\* An opening above the equity is a wallet that has fallen.
LEMMA OpeningFallen ==
  ASSUME Types, Opening, ~At("down"), st.start > 0, st.start > equity,
         TracksPnl => \E c \in Caps : Steady(c)
  PROVE  past.read < past.wallet
<1>1. CASE ~TracksPnl
  BY <1>1 DEF Opening, Basis
<1>2. CASE TracksPnl
  <2>1. PICK c \in Caps : Steady(c)
    BY <1>2
  <2>2. /\ st \in Days /\ past.read \in Int /\ past.wallet \in Int
        /\ c \in Nat /\ st.start \in Int
    BY MoneyAssumption DEF Types, Days, Views
  <2>3. /\ Effective(st, past.read, c) \in Int
        /\ Effective(st, past.wallet, c) \in Int
    BY <2>2, EffectiveTypes
  <2>4. Effective(st, past.read, c) < Effective(st, past.wallet, c)
    BY <2>1, <2>2, <2>3 DEF Steady
  <2>5. past.wallet <= past.read =>
          Effective(st, past.wallet, c) <= Effective(st, past.read, c)
    BY <1>2, <2>2, EffectiveGrows
  <2> QED BY <2>2, <2>3, <2>4, <2>5
<1> QED BY <1>1, <1>2

\* A tracking cap that is never another stays anchored while the day is open.
LEMMA SteadyInvariant ==
  ASSUME TracksPnl, NEW c, Caps = {c}
  PROVE  Spec => [](Types /\ Opening /\ Steady(c))
<1>1. Init => Opening /\ Steady(c)
  BY InitDay DEF Init, DayInv, Steady, Idle, At
<1>2. Types /\ Types' /\ Opening /\ Steady(c) /\ [Next]_vars
        => Opening' /\ Steady(c)'
  BY NextSteady, NextOpening
<1>3. DeskInv => Types
  BY DEF DeskInv
<1> QED BY <1>1, <1>2, <1>3, DeskInvariant, PTL DEF Spec

\* The daily limit halts the bot only on a day that lost something, whatever
\* caps are set and lifted when they do not track the profit, and under any
\* one cap that does.
THEOREM NoHaltWithoutLoss ==
  ASSUME TracksPnl => \E c : Caps = {c}
  PROVE  Spec => NoPhantomHalt
<1> DEFINE Stands == TracksPnl => \E c \in Caps : Steady(c)
<1>1. Types /\ Opening /\ Stands /\ [Next]_vars =>
        [ ~st.halted /\ st'.halted /\ At("idle") /\ ~TooPoor
            => past.booked < 0 \/ past.read < past.wallet ]_vars
  <2> SUFFICES ASSUME Types, Opening, Stands, Next, ~st.halted, st'.halted,
                      At("idle"), ~TooPoor
               PROVE  past.booked < 0 \/ past.read < past.wallet
    OBVIOUS
  <2>2. GateHalts
    <3>1. ~Reconcile /\ ~Cycle /\ ~Restart /\ ~Resume
      BY DEF Reconcile, Cycle, Restart, Resume, Ready, At
    <3>2. ~Elapse /\ \A s \in Symbols : ~Fills(s) /\ ~Ends(s)
      BY DEF Elapse, Fills, Ends, file
    <3>3. /\ ~LetGo /\ ~CloseAll /\ ~Decide /\ ~Crash /\ ~Shutdown
          /\ ~\E s \in Symbols : Closes(s)
      BY LetGoDay, ClosingDay, DecideDay, EndingDay
    <3>4. ~Periodic
      BY PeriodicIsSound DEF Sound
    <3> QED BY <3>1, <3>2, <3>3, <3>4 DEF Next
  <2>3. Losing
    BY <2>2 DEF GateHalts
  <2>4. /\ st.start \in Int /\ st.realized \in Int /\ equity \in Int
        /\ LossLimit \in Nat
    BY PercentAssumption DEF Types, Days
  <2>5. PICK a \in Int, b \in Int : a = st.start - equity /\ b = -st.realized
    BY <2>4
  <2>6. /\ LossLimit > 0 /\ st.start > 0
        /\ 100 * Max({a, b}) >= LossLimit * st.start
    BY <2>3, <2>5 DEF Losing
  <2>7. \E x \in {a, b} : \A y \in {a, b} : x >= y
    OBVIOUS
  <2>8. Max({a, b}) \in {a, b}
    BY <2>7 DEF Max
  <2>9. \A l \in Nat, x \in Int : l > 0 /\ x > 0 => l * x > 0
    OBVIOUS
  <2>10. LossLimit * st.start > 0 /\ LossLimit * st.start \in Int
    BY <2>4, <2>6, <2>9
  <2>11. a > 0 \/ b > 0
    BY <2>6, <2>8, <2>10
  <2>12. CASE a > 0
    <3>1. st.start > equity
      BY <2>4, <2>5, <2>12
    <3> QED BY <2>6, <3>1, OpeningFallen DEF At
  <2>13. CASE b > 0
    BY <2>4, <2>5, <2>13 DEF Opening, Fair
  <2> QED BY <2>11, <2>12, <2>13
<1>2. Spec => [](Types /\ Opening /\ Stands)
  <2>1. CASE TracksPnl
    <3>1. PICK c : Caps = {c}
      BY <2>1
    <3>2. Spec => [](Types /\ Opening /\ Steady(c))
      BY <2>1, <3>1, SteadyInvariant
    <3>3. Types /\ Opening /\ Steady(c) => Types /\ Opening /\ Stands
      BY <3>1
    <3> QED BY <3>2, <3>3, PTL
  <2>2. CASE ~TracksPnl
    <3>1. Init => Opening
      BY InitDay DEF DayInv
    <3>2. DeskInv => Types
      BY DEF DeskInv
    <3>3. Stands
      BY <2>2
    <3> QED BY <3>1, <3>2, <3>3, NextOpening, DeskInvariant, PTL DEF Spec
  <2> QED BY <2>1, <2>2
<1> QED BY <1>1, <1>2, PTL DEF Spec, NoPhantomHalt
===============================================================================
