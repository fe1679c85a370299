-------------------------------- MODULE Levels --------------------------------
(***************************************************************************)
(* The stop and the take-profit of one open position as they move: the     *)
(* five exit rules of bot/supervise.py, the rebuilding of missing orders   *)
(* in bot/protect.py, and the calls of bot/engine.py that carry both out,  *)
(* while the market moves between those calls, orders are refused or their *)
(* replies lost, and the process restarts and adopts what it finds.        *)
(* Prices are ticks.  A quantity is counted in halves of the position.     *)
(***************************************************************************)
EXTENDS Integers, FiniteSetsExt

CONSTANTS
  Low, High,     \* bounds on the market
  Entry,         \* the entry of a long; a short is its mirror image
  Risk,          \* from the entry to the first stop
  Goal,          \* from the entry to the first take-profit
  Cost,          \* supervise.cost_buffer_pct
  MinMove,       \* MIN_STOP_MOVE_PCT
  Rules,         \* the rules of supervise.* that are enabled
  Exits,         \* horizon.cut_losers, bank_turning_profit and harvest
  Skips,         \* the exits patience.* makes stand aside
  Splits,        \* may the account place both halves of a split position
  Atr,           \* the mean true range, when it is known
  RunnerAt,      \* runner.at_target_frac, as ticks from the entry
  RunnerTrail,   \* runner.trail_atr_mult
  HarvestTrail,  \* horizon.harvest_trail_atr_mult
  Bars,          \* the horizon, in bars
  Step, StopLag, TargetFrom, TargetLead,             \* ladder.*
  StopMult, TargetMult, ChoppyMult, Fallback, Gap,   \* protect.*
  AdoptedBreakeven,                                  \* ADOPTED_BREAKEVEN_PCT
  MaxFaults      \* bound on refused and lost calls, crashes, lost orders

ASSUME PriceAssumption ==
  /\ {Low, High, Goal, Cost, AdoptedBreakeven} \subseteq Nat
  /\ Low > 0 /\ Entry \in Low .. High /\ Risk < Entry
  /\ {Risk, Atr, MinMove} \subseteq Nat \ {0} /\ MaxFaults \in Nat
\* What the configuration may hold.
Switches ==
  /\ Rules \subseteq {"breakeven", "runner", "horizon", "failed_breakout",
                      "ladder", "patience"}
  /\ Splits \in BOOLEAN
RunnerSettings == {RunnerAt, RunnerTrail} \subseteq Nat
HorizonSettings ==
  /\ {Bars, HarvestTrail} \subseteq Nat
  /\ Exits \subseteq {"cut", "bank", "harvest"}
PatienceSettings == Skips \subseteq Exits \union {"failed"}
LadderSettings ==
  Step \in Nat \ {0} /\ {StopLag, TargetFrom, TargetLead} \subseteq Nat
ProtectSettings ==
  /\ {TargetMult, ChoppyMult, Fallback, Gap} \subseteq Nat
  /\ StopMult \in Nat \ {0}
\* No price of an order is None: these distances are short of any price.
ASSUME DistanceAssumption ==
  \A d \in {Cost, Goal, Gap, Bars, Fallback, TargetLead * Step,
            RunnerTrail * Atr, HarvestTrail * Atr}
            \union {m * Atr : m \in {StopMult, TargetMult, ChoppyMult}}
            \union {(Fallback * m) \div StopMult :
                     m \in {TargetMult, ChoppyMult}} : d < Low
ASSUME SettingsAssumption ==
  /\ Switches /\ RunnerSettings /\ HorizonSettings /\ PatienceSettings
  /\ LadderSettings /\ ProtectSettings

VARIABLES
  side,    \* 1 for a long, -1 for a short
  mark,    \* the market
  qty,     \* what the exchange holds: 2, 1 or 0 halves
  stops,   \* the levels of the stops on the exchange
  tps,     \* its take-profits: where, and how much
  pos,     \* the ActivePosition of the book, or Forgotten
  run,     \* what the thread is at, and the plan it carries out
  faults,
  past     \* history: the price the position was left at, whether its stops
           \* were taken away, whether a move failed or the book was lost

exchange == <<mark, qty, stops, tps>>
vars     == <<side, mark, qty, stops, tps, pos, run, faults, past>>

None == 0                                     \* no level
Open == qty > 0
NoTp == [at |-> None, qty |-> 0]

At(p)   == run.at = p
NoPlan  == [stop |-> None, tp |-> NoTp, split |-> FALSE, leave |-> FALSE,
            watch |-> FALSE, risk |-> 0]
Idle    == [at |-> "idle", plan |-> NoPlan]
Goto(p) == run' = [run EXCEPT !.at = p]
\* (Slip: the plan of the last tick is kept.)
DoneSlip == Goto("idle")
Done    == run' = Idle
Carry(plan) ==
  run' = IF plan = NoPlan THEN Idle
         ELSE [at |-> IF plan.leave THEN "leave" ELSE "stop", plan |-> plan]
Ok      == UNCHANGED faults
Fault   == faults < MaxFaults /\ faults' = faults + 1
Missed  == past' = [past EXCEPT !.missed = TRUE]

EntryOf  == IF side = 1 THEN Entry ELSE Low + High - Entry
Above(d) == EntryOf + side * d                \* d ticks in favour of the trade
Fav(p)   == side * (p - EntryOf)
\* (Slip: the costs of a short are added as for a long.)
BreakEvenSlip == EntryOf + Cost
BreakEven == Above(Cost)

Forgotten == [stop |-> None]
Tracked   == pos # Forgotten

Opened ==
  [stop |-> Above(-Risk), stopId |-> Above(-Risk),
   tp |-> Above(Goal), tpId |-> [at |-> Above(Goal), qty |-> 2], qty |-> 2,
   peak |-> None, risk |-> Risk, goal |-> Above(Goal), ref |-> Above(1),
   runner |-> FALSE]

Init ==
  /\ side \in {1, -1} /\ mark = EntryOf /\ qty = 2
  /\ stops = {Above(-Risk)} /\ tps = {[at |-> Above(Goal), qty |-> 2]}
  /\ pos = Opened
  /\ run = Idle /\ faults = 0
  /\ past = [left |-> 0, bare |-> FALSE, missed |-> FALSE]

-------------------------------------------------------------------------------
(* The exchange: the market moves a tick, and what it touches triggers. *)

\* What take-profits sell together, of at most two halves.
Sold(paid) ==
  IF paid = {} THEN 0
  ELSE IF \E t, u \in paid : t # u \/ t.qty = 2 THEN 2 ELSE 1

Move(p) ==
  /\ Open /\ p \in Low .. High /\ mark' = p
  /\ LET hit  == {s \in stops : side * (p - s) <= 0}
         paid == {t \in tps : side * (p - t.at) >= 0}
         q    == IF hit # {} THEN 0
                 ELSE Max({0, qty - Sold(paid)})
     IN  /\ qty' = q /\ stops' = stops \ hit /\ tps' = tps \ paid
         /\ past' = IF q > 0 THEN past ELSE [past EXCEPT !.left = Fav(p)]
  /\ UNCHANGED <<side, pos, run, faults>>

\* The user cancels an order.
Vanish ==
  /\ Open /\ Fault
  /\ \/ /\ \E s \in stops : stops' = stops \ {s}
        /\ past' = [past EXCEPT !.bare = TRUE] /\ UNCHANGED tps
     \/ /\ \E t \in tps : tps' = tps \ {t}
        /\ UNCHANGED <<stops, past>>
  /\ UNCHANGED <<side, mark, qty, pos, run>>

\* A trigger the market has passed is refused (-2021).
TakesStop(s) == Open /\ side * (mark - s) > 0
TakesTp(t)   == Open /\ side * (t.at - mark) > 0

-------------------------------------------------------------------------------
(* supervise(): the five rules, on a position p whose peak is up to date and *)
(* a reading r of the chart.                                                 *)

\* _tighter(), _pull_in() and _push_out(): a level only if it is better.
Better(current, level)  == current = None \/ side * (level - current) > 0
Nearer(current, level)  == current = None \/ side * (level - current) < 0
Further(current, level) == current = None \/ side * (level - current) > 0
Tightest(levels) ==
  CHOOSE s \in levels : \A t \in levels : ~Better(s, t)
Floored(level) == IF Better(level, BreakEven) THEN BreakEven ELSE level

InProfit   == Fav(mark) > Cost
Trail(p, d) == p.peak - side * d
\* The peak was 1R ahead; without a known risk supervise() stands down.
Proven(p)  == Fav(p.peak) >= p.risk

\* While the slower chart trends the trade's way, some exits stand aside.
Patient(r)     == "patience" \in Rules /\ r.higher
Takes(exit, r) == ~(exit \in Skips /\ Patient(r))

\* scale_out_qty(): both halves must be worth the exchange minimum.
Half(p) == IF Splits /\ p.qty = 2 THEN 1 ELSE 0

\* Rule 2: the trend is intact near the target.
Arms(p, r) ==
  /\ "runner" \in Rules /\ ~p.runner /\ Half(p) > 0
  /\ p.goal # None /\ Fav(p.peak) >= RunnerAt
  /\ r.atr > 0 /\ r.trend = "strong"
Runs(p, r) == (p.runner \/ Arms(p, r)) /\ r.atr > 0

\* Rule 3: the target is further than the horizon reaches at this pace.
Late(p, r) ==
  LET remaining == side * (p.tp - mark)
  IN  /\ "horizon" \in Rules /\ r.grace /\ r.atr > 0 /\ p.tp # None
      /\ remaining > 0 /\ (r.drift <= 0 \/ remaining > Bars * r.drift)
\* A loser is cut, a winner that turned is banked, a slow one is harvested.
Outcome(r) == IF ~InProfit THEN "cut"
              ELSE IF r.drift <= 0 THEN "bank" ELSE "harvest"
Gives(exit, p, r) ==
  Late(p, r) /\ Outcome(r) = exit /\ exit \in Exits /\ Takes(exit, r)
Pulled(p, r) ==
  LET reachable == mark + side * Bars * r.drift
  IN  IF /\ Gives("harvest", p, r)
         /\ Nearer(p.tp, reachable) /\ Fav(reachable) > Cost
      THEN reachable ELSE None

\* Rule 4: in profit, and back through the level the trade broke.
Failed(p, r) ==
  /\ "failed_breakout" \in Rules /\ Takes("failed", r)
  /\ p.ref # None /\ InProfit /\ side * (mark - p.ref) <= 0

\* Rule 5: steps towards the first target, counted on the peak.
Steps(p)  == Fav(p.peak) \div Step
Climbs(p) == "ladder" \in Rules /\ p.goal # None
Pushed(p, r) ==
  LET level == Above((Steps(p) + TargetLead) * Step)
      pull  == Pulled(p, r)
  IN  IF /\ Climbs(p) /\ TargetFrom > 0 /\ Steps(p) >= TargetFrom
         /\ p.tp # None /\ ~p.runner /\ ~Arms(p, r)
         /\ Further(IF pull # None THEN pull ELSE p.tp, level)
      THEN level ELSE None

\* The levels the rules ask the stop to move to.
When(asked, level) == IF asked THEN {level} ELSE {}
Stops(p, r) ==
  LET trail == Trail(p, RunnerTrail * r.atr)
  IN  UNION {
        When("breakeven" \in Rules /\ Proven(p), BreakEven),
        When(Runs(p, r), IF Proven(p) THEN Floored(trail) ELSE trail),
        When(Gives("harvest", p, r), Floored(Trail(p, HarvestTrail * r.atr))),
        When(Climbs(p) /\ StopLag > 0 /\ Steps(p) >= StopLag,
             Above((Steps(p) - StopLag) * Step))}

\* The tightest of them, if it is tighter than the stop.
NewStop(p, r) ==
  LET asked == Stops(p, r)
  IN  IF asked # {} /\ Better(p.stop, Tightest(asked))
      THEN Tightest(asked) ELSE None
\* A stop the market has passed is refused, so the trade should be over.
Passed(s) == s # None /\ side * (mark - s) <= 0

\* The target moves out to the ladder's level, or else in to the horizon's.
NewTp(p, r) ==
  LET moved == IF Pushed(p, r) # None THEN Pushed(p, r) ELSE Pulled(p, r)
  IN  IF moved = None /\ ~Arms(p, r) THEN NoTp
      ELSE [at |-> IF moved # None THEN moved ELSE p.tp,
            qty |-> IF Arms(p, r) THEN Half(p) ELSE p.qty]

Leaves(p, r) ==
  \/ Gives("cut", p, r) \/ Gives("bank", p, r) \/ Failed(p, r)
  \/ Passed(NewStop(p, r)) /\ InProfit

Supervise(p, r) ==
  LET stop == NewStop(p, r)
  IN  IF p.risk <= 0 THEN NoPlan
      ELSE IF Leaves(p, r) THEN [NoPlan EXCEPT !.leave = TRUE]
      ELSE [NoPlan EXCEPT !.stop = IF Passed(stop) THEN None ELSE stop,
                          !.tp = NewTp(p, r), !.split = Arms(p, r)]

\* What a tick knows of the chart.  An efficiency that is unknown stops rules
\* 2 and 3 just as a weak one inside the grace period does.
Readings ==
  [atr : {0, Atr}, trend : {"weak", "strong"}, drift : {-1, 1},
   grace : BOOLEAN, higher : BOOLEAN]

\* on_tick(): the peak, then the plan.
Tick ==
  /\ At("idle") /\ Tracked /\ Open
  /\ LET seen == IF pos.peak = None THEN EntryOf ELSE pos.peak
         p    == [pos EXCEPT !.peak = IF Better(seen, mark) THEN mark
                                      ELSE seen]
     IN  pos' = p /\ \E r \in Readings : Carry(Supervise(p, r))
  /\ UNCHANGED <<side, exchange, faults, past>>

-------------------------------------------------------------------------------
(* plan_protection(): what ensure_protected() puts back. *)

Rebuilt(p, r) ==
  LET Dist(mult, fallback) ==
        Max({Gap, IF r.atr > 0 THEN mult * r.atr ELSE fallback})
      mult  == IF r.trend = "weak" THEN ChoppyMult ELSE TargetMult
      reach == Dist(mult, (Fallback * mult) \div StopMult)
      over  == stops = {} /\ p.stop # None /\ side * (mark - p.stop) < 0
      stop  == IF p.stop # None /\ side * (mark - p.stop) >= Gap
               THEN p.stop ELSE mark - side * Dist(StopMult, Fallback)
      tp    == IF p.tp # None /\ side * (p.tp - mark) >= Gap
               THEN p.tp ELSE mark + side * reach
  IN  IF over THEN [NoPlan EXCEPT !.leave = TRUE]
      ELSE [NoPlan EXCEPT
              !.watch = TRUE, !.risk = side * (mark - stop),
              !.stop = IF stops = {} THEN stop ELSE None,
              !.tp = IF tps = {} THEN [at |-> tp, qty |-> qty] ELSE NoTp]

Watch ==
  /\ At("idle") /\ Tracked /\ Open /\ (stops = {} \/ tps = {})
  /\ \E r \in Readings :
       LET plan == Rebuilt(pos, r)
       IN  /\ Carry(plan)
           /\ pos' = [pos EXCEPT !.qty = qty,
                        !.stopId = IF plan.stop # None THEN None ELSE @,
                        !.tpId = IF plan.tp # NoTp THEN NoTp ELSE @]
  /\ UNCHANGED <<side, exchange, faults, past>>

-------------------------------------------------------------------------------
(* apply_plan() and replace_protective(): place first, cancel second. *)

Distance(a, b) == IF a > b THEN a - b ELSE b - a
Wanted(s) ==
  s # None /\ (run.plan.watch \/ Distance(s, pos.stop) >= MinMove)

\* (Slip: a refusal is taken for an answer.)
PlaceStopSlip ==
  /\ At("stop") /\ UNCHANGED <<side, mark, qty, tps, pos, past>>
  /\ LET s == run.plan.stop IN
     \/ ~Wanted(s) /\ Goto("tp") /\ Ok /\ UNCHANGED stops
     \/ /\ Wanted(s) /\ Ok /\ Goto("unstop")
        /\ stops' = stops \union (IF TakesStop(s) THEN {s} ELSE {})
PlaceStop ==
  /\ At("stop") /\ UNCHANGED <<side, mark, qty, tps, pos>>
  /\ LET s == run.plan.stop IN
     \/ ~Wanted(s) /\ Goto("tp") /\ Ok /\ UNCHANGED <<stops, past>>
     \/ /\ Wanted(s) /\ TakesStop(s) /\ Ok
        /\ stops' = stops \union {s} /\ Goto("unstop") /\ UNCHANGED past
     \/ /\ Wanted(s) /\ (Fault \/ (~TakesStop(s) /\ Ok))
        /\ UNCHANGED stops /\ Goto("tp") /\ Missed
     \/ /\ Wanted(s) /\ Fault /\ Done /\ Missed          \* the reply is lost
        /\ stops' \in {stops} \union
                      (IF TakesStop(s) THEN {stops \union {s}} ELSE {})

\* (Slip: the book keeps the level the stop was moved from.)
MovedSlip(s) == [pos EXCEPT !.stopId = s]
\* The stop just placed is the risk now carried, if none was known.
Moved(s) ==
  [pos EXCEPT !.stop = s, !.stopId = s,
              !.risk = IF run.plan.watch /\ @ <= 0 THEN run.plan.risk ELSE @]

CancelStop ==
  /\ At("unstop") /\ UNCHANGED <<side, mark, qty, tps>>
  /\ LET without == stops \ ({pos.stopId} \ {run.plan.stop}) IN
     \/ /\ stops' = without /\ Ok
        /\ pos' = Moved(run.plan.stop) /\ Goto("tp") /\ UNCHANGED past
     \/ /\ UNCHANGED stops /\ Fault
        /\ pos' = Moved(run.plan.stop) /\ Goto("tp") /\ UNCHANGED past
     \/ /\ stops' \in {stops, without} /\ Fault
        /\ UNCHANGED pos /\ Done /\ Missed

PlaceTp ==
  /\ At("tp") /\ UNCHANGED <<side, mark, qty, stops, pos, past>>
  /\ LET t == run.plan.tp IN
     \/ t = NoTp /\ Done /\ Ok /\ UNCHANGED tps
     \/ /\ t # NoTp /\ TakesTp(t) /\ Ok
        /\ tps' = tps \union {t} /\ Goto("untp")
     \/ /\ t # NoTp /\ Done /\ (Fault \/ (~TakesTp(t) /\ Ok))
        /\ UNCHANGED tps
     \/ /\ t # NoTp /\ Fault /\ Done /\ TakesTp(t)
        /\ tps' = tps \union {t}

CancelTp ==
  /\ At("untp") /\ Done /\ UNCHANGED <<side, mark, qty, stops, past>>
  /\ LET t == run.plan.tp
         without == tps \ ({pos.tpId} \ {t})
         p == [pos EXCEPT !.tp = t.at, !.tpId = t,
                          !.runner = @ \/ run.plan.split,
                          !.goal = IF @ = None THEN t.at ELSE @]
     IN  \/ tps' = without /\ pos' = p /\ Ok
         \/ UNCHANGED tps /\ pos' = p /\ Fault
         \/ tps' \in {tps, without} /\ UNCHANGED pos /\ Fault

\* close_position(), in one step: module Protection takes it apart.
Leave ==
  /\ At("leave") /\ Done /\ UNCHANGED <<side, mark, pos>>
  /\ \/ Fault /\ UNCHANGED <<qty, stops, tps>> /\ Missed
     \/ /\ Open /\ qty' = 0 /\ past' = [past EXCEPT !.left = Fav(mark)]
        /\ \/ stops' = {} /\ tps' = {} /\ Ok
           \/ UNCHANGED <<stops, tps>> /\ Fault
     \/ ~Open /\ UNCHANGED <<qty, stops, tps, past>> /\ Ok

-------------------------------------------------------------------------------
(* The process. *)

Crash ==
  /\ Tracked /\ Fault /\ Done /\ pos' = Forgotten /\ Missed
  /\ UNCHANGED <<side, exchange>>

\* adopt_row(): the first stop and the first take-profit of the order list.  A
\* stop near the entry is a break-even stop, and the risk unknown.
AdoptedRisk(s) ==
  IF s = None \/ Distance(EntryOf, s) < AdoptedBreakeven THEN 0
  ELSE Distance(EntryOf, s)

Adopt ==
  /\ ~Tracked /\ Open
  /\ \E s \in IF stops = {} THEN {None} ELSE stops,
        t \in IF tps = {} THEN {NoTp} ELSE tps :
       pos' = [stop |-> s, stopId |-> s, tp |-> t.at, tpId |-> t, qty |-> qty,
               peak |-> None, risk |-> AdoptedRisk(s), goal |-> t.at,
               ref |-> None, runner |-> FALSE]
  /\ UNCHANGED <<side, exchange, run, faults, past>>

Next ==
  \/ Move(mark + 1) \/ Move(mark - 1) \/ Vanish
  \/ Tick \/ Watch
  \/ PlaceStop \/ CancelStop \/ PlaceTp \/ CancelTp \/ Leave
  \/ Crash \/ Adopt

Spec == Init /\ [][Next]_vars

-------------------------------------------------------------------------------
(* Properties. *)

TypeOK ==
  /\ side \in {1, -1} /\ mark \in Low .. High /\ qty \in 0 .. 2
  /\ stops \subseteq Nat /\ tps \subseteq [at : Nat, qty : 1 .. 2]
  /\ \/ pos = Forgotten
     \/ pos \in [stop : Nat, stopId : Nat, tp : Nat, qty : 1 .. 2,
                 tpId : [at : Nat, qty : 0 .. 2], peak : Nat, risk : Nat,
                 goal : Nat, ref : Nat, runner : BOOLEAN]
  /\ run.at \in {"idle", "stop", "unstop", "tp", "untp", "leave"}
  /\ At("idle") => run.plan = NoPlan
  /\ faults \in 0 .. MaxFaults

\* The price the exchange sells at.
Floor == IF stops = {} THEN None ELSE Tightest(stops)

\* Once the trade has been 1R ahead it may not lose: from the end of the tick
\* that saw it, unless a call failed, the market had passed the level or the
\* process died, a stop rests at break even, give or take MIN_STOP_MOVE_PCT.
BreakEvenHolds ==
  Open /\ At("idle") /\ Tracked /\ ~past.missed /\ ~past.bare
    /\ "breakeven" \in Rules /\ pos.peak # None /\ Fav(pos.peak) >= Risk
  => Fav(Floor) > Cost - MinMove

\* The exchange has a stop at least as tight as the book says, whatever reply
\* was lost and whatever was adopted.
BookedStopIsLive ==
  Open /\ Tracked /\ ~past.bare /\ pos.stop # None
  => ~Better(Floor, pos.stop)

\* The moving stops implement the ratchet.
Promise == INSTANCE Ratchet WITH
  Start <- -Risk, held <- Open, floor <- Fav(Floor), left <- past.left,
  bare <- past.bare
FloorOnlyRises == Promise!Spec

-------------------------------------------------------------------------------
(* What the repository says of the program and the code does not do.       *)

\* "Part banked at the original target, the remainder left to run on a trail
\* with no ceiling": a split position whose half was sold has no take-profit.
RunnerHasNoCeiling ==
  Tracked /\ pos.runner /\ qty = 1 => tps = {}
===============================================================================
