----------------------------- MODULE LevelsProofs -----------------------------
(***************************************************************************)
(* The moving stops, for every market, every setting of the exit rules and *)
(* any number of failed calls.                                             *)
(*                                                                         *)
(* replace_protective() places first and cancels second, each call may     *)
(* fail, and the book learns of neither.  What makes the floor a ratchet   *)
(* is that the order about to be cancelled is the one the book names       *)
(* (stopId), that the book's stop is no tighter than the order just placed *)
(* (Wiser), and that this order still rests (Placed): so the tightest stop *)
(* is never the one taken away.  The rest says that an open position has a *)
(* stop (Guarded) and that the market has not passed it (Untouched).       *)
(*                                                                         *)
(* Break even rests on that: from the tick that saw 1R the book has its    *)
(* stop there, or the thread carries the level, or it leaves (Secured).    *)
(***************************************************************************)
EXTENDS Levels, WellFoundedInduction, TLAPS

\* What a position in the book, the thread and the history look like.

IsPos(p) ==
  /\ p = [stop |-> p.stop, stopId |-> p.stopId, tp |-> p.tp,
          tpId |-> p.tpId, qty |-> p.qty, peak |-> p.peak, risk |-> p.risk,
          goal |-> p.goal, ref |-> p.ref, runner |-> p.runner]
  /\ p.stop \in Int /\ p.peak \in {None} \union (Low .. High)
  /\ p.stopId \in {p.stop, None}
IsRun(r) ==
  /\ r = [at |-> r.at, plan |-> r.plan]
  /\ r.at \in {"idle", "stop", "unstop", "tp", "untp", "leave"}
  /\ r.plan.stop \in Int
IsPast(h) ==
  /\ h = [left |-> h.left, bare |-> h.bare, missed |-> h.missed]
  /\ h.left \in Int /\ h.bare \in BOOLEAN

Shape ==
  /\ side \in {1, -1} /\ mark \in Low .. High /\ stops \subseteq Int \ {None}
  /\ IsRun(run) /\ IsPast(past)
  /\ pos = Forgotten \/ IsPos(pos)
  /\ ~At("idle") => IsPos(pos)

\* The orders of the position are the engine's alone to move.
Live == Open /\ ~past.bare
Untouched == Open => \A s \in stops : side * (mark - s) > 0
Guarded == Live => stops # {}
Wiser ==
  Live /\ (At("stop") \/ At("unstop")) /\ run.plan.stop # None
    => Better(pos.stop, run.plan.stop)
Placed == Live /\ At("unstop") => run.plan.stop \in stops

LevelInv ==
  /\ Shape /\ Untouched /\ Guarded /\ Wiser /\ Placed /\ BookedStopIsLive

-------------------------------------------------------------------------------
(* The tightest of some levels.                                            *)

Lt == OpToRel(<, Nat)

\* The order of the natural numbers is well-founded.
LEMMA LtWellFounded == IsWellFoundedOn(Lt, Nat)
BY NatLessThanWellFounded DEF Lt

\* What it relates.
LEMMA LtRelates == \A x, y \in Nat : x < y => <<x, y>> \in Lt
BY DEF Lt, OpToRel

\* Levels that the trade's favour bounds have a tightest one.
LEMMA TightestExists ==
  ASSUME side \in {1, -1}, NEW L \in SUBSET Int, L # {}, None \notin L,
         NEW top \in Int, \A s \in L : side * (top - s) >= 0
  PROVE  \E s \in L : \A t \in L : ~Better(s, t)
<1> DEFINE D == {side * (top - s) : s \in L}
<1>1. D \in SUBSET Nat /\ D # {}
  <2>1. ASSUME NEW s \in L PROVE side * (top - s) \in Nat
    BY <2>1
  <2> QED BY <2>1
<1>2. PICK m \in D : \A k \in D : ~(<<k, m>> \in Lt)
  <2> HIDE DEF D
  <2> QED BY <1>1, LtWellFounded, WFMin
<1>3. PICK s \in L : m = side * (top - s)
  BY <1>2
<1>4. ASSUME NEW t \in L PROVE ~Better(s, t)
  <2>1. side * (top - t) \in D
    OBVIOUS
  <2>2. ~(side * (top - t) < side * (top - s))
    <3> HIDE DEF D
    <3> QED BY <1>1, <1>2, <1>3, <2>1, LtRelates
  <2>3. s # None /\ s \in Int /\ t \in Int
    OBVIOUS
  <2> QED BY <2>2, <2>3 DEF Better
<1> QED BY <1>3, <1>4

\* Tightest() finds it.
LEMMA TightestIsOne ==
  ASSUME side \in {1, -1}, NEW L \in SUBSET Int, L # {}, None \notin L,
         NEW top \in Int, \A s \in L : side * (top - s) >= 0
  PROVE  /\ Tightest(L) \in L
         /\ \A t \in L : ~Better(Tightest(L), t)
BY TightestExists DEF Tightest

\* No other level is as tight.
LEMMA TightestIsUnique ==
  ASSUME side \in {1, -1}, NEW L \in SUBSET Int, None \notin L,
         NEW s \in L, \A t \in L : ~Better(s, t)
  PROVE  Tightest(L) = s
<1>1. /\ Tightest(L) \in L
      /\ \A t \in L : ~Better(Tightest(L), t)
  BY DEF Tightest
<1>2. PICK b \in L : b = Tightest(L) /\ \A t \in L : ~Better(b, t)
  BY <1>1
<1>3. ~Better(b, s) /\ ~Better(s, b)
  BY <1>2
<1> QED BY <1>2, <1>3 DEF Better

\* The floor of an open position is a stop, and the tightest.
LEMMA FloorIsStop ==
  ASSUME Shape, Untouched, Open, stops # {}
  PROVE  /\ Floor \in stops /\ Floor = Tightest(stops)
         /\ \A t \in stops : ~Better(Floor, t)
<1>1. stops \in SUBSET Int /\ None \notin stops
  BY DEF Shape
<1>2. mark \in Int /\ side \in {1, -1}
  BY PriceAssumption DEF Shape
<1>3. \A s \in stops : side * (mark - s) >= 0
  BY <1>1, <1>2 DEF Untouched
<1> QED BY <1>1, <1>2, <1>3, TightestIsOne DEF Floor

-------------------------------------------------------------------------------
(* The levels the rules ask for.                                           *)

\* Whole steps do not reach further than what they are counted in.
LEMMA StepsFit ==
  ASSUME NEW a \in Int
  PROVE  a \div Step \in Int /\ (a \div Step) * Step <= a
BY SettingsAssumption DEF LadderSettings

\* The distances orders are placed at, one by one.
LEMMA DistanceFacts ==
  /\ Cost < Low /\ Goal < Low /\ Gap < Low /\ Bars < Low /\ Fallback < Low
  /\ RunnerTrail * Atr < Low /\ HarvestTrail * Atr < Low
  /\ TargetLead * Step < Low
  /\ StopMult * Atr < Low /\ TargetMult * Atr < Low /\ ChoppyMult * Atr < Low
  /\ (Fallback * TargetMult) \div StopMult < Low
  /\ (Fallback * ChoppyMult) \div StopMult < Low
BY DistanceAssumption, Zenon

\* A level asked for is a price, and not beyond the market's highest.
AskedRange == 1 .. High + Low + Cost

LEMMA AskedInRange ==
  ASSUME Shape, NEW p, IsPos(p), p.peak \in Low .. High, NEW r \in Readings
  PROVE  Stops(p, r) \subseteq AskedRange
<1>0. /\ side \in {1, -1} /\ p.peak \in Low .. High
      /\ Low \in Nat /\ High \in Nat /\ Cost \in Nat /\ Low > 0
      /\ Entry \in Low .. High /\ Cost < Low
  BY PriceAssumption, DistanceFacts DEF Shape
<1>1. EntryOf \in Low .. High
  BY <1>0 DEF EntryOf
<1>2. BreakEven \in AskedRange
  BY <1>0, <1>1 DEF BreakEven, Above, AskedRange
<1>3. ASSUME NEW d \in Nat, d < Low
      PROVE  Trail(p, d) \in AskedRange /\ Floored(Trail(p, d)) \in AskedRange
  <2>1. Trail(p, d) \in AskedRange
    BY <1>0, <1>3 DEF Trail, AskedRange
  <2> QED BY <2>1, <1>2 DEF Floored
<1>4. ASSUME NEW m \in {RunnerTrail, HarvestTrail}
      PROVE  m * r.atr \in Nat /\ m * r.atr < Low
  <2>1. r.atr = 0 \/ r.atr = Atr
    BY DEF Readings
  <2>2. m \in Nat /\ Atr \in Nat /\ m * Atr < Low
    BY PriceAssumption, SettingsAssumption, DistanceFacts
    DEF RunnerSettings, HorizonSettings
  <2> QED BY <1>0, <2>1, <2>2
<1>5. ASSUME StopLag > 0, Steps(p) >= StopLag
      PROVE  Above((Steps(p) - StopLag) * Step) \in AskedRange
  <2>1. Fav(p.peak) \in Int /\ Step \in Nat /\ StopLag \in Nat
    BY <1>0, <1>1, SettingsAssumption DEF Fav, LadderSettings
  <2>2. Steps(p) \in Int /\ Steps(p) * Step <= Fav(p.peak)
    BY <2>1, StepsFit DEF Steps
  <2> DEFINE k == Steps(p) - StopLag
             d == k * Step
  <2>3. k \in Nat /\ k <= Steps(p)
    BY <1>5, <2>1, <2>2
  <2>4. d \in Nat /\ d <= Steps(p) * Step
    <3> HIDE DEF k
    <3>1. PICK n \in Nat : Steps(p) = k + n
      <4> USE DEF k
      <4> QED BY <2>1, <2>2
    <3>2. Steps(p) * Step = k * Step + n * Step
      BY <3>1, <2>1, <2>3
    <3>3. n * Step \in Nat /\ k * Step \in Nat
      BY <3>1, <2>1, <2>3
    <3> QED BY <3>2, <3>3
  <2> HIDE DEF d
  <2>5. d \in Nat /\ d <= Fav(p.peak)
    BY <2>1, <2>2, <2>4
  <2>6. Above(d) \in AskedRange
    BY <2>5, <1>0, <1>1 DEF Above, Fav, AskedRange
  <2> QED BY <2>6 DEF d
<1> HIDE DEF AskedRange
<1>6. ASSUME NEW s \in Stops(p, r) PROVE s \in AskedRange
  <2> DEFINE trail == Trail(p, RunnerTrail * r.atr)
  <2>1. \/ s = BreakEven \/ s = trail \/ s = Floored(trail)
        \/ s = Floored(Trail(p, HarvestTrail * r.atr))
        \/ /\ StopLag > 0 /\ Steps(p) >= StopLag
           /\ s = Above((Steps(p) - StopLag) * Step)
    <3> HIDE DEF trail
    <3> QED BY <1>6 DEF Stops, When, trail
  <2>2. /\ trail \in AskedRange /\ Floored(trail) \in AskedRange
        /\ Floored(Trail(p, HarvestTrail * r.atr)) \in AskedRange
    BY <1>3, <1>4
  <2> HIDE DEF trail
  <2> QED BY <2>1, <2>2, <1>2, <1>5
<1> QED BY <1>6

\* The stop a tick plans is a price, tighter than the stop of the book.
LEMMA NewStopTightens ==
  ASSUME Shape, NEW p, IsPos(p), p.peak \in Low .. High, NEW r \in Readings
  PROVE  /\ NewStop(p, r) \in Int
         /\ NewStop(p, r) # None => Better(p.stop, NewStop(p, r))
<1> DEFINE asked == Stops(p, r)
<1>1. CASE asked = {}
  BY <1>1 DEF NewStop, None
<1>2. CASE asked # {}
  <2>1. asked \in SUBSET Int /\ None \notin asked
    BY AskedInRange, PriceAssumption DEF AskedRange, None
  <2>2. side \in {1, -1}
    BY DEF Shape
  <2> DEFINE top == IF side = 1 THEN High + Low + Cost ELSE 0
  <2>3. top \in Int /\ \A s \in asked : side * (top - s) >= 0
    BY <2>2, AskedInRange, PriceAssumption DEF AskedRange
  <2> HIDE DEF asked, top
  <2>4. Tightest(asked) \in asked
    BY <1>2, <2>1, <2>2, <2>3, TightestIsOne
  <2> USE DEF asked
  <2> QED BY <2>1, <2>4 DEF NewStop, None
<1> QED BY <1>1, <1>2

-------------------------------------------------------------------------------
(* The parts of the invariant, step by step.                               *)

\* Facts of the shape that every step uses.
LEMMA Shapes ==
  ASSUME Shape
  PROVE  /\ side \in {1, -1} /\ mark \in Int /\ Low \in Nat /\ High \in Nat
         /\ stops \subseteq Int \ {None} /\ EntryOf \in Int
BY PriceAssumption DEF Shape, EntryOf

\* Forgetting is no position.
LEMMA ForgottenIsNoPos == ~IsPos(Forgotten)
<1> SUFFICES ASSUME IsPos(Forgotten) PROVE FALSE
  OBVIOUS
<1>1. DOMAIN Forgotten = {"stop"}
  BY DEF Forgotten
<1>2. "peak" \in DOMAIN Forgotten
  BY DEF IsPos
<1> QED BY <1>1, <1>2

\* on_tick() keeps the invariant.
LEMMA TickKeeps ==
  ASSUME LevelInv, Tick
  PROVE  LevelInv'
<1> DEFINE seen == IF pos.peak = None THEN EntryOf ELSE pos.peak
           top  == IF Better(seen, mark) THEN mark ELSE seen
           p    == [pos EXCEPT !.peak = top]
<1>0. /\ Shape /\ Tracked /\ At("idle") /\ pos' = p
      /\ UNCHANGED <<side, mark, qty, stops, past>>
      /\ Low \in Nat /\ High \in Nat /\ Entry \in Low .. High
  BY PriceAssumption DEF LevelInv, Tick, exchange
<1>1. IsPos(pos)
  BY <1>0 DEF Shape, Tracked
<1>2. top \in Low .. High
  <2>1. seen \in Low .. High
    BY <1>0, <1>1 DEF IsPos, EntryOf, Shape
  <2> HIDE DEF seen
  <2> QED BY <1>0, <2>1 DEF Shape
<1> HIDE DEF top
<1>3. IsPos(p) /\ p.peak \in Low .. High /\ p.stop = pos.stop
  BY <1>1, <1>2 DEF IsPos
<1> PICK r \in Readings : Carry(Supervise(p, r))
  BY DEF Tick, top
<1> HIDE DEF p
<1> DEFINE plan == Supervise(p, r)
<1>4. /\ plan.stop \in Int
      /\ plan.stop # None => Better(pos.stop, plan.stop)
  BY <1>0, <1>3, NewStopTightens DEF Supervise, NoPlan, None
<1>5. /\ run'.at \in {"idle", "stop", "leave"} /\ run'.plan.stop \in Int
      /\ run' = [at |-> run'.at, plan |-> run'.plan]
      /\ run'.plan.stop # None => Better(pos.stop, run'.plan.stop)
  <2> HIDE DEF plan
  <2>1. CASE plan = NoPlan
    BY <2>1 DEF Carry, Idle, NoPlan, None, plan
  <2>2. CASE plan # NoPlan
    BY <2>2, <1>4 DEF Carry, plan
  <2> QED BY <2>1, <2>2
<1>6. Shape'
  BY <1>0, <1>3, <1>5 DEF Shape, IsRun, At
<1>7. Untouched' /\ Guarded' /\ BookedStopIsLive' /\ Placed'
  BY <1>0, <1>1, <1>3, <1>5
  DEF LevelInv, Untouched, Guarded, Live, Open, Placed, At,
      BookedStopIsLive, Tracked, Floor, Better, Tightest
<1>8. Wiser'
  BY <1>0, <1>3, <1>5 DEF Wiser, Better
<1> QED BY <1>6, <1>7, <1>8 DEF LevelInv

\* ensure_protected()'s plan: a stop is rebuilt only where there is none.
LEMMA WatchKeeps ==
  ASSUME LevelInv, Watch
  PROVE  LevelInv'
<1>0. /\ Shape /\ Tracked /\ At("idle")
      /\ UNCHANGED <<side, mark, qty, stops, past>>
  BY DEF LevelInv, Watch, exchange
<1>1. IsPos(pos)
  BY <1>0 DEF Shape, Tracked
<1> PICK r \in Readings :
      LET plan == Rebuilt(pos, r)
      IN  /\ Carry(plan)
          /\ pos' = [pos EXCEPT !.qty = qty,
                       !.stopId = IF plan.stop # None THEN None ELSE @,
                       !.tpId = IF plan.tp # NoTp THEN NoTp ELSE @]
  BY DEF Watch
<1> DEFINE plan == Rebuilt(pos, r)
<1>2. plan.stop \in Int /\ (plan.stop # None => stops = {})
  <2> DEFINE m == StopMult * r.atr
             dist == Max({Gap, IF r.atr > 0 THEN m ELSE Fallback})
             stop == IF pos.stop # None /\ side * (mark - pos.stop) >= Gap
                     THEN pos.stop ELSE mark - side * dist
  <2>1. m \in Int /\ Gap \in Int /\ Fallback \in Int
    BY PriceAssumption, SettingsAssumption DEF ProtectSettings, Readings
  <2>2. dist \in Int
    <3> HIDE DEF m
    <3> DEFINE other == IF r.atr > 0 THEN m ELSE Fallback
    <3>1. other \in Int
      BY <2>1
    <3> HIDE DEF other
    <3>2. \E x \in {Gap, other} : \A y \in {Gap, other} : x >= y
      BY <2>1, <3>1
    <3>3. Max({Gap, other}) \in {Gap, other}
      BY <3>2 DEF Max
    <3> QED BY <2>1, <3>1, <3>3 DEF other
  <2> HIDE DEF dist
  <2>3. stop \in Int
    BY <1>0, <1>1, <2>2, Shapes DEF IsPos
  <2> HIDE DEF stop
  <2>4. \/ plan = [NoPlan EXCEPT !.leave = TRUE]
        \/ plan.stop = IF stops = {} THEN stop ELSE None
    BY DEF Rebuilt, NoPlan, stop, dist
  <2> HIDE DEF plan
  <2> QED BY <2>3, <2>4 DEF NoPlan, None
<1> HIDE DEF plan
<1>3. IsPos(pos') /\ pos'.stop = pos.stop
  BY <1>1 DEF IsPos, plan
<1>4. /\ run'.at \in {"idle", "stop", "leave"} /\ run'.plan.stop \in Int
      /\ run' = [at |-> run'.at, plan |-> run'.plan]
      /\ run'.plan.stop # None => stops = {}
  <2>1. CASE plan = NoPlan
    BY <2>1 DEF Carry, Idle, NoPlan, None, plan
  <2>2. CASE plan # NoPlan
    BY <2>2, <1>2 DEF Carry, plan
  <2> QED BY <2>1, <2>2
<1>5. Shape'
  BY <1>0, <1>3, <1>4 DEF Shape, IsRun, At
<1>6. Untouched' /\ Guarded' /\ Placed'
  BY <1>0, <1>1, <1>3, <1>4 DEF LevelInv, Untouched, Guarded, Live, Open,
     Placed, At
<1>7. BookedStopIsLive'
  BY <1>0, <1>1, <1>3 DEF LevelInv, Open, BookedStopIsLive, Tracked, Floor,
     Better, Tightest
<1>8. Wiser'
  BY <1>0, <1>4 DEF LevelInv, Wiser, Guarded, Live, Open
<1> QED BY <1>5, <1>6, <1>7, <1>8 DEF LevelInv

\* A stop that is placed is on the right side of the market, and the floor
\* may only rise by it.
LEMMA PlacedRaises ==
  ASSUME Shape, Untouched, Live, stops # {}, side' = side,
         NEW s \in Int \ {None}, TakesStop(s), stops' = stops \union {s}
  PROVE  /\ Floor' \in stops' /\ \A t \in stops' : ~Better(Floor', t)
         /\ Fav(Floor)' >= Fav(Floor)
<1>0. /\ side \in {1, -1} /\ EntryOf \in Int /\ EntryOf' = EntryOf
      /\ stops \subseteq Int \ {None}
  BY Shapes DEF EntryOf
<1>1. /\ Floor \in stops /\ \A t \in stops : ~Better(Floor, t)
  BY FloorIsStop DEF Live
<1> DEFINE f == IF Better(Floor, s) THEN s ELSE Floor
<1>2. f \in stops' /\ f \in Int /\ None \notin stops' /\ stops' \subseteq Int
  BY <1>0, <1>1
<1>3. \A t \in stops' : ~Better(f, t)
  <2> SUFFICES ASSUME NEW t \in stops' PROVE ~Better(f, t)
    OBVIOUS
  <2>1. CASE t \in stops
    BY <2>1, <1>0, <1>1 DEF Better
  <2>2. CASE t = s
    BY <2>2, <1>0, <1>1 DEF Better
  <2> QED BY <2>1, <2>2
<1>4. Fav(f) >= Fav(Floor)
  BY <1>0, <1>1 DEF Better, Fav
<1> HIDE DEF f
<1>5. Tightest(stops') = f
  BY <1>0, <1>2, <1>3, TightestIsUnique
<1>6. Floor' = f
  BY <1>0, <1>2, <1>5 DEF Floor, Tightest, Better
<1> QED BY <1>0, <1>2, <1>3, <1>4, <1>6 DEF Fav, Better

\* replace_protective(), first half.
LEMMA PlaceStopKeeps ==
  ASSUME LevelInv, PlaceStop
  PROVE  LevelInv'
<1> DEFINE s == run.plan.stop
<1>0. /\ Shape /\ At("stop") /\ UNCHANGED <<side, mark, qty, tps, pos>>
      /\ IsPos(pos) /\ s \in Int
  BY DEF LevelInv, PlaceStop, Shape, At, IsRun
<1>1. IsPast(past') /\ past'.bare = past.bare /\ past'.left = past.left
  BY <1>0 DEF PlaceStop, Missed, Shape, IsPast
<1>2. /\ IsRun(run') /\ run'.at \in {"idle", "unstop", "tp"}
      /\ run'.at = "unstop" => Wanted(s) /\ TakesStop(s)
                               /\ stops' = stops \union {s}
                               /\ run'.plan = run.plan
  BY <1>0 DEF PlaceStop, Goto, Done, Idle, NoPlan, None, Shape, IsRun
<1>3. \/ stops' = stops
      \/ s # None /\ TakesStop(s) /\ stops' = stops \union {s}
  BY <1>0 DEF PlaceStop, Wanted
<1>4. Shape'
  BY <1>0, <1>1, <1>2, <1>3 DEF Shape, At
<1>5. Untouched'
  BY <1>0, <1>3 DEF LevelInv, Untouched, Open, TakesStop
<1>6. Guarded' /\ Placed'
  BY <1>0, <1>1, <1>2, <1>3 DEF LevelInv, Guarded, Placed, Live, Open, At
<1>7. Wiser'
  BY <1>0, <1>1, <1>2 DEF LevelInv, Wiser, Live, Open, At, Better
<1>8. BookedStopIsLive'
  <2>1. CASE stops' = stops
    BY <1>0, <1>1, <2>1 DEF LevelInv, Open, BookedStopIsLive, Tracked, Floor,
       Better, Tightest
  <2>2. CASE s # None /\ TakesStop(s) /\ stops' = stops \union {s}
    <3> SUFFICES ASSUME Live, pos.stop # None
                 PROVE  ~Better(Floor', pos.stop)
      BY <1>0, <1>1 DEF BookedStopIsLive, Live, Open, Better
    <3>1. stops # {} /\ Untouched /\ ~Better(Floor, pos.stop)
      BY <1>0, ForgottenIsNoPos
      DEF LevelInv, Guarded, BookedStopIsLive, Live, Tracked
    <3>2. Fav(Floor)' >= Fav(Floor) /\ Floor' \in stops'
      BY <1>0, <2>2, <3>1, PlacedRaises
    <3>3. Floor \in stops
      BY <1>0, <3>1, FloorIsStop DEF Live
    <3>4. /\ Floor' \in Int \ {None} /\ Floor \in Int \ {None}
          /\ EntryOf \in Int /\ side \in {1, -1} /\ pos.stop \in Int
          /\ EntryOf' = EntryOf
      BY <1>0, <2>2, <3>2, <3>3, Shapes DEF IsPos, EntryOf
    <3>5. side * (Floor' - EntryOf) >= side * (Floor - EntryOf)
      BY <1>0, <3>2, <3>4 DEF Fav
    <3>6. side * (Floor - pos.stop) >= 0
      BY <3>1, <3>4 DEF Better
    <3>7. side * (Floor' - pos.stop) >= 0
      <4> DEFINE f == Floor'
                 g == Floor
                 b == pos.stop
                 e == EntryOf
      <4>1. /\ f \in Int /\ g \in Int /\ b \in Int /\ e \in Int
            /\ side \in {1, -1}
            /\ side * (f - e) >= side * (g - e) /\ side * (g - b) >= 0
        BY <3>4, <3>5, <3>6
      <4> HIDE DEF f, g, b, e
      <4>2. side * (f - b) >= 0
        BY <4>1
      <4> QED BY <4>2 DEF f, b
    <3> QED BY <3>4, <3>7 DEF Better
  <2> QED BY <1>3, <2>1, <2>2
<1> QED BY <1>4, <1>5, <1>6, <1>7, <1>8 DEF LevelInv

\* What cancelling the order of the book's stop leaves of the floor.
LEMMA CancelKeepsFloor ==
  ASSUME LevelInv, At("unstop"), Live, side' = side,
         stops' \in {stops, stops \ ({pos.stopId} \ {run.plan.stop})}
  PROVE  /\ stops' # {} /\ Floor' = Floor /\ run.plan.stop \in stops'
         /\ ~Better(Floor, run.plan.stop)
<1>1. /\ Shape /\ IsPos(pos) /\ stops # {} /\ Open /\ Untouched
      /\ run.plan.stop \in stops
  BY DEF LevelInv, Shape, At, Guarded, Placed, Live
<1>2. /\ Floor \in stops /\ Floor = Tightest(stops)
      /\ \A t \in stops : ~Better(Floor, t)
  BY <1>1, FloorIsStop
<1>3. /\ stops \subseteq Int \ {None} /\ side \in {1, -1}
  BY <1>1, Shapes
<1>4. Better(pos.stop, run.plan.stop)
  BY <1>1, <1>3 DEF LevelInv, Wiser, Live, None
<1>5. Floor \in stops'
  <2> SUFFICES ASSUME Floor = pos.stopId, Floor # run.plan.stop PROVE FALSE
    BY <1>2
  <2>1. Floor = pos.stop /\ pos.stop # None
    BY <1>1, <1>2, <1>3 DEF IsPos
  <2> QED BY <1>1, <1>2, <1>4, <2>1
<1>6. Tightest(stops') = Floor
  <2>1. stops' \subseteq stops /\ stops' \in SUBSET Int /\ None \notin stops'
    BY <1>3
  <2> QED BY <1>2, <1>3, <1>5, <2>1, TightestIsUnique
<1>7. Floor' = Floor
  BY <1>5, <1>6 DEF Floor, Tightest, Better
<1> QED BY <1>1, <1>2, <1>5, <1>7

\* replace_protective(), second half.
LEMMA CancelStopKeeps ==
  ASSUME LevelInv, CancelStop
  PROVE  LevelInv'
<1> DEFINE s == run.plan.stop
<1>0. /\ Shape /\ At("unstop") /\ UNCHANGED <<side, mark, qty, tps>>
      /\ IsPos(pos) /\ s \in Int
      /\ stops' \in {stops, stops \ ({pos.stopId} \ {s})}
  BY DEF LevelInv, CancelStop, Shape, At, IsRun
<1>1. IsPast(past') /\ past'.bare = past.bare /\ past'.left = past.left
  BY <1>0 DEF CancelStop, Missed, Shape, IsPast
<1>2. IsRun(run') /\ run'.at \in {"idle", "tp"}
  BY <1>0 DEF CancelStop, Goto, Done, Idle, NoPlan, None, Shape, IsRun
<1>3. \/ pos' = pos
      \/ IsPos(pos') /\ pos'.stop = s
  BY <1>0 DEF CancelStop, Moved, IsPos
<1>4. Shape'
  BY <1>0, <1>1, <1>2, <1>3 DEF Shape, At
<1>5. Untouched'
  BY <1>0 DEF LevelInv, Untouched, Open
<1>6. Placed' /\ Wiser'
  BY <1>2 DEF Placed, Wiser, At
<1>7. Live' => Live
  BY <1>0, <1>1 DEF Live, Open
<1>8. Guarded'
  BY <1>0, <1>7, CancelKeepsFloor DEF Guarded
<1>9. BookedStopIsLive'
  <2> SUFFICES ASSUME Live, pos'.stop # None
               PROVE  ~Better(Floor', pos'.stop)
    BY <1>0, <1>1 DEF BookedStopIsLive, Live, Open, Better
  <2>1. Floor' = Floor /\ ~Better(Floor, s)
    BY <1>0, CancelKeepsFloor
  <2>2. CASE pos' = pos
    BY <1>0, <2>1, <2>2, ForgottenIsNoPos
    DEF LevelInv, BookedStopIsLive, Live, Tracked, Better
  <2>3. CASE pos'.stop = s
    BY <1>0, <2>1, <2>3 DEF Better
  <2> QED BY <1>3, <2>2, <2>3
<1> QED BY <1>4, <1>5, <1>6, <1>8, <1>9 DEF LevelInv

\* Steps that leave the market, the position and its stops alone.
LEMMA QuietKeeps ==
  ASSUME LevelInv, PlaceTp \/ CancelTp \/ Crash \/ Adopt
  PROVE  LevelInv'
<1>0. /\ Shape /\ UNCHANGED <<side, mark, qty, stops>>
      /\ side \in {1, -1} /\ stops \subseteq Int \ {None}
  BY Shapes DEF LevelInv, PlaceTp, CancelTp, Crash, Adopt, exchange
<1>1. IsPast(past') /\ past'.bare = past.bare /\ past'.left = past.left
  BY <1>0 DEF PlaceTp, CancelTp, Crash, Adopt, Missed, Shape, IsPast
<1>2. IsRun(run') /\ run'.at \in {"idle", "untp", run.at}
      /\ run'.at \notin {"stop", "unstop"}
  <2>1. CASE PlaceTp
    BY <1>0, <2>1
    DEF PlaceTp, Goto, Done, Idle, NoPlan, None, Shape, IsRun, At
  <2>2. CASE CancelTp \/ Crash
    BY <1>0, <2>2 DEF CancelTp, Crash, Done, Idle, NoPlan, None, IsRun
  <2>3. CASE Adopt
    <3>1. At("idle") /\ run' = run
      BY <1>0, <2>3, ForgottenIsNoPos DEF Adopt, Shape, Tracked
    <3> QED BY <1>0, <3>1 DEF Shape, IsRun, At
  <2> QED BY <2>1, <2>2, <2>3
<1>3. \/ IsPos(pos') /\ IsPos(pos) /\ pos'.stop = pos.stop
      \/ pos' = pos /\ PlaceTp
      \/ pos' = Forgotten /\ Crash
      \/ /\ IsPos(pos') /\ Adopt
         /\ pos'.stop \in (IF stops = {} THEN {None} ELSE stops)
  <2>1. CASE PlaceTp
    BY <2>1 DEF PlaceTp
  <2>2. CASE CancelTp
    BY <1>0, <2>2 DEF CancelTp, Shape, At, IsPos
  <2>3. CASE Crash
    BY <2>3 DEF Crash
  <2>4. CASE Adopt
    <3> PICK s \in IF stops = {} THEN {None} ELSE stops,
             t \in IF tps = {} THEN {NoTp} ELSE tps :
          pos' = [stop |-> s, stopId |-> s, tp |-> t.at, tpId |-> t,
                  qty |-> qty, peak |-> None, risk |-> AdoptedRisk(s),
                  goal |-> t.at, ref |-> None, runner |-> FALSE]
      BY <2>4 DEF Adopt
    <3>1. s \in Int
      BY <1>0 DEF None
    <3> QED BY <2>4, <3>1 DEF IsPos
  <2> QED BY <2>1, <2>2, <2>3, <2>4
<1>4. Shape'
  <2>1. ~At("idle")' => IsPos(pos')
    <3>1. CASE Crash \/ CancelTp \/ Adopt
      <4>1. CASE Crash \/ CancelTp
        BY <4>1 DEF Crash, CancelTp, Done, Idle, At
      <4>2. CASE Adopt
        BY <1>3, <4>2, ForgottenIsNoPos, <1>0 DEF Adopt, IsPos, None
      <4> QED BY <3>1, <4>1, <4>2
    <3>2. CASE PlaceTp
      BY <1>0, <3>2 DEF PlaceTp, Shape, At
    <3> QED BY <3>1, <3>2
  <2> QED BY <1>0, <1>1, <1>2, <1>3, <2>1 DEF Shape
<1>5. Untouched' /\ Guarded'
  BY <1>0, <1>1 DEF LevelInv, Untouched, Guarded, Live, Open
<1>6. Placed' /\ Wiser'
  BY <1>2 DEF Placed, Wiser, At
<1>7. BookedStopIsLive'
  <2> SUFFICES ASSUME Live, pos' # Forgotten, pos'.stop # None
               PROVE  ~Better(Floor', pos'.stop)
    BY <1>0, <1>1 DEF BookedStopIsLive, Live, Open, Better, Tracked
  <2>0. Open /\ Untouched /\ stops # {}
    BY DEF LevelInv, Guarded, Live
  <2>a. \A t \in stops : ~Better(Floor, t)
    BY <1>0, <2>0, FloorIsStop
  <2>b. Floor' = Floor
    BY <1>0 DEF Floor, Tightest, Better
  <2>1. /\ Floor' = Floor /\ Open /\ stops # {}
        /\ \A t \in stops : ~Better(Floor, t)
    BY <2>0, <2>a, <2>b
  <2>2. CASE pos' = pos \/ (IsPos(pos) /\ pos'.stop = pos.stop)
    BY <1>0, <2>1, <2>2, ForgottenIsNoPos
    DEF LevelInv, BookedStopIsLive, Live, Tracked
  <2>3. CASE pos'.stop \in stops
    BY <2>1, <2>3
  <2> QED BY <1>3, <2>1, <2>2, <2>3
<1> QED BY <1>4, <1>5, <1>6, <1>7 DEF LevelInv

\* The steps that end the position, take its orders or move the market.
LEMMA MarketKeeps ==
  ASSUME LevelInv, Move(mark + 1) \/ Move(mark - 1) \/ Vanish \/ Leave
  PROVE  LevelInv'
<1>0. /\ Shape /\ UNCHANGED <<side, pos>> /\ stops' \subseteq stops
      /\ mark \in Int /\ Low \in Nat /\ High \in Nat
      /\ side \in {1, -1} /\ stops \subseteq Int \ {None}
      /\ mark' \in Low .. High
  BY Shapes DEF LevelInv, Move, Vanish, Leave, Shape
<1>1. IsPast(past') /\ (past.bare => past'.bare)
  <2>1. IsPast(past) /\ EntryOf \in Int
    BY <1>0, Shapes DEF Shape
  <2>2. ASSUME NEW p \in Int PROVE Fav(p) \in Int
    BY <1>0, <2>1 DEF Fav
  <2>3. \/ past' = past
        \/ \E p \in Int : past' = [past EXCEPT !.left = Fav(p)]
        \/ past' = [past EXCEPT !.bare = TRUE]
        \/ past' = [past EXCEPT !.missed = TRUE]
    BY <1>0 DEF Move, Vanish, Leave, Missed
  <2> QED BY <2>1, <2>2, <2>3 DEF IsPast
<1>2. IsRun(run') /\ (run' = run \/ run' = Idle)
  BY <1>0
  DEF Move, Vanish, Leave, Done, Idle, NoPlan, None, Shape, IsRun
<1>3. Shape'
  <2>1. ~At("idle")' => run' = run /\ ~At("idle")
    BY <1>2 DEF At, Idle
  <2>2. pos = Forgotten \/ IsPos(pos)
    BY <1>0 DEF Shape
  <2>3. ~At("idle") => IsPos(pos)
    BY <1>0 DEF Shape
  <2>4. /\ pos' = Forgotten \/ IsPos(pos')
        /\ ~At("idle")' => IsPos(pos')
    BY <1>0, <2>1, <2>2, <2>3
  <2>5. stops' \subseteq Int \ {None} /\ side' \in {1, -1}
    BY <1>0
  <2> QED BY <1>0, <1>1, <1>2, <2>4, <2>5 DEF Shape
<1>4. Live' => Live /\ UNCHANGED <<stops>>
  <2>1. CASE \E p \in {mark + 1, mark - 1} : Move(p)
    <3> PICK p \in {mark + 1, mark - 1} : Move(p)
      BY <2>1
    <3> DEFINE hit == {s \in stops : side * (p - s) <= 0}
    <3>1. /\ Open /\ stops' = stops \ hit
          /\ hit # {} => qty' = 0
      BY DEF Move
    <3>2. Open' => hit = {}
      BY <3>1 DEF Open
    <3> HIDE DEF hit
    <3>3. Open' => stops' = stops
      BY <3>1, <3>2, stops \ {} = stops
    <3> QED BY <3>1, <3>3, <1>1 DEF Live
  <2>2. CASE Vanish
    BY <1>0, <2>2 DEF Vanish, Live, Open, Shape, IsPast
  <2>3. CASE Leave
    BY <1>0, <2>3 DEF Leave, Live, Open, Missed, Shape, IsPast
  <2> QED BY <2>1, <2>2, <2>3
<1>5. Untouched'
  <2>1. CASE \E p \in {mark + 1, mark - 1} : Move(p)
    <3> PICK p \in {mark + 1, mark - 1} : Move(p)
      BY <2>1
    <3>1. /\ mark' = p
          /\ stops' = stops \ {s \in stops : side * (p - s) <= 0}
      BY DEF Move
    <3> QED BY <1>0, <3>1 DEF Untouched
  <2>2. CASE Vanish
    BY <1>0, <2>2 DEF LevelInv, Vanish, Untouched, Open
  <2>3. CASE Leave
    BY <1>0, <2>3 DEF LevelInv, Leave, Untouched, Open
  <2> QED BY <2>1, <2>2, <2>3
<1>6. Guarded' /\ Placed' /\ Wiser'
  BY <1>0, <1>2, <1>4
  DEF LevelInv, Guarded, Placed, Wiser, Live, At, Idle, Better
<1>7. BookedStopIsLive'
  BY <1>0, <1>4
  DEF LevelInv, BookedStopIsLive, Live, Tracked, Floor, Tightest, Better
<1> QED BY <1>3, <1>5, <1>6, <1>7 DEF LevelInv

\* The first stop rests at the plan, below the market.
LEMMA InitLevels == Init => LevelInv
<1> SUFFICES ASSUME Init PROVE LevelInv
  OBVIOUS
<1>1. /\ side \in {1, -1} /\ EntryOf \in Low .. High /\ Low > 0 /\ Low \in Nat
      /\ High \in Nat /\ Risk \in Nat /\ Risk > 0 /\ mark = EntryOf
      /\ Above(-Risk) \in Int /\ Above(-Risk) # None
      /\ side * (mark - Above(-Risk)) > 0
  BY PriceAssumption DEF Init, EntryOf, Above, None
<1>2. IsPos(pos) /\ pos.stop = Above(-Risk)
  BY <1>1 DEF Init, Opened, IsPos
<1>3. IsRun(run) /\ IsPast(past) /\ At("idle")
  BY DEF Init, IsRun, IsPast, Idle, NoPlan, None, At
<1>4. stops = {Above(-Risk)}
  BY DEF Init
<1>5. Shape
  BY <1>1, <1>2, <1>3, <1>4 DEF Shape
<1>6. Untouched /\ Guarded /\ Wiser /\ Placed
  BY <1>1, <1>3, <1>4 DEF Untouched, Guarded, Wiser, Placed, At
<1>7. BookedStopIsLive
  <2>1. Tightest(stops) \in stops
    <3>1. ~Better(Above(-Risk), Above(-Risk))
      BY <1>1 DEF Better
    <3> QED BY <1>4, <3>1 DEF Tightest
  <2> QED BY <1>1, <1>2, <1>4, <2>1 DEF BookedStopIsLive, Floor, Better
<1> QED BY <1>5, <1>6, <1>7 DEF LevelInv

\* Every step keeps the invariant.
LEMMA NextLevels == LevelInv /\ [Next]_vars => LevelInv'
<1> SUFFICES ASSUME LevelInv, [Next]_vars PROVE LevelInv'
  OBVIOUS
<1>1. CASE UNCHANGED vars
  BY <1>1 DEF vars, exchange, LevelInv, Shape, Untouched, Guarded, Wiser,
     Placed, BookedStopIsLive, Live, Open, At, Tracked, Better, Floor,
     Tightest
<1>2. CASE Next
  BY <1>2, TickKeeps, WatchKeeps, PlaceStopKeeps, CancelStopKeeps, QuietKeeps,
     MarketKeeps DEF Next
<1> QED BY <1>1, <1>2

\* The inductive invariant of the moving stops: what the book knows of them,
\* and that a stop is taken away only behind a tighter one (engine.py,
\* replace_protective).
THEOREM LevelInvariant == Spec => []LevelInv
BY InitLevels, NextLevels, PTL DEF Spec

\* The exchange has a stop at least as tight as the book says, for every
\* market, every combination of exit rules and any number of failed calls.
THEOREM BookedStopHolds == Spec => []BookedStopIsLive
<1>1. LevelInv => BookedStopIsLive
  BY DEF LevelInv
<1> QED BY <1>1, LevelInvariant, PTL

-------------------------------------------------------------------------------
(* The steps as steps of the ratchet.                                      *)

Mapped == Promise!Next \/ UNCHANGED Promise!vars

\* With the same stops and the same position nothing happens to the promise.
LEMMA SameStops ==
  ASSUME UNCHANGED <<side, stops>>, Open' = Open,
         past'.left = past.left, past'.bare = past.bare
  PROVE  Mapped
<1>1. Fav(Floor)' = Fav(Floor)
  BY DEF Fav, Floor, Tightest, Better, EntryOf
<1> QED BY <1>1 DEF Mapped, Promise!vars

\* Once the position is gone, or its orders were, nothing is promised.
LEMMA NothingPromised ==
  ASSUME past.bare \/ ~Open, Open' => Open,
         past'.left = past.left, past'.bare = past.bare
  PROVE  Mapped
BY DEF Mapped, Promise!Next, Promise!Drifts

\* Every step is a step of the ratchet, or none.
LEMMA NextRatchets == LevelInv /\ [Next]_vars => Mapped
<1> SUFFICES ASSUME LevelInv, [Next]_vars PROVE Mapped
  OBVIOUS
<1>0. /\ Shape /\ Untouched /\ side \in {1, -1}
      /\ EntryOf \in Int /\ mark \in Int
      /\ stops \subseteq Int \ {None} /\ IsPast(past)
  BY Shapes DEF LevelInv, Shape
<1>1. CASE UNCHANGED vars
  BY <1>1, SameStops DEF vars, exchange, Open
<1>2. CASE Tick \/ Watch \/ PlaceTp \/ CancelTp \/ Crash \/ Adopt
  <2>1. UNCHANGED <<side, stops, qty>>
    BY <1>2 DEF Tick, Watch, PlaceTp, CancelTp, Crash, Adopt, exchange
  <2>2. past'.left = past.left /\ past'.bare = past.bare
    BY <1>0, <1>2
    DEF Tick, Watch, PlaceTp, CancelTp, Crash, Adopt, Missed, IsPast
  <2> QED BY <2>1, <2>2, SameStops DEF Open
<1>3. CASE PlaceStop \/ CancelStop
  <2>1. /\ UNCHANGED <<side, qty>> /\ Open' = Open
        /\ past'.left = past.left /\ past'.bare = past.bare
    BY <1>0, <1>3 DEF PlaceStop, CancelStop, Missed, IsPast, Open
  <2>2. CASE ~Live
    BY <2>1, <2>2, NothingPromised DEF Live
  <2>3. CASE Live /\ Fav(Floor)' = Fav(Floor)
    BY <2>1, <2>3 DEF Mapped, Promise!vars
  <2>4. CASE Live /\ Fav(Floor)' > Fav(Floor) /\ Fav(Floor)' \in Int
    BY <2>1, <2>4
    DEF Live, Mapped, Promise!Next, Promise!Tighten
  <2>5. CASE Live /\ PlaceStop
    <3>1. stops # {} /\ run.plan.stop \in Int
      BY <1>0, <2>5 DEF LevelInv, Guarded, Shape, IsRun
    <3>2. CASE stops' = stops
      BY <2>1, <3>2, SameStops
    <3>3. CASE /\ run.plan.stop # None /\ TakesStop(run.plan.stop)
               /\ stops' = stops \union {run.plan.stop}
      <4>1. Fav(Floor)' >= Fav(Floor) /\ Floor' \in stops' /\ Floor \in stops
        BY <1>0, <2>1, <2>5, <3>1, <3>3, PlacedRaises, FloorIsStop DEF Live
      <4>2. Fav(Floor)' \in Int /\ Fav(Floor) \in Int
        BY <1>0, <2>1, <3>1, <3>3, <4>1 DEF Fav, EntryOf
      <4> QED BY <2>3, <2>4, <2>5, <4>1, <4>2
    <3> QED BY <2>5, <3>2, <3>3 DEF PlaceStop, Wanted
  <2>6. CASE Live /\ CancelStop
    <3>1. Floor' = Floor
      BY <2>1, <2>6, CancelKeepsFloor DEF CancelStop
    <3> QED BY <2>1, <2>3, <2>6, <3>1 DEF Fav, EntryOf
  <2> QED BY <1>3, <2>2, <2>5, <2>6
<1>4. CASE Vanish
  BY <1>0, <1>4, SameStops
  DEF Vanish, Open, Mapped, Promise!Next, Promise!TakenAway, IsPast
<1>5. CASE Leave
  <2>1. CASE UNCHANGED <<qty, stops>>
    BY <1>0, <1>5, <2>1, SameStops DEF Leave, Open, Missed, IsPast
  <2>2. CASE Open /\ qty' = 0 /\ past' = [past EXCEPT !.left = Fav(mark)]
    <3>1. /\ Open /\ ~Open' /\ past'.left = Fav(mark)
          /\ past'.bare = past.bare /\ Fav(mark) \in Int
      BY <1>0, <2>2 DEF Open, Fav, IsPast
    <3>2. past.bare \/ Fav(mark) >= Fav(Floor)
      <4> SUFFICES ASSUME ~past.bare PROVE Fav(mark) >= Fav(Floor)
        OBVIOUS
      <4>1. Floor \in stops
        BY <1>0, <3>1, FloorIsStop DEF LevelInv, Guarded, Live
      <4> QED BY <1>0, <3>1, <4>1 DEF Untouched, Fav
    <3> QED BY <3>1, <3>2 DEF Mapped, Promise!Next, Promise!Leave
  <2> QED BY <1>5, <2>1, <2>2 DEF Leave
<1>6. ASSUME NEW p \in {mark + 1, mark - 1}, Move(p) PROVE Mapped
  <2> DEFINE hit == {s \in stops : side * (p - s) <= 0}
  <2>1. /\ Open /\ stops' = stops \ hit /\ side' = side
        /\ hit # {} => qty' = 0
        /\ past' = IF qty' > 0 THEN past
                   ELSE [past EXCEPT !.left = Fav(p)]
    BY <1>6 DEF Move
  <2>2. CASE qty' > 0
    <3>1. hit = {}
      BY <2>1, <2>2
    <3> HIDE DEF hit
    <3>2. stops' = stops
      BY <2>1, <3>1
    <3> QED BY <2>1, <2>2, <3>2, SameStops DEF Open
  <2>3. CASE ~(qty' > 0)
    <3>1. /\ Open /\ ~Open' /\ past'.left = Fav(p)
          /\ past'.bare = past.bare /\ Fav(p) \in Int
      BY <1>0, <2>1, <2>3 DEF Open, Fav, IsPast
    <3>2. past.bare \/ Fav(p) >= Fav(Floor)
      <4> SUFFICES ASSUME ~past.bare PROVE Fav(p) >= Fav(Floor)
        OBVIOUS
      <4>1. Floor \in stops
        BY <1>0, <3>1, FloorIsStop DEF LevelInv, Guarded, Live
      <4>2. side * (mark - Floor) > 0 /\ Floor \in Int
        BY <1>0, <3>1, <4>1 DEF Untouched
      <4>3. side * (p - Floor) >= 0
        BY <1>0, <4>2
      <4> QED BY <1>0, <4>2, <4>3 DEF Fav
    <3> QED BY <3>1, <3>2 DEF Mapped, Promise!Next, Promise!Leave
  <2> QED BY <2>2, <2>3
<1> QED BY <1>1, <1>2, <1>3, <1>4, <1>5, <1>6 DEF Next

\* The supervisor's stops implement the one-way ratchet: the price at which a
\* position is sold only gets better, and it is not left at a worse one, for
\* every market, every combination of exit rules and any number of failures.
THEOREM LevelsRatchet == Spec => FloorOnlyRises
<1>1. Init => Promise!Init
  <2> SUFFICES ASSUME Init PROVE Promise!Init
    OBVIOUS
  <2>1. Shape /\ Untouched /\ stops # {} /\ Open
    BY InitLevels DEF Init, LevelInv, Open
  <2>2. Floor \in stops
    BY <2>1, FloorIsStop
  <2>3. Floor = Above(-Risk) /\ side \in {1, -1} /\ Risk \in Int
        /\ EntryOf \in Int
    BY <2>1, <2>2, Shapes, PriceAssumption DEF Init
  <2>4. Fav(Floor) = -Risk
    BY <2>3 DEF Fav, Above
  <2> QED BY <2>1, <2>4 DEF Promise!Init, Init
<1>2. LevelInv /\ [Next]_vars => [Promise!Next]_(Promise!vars)
  BY NextRatchets DEF Mapped
<1> QED BY <1>1, <1>2, LevelInvariant, PTL
        DEF Spec, FloorOnlyRises, Promise!Spec

-------------------------------------------------------------------------------
(* Break even.                                                             *)

\* A trade whose orders and calls have gone through, and what it owes.
Sound == Live /\ ~past.missed
Owes  == "breakeven" \in Rules /\ pos.peak # None /\ Fav(pos.peak) >= Risk
Booked(level) == level # None /\ Fav(level) > Cost - MinMove

\* From the tick that saw 1R the book has the stop at break even, or the
\* thread is about to move it there, or to leave.
Secured ==
  \/ Booked(pos.stop)
  \/ /\ At("stop") \/ At("unstop")
     /\ run.plan.stop # None /\ Fav(run.plan.stop) >= Cost
  \/ At("leave")

BreakInv ==
  /\ IsPast(past) /\ past.missed \in BOOLEAN
  /\ Sound => /\ IsPos(pos) /\ pos.stop # None /\ pos.risk = Risk
              /\ At("unstop") => run.plan.stop # None
              /\ Owes => Secured

\* A level no worse than break even is worth booking.
LEMMA AtCostBooked ==
  ASSUME NEW level \in Int, side \in {1, -1}, EntryOf \in Int, level # None,
         Fav(level) >= Cost
  PROVE  Booked(level)
BY PriceAssumption DEF Booked, Fav

\* What is further in the trade's favour.
LEMMA FavFurther ==
  ASSUME side \in {1, -1}, EntryOf \in Int, NEW a \in Int, NEW b \in Int,
         NEW c \in Int, Fav(a) >= c, side * (a - b) <= 0
  PROVE  Fav(b) >= c
<1>1. PICK e \in Int : e = EntryOf
  OBVIOUS
<1>2. CASE side = 1
  BY <1>1, <1>2 DEF Fav
<1>3. CASE side = -1
  BY <1>1, <1>3 DEF Fav
<1> QED BY <1>2, <1>3

\* The tick that sees 1R for the first time moves the stop, finds it moved, or
\* leaves.
LEMMA TickSecures ==
  ASSUME Cost < Risk, LevelInv, BreakInv, Sound, Tick
  PROVE  /\ IsPos(pos') /\ pos'.stop # None /\ pos'.risk = Risk
         /\ ~At("unstop")' /\ (Owes' => Secured')
<1> DEFINE seen == IF pos.peak = None THEN EntryOf ELSE pos.peak
           top  == IF Better(seen, mark) THEN mark ELSE seen
           p    == [pos EXCEPT !.peak = top]
<1>0. /\ Shape /\ Tracked /\ At("idle") /\ pos' = p
      /\ UNCHANGED <<side, mark, qty, stops, past>>
      /\ Low \in Nat /\ High \in Nat /\ Entry \in Low .. High /\ Low > 0
      /\ side \in {1, -1} /\ mark \in Low .. High
      /\ Cost \in Nat /\ Risk \in Nat /\ Risk > 0
  BY PriceAssumption DEF LevelInv, Tick, exchange, Shape
<1>1. IsPos(pos) /\ pos.stop # None /\ pos.risk = Risk
      /\ (Owes => Booked(pos.stop))
  BY <1>0 DEF BreakInv, Secured, At
<1>2. EntryOf \in Low .. High /\ EntryOf' = EntryOf
  BY <1>0 DEF EntryOf
<1>3. seen \in Low .. High /\ top \in Low .. High
  BY <1>0, <1>1, <1>2 DEF IsPos
<1> HIDE DEF top
<1>4. /\ IsPos(p) /\ p.peak = top /\ p.stop = pos.stop /\ p.risk = Risk
  BY <1>1, <1>3 DEF IsPos
<1> PICK r \in Readings : Carry(Supervise(p, r))
  BY DEF Tick, top
<1>5. /\ run'.at \in {"idle", "stop", "leave"}
  BY DEF Carry, Idle
<1>6. ASSUME "breakeven" \in Rules, Fav(top) >= Risk
      PROVE  Secured'
  <2>1. CASE Owes
    <3>1. Booked(pos.stop)
      BY <1>1, <2>1
    <3>2. Booked(p.stop)'
      BY <1>0, <1>2, <1>4, <3>1 DEF Booked, Fav
    <3> QED BY <1>0, <3>2 DEF Secured
  <2>2. CASE ~Owes
    <3>1. top = mark /\ Fav(mark) >= Risk
      <4>1. ~(Fav(seen) >= Risk)
        BY <1>0, <1>2, <1>6, <2>2 DEF Owes, Fav
      <4> QED BY <1>6, <4>1 DEF top
    <3>2. InProfit
      BY <1>0, <1>2, <3>1 DEF InProfit, Fav
    <3> DEFINE asked == Stops(p, r)
               new   == NewStop(p, r)
    <3>3. BreakEven \in asked
      <4>1. Proven(p)
        BY <1>4, <3>1 DEF Proven
      <4> QED BY <1>6, <4>1 DEF Stops, When
    <3>4. /\ asked \subseteq AskedRange /\ asked \in SUBSET Int
          /\ None \notin asked /\ BreakEven \in Int
      <4>1. AskedRange \subseteq Int /\ None \notin AskedRange
        BY <1>0 DEF AskedRange, None
      <4>2. asked \subseteq AskedRange
        BY <1>0, <1>3, <1>4, AskedInRange
      <4> HIDE DEF asked
      <4> QED BY <3>3, <4>1, <4>2
    <3> DEFINE bound == IF side = 1 THEN High + Low + Cost ELSE 0
    <3>5. bound \in Int /\ \A s \in asked : side * (bound - s) >= 0
      BY <1>0, <3>4 DEF AskedRange
    <3> HIDE DEF asked, bound
    <3>6. PICK tight \in asked : /\ tight = Tightest(asked)
                                /\ \A t \in asked : ~Better(tight, t)
      BY <1>0, <3>3, <3>4, <3>5, TightestIsOne
    <3>7. /\ tight \in Int /\ tight # None
          /\ side * (BreakEven - tight) <= 0
      <4>1. ~Better(tight, BreakEven)
        BY <3>3, <3>6
      <4> QED BY <1>0, <3>4, <3>6, <4>1 DEF Better
    <3>8. Fav(tight) >= Cost
      <4>1. Fav(BreakEven) >= Cost
        BY <1>0, <1>2 DEF Fav, BreakEven, Above
      <4> QED BY <1>0, <1>2, <3>4, <3>7, <4>1, FavFurther
    <3>9. CASE ~Better(p.stop, tight)
      <4>1. /\ p.stop \in Int /\ p.stop # None
            /\ side * (tight - p.stop) <= 0
        BY <1>0, <1>1, <1>4, <3>7, <3>9 DEF Better, IsPos
      <4>2. Fav(p.stop) >= Cost
        BY <1>0, <1>2, <3>7, <3>8, <4>1, FavFurther
      <4>3. Booked(p.stop)
        BY <1>0, <1>2, <4>1, <4>2, AtCostBooked
      <4>4. Booked(p.stop)'
        BY <1>0, <1>2, <1>4, <4>3 DEF Booked, Fav
      <4> QED BY <1>0, <4>4 DEF Secured
    <3>10. CASE Better(p.stop, tight)
      <4>1. new = tight
        BY <3>3, <3>6, <3>10 DEF NewStop, asked
      <4>2. ~(p.risk <= 0)
        BY <1>0, <1>4
      <4>3. CASE Leaves(p, r)
        <5>1. Supervise(p, r) = [NoPlan EXCEPT !.leave = TRUE]
          BY <4>2, <4>3 DEF Supervise
        <5>2. run'.at = "leave"
          BY <5>1 DEF Carry, NoPlan
        <5> QED BY <5>2 DEF Secured, At
      <4>4. CASE ~Leaves(p, r)
        <5>1. ~Passed(new)
          BY <3>2, <4>4 DEF Leaves
        <5>2. Supervise(p, r).stop = tight /\ Supervise(p, r).leave = FALSE
          BY <4>1, <4>2, <4>4, <5>1 DEF Supervise, NoPlan
        <5>3. run'.at = "stop" /\ run'.plan.stop = tight
          BY <3>7, <5>2 DEF Carry, NoPlan
        <5>4. Fav(tight)' >= Cost
          BY <1>0, <1>2, <3>8 DEF Fav
        <5> QED BY <3>7, <5>3, <5>4 DEF Secured, At, Fav
      <4> QED BY <4>3, <4>4
    <3> QED BY <3>9, <3>10
  <2> QED BY <2>1, <2>2
<1>7. Owes' => "breakeven" \in Rules /\ Fav(top) >= Risk
  BY <1>0, <1>2, <1>4 DEF Owes, Fav
<1> QED BY <1>0, <1>1, <1>4, <1>5, <1>6, <1>7 DEF At

\* Every step keeps the stop at break even.
LEMMA NextSecures ==
  ASSUME Cost < Risk, LevelInv, BreakInv, [Next]_vars
  PROVE  BreakInv'
<1>0. /\ Shape /\ IsPast(past) /\ past.missed \in BOOLEAN
      /\ side \in {1, -1} /\ EntryOf \in Int
  BY Shapes DEF LevelInv, BreakInv
<1>1. /\ side' = side /\ EntryOf' = EntryOf
  BY DEF Next, vars, exchange, Move, Vanish, Tick, Watch, PlaceStop,
     CancelStop, PlaceTp, CancelTp, Leave, Crash, Adopt, EntryOf
<1>2. /\ IsPast(past') /\ past'.missed \in BOOLEAN
      /\ past.missed => past'.missed
      /\ past.bare => past'.bare
  <2>1. \A p \in Int : Fav(p) \in Int
    BY <1>0 DEF Fav
  <2>2. \/ past' = past
        \/ \E p \in Int : past' = [past EXCEPT !.left = Fav(p)]
        \/ past' = [past EXCEPT !.bare = TRUE]
        \/ past' = [past EXCEPT !.missed = TRUE]
    <3>1. mark \in Int
      BY <1>0, Shapes
    <3>2. CASE Move(mark + 1) \/ Move(mark - 1) \/ Leave
      BY <3>1, <3>2 DEF Move, Leave, Missed
    <3>3. CASE UNCHANGED vars \/ Tick \/ Watch \/ PlaceTp \/ CancelTp \/ Adopt
      BY <3>3 DEF vars, Tick, Watch, PlaceTp, CancelTp, Adopt
    <3>4. CASE Vanish \/ PlaceStop \/ CancelStop \/ Crash
      BY <3>4 DEF Vanish, PlaceStop, CancelStop, Crash, Missed
    <3> QED BY <3>2, <3>3, <3>4 DEF Next
  <2> QED BY <1>0, <2>1, <2>2 DEF IsPast
<1> SUFFICES ASSUME Sound'
             PROVE  /\ IsPos(pos') /\ pos'.stop # None /\ pos'.risk = Risk
                    /\ At("unstop")' => run'.plan.stop # None
                    /\ Owes' => Secured'
  BY <1>2 DEF BreakInv
<1>3. Open' => Open
  BY DEF Next, vars, exchange, Move, Vanish, Tick, Watch, PlaceStop,
     CancelStop, PlaceTp, CancelTp, Leave, Crash, Adopt, Open
<1>4. Sound
  BY <1>2, <1>3 DEF Sound, Live
<1>5. /\ IsPos(pos) /\ pos.stop # None /\ pos.risk = Risk
      /\ At("unstop") => run.plan.stop # None
      /\ Owes => Secured
      /\ past'.missed = FALSE /\ past.missed = FALSE /\ Tracked
  BY <1>2, <1>4, ForgottenIsNoPos DEF BreakInv, Sound, Tracked
<1>6. CASE UNCHANGED vars
  BY <1>1, <1>5, <1>6 DEF vars, Owes, Secured, At, Booked, Fav
<1>7. CASE \E p : Move(p)
  <2>1. UNCHANGED <<pos, run>>
    BY <1>7 DEF Move
  <2> QED BY <1>1, <1>5, <2>1 DEF Owes, Secured, At, Booked, Fav
<1>8. CASE Vanish
  BY <1>1, <1>5, <1>8 DEF Vanish, Owes, Secured, At, Booked, Fav
<1>9. CASE Tick
  BY <1>4, <1>9, TickSecures
<1>10. CASE Watch
  <2>1. stops # {} /\ At("idle")
    BY <1>4, <1>10 DEF LevelInv, Guarded, Sound, Watch
  <2>2. /\ IsPos(pos') /\ pos'.stop = pos.stop /\ pos'.risk = pos.risk
        /\ pos'.peak = pos.peak
    BY <1>5, <1>10, <2>1 DEF Watch, IsPos
  <2>3. ~At("unstop")'
    BY <1>10 DEF Watch, Carry, Idle, At
  <2> QED BY <1>1, <1>5, <2>1, <2>2, <2>3
          DEF Owes, Secured, At, Booked, Fav
<1>11. CASE PlaceStop
  <2> DEFINE s == run.plan.stop
  <2>1. At("stop") /\ UNCHANGED pos /\ s \in Int /\ pos.stop \in Int
    BY <1>0, <1>5, <1>11 DEF PlaceStop, Shape, IsRun, IsPos
  <2>2. \/ ~Wanted(s) /\ run' = [run EXCEPT !.at = "tp"]
        \/ Wanted(s) /\ run' = [run EXCEPT !.at = "unstop"]
    BY <1>0, <1>5, <1>11 DEF PlaceStop, Goto, Missed, IsPast
  <2>3. \/ ~Wanted(s) /\ run'.at = "tp" /\ run'.plan = run.plan
        \/ Wanted(s) /\ run'.at = "unstop" /\ run'.plan = run.plan
    BY <1>0, <2>2 DEF Shape, IsRun
  <2>4. ASSUME Owes PROVE Secured'
    <3>1. CASE Booked(pos.stop)
      BY <1>1, <2>1, <3>1 DEF Secured, Booked, Fav
    <3>2. CASE s # None /\ Fav(s) >= Cost /\ Wanted(s)
      <4>1. run'.at = "unstop" /\ run'.plan.stop = s
        BY <2>3, <3>2
      <4>2. Fav(s)' >= Cost
        BY <1>1, <3>2, <4>1 DEF Fav
      <4> QED BY <3>2, <4>1, <4>2 DEF Secured, At, Fav
    <3>3. CASE s # None /\ Fav(s) >= Cost /\ ~Wanted(s)
      <4>1. Distance(s, pos.stop) < MinMove /\ MinMove \in Nat /\ Cost \in Nat
        BY <2>1, <3>3, PriceAssumption DEF Wanted, Distance
      <4>2. Fav(pos.stop) > Cost - MinMove
        <5> DEFINE b == pos.stop
                   e == EntryOf
        <5>1. /\ s \in Int /\ b \in Int /\ e \in Int /\ side \in {1, -1}
              /\ side * (s - e) >= Cost /\ s - b < MinMove /\ b - s < MinMove
          BY <1>0, <2>1, <3>3, <4>1 DEF Distance, Fav
        <5> HIDE DEF s, b, e
        <5>2. side * (b - e) > Cost - MinMove
          BY <4>1, <5>1
        <5> QED BY <5>2 DEF b, e, Fav
      <4>3. Booked(pos.stop)
        BY <1>5, <4>2 DEF Booked
      <4> QED BY <1>1, <2>1, <4>3 DEF Secured, Booked, Fav
    <3> QED BY <1>5, <2>1, <2>4, <3>1, <3>2, <3>3 DEF Secured, At
  <2>5. Owes' => Owes
    BY <1>1, <2>1 DEF Owes, Fav
  <2> QED BY <1>5, <2>1, <2>3, <2>4, <2>5 DEF Wanted, At
<1>12. CASE CancelStop
  <2> DEFINE s == run.plan.stop
  <2>1. /\ At("unstop") /\ s # None /\ s \in Int /\ pos.stop \in Int
    BY <1>0, <1>5, <1>12 DEF CancelStop, Shape, IsRun, IsPos
  <2>2. pos' = Moved(s) /\ run' = [run EXCEPT !.at = "tp"]
    BY <1>0, <1>5, <1>12 DEF CancelStop, Goto, Missed, IsPast
  <2>3. /\ IsPos(pos') /\ pos'.stop = s /\ pos'.risk = pos.risk
        /\ pos'.peak = pos.peak /\ run'.at = "tp"
    <3>1. ~(pos.risk <= 0)
      BY <1>5, PriceAssumption
    <3> QED BY <1>0, <1>5, <2>1, <2>2, <3>1 DEF Moved, IsPos, Shape, IsRun
  <2>4. ASSUME Owes PROVE Booked(s)
    <3>1. Better(pos.stop, s)
      BY <1>4, <2>1 DEF LevelInv, Wiser, Sound
    <3>2. CASE Booked(pos.stop)
      <4> DEFINE b == pos.stop
                 e == EntryOf
                 c == Cost - MinMove
      <4>1. /\ s \in Int /\ b \in Int /\ e \in Int /\ side \in {1, -1}
            /\ c \in Int /\ side * (b - e) > c /\ side * (s - b) > 0
        BY <1>0, <1>5, <2>1, <3>1, <3>2, PriceAssumption
        DEF Better, Booked, Fav
      <4> HIDE DEF s, b, e, c
      <4>2. side * (s - e) > c
        BY <4>1
      <4> QED BY <2>1, <4>2 DEF e, c, Booked, Fav
    <3>3. CASE Fav(s) >= Cost
      BY <1>0, <2>1, <3>3, AtCostBooked
    <3> QED BY <1>5, <2>1, <2>4, <3>2, <3>3 DEF Secured, At
  <2>5. Owes' => Owes
    BY <1>1, <2>3 DEF Owes, Fav
  <2>6. Booked(s) => Booked(pos.stop)'
    BY <1>1, <2>3 DEF Booked, Fav
  <2> QED BY <1>5, <2>1, <2>3, <2>4, <2>5, <2>6 DEF Secured, At
<1>13. CASE PlaceTp
  <2>1. /\ At("tp") /\ UNCHANGED pos
        /\ ~At("unstop")'
    BY <1>0, <1>13 DEF PlaceTp, Goto, Done, Idle, At, Shape, IsRun
  <2> QED BY <1>1, <1>5, <2>1 DEF Owes, Secured, At, Booked, Fav
<1>14. CASE CancelTp
  <2>1. /\ At("untp") /\ ~At("unstop")'
        /\ IsPos(pos') /\ pos'.stop = pos.stop /\ pos'.risk = pos.risk
        /\ pos'.peak = pos.peak
    BY <1>5, <1>14 DEF CancelTp, Done, Idle, At, IsPos
  <2> QED BY <1>1, <1>5, <2>1 DEF Owes, Secured, At, Booked, Fav
<1>15. CASE Leave
  BY <1>0, <1>4, <1>5, <1>15 DEF Leave, Missed, Sound, Live, Open, IsPast
<1>16. CASE Crash
  BY <1>0, <1>5, <1>16 DEF Crash, Missed, IsPast
<1>17. CASE Adopt
  BY <1>5, <1>17 DEF Adopt
<1> QED BY <1>6, <1>7, <1>8, <1>9, <1>10, <1>11, <1>12, <1>13, <1>14, <1>15,
           <1>16, <1>17 DEF Next

\* The first stop is no break-even stop, and the trade has not been ahead.
LEMMA InitSecured == Init => BreakInv
<1> SUFFICES ASSUME Init PROVE BreakInv
  OBVIOUS
<1>1. LevelInv /\ Tracked
  BY InitLevels, ForgottenIsNoPos DEF LevelInv, Shape, Tracked, Init, Opened,
     Forgotten, IsPos
<1>2. /\ IsPos(pos) /\ pos.risk = Risk /\ pos.peak = None
      /\ pos.stop = Above(-Risk) /\ run.at = "idle"
  BY <1>1 DEF Init, Opened, Idle, LevelInv, Shape, Tracked
<1>3. Above(-Risk) # None
  BY PriceAssumption DEF Init, Above, EntryOf, None
<1> QED BY <1>2, <1>3 DEF Init, BreakInv, IsPast, Sound, Owes, At

\* What the two invariants say of the floor.
LEMMA SecuredFloor ==
  ASSUME LevelInv, BreakInv
  PROVE  BreakEvenHolds
<1> SUFFICES ASSUME Sound, At("idle"), Tracked, Owes
             PROVE  Fav(Floor) > Cost - MinMove
  BY DEF BreakEvenHolds, Sound, Live, Owes
<1>1. IsPos(pos) /\ Booked(pos.stop) /\ pos.stop # None
  BY DEF BreakInv, Secured, At
<1>2. Floor \in stops /\ ~Better(Floor, pos.stop)
  BY <1>1, FloorIsStop DEF LevelInv, Guarded, Sound, Live, BookedStopIsLive
<1> DEFINE f == Floor
           b == pos.stop
           e == EntryOf
           c == Cost - MinMove
<1>3. /\ f \in Int /\ b \in Int /\ e \in Int /\ side \in {1, -1}
      /\ c \in Int /\ side * (b - e) > c /\ side * (b - f) <= 0
  BY <1>1, <1>2, Shapes, PriceAssumption
  DEF LevelInv, Better, Booked, Fav, IsPos
<1> HIDE DEF f, b, e, c
<1>4. side * (f - e) > c
  BY <1>3
<1> QED BY <1>4 DEF f, e, c, Fav

\* Once a trade has been 1R ahead it may not lose (supervise.py, rule 1;
\* engine.py, apply_plan and replace_protective), whatever the other rules
\* ask for, if break even is nearer than 1R: else the market is past the
\* level when the tick asks for it.
THEOREM BreakEvenIsHeld == ASSUME Cost < Risk PROVE Spec => []BreakEvenHolds
<1>1. Init => BreakInv
  BY InitSecured
<1>2. LevelInv /\ BreakInv /\ [Next]_vars => BreakInv'
  BY NextSecures
<1>3. LevelInv /\ BreakInv => BreakEvenHolds
  BY SecuredFloor
<1> QED BY <1>1, <1>2, <1>3, LevelInvariant, PTL DEF Spec

-------------------------------------------------------------------------------
(* Types.                                                                  *)

TargetOrders == [at : Nat, qty : 1 .. 2]
Positions ==
  [stop : Nat, stopId : Nat, tp : Nat, qty : 1 .. 2,
   tpId : [at : Nat, qty : 0 .. 2], peak : Nat, risk : Nat, goal : Nat,
   ref : Nat, runner : BOOLEAN]
Plans ==
  [stop : Nat, tp : {NoTp} \union TargetOrders, split : BOOLEAN,
   leave : BOOLEAN, watch : BOOLEAN, risk : Nat]
Threads ==
  [at : {"idle", "stop", "unstop", "tp", "untp", "leave"}, plan : Plans]

Types ==
  /\ stops \subseteq Nat /\ tps \subseteq TargetOrders /\ qty \in 0 .. 2
  /\ pos = Forgotten \/ pos \in Positions
  /\ run \in Threads /\ (At("idle") => run.plan = NoPlan)
  /\ faults \in 0 .. MaxFaults

LevelTypes == LevelInv /\ Types

\* Numbers of the configuration.
LEMMA Numbers ==
  /\ Low \in Nat /\ Low > 0 /\ High \in Nat /\ Cost \in Nat /\ Goal \in Nat
  /\ Risk \in Nat /\ Risk > 0 /\ Atr \in Nat /\ Entry \in Low .. High
  /\ Risk < Entry /\ MaxFaults \in Nat
  /\ Step \in Nat /\ Step > 0 /\ TargetFrom \in Nat /\ TargetLead \in Nat
  /\ Bars \in Nat /\ Gap \in Nat /\ Fallback \in Nat
  /\ StopMult \in Nat /\ StopMult > 0
  /\ TargetMult \in Nat /\ ChoppyMult \in Nat
BY PriceAssumption, SettingsAssumption
DEF LadderSettings, HorizonSettings, ProtectSettings

\* An empty plan is a plan.
LEMMA NoPlanIsPlan == NoPlan \in Plans
BY DEF NoPlan, Plans, NoTp, None

\* A position of the book in play is one of the shape the steps work on.
LEMMA BookTyped ==
  ASSUME LevelTypes, IsPos(pos)
  PROVE  pos \in Positions
BY ForgottenIsNoPos DEF LevelTypes, Types

\* A fault leaves what is left of them.
LEMMA LevelFaults ==
  ASSUME LevelTypes, Fault \/ Ok
  PROVE  faults' \in 0 .. MaxFaults
BY Numbers DEF LevelTypes, Types, Fault, Ok

\* A distance short of the lowest price leaves a price.
LEMMA DistanceLeaves ==
  ASSUME side \in {1, -1}, NEW from \in Low .. High, NEW d \in Nat, d < Low
  PROVE  from + side * d \in Nat /\ from - side * d \in Nat
<1>1. CASE side = 1
  BY <1>1, Numbers
<1>2. CASE side = -1
  BY <1>2, Numbers
<1> QED BY <1>1, <1>2

\* The levels the exit rules plan are prices.
LEMMA SuperviseTyped ==
  ASSUME Shape, NEW p \in Positions, IsPos(p), p.peak \in Low .. High,
         NEW r \in Readings
  PROVE  Supervise(p, r) \in Plans
<1>0. /\ side \in {1, -1} /\ mark \in Low .. High /\ EntryOf \in Low .. High
  BY Numbers DEF Shape, EntryOf
<1>1. NewStop(p, r) \in Nat
  <2> DEFINE asked == Stops(p, r)
             top   == IF side = 1 THEN High + Low + Cost ELSE 0
  <2>1. CASE asked = {}
    BY <2>1 DEF NewStop, None
  <2>2. CASE asked # {}
    <3>1. AskedRange \subseteq Nat /\ None \notin AskedRange
      BY Numbers DEF AskedRange, None
    <3>2. asked \subseteq AskedRange
      BY AskedInRange
    <3>3. top \in Int /\ \A s \in asked : side * (top - s) >= 0
      BY <1>0, <3>2, Numbers DEF AskedRange
    <3> HIDE DEF asked, top
    <3>4. Tightest(asked) \in asked
      <4>a. AskedRange \subseteq Int
        BY <3>1
      <4>1. asked \in SUBSET Int /\ None \notin asked
        BY <3>1, <3>2, <4>a, Zenon
      <4> QED BY <1>0, <2>2, <3>3, <4>1, TightestIsOne
    <3>5. Tightest(asked) \in Nat
      BY <3>1, <3>2, <3>4
    <3> QED BY <3>5 DEF NewStop, asked, None
  <2> QED BY <2>1, <2>2
<1>2. Pulled(p, r) \in Nat
  <2>1. CASE Gives("harvest", p, r)
    <3>1. r.drift = 1
      BY <2>1 DEF Gives, Outcome, Readings
    <3>2. mark + side * Bars \in Nat
      BY <1>0, Numbers, DistanceFacts, DistanceLeaves
    <3>3. mark + side * Bars * r.drift = mark + side * Bars
      BY <1>0, <3>1, Numbers
    <3> QED BY <3>2, <3>3 DEF Pulled, None
  <2>2. CASE ~Gives("harvest", p, r)
    BY <2>2 DEF Pulled, None
  <2> QED BY <2>1, <2>2
<1>3. Pushed(p, r) \in Nat
  <2> DEFINE d == (Steps(p) + TargetLead) * Step
  <2>1. CASE ~(TargetFrom > 0 /\ Steps(p) >= TargetFrom)
    BY <2>1 DEF Pushed, None
  <2>2. CASE TargetFrom > 0 /\ Steps(p) >= TargetFrom
    <3>1. Fav(p.peak) \in Int
      BY <1>0, Numbers DEF Fav
    <3>2. Steps(p) \in Int /\ Steps(p) * Step <= Fav(p.peak)
      BY <3>1, StepsFit DEF Steps
    <3>3. Steps(p) \in Nat
      BY <2>2, <3>2, Numbers
    <3>4. PICK a \in Nat, b \in Nat : a = Steps(p) * Step
                                      /\ b = TargetLead * Step
      BY <3>3, Numbers
    <3>5. d = a + b
      BY <3>3, <3>4, Numbers
    <3> HIDE DEF d
    <3>6. Above(d) \in Nat
      <4>1. CASE side = 1
        BY <1>0, <3>4, <3>5, <4>1, Numbers DEF Above
      <4>2. CASE side = -1
        <5>1. a <= EntryOf - p.peak /\ b < Low
          BY <1>0, <3>2, <3>4, <4>2, DistanceFacts, Numbers DEF Fav
        <5> QED BY <1>0, <3>4, <3>5, <4>2, <5>1, Numbers DEF Above
      <4> QED BY <1>0, <4>1, <4>2
    <3> QED BY <3>6 DEF Pushed, None, d
  <2> QED BY <2>1, <2>2
<1>4. NewTp(p, r) \in {NoTp} \union TargetOrders
  <2> DEFINE moved == IF Pushed(p, r) # None THEN Pushed(p, r)
                      ELSE Pulled(p, r)
             at    == IF moved # None THEN moved ELSE p.tp
             size  == IF Arms(p, r) THEN Half(p) ELSE p.qty
  <2>1. moved \in Nat
    BY <1>2, <1>3
  <2>2. at \in Nat
    <3> HIDE DEF moved
    <3> QED BY <2>1 DEF Positions
  <2>3. size \in 1 .. 2
    BY DEF Arms, Half, Positions
  <2>4. NewTp(p, r) \in {NoTp, [at |-> at, qty |-> size]}
    BY DEF NewTp
  <2> HIDE DEF moved, at, size
  <2> QED BY <2>2, <2>3, <2>4 DEF TargetOrders
<1>5. Arms(p, r) \in BOOLEAN
  BY DEF Arms
<1>6. CASE ~(p.risk <= 0) /\ ~Leaves(p, r)
  <2> DEFINE stop == IF Passed(NewStop(p, r)) THEN None ELSE NewStop(p, r)
  <2>1. stop \in Nat
    BY <1>1 DEF None
  <2>2. Supervise(p, r) = [stop |-> stop, tp |-> NewTp(p, r),
                           split |-> Arms(p, r), leave |-> FALSE,
                           watch |-> FALSE, risk |-> 0]
    BY <1>6 DEF Supervise, NoPlan
  <2> HIDE DEF stop
  <2> QED BY <1>4, <1>5, <2>1, <2>2 DEF Plans
<1>7. CASE p.risk <= 0 \/ Leaves(p, r)
  <2>1. Supervise(p, r) \in {NoPlan, [NoPlan EXCEPT !.leave = TRUE]}
    BY <1>7 DEF Supervise
  <2> QED BY <2>1, NoPlanIsPlan DEF Plans
<1> QED BY <1>6, <1>7

\* The larger of two numbers.
LEMMA MaxOfTwo ==
  ASSUME NEW a \in Nat, NEW b \in Nat
  PROVE  /\ Max({a, b}) \in {a, b}
         /\ Max({a, b}) >= a /\ Max({a, b}) >= b
<1>1. \E x \in {a, b} : \A y \in {a, b} : x >= y
  OBVIOUS
<1> QED BY <1>1 DEF Max

\* The levels that are rebuilt are prices, with a risk that is none or more.
LEMMA RebuiltTyped ==
  ASSUME LevelTypes, IsPos(pos), Open, NEW r \in Readings
  PROVE  Rebuilt(pos, r) \in Plans
<1>0. /\ side \in {1, -1} /\ mark \in Low .. High /\ pos \in Positions
      /\ qty \in 1 .. 2
  BY BookTyped DEF LevelTypes, LevelInv, Shape, Types, Open
<1> DEFINE dist(m, f) == Max({Gap, IF r.atr > 0 THEN m * r.atr ELSE f})
           mult  == IF r.trend = "weak" THEN ChoppyMult ELSE TargetMult
           half  == (Fallback * mult) \div StopMult
           reach == dist(mult, half)
           room  == dist(StopMult, Fallback)
           over  == /\ stops = {} /\ pos.stop # None
                    /\ side * (mark - pos.stop) < 0
           stop  == IF pos.stop # None /\ side * (mark - pos.stop) >= Gap
                    THEN pos.stop ELSE mark - side * room
           tp    == IF pos.tp # None /\ side * (pos.tp - mark) >= Gap
                    THEN pos.tp ELSE mark + side * reach
<1>1. ASSUME NEW m \in Nat, m * Atr < Low, NEW f \in Nat, f < Low
      PROVE  dist(m, f) \in Nat /\ dist(m, f) < Low /\ dist(m, f) >= Gap
  <2> DEFINE x == IF r.atr > 0 THEN m * r.atr ELSE f
  <2>1. x \in Nat /\ x < Low
    <3>1. r.atr = 0 \/ r.atr = Atr
      BY DEF Readings
    <3>2. CASE r.atr = 0
      BY <1>1, <3>2
    <3>3. CASE r.atr = Atr
      <4>1. m * Atr \in Nat
        BY Numbers
      <4> QED BY <1>1, <3>3, <4>1
    <3> QED BY <3>1, <3>2, <3>3
  <2>2. dist(m, f) = Max({Gap, x})
    OBVIOUS
  <2> HIDE DEF x, dist
  <2> QED BY <2>1, <2>2, MaxOfTwo, Numbers, DistanceFacts
<1>2. mult \in {ChoppyMult, TargetMult} /\ mult \in Nat /\ mult * Atr < Low
  BY Numbers, DistanceFacts
<1>3. half \in Nat /\ half < Low
  <2>1. half = (Fallback * ChoppyMult) \div StopMult
        \/ half = (Fallback * TargetMult) \div StopMult
    BY <1>2
  <2>2. ASSUME NEW m \in Nat PROVE (Fallback * m) \div StopMult \in Nat
    <3>1. Fallback * m \in Nat
      BY Numbers
    <3>2. \A a \in Nat, b \in Nat \ {0} : a \div b \in Nat
      OBVIOUS
    <3> QED BY <3>1, <3>2, Numbers
  <2> QED BY <2>1, <2>2, DistanceFacts, Numbers
<1> HIDE DEF mult, half
<1>4. /\ reach \in Nat /\ reach < Low
      /\ room \in Nat /\ room < Low /\ room >= Gap
  BY <1>1, <1>2, <1>3, Numbers, DistanceFacts
<1> HIDE DEF dist, reach, room
<1>5. mark - side * room \in Nat /\ mark + side * reach \in Nat
  BY <1>0, <1>4, DistanceLeaves
<1>6. stop \in Nat /\ tp \in Nat
  BY <1>0, <1>5 DEF Positions
<1>7. side * (mark - stop) \in Nat
  <2>1. CASE stop = mark - side * room
    BY <1>0, <1>4, <2>1, Numbers
  <2>2. CASE side * (mark - stop) >= Gap
    BY <1>0, <1>6, <2>2, Numbers
  <2> QED BY <2>1, <2>2
<1>8. Rebuilt(pos, r) =
        IF over THEN [NoPlan EXCEPT !.leave = TRUE]
        ELSE [NoPlan EXCEPT
                !.watch = TRUE, !.risk = side * (mark - stop),
                !.stop = IF stops = {} THEN stop ELSE None,
                !.tp = IF tps = {} THEN [at |-> tp, qty |-> qty] ELSE NoTp]
  BY DEF Rebuilt, dist, mult, half, reach, room
<1> HIDE DEF stop, tp, over
<1>9. CASE over
  BY <1>8, <1>9, NoPlanIsPlan DEF Plans
<1>10. CASE ~over
  <2> DEFINE s == IF stops = {} THEN stop ELSE None
             t == IF tps = {} THEN [at |-> tp, qty |-> qty] ELSE NoTp
             k == side * (mark - stop)
  <2>1. s \in Nat /\ t \in {NoTp} \union TargetOrders /\ k \in Nat
    BY <1>0, <1>6, <1>7 DEF None, TargetOrders
  <2>2. Rebuilt(pos, r) = [stop |-> s, tp |-> t, split |-> FALSE,
                           leave |-> FALSE, watch |-> TRUE, risk |-> k]
    BY <1>8, <1>10 DEF NoPlan
  <2> HIDE DEF s, t, k
  <2> QED BY <2>1, <2>2 DEF Plans
<1> QED BY <1>9, <1>10

\* A plan that is carried out, or none.
LEMMA CarryTyped ==
  ASSUME NEW plan \in Plans, Carry(plan)
  PROVE  run' \in Threads /\ (At("idle")' => run'.plan = NoPlan)
<1>1. CASE plan = NoPlan
  BY <1>1, NoPlanIsPlan DEF Carry, Idle, Threads
<1>2. CASE plan # NoPlan
  BY <1>2 DEF Carry, Threads, At
<1> QED BY <1>1, <1>2

\* The thread goes on with its plan, or is done with it.
LEMMA GoesOn ==
  ASSUME LevelTypes, Done \/ \E p \in {"unstop", "tp", "untp"} : Goto(p)
  PROVE  run' \in Threads /\ (At("idle")' => run'.plan = NoPlan)
<1>1. CASE Done
  BY <1>1, NoPlanIsPlan DEF Done, Idle, Threads
<1>2. CASE \E p \in {"unstop", "tp", "untp"} : Goto(p)
  BY <1>2 DEF Goto, LevelTypes, Types, Threads, At
<1> QED BY <1>1, <1>2

\* Every step keeps the types.
LEMMA NextLevelTypes ==
  ASSUME LevelTypes, [Next]_vars
  PROVE  Types'
<1>0. /\ Shape /\ stops \subseteq Nat /\ tps \subseteq TargetOrders
      /\ qty \in 0 .. 2 /\ (pos = Forgotten \/ pos \in Positions)
      /\ run \in Threads /\ (At("idle") => run.plan = NoPlan)
      /\ faults \in 0 .. MaxFaults
      /\ side \in {1, -1} /\ mark \in Low .. High
      /\ (IsPos(pos) => pos \in Positions)
      /\ run.plan \in Plans
  BY BookTyped DEF LevelTypes, LevelInv, Types, Shape, Threads
<1>1. CASE UNCHANGED vars
  BY <1>1 DEF vars, exchange, LevelTypes, Types, At
<1>2. CASE \E p : Move(p)
  <2>1. qty' \in 0 .. 2
    <3>1. CASE qty' = 0
      BY <3>1
    <3>2. ASSUME NEW paid, qty' = Max({0, qty - Sold(paid)})
          PROVE  qty' \in 0 .. 2
      <4>1. Sold(paid) \in 0 .. 2
        BY DEF Sold
      <4>2. PICK m : m = qty - Sold(paid)
        OBVIOUS
      <4>3. m \in Int /\ m <= 2 /\ qty' = Max({0, m})
        BY <1>0, <3>2, <4>1, <4>2
      <4>4. \E x \in {0, m} : \A y \in {0, m} : x >= y
        BY <4>3
      <4>5. Max({0, m}) \in {0, m} /\ Max({0, m}) >= 0
        BY <4>3, <4>4 DEF Max
      <4> QED BY <4>3, <4>5
    <3> QED BY <1>2, <3>1, <3>2 DEF Move
  <2> QED BY <1>0, <1>2, <2>1 DEF Move, Types, At
<1>3. CASE Vanish
  BY <1>0, <1>3, LevelFaults DEF Vanish, Types, At
<1>4. CASE Tick
  <2>1. PICK r \in Readings, peak \in Low .. High :
          /\ pos' = [pos EXCEPT !.peak = peak]
          /\ Carry(Supervise(pos', r))
    <3>1. IsPos(pos)
      BY <1>0, <1>4 DEF Tick, Tracked, Shape
    <3>2. EntryOf \in Low .. High
      BY <1>0, Numbers DEF EntryOf
    <3> DEFINE seen == IF pos.peak = None THEN EntryOf ELSE pos.peak
               top  == IF Better(seen, mark) THEN mark ELSE seen
    <3>3. top \in Low .. High
      BY <1>0, <3>1, <3>2 DEF IsPos
    <3> QED BY <1>4, <3>3 DEF Tick
  <2>2. /\ IsPos(pos) /\ pos \in Positions
        /\ UNCHANGED <<stops, tps, qty, faults>>
    BY <1>0, <1>4 DEF Tick, Tracked, Shape, exchange
  <2>3. pos' \in Positions /\ IsPos(pos') /\ pos'.peak \in Low .. High
    BY <2>1, <2>2, Numbers DEF Positions, IsPos
  <2>4. Supervise(pos', r) \in Plans
    BY <1>0, <2>3, SuperviseTyped
  <2>5. run' \in Threads /\ (At("idle")' => run'.plan = NoPlan)
    BY <2>1, <2>4, CarryTyped
  <2> QED BY <1>0, <2>2, <2>3, <2>5 DEF Types
<1>5. CASE Watch
  <2>1. /\ IsPos(pos) /\ pos \in Positions /\ Open
        /\ UNCHANGED <<stops, tps, qty, faults>>
    BY <1>0, <1>5 DEF Watch, Tracked, Shape, exchange
  <2>2. PICK plan :
          /\ \E r \in Readings : plan = Rebuilt(pos, r)
          /\ Carry(plan)
          /\ pos' = [pos EXCEPT !.qty = qty,
                       !.stopId = IF plan.stop # None THEN None ELSE @,
                       !.tpId = IF plan.tp # NoTp THEN NoTp ELSE @]
    BY <1>5 DEF Watch
  <2>3. run' \in Threads /\ (At("idle")' => run'.plan = NoPlan)
    BY <2>1, <2>2, RebuiltTyped, CarryTyped
  <2>4. qty \in 1 .. 2
    BY <1>0, <2>1 DEF Open
  <2>5. PICK id, tpId :
          /\ pos' = [pos EXCEPT !.qty = qty, !.stopId = id, !.tpId = tpId]
          /\ id \in {None, pos.stopId} /\ tpId \in {NoTp, pos.tpId}
    <3>1. PICK id : id = IF plan.stop # None THEN None ELSE pos.stopId
      OBVIOUS
    <3>2. PICK tpId : tpId = IF plan.tp # NoTp THEN NoTp ELSE pos.tpId
      OBVIOUS
    <3>3. pos' = [pos EXCEPT !.qty = qty, !.stopId = id, !.tpId = tpId]
      BY <2>1, <2>2, <3>1, <3>2 DEF Positions
    <3> QED BY <3>1, <3>2, <3>3
  <2>6. id \in Nat /\ tpId \in [at : Nat, qty : 0 .. 2]
    BY <2>1, <2>5 DEF Positions, NoTp, None
  <2>7. pos' \in Positions
    BY <2>1, <2>4, <2>5, <2>6 DEF Positions
  <2> QED BY <1>0, <2>1, <2>3, <2>7 DEF Types
<1>6. CASE PlaceStop
  <2>1. run.plan.stop \in Nat
    BY <1>0 DEF Plans
  <2>2. stops' \subseteq Nat
    BY <1>0, <1>6, <2>1 DEF PlaceStop
  <2>3. run' \in Threads /\ (At("idle")' => run'.plan = NoPlan)
    BY <1>6, GoesOn DEF PlaceStop
  <2>4. faults' \in 0 .. MaxFaults
    BY <1>6, LevelFaults DEF PlaceStop
  <2> QED BY <1>0, <1>6, <2>2, <2>3, <2>4 DEF PlaceStop, Types
<1>7. CASE CancelStop
  <2>1. IsPos(pos) /\ pos \in Positions
    BY <1>0, <1>7 DEF CancelStop, Shape, At
  <2>2. pos' = pos \/ pos' = Moved(run.plan.stop)
    BY <1>7 DEF CancelStop
  <2>3. pos' \in Positions
    <3>1. run.plan.stop \in Nat /\ run.plan.risk \in Nat
      BY <1>0 DEF Plans
    <3> QED BY <2>1, <2>2, <3>1 DEF Moved, Positions
  <2>4. run' \in Threads /\ (At("idle")' => run'.plan = NoPlan)
    BY <1>7, GoesOn DEF CancelStop
  <2>5. faults' \in 0 .. MaxFaults
    BY <1>7, LevelFaults DEF CancelStop
  <2> QED BY <1>0, <1>7, <2>3, <2>4, <2>5 DEF CancelStop, Types
<1>8. CASE PlaceTp
  <2>1. tps' \subseteq TargetOrders
    BY <1>0, <1>8 DEF PlaceTp, Plans
  <2>2. run' \in Threads /\ (At("idle")' => run'.plan = NoPlan)
    BY <1>8, GoesOn DEF PlaceTp
  <2>3. faults' \in 0 .. MaxFaults
    BY <1>8, LevelFaults DEF PlaceTp
  <2> QED BY <1>0, <1>8, <2>1, <2>2, <2>3 DEF PlaceTp, Types
<1>9. CASE CancelTp
  <2>1. IsPos(pos) /\ pos \in Positions
    BY <1>0, <1>9 DEF CancelTp, Shape, At
  <2> DEFINE t == run.plan.tp
  <2>2. t \in [at : Nat, qty : 0 .. 2] /\ t.at \in Nat
        /\ run.plan.split \in BOOLEAN
    BY <1>0 DEF Plans, NoTp, None, TargetOrders
  <2>3. \/ pos' = pos
        \/ pos' = [pos EXCEPT !.tp = t.at, !.tpId = t,
                     !.runner = @ \/ run.plan.split,
                     !.goal = IF @ = None THEN t.at ELSE @]
    BY <1>9 DEF CancelTp
  <2> HIDE DEF t
  <2>4. pos' \in Positions
    BY <2>1, <2>2, <2>3 DEF Positions
  <2>5. run' \in Threads /\ (At("idle")' => run'.plan = NoPlan)
    BY <1>9, GoesOn DEF CancelTp
  <2>6. faults' \in 0 .. MaxFaults
    BY <1>9, LevelFaults DEF CancelTp
  <2>7. UNCHANGED <<stops, qty>> /\ tps' \subseteq tps
    BY <1>9 DEF CancelTp
  <2> QED BY <1>0, <2>4, <2>5, <2>6, <2>7 DEF Types
<1>10. CASE Leave
  <2>1. run' \in Threads /\ (At("idle")' => run'.plan = NoPlan)
    BY <1>10, GoesOn DEF Leave
  <2>2. faults' \in 0 .. MaxFaults
    BY <1>10, LevelFaults DEF Leave
  <2>3. /\ UNCHANGED pos /\ qty' \in {0, qty} /\ stops' \subseteq stops
        /\ tps' \subseteq tps
    BY <1>10 DEF Leave
  <2> QED BY <1>0, <2>1, <2>2, <2>3 DEF Types
<1>11. CASE Crash
  <2>1. run' \in Threads /\ (At("idle")' => run'.plan = NoPlan)
    BY <1>11, GoesOn DEF Crash
  <2>2. faults' \in 0 .. MaxFaults
    BY <1>11, LevelFaults DEF Crash
  <2> QED BY <1>0, <1>11, <2>1, <2>2 DEF Crash, Types, exchange
<1>12. CASE Adopt
  <2>1. PICK s \in IF stops = {} THEN {None} ELSE stops,
             t \in IF tps = {} THEN {NoTp} ELSE tps :
          pos' = [stop |-> s, stopId |-> s, tp |-> t.at, tpId |-> t,
                  qty |-> qty, peak |-> None, risk |-> AdoptedRisk(s),
                  goal |-> t.at, ref |-> None, runner |-> FALSE]
    BY <1>12 DEF Adopt
  <2>2. s \in Nat /\ t \in [at : Nat, qty : 0 .. 2] /\ t.at \in Nat
    BY <1>0 DEF TargetOrders, NoTp, None
  <2>3. AdoptedRisk(s) \in Nat
    <3>1. EntryOf \in Nat
      BY <1>0, Numbers DEF EntryOf
    <3> QED BY <2>2, <3>1 DEF AdoptedRisk, Distance
  <2>4. qty \in 1 .. 2
    BY <1>0, <1>12 DEF Adopt, Open
  <2>5. pos' \in Positions
    BY <2>1, <2>2, <2>3, <2>4 DEF Positions, None
  <2> QED BY <1>0, <1>12, <2>5 DEF Adopt, Types, exchange, At
<1> QED BY <1>1, <1>2, <1>3, <1>4, <1>5, <1>6, <1>7, <1>8, <1>9, <1>10,
           <1>11, <1>12 DEF Next

\* The position and its orders at the start.
LEMMA InitLevelTypes == Init => Types
<1> SUFFICES ASSUME Init PROVE Types
  OBVIOUS
<1>1. /\ side \in {1, -1} /\ EntryOf \in Low .. High
  BY Numbers DEF Init, EntryOf
<1>2. Above(-Risk) \in Nat /\ Above(Goal) \in Nat /\ Above(1) \in Nat
  <2>1. CASE side = 1
    BY <1>1, <2>1, Numbers DEF Above, EntryOf
  <2>2. CASE side = -1
    BY <1>1, <2>2, Numbers, DistanceFacts DEF Above
  <2> QED BY <1>1, <2>1, <2>2
<1>3. pos \in Positions
  <2>1. [at |-> Above(Goal), qty |-> 2] \in [at : Nat, qty : 0 .. 2]
    BY <1>2
  <2> QED BY <1>2, <2>1, Numbers DEF Init, Opened, Positions, None
<1>4. run \in Threads /\ run.plan = NoPlan
  BY NoPlanIsPlan DEF Init, Idle, Threads
<1>5. stops \subseteq Nat /\ tps \subseteq TargetOrders
  BY <1>2 DEF Init, TargetOrders
<1> QED BY <1>3, <1>4, <1>5, Numbers DEF Init, Types

\* Every variable of the moving stops keeps its type, and no order is placed
\* at a price that is none (supervise.py, protect.py, engine.py apply_plan).
THEOREM LevelTyping == Spec => []TypeOK
<1>1. Init => LevelTypes
  BY InitLevels, InitLevelTypes DEF LevelTypes
<1>2. LevelTypes /\ [Next]_vars => LevelTypes'
  BY NextLevels, NextLevelTypes DEF LevelTypes
<1>3. LevelTypes => TypeOK
  <2> SUFFICES ASSUME LevelTypes PROVE TypeOK
    OBVIOUS
  <2>1. Types /\ side \in {1, -1} /\ mark \in Low .. High
    BY DEF LevelTypes, LevelInv, Shape
  <2>2. run.at \in {"idle", "stop", "unstop", "tp", "untp", "leave"}
    BY <2>1 DEF Types, Threads
  <2> QED BY <2>1, <2>2 DEF TypeOK, Types, TargetOrders, Positions
<1> QED BY <1>1, <1>2, <1>3, PTL DEF Spec
===============================================================================
