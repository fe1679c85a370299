----------------------------- MODULE GainerProofs -----------------------------
(***************************************************************************)
(* Who owns a position, when a coin may be bought again, how an open()     *)
(* ends and how much one settlement buys, for every finite set of coins,   *)
(* every limit and any number of faults.                                   *)
(***************************************************************************)
EXTENDS Gainer, FiniteSetTheorems, TLAPS

Opening == run.at \in {"open", "fill", "stop", "target", "flatten", "cancel"}

\* A live process has every position a strategy tracks under a strategy; a
\* dead one has none.
Tagged ==
  /\ Up => \A m \in Miners, s \in Symbols : Mine(m, s) => book[s] \in Miners
  /\ ~Up => \A s \in Symbols : book[s] = "none"

\* What the handlers have left to do.
Work ==
  /\ Opening => /\ run.sym \in Symbols \ Tracked(run.who)
                /\ run.sym \notin run.todo
  /\ Opening \/ At("round") => run.todo \intersect Tracked(run.who) = {}
  /\ At("ladder") => run.todo \subseteq Tracked(run.who)
  /\ At("judge") => run.who = "gainer" /\ run.todo \subseteq Tracked("gainer")
  /\ At("round") => run.why # "leader"
  /\ Opening /\ run.why = "leader" => run.who = "gainer" /\ run.todo = {}

\* A coin that is watched passed the filters.
Watched ==
  /\ \A s \in Coins : rearm[s] # "no" => s \in Symbols
  /\ board.waiting \in Symbols \union {NoSym}

\* What was sold and is tracked no more is on the cooldown list, and a leader
\* about to be bought is through with it.
Cooled ==
  /\ \A s \in Symbols : soldAt[s] <= now
  /\ \A s \in Symbols \ Tracked("gainer") : closedAt[s] >= soldAt[s]
  /\ At("open") /\ run.why = "leader" => ~Cooling(run.sym)

\* Between the stop and the end of an open().
Settling ==
  /\ At("target") => owner[run.sym] # run.who \/ stop[run.sym]
  /\ At("cancel") => owner[run.sym] # run.who

GainerInv == TypeOK /\ Tagged /\ Work /\ Watched /\ Cooled /\ Settling

-------------------------------------------------------------------------------
(* Types.                                                                  *)

Ats == {"idle", "ladder", "judge", "round", "open", "fill", "stop", "target",
        "flatten", "cancel", "down"}
Runs == [at : Ats, who : Miners, sym : Coins \union {NoSym},
         todo : SUBSET Symbols, why : {"", "leader", "reentry", "escaped"}]
Boards == [leader : Coins \union {NoSym}, cand : Coins \union {NoSym},
           since : Times, based : BOOLEAN, waiting : Coins \union {NoSym}]
Rounds == [done : Stamps, of : Stamps, bought : Nat]

\* TypeOK in these names.
Types ==
  /\ owner \in [Symbols -> Miners \union {"none", "user"}]
  /\ stop \in [Symbols -> BOOLEAN]
  /\ book \in [Symbols -> Miners \union {"none", "generic"}]
  /\ opened \in [Miners -> [Symbols -> Stamps]]
  /\ armed \subseteq Tracked("gainer")
  /\ closedAt \in [Symbols -> Stamps]
  /\ rearm \in [Coins -> {"no", "unknown", "high"}]
  /\ board \in Boards /\ round \in Rounds
  /\ halted \in BOOLEAN /\ run \in Runs
  /\ now \in Times /\ faults \in 0 .. MaxFaults
  /\ soldAt \in [Symbols -> Stamps]

LEMMA TypesAre == (TypeOK <=> Types) /\ (TypeOK' <=> Types')
BY DEF TypeOK, Types, Boards, Rounds, Runs, Ats

\* Where the thread may go.
LEMMA RunsStay ==
  ASSUME run \in Runs
  PROVE  /\ Idle \in Runs
         /\ \A p \in Ats : [run EXCEPT !.at = p] \in Runs
         /\ [Idle EXCEPT !.why = "escaped"] \in Runs
         /\ \A s : [run EXCEPT !.todo = @ \ {s}] \in Runs
         /\ \A m \in Miners, S \in SUBSET Symbols, p \in {"ladder", "round"} :
              [Idle EXCEPT !.at = p, !.who = m, !.todo = S] \in Runs
         /\ \A s \in Coins, w \in {"leader", "reentry"} :
              [Idle EXCEPT !.at = "open", !.sym = s, !.why = w] \in Runs
         /\ \A s \in Coins, S \in SUBSET Symbols :
              [Idle EXCEPT !.at = "judge", !.sym = s, !.todo = S] \in Runs
         /\ \A s \in Coins : [run EXCEPT !.at = "open", !.sym = s,
                                        !.todo = @ \ {s}] \in Runs
<1>1. Idle \in Runs
  BY DEF Idle, Runs, Ats, Miners
<1>2. \A p \in Ats : [run EXCEPT !.at = p] \in Runs
  BY DEF Runs
<1>3. [Idle EXCEPT !.why = "escaped"] \in Runs
  BY <1>1 DEF Runs
<1>4. \A s : [run EXCEPT !.todo = @ \ {s}] \in Runs
  BY DEF Runs
<1>5. \A m \in Miners, S \in SUBSET Symbols, p \in {"ladder", "round"} :
        [Idle EXCEPT !.at = p, !.who = m, !.todo = S] \in Runs
  BY <1>1 DEF Runs, Ats
<1>6. \A s \in Coins, w \in {"leader", "reentry"} :
        [Idle EXCEPT !.at = "open", !.sym = s, !.why = w] \in Runs
  BY <1>1 DEF Runs, Ats
<1>7. \A s \in Coins, S \in SUBSET Symbols :
        [Idle EXCEPT !.at = "judge", !.sym = s, !.todo = S] \in Runs
  BY <1>1 DEF Runs, Ats
<1>8. \A s \in Coins : [run EXCEPT !.at = "open", !.sym = s,
                                 !.todo = @ \ {s}] \in Runs
  BY DEF Runs, Ats
<1> QED BY <1>1, <1>2, <1>3, <1>4, <1>5, <1>6, <1>7, <1>8

\* The thread stays where it is, or its handler is over.
Rests == run' = run \/ (Up /\ run'.at = "idle")

\* What leaves the tracks alone.
LEMMA Frames ==
  ASSUME GainerInv
  PROVE  /\ UNCHANGED opened => \A m : Tracked(m)' = Tracked(m)
         /\ UNCHANGED <<owner, opened, book>> /\ (Up' <=> Up) => Tagged'
         /\ UNCHANGED opened /\ Rests => Work'
         /\ UNCHANGED <<rearm, board>> => Watched'
         /\ UNCHANGED <<opened, closedAt, soldAt, now>> /\ Rests => Cooled'
         /\ UNCHANGED <<owner, stop>> /\ Rests => Settling'
         /\ Rests => (Up' <=> Up)
<1>1. UNCHANGED opened => \A m : Tracked(m)' = Tracked(m)
  BY DEF Tracked
<1>2. UNCHANGED <<owner, opened, book>> /\ (Up' <=> Up) => Tagged'
  BY <1>1 DEF GainerInv, Tagged, Mine
<1>3. UNCHANGED opened /\ Rests => Work'
  BY <1>1 DEF GainerInv, Work, Opening, At, Rests
<1>4. UNCHANGED <<rearm, board>> => Watched'
  BY DEF GainerInv, Watched
<1>5. UNCHANGED <<opened, closedAt, soldAt, now>> /\ Rests => Cooled'
  BY <1>1 DEF GainerInv, Cooled, Cooling, At, Rests
<1>6. UNCHANGED <<owner, stop>> /\ Rests => Settling'
  BY DEF GainerInv, Settling, At, Rests
<1>7. Rests => (Up' <=> Up)
  BY DEF Rests, Up, At
<1> QED BY <1>1, <1>2, <1>3, <1>4, <1>5, <1>6, <1>7

\* A position that ends takes nothing from what the strategies know of it.
LEMMA Ends ==
  ASSUME TypeOK, NEW s \in Symbols, Sells({s}),
         owner' = [owner EXCEPT ![s] = "none"]
  PROVE  /\ owner' \in [Symbols -> Miners \union {"none", "user"}]
         /\ soldAt' \in [Symbols -> Stamps]
         /\ \A t \in Symbols : owner'[t] = owner[t] \/ owner'[t] = "none"
         /\ \A m \in Miners, t \in Symbols : owner'[t] = m => owner[t] = m
         /\ \A t \in Symbols : soldAt'[t] = soldAt[t]
                \/ (soldAt'[t] = now /\ t \in Tracked("gainer"))
<1>1. owner \in [Symbols -> Miners \union {"none", "user"}] /\ now \in Times
      /\ soldAt \in [Symbols -> Stamps]
  BY TypesAre DEF Types
<1>2. owner' \in [Symbols -> Miners \union {"none", "user"}]
      /\ \A t \in Symbols : owner'[t] = IF t = s THEN "none" ELSE owner[t]
  BY <1>1
<1>3. soldAt' \in [Symbols -> Stamps]
  BY <1>1 DEF Sells, Stamps
<1>4. \A t \in Symbols : soldAt'[t] = soldAt[t]
                \/ (soldAt'[t] = now /\ t \in Tracked("gainer"))
  BY <1>1 DEF Sells, Mine
<1>5. \A m \in Miners, t \in Symbols : owner'[t] = m => owner[t] = m
  BY <1>2 DEF Miners
<1> QED BY <1>2, <1>3, <1>4, <1>5

\* Tracks that are dropped.
LEMMA Drops ==
  ASSUME TypeOK, NEW m \in Miners, NEW S \in SUBSET Symbols, Drop(m, S)
  PROVE  /\ opened' \in [Miners -> [Symbols -> Stamps]]
         /\ armed' \subseteq Tracked("gainer")'
         /\ closedAt' \in [Symbols -> Stamps]
         /\ Tracked(m)' = Tracked(m) \ S
         /\ \A n \in Miners : n # m => Tracked(n)' = Tracked(n)
         /\ \A t \in Symbols : closedAt'[t] =
              IF m = "gainer" /\ t \in S THEN now ELSE closedAt[t]
<1>1. /\ opened \in [Miners -> [Symbols -> Stamps]] /\ now \in Times
      /\ armed \subseteq Tracked("gainer")
      /\ closedAt \in [Symbols -> Stamps]
  BY TypesAre DEF Types
<1>2. /\ opened' \in [Miners -> [Symbols -> Stamps]]
      /\ opened'[m] = [s \in Symbols |-> IF s \in S THEN Never
                                        ELSE opened[m][s]]
      /\ \A n \in Miners : n # m => opened'[n] = opened[n]
  BY <1>1 DEF Drop, Stamps
<1>3. Tracked(m)' = Tracked(m) \ S
  BY <1>2 DEF Tracked
<1>4. \A n \in Miners : n # m => Tracked(n)' = Tracked(n)
  BY <1>2 DEF Tracked
<1>5. armed' \subseteq Tracked("gainer")'
  BY <1>1, <1>3, <1>4 DEF Drop, Miners
<1>6. closedAt' \in [Symbols -> Stamps] /\ \A t \in Symbols : closedAt'[t] =
              IF m = "gainer" /\ t \in S THEN now ELSE closedAt[t]
  BY <1>1 DEF Drop, Stamps
<1> QED BY <1>2, <1>3, <1>4, <1>5, <1>6

\* What may be known of the leader.
LEMMA BoardsStay ==
  ASSUME NEW b \in Boards
  PROVE  /\ [b EXCEPT !.cand = NoSym, !.since = 0] \in Boards
         /\ [b EXCEPT !.cand = NoSym, !.since = 0].waiting = b.waiting
         /\ \A s \in Coins :
              /\ [b EXCEPT !.leader = s, !.cand = NoSym, !.since = 0,
                          !.waiting = NoSym] \in Boards
              /\ [b EXCEPT !.leader = s, !.cand = NoSym, !.since = 0,
                          !.waiting = NoSym].waiting = NoSym
<1>1. 0 \in Times
  BY BoundsAssumption DEF Times
<1> QED BY <1>1 DEF Boards

-------------------------------------------------------------------------------
(* The exchange, the clock and the engine.                                 *)

\* A position that ends leaves the proofs' invariant in place.
LEMMA EndsKeep ==
  ASSUME GainerInv, NEW s \in Symbols, Sells({s}),
         owner' = [owner EXCEPT ![s] = "none"],
         stop' \in [Symbols -> BOOLEAN],
         \A t \in Symbols \ {s} : stop'[t] = stop[t],
         Rests, UNCHANGED <<opened, closedAt, rearm, board, now>>
  PROVE  /\ owner' \in [Symbols -> Miners \union {"none", "user"}]
         /\ soldAt' \in [Symbols -> Stamps]
         /\ Work' /\ Watched' /\ Cooled' /\ Settling'
<1>1. TypeOK /\ Cooled /\ Settling /\ Work
  BY DEF GainerInv
<1>2. owner' \in [Symbols -> Miners \union {"none", "user"}]
      /\ soldAt' \in [Symbols -> Stamps]
  BY <1>1, Ends
<1>3. Work' /\ Watched'
  BY Frames
<1>4. Cooled'
  <2>1. \A t \in Symbols : soldAt'[t] = soldAt[t]
                \/ (soldAt'[t] = now /\ t \in Tracked("gainer"))
    BY <1>1, Ends
  <2>2. Tracked("gainer")' = Tracked("gainer") /\ now \in Int
    BY <1>1, TypesAre DEF Types, Tracked, Times
  <2> QED BY <1>1, <2>1, <2>2 DEF Cooled, Cooling, At, Rests
<1>5. Settling'
  <2>1. At("target") \/ At("cancel") => run.sym \in Symbols
    BY <1>1 DEF Work, Opening, At
  <2>2. owner \in [Symbols -> Miners \union {"none", "user"}]
        /\ run.who \in Miners
    BY <1>1, TypesAre DEF Types, Runs
  <2>3. \A t \in Symbols : owner'[t] = IF t = s THEN "none" ELSE owner[t]
    BY <2>2
  <2> QED BY <1>1, <2>1, <2>2, <2>3 DEF Settling, At, Rests, Miners
<1> QED BY <1>2, <1>3, <1>4, <1>5

\* A trigger, or the user, ends a position.
LEMMA FiresStep ==
  ASSUME GainerInv, NEW s \in Symbols, Fires(s)
  PROVE  GainerInv'
<1>1. TypeOK /\ Tagged
  BY DEF GainerInv
<1>2. stop' \in [Symbols -> BOOLEAN] /\ \A t \in Symbols \ {s} :
        stop'[t] = stop[t]
  BY <1>1, TypesAre DEF Types, Fires
<1>3. /\ Sells({s}) /\ owner' = [owner EXCEPT ![s] = "none"]
      /\ UNCHANGED <<book, opened, armed, closedAt, rearm, board, round,
                     halted, run, now, faults>>
  BY DEF Fires, disk
<1>4. /\ owner' \in [Symbols -> Miners \union {"none", "user"}]
      /\ soldAt' \in [Symbols -> Stamps]
      /\ Work' /\ Watched' /\ Cooled' /\ Settling'
  BY <1>2, <1>3, EndsKeep DEF Rests
<1>5. Tracked("gainer")' = Tracked("gainer")
  BY <1>3 DEF Tracked
<1>6. Types'
  BY <1>1, <1>2, <1>3, <1>4, <1>5, TypesAre DEF Types
<1>7. Tagged'
  <2>1. \A m \in Miners, t \in Symbols : Mine(m, t)' => Mine(m, t)
    BY <1>1, <1>3, Ends DEF Mine, Tracked
  <2> QED BY <1>1, <1>3, <2>1 DEF Tagged, Up, At
<1> QED BY <1>4, <1>6, <1>7, TypesAre DEF GainerInv

\* The user buys.
LEMMA UserBuysStep ==
  ASSUME GainerInv, NEW s \in Symbols, UserBuys(s)
  PROVE  GainerInv'
<1>1. TypeOK /\ Tagged /\ Settling /\ Work
  BY DEF GainerInv
<1>2. /\ owner[s] = "none" /\ owner' = [owner EXCEPT ![s] = "user"]
      /\ UNCHANGED <<stop, book, opened, armed, closedAt, rearm, board,
                     round, halted, run, now, soldAt>>
      /\ faults' \in 0 .. MaxFaults
  BY <1>1, TypesAre, BoundsAssumption
     DEF Types, UserBuys, Open, Fault, disk
<1>3. \A t \in Symbols : owner'[t] = IF t = s THEN "user" ELSE owner[t]
  BY <1>1, <1>2, TypesAre DEF Types
<1>4. Types'
  BY <1>1, <1>2, TypesAre DEF Types, Tracked
<1>5. Work' /\ Watched' /\ Cooled'
  BY <1>2, Frames DEF Rests
<1>6. Tagged'
  <2>1. \A m \in Miners, t \in Symbols : Mine(m, t)' => Mine(m, t)
    BY <1>2, <1>3 DEF Mine, Tracked, Miners
  <2> QED BY <1>1, <1>2, <2>1 DEF Tagged, Up, At
<1>7. Settling'
  <2>1. At("target") \/ At("cancel") => run.sym \in Symbols
    BY <1>1 DEF Work, Opening, At
  <2>2. run.who \in Miners
    BY <1>1, TypesAre DEF Types, Runs
  <2> QED BY <1>1, <1>2, <1>3, <2>1, <2>2 DEF Settling, At, Miners
<1> QED BY <1>4, <1>5, <1>6, <1>7, TypesAre DEF GainerInv

\* Time passes.
LEMMA ElapseStep ==
  ASSUME GainerInv, Elapse
  PROVE  GainerInv'
<1>1. TypeOK /\ Cooled
  BY DEF GainerInv
<1>2. /\ run.at \in {"idle", "down"} /\ now' = now + 1 /\ now' \in Times
      /\ now \in Int /\ UNCHANGED <<owner, stop, book, opened, armed,
           closedAt, rearm, board, round, halted, run, faults, soldAt>>
  BY <1>1, TypesAre, BoundsAssumption
     DEF Types, Elapse, At, Times, market, disk
<1>3. Types' /\ Tracked("gainer")' = Tracked("gainer")
  BY <1>1, <1>2, TypesAre DEF Types, Tracked
<1>4. Tagged' /\ Work' /\ Watched' /\ Settling'
  BY <1>2, Frames DEF Rests
<1>5. Cooled'
  <2>1. soldAt \in [Symbols -> Int]
    BY <1>1, TypesAre DEF Types, Stamps, Times, Never
  <2>2. \A t \in Symbols : soldAt'[t] <= now'
    BY <1>1, <1>2, <2>1 DEF Cooled
  <2> QED BY <1>1, <1>2, <1>3, <2>2 DEF Cooled, At
<1> QED BY <1>3, <1>4, <1>5, TypesAre DEF GainerInv

\* A halt is lifted.
LEMMA ResumeStep ==
  ASSUME GainerInv, Resume
  PROVE  GainerInv'
<1>1. /\ halted' = FALSE /\ UNCHANGED <<owner, stop, book, opened, armed,
           closedAt, rearm, board, round, run, now, faults, soldAt>>
  BY DEF Resume, market, disk
<1>2. Types'
  BY <1>1, TypesAre DEF GainerInv, Types, Tracked
<1>3. Tagged' /\ Work' /\ Watched' /\ Cooled' /\ Settling'
  BY <1>1, Frames DEF Rests
<1> QED BY <1>2, <1>3, TypesAre DEF GainerInv

\* Whatever closes or reconciles a symbol as a whole.
LEMMA ClosesAllKeeps ==
  ASSUME GainerInv, NEW s \in Symbols, ClosesAll(s) \/ CloseLost(s),
         Rests, run' \in Runs, Up,
         UNCHANGED <<opened, armed, closedAt, rearm, board, round, halted,
                     now>>
  PROVE  GainerInv'
<1>1. TypeOK /\ Tagged
  BY DEF GainerInv
<1>2. /\ stop' \in [Symbols -> BOOLEAN]
      /\ \A t \in Symbols \ {s} : stop'[t] = stop[t]
      /\ book' \in [Symbols -> Miners \union {"none", "generic"}]
      /\ \A t \in Symbols \ {s} : book'[t] = book[t]
      /\ faults' \in 0 .. MaxFaults
  <2>1. stop' = stop \/ stop' = [stop EXCEPT ![s] = FALSE]
    BY DEF ClosesAll, CloseLost
  <2>2. book' = book \/ book' = [book EXCEPT ![s] = "none"]
    BY DEF ClosesAll, CloseLost
  <2>3. UNCHANGED faults \/ Fault
    BY DEF ClosesAll, CloseLost, Ok
  <2>4. faults' \in 0 .. MaxFaults
    BY <1>1, <2>3, TypesAre, BoundsAssumption DEF Types, Fault
  <2> QED BY <1>1, <2>1, <2>2, <2>4, TypesAre DEF Types
<1>3. Tracked("gainer")' = Tracked("gainer")
  BY DEF Tracked
<1>4. CASE Sells({s}) /\ owner' = [owner EXCEPT ![s] = "none"]
  <2>1. /\ owner' \in [Symbols -> Miners \union {"none", "user"}]
        /\ soldAt' \in [Symbols -> Stamps]
        /\ Work' /\ Watched' /\ Cooled' /\ Settling'
    BY <1>2, <1>4, EndsKeep
  <2>2. Types'
    BY <1>1, <1>2, <1>3, <2>1, TypesAre DEF Types
  <2>3. Tagged'
    <3>1. \A m \in Miners, t \in Symbols :
            Mine(m, t)' => Mine(m, t) /\ t # s
      BY <1>1, <1>4, TypesAre DEF Types, Mine, Tracked, Miners
    <3> QED BY <1>1, <1>2, <3>1, Frames DEF Tagged
  <2> QED BY <2>1, <2>2, <2>3, TypesAre DEF GainerInv
<1>5. CASE UNCHANGED <<owner, soldAt, stop, book>>
  <2>1. Tagged' /\ Work' /\ Watched' /\ Cooled' /\ Settling'
    BY <1>5, Frames
  <2>2. Types'
    BY <1>1, <1>2, <1>3, <1>5, TypesAre DEF Types
  <2> QED BY <2>1, <2>2, TypesAre DEF GainerInv
<1> QED BY <1>4, <1>5 DEF ClosesAll, CloseLost

\* The engine's own closes, reconcile, adoption and watchdog.
LEMMA EngineStep ==
  ASSUME GainerInv, NEW s \in Symbols, Engine(s)
  PROVE  GainerInv'
<1>1. TypeOK /\ Tagged /\ At("idle") /\ Up /\ run \in Runs
      /\ [Idle EXCEPT !.why = "escaped"] \in Runs
  BY TypesAre, RunsStay DEF GainerInv, Types, Engine, EngineCloses,
     ReleaseFlat, AdoptUntracked, Protect, At, Up
<1>2. CASE EngineCloses(s) \/ ReleaseFlat(s)
           \/ (Protect(s) /\ ClosesAll(s))
  <2>1. ClosesAll(s) \/ CloseLost(s)
    BY <1>2 DEF EngineCloses, ReleaseFlat
  <2>2. UNCHANGED <<opened, armed, closedAt, rearm, board, round, halted,
                    now>>
    BY <1>2 DEF EngineCloses, ReleaseFlat, Protect
  <2>3. run' = run \/ run' = [Idle EXCEPT !.why = "escaped"]
    BY <1>2 DEF EngineCloses, ReleaseFlat, Protect, CloseLost, Escape
  <2>4. Rests /\ run' \in Runs
    BY <1>1, <2>3 DEF Rests, Idle
  <2> QED BY <1>1, <2>1, <2>2, <2>4, ClosesAllKeeps
<1>3. CASE AdoptUntracked(s)
  <2>1. /\ book[s] = "none" /\ book' = [book EXCEPT ![s] = "generic"]
        /\ UNCHANGED <<owner, stop, opened, armed, closedAt, rearm, board,
                       round, halted, run, now, faults, soldAt>>
    BY <1>3 DEF AdoptUntracked, Held, Ok, market, disk
  <2>2. Types'
    BY <1>1, <2>1, TypesAre DEF Types, Tracked
  <2>3. Work' /\ Watched' /\ Cooled' /\ Settling'
    BY <2>1, Frames DEF Rests
  <2>4. Tagged'
    <3>1. \A t \in Symbols : book'[t] = IF t = s THEN "generic" ELSE book[t]
      BY <1>1, <2>1, TypesAre DEF Types
    <3> QED BY <1>1, <2>1, <3>1 DEF Tagged, Mine, Tracked, Up, At, Miners
  <2> QED BY <2>2, <2>3, <2>4, TypesAre DEF GainerInv
<1>4. CASE Protect(s) /\ ~ClosesAll(s)
  <2>1. /\ stop' = [stop EXCEPT ![s] = TRUE]
        /\ UNCHANGED <<owner, book, opened, armed, closedAt, rearm, board,
                       round, halted, run, now, faults, soldAt>>
    BY <1>4 DEF Protect, Ok
  <2>2. Types'
    BY <1>1, <2>1, TypesAre DEF Types, Tracked
  <2>3. Tagged' /\ Work' /\ Watched' /\ Cooled'
    BY <2>1, Frames DEF Rests
  <2>4. Settling'
    BY <1>1, <2>1 DEF Settling, At
  <2> QED BY <2>2, <2>3, <2>4, TypesAre DEF GainerInv
<1> QED BY <1>2, <1>3, <1>4 DEF Engine

-------------------------------------------------------------------------------
(* A poll: what is gone, the ladder, the board.                            *)

\* Faults are counted.
LEMMA FaultsCounted ==
  ASSUME TypeOK, Ok \/ Fault
  PROVE  faults' \in 0 .. MaxFaults
BY TypesAre, BoundsAssumption DEF Types, Ok, Fault

\* A coin is armed for a second entry only if it was tracked.
LEMMA ArmKeeps ==
  ASSUME GainerInv, NEW S \in SUBSET Symbols,
         NEW level \in {"unknown", "high"}, Arm(S, level), UNCHANGED board
  PROVE  rearm' \in [Coins -> {"no", "unknown", "high"}] /\ Watched'
<1>1. rearm \in [Coins -> {"no", "unknown", "high"}] /\ Watched
  BY TypesAre DEF GainerInv, Types
<1>2. rearm' \in [Coins -> {"no", "unknown", "high"}]
  BY <1>1 DEF Arm
<1>3. \A s \in Coins : rearm'[s] # "no" => s \in S \/ rearm[s] # "no"
  BY <1>1 DEF Arm
<1> QED BY <1>1, <1>2, <1>3 DEF Watched

\* A dropped track starts the cooldown of its coin.
LEMMA DropCools ==
  ASSUME GainerInv, NEW m \in Miners, NEW S \in SUBSET Symbols, Drop(m, S),
         soldAt' \in [Symbols -> Stamps], UNCHANGED now,
         \A t \in Symbols : soldAt'[t] = soldAt[t]
           \/ (soldAt'[t] = now /\ t \in Tracked("gainer"))
  PROVE  /\ \A t \in Symbols : soldAt'[t] <= now'
         /\ \A t \in Symbols \ Tracked("gainer")' : closedAt'[t] >= soldAt'[t]
<1>1. TypeOK /\ Cooled
  BY DEF GainerInv
<1>2. /\ now \in Int /\ soldAt \in [Symbols -> Int]
      /\ closedAt \in [Symbols -> Int]
  BY <1>1, TypesAre DEF Types, Stamps, Times, Never
<1>3. \A t \in Symbols : soldAt'[t] <= now'
  BY <1>1, <1>2 DEF Cooled
<1>4. \A t \in Symbols \ Tracked("gainer")' : closedAt'[t] >= soldAt'[t]
  <2>1. CASE m = "gainer"
    <3>1. /\ Tracked("gainer")' = Tracked("gainer") \ S
          /\ \A t \in Symbols : closedAt'[t] = IF t \in S THEN now
                                               ELSE closedAt[t]
      BY <1>1, <2>1, Drops
    <3> QED BY <1>1, <1>2, <3>1 DEF Cooled
  <2>2. CASE m # "gainer"
    <3>1. /\ Tracked("gainer")' = Tracked("gainer")
          /\ \A t \in Symbols : closedAt'[t] = closedAt[t]
      BY <1>1, <2>2, Drops DEF Miners
    <3> QED BY <1>1, <1>2, <3>1 DEF Cooled
  <2> QED BY <2>1, <2>2
<1> QED BY <1>3, <1>4

\* A track that is dropped takes no tag with it.
LEMMA DropUntags ==
  ASSUME TypeOK, NEW m \in Miners, NEW S \in SUBSET Symbols, Drop(m, S)
  PROVE  \A n \in Miners, t \in Symbols :
           t \in Tracked(n)' => t \in Tracked(n) /\ (n = m => t \notin S)
<1>1. /\ Tracked(m)' = Tracked(m) \ S
      /\ \A n \in Miners : n # m => Tracked(n)' = Tracked(n)
  BY Drops
<1> QED BY <1>1

\* A poll starts.
LEMMA TickStep ==
  ASSUME GainerInv, NEW m \in Miners, Tick(m)
  PROVE  GainerInv'
<1> DEFINE gone == {s \in Tracked(m) : ~Held(s)}
<1>1. TypeOK /\ Tagged /\ Up /\ run \in Runs
  BY TypesAre DEF GainerInv, Types, Tick, At, Up
<1>2. /\ Drop(m, gone) /\ (Arm(gone, "high") \/ UNCHANGED rearm)
      /\ run' = [Idle EXCEPT !.at = "ladder", !.who = m,
                             !.todo = Tracked(m) \ gone]
      /\ UNCHANGED <<owner, stop, book, board, round, halted, now, faults,
                     soldAt>>
  BY DEF Tick, market
<1>3. gone \in SUBSET Symbols /\ Tracked(m) \ gone \in SUBSET Symbols
  BY DEF Tracked
<1> HIDE DEF gone
<1>4. /\ Tracked(m)' = Tracked(m) \ gone
      /\ opened' \in [Miners -> [Symbols -> Stamps]]
      /\ armed' \subseteq Tracked("gainer")'
      /\ closedAt' \in [Symbols -> Stamps]
  BY <1>1, <1>2, <1>3, Drops
<1>5. rearm' \in [Coins -> {"no", "unknown", "high"}] /\ Watched'
  <2>1. CASE Arm(gone, "high")
    BY <1>2, <1>3, <2>1, ArmKeeps
  <2>2. CASE UNCHANGED rearm
    BY <1>1, <1>2, <2>2, Frames, TypesAre DEF Types
  <2> QED BY <1>2, <2>1, <2>2
<1>6. /\ run' \in Runs /\ run'.at = "ladder" /\ run'.who = m
      /\ run'.todo = Tracked(m) \ gone /\ run'.why = ""
  <2>1. run' \in Runs
    BY <1>1, <1>2, <1>3, RunsStay
  <2> QED BY <1>2, <2>1 DEF Idle
<1>7. Types'
  BY <1>1, <1>2, <1>4, <1>5, <1>6, TypesAre DEF Types
<1>8. Tagged'
  BY <1>1, <1>2, <1>3, <1>6, DropUntags DEF Tagged, Mine, Up, At
<1>9. Work' /\ Settling'
  BY <1>4, <1>6 DEF Work, Settling, Opening, At
<1>10. Cooled'
  <2>1. soldAt' \in [Symbols -> Stamps]
    BY <1>1, <1>2, TypesAre DEF Types
  <2>2. /\ \A t \in Symbols : soldAt'[t] <= now'
        /\ \A t \in Symbols \ Tracked("gainer")' : closedAt'[t] >= soldAt'[t]
    BY <1>2, <1>3, <2>1, DropCools
  <2> QED BY <1>6, <2>2 DEF Cooled, At
<1> QED BY <1>5, <1>7, <1>8, <1>9, <1>10, TypesAre DEF GainerInv

\* The thread is through with a symbol and has changed nothing the strategies
\* know, but perhaps its stop.
LEMMA PassedStep ==
  ASSUME GainerInv, At("ladder") \/ At("judge"), NEW s \in run.todo,
         NextSymbol(s), stop' \in [Symbols -> BOOLEAN],
         armed' \subseteq Tracked("gainer"), Ok \/ Fault,
         UNCHANGED <<owner, book, opened, closedAt, rearm, board, round,
                     halted, now, soldAt>>
  PROVE  GainerInv'
<1>1. TypeOK /\ Work /\ Cooled
  BY DEF GainerInv
<1>2. run \in Runs /\ run' = [run EXCEPT !.todo = @ \ {s}] /\ run' \in Runs
  BY <1>1, TypesAre, RunsStay DEF Types, NextSymbol
<1>3. /\ run'.at = run.at /\ run'.who = run.who /\ run'.why = run.why
      /\ run'.todo = run.todo \ {s}
  BY <1>2 DEF Runs
<1>4. \A m : Tracked(m)' = Tracked(m)
  BY DEF Tracked
<1>5. faults' \in 0 .. MaxFaults
  BY <1>1, FaultsCounted
<1>6. Types'
  BY <1>1, <1>2, <1>4, <1>5, TypesAre DEF Types
<1>7. Tagged' /\ Watched'
  BY <1>3, Frames DEF Up, At
<1>8. Work'
  BY <1>1, <1>3, <1>4 DEF Work, Opening, At
<1>9. Cooled' /\ Settling'
  BY <1>1, <1>3, <1>4 DEF Cooled, Settling, At
<1> QED BY <1>6, <1>7, <1>8, <1>9, TypesAre DEF GainerInv

\* close() of a tracked position.
LEMMA CloseTrackStep ==
  ASSUME GainerInv, At("ladder") \/ At("judge"), NEW s \in run.todo,
         NEW m \in Miners, run.who = m, CloseTrack(m, s),
         UNCHANGED <<rearm, board, round, halted, now>>
  PROVE  GainerInv'
<1>1. /\ TypeOK /\ Work /\ Cooled /\ Tagged /\ run \in Runs /\ m \in Miners
      /\ s \in Symbols /\ Up /\ run.todo \subseteq Tracked(m)
  BY TypesAre DEF GainerInv, Types, Runs, Up, At, Work
<1>2. CASE ClosesAll(s) /\ Drop(m, {s}) /\ NextSymbol(s)
  <2>1. /\ Sells({s}) /\ owner' = [owner EXCEPT ![s] = "none"]
        /\ stop' \in [Symbols -> BOOLEAN]
        /\ book' = [book EXCEPT ![s] = "none"] /\ (Ok \/ Fault)
    BY <1>1, <1>2, TypesAre DEF Types, ClosesAll
  <2>2. /\ run' = [run EXCEPT !.todo = @ \ {s}] /\ run' \in Runs
        /\ run'.at = run.at /\ run'.who = m /\ run'.why = run.why
        /\ run'.todo = run.todo \ {s}
    BY <1>1, <1>2, RunsStay DEF NextSymbol, Runs
  <2>3. /\ owner' \in [Symbols -> Miners \union {"none", "user"}]
        /\ soldAt' \in [Symbols -> Stamps]
        /\ \A n \in Miners, t \in Symbols : owner'[t] = n => owner[t] = n
        /\ \A t \in Symbols : soldAt'[t] = soldAt[t]
              \/ (soldAt'[t] = now /\ t \in Tracked("gainer"))
    BY <1>1, <2>1, Ends
  <2>4. /\ Tracked(m)' = Tracked(m) \ {s}
        /\ opened' \in [Miners -> [Symbols -> Stamps]]
        /\ armed' \subseteq Tracked("gainer")'
        /\ closedAt' \in [Symbols -> Stamps]
    <3>1. {s} \in SUBSET Symbols
      BY <1>1
    <3> QED BY <1>1, <1>2, <3>1, Drops
  <2>5. faults' \in 0 .. MaxFaults
    BY <1>1, <2>1, FaultsCounted
  <2>6. Types'
    BY <1>1, <2>1, <2>2, <2>3, <2>4, <2>5, TypesAre DEF Types
  <2>7. Tagged'
    <3>1. /\ \A t \in Symbols : book'[t] = IF t = s THEN "none" ELSE book[t]
          /\ owner'[s] = "none"
      BY <1>1, <2>1, TypesAre DEF Types
    <3>2. \A n \in Miners, t \in Symbols :
            t \in Tracked(n)' => t \in Tracked(n)
      BY <1>1, <1>2, DropUntags
    <3>3. \A n \in Miners, t \in Symbols : Mine(n, t)' => Mine(n, t) /\ t # s
      BY <2>3, <3>1, <3>2 DEF Mine, Miners
    <3> QED BY <1>1, <2>2, <3>1, <3>3 DEF Tagged, Up, At
  <2>8. Work' /\ Settling'
    BY <1>1, <2>2, <2>4 DEF Work, Settling, Opening, At
  <2>9. Watched'
    BY Frames
  <2>10. Cooled'
    <3>1. /\ \A t \in Symbols : soldAt'[t] <= now'
          /\ \A t \in Symbols \ Tracked("gainer")' :
               closedAt'[t] >= soldAt'[t]
      BY <1>1, <1>2, <2>3, DropCools
    <3> QED BY <2>2, <3>1 DEF Cooled, At
  <2> QED BY <2>6, <2>7, <2>8, <2>9, <2>10, TypesAre DEF GainerInv
<1>3. CASE /\ CloseRefused /\ NextSymbol(s)
           /\ UNCHANGED <<opened, armed, closedAt>>
  BY <1>1, <1>3, PassedStep, TypesAre DEF Types, CloseRefused, market
<1>4. CASE CloseLost(s) /\ UNCHANGED <<opened, armed, closedAt>>
  <2>1. run' = [Idle EXCEPT !.why = "escaped"]
    BY <1>4 DEF CloseLost, Escape
  <2>2. Rests /\ run' \in Runs
    BY <1>1, <2>1, RunsStay DEF Rests, Idle
  <2> QED BY <1>1, <1>4, <2>2, ClosesAllKeeps
<1> QED BY <1>2, <1>3, <1>4 DEF CloseTrack

\* The ladder, for one symbol.
LEMMA ManageLadderStep ==
  ASSUME GainerInv, ManageLadder
  PROVE  GainerInv'
<1>1. /\ TypeOK /\ At("ladder") /\ run.who \in Miners
      /\ run.todo \subseteq Tracked(run.who)
      /\ Tracked("gainer") \subseteq Symbols
      /\ UNCHANGED <<rearm, board, round, halted, now>>
  BY TypesAre DEF GainerInv, Types, Runs, Work, ManageLadder, Tracked
<1>2. PICK s \in run.todo, m \in Miners :
        /\ m = run.who
        /\ \/ LadderRests(m, s)
           \/ m = "gainer" /\ LadderRises(s)
           \/ m = "gainer" /\ CloseTrack(m, s)
  BY <1>1 DEF ManageLadder
<1>3. CASE CloseTrack(m, s)
  BY <1>1, <1>2, <1>3, CloseTrackStep
<1>4. CASE LadderRests(m, s) /\ ~CloseTrack(m, s)
  <2>1. /\ NextSymbol(s) /\ Ok
        /\ UNCHANGED <<owner, stop, book, soldAt, opened, armed, closedAt>>
    BY <1>4 DEF LadderRests, market
  <2> QED BY <1>1, <2>1, PassedStep, TypesAre DEF Types
<1>5. CASE m = "gainer" /\ LadderRises(s)
  <2>1. s \in Tracked("gainer") /\ s \in Symbols
    BY <1>1, <1>2, <1>5
  <2>2. /\ NextSymbol(s) /\ (Ok \/ Fault) /\ stop' \in [Symbols -> BOOLEAN]
        /\ armed' \subseteq Tracked("gainer")
        /\ UNCHANGED <<owner, book, soldAt, opened, closedAt>>
    BY <1>1, <1>5, <2>1, TypesAre DEF Types, LadderRises
  <2> QED BY <1>1, <2>2, PassedStep
<1> QED BY <1>2, <1>3, <1>4, <1>5

\* A held coin is judged.
LEMMA JudgeHeldStep ==
  ASSUME GainerInv, JudgeHeld
  PROVE  GainerInv'
<1>1. /\ TypeOK /\ At("judge") /\ run.who = "gainer" /\ "gainer" \in Miners
      /\ UNCHANGED <<rearm, board, round, halted, now>>
  BY DEF GainerInv, Work, JudgeHeld, Miners
<1>2. PICK s \in run.todo :
        \/ /\ NextSymbol(s) /\ Ok
           /\ UNCHANGED <<market, book, soldAt, opened, armed, closedAt>>
        \/ CloseTrack("gainer", s)
  BY DEF JudgeHeld
<1>3. CASE CloseTrack("gainer", s)
  BY <1>1, <1>3, CloseTrackStep
<1>4. CASE ~CloseTrack("gainer", s)
  BY <1>1, <1>2, <1>4, PassedStep, TypesAre DEF Types, market
<1> QED BY <1>3, <1>4

\* The thread goes on with tracks, positions and book as they are.
Onward ==
  /\ run' \in Runs /\ Work' /\ run'.at \notin {"target", "cancel", "down"}
  /\ run'.at = "open" /\ run'.why = "leader" => ~Cooling(run'.sym)

LEMMA SettledOnward ==
  ASSUME GainerInv, Up, Onward, Watched', board' \in Boards,
         rearm' \in [Coins -> {"no", "unknown", "high"}], round' \in Rounds,
         halted' \in BOOLEAN, Ok \/ Fault, stop' \in [Symbols -> BOOLEAN],
         owner' \in [Symbols -> Miners \union {"none", "user"}],
         \A m \in Miners, t \in Symbols :
           owner'[t] = m => owner[t] = m \/ t \notin Tracked(m),
         UNCHANGED <<book, opened, armed, closedAt, now, soldAt>>
  PROVE  GainerInv'
<1>1. TypeOK /\ Cooled /\ Tagged
  BY DEF GainerInv
<1>2. Tracked("gainer")' = Tracked("gainer") /\ faults' \in 0 .. MaxFaults
  BY <1>1, FaultsCounted DEF Tracked
<1>3. Types'
  BY <1>1, <1>2, TypesAre DEF Types, Onward
<1>4. Tagged'
  BY <1>1 DEF Onward, Tagged, Mine, Tracked, Up, At
<1>5. Cooled' /\ Settling'
  BY <1>1, <1>2 DEF Cooled, Settling, Onward, Cooling, At
<1> QED BY <1>3, <1>4, <1>5, TypesAre DEF GainerInv, Onward

LEMMA OnwardStep ==
  ASSUME GainerInv, Up, Onward, Watched', board' \in Boards,
         rearm' \in [Coins -> {"no", "unknown", "high"}], round' \in Rounds,
         halted' \in BOOLEAN, Ok \/ Fault,
         UNCHANGED <<owner, stop, book, opened, armed, closedAt, now, soldAt>>
  PROVE  GainerInv'
BY SettledOnward, TypesAre DEF GainerInv, Types

\* A handler that ends, or that escapes, leaves nothing to do.
LEMMA IdleIsOnward ==
  ASSUME run \in Runs, Done \/ Escape
  PROVE  Onward
<1>1. run' \in Runs
  BY RunsStay DEF Done, Escape
<1>2. CASE Done
  BY <1>1, <1>2 DEF Done, Idle, Onward, Work, Opening, At
<1>3. CASE Escape
  BY <1>1, <1>3 DEF Escape, Idle, Onward, Work, Opening, At
<1> QED BY <1>2, <1>3

\* A leader that may be bought is watched or bought.
LEMMA TryEnterIsOnward ==
  ASSUME run \in Runs, NEW s \in Symbols \ Tracked("gainer"), NEW b \in Boards,
         TryEnter(s, b), UNCHANGED opened
  PROVE  /\ Onward /\ board' \in Boards
         /\ board'.waiting \in Symbols \union {NoSym}
<1>1. s \in Coins
  BY CoinsAssumption
<1>2. Tracked("gainer")' = Tracked("gainer")
  BY DEF Tracked
<1>3. CASE board' = [b EXCEPT !.waiting = s] /\ Done
  BY <1>1, <1>3, IdleIsOnward DEF Boards
<1>4. CASE /\ ~Cooling(s) /\ board' = [b EXCEPT !.waiting = NoSym]
           /\ run' = [Idle EXCEPT !.at = "open", !.sym = s, !.why = "leader"]
  <2>1. board' \in Boards /\ board'.waiting = NoSym
    BY <1>4 DEF Boards
  <2>2. run' \in Runs
    BY <1>1, <1>4, RunsStay
  <2>3. /\ run'.at = "open" /\ run'.sym = s /\ run'.why = "leader"
        /\ run'.who = "gainer" /\ run'.todo = {}
    BY <1>4 DEF Idle
  <2>4. Work'
    BY <1>2, <2>3 DEF Work, Opening, At
  <2> QED BY <1>4, <2>1, <2>2, <2>3, <2>4 DEF Onward
<1> QED BY <1>3, <1>4 DEF TryEnter

\* The same coin leads.
LEMMA StillLeadsIsOnward ==
  ASSUME GainerInv, NEW s \in Coins, StillLeads(s), UNCHANGED opened
  PROVE  /\ Onward /\ Watched' /\ board' \in Boards
         /\ rearm' \in [Coins -> {"no", "unknown", "high"}]
<1> DEFINE known == [board EXCEPT !.cand = NoSym, !.since = 0]
<1>1. /\ TypeOK /\ Watched /\ run \in Runs /\ board \in Boards
      /\ rearm \in [Coins -> {"no", "unknown", "high"}]
  BY TypesAre DEF GainerInv, Types
<1>2. known \in Boards /\ known.waiting = board.waiting
  BY <1>1, BoardsStay
<1>3. Tracked("gainer")' = Tracked("gainer")
  BY DEF Tracked
<1>4. CASE /\ rearm[s] = "high" /\ s \notin Tracked("gainer")
           /\ rearm' = [rearm EXCEPT ![s] = "no"] /\ board' = known
           /\ run' = [Idle EXCEPT !.at = "open", !.sym = s, !.why = "reentry"]
  <2>1. s \in Symbols
    BY <1>1, <1>4 DEF Watched
  <2>2. rearm' \in [Coins -> {"no", "unknown", "high"}] /\ Watched'
    BY <1>1, <1>2, <1>4 DEF Watched
  <2>3. run' \in Runs
    BY <1>1, <1>4, RunsStay
  <2>4. /\ run'.at = "open" /\ run'.sym = s /\ run'.why = "reentry"
        /\ run'.who = "gainer" /\ run'.todo = {}
    BY <1>4 DEF Idle
  <2>5. Onward
    BY <1>3, <1>4, <2>1, <2>3, <2>4 DEF Onward, Work, Opening, At
  <2> QED BY <1>2, <1>4, <2>2, <2>5
<1>5. CASE /\ IF rearm[s] = "unknown" /\ s \notin Tracked("gainer")
              THEN rearm' = [rearm EXCEPT ![s] = "high"]
              ELSE UNCHANGED rearm
           /\ IF board.waiting = s /\ s \notin Tracked("gainer")
              THEN TryEnter(s, known)
              ELSE board' = known /\ Done
  <2> HIDE DEF known
  <2>1. /\ rearm' \in [Coins -> {"no", "unknown", "high"}]
        /\ \A t \in Coins : rearm'[t] # "no" => t \in Symbols
    BY <1>1, <1>5 DEF Watched
  <2>2. CASE board.waiting = s /\ s \notin Tracked("gainer")
    <3>1. s \in Symbols \ Tracked("gainer")
      BY <1>1, <2>2, CoinsAssumption DEF Watched, NoSym
    <3>2. TryEnter(s, known)
      BY <1>5, <2>2
    <3>3. /\ Onward /\ board' \in Boards
          /\ board'.waiting \in Symbols \union {NoSym}
      BY <1>1, <1>2, <3>1, <3>2, TryEnterIsOnward
    <3> QED BY <2>1, <3>3 DEF Watched
  <2>3. CASE ~(board.waiting = s /\ s \notin Tracked("gainer"))
    BY <1>1, <1>2, <1>5, <2>1, <2>3, IdleIsOnward DEF Watched
  <2> QED BY <2>2, <2>3
<1> QED BY <1>4, <1>5 DEF StillLeads

\* Another coin leads.
LEMMA ChallengesIsOnward ==
  ASSUME GainerInv, NEW s \in Coins, Challenges(s), UNCHANGED opened
  PROVE  /\ Onward /\ Watched' /\ board' \in Boards
         /\ rearm' \in [Coins -> {"no", "unknown", "high"}]
<1> DEFINE since == IF board.cand = s THEN board.since ELSE now
<1>1. /\ TypeOK /\ Watched /\ run \in Runs /\ board \in Boards
      /\ rearm \in [Coins -> {"no", "unknown", "high"}] /\ now \in Times
  BY TypesAre DEF GainerInv, Types
<1>2. since \in Times
  BY <1>1 DEF Boards
<1>3. CASE /\ board' = [board EXCEPT !.cand = s, !.since = since] /\ Done
           /\ UNCHANGED rearm
  <2>1. board' \in Boards /\ board'.waiting = board.waiting
    BY <1>1, <1>2, <1>3 DEF Boards
  <2> QED BY <1>1, <1>3, <2>1, IdleIsOnward DEF Watched
<1>4. CASE /\ board' = [board EXCEPT !.leader = s, !.cand = NoSym,
                                     !.since = 0, !.waiting = NoSym]
           /\ rearm' = [t \in Coins |-> "no"]
           /\ run' = [Idle EXCEPT !.at = "judge", !.sym = s,
                                  !.todo = Tracked("gainer") \ {s}]
  <2>1. board' \in Boards /\ board'.waiting = NoSym
    BY <1>1, <1>4, BoardsStay
  <2>2. Watched' /\ rearm' \in [Coins -> {"no", "unknown", "high"}]
    BY <1>4, <2>1 DEF Watched
  <2>3. Tracked("gainer") \ {s} \in SUBSET Symbols
    BY DEF Tracked
  <2>4. run' \in Runs
    BY <1>1, <1>4, <2>3, RunsStay
  <2>5. /\ run'.at = "judge" /\ run'.who = "gainer"
        /\ run'.todo = Tracked("gainer") \ {s} /\ run'.why = ""
    BY <1>4 DEF Idle
  <2>6. Work'
    <3>1. Tracked("gainer")' = Tracked("gainer")
      BY DEF Tracked
    <3> QED BY <2>5, <3>1 DEF Work, Opening, At
  <2> QED BY <2>1, <2>2, <2>4, <2>5, <2>6 DEF Onward
<1> QED BY <1>3, <1>4 DEF Challenges

\* The board is read.
LEMMA CheckLeaderStep ==
  ASSUME GainerInv, CheckLeader
  PROVE  GainerInv'
<1>1. /\ TypeOK /\ Watched /\ run \in Runs /\ board \in Boards /\ Up
      /\ rearm \in [Coins -> {"no", "unknown", "high"}]
      /\ round \in Rounds /\ halted \in BOOLEAN
  BY TypesAre DEF GainerInv, Types, CheckLeader, Up, At
<1>2. /\ UNCHANGED <<owner, stop, book, opened, armed, closedAt, round,
                     halted, now, soldAt>> /\ Ok
  BY DEF CheckLeader, market, Ok
<1>3. /\ Onward /\ Watched' /\ board' \in Boards
      /\ rearm' \in [Coins -> {"no", "unknown", "high"}]
  <2>1. CASE NotDue
    BY <1>1, <2>1, IdleIsOnward DEF NotDue, Watched
  <2>2. ASSUME NEW s \in Coins, UNCHANGED rearm, Done,
               board' = [board EXCEPT !.based = TRUE, !.leader = s]
        PROVE  /\ Onward /\ Watched' /\ board' \in Boards
               /\ rearm' \in [Coins -> {"no", "unknown", "high"}]
    <3>1. board' \in Boards /\ board'.waiting = board.waiting
      BY <1>1, <2>2 DEF Boards
    <3> QED BY <1>1, <2>2, <3>1, IdleIsOnward DEF Watched
  <2>3. ASSUME NEW s \in Coins, StillLeads(s)
        PROVE  /\ Onward /\ Watched' /\ board' \in Boards
               /\ rearm' \in [Coins -> {"no", "unknown", "high"}]
    BY <1>2, <2>3, StillLeadsIsOnward
  <2>4. ASSUME NEW s \in Coins, Challenges(s)
        PROVE  /\ Onward /\ Watched' /\ board' \in Boards
               /\ rearm' \in [Coins -> {"no", "unknown", "high"}]
    BY <1>2, <2>4, ChallengesIsOnward
  <2> QED BY <2>1, <2>2, <2>3, <2>4 DEF CheckLeader, Ranked
<1> QED BY <1>1, <1>2, <1>3, OnwardStep

\* What has been judged makes room for the new leader.
LEMMA OnNewLeaderStep ==
  ASSUME GainerInv, OnNewLeader
  PROVE  GainerInv'
<1>1. /\ TypeOK /\ Watched /\ run \in Runs /\ board \in Boards /\ Up
      /\ rearm \in [Coins -> {"no", "unknown", "high"}]
      /\ round \in Rounds /\ halted \in BOOLEAN
  BY TypesAre DEF GainerInv, Types, OnNewLeader, Up, At
<1>2. /\ UNCHANGED <<owner, stop, book, opened, armed, closedAt, rearm,
                     round, halted, now, soldAt>> /\ Ok
  BY DEF OnNewLeader, market, disk, Ok
<1>3. /\ Onward /\ Watched' /\ board' \in Boards
  <2>1. CASE Skipped
    BY <1>1, <1>2, <2>1, IdleIsOnward DEF Skipped, Watched
  <2>2. CASE /\ run.sym \in Symbols \ Tracked("gainer")
             /\ TryEnter(run.sym, board)
    <3>1. PICK s \in Symbols \ Tracked("gainer") : s = run.sym
      BY <2>2
    <3>2. PICK b \in Boards : b = board
      BY <1>1
    <3>3. TryEnter(s, b)
      BY <2>2, <3>1, <3>2 DEF TryEnter
    <3>4. /\ Onward /\ board' \in Boards
          /\ board'.waiting \in Symbols \union {NoSym}
      BY <1>1, <1>2, <3>3, TryEnterIsOnward
    <3> QED BY <1>1, <1>2, <3>4 DEF Watched
  <2> QED BY <2>1, <2>2 DEF OnNewLeader
<1> QED BY <1>1, <1>2, <1>3, OnwardStep

-------------------------------------------------------------------------------
(* A round of the squeeze, and an open().                                  *)

\* The settlement the clock is past.
LEMMA SettledTimes ==
  ASSUME now \in Times
  PROVE  Settled \in Times
<1>1. now \in Int /\ 0 <= now /\ now <= Horizon /\ Period \in Int /\ Period > 0
  BY BoundsAssumption, TimesAssumption DEF Times
<1> DEFINE q == now \div Period
<1>2. q \in Int /\ 0 <= q /\ Period * q <= now
  BY <1>1
<1> HIDE DEF q
<1>3. q * Period = Period * q /\ Period * q >= 0 /\ Period * q \in Int
  BY <1>1, <1>2
<1>4. q * Period \in 0 .. Horizon
  BY <1>1, <1>2, <1>3, BoundsAssumption
<1> QED BY <1>4 DEF Settled, Times, q

\* A round picks coins no strategy holds.
LEMMA CheckRoundStep ==
  ASSUME GainerInv, CheckRound
  PROVE  GainerInv'
<1>1. /\ TypeOK /\ Watched /\ run \in Runs /\ board \in Boards /\ Up
      /\ rearm \in [Coins -> {"no", "unknown", "high"}] /\ round \in Rounds
      /\ halted \in BOOLEAN /\ now \in Times
  BY TypesAre DEF GainerInv, Types, CheckRound, Up, At
<1>2. /\ UNCHANGED <<owner, stop, book, opened, armed, closedAt, rearm,
                     board, halted, now, soldAt>> /\ (Ok \/ Fault)
  BY DEF CheckRound, market, disk
<1>3. round' \in Rounds
  <2>1. Settled \in Stamps /\ Never \in Stamps /\ 0 \in Nat
    BY <1>1, SettledTimes DEF Stamps
  <2>2. CASE UNCHANGED round
    BY <1>1, <2>2
  <2>3. CASE round' = [done |-> Settled, of |-> Settled,
             bought |-> IF round.of = Settled THEN round.bought ELSE 0]
    BY <1>1, <2>1, <2>3 DEF Rounds
  <2>4. CASE \/ round' = [round EXCEPT !.done = Never]
             \/ round' = [round EXCEPT !.done = Settled]
    BY <1>1, <2>1, <2>4 DEF Rounds
  <2> QED BY <2>2, <2>3, <2>4 DEF CheckRound
<1>4. Watched'
  BY <1>2, Frames
<1>5. Onward
  <2>1. CASE Done \/ Escape
    BY <1>1, <2>1, IdleIsOnward
  <2>2. ASSUME NEW S \in Picks,
               run' = [Idle EXCEPT !.at = "round", !.who = "squeeze",
                                   !.todo = S]
        PROVE  Onward
    <3>1. S \in SUBSET Symbols /\ S \intersect Tracked("squeeze") = {}
      BY DEF Picks, Tracked
    <3>2. run' \in Runs
      BY <1>1, <2>2, <3>1, RunsStay DEF Miners
    <3>3. /\ run'.at = "round" /\ run'.who = "squeeze" /\ run'.todo = S
          /\ run'.why = ""
      BY <2>2 DEF Idle
    <3>4. Tracked("squeeze")' = Tracked("squeeze")
      BY <1>2 DEF Tracked
    <3> QED BY <3>1, <3>2, <3>3, <3>4 DEF Onward, Work, Opening, At
  <2>3. CASE run' = Idle
    BY <2>1, <2>3 DEF Done
  <2> QED BY <2>1, <2>2, <2>3 DEF CheckRound
<1> QED BY <1>1, <1>2, <1>3, <1>4, <1>5, OnwardStep

\* The next coin of the round.
LEMMA NextOfRoundStep ==
  ASSUME GainerInv, NextOfRound
  PROVE  GainerInv'
<1>1. /\ TypeOK /\ Watched /\ Work /\ run \in Runs /\ board \in Boards /\ Up
      /\ rearm \in [Coins -> {"no", "unknown", "high"}] /\ round \in Rounds
      /\ halted \in BOOLEAN /\ At("round")
  BY TypesAre DEF GainerInv, Types, NextOfRound, Up, At
<1>2. /\ UNCHANGED <<owner, stop, book, opened, armed, closedAt, rearm,
                     board, round, halted, now, soldAt>> /\ Ok
  BY DEF NextOfRound, market, disk, Ok
<1>3. PICK s \in run.todo : run' = [run EXCEPT !.at = "open", !.sym = s,
                                              !.todo = @ \ {s}]
  BY DEF NextOfRound
<1>4. Watched'
  BY <1>2, Frames
<1>5. s \in Symbols /\ s \in Coins
  BY <1>1, CoinsAssumption DEF Runs
<1>6. run' \in Runs
  BY <1>1, <1>3, <1>5, RunsStay
<1>7. /\ run'.at = "open" /\ run'.who = run.who /\ run'.todo = run.todo \ {s}
      /\ run'.sym = s /\ run'.why = run.why
  BY <1>1, <1>3 DEF Runs
<1>8. \A m : Tracked(m)' = Tracked(m)
  BY <1>2 DEF Tracked
<1>9. Onward
  BY <1>1, <1>3, <1>5, <1>6, <1>7, <1>8 DEF Onward, Work, Opening, At
<1> QED BY <1>1, <1>2, <1>4, <1>9, OnwardStep

\* The next call of an open().
LEMMA GotoStays ==
  ASSUME GainerInv, Opening, NEW p \in Ats \ {"open"}, Goto(p),
         UNCHANGED opened, p \notin {"ladder", "judge", "round"}
  PROVE  /\ run' \in Runs /\ Work' /\ run'.at = p
         /\ run'.sym = run.sym /\ run'.who = run.who
<1>1. TypeOK /\ Work /\ run \in Runs
  BY TypesAre DEF GainerInv, Types
<1>2. run' \in Runs
  BY <1>1, RunsStay DEF Goto
<1>3. /\ run'.at = p /\ run'.sym = run.sym /\ run'.who = run.who
      /\ run'.todo = run.todo /\ run'.why = run.why
  BY <1>1 DEF Goto, Runs
<1>4. \A m : Tracked(m)' = Tracked(m)
  BY DEF Tracked
<1> QED BY <1>1, <1>2, <1>3, <1>4 DEF Work, Opening, At

\* The reply is in and nothing is done yet.
LEMMA GotoIsOnward ==
  ASSUME GainerInv, Opening, NEW p \in {"fill", "stop", "flatten"}, Goto(p),
         UNCHANGED opened
  PROVE  Onward
<1>1. p \in Ats \ {"open"} /\ p \notin {"ladder", "judge", "round"}
  BY DEF Ats
<1> QED BY <1>1, GotoStays DEF Onward

\* An open() returns.
LEMMA ReturnIsOnward ==
  ASSUME GainerInv, Opening, Return, UNCHANGED opened
  PROVE  Onward
<1>1. TypeOK /\ Work /\ run \in Runs
  BY TypesAre DEF GainerInv, Types
<1>2. CASE Done
  BY <1>1, <1>2, IdleIsOnward
<1>3. CASE run.todo # {} /\ Goto("round")
  <2>1. run' \in Runs
    BY <1>1, <1>3, RunsStay DEF Goto, Ats
  <2>2. /\ run'.at = "round" /\ run'.who = run.who
        /\ run'.todo = run.todo /\ run'.why = run.why
    BY <1>1, <1>3 DEF Goto, Runs
  <2>3. \A m : Tracked(m)' = Tracked(m)
    BY DEF Tracked
  <2>4. Work'
    BY <1>1, <1>3, <2>2, <2>3 DEF Work, Opening, At
  <2> QED BY <2>1, <2>2, <2>4 DEF Onward
<1> QED BY <1>2, <1>3 DEF Return

\* What every call of an open() finds.
LEMMA Opens ==
  ASSUME GainerInv, Opening
  PROVE  /\ TypeOK /\ Types /\ Work /\ Watched /\ Up /\ run \in Runs
         /\ run.who \in Miners /\ run.sym \in Symbols
         /\ run.sym \notin Tracked(run.who)
         /\ \A p \in Miners \union {"none"} :
              /\ [owner EXCEPT ![run.sym] = p]
                   \in [Symbols -> Miners \union {"none", "user"}]
              /\ \A t \in Symbols : [owner EXCEPT ![run.sym] = p][t] =
                   IF t = run.sym THEN p ELSE owner[t]
         /\ \A b \in BOOLEAN :
              [stop EXCEPT ![run.sym] = b] \in [Symbols -> BOOLEAN]
<1>1. TypeOK /\ Types /\ Work /\ Watched /\ run \in Runs
  BY TypesAre DEF GainerInv, Types
<1>2. run.who \in Miners /\ run.sym \in Symbols
      /\ run.sym \notin Tracked(run.who) /\ Up
  BY <1>1 DEF Runs, Work, Opening, Up, At
<1> QED BY <1>1, <1>2 DEF Types

\* The market order.
LEMMA OpenOrderStep ==
  ASSUME GainerInv, OpenOrder
  PROVE  GainerInv'
<1>1. Opening
  BY DEF OpenOrder, Opening, At
<1>2. /\ UNCHANGED <<stop, book, opened, armed, closedAt, rearm, board,
                     halted, now, soldAt>> /\ (Ok \/ Fault)
  BY DEF OpenOrder, disk, Refuse
<1>3. Watched'
  BY <1>2, Frames
<1>4. CASE Refuse /\ UNCHANGED <<owner, round>>
  BY <1>1, <1>2, <1>3, <1>4, Opens, ReturnIsOnward, OnwardStep
     DEF Refuse, Types
<1>5. CASE /\ owner' = [owner EXCEPT ![run.sym] = run.who]
           /\ round' \in {round, [round EXCEPT !.bought = @ + 1]}
           /\ Goto("fill") \/ Escape
  <2>1. Onward
    BY <1>1, <1>2, <1>5, Opens, GotoIsOnward, IdleIsOnward
  <2>2. round' \in Rounds
    BY <1>1, <1>5, Opens DEF Types, Rounds
  <2>3. /\ owner' \in [Symbols -> Miners \union {"none", "user"}]
        /\ \A m \in Miners, t \in Symbols :
             owner'[t] = m => owner[t] = m \/ t \notin Tracked(m)
    BY <1>1, <1>5, Opens
  <2>4. /\ stop' \in [Symbols -> BOOLEAN] /\ board' \in Boards
        /\ rearm' \in [Coins -> {"no", "unknown", "high"}]
        /\ halted' \in BOOLEAN /\ Up
    BY <1>1, <1>2, Opens DEF Types
  <2> QED BY <1>2, <1>3, <2>1, <2>2, <2>3, <2>4, SettledOnward
<1> QED BY <1>4, <1>5 DEF OpenOrder

\* The fill is read.
LEMMA ReadFillStep ==
  ASSUME GainerInv, ReadFill
  PROVE  GainerInv'
<1>1. Opening
  BY DEF ReadFill, Opening, At
<1>2. /\ UNCHANGED <<owner, stop, book, opened, armed, closedAt, rearm, board,
                     round, now, soldAt>> /\ (Ok \/ Fault)
      /\ halted' \in {TRUE, halted}
  BY DEF ReadFill, market, disk, HaltAndReturn
<1>3. Watched'
  BY <1>2, Frames
<1>4. Goto("stop") \/ Return \/ Escape
  BY DEF ReadFill, HaltAndReturn
<1>5. Onward
  BY <1>1, <1>2, <1>4, Opens, GotoIsOnward, ReturnIsOnward, IdleIsOnward
<1>6. Types
  BY <1>1, Opens
<1> QED BY <1>1, <1>2, <1>3, <1>5, <1>6, Opens, OnwardStep DEF Types

\* A position and its track are written down together.
LEMMA RecordedStep ==
  ASSUME GainerInv, Opening, NEW m \in Miners, m = run.who,
         NEW s \in Symbols, s = run.sym, Return, Recorded(m, s), Ok,
         stop' \in [Symbols -> BOOLEAN],
         UNCHANGED <<owner, closedAt, rearm, board, round, halted, now,
                     soldAt>>
  PROVE  GainerInv'
<1>1. /\ TypeOK /\ Types /\ Work /\ Tagged /\ Cooled /\ Up /\ run \in Runs
      /\ s \notin Tracked(m)
  BY Opens DEF GainerInv
<1>2. /\ book' = [book EXCEPT ![s] = m]
      /\ opened' = [opened EXCEPT ![m][s] = now]
      /\ armed' = armed \/ armed' = armed \ {s}
      /\ faults' = faults
  BY DEF Recorded, Ok
<1>3. /\ opened' \in [Miners -> [Symbols -> Stamps]]
      /\ opened'[m] = [opened[m] EXCEPT ![s] = now]
      /\ \A n \in Miners : n # m => opened'[n] = opened[n]
  BY <1>1, <1>2 DEF Types, Stamps
<1>4. /\ Tracked(m)' = Tracked(m) \union {s}
      /\ \A n \in Miners : n # m => Tracked(n)' = Tracked(n)
  <2>1. now # Never /\ opened[m] \in [Symbols -> Stamps]
    BY <1>1 DEF Types, Times, Never
  <2> QED BY <1>3, <2>1 DEF Tracked
<1>5. /\ run' \in Runs
      /\ \/ run'.at = "idle"
         \/ /\ run'.at = "round" /\ run'.who = m /\ run'.todo = run.todo
            /\ run'.why = run.why /\ run.todo # {}
  <2>1. CASE Done
    <3>1. run' \in Runs
      BY <1>1, <2>1, RunsStay DEF Done
    <3>2. run'.at = "idle"
      BY <2>1 DEF Done, Idle
    <3> QED BY <3>1, <3>2
  <2>2. CASE run.todo # {} /\ Goto("round")
    <3>1. run' \in Runs
      BY <1>1, <2>2, RunsStay DEF Goto, Ats
    <3> QED BY <1>1, <2>2, <3>1 DEF Goto, Runs
  <2> QED BY <2>1, <2>2 DEF Return
<1>6. Types'
  <2>1. armed' \subseteq Tracked("gainer")'
    BY <1>1, <1>2, <1>4 DEF Types, Miners
  <2> QED BY <1>1, <1>2, <1>3, <1>5, <2>1 DEF Types
<1>7. Tagged'
  <2>1. \A t \in Symbols : book'[t] = IF t = s THEN m ELSE book[t]
    BY <1>1, <1>2 DEF Types
  <2>2. \A n \in Miners, t \in Symbols : Mine(n, t)' => Mine(n, t) \/ t = s
    BY <1>4 DEF Mine
  <2> QED BY <1>1, <1>5, <2>1, <2>2 DEF Tagged, Up, At
<1>8. Work'
  BY <1>1, <1>4, <1>5 DEF Work, Opening, At
<1>9. Watched'
  BY Frames
<1>10. Cooled' /\ Settling'
  <2>1. Tracked("gainer") \subseteq Tracked("gainer")'
    BY <1>4, <1>1 DEF Miners
  <2> QED BY <1>1, <1>5, <2>1 DEF Cooled, Settling, At
<1> QED BY <1>6, <1>7, <1>8, <1>9, <1>10, TypesAre DEF GainerInv

\* An open() goes on to its take-profit or to the cancel of what it left.
LEMMA TowardsStep ==
  ASSUME GainerInv, Opening, NEW p \in {"target", "cancel"}, Goto(p), Ok,
         stop' \in [Symbols -> BOOLEAN],
         owner' \in [Symbols -> Miners \union {"none", "user"}],
         \A m \in Miners, t \in Symbols : owner'[t] = m => owner[t] = m,
         IF p = "target" THEN stop'[run.sym] ELSE owner'[run.sym] # run.who,
         UNCHANGED <<book, opened, armed, closedAt, rearm, board, round,
                     halted, now, soldAt>>
  PROVE  GainerInv'
<1>1. TypeOK /\ Types /\ Cooled /\ Tagged /\ Up
  BY Opens DEF GainerInv
<1>2. p \in Ats \ {"open"} /\ p \notin {"ladder", "judge", "round"}
  BY DEF Ats
<1>3. /\ run' \in Runs /\ Work' /\ run'.at = p
      /\ run'.sym = run.sym /\ run'.who = run.who
  BY <1>2, GotoStays
<1>4. \A m : Tracked(m)' = Tracked(m)
  BY DEF Tracked
<1>5. Types'
  BY <1>1, <1>3, <1>4 DEF Types, Ok
<1>6. Tagged'
  <2>1. \A m \in Miners, t \in Symbols : Mine(m, t)' => Mine(m, t)
    BY <1>4 DEF Mine
  <2> QED BY <1>1, <1>3, <2>1 DEF Tagged, Up, At
<1>7. Watched'
  BY Frames
<1>8. Cooled' /\ Settling'
  BY <1>1, <1>3, <1>4 DEF Cooled, Settling, At
<1> QED BY <1>3, <1>5, <1>6, <1>7, <1>8, TypesAre DEF GainerInv

\* The stop.
LEMMA ProtectStopStep ==
  ASSUME GainerInv, ProtectStop
  PROVE  GainerInv'
<1>1. Opening
  BY DEF ProtectStop, Opening, At
<1>2. /\ UNCHANGED <<owner, closedAt, rearm, board, round, halted, now,
                     soldAt>>
      /\ (Ok \/ Fault)
      /\ stop' \in [Symbols -> BOOLEAN]
  BY <1>1, Opens DEF ProtectStop, Types
<1>3. Watched'
  BY <1>2, Frames
<1>4. Types /\ run.who \in Miners /\ run.sym \in Symbols /\ Up
  BY <1>1, Opens
<1>5. CASE Ok /\ Goto("target") /\ Unrecorded
           /\ stop' = [stop EXCEPT ![run.sym] = TRUE]
  <2>1. stop'[run.sym]
    BY <1>4, <1>5 DEF Types
  <2>2. PICK p \in {"target", "cancel"} : p = "target"
    OBVIOUS
  <2> QED BY <1>1, <1>2, <1>4, <1>5, <2>1, <2>2, TowardsStep
          DEF Types, Unrecorded
<1>6. CASE Ok /\ Return /\ Recorded(run.who, run.sym)
  <2>1. PICK m \in Miners : m = run.who
    BY <1>4
  <2>2. PICK s \in Symbols : s = run.sym
    BY <1>4
  <2>3. Recorded(m, s)
    BY <1>6, <2>1, <2>2 DEF Recorded
  <2> QED BY <1>1, <1>2, <1>6, <2>1, <2>2, <2>3, RecordedStep
<1>7. CASE Unrecorded /\ (Goto("flatten") \/ Escape)
  <2>1. Onward
    BY <1>1, <1>4, <1>7, Opens, GotoIsOnward, IdleIsOnward DEF Unrecorded
  <2> QED BY <1>2, <1>3, <1>4, <1>7, <2>1, SettledOnward DEF Types, Unrecorded
<1> QED BY <1>5, <1>6, <1>7 DEF ProtectStop

\* The take-profit.
LEMMA ProtectTargetStep ==
  ASSUME GainerInv, ProtectTarget
  PROVE  GainerInv'
<1>1. Opening
  BY DEF ProtectTarget, Opening, At
<1>2. /\ UNCHANGED <<owner, stop, closedAt, rearm, board, round, halted, now,
                     soldAt>> /\ (Ok \/ Fault)
  BY DEF ProtectTarget, market
<1>3. Watched'
  BY <1>2, Frames
<1>4. Types /\ run.who \in Miners /\ run.sym \in Symbols /\ Up
  BY <1>1, Opens
<1>5. CASE Ok /\ Return /\ Recorded(run.who, run.sym)
  <2>1. PICK m \in Miners : m = run.who
    BY <1>4
  <2>2. PICK s \in Symbols : s = run.sym
    BY <1>4
  <2>3. Recorded(m, s)
    BY <1>5, <2>1, <2>2 DEF Recorded
  <2> QED BY <1>1, <1>2, <1>4, <1>5, <2>1, <2>2, <2>3, RecordedStep DEF Types
<1>6. CASE Unrecorded /\ (Goto("flatten") \/ Escape)
  <2>1. Onward
    BY <1>1, <1>4, <1>6, Opens, GotoIsOnward, IdleIsOnward DEF Unrecorded
  <2> QED BY <1>2, <1>3, <1>4, <1>6, <2>1, OnwardStep DEF Types, Unrecorded
<1> QED BY <1>5, <1>6 DEF ProtectTarget

\* A rollback sells.
LEMMA FlattenStep ==
  ASSUME GainerInv, Flatten
  PROVE  GainerInv'
<1>1. Opening
  BY DEF Flatten, Opening, At
<1>2. /\ UNCHANGED <<stop, book, opened, armed, closedAt, rearm, board, round,
                     now, soldAt>> /\ (Ok \/ Fault)
      /\ halted' \in {halted, TRUE}
      /\ owner' \in {owner, [owner EXCEPT ![run.sym] = "none"]}
  BY DEF Flatten, disk, HaltAndReturn
<1>3. Watched'
  BY <1>2, Frames
<1>4. Types /\ run.who \in Miners /\ run.sym \in Symbols /\ Up
  BY <1>1, Opens
<1>5. /\ owner' \in [Symbols -> Miners \union {"none", "user"}]
      /\ \A m \in Miners, t \in Symbols : owner'[t] = m => owner[t] = m
      /\ stop' \in [Symbols -> BOOLEAN]
  BY <1>1, <1>2, <1>4, Opens DEF Types, Miners
<1>6. CASE /\ Ok /\ Goto("cancel") /\ UNCHANGED halted
           /\ owner' = [owner EXCEPT ![run.sym] = "none"]
  <2>1. owner'[run.sym] # run.who
    BY <1>1, <1>4, <1>6, Opens DEF Miners
  <2>2. PICK p \in {"target", "cancel"} : p = "cancel"
    OBVIOUS
  <2> QED BY <1>1, <1>2, <1>5, <1>6, <2>1, <2>2, TowardsStep
<1>7. CASE Return \/ Escape
  <2>1. Onward
    BY <1>1, <1>2, <1>7, Opens, ReturnIsOnward, IdleIsOnward
  <2>2. halted' \in BOOLEAN
    BY <1>2, <1>4 DEF Types
  <2> QED BY <1>2, <1>3, <1>4, <1>5, <2>1, <2>2, SettledOnward DEF Types
<1> QED BY <1>6, <1>7 DEF Flatten, HaltAndReturn

\* A rollback cancels.
LEMMA CancelLeftStep ==
  ASSUME GainerInv, CancelLeft
  PROVE  GainerInv'
<1>1. Opening
  BY DEF CancelLeft, Opening, At
<1>2. Types /\ run.who \in Miners /\ run.sym \in Symbols /\ Up
  BY <1>1, Opens
<1>3. /\ UNCHANGED <<owner, book, opened, armed, closedAt, rearm, board, round,
                     now, soldAt>> /\ (Ok \/ Fault)
      /\ halted' \in BOOLEAN /\ stop' \in [Symbols -> BOOLEAN]
      /\ Return \/ Escape
  BY <1>2 DEF CancelLeft, disk, HaltAndReturn, Types
<1>4. Watched'
  BY <1>3, Frames
<1>5. Onward
  BY <1>1, <1>3, Opens, ReturnIsOnward, IdleIsOnward
<1> QED BY <1>2, <1>3, <1>4, <1>5, SettledOnward DEF Types

-------------------------------------------------------------------------------
(* The process, and the theorems.                                          *)

\* The process dies.
LEMMA CrashStep ==
  ASSUME GainerInv, Crash
  PROVE  GainerInv'
<1>1. TypeOK /\ Types /\ Work /\ Watched /\ Cooled /\ run \in Runs
  BY TypesAre DEF GainerInv, Types
<1>2. /\ UNCHANGED <<owner, stop, opened, armed, closedAt, rearm, halted, now,
                     soldAt>>
      /\ book' = [s \in Symbols |-> "none"] /\ round' = NewRound
      /\ board' = [NewBoard EXCEPT !.leader = board.leader]
      /\ Goto("down") /\ faults' \in 0 .. MaxFaults
  BY <1>1, FaultsCounted DEF Crash, market, disk
<1>3. run' \in Runs /\ run'.at = "down"
  <2>1. run' \in Runs
    BY <1>1, <1>2, RunsStay DEF Goto, Ats
  <2> QED BY <1>1, <1>2, <2>1 DEF Goto, Runs
<1>4. \A m : Tracked(m)' = Tracked(m)
  BY <1>2 DEF Tracked
<1>5. board' \in Boards /\ board'.waiting = NoSym /\ round' \in Rounds
  <2>1. 0 \in Times
    BY BoundsAssumption DEF Times
  <2>2. board' = [leader |-> board.leader, cand |-> NoSym, since |-> 0,
                  based |-> FALSE, waiting |-> NoSym]
    BY <1>2 DEF NewBoard
  <2>3. board' \in Boards /\ board'.waiting = NoSym
    BY <1>1, <2>1, <2>2 DEF Types, Boards
  <2>4. Never \in Stamps /\ 0 \in Nat
    BY DEF Stamps
  <2>5. round' \in Rounds
    BY <1>2, <2>4 DEF NewRound, Rounds
  <2> QED BY <2>3, <2>5
<1>6. Types'
  BY <1>1, <1>2, <1>3, <1>4, <1>5 DEF Types
<1>7. Tagged' /\ Work' /\ Watched' /\ Cooled' /\ Settling'
  BY <1>1, <1>2, <1>3, <1>4, <1>5
     DEF Tagged, Work, Watched, Cooled, Settling, Opening, Up, At
<1> QED BY <1>6, <1>7, TypesAre DEF GainerInv

\* The strategies' tracks meet what was adopted.
LEMMA RestoreStep ==
  ASSUME GainerInv, At("down"), Done, NEW adopted \in SUBSET Symbols,
         Restore(adopted), Ok \/ Fault,
         UNCHANGED <<owner, stop, board, round, halted, now, soldAt>>
  PROVE  GainerInv'
<1>1. TypeOK /\ Types /\ Cooled /\ run \in Runs
  BY TypesAre DEF GainerInv, Types
<1>2. faults' \in 0 .. MaxFaults /\ run' \in Runs
  BY <1>1, FaultsCounted, RunsStay DEF Done
<1>3. run'.at = "idle"
  BY DEF Done, Idle
<1>4. \A m \in Miners : Tracked(m)' = Tracked(m) \intersect adopted
  BY DEF Restore, Tracked
<1>5. \A s \in adopted : Retagged(s) \in Miners \union {"generic"}
        /\ \A m \in Miners : s \in Tracked(m) => Retagged(s) \in Miners
  BY DEF Retagged, Miners
<1>6. /\ book' \in [Symbols -> Miners \union {"none", "generic"}]
      /\ opened' \in [Miners -> [Symbols -> Stamps]]
      /\ armed' \subseteq Tracked("gainer")'
      /\ closedAt' \in [Symbols -> Stamps]
  <2>1. book' \in [Symbols -> Miners \union {"none", "generic"}]
    BY <1>5 DEF Restore
  <2>2. opened' \in [Miners -> [Symbols -> Stamps]]
    BY <1>1 DEF Types, Restore, Stamps
  <2>3. armed' \subseteq Tracked("gainer")'
    BY <1>1, <1>4 DEF Types, Restore, Miners
  <2>4. closedAt' \in [Symbols -> Stamps]
    BY <1>1 DEF Types, Restore, Stamps
  <2> QED BY <2>1, <2>2, <2>3, <2>4
<1>7. rearm' \in [Coins -> {"no", "unknown", "high"}] /\ Watched'
  <2>1. PICK S \in SUBSET Symbols : Arm(S, "unknown")
    <3>1. Arm(Tracked("gainer") \ adopted, "unknown")
      BY DEF Restore
    <3>2. Tracked("gainer") \ adopted \in SUBSET Symbols
      BY DEF Tracked
    <3> QED BY <3>1, <3>2
  <2> QED BY <2>1, ArmKeeps
<1>8. Types'
  BY <1>1, <1>2, <1>6, <1>7 DEF Types
<1>9. Tagged'
  <2>1. \A m \in Miners, s \in Symbols : Mine(m, s)' => book'[s] \in Miners
    BY <1>4, <1>5 DEF Restore, Mine
  <2> QED BY <1>3, <2>1 DEF Tagged, Up, At
<1>10. Work' /\ Settling'
  BY <1>3 DEF Work, Settling, Opening, At
<1>11. Cooled'
  <2>1. now \in Int /\ soldAt \in [Symbols -> Int]
    BY <1>1 DEF Types, Stamps, Times, Never
  <2>2. \A s \in Symbols : closedAt'[s] =
          IF s \in Tracked("gainer") \ adopted THEN now ELSE closedAt[s]
    BY DEF Restore
  <2>3. Tracked("gainer")' = Tracked("gainer") \intersect adopted
    BY <1>4 DEF Miners
  <2> QED BY <1>1, <1>3, <2>1, <2>2, <2>3 DEF Cooled, At
<1> QED BY <1>7, <1>8, <1>9, <1>10, <1>11, TypesAre DEF GainerInv

LEMMA RestartStep ==
  ASSUME GainerInv, Restart
  PROVE  GainerInv'
<1>1. /\ At("down") /\ Done /\ (Ok \/ Fault)
      /\ UNCHANGED <<owner, stop, board, round, halted, now, soldAt>>
  BY DEF Restart, market
<1>2. PICK adopted \in SUBSET Symbols : Restore(adopted)
  <2>1. Restore({s \in Symbols : Open(s)}) \/ Restore({})
    BY DEF Restart
  <2>2. {s \in Symbols : Open(s)} \in SUBSET Symbols /\ {} \in SUBSET Symbols
    OBVIOUS
  <2> QED BY <2>1, <2>2
<1> QED BY <1>1, <1>2, RestoreStep

\* A new directory and an empty account.
LEMMA Starts == Init => GainerInv
<1> SUFFICES ASSUME Init PROVE GainerInv
  OBVIOUS
<1>1. \A m \in Miners : Tracked(m) = {}
  BY DEF Init, Tracked, Never
<1>2. 0 \in Times /\ Never \in Stamps /\ 0 \in 0 .. MaxFaults
  BY BoundsAssumption DEF Times, Stamps
<1>3. board \in Boards /\ round \in Rounds /\ run \in Runs
  BY <1>2 DEF Init, NewBoard, NewRound, Boards, Rounds, Runs, Idle, Ats, Miners
<1>4. Types
  BY <1>1, <1>2, <1>3 DEF Init, Types, Miners
<1>5. Tagged /\ Work /\ Settling
  BY <1>1 DEF Init, Tagged, Work, Settling, Opening, Mine, Up, At, Idle
<1>6. Watched
  BY DEF Init, Watched, NewBoard
<1>7. Cooled
  <2>1. run.at = "idle" /\ now = 0
    BY DEF Init, Idle
  <2>2. \A s \in Symbols : soldAt[s] = -1 /\ closedAt[s] = -1
    BY DEF Init, Never
  <2> QED BY <2>1, <2>2 DEF Cooled, At
<1> QED BY <1>4, <1>5, <1>6, <1>7, TypesAre DEF GainerInv

LEMMA Steps == GainerInv /\ [Next]_vars => GainerInv'
<1> SUFFICES ASSUME GainerInv, [Next]_vars PROVE GainerInv'
  OBVIOUS
<1>1. CASE Handler
  BY <1>1, ManageLadderStep, CheckLeaderStep, JudgeHeldStep, OnNewLeaderStep,
     CheckRoundStep, NextOfRoundStep, OpenOrderStep, ReadFillStep,
     ProtectStopStep, ProtectTargetStep, FlattenStep, CancelLeftStep
     DEF Handler
<1>2. CASE Crash \/ Restart \/ Resume \/ Elapse
  BY <1>2, CrashStep, RestartStep, ResumeStep, ElapseStep
<1>3. CASE \E m \in Miners : Tick(m)
  BY <1>3, TickStep
<1>4. CASE \E s \in Symbols : Engine(s) \/ Fires(s) \/ UserBuys(s)
  BY <1>4, EngineStep, FiresStep, UserBuysStep
<1>5. CASE UNCHANGED vars
  <2>1. UNCHANGED <<owner, stop, book, opened, armed, closedAt, rearm, board,
                    round, halted, run, now, faults, soldAt>>
    BY <1>5 DEF vars
  <2>2. Types'
    BY <2>1, TypesAre DEF GainerInv, Types, Tracked
  <2>3. Tagged' /\ Work' /\ Watched' /\ Cooled' /\ Settling'
    BY <2>1, Frames DEF Rests
  <2> QED BY <2>2, <2>3, TypesAre DEF GainerInv
<1> QED BY <1>1, <1>2, <1>3, <1>4, <1>5 DEF Next

\* Tracks, book and thread fit together in every reachable state.
THEOREM GainerInvariant == Spec => []GainerInv
BY Starts, Steps, PTL DEF Spec

\* Every variable keeps its type, with any number of coins and faults.
THEOREM GainerTypes == Spec => []TypeOK
<1>1. GainerInv => TypeOK
  BY DEF GainerInv
<1> QED BY <1>1, GainerInvariant, PTL

\* The supervisor stands aside from what a strategy tracks.
THEOREM MinersAreLeftAlone == Spec => []StandsAside
<1>1. GainerInv => StandsAside
  BY DEF GainerInv, Tagged, StandsAside, Mine, Tracked, Miners
<1> QED BY <1>1, GainerInvariant, PTL

\* What the gainer sold is not bought back as a leader inside the cooldown.
THEOREM NoEarlyRebuy == Spec => CooldownHolds
<1>1. GainerInv /\ [Next]_vars =>
        [At("open") /\ owner'[run.sym] # owner[run.sym] /\ run.why = "leader"
         /\ soldAt[run.sym] # Never
           => now - soldAt[run.sym] >= Cooldown]_vars
  <2> SUFFICES ASSUME GainerInv, At("open"), run.why = "leader",
                      soldAt[run.sym] # Never
               PROVE  now - soldAt[run.sym] >= Cooldown
    OBVIOUS
  <2>1. /\ run.sym \in Symbols \ Tracked("gainer") /\ ~Cooling(run.sym)
        /\ closedAt[run.sym] >= soldAt[run.sym]
    BY DEF GainerInv, Work, Opening, At, Cooled
  <2>2. /\ now \in Int /\ soldAt[run.sym] \in Int /\ soldAt[run.sym] >= 0
        /\ closedAt[run.sym] \in Int
    BY <2>1, TypesAre DEF GainerInv, Types, Stamps, Times, Never
  <2>3. now - closedAt[run.sym] >= Cooldown
    BY <2>1, <2>2, TimesAssumption DEF Cooling, Never
  <2> QED BY <2>1, <2>2, <2>3, TimesAssumption
<1> QED BY <1>1, GainerInvariant, PTL DEF Spec, CooldownHolds

\* An open() that returns leaves what it bought flat, or stopped, in the book
\* and tracked, or the bot halted.
Settles ==
  \/ At("open") \/ run.at \in {"idle", "ladder", "judge", "round", "down"}
  \/ run'.at \in {"stop", "target", "flatten", "cancel", "down"}
  \/ run'.why = "escaped" \/ UNCHANGED run
  \/ halted' \/ owner'[run.sym] # run.who
  \/ (/\ stop'[run.sym] /\ book'[run.sym] = run.who
      /\ opened'[run.who][run.sym] # Never)

\* What is recorded is in the book and tracked.
LEMMA RecordedIs ==
  ASSUME GainerInv, Opening, Recorded(run.who, run.sym)
  PROVE  /\ book'[run.sym] = run.who
         /\ opened'[run.who][run.sym] # Never
<1>1. Types /\ run.who \in Miners /\ run.sym \in Symbols
  BY Opens
<1>2. /\ book' = [book EXCEPT ![run.sym] = run.who]
      /\ opened' = [opened EXCEPT ![run.who][run.sym] = now]
  BY DEF Recorded
<1>3. now # Never
  BY <1>1 DEF Types, Times, Never
<1>4. opened[run.who] \in [Symbols -> Stamps]
  BY <1>1 DEF Types
<1> QED BY <1>1, <1>2, <1>3, <1>4 DEF Types

LEMMA EveryOpenSettles == GainerInv /\ [Next]_vars => [Settles]_vars
<1>0. GainerInv =>
        Opening \/ run.at \in {"idle", "ladder", "judge", "round", "down"}
  BY TypesAre DEF GainerInv, Types, Opening, Runs, Ats
<1> SUFFICES ASSUME GainerInv, Next, Opening, ~At("open"), ~UNCHANGED run
             PROVE  Settles
  BY <1>0 DEF Settles, vars
<1>1. /\ run \in Runs /\ run.who \in Miners /\ run.sym \in Symbols
      /\ Types /\ Settling
  BY Opens DEF GainerInv
<1>2. CASE Escape
  <2>1. run'.why = "escaped"
    BY <1>2 DEF Escape, Idle
  <2> QED BY <2>1 DEF Settles
<1>3. CASE \E p \in {"stop", "target", "flatten", "cancel", "down"} : Goto(p)
  <2>1. run'.at \in {"stop", "target", "flatten", "cancel", "down"}
    BY <1>1, <1>3 DEF Goto, Runs
  <2> QED BY <2>1 DEF Settles
<1>4. CASE halted'
  BY <1>4 DEF Settles
<1>5. CASE ReadFill \/ Flatten
  BY <1>2, <1>3, <1>4, <1>5 DEF ReadFill, Flatten, HaltAndReturn
<1>6. CASE ProtectStop
  <2>1. CASE /\ Recorded(run.who, run.sym)
             /\ stop' = [stop EXCEPT ![run.sym] = TRUE]
    <3>1. stop'[run.sym]
      BY <1>1, <2>1 DEF Types
    <3> QED BY <2>1, <3>1, RecordedIs DEF Settles
  <2> QED BY <1>2, <1>3, <1>6, <2>1 DEF ProtectStop
<1>7. CASE ProtectTarget
  <2>1. CASE Recorded(run.who, run.sym)
    <3>1. /\ owner[run.sym] # run.who \/ stop[run.sym]
          /\ UNCHANGED <<owner, stop>>
      BY <1>1, <1>7 DEF ProtectTarget, Settling, market
    <3> QED BY <2>1, <3>1, RecordedIs DEF Settles
  <2> QED BY <1>2, <1>3, <1>7, <2>1 DEF ProtectTarget
<1>8. CASE CancelLeft
  <2>1. owner'[run.sym] # run.who
    BY <1>1, <1>8 DEF CancelLeft, Settling
  <2> QED BY <2>1 DEF Settles
<1>9. CASE Crash
  BY <1>3, <1>9 DEF Crash
<1>10. CASE \E s \in Symbols : Fires(s) \/ UserBuys(s)
  BY <1>10 DEF Fires, UserBuys
<1>11. Handler => ReadFill \/ ProtectStop \/ ProtectTarget \/ Flatten
                  \/ CancelLeft
  BY DEF Handler, Opening, At, ManageLadder, CheckLeader, JudgeHeld,
     OnNewLeader, CheckRound, NextOfRound, OpenOrder
<1>12. /\ ~Restart /\ ~Resume /\ ~Elapse
       /\ \A m \in Miners : ~Tick(m)
       /\ \A s \in Symbols : ~Engine(s)
  BY DEF Opening, At, Restart, Resume, Elapse, Tick, Engine, EngineCloses,
     ReleaseFlat, AdoptUntracked, Protect
<1> QED BY <1>5, <1>6, <1>7, <1>8, <1>9, <1>10, <1>11, <1>12 DEF Next

\* An open() with any of its calls refused leaves nothing bought and forgotten.
THEOREM OpensSettle == Spec => OpenSettles
<1>1. GainerInv /\ [Next]_vars => [
          \/ At("open")
          \/ run.at \in {"idle", "ladder", "judge", "round", "down"}
          \/ run'.at \in {"stop", "target", "flatten", "cancel", "down"}
          \/ run'.why = "escaped" \/ UNCHANGED run
          \/ halted' \/ owner'[run.sym] # run.who
          \/ (/\ stop'[run.sym] /\ book'[run.sym] = run.who
              /\ opened'[run.who][run.sym] # Never) ]_vars
  BY EveryOpenSettles DEF Settles
<1> QED BY <1>1, GainerInvariant, PTL DEF Spec, OpenSettles

-------------------------------------------------------------------------------
(* The squeeze's rounds.                                                   *)

\* What a round may still buy.
Left ==
  IF run.who = "squeeze" /\ (At("round") \/ Opening)
  THEN Cardinality(run.todo) + (IF At("open") THEN 1 ELSE 0) ELSE 0

\* A round that is due has bought nothing yet, and what it has bought and may
\* still buy is within the limit.
RoundInv ==
  /\ round.of <= Settled
  /\ Settled > round.done => round.of < Settled
  /\ round.bought + Left <= MaxNewPerRound

\* What is left is a number.
LEMMA LeftIsNat ==
  ASSUME GainerInv
  PROVE  /\ Left \in Nat /\ Cardinality(run.todo) \in Nat
         /\ IsFiniteSet(run.todo)
<1>1. run \in Runs
  BY TypesAre DEF GainerInv, Types
<1>2. IsFiniteSet(run.todo)
  BY <1>1, CoinsAssumption, FS_Subset DEF Runs
<1>3. Cardinality(run.todo) \in Nat
  BY <1>2, FS_CardinalityType
<1> QED BY <1>2, <1>3 DEF Left

\* A step that adds nothing to buy.
LEMMA RoundKept ==
  ASSUME GainerInv, RoundInv, UNCHANGED <<round, now>>,
         Left' = 0 \/ (Left' \in Int /\ Left' <= Left)
  PROVE  RoundInv'
<1>1. round.bought \in Nat /\ Settled' = Settled
  BY TypesAre DEF GainerInv, Types, Rounds, Settled
<1> QED BY <1>1, LeftIsNat, SlotsAssumption DEF RoundInv

\* The thread at rest.
LEMMA IdleIs ==
  /\ Idle.at = "idle" /\ Idle.who = "gainer"
  /\ [Idle EXCEPT !.why = "escaped"].at = "idle"
  /\ \A S : LET r == [Idle EXCEPT !.at = "round", !.who = "squeeze",
                                !.todo = S]
           IN  r.at = "round" /\ r.who = "squeeze" /\ r.todo = S
BY DEF Idle

\* Where the thread may go without buying more.
LEMMA LeftFalls ==
  ASSUME GainerInv
  PROVE  /\ UNCHANGED run => Left' = Left
         /\ run'.at \in {"idle", "ladder", "judge", "down"} => Left' = 0
         /\ run'.who = "gainer" => Left' = 0
         /\ Done \/ Escape => Left' = 0
         /\ Opening /\ Return => Left' \in Int /\ Left' <= Left
         /\ \A p \in {"fill", "stop", "target", "flatten", "cancel"} :
              Opening /\ Goto(p) => Left' \in Int /\ Left' <= Left
<1>1. run \in Runs /\ Left \in Nat /\ Cardinality(run.todo) \in Nat
  BY LeftIsNat, TypesAre DEF GainerInv, Types
<1>2. UNCHANGED run => Left' = Left
  BY DEF Left, Opening, At
<1>3. run'.at \in {"idle", "ladder", "judge", "down"} => Left' = 0
  BY DEF Left, Opening, At
<1>4. run'.who = "gainer" => Left' = 0
  BY DEF Left
<1>5. Done \/ Escape => Left' = 0
  <2>1. Done => run'.at = "idle"
    BY IdleIs DEF Done
  <2>2. Escape => run'.at = "idle"
    BY IdleIs DEF Escape
  <2> QED BY <1>3, <2>1, <2>2
<1>6. ASSUME NEW p \in {"fill", "stop", "target", "flatten", "cancel",
                        "round"},
             Opening, Goto(p)
      PROVE  Left' \in Int /\ Left' <= Left
  <2>1. /\ run'.at = p /\ run'.who = run.who /\ run'.todo = run.todo
    BY <1>1, <1>6 DEF Goto, Runs
  <2>2. Left' \in {0, Cardinality(run.todo)}
    BY <1>1, <2>1 DEF Left, Opening, At
  <2>3. Left' # 0 => run.who = "squeeze"
    BY <2>1 DEF Left
  <2>4. run.who = "squeeze" => Left >= Cardinality(run.todo)
    BY <1>1, <1>6 DEF Left
  <2> QED BY <1>1, <2>2, <2>3, <2>4
<1>7. Opening /\ Return => Left' \in Int /\ Left' <= Left
  BY <1>1, <1>5, <1>6 DEF Return
<1> QED BY <1>2, <1>3, <1>4, <1>5, <1>6, <1>7

\* Time passes, and a settlement with it.
LEMMA ElapseKeepsRound ==
  ASSUME GainerInv, RoundInv, Elapse
  PROVE  RoundInv'
<1>1. /\ now \in Int /\ now >= 0 /\ Period \in Int /\ Period > 0
      /\ now' = now + 1 /\ UNCHANGED <<round, run>>
      /\ round.of \in Int /\ round.done \in Int /\ round.bought \in Int
  BY TypesAre, TimesAssumption
     DEF GainerInv, Types, Rounds, Stamps, Times, Never, Elapse
<1> DEFINE q == now \div Period
           r == (now + 1) \div Period
<1>2. q \in Int /\ r \in Int /\ r >= q
  BY <1>1
<1> HIDE DEF q, r
<1>3. q * Period \in Int /\ r * Period \in Int /\ r * Period >= q * Period
  BY <1>1, <1>2
<1>4. Settled = q * Period /\ Settled' = r * Period
  BY <1>1 DEF Settled, q, r
<1>5. Left' = Left
  BY <1>1, LeftFalls
<1> QED BY <1>1, <1>3, <1>4, <1>5 DEF RoundInv

\* A settlement is acted on.
LEMMA CheckRoundKeepsRound ==
  ASSUME GainerInv, RoundInv, CheckRound
  PROVE  RoundInv'
<1>1. /\ round \in Rounds /\ now \in Times /\ now' = now /\ Settled' = Settled
      /\ Settled \in Int /\ Settled >= 0 /\ run \in Runs
  <2>1. round \in Rounds /\ now \in Times /\ now' = now /\ run \in Runs
    BY TypesAre DEF GainerInv, Types, CheckRound
  <2>2. Settled' = Settled
    BY <2>1 DEF Settled
  <2>3. Settled \in Times
    BY <2>1, SettledTimes
  <2> QED BY <2>1, <2>2, <2>3, BoundsAssumption DEF Times
<1>2. CASE UNCHANGED round /\ Done
  BY <1>1, <1>2, LeftFalls, RoundKept
<1>3. ASSUME Due, NEW S \in Picks,
             run' = IF S = {} THEN Idle
                    ELSE [Idle EXCEPT !.at = "round", !.who = "squeeze",
                                      !.todo = S],
             round' = [done |-> Settled, of |-> Settled,
               bought |-> IF round.of = Settled THEN round.bought ELSE 0]
      PROVE  RoundInv'
  <2>1. round.of < Settled /\ round.of \in Int
    BY <1>1, <1>3 DEF RoundInv, Due, Rounds, Stamps, Times, Never
  <2>2. round'.done = Settled /\ round'.of = Settled /\ round'.bought = 0
    BY <1>1, <1>3, <2>1
  <2>3. Cardinality(S) \in Nat /\ Cardinality(S) <= MaxNewPerRound
    <3>1. IsFiniteSet(S)
      BY CoinsAssumption, FS_Subset DEF Picks
    <3> QED BY <3>1, FS_CardinalityType DEF Picks
  <2>4. Left' = 0 \/ Left' = Cardinality(S)
    <3>1. CASE S = {}
      BY <1>3, <3>1, LeftFalls DEF Done
    <3>2. CASE S # {}
      <4>1. run'.at = "round" /\ run'.who = "squeeze" /\ run'.todo = S
        BY <1>3, <3>2, IdleIs
      <4> QED BY <2>3, <4>1 DEF Left, Opening, At
    <3> QED BY <3>1, <3>2
  <2> QED BY <1>1, <2>2, <2>3, <2>4, SlotsAssumption DEF RoundInv
<1>4. CASE /\ Due /\ (Done \/ Escape)
           /\ round' \in {[round EXCEPT !.done = Never],
                          [round EXCEPT !.done = Settled]}
  <2>1. round.of < Settled /\ round.bought + Left <= MaxNewPerRound
    BY <1>4 DEF RoundInv, Due
  <2>2. /\ round'.of = round.of /\ round'.bought = round.bought
        /\ round.bought \in Nat /\ round.of \in Int
    BY <1>1, <1>4 DEF Rounds, Stamps, Times, Never
  <2>3. Left' = 0
    BY <1>4, LeftFalls
  <2> QED BY <1>1, <2>1, <2>2, <2>3, LeftIsNat, SlotsAssumption DEF RoundInv
<1> QED BY <1>2, <1>3, <1>4 DEF CheckRound

\* The next coin of a round.
LEMMA NextOfRoundKeepsRound ==
  ASSUME GainerInv, RoundInv, NextOfRound
  PROVE  RoundInv'
<1>1. run \in Runs /\ At("round") /\ UNCHANGED <<round, now>>
  BY TypesAre DEF GainerInv, Types, NextOfRound
<1>2. PICK s \in run.todo : run' = [run EXCEPT !.at = "open", !.sym = s,
                                              !.todo = @ \ {s}]
  BY DEF NextOfRound
<1>3. /\ run'.at = "open" /\ run'.who = run.who /\ run'.todo = run.todo \ {s}
  BY <1>1, <1>2 DEF Runs
<1>4. Cardinality(run.todo \ {s}) = Cardinality(run.todo) - 1
  BY <1>2, LeftIsNat, FS_RemoveElement
<1>5. Left' \in {0, Left}
  <2>1. CASE run.who = "squeeze"
    <3>1. Left = Cardinality(run.todo)
      BY <1>1, <2>1, LeftIsNat DEF Left, At
    <3>2. Left' = Cardinality(run.todo \ {s}) + 1
      BY <1>3, <2>1 DEF Left, Opening, At
    <3> QED BY <1>4, <3>1, <3>2, LeftIsNat
  <2>2. CASE run.who # "squeeze"
    BY <1>3, <2>2 DEF Left
  <2> QED BY <2>1, <2>2
<1> QED BY <1>1, <1>5, LeftIsNat, RoundKept

\* A coin is bought.
LEMMA OpenOrderKeepsRound ==
  ASSUME GainerInv, RoundInv, OpenOrder
  PROVE  RoundInv'
<1>1. run \in Runs /\ Opening /\ At("open") /\ UNCHANGED now
      /\ round \in Rounds /\ Settled' = Settled
  BY TypesAre DEF GainerInv, Types, OpenOrder, Opening, At, Settled
<1>2. CASE Return /\ UNCHANGED round
  BY <1>1, <1>2, LeftFalls, RoundKept
<1>3. CASE (Goto("fill") \/ Escape) /\ UNCHANGED round
  BY <1>1, <1>3, LeftFalls, RoundKept
<1>4. CASE /\ run.who = "squeeze" /\ (Goto("fill") \/ Escape)
           /\ round' = [round EXCEPT !.bought = @ + 1]
  <2>1. /\ round'.of = round.of /\ round'.done = round.done
        /\ round'.bought = round.bought + 1 /\ round.bought \in Nat
    BY <1>1, <1>4 DEF Rounds
  <2>2. Left = Cardinality(run.todo) + 1
    BY <1>1, <1>4, LeftIsNat DEF Left
  <2>3. Left' \in Int /\ Left' <= Cardinality(run.todo)
    <3>1. CASE Goto("fill")
      <4>1. run'.at = "fill" /\ run'.todo = run.todo
        BY <1>1, <3>1 DEF Goto, Runs
      <4> QED BY <4>1, LeftIsNat DEF Left, At
    <3>2. CASE Escape
      BY <3>2, LeftFalls, LeftIsNat
    <3> QED BY <1>4, <3>1, <3>2
  <2> QED BY <1>1, <2>1, <2>2, <2>3, LeftIsNat, SlotsAssumption DEF RoundInv
<1> QED BY <1>2, <1>3, <1>4 DEF OpenOrder, Refuse

LEMMA RoundSteps == GainerInv /\ RoundInv /\ [Next]_vars => RoundInv'
<1> SUFFICES ASSUME GainerInv, RoundInv, [Next]_vars PROVE RoundInv'
  OBVIOUS
<1>1. run \in Runs
  BY TypesAre DEF GainerInv, Types
<1>2. CASE UNCHANGED <<run, round, now>>
  BY <1>2, LeftFalls, LeftIsNat, RoundKept
<1>3. CASE (Done \/ Escape) /\ UNCHANGED <<round, now>>
  BY <1>3, LeftFalls, RoundKept
<1>4. CASE ManageLadder \/ JudgeHeld
  <2>1. UNCHANGED <<round, now>>
    BY <1>4 DEF ManageLadder, JudgeHeld
  <2>2. Escape \/ \E s \in run.todo : NextSymbol(s)
    BY <1>4 DEF ManageLadder, JudgeHeld, LadderRests, LadderRises, CloseTrack,
       CloseLost
  <2>3. CASE \E s \in run.todo : NextSymbol(s)
    <3>1. run.at \in {"ladder", "judge"}
      BY <1>4 DEF ManageLadder, JudgeHeld, At
    <3>2. run'.at \in {"ladder", "judge"}
      BY <1>1, <2>3, <3>1 DEF NextSymbol, Runs
    <3> QED BY <2>1, <3>2, LeftFalls, RoundKept
  <2> QED BY <1>3, <2>1, <2>2, <2>3
<1>5. CASE CheckLeader \/ OnNewLeader
  <2>1. UNCHANGED <<round, now>>
    BY <1>5 DEF CheckLeader, OnNewLeader
  <2>2. Done \/ run'.who = "gainer"
    <3>1. Idle.who = "gainer"
      BY DEF Idle
    <3> QED BY <1>5, <3>1 DEF CheckLeader, OnNewLeader, NotDue, Skipped,
            StillLeads, Challenges, TryEnter, Idle
  <2> QED BY <2>1, <2>2, LeftFalls, RoundKept
<1>6. CASE ReadFill \/ ProtectStop \/ ProtectTarget \/ Flatten \/ CancelLeft
  <2>1. UNCHANGED <<round, now>> /\ Opening
    BY <1>6 DEF ReadFill, ProtectStop, ProtectTarget, Flatten, CancelLeft,
       Opening, At
  <2>2. \/ Return \/ Escape \/ Goto("stop") \/ Goto("target")
        \/ Goto("flatten") \/ Goto("cancel")
    BY <1>6 DEF ReadFill, ProtectStop, ProtectTarget, Flatten, CancelLeft,
       HaltAndReturn
  <2> QED BY <2>1, <2>2, LeftFalls, RoundKept
<1>7. CASE \E m \in Miners : Tick(m)
  <2>1. UNCHANGED <<round, now>> /\ run'.at = "ladder"
    BY <1>7 DEF Tick, Idle
  <2> QED BY <2>1, LeftFalls, RoundKept
<1>8. CASE Crash
  <2>1. run'.at = "down" /\ UNCHANGED now /\ round' = NewRound
    BY <1>1, <1>8 DEF Crash, Goto, Runs
  <2>2. Settled' \in Int /\ Settled' >= 0
    BY <2>1, SettledTimes, TypesAre DEF GainerInv, Types, Settled, Times
  <2> QED BY <2>1, <2>2, LeftFalls, SlotsAssumption
          DEF RoundInv, NewRound, Never
<1>9. CASE Restart
  BY <1>3, <1>9 DEF Restart
<1>10. CASE \/ Resume
            \/ \E s \in Symbols : Engine(s) \/ Fires(s) \/ UserBuys(s)
  BY <1>2, <1>3, <1>10 DEF Resume, Engine, Fires, UserBuys, EngineCloses,
     ReleaseFlat, AdoptUntracked, Protect, CloseLost
<1>11. CASE UNCHANGED vars
  BY <1>2, <1>11 DEF vars
<1> QED BY <1>4, <1>5, <1>6, <1>7, <1>8, <1>9, <1>10, <1>11,
        ElapseKeepsRound, CheckRoundKeepsRound, NextOfRoundKeepsRound,
        OpenOrderKeepsRound DEF Next, Handler

LEMMA RoundStarts == Init => RoundInv
<1> SUFFICES ASSUME Init PROVE RoundInv
  OBVIOUS
<1>1. run = Idle /\ round = NewRound /\ now = 0
  BY DEF Init
<1>2. Left = 0
  BY <1>1 DEF Left, Opening, At, Idle
<1>3. Settled \in Int /\ Settled >= 0
  BY <1>1, SettledTimes, BoundsAssumption DEF Times
<1> QED BY <1>1, <1>2, <1>3, SlotsAssumption DEF RoundInv, NewRound, Never

\* One settlement buys at most max_new_per_round coins.
THEOREM RoundsAreBounded == Spec => []RoundOnce
<1>1. GainerInv /\ RoundInv => RoundOnce
  <2> SUFFICES ASSUME GainerInv, RoundInv PROVE RoundOnce
    OBVIOUS
  <2>1. round.bought \in Nat
    BY TypesAre DEF GainerInv, Types, Rounds
  <2> QED BY <2>1, LeftIsNat, SlotsAssumption DEF RoundInv, RoundOnce
<1> QED BY <1>1, GainerInvariant, RoundStarts, RoundSteps, PTL DEF Spec

===============================================================================
