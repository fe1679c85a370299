-------------------------------- MODULE Gainer --------------------------------
(***************************************************************************)
(* The two strategies that own their exits, GainerMiner (bot/gainer.py)    *)
(* and its subclass SqueezeTrader (bot/squeeze.py), with the engine they   *)
(* share: its book, its reconcile and watchdog, its commands, and the      *)
(* process that crashes and restarts under them.  The engine is one        *)
(* thread, but stops fire, replies are refused or lost and the process     *)
(* dies between any two calls of an open().  What a price does is left     *)
(* open: which coin leads, which rate is negative, whether a step of the   *)
(* ladder was reached.  One call of the engine to close or to reconcile a  *)
(* symbol is one step here; module Protection takes those apart.           *)
(***************************************************************************)
EXTENDS Integers, FiniteSets

CONSTANTS
  Symbols,        \* coins that pass the filters
  Coins,          \* coins that may lead the board
  GainerSlots,    \* gainer entry.max_positions
  SqueezeSlots,   \* squeeze entry.max_positions
  GainerHold,     \* gainer exit.unarmed_max_hours, 0 for never
  SqueezeHold,    \* squeeze exit.max_hold_hours
  MaxNewPerRound, \* squeeze entry.max_new_per_round
  Period,         \* ticks between funding settlements
  Window,         \* squeeze board.act_within_minutes
  Confirm,        \* gainer entry.confirm_minutes
  Cooldown,       \* gainer entry.rebuy_cooldown_minutes
  MinHold,        \* gainer exit.min_hold_minutes
  Horizon,        \* bound on the clock
  MaxFaults       \* bound on refused and lost calls, crashes and hand trades

Miners == {"gainer", "squeeze"}

MaxPositions == [m \in Miners |-> IF m = "gainer" THEN GainerSlots
                                 ELSE SqueezeSlots]
MaxHold == [m \in Miners |-> IF m = "gainer" THEN GainerHold ELSE SqueezeHold]

ASSUME CoinsAssumption ==
  /\ Symbols \subseteq Coins /\ IsFiniteSet(Symbols)
  /\ "none" \notin Coins
ASSUME SlotsAssumption ==
  /\ GainerSlots \in Nat /\ SqueezeSlots \in Nat /\ MaxNewPerRound \in Nat
  /\ GainerHold \in Nat /\ SqueezeHold \in Nat
ASSUME TimesAssumption ==
  /\ Period \in Nat \ {0} /\ Window \in Nat /\ Confirm \in Nat
  /\ Cooldown \in Nat /\ MinHold \in Nat
ASSUME BoundsAssumption == Horizon \in Nat /\ MaxFaults \in Nat

VARIABLES
  owner,    \* who opened the position of a symbol: "none", a miner, "user"
  stop,     \* a stop-loss order rests on the exchange
  book,     \* engine.book: "none", "generic", or ActivePosition.strategy
  opened,   \* tracks, on disk: when each began, Never when there is none
  armed,    \* tracks of the gainer whose ladder has moved the stop
  closedAt, \* gainer closed_at, on disk
  rearm,    \* gainer rearm, on disk: "no", "unknown" or "high"
  board,    \* leader (on disk), candidate, its age, baselined, waiting
  round,    \* squeeze done_round; history: buys of this process, by settlement
  halted,   \* state.halted, on disk
  run,      \* what the thread is at: handler, strategy, symbol, work left
  now, faults,
  soldAt    \* history: when a tracked gainer position was last closed

market == <<owner, stop>>
disk   == <<opened, armed, closedAt, rearm>>
vars   == <<owner, stop, book, opened, armed, closedAt, rearm, board, round,
            halted, run, now, faults, soldAt>>

Never   == -1
NoSym   == "none"
Times   == 0 .. Horizon
Stamps  == Times \union {Never}
Tracked(m)  == {s \in Symbols : opened[m][s] # Never}
Held(s)     == book[s] # "none"
Open(s)     == owner[s] # "none"
Mine(m, s)  == s \in Tracked(m) /\ owner[s] = m

At(p)   == run.at = p
Up      == ~At("down")
Idle    == [at |-> "idle", who |-> "gainer", sym |-> NoSym, todo |-> {},
            why |-> ""]
Goto(p) == run' = [run EXCEPT !.at = p]
Done    == run' = Idle
Escape  == run' = [Idle EXCEPT !.why = "escaped"]
Ok      == UNCHANGED faults
Fault   == faults < MaxFaults /\ faults' = faults + 1

NewBoard == [leader |-> NoSym, cand |-> NoSym, since |-> 0,
             based |-> FALSE, waiting |-> NoSym]
NewRound == [done |-> Never, of |-> Never, bought |-> 0]

Init ==
  /\ owner = [s \in Symbols |-> "none"] /\ stop = [s \in Symbols |-> FALSE]
  /\ book = [s \in Symbols |-> "none"]
  /\ opened = [m \in Miners |-> [s \in Symbols |-> Never]] /\ armed = {}
  /\ closedAt = [s \in Symbols |-> Never]
  /\ rearm = [s \in Coins |-> "no"]
  /\ board = NewBoard /\ round = NewRound
  /\ halted = FALSE /\ run = Idle /\ now = 0 /\ faults = 0
  /\ soldAt = [s \in Symbols |-> Never]

-------------------------------------------------------------------------------
(* The exchange, the user and the clock. *)

\* A tracked position of the gainer that ends is remembered, for CooldownHolds.
Sells(S) ==
  soldAt' = [s \in Symbols |-> IF s \in S /\ Mine("gainer", s) THEN now
                               ELSE soldAt[s]]

\* A stop or take-profit triggers, or the user sells.  The orders of the other
\* side stay listed.
Fires(s) ==
  /\ Open(s) /\ Sells({s}) /\ owner' = [owner EXCEPT ![s] = "none"]
  /\ \/ stop[s] /\ stop' = [stop EXCEPT ![s] = FALSE]
     \/ UNCHANGED stop
  /\ UNCHANGED <<book, disk, board, round, halted, run, now, faults>>

\* The user buys on Binance.
UserBuys(s) ==
  /\ ~Open(s) /\ Fault /\ owner' = [owner EXCEPT ![s] = "user"]
  /\ UNCHANGED <<stop, book, disk, board, round, halted, run, now, soldAt>>

\* The calls of one handler are seconds apart, the time limits hours.
Elapse ==
  /\ At("idle") \/ At("down")
  /\ now < Horizon /\ now' = now + 1
  /\ UNCHANGED <<market, book, disk, board, round, halted, run, faults,
                 soldAt>>

-------------------------------------------------------------------------------
(* What the engine does with a symbol, whoever traded it. *)

\* close_position(): flat or sold, leftovers cancelled, booked and released.
ClosesAll(s) ==
  /\ Sells({s}) /\ owner' = [owner EXCEPT ![s] = "none"]
  /\ \/ Ok /\ stop' = [stop EXCEPT ![s] = FALSE]
     \/ Fault /\ UNCHANGED stop
  /\ book' = [book EXCEPT ![s] = "none"]

\* Refused, at the read or at the order: nothing has changed.
CloseRefused == Fault /\ UNCHANGED <<market, book, soldAt>>

\* The reply is lost: the exception escapes with or without the sale.
CloseLost(s) ==
  /\ Fault /\ Escape
  /\ \/ Sells({s}) /\ owner' = [owner EXCEPT ![s] = "none"]
     \/ UNCHANGED <<owner, soldAt>>
  /\ UNCHANGED <<stop, book>>

\* The supervisor closes what is not a miner's; commands close anything.
EngineCloses(s) ==
  /\ At("idle") /\ Held(s)
  /\ \/ ClosesAll(s) /\ UNCHANGED run
     \/ CloseLost(s)
  /\ UNCHANGED <<opened, armed, closedAt, rearm, board, round, halted, now>>

\* reconcile_position(): flat, so booked and released.
ReleaseFlat(s) ==
  /\ At("idle") /\ Held(s) /\ ~Open(s) /\ ClosesAll(s)
  /\ UNCHANGED <<opened, armed, closedAt, rearm, board, round, halted, run,
                 now>>

\* (Slip: what is in the book already is adopted over.)
AdoptUntrackedSlip(s) ==
  /\ At("idle") /\ Open(s) /\ Ok
  /\ book' = [book EXCEPT ![s] = "generic"]
  /\ UNCHANGED <<market, disk, board, round, halted, run, now, soldAt>>

\* protect_positions(): an untracked position is adopted, with no strategy.
AdoptUntracked(s) ==
  /\ At("idle") /\ Open(s) /\ ~Held(s) /\ Ok
  /\ book' = [book EXCEPT ![s] = "generic"]
  /\ UNCHANGED <<market, disk, board, round, halted, run, now, soldAt>>

\* ensure_protected(): a stop is put back, or the position closed.
Protect(s) ==
  /\ At("idle") /\ Open(s) /\ Held(s) /\ ~stop[s]
  /\ \/ /\ Ok /\ stop' = [stop EXCEPT ![s] = TRUE]
        /\ UNCHANGED <<owner, book, soldAt>>
     \/ ClosesAll(s)
  /\ UNCHANGED <<opened, armed, closedAt, rearm, board, round, halted, run,
                 now>>

Resume ==
  /\ At("idle") \/ At("down")          \* by command, or by hand in the file
  /\ halted /\ halted' = FALSE
  /\ UNCHANGED <<market, book, disk, board, round, run, now, faults, soldAt>>

-------------------------------------------------------------------------------
(* tick(): forget what the engine released, then walk the ladder. *)

\* _arm(): a closed position on the leader may be bought again above a high.
Arm(S, level) ==
  rearm' = [s \in Coins |-> IF s \in S /\ s = board.leader THEN level
                              ELSE rearm[s]]

\* (Slip: what the ladder did outlives the track it did it to.)
DropSlip(m, S) ==
  /\ opened' = [opened EXCEPT ![m] = [s \in Symbols |->
                                        IF s \in S THEN Never ELSE @[s]]]
  /\ IF m = "gainer"
     THEN /\ closedAt' = [s \in Symbols |-> IF s \in S THEN now
                                            ELSE closedAt[s]]
          /\ UNCHANGED armed
     ELSE UNCHANGED <<armed, closedAt>>

\* Tracks of m are dropped, as sold now.
Drop(m, S) ==
  /\ opened' = [opened EXCEPT ![m] = [s \in Symbols |->
                                        IF s \in S THEN Never ELSE @[s]]]
  /\ IF m = "gainer"
     THEN /\ armed' = armed \ S
          /\ closedAt' = [s \in Symbols |-> IF s \in S THEN now
                                            ELSE closedAt[s]]
     ELSE UNCHANGED <<armed, closedAt>>

\* (Slip: a track the ladder has moved is left to its stop.)
TickSlip(m) ==
  /\ At("idle")
  /\ LET gone == {s \in Tracked(m) \ armed : ~Held(s)}
     IN  /\ Drop(m, gone)
         /\ IF m = "gainer" THEN Arm(gone, "high") ELSE UNCHANGED rearm
         /\ run' = [Idle EXCEPT !.at = "ladder", !.who = m,
                                !.todo = Tracked(m) \ gone]
  /\ UNCHANGED <<market, book, board, round, halted, now, faults,
                 soldAt>>

Tick(m) ==
  /\ At("idle")
  /\ LET gone == {s \in Tracked(m) : ~Held(s)}
     IN  /\ Drop(m, gone)
         /\ IF m = "gainer" THEN Arm(gone, "high") ELSE UNCHANGED rearm
         /\ run' = [Idle EXCEPT !.at = "ladder", !.who = m,
                                !.todo = Tracked(m) \ gone]
  /\ UNCHANGED <<market, book, board, round, halted, now, faults,
                 soldAt>>

NextSymbol(s) == run' = [run EXCEPT !.todo = @ \ {s}]

\* close(): the track goes with the position, or both stay.
CloseTrack(m, s) ==
  \/ ClosesAll(s) /\ Drop(m, {s}) /\ NextSymbol(s)
  \/ CloseRefused /\ NextSymbol(s) /\ UNCHANGED <<opened, armed, closedAt>>
  \/ CloseLost(s) /\ UNCHANGED <<opened, armed, closedAt>>

\* (Slip: the limit is looked for in the poll it falls due.)
OverdueSlip(m, s) ==
  /\ ~(m = "gainer" /\ s \in armed)
  /\ MaxHold[m] > 0 /\ now - opened[m][s] = MaxHold[m]

Overdue(m, s) ==
  /\ ~(m = "gainer" /\ s \in armed)
  /\ MaxHold[m] > 0 /\ now - opened[m][s] >= MaxHold[m]

\* The peak has reached no further step: only the time limit can sell.
LadderRests(m, s) ==
  \/ Overdue(m, s) /\ CloseTrack(m, s)
  \/ /\ ~Overdue(m, s) /\ NextSymbol(s) /\ Ok
     /\ UNCHANGED <<market, book, soldAt, opened, armed, closedAt>>

\* A higher step: the stop is moved up, or stays if the exchange refuses.  The
\* ladder of the squeeze is configured never to get here.
LadderRises(s) ==
  /\ NextSymbol(s)
  /\ \/ Ok /\ stop' = [stop EXCEPT ![s] = TRUE] /\ armed' = armed \union {s}
     \/ Fault /\ UNCHANGED <<stop, armed>>
  /\ UNCHANGED <<owner, book, soldAt, opened, closedAt>>

ManageLadder ==
  /\ At("ladder")
  /\ \E s \in run.todo :
       \/ LadderRests(run.who, s)
       \/ run.who = "gainer" /\ LadderRises(s)
       \/ run.who = "gainer" /\ CloseTrack("gainer", s)  \* back under the step
  /\ UNCHANGED <<rearm, board, round, halted, now>>

-------------------------------------------------------------------------------
(* check_leader(): who leads, and whether the coin may be bought. *)

Cooling(s) == closedAt[s] # Never /\ now - closedAt[s] < Cooldown

\* try_enter(): a guard holds the leader back (the cooldown, or a price that is
\* not rising) and it is watched, or it is bought.
TryEnter(s, b) ==
  \/ /\ board' = [b EXCEPT !.waiting = s] /\ Done
  \/ /\ ~Cooling(s) /\ board' = [b EXCEPT !.waiting = NoSym]
     /\ run' = [Idle EXCEPT !.at = "open", !.sym = s, !.why = "leader"]

\* The same leader: bought again above its high, once, or watched further.
StillLeads(s) ==
  LET known == [board EXCEPT !.cand = NoSym, !.since = 0]
  IN  \/ /\ rearm[s] = "high" /\ s \notin Tracked("gainer")
         /\ rearm' = [rearm EXCEPT ![s] = "no"] /\ board' = known
         /\ run' = [Idle EXCEPT !.at = "open", !.sym = s, !.why = "reentry"]
      \/ /\ IF rearm[s] = "unknown" /\ s \notin Tracked("gainer")
            THEN rearm' = [rearm EXCEPT ![s] = "high"]
            ELSE UNCHANGED rearm
         /\ IF board.waiting = s /\ s \notin Tracked("gainer")
            THEN TryEnter(s, known)
            ELSE board' = known /\ Done

\* Another coin leads: a candidate, and the leader once it has held on.
Challenges(s) ==
  LET since == IF board.cand = s THEN board.since ELSE now
  IN  IF now - since < Confirm
      THEN /\ board' = [board EXCEPT !.cand = s, !.since = since] /\ Done
           /\ UNCHANGED rearm
      ELSE /\ board' = [board EXCEPT !.leader = s, !.cand = NoSym,
                                     !.since = 0, !.waiting = NoSym]
           /\ rearm' = [t \in Coins |-> "no"]
           /\ run' = [Idle EXCEPT !.at = "judge", !.sym = s,
                                  !.todo = Tracked("gainer") \ {s}]

\* The board: any coin may come first by its change over the day, or by its
\* climb over climb_minutes.
Ranked == Coins

\* A poll between two checks of leader_check_minutes, or with no coin whose
\* history reaches back far enough, decides nothing.
NotDue == Done /\ UNCHANGED <<board, rearm>>

\* The first board of a process is the baseline.
CheckLeader ==
  /\ At("ladder") /\ run.todo = {} /\ run.who = "gainer"
  /\ \/ NotDue
     \/ \E s \in Ranked :
          IF ~board.based
          THEN /\ board' = [board EXCEPT !.based = TRUE, !.leader = s]
               /\ Done /\ UNCHANGED rearm
          ELSE IF s = board.leader THEN StillLeads(s) ELSE Challenges(s)
  /\ UNCHANGED <<market, book, opened, armed, closedAt, round, halted,
                 now, faults, soldAt>>

\* judge_held(): kept (on_new_leader keep, young, in profit), or sold.
JudgeHeld ==
  /\ At("judge")
  /\ \E s \in run.todo :
       \/ /\ NextSymbol(s) /\ Ok
          /\ UNCHANGED <<market, book, soldAt, opened, armed,
                         closedAt>>
       \/ now - opened["gainer"][s] >= MinHold /\ CloseTrack("gainer", s)
  /\ UNCHANGED <<rearm, board, round, halted, now>>

\* The new leader: held already, skipped by a filter, or entered.
\* The coin is held already, or one of gainer.filters refuses it: its price,
\* age, RSI, share of the rise, or the market it would be bought into.
Skipped == Done /\ UNCHANGED board

OnNewLeader ==
  /\ At("judge") /\ run.todo = {}
  /\ \/ Skipped
     \/ run.sym \in Symbols \ Tracked("gainer") /\ TryEnter(run.sym, board)
  /\ UNCHANGED <<market, book, disk, round, halted, now, faults, soldAt>>

-------------------------------------------------------------------------------
(* check_round(): once per funding settlement. *)

Settled == (now \div Period) * Period
Due     == Settled > round.done /\ now - Settled <= Window

\* pick(): the most negative rates that qualify, of coins nobody holds.
Picks == {S \in SUBSET {s \in Symbols \ Tracked("squeeze") : ~Held(s)} :
            Cardinality(S) <= MaxNewPerRound}

\* (Slip: only a round that read its rates and found a coin is marked done.)
CheckRoundSlip ==
  /\ At("ladder") /\ run.todo = {} /\ run.who = "squeeze"
  /\ \/ ~Due /\ Done /\ Ok /\ UNCHANGED round
     \/ /\ Due /\ Ok
        /\ \E S \in Picks :
             run' = IF S = {} THEN Idle
                    ELSE [Idle EXCEPT !.at = "round", !.who = "squeeze",
                                      !.todo = S]
        /\ round' = [done |-> round.done, of |-> Settled,
                     bought |-> IF round.of = Settled THEN round.bought ELSE 0]
     \/ Due /\ Fault /\ (Done \/ Escape) /\ UNCHANGED round
  /\ UNCHANGED <<market, book, disk, board, halted, now, soldAt>>

\* The round is marked done before the rates are read, and unmarked when the
\* read is refused; an exception loses it.
CheckRound ==
  /\ At("ladder") /\ run.todo = {} /\ run.who = "squeeze"
  /\ \/ ~Due /\ Done /\ Ok /\ UNCHANGED round
     \/ /\ Due /\ Ok
        /\ \E S \in Picks :
             run' = IF S = {} THEN Idle
                    ELSE [Idle EXCEPT !.at = "round", !.who = "squeeze",
                                      !.todo = S]
        /\ round' = [done |-> Settled, of |-> Settled,
                     bought |-> IF round.of = Settled THEN round.bought ELSE 0]
     \/ /\ Due /\ Fault
        /\ \/ Done /\ round' = [round EXCEPT !.done = Never]
           \/ Escape /\ round' = [round EXCEPT !.done = Settled]
  /\ UNCHANGED <<market, book, disk, board, halted, now, soldAt>>

NextOfRound ==
  /\ At("round")
  /\ \E s \in run.todo : run' = [run EXCEPT !.at = "open", !.sym = s,
                                           !.todo = @ \ {s}]
  /\ UNCHANGED <<market, book, disk, board, round, halted, now, faults,
                 soldAt>>

-------------------------------------------------------------------------------
(* open(), _read_fill() and _protect(): bought at market, then protected. *)

Return == IF run.todo = {} THEN Done ELSE Goto("round")
Refuse == Return /\ Ok

\* Refused by a guard, by sizing or by the exchange; or bought.
OpenOrder ==
  /\ At("open")
  /\ LET m == run.who  s == run.sym IN
     \/ Refuse /\ UNCHANGED <<owner, round>>
     \/ /\ Cardinality(Tracked(m)) < MaxPositions[m] /\ ~Held(s)
        /\ ~halted
        /\ owner' = [owner EXCEPT ![s] = m]
        /\ round' = IF m = "squeeze" THEN [round EXCEPT !.bought = @ + 1]
                    ELSE round
        /\ (Ok /\ Goto("fill")) \/ (Fault /\ Escape)
  /\ UNCHANGED <<stop, book, disk, board, halted, now, soldAt>>

HaltAndReturn == halted' = TRUE /\ Return

\* _read_fill(): four reads, or the bot halts.
ReadFill ==
  /\ At("fill")
  /\ \/ Open(run.sym) /\ Ok /\ Goto("stop") /\ UNCHANGED halted
     \/ ~Open(run.sym) /\ Ok /\ HaltAndReturn
     \/ Fault /\ HaltAndReturn
     \/ Fault /\ Escape /\ UNCHANGED halted
  /\ UNCHANGED <<market, book, disk, board, round, now, soldAt>>

\* The position and its track are written down together.
Recorded(m, s) ==
  /\ book' = [book EXCEPT ![s] = m]
  /\ opened' = [opened EXCEPT ![m][s] = now]
  /\ IF m = "gainer" THEN armed' = armed \ {s} ELSE UNCHANGED armed
Unrecorded == UNCHANGED <<book, opened, armed>>

\* The stop.  A squeeze has no take-profit and is done with it.
ProtectStop ==
  /\ At("stop")
  /\ \/ /\ Ok /\ stop' = [stop EXCEPT ![run.sym] = TRUE]
        /\ IF run.who = "gainer" THEN Goto("target") /\ Unrecorded
           ELSE Return /\ Recorded(run.who, run.sym)
     \/ Fault /\ Goto("flatten") /\ UNCHANGED stop /\ Unrecorded
     \/ /\ Fault /\ Escape /\ Unrecorded
        /\ stop' \in {stop, [stop EXCEPT ![run.sym] = TRUE]}
  /\ UNCHANGED <<owner, closedAt, rearm, board, round, halted, now,
                 soldAt>>

\* (Slip: a position that has its stop is left open without a take-profit.)
ProtectTargetSlip ==
  /\ At("target")
  /\ \/ Ok /\ Return /\ Recorded(run.who, run.sym)
     \/ Fault /\ Return /\ Unrecorded
     \/ Fault /\ Escape /\ Unrecorded
  /\ UNCHANGED <<market, closedAt, rearm, board, round, halted, now,
                 soldAt>>

ProtectTarget ==
  /\ At("target")
  /\ \/ Ok /\ Return /\ Recorded(run.who, run.sym)
     \/ Fault /\ Goto("flatten") /\ Unrecorded
     \/ Fault /\ Escape /\ Unrecorded
  /\ UNCHANGED <<market, closedAt, rearm, board, round, halted, now,
                 soldAt>>

\* A leg was refused: sell.  A flat symbol refuses a reduce-only order.
Flatten ==
  /\ At("flatten")
  /\ LET sold == [owner EXCEPT ![run.sym] = "none"] IN
     \/ /\ Open(run.sym) /\ Ok /\ owner' = sold /\ Goto("cancel")
        /\ UNCHANGED halted
     \/ HaltAndReturn /\ UNCHANGED owner /\ (Fault \/ (~Open(run.sym) /\ Ok))
     \/ Fault /\ Escape /\ owner' \in {owner, sold} /\ UNCHANGED halted
  /\ UNCHANGED <<stop, book, disk, board, round, now, soldAt>>

CancelLeft ==
  /\ At("cancel")
  /\ \/ /\ Ok /\ Return /\ stop' = [stop EXCEPT ![run.sym] = FALSE]
        /\ UNCHANGED halted
     \/ Fault /\ HaltAndReturn /\ UNCHANGED stop
     \/ Fault /\ Escape /\ UNCHANGED <<stop, halted>>
  /\ UNCHANGED <<owner, book, disk, board, round, now, soldAt>>

-------------------------------------------------------------------------------
(* The process. *)

\* What is on disk stays; the candidate, the watched coin and done_round go.
Crash ==
  /\ Up /\ Fault /\ Goto("down")
  /\ book' = [s \in Symbols |-> "none"] /\ round' = NewRound
  /\ board' = [NewBoard EXCEPT !.leader = board.leader]
  /\ UNCHANGED <<market, disk, halted, now, soldAt>>

\* restore(), the squeeze's and then the gainer's, on the adopted book.
Retagged(s) == IF s \in Tracked("gainer") THEN "gainer"
               ELSE IF s \in Tracked("squeeze") THEN "squeeze" ELSE "generic"

\* (Slip: a track lost while the bot was down starts no cooldown.)
RestoreSlip(adopted) ==
  /\ book' = [s \in Symbols |-> IF s \in adopted THEN Retagged(s) ELSE "none"]
  /\ opened' = [m \in Miners |-> [s \in Symbols |->
                  IF s \in adopted THEN opened[m][s] ELSE Never]]
  /\ armed' = armed \intersect adopted
  /\ Arm(Tracked("gainer") \ adopted, "unknown") /\ UNCHANGED closedAt

Restore(adopted) ==
  /\ book' = [s \in Symbols |-> IF s \in adopted THEN Retagged(s) ELSE "none"]
  /\ opened' = [m \in Miners |-> [s \in Symbols |->
                  IF s \in adopted THEN opened[m][s] ELSE Never]]
  /\ armed' = armed \intersect adopted
  /\ LET gone == Tracked("gainer") \ adopted
     IN  /\ Arm(gone, "unknown")
         /\ closedAt' = [s \in Symbols |-> IF s \in gone THEN now
                                           ELSE closedAt[s]]

\* startup(): a refused read adopts nothing, and the bot starts all the same.
Restart ==
  /\ At("down") /\ ~halted /\ Done
  /\ \/ Ok /\ Restore({s \in Symbols : Open(s)})
     \/ Fault /\ Restore({})
  /\ UNCHANGED <<market, board, round, halted, now, soldAt>>

-------------------------------------------------------------------------------
Handler ==
  \/ ManageLadder \/ CheckLeader \/ JudgeHeld \/ OnNewLeader
  \/ CheckRound \/ NextOfRound
  \/ OpenOrder \/ ReadFill \/ ProtectStop \/ ProtectTarget
  \/ Flatten \/ CancelLeft

Engine(s) ==
  EngineCloses(s) \/ ReleaseFlat(s) \/ AdoptUntracked(s) \/ Protect(s)

Next ==
  \/ Handler \/ Crash \/ Restart \/ Resume \/ Elapse
  \/ \E m \in Miners : Tick(m)
  \/ \E s \in Symbols : Engine(s) \/ Fires(s) \/ UserBuys(s)

\* A handler runs on, each strategy polls and the engine reconciles again and
\* again, and a dead process comes back; prices and the user owe nothing.
Fairness ==
  /\ WF_vars(Handler) /\ WF_vars(Restart)
  /\ \A m \in Miners : SF_vars(Tick(m))
  /\ \A s \in Symbols : SF_vars(ReleaseFlat(s))

Spec     == Init /\ [][Next]_vars
FairSpec == Spec /\ Fairness

-------------------------------------------------------------------------------
(* Properties. *)

TypeOK ==
  /\ owner \in [Symbols -> Miners \union {"none", "user"}]
  /\ stop \in [Symbols -> BOOLEAN]
  /\ book \in [Symbols -> Miners \union {"none", "generic"}]
  /\ opened \in [Miners -> [Symbols -> Stamps]]
  /\ armed \subseteq Tracked("gainer")
  /\ closedAt \in [Symbols -> Stamps]
  /\ rearm \in [Coins -> {"no", "unknown", "high"}]
  /\ LET Any == Coins \union {NoSym} IN
     board \in [leader : Any, cand : Any, since : Times, based : BOOLEAN,
               waiting : Any]
  /\ round \in [done : Stamps, of : Stamps, bought : Nat]
  /\ halted \in BOOLEAN
  /\ run \in [at : {"idle", "ladder", "judge", "round", "open", "fill", "stop",
                   "target", "flatten", "cancel", "down"},
             who : Miners, sym : Coins \union {NoSym}, todo : SUBSET Symbols,
             why : {"", "leader", "reentry", "escaped"}]
  /\ now \in Times /\ faults \in 0 .. MaxFaults
  /\ soldAt \in [Symbols -> Stamps]

\* The supervisor stands aside: a position its strategy still tracks is never
\* in the book as one of the engine's own, whatever crashed, was adopted or
\* was restored since it was opened.
StandsAside ==
  \A m \in Miners : \A s \in Tracked(m) :
    owner[s] = m => book[s] # "generic"

\* An open() that returns -- refused, protected or rolled back, with any of
\* its calls refused -- leaves what it bought flat, or stopped, in the book and
\* on the strategy's own list, or the bot halted for a human to look.
OpenSettles ==
  [][ At("open") \/ run.at \in {"idle", "ladder", "judge", "round", "down"}
      \/ run'.at \in {"stop", "target", "flatten", "cancel", "down"}
      \/ run'.why = "escaped" \/ UNCHANGED run
      \/ halted' \/ owner'[run.sym] # run.who
      \/ (/\ stop'[run.sym] /\ book'[run.sym] = run.who
          /\ opened'[run.who][run.sym] # Never) ]_vars

\* A coin the gainer sold, or that was sold for it while it was not looking,
\* is not bought back as a new leader inside the cooldown -- across polls,
\* late reconciles, crashes and restarts.
CooldownHolds ==
  [][ At("open") /\ owner'[run.sym] # owner[run.sym] /\ run.why = "leader"
      /\ soldAt[run.sym] # Never
        => now - soldAt[run.sym] >= Cooldown ]_vars

\* One process buys at most max_new_per_round coins per settlement, also when
\* the rates could not be read and the round is tried again.
RoundOnce == round.bought <= MaxNewPerRound

\* A position the strategy has held past its time limit, the ladder never
\* armed, is sold -- unless the bot lies halted or its track is gone.
HeldTooLong(m, s) ==
  /\ Mine(m, s) /\ s \notin armed
  /\ MaxHold[m] > 0 /\ now - opened[m][s] >= MaxHold[m]
OverdueIsSold ==
  \A m \in Miners, s \in Symbols :
    HeldTooLong(m, s) ~> ~HeldTooLong(m, s) \/ (At("down") /\ halted)

\* A track whose position is gone does not hold its slot for ever.
TrackIsDropped ==
  \A m \in Miners, s \in Symbols :
    s \in Tracked(m) /\ ~Open(s)
      ~> s \notin Tracked(m) \/ Open(s) \/ (At("down") /\ halted)

-------------------------------------------------------------------------------
(* What the repository says of the program and the code does not do.       *)

\* "a restart re-attaches them to the right strategy": a position on a
\* strategy's list comes out of a restart under that strategy.
RestartReattaches ==
  [][ At("down") /\ run'.at = "idle"
        => \A m \in Miners : \A s \in Symbols :
             Mine(m, s) => book'[s] = m ]_vars

===============================================================================
