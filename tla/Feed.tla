--------------------------------- MODULE Feed ---------------------------------
(***************************************************************************)
(* How the engine learns what happened to one scanner symbol when          *)
(* `realtime` is on: the socket thread of bot/stream.py connects,          *)
(* subscribes and puts what arrives on a bounded queue; the engine thread  *)
(* takes one event per iteration of its loop, and once a minute asks the   *)
(* exchange over REST as well.  Either may be the first to see a fill or a *)
(* close, and the socket, the queue and the user-data stream all lose      *)
(* events.  In dry run nothing is sent and ticks decide what fills.        *)
(***************************************************************************)
EXTENDS Integers, SequencesExt, FiniteSetsExt

CONSTANTS
  Lot,         \* what an entry order asks for
  MaxTrades,   \* bound: entries placed
  MaxQueue,    \* maxsize of the queue
  MaxFaults    \* bound: connections, calls and keepalives that fail

ASSUME FeedAssumption ==
  /\ {Lot, MaxTrades, MaxQueue} \subseteq Nat \ {0} /\ MaxFaults \in Nat

Trades == 1 .. MaxTrades
NoTrade == 0

VARIABLES
  dry,      \* dry_run
  ex,       \* the exchange: entries and legs resting, position, its trades
  sock,     \* the connection, what it carries, and the user-data stream
  follow,   \* MarketStream.symbols has the symbol
  q,        \* MarketStream.q
  book,     \* the position the engine tracks
  pending,  \* _dry_pending
  eng,      \* where the engine thread is, and what it has read
  tally,    \* history: fills counted, closes booked, cooldowns started
  faults

vars == <<dry, ex, sock, follow, q, book, pending, eng, tally, faults>>
stream == <<sock, follow, q>>

At(p) == eng.at = p
Ok    == UNCHANGED faults
Fault == faults < MaxFaults /\ faults' = faults + 1

NoPos == [on |-> FALSE, entry |-> NoTrade, since |-> NoTrade,
          filled |-> FALSE, qty |-> 0, stop |-> NoTrade]
NoSight == [amt |-> 0, rest |-> {}, legs |-> {}]
Idle == [at |-> "idle", saw |-> NoSight]

Init ==
  /\ dry \in BOOLEAN
  /\ ex = [last |-> NoTrade, rest |-> [k \in Trades |-> 0], amt |-> 0,
           legs |-> [k \in Trades |-> 0], held |-> {}, ended |-> {}]
  /\ sock = [at |-> "down", subs |-> FALSE, key |-> ~dry]
  /\ follow = FALSE /\ q = <<>> /\ book = NoPos /\ pending = NoTrade
  /\ eng = Idle
  /\ tally = [fills |-> [k \in Trades |-> 0], booked |-> [k \in Trades |-> 0],
              cooled |-> {}]
  /\ faults = 0

Resting == {k \in Trades : ex.rest[k] > 0}
Legs    == {k \in Trades : ex.legs[k] > 0}
Flat    == ex.amt = 0

-------------------------------------------------------------------------------
(* The socket thread. *)

\* A full queue loses its oldest event.
Put(e, s) == Append(IF Len(s) < MaxQueue THEN s ELSE Tail(s), e)

Note == [kind |-> "note", trade |-> NoTrade, cum |-> 0]
Price == [kind |-> "tick", trade |-> NoTrade, cum |-> 0]

\* What the user-data stream says reaches the queue of a live connection.
Emits(kind, k, cum) ==
  q' = IF sock.at = "up" /\ sock.key
       THEN Put([kind |-> kind, trade |-> k, cum |-> cum], q) ELSE q

BuildUrl ==
  /\ sock.at = "down"
  /\ sock' = [sock EXCEPT !.at = "shaking", !.subs = follow]
  /\ UNCHANGED <<dry, ex, follow, q, book, pending, eng, tally, faults>>

Connected ==
  /\ sock.at = "shaking" /\ sock' = [sock EXCEPT !.at = "up"]
  /\ UNCHANGED <<dry, ex, follow, q, book, pending, eng, tally, faults>>

\* The connection dies, or goes silent: nothing errors until it is noticed.
Dies ==
  /\ sock.at \in {"shaking", "up"} /\ Fault
  /\ sock' = [sock EXCEPT !.at = "dead", !.subs = FALSE]
  /\ UNCHANGED <<dry, ex, follow, q, book, pending, eng, tally>>

\* Disconnected goes on the queue, and StreamStale before it after a silence.
Reconnects ==
  /\ sock.at = "dead" /\ sock' = [sock EXCEPT !.at = "down"]
  /\ q' \in {Put(Note, q), Put(Note, Put(Note, q))}
  /\ UNCHANGED <<dry, ex, follow, book, pending, eng, tally, faults>>

\* A listen key that is not kept alive expires, and no other is asked for.
KeepaliveFails ==
  /\ sock.key /\ Fault /\ sock' = [sock EXCEPT !.key = FALSE]
  /\ UNCHANGED <<dry, ex, follow, q, book, pending, eng, tally>>

Tick ==
  /\ sock.at = "up" /\ sock.subs /\ q' = Put(Price, q)
  /\ UNCHANGED <<dry, ex, sock, follow, book, pending, eng, tally, faults>>

Socket == BuildUrl \/ Connected \/ Reconnects

-------------------------------------------------------------------------------
(* The exchange. *)

EntryFills(k) ==
  /\ \E n \in 1 .. ex.rest[k] :
       /\ ex' = [ex EXCEPT !.rest[k] = @ - n, !.amt = @ + n,
                           !.held = @ \union {k}]
       /\ Emits(IF n = ex.rest[k] THEN "entry" ELSE "partial", k,
                Lot - (ex.rest[k] - n))
  /\ UNCHANGED <<dry, sock, follow, book, pending, eng, tally, faults>>

\* A stop or a take-profit fires: it only reduces, whatever it was placed for.
LegFires(k) ==
  LET left == ex.amt - Min({Lot, ex.amt})
      over == IF k \in ex.held THEN k ELSE Min(ex.held)
  IN  /\ ex.legs[k] > 0 /\ ~Flat
      /\ ex' = [ex EXCEPT !.amt = left, !.legs[k] = @ - 1,
                          !.held = IF left = 0 THEN {} ELSE @ \ {over},
                          !.ended = @ \union {over}]
      /\ Emits("exit", over, Lot)
      /\ UNCHANGED <<dry, sock, follow, book, pending, eng, tally, faults>>

Exchange == \E k \in Trades : EntryFills(k) \/ LegFires(k)

-------------------------------------------------------------------------------
(* The engine thread: opening and letting go. *)

\* add_symbol() records the symbol first and sends the frame after it.
Follow ==
  /\ At("follow")
  /\ follow' = TRUE
  /\ eng' = [eng EXCEPT !.at = IF follow THEN "idle" ELSE "send"]
  /\ UNCHANGED <<dry, ex, sock, q, book, pending, tally, faults>>

Subscribe ==
  /\ At("send") /\ eng' = Idle
  /\ sock' = [sock EXCEPT !.subs = @ \/ sock.at = "up"]
  /\ UNCHANGED <<dry, ex, follow, q, book, pending, tally, faults>>

\* place(): the entry and its legs rest on the exchange, or in _dry_pending.
Enter ==
  /\ At("idle") /\ ~book.on /\ pending = NoTrade /\ ex.last < MaxTrades
  /\ LET k == ex.last + 1
     IN  IF dry
         THEN /\ pending' = k /\ ex' = [ex EXCEPT !.last = k]
              /\ UNCHANGED book
         ELSE /\ ex' = [ex EXCEPT !.last = k, !.rest[k] = Lot,
                                  !.legs[k] = 2]
              /\ book' = [on |-> TRUE, entry |-> k, since |-> k,
                          filled |-> FALSE, qty |-> Lot, stop |-> k]
              /\ UNCHANGED pending
  /\ eng' = [eng EXCEPT !.at = "follow"]
  /\ UNCHANGED <<dry, stream, tally, faults>>

\* release() forgets the position and unsubscribes; t is the tally so far.
Releases(t) ==
  /\ book' = NoPos /\ follow' = FALSE
  /\ sock' = [sock EXCEPT !.subs = @ /\ sock.at # "up"]
  /\ tally' = [t EXCEPT !.cooled =
                 IF book.filled THEN @ \union {book.since} ELSE @]

Counted(t, k) == [t EXCEPT !.fills[k] = @ + 1]
Booked(t, ks) ==
  [t EXCEPT !.booked = [k \in Trades |-> @[k] + IF k \in ks THEN 1 ELSE 0]]

\* on_entry_filled(): what was bought replaces what was asked for.
Filled(n) ==
  /\ book' = [book EXCEPT !.filled = TRUE, !.qty = n]
  /\ tally' = Counted(tally, book.since)

\* book_close() sums the fills since the trade was opened.
Read(t) == Booked(t, {k \in ex.ended : k >= book.since})

-------------------------------------------------------------------------------
(* The engine thread: one event. *)

Takes(kinds) ==
  /\ At("idle") /\ q # <<>> /\ q' = Tail(q) /\ Head(q).kind \in kinds
  /\ UNCHANGED <<dry, ex, faults>>

\* Of something that is not tracked, or of no consequence here.
Ignore ==
  LET e == Head(q)
  IN  /\ Takes({"note", "tick", "partial", "entry", "exit"})
      /\ \/ e.kind = "note"
         \/ e.kind = "tick"
         \/ e.kind \in {"partial", "entry", "exit"} /\ ~book.on
         \/ e.kind \in {"partial", "entry"} /\ e.trade # book.entry
      /\ UNCHANGED <<sock, follow, book, pending, eng, tally>>

PartFilled ==
  /\ Takes({"partial"}) /\ book.on /\ Head(q).trade = book.entry
  /\ book' = [book EXCEPT !.qty = Head(q).cum]
  /\ UNCHANGED <<sock, follow, pending, eng, tally>>

\* (Slip: whoever sees the fill counts it.)
EntryFilledSlip ==
  /\ Takes({"entry"}) /\ book.on /\ Head(q).trade = book.entry
  /\ Filled(Head(q).cum)
  /\ UNCHANGED <<sock, follow, pending, eng>>
EntryFilled ==
  /\ Takes({"entry"}) /\ book.on /\ Head(q).trade = book.entry
  /\ IF book.filled THEN UNCHANGED <<book, tally>> ELSE Filled(Head(q).cum)
  /\ UNCHANGED <<sock, follow, pending, eng>>

\* Any stop or take-profit of the symbol that filled ends the trade tracked.
ExitFilled ==
  /\ Takes({"exit"}) /\ book.on
  /\ Releases(Booked(tally, {Head(q).trade}))
  /\ UNCHANGED <<pending, eng>>

\* simulate_entry() drops an entry that expired, or fills one that is reached.
SimulateEntry ==
  /\ Takes({"tick"}) /\ dry /\ pending # NoTrade /\ pending' = NoTrade
  /\ \/ UNCHANGED <<book, tally>>
     \/ /\ book' = [NoPos EXCEPT !.on = TRUE, !.entry = pending, !.qty = Lot,
                                 !.since = pending, !.filled = TRUE]
        /\ tally' = Counted(tally, pending)
  /\ UNCHANGED <<sock, follow, eng>>

\* simulate_exit() counts a fill of its own.
SimulateExit ==
  /\ Takes({"tick"}) /\ dry /\ book.on
  /\ Releases(Booked(Counted(tally, book.since), {book.since}))
  /\ UNCHANGED <<pending, eng>>

OnOrder == PartFilled \/ EntryFilled \/ ExitFilled
Handle  == Ignore \/ OnOrder \/ SimulateEntry \/ SimulateExit

-------------------------------------------------------------------------------
(* The engine thread: once a minute, and what it closes itself. *)

ReadPositions ==
  /\ At("idle") /\ ~dry
  /\ eng' = [at |-> "orders", saw |-> [NoSight EXCEPT !.amt = ex.amt]]
  /\ UNCHANGED <<dry, ex, stream, book, pending, tally, faults>>

ReadOrders ==
  /\ At("orders")
  /\ \/ /\ Ok /\ eng' = [at |-> "apply", saw |->
                 [eng.saw EXCEPT !.rest = Resting, !.legs = Legs]]
     \/ Fault /\ eng' = Idle
  /\ UNCHANGED <<dry, ex, stream, book, pending, tally>>

Finishes == At("apply") /\ eng' = Idle /\ UNCHANGED <<dry, pending, q>>
Cancelled(x) ==
  [x EXCEPT !.rest = [k \in Trades |-> 0], !.legs = [k \in Trades |-> 0]]

Confirm ==
  /\ Finishes /\ book.on /\ eng.saw.amt > 0
  /\ IF book.filled THEN UNCHANGED <<book, tally>> ELSE Filled(eng.saw.amt)
  /\ UNCHANGED <<ex, sock, follow, faults>>

\* An entry that rests is kept, until it has rested for too long.
StillRests ==
  /\ Finishes /\ book.on /\ eng.saw.amt = 0 /\ book.entry \in eng.saw.rest
  /\ \/ UNCHANGED <<ex, sock, follow, book, tally, faults>>
     \/ ex' = Cancelled(ex) /\ Ok /\ Releases(tally)
     \/ Fault /\ UNCHANGED <<ex, sock, follow, book, tally>>

SeemsOver ==
  /\ Finishes /\ book.on /\ eng.saw.amt = 0 /\ book.entry \notin eng.saw.rest

\* An entry nobody saw fill is asked for again.
Recheck ==
  /\ SeemsOver /\ ~book.filled /\ UNCHANGED <<ex, sock, follow>>
  /\ \/ ~Flat /\ Filled(ex.amt) /\ Ok
     \/ Fault /\ UNCHANGED <<book, tally>>

Leftover == book.stop \in eng.saw.legs
\* (Slip: an order still listed keeps the trade alive.)
LetGoSlip ==
  /\ SeemsOver /\ (book.filled \/ Flat) /\ ~Leftover
  /\ UNCHANGED ex /\ Ok /\ Releases(Read(tally))
\* It is released whether or not what is left of it was cancelled and booked.
LetGo ==
  /\ SeemsOver /\ (book.filled \/ Flat)
  /\ \/ /\ Ok /\ Releases(Read(tally))
        /\ ex' = IF Leftover THEN Cancelled(ex) ELSE ex
     \/ /\ Fault /\ (Releases(tally) \/ Releases(Read(tally)))
        /\ ex' \in {ex, IF Leftover THEN Cancelled(ex) ELSE ex}

\* (Slip: a position that is not in the book is reported, and left alone.)
WatchSlip ==
  /\ Finishes /\ ~book.on
  /\ UNCHANGED <<ex, sock, follow, book, tally, faults>>
\* The watchdog adopts what is open and not tracked.  Nobody follows it.
Watch ==
  /\ Finishes /\ ~book.on
  /\ IF eng.saw.amt = 0 THEN UNCHANGED book
     ELSE book' = [on |-> TRUE, entry |-> NoTrade, since |-> ex.last,
                   filled |-> TRUE, qty |-> eng.saw.amt,
                   stop |-> IF eng.saw.legs = {} THEN NoTrade
                            ELSE Min(eng.saw.legs)]
  /\ UNCHANGED <<ex, sock, follow, tally, faults>>

Reconcile ==
  \/ ReadPositions \/ ReadOrders
  \/ Confirm \/ StillRests \/ Recheck \/ LetGo \/ Watch

\* close_position(): sold at market, cancelled and booked.
Close ==
  /\ At("idle") /\ book.on /\ ~dry /\ ~Flat /\ Ok
  /\ ex' = Cancelled([ex EXCEPT !.amt = 0, !.held = {},
                                !.ended = @ \union ex.held])
  /\ Releases(Booked(tally, {k \in ex.ended \union ex.held : k >= book.since}))
  /\ UNCHANGED <<dry, q, pending, eng>>

Engine == Enter \/ Follow \/ Subscribe \/ Handle \/ Reconcile \/ Close

Next == Engine \/ Socket \/ Dies \/ KeepaliveFails \/ Tick \/ Exchange

Spec == Init /\ [][Next]_vars

\* The loop takes events, periodic() runs once a minute, the thread reconnects.
FairSpec ==
  /\ Spec /\ WF_vars(Handle) /\ WF_vars(Reconcile) /\ WF_vars(Socket)
  /\ WF_vars(Follow \/ Subscribe)

-------------------------------------------------------------------------------
(* Properties. *)

\* The queue and the reconcile may both see an entry fill: it is counted once,
\* in whatever order they see it and whatever was dropped or came late.
FillCountedOnce == ~dry => \A k \in Trades : tally.fills[k] <= 1

\* A trade that is over is let go, also when the event that said so was
\* dropped, the socket was down or the user-data stream had expired.
FinishedIsReleased ==
  ~dry /\ book.on /\ Flat /\ Resting = {} ~> ~book.on \/ ~Flat

\* What the bot holds comes back under its eyes, also after a late event has
\* made it let go of a trade that is open.
HeldIsTracked == ~Flat ~> book.on \/ Flat

-------------------------------------------------------------------------------
(* What the repository says of the program and the code does not do.       *)

\* "An adopted position needs its own ticks, or it is tracked but never priced"
TrackedIsFollowed == At("idle") /\ book.on => follow

\* "the next reconnect builds its URL from self.symbols, which is already
\* updated": a live socket carries what is followed.
FollowedIsStreamed == At("idle") /\ follow /\ sock.at = "up" => sock.subs

\* "An entry actually FILLED. This is what total_trades counts."
TradeCountsOnce == \A k \in Trades : tally.fills[k] <= 1

\* A finished trade is credited once.
BookedOnce == \A k \in Trades : tally.booked[k] <= 1

\* "Correct the book to what was actually bought."
BookIsTrue ==
  LET quiet == At("idle") /\ q = <<>> /\ Resting = {} /\ faults = 0
  IN  quiet /\ sock.at = "up" /\ book.on /\ book.filled /\ book.entry = ex.last
        /\ ~Flat /\ ~dry => book.qty = ex.amt

\* "when each coin's last FILLED position left the book"
FilledTradesCool ==
  [][ \A k \in Trades :
        ~dry /\ book.on /\ book.entry = k /\ ~book'.on /\ k \in ex.ended
          => k \in tally'.cooled ]_vars
===============================================================================
