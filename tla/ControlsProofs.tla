---------------------------- MODULE ControlsProofs ----------------------------
(***************************************************************************)
(* A halt outlives everything but a resume, and a confirmation is worth    *)
(* one execution, for every menu of commands and any number of inputs,     *)
(* crashes and lives.                                                      *)
(*                                                                         *)
(* The halt: what reached the disk and what the engine holds can differ: a *)
(* save that fails leaves a halt in memory only, or a resume.  So          *)
(* past.halt says less than either, and a process starts only from a disk  *)
(* without a halt.                                                         *)
(*                                                                         *)
(* The presses: a question is numbered by an update that was ahead of the  *)
(* offset, and everything that is pending, queued, in hand or has run in   *)
(* this life by one behind it.  A nonce therefore is in one of these       *)
(* places only.  What is behind the offset was handled, and what precedes  *)
(* an update of the batch was handled or is in the batch, so the offset    *)
(* never acknowledges an update nobody looked at.                          *)
(*                                                                         *)
(* The confirmation: with these two invariants every step of the bot is a  *)
(* step of module Confirmation, or leaves what it speaks of alone.         *)
(***************************************************************************)
EXTENDS Controls, TLAPS

\* The records, as far as the halt is concerned.
Records ==
  /\ eng = [at |-> eng.at, todo |-> eng.todo, held |-> eng.held,
            halted |-> eng.halted, override |-> eng.override,
            using |-> eng.using, exit |-> eng.exit, life |-> eng.life]
  /\ disk = [halted |-> disk.halted, override |-> disk.override,
             file |-> disk.file]
  /\ past = [ran |-> past.ran, handled |-> past.handled, halt |-> past.halt]
  /\ {eng.halted, disk.halted, past.halt} \subseteq BOOLEAN

HaltInv == Records /\ HaltHolds

\* Initially nothing is halted.
LEMMA InitHalt == Init => HaltInv
BY DEF Init, HaltInv, Records, HaltHolds, NewEngine, NewState

\* Steps that touch neither the halt nor the process.
LEMMA SurfaceKeepsHalt ==
  ASSUME HaltInv, Say \/ Press \/ Post \/ Expire \/ Poll \/ Telegram
  PROVE  HaltInv'
<1>1. UNCHANGED <<eng, disk>>
  BY DEF Say, Press, Receive, Post, Expire, Poll, Telegram, Broken, Ask, Scan,
     Callback, Handles
<1>2. /\ past'.halt = past.halt
      /\ past' = [ran |-> past'.ran, handled |-> past'.handled,
                  halt |-> past'.halt]
  BY DEF HaltInv, Records, Say, Press, Receive, Post, Expire, Poll, Telegram,
     Broken, Ask, Scan, Callback, Handles
<1> QED BY <1>1, <1>2 DEF HaltInv, Records, HaltHolds, Up, At

\* A command that saves the state saves the halt it leaves, or fails and
\* leaves less to hold.
LEMMA SaveKeepsHalt ==
  ASSUME HaltInv, NEW c, NEW e, Saves(c, e), Up,
         e \in {[eng EXCEPT !.halted = TRUE], [eng EXCEPT !.halted = FALSE]}
               \union {[eng EXCEPT !.override = c.cmd.what]}
  PROVE  HaltInv'
<1>1. /\ e = [at |-> e.at, todo |-> e.todo, held |-> e.held,
               halted |-> e.halted, override |-> e.override,
               using |-> e.using, exit |-> e.exit, life |-> e.life]
      /\ e.halted \in BOOLEAN
  BY DEF HaltInv, Records
<1>2. CASE /\ eng' = Next1(e) /\ Ran(c, e.halted)
           /\ disk' = [disk EXCEPT !.halted = e.halted,
                                   !.override = e.override]
  BY <1>1, <1>2 DEF HaltInv, Records, HaltHolds, Next1, Ran
<1>3. CASE eng' = Raised(e) /\ Ran(c, past.halt /\ e.halted) /\ UNCHANGED disk
  BY <1>1, <1>3 DEF HaltInv, Records, HaltHolds, Raised, Ran
<1> QED BY <1>2, <1>3 DEF Saves

\* process_commands(): every command.
LEMMA CommandsKeepHalt ==
  ASSUME HaltInv, Commands
  PROVE  HaltInv'
<1>1. CASE Remember \/ SetStrategy
  <2>1. CASE \E c, e : /\ Saves(c, e) /\ Up
                      /\ e \in {[eng EXCEPT !.halted = TRUE],
                               [eng EXCEPT !.halted = FALSE]}
                              \union {[eng EXCEPT !.override = c.cmd.what]}
    BY <2>1, SaveKeepsHalt
  <2>2. CASE \E c : /\ eng' = Next1(eng) /\ Ran(c, past.halt)
                   /\ UNCHANGED disk
    BY <2>2 DEF HaltInv, Records, HaltHolds, Next1, Ran, Up, At
  <2> QED BY <1>1, <2>1, <2>2 DEF Remember, SetStrategy, Executes
<1>2. CASE Close \/ ApplySetting \/ RequestStop \/ RunScan
  <2>1. /\ Up /\ \E c : Ran(c, past.halt)
        /\ disk'.halted = disk.halted
        /\ disk' = [halted |-> disk'.halted, override |-> disk'.override,
                    file |-> disk'.file]
    BY <1>2 DEF HaltInv, Records, Close, ApplySetting, RequestStop, RunScan,
       Executes
  <2>2. /\ eng'.halted = eng.halted
        /\ eng' = [at |-> eng'.at, todo |-> eng'.todo, held |-> eng'.held,
                   halted |-> eng'.halted, override |-> eng'.override,
                   using |-> eng'.using, exit |-> eng'.exit,
                   life |-> eng'.life]
    BY <1>2 DEF HaltInv, Records, Close, ApplySetting, RequestStop, RunScan,
       Next1, Raised
  <2>3. /\ past'.halt = past.halt
        /\ past' = [ran |-> past'.ran, handled |-> past'.handled,
                    halt |-> past'.halt]
    BY <2>1 DEF HaltInv, Records, Ran
  <2> QED BY <2>1, <2>2, <2>3 DEF HaltInv, Records, HaltHolds, Up, At
<1> QED BY <1>1, <1>2 DEF Commands

\* The rest of an iteration of the loop.
LEMMA LoopKeepsHalt ==
  ASSUME HaltInv,
         PopWeb \/ PopPhone \/ Publish \/ Trade \/ RiskHalts \/ RollDay
  PROVE  HaltInv'
<1>1. CASE PopWeb \/ PopPhone \/ Publish \/ Trade
  BY <1>1 DEF HaltInv, Records, HaltHolds, PopWeb, PopPhone, Pops, Publish,
     Trade, Up, At
<1>2. CASE RiskHalts
  BY <1>2 DEF HaltInv, Records, HaltHolds, RiskHalts, Up, At
<1>3. CASE RollDay
  BY <1>3 DEF HaltInv, Records, HaltHolds, RollDay
<1> QED BY <1>1, <1>2, <1>3

\* A process that leaves, dies or starts.
LEMMA ProcessKeepsHalt ==
  ASSUME HaltInv, Exit \/ Crash \/ Start
  PROVE  HaltInv'
<1>1. CASE Exit \/ Crash
  <2>1. /\ ~Up' /\ past' = past /\ disk'.halted = disk.halted
        /\ disk' = [halted |-> disk'.halted, override |-> disk'.override,
                    file |-> disk'.file]
        /\ eng'.halted = eng.halted
        /\ eng' = [at |-> eng'.at, todo |-> eng'.todo, held |-> eng'.held,
                   halted |-> eng'.halted, override |-> eng'.override,
                   using |-> eng'.using, exit |-> eng'.exit,
                   life |-> eng'.life]
    BY <1>1 DEF HaltInv, Records, Exit, Crash, Dies, Up, At
  <2> QED BY <2>1 DEF HaltInv, Records, HaltHolds
<1>2. CASE Start
  BY <1>2 DEF HaltInv, Records, HaltHolds, Start
<1> QED BY <1>1, <1>2

\* Every step keeps the invariant.
LEMMA NextHalt == HaltInv /\ [Next]_vars => HaltInv'
<1> SUFFICES ASSUME HaltInv, [Next]_vars PROVE HaltInv'
  OBVIOUS
<1>1. CASE UNCHANGED vars
  BY <1>1 DEF vars, HaltInv, Records, HaltHolds, Up, At
<1>2. CASE Next
  BY <1>2, SurfaceKeepsHalt, CommandsKeepHalt, LoopKeepsHalt,
     ProcessKeepsHalt DEF Next, Loop
<1> QED BY <1>1, <1>2

\* A halt that reached the disk is lifted by a resume and nothing else
\* (state.py, save and roll_day_if_needed; engine.py, startup and
\* process_commands), for every value of the constants.
THEOREM HaltIsHeld == Spec => []HaltHolds
<1>1. HaltInv => HaltHolds
  BY DEF HaltInv
<1> QED BY <1>1, InitHalt, NextHalt, PTL DEF Spec

-------------------------------------------------------------------------------
(* What the surfaces and the queues hold.                                  *)

Updates   == [id : 1 .. MaxInputs, kind : {"text", "yes", "no"}, cmd : Menu,
              nonce : {Nil} \union Tickets]
Questions == [nonce : Tickets, cmd : Menu, expired : BOOLEAN]
Buttons   == [nonce : Tickets, cmd : Menu]
WebOrders == [cmd : Menu, nonce : {Nil}, late : {FALSE}]
PhoneOrders == [cmd : Menu, nonce : Tickets, late : {FALSE}]
Orders    == [cmd : Menu, nonce : {Nil} \union Tickets, late : {FALSE}]
Settings  == {Default} \union (Allowed \intersect Declared)
Pins      == Routed \union {Nil}

Bots    == [offset : 0 .. MaxInputs + 1, batch : SUBSET Updates,
            pending : SUBSET Questions]
Waits == [web : Seq(WebOrders), phone : Seq(PhoneOrders)]
Engines == [at : {"idle", "web", "phone", "down"}, todo : Seq(Orders),
            held : SUBSET Coins, halted : BOOLEAN, override : Pins,
            using : Settings, exit : {Nil, 0, 1, 75}, life : 1 .. MaxLives]
Disks   == [halted : BOOLEAN, override : Pins, file : Settings]
Pasts   == [ran : SUBSET ({Nil} \union Tickets), handled : SUBSET Nat,
            halt : BOOLEAN]

Typed ==
  /\ server \in SUBSET Updates /\ chat \in SUBSET Buttons
  /\ bot \in Bots /\ bot.batch \subseteq server
  /\ queue \in Waits /\ eng \in Engines /\ disk \in Disks /\ past \in Pasts
  /\ snap \in [held : SUBSET Coins, halted : BOOLEAN]
  /\ count \in [sent : Nat, events : Nat]
  /\ count.sent + count.events <= MaxInputs /\ faults \in 0 .. MaxFaults

(* Which queue the commands in hand were popped from.                      *)
Popped ==
  /\ At("phone") => eng.todo \in Seq(PhoneOrders)
  /\ At("web")   => eng.todo \in Seq(WebOrders)
  /\ ~(At("web") \/ At("phone")) => eng.todo = <<>>
  /\ ~Up => bot = NewBot /\ queue = NoQueue

(* The presses that wait to be executed, by the nonce of what was asked.   *)
Once(s) == \A i, j \in DOMAIN s : s[i].nonce = s[j].nonce => i = j

(* A nonce of this life, of an update behind the offset.                   *)
Issued(n) == n \in Tickets /\ n.life = eng.life /\ n.id < bot.offset

Lines ==
  /\ Once(queue.phone) /\ (At("phone") => Once(eng.todo))
  /\ InHands \intersect NoncesOf(queue.phone) = {}
  /\ \A n \in Waiting : Issued(n) /\ n \notin past.ran

(* What is asked has neither been pressed nor run.                         *)
Asked ==
  /\ \A p \in bot.pending :
       Issued(p.nonce) /\ p.nonce \notin past.ran \union Waiting
  /\ \A p, q \in bot.pending : p.nonce = q.nonce => p = q

(* What ran was asked in an earlier life or behind the offset.             *)
RanBefore ==
  \A n \in past.ran \ {Nil} :
    n.life <= eng.life /\ (Up /\ n.life = eng.life => n.id < bot.offset)

(* Updates have ids of their own, and the batch is ahead of the offset.    *)
Arrived ==
  /\ \A u \in server : u.id <= count.sent
  /\ \A u, v \in server : u.id = v.id => u = v
  /\ \A u \in bot.batch : u.id >= bot.offset

(* What is behind the offset was handled; what precedes an update of the   *)
(* batch was handled or is in the batch.                                   *)
Behind ==
  /\ \A i \in 1 .. MaxInputs : i < bot.offset => i \in past.handled
  /\ \A u \in bot.batch : \A i \in 1 .. u.id :
       i \in past.handled \/ \E v \in bot.batch : v.id = i

Pressing == Typed /\ Popped /\ Lines /\ Asked /\ RanBefore /\ Arrived
Keeping  == Behind /\ NothingLost

ControlsInv == Pressing /\ Keeping

-------------------------------------------------------------------------------
(* Lines of commands.                                                      *)

\* A command added to a line, with a nonce the line has not.
LEMMA AppendLine ==
  ASSUME NEW S, NEW s \in Seq(S), NEW x \in S
  PROVE  /\ Append(s, x) \in Seq(S)
         /\ NoncesOf(Append(s, x)) = NoncesOf(s) \union {x.nonce}
         /\ Once(s) /\ x.nonce \notin NoncesOf(s) => Once(Append(s, x))
<1>1. /\ DOMAIN s = 1 .. Len(s) /\ Len(s) \in Nat
      /\ DOMAIN Append(s, x) = 1 .. Len(s) + 1
      /\ \A i \in 1 .. Len(s) : Append(s, x)[i] = s[i]
      /\ Append(s, x)[Len(s) + 1] = x
  OBVIOUS
<1>2. \A i \in 1 .. Len(s) + 1 : i \in 1 .. Len(s) \/ i = Len(s) + 1
  BY <1>1
<1>3. NoncesOf(Append(s, x)) = NoncesOf(s) \union {x.nonce}
  BY <1>1, <1>2 DEF NoncesOf
<1>4. Once(s) /\ x.nonce \notin NoncesOf(s) => Once(Append(s, x))
  BY <1>1, <1>2 DEF Once, NoncesOf
<1> QED BY <1>3, <1>4

\* The first command leaves a line that names each press once.
LEMMA TailLine ==
  ASSUME NEW S, NEW s \in Seq(S), s # <<>>
  PROVE  /\ Tail(s) \in Seq(S) /\ Head(s) \in S
         /\ NoncesOf(s) = NoncesOf(Tail(s)) \union {Head(s).nonce}
         /\ Once(s) => /\ Once(Tail(s))
                      /\ Head(s).nonce \notin NoncesOf(Tail(s))
<1>1. /\ DOMAIN s = 1 .. Len(s) /\ Len(s) \in Nat \ {0}
      /\ DOMAIN Tail(s) = 1 .. Len(s) - 1
      /\ \A i \in 1 .. Len(s) - 1 : Tail(s)[i] = s[i + 1]
      /\ Head(s) = s[1]
  OBVIOUS
<1>2. \A i \in 1 .. Len(s) : i = 1 \/ i - 1 \in 1 .. Len(s) - 1
  BY <1>1
<1>3. \A i \in 1 .. Len(s) : i = 1 \/ s[i] = Tail(s)[i - 1]
  BY <1>1, <1>2
<1>4. NoncesOf(s) = NoncesOf(Tail(s)) \union {Head(s).nonce}
  <2>1. \A i \in 1 .. Len(s) - 1 : i + 1 \in 1 .. Len(s)
    BY <1>1
  <2>2. 1 \in 1 .. Len(s)
    BY <1>1
  <2>3. NoncesOf(Tail(s)) \union {Head(s).nonce} \subseteq NoncesOf(s)
    BY <1>1, <2>1, <2>2 DEF NoncesOf
  <2>4. NoncesOf(s) \subseteq NoncesOf(Tail(s)) \union {Head(s).nonce}
    <3>1. \A i \in 1 .. Len(s) :
            \/ s[i] = Head(s)
            \/ \E j \in DOMAIN Tail(s) : s[i] = Tail(s)[j]
      BY <1>1, <1>2, <1>3
    <3> QED BY <1>1, <3>1 DEF NoncesOf
  <2> QED BY <2>3, <2>4
<1>5. Once(s) => Once(Tail(s)) /\ Head(s).nonce \notin NoncesOf(Tail(s))
  BY <1>1 DEF Once, NoncesOf
<1> QED BY <1>4, <1>5

\* An empty line names no press.
LEMMA EmptyLine == NoncesOf(<<>>) = {} /\ Once(<<>>)
BY DEF NoncesOf, Once

-------------------------------------------------------------------------------
(* The operator and the telegram thread.                                   *)

\* The number of what is asked.
LEMMA BoundFacts ==
  /\ MaxInputs \in Nat /\ MaxFaults \in Nat
  /\ MaxLives \in Nat /\ MaxLives # 0
  /\ Nil \notin [id : Nat, life : Nat]
BY BoundAssumption

\* No nonce is the missing one.
LEMMA NilIsNoTicket == Nil \notin Tickets
BY BoundFacts DEF Tickets

\* /set is asked for by the name a short one stands for.
LEMMA MeansInMenu ==
  ASSUME NEW c \in Menu
  PROVE  Means(c) \in Menu
BY BoundAssumption DEF Means, Menu

\* A fault leaves what is left of them.
LEMMA FaultTyped ==
  ASSUME Typed, Fault \/ Ok
  PROVE  faults' \in 0 .. MaxFaults
BY BoundFacts DEF Typed, Fault, Ok

\* Another update arrives, behind all the others.
LEMMA ReceiveKeeps ==
  ASSUME ControlsInv, NEW kind \in {"text", "yes", "no"}, NEW c \in Menu,
         NEW nonce \in {Nil} \union Tickets, Receive(kind, c, nonce)
  PROVE  ControlsInv'
<1> DEFINE u == [id |-> count.sent + 1, kind |-> kind, cmd |-> c,
                 nonce |-> nonce]
<1>1. /\ count.sent \in Nat /\ count.events \in Nat
      /\ count.sent + count.events < MaxInputs /\ MaxInputs \in Nat
  BY BoundFacts DEF ControlsInv, Pressing, Typed, Receive
<1>2. count' = [sent |-> count.sent + 1, events |-> count.events]
  BY DEF ControlsInv, Pressing, Typed, Receive
<1>3. /\ server' = server \union {u}
      /\ UNCHANGED <<chat, bot, queue, snap, eng, disk, faults, past>>
  BY DEF Receive
<1>4. u \in Updates /\ u.id = count.sent + 1
  BY <1>1 DEF Updates
<1>5. Typed'
  BY <1>1, <1>2, <1>3, <1>4 DEF ControlsInv, Pressing, Typed
<1>6. Popped' /\ Lines' /\ Asked' /\ RanBefore'
  BY <1>3 DEF ControlsInv, Pressing, Popped, Lines, Asked, RanBefore, At, Up,
     Waiting, InHands, Issued
<1>7. Arrived'
  <2>1. \A v \in server : v.id \in Nat /\ v.id <= count.sent
    BY DEF ControlsInv, Pressing, Arrived, Typed, Updates
  <2>2. \A v \in server' : v = u \/ v \in server
    BY <1>3
  <2> HIDE DEF u
  <2>3. \A v \in server' : v.id <= count'.sent
    BY <1>1, <1>2, <1>4, <2>1, <2>2
  <2>4. \A v, w \in server' : v.id = w.id => v = w
    BY <1>1, <1>4, <2>1, <2>2 DEF ControlsInv, Pressing, Arrived
  <2> QED BY <1>3, <2>3, <2>4 DEF ControlsInv, Pressing, Arrived
<1>8. Keeping'
  <2>1. Behind'
    BY <1>3 DEF ControlsInv, Keeping, Behind
  <2>2. \A i \in 1 .. count'.sent : i \in 1 .. count.sent \/ i = u.id
    BY <1>1, <1>2, <1>4
  <2>3. NothingLost'
    BY <1>3, <2>2 DEF ControlsInv, Keeping, NothingLost
  <2> QED BY <2>1, <2>3 DEF Keeping
<1> QED BY <1>5, <1>6, <1>7, <1>8 DEF ControlsInv, Pressing

\* Whatever is written, pressed or posted.
LEMMA InputsKeep ==
  ASSUME ControlsInv, Say \/ Press \/ Post
  PROVE  ControlsInv'
<1>1. CASE Say \/ Press
  <2>1. \E kind \in {"text", "yes", "no"}, c \in Menu,
           nonce \in {Nil} \union Tickets : Receive(kind, c, nonce)
    BY <1>1 DEF Say, Press, ControlsInv, Pressing, Typed, Buttons
  <2> QED BY <2>1, ReceiveKeeps
<1>2. CASE Post
  <2>1. PICK c \in Menu :
          queue' = [queue EXCEPT !.web = Append(@, [cmd |-> c, nonce |-> Nil,
                                                    late |-> FALSE])]
    BY <1>2 DEF Post
  <2>2. /\ UNCHANGED <<server, chat, bot, snap, eng, disk, faults, past>>
        /\ count' = [count EXCEPT !.events = @ + 1] /\ Up
        /\ count.sent + count.events < MaxInputs
    BY <1>2 DEF Post
  <2>3. PICK x : /\ x \in WebOrders
                 /\ queue' = [queue EXCEPT !.web = Append(@, x)]
    BY <2>1 DEF WebOrders
  <2>4. /\ queue' = [web |-> Append(queue.web, x), phone |-> queue.phone]
        /\ Append(queue.web, x) \in Seq(WebOrders)
    BY <2>3, AppendLine DEF ControlsInv, Pressing, Typed, Waits
  <2>5. Typed'
    <3>1. queue' \in Waits
      BY <2>4 DEF ControlsInv, Pressing, Typed, Waits
    <3>2. /\ count' = [sent |-> count.sent, events |-> count.events + 1]
          /\ count.sent \in Nat /\ count.events \in Nat
      BY <2>2 DEF ControlsInv, Pressing, Typed
    <3>3. \A a, b \in Nat : a + b < MaxInputs => a + (b + 1) <= MaxInputs
      BY BoundFacts
    <3>4. count.sent + (count.events + 1) <= MaxInputs
      BY <2>2, <3>2, <3>3
    <3>5. count'.sent + count'.events <= MaxInputs
      BY <3>2, <3>4
    <3>6. count' \in [sent : Nat, events : Nat]
      BY <3>2
    <3> QED BY <2>2, <3>1, <3>5, <3>6 DEF ControlsInv, Pressing, Typed
  <2>6. queue'.phone = queue.phone /\ count'.sent = count.sent
    BY <2>2, <2>4 DEF ControlsInv, Pressing, Typed
  <2>7. Popped' /\ Lines' /\ Asked' /\ RanBefore'
    BY <2>2, <2>6 DEF ControlsInv, Pressing, Popped, Lines, Asked, RanBefore,
       At, Up, Waiting, InHands, Issued
  <2>8. Arrived' /\ Keeping'
    BY <2>2, <2>6 DEF ControlsInv, Pressing, Arrived, Keeping, Behind,
       NothingLost
  <2> QED BY <2>5, <2>7, <2>8 DEF ControlsInv, Pressing
<1> QED BY <1>1, <1>2

\* Confirmations that run out are still the ones that were asked.
LEMMA ExpireKeeps ==
  ASSUME ControlsInv, Expire
  PROVE  ControlsInv'
<1>1. PICK q \in bot.pending :
        bot' = [bot EXCEPT !.pending = {[p EXCEPT !.expired =
                  @ \/ p.nonce.id <= q.nonce.id] : p \in bot.pending}]
  BY DEF Expire
<1>2. UNCHANGED <<server, chat, queue, snap, eng, disk, count, faults, past>>
  BY DEF Expire
<1>3. bot \in Bots
  BY DEF ControlsInv, Pressing, Typed
<1>4. \A p \in bot.pending : p \in Questions
  BY <1>3 DEF Bots
<1> DEFINE old(p) == [p EXCEPT !.expired = @ \/ p.nonce.id <= q.nonce.id]
<1>5. \A p \in bot.pending : old(p) \in Questions /\ old(p).nonce = p.nonce
  BY <1>4 DEF Questions
<1>6. /\ bot'.offset = bot.offset /\ bot'.batch = bot.batch
      /\ bot'.pending = {old(p) : p \in bot.pending}
      /\ bot' = [offset |-> bot.offset, batch |-> bot.batch,
                 pending |-> {old(p) : p \in bot.pending}]
  BY <1>1, <1>3 DEF Bots
<1> HIDE DEF old
<1>7. bot' \in Bots
  BY <1>3, <1>5, <1>6 DEF Bots
<1>8. Up
  BY DEF ControlsInv, Pressing, Popped, Expire, NewBot
<1>9. Typed' /\ Popped' /\ Lines' /\ RanBefore'
  BY <1>2, <1>6, <1>7, <1>8 DEF ControlsInv, Pressing, Typed, Popped, Lines,
     RanBefore, At, Up, Waiting, InHands, Issued
<1>10. Asked'
  <2>1. \A p \in bot'.pending : \E r \in bot.pending :
          p = old(r) /\ p.nonce = r.nonce
    BY <1>5, <1>6
  <2>2. \A r \in bot.pending :
          Issued(r.nonce)' /\ r.nonce \notin (past.ran \union Waiting)'
    BY <1>2, <1>6 DEF ControlsInv, Pressing, Asked, Issued, Waiting, InHands,
       At
  <2>3. \A p, r \in bot.pending : p.nonce = r.nonce => p = r
    BY DEF ControlsInv, Pressing, Asked
  <2> QED BY <2>1, <2>2, <2>3 DEF Asked
<1>11. Arrived' /\ Keeping'
  BY <1>2, <1>6 DEF ControlsInv, Pressing, Arrived, Keeping, Behind,
     NothingLost
<1> QED BY <1>9, <1>10, <1>11 DEF ControlsInv, Pressing

\* The batch is what is ahead of the offset; what is behind it was handled.
LEMMA PollKeeps ==
  ASSUME ControlsInv, Poll
  PROVE  ControlsInv'
<1>1. /\ server' = {u \in server : u.id >= bot.offset} /\ Up
      /\ UNCHANGED <<chat, queue, snap, eng, disk, count, past>>
      /\ Fault \/ Ok
      /\ bot.batch = {}
  BY DEF Poll
<1>2. bot \in Bots /\ server \in SUBSET Updates
  BY DEF ControlsInv, Pressing, Typed
<1>3. bot' = [bot EXCEPT !.batch = server'] \/ bot' = bot
  BY DEF Poll
<1>4. /\ bot'.offset = bot.offset /\ bot'.pending = bot.pending
      /\ bot'.batch \in {server', {}}
      /\ bot' = [offset |-> bot.offset, batch |-> bot'.batch,
                 pending |-> bot.pending]
  BY <1>1, <1>2, <1>3 DEF Bots
<1>5. server' \subseteq server
  BY <1>1
<1>6. bot' \in Bots /\ bot'.batch \subseteq server'
  BY <1>2, <1>4, <1>5 DEF Bots
<1>7. Typed'
  BY <1>1, <1>2, <1>5, <1>6, FaultTyped DEF ControlsInv, Pressing, Typed
<1>8. Popped' /\ Lines' /\ Asked' /\ RanBefore'
  BY <1>1, <1>4 DEF ControlsInv, Pressing, Popped, Lines, Asked, RanBefore,
     At, Up, Waiting, InHands, Issued
<1>9. Arrived'
  BY <1>1, <1>4, <1>5 DEF ControlsInv, Pressing, Arrived
<1>10. NothingLost'
  <2>1. count.sent \in Nat /\ count.sent <= MaxInputs /\ MaxInputs \in Nat
    BY BoundFacts DEF ControlsInv, Pressing, Typed
  <2>2. \A i \in 1 .. count.sent : i \in 1 .. MaxInputs /\ i \in Nat
    BY <2>1
  <2>3. bot.offset \in Nat
    BY <1>2, BoundFacts DEF Bots
  <2>4. \A i \in 1 .. count.sent : i < bot.offset => i \in past.handled
    BY <2>2 DEF ControlsInv, Keeping, Behind
  <2>5. \A i \in 1 .. count.sent : \A u \in server :
          u.id = i /\ ~(i < bot.offset) => u \in server'
    BY <1>1, <2>2, <2>3
  <2> QED BY <1>1, <2>4, <2>5 DEF ControlsInv, Keeping, NothingLost
<1>11. Behind'
  <2>1. \A i \in 1 .. MaxInputs : i < bot'.offset => i \in past'.handled
    BY <1>1, <1>4 DEF ControlsInv, Keeping, Behind
  <2>2. ASSUME NEW u \in server', NEW i \in 1 .. u.id
        PROVE  i \in past'.handled \/ \E v \in server' : v.id = i
    <3>1. u.id <= count.sent /\ u.id \in Nat /\ count.sent \in Nat
      BY <1>2, <1>5 DEF ControlsInv, Pressing, Arrived, Updates, Typed
    <3>2. i \in 1 .. count'.sent
      BY <1>1, <3>1
    <3> QED BY <1>10, <3>2 DEF NothingLost
  <2> QED BY <1>4, <2>1, <2>2 DEF Behind
<1> QED BY <1>7, <1>8, <1>9, <1>10, <1>11 DEF ControlsInv, Pressing, Keeping

\* An update that leaves the batch takes the offset behind itself and stays
\* in front of the rest of the batch; what becomes of the queues is shown by
\* each handler.
LEMMA HandledKeeps ==
  ASSUME ControlsInv, NEW u, InHand(u), NEW pending \in SUBSET Questions,
         NEW batch, batch \in {{}, bot.batch \ {u}},
         bot' = [offset |-> IF bot.offset > u.id THEN bot.offset
                            ELSE u.id + 1,
                 batch |-> batch, pending |-> pending],
         past' = [past EXCEPT !.handled = @ \union {u.id}],
         UNCHANGED <<server, snap, eng, disk, count>>
  PROVE  /\ u \in Updates /\ u \in server /\ u.id \in 1 .. MaxInputs
         /\ bot' \in Bots /\ bot'.batch \subseteq server'
         /\ bot'.offset = u.id + 1 /\ bot.offset <= u.id
         /\ bot'.pending = pending
         /\ past' \in Pasts /\ past'.ran = past.ran
         /\ Arrived' /\ Behind' /\ NothingLost'
         /\ \A n : Issued(n) => Issued(n)' /\ n.id < u.id
         /\ RanBefore' /\ \A n \in past.ran \ {Nil} :
                            n.life = eng.life /\ Up => n.id < u.id
<1>1. bot \in Bots /\ server \in SUBSET Updates /\ bot.batch \subseteq server
  BY DEF ControlsInv, Pressing, Typed
<1>2. u \in bot.batch /\ \A v \in bot.batch : u.id <= v.id
  BY DEF InHand
<1>3. u \in Updates /\ u \in server /\ u.id \in 1 .. MaxInputs
  BY <1>1, <1>2 DEF Updates
<1>4. bot.offset <= u.id /\ bot.offset \in Nat /\ u.id \in Nat
      /\ MaxInputs \in Nat
  BY <1>1, <1>2, <1>3, BoundFacts DEF ControlsInv, Pressing, Arrived, Bots
<1>5. /\ bot'.offset = u.id + 1 /\ bot'.batch = batch
      /\ bot'.pending = pending
      /\ bot' = [offset |-> u.id + 1, batch |-> batch, pending |-> pending]
  BY <1>4
<1>6. batch \subseteq bot.batch /\ u \notin batch
  OBVIOUS
<1>7. bot' \in Bots /\ bot'.batch \subseteq server'
  <2>1. u.id + 1 \in 0 .. MaxInputs + 1
    BY <1>3, <1>4
  <2> QED BY <1>1, <1>5, <1>6, <2>1 DEF Bots
<1>8. /\ past'.handled = past.handled \union {u.id}
      /\ past'.ran = past.ran /\ past' \in Pasts
  <2>1. past \in Pasts
    BY DEF ControlsInv, Pressing, Typed
  <2> QED BY <1>4, <2>1 DEF Pasts
<1>9. \A v \in batch : v.id > u.id /\ v.id \in Nat
  BY <1>1, <1>2, <1>3, <1>4, <1>6 DEF ControlsInv, Pressing, Arrived, Updates
<1>10. Arrived'
  <2>1. \A v \in batch : v.id >= u.id + 1
    BY <1>4, <1>9
  <2> QED BY <1>5, <2>1 DEF ControlsInv, Pressing, Arrived
<1>11. Behind'
  <2>1. ASSUME NEW i \in 1 .. MaxInputs, i < bot'.offset
        PROVE  i \in past'.handled
    <3>1. i \in 1 .. u.id
      BY <1>4, <1>5, <2>1
    <3>2. i \in past.handled \/ \E v \in bot.batch : v.id = i
      BY <1>2, <3>1 DEF ControlsInv, Keeping, Behind
    <3>3. \A v \in bot.batch : v.id = i => i = u.id
      BY <1>1, <1>2, <1>4, <3>1 DEF Updates
    <3> QED BY <1>8, <3>2, <3>3
  <2>2. ASSUME NEW v \in batch, NEW i \in 1 .. v.id
        PROVE  i \in past'.handled \/ \E w \in batch : w.id = i
    <3>1. CASE batch = {}
      BY <3>1
    <3>2. CASE batch = bot.batch \ {u}
      <4>1. i \in past.handled \/ \E w \in bot.batch : w.id = i
        BY <1>6 DEF ControlsInv, Keeping, Behind
      <4> QED BY <1>8, <3>2, <4>1
    <3> QED BY <3>1, <3>2
  <2> QED BY <1>5, <2>1, <2>2 DEF Behind
<1>12. NothingLost'
  BY <1>8 DEF ControlsInv, Keeping, NothingLost
<1>13. \A n : Issued(n) => Issued(n)' /\ n.id < u.id
  BY <1>4, <1>5 DEF Issued, Tickets
<1>14. \A n \in past.ran \ {Nil} :
         /\ n.life <= eng.life /\ n \in Tickets
         /\ Up /\ n.life = eng.life => n.id < bot.offset
  BY DEF ControlsInv, Pressing, RanBefore, Typed, Pasts
<1>15. \A n \in past.ran \ {Nil} :
         Up /\ n.life = eng.life => n.id < u.id /\ n.id < bot'.offset
  BY <1>4, <1>5, <1>14 DEF Tickets
<1>16. RanBefore'
  BY <1>8, <1>14, <1>15 DEF RanBefore, Up, At
<1> QED BY <1>3, <1>4, <1>5, <1>7, <1>8, <1>10, <1>11, <1>12, <1>13, <1>15,
           <1>16

\* A handler that raises leaves the queues alone and loses its batch.
LEMMA BrokenKeeps ==
  ASSUME ControlsInv, Broken
  PROVE  ControlsInv'
<1>1. PICK u \in bot.batch :
        /\ InHand(u)
        /\ bot' = [bot EXCEPT !.batch = {},
                     !.offset = IF @ > u.id THEN @ ELSE u.id + 1]
        /\ past' = [past EXCEPT !.handled = @ \union {u.id}]
  BY DEF Broken
<1>2. /\ UNCHANGED <<server, chat, queue, snap, eng, disk, count>>
      /\ Up /\ Fault
  BY DEF Broken
<1>3. bot \in Bots /\ bot.pending \in SUBSET Questions
  BY DEF ControlsInv, Pressing, Typed, Bots
<1>4. bot' = [offset |-> IF bot.offset > u.id THEN bot.offset ELSE u.id + 1,
              batch |-> {}, pending |-> bot.pending]
  BY <1>1, <1>3 DEF Bots
<1>5. /\ bot' \in Bots /\ bot'.batch \subseteq server'
      /\ bot'.pending = bot.pending
      /\ past' \in Pasts /\ past'.ran = past.ran
      /\ Arrived' /\ Behind' /\ NothingLost' /\ RanBefore'
      /\ \A n : Issued(n) => Issued(n)'
  BY <1>1, <1>2, <1>3, <1>4, HandledKeeps
<1>6. Typed'
  BY <1>2, <1>5, FaultTyped DEF ControlsInv, Pressing, Typed
<1>7. Popped' /\ Waiting' = Waiting /\ InHands' = InHands
  BY <1>2 DEF ControlsInv, Pressing, Popped, At, Up, Waiting, InHands
<1>8. Lines' /\ Asked'
  BY <1>2, <1>5, <1>7 DEF ControlsInv, Pressing, Lines, Asked, At
<1> QED BY <1>5, <1>6, <1>7, <1>8 DEF ControlsInv, Pressing, Keeping

\* What swept confirmations and a new question leave of the invariant.
LEMMA Sweeping ==
  ASSUME ControlsInv, NEW ps \in SUBSET bot.pending
  PROVE  Swept(ps) \in SUBSET bot.pending /\ Swept(ps) \in SUBSET Questions
BY DEF Swept, ControlsInv, Pressing, Typed, Bots

\* The nonce of a question: no press in play and none that ran has it.
LEMMA FreshNonce ==
  ASSUME ControlsInv, Up, NEW u \in Updates, bot.offset <= u.id
  PROVE  /\ Nonce(u) \in Tickets /\ Nonce(u).id = u.id
         /\ Nonce(u).life = eng.life /\ ~Issued(Nonce(u))
         /\ Nonce(u) \notin past.ran
<1>1. /\ Nonce(u).id = u.id /\ Nonce(u).life = eng.life
      /\ u.id \in Nat /\ bot.offset \in Nat
      /\ Nonce(u) \in Tickets
  BY BoundFacts DEF Nonce, Tickets, Updates, ControlsInv, Pressing, Typed,
     Bots, Engines
<1>2. ~Issued(Nonce(u))
  BY <1>1 DEF Issued
<1>3. Nonce(u) # Nil
  BY <1>1, NilIsNoTicket
<1>4. Nonce(u) \notin past.ran
  BY <1>1, <1>3 DEF ControlsInv, Pressing, RanBefore
<1> QED BY <1>1, <1>2, <1>4

\* A question is asked, or declined at once.
LEMMA AskKeeps ==
  ASSUME ControlsInv, Ask
  PROVE  ControlsInv'
<1>1. PICK u, pending :
        /\ u \in bot.batch /\ UNCHANGED queue /\ Handles(u, pending)
        /\ \/ pending = bot.pending /\ UNCHANGED <<chat, faults>>
           \/ /\ pending = Swept(bot.pending) \union
                   {[nonce |-> Nonce(u), cmd |-> Means(u.cmd),
                     expired |-> FALSE]}
              /\ \/ /\ Ok
                    /\ chat' = chat \union
                       {[nonce |-> Nonce(u), cmd |-> Means(u.cmd)]}
                 \/ Fault /\ UNCHANGED chat
  BY DEF Ask
<1>q. PICK q : q = [nonce |-> Nonce(u), cmd |-> Means(u.cmd),
                    expired |-> FALSE]
  OBVIOUS
<1>2. /\ Up /\ InHand(u)
      /\ bot' = [offset |-> IF bot.offset > u.id THEN bot.offset
                            ELSE u.id + 1,
                 batch |-> bot.batch \ {u}, pending |-> pending]
      /\ past' = [past EXCEPT !.handled = @ \union {u.id}]
      /\ UNCHANGED <<server, snap, eng, disk, count, queue>>
  BY <1>1 DEF Handles
<1>3. u \in Updates /\ bot.offset <= u.id /\ bot.pending \in SUBSET Questions
  BY <1>1 DEF ControlsInv, Pressing, Typed, Bots, Arrived
<1>4. /\ Nonce(u) \in Tickets /\ Nonce(u).id = u.id
      /\ Nonce(u).life = eng.life /\ ~Issued(Nonce(u))
      /\ Nonce(u) \notin past.ran
  BY <1>2, <1>3, FreshNonce
<1>5. u.cmd \in Menu /\ Means(u.cmd) \in Menu
  BY <1>3, MeansInMenu DEF Updates
<1>6. q \in Questions /\ q.nonce = Nonce(u)
  BY <1>q, <1>4, <1>5 DEF Questions
<1>7. pending \in SUBSET Questions
  BY <1>q, <1>1, <1>3, <1>6, Sweeping
<1>8. /\ bot' \in Bots /\ bot'.batch \subseteq server'
      /\ bot'.offset = u.id + 1 /\ bot'.pending = pending
      /\ past' \in Pasts /\ past'.ran = past.ran
      /\ Arrived' /\ Behind' /\ NothingLost' /\ RanBefore'
      /\ \A n : Issued(n) => Issued(n)'
  BY <1>2, <1>7, HandledKeeps
<1>9. chat' \in SUBSET Buttons
  <2>1. [nonce |-> Nonce(u), cmd |-> Means(u.cmd)] \in Buttons
    BY <1>4, <1>5 DEF Buttons
  <2> QED BY <1>1, <2>1 DEF ControlsInv, Pressing, Typed
<1>10. Fault \/ Ok
  BY <1>1 DEF Ok
<1>11. Typed'
  BY <1>2, <1>8, <1>9, <1>10, FaultTyped DEF ControlsInv, Pressing, Typed
<1>12. Popped' /\ Waiting' = Waiting /\ InHands' = InHands
  BY <1>2 DEF ControlsInv, Pressing, Popped, At, Up, Waiting, InHands
<1>13. Lines'
  BY <1>2, <1>8, <1>12 DEF ControlsInv, Pressing, Lines, At
<1>14. Asked'
  <2>1. \A p \in pending : p = q \/ p \in bot.pending
    BY <1>q, <1>1, Sweeping
  <2>2. \A p \in bot.pending : Issued(p.nonce) /\ p.nonce # q.nonce
    BY <1>4, <1>6 DEF ControlsInv, Pressing, Asked
  <2>3. Issued(q.nonce)'
    <3>1. u.id \in Nat /\ u.id < u.id + 1
      BY <1>3 DEF Updates
    <3>2. /\ q.nonce.id < bot'.offset /\ q.nonce.life = eng'.life
          /\ q.nonce \in Tickets
      BY <1>2, <1>4, <1>6, <1>8, <3>1
    <3> QED BY <3>2 DEF Issued
  <2>4. q.nonce \notin past.ran \union Waiting
    BY <1>4, <1>6 DEF ControlsInv, Pressing, Lines
  <2>5. \A p \in pending :
          Issued(p.nonce)' /\ p.nonce \notin (past.ran \union Waiting)'
    <3>1. \A p \in bot.pending :
            Issued(p.nonce)' /\ p.nonce \notin past.ran \union Waiting
      BY <1>8 DEF ControlsInv, Pressing, Asked
    <3>2. past'.ran \union Waiting' = past.ran \union Waiting
      BY <1>8, <1>12
    <3> QED BY <2>1, <2>3, <2>4, <3>1, <3>2
  <2>6. \A p, r \in pending : p.nonce = r.nonce => p = r
    BY <2>1, <2>2 DEF ControlsInv, Pressing, Asked
  <2> QED BY <1>8, <2>5, <2>6 DEF Asked
<1> QED BY <1>8, <1>11, <1>12, <1>13, <1>14 DEF ControlsInv, Pressing,
           Keeping

\* A command queued for the engine, with a nonce nothing waits for or asks.
LEMMA QueuesKeeps ==
  ASSUME ControlsInv, NEW u, NEW pending, NEW n, NEW c \in Menu,
         Handles(u, pending), Queues(c, n, FALSE), UNCHANGED <<chat, faults>>,
         pending \in SUBSET bot.pending,
         \A p \in pending : p.nonce # n,
         n \in Tickets, n.life = eng.life, n.id <= u.id,
         n \notin past.ran, n \notin Waiting
  PROVE  ControlsInv'
<1> DEFINE x == [cmd |-> c, nonce |-> n, late |-> FALSE]
<1>1. /\ Up /\ InHand(u)
      /\ bot' = [offset |-> IF bot.offset > u.id THEN bot.offset
                            ELSE u.id + 1,
                 batch |-> bot.batch \ {u}, pending |-> pending]
      /\ past' = [past EXCEPT !.handled = @ \union {u.id}]
      /\ UNCHANGED <<server, snap, eng, disk, count>>
  BY DEF Handles
<1>2. pending \in SUBSET Questions
  BY DEF ControlsInv, Pressing, Typed, Bots
<1>3. /\ u.id \in 1 .. MaxInputs
      /\ bot' \in Bots /\ bot'.batch \subseteq server'
      /\ bot'.offset = u.id + 1 /\ bot'.pending = pending
      /\ past' \in Pasts /\ past'.ran = past.ran
      /\ Arrived' /\ Behind' /\ NothingLost' /\ RanBefore'
      /\ \A m : Issued(m) => Issued(m)'
  BY <1>1, <1>2, HandledKeeps
<1>4. x \in PhoneOrders /\ x.nonce = n
  BY DEF PhoneOrders
<1>5. /\ queue \in Waits
      /\ queue' = [queue EXCEPT !.phone = Append(@, x)]
  BY DEF Queues, ControlsInv, Pressing, Typed
<1>6. /\ queue' = [web |-> queue.web, phone |-> Append(queue.phone, x)]
      /\ queue'.phone = Append(queue.phone, x)
      /\ queue.phone \in Seq(PhoneOrders)
  BY <1>5 DEF Waits
<1> HIDE DEF x
<1>7. /\ queue'.phone \in Seq(PhoneOrders)
      /\ NoncesOf(queue'.phone) = NoncesOf(queue.phone) \union {n}
      /\ Once(queue'.phone)
  BY <1>4, <1>6, AppendLine DEF ControlsInv, Pressing, Lines, Waiting
<1>8. queue' \in Waits
  BY <1>5, <1>6, <1>7 DEF Waits
<1>9. Typed'
  BY <1>1, <1>3, <1>8 DEF ControlsInv, Pressing, Typed
<1>10. Popped'
  BY <1>1 DEF ControlsInv, Pressing, Popped, At, Up
<1>11. InHands' = InHands /\ Waiting' = Waiting \union {n}
  BY <1>1, <1>7 DEF Waiting, InHands, At
<1>12. Issued(n)'
  <2>1. u.id \in Nat /\ n.id \in Nat
    BY <1>3 DEF Tickets
  <2> QED BY <1>1, <1>3, <2>1 DEF Issued
<1>13. Lines'
  BY <1>1, <1>3, <1>7, <1>11, <1>12 DEF ControlsInv, Pressing, Lines, At,
     Waiting
<1>14. Asked'
  BY <1>3, <1>11 DEF ControlsInv, Pressing, Asked
<1> QED BY <1>3, <1>9, <1>10, <1>13, <1>14 DEF ControlsInv, Pressing, Keeping

\* /scan is queued without a question.
LEMMA ScanKeeps ==
  ASSUME ControlsInv, Scan
  PROVE  ControlsInv'
<1>1. PICK u \in bot.batch :
        /\ Handles(u, bot.pending) /\ Queues(u.cmd, Nonce(u), FALSE)
        /\ UNCHANGED <<chat, faults>>
  BY DEF Scan
<1>2. u \in Updates /\ bot.offset <= u.id /\ Up /\ u.id \in Nat
  BY <1>1 DEF ControlsInv, Pressing, Typed, Bots, Arrived, Handles, Updates
<1>3. /\ Nonce(u) \in Tickets /\ Nonce(u).id = u.id
      /\ Nonce(u).life = eng.life /\ ~Issued(Nonce(u))
      /\ Nonce(u) \notin past.ran
  BY <1>2, FreshNonce
<1>4. /\ Nonce(u) \notin Waiting
      /\ \A p \in bot.pending : p.nonce # Nonce(u)
  BY <1>3 DEF ControlsInv, Pressing, Lines, Asked
<1>5. u.cmd \in Menu
  BY <1>2 DEF Updates
<1>6. Nonce(u).id <= u.id
  BY <1>2, <1>3
<1> QED BY <1>1, <1>3, <1>4, <1>5, <1>6, QueuesKeeps

\* A press: what it finds pending it takes, and queues once.
LEMMA CallbackKeeps ==
  ASSUME ControlsInv, Callback
  PROVE  ControlsInv'
<1>1. PICK u \in bot.batch :
        LET asked == {p \in bot.pending : p.nonce = u.nonce}
            valid == u.kind = "yes" /\ \E p \in asked : ~p.expired
        IN  /\ u.kind \in {"yes", "no"} /\ UNCHANGED <<chat, faults>>
            /\ Handles(u, Swept(bot.pending \ asked))
            /\ \/ valid /\ \E p \in asked : Queues(u.cmd, u.nonce, p.expired)
               \/ ~valid /\ UNCHANGED queue
  BY DEF Callback
<1> DEFINE asked == {p \in bot.pending : p.nonce = u.nonce}
           pending == Swept(bot.pending \ asked)
<1>2. /\ Handles(u, pending) /\ UNCHANGED <<chat, faults>>
      /\ pending \in SUBSET bot.pending
      /\ \A p \in pending : p.nonce # u.nonce
  BY <1>1, Sweeping DEF Swept
<1>3. u \in Updates /\ bot.offset <= u.id /\ u.id \in Nat /\ u.cmd \in Menu
  BY DEF ControlsInv, Pressing, Typed, Bots, Arrived, Updates
<1>4. CASE UNCHANGED queue
  <2>1. /\ Up /\ InHand(u)
        /\ bot' = [offset |-> IF bot.offset > u.id THEN bot.offset
                              ELSE u.id + 1,
                   batch |-> bot.batch \ {u}, pending |-> pending]
        /\ past' = [past EXCEPT !.handled = @ \union {u.id}]
        /\ UNCHANGED <<server, snap, eng, disk, count>>
    BY <1>2 DEF Handles
  <2>2. pending \in SUBSET Questions
    BY Sweeping
  <2> HIDE DEF pending, asked
  <2>3. /\ bot' \in Bots /\ bot'.batch \subseteq server'
        /\ bot'.pending = pending
        /\ past' \in Pasts /\ past'.ran = past.ran
        /\ Arrived' /\ Behind' /\ NothingLost' /\ RanBefore'
        /\ \A m : Issued(m) => Issued(m)'
    BY <2>1, <2>2, HandledKeeps
  <2>4. Typed'
    BY <1>2, <1>4, <2>1, <2>3 DEF ControlsInv, Pressing, Typed
  <2>5. Popped' /\ Waiting' = Waiting /\ InHands' = InHands
    BY <1>4, <2>1 DEF ControlsInv, Pressing, Popped, At, Up, Waiting, InHands
  <2>6. Lines' /\ Asked'
    BY <1>2, <1>4, <2>1, <2>3, <2>5 DEF ControlsInv, Pressing, Lines, Asked,
       At
  <2> QED BY <2>3, <2>4, <2>5, <2>6 DEF ControlsInv, Pressing, Keeping
<1>5. CASE \E p \in asked : ~p.expired /\ \E r \in asked :
                             Queues(u.cmd, u.nonce, r.expired)
  <2>1. PICK p \in asked : ~p.expired /\ \E r \in asked :
                             Queues(u.cmd, u.nonce, r.expired)
    BY <1>5
  <2>2. PICK r \in asked : Queues(u.cmd, u.nonce, r.expired)
    BY <2>1
  <2>3. r = p /\ p \in bot.pending /\ p.nonce = u.nonce
    BY DEF ControlsInv, Pressing, Asked
  <2>4. p.expired = FALSE
    BY <2>1, <2>3 DEF ControlsInv, Pressing, Typed, Bots, Questions
  <2>5. Queues(u.cmd, u.nonce, FALSE)
    BY <2>2, <2>3, <2>4
  <2>6. Issued(u.nonce) /\ u.nonce \notin past.ran /\ u.nonce \notin Waiting
    BY <2>3 DEF ControlsInv, Pressing, Asked
  <2>7. u.nonce \in Tickets /\ u.nonce.life = eng.life /\ u.nonce.id <= u.id
    <3>1. u.nonce \in Tickets /\ u.nonce.id < bot.offset
          /\ u.nonce.life = eng.life /\ bot.offset \in Nat
      BY <2>6 DEF Issued, ControlsInv, Pressing, Typed, Bots
    <3>2. u.nonce.id \in Nat
      BY <3>1 DEF Tickets
    <3> QED BY <1>3, <3>1, <3>2
  <2> HIDE DEF pending, asked
  <2> QED BY <1>2, <1>3, <2>5, <2>6, <2>7, QueuesKeeps
<1> QED BY <1>1, <1>4, <1>5

-------------------------------------------------------------------------------
(* The engine thread.                                                      *)

\* A popped command that a save ends, done or not.
LEMMA SavesTyped ==
  ASSUME Typed, NEW c \in Orders, NEW e \in Engines, Saves(c, e),
         e.todo = eng.todo, e.at = eng.at, e.life = eng.life,
         eng.todo # <<>>
  PROVE  /\ eng' \in Engines /\ eng'.life = eng.life
         /\ \/ eng'.todo = Tail(eng.todo) /\ eng'.at = eng.at
            \/ eng'.todo = <<>> /\ eng'.at = "idle"
         /\ past' \in Pasts /\ past'.ran = past.ran \union {c.nonce}
         /\ past'.handled = past.handled
         /\ disk' \in Disks /\ (Fault \/ Ok)
<1>1. /\ past \in Pasts /\ disk \in Disks /\ e.halted \in BOOLEAN
      /\ past.halt \in BOOLEAN /\ c.nonce \in {Nil} \union Tickets
      /\ e.override \in Pins
  BY DEF Typed, Orders, Engines, Pasts
<1>2. \A h \in BOOLEAN : Ran(c, h) =>
        /\ past' \in Pasts /\ past'.ran = past.ran \union {c.nonce}
        /\ past'.handled = past.handled
  BY <1>1 DEF Ran, Pasts
<1>3. CASE /\ eng' = Next1(e) /\ Ok /\ Ran(c, e.halted)
           /\ disk' = [disk EXCEPT !.halted = e.halted,
                                   !.override = e.override]
  <2>1. Tail(e.todo) \in Seq(Orders)
    BY TailLine DEF Engines
  <2>2. /\ eng' \in Engines /\ eng'.life = eng.life
        /\ eng'.todo = Tail(eng.todo) /\ eng'.at = eng.at
    BY <1>3, <2>1 DEF Next1, Engines
  <2>3. disk' \in Disks
    BY <1>1, <1>3 DEF Disks
  <2> QED BY <1>1, <1>2, <1>3, <2>2, <2>3
<1>4. CASE /\ eng' = Raised(e) /\ Fault /\ Ran(c, past.halt /\ e.halted)
           /\ UNCHANGED disk
  <2>1. <<>> \in Seq(Orders)
    OBVIOUS
  <2>2. /\ eng' \in Engines /\ eng'.life = eng.life
        /\ eng'.todo = <<>> /\ eng'.at = "idle"
    BY <1>4, <2>1 DEF Raised, Engines
  <2>3. (past.halt /\ e.halted) \in BOOLEAN
    OBVIOUS
  <2> QED BY <1>1, <1>2, <1>4, <2>2, <2>3
<1> QED BY <1>3, <1>4 DEF Saves

\* What every command does to the line in hand, and to nothing but it, the
\* engine, the disk and the history.
CommandDone ==
  /\ UNCHANGED <<server, chat, bot, queue, snap, count>>
  /\ eng' \in Engines /\ eng'.life = eng.life
  /\ \/ eng'.todo = Tail(eng.todo) /\ eng'.at = eng.at
     \/ eng'.todo = <<>> /\ eng'.at = "idle"
  /\ past' \in Pasts /\ past'.ran = past.ran \union {Head(eng.todo).nonce}
  /\ past'.handled = past.handled
  /\ disk' \in Disks /\ (Fault \/ Ok)
  /\ Up /\ eng.todo # <<>>

\* The command in hand is a command of the menu.
LEMMA CommandInHand ==
  ASSUME Typed, NEW c, Executes(c)
  PROVE  /\ UNCHANGED <<server, chat, bot, queue, snap, count>>
         /\ Up /\ eng.todo # <<>> /\ c = Head(eng.todo)
         /\ c \in Orders /\ c.cmd \in Menu
         /\ c.nonce \in {Nil} \union Tickets
<1>1. eng.todo \in Seq(Orders)
  BY DEF Typed, Engines
<1>2. c \in Orders
  BY <1>1, TailLine DEF Executes
<1> QED BY <1>2 DEF Executes, Orders

\* A command that leaves the disk alone: it is done, or it raised.
LEMMA PlainCommand ==
  ASSUME Typed, NEW c, Executes(c), Ran(c, past.halt), Fault \/ Ok,
         disk' \in Disks,
         NEW e \in Engines, eng' = Next1(e) \/ eng' = Raised(e),
         e.todo = eng.todo, e.at = eng.at, e.life = eng.life
  PROVE  CommandDone
<1>1. /\ Up /\ eng.todo # <<>> /\ c = Head(eng.todo)
      /\ UNCHANGED <<server, chat, bot, queue, snap, count>>
      /\ c.nonce \in {Nil} \union Tickets
  BY CommandInHand
<1>2. past \in Pasts /\ past.halt \in BOOLEAN
  BY DEF Typed, Pasts
<1>3. /\ past' \in Pasts /\ past'.ran = past.ran \union {Head(eng.todo).nonce}
      /\ past'.handled = past.handled
  BY <1>1, <1>2 DEF Ran, Pasts
<1>4. Tail(e.todo) \in Seq(Orders) /\ <<>> \in Seq(Orders)
  BY <1>1, TailLine DEF Engines
<1>5. CASE eng' = Next1(e)
  <2>1. /\ eng' \in Engines /\ eng'.life = eng.life
        /\ eng'.todo = Tail(eng.todo) /\ eng'.at = eng.at
    BY <1>4, <1>5 DEF Next1, Engines
  <2> QED BY <1>1, <1>3, <2>1 DEF CommandDone
<1>6. CASE eng' = Raised(e)
  <2>1. /\ eng' \in Engines /\ eng'.life = eng.life
        /\ eng'.todo = <<>> /\ eng'.at = "idle"
    BY <1>4, <1>6 DEF Raised, Engines
  <2> QED BY <1>1, <1>3, <2>1 DEF CommandDone
<1> QED BY <1>5, <1>6

\* process_commands(): every command.
LEMMA EveryCommand ==
  ASSUME Typed, Commands
  PROVE  CommandDone
<1>1. eng \in Engines /\ disk \in Disks
  BY DEF Typed
<1>2. CASE Close
  <2>c. PICK c : /\ Executes(c) /\ Ran(c, past.halt) /\ UNCHANGED disk
                 /\ \E left \in SUBSET eng.held :
                      \/ Ok /\ eng' = Next1([eng EXCEPT !.held = left])
                      \/ Fault /\ eng' = Raised([eng EXCEPT !.held = left])
    BY <1>2, Zenon DEF Close
  <2>1. PICK left \in SUBSET eng.held :
          \/ Ok /\ eng' = Next1([eng EXCEPT !.held = left])
          \/ Fault /\ eng' = Raised([eng EXCEPT !.held = left])
    BY <2>c
  <2>2. PICK e : e = [eng EXCEPT !.held = left]
    OBVIOUS
  <2>3. /\ e \in Engines /\ e.todo = eng.todo /\ e.at = eng.at
        /\ e.life = eng.life
    BY <1>1, <2>2 DEF Engines
  <2> QED BY <1>1, <2>c, <2>1, <2>2, <2>3, PlainCommand
<1>3. CASE Remember \/ SetStrategy
  <2>1. CASE \E c \in Orders, e \in Engines :
               /\ Executes(c) /\ Saves(c, e)
               /\ e.todo = eng.todo /\ e.at = eng.at /\ e.life = eng.life
    <3>1. PICK c \in Orders, e \in Engines :
               /\ Executes(c) /\ Saves(c, e)
               /\ e.todo = eng.todo /\ e.at = eng.at /\ e.life = eng.life
      BY <2>1
    <3>2. /\ Up /\ eng.todo # <<>> /\ c = Head(eng.todo)
          /\ UNCHANGED <<server, chat, bot, queue, snap, count>>
      BY <3>1, CommandInHand
    <3> QED BY <3>1, <3>2, SavesTyped DEF CommandDone
  <2>2. CASE \E c : /\ Executes(c) /\ eng' = Next1(eng) /\ Ran(c, past.halt)
                    /\ Ok /\ UNCHANGED disk
    BY <1>1, <2>2, PlainCommand
  <2>3. CASE Remember
    <3>1. PICK c : /\ Executes(c)
                   /\ \E h \in BOOLEAN : Saves(c, [eng EXCEPT !.halted = h])
      BY <2>3, Zenon DEF Remember
    <3>h. PICK h \in BOOLEAN : Saves(c, [eng EXCEPT !.halted = h])
      BY <3>1
    <3>2. PICK e : e = [eng EXCEPT !.halted = h]
      OBVIOUS
    <3>3. /\ e \in Engines /\ e.todo = eng.todo /\ e.at = eng.at
          /\ e.life = eng.life
      BY <1>1, <3>2 DEF Engines
    <3>4. c \in Orders
      BY <3>1, CommandInHand
    <3> QED BY <2>1, <3>1, <3>h, <3>2, <3>3, <3>4
  <2>4. CASE \E c : /\ Executes(c) /\ SetOverride(c.cmd.what)
                    /\ Saves(c, [eng EXCEPT !.override = c.cmd.what])
    <3>1. PICK c : /\ Executes(c) /\ SetOverride(c.cmd.what)
                   /\ Saves(c, [eng EXCEPT !.override = c.cmd.what])
      BY <2>4
    <3>2. PICK e : e = [eng EXCEPT !.override = c.cmd.what]
      OBVIOUS
    <3>3. c.cmd.what \in Pins
      BY <3>1 DEF SetOverride, Pins
    <3>4. /\ e \in Engines /\ e.todo = eng.todo /\ e.at = eng.at
          /\ e.life = eng.life
      BY <1>1, <3>2, <3>3 DEF Engines
    <3>5. c \in Orders
      BY <3>1, CommandInHand
    <3> QED BY <2>1, <3>1, <3>2, <3>4, <3>5
  <2> QED BY <1>3, <2>2, <2>3, <2>4 DEF SetStrategy
<1>4. CASE ApplySetting
  <2>1. PICK c :
          /\ Executes(c) /\ Ran(c, past.halt) /\ eng' = Next1(eng)
          /\ \/ /\ Parses(c.cmd.what) /\ Declares(c.cmd.what) /\ Ok
                /\ disk' = [disk EXCEPT !.file = c.cmd.what]
             \/ Ok /\ UNCHANGED disk
             \/ Fault /\ UNCHANGED disk
    BY <1>4 DEF ApplySetting
  <2>2. disk' \in Disks
    BY <1>1, <2>1 DEF Disks, Settings, Parses, Declares
  <2> QED BY <1>1, <2>1, <2>2, PlainCommand
<1>5. CASE RequestStop
  <2>1. PICK c :
          /\ Executes(c) /\ Ran(c, past.halt) /\ UNCHANGED <<disk, faults>>
          /\ \/ eng' = Next1(eng)
             \/ eng' = Next1([eng EXCEPT
                        !.exit = IF Stopping THEN @
                                 ELSE IF c.cmd.do = "stop" THEN 0 ELSE 75])
    BY <1>5, Zenon DEF RequestStop
  <2>2. PICK e : /\ \/ e = eng
                    \/ e = [eng EXCEPT
                          !.exit = IF Stopping THEN @
                                   ELSE IF c.cmd.do = "stop" THEN 0 ELSE 75]
                 /\ eng' = Next1(e)
    BY <2>1
  <2>3. /\ e \in Engines /\ e.todo = eng.todo /\ e.at = eng.at
        /\ e.life = eng.life
    BY <1>1, <2>2 DEF Engines
  <2> QED BY <1>1, <2>1, <2>2, <2>3, PlainCommand DEF Ok
<1>6. CASE RunScan
  BY <1>1, <1>6, PlainCommand DEF RunScan, Ok
<1> QED BY <1>2, <1>3, <1>4, <1>5, <1>6 DEF Commands

\* A command that has run waits no longer, and no question asks for it.
LEMMA CommandsKeep ==
  ASSUME ControlsInv, Commands
  PROVE  ControlsInv'
<1>1. CommandDone
  BY EveryCommand DEF ControlsInv, Pressing
<1> DEFINE n == Head(eng.todo).nonce
<1>2. At("web") \/ At("phone")
  BY <1>1 DEF CommandDone, ControlsInv, Pressing, Popped
<1>3. /\ eng.todo # <<>> /\ past'.ran = past.ran \union {n}
      /\ past'.handled = past.handled /\ past' \in Pasts
      /\ UNCHANGED <<server, chat, bot, queue, snap, count>>
      /\ eng'.life = eng.life /\ Up /\ Up'
  BY <1>1, <1>2 DEF CommandDone, Up, At
<1>4. Typed'
  BY <1>1, FaultTyped DEF CommandDone, ControlsInv, Pressing, Typed
<1>5. CASE At("web")
  <2>1. eng.todo \in Seq(WebOrders)
    BY <1>5 DEF ControlsInv, Pressing, Popped
  <2>2. Tail(eng.todo) \in Seq(WebOrders) /\ n = Nil
    <3>1. Tail(eng.todo) \in Seq(WebOrders) /\ Head(eng.todo) \in WebOrders
      BY <1>3, <2>1, TailLine, Zenon
    <3> QED BY <3>1 DEF WebOrders
  <2>3. Popped' /\ ~At("phone")'
    BY <1>1, <1>3, <1>5, <2>2 DEF CommandDone, Popped, At, Up, ControlsInv,
       Pressing
  <2>4. InHands' = InHands /\ Waiting' = Waiting /\ InHands = {}
    BY <1>3, <1>5, <2>3 DEF Waiting, InHands, At
  <2>5. \A m \in Tickets : m # n
    BY <2>2, NilIsNoTicket
  <2> HIDE DEF n
  <2>6. Lines'
    BY <1>3, <2>3, <2>4, <2>5 DEF ControlsInv, Pressing, Lines, Issued
  <2>7. Asked'
    BY <1>3, <2>4, <2>5 DEF ControlsInv, Pressing, Asked, Issued
  <2>8. RanBefore'
    BY <1>3, <2>2 DEF ControlsInv, Pressing, RanBefore
  <2> QED BY <1>3, <1>4, <2>3, <2>6, <2>7, <2>8 DEF ControlsInv, Pressing,
             Arrived, Keeping, Behind, NothingLost
<1>6. CASE At("phone")
  <2>1. eng.todo \in Seq(PhoneOrders) /\ Once(eng.todo)
    BY <1>6 DEF ControlsInv, Pressing, Popped, Lines
  <2>2. /\ Tail(eng.todo) \in Seq(PhoneOrders)
        /\ NoncesOf(eng.todo) = NoncesOf(Tail(eng.todo)) \union {n}
        /\ Once(Tail(eng.todo)) /\ n \notin NoncesOf(Tail(eng.todo))
    BY <1>3, <2>1, TailLine
  <2>3. Popped'
    BY <1>1, <1>3, <1>6, <2>2 DEF CommandDone, Popped, At, Up, ControlsInv,
       Pressing
  <2>4. /\ InHands = NoncesOf(eng.todo) /\ n \in InHands
        /\ InHands' \subseteq NoncesOf(Tail(eng.todo))
        /\ At("phone")' => Once(eng.todo)'
    BY <1>1, <1>6, <2>2 DEF CommandDone, InHands, At
  <2> HIDE DEF n
  <2>5. /\ n \in Waiting /\ Issued(n) /\ n \notin NoncesOf(queue.phone)
        /\ InHands' \subseteq InHands /\ n \notin InHands'
        /\ Waiting' \subseteq Waiting /\ n \notin Waiting'
    BY <1>3, <2>2, <2>4 DEF ControlsInv, Pressing, Lines, Waiting
  <2>6. Lines'
    <3>1. \A m \in Waiting' : Issued(m)' /\ m \notin past'.ran
      BY <1>3, <2>5 DEF ControlsInv, Pressing, Lines, Issued
    <3> QED BY <1>3, <2>4, <2>5, <3>1 DEF ControlsInv, Pressing, Lines
  <2>7. Asked'
    <3>1. \A p \in bot.pending :
            Issued(p.nonce)' /\ p.nonce \notin past'.ran \union Waiting'
      BY <1>3, <2>5 DEF ControlsInv, Pressing, Asked, Issued
    <3> QED BY <1>3, <3>1 DEF ControlsInv, Pressing, Asked
  <2>8. RanBefore'
    <3>1. \A m \in past'.ran : m = n \/ m \in past.ran
      BY <1>3
    <3>2. n.life <= eng.life
      <4>1. eng.life \in Nat /\ n.life = eng.life
        BY <2>5, BoundFacts DEF Issued, ControlsInv, Pressing, Typed, Engines
      <4> QED BY <4>1
    <3>3. n.id < bot.offset
      BY <2>5 DEF Issued
    <3> QED BY <1>3, <3>1, <3>2, <3>3 DEF ControlsInv, Pressing, RanBefore
  <2> QED BY <1>3, <1>4, <2>3, <2>6, <2>7, <2>8 DEF ControlsInv, Pressing,
             Arrived, Keeping, Behind, NothingLost
<1> QED BY <1>2, <1>5, <1>6

\* A pop takes a whole line in hand: what waits is what waited.
LEMMA PopsKeep ==
  ASSUME ControlsInv, PopWeb \/ PopPhone
  PROVE  ControlsInv'
<1>1. /\ queue \in Waits /\ eng \in Engines /\ eng.todo = <<>>
      /\ Up /\ ~At("phone")
  BY DEF ControlsInv, Pressing, Typed, Popped, PopWeb, PopPhone, Up, At
<1>2. UNCHANGED <<server, chat, bot, snap, disk, count, faults, past>>
  BY DEF PopWeb, PopPhone, Pops
<1>3. /\ queue.web \in Seq(WebOrders) /\ queue.phone \in Seq(PhoneOrders)
      /\ queue.web \in Seq(Orders) /\ queue.phone \in Seq(Orders)
      /\ <<>> \in Seq(WebOrders) /\ <<>> \in Seq(PhoneOrders)
  <2>1. WebOrders \subseteq Orders /\ PhoneOrders \subseteq Orders
    BY DEF WebOrders, PhoneOrders, Orders
  <2>2. queue.web \in Seq(WebOrders) /\ queue.phone \in Seq(PhoneOrders)
    BY <1>1 DEF Waits
  <2>3. queue.web \in Seq(Orders) /\ queue.phone \in Seq(Orders)
    BY <2>1, <2>2
  <2> QED BY <2>2, <2>3
<1>4. CASE PopWeb
  <2>1. /\ eng' = [eng EXCEPT !.at = "web", !.todo = queue.web]
        /\ queue' = [queue EXCEPT !.web = <<>>]
    BY <1>4 DEF PopWeb, Pops
  <2>2. /\ eng' \in Engines /\ eng'.at = "web" /\ eng'.todo = queue.web
        /\ eng'.life = eng.life
    BY <1>1, <1>3, <2>1 DEF Engines
  <2>3. queue' \in Waits /\ queue'.phone = queue.phone
    BY <1>1, <1>3, <2>1 DEF Waits
  <2>4. Typed'
    BY <1>2, <2>2, <2>3 DEF ControlsInv, Pressing, Typed
  <2>5. Popped' /\ Up' /\ InHands' = {} /\ InHands = {} /\ ~At("phone")'
        /\ Waiting' = Waiting
    BY <1>1, <1>3, <2>2, <2>3 DEF Popped, Up, At, InHands, Waiting
  <2>6. Lines' /\ Asked' /\ RanBefore'
    BY <1>1, <1>2, <2>2, <2>3, <2>5 DEF ControlsInv, Pressing, Lines, Asked,
       RanBefore, Issued
  <2> QED BY <1>2, <2>4, <2>5, <2>6 DEF ControlsInv, Pressing, Arrived,
             Keeping, Behind, NothingLost
<1>5. CASE PopPhone
  <2>1. /\ eng' = [eng EXCEPT !.at = "phone", !.todo = queue.phone]
        /\ queue' = [queue EXCEPT !.phone = <<>>]
    BY <1>5 DEF PopPhone, Pops
  <2>2. /\ eng' \in Engines /\ eng'.at = "phone" /\ eng'.todo = queue.phone
        /\ eng'.life = eng.life
    BY <1>1, <1>3, <2>1 DEF Engines
  <2>3. queue' \in Waits /\ queue'.phone = <<>>
    BY <1>1, <1>3, <2>1 DEF Waits
  <2>4. Typed'
    BY <1>2, <2>2, <2>3 DEF ControlsInv, Pressing, Typed
  <2>5. /\ Popped' /\ Up' /\ At("phone")' /\ InHands = {}
        /\ InHands' = NoncesOf(queue.phone)
        /\ NoncesOf(queue.phone)' = {} /\ Once(queue.phone)'
        /\ Waiting' = Waiting
    BY <1>1, <1>3, <2>2, <2>3, EmptyLine DEF Popped, Up, At, InHands,
       Waiting, NoncesOf, Once
  <2>6. Once(eng.todo)'
    BY <2>2 DEF ControlsInv, Pressing, Lines, Once
  <2>7. Lines' /\ Asked' /\ RanBefore'
    BY <1>1, <1>2, <2>2, <2>3, <2>5, <2>6 DEF ControlsInv, Pressing, Lines,
       Asked, RanBefore, Issued
  <2> QED BY <1>2, <2>4, <2>5, <2>7 DEF ControlsInv, Pressing, Arrived,
             Keeping, Behind, NothingLost
<1> QED BY <1>4, <1>5

\* Steps of the loop that run no command: nothing is in hand before or after.
LEMMA IdleKeeps ==
  ASSUME ControlsInv, Publish \/ Trade \/ RiskHalts \/ RollDay
  PROVE  ControlsInv'
<1>1. eng \in Engines /\ disk \in Disks /\ past \in Pasts /\ Up
      /\ eng.todo = <<>>
  BY DEF ControlsInv, Pressing, Typed, Popped, Publish, Trade, RiskHalts,
     RollDay, Up, At
<1>2. UNCHANGED <<server, chat, bot, queue>>
  BY DEF Publish, Trade, RiskHalts, RollDay
<1>3. /\ eng' \in Engines /\ eng'.at = "idle" /\ eng'.todo = <<>>
      /\ eng'.life = eng.life
  <2>1. CASE Publish
    BY <1>1, <2>1 DEF Publish, Engines
  <2>2. CASE Trade
    BY <1>1, <2>2 DEF Trade, Engines, At
  <2>3. CASE RiskHalts
    BY <1>1, <2>3 DEF RiskHalts, Engines, At
  <2>4. CASE RollDay
    BY <1>1, <2>4 DEF RollDay, At
  <2> QED BY <2>1, <2>2, <2>3, <2>4
<1>4. /\ past' \in Pasts /\ past'.ran = past.ran
      /\ past'.handled = past.handled
  <2>1. past' \in {past, [past EXCEPT !.halt = TRUE],
                   [past EXCEPT !.halt = eng.halted]}
    BY DEF Publish, Trade, RiskHalts, RollDay
  <2>2. eng.halted \in BOOLEAN
    BY <1>1 DEF Engines
  <2> QED BY <1>1, <2>1, <2>2 DEF Pasts
<1>5. disk' \in Disks
  <2>1. \/ disk' = disk
        \/ \E h \in BOOLEAN : disk' = [disk EXCEPT !.halted = h,
                                            !.override = eng.override]
    BY <1>1 DEF Publish, Trade, RiskHalts, RollDay, Engines
  <2>2. eng.override \in Pins
    BY <1>1 DEF Engines
  <2> QED BY <1>1, <2>1, <2>2 DEF Disks
<1>6. snap' \in [held : SUBSET Coins, halted : BOOLEAN]
  <2>1. snap' \in {snap, [held |-> eng.held, halted |-> eng.halted]}
    BY DEF Publish, Trade, RiskHalts, RollDay
  <2> QED BY <1>1, <2>1 DEF ControlsInv, Pressing, Typed, Engines
<1>7. /\ count' \in [sent : Nat, events : Nat] /\ count'.sent = count.sent
      /\ count'.sent + count'.events <= MaxInputs
  <2>1. /\ count = [sent |-> count.sent, events |-> count.events]
        /\ count.sent \in Nat /\ count.events \in Nat
        /\ count.sent + count.events <= MaxInputs
    BY DEF ControlsInv, Pressing, Typed
  <2>2. \/ count' = count
        \/ /\ count' = [count EXCEPT !.events = @ + 1]
           /\ count.sent + count.events < MaxInputs
    BY DEF Publish, Trade, RiskHalts, RollDay
  <2>3. \A a, b \in Nat : a + b < MaxInputs => a + (b + 1) <= MaxInputs
    BY BoundFacts
  <2>4. CASE count' = count
    BY <2>1, <2>4
  <2>5. CASE /\ count' = [count EXCEPT !.events = @ + 1]
             /\ count.sent + count.events < MaxInputs
    <3>1. count' = [sent |-> count.sent, events |-> count.events + 1]
      BY <2>1, <2>5
    <3>2. count.sent + (count.events + 1) <= MaxInputs
      BY <2>1, <2>3, <2>5
    <3> QED BY <2>1, <3>1, <3>2
  <2> QED BY <2>2, <2>4, <2>5
<1>8. Fault \/ Ok
  BY DEF Publish, Trade, RiskHalts, RollDay, Ok
<1>9. Typed'
  BY <1>2, <1>3, <1>4, <1>5, <1>6, <1>7, <1>8, FaultTyped DEF ControlsInv,
     Pressing, Typed
<1>10. /\ Popped' /\ Up' /\ InHands' = {} /\ InHands = {} /\ ~At("phone")'
       /\ Waiting' = Waiting
  BY <1>1, <1>2, <1>3, EmptyLine DEF Popped, Up, At, InHands, Waiting
<1>11. Lines' /\ Asked' /\ RanBefore'
  BY <1>1, <1>2, <1>3, <1>4, <1>10 DEF ControlsInv, Pressing, Lines, Asked,
     RanBefore, Issued
<1> QED BY <1>2, <1>4, <1>7, <1>9, <1>10, <1>11 DEF ControlsInv, Pressing,
           Arrived, Keeping, Behind, NothingLost

-------------------------------------------------------------------------------
(* The process.                                                            *)

\* Nothing that was asked or queued outlives the process; Telegram keeps
\* what was not handled.
LEMMA ProcessKeeps ==
  ASSUME ControlsInv, Exit \/ Crash \/ Start
  PROVE  ControlsInv'
<1>1. /\ Surfaces /\ UNCHANGED <<server, chat, count, past>>
      /\ Fault \/ Ok
  BY DEF Exit, Crash, Start, Dies, Ok
<1>2. eng \in Engines /\ disk \in Disks
  BY DEF ControlsInv, Pressing, Typed
<1>3. /\ eng' \in Engines /\ eng'.at \in {"down", "idle"}
      /\ eng'.todo = <<>>
      /\ \/ ~Up' /\ eng'.life = eng.life
         \/ eng'.life = eng.life + 1
  <2>1. ASSUME NEW exit \in {Nil, 0, 1, 75}, Dies(exit)
        PROVE  /\ eng' \in Engines /\ eng'.at = "down" /\ eng'.todo = <<>>
               /\ eng'.life = eng.life
    <3>1. <<>> \in Seq(Orders)
      OBVIOUS
    <3> QED BY <1>2, <2>1, <3>1 DEF Dies, Engines
  <2>2. CASE Exit \/ Crash
    <3>1. PICK exit \in {Nil, 0, 1, 75} : Dies(exit)
      BY <1>2, <2>2 DEF Exit, Crash, Engines
    <3> QED BY <2>1, <3>1 DEF Up, At
  <2>3. CASE Start
    <3>1. eng.todo = <<>> /\ eng.life + 1 \in 1 .. MaxLives
      BY <1>2, <2>3, BoundFacts DEF Start, ControlsInv, Pressing, Popped, At,
         Up, Engines
    <3>2. disk.override \in Pins /\ Loaded \in Settings
      BY <1>2 DEF Disks, Loaded, Settings
    <3>3. eng' = [eng EXCEPT !.at = "idle", !.halted = FALSE, !.exit = Nil,
                    !.override = disk.override, !.using = Loaded,
                    !.life = @ + 1]
      BY <2>3 DEF Start
    <3>4. eng' = [at |-> "idle", todo |-> <<>>, held |-> eng.held,
                  halted |-> FALSE, override |-> disk.override,
                  using |-> Loaded, exit |-> Nil, life |-> eng.life + 1]
      BY <1>2, <3>1, <3>3 DEF Engines
    <3>5. <<>> \in Seq(Orders) /\ eng.held \in SUBSET Coins
      BY <1>2 DEF Engines
    <3> QED BY <3>1, <3>2, <3>4, <3>5 DEF Engines
  <2> QED BY <2>2, <2>3
<1>4. disk' \in Disks
  <2>1. disk' = disk \/ disk' = [disk EXCEPT !.file = Default]
    BY DEF Exit, Crash, Start
  <2> QED BY <1>2, <2>1 DEF Disks, Settings
<1>5. /\ bot' = NewBot /\ queue' = NoQueue /\ snap' = Blank
      /\ bot' \in Bots /\ queue' \in Waits
      /\ snap' \in [held : SUBSET Coins, halted : BOOLEAN]
      /\ bot'.batch = {} /\ bot'.pending = {} /\ bot'.offset = 0
      /\ queue'.phone = <<>>
  <2>1. bot' = NewBot /\ queue' = NoQueue /\ snap' = Blank
    BY <1>1 DEF Surfaces
  <2>2. /\ NewBot \in Bots /\ NewBot.batch = {} /\ NewBot.pending = {}
        /\ NewBot.offset = 0
    BY BoundFacts DEF NewBot, Bots
  <2>3. NoQueue \in Waits /\ NoQueue.phone = <<>>
    BY DEF NoQueue, Waits
  <2>4. Blank \in [held : SUBSET Coins, halted : BOOLEAN]
    BY DEF Blank
  <2> QED BY <2>1, <2>2, <2>3, <2>4
<1>6. Typed'
  BY <1>1, <1>3, <1>4, <1>5, FaultTyped DEF ControlsInv, Pressing, Typed
<1>7. /\ Popped' /\ ~At("phone")' /\ InHands' = {} /\ Waiting' = {}
      /\ Once(queue.phone)'
  BY <1>3, <1>5, EmptyLine DEF Popped, Up, At, InHands, Waiting, NoncesOf,
     Once
<1>8. Lines' /\ Asked'
  BY <1>5, <1>7 DEF Lines, Asked
<1>9. RanBefore'
  <2>1. \A n \in past.ran \ {Nil} : n.life \in Nat /\ n.life <= eng.life
    BY BoundFacts DEF ControlsInv, Pressing, RanBefore, Typed, Pasts, Tickets
  <2>2. eng.life \in Nat
    BY <1>2, BoundFacts DEF Engines
  <2>3. CASE ~Up' /\ eng'.life = eng.life
    BY <1>1, <2>1, <2>3 DEF RanBefore
  <2>4. CASE eng'.life = eng.life + 1
    <3>1. \A n \in past.ran \ {Nil} :
            n.life <= eng'.life /\ n.life # eng'.life
      BY <2>1, <2>2, <2>4
    <3> QED BY <1>1, <3>1 DEF RanBefore
  <2> QED BY <1>3, <2>3, <2>4
<1>10. Arrived' /\ NothingLost'
  BY <1>1, <1>5 DEF ControlsInv, Pressing, Arrived, Keeping, NothingLost
<1>11. Behind'
  BY <1>1, <1>5, BoundFacts DEF Behind
<1> QED BY <1>6, <1>7, <1>8, <1>9, <1>10, <1>11 DEF ControlsInv, Pressing,
           Keeping

-------------------------------------------------------------------------------
(* The specification.                                                      *)

\* Nothing was sent, asked, queued or run.
LEMMA InitControls == Init => ControlsInv
<1> SUFFICES ASSUME Init PROVE ControlsInv
  OBVIOUS
<1>1. /\ NewBot \in Bots /\ NewBot.batch = {} /\ NewBot.pending = {}
      /\ NewBot.offset = 0
  BY BoundFacts DEF NewBot, Bots
<1>2. NoQueue \in Waits /\ NoQueue.phone = <<>>
  BY DEF NoQueue, Waits
<1>3. /\ NewEngine \in Engines /\ NewEngine.at = "idle"
      /\ NewEngine.todo = <<>>
  <2>1. /\ <<>> \in Seq(Orders) /\ Nil \in Pins /\ Default \in Settings
        /\ 1 \in 1 .. MaxLives
    BY BoundFacts DEF Pins, Settings
  <2> QED BY <2>1 DEF NewEngine, Engines
<1>4. NewState \in Disks
  BY DEF NewState, Disks, Pins, Settings
<1>5. Blank \in [held : SUBSET Coins, halted : BOOLEAN]
  BY DEF Blank
<1>6. /\ past \in Pasts /\ past.ran = {} /\ count.sent = 0
      /\ count \in [sent : Nat, events : Nat]
      /\ count.sent + count.events <= MaxInputs /\ faults \in 0 .. MaxFaults
  BY BoundFacts DEF Init, Pasts
<1>7. Typed
  BY <1>1, <1>2, <1>3, <1>4, <1>5, <1>6 DEF Init, Typed
<1>8. Popped /\ Lines /\ Asked /\ RanBefore
  BY <1>1, <1>2, <1>3, <1>6, EmptyLine DEF Init, Popped, Up, At, Lines, Asked,
     RanBefore, Waiting, InHands
<1>9. Arrived /\ Behind /\ NothingLost
  BY <1>1, <1>6, BoundFacts DEF Init, Arrived, Behind, NothingLost
<1> QED BY <1>7, <1>8, <1>9 DEF ControlsInv, Pressing, Keeping

\* Every step keeps what the surfaces and the queues hold.
LEMMA NextControls == ControlsInv /\ [Next]_vars => ControlsInv'
<1> SUFFICES ASSUME ControlsInv, [Next]_vars PROVE ControlsInv'
  OBVIOUS
<1>1. CASE UNCHANGED vars
  BY <1>1 DEF vars, ControlsInv, Pressing, Typed, Popped, Lines, Asked,
     RanBefore, Arrived, Keeping, Behind, NothingLost, At, Up, Waiting,
     InHands, Issued
<1>2. CASE Next
  BY <1>2, InputsKeep, ExpireKeeps, PollKeeps, BrokenKeeps, AskKeeps,
     ScanKeeps, CallbackKeeps, CommandsKeep, PopsKeep, IdleKeeps, ProcessKeeps
     DEF Next, Telegram, Loop
<1> QED BY <1>1, <1>2

\* What is pressed runs once: the surfaces, the queues and the history of
\* what ran agree (telegram_control.py, _ask and _handle_callback; engine.py,
\* process_commands), for every menu and any number of updates and lives.
THEOREM ControlsInvariant == Spec => []ControlsInv
BY InitControls, NextControls, PTL DEF Spec

\* The types of the run.
LEMMA ControlsTyped == ControlsInv => TypeOK
<1> SUFFICES ASSUME ControlsInv PROVE TypeOK
  OBVIOUS
<1>1. Typed /\ Popped
  BY DEF ControlsInv, Pressing
<1>2. server \subseteq Updates /\ bot \in Bots /\ bot.batch \subseteq server
  BY <1>1 DEF Typed
<1>3. bot.offset \in 0 .. MaxInputs + 1
  BY <1>2 DEF Bots
<1>4. /\ eng.at \in {"idle", "web", "phone", "down"}
      /\ eng.held \subseteq Coins /\ eng.halted \in BOOLEAN
      /\ eng.override \in Routed \union {Nil} /\ eng.using \in Settings
  BY <1>1 DEF Typed, Engines, Pins
<1>5. disk.file \in Settings
  BY <1>1 DEF Typed, Disks
<1>6. count.sent + count.events \in 0 .. MaxInputs
  <2>1. count.sent \in Nat /\ count.events \in Nat
        /\ count.sent + count.events <= MaxInputs /\ MaxInputs \in Nat
    BY <1>1, BoundFacts DEF Typed
  <2> QED BY <2>1
<1>7. /\ At("idle") => eng.todo = <<>>
      /\ ~Up => bot = NewBot /\ queue = NoQueue
  BY <1>1 DEF Popped, At
<1>8. faults \in 0 .. MaxFaults
  BY <1>1 DEF Typed
<1> QED BY <1>2, <1>3, <1>4, <1>5, <1>6, <1>7, <1>8 DEF TypeOK, Updates,
           Tickets, Settings

\* The values the control surfaces take (telegram_control.py, engine.py).
THEOREM ControlsTypes == Spec => []TypeOK
BY ControlsInvariant, ControlsTyped, PTL

\* The line of the presses that wait, in hand or queued.
LEMMA LineOnce ==
  ASSUME NEW S, NEW s \in Seq(S), NEW t \in Seq(S), Once(s), Once(t),
         NoncesOf(s) \intersect NoncesOf(t) = {}
  PROVE  Once(s \o t) /\ \A i \in DOMAIN (s \o t) :
           (s \o t)[i] \in S
             /\ (s \o t)[i].nonce \in NoncesOf(s) \union NoncesOf(t)
<1>1. /\ Len(s) \in Nat /\ Len(t) \in Nat
      /\ DOMAIN s = 1 .. Len(s) /\ DOMAIN t = 1 .. Len(t)
      /\ DOMAIN (s \o t) = 1 .. Len(s) + Len(t)
  OBVIOUS
<1>2. \A i \in 1 .. Len(s) : (s \o t)[i] = s[i]
  BY <1>1
<1>3. \A i \in 1 .. Len(s) + Len(t) :
        i \notin 1 .. Len(s) =>
          i - Len(s) \in 1 .. Len(t) /\ (s \o t)[i] = t[i - Len(s)]
  BY <1>1
<1>4. \A i \in DOMAIN (s \o t) :
        \/ i \in 1 .. Len(s) /\ (s \o t)[i] = s[i]
           /\ (s \o t)[i].nonce \in NoncesOf(s)
        \/ /\ i - Len(s) \in 1 .. Len(t) /\ (s \o t)[i] = t[i - Len(s)]
           /\ (s \o t)[i].nonce \in NoncesOf(t)
  BY <1>1, <1>2, <1>3 DEF NoncesOf
<1>5. \A i, j \in DOMAIN (s \o t) :
        (s \o t)[i].nonce = (s \o t)[j].nonce => i = j
  BY <1>1, <1>4 DEF Once
<1> QED BY <1>1, <1>4, <1>5 DEF Once

\* What the invariant says of the presses in line.
LEMMA ControlsPressed == ControlsInv => PressedOnce
<1> SUFFICES ASSUME ControlsInv PROVE PressedOnce
  OBVIOUS
<1> DEFINE s == IF At("phone") THEN eng.todo ELSE <<>>
           t == queue.phone
<1>1. /\ s \in Seq(PhoneOrders) /\ t \in Seq(PhoneOrders)
      /\ Once(s) /\ Once(t) /\ NoncesOf(s) = InHands
      /\ NoncesOf(s) \intersect NoncesOf(t) = {}
  <2>1. t \in Seq(PhoneOrders)
    BY DEF ControlsInv, Pressing, Typed, Waits
  <2>2. s \in Seq(PhoneOrders) /\ Once(s) /\ NoncesOf(s) = InHands
    <3>1. CASE At("phone")
      BY <3>1 DEF ControlsInv, Pressing, Popped, Lines, InHands
    <3>2. CASE ~At("phone")
      BY <3>2, EmptyLine DEF InHands
    <3> QED BY <3>1, <3>2
  <2> HIDE DEF s
  <2>3. Once(t) /\ NoncesOf(s) \intersect NoncesOf(t) = {}
    BY <2>2 DEF ControlsInv, Pressing, Lines
  <2> QED BY <2>1, <2>2, <2>3
<1>2. NoncesOf(s) \union NoncesOf(t) = Waiting
  BY <1>1 DEF Waiting
<1>3. PressedOnce <=> \A i \in DOMAIN (s \o t) :
        /\ ~(s \o t)[i].late /\ (s \o t)[i].nonce \notin past.ran
        /\ (s \o t)[i].nonce.life = eng.life
        /\ \A j \in DOMAIN (s \o t) :
             (s \o t)[i].nonce = (s \o t)[j].nonce => i = j
  BY DEF PressedOnce
<1> HIDE DEF s, t
<1>4. /\ Once(s \o t)
      /\ \A i \in DOMAIN (s \o t) :
           (s \o t)[i] \in PhoneOrders /\ (s \o t)[i].nonce \in Waiting
  BY <1>1, <1>2, LineOnce
<1>5. \A n \in Waiting : n.life = eng.life /\ n \notin past.ran
  BY DEF ControlsInv, Pressing, Lines, Issued
<1>6. \A i \in DOMAIN (s \o t) : ~(s \o t)[i].late
  BY <1>4 DEF PhoneOrders
<1> QED BY <1>3, <1>4, <1>5, <1>6 DEF Once

\* A confirmation is worth one execution, whatever Telegram delivers again
\* and however often the process dies (telegram_control.py, _ask and
\* _handle_callback; engine.py, process_commands).
THEOREM PressesRunOnce == Spec => []PressedOnce
BY ControlsInvariant, ControlsPressed, PTL

\* Telegram forgets an update only when it has been handled
\* (telegram_control.py, _get_updates and _handle).
THEOREM UpdatesAreKept == Spec => []NothingLost
<1>1. ControlsInv => NothingLost
  BY DEF ControlsInv, Keeping
<1> QED BY <1>1, ControlsInvariant, PTL

-------------------------------------------------------------------------------
(* The confirmation.  A question is new, open, due or run, and a step of   *)
(* the bot is a step of module Confirmation or none of its business: the   *)
(* mapping reads the offset and the number of the process for what is      *)
(* spent, and the invariant above for the rest.                            *)

Mapped == Promise!Next \/ UNCHANGED Promise!vars

\* What ran, without what the dashboard asked for.
PressesRun == past.ran \ {Nil}

\* A step that leaves every place of a question alone.
LEMMA Unmoved ==
  ASSUME Spent' = Spent, Answerable' = Answerable, Waiting' = Waiting,
         PressesRun' = PressesRun
  PROVE  Mapped
BY DEF Mapped, Promise!vars, PressesRun

\* A step that forgets questions, or spends what was never asked.
LEMMA Forgotten ==
  ASSUME Spent \subseteq Spent', Answerable' \subseteq Answerable,
         Waiting' \subseteq Waiting, PressesRun' = PressesRun
  PROVE  Mapped
BY DEF Mapped, Promise!Next, Promise!Forget, PressesRun

\* What is spent depends on the process and on the offset.
LEMMA SpentStays ==
  ASSUME bot'.offset = bot.offset, eng'.life = eng.life, Up' = Up
  PROVE  Spent' = Spent
BY DEF Spent

\* Nothing that is spent is asked again when the offset moves on.
LEMMA OffsetSpends ==
  ASSUME ControlsInv, Up, Up', eng'.life = eng.life,
         bot'.offset \in Nat, bot.offset <= bot'.offset
  PROVE  Spent \subseteq Spent'
<1>1. bot.offset \in Nat /\ \A n \in Tickets : n.id \in Nat
  BY DEF Tickets, ControlsInv, Pressing, Typed, Bots
<1> QED BY <1>1 DEF Spent

\* The line in hand depends on the engine.
LEMMA HandsStay ==
  ASSUME eng'.at = eng.at, eng'.todo = eng.todo, queue'.phone = queue.phone
  PROVE  Waiting' = Waiting
BY DEF Waiting, InHands, At

\* The operator, Telegram and the dashboard ask nothing.
LEMMA InputsMap ==
  ASSUME ControlsInv, Say \/ Press \/ Post
  PROVE  Mapped
<1>1. UNCHANGED <<bot, eng, past>>
  BY DEF Say, Press, Post, Receive
<1>2. queue'.phone = queue.phone
  BY DEF Say, Press, Post, Receive, ControlsInv, Pressing, Typed, Waits
<1>3. Waiting' = Waiting
  BY <1>1, <1>2, HandsStay
<1>4. Spent' = Spent
  BY <1>1, SpentStays DEF Up, At
<1> QED BY <1>1, <1>3, <1>4, Unmoved DEF Answerable, PressesRun

\* A question that expires cannot be answered any more.
LEMMA ExpireMaps ==
  ASSUME ControlsInv, Expire
  PROVE  Mapped
<1>1. PICK q \in bot.pending :
        bot' = [bot EXCEPT !.pending = {[p EXCEPT !.expired =
                  @ \/ p.nonce.id <= q.nonce.id] : p \in bot.pending}]
  BY DEF Expire
<1>2. UNCHANGED <<queue, eng, past>>
  BY DEF Expire
<1>3. bot \in Bots /\ \A p \in bot.pending : p \in Questions
  BY DEF ControlsInv, Pressing, Typed, Bots
<1> DEFINE old(p) == [p EXCEPT !.expired = @ \/ p.nonce.id <= q.nonce.id]
<1>4. \A p \in bot.pending :
        old(p).nonce = p.nonce /\ (~old(p).expired => ~p.expired)
  BY <1>3 DEF Questions
<1>5. bot'.offset = bot.offset /\ bot'.pending = {old(p) : p \in bot.pending}
  BY <1>1, <1>3 DEF Bots
<1> HIDE DEF old
<1>6. Answerable' \subseteq Answerable
  BY <1>4, <1>5 DEF Answerable
<1>7. Spent' = Spent /\ Waiting' = Waiting
  BY <1>2, <1>5, SpentStays, HandsStay DEF Up, At
<1> QED BY <1>2, <1>6, <1>7, Forgotten DEF PressesRun

\* A batch taken from Telegram has not been looked at.
LEMMA PollMaps ==
  ASSUME ControlsInv, Poll
  PROVE  Mapped
<1>1. UNCHANGED <<queue, eng, past>>
  BY DEF Poll
<1>2. bot'.offset = bot.offset /\ bot'.pending = bot.pending
  BY DEF Poll, ControlsInv, Pressing, Typed, Bots
<1>3. Spent' = Spent /\ Waiting' = Waiting
  BY <1>1, <1>2, SpentStays, HandsStay DEF Up, At
<1> QED BY <1>1, <1>2, <1>3, Unmoved DEF Answerable, PressesRun

\* An update that was looked at is behind the offset.
LEMMA HandledSpends ==
  ASSUME ControlsInv, NEW u, InHand(u), Up,
         NEW pending \in SUBSET Questions,
         NEW batch, batch \in {{}, bot.batch \ {u}},
         bot' = [offset |-> IF bot.offset > u.id THEN bot.offset
                            ELSE u.id + 1,
                 batch |-> batch, pending |-> pending],
         past' = [past EXCEPT !.handled = @ \union {u.id}],
         UNCHANGED <<server, snap, eng, disk, count>>
  PROVE  /\ Spent \subseteq Spent' /\ PressesRun' = PressesRun
         /\ InHands' = InHands /\ bot'.pending = pending
         /\ bot'.offset = u.id + 1 /\ u.id \in 1 .. MaxInputs
         /\ u \in Updates /\ bot.offset <= u.id /\ Up'
<1>1. /\ u \in Updates /\ u.id \in 1 .. MaxInputs
      /\ bot'.offset = u.id + 1 /\ bot.offset <= u.id
      /\ bot'.pending = pending /\ past'.ran = past.ran
  BY HandledKeeps
<1>2. bot.offset \in Nat
  BY DEF ControlsInv, Pressing, Typed, Bots
<1>3. Up' /\ eng'.life = eng.life /\ InHands' = InHands
  BY DEF Up, At, InHands
<1>4. bot'.offset \in Nat /\ bot.offset <= bot'.offset
  BY <1>1, <1>2
<1>5. Spent \subseteq Spent'
  BY <1>3, <1>4, OffsetSpends
<1> QED BY <1>1, <1>3, <1>5 DEF PressesRun

\* A handler that raised asked nothing.
LEMMA BrokenMaps ==
  ASSUME ControlsInv, Broken
  PROVE  Mapped
<1>1. PICK u \in bot.batch :
        /\ InHand(u)
        /\ bot' = [bot EXCEPT !.batch = {},
                     !.offset = IF @ > u.id THEN @ ELSE u.id + 1]
        /\ past' = [past EXCEPT !.handled = @ \union {u.id}]
  BY DEF Broken
<1>2. UNCHANGED <<server, chat, queue, snap, eng, disk, count>> /\ Up
  BY DEF Broken
<1>3. bot \in Bots /\ bot.pending \in SUBSET Questions
  BY DEF ControlsInv, Pressing, Typed, Bots
<1>4. bot' = [offset |-> IF bot.offset > u.id THEN bot.offset ELSE u.id + 1,
              batch |-> {}, pending |-> bot.pending]
  BY <1>1, <1>3 DEF Bots
<1>5. /\ Spent \subseteq Spent' /\ PressesRun' = PressesRun
      /\ InHands' = InHands /\ bot'.pending = bot.pending
  BY <1>1, <1>2, <1>3, <1>4, HandledSpends
<1> QED BY <1>2, <1>5, Forgotten DEF Answerable, Waiting

\* A question that is asked was never asked before.
LEMMA AskMaps ==
  ASSUME ControlsInv, Ask
  PROVE  Mapped
<1>1. PICK u, pending :
        /\ u \in bot.batch /\ UNCHANGED queue /\ Handles(u, pending)
        /\ \/ pending = bot.pending
           \/ pending = Swept(bot.pending) \union
                {[nonce |-> Nonce(u), cmd |-> Means(u.cmd),
                  expired |-> FALSE]}
  BY DEF Ask
<1>q. PICK r : r = [nonce |-> Nonce(u), cmd |-> Means(u.cmd),
                    expired |-> FALSE]
  OBVIOUS
<1>2. /\ Up /\ InHand(u)
      /\ bot' = [offset |-> IF bot.offset > u.id THEN bot.offset
                            ELSE u.id + 1,
                 batch |-> bot.batch \ {u}, pending |-> pending]
      /\ past' = [past EXCEPT !.handled = @ \union {u.id}]
      /\ UNCHANGED <<server, snap, eng, disk, count>>
  BY <1>1 DEF Handles
<1>3. u \in Updates /\ bot.offset <= u.id /\ bot.pending \in SUBSET Questions
  BY <1>1 DEF ControlsInv, Pressing, Typed, Bots, Arrived
<1>4. /\ Nonce(u) \in Tickets /\ Nonce(u).id = u.id
      /\ Nonce(u).life = eng.life
  BY <1>2, <1>3, FreshNonce
<1>5. u.cmd \in Menu /\ Means(u.cmd) \in Menu
  BY <1>3, MeansInMenu DEF Updates
<1>6. r \in Questions /\ r.nonce = Nonce(u)
  BY <1>q, <1>4, <1>5 DEF Questions
<1>7. pending \in SUBSET Questions
  BY <1>q, <1>1, <1>3, <1>6, Sweeping
<1>8. /\ Spent \subseteq Spent' /\ PressesRun' = PressesRun
      /\ InHands' = InHands /\ bot'.pending = pending
      /\ bot'.offset = u.id + 1 /\ u.id \in 1 .. MaxInputs /\ Up'
  BY <1>2, <1>7, HandledSpends
<1>9. Waiting' = Waiting
  BY <1>1, <1>8 DEF Waiting
<1>10. CASE pending = bot.pending
  BY <1>8, <1>9, <1>10, Forgotten DEF Answerable
<1>11. CASE pending = Swept(bot.pending) \union {r}
  <2>1. Nonce(u) \notin Spent
    BY <1>2, <1>3, <1>4, <1>8 DEF Spent, ControlsInv, Pressing, Typed,
       Engines, Bots
  <2>2. Nonce(u) \in Spent'
    BY <1>2, <1>4, <1>8 DEF Spent
  <2>3. Answerable' \subseteq Answerable \union {Nonce(u)}
    BY <1>6, <1>8, <1>11 DEF Answerable, Swept
  <2>4. Promise!Ask
    BY <1>4, <1>8, <1>9, <2>1, <2>2, <2>3
    DEF Promise!Ask, Promise!New, Promise!Spends, PressesRun
  <2> QED BY <2>4 DEF Mapped, Promise!Next
<1> QED BY <1>q, <1>1, <1>10, <1>11

\* A command added to the line of the telegram thread.
LEMMA QueuedIsDue ==
  ASSUME ControlsInv, NEW c \in Menu, NEW n \in Tickets,
         Queues(c, n, FALSE), InHands' = InHands
  PROVE  Waiting' = Waiting \union {n}
<1> DEFINE x == [cmd |-> c, nonce |-> n, late |-> FALSE]
<1>1. x \in PhoneOrders /\ x.nonce = n
  BY DEF PhoneOrders
<1>2. queue.phone \in Seq(PhoneOrders)
  BY DEF ControlsInv, Pressing, Typed, Waits
<1>3. queue'.phone = Append(queue.phone, x)
  BY DEF Queues, ControlsInv, Pressing, Typed, Waits
<1> HIDE DEF x
<1>4. NoncesOf(queue'.phone) = NoncesOf(queue.phone) \union {n}
  BY <1>1, <1>2, <1>3, AppendLine
<1> QED BY <1>4 DEF Waiting

\* /scan is due without an answer.
LEMMA ScanMaps ==
  ASSUME ControlsInv, Scan
  PROVE  Mapped
<1>1. PICK u \in bot.batch :
        Handles(u, bot.pending) /\ Queues(u.cmd, Nonce(u), FALSE)
  BY DEF Scan
<1>2. /\ Up /\ InHand(u)
      /\ bot' = [offset |-> IF bot.offset > u.id THEN bot.offset
                            ELSE u.id + 1,
                 batch |-> bot.batch \ {u}, pending |-> bot.pending]
      /\ past' = [past EXCEPT !.handled = @ \union {u.id}]
      /\ UNCHANGED <<server, snap, eng, disk, count>>
  BY <1>1 DEF Handles
<1>3. bot.pending \in SUBSET Questions
  BY DEF ControlsInv, Pressing, Typed, Bots
<1>4. /\ Spent \subseteq Spent' /\ PressesRun' = PressesRun
      /\ InHands' = InHands /\ bot'.pending = bot.pending
      /\ bot'.offset = u.id + 1 /\ u.id \in 1 .. MaxInputs
      /\ u \in Updates /\ bot.offset <= u.id /\ Up'
  BY <1>2, <1>3, HandledSpends
<1>5. /\ Nonce(u) \in Tickets /\ Nonce(u).id = u.id
      /\ Nonce(u).life = eng.life
  BY <1>2, <1>4, FreshNonce
<1>6. Waiting' = Waiting \union {Nonce(u)}
  BY <1>1, <1>4, <1>5, QueuedIsDue DEF Updates
<1>7. Nonce(u) \notin Spent
  BY <1>2, <1>4, <1>5 DEF Spent, ControlsInv, Pressing, Typed, Engines, Bots
<1>8. Nonce(u) \in Spent'
  BY <1>2, <1>4, <1>5 DEF Spent
<1>9. Promise!Order
  BY <1>4, <1>5, <1>6, <1>7, <1>8
  DEF Promise!Order, Promise!New, Promise!Spends, PressesRun, Answerable
<1> QED BY <1>9 DEF Mapped, Promise!Next

\* An answer makes due what is open, or nothing.
LEMMA CallbackMaps ==
  ASSUME ControlsInv, Callback
  PROVE  Mapped
<1>1. PICK u \in bot.batch :
        LET asked == {p \in bot.pending : p.nonce = u.nonce}
            valid == u.kind = "yes" /\ \E p \in asked : ~p.expired
        IN  /\ u.kind \in {"yes", "no"} /\ UNCHANGED <<chat, faults>>
            /\ Handles(u, Swept(bot.pending \ asked))
            /\ \/ valid /\ \E p \in asked : Queues(u.cmd, u.nonce, p.expired)
               \/ ~valid /\ UNCHANGED queue
  BY DEF Callback
<1> DEFINE asked == {p \in bot.pending : p.nonce = u.nonce}
           pending == Swept(bot.pending \ asked)
<1>2. /\ Handles(u, pending) /\ pending \in SUBSET bot.pending
      /\ pending \in SUBSET Questions
      /\ \A p \in pending : p.nonce # u.nonce
  BY <1>1, Sweeping DEF Swept
<1>3. u.cmd \in Menu
  BY DEF ControlsInv, Pressing, Typed, Updates
<1>v. CASE \E p \in asked : ~p.expired /\ \E r \in asked :
                             Queues(u.cmd, u.nonce, r.expired)
  <2>1. PICK p \in asked : ~p.expired /\ \E r \in asked :
                             Queues(u.cmd, u.nonce, r.expired)
    BY <1>v
  <2>2. PICK r \in asked : Queues(u.cmd, u.nonce, r.expired)
    BY <2>1
  <2>3. r = p /\ p \in bot.pending /\ p.nonce = u.nonce
    BY DEF ControlsInv, Pressing, Asked
  <2>4. p.expired = FALSE
    BY <2>1, <2>3 DEF ControlsInv, Pressing, Typed, Bots, Questions
  <2>5. Queues(u.cmd, u.nonce, FALSE)
    BY <2>2, <2>3, <2>4
  <2>6. u.nonce \in Tickets /\ u.nonce \in Answerable
    BY <2>3, <2>4 DEF ControlsInv, Pressing, Asked, Issued, Answerable
  <2> HIDE DEF pending, asked
  <2>7. /\ Up /\ InHand(u)
        /\ bot' = [offset |-> IF bot.offset > u.id THEN bot.offset
                              ELSE u.id + 1,
                   batch |-> bot.batch \ {u}, pending |-> pending]
        /\ past' = [past EXCEPT !.handled = @ \union {u.id}]
        /\ UNCHANGED <<server, snap, eng, disk, count>>
    BY <1>2 DEF Handles
  <2>8. /\ Spent \subseteq Spent' /\ PressesRun' = PressesRun
        /\ InHands' = InHands /\ bot'.pending = pending
    BY <1>2, <2>7, HandledSpends
  <2>9. Waiting' = Waiting \union {u.nonce}
    BY <1>3, <2>5, <2>6, <2>8, QueuedIsDue
  <2>10. Answerable' \subseteq Answerable \ {u.nonce}
    BY <1>2, <2>8 DEF Answerable
  <2>11. Promise!Confirm
    BY <2>6, <2>8, <2>9, <2>10 DEF Promise!Confirm, PressesRun
  <2> QED BY <2>11 DEF Mapped, Promise!Next
<1>n. CASE UNCHANGED queue
  <2> HIDE DEF pending, asked
  <2>1. /\ Up /\ InHand(u)
        /\ bot' = [offset |-> IF bot.offset > u.id THEN bot.offset
                              ELSE u.id + 1,
                   batch |-> bot.batch \ {u}, pending |-> pending]
        /\ past' = [past EXCEPT !.handled = @ \union {u.id}]
        /\ UNCHANGED <<server, snap, eng, disk, count>>
    BY <1>2 DEF Handles
  <2>2. /\ Spent \subseteq Spent' /\ PressesRun' = PressesRun
        /\ InHands' = InHands /\ bot'.pending = pending
    BY <1>2, <2>1, HandledSpends
  <2>3. Answerable' \subseteq Answerable /\ Waiting' = Waiting
    BY <1>2, <1>n, <2>2 DEF Answerable, Waiting
  <2> QED BY <2>2, <2>3, Forgotten
<1> QED BY <1>1, <1>v, <1>n

\* What runs was due, and is no longer.
LEMMA CommandsMap ==
  ASSUME ControlsInv, Commands
  PROVE  Mapped
<1>1. CommandDone
  BY EveryCommand DEF ControlsInv, Pressing
<1> DEFINE n == Head(eng.todo).nonce
<1>2. /\ eng.todo # <<>> /\ past'.ran = past.ran \union {n}
      /\ UNCHANGED <<server, chat, bot, queue, snap, count>>
      /\ eng'.life = eng.life /\ Up
      /\ \/ eng'.todo = Tail(eng.todo) /\ eng'.at = eng.at
         \/ eng'.todo = <<>> /\ eng'.at = "idle"
  BY <1>1 DEF CommandDone
<1>3. Up' /\ Spent' = Spent /\ Answerable' = Answerable
  <2>1. Up'
    BY <1>2 DEF Up, At
  <2> QED BY <1>2, <2>1, SpentStays DEF Answerable
<1>4. CASE At("web")
  <2>1. eng.todo \in Seq(WebOrders)
    BY <1>4 DEF ControlsInv, Pressing, Popped
  <2>2. Head(eng.todo) \in WebOrders
    BY <1>2, <2>1, TailLine
  <2>3. n = Nil
    BY <2>2 DEF WebOrders
  <2>4. InHands' = {} /\ InHands = {}
    BY <1>2, <1>4 DEF InHands, At
  <2> HIDE DEF n
  <2> QED BY <1>2, <1>3, <2>3, <2>4, Unmoved DEF Waiting, PressesRun
<1>5. CASE At("phone")
  <2>1. /\ eng.todo \in Seq(PhoneOrders) /\ Once(eng.todo)
        /\ InHands \intersect NoncesOf(queue.phone) = {}
    BY <1>5 DEF ControlsInv, Pressing, Popped, Lines
  <2>2. /\ Head(eng.todo) \in PhoneOrders
        /\ NoncesOf(eng.todo) = NoncesOf(Tail(eng.todo)) \union {n}
        /\ n \notin NoncesOf(Tail(eng.todo))
    BY <1>2, <2>1, TailLine
  <2>3. n \in Tickets /\ n # Nil
    BY <2>2, NilIsNoTicket DEF PhoneOrders
  <2>4. InHands = NoncesOf(eng.todo)
    BY <1>5 DEF InHands
  <2>5. InHands' \subseteq NoncesOf(Tail(eng.todo))
    <3>1. CASE eng'.todo = Tail(eng.todo) /\ eng'.at = eng.at
      BY <3>1, <1>5 DEF InHands, At
    <3>2. CASE eng'.at = "idle"
      BY <3>2 DEF InHands, At
    <3> QED BY <1>2, <3>1, <3>2
  <2> HIDE DEF n
  <2>6. n \in Waiting /\ Waiting' \subseteq Waiting \ {n}
    BY <1>2, <2>1, <2>2, <2>4, <2>5 DEF Waiting
  <2>7. PressesRun' = PressesRun \union {n}
    BY <1>2, <2>3 DEF PressesRun
  <2>8. Promise!Run
    BY <1>3, <2>6, <2>7 DEF Promise!Run, PressesRun
  <2> QED BY <2>8 DEF Mapped, Promise!Next
<1>6. At("web") \/ At("phone")
  BY <1>2 DEF ControlsInv, Pressing, Popped
<1> QED BY <1>4, <1>5, <1>6

\* The rest of an iteration of the loop moves lines, and no question.
LEMMA LoopMaps ==
  ASSUME ControlsInv,
         PopWeb \/ PopPhone \/ Publish \/ Trade \/ RiskHalts \/ RollDay
  PROVE  Mapped
<1>t. eng \in Engines /\ past \in Pasts
  BY DEF ControlsInv, Pressing, Typed
<1>u. /\ UNCHANGED bot /\ eng.todo = <<>>
      /\ Up
  BY DEF PopWeb, PopPhone, Pops, Publish, Trade, RiskHalts, RollDay,
     ControlsInv, Pressing, Popped, Up, At
<1>r. past'.ran = past.ran
  <2>1. past' \in {past, [past EXCEPT !.halt = TRUE],
                   [past EXCEPT !.halt = eng.halted]}
    BY DEF PopWeb, PopPhone, Pops, Publish, Trade, RiskHalts, RollDay
  <2> QED BY <1>t, <2>1 DEF Pasts
<1>l. eng'.life = eng.life /\ eng'.at # "down"
  <2>1. CASE PopWeb \/ PopPhone
    BY <1>t, <2>1 DEF PopWeb, PopPhone, Pops, Engines
  <2>2. CASE Publish \/ Trade \/ RiskHalts \/ RollDay
    BY <1>t, <2>2 DEF Publish, Trade, RiskHalts, RollDay, Engines, At
  <2> QED BY <2>1, <2>2
<1>1. /\ UNCHANGED bot /\ past'.ran = past.ran /\ eng.todo = <<>>
      /\ eng'.life = eng.life /\ Up /\ eng'.at # "down"
  BY <1>u, <1>r, <1>l
<1>2. Spent' = Spent /\ Answerable' = Answerable /\ PressesRun' = PressesRun
  BY <1>1, SpentStays DEF Up, At, Answerable, PressesRun
<1>3. InHands = {}
  BY <1>1, EmptyLine DEF InHands
<1>4. CASE PopPhone
  <2>1. /\ queue' = [queue EXCEPT !["phone"] = <<>>]
        /\ eng'.at = "phone" /\ eng'.todo = queue.phone
    BY <1>4 DEF PopPhone, Pops, ControlsInv, Pressing, Typed, Engines
  <2>2. queue'.phone = <<>>
    BY <2>1 DEF ControlsInv, Pressing, Typed, Waits
  <2>3. Waiting' = Waiting
    BY <1>3, <2>1, <2>2, EmptyLine DEF Waiting, InHands, At
  <2> QED BY <1>2, <2>3, Unmoved
<1>5. CASE ~PopPhone
  <2>1. queue'.phone = queue.phone
    BY <1>5 DEF PopWeb, Pops, Publish, Trade, RiskHalts, RollDay,
       ControlsInv, Pressing, Typed, Waits
  <2>2. eng'.at # "phone" \/ eng'.todo = <<>>
    BY <1>1, <1>5 DEF PopWeb, Pops, Publish, Trade, RiskHalts, RollDay,
       ControlsInv, Pressing, Typed, Engines, At
  <2>3. InHands' = {}
    BY <2>2, EmptyLine DEF InHands, At
  <2> QED BY <1>2, <1>3, <2>1, <2>3, Unmoved DEF Waiting
<1> QED BY <1>4, <1>5

\* With the process everything is forgotten, and stays spent.
LEMMA ProcessMaps ==
  ASSUME ControlsInv, Exit \/ Crash \/ Start
  PROVE  Mapped
<1>1. /\ bot' = NewBot /\ queue' = NoQueue /\ past' = past
  BY DEF Exit, Crash, Start, Dies, Surfaces
<1>2. Answerable' = {} /\ NoncesOf(queue'.phone) = {}
  BY <1>1, EmptyLine DEF NewBot, NoQueue, Answerable
<1>3. ~At("phone")'
  BY DEF Exit, Crash, Start, Dies, At, ControlsInv, Pressing, Typed, Engines
<1>4. Waiting' = {}
  BY <1>2, <1>3 DEF Waiting, InHands
<1>5. Spent \subseteq Spent'
  <2>1. eng.life \in Nat /\ \A n \in Tickets : n.life \in Nat
    BY BoundFacts DEF Tickets, ControlsInv, Pressing, Typed, Engines
  <2>2. CASE Exit \/ Crash
    <3>1. \E exit : eng' = [eng EXCEPT !.at = "down", !.todo = <<>>,
                                      !.exit = exit]
      BY <2>2 DEF Exit, Crash, Dies
    <3>2. eng \in Engines
      BY DEF ControlsInv, Pressing, Typed
    <3>3. eng'.at = "down" /\ eng'.life = eng.life
      BY <3>1, <3>2 DEF Engines
    <3>4. ~Up'
      BY <3>3 DEF Up, At
    <3> QED BY <3>3, <3>4 DEF Spent
  <2>3. CASE Start
    <3>1. eng'.life = eng.life + 1
      BY <2>3 DEF Start, ControlsInv, Pressing, Typed, Engines
    <3> QED BY <2>1, <3>1 DEF Spent
  <2> QED BY <2>2, <2>3
<1> QED BY <1>1, <1>2, <1>4, <1>5, Forgotten DEF PressesRun

\* Initially nothing was asked.
LEMMA InitMaps ==
  ASSUME Init
  PROVE  Promise!Init
<1>1. Spent = {}
  <2>1. /\ eng.life = 1 /\ bot.offset = 0 /\ Up
    BY DEF Init, NewEngine, NewBot, Up, At
  <2>2. \A n \in Tickets : ~(n.life < 1) /\ ~(n.id < 0)
    BY BoundFacts DEF Tickets
  <2> QED BY <2>1, <2>2 DEF Spent
<1>2. Answerable = {} /\ Waiting = {} /\ past.ran = {}
  BY EmptyLine DEF Init, NewEngine, NewBot, NoQueue, Answerable, Waiting,
     InHands, At
<1> QED BY <1>1, <1>2 DEF Promise!Init

\* The telegram thread, the queue and the engine implement the confirmation
\* (telegram_control.py, _ask, _callback and _sweep_pending; engine.py,
\* process_commands): what runs was asked in this process, was answered before
\* it expired and does not run again, for every value of the constants.
THEOREM ConfirmationHolds == Spec => QuestionsRunOnce
<1>1. Init => Promise!Init
  BY InitMaps
<1>2. ControlsInv /\ [Next]_vars => [Promise!Next]_(Promise!vars)
  <2> SUFFICES ASSUME ControlsInv, [Next]_vars
               PROVE  Mapped
    BY DEF Mapped
  <2>1. CASE UNCHANGED vars
    <3>1. Spent' = Spent
      BY <2>1, SpentStays DEF vars, Up, At
    <3>2. Waiting' = Waiting
      BY <2>1, HandsStay DEF vars
    <3> QED BY <2>1, <3>1, <3>2, Unmoved DEF vars, Answerable, PressesRun
  <2>2. CASE Next
    BY <2>2, InputsMap, ExpireMaps, PollMaps, BrokenMaps, AskMaps, ScanMaps,
       CallbackMaps, CommandsMap, LoopMaps, ProcessMaps
    DEF Next, Telegram, Loop
  <2> QED BY <2>1, <2>2
<1> QED
  BY <1>1, <1>2, ControlsInvariant, PTL
  DEF Spec, QuestionsRunOnce, Promise!Spec

\* What the confirmation promises, in the bot's own terms: a question is open,
\* or due, or has run, and never two of these; and it cannot be asked again.
OneFate ==
  /\ Answerable \union Waiting \union PressesRun \subseteq Spent
  /\ Answerable \intersect Waiting = {}
  /\ (Answerable \union Waiting) \intersect PressesRun = {}

\* It follows from the abstract specification alone.
LEMMA PromiseOfOneFate == QuestionsRunOnce => []OneFate
<1> USE DEF PressesRun
<1>1. Promise!Init => OneFate
  BY DEF Promise!Init, OneFate
<1>2. OneFate /\ [Promise!Next]_(Promise!vars) => OneFate'
  <2> SUFFICES ASSUME OneFate, [Promise!Next]_(Promise!vars)
               PROVE  OneFate'
    OBVIOUS
  <2>1. CASE UNCHANGED Promise!vars
    BY <2>1 DEF OneFate, Promise!vars
  <2>2. CASE Promise!Forget
    BY <2>2 DEF OneFate, Promise!Forget
  <2>3. CASE Promise!Ask
    BY <2>3 DEF OneFate, Promise!Ask, Promise!New, Promise!Spends
  <2>4. CASE Promise!Order
    BY <2>4 DEF OneFate, Promise!Order, Promise!New, Promise!Spends
  <2>5. CASE Promise!Confirm
    BY <2>5 DEF OneFate, Promise!Confirm
  <2>6. CASE Promise!Run
    BY <2>6 DEF OneFate, Promise!Run
  <2> QED
    BY <2>1, <2>2, <2>3, <2>4, <2>5, <2>6 DEF Promise!Next
<1> QED BY <1>1, <1>2, PTL DEF QuestionsRunOnce, Promise!Spec

\* A question has one fate (telegram_control.py, _callback, and the queue of
\* engine.py): what has run can neither be answered again nor is it waiting.
THEOREM QuestionsHaveOneFate == Spec => []OneFate
BY ConfirmationHolds, PromiseOfOneFate, PTL
===============================================================================
