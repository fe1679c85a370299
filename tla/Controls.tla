------------------------------- MODULE Controls -------------------------------
(***************************************************************************)
(* The control surfaces: Telegram keeps the operator's updates until they  *)
(* are acknowledged, the thread of bot/telegram_control.py asks before it  *)
(* acts and queues what was confirmed, the dashboard queues what is posted *)
(* to it, and the engine thread pops both queues, executes and publishes   *)
(* the snapshot the surfaces answer from.  State and settings are on disk; *)
(* queues and confirmations are not, and the process may die at any point. *)
(***************************************************************************)
EXTENDS Integers, SequencesExt

CONSTANTS
  Coins,         \* what may be held
  Strategies,    \* the names /strategy may be given
  Routed,        \* those the strategy router knows
  Values,        \* what an operator types for a setting
  Editable,      \* those of a key in the EDITABLE registry
  Allowed,       \* those parse_value() lets through as well
  Short,         \* those of a key with a short name of its own
  Declared,      \* the values of a key that config.yaml has a line for
  Default,       \* what the key is worth in a file that does not set it
  Overlaid,      \* config.local.yaml sets the key as well
  Verbs,         \* the commands in play
  All, Nil,      \* every coin; no argument
  MaxInputs, MaxLives, MaxFaults   \* bounds

ASSUME BoundAssumption ==
  /\ {MaxInputs, MaxLives, MaxFaults} \subseteq Nat /\ MaxLives # 0
  /\ Short \subseteq Editable /\ Editable \subseteq Values
  /\ Routed \subseteq Strategies
  /\ Overlaid \in BOOLEAN
  /\ {All, Nil} \cap (Coins \union Strategies \union Values) = {} /\ All # Nil
  /\ Nil \notin [id : Nat, life : Nat]
  /\ "short" \in Verbs => "set" \in Verbs

VARIABLES
  server,    \* the updates Telegram still holds
  chat,      \* the buttons the operator can see
  bot,       \* the telegram thread: offset, batch, confirmations pending
  queue,     \* the commands waiting on each surface
  snap,      \* the snapshot the surfaces read
  eng,       \* the engine thread and its memory
  disk,      \* state.json and config.yaml
  count,     \* updates sent; posts, trades and halts of the risk layer
  faults,
  past       \* history: presses run, updates handled, a halt not yet lifted

vars == <<server, chat, bot, queue, snap, eng, disk, count, faults, past>>

At(p)    == eng.at = p
Up       == ~At("down")
Stopping == eng.exit # Nil
Ok       == UNCHANGED faults
Fault    == faults < MaxFaults /\ faults' = faults + 1

NoQueue == [web |-> <<>>, phone |-> <<>>]
NewBot  == [offset |-> 0, batch |-> {}, pending |-> {}]
Blank   == [held |-> {}, halted |-> FALSE]
NewEngine == [at |-> "idle", todo |-> <<>>, held |-> {}, halted |-> FALSE,
              override |-> Nil, using |-> Default, exit |-> Nil, life |-> 1]
NewState  == [halted |-> FALSE, override |-> Nil, file |-> Default]

\* What can be asked for.
Menu ==
  {c \in [do : Verbs, what : Coins \union Strategies \union Values
                               \union {All, Nil}] :
     CASE c.do = "close"    -> c.what \in Coins \union {All}
       [] c.do = "strategy" -> c.what \in Strategies \union {Nil}
       [] c.do \in {"set", "short"} -> c.what \in Values
       [] OTHER             -> c.what = Nil}

\* What startup() builds: no confirmation and no command outlives a process.
Surfaces == bot' = NewBot /\ queue' = NoQueue /\ snap' = Blank

Init ==
  /\ server = {} /\ chat = {} /\ bot = NewBot /\ queue = NoQueue
  /\ snap = Blank
  /\ eng = NewEngine /\ disk = NewState
  /\ count = [sent |-> 0, events |-> 0]
  /\ faults = 0
  /\ past = [ran |-> {}, handled |-> {}, halt |-> FALSE]

-------------------------------------------------------------------------------
(* The operator and Telegram. *)

Receive(kind, c, nonce) ==
  /\ count.sent + count.events < MaxInputs
  /\ count' = [count EXCEPT !.sent = @ + 1]
  /\ server' = server \union {[id |-> count.sent + 1, kind |-> kind,
                               cmd |-> c, nonce |-> nonce]}
  /\ UNCHANGED <<chat, bot, queue, snap, eng, disk, faults, past>>

Say   == \E c \in Menu : Receive("text", c, Nil)
Press == \E b \in chat, kind \in {"yes", "no"} : Receive(kind, b.cmd, b.nonce)

Post ==
  /\ Up /\ count.sent + count.events < MaxInputs
  /\ count' = [count EXCEPT !.events = @ + 1]
  /\ \E c \in Menu :
       /\ c.do \in {"close", "halt", "resume", "strategy"}
       /\ queue' = [queue EXCEPT
                      !.web = Append(@, [cmd |-> c, nonce |-> Nil,
                                         late |-> FALSE])]
  /\ UNCHANGED <<server, chat, bot, snap, eng, disk, faults, past>>

\* CONFIRM_TTL runs out for a confirmation, and for the older ones with it.
Expire ==
  \E q \in bot.pending :
    /\ ~q.expired
    /\ bot' = [bot EXCEPT !.pending = {[p EXCEPT !.expired =
                 @ \/ p.nonce.id <= q.nonce.id] : p \in bot.pending}]
    /\ UNCHANGED <<server, chat, queue, snap, eng, disk, count, faults, past>>

-------------------------------------------------------------------------------
(* The telegram thread. *)

\* (Slip: what was received counts as acknowledged.)
PollSlip ==
  /\ Up /\ bot.batch = {} /\ server # {}
  /\ server' = {u \in server : u.id >= bot.offset}
  /\ bot' = [bot EXCEPT !.batch = server', !.offset = count.sent + 1] /\ Ok
  /\ UNCHANGED <<chat, queue, snap, eng, disk, count, past>>
\* An offset acknowledges what is below it.  The reply may be lost.
Poll ==
  /\ Up /\ bot.batch = {} /\ server # {}
  /\ server' = {u \in server : u.id >= bot.offset}
  /\ \/ bot' = [bot EXCEPT !.batch = server'] /\ Ok
     \/ UNCHANGED bot /\ Fault
  /\ UNCHANGED <<chat, queue, snap, eng, disk, count, past>>

Swept(ps) == {p \in ps : ~p.expired}

\* They arrive in the order of their ids.
InHand(u) == u \in bot.batch /\ \A v \in bot.batch : u.id <= v.id

\* The update in hand is behind the offset before anything is done about it.
Handles(u, pending) ==
  /\ Up /\ InHand(u)
  /\ bot' = [offset |-> IF bot.offset > u.id THEN bot.offset ELSE u.id + 1,
             batch |-> bot.batch \ {u}, pending |-> pending]
  /\ past' = [past EXCEPT !.handled = @ \union {u.id}]
  /\ UNCHANGED <<server, snap, eng, disk, count>>

Queues(c, nonce, late) ==
  queue' = [queue EXCEPT
              !.phone = Append(@, [cmd |-> c, nonce |-> nonce, late |-> late])]

\* What the registry knows, what parse_value() takes for it, and what
\* write_setting() finds a line for.
Known(v)    == v \in Editable
Parses(v)   == v \in Allowed
Declares(v) == v \in Declared

\* /supervisor and /gainer look a short name up, /aggressive knows two keys:
\* what they find is asked for as /set would.
Named(v) == v \in Short
\* /strategy is held against the choices the snapshot lists.
Offered(name) == name \in Routed \union {Nil}
Means(c) == IF c.do = "short" THEN [c EXCEPT !.do = "set"] ELSE c

\* Answered at once: from the snapshot, or because the value is not allowed.
Declined(c) ==
  \/ c.do = "close"  /\ snap.held = {}
  \/ c.do = "resume" /\ ~snap.halted
  \/ c.do = "halt"   /\ snap.halted
  \/ c.do = "short"  /\ ~Named(c.what)
  \/ c.do = "strategy" /\ ~Offered(c.what)
  \/ c.do \in {"set", "short"} /\ ~(Known(c.what) /\ Parses(c.what))

\* A new one for every question.
Nonce(u) == [id |-> u.id, life |-> eng.life]

Ask ==
  \E u \in bot.batch :
    /\ u.kind = "text" /\ u.cmd.do # "scan" /\ UNCHANGED queue
    /\ IF Declined(u.cmd)
       THEN Handles(u, bot.pending) /\ UNCHANGED <<chat, faults>>
       ELSE /\ Handles(u, Swept(bot.pending) \union
                 {[nonce |-> Nonce(u), cmd |-> Means(u.cmd),
                   expired |-> FALSE]})
            /\ \/ /\ Ok
                  /\ chat' = chat \union
                     {[nonce |-> Nonce(u), cmd |-> Means(u.cmd)]}
               \/ Fault /\ UNCHANGED chat         \* the message is not sent

Scan ==
  \E u \in bot.batch :
    /\ u.kind = "text" /\ u.cmd.do = "scan"
    /\ Handles(u, bot.pending) /\ Queues(u.cmd, Nonce(u), FALSE)
    /\ UNCHANGED <<chat, faults>>

\* (Slip: the confirmation is looked up and left in place.)
CallbackSlip ==
  \E u \in bot.batch :
    /\ u.kind \in {"yes", "no"} /\ UNCHANGED <<chat, faults>>
    /\ Handles(u, Swept(bot.pending))
    /\ \/ /\ u.kind = "yes"
          /\ \E p \in bot.pending :
               /\ p.nonce = u.nonce /\ ~p.expired
               /\ Queues(u.cmd, u.nonce, p.expired)
       \/ UNCHANGED queue
Callback ==
  \E u \in bot.batch :
    LET asked == {p \in bot.pending : p.nonce = u.nonce}
        valid == u.kind = "yes" /\ \E p \in asked : ~p.expired
    IN  /\ u.kind \in {"yes", "no"} /\ UNCHANGED <<chat, faults>>
        /\ Handles(u, Swept(bot.pending \ asked))
        /\ \/ valid /\ \E p \in asked : Queues(u.cmd, u.nonce, p.expired)
           \/ ~valid /\ UNCHANGED queue

\* A handler that raised: the loop polls again, from behind its update.
Broken ==
  /\ Up /\ Fault
  /\ \E u \in bot.batch :
       /\ InHand(u)
       /\ bot' = [bot EXCEPT !.batch = {},
                    !.offset = IF @ > u.id THEN @ ELSE u.id + 1]
       /\ past' = [past EXCEPT !.handled = @ \union {u.id}]
  /\ UNCHANGED <<server, chat, queue, snap, eng, disk, count>>

Telegram == Broken \/ Ask \/ Scan \/ Callback

-------------------------------------------------------------------------------
(* The engine thread: an iteration of the loop, and each command. *)

Pops(s) ==
  /\ eng' = [eng EXCEPT !.at = s, !.todo = queue[s]]
  /\ queue' = [queue EXCEPT ![s] = <<>>]
  /\ UNCHANGED <<server, chat, bot, snap, disk, count, faults, past>>

\* A queue that is empty when its turn comes is passed over.
PopWeb   == At("idle") /\ ~Stopping /\ queue.web # <<>> /\ Pops("web")
PopPhone == /\ At("web") \/ (At("idle") /\ ~Stopping /\ queue.web = <<>>)
            /\ eng.todo = <<>> /\ queue.phone # <<>> /\ Pops("phone")

\* publish() does nothing within half a second of the last one.
Publish ==
  /\ eng.todo = <<>>
  /\ \/ At("phone")
     \/ At("web") /\ queue.phone = <<>>
     \/ At("idle") /\ ~Stopping /\ queue = NoQueue
  /\ eng' = [eng EXCEPT !.at = "idle"]
  /\ snap' \in {snap, [held |-> eng.held, halted |-> eng.halted]}
  /\ UNCHANGED <<server, chat, bot, queue, disk, count, faults, past>>

Executes(c) ==
  /\ Up /\ eng.todo # <<>> /\ c = Head(eng.todo)
  /\ UNCHANGED <<server, chat, bot, queue, snap, count>>

Ran(c, halt) == past' = [past EXCEPT !.ran = @ \union {c.nonce}, !.halt = halt]
Next1(e) == [e EXCEPT !.todo = Tail(@)]
\* (Slip: what else was popped with it stays in hand.)
RaisedSlip(e) == [e EXCEPT !.at = "idle"]
\* An exception ends the iteration, and what else was popped with it.
Raised(e) == [e EXCEPT !.todo = <<>>, !.at = "idle"]

\* state.save(): all of the state or nothing of it.
Saves(c, e) ==
  \/ /\ eng' = Next1(e) /\ Ok /\ Ran(c, e.halted)
     /\ disk' = [disk EXCEPT !.halted = e.halted, !.override = e.override]
  \/ /\ eng' = Raised(e) /\ Fault /\ Ran(c, past.halt /\ e.halted)
     /\ UNCHANGED disk

Close ==
  \E c \in ToSet(eng.todo) :
    /\ Executes(c) /\ c.cmd.do = "close" /\ Ran(c, past.halt) /\ UNCHANGED disk
    /\ \E left \in SUBSET eng.held :
         /\ eng.held \ left \subseteq
              IF c.cmd.what = All THEN eng.held ELSE {c.cmd.what}
         /\ \/ Ok /\ eng' = Next1([eng EXCEPT !.held = left])
            \/ /\ Fault /\ c.cmd.what \in eng.held
               /\ eng' = Raised([eng EXCEPT !.held = left])

\* halt() and resume change the state and save it.
Remember ==
  \E c \in ToSet(eng.todo) :
    /\ Executes(c)
    /\ \/ c.cmd.do = "halt" /\ Saves(c, [eng EXCEPT !.halted = TRUE])
       \/ c.cmd.do = "resume" /\ Saves(c, [eng EXCEPT !.halted = FALSE])

\* set_strategy() pins a strategy, or with auto none; set_override() refuses a
\* name it does not know.
SetOverride(name) == name = Nil \/ name \in Routed
SetStrategy ==
  \E c \in ToSet(eng.todo) :
    /\ Executes(c) /\ c.cmd.do = "strategy"
    /\ \/ /\ SetOverride(c.cmd.what)
          /\ Saves(c, [eng EXCEPT !.override = c.cmd.what])
       \/ /\ ~SetOverride(c.cmd.what)
          /\ eng' = Next1(eng) /\ Ran(c, past.halt) /\ Ok /\ UNCHANGED disk

\* apply_setting() writes the file and leaves the running bot alone.
ApplySetting ==
  \E c \in ToSet(eng.todo) :
    /\ Executes(c) /\ c.cmd.do = "set" /\ Ran(c, past.halt)
    /\ eng' = Next1(eng)
    /\ \/ /\ Known(c.cmd.what) /\ Parses(c.cmd.what)
          /\ Declares(c.cmd.what) /\ Ok
          /\ disk' = [disk EXCEPT !.file = c.cmd.what]
       \/ ~Declares(c.cmd.what) /\ Ok /\ UNCHANGED disk     \* KeyError
       \/ Fault /\ UNCHANGED disk                       \* OSError, reported

\* request_restart() may refuse: module Lifecycle counts what is left.
RequestStop ==
  \E c \in ToSet(eng.todo) :
    /\ Executes(c) /\ Ran(c, past.halt) /\ UNCHANGED <<disk, faults>>
    /\ \/ c.cmd.do = "restart" /\ eng' = Next1(eng)
       \/ /\ c.cmd.do \in {"restart", "stop"}
          /\ eng' = Next1([eng EXCEPT
                     !.exit = IF Stopping THEN @
                              ELSE IF c.cmd.do = "stop" THEN 0 ELSE 75])

\* run_scan_now() may refuse; either way it reports and changes nothing here.
RunScan ==
  \E c \in ToSet(eng.todo) :
    /\ Executes(c) /\ c.cmd.do = "scan" /\ Ran(c, past.halt)
    /\ eng' = Next1(eng) /\ UNCHANGED <<disk, faults>>

\* Between two iterations: trades come and go, and the risk layer halts.
Trade ==
  /\ At("idle") /\ ~Stopping
  /\ \E held \in SUBSET Coins :
       held # eng.held /\ eng' = [eng EXCEPT !.held = held]
  /\ count.sent + count.events < MaxInputs
  /\ count' = [count EXCEPT !.events = @ + 1]
  /\ UNCHANGED <<server, chat, bot, queue, snap, disk, faults, past>>

RiskHalts ==
  /\ At("idle") /\ ~Stopping /\ ~eng.halted
  /\ count.sent + count.events < MaxInputs
  /\ count' = [count EXCEPT !.events = @ + 1]
  /\ eng' = [eng EXCEPT !.halted = TRUE]
  /\ \/ /\ disk' = [disk EXCEPT !.halted = TRUE, !.override = eng.override]
        /\ past' = [past EXCEPT !.halt = TRUE] /\ Ok
     \/ UNCHANGED <<disk, past>> /\ Fault
  /\ UNCHANGED <<server, chat, bot, queue, snap>>

\* (Slip: the new day starts with a clean state.)
RollDaySlip ==
  /\ At("idle") /\ ~Stopping /\ eng' = [eng EXCEPT !.halted = FALSE]
  /\ disk' = [disk EXCEPT !.halted = FALSE, !.override = eng.override]
  /\ UNCHANGED <<server, chat, bot, queue, snap, count, faults, past>>
\* A new day resets the day's counters and saves the state, halt and all.
RollDay ==
  /\ At("idle") /\ ~Stopping /\ UNCHANGED eng
  /\ disk' = [disk EXCEPT !.halted = eng.halted, !.override = eng.override]
  /\ past' = [past EXCEPT !.halt = eng.halted]
  /\ UNCHANGED <<server, chat, bot, queue, snap, count, faults>>

Commands ==
  \/ Close \/ Remember \/ SetStrategy \/ ApplySetting
  \/ RequestStop \/ RunScan
Loop == PopWeb \/ PopPhone \/ Publish \/ Commands

-------------------------------------------------------------------------------
(* The process. *)

Dies(exit) ==
  /\ eng' = [eng EXCEPT !.at = "down", !.todo = <<>>, !.exit = exit]
  /\ Surfaces /\ UNCHANGED <<server, chat, count, past>>

Exit == At("idle") /\ Stopping /\ Dies(eng.exit) /\ UNCHANGED <<disk, faults>>

\* The write of the file is not atomic: it may be found empty.
Crash ==
  /\ Up /\ Fault /\ Dies(1)
  /\ \/ UNCHANGED disk
     \/ /\ \E c \in ToSet(eng.todo) : c = Head(eng.todo) /\ c.cmd.do = "set"
        /\ disk' = [disk EXCEPT !.file = Default]

\* Config.load(): the local file lies over config.yaml.
Loaded == IF Overlaid THEN Default ELSE disk.file

\* startup() does not return with a halt in the state file.
Start ==
  /\ At("down") /\ eng.exit # 0 /\ eng.life < MaxLives /\ ~disk.halted
  /\ eng' = [eng EXCEPT !.at = "idle", !.halted = FALSE, !.exit = Nil,
               !.override = disk.override, !.using = Loaded, !.life = @ + 1]
  /\ Surfaces /\ UNCHANGED <<server, chat, disk, count, faults, past>>

Next ==
  \/ Say \/ Press \/ Post \/ Expire
  \/ Poll \/ Telegram
  \/ Loop \/ Trade \/ RiskHalts \/ RollDay
  \/ Exit \/ Crash \/ Start

Spec == Init /\ [][Next]_vars

-------------------------------------------------------------------------------
(* Properties. *)

TypeOK ==
  /\ server \subseteq [id : 1 .. MaxInputs, kind : {"text", "yes", "no"},
                      cmd : Menu,
                      nonce : {Nil} \union [id : 1 .. MaxInputs,
                                            life : 1 .. MaxLives]]
  /\ bot.offset \in 0 .. MaxInputs + 1
  /\ bot.batch \subseteq server
  /\ eng.at \in {"idle", "web", "phone", "down"}
  /\ eng.held \subseteq Coins /\ eng.halted \in BOOLEAN
  /\ eng.override \in Routed \union {Nil}
  /\ {eng.using, disk.file} \ {Default} \subseteq Allowed \intersect Declared
  /\ At("idle") => eng.todo = <<>>
  /\ ~Up => bot = NewBot /\ queue = NoQueue
  /\ count.sent + count.events \in 0 .. MaxInputs /\ faults \in 0 .. MaxFaults

\* A confirmation is worth one execution: a second press, one after
\* CONFIRM_TTL, and one Telegram delivers again after a restart run nothing.
PressedOnce ==
  LET line == (IF At("phone") THEN eng.todo ELSE <<>>) \o queue.phone
  IN  \A i \in DOMAIN line :
        /\ ~line[i].late /\ line[i].nonce \notin past.ran
        /\ line[i].nonce.life = eng.life
        /\ \A j \in DOMAIN line : line[i].nonce = line[j].nonce => i = j

\* A halt that reached the disk is lifted by a resume and nothing else: no
\* crash, no restart, and no other command that saves the state.
HaltHolds == past.halt => disk.halted /\ (Up => eng.halted)

\* Telegram forgets an update only when it has been handled: what a crash or a
\* lost reply takes from the bot is delivered again.
NothingLost ==
  \A i \in 1 .. count.sent :
    i \in past.handled \/ \E u \in server : u.id = i

\* The questions and what becomes of them.
Tickets    == [id : 1 .. MaxInputs, life : 1 .. MaxLives]
NoncesOf(s) == {s[i].nonce : i \in DOMAIN s}
InHands    == IF At("phone") THEN NoncesOf(eng.todo) ELSE {}
Waiting    == NoncesOf(queue.phone) \union InHands
Answerable == {p.nonce : p \in {r \in bot.pending : ~r.expired}}
Spent      == {n \in Tickets :
                 \/ n.life < eng.life
                 \/ n.life = eng.life /\ (n.id < bot.offset \/ ~Up)}

\* The telegram thread, the queue and the engine implement the confirmation:
\* what runs was asked in this process, was answered before it expired, and
\* does not run again, across polls, sweeps, exceptions and crashes.
Promise == INSTANCE Confirmation WITH
  Questions <- Tickets, spent <- Spent, open <- Answerable, due <- Waiting,
  ran <- past.ran \ {Nil}
QuestionsRunOnce == Promise!Spec

-------------------------------------------------------------------------------
(* What the repository says of the program and the code does not do.       *)

\* "queued. You will get a confirmation when it completes."  What a live
\* process has queued it executes.
QueuedIsExecuted ==
  [][Up /\ Up' /\ eng.todo # <<>> /\ ~Pops(eng.at)
       => Len(eng'.todo) >= Len(eng.todo) - 1]_vars

\* "Already halted." is said of a bot that is halted.
RefusalIsTrue ==
  [][\A u \in bot.batch :
       Up /\ InHand(u) /\ past.handled' # past.handled
         /\ u.kind = "text" /\ u.cmd.do = "halt" /\ Declined(u.cmd)
       => eng.halted]_vars
===============================================================================
