----------------------------- MODULE SweepProofs -----------------------------
(***************************************************************************)
(* What module Sweep promises of the money, proved for every percentage,   *)
(* limit, price move and bound.  A transfer in flight is neither booked    *)
(* nor forgotten: the invariant says what the memory of a running process  *)
(* knows and the file does not (run.share), that what is about to be moved *)
(* is covered by what is waiting or was deposited, and that the pause is   *)
(* in the file as soon as it is in force.                                  *)
(***************************************************************************)
EXTENDS Sweep, TLAPS

\* What is under way, of a process that lives.
UnderWay ==
  /\ ~eng.up => run.at = "idle"
  /\ run.at # "profit" => run.share = 0
  /\ run.at = "profit" => 100 * run.amount <= mem.pending
  /\ run.at = "principal" => mem.withdrawn + run.amount <= wallet.deposited

\* The memory accounts for every share, the one being booked included.
MemoryAccounts ==
  eng.up => mem.pending + 100 * mem.swept = past.earned + run.share

\* The file sets aside deposits only, as the memory does.
FileIsDeposits == disk.withdrawn + disk.principal <= wallet.deposited

\* A pause in force is in the file and in the memory of a running process.
PauseIsKept == past.resting => disk.paused /\ (eng.up => mem.paused)

Inv ==
  /\ TypeOK /\ UnderWay
  /\ MemoryAccounts /\ ShareAccounted
  /\ BankedIsThere
  /\ PrincipalIsDeposits /\ FileIsDeposits
  /\ PauseIsKept

-----------------------------------------------------------------------------
(* Arithmetic.                                                             *)

LEMMA ResultsAreInts == \A p \in PnLs : p \in Int
BY SweepAssumption DEF SweepSettings, PnLs

LEMMA ShareIsNat ==
  ASSUME NEW p \in Int, p > 0
  PROVE  p * Pct \in Nat
BY SweepAssumption DEF SweepSettings

LEMMA WholeIsCovered ==
  ASSUME NEW m \in Book_
  PROVE  /\ Whole(m) \in Nat
         /\ 100 * Whole(m) <= m.pending
BY DEF Whole, Book_

LEMMA EquityIsNat ==
  ASSUME TypeOK, NEW m \in Book_
  PROVE  SizingEquity(m) \in Nat
<1>1. MarginBalance \in Nat
  BY DEF TypeOK, MarginBalance
<1>2. m.pending \in Nat /\ m.principal \in Nat
  BY DEF Book_
<1>3. Reserved(m) \in Nat
  BY <1>2 DEF Reserved, AtLeast0
<1> QED
  BY <1>1, <1>3 DEF SizingEquity, AtLeast0

LEMMA Naturals ==
  ASSUME TypeOK
  PROVE  /\ mem.withdrawn \in Nat /\ mem.principal \in Nat
         /\ mem.swept \in Nat /\ mem.pending \in Nat
         /\ disk.withdrawn \in Nat /\ disk.principal \in Nat
         /\ disk.swept \in Nat /\ disk.pending \in Nat
         /\ wallet.deposited \in Nat /\ wallet.funding \in Nat
         /\ run.amount \in Nat /\ run.share \in Nat /\ past.earned \in Nat
BY DEF TypeOK, Book_

LEMMA NotedIsBook ==
  ASSUME NEW m \in Book_, NEW p \in Int
  PROVE  /\ Noted(m, p) \in Book_
         /\ Noted(m, p).pending = m.pending /\ Noted(m, p).swept = m.swept
         /\ Noted(m, p).principal = m.principal
         /\ Noted(m, p).withdrawn = m.withdrawn
         /\ m.paused => Noted(m, p).paused
<1> DEFINE streak == IF p < 0 THEN m.streak + 1 ELSE 0
           resting == p < 0 /\ PauseAfter > 0 /\ streak >= PauseAfter
<1>1. /\ streak \in Nat /\ m.today + p \in Int
      /\ resting \in BOOLEAN /\ m.paused \in BOOLEAN
  BY DEF Book_
<1>2. Noted(m, p) = [m EXCEPT !.today = @ + p,
                       !.streak = IF resting THEN 0 ELSE streak,
                       !.paused = @ \/ resting]
  BY DEF Noted
<1> DEFINE count2 == IF resting THEN 0 ELSE streak
           paused == m.paused \/ resting
<1>3. count2 \in Nat /\ paused \in BOOLEAN /\ (m.paused => paused)
  BY <1>1
<1>4. Noted(m, p) = [m EXCEPT !.today = m.today + p, !.streak = count2,
                              !.paused = paused]
  BY <1>2 DEF Book_
<1> HIDE DEF streak, resting, count2, paused
<1> QED
  BY <1>1, <1>3, <1>4 DEF Book_

Pasts == [earned : Nat, resting : BOOLEAN, lost : BOOLEAN]

\* How the history of the properties moves on.
LEMMA PastMoves ==
  ASSUME past \in Pasts, NEW e \in Nat, NEW r \in BOOLEAN,
         past' = [past EXCEPT !.resting = r, !.earned = e]
  PROVE  past' \in Pasts /\ past'.earned = e /\ past'.resting = r
BY DEF Pasts

LEMMA PastEarns ==
  ASSUME past \in Pasts, NEW e \in Nat,
         past' = [past EXCEPT !.earned = @ + e]
  PROVE  /\ past' \in Pasts /\ past'.earned = past.earned + e
         /\ past'.resting = past.resting
BY DEF Pasts

-----------------------------------------------------------------------------
LEMMA InitInv == Init => Inv
<1> SUFFICES ASSUME Init PROVE Inv
  OBVIOUS
<1>1. TypeOK
  BY SweepAssumption DEF SweepSettings, Init, TypeOK, Fresh, Book_, Idle
<1>2. UnderWay /\ MemoryAccounts /\ ShareAccounted /\ PauseIsKept
  BY DEF Init, Fresh, Idle, UnderWay, MemoryAccounts, ShareAccounted,
         PauseIsKept
<1>3. BankedIsThere /\ PrincipalIsDeposits /\ FileIsDeposits
  BY SweepAssumption DEF Init, Fresh, BankedIsThere, PrincipalIsDeposits,
                         FileIsDeposits
<1> QED
  BY <1>1, <1>2, <1>3 DEF Inv

\* Booking a close: its share is in memory, in the file or under way.
LEMMA BookKeeps ==
  ASSUME Inv, Book
  PROVE  Inv'
<1> DEFINE p == Head(trades.due)
           noted == Noted(mem, p)
           share == p * Pct
           kept == [noted EXCEPT !.pending = @ + share]
           small == Sweeps(p) /\ Whole(kept) < MinTransfer
<1>1. p \in PnLs /\ Tail(trades.due) \in Seq(PnLs)
  BY DEF Inv, TypeOK, Book
<1>2. p \in Int
  BY <1>1, ResultsAreInts
<1>3. mem \in Book_
  BY DEF Inv, TypeOK
<1>4. /\ noted \in Book_
      /\ noted.pending = mem.pending /\ noted.swept = mem.swept
      /\ noted.principal = mem.principal /\ noted.withdrawn = mem.withdrawn
      /\ mem.paused => noted.paused
  BY <1>2, <1>3, NotedIsBook
<1>5. Sweeps(p) => share \in Nat
  BY <1>2, ShareIsNat DEF Sweeps
<1> HIDE DEF p, noted, share
<1>6. /\ Sweeps(p) => kept \in Book_
      /\ Sweeps(p) => kept.pending = mem.pending + share
      /\ kept.swept = mem.swept /\ kept.principal = mem.principal
      /\ kept.withdrawn = mem.withdrawn /\ kept.paused = noted.paused
  BY <1>3, <1>4, <1>5 DEF Book_
<1>7. Sweeps(p) => Whole(kept) \in Nat /\ 100 * Whole(kept) <= kept.pending
  BY <1>6, WholeIsCovered
<1> HIDE DEF kept
<1>8. /\ eng.up /\ run.at = "idle" /\ UNCHANGED <<wallet, eng, count>>
      /\ mem' = IF Sweeps(p) THEN kept ELSE noted
      /\ trades' = [trades EXCEPT !.due = Tail(@)]
      /\ past' = [past EXCEPT
           !.resting = @ \/ (noted.paused /\ ~mem.paused),
           !.earned = IF small THEN @ + share ELSE @]
      /\ disk' = IF small THEN kept ELSE noted
      /\ run' = IF Sweeps(p) /\ ~small
                THEN [at |-> "profit", amount |-> Whole(kept),
                      share |-> share]
                ELSE [Idle EXCEPT !.at = "check"]
  BY DEF Book, Saved, p, noted, share, kept
<1>12. /\ eng.up /\ run.share = 0
       /\ mem.pending + 100 * mem.swept = past.earned
       /\ disk.pending + 100 * disk.swept = past.earned
       /\ mem.pending \in Nat /\ mem.swept \in Nat /\ past.earned \in Nat
       /\ past.resting \in BOOLEAN
       /\ past = [earned |-> past.earned, resting |-> past.resting,
                  lost |-> past.lost]
  BY <1>8 DEF Inv, TypeOK, Book_, UnderWay, MemoryAccounts, ShareAccounted
<1>9. CASE small
  <2>1. Sweeps(p)
    BY <1>9
  <2> HIDE DEF small
  <2>7. /\ past'.earned = past.earned + share
        /\ past'.resting = (past.resting \/ (noted.paused /\ ~mem.paused))
        /\ past' \in [earned : Nat, resting : BOOLEAN, lost : BOOLEAN]
    <3> DEFINE rest == past.resting \/ (noted.paused /\ ~mem.paused)
    <3>1. rest \in BOOLEAN
      BY <1>12
    <3>2. past' = [past EXCEPT !.resting = rest,
                               !.earned = past.earned + share]
      BY <1>8, <1>9
    <3> HIDE DEF rest
    <3>3. past.earned + share \in Nat /\ past \in Pasts
      BY <1>5, <1>12, <2>1 DEF Inv, TypeOK, Pasts
    <3>4. /\ past'.earned = past.earned + share /\ past'.resting = rest
          /\ past' \in Pasts
      BY <3>1, <3>2, <3>3, PastMoves
    <3> QED
      BY <3>4 DEF rest, Pasts
  <2>2. TypeOK'
    BY <1>1, <1>5, <1>6, <1>8, <1>9, <2>1, <2>7 DEF Inv, TypeOK, Idle
  <2>3. UnderWay'
    BY <1>8, <1>9, <2>1 DEF UnderWay, Idle
  <2>4. MemoryAccounts' /\ ShareAccounted'
    BY <1>5, <1>6, <1>8, <1>9, <1>12, <2>1, <2>7
       DEF MemoryAccounts, ShareAccounted, Idle
  <2>5. BankedIsThere' /\ PrincipalIsDeposits' /\ FileIsDeposits'
    BY <1>6, <1>8, <1>9, <2>1
       DEF Inv, BankedIsThere, PrincipalIsDeposits, FileIsDeposits
  <2>6. PauseIsKept'
    BY <1>4, <1>6, <1>8, <1>9, <2>1 DEF Inv, TypeOK, PauseIsKept
  <2> QED
    BY <2>2, <2>3, <2>4, <2>5, <2>6 DEF Inv
<1>10. CASE Sweeps(p) /\ ~small
  <2> HIDE DEF small
  <2>2. TypeOK'
    BY <1>1, <1>4, <1>5, <1>6, <1>7, <1>8, <1>10 DEF Inv, TypeOK
  <2>3. UnderWay'
    BY <1>6, <1>7, <1>8, <1>10 DEF UnderWay
  <2>4. MemoryAccounts' /\ ShareAccounted'
    BY <1>4, <1>5, <1>6, <1>8, <1>10, <1>12
       DEF Inv, MemoryAccounts, ShareAccounted
  <2>5. BankedIsThere' /\ PrincipalIsDeposits' /\ FileIsDeposits'
    BY <1>4, <1>6, <1>8, <1>10
       DEF Inv, BankedIsThere, PrincipalIsDeposits, FileIsDeposits
  <2>6. PauseIsKept'
    BY <1>4, <1>6, <1>8, <1>10 DEF Inv, TypeOK, PauseIsKept
  <2> QED
    BY <2>2, <2>3, <2>4, <2>5, <2>6 DEF Inv
<1>11. CASE ~Sweeps(p)
  <2>1. ~small
    BY <1>11
  <2> HIDE DEF small
  <2>2. TypeOK'
    BY <1>1, <1>4, <1>8, <1>11, <2>1 DEF Inv, TypeOK, Idle
  <2>3. UnderWay'
    BY <1>8, <1>11, <2>1 DEF UnderWay, Idle
  <2>4. MemoryAccounts' /\ ShareAccounted'
    BY <1>3, <1>4, <1>8, <1>11, <2>1
       DEF Inv, TypeOK, Book_, UnderWay, MemoryAccounts, ShareAccounted, Idle
  <2>5. BankedIsThere' /\ PrincipalIsDeposits' /\ FileIsDeposits'
    BY <1>4, <1>8, <1>11, <2>1
       DEF Inv, BankedIsThere, PrincipalIsDeposits, FileIsDeposits
  <2>6. PauseIsKept'
    BY <1>4, <1>8, <1>11, <2>1 DEF Inv, TypeOK, PauseIsKept
  <2> QED
    BY <2>2, <2>3, <2>4, <2>5, <2>6 DEF Inv
<1> QED
  BY <1>9, <1>10, <1>11

\* Owing deposits, retrying a move, or letting it rest.
LEMMA CheckPrincipalKeeps ==
  ASSUME Inv, CheckPrincipal
  PROVE  Inv'
<1> DEFINE amount == IF mem.principal > 0 THEN mem.principal ELSE Owed
           moves == mem.principal > 0 \/ (Owed > 0 /\ Grown)
<1>1. /\ eng.up /\ run.at = "check" /\ run.share = 0
      /\ UNCHANGED <<wallet, trades, mem, disk, eng, past>>
  BY DEF CheckPrincipal, Inv, UnderWay
<1>2. moves => amount \in Nat /\ mem.withdrawn + amount <= wallet.deposited
  <2>1. /\ mem.principal \in Nat /\ mem.withdrawn \in Nat
        /\ wallet.deposited \in Nat
        /\ mem.withdrawn + mem.principal <= wallet.deposited
    BY DEF Inv, TypeOK, Book_, PrincipalIsDeposits
  <2>2. Owed = wallet.deposited - mem.withdrawn
    BY DEF Owed, Counted
  <2> QED
    BY <2>1, <2>2
<1>3. /\ \/ /\ moves
            /\ run' = [at |-> "principal", amount |-> amount, share |-> 0]
         \/ run' = Idle
      /\ count' \in [faults : Nat, opened : Nat, deposits : Nat, days : Nat]
  BY DEF CheckPrincipal, Inv, TypeOK
<1> HIDE DEF amount, moves
<1>4. TypeOK' /\ UnderWay' /\ run'.share = 0
  <2>1. CASE moves /\ run' = [at |-> "principal", amount |-> amount,
                              share |-> 0]
    BY <1>1, <1>2, <1>3, <2>1 DEF Inv, TypeOK, UnderWay
  <2>2. CASE run' = Idle
    BY <1>1, <1>3, <2>2 DEF Inv, TypeOK, UnderWay, Idle
  <2> QED
    BY <1>3, <2>1, <2>2
<1>5. MemoryAccounts' /\ ShareAccounted' /\ BankedIsThere'
  BY <1>1, <1>4 DEF Inv, MemoryAccounts, ShareAccounted, BankedIsThere
<1>6. PrincipalIsDeposits' /\ FileIsDeposits' /\ PauseIsKept'
  BY <1>1 DEF Inv, PrincipalIsDeposits, FileIsDeposits, PauseIsKept
<1> QED
  BY <1>4, <1>5, <1>6 DEF Inv

-----------------------------------------------------------------------------
(* How a transfer ends.                                                    *)

\* What the bookkeeping may hold of an answered transfer.
LEMMA BankedIsBook ==
  ASSUME Inv, eng.up, InFlight
  PROVE  /\ Banked \in Book_ /\ Banked.paused = mem.paused
         /\ Banked.pending + 100 * Banked.swept = past.earned + run.share
         /\ Banked.swept + Banked.withdrawn
              = mem.swept + mem.withdrawn + run.amount
         /\ Banked.withdrawn + Banked.principal <= wallet.deposited
<1>1. /\ mem \in Book_ /\ run.amount \in Nat
      /\ run.at = "profit" \/ run.at = "principal"
      /\ mem.pending + 100 * mem.swept = past.earned + run.share
      /\ mem.withdrawn + mem.principal <= wallet.deposited
      /\ run.at = "profit" => 100 * run.amount <= mem.pending
      /\ run.at = "principal" => mem.withdrawn + run.amount <= wallet.deposited
  BY DEF Inv, TypeOK, InFlight, MemoryAccounts, PrincipalIsDeposits, UnderWay
<1>2. CASE run.at = "profit"
  <2>1. /\ mem.pending - 100 * run.amount \in Nat
        /\ mem.swept + run.amount \in Nat
    BY <1>1, <1>2 DEF Book_
  <2> DEFINE x == mem.pending - 100 * run.amount
             y == mem.swept + run.amount
  <2>2. Banked = [mem EXCEPT !.pending = x, !.swept = y]
    BY <1>2 DEF Banked
  <2>3. /\ Banked \in Book_ /\ Banked.pending = x /\ Banked.swept = y
        /\ Banked.principal = mem.principal
        /\ Banked.withdrawn = mem.withdrawn /\ Banked.paused = mem.paused
    <3>1. mem \in Book_ /\ x \in Nat /\ y \in Nat
      BY <1>1, <2>1
    <3> HIDE DEF x, y
    <3> QED
      BY <3>1, <2>2 DEF Book_
  <2>4. /\ mem.pending \in Nat /\ mem.swept \in Nat /\ mem.withdrawn \in Nat
    BY <1>1 DEF Book_
  <2> QED
    BY <1>1, <2>3, <2>4
<1>3. CASE run.at = "principal"
  <2>1. mem.withdrawn + run.amount \in Nat
    BY <1>1 DEF Book_
  <2> DEFINE y == mem.withdrawn + run.amount
  <2>2. Banked = [mem EXCEPT !.principal = 0, !.withdrawn = y]
    BY <1>3 DEF Banked
  <2>3. /\ Banked \in Book_ /\ Banked.principal = 0 /\ Banked.withdrawn = y
        /\ Banked.pending = mem.pending /\ Banked.swept = mem.swept
        /\ Banked.paused = mem.paused
    <3>1. mem \in Book_ /\ y \in Nat
      BY <1>1, <2>1
    <3> HIDE DEF y
    <3> QED
      BY <3>1, <2>2 DEF Book_
  <2>4. /\ mem.pending \in Nat /\ mem.swept \in Nat /\ mem.withdrawn \in Nat
    BY <1>1 DEF Book_
  <2> QED
    BY <1>1, <1>3, <2>3, <2>4
<1> QED
  BY <1>1, <1>2, <1>3

LEMMA SetAsideIsBook ==
  ASSUME Inv, eng.up, InFlight
  PROVE  /\ SetAside \in Book_ /\ SetAside.paused = mem.paused
         /\ SetAside.pending + 100 * SetAside.swept = past.earned + run.share
         /\ SetAside.swept + SetAside.withdrawn = mem.swept + mem.withdrawn
         /\ SetAside.withdrawn + SetAside.principal <= wallet.deposited
<1>1. /\ mem \in Book_ /\ run.amount \in Nat
      /\ run.at = "profit" \/ run.at = "principal"
      /\ mem.pending + 100 * mem.swept = past.earned + run.share
      /\ mem.withdrawn + mem.principal <= wallet.deposited
      /\ run.at = "principal" => mem.withdrawn + run.amount <= wallet.deposited
  BY DEF Inv, TypeOK, InFlight, MemoryAccounts, PrincipalIsDeposits, UnderWay
<1> QED
  BY <1>1 DEF SetAside, Book_

\* Once it is answered, refused or given up, memory and file agree on a
\* bookkeeping b that accounts for the share under way.
LEMMA SettledKeeps ==
  ASSUME Inv, eng.up, InFlight, Settled,
         NEW b \in Book_, mem' = b, b.paused = mem.paused,
         b.pending + 100 * b.swept = past.earned + run.share,
         wallet' \in [futures : Nat, funding : Nat, deposited : Nat],
         wallet'.deposited = wallet.deposited,
         b.swept + b.withdrawn <= wallet'.funding,
         b.withdrawn + b.principal <= wallet.deposited,
         count' \in [faults : Nat, opened : Nat, deposits : Nat, days : Nat]
  PROVE  Inv'
<1>1. /\ disk' = b /\ UNCHANGED <<trades, eng>> /\ eng'.up
      /\ run' = [Idle EXCEPT !.at = "check"] \/ run' = Idle
      /\ past' = [past EXCEPT !.earned = @ + run.share]
  BY DEF Settled
<1>2. /\ past' \in [earned : Nat, resting : BOOLEAN, lost : BOOLEAN]
      /\ past'.earned = past.earned + run.share
      /\ past'.resting = past.resting
  <2>1. past \in Pasts /\ run.share \in Nat
    BY DEF Inv, TypeOK, Pasts
  <2> QED
    BY <1>1, <2>1, PastEarns DEF Pasts
<1>3. /\ run' \in [at : {"idle", "check", "profit", "principal"},
                   amount : Nat, share : Nat]
      /\ run'.share = 0 /\ run'.at # "profit" /\ run'.at # "principal"
  BY <1>1 DEF Idle
<1>4. TypeOK' /\ UnderWay'
  BY <1>1, <1>2, <1>3 DEF Inv, TypeOK, UnderWay
<1>5. MemoryAccounts' /\ ShareAccounted'
  <2>1. past.earned + run.share + 0 = past.earned + run.share
    BY DEF Inv, TypeOK
  <2> QED
    BY <1>1, <1>2, <1>3, <2>1 DEF MemoryAccounts, ShareAccounted
<1>6. BankedIsThere' /\ PrincipalIsDeposits' /\ FileIsDeposits'
  BY <1>1 DEF BankedIsThere, PrincipalIsDeposits, FileIsDeposits
<1>7. PauseIsKept'
  BY <1>1, <1>2 DEF Inv, PauseIsKept
<1> QED
  BY <1>4, <1>5, <1>6, <1>7 DEF Inv
-----------------------------------------------------------------------------
\* The money that leaves the futures wallet arrives in Funding.
LEMMA SentArrives ==
  ASSUME Inv, wallet.futures >= run.amount, wallet' = Sent
  PROVE  /\ wallet' \in [futures : Nat, funding : Nat, deposited : Nat]
         /\ wallet'.deposited = wallet.deposited
         /\ wallet'.funding = wallet.funding + run.amount
<1>1. /\ wallet \in [futures : Nat, funding : Nat, deposited : Nat]
      /\ run.amount \in Nat
  BY DEF Inv, TypeOK
<1> DEFINE x == wallet.futures - run.amount
           y == wallet.funding + run.amount
<1>2. x \in Nat /\ y \in Nat
  BY <1>1
<1>3. wallet' = [wallet EXCEPT !.futures = x, !.funding = y]
  BY DEF Sent
<1> HIDE DEF x, y
<1>4. /\ wallet' \in [futures : Nat, funding : Nat, deposited : Nat]
      /\ wallet'.deposited = wallet.deposited /\ wallet'.funding = y
  BY <1>1, <1>2, <1>3
<1> QED
  BY <1>4 DEF y

LEMMA TransferKeeps ==
  ASSUME Inv, Moved \/ Refused \/ AnswerLost
  PROVE  Inv'
<1>1. /\ mem.swept \in Nat /\ mem.withdrawn \in Nat /\ run.amount \in Nat
      /\ mem.swept + mem.withdrawn <= wallet.funding
      /\ wallet \in [futures : Nat, funding : Nat, deposited : Nat]
      /\ wallet.funding \in Nat
  BY DEF Inv, TypeOK, Book_, BankedIsThere
<1>2. count' \in [faults : Nat, opened : Nat, deposits : Nat, days : Nat]
  BY DEF Inv, TypeOK, Moved, Refused, AnswerLost
<1>3. CASE Moved
  <2>1. eng.up /\ InFlight /\ Settled /\ mem' = Banked
    BY <1>3 DEF Moved
  <2>2. /\ wallet' \in [futures : Nat, funding : Nat, deposited : Nat]
        /\ wallet'.deposited = wallet.deposited
        /\ wallet'.funding = wallet.funding + run.amount
    BY <1>3, SentArrives DEF Moved
  <2>3. Banked.swept + Banked.withdrawn <= wallet'.funding
    BY <1>1, <2>1, <2>2, BankedIsBook
  <2> QED
    BY <1>2, <2>1, <2>2, <2>3, BankedIsBook, SettledKeeps
<1>4. CASE Refused
  <2>1. eng.up /\ InFlight /\ Settled /\ mem' = SetAside /\ wallet' = wallet
    BY <1>4 DEF Refused
  <2>2. SetAside.swept + SetAside.withdrawn <= wallet'.funding
    BY <1>1, <2>1, SetAsideIsBook
  <2> QED
    BY <1>1, <1>2, <2>1, <2>2, SetAsideIsBook, SettledKeeps
<1>5. CASE AnswerLost
  <2>1. eng.up /\ InFlight /\ Settled /\ mem' = SetAside
    BY <1>5 DEF AnswerLost
  <2>2. /\ wallet' \in [futures : Nat, funding : Nat, deposited : Nat]
        /\ wallet'.deposited = wallet.deposited
        /\ wallet'.funding = wallet.funding + run.amount
    BY <1>5, SentArrives DEF AnswerLost
  <2>3. SetAside.swept + SetAside.withdrawn <= wallet'.funding
    BY <1>1, <2>1, <2>2, SetAsideIsBook
  <2> QED
    BY <1>2, <2>1, <2>2, <2>3, SetAsideIsBook, SettledKeeps
<1> QED
  BY <1>3, <1>4, <1>5

-----------------------------------------------------------------------------
(* The engine and the rest of the world.                                   *)

LEMMA EngineKeeps ==
  ASSUME Inv, Refresh \/ Decide
  PROVE  Inv'
<1>1. /\ UNCHANGED <<wallet, trades, mem, disk, run, count, past>>
      /\ eng'.up = eng.up
      /\ eng' \in [up : BOOLEAN, equity : Nat, dayStart : Nat,
                   newDay : BOOLEAN, halted : BOOLEAN]
  <2>1. SizingEquity(mem) \in Nat
    BY EquityIsNat DEF Inv, TypeOK
  <2>2. CASE Refresh
    BY <2>1, <2>2 DEF Refresh, Inv, TypeOK
  <2>3. CASE Decide
    BY <2>3 DEF Decide, Inv, TypeOK
  <2> QED
    BY <2>2, <2>3
<1> QED
  BY <1>1 DEF Inv, TypeOK, UnderWay, MemoryAccounts, ShareAccounted,
     BankedIsThere, PrincipalIsDeposits, FileIsDeposits, PauseIsKept

\* A poll changes nothing of the bookkeeping but the high of the equity.
LEMMA TickKeeps ==
  ASSUME Inv, NEW leader \in BOOLEAN, Tick(leader)
  PROVE  Inv'
<1> DEFINE peak == IF eng.equity > mem.peak THEN eng.equity ELSE mem.peak
           m == [mem EXCEPT !.peak = peak]
           opens == leader /\ ~Limited(m) /\ ~eng.halted /\ ~Halts
<1>1. /\ eng.up /\ run.at = "idle" /\ run.share = 0
      /\ UNCHANGED <<wallet, run, past>>
      /\ mem' = m /\ disk' = IF opens THEN m ELSE disk
  BY DEF Tick, Inv, UnderWay
<1>2. /\ m \in Book_ /\ m.pending = mem.pending /\ m.swept = mem.swept
      /\ m.principal = mem.principal /\ m.withdrawn = mem.withdrawn
      /\ m.paused = mem.paused
  <2>1. mem \in Book_ /\ peak \in Nat
    BY DEF Inv, TypeOK, Book_
  <2> HIDE DEF peak
  <2> QED
    BY <2>1 DEF Book_
<1>3. /\ trades' = [trades EXCEPT !.open = IF opens THEN @ + 1 ELSE @]
      /\ count' = [count EXCEPT !.opened = IF opens THEN @ + 1 ELSE @]
      /\ \E h \in BOOLEAN : eng' = [eng EXCEPT !.halted = h]
  <2>1. (eng.halted \/ (leader /\ ~Limited(m) /\ Halts)) \in BOOLEAN
    OBVIOUS
  <2> QED
    BY <2>1 DEF Tick
<1> HIDE DEF m, opens
<1>4. TypeOK' /\ eng'.up = eng.up
  <2>1. /\ trades' \in [open : Nat, due : Seq(PnLs)]
        /\ count' \in [faults : Nat, opened : Nat, deposits : Nat, days : Nat]
    <3> DEFINE o == IF opens THEN trades.open + 1 ELSE trades.open
               c == IF opens THEN count.opened + 1 ELSE count.opened
    <3>1. o \in Nat /\ c \in Nat
      BY DEF Inv, TypeOK
    <3>2. trades' = [trades EXCEPT !.open = o]
      BY <1>3
    <3>3. count' = [count EXCEPT !.opened = c]
      BY <1>3
    <3> HIDE DEF o, c
    <3> QED
      BY <3>1, <3>2, <3>3 DEF Inv, TypeOK
  <2>2. /\ eng' \in [up : BOOLEAN, equity : Nat, dayStart : Nat,
                     newDay : BOOLEAN, halted : BOOLEAN]
        /\ eng'.up = eng.up
    BY <1>3 DEF Inv, TypeOK
  <2> QED
    BY <1>1, <1>2, <2>1, <2>2 DEF Inv, TypeOK
<1>5. UnderWay' /\ MemoryAccounts' /\ ShareAccounted'
  <2>1. mem.pending + 100 * mem.swept = past.earned
    BY <1>1 DEF Inv, TypeOK, Book_, MemoryAccounts
  <2> QED
    BY <1>1, <1>2, <1>4, <2>1
       DEF Inv, UnderWay, MemoryAccounts, ShareAccounted
<1>6. BankedIsThere' /\ PrincipalIsDeposits' /\ FileIsDeposits'
  BY <1>1, <1>2
     DEF Inv, BankedIsThere, PrincipalIsDeposits, FileIsDeposits
<1>7. PauseIsKept'
  BY <1>1, <1>2, <1>4 DEF Inv, PauseIsKept
<1> QED
  BY <1>4, <1>5, <1>6, <1>7 DEF Inv
\* A trade ends on the exchange, or somebody deposits: no bookkeeping moves.
LEMMA MarketKeeps ==
  ASSUME Inv, (\E p \in PnLs : Closes(p)) \/ Deposits
  PROVE  Inv'
<1>1. /\ UNCHANGED <<mem, disk, eng, run>>
      /\ past'.earned = past.earned /\ past'.resting = past.resting
      /\ past' \in [earned : Nat, resting : BOOLEAN, lost : BOOLEAN]
      /\ trades' \in [open : Nat, due : Seq(PnLs)]
      /\ count' \in [faults : Nat, opened : Nat, deposits : Nat, days : Nat]
      /\ wallet' \in [futures : Nat, funding : Nat, deposited : Nat]
      /\ wallet'.funding = wallet.funding
      /\ wallet'.deposited >= wallet.deposited
  <2>1. CASE \E p \in PnLs : Closes(p)
    <3> PICK p \in PnLs : Closes(p)
      BY <2>1
    <3>1. p \in Int
      BY ResultsAreInts
    <3>2. wallet.futures + p \in Nat /\ trades.open - 1 \in Nat
      BY <3>1 DEF Closes, Inv, TypeOK
    <3>3. /\ trades' \in [open : Nat, due : Seq(PnLs)]
          /\ UNCHANGED <<mem, disk, eng, run, count>>
      BY <3>2 DEF Closes, Inv, TypeOK
    <3>4. /\ wallet' \in [futures : Nat, funding : Nat, deposited : Nat]
          /\ wallet'.funding = wallet.funding
          /\ wallet'.deposited = wallet.deposited
      <4> DEFINE x == wallet.futures + p
      <4>1. x \in Nat /\ wallet' = [wallet EXCEPT !.futures = x]
        BY <3>2 DEF Closes
      <4> HIDE DEF x
      <4> QED
        BY <4>1 DEF Inv, TypeOK
    <3>5. /\ past' \in [earned : Nat, resting : BOOLEAN, lost : BOOLEAN]
          /\ past'.earned = past.earned /\ past'.resting = past.resting
      <4> DEFINE x == past.lost \/ p < 0
      <4>1. x \in BOOLEAN /\ past' = [past EXCEPT !.lost = x]
        BY DEF Closes
      <4> HIDE DEF x
      <4> QED
        BY <4>1 DEF Inv, TypeOK
    <3> QED
      BY <3>3, <3>4, <3>5 DEF Inv, TypeOK
  <2>2. CASE Deposits
    <3>1. UNCHANGED <<trades, mem, disk, eng, run, past>>
      BY <2>2 DEF Deposits
    <3>2. count' \in [faults : Nat, opened : Nat, deposits : Nat, days : Nat]
      BY <2>2 DEF Deposits, Inv, TypeOK
    <3>3. /\ wallet' \in [futures : Nat, funding : Nat, deposited : Nat]
          /\ wallet'.funding = wallet.funding
          /\ wallet'.deposited >= wallet.deposited
      <4> DEFINE x == wallet.futures + Deposit
                 y == wallet.deposited + Deposit
      <4>1. x \in Nat /\ y \in Nat /\ y >= wallet.deposited
        BY SweepAssumption DEF SweepSettings, Inv, TypeOK
      <4>2. wallet' = [wallet EXCEPT !.futures = x, !.deposited = y]
        BY <2>2 DEF Deposits
      <4> HIDE DEF x, y
      <4> QED
        BY <4>1, <4>2 DEF Inv, TypeOK
    <3> QED
      BY <3>1, <3>2, <3>3 DEF Inv, TypeOK
  <2> QED
    BY <2>1, <2>2
<1>2. TypeOK'
  BY <1>1 DEF Inv, TypeOK
<1>3. UnderWay' /\ MemoryAccounts' /\ ShareAccounted' /\ PauseIsKept'
  <2>1. run.at = "principal"
          => mem.withdrawn + run.amount <= wallet'.deposited
    <3>1. wallet'.deposited \in Nat /\ wallet'.deposited >= wallet.deposited
      BY <1>1
    <3>2. /\ mem.withdrawn \in Nat /\ run.amount \in Nat
          /\ wallet.deposited \in Nat
      BY Naturals DEF Inv
    <3> QED
      BY <3>1, <3>2 DEF Inv, UnderWay
  <2> QED
    BY <1>1, <2>1 DEF Inv, UnderWay, MemoryAccounts, ShareAccounted,
       PauseIsKept
<1>4. BankedIsThere' /\ PrincipalIsDeposits' /\ FileIsDeposits'
  <2>1. wallet'.deposited \in Nat /\ wallet'.deposited >= wallet.deposited
    BY <1>1
  <2>3. /\ mem.withdrawn \in Nat /\ mem.principal \in Nat
        /\ disk.withdrawn \in Nat /\ disk.principal \in Nat
        /\ wallet.deposited \in Nat
    BY Naturals DEF Inv
  <2>2. /\ mem.withdrawn + mem.principal <= wallet'.deposited
        /\ disk.withdrawn + disk.principal <= wallet'.deposited
    BY <2>1, <2>3 DEF Inv, PrincipalIsDeposits, FileIsDeposits
  <2> QED
    BY <1>1, <2>2 DEF Inv, BankedIsThere, PrincipalIsDeposits, FileIsDeposits
<1> QED
  BY <1>2, <1>3, <1>4 DEF Inv

LEMMA ClockKeeps ==
  ASSUME Inv, Midnight \/ PauseEnds
  PROVE  Inv'
<1>1. CASE Midnight
  <2>1. /\ UNCHANGED <<wallet, trades, run, past>> /\ eng'.up = eng.up
        /\ mem' = [mem EXCEPT !.today = 0] /\ disk' = [disk EXCEPT !.today = 0]
        /\ eng' \in [up : BOOLEAN, equity : Nat, dayStart : Nat,
                     newDay : BOOLEAN, halted : BOOLEAN]
        /\ count' \in [faults : Nat, opened : Nat, deposits : Nat, days : Nat]
    <3>1. count' \in [faults : Nat, opened : Nat, deposits : Nat, days : Nat]
      <4> DEFINE c == count.days + 1
      <4>1. c \in Nat /\ count' = [count EXCEPT !.days = c]
        BY <1>1 DEF Midnight, Inv, TypeOK
      <4> HIDE DEF c
      <4> QED
        BY <4>1 DEF Inv, TypeOK
    <3>2. /\ eng' \in [up : BOOLEAN, equity : Nat, dayStart : Nat,
                       newDay : BOOLEAN, halted : BOOLEAN]
          /\ eng'.up = eng.up
      BY <1>1 DEF Midnight, Inv, TypeOK
    <3> QED
      BY <1>1, <3>1, <3>2 DEF Midnight
  <2>2. \A b \in Book_ : [b EXCEPT !.today = 0] \in Book_
    BY DEF Book_
  <2>4. mem' \in Book_ /\ disk' \in Book_
    BY <2>1, <2>2 DEF Inv, TypeOK
  <2>3. TypeOK'
    BY <2>1, <2>4 DEF Inv, TypeOK
  <2> QED
    BY <2>1, <2>3 DEF Inv, TypeOK, Book_, UnderWay, MemoryAccounts,
       ShareAccounted, BankedIsThere, PrincipalIsDeposits, FileIsDeposits,
       PauseIsKept
<1>2. CASE PauseEnds
  <2>1. /\ UNCHANGED <<wallet, trades, eng, run, count>>
        /\ mem' = [mem EXCEPT !.paused = FALSE]
        /\ disk' = [disk EXCEPT !.paused = FALSE]
        /\ past' = [past EXCEPT !.resting = FALSE]
    BY <1>2 DEF PauseEnds
  <2>2. TypeOK' /\ past'.earned = past.earned /\ ~past'.resting
    BY <2>1 DEF Inv, TypeOK, Book_
  <2> QED
    BY <2>1, <2>2 DEF Inv, TypeOK, Book_, UnderWay, MemoryAccounts,
       ShareAccounted, BankedIsThere, PrincipalIsDeposits, FileIsDeposits,
       PauseIsKept
<1> QED
  BY <1>1, <1>2

\* The process dies; the file and the exchange are what is left.
LEMMA CrashKeeps ==
  ASSUME Inv, Crash
  PROVE  Inv'
<1>1. /\ run' = Idle /\ UNCHANGED <<mem, disk, past>> /\ ~eng'.up
      /\ eng' \in [up : BOOLEAN, equity : Nat, dayStart : Nat,
                   newDay : BOOLEAN, halted : BOOLEAN]
      /\ count' \in [faults : Nat, opened : Nat, deposits : Nat, days : Nat]
  <2>1. count' \in [faults : Nat, opened : Nat, deposits : Nat, days : Nat]
    <3> DEFINE c == count.faults + 1
    <3>1. c \in Nat /\ count' = [count EXCEPT !.faults = c]
      BY DEF Crash, Inv, TypeOK
    <3> HIDE DEF c
    <3> QED
      BY <3>1 DEF Inv, TypeOK
  <2>2. /\ ~eng'.up
        /\ eng' \in [up : BOOLEAN, equity : Nat, dayStart : Nat,
                     newDay : BOOLEAN, halted : BOOLEAN]
    BY DEF Crash, Inv, TypeOK
  <2> QED
    BY <2>1, <2>2 DEF Crash
<1>2. /\ wallet' \in [futures : Nat, funding : Nat, deposited : Nat]
      /\ wallet'.deposited = wallet.deposited
      /\ wallet'.funding >= wallet.funding
  <2>1. CASE wallet' = wallet
    BY <2>1 DEF Inv, TypeOK
  <2>2. CASE wallet.futures >= run.amount /\ wallet' = Sent
    BY <2>2, SentArrives DEF Inv, TypeOK
  <2> QED
    BY <2>1, <2>2 DEF Crash
<1>3. trades' \in [open : Nat, due : Seq(PnLs)]
  <2>1. <<>> \in Seq(PnLs)
    OBVIOUS
  <2> DEFINE none == <<>>
  <2>2. trades' = [trades EXCEPT !.due = none] /\ none \in Seq(PnLs)
    BY <2>1 DEF Crash
  <2> HIDE DEF none
  <2> QED
    BY <2>2 DEF Inv, TypeOK
<1>4. TypeOK'
  BY <1>1, <1>2, <1>3 DEF Inv, TypeOK, Idle
<1>5. UnderWay' /\ MemoryAccounts' /\ ShareAccounted' /\ PauseIsKept'
  BY <1>1, <1>2 DEF Inv, UnderWay, MemoryAccounts, ShareAccounted,
                    PauseIsKept, Idle
<1>6. BankedIsThere' /\ PrincipalIsDeposits' /\ FileIsDeposits'
  <2>1. wallet'.funding \in Nat
    BY <1>2
  <2>2. /\ mem.swept + mem.withdrawn <= wallet'.funding
        /\ disk.swept + disk.withdrawn <= wallet'.funding
    BY <1>2, <2>1, Naturals DEF Inv, BankedIsThere
  <2> QED
    BY <1>1, <1>2, <2>2
       DEF Inv, BankedIsThere, PrincipalIsDeposits, FileIsDeposits
<1> QED
  BY <1>4, <1>5, <1>6 DEF Inv

LEMMA RestartKeeps ==
  ASSUME Inv, Restart
  PROVE  Inv'
<1>1. /\ ~eng.up /\ mem' = disk
      /\ UNCHANGED <<wallet, trades, disk, run, count, past>>
      /\ run.at = "idle" /\ run.share = 0
  BY DEF Restart, Load, Inv, UnderWay
<1>2. eng' \in [up : BOOLEAN, equity : Nat, dayStart : Nat,
               newDay : BOOLEAN, halted : BOOLEAN]
  <2>1. SizingEquity(disk) \in Nat
    BY EquityIsNat DEF Inv, TypeOK
  <2> QED
    BY <2>1 DEF Restart, Load, Inv, TypeOK
<1>3. TypeOK'
  BY <1>1, <1>2 DEF Inv, TypeOK
<1>4. UnderWay' /\ MemoryAccounts' /\ ShareAccounted' /\ PauseIsKept'
  BY <1>1 DEF Inv, TypeOK, UnderWay, MemoryAccounts, ShareAccounted,
              PauseIsKept
<1>5. BankedIsThere' /\ PrincipalIsDeposits' /\ FileIsDeposits'
  BY <1>1 DEF Inv, BankedIsThere, PrincipalIsDeposits, FileIsDeposits
<1> QED
  BY <1>3, <1>4, <1>5 DEF Inv

-----------------------------------------------------------------------------
(* The theorems.                                                           *)

LEMMA InvStep == Inv /\ [Next]_vars => Inv'
<1> SUFFICES ASSUME Inv, [Next]_vars PROVE Inv'
  OBVIOUS
<1>1. CASE Book
  BY <1>1, BookKeeps
<1>2. CASE CheckPrincipal
  BY <1>2, CheckPrincipalKeeps
<1>3. CASE Moved \/ Refused \/ AnswerLost
  BY <1>3, TransferKeeps
<1>4. CASE Refresh \/ Decide
  BY <1>4, EngineKeeps
<1>5. CASE \E leader \in BOOLEAN : Tick(leader)
  BY <1>5, TickKeeps
<1>6. CASE (\E p \in PnLs : Closes(p)) \/ Deposits
  BY <1>6, MarketKeeps
<1>7. CASE Midnight \/ PauseEnds
  BY <1>7, ClockKeeps
<1>8. CASE Crash
  BY <1>8, CrashKeeps
<1>9. CASE Restart
  BY <1>9, RestartKeeps
<1>10. CASE UNCHANGED vars
  BY <1>10 DEF vars, Inv, TypeOK, UnderWay, MemoryAccounts, ShareAccounted,
     BankedIsThere, PrincipalIsDeposits, FileIsDeposits, PauseIsKept
<1> QED
  BY <1>1, <1>2, <1>3, <1>4, <1>5, <1>6, <1>7, <1>8, <1>9, <1>10 DEF Next

\* The invariant behind the four results below: the types, what is under way
\* between a booked close and an answered transfer, and what memory and file
\* know of it.
THEOREM SweepInvariant == Spec => []Inv
<1> QED
  BY InitInv, InvStep, PTL DEF Spec

\* The counters of the sweep stay whole and non-negative: no transfer drives
\* the futures balance or what waits to be moved below zero.
THEOREM SweepTypes == Spec => []TypeOK
<1>1. Inv => TypeOK
  BY DEF Inv
<1> QED
  BY <1>1, SweepInvariant, PTL

\* sweep_profit: the file accounts for the share of every win booked, whatever
\* is refused, loses its answer or crashes, for every percentage and bound.
THEOREM SharesAccounted == Spec => []ShareAccounted
<1>1. Inv => ShareAccounted
  BY DEF Inv
<1> QED
  BY <1>1, SweepInvariant, PTL

\* What is said to be banked is in Funding, or more.
THEOREM BankedHolds == Spec => []BankedIsThere
<1>1. Inv => BankedIsThere
  BY DEF Inv
<1> QED
  BY <1>1, SweepInvariant, PTL

\* check_principal moves deposits, never profit.
THEOREM PrincipalHolds == Spec => []PrincipalIsDeposits
<1>1. Inv => PrincipalIsDeposits
  BY DEF Inv
<1> QED
  BY <1>1, SweepInvariant, PTL

\* A pause outlives every restart: no trade is opened while it lasts.
THEOREM PauseIsHeld == Spec => PauseHolds
<1>1. Inv /\ [Next]_vars => [trades'.open > trades.open => ~past.resting]_vars
  <2> SUFFICES ASSUME Inv, Next, trades'.open > trades.open
               PROVE  ~past.resting
    BY DEF vars
  <2>1. \E leader \in BOOLEAN : Tick(leader)
    <3>1. trades.open \in Nat /\ ~(trades.open > trades.open)
      BY DEF Inv, TypeOK
    <3>2. CASE Book
      <4>1. trades'.open = trades.open
        BY <3>2 DEF Book, Inv, TypeOK
      <4> QED
        BY <3>1, <4>1
    <3>3. CASE \E p \in PnLs : Closes(p)
      <4>1. trades'.open = trades.open - 1
        BY <3>3 DEF Closes
      <4> QED
        BY <3>1, <4>1
    <3>4. CASE Crash
      <4>1. trades'.open = trades.open
        BY <3>4 DEF Crash, Inv, TypeOK
      <4> QED
        BY <3>1, <4>1
    <3>5. CASE UNCHANGED trades
      BY <3>1, <3>5
    <3> QED
      BY <3>2, <3>3, <3>4, <3>5 DEF Next, CheckPrincipal, Moved, Refused,
         AnswerLost, Settled, Refresh, Decide, Deposits, Midnight, PauseEnds,
         Restart
  <2> PICK leader \in BOOLEAN : Tick(leader)
    BY <2>1
  <2> DEFINE m == [mem EXCEPT !.peak = IF eng.equity > @ THEN eng.equity
                                       ELSE @]
             opens == leader /\ ~Limited(m) /\ ~eng.halted /\ ~Halts
  <2>2. eng.up /\ trades' = [trades EXCEPT !.open = IF opens THEN @ + 1 ELSE @]
    BY DEF Tick
  <2>3. opens
    <3> SUFFICES ASSUME ~opens PROVE FALSE
      OBVIOUS
    <3> HIDE DEF opens
    <3>1. trades'.open = trades.open /\ trades.open \in Nat
      BY <2>2 DEF Inv, TypeOK
    <3> QED
      BY <3>1
  <2>4. m.paused = mem.paused
    BY DEF Inv, TypeOK, Book_
  <2>5. ~mem.paused
    BY <2>3, <2>4 DEF Limited
  <2> QED
    BY <2>2, <2>5 DEF Inv, PauseIsKept
<1> QED
  BY <1>1, SweepInvariant, PTL DEF Spec, PauseHolds

=============================================================================
