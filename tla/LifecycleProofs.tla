--------------------------- MODULE LifecycleProofs ---------------------------
(***************************************************************************)
(* The restart budget, for every window, limit, budget, delay and horizon. *)
(*                                                                         *)
(* The ledger and systemd look back over an Interval of the same length    *)
(* but at different events, and systemd's does not slide.  What ties them  *)
(* together is the order of the stamps: a request comes after the start of *)
(* the process it is made to, and its own start comes after it (Stamps).   *)
(* So the requests behind the starts that follow one counted start are all *)
(* younger than that start, hence all still in the ledger (Charged), which *)
(* never holds more than the budget (Fits).                                *)
(*                                                                         *)
(* The last section is about another component: how often the fill of an   *)
(* entry is counted, in module Feed, over variables of its own.            *)
(***************************************************************************)
EXTENDS Lifecycle, Sequences, FiniteSetTheorems, FunctionTheorems,
        WellFoundedInduction, TLAPS

Stamps ==
  /\ \A s \in starts : s.at < now /\ s.req < s.at
  /\ \A s, c \in starts : s.at = c.at => s = c
  /\ \A s, c \in starts : s.at < c.at /\ c.req # 0 => s.at < c.req
  /\ asked # 0 => asked < now /\ \A s \in starts : s.at < asked
  /\ \A t \in ledger : t < now

\* No request is forgotten while it is recent.
Charged ==
  intact =>
    /\ asked # 0 => asked \in ledger \/ ~Recent(asked)
    /\ \A s \in starts : s.req # 0 => s.req \in ledger \/ ~Recent(s.req)

Fits == Cardinality(SpentRestarts) <= Budget

LifeInv == TypeOK /\ Stamps /\ Charged /\ Fits

-------------------------------------------------------------------------------
(* A non-empty set of natural numbers has a least element.                 *)

Lt == OpToRel(<, Nat)

\* The order of the natural numbers is well-founded.
LEMMA LtWellFounded == IsWellFoundedOn(Lt, Nat)
BY NatLessThanWellFounded DEF Lt

\* What it relates.
LEMMA LtRelates == \A x, y \in Nat : x < y => <<x, y>> \in Lt
BY DEF Lt, OpToRel

\* The least element.
LEMMA LeastNumber ==
  ASSUME NEW S \in SUBSET Nat, S # {}
  PROVE  \E m \in S : \A k \in S : m <= k
<1>1. PICK m \in S : \A k \in S : ~(<<k, m>> \in Lt)
  BY LtWellFounded, WFMin
<1>2. ASSUME NEW k \in S PROVE m <= k
  <2>1. m \in Nat /\ k \in Nat OBVIOUS
  <2>2. ~(k < m) BY <1>1, <2>1, LtRelates
  <2> QED BY <2>1, <2>2
<1> QED BY <1>2

-------------------------------------------------------------------------------
(* Finite sets of stamps.                                                  *)

\* The clock's values are natural numbers, finitely many.
LEMMA TimeFacts ==
  /\ IsFiniteSet(Time) /\ \A t \in Time : t \in Nat /\ t > 0
  /\ Horizon \in Nat /\ Horizon > 0 /\ 0 \in 0 .. Horizon
  /\ Interval \in Nat /\ RestartSec \in Nat
  /\ Burst \in Nat /\ Burst > 0 /\ Budget \in Nat /\ Budget <= Burst
<1> USE HorizonAssumption, IntervalAssumption, DelayAssumption,
        BurstAssumption, BudgetAssumption
<1>1. IsFiniteSet(1 .. Horizon + 1) BY FS_Interval
<1> QED BY <1>1 DEF Time

\* Clock, request and stamps are natural numbers.
LEMMA StampNumbers ==
  ASSUME TypeOK
  PROVE  /\ now \in Nat /\ asked \in Nat
         /\ \A s \in starts : s.at \in Nat /\ s.req \in Nat
<1>1. now \in Time /\ asked \in 0 .. Horizon BY DEF TypeOK
<1>2. ASSUME NEW s \in starts PROVE s.at \in Time /\ s.req \in 0 .. Horizon
  BY DEF TypeOK
<1>3. 0 .. Horizon \subseteq Nat BY TimeFacts
<1> QED BY <1>1, <1>2, <1>3, TimeFacts

\* The spent restarts are a finite set.
LEMMA SpentFinite ==
  ASSUME TypeOK
  PROVE  IsFiniteSet(SpentRestarts) /\ Cardinality(SpentRestarts) \in Nat
<1>1. SpentRestarts \subseteq Time BY DEF TypeOK, SpentRestarts
<1> QED BY <1>1, TimeFacts, FS_Subset, FS_CardinalityType

\* So are the starts: no two carry the same stamp.
LEMMA StartsFinite ==
  ASSUME TypeOK, Stamps, NEW S \in SUBSET starts
  PROVE  IsFiniteSet(S) /\ Cardinality(S) \in Nat
<1> DEFINE f == [s \in S |-> s.at]
<1>1. f \in [S -> Time] BY DEF TypeOK
<1>2. \A s, c \in S : f[s] = f[c] => s = c BY DEF Stamps
<1> HIDE DEF f
<1>3. f \in Injection(S, Time) BY <1>1, <1>2, Fun_IsInj
<1> QED BY <1>3, TimeFacts, FS_Injection, FS_CardinalityType

-------------------------------------------------------------------------------
(* The invariant implies the properties.                                   *)

\* The requests behind the starts after s, and the one waited for, are all
\* spent restarts of the ledger.
LEMMA BudgetHolds ==
  ASSUME LifeInv
  PROVE  RestartsFitBudget
<1> SUFFICES ASSUME intact, NEW s \in Counted
             PROVE  LET later == {c \in Counted : c.at > s.at}
                    IN  Cardinality(Asked(later))
                          + (IF asked # 0 THEN 1 ELSE 0) <= Budget
  BY DEF RestartsFitBudget
<1> USE DEF LifeInv
<1> DEFINE later == {c \in Counted : c.at > s.at}
           A == Asked(later)
           R == SpentRestarts \ {asked}
           f == [c \in A |-> c.req]
<1>1. now \in Nat /\ s \in starts /\ s.at \in Nat /\ now - s.at <= Interval
  BY StampNumbers DEF Counted
<1>2. A \subseteq starts /\ \A c \in A : c.at > s.at /\ c.req # 0
  BY DEF Asked, Counted
<1>3. \A c \in A : c.at \in Nat /\ c.req \in Nat
  BY <1>2, StampNumbers
<1>4. asked \in Nat
  BY StampNumbers
<1> HIDE DEF A
<1>5. ASSUME NEW c \in A PROVE c.req \in R
  <2>1. s.at < c.req /\ c.req < c.at BY <1>1, <1>2, <1>3 DEF Stamps
  <2>2. Recent(c.req) BY <1>1, <1>3, <2>1, TimeFacts DEF Recent
  <2>3. c.req \in ledger BY <1>2, <2>2 DEF Charged
  <2>4. c.req # asked BY <1>2, <1>3, <1>4, <2>1 DEF Stamps
  <2> QED BY <2>2, <2>3, <2>4 DEF SpentRestarts
<1>6. ASSUME NEW c \in A, NEW d \in A, c.req = d.req PROVE c = d
  <2>1. c.at = d.at
    BY <1>2, <1>3, <1>6 DEF Stamps
  <2> QED BY <1>2, <2>1 DEF Stamps
<1>7. Cardinality(A) <= Cardinality(R) /\ Cardinality(A) \in Nat
  <2>1. f \in [A -> R] BY <1>5
  <2>2. \A c, d \in A : f[c] = f[d] => c = d BY <1>6
  <2>3. f \in Injection(A, R)
    <3> HIDE DEF f
    <3> QED BY <2>1, <2>2, Fun_IsInj
  <2>4. IsFiniteSet(R) BY SpentFinite, FS_RemoveElement
  <2> HIDE DEF f, R
  <2> QED BY <2>3, <2>4, FS_Injection, FS_CardinalityType
<1>8. CASE asked # 0
  <2>1. s.at < asked BY <1>1, <1>8 DEF Stamps
  <2>2. Recent(asked) BY <1>1, <1>4, <2>1, TimeFacts DEF Recent
  <2>3. asked \in SpentRestarts BY <1>8, <2>2 DEF Charged, SpentRestarts
  <2>4. Cardinality(R) = Cardinality(SpentRestarts) - 1
    BY <2>3, SpentFinite, FS_RemoveElement
  <2> QED BY <1>7, <1>8, <2>4, SpentFinite, TimeFacts DEF Fits, A
<1>9. CASE asked = 0
  <2>1. IsFiniteSet(R) /\ Cardinality(R) <= Cardinality(SpentRestarts)
    BY SpentFinite, FS_Subset
  <2>2. Cardinality(R) \in Nat
    BY <2>1, FS_CardinalityType
  <2> QED BY <1>7, <1>9, <2>1, <2>2, SpentFinite, TimeFacts DEF Fits, A
<1> QED BY <1>8, <1>9

\* The oldest start counted and those after it.
LEMMA OldestStart ==
  ASSUME TypeOK, Stamps, Counted # {}
  PROVE  \E s \in Counted : {c \in Counted : c.at > s.at} = Counted \ {s}
<1>1. Counted \subseteq starts /\ \A c \in Counted : c.at \in Nat
  BY StampNumbers DEF Counted
<1> DEFINE Stamped == {c.at : c \in Counted}
<1>2. PICK m \in Stamped : \A k \in Stamped : m <= k
  BY <1>1, LeastNumber
<1>3. PICK s \in Counted : s.at = m
  BY <1>2
<1>4. ASSUME NEW c \in Counted PROVE c.at > s.at <=> c # s
  BY <1>1, <1>2, <1>3 DEF Stamps
<1> QED BY <1>3, <1>4

\* A refused start: of the starts after the oldest at most the budget were
\* asked for, so the rest of them were not.
LEMMA ReserveHolds ==
  ASSUME LifeInv, Next, phase' = "failed", phase # "failed", intact
  PROVE  \E oldest \in Counted :
           LET later == {c \in Counted : c.at > oldest.at}
           IN  /\ later = Counted \ {oldest}
               /\ Cardinality(later \ Asked(later))
                    + (IF asked = 0 THEN 1 ELSE 0) >= Burst - Budget
<1> USE DEF LifeInv
<1>1. Cardinality(Counted) >= Burst
  <2>1. \E r : StartUnit(r) /\ ~(Cardinality(Counted) < Burst)
    BY DEF Next, Systemd, SystemdStarts, OperatorStarts, OperatorResets,
       Engine, Outside, StartUnit, Fails, StartupSucceeds, StartupRefuses,
       RestartRefused, RestartGranted, RestartUnrecorded, StopCommand,
       HaltCommand, ResumeCommand, Kill, LeaveLoop, Exit, Tick, ClearByHand,
       Interrupt, Crash, unit
  <2>2. Cardinality(Counted) \in Nat
    <3>1. Counted \in SUBSET starts BY DEF Counted
    <3> QED BY <3>1, StartsFinite
  <2> QED BY <2>1, <2>2, TimeFacts
<1>2. IsFiniteSet(Counted)
  <2>1. Counted \in SUBSET starts BY DEF Counted
  <2> QED BY <2>1, StartsFinite
<1>3. Counted # {} BY <1>1, TimeFacts, FS_EmptySet
<1>4. PICK oldest \in Counted :
           {c \in Counted : c.at > oldest.at} = Counted \ {oldest}
  BY <1>3, OldestStart
<1> DEFINE later == Counted \ {oldest}
           wait == IF asked # 0 THEN 1 ELSE 0
<1>5. Cardinality(Asked(later)) + wait <= Budget
  BY <1>4, BudgetHolds DEF RestartsFitBudget
<1>6. IsFiniteSet(later) /\ Cardinality(later) = Cardinality(Counted) - 1
  BY <1>2, FS_RemoveElement
<1>7. Cardinality(later \ Asked(later))
        = Cardinality(later) - Cardinality(Asked(later))
  <2>1. later \cap Asked(later) = Asked(later) BY DEF Asked
  <2> HIDE DEF later
  <2>2. Cardinality(later \ Asked(later))
          = Cardinality(later) - Cardinality(later \cap Asked(later))
    BY <1>6, FS_Difference, Zenon
  <2> QED BY <2>1, <2>2, Zenon
<1>8. Cardinality(Asked(later)) \in Nat
  <2>1. Asked(later) \in SUBSET later BY DEF Asked
  <2> HIDE DEF later
  <2> QED BY <1>6, <2>1, FS_Subset, FS_CardinalityType
<1>9. Cardinality(Counted) \in Nat BY <1>2, FS_CardinalityType
<1> HIDE DEF later
<1>10. Cardinality(later \ Asked(later)) + (IF asked = 0 THEN 1 ELSE 0)
         >= Burst - Budget
  BY <1>1, <1>5, <1>6, <1>7, <1>8, <1>9, TimeFacts
<1> QED BY <1>4, <1>10 DEF later

-------------------------------------------------------------------------------
(* The invariant is inductive.                                             *)

\* A step that takes time moves the clock within its bound.
LEMMA ElapseFacts ==
  ASSUME TypeOK, Elapse
  PROVE  now \in 0 .. Horizon /\ now' \in Time /\ now' = now + 1
<1>1. Horizon \in Nat BY TimeFacts
<1>2. now \in 1 .. Horizon + 1 BY DEF TypeOK, Time
<1> QED BY <1>1, <1>2 DEF Elapse, Time

\* What a failure leaves for systemd.
LEMMA FailsFacts ==
  ASSUME TypeOK, Fails
  PROVE  ready' \in 0 .. Horizon + 1 + RestartSec /\ phase' = "waiting"
<1>1. Horizon \in Nat /\ RestartSec \in Nat BY TimeFacts
<1>2. now \in 1 .. Horizon + 1 BY DEF TypeOK, Time
<1> QED BY <1>1, <1>2 DEF Fails

\* A start whatever its outcome keeps the types.
LEMMA StartTypes ==
  ASSUME TypeOK, Elapse, NEW r \in 0 .. Horizon, StartUnit(r)
  PROVE  /\ phase' \in {"starting", "failed"}
         /\ starts' \subseteq [at : Time, req : 0 .. Horizon]
         /\ asked' \in 0 .. Horizon /\ stopping' \in BOOLEAN
         /\ code' \in {0, RESTART_EXIT_CODE}
<1>1. now \in Time BY DEF TypeOK
<1>2. Counted \subseteq [at : Time, req : 0 .. Horizon]
  BY DEF TypeOK, Counted
<1>3. [at |-> now, req |-> r] \in [at : Time, req : 0 .. Horizon]
  BY <1>1
<1>4. 0 \in 0 .. Horizon BY TimeFacts
<1> QED
  BY <1>2, <1>3, <1>4 DEF TypeOK, StartUnit, NewProcess, process

\* Types, step by step.
LEMMA TypeStep ==
  ASSUME TypeOK, [Next]_vars
  PROVE  TypeOK'
<1>1. CASE UNCHANGED vars
  BY <1>1 DEF vars, unit, file, process, TypeOK
<1>2. CASE SystemdStarts \/ OperatorStarts
  <2>1. PICK r \in 0 .. Horizon : StartUnit(r)
    BY <1>2, TimeFacts DEF SystemdStarts, OperatorStarts, TypeOK
  <2>2. Elapse /\ UNCHANGED <<ready, file, halted>>
        /\ told' \in {"", "back", "stays"}
    BY <1>2 DEF SystemdStarts, OperatorStarts, TypeOK
  <2> QED
    BY <2>1, <2>2, StartTypes, ElapseFacts DEF TypeOK, file
<1>3. CASE OperatorResets
  <2>1. Elapse /\ now \in Time /\ 0 \in 0 .. Horizon
    BY <1>3, TimeFacts DEF OperatorResets, TypeOK
  <2>2. starts' \subseteq [at : Time, req : 0 .. Horizon]
    <3>1. [at |-> now, req |-> 0] \in [at : Time, req : 0 .. Horizon]
      BY <2>1
    <3> QED BY <1>3, <3>1 DEF OperatorResets
  <2> QED
    BY <1>3, <2>1, <2>2, ElapseFacts
       DEF OperatorResets, NewProcess, TypeOK, file
<1>4. CASE RestartGranted \/ RestartUnrecorded
  <2>1. Elapse /\ now \in Time
    BY <1>4 DEF RestartGranted, RestartUnrecorded, TypeOK
  <2>2. ledger' \subseteq Time /\ intact' \in BOOLEAN
    BY <1>4, <2>1 DEF RestartGranted, RestartUnrecorded, SpentRestarts, TypeOK
  <2>3. asked' \in 0 .. Horizon /\ told' \in {"", "back", "stays"}
        /\ stopping' \in BOOLEAN /\ code' \in {0, RESTART_EXIT_CODE}
    BY <1>4, <2>1, ElapseFacts
       DEF RestartGranted, RestartUnrecorded, Grant, RequestStop, process,
           TypeOK
  <2>4. /\ phase' \in {"running", "waiting"}
        /\ ready' \in 0 .. Horizon + 1 + RestartSec
        /\ starts' = starts /\ halted' = halted
    BY <1>4, FailsFacts DEF RestartGranted, RestartUnrecorded, TypeOK
  <2> QED BY <2>1, <2>2, <2>3, <2>4, ElapseFacts DEF TypeOK
<1>5. CASE Tick \/ RestartRefused
  BY <1>5, ElapseFacts
     DEF Tick, RestartRefused, unit, file, process, TypeOK
<1>6. CASE StartupSucceeds \/ StopCommand \/ Kill \/ HaltCommand \/
           ResumeCommand \/ ClearByHand \/ LeaveLoop \/ Interrupt
  BY <1>6, TimeFacts
     DEF StartupSucceeds, StopCommand, RequestStop, Kill, HaltCommand,
         ResumeCommand, ClearByHand, LeaveLoop, Interrupt, unit, file,
         process, TypeOK
<1>7. CASE StartupRefuses \/ Exit \/ Crash
  BY <1>7, FailsFacts
     DEF StartupRefuses, Exit, Crash, file, process, TypeOK
<1> QED
  BY <1>1, <1>2, <1>3, <1>4, <1>5, <1>6, <1>7
     DEF Next, Systemd, Engine, Outside

\* The order of the stamps, step by step.
LEMMA StampsStep ==
  ASSUME TypeOK, Stamps, [Next]_vars
  PROVE  Stamps'
<1>0. /\ now \in Nat /\ asked \in Nat /\ now > 0
      /\ \A s \in starts : s.at \in Nat /\ s.req \in Nat
      /\ \A t \in ledger : t \in Nat
  BY StampNumbers, TimeFacts DEF TypeOK
<1>1. CASE UNCHANGED <<now, starts, asked, ledger>>
  BY <1>1 DEF Stamps
<1>2. CASE Tick \/ RestartRefused
  BY <1>0, <1>2 DEF Tick, RestartRefused, Elapse, unit, file, Stamps
<1>3. CASE SystemdStarts \/ OperatorStarts
  <2>1. PICK r \in {0, asked} : StartUnit(r)
    BY <1>3 DEF SystemdStarts, OperatorStarts
  <2>2. now' = now + 1 /\ ledger' = ledger
    BY <1>3 DEF SystemdStarts, OperatorStarts, Elapse, file
  <2>3. \/ starts' = starts /\ asked' = asked
        \/ /\ starts' \subseteq starts \union {[at |-> now, req |-> r]}
           /\ asked' = 0
    BY <2>1 DEF StartUnit, Counted
  <2> DEFINE new == [at |-> now, req |-> r]
  <2>4. new.at = now /\ new.req = r OBVIOUS
  <2> HIDE DEF new
  <2>5. r # 0 => r = asked /\ r < now /\ \A s \in starts : s.at < r
    BY DEF Stamps
  <2>6. \A s \in starts : s.at < new.at
    BY <2>4 DEF Stamps
  <2>7. CASE starts' = starts /\ asked' = asked
    BY <1>0, <2>2, <2>7 DEF Stamps
  <2>8. CASE starts' \subseteq starts \union {new} /\ asked' = 0
    <3>1. ASSUME NEW s \in starts' PROVE s.at < now' /\ s.req < s.at
      BY <1>0, <2>2, <2>4, <2>5, <2>8 DEF Stamps
    <3>2. ASSUME NEW s \in starts', NEW c \in starts', s.at = c.at
          PROVE  s = c
      BY <1>0, <2>4, <2>6, <2>8, <3>2 DEF Stamps
    <3>3. ASSUME NEW s \in starts', NEW c \in starts', s.at < c.at,
                 c.req # 0
          PROVE  s.at < c.req
      BY <1>0, <2>4, <2>5, <2>6, <2>8, <3>3 DEF Stamps
    <3>4. \A t \in ledger' : t < now' BY <1>0, <2>2 DEF Stamps
    <3> QED BY <2>8, <3>1, <3>2, <3>3, <3>4 DEF Stamps
  <2> QED BY <2>3, <2>7, <2>8 DEF new
<1>4. CASE OperatorResets
  <2>1. /\ now' = now + 1 /\ ledger' = ledger /\ asked' = 0
        /\ starts' = {[at |-> now, req |-> 0]}
    BY <1>4 DEF OperatorResets, Elapse, file
  <2>2. \A s \in starts' : s.at = now /\ s.req = 0 BY <2>1
  <2> QED BY <1>0, <2>1, <2>2 DEF Stamps
<1>5. CASE RestartGranted \/ RestartUnrecorded
  BY <1>0, <1>5
     DEF RestartGranted, RestartUnrecorded, Grant, Elapse, SpentRestarts,
         Stamps
<1>6. CASE Interrupt
  BY <1>6 DEF Interrupt, file, Stamps
<1> QED
  BY <1>1, <1>2, <1>3, <1>4, <1>5, <1>6
     DEF Next, Systemd, Engine, Outside, vars, unit, file, StartupSucceeds,
         StartupRefuses, StopCommand, HaltCommand, ResumeCommand, Kill,
         LeaveLoop, Exit, ClearByHand, Crash

\* No recent request leaves the ledger, step by step.
LEMMA ChargedStep ==
  ASSUME TypeOK, Stamps, Charged, [Next]_vars
  PROVE  Charged'
<1>0. /\ now \in Nat /\ Interval \in Nat /\ asked \in Nat
      /\ \A s \in starts : s.req \in Nat
  BY StampNumbers, TimeFacts
<1>1. ASSUME NEW t \in Nat, Recent(t)', now' \in {now, now + 1}
      PROVE  Recent(t)
  <2>1. now' - t < Interval BY <1>1 DEF Recent
  <2>2. now' = now \/ now' = now + 1 BY <1>1
  <2>3. now \in Nat /\ Interval \in Nat /\ t \in Nat BY <1>0
  <2>4. now - t < Interval BY <2>1, <2>2, <2>3
  <2> QED BY <2>4 DEF Recent
<1>2. CASE /\ ledger' = ledger /\ intact' = intact
           /\ now' \in {now, now + 1} /\ starts' = starts
           /\ asked' \in {0, asked}
  BY <1>0, <1>1, <1>2 DEF Charged
<1>3. CASE SystemdStarts \/ OperatorStarts
  <2>1. PICK r \in {0, asked} : StartUnit(r)
    BY <1>3 DEF SystemdStarts, OperatorStarts
  <2>2. now' = now + 1 /\ ledger' = ledger /\ intact' = intact
    BY <1>3 DEF SystemdStarts, OperatorStarts, Elapse, file
  <2>3. \/ starts' = starts /\ asked' = asked
        \/ /\ starts' \subseteq starts \union {[at |-> now, req |-> r]}
           /\ asked' = 0
    BY <2>1 DEF StartUnit, Counted
  <2>4. ASSUME NEW s \in starts', s.req # 0, intact'
        PROVE  s.req \in ledger' \/ ~Recent(s.req)'
    <3>1. s \in starts \/ s.req = r BY <2>3
    <3> QED BY <1>0, <1>1, <2>2, <2>4, <3>1 DEF Charged
  <2>5. ASSUME asked' # 0, intact'
        PROVE  asked' \in ledger' \/ ~Recent(asked)'
    BY <1>0, <1>1, <2>2, <2>3, <2>5 DEF Charged, Recent
  <2> QED BY <2>4, <2>5 DEF Charged
<1>4. CASE OperatorResets
  <2>1. starts' = {[at |-> now, req |-> 0]} /\ asked' = 0
    BY <1>4 DEF OperatorResets
  <2>2. \A s \in starts' : s.req = 0 BY <2>1
  <2> QED BY <2>1, <2>2 DEF Charged
<1>5. CASE RestartGranted
  <2>1. now' = now + 1 /\ starts' = starts /\ intact' = intact
        /\ ledger' = SpentRestarts \union {now} /\ asked' \in {asked, now}
    BY <1>5 DEF RestartGranted, Grant, Elapse
  <2>2. ASSUME NEW t \in Nat, t \in ledger \/ ~Recent(t)
        PROVE  t \in ledger' \/ ~Recent(t)'
    BY <1>1, <2>1, <2>2 DEF SpentRestarts
  <2>3. ASSUME intact', asked' # 0
        PROVE  asked' \in ledger' \/ ~Recent(asked)'
    <3>1. CASE asked' = now BY <2>1, <3>1
    <3>2. CASE asked' = asked
      <4>1. asked \in ledger' \/ ~Recent(asked)'
        BY <1>0, <1>1, <2>1, <2>3, <3>2 DEF Charged, SpentRestarts, Recent
      <4> QED BY <3>2, <4>1
    <3> QED BY <2>1, <3>1, <3>2
  <2>4. ASSUME intact', NEW s \in starts', s.req # 0
        PROVE  s.req \in ledger' \/ ~Recent(s.req)'
    BY <1>0, <2>1, <2>2, <2>4 DEF Charged
  <2> QED BY <2>3, <2>4 DEF Charged
<1>6. CASE RestartUnrecorded
  BY <1>6 DEF RestartUnrecorded, Charged
<1> QED
  BY <1>2, <1>3, <1>4, <1>5, <1>6
     DEF Next, Systemd, Engine, Outside, vars, unit, file, Elapse, Tick,
         RestartRefused, StartupSucceeds, StartupRefuses, StopCommand,
         HaltCommand, ResumeCommand, Kill, LeaveLoop, Exit, ClearByHand,
         Interrupt, Crash

\* The ledger stays within the budget, step by step: it grows only when it
\* holds less, and otherwise time only takes stamps away.
LEMMA FitsStep ==
  ASSUME TypeOK, TypeOK', Fits, [Next]_vars
  PROVE  Fits'
<1>0. /\ now \in Nat /\ Interval \in Nat /\ Budget \in Nat
      /\ \A t \in ledger : t \in Nat
      /\ IsFiniteSet(SpentRestarts) /\ Cardinality(SpentRestarts) \in Nat
  BY StampNumbers, TimeFacts, SpentFinite DEF TypeOK
<1>1. CASE ledger' \subseteq ledger /\ now' \in {now, now + 1}
  <2>1. SpentRestarts' \in SUBSET SpentRestarts
    BY <1>0, <1>1 DEF SpentRestarts, Recent
  <2>2. Cardinality(SpentRestarts') <= Cardinality(SpentRestarts)
        /\ Cardinality(SpentRestarts') \in Nat
    BY <1>0, <2>1, FS_Subset, FS_CardinalityType
  <2> QED BY <1>0, <2>2 DEF Fits
<1>2. CASE RestartGranted
  <2>1. now' = now + 1 /\ ledger' = SpentRestarts \union {now}
        /\ Cardinality(SpentRestarts) < Budget
    BY <1>2 DEF RestartGranted, Elapse
  <2>2. SpentRestarts' \in SUBSET (SpentRestarts \union {now})
    BY <2>1 DEF SpentRestarts
  <2>3. IsFiniteSet(SpentRestarts \union {now})
        /\ Cardinality(SpentRestarts \union {now}) <= Budget
        /\ Cardinality(SpentRestarts \union {now}) \in Nat
    <3>1. /\ IsFiniteSet(SpentRestarts \union {now})
          /\ \/ Cardinality(SpentRestarts \union {now})
                  = Cardinality(SpentRestarts)
             \/ Cardinality(SpentRestarts \union {now})
                  = Cardinality(SpentRestarts) + 1
      BY <1>0, FS_AddElement
    <3> QED BY <1>0, <2>1, <3>1
  <2>4. Cardinality(SpentRestarts')
          <= Cardinality(SpentRestarts \union {now})
        /\ Cardinality(SpentRestarts') \in Nat
    BY <2>2, <2>3, FS_Subset, FS_CardinalityType
  <2> QED BY <1>0, <2>3, <2>4 DEF Fits
<1>3. CASE ~RestartGranted
  <2>1. ledger' \subseteq ledger /\ now' \in {now, now + 1}
    BY <1>3
       DEF Next, Systemd, Engine, Outside, vars, unit, file, Elapse,
           SystemdStarts, OperatorStarts, OperatorResets, RestartUnrecorded,
           Tick, RestartRefused, StartupSucceeds, StartupRefuses,
           StopCommand, HaltCommand, ResumeCommand, Kill, LeaveLoop, Exit,
           ClearByHand, Interrupt, Crash
  <2> QED BY <1>1, <2>1
<1> QED BY <1>2, <1>3

-------------------------------------------------------------------------------
(* The theorems.                                                           *)

\* The invariant holds initially and is kept by every step.
THEOREM LifeInvariant == Spec => []LifeInv
<1>1. Init => LifeInv
  <2> SUFFICES ASSUME Init PROVE LifeInv OBVIOUS
  <2>0. 1 \in Time /\ 0 \in 0 .. Horizon + 1 + RestartSec
    BY TimeFacts DEF Time
  <2>1. TypeOK BY <2>0, TimeFacts DEF Init, TypeOK
  <2>2. SpentRestarts = {} BY DEF Init, SpentRestarts
  <2>3. Fits BY <2>2, FS_EmptySet, TimeFacts DEF Fits
  <2> QED BY <2>1, <2>3 DEF Init, LifeInv, Stamps, Charged
<1>2. LifeInv /\ [Next]_vars => LifeInv'
  BY TypeStep, StampsStep, ChargedStep, FitsStep DEF LifeInv
<1> QED BY <1>1, <1>2, PTL DEF Spec

\* Type correctness.
THEOREM LifecycleTypes == Spec => []TypeOK
<1>1. LifeInv => TypeOK BY DEF LifeInv
<1> QED BY <1>1, LifeInvariant, PTL

\* At most the budget of the starts after any one counted were asked for,
\* whatever the window, the limit, the delays and the failures in between.
THEOREM RestartsStayInBudget == Spec => []RestartsFitBudget
BY LifeInvariant, BudgetHolds, PTL

\* A unit that runs out of starts has had Burst - Budget of its last Burst
\* starts without anybody asking for them.
THEOREM ReserveOutlasts == Spec => ReserveOutlastsRestarts
<1> DEFINE Held ==
      (phase' = "failed" /\ phase # "failed" /\ intact) =>
        \E oldest \in Counted :
          LET later == {c \in Counted : c.at > oldest.at}
          IN  /\ later = Counted \ {oldest}
              /\ Cardinality(later \ Asked(later))
                   + (IF asked = 0 THEN 1 ELSE 0) >= Burst - Budget
<1>1. LifeInv /\ [Next]_vars => [Held]_vars
  BY ReserveHolds
<1> QED BY <1>1, LifeInvariant, PTL DEF Spec, ReserveOutlastsRestarts

-------------------------------------------------------------------------------
(* The feed: two things may see an entry fill, and one of them counts it.  *)
(* Module Feed is taken over variables of its own, as F.                   *)
(*                                                                         *)
(* What is tracked and has not been seen to fill has not been counted      *)
(* (Uncounted): place() numbers an entry that was never numbered before,   *)
(* nothing tracks a number twice but the watchdog, and what the watchdog   *)
(* adopts has filled.  No event need be remembered for that.               *)

CONSTANTS Lot, MaxTrades, MaxQueue, MaxFaults
VARIABLES dry, ex, sock, follow, q, book, pending, eng, tally, faults

F == INSTANCE Feed

FeedRecords ==
  /\ {"last", "rest", "legs"} \subseteq DOMAIN ex
  /\ {"fills", "booked", "cooled"} \subseteq DOMAIN tally
  /\ {"on", "filled", "since"} \subseteq DOMAIN book
  /\ ex.last \in 0 .. MaxTrades /\ tally.fills \in [F!Trades -> Nat]

\* A number that was not given out yet has not been counted.
Unnumbered == \A k \in F!Trades : k > ex.last => tally.fills[k] = 0

\* What is tracked and was not seen to fill has not been counted.
Uncounted ==
  book.on => \/ book.filled
             \/ book.since \in 1 .. ex.last /\ tally.fills[book.since] = 0

FeedInv ==
  ~dry => /\ FeedRecords /\ Unnumbered /\ Uncounted
          /\ \A k \in F!Trades : tally.fills[k] <= 1

\* Initially nothing is counted.
LEMMA FeedInit ==
  ASSUME MaxTrades \in Nat, F!Init
  PROVE  FeedInv
BY DEF F!Init, F!NoTrade, F!NoPos, F!Trades, FeedInv, FeedRecords,
   Unnumbered, Uncounted

\* A step that counts nothing, and tracks nothing new that has not filled.
LEMMA FeedQuiet ==
  ASSUME FeedInv, dry' = dry, tally'.fills = tally.fills,
         ex'.last = ex.last,
         {"last", "rest", "legs"} \subseteq DOMAIN ex',
         {"fills", "booked", "cooled"} \subseteq DOMAIN tally',
         {"on", "filled", "since"} \subseteq DOMAIN book',
         \/ ~book'.on \/ book'.filled
         \/ book'.on = book.on /\ book'.filled = book.filled
            /\ book'.since = book.since
  PROVE  FeedInv'
BY DEF FeedInv, FeedRecords, Unnumbered, Uncounted

\* Whoever counts a fill sees a position that was not seen to fill.
LEMMA FeedCounts ==
  ASSUME MaxTrades \in Nat, FeedInv, book.on, ~book.filled, dry' = dry,
         ex' = ex, NEW n, F!Filled(n)
  PROVE  FeedInv'
<1> SUFFICES ASSUME ~dry PROVE FeedInv'
  BY DEF FeedInv
<1>1. /\ FeedRecords /\ Unnumbered
      /\ \A k \in F!Trades : tally.fills[k] <= 1
      /\ book.since \in 1 .. ex.last /\ tally.fills[book.since] = 0
  BY DEF FeedInv, Uncounted
<1>2. book'.filled /\ {"on", "filled", "since"} \subseteq DOMAIN book'
  BY <1>1 DEF F!Filled, FeedRecords
<1>3. /\ tally'.fills = [tally.fills EXCEPT ![book.since] = @ + 1]
      /\ {"fills", "booked", "cooled"} \subseteq DOMAIN tally'
  BY <1>1 DEF F!Filled, F!Counted, FeedRecords
<1>4. ASSUME NEW k \in F!Trades
      PROVE  tally'.fills[k] = IF k = book.since THEN 1 ELSE tally.fills[k]
  BY <1>1, <1>3 DEF FeedRecords
<1>5. tally'.fills \in [F!Trades -> Nat]
  <2> DEFINE f == tally.fills
  <2>1. f \in [F!Trades -> Nat] /\ f[book.since] = 0
    BY <1>1 DEF FeedRecords
  <2> HIDE DEF f
  <2>2. [f EXCEPT ![book.since] = 1] \in [F!Trades -> Nat]
    BY <2>1
  <2> QED BY <1>3, <2>1, <2>2 DEF f
<1>6. /\ \A k \in F!Trades : tally'.fills[k] <= 1
      /\ \A k \in F!Trades : k > ex.last => tally'.fills[k] = 0
  BY <1>1, <1>4 DEF FeedRecords, Unnumbered, F!Trades
<1> QED
  BY <1>1, <1>2, <1>3, <1>5, <1>6
  DEF FeedInv, FeedRecords, Unnumbered, Uncounted

\* release() forgets what is tracked, and the count stays.
LEMMA FeedReleases ==
  ASSUME FeedInv, dry' = dry, ex'.last = ex.last,
         {"last", "rest", "legs"} \subseteq DOMAIN ex',
         NEW t, F!Releases(t), t.fills = tally.fills,
         {"fills", "booked", "cooled"} \subseteq DOMAIN t
  PROVE  FeedInv'
<1>1. ~book'.on /\ {"on", "filled", "since"} \subseteq DOMAIN book'
  BY DEF F!Releases, F!NoPos
<1>2. /\ tally'.fills = t.fills
      /\ {"fills", "booked", "cooled"} \subseteq DOMAIN tally'
  BY DEF F!Releases
<1> QED BY <1>1, <1>2, FeedQuiet

\* What a close books leaves the count of the fills alone.
LEMMA FeedBooks ==
  ASSUME FeedRecords, NEW ks
  PROVE  /\ F!Booked(tally, ks).fills = tally.fills
         /\ {"fills", "booked", "cooled"} \subseteq DOMAIN F!Booked(tally, ks)
BY DEF F!Booked, FeedRecords

\* Taking every order of the symbol back gives out no number.
LEMMA FeedCancels ==
  ASSUME NEW x, {"last", "rest", "legs"} \subseteq DOMAIN x
  PROVE  /\ F!Cancelled(x).last = x.last
         /\ {"last", "rest", "legs"} \subseteq DOMAIN F!Cancelled(x)
BY DEF F!Cancelled

\* The socket thread, the exchange, and what the engine does on its way.
LEMMA FeedAside ==
  ASSUME FeedInv,
         \/ F!Socket \/ F!Dies \/ F!KeepaliveFails \/ F!Tick \/ F!Exchange
         \/ F!Follow \/ F!Subscribe \/ F!ReadPositions \/ F!ReadOrders
  PROVE  FeedInv'
<1> SUFFICES ASSUME ~dry PROVE FeedInv'
  BY DEF FeedInv, F!Socket, F!BuildUrl, F!Connected, F!Reconnects, F!Dies,
     F!KeepaliveFails, F!Tick, F!Exchange, F!EntryFills, F!LegFires,
     F!Follow, F!Subscribe, F!ReadPositions, F!ReadOrders, F!stream
<1>1. FeedRecords BY DEF FeedInv
<1>2. dry' = dry /\ tally' = tally /\ book' = book
  BY DEF F!Socket, F!BuildUrl, F!Connected, F!Reconnects, F!Dies,
     F!KeepaliveFails, F!Tick, F!Exchange, F!EntryFills, F!LegFires,
     F!Follow, F!Subscribe, F!ReadPositions, F!ReadOrders, F!stream
<1>3. CASE F!Exchange
  <2>1. /\ ex'.last = ex.last
        /\ {"last", "rest", "legs"} \subseteq DOMAIN ex'
    BY <1>1, <1>3 DEF F!Exchange, F!EntryFills, F!LegFires, FeedRecords
  <2> QED BY <1>1, <1>2, <2>1, FeedQuiet DEF FeedRecords
<1>4. CASE ~F!Exchange
  <2>1. ex' = ex
    BY <1>4 DEF F!Socket, F!BuildUrl, F!Connected, F!Reconnects, F!Dies,
       F!KeepaliveFails, F!Tick, F!Follow, F!Subscribe, F!ReadPositions,
       F!ReadOrders, F!stream
  <2> QED BY <1>1, <1>2, <2>1, FeedQuiet DEF FeedRecords
<1> QED BY <1>3, <1>4

\* place() numbers an entry that nothing has counted.
LEMMA FeedEnters ==
  ASSUME MaxTrades \in Nat, FeedInv, F!Enter
  PROVE  FeedInv'
<1> SUFFICES ASSUME ~dry PROVE FeedInv'
  BY DEF FeedInv, F!Enter
<1>1. /\ FeedRecords /\ Unnumbered
      /\ \A k \in F!Trades : tally.fills[k] <= 1
  BY DEF FeedInv
<1>2. /\ ex.last < MaxTrades /\ dry' = dry /\ tally' = tally
      /\ ex' = [ex EXCEPT !.last = ex.last + 1, !.rest[ex.last + 1] = Lot,
                          !.legs[ex.last + 1] = 2]
  BY DEF F!Enter
<1>3. /\ ex'.last = ex.last + 1
      /\ {"last", "rest", "legs"} \subseteq DOMAIN ex'
  BY <1>1, <1>2 DEF FeedRecords
<1>4. /\ book'.on /\ ~book'.filled /\ book'.since = ex.last + 1
      /\ {"on", "filled", "since"} \subseteq DOMAIN book'
  BY DEF F!Enter
<1>5. ex.last + 1 \in F!Trades /\ tally.fills[ex.last + 1] = 0
  BY <1>1, <1>2 DEF FeedRecords, Unnumbered, F!Trades
<1> QED
  BY <1>1, <1>2, <1>3, <1>4, <1>5
  DEF FeedInv, FeedRecords, Unnumbered, Uncounted, F!Trades

\* One event of the queue.
LEMMA FeedHandles ==
  ASSUME MaxTrades \in Nat, FeedInv, F!Handle
  PROVE  FeedInv'
<1>1. dry' = dry /\ ex' = ex
  BY DEF F!Handle, F!OnOrder, F!Ignore, F!PartFilled, F!EntryFilled,
     F!ExitFilled, F!SimulateEntry, F!SimulateExit, F!Takes
<1> SUFFICES ASSUME ~dry PROVE FeedInv'
  BY <1>1 DEF FeedInv
<1>2. FeedRecords BY DEF FeedInv
<1>3. CASE F!Ignore
  BY <1>1, <1>2, <1>3, FeedQuiet DEF F!Ignore, FeedRecords
<1>4. CASE F!PartFilled
  <2>1. /\ tally' = tally /\ book'.on = book.on
        /\ book'.filled = book.filled /\ book'.since = book.since
        /\ {"on", "filled", "since"} \subseteq DOMAIN book'
    BY <1>2, <1>4 DEF F!PartFilled, FeedRecords
  <2> QED BY <1>1, <1>2, <2>1, FeedQuiet DEF FeedRecords
<1>5. CASE F!EntryFilled
  <2>1. CASE book.filled
    <3>1. book' = book /\ tally' = tally
      BY <1>5, <2>1 DEF F!EntryFilled
    <3> QED BY <1>1, <1>2, <3>1, FeedQuiet DEF FeedRecords
  <2>2. CASE ~book.filled
    <3>1. book.on /\ F!Filled(Head(q).cum)
      BY <1>5, <2>2 DEF F!EntryFilled
    <3> QED BY <1>1, <2>2, <3>1, FeedCounts
  <2> QED BY <2>1, <2>2
<1>6. CASE F!ExitFilled
  <2>1. F!Releases(F!Booked(tally, {Head(q).trade}))
    BY <1>6 DEF F!ExitFilled
  <2> QED BY <1>1, <1>2, <2>1, FeedBooks, FeedReleases DEF FeedRecords
<1>7. ~F!SimulateEntry /\ ~F!SimulateExit
  BY DEF F!SimulateEntry, F!SimulateExit
<1> QED
  BY <1>3, <1>4, <1>5, <1>6, <1>7 DEF F!Handle, F!OnOrder

\* What the reconcile decides once it has read positions and orders.
LEMMA FeedReconciles ==
  ASSUME MaxTrades \in Nat, FeedInv,
         F!Confirm \/ F!StillRests \/ F!Recheck \/ F!LetGo \/ F!Watch
  PROVE  FeedInv'
<1>1. dry' = dry
  BY DEF F!Confirm, F!StillRests, F!Recheck, F!LetGo, F!Watch, F!SeemsOver,
     F!Finishes
<1> SUFFICES ASSUME ~dry PROVE FeedInv'
  BY <1>1 DEF FeedInv
<1>2. FeedRecords BY DEF FeedInv
<1>3. /\ F!Cancelled(ex).last = ex.last
      /\ {"last", "rest", "legs"} \subseteq DOMAIN F!Cancelled(ex)
  BY <1>2, FeedCancels DEF FeedRecords
<1>4. CASE F!Confirm \/ F!Recheck
  <2>1. ex' = ex /\ book.on
    BY <1>4 DEF F!Confirm, F!Recheck, F!SeemsOver
  <2>2. CASE book' = book /\ tally' = tally
    BY <1>1, <1>2, <2>1, <2>2, FeedQuiet DEF FeedRecords
  <2>3. CASE ~book.filled /\ \E n : F!Filled(n)
    BY <1>1, <2>1, <2>3, FeedCounts
  <2> QED BY <1>4, <2>2, <2>3 DEF F!Confirm, F!Recheck
<1>5. CASE F!StillRests
  <2>1. CASE ex' = ex /\ book' = book /\ tally' = tally
    BY <1>1, <1>2, <2>1, FeedQuiet DEF FeedRecords
  <2>2. CASE ex' = F!Cancelled(ex) /\ F!Releases(tally)
    BY <1>1, <1>2, <1>3, <2>2, FeedReleases DEF FeedRecords
  <2> QED BY <1>5, <2>1, <2>2 DEF F!StillRests
<1>6. CASE F!LetGo
  <2>1. ex' \in {ex, F!Cancelled(ex)}
    BY <1>6 DEF F!LetGo
  <2>2. /\ ex'.last = ex.last
        /\ {"last", "rest", "legs"} \subseteq DOMAIN ex'
    BY <1>2, <1>3, <2>1 DEF FeedRecords
  <2>3. CASE F!Releases(tally)
    BY <1>1, <1>2, <2>2, <2>3, FeedReleases DEF FeedRecords
  <2>4. CASE F!Releases(F!Read(tally))
    <3>1. PICK ks : F!Releases(F!Booked(tally, ks))
      BY <2>4 DEF F!Read
    <3> QED BY <1>1, <1>2, <2>2, <3>1, FeedBooks, FeedReleases
  <2> QED BY <1>6, <2>3, <2>4 DEF F!LetGo
<1>7. CASE F!Watch
  <2>1. ex' = ex /\ tally' = tally
    BY <1>7 DEF F!Watch
  <2>2. CASE book' = book
    BY <1>1, <1>2, <2>1, <2>2, FeedQuiet DEF FeedRecords
  <2>3. CASE book' # book
    <3>1. book'.filled /\ {"on", "filled", "since"} \subseteq DOMAIN book'
      BY <1>7, <2>3 DEF F!Watch
    <3> QED BY <1>1, <1>2, <2>1, <3>1, FeedQuiet DEF FeedRecords
  <2> QED BY <2>2, <2>3
<1> QED BY <1>4, <1>5, <1>6, <1>7

\* A position the bot closes itself.
LEMMA FeedCloses ==
  ASSUME FeedInv, F!Close
  PROVE  FeedInv'
<1>1. dry' = dry /\ ~dry
  BY DEF F!Close
<1>2. FeedRecords BY <1>1 DEF FeedInv
<1>3. PICK ks : F!Releases(F!Booked(tally, ks))
  BY DEF F!Close
<1>4. PICK held, ended :
        ex' = F!Cancelled([ex EXCEPT !.amt = 0, !.held = held,
                                     !.ended = ended])
  BY DEF F!Close
<1> DEFINE x == [ex EXCEPT !.amt = 0, !.held = held, !.ended = ended]
<1>5. x.last = ex.last /\ {"last", "rest", "legs"} \subseteq DOMAIN x
  BY <1>2 DEF FeedRecords
<1> HIDE DEF x
<1>6. /\ ex'.last = ex.last
      /\ {"last", "rest", "legs"} \subseteq DOMAIN ex'
  <2>1. ex' = F!Cancelled(x)
    BY <1>4 DEF x
  <2> QED BY <2>1, <1>5, FeedCancels
<1> QED BY <1>1, <1>2, <1>3, <1>6, FeedBooks, FeedReleases

\* Every step keeps the invariant.
LEMMA FeedNext ==
  ASSUME MaxTrades \in Nat, FeedInv, [F!Next]_(F!vars)
  PROVE  FeedInv'
<1>1. CASE UNCHANGED F!vars
  BY <1>1 DEF F!vars, FeedInv, FeedRecords, Unnumbered, Uncounted
<1>2. CASE F!Next
  BY <1>2, FeedAside, FeedEnters, FeedHandles, FeedReconciles, FeedCloses
  DEF F!Next, F!Engine, F!Reconcile
<1> QED BY <1>1, <1>2

\* The queue and the reconcile may both see an entry fill; it is counted once
\* (engine.py, on_entry_filled from on_order, reconcile_book and the REST
\* recheck), for any queue, number of trades and faults.
THEOREM FillsAreCountedOnce ==
  MaxTrades \in Nat => (F!Spec => []F!FillCountedOnce)
<1> SUFFICES ASSUME MaxTrades \in Nat PROVE F!Spec => []F!FillCountedOnce
  OBVIOUS
<1>1. F!Init => FeedInv
  BY FeedInit
<1>2. FeedInv /\ [F!Next]_(F!vars) => FeedInv'
  BY FeedNext
<1>3. FeedInv => F!FillCountedOnce
  BY DEF FeedInv, F!FillCountedOnce
<1> QED BY <1>1, <1>2, <1>3, PTL DEF F!Spec
===============================================================================
