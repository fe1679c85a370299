------------------------------ MODULE Lifecycle ------------------------------
(***************************************************************************)
(* The bot as a systemd unit: starting, running, leaving, coming back.     *)
(*                                                                         *)
(* systemd allows Burst starts of the unit per Interval and counts them    *)
(* all alike: the operator's, those /restart asks for and those that       *)
(* follow a failure.  The interval begins with the first start that does   *)
(* not fall into the one before.  When the starts run out the unit is      *)
(* `failed`, and only a shell brings it back.  The bot keeps a ledger of   *)
(* the restarts it was asked for and refuses the one that would exceed     *)
(* RESTART_BUDGET, to leave the rest to crash recovery.  The two counts    *)
(* see different starts at different moments: the ledger notes the         *)
(* request, systemd the start that follows a shutdown and RestartSec       *)
(* later.                                                                  *)
(*                                                                         *)
(* A start and a request each take at least one tick, so no two of them    *)
(* carry the same time stamp.  Clock corrections are not modelled.         *)
(***************************************************************************)
EXTENDS Integers, FiniteSets

CONSTANTS
  Interval,    \* StartLimitIntervalSec = START_LIMIT_INTERVAL, in ticks
  Burst,       \* StartLimitBurst = START_LIMIT_BURST
  Budget,      \* RESTART_BUDGET
  RestartSec,  \* RestartSec of the unit, in ticks
  Fallible,    \* whether the process and the ledger may fail by themselves
  Horizon      \* bound: the last tick

ASSUME IntervalAssumption == Interval \in Nat \ {0}
ASSUME BurstAssumption    == Burst \in Nat \ {0}
ASSUME BudgetAssumption   == Budget \in 1 .. Burst
ASSUME DelayAssumption    == RestartSec \in Nat
ASSUME FailureAssumption  == Fallible \in BOOLEAN
ASSUME HorizonAssumption  == Horizon \in Nat \ {0}

VARIABLES
  now,       \* the clock
  phase,     \* of the unit
  starts,    \* those of systemd's last interval: when, and for which request
  ready,     \* the tick from which systemd may start the unit again
  asked,     \* the request the next start answers, 0 if none
  ledger,    \* data/restarts.json: when a restart was granted
  intact,    \* every restart granted so far has made it into the ledger
  stopping,  \* self._stopping
  code,      \* self._exit_code
  halted,    \* state.halted, on disk
  told       \* what the operator was last told: it will be "back", it "stays"

unit    == <<phase, starts, ready, asked>>
file    == <<ledger, intact>>
process == <<stopping, code>>
vars    == <<now, unit, file, process, halted, told>>

RESTART_EXIT_CODE == 75

Time == 1 .. Horizon + 1

TypeOK ==
  /\ now \in Time
  /\ phase \in {"starting", "running", "leaving", "waiting", "down", "failed"}
  /\ starts \subseteq [at : Time, req : 0 .. Horizon]
  /\ ready \in 0 .. Horizon + 1 + RestartSec
  /\ asked \in 0 .. Horizon
  /\ ledger \subseteq Time /\ intact \in BOOLEAN
  /\ stopping \in BOOLEAN /\ code \in {0, RESTART_EXIT_CODE}
  /\ halted \in BOOLEAN /\ told \in {"", "back", "stays"}

Init ==
  /\ now = 1 /\ phase = "down" /\ starts = {} /\ ready = 0 /\ asked = 0
  /\ ledger = {} /\ intact = TRUE
  /\ stopping = FALSE /\ code = 0
  /\ halted = FALSE /\ told = ""

-------------------------------------------------------------------------------
(* Time.                                                                   *)

\* A step that takes time: the clock moves on, up to the bound.
Elapse == now <= Horizon /\ now' = now + 1

Tick == Elapse /\ UNCHANGED <<unit, file, process, halted, told>>

\* Inside the window the ledger looks back over.
Recent(t) == now - t < Interval

-------------------------------------------------------------------------------
(* systemd.                                                                *)

\* The starts of the running interval; none once it is over.
Counted ==
  IF \A s \in starts : now - s.at <= Interval THEN starts ELSE {}

NewProcess == stopping' = FALSE /\ code' = 0

\* A start for request r (0: nobody asked), if the limit allows it.
StartUnit(r) ==
  IF Cardinality(Counted) < Burst
  THEN /\ phase' = "starting"
       /\ starts' = Counted \union {[at |-> now, req |-> r]}
       /\ asked' = 0 /\ NewProcess
  ELSE phase' = "failed" /\ UNCHANGED <<starts, asked, process>>

\* Restart=on-failure, after RestartSec.
SystemdStarts ==
  /\ phase = "waiting" /\ now >= ready
  /\ Elapse /\ StartUnit(asked)
  /\ UNCHANGED <<ready, file, halted, told>>

\* systemctl start, from a shell; a failed unit may still be over its limit.
OperatorStarts ==
  /\ phase \in {"down", "failed"}
  /\ Elapse /\ StartUnit(0) /\ told' = ""
  /\ UNCHANGED <<ready, file, halted>>

\* systemctl reset-failed, which clears the count, and then start.
OperatorResets ==
  /\ phase = "failed" /\ Elapse
  /\ phase' = "starting" /\ starts' = {[at |-> now, req |-> 0]}
  /\ asked' = 0 /\ NewProcess /\ told' = ""
  /\ UNCHANGED <<ready, file, halted>>

\* The unit has failed: it is started again RestartSec from now.
Fails == phase' = "waiting" /\ ready' = now + RestartSec

-------------------------------------------------------------------------------
(* The process.                                                            *)

\* run(): startup() succeeds, or it refuses or raises and the process exits 1.
\* A bot halted in an earlier run always refuses.
StartupSucceeds ==
  /\ phase = "starting" /\ ~halted /\ phase' = "running"
  /\ UNCHANGED <<now, starts, ready, asked, file, process, halted, told>>

StartupRefuses ==
  /\ phase = "starting" /\ (halted \/ Fallible) /\ Fails
  /\ UNCHANGED <<now, starts, asked, file, process, halted, told>>

\* request_stop(): the first reason to leave the loop is the one that counts.
RequestStop(exit) ==
  IF stopping THEN UNCHANGED process ELSE stopping' = TRUE /\ code' = exit

\* A granted restart: the operator is told, and the next start answers it
\* unless the process is leaving for another reason already.
Grant ==
  /\ RequestStop(RESTART_EXIT_CODE)
  /\ asked' = IF stopping THEN asked ELSE now
  /\ told' = "back"

SpentRestarts == {t \in ledger : Recent(t)}

\* request_restart(), refused: the budget is spent.  Nothing changes but the
\* time it takes.  Commands queued behind one that stops the loop still run.
RestartRefused ==
  /\ phase = "running" /\ Cardinality(SpentRestarts) >= Budget
  /\ Elapse
  /\ UNCHANGED <<unit, file, process, halted, told>>

\* (Slip: granted but never charged.)
RestartUncharged ==
  /\ phase = "running" /\ Cardinality(SpentRestarts) < Budget
  /\ Elapse /\ ledger' = SpentRestarts /\ Grant
  /\ UNCHANGED <<phase, starts, ready, intact, halted>>

\* (Slip: one more than the budget.)
RestartOneOver ==
  /\ phase = "running" /\ Cardinality(SpentRestarts) <= Budget
  /\ Elapse /\ ledger' = SpentRestarts \union {now} /\ Grant
  /\ UNCHANGED <<phase, starts, ready, intact, halted>>

\* request_restart(), granted and charged to the ledger.
RestartGranted ==
  /\ phase = "running" /\ Cardinality(SpentRestarts) < Budget
  /\ Elapse /\ ledger' = SpentRestarts \union {now} /\ Grant
  /\ UNCHANGED <<phase, starts, ready, intact, halted>>

\* record_restart() is best effort: the file cannot be written, or the
\* process dies half way and the file reads as empty from then on.
RestartUnrecorded ==
  /\ phase = "running" /\ Fallible /\ Cardinality(SpentRestarts) < Budget
  /\ intact' = FALSE /\ Elapse
  /\ \/ Grant /\ UNCHANGED <<phase, ready, ledger>>
     \/ Fails /\ ledger' = {} /\ UNCHANGED <<asked, process, told>>
  /\ UNCHANGED <<starts, halted>>

\* /stop: exit 0, which systemd leaves down.
StopCommand ==
  /\ phase = "running"
  /\ RequestStop(0) /\ told' = "stays"
  /\ UNCHANGED <<now, unit, file, halted>>

\* (Slip: a kill that leaves by a failure, which systemd would undo.)
KillExitsOne ==
  /\ phase = "running" /\ ~stopping
  /\ stopping' = TRUE /\ halted' = TRUE /\ code' = 1
  /\ UNCHANGED <<now, unit, file, told>>

\* The KILL file: emergency_check() and trigger_kill().
Kill ==
  /\ phase = "running" /\ ~stopping
  /\ stopping' = TRUE /\ halted' = TRUE
  /\ UNCHANGED <<now, unit, file, code, told>>

HaltCommand ==
  /\ phase = "running" /\ ~halted /\ halted' = TRUE
  /\ UNCHANGED <<now, unit, file, process, told>>

ResumeCommand ==
  /\ phase = "running" /\ halted /\ halted' = FALSE
  /\ UNCHANGED <<now, unit, file, process, told>>

\* With nothing running a halt is cleared by editing data/state.json.
ClearByHand ==
  /\ phase \in {"down", "failed"} /\ halted /\ halted' = FALSE
  /\ UNCHANGED <<now, unit, file, process, told>>

\* The loop sees the flag once the iteration is over.
LeaveLoop ==
  /\ phase = "running" /\ stopping /\ phase' = "leaving"
  /\ UNCHANGED <<now, starts, ready, asked, file, process, halted, told>>

\* shutdown() has returned; the exit code decides.
Exit ==
  /\ phase = "leaving"
  /\ IF code = 0 THEN phase' = "down" /\ UNCHANGED ready ELSE Fails
  /\ UNCHANGED <<now, starts, asked, file, process, halted, told>>

\* systemctl stop, or SIGINT: shut down and stay down.
Interrupt ==
  /\ phase \in {"starting", "running", "leaving", "waiting"}
  /\ phase' = "down" /\ asked' = 0
  /\ UNCHANGED <<now, starts, ready, file, process, halted, told>>

\* The process dies, or an exception leaves run() from shutdown(), which is
\* not guarded the way an iteration of the loop is.
Crash ==
  /\ phase \in {"running", "leaving"} /\ Fallible /\ Fails
  /\ UNCHANGED <<now, starts, asked, file, process, halted, told>>

Systemd == SystemdStarts \/ OperatorStarts \/ OperatorResets
Engine ==
  \/ StartupSucceeds \/ StartupRefuses
  \/ RestartRefused \/ RestartGranted \/ RestartUnrecorded
  \/ StopCommand \/ HaltCommand \/ ResumeCommand \/ Kill \/ LeaveLoop \/ Exit
Outside == Tick \/ ClearByHand \/ Interrupt \/ Crash

Next == Systemd \/ Engine \/ Outside

Spec == Init /\ [][Next]_vars

-------------------------------------------------------------------------------
(* Properties.                                                             *)

Asked(S) == {s \in S : s.req # 0}

\* After any one start that systemd still counts, no more than RESTART_BUDGET
\* further starts are restarts somebody asked for, the one being waited for
\* included, however long each shutdown took and although the ledger forgets a
\* request before systemd forgets the start it led to.
RestartsFitBudget ==
  intact => \A s \in Counted :
    LET later == {c \in Counted : c.at > s.at}
    IN  Cardinality(Asked(later)) + (IF asked # 0 THEN 1 ELSE 0) <= Budget

\* When the limit puts the unit into `failed`, the Burst starts that led there
\* after the oldest one counted, the refused one included, hold at least
\* Burst - Budget that nobody asked for: /restart alone, or /restart and one
\* failure fewer, never takes the bot away.
ReserveOutlastsRestarts ==
  [][(phase' = "failed" /\ phase # "failed" /\ intact) =>
       \E oldest \in Counted :
         LET later == {c \in Counted : c.at > oldest.at}
         IN  /\ later = Counted \ {oldest}
             /\ Cardinality(later \ Asked(later))
                  + (IF asked = 0 THEN 1 ELSE 0) >= Burst - Budget]_vars

\* request_restart() restarts "unless doing so would spend systemd's last
\* start": a restart that was granted is never the one the limit refuses.
GrantedRestartReturns ==
  [][phase = "waiting" /\ asked # 0 => phase' # "failed"]_vars

\* "The bot will NOT come back on its own" is what /stop tells the operator:
\* once it was said, only a shell starts the unit again.
StopStaysDown ==
  [][told = "stays" /\ phase' = "starting" =>
       phase \in {"starting", "down", "failed"}]_vars
===============================================================================
