------------------------------ MODULE SyncCycle ------------------------------
(***************************************************************************)
(* Time in the safety node: the microseconds counted from a 16-bit timer,  *)
(* the consecutive time both processors give their stacks, the monitoring  *)
(* of the sync interrupt's period.  Sources: shnf/constime.c, cyclemon.c,  *)
(* main.c (syncCycle, processAsync) and verifyTime of shnf/xcom.c.         *)
(*                                                                         *)
(* now is the true time.  Sync interrupts come to both processors at once, *)
(* at any distance; the background loop looks at the monitoring at least   *)
(* every PollGap.  A timer is read at the time of the action that reads    *)
(* it: what passes inside one interrupt is jitter of the next.             *)
(***************************************************************************)
EXTENDS Integers

CONSTANTS Turn,       \* ticks of the timer until it starts again, 2^16
          Wrap,       \* values of the consecutive time, 2^32
          CycleMin, CycleMax, Threshold, Tolerance,  \* CYCLE_TIME_..._US
          Factors,    \* CONSTIME_BASE_...: microseconds in a consecutive tick
          InitFactor, \* the one constime_init sets, CONSTIME_BASE_100US
          Skew,       \* what the timers of the processors may be apart
          PollGap,    \* longest time between two looks of the loop
          MaxTime,    \* bound: length of a behaviour
          MaxRescale  \* bound: changes of a factor

ASSUME TimeAssumption ==
    /\ {Turn, CycleMin, CycleMax, Threshold, Tolerance, PollGap, Skew,
       MaxTime, MaxRescale} \subseteq Nat
    /\ Turn > 0 /\ Wrap \in Nat \ {0} /\ Factors \subseteq Nat \ {0} /\ InitFactor \in Factors
    /\ Threshold > 0 /\ CycleMin > Threshold /\ CycleMin <= CycleMax

(* A late cycle can be told from a short one of the next turn only while   *)
(* the loop looks often enough: of 65536 us, a cycle of 65000 leaves 436.  *)
ASSUME WindowAssumption == CycleMax + Tolerance + 2 * PollGap < Turn

Proc == {1, 2}

VARIABLES
    now,        \* true time
    redundant,  \* SYSTEM_PATH > ID_TARG_SINGLE; else there is no processor 2
    skew,       \* lead of the timer of processor 2
    base,       \* usTimeBase_m of each processor
    consTime,   \* currConsTime_m of each processor
    factor,     \* consTimeFactor_m of each processor
    exchanged,  \* the cross communication of this cycle is done
    cycMon,     \* cycMonInstance_l of processor 1
    loop,       \* its background loop: where in cyclemon_checkTimeout
    polled,     \* time of the last look of the loop
    fatal,      \* a cycle time out of range has shut processor 1 down
    synced,     \* history: true times of the sync interrupts, newest first
    restarted,  \* history: sync interrupts since the monitoring timed out
    rescaled,   \* history: processors whose time was not set since their
                \* factor was
    stamp,      \* history: the microseconds the consecutive time of each was
                \* made of, and the true time of that sync interrupt
    rescales,   \* history: changes of a factor
    turnLost    \* history: two sync interrupts were a turn of the timer apart

timeVars == <<base, consTime, factor, exchanged, rescaled, stamp, rescales>>
config == <<redundant, skew>>
history == <<synced, restarted, turnLost>>
vars == <<now, config, timeVars, cycMon, loop, polled, fatal, history>>

(* The lead of the timer of a processor. *)
lead(p) == IF p = 2 THEN skew ELSE 0

TickCount(p) == (now + lead(p)) % Turn

ResetCycleMon == [state |-> "Init", lastTimeStamp |-> 0, cycleTime |-> 0]

Init ==
    /\ now = 0
    /\ redundant \in BOOLEAN /\ skew \in 0..Skew
    /\ base = [p \in Proc |-> lead(p)]
    /\ consTime = [p \in Proc |-> 0]
    /\ factor = [p \in Proc |-> InitFactor]
    /\ exchanged = FALSE
    /\ cycMon = ResetCycleMon
    /\ loop = "idle"
    /\ polled = 0
    /\ fatal = FALSE
    /\ synced = [i \in 1..3 |-> 0]
    /\ restarted = 1
    /\ rescaled = Proc /\ rescales = 0
    /\ stamp = [p \in Proc |-> [at |-> 0, us |-> 0]]
    /\ turnLost = FALSE

(* A faulty form: the turns of the timer are not counted. *)
getTimeBaseNoTurns(p) == TickCount(p)

constime_getTimeBase(p) == base[p] + ((TickCount(p) - base[p]) % Turn)

(* The average of two times whose sum may not fit 64 bits. *)
Average(l, r) == (l \div 2) + (r \div 2) + ((l % 2) * (r % 2))

(* The consecutive time of a processor, cut to its 32 bits. *)
ConsTimeOf(p, us) == (us \div factor[p]) % Wrap

-----------------------------------------------------------------------------
(* calculateCycleTime, then verifyCycleTime of a cycle that agrees with    *)
(* the one before.  The difference is unsigned: a shorter cycle never      *)
(* agrees.                                                                 *)
Agrees(cycleTime) ==
    cycleTime >= cycMon.cycleTime /\ cycleTime - cycMon.cycleTime < Threshold

InRange(cycleTime) == CycleMin <= cycleTime /\ cycleTime <= CycleMax

cyclemon_measure(time) ==
    LET cycleTime == time - cycMon.lastTimeStamp
        average == (cycMon.cycleTime + cycleTime) \div 2
    IN  CASE cycMon.lastTimeStamp = 0 -> [cycMon EXCEPT !.lastTimeStamp = time]
          [] cycMon.lastTimeStamp # 0 /\ Agrees(cycleTime) ->
                [state |-> IF InRange(average) THEN "Active" ELSE "Init",
                 lastTimeStamp |-> time, cycleTime |-> average]
          [] OTHER -> [cycMon EXCEPT !.lastTimeStamp = time, !.cycleTime = cycleTime]

(* A faulty form: the time stamp of a running monitoring is left alone. *)
cyclemon_processNoStamp(time) ==
    CASE cycMon.state = "Init" -> cyclemon_measure(time)
      [] cycMon.state = "Active" -> cycMon
      [] cycMon.state = "Timeout" -> ResetCycleMon

(* A faulty form: the values of the old monitoring are kept. *)
cyclemon_processNoReset(time) ==
    CASE cycMon.state = "Init" -> cyclemon_measure(time)
      [] cycMon.state = "Active" -> [cycMon EXCEPT !.lastTimeStamp = time]
      [] cycMon.state = "Timeout" -> cycMon

cyclemon_process(time) ==
    CASE cycMon.state = "Init" -> cyclemon_measure(time)
      [] cycMon.state = "Active" -> [cycMon EXCEPT !.lastTimeStamp = time]
      [] cycMon.state = "Timeout" -> ResetCycleMon

(* The sync interrupt: syncCycle of both processors, with the monitoring   *)
(* of the first.  A single processor sets its consecutive time at once; a  *)
(* redundant one sends its time base to the other with this cycle's image. *)
SyncCycle ==
    /\ ~fatal /\ now > synced[1]
    /\ base' = [p \in Proc |-> constime_getTimeBase(p)]
    /\ cycMon' = cyclemon_process(base'[1])
    /\ fatal' = (cycMon.state = "Init" /\ cycMon.lastTimeStamp # 0
                    /\ Agrees(base'[1] - cycMon.lastTimeStamp) /\ cycMon'.state = "Init")
    /\ IF redundant \/ fatal'
       THEN UNCHANGED <<consTime, rescaled, stamp>>
       ELSE /\ consTime' = [consTime EXCEPT ![1] = ConsTimeOf(1, base'[1])]
            /\ rescaled' = rescaled \ {1}
            /\ stamp' = [stamp EXCEPT ![1] = [at |-> now, us |-> base'[1]]]
    /\ exchanged' = FALSE
    /\ synced' = [i \in 1..3 |-> IF i = 1 THEN now ELSE synced[i - 1]]
    /\ restarted' = IF restarted < 4 THEN restarted + 1 ELSE restarted
    /\ turnLost' = (turnLost \/ now - synced[1] >= Turn)
    /\ UNCHANGED <<now, config, factor, rescales, loop, polled>>

(* verifyTime of both processors: each averages the time it has sent and   *)
(* the one it has received.                                                *)
SyncConsTime ==
    /\ redundant /\ ~exchanged /\ ~fatal
    /\ exchanged' = TRUE
    /\ LET us(p) == Average(base[p], base[3 - p])
       IN  /\ consTime' = [p \in Proc |-> ConsTimeOf(p, us(p))]
           /\ stamp' = [p \in Proc |-> [at |-> synced[1], us |-> us(p)]]
    /\ rescaled' = {}
    /\ UNCHANGED <<now, config, base, factor, rescales, cycMon, loop, polled, fatal, history>>

(* SHNF_SOD_ConsTimeBase_CLBK: the parameter is one of the factors, or a   *)
(* value that is not known, which is accepted and changes nothing.         *)
ConsTimeBase_CLBK(p, f) ==
    /\ factor[p] # f /\ ~fatal
    /\ rescales < MaxRescale /\ rescales' = rescales + 1
    /\ factor' = [factor EXCEPT ![p] = f]
    /\ rescaled' = rescaled \cup {p}
    /\ UNCHANGED <<now, config, base, consTime, stamp, exchanged, cycMon, loop, polled,
                   fatal, history>>

(* cyclemon_checkTimeout: the comparison is guarded against the sync       *)
(* interrupt, the change of state after it is not.                         *)
CheckTimeout ==
    /\ ~fatal /\ loop = "idle"
    /\ polled' = now
    /\ loop' = IF /\ cycMon.state = "Active"
                  /\ constime_getTimeBase(1)
                        > cycMon.lastTimeStamp + cycMon.cycleTime + Tolerance
               THEN "late" ELSE "idle"
    /\ UNCHANGED <<now, config, timeVars, cycMon, fatal, history>>

EnterTimeout ==
    /\ ~fatal /\ loop = "late"
    /\ loop' = "idle"
    /\ cycMon' = [cycMon EXCEPT !.state = "Timeout"]
    /\ restarted' = 0
    /\ UNCHANGED <<now, config, timeVars, polled, fatal, synced, turnLost>>

Tick ==
    /\ ~fatal
    /\ now < MaxTime /\ now < polled + PollGap
    /\ now' = now + 1
    /\ UNCHANGED <<config, timeVars, cycMon, loop, polled, fatal, history>>

Next ==
    \/ SyncCycle \/ SyncConsTime \/ CheckTimeout \/ EnterTimeout \/ Tick
    \/ \E p \in Proc, f \in Factors : ConsTimeBase_CLBK(p, f)

Spec == Init /\ [][Next]_vars

-----------------------------------------------------------------------------
CycMonType == [state : {"Init", "Active", "Timeout"}, lastTimeStamp : Nat, cycleTime : Nat]

TypeOK ==
    /\ now \in 0..MaxTime /\ polled \in 0..now
    /\ redundant \in BOOLEAN /\ skew \in 0..Skew
    /\ base \in [Proc -> Nat] /\ consTime \in [Proc -> 0..(Wrap - 1)]
    /\ stamp \in [Proc -> [at : 0..now, us : Nat]]
    /\ factor \in [Proc -> Factors]
    /\ exchanged \in BOOLEAN /\ fatal \in BOOLEAN
    /\ cycMon \in CycMonType
    /\ loop \in {"idle", "late"}
    /\ synced \in [1..3 -> 0..now] /\ restarted \in 0..4
    /\ rescaled \subseteq Proc /\ rescales \in 0..MaxRescale
    /\ turnLost \in BOOLEAN

(* The 64-bit time made of 16-bit ticks is the true one as long as no two  *)
(* sync interrupts are a turn of the timer apart, over all turns.          *)
BaseIsTrue == ~turnLost => base[1] = synced[1] /\ constime_getTimeBase(1) % Turn = now % Turn

(* Unless the parameter was changed, the consecutive time goes on by no    *)
(* more than the time that has passed, whatever is lost, but for its end   *)
(* at 2^32, where it starts again from 0: a step back would be nearly a    *)
(* whole turn forward.  The stacks compare time stamps of it.              *)
ConsTimeForward ==
    [][factor' = factor =>
          \A p \in Proc \ rescaled :
              ((consTime'[p] - consTime[p]) % Wrap) * factor[p]
                  <= stamp'[p].at - stamp[p].at + factor[p] - 1]_vars

(* Once the images of a cycle are exchanged, both stacks see the same      *)
(* consecutive time, although the timers differ: the frames they build     *)
(* from it have to be equal.                                               *)
ConsTimesAgree ==
    exchanged /\ rescaled = {} /\ factor[1] = factor[2] => consTime[1] = consTime[2]

(* A sync interrupt that stays away is noticed: no later than two looks of *)
(* the loop after cycle time and tolerance the monitoring is no longer     *)
(* active.                                                                 *)
LossNoticed ==
    cycMon.state = "Active" /\ ~turnLost =>
        now - synced[1] <= cycMon.cycleTime + Tolerance + 2 * PollGap

(* The node is only reset for a sync interrupt that was late: one may come *)
(* between the comparison and the change of state, but not before.         *)
NoFalseAlarm ==
    [][loop = "idle" /\ loop' = "late" /\ ~turnLost =>
        now - synced[1] > cycMon.cycleTime + Tolerance]_vars

(* However the interrupts before were spaced, the monitoring is active     *)
(* again with the fourth sync interrupt after a timeout, of which the      *)
(* first one resets it, if the last three came at equal distances and no   *)
(* two ever were a turn of the timer apart.                                *)
StartsAgain ==
    /\ restarted = 4 /\ ~turnLost /\ ~fatal
    /\ synced[1] - synced[2] = synced[2] - synced[3]
    => cycMon.state = "Active"
=============================================================================
