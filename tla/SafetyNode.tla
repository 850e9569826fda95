----------------------------- MODULE SafetyNode -----------------------------
(***************************************************************************)
(* The firmware of the safety node (SN): the background loop of main.c,    *)
(* the two interrupts that preempt it, the state handler, the monitoring   *)
(* of the cycle, and the safe outputs.  Sources: demo-sn-gpio/main.c,      *)
(* statehandler.c, cyclemon.c, errorhandler.c, sapl/app.c, shnf/shnf.c.    *)
(*                                                                         *)
(* An interrupt runs to its end between two steps of the loop.  The sync   *)
(* interrupt starts the SPI transfer (the node is the master of the SPI),  *)
(* and the interrupt of the finished transfer does the cyclic work.  A     *)
(* transfer is over before the monitoring can find the cycle late.  The    *)
(* openSAFETY stack is external: its state, the answers it gives and the   *)
(* callbacks it makes are chosen freely.  Time is one Boolean: whether     *)
(* the last sync interrupt is longer ago than the monitoring allows.       *)
(***************************************************************************)
EXTENDS Naturals

CONSTANT MaxChecks   \* bound: valid check sums in one behaviour

ASSUME ChecksAssumption == MaxChecks \in Nat

VARIABLES
    pc,         \* place of the main program
    irq,        \* interrupts of sync line and SPI are enabled
    alive,      \* the PCP still raises sync interrupts
    inFlight,   \* an SPI transfer is under way
    late,       \* no sync interrupt for longer than cycle time and tolerance
    mon,        \* cycMonState_m
    samples,    \* what lastTimeStamp_m (1) and cycleTime_m (2) hold already
    slot,       \* syncTaskState_l
    snState,    \* currSnState_m
    stack,      \* state of the openSAFETY stack
    flags,      \* fEnterOperational_m, fEnterPreop_m, fShutdown_m
    param,      \* check sum task and fParamCrcValid_m of sapl.c
    connValid,  \* SHNF_aaulConnValidBit
    spdoOut,    \* traspSafeOUT_g: an output is switched on
    output,     \* the output port of the GPIO
    checks,     \* history: check sums found valid
    entries,    \* history: transitions of the stack to Operational
    raced       \* history: Operational entered in the middle of a reset

monVars == <<mon, samples>>
ioVars == <<connValid, spdoOut, output>>
stateVars == <<snState, stack, entries, raced>>
vars == <<pc, irq, alive, inFlight, late, monVars, slot, stateVars, flags,
          param, ioVars, checks>>

NoFlags == [enterOp |-> FALSE, enterPreOp |-> FALSE, shutdown |-> FALSE]

(* main up to the first call of stateh_enterPreOperational. *)
Init ==
    /\ pc = "PerformTransPreOp"
    /\ irq = FALSE /\ alive = TRUE /\ inFlight = FALSE /\ late = FALSE
    /\ mon = "Init" /\ samples = 0
    /\ slot = "Shnf"
    /\ snState = "Initializing" /\ stack = "Initialization"
    /\ flags = NoFlags
    /\ param = [crcTask |-> FALSE, crcValid |-> FALSE]
    /\ connValid = FALSE /\ spdoOut = FALSE /\ output = FALSE
    /\ checks = 0 /\ entries = 0 /\ raced = FALSE

(* errh_postError for an error that sets the shutdown flag, and for the    *)
(* life time error of the stack, which asks for PreOperational.            *)
postFatalError == flags' = [flags EXCEPT !.shutdown = TRUE]
postLifetimeError == flags' = [flags EXCEPT !.enterPreOp = TRUE]

-----------------------------------------------------------------------------
(* The background loop processAsync, one step per access to shared state.  *)

CheckShutdown ==
    /\ pc = "loop"
    /\ pc' = IF flags.shutdown THEN "hnf_exit" ELSE "sapl_process"
    /\ UNCHANGED <<irq, alive, inFlight, late, monVars, slot, stateVars, flags,
                   param, ioVars, checks>>

(* Storing a parameter set fails or not, see the module ParameterSet. *)
SaplProcess ==
    /\ pc = "sapl_process"
    /\ pc' \in {"checkTimeout", "hnf_exit"}
    /\ UNCHANGED <<irq, alive, inFlight, late, monVars, slot, stateVars, flags,
                   param, ioVars, checks>>

(* The times are read in a critical section. *)
CheckTimeout ==
    /\ pc = "checkTimeout"
    /\ pc' = IF mon = "Active" /\ late THEN "setTimeout" ELSE "loop"
    /\ UNCHANGED <<irq, alive, inFlight, late, monVars, slot, stateVars, flags,
                   param, ioVars, checks>>

SetTimeout ==
    /\ pc = "setTimeout"
    /\ mon' = "Timeout"
    /\ pc' = "shnf_reset"
    /\ UNCHANGED <<irq, alive, inFlight, late, samples, slot, stateVars, flags,
                   param, ioVars, checks>>

(* enterReset *)
ShnfReset ==
    /\ pc = "shnf_reset"
    /\ connValid' = FALSE
    /\ pc' = "app_reset"
    /\ UNCHANGED <<irq, alive, inFlight, late, monVars, slot, stateVars, flags,
                   param, spdoOut, output, checks>>

ResetImage ==
    /\ pc = "app_reset"
    /\ spdoOut' = FALSE
    /\ pc' = "writeOutput"
    /\ UNCHANGED <<irq, alive, inFlight, late, monVars, slot, stateVars, flags,
                   param, connValid, output, checks>>

(* A faulty form: the outputs keep their value in a reset. *)
ResetOutputSkipped ==
    /\ pc = "writeOutput"
    /\ pc' = "PerformTransPreOp"
    /\ UNCHANGED <<irq, alive, inFlight, late, monVars, slot, stateVars, flags,
                   param, ioVars, checks>>

ResetOutput ==
    /\ pc = "writeOutput"
    /\ output' = FALSE
    /\ pc' = "PerformTransPreOp"
    /\ UNCHANGED <<irq, alive, inFlight, late, monVars, slot, stateVars, flags,
                   param, connValid, spdoOut, checks>>

(* stateh_enterPreOperational as the main program runs it, in three steps; *)
(* whether the stack takes its connections down is left open.              *)
TransPreOp ==
    /\ pc = "PerformTransPreOp"
    /\ \/ /\ stack' = "PreOperational"
          /\ connValid' \in {connValid, FALSE}
          /\ pc' = "setSnState"
          /\ UNCHANGED flags
       \/ /\ postFatalError
          /\ pc' = "clearEnterPreOp"
          /\ UNCHANGED <<stack, connValid>>
    /\ UNCHANGED <<irq, alive, inFlight, late, monVars, slot, snState, entries,
                   raced, param, spdoOut, output, checks>>

SetSnState ==
    /\ pc = "setSnState"
    /\ snState' = "PreOperational"
    /\ pc' = "clearEnterPreOp"
    /\ UNCHANGED <<irq, alive, inFlight, late, monVars, slot, stack, entries,
                   raced, flags, param, ioVars, checks>>

(* At start-up the interrupts are enabled next, or the program ends. *)
ClearEnterPreOp ==
    /\ pc = "clearEnterPreOp"
    /\ flags' = [flags EXCEPT !.enterPreOp = FALSE]
    /\ irq' = (irq \/ snState = "PreOperational")
    /\ pc' = IF irq' THEN "loop" ELSE "hnf_exit"
    /\ UNCHANGED <<alive, inFlight, late, monVars, slot, stateVars, param,
                   ioVars, checks>>

(* A faulty form: the outputs are left to the interrupt on exit. *)
AppExitSkipped ==
    /\ pc = "app_exit"
    /\ pc' = "done"
    /\ UNCHANGED <<irq, alive, inFlight, late, monVars, slot, stateVars, flags,
                   param, ioVars, checks>>

(* shutdown: the interrupts first, the outputs afterwards. *)
HnfExit ==
    /\ pc = "hnf_exit"
    /\ irq' = FALSE
    /\ pc' = "app_exit"
    /\ UNCHANGED <<alive, inFlight, late, monVars, slot, stateVars, flags,
                   param, ioVars, checks>>

AppExit ==
    /\ pc = "app_exit"
    /\ spdoOut' = FALSE /\ output' = FALSE
    /\ pc' = "done"
    /\ UNCHANGED <<irq, alive, inFlight, late, monVars, slot, stateVars, flags,
                   param, connValid, checks>>

Main ==
    \/ CheckShutdown \/ SaplProcess \/ CheckTimeout \/ SetTimeout
    \/ ShnfReset \/ ResetImage \/ ResetOutput
    \/ TransPreOp \/ SetSnState \/ ClearEnterPreOp
    \/ HnfExit \/ AppExit

-----------------------------------------------------------------------------
(* The sync interrupt: syncCycle, then the transfer is started.            *)

(* calculateCycleTime: the first call takes a time stamp, later ones       *)
(* compare two cycles; only two that agree start the monitoring.           *)
MeasureCycle ==
    /\ mon = "Init"
    /\ \/ samples' = (IF samples = 0 THEN 1 ELSE 2) /\ UNCHANGED mon
       \/ samples = 2 /\ mon' = "Active" /\ UNCHANGED samples

cyclemon_process ==
    \/ MeasureCycle
    \/ mon = "Active" /\ UNCHANGED monVars
    \/ mon = "Timeout" /\ mon' = "Init" /\ samples' = 0

SyncCycle ==
    /\ irq /\ alive /\ ~inFlight
    /\ cyclemon_process
    /\ inFlight' = TRUE /\ late' = FALSE
    /\ UNCHANGED <<pc, irq, alive, slot, stateVars, flags, param, ioVars, checks>>

(* verifyCycleTime refuses the cycle, and no transfer is started. *)
InvalidCycle ==
    /\ irq /\ alive /\ ~inFlight
    /\ mon = "Init" /\ samples # 0
    /\ samples' = 2
    /\ postFatalError
    /\ UNCHANGED <<pc, irq, alive, inFlight, late, mon, slot, stateVars, param,
                   ioVars, checks>>

-----------------------------------------------------------------------------
(* The interrupt of the finished transfer: a received SPDO frame, the      *)
(* application, then one of three tasks in turn.                           *)

(* processRxSpdoFrame: what the stack makes of the frame, when it is       *)
(* handed one.                                                             *)
ReceivedSpdo ==
    IF snState = "Operational" /\ stack = "Operational"
    THEN [valid : BOOLEAN, out : BOOLEAN]
    ELSE {[valid |-> connValid, out |-> spdoOut]}

(* app_process *)
app_process(r) ==
    /\ spdoOut' = (r.valid /\ r.out)
    /\ output' = (r.valid /\ r.out)

TransferFinished(task, next) ==
    /\ irq /\ inFlight
    /\ slot = task
    /\ inFlight' = FALSE
    /\ slot' = next
    /\ UNCHANGED <<pc, irq, alive, late, monVars>>

(* A faulty form: the result is not used up. *)
SwitchToOpReqKeeps ==
    /\ stack = "PreOperational"
    /\ ~param.crcTask /\ param.crcValid
    /\ flags' = [flags EXCEPT !.enterOp = TRUE]
    /\ UNCHANGED param

(* SAPL_SNMTS_SwitchToOpReqClbk; the other tasks of sapl.c may refuse it   *)
(* as well.                                                                *)
SwitchToOpReq ==
    /\ stack = "PreOperational"
    /\ ~param.crcTask /\ param.crcValid
    /\ param' = [param EXCEPT !.crcValid = FALSE]
    /\ flags' = [flags EXCEPT !.enterOp = TRUE]

CalcParamChkSum ==
    /\ stack = "PreOperational"
    /\ checks < MaxChecks
    /\ param' = [param EXCEPT !.crcTask = TRUE]
    /\ UNCHANGED flags

ShnfProcess ==
    /\ TransferFinished("Shnf", "Sapl")
    /\ \E r \in ReceivedSpdo : connValid' = r.valid /\ app_process(r)
    /\ \/ SwitchToOpReq
       \/ CalcParamChkSum
       \/ snState = "Operational" /\ postLifetimeError /\ UNCHANGED param
       \/ postFatalError /\ UNCHANGED param
       \/ UNCHANGED <<param, flags>>
    /\ UNCHANGED <<stateVars, checks>>

(* The check sum task of sapl_processSync: valid, invalid, failed, busy.   *)
SaplProcessSync ==
    /\ TransferFinished("Sapl", "State")
    /\ \E r \in ReceivedSpdo : connValid' = r.valid /\ app_process(r)
    /\ \/ /\ param.crcTask /\ checks < MaxChecks
          /\ param' = [crcTask |-> FALSE, crcValid |-> TRUE]
          /\ checks' = checks + 1
          /\ UNCHANGED flags
       \/ /\ param.crcTask
          /\ param' = [param EXCEPT !.crcTask = FALSE]
          /\ UNCHANGED <<flags, checks>>
       \/ param.crcTask /\ postFatalError /\ UNCHANGED <<param, checks>>
       \/ UNCHANGED <<param, flags, checks>>
    /\ UNCHANGED stateVars

(* A faulty form: the state of the node is not forwarded. *)
EnterOperationalSilent ==
    /\ stack' = "Operational" /\ UNCHANGED snState
    /\ flags' = [flags EXCEPT !.enterOp = FALSE]
    /\ entries' = entries + 1
    /\ raced' = (raced \/ pc = "setSnState")

EnterOperational ==
    /\ stack' = "Operational" /\ snState' = "Operational"
    /\ flags' = [flags EXCEPT !.enterOp = FALSE]
    /\ entries' = entries + 1
    /\ raced' = (raced \/ pc = "setSnState")

EnterOperationalFails ==
    /\ flags' = [flags EXCEPT !.enterOp = FALSE, !.shutdown = TRUE]
    /\ UNCHANGED stateVars

HandleEnterOp ==
    /\ TransferFinished("State", "Shnf")
    /\ flags.enterOp
    /\ \E r \in ReceivedSpdo : connValid' = r.valid /\ app_process(r)
    /\ EnterOperational \/ EnterOperationalFails
    /\ UNCHANGED <<param, checks>>

HandleEnterPreOp ==
    /\ TransferFinished("State", "Shnf")
    /\ ~flags.enterOp /\ flags.enterPreOp
    /\ \E r \in ReceivedSpdo :
          /\ app_process(r)
          /\ \/ /\ stack' = "PreOperational" /\ snState' = "PreOperational"
                /\ connValid' \in {r.valid, FALSE}
                /\ flags' = [flags EXCEPT !.enterPreOp = FALSE]
             \/ /\ flags' = [flags EXCEPT !.enterPreOp = FALSE, !.shutdown = TRUE]
                /\ connValid' = r.valid
                /\ UNCHANGED <<snState, stack>>
    /\ UNCHANGED <<entries, raced, param, checks>>

HandleNoChange ==
    /\ TransferFinished("State", "Shnf")
    /\ ~flags.enterOp /\ ~flags.enterPreOp
    /\ \E r \in ReceivedSpdo : connValid' = r.valid /\ app_process(r)
    /\ UNCHANGED <<stateVars, flags, param, checks>>

Transfer ==
    \/ ShnfProcess \/ SaplProcessSync
    \/ HandleEnterOp \/ HandleEnterPreOp \/ HandleNoChange

-----------------------------------------------------------------------------
(* The time of the next sync interrupt and the tolerance have passed. *)
TimePasses ==
    /\ mon = "Active" /\ ~inFlight /\ ~late
    /\ late' = TRUE
    /\ UNCHANGED <<pc, irq, alive, inFlight, monVars, slot, stateVars, flags,
                   param, ioVars, checks>>

(* The PCP stops, or the sync line breaks, for good. *)
SyncLost ==
    /\ alive
    /\ alive' = FALSE
    /\ UNCHANGED <<pc, irq, inFlight, late, monVars, slot, stateVars, flags,
                   param, ioVars, checks>>

Next == Main \/ SyncCycle \/ InvalidCycle \/ Transfer \/ TimePasses \/ SyncLost

Spec == Init /\ [][Next]_vars

(* The loop runs for ever, a transfer started ends, and time passes.       *)
FairSpec == Spec /\ WF_vars(Main) /\ WF_vars(Transfer) /\ WF_vars(TimePasses)

-----------------------------------------------------------------------------
Place == {"loop", "sapl_process", "checkTimeout", "setTimeout",
          "shnf_reset", "app_reset", "writeOutput", "PerformTransPreOp",
          "setSnState", "clearEnterPreOp", "hnf_exit", "app_exit", "done"}
Flags == [enterOp : BOOLEAN, enterPreOp : BOOLEAN, shutdown : BOOLEAN]
Param == [crcTask : BOOLEAN, crcValid : BOOLEAN]

(* Every variable has its type. *)
TypeOK ==
    /\ pc \in Place
    /\ irq \in BOOLEAN /\ alive \in BOOLEAN
    /\ inFlight \in BOOLEAN /\ late \in BOOLEAN
    /\ mon \in {"Init", "Active", "Timeout"} /\ samples \in 0..2
    /\ slot \in {"Shnf", "Sapl", "State"}
    /\ snState \in {"Initializing", "PreOperational", "Operational"}
    /\ stack \in {"Initialization", "PreOperational", "Operational"}
    /\ flags \in Flags /\ param \in Param
    /\ connValid \in BOOLEAN /\ spdoOut \in BOOLEAN /\ output \in BOOLEAN
    /\ checks \in 0..MaxChecks /\ entries \in Nat /\ raced \in BOOLEAN

(* Every transition to Operational uses up a check sum of its own: neither *)
(* a request served twice nor one that outlives a reset lets the node run  *)
(* more often than its parameters were found valid.  (sapl.c 503-508,      *)
(* statehandler.c 292, 385)                                                *)
OneCheckPerEntry == entries <= checks

(* The firmware and its stack agree on Operational, whichever of the two   *)
(* sides moved last: only an interrupt that enters Operational between the *)
(* two halves of stateh_enterPreOperational (statehandler.c 334 and 336)   *)
(* can part them.                                                          *)
StatesAgree ==
    pc # "setSnState" /\ ~raced => (snState = "Operational" <=> stack = "Operational")

(* Once a fatal error has set the shutdown flag, the outputs end up off    *)
(* for good, although the interrupts go on driving them until the loop has *)
(* seen the flag.  (main.c 388, 572-587)                                   *)
ShutdownIsSafe == flags.shutdown ~> [](~output)

Resetting == pc \in {"setTimeout", "shnf_reset", "app_reset", "writeOutput",
                     "PerformTransPreOp", "setSnState", "clearEnterPreOp"}

(* When the sync interrupt stays away for good while the monitoring is     *)
(* active and no reset is under way, the outputs end up off for good.      *)
(* (cyclemon.c 210-232, main.c 402-406, 558-565)                           *)
LossIsSafe == (mon = "Active" /\ ~alive /\ ~Resetting) ~> [](~output)
=============================================================================
