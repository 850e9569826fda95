-------------------------- MODULE SafetyNodeProofs --------------------------
(***************************************************************************)
(* Proofs about the safety node, for every number of check sums and of     *)
(* sync interrupts, timeouts and resets.  That every check sum is good for *)
(* one entry is inductive once the check sums are followed on their way:   *)
(* as a valid result, as a request, as an entry.  That node and stack      *)
(* agree needs what holds between the two halves of a transition: the      *)
(* stack has left Operational, and only an interrupt brings it back.       *)
(***************************************************************************)
EXTENDS SafetyNode, TLAPS

(* Check sums on their way to an entry into Operational. *)
Outstanding ==
    (IF flags.enterOp THEN 1 ELSE 0) + (IF param.crcValid THEN 1 ELSE 0)

ChecksSound == entries + Outstanding <= checks

ResetSound == pc = "setSnState" /\ ~raced => stack # "Operational"

IInv == TypeOK /\ ChecksSound /\ StatesAgree /\ ResetSound

-----------------------------------------------------------------------------
(* The types of the flags and of the received frames. *)

LEMMA FlagTypes ==
    ASSUME flags \in Flags
    PROVE  /\ [flags EXCEPT !.shutdown = TRUE] \in Flags
           /\ [flags EXCEPT !.enterPreOp = TRUE] \in Flags
           /\ [flags EXCEPT !.enterPreOp = FALSE] \in Flags
           /\ [flags EXCEPT !.enterOp = TRUE] \in Flags
           /\ [flags EXCEPT !.enterOp = FALSE] \in Flags
           /\ [flags EXCEPT !.enterOp = FALSE, !.shutdown = TRUE] \in Flags
           /\ [flags EXCEPT !.enterPreOp = FALSE, !.shutdown = TRUE] \in Flags
BY DEF Flags

LEMMA ParamTypes ==
    ASSUME param \in Param
    PROVE  /\ [param EXCEPT !.crcValid = FALSE] \in Param
           /\ [param EXCEPT !.crcTask = TRUE] \in Param
           /\ [param EXCEPT !.crcTask = FALSE] \in Param
           /\ [crcTask |-> FALSE, crcValid |-> TRUE] \in Param
BY DEF Param

LEMMA ReceivedTypes ==
    ASSUME connValid \in BOOLEAN, spdoOut \in BOOLEAN, NEW r \in ReceivedSpdo
    PROVE  r.valid \in BOOLEAN /\ (r.valid /\ r.out) \in BOOLEAN
BY DEF ReceivedSpdo

-----------------------------------------------------------------------------
(* Types.  The steps of the main program are taken together: each leaves   *)
(* all but a few variables alone.                                          *)

LEMMA MainTypes == TypeOK /\ Main => TypeOK'
<1> SUFFICES ASSUME TypeOK, Main PROVE TypeOK'
  OBVIOUS
<1>p. pc' \in Place
  BY DEF Main, CheckShutdown, SaplProcess, CheckTimeout, SetTimeout, ShnfReset,
         ResetImage, ResetOutput, TransPreOp, SetSnState, ClearEnterPreOp,
         HnfExit, AppExit, Place
<1>1. CASE CheckShutdown \/ SaplProcess \/ CheckTimeout \/ HnfExit
  <2>1. irq' \in BOOLEAN
    BY <1>1 DEF TypeOK, CheckShutdown, SaplProcess, CheckTimeout, HnfExit
  <2>2. UNCHANGED <<alive, inFlight, late, mon, samples, slot, snState, stack,
                    entries, raced, flags, param, connValid, spdoOut, output, checks>>
    BY <1>1 DEF CheckShutdown, SaplProcess, CheckTimeout, HnfExit,
                monVars, ioVars, stateVars
  <2> QED
    BY <1>p, <2>1, <2>2, ZenonT(30) DEF TypeOK
<1>2. CASE SetTimeout \/ ShnfReset \/ ResetImage \/ ResetOutput \/ AppExit
  <2>1. mon' \in {"Init", "Active", "Timeout"} /\ samples' \in 0..2
    BY <1>2 DEF TypeOK, SetTimeout, ShnfReset, ResetImage, ResetOutput, AppExit,
                monVars
  <2>3. connValid' \in BOOLEAN /\ spdoOut' \in BOOLEAN /\ output' \in BOOLEAN
    BY <1>2, Zenon DEF TypeOK, SetTimeout, ShnfReset, ResetImage, ResetOutput,
                       AppExit, ioVars
  <2>2. UNCHANGED <<irq, alive, inFlight, late, slot, stateVars, flags, param,
                    checks>>
    BY <1>2 DEF SetTimeout, ShnfReset, ResetImage, ResetOutput, AppExit
  <2> QED
    BY <1>p, <2>1, <2>2, <2>3, Zenon DEF TypeOK, stateVars
<1>3. CASE TransPreOp
  <2>1. flags' \in Flags
    BY <1>3, FlagTypes DEF TypeOK, TransPreOp, postFatalError
  <2>2. /\ stack' \in {"Initialization", "PreOperational", "Operational"}
        /\ connValid' \in BOOLEAN
    BY <1>3 DEF TypeOK, TransPreOp
  <2>3. UNCHANGED <<irq, alive, inFlight, late, monVars, slot, snState, entries,
                    raced, param, spdoOut, output, checks>>
    BY <1>3 DEF TransPreOp
  <2> QED
    BY <1>p, <2>1, <2>2, <2>3, Zenon DEF TypeOK, monVars
<1>4. CASE SetSnState
  BY <1>4 DEF TypeOK, Place, SetSnState, monVars, ioVars
<1>5. CASE ClearEnterPreOp
  <2>1. flags' \in Flags
    BY <1>5, FlagTypes DEF TypeOK, ClearEnterPreOp
  <2>2. irq' \in BOOLEAN
    BY <1>5 DEF TypeOK, ClearEnterPreOp
  <2>3. pc' \in Place
    BY <1>5 DEF ClearEnterPreOp, Place
  <2> QED
    BY <1>5, <2>1, <2>2, <2>3 DEF TypeOK, ClearEnterPreOp, monVars, ioVars, stateVars
<1> QED
  BY <1>1, <1>2, <1>3, <1>4, <1>5 DEF Main

LEMMA SyncTypes ==
    TypeOK /\ (SyncCycle \/ InvalidCycle \/ TimePasses \/ SyncLost) => TypeOK'
<1> SUFFICES ASSUME TypeOK, SyncCycle \/ InvalidCycle \/ TimePasses \/ SyncLost
             PROVE  TypeOK'
  OBVIOUS
<1>1. CASE SyncCycle
  <2>1. mon' \in {"Init", "Active", "Timeout"} /\ samples' \in 0..2
    BY <1>1 DEF TypeOK, SyncCycle, cyclemon_process, MeasureCycle, monVars
  <2> QED
    BY <1>1, <2>1 DEF TypeOK, SyncCycle, stateVars, ioVars
<1>2. CASE InvalidCycle
  <2>1. flags' \in Flags /\ samples' \in 0..2
    BY <1>2, FlagTypes DEF TypeOK, InvalidCycle, postFatalError
  <2>2. UNCHANGED <<pc, irq, alive, inFlight, late, mon, slot, snState, stack,
                    entries, raced, param, connValid, spdoOut, output, checks>>
    BY <1>2 DEF InvalidCycle, stateVars, ioVars
  <2>3. irq' \in BOOLEAN /\ alive' \in BOOLEAN /\ inFlight' \in BOOLEAN
        /\ late' \in BOOLEAN /\ connValid' \in BOOLEAN /\ spdoOut' \in BOOLEAN
        /\ output' \in BOOLEAN /\ raced' \in BOOLEAN
    BY <2>2, Zenon DEF TypeOK
  <2> QED
    BY <2>1, <2>2, <2>3 DEF TypeOK
<1>3. CASE TimePasses \/ SyncLost
  <2>1. alive' \in BOOLEAN /\ late' \in BOOLEAN
    BY <1>3 DEF TypeOK, TimePasses, SyncLost
  <2>2. UNCHANGED <<pc, irq, inFlight, mon, samples, slot, snState, stack, entries,
                    raced, flags, param, connValid, spdoOut, output, checks>>
    BY <1>3 DEF TimePasses, SyncLost, monVars, stateVars, ioVars
  <2> QED
    BY <2>1, <2>2, ZenonT(30) DEF TypeOK
<1> QED
  BY <1>1, <1>2, <1>3

(* What a transfer does to the variables of every task. *)
LEMMA TransferTypes ==
    ASSUME TypeOK, NEW task, NEW next \in {"Shnf", "Sapl", "State"},
           TransferFinished(task, next),
           NEW r \in ReceivedSpdo, app_process(r)
    PROVE  /\ r.valid \in BOOLEAN
           /\ pc' \in Place /\ irq' \in BOOLEAN /\ alive' \in BOOLEAN
           /\ inFlight' \in BOOLEAN /\ late' \in BOOLEAN
           /\ mon' \in {"Init", "Active", "Timeout"} /\ samples' \in 0..2
           /\ slot' \in {"Shnf", "Sapl", "State"}
           /\ spdoOut' \in BOOLEAN /\ output' \in BOOLEAN
<1>1. r.valid \in BOOLEAN /\ (r.valid /\ r.out) \in BOOLEAN
  BY ReceivedTypes DEF TypeOK
<1>2. spdoOut' \in BOOLEAN /\ output' \in BOOLEAN
  BY <1>1 DEF app_process
<1> QED
  BY <1>1, <1>2 DEF TransferFinished, TypeOK, monVars

LEMMA TaskTypes == TypeOK /\ Transfer => TypeOK'
<1> SUFFICES ASSUME TypeOK, Transfer PROVE TypeOK'
  OBVIOUS
<1>1. CASE ShnfProcess
  <2>1. PICK r \in ReceivedSpdo : connValid' = r.valid /\ app_process(r)
    BY <1>1 DEF ShnfProcess
  <2>2. flags' \in Flags /\ param' \in Param
    BY <1>1, FlagTypes, ParamTypes
       DEF TypeOK, ShnfProcess, SwitchToOpReq, CalcParamChkSum,
           postLifetimeError, postFatalError
  <2> QED
    BY <1>1, <2>1, <2>2, TransferTypes DEF TypeOK, ShnfProcess, stateVars
<1>2. CASE SaplProcessSync
  <2>1. PICK r \in ReceivedSpdo : connValid' = r.valid /\ app_process(r)
    BY <1>2 DEF SaplProcessSync
  <2>2. flags' \in Flags /\ param' \in Param
    BY <1>2, FlagTypes, ParamTypes DEF TypeOK, SaplProcessSync, postFatalError
  <2>3. checks' \in 0..MaxChecks
    BY <1>2, ChecksAssumption DEF TypeOK, SaplProcessSync
  <2> QED
    BY <1>2, <2>1, <2>2, <2>3, TransferTypes DEF TypeOK, SaplProcessSync, stateVars
<1>3. CASE HandleEnterOp
  <2>1. PICK r \in ReceivedSpdo : connValid' = r.valid /\ app_process(r)
    BY <1>3 DEF HandleEnterOp
  <2>2. flags' \in Flags
    BY <1>3, FlagTypes
       DEF TypeOK, HandleEnterOp, EnterOperational, EnterOperationalFails
  <2>3. raced' \in BOOLEAN
    BY <1>3 DEF TypeOK, HandleEnterOp, EnterOperational, EnterOperationalFails,
                stateVars
  <2>4. /\ snState' \in {"Initializing", "PreOperational", "Operational"}
        /\ stack' \in {"Initialization", "PreOperational", "Operational"}
        /\ entries' \in Nat
    BY <1>3 DEF TypeOK, HandleEnterOp, EnterOperational, EnterOperationalFails,
                stateVars
  <2>5. checks' = checks /\ param' = param
    BY <1>3 DEF HandleEnterOp
  <2> QED
    BY <1>3, <2>1, <2>2, <2>3, <2>4, <2>5, TransferTypes DEF TypeOK, HandleEnterOp
<1>4. CASE HandleEnterPreOp
  <2>1. PICK r \in ReceivedSpdo :
          /\ app_process(r)
          /\ connValid' \in {r.valid, FALSE}
          /\ \/ stack' = "PreOperational" /\ snState' = "PreOperational"
             \/ UNCHANGED <<snState, stack>>
          /\ \/ flags' = [flags EXCEPT !.enterPreOp = FALSE]
             \/ flags' = [flags EXCEPT !.enterPreOp = FALSE, !.shutdown = TRUE]
    BY <1>4 DEF HandleEnterPreOp
  <2>2. flags' \in Flags
    BY <2>1, FlagTypes DEF TypeOK
  <2> QED
    BY <1>4, <2>1, <2>2, TransferTypes DEF TypeOK, HandleEnterPreOp
<1>5. CASE HandleNoChange
  <2>1. PICK r \in ReceivedSpdo : connValid' = r.valid /\ app_process(r)
    BY <1>5 DEF HandleNoChange
  <2> QED
    BY <1>5, <2>1, TransferTypes DEF TypeOK, HandleNoChange, stateVars
<1> QED
  BY <1>1, <1>2, <1>3, <1>4, <1>5 DEF Transfer

LEMMA TypesInit == Init => TypeOK
<1> SUFFICES ASSUME Init PROVE TypeOK
  OBVIOUS
<1>1. flags \in Flags /\ param \in Param
  BY DEF Init, NoFlags, Flags, Param
<1>2. checks \in 0..MaxChecks /\ entries \in Nat /\ samples \in 0..2
  BY ChecksAssumption DEF Init
<1> QED
  BY <1>1, <1>2 DEF Init, TypeOK, Place

LEMMA TypesStep == TypeOK /\ [Next]_vars => TypeOK'
<1>1. TypeOK /\ UNCHANGED vars => TypeOK'
  BY DEF TypeOK, vars, monVars, stateVars, ioVars
<1> QED
  BY <1>1, MainTypes, SyncTypes, TaskTypes DEF Next

(* Every variable of the safety node keeps its type. *)
THEOREM TypeCorrect == Spec => []TypeOK
BY TypesInit, TypesStep, PTL DEF Spec

-----------------------------------------------------------------------------
(* Check sums.  Most steps leave the four variables alone.                 *)

LEMMA ChecksKept ==
    ASSUME ChecksSound, entries' = entries, checks' = checks,
           flags'.enterOp = flags.enterOp, param' = param
    PROVE  ChecksSound'
BY DEF ChecksSound, Outstanding

LEMMA MainChecks ==
    ASSUME TypeOK, ChecksSound, Main \/ SyncCycle \/ InvalidCycle \/ TimePasses \/ SyncLost
    PROVE  ChecksSound'
<1>1. entries' = entries /\ checks' = checks /\ param' = param
  BY DEF Main, CheckShutdown, SaplProcess, CheckTimeout, SetTimeout, ShnfReset,
         ResetImage, ResetOutput, TransPreOp, SetSnState, ClearEnterPreOp, HnfExit,
         AppExit, SyncCycle, InvalidCycle, TimePasses, SyncLost, stateVars
<1>2. \/ flags' = flags
      \/ flags' = [flags EXCEPT !.shutdown = TRUE]
      \/ flags' = [flags EXCEPT !.enterPreOp = FALSE]
  BY DEF Main, CheckShutdown, SaplProcess, CheckTimeout, SetTimeout, ShnfReset,
         ResetImage, ResetOutput, TransPreOp, SetSnState, ClearEnterPreOp, HnfExit,
         AppExit, SyncCycle, InvalidCycle, TimePasses, SyncLost, postFatalError
<1>3. flags'.enterOp = flags.enterOp
  BY <1>2 DEF TypeOK, Flags
<1> QED
  BY <1>1, <1>3, ChecksKept

LEMMA TaskChecks ==
    ASSUME TypeOK, ChecksSound, Transfer PROVE ChecksSound'
<1> USE DEF ChecksSound, Outstanding
<1>1. entries \in Nat /\ checks \in Nat /\ flags \in Flags /\ param \in Param
  BY ChecksAssumption DEF TypeOK
<1>2. CASE ShnfProcess
  <2>1. entries' = entries /\ checks' = checks
    BY <1>2 DEF ShnfProcess, stateVars
  <2>2. CASE SwitchToOpReq
    <3>1. flags'.enterOp = TRUE /\ param'.crcValid = FALSE /\ param.crcValid = TRUE
      BY <1>1, <2>2 DEF SwitchToOpReq, Flags, Param
    <3> QED
      BY <1>1, <2>1, <3>1
  <2>3. CASE CalcParamChkSum
    <3>1. flags' = flags /\ param'.crcValid = param.crcValid
      BY <1>1, <2>3 DEF CalcParamChkSum, Param
    <3> QED
      BY <1>1, <2>1, <3>1
  <2>4. CASE param' = param /\ (postLifetimeError \/ postFatalError \/ flags' = flags)
    <3>1. flags'.enterOp = flags.enterOp
      BY <1>1, <2>4 DEF postLifetimeError, postFatalError, Flags
    <3> QED
      BY <1>1, <2>1, <2>4, <3>1
  <2> QED
    BY <1>2, <2>2, <2>3, <2>4 DEF ShnfProcess
<1>3. CASE SaplProcessSync
  <2>1. entries' = entries
    BY <1>3 DEF SaplProcessSync, stateVars
  <2>2. flags'.enterOp = flags.enterOp
    <3>1. flags' = flags \/ flags' = [flags EXCEPT !.shutdown = TRUE]
      BY <1>3 DEF SaplProcessSync, postFatalError
    <3> QED
      BY <1>1, <3>1 DEF Flags
  <2>3. \/ checks' = checks + 1
        \/ checks' = checks /\ param'.crcValid = param.crcValid
    BY <1>1, <1>3 DEF SaplProcessSync, Param
  <2> QED
    BY <1>1, <2>1, <2>2, <2>3
<1>4. CASE HandleEnterOp
  <2>1. flags.enterOp = TRUE /\ flags'.enterOp = FALSE
    BY <1>1, <1>4
       DEF HandleEnterOp, EnterOperational, EnterOperationalFails, Flags
  <2>2. (entries' = entries \/ entries' = entries + 1) /\ checks' = checks
    BY <1>4 DEF HandleEnterOp, EnterOperational, EnterOperationalFails, stateVars
  <2>3. param'.crcValid = param.crcValid
    BY <1>4 DEF HandleEnterOp
  <2> QED
    BY <1>1, <2>1, <2>2, <2>3
<1>5. CASE HandleEnterPreOp
  <2>1. flags'.enterOp = flags.enterOp
    BY <1>1, <1>5 DEF HandleEnterPreOp, Flags
  <2>2. entries' = entries /\ checks' = checks /\ param' = param
    BY <1>5 DEF HandleEnterPreOp
  <2> QED
    BY <2>1, <2>2
<1>6. CASE HandleNoChange
  BY <1>6 DEF HandleNoChange, stateVars
<1> QED
  BY <1>2, <1>3, <1>4, <1>5, <1>6 DEF Transfer

-----------------------------------------------------------------------------
(* Agreement of node and stack. *)

Agreement == StatesAgree /\ ResetSound

(* Steps of the main program that neither begin nor end a transition. *)
LEMMA AgreementKept ==
    ASSUME Agreement, UNCHANGED <<snState, stack, raced>>,
           pc # "setSnState", pc' # "setSnState"
    PROVE  Agreement'
BY DEF Agreement, StatesAgree, ResetSound

LEMMA MainAgreement ==
    ASSUME Agreement, Main PROVE Agreement'
<1>1. CASE CheckShutdown \/ SaplProcess \/ CheckTimeout \/ HnfExit \/ AppExit
  BY <1>1, AgreementKept
     DEF CheckShutdown, SaplProcess, CheckTimeout, HnfExit, AppExit, stateVars
<1>2. CASE SetTimeout \/ ShnfReset \/ ResetImage \/ ResetOutput \/ ClearEnterPreOp
  BY <1>2, AgreementKept
     DEF SetTimeout, ShnfReset, ResetImage, ResetOutput, ClearEnterPreOp, stateVars
<1>3. CASE TransPreOp
  BY <1>3 DEF TransPreOp, Agreement, StatesAgree, ResetSound
<1>4. CASE SetSnState
  BY <1>4 DEF SetSnState, Agreement, StatesAgree, ResetSound
<1> QED
  BY <1>1, <1>2, <1>3, <1>4 DEF Main

(* An interrupt leaves the main program where it is; when it takes the     *)
(* node to Operational, raced tells whether that was inside a transition.  *)
LEMMA InterruptAgreement ==
    ASSUME Agreement,
           Transfer \/ SyncCycle \/ InvalidCycle \/ TimePasses \/ SyncLost
    PROVE  Agreement'
<1>1. pc' = pc
  BY DEF Transfer, ShnfProcess, SaplProcessSync, HandleEnterOp, HandleEnterPreOp,
         HandleNoChange, TransferFinished, SyncCycle, InvalidCycle, TimePasses,
         SyncLost
<1>2. \/ UNCHANGED <<snState, stack, raced>>
      \/ /\ snState' = "Operational" /\ stack' = "Operational"
         /\ raced' = (raced \/ pc = "setSnState")
      \/ /\ snState' = "PreOperational" /\ stack' = "PreOperational"
         /\ raced' = raced
  BY DEF Transfer, ShnfProcess, SaplProcessSync, HandleEnterOp, EnterOperational,
         EnterOperationalFails, HandleEnterPreOp, HandleNoChange, SyncCycle,
         InvalidCycle, TimePasses, SyncLost, stateVars
<1> QED
  BY <1>1, <1>2 DEF Agreement, StatesAgree, ResetSound

-----------------------------------------------------------------------------
(* The invariant. *)

LEMMA InvInit == Init => IInv
<1> SUFFICES ASSUME Init PROVE IInv
  OBVIOUS
<1>1. TypeOK
  BY TypesInit
<1>2. ChecksSound
  BY DEF Init, NoFlags, ChecksSound, Outstanding
<1>3. StatesAgree /\ ResetSound
  BY DEF Init, StatesAgree, ResetSound
<1> QED
  BY <1>1, <1>2, <1>3 DEF IInv

LEMMA InvStep == IInv /\ [Next]_vars => IInv'
<1> SUFFICES ASSUME IInv, [Next]_vars PROVE IInv'
  OBVIOUS
<1>1. TypeOK'
  BY TypesStep DEF IInv
<1>2. ChecksSound'
  <2>1. CASE UNCHANGED vars
    BY <2>1 DEF IInv, vars, stateVars, ChecksSound, Outstanding
  <2> QED
    BY <2>1, MainChecks, TaskChecks DEF IInv, Next
<1>3. Agreement'
  <2>1. CASE UNCHANGED vars
    BY <2>1 DEF IInv, vars, stateVars, Agreement, StatesAgree, ResetSound
  <2> QED
    BY <2>1, MainAgreement, InterruptAgreement DEF IInv, Agreement, Next
<1> QED
  BY <1>1, <1>2, <1>3 DEF IInv, Agreement

(* However often the cycle fails and the node is reset, and whenever an    *)
(* interrupt comes in between, each entry into Operational has used up a   *)
(* check sum of its own.                                                   *)
THEOREM ChecksCorrect == Spec => []OneCheckPerEntry
<1>1. IInv => OneCheckPerEntry
  <2> SUFFICES ASSUME IInv PROVE OneCheckPerEntry
    OBVIOUS
  <2>1. Outstanding \in Nat
    BY DEF Outstanding
  <2> QED
    BY <2>1, ChecksAssumption DEF IInv, TypeOK, ChecksSound, OneCheckPerEntry
<1> QED
  BY <1>1, InvInit, InvStep, PTL DEF Spec

(* Node and stack agree on Operational outside a transition, unless an     *)
(* interrupt has entered Operational within one.                           *)
THEOREM AgreementCorrect == Spec => []StatesAgree
<1>1. IInv => StatesAgree
  BY DEF IInv
<1> QED
  BY <1>1, InvInit, InvStep, PTL DEF Spec
=============================================================================
