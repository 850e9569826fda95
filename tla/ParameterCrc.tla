---------------------------- MODULE ParameterCrc ----------------------------
(***************************************************************************)
(* The check sum of the parameters of a safety node: the SCM asks for it   *)
(* once it has written them, and the node computes it over its object      *)
(* dictionary, one object in a call of sapl_processSync, while the stack   *)
(* may write objects, hand over another set or ask again.  The background  *)
(* loop stores a parsed set and clears its own bit among the tasks, by a   *)
(* load and a store which the interrupts may come between.  Sources:       *)
(* sapl/parametercrc.c, sapl/sapl.c.                                       *)
(*                                                                         *)
(* The callbacks of the stack and sapl_processSync run in interrupts of    *)
(* one priority: a call is not interrupted.  The loop over the blocks of   *)
(* an object is made of steps of its own, for it may not come to an end.   *)
(* A CRC is modelled by the bytes it is computed over.                     *)
(***************************************************************************)
EXTENDS Integers, Sequences, SequencesExt

CONSTANTS Byte,
          NumObjects, \* objects 1, 2, ... in the order of the dictionary
          Checked,    \* those with the attribute SOD_k_ATTR_CRC
          Domain,     \* those of variable length
          DomainLen,  \* longest of these; the other objects have one byte
          MaxData,    \* MAX_CRC32_DATA_LENGTH
          Count       \* CRC32_ENTRY_COUNT

ASSUME DictionaryAssumption ==
    /\ {NumObjects, DomainLen} \subseteq Nat
    /\ Checked \cup Domain \subseteq 1..NumObjects
ASSUME BlockAssumption == {MaxData, Count} \subseteq Nat \ {0}

VARIABLES
    sod,       \* the objects of the dictionary
    chksum,    \* object 0x1018/6: the check sums the SCM has computed
    crcTasks,  \* activeTasks_m
    crcLoop,   \* where the background loop is, and its copy of the tasks
    crcFatal,  \* the module posted a fatal error
    state,     \* paramCrcState_m
    next,      \* position of SOD_AttrGetNext, 0: fStartProc_m
    data,      \* of the object in progress, the bytes still to cover
    dataLen,   \* currDataLen_m
    active,    \* activeCrc_m
    entries,   \* crc32Entries_m
    answer,    \* given to the stack since the last request, or "none"
    fresh,     \* history: nothing was written since the last request
    raced      \* history: the loop wrote back another CRC bit than it found

dictionary == <<sod, chksum>>
crcVars == <<next, data, dataLen, active, entries>>
loopVars == <<crcLoop, raced>>
calcVars == <<dictionary, crcTasks, loopVars, crcFatal, state, crcVars, answer, fresh>>

ObjectNo == 1..NumObjects
Values(o) == IF o \in Domain THEN BoundedSeq(Byte, DomainLen) ELSE BoundedSeq(Byte, 1) \ {<<>>}

(* The bytes the check sums cover, in the order of the dictionary, and the *)
(* check sum of each block of MaxData of them: what the SCM computes.      *)
Covered(dict) == FlattenSeq([o \in ObjectNo |-> IF o \in Checked THEN dict[o] ELSE <<>>])
CrcsOf(bytes) ==
    [k \in 1..Count |-> SubSeq(bytes, (k - 1) * MaxData + 1,
                               IF k * MaxData < Len(bytes) THEN k * MaxData ELSE Len(bytes))]

Dictionaries == {d \in [ObjectNo -> UNION {Values(o) : o \in ObjectNo}] :
                    \A o \in ObjectNo : d[o] \in Values(o)}
Checksums == {CrcsOf(Covered(d)) : d \in Dictionaries}

NoCrcs == [k \in 1..Count |-> <<>>]
LoopIdle == [pc |-> "check", copy |-> {}]

CrcInit ==
    /\ sod \in Dictionaries
    /\ chksum \in Checksums
    /\ crcTasks = {} /\ crcLoop = LoopIdle
    /\ crcFatal = FALSE /\ raced = FALSE
    /\ state = "Invalid"
    /\ next = 0 /\ data = <<>> /\ dataLen = 0 /\ active = 1 /\ entries = NoCrcs
    /\ answer = "none"
    /\ fresh = FALSE

-----------------------------------------------------------------------------
(* The stack, between two calls. *)

BetweenCalls == data = <<>>

(* A single object, or one of a set being parsed. *)
Write(o, v) ==
    /\ BetweenCalls
    /\ sod' = [sod EXCEPT ![o] = v]
    /\ fresh' = FALSE
    /\ UNCHANGED <<chksum, crcTasks, loopVars, crcFatal, state, crcVars, answer>>

WriteChecksum(c) ==
    /\ BetweenCalls
    /\ chksum' = c
    /\ fresh' = FALSE
    /\ UNCHANGED <<sod, crcTasks, loopVars, crcFatal, state, crcVars, answer>>

(* SAPL_SOD_ParameterSet_CLBK: the parser goes first. *)
ParameterSet_CLBK ==
    /\ BetweenCalls /\ "PARSE" \notin crcTasks
    /\ crcTasks' = crcTasks \cup {"PARSE"}
    /\ fresh' = FALSE
    /\ UNCHANGED <<dictionary, loopVars, crcFatal, state, crcVars, answer>>

ParserEnds ==
    /\ BetweenCalls /\ "PARSE" \in crcTasks
    /\ crcTasks' = (crcTasks \ {"PARSE"}) \cup {"STORE"}
    /\ UNCHANGED <<dictionary, loopVars, crcFatal, state, crcVars, answer, fresh>>

(* A faulty form: a calculation that runs is not begun again. *)
CalcParamChkSumClbkOnce ==
    /\ BetweenCalls
    /\ state' = IF state = "Invalid" THEN "Init" ELSE state
    /\ crcTasks' = crcTasks \cup {"CRC"}
    /\ fresh' = ("PARSE" \notin crcTasks)
    /\ answer' = "none"
    /\ UNCHANGED <<dictionary, loopVars, crcFatal, crcVars>>

(* paramcrc_startProcessing, whatever the state of the module. *)
CalcParamChkSumClbk ==
    /\ BetweenCalls
    /\ state' = "Init"
    /\ crcTasks' = crcTasks \cup {"CRC"}
    /\ fresh' = ("PARSE" \notin crcTasks)
    /\ answer' = "none"
    /\ UNCHANGED <<dictionary, loopVars, crcFatal, crcVars>>

-----------------------------------------------------------------------------
(* The background loop. *)

Goes(pc) == crcLoop.pc = pc /\ BetweenCalls
                /\ UNCHANGED <<dictionary, crcFatal, state, crcVars, answer, fresh>>

(* sodstore_process when it ends the task; the loop itself ends once a     *)
(* fatal error is posted.                                                  *)
LoopStores ==
    /\ Goes("check")
    /\ crcTasks = {"STORE"} /\ ~crcFatal
    /\ crcLoop' = [crcLoop EXCEPT !.pc = "clear"]
    /\ UNCHANGED <<crcTasks, raced>>

(* activeTasks_m &= ~STORE *)
ClearTaskLoad ==
    /\ Goes("clear")
    /\ crcLoop' = [pc |-> "loaded", copy |-> crcTasks]
    /\ UNCHANGED <<crcTasks, raced>>

ClearTaskStore ==
    /\ Goes("loaded")
    /\ crcTasks' = crcLoop.copy \ {"STORE"}
    /\ crcLoop' = LoopIdle
    /\ raced' = (raced \/ ("CRC" \in crcTasks) # ("CRC" \in crcLoop.copy))

LoopStep == LoopStores \/ ClearTaskLoad \/ ClearTaskStore

-----------------------------------------------------------------------------
(* paramcrc_process. *)

Process(s) ==
    /\ BetweenCalls
    /\ "PARSE" \notin crcTasks /\ "CRC" \in crcTasks
    /\ state = s
    /\ UNCHANGED <<dictionary, loopVars, fresh>>

(* Called without a calculation. *)
InvalidState ==
    /\ Process("Invalid")
    /\ crcFatal' = TRUE
    /\ UNCHANGED <<state, crcVars, crcTasks, answer>>

StartCalc ==
    /\ Process("Init")
    /\ state' = "Process"
    /\ next' = 0 /\ dataLen' = 0 /\ active' = 1 /\ entries' = NoCrcs
    /\ UNCHANGED <<data, crcTasks, crcFatal, answer>>

(* An object without data would be an error; this dictionary has none. *)
NextObject ==
    /\ Process("Process")
    /\ next < NumObjects
    /\ next' = next + 1
    /\ data' = IF next' \in Checked THEN sod[next'] ELSE <<>>
    /\ UNCHANGED <<state, dataLen, active, entries, crcTasks, crcFatal, answer>>

EndOfDictionary ==
    /\ Process("Process")
    /\ next = NumObjects
    /\ state' = "Finished"
    /\ UNCHANGED <<crcVars, crcTasks, crcFatal, answer>>

(* A faulty form: the last byte of a block is not used. *)
getCurrentActiveCrc32OneLess(len) ==
    CASE dataLen + len >= MaxData -> [rem |-> MaxData - 1 - dataLen, len |-> dataLen, crc |-> active]
      [] OTHER -> [rem |-> len, len |-> dataLen, crc |-> active]

(* How much of len bytes the CRC in use takes, and which one that is, 0    *)
(* when none is left.  The first test is also true when nothing is left in *)
(* it.                                                                     *)
getCurrentActiveCrc32(len) ==
    CASE dataLen + len > MaxData -> [rem |-> MaxData - dataLen, len |-> dataLen, crc |-> active]
      [] dataLen + len <= MaxData /\ dataLen = MaxData ->
            IF active - 1 < Count THEN [rem |-> len, len |-> 0, crc |-> active + 1]
            ELSE [rem |-> 0, len |-> dataLen, crc |-> 0]
      [] OTHER -> [rem |-> len, len |-> dataLen, crc |-> active]

(* A round of the loop of calculateObjectCrc, left without a CRC to use. *)
CoverBlock ==
    /\ data # <<>>
    /\ LET block == getCurrentActiveCrc32(Len(data))
       IN  IF block.crc = 0
           THEN /\ crcFatal' = TRUE
                /\ data' = <<>>
                /\ UNCHANGED <<entries, dataLen, active>>
           ELSE /\ entries' = [entries EXCEPT ![block.crc] = @ \o SubSeq(data, 1, block.rem)]
                /\ dataLen' = block.len + block.rem
                /\ active' = block.crc
                /\ data' = SubSeq(data, 1, Len(data) - block.rem)   \* from the start again
                /\ UNCHANGED crcFatal
    /\ UNCHANGED <<dictionary, crcTasks, loopVars, state, next, answer, fresh>>

(* A faulty form: the task is left only with a valid answer. *)
VerifyValidEnds ==
    /\ Process("Finished")
    /\ state' = "Invalid"
    /\ answer' = IF chksum = entries THEN "valid" ELSE "invalid"
    /\ crcTasks' = IF chksum = entries THEN crcTasks \ {"CRC"} ELSE crcTasks
    /\ UNCHANGED <<crcVars, crcFatal>>

(* verifyCrc32Values, and the answer sapl_processSync gives. *)
Verify ==
    /\ Process("Finished")
    /\ state' = "Invalid"
    /\ answer' = IF chksum = entries THEN "valid" ELSE "invalid"
    /\ crcTasks' = crcTasks \ {"CRC"}
    /\ UNCHANGED <<crcVars, crcFatal>>

paramcrc_process ==
    InvalidState \/ StartCalc \/ NextObject \/ EndOfDictionary \/ CoverBlock \/ Verify

CrcNext ==
    \/ \E o \in ObjectNo : \E v \in Values(o) : Write(o, v)
    \/ \E c \in Checksums : WriteChecksum(c)
    \/ ParameterSet_CLBK \/ ParserEnds \/ CalcParamChkSumClbk
    \/ LoopStep \/ paramcrc_process

(* processTaskSchedule calls sapl_processSync every third cycle. *)
CrcSpec == CrcInit /\ [][CrcNext]_calcVars /\ WF_calcVars(paramcrc_process) /\ WF_calcVars(ParserEnds)

-----------------------------------------------------------------------------
CrcTask == {"PARSE", "CRC", "STORE"}

CrcTypeOK ==
    /\ sod \in Dictionaries /\ chksum \in Checksums
    /\ crcTasks \subseteq CrcTask
    /\ crcLoop \in [pc : {"check", "clear", "loaded"}, copy : SUBSET CrcTask]
    /\ crcFatal \in BOOLEAN /\ raced \in BOOLEAN
    /\ state \in {"Invalid", "Init", "Process", "Finished"}
    /\ next \in 0..NumObjects
    /\ data \in Seq(Byte)
    /\ dataLen \in 0..MaxData /\ active \in 1..Count
    /\ entries \in [1..Count -> Seq(Byte)]
    /\ answer \in {"none", "valid", "invalid"}
    /\ fresh \in BOOLEAN

(* The answer to a request is exact: unless something was written after    *)
(* it, "valid" is given if and only if the check sums the SCM wrote are    *)
(* those of the dictionary, also when a calculation was running before or  *)
(* its request was lost.                                                   *)
AnswerIsExact ==
    [][fresh /\ state = "Finished" /\ state' = "Invalid"
        => (answer' = "valid" <=> chksum = CrcsOf(Covered(sod)))]_calcVars

(* The CRC task and the state of the module agree, and neither of its      *)
(* fatal errors (parametercrc.c:257, 387) is posted, unless the write-back *)
(* of the background loop met a request or an answer.                      *)
CalledWhenStarted ==
    ~raced => ("CRC" \in crcTasks <=> state # "Invalid") /\ ~crcFatal

(* A calculation comes to its end, or is begun again, as long as the       *)
(* parameters fit in one block, up to the block that is exactly full, and  *)
(* the loop does not clear the CRC bit with its own.                       *)
CalcEnds ==
    state \in {"Process", "Finished"} /\ fresh /\ Len(Covered(sod)) <= MaxData
        ~> state \in {"Invalid", "Init"} \/ ~fresh \/ "CRC" \notin crcTasks
=============================================================================
