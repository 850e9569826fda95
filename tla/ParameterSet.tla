---------------------------- MODULE ParameterSet ----------------------------
(***************************************************************************)
(* The parameter set of a safety node: downloaded by the SCM into object   *)
(* 0x101A, parsed into the object dictionary, stored in flash memory and   *)
(* restored at the next boot.  Sources: sapl/sapl.c, sodstore.c and        *)
(* parameterset.c, the background loop of main.c, and nvs.c of the target. *)
(*                                                                         *)
(* The callbacks of the stack and sapl_processSync run in interrupts of    *)
(* one priority and are single actions; they preempt the background loop,  *)
(* whose steps are the accesses to memory both sides use and the writes    *)
(* to the flash.  Power may be lost between any two steps.                 *)
(*                                                                         *)
(* A parameter set is a sequence of objects and each object one chunk of   *)
(* NVS_IMAGE_DATA_CHUNK_SIZE bytes.  A check sum is modelled by the        *)
(* sequence it is computed over (two sets never have the same one), and    *)
(* the erasure of the flash sector is one step.                            *)
(***************************************************************************)
EXTENDS Integers, Sequences

CONSTANTS Object,        \* values of one object of a parameter set
          Unknown,       \* those the object dictionary does not take
          MaxLen,        \* SAPL_k_MAX_PARAM_SET_LEN in chunks
          Erased,        \* content of a chunk of erased flash
          MaxRequests,   \* bound: sets downloaded and check sums requested
          MaxPowerCycles \* bound: losses of power

ASSUME ObjectAssumption == Unknown \subseteq Object /\ Erased \notin Object
ASSUME LengthAssumption == MaxLen \in Nat \ {0}
ASSUME BoundAssumption == MaxRequests \in Nat /\ MaxPowerCycles \in Nat

VARIABLES
    phase,          \* boot, restore, run, down (main has returned)
    flash,          \* the image of the storage sector
    ram,            \* buffer of object 0x101A and the actual length of the set
    pos,            \* chunks of the running download already written
    tasks,          \* activeTasks_m
    calc,           \* a check sum is being calculated (ParameterCrc)
    fParamCrcValid, \* fParamCrcValid_m
    fShutdown,      \* a fatal error was posted
    main,           \* progress of the background loop
    store,          \* sodStoreInstance_l
    handed,         \* history: the set last handed over by the stack
    lastParsed,     \* history: the set the parser finished last
    stored,         \* history: lastParsed when the image was begun
    mixed,          \* history: a download overlapped the storing of an image
    requests,       \* count for MaxRequests
    powerCycles        \* count for MaxPowerCycles

volatile == <<pos, tasks, calc, fParamCrcValid, fShutdown, main, store>>
history == <<handed, lastParsed, stored, mixed, requests, powerCycles>>
vars == <<phase, flash, ram, volatile, history>>

Chunks == 1..MaxLen
Sets == UNION {[1..n -> Object] : n \in Chunks}
FirstChunks(data, n) == [i \in 1..n |-> data[i]]

(* Length 0 and the empty check sum stand for erased words. *)
ErasedFlash == [magic |-> FALSE, invalid |-> FALSE, length |-> 0, crc |-> <<>>,
                data |-> [i \in Chunks |-> Erased]]

ImageOf(s) ==
    [magic |-> TRUE, invalid |-> FALSE, length |-> Len(s), crc |-> s,
     data |-> [i \in Chunks |-> IF i <= Len(s) THEN s[i] ELSE Erased]]

StoredSet == FirstChunks(flash.data, flash.length)

(* A faulty form: the check sum is not compared. *)
sodstore_getSodImageNoCrc == flash.magic /\ ~flash.invalid /\ flash.length > 0

sodstore_getSodImage ==
    /\ flash.magic
    /\ ~flash.invalid
    /\ flash.length > 0
    /\ flash.crc = StoredSet

StartOfLoop == [pc |-> "check", len |-> 0, copy |-> {}]
StoreIdle == [state |-> "Init", offs |-> 0]

(* The flash is empty or holds a set stored earlier, perhaps by another    *)
(* version of the program; the buffer, which is not initialised, some      *)
(* objects.                                                                *)
Init ==
    /\ phase = "boot"
    /\ \/ flash = ErasedFlash /\ stored = <<>>
       \/ \E s \in Sets : flash = ImageOf(s) /\ stored = s
    /\ \E o \in Object : ram = [data |-> [i \in Chunks |-> o], len |-> 0]
    /\ pos = 0 /\ tasks = {} /\ calc = FALSE
    /\ fParamCrcValid = FALSE /\ fShutdown = FALSE
    /\ main = StartOfLoop /\ store = StoreIdle
    /\ handed = <<>> /\ lastParsed = <<>> /\ mixed = FALSE
    /\ requests = 0 /\ powerCycles = 0

-----------------------------------------------------------------------------
(* Power and boot. *)

PowerCycle ==
    /\ phase # "boot" /\ powerCycles < MaxPowerCycles
    /\ phase' = "boot"
    /\ powerCycles' = powerCycles + 1
    /\ pos' = 0 /\ tasks' = {} /\ calc' = FALSE
    /\ fParamCrcValid' = FALSE /\ fShutdown' = FALSE
    /\ main' = StartOfLoop /\ store' = StoreIdle
    /\ handed' = <<>> /\ lastParsed' = <<>>
    /\ UNCHANGED <<flash, ram, stored, mixed, requests>>

(* sapl_restoreSod.  In a redundant system fRestoreSod also tells whether  *)
(* the other processor has an image.  Without a restore the storage is     *)
(* erased; an erasure that fails ends main.                                *)
BeginRestore ==
    /\ phase = "boot" /\ sodstore_getSodImage
    /\ phase' = "restore"
    /\ UNCHANGED <<flash, ram, volatile, history>>

PrepareStorage ==
    /\ phase = "boot"                      \* fRestoreSod_p may be FALSE
    /\ phase' = "run"
    /\ flash' = ErasedFlash
    /\ mixed' = FALSE
    /\ UNCHANGED <<ram, volatile, handed, lastParsed, stored, requests, powerCycles>>

PrepareFails ==
    /\ phase = "boot"
    /\ phase' = "down"
    /\ UNCHANGED <<flash, ram, volatile, history>>

Parses(s) == \A i \in 1..Len(s) : s[i] \notin Unknown

(* The loop over paramset_process: an error posts a fatal error, which     *)
(* nobody looks at here, and the loop tries again.                         *)
RestoreSod ==
    /\ phase = "restore"
    /\ IF Parses(StoredSet)
       THEN /\ phase' = "run"
            /\ lastParsed' = StoredSet /\ handed' = StoredSet
            /\ UNCHANGED fShutdown
       ELSE /\ fShutdown' = TRUE
            /\ UNCHANGED <<phase, lastParsed, handed>>
    /\ UNCHANGED <<flash, ram, pos, tasks, calc, fParamCrcValid, main, store,
                   stored, mixed, requests, powerCycles>>

-----------------------------------------------------------------------------
(* The interrupts. *)

Interrupt == phase = "run" /\ UNCHANGED <<phase, flash, main, store, stored, powerCycles>>

(* SAPL_SNMTS_ParameterSetProcessed: until it is TRUE the stack does not   *)
(* begin another download.                                                 *)
ParameterSetProcessed == "PARSE" \notin tasks

(* A segment of the download; after the last one                           *)
(* SAPL_SOD_ParameterSet_CLBK hands the set over.                          *)
Download(o, last) ==
    /\ Interrupt
    /\ ParameterSetProcessed /\ pos < MaxLen /\ requests < MaxRequests
    /\ LET data == [ram.data EXCEPT ![pos + 1] = o]
       IN  IF last
           THEN /\ ram' = [data |-> data, len |-> pos + 1]
                /\ pos' = 0
                /\ tasks' = tasks \cup {"PARSE"}
                /\ handed' = FirstChunks(data, pos + 1)
                /\ requests' = requests + 1
           ELSE /\ ram' = [ram EXCEPT !.data = data]
                /\ pos' = pos + 1
                /\ UNCHANGED <<tasks, handed, requests>>
    /\ mixed' = (mixed \/ "STORE" \in tasks)
    /\ UNCHANGED <<calc, fParamCrcValid, fShutdown, lastParsed>>

AbortDownload ==
    /\ Interrupt
    /\ pos > 0
    /\ pos' = 0
    /\ UNCHANGED <<ram, tasks, calc, fParamCrcValid, fShutdown, handed, lastParsed, mixed, requests>>

CalcParamChkSum ==
    /\ Interrupt
    /\ requests < MaxRequests
    /\ requests' = requests + 1
    /\ tasks' = tasks \cup {"CRC"} /\ calc' = TRUE
    /\ UNCHANGED <<ram, pos, fParamCrcValid, fShutdown, handed, lastParsed, mixed>>

(* sapl_processSync, when paramset_process or paramcrc_process comes to    *)
(* its end; the calls before change nothing here.                          *)
ParseEnds ==
    /\ Interrupt
    /\ "PARSE" \in tasks
    /\ LET s == FirstChunks(ram.data, ram.len)
       IN  IF Parses(s)
           THEN /\ tasks' = (tasks \ {"PARSE"}) \cup {"STORE"}
                /\ lastParsed' = s
                /\ UNCHANGED fShutdown
           ELSE fShutdown' = TRUE /\ UNCHANGED <<tasks, lastParsed>>
    /\ UNCHANGED <<ram, pos, calc, fParamCrcValid, handed, mixed, requests>>

CrcEnds ==
    /\ Interrupt
    /\ "PARSE" \notin tasks /\ "CRC" \in tasks
    /\ calc' = FALSE
    /\ IF calc
       THEN /\ tasks' = tasks \ {"CRC"}
            /\ fParamCrcValid' \in {fParamCrcValid, TRUE}
            /\ UNCHANGED fShutdown
       ELSE /\ fShutdown' = TRUE        \* paramcrc_process in its state Invalid
            /\ UNCHANGED <<tasks, fParamCrcValid>>
    /\ UNCHANGED <<ram, pos, handed, lastParsed, mixed, requests>>

(* SAPL_SNMTS_SwitchToOpReqClbk raising the flag to enter Operational. *)
SwitchToOpReq ==
    /\ Interrupt
    /\ fParamCrcValid /\ tasks = {}
    /\ fParamCrcValid' = FALSE
    /\ UNCHANGED <<ram, pos, tasks, calc, fShutdown, handed, lastParsed, mixed, requests>>

-----------------------------------------------------------------------------
(* The background loop. *)

Background == /\ phase = "run"
              /\ UNCHANGED <<ram, pos, calc, fParamCrcValid, fShutdown, handed,
                             lastParsed, mixed, requests, powerCycles>>

Goto(pc) == main' = [main EXCEPT !.pc = pc]

(* processAsync up to the choice of the task in sapl_process. *)
CheckTasks ==
    /\ Background
    /\ main.pc = "check"
    /\ IF fShutdown
       THEN phase' = "down" /\ UNCHANGED main
       ELSE /\ tasks = {"STORE"}
            /\ Goto("load")
            /\ UNCHANGED phase
    /\ UNCHANGED <<flash, tasks, store, stored>>

LoadArguments ==
    /\ Background
    /\ main.pc = "load"
    /\ main' = [main EXCEPT !.pc = "store", !.len = ram.len]
    /\ UNCHANGED <<phase, flash, tasks, store, stored>>

(* sodstore_process in state Init: a flash that holds an image already is  *)
(* marked invalid, an empty one gets the magic word, then the length.      *)
InStore(state) == main.pc = "store" /\ store.state = state

(* A faulty form: the image is left valid. *)
StoreInitKeepsImage ==
    /\ InStore("Init")
    /\ IF flash.magic
       THEN UNCHANGED <<flash, stored>> /\ Goto("clear")
       ELSE flash' = [flash EXCEPT !.magic = TRUE] /\ stored' = lastParsed /\ Goto("header")
    /\ UNCHANGED store

(* A faulty form: the new set is written over the old image. *)
StoreInitOverwrites ==
    /\ InStore("Init")
    /\ flash' = [flash EXCEPT !.magic = TRUE]
    /\ stored' = lastParsed
    /\ Goto("header")
    /\ UNCHANGED store

StoreInit ==
    /\ InStore("Init")
    /\ IF flash.magic
       THEN flash' = [flash EXCEPT !.invalid = TRUE] /\ UNCHANGED stored /\ Goto("clear")
       ELSE flash' = [flash EXCEPT !.magic = TRUE] /\ stored' = lastParsed /\ Goto("header")
    /\ UNCHANGED store

StoreLength ==
    /\ main.pc = "header"
    /\ flash' = [flash EXCEPT !.length = main.len]
    /\ store' = [state |-> "AddCrc", offs |-> 0]
    /\ Goto("check")
    /\ UNCHANGED stored

StoreCrc ==
    /\ InStore("AddCrc")
    /\ flash' = [flash EXCEPT !.crc = FirstChunks(ram.data, main.len)]
    /\ store' = [store EXCEPT !.state = "Process"]
    /\ Goto("check")
    /\ UNCHANGED stored

(* One chunk; a set shorter than what is already written leaves a chunk of *)
(* size 0, or one of nearly 2^32 bytes when paramSetLen_p - offs wraps.    *)
StoreData ==
    /\ InStore("Process")
    /\ store.offs <= main.len
    /\ LET next == IF store.offs < main.len THEN store.offs + 1 ELSE main.len
       IN  /\ flash' = IF next = store.offs THEN flash
                       ELSE [flash EXCEPT !.data[next] = ram.data[next]]
           /\ store' = [state |-> IF next < main.len THEN "Process" ELSE "Finished",
                        offs |-> next]
    /\ Goto("check")
    /\ UNCHANGED stored

(* A faulty form: the finished store is not left. *)
StoreFinishedStays ==
    /\ InStore("Finished")
    /\ Goto("check")
    /\ UNCHANGED <<flash, store, stored>>

StoreFinished ==
    /\ InStore("Finished")
    /\ store' = [state |-> "Init", offs |-> 0]
    /\ Goto("clear")
    /\ UNCHANGED <<flash, stored>>

sodstore_process ==
    /\ Background
    /\ StoreInit \/ StoreLength \/ StoreCrc \/ StoreData \/ StoreFinished
    /\ UNCHANGED <<phase, tasks>>

(* The size wrapped: everything behind is written until the write fails or *)
(* leaves the flash.                                                       *)
StoreWraps ==
    /\ Background
    /\ InStore("Process")
    /\ store.offs > main.len
    /\ flash' = [flash EXCEPT !.data = [i \in Chunks |-> IF i <= store.offs
                                        THEN flash.data[i] ELSE ram.data[i]]]
    /\ phase' = "down"
    /\ UNCHANGED <<tasks, main, store, stored>>

(* A failed write, or a check sum of 0: fatal, and the loop ends. *)
StoreFails ==
    /\ Background
    /\ main.pc = "header" \/ InStore("Init") \/ InStore("AddCrc") \/ InStore("Process")
    /\ phase' = "down"
    /\ UNCHANGED <<flash, tasks, main, store, stored>>

(* activeTasks_m &= ~STORE is a load and a store. *)
ClearLoad ==
    /\ Background
    /\ main.pc = "clear"
    /\ main' = [main EXCEPT !.pc = "clearStore", !.copy = tasks]
    /\ UNCHANGED <<phase, flash, tasks, store, stored>>

ClearStore ==
    /\ Background
    /\ main.pc = "clearStore"
    /\ tasks' = main.copy \ {"STORE"}
    /\ main' = [main EXCEPT !.pc = "check", !.copy = {}]
    /\ UNCHANGED <<phase, flash, store, stored>>

-----------------------------------------------------------------------------
Boot == BeginRestore \/ PrepareStorage \/ PrepareFails \/ RestoreSod

Interrupts == (\E o \in Object, last \in BOOLEAN : Download(o, last))
                  \/ AbortDownload \/ CalcParamChkSum \/ ParseEnds \/ CrcEnds
                  \/ SwitchToOpReq

Loop == CheckTasks \/ LoadArguments \/ sodstore_process \/ StoreWraps \/ StoreFails
            \/ ClearLoad \/ ClearStore

Next == PowerCycle \/ Boot \/ Interrupts \/ Loop

(* A powered processor goes on: boot and the background loop run, and      *)
(* processTaskSchedule calls sapl_processSync every third cycle.           *)
Fairness == WF_vars(BeginRestore \/ PrepareStorage) /\ WF_vars(RestoreSod)
                /\ WF_vars(Loop) /\ WF_vars(ParseEnds) /\ WF_vars(CrcEnds)

Spec == Init /\ [][Next]_vars
FairSpec == Spec /\ Fairness

-----------------------------------------------------------------------------
Task == {"PARSE", "CRC", "STORE"}
FlashType == [magic : BOOLEAN, invalid : BOOLEAN, length : 0..MaxLen,
              crc : Sets \cup {<<>>}, data : [Chunks -> Object \cup {Erased}]]
RamType == [data : [Chunks -> Object], len : 0..MaxLen]
MainType == [pc : {"check", "load", "store", "header", "clear", "clearStore"},
             len : 0..MaxLen, copy : SUBSET Task]
StoreType == [state : {"Init", "AddCrc", "Process", "Finished"}, offs : 0..MaxLen]

TypeOK ==
    /\ phase \in {"boot", "restore", "run", "down"}
    /\ flash \in FlashType
    /\ ram \in RamType
    /\ pos \in 0..MaxLen
    /\ tasks \in SUBSET Task
    /\ {calc, fParamCrcValid, fShutdown} \subseteq BOOLEAN
    /\ main \in MainType
    /\ store \in StoreType
    /\ handed \in Sets \cup {<<>>}
    /\ lastParsed \in Sets \cup {<<>>}
    /\ stored \in Sets \cup {<<>>}
    /\ mixed \in BOOLEAN
    /\ requests \in 0..MaxRequests /\ powerCycles \in 0..MaxPowerCycles

(* Whatever step the power is lost at, an image that a boot accepts is     *)
(* whole: it is a set the parser had accepted before the image was begun.  *)
(* Sets downloaded while an image is being stored are excluded: mixed.     *)
ImageWasParsed == sodstore_getSodImage /\ ~mixed => StoredSet = stored

(* When no task is left, an image that the next boot would restore is the  *)
(* set in use: a set downloaded later has made the older image invalid.    *)
ImageIsCurrent ==
    phase = "run" /\ tasks = {} /\ ~mixed /\ sodstore_getSodImage
        => StoredSet = lastParsed

(* Flash that is not erased cannot be programmed: no chunk and no word of  *)
(* the header is written twice, except by the erasure of the sector.       *)
ProgrammedOnce ==
    [][\/ flash' = ErasedFlash
       \/ /\ flash.magic => flash'.magic
          /\ flash.length > 0 => flash'.length = flash.length
          /\ flash.crc # <<>> => flash'.crc = flash.crc
          /\ \A i \in Chunks : flash.data[i] # Erased
                                   => flash'.data[i] = flash.data[i]]_vars

(* Every task ends: the set is stored or the old image is made invalid,    *)
(* unless the node stops.                                                  *)
TasksEnd == tasks # {} ~> (tasks = {} \/ phase # "run")

(* "Verify if the parameter checksum is indeed valid and all SAPL tasks    *)
(* are finished!" (sapl.c:500): Operational is not entered before the set  *)
(* the stack handed over last was parsed.                                  *)
OperationalAfterParsing ==
    [][fParamCrcValid /\ ~fParamCrcValid' /\ phase' = "run" => lastParsed = handed]_vars
=============================================================================
