-------------------------- MODULE ParameterProofs --------------------------
(***************************************************************************)
(* The parameters of a safety node.  For sets of every length, every       *)
(* number of downloads and losses of power at every step: the types, that  *)
(* a boot accepts only whole images of parsed sets, and that an idle node  *)
(* has no image but that of its set.  For the check sum over any           *)
(* dictionary: the module is only called with a calculation begun, and     *)
(* only the first of its CRCs is ever used.                                *)
(***************************************************************************)
EXTENDS ParameterSet, ParameterCrc, SequenceTheorems, TLAPS

-----------------------------------------------------------------------------
(* The parameter set and its image. *)

(* The check sum is programmed once, from the set the parser had finished. *)
ImageSound ==
    /\ ~flash.magic => flash.crc = <<>>
    /\ ~mixed => flash.crc \in {<<>>, stored}

(* Until the interrupts are enabled nothing of the loop has begun.         *)
BootSound ==
    /\ phase = "restore" => sodstore_getSodImage
    /\ phase \in {"boot", "restore"} =>
          tasks = {} /\ main = StartOfLoop /\ store = StoreIdle

(* The loop holds the STORE bit in all its steps, and clears it only with  *)
(* no store in progress; an image in progress has its magic word.          *)
LoopSound ==
    phase = "run" =>
        /\ main.pc = "header" \/ store.state # "Init" => flash.magic
        /\ main.pc # "check" \/ store.state # "Init" => "STORE" \in tasks
        /\ main.pc \in {"clear", "clearStore"} => store.state = "Init"

(* Without an overlapping download the buffer holds the parsed set until   *)
(* it is stored, and the image is that set or invalid.                     *)
StoreSound ==
    phase = "run" /\ ~mixed =>
        /\ "STORE" \in tasks => /\ "PARSE" \notin tasks
                                /\ FirstChunks(ram.data, ram.len) = lastParsed
        /\ main.pc \in {"store", "header"} => main.len = ram.len
        /\ main.pc = "header" \/ store.state # "Init" => stored = lastParsed
        /\ main.pc \in {"clear", "clearStore"} => flash.invalid \/ stored = lastParsed
        /\ flash.magic /\ ~flash.invalid /\ "STORE" \notin tasks => stored = lastParsed

IInv == TypeOK /\ ImageSound /\ BootSound /\ LoopSound /\ StoreSound

-----------------------------------------------------------------------------
(* Types. *)

LEMMA FirstChunksType ==
    ASSUME NEW chunks \in [Chunks -> Object], NEW n \in 0..MaxLen
    PROVE  FirstChunks(chunks, n) \in Sets \cup {<<>>}
<1>1. CASE n = 0
    BY <1>1 DEF FirstChunks
<1>2. CASE n # 0
    <2>1. n \in Chunks
        BY <1>2, LengthAssumption DEF Chunks
    <2>2. FirstChunks(chunks, n) \in [1..n -> Object]
        BY <2>1, LengthAssumption DEF FirstChunks, Chunks
    <2> QED BY <2>1, <2>2 DEF Sets
<1> QED BY <1>1, <1>2

LEMMA SetLength ==
    ASSUME NEW s \in Sets
    PROVE  Len(s) \in Chunks /\ s \in [1..Len(s) -> Object]
<1>1. PICK n \in Chunks : s \in [1..n -> Object]
    BY DEF Sets
<1>2. n \in Nat
    BY <1>1, LengthAssumption DEF Chunks
<1>3. s \in Seq(Object) /\ Len(s) = n
    BY <1>1, <1>2, SeqDef, LenProperties
<1> QED BY <1>1, <1>3

LEMMA InitType == Init => TypeOK
<1> SUFFICES ASSUME Init PROVE TypeOK
    OBVIOUS
<1>1. ASSUME NEW s \in Sets
      PROVE  ImageOf(s) \in FlashType
    <2>1. Len(s) \in 0..MaxLen /\ s \in [1..Len(s) -> Object]
        BY SetLength, LengthAssumption DEF Chunks
    <2>2. [i \in Chunks |-> IF i <= Len(s) THEN s[i] ELSE Erased]
              \in [Chunks -> Object \cup {Erased}]
        BY <2>1, LengthAssumption DEF Chunks
    <2> QED BY <2>1, <2>2 DEF ImageOf, FlashType
<1>2. ErasedFlash \in FlashType
    BY LengthAssumption DEF ErasedFlash, FlashType
<1>3. flash \in FlashType /\ stored \in Sets \cup {<<>>}
    BY <1>1, <1>2 DEF Init
<1>4. ram \in RamType
    BY LengthAssumption DEF Init, RamType
<1>5. main \in MainType /\ store \in StoreType
    BY LengthAssumption DEF Init, StartOfLoop, StoreIdle, MainType, StoreType
<1>6. requests \in 0..MaxRequests /\ powerCycles \in 0..MaxPowerCycles /\ pos \in 0..MaxLen
    BY BoundAssumption, LengthAssumption DEF Init
<1> QED BY <1>3, <1>4, <1>5, <1>6 DEF Init, TypeOK

LEMMA StepType ==
    ASSUME TypeOK, BootSound, Next
    PROVE  TypeOK'
<1> USE LengthAssumption, BoundAssumption
<1>1. CASE PowerCycle
    <2>1. main' \in MainType /\ store' \in StoreType
        BY <1>1 DEF PowerCycle, StartOfLoop, StoreIdle, MainType, StoreType
    <2>2. powerCycles' \in 0..MaxPowerCycles
        BY <1>1 DEF PowerCycle, TypeOK
    <2>3. pos' \in 0..MaxLen /\ tasks' \in SUBSET Task
        BY <1>1 DEF PowerCycle
    <2> QED BY <1>1, <2>1, <2>2, <2>3 DEF PowerCycle, TypeOK
<1>2. CASE BeginRestore
    BY <1>2 DEF BeginRestore, volatile, history, TypeOK
<1>3. CASE PrepareStorage
    <2>1. ErasedFlash \in FlashType
        BY DEF ErasedFlash, FlashType
    <2> QED BY <1>3, <2>1 DEF PrepareStorage, volatile, TypeOK
<1>4. CASE PrepareFails
    BY <1>4 DEF PrepareFails, volatile, history, TypeOK
<1>5. CASE RestoreSod
    <2>1. StoredSet \in Sets \cup {<<>>}
        BY <1>5 DEF RestoreSod, BootSound, sodstore_getSodImage, TypeOK, FlashType
    <2> QED BY <1>5, <2>1 DEF RestoreSod, TypeOK
<1>6. ASSUME NEW o \in Object, NEW last \in BOOLEAN, Download(o, last)
      PROVE  TypeOK'
    <2> DEFINE chunks == [ram.data EXCEPT ![pos + 1] = o]
    <2>1. chunks \in [Chunks -> Object] /\ pos + 1 \in 0..MaxLen
        <3>1. pos \in 0..MaxLen /\ pos < MaxLen
            BY <1>6 DEF Download, TypeOK
        <3>2. ram.data \in [Chunks -> Object]
            BY DEF TypeOK, RamType
        <3>3. [ram.data EXCEPT ![pos + 1] = o] \in [Chunks -> Object]
            BY <3>2, Zenon
        <3>4. pos + 1 \in 0..MaxLen
            BY <3>1
        <3> QED BY <3>3, <3>4
    <2>2. FirstChunks(chunks, pos + 1) \in Sets \cup {<<>>}
        BY <2>1, FirstChunksType
    <2>3. ram' \in RamType
        BY <1>6, <2>1 DEF Download, TypeOK, RamType
    <2>4. pos' \in 0..MaxLen /\ requests' \in 0..MaxRequests
        BY <1>6, <2>1 DEF Download, TypeOK
    <2>5. tasks' \in SUBSET Task
        BY <1>6 DEF Download, TypeOK, Task
    <2>6. handed' \in Sets \cup {<<>>}
        BY <1>6, <2>2 DEF Download, TypeOK
    <2> QED BY <1>6, <2>3, <2>4, <2>5, <2>6 DEF Download, Interrupt, TypeOK
<1>7. CASE AbortDownload
    BY <1>7 DEF AbortDownload, Interrupt, TypeOK
<1>8. CASE CalcParamChkSum
    BY <1>8 DEF CalcParamChkSum, Interrupt, TypeOK, Task
<1>9. CASE ParseEnds
    <2>1. FirstChunks(ram.data, ram.len) \in Sets \cup {<<>>}
        BY FirstChunksType DEF TypeOK, RamType
    <2> QED BY <1>9, <2>1 DEF ParseEnds, Interrupt, TypeOK, Task
<1>10. CASE CrcEnds
    BY <1>10 DEF CrcEnds, Interrupt, TypeOK
<1>11. CASE SwitchToOpReq
    BY <1>11 DEF SwitchToOpReq, Interrupt, TypeOK
<1>12. CASE CheckTasks
    BY <1>12 DEF CheckTasks, Background, Goto, TypeOK, MainType
<1>13. CASE LoadArguments
    BY <1>13 DEF LoadArguments, Background, TypeOK, MainType, RamType
<1>14. CASE sodstore_process
    <2>1. main' \in MainType
        BY <1>14 DEF sodstore_process, StoreInit, StoreLength, StoreCrc, StoreData,
                     StoreFinished, Goto, TypeOK, MainType
    <2>2. store' \in StoreType
        BY <1>14 DEF sodstore_process, StoreInit, StoreLength, StoreCrc, StoreData,
                     StoreFinished, TypeOK, StoreType, MainType
    <2>3. stored' \in Sets \cup {<<>>}
        BY <1>14 DEF sodstore_process, StoreInit, StoreLength, StoreCrc, StoreData,
                     StoreFinished, TypeOK
    <2>4. flash' \in FlashType
        <3>1. CASE StoreInit
            BY <3>1 DEF StoreInit, TypeOK, FlashType
        <3>2. CASE StoreLength
            BY <3>2 DEF StoreLength, TypeOK, FlashType, MainType
        <3>3. CASE StoreCrc
            <4>1. FirstChunks(ram.data, main.len) \in Sets \cup {<<>>}
                BY FirstChunksType DEF TypeOK, RamType, MainType
            <4> QED BY <3>3, <4>1 DEF StoreCrc, TypeOK, FlashType
        <3>4. CASE StoreData
            BY <3>4 DEF StoreData, TypeOK, FlashType, RamType, MainType, StoreType, Chunks
        <3>5. CASE StoreFinished
            BY <3>5 DEF StoreFinished, TypeOK
        <3> QED BY <1>14, <3>1, <3>2, <3>3, <3>4, <3>5 DEF sodstore_process
    <2> QED BY <1>14, <2>1, <2>2, <2>3, <2>4 DEF sodstore_process, Background, TypeOK
<1>15. CASE StoreWraps
    <2>1. flash' \in FlashType
        BY <1>15 DEF StoreWraps, TypeOK, FlashType, RamType
    <2> QED BY <1>15, <2>1 DEF StoreWraps, Background, TypeOK
<1>16. CASE StoreFails
    BY <1>16 DEF StoreFails, Background, TypeOK
<1>17. CASE ClearLoad
    BY <1>17 DEF ClearLoad, Background, TypeOK, MainType
<1>18. CASE ClearStore
    <2>1. main' \in MainType /\ tasks' \in SUBSET Task
        BY <1>18 DEF ClearStore, TypeOK, MainType
    <2> QED BY <1>18, <2>1 DEF ClearStore, Background, TypeOK
<1> QED BY <1>1, <1>2, <1>3, <1>4, <1>5, <1>6, <1>7, <1>8, <1>9, <1>10, <1>11, <1>12,
           <1>13, <1>14, <1>15, <1>16, <1>17, <1>18
        DEF Next, Boot, Interrupts, Loop

-----------------------------------------------------------------------------
(* The invariant. *)

Sound == ImageSound /\ BootSound /\ LoopSound /\ StoreSound

LEMMA InitSound == Init => Sound
BY DEF Init, Sound, ImageSound, BootSound, LoopSound, StoreSound, ErasedFlash, ImageOf

(* An image that verifies is the one the check sum was programmed for. *)
LEMMA VerifiedIsStored ==
    ASSUME TypeOK, ImageSound, sodstore_getSodImage, ~mixed
    PROVE  StoredSet = stored
<1>1. flash.length \in 1..MaxLen
    BY LengthAssumption DEF TypeOK, FlashType, sodstore_getSodImage
<1>2. 1 \in DOMAIN StoredSet
    BY <1>1, LengthAssumption DEF StoredSet, FirstChunks
<1>3. flash.crc # <<>>
    BY <1>2 DEF sodstore_getSodImage
<1> QED BY <1>3 DEF ImageSound, sodstore_getSodImage

(* Boot and loss of power. *)
LEMMA BootKeepsSound ==
    ASSUME IInv, PowerCycle \/ Boot
    PROVE  Sound'
<1>1. CASE PowerCycle
    BY <1>1 DEF PowerCycle, IInv, Sound, ImageSound, BootSound, LoopSound, StoreSound
<1>2. CASE BeginRestore
    BY <1>2 DEF BeginRestore, volatile, history, IInv, Sound, ImageSound, BootSound,
                LoopSound, StoreSound, sodstore_getSodImage, StoredSet
<1>3. CASE PrepareStorage
    BY <1>3 DEF PrepareStorage, volatile, IInv, Sound, ImageSound, BootSound, LoopSound,
                StoreSound, ErasedFlash, StartOfLoop, StoreIdle
<1>4. CASE PrepareFails
    BY <1>4 DEF PrepareFails, volatile, history, IInv, Sound, ImageSound, BootSound,
                LoopSound, StoreSound
<1>5. CASE RestoreSod
    <2>1. ~mixed => StoredSet = stored
        BY <1>5, VerifiedIsStored DEF RestoreSod, IInv, BootSound
    <2> QED BY <1>5, <2>1
            DEF RestoreSod, IInv, Sound, ImageSound, BootSound, LoopSound, StoreSound,
                sodstore_getSodImage, StoredSet, StartOfLoop, StoreIdle
<1> QED BY <1>1, <1>2, <1>3, <1>4, <1>5 DEF Boot

(* The interrupts: only a download changes the buffer, and only the end of *)
(* a parse what counts as parsed.                                          *)
LEMMA InterruptKeepsSound ==
    ASSUME IInv, Interrupts
    PROVE  Sound'
<1> USE DEF IInv, Sound, Interrupt
<1>1. ASSUME NEW o \in Object, NEW last \in BOOLEAN, Download(o, last)
      PROVE  Sound'
    <2>1. phase = "run" /\ phase' = "run" /\ flash' = flash /\ main' = main
          /\ store' = store /\ stored' = stored /\ lastParsed' = lastParsed
        BY <1>1 DEF Download
    <2>2. mixed' = (mixed \/ "STORE" \in tasks)
          /\ ("STORE" \in tasks' <=> "STORE" \in tasks)
        BY <1>1 DEF Download
    <2>3. ImageSound' /\ BootSound' /\ LoopSound'
        BY <2>1, <2>2 DEF ImageSound, BootSound, LoopSound
    <2>4. StoreSound'
        BY <2>1, <2>2 DEF StoreSound, LoopSound
    <2> QED BY <2>3, <2>4
<1>2. CASE AbortDownload
    BY <1>2 DEF AbortDownload, ImageSound, BootSound, LoopSound, StoreSound
<1>3. CASE CalcParamChkSum
    BY <1>3 DEF CalcParamChkSum, ImageSound, BootSound, LoopSound, StoreSound
<1>4. CASE ParseEnds
    BY <1>4 DEF ParseEnds, ImageSound, BootSound, LoopSound, StoreSound
<1>5. CASE CrcEnds
    BY <1>5 DEF CrcEnds, ImageSound, BootSound, LoopSound, StoreSound
<1>6. CASE SwitchToOpReq
    BY <1>6 DEF SwitchToOpReq, ImageSound, BootSound, LoopSound, StoreSound
<1> QED BY <1>1, <1>2, <1>3, <1>4, <1>5, <1>6 DEF Interrupts

(* The background loop. *)
LEMMA StoreKeepsSound ==
    ASSUME IInv, sodstore_process
    PROVE  Sound'
<1> USE DEF IInv, Sound, sodstore_process, Background, InStore, Goto
<1>1. main \in MainType /\ store \in StoreType /\ flash \in FlashType
    BY DEF TypeOK
<1>2. CASE StoreInit
    BY <1>1, <1>2 DEF StoreInit, MainType, FlashType, ImageSound, BootSound, LoopSound, StoreSound
<1>3. CASE StoreLength
    BY <1>1, <1>3 DEF StoreLength, MainType, FlashType, ImageSound, BootSound, LoopSound, StoreSound
<1>4. CASE StoreCrc
    <2>1. ~mixed => FirstChunks(ram.data, main.len) = stored
        BY <1>4 DEF StoreCrc, LoopSound, StoreSound
    <2>2. flash.magic' = flash.magic /\ flash.invalid' = flash.invalid
          /\ flash.crc' = FirstChunks(ram.data, main.len)
        BY <1>1, <1>4 DEF StoreCrc, FlashType
    <2> QED BY <1>1, <1>4, <2>1, <2>2
            DEF StoreCrc, MainType, StoreType, ImageSound, BootSound, LoopSound, StoreSound
<1>5. CASE StoreData
    BY <1>1, <1>5 DEF StoreData, MainType, StoreType, FlashType, ImageSound, BootSound, LoopSound, StoreSound
<1>6. CASE StoreFinished
    BY <1>1, <1>6 DEF StoreFinished, MainType, ImageSound, BootSound, LoopSound, StoreSound
<1> QED BY <1>2, <1>3, <1>4, <1>5, <1>6

LEMMA LoopKeepsSound ==
    ASSUME IInv, Loop
    PROVE  Sound'
<1> USE DEF IInv, Sound, Background, InStore, Goto
<1>1. main \in MainType /\ flash \in FlashType
    BY DEF TypeOK
<1>2. CASE CheckTasks
    BY <1>1, <1>2 DEF CheckTasks, MainType, ImageSound, BootSound, LoopSound, StoreSound
<1>3. CASE LoadArguments
    BY <1>1, <1>3 DEF LoadArguments, MainType, ImageSound, BootSound, LoopSound, StoreSound
<1>4. CASE sodstore_process
    BY <1>4, StoreKeepsSound
<1>5. CASE StoreWraps
    BY <1>1, <1>5 DEF StoreWraps, FlashType, ImageSound, BootSound, LoopSound, StoreSound
<1>6. CASE StoreFails
    BY <1>6 DEF StoreFails, ImageSound, BootSound, LoopSound, StoreSound
<1>7. CASE ClearLoad
    BY <1>1, <1>7 DEF ClearLoad, MainType, ImageSound, BootSound, LoopSound, StoreSound
<1>8. CASE ClearStore
    BY <1>1, <1>8 DEF ClearStore, MainType, ImageSound, BootSound, LoopSound, StoreSound
<1> QED BY <1>2, <1>3, <1>4, <1>5, <1>6, <1>7, <1>8 DEF Loop

LEMMA NextIInv == IInv /\ [Next]_vars => IInv'
<1> SUFFICES ASSUME IInv, [Next]_vars PROVE IInv'
    OBVIOUS
<1>1. CASE Next
    <2>1. TypeOK'
        BY <1>1, StepType DEF IInv
    <2>2. Sound'
        BY <1>1, BootKeepsSound, InterruptKeepsSound, LoopKeepsSound DEF Next
    <2> QED BY <2>1, <2>2 DEF IInv, Sound
<1>2. CASE UNCHANGED vars
    BY <1>2 DEF vars, volatile, history, IInv, TypeOK, ImageSound, BootSound, LoopSound,
                StoreSound, sodstore_getSodImage, StoredSet
<1> QED BY <1>1, <1>2

LEMMA Inductive == Spec => []IInv
<1>1. Init => IInv
    BY InitType, InitSound DEF IInv, Sound
<1> QED BY <1>1, NextIInv, PTL DEF Spec

(* All state keeps its type, whatever is downloaded and whenever the power *)
(* is lost.                                                                *)
THEOREM TypeCorrect == Spec => []TypeOK
<1>1. IInv => TypeOK
    BY DEF IInv
<1> QED BY <1>1, Inductive, PTL

(* A boot accepts only the whole image of a set the parser had accepted.   *)
THEOREM ImageCorrect == Spec => []ImageWasParsed
<1>1. IInv => ImageWasParsed
    BY VerifiedIsStored DEF IInv, ImageWasParsed
<1> QED BY <1>1, Inductive, PTL

(* With no task left the image is the set in use or will not be restored.  *)
THEOREM CurrentCorrect == Spec => []ImageIsCurrent
<1>1. IInv => ImageIsCurrent
    <2> SUFFICES ASSUME IInv, phase = "run", tasks = {}, ~mixed, sodstore_getSodImage
                 PROVE  StoredSet = lastParsed
        BY DEF ImageIsCurrent
    <2>1. StoredSet = stored
        BY VerifiedIsStored DEF IInv
    <2>2. stored = lastParsed
        BY DEF IInv, StoreSound, sodstore_getSodImage
    <2> QED BY <2>1, <2>2
<1> QED BY <1>1, Inductive, PTL

-----------------------------------------------------------------------------
(* The flash is programmed once. *)

ErasedFrom(n) == \A i \in Chunks : i > n => flash.data[i] = Erased

(* What the loop is about to program is erased: everything before the      *)
(* magic word is set, and in a store in progress what its state still has  *)
(* to write.                                                               *)
FreshInv ==
    phase = "run" =>
        /\ ~flash.magic \/ main.pc = "header" =>
              flash.length = 0 /\ flash.crc = <<>> /\ ErasedFrom(0) /\ store.state = "Init"
        /\ store.state = "AddCrc" => flash.crc = <<>> /\ ErasedFrom(0)
        /\ store.state = "Process" => ErasedFrom(store.offs)

ProgrammedRight ==
    \/ flash' = ErasedFlash
    \/ /\ flash.magic => flash'.magic
       /\ flash.length > 0 => flash'.length = flash.length
       /\ flash.crc # <<>> => flash'.crc = flash.crc
       /\ \A i \in Chunks : flash.data[i] # Erased => flash'.data[i] = flash.data[i]

LEMMA FlashKept ==
    ASSUME flash' = flash
    PROVE  ProgrammedRight
BY DEF ProgrammedRight

(* The steps of a store; the other steps of the loop leave it where it is. *)
LEMMA StoreIsFresh ==
    ASSUME IInv, FreshInv, sodstore_process
    PROVE  FreshInv' /\ ProgrammedRight
<1> USE DEF sodstore_process, Background, InStore, Goto
<1>1. /\ main \in MainType /\ store \in StoreType /\ flash \in FlashType
      /\ phase = "run" /\ phase' = "run" /\ store.offs \in 0..MaxLen
    BY DEF IInv, TypeOK, StoreType
<1>2. CASE StoreInit /\ flash.magic
    <2>1. flash' = [flash EXCEPT !.invalid = TRUE] /\ main'.pc = "clear" /\ store' = store
          /\ store.state = "Init"
        BY <1>1, <1>2 DEF StoreInit, MainType
    <2> QED BY <1>1, <1>2, <2>1 DEF FreshInv, ErasedFrom, ProgrammedRight, FlashType
<1>3. CASE StoreInit /\ ~flash.magic
    <2>1. flash' = [flash EXCEPT !.magic = TRUE] /\ main'.pc = "header" /\ store' = store
          /\ store.state = "Init"
        BY <1>1, <1>3 DEF StoreInit, MainType
    <2> QED BY <1>1, <1>3, <2>1 DEF FreshInv, ErasedFrom, ProgrammedRight, FlashType
<1>4. CASE StoreLength
    <2>1. /\ flash' = [flash EXCEPT !.length = main.len] /\ main'.pc = "check" /\ main.pc = "header"
          /\ store'.state = "AddCrc" /\ flash.magic
        BY <1>1, <1>4 DEF StoreLength, MainType, IInv, LoopSound
    <2> QED BY <1>1, <2>1 DEF FreshInv, ErasedFrom, ProgrammedRight, FlashType
<1>5. CASE StoreCrc
    <2>1. /\ flash' = [flash EXCEPT !.crc = FirstChunks(ram.data, main.len)] /\ main'.pc = "check"
          /\ store.state = "AddCrc" /\ store'.state = "Process" /\ store'.offs = store.offs
          /\ flash.magic
        BY <1>1, <1>5 DEF StoreCrc, MainType, StoreType, IInv, LoopSound
    <2> QED BY <1>1, <2>1 DEF FreshInv, ErasedFrom, ProgrammedRight, FlashType
<1>6. CASE StoreData
    <2> DEFINE upTo == IF store.offs < main.len THEN store.offs + 1 ELSE main.len
    <2>1. /\ flash' = IF upTo = store.offs THEN flash
                      ELSE [flash EXCEPT !.data[upTo] = ram.data[upTo]]
          /\ store.state = "Process" /\ store'.state \in {"Process", "Finished"}
          /\ store'.offs = upTo /\ main'.pc = "check" /\ flash.magic /\ store.offs <= main.len
        BY <1>1, <1>6 DEF StoreData, MainType, IInv, LoopSound
    <2>2. upTo \in {store.offs, store.offs + 1} /\ upTo \in Nat /\ main.len \in Nat
        BY <1>1, <2>1, LengthAssumption DEF MainType
    <2> HIDE DEF upTo
    <2>3. /\ flash'.magic = flash.magic /\ flash'.length = flash.length /\ flash'.crc = flash.crc
          /\ \A i \in Chunks : i # upTo \/ upTo = store.offs => flash'.data[i] = flash.data[i]
        BY <1>1, <2>1 DEF FlashType
    <2>4. ErasedFrom(store.offs)
        BY <1>1, <2>1 DEF FreshInv
    <2>5. \A i \in Chunks : i \in Nat
        BY LengthAssumption DEF Chunks
    <2>6. ProgrammedRight
        BY <1>1, <2>2, <2>3, <2>4, <2>5 DEF ProgrammedRight, ErasedFrom
    <2>7. ErasedFrom(store.offs)'
        BY <1>1, <2>1, <2>2, <2>3, <2>4, <2>5 DEF ErasedFrom
    <2> QED BY <2>1, <2>3, <2>6, <2>7 DEF FreshInv
<1>7. CASE StoreFinished
    <2>1. /\ flash' = flash /\ store'.state = "Init" /\ main'.pc = "clear" /\ flash.magic
        BY <1>1, <1>7 DEF StoreFinished, MainType, IInv, LoopSound
    <2> QED BY <2>1 DEF FreshInv, ProgrammedRight
<1> QED BY <1>2, <1>3, <1>4, <1>5, <1>6, <1>7

LEMMA StepIsFresh ==
    ASSUME IInv, FreshInv, [Next]_vars
    PROVE  FreshInv' /\ ProgrammedRight
<1>1. main \in MainType /\ store \in StoreType /\ flash \in FlashType
    BY DEF IInv, TypeOK
<1>2. CASE PowerCycle
    BY <1>2, FlashKept DEF PowerCycle, FreshInv
<1>3. CASE BeginRestore \/ PrepareFails
    BY <1>3, FlashKept DEF BeginRestore, PrepareFails, FreshInv
<1>4. CASE PrepareStorage
    <2>1. flash' = ErasedFlash /\ store' = store /\ main' = main /\ store.state = "Init"
        BY <1>4 DEF PrepareStorage, volatile, IInv, BootSound, StoreIdle
    <2> QED BY <2>1 DEF ErasedFlash, FreshInv, ErasedFrom, ProgrammedRight
<1>5. CASE RestoreSod
    <2>1. /\ flash' = flash /\ store' = store /\ main' = main
          /\ store.state = "Init" /\ main.pc = "check" /\ flash.magic
        BY <1>5 DEF RestoreSod, IInv, BootSound, StoreIdle, StartOfLoop, sodstore_getSodImage
    <2> QED BY <2>1, FlashKept DEF FreshInv
<1>6. CASE Interrupts
    <2>1. UNCHANGED <<phase, flash, main, store>>
        BY <1>6 DEF Interrupts, Interrupt, Download, AbortDownload, CalcParamChkSum, ParseEnds,
                    CrcEnds, SwitchToOpReq
    <2> QED BY <2>1, FlashKept DEF FreshInv, ErasedFrom
<1>7. CASE CheckTasks \/ LoadArguments \/ ClearLoad \/ ClearStore
    <2>1. /\ flash' = flash /\ store' = store /\ phase = "run"
          /\ phase' = "run" => main'.pc # "header" \/ main' = main
        BY <1>1, <1>7 DEF CheckTasks, LoadArguments, ClearLoad, ClearStore, Background, Goto, MainType
    <2> QED BY <2>1, FlashKept DEF FreshInv, ErasedFrom
<1>8. CASE sodstore_process
    BY <1>8, StoreIsFresh
<1>9. CASE StoreWraps
    <2>1. /\ flash' = [flash EXCEPT !.data = [i \in Chunks |-> IF i <= store.offs
                                              THEN flash.data[i] ELSE ram.data[i]]]
          /\ phase' = "down" /\ ErasedFrom(store.offs)
        BY <1>9 DEF StoreWraps, Background, InStore, FreshInv
    <2>2. \A i \in Chunks : flash.data[i] # Erased => i <= store.offs
        BY <1>1, <2>1, LengthAssumption DEF ErasedFrom, Chunks, StoreType
    <2> QED BY <1>1, <2>1, <2>2 DEF FreshInv, ProgrammedRight, FlashType
<1>10. CASE StoreFails
    BY <1>10, FlashKept DEF StoreFails, FreshInv
<1>11. CASE UNCHANGED vars
    BY <1>11, FlashKept DEF vars, volatile, FreshInv, ErasedFrom
<1> QED BY <1>2, <1>3, <1>4, <1>5, <1>6, <1>7, <1>8, <1>9, <1>10, <1>11 DEF Next, Boot, Loop

(* Whatever is downloaded over a store in progress and wherever the power  *)
(* is lost, sodstore_process writes no word of the header and no chunk     *)
(* that is not erased.                                                     *)
THEOREM FlashProgrammedOnce == Spec => ProgrammedOnce
<1>1. Init => FreshInv
    BY DEF Init, FreshInv
<1>2. IInv /\ FreshInv /\ [Next]_vars => FreshInv' /\ [ProgrammedRight]_vars
    BY StepIsFresh
<1>3. [ProgrammedRight]_vars <=>
        [\/ flash' = ErasedFlash
         \/ /\ flash.magic => flash'.magic
            /\ flash.length > 0 => flash'.length = flash.length
            /\ flash.crc # <<>> => flash'.crc = flash.crc
            /\ \A i \in Chunks : flash.data[i] # Erased
                                     => flash'.data[i] = flash.data[i]]_vars
    BY DEF ProgrammedRight
<1> QED BY <1>1, <1>2, <1>3, Inductive, PTL DEF Spec, ProgrammedOnce

-----------------------------------------------------------------------------
(* The check sum: how far the CRC in use is filled.                        *)
BlockInv ==
    /\ sod \in [ObjectNo -> Seq(Byte)]
    /\ data \in Seq(Byte)
    /\ dataLen \in 0..MaxData
    /\ active = 1

LEMMA ValuesAreSequences == \A o \in ObjectNo : Values(o) \subseteq Seq(Byte)
<1> SUFFICES ASSUME NEW o \in ObjectNo, NEW v \in Values(o) PROVE v \in Seq(Byte)
    OBVIOUS
<1>1. PICK n \in Nat : v \in BoundedSeq(Byte, n)
    BY DictionaryAssumption DEF Values
<1>2. PICK m \in 0..n : v \in [1..m -> Byte]
    BY <1>1 DEF BoundedSeq, SeqOf
<1>3. m \in Nat
    BY SMT
<1> QED BY <1>2, <1>3, SeqDef

(* A round of the loop takes no more than fits, and never goes on to the   *)
(* next CRC: one that is full takes no byte at all.                        *)
LEMMA BlockTaken ==
    ASSUME BlockInv, NEW len \in Nat \ {0}
    PROVE  LET block == getCurrentActiveCrc32(len)
           IN  /\ block.crc = 1 /\ block.len = dataLen
               /\ block.rem \in 0..len /\ dataLen + block.rem \in 0..MaxData
<1>1. dataLen \in 0..MaxData /\ MaxData \in Nat /\ active = 1
    BY BlockAssumption DEF BlockInv
<1>2. CASE dataLen + len > MaxData
    <2>0. ~(dataLen + len <= MaxData)
        BY <1>1, <1>2, SMT
    <2>1. getCurrentActiveCrc32(len) = [rem |-> MaxData - dataLen, len |-> dataLen, crc |-> active]
        BY <1>2, <2>0 DEF getCurrentActiveCrc32
    <2>2. /\ MaxData - dataLen \in 0..len
          /\ dataLen + (MaxData - dataLen) \in 0..MaxData
        BY <1>1, <1>2, SMT
    <2> DEFINE block == getCurrentActiveCrc32(len)
    <2>3. block.crc = 1 /\ block.len = dataLen /\ block.rem = MaxData - dataLen
        BY <1>1, <2>1
    <2> HIDE DEF block
    <2>4. block.rem \in 0..len /\ dataLen + block.rem \in 0..MaxData
        BY <2>2, <2>3
    <2> QED BY <2>3, <2>4 DEF block
<1>3. CASE ~(dataLen + len > MaxData)
    <2>1. dataLen # MaxData
        BY <1>1, <1>3, SMT
    <2>2. getCurrentActiveCrc32(len) = [rem |-> len, len |-> dataLen, crc |-> active]
        BY <1>3, <2>1 DEF getCurrentActiveCrc32
    <2> QED BY <1>1, <1>3, <2>2, SMT
<1> QED BY <1>2, <1>3

LEMMA CoverBlockInv == BlockInv /\ CoverBlock => BlockInv'
<1> SUFFICES ASSUME BlockInv, CoverBlock PROVE BlockInv'
    OBVIOUS
<1> DEFINE block == getCurrentActiveCrc32(Len(data))
<1>1. data \in Seq(Byte) /\ Len(data) \in Nat \ {0}
    BY EmptySeq DEF BlockInv, CoverBlock
<1>2. /\ block.crc = 1 /\ block.len = dataLen /\ block.rem \in 0..Len(data)
      /\ dataLen + block.rem \in 0..MaxData
    BY <1>1, BlockTaken
<1>3. /\ dataLen' = block.len + block.rem /\ active' = block.crc /\ sod' = sod
      /\ data' = SubSeq(data, 1, Len(data) - block.rem)
    BY <1>2 DEF CoverBlock, dictionary
<1> HIDE DEF block
<1>4. Len(data) - block.rem \in 0..Len(data)
    BY <1>1, <1>2, SMT
<1>5. data' \in Seq(Byte)
    BY <1>1, <1>3, <1>4, SMT
<1> QED BY <1>2, <1>3, <1>5 DEF BlockInv

LEMMA LoopKeeps ==
    LoopStep => UNCHANGED <<sod, chksum, crcFatal, state, next, data, dataLen, active,
                            entries, answer, fresh>>
BY DEF LoopStep, LoopStores, ClearTaskLoad, ClearTaskStore, Goes, dictionary, crcVars

LEMMA StepBlock == BlockInv /\ [CrcNext]_calcVars => BlockInv'
<1> SUFFICES ASSUME BlockInv, [CrcNext]_calcVars PROVE BlockInv'
    OBVIOUS
<1>1. CASE UNCHANGED <<sod, data, dataLen, active>>
    BY <1>1 DEF BlockInv
<1>2. ASSUME NEW o \in ObjectNo, NEW v \in Values(o), Write(o, v) PROVE BlockInv'
    <2>1. sod' = [sod EXCEPT ![o] = v] /\ UNCHANGED <<data, dataLen, active>>
        BY <1>2 DEF Write, crcVars
    <2>2. v \in Seq(Byte)
        BY ValuesAreSequences
    <2> QED BY <2>1, <2>2 DEF BlockInv
<1>3. CASE StartCalc
    BY <1>3, BlockAssumption, SMT DEF StartCalc, Process, dictionary, BlockInv
<1>4. CASE NextObject
    <2>1. /\ data' = IF next' \in Checked THEN sod[next'] ELSE <<>>
          /\ UNCHANGED <<sod, dataLen, active>>
        BY <1>4 DEF NextObject, Process, dictionary
    <2>2. next' \in Checked => next' \in ObjectNo
        BY DictionaryAssumption DEF ObjectNo
    <2>3. data' \in Seq(Byte)
        BY <2>1, <2>2 DEF BlockInv
    <2> QED BY <2>1, <2>3 DEF BlockInv
<1>5. CASE CoverBlock
    BY <1>5, CoverBlockInv
<1>6. CASE InvalidState \/ EndOfDictionary \/ Verify
    BY <1>6, <1>1 DEF InvalidState, EndOfDictionary, Verify, Process, crcVars, dictionary
<1>7. CASE ParameterSet_CLBK \/ ParserEnds \/ CalcParamChkSumClbk
           \/ (\E c \in Checksums : WriteChecksum(c))
    BY <1>7, <1>1 DEF ParameterSet_CLBK, ParserEnds, CalcParamChkSumClbk, WriteChecksum,
                      crcVars, dictionary
<1>8. CASE LoopStep
    BY <1>8, <1>1, LoopKeeps
<1> QED BY <1>1, <1>2, <1>3, <1>4, <1>5, <1>6, <1>7, <1>8
        DEF CrcNext, paramcrc_process, calcVars, crcVars, dictionary

LEMMA InitBlock == CrcInit => BlockInv
<1> SUFFICES ASSUME CrcInit PROVE BlockInv
    OBVIOUS
<1>1. sod \in [ObjectNo -> Seq(Byte)]
    <2>1. sod \in [ObjectNo -> UNION {Values(o) : o \in ObjectNo}]
        BY DEF CrcInit, Dictionaries
    <2>2. \A o \in ObjectNo : sod[o] \in Values(o)
        BY DEF CrcInit, Dictionaries
    <2> QED BY <2>1, <2>2, ValuesAreSequences
<1> QED BY <1>1, BlockAssumption, SMT DEF CrcInit, BlockInv

(* Whatever the size of the dictionary, the code never begins the second   *)
(* CRC: the branch of getCurrentActiveCrc32 that does is not reached.      *)
THEOREM OnlyFirstCrc == CrcSpec => [](active = 1)
<1>1. BlockInv => active = 1
    BY DEF BlockInv
<1> QED BY <1>1, InitBlock, StepBlock, PTL DEF CrcSpec

-----------------------------------------------------------------------------
LEMMA InitCrcType == CrcInit => CrcTypeOK
<1> SUFFICES ASSUME CrcInit PROVE CrcTypeOK
    OBVIOUS
<1>1. NoCrcs \in [1..Count -> Seq(Byte)]
    BY EmptySeq DEF NoCrcs
<1>2. data \in Seq(Byte) /\ dataLen \in 0..MaxData /\ active \in 1..Count
    BY BlockAssumption, EmptySeq, SMT DEF CrcInit
<1>3. next \in 0..NumObjects
    BY DictionaryAssumption, SMT DEF CrcInit
<1> QED BY <1>1, <1>2, <1>3 DEF CrcInit, LoopIdle, CrcTypeOK

LEMMA StepCrcType == CrcTypeOK /\ BlockInv /\ [CrcNext]_calcVars => CrcTypeOK'
<1> SUFFICES ASSUME CrcTypeOK, BlockInv, [CrcNext]_calcVars PROVE CrcTypeOK'
    OBVIOUS
<1>1. data' \in Seq(Byte) /\ dataLen' \in 0..MaxData /\ active' \in 1..Count
    BY StepBlock, BlockAssumption, SMT DEF BlockInv
<1>2. sod' \in Dictionaries /\ chksum' \in Checksums
    <2>1. ASSUME NEW o \in ObjectNo, NEW v \in Values(o), Write(o, v) PROVE sod' \in Dictionaries
        <3>1. sod' = [sod EXCEPT ![o] = v]
            BY <2>1 DEF Write
        <3>2. /\ sod \in [ObjectNo -> UNION {Values(p) : p \in ObjectNo}]
              /\ \A p \in ObjectNo : sod[p] \in Values(p)
            BY DEF CrcTypeOK, Dictionaries
        <3>3. sod' \in [ObjectNo -> UNION {Values(p) : p \in ObjectNo}]
            BY <3>1, <3>2
        <3>4. \A p \in ObjectNo : sod'[p] \in Values(p)
            BY <3>1, <3>2
        <3> QED BY <3>3, <3>4 DEF Dictionaries
    <2>2. sod' = sod \/ \E o \in ObjectNo : \E v \in Values(o) : Write(o, v)
        BY LoopKeeps DEF CrcNext, paramcrc_process, InvalidState, StartCalc, NextObject, EndOfDictionary, CoverBlock, Verify,
               Process, ParameterSet_CLBK, ParserEnds, CalcParamChkSumClbk, WriteChecksum,
               dictionary, calcVars
    <2>3. chksum' = chksum \/ \E c \in Checksums : WriteChecksum(c)
        BY LoopKeeps DEF CrcNext, paramcrc_process, InvalidState, StartCalc, NextObject, EndOfDictionary, CoverBlock, Verify,
               Process, ParameterSet_CLBK, ParserEnds, CalcParamChkSumClbk, Write,
               dictionary, calcVars
    <2>4. chksum' \in Checksums
        BY <2>3 DEF CrcTypeOK, WriteChecksum
    <2> QED BY <2>1, <2>2, <2>4 DEF CrcTypeOK
<1>3. state' \in {"Invalid", "Init", "Process", "Finished"} /\ answer' \in {"none", "valid", "invalid"}
    BY LoopKeeps DEF CrcTypeOK, CrcNext, paramcrc_process, InvalidState, StartCalc, NextObject,
           EndOfDictionary, CoverBlock, Verify, Process, ParameterSet_CLBK, ParserEnds,
           CalcParamChkSumClbk, Write, WriteChecksum, dictionary, calcVars
<1>4. fresh' \in BOOLEAN
    BY LoopKeeps DEF CrcTypeOK, CrcNext, paramcrc_process, InvalidState, StartCalc, NextObject, EndOfDictionary, CoverBlock,
           Verify, Process, ParameterSet_CLBK, ParserEnds, CalcParamChkSumClbk, Write,
           WriteChecksum, dictionary, calcVars
<1>5. next' \in 0..NumObjects
    <2>1. CASE NextObject
        BY <2>1, DictionaryAssumption, SMT DEF NextObject, CrcTypeOK
    <2>2. CASE StartCalc
        BY <2>2, DictionaryAssumption, SMT DEF StartCalc
    <2>3. CASE next' = next
        BY <2>3 DEF CrcTypeOK
    <2> QED BY <2>1, <2>2, <2>3, LoopKeeps
            DEF CrcNext, paramcrc_process, InvalidState, EndOfDictionary, CoverBlock, Verify, Process,
                ParameterSet_CLBK, ParserEnds, CalcParamChkSumClbk, Write, WriteChecksum,
                crcVars, dictionary, calcVars
<1>6. entries' \in [1..Count -> Seq(Byte)]
    <2>1. CASE CoverBlock
        <3> DEFINE block == getCurrentActiveCrc32(Len(data))
        <3>1. Len(data) \in Nat \ {0} /\ data \in Seq(Byte)
            BY <2>1, EmptySeq DEF CoverBlock, BlockInv
        <3>2. block.crc = 1 /\ block.rem \in 0..Len(data)
            BY <3>1, BlockTaken
        <3>3. entries' = [entries EXCEPT ![block.crc] = @ \o SubSeq(data, 1, block.rem)]
            BY <2>1, <3>2 DEF CoverBlock
        <3> HIDE DEF block
        <3>4. SubSeq(data, 1, block.rem) \in Seq(Byte)
            BY <3>1, <3>2, SMT
        <3>5. 1 \in 1..Count
            BY BlockAssumption, SMT
        <3>6. entries[1] \o SubSeq(data, 1, block.rem) \in Seq(Byte)
            BY <3>4, <3>5, ConcatProperties DEF CrcTypeOK
        <3> QED BY <3>2, <3>3, <3>6 DEF CrcTypeOK
    <2>2. CASE StartCalc
        BY <2>2, EmptySeq DEF StartCalc, NoCrcs
    <2>3. CASE entries' = entries
        BY <2>3 DEF CrcTypeOK
    <2> QED BY <2>1, <2>2, <2>3, LoopKeeps
            DEF CrcNext, paramcrc_process, InvalidState, NextObject, EndOfDictionary, Verify, Process,
                ParameterSet_CLBK, ParserEnds, CalcParamChkSumClbk, Write, WriteChecksum,
                crcVars, dictionary, calcVars
<1>7. /\ crcTasks' \subseteq CrcTask /\ raced' \in BOOLEAN
      /\ crcLoop' \in [pc : {"check", "clear", "loaded"}, copy : SUBSET CrcTask]
    <2>1. CASE LoopStep
        <3>1. crcLoop \in [pc : {"check", "clear", "loaded"}, copy : SUBSET CrcTask]
              /\ crcTasks \subseteq CrcTask /\ raced \in BOOLEAN
            BY DEF CrcTypeOK
        <3>2. CASE LoopStores
            BY <3>1, <3>2 DEF LoopStores
        <3>3. CASE ClearTaskLoad
            BY <3>1, <3>3 DEF ClearTaskLoad
        <3>4. CASE ClearTaskStore
            BY <3>1, <3>4 DEF ClearTaskStore, LoopIdle
        <3> QED BY <2>1, <3>2, <3>3, <3>4 DEF LoopStep
    <2>2. CASE UNCHANGED loopVars /\ crcTasks' \subseteq CrcTask
        BY <2>2 DEF loopVars, CrcTypeOK
    <2> QED BY <2>1, <2>2
            DEF CrcTask, CrcTypeOK, CrcNext, paramcrc_process, InvalidState, StartCalc, NextObject,
                EndOfDictionary, CoverBlock, Verify, Process, ParameterSet_CLBK, ParserEnds,
                CalcParamChkSumClbk, Write, WriteChecksum, calcVars
<1>8. crcFatal' \in BOOLEAN
    BY LoopKeeps DEF CrcTypeOK, CrcNext, paramcrc_process, InvalidState, StartCalc, NextObject,
           EndOfDictionary, CoverBlock, Verify, Process, ParameterSet_CLBK, ParserEnds,
           CalcParamChkSumClbk, Write, WriteChecksum, calcVars
<1> QED BY <1>1, <1>2, <1>3, <1>4, <1>5, <1>6, <1>7, <1>8 DEF CrcTypeOK

(* Types, for every dictionary, size of a block and number of CRCs. *)
THEOREM CrcTypeCorrect == CrcSpec => []CrcTypeOK
<1>1. CrcInit => CrcTypeOK /\ BlockInv
    BY InitCrcType, InitBlock
<1>2. (CrcTypeOK /\ BlockInv) /\ [CrcNext]_calcVars => (CrcTypeOK /\ BlockInv)'
    BY StepCrcType, StepBlock
<1> QED BY <1>1, <1>2, PTL DEF CrcSpec

-----------------------------------------------------------------------------
(* The task and the state of the module. *)

LEMMA StepStarted ==
    CalledWhenStarted /\ BlockInv /\ [CrcNext]_calcVars => CalledWhenStarted'
<1> SUFFICES ASSUME CalledWhenStarted, BlockInv, [CrcNext]_calcVars, ~raced'
             PROVE  ("CRC" \in crcTasks' <=> state' # "Invalid") /\ ~crcFatal'
    BY DEF CalledWhenStarted
<1>0. ~raced
    BY DEF CrcNext, LoopStep, LoopStores, ClearTaskLoad, ClearTaskStore, paramcrc_process,
           InvalidState, StartCalc, NextObject, EndOfDictionary, CoverBlock, Verify, Process,
           ParameterSet_CLBK, ParserEnds, CalcParamChkSumClbk, Write, WriteChecksum,
           loopVars, calcVars
<1>1. ("CRC" \in crcTasks <=> state # "Invalid") /\ ~crcFatal
    BY <1>0 DEF CalledWhenStarted
<1>2. CASE UNCHANGED <<crcTasks, state, crcFatal>>
    BY <1>1, <1>2
<1>3. CASE ParameterSet_CLBK \/ ParserEnds \/ CalcParamChkSumClbk
    BY <1>1, <1>3 DEF ParameterSet_CLBK, ParserEnds, CalcParamChkSumClbk
<1>4. CASE InvalidState
    BY <1>1, <1>4 DEF InvalidState, Process
<1>5. CASE StartCalc \/ NextObject \/ EndOfDictionary \/ Verify
    BY <1>1, <1>5 DEF StartCalc, NextObject, EndOfDictionary, Verify, Process
<1>6. CASE CoverBlock
    <2> DEFINE block == getCurrentActiveCrc32(Len(data))
    <2>1. Len(data) \in Nat \ {0}
        BY <1>6, EmptySeq DEF CoverBlock, BlockInv
    <2>2. block.crc = 1
        BY <2>1, BlockTaken
    <2>3. UNCHANGED <<crcTasks, state>> /\ (block.crc # 0 => crcFatal' = crcFatal)
        BY <1>6 DEF CoverBlock
    <2> QED BY <1>1, <2>2, <2>3
<1>7. CASE LoopStep
    <2>1. UNCHANGED <<state, crcFatal>>
        BY <1>7, LoopKeeps
    <2>2. "CRC" \in crcTasks' <=> "CRC" \in crcTasks
        BY <1>7 DEF LoopStep, LoopStores, ClearTaskLoad, ClearTaskStore
    <2> QED BY <1>1, <2>1, <2>2
<1> QED BY <1>2, <1>3, <1>4, <1>5, <1>6, <1>7
        DEF CrcNext, paramcrc_process, Write, WriteChecksum, calcVars

(* The task that calls the module and its state agree, and the module      *)
(* posts no fatal error, until the loop's clearing of its own bit has      *)
(* taken a request or an answer back: nothing else does that, whatever the *)
(* dictionary and the order of requests, sets and calls.                   *)
THEOREM StartedIsCalled == CrcSpec => []CalledWhenStarted
<1>1. CrcInit => CalledWhenStarted /\ BlockInv
    BY InitBlock DEF CrcInit, CalledWhenStarted
<1>2. (CalledWhenStarted /\ BlockInv) /\ [CrcNext]_calcVars => (CalledWhenStarted /\ BlockInv)'
    BY StepStarted, StepBlock
<1> QED BY <1>1, <1>2, PTL DEF CrcSpec

-----------------------------------------------------------------------------
(* Every byte the block counts as taken is covered by its CRC. *)
Filled == Len(entries[1]) = dataLen /\ entries[1] \in Seq(Byte)

LEMMA StepFilled == CrcTypeOK /\ BlockInv /\ Filled /\ [CrcNext]_calcVars => Filled'
<1> SUFFICES ASSUME CrcTypeOK, BlockInv, Filled, [CrcNext]_calcVars PROVE Filled'
    OBVIOUS
<1>0. 1 \in 1..Count
    BY BlockAssumption, SMT
<1>1. CASE CoverBlock
    <2> DEFINE block == getCurrentActiveCrc32(Len(data))
               taken == SubSeq(data, 1, block.rem)
    <2>1. Len(data) \in Nat \ {0} /\ data \in Seq(Byte)
        BY <1>1, EmptySeq DEF CoverBlock, BlockInv
    <2>2. block.crc = 1 /\ block.len = dataLen /\ block.rem \in 0..Len(data)
        BY <2>1, BlockTaken
    <2>3. entries' = [entries EXCEPT ![block.crc] = @ \o taken] /\ dataLen' = block.len + block.rem
        BY <1>1, <2>2 DEF CoverBlock
    <2> HIDE DEF block
    <2>4. taken \in Seq(Byte) /\ Len(taken) = block.rem
        BY <2>1, <2>2, SMT
    <2> HIDE DEF taken
    <2>5. entries'[1] = entries[1] \o taken
        BY <1>0, <2>2, <2>3 DEF CrcTypeOK
    <2>6. dataLen' = dataLen + block.rem
        BY <2>2, <2>3
    <2>7. entries[1] \in Seq(Byte) /\ Len(entries[1]) = dataLen
        BY DEF Filled
    <2>8. /\ entries[1] \o taken \in Seq(Byte)
          /\ Len(entries[1] \o taken) = Len(entries[1]) + Len(taken)
        BY <2>4, <2>7, ConcatProperties
    <2> QED BY <2>4, <2>5, <2>6, <2>7, <2>8 DEF Filled
<1>2. CASE StartCalc
    BY <1>0, <1>2, EmptySeq DEF StartCalc, NoCrcs, Filled
<1>3. CASE UNCHANGED <<entries, dataLen>>
    BY <1>3 DEF Filled
<1> QED BY <1>1, <1>2, <1>3, LoopKeeps
        DEF CrcNext, paramcrc_process, InvalidState, NextObject, EndOfDictionary, Verify, Process,
            ParameterSet_CLBK, ParserEnds, CalcParamChkSumClbk, Write, WriteChecksum,
            crcVars, dictionary, calcVars

(* No CRC is computed over more bytes than one block has, whatever the     *)
(* dictionary: what goes wrong beyond the block is that the loop stays.    *)
THEOREM BlockBounded == CrcSpec => [](Len(entries[1]) \in 0..MaxData)
<1>1. CrcInit => CrcTypeOK /\ BlockInv /\ Filled
    <2>1. CrcInit => Filled
        <3>1. 1 \in 1..Count
            BY BlockAssumption, SMT
        <3> QED BY <3>1, EmptySeq DEF CrcInit, NoCrcs, Filled
    <2> QED BY <2>1, InitCrcType, InitBlock
<1>2. (CrcTypeOK /\ BlockInv /\ Filled) /\ [CrcNext]_calcVars => (CrcTypeOK /\ BlockInv /\ Filled)'
    BY StepCrcType, StepBlock, StepFilled
<1>3. BlockInv /\ Filled => Len(entries[1]) \in 0..MaxData
    BY DEF BlockInv, Filled
<1> QED BY <1>1, <1>2, <1>3, PTL DEF CrcSpec
=============================================================================
