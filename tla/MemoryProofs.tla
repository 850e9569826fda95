---------------------------- MODULE MemoryProofs ----------------------------
(***************************************************************************)
(* The memories the channels are built on.  The triple buffer core for any *)
(* set of channels, any width of a channel and any values: exclusive       *)
(* ownership of the memories, a stable consumer image and the refinement   *)
(* of LatestValue.  The FIFO for every number of elements its UINT8        *)
(* counters allow: type, agreement of counters, positions and accepted     *)
(* elements, the contents of the slots, and the order of delivery.         *)
(***************************************************************************)
EXTENDS TripleBuffer, Fifo, TLAPS

-----------------------------------------------------------------------------
(* The triple buffer core. *)

(* The inductive invariant.  Exclusive alone is not inductive over steps   *)
(* outside the three selects, so the type goes with it.                    *)
BufferInv == TypeOK /\ Exclusive

(* The exclusive or of two different memories selects the third one: the   *)
(* free memory that comProc gives to the producer.                         *)
LEMMA XorIsThird ==
    ASSUME NEW a \in Sel, NEW b \in Sel, a # b
    PROVE  xor(a, b) \in Sel /\ xor(a, b) # a /\ xor(a, b) # b
<1>1. xor(a, b) \subseteq {0, 1}
    BY DEF xor, Sel
<1>2. xor(a, b) # {}
    BY DEF xor
<1>3. xor(a, b) # a /\ xor(a, b) # b
    <2>1. PICK x : x \in a
        BY DEF Sel
    <2>2. PICK y : y \in b
        BY DEF Sel
    <2>3. xor(a, b) # a
        BY <2>2 DEF xor
    <2>4. xor(a, b) # b
        BY <2>1 DEF xor
    <2> QED BY <2>3, <2>4
<1> QED BY <1>1, <1>2, <1>3 DEF Sel

(* One triple logic, whatever is triggered, stays in its type and keeps    *)
(* the producer away from the other two memories.                          *)
LEMMA LogicExclusive ==
    ASSUME NEW r \in tReg, r.pro # r.con, r.pro # r.latest,
           NEW p, NEW c
    PROVE  /\ comProc(r, p, c) \in tReg
           /\ comProc(r, p, c).pro # comProc(r, p, c).con
           /\ comProc(r, p, c).pro # comProc(r, p, c).latest
<1>1. r.pro \in Sel /\ r.con \in Sel /\ r.latest \in Sel
    BY DEF tReg
<1>2. xor(r.con, r.pro) \in Sel /\ xor(r.con, r.pro) # r.con /\ xor(r.con, r.pro) # r.pro
    BY <1>1, XorIsThird
<1>3. CASE p
    BY <1>1, <1>2, <1>3 DEF comProc, tReg
<1>4. CASE ~p
    BY <1>1, <1>4 DEF comProc, tReg
<1> QED BY <1>3, <1>4

(* Both ports trigger channels of the core only. *)
LEMMA TriggersAreBuffers ==
    ASSUME NEW a \in AccessA, NEW b \in AccessB
    PROVE  proTrig(a, b) \subseteq Buffer /\ conTrig(a, b) \subseteq Buffer
<1>1. a.bits \subseteq Buffer /\ b.bits \subseteq Buffer
    BY DEF AccessA, AccessB, Access
<1> QED BY <1>1 DEF proTrig, conTrig, Triggers

LEMMA InitBufferInv == Init => BufferInv
<1> SUFFICES ASSUME Init PROVE BufferInv
    OBVIOUS
<1>1. cRegInit \in tReg
    BY DEF cRegInit, tReg, Sel, cTriBuf_con, cTriBuf_pro, cTriBuf_latest
<1>2. cRegInit.pro # cRegInit.con /\ cRegInit.pro # cRegInit.latest
    <2>1. 0 \notin cTriBuf_pro /\ 0 \in cTriBuf_con /\ 0 \in cTriBuf_latest
        BY DEF cTriBuf_con, cTriBuf_pro, cTriBuf_latest
    <2> QED BY <2>1 DEF cRegInit
<1>3. mem \in [Buffer -> [Sel -> [Word -> Value]]]
    BY ValueAssumption DEF Init
<1> QED BY <1>1, <1>2, <1>3 DEF Init, BufferInv, TypeOK, Exclusive

LEMMA NextBufferInv == BufferInv /\ [Next]_vars => BufferInv'
<1> SUFFICES ASSUME BufferInv, [Next]_vars PROVE BufferInv'
    OBVIOUS
<1> USE DEF BufferInv
<1>1. ASSUME NEW a \in AccessA, NEW b \in AccessB, ClockEdge(a, b)
      PROVE  BufferInv'
    <2>1. ASSUME NEW i \in Buffer
          PROVE  reg'[i] \in tReg /\ reg'[i].pro # reg'[i].con /\ reg'[i].pro # reg'[i].latest
        <3>1. reg[i] \in tReg /\ reg[i].pro # reg[i].con /\ reg[i].pro # reg[i].latest
            BY DEF TypeOK, Exclusive
        <3>2. reg'[i] = comProc(reg[i], i \in proTrig(a, b), i \in conTrig(a, b))
            BY <1>1 DEF ClockEdge
        <3> DEFINE n == comProc(reg[i], i \in proTrig(a, b), i \in conTrig(a, b))
        <3>3. n \in tReg /\ n.pro # n.con /\ n.pro # n.latest
            BY <3>1, LogicExclusive
        <3> QED BY <3>2, <3>3
    <2>2. reg' \in [Buffer -> tReg]
        BY <1>1, <2>1 DEF ClockEdge
    <2> QED BY <1>1, <2>1, <2>2 DEF ClockEdge, TypeOK, Exclusive
<1>2. ASSUME NEW i \in Buffer, NEW w \in Word, NEW v \in Value, Write(i, w, v)
      PROVE  BufferInv'
    BY <1>2 DEF Write, TypeOK, Exclusive
<1>3. CASE UNCHANGED vars
    BY <1>3 DEF vars, TypeOK, Exclusive
<1> QED BY <1>1, <1>2, <1>3 DEF Next

LEMMA BufferInductive == Spec => []BufferInv
<1> QED BY InitBufferInv, NextBufferInv, PTL DEF Spec

(* Registers and memories of every core keep their types. *)
THEOREM BufferTypeCorrect == Spec => []TypeOK
<1>1. BufferInv => TypeOK
    BY DEF BufferInv
<1> QED BY <1>1, BufferInductive, PTL

(* In a core of any number of channels no producer ever works in a memory  *)
(* that its consumer reads or gets next.                                   *)
THEOREM ExclusiveCorrect == Spec => []Exclusive
<1>1. BufferInv => Exclusive
    BY DEF BufferInv
<1> QED BY <1>1, BufferInductive, PTL

(* The words under a consumer change by its own acknowledge only. *)
THEOREM StableCorrect == Spec => ConsumerImageStable
<1> DEFINE Stable ==
        \A i \in Buffer :
          mem'[i][reg'[i].con] # mem[i][reg[i].con] =>
              \E a \in AccessA, b \in AccessB :
                  ClockEdge(a, b) /\ i \in conTrig(a, b)
<1>1. BufferInv /\ [Next]_vars => [Stable]_vars
    <2> SUFFICES ASSUME BufferInv, Next, NEW i \in Buffer,
                        mem'[i][reg'[i].con] # mem[i][reg[i].con]
                 PROVE  \E a \in AccessA, b \in AccessB :
                            ClockEdge(a, b) /\ i \in conTrig(a, b)
        BY DEF vars
    <2>1. ASSUME NEW a \in AccessA, NEW b \in AccessB, ClockEdge(a, b)
          PROVE  i \in conTrig(a, b)
        <3> SUFFICES ASSUME i \notin conTrig(a, b) PROVE FALSE
            OBVIOUS
        <3>1. reg'[i].con = reg[i].con
            BY <2>1 DEF ClockEdge, comProc
        <3> QED BY <2>1, <3>1 DEF ClockEdge
    <2>2. ASSUME NEW j \in Buffer, NEW w \in Word, NEW v \in Value, Write(j, w, v)
          PROVE  FALSE
        <3>1. reg' = reg /\ reg[i].pro # reg[i].con
            BY <2>2 DEF Write, BufferInv, Exclusive
        <3>2. reg[i].con \in Sel /\ reg[j].pro \in Sel
            BY DEF BufferInv, TypeOK, tReg
        <3>3. mem'[i][reg[i].con] = mem[i][reg[i].con]
            BY <2>2, <3>1, <3>2 DEF Write, BufferInv, TypeOK
        <3> QED BY <3>1, <3>3
    <2> QED BY <2>1, <2>2 DEF Next
<1> QED BY <1>1, BufferInductive, PTL DEF Spec, ConsumerImageStable

-----------------------------------------------------------------------------
(* What one triple logic does with its four combinations of triggers. *)
LEMMA LogicStep ==
    ASSUME NEW r, NEW P, NEW C, NEW i, NEW n, n = comProc(r, i \in P, i \in C)
    PROVE  /\ i \in P => n.latest = r.pro
           /\ i \notin P => n.latest = r.latest /\ n.pro = r.pro
           /\ i \in C => n.con = n.latest
           /\ i \notin C => n.con = r.con
<1>1. CASE i \in P
    BY <1>1 DEF comProc
<1>2. CASE i \notin P
    BY <1>2 DEF comProc
<1> QED BY <1>1, <1>2

(* A clock edge is an exchange of the triggered channels. *)
LEMMA EdgeIsExchange ==
    ASSUME BufferInv, BufferInv', NEW a \in AccessA, NEW b \in AccessB, ClockEdge(a, b)
    PROVE  LV!Exchange(proTrig(a, b), conTrig(a, b))
<1> DEFINE P == proTrig(a, b)
           C == conTrig(a, b)
<1>1. \A i \in Buffer : reg'[i] = comProc(reg[i], i \in P, i \in C)
    BY DEF ClockEdge
<1>2. mem' = mem
    BY DEF ClockEdge
<1>3. ASSUME NEW i \in Buffer
      PROVE  /\ i \in P => reg'[i].latest = reg[i].pro
             /\ i \notin P => reg'[i].latest = reg[i].latest /\ reg'[i].pro = reg[i].pro
             /\ i \in C => reg'[i].con = reg'[i].latest
             /\ i \notin C => reg'[i].con = reg[i].con
    <2>1. reg'[i] = comProc(reg[i], i \in P, i \in C)
        BY <1>1
    <2> HIDE DEF P, C
    <2> QED BY <2>1, LogicStep
<1>4. [i \in Buffer |-> mem[i][reg[i].pro]]' \in [Buffer -> [Word -> Value]]
    <2>1. \A i \in Buffer : reg'[i].pro \in Sel
        BY DEF BufferInv, TypeOK, tReg
    <2> QED BY <2>1 DEF BufferInv, TypeOK
<1> HIDE DEF P, C
<1>5. \A i \in Buffer : mem'[i][reg'[i].latest] =
          IF i \in P THEN mem[i][reg[i].pro] ELSE mem[i][reg[i].latest]
    BY <1>2, <1>3
<1>6. \A i \in Buffer : mem'[i][reg'[i].con] =
          IF i \in C THEN mem'[i][reg'[i].latest] ELSE mem[i][reg[i].con]
    BY <1>2, <1>3
<1>7. \A i \in Buffer \ P : mem'[i][reg'[i].pro] = mem[i][reg[i].pro]
    BY <1>2, <1>3
<1>8. LV!Exchange(P, C)
    BY <1>4, <1>5, <1>6, <1>7 DEF LV!Exchange, LV!Image
<1> QED BY <1>8 DEF P, C

(* A write of the producer fills in its private image and no other. *)
LEMMA WriteIsFill ==
    ASSUME BufferInv, NEW i \in Buffer, NEW w \in Word, NEW v \in Value, Write(i, w, v)
    PROVE  LV!Fill(i, w, v)
<1>1. reg' = reg
    BY DEF Write
<1>2. \A j \in Buffer : /\ reg[j].pro \in Sel /\ reg[j].con \in Sel /\ reg[j].latest \in Sel
                        /\ reg[j].pro # reg[j].con /\ reg[j].pro # reg[j].latest
    BY DEF BufferInv, TypeOK, Exclusive, tReg
<1>3. \A j \in Buffer : j # i => mem'[j] = mem[j]
    BY DEF Write, BufferInv, TypeOK
<1>4. \A s \in Sel : s # reg[i].pro => mem'[i][s] = mem[i][s]
    BY DEF Write, BufferInv, TypeOK
<1>5. mem'[i][reg[i].pro] = [mem[i][reg[i].pro] EXCEPT ![w] = v]
    BY <1>2 DEF Write, BufferInv, TypeOK
<1>6. [j \in Buffer |-> mem'[j][reg'[j].latest]] = [j \in Buffer |-> mem[j][reg[j].latest]]
    BY <1>1, <1>2, <1>3, <1>4
<1>7. [j \in Buffer |-> mem'[j][reg'[j].con]] = [j \in Buffer |-> mem[j][reg[j].con]]
    BY <1>1, <1>2, <1>3, <1>4
<1>8. [j \in Buffer |-> mem'[j][reg'[j].pro]]
          = [[j \in Buffer |-> mem[j][reg[j].pro]] EXCEPT ![i][w] = v]
    BY <1>1, <1>2, <1>3, <1>5
<1> QED BY <1>6, <1>7, <1>8 DEF LV!Fill

(* The core implements LatestValue for any channels, words and values. *)
THEOREM Refinement == Spec => ImplementsLatestValue
<1>1. Init => LV!Init
    <2> SUFFICES ASSUME Init PROVE LV!Init
        OBVIOUS
    <2>1. cTriBuf_pro \in Sel /\ cTriBuf_con \in Sel /\ cTriBuf_latest \in Sel
        BY DEF Sel, cTriBuf_con, cTriBuf_pro, cTriBuf_latest
    <2>2. \A i \in Buffer, s \in Sel : mem[i][s] = [w \in Word |-> InitValue]
        BY DEF Init
    <2>3. \A i \in Buffer : /\ mem[i][reg[i].pro] = [w \in Word |-> InitValue]
                            /\ mem[i][reg[i].con] = [w \in Word |-> InitValue]
                            /\ mem[i][reg[i].latest] = [w \in Word |-> InitValue]
        BY <2>1, <2>2 DEF Init, cRegInit
    <2> QED BY <2>3 DEF LV!Init
<1>2. BufferInv /\ BufferInv' /\ [Next]_vars => [LV!Next]_(LV!vars)
    <2> SUFFICES ASSUME BufferInv, BufferInv', [Next]_vars PROVE [LV!Next]_(LV!vars)
        OBVIOUS
    <2>1. ASSUME NEW a \in AccessA, NEW b \in AccessB, ClockEdge(a, b)
          PROVE  LV!Next
        BY <2>1, EdgeIsExchange, TriggersAreBuffers DEF LV!Next
    <2>2. ASSUME NEW i \in Buffer, NEW w \in Word, NEW v \in Value, Write(i, w, v)
          PROVE  LV!Next
        BY <2>2, WriteIsFill DEF LV!Next
    <2>3. CASE UNCHANGED vars
        BY <2>3 DEF vars, LV!vars
    <2> QED BY <2>1, <2>2, <2>3 DEF Next
<1> QED BY <1>1, <1>2, BufferInductive, PTL DEF Spec, ImplementsLatestValue, LV!Spec

-----------------------------------------------------------------------------
(* The FIFO of the PCP. *)

(* Contents and counters need each other: a slot keeps its element because *)
(* the write position, known from the length of the queue, is elsewhere.   *)
FifoInv == FifoTypeOK /\ CountersAgree /\ SlotsHoldQueue

LEMMA AdvanceInSlot ==
    ASSUME NEW pos \in Slot
    PROVE  Advance(pos) \in Slot
BY MaxElemAssumption DEF Advance, Slot

(* One element more in the ring is one position further. *)
LEMMA SlotAtNext ==
    ASSUME readPos \in Slot, NEW k \in 0..MaxElem
    PROVE  Advance(SlotAt(k)) = SlotAt(k + 1)
BY MaxElemAssumption DEF Advance, SlotAt, Slot

(* Seen from the next read position every element is one position nearer. *)
LEMMA SlotAtShift ==
    ASSUME readPos \in Slot, readPos' = Advance(readPos), NEW k \in 0..MaxElem
    PROVE  SlotAt(k + 1) = SlotAt(k)'
BY MaxElemAssumption DEF Advance, SlotAt, Slot

(* Of the elements in the ring, slots repeat exactly after MaxElem. *)
LEMMA SlotAtDistinct ==
    ASSUME readPos \in Slot, NEW k \in 0..MaxElem, NEW j \in 0..MaxElem, j < k
    PROVE  (SlotAt(j) = SlotAt(k)) <=> (j = 0 /\ k = MaxElem)
BY MaxElemAssumption DEF SlotAt, Slot

(* The UINT8 counters: a step of the writer lengthens their difference by  *)
(* one, a step of the reader shortens it, also where a counter wraps.      *)
LEMMA CounterStep ==
    ASSUME NEW w \in 0..255, NEW r \in 0..255
    PROVE  /\ (w - r) % 256 < 255 => (((w + 1) % 256) - r) % 256 = ((w - r) % 256) + 1
           /\ (w - r) % 256 > 0 => (w - ((r + 1) % 256)) % 256 = ((w - r) % 256) - 1
<1>1. (w - r) % 256 = IF w >= r THEN w - r ELSE w - r + 256
    OBVIOUS
<1>2. (w + 1) % 256 = IF w = 255 THEN 0 ELSE w + 1
    OBVIOUS
<1>3. (r + 1) % 256 = IF r = 255 THEN 0 ELSE r + 1
    OBVIOUS
<1>4. CASE w >= r
    BY <1>1, <1>2, <1>3, <1>4
<1>5. CASE w < r
    BY <1>1, <1>2, <1>3, <1>5
<1> QED BY <1>4, <1>5

LEMMA InitFifoInv == fifo_create => FifoInv
<1> SUFFICES ASSUME fifo_create PROVE FifoInv
    OBVIOUS
<1>1. FifoTypeOK
    BY MaxElemAssumption DEF fifo_create, FifoTypeOK, Slot
<1>2. CountersAgree
    BY MaxElemAssumption DEF fifo_create, CountersAgree, numElement, SlotAt
<1>3. SlotsHoldQueue
    BY DEF fifo_create, SlotsHoldQueue
<1> QED BY <1>1, <1>2, <1>3 DEF FifoInv

LEMMA InsertFifoInv ==
    ASSUME FifoInv, NEW e \in Elem, fifo_insertElement(e)
    PROVE  FifoInv'
<1> USE MaxElemAssumption
<1>1. PICK n \in Nat : n = Len(q)
    BY DEF FifoInv, FifoTypeOK
<1>2. /\ readPos \in Slot /\ writePos \in Slot /\ q \in Seq(Elem)
      /\ numReadElem \in 0..255 /\ numWriteElem \in 0..255
      /\ slots \in [Slot -> Elem \cup {NoElem}]
    BY DEF FifoInv, FifoTypeOK
<1>3. numElement = n /\ writePos = SlotAt(n) /\ n <= MaxElem
    BY <1>1 DEF FifoInv, CountersAgree, fifo_insertElement, IsFull
<1>4. /\ q' \in Seq(Elem) /\ Len(q') = n + 1
      /\ \A k \in 1..n : q'[k] = q[k]
      /\ q'[n + 1] = e
    BY <1>1, <1>2 DEF fifo_insertElement
<1>5. readPos' = readPos
    BY DEF fifo_insertElement
<1>6. FifoTypeOK'
    <2>1. writePos' \in Slot
        BY <1>2, AdvanceInSlot DEF fifo_insertElement
    <2>2. numWriteElem' \in 0..255
        BY <1>2 DEF fifo_insertElement
    <2> QED BY <1>2, <1>4, <2>1, <2>2 DEF fifo_insertElement, FifoInv, FifoTypeOK
<1>7. CountersAgree'
    <2>1. numElement' = n + 1
        <3>1. n = (numWriteElem - numReadElem) % 256 /\ n < 255
            BY <1>3 DEF numElement
        <3>2. (((numWriteElem + 1) % 256) - numReadElem) % 256 = n + 1
            BY <1>2, <3>1, CounterStep
        <3> QED BY <3>2 DEF fifo_insertElement, numElement
    <2>2. writePos' = SlotAt(n + 1)
        BY <1>2, <1>3, SlotAtNext DEF fifo_insertElement
    <2>3. SlotAt(n + 1) = SlotAt(n + 1)'
        BY <1>5 DEF SlotAt
    <2> QED BY <1>3, <1>4, <2>1, <2>2, <2>3 DEF CountersAgree
<1>8. SlotsHoldQueue'
    <2> SUFFICES ASSUME NEW k \in 1..(n + 1)
                 PROVE  slots'[SlotAt(k - 1)] = IF k = 1 /\ n + 1 = MaxElem + 1
                                                THEN q'[MaxElem + 1] ELSE q'[k]
        BY <1>4, <1>5 DEF SlotsHoldQueue, SlotAt
    <2>1. slots'[writePos] = e /\ \A s \in Slot \ {writePos} : slots'[s] = slots[s]
        BY <1>2 DEF fifo_insertElement
    <2>2. SlotAt(k - 1) \in Slot
        BY <1>2, <1>3 DEF SlotAt, Slot
    <2>3. CASE k = n + 1
        <3>1. k - 1 = n
            BY <2>3
        <3>2. slots'[SlotAt(k - 1)] = e
            BY <1>3, <2>1, <3>1
        <3>3. q'[k] = e /\ (n + 1 = MaxElem + 1 => q'[MaxElem + 1] = e)
            BY <1>4, <2>3
        <3> QED BY <3>2, <3>3
    <2>4. CASE k <= n
        <3>1. (SlotAt(k - 1) = writePos) <=> (k = 1 /\ n = MaxElem)
            BY <1>2, <1>3, <2>4, SlotAtDistinct
        <3>2. slots[SlotAt(k - 1)] = q[k]
            BY <1>1, <1>3, <2>4 DEF FifoInv, SlotsHoldQueue
        <3>3. CASE k = 1 /\ n = MaxElem
            <4>1. slots'[SlotAt(k - 1)] = e
                BY <2>1, <3>1, <3>3
            <4>2. q'[MaxElem + 1] = e /\ n + 1 = MaxElem + 1
                BY <1>4, <3>3
            <4> QED BY <3>3, <4>1, <4>2
        <3>4. CASE ~(k = 1 /\ n = MaxElem)
            <4>1. slots'[SlotAt(k - 1)] = slots[SlotAt(k - 1)]
                BY <2>1, <2>2, <3>1, <3>4
            <4>2. q'[k] = q[k] /\ ~(k = 1 /\ n + 1 = MaxElem + 1)
                BY <1>4, <2>4, <3>4
            <4> QED BY <3>2, <4>1, <4>2
        <3> QED BY <3>3, <3>4
    <2> QED BY <2>3, <2>4
<1> QED BY <1>6, <1>7, <1>8 DEF FifoInv

LEMMA GetFifoInv ==
    ASSUME FifoInv, fifo_getElement
    PROVE  FifoInv'
<1> USE MaxElemAssumption
<1>1. PICK n \in Nat : n = Len(q)
    BY DEF FifoInv, FifoTypeOK
<1>2. /\ readPos \in Slot /\ writePos \in Slot /\ q \in Seq(Elem)
      /\ numReadElem \in 0..255 /\ numWriteElem \in 0..255
      /\ slots \in [Slot -> Elem \cup {NoElem}]
    BY DEF FifoInv, FifoTypeOK
<1>3. /\ numElement = n /\ writePos = SlotAt(n)
      /\ 1 <= n /\ n <= MaxElem + 1
    BY <1>1 DEF FifoInv, CountersAgree, fifo_getElement
<1>4. /\ q' \in Seq(Elem) /\ Len(q') = n - 1
      /\ \A k \in 1..(n - 1) : q'[k] = q[k + 1]
    BY <1>1, <1>2, <1>3 DEF fifo_getElement
<1>5. readPos' = Advance(readPos) /\ slots' = slots
    BY DEF fifo_getElement
<1>6. FifoTypeOK'
    <2>1. readPos' \in Slot
        BY <1>2, <1>5, AdvanceInSlot
    <2>2. numReadElem' \in 0..255
        BY <1>2 DEF fifo_getElement
    <2>3. out' \in Elem \cup {NoElem}
        BY <1>2 DEF fifo_getElement
    <2> QED BY <1>2, <1>4, <2>1, <2>2, <2>3 DEF fifo_getElement, FifoTypeOK
<1>7. CountersAgree'
    <2>1. numElement' = n - 1
        <3>1. n = (numWriteElem - numReadElem) % 256 /\ n > 0
            BY <1>3 DEF numElement
        <3>2. (numWriteElem - ((numReadElem + 1) % 256)) % 256 = n - 1
            BY <1>2, <3>1, CounterStep
        <3> QED BY <3>2 DEF fifo_getElement, numElement
    <2>2. writePos' = SlotAt(n - 1)'
        <3>1. n - 1 \in 0..MaxElem /\ (n - 1) + 1 = n
            BY <1>3
        <3> QED BY <1>2, <1>3, <1>5, <3>1, SlotAtShift DEF fifo_getElement
    <2> QED BY <1>3, <1>4, <2>1, <2>2 DEF CountersAgree
<1>8. SlotsHoldQueue'
    <2> SUFFICES ASSUME NEW k \in 1..(n - 1)
                 PROVE  slots'[SlotAt(k - 1)'] = q'[k]
        BY <1>3, <1>4 DEF SlotsHoldQueue
    <2>1. SlotAt(k) = SlotAt(k - 1)'
        <3>1. k - 1 \in 0..MaxElem /\ (k - 1) + 1 = k
            BY <1>3
        <3> QED BY <1>2, <1>5, <3>1, SlotAtShift
    <2>2. slots[SlotAt(k)] = q[k + 1]
        BY <1>1, <1>3 DEF FifoInv, SlotsHoldQueue
    <2> QED BY <1>4, <1>5, <2>1, <2>2
<1> QED BY <1>6, <1>7, <1>8 DEF FifoInv

LEMMA FlushFifoInv ==
    ASSUME FifoInv, fifo_flush
    PROVE  FifoInv'
<1>1. FifoTypeOK'
    BY MaxElemAssumption DEF FifoInv, FifoTypeOK, fifo_flush, Slot
<1>2. CountersAgree'
    BY MaxElemAssumption DEF fifo_flush, CountersAgree, numElement, SlotAt
<1>3. SlotsHoldQueue'
    BY DEF fifo_flush, SlotsHoldQueue
<1> QED BY <1>1, <1>2, <1>3 DEF FifoInv

LEMMA NextFifoInv == FifoInv /\ [FifoNext]_fifoVars => FifoInv'
<1> SUFFICES ASSUME FifoInv, [FifoNext]_fifoVars PROVE FifoInv'
    OBVIOUS
<1>1. ASSUME NEW e \in Elem, fifo_insertElement(e) PROVE FifoInv'
    BY <1>1, InsertFifoInv
<1>2. CASE fifo_getElement
    BY <1>2, GetFifoInv
<1>3. CASE fifo_flush
    BY <1>3, FlushFifoInv
<1>4. CASE UNCHANGED fifoVars
    BY <1>4 DEF fifoVars, FifoInv, FifoTypeOK, CountersAgree, SlotsHoldQueue, numElement, SlotAt
<1> QED BY <1>1, <1>2, <1>3, <1>4 DEF FifoNext

LEMMA FifoInductive == FifoSpec => []FifoInv
<1> QED BY InitFifoInv, NextFifoInv, PTL DEF FifoSpec

(* All fields of an instance keep their types: the positions never leave   *)
(* the buffer, whatever the number of slots.                               *)
THEOREM FifoTypeCorrect == FifoSpec => []FifoTypeOK
<1>1. FifoInv => FifoTypeOK
    BY DEF FifoInv
<1> QED BY <1>1, FifoInductive, PTL

(* The wrapping counters and pointers always describe the same queue. *)
THEOREM CountersCorrect == FifoSpec => []CountersAgree
<1>1. FifoInv => CountersAgree
    BY DEF FifoInv
<1> QED BY <1>1, FifoInductive, PTL

(* The slots hold the accepted elements in order, up to the oldest one in  *)
(* an overrun FIFO.                                                        *)
THEOREM ContentsCorrect == FifoSpec => []SlotsHoldQueue
<1>1. FifoInv => SlotsHoldQueue
    BY DEF FifoInv
<1> QED BY <1>1, FifoInductive, PTL

(* Delivery in order as long as the FIFO holds no more than its slots. *)
THEOREM OrderCorrect == FifoSpec => GetsOldest
<1>1. FifoInv /\ [FifoNext]_fifoVars => [fifo_getElement /\ Len(q) <= MaxElem => out' = q[1]]_fifoVars
    <2> SUFFICES ASSUME FifoInv, fifo_getElement, Len(q) <= MaxElem
                 PROVE  out' = q[1]
        OBVIOUS
    <2>1. Len(q) \in Nat /\ 1 <= Len(q) /\ readPos \in Slot
        BY DEF FifoInv, FifoTypeOK, CountersAgree, fifo_getElement
    <2>2. slots[SlotAt(0)] = q[1]
        BY <2>1, MaxElemAssumption DEF FifoInv, SlotsHoldQueue
    <2>3. SlotAt(0) = readPos
        BY <2>1, MaxElemAssumption DEF SlotAt, Slot
    <2> QED BY <2>2, <2>3 DEF fifo_getElement
<1> QED BY <1>1, FifoInductive, PTL DEF FifoSpec, GetsOldest
=============================================================================
