-------------------------------- MODULE Fifo --------------------------------
(***************************************************************************)
(* One instance of the element FIFO of the PCP, pcp/psi/fifo.c: a ring of  *)
(* slots, two positions that wrap at the last slot (the code moves a byte  *)
(* pointer by one element and compares it with the tail), and two UINT8    *)
(* counters that are never reduced and wrap at 256.  Insert and get are    *)
(* called from the background loop only, so each is one action.            *)
(***************************************************************************)
EXTENDS Integers, Sequences

CONSTANTS MaxElem,  \* elemCount_p of fifo_create
          Elem,     \* the elements posted
          NoElem    \* contents of a slot never written

(* With 255 elements the UINT8 difference of the counters reaches 0 when   *)
(* it should be 256; SSDO_RECEIVE_FIFO_ELEM_COUNT, the only size used, is 5. *)
ASSUME MaxElemAssumption == MaxElem \in 1..254

ASSUME NoElemAssumption == NoElem \notin Elem

VARIABLES slots,         \* pFifoBuffer_m, one entry per element
          readPos,       \* pReadPos_m as the index of an element
          writePos,      \* pWritePos_m likewise
          numReadElem,
          numWriteElem,
          out,           \* the element copied out by the last fifo_getElement
          q              \* history: the accepted elements not fetched yet

fifoVars == <<slots, readPos, writePos, numReadElem, numWriteElem, out, q>>

Slot == 0..(MaxElem - 1)

numElement == (numWriteElem - numReadElem) % 256

(* A faulty form: the wrap one element early. *)
AdvanceTooEarly(pos) == IF pos >= MaxElem - 2 THEN 0 ELSE pos + 1

(* A position behind the tail goes back to the start of the buffer. *)
Advance(pos) == IF pos >= MaxElem - 1 THEN 0 ELSE pos + 1

fifo_create ==
    /\ slots = [s \in Slot |-> NoElem]
    /\ readPos = 0
    /\ writePos = 0
    /\ numReadElem = 0
    /\ numWriteElem = 0
    /\ out = NoElem
    /\ q = <<>>

(* A faulty form: room for yet another element. *)
IsFullLater == numElement > MaxElem + 1

IsFull == numElement > MaxElem

fifo_insertElement(e) ==
    /\ ~IsFull
    /\ slots' = [slots EXCEPT ![writePos] = e]
    /\ numWriteElem' = (numWriteElem + 1) % 256
    /\ writePos' = Advance(writePos)
    /\ q' = Append(q, e)
    /\ UNCHANGED <<readPos, numReadElem, out>>

fifo_getElement ==
    /\ numElement # 0
    /\ out' = slots[readPos]
    /\ numReadElem' = (numReadElem + 1) % 256
    /\ readPos' = Advance(readPos)
    /\ q' = Tail(q)
    /\ UNCHANGED <<slots, writePos, numWriteElem>>

fifo_flush ==
    /\ numReadElem' = 0
    /\ numWriteElem' = 0
    /\ readPos' = 0
    /\ writePos' = 0
    /\ q' = <<>>
    /\ UNCHANGED <<slots, out>>

FifoNext ==
    \/ \E e \in Elem : fifo_insertElement(e)
    \/ fifo_getElement
    \/ fifo_flush

FifoSpec == fifo_create /\ [][FifoNext]_fifoVars

-----------------------------------------------------------------------------
FifoTypeOK ==
    /\ slots \in [Slot -> Elem \cup {NoElem}]
    /\ readPos \in Slot
    /\ writePos \in Slot
    /\ numReadElem \in 0..255
    /\ numWriteElem \in 0..255
    /\ out \in Elem \cup {NoElem}
    /\ q \in Seq(Elem)

(* The slot k elements behind the read position. *)
SlotAt(k) == IF readPos + k < MaxElem THEN readPos + k
             ELSE IF readPos + k < 2 * MaxElem THEN readPos + k - MaxElem
             ELSE readPos + k - 2 * MaxElem

(* Counters, positions and the queue agree: the difference of the wrapping *)
(* counters is the length of the queue, and the two positions are that     *)
(* far apart.                                                              *)
CountersAgree ==
    /\ Len(q) <= MaxElem + 1
    /\ numElement = Len(q)
    /\ writePos = SlotAt(Len(q))

(* Every accepted element is still in its slot, in order.  The exception   *)
(* is the state with one element more than there are slots: there the      *)
(* slot of the oldest element holds the newest one.                        *)
SlotsHoldQueue ==
    \A k \in 1..Len(q) :
        slots[SlotAt(k - 1)] = IF k = 1 /\ Len(q) = MaxElem + 1
                               THEN q[MaxElem + 1] ELSE q[k]

(* What fifo_getElement returns is the oldest accepted element, unless the *)
(* FIFO held more elements than slots; the counters may wrap meanwhile.    *)
GetsOldest ==
    [][fifo_getElement /\ Len(q) <= MaxElem => out' = q[1]]_fifoVars

=============================================================================
