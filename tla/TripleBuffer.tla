---------------------------- MODULE TripleBuffer ----------------------------
(***************************************************************************)
(* The triple buffer core between the PCP (port B) and one application     *)
(* processor (port A), blackchannel/POWERLINK/fpga/ipcore/common/          *)
(* tripleBuffer/src.  Every channel owns three memories.  Its triple logic *)
(* says which one the producer writes (pro), which one the consumer reads  *)
(* (con) and which one was published last (latest).                        *)
(*                                                                         *)
(* One action is one bus access or one clock edge with accesses of both    *)
(* ports to the acknowledge registers.  A data write and a switch of the   *)
(* other port at the same edge touch different state, so interleaving      *)
(* them loses no behaviour.                                                *)
(***************************************************************************)
CONSTANTS Buffer,        \* the channels (gInputBuffers of them)
          PortAProduces, \* channels whose gPortAconfig bit is '1'
          Word,          \* addresses inside a channel
          Value,         \* contents of one word
          InitValue      \* contents of the DPRAM after power on

ASSUME BufferAssumption == PortAProduces \subseteq Buffer
ASSUME ValueAssumption  == InitValue \in Value

VARIABLES reg,  \* per channel the register of its triple logic
          mem   \* per channel and memory select the words of the DPRAM

vars == <<reg, mem>>

-----------------------------------------------------------------------------
(* tTripleSel: a vector of two bits, here the set of the bits that are '1'. *)
(* "00" selects no memory.                                                  *)
Sel == (SUBSET {0, 1}) \ {{}}

xor(a, b) == (a \ b) \cup (b \ a)

cTriBuf_con    == {0}
cTriBuf_pro    == {1}
cTriBuf_latest == {0, 1}

tReg == [pro : Sel, con : Sel, latest : Sel]

cRegInit == [pro |-> cTriBuf_pro, con |-> cTriBuf_con, latest |-> cTriBuf_latest]

Init ==
    /\ reg = [b \in Buffer |-> cRegInit]
    /\ mem = [b \in Buffer |-> [s \in Sel |-> [w \in Word |-> InitValue]]]

(* Faulty forms: the producer is given the latest memory instead of the    *)
(* free one; two simultaneous triggers do not mark the latest memory.       *)
comProcKeepsProducer(r, pro_trig, con_trig) ==
    [pro    |-> IF pro_trig THEN r.latest ELSE r.pro,
     con    |-> IF con_trig THEN (IF pro_trig THEN r.pro ELSE r.latest) ELSE r.con,
     latest |-> IF pro_trig THEN r.pro ELSE r.latest]

comProcKeepsLatest(r, pro_trig, con_trig) ==
    [pro    |-> IF pro_trig THEN xor(r.con, r.pro) ELSE r.pro,
     con    |-> IF con_trig THEN (IF pro_trig THEN r.pro ELSE r.latest) ELSE r.con,
     latest |-> IF pro_trig /\ ~con_trig THEN r.pro ELSE r.latest]

(* The next register value of one triple logic. *)
comProc(r, pro_trig, con_trig) ==
    [pro    |-> IF pro_trig THEN xor(r.con, r.pro) ELSE r.pro,
     con    |-> IF con_trig THEN (IF pro_trig THEN r.pro ELSE r.latest) ELSE r.con,
     latest |-> IF pro_trig THEN r.pro ELSE r.latest]

-----------------------------------------------------------------------------
(* The acknowledge registers.  An access names the consumer register, the  *)
(* producer register or neither, and the bits it triggers: on port B the   *)
(* bits written as '1', on the streaming port A every bit.                 *)
Access(masks) == [toReg : {"consumerReg", "producerReg"}, bits : masks]
                     \cup {[toReg |-> "none", bits |-> {}]}

AccessA == Access({Buffer})
AccessB == Access((SUBSET Buffer) \ {{}})

Triggers(acc, which) == IF acc.toReg = which THEN acc.bits ELSE {}

(* assignProCon: which port's trigger reaches which side of the channel. *)
proTrig(a, b) == (Triggers(a, "producerReg") \cap PortAProduces)
                     \cup (Triggers(b, "producerReg") \ PortAProduces)
conTrig(a, b) == (Triggers(a, "consumerReg") \ PortAProduces)
                     \cup (Triggers(b, "consumerReg") \cap PortAProduces)

(* A clock edge while port A makes access a and port B access b. *)
ClockEdge(a, b) ==
    /\ reg' = [i \in Buffer |->
                  comProc(reg[i], i \in proTrig(a, b), i \in conTrig(a, b))]
    /\ UNCHANGED mem

(* The producer of channel i writes one word; the bridge places it in the  *)
(* memory that proSel selects.                                             *)
Write(i, w, v) ==
    /\ mem' = [mem EXCEPT ![i][reg[i].pro][w] = v]
    /\ UNCHANGED reg

Next ==
    \/ \E a \in AccessA, b \in AccessB : ClockEdge(a, b)
    \/ \E i \in Buffer, w \in Word, v \in Value : Write(i, w, v)

Spec == Init /\ [][Next]_vars

-----------------------------------------------------------------------------
TypeOK ==
    /\ reg \in [Buffer -> tReg]
    /\ mem \in [Buffer -> [Sel -> [Word -> Value]]]

(* The producer never works in the memory the consumer reads, nor in the   *)
(* published one the consumer gets next: "ensures consuming consistent and *)
(* latest data" of the comment above comProc.                              *)
Exclusive ==
    \A i \in Buffer : reg[i].pro \notin {reg[i].con, reg[i].latest}

(* The words a consumer reads change only when it acknowledges: between    *)
(* two acknowledges it may read word by word and never sees a torn image,  *)
(* whatever the producer writes or publishes meanwhile.                    *)
ConsumerImageStable ==
    [][\A i \in Buffer :
          mem'[i][reg'[i].con] # mem[i][reg[i].con] =>
              \E a \in AccessA, b \in AccessB :
                  ClockEdge(a, b) /\ i \in conTrig(a, b)]_vars

(* The core implements the channel of LatestValue: publishing never waits, *)
(* and an acknowledge of the consumer yields the newest published image,   *)
(* also when both sides acknowledge on the same edge.                      *)
LV == INSTANCE LatestValue WITH
          proImg <- [i \in Buffer |-> mem[i][reg[i].pro]],
          pubImg <- [i \in Buffer |-> mem[i][reg[i].latest]],
          conImg <- [i \in Buffer |-> mem[i][reg[i].con]]

ImplementsLatestValue == LV!Spec

=============================================================================
