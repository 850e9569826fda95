-------------------------------- MODULE Boot --------------------------------
(***************************************************************************)
(* The start of a redundant safety node: initXCom of main.c and the        *)
(* handshake of its two processors over the UART.  The slave sends a       *)
(* welcome message and repeats it until the master responds; both restore  *)
(* their SOD if both have an image; the slave reports ready, and the       *)
(* master answers with its time at the first sync interrupt.  Sources:     *)
(* demo-sn-gpio/boot/*.c, main.c, target/stm32f401rb/upserial.c.           *)
(*                                                                         *)
(* The UART has no flow control: a word reaches the peer only while it     *)
(* waits in upserial_receiveBlock, anything else is lost, and a receiver   *)
(* that starts in the middle of a message takes the rest of it for the     *)
(* first half of its own.  Messages travel in words of four bytes; the     *)
(* UINT64 time makes the sync message four of them.                        *)
(* Time is abstracted to the order of events; the guards say which ones    *)
(* 100 ms, 8 s and 17 min rule out.                                        *)
(***************************************************************************)
EXTENDS Naturals, Sequences, DualChannel

CONSTANT MaxRestarts   \* bound: resets of a processor in one behaviour

ASSUME RestartsAssumption == MaxRestarts \in Nat

VARIABLES
    pc,         \* place of each processor in initXCom
    image,      \* sapl_checkSodStorage: the processor has a valid SOD image
    flag,       \* fRestoreSod of initXCom
    restored,   \* the SOD was restored from the image
    tx,         \* words of its message the processor has still to send
    rx,         \* words in the buffer it receives into
    timeBase,   \* words the slave took for its consecutive time
    posted,     \* the processor has posted a failure of its transmitter
    cut,        \* history: a message reached its receiver in part, or one of the
                \* master, which repeats none, did not reach it at all
    restarts    \* history: resets

bootVars == <<pc, image, flag, restored, tx, rx, timeBase, posted, cut, restarts>>

OwnTime == <<"own", "own">>
MasterTime == <<"time", "time">>

BootInit ==
    /\ pc = [p \in Processor |-> "Off"]
    /\ image \in [Processor -> BOOLEAN]
    /\ flag = [p \in Processor |-> FALSE]
    /\ restored = [p \in Processor |-> FALSE]
    /\ tx = [p \in Processor |-> <<>>]
    /\ rx = [p \in Processor |-> <<>>]
    /\ timeBase = OwnTime
    /\ posted = [p \in Processor |-> FALSE]
    /\ cut = FALSE /\ restarts = 0

(* hands_fillStateField, and bit 0 of the field as the peer reads it: of   *)
(* the words that can stand there only a cleared field has it clear.       *)
StateField(restore) == IF restore THEN "restore" ELSE "fresh"
RestoreBit(word) == word # "fresh"

(* A faulty form: a peer without an image is no reason not to restore. *)
VerifyStateIgnores(word, restore) == restore

(* hands_verifySnStateField *)
hands_verifySnStateField(word, restore) == restore /\ RestoreBit(word)

Welcome(restore) == <<"welcome", StateField(restore)>>
SyncMessage == <<"ready", "time", "time", "time">>

(* Words of the message a processor sends or waits for. *)
SendSize == [SendWelcome |-> 2, SendResponse |-> 2, SendReady |-> 1, SendSync |-> 4]
AwaitSize == [AwaitWelcome |-> 2, AwaitResponse |-> 2, AwaitReady |-> 1, AwaitSync |-> 4]
AfterSend == [SendWelcome |-> "AwaitResponse", SendResponse |-> "Restore",
              SendReady |-> "AwaitSync", SendSync |-> "Done"]

Sending(p) == pc[p] \in DOMAIN SendSize
Midway(p) == Sending(p) /\ Len(tx[p]) \in 1..(SendSize[pc[p]] - 1)
Filled(p, place) == pc[p] = place /\ Len(rx[p]) = AwaitSize[place]

Filling(p) == pc[p] \in DOMAIN AwaitSize /\ Len(rx[p]) < AwaitSize[pc[p]]

-----------------------------------------------------------------------------
(* The steps of one processor. *)

Goto(p, place) == pc' = [pc EXCEPT ![p] = place]
Fail(p) == Goto(p, "Failed")

(* Power-up and the initialisation before the handshake; a peer that has   *)
(* a message in its buffer looks at it long before this is over.           *)
PowerUp(p) ==
    /\ pc[p] = "Off"
    /\ \A place \in DOMAIN AwaitSize : ~Filled(Peer(p), place)
    /\ flag' = [flag EXCEPT ![p] = image[p]]
    /\ IF p = "master"
       THEN Goto(p, "AwaitWelcome") /\ cut' = (cut \/ Midway("slave")) /\ UNCHANGED tx
       ELSE /\ Goto(p, "SendWelcome")
            /\ tx' = [tx EXCEPT ![p] = Welcome(image[p])]
            /\ UNCHANGED cut
    /\ UNCHANGED <<image, restored, rx, timeBase, posted, restarts>>

(* upserial_transmitBlock, one word; the last one ends it, and a processor *)
(* that waits for an answer receives from then on.                         *)
SendWord(p) ==
    LET q == Peer(p)
        last == Len(tx[p]) = 1
    IN  /\ Sending(p)
        /\ tx' = [tx EXCEPT ![p] = Tail(@)]
        /\ pc' = [pc EXCEPT ![p] = IF last THEN AfterSend[@] ELSE @]
        /\ rx' = [rx EXCEPT ![p] = <<>>,
                            ![q] = IF Filling(q) THEN Append(@, Head(tx[p])) ELSE @]
        /\ cut' = (cut \/ (last /\ p = "slave" /\ Midway(q))
                        \/ (p = "master" /\ ~Filling(q)))
        /\ UNCHANGED <<image, flag, restored, timeBase, posted, restarts>>

(* The interrupt of the UART or the DMA stays away.  pipo_doTransfer of    *)
(* the slave then leaves its loop and reads rcvState, which it has not     *)
(* set: it may go on as after a successful transfer.                       *)
TransmitFails(p) ==
    /\ Sending(p)
    /\ cut' = (cut \/ Midway(p))
    /\ tx' = [tx EXCEPT ![p] = <<>>]
    /\ posted' = [posted EXCEPT ![p] = TRUE]
    /\ \/ Fail(p)
       \/ pc[p] = "SendWelcome" /\ Goto(p, "Restore")
       \/ pc[p] = "SendReady" /\ Goto(p, "Done")
    /\ UNCHANGED <<image, flag, restored, rx, timeBase, restarts>>

(* welcomeReceived *)
WelcomeReceived ==
    /\ Filled("master", "AwaitWelcome")
    /\ LET restore == hands_verifySnStateField(rx["master"][2], flag["master"])
       IN  IF rx["master"][1] = "welcome"
           THEN /\ Goto("master", "SendResponse")
                /\ flag' = [flag EXCEPT !["master"] = restore]
                /\ tx' = [tx EXCEPT !["master"] = Welcome(restore)]
           ELSE Fail("master") /\ UNCHANGED <<flag, tx>>
    /\ rx' = [rx EXCEPT !["master"] = <<>>]
    /\ UNCHANGED <<image, restored, timeBase, posted, cut, restarts>>

(* responseReceived *)
ResponseReceived ==
    /\ Filled("slave", "AwaitResponse")
    /\ IF rx["slave"][1] = "welcome"
       THEN /\ Goto("slave", "Restore")
            /\ flag' = [flag EXCEPT !["slave"] =
                            hands_verifySnStateField(rx["slave"][2], @)]
       ELSE Fail("slave") /\ UNCHANGED flag
    /\ rx' = [rx EXCEPT !["slave"] = <<>>]
    /\ UNCHANGED <<image, restored, tx, timeBase, posted, cut, restarts>>

(* sapl_restoreSod of the master, which then waits for the ready message. *)
RestoreMaster ==
    /\ pc["master"] = "Restore"
    /\ restored' = [restored EXCEPT !["master"] = flag["master"] /\ image["master"]]
    /\ Goto("master", "AwaitReady")
    /\ cut' = (cut \/ Midway("slave"))
    /\ UNCHANGED <<image, flag, tx, rx, timeBase, posted, restarts>>

(* A faulty form: the slave does not wait for the master. *)
RestoreSlaveAtOnce ==
    /\ pc["slave"] = "Restore"
    /\ restored' = [restored EXCEPT !["slave"] = flag["slave"] /\ image["slave"]]
    /\ Goto("slave", "SendReady")
    /\ tx' = [tx EXCEPT !["slave"] = <<"ready">>]
    /\ UNCHANGED <<image, flag, rx, timeBase, posted, cut, restarts>>

(* The same on the slave.  Both restore the same set, the master starts    *)
(* first, and the slave sleeps 100 ms before it sends: the master is done. *)
RestoreSlave ==
    /\ pc["slave"] = "Restore"
    /\ pc["master"] \notin {"SendResponse", "Restore"}
    /\ restored' = [restored EXCEPT !["slave"] = flag["slave"] /\ image["slave"]]
    /\ Goto("slave", "SendReady")
    /\ tx' = [tx EXCEPT !["slave"] = <<"ready">>]
    /\ UNCHANGED <<image, flag, rx, timeBase, posted, cut, restarts>>

(* readyReceived, up to the wait for the sync interrupt. *)
ReadyReceived ==
    /\ Filled("master", "AwaitReady")
    /\ IF rx["master"][1] = "ready" THEN Goto("master", "AwaitIrq") ELSE Fail("master")
    /\ rx' = [rx EXCEPT !["master"] = <<>>]
    /\ UNCHANGED <<image, flag, restored, tx, timeBase, posted, cut, restarts>>

SyncInterrupt ==
    /\ pc["master"] = "AwaitIrq"
    /\ Goto("master", "SendSync")
    /\ tx' = [tx EXCEPT !["master"] = SyncMessage]
    /\ UNCHANGED <<image, flag, restored, rx, timeBase, posted, cut, restarts>>

(* A faulty form: the time is read without the padding before it. *)
SyncReceivedUnpadded ==
    /\ Filled("slave", "AwaitSync")
    /\ timeBase' = SubSeq(rx["slave"], 1, 2)
    /\ Goto("slave", "Done")
    /\ rx' = [rx EXCEPT !["slave"] = <<>>]
    /\ UNCHANGED <<image, flag, restored, tx, posted, cut, restarts>>

(* syncReceived: the header is compared with itself, so that four words of *)
(* any kind are a sync message.                                            *)
SyncReceived ==
    /\ Filled("slave", "AwaitSync")
    /\ timeBase' = SubSeq(rx["slave"], 3, 4)
    /\ Goto("slave", "Done")
    /\ rx' = [rx EXCEPT !["slave"] = <<>>]
    /\ UNCHANGED <<image, flag, restored, tx, posted, cut, restarts>>

-----------------------------------------------------------------------------
(* Timeouts of upserial_receiveBlock. *)

(* After 8 s the slave repeats its welcome; a master that has received one *)
(* responds long before.                                                   *)
ResponseTimeout ==
    /\ pc["slave"] = "AwaitResponse" /\ Filling("slave")
    /\ pc["master"] # "SendResponse" /\ ~Filled("master", "AwaitWelcome")
    /\ Goto("slave", "SendWelcome")
    /\ tx' = [tx EXCEPT !["slave"] = Welcome(flag["slave"])]
    /\ UNCHANGED <<image, flag, restored, rx, timeBase, posted, cut, restarts>>

(* After 17 min it repeats its ready message: the wait for the first sync  *)
(* interrupt has no limit, and the interrupt may come at that very moment. *)
SyncTimeout ==
    /\ pc["slave"] = "AwaitSync" /\ Filling("slave")
    /\ Goto("slave", "SendReady")
    /\ tx' = [tx EXCEPT !["slave"] = <<"ready">>]
    /\ UNCHANGED <<image, flag, restored, rx, timeBase, posted, cut, restarts>>

(* 17 min without a message are fatal for the master; a slave that is in   *)
(* its handshake sends one every 8 s.                                      *)
PingTimeout ==
    /\ pc["master"] \in {"AwaitWelcome", "AwaitReady"} /\ Filling("master")
    /\ pc["slave"] \in {"Off", "Failed", "AwaitSync", "Done"}
    /\ Fail("master")
    /\ UNCHANGED <<image, flag, restored, tx, rx, timeBase, posted, cut, restarts>>

-----------------------------------------------------------------------------
(* A processor in operation sends frames of the cross communication; one   *)
(* that still boots takes their words for its own message.                 *)
XComWord(p) ==
    LET q == Peer(p)
    IN  /\ pc[p] = "Done" /\ Filling(q)
        /\ rx' = [rx EXCEPT ![q] = Append(@, "frame")]
        /\ UNCHANGED <<pc, image, flag, restored, tx, timeBase, posted, cut, restarts>>

(* One processor is reset, the other one goes on.  In operation it may     *)
(* have stored an image or found its image out of date.                    *)
Restart(p) ==
    /\ pc[p] # "Off" /\ restarts < MaxRestarts
    /\ restarts' = restarts + 1
    /\ Goto(p, "Off")
    /\ \E valid \in (IF pc[p] = "Done" /\ ~posted[p] THEN BOOLEAN ELSE {image[p]}) :
          image' = [image EXCEPT ![p] = valid]
    /\ flag' = [flag EXCEPT ![p] = FALSE]
    /\ restored' = [restored EXCEPT ![p] = FALSE]
    /\ tx' = [tx EXCEPT ![p] = <<>>]
    /\ rx' = [rx EXCEPT ![p] = <<>>]
    /\ cut' = (cut \/ Midway(p))
    /\ posted' = [posted EXCEPT ![p] = FALSE]
    /\ timeBase' = IF p = "slave" THEN OwnTime ELSE timeBase

Master == RestoreMaster \/ WelcomeReceived \/ ReadyReceived
Slave == RestoreSlave \/ ResponseReceived \/ SyncReceived

BootNext ==
    \/ \E p \in Processor :
          PowerUp(p) \/ SendWord(p) \/ TransmitFails(p) \/ XComWord(p) \/ Restart(p)
    \/ Master \/ SyncInterrupt \/ Slave
    \/ ResponseTimeout \/ SyncTimeout \/ PingTimeout

BootSpec == BootInit /\ [][BootNext]_bootVars

(* Both processors are switched on and run, the slave's timer of 8 s runs, *)
(* and the PCP raises its sync interrupt.                                  *)
BootFairSpec ==
    /\ BootSpec
    /\ \A p \in Processor : WF_bootVars(PowerUp(p)) /\ WF_bootVars(SendWord(p))
    /\ WF_bootVars(Master) /\ WF_bootVars(SyncInterrupt) /\ WF_bootVars(Slave)
    /\ WF_bootVars(ResponseTimeout)

-----------------------------------------------------------------------------
Place == [master |-> {"Off", "AwaitWelcome", "SendResponse", "Restore",
                      "AwaitReady", "AwaitIrq", "SendSync", "Done", "Failed"},
          slave |-> {"Off", "SendWelcome", "AwaitResponse", "Restore",
                     "SendReady", "AwaitSync", "Done", "Failed"}]
Word == {"welcome", "ready", "restore", "fresh", "time", "frame"}

(* Every variable has its type; no buffer overflows. *)
BootTypeOK ==
    /\ \A p \in Processor :
          /\ pc[p] \in Place[p]
          /\ tx[p] \in Seq(Word) /\ rx[p] \in Seq(Word)
          /\ Sending(p) <=> tx[p] # <<>>
          /\ pc[p] \in DOMAIN AwaitSize => Len(rx[p]) <= AwaitSize[pc[p]]
    /\ image \in [Processor -> BOOLEAN] /\ flag \in [Processor -> BOOLEAN]
    /\ restored \in [Processor -> BOOLEAN]
    /\ timeBase = OwnTime \/ (timeBase \in Seq(Word) /\ Len(timeBase) = 2)
    /\ posted \in [Processor -> BOOLEAN] /\ cut \in BOOLEAN /\ restarts \in 0..MaxRestarts

PastRestore == [master |-> {"AwaitReady", "AwaitIrq", "SendSync", "Done"},
                slave |-> {"SendReady", "AwaitSync", "Done"}]

(* Both processors restore their SOD or neither does, whatever images they *)
(* have and whichever of them is reset in between, as long as no message   *)
(* was cut and the slave could send.  (handshake.c 104-125, main.c 307-314)*)
RestoreAgreed ==
    (~cut /\ \A p \in Processor : ~posted[p] /\ pc[p] \in PastRestore[p])
        => restored["master"] = restored["slave"]

(* A slave that has booted runs on the time of its master.                 *)
(* (sync-ma.c 226-236, sync-sl.c 196-214)                                  *)
TimeFromMaster ==
    pc["slave"] = "Done" /\ ~cut /\ ~posted["slave"] => timeBase = MasterTime

BothDone == \A p \in Processor : pc[p] = "Done"

(* Without a reset, a cut message or a failure of the UART both processors *)
(* boot, whichever is switched on first and however many welcome messages  *)
(* are lost, unless the slave is switched on 17 min too late.              *)
(* (pingpong-sl.c 146-161, pingpong-ma.c 178-191)                          *)
BootsUp ==
    <>(\/ BothDone
       \/ cut \/ restarts > 0 \/ \E p \in Processor : posted[p]
       \/ pc["master"] = "Failed" /\ pc["slave"] = "Off")
=============================================================================
