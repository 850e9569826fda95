-------------------------------- MODULE XCom --------------------------------
(***************************************************************************)
(* The cross communication of a redundant safety node.  In every cycle     *)
(* each of the two processors builds its frames, posts them to xcom and    *)
(* sends an image with their check sums to the other one over the UART;    *)
(* the slave's image also carries its half of each frame.  The master      *)
(* merges the two halves and hands the frame to the PCP.  Sources:         *)
(* demo-sn-gpio/shnf/xcom.c, xcom-ma.c, xcom-sl.c, shnftx-dual.c, main.c.  *)
(*                                                                         *)
(* Both processors get the sync interrupts of the PCP at the same time,    *)
(* and finish their work before the next one; the images may come at any   *)
(* time.  What the stacks build is free, so that a processor may compute a *)
(* wrong frame or none.  Of a frame only what the comparison tells apart   *)
(* is kept: its check sums, of which one byte each is compared, also of    *)
(* those that have two (shnftx-dual.c 285).  The merged frames, which the  *)
(* other channels carry on, are left out.  The images are sent and         *)
(* received as a whole.                                                    *)
(***************************************************************************)
EXTENDS Naturals, DualChannel

CONSTANT Crc        \* values of the compared check sums of a frame

Kind == {"spdo", "ssdo"}   \* TSPDO, and TSSDO or TSNMT
NoFrame == "none"

ASSUME CrcAssumption == NoFrame \notin Crc

VARIABLES
    phase,      \* "idle", "transfer" (the SPI transfer runs), "off"
    wait,       \* fWaitForRcv_m
    armed,      \* the UART receives into rcvImg_m
    failed,     \* a fatal error has set the shutdown flag
    img,        \* transImg_m and the check sums of xcom: the frame of each
                \* kind, if its bit is set in msgFormat_m
    wire,       \* the images on their way from each processor, at most one
    disturbed   \* history: the processors were not in step, see InStep

vars == <<phase, wait, armed, failed, img, wire, disturbed>>

Image == [Kind -> Crc \cup {NoFrame}]
NoFrames == [k \in Kind |-> NoFrame]
format(image) == {k \in Kind : image[k] # NoFrame}

(* xcom_init *)
Init ==
    /\ phase = [p \in Processor |-> "idle"]
    /\ wait = [p \in Processor |-> FALSE]
    /\ armed = [p \in Processor |-> TRUE]
    /\ failed = [p \in Processor |-> FALSE]
    /\ img = [p \in Processor |-> NoFrames]
    /\ wire = [p \in Processor |-> {}]
    /\ disturbed = FALSE

(* History: what is asked of two processors in step: to build the same     *)
(* frames in a cycle, and that the image of each comes after the other one *)
(* has built its own and before the next sync interrupt.                   *)
InStep(asked) == disturbed' = (disturbed \/ ~asked)

-----------------------------------------------------------------------------
Running == {p \in Processor : phase[p] # "off"}

(* A faulty form: a cycle without cross communication is accepted. *)
EnableReceiveUnchecked(P) ==
    /\ wait' = [p \in Processor |-> wait[p] \/ p \in P]
    /\ UNCHANGED failed

(* xcom_enableReceiveCheck on each of the processors P. *)
xcom_enableReceiveCheck(P) ==
    /\ wait' = [p \in Processor |-> wait[p] \/ p \in P]
    /\ failed' = [p \in Processor |-> failed[p] \/ (p \in P /\ wait[p])]

(* The sync interrupt: syncCycle of main.c on each processor, and the SPI  *)
(* transfers start.                                                        *)
Sync ==
    /\ Running # {} /\ \A p \in Running : phase[p] = "idle"
    /\ xcom_enableReceiveCheck(Running)
    /\ phase' = [p \in Processor |-> IF p \in Running THEN "transfer" ELSE "off"]
    /\ InStep(\A p \in Processor : wire[p] = {})
    /\ UNCHANGED <<armed, img, wire>>

(* shnftx_postSpdoFrame and shnftx_postSsdoSnmtFrame for the frames built: *)
(* one posted before and not done with is overwritten.                     *)
Posted(p, built) == [k \in Kind |-> IF built[k] = NoFrame THEN img[p][k] ELSE built[k]]

(* The interrupt of the finished SPI transfer: the stack's frames, then    *)
(* shnftx_process.  A UART that still sends refuses another image.         *)
Work(p) ==
    /\ phase[p] = "transfer"
    /\ phase' = [phase EXCEPT ![p] = "idle"]
    /\ \E built \in Image : img' = [img EXCEPT ![p] = Posted(p, built)]
    /\ IF wire[p] = {}
       THEN wire' = [wire EXCEPT ![p] = {img'[p]}] /\ UNCHANGED failed
       ELSE failed' = [failed EXCEPT ![p] = TRUE] /\ UNCHANGED wire
    /\ InStep(phase[Peer(p)] = "idle" => img'[p] = img[Peer(p)])
    /\ UNCHANGED <<wait, armed>>

(* Any other part of the processor finds an error, and xcom does not send. *)
WorkFails(p) ==
    /\ phase[p] = "transfer"
    /\ phase' = [phase EXCEPT ![p] = "idle"]
    /\ failed' = [failed EXCEPT ![p] = TRUE]
    /\ InStep(FALSE)
    /\ UNCHANGED <<wait, armed, img, wire>>

(* An image is damaged on its way, or nobody receives. *)
ImageLost(p) ==
    /\ wire[p] # {}
    /\ wire' = [wire EXCEPT ![p] = {}]
    /\ InStep(FALSE)
    /\ UNCHANGED <<phase, wait, armed, failed, img>>

(* main leaves its loop: shutdown. *)
Stop(p) ==
    /\ failed[p] /\ phase[p] # "off"
    /\ phase' = [phase EXCEPT ![p] = "off"]
    /\ armed' = [armed EXCEPT ![p] = FALSE]
    /\ UNCHANGED <<wait, failed, img, wire, disturbed>>

-----------------------------------------------------------------------------
(* frameReceived of xcom.c, from the interrupt of the UART. *)

(* A faulty form: the flag of the check stays as it is. *)
TakeKeepsWait(p) ==
    /\ armed[p]
    /\ wire' = [wire EXCEPT ![Peer(p)] = {}]
    /\ UNCHANGED <<phase, wait>>

Take(p) ==
    /\ armed[p]
    /\ wire' = [wire EXCEPT ![Peer(p)] = {}]
    /\ wait' = [wait EXCEPT ![p] = FALSE]
    /\ UNCHANGED phase

(* Reception goes on, and the frames posted are done with. *)
Rearm(p) ==
    /\ img' = [img EXCEPT ![p] = NoFrames]
    /\ UNCHANGED <<armed, failed>>

(* A fatal error; reception is not started again. *)
Refuse(p) ==
    /\ failed' = [failed EXCEPT ![p] = TRUE]
    /\ armed' = [armed EXCEPT ![p] = FALSE]
    /\ UNCHANGED img

InBoth(p, received) == format(img[p]) \cap format(received)

(* verifySpdoCrcs, verifySsdoSnmtCrcs: of the kinds set in both images. *)
CrcsAgree(p, received) == \A k \in InBoth(p, received) : img[p][k] = received[k]

(* The id of the image, its time or its flow count is wrong, or a check    *)
(* sum differs.                                                            *)
ReceiveInvalid(p) ==
    /\ wire[Peer(p)] # {} /\ Take(p)
    /\ Refuse(p)
    /\ InStep(FALSE)

(* The slave has nothing to merge, and does not mind a frame of the master *)
(* it has not built itself.                                                *)
SlaveReceives ==
    \E received \in wire["master"] :
        /\ Take("slave")
        /\ CrcsAgree("slave", received)
        /\ Rearm("slave")
        /\ InStep(phase["slave"] = "idle")

(* xcomint_handleSpdoPayload, then xcomint_handleSsdoSnmtPayload: a frame  *)
(* in both images is merged, one of the slave only is fatal, one of the    *)
(* master only is dropped.  The transmit channel may be locked for an SSDO *)
(* frame to merge, which is fatal as well.                                 *)
MasterReceives ==
    \E received \in wire["slave"] :
        LET missing == format(received) \ format(img["master"])
        IN  /\ Take("master")
            /\ CrcsAgree("master", received)
            /\ \/ /\ missing = {}
                  /\ Rearm("master")
                  /\ InStep(phase["master"] = "idle")
               \/ /\ missing # {}
                  /\ Refuse("master")
                  /\ InStep(phase["master"] = "idle")
               \/ /\ "ssdo" \in InBoth("master", received) /\ "spdo" \notin missing
                  /\ Refuse("master")
                  /\ InStep(FALSE)

Receive(p) ==
    \/ ReceiveInvalid(p)
    \/ p = "slave" /\ SlaveReceives
    \/ p = "master" /\ MasterReceives

Next == Sync \/ \E p \in Processor :
    Work(p) \/ WorkFails(p) \/ ImageLost(p) \/ Stop(p) \/ Receive(p)

Spec == Init /\ [][Next]_vars

(* The PCP goes on raising sync interrupts, transfers end, and the loop of *)
(* main sees the shutdown flag.                                            *)
FairSpec ==
    /\ Spec /\ WF_vars(Sync)
    /\ \A p \in Processor : WF_vars(Work(p) \/ WorkFails(p)) /\ WF_vars(Stop(p))

-----------------------------------------------------------------------------
(* Every variable has its type; the UART sends one image at a time. *)
TypeOK ==
    /\ phase \in [Processor -> {"idle", "transfer", "off"}]
    /\ wait \in [Processor -> BOOLEAN] /\ armed \in [Processor -> BOOLEAN]
    /\ failed \in [Processor -> BOOLEAN]
    /\ img \in [Processor -> Image]
    /\ wire \in [Processor -> {{}} \cup {{image} : image \in Image}]
    /\ disturbed \in BOOLEAN

(* Two processors in step are never stopped: over any number of cycles and *)
(* in whichever order they work, send and receive within one, no check     *)
(* finds an image missing or different and no UART is still busy.          *)
(* (xcom.c 206-221, 588-696, xcom-ma.c 428-478, 576-623)                   *)
NoFalseStop == ~disturbed => \A p \in Processor : ~failed[p]

(* When one processor has shut down, the other one fails too: the node     *)
(* never goes on with one channel.  (xcom.c 206-221)                       *)
BothStop == \A p \in Processor : phase[p] = "off" ~> failed[Peer(p)]
=============================================================================
