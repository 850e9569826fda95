------------------------------- MODULE SsdoTx -------------------------------
(***************************************************************************)
(* The SSDO transmit channel: from the safety stack of the application     *)
(* processor (AP) through the triple buffer to the SDO client of the PCP,  *)
(* and the acknowledge back in the status buffer.  Sources: libs/psi/      *)
(* ssdo.c, status.c and shnf/*.c on the AP, pcp/psi/tssdo.c and status.c   *)
(* on the PCP.                                                             *)
(*                                                                         *)
(* A frame is its number in the order of posting.  On the AP everything    *)
(* but the SPI transfer runs in interrupts of one priority, so one         *)
(* interrupt is one action; the transfer reads the sequence number, which  *)
(* is the first byte of the image, before the payload, and in a redundant  *)
(* system the interrupt of the serial line can change the image meanwhile. *)
(* On the PCP the sync interrupt preempts the background loop.  The triple *)
(* buffers are the channels of LatestValue.                                *)
(***************************************************************************)
EXTENDS Integers, Sequences

CONSTANTS TimeoutLimit,  \* SSDO_TX_TIMEOUT_CYCLE_COUNT
          ArpLimit,      \* ARP timeout of the PCP in cycles
          MaxFrames      \* bound: frames posted in one behaviour

ASSUME LimitAssumption == TimeoutLimit \in Nat /\ ArpLimit \in Nat /\ MaxFrames \in Nat

VARIABLES
    ap,             \* transmit half of eSsdoInstance and the image of its buffer;
                    \* redundant: SYSTEM_PATH > ID_TARG_SINGLE, frames pass the XCom
    ssdoTxStatus,   \* AP copy of the acknowledge flag
    ssdoRxBusy,     \* shnf: the stack is still working on a received frame
    syncTask,       \* main.c: task of this cycle
    pendingPost,    \* a frame waits in the XCom for the other processor
    dma,            \* progress of the SPI transfer
    wire,           \* what the transfer has carried so far
    tbuf,           \* the two triple buffers: published and consumer images
    pcp,            \* instance of tssdo.c and the flag in status.c
    pcpUp,          \* FALSE when the background loop of the PCP has ended
    posted,         \* history: the sequence number of every posted frame
    taken,          \* history: the images the PCP took for transmission
    finished,       \* history: frames whose SDO transfer the PCP finished
    acked,          \* history: frames the AP saw acknowledged
    timedOut        \* history: the timeout has freed the channel

apVars == <<ap, ssdoTxStatus, ssdoRxBusy, syncTask, pendingPost>>
busVars == <<dma, wire>>
ghosts == <<posted, taken, finished, acked, timedOut>>
vars == <<apVars, busVars, tbuf, pcp, pcpUp, ghosts>>

SeqNr == {"First", "Second"}

changeLocalSeqNr(s) == IF s = "First" THEN "Second" ELSE "First"

EmptyImage == [seqNr |-> "Invalid", payl |-> 0]

(* timeout.c.  Counting stops one above the limit: the counter is read     *)
(* nowhere but in the comparison.                                          *)
Stopped == [en |-> FALSE, count |-> 0]
Started == [en |-> TRUE, count |-> 0]

incrementCounter(t, limit) ==
    IF t.en /\ t.count <= limit THEN [t EXCEPT !.count = @ + 1] ELSE t
Expired(t, limit) == t.en /\ t.count > limit

Frames == 1..Len(posted)
LastFrame == Len(posted)

Init ==
    /\ ap \in {[img |-> EmptyImage, currTxSeqNr |-> "Second", isLocked |-> FALSE,
                timer |-> Stopped, redundant |-> r] : r \in BOOLEAN}
    /\ ssdoTxStatus = "First"
    /\ ssdoRxBusy = FALSE
    /\ syncTask = "Shnf"
    /\ pendingPost = FALSE
    /\ dma = "idle"
    /\ wire = [seqNr |-> "Invalid", status |-> "First"]
    /\ tbuf = [txPub |-> EmptyImage, txCon |-> EmptyImage, statusPub |-> "First"]
    /\ pcp = [state |-> "WaitForFrame", currConsSeq |-> "Invalid",
              consStatus |-> "First", arpTimer |-> Stopped, reported |-> FALSE]
    /\ pcpUp = TRUE
    /\ posted = <<>>
    /\ taken = <<>>
    /\ finished = {}
    /\ acked = {}
    /\ timedOut = FALSE

-----------------------------------------------------------------------------
(* The AP.  These operators map the instance before to the instance after. *)

(* A faulty form: the timer is not started. *)
ssdo_postPayloadNoTimer(a) ==
    [a EXCEPT !.img = [seqNr |-> a.currTxSeqNr, payl |-> LastFrame + 1],
              !.isLocked = TRUE]

ssdo_postPayload(a) ==
    [a EXCEPT !.img = [seqNr |-> a.currTxSeqNr, payl |-> LastFrame + 1],
              !.isLocked = TRUE, !.timer = Started]

(* A faulty form: the number is left alone when the channel is freed. *)
ssdo_handleTxFrameNoToggle(a, flag) ==
    IF a.isLocked /\ flag = a.currTxSeqNr
    THEN [a EXCEPT !.isLocked = FALSE, !.timer = Stopped] ELSE a

ssdo_handleTxFrame(a, flag) ==
    IF a.isLocked /\ (flag = a.currTxSeqNr \/ Expired(a.timer, TimeoutLimit))
    THEN [a EXCEPT !.isLocked = FALSE, !.timer = Stopped,
                   !.currTxSeqNr = changeLocalSeqNr(@)]
    ELSE a

(* SHNF_MarkTxMemBlock for a SSDO or SNMT frame: refused while the channel *)
(* is locked; posted at once, or left to the XCom until the other          *)
(* processor's half arrives.                                               *)
MarkTxMemBlock(a) ==
    IF a.isLocked \/ a.redundant \/ LastFrame >= MaxFrames THEN a ELSE ssdo_postPayload(a)

(* A faulty form: the lock is left to be found when the frame is posted. *)
MarkPendingUnchecked(a) == a.redundant /\ LastFrame < MaxFrames

MarkPending(a) == a.redundant /\ ~a.isLocked /\ LastFrame < MaxFrames

(* The sync interrupt of the AP: pre-actions and the start of the SPI      *)
(* transfer, whose first byte acknowledges the consuming buffers.          *)
SyncIr ==
    /\ dma = "idle"
    /\ pcpUp
    /\ dma' = "seqNr"
    /\ wire' = [wire EXCEPT !.status = tbuf.statusPub]
    /\ UNCHANGED <<apVars, tbuf, pcp, pcpUp, ghosts>>

SendSeqNr ==
    /\ dma = "seqNr"
    /\ dma' = "payload"
    /\ wire' = [wire EXCEPT !.seqNr = ap.img.seqNr]
    /\ UNCHANGED <<apVars, tbuf, pcp, pcpUp, ghosts>>

(* The payload follows, and the last byte of the transfer acknowledges the *)
(* producing buffers.                                                      *)
SendPayload ==
    /\ dma = "payload"
    /\ dma' = "finished"
    /\ tbuf' = [tbuf EXCEPT !.txPub = [seqNr |-> wire.seqNr, payl |-> ap.img.payl]]
    /\ UNCHANGED <<apVars, wire, pcp, pcpUp, ghosts>>

(* History of a step of the AP from instance a to b in which handleTxFrame *)
(* saw instance t.                                                         *)
Record(t, flag, freed) ==
    /\ posted' = IF ap'.img # ap.img THEN Append(posted, ap'.img.seqNr) ELSE posted
    /\ acked' = IF freed /\ flag = t.currTxSeqNr
                THEN acked \cup {t.img.payl} ELSE acked
    /\ timedOut' = (timedOut \/ (freed /\ flag # t.currTxSeqNr))
    /\ UNCHANGED <<taken, finished>>

(* hnf_processAsync in the cycle of the shnf task.  The handler of a       *)
(* received frame may answer with a frame before the transmit half is      *)
(* processed ("rx"), the timers of the stack after it ("timer").           *)
ShnfReady(a, flag) ==
    /\ ~ssdoRxBusy
    /\ ssdoRxBusy' \in BOOLEAN
    /\ \E mark \in {"none", "rx", "timer"} :
          LET b == IF mark = "rx" THEN MarkTxMemBlock(a) ELSE a
              c == ssdo_handleTxFrame(b, flag)
          IN  /\ ap' = IF mark = "timer" THEN MarkTxMemBlock(c) ELSE c
              /\ pendingPost' = (pendingPost \/ (mark = "rx" /\ MarkPending(a))
                                             \/ (mark = "timer" /\ MarkPending(c)))
              /\ Record(b, flag, c # b)

(* While the stack is busy with a frame only the stack is called. *)
ShnfBusy(a, done) ==
    /\ ssdoRxBusy
    /\ ssdoRxBusy' = ~done
    /\ \E mark \in BOOLEAN :
          /\ ap' = IF mark THEN MarkTxMemBlock(a) ELSE a
          /\ pendingPost' = (pendingPost \/ (mark /\ MarkPending(a)))
    /\ Record(a, "none", FALSE)

OtherTask(a) ==
    /\ ap' = a
    /\ UNCHANGED <<ssdoRxBusy, pendingPost, ghosts>>

(* The interrupt of the finished SPI transfer: the post actions, then the  *)
(* task of this cycle.                                                     *)
TransferFinished(done) ==
    LET a == [ap EXCEPT !.timer = incrementCounter(@, TimeoutLimit)]
    IN  /\ dma = "finished"
        /\ dma' = "idle"
        /\ ssdoTxStatus' = wire.status
        /\ syncTask' = CASE syncTask = "Shnf" -> "Sapl"
                         [] syncTask = "Sapl" -> "State"
                         [] syncTask = "State" -> "Shnf"
        /\ \/ syncTask = "Shnf" /\ (ShnfReady(a, ssdoTxStatus') \/ ShnfBusy(a, done))
           \/ syncTask # "Shnf" /\ OtherTask(a)
        /\ UNCHANGED <<wire, tbuf, pcp, pcpUp>>

(* The other processor's half of the frame arrives on the serial line. *)
SerialReceived ==
    /\ pendingPost
    /\ pendingPost' = FALSE
    /\ ap' = IF ap.isLocked THEN ap ELSE ssdo_postPayload(ap)
    /\ Record(ap, "none", FALSE)
    /\ UNCHANGED <<ssdoTxStatus, ssdoRxBusy, syncTask, busVars, tbuf, pcp, pcpUp>>

-----------------------------------------------------------------------------
(* The PCP. *)

Incoming == tbuf.txPub.seqNr

(* A faulty form: frames are accepted in every state. *)
handleIncomingAlways ==
    /\ tbuf' = [tbuf EXCEPT !.statusPub = pcp.consStatus, !.txCon = tbuf.txPub]
    /\ IF Incoming \in SeqNr /\ Incoming # pcp.currConsSeq
       THEN /\ pcp' = [pcp EXCEPT !.state = "ProcessFrame", !.currConsSeq = Incoming]
            /\ taken' = Append(taken, tbuf.txPub)
       ELSE UNCHANGED <<pcp, taken>>

(* A faulty form: the number of the frame is not remembered. *)
handleIncomingForgets ==
    /\ pcp.state = "WaitForFrame"
    /\ tbuf' = [tbuf EXCEPT !.statusPub = pcp.consStatus, !.txCon = tbuf.txPub]
    /\ IF Incoming \in SeqNr
       THEN /\ pcp' = [pcp EXCEPT !.state = "ProcessFrame", !.currConsSeq = Incoming]
            /\ taken' = Append(taken, tbuf.txPub)
       ELSE UNCHANGED <<pcp, taken>>

(* tssdo_handleIncoming after status_processOut: the status with the       *)
(* acknowledge is published; only when no frame is in work the consumer    *)
(* image is renewed and its number compared with the last one.             *)
handleIncoming ==
    IF pcp.state = "WaitForFrame"
    THEN /\ tbuf' = [tbuf EXCEPT !.statusPub = pcp.consStatus, !.txCon = tbuf.txPub]
         /\ IF Incoming \in SeqNr /\ Incoming # pcp.currConsSeq
            THEN /\ pcp' = [pcp EXCEPT !.state = "ProcessFrame", !.currConsSeq = Incoming]
                 /\ taken' = Append(taken, tbuf.txPub)
            ELSE UNCHANGED <<pcp, taken>>
    ELSE /\ tbuf' = [tbuf EXCEPT !.statusPub = pcp.consStatus]
         /\ pcp' = [pcp EXCEPT !.arpTimer = incrementCounter(@, ArpLimit)]
         /\ UNCHANGED taken

(* The sync interrupt of the PCP. *)
SyncCb ==
    /\ pcpUp
    /\ handleIncoming
    /\ UNCHANGED <<apVars, busVars, pcpUp, posted, finished, acked, timedOut>>

Background == UNCHANGED <<apVars, busVars, tbuf, posted, taken, acked, timedOut>>

(* processTransmitSm with a frame: the target is not configured or the SDO *)
(* handle busy (nothing changes), the transfer is deferred, it needs an    *)
(* ARP first, it is done at once, or it fails and ends the loop of main.c. *)
TransmitDeferred ==
    /\ pcpUp /\ pcp.state = "ProcessFrame" /\ ~pcp.reported
    /\ pcp' = [pcp EXCEPT !.state = "WaitForTxFinished"]
    /\ UNCHANGED <<pcpUp, finished>> /\ Background

TransmitNeedsArp ==
    /\ pcpUp /\ pcp.state = "ProcessFrame" /\ ~pcp.reported
    /\ pcp' = [pcp EXCEPT !.state = "WaitForNextArpRetry", !.arpTimer = Started]
    /\ UNCHANGED <<pcpUp, finished>> /\ Background

TransmitFails ==
    /\ pcpUp /\ pcp.state = "ProcessFrame" /\ ~pcp.reported
    /\ pcpUp' = FALSE
    /\ UNCHANGED <<pcp, finished>> /\ Background

ArpRetry ==
    /\ pcpUp /\ pcp.state = "WaitForNextArpRetry"
    /\ Expired(pcp.arpTimer, ArpLimit)
    /\ pcp' = [pcp EXCEPT !.state = "ProcessFrame", !.arpTimer = Stopped]
    /\ UNCHANGED <<pcpUp, finished>> /\ Background

(* tssdo_consTxTransferFinished, called when the transfer was done at once *)
(* or the SDO client reports its end, with or without success: first the   *)
(* flag, then the state; the sync interrupt may come between.              *)
SetConsChanFlag ==
    /\ pcpUp /\ pcp.state \in {"ProcessFrame", "WaitForTxFinished"} /\ ~pcp.reported
    /\ pcp' = [pcp EXCEPT !.consStatus = pcp.currConsSeq, !.reported = TRUE]
    /\ finished' = finished \cup {tbuf.txCon.payl}
    /\ UNCHANGED pcpUp /\ Background

TransferFinishedState ==
    /\ pcpUp /\ pcp.reported
    /\ pcp' = [pcp EXCEPT !.state = "WaitForFrame", !.reported = FALSE]
    /\ UNCHANGED <<pcpUp, finished>> /\ Background

-----------------------------------------------------------------------------
ApNext == SyncIr \/ SendSeqNr \/ SendPayload \/ SerialReceived
              \/ \E done \in BOOLEAN : TransferFinished(done)
PcpNext == SyncCb \/ TransmitDeferred \/ TransmitNeedsArp \/ TransmitFails
               \/ ArpRetry \/ SetConsChanFlag \/ TransferFinishedState
Next == ApNext \/ PcpNext

(* The sync interrupt recurs while the PCP runs, a started transfer ends,  *)
(* and the stack does not stay busy for ever.                              *)
Fairness ==
    /\ WF_vars(SyncIr) /\ WF_vars(SendSeqNr) /\ WF_vars(SendPayload)
    /\ WF_vars(\E done \in BOOLEAN : TransferFinished(done))
    /\ SF_vars(syncTask = "Shnf" /\ ssdoRxBusy /\ TransferFinished(TRUE))

Spec == Init /\ [][Next]_vars
FairSpec == Spec /\ Fairness

-----------------------------------------------------------------------------
Timer(limit) == [en : BOOLEAN, count : 0..(limit + 1)]
ImageType == [seqNr : SeqNr \cup {"Invalid"}, payl : 0..LastFrame]

TypeOK ==
    /\ ap \in [img : ImageType, currTxSeqNr : SeqNr, isLocked : BOOLEAN,
               timer : Timer(TimeoutLimit), redundant : BOOLEAN]
    /\ ssdoTxStatus \in SeqNr
    /\ ssdoRxBusy \in BOOLEAN /\ pendingPost \in BOOLEAN /\ pcpUp \in BOOLEAN
    /\ syncTask \in {"Shnf", "Sapl", "State"}
    /\ dma \in {"idle", "seqNr", "payload", "finished"}
    /\ wire \in [seqNr : SeqNr \cup {"Invalid"}, status : SeqNr]
    /\ tbuf \in [txPub : ImageType, txCon : ImageType, statusPub : SeqNr]
    /\ pcp \in [state : {"WaitForFrame", "ProcessFrame", "WaitForTxFinished",
                         "WaitForNextArpRetry"},
                currConsSeq : SeqNr \cup {"Invalid"}, consStatus : SeqNr,
                arpTimer : Timer(ArpLimit), reported : BOOLEAN]
    /\ posted \in Seq(SeqNr)
    /\ taken \in Seq(ImageType)
    /\ finished \subseteq Frames /\ acked \subseteq Frames
    /\ timedOut \in BOOLEAN

(* The PCP takes every frame at most once, in the order of posting, and    *)
(* with the number it was posted with: an image is never taken with the    *)
(* number of one frame and the payload of another.  In a redundant system, *)
(* where a frame can be posted while the image is being sent, this holds   *)
(* until the timeout frees the channel: the numbers of frames that are not *)
(* answered no longer tell an old frame from a new one.                    *)
TakenAsPosted ==
    (ap.redundant => ~timedOut) =>
        \A i \in 1..Len(taken) :
            /\ taken[i].seqNr = posted[taken[i].payl]
            /\ \A j \in 1..(i - 1) : taken[j].payl < taken[i].payl

(* Until the timeout frees the channel, a frame that the AP counts as      *)
(* acknowledged was taken by the PCP and its SDO transfer was over.  After *)
(* it the flag of the frame before acknowledges the next one.              *)
AckedWasFinished == ~timedOut => acked \subseteq finished

(* The SDO stack keeps a pointer into the consumer image: it must not be   *)
(* renewed until the transfer of the frame is over.                        *)
ImageStableInTransfer ==
    [][pcp.state # "WaitForFrame" => tbuf'.txCon = tbuf.txCon]_vars

(* A frame waiting in the XCom finds the channel unlocked, so the post in  *)
(* the serial interrupt never raises the fatal error                       *)
(* kErrorAsyncFramePostingFailed, and no frame waits in a single system.   *)
PendingFindsUnlocked == pendingPost => ap.redundant /\ ~ap.isLocked

(* A posted frame does not lock the channel for ever, whatever becomes of  *)
(* the SDO transfer, as long as the PCP runs.                              *)
EventuallyUnlocked == ap.isLocked ~> (~ap.isLocked \/ ~pcpUp)

-----------------------------------------------------------------------------
(* The channel as StopAndWait has it: a frame is finished when the PCP has *)
(* set the flag of its number, in whichever copies the AP finds it.        *)
ChannelPhase ==
    IF timedOut THEN "broken"
    ELSE IF ~ap.isLocked THEN "free"
    ELSE IF pcp.currConsSeq # ap.img.seqNr THEN "posted"
    ELSE IF pcp.consStatus # ap.currTxSeqNr THEN "taken" ELSE "done"

Channel == INSTANCE StopAndWait WITH
    Again <- FALSE,
    phase <- ChannelPhase,
    message <- IF ap.isLocked THEN ap.img.payl ELSE 0,
    taken <- [i \in 1..Len(taken) |-> taken[i].payl]

(* The sequence number, its four copies, the timers of both sides and the  *)
(* repeated transfers of one image implement a channel that hands over     *)
(* every frame once and is free again only after the frame is finished.    *)
(* (ssdo.c 473-571, tssdo.c 486-646)                                       *)
ImplementsStopAndWait == Channel!Spec
=============================================================================
