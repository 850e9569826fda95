------------------------------- MODULE SsdoRx -------------------------------
(***************************************************************************)
(* The SSDO receive channel: from the write access to the object           *)
(* dictionary of the PCP through its FIFO and the triple buffer to the     *)
(* safety stack of the application processor (AP), and the acknowledge     *)
(* back in the status buffer.  Sources: pcp/psi/rssdo.c and status.c on    *)
(* the PCP, libs/psi/ssdo.c, status.c and shnf/shnf.c on the AP.           *)
(*                                                                         *)
(* A frame is its number in the order of the write accesses.  On the PCP   *)
(* the sync interrupt preempts the background loop; on the AP the          *)
(* interrupt of the finished SPI transfer does all the work.  The FIFO is  *)
(* the queue that MemoryProofs shows it to be while it is not overrun.     *)
(***************************************************************************)
EXTENDS Integers, FiniteSets, Sequences, SequencesExt

CONSTANTS TimeoutLimit,  \* SSDO_RX_TIMEOUT_CYCLE_COUNT
          MaxFrames,     \* bound: write accesses in one behaviour, at most the
                         \* SSDO_RECEIVE_FIFO_ELEM_COUNT slots of the FIFO
          MaxKept        \* bound: answers that leave a frame in the channel

ASSUME LimitAssumption == TimeoutLimit \in Nat /\ MaxFrames \in 0..5 /\ MaxKept \in Nat

VARIABLES
    fifo,           \* pRxFifoInst_m
    pcp,            \* eRssdoInstance and the place in rssdo_process
    ssdoProdStatus, \* PCP copy of the flag of the AP
    tbuf,           \* the two triple buffers: published images
    dma,            \* the SPI transfer: idle, or the image it reads
    ap,             \* receive half of eSsdoInstance, status.c, shnf
    syncTask,       \* main.c: task of this cycle
    accepted,       \* history: number of write accesses the PCP accepted
    forwarded,      \* history: frames put into the triple buffer
    handed,         \* history: frames passed to the stack
    kept,           \* history: positions in handed of the passes the stack
                    \* answered with OK, after which the frame stays incoming
    finished,       \* history: frames the AP freed the channel for
    timedOut        \* history: the timeout has freed the channel

ghosts == <<accepted, forwarded, handed, kept, finished, timedOut>>
apVars == <<ap, syncTask>>
vars == <<fifo, pcp, ssdoProdStatus, tbuf, dma, apVars, ghosts>>

SeqNr == {"First", "Second"}

changeLocalSeqNr(s) == IF s = "First" THEN "Second" ELSE "First"

EmptyImage == [seqNr |-> "Invalid", payl |-> 0]

(* timeout.c; counting stops one above the limit. *)
Stopped == [en |-> FALSE, count |-> 0]
Started == [en |-> TRUE, count |-> 0]

incrementCounter(t) ==
    IF t.en /\ t.count <= TimeoutLimit THEN [t EXCEPT !.count = @ + 1] ELSE t
Expired(t) == t.en /\ t.count > TimeoutLimit

Init ==
    /\ fifo = <<>>
    /\ pcp = [currProdSeq |-> "First", timer |-> Stopped, step |-> "idle"]
    /\ ssdoProdStatus = "First"
    /\ tbuf = [rxPub |-> EmptyImage, statusPub |-> "First"]
    /\ dma = "idle"
    /\ ap = [img |-> EmptyImage, currRxSeqNr |-> "Invalid", incoming |-> FALSE,
             rxStatus |-> "First", statusImg |-> "First", busy |-> FALSE]
    /\ syncTask = "Shnf"
    /\ accepted = 0 /\ forwarded = <<>>
    /\ handed = <<>> /\ kept = {} /\ finished = {} /\ timedOut = FALSE

-----------------------------------------------------------------------------
(* The PCP. *)

(* A write access to SSDOStubData, from oplk_process in the background     *)
(* loop: the frame is queued and the timer started anew.                   *)
obdAccessCb ==
    /\ pcp.step = "idle"
    /\ accepted < MaxFrames
    /\ accepted' = accepted + 1
    /\ fifo' = Append(fifo, accepted')
    /\ pcp' = [pcp EXCEPT !.timer = Started]
    /\ UNCHANGED <<ssdoProdStatus, tbuf, dma, apVars>>
    /\ UNCHANGED <<forwarded, handed, kept, finished, timedOut>>

ChannelFree == ssdoProdStatus = pcp.currProdSeq

Forward(p, frame) ==
    /\ p' = [p EXCEPT !.step = "timer", !.currProdSeq = changeLocalSeqNr(@)]
    /\ tbuf' = [tbuf EXCEPT !.rxPub = [seqNr |-> changeLocalSeqNr(p.currProdSeq),
                                       payl |-> frame]]
    /\ forwarded' = Append(forwarded, frame)

(* A faulty form: the channel status is not looked at. *)
handleReceiveFrameUnchecked(frame) == Forward(pcp, frame)

(* handleReceiveFrame: a busy channel is turned into success, which the    *)
(* state machine takes for a frame that was forwarded: the frame is lost.  *)
(* Its repost state is left to errors of the triple buffer, which end the  *)
(* loop or never occur.                                                    *)
handleReceiveFrame(frame) ==
    IF ChannelFree
    THEN Forward(pcp, frame)
    ELSE /\ pcp' = [pcp EXCEPT !.step = "timer"]
         /\ UNCHANGED <<tbuf, forwarded>>

(* rssdo_process, first half. *)
processReceiveSm ==
    /\ pcp.step = "idle"
    /\ IF fifo = <<>>
       THEN /\ pcp' = [pcp EXCEPT !.step = "timer"]
            /\ UNCHANGED <<fifo, tbuf, forwarded>>
       ELSE /\ fifo' = Tail(fifo)
            /\ handleReceiveFrame(Head(fifo))
    /\ UNCHANGED <<ssdoProdStatus, dma, apVars, accepted, handed, kept, finished, timedOut>>

(* rssdo_process, second half: an expired timer gives the channel free by  *)
(* changing the local number, an acknowledge stops the timer.              *)
processTimer ==
    /\ pcp.step = "timer"
    /\ pcp' = [pcp EXCEPT
                  !.step = "idle",
                  !.timer = IF Expired(@) \/ ChannelFree THEN Stopped ELSE @,
                  !.currProdSeq = IF Expired(pcp.timer) THEN changeLocalSeqNr(@) ELSE @]
    /\ timedOut' = (timedOut \/ Expired(pcp.timer))
    /\ UNCHANGED <<fifo, ssdoProdStatus, tbuf, dma, apVars>>
    /\ UNCHANGED <<accepted, forwarded, handed, kept, finished>>

(* The sync interrupt: status_processIn, then rssdo_processSync. *)
SyncCb ==
    /\ ssdoProdStatus' = tbuf.statusPub
    /\ pcp' = [pcp EXCEPT !.timer = incrementCounter(@)]
    /\ UNCHANGED <<fifo, tbuf, dma, apVars, ghosts>>

-----------------------------------------------------------------------------
(* The AP. *)

(* The sync interrupt starts the SPI transfer, whose first byte            *)
(* acknowledges the consuming buffers.                                     *)
SyncIr ==
    /\ dma = "idle"
    /\ dma' = "busy"
    /\ ap' = [ap EXCEPT !.img = tbuf.rxPub]
    /\ UNCHANGED <<fifo, pcp, ssdoProdStatus, tbuf, syncTask, ghosts>>

(* A faulty form: the number of the frame is not remembered. *)
receiveFrameForgets(a) ==
    IF a.img.seqNr \in SeqNr THEN [a EXCEPT !.incoming = TRUE] ELSE a

(* ssdo_receiveFrame: a new number is a new frame. *)
receiveFrame(a) ==
    IF a.img.seqNr \in SeqNr /\ a.img.seqNr # a.currRxSeqNr
    THEN [a EXCEPT !.incoming = TRUE, !.currRxSeqNr = a.img.seqNr]
    ELSE a

freeRxChannel(a) == [a EXCEPT !.rxStatus = a.currRxSeqNr, !.incoming = FALSE]

(* What the handler of received frames in shnf.c may come to: the frame is *)
(* ignored while the SN initializes, or the stack answers SSC_k_OK,        *)
(* SSC_k_BUSY or something else.                                           *)
Answers == {"ignored", "ok", "busy", "failed"}

(* A faulty form: the channel is freed as soon as the stack is busy with   *)
(* the frame.                                                              *)
handleRxFrameFreesEarly(a, answer) ==
    IF a.incoming /\ answer \in {"busy", "failed"}
    THEN [freeRxChannel(a) EXCEPT !.busy = (answer = "busy")] ELSE a

(* ssdo_handleRxFrame and the handler in shnf.c.  The channel is freed for *)
(* an answer that is neither OK nor busy; a frame the stack is busy with,  *)
(* one it answered with OK and one that was ignored stay incoming.         *)
handleRxFrame(a, answer) ==
    CASE a.incoming /\ answer = "busy"   -> [a EXCEPT !.busy = TRUE]
      [] a.incoming /\ answer = "failed" -> freeRxChannel(a)
      [] OTHER                           -> a

(* The stack works on the frame until it answers OK. *)
continueRxFrame(a, answer) ==
    IF answer = "ok" THEN [freeRxChannel(a) EXCEPT !.busy = FALSE] ELSE a

(* shnf_process in the cycle of its task, with the answer of the stack to  *)
(* the frame it is busy with, or to the incoming frame.                    *)
shnf_process(a, answer) ==
    IF a.busy
    THEN /\ ap' = continueRxFrame(a, answer)
         /\ finished' = IF answer = "ok" THEN finished \cup {Last(handed)} ELSE finished
         /\ UNCHANGED <<handed, kept>>
    ELSE LET passed == a.incoming /\ answer # "ignored"
         IN  /\ passed /\ answer = "ok" => Cardinality(kept) < MaxKept
             /\ ap' = handleRxFrame(a, answer)
             /\ handed' = IF passed THEN Append(handed, a.img.payl) ELSE handed
             /\ kept' = IF passed /\ answer = "ok" THEN kept \cup {Len(handed')} ELSE kept
             /\ finished' = IF passed /\ answer = "failed"
                            THEN finished \cup {a.img.payl} ELSE finished

(* The interrupt of the finished transfer: the last byte has acknowledged  *)
(* the producing buffers; the post actions refresh the status image for    *)
(* the next transfer and look for a new frame; then the task of the cycle. *)
TransferFinished(answer) ==
    LET a == [receiveFrame(ap) EXCEPT !.statusImg = ap.rxStatus]
    IN  /\ dma = "busy"
        /\ dma' = "idle"
        /\ tbuf' = [tbuf EXCEPT !.statusPub = ap.statusImg]
        /\ syncTask' = CASE syncTask = "Shnf" -> "Sapl"
                         [] syncTask = "Sapl" -> "State"
                         [] syncTask = "State" -> "Shnf"
        /\ IF syncTask = "Shnf" THEN shnf_process(a, answer)
                                ELSE ap' = a /\ UNCHANGED <<handed, kept, finished>>
        /\ UNCHANGED <<fifo, pcp, ssdoProdStatus, accepted, forwarded, timedOut>>

-----------------------------------------------------------------------------
Next ==
    \/ obdAccessCb \/ processReceiveSm \/ processTimer \/ SyncCb
    \/ SyncIr
    \/ \E answer \in Answers : TransferFinished(answer)

Spec == Init /\ [][Next]_vars

-----------------------------------------------------------------------------
Frames == 1..accepted
Forwarded == {forwarded[i] : i \in DOMAIN forwarded}
Handed == {handed[i] : i \in DOMAIN handed}
ImageType == [seqNr : SeqNr \cup {"Invalid"}, payl : 0..accepted]

TypeOK ==
    /\ fifo \in Seq(Frames)
    /\ pcp \in [currProdSeq : SeqNr,
                timer : [en : BOOLEAN, count : 0..(TimeoutLimit + 1)],
                step : {"idle", "timer"}]
    /\ ssdoProdStatus \in SeqNr
    /\ tbuf \in [rxPub : ImageType, statusPub : SeqNr]
    /\ dma \in {"idle", "busy"}
    /\ ap \in [img : ImageType, currRxSeqNr : SeqNr \cup {"Invalid"}, incoming : BOOLEAN,
               rxStatus : SeqNr, statusImg : SeqNr, busy : BOOLEAN]
    /\ syncTask \in {"Shnf", "Sapl", "State"}
    /\ accepted \in 0..MaxFrames
    /\ forwarded \in Seq(Frames) /\ handed \in Seq(Frames)
    /\ kept \subseteq DOMAIN handed /\ finished \subseteq Frames
    /\ timedOut \in BOOLEAN

(* The stack gets no frame after a later one, and none a second time       *)
(* unless it answered OK when it got it before, even when timeouts have    *)
(* put the sequence numbers of both sides out of step.                     *)
HandedInOrder ==
    \A i, j \in DOMAIN handed :
        i < j => handed[i] < handed[j] \/ (handed[i] = handed[j] /\ i \in kept)

(* Until a timeout, the stack gets only frames that were forwarded, and    *)
(* each of them before the next one is forwarded.                          *)
ForwardedReachStack ==
    ~timedOut => /\ Handed \subseteq Forwarded
                 /\ \A i \in 1..(Len(forwarded) - 1) : forwarded[i] \in Handed

(* Until a timeout, the receive buffer keeps the frame the stack works on. *)
FrameStableWhileBusy ==
    ~timedOut => (ap.busy => ap.img.payl = Last(handed))

(* Until a timeout, a free channel means that every frame forwarded before *)
(* has been finished by the stack.                                         *)
FreeMeansFinished == ~timedOut => (ChannelFree => Forwarded \subseteq finished)

-----------------------------------------------------------------------------
(* The channel as StopAndWait has it: a frame is finished when the AP has  *)
(* set the flag of its number, the channel free when the PCP sees it.      *)
(* Taken is a frame the stack is busy with; one it answered with OK is     *)
(* still posted.                                                           *)
ChannelPhase ==
    IF timedOut THEN "broken"
    ELSE IF ChannelFree THEN "free"
    ELSE IF ap.rxStatus = pcp.currProdSeq THEN "done"
    ELSE IF ap.busy THEN "taken" ELSE "posted"

Channel == INSTANCE StopAndWait WITH
    Again <- TRUE,
    phase <- ChannelPhase,
    message <- IF ChannelFree THEN 0 ELSE Last(forwarded),
    taken <- handed

(* The FIFO, the sequence number, the copies of the acknowledge and the    *)
(* busy stack implement a channel that hands over every forwarded frame    *)
(* until the stack is busy with it or refuses it, and is free again only   *)
(* after the stack has finished it.                                        *)
(* (rssdo.c 478-641, ssdo.c 314-470)                                       *)
ImplementsStopAndWait == Channel!Spec
=============================================================================
