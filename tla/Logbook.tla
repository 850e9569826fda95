------------------------------- MODULE Logbook -------------------------------
(***************************************************************************)
(* The logbook channel: from the error handler of the application          *)
(* processor (AP) through a triple buffer to the logger of the network.    *)
(* Sources: errorhandler.c, shnf/hnfpsi.c and libs/psi/logbook.c on the    *)
(* AP, pcp/psi/logbook.c and status.c on the PCP.                          *)
(*                                                                         *)
(* Errors are posted by the background loop and by the interrupts, and     *)
(* nothing guards the buffer but its lock flag, which is set after the     *)
(* entry has been written.  An entry is its number in the order of the     *)
(* calls of errh_postError; its fields are written, and sent, in two       *)
(* halves a (level, source) and b (code, additional information).  The     *)
(* node has left Initializing: before, nothing is posted.  Posts come from *)
(* any interrupt, that of the serial line of a redundant node included, so *)
(* that they may come at any moment of an SPI transfer.                    *)
(***************************************************************************)
EXTENDS Integers, Sequences

CONSTANTS TimeoutLimit,  \* LOG_TX_TIMEOUT_CYCLE_COUNT
          ArpLimit,      \* LOG_ARP_TIMEOUT_CYCLE_COUNT
          MaxEntries,    \* bound: calls of errh_postError in one behaviour
          MaxArp         \* bound: ARP retries in one behaviour

ASSUME LimitAssumption ==
    TimeoutLimit \in Nat /\ ArpLimit \in Nat /\ MaxEntries \in Nat /\ MaxArp \in Nat

VARIABLES
    ap,             \* eLogInstance of the AP with the image of its buffer
    loop,           \* the background loop: where in errh_postError, which entry
    apUp,           \* FALSE once a fatal error has shut the node down
    logTxStatus,    \* AP copy of the acknowledge flag
    dma, wire,      \* progress of the SPI transfer, what it has carried so far
    tbuf,           \* the triple buffers: published and consumer images
    pcp,            \* eLogInstance of the PCP and the flag in its status.c
    pcpUp,          \* FALSE when the background loop of the PCP has ended
    calls,          \* number of calls of errh_postError that have begun
    lost,           \* the calls counted in lostErrors_l
    overlapped,     \* history: an interrupt has posted inside a post of the loop
    timedOut,       \* history: the timeout has freed the channel
    taken, sent     \* history: images taken by the PCP; entries it has sent

apVars == <<ap, loop, apUp, logTxStatus>>
busVars == <<dma, wire>>
ghosts == <<calls, lost, overlapped, timedOut>>
vars == <<apVars, busVars, tbuf, pcp, pcpUp, ghosts, taken, sent>>

SeqNr == {"First", "Second"}
log_changeLocalSeqNr(s) == IF s = "First" THEN "Second" ELSE "First"
Blank == [seqNr |-> "Invalid", a |-> 0, b |-> 0]

(* timeout.c; counting stops one above the limit, as the counter is read   *)
(* nowhere but in the comparison.                                          *)
Stopped == [en |-> FALSE, count |-> 0]
Started == [en |-> TRUE, count |-> 0]

incrementCounter(t, limit) ==
    IF t.en /\ t.count <= limit THEN [t EXCEPT !.count = @ + 1] ELSE t
Expired(t, limit) == t.en /\ t.count > limit

Init ==
    /\ ap = [img |-> Blank, currTxSeqNr |-> "Second", isLocked |-> FALSE, timer |-> Stopped]
    /\ loop = [pc |-> "idle", id |-> 0]
    /\ apUp = TRUE
    /\ logTxStatus = "First"
    /\ dma = "idle"
    /\ wire = [seqNr |-> "Invalid", a |-> 0, status |-> "First"]
    /\ tbuf = [txPub |-> Blank, txCon |-> Blank, statusPub |-> "First"]
    /\ pcp = [state |-> "WaitForFrame", currConsSeq |-> "Invalid", consStatus |-> "First",
              arpTimer |-> Stopped, reported |-> FALSE, entryCount |-> 0,
              burLogEntry |-> [number |-> 0, a |-> 0, b |-> 0]]
    /\ pcpUp = TRUE
    /\ calls = 0 /\ lost = {}
    /\ overlapped = FALSE /\ timedOut = FALSE
    /\ taken = <<>> /\ sent = <<>>

-----------------------------------------------------------------------------
(* The AP. *)

(* errh_postError is called.  An entry that finds the buffer locked is     *)
(* counted as lost.                                                        *)
Call ==
    /\ apUp /\ calls < MaxEntries
    /\ calls' = calls + 1

Lose(id) ==
    /\ lost' = lost \cup {id}
    /\ UNCHANGED <<ap, overlapped>>

(* hnf_postLogChannel0 in an interrupt: no one sees it half done. *)
postLogChannel0(a, id) ==
    [a EXCEPT !.img = [seqNr |-> a.currTxSeqNr, a |-> id, b |-> id],
              !.isLocked = TRUE, !.timer = Started]

InterruptPosts ==
    /\ Call
    /\ \/ ap.isLocked /\ Lose(calls')
       \/ /\ ~ap.isLocked
          /\ ap' = postLogChannel0(ap, calls')
          /\ overlapped' = (overlapped \/ loop.pc # "idle")
          /\ UNCHANGED lost
    /\ UNCHANGED <<loop, apUp, logTxStatus, busVars, tbuf, pcp, pcpUp, timedOut, taken, sent>>

LoopOnly == UNCHANGED <<apUp, logTxStatus, busVars, tbuf, pcp, pcpUp, timedOut, taken, sent>>

(* Faulty forms: the number is set before the fields are written; the      *)
(* lock is only looked at when they are.                                   *)
getCurrentLogBufferNumbers ==
    /\ loop.pc = "idle" /\ Call
    /\ ~ap.isLocked
    /\ ap' = [ap EXCEPT !.img.seqNr = ap.currTxSeqNr]
    /\ loop' = [pc |-> "got", id |-> calls']
    /\ UNCHANGED <<lost, overlapped>>
    /\ LoopOnly

getCurrentLogBufferUnchecked ==
    /\ loop.pc = "idle" /\ Call
    /\ loop' = [pc |-> "got", id |-> calls']
    /\ UNCHANGED <<ap, lost, overlapped>>
    /\ LoopOnly

(* The same call in the background loop, preempted anywhere. *)
getCurrentLogBuffer ==
    /\ loop.pc = "idle" /\ Call
    /\ \/ ap.isLocked /\ Lose(calls') /\ UNCHANGED loop
       \/ /\ ~ap.isLocked
          /\ loop' = [pc |-> "got", id |-> calls']
          /\ UNCHANGED <<ap, lost, overlapped>>
    /\ LoopOnly

reformatErrorMessage ==
    /\ apUp
    /\ \/ /\ loop.pc = "got"
          /\ ap' = [ap EXCEPT !.img.a = loop.id]
          /\ loop' = [loop EXCEPT !.pc = "half"]
       \/ /\ loop.pc = "half"
          /\ ap' = [ap EXCEPT !.img.b = loop.id]
          /\ loop' = [loop EXCEPT !.pc = "written"]
    /\ UNCHANGED <<calls, lost, overlapped>>
    /\ LoopOnly

postLogEntry ==
    /\ apUp /\ loop.pc = "written"
    /\ IF ap.isLocked
       THEN /\ Lose(loop.id)
            /\ loop' = [pc |-> "idle", id |-> 0]
       ELSE /\ ap' = [ap EXCEPT !.img.seqNr = ap.currTxSeqNr]
            /\ loop' = [loop EXCEPT !.pc = "numbered"]
            /\ UNCHANGED <<lost, overlapped>>
    /\ UNCHANGED calls
    /\ LoopOnly

lockBuffer ==
    /\ apUp /\ loop.pc = "numbered"
    /\ ap' = [ap EXCEPT !.isLocked = TRUE, !.timer = Started]
    /\ loop' = [pc |-> "idle", id |-> 0]
    /\ UNCHANGED <<calls, lost, overlapped>>
    /\ LoopOnly

(* One of the calls was a fatal error and the loop sees the shutdown flag: *)
(* sync interrupt and SPI are switched off, an entry that was posted just  *)
(* before stays where it is.                                               *)
Shutdown ==
    /\ apUp /\ calls > 0 /\ loop.pc = "idle"
    /\ apUp' = FALSE
    /\ UNCHANGED <<ap, loop, logTxStatus, busVars, tbuf, pcp, pcpUp, ghosts, taken, sent>>

(* The sync interrupt starts the SPI transfer: the status image is         *)
(* acknowledged and the number, the first byte, is read.                   *)
SyncIr ==
    /\ apUp /\ pcpUp /\ dma = "idle"
    /\ dma' = "number"
    /\ wire' = [wire EXCEPT !.status = tbuf.statusPub, !.seqNr = ap.img.seqNr]
    /\ UNCHANGED <<apVars, tbuf, pcp, pcpUp, ghosts, taken, sent>>

(* The fields follow, and the last byte publishes the image. *)
SendEntry ==
    /\ apUp
    /\ \/ /\ dma = "number"
          /\ dma' = "half"
          /\ wire' = [wire EXCEPT !.a = ap.img.a]
          /\ UNCHANGED tbuf
       \/ /\ dma = "half"
          /\ dma' = "finished"
          /\ tbuf' = [tbuf EXCEPT !.txPub =
                        [seqNr |-> wire.seqNr, a |-> wire.a, b |-> ap.img.b]]
          /\ UNCHANGED wire
    /\ UNCHANGED <<apVars, pcp, pcpUp, ghosts, taken, sent>>

(* A faulty form: the number is left alone when the channel is freed. *)
log_handleTxFrameNoToggle(a, flag) ==
    IF a.isLocked /\ (flag = a.currTxSeqNr \/ Expired(a.timer, TimeoutLimit))
    THEN [a EXCEPT !.isLocked = FALSE, !.timer = Stopped]
    ELSE a

log_handleTxFrame(a, flag) ==
    IF a.isLocked /\ (flag = a.currTxSeqNr \/ Expired(a.timer, TimeoutLimit))
    THEN [a EXCEPT !.isLocked = FALSE, !.timer = Stopped,
                   !.currTxSeqNr = log_changeLocalSeqNr(@)]
    ELSE a

(* The interrupt of the finished SPI transfer: the post actions, and in    *)
(* the cycle of the shnf task, unless the stack is busy, log_process.      *)
TransferFinished(process) ==
    /\ apUp /\ dma = "finished"
    /\ dma' = "idle"
    /\ logTxStatus' = wire.status
    /\ LET a == [ap EXCEPT !.timer = incrementCounter(@, TimeoutLimit)]
           b == log_handleTxFrame(a, logTxStatus')
       IN  /\ ap' = IF process THEN b ELSE a
           /\ timedOut' = (timedOut \/ (process /\ b # a /\ logTxStatus' # a.currTxSeqNr))
    /\ UNCHANGED <<loop, apUp, wire, tbuf, pcp, pcpUp, calls, lost,
                   overlapped, taken, sent>>

-----------------------------------------------------------------------------
(* The PCP. *)

Incoming == tbuf.txPub.seqNr

(* A faulty form: the consumer image is renewed while an entry is in work. *)
log_handleIncomingAlways(p) ==
    /\ tbuf' = [tbuf EXCEPT !.statusPub = p.consStatus, !.txCon = tbuf.txPub]
    /\ IF p.state = "WaitForFrame" /\ Incoming \in SeqNr /\ Incoming # p.currConsSeq
       THEN /\ pcp' = [p EXCEPT !.state = "ProcessFrame", !.currConsSeq = Incoming]
            /\ taken' = Append(taken, tbuf.txPub)
       ELSE pcp' = p /\ UNCHANGED taken

(* log_handleIncoming after the status was published. *)
log_handleIncoming(p) ==
    IF p.state = "WaitForFrame"
    THEN /\ tbuf' = [tbuf EXCEPT !.statusPub = p.consStatus, !.txCon = tbuf.txPub]
         /\ IF Incoming \in SeqNr /\ Incoming # p.currConsSeq
            THEN /\ pcp' = [p EXCEPT !.state = "ProcessFrame", !.currConsSeq = Incoming]
                 /\ taken' = Append(taken, tbuf.txPub)
            ELSE pcp' = p /\ UNCHANGED taken
    ELSE /\ tbuf' = [tbuf EXCEPT !.statusPub = p.consStatus]
         /\ pcp' = p
         /\ UNCHANGED taken

SyncCb ==
    /\ pcpUp
    /\ log_handleIncoming([pcp EXCEPT !.arpTimer = incrementCounter(@, ArpLimit)])
    /\ UNCHANGED <<apVars, busVars, pcpUp, ghosts, sent>>

Background == UNCHANGED <<apVars, busVars, tbuf, ghosts, taken>>

reformatLogEntry(p) ==
    [p EXCEPT !.entryCount = @ + 1,
              !.burLogEntry = [number |-> p.entryCount + 1,
                               a |-> tbuf.txCon.a, b |-> tbuf.txCon.b]]

(* processTransmitSm comes to sendToDestTarget with a new entry, whose     *)
(* target is configured, or with the one that found the handle busy.       *)
Prepared == IF pcp.state = "ProcessFrame" THEN reformatLogEntry(pcp) ELSE pcp
Sending ==
    /\ pcpUp /\ ~pcp.reported
    /\ pcp.state \in {"ProcessFrame", "RetransmitCurrentMessage"}

TransmitDeferred ==
    /\ Sending
    /\ pcp' = [Prepared EXCEPT !.state = "WaitForTxFinished"]
    /\ sent' = Append(sent, Prepared.burLogEntry)
    /\ UNCHANGED pcpUp /\ Background

TransmitNeedsArp ==
    /\ Sending /\ Prepared.entryCount < Len(taken) + MaxArp
    /\ pcp' = [Prepared EXCEPT !.state = "WaitForNextArpRetry", !.arpTimer = Started]
    /\ UNCHANGED <<pcpUp, sent>> /\ Background

TransmitBusy ==
    /\ Sending /\ pcp.state = "ProcessFrame"
    /\ pcp' = [Prepared EXCEPT !.state = "RetransmitCurrentMessage"]
    /\ UNCHANGED <<pcpUp, sent>> /\ Background

(* The target cannot be read or the SDO layer fails: the loop ends. *)
TransmitFails ==
    /\ Sending
    /\ pcpUp' = FALSE
    /\ UNCHANGED <<pcp, sent>> /\ Background

ArpRetry ==
    /\ pcpUp /\ pcp.state = "WaitForNextArpRetry"
    /\ Expired(pcp.arpTimer, ArpLimit)
    /\ pcp' = [pcp EXCEPT !.state = "ProcessFrame", !.arpTimer = Stopped]
    /\ UNCHANGED <<pcpUp, sent>> /\ Background

(* log_consTxTransferFinished, at once or when the SDO client reports the  *)
(* end: first the flag, then the state; the sync interrupt may come        *)
(* between.                                                                *)
SetConsChanFlag ==
    /\ \/ /\ Sending
          /\ pcp' = [Prepared EXCEPT !.consStatus = pcp.currConsSeq, !.reported = TRUE]
          /\ sent' = Append(sent, Prepared.burLogEntry)
       \/ /\ pcpUp /\ pcp.state = "WaitForTxFinished" /\ ~pcp.reported
          /\ pcp' = [pcp EXCEPT !.consStatus = pcp.currConsSeq, !.reported = TRUE]
          /\ UNCHANGED sent
    /\ UNCHANGED pcpUp /\ Background

TransferFinishedState ==
    /\ pcpUp /\ pcp.reported
    /\ pcp' = [pcp EXCEPT !.state = "WaitForFrame", !.reported = FALSE]
    /\ UNCHANGED <<pcpUp, sent>> /\ Background

-----------------------------------------------------------------------------
ApNext == InterruptPosts \/ getCurrentLogBuffer \/ reformatErrorMessage \/ postLogEntry
              \/ lockBuffer \/ Shutdown \/ SyncIr \/ SendEntry
              \/ \E process \in BOOLEAN : TransferFinished(process)
PcpNext == SyncCb \/ TransmitDeferred \/ TransmitNeedsArp \/ TransmitBusy
               \/ TransmitFails \/ ArpRetry \/ SetConsChanFlag \/ TransferFinishedState
Next == ApNext \/ PcpNext

Spec == Init /\ [][Next]_vars

-----------------------------------------------------------------------------
Timer(limit) == [en : BOOLEAN, count : 0..(limit + 1)]
Entry == 1..calls
Field == 0..calls
ImageType == [seqNr : SeqNr \cup {"Invalid"}, a : Field, b : Field]

TypeOK ==
    /\ ap \in [img : ImageType, currTxSeqNr : SeqNr, isLocked : BOOLEAN,
               timer : Timer(TimeoutLimit)]
    /\ loop \in [pc : {"idle", "got", "half", "written", "numbered"}, id : Field]
    /\ {apUp, pcpUp, overlapped, timedOut} \subseteq BOOLEAN
    /\ logTxStatus \in SeqNr
    /\ dma \in {"idle", "number", "half", "finished"}
    /\ wire \in [seqNr : SeqNr \cup {"Invalid"}, a : Field, status : SeqNr]
    /\ tbuf \in [txPub : ImageType, txCon : ImageType, statusPub : SeqNr]
    /\ pcp \in [state : {"WaitForFrame", "ProcessFrame", "WaitForTxFinished",
                         "WaitForNextArpRetry", "RetransmitCurrentMessage"},
                currConsSeq : SeqNr \cup {"Invalid"}, consStatus : SeqNr,
                arpTimer : Timer(ArpLimit), reported : BOOLEAN, entryCount : Nat,
                burLogEntry : [number : Nat, a : Field, b : Field]]
    /\ calls \in 0..MaxEntries
    /\ lost \subseteq Entry
    /\ taken \in Seq(ImageType)
    /\ sent \in Seq([number : Nat, a : Field, b : Field])

(* As long as no interrupt posts inside a post of the loop, an entry       *)
(* counted in lostErrors_l leaves no trace in the log; and until a timeout *)
(* frees the channel the PCP takes every entry whole, at most once and in  *)
(* the order of the calls: though the loop fills the image field by field  *)
(* while the transfer reads it, the number is set last and sent first.     *)
TakenWhole ==
    ~overlapped => \A i \in 1..Len(taken) :
        /\ {taken[i].a, taken[i].b} \cap lost = {}
        /\ ~timedOut => /\ taken[i].a = taken[i].b
                        /\ \A j \in 1..(i - 1) : taken[j].a < taken[i].a

(* Whatever overlaps and times out: no image is taken with a blank field,  *)
(* whose level 0 would end the PCP's loop with kPsiLogEntryReformatFailed. *)
NeverBlank == \A i \in 1..Len(taken) : taken[i].a # 0 /\ taken[i].b # 0

(* The network gets what was taken, once and in order, over ARP retries    *)
(* and busy handles, and the entry numbers only grow.                      *)
SentAsTaken ==
    /\ Len(sent) <= Len(taken)
    /\ \A i \in 1..Len(sent) :
          /\ sent[i].a = taken[i].a /\ sent[i].b = taken[i].b
          /\ \A j \in 1..(i - 1) : sent[j].number < sent[i].number

(* An entry that errh_postError reported as posted is not given up before  *)
(* the PCP has it, unless a timeout frees the channel or an interrupt      *)
(* posts inside a post of the loop, when two posts share one buffer.       *)
accepted == Entry \ (lost \cup {loop.id})
AcceptedIsTaken ==
    ~overlapped /\ ~timedOut =>
        \A id \in accepted : \/ ap.isLocked /\ ap.img.a = id
                             \/ \E i \in 1..Len(taken) : taken[i].a = id

-----------------------------------------------------------------------------
(* The channel as StopAndWait has it, as long as no interrupt posts inside *)
(* a post of the loop: an entry is in the channel once the image has its   *)
(* number; a torn entry would be taken as 0.                               *)
Offered == ap.isLocked \/ loop.pc = "numbered"

ChannelPhase ==
    IF timedOut \/ overlapped THEN "broken"
    ELSE IF ~Offered THEN "free"
    ELSE IF pcp.currConsSeq # ap.img.seqNr THEN "posted"
    ELSE IF pcp.consStatus # ap.currTxSeqNr THEN "taken" ELSE "done"

Channel == INSTANCE StopAndWait WITH
    Again <- FALSE,
    phase <- ChannelPhase,
    message <- IF Offered THEN ap.img.a ELSE 0,
    taken <- [i \in 1..Len(taken) |-> IF taken[i].a = taken[i].b THEN taken[i].a ELSE 0]

(* The buffer that is filled while the transfer reads it, the sequence     *)
(* number and the copies of the acknowledge implement a channel that hands *)
(* over every entry whole and once, and is free again only after the entry *)
(* was sent or given up.  (errorhandler.c 227-254, AP logbook.c, PCP       *)
(* logbook.c)                                                              *)
ImplementsStopAndWait == Channel!Spec
=============================================================================
