---------------------------- MODULE SsdoRxProofs ----------------------------
(***************************************************************************)
(* The SSDO receive channel for every length of the timeout: the order in  *)
(* which frames reach the stack, which no timeout disturbs, what the       *)
(* channel guarantees as long as none has occurred, and the channel as a   *)
(* StopAndWait.                                                            *)
(***************************************************************************)
EXTENDS SsdoRx, SequenceTheorems, TLAPS

(* The order of the frames on their way: those in the FIFO come after the  *)
(* published one, which comes after, or is, the one in the image of the    *)
(* AP.  A frame that was handed over is not incoming any more, or the one  *)
(* the stack is busy with, or the stack has answered OK each time.         *)
FifoOrder ==
    /\ \A i, j \in DOMAIN fifo : i < j => fifo[i] < fifo[j]
    /\ \A i \in DOMAIN fifo : tbuf.rxPub.payl < fifo[i]
    /\ tbuf.rxPub.seqNr = "Invalid" <=> tbuf.rxPub.payl = 0

ImageOrder ==
    /\ ap.img.seqNr = "Invalid" <=> ap.img.payl = 0
    /\ ap.img.payl <= tbuf.rxPub.payl
    /\ ap.img.payl = tbuf.rxPub.payl => ap.img = tbuf.rxPub

HandedOrder ==
    /\ ap.incoming => ap.img.payl # 0
    /\ ap.incoming \/ ap.busy => ap.currRxSeqNr \in SeqNr
    /\ ap.busy => handed # <<>>
    /\ \A i \in DOMAIN handed :
           /\ handed[i] <= ap.img.payl
           /\ handed[i] = ap.img.payl =>
                 ap.currRxSeqNr = ap.img.seqNr /\ (ap.incoming => ap.busy \/ i \in kept)
    /\ HandedInOrder

OrderInv == FifoOrder /\ ImageOrder /\ HandedOrder

(* The AP has acknowledged the frame with the number of the PCP. *)
Done == ap.rxStatus = pcp.currProdSeq

(* The acknowledge passes through these copies one after the other. *)
StatusChain ==
    /\ ssdoProdStatus = pcp.currProdSeq => tbuf.statusPub = pcp.currProdSeq
    /\ tbuf.statusPub = pcp.currProdSeq => ap.statusImg = pcp.currProdSeq
    /\ ap.statusImg = pcp.currProdSeq => Done

Published ==
    IF forwarded = <<>>
    THEN Done /\ tbuf.rxPub = EmptyImage
    ELSE tbuf.rxPub = [seqNr |-> pcp.currProdSeq, payl |-> Last(forwarded)]

(* The stack got nothing but what was forwarded, and all but the last.     *)
Reached ==
    /\ \A j \in DOMAIN handed : handed[j] \in Forwarded
    /\ \A i \in 1..(Len(forwarded) - 1) : forwarded[i] \in Handed

(* Nothing is under way. *)
DoneSound ==
    Done => /\ ~ap.incoming /\ ~ap.busy
            /\ ap.img = tbuf.rxPub /\ ap.currRxSeqNr = ap.img.seqNr
            /\ \A i \in DOMAIN forwarded : forwarded[i] \in finished
            /\ \A i \in DOMAIN forwarded : forwarded[i] \in Handed

(* The last frame is under way: the AP has not seen it, the stack has not  *)
(* taken it, or the stack works on it.                                     *)
UnderwaySound ==
    ~Done =>
       /\ \A i \in 1..(Len(forwarded) - 1) : forwarded[i] \in finished
       /\ ap.currRxSeqNr # pcp.currProdSeq =>
             /\ ~ap.incoming /\ ~ap.busy
             /\ IF ap.img.seqNr = pcp.currProdSeq THEN ap.img = tbuf.rxPub
                                                  ELSE ap.img.seqNr = ap.currRxSeqNr
       /\ ap.currRxSeqNr = pcp.currProdSeq =>
             /\ ap.incoming
             /\ ap.img = tbuf.rxPub
             /\ ap.busy => Last(handed) = Last(forwarded)

(* Until a timeout the channel is an alternating bit. *)
ChannelInv == ~timedOut => StatusChain /\ Published /\ Reached /\ DoneSound /\ UnderwaySound

-----------------------------------------------------------------------------
LEMMA OtherSeqNr ==
    /\ \A s \in SeqNr : changeLocalSeqNr(s) \in SeqNr /\ changeLocalSeqNr(s) # s
    /\ "Invalid" \notin SeqNr
BY DEF changeLocalSeqNr, SeqNr

(* What Append does to the last element and to those before it. *)
LEMMA AppendLast ==
    ASSUME NEW S, NEW q \in Seq(S), NEW x \in S
    PROVE  /\ Append(q, x) \in Seq(S) /\ Append(q, x) # <<>>
           /\ Len(Append(q, x)) = Len(q) + 1
           /\ \A i \in DOMAIN q : Append(q, x)[i] = q[i]
           /\ DOMAIN Append(q, x) = 1..(Len(q) + 1)
           /\ Last(Append(q, x)) = x
           /\ Front(Append(q, x)) = q
<1>1. Append(q, x) \in Seq(S) /\ Len(Append(q, x)) = Len(q) + 1
      /\ DOMAIN Append(q, x) = 1..(Len(q) + 1)
      /\ (\A i \in 1..Len(q) : Append(q, x)[i] = q[i]) /\ Append(q, x)[Len(q) + 1] = x
    BY AppendProperties, LenProperties
<1>2. Append(q, x) # <<>>
    BY AppendProperties
<1>3. Last(Append(q, x)) = x
    BY <1>1 DEF Last
<1>4. Front(Append(q, x)) = q
    <2>1. Front(Append(q, x)) = SubSeq(Append(q, x), 1, Len(q))
        BY <1>1, LenProperties, SMT DEF Front
    <2> QED BY <2>1, AppendIsConcat, SubSeqOfConcat1, SubSeqFull, <1>1, LenProperties, SMT
<1> QED BY <1>1, <1>2, <1>3, <1>4, LenProperties

LEMMA TimerType ==
    ASSUME NEW t \in [en : BOOLEAN, count : 0..(TimeoutLimit + 1)]
    PROVE  /\ incrementCounter(t) \in [en : BOOLEAN, count : 0..(TimeoutLimit + 1)]
           /\ Started \in [en : BOOLEAN, count : 0..(TimeoutLimit + 1)]
           /\ Stopped \in [en : BOOLEAN, count : 0..(TimeoutLimit + 1)]
BY LimitAssumption DEF incrementCounter, Started, Stopped

(* What one transfer does to the receive half of the AP. *)
Received == receiveFrame(ap)

LEMMA ReceivedType ==
    ASSUME TypeOK
    PROVE  /\ Received.img = ap.img /\ Received.rxStatus = ap.rxStatus
           /\ Received.busy = ap.busy
           /\ Received.incoming = (ap.incoming \/ (ap.img.seqNr \in SeqNr /\ ap.img.seqNr # ap.currRxSeqNr))
           /\ Received.currRxSeqNr = IF ap.img.seqNr \in SeqNr THEN ap.img.seqNr ELSE ap.currRxSeqNr
BY DEF TypeOK, Received, receiveFrame
PcpType == [currProdSeq : SeqNr,
            timer : [en : BOOLEAN, count : 0..(TimeoutLimit + 1)],
            step : {"idle", "timer"}]
ApType == [img : ImageType, currRxSeqNr : SeqNr \cup {"Invalid"}, incoming : BOOLEAN,
           rxStatus : SeqNr, statusImg : SeqNr, busy : BOOLEAN]

LEMMA LastType ==
    ASSUME NEW S, NEW q \in Seq(S), q # <<>>
    PROVE  Last(q) \in S /\ Len(q) \in 1..Len(q) /\ Last(q) = q[Len(q)]
<1>1. Len(q) \in Nat /\ Len(q) # 0
    BY EmptySeq, LenProperties
<1> QED BY <1>1, ElementOfSeq, SMT DEF Last

LEMMA InitType == Init => TypeOK
<1> SUFFICES ASSUME Init PROVE TypeOK
    OBVIOUS
<1>1. EmptyImage \in ImageType /\ accepted \in 0..MaxFrames
    BY LimitAssumption DEF Init, EmptyImage, ImageType
<1>2. pcp \in PcpType
    BY LimitAssumption DEF Init, PcpType, Stopped, SeqNr
<1>3. ap \in ApType
    BY <1>1 DEF Init, ApType, SeqNr
<1>4. tbuf \in [rxPub : ImageType, statusPub : SeqNr]
    BY <1>1 DEF Init, SeqNr
<1>5. fifo \in Seq(Frames) /\ forwarded \in Seq(Frames) /\ handed \in Seq(Frames)
    BY EmptySeq DEF Init
<1>6. kept = {} /\ kept \subseteq DOMAIN handed
    BY DEF Init
<1> QED BY <1>1, <1>2, <1>3, <1>4, <1>5, <1>6 DEF Init, TypeOK, PcpType, ApType, SeqNr

(* The five ends of a transfer: nothing happens to the frame, the stack    *)
(* finishes the one it is busy with, or it gets the incoming one and takes *)
(* it, answers OK or answers with an error.                                *)
Untouched ==
    /\ ap'.incoming = Received.incoming /\ ap'.busy = ap.busy
    /\ ap'.rxStatus = ap.rxStatus
    /\ handed' = handed /\ kept' = kept /\ finished' = finished
Finishes ==
    /\ ap.busy /\ ap'.incoming = FALSE /\ ap'.busy = FALSE
    /\ ap'.rxStatus = Received.currRxSeqNr
    /\ handed' = handed /\ kept' = kept /\ finished' = finished \cup {Last(handed)}
Passes ==
    /\ ~ap.busy /\ Received.incoming
    /\ handed' = Append(handed, ap.img.payl)
Takes ==
    /\ Passes /\ kept' = kept
    /\ ap'.incoming = TRUE /\ ap'.busy = TRUE /\ ap'.rxStatus = ap.rxStatus
    /\ finished' = finished
Keeps ==
    /\ Passes /\ kept' = kept \cup {Len(handed')}
    /\ ap'.incoming = TRUE /\ ap'.busy = FALSE /\ ap'.rxStatus = ap.rxStatus
    /\ finished' = finished
Fails ==
    /\ Passes /\ kept' = kept
    /\ ap'.incoming = FALSE /\ ap'.busy = FALSE
    /\ ap'.rxStatus = Received.currRxSeqNr
    /\ finished' = finished \cup {ap.img.payl}

LEMMA TransferCases ==
    ASSUME TypeOK, OrderInv, NEW answer \in Answers, TransferFinished(answer)
    PROVE  /\ UNCHANGED <<fifo, pcp, ssdoProdStatus, accepted, forwarded, timedOut>>
           /\ dma' = "idle" /\ syncTask' \in {"Shnf", "Sapl", "State"}
           /\ tbuf' = [tbuf EXCEPT !.statusPub = ap.statusImg]
           /\ ap' \in ApType
           /\ ap'.img = ap.img /\ ap'.statusImg = ap.rxStatus
           /\ ap'.currRxSeqNr = Received.currRxSeqNr
           /\ Untouched \/ Finishes \/ Takes \/ Keeps \/ Fails
<1> DEFINE a == [Received EXCEPT !.statusImg = ap.rxStatus]
<1>1. /\ UNCHANGED <<fifo, pcp, ssdoProdStatus, accepted, forwarded, timedOut>>
      /\ dma' = "idle"
      /\ tbuf' = [tbuf EXCEPT !.statusPub = ap.statusImg]
    BY DEF TransferFinished
<1>2. syncTask' \in {"Shnf", "Sapl", "State"}
    BY DEF TransferFinished, TypeOK
<1>3. \/ shnf_process(a, answer)
      \/ ap' = a /\ UNCHANGED <<handed, kept, finished>>
    BY DEF TransferFinished, Received
<1>4. /\ Received \in ApType
      /\ Received.busy \/ Received.incoming => Received.currRxSeqNr \in SeqNr
    BY DEF Received, receiveFrame, TypeOK, OrderInv, HandedOrder, ApType
<1>5. /\ a \in ApType
      /\ a.img = ap.img /\ a.statusImg = ap.rxStatus /\ a.rxStatus = ap.rxStatus
      /\ a.currRxSeqNr = Received.currRxSeqNr /\ a.incoming = Received.incoming
      /\ a.busy = ap.busy
    BY <1>4, ReceivedType DEF TypeOK, ApType
<1> HIDE DEF a
<1>6. CASE ap' = a /\ UNCHANGED <<handed, kept, finished>>
    BY <1>1, <1>2, <1>5, <1>6 DEF Untouched
<1>7. CASE shnf_process(a, answer) /\ ap.busy
    <2>1. CASE answer # "ok"
        BY <1>1, <1>2, <1>5, <1>7, <2>1 DEF Untouched, shnf_process, continueRxFrame
    <2>2. CASE answer = "ok"
        <3>1. /\ ap' = [freeRxChannel(a) EXCEPT !.busy = FALSE]
              /\ handed' = handed /\ kept' = kept /\ finished' = finished \cup {Last(handed)}
            BY <1>5, <1>7, <2>2 DEF shnf_process, continueRxFrame
        <3>2. /\ ap' \in ApType /\ ap'.img = a.img /\ ap'.statusImg = a.statusImg
              /\ ap'.currRxSeqNr = a.currRxSeqNr /\ ap'.rxStatus = a.currRxSeqNr
              /\ ap'.incoming = FALSE /\ ap'.busy = FALSE
            BY <3>1, <1>4, <1>5, <1>7, ReceivedType DEF freeRxChannel, ApType
        <3> QED BY <1>1, <1>2, <1>5, <1>7, <3>1, <3>2 DEF Finishes
    <2> QED BY <2>1, <2>2
<1>8. CASE shnf_process(a, answer) /\ ~ap.busy
    <2>0. ~a.busy /\ a.incoming \in BOOLEAN
        BY <1>5, <1>8 DEF ApType
    <2>1. CASE ~a.incoming \/ answer = "ignored"
        <3>1. ap' = a /\ UNCHANGED <<handed, kept, finished>>
            BY <1>8, <2>0, <2>1 DEF shnf_process, handleRxFrame
        <3> QED BY <1>6, <3>1
    <2>2. CASE a.incoming /\ answer = "busy"
        <3>1. /\ ap' = [a EXCEPT !.busy = TRUE]
              /\ handed' = Append(handed, a.img.payl) /\ kept' = kept /\ finished' = finished
            BY <1>8, <2>0, <2>2 DEF shnf_process, handleRxFrame
        <3>2. /\ ap' \in ApType /\ ap'.img = a.img /\ ap'.statusImg = a.statusImg
              /\ ap'.currRxSeqNr = a.currRxSeqNr /\ ap'.rxStatus = a.rxStatus
              /\ ap'.incoming = TRUE /\ ap'.busy = TRUE
            BY <3>1, <2>2, <1>5 DEF ApType
        <3> QED BY <1>1, <1>2, <1>5, <1>8, <2>2, <3>1, <3>2 DEF Takes, Passes
    <2>4. CASE a.incoming /\ answer = "ok"
        <3>1. /\ ap' = a /\ handed' = Append(handed, a.img.payl)
              /\ kept' = kept \cup {Len(handed')} /\ finished' = finished
            BY <1>8, <2>0, <2>4 DEF shnf_process, handleRxFrame
        <3> QED BY <1>1, <1>2, <1>5, <1>8, <2>0, <2>4, <3>1 DEF Keeps, Passes
    <2>3. CASE a.incoming /\ answer = "failed"
        <3>1. /\ ap' = freeRxChannel(a)
              /\ handed' = Append(handed, a.img.payl) /\ kept' = kept
              /\ finished' = finished \cup {a.img.payl}
            BY <1>8, <2>0, <2>3 DEF shnf_process, handleRxFrame
        <3>2. /\ ap' \in ApType /\ ap'.img = a.img /\ ap'.statusImg = a.statusImg
              /\ ap'.currRxSeqNr = a.currRxSeqNr /\ ap'.rxStatus = a.currRxSeqNr
              /\ ap'.incoming = FALSE /\ ap'.busy = FALSE
            BY <3>1, <1>4, <1>5, <2>0, <2>3 DEF freeRxChannel, ApType
        <3> QED BY <1>1, <1>2, <1>5, <1>8, <2>3, <3>1, <3>2 DEF Fails, Passes
    <2> QED BY <2>1, <2>2, <2>3, <2>4 DEF Answers
<1> QED BY <1>3, <1>6, <1>7, <1>8 DEF TypeOK

LEMMA StepType == TypeOK /\ OrderInv /\ [Next]_vars => TypeOK'
<1> SUFFICES ASSUME TypeOK, OrderInv, [Next]_vars PROVE TypeOK'
    OBVIOUS
<1>0. CASE UNCHANGED vars
    BY <1>0 DEF TypeOK, vars, apVars, ghosts, Frames, ImageType
<1>1. CASE obdAccessCb
    <2>1. /\ accepted' = accepted + 1 /\ accepted < MaxFrames
          /\ fifo' = Append(fifo, accepted')
          /\ pcp' = [pcp EXCEPT !.timer = Started]
          /\ UNCHANGED <<ssdoProdStatus, tbuf, dma, ap, syncTask, forwarded, handed, kept, finished, timedOut>>
        BY <1>1 DEF obdAccessCb, apVars
    <2>2. accepted' \in 0..MaxFrames /\ Frames \subseteq Frames' /\ accepted' \in Frames'
          /\ 0..accepted \subseteq 0..accepted'
        <3>1. accepted \in Nat /\ accepted' = accepted + 1 /\ MaxFrames \in Nat
              /\ accepted' <= MaxFrames
            <4>1. accepted \in 0..MaxFrames
                BY DEF TypeOK
            <4> QED BY <2>1, <4>1, LimitAssumption
        <3> QED BY <3>1 DEF Frames
    <2>3. Seq(Frames) \subseteq Seq(Frames')
        BY <2>2, SeqMonotonic
    <2>4. fifo' \in Seq(Frames')
        BY <2>1, <2>2, <2>3, AppendProperties DEF TypeOK
    <2>5. pcp' \in PcpType
        BY <2>1, TimerType DEF TypeOK, PcpType
    <2>6. ImageType \subseteq ImageType'
        BY <2>2 DEF ImageType
    <2>7. ap' \in ApType'
        BY <2>1, <2>6 DEF TypeOK, ApType
    <2>8. tbuf' \in [rxPub : ImageType', statusPub : SeqNr]
        BY <2>1, <2>6 DEF TypeOK
    <2>9. finished' \subseteq Frames'
        BY <2>1, <2>2 DEF TypeOK
    <2> QED BY <2>1, <2>2, <2>3, <2>4, <2>5, <2>7, <2>8, <2>9 DEF TypeOK, PcpType, ApType
<1>2. CASE processReceiveSm
    <2>1. UNCHANGED <<ssdoProdStatus, dma, ap, syncTask, accepted, handed, kept, finished, timedOut>>
        BY <1>2 DEF processReceiveSm, apVars
    <2>2. fifo' \in Seq(Frames)
        <3>1. fifo' = fifo \/ (fifo # <<>> /\ fifo' = Tail(fifo))
            BY <1>2 DEF processReceiveSm
        <3>2. fifo \in Seq(Frames)
            BY DEF TypeOK
        <3>3. CASE fifo # <<>> /\ fifo' = Tail(fifo)
            <4>1. Tail(fifo) \in Seq(Frames)
                BY <3>2, <3>3, HeadTailProperties
            <4> QED BY <3>3, <4>1
        <3> QED BY <3>1, <3>2, <3>3
    <2>3. CASE UNCHANGED <<tbuf, forwarded>> /\ pcp' = [pcp EXCEPT !.step = "timer"]
        BY <2>1, <2>2, <2>3 DEF TypeOK, Frames, ImageType
    <2>4. CASE fifo # <<>> /\ Forward(pcp, Head(fifo))
        <3>1. Head(fifo) \in Frames
            BY <2>4, HeadTailProperties DEF TypeOK
        <3>2. Head(fifo) \in 0..accepted
            BY <3>1 DEF Frames, TypeOK
        <3>3. changeLocalSeqNr(pcp.currProdSeq) \in SeqNr
            BY OtherSeqNr DEF TypeOK
        <3>4. tbuf' \in [rxPub : ImageType, statusPub : SeqNr]
            BY <2>4, <3>2, <3>3 DEF Forward, TypeOK, ImageType
        <3>5. pcp' \in PcpType
            BY <2>4, <3>3 DEF Forward, TypeOK, PcpType
        <3>6. forwarded' \in Seq(Frames)
            BY <2>4, <3>1, AppendProperties DEF Forward, TypeOK
        <3> QED BY <2>1, <2>2, <3>4, <3>5, <3>6 DEF TypeOK, Frames, ImageType, PcpType
    <2> QED BY <1>2, <2>3, <2>4 DEF processReceiveSm, handleReceiveFrame
<1>3. CASE processTimer
    <2>1. UNCHANGED <<fifo, ssdoProdStatus, tbuf, dma, ap, syncTask, accepted, forwarded, handed, kept, finished>>
        BY <1>3 DEF processTimer, apVars
    <2>2. timedOut' \in BOOLEAN
        BY <1>3 DEF processTimer, TypeOK, Expired
    <2>3. pcp' \in PcpType
        BY <1>3, OtherSeqNr, TimerType DEF processTimer, TypeOK, PcpType
    <2> QED BY <2>1, <2>2, <2>3 DEF TypeOK, Frames, ImageType, PcpType
<1>4. CASE SyncCb
    <2>1. /\ ssdoProdStatus' = tbuf.statusPub
          /\ pcp' = [pcp EXCEPT !.timer = incrementCounter(@)]
          /\ UNCHANGED <<fifo, tbuf, dma, ap, syncTask, accepted, forwarded, handed, kept, finished, timedOut>>
        BY <1>4 DEF SyncCb, apVars, ghosts
    <2>2. pcp' \in PcpType
        BY <2>1, TimerType DEF TypeOK, PcpType
    <2> QED BY <2>1, <2>2 DEF TypeOK, Frames, ImageType, PcpType
<1>5. CASE SyncIr
    BY <1>5 DEF SyncIr, TypeOK, apVars, ghosts, Frames, ImageType
<1>6. ASSUME NEW answer \in Answers, TransferFinished(answer) PROVE TypeOK'
    <2>1. /\ UNCHANGED <<fifo, pcp, ssdoProdStatus, accepted, forwarded, timedOut>>
          /\ dma' = "idle" /\ syncTask' \in {"Shnf", "Sapl", "State"}
          /\ tbuf' = [tbuf EXCEPT !.statusPub = ap.statusImg] /\ ap' \in ApType
        BY <1>6, TransferCases
    <2>2. tbuf' \in [rxPub : ImageType, statusPub : SeqNr]
        BY <2>1 DEF TypeOK
    <2>3. ap.img.payl \in 0..accepted /\ (Received.incoming => ap.img.payl \in Frames)
        BY ReceivedType DEF TypeOK, OrderInv, HandedOrder, ImageOrder, ImageType, Frames, SeqNr
    <2>4. ap.busy => Last(handed) \in Frames
        BY LastType DEF TypeOK, OrderInv, HandedOrder
    <2>5. handed' \in Seq(Frames) /\ kept' \subseteq DOMAIN handed' /\ finished' \subseteq Frames
        <3>1. Untouched \/ Finishes \/ Takes \/ Keeps \/ Fails
            BY <1>6, TransferCases
        <3>2. handed \in Seq(Frames) /\ kept \subseteq DOMAIN handed /\ finished \subseteq Frames
            BY DEF TypeOK
        <3>3. CASE Untouched \/ Finishes
            BY <2>4, <3>2, <3>3 DEF Untouched, Finishes
        <3>4. CASE Takes \/ Keeps \/ Fails
            <4>1. Passes /\ kept' \subseteq kept \cup {Len(handed')}
                  /\ finished' \subseteq finished \cup {ap.img.payl}
                BY <3>4 DEF Takes, Keeps, Fails
            <4>2. ap.img.payl \in Frames /\ handed' = Append(handed, ap.img.payl)
                BY <2>3, <4>1 DEF Passes
            <4>3. handed' \in Seq(Frames) /\ DOMAIN handed' = 1..(Len(handed) + 1)
                  /\ Len(handed') = Len(handed) + 1
                BY <3>2, <4>2, AppendLast
            <4>4. DOMAIN handed = 1..Len(handed) /\ Len(handed) \in Nat
                BY <3>2, LenProperties
            <4>5. DOMAIN handed \subseteq DOMAIN handed' /\ Len(handed') \in DOMAIN handed'
                BY <4>3, <4>4
            <4> QED BY <3>2, <4>1, <4>2, <4>3, <4>5
        <3> QED BY <3>1, <3>3, <3>4
    <2> QED BY <2>1, <2>2, <2>5 DEF TypeOK, Frames, ImageType, ApType
<1> QED BY <1>0, <1>1, <1>2, <1>3, <1>4, <1>5, <1>6 DEF Next
-----------------------------------------------------------------------------
LEMMA TypedFields ==
    ASSUME TypeOK
    PROVE  /\ tbuf.rxPub.payl \in 0..accepted /\ ap.img.payl \in 0..accepted
           /\ fifo \in Seq(1..accepted) /\ handed \in Seq(1..accepted)
           /\ accepted \in Nat /\ Len(fifo) \in Nat /\ Len(handed) \in Nat
           /\ DOMAIN fifo = 1..Len(fifo) /\ DOMAIN handed = 1..Len(handed)
           /\ \A i \in DOMAIN fifo : fifo[i] \in 1..accepted
           /\ \A i \in DOMAIN handed : handed[i] \in 1..accepted
<1>1. fifo \in Seq(1..accepted) /\ handed \in Seq(1..accepted)
    BY DEF TypeOK, Frames
<1>2. tbuf.rxPub.payl \in 0..accepted /\ ap.img.payl \in 0..accepted
    BY DEF TypeOK, ImageType
<1>3. accepted \in Nat
    BY LimitAssumption DEF TypeOK
<1> QED BY <1>1, <1>2, <1>3, LenProperties, ElementOfSeq

LEMMA FifoOrderSame ==
    FifoOrder /\ fifo' = fifo /\ tbuf'.rxPub = tbuf.rxPub => FifoOrder'
BY DEF FifoOrder

LEMMA ImageOrderSame ==
    ImageOrder /\ ap'.img = ap.img /\ tbuf'.rxPub = tbuf.rxPub => ImageOrder'
BY DEF ImageOrder

LEMMA HandedOrderSame ==
    HandedOrder /\ ap' = ap /\ handed' = handed /\ kept' = kept => HandedOrder'
BY DEF HandedOrder, HandedInOrder

LEMMA InitOrder == Init => OrderInv
<1> SUFFICES ASSUME Init PROVE OrderInv
    OBVIOUS
<1>1. DOMAIN fifo = {} /\ DOMAIN handed = {}
    BY SMT DEF Init
<1>2. ap.img = EmptyImage /\ tbuf.rxPub = EmptyImage /\ ~ap.incoming /\ ~ap.busy
    BY DEF Init
<1> QED BY <1>1, <1>2
        DEF OrderInv, FifoOrder, ImageOrder, HandedOrder, HandedInOrder, EmptyImage

(* A new frame has the highest number of all. *)
LEMMA AcceptKeepsOrder == TypeOK /\ OrderInv /\ obdAccessCb => OrderInv'
<1> SUFFICES ASSUME TypeOK, OrderInv, obdAccessCb PROVE OrderInv'
    OBVIOUS
<1>1. fifo' = Append(fifo, accepted + 1) /\ UNCHANGED <<tbuf, ap, handed, kept>>
    BY DEF obdAccessCb, apVars
<1>2. ImageOrder' /\ HandedOrder'
    BY <1>1, ImageOrderSame, HandedOrderSame DEF OrderInv
<1>3. fifo \in Seq(1..(accepted + 1)) /\ accepted + 1 \in 1..(accepted + 1)
    <2>1. 1..accepted \subseteq 1..(accepted + 1)
        BY TypedFields, SMT
    <2> QED BY <2>1, TypedFields, SeqMonotonic, SMT
<1>4. /\ DOMAIN fifo' = 1..(Len(fifo) + 1)
      /\ \A i \in 1..Len(fifo) : fifo'[i] = fifo[i]
      /\ fifo'[Len(fifo) + 1] = accepted + 1
    BY <1>1, <1>3, AppendProperties, LenProperties
<1>5. FifoOrder'
    BY <1>1, <1>4, TypedFields DEF FifoOrder, OrderInv
<1> QED BY <1>2, <1>5 DEF OrderInv

(* The head of the FIFO comes after what is in the images. *)
LEMMA ForwardKeepsOrder == TypeOK /\ OrderInv /\ processReceiveSm => OrderInv'
<1> SUFFICES ASSUME TypeOK, OrderInv, processReceiveSm PROVE OrderInv'
    OBVIOUS
<1>1. ap' = ap /\ handed' = handed /\ kept' = kept
    BY DEF processReceiveSm, apVars
<1>2. HandedOrder'
    BY <1>1, HandedOrderSame DEF OrderInv
<1>3. CASE fifo = <<>>
    <2>1. fifo' = fifo /\ tbuf' = tbuf
        BY <1>3 DEF processReceiveSm
    <2> QED BY <1>1, <1>2, <2>1, FifoOrderSame, ImageOrderSame DEF OrderInv
<1>4. CASE fifo # <<>>
    <2>1. fifo' = Tail(fifo) /\ handleReceiveFrame(Head(fifo))
        BY <1>4 DEF processReceiveSm
    <2>2. /\ Len(fifo) >= 1 /\ Head(fifo) = fifo[1] /\ 1 \in DOMAIN fifo
          /\ DOMAIN fifo' = 1..(Len(fifo) - 1)
          /\ \A i \in 1..(Len(fifo) - 1) : fifo'[i] = fifo[i + 1]
        BY <1>4, <2>1, TypedFields, HeadTailProperties, LenProperties, EmptySeq
    <2>5. \A i \in DOMAIN fifo' : i + 1 \in DOMAIN fifo /\ 1 < i + 1 /\ i \in Nat
        BY <2>2, TypedFields
    <2>6. \A i, j \in DOMAIN fifo' : i < j => fifo'[i] < fifo'[j]
        <3> SUFFICES ASSUME NEW i \in DOMAIN fifo', NEW j \in DOMAIN fifo', i < j
                     PROVE  fifo'[i] < fifo'[j]
            OBVIOUS
        <3>1. i + 1 \in DOMAIN fifo /\ j + 1 \in DOMAIN fifo /\ i + 1 < j + 1
            BY <2>5
        <3>2. fifo[i + 1] < fifo[j + 1]
            BY <3>1 DEF OrderInv, FifoOrder
        <3> QED BY <2>2, <3>2
    <2>3. CASE tbuf' = tbuf
        <3>1. \A i \in DOMAIN fifo' : tbuf.rxPub.payl < fifo'[i]
            BY <2>2, <2>5 DEF FifoOrder, OrderInv
        <3>2. FifoOrder'
            BY <2>3, <2>6, <3>1 DEF FifoOrder, OrderInv
        <3> QED BY <1>1, <1>2, <2>3, <3>2, ImageOrderSame DEF OrderInv
    <2>4. CASE Forward(pcp, Head(fifo))
        <3>1. tbuf'.rxPub = [seqNr |-> changeLocalSeqNr(pcp.currProdSeq), payl |-> fifo[1]]
            BY <2>2, <2>4 DEF Forward, TypeOK
        <3>2. tbuf'.rxPub.payl = fifo[1] /\ tbuf'.rxPub.seqNr # "Invalid"
            BY <3>1, OtherSeqNr DEF TypeOK
        <3>3. fifo[1] \in 1..accepted /\ tbuf.rxPub.payl < fifo[1]
              /\ \A i \in DOMAIN fifo : 1 < i => fifo[1] < fifo[i]
            BY <2>2, TypedFields DEF FifoOrder, OrderInv
        <3>6. \A i \in DOMAIN fifo' : fifo[1] < fifo'[i]
            BY <2>2, <2>5, <3>3
        <3>4. FifoOrder'
            BY <2>6, <3>2, <3>3, <3>6 DEF FifoOrder
        <3>5. ImageOrder'
            BY <1>1, <3>2, <3>3, TypedFields DEF ImageOrder, OrderInv
        <3> QED BY <1>2, <3>4, <3>5 DEF OrderInv
    <2> QED BY <2>1, <2>3, <2>4 DEF handleReceiveFrame
<1> QED BY <1>3, <1>4

(* A new image makes everything that was handed over older. *)
LEMMA FetchKeepsOrder == TypeOK /\ OrderInv /\ SyncIr => OrderInv'
<1> SUFFICES ASSUME TypeOK, OrderInv, SyncIr PROVE OrderInv'
    OBVIOUS
<1>1. /\ ap' = [ap EXCEPT !.img = tbuf.rxPub]
      /\ tbuf' = tbuf /\ fifo' = fifo /\ handed' = handed /\ kept' = kept
    BY DEF SyncIr, ghosts
<1>2. /\ ap'.img = tbuf.rxPub /\ ap'.incoming = ap.incoming /\ ap'.busy = ap.busy
      /\ ap'.currRxSeqNr = ap.currRxSeqNr
    BY <1>1 DEF TypeOK
<1>3. FifoOrder' /\ ImageOrder'
    BY <1>1, <1>2, FifoOrderSame, TypedFields DEF OrderInv, FifoOrder, ImageOrder
<1>4. HandedOrder'
    <2>1. CASE tbuf.rxPub = ap.img
        BY <1>1, <1>2, <2>1 DEF OrderInv, HandedOrder, HandedInOrder
    <2>2. CASE tbuf.rxPub # ap.img
        <3>1. ap.img.payl < ap'.img.payl
            BY <1>2, <2>2, TypedFields DEF OrderInv, ImageOrder
        <3>2. \A i \in DOMAIN handed : handed[i] < ap'.img.payl
            BY <1>2, <3>1, TypedFields DEF OrderInv, HandedOrder
        <3>3. \A i \in DOMAIN handed' : handed'[i] <= ap'.img.payl /\ handed'[i] # ap'.img.payl
            BY <1>1, <1>2, <3>2, TypedFields
        <3>4. ap'.img.payl # 0
            BY <1>2, <3>1, TypedFields
        <3> QED BY <1>1, <1>2, <3>3, <3>4 DEF OrderInv, HandedOrder, HandedInOrder
    <2> QED BY <2>1, <2>2
<1> QED BY <1>3, <1>4 DEF OrderInv

(* Only a frame that comes after all that were handed over is handed over, *)
(* or the same again after an OK.                                          *)
LEMMA TransferKeepsOrder ==
    ASSUME TypeOK, OrderInv, NEW answer \in Answers, TransferFinished(answer)
    PROVE  OrderInv'
<1>1. /\ fifo' = fifo /\ tbuf'.rxPub = tbuf.rxPub /\ ap'.img = ap.img
      /\ ap'.currRxSeqNr = Received.currRxSeqNr
    BY TransferCases DEF TypeOK
<1>2. FifoOrder' /\ ImageOrder'
    BY <1>1, FifoOrderSame, ImageOrderSame DEF OrderInv
<1>3. /\ Received.incoming \in BOOLEAN /\ ap.busy \in BOOLEAN
      /\ Received.incoming => ap.img.payl # 0 /\ Received.currRxSeqNr = ap.img.seqNr
      /\ ap.img.payl # 0 => Received.currRxSeqNr = ap.img.seqNr
      /\ Received.incoming \/ ap.busy => Received.currRxSeqNr \in SeqNr
      /\ Received.incoming /\ ~ap.busy =>
            \A i \in DOMAIN handed : handed[i] < ap.img.payl \/ (handed[i] = ap.img.payl /\ i \in kept)
      /\ \A i \in DOMAIN handed : handed[i] <= ap.img.payl
    <2>1. ap.img.seqNr \in SeqNr <=> ap.img.payl # 0
        BY DEF OrderInv, ImageOrder, TypeOK, ImageType, SeqNr
    <2>2. /\ Received.incoming \in BOOLEAN /\ ap.busy \in BOOLEAN
          /\ Received.incoming => ap.img.payl # 0
          /\ ap.img.payl # 0 => Received.currRxSeqNr = ap.img.seqNr
          /\ Received.incoming \/ ap.busy => Received.currRxSeqNr \in SeqNr
        BY <2>1, ReceivedType DEF TypeOK, OrderInv, HandedOrder
    <2>3. \A i \in DOMAIN handed : handed[i] <= ap.img.payl
        BY DEF OrderInv, HandedOrder
    <2>4. Received.incoming /\ ~ap.busy =>
              \A i \in DOMAIN handed : handed[i] = ap.img.payl => i \in kept
        BY <2>1, ReceivedType DEF OrderInv, HandedOrder
    <2> QED BY <2>2, <2>3, <2>4, TypedFields
<1>4. CASE Untouched \/ Finishes
    <2>1. /\ handed' = handed /\ kept' = kept
          /\ ap'.incoming => Received.incoming
          /\ ap'.busy => ap.busy
          /\ ap'.incoming => (ap'.busy <=> ap.busy)
        BY <1>4 DEF Untouched, Finishes
    <2>2. /\ ap'.incoming => ap'.img.payl # 0
          /\ ap'.incoming \/ ap'.busy => ap'.currRxSeqNr \in SeqNr
          /\ ap'.busy => handed' # <<>>
        BY <1>1, <1>3, <2>1 DEF OrderInv, HandedOrder
    <2>3. ASSUME NEW i \in DOMAIN handed
          PROVE  /\ handed[i] <= ap'.img.payl
                 /\ handed[i] = ap'.img.payl =>
                       ap'.currRxSeqNr = ap'.img.seqNr /\ (ap'.incoming => ap'.busy \/ i \in kept)
        <3>1. handed[i] <= ap.img.payl /\ handed[i] \in 1..accepted
            BY <1>3, TypedFields
        <3>2. Received.incoming /\ ~ap.busy => handed[i] < ap.img.payl \/ i \in kept
            BY <1>3
        <3>3. handed[i] = ap.img.payl => Received.currRxSeqNr = ap.img.seqNr
            BY <1>3, <3>1
        <3> QED BY <1>1, <2>1, <3>1, <3>2, <3>3
    <2>4. HandedInOrder'
        BY <2>1 DEF OrderInv, HandedOrder, HandedInOrder
    <2>5. \A i \in DOMAIN handed' :
             /\ handed'[i] <= ap'.img.payl
             /\ handed'[i] = ap'.img.payl =>
                   ap'.currRxSeqNr = ap'.img.seqNr /\ (ap'.incoming => ap'.busy \/ i \in kept')
        BY <2>1, <2>3
    <2> QED BY <1>2, <2>2, <2>4, <2>5 DEF OrderInv, HandedOrder
<1>6. CASE Takes \/ Keeps \/ Fails
    <2>0. /\ ~ap.busy /\ Received.incoming /\ handed' = Append(handed, ap.img.payl)
          /\ kept \subseteq kept' /\ (ap'.incoming => ap'.busy \/ kept' = kept \cup {Len(handed')})
        BY <1>6 DEF Takes, Keeps, Fails, Passes
    <2>1. ap.img.payl \in 1..accepted
        BY <1>3, <2>0, TypedFields
    <2>2. /\ DOMAIN handed' = 1..(Len(handed) + 1) /\ handed' # <<>>
          /\ Len(handed') = Len(handed) + 1
          /\ \A i \in 1..Len(handed) : handed'[i] = handed[i]
          /\ handed'[Len(handed) + 1] = ap.img.payl
        <3>1. handed \in Seq(1..accepted) /\ DOMAIN handed = 1..Len(handed)
            BY TypedFields
        <3>2. Append(handed, ap.img.payl)[Len(handed) + 1] = ap.img.payl
            BY <2>1, <3>1, AppendProperties
        <3> QED BY <2>0, <2>1, <3>1, <3>2, AppendLast
    <2>3. \A i \in 1..Len(handed) :
             handed[i] < ap.img.payl \/ (handed[i] = ap.img.payl /\ i \in kept)
        BY <1>3, <2>0, TypedFields
    <2>4. ASSUME NEW i \in DOMAIN handed', NEW j \in DOMAIN handed', i < j
          PROVE  handed'[i] < handed'[j] \/ (handed'[i] = handed'[j] /\ i \in kept')
        <3>1. i \in 1..Len(handed)
            BY <2>2, <2>4, TypedFields
        <3>2. CASE j \in 1..Len(handed)
            <4>1. handed[i] < handed[j] \/ (handed[i] = handed[j] /\ i \in kept)
                BY <2>4, <3>1, <3>2, TypedFields DEF OrderInv, HandedOrder, HandedInOrder
            <4> QED BY <2>0, <2>2, <3>1, <3>2, <4>1
        <3>3. CASE j = Len(handed) + 1
            BY <2>0, <2>2, <2>3, <3>1, <3>3
        <3>4. j \in 1..Len(handed) \/ j = Len(handed) + 1
            BY <2>2, TypedFields
        <3> QED BY <3>2, <3>3, <3>4
    <2>5. ASSUME NEW i \in DOMAIN handed'
          PROVE  /\ handed'[i] <= ap.img.payl
                 /\ handed'[i] = ap.img.payl /\ ap'.incoming => ap'.busy \/ i \in kept'
        <3>1. CASE i \in 1..Len(handed)
            <4>1. handed'[i] = handed[i] /\ handed[i] <= ap.img.payl
                BY <1>3, <2>2, <3>1, TypedFields
            <4>2. handed[i] = ap.img.payl => i \in kept'
                BY <2>0, <2>1, <2>3, <3>1
            <4> QED BY <4>1, <4>2
        <3>2. CASE i = Len(handed) + 1
            BY <2>0, <2>1, <2>2, <3>2
        <3> QED BY <2>2, <3>1, <3>2, TypedFields
    <2>6. HandedInOrder'
        BY <2>4 DEF HandedInOrder
    <2>7. ap'.currRxSeqNr = ap'.img.seqNr /\ ap'.img.payl # 0 /\ ap'.currRxSeqNr \in SeqNr
        BY <1>1, <1>3, <2>0, <2>1
    <2>8. \A i \in DOMAIN handed' : handed'[i] <= ap'.img.payl
                                   /\ (handed'[i] = ap'.img.payl /\ ap'.incoming => ap'.busy \/ i \in kept')
        BY <1>1, <2>5
    <2> QED BY <1>2, <2>2, <2>6, <2>7, <2>8 DEF OrderInv, HandedOrder
<1>7. Untouched \/ Finishes \/ Takes \/ Keeps \/ Fails
    BY TransferCases
<1> QED BY <1>4, <1>6, <1>7

LEMMA StepOrder == TypeOK /\ OrderInv /\ [Next]_vars => OrderInv'
<1> SUFFICES ASSUME TypeOK, OrderInv, [Next]_vars PROVE OrderInv'
    OBVIOUS
<1>1. CASE UNCHANGED <<fifo, tbuf, ap, handed, kept>>
    BY <1>1, FifoOrderSame, ImageOrderSame, HandedOrderSame DEF OrderInv
<1>2. CASE processTimer \/ SyncCb \/ UNCHANGED vars
    BY <1>1, <1>2 DEF processTimer, SyncCb, apVars, ghosts, vars
<1> QED BY <1>2, AcceptKeepsOrder, ForwardKeepsOrder, FetchKeepsOrder, TransferKeepsOrder
        DEF Next

-----------------------------------------------------------------------------
LEMMA InitChannel == Init => ChannelInv
<1> SUFFICES ASSUME Init PROVE ChannelInv
    OBVIOUS
<1>1. /\ pcp.currProdSeq = "First" /\ ap.rxStatus = "First" /\ ap.statusImg = "First"
      /\ tbuf.statusPub = "First" /\ tbuf.rxPub = EmptyImage /\ ap.img = EmptyImage
      /\ ap.currRxSeqNr = "Invalid" /\ ~ap.incoming /\ ~ap.busy
      /\ forwarded = <<>> /\ handed = <<>> /\ EmptyImage.seqNr = "Invalid"
      /\ DOMAIN forwarded = {} /\ DOMAIN handed = {}
    BY DEF Init, EmptyImage
<1>2. 1..(Len(forwarded) - 1) = {}
    BY <1>1
<1>3. Reached
    BY <1>1, <1>2 DEF Reached
<1> QED BY <1>1, <1>3 DEF ChannelInv, StatusChain, Published, DoneSound, UnderwaySound, Done

LEMMA ChannelSame ==
    ASSUME ChannelInv, timedOut' => timedOut, timedOut => timedOut',
           UNCHANGED <<ssdoProdStatus, tbuf, ap, forwarded, handed, finished>>,
           pcp'.currProdSeq = pcp.currProdSeq
    PROVE  ChannelInv'
<1>1. Done' <=> Done
    BY DEF Done
<1>2. (StatusChain' <=> StatusChain) /\ (Published' <=> Published)
    BY <1>1 DEF StatusChain, Published
<1>3. Forwarded' = Forwarded /\ Handed' = Handed
    BY DEF Forwarded, Handed
<1>4. /\ Reached' <=> Reached
      /\ DoneSound' <=> DoneSound
      /\ UnderwaySound' <=> UnderwaySound
    BY <1>1, <1>3 DEF Reached, DoneSound, UnderwaySound
<1> QED BY <1>2, <1>4 DEF ChannelInv

LEMMA ForwardedFields ==
    ASSUME TypeOK
    PROVE  /\ forwarded \in Seq(1..accepted) /\ Len(forwarded) \in Nat
           /\ DOMAIN forwarded = 1..Len(forwarded)
           /\ forwarded # <<>> => /\ Len(forwarded) \in DOMAIN forwarded
                                  /\ Last(forwarded) = forwarded[Len(forwarded)]
                                  /\ \A i \in DOMAIN forwarded :
                                        i \in 1..(Len(forwarded) - 1) \/ i = Len(forwarded)
<1>1. forwarded \in Seq(1..accepted) /\ Len(forwarded) \in Nat
      /\ DOMAIN forwarded = 1..Len(forwarded)
    BY LenProperties DEF TypeOK, Frames
<1>2. forwarded # <<>> => Len(forwarded) # 0
    BY <1>1, EmptySeq
<1> QED BY <1>1, <1>2 DEF Last

(* A frame is put into a channel in which nothing is under way. *)
LEMMA ForwardKeepsChannel ==
    ASSUME TypeOK, ChannelInv, ~timedOut, timedOut' = timedOut,
           NEW frame \in 1..accepted, ChannelFree, Forward(pcp, frame),
           UNCHANGED <<ssdoProdStatus, ap, handed, finished>>
    PROVE  ChannelInv'
<1> DEFINE s == pcp.currProdSeq
           t == pcp'.currProdSeq
<1>1. /\ t \in SeqNr /\ s \in SeqNr /\ t # s
      /\ tbuf'.rxPub = [seqNr |-> t, payl |-> frame]
      /\ tbuf'.statusPub = tbuf.statusPub
      /\ forwarded' = Append(forwarded, frame)
    BY OtherSeqNr DEF Forward, TypeOK
<1>2. /\ ssdoProdStatus = s /\ tbuf.statusPub = s /\ ap.statusImg = s /\ Done
      /\ StatusChain /\ Published /\ Reached /\ DoneSound
    BY DEF ChannelFree, ChannelInv, StatusChain
<1>3. /\ ~ap.incoming /\ ~ap.busy
      /\ \A i \in DOMAIN forwarded : forwarded[i] \in Handed
      /\ ap.currRxSeqNr = ap.img.seqNr
      /\ \A i \in DOMAIN forwarded : forwarded[i] \in finished
      /\ ap.rxStatus = s
    BY <1>2 DEF DoneSound, Done
<1>4. ap.img.seqNr # t
    BY <1>1, <1>2, OtherSeqNr DEF Published, DoneSound, EmptyImage
<1>5. /\ forwarded' # <<>> /\ Last(forwarded') = frame /\ Front(forwarded') = forwarded
      /\ Len(forwarded') - 1 = Len(forwarded)
      /\ \A i \in 1..Len(forwarded) : forwarded'[i] = forwarded[i]
      /\ DOMAIN forwarded \subseteq DOMAIN forwarded'
    <2>1. forwarded \in Seq(1..accepted) /\ Len(forwarded) \in Nat
          /\ DOMAIN forwarded = 1..Len(forwarded)
        BY ForwardedFields
    <2>2. Len(Append(forwarded, frame)) = Len(forwarded) + 1
        BY <2>1, AppendLast
    <2>3. Len(forwarded') - 1 = Len(forwarded)
        BY <1>1, <2>1, <2>2
    <2>4. \A i \in 1..Len(forwarded) : forwarded'[i] = forwarded[i]
        BY <1>1, <2>1, AppendLast
    <2>5. forwarded' # <<>> /\ Last(forwarded') = frame /\ Front(forwarded') = forwarded
        <3>1. /\ Append(forwarded, frame) # <<>> /\ Last(Append(forwarded, frame)) = frame
              /\ Front(Append(forwarded, frame)) = forwarded
            BY <2>1, AppendLast
        <3> QED BY <1>1, <3>1
    <2>6. DOMAIN forwarded \subseteq DOMAIN forwarded'
        <3>1. DOMAIN Append(forwarded, frame) = 1..(Len(forwarded) + 1)
            BY <2>1, AppendLast
        <3> QED BY <1>1, <2>1, <3>1
    <2> QED BY <2>3, <2>4, <2>5, <2>6
<1> HIDE DEF s, t
<1>6. ~Done' /\ StatusChain'
    BY <1>1, <1>2, <1>3 DEF Done, StatusChain, s, t
<1>7. Published'
    BY <1>1, <1>5 DEF Published, t
<1>8. DoneSound' /\ UnderwaySound'
    <2>1. \A i \in 1..(Len(forwarded') - 1) : forwarded'[i] \in finished'
        BY <1>3, <1>5, ForwardedFields
    <2> QED BY <1>3, <1>4, <1>6, <2>1 DEF DoneSound, UnderwaySound, t
<1>9. Reached'
    <2>1. Handed' = Handed /\ handed' = handed
        BY DEF Handed
    <2>2. Forwarded \subseteq Forwarded'
        BY <1>5, ForwardedFields DEF Forwarded
    <2>3. \A i \in 1..(Len(forwarded') - 1) : forwarded'[i] \in Handed'
        BY <1>3, <1>5, <2>1, ForwardedFields
    <2> QED BY <1>2, <2>1, <2>2, <2>3 DEF Reached
<1> QED BY <1>6, <1>7, <1>8, <1>9 DEF ChannelInv

LEMMA FetchKeepsChannel == TypeOK /\ ChannelInv /\ SyncIr => ChannelInv'
<1> SUFFICES ASSUME TypeOK, ChannelInv, SyncIr, ~timedOut PROVE ChannelInv'
    BY DEF SyncIr, ghosts, ChannelInv
<1>1. /\ UNCHANGED <<ssdoProdStatus, pcp, tbuf, forwarded, handed, finished, timedOut>>
      /\ ap' = [ap EXCEPT !.img = tbuf.rxPub]
    BY DEF SyncIr, ghosts
<1>2. /\ ap'.img = tbuf.rxPub /\ ap'.incoming = ap.incoming /\ ap'.busy = ap.busy
      /\ ap'.currRxSeqNr = ap.currRxSeqNr
      /\ ap'.rxStatus = ap.rxStatus /\ ap'.statusImg = ap.statusImg
    BY <1>1 DEF TypeOK
<1>3. StatusChain /\ Published /\ Reached /\ DoneSound /\ UnderwaySound
    BY DEF ChannelInv
<1>4. CASE ap.img = tbuf.rxPub
    <2>1. ap' = ap
        BY <1>1, <1>4 DEF TypeOK
    <2> QED BY <1>1, <2>1, ChannelSame
<1>5. CASE ap.img # tbuf.rxPub
    <2>1. ~Done /\ ap.currRxSeqNr # pcp.currProdSeq
        BY <1>3, <1>5 DEF DoneSound, UnderwaySound
    <2>2. ~Done' /\ StatusChain' /\ Published'
        BY <1>1, <1>2, <1>3, <2>1 DEF Done, StatusChain, Published
    <2>3. tbuf.rxPub.seqNr = pcp.currProdSeq
        BY <1>3, <2>1 DEF Published
    <2>4. UnderwaySound'
        <3>1. /\ ~ap.incoming /\ ~ap.busy
              /\ \A i \in 1..(Len(forwarded) - 1) : forwarded[i] \in finished
            BY <1>3, <2>1 DEF UnderwaySound
        <3>2. /\ ap'.currRxSeqNr # pcp'.currProdSeq
              /\ ap'.img.seqNr = pcp'.currProdSeq /\ ap'.img = tbuf'.rxPub
            BY <1>1, <1>2, <2>1, <2>3
        <3>3. /\ ~ap'.incoming /\ ~ap'.busy
              /\ \A i \in 1..(Len(forwarded') - 1) : forwarded'[i] \in finished'
            BY <1>1, <1>2, <3>1
        <3> QED BY <2>2, <3>2, <3>3 DEF UnderwaySound
    <2>5. Reached'
        <3>1. forwarded' = forwarded /\ handed' = handed
            BY <1>1
        <3>2. Forwarded' = Forwarded /\ Handed' = Handed
            BY <3>1 DEF Forwarded, Handed
        <3> QED BY <1>3, <3>1, <3>2 DEF Reached
    <2> QED BY <2>2, <2>4, <2>5 DEF ChannelInv, DoneSound
<1> QED BY <1>4, <1>5

(* The stack gets the last frame of those that were forwarded. *)
LEMMA PassReaches ==
    ASSUME TypeOK, Reached, NEW f \in 1..accepted, handed' = Append(handed, f),
           forwarded' = forwarded, forwarded # <<>>, f = Last(forwarded)
    PROVE  /\ Reached' /\ Last(handed') = f
           /\ \A i \in DOMAIN forwarded : forwarded[i] \in Handed'
<1>1. /\ DOMAIN handed' = 1..(Len(handed) + 1) /\ Last(handed') = f
      /\ \A j \in DOMAIN handed : handed'[j] = handed[j]
      /\ handed'[Len(handed) + 1] = f
    BY TypedFields, AppendLast, AppendProperties
<1>2. Forwarded' = Forwarded /\ f \in Forwarded
    BY ForwardedFields DEF Forwarded
<1>3. \A j \in DOMAIN handed' : handed'[j] \in Forwarded'
    BY <1>1, <1>2, TypedFields DEF Reached
<1>4. Handed \subseteq Handed' /\ f \in Handed'
    BY <1>1, TypedFields DEF Handed
<1>5. \A i \in DOMAIN forwarded : forwarded[i] \in Handed'
    BY <1>4, ForwardedFields DEF Reached
<1>6. \A i \in 1..(Len(forwarded') - 1) : forwarded'[i] \in Handed'
    BY <1>5, ForwardedFields
<1> QED BY <1>1, <1>3, <1>5, <1>6 DEF Reached

LEMMA TransferKeepsChannel ==
    ASSUME TypeOK, OrderInv, ChannelInv, ~timedOut,
           NEW answer \in Answers, TransferFinished(answer)
    PROVE  ChannelInv'
<1> DEFINE s == pcp.currProdSeq
<1>1. /\ UNCHANGED <<ssdoProdStatus, pcp, forwarded, timedOut>>
      /\ tbuf'.rxPub = tbuf.rxPub /\ tbuf'.statusPub = ap.statusImg
      /\ ap'.img = ap.img /\ ap'.statusImg = ap.rxStatus
      /\ ap'.currRxSeqNr = Received.currRxSeqNr
    BY TransferCases DEF TypeOK
<1>2. StatusChain /\ Published /\ Reached /\ DoneSound /\ UnderwaySound
    BY DEF ChannelInv
<1>3. handed' = handed => Reached' /\ Handed' = Handed
    <2>1. Forwarded' = Forwarded /\ (handed' = handed => Handed' = Handed)
        BY <1>1 DEF Forwarded, Handed
    <2> QED BY <1>1, <1>2, <2>1 DEF Reached
<1>4. Untouched \/ Finishes \/ Takes \/ Keeps \/ Fails
    BY TransferCases
<1>5. s \in SeqNr /\ ap.currRxSeqNr \in SeqNr \cup {"Invalid"} /\ "Invalid" \notin SeqNr
      /\ ap.img.seqNr \in SeqNr \cup {"Invalid"}
    BY OtherSeqNr DEF TypeOK, ImageType
<1>6. Done => Done'
    <2>1. ASSUME Done PROVE ~ap.busy /\ ~Received.incoming
        BY <1>2, <2>1, ReceivedType DEF DoneSound
    <2> QED BY <1>1, <1>4, <2>1 DEF Done, Untouched, Finishes, Takes, Keeps, Fails, Passes
<1>7. StatusChain'
    BY <1>1, <1>2, <1>6 DEF StatusChain, Done
<1>8. Published'
    BY <1>1, <1>2, <1>6 DEF Published
<1>9. CASE Done
    <2>1. ~ap.busy /\ ~ap.incoming /\ ~Received.incoming
          /\ Received.currRxSeqNr = ap.currRxSeqNr
        BY <1>2, <1>9, ReceivedType DEF DoneSound
    <2>2. /\ ~ap'.incoming /\ ~ap'.busy
          /\ handed' = handed /\ finished' = finished
        BY <1>4, <2>1 DEF Untouched, Finishes, Takes, Keeps, Fails, Passes
    <2>3. DoneSound' /\ UnderwaySound'
        BY <1>1, <1>2, <1>3, <1>6, <1>9, <2>1, <2>2 DEF DoneSound, UnderwaySound
    <2> QED BY <1>3, <1>7, <1>8, <2>2, <2>3 DEF ChannelInv
<1>10. CASE ~Done /\ ap.currRxSeqNr # s /\ ap.img.seqNr # s
    <2>1. /\ ~ap.incoming /\ ~ap.busy
          /\ ap.img.seqNr = ap.currRxSeqNr
          /\ \A i \in 1..(Len(forwarded) - 1) : forwarded[i] \in finished
        BY <1>2, <1>10 DEF UnderwaySound
    <2>2. ~Received.incoming /\ Received.currRxSeqNr = ap.currRxSeqNr
        BY <2>1, ReceivedType
    <2>3. /\ ~ap'.incoming /\ ~ap'.busy /\ ap'.rxStatus = ap.rxStatus
          /\ handed' = handed /\ finished' = finished
        BY <1>4, <2>1, <2>2 DEF Untouched, Finishes, Takes, Keeps, Fails, Passes
    <2>4. ~Done'
        BY <1>1, <1>10, <2>3 DEF Done
    <2>5. UnderwaySound'
        BY <1>1, <1>10, <2>1, <2>2, <2>3 DEF UnderwaySound
    <2> QED BY <1>3, <1>7, <1>8, <2>3, <2>4, <2>5 DEF ChannelInv, DoneSound
<1>11. CASE ~Done /\ (ap.currRxSeqNr = s \/ ap.img.seqNr = s)
    <2>1. /\ ap.img = tbuf.rxPub
          /\ ap.busy => Last(handed) = Last(forwarded)
          /\ \A i \in 1..(Len(forwarded) - 1) : forwarded[i] \in finished
          /\ forwarded # <<>>
        BY <1>2, <1>11 DEF UnderwaySound, Published
    <2>2. /\ ap.img.seqNr = s /\ ap.img.payl = Last(forwarded)
          /\ ap.img.payl \in 1..accepted
        <3>1. ap.img.seqNr = s /\ ap.img.payl = Last(forwarded)
            BY <1>2, <2>1 DEF Published
        <3>2. Last(forwarded) \in 1..accepted
            BY <2>1, LastType, ForwardedFields
        <3> QED BY <3>1, <3>2
    <2>3. Received.incoming /\ Received.currRxSeqNr = s
        BY <1>2, <1>5, <1>11, <2>2, ReceivedType DEF UnderwaySound
    <2>4. \A i \in DOMAIN forwarded : i \in 1..(Len(forwarded) - 1) \/ forwarded[i] = Last(forwarded)
        BY <2>1, ForwardedFields
    <2>5. CASE Untouched
        <3>1. ~Done'
            BY <1>1, <1>11, <2>5 DEF Done, Untouched
        <3>2. UnderwaySound'
            BY <1>1, <2>1, <2>3, <2>5 DEF UnderwaySound, Untouched
        <3> QED BY <1>3, <1>7, <1>8, <2>5, <3>1, <3>2 DEF ChannelInv, DoneSound, Untouched
    <2>6. CASE Takes \/ Keeps
        <3>1. ~Done'
            BY <1>1, <1>11, <2>6 DEF Done, Takes, Keeps
        <3>2. Reached' /\ Last(handed') = Last(forwarded)
            BY <1>1, <1>2, <2>1, <2>2, <2>6, PassReaches DEF Takes, Keeps, Passes
        <3>3. UnderwaySound'
            BY <1>1, <2>1, <2>3, <2>6, <3>2 DEF UnderwaySound, Takes, Keeps
        <3> QED BY <1>7, <1>8, <3>1, <3>2, <3>3 DEF ChannelInv, DoneSound
    <2>7. CASE Finishes \/ Fails
        <3>1. Done' /\ ~ap'.incoming /\ ~ap'.busy
            BY <1>1, <2>3, <2>7 DEF Done, Finishes, Fails
        <3>2. Reached' /\ \A i \in DOMAIN forwarded : forwarded[i] \in Handed'
            <4>1. CASE Fails
                BY <1>1, <1>2, <2>1, <2>2, <4>1, PassReaches DEF Fails, Passes
            <4>2. CASE Finishes
                <5>1. Reached' /\ Handed' = Handed /\ handed # <<>>
                    BY <1>3, <4>2 DEF Finishes, OrderInv, HandedOrder
                <5>2. Last(handed) \in Handed
                    BY <5>1, TypedFields, LastType DEF Handed
                <5>3. \A i \in 1..(Len(forwarded) - 1) : forwarded[i] \in Handed
                    BY <1>2 DEF Reached
                <5> QED BY <2>1, <2>4, <4>2, <5>1, <5>2, <5>3 DEF Finishes
            <4> QED BY <2>7, <4>1, <4>2
        <3>3. finished' = finished \cup {Last(forwarded)}
            BY <2>1, <2>2, <2>7 DEF Finishes, Fails
        <3>4. \A i \in DOMAIN forwarded' : forwarded'[i] \in finished'
            BY <1>1, <2>1, <2>4, <3>3
        <3>5. DoneSound'
            BY <1>1, <2>1, <2>2, <2>3, <3>1, <3>2, <3>4 DEF DoneSound
        <3> QED BY <1>7, <1>8, <3>1, <3>2, <3>5 DEF ChannelInv, UnderwaySound
    <2> QED BY <1>4, <2>5, <2>6, <2>7
<1> QED BY <1>9, <1>10, <1>11

LEMMA StepChannel == TypeOK /\ OrderInv /\ ChannelInv /\ [Next]_vars => ChannelInv'
<1> SUFFICES ASSUME TypeOK, OrderInv, ChannelInv, [Next]_vars, ~timedOut' PROVE ChannelInv'
    BY DEF ChannelInv
<1>1. CASE UNCHANGED vars
    BY <1>1, ChannelSame DEF vars, apVars, ghosts
<1>2. CASE obdAccessCb
    <2>1. pcp'.currProdSeq = pcp.currProdSeq
        BY <1>2 DEF obdAccessCb, TypeOK
    <2> QED BY <1>2, <2>1, ChannelSame DEF obdAccessCb, apVars
<1>3. CASE processReceiveSm
    <2>1. UNCHANGED <<ssdoProdStatus, ap, handed, finished, timedOut>>
        BY <1>3 DEF processReceiveSm, apVars
    <2>2. CASE UNCHANGED <<tbuf, forwarded>> /\ pcp' = [pcp EXCEPT !.step = "timer"]
        <3>1. pcp'.currProdSeq = pcp.currProdSeq
            BY <2>2 DEF TypeOK
        <3> QED BY <2>1, <2>2, <3>1, ChannelSame
    <2>3. CASE fifo # <<>> /\ ChannelFree /\ Forward(pcp, Head(fifo))
        <3>1. Head(fifo) \in 1..accepted
            BY <2>3, TypedFields, HeadTailProperties
        <3>2. ~timedOut
            BY <2>1
        <3> QED BY <2>1, <2>3, <3>1, <3>2, ForwardKeepsChannel
    <2> QED BY <1>3, <2>2, <2>3 DEF processReceiveSm, handleReceiveFrame
<1>4. CASE processTimer
    <2>1. ~Expired(pcp.timer) /\ ~timedOut
        BY <1>4 DEF processTimer
    <2>2. pcp'.currProdSeq = pcp.currProdSeq
        BY <1>4, <2>1 DEF processTimer, TypeOK
    <2> QED BY <1>4, <2>1, <2>2, ChannelSame DEF processTimer, apVars
<1>5. CASE SyncCb
    <2>1. /\ ssdoProdStatus' = tbuf.statusPub /\ pcp'.currProdSeq = pcp.currProdSeq
          /\ UNCHANGED <<tbuf, ap, forwarded, handed, finished, timedOut>>
        BY <1>5 DEF SyncCb, apVars, ghosts, TypeOK
    <2>2. StatusChain /\ Published /\ Reached /\ DoneSound /\ UnderwaySound
        BY <2>1 DEF ChannelInv
    <2>3. (Done' <=> Done) /\ Handed' = Handed /\ Forwarded' = Forwarded
        BY <2>1 DEF Done, Handed, Forwarded
    <2>4. StatusChain' /\ Published'
        BY <2>1, <2>2, <2>3 DEF StatusChain, Published
    <2>5. Reached' /\ DoneSound' /\ UnderwaySound'
        BY <2>1, <2>2, <2>3 DEF Reached, DoneSound, UnderwaySound
    <2> QED BY <2>4, <2>5 DEF ChannelInv
<1>6. CASE SyncIr
    BY <1>6, FetchKeepsChannel
<1>7. ASSUME NEW answer \in Answers, TransferFinished(answer) PROVE ChannelInv'
    <2>1. ~timedOut
        BY <1>7 DEF TransferFinished
    <2> QED BY <1>7, <2>1, TransferKeepsChannel
<1> QED BY <1>1, <1>2, <1>3, <1>4, <1>5, <1>6, <1>7 DEF Next

IInv == TypeOK /\ OrderInv /\ ChannelInv

LEMMA InvariantHolds == Spec => []IInv
<1>1. Init => IInv
    BY InitType, InitOrder, InitChannel DEF IInv
<1>2. IInv /\ [Next]_vars => IInv'
    BY StepType, StepOrder, StepChannel DEF IInv
<1> QED BY <1>1, <1>2, PTL DEF Spec

(* Types, for every limit of the timer. *)
THEOREM TypeCorrect == Spec => []TypeOK
BY InvariantHolds, PTL DEF IInv

(* The stack gets no frame after a later one, and a frame again only when  *)
(* it answered OK before: no sequence of timeouts, however late the        *)
(* answers of the AP are, adds another case.                               *)
THEOREM FramesInOrder == Spec => []HandedInOrder
<1>1. IInv => HandedInOrder
    BY DEF IInv, OrderInv, HandedOrder
<1> QED BY <1>1, InvariantHolds, PTL

(* Until a timeout, the stack gets nothing but forwarded frames and each   *)
(* of them before the next one is forwarded, whatever it answers and       *)
(* however the cycles of both processors interleave.                       *)
THEOREM ForwardedArrive == Spec => []ForwardedReachStack
<1>1. IInv => ForwardedReachStack
    BY DEF IInv, ChannelInv, Reached, ForwardedReachStack, Handed
<1> QED BY <1>1, InvariantHolds, PTL

(* Until a timeout, the receive buffer keeps the frame the stack works on. *)
THEOREM BufferStable == Spec => []FrameStableWhileBusy
<1>1. IInv => FrameStableWhileBusy
    <2> SUFFICES ASSUME IInv, ~timedOut, ap.busy PROVE ap.img.payl = Last(handed)
        BY DEF FrameStableWhileBusy
    <2>1. Published /\ DoneSound /\ UnderwaySound
        BY DEF IInv, ChannelInv
    <2>2. ap.img = tbuf.rxPub /\ Last(handed) = Last(forwarded) /\ forwarded # <<>>
        BY <2>1 DEF Published, DoneSound, UnderwaySound
    <2> QED BY <2>1, <2>2 DEF Published
<1> QED BY <1>1, InvariantHolds, PTL

(* Until a timeout, a channel the PCP finds free has no frame under way    *)
(* that the stack has not finished.                                        *)
THEOREM FreeIsFinished == Spec => []FreeMeansFinished
<1>1. IInv => FreeMeansFinished
    BY DEF IInv, ChannelInv, StatusChain, DoneSound, FreeMeansFinished, ChannelFree, Forwarded
<1> QED BY <1>1, InvariantHolds, PTL

-----------------------------------------------------------------------------
(* The channel as an implementation of StopAndWait. *)

(* The frame in the channel. *)
Message == IF ChannelFree THEN 0 ELSE Last(forwarded)

(* A step that leaves the numbers of both sides and the frames alone is    *)
(* none of the channel.                                                    *)
LEMMA ChannelUnmoved ==
    ASSUME ap'.rxStatus = ap.rxStatus, pcp'.currProdSeq = pcp.currProdSeq,
           ssdoProdStatus' = ssdoProdStatus, timedOut' = timedOut,
           forwarded' = forwarded, handed' = handed, ap'.busy = ap.busy
    PROVE  UNCHANGED Channel!vars
BY DEF Channel!vars, ChannelPhase, ChannelFree

(* Until a timeout, a channel is free only after the answer, and without   *)
(* it the last frame is on its way, as long as the stack is not busy.      *)
LEMMA PhaseMeans ==
    ASSUME IInv, ~timedOut
    PROVE  /\ ChannelFree => Done
           /\ Done => ~ap.busy /\ ~Received.incoming
           /\ ~Done => /\ forwarded # <<>>
                       /\ ap.busy \/ Received.incoming => ap.img = tbuf.rxPub
                       /\ tbuf.rxPub.payl = Last(forwarded)
                       /\ tbuf.rxPub.seqNr = pcp.currProdSeq
<1>1. TypeOK /\ StatusChain /\ Published /\ DoneSound /\ UnderwaySound
    BY DEF IInv, ChannelInv
<1>2. (ChannelFree => Done) /\ (Done => ~ap.busy /\ ~Received.incoming)
    BY <1>1, ReceivedType DEF ChannelFree, StatusChain, DoneSound
<1>3. ~Done => /\ forwarded # <<>>
               /\ tbuf.rxPub.payl = Last(forwarded)
               /\ tbuf.rxPub.seqNr = pcp.currProdSeq
    BY <1>1 DEF Published
<1>4. ~Done => (ap.busy \/ Received.incoming => ap.img = tbuf.rxPub)
    BY <1>1, ReceivedType DEF UnderwaySound
<1> QED BY <1>2, <1>3, <1>4

LEMMA ForwardImplements ==
    ASSUME IInv, ~timedOut, processReceiveSm
    PROVE  Channel!Next \/ UNCHANGED Channel!vars
<1>1. TypeOK /\ OrderInv /\ ChannelInv
    BY DEF IInv
<1>2. UNCHANGED <<ssdoProdStatus, ap, handed, timedOut>>
    BY DEF processReceiveSm, apVars
<1>3. CASE forwarded' = forwarded /\ pcp' = [pcp EXCEPT !.step = "timer"]
    <2>1. pcp'.currProdSeq = pcp.currProdSeq
        BY <1>1, <1>3 DEF TypeOK
    <2> QED BY <1>2, <1>3, <2>1, ChannelUnmoved
<1>4. CASE fifo # <<>> /\ ChannelFree /\ Forward(pcp, Head(fifo))
    <2>1. /\ pcp.currProdSeq \in SeqNr
          /\ pcp'.currProdSeq = changeLocalSeqNr(pcp.currProdSeq)
          /\ forwarded' = Append(forwarded, Head(fifo))
        BY <1>1, <1>4 DEF Forward, TypeOK
    <2>2. pcp'.currProdSeq # pcp.currProdSeq
        BY <2>1, OtherSeqNr
    <2>3. Done /\ ~ap.busy
        BY <1>4, PhaseMeans
    <2>4. ~ChannelFree' /\ ~Done'
        BY <1>2, <1>4, <2>2, <2>3 DEF ChannelFree, Done
    <2>5. Head(fifo) = fifo[1] /\ 1 \in DOMAIN fifo /\ fifo[1] \in 1..accepted
        BY <1>1, <1>4, TypedFields, HeadTailProperties, LenProperties, EmptySeq
    <2>6. \A i \in DOMAIN handed : handed[i] < fifo[1]
        <3>1. /\ tbuf.rxPub.payl < fifo[1] /\ ap.img.payl <= tbuf.rxPub.payl
              /\ \A i \in DOMAIN handed : handed[i] <= ap.img.payl
            BY <1>1, <2>5 DEF OrderInv, FifoOrder, ImageOrder, HandedOrder
        <3> QED BY <1>1, <2>5, <3>1, TypedFields
    <2>7. Len(forwarded') = Len(forwarded) + 1 /\ Last(forwarded') = fifo[1]
        <3>1. forwarded \in Seq(1..accepted)
            BY <1>1, ForwardedFields
        <3>2. \A q \in Seq(1..accepted), x \in 1..accepted :
                 Len(Append(q, x)) = Len(q) + 1 /\ Last(Append(q, x)) = x
            BY AppendLast
        <3> QED BY <2>1, <2>5, <3>1, <3>2
    <2>8. ChannelPhase = "free" /\ ChannelPhase' = "posted" /\ Message' = fifo[1]
        BY <1>2, <1>4, <2>3, <2>4, <2>7 DEF ChannelPhase, Message, Done
    <2>9. Channel!Newer(Message')
        <3>1. DOMAIN handed = 1..Len(handed) /\ fifo[1] \in Nat \ {0}
            BY <1>1, <2>5, TypedFields
        <3> QED BY <2>6, <2>8, <3>1 DEF Channel!Newer, Message
    <2> QED BY <1>2, <2>8, <2>9 DEF Channel!Next, Channel!Post, Message
<1> QED BY <1>3, <1>4 DEF processReceiveSm, handleReceiveFrame

LEMMA AcknowledgeImplements ==
    ASSUME IInv, ~timedOut, SyncCb
    PROVE  Channel!Next \/ UNCHANGED Channel!vars
<1>1. /\ ssdoProdStatus' = tbuf.statusPub /\ pcp'.currProdSeq = pcp.currProdSeq
      /\ UNCHANGED <<ap, forwarded, handed, timedOut>>
    BY DEF IInv, TypeOK, SyncCb, apVars, ghosts
<1>2. StatusChain
    BY DEF IInv, ChannelInv
<1>3. CASE ChannelFree' <=> ChannelFree
    BY <1>1, <1>3 DEF Channel!vars, ChannelPhase
<1>4. CASE ChannelFree /\ ~ChannelFree'
    BY <1>1, <1>2, <1>4 DEF StatusChain, ChannelFree
<1>5. CASE ~ChannelFree /\ ChannelFree'
    <2>1. Done
        BY <1>1, <1>2, <1>5 DEF StatusChain, ChannelFree
    <2>2. ChannelPhase = "done" /\ ChannelPhase' = "free" /\ Message' = 0
        BY <1>1, <1>5, <2>1 DEF ChannelPhase, Done, Message
    <2> QED BY <1>1, <2>2 DEF Channel!Next, Channel!Release, Message
<1> QED BY <1>3, <1>4, <1>5

LEMMA TransferImplements ==
    ASSUME IInv, ~timedOut, NEW answer \in Answers, TransferFinished(answer)
    PROVE  Channel!Next \/ UNCHANGED Channel!vars
<1>1. TypeOK /\ OrderInv /\ Published /\ UnderwaySound
    BY DEF IInv, ChannelInv
<1>2. /\ UNCHANGED <<pcp, ssdoProdStatus, forwarded, timedOut>>
      /\ Untouched \/ Finishes \/ Takes \/ Keeps \/ Fails
    BY <1>1, TransferCases
<1>3. (ChannelFree' <=> ChannelFree) /\ Message' = Message
    BY <1>2 DEF ChannelFree, Message
<1>4. CASE Untouched
    BY <1>2, <1>4, ChannelUnmoved DEF Untouched
<1>5. CASE Done
    <2>1. ~ap.busy /\ ~Received.incoming
        BY <1>5, PhaseMeans
    <2> QED BY <1>2, <1>4, <2>1 DEF Finishes, Takes, Keeps, Fails, Passes
<1>6. CASE ~Done /\ Finishes
    <2>1. ap.busy /\ ~ChannelFree
        BY <1>6, PhaseMeans DEF Finishes
    <2>2. Received.currRxSeqNr = pcp.currProdSeq
        BY <1>1, <1>6, ReceivedType DEF Finishes, UnderwaySound, Published
    <2>3. Done' /\ handed' = handed
        BY <1>2, <1>6, <2>2 DEF Finishes, Done
    <2>4. ChannelPhase = "taken" /\ ChannelPhase' = "done"
        BY <1>2, <1>3, <1>6, <2>1, <2>3 DEF ChannelPhase, Done
    <2> QED BY <1>3, <2>3, <2>4 DEF Channel!Next, Channel!Finish, Message
<1>7. CASE ~Done /\ (Takes \/ Keeps \/ Fails)
    <2>1. /\ ~ap.busy /\ Received.incoming /\ handed' = Append(handed, ap.img.payl)
          /\ ~ChannelFree
        BY <1>7, PhaseMeans DEF Takes, Keeps, Fails, Passes
    <2>2. ap.img.payl = Message /\ ap.img.seqNr = pcp.currProdSeq
        BY <1>7, <2>1, PhaseMeans DEF Message
    <2>3. handed' = Append(handed, Message)
        BY <2>1, <2>2
    <2>4. ChannelPhase = "posted"
        BY <1>7, <2>1 DEF ChannelPhase, Done
    <2>5. CASE Takes \/ Keeps
        <3>1. ~Done'
            BY <1>2, <1>7, <2>5 DEF Takes, Keeps, Done
        <3>2. CASE Takes
            <4>1. ChannelPhase' = "taken"
                BY <1>2, <1>3, <2>1, <3>1, <3>2 DEF ChannelPhase, Done, Takes
            <4> QED BY <1>3, <2>3, <2>4, <4>1 DEF Channel!Next, Channel!Take, Message
        <3>3. CASE Keeps
            <4>1. ChannelPhase' = "posted"
                BY <1>2, <1>3, <2>1, <3>1, <3>3 DEF ChannelPhase, Done, Keeps
            <4> QED BY <1>3, <2>3, <2>4, <4>1 DEF Channel!Next, Channel!TakeAndLeave, Message
        <3> QED BY <2>5, <3>2, <3>3
    <2>6. CASE Fails
        <3>1. Received.currRxSeqNr = pcp.currProdSeq
            BY <1>1, <2>2, ReceivedType DEF TypeOK
        <3>2. Done'
            BY <1>2, <2>6, <3>1 DEF Fails, Done
        <3>3. ChannelPhase' = "done"
            BY <1>2, <1>3, <2>1, <3>2 DEF ChannelPhase, Done
        <3> QED BY <1>3, <2>3, <2>4, <3>3 DEF Channel!Next, Channel!TakeAndFinish, Message
    <2> QED BY <1>7, <2>5, <2>6
<1> QED BY <1>2, <1>4, <1>5, <1>6, <1>7

LEMMA NextImplements == IInv /\ [Next]_vars => [Channel!Next]_(Channel!vars)
<1> SUFFICES ASSUME IInv, [Next]_vars PROVE Channel!Next \/ UNCHANGED Channel!vars
    OBVIOUS
<1>1. timedOut \in BOOLEAN /\ (timedOut => timedOut')
    BY DEF IInv, TypeOK, Next, obdAccessCb, processReceiveSm, processTimer, SyncCb, SyncIr,
           TransferFinished, vars, ghosts
<1>2. CASE timedOut
    BY <1>1, <1>2 DEF Channel!Next, Channel!Broken, ChannelPhase
<1>3. CASE ~timedOut /\ UNCHANGED vars
    BY <1>3, ChannelUnmoved DEF vars, apVars, ghosts
<1>4. CASE ~timedOut /\ obdAccessCb
    BY <1>4, ChannelUnmoved DEF obdAccessCb, apVars, IInv, TypeOK
<1>5. CASE ~timedOut /\ processTimer
    <2>1. UNCHANGED <<ssdoProdStatus, ap, forwarded, handed>>
        BY <1>5 DEF processTimer, apVars
    <2>2. CASE Expired(pcp.timer)
        <3>1. timedOut'
            BY <1>5, <2>2 DEF processTimer
        <3> QED BY <1>5, <2>1, <3>1 DEF Channel!Next, Channel!GiveUp, ChannelPhase
    <2>3. CASE ~Expired(pcp.timer)
        <3>1. pcp'.currProdSeq = pcp.currProdSeq /\ timedOut' = timedOut
            BY <1>1, <1>5, <2>3 DEF processTimer, IInv, TypeOK
        <3> QED BY <2>1, <3>1, ChannelUnmoved
    <2> QED BY <2>2, <2>3
<1>6. CASE ~timedOut /\ SyncIr
    BY <1>6, ChannelUnmoved DEF SyncIr, ghosts, IInv, TypeOK
<1> QED BY <1>1, <1>2, <1>3, <1>4, <1>5, <1>6, ForwardImplements, AcknowledgeImplements,
           TransferImplements DEF Next

(* Every forwarded frame handed over until the stack is busy with it or    *)
(* refuses it, and finished before the next one is forwarded: until a      *)
(* timeout, the number, its copies in the status buffer and the busy stack *)
(* are a channel that stops and waits (rssdo.c, ssdo.c).                   *)
THEOREM StopsAndWaits == Spec => ImplementsStopAndWait
<1>1. Init => Channel!Init
    BY DEF Init, Channel!Init, ChannelPhase, ChannelFree
<1> QED BY <1>1, NextImplements, InvariantHolds, PTL DEF Spec, ImplementsStopAndWait, Channel!Spec
=============================================================================
