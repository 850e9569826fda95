---------------------------- MODULE SsdoTxProofs ----------------------------
(***************************************************************************)
(* The SSDO transmit channel for every length of the timeouts and every    *)
(* number of frames: what no timeout disturbs, the alternating bit that    *)
(* holds until one frees the channel, the order of the frames of a single  *)
(* system, which outlives the timeout, and the channel as a StopAndWait.   *)
(***************************************************************************)
EXTENDS SsdoTx, SequenceTheorems, TLAPS

(* The image of the frame posted as number k. *)
FrameOf(k) == [seqNr |-> posted[k], payl |-> k]

(* The image of the AP is the last frame posted, and only a frame that was *)
(* posted has a valid number on the wire or in the published image.        *)
ImageInv ==
    /\ ap.img = IF posted = <<>> THEN EmptyImage ELSE FrameOf(LastFrame)
    /\ ap.isLocked => posted # <<>>
    /\ wire.seqNr \in SeqNr => posted # <<>>
    /\ tbuf.txPub.seqNr \in SeqNr => tbuf.txPub.payl # 0
    /\ pcp.state # "WaitForFrame" => tbuf.txCon.payl # 0 /\ pcp.currConsSeq \in SeqNr
    /\ pcp.reported => pcp.state # "WaitForFrame"

(* The number changes with every frame that has been given up. *)
NumberInv ==
    IF posted = <<>> THEN ap.currTxSeqNr = "Second"
    ELSE ap.currTxSeqNr = IF ap.isLocked THEN ap.img.seqNr ELSE changeLocalSeqNr(ap.img.seqNr)

(* The acknowledge passes through these copies one after the other. *)
StatusChain ==
    LET n == ap.currTxSeqNr
    IN  /\ ssdoTxStatus = n => wire.status = n
        /\ wire.status = n => tbuf.statusPub = n
        /\ tbuf.statusPub = n => pcp.consStatus = n
        /\ pcp.consStatus = n => pcp.currConsSeq = n /\ ap.isLocked

(* The PCP has taken the last frame posted, and before it all others. *)
Done == pcp.currConsSeq = ap.img.seqNr

TakenInv ==
    /\ Len(taken) = IF Done THEN LastFrame ELSE LastFrame - 1
    /\ \A i \in 1..Len(taken) : taken[i] = FrameOf(i)

(* No SDO transfer is under way in the PCP. *)
Waiting == pcp.state = "WaitForFrame" \/ pcp.reported

(* A frame that has been taken locks the channel until its transfer is     *)
(* over; nothing older than it is published any more.                      *)
DoneSound ==
    Done => /\ tbuf.txPub = ap.img
            /\ dma = "payload" => wire.seqNr = ap.img.seqNr
            /\ pcp.state # "WaitForFrame" => tbuf.txCon = ap.img
            /\ ~Waiting => ap.isLocked /\ pcp.consStatus # ap.currTxSeqNr
            /\ Waiting /\ ap.isLocked => pcp.consStatus = ap.currTxSeqNr
            /\ pcp.consStatus = ap.currTxSeqNr => LastFrame \in finished

(* A frame on its way locks the channel: the bus carries its image or the  *)
(* one before, which has the number the PCP knows.                         *)
UnderwaySound ==
    ~Done => /\ ap.isLocked /\ Waiting
             /\ pcp.currConsSeq # ap.img.seqNr
             /\ dma = "payload" => wire.seqNr \in {ap.img.seqNr, pcp.currConsSeq}
             /\ \/ tbuf.txPub.seqNr = pcp.currConsSeq
                \/ /\ tbuf.txPub = ap.img
                   /\ dma = "payload" => wire.seqNr = ap.img.seqNr

(* The alternating bit, until a timeout frees the channel. *)
ChannelInv == ~timedOut => StatusChain /\ TakenInv /\ DoneSound /\ UnderwaySound
                             /\ acked \subseteq finished

(* In a single system nothing is posted while the bus carries an image:    *)
(* every image published is a frame whole and no older than those before,  *)
(* whatever the timeouts.                                                  *)
SingleInv ==
    ~ap.redundant =>
        /\ dma = "payload" => wire.seqNr = ap.img.seqNr
        /\ tbuf.txPub = IF tbuf.txPub.payl = 0 THEN EmptyImage ELSE FrameOf(tbuf.txPub.payl)
        /\ \A i \in 1..Len(taken) :
              /\ taken[i].payl # 0 /\ taken[i] = FrameOf(taken[i].payl)
              /\ \A j \in 1..(i-1) : taken[j].payl < taken[i].payl
              /\ taken[i].payl <= tbuf.txPub.payl
              /\ taken[i].payl = tbuf.txPub.payl => pcp.currConsSeq = tbuf.txPub.seqNr

IInv == TypeOK /\ ImageInv /\ NumberInv /\ PendingFindsUnlocked /\ ChannelInv /\ SingleInv

-----------------------------------------------------------------------------
(* The type of the AP instance when n frames have been posted. *)
ApType(n) == [img : [seqNr : SeqNr \cup {"Invalid"}, payl : 0..n], currTxSeqNr : SeqNr,
              isLocked : BOOLEAN, timer : Timer(TimeoutLimit), redundant : BOOLEAN]
PcpType == [state : {"WaitForFrame", "ProcessFrame", "WaitForTxFinished",
                     "WaitForNextArpRetry"},
            currConsSeq : SeqNr \cup {"Invalid"}, consStatus : SeqNr,
            arpTimer : Timer(ArpLimit), reported : BOOLEAN]

LEMMA OtherSeqNr ==
    /\ \A s \in SeqNr : changeLocalSeqNr(s) \in SeqNr /\ changeLocalSeqNr(s) # s
    /\ \A s, t \in SeqNr : s # t => t = changeLocalSeqNr(s)
    /\ "Invalid" \notin SeqNr
BY DEF changeLocalSeqNr, SeqNr

LEMMA TimerType ==
    ASSUME NEW limit \in Nat, NEW t \in Timer(limit)
    PROVE  /\ incrementCounter(t, limit) \in Timer(limit)
           /\ Started \in Timer(limit) /\ Stopped \in Timer(limit)
           /\ ~Expired(Started, limit)
BY DEF Timer, incrementCounter, Started, Stopped, Expired

(* What the operators of the AP do, field by field. *)
LEMMA PostFields ==
    ASSUME NEW a \in ApType(LastFrame), LastFrame \in Nat
    PROVE  LET b == ssdo_postPayload(a)
           IN  /\ b \in ApType(LastFrame + 1)
               /\ b.img = [seqNr |-> a.currTxSeqNr, payl |-> LastFrame + 1]
               /\ b.isLocked = TRUE /\ b.timer = Started
               /\ b.currTxSeqNr = a.currTxSeqNr /\ b.redundant = a.redundant
<1>1. Started \in Timer(TimeoutLimit)
    BY LimitAssumption DEF Timer, Started
<1>2. LastFrame + 1 \in 0..(LastFrame + 1)
    OBVIOUS
<1> QED BY <1>1, <1>2 DEF ApType, ssdo_postPayload

LEMMA HandleFields ==
    ASSUME NEW n \in Nat, NEW a \in ApType(n), NEW flag \in SeqNr
    PROVE  LET b == ssdo_handleTxFrame(a, flag)
               free == a.isLocked /\ (flag = a.currTxSeqNr \/ Expired(a.timer, TimeoutLimit))
           IN  /\ b \in ApType(n)
               /\ b.img = a.img /\ b.redundant = a.redundant
               /\ free => /\ b.isLocked = FALSE /\ b # a
                          /\ b.currTxSeqNr = changeLocalSeqNr(a.currTxSeqNr)
               /\ ~free => b = a
<1>1. Stopped \in Timer(TimeoutLimit)
    BY LimitAssumption DEF Timer, Stopped
<1>2. changeLocalSeqNr(a.currTxSeqNr) \in SeqNr
    BY OtherSeqNr DEF ApType
<1> QED BY <1>1, <1>2 DEF ApType, ssdo_handleTxFrame

(* What one step of the AP does to the channel, but for its timer. *)
Image(s, n) == [seqNr |-> s, payl |-> n]
Numbers == UNCHANGED <<acked, timedOut>>
Keeps ==
    /\ ap'.img = ap.img /\ ap'.isLocked = ap.isLocked /\ ap'.currTxSeqNr = ap.currTxSeqNr
    /\ posted' = posted /\ Numbers
Posts(s) ==
    /\ posted' = Append(posted, s) /\ ap'.img = Image(s, LastFrame + 1)
FreedBy(n, s) ==
    /\ acked' = IF wire.status = s THEN acked \cup {n} ELSE acked
    /\ timedOut' = (timedOut \/ wire.status # s)
PostsOnly ==
    /\ ~ap.isLocked /\ Posts(ap.currTxSeqNr) /\ Numbers
    /\ ap'.isLocked = TRUE /\ ap'.currTxSeqNr = ap.currTxSeqNr
Frees ==
    /\ ap.isLocked /\ ap'.img = ap.img /\ posted' = posted
    /\ ap'.isLocked = FALSE /\ ap'.currTxSeqNr = changeLocalSeqNr(ap.currTxSeqNr)
    /\ FreedBy(ap.img.payl, ap.currTxSeqNr)
FreesAndPosts ==
    /\ ap.isLocked /\ Posts(changeLocalSeqNr(ap.currTxSeqNr))
    /\ ap'.isLocked = TRUE /\ ap'.currTxSeqNr = changeLocalSeqNr(ap.currTxSeqNr)
    /\ FreedBy(ap.img.payl, ap.currTxSeqNr)
PostsAndFrees ==
    /\ ~ap.isLocked /\ Posts(ap.currTxSeqNr) /\ wire.status = ap.currTxSeqNr
    /\ ap'.isLocked = FALSE /\ ap'.currTxSeqNr = changeLocalSeqNr(ap.currTxSeqNr)
    /\ FreedBy(LastFrame + 1, ap.currTxSeqNr)

ApStep ==
    /\ ap' \in ApType(Len(posted')) /\ ap'.redundant = ap.redundant
    /\ pendingPost' \in BOOLEAN /\ PendingFindsUnlocked'
    /\ UNCHANGED <<wire, tbuf, pcp, pcpUp, taken, finished>>

LEMMA PostedLength ==
    ASSUME TypeOK, NEW s \in SeqNr
    PROVE  /\ LastFrame \in Nat
           /\ Append(posted, s) \in Seq(SeqNr) /\ Append(posted, s) # <<>>
           /\ Len(Append(posted, s)) = LastFrame + 1
           /\ Append(posted, s)[LastFrame + 1] = s
           /\ \A k \in 1..LastFrame : Append(posted, s)[k] = posted[k]
<1>1. posted \in Seq(SeqNr)
    BY DEF TypeOK
<1> QED BY <1>1, AppendProperties, LenProperties DEF LastFrame

LEMMA TypedFields ==
    ASSUME TypeOK
    PROVE  /\ ap \in ApType(LastFrame) /\ pcp \in PcpType
           /\ ap.img.seqNr \in SeqNr \cup {"Invalid"} /\ ap.img.payl \in 0..LastFrame
           /\ ap.img = Image(ap.img.seqNr, ap.img.payl)
           /\ ap.currTxSeqNr \in SeqNr /\ ap.isLocked \in BOOLEAN /\ ap.redundant \in BOOLEAN
           /\ ap.timer \in Timer(TimeoutLimit)
           /\ wire.status \in SeqNr /\ wire.seqNr \in SeqNr \cup {"Invalid"}
           /\ LastFrame \in Nat
<1>1. ap \in ApType(LastFrame) /\ pcp \in PcpType
    BY DEF TypeOK, ApType, PcpType, ImageType
<1>2. LastFrame \in Nat
    BY LenProperties DEF TypeOK, LastFrame
<1> QED BY <1>1, <1>2 DEF TypeOK, ApType, Image

(* A step that leaves the image alone posts nothing, one with a new image  *)
(* posts it.                                                               *)
LEMMA RecordCases ==
    ASSUME TypeOK, NEW t, NEW flag, NEW freed, Record(t, flag, freed)
    PROVE  /\ ap'.img = ap.img => posted' = posted
           /\ \A s \in SeqNr : ap'.img = Image(s, LastFrame + 1) => posted' = Append(posted, s)
           /\ acked' = IF freed /\ flag = t.currTxSeqNr THEN acked \cup {t.img.payl} ELSE acked
           /\ timedOut' = (timedOut \/ (freed /\ flag # t.currTxSeqNr))
           /\ UNCHANGED <<taken, finished>>
<1>1. ASSUME NEW s \in SeqNr, ap'.img = Image(s, LastFrame + 1) PROVE posted' = Append(posted, s)
    <2>1. Image(s, LastFrame + 1).payl = LastFrame + 1 /\ Image(s, LastFrame + 1).seqNr = s
        BY DEF Image
    <2>2. ap'.img # ap.img
        BY <1>1, <2>1, TypedFields
    <2> QED BY <1>1, <2>1, <2>2 DEF Record
<1> QED BY <1>1 DEF Record

LEMMA TransferOutcome ==
    ASSUME TypeOK, PendingFindsUnlocked, NEW done \in BOOLEAN, TransferFinished(done)
    PROVE  /\ dma = "finished" /\ dma' = "idle" /\ ssdoTxStatus' = wire.status
           /\ syncTask' \in {"Shnf", "Sapl", "State"} /\ ssdoRxBusy' \in BOOLEAN
           /\ ApStep
           /\ \/ Keeps \/ Frees
              \/ ~ap.redundant /\ (PostsOnly \/ FreesAndPosts \/ PostsAndFrees)
<1> DEFINE a == [ap EXCEPT !.timer = incrementCounter(@, TimeoutLimit)]
           flag == wire.status
<1>1. /\ a \in ApType(LastFrame)
      /\ a.img = ap.img /\ a.isLocked = ap.isLocked /\ a.currTxSeqNr = ap.currTxSeqNr
      /\ a.redundant = ap.redundant
    <2>1. incrementCounter(ap.timer, TimeoutLimit) \in Timer(TimeoutLimit)
        BY TypedFields, TimerType, LimitAssumption
    <2> QED BY <2>1, TypedFields DEF ApType
<1>2. /\ dma = "finished" /\ dma' = "idle" /\ ssdoTxStatus' = wire.status
      /\ UNCHANGED <<wire, tbuf, pcp, pcpUp>>
      /\ ShnfReady(a, flag) \/ ShnfBusy(a, done) \/ OtherTask(a)
    BY DEF TransferFinished
<1>3. syncTask' \in {"Shnf", "Sapl", "State"}
    BY DEF TransferFinished, TypeOK
<1> HIDE DEF a, flag
<1>4. flag \in SeqNr /\ flag = wire.status /\ LastFrame \in Nat
    BY TypedFields DEF flag
<1>5. \A x \in ApType(LastFrame) :
          \/ MarkTxMemBlock(x) = x
          \/ /\ MarkTxMemBlock(x) = ssdo_postPayload(x)
             /\ ~x.isLocked /\ ~x.redundant /\ LastFrame < MaxFrames
    BY <1>4, LimitAssumption DEF MarkTxMemBlock
<1>6. \A s \in SeqNr : posted' = Append(posted, s) => Len(posted') = LastFrame + 1
    BY PostedLength
<1>7. CASE OtherTask(a)
    <2>1. ap' = a /\ UNCHANGED <<ssdoRxBusy, pendingPost, ghosts>>
        BY <1>7 DEF OtherTask
    <2>2. Keeps
        BY <1>1, <2>1 DEF Keeps, Numbers, ghosts
    <2>3. ApStep
        BY <1>1, <1>2, <2>1, <2>2 DEF Keeps, ApStep, PendingFindsUnlocked, TypeOK, ghosts, LastFrame
    <2> QED BY <1>2, <1>3, <2>1, <2>2, <2>3 DEF TypeOK
<1>8. CASE ShnfBusy(a, done)
    <2>1. ssdoRxBusy' \in BOOLEAN /\ Record(a, "none", FALSE)
        BY <1>8 DEF ShnfBusy
    <2>2. /\ UNCHANGED <<taken, finished>> /\ Numbers
          /\ ap'.img = ap.img => posted' = posted
          /\ \A s \in SeqNr : ap'.img = Image(s, LastFrame + 1) => posted' = Append(posted, s)
        BY <2>1, RecordCases DEF TypeOK, Numbers
    <2>3. PICK mark \in BOOLEAN :
              /\ ap' = IF mark THEN MarkTxMemBlock(a) ELSE a
              /\ pendingPost' = (pendingPost \/ (mark /\ MarkPending(a)))
        BY <1>8 DEF ShnfBusy
    <2>4. pendingPost' \in BOOLEAN /\ (pendingPost' => ap.redundant /\ ~ap.isLocked)
        BY <1>1, <2>3 DEF TypeOK, MarkPending, PendingFindsUnlocked
    <2>5. CASE ap' = a
        <3>1. Keeps
            BY <1>1, <2>2, <2>5 DEF Keeps
        <3>2. ApStep
            BY <1>1, <1>2, <2>2, <2>4, <2>5, <3>1 DEF Keeps, ApStep, PendingFindsUnlocked, LastFrame
        <3> QED BY <1>2, <1>3, <2>1, <3>1, <3>2
    <2>6. CASE ap' # a
        <3>1. /\ ap' = ssdo_postPayload(a)
              /\ ~a.isLocked /\ ~a.redundant /\ LastFrame < MaxFrames
            BY <1>1, <1>5, <2>3, <2>6
        <3>2. /\ ap' \in ApType(LastFrame + 1)
              /\ ap'.img = Image(ap.currTxSeqNr, LastFrame + 1)
              /\ ap'.isLocked = TRUE /\ ap'.currTxSeqNr = ap.currTxSeqNr
              /\ ap'.redundant = ap.redundant
            BY <1>1, <1>4, <3>1, PostFields DEF Image
        <3>3. posted' = Append(posted, ap.currTxSeqNr)
            BY <2>2, <3>2, TypedFields
        <3>4. PostsOnly
            BY <1>1, <2>2, <3>1, <3>2, <3>3 DEF PostsOnly, Posts
        <3>5. ApStep
            BY <1>1, <1>2, <1>6, <2>2, <2>4, <3>1, <3>2, <3>3, TypedFields DEF ApStep, PendingFindsUnlocked
        <3> QED BY <1>1, <1>2, <1>3, <2>1, <3>1, <3>4, <3>5
    <2> QED BY <2>5, <2>6
<1>9. CASE ShnfReady(a, flag)
    <2>1. ssdoRxBusy' \in BOOLEAN
        BY <1>9 DEF ShnfReady
    <2>2. PICK mark \in {"none", "rx", "timer"} :
              LET b == IF mark = "rx" THEN MarkTxMemBlock(a) ELSE a
                  c == ssdo_handleTxFrame(b, flag)
              IN  /\ ap' = IF mark = "timer" THEN MarkTxMemBlock(c) ELSE c
                  /\ pendingPost' = (pendingPost \/ (mark = "rx" /\ MarkPending(a))
                                                 \/ (mark = "timer" /\ MarkPending(c)))
                  /\ Record(b, flag, c # b)
        BY <1>9 DEF ShnfReady
    <2>3. CASE mark = "rx" /\ MarkTxMemBlock(a) # a
        <3> DEFINE b == ssdo_postPayload(a)
                   c == ssdo_handleTxFrame(b, flag)
        <3>1. /\ MarkTxMemBlock(a) = b
              /\ ~a.isLocked /\ ~a.redundant /\ LastFrame < MaxFrames
            BY <1>1, <1>5, <2>3
        <3>2. /\ ap' = c /\ Record(b, flag, c # b)
              /\ pendingPost' = (pendingPost \/ MarkPending(a))
            BY <2>2, <2>3, <3>1
        <3>3. /\ b \in ApType(LastFrame + 1)
              /\ b.img = Image(ap.currTxSeqNr, LastFrame + 1)
              /\ b.isLocked = TRUE /\ b.timer = Started /\ b.currTxSeqNr = ap.currTxSeqNr
              /\ b.redundant = ap.redundant
            BY <1>1, <1>4, PostFields DEF Image
        <3> HIDE DEF b
        <3>4. /\ c \in ApType(LastFrame + 1) /\ c.img = b.img /\ c.redundant = b.redundant
              /\ flag = b.currTxSeqNr =>
                     /\ c.isLocked = FALSE /\ c # b
                     /\ c.currTxSeqNr = changeLocalSeqNr(b.currTxSeqNr)
              /\ flag # b.currTxSeqNr => c = b
            <4>1. ~Expired(b.timer, TimeoutLimit) /\ LastFrame + 1 \in Nat
                BY <1>4, <3>3, LimitAssumption, TimerType DEF Started, Expired
            <4> QED BY <1>4, <3>3, <4>1, HandleFields
        <3> HIDE DEF c
        <3>5. b.img.payl = LastFrame + 1
            BY <3>3 DEF Image
        <3>6. /\ UNCHANGED <<taken, finished>> /\ posted' = Append(posted, ap.currTxSeqNr)
              /\ acked' = IF c # b /\ flag = b.currTxSeqNr THEN acked \cup {LastFrame + 1} ELSE acked
              /\ timedOut' = (timedOut \/ (c # b /\ flag # b.currTxSeqNr))
            BY <3>2, <3>3, <3>4, <3>5, RecordCases, TypedFields
        <3>7. pendingPost' = pendingPost /\ ~pendingPost
            BY <1>1, <3>1, <3>2 DEF MarkPending, TypeOK, PendingFindsUnlocked
        <3>8. ApStep
            BY <1>2, <1>6, <3>2, <3>3, <3>4, <3>6, <3>7, TypedFields
            DEF ApStep, PendingFindsUnlocked
        <3>9. CASE flag = b.currTxSeqNr
            <4>1. PostsAndFrees
                BY <1>1, <1>4, <3>1, <3>2, <3>3, <3>4, <3>6, <3>9
                DEF PostsAndFrees, Posts, FreedBy, TypeOK
            <4> QED BY <1>1, <1>2, <1>3, <2>1, <3>1, <3>8, <4>1
        <3>10. CASE flag # b.currTxSeqNr
            <4>1. PostsOnly
                BY <1>1, <3>1, <3>2, <3>3, <3>4, <3>6, <3>10
                DEF PostsOnly, Posts, Numbers, TypeOK
            <4> QED BY <1>1, <1>2, <1>3, <2>1, <3>1, <3>8, <4>1
        <3> QED BY <3>9, <3>10
    <2>4. CASE ~(mark = "rx" /\ MarkTxMemBlock(a) # a)
        <3> DEFINE c == ssdo_handleTxFrame(a, flag)
                   free == a.isLocked /\ (flag = a.currTxSeqNr \/ Expired(a.timer, TimeoutLimit))
        <3>1. /\ ap' = IF mark = "timer" THEN MarkTxMemBlock(c) ELSE c
              /\ pendingPost' = (pendingPost \/ (mark = "rx" /\ MarkPending(a))
                                             \/ (mark = "timer" /\ MarkPending(c)))
              /\ Record(a, flag, c # a)
            BY <2>2, <2>4
        <3>2. /\ c \in ApType(LastFrame) /\ c.img = ap.img /\ c.redundant = ap.redundant
              /\ free => /\ c.isLocked = FALSE /\ c # a
                         /\ c.currTxSeqNr = changeLocalSeqNr(ap.currTxSeqNr)
              /\ ~free => c = a
            <4>1. /\ c \in ApType(LastFrame) /\ c.img = a.img /\ c.redundant = a.redundant
                  /\ free => /\ c.isLocked = FALSE /\ c # a
                             /\ c.currTxSeqNr = changeLocalSeqNr(a.currTxSeqNr)
                  /\ ~free => c = a
                <5>1. a \in ApType(LastFrame) /\ LastFrame \in Nat /\ flag \in SeqNr
                    BY <1>1, <1>4
                <5> HIDE DEF a, flag, LastFrame
                <5> QED BY <5>1, HandleFields
            <4> QED BY <1>1, <4>1
        <3> HIDE DEF c
        <3>3. /\ UNCHANGED <<taken, finished>>
              /\ ap'.img = ap.img => posted' = posted
              /\ \A s \in SeqNr : ap'.img = Image(s, LastFrame + 1) => posted' = Append(posted, s)
              /\ c = a => Numbers
              /\ c # a => FreedBy(ap.img.payl, ap.currTxSeqNr)
            <4>1. /\ acked' = IF c # a /\ flag = a.currTxSeqNr THEN acked \cup {a.img.payl} ELSE acked
                  /\ timedOut' = (timedOut \/ (c # a /\ flag # a.currTxSeqNr))
                BY <3>1 DEF Record
            <4>2. timedOut \in BOOLEAN
                BY DEF TypeOK
            <4> QED BY <1>1, <1>4, <3>1, <4>1, <4>2, RecordCases DEF Numbers, FreedBy
        <3>4. /\ c.currTxSeqNr \in SeqNr /\ c.isLocked \in BOOLEAN
              /\ free => a.isLocked
            BY <3>2 DEF ApType
        <3>5. /\ pendingPost' \in BOOLEAN
              /\ pendingPost' => ap.redundant /\ ~c.isLocked
            BY <1>1, <3>1, <3>2 DEF TypeOK, MarkPending, PendingFindsUnlocked
        <3>6. CASE ap' = c
            <4>1. Keeps \/ Frees
                <5>1. CASE free
                    BY <1>1, <3>2, <3>3, <3>6, <5>1 DEF Frees
                <5>2. CASE ~free
                    BY <1>1, <3>2, <3>3, <3>6, <5>2 DEF Keeps
                <5> QED BY <5>1, <5>2
            <4>2. ApStep
                BY <1>2, <3>2, <3>3, <3>5, <3>6 DEF ApStep, PendingFindsUnlocked, LastFrame
            <4> QED BY <1>2, <1>3, <2>1, <4>1, <4>2
        <3>7. CASE ap' # c
            <4>1. /\ ap' = ssdo_postPayload(c)
                  /\ ~c.isLocked /\ ~c.redundant /\ LastFrame < MaxFrames
                BY <1>5, <3>1, <3>2, <3>7
            <4>2. /\ ap' \in ApType(LastFrame + 1)
                  /\ ap'.img = Image(c.currTxSeqNr, LastFrame + 1)
                  /\ ap'.isLocked = TRUE /\ ap'.currTxSeqNr = c.currTxSeqNr
                  /\ ap'.redundant = ap.redundant
                BY <1>4, <3>2, <4>1, PostFields DEF Image
            <4>3. posted' = Append(posted, c.currTxSeqNr)
                BY <3>3, <3>4, <4>2
            <4>4. PostsOnly \/ FreesAndPosts
                <5>1. CASE free
                    BY <1>1, <3>2, <3>3, <4>1, <4>2, <4>3, <5>1 DEF FreesAndPosts, Posts
                <5>2. CASE ~free
                    BY <1>1, <3>2, <3>3, <4>1, <4>2, <4>3, <5>2 DEF PostsOnly, Posts
                <5> QED BY <5>1, <5>2
            <4>5. ApStep
                BY <1>2, <1>6, <3>2, <3>3, <3>4, <3>5, <4>1, <4>2, <4>3 DEF ApStep, PendingFindsUnlocked
            <4> QED BY <1>2, <1>3, <2>1, <3>2, <4>1, <4>4, <4>5
        <3> QED BY <3>6, <3>7
    <2> QED BY <2>3, <2>4
<1> QED BY <1>2, <1>7, <1>8, <1>9

(* The interrupt of the serial line posts the waiting frame. *)
LEMMA SerialOutcome ==
    ASSUME TypeOK, PendingFindsUnlocked, SerialReceived
    PROVE  /\ ApStep /\ UNCHANGED <<ssdoTxStatus, ssdoRxBusy, syncTask, dma>>
           /\ ap.redundant /\ PostsOnly
<1>1. /\ pendingPost /\ pendingPost' = FALSE /\ Record(ap, "none", FALSE)
      /\ ap' = IF ap.isLocked THEN ap ELSE ssdo_postPayload(ap)
      /\ UNCHANGED <<ssdoTxStatus, ssdoRxBusy, syncTask, dma, wire, tbuf, pcp, pcpUp>>
    BY DEF SerialReceived, busVars
<1>2. ap.redundant /\ ~ap.isLocked /\ ap' = ssdo_postPayload(ap)
    BY <1>1 DEF PendingFindsUnlocked
<1>3. /\ ap' \in ApType(LastFrame + 1)
      /\ ap'.img = Image(ap.currTxSeqNr, LastFrame + 1)
      /\ ap'.isLocked = TRUE /\ ap'.currTxSeqNr = ap.currTxSeqNr
      /\ ap'.redundant = ap.redundant
    BY <1>2, TypedFields, PostFields DEF Image
<1>4. posted' = Append(posted, ap.currTxSeqNr) /\ UNCHANGED <<taken, finished>> /\ Numbers
    BY <1>1, <1>3, RecordCases, TypedFields DEF TypeOK, Numbers
<1>5. ApStep
    BY <1>1, <1>3, <1>4, PostedLength, TypedFields DEF ApStep, PendingFindsUnlocked
<1> QED BY <1>1, <1>2, <1>3, <1>4, <1>5 DEF PostsOnly, Posts

(* What one step of the PCP does to the channel. *)
Quiet ==
    /\ pcp'.currConsSeq = pcp.currConsSeq /\ pcp'.consStatus = pcp.consStatus
    /\ pcp'.reported = pcp.reported
    /\ (pcp'.state = "WaitForFrame") = (pcp.state = "WaitForFrame")
    /\ UNCHANGED <<tbuf, taken, finished>>
Publishes(con) ==
    /\ tbuf'.txPub = tbuf.txPub /\ tbuf'.statusPub = pcp.consStatus /\ tbuf'.txCon = con
    /\ UNCHANGED finished
Skips ==
    /\ IF pcp.state = "WaitForFrame" THEN Publishes(tbuf.txPub) ELSE Publishes(tbuf.txCon)
    /\ pcp'.currConsSeq = pcp.currConsSeq /\ pcp'.consStatus = pcp.consStatus
    /\ pcp'.reported = pcp.reported /\ pcp'.state = pcp.state
    /\ UNCHANGED taken
Takes ==
    /\ pcp.state = "WaitForFrame" /\ Publishes(tbuf.txPub)
    /\ tbuf.txPub.seqNr \in SeqNr /\ tbuf.txPub.seqNr # pcp.currConsSeq
    /\ pcp'.currConsSeq = tbuf.txPub.seqNr /\ pcp'.consStatus = pcp.consStatus
    /\ pcp'.reported = pcp.reported /\ pcp'.state = "ProcessFrame"
    /\ taken' = Append(taken, tbuf.txPub)
Acknowledges ==
    /\ pcp.state # "WaitForFrame" /\ ~pcp.reported
    /\ pcp'.currConsSeq = pcp.currConsSeq /\ pcp'.consStatus = pcp.currConsSeq
    /\ pcp'.reported = TRUE /\ pcp'.state = pcp.state
    /\ finished' = finished \cup {tbuf.txCon.payl}
    /\ UNCHANGED <<tbuf, taken>>
Resumes ==
    /\ pcp.reported
    /\ pcp'.currConsSeq = pcp.currConsSeq /\ pcp'.consStatus = pcp.consStatus
    /\ pcp'.reported = FALSE /\ pcp'.state = "WaitForFrame"
    /\ UNCHANGED <<tbuf, taken, finished>>
PcpStep ==
    /\ pcp' \in PcpType /\ pcpUp' \in BOOLEAN
    /\ tbuf' \in [txPub : ImageType, txCon : ImageType, statusPub : SeqNr]
    /\ UNCHANGED <<apVars, busVars, posted, acked, timedOut>>

LEMMA SyncOutcome ==
    ASSUME TypeOK, SyncCb
    PROVE  PcpStep /\ (Skips \/ Takes)
<1>1. pcpUp' = pcpUp /\ UNCHANGED <<apVars, busVars, posted, finished, acked, timedOut>>
      /\ handleIncoming
    BY DEF SyncCb
<1>2. CASE pcp.state = "WaitForFrame"
    <2>1. tbuf' = [tbuf EXCEPT !.statusPub = pcp.consStatus, !.txCon = tbuf.txPub]
        BY <1>1, <1>2 DEF handleIncoming
    <2>2. /\ tbuf' \in [txPub : ImageType, txCon : ImageType, statusPub : SeqNr]
          /\ Publishes(tbuf.txPub)
        BY <1>1, <2>1 DEF TypeOK, Publishes
    <2>3. CASE Incoming \in SeqNr /\ Incoming # pcp.currConsSeq
        <3>1. /\ pcp' = [pcp EXCEPT !.state = "ProcessFrame", !.currConsSeq = Incoming]
              /\ taken' = Append(taken, tbuf.txPub)
            BY <1>1, <1>2, <2>3 DEF handleIncoming
        <3>2. /\ pcp' \in PcpType /\ pcp'.currConsSeq = Incoming
              /\ pcp'.consStatus = pcp.consStatus /\ pcp'.reported = pcp.reported
              /\ pcp'.state = "ProcessFrame"
            BY <2>3, <3>1, TypedFields DEF PcpType
        <3> QED BY <1>1, <1>2, <2>2, <2>3, <3>1, <3>2 DEF PcpStep, Takes, Incoming, TypeOK
    <2>4. CASE ~(Incoming \in SeqNr /\ Incoming # pcp.currConsSeq)
        <3>1. pcp' = pcp /\ taken' = taken
            BY <1>1, <1>2, <2>4 DEF handleIncoming
        <3> QED BY <1>1, <1>2, <2>2, <3>1, TypedFields DEF PcpStep, Skips, TypeOK
    <2> QED BY <2>3, <2>4
<1>3. CASE pcp.state # "WaitForFrame"
    <2>1. /\ tbuf' = [tbuf EXCEPT !.statusPub = pcp.consStatus]
          /\ pcp' = [pcp EXCEPT !.arpTimer = incrementCounter(@, ArpLimit)]
          /\ taken' = taken
        BY <1>1, <1>3 DEF handleIncoming
    <2>2. /\ tbuf' \in [txPub : ImageType, txCon : ImageType, statusPub : SeqNr]
          /\ Publishes(tbuf.txCon)
        BY <1>1, <2>1 DEF TypeOK, Publishes
    <2>3. incrementCounter(pcp.arpTimer, ArpLimit) \in Timer(ArpLimit)
        BY TimerType, LimitAssumption DEF TypeOK
    <2>4. /\ pcp' \in PcpType /\ pcp'.currConsSeq = pcp.currConsSeq
          /\ pcp'.consStatus = pcp.consStatus /\ pcp'.reported = pcp.reported
          /\ pcp'.state = pcp.state
        BY <2>1, <2>3, TypedFields DEF PcpType
    <2> QED BY <1>1, <1>3, <2>1, <2>2, <2>4 DEF PcpStep, Skips, TypeOK
<1> QED BY <1>2, <1>3

PcpBackground == TransmitDeferred \/ TransmitNeedsArp \/ TransmitFails \/ ArpRetry
                     \/ SetConsChanFlag \/ TransferFinishedState

LEMMA BackgroundOutcome ==
    ASSUME TypeOK, ImageInv, PcpBackground
    PROVE  PcpStep /\ (Quiet \/ Acknowledges \/ Resumes)
<1>1. UNCHANGED <<apVars, busVars, tbuf, posted, taken, acked, timedOut>>
    BY DEF PcpBackground, TransmitDeferred, TransmitNeedsArp, TransmitFails, ArpRetry,
           SetConsChanFlag, TransferFinishedState, Background
<1>2. /\ tbuf' \in [txPub : ImageType, txCon : ImageType, statusPub : SeqNr]
      /\ pcpUp' \in BOOLEAN
    BY <1>1 DEF TypeOK, PcpBackground, TransmitDeferred, TransmitNeedsArp, TransmitFails, ArpRetry,
           SetConsChanFlag, TransferFinishedState
<1>3. Started \in Timer(ArpLimit) /\ Stopped \in Timer(ArpLimit)
    BY LimitAssumption DEF Timer, Started, Stopped
<1>4. CASE TransmitDeferred \/ TransmitNeedsArp \/ TransmitFails \/ ArpRetry
    <2>1. /\ pcp' \in PcpType /\ pcp'.currConsSeq = pcp.currConsSeq
          /\ pcp'.consStatus = pcp.consStatus /\ pcp'.reported = pcp.reported
          /\ pcp'.state # "WaitForFrame" /\ pcp.state # "WaitForFrame"
          /\ finished' = finished
        BY <1>3, <1>4, TypedFields
        DEF PcpType, TransmitDeferred, TransmitNeedsArp, TransmitFails, ArpRetry
    <2> QED BY <1>1, <1>2, <2>1 DEF PcpStep, Quiet
<1>5. CASE SetConsChanFlag
    <2>1. /\ pcp.state # "WaitForFrame" /\ ~pcp.reported
          /\ pcp.state \in {"ProcessFrame", "WaitForTxFinished"}
          /\ pcp' = [pcp EXCEPT !.consStatus = pcp.currConsSeq, !.reported = TRUE]
          /\ finished' = finished \cup {tbuf.txCon.payl}
        BY <1>5 DEF SetConsChanFlag
    <2>2. pcp.currConsSeq \in SeqNr
        BY <2>1 DEF ImageInv
    <2>3. /\ pcp' \in PcpType /\ pcp'.currConsSeq = pcp.currConsSeq
          /\ pcp'.consStatus = pcp.currConsSeq /\ pcp'.reported = TRUE
          /\ pcp'.state = pcp.state
        BY <2>1, <2>2, TypedFields DEF PcpType
    <2> QED BY <1>1, <1>2, <2>1, <2>3 DEF PcpStep, Acknowledges
<1>6. CASE TransferFinishedState
    <2>1. /\ pcp.reported /\ finished' = finished
          /\ pcp' = [pcp EXCEPT !.state = "WaitForFrame", !.reported = FALSE]
        BY <1>6 DEF TransferFinishedState
    <2>2. /\ pcp' \in PcpType /\ pcp'.currConsSeq = pcp.currConsSeq
          /\ pcp'.consStatus = pcp.consStatus /\ pcp'.reported = FALSE
          /\ pcp'.state = "WaitForFrame"
        BY <2>1, TypedFields DEF PcpType
    <2> QED BY <1>1, <1>2, <2>1, <2>2 DEF PcpStep, Resumes
<1> QED BY <1>4, <1>5, <1>6 DEF PcpBackground

-----------------------------------------------------------------------------
(* The frames that were posted stay what they are. *)
LEMMA FramesStay ==
    ASSUME TypeOK, NEW s \in SeqNr, posted' = Append(posted, s)
    PROVE  /\ LastFrame \in Nat /\ LastFrame' = LastFrame + 1 /\ posted' # <<>>
           /\ posted'[LastFrame + 1] = s /\ posted' \in Seq(SeqNr)
           /\ \A k \in 1..LastFrame : posted'[k] = posted[k]
           /\ ImageType \subseteq ImageType' /\ Frames \subseteq Frames'
           /\ LastFrame + 1 \in Frames'
<1>1. /\ LastFrame \in Nat /\ LastFrame' = LastFrame + 1 /\ posted' # <<>>
      /\ posted'[LastFrame + 1] = s /\ posted' \in Seq(SeqNr)
      /\ \A k \in 1..LastFrame : posted'[k] = posted[k]
    BY PostedLength DEF LastFrame
<1>2. 0..LastFrame \subseteq 0..LastFrame' /\ 1..LastFrame \subseteq 1..LastFrame'
      /\ LastFrame + 1 \in 1..LastFrame'
    BY <1>1
<1> QED BY <1>1, <1>2 DEF ImageType, Frames, LastFrame

LEMMA PostedEmpty ==
    ASSUME TypeOK
    PROVE  /\ posted = <<>> <=> LastFrame = 0
           /\ LastFrame \in Nat
BY EmptySeq, LenProperties DEF TypeOK, LastFrame

ApOutcome == Keeps \/ Frees \/ PostsOnly \/ FreesAndPosts \/ PostsAndFrees

LEMMA OutcomeCases ==
    ASSUME TypeOK, ApOutcome
    PROVE  \/ posted' = posted /\ ap'.img = ap.img
           \/ \E s \in SeqNr : Posts(s)
BY OtherSeqNr, TypedFields
DEF ApOutcome, Keeps, Frees, PostsOnly, FreesAndPosts, PostsAndFrees, Posts

LEMMA ApStepType ==
    ASSUME TypeOK, ImageInv, ApStep, ApOutcome,
           ssdoTxStatus' \in SeqNr, ssdoRxBusy' \in BOOLEAN,
           syncTask' \in {"Shnf", "Sapl", "State"},
           dma' \in {"idle", "seqNr", "payload", "finished"}
    PROVE  TypeOK'
<1>1. /\ LastFrame' \in Nat /\ posted' \in Seq(SeqNr)
      /\ ImageType \subseteq ImageType' /\ Frames \subseteq Frames'
    <2>1. CASE posted' = posted
        BY <2>1, TypedFields DEF TypeOK, ImageType, Frames, LastFrame
    <2>2. CASE \E s \in SeqNr : Posts(s)
        BY <2>2, FramesStay DEF Posts
    <2> QED BY <2>1, <2>2, OutcomeCases
<1>2. ap' \in [img : ImageType', currTxSeqNr : SeqNr, isLocked : BOOLEAN,
               timer : Timer(TimeoutLimit), redundant : BOOLEAN]
    BY DEF ApStep, ApType, ImageType, LastFrame
<1>3. timedOut' \in BOOLEAN
    BY DEF ApOutcome, Keeps, Frees, PostsOnly, FreesAndPosts, PostsAndFrees, FreedBy, Numbers, TypeOK
<1>4. acked' \subseteq Frames'
    <2>1. acked \subseteq Frames'
        BY <1>1 DEF TypeOK
    <2>2. ap.isLocked => ap.img.payl \in Frames'
        <3>1. ap.isLocked => ap.img.payl = LastFrame /\ LastFrame # 0 /\ LastFrame \in Nat
            BY PostedEmpty DEF ImageInv, FrameOf
        <3>2. LastFrame \in Nat /\ LastFrame # 0 => LastFrame \in Frames
            BY DEF Frames, LastFrame
        <3> QED BY <1>1, <3>1, <3>2
    <2>3. PostsAndFrees => LastFrame + 1 \in Frames'
        BY FramesStay, TypedFields DEF PostsAndFrees, Posts
    <2> QED BY <2>1, <2>2, <2>3
        DEF ApOutcome, Keeps, Frees, PostsOnly, FreesAndPosts, PostsAndFrees, FreedBy, Numbers
<1>5. taken' \in Seq(ImageType')
    <2>1. taken \in Seq(ImageType)
        BY DEF TypeOK
    <2> QED BY <1>1, <2>1, SeqMonotonic DEF ApStep
<1>6. tbuf' \in [txPub : ImageType', txCon : ImageType', statusPub : SeqNr]
    BY <1>1 DEF ApStep, TypeOK
<1>7. finished' \subseteq Frames'
    BY <1>1 DEF ApStep, TypeOK
<1> QED BY <1>1, <1>2, <1>3, <1>4, <1>5, <1>6, <1>7 DEF ApStep, TypeOK

LEMMA PcpStepType ==
    ASSUME TypeOK, ImageInv, PcpStep, Quiet \/ Skips \/ Takes \/ Acknowledges \/ Resumes
    PROVE  TypeOK'
<1>1. ImageType' = ImageType /\ Frames' = Frames
    BY DEF PcpStep, ImageType, Frames, LastFrame
<1>2. finished' \subseteq Frames
    <2>1. CASE Acknowledges
        <3>1. tbuf.txCon.payl \in 0..LastFrame /\ tbuf.txCon.payl # 0
            BY <2>1 DEF Acknowledges, ImageInv, TypeOK, ImageType
        <3>2. tbuf.txCon.payl \in Frames
            BY <3>1, TypedFields DEF Frames, LastFrame
        <3> QED BY <2>1, <3>2 DEF Acknowledges, TypeOK
    <2> QED BY <2>1 DEF Quiet, Skips, Takes, Resumes, Publishes, TypeOK
<1>3. taken' \in Seq(ImageType)
    <2>1. taken \in Seq(ImageType) /\ tbuf.txPub \in ImageType
        BY DEF TypeOK
    <2>2. Append(taken, tbuf.txPub) \in Seq(ImageType)
        BY <2>1, AppendProperties
    <2> QED BY <2>1, <2>2 DEF Quiet, Skips, Takes, Acknowledges, Resumes
<1> QED BY <1>1, <1>2, <1>3 DEF PcpStep, PcpType, TypeOK, apVars, busVars

LEMMA BusStepType ==
    ASSUME TypeOK, SyncIr \/ SendSeqNr \/ SendPayload
    PROVE  TypeOK'
<1>1. UNCHANGED <<apVars, pcp, pcpUp, ghosts>>
      /\ dma' \in {"idle", "seqNr", "payload", "finished"}
    BY DEF SyncIr, SendSeqNr, SendPayload
<1>2. ImageType' = ImageType /\ Frames' = Frames
    BY <1>1 DEF ImageType, Frames, LastFrame, ghosts
<1>3. wire' \in [seqNr : SeqNr \cup {"Invalid"}, status : SeqNr]
    BY TypedFields DEF SyncIr, SendSeqNr, SendPayload, TypeOK
<1>4. tbuf' \in [txPub : ImageType, txCon : ImageType, statusPub : SeqNr]
    <2>1. [seqNr |-> wire.seqNr, payl |-> ap.img.payl] \in ImageType
        BY TypedFields DEF ImageType
    <2> QED BY <2>1 DEF SyncIr, SendSeqNr, SendPayload, TypeOK
<1> QED BY <1>1, <1>2, <1>3, <1>4 DEF TypeOK, apVars, ghosts

-----------------------------------------------------------------------------
(* The parts of the invariant that hold whatever times out. *)
BaseInv == ImageInv /\ NumberInv

LEMMA ApStepBase ==
    ASSUME TypeOK, BaseInv, ApStep, ApOutcome
    PROVE  BaseInv'
<1>1. CASE Keeps \/ Frees
    <2>1. posted' = posted /\ ap'.img = ap.img /\ (ap'.isLocked => ap.isLocked)
        BY <1>1 DEF Keeps, Frees
    <2>2. ImageInv'
        BY <2>1 DEF BaseInv, ImageInv, ApStep, FrameOf, LastFrame
    <2>3. NumberInv'
        BY <1>1 DEF BaseInv, ImageInv, NumberInv, Keeps, Frees, EmptyImage, FrameOf
    <2> QED BY <2>2, <2>3 DEF BaseInv
<1>2. CASE PostsOnly \/ FreesAndPosts \/ PostsAndFrees
    <2>1. PICK s \in SeqNr : /\ Posts(s)
                             /\ ap'.currTxSeqNr = IF ap'.isLocked THEN s ELSE changeLocalSeqNr(s)
        BY <1>2, OtherSeqNr, TypedFields DEF PostsOnly, FreesAndPosts, PostsAndFrees
    <2>2. posted' # <<>> /\ posted'[LastFrame + 1] = s /\ Len(posted') = LastFrame + 1
        BY <2>1, FramesStay DEF Posts, LastFrame
    <2>3. ap'.img = [seqNr |-> s, payl |-> LastFrame + 1]
        BY <2>1 DEF Posts, Image
    <2>4. ImageInv'
        BY <2>2, <2>3 DEF BaseInv, ImageInv, ApStep, FrameOf, LastFrame
    <2>5. NumberInv'
        BY <2>1, <2>2, <2>3 DEF NumberInv
    <2> QED BY <2>4, <2>5 DEF BaseInv
<1> QED BY <1>1, <1>2 DEF ApOutcome

LEMMA PcpStepBase ==
    ASSUME TypeOK, BaseInv, PcpStep, Quiet \/ Skips \/ Takes \/ Acknowledges \/ Resumes
    PROVE  BaseInv'
<1>1. UNCHANGED <<ap, posted, wire>>
    BY DEF PcpStep, apVars, busVars
<1>2. NumberInv'
    BY <1>1 DEF BaseInv, NumberInv
<1>3. /\ ap'.img = IF posted' = <<>> THEN EmptyImage ELSE FrameOf(LastFrame)'
      /\ ap'.isLocked => posted' # <<>>
      /\ wire'.seqNr \in SeqNr => posted' # <<>>
    BY <1>1 DEF BaseInv, ImageInv, FrameOf, LastFrame
<1>4. /\ tbuf'.txPub.seqNr \in SeqNr => tbuf'.txPub.payl # 0
      /\ pcp'.state # "WaitForFrame" => tbuf'.txCon.payl # 0 /\ pcp'.currConsSeq \in SeqNr
      /\ pcp'.reported => pcp'.state # "WaitForFrame"
    BY DEF BaseInv, ImageInv, Quiet, Skips, Takes, Acknowledges, Resumes, Publishes
<1> QED BY <1>2, <1>3, <1>4 DEF BaseInv, ImageInv

LEMMA BusStepBase ==
    ASSUME TypeOK, BaseInv, SyncIr \/ SendSeqNr \/ SendPayload
    PROVE  BaseInv'
<1>1. UNCHANGED <<ap, posted, pcp>> /\ tbuf'.txCon = tbuf.txCon
    BY DEF SyncIr, SendSeqNr, SendPayload, apVars, ghosts, TypeOK
<1>2. NumberInv'
    BY <1>1 DEF BaseInv, NumberInv
<1>3. /\ ap'.img = IF posted' = <<>> THEN EmptyImage ELSE FrameOf(LastFrame)'
      /\ ap'.isLocked => posted' # <<>>
      /\ pcp'.state # "WaitForFrame" => tbuf'.txCon.payl # 0 /\ pcp'.currConsSeq \in SeqNr
      /\ pcp'.reported => pcp'.state # "WaitForFrame"
    BY <1>1 DEF BaseInv, ImageInv, FrameOf, LastFrame
<1>4. wire'.seqNr = wire.seqNr \/ wire'.seqNr = ap.img.seqNr
    BY DEF SyncIr, SendSeqNr, SendPayload, TypeOK
<1>5. ap.img.seqNr \in SeqNr => posted # <<>>
    BY OtherSeqNr DEF BaseInv, ImageInv, EmptyImage
<1>6. wire'.seqNr \in SeqNr => posted' # <<>>
    BY <1>1, <1>4, <1>5 DEF BaseInv, ImageInv
<1>7. tbuf'.txPub = tbuf.txPub \/ tbuf'.txPub = [seqNr |-> wire.seqNr, payl |-> ap.img.payl]
    BY DEF SyncIr, SendSeqNr, SendPayload, TypeOK
<1>8. posted # <<>> => ap.img.payl # 0
    BY PostedEmpty DEF BaseInv, ImageInv, FrameOf
<1>9. tbuf'.txPub.seqNr \in SeqNr => tbuf'.txPub.payl # 0
    BY <1>7, <1>8 DEF BaseInv, ImageInv
<1> QED BY <1>2, <1>3, <1>6, <1>9 DEF BaseInv, ImageInv

-----------------------------------------------------------------------------
(* The alternating bit. *)
ChannelOK == StatusChain /\ TakenInv /\ DoneSound /\ UnderwaySound /\ acked \subseteq finished

(* A frame that is posted when the one before has been acknowledged. *)
LEMMA PostKeepsChannel ==
    ASSUME TypeOK, BaseInv, ChannelOK, ApStep, NEW s \in SeqNr, Posts(s),
           Done, Waiting, pcp.consStatus # s, tbuf.statusPub # s, wire.status # s,
           ap.img.seqNr # s,
           ssdoTxStatus' # s,
           dma' \in {dma, "idle"},
           ap'.isLocked = TRUE, ap'.currTxSeqNr = s, acked' \subseteq finished
    PROVE  ChannelOK'
<1>1. /\ LastFrame \in Nat /\ LastFrame' = LastFrame + 1 /\ posted'[LastFrame + 1] = s
      /\ \A k \in 1..LastFrame : posted'[k] = posted[k]
    BY FramesStay DEF Posts
<1>2. ap'.img.seqNr = s /\ ap'.img.payl = LastFrame + 1
    BY DEF Posts, Image
<1>3. UNCHANGED <<wire, tbuf, pcp, taken, finished>>
    BY DEF ApStep
<1>4. ~Done'
    BY <1>2, <1>3 DEF Done
<1>5. StatusChain'
    BY <1>3 DEF StatusChain
<1>6. TakenInv'
    <2>1. Len(taken) = LastFrame /\ \A i \in 1..Len(taken) : taken[i] = FrameOf(i)
        BY DEF ChannelOK, TakenInv
    <2>2. Len(taken') = IF Done' THEN LastFrame' ELSE LastFrame' - 1
        BY <1>1, <1>3, <1>4, <2>1
    <2>3. \A i \in 1..Len(taken') : taken'[i] = FrameOf(i)'
        BY <1>1, <1>3, <2>1 DEF FrameOf
    <2> QED BY <2>2, <2>3 DEF TakenInv
<1>7. UnderwaySound'
    BY <1>2, <1>3 DEF ChannelOK, DoneSound, UnderwaySound, Done, Waiting
<1>8. DoneSound'
    BY <1>4 DEF DoneSound
<1> QED BY <1>3, <1>5, <1>6, <1>7, <1>8 DEF ChannelOK

LEMMA ApStepChannel ==
    ASSUME TypeOK, BaseInv, ChannelInv, ApStep, ApOutcome,
           \/ ssdoTxStatus' = wire.status /\ dma' = "idle"
           \/ PostsOnly /\ UNCHANGED <<ssdoTxStatus, dma>>
    PROVE  ChannelInv'
<1> SUFFICES ASSUME ~timedOut' PROVE ChannelOK'
    BY DEF ChannelInv, ChannelOK
<1>1. ~timedOut /\ ChannelOK
    <2>1. Numbers => ~timedOut
        BY DEF Numbers
    <2>2. \A n, s : FreedBy(n, s) => ~timedOut
        BY DEF FreedBy
    <2>3. ~timedOut
        BY <2>1, <2>2 DEF ApOutcome, Keeps, Frees, PostsOnly, FreesAndPosts, PostsAndFrees
    <2> QED BY <2>3 DEF ChannelInv, ChannelOK
<1>2. UNCHANGED <<wire, tbuf, pcp, taken, finished>>
    BY DEF ApStep
<1>3. ap.isLocked => ap.currTxSeqNr = ap.img.seqNr /\ posted # <<>> /\ ap.img.payl = LastFrame
    BY DEF BaseInv, NumberInv, ImageInv, FrameOf
<1>4. ~ap.isLocked => Done /\ Waiting /\ ap.img.seqNr # ap.currTxSeqNr
    <2>1. ~ap.isLocked => Done /\ Waiting
        BY <1>1 DEF ChannelOK, DoneSound, UnderwaySound
    <2>2. ~ap.isLocked => ap.img.seqNr # ap.currTxSeqNr
        BY OtherSeqNr, TypedFields DEF BaseInv, NumberInv, ImageInv, EmptyImage
    <2> QED BY <2>1, <2>2
<1>5. (* The flag acknowledges the last frame: it was taken and finished. *)
      ap.isLocked /\ wire.status = ap.currTxSeqNr =>
          /\ tbuf.statusPub = ap.currTxSeqNr /\ pcp.consStatus = ap.currTxSeqNr
          /\ Done /\ Waiting /\ ap.img.payl \in finished
    BY <1>1, <1>3 DEF ChannelOK, StatusChain, DoneSound, Done
<1>6. CASE Keeps
    <2>1. /\ ap'.img = ap.img /\ ap'.isLocked = ap.isLocked /\ ap'.currTxSeqNr = ap.currTxSeqNr
          /\ posted' = posted /\ acked' = acked
        BY <1>6 DEF Keeps, Numbers
    <2>2. ~PostsOnly
        BY <2>1 DEF PostsOnly
    <2>3. StatusChain'
        BY <1>1, <1>2, <2>1, <2>2 DEF StatusChain, ChannelOK
    <2>4. TakenInv'
        BY <1>1, <1>2, <2>1 DEF TakenInv, ChannelOK, Done, FrameOf, LastFrame
    <2>5. DoneSound' /\ UnderwaySound'
        BY <1>1, <1>2, <2>1, <2>2 DEF DoneSound, UnderwaySound, ChannelOK, Done, Waiting, LastFrame
    <2> QED BY <1>1, <1>2, <2>1, <2>3, <2>4, <2>5 DEF ChannelOK
<1>7. CASE Frees
    <2>1. /\ ap.isLocked /\ wire.status = ap.currTxSeqNr
          /\ ap'.img = ap.img /\ ap'.isLocked = FALSE
          /\ ap'.currTxSeqNr = changeLocalSeqNr(ap.currTxSeqNr)
          /\ posted' = posted /\ acked' = acked \cup {ap.img.payl}
        BY <1>7 DEF Frees, FreedBy
    <2>2. ap'.currTxSeqNr # ap.currTxSeqNr
        BY <2>1, OtherSeqNr, TypedFields
    <2>3. dma' = "idle" /\ ssdoTxStatus' = wire.status
        BY <2>1 DEF PostsOnly
    <2>4. StatusChain'
        BY <1>2, <1>5, <2>1, <2>2, <2>3 DEF StatusChain
    <2>5. TakenInv'
        BY <1>1, <1>2, <2>1 DEF TakenInv, ChannelOK, Done, FrameOf, LastFrame
    <2>6. DoneSound' /\ UnderwaySound'
        BY <1>1, <1>2, <1>5, <2>1, <2>2, <2>3
        DEF DoneSound, UnderwaySound, ChannelOK, Done, Waiting, LastFrame
    <2> QED BY <1>1, <1>2, <1>5, <2>1, <2>4, <2>5, <2>6 DEF ChannelOK
<1>8. CASE PostsOnly
    <2>1. /\ ~ap.isLocked /\ Posts(ap.currTxSeqNr) /\ acked' = acked
          /\ ap'.isLocked = TRUE /\ ap'.currTxSeqNr = ap.currTxSeqNr
        BY <1>8 DEF PostsOnly, Numbers
    <2>2. /\ pcp.consStatus # ap.currTxSeqNr /\ tbuf.statusPub # ap.currTxSeqNr
          /\ wire.status # ap.currTxSeqNr /\ ssdoTxStatus' # ap.currTxSeqNr
        BY <1>1, <2>1 DEF ChannelOK, StatusChain
    <2>3. acked' \subseteq finished
        BY <1>1, <2>1 DEF ChannelOK
    <2> QED BY <1>1, <1>4, <2>1, <2>2, <2>3, TypedFields, PostKeepsChannel
<1>9. CASE FreesAndPosts
    <2> DEFINE s == changeLocalSeqNr(ap.currTxSeqNr)
    <2>1. /\ ap.isLocked /\ wire.status = ap.currTxSeqNr /\ Posts(s)
          /\ ap'.isLocked = TRUE /\ ap'.currTxSeqNr = s
          /\ acked' = acked \cup {ap.img.payl}
        BY <1>9 DEF FreesAndPosts, FreedBy
    <2>2. s \in SeqNr /\ s # ap.currTxSeqNr
        BY OtherSeqNr, TypedFields
    <2> HIDE DEF s
    <2>3. dma' = "idle" /\ ssdoTxStatus' = wire.status
        BY <2>1 DEF PostsOnly
    <2>4. acked' \subseteq finished
        BY <1>1, <1>5, <2>1 DEF ChannelOK
    <2>5. ssdoTxStatus' # s
        BY <2>1, <2>2, <2>3
    <2> QED BY <1>1, <1>3, <1>5, <2>1, <2>2, <2>3, <2>4, <2>5, PostKeepsChannel
<1>10. CASE PostsAndFrees
    BY <1>1, <1>10 DEF PostsAndFrees, ChannelOK, StatusChain
<1> QED BY <1>6, <1>7, <1>8, <1>9, <1>10 DEF ApOutcome

LEMMA BusStepChannel ==
    ASSUME TypeOK, BaseInv, ChannelInv, SyncIr \/ SendSeqNr \/ SendPayload
    PROVE  ChannelInv'
<1> SUFFICES ASSUME ~timedOut' PROVE ChannelOK'
    BY DEF ChannelInv, ChannelOK
<1>1. UNCHANGED <<ap, ssdoTxStatus, posted, pcp, taken, finished, acked, timedOut>>
    BY DEF SyncIr, SendSeqNr, SendPayload, apVars, ghosts
<1>2. ChannelOK
    BY <1>1 DEF ChannelInv, ChannelOK
<1>3. TakenInv' /\ (acked \subseteq finished)'
    BY <1>1, <1>2 DEF ChannelOK, TakenInv, Done, FrameOf, LastFrame
<1>4. CASE SyncIr
    <2>1. /\ wire'.seqNr = wire.seqNr /\ wire'.status = tbuf.statusPub
          /\ tbuf' = tbuf /\ dma' = "seqNr"
        BY <1>4 DEF SyncIr, TypeOK
    <2>2. StatusChain'
        BY <1>1, <1>2, <2>1 DEF ChannelOK, StatusChain
    <2>3. DoneSound' /\ UnderwaySound'
        BY <1>1, <1>2, <2>1 DEF ChannelOK, DoneSound, UnderwaySound, Done, Waiting, LastFrame
    <2> QED BY <1>3, <2>2, <2>3 DEF ChannelOK
<1>5. CASE SendSeqNr
    <2>1. /\ wire'.seqNr = ap.img.seqNr /\ wire'.status = wire.status
          /\ tbuf' = tbuf /\ dma' = "payload"
        BY <1>5 DEF SendSeqNr, TypeOK
    <2>2. StatusChain'
        BY <1>1, <1>2, <2>1 DEF ChannelOK, StatusChain
    <2>3. DoneSound' /\ UnderwaySound'
        BY <1>1, <1>2, <2>1 DEF ChannelOK, DoneSound, UnderwaySound, Done, Waiting, LastFrame
    <2> QED BY <1>3, <2>2, <2>3 DEF ChannelOK
<1>6. CASE SendPayload
    <2>1. /\ wire' = wire /\ dma = "payload" /\ dma' = "finished"
          /\ tbuf'.txPub = Image(wire.seqNr, ap.img.payl)
          /\ tbuf'.txCon = tbuf.txCon /\ tbuf'.statusPub = tbuf.statusPub
        BY <1>6 DEF SendPayload, TypeOK, Image
    <2>2. StatusChain'
        BY <1>1, <1>2, <2>1 DEF ChannelOK, StatusChain
    <2>3. wire.seqNr = ap.img.seqNr => tbuf'.txPub = ap.img
        BY <2>1, TypedFields
    <2>4. tbuf'.txPub.seqNr = wire.seqNr
        BY <2>1 DEF Image
    <2>5. DoneSound' /\ UnderwaySound'
        BY <1>1, <1>2, <2>1, <2>3, <2>4
        DEF ChannelOK, DoneSound, UnderwaySound, Done, Waiting, LastFrame
    <2> QED BY <1>3, <2>2, <2>5 DEF ChannelOK
<1> QED BY <1>4, <1>5, <1>6

LEMMA PcpStepChannel ==
    ASSUME TypeOK, BaseInv, ChannelInv, PcpStep,
           Quiet \/ Skips \/ Takes \/ Acknowledges \/ Resumes
    PROVE  ChannelInv'
<1> SUFFICES ASSUME ~timedOut' PROVE ChannelOK'
    BY DEF ChannelInv, ChannelOK
<1>1. UNCHANGED <<ap, ssdoTxStatus, dma, wire, posted, acked, timedOut>>
    BY DEF PcpStep, apVars, busVars
<1>2. ChannelOK
    BY <1>1 DEF ChannelInv, ChannelOK
<1>3. ap.isLocked => ap.currTxSeqNr = ap.img.seqNr /\ posted # <<>> /\ ap.img.payl = LastFrame
    BY DEF BaseInv, NumberInv, ImageInv, FrameOf
<1>4. pcp.reported => pcp.state # "WaitForFrame"
    BY DEF BaseInv, ImageInv
<1>5. CASE Quiet \/ Resumes
    <2>1. /\ UNCHANGED <<tbuf, taken, finished>>
          /\ pcp'.currConsSeq = pcp.currConsSeq /\ pcp'.consStatus = pcp.consStatus
          /\ Waiting' = Waiting
          /\ pcp'.state # "WaitForFrame" => pcp.state # "WaitForFrame"
        BY <1>5 DEF Quiet, Resumes, Waiting
    <2>2. StatusChain'
        BY <1>1, <1>2, <2>1 DEF ChannelOK, StatusChain
    <2>3. TakenInv' /\ (acked \subseteq finished)'
        BY <1>1, <1>2, <2>1 DEF ChannelOK, TakenInv, Done, FrameOf, LastFrame
    <2>4. DoneSound' /\ UnderwaySound'
        BY <1>1, <1>2, <2>1 DEF ChannelOK, DoneSound, UnderwaySound, Done, LastFrame
    <2> QED BY <2>2, <2>3, <2>4 DEF ChannelOK
<1>6. CASE Skips
    <2>1. /\ UNCHANGED <<taken, finished>>
          /\ pcp'.currConsSeq = pcp.currConsSeq /\ pcp'.consStatus = pcp.consStatus
          /\ pcp'.state = pcp.state /\ pcp'.reported = pcp.reported
          /\ tbuf'.txPub = tbuf.txPub /\ tbuf'.statusPub = pcp.consStatus
          /\ pcp.state # "WaitForFrame" => tbuf'.txCon = tbuf.txCon
        BY <1>6 DEF Skips, Publishes
    <2>2. StatusChain'
        BY <1>1, <1>2, <2>1 DEF ChannelOK, StatusChain
    <2>3. TakenInv' /\ (acked \subseteq finished)'
        BY <1>1, <1>2, <2>1 DEF ChannelOK, TakenInv, Done, FrameOf, LastFrame
    <2>4. DoneSound' /\ UnderwaySound'
        BY <1>1, <1>2, <2>1 DEF ChannelOK, DoneSound, UnderwaySound, Done, Waiting, LastFrame
    <2> QED BY <2>2, <2>3, <2>4 DEF ChannelOK
<1>7. CASE Takes
    <2>1. /\ finished' = finished /\ taken' = Append(taken, tbuf.txPub)
          /\ pcp'.currConsSeq = tbuf.txPub.seqNr /\ pcp'.consStatus = pcp.consStatus
          /\ pcp'.state = "ProcessFrame" /\ ~pcp'.reported /\ ~pcp.reported
          /\ pcp.state = "WaitForFrame"
          /\ tbuf'.txPub = tbuf.txPub /\ tbuf'.statusPub = pcp.consStatus
          /\ tbuf'.txCon = tbuf.txPub
          /\ tbuf.txPub.seqNr # pcp.currConsSeq
        BY <1>4, <1>7 DEF Takes, Publishes
    <2>2. /\ ~Done /\ ap.isLocked /\ tbuf.txPub = ap.img
          /\ dma = "payload" => wire.seqNr = ap.img.seqNr
        <3>1. ~Done
            BY <1>2, <2>1 DEF ChannelOK, DoneSound, Done
        <3> QED BY <1>2, <2>1, <3>1 DEF ChannelOK, UnderwaySound
    <2>3. pcp.consStatus # ap.currTxSeqNr
        BY <1>2, <1>3, <2>2 DEF ChannelOK, StatusChain, Done
    <2>4. Done'
        BY <1>1, <2>1, <2>2 DEF Done
    <2>5. StatusChain'
        BY <1>1, <1>2, <2>1, <2>3 DEF ChannelOK, StatusChain
    <2>6. TakenInv'
        <3>1. /\ Len(taken) = LastFrame - 1 /\ LastFrame \in Nat /\ LastFrame # 0
              /\ \A i \in 1..Len(taken) : taken[i] = FrameOf(i)
            BY <1>2, <1>3, <2>2, PostedEmpty DEF ChannelOK, TakenInv
        <3>2. ap.img = FrameOf(LastFrame)
            BY <1>3, <2>2 DEF BaseInv, ImageInv
        <3>3. /\ Len(taken') = Len(taken) + 1 /\ taken'[Len(taken) + 1] = tbuf.txPub
              /\ \A i \in 1..Len(taken) : taken'[i] = taken[i]
            BY <2>1, AppendProperties DEF TypeOK
        <3>4. Len(taken') = LastFrame
            BY <3>1, <3>3
        <3>5. \A i \in 1..Len(taken') : taken'[i] = FrameOf(i)
            BY <2>2, <3>1, <3>2, <3>3
        <3> QED BY <1>1, <2>4, <3>4, <3>5 DEF TakenInv, FrameOf, LastFrame
    <2>7. DoneSound'
        BY <1>1, <2>1, <2>2, <2>3 DEF DoneSound, Waiting
    <2>8. UnderwaySound'
        BY <2>4 DEF UnderwaySound
    <2> QED BY <1>1, <1>2, <2>1, <2>5, <2>6, <2>7, <2>8 DEF ChannelOK
<1>8. CASE Acknowledges
    <2>1. /\ UNCHANGED <<tbuf, taken>> /\ finished' = finished \cup {tbuf.txCon.payl}
          /\ pcp'.currConsSeq = pcp.currConsSeq /\ pcp'.consStatus = pcp.currConsSeq
          /\ pcp'.state = pcp.state /\ pcp'.reported = TRUE /\ ~pcp.reported
          /\ pcp.state # "WaitForFrame"
        BY <1>8 DEF Acknowledges
    <2>2. /\ Done /\ ap.isLocked /\ tbuf.txCon = ap.img /\ ap.img.payl = LastFrame
          /\ pcp.currConsSeq = ap.currTxSeqNr
        <3>1. Done
            BY <1>2, <2>1 DEF ChannelOK, UnderwaySound, Waiting
        <3> QED BY <1>2, <1>3, <2>1, <3>1 DEF ChannelOK, DoneSound, Waiting, Done
    <2>3. StatusChain'
        BY <1>1, <1>2, <2>1, <2>2 DEF ChannelOK, StatusChain
    <2>4. TakenInv' /\ (acked \subseteq finished)'
        BY <1>1, <1>2, <2>1 DEF ChannelOK, TakenInv, Done, FrameOf, LastFrame
    <2>5. DoneSound' /\ UnderwaySound'
        BY <1>1, <1>2, <2>1, <2>2 DEF ChannelOK, DoneSound, UnderwaySound, Done, Waiting, LastFrame
    <2> QED BY <2>3, <2>4, <2>5 DEF ChannelOK
<1> QED BY <1>5, <1>6, <1>7, <1>8

-----------------------------------------------------------------------------
(* The single system. *)
LEMMA TakenTyped ==
    ASSUME TypeOK, NEW i \in 1..Len(taken)
    PROVE  taken[i].payl \in 0..LastFrame /\ LastFrame \in Nat
<1>1. taken \in Seq(ImageType)
    BY DEF TypeOK
<1>2. taken[i] \in ImageType
    BY <1>1, ElementOfSeq
<1> QED BY <1>2, TypedFields DEF ImageType

LEMMA ApStepSingle ==
    ASSUME TypeOK, BaseInv, SingleInv, ApStep, ApOutcome,
           dma' = "idle" \/ ap.redundant
    PROVE  SingleInv'
<1> SUFFICES ASSUME ~ap.redundant, dma' = "idle" PROVE SingleInv'
    BY DEF SingleInv, ApStep
<1>1. UNCHANGED <<wire, tbuf, pcp, taken>>
    BY DEF ApStep
<1>2. \A k \in 1..LastFrame : posted'[k] = posted[k]
    <2>1. CASE \E s \in SeqNr : Posts(s)
        BY <2>1, FramesStay DEF Posts
    <2> QED BY <2>1, OutcomeCases
<1>3. tbuf.txPub.payl \in 0..LastFrame /\ LastFrame \in Nat
    BY TypedFields DEF TypeOK, ImageType
<1>4. \A i \in 1..Len(taken) : taken[i].payl \in 0..LastFrame
    BY TakenTyped
<1>5. dma' # "payload"
    OBVIOUS
<1>6. tbuf'.txPub = IF tbuf'.txPub.payl = 0 THEN EmptyImage ELSE FrameOf(tbuf.txPub.payl)'
    BY <1>1, <1>2, <1>3 DEF SingleInv, FrameOf
<1>7. ASSUME NEW i \in 1..Len(taken') PROVE taken'[i].payl # 0 /\ taken'[i] = FrameOf(taken[i].payl)'
    <2>1. taken[i].payl # 0 /\ taken[i] = FrameOf(taken[i].payl)
        BY <1>1, <1>7 DEF SingleInv
    <2>2. posted'[taken[i].payl] = posted[taken[i].payl]
        BY <1>1, <1>2, <1>3, <1>4, <1>7, <2>1
    <2> QED BY <1>1, <2>1, <2>2 DEF FrameOf
<1> QED BY <1>1, <1>5, <1>6, <1>7 DEF SingleInv

LEMMA BusStepSingle ==
    ASSUME TypeOK, BaseInv, SingleInv, SyncIr \/ SendSeqNr \/ SendPayload
    PROVE  SingleInv'
<1> SUFFICES ASSUME ~ap.redundant PROVE SingleInv'
    BY DEF SingleInv, SyncIr, SendSeqNr, SendPayload, apVars
<1>1. UNCHANGED <<ap, posted, pcp, taken>>
    BY DEF SyncIr, SendSeqNr, SendPayload, apVars, ghosts
<1>2. dma' = "payload" => wire'.seqNr = ap.img.seqNr
    BY DEF SyncIr, SendSeqNr, SendPayload, TypeOK
<1>3. CASE tbuf' = tbuf
    BY <1>1, <1>2, <1>3 DEF SingleInv, FrameOf
<1>4. CASE SendPayload
    <2>1. tbuf'.txPub = ap.img
        <3>1. wire.seqNr = ap.img.seqNr
            BY <1>4 DEF SingleInv, SendPayload
        <3>2. tbuf'.txPub = Image(ap.img.seqNr, ap.img.payl)
            BY <1>4, <3>1 DEF SendPayload, TypeOK, Image
        <3> QED BY <3>2, TypedFields
    <2>2. /\ ap.img.payl = LastFrame /\ LastFrame \in Nat
          /\ ap.img = IF LastFrame = 0 THEN EmptyImage ELSE FrameOf(LastFrame)
        BY PostedEmpty DEF BaseInv, ImageInv, FrameOf, EmptyImage
    <2>3. tbuf.txPub.payl \in 0..LastFrame
        BY DEF TypeOK, ImageType
    <2>4. ASSUME NEW i \in 1..Len(taken)
          PROVE  /\ taken[i].payl <= LastFrame
                 /\ taken[i].payl = LastFrame => pcp.currConsSeq = ap.img.seqNr
        <3>2. taken[i].payl \in 0..LastFrame /\ taken[i].payl # 0
            BY TakenTyped DEF SingleInv
        <3>3. taken[i].payl = LastFrame => tbuf.txPub.payl = LastFrame
            BY <2>2, <2>3, <3>2 DEF SingleInv
        <3>4. tbuf.txPub.payl = LastFrame /\ LastFrame # 0 => tbuf.txPub = ap.img
            BY <2>2 DEF SingleInv
        <3> QED BY <2>2, <3>2, <3>3, <3>4 DEF SingleInv
    <2> QED BY <1>1, <1>2, <2>1, <2>2, <2>4 DEF SingleInv, FrameOf, LastFrame
<1> QED BY <1>3, <1>4 DEF SyncIr, SendSeqNr

LEMMA PcpStepSingle ==
    ASSUME TypeOK, BaseInv, SingleInv, PcpStep,
           Quiet \/ Skips \/ Takes \/ Acknowledges \/ Resumes
    PROVE  SingleInv'
<1> SUFFICES ASSUME ~ap.redundant PROVE SingleInv'
    BY DEF SingleInv, PcpStep, apVars
<1>1. UNCHANGED <<ap, dma, wire, posted>> /\ tbuf'.txPub = tbuf.txPub
    BY DEF PcpStep, apVars, busVars, Quiet, Skips, Takes, Acknowledges, Resumes, Publishes
<1>2. CASE Quiet \/ Skips \/ Acknowledges \/ Resumes
    <2>1. taken' = taken /\ pcp'.currConsSeq = pcp.currConsSeq
        BY <1>2 DEF Quiet, Skips, Acknowledges, Resumes
    <2> QED BY <1>1, <2>1 DEF SingleInv, FrameOf
<1>3. CASE Takes
    <2>1. /\ taken' = Append(taken, tbuf.txPub) /\ pcp'.currConsSeq = tbuf.txPub.seqNr
          /\ tbuf.txPub.seqNr \in SeqNr /\ tbuf.txPub.seqNr # pcp.currConsSeq
        BY <1>3 DEF Takes
    <2>2. /\ Len(taken') = Len(taken) + 1 /\ taken'[Len(taken) + 1] = tbuf.txPub
          /\ \A i \in 1..Len(taken) : taken'[i] = taken[i]
          /\ Len(taken) \in Nat
        BY <2>1, AppendProperties, LenProperties DEF TypeOK
    <2>3. tbuf.txPub.payl # 0 /\ tbuf.txPub.payl \in Nat
        BY <2>1 DEF BaseInv, ImageInv, TypeOK, ImageType
    <2>4. ASSUME NEW i \in 1..Len(taken) PROVE taken[i].payl < tbuf.txPub.payl
        <3>1. taken[i].payl \in Nat
            BY TakenTyped
        <3> QED BY <2>1, <2>3, <3>1 DEF SingleInv
    <2>5. ASSUME NEW i \in 1..Len(taken')
          PROVE  /\ taken'[i].payl # 0 /\ taken'[i] = FrameOf(taken'[i].payl)
                 /\ \A j \in 1..(i - 1) : taken'[j].payl < taken'[i].payl
                 /\ taken'[i].payl <= tbuf.txPub.payl
        <3>1. CASE i \in 1..Len(taken)
            <4>1. \A j \in 1..(i - 1) : j \in 1..Len(taken)
                BY <2>2, <3>1
            <4> QED BY <2>2, <2>4, <3>1, <4>1 DEF SingleInv
        <3>2. CASE i = Len(taken) + 1
            <4>1. \A j \in 1..(i - 1) : j \in 1..Len(taken)
                BY <2>2, <3>2
            <4> QED BY <2>2, <2>3, <2>4, <3>2, <4>1 DEF SingleInv
        <3> QED BY <2>2, <3>1, <3>2
    <2> QED BY <1>1, <2>1, <2>5 DEF SingleInv, FrameOf
<1> QED BY <1>2, <1>3

-----------------------------------------------------------------------------
LEMMA InitIInv == Init => IInv
<1> SUFFICES ASSUME Init PROVE IInv
    OBVIOUS
<1>1. posted = <<>> /\ taken = <<>> /\ Len(posted) = 0 /\ Len(taken) = 0
    BY EmptySeq DEF Init
<1>2. EmptyImage \in ImageType
    BY <1>1 DEF EmptyImage, ImageType, LastFrame
<1>3. Stopped \in Timer(TimeoutLimit) /\ Stopped \in Timer(ArpLimit)
    BY LimitAssumption DEF Timer, Stopped
<1>4. <<>> \in Seq(SeqNr) /\ <<>> \in Seq(ImageType)
    BY EmptySeq
<1>5. TypeOK
    <2>1. ap \in ApType(0) /\ pcp \in PcpType
        <3>1. PICK r \in BOOLEAN :
                  ap = [img |-> EmptyImage, currTxSeqNr |-> "Second", isLocked |-> FALSE,
                        timer |-> Stopped, redundant |-> r]
            BY DEF Init
        <3>2. EmptyImage \in [seqNr : SeqNr \cup {"Invalid"}, payl : 0..0]
            BY DEF EmptyImage
        <3>3. ap \in ApType(0)
            BY <1>3, <3>1, <3>2 DEF ApType, SeqNr
        <3> QED BY <1>3, <3>3 DEF Init, PcpType, SeqNr
    <2>2. ap \in [img : ImageType, currTxSeqNr : SeqNr, isLocked : BOOLEAN,
                  timer : Timer(TimeoutLimit), redundant : BOOLEAN]
        BY <1>1, <2>1 DEF ApType, ImageType, LastFrame
    <2>3. tbuf \in [txPub : ImageType, txCon : ImageType, statusPub : SeqNr]
        BY <1>2 DEF Init, SeqNr
    <2>4. wire \in [seqNr : SeqNr \cup {"Invalid"}, status : SeqNr]
        BY DEF Init, SeqNr
    <2> QED BY <1>1, <1>4, <2>1, <2>2, <2>3, <2>4 DEF Init, TypeOK, PcpType, SeqNr
<1>6. ap.img = EmptyImage /\ ap.currTxSeqNr = "Second" /\ ~ap.isLocked
    BY DEF Init
<1>7. ImageInv /\ NumberInv /\ PendingFindsUnlocked
    BY <1>1, <1>6 DEF Init, ImageInv, NumberInv, PendingFindsUnlocked, EmptyImage, SeqNr
<1>8. ChannelInv
    BY <1>1, <1>6 DEF Init, ChannelInv, StatusChain, TakenInv, Done, Waiting, DoneSound,
                      UnderwaySound, EmptyImage, LastFrame
<1>9. SingleInv
    BY <1>1, <1>6 DEF Init, SingleInv, EmptyImage
<1> QED BY <1>5, <1>7, <1>8, <1>9 DEF IInv

LEMMA NextIInv == IInv /\ [Next]_vars => IInv'
<1> SUFFICES ASSUME IInv, [Next]_vars PROVE IInv'
    OBVIOUS
<1>0. TypeOK /\ BaseInv /\ PendingFindsUnlocked /\ ChannelInv /\ SingleInv
    BY DEF IInv, BaseInv
<1>1. ASSUME NEW done \in BOOLEAN, TransferFinished(done) PROVE IInv'
    <2>1. /\ dma' = "idle" /\ ssdoTxStatus' = wire.status /\ ApStep
          /\ syncTask' \in {"Shnf", "Sapl", "State"} /\ ssdoRxBusy' \in BOOLEAN
          /\ ApOutcome
        BY <1>0, <1>1, TransferOutcome DEF ApOutcome
    <2>2. ssdoTxStatus' \in SeqNr
        BY <1>0, <2>1, TypedFields
    <2>3. TypeOK'
        BY <1>0, <2>1, <2>2, ApStepType DEF BaseInv
    <2> QED BY <1>0, <2>1, <2>3, ApStepBase, ApStepChannel, ApStepSingle DEF IInv, BaseInv, ApStep
<1>2. CASE SerialReceived
    <2>1. /\ ApStep /\ UNCHANGED <<ssdoTxStatus, ssdoRxBusy, syncTask, dma>>
          /\ ap.redundant /\ PostsOnly /\ ApOutcome
        BY <1>0, <1>2, SerialOutcome DEF ApOutcome
    <2>2. TypeOK'
        BY <1>0, <2>1, ApStepType DEF BaseInv, TypeOK
    <2> QED BY <1>0, <2>1, <2>2, ApStepBase, ApStepChannel, ApStepSingle DEF IInv, BaseInv, ApStep
<1>3. CASE SyncIr \/ SendSeqNr \/ SendPayload
    <2>1. PendingFindsUnlocked'
        BY <1>0, <1>3 DEF PendingFindsUnlocked, SyncIr, SendSeqNr, SendPayload, apVars
    <2> QED BY <1>0, <1>3, <2>1, BusStepType, BusStepBase, BusStepChannel, BusStepSingle
            DEF IInv, BaseInv
<1>4. CASE SyncCb \/ PcpBackground
    <2>1. PcpStep /\ (Quiet \/ Skips \/ Takes \/ Acknowledges \/ Resumes)
        BY <1>0, <1>4, SyncOutcome, BackgroundOutcome DEF BaseInv
    <2>2. PendingFindsUnlocked'
        BY <1>0, <2>1 DEF PendingFindsUnlocked, PcpStep, apVars
    <2> QED BY <1>0, <2>1, <2>2, PcpStepType, PcpStepBase, PcpStepChannel, PcpStepSingle
            DEF IInv, BaseInv
<1>5. CASE UNCHANGED vars
    <2>1. UNCHANGED <<ap, ssdoTxStatus, ssdoRxBusy, syncTask, pendingPost, dma, wire, tbuf, pcp,
                      pcpUp, posted, taken, finished, acked, timedOut>>
        BY <1>5 DEF vars, apVars, busVars, ghosts
    <2> QED BY <2>1 DEF IInv, TypeOK, ImageInv, NumberInv, PendingFindsUnlocked, ChannelInv,
                StatusChain, TakenInv, Done, Waiting, DoneSound, UnderwaySound, SingleInv,
                FrameOf, LastFrame, Frames, ImageType
<1> QED BY <1>1, <1>2, <1>3, <1>4, <1>5 DEF Next, ApNext, PcpNext, PcpBackground

LEMMA Inductive == Spec => []IInv
BY InitIInv, NextIInv, PTL DEF Spec

(* Every variable keeps its type: the frame numbers alternate between two  *)
(* values and the counters of the timeouts stop one above their limits.    *)
THEOREM TypeCorrect == Spec => []TypeOK
<1>1. IInv => TypeOK
    BY DEF IInv
<1> QED BY <1>1, Inductive, PTL

(* Over lost and repeated SPI images the PCP takes no frame twice, none    *)
(* out of order and none that is a mixture of two; in a single system also *)
(* after ssdo_handleTxFrame has given up a frame by its timeout.           *)
THEOREM TakesAsPosted == Spec => []TakenAsPosted
<1>1. IInv => TakenAsPosted
    <2> SUFFICES ASSUME IInv, ap.redundant => ~timedOut,
                        NEW i \in 1..Len(taken)
                 PROVE  /\ taken[i].seqNr = posted[taken[i].payl]
                        /\ \A j \in 1..(i - 1) : taken[j].payl < taken[i].payl
        BY DEF TakenAsPosted
    <2>1. CASE ~ap.redundant
        <3>1. /\ taken[i] = FrameOf(taken[i].payl)
              /\ \A j \in 1..(i - 1) : taken[j].payl < taken[i].payl
            BY <2>1 DEF IInv, SingleInv
        <3>2. FrameOf(taken[i].payl).seqNr = posted[taken[i].payl]
            BY DEF FrameOf
        <3> QED BY <3>1, <3>2
    <2>2. CASE ap.redundant
        <3>1. \A k \in 1..Len(taken) : taken[k] = FrameOf(k)
            BY <2>2 DEF IInv, ChannelInv, TakenInv
        <3>2. Len(taken) \in Nat
            BY LenProperties DEF IInv, TypeOK
        <3>3. \A j \in 1..(i - 1) : j \in 1..Len(taken) /\ j < i
            BY <3>2
        <3>4. \A k \in 1..Len(taken) : taken[k].payl = k /\ taken[k].seqNr = posted[k]
            <4>1. \A k : FrameOf(k).payl = k /\ FrameOf(k).seqNr = posted[k]
                BY DEF FrameOf
            <4> QED BY <3>1, <4>1
        <3> QED BY <3>2, <3>3, <3>4
    <2> QED BY <2>1, <2>2 DEF IInv, TypeOK
<1> QED BY <1>1, Inductive, PTL

(* Until the first timeout ssdo_handleTxFrame unlocks the buffer only by   *)
(* the flag of its own frame, which the PCP set when the SDO transfer of   *)
(* this frame was over, for the flag of no other frame has its number.     *)
THEOREM AckedFinished == Spec => []AckedWasFinished
<1>1. IInv => AckedWasFinished
    BY DEF IInv, ChannelInv, AckedWasFinished
<1> QED BY <1>1, Inductive, PTL

(* The post in the serial interrupt, of the frame that waited for the      *)
(* other processor's half, never meets a locked buffer, so that it never   *)
(* raises kErrorAsyncFramePostingFailed.                                   *)
THEOREM PendingUnlocked == Spec => []PendingFindsUnlocked
<1>1. IInv => PendingFindsUnlocked
    BY DEF IInv
<1> QED BY <1>1, Inductive, PTL

(* No step of the sync interrupt renews the consumer image while the SDO   *)
(* stack may still read from it.                                           *)
THEOREM ConsumerImageHeld == Spec => ImageStableInTransfer
<1>1. IInv /\ [Next]_vars => [pcp.state # "WaitForFrame" => tbuf'.txCon = tbuf.txCon]_vars
    <2> SUFFICES ASSUME IInv, Next PROVE pcp.state # "WaitForFrame" => tbuf'.txCon = tbuf.txCon
        BY DEF vars
    <2>1. TypeOK /\ ImageInv /\ PendingFindsUnlocked
        BY DEF IInv
    <2>2. CASE SyncCb \/ PcpBackground
        BY <2>1, <2>2, SyncOutcome, BackgroundOutcome
        DEF Skips, Takes, Publishes, Quiet, Acknowledges, Resumes
    <2>3. CASE SyncIr \/ SendSeqNr \/ SendPayload
        BY <2>1, <2>3 DEF SyncIr, SendSeqNr, SendPayload, TypeOK
    <2>4. CASE SerialReceived \/ \E done \in BOOLEAN : TransferFinished(done)
        BY <2>4 DEF SerialReceived, TransferFinished
    <2> QED BY <2>2, <2>3, <2>4 DEF Next, ApNext, PcpNext, PcpBackground
<1> QED BY <1>1, Inductive, PTL DEF Spec, ImageStableInTransfer

-----------------------------------------------------------------------------
(* The channel as an implementation of StopAndWait. *)

(* The numbers of the frames taken, as the abstract channel has them. *)
TakenNumbers == [i \in 1..Len(taken) |-> taken[i].payl]

LEMMA TakenNumbersType ==
    ASSUME TypeOK
    PROVE  TakenNumbers \in Seq(0..LastFrame) /\ Len(TakenNumbers) = Len(taken)
<1>1. Len(taken) \in Nat
    BY LenProperties DEF TypeOK
<1>2. \A i \in 1..Len(taken) : taken[i].payl \in 0..LastFrame
    <2>1. \A i \in 1..Len(taken) : taken[i] \in ImageType
        BY ElementOfSeq DEF TypeOK
    <2> QED BY <2>1 DEF ImageType, LastFrame
<1>3. TakenNumbers \in [1..Len(taken) -> 0..LastFrame]
    BY <1>2 DEF TakenNumbers
<1>4. TakenNumbers \in Seq(0..LastFrame)
    BY <1>1, <1>3, SeqDef
<1> QED BY <1>1, <1>3, <1>4, LenProperties

LEMMA NumbersAppend ==
    ASSUME TypeOK, NEW x \in ImageType, taken' = Append(taken, x)
    PROVE  TakenNumbers' = Append(TakenNumbers, x.payl)
<1>1. /\ Len(taken) \in Nat /\ Len(taken') = Len(taken) + 1
      /\ \A i \in 1..Len(taken) : taken'[i] = taken[i]
      /\ taken'[Len(taken) + 1] = x
    BY AppendProperties, LenProperties DEF TypeOK
<1>2. TakenNumbers \in Seq(0..LastFrame) /\ Len(TakenNumbers) = Len(taken)
    BY TakenNumbersType
<1>3. x.payl \in 0..LastFrame
    BY DEF ImageType, LastFrame
<1>4. /\ Append(TakenNumbers, x.payl) \in Seq(0..LastFrame)
      /\ Len(Append(TakenNumbers, x.payl)) = Len(taken) + 1
      /\ \A i \in 1..Len(taken) : Append(TakenNumbers, x.payl)[i] = TakenNumbers[i]
      /\ Append(TakenNumbers, x.payl)[Len(taken) + 1] = x.payl
    BY <1>2, <1>3, AppendProperties
<1>5. DOMAIN Append(TakenNumbers, x.payl) = 1..(Len(taken) + 1)
    BY <1>4, LenProperties
<1>6. \A i \in 1..(Len(taken) + 1) : Append(TakenNumbers, x.payl)[i] = taken'[i].payl
    BY <1>1, <1>4 DEF TakenNumbers
<1>7. Append(TakenNumbers, x.payl) = [i \in 1..(Len(taken) + 1) |-> Append(TakenNumbers, x.payl)[i]]
    BY <1>4, <1>5, LenProperties
<1> QED BY <1>1, <1>6, <1>7 DEF TakenNumbers

(* The frame in the channel. *)
Message == IF ap.isLocked THEN ap.img.payl ELSE 0

(* A step that leaves the number and the lock of the AP and the numbers of *)
(* the PCP alone is none of the channel.                                   *)
LEMMA ChannelSame ==
    ASSUME ap'.img = ap.img, ap'.isLocked = ap.isLocked, ap'.currTxSeqNr = ap.currTxSeqNr,
           pcp'.currConsSeq = pcp.currConsSeq, pcp'.consStatus = pcp.consStatus,
           taken' = taken, timedOut' = timedOut
    PROVE  UNCHANGED Channel!vars
BY DEF Channel!vars, ChannelPhase

(* While no timeout has freed it, an unlocked channel is one whose last    *)
(* frame the PCP has taken, so that the next number is new to the PCP.     *)
LEMMA NextIsNew ==
    ASSUME IInv, ~timedOut
    PROVE  /\ ~ap.isLocked => pcp.currConsSeq # ap.currTxSeqNr
           /\ ap.isLocked => ap.img.seqNr = ap.currTxSeqNr
           /\ ap.isLocked => ap.img.payl = LastFrame /\ LastFrame # 0
           /\ \A i \in 1..Len(taken) : taken[i].payl = i
           /\ LastFrame \in Nat /\ Len(taken) \in Nat /\ Len(taken) <= LastFrame
<1>1. /\ TypeOK /\ ImageInv /\ NumberInv /\ TakenInv /\ UnderwaySound
    BY DEF IInv, ChannelInv
<1>2. /\ LastFrame \in Nat /\ Len(taken) \in Nat /\ (posted = <<>> <=> LastFrame = 0)
      /\ ap.isLocked \in BOOLEAN /\ ap.currTxSeqNr \in SeqNr
    BY <1>1, PostedEmpty, TypedFields, LenProperties DEF TypeOK
<1>3. \A k : FrameOf(k).payl = k
    BY DEF FrameOf
<1>4. ap.isLocked => ap.img = FrameOf(LastFrame) /\ posted # <<>> /\ ap.img.seqNr = ap.currTxSeqNr
    BY <1>1 DEF ImageInv, NumberInv
<1>5. ~ap.isLocked => pcp.currConsSeq # ap.currTxSeqNr
    <2> SUFFICES ASSUME ~ap.isLocked PROVE pcp.currConsSeq # ap.currTxSeqNr
        OBVIOUS
    <2>1. pcp.currConsSeq = ap.img.seqNr
        BY <1>1 DEF UnderwaySound, Done
    <2>2. CASE posted = <<>>
        <3>1. ap.img.seqNr = "Invalid"
            BY <1>1, <2>2 DEF ImageInv, EmptyImage
        <3> QED BY <1>2, <2>1, <3>1, OtherSeqNr
    <2>3. CASE posted # <<>>
        <3>1. ap.img.seqNr \in SeqNr
            <4>1. posted \in Seq(SeqNr) /\ LastFrame \in 1..Len(posted)
                BY <1>1, <1>2, <2>3 DEF TypeOK, LastFrame
            <4>2. posted[LastFrame] \in SeqNr
                BY <4>1, ElementOfSeq
            <4> QED BY <1>1, <2>3, <4>2 DEF ImageInv, FrameOf
        <3> QED BY <1>1, <1>2, <2>1, <2>3, <3>1, OtherSeqNr DEF NumberInv
    <2> QED BY <2>2, <2>3
<1>6. Len(taken) <= LastFrame /\ \A i \in 1..Len(taken) : taken[i].payl = i
    BY <1>1, <1>2, <1>3 DEF TakenInv
<1> QED BY <1>2, <1>3, <1>4, <1>5, <1>6

LEMMA PostedIsNewer ==
    ASSUME IInv, ~timedOut, Message' = LastFrame + 1
    PROVE  Channel!Newer(Message')
<1>1. /\ LastFrame + 1 \in Nat \ {0}
      /\ \A i \in 1..Len(taken) : taken[i].payl < LastFrame + 1
    BY NextIsNew
<1>2. TakenNumbers \in Seq(0..LastFrame) /\ Len(TakenNumbers) = Len(taken)
    BY TakenNumbersType DEF IInv
<1> QED BY <1>1, <1>2 DEF Channel!Newer, TakenNumbers

LEMMA ApImplements ==
    ASSUME IInv, ApStep, ApOutcome
    PROVE  Channel!Next \/ UNCHANGED Channel!vars
<1>1. taken' = taken /\ pcp' = pcp
    BY DEF ApStep
<1>2. /\ ap.isLocked \in BOOLEAN /\ ap.currTxSeqNr \in SeqNr /\ wire.status \in SeqNr
      /\ timedOut \in BOOLEAN
    BY TypedFields DEF IInv, TypeOK
<1>3. timedOut => timedOut'
    BY DEF ApOutcome, Keeps, Numbers, Frees, PostsOnly, FreesAndPosts, PostsAndFrees, FreedBy
<1>4. CASE timedOut
    BY <1>3, <1>4 DEF Channel!Next, Channel!Broken, ChannelPhase
<1>5. CASE ~timedOut /\ timedOut'
    BY <1>1, <1>5 DEF Channel!Next, Channel!GiveUp, ChannelPhase
<1>6. CASE ~timedOut /\ ~timedOut'
    <2> DEFINE n == ap.currTxSeqNr
    <2>1. StatusChain
        BY <1>6 DEF IInv, ChannelInv
    <2>2. wire.status = n => pcp.consStatus = n /\ pcp.currConsSeq = n /\ ap.isLocked
        BY <2>1 DEF StatusChain
    <2>3. ap.isLocked /\ wire.status = n => ChannelPhase = "done"
        BY <1>6, <2>2, NextIsNew DEF ChannelPhase
    <2>4. CASE Keeps
        BY <1>1, <2>4, ChannelSame DEF Keeps, Numbers
    <2>5. CASE Frees
        <3>1. wire.status = n /\ ap.isLocked /\ ~ap'.isLocked
            BY <1>6, <2>5 DEF Frees, FreedBy
        <3>2. ChannelPhase = "done" /\ ChannelPhase' = "free" /\ Message' = 0
            BY <1>6, <2>3, <3>1 DEF ChannelPhase, Message
        <3> QED BY <1>1, <3>2 DEF Channel!Next, Channel!Release, Message
    <2>6. CASE PostsOnly
        <3>1. /\ ap'.img = Image(n, LastFrame + 1) /\ ap'.isLocked /\ ~ap.isLocked
            BY <2>6 DEF PostsOnly, Posts
        <3>2. ap'.img.seqNr = n /\ ap'.img.payl = LastFrame + 1
            BY <3>1 DEF Image
        <3>3. ChannelPhase = "free" /\ ChannelPhase' = "posted" /\ Message' = LastFrame + 1
            BY <1>1, <1>6, <3>1, <3>2, NextIsNew DEF ChannelPhase, Message
        <3> QED BY <1>1, <1>6, <3>3, PostedIsNewer DEF Channel!Next, Channel!Post, Message
    <2>7. CASE FreesAndPosts
        <3>1. /\ ap'.img = Image(changeLocalSeqNr(n), LastFrame + 1) /\ ap'.isLocked
              /\ ap.isLocked /\ wire.status = n
            BY <1>6, <2>7 DEF FreesAndPosts, Posts, FreedBy
        <3>2. ap'.img.seqNr = changeLocalSeqNr(n) /\ ap'.img.payl = LastFrame + 1
            BY <3>1 DEF Image
        <3>3. pcp.currConsSeq # ap'.img.seqNr
            BY <1>2, <2>2, <3>1, <3>2, OtherSeqNr
        <3>4. ChannelPhase = "done" /\ ChannelPhase' = "posted" /\ Message' = LastFrame + 1
            BY <1>1, <1>6, <2>3, <3>1, <3>2, <3>3 DEF ChannelPhase, Message
        <3> QED BY <1>1, <1>6, <3>4, PostedIsNewer DEF Channel!Next, Channel!ReleaseAndPost, Message
    <2>8. CASE PostsAndFrees
        BY <2>2, <2>8 DEF PostsAndFrees
    <2> QED BY <2>4, <2>5, <2>6, <2>7, <2>8 DEF ApOutcome
<1> QED BY <1>2, <1>4, <1>5, <1>6

LEMMA PcpImplements ==
    ASSUME IInv, PcpStep, Quiet \/ Skips \/ Takes \/ Acknowledges \/ Resumes
    PROVE  Channel!Next \/ UNCHANGED Channel!vars
<1>1. ap' = ap /\ timedOut' = timedOut
    BY DEF PcpStep, apVars
<1>2. CASE timedOut
    BY <1>1, <1>2 DEF Channel!Next, Channel!Broken, ChannelPhase
<1>3. CASE ~timedOut /\ (Quiet \/ Skips \/ Resumes)
    <2>1. /\ pcp'.currConsSeq = pcp.currConsSeq /\ pcp'.consStatus = pcp.consStatus
          /\ taken' = taken
        BY <1>3 DEF Quiet, Skips, Resumes
    <2> QED BY <1>1, <2>1, ChannelSame
<1>4. CASE ~timedOut /\ Takes
    <2>1. StatusChain /\ DoneSound /\ UnderwaySound /\ TypeOK
        BY <1>4 DEF IInv, ChannelInv
    <2>2. /\ tbuf.txPub.seqNr # pcp.currConsSeq /\ pcp'.currConsSeq = tbuf.txPub.seqNr
          /\ pcp'.consStatus = pcp.consStatus /\ taken' = Append(taken, tbuf.txPub)
        BY <1>4 DEF Takes
    <2>3. ~Done /\ ap.isLocked /\ tbuf.txPub = ap.img
        BY <2>1, <2>2 DEF Done, DoneSound, UnderwaySound
    <2>4. pcp.consStatus # ap.currTxSeqNr
        BY <1>4, <2>1, <2>3, NextIsNew DEF Done, StatusChain
    <2>5. ChannelPhase = "posted" /\ ChannelPhase' = "taken" /\ Message' = Message
        BY <1>1, <1>4, <2>2, <2>3, <2>4 DEF ChannelPhase, Done, Message
    <2>6. ap.img \in ImageType
        BY <2>1 DEF TypeOK
    <2>7. TakenNumbers' = Append(TakenNumbers, Message)
        BY <2>1, <2>2, <2>3, <2>6, NumbersAppend DEF Message
    <2> QED BY <2>5, <2>7 DEF Channel!Next, Channel!Take, Message, TakenNumbers
<1>5. CASE ~timedOut /\ Acknowledges
    <2>1. DoneSound /\ UnderwaySound /\ ~Waiting
        BY <1>5 DEF IInv, ChannelInv, Acknowledges, Waiting
    <2>2. Done /\ ap.isLocked /\ pcp.consStatus # ap.currTxSeqNr
        BY <2>1 DEF DoneSound, UnderwaySound
    <2>3. /\ pcp'.currConsSeq = pcp.currConsSeq /\ pcp'.consStatus = pcp.currConsSeq
          /\ taken' = taken
        BY <1>5 DEF Acknowledges
    <2>4. pcp.currConsSeq = ap.currTxSeqNr
        BY <1>5, <2>2, NextIsNew DEF Done
    <2>5. ChannelPhase = "taken" /\ ChannelPhase' = "done"
        BY <1>1, <1>5, <2>2, <2>3, <2>4 DEF ChannelPhase, Done
    <2> QED BY <1>1, <2>3, <2>5 DEF Channel!Next, Channel!Finish
<1> QED BY <1>2, <1>3, <1>4, <1>5

LEMMA NextImplements == IInv /\ [Next]_vars => [Channel!Next]_(Channel!vars)
<1> SUFFICES ASSUME IInv, [Next]_vars PROVE Channel!Next \/ UNCHANGED Channel!vars
    OBVIOUS
<1>0. TypeOK /\ ImageInv /\ PendingFindsUnlocked
    BY DEF IInv
<1>1. CASE \E done \in BOOLEAN : TransferFinished(done)
    BY <1>0, <1>1, TransferOutcome, ApImplements DEF ApOutcome
<1>2. CASE SerialReceived
    BY <1>0, <1>2, SerialOutcome, ApImplements DEF ApOutcome
<1>3. CASE SyncIr \/ SendSeqNr \/ SendPayload \/ UNCHANGED vars
    <2>1. UNCHANGED <<ap, pcp, taken, timedOut>>
        BY <1>3 DEF SyncIr, SendSeqNr, SendPayload, vars, apVars, ghosts
    <2> QED BY <2>1, ChannelSame
<1>4. CASE SyncCb \/ PcpBackground
    BY <1>0, <1>4, SyncOutcome, BackgroundOutcome, PcpImplements
<1> QED BY <1>1, <1>2, <1>3, <1>4 DEF Next, ApNext, PcpNext, PcpBackground

(* One frame at a time, taken once and finished before the next one: until *)
(* a timeout frees it, the alternating number with its copies, timers and  *)
(* repeated transfers is a channel that stops and waits (tssdo.c, ssdo.c). *)
THEOREM StopsAndWaits == Spec => ImplementsStopAndWait
<1>1. Init => Channel!Init
    <2> SUFFICES ASSUME Init PROVE Channel!Init
        OBVIOUS
    <2>1. ~ap.isLocked /\ ~timedOut /\ taken = <<>>
        BY DEF Init
    <2>2. [i \in 1..Len(taken) |-> taken[i].payl] = <<>>
        BY <2>1
    <2> QED BY <2>1, <2>2 DEF Channel!Init, ChannelPhase
<1> QED BY <1>1, NextImplements, Inductive, PTL DEF Spec, ImplementsStopAndWait, Channel!Spec
=============================================================================
