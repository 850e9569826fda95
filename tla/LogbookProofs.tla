---------------------------- MODULE LogbookProofs ----------------------------
(***************************************************************************)
(* The logbook channel for every number of calls and every length of the   *)
(* timeouts: what holds whatever overlaps (no blank entry, entries sent as *)
(* taken), what holds until an interrupt posts inside a post of the loop   *)
(* (the buffer belongs to one entry), what needs the alternating sequence  *)
(* number, which holds until a timeout frees the channel, and the channel  *)
(* as a StopAndWait.                                                       *)
(***************************************************************************)
EXTENDS Logbook, SequenceTheorems, TLAPS

Posting == loop.pc # "idle"

(* The PCP has taken the number of the image. *)
Done == pcp.currConsSeq = ap.img.seqNr

(* Once the image has a number its fields are not blank, nor is what the   *)
(* wire has carried of it.                                                 *)
WrittenInv ==
    /\ Posting <=> loop.id # 0
    /\ loop.pc \in {"half", "written", "numbered"} => ap.img.a # 0
    /\ loop.pc \in {"written", "numbered"} => ap.img.b # 0
    /\ ap.img.seqNr \in SeqNr => ap.img.a # 0 /\ ap.img.b # 0
    /\ wire.seqNr \in SeqNr => ap.img.seqNr \in SeqNr
    /\ dma = "half" /\ wire.seqNr \in SeqNr => wire.a # 0
    /\ tbuf.txPub.seqNr \in SeqNr => tbuf.txPub.a # 0 /\ tbuf.txPub.b # 0

(* Where the entry taken last is in the PCP. *)
Underway == pcp.state \in {"ProcessFrame", "RetransmitCurrentMessage", "WaitForNextArpRetry"} /\ ~pcp.reported

(* What has been taken was sent, but for the entry underway; the entry     *)
(* that waits for the handle has its number already.                       *)
SentInv ==
    /\ Len(taken) = IF Underway THEN Len(sent) + 1 ELSE Len(sent)
    /\ pcp.reported => pcp.state \notin {"WaitForFrame", "WaitForNextArpRetry"}
    /\ pcp.state # "WaitForFrame" => pcp.currConsSeq \in SeqNr
    /\ Underway => /\ tbuf.txCon.a = taken[Len(taken)].a
                   /\ tbuf.txCon.b = taken[Len(taken)].b
    /\ \A i \in 1..Len(sent) : sent[i].number <= pcp.entryCount
    /\ pcp.state = "RetransmitCurrentMessage" /\ ~pcp.reported =>
          /\ pcp.burLogEntry = [number |-> pcp.entryCount, a |-> tbuf.txCon.a, b |-> tbuf.txCon.b]
          /\ \A i \in 1..Len(sent) : sent[i].number < pcp.entryCount

(* As long as no interrupt posts inside a post of the loop, the loop has   *)
(* the buffer for itself, and nothing of a lost entry gets into it.        *)
OwnerInv ==
    /\ Posting => ~ap.isLocked /\ loop.id = calls /\ loop.id \notin lost
    /\ loop.pc \in {"half", "written", "numbered"} => ap.img.a = loop.id
    /\ loop.pc \in {"written", "numbered"} => ap.img.b = loop.id
    /\ Offered => ap.img.seqNr = ap.currTxSeqNr /\ ap.img.a = ap.img.b
    /\ ~Offered => ap.img.seqNr # ap.currTxSeqNr
    /\ {ap.img.a, ap.img.b, wire.a, tbuf.txPub.a, tbuf.txPub.b} \cap lost = {}
    /\ \A i \in 1..Len(taken) : {taken[i].a, taken[i].b} \cap lost = {}

(* The acknowledge passes through these copies one after the other. *)
StatusInv ==
    LET n == ap.currTxSeqNr
    IN  /\ wire.status = n => tbuf.statusPub = n
        /\ tbuf.statusPub = n => pcp.consStatus = n
        /\ pcp.consStatus = n => pcp.currConsSeq = n

(* Once the number of the image is taken nothing older is published.       *)
DoneInv ==
    Done => /\ tbuf.txPub.seqNr = ap.img.seqNr
            /\ dma # "idle" => wire.seqNr = ap.img.seqNr
            /\ Offered => \E i \in 1..Len(taken) : taken[i].a = ap.img.a

(* An entry on its way: the wire and the published image carry it or the   *)
(* one before, whose number the PCP knows.                                 *)
OfferInv ==
    ~Done => /\ Offered
             /\ dma # "idle" => wire.seqNr \in {ap.img.seqNr, pcp.currConsSeq}
             /\ dma = "half" /\ wire.seqNr = ap.img.seqNr => wire.a = ap.img.a
             /\ \/ tbuf.txPub.seqNr = pcp.currConsSeq
                \/ tbuf.txPub = ap.img /\ (dma # "idle" => wire.seqNr = ap.img.seqNr)
             /\ \A i \in 1..Len(taken) : taken[i].a < ap.img.a

(* Entries are taken whole, in the order of the calls.                     *)
OrderInv ==
    /\ \A i \in 1..Len(taken) :
          /\ taken[i].a = taken[i].b
          /\ \A j \in 1..(i - 1) : taken[j].a < taken[i].a
          /\ loop.pc \in {"got", "half", "written"} => taken[i].a < loop.id

(* The alternating number, while no timeout has freed the channel.         *)
ChannelInv == StatusInv /\ DoneInv /\ OfferInv /\ OrderInv

-----------------------------------------------------------------------------
(* The types of the state when n calls have begun.                         *)
ImagesTo(n) == [seqNr : SeqNr \cup {"Invalid"}, a : 0..n, b : 0..n]
SentTo(n) == [number : Nat, a : 0..n, b : 0..n]
ApTo(n) == [img : ImagesTo(n), currTxSeqNr : SeqNr, isLocked : BOOLEAN, timer : Timer(TimeoutLimit)]
LoopTo(n) == [pc : {"idle", "got", "half", "written", "numbered"}, id : 0..n]
WireTo(n) == [seqNr : SeqNr \cup {"Invalid"}, a : 0..n, status : SeqNr]
TbufTo(n) == [txPub : ImagesTo(n), txCon : ImagesTo(n), statusPub : SeqNr]
PcpTo(n) == [state : {"WaitForFrame", "ProcessFrame", "WaitForTxFinished",
                      "WaitForNextArpRetry", "RetransmitCurrentMessage"},
             currConsSeq : SeqNr \cup {"Invalid"}, consStatus : SeqNr,
             arpTimer : Timer(ArpLimit), reported : BOOLEAN, entryCount : Nat,
             burLogEntry : SentTo(n)]

ApTyped(n) == ap \in ApTo(n) /\ loop \in LoopTo(n) /\ logTxStatus \in SeqNr /\ lost \subseteq 1..n
BusTyped(n) ==
    /\ dma \in {"idle", "number", "half", "finished"}
    /\ wire \in WireTo(n) /\ tbuf \in TbufTo(n)
PcpTyped(n) == pcp \in PcpTo(n) /\ taken \in Seq(ImagesTo(n)) /\ sent \in Seq(SentTo(n))
Flags == {apUp, pcpUp, overlapped, timedOut} \subseteq BOOLEAN

Typed == /\ calls \in 0..MaxEntries /\ Flags
         /\ ApTyped(calls) /\ BusTyped(calls) /\ PcpTyped(calls)

LogInv == /\ Typed /\ WrittenInv /\ SentInv /\ NeverBlank /\ SentAsTaken /\ AcceptedIsTaken
          /\ ~overlapped => OwnerInv
          /\ ~overlapped /\ ~timedOut => ChannelInv

LEMMA TypedMeans == Typed => TypeOK
BY DEF Typed, TypeOK, ApTyped, BusTyped, PcpTyped, Flags, ApTo, LoopTo, WireTo, TbufTo, PcpTo,
       SentTo, ImagesTo, ImageType, Field, Entry

(* With one call more everything keeps its type. *)
LEMMA TypesGrow ==
    ASSUME NEW n \in Nat
    PROVE  /\ ApTyped(n) => ApTyped(n + 1)
           /\ BusTyped(n) => BusTyped(n + 1)
           /\ PcpTyped(n) => PcpTyped(n + 1)
<1>1. 0..n \subseteq 0..(n + 1) /\ 1..n \subseteq 1..(n + 1)
    OBVIOUS
<1>2. ImagesTo(n) \subseteq ImagesTo(n + 1) /\ SentTo(n) \subseteq SentTo(n + 1)
    BY <1>1 DEF ImagesTo, SentTo
<1>3. ApTo(n) \subseteq ApTo(n + 1) /\ LoopTo(n) \subseteq LoopTo(n + 1) /\ WireTo(n) \subseteq WireTo(n + 1)
    BY <1>1, <1>2 DEF ApTo, LoopTo, WireTo
<1>4. TbufTo(n) \subseteq TbufTo(n + 1) /\ PcpTo(n) \subseteq PcpTo(n + 1)
    BY <1>2 DEF TbufTo, PcpTo
<1>5. Seq(ImagesTo(n)) \subseteq Seq(ImagesTo(n + 1)) /\ Seq(SentTo(n)) \subseteq Seq(SentTo(n + 1))
    BY <1>2
<1>6. lost \subseteq 1..n => lost \subseteq 1..(n + 1)
    BY <1>1
<1> QED BY <1>3, <1>4, <1>5, <1>6 DEF ApTyped, BusTyped, PcpTyped

LEMMA TypedFields ==
    ASSUME Typed
    PROVE  /\ calls \in Nat /\ calls <= MaxEntries
           /\ ApTyped(calls) /\ BusTyped(calls) /\ PcpTyped(calls)
           /\ loop.id \in 0..calls /\ lost \subseteq 1..calls
           /\ ap.img.a \in 0..calls /\ ap.img.b \in 0..calls /\ wire.a \in 0..calls
           /\ tbuf.txPub.a \in 0..calls /\ tbuf.txPub.b \in 0..calls
           /\ ap.isLocked \in BOOLEAN /\ ap.currTxSeqNr \in SeqNr /\ wire.status \in SeqNr
           /\ Len(taken) \in Nat /\ Len(sent) \in Nat
           /\ \A i \in 1..Len(taken) : taken[i].a \in 0..calls /\ taken[i].b \in 0..calls
<1>1. calls \in Nat /\ calls <= MaxEntries /\ ApTyped(calls) /\ BusTyped(calls) /\ PcpTyped(calls)
    BY LimitAssumption DEF Typed
<1>2. \A i \in 1..Len(taken) : taken[i] \in ImagesTo(calls)
    BY <1>1, ElementOfSeq DEF PcpTyped
<1>3. Len(taken) \in Nat /\ Len(sent) \in Nat
    BY <1>1, LenProperties DEF PcpTyped
<1>4. loop.id \in 0..calls /\ lost \subseteq 1..calls
    BY <1>1 DEF ApTyped, LoopTo
<1>5. /\ ap.img.a \in 0..calls /\ ap.img.b \in 0..calls
      /\ ap.isLocked \in BOOLEAN /\ ap.currTxSeqNr \in SeqNr
    BY <1>1 DEF ApTyped, ApTo, ImagesTo
<1>6. /\ wire.a \in 0..calls /\ wire.status \in SeqNr
      /\ tbuf.txPub.a \in 0..calls /\ tbuf.txPub.b \in 0..calls
    BY <1>1 DEF BusTyped, WireTo, TbufTo, ImagesTo
<1> QED BY <1>1, <1>2, <1>3, <1>4, <1>5, <1>6 DEF ImagesTo

LEMMA OtherSeqNr ==
    /\ \A s \in SeqNr : log_changeLocalSeqNr(s) \in SeqNr /\ log_changeLocalSeqNr(s) # s
    /\ \A s, t \in SeqNr : s # t => t = log_changeLocalSeqNr(s)
    /\ "Invalid" \notin SeqNr
BY DEF log_changeLocalSeqNr, SeqNr

LEMMA TimerType ==
    ASSUME NEW limit \in Nat
    PROVE  /\ \A t \in Timer(limit) : incrementCounter(t, limit) \in Timer(limit)
           /\ Started \in Timer(limit) /\ Stopped \in Timer(limit)
BY DEF Timer, incrementCounter, Started, Stopped

-----------------------------------------------------------------------------
(* What the steps of the AP and of the transfer do. *)
ApRest == UNCHANGED <<pcp, taken, sent>> /\ tbuf'.txCon = tbuf.txCon /\ tbuf'.statusPub = tbuf.statusPub
BusKept == UNCHANGED <<dma, wire, tbuf>>
Kept(img) == ap'.img = img /\ ap'.isLocked = ap.isLocked /\ ap'.currTxSeqNr = ap.currTxSeqNr
Counts == calls' = calls /\ lost' = lost /\ overlapped' = overlapped
LoopAt(place) == loop'.pc = place /\ loop'.id = loop.id

Loses == /\ ap.isLocked /\ calls' = calls + 1 /\ lost' = lost \cup {calls + 1}
         /\ BusKept /\ UNCHANGED <<ap, loop, overlapped, timedOut>>
Posts == /\ ~ap.isLocked /\ calls' = calls + 1
         /\ ap'.img = [seqNr |-> ap.currTxSeqNr, a |-> calls + 1, b |-> calls + 1]
         /\ ap'.isLocked /\ ap'.currTxSeqNr = ap.currTxSeqNr
         /\ (overlapped' <=> overlapped \/ Posting)
         /\ BusKept /\ UNCHANGED <<loop, lost, timedOut>>
Gets == /\ loop.pc = "idle" /\ ~ap.isLocked /\ calls' = calls + 1
        /\ loop'.pc = "got" /\ loop'.id = calls + 1
        /\ BusKept /\ UNCHANGED <<ap, lost, overlapped, timedOut>>
WritesA == /\ loop.pc = "got" /\ LoopAt("half")
           /\ Kept([seqNr |-> ap.img.seqNr, a |-> loop.id, b |-> ap.img.b])
           /\ Counts /\ BusKept /\ timedOut' = timedOut
WritesB == /\ loop.pc = "half" /\ LoopAt("written")
           /\ Kept([seqNr |-> ap.img.seqNr, a |-> ap.img.a, b |-> loop.id])
           /\ Counts /\ BusKept /\ timedOut' = timedOut
LosesLate == /\ loop.pc = "written" /\ ap.isLocked /\ lost' = lost \cup {loop.id}
             /\ loop'.pc = "idle" /\ loop'.id = 0
             /\ BusKept /\ UNCHANGED <<ap, calls, overlapped, timedOut>>
SetsNumber == /\ loop.pc = "written" /\ ~ap.isLocked /\ LoopAt("numbered")
              /\ Kept([seqNr |-> ap.currTxSeqNr, a |-> ap.img.a, b |-> ap.img.b])
              /\ Counts /\ BusKept /\ timedOut' = timedOut
Locks == /\ loop.pc = "numbered" /\ loop'.pc = "idle" /\ loop'.id = 0
         /\ ap'.img = ap.img /\ ap'.isLocked /\ ap'.currTxSeqNr = ap.currTxSeqNr
         /\ Counts /\ BusKept /\ timedOut' = timedOut
Reads == /\ dma = "idle" /\ dma' = "number"
         /\ wire'.status = tbuf.statusPub /\ wire'.seqNr = ap.img.seqNr /\ wire'.a = wire.a
         /\ Counts /\ UNCHANGED <<ap, loop, tbuf, timedOut>>
ReadsA == /\ dma = "number" /\ dma' = "half"
          /\ wire'.a = ap.img.a /\ wire'.seqNr = wire.seqNr /\ wire'.status = wire.status
          /\ Counts /\ UNCHANGED <<ap, loop, tbuf, timedOut>>
Publishes == /\ dma = "half" /\ dma' = "finished"
             /\ tbuf'.txPub = [seqNr |-> wire.seqNr, a |-> wire.a, b |-> ap.img.b]
             /\ Counts /\ UNCHANGED <<ap, loop, wire, timedOut>>
Finishes == /\ dma = "finished" /\ dma' = "idle" /\ Kept(ap.img)
            /\ Counts /\ UNCHANGED <<loop, wire, tbuf, timedOut>>
Frees == /\ dma = "finished" /\ dma' = "idle"
         /\ ap.isLocked /\ ~ap'.isLocked /\ ap'.img = ap.img
         /\ ap'.currTxSeqNr = log_changeLocalSeqNr(ap.currTxSeqNr)
         /\ (timedOut' <=> timedOut \/ wire.status # ap.currTxSeqNr)
         /\ Counts /\ UNCHANGED <<loop, wire, tbuf>>

ApOutcome == \/ Loses \/ Posts \/ Gets \/ WritesA \/ WritesB \/ LosesLate \/ SetsNumber \/ Locks
             \/ Reads \/ ReadsA \/ Publishes \/ Finishes \/ Frees
ApStep == ApRest /\ ApOutcome /\ Typed'

LEMMA CallTypes ==
    ASSUME Typed, Call
    PROVE  /\ calls' = calls + 1 /\ calls' \in 0..MaxEntries /\ calls + 1 \in 0..(calls + 1)
           /\ ApTyped(calls') /\ BusTyped(calls') /\ PcpTyped(calls')
<1>1. calls \in Nat /\ calls < MaxEntries /\ calls' = calls + 1
    BY TypedFields DEF Call
<1>2. calls' \in 0..MaxEntries /\ calls + 1 \in 0..(calls + 1)
    BY <1>1, LimitAssumption
<1> QED BY <1>1, <1>2, TypedFields, TypesGrow

LEMMA InterruptOutcome ==
    ASSUME Typed, InterruptPosts
    PROVE  ApStep
<1>1. /\ calls' = calls + 1 /\ calls' \in 0..MaxEntries /\ calls + 1 \in 0..(calls + 1)
      /\ ApTyped(calls') /\ BusTyped(calls') /\ PcpTyped(calls')
    BY CallTypes DEF InterruptPosts
<1>2. UNCHANGED <<loop, apUp, logTxStatus, dma, wire, tbuf, pcp, pcpUp, timedOut, taken, sent>>
    BY DEF InterruptPosts, busVars
<1>3. BusTyped(calls)' /\ PcpTyped(calls)'
    BY <1>1, <1>2 DEF BusTyped, PcpTyped
<1>4. CASE ap.isLocked /\ Lose(calls')
    <2>1. Loses
        BY <1>1, <1>2, <1>4 DEF Lose, Loses, BusKept
    <2>2. ApTyped(calls)' /\ Flags'
        BY <1>1, <1>2, <1>4 DEF Lose, ApTyped, Typed, Flags
    <2> QED BY <1>1, <1>2, <1>3, <2>1, <2>2 DEF ApStep, ApOutcome, ApRest, Typed
<1>5. CASE /\ ~ap.isLocked /\ ap' = postLogChannel0(ap, calls')
           /\ overlapped' = (overlapped \/ loop.pc # "idle") /\ lost' = lost
    <2>1. /\ ap' \in ApTo(calls + 1)
          /\ ap'.img = [seqNr |-> ap.currTxSeqNr, a |-> calls + 1, b |-> calls + 1]
          /\ ap'.isLocked /\ ap'.currTxSeqNr = ap.currTxSeqNr
        BY <1>1, <1>5, TimerType, LimitAssumption DEF postLogChannel0, ApTyped, ApTo, ImagesTo
    <2>2. Posts
        BY <1>1, <1>2, <1>5, <2>1 DEF Posts, BusKept, Posting
    <2>3. ApTyped(calls)' /\ Flags'
        BY <1>1, <1>2, <1>5, <2>1 DEF ApTyped, Typed, Flags
    <2> QED BY <1>1, <1>2, <1>3, <2>2, <2>3 DEF ApStep, ApOutcome, ApRest, Typed
<1> QED BY <1>4, <1>5 DEF InterruptPosts

(* The steps of the loop and of the transfer that begin no call. *)
LEMMA NoCallTypes ==
    ASSUME Typed, UNCHANGED <<calls, pcp, taken, sent>>
    PROVE  calls' \in 0..MaxEntries /\ PcpTyped(calls)'
BY DEF Typed, PcpTyped

LEMMA GetOutcome ==
    ASSUME Typed, getCurrentLogBuffer
    PROVE  ApStep
<1>1. /\ calls' = calls + 1 /\ calls' \in 0..MaxEntries /\ calls + 1 \in 0..(calls + 1)
      /\ ApTyped(calls') /\ BusTyped(calls') /\ PcpTyped(calls')
    BY CallTypes DEF getCurrentLogBuffer
<1>2. UNCHANGED <<apUp, logTxStatus, dma, wire, tbuf, pcp, pcpUp, timedOut, taken, sent>>
    BY DEF getCurrentLogBuffer, LoopOnly, busVars
<1>3. BusTyped(calls)' /\ PcpTyped(calls)'
    BY <1>1, <1>2 DEF BusTyped, PcpTyped
<1>4. CASE ap.isLocked /\ Lose(calls') /\ loop' = loop
    <2>1. Loses
        BY <1>1, <1>2, <1>4 DEF Lose, Loses, BusKept
    <2>2. ApTyped(calls)' /\ Flags'
        BY <1>1, <1>2, <1>4 DEF Lose, ApTyped, Typed, Flags
    <2> QED BY <1>1, <1>2, <1>3, <2>1, <2>2 DEF ApStep, ApOutcome, ApRest, Typed
<1>5. CASE /\ ~ap.isLocked /\ loop' = [pc |-> "got", id |-> calls']
           /\ UNCHANGED <<ap, lost, overlapped>>
    <2>1. Gets
        BY <1>1, <1>2, <1>5 DEF getCurrentLogBuffer, Gets, BusKept
    <2>2. ApTyped(calls)' /\ Flags'
        BY <1>1, <1>2, <1>5 DEF ApTyped, LoopTo, Typed, Flags
    <2> QED BY <1>1, <1>2, <1>3, <2>1, <2>2 DEF ApStep, ApOutcome, ApRest, Typed
<1> QED BY <1>4, <1>5 DEF getCurrentLogBuffer

(* Nothing happens to the transfer in a step of the loop. *)
LEMMA LoopTypes ==
    ASSUME Typed, LoopOnly, calls' = calls, overlapped' = overlapped
    PROVE  /\ ApRest /\ BusKept /\ timedOut' = timedOut /\ logTxStatus' \in SeqNr
           /\ calls' \in 0..MaxEntries /\ BusTyped(calls)' /\ PcpTyped(calls)' /\ Flags'
<1>1. UNCHANGED <<apUp, logTxStatus, dma, wire, tbuf, pcp, pcpUp, timedOut, taken, sent>>
    BY DEF LoopOnly, busVars
<1>2. calls' \in 0..MaxEntries /\ Flags'
    BY <1>1 DEF Typed, Flags
<1>3. BusTyped(calls)' /\ PcpTyped(calls)' /\ logTxStatus' \in SeqNr
    BY <1>1 DEF Typed, ApTyped, BusTyped, PcpTyped
<1> QED BY <1>1, <1>2, <1>3 DEF ApRest, BusKept

LEMMA ReformatOutcome ==
    ASSUME Typed, reformatErrorMessage
    PROVE  ApStep
<1>1. LoopOnly /\ UNCHANGED <<calls, lost, overlapped>>
    BY DEF reformatErrorMessage
<1>2. /\ ApRest /\ BusKept /\ timedOut' = timedOut /\ logTxStatus' \in SeqNr
      /\ calls' \in 0..MaxEntries /\ BusTyped(calls)' /\ PcpTyped(calls)' /\ Flags'
    BY <1>1, LoopTypes
<1>3. ap \in ApTo(calls) /\ loop \in LoopTo(calls) /\ loop.id \in 0..calls /\ lost \subseteq 1..calls
    BY TypedFields DEF ApTyped
<1>4. CASE /\ loop.pc = "got" /\ ap' = [ap EXCEPT !.img.a = loop.id]
           /\ loop' = [loop EXCEPT !.pc = "half"]
    <2>1. ap' \in ApTo(calls) /\ loop' \in LoopTo(calls)
        BY <1>3, <1>4 DEF ApTo, ImagesTo, LoopTo
    <2>2. Kept([seqNr |-> ap.img.seqNr, a |-> loop.id, b |-> ap.img.b]) /\ LoopAt("half")
        BY <1>3, <1>4 DEF ApTo, ImagesTo, LoopTo, Kept, LoopAt
    <2> QED BY <1>1, <1>2, <1>3, <1>4, <2>1, <2>2
            DEF ApStep, ApOutcome, WritesA, Counts, Typed, ApTyped
<1>5. CASE /\ loop.pc = "half" /\ ap' = [ap EXCEPT !.img.b = loop.id]
           /\ loop' = [loop EXCEPT !.pc = "written"]
    <2>1. ap' \in ApTo(calls) /\ loop' \in LoopTo(calls)
        BY <1>3, <1>5 DEF ApTo, ImagesTo, LoopTo
    <2>2. Kept([seqNr |-> ap.img.seqNr, a |-> ap.img.a, b |-> loop.id]) /\ LoopAt("written")
        BY <1>3, <1>5 DEF ApTo, ImagesTo, LoopTo, Kept, LoopAt
    <2> QED BY <1>1, <1>2, <1>3, <1>5, <2>1, <2>2
            DEF ApStep, ApOutcome, WritesB, Counts, Typed, ApTyped
<1> QED BY <1>4, <1>5 DEF reformatErrorMessage

LEMMA PostOutcome ==
    ASSUME Typed, WrittenInv, postLogEntry
    PROVE  ApStep
<1>1. LoopOnly /\ calls' = calls /\ loop.pc = "written" /\ overlapped' = overlapped
    BY DEF postLogEntry, Lose
<1>2. /\ ApRest /\ BusKept /\ timedOut' = timedOut /\ logTxStatus' \in SeqNr
      /\ calls' \in 0..MaxEntries /\ BusTyped(calls)' /\ PcpTyped(calls)' /\ Flags'
    BY <1>1, LoopTypes
<1>3. /\ ap \in ApTo(calls) /\ loop \in LoopTo(calls) /\ loop.id \in 1..calls /\ lost \subseteq 1..calls
      /\ calls \in Nat
    BY <1>1, TypedFields DEF ApTyped, WrittenInv, Posting
<1>4. CASE ap.isLocked
    <2>1. /\ ap' = ap /\ loop' = [pc |-> "idle", id |-> 0] /\ lost' = lost \cup {loop.id}
        BY <1>4 DEF postLogEntry, Lose
    <2>2. loop' \in LoopTo(calls) /\ lost' \subseteq 1..calls
        <3>1. 0 \in 0..calls
            BY <1>3
        <3>2. loop' \in LoopTo(calls)
            BY <2>1, <3>1 DEF LoopTo
        <3>3. lost' \subseteq 1..calls
            BY <1>3, <2>1
        <3> QED BY <3>2, <3>3
    <2> QED BY <1>1, <1>2, <1>3, <1>4, <2>1, <2>2
            DEF ApStep, ApOutcome, LosesLate, Typed, ApTyped
<1>5. CASE ~ap.isLocked
    <2>1. /\ ap' = [ap EXCEPT !.img.seqNr = ap.currTxSeqNr] /\ loop' = [loop EXCEPT !.pc = "numbered"]
          /\ lost' = lost
        BY <1>5 DEF postLogEntry
    <2>2. ap' \in ApTo(calls) /\ loop' \in LoopTo(calls)
        BY <1>3, <2>1 DEF ApTo, ImagesTo, LoopTo
    <2>3. Kept([seqNr |-> ap.currTxSeqNr, a |-> ap.img.a, b |-> ap.img.b]) /\ LoopAt("numbered")
        BY <1>3, <2>1 DEF ApTo, ImagesTo, LoopTo, Kept, LoopAt
    <2> QED BY <1>1, <1>2, <1>3, <1>5, <2>1, <2>2, <2>3
            DEF ApStep, ApOutcome, SetsNumber, Counts, Typed, ApTyped
<1> QED BY <1>4, <1>5

LEMMA LockOutcome ==
    ASSUME Typed, lockBuffer
    PROVE  ApStep
<1>1. /\ LoopOnly /\ UNCHANGED <<calls, lost, overlapped>> /\ loop.pc = "numbered"
      /\ ap' = [ap EXCEPT !.isLocked = TRUE, !.timer = Started]
      /\ loop' = [pc |-> "idle", id |-> 0]
    BY DEF lockBuffer
<1>2. /\ ApRest /\ BusKept /\ timedOut' = timedOut /\ logTxStatus' \in SeqNr
      /\ calls' \in 0..MaxEntries /\ BusTyped(calls)' /\ PcpTyped(calls)' /\ Flags'
    BY <1>1, LoopTypes
<1>3. ap \in ApTo(calls) /\ lost \subseteq 1..calls /\ calls \in Nat
    BY TypedFields DEF ApTyped
<1>4. ap' \in ApTo(calls) /\ ap'.img = ap.img /\ ap'.isLocked /\ ap'.currTxSeqNr = ap.currTxSeqNr
    BY <1>1, <1>3, TimerType, LimitAssumption DEF ApTo
<1>5. loop' \in LoopTo(calls)
    BY <1>1, <1>3 DEF LoopTo
<1> QED BY <1>1, <1>2, <1>3, <1>4, <1>5 DEF ApStep, ApOutcome, Locks, Counts, Typed, ApTyped

LEMMA TransferOutcome ==
    ASSUME Typed, SyncIr \/ SendEntry
    PROVE  ApStep
<1>1. UNCHANGED <<ap, loop, apUp, logTxStatus, pcp, pcpUp, calls, lost, overlapped, timedOut, taken, sent>>
    BY DEF SyncIr, SendEntry, apVars, ghosts
<1>2. calls' \in 0..MaxEntries /\ Flags' /\ ApTyped(calls)' /\ PcpTyped(calls)'
    BY <1>1 DEF Typed, Flags, ApTyped, PcpTyped
<1>3. ap \in ApTo(calls) /\ wire \in WireTo(calls) /\ tbuf \in TbufTo(calls)
    BY DEF Typed, ApTyped, BusTyped
<1>4. CASE SyncIr
    <2>1. /\ wire' = [wire EXCEPT !.status = tbuf.statusPub, !.seqNr = ap.img.seqNr]
          /\ dma = "idle" /\ dma' = "number" /\ tbuf' = tbuf
        BY <1>4 DEF SyncIr
    <2>2. wire' \in WireTo(calls)
        BY <1>3, <2>1 DEF WireTo, ApTo, ImagesTo, TbufTo
    <2>3. Reads
        BY <1>1, <1>3, <2>1 DEF Reads, WireTo, Counts
    <2> QED BY <1>1, <1>2, <1>3, <2>1, <2>2, <2>3 DEF ApStep, ApOutcome, ApRest, Typed, BusTyped
<1>5. CASE SendEntry /\ dma = "number"
    <2>1. wire' = [wire EXCEPT !.a = ap.img.a] /\ dma' = "half" /\ tbuf' = tbuf
        BY <1>5 DEF SendEntry
    <2>2. wire' \in WireTo(calls)
        BY <1>3, <2>1 DEF WireTo, ApTo, ImagesTo
    <2>3. ReadsA
        BY <1>1, <1>3, <1>5, <2>1 DEF ReadsA, WireTo, Counts
    <2> QED BY <1>1, <1>2, <1>3, <2>1, <2>2, <2>3 DEF ApStep, ApOutcome, ApRest, Typed, BusTyped
<1>6. CASE SendEntry /\ dma # "number"
    <2>1. /\ dma = "half" /\ dma' = "finished" /\ wire' = wire
          /\ tbuf' = [tbuf EXCEPT !.txPub = [seqNr |-> wire.seqNr, a |-> wire.a, b |-> ap.img.b]]
        BY <1>6 DEF SendEntry
    <2>2. tbuf' \in TbufTo(calls)
        BY <1>3, <2>1 DEF TbufTo, WireTo, ApTo, ImagesTo
    <2>3. Publishes /\ tbuf'.txCon = tbuf.txCon /\ tbuf'.statusPub = tbuf.statusPub
        BY <1>1, <1>3, <2>1 DEF Publishes, TbufTo, Counts
    <2> QED BY <1>1, <1>2, <1>3, <2>1, <2>2, <2>3 DEF ApStep, ApOutcome, ApRest, Typed, BusTyped
<1> QED BY <1>4, <1>5, <1>6

LEMMA FinishedOutcome ==
    ASSUME Typed, NEW process \in BOOLEAN, TransferFinished(process)
    PROVE  ApStep
<1> DEFINE a == [ap EXCEPT !.timer = incrementCounter(@, TimeoutLimit)]
           b == log_handleTxFrame(a, wire.status)
           free == a.isLocked /\ (wire.status = a.currTxSeqNr \/ Expired(a.timer, TimeoutLimit))
<1>1. /\ dma = "finished" /\ dma' = "idle" /\ logTxStatus' = wire.status
      /\ ap' = IF process THEN b ELSE a
      /\ timedOut' = (timedOut \/ (process /\ b # a /\ wire.status # a.currTxSeqNr))
      /\ UNCHANGED <<loop, apUp, wire, tbuf, pcp, pcpUp, calls, lost, overlapped, taken, sent>>
    BY DEF TransferFinished
<1>2. ap \in ApTo(calls) /\ wire \in WireTo(calls)
    BY DEF Typed, ApTyped, BusTyped
<1>3. /\ a \in ApTo(calls) /\ a.img = ap.img /\ a.isLocked = ap.isLocked
      /\ a.currTxSeqNr = ap.currTxSeqNr
    BY <1>2, TimerType, LimitAssumption DEF ApTo
<1>4. ~free => b = a
    BY DEF log_handleTxFrame
<1>5. free => /\ b \in ApTo(calls) /\ b.img = a.img /\ b.isLocked = FALSE /\ b # a
              /\ b.currTxSeqNr = log_changeLocalSeqNr(a.currTxSeqNr)
    <2> SUFFICES ASSUME free
                 PROVE  /\ b \in ApTo(calls) /\ b.img = a.img /\ b.isLocked = FALSE /\ b # a
                        /\ b.currTxSeqNr = log_changeLocalSeqNr(a.currTxSeqNr)
        OBVIOUS
    <2>1. b = [a EXCEPT !.isLocked = FALSE, !.timer = Stopped,
                        !.currTxSeqNr = log_changeLocalSeqNr(a.currTxSeqNr)]
        BY <1>3 DEF log_handleTxFrame, ApTo
    <2>2. a.isLocked
        OBVIOUS
    <2>3. log_changeLocalSeqNr(a.currTxSeqNr) \in SeqNr /\ Stopped \in Timer(TimeoutLimit)
        BY <1>3, OtherSeqNr, TimerType, LimitAssumption DEF ApTo
    <2> HIDE DEF a, b
    <2> QED BY <1>3, <2>1, <2>2, <2>3 DEF ApTo
<1> HIDE DEF a, b, free
<1>6. BusTyped(calls)' /\ PcpTyped(calls)' /\ calls' \in 0..MaxEntries
    BY <1>1 DEF Typed, BusTyped, PcpTyped
<1>7. wire.status \in SeqNr
    BY <1>2 DEF WireTo
<1>8. CASE process /\ free
    <2>1. ap' = b /\ (timedOut' <=> timedOut \/ wire.status # ap.currTxSeqNr) /\ timedOut' \in BOOLEAN
        BY <1>1, <1>3, <1>5, <1>8
    <2>2. Frees
        BY <1>1, <1>3, <1>5, <1>8, <2>1 DEF Frees, Counts, free
    <2>3. ApTyped(calls)' /\ Flags'
        BY <1>1, <1>5, <1>7, <1>8, <2>1 DEF Typed, ApTyped, Flags
    <2> QED BY <1>1, <1>6, <2>2, <2>3 DEF ApStep, ApOutcome, ApRest, Typed
<1>9. CASE ~(process /\ free)
    <2>1. ap' = a /\ (timedOut' = timedOut)
        <3>1. ap' = a
            BY <1>1, <1>4, <1>9
        <3>2. timedOut' = (timedOut \/ FALSE)
            BY <1>1, <1>4, <1>9
        <3>3. timedOut \in BOOLEAN
            BY DEF Typed, Flags
        <3> QED BY <3>1, <3>2, <3>3
    <2>2. Finishes
        BY <1>1, <1>3, <2>1 DEF Finishes, Counts, Kept
    <2>3. ApTyped(calls)' /\ Flags'
        BY <1>1, <1>3, <1>7, <2>1 DEF Typed, ApTyped, Flags
    <2> QED BY <1>1, <1>6, <2>2, <2>3 DEF ApStep, ApOutcome, ApRest, Typed
<1> QED BY <1>8, <1>9

(* Each part of the invariant over the steps of the AP. *)
LEMMA ApSent ==
    ASSUME LogInv, ApStep
    PROVE  SentInv' /\ NeverBlank' /\ SentAsTaken'
BY DEF LogInv, ApStep, ApRest, SentInv, Underway, NeverBlank, SentAsTaken

LEMMA ApWritten ==
    ASSUME LogInv, ApStep
    PROVE  WrittenInv'
<1>1. Typed /\ WrittenInv /\ ApRest
    BY DEF LogInv, ApStep
<1>10. CASE Loses
    BY <1>10, <1>1 DEF Loses, BusKept, WrittenInv, Posting
<1>11. CASE Posts
    BY <1>11, <1>1, TypedFields DEF Posts, BusKept, WrittenInv, Posting
<1>12. CASE Gets
    BY <1>12, <1>1, TypedFields DEF Gets, BusKept, WrittenInv, Posting
<1>13. CASE WritesA
    BY <1>13, <1>1 DEF WritesA, BusKept, Kept, LoopAt, WrittenInv, Posting
<1>14. CASE WritesB
    BY <1>14, <1>1 DEF WritesB, BusKept, Kept, LoopAt, WrittenInv, Posting
<1>15. CASE LosesLate
    BY <1>15, <1>1 DEF LosesLate, BusKept, WrittenInv, Posting
<1>16. CASE SetsNumber
    BY <1>16, <1>1, TypedFields DEF SetsNumber, BusKept, Kept, LoopAt, WrittenInv, Posting
<1>17. CASE Locks
    BY <1>17, <1>1 DEF Locks, BusKept, WrittenInv, Posting
<1>18. CASE Reads
    BY <1>18, <1>1 DEF Reads, WrittenInv, Posting
<1>19. CASE ReadsA
    BY <1>19, <1>1 DEF ReadsA, WrittenInv, Posting
<1>20. CASE Publishes
    BY <1>20, <1>1 DEF Publishes, WrittenInv, Posting
<1>21. CASE Finishes
    BY <1>21, <1>1 DEF Finishes, Kept, WrittenInv, Posting
<1>22. CASE Frees
    BY <1>22, <1>1 DEF Frees, WrittenInv, Posting
<1> QED BY <1>10, <1>11, <1>12, <1>13, <1>14, <1>15, <1>16, <1>17, <1>18, <1>19, <1>20, <1>21, <1>22
           DEF ApStep, ApOutcome

LEMMA ApOwner ==
    ASSUME LogInv, ApStep, ~overlapped'
    PROVE  OwnerInv'
<1>1. Typed /\ WrittenInv /\ ApRest
    BY DEF LogInv, ApStep
<1>2. ~overlapped => OwnerInv
    BY DEF LogInv
<1>3. ap'.isLocked \in BOOLEAN
    BY DEF ApStep, Typed, ApTyped, ApTo
<1>10. CASE Loses
    BY <1>10, <1>1, <1>2, <1>3, TypedFields DEF Loses, BusKept, ApRest, OwnerInv, Posting, Offered
<1>11. CASE Posts
    BY <1>11, <1>1, <1>2, TypedFields DEF Posts, BusKept, ApRest, OwnerInv, Posting, Offered
<1>12. CASE Gets
    BY <1>12, <1>1, <1>2, TypedFields DEF Gets, BusKept, ApRest, OwnerInv, Offered
<1>13. CASE WritesA
    BY <1>13, <1>1, <1>2 DEF WritesA, BusKept, Kept, LoopAt, Counts, ApRest, OwnerInv, Posting, Offered
<1>14. CASE WritesB
    BY <1>14, <1>1, <1>2 DEF WritesB, BusKept, Kept, LoopAt, Counts, ApRest, OwnerInv, Posting, Offered
<1>15. CASE LosesLate
    BY <1>15, <1>2 DEF LosesLate, OwnerInv, Posting
<1>16. CASE SetsNumber
    BY <1>16, <1>1, <1>2 DEF SetsNumber, BusKept, Kept, LoopAt, Counts, ApRest, OwnerInv, Posting, Offered
<1>17. CASE Locks
    BY <1>17, <1>1, <1>2 DEF Locks, BusKept, Counts, ApRest, OwnerInv, Posting, Offered
<1>18. CASE Reads
    BY <1>18, <1>1, <1>2 DEF Reads, Counts, ApRest, OwnerInv, Posting, Offered
<1>19. CASE ReadsA
    BY <1>19, <1>1, <1>2 DEF ReadsA, Counts, ApRest, OwnerInv, Posting, Offered
<1>20. CASE Publishes
    BY <1>20, <1>1, <1>2 DEF Publishes, Counts, ApRest, OwnerInv, Posting, Offered
<1>21. CASE Finishes
    BY <1>21, <1>1, <1>2 DEF Finishes, Kept, Counts, ApRest, OwnerInv, Posting, Offered
<1>22. CASE Frees
    BY <1>22, <1>1, <1>2, TypedFields, OtherSeqNr DEF Frees, Counts, ApRest, OwnerInv, Posting, Offered
<1> QED BY <1>10, <1>11, <1>12, <1>13, <1>14, <1>15, <1>16, <1>17, <1>18, <1>19, <1>20, <1>21, <1>22
           DEF ApStep, ApOutcome

LEMMA ApChannel ==
    ASSUME LogInv, ApStep, ~overlapped', ~timedOut'
    PROVE  ChannelInv'
<1>1. Typed /\ WrittenInv /\ ApRest
    BY DEF LogInv, ApStep
<1>2. ~overlapped => OwnerInv
    BY DEF LogInv
<1>3. ~overlapped /\ ~timedOut => ChannelInv
    BY DEF LogInv
<1>10. CASE Loses
    BY <1>10, <1>1, <1>3
       DEF Loses, BusKept, ApRest, Offered, ChannelInv, StatusInv, DoneInv, OfferInv, OrderInv, Done
<1>11. CASE Posts
    BY <1>11, <1>1, <1>2, <1>3, TypedFields
       DEF Posts, BusKept, ApRest, OwnerInv, Posting, Offered, ChannelInv, StatusInv, DoneInv,
           OfferInv, OrderInv, Done
<1>12. CASE Gets
    BY <1>12, <1>1, <1>3, TypedFields
       DEF Gets, BusKept, ApRest, OwnerInv, Offered, ChannelInv, StatusInv, DoneInv, OfferInv,
           OrderInv, Done
<1>13. CASE WritesA
    BY <1>13, <1>1, <1>2, <1>3
       DEF WritesA, BusKept, Kept, LoopAt, Counts, ApRest, OwnerInv, Posting, Offered, ChannelInv,
           StatusInv, DoneInv, OfferInv, OrderInv, Done
<1>14. CASE WritesB
    BY <1>14, <1>1, <1>2, <1>3
       DEF WritesB, BusKept, Kept, LoopAt, Counts, ApRest, OwnerInv, Posting, Offered, ChannelInv,
           StatusInv, DoneInv, OfferInv, OrderInv, Done
<1>15. CASE LosesLate
    BY <1>15, <1>2 DEF LosesLate, OwnerInv, Posting
<1>16. CASE SetsNumber
    BY <1>16, <1>1, <1>2, <1>3
       DEF SetsNumber, BusKept, Kept, LoopAt, Counts, ApRest, OwnerInv, Offered, ChannelInv,
           StatusInv, DoneInv, OfferInv, OrderInv, Done
<1>17. CASE Locks
    BY <1>17, <1>1, <1>3
       DEF Locks, BusKept, Counts, ApRest, Offered, ChannelInv, StatusInv, DoneInv, OfferInv,
           OrderInv, Done
<1>18. CASE Reads
    BY <1>18, <1>1, <1>3
       DEF Reads, Counts, ApRest, Offered, ChannelInv, StatusInv, DoneInv, OfferInv, OrderInv, Done
<1>19. CASE ReadsA
    BY <1>19, <1>1, <1>3
       DEF ReadsA, Counts, ApRest, Offered, ChannelInv, StatusInv, DoneInv, OfferInv, OrderInv, Done
<1>20. CASE Publishes
    <2>1. ap.img = [seqNr |-> ap.img.seqNr, a |-> ap.img.a, b |-> ap.img.b]
        BY <1>1, TypedFields DEF ApTyped, ApTo, ImagesTo
    <2>2. StatusInv' /\ OrderInv'
        BY <1>20, <1>1, <1>3 DEF Publishes, Counts, ApRest, ChannelInv, StatusInv, OrderInv
    <2>3. CASE Done
        <3>1. Done' /\ tbuf'.txPub.seqNr = ap.img.seqNr
            BY <1>20, <1>1, <1>3, <2>3 DEF Publishes, Counts, ApRest, ChannelInv, DoneInv, Done
        <3>2. DoneInv'
            BY <1>20, <1>1, <1>3, <2>3 DEF Publishes, Counts, ApRest, ChannelInv, DoneInv, Offered
        <3> QED BY <2>2, <3>1, <3>2 DEF ChannelInv, OfferInv
    <2>4. CASE ~Done
        <3>1. wire.seqNr = ap.img.seqNr => tbuf'.txPub = ap.img
            BY <1>20, <1>3, <2>1, <2>4 DEF Publishes, Counts, ChannelInv, OfferInv
        <3>2. ~Done' /\ tbuf'.txPub.seqNr = wire.seqNr
            BY <1>20, <1>1, <2>4 DEF Publishes, ApRest, Done
        <3>3. OfferInv'
            BY <1>20, <1>1, <1>3, <2>4, <3>1 DEF Publishes, Counts, ApRest, ChannelInv, OfferInv, Offered
        <3> QED BY <2>2, <3>2, <3>3 DEF ChannelInv, DoneInv
    <2> QED BY <2>3, <2>4
<1>21. CASE Finishes
    BY <1>21, <1>1, <1>3
       DEF Finishes, Kept, Counts, ApRest, Offered, ChannelInv, StatusInv, DoneInv, OfferInv,
           OrderInv, Done
<1>22. CASE Frees
    BY <1>22, <1>1, <1>2, <1>3
       DEF Frees, Counts, ApRest, OwnerInv, ChannelInv, StatusInv, DoneInv, OfferInv, OrderInv, Done
<1> QED BY <1>10, <1>11, <1>12, <1>13, <1>14, <1>15, <1>16, <1>17, <1>18, <1>19, <1>20, <1>21, <1>22
           DEF ApStep, ApOutcome

LEMMA ApAccepted ==
    ASSUME LogInv, ApStep
    PROVE  AcceptedIsTaken'
<1>1. Typed /\ WrittenInv /\ ApRest
    BY DEF LogInv, ApStep
<1>2. ~overlapped => OwnerInv
    BY DEF LogInv
<1>3. ~overlapped /\ ~timedOut => ChannelInv
    BY DEF LogInv
<1>4. AcceptedIsTaken
    BY DEF LogInv
<1>10. CASE Loses
    <2>1. accepted' \subseteq accepted
        BY <1>10, <1>1, TypedFields DEF Loses, accepted, Entry
    <2> QED BY <1>10, <1>1, <1>4, <2>1 DEF Loses, ApRest, AcceptedIsTaken
<1>11. CASE Posts
    BY <1>11, <1>1, <1>2, <1>4, TypedFields
       DEF Posts, BusKept, ApRest, Posting, AcceptedIsTaken, accepted, Entry
<1>12. CASE Gets
    <2>1. accepted' \subseteq accepted
        BY <1>12, <1>1, TypedFields DEF Gets, WrittenInv, Posting, accepted, Entry
    <2> QED BY <1>12, <1>1, <1>4, <2>1 DEF Gets, ApRest, AcceptedIsTaken
<1>13. CASE WritesA
    BY <1>13, <1>1, <1>2, <1>4
       DEF WritesA, LoopAt, Counts, ApRest, OwnerInv, Posting, AcceptedIsTaken, accepted, Entry
<1>14. CASE WritesB
    BY <1>14, <1>1, <1>4 DEF WritesB, BusKept, Kept, LoopAt, Counts, ApRest, AcceptedIsTaken, accepted, Entry
<1>15. CASE LosesLate
    BY <1>15, <1>2 DEF LosesLate, OwnerInv, Posting, AcceptedIsTaken
<1>16. CASE SetsNumber
    BY <1>16, <1>1, <1>4 DEF SetsNumber, LoopAt, Counts, ApRest, AcceptedIsTaken, accepted, Entry
<1>17. CASE Locks
    BY <1>17, <1>1, <1>2, <1>4 DEF Locks, Counts, ApRest, OwnerInv, AcceptedIsTaken, accepted, Entry
<1>18. CASE Reads
    BY <1>18, <1>1, <1>4 DEF Reads, Counts, ApRest, AcceptedIsTaken, accepted, Entry
<1>19. CASE ReadsA
    BY <1>19, <1>1, <1>4 DEF ReadsA, Counts, ApRest, AcceptedIsTaken, accepted, Entry
<1>20. CASE Publishes
    BY <1>20, <1>1, <1>4 DEF Publishes, Counts, ApRest, AcceptedIsTaken, accepted, Entry
<1>21. CASE Finishes
    BY <1>21, <1>1, <1>4 DEF Finishes, Kept, Counts, ApRest, AcceptedIsTaken, accepted, Entry
<1>22. CASE Frees
    <2> SUFFICES ASSUME ~overlapped', ~timedOut', NEW id \in accepted'
                 PROVE  \E i \in 1..Len(taken) : taken[i].a = id
        BY <1>1 DEF AcceptedIsTaken, ApRest
    <2>1. /\ ~overlapped /\ ~timedOut /\ wire.status = ap.currTxSeqNr /\ ap.isLocked
          /\ id \in accepted
        BY <1>22 DEF Frees, Counts, accepted, Entry
    <2>2. Done /\ Offered
        BY <1>2, <1>3, <2>1 DEF OwnerInv, ChannelInv, StatusInv, Done, Offered
    <2>3. \E i \in 1..Len(taken) : taken[i].a = ap.img.a
        BY <1>3, <2>1, <2>2 DEF ChannelInv, DoneInv
    <2> QED BY <1>4, <2>1, <2>3 DEF AcceptedIsTaken
<1> QED BY <1>10, <1>11, <1>12, <1>13, <1>14, <1>15, <1>16, <1>17, <1>18, <1>19, <1>20, <1>21, <1>22
           DEF ApStep, ApOutcome

-----------------------------------------------------------------------------
(* What the steps of the PCP do. *)
ApKept == UNCHANGED <<ap, loop, dma, wire, calls, lost, overlapped, timedOut>>

Synchronises ==
    /\ tbuf'.txPub = tbuf.txPub /\ tbuf'.statusPub = pcp.consStatus
    /\ pcp.state # "WaitForFrame" => tbuf'.txCon = tbuf.txCon
    /\ taken' = taken /\ sent' = sent
    /\ pcp'.state = pcp.state /\ pcp'.currConsSeq = pcp.currConsSeq
    /\ pcp'.consStatus = pcp.consStatus /\ pcp'.reported = pcp.reported
    /\ pcp'.entryCount = pcp.entryCount /\ pcp'.burLogEntry = pcp.burLogEntry
Takes ==
    /\ pcp.state = "WaitForFrame" /\ pcp'.state = "ProcessFrame"
    /\ tbuf.txPub.seqNr \in SeqNr /\ tbuf.txPub.seqNr # pcp.currConsSeq
    /\ pcp'.currConsSeq = tbuf.txPub.seqNr /\ pcp'.consStatus = pcp.consStatus
    /\ pcp'.reported = pcp.reported /\ pcp'.entryCount = pcp.entryCount
    /\ tbuf'.txPub = tbuf.txPub /\ tbuf'.txCon = tbuf.txPub /\ tbuf'.statusPub = pcp.consStatus
    /\ taken' = Append(taken, tbuf.txPub) /\ sent' = sent

LEMMA SyncOutcome ==
    ASSUME Typed, SyncCb
    PROVE  ApKept /\ (Synchronises \/ Takes) /\ Typed'
<1> DEFINE p == [pcp EXCEPT !.arpTimer = incrementCounter(@, ArpLimit)]
<1>1. log_handleIncoming(p) /\ UNCHANGED <<ap, loop, apUp, logTxStatus, dma, wire, pcpUp, calls, lost,
                                          overlapped, timedOut, sent>>
    BY DEF SyncCb, apVars, busVars, ghosts
<1>2. pcp \in PcpTo(calls) /\ tbuf \in TbufTo(calls) /\ taken \in Seq(ImagesTo(calls))
    BY DEF Typed, BusTyped, PcpTyped
<1>3. /\ p \in PcpTo(calls) /\ p.state = pcp.state /\ p.currConsSeq = pcp.currConsSeq
      /\ p.consStatus = pcp.consStatus /\ p.reported = pcp.reported
      /\ p.entryCount = pcp.entryCount /\ p.burLogEntry = pcp.burLogEntry
    <2>1. incrementCounter(pcp.arpTimer, ArpLimit) \in Timer(ArpLimit)
        BY <1>2, TimerType, LimitAssumption DEF PcpTo
    <2> QED BY <1>2, <2>1 DEF PcpTo
<1>4. ApKept /\ calls' \in 0..MaxEntries /\ Flags' /\ ApTyped(calls)'
    BY <1>1 DEF ApKept, Typed, Flags, ApTyped
<1>5. tbuf.txPub \in ImagesTo(calls)
    BY <1>2 DEF TbufTo
<1> HIDE DEF p
<1>6. CASE p.state = "WaitForFrame" /\ Incoming \in SeqNr /\ Incoming # p.currConsSeq
    <2>1. /\ tbuf' = [tbuf EXCEPT !.statusPub = p.consStatus, !.txCon = tbuf.txPub]
          /\ pcp' = [p EXCEPT !.state = "ProcessFrame", !.currConsSeq = tbuf.txPub.seqNr]
          /\ taken' = Append(taken, tbuf.txPub)
        BY <1>1, <1>6 DEF log_handleIncoming, Incoming
    <2>2. tbuf' \in TbufTo(calls) /\ pcp' \in PcpTo(calls) /\ taken' \in Seq(ImagesTo(calls))
        <3>1. tbuf' \in TbufTo(calls)
            BY <1>2, <1>3, <1>5, <2>1 DEF TbufTo, PcpTo
        <3>2. tbuf.txPub.seqNr \in SeqNr
            BY <1>6 DEF Incoming
        <3>3. pcp' \in PcpTo(calls)
            BY <1>3, <2>1, <3>2 DEF PcpTo
        <3>4. taken' \in Seq(ImagesTo(calls))
            BY <1>2, <1>5, <2>1, AppendProperties
        <3> QED BY <3>1, <3>3, <3>4
    <2>3. Takes
        BY <1>1, <1>2, <1>3, <1>6, <2>1 DEF Takes, TbufTo, PcpTo, Incoming
    <2> QED BY <1>1, <1>2, <1>4, <2>2, <2>3 DEF Typed, BusTyped, PcpTyped
<1>7. CASE p.state = "WaitForFrame" /\ ~(Incoming \in SeqNr /\ Incoming # p.currConsSeq)
    <2>1. /\ tbuf' = [tbuf EXCEPT !.statusPub = p.consStatus, !.txCon = tbuf.txPub]
          /\ pcp' = p /\ taken' = taken
        BY <1>1, <1>7 DEF log_handleIncoming
    <2>2. tbuf' \in TbufTo(calls)
        BY <1>2, <1>3, <1>5, <2>1 DEF TbufTo, PcpTo
    <2>3. Synchronises
        BY <1>1, <1>2, <1>3, <1>7, <2>1 DEF Synchronises, TbufTo
    <2> QED BY <1>1, <1>2, <1>3, <1>4, <2>1, <2>2, <2>3 DEF Typed, BusTyped, PcpTyped
<1>8. CASE p.state # "WaitForFrame"
    <2>1. tbuf' = [tbuf EXCEPT !.statusPub = p.consStatus] /\ pcp' = p /\ taken' = taken
        BY <1>1, <1>8 DEF log_handleIncoming
    <2>2. tbuf' \in TbufTo(calls)
        BY <1>2, <1>3, <2>1 DEF TbufTo, PcpTo
    <2>3. Synchronises
        BY <1>1, <1>2, <1>3, <1>8, <2>1 DEF Synchronises, TbufTo
    <2> QED BY <1>1, <1>2, <1>3, <1>4, <2>1, <2>2, <2>3 DEF Typed, BusTyped, PcpTyped
<1> QED BY <1>6, <1>7, <1>8

LEMMA SyncStep ==
    ASSUME LogInv, SyncCb
    PROVE  LogInv'
<1>1. Typed /\ ApKept /\ (Synchronises \/ Takes) /\ Typed'
    BY SyncOutcome DEF LogInv
<1>2. CASE Synchronises
    <2>1. WrittenInv' /\ NeverBlank' /\ SentAsTaken' /\ AcceptedIsTaken'
        BY <1>1, <1>2 DEF LogInv, ApKept, Synchronises, WrittenInv, Posting, NeverBlank, SentAsTaken,
                          AcceptedIsTaken, accepted, Entry
    <2>2. SentInv'
        BY <1>1, <1>2 DEF LogInv, Synchronises, SentInv, Underway
    <2>3. ~overlapped' => OwnerInv'
        BY <1>1, <1>2 DEF LogInv, ApKept, Synchronises, OwnerInv, Posting, Offered
    <2>4. ~overlapped' /\ ~timedOut' => ChannelInv'
        BY <1>1, <1>2 DEF LogInv, ApKept, Synchronises, ChannelInv, StatusInv, DoneInv, OfferInv,
                          OrderInv, Done, Offered
    <2> QED BY <1>1, <2>1, <2>2, <2>3, <2>4 DEF LogInv
<1>3. CASE Takes
    <2>1. /\ Len(taken') = Len(taken) + 1 /\ Len(taken) \in Nat
          /\ taken'[Len(taken) + 1] = tbuf.txPub
          /\ \A i \in 1..Len(taken) : taken'[i] = taken[i]
        BY <1>1, <1>3, AppendProperties, TypedFields DEF Takes, PcpTyped, BusTyped, TbufTo
    <2>2. tbuf.txPub.a # 0 /\ tbuf.txPub.b # 0
        BY <1>3 DEF LogInv, Takes, WrittenInv
    <2>3. WrittenInv'
        BY <1>1, <1>3 DEF LogInv, ApKept, Takes, WrittenInv, Posting
    <2>4. NeverBlank'
        BY <2>1, <2>2 DEF LogInv, NeverBlank
    <2>5. Len(sent) = Len(taken) /\ ~pcp.reported
        BY <1>3 DEF LogInv, Takes, SentInv, Underway
    <2>6. SentInv'
        BY <1>3, <2>1, <2>5 DEF LogInv, Takes, SentInv, Underway
    <2>7. SentAsTaken'
        BY <1>3, <2>1, <2>5 DEF LogInv, Takes, SentAsTaken
    <2>8. AcceptedIsTaken'
        BY <1>1, <2>1 DEF LogInv, ApKept, AcceptedIsTaken, accepted, Entry
    <2>9. ~overlapped' => OwnerInv'
        BY <1>1, <1>3, <2>1 DEF LogInv, ApKept, Takes, OwnerInv, Posting, Offered
    <2>10. ASSUME ~overlapped', ~timedOut'
           PROVE  ChannelInv'
        <3>1. OwnerInv /\ ChannelInv
            BY <1>1, <2>10 DEF LogInv, ApKept
        <3>2. ~Done /\ tbuf.txPub = ap.img /\ (dma # "idle" => wire.seqNr = ap.img.seqNr) /\ Offered
            BY <1>3, <3>1 DEF Takes, ChannelInv, DoneInv, OfferInv, Done
        <3>3. Done' /\ Offered'
            BY <1>1, <1>3, <3>2 DEF ApKept, Takes, Done, Offered
        <3>4. StatusInv'
            BY <1>1, <1>3, <3>1, <3>2 DEF ApKept, Takes, ChannelInv, StatusInv, OwnerInv
        <3>5. DoneInv'
            BY <1>1, <1>3, <2>1, <3>2 DEF ApKept, Takes, DoneInv
        <3>6. OrderInv'
            <4>1. \A i \in 1..Len(taken) : taken[i].a < ap.img.a
                BY <3>1, <3>2 DEF ChannelInv, OfferInv
            <4>2. ap.img.a = ap.img.b /\ loop.pc \notin {"got", "half", "written"}
                BY <3>1, <3>2 DEF OwnerInv, Offered, Posting
            <4>3. \A i \in 1..Len(taken) :
                      /\ taken[i].a = taken[i].b
                      /\ \A j \in 1..(i - 1) : taken[j].a < taken[i].a
                BY <3>1 DEF ChannelInv, OrderInv
            <4> SUFFICES ASSUME NEW i \in 1..Len(taken')
                         PROVE  /\ taken'[i].a = taken'[i].b
                                /\ \A j \in 1..(i - 1) : taken'[j].a < taken'[i].a
                BY <1>1, <4>2 DEF ApKept, OrderInv
            <4>4. CASE i = Len(taken) + 1
                BY <2>1, <3>2, <4>1, <4>2, <4>4
            <4>5. CASE i \in 1..Len(taken)
                BY <2>1, <4>3, <4>5
            <4> QED BY <2>1, <4>4, <4>5
        <3> QED BY <3>3, <3>4, <3>5, <3>6 DEF ChannelInv, OfferInv
    <2> QED BY <1>1, <2>3, <2>4, <2>6, <2>7, <2>8, <2>9, <2>10 DEF LogInv
<1> QED BY <1>1, <1>2, <1>3

(* The steps of the background loop of the PCP leave the rest alone. *)
PcpKept == UNCHANGED <<ap, loop, dma, wire, tbuf, calls, lost, overlapped, timedOut, taken>>

(* The sent entry is the one taken last, under a number above all others. *)
Sends ==
    /\ Underway /\ ~Underway'
    /\ \E e \in SentTo(calls) :
          /\ sent' = Append(sent, e)
          /\ e.a = tbuf.txCon.a /\ e.b = tbuf.txCon.b /\ e.number = pcp'.entryCount
          /\ \A i \in 1..Len(sent) : sent[i].number < e.number
Works ==
    /\ Underway' <=> Underway
    /\ sent' = sent
    /\ \A i \in 1..Len(sent) : sent[i].number <= pcp'.entryCount

PcpStep ==
    /\ PcpKept /\ Typed' /\ (Sends \/ Works)
    /\ pcp'.currConsSeq = pcp.currConsSeq
    /\ pcp'.consStatus \in {pcp.consStatus, pcp.currConsSeq}
    /\ pcp'.state = "WaitForFrame" \/ pcp.state # "WaitForFrame"
    /\ pcp'.reported => pcp'.state \notin {"WaitForFrame", "WaitForNextArpRetry"}
    /\ pcp'.state = "RetransmitCurrentMessage" /\ ~pcp'.reported =>
          /\ pcp'.burLogEntry = [number |-> pcp'.entryCount, a |-> tbuf.txCon.a, b |-> tbuf.txCon.b]
          /\ \A i \in 1..Len(sent) : sent[i].number < pcp'.entryCount

(* The entry that comes to sendToDestTarget is the one taken last, under a *)
(* number that no sent entry has.                                          *)
LEMMA PreparedEntry ==
    ASSUME LogInv, Sending
    PROVE  /\ Underway /\ ~pcp.reported
           /\ Prepared \in PcpTo(calls) /\ Prepared.burLogEntry \in SentTo(calls)
           /\ Prepared.state = pcp.state /\ Prepared.reported = pcp.reported
           /\ Prepared.currConsSeq = pcp.currConsSeq /\ Prepared.consStatus = pcp.consStatus
           /\ Prepared.burLogEntry = [number |-> Prepared.entryCount,
                                      a |-> tbuf.txCon.a, b |-> tbuf.txCon.b]
           /\ \A i \in 1..Len(sent) : sent[i].number < Prepared.entryCount
<1>1. pcp \in PcpTo(calls) /\ tbuf.txCon \in ImagesTo(calls)
    BY DEF LogInv, Typed, PcpTyped, BusTyped, TbufTo
<1>2. \A i \in 1..Len(sent) : sent[i].number \in Nat
    <2>1. \A i \in 1..Len(sent) : sent[i] \in SentTo(calls)
        BY ElementOfSeq DEF LogInv, Typed, PcpTyped
    <2> QED BY <2>1 DEF SentTo
<1>3. Underway /\ ~pcp.reported
    BY DEF Sending, Underway
<1>4. CASE pcp.state = "ProcessFrame"
    <2>1. Prepared = [pcp EXCEPT !.entryCount = pcp.entryCount + 1,
                                 !.burLogEntry = [number |-> pcp.entryCount + 1,
                                                  a |-> tbuf.txCon.a, b |-> tbuf.txCon.b]]
        BY <1>1, <1>4 DEF Prepared, reformatLogEntry, PcpTo
    <2>2. /\ pcp.entryCount + 1 \in Nat
          /\ [number |-> pcp.entryCount + 1, a |-> tbuf.txCon.a, b |-> tbuf.txCon.b] \in SentTo(calls)
        BY <1>1 DEF PcpTo, ImagesTo, SentTo
    <2>3. \A i \in 1..Len(sent) : sent[i].number < pcp.entryCount + 1
        BY <1>1, <1>2 DEF LogInv, SentInv, PcpTo
    <2> QED BY <1>1, <1>3, <2>1, <2>2, <2>3 DEF PcpTo
<1>5. CASE pcp.state = "RetransmitCurrentMessage"
    <2>1. Prepared = pcp
        BY <1>5 DEF Prepared
    <2>2. /\ pcp.burLogEntry = [number |-> pcp.entryCount, a |-> tbuf.txCon.a, b |-> tbuf.txCon.b]
          /\ \A i \in 1..Len(sent) : sent[i].number < pcp.entryCount
        BY <1>3, <1>5 DEF LogInv, SentInv
    <2> QED BY <1>1, <1>3, <2>1, <2>2 DEF PcpTo
<1> QED BY <1>4, <1>5 DEF Sending

(* What does not depend on the action: nothing but the PCP is touched. *)
LEMMA PcpTypes ==
    ASSUME Typed, Background, pcp' \in PcpTo(calls), sent' \in Seq(SentTo(calls)), pcpUp' \in BOOLEAN
    PROVE  PcpKept /\ Typed'
<1>1. PcpKept /\ logTxStatus' = logTxStatus /\ apUp' = apUp
    BY DEF Background, PcpKept, apVars, busVars, ghosts
<1>2. calls' \in 0..MaxEntries /\ Flags' /\ ApTyped(calls)' /\ BusTyped(calls)'
    BY <1>1 DEF PcpKept, Typed, Flags, ApTyped, BusTyped
<1>3. PcpTyped(calls)'
    BY <1>1 DEF PcpKept, Typed, PcpTyped
<1> QED BY <1>1, <1>2, <1>3 DEF Typed

(* What the sending steps share. *)
LEMMA SendingStep ==
    ASSUME LogInv, Sending, Background, pcpUp' \in BOOLEAN, pcp' \in PcpTo(calls),
           pcp'.entryCount = Prepared.entryCount, pcp'.burLogEntry = Prepared.burLogEntry,
           pcp'.currConsSeq = pcp.currConsSeq,
           pcp'.consStatus \in {pcp.consStatus, pcp.currConsSeq},
           pcp'.reported => pcp'.state \notin {"WaitForFrame", "WaitForNextArpRetry"},
           \/ sent' = Append(sent, Prepared.burLogEntry) /\ ~Underway'
           \/ sent' = sent /\ Underway'
    PROVE  PcpStep
<1>1. /\ Underway /\ Prepared.burLogEntry \in SentTo(calls)
      /\ Prepared.burLogEntry = [number |-> pcp'.entryCount, a |-> tbuf.txCon.a, b |-> tbuf.txCon.b]
      /\ \A i \in 1..Len(sent) : sent[i].number < pcp'.entryCount
    BY PreparedEntry
<1>2. Typed /\ sent \in Seq(SentTo(calls)) /\ pcp'.entryCount \in Nat
    BY DEF LogInv, Typed, PcpTyped, PcpTo
<1>3. sent' \in Seq(SentTo(calls))
    BY <1>1, <1>2, AppendProperties
<1>4. PcpKept /\ Typed'
    BY <1>2, <1>3, PcpTypes
<1>5. \A i \in 1..Len(sent) : sent[i].number <= pcp'.entryCount
    <2>1. \A i \in 1..Len(sent) : sent[i] \in SentTo(calls)
        BY <1>2, ElementOfSeq
    <2> QED BY <1>1, <1>2, <2>1 DEF SentTo
<1>6. Sends \/ Works
    BY <1>1, <1>5 DEF Sends, Works
<1>7. pcp.state # "WaitForFrame"
    BY DEF Sending
<1> QED BY <1>1, <1>4, <1>6, <1>7 DEF PcpStep

(* What the others share: they send nothing and prepare nothing. *)
LEMMA QuietStep ==
    ASSUME LogInv, Background, pcpUp' \in BOOLEAN, pcp' \in PcpTo(calls), sent' = sent,
           pcp'.entryCount = pcp.entryCount, pcp'.burLogEntry = pcp.burLogEntry,
           pcp'.currConsSeq = pcp.currConsSeq,
           pcp'.consStatus \in {pcp.consStatus, pcp.currConsSeq},
           pcp'.state = "WaitForFrame" \/ pcp.state # "WaitForFrame",
           pcp'.reported => pcp'.state \notin {"WaitForFrame", "WaitForNextArpRetry"},
           Underway' <=> Underway,
           pcp'.state = "RetransmitCurrentMessage" /\ ~pcp'.reported =>
               pcp.state = "RetransmitCurrentMessage" /\ ~pcp.reported
    PROVE  PcpStep
<1>1. Typed /\ sent \in Seq(SentTo(calls))
    BY DEF LogInv, Typed, PcpTyped
<1>2. PcpKept /\ Typed'
    BY <1>1, PcpTypes
<1>3. SentInv
    BY DEF LogInv
<1> QED BY <1>2, <1>3 DEF PcpStep, Works, SentInv

LEMMA PcpOutcome ==
    ASSUME LogInv,
           \/ TransmitDeferred \/ TransmitNeedsArp \/ TransmitBusy \/ TransmitFails
           \/ ArpRetry \/ SetConsChanFlag \/ TransferFinishedState
    PROVE  PcpStep
<1>1. pcp \in PcpTo(calls) /\ pcpUp \in BOOLEAN /\ sent \in Seq(SentTo(calls))
    BY DEF LogInv, Typed, PcpTyped, Flags
<1>2. /\ Started \in Timer(ArpLimit) /\ Stopped \in Timer(ArpLimit)
    BY TimerType, LimitAssumption
<1>3. CASE TransmitDeferred
    <2>1. Sending /\ Background /\ pcpUp' = pcpUp /\ sent' = Append(sent, Prepared.burLogEntry)
          /\ pcp' = [Prepared EXCEPT !.state = "WaitForTxFinished"]
        BY <1>3 DEF TransmitDeferred
    <2>2. /\ pcp' \in PcpTo(calls) /\ pcp'.state = "WaitForTxFinished"
          /\ pcp'.entryCount = Prepared.entryCount /\ pcp'.burLogEntry = Prepared.burLogEntry
          /\ pcp'.currConsSeq = pcp.currConsSeq /\ pcp'.consStatus = pcp.consStatus
        BY <2>1, PreparedEntry DEF PcpTo
    <2>3. ~Underway'
        BY <2>2 DEF Underway
    <2> QED BY <1>1, <2>1, <2>2, <2>3, SendingStep
<1>4. CASE TransmitNeedsArp
    <2>1. Sending /\ Background /\ pcpUp' = pcpUp /\ sent' = sent
          /\ pcp' = [Prepared EXCEPT !.state = "WaitForNextArpRetry", !.arpTimer = Started]
        BY <1>4 DEF TransmitNeedsArp
    <2>2. /\ pcp' \in PcpTo(calls) /\ pcp'.state = "WaitForNextArpRetry" /\ ~pcp'.reported
          /\ pcp'.entryCount = Prepared.entryCount /\ pcp'.burLogEntry = Prepared.burLogEntry
          /\ pcp'.currConsSeq = pcp.currConsSeq /\ pcp'.consStatus = pcp.consStatus
        BY <1>2, <2>1, PreparedEntry DEF PcpTo
    <2>3. Underway'
        BY <2>2 DEF Underway
    <2> QED BY <1>1, <2>1, <2>2, <2>3, SendingStep
<1>5. CASE TransmitBusy
    <2>1. Sending /\ Background /\ pcpUp' = pcpUp /\ sent' = sent
          /\ pcp' = [Prepared EXCEPT !.state = "RetransmitCurrentMessage"]
        BY <1>5 DEF TransmitBusy
    <2>2. /\ pcp' \in PcpTo(calls) /\ pcp'.state = "RetransmitCurrentMessage" /\ ~pcp'.reported
          /\ pcp'.entryCount = Prepared.entryCount /\ pcp'.burLogEntry = Prepared.burLogEntry
          /\ pcp'.currConsSeq = pcp.currConsSeq /\ pcp'.consStatus = pcp.consStatus
        BY <2>1, PreparedEntry DEF PcpTo
    <2>3. Underway'
        BY <2>2 DEF Underway
    <2> QED BY <1>1, <2>1, <2>2, <2>3, SendingStep
<1>6. CASE TransmitFails
    <2>1. Background /\ pcpUp' = FALSE /\ sent' = sent /\ pcp' = pcp
        BY <1>6 DEF TransmitFails
    <2>2. pcp'.reported => pcp'.state \notin {"WaitForFrame", "WaitForNextArpRetry"}
        BY <2>1 DEF LogInv, SentInv
    <2>3. Underway' <=> Underway
        BY <2>1 DEF Underway
    <2> QED BY <1>1, <2>1, <2>2, <2>3, QuietStep
<1>7. CASE ArpRetry
    <2>1. Background /\ pcpUp' = pcpUp /\ sent' = sent /\ pcp.state = "WaitForNextArpRetry"
          /\ pcp' = [pcp EXCEPT !.state = "ProcessFrame", !.arpTimer = Stopped]
        BY <1>7 DEF ArpRetry
    <2>2. /\ pcp' \in PcpTo(calls) /\ pcp'.state = "ProcessFrame" /\ pcp'.reported = pcp.reported
          /\ pcp'.entryCount = pcp.entryCount /\ pcp'.burLogEntry = pcp.burLogEntry
          /\ pcp'.currConsSeq = pcp.currConsSeq /\ pcp'.consStatus = pcp.consStatus
        BY <1>1, <1>2, <2>1 DEF PcpTo
    <2>3. Underway' <=> Underway
        BY <2>1, <2>2 DEF Underway
    <2> QED BY <1>1, <2>1, <2>2, <2>3, QuietStep
<1>8. CASE SetConsChanFlag /\ Sending
    <2>1. Sending /\ Background /\ pcpUp' = pcpUp /\ sent' = Append(sent, Prepared.burLogEntry)
          /\ pcp' = [Prepared EXCEPT !.consStatus = pcp.currConsSeq, !.reported = TRUE]
        BY <1>8 DEF SetConsChanFlag, Sending
    <2>2. pcp.state \in {"ProcessFrame", "RetransmitCurrentMessage"} /\ pcp.currConsSeq \in SeqNr
        BY <2>1 DEF Sending, LogInv, SentInv
    <2>3. /\ pcp' \in PcpTo(calls) /\ pcp'.state = pcp.state /\ pcp'.reported
          /\ pcp'.entryCount = Prepared.entryCount /\ pcp'.burLogEntry = Prepared.burLogEntry
          /\ pcp'.currConsSeq = pcp.currConsSeq /\ pcp'.consStatus = pcp.currConsSeq
        BY <2>1, <2>2, PreparedEntry DEF PcpTo
    <2>4. ~Underway'
        BY <2>3 DEF Underway
    <2> QED BY <1>1, <2>1, <2>2, <2>3, <2>4, SendingStep
<1>9. CASE SetConsChanFlag /\ ~Sending
    <2>1. Background /\ pcpUp' = pcpUp /\ sent' = sent /\ pcp.state = "WaitForTxFinished"
          /\ pcp' = [pcp EXCEPT !.consStatus = pcp.currConsSeq, !.reported = TRUE]
        BY <1>9 DEF SetConsChanFlag
    <2>2. pcp.currConsSeq \in SeqNr
        BY <2>1 DEF LogInv, SentInv
    <2>3. /\ pcp' \in PcpTo(calls) /\ pcp'.state = "WaitForTxFinished" /\ pcp'.reported
          /\ pcp'.entryCount = pcp.entryCount /\ pcp'.burLogEntry = pcp.burLogEntry
          /\ pcp'.currConsSeq = pcp.currConsSeq /\ pcp'.consStatus = pcp.currConsSeq
        BY <1>1, <2>1, <2>2 DEF PcpTo
    <2>4. Underway' <=> Underway
        BY <2>1, <2>3 DEF Underway
    <2> QED BY <1>1, <2>1, <2>3, <2>4, QuietStep
<1>10. CASE TransferFinishedState
    <2>1. Background /\ pcpUp' = pcpUp /\ sent' = sent /\ pcp.reported
          /\ pcp' = [pcp EXCEPT !.state = "WaitForFrame", !.reported = FALSE]
        BY <1>10 DEF TransferFinishedState
    <2>2. /\ pcp' \in PcpTo(calls) /\ pcp'.state = "WaitForFrame" /\ ~pcp'.reported
          /\ pcp'.entryCount = pcp.entryCount /\ pcp'.burLogEntry = pcp.burLogEntry
          /\ pcp'.currConsSeq = pcp.currConsSeq /\ pcp'.consStatus = pcp.consStatus
        BY <1>1, <2>1 DEF PcpTo
    <2>3. Underway' <=> Underway
        BY <2>1, <2>2 DEF Underway
    <2> QED BY <1>1, <2>1, <2>2, <2>3, QuietStep
<1> QED BY <1>3, <1>4, <1>5, <1>6, <1>7, <1>8, <1>9, <1>10

LEMMA PcpInv ==
    ASSUME LogInv, PcpStep
    PROVE  LogInv'
<1>1. PcpKept /\ Typed /\ Typed' /\ (Sends \/ Works)
    BY DEF LogInv, PcpStep
<1>2. WrittenInv' /\ NeverBlank' /\ AcceptedIsTaken'
    BY <1>1 DEF LogInv, PcpKept, WrittenInv, Posting, NeverBlank, AcceptedIsTaken, accepted, Entry
<1>3. ~overlapped' => OwnerInv'
    BY <1>1 DEF LogInv, PcpKept, OwnerInv, Posting, Offered
<1>4. ASSUME ~overlapped', ~timedOut'
      PROVE  ChannelInv'
    <2>1. ChannelInv
        BY <1>1, <1>4 DEF LogInv, PcpKept
    <2>2. StatusInv'
        BY <1>1, <2>1 DEF PcpStep, PcpKept, ChannelInv, StatusInv
    <2>3. DoneInv' /\ OfferInv' /\ OrderInv'
        BY <1>1, <2>1 DEF PcpStep, PcpKept, ChannelInv, DoneInv, OfferInv, OrderInv, Done, Offered
    <2> QED BY <2>2, <2>3 DEF ChannelInv
<1>5. CASE Works
    <2>1. SentInv'
        BY <1>1, <1>5 DEF LogInv, PcpStep, PcpKept, Works, SentInv
    <2>2. SentAsTaken'
        BY <1>1, <1>5 DEF LogInv, PcpKept, Works, SentAsTaken
    <2> QED BY <1>1, <1>2, <1>3, <1>4, <2>1, <2>2 DEF LogInv
<1>6. CASE Sends
    <2>1. PICK e \in SentTo(calls) :
              /\ sent' = Append(sent, e)
              /\ e.a = tbuf.txCon.a /\ e.b = tbuf.txCon.b /\ e.number = pcp'.entryCount
              /\ \A i \in 1..Len(sent) : sent[i].number < e.number
        BY <1>6 DEF Sends
    <2>2. sent \in Seq(SentTo(calls)) /\ Len(sent) \in Nat /\ e.number \in Nat
        BY <1>1, TypedFields DEF PcpTyped, SentTo
    <2>3. /\ Len(sent') = Len(sent) + 1 /\ sent'[Len(sent) + 1] = e
          /\ \A i \in 1..Len(sent) : sent'[i] = sent[i]
        BY <2>1, <2>2, AppendProperties
    <2>4. /\ Len(taken) = Len(sent) + 1 /\ taken' = taken /\ tbuf' = tbuf /\ ~Underway'
          /\ e.a = taken[Len(taken)].a /\ e.b = taken[Len(taken)].b
        BY <1>1, <1>6, <2>1 DEF LogInv, PcpKept, Sends, SentInv
    <2>5. \A i \in 1..Len(sent) : sent[i].number \in Nat /\ sent[i].number < e.number
        <3>1. \A i \in 1..Len(sent) : sent[i] \in SentTo(calls)
            BY <2>2, ElementOfSeq
        <3> QED BY <2>1, <3>1 DEF SentTo
    <2>6. \A i \in 1..Len(sent') : sent'[i].number <= pcp'.entryCount
        BY <2>1, <2>2, <2>3, <2>5
    <2>7. SentInv'
        <3>1. ~(pcp'.state = "RetransmitCurrentMessage" /\ ~pcp'.reported)
            BY <2>4 DEF Underway
        <3>2. pcp'.state # "WaitForFrame" => pcp'.currConsSeq \in SeqNr
            BY DEF LogInv, SentInv, PcpStep
        <3>3. pcp'.reported => pcp'.state \notin {"WaitForFrame", "WaitForNextArpRetry"}
            BY DEF PcpStep
        <3>4. Len(taken') = Len(sent')
            BY <2>3, <2>4
        <3> QED BY <2>4, <2>6, <3>1, <3>2, <3>3, <3>4 DEF SentInv
    <2>8. SentAsTaken'
        <3>1. /\ Len(sent) <= Len(taken)
              /\ \A i \in 1..Len(sent) :
                    /\ sent[i].a = taken[i].a /\ sent[i].b = taken[i].b
                    /\ \A j \in 1..(i - 1) : sent[j].number < sent[i].number
            BY DEF LogInv, SentAsTaken
        <3> SUFFICES ASSUME NEW i \in 1..Len(sent')
                     PROVE  /\ sent'[i].a = taken[i].a /\ sent'[i].b = taken[i].b
                            /\ \A j \in 1..(i - 1) : sent'[j].number < sent'[i].number
            BY <2>2, <2>3, <2>4 DEF SentAsTaken
        <3>2. CASE i = Len(sent) + 1
            BY <2>2, <2>3, <2>4, <2>5, <3>2
        <3>3. CASE i \in 1..Len(sent)
            BY <2>2, <2>3, <3>1, <3>3
        <3> QED BY <2>2, <2>3, <3>2, <3>3
    <2> QED BY <1>1, <1>2, <1>3, <1>4, <2>7, <2>8 DEF LogInv
<1> QED BY <1>1, <1>5, <1>6

-----------------------------------------------------------------------------
LEMMA InitLogInv == Init => LogInv
<1> SUFFICES ASSUME Init PROVE LogInv
    OBVIOUS
<1> USE DEF Init
<1>1. /\ calls = 0 /\ lost = {} /\ taken = <<>> /\ sent = <<>> /\ loop.pc = "idle" /\ loop.id = 0
      /\ ap.img = Blank /\ ap.currTxSeqNr = "Second" /\ ap.isLocked = FALSE /\ dma = "idle"
      /\ wire = [seqNr |-> "Invalid", a |-> 0, status |-> "First"]
      /\ tbuf = [txPub |-> Blank, txCon |-> Blank, statusPub |-> "First"]
      /\ pcp.state = "WaitForFrame" /\ pcp.currConsSeq = "Invalid" /\ pcp.consStatus = "First"
      /\ pcp.reported = FALSE
    OBVIOUS
<1>2. Typed
    <2>1. Started \in Timer(ArpLimit) /\ Stopped \in Timer(ArpLimit) /\ Stopped \in Timer(TimeoutLimit)
        BY TimerType, LimitAssumption
    <2>2. Blank \in ImagesTo(0) /\ 0 \in 0..0 /\ "First" \in SeqNr /\ "Second" \in SeqNr
        BY DEF Blank, ImagesTo, SeqNr
    <2>3. calls \in 0..MaxEntries /\ Flags
        <3>1. calls \in 0..MaxEntries
            BY <1>1, LimitAssumption
        <3>2. apUp = TRUE /\ pcpUp = TRUE /\ overlapped = FALSE /\ timedOut = FALSE
            OBVIOUS
        <3>3. Flags
            BY <3>2 DEF Flags
        <3> QED BY <3>1, <3>3
    <2>4. ApTyped(calls)
        BY <2>1, <2>2 DEF ApTyped, ApTo, LoopTo
    <2>5. BusTyped(calls)
        BY <2>2 DEF BusTyped, WireTo, TbufTo
    <2>6. PcpTyped(calls)
        <3>1. taken \in Seq(ImagesTo(calls)) /\ sent \in Seq(SentTo(calls))
            OBVIOUS
        <3>2. [number |-> 0, a |-> 0, b |-> 0] \in SentTo(0)
            BY <2>2 DEF SentTo
        <3>3. pcp \in PcpTo(0)
            BY <2>1, <2>2, <3>2 DEF PcpTo
        <3> QED BY <3>1, <3>3 DEF PcpTyped
    <2> QED BY <2>3, <2>4, <2>5, <2>6 DEF Typed
<1> USE DEF Blank, SeqNr
<1>3. WrittenInv
    BY <1>1 DEF WrittenInv, Posting
<1>4. SentInv
    BY <1>1 DEF SentInv, Underway
<1>5. NeverBlank /\ SentAsTaken
    BY <1>1 DEF NeverBlank, SentAsTaken
<1>6. AcceptedIsTaken
    BY <1>1 DEF AcceptedIsTaken, accepted, Entry
<1>7. OwnerInv
    BY <1>1 DEF OwnerInv, Posting, Offered
<1>8. ChannelInv
    BY <1>1 DEF ChannelInv, StatusInv, DoneInv, OfferInv, OrderInv, Done, Offered
<1> QED BY <1>2, <1>3, <1>4, <1>5, <1>6, <1>7, <1>8 DEF LogInv

LEMMA ApInv ==
    ASSUME LogInv, ApStep
    PROVE  LogInv'
<1>1. Typed'
    BY DEF ApStep
<1> QED BY <1>1, ApWritten, ApSent, ApAccepted, ApOwner, ApChannel DEF LogInv

(* A shutdown of the node leaves the image where it is; a stuttering step  *)
(* leaves everything.                                                      *)
LEMMA StoppedInv ==
    ASSUME LogInv, Shutdown \/ UNCHANGED vars
    PROVE  LogInv'
<1>1. UNCHANGED <<ap, loop, logTxStatus, dma, wire, tbuf, pcp, pcpUp, calls, lost, overlapped,
                  timedOut, taken, sent>>
    BY DEF Shutdown, vars, apVars, busVars, ghosts
<1>2. apUp' \in BOOLEAN
    BY DEF Shutdown, vars, apVars, LogInv, Typed, Flags
<1>3. Typed'
    BY <1>1, <1>2 DEF LogInv, Typed, Flags, ApTyped, BusTyped, PcpTyped
<1>4. WrittenInv' /\ SentInv' /\ NeverBlank' /\ SentAsTaken' /\ AcceptedIsTaken'
    BY <1>1 DEF LogInv, WrittenInv, Posting, SentInv, Underway, NeverBlank, SentAsTaken,
                AcceptedIsTaken, accepted, Entry
<1>5. ~overlapped' => OwnerInv'
    BY <1>1 DEF LogInv, OwnerInv, Posting, Offered
<1>6. ~overlapped' /\ ~timedOut' => ChannelInv'
    BY <1>1 DEF LogInv, ChannelInv, StatusInv, DoneInv, OfferInv, OrderInv, Done, Offered
<1> QED BY <1>3, <1>4, <1>5, <1>6 DEF LogInv

LEMMA NextLogInv == LogInv /\ [Next]_vars => LogInv'
<1> SUFFICES ASSUME LogInv, [Next]_vars PROVE LogInv'
    OBVIOUS
<1>1. Typed /\ WrittenInv
    BY DEF LogInv
<1>2. CASE \/ InterruptPosts \/ getCurrentLogBuffer \/ reformatErrorMessage \/ postLogEntry
           \/ lockBuffer \/ SyncIr \/ SendEntry \/ \E process \in BOOLEAN : TransferFinished(process)
    <2>1. ApStep
        BY <1>1, <1>2, InterruptOutcome, GetOutcome, ReformatOutcome, PostOutcome, LockOutcome,
           TransferOutcome, FinishedOutcome
    <2> QED BY <2>1, ApInv
<1>3. CASE SyncCb
    BY <1>3, SyncStep
<1>4. CASE \/ TransmitDeferred \/ TransmitNeedsArp \/ TransmitBusy \/ TransmitFails
           \/ ArpRetry \/ SetConsChanFlag \/ TransferFinishedState
    BY <1>4, PcpOutcome, PcpInv
<1>5. CASE Shutdown \/ UNCHANGED vars
    BY <1>5, StoppedInv
<1> QED BY <1>2, <1>3, <1>4, <1>5 DEF Next, ApNext, PcpNext

LEMMA LogCorrect == Spec => []LogInv
BY InitLogInv, NextLogInv, PTL DEF Spec

-----------------------------------------------------------------------------
(* Type correctness; no more than MaxEntries calls, timers that stop one   *)
(* above their limits, two sequence numbers on both processors.            *)
THEOREM TypeCorrect == Spec => []TypeOK
<1>1. LogInv => TypeOK
    BY TypedMeans DEF LogInv
<1> QED BY <1>1, LogCorrect, PTL

(* As long as no interrupt calls errh_postError inside a call of the       *)
(* background loop, no entry of lostErrors_l is in an image that           *)
(* log_handleIncoming takes; and as long as log_handleTxFrame frees the    *)
(* channel by the acknowledge alone, the PCP takes every entry whole, once *)
(* and in the order of the calls.                                          *)
THEOREM TakenWholeCorrect == Spec => []TakenWhole
<1>1. LogInv => TakenWhole
    BY DEF LogInv, TakenWhole, OwnerInv, ChannelInv, OrderInv
<1> QED BY <1>1, LogCorrect, PTL

(* Whatever overlaps and times out, reformatLogEntry of the PCP is never   *)
(* given a blank level or code, for which processTransmitSm would fail.    *)
THEOREM NeverBlankCorrect == Spec => []NeverBlank
<1>1. LogInv => NeverBlank
    BY DEF LogInv
<1> QED BY <1>1, LogCorrect, PTL

(* Over ARP retries and busy handles log_sendToDestTarget sends the        *)
(* entries in the order log_handleIncoming has taken them, each once and   *)
(* under a number above those before it.                                   *)
THEOREM SentCorrect == Spec => []SentAsTaken
<1>1. LogInv => SentAsTaken
    BY DEF LogInv
<1> QED BY <1>1, LogCorrect, PTL

(* Unless a timeout frees the channel or two posts share the buffer, an    *)
(* entry that errh_postError reports as posted is in the locked image or   *)
(* has been taken by the PCP: isLocked guards it for long enough.          *)
THEOREM AcceptedCorrect == Spec => []AcceptedIsTaken
<1>1. LogInv => AcceptedIsTaken
    BY DEF LogInv
<1> QED BY <1>1, LogCorrect, PTL

-----------------------------------------------------------------------------
(* The channel as an implementation of StopAndWait. *)

(* The entries taken, as the abstract channel has them, and the one in it. *)
TakenEntries == [i \in 1..Len(taken) |-> IF taken[i].a = taken[i].b THEN taken[i].a ELSE 0]
Message == IF Offered THEN ap.img.a ELSE 0

LEMMA TakenEntriesType ==
    ASSUME Typed
    PROVE  TakenEntries \in Seq(0..calls) /\ Len(TakenEntries) = Len(taken)
<1>1. Len(taken) \in Nat /\ \A i \in 1..Len(taken) : taken[i].a \in 0..calls
    BY TypedFields
<1>2. 0 \in 0..calls
    BY TypedFields
<1>3. TakenEntries \in [1..Len(taken) -> 0..calls]
    BY <1>1, <1>2 DEF TakenEntries
<1>4. TakenEntries \in Seq(0..calls)
    BY <1>1, <1>3, SeqDef
<1> QED BY <1>1, <1>3, <1>4, LenProperties

LEMMA EntriesAppend ==
    ASSUME Typed, NEW x \in ImagesTo(calls), x.a = x.b, taken' = Append(taken, x)
    PROVE  TakenEntries' = Append(TakenEntries, x.a)
<1>1. /\ Len(taken) \in Nat /\ Len(taken') = Len(taken) + 1
      /\ \A i \in 1..Len(taken) : taken'[i] = taken[i]
      /\ taken'[Len(taken) + 1] = x
    BY AppendProperties, LenProperties DEF Typed, PcpTyped
<1>2. TakenEntries \in Seq(0..calls) /\ Len(TakenEntries) = Len(taken)
    BY TakenEntriesType
<1>3. x.a \in 0..calls
    BY DEF ImagesTo
<1>4. /\ Append(TakenEntries, x.a) \in Seq(0..calls)
      /\ Len(Append(TakenEntries, x.a)) = Len(taken) + 1
      /\ \A i \in 1..Len(taken) : Append(TakenEntries, x.a)[i] = TakenEntries[i]
      /\ Append(TakenEntries, x.a)[Len(taken) + 1] = x.a
    BY <1>2, <1>3, AppendProperties
<1>5. DOMAIN Append(TakenEntries, x.a) = 1..(Len(taken) + 1)
    BY <1>4, LenProperties
<1>6. \A i \in 1..(Len(taken) + 1) :
         Append(TakenEntries, x.a)[i] = IF taken'[i].a = taken'[i].b THEN taken'[i].a ELSE 0
    BY <1>1, <1>4 DEF TakenEntries
<1>7. Append(TakenEntries, x.a) = [i \in 1..(Len(taken) + 1) |-> Append(TakenEntries, x.a)[i]]
    BY <1>4, <1>5, LenProperties
<1> QED BY <1>1, <1>6, <1>7 DEF TakenEntries

(* A step that neither offers nor withdraws an entry, and leaves the       *)
(* numbers of the PCP alone, is none of the channel.                       *)
LEMMA ChannelSame ==
    ASSUME Offered' <=> Offered, Offered => ap'.img = ap.img /\ ap'.currTxSeqNr = ap.currTxSeqNr,
           UNCHANGED <<timedOut, overlapped, taken>>,
           pcp'.currConsSeq = pcp.currConsSeq, pcp'.consStatus = pcp.consStatus
    PROVE  UNCHANGED Channel!vars
BY DEF Channel!vars, ChannelPhase

Unbroken == ~timedOut /\ ~overlapped

(* The phases under the invariant: whatever is offered has the number n of *)
(* the AP, a number the PCP has not seen while nothing is offered.         *)
LEMMA PhaseMeans ==
    ASSUME LogInv, Unbroken
    PROVE  /\ ~Offered => pcp.currConsSeq # ap.currTxSeqNr
           /\ Offered => ap.img.seqNr = ap.currTxSeqNr /\ ap.img.a = ap.img.b
           /\ loop.pc # "idle" => ~ap.isLocked
           /\ pcp.consStatus = ap.currTxSeqNr => pcp.currConsSeq = ap.currTxSeqNr
           /\ wire.status = ap.currTxSeqNr => pcp.consStatus = ap.currTxSeqNr
           /\ \A i \in 1..Len(taken) : taken[i].a = taken[i].b
<1>1. OwnerInv /\ StatusInv /\ DoneInv /\ OfferInv /\ OrderInv
    BY DEF LogInv, Unbroken, ChannelInv
<1>2. ~Offered => pcp.currConsSeq # ap.currTxSeqNr
    BY <1>1 DEF OwnerInv, OfferInv, Done
<1> QED BY <1>1, <1>2 DEF OwnerInv, Posting, StatusInv, OrderInv

(* An entry comes into a free channel with a number of its own and after   *)
(* all that the PCP has taken.                                             *)
LEMMA PostImplements ==
    ASSUME LogInv, Unbroken, Unbroken', ~Offered, Offered', taken' = taken, pcp' = pcp,
           ap'.img.seqNr = ap.currTxSeqNr, ap'.img.a \in Nat \ {0},
           \A i \in 1..Len(taken) : taken[i].a < ap'.img.a
    PROVE  Channel!Next
<1>1. ChannelPhase = "free" /\ ChannelPhase' = "posted" /\ Message' = ap'.img.a
    BY PhaseMeans DEF ChannelPhase, Message, Unbroken
<1>2. \A i \in 1..Len(taken) : TakenEntries[i] < ap'.img.a
    BY PhaseMeans DEF TakenEntries
<1>3. Len(TakenEntries) = Len(taken)
    BY TakenEntriesType DEF LogInv
<1> QED BY <1>1, <1>2, <1>3 DEF Channel!Next, Channel!Post, Channel!Newer, Message, TakenEntries

LEMMA ApImplements ==
    ASSUME LogInv, ApStep
    PROVE  Channel!Next \/ UNCHANGED Channel!vars
<1>1. Typed /\ taken' = taken /\ pcp' = pcp /\ ApOutcome
    BY DEF LogInv, ApStep, ApRest
<1>2. CASE ~Unbroken
    <2>1. ~Unbroken'
        BY <1>1, <1>2 DEF Unbroken, ApOutcome, Loses, Posts, Gets, WritesA, WritesB, LosesLate,
                          SetsNumber, Locks, Reads, ReadsA, Publishes, Finishes, Frees, Counts
    <2> QED BY <1>2, <2>1 DEF Channel!Next, Channel!Broken, ChannelPhase, Unbroken
<1>3. CASE Unbroken /\ ~Unbroken'
    BY <1>1, <1>3 DEF Channel!Next, Channel!GiveUp, ChannelPhase, Unbroken
<1>4. CASE Unbroken /\ Unbroken'
    <2>0. timedOut' = timedOut /\ overlapped' = overlapped
        BY <1>1, <1>4 DEF LogInv, Typed, Flags, ApStep, Unbroken
    <2>1. CASE Loses \/ Reads \/ ReadsA \/ Publishes
        <3>1. ap' = ap /\ loop' = loop
            BY <2>1 DEF Loses, Reads, ReadsA, Publishes
        <3> QED BY <1>1, <2>0, <3>1, ChannelSame DEF Offered
    <2>2. CASE Posts
        <3>1. /\ ap'.img.seqNr = ap.currTxSeqNr /\ ap'.img.a = calls + 1
              /\ ~ap.isLocked /\ ap'.isLocked
            BY <2>2 DEF Posts
        <3>2. ~Offered /\ Offered'
            BY <1>4, <2>2, <3>1 DEF Posts, Posting, Offered, Unbroken
        <3>3. calls + 1 \in Nat \ {0} /\ \A i \in 1..Len(taken) : taken[i].a < calls + 1
            BY <1>1, TypedFields
        <3> QED BY <1>1, <1>4, <3>1, <3>2, <3>3, PostImplements
    <2>3. CASE Gets
        BY <1>1, <2>0, <2>3, ChannelSame DEF Gets, Offered
    <2>4. CASE WritesA \/ WritesB
        <3>1. ~Offered /\ ~Offered'
            BY <1>4, <2>4, PhaseMeans DEF WritesA, WritesB, LoopAt, Kept, Offered
        <3> QED BY <1>1, <2>0, <3>1, ChannelSame
    <2>5. CASE LosesLate
        BY <1>4, <2>5, PhaseMeans DEF LosesLate
    <2>6. CASE SetsNumber
        <3>1. /\ ap'.img.seqNr = ap.currTxSeqNr /\ ap'.img.a = ap.img.a
              /\ loop.pc = "written" /\ loop'.pc = "numbered" /\ ~ap.isLocked
            BY <2>6 DEF SetsNumber, Kept, LoopAt
        <3>2. OwnerInv /\ OrderInv /\ WrittenInv
            BY <1>4 DEF LogInv, Unbroken, ChannelInv
        <3>3. ap.img.a = loop.id /\ ap.img.a \in Nat \ {0}
            BY <1>1, <3>1, <3>2, TypedFields DEF OwnerInv, WrittenInv
        <3>4. \A i \in 1..Len(taken) : taken[i].a < ap.img.a
            BY <3>1, <3>2, <3>3 DEF OrderInv
        <3>5. ~Offered /\ Offered'
            BY <3>1 DEF Offered
        <3> QED BY <1>1, <1>4, <3>1, <3>3, <3>4, <3>5, PostImplements
    <2>7. CASE Locks
        BY <1>1, <2>0, <2>7, ChannelSame DEF Locks, Offered
    <2>8. CASE Finishes
        BY <1>1, <2>0, <2>8, ChannelSame DEF Finishes, Kept, Offered
    <2>9. CASE Frees
        <3>1. /\ wire.status = ap.currTxSeqNr /\ Offered /\ ~Offered'
            BY <1>4, <2>9, PhaseMeans DEF Frees, Offered, Unbroken
        <3>2. ChannelPhase = "done" /\ ChannelPhase' = "free" /\ Message' = 0
            BY <1>4, <3>1, PhaseMeans DEF ChannelPhase, Message, Unbroken
        <3> QED BY <1>1, <3>2 DEF Channel!Next, Channel!Release, Message
    <2> QED BY <1>1, <2>1, <2>2, <2>3, <2>4, <2>5, <2>6, <2>7, <2>8, <2>9 DEF ApOutcome
<1> QED BY <1>2, <1>3, <1>4

LEMMA SyncImplements ==
    ASSUME LogInv, SyncCb
    PROVE  Channel!Next \/ UNCHANGED Channel!vars
<1>1. ApKept /\ (Synchronises \/ Takes) /\ Typed
    BY SyncOutcome DEF LogInv
<1>2. /\ UNCHANGED <<ap, timedOut, overlapped>>
      /\ Offered' <=> Offered
    BY <1>1 DEF ApKept, Offered
<1>3. CASE ~Unbroken
    BY <1>2, <1>3 DEF Channel!Next, Channel!Broken, ChannelPhase, Unbroken
<1>4. CASE Synchronises
    BY <1>2, <1>4, ChannelSame DEF Synchronises
<1>5. CASE Unbroken /\ Takes
    <2>1. DoneInv /\ OfferInv
        BY <1>5 DEF LogInv, Unbroken, ChannelInv
    <2>2. ~Done /\ Offered /\ tbuf.txPub = ap.img
        BY <1>5, <2>1 DEF Takes, DoneInv, OfferInv, Done
    <2>3. /\ pcp'.currConsSeq = ap.img.seqNr /\ pcp'.consStatus = pcp.consStatus
          /\ taken' = Append(taken, ap.img)
        BY <1>5, <2>2 DEF Takes
    <2>4. ap.img.seqNr = ap.currTxSeqNr /\ ap.img.a = ap.img.b
          /\ pcp.consStatus # ap.currTxSeqNr
        BY <1>5, <2>2, PhaseMeans DEF Done
    <2>5. ChannelPhase = "posted" /\ ChannelPhase' = "taken" /\ Message' = Message /\ Message = ap.img.a
        BY <1>2, <1>5, <2>2, <2>3, <2>4 DEF ChannelPhase, Done, Message, Unbroken
    <2>6. ap.img \in ImagesTo(calls)
        BY <1>1 DEF Typed, ApTyped, ApTo
    <2>7. TakenEntries' = Append(TakenEntries, ap.img.a)
        BY <1>1, <2>3, <2>4, <2>6, EntriesAppend
    <2> QED BY <2>5, <2>7 DEF Channel!Next, Channel!Take, Message, TakenEntries
<1> QED BY <1>1, <1>3, <1>4, <1>5

LEMMA PcpImplements ==
    ASSUME LogInv, PcpStep
    PROVE  Channel!Next \/ UNCHANGED Channel!vars
<1>1. /\ UNCHANGED <<ap, loop, timedOut, overlapped, taken>>
      /\ pcp'.currConsSeq = pcp.currConsSeq
      /\ pcp'.consStatus \in {pcp.consStatus, pcp.currConsSeq}
    BY DEF PcpStep, PcpKept
<1>2. (Offered' <=> Offered) /\ Message' = Message
    BY <1>1 DEF Offered, Message
<1>3. CASE ~Unbroken
    BY <1>1, <1>3 DEF Channel!Next, Channel!Broken, ChannelPhase, Unbroken
<1>4. CASE Unbroken /\ ChannelPhase' = ChannelPhase
    BY <1>1, <1>2, <1>4 DEF Channel!vars, Message
<1>5. CASE Unbroken /\ ChannelPhase' # ChannelPhase
    <2>1. ChannelPhase = "taken" /\ ChannelPhase' = "done"
        BY <1>1, <1>2, <1>5, PhaseMeans DEF ChannelPhase, Unbroken
    <2> QED BY <1>1, <1>2, <2>1 DEF Channel!Next, Channel!Finish, Message
<1> QED BY <1>3, <1>4, <1>5

LEMMA NextImplements == LogInv /\ [Next]_vars => [Channel!Next]_(Channel!vars)
<1> SUFFICES ASSUME LogInv, [Next]_vars PROVE Channel!Next \/ UNCHANGED Channel!vars
    OBVIOUS
<1>1. Typed /\ WrittenInv
    BY DEF LogInv
<1>2. CASE \/ InterruptPosts \/ getCurrentLogBuffer \/ reformatErrorMessage \/ postLogEntry
           \/ lockBuffer \/ SyncIr \/ SendEntry \/ \E process \in BOOLEAN : TransferFinished(process)
    <2>1. ApStep
        BY <1>1, <1>2, InterruptOutcome, GetOutcome, ReformatOutcome, PostOutcome, LockOutcome,
           TransferOutcome, FinishedOutcome
    <2> QED BY <2>1, ApImplements
<1>3. CASE SyncCb
    BY <1>3, SyncImplements
<1>4. CASE \/ TransmitDeferred \/ TransmitNeedsArp \/ TransmitBusy \/ TransmitFails
           \/ ArpRetry \/ SetConsChanFlag \/ TransferFinishedState
    BY <1>4, PcpOutcome, PcpImplements
<1>5. CASE Shutdown \/ UNCHANGED vars
    <2>1. UNCHANGED <<ap, loop, pcp, overlapped, timedOut, taken>>
        BY <1>5 DEF Shutdown, vars, apVars, ghosts
    <2> QED BY <2>1, ChannelSame DEF Offered
<1> QED BY <1>2, <1>3, <1>4, <1>5 DEF Next, ApNext, PcpNext

(* One entry at a time, taken whole and once, and sent or given up before  *)
(* the next one: until a timeout frees it, or an interrupt posts inside a  *)
(* post of the loop, the image filled in steps while transfers read it is  *)
(* a channel that stops and waits (errorhandler.c, logbook.c of AP, PCP).  *)
THEOREM StopsAndWaits == Spec => ImplementsStopAndWait
<1>1. Init => Channel!Init
    <2> SUFFICES ASSUME Init PROVE Channel!Init
        OBVIOUS
    <2>1. ~Offered /\ ~timedOut /\ ~overlapped /\ taken = <<>>
        BY DEF Init, Offered
    <2>2. [i \in 1..Len(taken) |-> IF taken[i].a = taken[i].b THEN taken[i].a ELSE 0] = <<>>
        BY <2>1
    <2> QED BY <2>1, <2>2 DEF Channel!Init, ChannelPhase
<1> QED BY <1>1, NextImplements, LogCorrect, PTL DEF Spec, ImplementsStopAndWait, Channel!Spec
=============================================================================
