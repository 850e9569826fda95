-------------------------- MODULE RedundantProofs --------------------------
(***************************************************************************)
(* The two processors of a redundant node.  For any frames and number of   *)
(* cycles: as long as they are in step, the cross communication stops      *)
(* neither.  For any number of resets, repeated messages and time-outs at  *)
(* every step of the start: both restore their objects or neither does,    *)
(* and a slave that has booted has the master's time, as long as no        *)
(* message was received from its middle on.                                *)
(***************************************************************************)
EXTENDS XCom, Boot, SequenceTheorems, TLAPS

-----------------------------------------------------------------------------
(* The cross communication in operation. *)

Sent == {{}} \cup {{frames} : frames \in Image}

(* A frame built takes the place of the one posted before. *)
LEMMA PostedType ==
    ASSUME TypeOK, NEW p \in Processor, NEW built \in Image
    PROVE  Posted(p, built) \in Image
<1>1. img[p] \in Image
    BY DEF TypeOK
<1>2. \A k \in Kind : img[p][k] \in Crc \cup {NoFrame} /\ built[k] \in Crc \cup {NoFrame}
    BY <1>1 DEF Image
<1> QED BY <1>2 DEF Posted, Image

LEMMA NoFramesType == NoFrames \in Image
BY DEF NoFrames, Image

LEMMA PeerIsProcessor == \A p \in Processor : Peer(p) \in Processor
BY DEF Peer, Processor

LEMMA InitType == Init => TypeOK
BY NoFramesType DEF Init, TypeOK

LEMMA InStepType ==
    ASSUME disturbed \in BOOLEAN, NEW asked \in BOOLEAN, InStep(asked)
    PROVE  disturbed' \in BOOLEAN
BY DEF InStep

LEMMA SyncType == TypeOK /\ Sync => TypeOK'
<1> SUFFICES ASSUME TypeOK, Sync PROVE TypeOK'
    OBVIOUS
<1>1. phase' \in [Processor -> {"idle", "transfer", "off"}]
    BY DEF Sync
<1>2. wait' \in [Processor -> BOOLEAN] /\ failed' \in [Processor -> BOOLEAN]
    <2>1. \A p \in Processor : (wait[p] \/ p \in Running) \in BOOLEAN
        OBVIOUS
    <2>2. \A p \in Processor : (failed[p] \/ (p \in Running /\ wait[p])) \in BOOLEAN
        OBVIOUS
    <2> QED BY <2>1, <2>2 DEF Sync, xcom_enableReceiveCheck
<1>3. disturbed' \in BOOLEAN
    BY InStepType DEF Sync, TypeOK
<1> QED BY <1>1, <1>2, <1>3 DEF Sync, TypeOK

(* The steps of a processor on its own. *)
LEMMA OwnType ==
    ASSUME TypeOK, NEW p \in Processor,
           Work(p) \/ WorkFails(p) \/ ImageLost(p) \/ Stop(p)
    PROVE  TypeOK'
<1>1. CASE Work(p)
    <2>1. PICK built \in Image : img' = [img EXCEPT ![p] = Posted(p, built)]
        BY <1>1 DEF Work
    <2>2. Posted(p, built) \in Image
        BY PostedType
    <2>3. img' \in [Processor -> Image]
        BY <2>1, <2>2 DEF TypeOK
    <2>4. img'[p] \in Image
        BY <2>3
    <2>5. {img'[p]} \in Sent
        BY <2>4 DEF Sent
    <2>6. wire \in [Processor -> Sent] /\ failed \in [Processor -> BOOLEAN]
        BY DEF TypeOK, Sent
    <2>7. wire' \in [Processor -> Sent] /\ failed' \in [Processor -> BOOLEAN]
        <3>1. CASE wire[p] = {}
            <4>1. wire' = [wire EXCEPT ![p] = {img'[p]}] /\ failed' = failed
                BY <1>1, <3>1, Zenon DEF Work
            <4> QED BY <4>1, <2>5, <2>6
        <3>2. CASE wire[p] # {}
            <4>1. wire' = wire /\ failed' = [failed EXCEPT ![p] = TRUE]
                BY <1>1, <3>2, Zenon DEF Work
            <4> QED BY <4>1, <2>6
        <3> QED BY <3>1, <3>2
    <2>8. disturbed' \in BOOLEAN
        BY <1>1, InStepType DEF Work, TypeOK
    <2> QED BY <1>1, <2>3, <2>7, <2>8 DEF Work, TypeOK, Sent
<1>2. CASE WorkFails(p)
    BY <1>2, InStepType DEF WorkFails, TypeOK
<1>3. CASE ImageLost(p)
    BY <1>3, InStepType DEF ImageLost, TypeOK
<1>4. CASE Stop(p)
    BY <1>4 DEF Stop, TypeOK
<1> QED BY <1>1, <1>2, <1>3, <1>4

(* What every branch of frameReceived does. *)
LEMMA TakeType ==
    ASSUME TypeOK, NEW p \in Processor, Take(p), Rearm(p) \/ Refuse(p),
           NEW asked \in BOOLEAN, InStep(asked)
    PROVE  TypeOK'
<1>1. wire' \in [Processor -> Sent] /\ wait' \in [Processor -> BOOLEAN]
    BY PeerIsProcessor DEF Take, TypeOK, Sent
<1>2. /\ img' \in [Processor -> Image]
      /\ armed' \in [Processor -> BOOLEAN] /\ failed' \in [Processor -> BOOLEAN]
    BY NoFramesType DEF Rearm, Refuse, TypeOK
<1>3. phase' \in [Processor -> {"idle", "transfer", "off"}]
    BY DEF Take, TypeOK
<1>4. disturbed' \in BOOLEAN
    BY InStepType DEF TypeOK
<1> QED BY <1>1, <1>2, <1>3, <1>4 DEF TypeOK, Sent

LEMMA MasterTakes ==
    ASSUME MasterReceives
    PROVE  /\ Take("master") /\ (Rearm("master") \/ Refuse("master"))
           /\ \E asked \in BOOLEAN : InStep(asked)
BY DEF MasterReceives

LEMMA ReceiveType ==
    ASSUME TypeOK, NEW p \in Processor, Receive(p)
    PROVE  TypeOK'
<1>1. CASE ReceiveInvalid(p)
    BY <1>1, TakeType DEF ReceiveInvalid, TypeOK
<1>2. CASE p = "slave" /\ SlaveReceives
    BY <1>2, TakeType DEF SlaveReceives, TypeOK
<1>3. CASE p = "master" /\ MasterReceives
    BY <1>3, TakeType, MasterTakes
<1> QED BY <1>1, <1>2, <1>3 DEF Receive

LEMMA StepType == TypeOK /\ [Next]_vars => TypeOK'
<1> SUFFICES ASSUME TypeOK, [Next]_vars PROVE TypeOK'
    OBVIOUS
<1>1. CASE Sync
    BY <1>1, SyncType
<1>2. ASSUME NEW p \in Processor,
             Work(p) \/ WorkFails(p) \/ ImageLost(p) \/ Stop(p)
      PROVE  TypeOK'
    BY <1>2, OwnType
<1>3. ASSUME NEW p \in Processor, Receive(p) PROVE TypeOK'
    BY <1>3, ReceiveType
<1>4. CASE UNCHANGED vars
    BY <1>4 DEF vars, TypeOK
<1> QED BY <1>1, <1>2, <1>3, <1>4 DEF Next

(* Every variable of both processors keeps its type; in particular a UART  *)
(* has at most one image to send.                                          *)
THEOREM TypeCorrect == Spec => []TypeOK
BY InitType, StepType, PTL DEF Spec

(* Two processors in step: who has worked in this cycle, which images are  *)
(* on their way and what of them the other one has still to compare.       *)
Undisturbed ==
    /\ \A p \in Processor : /\ armed[p] /\ ~failed[p] /\ phase[p] \in {"idle", "transfer"}
                            /\ ~wait[p] => phase[p] = "idle" /\ img[p] = NoFrames
                            /\ phase[p] = "transfer" => wire[p] = {} /\ img[p] = NoFrames
    /\ \A p \in Processor : phase[p] = "idle" =>
          /\ phase[Peer(p)] = "transfer" => wait[p] /\ wire[p] = {img[p]}
          /\ phase[Peer(p)] = "idle" =>
                wire[p] = IF wait[Peer(p)] THEN {img[Peer(p)]} ELSE {}

StepInv == TypeOK /\ (~disturbed => Undisturbed)

LEMMA BothProcessors ==
    /\ Processor = {"master", "slave"}
    /\ Peer("master") = "slave" /\ Peer("slave") = "master"
BY DEF Processor, Peer

LEMMA StepUndisturbed ==
    ASSUME TypeOK, Undisturbed, [Next]_vars, ~disturbed'
    PROVE  Undisturbed'
<1> USE BothProcessors
<1>1. CASE Sync
    BY <1>1 DEF Sync, Running, xcom_enableReceiveCheck, InStep, Undisturbed, TypeOK
<1>2. ASSUME NEW p \in Processor, Work(p)
      PROVE  Undisturbed'
    BY <1>2 DEF Work, InStep, Undisturbed, TypeOK
<1>3. ASSUME NEW p \in Processor, WorkFails(p) \/ ImageLost(p) \/ Stop(p) \/ ReceiveInvalid(p)
      PROVE  Undisturbed'
    BY <1>3 DEF WorkFails, ImageLost, Stop, ReceiveInvalid, InStep, Undisturbed
<1>4. CASE SlaveReceives
    BY <1>4 DEF SlaveReceives, Take, Rearm, InStep, Undisturbed, TypeOK
<1>5. CASE MasterReceives
    BY <1>5 DEF MasterReceives, Take, Rearm, InStep, Undisturbed, TypeOK
<1>6. CASE UNCHANGED vars
    BY <1>6 DEF vars, Undisturbed
<1> QED BY <1>1, <1>2, <1>3, <1>4, <1>5, <1>6 DEF Next, Receive

(* As long as the two processors compute the same frames and every image   *)
(* arrives between the work of the other one and the next sync interrupt,  *)
(* the cross communication stops neither: whatever the frames, the order   *)
(* of the steps within a cycle and the number of cycles.                   *)
THEOREM InStepNotStopped == Spec => []NoFalseStop
<1>1. Init => StepInv
    BY InitType, BothProcessors DEF Init, StepInv, Undisturbed
<1>2. StepInv /\ [Next]_vars => StepInv'
    <2> SUFFICES ASSUME StepInv, [Next]_vars PROVE StepInv'
        OBVIOUS
    <2>1. TypeOK'
        BY StepType DEF StepInv
    <2>2. disturbed => disturbed'
        BY DEF Next, vars, Sync, Work, WorkFails, ImageLost, Stop, Receive, ReceiveInvalid,
               SlaveReceives, MasterReceives, InStep
    <2> QED BY <2>1, <2>2, StepUndisturbed DEF StepInv
<1>3. StepInv => NoFalseStop
    BY DEF StepInv, Undisturbed, NoFalseStop
<1> QED BY <1>1, <1>2, <1>3, PTL DEF Spec

-----------------------------------------------------------------------------
(* The start. *)

(* A sync message in two parts: words received, words left to send.        *)
Sent1 == <<"ready">>
Sent2 == <<"ready", "time">>
Sent3 == <<"ready", "time", "time">>
Left3 == <<"time", "time", "time">>
Left2 == <<"time", "time">>
Left1 == <<"time">>

(* The two words of a message with a state field. *)
WelcomeWord == <<"welcome">>
FieldWord(restore) == <<StateField(restore)>>

(* Of a message only its last words are left to send, a processor that     *)
(* does not send has none, and a master starts to wait with its buffer     *)
(* empty.                                                                  *)
MessageInv ==
    /\ DOMAIN pc = Processor /\ DOMAIN tx = Processor /\ DOMAIN rx = Processor
    /\ \A p \in Processor : ~Sending(p) => tx[p] = <<>>
    /\ pc["slave"] = "SendWelcome" =>
          tx["slave"] \in {Welcome(flag["slave"]), FieldWord(flag["slave"])}
    /\ pc["slave"] = "SendReady" => tx["slave"] = <<"ready">>
    /\ pc["master"] = "SendResponse" =>
          tx["master"] \in {Welcome(flag["master"]), FieldWord(flag["master"])}
    /\ pc["master"] = "SendSync" =>
          tx["master"] \in {SyncMessage, Left3, Left2, Left1}
    /\ pc["master"] \in {"Off", "Restore"} => rx["master"] = <<>>

(* What a processor says of itself before it has heard the other one.      *)
FlagInv ==
    /\ pc["master"] = "AwaitWelcome" => (flag["master"] <=> image["master"])
    /\ pc["slave"] \in {"SendWelcome", "AwaitResponse"} => (flag["slave"] <=> image["slave"])

Both == image["master"] /\ image["slave"]

(* A master that waits for a welcome message has as much of it as the      *)
(* slave has sent, and what it has is true of the slave.                   *)
WelcomeInv ==
    pc["master"] = "AwaitWelcome" /\ rx["master"] # <<>> /\ rx["master"][1] = "welcome" =>
        \/ rx["master"] = WelcomeWord /\ pc["slave"] = "SendWelcome" /\ Len(tx["slave"]) = 1
        \/ /\ rx["master"] = Welcome(image["slave"])
           /\ \/ pc["slave"] = "Off"
              \/ pc["slave"] = "AwaitResponse" /\ rx["slave"] = <<>>

(* A master that answers has decided for both, and the slave has as much   *)
(* of the answer as is sent.                                               *)
RespondInv ==
    pc["master"] = "SendResponse" =>
        /\ (flag["master"] <=> Both)
        /\ pc["slave"] \in {"Off", "SendWelcome", "AwaitResponse", "Restore", "Failed"}
        /\ pc["slave"] = "Restore" => posted["slave"]
        /\ pc["slave"] = "AwaitResponse" =>
              rx["slave"] = IF Len(tx["master"]) = 2 THEN <<>> ELSE WelcomeWord

(* The answer a slave has received is the one the master sent, and the     *)
(* master acts on it, unless it has given up or starts again.              *)
ResponseInv ==
    pc["slave"] = "AwaitResponse" /\ rx["slave"] # <<>> /\ rx["slave"][1] = "welcome" =>
        \/ rx["slave"] = WelcomeWord /\ pc["master"] = "SendResponse" /\ Len(tx["master"]) = 1
        \/ /\ rx["slave"] = Welcome(Both)
           /\ \/ pc["master"] = "Restore" /\ (flag["master"] <=> Both)
              \/ pc["master"] = "AwaitReady" /\ (restored["master"] <=> Both) /\ rx["master"] = <<>>
              \/ pc["master"] \in {"Failed", "Off"}

(* While the slave restores, or not, the master does the same, has done    *)
(* the same, or starts again.                                              *)
RestoreInv ==
    pc["slave"] = "Restore" /\ ~posted["slave"] =>
        LET restore == flag["slave"] /\ image["slave"]
        IN  \/ pc["master"] = "Restore" /\ (restore <=> flag["master"] /\ image["master"])
            \/ pc["master"] = "AwaitReady" /\ (restore <=> restored["master"]) /\ rx["master"] = <<>>
            \/ pc["master"] \in {"Failed", "Off", "AwaitWelcome"}

(* A slave that sends its ready message, or has sent it, has restored if   *)
(* and only if the master has.                                             *)
ReadyInv ==
    pc["slave"] \in PastRestore["slave"] /\ ~posted["slave"] =>
        /\ pc["master"] \notin {"SendResponse", "Restore"}
        /\ pc["master"] \in PastRestore["master"] => (restored["master"] <=> restored["slave"])
        /\ pc["slave"] = "SendReady" => pc["master"] # "Done"

(* A slave that waits for the sync message has the words of it the master  *)
(* has sent, from the first one on: the time in it is the master's.        *)
SyncInv ==
    ~posted["slave"] =>
        /\ pc["slave"] = "AwaitSync" =>
              \/ /\ rx["slave"] = <<>> /\ pc["master"] # "Done"
                 /\ pc["master"] = "SendSync" => tx["master"] = SyncMessage
              \/ /\ pc["master"] = "SendSync"
                 /\ \/ rx["slave"] = Sent1 /\ tx["master"] = Left3
                    \/ rx["slave"] = Sent2 /\ tx["master"] = Left2
                    \/ rx["slave"] = Sent3 /\ tx["master"] = Left1
              \/ rx["slave"] = SyncMessage /\ pc["master"] \in {"Done", "Off"}
        /\ pc["slave"] = "Done" => timeBase = MasterTime

Handshake == WelcomeInv /\ RespondInv /\ ResponseInv /\ RestoreInv /\ ReadyInv /\ SyncInv

(* The inductive invariant: of the handshake, only what holds until a      *)
(* message was cut.                                                        *)
BootInv == BootTypeOK /\ MessageInv /\ FlagInv /\ (~cut => Handshake)

-----------------------------------------------------------------------------
(* Nothing of processor p changes. *)
Keeps(p) ==
    /\ pc'[p] = pc[p] /\ tx'[p] = tx[p] /\ rx'[p] = rx[p]
    /\ flag'[p] = flag[p] /\ image'[p] = image[p]
    /\ restored'[p] = restored[p] /\ posted'[p] = posted[p]

(* What the steps need to know of the variables as functions. *)
Domains == /\ DOMAIN pc = Processor /\ DOMAIN tx = Processor /\ DOMAIN rx = Processor
           /\ image \in [Processor -> BOOLEAN] /\ flag \in [Processor -> BOOLEAN]
           /\ restored \in [Processor -> BOOLEAN] /\ posted \in [Processor -> BOOLEAN]

(* What the steps of either processor p do, q being the other one. *)

PowerUpDoes(p, q) ==
    /\ Keeps(q)
    /\ pc[p] = "Off" /\ \A place \in DOMAIN AwaitSize : ~Filled(q, place)
    /\ flag'[p] = image[p] /\ image' = image /\ restored' = restored /\ rx' = rx
    /\ posted' = posted /\ timeBase' = timeBase /\ restarts' = restarts
    /\ p = "master" => pc'[p] = "AwaitWelcome" /\ cut' = (cut \/ Midway(q)) /\ tx' = tx
    /\ p = "slave" => pc'[p] = "SendWelcome" /\ tx'[p] = Welcome(image[p]) /\ cut' = cut

SendWordDoes(p, q) ==
    /\ Sending(p)
    /\ pc'[p] = IF Len(tx[p]) = 1 THEN AfterSend[pc[p]] ELSE pc[p]
    /\ pc'[q] = pc[q]
    /\ tx'[p] = Tail(tx[p]) /\ tx'[q] = tx[q]
    /\ rx'[p] = <<>>
    /\ rx'[q] = IF Filling(q) THEN Append(rx[q], Head(tx[p])) ELSE rx[q]
    /\ cut' = (cut \/ (Len(tx[p]) = 1 /\ p = "slave" /\ Midway(q))
                   \/ (p = "master" /\ ~Filling(q)))
    /\ flag' = flag /\ image' = image /\ restored' = restored
    /\ posted' = posted /\ timeBase' = timeBase /\ restarts' = restarts

TransmitFailsDoes(p, q) ==
    /\ Keeps(q) /\ Sending(p)
    /\ \/ pc'[p] = "Failed"
       \/ pc[p] = "SendWelcome" /\ pc'[p] = "Restore"
       \/ pc[p] = "SendReady" /\ pc'[p] = "Done"
    /\ tx'[p] = <<>> /\ posted'[p] /\ cut' = (cut \/ Midway(p))
    /\ UNCHANGED <<image, flag, restored, rx, timeBase, restarts>>

XComWordDoes(p, q) ==
    /\ Keeps(p) /\ pc[p] = "Done" /\ Filling(q)
    /\ rx'[q] = Append(rx[q], "frame")
    /\ UNCHANGED <<pc, image, flag, restored, tx, timeBase, posted, cut, restarts>>

RestartDoes(p, q) ==
    /\ Keeps(q) /\ pc[p] # "Off"
    /\ restarts' = restarts + 1 /\ restarts < MaxRestarts
    /\ pc'[p] = "Off" /\ tx'[p] = <<>> /\ rx'[p] = <<>>
    /\ ~flag'[p] /\ ~restored'[p] /\ ~posted'[p]
    /\ image'[p] = image[p] \/ (pc[p] = "Done" /\ ~posted[p])
    /\ cut' = (cut \/ Midway(p))
    /\ timeBase' = IF p = "slave" THEN OwnTime ELSE timeBase

LEMMA Members == Processor = {"master", "slave"} /\ Peer("master") = "slave" /\ Peer("slave") = "master"
BY DEF Processor, Peer

LEMMA Update ==
    ASSUME NEW f, DOMAIN f = Processor, NEW p \in Processor, NEW v
    PROVE  /\ DOMAIN [f EXCEPT ![p] = v] = Processor
           /\ [f EXCEPT ![p] = v][p] = v
           /\ [f EXCEPT ![p] = v][Peer(p)] = f[Peer(p)]
BY DEF Processor, Peer

LEMMA PowerUpFields ==
    ASSUME Domains, NEW p \in Processor, PowerUp(p)
    PROVE  Domains' /\ PowerUpDoes(p, Peer(p))
<1>1. pc' = [pc EXCEPT ![p] = IF p = "master" THEN "AwaitWelcome" ELSE "SendWelcome"]
    BY DEF PowerUp, Goto
<1>2. tx' = IF p = "master" THEN tx ELSE [tx EXCEPT ![p] = Welcome(image[p])]
    BY DEF PowerUp
<1>3. flag' = [flag EXCEPT ![p] = image[p]]
    BY DEF PowerUp
<1>4. Domains'
    BY <1>1, <1>2, <1>3 DEF Domains, PowerUp
<1> QED BY <1>1, <1>2, <1>3, <1>4, Members DEF PowerUpDoes, Domains, PowerUp, Keeps

LEMMA SendWordFields ==
    ASSUME Domains, NEW p \in Processor, SendWord(p)
    PROVE  Domains' /\ SendWordDoes(p, Peer(p))
<1>0. p # Peer(p) /\ Peer(p) \in Processor
    BY DEF Peer, Processor
<1>1. pc' = [pc EXCEPT ![p] = IF Len(tx[p]) = 1 THEN AfterSend[pc[p]] ELSE pc[p]]
    BY DEF SendWord, Domains
<1>2. tx' = [tx EXCEPT ![p] = Tail(tx[p])]
    BY DEF SendWord, Domains
<1>3. rx' = [[rx EXCEPT ![p] = <<>>] EXCEPT ![Peer(p)] =
                IF Filling(Peer(p)) THEN Append(rx[Peer(p)], Head(tx[p])) ELSE rx[Peer(p)]]
    BY <1>0 DEF SendWord, Domains
<1>4. Domains'
    BY <1>1, <1>2, <1>3 DEF Domains, SendWord
<1> QED BY <1>0, <1>1, <1>2, <1>3, <1>4 DEF SendWordDoes, SendWord, Domains

LEMMA TransmitFailsFields ==
    ASSUME Domains, NEW p \in Processor, TransmitFails(p)
    PROVE  Domains' /\ TransmitFailsDoes(p, Peer(p))
<1>1. PICK place : /\ pc' = [pc EXCEPT ![p] = place]
                   /\ \/ place = "Failed"
                      \/ pc[p] = "SendWelcome" /\ place = "Restore"
                      \/ pc[p] = "SendReady" /\ place = "Done"
    BY DEF TransmitFails, Fail, Goto
<1>2. tx' = [tx EXCEPT ![p] = <<>>] /\ posted' = [posted EXCEPT ![p] = TRUE]
    BY DEF TransmitFails
<1>3. Domains'
    BY <1>1, <1>2 DEF Domains, TransmitFails
<1>4. p # Peer(p) /\ Peer(p) \in Processor
    BY DEF Peer, Processor
<1> QED BY <1>1, <1>2, <1>3, <1>4 DEF TransmitFailsDoes, TransmitFails, Domains, Keeps

LEMMA WelcomeReceivedFields ==
    ASSUME Domains, WelcomeReceived
    PROVE  /\ Domains' /\ Keeps("slave") /\ Filled("master", "AwaitWelcome")
           /\ \/ /\ rx["master"][1] = "welcome" /\ pc'["master"] = "SendResponse"
                 /\ flag'["master"] <=> flag["master"] /\ RestoreBit(rx["master"][2])
                 /\ tx'["master"] = Welcome(flag'["master"])
              \/ /\ rx["master"][1] # "welcome" /\ pc'["master"] = "Failed"
                 /\ flag' = flag /\ tx' = tx
           /\ rx'["master"] = <<>>
           /\ UNCHANGED <<image, restored, timeBase, posted, cut, restarts>>
<1> DEFINE restore == hands_verifySnStateField(rx["master"][2], flag["master"])
<1>0. restore \in BOOLEAN
    BY DEF hands_verifySnStateField
<1>1. CASE rx["master"][1] = "welcome"
    <2>1. /\ pc' = [pc EXCEPT !["master"] = "SendResponse"]
          /\ flag' = [flag EXCEPT !["master"] = restore]
          /\ tx' = [tx EXCEPT !["master"] = Welcome(restore)]
          /\ rx' = [rx EXCEPT !["master"] = <<>>]
          /\ Filled("master", "AwaitWelcome")
          /\ UNCHANGED <<image, restored, timeBase, posted, cut, restarts>>
        BY <1>1 DEF WelcomeReceived, Goto
    <2>2. flag'["master"] = restore
        BY <2>1, Members DEF Domains
    <2>3. restore <=> flag["master"] /\ RestoreBit(rx["master"][2])
        BY DEF hands_verifySnStateField
    <2> HIDE DEF restore
    <2>4. Domains'
        BY <1>0, <2>1 DEF Domains
    <2>5. tx'["master"] = Welcome(flag'["master"])
        BY <2>1, <2>2, Members DEF Domains
    <2> QED BY <1>1, <2>1, <2>2, <2>3, <2>4, <2>5, Members DEF Domains, Keeps
<1>2. CASE rx["master"][1] # "welcome"
    <2>1. /\ pc' = [pc EXCEPT !["master"] = "Failed"]
          /\ flag' = flag /\ tx' = tx
          /\ rx' = [rx EXCEPT !["master"] = <<>>]
          /\ Filled("master", "AwaitWelcome")
          /\ UNCHANGED <<image, restored, timeBase, posted, cut, restarts>>
        BY <1>2 DEF WelcomeReceived, Fail, Goto
    <2>2. Domains'
        BY <2>1 DEF Domains
    <2> QED BY <1>2, <2>1, <2>2, Members DEF Domains, Keeps
<1> QED BY <1>1, <1>2

LEMMA ResponseReceivedFields ==
    ASSUME Domains, ResponseReceived
    PROVE  /\ Domains' /\ Keeps("master") /\ Filled("slave", "AwaitResponse")
           /\ \/ /\ rx["slave"][1] = "welcome" /\ pc'["slave"] = "Restore"
                 /\ flag'["slave"] <=> flag["slave"] /\ RestoreBit(rx["slave"][2])
              \/ /\ rx["slave"][1] # "welcome" /\ pc'["slave"] = "Failed" /\ flag' = flag
           /\ rx'["slave"] = <<>>
           /\ UNCHANGED <<image, restored, tx, timeBase, posted, cut, restarts>>
<1> DEFINE restore == hands_verifySnStateField(rx["slave"][2], flag["slave"])
<1>0. restore \in BOOLEAN
    BY DEF hands_verifySnStateField
<1>1. CASE rx["slave"][1] = "welcome"
    <2>1. /\ pc' = [pc EXCEPT !["slave"] = "Restore"]
          /\ flag' = [flag EXCEPT !["slave"] = restore]
          /\ rx' = [rx EXCEPT !["slave"] = <<>>]
          /\ Filled("slave", "AwaitResponse")
          /\ UNCHANGED <<image, restored, tx, timeBase, posted, cut, restarts>>
        BY <1>1, Members DEF ResponseReceived, Goto, Domains
    <2>2. flag'["slave"] = restore
        BY <2>1, Members DEF Domains
    <2>3. restore <=> flag["slave"] /\ RestoreBit(rx["slave"][2])
        BY DEF hands_verifySnStateField
    <2> HIDE DEF restore
    <2>4. Domains'
        BY <1>0, <2>1 DEF Domains
    <2> QED BY <1>1, <2>1, <2>2, <2>3, <2>4, Members DEF Domains, Keeps
<1>2. CASE rx["slave"][1] # "welcome"
    <2>1. /\ pc' = [pc EXCEPT !["slave"] = "Failed"]
          /\ flag' = flag
          /\ rx' = [rx EXCEPT !["slave"] = <<>>]
          /\ Filled("slave", "AwaitResponse")
          /\ UNCHANGED <<image, restored, tx, timeBase, posted, cut, restarts>>
        BY <1>2 DEF ResponseReceived, Fail, Goto
    <2>2. Domains'
        BY <2>1 DEF Domains
    <2> QED BY <1>2, <2>1, <2>2, Members DEF Domains, Keeps
<1> QED BY <1>1, <1>2

LEMMA RestoreMasterFields ==
    ASSUME Domains, RestoreMaster
    PROVE  /\ Domains' /\ Keeps("slave") /\ pc["master"] = "Restore"
           /\ pc'["master"] = "AwaitReady"
           /\ restored'["master"] <=> flag["master"] /\ image["master"]
           /\ cut' = (cut \/ Midway("slave"))
           /\ UNCHANGED <<image, flag, tx, rx, timeBase, posted, restarts>>
<1> DEFINE restore == flag["master"] /\ image["master"]
<1>1. /\ restored' = [restored EXCEPT !["master"] = restore]
      /\ pc' = [pc EXCEPT !["master"] = "AwaitReady"]
    BY DEF RestoreMaster, Goto
<1>2. restored'["master"] = restore
    BY <1>1, Members DEF Domains
<1>3. restore \in BOOLEAN
    OBVIOUS
<1>4. restored'["master"] <=> flag["master"] /\ image["master"]
    BY <1>2
<1> HIDE DEF restore
<1>5. Domains'
    BY <1>1, <1>3 DEF RestoreMaster, Domains
<1> QED BY <1>1, <1>4, <1>5, Members DEF RestoreMaster, Domains, Keeps

LEMMA RestoreSlaveFields ==
    ASSUME Domains, RestoreSlave
    PROVE  /\ Domains' /\ Keeps("master") /\ pc["slave"] = "Restore"
           /\ pc["master"] \notin {"SendResponse", "Restore"}
           /\ pc'["slave"] = "SendReady" /\ tx'["slave"] = <<"ready">>
           /\ restored'["slave"] <=> flag["slave"] /\ image["slave"]
           /\ UNCHANGED <<image, flag, rx, timeBase, posted, cut, restarts>>
<1> DEFINE restore == flag["slave"] /\ image["slave"]
<1>1. /\ restored' = [restored EXCEPT !["slave"] = restore]
      /\ pc' = [pc EXCEPT !["slave"] = "SendReady"]
      /\ tx' = [tx EXCEPT !["slave"] = <<"ready">>]
    BY DEF RestoreSlave, Goto
<1>2. restored'["slave"] = restore
    BY <1>1, Members DEF Domains
<1>3. restore \in BOOLEAN
    OBVIOUS
<1>4. restored'["slave"] <=> flag["slave"] /\ image["slave"]
    BY <1>2
<1> HIDE DEF restore
<1>5. Domains'
    BY <1>1, <1>3 DEF RestoreSlave, Domains
<1> QED BY <1>1, <1>4, <1>5, Members DEF RestoreSlave, Domains, Keeps

LEMMA ReadyReceivedFields ==
    ASSUME Domains, ReadyReceived
    PROVE  /\ Domains' /\ Keeps("slave") /\ Filled("master", "AwaitReady")
           /\ pc'["master"] \in {"AwaitIrq", "Failed"} /\ rx'["master"] = <<>>
           /\ UNCHANGED <<image, flag, restored, tx, timeBase, posted, cut, restarts>>
<1>1. PICK place \in {"AwaitIrq", "Failed"} : pc' = [pc EXCEPT !["master"] = place]
    BY DEF ReadyReceived, Fail, Goto
<1> QED BY <1>1, Members DEF ReadyReceived, Domains, Keeps

LEMMA SyncInterruptFields ==
    ASSUME Domains, SyncInterrupt
    PROVE  /\ Domains' /\ Keeps("slave") /\ pc["master"] = "AwaitIrq"
           /\ pc'["master"] = "SendSync" /\ tx'["master"] = SyncMessage
           /\ UNCHANGED <<image, flag, restored, rx, timeBase, posted, cut, restarts>>
BY Members DEF SyncInterrupt, Goto, Domains, Keeps

LEMMA SyncReceivedFields ==
    ASSUME Domains, SyncReceived
    PROVE  /\ Domains' /\ Keeps("master") /\ Filled("slave", "AwaitSync")
           /\ timeBase' = SubSeq(rx["slave"], 3, 4)
           /\ pc'["slave"] = "Done" /\ rx'["slave"] = <<>>
           /\ UNCHANGED <<image, flag, restored, tx, posted, cut, restarts>>
BY Members DEF SyncReceived, Goto, Domains, Keeps

LEMMA ResponseTimeoutFields ==
    ASSUME Domains, ResponseTimeout
    PROVE  /\ Domains' /\ Keeps("master") /\ pc["slave"] = "AwaitResponse"
           /\ pc["master"] # "SendResponse" /\ ~Filled("master", "AwaitWelcome")
           /\ pc'["slave"] = "SendWelcome" /\ tx'["slave"] = Welcome(flag["slave"])
           /\ UNCHANGED <<image, flag, restored, rx, timeBase, posted, cut, restarts>>
BY Members DEF ResponseTimeout, Goto, Domains, Keeps

LEMMA SyncTimeoutFields ==
    ASSUME Domains, SyncTimeout
    PROVE  /\ Domains' /\ Keeps("master") /\ pc["slave"] = "AwaitSync" /\ Filling("slave")
           /\ pc'["slave"] = "SendReady" /\ tx'["slave"] = <<"ready">>
           /\ UNCHANGED <<image, flag, restored, rx, timeBase, posted, cut, restarts>>
BY Members DEF SyncTimeout, Goto, Domains, Keeps

LEMMA PingTimeoutFields ==
    ASSUME Domains, PingTimeout
    PROVE  /\ Domains' /\ Keeps("slave") /\ pc["master"] \in {"AwaitWelcome", "AwaitReady"}
           /\ pc'["master"] = "Failed"
           /\ UNCHANGED <<image, flag, restored, tx, rx, timeBase, posted, cut, restarts>>
BY Members DEF PingTimeout, Fail, Goto, Domains, Keeps

LEMMA XComWordFields ==
    ASSUME Domains, NEW p \in Processor, XComWord(p)
    PROVE  Domains' /\ XComWordDoes(p, Peer(p))
<1>0. p # Peer(p) /\ Peer(p) \in Processor
    BY DEF Peer, Processor
<1> QED BY <1>0 DEF XComWordDoes, XComWord, Domains, Keeps

LEMMA RestartFields ==
    ASSUME Domains, NEW p \in Processor, Restart(p)
    PROVE  Domains' /\ RestartDoes(p, Peer(p))
<1>0. p # Peer(p) /\ Peer(p) \in Processor
    BY DEF Peer, Processor
<1>1. PICK valid \in BOOLEAN : /\ image' = [image EXCEPT ![p] = valid]
                               /\ valid = image[p] \/ (pc[p] = "Done" /\ ~posted[p])
    BY DEF Restart, Domains
<1>2. /\ pc' = [pc EXCEPT ![p] = "Off"]
      /\ flag' = [flag EXCEPT ![p] = FALSE] /\ restored' = [restored EXCEPT ![p] = FALSE]
      /\ tx' = [tx EXCEPT ![p] = <<>>] /\ rx' = [rx EXCEPT ![p] = <<>>]
      /\ posted' = [posted EXCEPT ![p] = FALSE]
    BY DEF Restart, Goto
<1>3. Domains'
    BY <1>1, <1>2 DEF Domains
<1> QED BY <1>0, <1>1, <1>2, <1>3 DEF RestartDoes, Restart, Domains, Keeps



LEMMA InvDomains == BootInv => Domains
BY DEF BootInv, BootTypeOK, MessageInv, Domains

LEMMA AppendSecond ==
    ASSUME NEW a, NEW b
    PROVE  Append(<<a>>, b) = <<a, b>>
<1> DEFINE S == {a, b}
<1>1. <<a>> \in Seq(S) /\ <<a, b>> \in Seq(S) /\ b \in S
    OBVIOUS
<1>2. Len(Append(<<a>>, b)) = 2 /\ Len(<<a, b>>) = 2
    OBVIOUS
<1>3. \A i \in 1..2 : Append(<<a>>, b)[i] = <<a, b>>[i]
    OBVIOUS
<1> HIDE DEF S
<1>4. Append(<<a>>, b) \in Seq(S)
    BY <1>1
<1> QED BY <1>1, <1>2, <1>3, <1>4, SeqEqual

LEMMA Words ==
    ASSUME NEW a, NEW b, NEW c, NEW d
    PROVE  /\ Len(<<a>>) = 1 /\ Len(<<a, b>>) = 2 /\ Len(<<a, b, c>>) = 3 /\ Len(<<a, b, c, d>>) = 4
           /\ Tail(<<a>>) = <<>> /\ Tail(<<a, b>>) = <<b>>
           /\ Tail(<<a, b, c>>) = <<b, c>> /\ Tail(<<a, b, c, d>>) = <<b, c, d>>
           /\ Head(<<a>>) = a /\ Head(<<a, b>>) = a /\ Head(<<a, b, c>>) = a /\ Head(<<a, b, c, d>>) = a
           /\ Append(<<>>, a) = <<a>> /\ Append(<<a>>, b) = <<a, b>>
           /\ Append(<<a, b>>, c) = <<a, b, c>> /\ Append(<<a, b, c>>, d) = <<a, b, c, d>>
           /\ SubSeq(<<a, b, c, d>>, 3, 4) = <<c, d>>
<1> DEFINE S == {a, b, c, d}
<1>1. /\ <<a>> \in Seq(S) /\ <<b>> \in Seq(S) /\ <<a, b>> \in Seq(S) /\ <<c, d>> \in Seq(S)
      /\ <<b, c>> \in Seq(S) /\ <<a, b, c>> \in Seq(S) /\ <<b, c, d>> \in Seq(S)
      /\ <<a, b, c, d>> \in Seq(S)
    OBVIOUS
<1> HIDE DEF S
<1>2. Tail(<<a>>) = <<>> /\ Append(<<>>, a) = <<a>>
    OBVIOUS
<1>3. Tail(<<a, b>>) = <<b>>
    <2>1. Tail(<<a, b>>) \in Seq(S) /\ <<b>> \in Seq(S)
        BY <1>1 DEF S
    <2>2. Len(Tail(<<a, b>>)) = 1 /\ Len(<<b>>) = 1
        OBVIOUS
    <2>3. \A i \in 1..1 : Tail(<<a, b>>)[i] = <<b>>[i]
        OBVIOUS
    <2> QED BY <2>1, <2>2, <2>3, SeqEqual
<1>4. Tail(<<a, b, c>>) = <<b, c>>
    <2>1. Tail(<<a, b, c>>) \in Seq(S) /\ <<b, c>> \in Seq(S)
        BY <1>1 DEF S
    <2>2. Len(Tail(<<a, b, c>>)) = 2 /\ Len(<<b, c>>) = 2
        OBVIOUS
    <2>3. \A i \in 1..2 : Tail(<<a, b, c>>)[i] = <<b, c>>[i]
        OBVIOUS
    <2> QED BY <2>1, <2>2, <2>3, SeqEqual
<1>5. Tail(<<a, b, c, d>>) = <<b, c, d>>
    <2>1. Tail(<<a, b, c, d>>) \in Seq(S) /\ <<b, c, d>> \in Seq(S)
        BY <1>1 DEF S
    <2>2. Len(Tail(<<a, b, c, d>>)) = 3 /\ Len(<<b, c, d>>) = 3
        OBVIOUS
    <2>3. \A i \in 1..3 : Tail(<<a, b, c, d>>)[i] = <<b, c, d>>[i]
        OBVIOUS
    <2> QED BY <2>1, <2>2, <2>3, SeqEqual
<1>6. Append(<<a>>, b) = <<a, b>>
    BY AppendSecond
<1>7. Append(<<a, b>>, c) = <<a, b, c>>
    <2>1. Append(<<a, b>>, c) \in Seq(S) /\ <<a, b, c>> \in Seq(S)
        BY <1>1 DEF S
    <2>2. Len(Append(<<a, b>>, c)) = 3 /\ Len(<<a, b, c>>) = 3
        OBVIOUS
    <2>3. \A i \in 1..3 : Append(<<a, b>>, c)[i] = <<a, b, c>>[i]
        OBVIOUS
    <2> QED BY <2>1, <2>2, <2>3, SeqEqual
<1>8. Append(<<a, b, c>>, d) = <<a, b, c, d>>
    <2>1. Append(<<a, b, c>>, d) \in Seq(S) /\ <<a, b, c, d>> \in Seq(S)
        BY <1>1 DEF S
    <2>2. Len(Append(<<a, b, c>>, d)) = 4 /\ Len(<<a, b, c, d>>) = 4
        OBVIOUS
    <2>3. \A i \in 1..4 : Append(<<a, b, c>>, d)[i] = <<a, b, c, d>>[i]
        OBVIOUS
    <2> QED BY <2>1, <2>2, <2>3, SeqEqual
<1>9. SubSeq(<<a, b, c, d>>, 3, 4) = <<c, d>>
    <2>1. SubSeq(<<a, b, c, d>>, 3, 4) \in Seq(S) /\ <<c, d>> \in Seq(S)
        BY <1>1 DEF S
    <2>2. Len(SubSeq(<<a, b, c, d>>, 3, 4)) = 2 /\ Len(<<c, d>>) = 2
        OBVIOUS
    <2>3. \A i \in 1..2 : SubSeq(<<a, b, c, d>>, 3, 4)[i] = <<c, d>>[i]
        OBVIOUS
    <2> QED BY <2>1, <2>2, <2>3, SeqEqual
<1> QED BY <1>2, <1>3, <1>4, <1>5, <1>6, <1>7, <1>8, <1>9


(* The sync message, word by word. *)
LEMMA SyncWords ==
    /\ Len(SyncMessage) = 4 /\ Len(Left3) = 3 /\ Len(Left2) = 2 /\ Len(Left1) = 1
    /\ Tail(SyncMessage) = Left3 /\ Tail(Left3) = Left2 /\ Tail(Left2) = Left1 /\ Tail(Left1) = <<>>
    /\ Head(SyncMessage) = "ready" /\ Head(Left3) = "time" /\ Head(Left2) = "time" /\ Head(Left1) = "time"
    /\ Append(<<>>, "ready") = Sent1 /\ Append(Sent1, "time") = Sent2
    /\ Append(Sent2, "time") = Sent3 /\ Append(Sent3, "time") = SyncMessage
    /\ Len(Sent1) = 1 /\ Len(Sent2) = 2 /\ Len(Sent3) = 3
    /\ SubSeq(SyncMessage, 3, 4) = MasterTime /\ Len(<<>>) = 0
BY Words DEF SyncMessage, Left3, Left2, Left1, Sent1, Sent2, Sent3, MasterTime

(* The messages with a state field. *)
LEMMA WelcomeWords ==
    /\ \A restore : /\ Len(Welcome(restore)) = 2 /\ Len(FieldWord(restore)) = 1
                    /\ Tail(Welcome(restore)) = FieldWord(restore) /\ Tail(FieldWord(restore)) = <<>>
                    /\ Head(Welcome(restore)) = "welcome" /\ Head(FieldWord(restore)) = StateField(restore)
                    /\ Append(WelcomeWord, StateField(restore)) = Welcome(restore)
                    /\ Welcome(restore)[1] = "welcome" /\ Welcome(restore)[2] = StateField(restore)
                    /\ RestoreBit(StateField(restore)) <=> restore
                    /\ StateField(restore) \in {"restore", "fresh"}
    /\ Append(<<>>, "welcome") = WelcomeWord /\ WelcomeWord[1] = "welcome" /\ Len(WelcomeWord) = 1
    /\ Len(<<>>) = 0
    /\ \A a, b \in BOOLEAN : (a <=> b) => Welcome(a) = Welcome(b)
<1>1. ASSUME NEW restore
      PROVE  /\ Len(Welcome(restore)) = 2 /\ Len(FieldWord(restore)) = 1
             /\ Tail(Welcome(restore)) = FieldWord(restore) /\ Tail(FieldWord(restore)) = <<>>
             /\ Head(Welcome(restore)) = "welcome" /\ Head(FieldWord(restore)) = StateField(restore)
             /\ Append(WelcomeWord, StateField(restore)) = Welcome(restore)
             /\ Welcome(restore)[1] = "welcome" /\ Welcome(restore)[2] = StateField(restore)
    <2> DEFINE field == StateField(restore)
    <2>1. /\ Len(<<"welcome", field>>) = 2 /\ Len(<<field>>) = 1
          /\ Tail(<<"welcome", field>>) = <<field>> /\ Tail(<<field>>) = <<>>
          /\ Append(<<"welcome">>, field) = <<"welcome", field>>
        <3>1. /\ Len(<<"welcome", field>>) = 2 /\ Len(<<field>>) = 1
              /\ Tail(<<"welcome", field>>) = <<field>> /\ Tail(<<field>>) = <<>>
            OBVIOUS
        <3> HIDE DEF field
        <3>2. Append(<<"welcome">>, field) = <<"welcome", field>>
            BY AppendSecond
        <3> QED BY <3>1, <3>2
    <2>2. /\ Head(<<"welcome", field>>) = "welcome" /\ Head(<<field>>) = field
          /\ <<"welcome", field>>[1] = "welcome" /\ <<"welcome", field>>[2] = field
        OBVIOUS
    <2>3. /\ Welcome(restore) = <<"welcome", field>> /\ FieldWord(restore) = <<field>>
          /\ WelcomeWord = <<"welcome">>
        BY DEF Welcome, FieldWord, WelcomeWord
    <2> HIDE DEF field
    <2>4. field = StateField(restore)
        BY DEF field
    <2> QED BY <2>1, <2>2, <2>3, <2>4
<1>2. ASSUME NEW restore
      PROVE  /\ RestoreBit(StateField(restore)) <=> restore
             /\ StateField(restore) \in {"restore", "fresh"}
    BY DEF RestoreBit, StateField
<1>3. Append(<<>>, "welcome") = WelcomeWord /\ WelcomeWord[1] = "welcome"
      /\ Len(WelcomeWord) = 1 /\ Len(<<>>) = 0
    BY Words DEF WelcomeWord
<1>4. ASSUME NEW a \in BOOLEAN, NEW b \in BOOLEAN, a <=> b PROVE Welcome(a) = Welcome(b)
    BY <1>4
<1> QED BY <1>1, <1>2, <1>3, <1>4

(* The first word received stays the first one. *)
LEMMA FirstWord ==
    /\ \A w : Append(<<>>, w)[1] = w /\ Append(<<>>, w) # <<>>
    /\ \A s \in Seq(Word), w \in Word :
          Append(s, w) # <<>> /\ (s # <<>> => Append(s, w)[1] = s[1])
<1>1. ASSUME NEW w PROVE Append(<<>>, w)[1] = w /\ Append(<<>>, w) # <<>>
    OBVIOUS
<1>2. ASSUME NEW s \in Seq(Word), NEW w \in Word
      PROVE  Append(s, w) # <<>> /\ (s # <<>> => Append(s, w)[1] = s[1])
    <2>1. /\ Append(s, w) \in Seq(Word) /\ Len(Append(s, w)) = Len(s) + 1 /\ Len(s) \in Nat
          /\ \A i \in 1..Len(s) : Append(s, w)[i] = s[i]
        BY AppendProperties
    <2>2. s # <<>> => 1 \in 1..Len(s)
        BY <2>1, EmptySeq
    <2>3. Len(<<>>) = 0
        OBVIOUS
    <2>4. Append(s, w) # <<>>
        BY <2>1, <2>3
    <2>5. s # <<>> => Append(s, w)[1] = s[1]
        BY <2>1, <2>2
    <2> QED BY <2>4, <2>5
<1> QED BY <1>1, <1>2

(* All messages are made of words. *)
LEMMA WordTypes ==
    /\ <<>> \in Seq(Word) /\ <<"ready">> \in Seq(Word) /\ SyncMessage \in Seq(Word)
    /\ \A restore : Welcome(restore) \in Seq(Word) /\ Welcome(restore) # <<>>
    /\ <<"ready">> # <<>> /\ SyncMessage # <<>>
    /\ \A s \in Seq(Word) : /\ Append(s, "frame") \in Seq(Word)
                            /\ Len(Append(s, "frame")) = Len(s) + 1
    /\ \A s, t \in Seq(Word) : s # <<>> =>
          /\ Tail(s) \in Seq(Word) /\ Head(s) \in Word
          /\ Append(t, Head(s)) \in Seq(Word) /\ Len(Append(t, Head(s))) = Len(t) + 1
          /\ Tail(s) = <<>> <=> Len(s) = 1
    /\ \A s \in Seq(Word) : Len(s) = 4 =>
          SubSeq(s, 3, 4) \in Seq(Word) /\ Len(SubSeq(s, 3, 4)) = 2
<1>1. {"ready", "welcome", "restore", "fresh", "time", "frame"} = Word
    BY DEF Word
<1>2. /\ <<>> \in Seq(Word) /\ <<"ready">> \in Seq(Word) /\ SyncMessage \in Seq(Word)
      /\ <<"ready">> # <<>> /\ SyncMessage # <<>>
    BY <1>1 DEF SyncMessage
<1>3. \A restore : Welcome(restore) \in Seq(Word) /\ Welcome(restore) # <<>>
    <2> SUFFICES ASSUME NEW restore
                 PROVE  Welcome(restore) \in Seq(Word) /\ Welcome(restore) # <<>>
        OBVIOUS
    <2>1. StateField(restore) \in Word
        BY <1>1 DEF StateField
    <2> QED BY <1>1, <2>1 DEF Welcome
<1>4. ASSUME NEW s \in Seq(Word), NEW w \in Word
      PROVE  Append(s, w) \in Seq(Word) /\ Len(Append(s, w)) = Len(s) + 1
    OBVIOUS
<1>5. ASSUME NEW s \in Seq(Word), s # <<>>
      PROVE  Tail(s) \in Seq(Word) /\ Head(s) \in Word /\ (Tail(s) = <<>> <=> Len(s) = 1)
    <2>1. Len(s) \in Nat \ {0} /\ Tail(s) \in Seq(Word) /\ Len(Tail(s)) = Len(s) - 1
        BY <1>5, HeadTailProperties, EmptySeq
    <2>2. Head(s) \in Word
        BY <1>5, HeadTailProperties
    <2>3. Tail(s) = <<>> <=> Len(Tail(s)) = 0
        BY <2>1, EmptySeq
    <2> QED BY <2>1, <2>2, <2>3
<1>6. \A s \in Seq(Word) : Len(s) = 4 =>
          SubSeq(s, 3, 4) \in Seq(Word) /\ Len(SubSeq(s, 3, 4)) = 2
    <2> SUFFICES ASSUME NEW s \in Seq(Word), Len(s) = 4
                 PROVE  SubSeq(s, 3, 4) \in Seq(Word) /\ Len(SubSeq(s, 3, 4)) = 2
        OBVIOUS
    <2>1. 3 \in 1..Len(s) /\ 4 \in 1..Len(s)
        OBVIOUS
    <2>3. s[3] \in Word /\ s[4] \in Word
        BY <2>1, ElementOfSeq
    <2>2. \A i \in 3..4 : s[i] \in Word
        BY <2>3
    <2> QED BY <2>2, SubSeqProperties
<1>7. "frame" \in Word
    BY <1>1
<1> QED BY <1>2, <1>3, <1>4, <1>5, <1>6, <1>7


BootOwnType(p) ==
    /\ pc[p] \in Place[p]
    /\ tx[p] \in Seq(Word) /\ rx[p] \in Seq(Word)
    /\ Sending(p) <=> tx[p] # <<>>
    /\ pc[p] \in DOMAIN AwaitSize => Len(rx[p]) <= AwaitSize[pc[p]]

LEMMA TypeParts ==
    BootTypeOK <=>
        /\ BootOwnType("master") /\ BootOwnType("slave")
        /\ image \in [Processor -> BOOLEAN] /\ flag \in [Processor -> BOOLEAN]
        /\ restored \in [Processor -> BOOLEAN] /\ posted \in [Processor -> BOOLEAN]
        /\ timeBase = OwnTime \/ (timeBase \in Seq(Word) /\ Len(timeBase) = 2)
        /\ cut \in BOOLEAN /\ restarts \in 0..MaxRestarts
BY DEF BootTypeOK, BootOwnType, Processor

LEMMA KeepsType ==
    ASSUME NEW p \in Processor, BootOwnType(p), Keeps(p)
    PROVE  BootOwnType(p)'
BY DEF BootOwnType, Keeps, Sending

LEMMA Sizes ==
    /\ DOMAIN SendSize = {"SendWelcome", "SendResponse", "SendReady", "SendSync"}
    /\ DOMAIN AwaitSize = {"AwaitWelcome", "AwaitResponse", "AwaitReady", "AwaitSync"}
    /\ \A place \in DOMAIN AwaitSize : AwaitSize[place] \in Nat
BY DEF SendSize, AwaitSize

LEMMA SendWordType ==
    ASSUME BootInv, NEW p \in Processor, SendWord(p)
    PROVE  BootTypeOK'
<1> DEFINE q == Peer(p)
<1>1. /\ Domains /\ BootTypeOK /\ BootOwnType(p) /\ BootOwnType(q)
      /\ q \in Processor /\ p # q /\ {p, q} = Processor
    BY InvDomains, Members DEF BootInv, BootTypeOK, BootOwnType
<1> HIDE DEF q
<1>2. /\ Domains' /\ Sending(p)
      /\ pc'[p] = IF Len(tx[p]) = 1 THEN AfterSend[pc[p]] ELSE pc[p]
      /\ pc'[q] = pc[q] /\ tx'[p] = Tail(tx[p]) /\ tx'[q] = tx[q] /\ rx'[p] = <<>>
      /\ rx'[q] = IF Filling(q) THEN Append(rx[q], Head(tx[p])) ELSE rx[q]
      /\ cut' \in BOOLEAN
      /\ UNCHANGED <<image, flag, restored, posted, timeBase, restarts>>
    BY <1>1, SendWordFields DEF q, SendWordDoes
<1>3. BootOwnType(p)'
    <2>1. tx[p] # <<>> /\ tx[p] \in Seq(Word)
        BY <1>1, <1>2 DEF BootOwnType
    <2>2. tx'[p] \in Seq(Word) /\ rx'[p] \in Seq(Word) /\ Len(rx'[p]) = 0
          /\ (tx'[p] = <<>> <=> Len(tx[p]) = 1)
        BY <1>2, <2>1, WordTypes
    <2>3. pc'[p] \in Place[p]
        BY <1>1, <1>2, Members DEF BootOwnType, Sending, SendSize, AfterSend, Place
    <2>4. pc'[p] \in DOMAIN SendSize <=> Len(tx[p]) # 1
        BY <1>2 DEF Sending, SendSize, AfterSend
    <2>5. pc'[p] \in DOMAIN AwaitSize => 0 <= AwaitSize[pc'[p]]
        BY Sizes
    <2> QED BY <2>2, <2>3, <2>4, <2>5 DEF BootOwnType, Sending
<1>4. BootOwnType(q)'
    <2>1. tx[p] # <<>> /\ tx[p] \in Seq(Word) /\ rx[q] \in Seq(Word)
        BY <1>1, <1>2 DEF BootOwnType
    <2>2. CASE Filling(q)
        <3>1. rx'[q] \in Seq(Word) /\ Len(rx'[q]) = Len(rx[q]) + 1 /\ Len(rx[q]) \in Nat
            BY <1>2, <2>1, <2>2, WordTypes
        <3> QED BY <1>1, <1>2, <2>2, <3>1, Sizes DEF BootOwnType, Sending, Filling
    <2>3. CASE ~Filling(q)
        BY <1>1, <1>2, <2>3 DEF BootOwnType, Sending
    <2> QED BY <2>2, <2>3
<1> QED BY <1>1, <1>2, <1>3, <1>4 DEF BootTypeOK, BootOwnType, Domains

LEMMA XComWordType ==
    ASSUME BootInv, NEW p \in Processor, XComWord(p)
    PROVE  BootTypeOK'
<1> DEFINE q == Peer(p)
<1>1. /\ Domains /\ BootTypeOK /\ BootOwnType(p) /\ BootOwnType(q)
      /\ q \in Processor /\ p # q /\ {p, q} = Processor
    BY InvDomains, Members DEF BootInv, BootTypeOK, BootOwnType
<1> HIDE DEF q
<1>2. /\ Domains' /\ Keeps(p) /\ Filling(q)
      /\ rx'[q] = Append(rx[q], "frame")
      /\ UNCHANGED <<pc, image, flag, restored, tx, timeBase, posted, cut, restarts>>
    BY <1>1, XComWordFields DEF q, XComWordDoes
<1>3. BootOwnType(p)'
    BY <1>1, <1>2, KeepsType
<1>4. BootOwnType(q)'
    <2>1. rx'[q] \in Seq(Word) /\ Len(rx'[q]) = Len(rx[q]) + 1 /\ Len(rx[q]) \in Nat
        BY <1>1, <1>2, WordTypes DEF BootOwnType
    <2> QED BY <1>1, <1>2, <2>1, Sizes DEF BootOwnType, Sending, Filling
<1> QED BY <1>1, <1>2, <1>3, <1>4 DEF BootTypeOK, BootOwnType, Domains

(* The steps of one processor that send nothing. *)
Local(p) ==
    \/ PowerUp(p) \/ TransmitFails(p) \/ Restart(p)
    \/ p = "master" /\ (WelcomeReceived \/ RestoreMaster \/ ReadyReceived \/ SyncInterrupt \/ PingTimeout)
    \/ p = "slave" /\ (ResponseReceived \/ RestoreSlave \/ SyncReceived \/ ResponseTimeout \/ SyncTimeout)

(* They take a processor to a place with a message to send, to one where   *)
(* it waits with its buffer empty, or to another one.                      *)
Arrives(p) ==
    /\ Domains' /\ Keeps(Peer(p))
    /\ pc'[p] \in Place[p] /\ rx'[p] \in {<<>>, rx[p]}
    /\ \/ pc'[p] \in DOMAIN SendSize /\ tx'[p] \in Seq(Word) \ {<<>>}
       \/ pc'[p] \in DOMAIN AwaitSize /\ rx'[p] = <<>> /\ tx'[p] = <<>>
       \/ pc'[p] \notin DOMAIN SendSize \cup DOMAIN AwaitSize /\ tx'[p] = <<>>
    /\ cut' \in BOOLEAN /\ restarts' \in 0..MaxRestarts
    /\ SyncReceived \/ timeBase' \in {timeBase, OwnTime}

LEMMA LocalArrives ==
    ASSUME BootInv, NEW p \in Processor, Local(p)
    PROVE  Arrives(p)
<1>1. Domains /\ MessageInv
    BY InvDomains DEF BootInv
<1>2. restarts \in 0..MaxRestarts /\ cut \in BOOLEAN
    BY DEF BootInv, BootTypeOK
<1>3. CASE PowerUp(p)
    <2>1. CASE p = "master"
        BY <1>1, <1>2, <1>3, <2>1, PowerUpFields, Members, WordTypes, Sizes, RestartsAssumption
           DEF PowerUpDoes, Arrives, Domains, MessageInv, Sending, Place
    <2>2. CASE p = "slave"
        BY <1>1, <1>2, <1>3, <2>2, PowerUpFields, Members, WordTypes, Sizes, RestartsAssumption
           DEF PowerUpDoes, Arrives, Domains, MessageInv, Sending, Place
    <2> QED BY <2>1, <2>2, Members
<1>4. CASE TransmitFails(p)
    <2>1. CASE p = "master"
        BY <1>1, <1>2, <1>4, <2>1, TransmitFailsFields, Members, WordTypes, Sizes,
           RestartsAssumption
           DEF TransmitFailsDoes, Arrives, Domains, MessageInv, Sending, Place
    <2>2. CASE p = "slave"
        BY <1>1, <1>2, <1>4, <2>2, TransmitFailsFields, Members, WordTypes, Sizes,
           RestartsAssumption
           DEF TransmitFailsDoes, Arrives, Domains, MessageInv, Sending, Place
    <2> QED BY <2>1, <2>2, Members
<1>5. CASE Restart(p)
    <2>1. CASE p = "master"
        BY <1>1, <1>2, <1>5, <2>1, RestartFields, Members, WordTypes, Sizes, RestartsAssumption
           DEF RestartDoes, Arrives, Domains, MessageInv, Sending, Place
    <2>2. CASE p = "slave"
        BY <1>1, <1>2, <1>5, <2>2, RestartFields, Members, WordTypes, Sizes, RestartsAssumption
           DEF RestartDoes, Arrives, Domains, MessageInv, Sending, Place
    <2> QED BY <2>1, <2>2, Members
<1>6. CASE p = "master" /\ WelcomeReceived
    BY <1>1, <1>2, <1>6, WelcomeReceivedFields, Members, WordTypes, Sizes
       DEF Arrives, Domains, MessageInv, Sending, Filled, Place
<1>7. CASE p = "master" /\ RestoreMaster
    BY <1>1, <1>2, <1>7, RestoreMasterFields, Members, WordTypes, Sizes
       DEF Arrives, Domains, MessageInv, Sending, Filled, Place
<1>8. CASE p = "master" /\ ReadyReceived
    BY <1>1, <1>2, <1>8, ReadyReceivedFields, Members, WordTypes, Sizes
       DEF Arrives, Domains, MessageInv, Sending, Filled, Place
<1>9. CASE p = "master" /\ SyncInterrupt
    BY <1>1, <1>2, <1>9, SyncInterruptFields, Members, WordTypes, Sizes
       DEF Arrives, Domains, MessageInv, Sending, Filled, Place
<1>10. CASE p = "master" /\ PingTimeout
    BY <1>1, <1>2, <1>10, PingTimeoutFields, Members, WordTypes, Sizes
       DEF Arrives, Domains, MessageInv, Sending, Filled, Place
<1>11. CASE p = "slave" /\ ResponseReceived
    BY <1>1, <1>2, <1>11, ResponseReceivedFields, Members, WordTypes, Sizes
       DEF Arrives, Domains, MessageInv, Sending, Filled, Place
<1>12. CASE p = "slave" /\ RestoreSlave
    BY <1>1, <1>2, <1>12, RestoreSlaveFields, Members, WordTypes, Sizes
       DEF Arrives, Domains, MessageInv, Sending, Filled, Place
<1>13. CASE p = "slave" /\ SyncReceived
    BY <1>1, <1>2, <1>13, SyncReceivedFields, Members, WordTypes, Sizes
       DEF Arrives, Domains, MessageInv, Sending, Filled, Place
<1>14. CASE p = "slave" /\ ResponseTimeout
    BY <1>1, <1>2, <1>14, ResponseTimeoutFields, Members, WordTypes, Sizes
       DEF Arrives, Domains, MessageInv, Sending, Filled, Place
<1>15. CASE p = "slave" /\ SyncTimeout
    BY <1>1, <1>2, <1>15, SyncTimeoutFields, Members, WordTypes, Sizes
       DEF Arrives, Domains, MessageInv, Sending, Filled, Place
<1> QED BY <1>3, <1>4, <1>5, <1>6, <1>7, <1>8, <1>9, <1>10, <1>11, <1>12, <1>13, <1>14, <1>15
           DEF Local

LEMMA LocalType ==
    ASSUME BootInv, NEW p \in Processor, Local(p)
    PROVE  BootTypeOK'
<1> DEFINE q == Peer(p)
<1>1. /\ Domains /\ BootTypeOK /\ BootOwnType(p) /\ BootOwnType(q)
      /\ q \in Processor /\ p # q /\ {p, q} = Processor
    BY InvDomains, Members DEF BootInv, BootTypeOK, BootOwnType
<1>2. Arrives(p)
    BY LocalArrives
<1>3. BootOwnType(q)'
    BY <1>1, <1>2, KeepsType DEF Arrives
<1>4. BootOwnType(p)'
    <2>1. tx'[p] \in Seq(Word) /\ rx'[p] \in Seq(Word) /\ (rx'[p] = <<>> => Len(rx'[p]) = 0)
        <3>1. tx'[p] \in Seq(Word) \ {<<>>} \/ tx'[p] = <<>>
            BY <1>2 DEF Arrives
        <3>2. rx'[p] = <<>> \/ rx'[p] = rx[p]
            BY <1>2 DEF Arrives
        <3>3. <<>> \in Seq(Word) /\ rx[p] \in Seq(Word)
            BY <1>1, WordTypes DEF BootOwnType
        <3>4. Len(<<>>) = 0
            OBVIOUS
        <3>5. tx'[p] \in Seq(Word)
            BY <3>1, <3>3
        <3>6. rx'[p] \in Seq(Word)
            BY <3>2, <3>3
        <3>7. rx'[p] = <<>> => Len(rx'[p]) = 0
            BY <3>4
        <3> QED BY <3>5, <3>6, <3>7
    <2>2. tx'[p] # <<>> <=> pc'[p] \in DOMAIN SendSize
        BY <1>2, WordTypes, Sizes DEF Arrives
    <2>3. pc'[p] \in DOMAIN AwaitSize => Len(rx'[p]) <= AwaitSize[pc'[p]]
        BY <1>2, <2>1, Sizes DEF Arrives
    <2> QED BY <1>2, <2>1, <2>2, <2>3 DEF Arrives, BootOwnType, Sending
<1>5. (timeBase = OwnTime \/ (timeBase \in Seq(Word) /\ Len(timeBase) = 2))'
    <2>1. CASE SyncReceived
        <3>1. rx["slave"] \in Seq(Word) /\ Len(rx["slave"]) = 4
              /\ timeBase' = SubSeq(rx["slave"], 3, 4)
            BY <1>1, <2>1, SyncReceivedFields, Members DEF BootTypeOK, Filled, AwaitSize
        <3> QED BY <3>1, WordTypes
    <2>2. CASE timeBase' \in {timeBase, OwnTime}
        BY <1>1, <2>2 DEF BootTypeOK
    <2> QED BY <1>2, <2>1, <2>2 DEF Arrives
<1> HIDE DEF q
<1> QED BY <1>1, <1>2, <1>3, <1>4, <1>5 DEF BootTypeOK, BootOwnType, Domains, Arrives

(* Which part of its message a processor has sent. *)
LEMMA MidwayOf ==
    ASSUME NEW p \in Processor, Sending(p), NEW n \in Nat \ {0}, NEW k \in Nat,
           Len(tx[p]) = n, SendSize[pc[p]] = k
    PROVE  Midway(p) <=> n < k
BY DEF Midway

LEMMA WelcomeMidway ==
    ASSUME MessageInv, NEW p \in Processor, pc[p] = "SendWelcome" \/ pc[p] = "SendResponse",
           p = "slave" <=> pc[p] = "SendWelcome"
    PROVE  \/ tx[p] = Welcome(flag[p]) /\ Len(tx[p]) = 2 /\ ~Midway(p)
           \/ tx[p] = FieldWord(flag[p]) /\ Len(tx[p]) = 1 /\ Midway(p)
<1>1. SendSize[pc[p]] = 2 /\ Sending(p)
    BY DEF SendSize, Sending
<1>2. tx[p] \in {Welcome(flag[p]), FieldWord(flag[p])}
    BY Members DEF MessageInv
<1>3. CASE tx[p] = Welcome(flag[p])
    <2>1. Len(tx[p]) = 2
        BY <1>3, WelcomeWords
    <2> QED BY <1>1, <1>3, <2>1 DEF Midway
<1>4. CASE tx[p] = FieldWord(flag[p])
    <2>1. Len(tx[p]) = 1
        BY <1>4, WelcomeWords
    <2> QED BY <1>1, <1>4, <2>1 DEF Midway
<1> QED BY <1>2, <1>3, <1>4

LEMMA SyncMidway ==
    ASSUME MessageInv, pc["master"] = "SendSync"
    PROVE  \/ tx["master"] = SyncMessage /\ ~Midway("master") /\ Len(tx["master"]) = 4
           \/ tx["master"] = Left3 /\ Midway("master") /\ Len(tx["master"]) = 3
           \/ tx["master"] = Left2 /\ Midway("master") /\ Len(tx["master"]) = 2
           \/ tx["master"] = Left1 /\ Midway("master") /\ Len(tx["master"]) = 1
<1>1. SendSize["SendSync"] = 4 /\ Sending("master") /\ "master" \in Processor
    BY DEF SendSize, Sending, Processor
<1>2. tx["master"] \in {SyncMessage, Left3, Left2, Left1}
    BY DEF MessageInv
<1>3. Len(tx["master"]) \in Nat \ {0} /\ (Midway("master") <=> Len(tx["master"]) < 4)
    <2>1. Len(tx["master"]) \in {1, 2, 3, 4}
        BY <1>2, SyncWords
    <2> QED BY <1>1, <2>1, MidwayOf
<1> QED BY <1>2, <1>3, SyncWords

LEMMA MidwayMeans ==
    ASSUME MessageInv
    PROVE  /\ pc["slave"] = "SendWelcome" =>
                 \/ tx["slave"] = Welcome(flag["slave"]) /\ Len(tx["slave"]) = 2 /\ ~Midway("slave")
                 \/ tx["slave"] = FieldWord(flag["slave"]) /\ Len(tx["slave"]) = 1 /\ Midway("slave")
           /\ pc["slave"] = "SendReady" => tx["slave"] = <<"ready">> /\ Len(tx["slave"]) = 1
           /\ pc["master"] = "SendResponse" =>
                 \/ tx["master"] = Welcome(flag["master"]) /\ Len(tx["master"]) = 2 /\ ~Midway("master")
                 \/ tx["master"] = FieldWord(flag["master"]) /\ Len(tx["master"]) = 1 /\ Midway("master")
           /\ pc["master"] = "SendSync" =>
                 \/ tx["master"] = SyncMessage /\ ~Midway("master") /\ Len(tx["master"]) = 4
                 \/ tx["master"] = Left3 /\ Midway("master") /\ Len(tx["master"]) = 3
                 \/ tx["master"] = Left2 /\ Midway("master") /\ Len(tx["master"]) = 2
                 \/ tx["master"] = Left1 /\ Midway("master") /\ Len(tx["master"]) = 1
<1>1. Len(<<"ready">>) = 1
    OBVIOUS
<1>2. pc["slave"] = "SendReady" => tx["slave"] = <<"ready">>
    BY DEF MessageInv
<1> QED BY <1>1, <1>2, WelcomeMidway, SyncMidway, Members

(* One word of the message of p arrives at q, if q waits for one. *)
SendsWord(p, q, word, left, place) ==
    /\ pc'[p] = place /\ tx'[p] = left /\ rx'[p] = <<>>
    /\ pc'[q] = pc[q] /\ tx'[q] = tx[q]
    /\ rx'[q] = IF Filling(q) THEN Append(rx[q], word) ELSE rx[q]
    /\ flag' = flag /\ image' = image /\ restored' = restored /\ posted' = posted
    /\ timeBase' = timeBase

MasterSends(word, left, place) == SendsWord("master", "slave", word, left, place)
SlaveSends(word, left, place) == SendsWord("slave", "master", word, left, place)

LEMMA MasterWord ==
    ASSUME MessageInv, BootOwnType("master"), Domains, SendWord("master")
    PROVE  /\ \/ /\ pc["master"] = "SendResponse" /\ Len(tx["master"]) = 2
                 /\ MasterSends("welcome", FieldWord(flag["master"]), "SendResponse")
              \/ /\ pc["master"] = "SendResponse" /\ Len(tx["master"]) = 1
                 /\ MasterSends(StateField(flag["master"]), <<>>, "Restore")
              \/ /\ pc["master"] = "SendSync" /\ tx["master"] = SyncMessage
                 /\ MasterSends("ready", Left3, "SendSync")
              \/ /\ pc["master"] = "SendSync" /\ tx["master"] = Left3
                 /\ MasterSends("time", Left2, "SendSync")
              \/ /\ pc["master"] = "SendSync" /\ tx["master"] = Left2
                 /\ MasterSends("time", Left1, "SendSync")
              \/ /\ pc["master"] = "SendSync" /\ tx["master"] = Left1
                 /\ MasterSends("time", <<>>, "Done")
           /\ Domains' /\ (~cut' => ~cut /\ Filling("slave"))
<1>1. Domains' /\ SendWordDoes("master", "slave")
    BY SendWordFields, Members
<1>2. pc["master"] = "SendResponse" \/ pc["master"] = "SendSync"
    BY <1>1 DEF SendWordDoes, Sending, SendSize, BootOwnType, Place
<1>3. ~cut' => ~cut /\ Filling("slave")
    BY <1>1 DEF SendWordDoes
<1>4. AfterSend["SendResponse"] = "Restore" /\ AfterSend["SendSync"] = "Done"
    BY DEF AfterSend
<1>5. ASSUME NEW word, NEW left, Head(tx["master"]) = word, Tail(tx["master"]) = left
      PROVE  MasterSends(word, left, IF Len(tx["master"]) = 1 THEN AfterSend[pc["master"]] ELSE pc["master"])
    BY <1>1, <1>5 DEF SendWordDoes, MasterSends, SendsWord
<1>6. CASE pc["master"] = "SendResponse" /\ Len(tx["master"]) = 2
      /\ tx["master"] = Welcome(flag["master"])
    BY <1>1, <1>3, <1>5, <1>6, WelcomeWords
<1>7. CASE pc["master"] = "SendResponse" /\ Len(tx["master"]) = 1
      /\ tx["master"] = FieldWord(flag["master"])
    <2>1. Head(tx["master"]) = StateField(flag["master"]) /\ Tail(tx["master"]) = <<>>
        BY <1>7, WelcomeWords
    <2>2. MasterSends(StateField(flag["master"]), <<>>, "Restore")
        BY <1>4, <1>5, <1>7, <2>1
    <2> QED BY <1>1, <1>3, <1>7, <2>2
<1>8. CASE pc["master"] = "SendSync" /\ tx["master"] = SyncMessage
    BY <1>1, <1>3, <1>5, <1>8, SyncWords
<1>9. CASE pc["master"] = "SendSync" /\ tx["master"] = Left3
    BY <1>1, <1>3, <1>5, <1>9, SyncWords
<1>10. CASE pc["master"] = "SendSync" /\ tx["master"] = Left2
    BY <1>1, <1>3, <1>5, <1>10, SyncWords
<1>11. CASE pc["master"] = "SendSync" /\ tx["master"] = Left1
    BY <1>1, <1>3, <1>4, <1>5, <1>11, SyncWords
<1> QED BY <1>2, <1>6, <1>7, <1>8, <1>9, <1>10, <1>11, MidwayMeans

LEMMA SlaveWord ==
    ASSUME MessageInv, BootOwnType("slave"), Domains, SendWord("slave")
    PROVE  /\ \/ /\ pc["slave"] = "SendWelcome" /\ Len(tx["slave"]) = 2 /\ (cut' <=> cut)
                 /\ SlaveSends("welcome", FieldWord(flag["slave"]), "SendWelcome")
              \/ /\ pc["slave"] = "SendWelcome" /\ Len(tx["slave"]) = 1
                 /\ (cut' <=> cut \/ Midway("master"))
                 /\ SlaveSends(StateField(flag["slave"]), <<>>, "AwaitResponse")
              \/ /\ pc["slave"] = "SendReady" /\ (cut' <=> cut \/ Midway("master"))
                 /\ SlaveSends("ready", <<>>, "AwaitSync")
           /\ Domains'
<1>1. Domains' /\ SendWordDoes("slave", "master")
    BY SendWordFields, Members
<1>2. pc["slave"] = "SendWelcome" \/ pc["slave"] = "SendReady"
    BY <1>1 DEF SendWordDoes, Sending, SendSize, BootOwnType, Place
<1>3. cut' <=> cut \/ (Len(tx["slave"]) = 1 /\ Midway("master"))
    BY <1>1 DEF SendWordDoes
<1>4. AfterSend["SendWelcome"] = "AwaitResponse" /\ AfterSend["SendReady"] = "AwaitSync"
    BY DEF AfterSend
<1>5. ASSUME NEW word, NEW left, Head(tx["slave"]) = word, Tail(tx["slave"]) = left
      PROVE  SlaveSends(word, left, IF Len(tx["slave"]) = 1 THEN AfterSend[pc["slave"]] ELSE pc["slave"])
    BY <1>1, <1>5 DEF SendWordDoes, SlaveSends, SendsWord
<1>6. CASE pc["slave"] = "SendWelcome" /\ Len(tx["slave"]) = 2
      /\ tx["slave"] = Welcome(flag["slave"])
    <2>1. cut' <=> cut
        BY <1>3, <1>6
    <2> QED BY <1>1, <1>5, <1>6, <2>1, WelcomeWords
<1>7. CASE pc["slave"] = "SendWelcome" /\ Len(tx["slave"]) = 1
      /\ tx["slave"] = FieldWord(flag["slave"])
    <2>1. Head(tx["slave"]) = StateField(flag["slave"]) /\ Tail(tx["slave"]) = <<>>
        BY <1>7, WelcomeWords
    <2>2. SlaveSends(StateField(flag["slave"]), <<>>, "AwaitResponse")
        BY <1>4, <1>5, <1>7, <2>1
    <2> QED BY <1>1, <1>3, <1>7, <2>2
<1>8. CASE pc["slave"] = "SendReady" /\ tx["slave"] = <<"ready">>
    <2>1. Head(<<"ready">>) = "ready" /\ Tail(<<"ready">>) = <<>> /\ Len(<<"ready">>) = 1
        OBVIOUS
    <2> QED BY <1>1, <1>3, <1>4, <1>5, <1>8, <2>1
<1> QED BY <1>2, <1>6, <1>7, <1>8, MidwayMeans

(* Every part of the handshake, after the master has sent a word of its response. *)
LEMMA MasterResponds ==
    ASSUME Domains', MessageInv, pc["master"] = "SendResponse", Handshake,
           Filling("slave"), BootOwnType("slave"), flag["master"] \in BOOLEAN,
           image["master"] \in BOOLEAN, image["slave"] \in BOOLEAN,
           \/ /\ Len(tx["master"]) = 2
              /\ MasterSends("welcome", FieldWord(flag["master"]), "SendResponse")
           \/ /\ Len(tx["master"]) = 1
              /\ MasterSends(StateField(flag["master"]), <<>>, "Restore")
    PROVE  Handshake'
<1>1. /\ pc["slave"] = "AwaitResponse" /\ (flag["master"] <=> Both)
      /\ rx["slave"] = IF Len(tx["master"]) = 2 THEN <<>> ELSE WelcomeWord
      /\ pc'["slave"] = "AwaitResponse" /\ pc'["master"] \in {"SendResponse", "Restore"}
      /\ flag' = flag /\ Both' = Both
    BY Sizes DEF Handshake, RespondInv, Filling, BootOwnType, Place, MasterSends, SendsWord, Both
<1>2. RespondInv' /\ ResponseInv'
    <2>1. CASE Len(tx["master"]) = 2
          /\ MasterSends("welcome", FieldWord(flag["master"]), "SendResponse")
        <3>1. rx'["slave"] = WelcomeWord /\ Len(tx'["master"]) = 1 /\ pc'["master"] = "SendResponse"
            BY <1>1, <2>1, WelcomeWords DEF MasterSends, SendsWord
        <3> QED BY <1>1, <3>1 DEF RespondInv, ResponseInv
    <2>2. CASE Len(tx["master"]) = 1 /\ MasterSends(StateField(flag["master"]), <<>>, "Restore")
        <3>1. rx'["slave"] = Welcome(flag["master"]) /\ pc'["master"] = "Restore"
            BY <1>1, <2>2, WelcomeWords DEF MasterSends, SendsWord
        <3>2. Welcome(flag["master"]) = Welcome(Both)
            BY <1>1, WelcomeWords DEF Both
        <3>3. rx'["slave"] = Welcome(Both)'
            BY <1>1, <3>1, <3>2
        <3> QED BY <1>1, <3>1, <3>3 DEF RespondInv, ResponseInv
    <2> QED BY <2>1, <2>2
<1>3. WelcomeInv'
    BY <1>1 DEF WelcomeInv
<1>4. RestoreInv' /\ ReadyInv' /\ SyncInv'
    BY <1>1 DEF RestoreInv, ReadyInv, SyncInv, PastRestore
<1> QED BY <1>2, <1>3, <1>4 DEF Handshake

(* The same, after it has sent a word of its sync message. *)
LEMMA MasterSyncs ==
    ASSUME MessageInv, pc["master"] = "SendSync", Handshake, Filling("slave"), BootOwnType("slave"),
           \/ tx["master"] = SyncMessage /\ MasterSends("ready", Left3, "SendSync")
           \/ tx["master"] = Left3 /\ MasterSends("time", Left2, "SendSync")
           \/ tx["master"] = Left2 /\ MasterSends("time", Left1, "SendSync")
           \/ tx["master"] = Left1 /\ MasterSends("time", <<>>, "Done")
    PROVE  Handshake'
<1>1. PICK word \in {"ready", "time"} :
            /\ rx'["slave"] = Append(rx["slave"], word)
            /\ pc'["master"] \in {"SendSync", "Done"} /\ pc'["slave"] = pc["slave"]
            /\ UNCHANGED <<flag, image, restored, posted, timeBase>>
    BY DEF MasterSends, SendsWord
<1>2. rx["slave"] \in Seq(Word) /\ word \in Word
    BY DEF BootOwnType, Word
<1>3. pc["slave"] \in {"AwaitResponse", "AwaitSync"}
    BY Sizes DEF Filling, BootOwnType, Place
<1>4. WelcomeInv' /\ RespondInv' /\ RestoreInv'
    BY <1>1, <1>3 DEF WelcomeInv, RespondInv, RestoreInv
<1>5. ResponseInv'
    <2> SUFFICES ASSUME pc["slave"] = "AwaitResponse", rx'["slave"][1] = "welcome"
                 PROVE  FALSE
        BY <1>1 DEF ResponseInv
    <2>1. rx["slave"] # <<>>
        BY <1>1, FirstWord
    <2>2. rx["slave"][1] = "welcome"
        BY <1>1, <1>2, <2>1, FirstWord
    <2> QED BY <2>1, <2>2 DEF Handshake, ResponseInv
<1>6. ReadyInv'
    BY <1>1, <1>3 DEF Handshake, ReadyInv, PastRestore
<1>7. SyncInv'
    <2> SUFFICES ASSUME ~posted["slave"], pc["slave"] = "AwaitSync"
                 PROVE  \/ /\ pc'["master"] = "SendSync"
                           /\ \/ rx'["slave"] = Sent1 /\ tx'["master"] = Left3
                              \/ rx'["slave"] = Sent2 /\ tx'["master"] = Left2
                              \/ rx'["slave"] = Sent3 /\ tx'["master"] = Left1
                        \/ rx'["slave"] = SyncMessage /\ pc'["master"] = "Done"
        BY <1>1, <1>3 DEF SyncInv
    <2>1. \/ rx["slave"] = <<>> /\ tx["master"] = SyncMessage
          \/ rx["slave"] = Sent1 /\ tx["master"] = Left3
          \/ rx["slave"] = Sent2 /\ tx["master"] = Left2
          \/ rx["slave"] = Sent3 /\ tx["master"] = Left1
        BY DEF Handshake, SyncInv
    <2>2. CASE tx["master"] = SyncMessage
        <3>1. rx["slave"] = <<>> /\ MasterSends("ready", Left3, "SendSync")
            BY <2>1, <2>2, SyncWords
        <3> QED BY <3>1, SyncWords DEF MasterSends, SendsWord
    <2>3. CASE tx["master"] = Left3
        <3>1. rx["slave"] = Sent1 /\ MasterSends("time", Left2, "SendSync")
            BY <2>1, <2>3, SyncWords
        <3> QED BY <3>1, SyncWords DEF MasterSends, SendsWord
    <2>4. CASE tx["master"] = Left2
        <3>1. rx["slave"] = Sent2 /\ MasterSends("time", Left1, "SendSync")
            BY <2>1, <2>4, SyncWords
        <3> QED BY <3>1, SyncWords DEF MasterSends, SendsWord
    <2>5. CASE tx["master"] = Left1
        <3>1. rx["slave"] = Sent3 /\ MasterSends("time", <<>>, "Done")
            BY <2>1, <2>5, SyncWords
        <3> QED BY <3>1, SyncWords DEF MasterSends, SendsWord
    <2> QED BY <2>1, <2>2, <2>3, <2>4, <2>5
<1> QED BY <1>4, <1>5, <1>6, <1>7 DEF Handshake

LEMMA SendWordMasterStep ==
    ASSUME BootInv, SendWord("master")
    PROVE  MessageInv' /\ FlagInv' /\ (~cut' => Handshake')
<1>1. Domains /\ BootOwnType("master") /\ BootOwnType("slave") /\ MessageInv /\ FlagInv
    BY InvDomains, TypeParts DEF BootInv
<1>2. Domains' /\ (~cut' => ~cut /\ Filling("slave"))
    BY <1>1, MasterWord
<1>3. CASE /\ pc["master"] = "SendResponse"
           /\ \/ /\ Len(tx["master"]) = 2
                 /\ MasterSends("welcome", FieldWord(flag["master"]), "SendResponse")
              \/ /\ Len(tx["master"]) = 1
                 /\ MasterSends(StateField(flag["master"]), <<>>, "Restore")
    <2>1. MessageInv' /\ FlagInv'
        BY <1>1, <1>2, <1>3, Members DEF MessageInv, FlagInv, Domains, MasterSends, SendsWord,
           Sending, SendSize
    <2>2. ~cut' => Handshake'
        BY <1>1, <1>2, <1>3, MasterResponds, Members DEF BootInv, Domains
    <2> QED BY <2>1, <2>2
<1>4. CASE /\ pc["master"] = "SendSync"
           /\ \/ tx["master"] = SyncMessage /\ MasterSends("ready", Left3, "SendSync")
              \/ tx["master"] = Left3 /\ MasterSends("time", Left2, "SendSync")
              \/ tx["master"] = Left2 /\ MasterSends("time", Left1, "SendSync")
              \/ tx["master"] = Left1 /\ MasterSends("time", <<>>, "Done")
    <2>1. MessageInv' /\ FlagInv'
        BY <1>1, <1>2, <1>4, Members DEF MessageInv, FlagInv, Domains, MasterSends, SendsWord,
           Sending, SendSize
    <2>2. ~cut' => Handshake'
        BY <1>1, <1>2, <1>4, MasterSyncs DEF BootInv
    <2> QED BY <2>1, <2>2
<1> QED BY <1>1, <1>3, <1>4, MasterWord

LEMMA SlaveSendsWord ==
    ASSUME NEW word \in {"welcome", "restore", "fresh", "ready"}, NEW left, NEW place,
           SlaveSends(word, left, place), BootOwnType("master"),
           rx'["master"] # <<>>, rx'["master"][1] = "welcome"
    PROVE  IF rx["master"] = <<>> THEN word = "welcome" ELSE rx["master"][1] = "welcome"
<1>1. rx["master"] \in Seq(Word) /\ word \in Word
    BY DEF BootOwnType, Word
<1>2. CASE Filling("master")
    <2>1. rx'["master"] = Append(rx["master"], word)
        BY <1>2 DEF SlaveSends, SendsWord
    <2> QED BY <1>1, <2>1, FirstWord
<1>3. CASE ~Filling("master")
    BY <1>3 DEF SlaveSends, SendsWord
<1> QED BY <1>2, <1>3

(* Every part of the handshake, after the slave has sent a word. *)
LEMMA SlaveWelcomes ==
    ASSUME MessageInv, FlagInv, BootOwnType("master"), pc["slave"] = "SendWelcome", Handshake,
           Len(tx["slave"]) = 2,
           SlaveSends("welcome", FieldWord(flag["slave"]), "SendWelcome")
    PROVE  Handshake'
<1>1. /\ pc'["slave"] = "SendWelcome" /\ pc'["master"] = pc["master"]
      /\ tx'["master"] = tx["master"]
      /\ UNCHANGED <<flag, image, restored, posted, timeBase>>
    BY DEF SlaveSends, SendsWord
<1>2. WelcomeInv'
    <2> SUFFICES ASSUME pc["master"] = "AwaitWelcome", rx'["master"] # <<>>, rx'["master"][1] = "welcome"
                 PROVE  rx'["master"] = WelcomeWord /\ Len(tx'["slave"]) = 1
        BY <1>1 DEF WelcomeInv
    <2>1. rx["master"] = <<>>
        BY SlaveSendsWord DEF Handshake, WelcomeInv
    <2>2. Filling("master")
        BY <2>1, WelcomeWords DEF Filling, AwaitSize
    <2> QED BY <2>1, <2>2, WelcomeWords DEF SlaveSends, SendsWord
<1>3. RespondInv'
    BY <1>1 DEF Handshake, RespondInv, Both
<1>4. ResponseInv' /\ RestoreInv' /\ ReadyInv' /\ SyncInv'
    BY <1>1 DEF ResponseInv, RestoreInv, ReadyInv, SyncInv, PastRestore
<1> QED BY <1>2, <1>3, <1>4 DEF Handshake

LEMMA SlaveWelcomed ==
    ASSUME MessageInv, FlagInv, BootOwnType("master"), pc["slave"] = "SendWelcome", Handshake,
           Len(tx["slave"]) = 1, ~Midway("master"), flag["slave"] \in BOOLEAN,
           image["slave"] \in BOOLEAN,
           SlaveSends(StateField(flag["slave"]), <<>>, "AwaitResponse")
    PROVE  Handshake'
<1>1. /\ pc'["slave"] = "AwaitResponse" /\ pc'["master"] = pc["master"]
      /\ tx'["master"] = tx["master"]
      /\ rx'["slave"] = <<>>
      /\ UNCHANGED <<flag, image, restored, posted, timeBase>>
    BY DEF SlaveSends, SendsWord
<1>2. WelcomeInv'
    <2> SUFFICES ASSUME pc["master"] = "AwaitWelcome", rx'["master"] # <<>>, rx'["master"][1] = "welcome"
                 PROVE  rx'["master"] = Welcome(image["slave"])
        BY <1>1 DEF WelcomeInv
    <2>1. rx["master"] = WelcomeWord
        <3>1. StateField(flag["slave"]) \in {"restore", "fresh"}
            BY WelcomeWords
        <3> QED BY <3>1, SlaveSendsWord DEF Handshake, WelcomeInv
    <2>2. Filling("master")
        BY <2>1, WelcomeWords DEF Filling, AwaitSize
    <2>3. rx'["master"] = Welcome(flag["slave"])
        BY <2>1, <2>2, WelcomeWords DEF SlaveSends, SendsWord
    <2>4. Welcome(flag["slave"]) = Welcome(image["slave"])
        BY WelcomeWords DEF FlagInv
    <2> QED BY <2>3, <2>4
<1>3. RespondInv'
    <2>1. pc["master"] = "SendResponse" => Len(tx["master"]) = 2
        BY MidwayMeans
    <2> QED BY <1>1, <2>1 DEF Handshake, RespondInv, Both
<1>4. ResponseInv' /\ RestoreInv' /\ ReadyInv' /\ SyncInv'
    BY <1>1 DEF ResponseInv, RestoreInv, ReadyInv, SyncInv, PastRestore
<1> QED BY <1>2, <1>3, <1>4 DEF Handshake

LEMMA SlaveReady ==
    ASSUME MessageInv, BootOwnType("master"), pc["slave"] = "SendReady", Handshake,
           ~Midway("master"), SlaveSends("ready", <<>>, "AwaitSync")
    PROVE  Handshake'
<1>1. /\ pc'["slave"] = "AwaitSync" /\ pc'["master"] = pc["master"] /\ tx'["master"] = tx["master"]
      /\ rx'["slave"] = <<>>
      /\ UNCHANGED <<flag, image, restored, posted, timeBase>>
    BY DEF SlaveSends, SendsWord
<1>2. WelcomeInv'
    <2> SUFFICES ASSUME pc["master"] = "AwaitWelcome", rx'["master"] # <<>>, rx'["master"][1] = "welcome"
                 PROVE  FALSE
        BY <1>1 DEF WelcomeInv
    <2> QED BY SlaveSendsWord DEF Handshake, WelcomeInv
<1>3. RespondInv' /\ ResponseInv' /\ RestoreInv'
    BY <1>1 DEF Handshake, RespondInv, ResponseInv, RestoreInv
<1>4. ReadyInv'
    BY <1>1 DEF Handshake, ReadyInv, PastRestore
<1>5. SyncInv'
    <2>1. pc["master"] = "SendSync" => tx["master"] = SyncMessage
        BY MidwayMeans
    <2> QED BY <1>1, <2>1 DEF Handshake, ReadyInv, SyncInv, PastRestore
<1> QED BY <1>2, <1>3, <1>4, <1>5 DEF Handshake

LEMMA SendWordSlaveStep ==
    ASSUME BootInv, SendWord("slave")
    PROVE  MessageInv' /\ FlagInv' /\ (~cut' => Handshake')
<1>1. Domains /\ BootOwnType("master") /\ BootOwnType("slave") /\ MessageInv /\ FlagInv
    BY InvDomains, TypeParts DEF BootInv
<1>2. Domains'
    BY <1>1, SlaveWord
<1>3. CASE /\ pc["slave"] = "SendWelcome" /\ Len(tx["slave"]) = 2 /\ (cut' <=> cut)
           /\ SlaveSends("welcome", FieldWord(flag["slave"]), "SendWelcome")
    <2>1. MessageInv' /\ FlagInv'
        BY <1>1, <1>2, <1>3, Members DEF MessageInv, FlagInv, Domains, SlaveSends, SendsWord,
           Sending, SendSize, Filling, AwaitSize
    <2>2. ~cut' => Handshake'
        BY <1>1, <1>3, SlaveWelcomes DEF BootInv
    <2> QED BY <2>1, <2>2
<1>4. CASE /\ pc["slave"] = "SendWelcome" /\ Len(tx["slave"]) = 1
           /\ (cut' <=> cut \/ Midway("master"))
           /\ SlaveSends(StateField(flag["slave"]), <<>>, "AwaitResponse")
    <2>1. MessageInv' /\ FlagInv'
        BY <1>1, <1>2, <1>4, Members DEF MessageInv, FlagInv, Domains, SlaveSends, SendsWord,
           Sending, SendSize, Filling, AwaitSize
    <2>2. ~cut' => Handshake'
        BY <1>1, <1>4, SlaveWelcomed, Members DEF BootInv, Domains
    <2> QED BY <2>1, <2>2
<1>5. CASE /\ pc["slave"] = "SendReady" /\ (cut' <=> cut \/ Midway("master"))
           /\ SlaveSends("ready", <<>>, "AwaitSync")
    <2>1. MessageInv' /\ FlagInv'
        BY <1>1, <1>2, <1>5, Members DEF MessageInv, FlagInv, Domains, SlaveSends, SendsWord,
           Sending, SendSize, Filling, AwaitSize
    <2>2. ~cut' => Handshake'
        BY <1>1, <1>5, SlaveReady DEF BootInv
    <2> QED BY <2>1, <2>2
<1> QED BY <1>1, <1>3, <1>4, <1>5, SlaveWord

(* With one word of two left a processor is in the middle of its message. *)
LEMMA LastWordMidway ==
    ASSUME NEW p \in Processor, pc[p] \in {"SendWelcome", "SendResponse"}, Len(tx[p]) = 1
    PROVE  Midway(p)
<1>1. SendSize[pc[p]] = 2 /\ Sending(p)
    BY DEF SendSize, Sending
<1> QED BY <1>1 DEF Midway

LEMMA PowerUpMasterStep ==
    ASSUME BootInv, PowerUp("master")
    PROVE  MessageInv' /\ FlagInv' /\ (~cut' => Handshake')
<1>1. Domains /\ BootOwnType("master") /\ BootOwnType("slave") /\ MessageInv /\ FlagInv
    BY InvDomains, TypeParts DEF BootInv
<1>2. Domains' /\ PowerUpDoes("master", "slave")
    BY <1>1, PowerUpFields, Members
<1>3. MessageInv'
    BY <1>1, <1>2, Members, Sizes DEF PowerUpDoes, Domains, Keeps, MessageInv, Sending
<1>4. FlagInv'
    BY <1>1, <1>2 DEF PowerUpDoes, Keeps, FlagInv
<1>5. ASSUME ~cut' PROVE Handshake'
    <2>1. ~cut /\ WelcomeInv /\ RespondInv /\ ResponseInv /\ RestoreInv /\ ReadyInv /\ SyncInv
        BY <1>5, <1>2 DEF PowerUpDoes, BootInv, Handshake
    <2>2. WelcomeInv'
        BY <1>1, <1>2 DEF PowerUpDoes, WelcomeInv, MessageInv
    <2>3. RespondInv'
        BY <1>2 DEF PowerUpDoes, RespondInv
    <2>4. ResponseInv'
        BY <2>1, <1>2, WelcomeWords DEF PowerUpDoes, Keeps, ResponseInv, Filled, AwaitSize
    <2>5. RestoreInv'
        BY <1>2 DEF PowerUpDoes, RestoreInv
    <2>6. ReadyInv'
        BY <1>2 DEF PowerUpDoes, ReadyInv, PastRestore
    <2>7. SyncInv'
        BY <2>1, <1>2, SyncWords DEF PowerUpDoes, Keeps, SyncInv, Place, Filling, Filled, AwaitSize
    <2> QED BY <2>2, <2>3, <2>4, <2>5, <2>6, <2>7 DEF Handshake
<1> QED BY <1>3, <1>4, <1>5

LEMMA PowerUpSlaveStep ==
    ASSUME BootInv, PowerUp("slave")
    PROVE  MessageInv' /\ FlagInv' /\ (~cut' => Handshake')
<1>1. Domains /\ BootOwnType("master") /\ BootOwnType("slave") /\ MessageInv /\ FlagInv
    BY InvDomains, TypeParts DEF BootInv
<1>2. Domains' /\ PowerUpDoes("slave", "master")
    BY <1>1, PowerUpFields, Members
<1>3. MessageInv'
    BY <1>1, <1>2, Members, Sizes DEF PowerUpDoes, Domains, Keeps, MessageInv, Sending
<1>4. FlagInv'
    BY <1>1, <1>2 DEF PowerUpDoes, Keeps, FlagInv
<1>5. ASSUME ~cut' PROVE Handshake'
    <2>1. ~cut /\ WelcomeInv /\ RespondInv /\ ResponseInv /\ RestoreInv /\ ReadyInv /\ SyncInv
        BY <1>5, <1>2 DEF PowerUpDoes, BootInv, Handshake
    <2>2. WelcomeInv'
        BY <2>1, <1>2, WelcomeWords DEF PowerUpDoes, Keeps, WelcomeInv, Filled, AwaitSize
    <2>3. RespondInv'
        BY <2>1, <1>2 DEF PowerUpDoes, Keeps, RespondInv, Both
    <2>4. ResponseInv'
        BY <1>2 DEF PowerUpDoes, ResponseInv
    <2>5. RestoreInv'
        BY <1>2 DEF PowerUpDoes, RestoreInv
    <2>6. ReadyInv'
        BY <1>2 DEF PowerUpDoes, ReadyInv, PastRestore
    <2>7. SyncInv'
        BY <1>2 DEF PowerUpDoes, SyncInv
    <2> QED BY <2>2, <2>3, <2>4, <2>5, <2>6, <2>7 DEF Handshake
<1> QED BY <1>3, <1>4, <1>5

LEMMA TransmitFailsMasterStep ==
    ASSUME BootInv, TransmitFails("master")
    PROVE  MessageInv' /\ FlagInv' /\ (~cut' => Handshake')
<1>1. Domains /\ BootOwnType("master") /\ BootOwnType("slave") /\ MessageInv /\ FlagInv
    BY InvDomains, TypeParts DEF BootInv
<1>2. Domains' /\ TransmitFailsDoes("master", "slave")
    BY <1>1, TransmitFailsFields, Members
<1>3. MessageInv'
    BY <1>1, <1>2, Members DEF TransmitFailsDoes, Domains, Keeps, BootOwnType, MessageInv,
       Sending, Place
<1>4. FlagInv'
    BY <1>1, <1>2 DEF TransmitFailsDoes, Keeps, FlagInv
<1>5. ASSUME ~cut' PROVE Handshake'
    <2>1. ~cut /\ ~Midway("master") /\ WelcomeInv /\ RespondInv /\ ResponseInv /\ RestoreInv
          /\ ReadyInv /\ SyncInv
        BY <1>5, <1>2 DEF TransmitFailsDoes, BootInv, Handshake
    <2>2. WelcomeInv'
        BY <1>2 DEF TransmitFailsDoes, WelcomeInv
    <2>3. RespondInv'
        BY <1>2 DEF TransmitFailsDoes, RespondInv
    <2>4. ResponseInv'
        <3> SUFFICES ASSUME pc["slave"] = "AwaitResponse", rx["slave"] # <<>>, rx["slave"][1] = "welcome"
                     PROVE  FALSE
            BY <1>2 DEF TransmitFailsDoes, Keeps, ResponseInv
        <3>1. pc["master"] \notin {"Restore", "AwaitReady", "Failed", "Off"}
            BY <1>2, Sizes DEF TransmitFailsDoes, Sending
        <3>2. ~(pc["master"] = "SendResponse" /\ Len(tx["master"]) = 1)
            BY <1>2, <2>1, LastWordMidway, Members
        <3> QED BY <2>1, <3>1, <3>2 DEF ResponseInv
    <2>5. RestoreInv'
        BY <2>1, <1>2 DEF TransmitFailsDoes, Keeps, RestoreInv
    <2>6. ReadyInv'
        BY <1>1, <1>2 DEF TransmitFailsDoes, ReadyInv, BootOwnType, Place, PastRestore
    <2>7. SyncInv'
        <3>1. pc["master"] \notin {"Done", "Off"} /\ pc'["master"] = "Failed"
            BY <1>1, <1>2, Sizes DEF TransmitFailsDoes, Sending, BootOwnType, Place
        <3>2. ~posted["slave"] /\ pc["slave"] = "AwaitSync" => rx["slave"] = <<>>
            BY <1>1, <2>1, <3>1, MidwayMeans, SyncWords DEF SyncInv
        <3> QED BY <1>2, <2>1, <3>1, <3>2 DEF TransmitFailsDoes, Keeps, SyncInv
    <2> QED BY <2>2, <2>3, <2>4, <2>5, <2>6, <2>7 DEF Handshake
<1> QED BY <1>3, <1>4, <1>5

LEMMA TransmitFailsSlaveStep ==
    ASSUME BootInv, TransmitFails("slave")
    PROVE  MessageInv' /\ FlagInv' /\ (~cut' => Handshake')
<1>1. Domains /\ BootOwnType("master") /\ BootOwnType("slave") /\ MessageInv /\ FlagInv
    BY InvDomains, TypeParts DEF BootInv
<1>2. Domains' /\ TransmitFailsDoes("slave", "master")
    BY <1>1, TransmitFailsFields, Members
<1>3. MessageInv'
    BY <1>1, <1>2, Members DEF TransmitFailsDoes, Domains, Keeps, MessageInv, Sending
<1>4. FlagInv'
    BY <1>1, <1>2 DEF TransmitFailsDoes, Keeps, FlagInv
<1>5. ASSUME ~cut' PROVE Handshake'
    <2>1. ~cut /\ ~Midway("slave") /\ WelcomeInv /\ RespondInv /\ ResponseInv /\ RestoreInv
          /\ ReadyInv /\ SyncInv
        BY <1>5, <1>2 DEF TransmitFailsDoes, BootInv, Handshake
    <2>2. WelcomeInv'
        <3> SUFFICES ASSUME pc["master"] = "AwaitWelcome", rx["master"] # <<>>, rx["master"][1] = "welcome"
                     PROVE  FALSE
            BY <1>2 DEF TransmitFailsDoes, Keeps, WelcomeInv
        <3>1. pc["slave"] \notin {"Off", "AwaitResponse"}
            BY <1>2, Sizes DEF TransmitFailsDoes, Sending
        <3>2. ~(pc["slave"] = "SendWelcome" /\ Len(tx["slave"]) = 1)
            BY <2>1, LastWordMidway, Members
        <3> QED BY <2>1, <3>1, <3>2 DEF WelcomeInv
    <2>3. RespondInv'
        BY <2>1, <1>2 DEF TransmitFailsDoes, Keeps, RespondInv, Both
    <2>4. ResponseInv'
        BY <1>2 DEF TransmitFailsDoes, ResponseInv
    <2>5. RestoreInv'
        BY <1>2 DEF TransmitFailsDoes, RestoreInv
    <2>6. ReadyInv'
        BY <1>2 DEF TransmitFailsDoes, ReadyInv
    <2>7. SyncInv'
        BY <1>2 DEF TransmitFailsDoes, SyncInv
    <2> QED BY <2>2, <2>3, <2>4, <2>5, <2>6, <2>7 DEF Handshake
<1> QED BY <1>3, <1>4, <1>5

LEMMA XComWordMasterStep ==
    ASSUME BootInv, XComWord("master")
    PROVE  MessageInv' /\ FlagInv' /\ (~cut' => Handshake')
<1>1. Domains /\ BootOwnType("master") /\ BootOwnType("slave") /\ MessageInv /\ FlagInv
    BY InvDomains, TypeParts DEF BootInv
<1>2. Domains' /\ XComWordDoes("master", "slave")
    BY <1>1, XComWordFields, Members
<1>3. MessageInv'
    BY <1>1, <1>2 DEF XComWordDoes, Domains, MessageInv, Sending
<1>4. FlagInv'
    BY <1>1, <1>2 DEF XComWordDoes, FlagInv
<1>5. ASSUME ~cut' PROVE Handshake'
    <2>1. ~cut /\ WelcomeInv /\ RespondInv /\ ResponseInv /\ RestoreInv /\ ReadyInv /\ SyncInv
        BY <1>5, <1>2 DEF XComWordDoes, BootInv, Handshake
    <2>2. WelcomeInv'
        BY <1>2 DEF XComWordDoes, WelcomeInv
    <2>3. RespondInv'
        BY <1>2 DEF XComWordDoes, RespondInv
    <2>4. ResponseInv'
        BY <2>1, <1>2 DEF XComWordDoes, ResponseInv
    <2>5. RestoreInv'
        BY <2>1, <1>2 DEF XComWordDoes, RestoreInv
    <2>6. ReadyInv'
        BY <2>1, <1>2 DEF XComWordDoes, ReadyInv
    <2>7. SyncInv'
        BY <2>1, <1>2, SyncWords DEF XComWordDoes, SyncInv, Filling, AwaitSize
    <2> QED BY <2>2, <2>3, <2>4, <2>5, <2>6, <2>7 DEF Handshake
<1> QED BY <1>3, <1>4, <1>5

LEMMA XComWordSlaveStep ==
    ASSUME BootInv, XComWord("slave")
    PROVE  MessageInv' /\ FlagInv' /\ (~cut' => Handshake')
<1>1. Domains /\ BootOwnType("master") /\ BootOwnType("slave") /\ MessageInv /\ FlagInv
    BY InvDomains, TypeParts DEF BootInv
<1>2. Domains' /\ XComWordDoes("slave", "master")
    BY <1>1, XComWordFields, Members
<1>3. MessageInv'
    <2>1. pc["master"] \notin {"Off", "Restore"}
        BY <1>2, Sizes DEF XComWordDoes, Filling
    <2>2. pc' = pc /\ tx' = tx /\ flag' = flag /\ DOMAIN rx' = Processor
        BY <1>2 DEF XComWordDoes, Domains
    <2> QED BY <1>1, <2>1, <2>2 DEF MessageInv, Sending
<1>4. FlagInv'
    BY <1>1, <1>2 DEF XComWordDoes, FlagInv
<1>5. ASSUME ~cut' PROVE Handshake'
    <2>1. ~cut /\ WelcomeInv /\ RespondInv /\ ResponseInv /\ RestoreInv /\ ReadyInv /\ SyncInv
        BY <1>5, <1>2 DEF XComWordDoes, BootInv, Handshake
    <2>2. WelcomeInv'
        BY <2>1, <1>2 DEF XComWordDoes, WelcomeInv
    <2>3. RespondInv'
        BY <2>1, <1>2 DEF XComWordDoes, RespondInv
    <2>4. ResponseInv'
        BY <1>2 DEF XComWordDoes, ResponseInv
    <2>5. RestoreInv'
        BY <1>2 DEF XComWordDoes, RestoreInv
    <2>6. ReadyInv'
        BY <2>1, <1>2 DEF XComWordDoes, ReadyInv
    <2>7. SyncInv'
        BY <2>1, <1>2 DEF XComWordDoes, SyncInv
    <2> QED BY <2>2, <2>3, <2>4, <2>5, <2>6, <2>7 DEF Handshake
<1> QED BY <1>3, <1>4, <1>5

LEMMA RestartMasterStep ==
    ASSUME BootInv, Restart("master")
    PROVE  MessageInv' /\ FlagInv' /\ (~cut' => Handshake')
<1>1. Domains /\ BootOwnType("master") /\ BootOwnType("slave") /\ MessageInv /\ FlagInv
    BY InvDomains, TypeParts DEF BootInv
<1>2. Domains' /\ RestartDoes("master", "slave")
    BY <1>1, RestartFields, Members
<1>3. MessageInv'
    BY <1>1, <1>2, Members DEF RestartDoes, Domains, Keeps, MessageInv, Sending
<1>4. FlagInv'
    BY <1>1, <1>2 DEF RestartDoes, Keeps, FlagInv
<1>5. ASSUME ~cut' PROVE Handshake'
    <2>1. ~cut /\ ~Midway("master") /\ WelcomeInv /\ RespondInv /\ ResponseInv /\ RestoreInv
          /\ ReadyInv /\ SyncInv
        BY <1>5, <1>2 DEF RestartDoes, BootInv, Handshake
    <2>2. WelcomeInv'
        BY <1>2 DEF RestartDoes, WelcomeInv
    <2>3. RespondInv'
        BY <1>2 DEF RestartDoes, RespondInv
    <2>4. ResponseInv'
        <3> SUFFICES ASSUME pc["slave"] = "AwaitResponse", rx["slave"] # <<>>, rx["slave"][1] = "welcome"
                     PROVE  rx["slave"] = Welcome(Both')
            BY <1>2 DEF RestartDoes, Keeps, ResponseInv
        <3>0. ~(pc["master"] = "SendResponse" /\ Len(tx["master"]) = 1) /\ pc["master"] # "Off"
            BY <1>2, <2>1, LastWordMidway, Members DEF RestartDoes
        <3>1. rx["slave"] = Welcome(Both) /\ pc["master"] \in {"Restore", "AwaitReady", "Failed"}
            BY <2>1, <3>0 DEF ResponseInv
        <3>2. Both' = Both
            BY <1>2, <3>1 DEF RestartDoes, Keeps, Both
        <3> QED BY <3>1, <3>2
    <2>5. RestoreInv'
        BY <1>2 DEF RestartDoes, RestoreInv
    <2>6. ReadyInv'
        BY <1>2 DEF RestartDoes, ReadyInv, PastRestore
    <2>7. SyncInv'
        BY <1>1, <2>1, <1>2, SyncWords, MidwayMeans DEF RestartDoes, Keeps, SyncInv, AwaitSize
    <2> QED BY <2>2, <2>3, <2>4, <2>5, <2>6, <2>7 DEF Handshake
<1> QED BY <1>3, <1>4, <1>5

LEMMA RestartSlaveStep ==
    ASSUME BootInv, Restart("slave")
    PROVE  MessageInv' /\ FlagInv' /\ (~cut' => Handshake')
<1>1. Domains /\ BootOwnType("master") /\ BootOwnType("slave") /\ MessageInv /\ FlagInv
    BY InvDomains, TypeParts DEF BootInv
<1>2. Domains' /\ RestartDoes("slave", "master")
    BY <1>1, RestartFields, Members
<1>3. MessageInv'
    BY <1>1, <1>2, Members DEF RestartDoes, Domains, Keeps, MessageInv, Sending
<1>4. FlagInv'
    BY <1>1, <1>2 DEF RestartDoes, Keeps, FlagInv
<1>5. ASSUME ~cut' PROVE Handshake'
    <2>1. ~cut /\ ~Midway("slave") /\ WelcomeInv /\ RespondInv /\ ResponseInv /\ RestoreInv
          /\ ReadyInv /\ SyncInv
        BY <1>5, <1>2 DEF RestartDoes, BootInv, Handshake
    <2>2. WelcomeInv'
        <3> SUFFICES ASSUME pc["master"] = "AwaitWelcome", rx["master"] # <<>>, rx["master"][1] = "welcome"
                     PROVE  rx["master"] = Welcome(image'["slave"])
            BY <1>2 DEF RestartDoes, Keeps, WelcomeInv
        <3>1. ~(pc["slave"] = "SendWelcome" /\ Len(tx["slave"]) = 1) /\ pc["slave"] # "Off"
            BY <1>2, <2>1, LastWordMidway, Members DEF RestartDoes
        <3>2. rx["master"] = Welcome(image["slave"]) /\ pc["slave"] = "AwaitResponse"
            BY <2>1, <3>1 DEF WelcomeInv
        <3>3. image'["slave"] = image["slave"]
            BY <1>2, <3>2 DEF RestartDoes
        <3> QED BY <3>2, <3>3
    <2>3. RespondInv'
        BY <2>1, <1>2 DEF RestartDoes, Keeps, RespondInv, Both
    <2>4. ResponseInv'
        BY <1>2 DEF RestartDoes, ResponseInv
    <2>5. RestoreInv'
        BY <1>2 DEF RestartDoes, RestoreInv
    <2>6. ReadyInv'
        BY <1>2 DEF RestartDoes, ReadyInv, PastRestore
    <2>7. SyncInv'
        BY <1>2 DEF RestartDoes, SyncInv
    <2> QED BY <2>2, <2>3, <2>4, <2>5, <2>6, <2>7 DEF Handshake
<1> QED BY <1>3, <1>4, <1>5

LEMMA WelcomeReceivedStep ==
    ASSUME BootInv, WelcomeReceived
    PROVE  MessageInv' /\ FlagInv' /\ (~cut' => Handshake')
<1>1. Domains /\ BootOwnType("master") /\ BootOwnType("slave") /\ MessageInv /\ FlagInv
    BY InvDomains, TypeParts DEF BootInv
<1>3. MessageInv'
    BY <1>1, WelcomeReceivedFields, Members, Sizes DEF Domains, Keeps, MessageInv, Sending, Filled
<1>4. FlagInv'
    BY <1>1, WelcomeReceivedFields DEF Keeps, FlagInv
<1>5. ASSUME ~cut' PROVE Handshake'
    <2>1. ~cut /\ WelcomeInv /\ RespondInv /\ ResponseInv /\ RestoreInv /\ ReadyInv /\ SyncInv
        BY <1>1, <1>5, WelcomeReceivedFields DEF BootInv, Handshake
    <2>2. WelcomeInv'
        BY <1>1, WelcomeReceivedFields DEF WelcomeInv
    <2>3. RespondInv'
        BY <1>1, <2>1, WelcomeReceivedFields, WelcomeWords
           DEF Keeps, RespondInv, WelcomeInv, FlagInv, Both, Place, Filling, Filled, AwaitSize
    <2>4. ResponseInv'
        BY <1>1, <2>1, WelcomeReceivedFields DEF Keeps, ResponseInv, Filled
    <2>5. RestoreInv'
        BY <1>1, <2>1, WelcomeReceivedFields DEF Keeps, RestoreInv, WelcomeInv, Filled, AwaitSize
    <2>6. ReadyInv'
        BY <1>1, <2>1, WelcomeReceivedFields
           DEF Keeps, ReadyInv, WelcomeInv, Place, PastRestore, Filled, AwaitSize
    <2>7. SyncInv'
        BY <1>1, <2>1, WelcomeReceivedFields
           DEF Keeps, SyncInv, Both, Place, PastRestore, Sending, Filling, Filled, AwaitSize
    <2> QED BY <2>2, <2>3, <2>4, <2>5, <2>6, <2>7 DEF Handshake
<1> QED BY <1>3, <1>4, <1>5

LEMMA ResponseReceivedStep ==
    ASSUME BootInv, ResponseReceived
    PROVE  MessageInv' /\ FlagInv' /\ (~cut' => Handshake')
<1>1. Domains /\ BootOwnType("master") /\ BootOwnType("slave") /\ MessageInv /\ FlagInv
    BY InvDomains, TypeParts DEF BootInv
<1>3. MessageInv'
    BY <1>1, ResponseReceivedFields, Members, Sizes DEF Domains, Keeps, MessageInv, Sending, Filled
<1>4. FlagInv'
    BY <1>1, ResponseReceivedFields DEF Keeps, FlagInv
<1>5. ASSUME ~cut' PROVE Handshake'
    <2>1. ~cut /\ WelcomeInv /\ RespondInv /\ ResponseInv /\ RestoreInv /\ ReadyInv /\ SyncInv
        BY <1>1, <1>5, ResponseReceivedFields DEF BootInv, Handshake
    <2>2. WelcomeInv'
        BY <1>1, <2>1, ResponseReceivedFields DEF Keeps, WelcomeInv, Filled, AwaitSize
    <2>3. RespondInv'
        BY <1>1, <2>1, ResponseReceivedFields, WelcomeWords DEF Keeps, RespondInv, Filled, AwaitSize
    <2>4. ResponseInv'
        BY <1>1, ResponseReceivedFields DEF ResponseInv
    <2>5. RestoreInv'
        BY <1>1, <2>1, ResponseReceivedFields, WelcomeWords, Members
           DEF Domains, Keeps, RestoreInv, ResponseInv, FlagInv, Both, Filled, AwaitSize
    <2>6. ReadyInv'
        BY <1>1, ResponseReceivedFields DEF ReadyInv, PastRestore
    <2>7. SyncInv'
        BY <1>1, ResponseReceivedFields DEF SyncInv
    <2> QED BY <2>2, <2>3, <2>4, <2>5, <2>6, <2>7 DEF Handshake
<1> QED BY <1>3, <1>4, <1>5

LEMMA RestoreMasterStep ==
    ASSUME BootInv, RestoreMaster
    PROVE  MessageInv' /\ FlagInv' /\ (~cut' => Handshake')
<1>1. Domains /\ BootOwnType("master") /\ BootOwnType("slave") /\ MessageInv /\ FlagInv
    BY InvDomains, TypeParts DEF BootInv
<1>3. MessageInv'
    BY <1>1, RestoreMasterFields, Members, Sizes DEF Domains, Keeps, MessageInv, Sending
<1>4. FlagInv'
    BY <1>1, RestoreMasterFields DEF Keeps, FlagInv
<1>5. ASSUME ~cut' PROVE Handshake'
    <2>1. ~cut /\ WelcomeInv /\ RespondInv /\ ResponseInv /\ RestoreInv /\ ReadyInv /\ SyncInv
        BY <1>1, <1>5, RestoreMasterFields DEF BootInv, Handshake
    <2>2. WelcomeInv'
        BY <1>1, RestoreMasterFields DEF WelcomeInv
    <2>3. RespondInv'
        BY <1>1, RestoreMasterFields DEF RespondInv
    <2>4. ResponseInv'
        BY <1>1, <2>1, RestoreMasterFields DEF Keeps, ResponseInv, MessageInv, Both
    <2>5. RestoreInv'
        BY <1>1, <2>1, RestoreMasterFields DEF Keeps, RestoreInv, MessageInv
    <2>6. ReadyInv'
        BY <1>1, <2>1, RestoreMasterFields DEF Keeps, ReadyInv
    <2>7. SyncInv'
        BY <1>1, <2>1, RestoreMasterFields DEF Keeps, SyncInv
    <2> QED BY <2>2, <2>3, <2>4, <2>5, <2>6, <2>7 DEF Handshake
<1> QED BY <1>3, <1>4, <1>5

LEMMA RestoreSlaveStep ==
    ASSUME BootInv, RestoreSlave
    PROVE  MessageInv' /\ FlagInv' /\ (~cut' => Handshake')
<1>1. Domains /\ BootOwnType("master") /\ BootOwnType("slave") /\ MessageInv /\ FlagInv
    BY InvDomains, TypeParts DEF BootInv
<1>3. MessageInv'
    BY <1>1, RestoreSlaveFields, Members, Sizes DEF Domains, Keeps, MessageInv, Sending
<1>4. FlagInv'
    BY <1>1, RestoreSlaveFields DEF Keeps, FlagInv
<1>5. ASSUME ~cut' PROVE Handshake'
    <2>1. ~cut /\ WelcomeInv /\ RespondInv /\ ResponseInv /\ RestoreInv /\ ReadyInv /\ SyncInv
        BY <1>1, <1>5, RestoreSlaveFields DEF BootInv, Handshake
    <2>2. WelcomeInv'
        BY <1>1, <2>1, RestoreSlaveFields DEF Keeps, WelcomeInv
    <2>3. RespondInv'
        BY <1>1, RestoreSlaveFields DEF Keeps, RespondInv
    <2>4. ResponseInv'
        BY <1>1, RestoreSlaveFields DEF ResponseInv
    <2>5. RestoreInv'
        BY <1>1, RestoreSlaveFields DEF RestoreInv
    <2>6. ReadyInv'
        BY <1>1, <2>1, RestoreSlaveFields DEF Keeps, ReadyInv, RestoreInv, PastRestore
    <2>7. SyncInv'
        BY <1>1, RestoreSlaveFields DEF SyncInv
    <2> QED BY <2>2, <2>3, <2>4, <2>5, <2>6, <2>7 DEF Handshake
<1> QED BY <1>3, <1>4, <1>5

LEMMA ReadyReceivedStep ==
    ASSUME BootInv, ReadyReceived
    PROVE  MessageInv' /\ FlagInv' /\ (~cut' => Handshake')
<1>1. Domains /\ BootOwnType("master") /\ BootOwnType("slave") /\ MessageInv /\ FlagInv
    BY InvDomains, TypeParts DEF BootInv
<1>3. MessageInv'
    BY <1>1, ReadyReceivedFields, Members, Sizes DEF Domains, Keeps, MessageInv, Sending, Filled
<1>4. FlagInv'
    BY <1>1, ReadyReceivedFields DEF Keeps, FlagInv
<1>5. ASSUME ~cut' PROVE Handshake'
    <2>1. ~cut /\ WelcomeInv /\ RespondInv /\ ResponseInv /\ RestoreInv /\ ReadyInv /\ SyncInv
        BY <1>1, <1>5, ReadyReceivedFields DEF BootInv, Handshake
    <2>2. WelcomeInv'
        BY <1>1, ReadyReceivedFields DEF WelcomeInv
    <2>3. RespondInv'
        BY <1>1, ReadyReceivedFields DEF RespondInv
    <2>4. ResponseInv'
        BY <1>1, <2>1, ReadyReceivedFields DEF Keeps, ResponseInv, Both, Place, Filled, AwaitSize
    <2>5. RestoreInv'
        <3>1. pc["master"] = "AwaitReady" /\ rx["master"] # <<>>
            BY <1>1, ReadyReceivedFields DEF Filled, AwaitSize
        <3>2. pc["slave"] # "Restore" \/ posted["slave"]
            BY <2>1, <3>1 DEF RestoreInv
        <3> QED BY <1>1, <3>2, ReadyReceivedFields DEF Keeps, RestoreInv
    <2>6. ReadyInv'
        BY <1>1, <2>1, ReadyReceivedFields DEF Keeps, ReadyInv, PastRestore, Filled, AwaitSize
    <2>7. SyncInv'
        BY <1>1, <2>1, ReadyReceivedFields DEF Keeps, SyncInv, Filled
    <2> QED BY <2>2, <2>3, <2>4, <2>5, <2>6, <2>7 DEF Handshake
<1> QED BY <1>3, <1>4, <1>5

LEMMA SyncInterruptStep ==
    ASSUME BootInv, SyncInterrupt
    PROVE  MessageInv' /\ FlagInv' /\ (~cut' => Handshake')
<1>1. Domains /\ BootOwnType("master") /\ BootOwnType("slave") /\ MessageInv /\ FlagInv
    BY InvDomains, TypeParts DEF BootInv
<1>3. MessageInv'
    BY <1>1, SyncInterruptFields, Members, Sizes DEF Domains, Keeps, MessageInv, Sending
<1>4. FlagInv'
    BY <1>1, SyncInterruptFields DEF Keeps, FlagInv
<1>5. ASSUME ~cut' PROVE Handshake'
    <2>1. ~cut /\ WelcomeInv /\ RespondInv /\ ResponseInv /\ RestoreInv /\ ReadyInv /\ SyncInv
        BY <1>1, <1>5, SyncInterruptFields DEF BootInv, Handshake
    <2>2. WelcomeInv'
        BY <1>1, SyncInterruptFields DEF WelcomeInv
    <2>3. RespondInv'
        BY <1>1, SyncInterruptFields DEF RespondInv
    <2>4. ResponseInv'
        BY <1>1, <2>1, SyncInterruptFields DEF Keeps, ResponseInv
    <2>5. RestoreInv'
        BY <1>1, <2>1, SyncInterruptFields DEF Keeps, RestoreInv
    <2>6. ReadyInv'
        BY <1>1, <2>1, SyncInterruptFields DEF Keeps, ReadyInv, PastRestore
    <2>7. SyncInv'
        BY <1>1, <2>1, SyncInterruptFields DEF Keeps, SyncInv
    <2> QED BY <2>2, <2>3, <2>4, <2>5, <2>6, <2>7 DEF Handshake
<1> QED BY <1>3, <1>4, <1>5

LEMMA SyncReceivedStep ==
    ASSUME BootInv, SyncReceived
    PROVE  MessageInv' /\ FlagInv' /\ (~cut' => Handshake')
<1>1. Domains /\ BootOwnType("master") /\ BootOwnType("slave") /\ MessageInv /\ FlagInv
    BY InvDomains, TypeParts DEF BootInv
<1>3. MessageInv'
    BY <1>1, SyncReceivedFields, Members, Sizes DEF Domains, Keeps, MessageInv, Sending, Filled
<1>4. FlagInv'
    BY <1>1, SyncReceivedFields DEF Keeps, FlagInv
<1>5. ASSUME ~cut' PROVE Handshake'
    <2>1. ~cut /\ WelcomeInv /\ RespondInv /\ ResponseInv /\ RestoreInv /\ ReadyInv /\ SyncInv
        BY <1>1, <1>5, SyncReceivedFields DEF BootInv, Handshake
    <2>2. WelcomeInv'
        BY <1>1, <2>1, SyncReceivedFields DEF Keeps, WelcomeInv, Filled
    <2>3. RespondInv'
        BY <1>1, <2>1, SyncReceivedFields DEF Keeps, RespondInv, Filled
    <2>4. ResponseInv'
        BY <1>1, SyncReceivedFields DEF ResponseInv
    <2>5. RestoreInv'
        BY <1>1, SyncReceivedFields DEF RestoreInv
    <2>6. ReadyInv'
        BY <1>1, <2>1, SyncReceivedFields DEF Keeps, ReadyInv, PastRestore, Filled, AwaitSize
    <2>7. SyncInv'
        <3>1. pc["slave"] = "AwaitSync" /\ Len(rx["slave"]) = 4
            BY <1>1, SyncReceivedFields DEF Filled, AwaitSize
        <3>2. ~posted["slave"] => rx["slave"] = SyncMessage
            BY <2>1, <3>1, SyncWords DEF SyncInv
        <3> QED BY <1>1, <3>2, SyncReceivedFields, SyncWords DEF SyncInv
    <2> QED BY <2>2, <2>3, <2>4, <2>5, <2>6, <2>7 DEF Handshake
<1> QED BY <1>3, <1>4, <1>5

LEMMA ResponseTimeoutStep ==
    ASSUME BootInv, ResponseTimeout
    PROVE  MessageInv' /\ FlagInv' /\ (~cut' => Handshake')
<1>1. Domains /\ BootOwnType("master") /\ BootOwnType("slave") /\ MessageInv /\ FlagInv
    BY InvDomains, TypeParts DEF BootInv
<1>3. MessageInv'
    BY <1>1, ResponseTimeoutFields, Members, Sizes DEF Domains, Keeps, MessageInv, Sending
<1>4. FlagInv'
    BY <1>1, ResponseTimeoutFields DEF Keeps, FlagInv
<1>5. ASSUME ~cut' PROVE Handshake'
    <2>1. ~cut /\ WelcomeInv /\ RespondInv /\ ResponseInv /\ RestoreInv /\ ReadyInv /\ SyncInv
        BY <1>1, <1>5, ResponseTimeoutFields DEF BootInv, Handshake
    <2>2. WelcomeInv'
        BY <1>1, <2>1, ResponseTimeoutFields, WelcomeWords DEF Keeps, WelcomeInv, Filled, AwaitSize
    <2>3. RespondInv'
        BY <1>1, ResponseTimeoutFields DEF Keeps, RespondInv
    <2>4. ResponseInv'
        BY <1>1, ResponseTimeoutFields DEF ResponseInv
    <2>5. RestoreInv'
        BY <1>1, ResponseTimeoutFields DEF RestoreInv
    <2>6. ReadyInv'
        BY <1>1, ResponseTimeoutFields DEF ReadyInv, PastRestore
    <2>7. SyncInv'
        BY <1>1, ResponseTimeoutFields DEF SyncInv
    <2> QED BY <2>2, <2>3, <2>4, <2>5, <2>6, <2>7 DEF Handshake
<1> QED BY <1>3, <1>4, <1>5

LEMMA SyncTimeoutStep ==
    ASSUME BootInv, SyncTimeout
    PROVE  MessageInv' /\ FlagInv' /\ (~cut' => Handshake')
<1>1. Domains /\ BootOwnType("master") /\ BootOwnType("slave") /\ MessageInv /\ FlagInv
    BY InvDomains, TypeParts DEF BootInv
<1>3. MessageInv'
    BY <1>1, SyncTimeoutFields, Members, Sizes DEF Domains, Keeps, MessageInv, Sending
<1>4. FlagInv'
    BY <1>1, SyncTimeoutFields DEF Keeps, FlagInv
<1>5. ASSUME ~cut' PROVE Handshake'
    <2>1. ~cut /\ WelcomeInv /\ RespondInv /\ ResponseInv /\ RestoreInv /\ ReadyInv /\ SyncInv
        BY <1>1, <1>5, SyncTimeoutFields DEF BootInv, Handshake
    <2>2. WelcomeInv'
        BY <1>1, <2>1, SyncTimeoutFields DEF Keeps, WelcomeInv, Place
    <2>3. RespondInv'
        BY <1>1, <2>1, SyncTimeoutFields DEF Keeps, RespondInv
    <2>4. ResponseInv'
        BY <1>1, SyncTimeoutFields DEF ResponseInv
    <2>5. RestoreInv'
        BY <1>1, SyncTimeoutFields DEF RestoreInv
    <2>6. ReadyInv'
        BY <1>1, <2>1, SyncTimeoutFields, SyncWords
           DEF Keeps, ReadyInv, SyncInv, Place, PastRestore, Filling, AwaitSize
    <2>7. SyncInv'
        BY <1>1, SyncTimeoutFields DEF SyncInv
    <2> QED BY <2>2, <2>3, <2>4, <2>5, <2>6, <2>7 DEF Handshake
<1> QED BY <1>3, <1>4, <1>5

LEMMA PingTimeoutStep ==
    ASSUME BootInv, PingTimeout
    PROVE  MessageInv' /\ FlagInv' /\ (~cut' => Handshake')
<1>1. Domains /\ BootOwnType("master") /\ BootOwnType("slave") /\ MessageInv /\ FlagInv
    BY InvDomains, TypeParts DEF BootInv
<1>3. MessageInv'
    BY <1>1, PingTimeoutFields, Members, Sizes DEF Domains, Keeps, MessageInv, Sending
<1>4. FlagInv'
    BY <1>1, PingTimeoutFields DEF Keeps, FlagInv
<1>5. ASSUME ~cut' PROVE Handshake'
    <2>1. ~cut /\ WelcomeInv /\ RespondInv /\ ResponseInv /\ RestoreInv /\ ReadyInv /\ SyncInv
        BY <1>1, <1>5, PingTimeoutFields DEF BootInv, Handshake
    <2>2. WelcomeInv'
        BY <1>1, PingTimeoutFields DEF WelcomeInv
    <2>3. RespondInv'
        BY <1>1, PingTimeoutFields DEF RespondInv
    <2>4. ResponseInv'
        BY <1>1, <2>1, PingTimeoutFields DEF Keeps, ResponseInv, Both
    <2>5. RestoreInv'
        BY <1>1, PingTimeoutFields DEF RestoreInv
    <2>6. ReadyInv'
        BY <1>1, PingTimeoutFields DEF ReadyInv, PastRestore
    <2>7. SyncInv'
        BY <1>1, <2>1, PingTimeoutFields DEF Keeps, SyncInv
    <2> QED BY <2>2, <2>3, <2>4, <2>5, <2>6, <2>7 DEF Handshake
<1> QED BY <1>3, <1>4, <1>5


(* The invariant holds at first ... *)
LEMMA InitBootInv ==
    BootInit => BootInv
<1> SUFFICES ASSUME BootInit PROVE BootInv
    OBVIOUS
<1>1. /\ \A p \in Processor : pc[p] = "Off" /\ tx[p] = <<>> /\ rx[p] = <<>>
      /\ DOMAIN pc = Processor /\ DOMAIN tx = Processor /\ DOMAIN rx = Processor
      /\ image \in [Processor -> BOOLEAN]
    BY DEF BootInit
<1>2. BootTypeOK
    <2>1. "Off" \in Place["master"] /\ "Off" \in Place["slave"]
          /\ "Off" \notin DOMAIN SendSize \cup DOMAIN AwaitSize
        BY Sizes DEF Place
    <2>2. BootOwnType("master") /\ BootOwnType("slave")
        BY <1>1, <2>1, WordTypes, Members DEF BootOwnType, Sending
    <2>3. /\ flag \in [Processor -> BOOLEAN] /\ restored \in [Processor -> BOOLEAN]
          /\ posted \in [Processor -> BOOLEAN] /\ timeBase = OwnTime /\ cut \in BOOLEAN /\ restarts = 0
        BY DEF BootInit
    <2>4. 0 \in 0..MaxRestarts
        BY RestartsAssumption
    <2> QED BY <1>1, <2>2, <2>3, <2>4, TypeParts
<1>3. MessageInv
    BY <1>1, Members DEF MessageInv
<1>4. FlagInv
    BY <1>1, Members DEF FlagInv
<1>5. Handshake
    BY <1>1, Members
       DEF Handshake, WelcomeInv, RespondInv, ResponseInv, RestoreInv, ReadyInv, SyncInv,
           PastRestore
<1> QED BY <1>2, <1>3, <1>4, <1>5 DEF BootInv

(* ... and every step preserves it.                                        *)
LEMMA NextBootInv ==
    BootInv /\ [BootNext]_bootVars => BootInv'
<1> SUFFICES ASSUME BootInv, [BootNext]_bootVars PROVE BootInv'
    OBVIOUS
<1>1. CASE \E p \in Processor : Local(p)
    <2> PICK p \in Processor : Local(p)
        BY <1>1
    <2>1. BootTypeOK'
        BY LocalType
    <2>2. MessageInv' /\ FlagInv' /\ (~cut' => Handshake')
        BY Members, PowerUpMasterStep, PowerUpSlaveStep, TransmitFailsMasterStep,
           TransmitFailsSlaveStep, RestartMasterStep, RestartSlaveStep, WelcomeReceivedStep,
           ResponseReceivedStep, RestoreMasterStep, RestoreSlaveStep, ReadyReceivedStep,
           SyncInterruptStep, SyncReceivedStep, ResponseTimeoutStep, SyncTimeoutStep,
           PingTimeoutStep
           DEF Local
    <2> QED BY <2>1, <2>2 DEF BootInv
<1>2. CASE \E p \in Processor : SendWord(p)
    BY <1>2, Members, SendWordType, SendWordMasterStep, SendWordSlaveStep DEF BootInv
<1>3. CASE \E p \in Processor : XComWord(p)
    BY <1>3, Members, XComWordType, XComWordMasterStep, XComWordSlaveStep DEF BootInv
<1>4. CASE UNCHANGED bootVars
    <2>1. UNCHANGED <<pc, image, flag, restored, tx, rx, timeBase, posted, cut, restarts>>
        BY <1>4 DEF bootVars
    <2>2. BootTypeOK'
        BY <2>1 DEF BootInv, BootTypeOK, Sending
    <2>3. MessageInv' /\ FlagInv'
        BY <2>1 DEF BootInv, MessageInv, FlagInv, Sending
    <2>4. ~cut' => Handshake'
        BY <2>1
           DEF BootInv, Handshake, WelcomeInv, RespondInv, ResponseInv, RestoreInv, ReadyInv,
               SyncInv, Both
    <2> QED BY <2>2, <2>3, <2>4 DEF BootInv
<1> QED BY <1>1, <1>2, <1>3, <1>4, Members DEF BootNext, Local, Master, Slave

LEMMA BootInvariant == BootSpec => []BootInv
BY InitBootInv, NextBootInv, PTL DEF BootSpec

(* Whatever the two processors send, receive or lose, no buffer of         *)
(* upserial_receiveBlock takes more words than its message has, and a      *)
(* processor has words left to send exactly while it transmits.            *)
THEOREM BootTypeCorrect == BootSpec => []BootTypeOK
<1>1. BootInv => BootTypeOK
    BY DEF BootInv
<1> QED BY <1>1, BootInvariant, PTL

(* hands_verifySnStateField on both sides comes to the same decision: with *)
(* any number of resets, repeated welcome messages and frames of a peer in *)
(* operation, both processors restore their SOD or neither does, unless a  *)
(* message was cut or the slave could not send.                            *)
THEOREM RestoreAgreedCorrect == BootSpec => []RestoreAgreed
<1>1. BootInv => RestoreAgreed
    <2> SUFFICES ASSUME BootInv, ~cut, \A p \in Processor : ~posted[p] /\ pc[p] \in PastRestore[p]
                 PROVE  restored["master"] = restored["slave"]
        BY DEF RestoreAgreed
    <2>1. restored["master"] <=> restored["slave"]
        BY Members DEF BootInv, Handshake, ReadyInv
    <2>2. restored["master"] \in BOOLEAN /\ restored["slave"] \in BOOLEAN
        BY InvDomains, Members DEF Domains
    <2> QED BY <2>1, <2>2
<1> QED BY <1>1, BootInvariant, PTL

(* The header of a sync message is never checked (sync-sl.c), and still    *)
(* what a slave that has booted took for its time is the master's time.    *)
THEOREM TimeFromMasterCorrect == BootSpec => []TimeFromMaster
<1>1. BootInv => TimeFromMaster
    BY DEF BootInv, Handshake, SyncInv, TimeFromMaster
<1> QED BY <1>1, BootInvariant, PTL

=============================================================================
