# Verification of the openSAFETY demo

This directory holds TLA+ models of the safety node demo in `../src`, the TLC
configurations that check them on small instances, and TLAPS proofs about them
for every value of the constants. Paths below are relative to `src/`; `AP/`
stands for `app/demo-sn-gpio/` and `BC/` for `blackchannel/POWERLINK/`.

Run, in this directory:

    tlc -workers 2 -config MCFifo.cfg MCFifo.tla      # any MC module and its cfg
    tlapm MemoryProofs.tla                            # any *Proofs module

`PROJECT.json` lists components, runs, faulty variants ("mutants") that each
property must detect, the source lines of every definition, findings, hazards
and theorems.

## 1. The system

A safety node consists of a *PCP* (POWERLINK communication processor, a soft
core in an FPGA, not safety related, "black channel") and one or two *APs*
(application processors, microcontrollers running the openSAFETY stack: "SN").
They exchange images over SPI. In a redundant node the two APs, uP-Master and
uP-Slave, compute every frame twice and compare over a UART.

    SDO/PDO network
        |
      PCP: openPOWERLINK stack
        |  background loop + sync interrupt (pcp/psi/*.c)
      triple buffers in the FPGA (tripleBuffer/*.vhd), SPI bridge
        |  SPI, one transfer per cycle, started by the sync interrupt of the AP
      AP: libs/psi/*.c  ->  shnf/*.c  ->  openSAFETY stack  ->  sapl/*.c
        |  UART (xcom, boot), redundant nodes only
      other AP

### Who runs when

- **AP**: the sync interrupt (status processing, `syncCycle`, start of the SPI
  DMA), the interrupt of the finished transfer (received SPDOs, outputs, then
  *one* of the tasks Shnf, Sapl, State in turn, then transmission), the serial
  interrupt (xcom), and the background loop `processAsync` of `main.c`
  (errors, shutdown flag, storing of a parameter set, cycle monitoring), which
  all of them preempt. The interrupts that do the work have one priority.
- **PCP**: the sync interrupt (publishes and takes images, runs the receive
  halves of the channels) preempts the background loop (openPOWERLINK stack,
  transmit halves); an error ends the loop.
- **FPGA**: both ports of a triple buffer may be accessed at the same clock
  edge.

### Inventory

| Component (source) | State | Operations | Works with | Hard | Correct when |
|---|---|---|---|---|---|
| Triple buffer core (`tripleLogicRtl.vhd`, `tripleBufferRtl.vhd`, `pcp/psi/tbuf.c`) | per channel: memory of producer, of consumer, latest | acknowledge on either port, write | AP and PCP channels | simultaneous acknowledges | ownership is exclusive; the consumer gets the latest whole image |
| Element FIFO (`pcp/psi/fifo.c`) | slots, positions, UINT8 counters | create, insert, get, flush | SSDO receive, log channels | wrap of counters and positions, limit | elements come out whole and in order |
| SSDO transmit (`libs/psi/ssdo.c`, `pcp/psi/tssdo.c`) | sequence number, lock, timer; state machine | post, acknowledge, timeout; take, ARP retry, send, acknowledge | triple buffers, xcom, openPOWERLINK | late acknowledge against timeout, torn image, pointer into an image | every frame taken once, in order, whole; channel never locked for ever |
| SSDO receive (`pcp/psi/rssdo.c`, `libs/psi/ssdo.c`) | FIFO, sequence number, timer; flag | write access, forward, timeout; take, busy, acknowledge | FIFO, triple buffers, openSAFETY stack | timeout against acknowledge, long processing | every forwarded frame reaches the stack, in order, and again only if it answered OK at once |
| Parameter set (`AP/sapl/sapl.c`, `sodstore.c`, `parameterset.c`) | task bits, parser, flash image | download, parse, check sum, store, restore | openSAFETY stack, flash, boot | loss of power, interrupt against loop | only whole images of parsed sets are restored; Operational only with a parsed set |
| Safety node firmware (`AP/main.c`, `statehandler.c`, `cyclemon.c`, `errorhandler.c`, `sapl/app.c`) | node state, request flags, monitoring state, outputs | loop, sync cycle, tasks, reset, shutdown | all of the AP | interrupts in the middle of a reset | outputs off after a fatal error or a loss of the cycle; state of node and stack agree |
| Start of a redundant node (`AP/boot/*.c`, `upserial.c`) | place in the handshake, restore flag, buffers | welcome/response, ready/sync, timeouts | parameter set, constime | no flow control, resets of one side, order of power-up | both restore or neither; common time; both boot |
| Cross communication (`AP/shnf/xcom*.c`, `shnftx-dual.c`) | images, wait flag | post, send, compare, merge | shnf, SSDO transmit | late, lost, early images | two APs in step are never stopped; no AP goes on alone |
| Consecutive time and cycle monitoring (`AP/shnf/constime.c`, `AP/cyclemon.c`, `verifyTime` of `xcom.c`) | 64-bit time base over 16-bit ticks, consecutive time and unit; state, time stamp and cycle time of the monitoring | process, average, object write; measure, look of the loop | boot, xcom, safety node | two wraps, loss of interrupts, a loop that looks too seldom | the base is true, the consecutive time makes no step but forward (modulo its 32 bits); a late interrupt, and only a late one, is noticed in time |
| Parameter check sums (`AP/sapl/parametercrc.c`) | object in progress, CRC entries of 512 bytes | request, process | sapl, stack | requests and sets in the middle of a calculation, the task bits shared with the loop, a block that is exactly full | the answer belongs to the request and is exact; the calculation ends |
| Configuration channel (`libs/psi/cc.c`, `ccobject.c`, `pcp/psi/icc.c`, `occ.c`) | object lists, pointers | write, forward, resynchronise | triple buffers | both sides write | both lists become equal |
| Logbook (`AP/errorhandler.c`, `libs/psi/logbook.c`, `pcp/psi/logbook.c`) | as SSDO transmit, and the place of a post that is under way; entry numbers | post (loop and interrupts), take, format, ARP retry, send | triple buffers, openPOWERLINK | an interrupt that posts inside a post of the loop; late acknowledge | accepted entries are taken whole, once and in order, and sent as taken |
| Status, stream, PDO, PCP loop | images, flags | copy, callbacks | all | order of callbacks | see the channels |
| Drivers, SPI bridge | registers | transfers | all | timing | outside the models |
| openSAFETY, openPOWERLINK | (submodules, not in the repository) | callbacks | all | | environment |

`PROJECT.json` has the same list with its status, and under `hazards` what is
hard to test, at its line, with the properties that cover it.

## 2. Modules

| Module | Models | Checked by | Proved in |
|---|---|---|---|
| `LatestValue` | abstract channel: publish an image, take the latest one | through `TripleBuffer` | `MemoryProofs` |
| `TripleBuffer` | the VHDL core; implements `LatestValue` (`ImplementsLatestValue`) | run `triple_buffer` | `MemoryProofs` |
| `StopAndWait` | abstract channel: post a message, take it, finish it, be free again | through `SsdoTx`, `SsdoRx`, `Logbook` | `SsdoTxProofs`, `SsdoRxProofs`, `LogbookProofs` |
| `Fifo` | `fifo.c`, with the queue it implements as history | `fifo` | `MemoryProofs` |
| `SsdoTx` | both halves of the transmit channel; single and redundant node; implements `StopAndWait` | `ssdo_tx` | `SsdoTxProofs` |
| `SsdoRx` | both halves of the receive channel; implements `StopAndWait` | `ssdo_rx` | `SsdoRxProofs` |
| `ParameterSet` | `sapl.c`, `sodstore.c`, parser result, flash, loss of power | `parameter_set`, `parameter_set_lost` | `ParameterProofs` |
| `SafetyNode` | loop and interrupts of the AP | `safety_node` | `SafetyNodeProofs` |
| `DualChannel` | the two APs of a redundant node, for the next two | | |
| `Boot` | `initXCom` of both APs | `boot` | `RedundantProofs` |
| `XCom` | the cyclic exchange of both APs | `xcom` | `RedundantProofs` |
| `Logbook` | an error from its post to the network; implements `StopAndWait` | `logbook` | `LogbookProofs` |
| `SyncCycle` | `constime.c`, `cyclemon.c` and the average of `verifyTime`, in numbers | `sync_cycle` | `SyncCycleProofs` |
| `ParameterCrc` | the check sums over the object dictionary | `parameter_crc` | `ParameterProofs` |

Composition by interface: `SsdoTx` and `SsdoRx` use triple buffers as the channels
of `LatestValue`, which `MemoryProofs` shows the core to implement; `SsdoRx` uses
the FIFO as the queue of `MemoryProofs` (its bound of frames is the number of
slots). These two and `Logbook` are one protocol, written three times in the code
and with a different sender each time: `ImplementsStopAndWait` of each says what all
of them promise until a timeout. `SafetyNode` takes the result of storing a set as a
choice, which `ParameterSet` details; `Boot` ends where `XCom` begins. What
`SafetyNode` calls a late cycle is the comparison of `SyncCycle`; the CRC task of
`ParameterSet` is one step that `ParameterCrc` details; `Logbook` shares the
transfer of `SsdoTx` and its place in the cycle.

### State and actions

**TripleBuffer.** `reg[i]` are the three select registers of channel `i`
(`tReg`), `mem` the memories. `ClockEdge(a, b)` is one edge with an access `a`
at port A and `b` at port B, computed by `comProc` exactly as the process of
that name, the exclusive or included. `Write` is a write through a port.

**Fifo.** `fifo_insertElement`, `fifo_getElement`, `fifo_flush`, one action per
function; `q` is the history of accepted and not yet delivered elements.

**SsdoTx.** `ap` is `eSsdoInstance` with its image, `pcp` the instance of
`tssdo.c`. `SyncIr`, `SendSeqNr`, `SendPayload` are the SPI transfer, which
reads the sequence number before the payload; `TransferFinished` is the
interrupt with all its calls (acknowledge, timeout, task of this cycle, post);
`SerialReceived` posts the frame of a redundant node. On the PCP `SyncCb` is
the sync interrupt, the others are the states of the transmit state machine.

**StopAndWait.** `phase` is where the one message is: not there, posted, taken,
done; "broken" is what follows a timeout, of which it promises nothing. `taken` is
what the receiver got. With `Again` the receiver may look at a message and leave it
where it is (`TakeAndLeave`), as the receive channel does when the stack answers OK.
Each channel module ends with its `ChannelPhase`: a message is posted while its
number is new to the receiver, taken when the receiver has the number, done when its
acknowledge flag has it, and the channel is free when the sender says so, which sees
the flag only after several copies.

**SsdoRx.** `obdAccessCb` is the write access, `processReceiveSm` and
`processTimer` the halves of `rssdo_process` between which the sync interrupt
`SyncCb` can come; on the AP `TransferFinished(answer)` with the answer of the
stack: ignored, OK, busy or an error for an incoming frame (`handleRxFrame`), OK or
not for one the stack is busy with (`continueRxFrame`). OK for an incoming frame
leaves it incoming, and the next Shnf task hands it over again; `kept` records it.

**ParameterSet.** The callbacks (`Download`, `CalcParamChkSum`,
`SwitchToOpReq`) and the tasks (`ParseEnds`, `CrcEnds`) are interrupts; the loop
goes in steps (`CheckTasks`, `LoadArguments`, `StoreInit` ... `StoreFinished`,
`ClearLoad`, `ClearStore`), each an access to memory shared with the interrupts
or one word or chunk written to the flash. `calc` says whether
the module of the check sums is calculating: a CRC bit the loop writes back without
that is a fatal error. `PowerCycle` may come between any
two; `BeginRestore`, `PrepareStorage` and `RestoreSod` are the boot.

**SafetyNode.** `pc` is the place of the main program, one step per access to
shared state. `SyncCycle` and `Transfer` are the interrupts with all their calls.
`TimePasses` makes the last sync interrupt older than cycle time and tolerance.

**Boot.** `pc[p]` is the place of each AP in `initXCom`, `tx`/`rx` the words of
the message it sends and receives. `SendWord` moves one word of four bytes; it
is lost unless the other side is in `upserial_receiveBlock`. The rest are the
callbacks and the timeouts of `boot/*.c`, and `Restart`, a reset of one AP.

**XCom.** `img[p]` is the transmit image, `wire[p]` the one under way. `Sync` is
the sync interrupt of both APs, `Work` the interrupt of the finished transfer up
to `xcom_transmit`, `MasterReceives`/`SlaveReceives`/`ReceiveInvalid` are
`frameReceived` with all its branches. Of a frame its check sum is kept, which is all
the other AP compares. `disturbed` says whether what is asked of two APs in step
(`InStep`) was ever not given: the same frames built in a cycle, each image arriving
after the other AP has built its own and before the next sync interrupt.

**Logbook.** `Call` begins `errh_postError` in the loop, whose post goes in the
steps `getCurrentLogBuffer`, `reformatErrorMessage` (two halves), `postLogEntry`
and `lockBuffer`, for nothing guards the buffer but the lock flag set last;
`InterruptPosts` is a whole post from an interrupt and may come between any two.
`SendEntry` and `TransferFinished` are the SPI transfer; `SyncCb` the sync
interrupt of the PCP; `Prepared`, `Sending`, the `Transmit...` actions and
`ArpRetry` the states of `processTransmitSm`. `Shutdown` is a fatal error.

**SyncCycle.** `now` is the true time, which the code never sees; timers are read
modulo `Turn`. `SyncCycle` is the sync interrupt of both processors
(`constime_process`, `constime_getTimeBase`, `cyclemon_process`), `SyncConsTime` the
average of both time bases in a redundant node, `ConsTimeBase_CLBK` the write of the
unit. `ConsTimeOf` is the quotient by the unit, cut to the width of the value
(`Wrap`); `stamp` records what it was made of and when. `CheckTimeout` and
`EnterTimeout` are the two halves of `cyclemon_checkTimeout`, between which a sync
interrupt may come.

**ParameterCrc.** `ParameterSet_CLBK`, `CalcParamChkSumClbk`, `Write` and
`WriteChecksum` are what the stack may do between two calls; `StartCalc`,
`NextObject`, `EndOfDictionary` and `Verify` the calls of `paramcrc_process`, and
`CoverBlock` one round of the loop in `calculateObjectCrc`. `LoopStores`,
`ClearTaskLoad` and `ClearTaskStore` are the background loop, which clears its STORE
bit with a load and a store; `InvalidState` is a call without a calculation. A CRC
is the sequence of bytes it covers; `CrcsOf(Covered(sod))` is what the SCM computes.

Definitions whose comment says "A faulty form" are not used by any
specification. Each is a plausible mistake in the definition that follows it,
and `PROJECT.json` says which property detects it.

## 3. Runs

| Run | Checks | Bounds, and why they are enough |
|---|---|---|
| `triple_buffer` | `Exclusive`, refinement of `LatestValue` (`ImplementsLatestValue`) | one channel per direction, so that both ports trigger the same and different channels at one edge; one word, as memories are switched as a whole |
| `fifo` | `SlotsHoldQueue`, `GetsOldest` | three slots, so that positions and UINT8 counters wrap at different steps; the counters go through all 256 values |
| `ssdo_tx` | `TakenAsPosted`, `AckedWasFinished`, `PendingFindsUnlocked`, `ImageStableInTransfer`, `EventuallyUnlocked`, refinement of `StopAndWait` (`ImplementsStopAndWait`) | three frames: one in work, one after a timeout, one that reuses the number of the first; a timeout of one cycle instead of 400 expires before, during and after the work of the PCP, which is the only thing its length decides |
| `ssdo_rx` | `HandedInOrder`, `FrameStableWhileBusy`, `FreeMeansFinished`, `ImplementsStopAndWait` | five write accesses, as many as the FIFO has slots, and a timeout of two cycles: a timeout, a blocked channel and two more frames fit into one behaviour; two answers that leave a frame in the channel (`MaxKept`), of one frame or of two |
| `parameter_set` | `ImageWasParsed`, `ImageIsCurrent`, `ProgrammedOnce`, `TasksEnd` | sets of up to three chunks (first, middle, last); two requests, so that a download overlaps a store and a second set replaces a first one; one loss of power, at every step; initial flash empty or with an image, of this or another version |
| `parameter_set_lost` | violates `OperationalAfterParsing`: finding 1 | three requests, no loss of power |
| `safety_node` | `OneCheckPerEntry`, `StatesAgree`, `ShutdownIsSafe`, `LossIsSafe` | two valid check sums: an entry into Operational on both sides of a reset |
| `boot` | `RestoreAgreed`, `TimeFromMaster`, `BootsUp` | two resets: one of each AP or two of one; every initial combination of stored images |
| `xcom` | `NoFalseStop`, `BothStop` | two check sums: both APs compute the same or not; no bound on cycles |
| `logbook` | `TakenWhole`, `NeverBlank`, `AcceptedIsTaken`, `SentAsTaken`, `ImplementsStopAndWait` | three errors: one under way, one whose post is interrupted, the one that interrupts it; timeouts of one cycle, as in `ssdo_tx`; one ARP retry |
| `sync_cycle` | `BaseIsTrue`, `LossNoticed`, `StartsAgain`, `ConsTimeForward`, `NoFalseAlarm` | a timer of 9 ticks that turns over twice, every distance of sync interrupts, so also ones more than a turn apart; cycles of 3 to 5 ticks, threshold 2, tolerance 1; a look of the loop in every tick, the largest distance `WindowAssumption` leaves; a consecutive time of 8 values, which starts again up to twice; one change of a unit |
| `parameter_crc` | `CalledWhenStarted`, `AnswerIsExact`, `CalcEnds` | three objects, one without check sum, one of variable length: dictionaries smaller than a block of two bytes, exactly as large, and larger; unbounded in length |

PCP and AP cycles are not synchronised in the channel models: each side's
interrupt may come any number of times between two of the other, which includes
every real schedule. Every module has a type invariant (`TypeOK`; `FifoTypeOK`,
`CrcTypeOK` and `BootTypeOK` where a module of proofs extends two modules): all
are proved (section 5) and checked by no run. Deadlock
is not checked where the system may stop (a shutdown, a bound reached).

History variables name the cases in which the code does not give a guarantee,
and the properties say in their condition which: `timedOut` (a timeout has freed
a channel without an answer), `overlapped` (an interrupt has posted inside a
post of the loop), `cut` (a message of the start was received from its middle),
`mixed` (a set was stored while another one was handed over), `turnLost` (two
sync interrupts a turn of the timer apart), `kept` (a frame answered with OK at
once), `raced` (in `ParameterCrc` a write-back of task bits that met a request or an
answer, in `SafetyNode` an entry into Operational in the middle of a reset),
`disturbed` (two APs not in step). Without the condition each of these
properties fails, which is reported in section 4 where it is a defect.

### Fairness

- `SsdoTx`: the sync interrupts of the AP recur while the PCP runs, a started
  transfer ends (`WF`); nothing is assumed of the PCP's loop; the stack does not
  stay busy with one received frame for ever (`SF` on the answer of the Shnf task,
  which comes up every third cycle).
- `ParameterSet`: a powered processor runs its loop, and every third cycle
  `processTaskSchedule` calls `sapl_processSync` (`WF`).
- `SafetyNode`: the loop runs, a started transfer ends, time passes (`WF`).
  Nothing is assumed of the sync interrupt, whose loss is the subject.
- `Boot`: both APs are switched on and run, the 8 s timer of the slave runs, the
  PCP raises its sync interrupt (`WF`). Nothing else: the 17 min limits may or
  may not be reached.
- `ParameterCrc`: `processTaskSchedule` calls `sapl_processSync` every third cycle
  (`WF` on the module's step and on the end of the parser). The stack may ask
  again or write at any time, for ever: `CalcEnds` excepts that.
- `SsdoRx`, `Logbook` and `SyncCycle` state safety only and assume no fairness.
- `XCom`: the PCP goes on with its sync interrupts, transfers end, and the loop
  of an AP sees its shutdown flag (`WF`). Nothing is assumed of the UART.

## 4. Findings

Each was met while modelling. The first is the counterexample of a run.

1. `AP/sapl/sapl.c:271`: the loop's unprotected read-modify-write of
   `activeTasks_m` can lose a PARSE request, and the node enters Operational
   with a set it has not parsed (run `parameter_set_lost`). A CRC request is lost
   in the same way, so that no answer follows (`CalcEnds` excepts it); and a CRC bit
   that the interrupt has cleared in between comes back, upon which
   `paramcrc_process` finds its state invalid and posts a fatal error
   (`AP/sapl/parametercrc.c:254-259`). `CalledWhenStarted` fails without its
   condition `~raced`.

The next ones follow from the models, whose properties except the case or say
what still holds:

2. `BC/pcp/psi/rssdo.c:550`: a frame that finds the channel busy is lost,
   although comments there promise a retry. `handleReceiveFrame` drops it;
   `HandedInOrder` and `ImplementsStopAndWait` are about the others.
3. `BC/pcp/psi/rssdo.c:274`: an acknowledge that comes with or after the timeout
   leaves the channel blocked until another write access, which is lost itself.
   `FreeMeansFinished` excepts what follows a timeout.
4. `AP/cyclemon.c:216`: a loss of the sync interrupt while the cycle time is
   being measured is never noticed and outputs stay on. `LossIsSafe` and
   `LossNoticed` are about the active monitoring. With jitter of the wrong sign
   the measuring has no bound either (`AP/cyclemon.c:266`, see `StartsAgain`).
5. `AP/sapl/parametercrc.c:366`: with more than 512 bytes of checked parameters
   the calculation never ends, although the module says "For every 512 bytes of
   data we have one CRC32!" (line 89). The test for a full block comes second
   and is unreachable (`OnlyFirstCrc`), so that a full block takes no byte for
   ever; and the object's data would be read from its start again (line 335).
   `CalcEnds` holds up to the block that is exactly full.
6. `BC/pcp/psi/fifo.c:240`: the full check is `>`, so that one element more than
   there are slots is accepted; the oldest is lost and the newest comes twice.
   `SlotsHoldQueue` and `GetsOldest` name the case.
7. `AP/sapl/sapl.c:458`: the restore loop does not end on a parse error. In
   `ParameterSet` a refused image leaves `RestoreSod` as the only step.
8. `AP/boot/sync-sl.c:202`: the header of the sync message is compared with
   itself. With a message cut by the 17 min timeout the slave takes other words
   for its time: `TimeFromMaster` fails without its condition `~cut`.
9. `AP/boot/pingpong-sl.c:161`: after a failed transmission `rcvState` is read
   uninitialised; both outcomes are in `TransmitFails`.
10. A master that begins to receive after the first word of a welcome message
    reads the constant of the next one as state field, takes it for "restore",
    and restores although the slave may have no image: `RestoreAgreed` fails
    without `~cut`.
11. `AP/shnf/xcom-ma.c:585`: if the slave's image comes before the master's own
    transfer is over, the SPDO is merged into the image the DMA is sending. Only
    the duration of the UART transmission prevents it.
12. `AP/errorhandler.c:227-254`: nothing keeps an interrupt from posting inside a
    post of the loop. One entry then mixes both, or an error reported as posted
    is overwritten: `TakenWhole` and `AcceptedIsTaken` fail without their
    condition `~overlapped`; `NeverBlank` holds all the same.
13. `AP/shnf/shnf.c:600-604`: when the stack answers a new frame with `SSC_k_OK`, which
    the comment calls "Frame is finished without change to busy", the handler returns
    TRUE and `ssdo_handleRxFrame` (`BC/libs/psi/ssdo.c:469-473`) takes that for a frame
    in work: it stays incoming, its channel is not freed, and the next Shnf task hands
    it to the stack again, until another answer or the PCP's timeout.
    `HandedInOrder` names the repetition; without it the property fails.
14. `AP/statehandler.c:334-336`: a reset takes the stack to PreOperational and then
    the firmware, in the loop. A State task between the two can take both to
    Operational, and the second half then leaves the firmware in PreOperational with
    the stack in Operational for good. `StatesAgree` fails without its condition
    `~raced`.

Seen in the code, outside of what the properties are about:

- `BC/pcp/psi/logbook.c:732-745`: the critical section around the conversion of
  the time is inverted, and the pointer it reads is that of a local variable of
  `psi_syncCb` (`BC/pcp/psi/main.c:590`): the time stamp of an entry is undefined.
- An entry whose target node is invalid is formatted and tried again for ever,
  without an error (`BC/pcp/psi/logbook.c:428-472`).
- The entry of a fatal error usually does not leave the AP: the shutdown that
  follows stops the transfers.
- `AP/shnf/constime.c:371-381`: an unknown base sets an abort code, which the last
  lines replace by "no error".
- `AP/shnf/xcom.c:510-537`: `verifyTime` averages whatever time the other
  processor sends; no limit on the difference is checked.
- `AP/shnf/constime.c:224,250`: the consecutive time is cut to 32 bits and starts again
  from 0, with the unit of 1 us after 71.6 min. `ConsTimeForward` is about the value
  modulo its width; the stack extends it only if it supports 40 bits
  (`SPDO_UpdateExtCtValue`, `AP/shnf/shnf.c:559-561`).
- `AP/sapl/parametercrc.c`: objects already covered may be written before the
  verdict; `AP/sapl/sapl.c:503`: an invalid result does not clear an older valid
  one.
- `AP/shnf/shnftx-dual.c:285`: under a comment "Frame has a CRC16" one byte is read,
  and compared with the other processor's. Frames that differ agree more often than
  a CRC16 would let them; the models compare that byte and claim nothing of the rest.
- An image that reaches the slave before it has built its own frames is compared with
  none and drops nothing; the frames built after it stay for the next cycle, where
  they meet another image. `InStep` excludes it.
- In the messages of the start the padding is the time word again, so that a slip by
  one word there cannot be told (`TimeFromMaster` does not distinguish it either).
- The limits of the monitoring: a cycle of 65000 us leaves 436 us before a late
  interrupt is a short cycle of the next turn of the timer (`WindowAssumption`).
- `doc/software/modules/sn_boot.txt:9-18` names the ready and the sync message
  the wrong way round.

## 5. Proofs

All theorems hold for every value of the constants that satisfies the named
assumptions in the module. Every safety property of a passing run is a theorem,
but for `AnswerIsExact`.

- **MemoryProofs**, the triple buffer — assumptions on the sets of values. The
  inductive invariant is type and `Exclusive`: the exclusive or of two different
  selects is the third one only if the registers hold one of the three codes. From
  it follow `ConsumerImageStable` and the refinement of `LatestValue`, step by step:
  a clock edge is an exchange of the triggered channels.
- **MemoryProofs**, the FIFO — `MaxElem` up to 254, the largest number at which the
  UINT8 difference still tells full from empty. Type, counters and contents need
  each other: a slot keeps its element because the write position, known from the
  length of the queue, is elsewhere.
- **SsdoTxProofs** — any limits of the timers, single and redundant nodes. The
  order and the wholeness of what is taken need two arguments. A single node posts
  in the interrupt of the finished transfer, so that no post comes between the two
  parts of a transfer: every published image is a whole frame, no older than those
  before, whatever times out (`SingleInv`). In a redundant node a post may come in
  the middle of a transfer; there, until the first timeout, the channel is an
  alternating bit (`ChannelInv`): the acknowledge passes through four copies
  (`StatusChain`), a frame the PCP has taken is alone on its way (`DoneSound`), one it
  has not taken may share the way with the one before, whose number the PCP knows
  (`UnderwaySound`). `AckedWasFinished` is the other end of the same chain, and
  `PendingFindsUnlocked` an invariant of the AP alone.
- **SsdoRxProofs** — any limit of the timer. `OrderInv` says in which order the
  frames lie on their way (FIFO, published image, image of the AP) and that a frame
  handed over is not incoming any more unless the stack is busy with it or answered
  OK: from it `HandedInOrder`, whatever times out. `ChannelInv` makes the channel an
  alternating bit until the first timeout: the acknowledge passes through four
  copies (`StatusChain`), and the last frame is unseen, incoming, in work or done
  (`UnderwaySound`, `DoneSound`). The other three properties follow.
- **LogbookProofs** — any limits of the timers, any number of calls. As long as no
  post overlaps another, `OwnerInv` says what is in the image at every place of a
  post: the fields of the entry of the loop as far as written, and the number not
  before the last. `ChannelInv` is the alternating bit of `SsdoTxProofs` with one
  case more, a transfer that reads while the image is filled: it has read the old
  number, which the PCP knows, before any field of the new entry.
  `SentInv` relates the state machine of the PCP to what was taken and sent.
- **The three channels implement `StopAndWait`** (`StopsAndWaits` in `SsdoTxProofs`,
  `SsdoRxProofs` and `LogbookProofs`). The initial states map to the free channel;
  under the inductive invariant each step of either processor, the SPI transfer and
  the interrupts included, is one action of `StopAndWait` or none: the post of a
  frame is `Post`, or `ReleaseAndPost` if the same interrupt has seen the
  acknowledge; the take-over is `Take`, `TakeAndFinish` if the stack refuses the
  frame at once, or `TakeAndLeave` if it answers OK; the acknowledge flag of the
  receiver is `Finish`, and only its last copy `Release`. What must be shown for
  each is that the step finds the phase it needs: a free channel is one whose last
  number the receiver has (`NextIsNew`, `PhaseMeans`), so that the next is new to
  it; and what is posted comes after all that was taken. A timeout is `GiveUp`,
  after which nothing is promised; so is, in `Logbook`, a post inside a post.
- **ParameterProofs**, the set — any length, any number of requests and losses of
  power. `IInv` adds to the types: what the check sum in the flash was computed over
  (`ImageSound`), that the loop is idle during the boot (`BootSound`), that it
  holds the STORE bit in all its steps (`LoopSound`), and how far the storing is
  (`StoreSound`). `ImageWasParsed` and `ImageIsCurrent` follow. `FreshInv` says of
  each step of storing which part of the sector is still erased, from which
  `ProgrammedOnce`.
- **ParameterProofs**, the check sums — any dictionary. `CalledWhenStarted`: the CRC
  task is set exactly while a calculation is begun, so that neither fatal error of the
  module is reached; inductive with `BlockInv`, up to the write-back of the loop that
  meets a request or an answer (`raced`).
  `BlockInv` and `Filled`: a round of the loop takes no more than fits, the counted
  length is that of the CRC (`BlockBounded`), and the second CRC is never begun
  (`OnlyFirstCrc`, finding 5).
- **SafetyNodeProofs** — any number of check sums. `OneCheckPerEntry` is inductive
  once check sums are followed from result to request to entry (`ChecksSound`);
  `StatesAgree` needs what holds between the two halves of a reset
  (`ResetSound`).
- **RedundantProofs**, the start — any number of resets. `BootInv` has the types,
  what is left to send of each message (`MessageInv`), what a processor says of
  itself before it has heard the other one (`FlagInv`), and, until a message is cut,
  one part for each phase of the handshake: how much of the welcome message, of the
  answer and of the sync message lies in the other one's buffer, and which states of
  the two sides go together (`WelcomeInv`, `RespondInv`, `ResponseInv`,
  `RestoreInv`, `ReadyInv`, `SyncInv`). The hard steps are the words sent and the
  resets: each part is shown for each step.
- **RedundantProofs**, the operation — any check sums. The types, among them that a
  UART has at most one image to send; and `NoFalseStop`. `Undisturbed` says where a
  cycle of two APs in step may be: nothing failed, everybody receives, an image under
  way is the one built by its sender, equal to the receiver's own if that is built, and
  an AP waits exactly for the image that is still to come. With it no comparison
  fails, and at the sync interrupt no AP waits and no UART is busy.
- **SyncCycleProofs** — any width of the timer, limits that satisfy `TimeAssumption`
  and `WindowAssumption`, any length. The lemmas on `%` and `\div`
  (`TimerDifference`: the difference of two readings modulo the turn is the time
  passed, if that is less than a turn) carry the argument. The inductive invariant
  relates every stamp to the true time: the base (`BaseInv`), the time stamp of the
  monitoring (`StampInv`), the consecutive times (`ConsTimeInv`) and the place of
  the loop (`PollInv`). From it the time is true, equal on both processors
  (`TimesAgree`), the consecutive time goes on by no more than has passed, modulo
  its width (`ConsTimeForward`), and the monitoring is neither blind nor wrong
  (`LossIsNoticed`, `AlarmIsTrue`). `StartInv` counts the interrupts since a timeout
  against the state of the monitoring, for `StartsAgain`. That needs a threshold
  above 0, which `TimeAssumption` has from `CYCLE_TIME_THRESHOLD_US`: with 0 two
  equal distances would not be below it.

Only model-checked: everything temporal under fairness (`EventuallyUnlocked`,
`TasksEnd`, `ShutdownIsSafe`, `LossIsSafe`, `BootsUp`, `BothStop`, `CalcEnds`),
which is out of the prover's reach, and `AnswerIsExact`, which compares with a
concatenation over all objects and would need induction over data.
`ConsumerImageStable`, `ForwardedReachStack`, `CountersAgree`, `ConsTimesAgree` and
the type invariants are proved and not checked by a run any more.

## 6. Assumptions and limits

- The openSAFETY and openPOWERLINK stacks are external. What they return and
  which callbacks they make is free, except: the stack starts no download while a
  PARSE task is pending.
- Check sums over parameters and images of the flash have no collisions; of the
  frames of a redundant node nothing but the compared byte is modelled. Erasing a
  flash sector is one step.
- A transfer is over before the cycle monitoring can find the cycle late; APs
  finish their work within a cycle (`XCom`).
- `SafetyNode` models one AP that is master of the SPI. With an AP as SPI slave
  (`pcpserial-sl.c`) transfers do not follow the sync interrupt.
- In `SafetyNode`, `Boot` and `XCom` times are abstracted to what is compared:
  late or not, equal or not; their arithmetic is in `SyncCycle`. There a timer is
  read once in an interrupt: the time that passes inside one is jitter of the
  next.
- `Logbook`: the node has left Initializing; an entry has two halves, for its
  fields are written and sent in one order. The time stamp is left out.
- `ParameterCrc`: the stack writes between two calls only, as both run in
  interrupts of one priority.
- `XCom` has no AP that sleeps through a sync interrupt (the flash stalls the
  processor while it is erased); the effect on the exchange is that of a lost
  image.
- The restart of one AP in `Boot` is not followed into `XCom`.

### Not modelled

`PROJECT.json`, "components", has the reason for each part. In short: the
configuration channel (`libs/psi/cc.c`, `pcp/psi/icc.c`, `occ.c`) is not in the
image of the demo and nothing in it calls the module; status, stream and PDO
copies, the frames of `hnfpsi.c` and the drivers have no state that outlives a
call; the SPI-slave variant of the AP needs a schedule of its own. Most lines of
the repository are not the program: the cunit library, the IP and socket stack,
board support, IP cores, unit tests and the generated object dictionary. The
models therefore cover a small share of all lines of the repository, and most of
the control of the demo's own code.

## 7. Plan

The order was: the memory both processors share (`TripleBuffer`), the queue, the
two SSDO channels on top, then what makes the node safe (`ParameterSet`,
`SafetyNode`), then the redundant node (`Boot`, `XCom`), then time and its
monitoring (`SyncCycle`), the check sums (`ParameterCrc`) and the log
(`Logbook`), and at last what the three channels have in common (`StopAndWait`).
What is left:

1. A composition of `SafetyNode` and `XCom`: outputs of a redundant node off when
   either AP fails; and of `Boot` with `XCom` for the restart of one AP.
2. `SafetyNode` for an AP that is SPI slave, whose transfers do not follow the
   sync interrupt.
3. `ConfigChannel`: both object lists, resynchronisation of pointers, the
   overwritten value.

Hazards of the code that belong to these, and are not under `hazards` in
`PROJECT.json`:

| Where | What |
|---|---|
| `AP/target/altera-nios2/nvs.c:207` | a failed erase is returned as success |
| `BC/libs/psicommon/ccobject.c:236` | the object is compared before the critical section in which it is written |
| `AP/boot/sync-sl.c:135` | the slave waits at most 17 min for the sync message, however long the master stores its set |
