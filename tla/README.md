# Wireless harness test system: TLA+ specification

The firmware under `src/Source` tests wiring harnesses. A backend PC sends requests over UDP to
a **master** board, the master talks over UWB radio to **slave** boards, and each slave drives
and samples its slice of the harness, row by row, after a broadcast sync frame. This directory
models that firmware in TLA+, checks it with TLC and proves invariants of it with TLAPS.

Both boards run FreeRTOS, preemptive, with time slicing among tasks of equal priority. On the
master, `PCinterface` and `SlaveManager` have priority Mid (8), the two transfer tasks High (14),
the timer service task the highest (15). The firmware keeps nothing across a restart.

## The system

| part | state | operations | speaks with |
|---|---|---|---|
| `PCinterface` (`pc_interface.hpp`, `pc_message.hpp`, `forward.hpp`) | parsed request, `index`, `cfg_cmd`, `is_success` | parse a request, forward one command per device, wait for the events, respond | `SlaveManager` through `PCmanagerMsg`; the uplink |
| `SlaveManager` (`slave_manager.hpp`) | `running`, `slave_dev`, `timeSlot`, `slave_dev_index`, `slave_num`, `cfg_state`, `wait_for_data`, the sync timer and its semaphore | execute commands, send sync frames, read every slave, upload | `PCinterface`; the slave link; the uplink |
| slave link (`__ProcessBase`, `ManagerDataTransfer`) | byte queues, three semaphores, `rsp_parsed`, `expected_rsp_msg_id` | `send_frame` with retries, the radio task's loop | `SlaveManager`; the UWB driver |
| uplink (`PCdataTransfer`, `ShareMem`) | the send buffer, its two locks, request and done semaphores | write access, write, send, receive datagrams | `PCinterface`, `SlaveManager`, UDP |
| slave message processing (`msg_proc.*`, `slave_mode.cpp`) | receive buffer, queues | sync, configuration and read handlers | the radio; `Harness` |
| `Harness` (`harness.h`) | `rowIndex`, `triggerCount`, `maxTriggerCount`, `pins`, matrix, slice | timer callback, `init`, `reload`, `startWithCount` | the handlers, the timer |
| UWB driver (`uwb.hpp`, `cx_uci.hpp`) | chip state, packet being built, parser state, received bytes | command/response loop, segmentation, stream parser | the radio chip |
| frame protocol (`protocol.hpp`) | parser buffer, static message fields | pack and parse five packet families | everyone |

What makes it hard:

* **Nothing relates a command to its answer.** Queue and event group are separate; the success
  bits outlive the command that set them, and a wait that times out reports any bit as success.
* **Two counters of two tasks** make a configuration session: `PCinterface` computes the first
  line of each device, `SlaveManager` counts devices and hands out time slots.
* **Tokens survive.** The sync semaphore, the done semaphores and queued bytes outlive the
  operation they belong to.
* **Replies are late or lost**, and are matched by kind, not by sender.
* **The send buffer is shared** by the response and the upload.
* **A timer callback samples rows** while handlers may reconfigure or read the matrix.

What makes each part correct: the status byte is true; a configuration session gives each device
its time slot and its lines, without gap or overlap; slaves are read only after a sync frame, and
only during detection; every request is answered; what is uploaded under a slave's id was sent by
that slave; the buffer is not overwritten before it is sent; every row is sampled exactly once
while at most one slave drives it; packing and parsing are inverse.

## Modules

| module | models |
|---|---|
| `PCmanagerMsg` | the message object between the two Mid tasks: command queue, event group, the commands themselves; two history variables |
| `PCinterface` | the task that turns a request into commands and composes the status (`EXTENDS PCmanagerMsg`) |
| `SlaveManager` | the task that executes commands and runs the measurement cycle, and the sync timer (`EXTENDS PCmanagerMsg`) |
| `MasterControl` | the composition of the two, their properties and their fairness |
| `MC_MasterControl` | instance for TLC: two devices with 2 and 3 lines |
| `Cycle` | the measurement cycle in time: `SlaveManager` and its sync timer, the radio's delay, and the scans of all slaves on one harness |
| `MC_Cycle` | instance for TLC: two slaves, together and one of them alone |
| `CycleProofs` | theorems about `Cycle` for any slaves, lines and times |
| `MasterControlProofs` | theorems about `MasterControl` for every value of the constants; the status byte among them |
| `MasterSessionProofs` | a configuration session lays the slices side by side (`SessionTiles`) |
| `Conversation` | abstract: what the backend may rely on |
| `ShareMem` | the send buffer, its two counting `Lock` objects, and where each writer is in their code |
| `Uplink` | the two writers, `PCdataTransfer`, the semaphores and the receive queue (`EXTENDS ShareMem`); implements `Conversation` |
| `UplinkProofs` | theorems about `Uplink` for every value of the constants |
| `SlaveCall` | abstract: what a call of `send_frame` means to its caller |
| `SlaveLink` | `send_frame`, the byte queues, the radio task, a radio that loses and delays, the slaves; implements `SlaveCall` |
| `SlaveLinkProofs` | theorems about `SlaveLink`, the refinement among them |
| `Harness` | a slave: its handlers against its sampling timer, the matrix, the pins |
| `MC_Harness` | instance for TLC: a slice of one line, and the first and the last slice of three lines |
| `HarnessProofs` | theorems about `Harness` for any slices |
| `Uwb` | the UWB driver byte by byte, the radio task that calls it, and the chip (external) |
| `UwbProofs` | theorems about `Uwb` for any number of frames |
| `Protocol` | the 23 classes of messages as bytes, their static fields, frames received in pieces |
| `MC_Protocol` | instance for TLC: messages of every class, one of which holds the bytes of another frame |
| `ProtocolProofs` | theorems about `Protocol` for any messages that fit their fields, and any pieces |

`PCmanagerMsg`, `PCinterface` and `SlaveManager` each declare the variables of one object; in
`MasterControl` a step of one task leaves the other task's variables unchanged, and both act on
the variables of the message object. Operators marked *a faulty variant* are definitions of the
code with one plausible mistake; no specification uses them. They show that a property depends on
the line they change.

### From code to actions

`PCinterface` is cut where another task can run between two accesses to shared state: adding a
command (`AddCommand`, or `AddTimeout` when the queue stayed full), the wait for
`FORWARD_SUCCESS_EVENT` (`Woken`, `WaitTimeout`), the later `event.get` (`CheckBit`) and the
response (`Respond`). The arithmetic of `SlaveConfig::forward` (first line, total) is in
`NextCommand`. A datagram that does not parse changes none of this state and is left out.

`SlaveManager::task` is a drain loop followed by a poll of the sync token. A command is executed
in one step with its success bit, except a configuration, whose transaction with the slave lasts
seconds (`BeginConfig`, `EndConfig`); `RaiseForward` is a step of its own, since `PCinterface` can
time out between the two events. The cycle is `BeginSync`/`EndSync` and
`BeginRead`/`ReadDevice`/`EndRead`. Timer commands are executed by the timer task at once, since
it has the highest priority, and are part of the action that issues them; `BeginRead` allows the
timer one last expiry between the `take` and the `stop`. `TimerFires` is the callback.

Abstractions: a device is a model value; a transaction with a slave ends with TRUE or FALSE,
nondeterministically; frames, logging and the clip and resistance fields are left out; of the
modes, `OTHER_TEST` stands for the two that read nothing; time is not counted, so a timeout may
happen whenever its wait is not satisfied. `rid` and `k` in a command, and the variables marked
*history*, are read by properties only.

`Cycle` is the composition of `SlaveManager` with one `Harness` per slave that counts time: `Tick` is
one tick, and each other action takes none, so that any task may be late by any time. The sync timer
expires when it is due. Commands are those of `SlaveManager`, a session being one step with either
result for each device; a reading (`BeginRead` to `EndRead`) takes any time; `send_sync_frame` is
`BeginSync`, `Air` and `AirDone` by the radio task, and `Sent` or `SendTimeout`. Each slave that hears
the frame acts on it within `SPREAD` ticks. Of a scan the model keeps the ticks since it began
(`clock`): the row under way and the place in the callback follow from it (`Row`, `Offset`). `upset`
is a row index that does not start at 0 (see `RowsInBounds`), until the end of a scan resets it. A
slave that is left out of a list, or did not get its configuration, keeps its slice and scans on.
A behaviour is followed up to its first `overrun`: the timer expired while a frame was sent or about
to be, or a send timed out; from there on two cycles mix.

`ShareMem` is cut finer, at every access to memory the two writers share, because nothing in
the code makes these accesses atomic. `at` is the line a writer has reached. A `Lock` counts per
object and its count is a plain `int`, so `lock()` and `unlock()` are a load (`TestLock`,
`TestUnlock`) and a store (`StoreLock`, `StoreUnlock`); when the loaded count was 0, `lock()` takes
the mutex between them (`TakeMutex`). One load per call is what the release build (`-Os`) does; the
debug build reads the count twice, which the model leaves out. The step from a count of 0 to the
`give` is part of the store: the other writer's steps in between commute with it. The constructor
leaves the data lock locked by the boot task and the access unlocked (`MemInit`). A give of a mutex
another task holds is an assertion of the kernel, which halts the system (`halted`).

`Send` and `Receive`/`Enqueue` are `PCdataTransfer`, which has a higher priority than the writers
and so is not interrupted by them; a full receive queue blocks it in `Enqueue`. Datagrams are
counted, not read. While the queue is full a datagram is added byte by byte as bytes are popped,
but the drain loop pops until the queue is empty, so it gets the whole datagram. A datagram that
joined another, or a token without one, gives an empty response, because a frame must fill the
buffer exactly (`protocol.hpp:1477`). The buffer is two halves and a length; a message stands for
its bytes and its length. `write()` refuses a message whose data pointer is null (the first
response when it is empty) or that is larger than the buffer (an upload).

`SlaveLink` cuts `send_frame` where the radio task can run: between the bytes of a frame (two
halves), at the request, and at the two waits. `Retry` is the end of the loop body, after a wait
that timed out (`RxTimeout`) and after a reply that did not parse or match (in `Drain`). A wait
times out only while its token is not there. The radio task has a higher priority; its loop is
`TakeRequest`, `GiveTxDone` and `Receive`, and the wait for room in `rx_data_queue`, which has no
limit, is `radio = "blocked"`. The queues are sets because both ends pop them empty and understand
what they popped only if it is exactly one frame. A slave is one step, `Execute`: it remembers
nothing, so it executes a retry again. Loss is the alternative of `TakeRequest` that puts nothing
into the air, and a message that stays there. Left out: the time limit on adding to
`tx_data_queue`; its 2048 bytes fill only after some hundred calls into a blocked radio task, and
those fail either way.

In `Harness` the timer task has the higher priority, so that a handler can run only while the
callback sleeps: `BeginRow` ends at the first sleep (2 ms), `Drive` at the second (4 ms), `Sample`
is the rest. A timer command of a handler is queued to the timer task and therefore waits for the
callback (`pend`; of several, the last decides). The handlers are cut where the callback can find
their data half changed: fields, matrix, pins; and between the rows `flatten` reads. A row of the
matrix is the number of the scan that sampled it. Memory outside the object that a stray access
hits is not modelled; the access is recorded in `stray`.

In `Uwb`, `Parse` takes one byte and is the loop body of `__rsp_process` and `__listening_ntf`, up
to what `__send_packet` and `__notify_process` do with the packet. `WaitTimeout` is the end of any
of the driver's time limits. The chip is external: it boots, responds to a command, and notifies
received frames, as one packet or two. The line is the sequence of packets the chip has said and
the number of bytes read of the first (`off`); `Byte` says what a byte is to the parser. Of a split
notification each part carries data of the frame. A response's status is never seen: `check_*_rsp` reads
`packet[0]` of a vector that is always empty. A payload of more than 1020 bytes is refused by
`cx_app_data_tx`, but `__send_packet` does not look at that: it sends the packet built before, and
fails on its response (`complete`). The RFU byte, `stop_recv`, the device queries and the
transmission tests, which no task calls, are left out.

`Protocol` keeps every byte. A class of messages is a layout (field widths, entry widths, byte
order, how the size is checked), from which `Payload` and `Deserialized` are computed. The constant
`Messages` is what peers may send: values that fit their fields, in a list or a reading the right
number of its entries, and a packet whose length fits its field (`WellFormed`). `Receive` is
`MsgProc::proc`: all bytes there are, whether they are a part of a frame, one, or several; `Cuts`
are the places where a piece may end. The parser looks for the mark 0xAB 0xCD at the start of a
piece only, so that a piece that begins inside a frame whose data happens to hold a whole frame is
parsed as that frame, although no peer sent it, and although it may name another board. Nothing in
the frame format prevents this; the properties are therefore stated for frames that hold the mark at
their start only (`Unmistakable`), and a message that imitates a frame is among those sent. A
message refused for its size is processed all the same, with what its static fields held before;
where the size is only logged (`SyncMsg`, `RstMsg` to a slave) bytes beyond the end are read
(`Junk`); and nobody sets the `device_status` of an upload (`protocol.hpp:376`), so that two bytes
of the stack are sent. Peers of an older version are the reason for messages of another size: the
answers of older slaves had no status byte (the comment "原3+新增1" at `protocol.hpp:903`, and
alike), the configurations of older masters no interval ("修改为8字节" at `protocol.hpp:538`, and
alike; `Wireless Harness Test System Protocal.md:337`), their `RstMsg` no clipLed. The messages that
read data keep no value: their `reserve` is a member. A program built as `BACKEND` does not parse
uploads.

## Runs

| run | question | bounds |
|---|---|---|
| `command_path` | truth of the status byte, sessions, slots, where the cycle and the timer may run; every request is answered, detection keeps measuring | 4 requests of any kind, device lists of length 0 and 2, queue of 1, 1 forward timeout |
| `cycle` | who drives the row that is sampled, what a reading finds, what a sync hits | 2 slaves of 1 line, 5 commands, rows of 5 ticks with sleeps of 1 and 3, redundancy 7, period 12 in other modes, spread 2, send timeout 18 |
| `status_of_discard` | *violation*: status 0 although the command was discarded | 5 requests, no timeout |
| `uplink` | delivery by writers that take turns, what the backend may rely on, wake-ups, the mutexes, return of a writer | 2 datagrams, 1 upload, queue of 1 |
| `buffer_protection` | *violation*: a message is changed before it is sent | 1 datagram, 1 upload |
| `mutex_assertion` | *violation*: a mutex is given by a task that does not hold it | 1 datagram, 1 upload |
| `slave_link` | what a call means, whole frames, the blocked radio task, return | 2 slaves, 3 calls, 1 retry (3 in the code), 2 replies fill the queue, 1 message in the air |
| `upload_attribution` | *violation*: data of one slave uploaded under the ID of another | 2 slaves, 2 calls |
| `harness` | what an undisturbed scan does, stray writes, readings, end of a scan | 5 messages, 3 slices |
| `reload_pin` | *violation*: the end of a scan resets a pin that does not exist | 2 messages |
| `uwb` | received data, split notifications, meaning of a transmission, replays, listening, return | 2 frames sent, 2 received |
| `protocol` | what is processed and with which values | 2 frames, lists of 0 to 2 entries and an imitation, pieces that end at the end of a frame, 1 byte before it, or after its byte 3 or 16; 2 values of a byte nobody wrote |

Four requests allow configure, enable, disable and one more in any order, hence a restart of
detection and a session before and after one. One timeout puts `PCinterface` ahead of `SlaveManager`
by a command, which fills the queue of 1, and the next command is lost; the code's queue of 10 would
need ten timeouts for the same behaviour. `MaxRequests` and `MaxTimeouts` bound the environment, not
the firmware. The seven safety properties of this run are proved for all values of these constants;
the bounds matter for the two liveness properties only.

In `cycle`, the ticks keep the order of the code's times: a row (20 ms) is longer than both sleeps
(2 ms and 4 ms), the redundancy (100 ms) covers a row and the spread, and the send timeout (1000 ms)
exceeds the period of a session as small as this one. Five commands are configure, start, stop,
configure again with the other list, start again: a slave left out of the second list goes on
scanning, and scans of the first run meet the first sync of the second.

* `StatusFaithful`: unless a `forward()` timed out or a command was discarded or lost, the status
  is 0 exactly when every command of the request took effect. It fails when a failing device
  leaves the bit of the device before it.
* `StatusZeroMeansSuccess` is what the protocol tutorial says of the byte in the answer to a
  configuration (its line 195). It is violated: configure, enable, configure again. The second
  configuration is discarded because detection runs, its bit is still set from the first, and the
  backend is told 0. The property leaves out the answer to a start without configured slaves, which
  has status 0 as well: `ctrl_process` sets `CTRL_SUCCESS_EVENT` before it discards the command.
* `SessionTiles`: a finished session holds the announced devices, with slots 0, 1, 2, ... and
  lines that tile the harness, whatever failed or timed out, unless a command was lost.
* `SlotsConsecutive`: the registered slots are 0, 1, 2, ... also in sessions cut short.
* `CycleOnlyWhileRunning`, `TimerOnlyWhileRunning`, `ReadFollowsSync`: the measurement cycle
  against tokens, timer and flags left over from an earlier run.
* `RequestAnswered`, `KeepsMeasuring`: liveness. `RequestAnswered` is checked with the number of
  timeouts bounded, so it does not lean on the timeouts.
* `RowHasOneDriver`: while a slave samples a row, of the slaves of the last list that scan in step
  with it exactly the one drives whose line it is. The numbers `PCinterface` computes, the sleeps of
  `run()` and the spread of the syncs must agree; the lag between two slaves must stay below the
  difference of the two sleeps (2 ms). Slaves outside the last list are outside the property: one
  that was left out still drives its old rows at each sync, and nothing in the code stops it.
* `ReadingAfterScan`: period and redundancy cover the scan, the frame's way and a late
  `SlaveManager`, so that a reading finds the slaves of the list at rest.
* `SyncFindsRest`: a sync hits a scan (which writes rows beyond the matrix, see `RowsInBounds`) only
  in the cases it names. One is a restart: `ctrl_process` gives the token at once, while scans of
  the run before may be under way. Another is a mode other than conduction: its period is the
  constant 1000 ticks (`slave_manager.hpp:439`), whatever the slaves have been configured for.

* `KeepsConversation`: `Uplink` implements `Conversation`. While nothing disturbs it, the master has
  one place for a message, whose datagram goes out before the next message is begun, in the order
  of each writer's messages. One timeout is enough to lose this for good: the late token answers
  the next message's wait, and so on. Disturbed or not, the responses begun are no more than the datagrams
  received: a datagram that joins the one being drained leaves a token behind, which is answered
  from an empty buffer, but not twice.
* `NoLostWakeup`: tokens are fewer than datagrams, yet no datagram is left without one.
* `HaltsOnlyAfterOverlap`: turn by turn, the counts are balanced, although `write()` takes the
  access once more than it gives it.
* `WriterReturns`: liveness, until the first overlap. It says nothing afterwards because it fails
  there: while one writer is between load and store, the other can bring the count to 0, and
  the first then waits in `write()`, without a time limit, for a mutex the other keeps from its
  next message on.
* `Protected` is what the comments at `master_def.hpp:80` and `pc_interface.hpp:264` say, and is
  violated without any race on a count: the upload gets an access the response still has, and
  the `__size = 0` of one `write()` empties the message of the other. A message that `write()` refused
  is outside the property.
* `NeverHalts` is the kernel's assertion. It fails without a race too: a `Lock` does not know who took
  its mutex, so when two messages that `write()` refuses share the access, the later release gives a
  mutex the other writer took. A message that is written leaves the access count one higher, for
  good, so that without a race this happens only before the first one. A race is a time slice that
  ends between the load of the data lock's count and its store: the lost update brings the count to
  0 although the boot task's share is in it, and the boot task's mutex is given.

Two datagrams and an upload give three messages, both orders of the writers, an access lock that
was used before, a receive queue that is full, and an empty response before and after the first
parsed request.

* `KeepsPromise`: `SlaveLink` implements `SlaveCall`. A call that returns TRUE was executed by the
  slave it is for, or its answer stems from an earlier call, or an earlier try, for the same thing
  that had been given up. That exception is as narrow as the code allows: kind and parameters
  are compared, the sender is not. The answer to another call leaves the call's own answer
  outstanding, so that the next call may get that one, and so on.
* `UploadFromItsSlave` is what the comments at `protocol.hpp:293` and `380` say of the slave ID. It is
  violated by that exception: the frame of a reading goes out after its tx_done timeout, and the
  next reading, of another slave, takes the reply.
* `WholeFrames`: bytes of two calls are sent together only after a tx_done timeout, which leaves
  them in the queue.
* `BlockedByBacklog`: only replies nobody waited for any more can fill `rx_data_queue`.
* `CallReturns`: whatever the radio does. With the radio task blocked and no tx_done token left,
  it returns FALSE each time: nothing but a drain unblocks the task, and no drain is reached.
* `ScanComplete`, `SampledRowIsDriven`, `ReadingIsLastScan`: a scan that began from rest and that
  no sync or configuration hit samples every row, drives its own line and no other at each, and is
  what a later reading returns. `clean` is the history variable that says so. Since `init()` adds
  pins behind the old ones, `SampledRowIsDriven` holds only up to the number of lines of the first
  configuration.
* `RowsInBounds`: rows beyond the matrix are written only after a scan was hit. That it happens
  then is easy to see: a sync in the middle restarts the count but not the row index.
* `ScanEnds`: a scan ends, however often it was hit; a sync restarts it, so the number of syncs
  has to be finite.
* `ReloadResetsAPin` is the comment at `harness.h:244`, violated on a slave that is not last.
* `DeliveredInOrder`: nothing received is lost, doubled or reordered, also while a response is
  awaited. It excludes split notifications: the parser then reports a packet at the second header
  and again at every byte, and the data is delivered several times. `NoneLeftOut` says what still
  holds of split ones: data comes in the order of the frames, and of no frame is all data left out.
* `SuccessMeansAnswered`: excludes waits that timed out, since a late response is taken for the
  next one. `NeverReplayed` needs no such exclusion.
* `ListensInLoop`: `set_recv_mode` after every transmission keeps the chip listening. A driver that
  was not READY when it was called stays deaf until the next transmission; a slave transmits only
  after it received something.
* `CallsReturn`: no call of the driver blocks the radio task, even if the chip is dead.
* `ProcessedAsSent`: no cut of the line makes a piece of one frame, or two frames, into a message,
  unless the frame the piece begins in imitates another.
* `ValuesArrive`: pack and parse are inverse, but for the answer to `ResCfgMsg`, which is written
  high byte first and read low byte first (`Wireless Harness Test System Protocal.md:4` says low
  byte first; nothing sends this message today).
* `StaleOnlyFromOlder`: values of an earlier frame are processed in place of an answer of an older
  slave and of a configuration of an older master, always, and for nothing else. The parameters of
  such a configuration are dropped with a log message, and the slave configures itself with those
  of the last one it could read, or with zeros.

Three calls allow a call given up, one that takes its answer, and one that takes that call's. Two
slaves and one slot let two calls ask the same thing. With one message in the air a reply still
meets the replies queued, which do not count. Five messages allow two configurations, two syncs
and a reading in any order; a slave that is alone, first and last in its session covers the bounds
of `run()`. Two frames each way let a response be late for the next frame and a notification
arrive inside a response's wait. Two frames are the least that can be joined, and the least for a
field to keep an earlier value.

A reset is not covered by `StatusFaithful`: `SlaveManager` takes a reset off the queue and does
nothing, and no one sets `RESET_SUCCESS_EVENT`, so a reset of at least one device is answered with
failure unless its `forward()` was false.

**Fairness.** Weak fairness for the step of `PCinterface` while it serves a request, for the step
of `SlaveManager`, and for the timer. The two tasks have equal priority and time slicing is on;
`SlaveManager` ends each loop with a delay; every wait of `PCinterface` has a timeout; a
transaction with a slave is bounded by four tries of 1 s + 1 s; an armed FreeRTOS timer expires.
Nothing is assumed about the arrival of requests. In `Uplink`, the transfer task's polls and each
writer's steps are weakly fair, for the same reasons; a wait for `tx_done_sem` ends by its timeout.
In `SlaveLink` only the steps of `SlaveManager` are fair, nothing is assumed of the radio; in
`Harness` the timer's, whose task has the highest priority; in `Uwb` the driver's own steps, which
include its time limits, while the chip may stay silent.

**How likely is a full queue.** A silent slave costs `SlaveManager` at most 8 s, a `forward()`
times out after 13 s, and a request of 100 bytes (the UDP buffer) lists about ten slaves, so a
whole reading of silent slaves covers at most about seven timeouts, below the ten slots of the
queue. A lost command therefore needs longer stalls than these; the model allows it and the
properties say what still holds.

## Proofs

`MasterControlProofs` proves, for any set of devices, any device lists and line counts, any queue
capacity of at least one and any bounds:

* `MasterControlTyping`: `TypeOK`, by the inductive invariant `TypeInv`. `TypeOK` alone is not
  inductive: that the next command names a device of the list needs `index < Commands(req)`
  while a command is being added (`IndexInv`), and that a registered device is a device needs
  that the transaction under way is a configuration's (`SmConfigInv`).
* `NoCycleOutsideDetection`, `NoTimerOutsideDetection`, `EveryReadFollowsASync`: from `SyncInv`,
  which says why leftover tokens are harmless: without configured slaves no token was ever given,
  while detection is off the control state hides the token, and while data is awaited between
  two passes the sync frame is out.
* `SlotsAreConsecutive`: `timeSlot` and the length of `slave_dev` move together.

* `StatusIsFaithful`: from `StatusInv`, which holds while the two tasks keep step (no wait timed out,
  no command lost): one command at most is outstanding, and the phase of `PCinterface` says whether
  it is queued, in execution or answered (`PhaseInv`); no verdict is ahead of the commands that were
  executed (`VerdictInv`); unless the command was discarded, its event bit is its verdict (`BitInv`);
  and `is_success` sums up the verdicts already looked at (`SuccessInv`).

`MasterSessionProofs` proves `SessionTiles` from `TilesInv`, which holds while no command was lost:
the stream of commands, whether added, queued or executed, has no gap, and a configuration session
starts with an empty list (`StreamInv`); the slices laid down so far start at 0 and follow one
another, in the order of the device list (`SessionInv`). The code sums the line counts in a loop,
the model by a recursive function; that the sum exists and is extended by one entry at a time is
shown by the least-number principle (`LeastNumber`), which follows from `WFMin` and needs no
operator parameter.

`UplinkProofs` proves, for any queue capacity and any number of datagrams and uploads:

* `UplinkTyping`: `TypeOK`, with two facts that make it inductive: an unlock stores only a count
  it saw positive (`UnlockInv`), and outside a lock operation no phase is pending (`PhaseInv`).
* `NoHaltWithoutOverlap`: from `LockInv`. Until the first overlap only the latest writer is
  active, so what it loaded is still there (`Loaded`); the boot task's count of the data lock is
  never used up (`DataCount`); and the access mutex is free exactly when its count is 0, a writer
  with access having its own share of the count on top of what earlier messages left
  (`AccessCount`).
* `TurnsAreClean`: `CleanDelivery`, which says of the states what `KeepsConversation` says of the
  steps and is not checked separately by a run. From `HandInv`: how much of the message is in the buffer at
  each point (`Written`) and which of the two tokens exists (`Tokens`). It needs `LockInv` to
  show that `get_write_access` does not fail.
* `WakeupKept`: `NoLostWakeup`, inductive by itself given the types.
* `UplinkKeepsConversation`: `Spec => Backend!Spec`. The message under way is the latest writer's
  from its beginning until it goes on (`Place`). Undisturbed, the steps are those `HandInv` allows:
  the datagram goes out at the one `Send` whose request token exists, and a writer goes on only
  after it (`ComesBack`, for which `LockInv` shows that its access does not fail). That a response
  finds a datagram not yet answered needs `AnswerInv`: responses begun, the one being drained for,
  the token and the datagram being added are together no more than the datagrams received.

`SlaveLinkProofs` proves, for any slaves, slots, retries, queue capacity, calls and radio:

* `LinkTyping`: `TypeOK`, inductive by itself.
* `FramesStayWhole`: from `TxInv`. Until a tx_done timeout, what is queued is what `SlaveManager`
  has added (`Queued`), and one token at most stands for the frame.
* `BlockedOnlyByBacklog` and the refinement: from `LinkInv`. Everything underway belongs to a call
  that was made, a reply to the slave the call is for, which executed it (`Underlying`); and of a
  call that was not given up a single thing is underway: its frame, the request or the reply
  (`Single`), so that a queue with room for one cannot overflow from it alone.
* `LinkKeepsPromise`: `Spec => SlaveCall!Spec` under `pending <- pc # "idle"`; each step is a step
  of `SlaveCall` or leaves its variables alone.

`HarnessProofs` proves, for any slices and number of messages, the five invariants of the run from
one inductive invariant `HarnessInv`. Its core is `CountInv`: as long as a scan is undisturbed, the
count, the row index and the position in the callback agree. `RowInv` (rows below the index are of
this scan), `OutInv` (which line is driven at which point) and `ReadInv` (a copy begun at rest
equals the matrix) rest on it; `PinInv` and `MatrixInv` give the ranges.

`UwbProofs` proves, for any number of frames, the six invariants of the run:

* `FramesAreNotReplayed`: from `ReplayInv`. The last packet built is a frame only until the radio
  task has gone back to receiving, and only a packet that was built is sent while it is one
  (`PacketInv`); hence frames reach the chip in ascending order (`OrderInv`).
* `DataInOrder` and `DataIsComplete`: from `DataInv`, which says of the frames heard how many have
  been read from the line (`ReadUpTo`): the caller's data is of these, and the others are on the
  line, in order. It changes at the byte that completes a notification, and half of it
  (`Halfway`) between the two parts of a split one. What the parser reports there is known from
  `WireInv`: it has read the first `off` bytes of the first packet (`HasRead` in `ParserInv`), and
  the line holds only what the chip says, the second part of a notification next to the first
  (`LineInv`).
* `TransmitReportsTruth` and `LoopFindsChipListening`: from `ExchangeInv`, which holds until a wait
  times out: one command or one response is under way while the driver waits, none when it does not
  (`UnderWay`), and the response on the line belongs to the packet sent last; if that was not the
  packet meant, the driver knows (`Awaited`). A response does not name a frame, so that `Counted`
  needs both. `WireInv` gives that a response is seen when, and only when, its last byte is read.
* `UwbTyping`: `TypeOK`, from all of these: the commands are frames of the caller (`ReplayInv`), the
  data grows by five bytes at most for each frame (`DataInv`).

`CycleProofs` proves, for any slaves, lists, line counts, times and number of commands:

* `CycleTyping`: `TypeOK`, inductive by itself.
* `ReadingsFindRest` and `SyncsFindRest`: from `CycleInv`, which holds until the first overrun. A slave
  whose scan fits into the period is through before the timer expires while `SlaveManager` waits for
  it (`AllInTime`: the time it is busy yet is at most the time to the expiry), and at rest from then
  on until the next frame is sent (`BusyInv`); the frame is in one place at a time (`RadioInv`), and
  token and flag agree with the phase of `SlaveManager` (`PhaseInv`). `ConfiguredFit` is where the
  arithmetic of `get_timer_period` counts: the redundancy exceeds a row and the spread.
* `RowsHaveOneDriver`: from the types alone. The sums of a list divide its rows among its devices
  (`OneHolder`, by the least-number principle), a slave takes for its own the rows it owns
  (`OwnsIsOwner`), and a slave in step with one that samples is either past its first sleep in the
  same row or has not passed it in the next (`InTheRow`).

The assumption `CycleAssumption` is what the constants of the code satisfy: 20 ms rows, sleeps of 2 ms
and 4 ms, a redundancy of 100 ms, hence a spread of up to 80 ms.

`ProtocolProofs` proves the four invariants of the run for any set of well-formed messages, of every
class and any length, any pieces and any bytes nobody wrote. The invariants are inductive given
`TypeOK`, since only `Receive` writes `processed` and `statics`; the work is in what packing and
parsing compute:

* *Sums.* Where a field lies in a payload is a sum over widths, a function the model defines
  recursively. That such a function exists, and is extended by one term at a time, is shown by a least
  counterexample (`LeastNumber`), as in `MasterSessionProofs`; likewise for the bytes of a
  concatenation (`FlattenSeq`), of which byte `i` of part `k` is found at the sum of the lengths before
  it, plus `i`.
* *Fields.* A number of width 1, 2 or 4 is the number of its bytes (`NumberIsItsBytes`), and what
  `Encode` writes `Decode` reads back, in any layout (`Encoding`, `Decoding`).
* *Messages.* The size checks accept the payload of their own class (`SizeArrives`), the count and
  the entries are those sent (`CountArrives`, `EntriesArrive`), together `Delivered`; the payload of
  an older answer or configuration is one byte short of its class (`OlderLength`) and refused
  (`OlderRefused`), while that of an older `RstMsg` is read, with a made-up clipLed (`OlderReset`).
* *Pieces.* The line is the frames one after another (`LineBytes`), a piece begins in the first
  (`PieceBytes`), and if it begins with the mark of a frame, and the frame holds no other mark, it
  begins with that frame; then the length in the header leaves room for nothing else (`WholeFrame`).
* `ProtocolTyping` needs that what is read from *any* bytes fits its field (`DeserializedTyped`),
  because pieces of frames that imitate others are parsed too.

`ProtocolAssumption` says that a peer sends only what its message classes can hold.

The other assumptions are those named in `PCmanagerMsg`, `PCinterface`, `Uplink`, `SlaveLink`,
`Harness` and `Uwb`. Every invariant and action property of a passing run is proved, and every
refinement. Only model-checked: the liveness properties `RequestAnswered`, `KeepsMeasuring`,
`WriterReturns`, `CallReturns`, `ScanEnds` and `CallsReturn` (liveness under fairness is out of the
prover's reach), and the violations.

## Plan

What would come next, in this order:

1. An abstract specification of the command path, implemented by `MasterControl`: what a request of
   the backend does to the devices and what its status byte says of them, without the queue and the
   event bits.
2. An abstract specification of the radio for the task above the driver (a stream of data, a
   transmission that tells whether it was answered), implemented by `Uwb`.

## Not modelled

The JSON front end is compiled but no longer called. Drivers, lwIP, FreeRTOS and its C++ wrappers
(most of the lines of `src/`) are third-party; their queues, semaphores, event groups and timers are
modelled from their use. Board tests, boot code and logging carry no behaviour the properties speak
of. Of the modelled parts: the slave's own queues and semaphores (the same code as the master's radio
task) appear as loss, operations that no task calls are left out, and the composition of the
parts is by their interfaces: `MasterControl` lets a transaction end either way, `SlaveLink` says
what either way means.
