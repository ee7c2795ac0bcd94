---------------------------- MODULE SlaveManager ----------------------------
(***************************************************************************)
(* The SlaveManager task of the master and its sync timer.  The task       *)
(* drains the command queue, then, while detection is enabled, takes the   *)
(* token of the sync timer and either broadcasts a sync frame or first     *)
(* reads the data of every registered slave.                               *)
(*                                                                         *)
(* A transaction with a slave (send_frame) takes seconds when the slave    *)
(* does not answer, so it is two steps here, and its result is TRUE or     *)
(* FALSE; module SlaveLink models what happens in between.                 *)
(***************************************************************************)
EXTENDS PCmanagerMsg

VARIABLES smpc,                 \* where the task is
          cmd,                  \* forward_data: the command being executed
          running,              \* detection is on
          ctrl,                 \* ctrl_processor.state()
          mode,                 \* mode_processor.mode
          slave_dev,            \* registered devices, in order
          timeSlot,             \* next time slot
          slave_dev_index,      \* devices configured in this session
          slave_num,            \* devices announced by the session's first command
          cfg_state,
          wait_for_data,        \* a sync frame is out, data must be read next
          sync_sem,             \* the binary semaphore the timer callback gives
          timer,                \* sync_timer, auto-reload
          rd,                   \* next device to read
          session,              \* history: what was sent to the devices of slave_dev
          synced                \* history: sync sent since detection started or was read

smVars == <<smpc, cmd, running, ctrl, mode, slave_dev, timeSlot, slave_dev_index,
            slave_num, cfg_state, wait_for_data, sync_sem, timer, rd, session, synced>>

cfgVars  == <<slave_dev, timeSlot, slave_dev_index, slave_num, cfg_state, session>>
syncVars == <<wait_for_data, sync_sem, timer, synced>>

-----------------------------------------------------------------------------

SmPc     == {"drain", "config", "raise", "poll", "read", "sync_tx"}
CfgState == {"CONGIG_START", "CONFIG_PROCESSING"}

SlaveDev   == [id : Dev, timeSlot : Nat]
SentConfig == [dev : Dev, timeSlot : Nat, start : Nat, cond : Nat, total : Total,
               acked : BOOLEAN]

NoCommand ==
    [type |-> "DEV_CTRL", dev |-> NoDev, slave_dev_num |-> 0, start |-> 0, cond |-> 0,
     total |-> 0, arg |-> "DEV_DISABLE", rid |-> 0, k |-> 0]

SmTypeOK ==
    /\ smpc \in SmPc
    /\ cmd \in Command
    /\ running \in BOOLEAN
    /\ ctrl \in CtrlType
    /\ mode \in SysMode
    /\ slave_dev \in Seq(SlaveDev)
    /\ timeSlot \in Nat
    /\ slave_dev_index \in Nat
    /\ slave_num \in Nat
    /\ cfg_state \in CfgState
    /\ wait_for_data \in BOOLEAN
    /\ sync_sem \in BOOLEAN
    /\ timer \in {"stopped", "armed"}
    /\ rd \in Nat
    /\ session \in Seq(SentConfig)
    /\ synced \in BOOLEAN

SmInit ==
    /\ smpc = "drain"
    /\ cmd = NoCommand
    /\ running = FALSE
    /\ ctrl = "DEV_DISABLE"
    /\ mode = "CONDUCTION_TEST"
    /\ slave_dev = <<>>
    /\ timeSlot = 0
    /\ slave_dev_index = 0
    /\ slave_num = 0
    /\ cfg_state = "CONGIG_START"
    /\ wait_for_data = FALSE
    /\ sync_sem = FALSE
    /\ timer = "stopped"
    /\ rd = 1
    /\ session = <<>>
    /\ synced = FALSE

-----------------------------------------------------------------------------
(* Draining data_forward_queue.                                            *)

Pop(type) ==
    /\ smpc = "drain"
    /\ data_forward_queue # <<>>
    /\ Head(data_forward_queue).type = type
    /\ cmd' = Head(data_forward_queue)
    /\ data_forward_queue' = Tail(data_forward_queue)

(* A configuration while not running: the START branch resets the session, *)
(* and the transaction with the device begins.                             *)
BeginConfig ==
    /\ Pop("DEV_CONF")
    /\ ~running
    /\ smpc' = "config"
    /\ IF cfg_state = "CONGIG_START"
       THEN /\ timeSlot' = 0
            /\ slave_dev_index' = 0
            /\ slave_num' = cmd'.slave_dev_num
            /\ slave_dev' = <<>>
            /\ session' = <<>>
       ELSE UNCHANGED <<timeSlot, slave_dev_index, slave_num, slave_dev, session>>
    /\ UNCHANGED <<event, rid, verdict, running, ctrl, mode, cfg_state, rd>>
    /\ UNCHANGED syncVars

(* A faulty variant: a failed transaction leaves CONFIG_SUCCESS_EVENT set. *)
StickyConfig(ret) ==
    Executed(cmd, IF ret THEN {"CONFIG"} ELSE {}, {}, IF ret THEN "acked" ELSE "failed")

(* CONFIG_SUCCESS_EVENT tells the result of this device's transaction.     *)
RaiseConfig(ret) ==
    Executed(cmd, IF ret THEN {"CONFIG"} ELSE {}, IF ret THEN {} ELSE {"CONFIG"},
             IF ret THEN "acked" ELSE "failed")

(* A faulty variant: a device that did not answer keeps its time slot but  *)
(* is not entered in slave_dev.                                            *)
RegisterOnlyAcked(ret) ==
    /\ slave_dev' = IF ret THEN Append(slave_dev, [id |-> cmd.dev, timeSlot |-> timeSlot])
                           ELSE slave_dev
    /\ timeSlot' = timeSlot + 1
    /\ slave_dev_index' = slave_dev_index + 1
    /\ session' = Append(session, [dev |-> cmd.dev, timeSlot |-> timeSlot,
                                   start |-> cmd.start, cond |-> cmd.cond,
                                   total |-> cmd.total, acked |-> ret])

(* The rest of config_process when the transaction is over: the device is  *)
(* registered whether it answered or not.                                  *)
Register(ret) ==
    /\ slave_dev' = Append(slave_dev, [id |-> cmd.dev, timeSlot |-> timeSlot])
    /\ timeSlot' = timeSlot + 1
    /\ slave_dev_index' = slave_dev_index + 1
    /\ session' = Append(session, [dev |-> cmd.dev, timeSlot |-> timeSlot,
                                   start |-> cmd.start, cond |-> cmd.cond,
                                   total |-> cmd.total, acked |-> ret])

EndConfig ==
    /\ smpc = "config"
    /\ smpc' = "raise"
    /\ \E ret \in BOOLEAN : Register(ret) /\ RaiseConfig(ret)
    /\ cfg_state' = IF slave_dev_index + 1 >= cmd.slave_dev_num
                    THEN "CONGIG_START" ELSE "CONFIG_PROCESSING"
    /\ UNCHANGED <<data_forward_queue, rid, cmd, running, ctrl, mode, slave_num, rd>>
    /\ UNCHANGED syncVars

SetMode ==
    /\ Pop("DEV_MODE")
    /\ ~running
    /\ mode' = cmd'.arg
    /\ Executed(cmd', {"MODE"}, {}, "acked")
    /\ smpc' = "raise"
    /\ UNCHANGED <<rid, running, ctrl, rd>>
    /\ UNCHANGED cfgVars /\ UNCHANGED syncVars

(* A faulty variant: a discarded command wakes nobody.                     *)
DiscardSilently ==
    /\ Pop("DEV_CONF") \/ Pop("DEV_MODE")
    /\ running
    /\ Executed(cmd', {}, {}, "discarded")
    /\ UNCHANGED <<rid, smpc, running, ctrl, mode, rd>>
    /\ UNCHANGED cfgVars /\ UNCHANGED syncVars

(* "Device is running, discard": the command's success bit keeps whatever  *)
(* value an earlier command left in it.                                    *)
DiscardWhileRunning ==
    /\ Pop("DEV_CONF") \/ Pop("DEV_MODE")
    /\ running
    /\ Executed(cmd', {}, {}, "discarded")
    /\ smpc' = "raise"
    /\ UNCHANGED <<rid, running, ctrl, mode, rd>>
    /\ UNCHANGED cfgVars /\ UNCHANGED syncVars

(* A reset is taken off the queue and nothing is done for it.              *)
IgnoreReset ==
    /\ Pop("DEV_RESET")
    /\ Executed(cmd', {}, {}, "done")
    /\ smpc' = "raise"
    /\ UNCHANGED <<rid, running, ctrl, mode, rd>>
    /\ UNCHANGED cfgVars /\ UNCHANGED syncVars

(* A faulty variant: data of the previous detection is still awaited.      *)
StartDetectionKeepWait ==
    /\ running' = TRUE
    /\ slave_dev_index' = 0
    /\ sync_sem' = TRUE
    /\ timer' = "armed"
    /\ synced' = FALSE
    /\ UNCHANGED wait_for_data

(* ctrl_process, DEV_ENABLE with configured slaves and detection off: the  *)
(* token is given at once and changing the period starts the timer.        *)
StartDetection ==
    /\ running' = TRUE
    /\ slave_dev_index' = 0
    /\ wait_for_data' = FALSE
    /\ sync_sem' = TRUE
    /\ timer' = "armed"
    /\ synced' = FALSE

(* A faulty variant: detection starts although no slave is configured.     *)
CanStartUnconfigured == ~running

(* When ctrl_process lets a DEV_ENABLE start detection.                    *)
CanStart == slave_num > 0 /\ ~running

Enable ==
    /\ Pop("DEV_CTRL")
    /\ cmd'.arg = "DEV_ENABLE"
    /\ ctrl' = "DEV_ENABLE"
    /\ IF CanStart
       THEN StartDetection
       ELSE UNCHANGED <<running, slave_dev_index>> /\ UNCHANGED syncVars
    /\ Executed(cmd', {"CTRL"}, {}, IF slave_num > 0 THEN "acked" ELSE "discarded")
    /\ smpc' = "raise"
    /\ UNCHANGED <<rid, mode, slave_dev, timeSlot, slave_num, cfg_state, session, rd>>

(* A faulty variant: the sync timer keeps running.                         *)
StopKeepTimer == running' = FALSE /\ synced' = FALSE /\ UNCHANGED timer

(* ctrl_process, DEV_DISABLE: a token already given stays in sync_sem.     *)
StopDetection == running' = FALSE /\ synced' = FALSE /\ timer' = "stopped"

Disable ==
    /\ Pop("DEV_CTRL")
    /\ cmd'.arg = "DEV_DISABLE"
    /\ ctrl' = "DEV_DISABLE"
    /\ StopDetection
    /\ Executed(cmd', {"CTRL"}, {}, "acked")
    /\ smpc' = "raise"
    /\ UNCHANGED <<rid, mode, wait_for_data, sync_sem, rd>>
    /\ UNCHANGED cfgVars

(* FORWARD_SUCCESS_EVENT is set whatever became of the command.            *)
RaiseForward ==
    /\ smpc = "raise"
    /\ event' = event \cup {"FORWARD"}
    /\ smpc' = "drain"
    /\ UNCHANGED <<data_forward_queue, rid, verdict, cmd, running, ctrl, mode, rd>>
    /\ UNCHANGED cfgVars /\ UNCHANGED syncVars

QueueDrained ==
    /\ smpc = "drain"
    /\ data_forward_queue = <<>>
    /\ smpc' = "poll"
    /\ UNCHANGED msgVars
    /\ UNCHANGED <<cmd, running, ctrl, mode, rd>>
    /\ UNCHANGED cfgVars /\ UNCHANGED syncVars

-----------------------------------------------------------------------------
(* The measurement cycle.                                                  *)

Quiet == /\ UNCHANGED msgVars
         /\ UNCHANGED <<cmd, running, ctrl, mode>>
         /\ UNCHANGED cfgVars

(* A faulty variant: the token is taken whatever the control state.        *)
TokenAlone == sync_sem

(* What the task loop asks before it acts on the sync timer.               *)
Token == ctrl = "DEV_ENABLE" /\ sync_sem

(* Detection is off, or the timer has not expired: the loop starts over    *)
(* after its delay.                                                        *)
NoToken ==
    /\ smpc = "poll"
    /\ ~Token
    /\ smpc' = "drain"
    /\ UNCHANGED rd
    /\ Quiet /\ UNCHANGED syncVars

(* The token is taken and no data is awaited: send_sync_frame begins.      *)
BeginSync ==
    /\ smpc = "poll"
    /\ Token /\ ~wait_for_data
    /\ sync_sem' = FALSE
    /\ wait_for_data' = TRUE
    /\ smpc' = "sync_tx"
    /\ UNCHANGED <<timer, synced, rd>>
    /\ Quiet

(* The token is taken and data is awaited: the timer stops, perhaps after  *)
(* it gave one more token, and, in the conduction test,                    *)
(* read_cond_data_process begins.  The other modes read nothing.           *)
BeginRead ==
    /\ smpc = "poll"
    /\ Token /\ wait_for_data
    /\ sync_sem' \in {FALSE, timer = "armed"}
    /\ timer' = "stopped"
    /\ rd' = IF mode = "CONDUCTION_TEST" THEN 1 ELSE Len(slave_dev) + 1
    /\ smpc' = "read"
    /\ synced' = FALSE
    /\ UNCHANGED wait_for_data
    /\ Quiet

(* One device: its transaction ends, with data to upload or without.       *)
ReadDevice ==
    /\ smpc = "read"
    /\ rd <= Len(slave_dev)
    /\ rd' = rd + 1
    /\ UNCHANGED smpc
    /\ Quiet /\ UNCHANGED syncVars

(* A faulty variant: the sync frame after a reading is left to the next    *)
(* token, and data stays awaited.                                          *)
EndReadNoReset ==
    /\ smpc = "read"
    /\ rd > Len(slave_dev)
    /\ timer' = "armed"
    /\ smpc' = "drain"
    /\ UNCHANGED <<wait_for_data, sync_sem, synced, rd>>
    /\ Quiet

(* All devices were read: the timer starts, and the next sync frame        *)
(* follows in the same pass.                                               *)
EndRead ==
    /\ smpc = "read"
    /\ rd > Len(slave_dev)
    /\ timer' = "armed"
    /\ wait_for_data' = TRUE
    /\ smpc' = "sync_tx"
    /\ UNCHANGED <<sync_sem, synced, rd>>
    /\ Quiet

(* send_sync_frame returns, sent or not, and the timer restarts.           *)
EndSync ==
    /\ smpc = "sync_tx"
    /\ timer' = "armed"
    /\ synced' = TRUE
    /\ smpc' = "drain"
    /\ UNCHANGED <<wait_for_data, sync_sem, rd>>
    /\ Quiet

(* sync_timer_callback, on the timer service task.                         *)
TimerFires ==
    /\ timer = "armed"
    /\ ~sync_sem
    /\ sync_sem' = TRUE
    /\ UNCHANGED <<smpc, wait_for_data, timer, synced, rd>>
    /\ Quiet

Execute ==
    \/ BeginConfig \/ EndConfig \/ SetMode \/ DiscardWhileRunning \/ IgnoreReset
    \/ Enable \/ Disable \/ RaiseForward \/ QueueDrained

Measure ==
    \/ NoToken \/ BeginSync \/ BeginRead \/ ReadDevice \/ EndRead \/ EndSync

SmStep == Execute \/ Measure
SmNext == SmStep \/ TimerFires
=============================================================================
