------------------------- MODULE MasterControlProofs -------------------------
(***************************************************************************)
(* Theorems about MasterControl, for any set of devices, any device lists, *)
(* any queue capacity and any number of requests and timeouts.             *)
(***************************************************************************)
EXTENDS MasterControl, SequenceTheorems, TLAPS

(* Assumption used throughout: the values of the constants.                *)
USE PCmanagerMsgAssumption, PCinterfaceAssumption

(***************************************************************************)
(* Typing.                                                                 *)
(***************************************************************************)

(* The fields of a request.                                                *)
LEMMA RequestFields ==
    ASSUME NEW r \in Request
    PROVE  /\ r.type \in CmdType
           /\ r.arg \in Arg
           /\ r.list \in DeviceLists \cup {<<>>}
           /\ r.list \in Seq(Dev)
           /\ Len(r.list) \in Nat
           /\ r.type \in {"DEV_CONF", "DEV_RESET"} => r.list \in DeviceLists
           /\ r.type = "DEV_MODE" => r.arg \in SysMode
           /\ Commands(r) \in Nat
<1>1. /\ r.type \in CmdType
      /\ r.arg \in Arg
      /\ r.list \in DeviceLists \cup {<<>>}
      /\ r.type \in {"DEV_CONF", "DEV_RESET"} => r.list \in DeviceLists
      /\ r.type = "DEV_MODE" => r.arg \in SysMode
  BY DEF Request, CmdType, Arg
<1>2. <<>> \in Seq(Dev)
  OBVIOUS
<1>3. r.list \in Seq(Dev)
  BY <1>1, <1>2
<1>4. Len(r.list) \in Nat
  BY <1>3
<1> QED BY <1>1, <1>3, <1>4 DEF Commands

(* Every command PCinterface builds is a well-formed DataForward.          *)
LEMMA NextCommandType ==
    ASSUME TypeOK, ifpc = "add", index < Commands(req)
    PROVE  NextCommand \in Command /\ NextCfg \in [start : Nat, cond : Nat]
<1> USE DEF TypeOK, PcTypeOK, MsgTypeOK
<1>1. PerDevice(req) => req.list[index + 1] \in Dev
  <2> SUFFICES ASSUME PerDevice(req) PROVE req.list[index + 1] \in Dev
    OBVIOUS
  <2>1. index + 1 \in 1..Len(req.list)
    BY RequestFields DEF Commands
  <2> QED BY <2>1, RequestFields
<1>3. NextCfg \in [start : Nat, cond : Nat]
  <2>1. CASE req.type = "DEV_CONF"
    <3>1. Cond[req.list[index + 1]] \in Nat
      BY <1>1, <2>1 DEF PerDevice
    <3> QED BY <2>1, <3>1 DEF NextCfg
  <2>2. CASE req.type # "DEV_CONF"
    BY <2>2 DEF NextCfg
  <2> QED BY <2>1, <2>2
<1>4. NextCommand \in Command
  <2>1. TotalHarness(req.list) \in Total
    BY RequestFields DEF Total
  <2>2. NextCfg.start \in Nat /\ NextCfg.cond \in Nat
    BY <1>3
  <2>3. /\ (IF PerDevice(req) THEN req.list[index + 1] ELSE NoDev) \in Dev \cup {NoDev}
        /\ req.type \in {"DEV_CONF", "DEV_RESET"} =>
             (IF PerDevice(req) THEN req.list[index + 1] ELSE NoDev) \in Dev
    BY <1>1 DEF PerDevice
  <2>4. req.type = "DEV_CONF" => Len(req.list) > 0
    BY RequestFields DEF Commands, PerDevice
  <2> QED
    BY <2>1, <2>2, <2>3, <2>4, RequestFields DEF NextCommand, Command
<1> QED BY <1>3, <1>4

(* What keeps PCinterface's index inside the request.                      *)
IndexInv ==
    /\ ifpc = "add" => index < Commands(req)
    /\ ifpc \in {"wait", "check"} => index <= Commands(req)

(* The command of the transaction under way is a configuration.            *)
SmConfigInv == smpc = "config" => cmd.type = "DEV_CONF"

TypeInv == TypeOK /\ IndexInv /\ SmConfigInv

LEMMA InitTypeInv == Init => TypeInv
<1> SUFFICES ASSUME Init PROVE TypeInv
  OBVIOUS
<1> USE DEF Init, MsgInit, PcInit, SmInit
<1>1. MsgTypeOK
  BY DEF MsgTypeOK
<1>2. PcTypeOK
  BY DEF PcTypeOK, IfPc, Request, CtrlType
<1>3. NoCommand \in Command
  BY DEF Command, NoCommand, CmdType, Arg, CtrlType, Total
<1>4. <<>> \in Seq(SlaveDev) /\ <<>> \in Seq(SentConfig)
  OBVIOUS
<1>5. SmTypeOK
  BY <1>3, <1>4 DEF SmTypeOK, SmPc, CtrlType, SysMode, CfgState
<1> QED BY <1>1, <1>2, <1>5 DEF TypeInv, TypeOK, IndexInv, SmConfigInv, SmInit

LEMMA PcStepTypeInv == TypeInv /\ PcStep => TypeInv'
<1> SUFFICES ASSUME TypeInv, PcNext, UNCHANGED smVars
             PROVE  TypeInv'
  BY DEF PcStep
<1>1. SmTypeOK' /\ SmConfigInv'
  BY DEF TypeInv, TypeOK, SmTypeOK, smVars, SmConfigInv
<1> USE DEF TypeInv, TypeOK, MsgTypeOK, PcTypeOK, IndexInv, IfPc
<1>2. Commands(req) \in Nat
  BY RequestFields
<1>3. CASE Receive
  <2>1. Commands(req') \in Nat
    BY <1>3, RequestFields DEF Receive
  <2>2. MsgTypeOK'
    BY <1>3 DEF Receive
  <2>3. PcTypeOK' /\ IndexInv'
    BY <1>3, <2>1 DEF Receive
  <2> QED BY <1>1, <2>2, <2>3
<1>4. CASE AddCommand
  <2>1. NextCommand \in Command /\ cfg_cmd' \in [start : Nat, cond : Nat]
    BY <1>4, NextCommandType DEF AddCommand
  <2>2. MsgTypeOK'
    BY <1>4, <2>1 DEF AddCommand, HasRoom
  <2>3. PcTypeOK' /\ IndexInv'
    BY <1>2, <1>4, <2>1 DEF AddCommand
  <2> QED BY <1>1, <2>2, <2>3
<1>5. CASE AddTimeout
  <2>1. cfg_cmd' \in [start : Nat, cond : Nat]
    BY <1>5, NextCommandType DEF AddTimeout
  <2> QED BY <1>1, <1>2, <1>5, <2>1 DEF AddTimeout, Onward
<1>6. CASE Woken
  BY <1>1, <1>2, <1>6 DEF Woken
<1>7. CASE WaitTimeout
  BY <1>1, <1>2, <1>7 DEF WaitTimeout, Onward
<1>8. CASE CheckBit
  BY <1>1, <1>2, <1>8 DEF CheckBit, Onward
<1>9. CASE Respond
  BY <1>1, <1>2, <1>9 DEF Respond
<1> QED BY <1>3, <1>4, <1>5, <1>6, <1>7, <1>8, <1>9 DEF PcNext

(* Taking a command off the queue.                                         *)
LEMMA PopType ==
    ASSUME MsgTypeOK, NEW t, Pop(t)
    PROVE  /\ cmd' \in Command
           /\ cmd'.type = t
           /\ data_forward_queue' \in Seq(Command)
           /\ Len(data_forward_queue') <= FORWARD_QUEUE_SIZE
<1> QED BY HeadTailProperties DEF MsgTypeOK, Pop

(* Raising the events of an executed command.                              *)
LEMMA ExecutedType ==
    ASSUME MsgTypeOK, NEW c \in Command, NEW set \in SUBSET EventBit, NEW cleared,
           NEW outcome \in Outcome, Executed(c, set, cleared, outcome)
    PROVE  event' \subseteq EventBit /\ verdict' \subseteq Nat \X Nat \X Outcome
<1>1. <<c.rid, c.k, outcome>> \in Nat \X Nat \X Outcome
  BY DEF Command
<1> QED BY <1>1 DEF Executed, MsgTypeOK

LEMMA ExecuteTypeInv == TypeInv /\ Execute /\ UNCHANGED pcVars => TypeInv'
<1> SUFFICES ASSUME TypeInv, Execute, UNCHANGED pcVars
             PROVE  TypeInv'
  OBVIOUS
<1>1. PcTypeOK' /\ IndexInv'
  BY DEF TypeInv, TypeOK, PcTypeOK, IndexInv, pcVars
<1> USE DEF TypeInv, TypeOK, cfgVars, syncVars
<1>cfg. SmConfigInv'
  <2>1. CASE BeginConfig
    BY <2>1, PopType DEF BeginConfig, SmConfigInv
  <2>2. CASE ~BeginConfig
    BY <2>2 DEF Execute, EndConfig, SetMode, DiscardWhileRunning, IgnoreReset, Enable,
                Disable, RaiseForward, QueueDrained, SmConfigInv, Pop
  <2> QED BY <2>1, <2>2
<1> SUFFICES MsgTypeOK' /\ SmTypeOK'
  BY <1>1, <1>cfg
<1>2. {"CONFIG", "MODE", "CTRL"} \subseteq EventBit
  BY DEF EventBit
<1>3. {"acked", "failed", "discarded", "done"} \subseteq Outcome
  BY DEF Outcome
<1>4. CASE BeginConfig
  <2>1. PICK t : Pop(t)
    BY <1>4 DEF BeginConfig
  <2>2. /\ cmd' \in Command
        /\ data_forward_queue' \in Seq(Command)
        /\ Len(data_forward_queue') <= FORWARD_QUEUE_SIZE
    BY <2>1, PopType
  <2>3. cmd'.slave_dev_num \in Nat
    BY <2>2 DEF Command
  <2>4. MsgTypeOK'
    BY <1>4, <2>2 DEF BeginConfig, MsgTypeOK, pcVars
  <2>5. <<>> \in Seq(SlaveDev) /\ <<>> \in Seq(SentConfig)
    OBVIOUS
  <2>6. slave_dev' \in Seq(SlaveDev) /\ session' \in Seq(SentConfig)
    BY <1>4, <2>5 DEF BeginConfig, SmTypeOK
  <2>7. timeSlot' \in Nat /\ slave_dev_index' \in Nat /\ slave_num' \in Nat
    BY <1>4, <2>3 DEF BeginConfig, SmTypeOK
  <2>8. SmTypeOK'
    BY <1>4, <2>2, <2>6, <2>7 DEF BeginConfig, SmTypeOK, SmPc
  <2> QED BY <2>4, <2>8
<1>5. CASE EndConfig
  <2>1. PICK ret \in BOOLEAN : Register(ret) /\ RaiseConfig(ret)
    BY <1>5 DEF EndConfig
  <2>2. cmd \in Command
    BY DEF SmTypeOK
  <2>3. event' \subseteq EventBit /\ verdict' \subseteq Nat \X Nat \X Outcome
    BY <1>2, <1>3, <2>1, <2>2, ExecutedType DEF RaiseConfig
  <2>4. MsgTypeOK'
    BY <1>5, <2>3 DEF EndConfig, MsgTypeOK, pcVars
  <2>5. cmd.dev \in Dev
    BY <1>5, <2>2 DEF EndConfig, SmConfigInv, Command
  <2>6. [id |-> cmd.dev, timeSlot |-> timeSlot] \in SlaveDev
    BY <2>5 DEF SmTypeOK, SlaveDev
  <2>7. [dev |-> cmd.dev, timeSlot |-> timeSlot, start |-> cmd.start, cond |-> cmd.cond,
         total |-> cmd.total, acked |-> ret] \in SentConfig
    BY <2>1, <2>2, <2>5 DEF SmTypeOK, SentConfig, Command
  <2>8. slave_dev' \in Seq(SlaveDev) /\ session' \in Seq(SentConfig)
    BY <2>1, <2>6, <2>7 DEF Register, SmTypeOK
  <2>9. timeSlot' \in Nat /\ slave_dev_index' \in Nat
    BY <2>1 DEF Register, SmTypeOK
  <2>10. SmTypeOK'
    BY <1>5, <2>8, <2>9 DEF EndConfig, SmTypeOK, SmPc, CfgState
  <2> QED BY <2>4, <2>10
<1>6. ASSUME NEW t, Pop(t), NEW set \in SUBSET EventBit, NEW outcome \in Outcome,
             Executed(cmd', set, {}, outcome), rid' = rid
      PROVE  MsgTypeOK' /\ cmd' \in Command /\ cmd'.type = t
  <2>1. /\ cmd' \in Command
        /\ cmd'.type = t
        /\ data_forward_queue' \in Seq(Command)
        /\ Len(data_forward_queue') <= FORWARD_QUEUE_SIZE
    BY <1>6, PopType
  <2>2. event' \subseteq EventBit /\ verdict' \subseteq Nat \X Nat \X Outcome
    BY <1>6, <2>1, ExecutedType
  <2> QED BY <1>6, <2>1, <2>2 DEF MsgTypeOK
<1>7. CASE SetMode
  <2>1. MsgTypeOK' /\ cmd' \in Command /\ cmd'.type = "DEV_MODE"
    BY <1>2, <1>3, <1>6, <1>7 DEF SetMode
  <2>2. mode' \in SysMode
    BY <1>7, <2>1 DEF SetMode, Command
  <2> QED BY <1>7, <2>1, <2>2 DEF SetMode, SmTypeOK, SmPc
<1>8. CASE DiscardWhileRunning
  <2>1. MsgTypeOK' /\ cmd' \in Command
    BY <1>3, <1>6, <1>8 DEF DiscardWhileRunning
  <2> QED BY <1>8, <2>1 DEF DiscardWhileRunning, SmTypeOK, SmPc
<1>9. CASE IgnoreReset
  <2>1. MsgTypeOK' /\ cmd' \in Command
    BY <1>3, <1>6, <1>9 DEF IgnoreReset
  <2> QED BY <1>9, <2>1 DEF IgnoreReset, SmTypeOK, SmPc
<1>10. CASE Enable
  <2>1. PICK outcome \in Outcome : Executed(cmd', {"CTRL"}, {}, outcome)
    BY <1>3, <1>10 DEF Enable
  <2>2. MsgTypeOK' /\ cmd' \in Command
    BY <1>2, <1>6, <1>10, <2>1 DEF Enable
  <2>3. /\ running' \in BOOLEAN /\ slave_dev_index' \in Nat /\ wait_for_data' \in BOOLEAN
        /\ sync_sem' \in BOOLEAN /\ timer' \in {"stopped", "armed"} /\ synced' \in BOOLEAN
    <3>1. CASE CanStart
      <4>1. StartDetection
        BY <1>10, <3>1 DEF Enable
      <4> QED BY <4>1 DEF StartDetection
    <3>2. CASE ~CanStart
      BY <1>10, <3>2 DEF Enable, SmTypeOK
    <3> QED BY <3>1, <3>2
  <2> QED BY <1>10, <2>2, <2>3 DEF Enable, SmTypeOK, SmPc, CtrlType
<1>11. CASE Disable
  <2>1. MsgTypeOK' /\ cmd' \in Command
    BY <1>2, <1>3, <1>6, <1>11 DEF Disable
  <2> QED BY <1>11, <2>1 DEF Disable, StopDetection, SmTypeOK, SmPc, CtrlType
<1>12. CASE QueueDrained
  BY <1>12 DEF QueueDrained, msgVars, MsgTypeOK, SmTypeOK, SmPc
<1>13. CASE RaiseForward
  BY <1>13 DEF RaiseForward, MsgTypeOK, EventBit, SmTypeOK, SmPc
<1> QED BY <1>4, <1>5, <1>7, <1>8, <1>9, <1>10, <1>11, <1>12, <1>13 DEF Execute

LEMMA MeasureTypeInv == TypeInv /\ (Measure \/ TimerFires) /\ UNCHANGED pcVars => TypeInv'
<1> SUFFICES ASSUME TypeInv, Measure \/ TimerFires, UNCHANGED pcVars
             PROVE  TypeInv'
  OBVIOUS
<1>1. PcTypeOK' /\ IndexInv'
  BY DEF TypeInv, TypeOK, PcTypeOK, IndexInv, pcVars
<1> USE DEF TypeInv, TypeOK, cfgVars, syncVars, msgVars, Quiet
<1>2. MsgTypeOK'
  BY DEF MsgTypeOK, Measure, TimerFires, NoToken, BeginSync, BeginRead, ReadDevice,
         EndRead, EndSync
<1>3. SmConfigInv'
  BY DEF SmConfigInv, Measure, TimerFires, NoToken, BeginSync, BeginRead, ReadDevice,
         EndRead, EndSync
<1>4. SmTypeOK'
  <2> USE DEF SmTypeOK, SmPc
  <2>1. CASE NoToken
    BY <2>1 DEF NoToken
  <2>2. CASE BeginSync
    BY <2>2 DEF BeginSync
  <2>3. CASE BeginRead
    <3>1. Len(slave_dev) \in Nat
      OBVIOUS
    <3>2. rd' \in Nat
      BY <2>3, <3>1 DEF BeginRead
    <3>3. sync_sem' \in BOOLEAN /\ timer' = "stopped" /\ synced' = FALSE /\ smpc' = "read"
          /\ wait_for_data' = wait_for_data
      BY <2>3 DEF BeginRead
    <3>4. UNCHANGED <<cmd, running, ctrl, mode, slave_dev, timeSlot, slave_dev_index,
                      slave_num, cfg_state, session>>
      BY <2>3 DEF BeginRead
    <3> QED BY <3>2, <3>3, <3>4
  <2>4. CASE ReadDevice
    BY <2>4 DEF ReadDevice
  <2>5. CASE EndRead
    BY <2>5 DEF EndRead
  <2>6. CASE EndSync
    BY <2>6 DEF EndSync
  <2>7. CASE TimerFires
    BY <2>7 DEF TimerFires
  <2> QED BY <2>1, <2>2, <2>3, <2>4, <2>5, <2>6, <2>7 DEF Measure
<1> QED BY <1>1, <1>2, <1>3, <1>4

LEMMA NextTypeInv == TypeInv /\ [Next]_vars => TypeInv'
<1> SUFFICES ASSUME TypeInv, [Next]_vars PROVE TypeInv'
  OBVIOUS
<1>1. CASE PcStep
  BY <1>1, PcStepTypeInv
<1>2. CASE SmTask
  BY <1>2, ExecuteTypeInv, MeasureTypeInv DEF SmTask, SmStep
<1>3. CASE Timer
  BY <1>3, MeasureTypeInv DEF Timer
<1>4. CASE UNCHANGED vars
  BY <1>4 DEF vars, TypeInv, TypeOK, MsgTypeOK, PcTypeOK, SmTypeOK, IndexInv, SmConfigInv
<1> QED BY <1>1, <1>2, <1>3, <1>4 DEF Next

(* The types of both tasks and of their message object hold at all times;  *)
(* in particular data_forward_queue never exceeds its capacity.            *)
THEOREM MasterControlTyping == Spec => []TypeOK
<1>1. TypeInv => TypeOK
  BY DEF TypeInv
<1> QED BY InitTypeInv, NextTypeInv, <1>1, PTL DEF Spec

(***************************************************************************)
(* The measurement cycle.                                                  *)
(***************************************************************************)

(* A token can outlive a stop, and an enable can be discarded.  What makes *)
(* both harmless: without configured slaves no token was ever given, and   *)
(* while detection is off the control state hides the token.  While data   *)
(* is awaited between two passes of the loop, the sync frame is out.       *)
SyncInv ==
    /\ timer = "armed" => running
    /\ running => slave_num > 0 /\ ctrl = "DEV_ENABLE"
    /\ slave_num = 0 => ~sync_sem
    /\ ctrl = "DEV_ENABLE" /\ ~running => ~sync_sem
    /\ smpc \in {"read", "sync_tx"} => running
    /\ running /\ wait_for_data /\ smpc \notin {"read", "sync_tx"} => synced

LEMMA InitSyncInv == Init => SyncInv
BY DEF Init, SmInit, SyncInv

LEMMA ExecuteSyncInv == TypeInv /\ SyncInv /\ Execute => SyncInv'
<1> SUFFICES ASSUME TypeInv, SyncInv, Execute PROVE SyncInv'
  OBVIOUS
<1> USE DEF SyncInv, cfgVars, syncVars
<1>1. CASE BeginConfig
  <2>1. cmd' \in Command /\ cmd'.type = "DEV_CONF"
    BY <1>1, PopType DEF BeginConfig, TypeInv, TypeOK
  <2>2. cmd'.slave_dev_num \in Nat /\ cmd'.slave_dev_num > 0
    BY <2>1 DEF Command
  <2> QED BY <1>1, <2>2 DEF BeginConfig, Pop
<1>2. CASE EndConfig
  BY <1>2 DEF EndConfig
<1>3. CASE SetMode
  BY <1>3 DEF SetMode, Pop
<1>4. CASE DiscardWhileRunning
  BY <1>4 DEF DiscardWhileRunning, Pop
<1>5. CASE IgnoreReset
  BY <1>5 DEF IgnoreReset, Pop
<1>6. CASE Enable
  <2>1. smpc' = "raise" /\ smpc = "drain" /\ ctrl' = "DEV_ENABLE" /\ slave_num' = slave_num
    BY <1>6 DEF Enable, Pop
  <2>2. CASE CanStart
    <3>1. StartDetection
      BY <1>6, <2>2 DEF Enable
    <3> QED BY <2>1, <2>2, <3>1 DEF StartDetection, CanStart
  <2>3. CASE ~CanStart
    <3>1. UNCHANGED <<running, wait_for_data, sync_sem, timer, synced>>
      BY <1>6, <2>3 DEF Enable
    <3>2. slave_num \in Nat
      BY DEF TypeInv, TypeOK, SmTypeOK
    <3> QED BY <2>1, <2>3, <3>1, <3>2 DEF CanStart
  <2> QED BY <2>2, <2>3
<1>7. CASE Disable
  BY <1>7 DEF Disable, StopDetection, Pop
<1>8. CASE QueueDrained
  BY <1>8 DEF QueueDrained
<1>9. CASE RaiseForward
  BY <1>9 DEF RaiseForward
<1> QED BY <1>1, <1>2, <1>3, <1>4, <1>5, <1>6, <1>7, <1>8, <1>9 DEF Execute

LEMMA MeasureSyncInv == SyncInv /\ (Measure \/ TimerFires) => SyncInv'
<1> SUFFICES ASSUME SyncInv, Measure \/ TimerFires PROVE SyncInv'
  OBVIOUS
<1> USE DEF SyncInv, cfgVars, syncVars, Quiet
<1>1. CASE NoToken
  BY <1>1 DEF NoToken
<1>2. CASE BeginSync
  BY <1>2 DEF BeginSync, Token
<1>3. CASE BeginRead
  BY <1>3 DEF BeginRead, Token
<1>4. CASE ReadDevice
  BY <1>4 DEF ReadDevice
<1>5. CASE EndRead
  BY <1>5 DEF EndRead
<1>6. CASE EndSync
  BY <1>6 DEF EndSync
<1>7. CASE TimerFires
  BY <1>7 DEF TimerFires
<1> QED BY <1>1, <1>2, <1>3, <1>4, <1>5, <1>6, <1>7 DEF Measure

LEMMA NextSyncInv == TypeInv /\ SyncInv /\ [Next]_vars => SyncInv'
<1> SUFFICES ASSUME TypeInv, SyncInv, [Next]_vars PROVE SyncInv'
  OBVIOUS
<1>1. CASE PcStep
  BY <1>1 DEF PcStep, smVars, SyncInv
<1>2. CASE SmTask
  BY <1>2, ExecuteSyncInv, MeasureSyncInv DEF SmTask, SmStep
<1>3. CASE Timer
  BY <1>3, MeasureSyncInv DEF Timer
<1>4. CASE UNCHANGED vars
  BY <1>4 DEF vars, SyncInv
<1> QED BY <1>1, <1>2, <1>3, <1>4 DEF Next

LEMMA SyncInvariant == Spec => [](TypeInv /\ SyncInv)
<1>1. Init => TypeInv /\ SyncInv
  BY InitTypeInv, InitSyncInv
<1>2. TypeInv /\ SyncInv /\ [Next]_vars => TypeInv' /\ SyncInv'
  BY NextTypeInv, NextSyncInv
<1> QED BY <1>1, <1>2, PTL DEF Spec

(* No reading of slaves and no sync frame outside detection.               *)
THEOREM NoCycleOutsideDetection == Spec => []CycleOnlyWhileRunning
<1>1. SyncInv => CycleOnlyWhileRunning
  BY DEF SyncInv, CycleOnlyWhileRunning
<1> QED BY <1>1, SyncInvariant, PTL

(* The sync timer runs only during detection, and detection only with      *)
(* configured slaves.                                                      *)
THEOREM NoTimerOutsideDetection == Spec => []TimerOnlyWhileRunning
<1>1. SyncInv => TimerOnlyWhileRunning
  BY DEF SyncInv, TimerOnlyWhileRunning
<1> QED BY <1>1, SyncInvariant, PTL

(* Between two readings, and before the first one after a start, a sync    *)
(* frame was sent.                                                         *)
THEOREM EveryReadFollowsASync == Spec => ReadFollowsSync
<1> DEFINE Step == smpc = "poll" /\ smpc' = "read" => synced
<1>1. ASSUME SyncInv, Next, smpc = "poll", smpc' = "read" PROVE synced
  <2>1. BeginRead
    BY <1>1 DEF Next, PcStep, smVars, SmTask, SmStep, Execute, BeginConfig, EndConfig, SetMode,
                DiscardWhileRunning, IgnoreReset, Enable, Disable, RaiseForward, QueueDrained, Pop, Measure,
                NoToken, BeginSync, ReadDevice, EndRead, EndSync, Timer, TimerFires
  <2> QED BY <1>1, <2>1 DEF BeginRead, Token, SyncInv
<1>2. SyncInv /\ [Next]_vars => [Step]_vars
  BY <1>1
<1> QED BY <1>2, SyncInvariant, PTL DEF Spec, ReadFollowsSync

(***************************************************************************)
(* Registration.                                                           *)
(***************************************************************************)

(* The time slots of the registered devices are 0, 1, 2, ... in list order.*)
THEOREM SlotsAreConsecutive == Spec => []SlotsConsecutive
<1>1. Init => SlotsConsecutive
  BY DEF Init, SmInit, SlotsConsecutive
<1>2. TypeInv /\ SlotsConsecutive /\ [Next]_vars => SlotsConsecutive'
  <2> SUFFICES ASSUME TypeInv, SlotsConsecutive, [Next]_vars PROVE SlotsConsecutive'
    OBVIOUS
  <2> USE DEF SlotsConsecutive
  <2>1. CASE UNCHANGED <<slave_dev, timeSlot>>
    BY <2>1
  <2>2. CASE BeginConfig
    <3>1. CASE cfg_state = "CONGIG_START"
      <4>1. timeSlot' = 0 /\ slave_dev' = <<>>
        BY <2>2, <3>1 DEF BeginConfig
      <4> QED BY <4>1
    <3>2. CASE cfg_state # "CONGIG_START"
      BY <2>1, <2>2, <3>2 DEF BeginConfig
    <3> QED BY <3>1, <3>2
  <2>3. CASE EndConfig
    <3> DEFINE dev == [id |-> cmd.dev, timeSlot |-> timeSlot]
    <3>1. slave_dev' = Append(slave_dev, dev) /\ timeSlot' = timeSlot + 1
      BY <2>3 DEF EndConfig, Register
    <3>2. slave_dev \in Seq(SlaveDev) /\ timeSlot \in Nat /\ cmd.dev \in Dev
      BY <2>3 DEF EndConfig, TypeInv, TypeOK, SmTypeOK, SmConfigInv, Command
    <3>3. dev \in SlaveDev
      BY <3>2 DEF SlaveDev
    <3>4. /\ Len(slave_dev') = Len(slave_dev) + 1
          /\ \A i \in 1..Len(slave_dev) : slave_dev'[i] = slave_dev[i]
          /\ slave_dev'[Len(slave_dev) + 1] = dev
      BY <3>1, <3>2, <3>3, AppendProperties
    <3> HIDE DEF dev
    <3>5. dev.timeSlot = Len(slave_dev)
      BY DEF dev
    <3>6. Len(slave_dev) \in Nat
      BY <3>2
    <3>7. ASSUME NEW i \in 1..Len(slave_dev') PROVE slave_dev'[i].timeSlot = i - 1
      <4>1. CASE i = Len(slave_dev) + 1
        BY <3>4, <3>5, <3>6, <4>1
      <4>2. CASE i \in 1..Len(slave_dev)
        BY <3>4, <4>2
      <4> QED BY <3>4, <3>6, <4>1, <4>2
    <3> QED BY <3>1, <3>4, <3>7
  <2> QED
    BY <2>1, <2>2, <2>3 DEF Next, PcStep, smVars, SmTask, SmStep, Execute, SetMode,
       DiscardWhileRunning, IgnoreReset, Enable, Disable, RaiseForward, QueueDrained, cfgVars, Measure, NoToken,
       BeginSync, BeginRead, ReadDevice, EndRead, EndSync, Timer, TimerFires, Quiet, vars
<1> QED BY <1>1, <1>2, SyncInvariant, PTL DEF Spec

(***************************************************************************)
(* The status byte: the strengthening.                                     *)
(***************************************************************************)

(* SlaveManager has taken a command and has not raised FORWARD for it yet. *)
Busy == smpc \in {"config", "raise"}

(* The command PCinterface forwarded last.                                 *)
Awaited(c) == c.type = req.type /\ c.rid = rid /\ c.k = index

(* While no forward() has timed out, at most one command is outstanding,   *)
(* PCinterface waits for exactly that one, and FORWARD is set only between *)
(* SlaveManager's raising it and PCinterface's taking it.                  *)
Queued   == /\ Len(data_forward_queue) = 1
            /\ Awaited(data_forward_queue[1])
            /\ ~Busy
            /\ "FORWARD" \notin event
InConfig == /\ data_forward_queue = <<>>
            /\ smpc = "config"
            /\ Awaited(cmd)
            /\ "FORWARD" \notin event
Raising  == data_forward_queue = <<>> /\ smpc = "raise" /\ "FORWARD" \notin event
Raised   == data_forward_queue = <<>> /\ ~Busy /\ "FORWARD" \in event
Quiesced == data_forward_queue = <<>> /\ ~Busy /\ "FORWARD" \notin event

PhaseInv ==
    /\ ifpc # "wait" => Quiesced
    /\ ifpc = "wait" => Queued \/ InConfig \/ Raising \/ Raised
    /\ ifpc \in {"wait", "check"} => index > 0
    /\ ifpc = "respond" => index = Commands(req)

(* How many commands of the request SlaveManager is through with, and how  *)
(* many PCinterface has looked at the success bit of.                      *)
Judged  == IF ifpc = "wait" /\ (data_forward_queue # <<>> \/ smpc = "config")
           THEN index - 1 ELSE index
Checked == IF ifpc \in {"wait", "check"} THEN index - 1 ELSE index

Ends(k, outcome) == <<rid, k, outcome>> \in verdict

(* No verdict is ahead of its command.                                     *)
VerdictInv == \A v \in verdict : v[1] = rid => v[2] <= Judged

(* Between verdict and check the success bit is this command's own.        *)
BitInv ==
    (Judged # Checked /\ req.type # "DEV_RESET" /\ ~Ends(index, "discarded"))
      => (SuccessBit(req) \in event <=> Ends(index, "acked"))

(* is_success sums up the commands checked so far.                         *)
SuccessInv ==
    (req.type # "DEV_RESET" /\ \A k \in 1..Judged : ~Ends(k, "discarded"))
      => (is_success <=> \A k \in 1..Checked : Ends(k, "acked"))

StatusInv == InStep => PhaseInv /\ VerdictInv /\ BitInv /\ SuccessInv

LEMMA InitStatusInv == Init => StatusInv
<1> SUFFICES ASSUME Init PROVE PhaseInv /\ VerdictInv /\ BitInv /\ SuccessInv
  BY DEF StatusInv
<1> USE DEF Init, MsgInit, PcInit, SmInit
<1>1. PhaseInv
  BY DEF PhaseInv, Quiesced, Busy
<1>2. Judged = 0 /\ Checked = 0
  BY DEF Judged, Checked
<1>3. VerdictInv
  BY DEF VerdictInv
<1>4. BitInv
  BY <1>2 DEF BitInv
<1>5. SuccessInv
  BY <1>2 DEF SuccessInv
<1> QED BY <1>1, <1>3, <1>4, <1>5

(***************************************************************************)
(* Steps of PCinterface.                                                   *)
(***************************************************************************)

LEMMA PcStepStatusInv == TypeInv /\ StatusInv /\ PcStep => StatusInv'
<1> SUFFICES ASSUME TypeInv, StatusInv, PcNext, UNCHANGED smVars, InStep'
             PROVE  PhaseInv' /\ VerdictInv' /\ BitInv' /\ SuccessInv'
  BY DEF PcStep, StatusInv
<1> USE DEF smVars
<1>t. /\ index \in Nat /\ timeouts \in Nat /\ is_success \in BOOLEAN /\ lost \in BOOLEAN
      /\ req \in Request
      /\ data_forward_queue \in Seq(Command)
      /\ verdict \subseteq Nat \X Nat \X Outcome
      /\ ifpc \in IfPc
  BY DEF TypeInv, TypeOK, MsgTypeOK, PcTypeOK
<1>n. Commands(req) \in Nat
  BY <1>t, RequestFields
<1>i. InStep
  BY <1>t DEF InStep, PcNext, Receive, AddCommand, AddTimeout, Woken, WaitTimeout, CheckBit, Respond
<1>p. PhaseInv /\ VerdictInv /\ BitInv /\ SuccessInv
  BY <1>i DEF StatusInv
<1>1. CASE Receive
  <2>1. Commands(req') \in Nat
    BY <1>1, RequestFields DEF Receive
  <2>2. PhaseInv'
    BY <1>1, <1>p, <2>1 DEF Receive, PhaseInv, Quiesced, Busy
  <2>3. Judged' = 0 /\ Checked' = 0
    BY <1>1 DEF Receive, Judged, Checked
  <2>4. VerdictInv'
    BY <1>1 DEF Receive, VerdictInv
  <2>5. BitInv' /\ SuccessInv'
    BY <1>1, <2>3 DEF Receive, BitInv, SuccessInv
  <2> QED BY <2>2, <2>4, <2>5
<1>2. CASE AddCommand
  <2>1. Quiesced /\ ifpc = "add"
    BY <1>2, <1>p DEF AddCommand, PhaseInv
  <2>2. data_forward_queue' = <<NextCommand>>
    BY <1>2, <2>1 DEF AddCommand, Quiesced
  <2>3. /\ Len(data_forward_queue') = 1
        /\ data_forward_queue'[1] = NextCommand
        /\ data_forward_queue' # <<>>
    BY <2>2
  <2>4. Queued'
    BY <1>2, <2>1, <2>3 DEF AddCommand, Queued, Quiesced, Busy, Awaited, NextCommand
  <2>5. PhaseInv'
    BY <1>2, <2>4, <1>t DEF AddCommand, PhaseInv
  <2>6. Judged' = Judged /\ Checked' = Checked /\ Judged = index /\ Checked = index
    BY <1>2, <2>1, <2>3, <1>t DEF AddCommand, Judged, Checked
  <2>7. VerdictInv'
    BY <1>2, <1>p, <2>6 DEF AddCommand, VerdictInv
  <2>8. BitInv'
    BY <2>6 DEF BitInv
  <2>9. SuccessInv'
    BY <1>2, <1>p, <2>6 DEF AddCommand, SuccessInv, Ends
  <2> QED BY <2>5, <2>7, <2>8, <2>9
<1>3. CASE AddTimeout
  BY <1>3 DEF AddTimeout, InStep
<1>4. CASE Woken
  <2>1. Raised
    BY <1>4, <1>p DEF Woken, PhaseInv, Queued, InConfig, Raising
  <2>2. Judged = index /\ Checked = index - 1
    BY <1>4, <2>1 DEF Woken, Raised, Busy, Judged, Checked
  <2>3. Judged' = index /\ Checked' = index - 1 /\ index' = index
    BY <1>4 DEF Woken, Judged, Checked
  <2>4. PhaseInv'
    BY <1>4, <2>1, <1>p DEF Woken, PhaseInv, Raised, Quiesced, Busy
  <2>5. VerdictInv'
    BY <1>4, <1>p, <2>2, <2>3 DEF Woken, VerdictInv
  <2>6. SuccessBit(req) # "FORWARD"
    BY <1>t DEF Request, SuccessBit
  <2>7. BitInv'
    <3>1. /\ UNCHANGED <<req, rid, verdict>> /\ event' = event \ {"FORWARD"}
          /\ SuccessBit(req)' = SuccessBit(req)
      BY <1>4 DEF Woken, SuccessBit
    <3>2. SuccessBit(req)' \in event' <=> SuccessBit(req) \in event
      BY <3>1, <2>6
    <3>3. Ends(index, "acked")' = Ends(index, "acked")
          /\ Ends(index, "discarded")' = Ends(index, "discarded")
      BY <3>1, <2>3 DEF Ends
    <3> HIDE DEF Ends
    <3> QED BY <1>p, <2>2, <2>3, <3>1, <3>2, <3>3, <1>t DEF BitInv
  <2>8. SuccessInv'
    BY <1>4, <1>p, <2>2, <2>3 DEF Woken, SuccessInv, Ends
  <2> QED BY <2>4, <2>5, <2>7, <2>8
<1>5. CASE WaitTimeout
  BY <1>5, <1>t DEF WaitTimeout, InStep
<1>6. CASE CheckBit
  <2>1. Quiesced /\ index > 0 /\ Judged = index /\ Checked = index - 1
    BY <1>6, <1>p DEF CheckBit, PhaseInv, Judged, Checked
  <2>2. ifpc' \in {"add", "respond"} /\ (ifpc' = "respond" => index = Commands(req))
    BY <1>6 DEF CheckBit, Onward
  <2>3. Judged' = index /\ Checked' = index
    BY <1>6, <2>2 DEF CheckBit, Judged, Checked
  <2>4. PhaseInv'
    BY <1>6, <2>1, <2>2 DEF CheckBit, PhaseInv, Quiesced, Busy, Commands, PerDevice
  <2>5. VerdictInv'
    BY <1>6, <1>p, <2>1, <2>3 DEF CheckBit, VerdictInv
  <2>6. BitInv'
    BY <2>3 DEF BitInv
  <2>7. SuccessInv'
    <3> SUFFICES ASSUME req.type # "DEV_RESET", \A k \in 1..index : ~Ends(k, "discarded")
                 PROVE  is_success' <=> \A k \in 1..index : Ends(k, "acked")
      BY <1>6, <2>3 DEF CheckBit, SuccessInv, Ends
    <3>1. index \in 1..index
      BY <2>1, <1>t
    <3>2. SuccessBit(req) \in event <=> Ends(index, "acked")
      BY <1>p, <2>1, <3>1, <1>t DEF BitInv
    <3>3. is_success <=> \A k \in 1..(index - 1) : Ends(k, "acked")
      BY <1>p, <2>1 DEF SuccessInv
    <3>4. 1..index = (1..(index - 1)) \cup {index}
      BY <2>1, <1>t
    <3>5. is_success' <=> (is_success /\ SuccessBit(req) \in event)
      BY <1>6 DEF CheckBit
    <3> HIDE DEF Ends
    <3> QED BY <3>2, <3>3, <3>4, <3>5
  <2> QED BY <2>4, <2>5, <2>6, <2>7
<1>7. CASE Respond
  <2>1. Judged' = index /\ Checked' = index /\ Judged = index /\ Checked = index
    BY <1>7 DEF Respond, Judged, Checked
  <2>2. PhaseInv'
    BY <1>7, <1>p DEF Respond, PhaseInv, Quiesced, Busy
  <2>3. VerdictInv' /\ BitInv' /\ SuccessInv'
    BY <1>7, <1>p, <2>1 DEF Respond, VerdictInv, BitInv, SuccessInv, Ends
  <2> QED BY <2>2, <2>3
<1> QED BY <1>1, <1>2, <1>3, <1>4, <1>5, <1>6, <1>7 DEF PcNext
(***************************************************************************)
(* Steps of SlaveManager.                                                  *)
(***************************************************************************)

(* A verdict on the command awaited, with its success bit telling the      *)
(* truth about it or the command discarded.                                *)
LEMMA VerdictOnAwaited ==
    ASSUME TypeInv, PhaseInv, VerdictInv, SuccessInv, UNCHANGED pcVars, rid' = rid,
           ifpc = "wait", data_forward_queue # <<>> \/ smpc = "config",
           NEW outcome \in Outcome, verdict' = verdict \cup {<<rid, index, outcome>>},
           data_forward_queue' = <<>>, smpc' = "raise", "FORWARD" \notin event',
           req.type # "DEV_RESET" /\ outcome # "discarded"
             => (SuccessBit(req) \in event' <=> outcome = "acked")
    PROVE  PhaseInv' /\ VerdictInv' /\ BitInv' /\ SuccessInv'
<1> USE DEF pcVars
<1>1. index \in Nat /\ index > 0 /\ verdict \subseteq Nat \X Nat \X Outcome
  BY DEF TypeInv, TypeOK, MsgTypeOK, PcTypeOK, PhaseInv
<1>2. Judged = index - 1 /\ Judged' = index /\ Checked = index - 1 /\ Checked' = index - 1
  BY DEF Judged, Checked
<1>3. PhaseInv'
  BY DEF PhaseInv, Raising, Commands, PerDevice
<1>4. VerdictInv'
  <2> SUFFICES ASSUME NEW v \in verdict', v[1] = rid PROVE v[2] <= index
    BY <1>2 DEF VerdictInv
  <2>1. CASE v \in verdict
    BY <1>1, <1>2, <2>1 DEF VerdictInv
  <2>2. CASE v = <<rid, index, outcome>>
    BY <1>1, <2>2
  <2> QED BY <2>1, <2>2
<1>5. ASSUME NEW o \in Outcome PROVE Ends(index, o)' <=> o = outcome
  <2>1. ~Ends(index, o)
    BY <1>1, <1>2 DEF Ends, VerdictInv
  <2> QED BY <2>1 DEF Ends
<1>6. BitInv'
  <2>1. SuccessBit(req)' = SuccessBit(req)
    BY DEF SuccessBit
  <2> QED BY <1>5, <2>1 DEF BitInv, Outcome
<1>7. SuccessInv'
  <2> SUFFICES ASSUME req.type # "DEV_RESET", \A k \in 1..index : ~Ends(k, "discarded")'
               PROVE  is_success <=> \A k \in 1..(index - 1) : Ends(k, "acked")'
    BY <1>2 DEF SuccessInv, Ends
  <2>1. ASSUME NEW k \in 1..(index - 1), NEW o PROVE Ends(k, o)' <=> Ends(k, o)
    BY <1>1 DEF Ends
  <2>2. \A k \in 1..(index - 1) : ~Ends(k, "discarded")
    BY <1>1, <2>1
  <2> QED BY <1>2, <2>1, <2>2 DEF SuccessInv
<1> QED BY <1>3, <1>4, <1>6, <1>7

(* A command at the head of the queue is the one awaited, and taking it    *)
(* empties the queue.                                                      *)
LEMMA PopAwaited ==
    ASSUME TypeInv, PhaseInv, NEW t, Pop(t)
    PROVE  /\ ifpc = "wait" /\ data_forward_queue # <<>> /\ "FORWARD" \notin event
           /\ data_forward_queue' = <<>>
           /\ cmd'.type = t /\ req.type = t /\ cmd'.rid = rid /\ cmd'.k = index
<1>1. data_forward_queue \in Seq(Command)
  BY DEF TypeInv, TypeOK, MsgTypeOK
<1>2. /\ data_forward_queue # <<>> /\ smpc = "drain"
      /\ cmd' = Head(data_forward_queue) /\ cmd'.type = t
      /\ data_forward_queue' = Tail(data_forward_queue)
  BY DEF Pop
<1>3. ifpc = "wait" /\ Queued
  BY <1>2 DEF PhaseInv, Quiesced, InConfig, Raising, Raised
<1>4. cmd' = data_forward_queue[1] /\ Len(data_forward_queue') = 0
      /\ data_forward_queue' \in Seq(Command)
  BY <1>1, <1>2, <1>3, HeadTailProperties DEF Queued
<1>5. data_forward_queue' = <<>>
  BY <1>4, EmptySeq
<1> QED BY <1>2, <1>3, <1>4, <1>5 DEF Queued, Awaited

(* A step that leaves request, events and verdicts alone.                  *)
LEMMA VerdictsUntouched ==
    ASSUME VerdictInv, BitInv, SuccessInv, UNCHANGED pcVars,
           UNCHANGED <<event, rid, verdict>>, Judged' = Judged
    PROVE  VerdictInv' /\ BitInv' /\ SuccessInv'
<1>1. Checked' = Checked /\ SuccessBit(req)' = SuccessBit(req)
  BY DEF Checked, SuccessBit, pcVars
<1>2. ASSUME NEW k, NEW o PROVE Ends(k, o)' <=> Ends(k, o)
  BY DEF Ends
<1>3. VerdictInv'
  BY DEF VerdictInv
<1>4. BitInv'
  BY <1>1, <1>2 DEF BitInv, pcVars
<1>5. SuccessInv'
  BY <1>1, <1>2 DEF SuccessInv, pcVars
<1> QED BY <1>3, <1>4, <1>5

LEMMA ExecuteStatusInv == TypeInv /\ StatusInv /\ Execute /\ UNCHANGED pcVars => StatusInv'
<1> SUFFICES ASSUME TypeInv, PhaseInv, VerdictInv, BitInv, SuccessInv, Execute,
                    UNCHANGED pcVars
             PROVE  PhaseInv' /\ VerdictInv' /\ BitInv' /\ SuccessInv'
  BY DEF StatusInv, InStep, pcVars
<1>1. CASE BeginConfig
  <2>1. /\ ifpc = "wait" /\ data_forward_queue # <<>> /\ data_forward_queue' = <<>>
        /\ Awaited(cmd)' /\ smpc' = "config"
        /\ "FORWARD" \notin event /\ UNCHANGED <<event, rid, verdict>>
    BY <1>1, PopAwaited DEF BeginConfig, Awaited, pcVars
  <2>2. PhaseInv'
    BY <2>1 DEF PhaseInv, InConfig, pcVars, Commands, PerDevice
  <2>3. Judged' = Judged /\ Checked' = Checked
    BY <2>1 DEF Judged, Checked, pcVars
  <2> QED BY <2>1, <2>2, <2>3, VerdictsUntouched
<1>2. CASE EndConfig
  <2>1. PICK ret \in BOOLEAN : RaiseConfig(ret)
    BY <1>2 DEF EndConfig
  <2>2. ifpc = "wait" /\ InConfig /\ smpc' = "raise" /\ UNCHANGED <<data_forward_queue, rid>>
    BY <1>2 DEF EndConfig, PhaseInv, Quiesced, Queued, Raising, Raised, Busy
  <2>3. req.type = "DEV_CONF"
    BY <1>2, <2>2 DEF EndConfig, InConfig, Awaited, TypeInv, SmConfigInv
  <2>4. PICK outcome \in Outcome : /\ outcome = (IF ret THEN "acked" ELSE "failed")
                                  /\ verdict' = verdict \cup {<<rid, index, outcome>>}
    BY <2>1, <2>2 DEF RaiseConfig, Executed, InConfig, Awaited, Outcome
  <2>5. /\ "FORWARD" \notin event'
        /\ "CONFIG" \in event' <=> outcome = "acked"
    BY <2>1, <2>2, <2>4 DEF RaiseConfig, Executed, InConfig
  <2> QED BY <2>2, <2>3, <2>4, <2>5, VerdictOnAwaited DEF InConfig, SuccessBit
<1>3. ASSUME NEW t, Pop(t), NEW set \in SUBSET EventBit, NEW outcome \in Outcome,
             "FORWARD" \notin set, Executed(cmd', set, {}, outcome),
             smpc' = "raise", rid' = rid,
             req.type # "DEV_RESET" /\ outcome # "discarded"
               => outcome = "acked" /\ SuccessBit(req) \in set
      PROVE  PhaseInv' /\ VerdictInv' /\ BitInv' /\ SuccessInv'
  <2>1. /\ ifpc = "wait" /\ data_forward_queue # <<>> /\ data_forward_queue' = <<>>
        /\ cmd'.rid = rid /\ cmd'.k = index
        /\ "FORWARD" \notin event
    BY <1>3, PopAwaited
  <2>2. /\ event' = event \cup set
        /\ verdict' = verdict \cup {<<rid, index, outcome>>}
    BY <1>3, <2>1 DEF Executed
  <2> HIDE DEF SuccessBit
  <2>3. /\ "FORWARD" \notin event'
        /\ req.type # "DEV_RESET" /\ outcome # "discarded"
             => (SuccessBit(req) \in event' <=> outcome = "acked")
    BY <1>3, <2>1, <2>2
  <2> QED BY <1>3, <2>1, <2>2, <2>3, VerdictOnAwaited
<1>4. CASE SetMode
  <2>1. req.type = "DEV_MODE"
    BY <1>4, PopAwaited DEF SetMode
  <2> QED BY <1>3, <1>4, <2>1 DEF SetMode, SuccessBit, EventBit, Outcome
<1>5. CASE DiscardWhileRunning
  <2>1. PICK t : Pop(t)
    BY <1>5 DEF DiscardWhileRunning
  <2> QED BY <1>3, <1>5, <2>1 DEF DiscardWhileRunning, EventBit, Outcome
<1>6. CASE IgnoreReset
  <2>1. req.type = "DEV_RESET"
    BY <1>6, PopAwaited DEF IgnoreReset
  <2> QED BY <1>3, <1>6, <2>1 DEF IgnoreReset, EventBit, Outcome
<1>7. CASE Enable
  <2>1. req.type = "DEV_CTRL"
    BY <1>7, PopAwaited DEF Enable
  <2>2. PICK outcome \in {"acked", "discarded"} : Executed(cmd', {"CTRL"}, {}, outcome)
    BY <1>7 DEF Enable
  <2> QED BY <1>3, <1>7, <2>1, <2>2 DEF Enable, SuccessBit, EventBit, Outcome
<1>8. CASE Disable
  <2>1. req.type = "DEV_CTRL"
    BY <1>8, PopAwaited DEF Disable
  <2> QED BY <1>3, <1>8, <2>1 DEF Disable, SuccessBit, EventBit, Outcome
<1>9. CASE RaiseForward
  <2>1. ifpc = "wait" /\ Raising
    BY <1>9 DEF RaiseForward, PhaseInv, Quiesced, Queued, InConfig, Raised, Busy
  <2>2. /\ event' = event \cup {"FORWARD"} /\ smpc' = "drain"
        /\ UNCHANGED <<data_forward_queue, rid, verdict>>
    BY <1>9 DEF RaiseForward
  <2>3. PhaseInv'
    BY <2>1, <2>2 DEF PhaseInv, Raising, Raised, Busy, pcVars, Commands, PerDevice
  <2>4. Judged' = Judged /\ Checked' = Checked
    BY <2>1, <2>2 DEF Raising, Judged, Checked, pcVars
  <2>5. SuccessBit(req) # "FORWARD" /\ SuccessBit(req)' = SuccessBit(req)
    BY DEF TypeInv, TypeOK, PcTypeOK, Request, SuccessBit, pcVars
  <2>6. VerdictInv' /\ SuccessInv'
    BY <2>2, <2>4 DEF VerdictInv, SuccessInv, Ends, pcVars
  <2>7. BitInv'
    <3>1. SuccessBit(req)' \in event' <=> SuccessBit(req) \in event
      BY <2>2, <2>5
    <3> QED BY <2>2, <2>4, <3>1 DEF BitInv, Ends, pcVars
  <2> QED BY <2>3, <2>6, <2>7
<1>10. CASE QueueDrained
  <2>1. /\ UNCHANGED <<data_forward_queue, event, rid, verdict>>
        /\ smpc = "drain" /\ smpc' = "poll"
    BY <1>10 DEF QueueDrained, msgVars
  <2>2. PhaseInv'
    BY <2>1 DEF PhaseInv, Quiesced, Queued, InConfig, Raising, Raised, Busy, Awaited, pcVars,
                Commands, PerDevice
  <2>3. Judged' = Judged /\ Checked' = Checked
    BY <2>1 DEF Judged, Checked, pcVars
  <2> QED BY <2>1, <2>2, <2>3, VerdictsUntouched
<1> QED BY <1>1, <1>2, <1>4, <1>5, <1>6, <1>7, <1>8, <1>9, <1>10 DEF Execute

LEMMA MeasureStatusInv ==
    StatusInv /\ (Measure \/ TimerFires) /\ UNCHANGED pcVars => StatusInv'
<1> SUFFICES ASSUME PhaseInv, VerdictInv, BitInv, SuccessInv, Measure \/ TimerFires,
                    UNCHANGED pcVars
             PROVE  PhaseInv' /\ VerdictInv' /\ BitInv' /\ SuccessInv'
  BY DEF StatusInv, InStep, pcVars
<1>1. UNCHANGED <<data_forward_queue, event, rid, verdict, cmd>>
  BY DEF Measure, TimerFires, NoToken, BeginSync, BeginRead, ReadDevice, EndRead, EndSync,
         Quiet, msgVars
<1>2. \/ smpc' = smpc
      \/ ~Busy /\ smpc' \in {"drain", "read", "sync_tx"}
  BY DEF Measure, TimerFires, NoToken, BeginSync, BeginRead, ReadDevice, EndRead, EndSync, Busy
<1>3. PhaseInv'
  BY <1>1, <1>2 DEF PhaseInv, Quiesced, Queued, InConfig, Raising, Raised, Busy, Awaited,
                    pcVars, Commands, PerDevice
<1>4. Judged' = Judged
  BY <1>1, <1>2 DEF Judged, Busy, pcVars
<1> QED BY <1>1, <1>3, <1>4, VerdictsUntouched

LEMMA StatusInvariant == Spec => [](TypeInv /\ StatusInv)
<1>1. Init => TypeInv /\ StatusInv
  BY InitTypeInv, InitStatusInv
<1>2. TypeInv /\ StatusInv /\ [Next]_vars => TypeInv' /\ StatusInv'
  <2> SUFFICES ASSUME TypeInv, StatusInv, [Next]_vars PROVE StatusInv'
    BY NextTypeInv
  <2>1. CASE PcStep
    BY <2>1, PcStepStatusInv
  <2>2. CASE SmTask
    BY <2>2, ExecuteStatusInv, MeasureStatusInv DEF SmTask, SmStep
  <2>3. CASE Timer
    BY <2>3, MeasureStatusInv DEF Timer
  <2>4. CASE UNCHANGED vars
    <3>1. /\ UNCHANGED pcVars /\ UNCHANGED <<data_forward_queue, event, rid, verdict, smpc, cmd>>
      BY <2>4 DEF vars, pcVars
    <3>2. Judged' = Judged
      BY <3>1 DEF Judged, pcVars
    <3>3. PhaseInv' <=> PhaseInv
      BY <3>1 DEF PhaseInv, Quiesced, Queued, InConfig, Raising, Raised, Busy, Awaited,
                  pcVars, Commands, PerDevice
    <3> QED BY <3>1, <3>2, <3>3, VerdictsUntouched DEF StatusInv, InStep, pcVars
  <2> QED BY <2>1, <2>2, <2>3, <2>4 DEF Next
<1> QED BY <1>1, <1>2, PTL DEF Spec

(* While no forward() timed out and no command was discarded, the status   *)
(* byte of a response is 0 exactly when every command of the request took  *)
(* effect.                                                                 *)
THEOREM StatusIsFaithful == Spec => []StatusFaithful
<1>1. TypeInv /\ StatusInv => StatusFaithful
  <2> SUFFICES ASSUME TypeInv, StatusInv, ifpc = "respond", InStep, req.type # "DEV_RESET",
                      Ended("discarded") = {}
               PROVE  is_success <=> Ended("acked") = 1..Commands(req)
    BY DEF StatusFaithful
  <2>1. index = Commands(req) /\ SuccessInv /\ Judged = index /\ Checked = index
    BY DEF StatusInv, PhaseInv, Judged, Checked
  <2>2. \A k \in 1..Commands(req) : ~Ends(k, "discarded")
    BY DEF Ended, Ends
  <2>3. is_success <=> \A k \in 1..Commands(req) : Ends(k, "acked")
    BY <2>1, <2>2 DEF SuccessInv
  <2>4. (Ended("acked") = 1..Commands(req)) <=> \A k \in 1..Commands(req) : Ends(k, "acked")
    BY DEF Ended, Ends
  <2> QED BY <2>3, <2>4
<1> QED BY <1>1, StatusInvariant, PTL
=============================================================================
