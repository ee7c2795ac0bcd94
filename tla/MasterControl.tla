---------------------------- MODULE MasterControl ----------------------------
(***************************************************************************)
(* The command path of the master: the tasks PCinterface and SlaveManager  *)
(* (same priority, time sliced) and the sync timer, over the message       *)
(* object PCmanagerMsg.                                                    *)
(***************************************************************************)
EXTENDS PCinterface, SlaveManager

vars == <<data_forward_queue, event, rid, verdict,
          ifpc, req, index, cfg_cmd, is_success, timeouts, lost,
          smpc, cmd, running, ctrl, mode, slave_dev, timeSlot, slave_dev_index,
          slave_num, cfg_state, wait_for_data, sync_sem, timer, rd, session, synced>>

Init == MsgInit /\ PcInit /\ SmInit

PcStep == PcNext /\ UNCHANGED smVars
SmTask == SmStep /\ UNCHANGED pcVars
Timer  == TimerFires /\ UNCHANGED pcVars

Next == PcStep \/ SmTask \/ Timer

Spec == Init /\ [][Next]_vars

(* Both tasks are scheduled again and again (equal priority, time slicing, *)
(* every loop of SlaveManager ends in a delay), PCinterface's waits have   *)
(* timeouts, an armed timer expires.  Requests may stop coming.            *)
Fairness ==
    /\ WF_vars(PcStep /\ ifpc # "idle")
    /\ WF_vars(SmTask)
    /\ WF_vars(Timer)

FairSpec == Spec /\ Fairness

-----------------------------------------------------------------------------

(* Every variable of the two tasks and of their message object stays in    *)
(* its type; the queue never exceeds its capacity.                         *)
TypeOK == MsgTypeOK /\ PcTypeOK /\ SmTypeOK

(* Commands forwarded for the current request that ended with an outcome.  *)
Ended(outcome) == {k \in 1..Commands(req) : <<rid, k, outcome>> \in verdict}

(* PCinterface and the events have been in step since boot: no forward()   *)
(* timed out and no command was lost to a full queue.                      *)
InStep == timeouts = 0 /\ ~lost

(* While no forward() has timed out and no command of the request was      *)
(* discarded, the status byte tells the truth about every device: it is 0  *)
(* exactly when each command of the request took effect.  The event bits   *)
(* CONFIG, MODE and CTRL outlive the command that set them, so this needs  *)
(* each command to set or clear its own bit before FORWARD is raised       *)
(* (pc_message.hpp, forward.hpp, slave_manager.hpp config_process).        *)
StatusFaithful ==
    (/\ ifpc = "respond"
     /\ InStep
     /\ req.type # "DEV_RESET"
     /\ Ended("discarded") = {})
      => (is_success <=> Ended("acked") = 1..Commands(req))

(* What the protocol tutorial says of the status byte of the answer to a   *)
(* configuration: 0 is success.  It is not so: a configuration that        *)
(* SlaveManager discards because detection is running leaves the success   *)
(* bit of an earlier one in place.                                         *)
StatusZeroMeansSuccess ==
    (ifpc = "respond" /\ is_success /\ req.type = "DEV_CONF")
      => Ended("discarded") = {}

(* A configuration session is the work of two tasks: PCinterface computes  *)
(* first lines and the total, SlaveManager counts devices and hands out    *)
(* time slots.  Unless a command was lost to a full queue, a finished      *)
(* session holds the announced number of devices, with time slots 0, 1,    *)
(* 2, ..., and the lines sent to them tile the harness without gap or      *)
(* overlap, whatever timed out or failed on the way.                       *)
SessionTiles ==
    (~lost /\ cfg_state = "CONGIG_START" /\ smpc # "config" /\ session # <<>>) =>
      /\ Len(session) = slave_num
      /\ Len(slave_dev) = slave_num
      /\ \A i \in 1..Len(session) :
           /\ slave_dev[i] = [id |-> session[i].dev, timeSlot |-> i - 1]
           /\ session[i].timeSlot = i - 1
           /\ session[i].start = IF i = 1 THEN 0
                                 ELSE session[i - 1].start + session[i - 1].cond
      /\ LET last == session[Len(session)]
         IN  last.start + last.cond = last.total

(* The registered time slots are 0, 1, 2, ... in list order at all times,  *)
(* also when a session is cut short by a lost command or by a start of     *)
(* detection, which resets slave_dev_index but not timeSlot.               *)
SlotsConsecutive ==
    /\ timeSlot = Len(slave_dev)
    /\ \A i \in 1..Len(slave_dev) : slave_dev[i].timeSlot = i - 1

(* No reading and no sync frame outside detection: the token, the timer    *)
(* and the control state survive stops, so a token left over from an       *)
(* earlier run, or an enable that was discarded for want of slaves, could  *)
(* otherwise start a cycle (slave_manager.hpp, task loop).                 *)
CycleOnlyWhileRunning == smpc \in {"read", "sync_tx"} => running

(* While detection is off the timer is stopped, and while it is on there   *)
(* is a list of slaves to read.                                            *)
TimerOnlyWhileRunning ==
    /\ timer = "armed" => running
    /\ running => slave_num > 0

(* Every reading follows a sync frame of its own: between two readings,    *)
(* and between a start of detection and the first reading, a sync frame    *)
(* was sent.                                                               *)
ReadFollowsSync == [][smpc = "poll" /\ smpc' = "read" => synced]_vars

(* Every request is answered, whatever SlaveManager is busy with.          *)
RequestAnswered == (ifpc # "idle") ~> (ifpc = "idle")

(* While detection stays on, sync frames keep being sent.                  *)
KeepsMeasuring == running ~> (smpc = "sync_tx" \/ ~running)
=============================================================================
