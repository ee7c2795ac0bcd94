----------------------------- MODULE PCinterface -----------------------------
(***************************************************************************)
(* The PCinterface task of the master: ProtocolMessageForward turns one    *)
(* backend request into commands, forwards them one at a time, waits for   *)
(* an event after each, and composes the status byte of the response.      *)
(***************************************************************************)
EXTENDS PCmanagerMsg

CONSTANTS MaxRequests,          \* bound: requests a behaviour serves
          MaxTimeouts           \* bound: forward timeouts in a behaviour

ASSUME PCinterfaceAssumption == MaxRequests \in Nat /\ MaxTimeouts \in Nat

VARIABLES ifpc,                 \* where the task is
          req,                  \* the parsed request
          index,                \* commands of req already built
          cfg_cmd,              \* the CfgCmd fields carried from one device to the next
          is_success,
          timeouts,             \* history: forward() calls that timed out so far
          lost                  \* history: has a command been lost to a full queue?

pcVars == <<ifpc, req, index, cfg_cmd, is_success, timeouts, lost>>

-----------------------------------------------------------------------------

IfPc == {"idle", "add", "wait", "check", "respond"}

Request ==
    [type : {"DEV_CONF", "DEV_RESET"}, list : DeviceLists, arg : {"none"}]
      \cup [type : {"DEV_MODE"}, list : {<<>>}, arg : SysMode]
      \cup [type : {"DEV_CTRL"}, list : {<<>>}, arg : CtrlType]

PerDevice(r) == r.type \in {"DEV_CONF", "DEV_RESET"}

(* One command for each device of a configuration or reset, one otherwise. *)
Commands(r) == IF PerDevice(r) THEN Len(r.list) ELSE 1

SuccessBit(r) ==
    CASE r.type = "DEV_CONF"  -> "CONFIG"
      [] r.type = "DEV_MODE"  -> "MODE"
      [] r.type = "DEV_CTRL"  -> "CTRL"
      [] r.type = "DEV_RESET" -> "RESET"

PcTypeOK ==
    /\ ifpc \in IfPc
    /\ req \in Request
    /\ index \in Nat
    /\ cfg_cmd \in [start : Nat, cond : Nat]
    /\ is_success \in BOOLEAN
    /\ timeouts \in Nat
    /\ lost \in BOOLEAN

PcInit ==
    /\ ifpc = "idle"
    /\ req = [type |-> "DEV_CTRL", list |-> <<>>, arg |-> "DEV_DISABLE"]
    /\ index = 0
    /\ cfg_cmd = [start |-> 0, cond |-> 0]
    /\ is_success = TRUE
    /\ timeouts = 0
    /\ lost = FALSE

-----------------------------------------------------------------------------

(* forward() of the message just parsed begins: is_success starts TRUE.    *)
Receive ==
    /\ ifpc = "idle"
    /\ rid < MaxRequests
    /\ \E r \in Request :
         /\ req' = r
         /\ ifpc' = IF Commands(r) = 0 THEN "respond" ELSE "add"
    /\ rid' = rid + 1
    /\ verdict' = {}
    /\ index' = 0
    /\ cfg_cmd' = [start |-> 0, cond |-> 0]
    /\ is_success' = TRUE
    /\ UNCHANGED <<data_forward_queue, event, timeouts, lost>>

(* A faulty variant: the device's own number of lines moves its first line.*)
NextCfgOwnCond ==
    IF req.type = "DEV_CONF"
    THEN [start |-> cfg_cmd.start + Cond[req.list[index + 1]],
          cond  |-> Cond[req.list[index + 1]]]
    ELSE cfg_cmd

(* cfg_cmd once the next device of a configuration is entered in it: its   *)
(* first line is the previous device's first line plus the previous        *)
(* device's number of lines.                                               *)
NextCfg ==
    IF req.type = "DEV_CONF"
    THEN [start |-> cfg_cmd.start + cfg_cmd.cond,
          cond  |-> Cond[req.list[index + 1]]]
    ELSE cfg_cmd

NextCommand ==
    [type |-> req.type,
     dev |-> IF PerDevice(req) THEN req.list[index + 1] ELSE NoDev,
     slave_dev_num |-> Len(req.list),
     start |-> NextCfg.start, cond |-> NextCfg.cond,
     total |-> TotalHarness(req.list),
     arg |-> req.arg, rid |-> rid, k |-> index + 1]

(* After a command: the next one, or the response when it was the last.    *)
Onward(n) == IF n = Commands(req) THEN "respond" ELSE "add"

(* A faulty variant: one command too many.                                 *)
HasRoomOffByOne == Len(data_forward_queue) <= FORWARD_QUEUE_SIZE

(* Space in data_forward_queue: add() can enqueue without waiting.         *)
HasRoom == Len(data_forward_queue) < FORWARD_QUEUE_SIZE

AddCommand ==
    /\ ifpc = "add"
    /\ HasRoom
    /\ data_forward_queue' = Append(data_forward_queue, NextCommand)
    /\ cfg_cmd' = NextCfg
    /\ index' = index + 1
    /\ ifpc' = "wait"
    /\ UNCHANGED <<event, rid, verdict, req, is_success, timeouts, lost>>

(* The queue stayed full for PCinterface_FORWARD_QUEUE_TIMEOUT: forward()  *)
(* is false, the caller skips the command and is_success stays as it is.   *)
AddTimeout ==
    /\ ifpc = "add"
    /\ ~HasRoom
    /\ cfg_cmd' = NextCfg
    /\ index' = index + 1
    /\ ifpc' = Onward(index + 1)
    /\ lost' = TRUE
    /\ UNCHANGED <<data_forward_queue, event, rid, verdict, req, is_success, timeouts>>

(* event.wait sees FORWARD_SUCCESS_EVENT and clears it.  Nothing says      *)
(* which command raised it.                                                *)
Woken ==
    /\ ifpc = "wait"
    /\ "FORWARD" \in event
    /\ event' = event \ {"FORWARD"}
    /\ ifpc' = "check"
    /\ UNCHANGED <<data_forward_queue, rid, verdict, req, index, cfg_cmd,
                   is_success, timeouts, lost>>

(* PCinterface_FORWARD_TIMEOUT passes without FORWARD_SUCCESS_EVENT.       *)
(* event.wait returns the bits that are set, and any bit counts as         *)
(* success; only with no bit at all is forward() false.                    *)
WaitTimeout ==
    /\ ifpc = "wait"
    /\ "FORWARD" \notin event
    /\ timeouts < MaxTimeouts
    /\ ifpc' = IF event = {} THEN Onward(index) ELSE "check"
    /\ timeouts' = timeouts + 1
    /\ UNCHANGED <<data_forward_queue, event, rid, verdict, req, index, cfg_cmd,
                   is_success, lost>>

(* event.get: the success bit of this kind of command, as it is now.       *)
CheckBit ==
    /\ ifpc = "check"
    /\ is_success' = (is_success /\ SuccessBit(req) \in event)
    /\ ifpc' = Onward(index)
    /\ UNCHANGED <<data_forward_queue, event, rid, verdict, req, index, cfg_cmd,
                   timeouts, lost>>

(* The response, with status = !is_success, is handed to the uplink.       *)
Respond ==
    /\ ifpc = "respond"
    /\ ifpc' = "idle"
    /\ UNCHANGED <<data_forward_queue, event, rid, verdict, req, index, cfg_cmd,
                   is_success, timeouts, lost>>

PcNext ==
    \/ Receive \/ AddCommand \/ AddTimeout \/ Woken \/ WaitTimeout
    \/ CheckBit \/ Respond
=============================================================================
