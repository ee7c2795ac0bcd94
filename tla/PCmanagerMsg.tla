---------------------------- MODULE PCmanagerMsg ----------------------------
(***************************************************************************)
(* The message object between the two Mid-priority tasks of the master:    *)
(* PCinterface, which turns a backend request into commands, and           *)
(* SlaveManager, which executes them.  It is a bounded queue of commands   *)
(* and an event group; nothing else relates a command to its answer.       *)
(***************************************************************************)
EXTENDS Naturals, Sequences

CONSTANTS Dev,                  \* the slave devices (their 32-bit ids)
          NoDev,                \* the device of a command that names none
          DeviceLists,          \* the device lists a backend request may carry
          Cond,                 \* conductionNum of each device in a request
          FORWARD_QUEUE_SIZE    \* capacity of data_forward_queue (10 in the code)

ASSUME PCmanagerMsgAssumption ==
    /\ NoDev \notin Dev
    /\ DeviceLists \subseteq Seq(Dev)
    /\ Cond \in [Dev -> Nat]
    /\ FORWARD_QUEUE_SIZE \in Nat \ {0}

VARIABLES data_forward_queue,   \* commands on their way to SlaveManager
          event,                \* the set of event bits that are set
          rid,                  \* history: number of the request being served
          verdict               \* history: what SlaveManager did with the commands
                                \* of recent requests, as <<rid, index, outcome>>

msgVars == <<data_forward_queue, event, rid, verdict>>

-----------------------------------------------------------------------------

(* The bits a task can ever set.  RESET_SUCCESS_EVENT and                  *)
(* QUERY_SUCCESS_EVENT are declared in the code and set by nobody.         *)
EventBit == {"FORWARD", "CONFIG", "MODE", "CTRL"}

SysMode  == {"CONDUCTION_TEST", "OTHER_TEST"}
CtrlType == {"DEV_ENABLE", "DEV_DISABLE"}
CmdType  == {"DEV_CONF", "DEV_MODE", "DEV_RESET", "DEV_CTRL"}
Arg      == SysMode \cup CtrlType \cup {"none"}

Outcome == {"acked", "failed", "discarded", "done"}

(* Sum of conductionNum over the devices of a list.                        *)
TotalHarness(list) ==
    LET sum[i \in 0..Len(list)] == IF i = 0 THEN 0 ELSE sum[i - 1] + Cond[list[i]]
    IN  sum[Len(list)]

Total == {TotalHarness(list) : list \in DeviceLists \cup {<<>>}} \cup {0}

(* A DataForward: the fields of the union's members that anyone reads.     *)
(* rid and k are history: the request, and the command's index in it.      *)
Command ==
    {c \in [type : CmdType, dev : Dev \cup {NoDev}, slave_dev_num : Nat,
            start : Nat, cond : Nat, total : Total, arg : Arg, rid : Nat, k : Nat] :
       /\ c.type = "DEV_MODE" => c.arg \in SysMode
       /\ c.type \in {"DEV_CONF", "DEV_RESET"} => c.dev \in Dev
       /\ c.type = "DEV_CONF" => c.slave_dev_num > 0}

MsgTypeOK ==
    /\ data_forward_queue \in Seq(Command)
    /\ Len(data_forward_queue) <= FORWARD_QUEUE_SIZE
    /\ event \subseteq EventBit
    /\ rid \in Nat
    /\ verdict \subseteq Nat \X Nat \X Outcome

MsgInit ==
    /\ data_forward_queue = <<>>
    /\ event = {}
    /\ rid = 0
    /\ verdict = {}

(* The success bit of a command that was taken off the queue is set,       *)
(* cleared or left alone; FORWARD_SUCCESS_EVENT follows in a step of its   *)
(* own.                                                                    *)
Executed(cmd, set, cleared, outcome) ==
    /\ event' = (event \ cleared) \cup set
    /\ verdict' = verdict \cup {<<cmd.rid, cmd.k, outcome>>}
=============================================================================
