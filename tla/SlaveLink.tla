------------------------------ MODULE SlaveLink ------------------------------
(***************************************************************************)
(* The master's way to its slaves: send_frame of SlaveManager's            *)
(* processors, the byte queues and semaphores of ManagerDataTransferMsg,   *)
(* the radio task ManagerDataTransfer, a radio that loses and delays, and  *)
(* the slaves at the other end.                                            *)
(*                                                                         *)
(* A queue is drained as a whole, and what was drained is only understood  *)
(* when it is exactly one frame; so the queues are sets, of half frames    *)
(* and of replies.                                                         *)
(***************************************************************************)
EXTENDS Naturals, Sequences, FiniteSets

CONSTANTS Slave, Slot,
          TX_RETRY_TIMES,  \* SlaveManager_TX_RETRY_TIMES
          RX_QUEUE,        \* replies that fit into rx_data_queue
          MaxCalls,        \* calls SlaveManager makes
          MaxUnderway      \* requests and replies in the air at the same time

ASSUME SlaveLinkAssumption ==
    /\ TX_RETRY_TIMES \in Nat /\ RX_QUEUE \in Nat \ {0} /\ MaxCalls \in Nat
    /\ Slot \subseteq Nat /\ MaxUnderway \in Nat
    /\ "broadcast" \notin Slave

VARIABLES calls, executed, abandoned, accepted,      \* as in SlaveCall
          pc,              \* where SlaveManager is in send_frame
          send_cnd,
          tx_data_queue, rx_data_queue,
          tx_request_sem, tx_done_sem, rx_done_sem,
          radio,           \* ManagerDataTransfer: looping, sending, or blocked
          requests,        \* frames in the air
          replies,         \* replies in the air, or in a slave
          txLate,          \* history: a wait for tx_done_sem timed out
          mangled          \* history: other bytes than one frame were sent

absState == <<calls, executed, abandoned, accepted>>
semVars  == <<tx_request_sem, tx_done_sem, rx_done_sem>>
airVars  == <<requests, replies>>
vars     == <<absState, pc, send_cnd, tx_data_queue, rx_data_queue, semVars, radio,
              airVars, txLate, mangled>>

Promise == INSTANCE SlaveCall WITH pending <- pc # "idle"

Call == Promise!Call
Last == Promise!Last

-----------------------------------------------------------------------------

Frame == [k : 1..MaxCalls, try : 0..TX_RETRY_TIMES]
Half  == [k : 1..MaxCalls, try : 0..TX_RETRY_TIMES, half : {1, 2}]
Reply == [from : Slave, k : 1..MaxCalls, try : 0..TX_RETRY_TIMES]

(* The radio: a frame gets into the air, or is lost.  One that stays there *)
(* for good, or in a slave that found it incomplete or joined with         *)
(* another, is lost as well.                                               *)
Underway == Cardinality(requests) + Cardinality(replies)

Sent      == [k |-> Last, try |-> send_cnd]
HalfOf(f, h) == [k |-> f.k, try |-> f.try, half |-> h]
Halves(f) == {HalfOf(f, 1), HalfOf(f, 2)}

(* While the radio task is blocked, rx_data_queue stands for its contents  *)
(* and for the reply the task is adding.                                   *)
TypeOK ==
    /\ calls \in Seq(Call) /\ Last <= MaxCalls
    /\ executed \subseteq Slave \X (1..MaxCalls)
    /\ abandoned \subseteq 1..MaxCalls
    /\ accepted \in {<<>>} \cup Slave \X (1..MaxCalls)
    /\ pc \in {"idle", "add1", "add2", "request", "tx_wait", "rx_wait", "drain"}
    /\ pc # "idle" => Last > 0
    /\ send_cnd \in 0..TX_RETRY_TIMES
    /\ tx_data_queue \subseteq Half
    /\ rx_data_queue \subseteq Reply
    /\ IsFiniteSet(rx_data_queue)
    /\ Cardinality(rx_data_queue) <= IF radio = "blocked" THEN RX_QUEUE + 1 ELSE RX_QUEUE
    /\ tx_request_sem \in BOOLEAN /\ tx_done_sem \in BOOLEAN /\ rx_done_sem \in BOOLEAN
    /\ radio \in {"loop", "sending", "blocked"}
    /\ requests \subseteq Frame
    /\ replies \subseteq Reply
    /\ txLate \in BOOLEAN /\ mangled \in BOOLEAN

Init ==
    /\ calls = <<>> /\ executed = {} /\ abandoned = {} /\ accepted = <<>>
    /\ pc = "idle"
    /\ send_cnd = 0
    /\ tx_data_queue = {} /\ rx_data_queue = {}
    /\ tx_request_sem = FALSE /\ tx_done_sem = FALSE /\ rx_done_sem = FALSE
    /\ radio = "loop"
    /\ requests = {} /\ replies = {}
    /\ txLate = FALSE /\ mangled = FALSE

-----------------------------------------------------------------------------
(* SlaveManager: send_frame, __send and __rsp_process.                     *)

(* A configuration, a reading or a sync frame.                             *)
Begin ==
    /\ pc = "idle"
    /\ Last < MaxCalls
    /\ \E c \in Call : calls' = Append(calls, c)
    /\ accepted' = <<>>
    /\ send_cnd' = 0
    /\ pc' = "add1"
    /\ UNCHANGED <<executed, abandoned, tx_data_queue, rx_data_queue, semVars, radio,
                   airVars, txLate, mangled>>

(* A faulty variant: the sending is requested before the bytes are added.  *)
RequestedAt(point) == point = "add1"

(* Before which step tx_request_sem is given.                              *)
GivenAt(point) == point = "request"

(* The frame is added byte by byte and then requested; the radio task can  *)
(* run in between.                                                         *)
Send ==
    /\ \/ pc = "add1" /\ pc' = "add2" /\ tx_data_queue' = tx_data_queue \cup {HalfOf(Sent, 1)}
       \/ pc = "add2" /\ pc' = "request" /\ tx_data_queue' = tx_data_queue \cup {HalfOf(Sent, 2)}
       \/ pc = "request" /\ pc' = "tx_wait" /\ UNCHANGED tx_data_queue
    /\ tx_request_sem' = (tx_request_sem \/ GivenAt(pc))
    /\ UNCHANGED <<absState, send_cnd, rx_data_queue, tx_done_sem, rx_done_sem, radio,
                   airVars, txLate, mangled>>

(* A faulty variant: a reading does not wait for its reply either.         *)
AwaitsOnlyConfig(c) == c.kind = "cfg"

(* Only a sync frame expects no reply.                                     *)
AwaitsReply(c) == c.kind # "sync"

TakeTxDone ==
    /\ pc = "tx_wait" /\ tx_done_sem
    /\ tx_done_sem' = FALSE
    /\ pc' = IF AwaitsReply(calls[Last]) THEN "rx_wait" ELSE "idle"
    /\ UNCHANGED <<absState, send_cnd, tx_data_queue, rx_data_queue, tx_request_sem,
                   rx_done_sem, radio, airVars, txLate, mangled>>

(* send_frame gives up; bytes and request stay behind.                     *)
TxTimeout ==
    /\ pc = "tx_wait" /\ ~tx_done_sem
    /\ pc' = "idle"
    /\ abandoned' = abandoned \cup {Last}
    /\ txLate' = TRUE
    /\ UNCHANGED <<calls, executed, accepted, send_cnd, tx_data_queue, rx_data_queue,
                   semVars, radio, airVars, mangled>>

TakeRxDone ==
    /\ pc = "rx_wait" /\ rx_done_sem
    /\ rx_done_sem' = FALSE
    /\ pc' = "drain"
    /\ UNCHANGED <<absState, send_cnd, tx_data_queue, rx_data_queue, tx_request_sem,
                   tx_done_sem, radio, airVars, txLate, mangled>>

(* A faulty variant: the tries are not counted.                            *)
RetryForever ==
    /\ abandoned' = abandoned \cup {Last}
    /\ pc' = "add1"
    /\ UNCHANGED <<calls, executed, accepted, send_cnd>>

Retry ==
    /\ abandoned' = abandoned \cup {Last}
    /\ IF send_cnd < TX_RETRY_TIMES
       THEN pc' = "add1" /\ send_cnd' = send_cnd + 1
       ELSE pc' = "idle" /\ UNCHANGED send_cnd
    /\ UNCHANGED <<calls, executed, accepted>>

RxTimeout ==
    /\ pc = "rx_wait" /\ ~rx_done_sem
    /\ Retry
    /\ UNCHANGED <<tx_data_queue, rx_data_queue, semVars, radio, airVars, txLate, mangled>>

(* A faulty variant: rsp_parsed keeps the TRUE of any reply.               *)
MatchesAny(r) == TRUE

(* process() of the reply: its kind is the expected one and, for a         *)
(* configuration, so are its parameters.  The sender is not compared.      *)
Matches(r) == Promise!SameQuestion(r.k, Last)

(* Everything queued is popped, what the blocked radio task still adds     *)
(* included; that task then gives its token.                               *)
Drain ==
    /\ pc = "drain"
    /\ rx_data_queue' = {}
    /\ radio' = IF radio = "blocked" THEN "loop" ELSE radio
    /\ rx_done_sem' = (rx_done_sem \/ radio = "blocked")
    /\ \/ \E r \in Reply :
             /\ rx_data_queue = {r} /\ Matches(r)
             /\ accepted' = <<r.from, r.k>>
             /\ abandoned' = IF r.k = Last THEN abandoned ELSE abandoned \cup {Last}
             /\ pc' = "idle"
             /\ UNCHANGED <<calls, executed, send_cnd>>
       \/ /\ ~\E r \in Reply : rx_data_queue = {r} /\ Matches(r)
          /\ Retry
    /\ UNCHANGED <<tx_data_queue, tx_request_sem, tx_done_sem, airVars, txLate, mangled>>

Manager == Send \/ TakeTxDone \/ TxTimeout \/ TakeRxDone \/ RxTimeout \/ Drain

-----------------------------------------------------------------------------
(* ManagerDataTransfer::task, of higher priority than SlaveManager.        *)

(* The request is taken and all that is queued is sent.  The receiver      *)
(* understands it if it is one frame.                                      *)
TakeRequest ==
    /\ radio = "loop" /\ tx_request_sem
    /\ tx_request_sem' = FALSE
    /\ tx_data_queue' = {}
    /\ \/ \E f \in Frame :
             /\ tx_data_queue = Halves(f)
             /\ \/ Underway < MaxUnderway /\ requests' = requests \cup {f}
                \/ UNCHANGED requests
             /\ UNCHANGED mangled
       \/ /\ \A f \in Frame : tx_data_queue # Halves(f)
          /\ mangled' = TRUE
          /\ UNCHANGED requests
    /\ radio' = "sending"
    /\ UNCHANGED <<absState, pc, send_cnd, rx_data_queue, tx_done_sem, rx_done_sem,
                   replies, txLate>>

GiveTxDone ==
    /\ radio = "sending"
    /\ tx_done_sem' = TRUE
    /\ radio' = "loop"
    /\ UNCHANGED <<absState, pc, send_cnd, tx_data_queue, rx_data_queue, tx_request_sem,
                   rx_done_sem, airVars, txLate, mangled>>

(* A faulty variant: a full queue is not noticed.                          *)
HasRoomAlways == TRUE

HasRoom == Cardinality(rx_data_queue) < RX_QUEUE

(* A reply is added to the queue, which waits for room without limit.      *)
Receive ==
    /\ radio = "loop"
    /\ \E r \in replies :
          /\ replies' = replies \ {r}
          /\ rx_data_queue' = rx_data_queue \cup {r}
    /\ rx_done_sem' = (rx_done_sem \/ HasRoom)
    /\ radio' = IF HasRoom THEN "loop" ELSE "blocked"
    /\ UNCHANGED <<absState, pc, send_cnd, tx_data_queue, tx_request_sem, tx_done_sem,
                   requests, txLate, mangled>>

-----------------------------------------------------------------------------
(* The slaves.                                                             *)

(* A slave executes a frame that is for it, and replies.  It does not      *)
(* remember what it executed: a retry is executed again.  A sync frame     *)
(* changes nothing here.                                                   *)
Execute ==
    /\ \E s \in Slave, f \in requests :
          /\ calls[f.k].to = s
          /\ requests' = requests \ {f}
          /\ executed' = executed \cup {<<s, f.k>>}
          /\ replies' = replies \cup {[from |-> s, k |-> f.k, try |-> f.try]}
    /\ UNCHANGED <<calls, abandoned, accepted, pc, send_cnd, tx_data_queue, rx_data_queue,
                   semVars, radio, txLate, mangled>>

Next ==
    \/ Begin \/ Manager
    \/ TakeRequest \/ GiveTxDone \/ Receive
    \/ Execute

Spec == Init /\ [][Next]_vars

(* SlaveManager is scheduled and its waits have timeouts.  Nothing is      *)
(* assumed of the radio and of the slaves.                                 *)
FairSpec == Spec /\ WF_vars(Manager)

-----------------------------------------------------------------------------

(* send_frame keeps the promise of SlaveCall: a call that returns true was *)
(* executed by the slave it is for, unless its answer stems from a call    *)
(* for the same thing that had been given up.                              *)
KeepsPromise == Promise!Spec

(* Bytes of two frames are sent together, or a frame in parts, only after  *)
(* a wait for tx_done_sem timed out (__send).                              *)
WholeFrames == mangled => txLate

(* rx_data_queue overflows, which blocks the radio task, only with replies *)
(* of given-up calls in it (ManagerDataTransfer::task, __rsp_process): the *)
(* answer SlaveManager waits for alone never does.                         *)
BlockedByBacklog == radio = "blocked" => \E r \in rx_data_queue : r.k \in abandoned

(* send_frame returns, whatever the radio and the slaves do.               *)
CallReturns == pc # "idle" ~> pc = "idle"

(* protocol.hpp:293 and 380 name the slave ID of the data the ID of the    *)
(* device it comes from: what is uploaded after a reading was read from    *)
(* the slave whose ID the upload carries (ReadCondProcessor).              *)
UploadFromItsSlave ==
    pc = "idle" /\ accepted # <<>> /\ calls[Last].kind = "read"
        => accepted[1] = calls[Last].to
=============================================================================
