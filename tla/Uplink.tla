------------------------------- MODULE Uplink -------------------------------
(***************************************************************************)
(* The way between the master and the backend.  PCinterface sends its      *)
(* responses and SlaveManager its uploads through one ShareMem and one     *)
(* pair of binary semaphores; PCdataTransfer, of higher priority, sends    *)
(* what the buffer holds when it is asked to, and queues the datagrams it  *)
(* receives.  Serving a request is module MasterControl; here it is the    *)
(* choice of a response.                                                   *)
(***************************************************************************)
EXTENDS ShareMem

CONSTANTS RX_QUEUE,        \* datagrams that fit into rx_data_queue
          MaxDatagrams,    \* requests the backend sends
          MaxUploads       \* readings SlaveManager uploads

ASSUME UplinkAssumption ==
    RX_QUEUE \in Nat \ {0} /\ MaxDatagrams \in Nat /\ MaxUploads \in Nat

VARIABLES tpc,             \* PCdataTransfer: in its loop, or adding to rx_data_queue
          rx_data_queue,   \* number of datagrams queued
          rx_done_sem,
          tx_request_sem,
          tx_done_sem,
          drained,         \* datagrams PCinterface popped into one buffer, 2 for more
          allocated,       \* rsp_data owns memory, so data() is not null
          received,        \* history: datagrams received
          sent,            \* history: datagrams sent since a message was begun, as
                           \* long as there was neither overlap nor timeout
          latest,          \* history: the writer that began it
          served,          \* history: something was sent after this writer's request
          overlap,         \* history: both writers were sending at once
          late             \* history: a wait for tx_done_sem timed out

(* What the abstract specification sees: a message is under way from its   *)
(* beginning until its writer goes on.                                     *)
Disturbed == overlap \/ late
UnderWay  == ~Disturbed /\ at[latest] \notin {"idle", "drain"}
Begun     == [w \in Writer |-> msg[w].k]
Place     == IF UnderWay THEN msg[latest] ELSE NoMsg
Handed    == IF Disturbed THEN <<>> ELSE sent

Backend == INSTANCE Conversation
           WITH asked <- received, begun <- Begun, place <- Place, sent <- Handed,
                disturbed <- Disturbed

rxVars   == <<rx_data_queue, rx_done_sem, drained, received>>
histVars == <<sent, latest, served, overlap, late>>
vars     == <<memVars, tpc, rxVars, tx_request_sem, tx_done_sem, allocated, histVars>>

-----------------------------------------------------------------------------

Sending(w) == at[w] \notin {"idle", "drain"}

TypeOK ==
    /\ MemTypeOK
    /\ tpc \in {"loop", "add"}
    /\ rx_data_queue \in 0..RX_QUEUE
    /\ rx_done_sem \in BOOLEAN /\ tx_request_sem \in BOOLEAN /\ tx_done_sem \in BOOLEAN
    /\ drained \in 0..2
    /\ allocated \in BOOLEAN
    /\ received \in 0..MaxDatagrams
    /\ sent \in Seq(Packet)
    /\ latest \in Writer
    /\ served \in [Writer -> BOOLEAN]
    /\ overlap \in BOOLEAN /\ late \in BOOLEAN

Init ==
    /\ MemInit
    /\ tpc = "loop"
    /\ rx_data_queue = 0
    /\ rx_done_sem = FALSE /\ tx_request_sem = FALSE /\ tx_done_sem = FALSE
    /\ drained = 0
    /\ allocated = FALSE
    /\ received = 0
    /\ sent = <<>>
    /\ latest = "PCinterface"
    /\ served = [w \in Writer |-> FALSE]
    /\ overlap = FALSE /\ late = FALSE

-----------------------------------------------------------------------------
(* PCdataTransfer::task.                                                   *)

(* A faulty variant: the token is given before the bytes are added.        *)
GivenFirst(point) == point = "received"

(* A faulty variant: it is given before and after.                         *)
GivenTwice(point) == point \in {"received", "added"}

(* rx_done_sem.give() follows the bytes.                                   *)
GivenAt(point) == point = "added"

(* recvfrom returns a datagram.                                            *)
Receive ==
    /\ ~halted /\ tpc = "loop"
    /\ received < MaxDatagrams
    /\ received' = received + 1
    /\ tpc' = "add"
    /\ rx_done_sem' = (rx_done_sem \/ GivenAt("received"))
    /\ UNCHANGED <<memVars, rx_data_queue, drained, tx_request_sem,
                   tx_done_sem, allocated, histVars>>

(* A faulty variant: the bytes are added whether there is room or not.     *)
EnqueueUnchecked ==
    /\ ~halted /\ tpc = "add"
    /\ rx_data_queue' = rx_data_queue + 1
    /\ rx_done_sem' = TRUE
    /\ tpc' = "loop"
    /\ UNCHANGED <<memVars, drained, received, tx_request_sem, tx_done_sem, allocated,
                   histVars>>

(* Its bytes are added, which waits for room without limit, and then the   *)
(* token is given.                                                         *)
Enqueue ==
    /\ ~halted /\ tpc = "add"
    /\ rx_data_queue < RX_QUEUE
    /\ rx_data_queue' = rx_data_queue + 1
    /\ rx_done_sem' = (rx_done_sem \/ GivenAt("added"))
    /\ tpc' = "loop"
    /\ UNCHANGED <<memVars, drained, received, tx_request_sem, tx_done_sem, allocated,
                   histVars>>

(* A request is taken, the buffer sent, and the writer told.  The lock     *)
(* around it finds a positive count, which its unlock restores; no writer  *)
(* runs in between.                                                        *)
Send ==
    /\ ~halted /\ tpc = "loop"
    /\ tx_request_sem
    /\ lockCnt["data"] > 0
    /\ tx_request_sem' = FALSE
    /\ tx_done_sem' = TRUE
    /\ sent' = IF overlap \/ late THEN <<>> ELSE Append(sent, Datagram)
    /\ served' = [w \in Writer |-> served[w] \/ at[w] = "wait"]
    /\ UNCHANGED <<memVars, tpc, rxVars, allocated, latest, overlap, late>>

-----------------------------------------------------------------------------
(* PCinterface::task: from a token to the response.                        *)

TakeRx ==
    /\ ~halted /\ at["PCinterface"] = "idle"
    /\ rx_done_sem
    /\ rx_done_sem' = FALSE
    /\ Goto("PCinterface", "drain")
    /\ UNCHANGED <<lockVars, size, buf, msg, tpc, rx_data_queue, drained, received,
                   tx_request_sem, tx_done_sem, allocated, histVars>>

Drain ==
    /\ ~halted /\ at["PCinterface"] = "drain"
    /\ rx_data_queue > 0
    /\ rx_data_queue' = rx_data_queue - 1
    /\ drained' = IF drained = 0 THEN 1 ELSE 2
    /\ UNCHANGED <<memVars, tpc, rx_done_sem, received, tx_request_sem, tx_done_sem,
                   allocated, histVars>>

Begin(w, kind) ==
    /\ msg' = [msg EXCEPT ![w] = [by |-> w, k |-> @.k + 1, kind |-> kind]]
    /\ Goto(w, "get")
    /\ sent' = <<>>
    /\ latest' = w
    /\ overlap' = (overlap \/ \E v \in Writer \ {w} : Sending(v))
    /\ UNCHANGED <<lockVars, size, buf, served, late, tx_request_sem, tx_done_sem, tpc>>

(* The loop ends when the queue is empty.  A frame must fill the buffer    *)
(* exactly: only a single datagram can parse.                              *)
(* Otherwise the response is empty, and has no address until an earlier    *)
(* one gave the vector memory.                                             *)
Respond ==
    /\ ~halted /\ at["PCinterface"] = "drain"
    /\ rx_data_queue = 0
    /\ \E parsed \in {FALSE, drained = 1} :
          /\ Begin("PCinterface", IF parsed THEN "data"
                                  ELSE IF allocated THEN "empty" ELSE "refused")
          /\ allocated' = (allocated \/ parsed)
    /\ drained' = 0
    /\ UNCHANGED <<rx_data_queue, rx_done_sem, received>>

(* SlaveManager uploads the data of one slave; it may exceed the buffer.   *)
Upload ==
    /\ ~halted /\ at["SlaveManager"] = "idle"
    /\ msg["SlaveManager"].k < MaxUploads
    /\ \E kind \in {"data", "refused"} : Begin("SlaveManager", kind)
    /\ UNCHANGED <<rxVars, allocated>>

-----------------------------------------------------------------------------
(* Both writers, after write().                                            *)

Request(w) ==
    /\ ~halted /\ at[w] = "request"
    /\ tx_request_sem' = TRUE
    /\ served' = [served EXCEPT ![w] = FALSE]
    /\ Goto(w, "wait")
    /\ UNCHANGED <<lockVars, size, buf, msg, tpc, rxVars, tx_done_sem, allocated,
                   sent, latest, overlap, late>>

(* tx_done_sem.take succeeds.                                              *)
Done(w) ==
    /\ ~halted /\ at[w] = "wait"
    /\ tx_done_sem
    /\ tx_done_sem' = FALSE
    /\ Goto(w, "release")
    /\ UNCHANGED <<lockVars, size, buf, msg, tpc, rxVars, tx_request_sem, allocated,
                   histVars>>

(* No token came in time.  The failure is logged, the access released, and *)
(* the request is not withdrawn.                                           *)
DoneTimeout(w) ==
    /\ ~halted /\ at[w] = "wait"
    /\ ~tx_done_sem
    /\ late' = TRUE
    /\ Goto(w, "release")
    /\ UNCHANGED <<lockVars, size, buf, msg, tpc, rxVars, tx_request_sem, tx_done_sem,
                   allocated, sent, latest, served, overlap>>

Write(w) ==
    /\ ~halted
    /\ MemStep(w)
    /\ UNCHANGED <<tpc, rxVars, tx_request_sem, tx_done_sem, allocated, histVars>>

Transfer == Receive \/ Enqueue \/ Send

Finish(w) == Write(w) \/ Request(w) \/ Done(w) \/ DoneTimeout(w)

Next ==
    \/ Transfer
    \/ TakeRx \/ Drain \/ Respond \/ Upload
    \/ \E w \in Writer : Finish(w)

Spec == Init /\ [][Next]_vars

(* PCdataTransfer has the higher priority and polls; the writers share a   *)
(* priority and are time-sliced, every wait of theirs is bounded except    *)
(* the one for a datagram.  Whether a datagram arrives is left open.       *)
FairSpec ==
    /\ Spec
    /\ WF_vars(Send) /\ WF_vars(Enqueue)
    /\ WF_vars(TakeRx \/ Drain \/ Respond)
    /\ \A w \in Writer : WF_vars(Finish(w))

-----------------------------------------------------------------------------

(* The tasks, the buffer, the locks and the semaphores together keep the   *)
(* promise of Conversation: messages become datagrams one by one, each     *)
(* once and in the order they were begun, as long as the writers take      *)
(* turns and no wait times out; and whatever happens, there are no more    *)
(* responses than datagrams were received, although a token can be left    *)
(* over from datagrams that were drained with an earlier one.              *)
KeepsConversation == Backend!Spec

(* A queued datagram is not forgotten: while PCinterface is not draining,  *)
(* the token is there to wake it, whenever the datagram arrived.           *)
NoLostWakeup ==
    rx_data_queue > 0 /\ at["PCinterface"] # "drain" => rx_done_sem

(* The comments at master_def.hpp:80 and pc_interface.hpp:264: the write   *)
(* access keeps the buffer from being changed before it is sent.  While a  *)
(* writer that wrote its message waits, and nothing was sent since its     *)
(* request, the buffer is what it wrote.                                   *)
Protected ==
    \A w \in Writer :
        at[w] = "wait" /\ ~served[w] /\ msg[w].kind = "data" => Datagram = Intact(msg[w])

(* The kernel's assertion in xTaskPriorityDisinherit (tasks.c:6696): a     *)
(* mutex is given by the task that holds it.  The writer that brings the   *)
(* count of a Lock to 0 gives its mutex, whoever took it.                  *)
NeverHalts == ~halted

(* The kernel stops only after the writers overlapped: used by one writer  *)
(* at a time, the counts stay balanced although the two tasks use the same *)
(* Lock objects, although one of them started locked by a third task, and  *)
(* although write() takes the access a second time and never gives it.     *)
HaltsOnlyAfterOverlap == halted => overlap

(* A writer that began a message comes back: it never waits for a lock it  *)
(* holds itself, nor for the one the boot task kept, nor for a datagram    *)
(* that is not sent.  Only as long as the writers do not overlap: when     *)
(* they do, one can undo the other's count and leave it waiting in write() *)
(* for a mutex that is not given again.                                    *)
WriterReturns ==
    \A w \in Writer : Sending(w) ~> (~Sending(w) \/ overlap)
=============================================================================
