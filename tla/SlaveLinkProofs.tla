--------------------------- MODULE SlaveLinkProofs ---------------------------
(***************************************************************************)
(* Theorems about SlaveLink, for any set of slaves, any number of calls,   *)
(* retries and frames underway, and any capacity of the receive queue.     *)
(***************************************************************************)
EXTENDS SlaveLink, FiniteSetTheorems, TLAPS

USE SlaveLinkAssumption DEF SlaveLinkAssumption

(***************************************************************************)
(* Typing.                                                                 *)
(***************************************************************************)

(* Receive: a queue with room has room for one more; a full one blocks.    *)
LEMMA QueueGrows ==
    ASSUME TypeOK, NEW r \in Reply, radio = "loop"
    PROVE  /\ IsFiniteSet(rx_data_queue \cup {r})
           /\ Cardinality(rx_data_queue \cup {r}) <= RX_QUEUE + 1
           /\ HasRoom => Cardinality(rx_data_queue \cup {r}) <= RX_QUEUE
<1>1. IsFiniteSet(rx_data_queue) /\ Cardinality(rx_data_queue) <= RX_QUEUE
  BY DEF TypeOK
<1>2. Cardinality(rx_data_queue) \in Nat
  BY <1>1, FS_CardinalityType
<1>3. /\ IsFiniteSet(rx_data_queue \cup {r})
      /\ Cardinality(rx_data_queue \cup {r})
            \in {Cardinality(rx_data_queue), Cardinality(rx_data_queue) + 1}
  BY <1>1, FS_AddElement
<1> QED BY <1>1, <1>2, <1>3 DEF HasRoom

LEMMA EmptyQueue == IsFiniteSet({}) /\ Cardinality({}) = 0
BY FS_EmptySet

(* What is being sent is a frame while a call is pending.                  *)
LEMMA SentTyped ==
    ASSUME TypeOK, pc # "idle"
    PROVE  /\ Last \in 1..MaxCalls /\ Sent \in Frame
           /\ calls[Last] \in Call
           /\ HalfOf(Sent, 1) \in Half /\ HalfOf(Sent, 2) \in Half
BY DEF TypeOK, Sent, HalfOf, Frame, Half, Last, Promise!Last

LEMMA TypeInitial == Init => TypeOK
<1> SUFFICES ASSUME Init PROVE TypeOK
  OBVIOUS
<1>1. IsFiniteSet(rx_data_queue) /\ Cardinality(rx_data_queue) = 0
  BY EmptyQueue DEF Init
<1>2. calls \in Seq(Call) /\ Last = 0
  BY DEF Init, Last, Promise!Last
<1>3. IsFiniteSet(rx_data_queue)
      /\ Cardinality(rx_data_queue) <= IF radio = "blocked" THEN RX_QUEUE + 1 ELSE RX_QUEUE
  BY <1>1
<1>6. accepted \in {<<>>} \cup Slave \X (1..MaxCalls)
  BY Zenon DEF Init
<1>4. send_cnd \in 0..TX_RETRY_TIMES /\ Last <= MaxCalls
  BY <1>2 DEF Init
<1>7. /\ tx_request_sem \in BOOLEAN /\ tx_done_sem \in BOOLEAN /\ rx_done_sem \in BOOLEAN
      /\ txLate \in BOOLEAN /\ mangled \in BOOLEAN
  BY DEF Init
<1>5. /\ executed \subseteq Slave \X (1..MaxCalls) /\ abandoned \subseteq 1..MaxCalls
      /\ pc = "idle" /\ radio = "loop"
      /\ tx_data_queue \subseteq Half /\ rx_data_queue \subseteq Reply
      /\ requests \subseteq Frame /\ replies \subseteq Reply
  BY DEF Init
<1> QED BY <1>2, <1>3, <1>4, <1>5, <1>6, <1>7 DEF TypeOK

LEMMA TypeStep == TypeOK /\ [Next]_vars => TypeOK'
<1> SUFFICES ASSUME TypeOK, [Next]_vars PROVE TypeOK'
  OBVIOUS
<1> USE DEF TypeOK, absState, semVars, airVars, Last, Promise!Last
<1>1. CASE Begin
  <2>1. PICK c \in Call : calls' = Append(calls, c)
    BY <1>1 DEF Begin
  <2>2. calls' \in Seq(Call) /\ Len(calls') = Len(calls) + 1 /\ Len(calls') <= MaxCalls
    BY <1>1, <2>1 DEF Begin
  <2> QED BY <1>1, <2>2 DEF Begin
<1>2. CASE Send
  <2>1. tx_data_queue' \subseteq Half
    BY <1>2, SentTyped DEF Send
  <2>2. tx_request_sem' \in BOOLEAN
    BY <1>2 DEF Send, GivenAt
  <2> QED BY <1>2, <2>1, <2>2 DEF Send
<1>3. CASE TakeTxDone
  BY <1>3 DEF TakeTxDone
<1>4. CASE TxTimeout
  BY <1>4, SentTyped DEF TxTimeout
<1>5. CASE TakeRxDone
  BY <1>5 DEF TakeRxDone
<1>6. ASSUME Retry, pc # "idle"
      PROVE  /\ pc' \in {"add1", "idle"} /\ send_cnd' \in 0..TX_RETRY_TIMES
             /\ abandoned' \subseteq 1..MaxCalls /\ UNCHANGED <<calls, executed, accepted>>
  <2>1. Last \in 1..MaxCalls
    BY <1>6, SentTyped
  <2>2. abandoned' = abandoned \cup {Last} /\ UNCHANGED <<calls, executed, accepted>>
    BY <1>6 DEF Retry
  <2>3. pc' \in {"add1", "idle"} /\ send_cnd' \in 0..TX_RETRY_TIMES
    BY <1>6 DEF Retry
  <2> QED BY <2>1, <2>2, <2>3
<1>7. CASE RxTimeout
  <2>1. Retry /\ pc # "idle"
    BY <1>7 DEF RxTimeout
  <2> QED BY <1>6, <1>7, <2>1 DEF RxTimeout
<1>8. CASE Drain
  <2>1. /\ rx_data_queue' = {} /\ radio' \in {"loop", "sending"}
        /\ UNCHANGED <<tx_data_queue, tx_request_sem, tx_done_sem, airVars, txLate, mangled>>
        /\ pc = "drain"
    BY <1>8 DEF Drain
  <2>2. rx_done_sem' \in BOOLEAN
    BY <1>8 DEF Drain
  <2>3. /\ pc' \in {"add1", "idle"} /\ send_cnd' \in 0..TX_RETRY_TIMES
        /\ abandoned' \subseteq 1..MaxCalls /\ UNCHANGED <<calls, executed>>
        /\ accepted' \in {<<>>} \cup Slave \X (1..MaxCalls)
    <3>1. CASE Retry
      BY <1>6, <2>1, <3>1
    <3>2. CASE ~Retry
      <4>1. PICK r \in Reply :
               /\ accepted' = <<r.from, r.k>>
               /\ abandoned' = IF r.k = Last THEN abandoned ELSE abandoned \cup {Last}
               /\ pc' = "idle"
               /\ UNCHANGED <<calls, executed, send_cnd>>
        BY <1>8, <3>2 DEF Drain
      <4>2. accepted' \in Slave \X (1..MaxCalls)
        BY <4>1 DEF Reply
      <4> QED BY <2>1, <4>1, <4>2, SentTyped
    <3> QED BY <3>1, <3>2
  <2>4. pc' # "idle" => Last' > 0
    BY <2>1, <2>3
  <2> QED BY <2>1, <2>2, <2>3, <2>4, EmptyQueue
<1>9. CASE TakeRequest
  <2>1. requests' \subseteq Frame
    BY <1>9 DEF TakeRequest
  <2> QED BY <1>9, <2>1 DEF TakeRequest
<1>10. CASE GiveTxDone
  BY <1>10 DEF GiveTxDone
<1>11. CASE Receive
  <2>1. PICK r \in replies :
           replies' = replies \ {r} /\ rx_data_queue' = rx_data_queue \cup {r}
    BY <1>11 DEF Receive
  <2>2. /\ IsFiniteSet(rx_data_queue') /\ Cardinality(rx_data_queue') <= RX_QUEUE + 1
        /\ HasRoom => Cardinality(rx_data_queue') <= RX_QUEUE
    BY <1>11, <2>1, QueueGrows DEF Receive
  <2>3. rx_done_sem' \in BOOLEAN
    BY <1>11 DEF Receive, HasRoom
  <2>4. radio' = IF HasRoom THEN "loop" ELSE "blocked"
    BY <1>11 DEF Receive
  <2> QED BY <1>11, <2>1, <2>2, <2>3, <2>4 DEF Receive
<1>12. CASE Execute
  <2>1. PICK s \in Slave, f \in requests :
          /\ requests' = requests \ {f}
          /\ executed' = executed \cup {<<s, f.k>>}
          /\ replies' = replies \cup {[from |-> s, k |-> f.k, try |-> f.try]}
    BY <1>12 DEF Execute
  <2>2. f.k \in 1..MaxCalls /\ f.try \in 0..TX_RETRY_TIMES
    BY DEF Frame
  <2>3. executed' \subseteq Slave \X (1..MaxCalls) /\ replies' \subseteq Reply
    BY <2>1, <2>2 DEF Reply
  <2> QED BY <1>12, <2>1, <2>3 DEF Execute
<1>13. CASE UNCHANGED vars
  BY <1>13 DEF vars
<1> QED
  BY <1>1, <1>2, <1>3, <1>4, <1>5, <1>7, <1>8, <1>9, <1>10, <1>11, <1>12, <1>13
  DEF Next, Manager

(* Every variable keeps its type, and the receive queue its capacity,      *)
(* whatever is lost or late (property TypeOK).                             *)
THEOREM LinkTyping == Spec => []TypeOK
BY TypeInitial, TypeStep, PTL DEF Spec

(***************************************************************************)
(* Whole frames.  Until a wait for tx_done_sem times out, exactly the      *)
(* bytes of the current frame are queued when the radio task is asked for, *)
(* and one token or the radio task itself answers for it.                  *)
(***************************************************************************)

Queued == IF pc = "add2" THEN {HalfOf(Sent, 1)}
          ELSE IF pc = "request" \/ tx_request_sem THEN Halves(Sent) ELSE {}

TxInv ==
    ~txLate =>
        /\ ~mangled
        /\ tx_data_queue = Queued
        /\ tx_request_sem \/ tx_done_sem \/ radio = "sending" => pc = "tx_wait"
        /\ tx_request_sem => ~tx_done_sem /\ radio # "sending"
        /\ tx_done_sem => radio # "sending"

LEMMA TxStep == TypeOK /\ TxInv /\ [Next]_vars => TxInv'
<1> SUFFICES ASSUME TypeOK, TxInv, [Next]_vars, ~txLate' PROVE TxInv'
  BY DEF TxInv
<1>0. ~txLate
  BY DEF Next, Manager, Begin, Send, TakeTxDone, TxTimeout, TakeRxDone, RxTimeout, Drain,
         TakeRequest, GiveTxDone, Receive, Execute, vars
<1> USE <1>0 DEF TxInv, Queued, absState, semVars, airVars, Sent, Last, Promise!Last, HalfOf,
                Halves
<1>1. CASE Begin
  BY <1>1 DEF Begin
<1>2. CASE Send
  <2>1. CASE pc = "add1"
    BY <1>2, <2>1 DEF Send, GivenAt
  <2>2. CASE pc = "add2"
    BY <1>2, <2>2 DEF Send, GivenAt
  <2>3. CASE pc = "request"
    BY <1>2, <2>3 DEF Send, GivenAt
  <2> QED BY <1>2, <2>1, <2>2, <2>3 DEF Send
<1>3. CASE TakeTxDone
  BY <1>3 DEF TakeTxDone, TypeOK
<1>4. CASE TxTimeout
  BY <1>4 DEF TxTimeout
<1>5. CASE TakeRxDone
  BY <1>5 DEF TakeRxDone
<1>6. CASE RxTimeout \/ Drain
  <2>1. /\ pc \in {"rx_wait", "drain"} /\ pc' \in {"add1", "idle"}
        /\ UNCHANGED <<tx_data_queue, tx_request_sem, tx_done_sem, mangled>>
        /\ radio' = "sending" => radio = "sending"
    BY <1>6 DEF RxTimeout, Drain, Retry
  <2> QED BY <2>1
<1>7. CASE TakeRequest
  <2>1. tx_request_sem /\ pc = "tx_wait" /\ tx_data_queue = Halves(Sent) /\ Sent \in Frame
    BY <1>7, SentTyped DEF TakeRequest
  <2>2. mangled' = mangled
    BY <1>7, <2>1 DEF TakeRequest
  <2> QED BY <1>7, <2>1, <2>2 DEF TakeRequest
<1>8. CASE GiveTxDone
  BY <1>8 DEF GiveTxDone
<1>9. CASE Receive
  BY <1>9 DEF Receive, HasRoom
<1>10. CASE Execute
  BY <1>10 DEF Execute
<1>11. CASE UNCHANGED vars
  BY <1>11 DEF vars
<1> QED
  BY <1>1, <1>2, <1>3, <1>4, <1>5, <1>6, <1>7, <1>8, <1>9, <1>10, <1>11 DEF Next, Manager

(* The radio sends one whole frame at a time until a wait for tx_done_sem  *)
(* timed out, for any interleaving with the task that adds the bytes       *)
(* (property WholeFrames).                                                 *)
THEOREM FramesStayWhole == Spec => []WholeFrames
<1>1. Init => TxInv
  BY DEF Init, TxInv, Queued
<1>2. TxInv => WholeFrames
  BY DEF TxInv, WholeFrames
<1> QED BY <1>1, <1>2, TypeInitial, TypeStep, TxStep, PTL DEF Spec

(***************************************************************************)
(* Whose answer it is.                                                     *)
(***************************************************************************)

Absent(k, S) == \A x \in S : x.k # k

Nowhere(k) == /\ Absent(k, tx_data_queue) /\ Absent(k, requests)
              /\ Absent(k, replies) /\ Absent(k, rx_data_queue)

(* Everything underway belongs to a call that was made, and a reply to the *)
(* slave the call is for, which executed it.                               *)
Underlying ==
    /\ \A x \in tx_data_queue \cup requests \cup replies \cup rx_data_queue : x.k \in 1..Last
    /\ \A r \in replies \cup rx_data_queue :
          calls[r.k].to = r.from /\ <<r.from, r.k>> \in executed
    /\ \A e \in executed : e[2] \in 1..Last

(* Of a call that has not been given up, a single thing is underway: its   *)
(* frame, the request or the reply; and nothing once it returned.          *)
Single(k) ==
    /\ k < Last \/ pc \in {"idle", "add1"} => Nowhere(k)
    /\ pc = "add2" => /\ \A x \in tx_data_queue : x.k = k => x.half = 1
                      /\ Absent(k, requests) /\ Absent(k, replies) /\ Absent(k, rx_data_queue)
    /\ \A x \in tx_data_queue \cup requests \cup replies \cup rx_data_queue :
          x.k = k => x.try = send_cnd
    /\ ~Absent(k, tx_data_queue) =>
          Absent(k, requests) /\ Absent(k, replies) /\ Absent(k, rx_data_queue)
    /\ ~Absent(k, requests) => Absent(k, replies) /\ Absent(k, rx_data_queue)
    /\ ~Absent(k, replies) => Absent(k, rx_data_queue)

Held(k) == k \notin abandoned /\ calls[k].kind # "sync"

LinkInv ==
    /\ Underlying
    /\ \A k \in 1..Last : Held(k) => Single(k)
    /\ pc \in {"rx_wait", "drain"} => calls[Last].kind # "sync"
    /\ radio = "blocked" => \E r \in rx_data_queue : r.k \in abandoned

(* A call's replies come from the one slave it is for, so two of them from *)
(* the same try are the same reply.                                        *)
LEMMA OneReply ==
    ASSUME TypeOK, LinkInv, NEW k \in 1..Last, Held(k),
           NEW r \in replies \cup rx_data_queue, NEW q \in replies \cup rx_data_queue,
           r.k = k, q.k = k
    PROVE  r = q
<1>1. r.try = send_cnd /\ q.try = send_cnd
  BY DEF LinkInv, Single
<1>2. r.from = calls[k].to /\ q.from = calls[k].to
  BY DEF LinkInv, Underlying
<1>3. r \in Reply /\ q \in Reply
  BY DEF TypeOK
<1> QED BY <1>1, <1>2, <1>3 DEF Reply

(* An answered call was executed, and it is the pending one or was given   *)
(* up.                                                                     *)
LEMMA AnswerKnown ==
    ASSUME TypeOK, LinkInv, pc = "drain", NEW r \in Reply, rx_data_queue = {r}, Matches(r)
    PROVE  /\ r.k \in 1..Last /\ <<r.from, r.k>> \in executed
           /\ calls[r.k].kind # "sync"
           /\ r.k = Last \/ r.k \in abandoned
<1>1. r.k \in 1..Last /\ <<r.from, r.k>> \in executed
  BY DEF LinkInv, Underlying
<1>2. calls[r.k].kind = calls[Last].kind /\ calls[Last].kind # "sync"
  BY DEF Matches, Promise!SameQuestion, LinkInv, Last
<1>3. r.k < Last => r.k \in abandoned
  BY <1>1, <1>2 DEF LinkInv, Held, Single, Nowhere, Absent
<1> QED BY <1>1, <1>2, <1>3 DEF TypeOK, Last, Promise!Last

(* A step that changes neither calls nor what is underway, gives no call   *)
(* up and returns from none, and starts no try.                            *)
LEMMA QuietStep ==
    ASSUME LinkInv,
           UNCHANGED <<calls, executed, tx_data_queue, rx_data_queue, airVars, send_cnd>>,
           abandoned \subseteq abandoned',
           Held(Last)' => pc' \notin {"idle", "add1", "add2"}
    PROVE  Underlying' /\ \A k \in 1..Last' : Held(k)' => Single(k)'
BY DEF LinkInv, Underlying, Held, Single, Nowhere, Absent, airVars, Last, Promise!Last

LEMMA LinkInitial == Init => LinkInv
BY DEF Init, LinkInv, Underlying, Last, Promise!Last

LEMMA LinkStep == TypeOK /\ LinkInv /\ [Next]_vars => LinkInv'
<1> SUFFICES ASSUME TypeOK, LinkInv, [Next]_vars PROVE LinkInv'
  OBVIOUS
<1> USE DEF absState, semVars, airVars, Last, Promise!Last
<1>0. Last \in Nat /\ Last <= MaxCalls
  BY DEF TypeOK
<1>1. CASE Begin
  <2>1. PICK c \in Call : calls' = Append(calls, c)
    BY <1>1 DEF Begin
  <2>2. /\ Last' = Last + 1 /\ \A k \in 1..Last : calls'[k] = calls[k]
        /\ pc = "idle" /\ pc' = "add1" /\ UNCHANGED <<executed, abandoned, tx_data_queue,
              rx_data_queue, requests, replies, radio>>
    BY <1>1, <2>1 DEF Begin, TypeOK
  <2>3. Underlying'
    BY <1>0, <2>2 DEF LinkInv, Underlying
  <2>4. ASSUME NEW k \in 1..Last', Held(k)' PROVE Single(k)'
    <3>1. Nowhere(k)
      <4>1. CASE k = Last + 1
        BY <1>0, <4>1 DEF LinkInv, Underlying, Nowhere, Absent
      <4>2. CASE k \in 1..Last
        BY <2>2, <2>4, <4>2 DEF LinkInv, Held, Single
      <4> QED BY <1>0, <2>2, <2>4, <4>1, <4>2
    <3> QED BY <2>2, <3>1 DEF Single, Nowhere, Absent
  <2> QED BY <2>2, <2>3, <2>4 DEF LinkInv
<1>2. CASE Send
  <2>1. /\ UNCHANGED <<calls, executed, abandoned, send_cnd, rx_data_queue, requests, replies,
                       radio>>
        /\ pc \in {"add1", "add2", "request"} /\ pc' \notin {"rx_wait", "drain", "idle", "add1"}
        /\ tx_data_queue' = tx_data_queue \cup
              (IF pc = "add1" THEN {HalfOf(Sent, 1)}
               ELSE IF pc = "add2" THEN {HalfOf(Sent, 2)} ELSE {})
        /\ pc' = "add2" <=> pc = "add1"
    BY <1>2 DEF Send
  <2>2. Sent.k = Last /\ Sent.try = send_cnd /\ Last > 0
    BY <2>1 DEF Sent, TypeOK
  <2>3. Underlying'
    BY <1>0, <2>1, <2>2 DEF LinkInv, Underlying, HalfOf
  <2>4. ASSUME NEW k \in 1..Last, Held(k) PROVE Single(k)'
    <3>1. CASE k = Last
      BY <1>0, <2>1, <2>2, <2>4, <3>1 DEF LinkInv, Single, Nowhere, Absent, HalfOf
    <3>2. CASE k < Last
      BY <1>0, <2>1, <2>2, <2>4, <3>2 DEF LinkInv, Single, Nowhere, Absent, HalfOf
    <3> QED BY <1>0, <2>4, <3>1, <3>2
  <2> QED BY <2>1, <2>3, <2>4 DEF LinkInv, Held
<1>3. CASE TakeTxDone \/ TakeRxDone
  <2>1. /\ UNCHANGED <<calls, executed, abandoned, tx_data_queue, rx_data_queue, airVars,
                       send_cnd, radio>>
        /\ calls[Last].kind = "sync" \/ pc' \in {"rx_wait", "drain"}
        /\ pc' \in {"rx_wait", "drain"} => calls[Last].kind # "sync"
    BY <1>3 DEF TakeTxDone, TakeRxDone, AwaitsReply, LinkInv
  <2>2. Underlying' /\ \A k \in 1..Last' : Held(k)' => Single(k)'
    BY <2>1, QuietStep DEF Held
  <2> QED BY <2>1, <2>2 DEF LinkInv
<1>4. CASE TxTimeout \/ RxTimeout
  <2>1. /\ UNCHANGED <<calls, executed, tx_data_queue, rx_data_queue, airVars, radio>>
        /\ abandoned' = abandoned \cup {Last} /\ pc' \in {"idle", "add1"}
    BY <1>4 DEF TxTimeout, RxTimeout, Retry
  <2>2. Underlying'
    BY <2>1 DEF LinkInv, Underlying
  <2>3. ASSUME NEW k \in 1..Last, Held(k)' PROVE Single(k)'
    <3>1. k < Last /\ Held(k)
      BY <1>0, <2>1, <2>3 DEF Held
    <3>2. Nowhere(k)
      BY <3>1 DEF LinkInv, Single
    <3> QED BY <2>1, <3>2 DEF Single, Nowhere, Absent
  <2> QED BY <2>1, <2>2, <2>3 DEF LinkInv
<1>5. CASE Drain
  <2>1. /\ UNCHANGED <<calls, executed, tx_data_queue, airVars>>
        /\ rx_data_queue' = {} /\ radio' # "blocked" /\ pc' \in {"idle", "add1"}
    BY <1>5 DEF Drain, Retry
  <2>2. Underlying'
    BY <2>1 DEF LinkInv, Underlying
  <2>3. /\ abandoned \subseteq abandoned'
        /\ Last \in abandoned' \/ \E r \in rx_data_queue : r.k = Last
    BY <1>5 DEF Drain, Retry
  <2>4. ASSUME NEW k \in 1..Last, Held(k)' PROVE Single(k)'
    <3>1. Held(k)
      BY <2>1, <2>3, <2>4 DEF Held
    <3>2. Absent(k, tx_data_queue) /\ Absent(k, requests) /\ Absent(k, replies)
      <4>1. CASE k < Last
        BY <3>1, <4>1 DEF LinkInv, Single, Nowhere
      <4>2. CASE k = Last
        BY <2>3, <2>4, <3>1, <4>2 DEF LinkInv, Single, Held, Absent
      <4> QED BY <1>0, <4>1, <4>2
    <3> QED BY <2>1, <3>2 DEF Single, Nowhere, Absent
  <2> QED BY <2>1, <2>2, <2>4 DEF LinkInv
<1>6. CASE TakeRequest
  <2>1. /\ UNCHANGED <<calls, executed, abandoned, pc, send_cnd, rx_data_queue, replies>>
        /\ tx_data_queue' = {} /\ radio' = "sending"
    BY <1>6 DEF TakeRequest
  <2>2. CASE requests' = requests
    BY <2>1, <2>2 DEF LinkInv, Underlying, Held, Single, Nowhere, Absent
  <2>3. CASE requests' # requests
    <3>1. PICK f \in Frame : tx_data_queue = Halves(f) /\ requests' = requests \cup {f}
      BY <1>6, <2>3 DEF TakeRequest
    <3>2. /\ HalfOf(f, 1) \in tx_data_queue /\ HalfOf(f, 2) \in tx_data_queue
          /\ HalfOf(f, 1).k = f.k /\ HalfOf(f, 2).k = f.k
          /\ HalfOf(f, 1).try = f.try /\ HalfOf(f, 2).half = 2
      BY <3>1 DEF Halves, HalfOf
    <3>3. Underlying'
      BY <2>1, <3>1, <3>2 DEF LinkInv, Underlying
    <3>4. ASSUME NEW k \in 1..Last, Held(k) PROVE Single(k)'
      <4>1. Single(k)
        BY <3>4 DEF LinkInv
      <4>2. CASE f.k = k
        BY <2>1, <3>1, <3>2, <4>1, <4>2 DEF Single, Nowhere, Absent
      <4>3. CASE f.k # k
        BY <2>1, <3>1, <3>2, <4>1, <4>3 DEF Single, Nowhere, Absent
      <4> QED BY <4>2, <4>3
    <3> QED BY <2>1, <3>3, <3>4 DEF LinkInv, Held
  <2> QED BY <2>2, <2>3
<1>7. CASE GiveTxDone
  BY <1>7 DEF GiveTxDone, LinkInv, Underlying, Held, Single, Nowhere, Absent
<1>8. CASE Receive
  <2>1. PICK r \in replies : /\ replies' = replies \ {r}
                             /\ rx_data_queue' = rx_data_queue \cup {r}
    BY <1>8 DEF Receive
  <2>2. /\ UNCHANGED <<calls, executed, abandoned, pc, send_cnd, tx_data_queue, requests>>
        /\ radio' = "blocked" => ~HasRoom
    BY <1>8 DEF Receive
  <2>3. Underlying'
    BY <2>1, <2>2 DEF LinkInv, Underlying
  <2>4. ASSUME NEW k \in 1..Last, Held(k) PROVE Single(k)'
    <3>1. Single(k)
      BY <2>4 DEF LinkInv
    <3>2. CASE r.k = k
      <4>1. Absent(k, replies')
        BY <2>1, <2>4, <3>2, OneReply DEF Absent
      <4>2. Absent(k, tx_data_queue) /\ Absent(k, requests)
        BY <3>1, <3>2 DEF Single, Absent
      <4> QED BY <2>1, <2>2, <3>1, <3>2, <4>1, <4>2 DEF Single, Nowhere, Absent
    <3>3. CASE r.k # k
      BY <2>1, <2>2, <3>1, <3>3 DEF Single, Nowhere, Absent
    <3> QED BY <3>2, <3>3
  <2>5. radio' = "blocked" => \E q \in rx_data_queue' : q.k \in abandoned
    <3> SUFFICES ASSUME ~HasRoom, r.k \notin abandoned
                 PROVE  \E q \in rx_data_queue : q.k \in abandoned
      BY <2>1, <2>2
    <3>1. PICK q \in rx_data_queue : TRUE
      BY EmptyQueue DEF HasRoom
    <3>2. \A x \in replies \cup rx_data_queue :
             x.k \in 1..Last /\ calls[x.k].to \in Slave /\ calls[x.k].kind # "sync"
      <4> TAKE x \in replies \cup rx_data_queue
      <4>1. x.k \in 1..Last /\ calls[x.k].to = x.from /\ x.from \in Slave
        BY DEF LinkInv, Underlying, TypeOK, Reply
      <4>2. calls[x.k] \in Call
        BY <4>1 DEF TypeOK
      <4> QED BY <4>1, <4>2 DEF Call, Promise!Call, Promise!Broadcast
    <3>3. Held(r.k) /\ Single(r.k)
      BY <3>2 DEF LinkInv, Held
    <3>4. r.k = Last /\ Absent(Last, rx_data_queue)
      BY <1>0, <3>2, <3>3 DEF Single, Nowhere, Absent
    <3>5. CASE q.k \in abandoned
      BY <3>5
    <3>6. CASE q.k \notin abandoned
      <4>1. Held(q.k) /\ Single(q.k)
        BY <3>2, <3>6 DEF LinkInv, Held
      <4>2. q.k = Last
        BY <1>0, <3>2, <4>1 DEF Single, Nowhere, Absent
      <4> QED BY <3>4, <4>2 DEF Absent
    <3> QED BY <3>5, <3>6
  <2> QED BY <2>2, <2>3, <2>4, <2>5 DEF LinkInv, Held
<1>9. CASE Execute
  <2>1. PICK s \in Slave, f \in requests :
          /\ calls[f.k].to = s
          /\ requests' = requests \ {f}
          /\ executed' = executed \cup {<<s, f.k>>}
          /\ replies' = replies \cup {[from |-> s, k |-> f.k, try |-> f.try]}
    BY <1>9 DEF Execute
  <2>2. UNCHANGED <<calls, abandoned, pc, send_cnd, tx_data_queue, rx_data_queue, radio>>
    BY <1>9 DEF Execute
  <2>3. f.k \in 1..Last
    BY DEF LinkInv, Underlying
  <2>4. Underlying'
    BY <2>1, <2>2, <2>3 DEF LinkInv, Underlying
  <2>5. ASSUME NEW k \in 1..Last, Held(k) PROVE Single(k)'
    <3>1. Single(k)
      BY <2>5 DEF LinkInv
    <3>2. CASE f.k = k
      <4>1. Absent(k, requests')
        <5> SUFFICES ASSUME NEW g \in requests, g.k = k PROVE g = f
          BY <2>1 DEF Absent
        <5>1. g.try = send_cnd /\ f.try = send_cnd /\ g \in Frame /\ f \in Frame
          BY <3>1, <3>2 DEF Single, TypeOK
        <5> QED BY <3>2, <5>1 DEF Frame
      <4>2. Absent(k, tx_data_queue) /\ Absent(k, rx_data_queue)
        BY <3>1, <3>2 DEF Single, Absent
      <4> QED BY <2>1, <2>2, <3>1, <3>2, <4>1, <4>2 DEF Single, Nowhere, Absent
    <3>3. CASE f.k # k
      BY <2>1, <2>2, <3>1, <3>3 DEF Single, Nowhere, Absent
    <3> QED BY <3>2, <3>3
  <2> QED BY <2>2, <2>4, <2>5 DEF LinkInv, Held
<1>10. CASE UNCHANGED vars
  BY <1>10 DEF vars, LinkInv, Underlying, Held, Single, Nowhere, Absent
<1> QED
  BY <1>1, <1>2, <1>3, <1>4, <1>5, <1>6, <1>7, <1>8, <1>9, <1>10 DEF Next, Manager

(***************************************************************************)
(* Theorems.                                                               *)
(***************************************************************************)

(* The radio task is blocked by a full receive queue only when replies of  *)
(* given-up calls are in it (property BlockedByBacklog), for any capacity: *)
(* what keeps it from happening is that the replies to a call that is      *)
(* still waited for are at most one.                                       *)
THEOREM BlockedOnlyByBacklog == Spec => []BlockedByBacklog
<1>1. LinkInv => BlockedByBacklog
  BY DEF LinkInv, BlockedByBacklog
<1> QED BY <1>1, TypeInitial, TypeStep, LinkInitial, LinkStep, PTL DEF Spec

LEMMA CallInitial == Init => Promise!Init
BY DEF Init, Promise!Init, Promise!Nothing

LEMMA CallStep == TypeOK /\ LinkInv /\ [Next]_vars => [Promise!Next]_(Promise!absVars)
<1> SUFFICES ASSUME TypeOK, LinkInv, [Next]_vars
             PROVE  Promise!Next \/ UNCHANGED Promise!absVars
  OBVIOUS
<1> USE DEF absState, Promise!absVars, Call, Last, Promise!Next
<1>1. CASE Begin
  BY <1>1 DEF Begin, Promise!Begin, Promise!Nothing
<1>2. CASE Send
  BY <1>2 DEF Send
<1>3. CASE TakeTxDone
  <2>1. CASE AwaitsReply(calls[Last])
    BY <1>3, <2>1 DEF TakeTxDone
  <2>2. CASE ~AwaitsReply(calls[Last])
    BY <1>3, <2>2 DEF TakeTxDone, AwaitsReply, Promise!Succeed
  <2> QED BY <2>1, <2>2
<1>4. CASE TxTimeout
  BY <1>4 DEF TxTimeout, Promise!Fail
<1>5. CASE TakeRxDone
  BY <1>5 DEF TakeRxDone
<1>6. ASSUME Retry, pc # "idle" PROVE Promise!GiveUp \/ Promise!Fail
  BY <1>6 DEF Retry, Promise!GiveUp, Promise!Fail
<1>7. CASE RxTimeout
  BY <1>6, <1>7 DEF RxTimeout
<1>8. CASE Drain
  <2>1. CASE Retry
    BY <1>6, <1>8, <2>1 DEF Drain
  <2>2. CASE ~Retry
    <3>1. PICK r \in Reply :
             /\ rx_data_queue = {r} /\ Matches(r)
             /\ accepted' = <<r.from, r.k>>
             /\ abandoned' = IF r.k = Last THEN abandoned ELSE abandoned \cup {Last}
             /\ pc = "drain" /\ pc' = "idle"
             /\ UNCHANGED <<calls, executed>>
      BY <1>8, <2>2 DEF Drain
    <3>2. <<r.from, r.k>> \in executed /\ (r.k = Last \/ r.k \in abandoned)
      BY <3>1, AnswerKnown
    <3>3. Promise!SameQuestion(r.k, Last)
      BY <3>1 DEF Matches
    <3>4. \E e \in executed :
             /\ Promise!SameQuestion(e[2], Last)
             /\ e[2] = Last \/ e[2] \in abandoned
             /\ accepted' = e
             /\ abandoned' = IF e[2] = Last THEN abandoned ELSE abandoned \cup {Last}
      <4> USE <3>2
      <4> WITNESS <<r.from, r.k>> \in executed
      <4> QED BY <3>1, <3>3
    <3> QED BY <3>1, <3>4 DEF Promise!Succeed
  <2> QED BY <2>1, <2>2
<1>9. CASE TakeRequest
  BY <1>9 DEF TakeRequest
<1>10. CASE GiveTxDone
  BY <1>10 DEF GiveTxDone
<1>11. CASE Receive
  BY <1>11 DEF Receive
<1>12. CASE Execute
  <2>1. PICK s \in Slave, f \in requests :
          calls[f.k].to = s /\ executed' = executed \cup {<<s, f.k>>}
    BY <1>12 DEF Execute
  <2>2. f.k \in 1..Last
    BY DEF LinkInv, Underlying
  <2> QED BY <1>12, <2>1, <2>2 DEF Execute, Promise!Execute
<1>13. CASE UNCHANGED vars
  BY <1>13 DEF vars
<1> QED
  BY <1>1, <1>2, <1>3, <1>4, <1>5, <1>7, <1>8, <1>9, <1>10, <1>11, <1>12, <1>13
  DEF Next, Manager

(* send_frame implements SlaveCall (property KeepsPromise), for any number *)
(* of slaves, retries and frames underway: a call that returns true was    *)
(* executed by its slave, or rests on an earlier call for the same thing   *)
(* that had been given up.                                                 *)
THEOREM LinkKeepsPromise == Spec => KeepsPromise
<1>1. TypeOK /\ LinkInv /\ [Next]_vars => [Promise!Next]_(Promise!absVars)
  BY CallStep
<1> QED
  BY <1>1, CallInitial, TypeInitial, TypeStep, LinkInitial, LinkStep, PTL
  DEF Spec, KeepsPromise, Promise!Spec
=============================================================================
