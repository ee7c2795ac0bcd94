---------------------------- MODULE UplinkProofs ----------------------------
(***************************************************************************)
(* Theorems about the uplink, for any capacity of rx_data_queue and any    *)
(* number of datagrams and uploads.                                        *)
(***************************************************************************)
EXTENDS Uplink, TLAPS

(* The points of a writer, by what happens at them.                        *)
LEMMA PointFacts ==
    /\ DOMAIN Locks = {"get", "again", "lock"}
    /\ DOMAIN Unlocks = {"unlock", "release"}
    /\ DOMAIN After = {"get", "again", "lock", "unlock", "release"}
    /\ \A p \in DOMAIN Locks : Locks[p] \in LockId /\ After[p] \in Point
    /\ \A p \in DOMAIN Unlocks : Unlocks[p] \in LockId /\ After[p] \in Point
    /\ Point = {"get", "again", "lock", "unlock", "release", "idle", "drain", "clear",
                "size", "copy1", "copy2", "request", "wait"}
PROOF
  <1>1. /\ DOMAIN Locks = {"get", "again", "lock"}
        /\ DOMAIN Unlocks = {"unlock", "release"}
        /\ DOMAIN After = {"get", "again", "lock", "unlock", "release"}
    BY DEF Locks, Unlocks, After
  <1>2. Point = {"get", "again", "lock", "unlock", "release", "idle", "drain", "clear",
                 "size", "copy1", "copy2", "request", "wait"}
    BY <1>1 DEF Point
  <1>3. \A p \in DOMAIN Locks : Locks[p] \in LockId /\ After[p] \in Point
    BY <1>1, <1>2 DEF Locks, After, LockId
  <1>4. \A p \in DOMAIN Unlocks : Unlocks[p] \in LockId /\ After[p] \in Point
    BY <1>1, <1>2 DEF Unlocks, After, LockId
  <1> QED BY <1>1, <1>2, <1>3, <1>4

(* A count is only stored by an unlock when it was positive.               *)
UnlockInv ==
    \A w \in Writer : at[w] \in DOMAIN Unlocks /\ phase[w] = "store" => reg[w] > 0

(* Outside a lock operation, a writer is in phase "test".                  *)
PhaseInv ==
    \A w \in Writer : phase[w] # "test" => at[w] \in DOMAIN Locks \cup DOMAIN Unlocks

TypeInv == TypeOK /\ UnlockInv /\ PhaseInv

(* The initial message is none that a writer sends.                        *)
LEMMA NoMsgNotMessage == NoMsg \notin Message
BY DEF NoMsg, Message, Writer

(* Messages are numbered.                                                  *)
LEMMA MessageNumber ==
    ASSUME TypeInv, NEW w \in Writer
    PROVE  msg[w].k \in Nat /\ msg[w].k + 1 \in Nat
<1> USE DEF TypeInv, TypeOK, MemTypeOK
<1>1. CASE msg[w] \in Message
  BY <1>1 DEF Message
<1>2. CASE msg[w] = NoMsg
  BY <1>2 DEF NoMsg
<1> QED BY <1>1, <1>2

(* Typing of the buffer's variables, one step per action of a writer.      *)
LEMMA MemTyping ==
    ASSUME TypeInv, NEW w \in Writer, MemStep(w)
    PROVE  MemTypeOK' /\ UnlockInv' /\ PhaseInv'
<1> USE PointFacts DEF TypeInv, TypeOK, MemTypeOK, UnlockInv, PhaseInv, Goto, Enter
<1>1. CASE TestLock(w)
  <2>1. lockCnt[Locks[at[w]]] \in Nat
    BY <1>1 DEF TestLock
  <2> QED BY <1>1, <2>1 DEF TestLock, NextPhase
<1>2. CASE TakeMutex(w)
  <2>1. lockCnt[Locks[at[w]]] \in Nat
    BY <1>2 DEF TakeMutex
  <2> QED BY <1>2, <2>1 DEF TakeMutex
<1>3. CASE StoreLock(w)
  <2>1. Locks[at[w]] \in LockId /\ After[at[w]] \in Point /\ reg[w] + 1 \in Nat
    BY <1>3 DEF StoreLock
  <2> QED BY <1>3, <2>1 DEF StoreLock
<1>4. CASE LockTimeout(w)
  BY <1>4 DEF LockTimeout
<1>5. CASE TestUnlock(w)
  <2>1. lockCnt[Unlocks[at[w]]] \in Nat /\ After[at[w]] \in Point
    BY <1>5 DEF TestUnlock
  <2> QED BY <1>5, <2>1 DEF TestUnlock
<1>6. CASE StoreUnlock(w)
  <2>1. Unlocks[at[w]] \in LockId /\ After[at[w]] \in Point /\ reg[w] - 1 \in Nat
    BY <1>6 DEF StoreUnlock
  <2>2. halted' \in BOOLEAN
    BY <1>6 DEF StoreUnlock
  <2>3. holder' \in [LockId -> Writer \cup {"none", "boot"}]
    BY <1>6, <2>1 DEF StoreUnlock
  <2>4. lockCnt' \in [LockId -> Nat]
    BY <1>6, <2>1 DEF StoreUnlock
  <2>5. /\ at' \in [Writer -> Point] /\ reg' \in [Writer -> Nat]
        /\ phase' \in [Writer -> {"test", "take", "store"}]
    BY <1>6, <2>1 DEF StoreUnlock
  <2>6. UnlockInv' /\ PhaseInv'
    BY <1>6 DEF StoreUnlock
  <2>7. UNCHANGED <<size, buf, msg>>
    BY <1>6 DEF StoreUnlock
  <2> QED BY <2>2, <2>3, <2>4, <2>5, <2>6, <2>7
<1>7. CASE Clear(w)
  BY <1>7 DEF Clear, lockVars
<1>8. CASE SetSize(w)
  BY <1>8 DEF SetSize, lockVars
<1>9. CASE Copy(w)
  BY <1>9 DEF Copy, lockVars
<1> QED
  BY <1>1, <1>2, <1>3, <1>4, <1>5, <1>6, <1>7, <1>8, <1>9 DEF MemStep

(* The buffer's variables when a step leaves them alone, and when it only   *)
(* moves a writer that is not locking or unlocking.                        *)
LEMMA MemUnchanged ==
    ASSUME TypeInv, UNCHANGED memVars
    PROVE  MemTypeOK' /\ UnlockInv' /\ PhaseInv'
BY DEF TypeInv, TypeOK, MemTypeOK, UnlockInv, PhaseInv, memVars

LEMMA MemMoves ==
    ASSUME TypeInv, NEW w \in Writer, NEW p \in Point,
           at[w] \notin DOMAIN Locks \cup DOMAIN Unlocks,
           Goto(w, p), UNCHANGED <<lockVars, size, buf, msg>>
    PROVE  MemTypeOK' /\ UnlockInv' /\ PhaseInv'
<1>1. MemTypeOK /\ UnlockInv /\ PhaseInv /\ at \in [Writer -> Point]
  BY DEF TypeInv, TypeOK, MemTypeOK
<1>2. /\ at' = [at EXCEPT ![w] = p] /\ at' \in [Writer -> Point]
      /\ UNCHANGED <<phase, reg, lockCnt, holder, halted, size, buf, msg>>
  BY <1>1 DEF Goto, lockVars
<1>3. MemTypeOK'
  BY <1>1, <1>2 DEF MemTypeOK
<1>4. phase[w] = "test"
  BY <1>1 DEF PhaseInv
<1>5. \A v \in Writer : v # w => at'[v] = at[v]
  BY <1>1, <1>2
<1> QED BY <1>1, <1>2, <1>3, <1>4, <1>5 DEF UnlockInv, PhaseInv

(* The constructors leave every variable in its type.                      *)
LEMMA TypeInitial == Init => TypeInv
<1> SUFFICES ASSUME Init PROVE TypeInv
  OBVIOUS
<1> USE PointFacts, UplinkAssumption
<1>1. MemTypeOK /\ UnlockInv /\ PhaseInv
  BY DEF Init, MemInit, MemTypeOK, UnlockInv, PhaseInv, LockId, Writer
<1>2. served \in [Writer -> BOOLEAN] /\ latest \in Writer
  BY DEF Init, Writer
<1>3. sent \in Seq(Packet)
  BY DEF Init
<1>4. rx_data_queue \in 0..RX_QUEUE /\ received \in 0..MaxDatagrams /\ drained \in 0..2
  BY DEF Init
<1>5. TypeOK
  BY <1>1, <1>2, <1>3, <1>4 DEF Init, TypeOK
<1> QED BY <1>1, <1>5 DEF TypeInv

(* Typing, one step per action.                                            *)
LEMMA TypeStep == TypeInv /\ [Next]_vars => TypeInv'
<1> SUFFICES ASSUME TypeInv, [Next]_vars PROVE TypeInv'
  OBVIOUS
<1> USE UplinkAssumption DEF TypeInv, TypeOK
<1>0. Datagram \in Packet
  BY DEF MemTypeOK, Datagram, Packet
<1>p. /\ {"idle", "drain", "get", "wait", "release"} \subseteq Point
      /\ {"idle", "drain", "request", "wait"} \cap (DOMAIN Locks \cup DOMAIN Unlocks) = {}
  BY PointFacts
<1>w. "PCinterface" \in Writer /\ "SlaveManager" \in Writer
  BY DEF Writer
<1>1. CASE Receive
  BY <1>1, MemUnchanged DEF Receive, histVars
<1>2. CASE Enqueue
  BY <1>2, MemUnchanged DEF Enqueue, histVars
<1>3. CASE Send
  <2>1. sent' \in Seq(Packet)
    BY <1>0, <1>3 DEF Send
  <2>2. served' \in [Writer -> BOOLEAN]
    BY <1>3 DEF Send
  <2> QED BY <1>3, <2>1, <2>2, MemUnchanged DEF Send, rxVars
<1>4. CASE TakeRx
  <2>1. MemTypeOK' /\ UnlockInv' /\ PhaseInv'
    BY <1>4, <1>p, <1>w, MemMoves DEF TakeRx
  <2> QED BY <1>4, <2>1 DEF TakeRx, histVars
<1>5. CASE Drain
  BY <1>5, MemUnchanged DEF Drain, histVars
<1>6. ASSUME NEW w \in Writer, NEW kind \in Kind, at[w] \in {"idle", "drain"},
             Begin(w, kind)
      PROVE  MemTypeOK' /\ UnlockInv' /\ PhaseInv' /\ tpc' = tpc
             /\ sent' \in Seq(Packet) /\ latest' \in Writer /\ overlap' \in BOOLEAN
  <2>1. msg[w].k + 1 \in Nat
    BY MessageNumber
  <2>2. [by |-> w, k |-> msg[w].k + 1, kind |-> kind] \in Message
    BY <2>1 DEF Message
  <2>3. msg' \in [Writer -> Message \cup {NoMsg}]
    BY <1>6, <2>2 DEF Begin, MemTypeOK
  <2>4. overlap' \in BOOLEAN
    BY <1>6 DEF Begin
  <2>5. /\ at' \in [Writer -> Point] /\ at'[w] = "get" /\ phase[w] = "test"
        /\ \A v \in Writer : v # w => at'[v] = at[v]
    BY <1>6, <1>p DEF Begin, Goto, MemTypeOK, PhaseInv
  <2>6. UNCHANGED <<phase, reg, lockCnt, holder, halted, size, buf>>
    BY <1>6 DEF Begin, lockVars
  <2>7. MemTypeOK'
    BY <2>3, <2>5, <2>6 DEF MemTypeOK
  <2>8. UnlockInv' /\ PhaseInv'
    BY <2>5, <2>6, PointFacts DEF UnlockInv, PhaseInv
  <2> QED BY <1>6, <2>4, <2>7, <2>8 DEF Begin
<1>7. CASE Respond
  <2>1. PICK parsed \in {FALSE, drained = 1} :
           /\ Begin("PCinterface", IF parsed THEN "data"
                                   ELSE IF allocated THEN "empty" ELSE "refused")
           /\ allocated' = (allocated \/ parsed)
    BY <1>7 DEF Respond
  <2>2. allocated' \in BOOLEAN
    BY <2>1
  <2>3. (IF parsed THEN "data" ELSE IF allocated THEN "empty" ELSE "refused") \in Kind
    BY DEF Kind
  <2>4. at["PCinterface"] = "drain"
    BY <1>7 DEF Respond
  <2>5. /\ MemTypeOK' /\ UnlockInv' /\ PhaseInv' /\ tpc' = tpc
        /\ sent' \in Seq(Packet) /\ latest' \in Writer /\ overlap' \in BOOLEAN
    BY <1>6, <1>w, <2>1, <2>3, <2>4
  <2>6. /\ UNCHANGED <<served, late, tx_request_sem, tx_done_sem>>
        /\ UNCHANGED <<rx_data_queue, rx_done_sem, received>> /\ drained' = 0
    BY <1>7, <2>1 DEF Respond, Begin
  <2> QED BY <2>2, <2>5, <2>6
<1>8. CASE Upload
  <2>1. PICK kind \in {"data", "refused"} : Begin("SlaveManager", kind)
    BY <1>8 DEF Upload
  <2>2. kind \in Kind /\ at["SlaveManager"] = "idle"
    BY <1>8 DEF Upload, Kind
  <2>3. /\ MemTypeOK' /\ UnlockInv' /\ PhaseInv' /\ tpc' = tpc
        /\ sent' \in Seq(Packet) /\ latest' \in Writer /\ overlap' \in BOOLEAN
    BY <1>6, <1>w, <2>1, <2>2
  <2> QED BY <1>8, <2>1, <2>3 DEF Upload, Begin, rxVars
<1>9. ASSUME NEW w \in Writer, Request(w) PROVE TypeInv'
  <2>1. MemTypeOK' /\ UnlockInv' /\ PhaseInv'
    BY <1>9, <1>p, MemMoves DEF Request
  <2> QED BY <1>9, <2>1 DEF Request, rxVars
<1>10. ASSUME NEW w \in Writer, Done(w) PROVE TypeInv'
  <2>1. MemTypeOK' /\ UnlockInv' /\ PhaseInv'
    BY <1>10, <1>p, MemMoves DEF Done
  <2> QED BY <1>10, <2>1 DEF Done, rxVars, histVars
<1>11. ASSUME NEW w \in Writer, DoneTimeout(w) PROVE TypeInv'
  <2>1. MemTypeOK' /\ UnlockInv' /\ PhaseInv'
    BY <1>11, <1>p, MemMoves DEF DoneTimeout
  <2> QED BY <1>11, <2>1 DEF DoneTimeout, rxVars
<1>12. ASSUME NEW w \in Writer, Write(w) PROVE TypeInv'
  <2>1. MemTypeOK' /\ UnlockInv' /\ PhaseInv'
    BY <1>12, MemTyping DEF Write
  <2> QED BY <1>12, <2>1 DEF Write, rxVars, histVars
<1>13. CASE UNCHANGED vars
  BY <1>13, MemUnchanged DEF vars, rxVars, histVars
<1> QED
  BY <1>1, <1>2, <1>3, <1>4, <1>5, <1>7, <1>8, <1>9, <1>10, <1>11, <1>12, <1>13
  DEF Next, Transfer, Finish

(* Every variable keeps its type, and rx_data_queue its capacity, for any  *)
(* capacity and any number of datagrams and uploads (property TypeOK).     *)
THEOREM UplinkTyping == Spec => []TypeOK
<1>1. TypeInv => TypeOK
  BY DEF TypeInv
<1> QED BY <1>1, TypeInitial, TypeStep, PTL DEF Spec

(***************************************************************************)
(* The two locks as long as the writers do not overlap.                    *)
(***************************************************************************)

(* Only the writer that began the latest message is sending.               *)
OneWriter == \A w \in Writer : Sending(w) => w = latest

(* Inside write(), between the data lock's lock and unlock.                *)
Inside == {"size", "copy1", "copy2", "unlock"}

(* Where the latest writer has no write access yet, or no more.            *)
NoAccess == at[latest] \in {"idle", "drain", "get"}

(* What the latest writer loaded is still there.                           *)
Loaded ==
    /\ phase[latest] = "take" => at[latest] = "get" /\ lockCnt["access"] = 0
    /\ phase[latest] = "store" =>
         /\ at[latest] \in DOMAIN Locks => reg[latest] = lockCnt[Locks[at[latest]]]
         /\ at[latest] \in DOMAIN Unlocks => reg[latest] = lockCnt[Unlocks[at[latest]]]

(* The boot task's count of the data lock is never used up.                *)
DataCount == lockCnt["data"] >= (IF at[latest] \in Inside THEN 2 ELSE 1)

(* The access mutex is free exactly when its count is 0, but for the       *)
(* moment between the take and the increment; a writer with access has its *)
(* own share of the count.                                                 *)
AccessCount ==
    /\ NoAccess /\ phase[latest] # "store" =>
         (holder["access"] = "none" <=> lockCnt["access"] = 0)
    /\ NoAccess /\ phase[latest] = "store" =>
         \/ lockCnt["access"] = 0 /\ holder["access"] = latest
         \/ lockCnt["access"] > 0 /\ holder["access"] # "none"
    /\ ~NoAccess =>
         /\ holder["access"] # "none"
         /\ lockCnt["access"] >= (IF holder["access"] = latest THEN 1 ELSE 2)

LockInv == ~overlap => ~halted /\ OneWriter /\ Loaded /\ DataCount /\ AccessCount

(***************************************************************************)
(* The handshake as long as, moreover, no wait timed out.                  *)
(***************************************************************************)
M == msg[latest]

Quiet == ~tx_request_sem /\ ~tx_done_sem

(* How much of the message is in the buffer.                               *)
Written ==
    /\ at[latest] \in {"again", "lock"} \cup Inside => M.kind # "refused"
    /\ at[latest] \in {"again", "lock", "size"} => size = NoMsg
    /\ at[latest] \in {"copy1", "copy2", "unlock"} =>
         size = IF M.kind = "empty" THEN NoMsg ELSE M
    /\ at[latest] \in {"copy2", "unlock"} /\ M.kind = "data" => buf[1] = M
    /\ at[latest] = "unlock" /\ M.kind = "data" => buf[2] = M
    /\ at[latest] \in {"request", "wait"} => Datagram = Intact(M)

(* Which of the two tokens exists, and what was sent.                      *)
Tokens ==
    /\ Sending(latest) => M \in Message
    /\ M = NoMsg => Quiet /\ sent = <<>>
    /\ Sending(latest) /\ at[latest] \notin {"wait", "release"} => Quiet /\ sent = <<>>
    /\ at[latest] = "wait" =>
         \/ tx_request_sem /\ ~tx_done_sem /\ sent = <<>>
         \/ ~tx_request_sem /\ tx_done_sem /\ sent = <<Intact(M)>>
    /\ M # NoMsg /\ at[latest] \in {"release", "idle", "drain"} =>
         Quiet /\ sent = <<Intact(M)>>

HandInv == ~overlap /\ ~late => Written /\ Tokens

(* The tables of lock operations, row by row.                              *)
LEMMA LockTable ==
    /\ Locks["get"] = "access" /\ Locks["again"] = "access" /\ Locks["lock"] = "data"
    /\ Unlocks["unlock"] = "data" /\ Unlocks["release"] = "access"
    /\ After["get"] = "clear" /\ After["again"] = "lock" /\ After["lock"] = "size"
    /\ After["unlock"] = "request" /\ After["release"] = "idle"
BY DEF Locks, Unlocks, After

(* The buffer's code moves one writer, and not one that is elsewhere.      *)
LEMMA MemStepMoves ==
    ASSUME TypeInv, NEW w \in Writer, MemStep(w)
    PROVE  /\ at[w] \in DOMAIN Locks \cup DOMAIN Unlocks
                          \cup {"clear", "size", "copy1", "copy2"}
           /\ \A v \in Writer : v # w => at'[v] = at[v]
<1> USE PointFacts DEF TypeInv, TypeOK, MemTypeOK, Goto
<1>1. CASE TestLock(w) \/ TakeMutex(w) \/ StoreLock(w) \/ LockTimeout(w)
  BY <1>1 DEF TestLock, TakeMutex, StoreLock, LockTimeout
<1>2. CASE TestUnlock(w)
  BY <1>2 DEF TestUnlock
<1>3. CASE StoreUnlock(w)
  BY <1>3 DEF StoreUnlock
<1>4. CASE Clear(w) \/ SetSize(w) \/ Copy(w)
  BY <1>4 DEF Clear, SetSize, Copy
<1> QED BY <1>1, <1>2, <1>3, <1>4 DEF MemStep

(* A step of the buffer's code by the only writer.                         *)
LEMMA LockMem ==
    ASSUME TypeInv, LockInv, ~overlap, latest' = latest, MemStep(latest)
    PROVE  ~halted' /\ OneWriter' /\ Loaded' /\ DataCount' /\ AccessCount'
<1> DEFINE w == latest
<1> USE PointFacts, LockTable
    DEF TypeInv, TypeOK, MemTypeOK, UnlockInv, PhaseInv, LockInv, Goto, Enter, LockId
<1>1. w \in Writer
  OBVIOUS
<1>2. /\ at[w] \in Point /\ phase[w] \in {"test", "take", "store"}
      /\ lockCnt["access"] \in Nat /\ lockCnt["data"] \in Nat /\ reg[w] \in Nat
  OBVIOUS
<1>3. ~halted /\ OneWriter /\ Loaded /\ DataCount /\ AccessCount
  OBVIOUS
<1>4. OneWriter'
  <2>1. \A v \in Writer : v # w => at'[v] = at[v]
    BY <1>1, MemStepMoves
  <2> QED BY <2>1, <1>3 DEF OneWriter, Sending
<1> USE DEF Loaded, DataCount, AccessCount, NoAccess, Inside
<1>5. CASE TestLock(w)
  <2>1. UNCHANGED <<at, lockCnt, holder, halted>>
    BY <1>5 DEF TestLock
  <2>2. /\ reg'[w] = lockCnt[Locks[at[w]]]
        /\ phase'[w] = IF lockCnt[Locks[at[w]]] > 0 THEN "store" ELSE "take"
    BY <1>1, <1>5 DEF TestLock, NextPhase
  <2>3. at[w] \in DOMAIN Locks /\ phase[w] = "test"
    BY <1>5 DEF TestLock
  <2>4. at[w] # "get" => lockCnt[Locks[at[w]]] > 0
    BY <1>2, <1>3, <2>3
  <2>5. Loaded' /\ DataCount'
    BY <1>2, <1>3, <2>1, <2>2, <2>3, <2>4
  <2>6. AccessCount'
    BY <1>2, <1>3, <2>1, <2>2, <2>3
  <2> QED BY <1>3, <1>4, <2>1, <2>5, <2>6
<1>6. CASE TakeMutex(w)
  BY <1>1, <1>2, <1>3, <1>4, <1>6 DEF TakeMutex
<1>7. CASE StoreLock(w)
  <2>1. /\ at[w] \in DOMAIN Locks /\ phase[w] = "store"
        /\ at'[w] = After[at[w]] /\ phase'[w] = "test"
        /\ UNCHANGED <<holder, halted>>
    BY <1>1, <1>7 DEF StoreLock
  <2>2. /\ lockCnt'[Locks[at[w]]] = lockCnt[Locks[at[w]]] + 1
        /\ \A l \in LockId : l # Locks[at[w]] => lockCnt'[l] = lockCnt[l]
    BY <1>1, <1>3, <1>7 DEF StoreLock
  <2>3. CASE at[w] = "get"
    <3>1. /\ at'[latest'] = "clear" /\ lockCnt'["data"] = lockCnt["data"]
          /\ lockCnt'["access"] = lockCnt["access"] + 1
      BY <2>1, <2>2, <2>3
    <3>2. \/ lockCnt["access"] = 0 /\ holder["access"] = latest
          \/ lockCnt["access"] > 0 /\ holder["access"] # "none"
      BY <1>3, <2>1, <2>3
    <3>3. latest # "none"
      BY DEF Writer
    <3>4. AccessCount'
      BY <1>2, <2>1, <3>1, <3>2, <3>3
    <3> QED BY <1>3, <1>4, <2>1, <3>1, <3>4
  <2>4. CASE at[w] = "again"
    BY <1>2, <1>3, <2>1, <2>2, <2>4, <1>4
  <2>5. CASE at[w] = "lock"
    BY <1>2, <1>3, <2>1, <2>2, <2>5, <1>4
  <2> QED BY <2>1, <2>3, <2>4, <2>5
<1>8. CASE LockTimeout(w)
  BY <1>1, <1>2, <1>3, <1>4, <1>8 DEF LockTimeout
<1>9. CASE TestUnlock(w)
  BY <1>1, <1>2, <1>3, <1>4, <1>9 DEF TestUnlock
<1>10. CASE StoreUnlock(w)
  BY <1>1, <1>2, <1>3, <1>4, <1>10 DEF StoreUnlock
<1>11. CASE Clear(w)
  <2>1. UNCHANGED lockVars /\ at[w] = "clear" /\ at'[w] \in {"request", "again"}
    BY <1>1, <1>11 DEF Clear
  <2> QED BY <1>1, <1>2, <1>3, <1>4, <2>1 DEF lockVars
<1>12. CASE SetSize(w)
  <2>1. UNCHANGED lockVars /\ at[w] = "size" /\ at'[w] \in {"copy1"}
    BY <1>1, <1>12 DEF SetSize
  <2> QED BY <1>1, <1>2, <1>3, <1>4, <2>1 DEF lockVars
<1>13. CASE Copy(w)
  <2>1. UNCHANGED lockVars /\ at[w] \in {"copy1", "copy2"} /\ at'[w] \in {"copy2", "unlock"}
    BY <1>1, <1>13 DEF Copy
  <2> QED BY <1>1, <1>2, <1>3, <1>4, <2>1 DEF lockVars
<1> QED
  BY <1>5, <1>6, <1>7, <1>8, <1>9, <1>10, <1>11, <1>12, <1>13 DEF MemStep

(* A step that moves a writer along without touching the locks keeps the   *)
(* lock invariant, if it stays on the same side of the locks' points.      *)
LEMMA LockMove ==
    ASSUME TypeInv, LockInv, ~overlap, latest' = latest, UNCHANGED lockVars,
           NEW w \in Writer, NEW p \in Point, Goto(w, p),
           \/ at[w] \in {"idle", "drain"} /\ p \in {"idle", "drain"}
           \/ at[w] \in {"request", "wait"} /\ p \in {"wait", "release"}
    PROVE  ~halted' /\ OneWriter' /\ Loaded' /\ DataCount' /\ AccessCount'
<1> USE PointFacts
    DEF TypeInv, TypeOK, MemTypeOK, PhaseInv, LockInv, Goto, lockVars
<1>1. OneWriter'
  BY DEF OneWriter, Sending
<1>2. w = latest \/ at'[latest] = at[latest]
  OBVIOUS
<1>3. phase[w] = "test"
  OBVIOUS
<1>4. at'[w] = p
  OBVIOUS
<1> QED
  BY <1>1, <1>2, <1>3, <1>4 DEF Loaded, DataCount, AccessCount, NoAccess, Inside

(* Beginning a message while the other writer is not sending.              *)
LEMMA LockBegin ==
    ASSUME TypeInv, LockInv, ~overlap', NEW w \in Writer, NEW kind \in Kind,
           at[w] \in {"idle", "drain"}, Begin(w, kind)
    PROVE  ~halted' /\ OneWriter' /\ Loaded' /\ DataCount' /\ AccessCount'
<1> USE PointFacts
    DEF TypeInv, TypeOK, MemTypeOK, PhaseInv, LockInv, Goto, lockVars, Begin
<1>1. ~overlap /\ \A v \in Writer \ {w} : ~Sending(v)
  OBVIOUS
<1>2. at[latest] \in {"idle", "drain"} /\ phase[latest] = "test" /\ phase[w] = "test"
  BY <1>1 DEF Sending
<1>3. at'[w] = "get" /\ latest' = w
  OBVIOUS
<1>4. OneWriter'
  BY <1>1, <1>3 DEF OneWriter, Sending
<1> QED
  BY <1>1, <1>2, <1>3, <1>4 DEF Loaded, DataCount, AccessCount, NoAccess, Inside

LEMMA LockStep == TypeInv /\ LockInv /\ [Next]_vars => LockInv'
<1> SUFFICES ASSUME TypeInv, LockInv, [Next]_vars, ~overlap'
             PROVE  ~halted' /\ OneWriter' /\ Loaded' /\ DataCount' /\ AccessCount'
  BY DEF LockInv
<1> USE PointFacts
<1>0. UNCHANGED <<memVars, latest, overlap>> =>
        ~halted' /\ OneWriter' /\ Loaded' /\ DataCount' /\ AccessCount'
  BY DEF LockInv, memVars, OneWriter, Sending, Loaded, DataCount, AccessCount, NoAccess
<1>1. CASE Receive \/ Enqueue \/ Drain
  BY <1>0, <1>1 DEF Receive, Enqueue, Drain, histVars
<1>2. CASE Send
  BY <1>0, <1>2 DEF Send
<1>3. CASE TakeRx
  BY <1>3, LockMove DEF TakeRx, histVars, Writer
<1>4. CASE Respond
  <2>1. PICK kind \in Kind : Begin("PCinterface", kind)
    BY <1>4 DEF Respond, Kind
  <2> QED BY <1>4, <2>1, LockBegin DEF Respond, Writer
<1>5. CASE Upload
  BY <1>5, LockBegin DEF Upload, Kind, Writer
<1>6. ASSUME NEW w \in Writer, Request(w) \/ Done(w) \/ DoneTimeout(w)
      PROVE  ~halted' /\ OneWriter' /\ Loaded' /\ DataCount' /\ AccessCount'
  <2>1. UNCHANGED <<latest, overlap>> /\ UNCHANGED lockVars
    BY <1>6 DEF Request, Done, DoneTimeout, histVars
  <2>2. at[w] \in {"request", "wait"} /\ (Goto(w, "wait") \/ Goto(w, "release"))
    BY <1>6 DEF Request, Done, DoneTimeout
  <2> QED BY <2>1, <2>2, LockMove
<1>7. ASSUME NEW w \in Writer, Write(w)
      PROVE  ~halted' /\ OneWriter' /\ Loaded' /\ DataCount' /\ AccessCount'
  <2>1. UNCHANGED <<latest, overlap>> /\ MemStep(w)
    BY <1>7 DEF Write, histVars
  <2>2. at[w] \in DOMAIN Locks \cup DOMAIN Unlocks
                    \cup {"clear", "size", "copy1", "copy2"}
    BY <2>1, MemStepMoves
  <2>3. w = latest
    BY <2>1, <2>2 DEF LockInv, OneWriter, Sending
  <2> QED BY <2>1, <2>3, LockMem
<1>8. CASE UNCHANGED vars
  BY <1>0, <1>8 DEF vars, histVars
<1> QED
  BY <1>1, <1>2, <1>3, <1>4, <1>5, <1>6, <1>7, <1>8 DEF Next, Transfer, Finish

LEMMA LockInitial == Init => LockInv
BY DEF Init, MemInit, LockInv, OneWriter, Sending, Loaded, DataCount, AccessCount,
       NoAccess, Inside, LockId, Writer

(* The kernel's assertion can only fail after both writers were sending at *)
(* once (property HaltsOnlyAfterOverlap): Lock counts that are not per     *)
(* task are harmless to tasks that take turns.                             *)
THEOREM NoHaltWithoutOverlap == Spec => []HaltsOnlyAfterOverlap
<1>1. LockInv => HaltsOnlyAfterOverlap
  BY DEF LockInv, HaltsOnlyAfterOverlap
<1> QED
  BY <1>1, TypeInitial, TypeStep, LockInitial, LockStep, PTL DEF Spec

(* A datagram that is queued while PCinterface is not draining has its     *)
(* token (property NoLostWakeup), for any capacity of the queue.           *)
THEOREM WakeupKept == Spec => []NoLostWakeup
<1>1. Init => NoLostWakeup
  BY DEF Init, NoLostWakeup
<1>2. TypeInv /\ NoLostWakeup /\ [Next]_vars => NoLostWakeup'
  <2> SUFFICES ASSUME TypeInv, NoLostWakeup, [Next]_vars PROVE NoLostWakeup'
    OBVIOUS
  <2> USE PointFacts DEF NoLostWakeup, TypeInv, TypeOK, MemTypeOK, Goto
  <2>1. CASE Receive \/ Enqueue \/ Send
    <3>1. CASE Receive
      <4>1. rx_done_sem => rx_done_sem'
        BY <3>1 DEF Receive
      <4> QED BY <3>1, <4>1 DEF Receive, memVars
    <3>2. CASE Enqueue
      BY <3>2 DEF Enqueue, GivenAt
    <3>3. CASE Send
      BY <3>3 DEF Send, memVars, rxVars
    <3> QED BY <2>1, <3>1, <3>2, <3>3
  <2>2. CASE TakeRx
    BY <2>2 DEF TakeRx, Writer
  <2>3. CASE Drain
    BY <2>3 DEF Drain, memVars
  <2>4. CASE Respond
    BY <2>4 DEF Respond
  <2>5. CASE Upload
    BY <2>5 DEF Upload, Begin, rxVars, Writer
  <2>6. ASSUME NEW w \in Writer, Finish(w) PROVE NoLostWakeup'
    <3>1. UNCHANGED <<rx_data_queue, rx_done_sem>>
      BY <2>6 DEF Finish, Write, Request, Done, DoneTimeout, rxVars
    <3>2. CASE Request(w) \/ Done(w) \/ DoneTimeout(w)
      BY <3>1, <3>2 DEF Request, Done, DoneTimeout, Writer
    <3>3. CASE MemStep(w)
      <4>1. at[w] # "drain" /\ (w # "PCinterface" => at'["PCinterface"] = at["PCinterface"])
        BY <3>3, MemStepMoves DEF Writer
      <4>2. at["PCinterface"] = "drain" => at'["PCinterface"] = "drain"
        BY <4>1
      <4> QED BY <3>1, <4>2
    <3> QED BY <2>6, <3>2, <3>3 DEF Finish, Write
  <2>7. CASE UNCHANGED vars
    BY <2>7 DEF vars, memVars, rxVars
  <2> QED BY <2>1, <2>2, <2>3, <2>4, <2>5, <2>6, <2>7 DEF Next, Transfer
<1> QED BY <1>1, <1>2, TypeInitial, TypeStep, PTL DEF Spec

LEMMA HandInitial == Init => HandInv
BY DEF Init, MemInit, HandInv, Written, Tokens, M, Quiet, Sending, Inside, Writer

(* The buffer's code, step by step, by the only writer.                    *)
LEMMA HandMem ==
    ASSUME TypeInv, LockInv, HandInv, ~overlap, ~late, MemStep(latest),
           UNCHANGED <<tx_request_sem, tx_done_sem, histVars>>
    PROVE  Written' /\ Tokens'
<1> DEFINE w == latest
<1> USE PointFacts, LockTable, NoMsgNotMessage
    DEF TypeInv, TypeOK, MemTypeOK, HandInv, Goto, Enter, histVars, Inside, M
<1>1. w \in Writer /\ at[w] \in Point /\ latest' = latest
  OBVIOUS
<1>2. Written /\ Tokens
  OBVIOUS
<1>3. ~LockTimeout(w) \/ at[w] = "lock"
  BY DEF LockTimeout, LockInv, Loaded, AccessCount, NoAccess
<1> USE DEF Written, Tokens, Quiet, Sending, Datagram, Intact
<1>4. CASE TestLock(w) \/ TakeMutex(w)
  BY <1>1, <1>2, <1>4 DEF TestLock, TakeMutex
<1>5. CASE StoreLock(w)
  BY <1>1, <1>2, <1>5 DEF StoreLock
<1>6. CASE LockTimeout(w)
  BY <1>1, <1>2, <1>3, <1>6 DEF LockTimeout
<1>7. ASSUME at[w] \in DOMAIN Unlocks, UNCHANGED <<size, buf, msg>>,
              at'[w] \in {at[w], After[at[w]]}
       PROVE  Written' /\ Tokens'
  <2>1. CASE at[w] = "unlock" /\ at'[w] = "request"
    <3>1. Datagram = Intact(M)
      <4>1. M \in Message /\ M # NoMsg /\ M.kind \in {"data", "empty"}
        BY <1>1, <1>2, <2>1 DEF Message, Kind
      <4>2. CASE M.kind = "data"
        BY <1>1, <1>2, <2>1, <4>1, <4>2
      <4>3. CASE M.kind = "empty"
        BY <1>1, <1>2, <2>1, <4>1, <4>3
      <4> QED BY <4>1, <4>2, <4>3
    <3> QED BY <1>1, <1>2, <1>7, <2>1, <3>1
  <2>2. CASE at[w] = "release" /\ at'[w] = "idle"
    BY <1>1, <1>2, <1>7, <2>2
  <2>3. CASE at'[w] = at[w]
    BY <1>1, <1>2, <1>7, <2>3
  <2> QED BY <1>7, <2>1, <2>2, <2>3
<1>12. CASE TestUnlock(w)
  <2>1. at[w] \in DOMAIN Unlocks /\ UNCHANGED <<size, buf, msg>>
        /\ at'[w] \in {at[w], After[at[w]]}
    BY <1>1, <1>12 DEF TestUnlock
  <2> QED BY <1>7, <2>1
<1>8. CASE StoreUnlock(w)
  <2>1. at[w] \in DOMAIN Unlocks /\ UNCHANGED <<size, buf, msg>>
        /\ at'[w] \in {at[w], After[at[w]]}
    BY <1>1, <1>8 DEF StoreUnlock
  <2> QED BY <1>7, <2>1
<1>9. CASE Clear(w)
  BY <1>1, <1>2, <1>9 DEF Clear
<1>10. CASE SetSize(w)
  BY <1>1, <1>2, <1>10 DEF SetSize
<1>11. CASE Copy(w)
  BY <1>1, <1>2, <1>11 DEF Copy
<1> QED
  BY <1>4, <1>5, <1>6, <1>12, <1>8, <1>9, <1>10, <1>11 DEF MemStep

LEMMA HandStep == TypeInv /\ LockInv /\ HandInv /\ [Next]_vars => HandInv'
<1> SUFFICES ASSUME TypeInv, LockInv, HandInv, [Next]_vars, ~overlap', ~late'
             PROVE  Written' /\ Tokens'
  BY DEF HandInv
<1> USE PointFacts, NoMsgNotMessage
    DEF TypeInv, TypeOK, MemTypeOK, HandInv, Written, Tokens, Quiet, Sending, M, Inside,
        Goto
<1>0. UNCHANGED <<at, size, buf, msg, tx_request_sem, tx_done_sem, sent, latest,
                  overlap, late>> => Written' /\ Tokens'
  BY DEF Datagram
<1>1. CASE Receive \/ Enqueue \/ Drain
  BY <1>0, <1>1 DEF Receive, Enqueue, Drain, memVars, histVars
<1>2. CASE Send
  <2>1. /\ ~overlap /\ ~late /\ tx_request_sem
        /\ UNCHANGED <<at, size, buf, msg, latest>>
        /\ ~tx_request_sem' /\ tx_done_sem' /\ sent' = Append(sent, Datagram)
    BY <1>2 DEF Send, memVars
  <2>2. Sending(latest) /\ at[latest] = "wait" /\ sent = <<>> /\ Datagram = Intact(M)
    BY <2>1
  <2>3. sent' = <<Intact(M)>>
    BY <2>1, <2>2
  <2> QED BY <2>1, <2>2, <2>3 DEF Datagram
<1>3. CASE TakeRx
  <2>1. /\ UNCHANGED <<size, buf, msg, tx_request_sem, tx_done_sem>>
        /\ UNCHANGED <<sent, latest, overlap, late>>
        /\ at["PCinterface"] = "idle" /\ at' = [at EXCEPT !["PCinterface"] = "drain"]
    BY <1>3 DEF TakeRx, histVars
  <2>2. /\ at'["PCinterface"] = "drain"
        /\ latest # "PCinterface" => at'[latest] = at[latest]
    BY <2>1 DEF Writer
  <2>3. Datagram' = Datagram
    BY <2>1 DEF Datagram
  <2>4. CASE latest = "PCinterface"
    BY <2>1, <2>2, <2>4
  <2>5. CASE latest # "PCinterface"
    BY <2>1, <2>2, <2>3, <2>5
  <2> QED BY <2>4, <2>5
<1>4. ASSUME NEW w \in Writer, NEW kind \in Kind, at[w] \in {"idle", "drain"},
             Begin(w, kind)
      PROVE  Written' /\ Tokens'
  <2>1. ~overlap /\ ~late /\ \A v \in Writer \ {w} : ~Sending(v)
    BY <1>4 DEF Begin
  <2>2. Quiet
    <3>1. at[latest] \in {"idle", "drain"}
      BY <1>4, <2>1
    <3> QED BY <2>1, <3>1
  <2>3. /\ at'[w] = "get" /\ latest' = w /\ sent' = <<>>
        /\ UNCHANGED <<tx_request_sem, tx_done_sem>>
    BY <1>4 DEF Begin
  <2>4. msg'[w] \in Message
    <3>1. msg[w].k + 1 \in Nat
      BY MessageNumber
    <3> QED BY <1>4, <3>1 DEF Begin, Message
  <2> QED BY <2>2, <2>3, <2>4
<1>5. CASE Respond
  <2>1. PICK kind \in Kind : Begin("PCinterface", kind)
    BY <1>5 DEF Respond, Kind
  <2> QED BY <1>4, <1>5, <2>1 DEF Respond, Writer
<1>6. CASE Upload
  BY <1>4, <1>6 DEF Upload, Kind, Writer
<1>7. ASSUME NEW w \in Writer, Finish(w)
      PROVE  Written' /\ Tokens'
  <2>1. ~overlap /\ ~late /\ latest' = latest
    BY <1>7 DEF Finish, Write, Request, Done, DoneTimeout, histVars
  <2>2. Sending(w)
    BY <1>7, MemStepMoves DEF Finish, Write, Request, Done, DoneTimeout
  <2>3. w = latest
    BY <2>1, <2>2 DEF LockInv, OneWriter
  <2>4. CASE Request(w)
    BY <2>1, <2>3, <2>4 DEF Request, Datagram
  <2>5. CASE Done(w)
    BY <2>1, <2>3, <2>5 DEF Done, histVars
  <2>6. CASE DoneTimeout(w)
    BY <2>6 DEF DoneTimeout
  <2>7. CASE Write(w)
    BY <2>1, <2>3, <2>7, HandMem DEF Write
  <2> QED BY <1>7, <2>4, <2>5, <2>6, <2>7 DEF Finish
<1>8. CASE UNCHANGED vars
  BY <1>0, <1>8 DEF vars, memVars, histVars
<1> QED BY <1>1, <1>2, <1>3, <1>5, <1>6, <1>7, <1>8 DEF Next, Transfer

(* As long as the two writers never send at the same time and no wait      *)
(* timed out, a message leads to exactly one datagram, which is the        *)
(* message, before its writer goes on: no token and no length is left over *)
(* from an earlier message.                                                *)
CleanDelivery ==
    ~overlap /\ ~late /\ msg[latest] # NoMsg =>
        /\ sent \in {<<>>, <<Intact(msg[latest])>>}
        /\ at[latest] \in {"release", "idle", "drain"} => sent # <<>>

(* While the writers take turns and no wait times out, every message       *)
(* becomes one datagram, unchanged, before its writer goes on (property    *)
(* CleanDelivery), for any number of messages.                             *)
THEOREM TurnsAreClean == Spec => []CleanDelivery
<1>1. TypeInv /\ LockInv /\ HandInv => CleanDelivery
  <2> SUFFICES ASSUME TypeInv, LockInv, HandInv, ~overlap, ~late, M # NoMsg
               PROVE  /\ sent \in {<<>>, <<Intact(M)>>}
                      /\ at[latest] \in {"release", "idle", "drain"} => sent # <<>>
    BY DEF CleanDelivery, M
  <2> QED BY DEF HandInv, Tokens, Sending, M
<1> QED
  BY <1>1, TypeInitial, TypeStep, LockInitial, LockStep, HandInitial, HandStep, PTL
  DEF Spec

(* A writer on its way through write(), its request and its wait.          *)
LEMMA FinishMoves ==
    ASSUME TypeInv, NEW w \in Writer, Finish(w)
    PROVE  /\ msg' = msg /\ at'[w] # "drain"
           /\ \A v \in Writer : v # w => at'[v] = at[v]
<1>0. at \in [Writer -> Point]
  BY DEF TypeInv, TypeOK, MemTypeOK
<1>1. CASE Request(w) \/ Done(w) \/ DoneTimeout(w)
  BY <1>0, <1>1 DEF Request, Done, DoneTimeout, Goto
<1>2. CASE MemStep(w)
  <2> USE <1>0, PointFacts, LockTable DEF Goto
  <2>1. CASE TestLock(w) \/ TakeMutex(w) \/ LockTimeout(w)
    BY <2>1 DEF TestLock, TakeMutex, LockTimeout
  <2>2. CASE StoreLock(w)
    BY <2>2 DEF StoreLock
  <2>3. CASE TestUnlock(w) \/ StoreUnlock(w)
    BY <2>3 DEF TestUnlock, StoreUnlock
  <2>4. CASE Clear(w) \/ SetSize(w) \/ Copy(w)
    BY <2>4 DEF Clear, SetSize, Copy
  <2> QED BY <1>2, <2>1, <2>2, <2>3, <2>4 DEF MemStep
<1> QED BY <1>1, <1>2 DEF Finish, Write

(* Undisturbed, the writer is done only after its release.                 *)
LEMMA ComesBack ==
    ASSUME TypeInv, LockInv, ~overlap, Finish(latest), at'[latest] \in {"idle", "drain"}
    PROVE  at[latest] = "release"
<1> DEFINE w == latest
<1>0. at \in [Writer -> Point] /\ w \in Writer
  BY DEF TypeInv, TypeOK, MemTypeOK
<1>1. CASE Request(w) \/ Done(w) \/ DoneTimeout(w)
  BY <1>0, <1>1 DEF Request, Done, DoneTimeout, Goto
<1>2. CASE MemStep(w)
  <2> USE <1>0, PointFacts, LockTable DEF Goto
  <2>1. CASE TestLock(w) \/ TakeMutex(w)
    BY <2>1 DEF TestLock, TakeMutex
  <2>2. CASE LockTimeout(w)
    BY <2>2 DEF LockTimeout, LockInv, Loaded, AccessCount, NoAccess
  <2>3. CASE StoreLock(w)
    BY <2>3 DEF StoreLock
  <2>4. CASE TestUnlock(w) \/ StoreUnlock(w)
    BY <2>4 DEF TestUnlock, StoreUnlock
  <2>5. CASE Clear(w) \/ SetSize(w) \/ Copy(w)
    BY <2>5 DEF Clear, SetSize, Copy
  <2> QED BY <1>2, <2>1, <2>2, <2>3, <2>4, <2>5 DEF MemStep
<1> QED BY <1>1, <1>2 DEF Finish, Write

LEMMA MessageUnderWay ==
    ASSUME HandInv, UnderWay
    PROVE  msg[latest] # Backend!Nothing
<1>1. M \in Message
  BY DEF HandInv, Tokens, Sending, UnderWay, Disturbed
<1>2. NoMsg = Backend!Nothing
  BY DEF NoMsg, Backend!Nothing
<1> QED BY <1>1, <1>2, NoMsgNotMessage DEF M

(***************************************************************************)
(* The uplink implements Conversation.                                     *)
(***************************************************************************)
One(b) == IF b THEN 1 ELSE 0

(* Each datagram leads to one token at most and each token to one response *)
(* at most: the responses begun and those that may still come are no more  *)
(* than the datagrams received.                                            *)
AnswerInv ==
    msg["PCinterface"].k + One(at["PCinterface"] = "drain") + One(rx_done_sem) + One(tpc = "add")
        <= received

LEMMA AnswerInitial == Init => AnswerInv
BY DEF Init, MemInit, AnswerInv, One, NoMsg, Writer

LEMMA AnswerStep ==
    ASSUME TypeInv, AnswerInv, [Next]_vars
    PROVE  AnswerInv'
<1> DEFINE pc == "PCinterface"
<1>1. /\ pc \in Writer /\ msg[pc].k \in Nat /\ received \in Nat
      /\ at \in [Writer -> Point] /\ msg \in [Writer -> Message \cup {NoMsg}]
      /\ tpc \in {"loop", "add"} /\ rx_done_sem \in BOOLEAN
  BY MessageNumber, UplinkAssumption DEF Writer, TypeInv, TypeOK, MemTypeOK
<1> USE <1>1 DEF AnswerInv, One
<1>0. ASSUME msg'[pc] = msg[pc], (at'[pc] = "drain") <=> (at[pc] = "drain"),
             UNCHANGED <<rx_done_sem, tpc, received>>
      PROVE  AnswerInv'
  BY <1>0
<1>2. CASE Receive
  BY <1>2 DEF Receive, GivenAt, memVars
<1>3. CASE Enqueue
  BY <1>3 DEF Enqueue, GivenAt, memVars
<1>4. CASE Send
  BY <1>0, <1>4 DEF Send, memVars, rxVars
<1>5. CASE TakeRx
  BY <1>5 DEF TakeRx, Goto
<1>6. CASE Drain
  BY <1>0, <1>6 DEF Drain, memVars
<1>7. CASE Respond
  <2>1. /\ at[pc] = "drain" /\ at'[pc] = "get" /\ msg'[pc].k = msg[pc].k + 1
        /\ UNCHANGED <<rx_done_sem, tpc, received>>
    BY <1>7 DEF Respond, Begin, Goto
  <2> QED BY <2>1
<1>8. CASE Upload
  BY <1>0, <1>8 DEF Upload, Begin, Goto, rxVars, Writer
<1>9. ASSUME NEW w \in Writer, Finish(w) PROVE AnswerInv'
  <2>1. UNCHANGED <<rx_done_sem, tpc, received>> /\ at[w] # "drain"
    <3>1. CASE Write(w)
      BY <3>1, MemStepMoves, PointFacts DEF Write, rxVars
    <3>2. CASE Request(w) \/ Done(w) \/ DoneTimeout(w)
      BY <3>2 DEF Request, Done, DoneTimeout, rxVars
    <3> QED BY <1>9, <3>1, <3>2 DEF Finish
  <2>2. msg' = msg /\ (at'[w] # "drain") /\ \A v \in Writer : v # w => at'[v] = at[v]
    BY <1>9, FinishMoves
  <2> QED BY <1>0, <2>1, <2>2
<1>10. CASE UNCHANGED vars
  BY <1>0, <1>10 DEF vars, memVars, rxVars
<1> QED
  BY <1>2, <1>3, <1>4, <1>5, <1>6, <1>7, <1>8, <1>9, <1>10 DEF Next, Transfer

LEMMA BackendInitial == Init => Backend!Init
<1> SUFFICES ASSUME Init PROVE Backend!Init
  OBVIOUS
<1>1. ~Disturbed /\ ~UnderWay
  BY DEF Init, MemInit, Disturbed, UnderWay, Writer
<1>2. Begun = [w \in Writer |-> 0]
  BY DEF Init, MemInit, Begun, NoMsg
<1>3. Place = Backend!Nothing /\ Handed = <<>> /\ received = 0
  BY <1>1 DEF Init, Place, Handed, NoMsg, Backend!Nothing
<1> QED BY <1>1, <1>2, <1>3 DEF Backend!Init

(* A step that leaves its variables alone is a stutter.                    *)
LEMMA BackendSame ==
    ASSUME UNCHANGED <<received, msg, sent, latest, overlap, late>>,
           (at[latest] \in {"idle", "drain"}) <=> (at'[latest] \in {"idle", "drain"})
    PROVE  UNCHANGED Backend!absVars
BY DEF Backend!absVars, Begun, Place, Handed, Disturbed, UnderWay

(* A writer begins a message.                                              *)
LEMMA BackendBegin ==
    ASSUME TypeInv, LockInv, HandInv, NEW w \in Writer, NEW kind \in Kind,
           Begin(w, kind), at[w] \in {"idle", "drain"}, UNCHANGED received,
           w = "PCinterface" => msg[w].k < received
    PROVE  Backend!Begin(w)
<1>1. /\ at \in [Writer -> Point] /\ msg \in [Writer -> Message \cup {NoMsg}]
      /\ latest \in Writer
  BY DEF TypeInv, TypeOK, MemTypeOK
<1>2. /\ msg' = [msg EXCEPT ![w] = [by |-> w, k |-> msg[w].k + 1, kind |-> kind]]
      /\ at' = [at EXCEPT ![w] = "get"] /\ sent' = <<>> /\ latest' = w /\ late' = late
      /\ overlap' = (overlap \/ \E v \in Writer \ {w} : Sending(v))
  BY <1>1 DEF Begin, Goto
<1>3. Begun' = [Begun EXCEPT ![w] = @ + 1] /\ Begun[w] = msg[w].k
  BY <1>1, <1>2 DEF Begun
<1>4. CASE Disturbed
  <2>1. Disturbed' /\ UNCHANGED <<Place, Handed>>
    BY <1>2, <1>4 DEF Disturbed, Place, Handed, UnderWay
  <2>2. UNCHANGED Disturbed
    BY <1>4, <2>1 DEF Disturbed
  <2> QED BY <1>3, <1>4, <2>1, <2>2 DEF Backend!Begin
<1>5. CASE ~Disturbed /\ UnderWay
  <2>1. Sending(latest) /\ latest # w
    BY <1>5 DEF UnderWay, Sending
  <2>2. Disturbed'
    BY <1>1, <1>2, <2>1 DEF Disturbed
  <2>3. Place' = Backend!Nothing /\ Handed' = <<>>
    BY <2>2 DEF Place, Handed, UnderWay, NoMsg, Backend!Nothing
  <2>4. Place # Backend!Nothing
    BY <1>5, MessageUnderWay DEF Place
  <2> QED BY <1>3, <2>2, <2>3, <2>4 DEF Backend!Begin, Backend!Disturb
<1>6. CASE ~Disturbed /\ ~UnderWay
  <2>1. \A v \in Writer : ~Sending(v)
    BY <1>6 DEF UnderWay, Sending, LockInv, OneWriter, Disturbed
  <2>2. ~Disturbed' /\ UNCHANGED Disturbed
    BY <1>2, <1>6, <2>1 DEF Disturbed
  <2>3. UnderWay'
    BY <1>1, <1>2, <2>2 DEF UnderWay
  <2>4. /\ Place = Backend!Nothing /\ Handed' = <<>>
        /\ Place' = [by |-> w, k |-> Begun[w] + 1, kind |-> kind]
    BY <1>1, <1>2, <1>3, <1>6, <2>2, <2>3 DEF Place, Handed, NoMsg, Backend!Nothing
  <2>5. Backend!Put(w, Begun[w] + 1)
    BY <1>6, <2>2, <2>4 DEF Backend!Put
  <2> QED BY <1>3, <2>5 DEF Backend!Begin
<1> QED BY <1>4, <1>5, <1>6

(* The request, the wait and the buffer's code of the only writer.         *)
LEMMA BackendFinish ==
    ASSUME TypeInv, LockInv, HandInv, NEW w \in Writer, Finish(w)
    PROVE  Backend!Next \/ UNCHANGED Backend!absVars
<1>1. /\ UNCHANGED <<received, msg, sent, latest, overlap>> /\ late' \in {late, TRUE}
      /\ Sending(w)
  <2>1. CASE Write(w)
    BY <2>1, FinishMoves, MemStepMoves, PointFacts DEF Write, rxVars, histVars, Sending
  <2>2. CASE Request(w) \/ Done(w) \/ DoneTimeout(w)
    BY <2>2 DEF Request, Done, DoneTimeout, rxVars, histVars, Sending
  <2> QED BY <2>1, <2>2 DEF Finish
<1>2. Begun' = Begun
  BY <1>1 DEF Begun
<1>3. CASE Disturbed
  <2>1. Disturbed'
    <3>1. CASE late' = late
      BY <1>1, <1>3, <3>1 DEF Disturbed
    <3>2. CASE late' = TRUE
      BY <3>2 DEF Disturbed
    <3> QED BY <1>1, <3>1, <3>2
  <2>2. UNCHANGED <<Place, Handed>>
    BY <1>3, <2>1 DEF Place, Handed, UnderWay
  <2>3. UNCHANGED Disturbed
    BY <1>3, <2>1 DEF Disturbed
  <2> QED BY <1>1, <1>2, <2>2, <2>3 DEF Backend!absVars
<1>4. CASE ~Disturbed
  <2>1. w = latest /\ UnderWay
    BY <1>1, <1>4 DEF LockInv, OneWriter, Disturbed, UnderWay, Sending
  <2>2. Place # Backend!Nothing
    BY <2>1, MessageUnderWay DEF Place
  <2>3. CASE late'
    <3>1. Disturbed' /\ Place' = Backend!Nothing /\ Handed' = <<>>
      BY <2>3 DEF Disturbed, Place, Handed, UnderWay, NoMsg, Backend!Nothing
    <3> QED BY <1>1, <1>2, <2>2, <3>1 DEF Backend!Next, Backend!GiveUp, Backend!Disturb
  <2>4. CASE ~late' /\ at'[w] \notin {"idle", "drain"}
    <3>1. late' = late
      BY <1>1, <2>4
    <3> QED BY <1>1, <2>1, <2>4, <3>1, BackendSame DEF UnderWay
  <2>5. CASE ~late' /\ at'[w] \in {"idle", "drain"}
    <3>1. at[w] = "release"
      BY <1>4, <2>1, <2>5, ComesBack DEF Disturbed
    <3>2. sent # <<>>
      BY <1>4, <2>1, <3>1, NoMsgNotMessage DEF HandInv, Tokens, Sending, M, Disturbed
    <3>3. ~Disturbed' /\ ~UnderWay' /\ Place' = Backend!Nothing
      BY <1>1, <1>4, <2>1, <2>5 DEF Disturbed, UnderWay, Place, NoMsg, Backend!Nothing
    <3>4. Handed = sent /\ Handed' = sent
      BY <1>1, <1>4, <3>3 DEF Handed
    <3>5. UNCHANGED Disturbed
      BY <1>4, <3>3 DEF Disturbed
    <3> QED BY <1>1, <1>2, <2>2, <3>2, <3>3, <3>4, <3>5 DEF Backend!Next, Backend!Return
  <2> QED BY <2>3, <2>4, <2>5
<1> QED BY <1>3, <1>4

LEMMA BackendStep ==
    ASSUME TypeInv, LockInv, HandInv, AnswerInv, [Next]_vars
    PROVE  [Backend!Next]_(Backend!absVars)
<1>0. /\ at \in [Writer -> Point] /\ latest \in Writer /\ received \in Nat
      /\ "PCinterface" \in Writer /\ msg["PCinterface"].k \in Nat
  BY MessageNumber, UplinkAssumption DEF TypeInv, TypeOK, MemTypeOK, Writer
<1>1. CASE Receive
  <2>1. /\ received' = received + 1
        /\ UNCHANGED <<at, msg, sent, latest, overlap, late>>
    BY <1>1 DEF Receive, memVars, histVars
  <2>2. UNCHANGED <<Begun, Place, Handed, Disturbed>>
    BY <2>1 DEF Begun, Place, Handed, Disturbed, UnderWay
  <2> QED BY <2>1, <2>2 DEF Backend!Next, Backend!Ask
<1>2. CASE Enqueue \/ Drain
  BY <1>2, BackendSame DEF Enqueue, Drain, memVars, histVars
<1>3. CASE TakeRx
  <2>1. /\ UNCHANGED <<received, msg, sent, latest, overlap, late>>
        /\ at["PCinterface"] = "idle" /\ at' = [at EXCEPT !["PCinterface"] = "drain"]
    BY <1>3 DEF TakeRx, Goto, histVars
  <2>2. (at[latest] \in {"idle", "drain"}) <=> (at'[latest] \in {"idle", "drain"})
    <3>1. CASE latest = "PCinterface"
      BY <1>0, <2>1, <3>1
    <3>2. CASE latest # "PCinterface"
      BY <1>0, <2>1, <3>2
    <3> QED BY <3>1, <3>2
  <2> QED BY <2>1, <2>2, BackendSame
<1>4. CASE Send
  <2>1. UNCHANGED <<at, received, msg, latest, overlap, late>>
    BY <1>4 DEF Send, memVars, rxVars
  <2>2. UNCHANGED <<Begun, Place, Disturbed>>
    BY <2>1 DEF Begun, Place, Disturbed, UnderWay
  <2>3. CASE Disturbed
    BY <2>1, <2>2, <2>3 DEF Handed, Backend!absVars
  <2>4. CASE ~Disturbed
    <3>1. /\ tx_request_sem /\ sent' = Append(sent, Datagram)
      BY <1>4, <2>4 DEF Send, Disturbed
    <3>2. at[latest] = "wait" /\ sent = <<>> /\ Datagram = Intact(M)
      BY <2>4, <3>1 DEF HandInv, Tokens, Written, Quiet, Sending, Disturbed
    <3>3. UnderWay /\ Place = M
      BY <2>4, <3>2 DEF UnderWay, Place, M
    <3>4. sent' = <<Intact(M)>> /\ Intact(M) = Backend!DatagramOf(M)
      BY <3>1, <3>2 DEF Intact, Backend!DatagramOf
    <3>5. Place # Backend!Nothing
      BY <3>3, MessageUnderWay DEF M
    <3>6. Handed = <<>> /\ Handed' = <<Backend!DatagramOf(Place)>>
      BY <2>2, <2>4, <3>2, <3>3, <3>4 DEF Handed
    <3> QED BY <2>1, <2>2, <3>5, <3>6 DEF Backend!Next, Backend!Deliver
  <2> QED BY <2>3, <2>4
<1>5. CASE Respond
  <2>1. PICK kind \in Kind : Begin("PCinterface", kind)
    BY <1>5 DEF Respond, Kind
  <2>2. at["PCinterface"] = "drain" /\ UNCHANGED received
    BY <1>5 DEF Respond
  <2>3. msg["PCinterface"].k < received
    BY <1>0, <2>2 DEF AnswerInv, One
  <2>4. Backend!Begin("PCinterface")
    BY <1>0, <2>1, <2>2, <2>3, BackendBegin
  <2> QED BY <1>0, <2>4 DEF Backend!Next
<1>6. CASE Upload
  <2>1. PICK kind \in Kind : Begin("SlaveManager", kind)
    BY <1>6 DEF Upload, Kind
  <2>2. at["SlaveManager"] = "idle" /\ UNCHANGED received /\ "SlaveManager" \in Writer
    BY <1>6 DEF Upload, rxVars, Writer
  <2>3. Backend!Begin("SlaveManager")
    BY <2>1, <2>2, BackendBegin
  <2> QED BY <2>2, <2>3 DEF Backend!Next
<1>7. ASSUME NEW w \in Writer, Finish(w)
      PROVE  Backend!Next \/ UNCHANGED Backend!absVars
  BY <1>7, BackendFinish
<1>8. CASE UNCHANGED vars
  BY <1>8, BackendSame DEF vars, memVars, rxVars, histVars
<1> QED
  BY <1>1, <1>2, <1>3, <1>4, <1>5, <1>6, <1>7, <1>8 DEF Next, Transfer

(* The uplink implements Conversation (property KeepsConversation), for    *)
(* any number of datagrams and uploads: messages become datagrams one by   *)
(* one and in order while the writers take turns and no wait times out,    *)
(* and never are there more responses than datagrams received.             *)
THEOREM UplinkKeepsConversation == Spec => KeepsConversation
<1>1. TypeInv /\ LockInv /\ HandInv /\ AnswerInv /\ [Next]_vars
          => [Backend!Next]_(Backend!absVars)
  BY BackendStep
<1>2. TypeInv /\ AnswerInv /\ [Next]_vars => AnswerInv'
  BY AnswerStep
<1> QED
  BY <1>1, <1>2, BackendInitial, AnswerInitial, TypeInitial, TypeStep, LockInitial, LockStep,
     HandInitial, HandStep, PTL
  DEF Spec, KeepsConversation, Backend!Spec
=============================================================================
