------------------------------ MODULE ShareMem ------------------------------
(***************************************************************************)
(* The send buffer of the master (class ShareMem) and the point each of    *)
(* its two writers has reached in get_write_access, write and              *)
(* release_write_access.                                                   *)
(*                                                                         *)
(* Both of its locks are FreeRTOScpp Lock objects over a mutex.  A Lock    *)
(* counts per OBJECT, not per task: lock() succeeds at once when the count *)
(* is positive, and otherwise takes the mutex.  The count is a plain int:  *)
(* a locking step is a load (phase "test") and a store (phase "store"),    *)
(* and the other writer can run between them.                              *)
(***************************************************************************)
EXTENDS Naturals, Sequences

VARIABLES at,          \* where each writer is
          phase,       \* how far it is in the lock operation it is at
          reg,         \* the count it loaded
          lockCnt,     \* count of __write_access ("access") and of __lock ("data")
          holder,      \* the task that holds the mutex of each
          size,        \* __size: NoMsg is 0, a message stands for its length
          buf,         \* __shared_mem, in two halves
          msg,         \* the message each writer sends, or sent last
          halted       \* a kernel assertion failed

lockVars == <<phase, reg, lockCnt, holder, halted>>
memVars  == <<at, phase, reg, lockCnt, holder, size, buf, msg, halted>>

-----------------------------------------------------------------------------

Writer == {"PCinterface", "SlaveManager"}
LockId == {"access", "data"}

(* write() returns early on a "refused" message: its data pointer is null  *)
(* or it is larger than the buffer.                                        *)
Kind    == {"data", "empty", "refused"}
Message == [by : Writer, k : Nat, kind : Kind]
NoMsg   == [by |-> "none", k |-> 0, kind |-> "empty"]

(* Where a writer locks or unlocks, and which Lock.                        *)
Locks   == [get |-> "access", again |-> "access", lock |-> "data"]
Unlocks == [unlock |-> "data", release |-> "access"]
After   == [get |-> "clear", again |-> "lock", lock |-> "size",
            unlock |-> "request", release |-> "idle"]

Point == DOMAIN After \cup {"idle", "drain", "clear", "size", "copy1", "copy2",
                            "request", "wait"}

MemTypeOK ==
    /\ at \in [Writer -> Point]
    /\ phase \in [Writer -> {"test", "take", "store"}]
    /\ reg \in [Writer -> Nat]
    /\ lockCnt \in [LockId -> Nat]
    /\ holder \in [LockId -> Writer \cup {"none", "boot"}]
    /\ size \in Message \cup {NoMsg}
    /\ buf \in [{1, 2} -> Message \cup {NoMsg}]
    /\ msg \in [Writer -> Message \cup {NoMsg}]
    /\ halted \in BOOLEAN

(* The constructor leaves __lock locked, by the task that boots the        *)
(* system, and unlocks __write_access.                                     *)
MemInit ==
    /\ at = [w \in Writer |-> "idle"]
    /\ phase = [w \in Writer |-> "test"]
    /\ reg = [w \in Writer |-> 0]
    /\ lockCnt = [l \in LockId |-> IF l = "data" THEN 1 ELSE 0]
    /\ holder = [l \in LockId |-> IF l = "data" THEN "boot" ELSE "none"]
    /\ size = NoMsg
    /\ buf = [h \in {1, 2} |-> NoMsg]
    /\ msg = [w \in Writer |-> NoMsg]
    /\ halted = FALSE

Goto(w, p)  == at' = [at EXCEPT ![w] = p]
Enter(w, p) == phase' = [phase EXCEPT ![w] = p]

Packet == {<<>>} \cup (Message \cup {NoMsg}) \X (Message \cup {NoMsg})
                                           \X (Message \cup {NoMsg})

(* What is sent when the buffer is sent now, and what should be sent for m.*)
Datagram    == IF size = NoMsg THEN <<>> ELSE <<size, buf[1], buf[2]>>
Intact(m)   == IF m.kind = "data" THEN <<m, m, m>> ELSE <<>>

-----------------------------------------------------------------------------
(* Lock::lock.                                                             *)

(* A faulty variant: the count is ignored, and the mutex always taken.     *)
NextPhaseNoCount(n) == "take"

NextPhase(n) == IF n > 0 THEN "store" ELSE "take"

TestLock(w) ==
    /\ at[w] \in DOMAIN Locks /\ phase[w] = "test"
    /\ reg' = [reg EXCEPT ![w] = lockCnt[Locks[at[w]]]]
    /\ Enter(w, NextPhase(lockCnt[Locks[at[w]]]))
    /\ UNCHANGED <<at, lockCnt, holder, size, buf, msg, halted>>

TakeMutex(w) ==
    /\ at[w] \in DOMAIN Locks /\ phase[w] = "take"
    /\ holder[Locks[at[w]]] = "none"
    /\ holder' = [holder EXCEPT ![Locks[at[w]]] = w]
    /\ reg' = [reg EXCEPT ![w] = lockCnt[Locks[at[w]]]]
    /\ Enter(w, "store")
    /\ UNCHANGED <<at, lockCnt, size, buf, msg, halted>>

StoreLock(w) ==
    /\ at[w] \in DOMAIN Locks /\ phase[w] = "store"
    /\ lockCnt' = [lockCnt EXCEPT ![Locks[at[w]]] = reg[w] + 1]
    /\ reg' = [reg EXCEPT ![w] = 0]
    /\ Goto(w, After[at[w]]) /\ Enter(w, "test")
    /\ UNCHANGED <<holder, size, buf, msg, halted>>

(* The mutex stayed taken for the whole wait.  get_write_access fails and  *)
(* the message is dropped; write() ignores the result of __lock.lock and   *)
(* goes on (only the upload gives it a timeout).                           *)
LockTimeout(w) ==
    /\ phase[w] = "take"
    /\ <<at[w], w>> \in {"get"} \X Writer \cup {<<"lock", "SlaveManager">>}
    /\ holder[Locks[at[w]]] # "none"
    /\ Goto(w, IF at[w] = "get" THEN "idle" ELSE "size") /\ Enter(w, "test")
    /\ UNCHANGED <<reg, lockCnt, holder, size, buf, msg, halted>>

-----------------------------------------------------------------------------
(* Lock::unlock.                                                           *)

(* A count that is not positive is left alone.                             *)
TestUnlock(w) ==
    /\ at[w] \in DOMAIN Unlocks /\ phase[w] = "test"
    /\ LET n == lockCnt[Unlocks[at[w]]] IN
       /\ reg' = [reg EXCEPT ![w] = n]
       /\ Goto(w, IF n > 0 THEN at[w] ELSE After[at[w]])
       /\ Enter(w, IF n > 0 THEN "store" ELSE "test")
    /\ UNCHANGED <<lockCnt, holder, size, buf, msg, halted>>

(* The last unlock gives the mutex.  The kernel asserts that a mutex is    *)
(* given by the task that holds it; a failed assertion disables interrupts *)
(* and loops.                                                              *)
StoreUnlock(w) ==
    /\ at[w] \in DOMAIN Unlocks /\ phase[w] = "store"
    /\ LET l == Unlocks[at[w]] IN
       /\ lockCnt' = [lockCnt EXCEPT ![l] = reg[w] - 1]
       /\ halted' = IF reg[w] = 1 /\ holder[l] \notin {w, "none"} THEN TRUE ELSE halted
       /\ holder' = IF reg[w] = 1 /\ holder[l] = w
                    THEN [holder EXCEPT ![l] = "none"] ELSE holder
    /\ reg' = [reg EXCEPT ![w] = 0]
    /\ Goto(w, After[at[w]]) /\ Enter(w, "test")
    /\ UNCHANGED <<size, buf, msg>>

-----------------------------------------------------------------------------
(* The unlocked parts of ShareMem::write.                                  *)

(* A faulty variant: the length is reset only when something is written.   *)
ClearIfWritten(w) ==
    /\ at[w] = "clear"
    /\ size' = IF msg[w].kind = "refused" THEN size ELSE NoMsg
    /\ Goto(w, IF msg[w].kind = "refused" THEN "request" ELSE "again")
    /\ UNCHANGED <<buf, msg>> /\ UNCHANGED lockVars

(* A faulty variant: the early return unlocks what was not locked.         *)
ClearAndUnlock(w) ==
    /\ at[w] = "clear"
    /\ size' = NoMsg
    /\ Goto(w, IF msg[w].kind = "refused" THEN "unlock" ELSE "again")
    /\ UNCHANGED <<buf, msg>> /\ UNCHANGED lockVars

(* __size = 0 comes first, before any lock; a refused message ends here.   *)
Clear(w) ==
    /\ at[w] = "clear"
    /\ size' = NoMsg
    /\ Goto(w, IF msg[w].kind = "refused" THEN "request" ELSE "again")
    /\ UNCHANGED <<buf, msg>> /\ UNCHANGED lockVars

SetSize(w) ==
    /\ at[w] = "size"
    /\ size' = IF msg[w].kind = "empty" THEN NoMsg ELSE msg[w]
    /\ Goto(w, "copy1")
    /\ UNCHANGED <<buf, msg>> /\ UNCHANGED lockVars

Copy(w) ==
    /\ at[w] \in {"copy1", "copy2"}
    /\ LET half == IF at[w] = "copy1" THEN 1 ELSE 2 IN
       buf' = IF msg[w].kind = "empty" THEN buf ELSE [buf EXCEPT ![half] = msg[w]]
    /\ Goto(w, IF at[w] = "copy1" THEN "copy2" ELSE "unlock")
    /\ UNCHANGED <<size, msg>> /\ UNCHANGED lockVars

MemStep(w) ==
    \/ TestLock(w) \/ TakeMutex(w) \/ StoreLock(w) \/ LockTimeout(w)
    \/ TestUnlock(w) \/ StoreUnlock(w)
    \/ Clear(w) \/ SetSize(w) \/ Copy(w)
=============================================================================
