------------------------------- MODULE Harness -------------------------------
(***************************************************************************)
(* A slave: the handlers of MsgProcTask (sync, configuration, reading) and *)
(* the sampling timer of Harness.  The timer task has the higher priority, *)
(* but its callback sleeps twice per row, and the handlers run then.  What *)
(* they ask of the timer meanwhile waits until the callback returns.       *)
(*                                                                         *)
(* A scan is named by the number of its sync; a row of the matrix by the   *)
(* scan that sampled it last.  An access beyond the matrix or the pins is  *)
(* recorded in stray; what it destroys outside this object is left out.    *)
(* Resizing the matrix is one step.                                        *)
(***************************************************************************)
EXTENDS Integers, Sequences, FiniteSets

CONSTANTS Config,          \* slices [start, cond, total] a slave may be given
          MaxMessages      \* messages the slave handles

ASSUME HarnessAssumption ==
    /\ Config \subseteq [start : Nat, cond : Nat \ {0}, total : Nat \ {0}]
    /\ \A c \in Config : c.start + c.cond <= c.total
    /\ MaxMessages \in Nat

VARIABLES timer,           \* harnessTimer is active
          pend,            \* the last timer command posted during the callback
          cb,              \* the callback: idle, settle (2 ms), sample (4 ms)
          index,           \* its local variable
          triggerCount, maxTriggerCount, rowIndex,
          slice,           \* conductionNum, startConductionNum, totalConductionNum
          matrix,          \* row r + 1 of data: the scan that sampled row r
          pins,            \* the channel of each GPIO object
          out,             \* channels set as output
          mp,              \* MsgProcTask: idle, or inside a handler
          copy,            \* rows flatten() has read
          messages,        \* handled so far
          scan,            \* history: syncs so far
          clean,           \* history: the last scan began from rest, nothing hit it
          calm,            \* history: the last reading began with the timer off
          hit,             \* history: some message hit a scan
          first,           \* history: the lines of the first configuration
          stray            \* history: out-of-range accesses, to "row" or "pin"

cbVars   == <<cb, index, rowIndex, out>>
histVars == <<scan, clean, calm, hit, first>>
vars     == <<timer, pend, cbVars, triggerCount, maxTriggerCount, slice, matrix, pins,
              mp, copy, messages, histVars, stray>>

-----------------------------------------------------------------------------

Rows     == Len(matrix)
Scanning == timer \/ cb # "idle"

NoSlice == [start |-> 0, cond |-> 0, total |-> 0]

TypeOK ==
    /\ timer \in BOOLEAN /\ pend \in {"none", "start", "stop"}
    /\ cb \in {"idle", "settle", "sample"}
    /\ index \in Nat /\ rowIndex \in Nat
    /\ maxTriggerCount \in Nat /\ triggerCount \in 0..maxTriggerCount + 1
    /\ slice \in Config \cup {NoSlice}
    /\ matrix \in Seq(Nat) /\ pins \in Seq(Nat) /\ out \subseteq Nat
    /\ mp \in {"idle", "resize", "pins", "read"}
    /\ copy \in Seq(Nat)
    /\ messages \in 0..MaxMessages
    /\ scan \in Nat /\ clean \in BOOLEAN /\ calm \in BOOLEAN /\ hit \in BOOLEAN
    /\ first \in Nat /\ stray \subseteq {"row", "pin"}

(* A global object: everything starts as zero.                             *)
Init ==
    /\ timer = FALSE /\ pend = "none"
    /\ cb = "idle" /\ index = 0
    /\ triggerCount = 0 /\ maxTriggerCount = 0 /\ rowIndex = 0
    /\ slice = NoSlice
    /\ matrix = <<>> /\ pins = <<>> /\ out = {}
    /\ mp = "idle" /\ copy = <<>>
    /\ messages = 0 /\ scan = 0
    /\ clean = FALSE /\ calm = FALSE /\ hit = FALSE /\ first = 0
    /\ stray = {}

-----------------------------------------------------------------------------
(* The callback, in the timer task.                                        *)

IsPin(i)   == i + 1 \in DOMAIN pins
Channel(i) == pins[i + 1]
Stray(what, ok) == IF ok THEN {} ELSE {what}
SliceIndex == rowIndex - slice.start

(* A faulty variant: the count is incremented before the comparison.       *)
IsOverEarly == maxTriggerCount > 0 /\ triggerCount + 1 >= maxTriggerCount

(* All rows were triggered.                                                *)
IsOver == maxTriggerCount > 0 /\ triggerCount >= maxTriggerCount

Count == triggerCount' = IF maxTriggerCount > 0 THEN triggerCount + 1 ELSE triggerCount

ResetPin(i) ==
    /\ out' = IF IsPin(i) THEN out \ {Channel(i)} ELSE out
    /\ stray' = stray \cup Stray("pin", IsPin(i))

(* A faulty variant: the timer keeps running.                              *)
FinishKeepTimer ==
    /\ timer /\ cb = "idle" /\ IsOver
    /\ Count
    /\ ResetPin(SliceIndex - 1)
    /\ rowIndex' = 0
    /\ UNCHANGED <<timer, pend, cb, index, maxTriggerCount, slice, matrix, pins, mp, copy,
                   messages, histVars>>

(* A faulty variant: the scan starts again.                                *)
FinishRestart ==
    /\ timer /\ cb = "idle" /\ IsOver
    /\ triggerCount' = 0 /\ rowIndex' = 0
    /\ ResetPin(SliceIndex - 1)
    /\ UNCHANGED <<timer, pend, cb, index, maxTriggerCount, slice, matrix, pins, mp, copy,
                   messages, histVars>>

(* A faulty variant: reload() leaves the row index.                        *)
FinishKeepRow ==
    /\ timer /\ cb = "idle" /\ IsOver
    /\ Count
    /\ timer' = FALSE
    /\ ResetPin(SliceIndex - 1)
    /\ UNCHANGED <<pend, cb, index, rowIndex, maxTriggerCount, slice, matrix, pins, mp,
                   copy, messages, histVars>>

(* The timer is stopped, and reload() resets the pin of the last row.      *)
Finish ==
    /\ timer /\ cb = "idle" /\ IsOver
    /\ Count
    /\ timer' = FALSE
    /\ ResetPin(SliceIndex - 1)
    /\ rowIndex' = 0
    /\ UNCHANGED <<pend, cb, index, maxTriggerCount, slice, matrix, pins, mp, copy,
                   messages, histVars>>

(* A faulty variant: one line too few.                                     *)
IsDeviceOutputShort == SliceIndex > 0 /\ SliceIndex < slice.cond

IsDeviceOutput == SliceIndex >= 0 /\ SliceIndex < slice.cond

(* run() up to its first sleep: the pin of the row before is reset.        *)
BeginRow ==
    /\ timer /\ cb = "idle" /\ ~IsOver
    /\ Count
    /\ IF SliceIndex - 1 \in 0..slice.cond - 1
       THEN ResetPin(SliceIndex - 1)
       ELSE UNCHANGED <<out, stray>>
    /\ cb' = IF IsDeviceOutput THEN "settle" ELSE "sample"
    /\ index' = IF IsDeviceOutput THEN SliceIndex ELSE 0
    /\ UNCHANGED <<timer, pend, rowIndex, maxTriggerCount, slice, matrix, pins, mp, copy,
                   messages, histVars>>

Drive ==
    /\ cb = "settle"
    /\ out' = IF IsPin(index) THEN out \cup {Channel(index)} ELSE out
    /\ stray' = stray \cup Stray("pin", IsPin(index))
    /\ cb' = "sample"
    /\ UNCHANGED <<timer, pend, index, rowIndex, triggerCount, maxTriggerCount, slice,
                   matrix, pins, mp, copy, messages, histVars>>

(* The row is sampled on every line, which after a resize may be more than *)
(* there are pins; then the timer commands are executed.                   *)
Sample ==
    /\ cb = "sample"
    /\ matrix' = IF rowIndex < Rows THEN [matrix EXCEPT ![rowIndex + 1] = scan] ELSE matrix
    /\ stray' = stray \cup Stray("row", rowIndex < Rows)
                      \cup Stray("pin", mp = "pins" => slice.cond <= Len(pins))
    /\ rowIndex' = rowIndex + 1
    /\ timer' = IF pend = "none" THEN timer ELSE pend = "start"
    /\ pend' = "none"
    /\ cb' = "idle"
    /\ UNCHANGED <<index, out, triggerCount, maxTriggerCount, slice, pins, mp, copy,
                   messages, histVars>>

Callback == Finish \/ BeginRow \/ Drive \/ Sample

-----------------------------------------------------------------------------
(* The handlers, in MsgProcTask.                                           *)

Command(c) ==
    IF cb = "idle" THEN timer' = (c = "start") /\ UNCHANGED pend
                   ELSE pend' = c /\ UNCHANGED timer

Handle ==
    /\ mp = "idle" /\ messages < MaxMessages
    /\ messages' = messages + 1

(* SyncMsg::process.  The row index is not touched.                        *)
Sync ==
    /\ Handle
    /\ IF slice.total > 0
       THEN /\ triggerCount' = 0 /\ maxTriggerCount' = slice.total
            /\ Command("start")
            /\ scan' = scan + 1
            /\ clean' = (~Scanning /\ rowIndex = 0 /\ out = {})
            /\ hit' = (hit \/ Scanning)
       ELSE UNCHANGED <<triggerCount, maxTriggerCount, timer, pend, scan, clean, hit>>
    /\ UNCHANGED <<cbVars, slice, matrix, pins, mp, copy, calm, first, stray>>

(* CondCfgMsg::process: the timer is stopped, then the fields, the matrix  *)
(* and the pins change.                                                    *)
Configure ==
    /\ Handle
    /\ slice' \in Config
    /\ first' = IF pins = <<>> THEN slice'.cond ELSE first
    /\ Command("stop")
    /\ mp' = "resize"
    /\ clean' = FALSE
    /\ hit' = (hit \/ Scanning)
    /\ UNCHANGED <<cbVars, triggerCount, maxTriggerCount, matrix, pins, copy, scan, calm,
                   stray>>

(* Rows that stay keep their contents.                                     *)
Resize ==
    /\ mp = "resize"
    /\ matrix' = [r \in 1..slice.total |-> IF r <= Rows THEN matrix[r] ELSE 0]
    /\ mp' = "pins"
    /\ UNCHANGED <<timer, pend, cbVars, triggerCount, maxTriggerCount, slice, pins, copy,
                   messages, histVars, stray>>

NewPins == [i \in 1..slice.cond |-> i - 1]

(* The pins are added to those of earlier configurations; the reply is     *)
(* sent.                                                                   *)
AddPins ==
    /\ mp = "pins"
    /\ pins' = pins \o NewPins
    /\ mp' = "idle"
    /\ UNCHANGED <<timer, pend, cbVars, triggerCount, maxTriggerCount, slice, matrix, copy,
                   messages, histVars, stray>>

(* ReadCondDataMsg::process: flatten() reads row by row.                   *)
BeginRead ==
    /\ Handle
    /\ mp' = "read" /\ copy' = <<>>
    /\ calm' = ~Scanning
    /\ UNCHANGED <<timer, pend, cbVars, triggerCount, maxTriggerCount, slice, matrix, pins,
                   scan, clean, hit, first, stray>>

ReadRow ==
    /\ mp = "read" /\ Len(copy) < Rows
    /\ copy' = Append(copy, matrix[Len(copy) + 1])
    /\ UNCHANGED <<timer, pend, cbVars, triggerCount, maxTriggerCount, slice, matrix, pins,
                   mp, messages, histVars, stray>>

EndRead ==
    /\ mp = "read" /\ Len(copy) = Rows
    /\ mp' = "idle"
    /\ UNCHANGED <<timer, pend, cbVars, triggerCount, maxTriggerCount, slice, matrix, pins,
                   copy, messages, histVars, stray>>

Handler == Sync \/ Configure \/ Resize \/ AddPins \/ BeginRead \/ ReadRow \/ EndRead

Next == Callback \/ Handler

Spec == Init /\ [][Next]_vars

(* The timer task has the highest priority and its sleeps end.             *)
FairSpec == Spec /\ WF_vars(Callback)

-----------------------------------------------------------------------------

(* A scan that began from rest, and that no message hit, samples every row *)
(* before it stops, and leaves the object at rest: row index 0, and no     *)
(* line driven if this slave has the last lines (myTimerCallback, run,     *)
(* reload).                                                                *)
ScanComplete ==
    clean /\ ~Scanning =>
        /\ rowIndex = 0
        /\ matrix = [r \in 1..slice.total |-> scan]
        /\ slice.start + slice.cond = slice.total => out = {}

(* While such a scan samples a row, the slave drives the channel of that   *)
(* line if the line is one of its own, and nothing else.  init() adds pins *)
(* behind those of earlier configurations, so this is so only for a slave  *)
(* that has no more lines than in its first configuration.                 *)
SampledRowIsDriven ==
    clean /\ cb = "sample" /\ slice.cond <= first =>
        out = {rowIndex - slice.start} \cap (0..slice.cond - 1)

(* Rows beyond the matrix are written only after a message hit a scan:     *)
(* a sync then restarts the count but not the row index.                   *)
RowsInBounds == "row" \in stray => hit

(* A reading taken with the timer off, after a scan nothing hit, is that   *)
(* scan and nothing older (flatten).                                       *)
ReadingIsLastScan ==
    mp = "read" /\ calm /\ clean => \A r \in DOMAIN copy : copy[r] = scan

(* A scan ends, however often it was hit.                                  *)
ScanEnds == timer ~> ~timer

(* The comment at harness.h:244: reload() resets the pin that was set as   *)
(* output last.  In a scan that nothing hit this is at least a pin.        *)
ReloadResetsAPin == "pin" \in stray => hit
=============================================================================
