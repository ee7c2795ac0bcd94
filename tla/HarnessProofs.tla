---------------------------- MODULE HarnessProofs ----------------------------
(***************************************************************************)
(* Proofs about Harness.  A scan is undisturbed if it began from rest and  *)
(* no message hit it; HarnessInv says how its count, its row index, its    *)
(* matrix and its outputs hang together at every step.                     *)
(***************************************************************************)
EXTENDS Harness, SequenceTheorems, TLAPS

-----------------------------------------------------------------------------

(* Between callbacks no timer command waits.                               *)
PendInv == cb = "idle" => pend = "none"

(* While the timer runs, or is to be started, the count is not used up.    *)
TimerInv == timer \/ pend = "start" => triggerCount <= maxTriggerCount

(* The matrix has a row for every line of the session, but for the moment  *)
(* between a configuration and its resize.                                 *)
MatrixInv == mp # "resize" => Len(matrix) = slice.total

(* There is a pin for every line, and the first are those of the first     *)
(* configuration.                                                          *)
PinInv ==
    /\ mp \notin {"resize", "pins"} => slice.cond <= Len(pins)
    /\ pins = <<>> => first = slice.cond
    /\ pins # <<>> => first <= Len(pins) /\ \A i \in 1..first : pins[i] = i - 1

Undisturbed == clean \/ ~hit

(* An undisturbed scan counts its rows.                                    *)
CountInv ==
    Undisturbed =>
        /\ pend = "none"
        /\ Scanning => /\ timer /\ mp \in {"idle", "read"}
                       /\ slice.total > 0 /\ maxTriggerCount = slice.total
                       /\ rowIndex <= slice.total
        /\ Scanning /\ cb = "idle" => triggerCount = rowIndex
        /\ cb # "idle" => triggerCount = rowIndex + 1 /\ rowIndex < slice.total
        /\ ~Scanning => rowIndex = 0

(* The rows before the row index are those of the scan.                    *)
RowInv ==
    clean =>
        /\ mp \in {"idle", "read"} /\ slice.total > 0
        /\ \A r \in 1..slice.total : r <= rowIndex \/ ~Scanning => matrix[r] = scan

(* What line is driven.                                                    *)
Driven(i) == {Channel(j) : j \in {i} \cap (0..slice.cond - 1)}

OutInv ==
    clean =>
        /\ Scanning /\ cb = "idle" => out = Driven(SliceIndex - 1)
        /\ cb = "settle" => IsDeviceOutput /\ index = SliceIndex /\ out = {}
        /\ cb = "sample" => out = Driven(SliceIndex)
        /\ ~Scanning /\ slice.start + slice.cond = slice.total => out = {}

(* A reading that began with the timer off copies a matrix at rest.        *)
ReadInv ==
    mp = "read" /\ calm =>
        /\ ~Scanning
        /\ Len(copy) <= Len(matrix)
        /\ \A r \in DOMAIN copy : copy[r] = matrix[r]

(* The row index leaves the matrix only in a disturbed scan.               *)
StrayInv == "row" \in stray => hit

HarnessInv ==
    /\ TypeOK /\ PendInv /\ TimerInv /\ MatrixInv /\ PinInv /\ CountInv /\ RowInv /\ OutInv
    /\ ReadInv /\ StrayInv

-----------------------------------------------------------------------------

USE HarnessAssumption DEF HarnessAssumption

LEMMA InitHolds == Init => HarnessInv
<1> SUFFICES ASSUME Init PROVE HarnessInv
  OBVIOUS
<1>1. TypeOK
  <2>1. matrix \in Seq(Nat) /\ pins \in Seq(Nat) /\ copy \in Seq(Nat)
    BY DEF Init
  <2>2. /\ timer \in BOOLEAN /\ pend \in {"none", "start", "stop"}
        /\ cb \in {"idle", "settle", "sample"} /\ index \in Nat /\ rowIndex \in Nat
        /\ maxTriggerCount \in Nat
    BY DEF Init
  <2>5. triggerCount \in 0..maxTriggerCount + 1
    BY DEF Init
  <2>3. /\ out \subseteq Nat /\ mp \in {"idle", "resize", "pins", "read"}
        /\ messages \in 0..MaxMessages /\ scan \in Nat /\ first \in Nat
    BY DEF Init
  <2>4. /\ slice \in Config \cup {NoSlice} /\ clean \in BOOLEAN /\ calm \in BOOLEAN
        /\ hit \in BOOLEAN /\ stray \subseteq {"row", "pin"}
    BY Zenon DEF Init
  <2> QED
    BY <2>1, <2>2, <2>3, <2>4, <2>5, Zenon DEF TypeOK
<1>2. PendInv /\ TimerInv /\ MatrixInv /\ PinInv
  BY DEF Init, PendInv, TimerInv, MatrixInv, PinInv, NoSlice
<1>3. CountInv /\ RowInv /\ OutInv /\ ReadInv /\ StrayInv
  BY DEF Init, CountInv, RowInv, OutInv, ReadInv, StrayInv, Undisturbed, Scanning
<1> QED
  BY <1>1, <1>2, <1>3, Zenon DEF HarnessInv

(* The slice is a slice of the parameters, or nothing yet.                 *)
LEMMA SliceTyped ==
  ASSUME TypeOK
  PROVE  slice \in [start : Nat, cond : Nat, total : Nat]
BY DEF TypeOK, NoSlice

LEMMA TableIsSeq ==
  ASSUME NEW n \in Nat, NEW f \in [1..n -> Nat]
  PROVE  f \in Seq(Nat) /\ Len(f) = n
BY SeqDef

LEMMA NewPinsTyped ==
  ASSUME TypeOK
  PROVE  /\ NewPins \in Seq(Nat) /\ Len(NewPins) = slice.cond
         /\ \A i \in 1..slice.cond : NewPins[i] = i - 1
<1>1. slice.cond \in Nat
  BY SliceTyped
<1>2. NewPins \in [1..slice.cond -> Nat]
  BY <1>1 DEF NewPins
<1>3. \A i \in 1..slice.cond : NewPins[i] = i - 1
  BY DEF NewPins
<1> QED
  BY <1>1, <1>2, <1>3, TableIsSeq

LEMMA ResetTyped ==
  ASSUME TypeOK, NEW i \in Int, ResetPin(i)
  PROVE  out' \subseteq Nat /\ stray' \subseteq {"row", "pin"}
BY DEF TypeOK, ResetPin, IsPin, Stray

-----------------------------------------------------------------------------
(* Typing.                                                                 *)

LEMMA TypingStep ==
  ASSUME TypeOK, TimerInv, [Next]_vars
  PROVE  TypeOK'
<1> USE DEF TypeOK
<1>0. slice \in [start : Nat, cond : Nat, total : Nat]
  BY SliceTyped
<1>1. CASE Finish
  <2>1. out' \subseteq Nat /\ stray' \subseteq {"row", "pin"}
    BY <1>0, <1>1, ResetTyped DEF Finish, SliceIndex
  <2>2. triggerCount' \in 0..maxTriggerCount' + 1
    BY <1>1 DEF Finish, Count, TimerInv
  <2> QED
    BY <1>1, <2>1, <2>2 DEF Finish, histVars
<1>2. CASE BeginRow
  <2>1. out' \subseteq Nat /\ stray' \subseteq {"row", "pin"}
    <3>1. SliceIndex - 1 \in Int
      BY <1>0 DEF SliceIndex
    <3>2. CASE ResetPin(SliceIndex - 1)
      BY <3>1, <3>2, ResetTyped
    <3>3. CASE UNCHANGED <<out, stray>>
      BY <3>3
    <3> QED
      BY <1>2, <3>2, <3>3 DEF BeginRow
  <2>2. triggerCount' \in 0..maxTriggerCount' + 1
    BY <1>2 DEF BeginRow, Count, TimerInv
  <2>3. index' \in Nat /\ cb' \in {"idle", "settle", "sample"}
    BY <1>0, <1>2 DEF BeginRow, IsDeviceOutput, SliceIndex
  <2> QED
    BY <1>2, <2>1, <2>2, <2>3 DEF BeginRow, histVars
<1>3. CASE Drive
  <2>0. IsPin(index) => Channel(index) \in Nat
    BY DEF IsPin, Channel
  <2>1. out' \subseteq Nat
    BY <1>3, <2>0 DEF Drive
  <2>2. stray' \subseteq {"row", "pin"}
    BY <1>3 DEF Drive, Stray
  <2> QED
    BY <1>3, <2>1, <2>2 DEF Drive, histVars
<1>4. CASE Sample
  <2>1. matrix' \in Seq(Nat) /\ rowIndex' \in Nat
    BY <1>4 DEF Sample, Rows
  <2>2. stray' \subseteq {"row", "pin"}
    BY <1>4 DEF Sample, Stray
  <2>3. timer' \in BOOLEAN
    BY <1>4, Zenon DEF Sample
  <2> QED
    BY <1>4, <2>1, <2>2, <2>3 DEF Sample, histVars
<1>5. CASE Sync
  <2>1. /\ timer' \in BOOLEAN /\ pend' \in {"none", "start", "stop"}
        /\ clean' \in BOOLEAN /\ hit' \in BOOLEAN
    BY <1>5, Zenon DEF Sync, Command
  <2>2. /\ maxTriggerCount' \in Nat /\ triggerCount' \in 0..maxTriggerCount' + 1
        /\ scan' \in Nat /\ messages' \in 0..MaxMessages
    BY <1>0, <1>5 DEF Sync, Handle
  <2> QED
    BY <1>5, <2>1, <2>2 DEF Sync, cbVars
<1>6. CASE Configure
  <2>1. /\ timer' \in BOOLEAN /\ pend' \in {"none", "start", "stop"} /\ hit' \in BOOLEAN
    BY <1>6, Zenon DEF Configure, Command
  <2>2. first' \in Nat /\ messages' \in 0..MaxMessages
    BY <1>6 DEF Configure, Handle
  <2> QED
    BY <1>6, <2>1, <2>2 DEF Configure, cbVars
<1>7. CASE Resize
  <2>0. \A r \in 1..slice.total : (IF r <= Rows THEN matrix[r] ELSE 0) \in Nat
    BY <1>0 DEF Rows
  <2>1. matrix' \in Seq(Nat)
    BY <1>0, <1>7, <2>0, TableIsSeq DEF Resize
  <2> QED
    BY <1>7, <2>1 DEF Resize, cbVars, histVars
<1>8. CASE AddPins
  <2>1. pins' \in Seq(Nat)
    BY <1>8, NewPinsTyped DEF AddPins
  <2> QED
    BY <1>8, <2>1 DEF AddPins, cbVars, histVars
<1>9. CASE BeginRead
  <2>1. messages' \in 0..MaxMessages
    BY <1>9 DEF BeginRead, Handle
  <2>2. calm' \in BOOLEAN
    BY <1>9, Zenon DEF BeginRead
  <2> QED
    BY <1>9, <2>1, <2>2 DEF BeginRead, cbVars
<1>10. CASE ReadRow
  <2>1. copy' \in Seq(Nat)
    BY <1>10 DEF ReadRow, Rows
  <2> QED
    BY <1>10, <2>1 DEF ReadRow, cbVars, histVars
<1>11. CASE EndRead
  BY <1>11 DEF EndRead, cbVars, histVars
<1>12. CASE UNCHANGED vars
  BY <1>12 DEF vars, cbVars, histVars
<1> QED
  BY <1>1, <1>2, <1>3, <1>4, <1>5, <1>6, <1>7, <1>8, <1>9, <1>10, <1>11, <1>12
     DEF Next, Callback, Handler

-----------------------------------------------------------------------------
(* The timer's command and its count.                                      *)

LEMMA TimerStep ==
  ASSUME TypeOK, PendInv, TimerInv, [Next]_vars
  PROVE  PendInv' /\ TimerInv'
<1> USE DEF TypeOK, PendInv, TimerInv
<1>1. CASE Finish
  BY <1>1 DEF Finish
<1>2. CASE BeginRow
  BY <1>2 DEF BeginRow, Count, IsOver
<1>3. CASE Drive
  BY <1>3 DEF Drive
<1>4. CASE Sample
  BY <1>4 DEF Sample
<1>5. CASE Sync
  BY <1>5, SliceTyped DEF Sync, Command, cbVars
<1>6. CASE Configure
  BY <1>6 DEF Configure, Command, cbVars
<1>7. CASE Resize \/ AddPins \/ BeginRead \/ ReadRow \/ EndRead \/ UNCHANGED vars
  BY <1>7 DEF Resize, AddPins, BeginRead, ReadRow, EndRead, vars, cbVars
<1> QED
  BY <1>1, <1>2, <1>3, <1>4, <1>5, <1>6, <1>7 DEF Next, Callback, Handler

-----------------------------------------------------------------------------
(* The sizes of the matrix and of the pins.                                *)

LEMMA MatrixStep ==
  ASSUME TypeOK, MatrixInv, [Next]_vars
  PROVE  MatrixInv'
<1> USE DEF MatrixInv
<1>1. CASE Finish \/ BeginRow \/ Drive
  BY <1>1 DEF Finish, BeginRow, Drive
<1>2. CASE Sample
  BY <1>2 DEF TypeOK, Sample, Rows
<1>3. CASE Configure
  BY <1>3 DEF Configure
<1>4. CASE Resize
  <2>1. slice.total \in Nat
    BY SliceTyped
  <2>2. \A r \in 1..slice.total : (IF r <= Rows THEN matrix[r] ELSE 0) \in Nat
    BY <2>1 DEF TypeOK, Rows
  <2> QED
    BY <1>4, <2>1, <2>2, TableIsSeq DEF Resize
<1>5. CASE Sync \/ AddPins \/ BeginRead \/ ReadRow \/ EndRead \/ UNCHANGED vars
  BY <1>5 DEF Sync, Handle, AddPins, BeginRead, ReadRow, EndRead, vars
<1> QED
  BY <1>1, <1>2, <1>3, <1>4, <1>5 DEF Next, Callback, Handler

LEMMA PinStep ==
  ASSUME TypeOK, PinInv, [Next]_vars
  PROVE  PinInv'
<1> USE DEF PinInv
<1>1. CASE Callback
  BY <1>1 DEF Callback, Finish, BeginRow, Drive, Sample, histVars
<1>2. CASE Configure
  BY <1>2 DEF Configure, Handle
<1>3. CASE AddPins
  <2>1. /\ pins \in Seq(Nat) /\ slice.cond \in Nat /\ first \in Nat
        /\ NewPins \in Seq(Nat) /\ Len(NewPins) = slice.cond
        /\ \A i \in 1..slice.cond : NewPins[i] = i - 1
    BY SliceTyped, NewPinsTyped DEF TypeOK
  <2>2. pins' = pins \o NewPins /\ first' = first /\ slice' = slice
    BY <1>3 DEF AddPins, histVars
  <2>3. slice'.cond <= Len(pins')
    BY <2>1, <2>2
  <2>4. CASE pins = <<>>
    <3>1. pins' = NewPins
      BY <2>1, <2>2, <2>4
    <3> QED
      BY <2>1, <2>2, <2>3, <2>4, <3>1
  <2>5. CASE pins # <<>>
    <3>1. pins' # <<>> /\ first <= Len(pins')
      BY <2>1, <2>2, <2>5
    <3>2. \A i \in 1..first : pins'[i] = i - 1
      BY <2>1, <2>2, <2>5
    <3> QED
      BY <2>2, <2>3, <3>1, <3>2
  <2> QED
    BY <2>4, <2>5
<1>4. CASE Sync \/ Resize \/ BeginRead \/ ReadRow \/ EndRead \/ UNCHANGED vars
  BY <1>4 DEF Sync, Handle, Resize, BeginRead, ReadRow, EndRead, vars, histVars
<1> QED
  BY <1>1, <1>2, <1>3, <1>4 DEF Next, Handler

-----------------------------------------------------------------------------
(* The count of an undisturbed scan, and the rows it leaves untouched.     *)

LEMMA CountStep ==
  ASSUME TypeOK, PendInv, CountInv, [Next]_vars
  PROVE  CountInv'
<1> USE DEF CountInv, Undisturbed, Scanning
<1>0. /\ rowIndex \in Nat /\ triggerCount \in Nat /\ maxTriggerCount \in Nat
      /\ slice.total \in Nat /\ cb \in {"idle", "settle", "sample"}
  BY SliceTyped DEF TypeOK
<1>1. CASE Finish
  BY <1>0, <1>1 DEF Finish, Count, histVars
<1>2. CASE BeginRow
  <2>1. cb' \in {"settle", "sample"}
    BY <1>2 DEF BeginRow
  <2> QED
    BY <1>0, <1>2, <2>1 DEF BeginRow, Count, IsOver, histVars
<1>3. CASE Drive
  BY <1>0, <1>3 DEF Drive, histVars
<1>4. CASE Sample
  BY <1>0, <1>4 DEF Sample, histVars
<1>5. CASE Sync
  <2>1. CASE slice.total > 0
    <3>1. CASE Scanning
      BY <1>5, <2>1, <3>1 DEF Sync
    <3>2. CASE ~Scanning
      <4>1. cb = "idle" /\ cb' = "idle" /\ pend = "none" /\ pend' = "none" /\ timer'
        BY <1>0, <1>5, <2>1, <3>2 DEF Sync, Command, PendInv, cbVars
      <4>2. /\ triggerCount' = 0 /\ maxTriggerCount' = slice.total
            /\ slice' = slice /\ rowIndex' = rowIndex /\ mp' = "idle"
        BY <1>5, <2>1 DEF Sync, Handle, cbVars
      <4>3. clean' \/ ~hit' => rowIndex = 0
        BY <1>5, <2>1, <3>2 DEF Sync
      <4> QED
        BY <1>0, <2>1, <4>1, <4>2, <4>3
    <3> QED
      BY <3>1, <3>2
  <2>2. CASE ~(slice.total > 0)
    BY <1>0, <1>5, <2>2 DEF Sync, Handle, cbVars
  <2> QED
    BY <2>1, <2>2
<1>6. CASE Configure
  <2>1. CASE Scanning
    BY <1>6, <2>1 DEF Configure
  <2>2. CASE ~Scanning
    BY <1>0, <1>6, <2>2 DEF Configure, Command, PendInv, cbVars
  <2> QED
    BY <2>1, <2>2
<1>7. CASE Resize \/ AddPins \/ BeginRead \/ ReadRow \/ EndRead
  BY <1>0, <1>7 DEF Resize, AddPins, BeginRead, Handle, ReadRow, EndRead, cbVars, histVars
<1>8. CASE UNCHANGED vars
  BY <1>0, <1>8 DEF vars, cbVars, histVars
<1> QED
  BY <1>1, <1>2, <1>3, <1>4, <1>5, <1>6, <1>7, <1>8 DEF Next, Callback, Handler

LEMMA StrayStep ==
  ASSUME TypeOK, MatrixInv, CountInv, StrayInv, [Next]_vars
  PROVE  StrayInv'
<1> USE DEF StrayInv
<1>1. CASE Finish \/ BeginRow
  BY <1>1 DEF Finish, BeginRow, ResetPin, Stray, histVars
<1>2. CASE Drive
  BY <1>2 DEF Drive, Stray, histVars
<1>3. CASE Sample
  <2>1. ~hit => rowIndex < Rows
    BY <1>3 DEF Sample, CountInv, Undisturbed, Scanning, MatrixInv, Rows
  <2> QED
    BY <1>3, <2>1 DEF Sample, Stray, histVars
<1>4. CASE Sync \/ Configure
  BY <1>4 DEF Sync, Configure
<1>5. CASE Resize \/ AddPins \/ BeginRead \/ ReadRow \/ EndRead \/ UNCHANGED vars
  BY <1>5 DEF Resize, AddPins, BeginRead, ReadRow, EndRead, vars, histVars
<1> QED
  BY <1>1, <1>2, <1>3, <1>4, <1>5 DEF Next, Callback, Handler

LEMMA RowStep ==
  ASSUME TypeOK, PendInv, MatrixInv, CountInv, RowInv, [Next]_vars
  PROVE  RowInv'
<1> USE DEF RowInv, Scanning
<1>0. /\ rowIndex \in Nat /\ slice.total \in Nat /\ matrix \in Seq(Nat) /\ scan \in Nat
      /\ clean /\ Scanning => rowIndex <= slice.total
      /\ clean /\ cb # "idle" => rowIndex < slice.total
  BY SliceTyped DEF TypeOK, CountInv, Undisturbed
<1>1. CASE Finish
  <2>1. clean => rowIndex = slice.total
    BY <1>0, <1>1 DEF Finish, IsOver, CountInv, Undisturbed
  <2> QED
    BY <1>0, <1>1, <2>1 DEF Finish, histVars
<1>2. CASE BeginRow
  <2>1. Scanning /\ Scanning'
    BY <1>2 DEF BeginRow
  <2> QED
    BY <1>2, <2>1 DEF BeginRow, histVars
<1>3. CASE Drive
  BY <1>3 DEF Drive, histVars
<1>4. CASE Sample
  <2> SUFFICES ASSUME clean' PROVE RowInv'
    BY DEF RowInv
  <2>1. clean /\ mp \in {"idle", "read"} /\ slice.total > 0
    BY <1>4 DEF Sample, histVars
  <2>2. Rows = slice.total /\ rowIndex < Rows
    BY <1>0, <1>4, <2>1 DEF Sample, MatrixInv, Rows
  <2>3. timer'
    BY <1>4, <2>1 DEF Sample, CountInv, Undisturbed
  <2>4. matrix' = [matrix EXCEPT ![rowIndex + 1] = scan]
    BY <1>4, <2>2 DEF Sample
  <2>5. \A r \in 1..slice.total : r <= rowIndex + 1 => matrix'[r] = scan
    <3> SUFFICES ASSUME NEW r \in 1..slice.total, r <= rowIndex + 1
                 PROVE  matrix'[r] = scan
      OBVIOUS
    <3>1. r \in DOMAIN matrix
      BY <1>0, <2>2 DEF Rows
    <3>2. CASE r = rowIndex + 1
      BY <2>4, <3>1, <3>2
    <3>3. CASE r # rowIndex + 1
      BY <1>0, <2>1, <2>4, <3>1, <3>3
    <3> QED
      BY <3>2, <3>3
  <2> QED
    BY <1>4, <2>1, <2>3, <2>5 DEF Sample, histVars
<1>5. CASE Sync
  <2>1. CASE slice.total > 0
    <3>1. clean' => ~Scanning /\ timer'
      BY <1>5, <2>1 DEF Sync, Command
    <3>2. clean' => rowIndex' = 0 /\ slice' = slice /\ mp' = "idle"
      BY <1>5, <2>1 DEF Sync, Handle, cbVars
    <3> QED
      BY <1>0, <2>1, <3>1, <3>2
  <2>2. CASE ~(slice.total > 0)
    BY <1>0, <1>5, <2>2 DEF Sync, Handle, cbVars
  <2> QED
    BY <2>1, <2>2
<1>6. CASE Configure
  BY <1>6 DEF Configure
<1>7. CASE Resize \/ AddPins
  BY <1>7 DEF Resize, AddPins, histVars
<1>8. CASE BeginRead \/ ReadRow \/ EndRead \/ UNCHANGED vars
  <2>1. /\ clean' = clean /\ slice' = slice /\ rowIndex' = rowIndex /\ scan' = scan
        /\ matrix' = matrix /\ timer' = timer /\ cb' = cb
    BY <1>8 DEF BeginRead, ReadRow, EndRead, vars, cbVars, histVars
  <2>2. mp' \in {mp, "idle", "read"}
    BY <1>8 DEF BeginRead, ReadRow, EndRead, vars
  <2> QED
    BY <2>1, <2>2
<1> QED
  BY <1>1, <1>2, <1>3, <1>4, <1>5, <1>6, <1>7, <1>8 DEF Next, Callback, Handler

-----------------------------------------------------------------------------
(* The outputs of an undisturbed scan.                                     *)

LEMMA DrivenIs ==
  ASSUME NEW i \in Int, TypeOK
  PROVE  /\ i \in 0..slice.cond - 1 => Driven(i) = {Channel(i)}
         /\ i \notin 0..slice.cond - 1 => Driven(i) = {}
BY DEF Driven

LEMMA OutStep ==
  ASSUME TypeOK, PendInv, PinInv, CountInv, RowInv, OutInv, [Next]_vars
  PROVE  OutInv'
<1> SUFFICES ASSUME clean' PROVE OutInv'
  BY DEF OutInv
<1> USE DEF Scanning
<1>0. /\ rowIndex \in Nat /\ slice.total \in Nat /\ slice.start \in Nat /\ slice.cond \in Nat
      /\ SliceIndex \in Int /\ SliceIndex - 1 \in Int
  <2>1. rowIndex \in Nat
    BY DEF TypeOK
  <2>2. slice \in [start : Nat, cond : Nat, total : Nat]
    BY SliceTyped
  <2> QED
    BY <2>1, <2>2 DEF SliceIndex
<1>p. clean => mp \in {"idle", "read"} /\ slice.cond <= Len(pins) /\ slice.cond > 0
  BY <1>0 DEF RowInv, PinInv, TypeOK, NoSlice
<1>q. clean => \A i \in 0..slice.cond - 1 : IsPin(i)
  <2>1. pins \in Seq(Nat)
    BY DEF TypeOK
  <2> QED
    BY <1>0, <1>p, <2>1 DEF IsPin
<1>1. CASE Finish
  <2>1. clean /\ cb = "idle" /\ timer /\ ~timer' /\ cb' = "idle" /\ slice' = slice
    BY <1>1 DEF Finish, histVars
  <2>2. rowIndex = slice.total /\ out = Driven(SliceIndex - 1)
    BY <1>0, <1>1, <2>1 DEF Finish, IsOver, CountInv, Undisturbed, OutInv
  <2>3. ASSUME slice.start + slice.cond = slice.total
        PROVE  out' = {}
    <3>1. SliceIndex - 1 = slice.cond - 1 /\ slice.cond - 1 \in 0..slice.cond - 1
      BY <1>0, <1>p, <2>1, <2>2, <2>3 DEF SliceIndex
    <3>2. out = {Channel(SliceIndex - 1)}
      BY <1>0, <2>2, <3>1, DrivenIs
    <3>3. IsPin(SliceIndex - 1)
      BY <1>q, <2>1, <3>1
    <3> QED
      BY <1>1, <3>2, <3>3 DEF Finish, ResetPin
  <2> QED
    BY <2>1, <2>3 DEF OutInv
<1>2. CASE BeginRow
  <2>1. clean /\ cb = "idle" /\ timer /\ timer' /\ slice' = slice /\ rowIndex' = rowIndex
        /\ pins' = pins
    BY <1>2 DEF BeginRow, histVars
  <2>2. out = Driven(SliceIndex - 1)
    BY <2>1 DEF OutInv
  <2>3. out' = {}
    <3>1. CASE SliceIndex - 1 \in 0..slice.cond - 1
      <4>1. out = {Channel(SliceIndex - 1)} /\ IsPin(SliceIndex - 1)
        BY <1>0, <1>q, <2>1, <2>2, <3>1, DrivenIs
      <4> QED
        BY <1>2, <3>1, <4>1 DEF BeginRow, ResetPin
    <3>2. CASE SliceIndex - 1 \notin 0..slice.cond - 1
      BY <1>0, <1>2, <2>2, <3>2, DrivenIs DEF BeginRow
    <3> QED
      BY <3>1, <3>2
  <2>4. SliceIndex' = SliceIndex /\ IsDeviceOutput' = IsDeviceOutput
    BY <2>1 DEF SliceIndex, IsDeviceOutput
  <2>5. CASE IsDeviceOutput
    BY <1>2, <2>1, <2>3, <2>4, <2>5 DEF BeginRow, OutInv
  <2>6. CASE ~IsDeviceOutput
    <3>1. SliceIndex \notin 0..slice.cond - 1
      BY <1>0, <2>6 DEF IsDeviceOutput
    <3>2. Driven(SliceIndex) = {}
      BY <1>0, <3>1, DrivenIs
    <3>3. Driven(SliceIndex)' = Driven(SliceIndex)
      BY <2>1, <2>4 DEF Driven, Channel
    <3>4. cb' = "sample"
      BY <1>2, <2>6 DEF BeginRow
    <3> QED
      BY <2>1, <2>3, <3>2, <3>3, <3>4 DEF OutInv
  <2> QED
    BY <2>5, <2>6
<1>3. CASE Drive
  <2>1. clean /\ cb = "settle" /\ cb' = "sample" /\ slice' = slice /\ rowIndex' = rowIndex
        /\ pins' = pins
    BY <1>3 DEF Drive, histVars
  <2>2. IsDeviceOutput /\ index = SliceIndex /\ out = {}
    BY <2>1 DEF OutInv
  <2>3. SliceIndex \in 0..slice.cond - 1
    BY <1>0, <2>2 DEF IsDeviceOutput
  <2>4. out' = {Channel(SliceIndex)}
    BY <1>3, <1>q, <2>1, <2>2, <2>3 DEF Drive
  <2>5. Driven(SliceIndex) = {Channel(SliceIndex)}
    BY <1>0, <2>3, DrivenIs
  <2>6. Driven(SliceIndex)' = Driven(SliceIndex)
    BY <2>1 DEF Driven, Channel, SliceIndex
  <2> QED
    BY <2>1, <2>4, <2>5, <2>6 DEF OutInv
<1>4. CASE Sample
  <2>1. clean /\ cb = "sample" /\ cb' = "idle" /\ slice' = slice /\ rowIndex' = rowIndex + 1
        /\ pins' = pins /\ out' = out
    BY <1>4 DEF Sample, histVars
  <2>2. timer'
    BY <1>4, <2>1 DEF Sample, CountInv, Undisturbed
  <2>3. (SliceIndex - 1)' = SliceIndex
    BY <1>0, <2>1 DEF SliceIndex
  <2>4. Driven(SliceIndex - 1)' = Driven(SliceIndex)
    BY <2>1, <2>3 DEF Driven, Channel
  <2>5. out = Driven(SliceIndex)
    BY <2>1 DEF OutInv
  <2> QED
    BY <2>1, <2>2, <2>4, <2>5 DEF OutInv
<1>5. CASE Sync
  <2>1. CASE slice.total > 0
    <3>1. /\ cb' = "idle" /\ timer' /\ out' = {} /\ rowIndex' = 0 /\ slice' = slice
          /\ pins' = pins
      BY <1>5, <2>1 DEF Sync, Command, cbVars
    <3>2. (SliceIndex - 1)' \in Int /\ (SliceIndex - 1)' \notin 0..slice'.cond - 1
      BY <1>0, <3>1 DEF SliceIndex
    <3>3. Driven(SliceIndex - 1)' = {}
      BY <3>2 DEF Driven
    <3> QED
      BY <3>1, <3>3 DEF OutInv
  <2>2. CASE ~(slice.total > 0)
    BY <1>5, <2>2 DEF Sync, cbVars, OutInv, IsDeviceOutput, SliceIndex, Driven, Channel
  <2> QED
    BY <2>1, <2>2
<1>6. CASE Configure
  BY <1>6 DEF Configure
<1>7. CASE Resize \/ AddPins
  BY <1>7, <1>p DEF Resize, AddPins, histVars
<1>8. CASE BeginRead \/ ReadRow \/ EndRead \/ UNCHANGED vars
  <2>1. /\ clean' = clean /\ slice' = slice /\ rowIndex' = rowIndex /\ out' = out
        /\ timer' = timer /\ cb' = cb /\ index' = index /\ pins' = pins
    BY <1>8 DEF BeginRead, ReadRow, EndRead, vars, cbVars, histVars
  <2> QED
    BY <2>1 DEF OutInv, IsDeviceOutput, SliceIndex, Driven, Channel
<1> QED
  BY <1>1, <1>2, <1>3, <1>4, <1>5, <1>6, <1>7, <1>8 DEF Next, Callback, Handler

-----------------------------------------------------------------------------
(* Readings.                                                               *)

LEMMA ReadStep ==
  ASSUME TypeOK, PendInv, ReadInv, [Next]_vars
  PROVE  ReadInv'
<1> USE DEF ReadInv, Scanning
<1>1. CASE Callback
  BY <1>1 DEF Callback, Finish, BeginRow, Drive, Sample, histVars
<1>2. CASE Sync \/ Configure \/ Resize \/ AddPins \/ EndRead
  BY <1>2 DEF Sync, Configure, Resize, AddPins, EndRead, Handle
<1>3. CASE BeginRead
  <2>1. /\ timer' = timer /\ cb' = cb /\ matrix' = matrix /\ copy' = <<>>
        /\ calm' = ~Scanning
    BY <1>3 DEF BeginRead, cbVars
  <2>2. Len(copy') <= Len(matrix') /\ DOMAIN copy' = {}
    BY <2>1 DEF TypeOK
  <2> QED
    BY <2>1, <2>2
<1>4. CASE ReadRow
  <2> SUFFICES ASSUME calm' PROVE ReadInv'
    BY DEF ReadInv
  <2>1. /\ mp = "read" /\ calm /\ timer' = timer /\ cb' = cb /\ matrix' = matrix
        /\ copy' = Append(copy, matrix[Len(copy) + 1]) /\ Len(copy) < Len(matrix)
    BY <1>4 DEF ReadRow, cbVars, histVars, Rows
  <2>2. copy \in Seq(Nat) /\ matrix \in Seq(Nat)
    BY DEF TypeOK
  <2>3. \A r \in DOMAIN copy' : copy'[r] = matrix[r]
    BY <2>1, <2>2
  <2> QED
    BY <2>1, <2>2, <2>3
<1>5. CASE UNCHANGED vars
  BY <1>5 DEF vars, cbVars, histVars
<1> QED
  BY <1>1, <1>2, <1>3, <1>4, <1>5 DEF Next, Handler

-----------------------------------------------------------------------------

LEMMA HarnessInvariant == Spec => []HarnessInv
<1>1. Init => HarnessInv
  BY InitHolds
<1>2. HarnessInv /\ [Next]_vars => HarnessInv'
  <2> SUFFICES ASSUME HarnessInv, [Next]_vars PROVE HarnessInv'
    OBVIOUS
  <2> USE DEF HarnessInv
  <2>1. TypeOK'
    BY TypingStep
  <2>2. PendInv' /\ TimerInv' /\ MatrixInv' /\ PinInv'
    BY TimerStep, MatrixStep, PinStep
  <2>3. CountInv' /\ RowInv' /\ OutInv' /\ ReadInv' /\ StrayInv'
    BY CountStep, RowStep, OutStep, ReadStep, StrayStep
  <2> QED
    BY <2>1, <2>2, <2>3
<1> QED
  BY <1>1, <1>2, PTL DEF Spec

(* The slave's variables keep their types (Harness).                       *)
THEOREM HarnessTyping == Spec => []TypeOK
<1>1. HarnessInv => TypeOK
  BY DEF HarnessInv
<1> QED
  BY <1>1, HarnessInvariant, PTL

(* Rows beyond the matrix are written only after a message hit a scan      *)
(* (setValue checks nothing).                                              *)
THEOREM RowsStayInBounds == Spec => []RowsInBounds
<1>1. HarnessInv => RowsInBounds
  BY DEF HarnessInv, StrayInv, RowsInBounds
<1> QED
  BY <1>1, HarnessInvariant, PTL

(* A scan that began from rest and that nothing hit samples every row of   *)
(* its session and ends at rest (myTimerCallback, reload).                 *)
THEOREM ScansAreComplete == Spec => []ScanComplete
<1>1. HarnessInv => ScanComplete
  <2> SUFFICES ASSUME HarnessInv, clean, ~Scanning PROVE ScanComplete
    BY DEF ScanComplete
  <2>1. rowIndex = 0 /\ (slice.start + slice.cond = slice.total => out = {})
    BY DEF HarnessInv, CountInv, Undisturbed, OutInv
  <2>2. mp # "resize" /\ \A r \in 1..slice.total : matrix[r] = scan
    BY DEF HarnessInv, RowInv
  <2>3. matrix \in Seq(Nat) /\ Len(matrix) = slice.total
    BY <2>2 DEF HarnessInv, MatrixInv, TypeOK
  <2>4. matrix = [r \in 1..slice.total |-> scan]
    BY <2>2, <2>3
  <2> QED
    BY <2>1, <2>4 DEF ScanComplete
<1> QED
  BY <1>1, HarnessInvariant, PTL

(* While such a scan samples a row the slave drives the line of that row,  *)
(* if it is its own, and nothing else (run, isDeviceOutput).               *)
THEOREM RowsAreDriven == Spec => []SampledRowIsDriven
<1>1. HarnessInv => SampledRowIsDriven
  <2> SUFFICES ASSUME HarnessInv, clean, cb = "sample", slice.cond <= first
               PROVE  out = {rowIndex - slice.start} \cap (0..slice.cond - 1)
    BY DEF SampledRowIsDriven
  <2>1. out = Driven(SliceIndex) /\ TypeOK /\ PinInv
    BY DEF HarnessInv, OutInv
  <2>2. SliceIndex \in Int /\ SliceIndex = rowIndex - slice.start /\ slice.cond \in Nat
    BY <2>1, SliceTyped DEF TypeOK, SliceIndex
  <2>3. CASE SliceIndex \in 0..slice.cond - 1
    <3>1. slice.cond <= Len(pins)
      BY <2>1 DEF PinInv, HarnessInv, RowInv
    <3>2. SliceIndex + 1 \in 1..first /\ slice.cond > 0
      <4>1. first \in Nat
        BY <2>1 DEF TypeOK
      <4> QED
        BY <4>1, <2>2, <2>3
    <3>3. pins # <<>>
      BY <3>1, <3>2, <2>2
    <3>4. Channel(SliceIndex) = SliceIndex
      <4>1. pins[SliceIndex + 1] = (SliceIndex + 1) - 1
        BY <2>1, <3>2, <3>3 DEF PinInv
      <4> QED
        BY <2>2, <4>1 DEF Channel
    <3>5. out = {SliceIndex}
      BY <2>1, <2>2, <2>3, <3>4, DrivenIs
    <3> QED
      BY <2>2, <2>3, <3>5
  <2>4. CASE SliceIndex \notin 0..slice.cond - 1
    <3>1. out = {}
      BY <2>1, <2>2, <2>4, DrivenIs
    <3> QED
      BY <2>2, <2>4, <3>1
  <2> QED
    BY <2>3, <2>4
<1> QED
  BY <1>1, HarnessInvariant, PTL

(* A reading taken with the timer off, after such a scan, is that scan     *)
(* (flatten).                                                              *)
THEOREM ReadingsAreCurrent == Spec => []ReadingIsLastScan
<1>1. HarnessInv => ReadingIsLastScan
  <2> SUFFICES ASSUME HarnessInv, mp = "read", calm, clean
               PROVE  \A r \in DOMAIN copy : copy[r] = scan
    BY DEF ReadingIsLastScan
  <2>1. /\ ~Scanning /\ Len(copy) <= Len(matrix)
        /\ \A r \in DOMAIN copy : copy[r] = matrix[r]
    BY DEF HarnessInv, ReadInv
  <2>2. Len(matrix) = slice.total /\ copy \in Seq(Nat) /\ matrix \in Seq(Nat)
    BY DEF HarnessInv, MatrixInv, TypeOK
  <2>3. \A r \in 1..slice.total : matrix[r] = scan
    BY <2>1 DEF HarnessInv, RowInv
  <2> TAKE r \in DOMAIN copy
  <2>4. DOMAIN copy = 1..Len(copy) /\ Len(copy) \in Nat /\ Len(matrix) \in Nat
    BY <2>2
  <2>5. r \in 1..slice.total
    BY <2>1, <2>2, <2>4
  <2> QED
    BY <2>1, <2>3, <2>5
<1> QED
  BY <1>1, HarnessInvariant, PTL
=============================================================================
