----------------------------- MODULE CycleProofs -----------------------------
(***************************************************************************)
(* The measurement cycle, for any slaves, lines, lists and times.          *)
(***************************************************************************)
EXTENDS Cycle, TLAPS, WellFoundedInduction

(***************************************************************************)
(* The number of lines of the first devices of a list.                     *)
(***************************************************************************)

(* f[i] is the number of lines of the first i devices, up to n.            *)
IsSum(f, list, n) ==
    f = [i \in 0..n |-> IF i = 0 THEN 0 ELSE f[i - 1] + Cond[list[i]]]

(* The same as a property of the values of f.                              *)
SumsTo(f, list, n) ==
    /\ f \in [0..n -> Nat]
    /\ f[0] = 0
    /\ \A i \in 1..n : f[i] = f[i - 1] + Cond[list[i]]

(* A non-empty set of natural numbers has a least element: induction in a  *)
(* form without an operator parameter.                                     *)
LEMMA LeastNumber ==
    ASSUME NEW T, T \subseteq Nat, T # {}
    PROVE  \E m \in T : \A n \in T : ~(n < m)
<1> DEFINE R == {p \in Nat \X Nat : p[1] < p[2]}
<1>1. IsWellFoundedOn(R, Nat)
  BY NatLessThanWellFounded, Zenon DEF OpToRel
<1>2. PICK m \in T : \A n \in T : ~(<<n, m>> \in R)
  <2> HIDE DEF R
  <2> QED BY <1>1, WFMin, Zenon
<1>3. ASSUME NEW n \in T PROVE ~(n < m)
  <2>1. ~(<<n, m>> \in R)
    BY <1>2
  <2> QED BY <2>1
<1> QED BY <1>3

LEMMA CondNat == \A s \in Slave : Cond[s] \in Nat /\ Cond[s] > 0
BY CycleAssumption

LEMMA Times ==
    /\ INTERVAL \in Nat /\ INTERVAL > 0 /\ REDUNDANCY \in Nat
    /\ OTHER_PERIOD \in Nat /\ OTHER_PERIOD > 0
    /\ SPREAD \in Nat /\ TX_TIMEOUT \in Nat /\ MaxCommands \in Nat
    /\ INTERVAL + SPREAD <= REDUNDANCY
BY CycleAssumption

LEMMA ListsAreSequences == Lists \cup {<<>>} \subseteq Seq(Slave)
<1>1. Lists \subseteq Seq(Slave)
  BY CycleAssumption
<1>2. <<>> \in Seq(Slave)
  OBVIOUS
<1> QED BY <1>1, <1>2

(* The recursive definition of the sum has a solution.                     *)
LEMMA SumExists ==
    ASSUME NEW list \in Seq(Slave), NEW n \in 0..Len(list)
    PROVE  \E f : SumsTo(f, list, n)
<1> DEFINE T == {k \in 0..Len(list) : ~ \E f : SumsTo(f, list, k)}
<1>0. Len(list) \in Nat
  OBVIOUS
<1> SUFFICES ASSUME T # {} PROVE FALSE
  OBVIOUS
<1>1. T \subseteq Nat
  BY <1>0
<1>2. PICK m \in T : \A k \in T : ~(k < m)
  <2> HIDE DEF T
  <2> QED BY <1>1, LeastNumber
<1>3. m \in 0..Len(list) /\ ~ \E f : SumsTo(f, list, m)
  BY <1>2
<1>4. m # 0
  <2> DEFINE z == [i \in 0..0 |-> 0]
  <2>1. SumsTo(z, list, 0)
    BY DEF SumsTo
  <2> HIDE DEF z
  <2> QED BY <1>3, <2>1
<1>5. m - 1 \in 0..Len(list) /\ m - 1 < m
  BY <1>0, <1>3, <1>4
<1>6. PICK f : SumsTo(f, list, m - 1)
  <2>1. m - 1 \notin T
    BY <1>2, <1>5
  <2> QED BY <1>5, <2>1
<1>7. Cond[list[m]] \in Nat
  <2>1. list[m] \in Slave
    BY <1>0, <1>3, <1>4
  <2> QED BY <2>1, CondNat
<1> DEFINE g == [i \in 0..m |-> IF i = m THEN f[m - 1] + Cond[list[m]] ELSE f[i]]
<1>8. SumsTo(g, list, m)
  <2>1. f \in [0..(m - 1) -> Nat] /\ f[0] = 0
        /\ \A i \in 1..(m - 1) : f[i] = f[i - 1] + Cond[list[i]]
    BY <1>6 DEF SumsTo
  <2>2. g \in [0..m -> Nat] /\ g[0] = 0
    BY <2>1, <1>3, <1>4, <1>7, <1>0
  <2>3. ASSUME NEW i \in 1..m PROVE g[i] = g[i - 1] + Cond[list[i]]
    <3>1. i \in 0..m /\ i - 1 \in 0..m /\ i - 1 # m
      BY <1>0, <1>3
    <3>2. g[i - 1] = f[i - 1]
      BY <3>1
    <3>3. CASE i = m
      BY <3>1, <3>2, <3>3
    <3>4. CASE i # m
      <4>1. i \in 1..(m - 1) /\ g[i] = f[i]
        BY <3>1, <3>4, <1>0, <1>3
      <4> QED BY <4>1, <3>2, <2>1
    <3> QED BY <3>3, <3>4
  <2> HIDE DEF g
  <2> QED BY <2>2, <2>3 DEF SumsTo
<1> HIDE DEF g
<1> QED BY <1>3, <1>8

(* LinesOf is the value of any solution.                                   *)
LEMMA LinesAreSum ==
    ASSUME NEW list \in Seq(Slave), NEW n \in 0..Len(list),
           NEW m \in 0..Len(list), n <= m, NEW f, SumsTo(f, list, m)
    PROVE  LinesOf(list, n) = f[n]
<1>0. Len(list) \in Nat
  OBVIOUS
<1>1. PICK g : SumsTo(g, list, n)
  BY SumExists
<1>2. IsSum(g, list, n)
  BY <1>0, <1>1 DEF SumsTo, IsSum
<1> DEFINE h == CHOOSE h : IsSum(h, list, n)
<1>3. IsSum(h, list, n)
  BY <1>2, Zenon
<1>4. LinesOf(list, n) = h[n]
  BY Zenon DEF LinesOf, IsSum
<1> HIDE DEF h
<1>5. ASSUME NEW i \in 0..n
      PROVE  h[i] = IF i = 0 THEN 0 ELSE h[i - 1] + Cond[list[i]]
  <2> DEFINE v == [j \in 0..n |-> IF j = 0 THEN 0 ELSE h[j - 1] + Cond[list[j]]]
  <2>1. h = v
    BY <1>3 DEF IsSum
  <2>2. v[i] = IF i = 0 THEN 0 ELSE h[i - 1] + Cond[list[i]]
    OBVIOUS
  <2> HIDE DEF v
  <2> QED BY <2>1, <2>2, Zenon
<1> DEFINE T == {i \in 0..n : h[i] # f[i]}
<1>6. T = {}
  <2> SUFFICES ASSUME T # {} PROVE FALSE
    OBVIOUS
  <2>1. T \subseteq Nat
    BY <1>0
  <2>2. PICK i \in T : \A j \in T : ~(j < i)
    <3> HIDE DEF T
    <3> QED BY <2>1, LeastNumber
  <2>3. i \in 0..n /\ h[i] # f[i]
    BY <2>2
  <2>4. i # 0
    <3>1. 0 \in 0..n
      BY <1>0
    <3>2. h[0] = 0
      BY <3>1, <1>5
    <3> QED BY <2>3, <3>2 DEF SumsTo
  <2>5. i - 1 \in 0..n /\ i - 1 \notin T
    BY <2>2, <2>3, <2>4, <1>0
  <2>6. h[i - 1] = f[i - 1]
    BY <2>5
  <2>7. h[i] = h[i - 1] + Cond[list[i]]
    BY <1>5, <2>3, <2>4
  <2>8. f[i] = f[i - 1] + Cond[list[i]]
    <3>1. i \in 1..m
      BY <2>3, <2>4, <1>0
    <3> QED BY <3>1 DEF SumsTo
  <2> QED BY <2>3, <2>6, <2>7, <2>8
<1>7. n \in 0..n
  BY <1>0
<1> QED BY <1>4, <1>6, <1>7

(* Sums are numbers; the first is 0, and each device adds its lines.       *)
LEMMA LinesOfList ==
    ASSUME NEW list \in Seq(Slave)
    PROVE  /\ \A n \in 0..Len(list) : LinesOf(list, n) \in Nat
           /\ LinesOf(list, 0) = 0
           /\ \A n \in 1..Len(list) :
                 LinesOf(list, n) = LinesOf(list, n - 1) + Cond[list[n]]
<1>0. Len(list) \in Nat /\ Len(list) \in 0..Len(list)
  OBVIOUS
<1>1. PICK f : SumsTo(f, list, Len(list))
  BY <1>0, SumExists
<1>2. \A n \in 0..Len(list) : LinesOf(list, n) = f[n]
  BY <1>0, <1>1, LinesAreSum
<1>3. f \in [0..Len(list) -> Nat] /\ f[0] = 0
      /\ \A n \in 1..Len(list) : f[n] = f[n - 1] + Cond[list[n]]
  BY <1>1 DEF SumsTo
<1>4. \A n \in 0..Len(list) : LinesOf(list, n) \in Nat
  BY <1>2, <1>3
<1>5. LinesOf(list, 0) = 0
  BY <1>0, <1>2, <1>3
<1>6. ASSUME NEW n \in 1..Len(list)
      PROVE  LinesOf(list, n) = LinesOf(list, n - 1) + Cond[list[n]]
  <2>1. n \in 0..Len(list) /\ n - 1 \in 0..Len(list)
    BY <1>0
  <2>2. LinesOf(list, n) = f[n] /\ LinesOf(list, n - 1) = f[n - 1]
    BY <2>1, <1>2
  <2> QED BY <2>2, <1>3
<1> QED BY <1>4, <1>5, <1>6

(***************************************************************************)
(* Types.                                                                  *)
(***************************************************************************)

LEMMA Lengths ==
    ASSUME NEW t \in Nat
    PROVE  /\ INTERVAL * t \in Nat
           /\ (t + 1) * INTERVAL = INTERVAL * t + INTERVAL
           /\ (t + 1) * INTERVAL \in Nat
           /\ (t + 1) * INTERVAL > 0
<1>1. INTERVAL * t \in Nat
  BY Times
<1>2. (t + 1) * INTERVAL = INTERVAL * t + INTERVAL
  BY Times
<1> QED BY <1>1, <1>2, Times

LEMMA DurationPositive ==
    ASSUME slice \in [Slave -> [start : Nat, total : Nat]], NEW s \in Slave
    PROVE  Duration(s) \in Nat /\ Duration(s) > 0
<1>1. slice[s].total \in Nat
  OBVIOUS
<1>2. (slice[s].total + 1) * INTERVAL \in Nat /\ (slice[s].total + 1) * INTERVAL > 0
  BY <1>1, Lengths
<1> QED BY <1>2 DEF Duration

LEMMA SliceTyped ==
    ASSUME NEW list \in Seq(Slave), NEW i \in DOMAIN list
    PROVE  SliceOf(list, i) \in [start : Nat, total : Nat]
<1>1. i - 1 \in 0..Len(list) /\ Len(list) \in 0..Len(list)
  OBVIOUS
<1> QED BY <1>1, LinesOfList DEF SliceOf

LEMMA PeriodTyped ==
    ASSUME slave_dev \in Lists \cup {<<>>}
    PROVE  Period \in Nat
<1>1. slave_dev \in Seq(Slave)
  BY ListsAreSequences
<1>2. Len(slave_dev) \in 0..Len(slave_dev)
  BY <1>1
<1>3. Total \in Nat
  BY <1>1, <1>2, LinesOfList DEF Total
<1> QED BY <1>3, Lengths, Times DEF Period

(* The two halves of TypeOK.                                               *)
MasterTyped ==
    /\ commands \in 0..MaxCommands /\ running \in BOOLEAN /\ mode \in Mode
    /\ slave_dev \in Lists \cup {<<>>}
    /\ period \in Nat /\ timer \in 0..period
    /\ sync_sem \in BOOLEAN /\ wait_for_data \in BOOLEAN
    /\ sm \in {"poll", "token", "sync_tx", "read"}
    /\ request \in BOOLEAN /\ aired \in BOOLEAN /\ tx_done_sem \in BOOLEAN
    /\ waited \in 0..TX_TIMEOUT
    /\ overrun \in BOOLEAN /\ opening \in BOOLEAN

SlavesTyped ==
    /\ slice \in [Slave -> [start : Nat, total : Nat]]
    /\ clock \in [Slave -> {Rest} \cup Nat]
    /\ \A s \in Slave : clock[s] < Duration(s)
    /\ heard \in [Slave -> {Rest} \cup 0..SPREAD]
    /\ upset \in [Slave -> BOOLEAN]

LEMMA CommandTyped ==
    ASSUME MasterTyped, Command
    PROVE  commands' \in 0..MaxCommands
BY Times DEF MasterTyped, Command

LEMMA DurationKept ==
    ASSUME slice' = slice
    PROVE  \A s \in Slave : Duration(s)' = Duration(s)
BY DEF Duration

LEMMA SlavesKept ==
    ASSUME SlavesTyped, UNCHANGED slaveVars
    PROVE  SlavesTyped'
BY DurationKept DEF SlavesTyped, slaveVars

LEMMA TypeInit == Init => TypeOK
<1> SUFFICES ASSUME Init PROVE MasterTyped /\ SlavesTyped
  BY DEF TypeOK, MasterTyped, SlavesTyped
<1> USE DEF Init
<1>1. slice \in [Slave -> [start : Nat, total : Nat]]
  BY DEF NoSlice
<1>2. \A s \in Slave : Duration(s) \in Nat /\ Duration(s) > 0
  BY <1>1, DurationPositive
<1>3. \A s \in Slave : clock[s] < Duration(s)
  BY <1>2 DEF Rest
<1>4. SlavesTyped
  BY <1>1, <1>3 DEF SlavesTyped
<1>5. commands \in 0..MaxCommands /\ timer \in 0..period /\ waited \in 0..TX_TIMEOUT
  BY Times
<1>6. slave_dev \in Lists \cup {<<>>} /\ period \in Nat /\ mode \in Mode
  BY DEF Mode
<1>7. MasterTyped
  BY <1>5, <1>6 DEF MasterTyped
<1> QED BY <1>4, <1>7

LEMMA TypeStep == TypeOK /\ [Next]_vars => TypeOK'
<1> SUFFICES ASSUME MasterTyped, SlavesTyped, [Next]_vars
             PROVE  MasterTyped' /\ SlavesTyped'
  BY DEF TypeOK, MasterTyped, SlavesTyped
<1> USE DEF masterVars, radioVars
<1>0. \A s \in Slave : Duration(s) \in Nat /\ Duration(s) > 0
  BY DurationPositive DEF SlavesTyped
<1>1. CASE Configure
  <2> USE <1>1 DEF Configure, Command
  <2>1. slave_dev' \in Lists /\ slave_dev' \in Seq(Slave)
    BY ListsAreSequences
  <2>2. PICK done \in SUBSET Listed' :
          /\ slice' = [s \in Slave |->
                         IF s \in done
                         THEN SliceOf(slave_dev', CHOOSE i \in DOMAIN slave_dev' :
                                                      slave_dev'[i] = s)
                         ELSE slice[s]]
          /\ clock' = [s \in Slave |-> IF s \in done THEN Rest ELSE clock[s]]
          /\ upset' = [s \in Slave |-> upset[s] \/ (s \in done /\ Underway(s))]
    OBVIOUS
  <2>3. ASSUME NEW s \in Slave PROVE slice'[s] \in [start : Nat, total : Nat]
    <3>1. CASE s \in done
      <4> DEFINE i == CHOOSE i \in DOMAIN slave_dev' : slave_dev'[i] = s
      <4>1. \E j \in DOMAIN slave_dev' : slave_dev'[j] = s
        BY <3>1 DEF Listed
      <4>2. i \in DOMAIN slave_dev'
        BY <4>1
      <4>3. slice'[s] = SliceOf(slave_dev', i)
        BY <2>2, <3>1
      <4> HIDE DEF i
      <4> QED BY <2>1, <4>2, <4>3, SliceTyped
    <3>2. CASE s \notin done
      BY <2>2, <3>2 DEF SlavesTyped
    <3> QED BY <3>1, <3>2
  <2>4. slice' \in [Slave -> [start : Nat, total : Nat]]
    <3>1. slice' = [s \in Slave |-> slice'[s]]
      BY <2>2
    <3> QED BY <2>3, <3>1
  <2>5. \A s \in Slave : Duration(s)' \in Nat /\ Duration(s)' > 0
    <3>1. \A s \in Slave : slice'[s].total \in Nat
      BY <2>4
    <3>2. \A s \in Slave : /\ (slice'[s].total + 1) * INTERVAL \in Nat
                           /\ (slice'[s].total + 1) * INTERVAL > 0
      BY <3>1, Lengths
    <3> QED BY <3>2 DEF Duration
  <2>6. clock' \in [Slave -> {Rest} \cup Nat]
    BY <2>2 DEF SlavesTyped
  <2>7. ASSUME NEW s \in Slave PROVE clock'[s] < Duration(s)'
    <3>1. CASE s \in done
      BY <2>2, <2>5, <3>1 DEF Rest
    <3>2. CASE s \notin done
      BY <2>2, <3>2 DEF Duration, SlavesTyped
    <3> QED BY <3>1, <3>2
  <2>8. upset' \in [Slave -> BOOLEAN]
    BY <2>2, Zenon DEF SlavesTyped, Underway
  <2>9. SlavesTyped'
    BY <2>4, <2>6, <2>7, <2>8 DEF SlavesTyped
  <2>10. MasterTyped'
    BY <2>1, CommandTyped DEF MasterTyped
  <2> QED BY <2>9, <2>10
<1>2. CASE SetMode
  <2>1. Command
    BY <1>2 DEF SetMode
  <2> QED BY <1>2, <2>1, CommandTyped, SlavesKept DEF SetMode, MasterTyped
<1>3. CASE Start
  <2>1. Command
    BY <1>3 DEF Start
  <2>2. Period \in Nat
    BY PeriodTyped DEF MasterTyped
  <2>3. timer' \in 0..period' /\ period' \in Nat
    BY <1>3, <2>2 DEF Start
  <2> QED BY <1>3, <2>1, <2>3, CommandTyped, SlavesKept DEF Start, MasterTyped
<1>4. CASE Stop
  <2>1. Command
    BY <1>4 DEF Stop
  <2>2. timer' \in 0..period'
    BY <1>4 DEF Stop, MasterTyped
  <2> QED BY <1>4, <2>1, <2>2, CommandTyped, SlavesKept DEF Stop, MasterTyped
<1>5. CASE TakeToken
  BY <1>5, SlavesKept DEF TakeToken, MasterTyped
<1>6. CASE BeginRead
  BY <1>6, SlavesKept DEF BeginRead, MasterTyped
<1>7. CASE EndRead
  <2>1. timer' \in 0..period'
    BY <1>7 DEF EndRead, MasterTyped
  <2> QED BY <1>7, <2>1, SlavesKept DEF EndRead, MasterTyped
<1>8. CASE BeginSync
  BY <1>8, SlavesKept DEF BeginSync, MasterTyped
<1>9. CASE Sent
  <2>1. timer' \in 0..period' /\ waited' \in 0..TX_TIMEOUT
    BY <1>9, Times DEF Sent, MasterTyped
  <2> QED BY <1>9, <2>1, SlavesKept DEF Sent, MasterTyped
<1>10. CASE SendTimeout
  <2>1. timer' \in 0..period' /\ waited' \in 0..TX_TIMEOUT
    BY <1>10, Times DEF SendTimeout, MasterTyped
  <2> QED BY <1>10, <2>1, SlavesKept DEF SendTimeout, MasterTyped
<1>11. CASE Air
  <2>1. heard' \in [Slave -> {Rest} \cup 0..SPREAD]
    BY <1>11, Times DEF Air, SlavesTyped
  <2>2. SlavesTyped'
    BY <1>11, <2>1, DurationKept DEF Air, SlavesTyped
  <2>3. MasterTyped'
    BY <1>11 DEF Air, MasterTyped
  <2> QED BY <2>2, <2>3
<1>12. CASE AirDone
  BY <1>12, SlavesKept DEF AirDone, MasterTyped
<1>13. ASSUME NEW s \in Slave, StartScan(s) PROVE MasterTyped' /\ SlavesTyped'
  <2>1. heard' \in [Slave -> {Rest} \cup 0..SPREAD]
    BY <1>13 DEF StartScan, SlavesTyped
  <2>2. clock' \in [Slave -> {Rest} \cup Nat]
    BY <1>13 DEF StartScan, SlavesTyped
  <2>3. ASSUME NEW r \in Slave PROVE clock'[r] < Duration(r)'
    BY <1>0, <1>13, DurationKept DEF StartScan, SlavesTyped
  <2>4. upset' \in [Slave -> BOOLEAN]
    BY <1>13, Zenon DEF StartScan, SlavesTyped, Underway
  <2>5. SlavesTyped'
    BY <1>13, <2>1, <2>2, <2>3, <2>4 DEF StartScan, SlavesTyped
  <2>6. MasterTyped'
    BY <1>13 DEF StartScan, MasterTyped
  <2> QED BY <2>5, <2>6
<1>14. CASE Tick
  <2> USE <1>14 DEF Tick
  <2>1. clock' \in [Slave -> {Rest} \cup Nat]
    BY DEF Scanning, Rest, SlavesTyped
  <2>2. ASSUME NEW s \in Slave PROVE clock'[s] < Duration(s)'
    BY <1>0, DurationKept DEF Scanning, Ends, Rest, SlavesTyped
  <2>3. heard' \in [Slave -> {Rest} \cup 0..SPREAD]
    BY Times DEF Rest, SlavesTyped
  <2>4. upset' \in [Slave -> BOOLEAN]
    BY Zenon DEF SlavesTyped
  <2>5. SlavesTyped'
    BY <2>1, <2>2, <2>3, <2>4 DEF SlavesTyped
  <2>6. timer' \in 0..period' /\ waited' \in 0..TX_TIMEOUT
    BY Times DEF Expires, MasterTyped
  <2>7. sync_sem' \in BOOLEAN /\ overrun' \in BOOLEAN
    BY Zenon
  <2>8. MasterTyped'
    BY <2>6, <2>7 DEF MasterTyped
  <2> QED BY <2>5, <2>8
<1>15. CASE UNCHANGED vars
  BY <1>15, SlavesKept DEF vars, MasterTyped
<1> QED
  BY <1>1, <1>2, <1>3, <1>4, <1>5, <1>6, <1>7, <1>8, <1>9, <1>10, <1>11, <1>12, <1>13,
     <1>14, <1>15 DEF Next, Followed, Overrun, Manager

(* Every variable keeps its type, and a scan is over when its time is.     *)
THEOREM CycleTyping == Spec => []TypeOK
<1>1. Init => TypeOK
  BY TypeInit
<1>2. TypeOK /\ [Next]_vars => TypeOK'
  BY TypeStep
<1> QED BY <1>1, <1>2, PTL DEF Spec

(***************************************************************************)
(* Where the slaves are in each phase of the cycle.  Until the first       *)
(* overrun, a slave whose scan fits into the period is                     *)
(*   - through before the timer expires, while SlaveManager waits for it;  *)
(*   - at rest from then on, until the next sync frame is sent;            *)
(*   - somewhere in that frame's scan, until the timer starts again.       *)
(***************************************************************************)

Fits(s) == Duration(s) + SPREAD <= period

Quiet(s) == heard[s] = Rest /\ clock[s] = Rest

AllQuiet == \A s \in Slave : Fits(s) => Quiet(s)

(* How long a slave is busy yet, at most.                                  *)
Remaining(s) ==
    IF heard[s] # Rest THEN SPREAD - heard[s] + Duration(s)
    ELSE IF clock[s] # Rest THEN Duration(s) - clock[s] ELSE 0

AllInTime == \A s \in Slave : Fits(s) => Remaining(s) <= timer

(* The sync frame is in one place at a time, and in none between two.      *)
RadioInv ==
    /\ sm # "sync_tx" => ~request /\ ~aired /\ ~tx_done_sem
    /\ request => ~aired /\ ~tx_done_sem
    /\ aired => ~tx_done_sem

(* The token and the flag in the phases of SlaveManager.                   *)
PhaseInv ==
    /\ sm # "poll" => running /\ ~sync_sem
    /\ sm \in {"sync_tx", "read"} => wait_for_data
    /\ running /\ sm = "poll" /\ ~wait_for_data => sync_sem /\ opening
    /\ running => period = Period

(* The slaves in the phases of SlaveManager.                               *)
BusyInv ==
    /\ running /\ sm = "poll" /\ wait_for_data /\ ~sync_sem => AllInTime
    /\ running /\ sm = "poll" /\ wait_for_data /\ sync_sem => AllQuiet
    /\ sm = "token" /\ wait_for_data => AllQuiet
    /\ sm = "read" => AllQuiet /\ timer = 0
    /\ sm = "token" /\ ~wait_for_data /\ ~opening => AllQuiet
    /\ sm = "sync_tx" /\ request /\ ~opening => AllQuiet

(* A slave that has heard a sync and not yet acted on it is at rest.       *)
HitInv ==
    ~opening => \A s \in Slave : Fits(s) /\ heard[s] # Rest => clock[s] = Rest

CycleInv == ~overrun => RadioInv /\ PhaseInv /\ BusyInv /\ HitInv

LEMMA CycleInit == Init => CycleInv
BY DEF Init, CycleInv, RadioInv, PhaseInv, BusyInv, HitInv

(* What the slaves have of an action that does not concern them.           *)
LEMMA QuietKept ==
    ASSUME UNCHANGED <<slice, clock, heard, period>>
    PROVE  /\ \A s \in Slave : (Fits(s) <=> Fits(s)') /\ (Quiet(s) <=> Quiet(s)')
                                /\ Remaining(s)' = Remaining(s)
           /\ AllQuiet => AllQuiet'
           /\ HitInv /\ opening' = opening => HitInv'
<1>1. \A s \in Slave : Duration(s)' = Duration(s)
  BY DurationKept
<1>2. \A s \in Slave : (Fits(s) <=> Fits(s)') /\ (Quiet(s) <=> Quiet(s)')
                       /\ Remaining(s)' = Remaining(s)
  BY <1>1 DEF Fits, Quiet, Remaining
<1>3. AllQuiet => AllQuiet'
  BY <1>2 DEF AllQuiet
<1>4. HitInv /\ opening' = opening => HitInv'
  BY <1>2 DEF HitInv
<1> QED BY <1>2, <1>3, <1>4

(* A slave is busy no longer than a period, if its scan fits.              *)
LEMMA RemainingBounds ==
    ASSUME TypeOK, NEW s \in Slave
    PROVE  /\ Remaining(s) \in Int
           /\ Fits(s) => Remaining(s) <= period
           /\ Remaining(s) <= 0 => Quiet(s)
           /\ Quiet(s) => Remaining(s) = 0
<1>1. Duration(s) \in Nat /\ Duration(s) > 0
  BY DurationPositive DEF TypeOK
<1>2. /\ clock[s] \in {Rest} \cup Nat /\ clock[s] < Duration(s)
      /\ heard[s] \in {Rest} \cup 0..SPREAD /\ period \in Nat
  BY DEF TypeOK
<1> QED BY <1>1, <1>2, Times DEF Remaining, Fits, Quiet, Rest

(* A tick.                                                                 *)
LEMMA TickRemaining ==
    ASSUME TypeOK, Tick, NEW s \in Slave
    PROVE  /\ Fits(s)' <=> Fits(s)
           /\ Quiet(s) => Quiet(s)'
           /\ Remaining(s)' \in Int
           /\ Quiet(s) => Remaining(s)' = 0
           /\ ~Quiet(s) => Remaining(s)' <= Remaining(s) - 1
           /\ ~Quiet(s) /\ Remaining(s) <= 1 => Quiet(s)'
<1>1. Duration(s) \in Nat /\ Duration(s) > 0
  BY DurationPositive DEF TypeOK
<1>2. /\ clock[s] \in {Rest} \cup Nat /\ clock[s] < Duration(s)
      /\ heard[s] \in {Rest} \cup 0..SPREAD
  BY DEF TypeOK
<1>3. Duration(s)' = Duration(s) /\ period' = period
  BY DurationKept DEF Tick
<1>4. /\ clock'[s] = IF Scanning(s) /\ ~Ends(s) THEN clock[s] + 1 ELSE Rest
      /\ heard'[s] = IF heard[s] = Rest THEN Rest ELSE heard[s] + 1
      /\ heard[s] < SPREAD
  BY DEF Tick
<1>5. Fits(s)' <=> Fits(s)
  BY <1>3 DEF Fits
<1>6. Quiet(s) => Quiet(s)'
  BY <1>4 DEF Quiet, Scanning
<1>7. ASSUME ~Quiet(s) PROVE Remaining(s)' <= Remaining(s) - 1
  BY <1>1, <1>2, <1>3, <1>4, <1>7, Times DEF Quiet, Remaining, Scanning, Ends, Rest
<1>8. ASSUME ~Quiet(s), Remaining(s) <= 1 PROVE Quiet(s)'
  BY <1>1, <1>2, <1>3, <1>4, <1>8, Times DEF Quiet, Remaining, Scanning, Ends, Rest
<1>9. Remaining(s)' \in Int
  BY <1>1, <1>2, <1>3, <1>4, Times DEF Remaining, Scanning, Rest
<1>10. Quiet(s) => Remaining(s)' = 0
  BY <1>6 DEF Quiet, Remaining
<1> QED BY <1>5, <1>6, <1>7, <1>8, <1>9, <1>10

LEMMA PeriodKept ==
    ASSUME UNCHANGED <<mode, slave_dev>>
    PROVE  Period' = Period
BY DEF Period, Total

LEMMA CycleStep == TypeOK /\ CycleInv /\ [Next]_vars => CycleInv'
<1> SUFFICES ASSUME TypeOK, CycleInv, [Next]_vars, ~overrun'
             PROVE  RadioInv' /\ PhaseInv' /\ BusyInv' /\ HitInv'
  BY DEF CycleInv
<1> USE DEF masterVars, radioVars, slaveVars
<1>0. ~overrun /\ (Followed \/ UNCHANGED vars)
  BY DEF Next, Overrun, Followed, vars
<1>i. RadioInv /\ PhaseInv /\ BusyInv /\ HitInv
  BY <1>0 DEF CycleInv
<1>1. CASE Configure
  <2> USE <1>1 DEF Configure, Command
  <2>1. RadioInv' /\ PhaseInv' /\ BusyInv'
    BY <1>i DEF RadioInv, PhaseInv, BusyInv
  <2>2. ASSUME ~opening', NEW s \in Slave, Fits(s)', heard'[s] # Rest
        PROVE  clock'[s] = Rest
    <3>1. clock'[s] = Rest \/ (slice'[s] = slice[s] /\ clock'[s] = clock[s])
      OBVIOUS
    <3>2. CASE slice'[s] = slice[s] /\ clock'[s] = clock[s]
      <4>1. Fits(s) /\ heard[s] # Rest /\ ~opening
        BY <2>2, <3>2 DEF Fits, Duration
      <4> QED BY <1>i, <3>2, <4>1 DEF HitInv
    <3> QED BY <3>1, <3>2
  <2>3. HitInv'
    BY <2>2 DEF HitInv
  <2> QED BY <2>1, <2>3
<1>2. CASE SetMode
  BY <1>2, <1>i, QuietKept DEF SetMode, Command, RadioInv, PhaseInv, BusyInv
<1>3. CASE Start
  <2>1. RadioInv' /\ BusyInv' /\ HitInv'
    BY <1>3, <1>i DEF Start, Command, RadioInv, BusyInv, HitInv
  <2>2. Period' = Period
    BY <1>3, PeriodKept DEF Start
  <2>3. PhaseInv'
    BY <1>3, <2>2 DEF Start, Command, PhaseInv
  <2> QED BY <2>1, <2>3
<1>4. CASE Stop
  BY <1>4, <1>i, QuietKept DEF Stop, Command, RadioInv, PhaseInv, BusyInv
<1>5. CASE TakeToken
  BY <1>5, <1>i, QuietKept, PeriodKept DEF TakeToken, RadioInv, PhaseInv, BusyInv
<1>6. CASE BeginRead
  BY <1>6, <1>i, QuietKept, PeriodKept DEF BeginRead, RadioInv, PhaseInv, BusyInv
<1>7. CASE EndRead
  <2>1. RadioInv' /\ PhaseInv'
    BY <1>7, <1>i, PeriodKept DEF EndRead, RadioInv, PhaseInv
  <2>2. AllQuiet'
    BY <1>7, <1>i, QuietKept DEF EndRead, BusyInv
  <2>3. BusyInv'
    BY <1>7, <2>2 DEF EndRead, BusyInv
  <2>4. HitInv'
    BY <2>2 DEF HitInv, AllQuiet, Quiet
  <2> QED BY <2>1, <2>3, <2>4
<1>8. CASE BeginSync
  BY <1>8, <1>i, QuietKept, PeriodKept DEF BeginSync, RadioInv, PhaseInv, BusyInv
<1>9. CASE Sent
  <2>1. RadioInv' /\ PhaseInv' /\ HitInv'
    BY <1>9, <1>i, QuietKept, PeriodKept DEF Sent, RadioInv, PhaseInv
  <2>2. AllInTime'
    BY <1>9, QuietKept, RemainingBounds DEF Sent, AllInTime
  <2>3. BusyInv'
    BY <1>9, <1>i, <2>2 DEF Sent, BusyInv, PhaseInv
  <2> QED BY <2>1, <2>3
<1>10. CASE SendTimeout
  BY <1>10 DEF SendTimeout
<1>11. CASE Air
  <2>0. sm = "sync_tx" /\ sm' = "sync_tx" /\ ~request'
    BY <1>11, <1>i DEF Air, RadioInv
  <2>1. RadioInv' /\ PhaseInv'
    BY <1>11, <1>i, PeriodKept DEF Air, RadioInv, PhaseInv
  <2>2. BusyInv'
    BY <2>0 DEF BusyInv
  <2>3. ASSUME ~opening', NEW s \in Slave, Fits(s)' PROVE clock'[s] = Rest
    <3>1. Fits(s) /\ request /\ ~opening /\ clock' = clock
      BY <1>11, <2>3, DurationKept DEF Air, Fits
    <3> QED BY <1>i, <2>0, <3>1 DEF BusyInv, AllQuiet, Quiet
  <2>4. HitInv'
    BY <2>3 DEF HitInv
  <2> QED BY <2>1, <2>2, <2>4
<1>12. CASE AirDone
  BY <1>12, <1>i, QuietKept, PeriodKept DEF AirDone, RadioInv, PhaseInv, BusyInv
<1>13. ASSUME NEW s \in Slave, StartScan(s)
       PROVE  RadioInv' /\ PhaseInv' /\ BusyInv' /\ HitInv'
  <2>0. /\ UNCHANGED <<masterVars, timer, sm, request, opening, slice>>
        /\ heard[s] # Rest /\ heard'[s] = Rest
        /\ \A r \in Slave : r # s => heard'[r] = heard[r] /\ clock'[r] = clock[r]
        /\ clock'[s] \in {0, clock[s]}
    BY <1>13 DEF StartScan, TypeOK
  <2>1. RadioInv' /\ PhaseInv'
    BY <1>13, <1>i, PeriodKept DEF StartScan, RadioInv, PhaseInv
  <2>2. \A r \in Slave : Duration(r)' = Duration(r) /\ (Fits(r)' <=> Fits(r))
    BY <2>0, DurationKept DEF Fits
  <2>3. AllQuiet => AllQuiet'
    BY <2>0, <2>2 DEF AllQuiet, Quiet
  <2>4. \A r \in Slave : Remaining(r)' \in Int /\ Remaining(r)' <= Remaining(r)
    <3>1. \A r \in Slave : r # s => Remaining(r)' = Remaining(r)
      BY <2>0, <2>2 DEF Remaining
    <3>2. Remaining(s)' \in Int /\ Remaining(s)' <= Remaining(s)
      <4>1. Duration(s) \in Nat /\ Duration(s) > 0
        BY DurationPositive DEF TypeOK
      <4>2. heard[s] \in 0..SPREAD /\ clock[s] \in {Rest} \cup Nat
        BY <2>0 DEF TypeOK
      <4>3. Remaining(s) = SPREAD - heard[s] + Duration(s)
        BY <2>0 DEF Remaining
      <4>4. Remaining(s)' = IF clock'[s] # Rest THEN Duration(s) - clock'[s] ELSE 0
        BY <2>0, <2>2 DEF Remaining
      <4> QED BY <4>1, <4>2, <4>3, <4>4, <2>0, Times DEF Rest
    <3> QED BY <3>1, <3>2, RemainingBounds
  <2>5. AllInTime => AllInTime'
    <3>1. timer \in Nat /\ timer' = timer /\ \A r \in Slave : Remaining(r) \in Int
      BY <2>0, RemainingBounds DEF TypeOK
    <3> QED BY <2>2, <2>4, <3>1 DEF AllInTime
  <2>6. BusyInv'
    BY <1>i, <2>0, <2>3, <2>5 DEF BusyInv
  <2>7. HitInv'
    BY <1>i, <2>0, <2>2 DEF HitInv
  <2> QED BY <2>1, <2>6, <2>7
<1>14. CASE Tick
  <2> USE <1>14 DEF Tick
  <2>0. /\ UNCHANGED <<running, mode, slave_dev, period, wait_for_data, sm, opening>>
        /\ UNCHANGED radioVars
        /\ timer' = IF Expires THEN period ELSE IF timer = 0 THEN 0 ELSE timer - 1
        /\ Expires => sm \notin {"token", "sync_tx"}
    OBVIOUS
  <2>s. sync_sem' <=> sync_sem \/ Expires
    BY Zenon
  <2>1. RadioInv'
    BY <1>i, <2>0 DEF RadioInv
  <2>2. sm # "poll" => ~Expires
    BY <1>i, <2>0 DEF BusyInv, TypeOK, Expires
  <2>3. PhaseInv'
    BY <1>i, <2>0, <2>s, <2>2, PeriodKept DEF PhaseInv
  <2>4. \A s \in Slave : /\ Fits(s)' <=> Fits(s)
                         /\ Quiet(s) => Quiet(s)'
                         /\ Remaining(s)' \in Int
                         /\ Quiet(s) => Remaining(s)' = 0
                         /\ ~Quiet(s) => Remaining(s)' <= Remaining(s) - 1
                         /\ ~Quiet(s) /\ Remaining(s) <= 1 => Quiet(s)'
    BY TickRemaining
  <2>5. AllQuiet => AllQuiet'
    BY <2>4 DEF AllQuiet
  <2>6. \A s \in Slave : /\ Remaining(s) \in Int
                         /\ Remaining(s) <= 0 => Quiet(s)
    BY RemainingBounds
  <2>9. timer \in Nat /\ timer' \in Nat
    BY <2>0 DEF TypeOK, Expires
  <2>10. ASSUME AllInTime, ~Expires PROVE AllInTime'
    <3> SUFFICES ASSUME NEW s \in Slave, Fits(s) PROVE Remaining(s)' <= timer'
      BY <2>4 DEF AllInTime
    <3>1. CASE Quiet(s)
      BY <3>1, <2>4, <2>9
    <3>2. CASE ~Quiet(s)
      <4>1. Remaining(s) <= timer /\ Remaining(s) > 0
        BY <2>6, <2>10, <3>2 DEF AllInTime
      <4>2. timer' = timer - 1
        BY <2>0, <2>6, <2>9, <2>10, <4>1
      <4> QED BY <4>1, <4>2, <3>2, <2>4, <2>6, <2>9
    <3> QED BY <3>1, <3>2
  <2>11. ASSUME AllInTime, Expires PROVE AllQuiet'
    <3> SUFFICES ASSUME NEW s \in Slave, Fits(s) PROVE Quiet(s)'
      BY <2>4 DEF AllQuiet
    <3>1. CASE Quiet(s)
      BY <3>1, <2>4
    <3>2. CASE ~Quiet(s)
      <4>1. Remaining(s) <= 1
        BY <2>11 DEF AllInTime, Expires
      <4> QED BY <4>1, <3>2, <2>4
    <3> QED BY <3>1, <3>2
  <2>12. BusyInv'
    <3>1. sm = "read" => AllQuiet' /\ timer' = 0
      BY <1>i, <2>0, <2>2, <2>5 DEF BusyInv
    <3>2. ASSUME running, sm = "poll", wait_for_data
          PROVE  IF sync_sem' THEN AllQuiet' ELSE AllInTime'
      BY <1>i, <3>2, <2>s, <2>5, <2>10, <2>11 DEF BusyInv
    <3> QED BY <1>i, <2>0, <2>5, <3>1, <3>2 DEF BusyInv
  <2>13. ASSUME ~opening', NEW s \in Slave, Fits(s)', heard'[s] # Rest
         PROVE  clock'[s] = Rest
    <3>1. Fits(s) /\ heard[s] # Rest /\ ~opening
      BY <2>0, <2>4, <2>13
    <3>2. clock[s] = Rest
      BY <1>i, <3>1 DEF HitInv
    <3> QED BY <3>2 DEF Scanning
  <2>14. HitInv'
    BY <2>13 DEF HitInv
  <2> QED BY <2>1, <2>3, <2>12, <2>14
<1>15. CASE UNCHANGED vars
  BY <1>15, <1>i, QuietKept, PeriodKept DEF vars, RadioInv, PhaseInv, BusyInv, AllInTime
<1> QED
  BY <1>0, <1>1, <1>2, <1>3, <1>4, <1>5, <1>6, <1>7, <1>8, <1>9, <1>10, <1>11, <1>12,
     <1>13, <1>14, <1>15 DEF Followed, Manager

(* The slaves of the last list are through when they are read: their lines *)
(* are those the period is for.                                            *)
LEMMA ConfiguredFit ==
    ASSUME TypeOK, period = Period, mode = "CONDUCTION_TEST", NEW s \in Configured
    PROVE  s \in Slave /\ Fits(s)
<1>1. PICK j \in DOMAIN slave_dev : slave_dev[j] = s /\ slice[s] = SliceOf(slave_dev, j)
  BY DEF Configured
<1>2. s \in Slave
  <2>1. slave_dev \in Seq(Slave)
    BY ListsAreSequences DEF TypeOK
  <2> QED BY <1>1, <2>1
<1>3. slice[s].total = Total /\ slice[s].total \in Nat
  BY <1>1, <1>2 DEF TypeOK, SliceOf, Total
<1>4. Duration(s) = INTERVAL * Total + INTERVAL /\ INTERVAL * Total \in Nat
  BY <1>3, Lengths DEF Duration
<1>5. period = INTERVAL * Total + REDUNDANCY
  BY DEF Period
<1>6. Fits(s)
  BY <1>4, <1>5, Times DEF Fits
<1> QED BY <1>2, <1>6

(* Readings, however late, find the slaves of the list at rest.            *)
THEOREM ReadingsFindRest == Spec => []ReadingAfterScan
<1>1. Init => TypeOK /\ CycleInv
  BY TypeInit, CycleInit
<1>2. TypeOK /\ CycleInv /\ [Next]_vars => (TypeOK /\ CycleInv)'
  BY TypeStep, CycleStep
<1>3. TypeOK /\ CycleInv => ReadingAfterScan
  <2> SUFFICES ASSUME TypeOK, CycleInv, sm = "read", mode = "CONDUCTION_TEST", ~overrun
               PROVE  ~request /\ \A s \in Configured : ~Scanning(s) /\ heard[s] = Rest
    BY DEF ReadingAfterScan
  <2>1. ~request /\ period = Period /\ AllQuiet
    BY DEF CycleInv, RadioInv, PhaseInv, BusyInv
  <2> QED BY <2>1, ConfiguredFit DEF AllQuiet, Quiet, Scanning
<1> QED BY <1>1, <1>2, <1>3, PTL DEF Spec

(* A sync hits a scan only where the period does not cover it.             *)
THEOREM SyncsFindRest == Spec => SyncFindsRest
<1>1. Init => TypeOK /\ CycleInv
  BY TypeInit, CycleInit
<1>2. TypeOK /\ CycleInv /\ [Next]_vars => (TypeOK /\ CycleInv)'
  BY TypeStep, CycleStep
<1>3. TypeOK /\ CycleInv /\ [Next]_vars =>
        [\A s \in Slave :
            heard[s] # Rest /\ heard'[s] = Rest /\ Underway(s) =>
                overrun \/ opening \/ Duration(s) + SPREAD > period]_vars
  <2> SUFFICES ASSUME TypeOK, CycleInv, NEW s \in Slave, heard[s] # Rest, Underway(s),
                      ~overrun, ~opening, ~(Duration(s) + SPREAD > period)
               PROVE  FALSE
    OBVIOUS
  <2>1. Duration(s) \in Nat /\ period \in Nat
    BY DurationPositive DEF TypeOK
  <2>2. clock[s] = Rest
    BY <2>1, Times DEF CycleInv, HitInv, Fits
  <2> QED BY <2>2, Times DEF Underway, Rest
<1> QED BY <1>1, <1>2, <1>3, PTL DEF Spec, SyncFindsRest

(***************************************************************************)
(* Who drives a row.                                                       *)
(***************************************************************************)

(* The sums grow along a list.                                             *)
LEMMA LinesGrow ==
    ASSUME NEW list \in Seq(Slave), NEW k \in 0..Len(list), NEW j \in 0..Len(list),
           k <= j
    PROVE  LinesOf(list, k) <= LinesOf(list, j)
<1> DEFINE T == {n \in k..j : ~(LinesOf(list, k) <= LinesOf(list, n))}
<1>0. Len(list) \in Nat
  OBVIOUS
<1>1. T = {}
  <2> SUFFICES ASSUME T # {} PROVE FALSE
    OBVIOUS
  <2>1. T \subseteq Nat
    BY <1>0
  <2>2. PICK m \in T : \A n \in T : ~(n < m)
    <3> HIDE DEF T
    <3> QED BY <2>1, LeastNumber
  <2>3. m \in k..j /\ ~(LinesOf(list, k) <= LinesOf(list, m))
    BY <2>2
  <2>4. LinesOf(list, k) \in Nat
    BY LinesOfList
  <2>5. m # k
    BY <2>3, <2>4
  <2>6. m - 1 \in k..j /\ m - 1 \notin T
    BY <1>0, <2>2, <2>3, <2>5
  <2>7. LinesOf(list, k) <= LinesOf(list, m - 1)
    BY <2>6
  <2>8. m \in 1..Len(list) /\ m - 1 \in 0..Len(list) /\ list[m] \in Slave
    BY <1>0, <2>3, <2>6
  <2>9. LinesOf(list, m) = LinesOf(list, m - 1) + Cond[list[m]]
        /\ LinesOf(list, m - 1) \in Nat
    BY <2>8, LinesOfList
  <2> QED BY <2>3, <2>4, <2>7, <2>8, <2>9, CondNat
<1> QED BY <1>0, <1>1

(* A device's lines.                                                       *)
Holds(list, i, line) == LinesOf(list, i - 1) <= line /\ line < LinesOf(list, i)

(* Each line of a list belongs to exactly one of its devices.              *)
LEMMA OneHolder ==
    ASSUME NEW list \in Seq(Slave), NEW line \in Nat, line < LinesOf(list, Len(list))
    PROVE  /\ \E i \in 1..Len(list) : Holds(list, i, line)
           /\ \A i, j \in 1..Len(list) :
                 Holds(list, i, line) /\ Holds(list, j, line) => i = j
<1>0. Len(list) \in Nat /\ LinesOf(list, 0) = 0
      /\ \A n \in 0..Len(list) : LinesOf(list, n) \in Nat
  BY LinesOfList
<1>1. \E i \in 1..Len(list) : Holds(list, i, line)
  <2> DEFINE T == {n \in 0..Len(list) : line < LinesOf(list, n)}
  <2>1. T \subseteq Nat /\ T # {}
    BY <1>0
  <2>2. PICK i \in T : \A n \in T : ~(n < i)
    <3> HIDE DEF T
    <3> QED BY <2>1, LeastNumber
  <2>3. i \in 0..Len(list) /\ line < LinesOf(list, i)
    BY <2>2
  <2>4. i # 0
    BY <1>0, <2>3
  <2>5. i - 1 \in 0..Len(list) /\ i - 1 \notin T
    BY <1>0, <2>2, <2>3, <2>4
  <2>6. LinesOf(list, i - 1) <= line
    BY <1>0, <2>5
  <2> QED BY <1>0, <2>3, <2>4, <2>6 DEF Holds
<1>2. ASSUME NEW i \in 1..Len(list), NEW j \in 1..Len(list),
             Holds(list, i, line), Holds(list, j, line)
      PROVE  ~(i < j)
  <2> SUFFICES ASSUME i < j PROVE FALSE
    OBVIOUS
  <2>1. i \in 0..Len(list) /\ j - 1 \in 0..Len(list) /\ i <= j - 1
    BY <1>0
  <2>2. LinesOf(list, i) <= LinesOf(list, j - 1)
    BY <2>1, LinesGrow
  <2> QED BY <1>0, <1>2, <2>1, <2>2 DEF Holds
<1>3. \A i, j \in 1..Len(list) : Holds(list, i, line) /\ Holds(list, j, line) => i = j
  BY <1>0, <1>2
<1> QED BY <1>1, <1>3

(* A slave that has its slice takes a line for its own when it is.         *)
LEMMA OwnsIsOwner ==
    ASSUME TypeOK, NEW t \in Configured, NEW line \in Nat, line < Total
    PROVE  Owns(t, line) <=> t = Owner(line)
<1>0. slave_dev \in Seq(Slave) /\ Len(slave_dev) \in Nat
      /\ DOMAIN slave_dev = 1..Len(slave_dev)
  BY ListsAreSequences DEF TypeOK
<1>1. PICK j \in DOMAIN slave_dev : slave_dev[j] = t /\ slice[t] = SliceOf(slave_dev, j)
  BY DEF Configured
<1>2. LinesOf(slave_dev, j) = LinesOf(slave_dev, j - 1) + Cond[t]
  BY <1>0, <1>1, LinesOfList
<1>3. Owns(t, line) <=> Holds(slave_dev, j, line)
  BY <1>1, <1>2 DEF Owns, Holds, SliceOf
<1> DEFINE i == CHOOSE i \in DOMAIN slave_dev : Holds(slave_dev, i, line)
<1>4. Owner(line) = slave_dev[i]
  BY Zenon DEF Owner, Holds
<1>5. i \in DOMAIN slave_dev /\ Holds(slave_dev, i, line)
  BY <1>0, OneHolder DEF Total
<1> HIDE DEF i
<1>6. Holds(slave_dev, j, line) <=> i = j
  BY <1>0, <1>5, OneHolder DEF Total
<1>7. slave_dev[i] = slave_dev[j] => i = j
  <2>1. CASE slave_dev \in Lists
    BY <1>5, <2>1, CycleAssumption
  <2>2. CASE slave_dev = <<>>
    BY <1>1, <2>2
  <2> QED BY <2>1, <2>2 DEF TypeOK
<1> QED BY <1>1, <1>3, <1>4, <1>6, <1>7

(* The row and the place in it, of a clock.                                *)
LEMMA RowOffset ==
    ASSUME NEW c \in Nat
    PROVE  /\ c \div INTERVAL \in Nat
           /\ c % INTERVAL \in 0..(INTERVAL - 1)
           /\ c = INTERVAL * (c \div INTERVAL) + (c % INTERVAL)
BY Times

LEMMA RowsApart ==
    ASSUME NEW a \in Nat, NEW b \in Nat, a < b
    PROVE  INTERVAL * a + INTERVAL <= INTERVAL * b
<1>1. PICK d \in Nat : b = a + 1 + d
  <2>1. b - a - 1 \in Nat /\ b = a + 1 + (b - a - 1)
    OBVIOUS
  <2> QED BY <2>1
<1>2. INTERVAL * (a + 1 + d) = INTERVAL * a + INTERVAL + INTERVAL * d
  BY Times
<1>3. INTERVAL * d \in Nat /\ INTERVAL * a \in Nat
  BY Times
<1> QED BY <1>1, <1>2, <1>3, Times

(* The row a slave of the list is scanning is one of the list's.           *)
LEMMA RowOfList ==
    ASSUME TypeOK, NEW s \in Configured, Underway(s)
    PROVE  /\ clock[s] \in Nat /\ clock[s] \div INTERVAL \in Nat
           /\ Row(s) \in Nat /\ Row(s) < Total
<1>1. PICK j \in DOMAIN slave_dev : slave_dev[j] = s /\ slice[s] = SliceOf(slave_dev, j)
  BY DEF Configured
<1>2. s \in Slave
  BY <1>1, ListsAreSequences DEF TypeOK
<1>3. slice[s].total = Total /\ slice[s].total \in Nat
  BY <1>1, <1>2 DEF TypeOK, SliceOf, Total
<1>4. clock[s] \in Nat /\ clock[s] >= INTERVAL
  BY <1>2, Times DEF TypeOK, Underway, Rest
<1>5. clock[s] < INTERVAL * Total + INTERVAL
  BY <1>2, <1>3, Lengths DEF TypeOK, Duration
<1> DEFINE p == clock[s] \div INTERVAL
           r == clock[s] % INTERVAL
<1>6. p \in Nat /\ r \in 0..(INTERVAL - 1) /\ clock[s] = INTERVAL * p + r
  BY <1>4, RowOffset
<1> HIDE DEF p, r
<1>7. p # 0
  <2> SUFFICES ASSUME p = 0 PROVE FALSE
    OBVIOUS
  <2>1. INTERVAL * p = 0
    BY Times
  <2> QED BY <1>4, <1>6, <2>1, Times
<1>8. p <= Total
  <2> SUFFICES ASSUME Total < p PROVE FALSE
    BY <1>3, <1>6
  <2>1. INTERVAL * Total + INTERVAL <= INTERVAL * p
    BY <1>3, <1>6, RowsApart
  <2>2. INTERVAL * Total \in Nat /\ INTERVAL * p \in Nat
    BY <1>3, <1>6, Times
  <2> QED BY <1>5, <1>6, <2>1, <2>2, Times
<1> QED BY <1>3, <1>4, <1>6, <1>7, <1>8 DEF Row, p

(* Where a slave is in its scan while one in step with it samples a row.   *)
LEMMA InTheRow ==
    ASSUME NEW c \in Nat, NEW d \in Nat, NEW r \in Nat,
           c % INTERVAL = r, r \in {HOLD, HOLD + SETTLE},
           c - d < HOLD - SETTLE, d - c < HOLD - SETTLE
    PROVE  \/ d \div INTERVAL = c \div INTERVAL /\ d % INTERVAL > SETTLE
           \/ r # HOLD /\ d \div INTERVAL # c \div INTERVAL /\ d % INTERVAL <= SETTLE
<1> DEFINE p == c \div INTERVAL
           q == d \div INTERVAL
           u == d % INTERVAL
<1>1. p \in Nat /\ c = INTERVAL * p + r
  BY RowOffset
<1>2. q \in Nat /\ u \in 0..(INTERVAL - 1) /\ d = INTERVAL * q + u
  BY RowOffset
<1> HIDE DEF p, q, u
<1>3. INTERVAL * p \in Nat /\ INTERVAL * q \in Nat
  BY <1>1, <1>2, Times
<1>4. /\ SETTLE \in Nat /\ SETTLE > 0 /\ HOLD \in Nat /\ HOLD > 0
      /\ SETTLE + HOLD < INTERVAL /\ HOLD + HOLD <= INTERVAL + SETTLE
  BY CycleAssumption
<1>5. ~(q < p)
  <2> SUFFICES ASSUME q < p PROVE FALSE
    OBVIOUS
  <2>1. INTERVAL * q + INTERVAL <= INTERVAL * p
    BY <1>1, <1>2, RowsApart
  <2> QED BY <2>1, <1>1, <1>2, <1>3, <1>4, Times
<1>6. CASE q = p
  <2>1. u > SETTLE
    BY <1>6, <1>1, <1>2, <1>3, <1>4, Times
  <2> QED BY <2>1, <1>6 DEF p, q, u
<1>7. CASE p < q
  <2>1. INTERVAL * p + INTERVAL <= INTERVAL * q
    BY <1>1, <1>2, <1>7, RowsApart
  <2>2. r # HOLD /\ u <= SETTLE
    BY <2>1, <1>1, <1>2, <1>3, <1>4, Times
  <2>3. q # p
    BY <1>1, <1>2, <1>7
  <2> QED BY <2>2, <2>3 DEF p, q, u
<1> QED BY <1>1, <1>2, <1>5, <1>6, <1>7

LEMMA DriverIsOwner ==
    ASSUME TypeOK, NEW s \in Current, Samples(s), NEW t \in Current, InStep(s, t)
    PROVE  Driving(t) <=> t = Owner(Row(s))
<1>0. /\ s \in Configured /\ t \in Configured /\ Underway(s)
      /\ Offset(s) \in {HOLD, HOLD + SETTLE}
      /\ Offset(s) # HOLD => Owns(s, Row(s))
  BY CycleAssumption DEF Current, Samples
<1>1. /\ clock[s] \in Nat /\ clock[s] \div INTERVAL \in Nat
      /\ Row(s) \in Nat /\ Row(s) < Total
  BY <1>0, RowOfList
<1>2. clock[t] \in Nat
  <2>1. t \in Slave
    BY <1>0, ListsAreSequences DEF Configured, TypeOK
  <2> QED BY <2>1 DEF InStep, Scanning, TypeOK
<1>3. Offset(s) \in Nat /\ HOLD + SETTLE \in Nat /\ HOLD \in Nat
  BY <1>0, CycleAssumption
<1>4. \/ clock[t] \div INTERVAL = clock[s] \div INTERVAL /\ Offset(t) > SETTLE
      \/ /\ Offset(s) # HOLD /\ clock[t] \div INTERVAL # clock[s] \div INTERVAL
         /\ Offset(t) <= SETTLE
  BY <1>0, <1>1, <1>2, <1>3, InTheRow DEF Offset, InStep
<1>5. Owns(t, Row(s)) <=> t = Owner(Row(s))
  BY <1>0, <1>1, OwnsIsOwner
<1>6. CASE clock[t] \div INTERVAL = clock[s] \div INTERVAL /\ Offset(t) > SETTLE
  <2>1. Row(t) = Row(s)
    BY <1>6 DEF Row
  <2>2. Underway(t)
    <3> DEFINE p == clock[t] \div INTERVAL
    <3>1. p \in Nat /\ p >= 1
      BY <1>1, <1>6 DEF Row
    <3>2. /\ clock[t] = INTERVAL * p + (clock[t] % INTERVAL)
          /\ clock[t] % INTERVAL \in 0..(INTERVAL - 1)
      BY <1>2, RowOffset
    <3> HIDE DEF p
    <3>3. INTERVAL * 0 + INTERVAL <= INTERVAL * p
      BY <3>1, RowsApart
    <3>4. INTERVAL * p >= INTERVAL /\ INTERVAL * p \in Nat
      BY <3>1, <3>3, Times
    <3> QED BY <3>2, <3>4, Times DEF Underway
  <2> QED BY <1>5, <1>6, <2>1, <2>2 DEF Driving
<1>7. CASE /\ Offset(s) # HOLD /\ clock[t] \div INTERVAL # clock[s] \div INTERVAL
           /\ Offset(t) <= SETTLE
  <2>1. ~Driving(t)
    <3>1. Offset(t) \in 0..(INTERVAL - 1)
      BY <1>2, RowOffset DEF Offset
    <3>2. SETTLE \in Nat /\ INTERVAL \in Nat
      BY CycleAssumption
    <3> QED BY <1>7, <3>1, <3>2 DEF Driving
  <2>2. s = Owner(Row(s))
    BY <1>0, <1>1, <1>7, OwnsIsOwner
  <2> QED BY <1>7, <2>1, <2>2
<1> QED BY <1>4, <1>6, <1>7

(* Of the slaves in step with one that samples a row, its owner drives.    *)
THEOREM RowsHaveOneDriver == Spec => []RowHasOneDriver
<1>1. TypeOK => RowHasOneDriver
  <2> SUFFICES ASSUME TypeOK, NEW s \in Current, Samples(s)
               PROVE  LET near == {t \in Current : InStep(s, t)}
                      IN  {t \in near : Driving(t)} = near \cap {Owner(Row(s))}
    BY DEF RowHasOneDriver
  <2>1. \A t \in Current : InStep(s, t) => (Driving(t) <=> t = Owner(Row(s)))
    BY DriverIsOwner
  <2> QED BY <2>1
<1> QED BY <1>1, CycleTyping, PTL
=============================================================================
