-------------------------------- MODULE Cycle --------------------------------
(***************************************************************************)
(* The measurement cycle in time: SlaveManager with its sync timer, the    *)
(* radio that takes its time over a sync frame, and the scans of all       *)
(* slaves, which drive and sample one harness.  A step of time is one tick *)
(* (1 ms).  Timers expire when they are due, tasks may be late.            *)
(*                                                                         *)
(* What the commands, a transaction and a callback do in detail is in      *)
(* modules SlaveManager, SlaveLink and Harness.  A slave left out of a     *)
(* list, or whose configuration failed, keeps its slice and goes on        *)
(* scanning at each sync.  A configuration session is one step here, and   *)
(* a behaviour is followed up to its first overrun.                        *)
(***************************************************************************)
EXTENDS Integers, Sequences, FiniteSets

CONSTANTS Slave,
          Cond,            \* lines of each slave
          Lists,           \* device lists of the backend
          INTERVAL,        \* CONDUCTION_TEST_INTERVAL: from row to row
          REDUNDANCY,      \* SYNC_TIMER_PERIOD_REDUNDANCY_TICKS
          OTHER_PERIOD,    \* period of the other modes
          SETTLE, HOLD,    \* the two sleeps in a callback
          TX_TIMEOUT,      \* SlaveManager_TX_TIMEOUT
          SPREAD,          \* a slave acts on a sync within this time
          MaxCommands      \* bound: commands SlaveManager executes

(* The sleeps fit into a row, also those of a slave that is a little late, *)
(* and the redundancy covers one more interval, the first, and the time a  *)
(* slave takes to react.                                                   *)
ASSUME CycleAssumption ==
    /\ Cond \in [Slave -> Nat \ {0}]
    /\ Lists \subseteq Seq(Slave)
    /\ \A l \in Lists : \A i, j \in DOMAIN l : l[i] = l[j] => i = j
    /\ INTERVAL \in Nat /\ REDUNDANCY \in Nat /\ OTHER_PERIOD \in Nat \ {0}
    /\ SETTLE \in Nat \ {0} /\ HOLD \in Nat \ {0}
    /\ TX_TIMEOUT \in Nat /\ SPREAD \in Nat
    /\ MaxCommands \in Nat
    /\ SETTLE + HOLD < INTERVAL /\ HOLD + HOLD <= INTERVAL + SETTLE
    /\ INTERVAL + SPREAD <= REDUNDANCY

VARIABLES commands,        \* executed so far
          running, mode,
          slave_dev,       \* the devices of the last configuration, in order
          period, timer,   \* sync_timer: period; ticks to its expiry, 0 if stopped
          sync_sem, wait_for_data,
          sm,              \* SlaveManager: poll, token, sync_tx, read
          request,         \* a sync frame waits for the radio task
          aired,           \* the radio task has sent it and not yet said so
          tx_done_sem,
          waited,          \* ticks since the request
          slice,           \* of each slave: first line, number of all lines
          clock,           \* of each slave: ticks since its scan began, or Rest
          heard,           \* of each slave: ticks since a sync came in, or Rest
          upset,           \* of each slave: its row index is not that of the clock
          overrun,         \* history: the timer expired while SlaveManager sent a
                           \* frame or was about to, or a send timed out
          opening          \* history: the last sync is the first of this run

masterVars == <<commands, running, mode, slave_dev, period, sync_sem, wait_for_data>>
radioVars  == <<request, aired, tx_done_sem>>
slaveVars  == <<slice, clock, heard, upset>>
vars       == <<masterVars, timer, sm, radioVars, waited, slaveVars, overrun,
                opening>>

-----------------------------------------------------------------------------

Rest    == -1
NoSlice == [start |-> 0, total |-> 0]
Mode    == {"CONDUCTION_TEST", "OTHER_TEST"}

(* Lines of the first n devices of a list.                                 *)
LinesOf(list, n) ==
    LET sum[i \in 0..n] == IF i = 0 THEN 0 ELSE sum[i - 1] + Cond[list[i]] IN sum[n]

(* A faulty variant: startHarnessNum counts the device itself.             *)
SliceOfNext(list, i) ==
    [start |-> LinesOf(list, i), total |-> LinesOf(list, Len(list))]

(* What the i-th device of a list is given.                                *)
SliceOf(list, i) ==
    [start |-> LinesOf(list, i - 1), total |-> LinesOf(list, Len(list))]

Listed  == {slave_dev[i] : i \in DOMAIN slave_dev}
Total   == LinesOf(slave_dev, Len(slave_dev))

(* The device a line belongs to.                                           *)
Owner(line) ==
    LET i == CHOOSE i \in DOMAIN slave_dev :
                LinesOf(slave_dev, i - 1) <= line /\ line < LinesOf(slave_dev, i)
    IN  slave_dev[i]

(* Slaves that have the slice the last list gives them.                    *)
Configured == {slave_dev[i] : i \in {j \in DOMAIN slave_dev :
                                        slice[slave_dev[j]] = SliceOf(slave_dev, j)}}

(* One interval before the first row, and one for each row.                *)
Duration(s) == (slice[s].total + 1) * INTERVAL

Scanning(s) == clock[s] # Rest

(* The first row of the scan has begun.                                    *)
Underway(s) == clock[s] >= INTERVAL

TypeOK ==
    /\ commands \in 0..MaxCommands /\ running \in BOOLEAN /\ mode \in Mode
    /\ slave_dev \in Lists \cup {<<>>}
    /\ period \in Nat /\ timer \in 0..period
    /\ sync_sem \in BOOLEAN /\ wait_for_data \in BOOLEAN
    /\ sm \in {"poll", "token", "sync_tx", "read"}
    /\ request \in BOOLEAN /\ aired \in BOOLEAN /\ tx_done_sem \in BOOLEAN
    /\ waited \in 0..TX_TIMEOUT
    /\ slice \in [Slave -> [start : Nat, total : Nat]]
    /\ clock \in [Slave -> {Rest} \cup Nat]
    /\ \A s \in Slave : clock[s] < Duration(s)
    /\ heard \in [Slave -> {Rest} \cup 0..SPREAD]
    /\ upset \in [Slave -> BOOLEAN]
    /\ overrun \in BOOLEAN /\ opening \in BOOLEAN

Init ==
    /\ commands = 0 /\ running = FALSE /\ mode = "CONDUCTION_TEST" /\ slave_dev = <<>>
    /\ period = 0 /\ timer = 0 /\ sync_sem = FALSE /\ wait_for_data = FALSE
    /\ sm = "poll"
    /\ request = FALSE /\ aired = FALSE /\ tx_done_sem = FALSE /\ waited = 0
    /\ slice = [s \in Slave |-> NoSlice]
    /\ clock = [s \in Slave |-> Rest] /\ heard = [s \in Slave |-> Rest]
    /\ upset = [s \in Slave |-> FALSE]
    /\ overrun = FALSE /\ opening = FALSE

-----------------------------------------------------------------------------
(* SlaveManager.  Commands are executed between two looks at sync_sem.     *)

Command ==
    /\ sm = "poll" /\ commands < MaxCommands
    /\ commands' = commands + 1

(* A session, as a whole.  Every device of the list is registered, also    *)
(* one whose configuration fails.  One that takes it stops its timer,      *)
(* which leaves the row index where it is.                                 *)
Configure ==
    /\ Command /\ ~running
    /\ slave_dev' \in Lists
    /\ \E done \in SUBSET Listed' :
         /\ slice' = [s \in Slave |->
                        IF s \in done
                        THEN SliceOf(slave_dev', CHOOSE i \in DOMAIN slave_dev' :
                                                     slave_dev'[i] = s)
                        ELSE slice[s]]
         /\ clock' = [s \in Slave |-> IF s \in done THEN Rest ELSE clock[s]]
         /\ upset' = [s \in Slave |-> upset[s] \/ (s \in done /\ Underway(s))]
    /\ UNCHANGED <<running, mode, period, sync_sem, wait_for_data, timer,
                   sm, radioVars, waited, heard, overrun, opening>>

SetMode ==
    /\ Command /\ ~running
    /\ mode' \in Mode
    /\ UNCHANGED <<running, slave_dev, period, sync_sem, wait_for_data,
                   timer, sm, radioVars, waited, slaveVars, overrun, opening>>

(* A faulty variant: the interval before the first row is forgotten.       *)
PeriodTight == IF mode = "CONDUCTION_TEST" THEN INTERVAL * Total ELSE OTHER_PERIOD

(* get_timer_period().                                                     *)
Period ==
    IF mode = "CONDUCTION_TEST" THEN INTERVAL * Total + REDUNDANCY ELSE OTHER_PERIOD

(* ctrl_process: the first sync frame does not wait for the timer.         *)
Start ==
    /\ Command /\ ~running /\ slave_dev # <<>>
    /\ running' = TRUE
    /\ wait_for_data' = FALSE /\ sync_sem' = TRUE
    /\ period' = Period /\ timer' = Period
    /\ opening' = TRUE
    /\ UNCHANGED <<mode, slave_dev, sm, radioVars, waited, slaveVars,
                   overrun>>

Stop ==
    /\ Command /\ running
    /\ running' = FALSE /\ timer' = 0
    /\ UNCHANGED <<mode, slave_dev, period, sync_sem, wait_for_data, sm,
                   radioVars, waited, slaveVars, overrun, opening>>

TakeToken ==
    /\ sm = "poll" /\ running /\ sync_sem
    /\ sync_sem' = FALSE
    /\ sm' = "token"
    /\ UNCHANGED <<commands, running, mode, slave_dev, period,
                   wait_for_data, timer, radioVars, waited, slaveVars,
                   overrun, opening>>

BeginRead ==
    /\ sm = "token" /\ wait_for_data
    /\ timer' = 0
    /\ sm' = "read"
    /\ UNCHANGED <<masterVars, radioVars, waited, slaveVars, overrun,
                   opening>>

(* However long it took: the next sync frame follows at once.              *)
EndRead ==
    /\ sm = "read"
    /\ wait_for_data' = FALSE
    /\ timer' = period
    /\ sm' = "token"
    /\ opening' = FALSE
    /\ UNCHANGED <<commands, running, mode, slave_dev, period, sync_sem,
                   radioVars, waited, slaveVars, overrun>>

BeginSync ==
    /\ sm = "token" /\ ~wait_for_data
    /\ wait_for_data' = TRUE
    /\ request' = TRUE
    /\ sm' = "sync_tx"
    /\ UNCHANGED <<commands, running, mode, slave_dev, period, sync_sem,
                   timer, aired, tx_done_sem, waited, slaveVars, overrun,
                   opening>>

(* A faulty variant: the timer is not started again.                       *)
SentKeepTimer ==
    /\ sm = "sync_tx" /\ tx_done_sem
    /\ tx_done_sem' = FALSE
    /\ sm' = "poll" /\ waited' = 0
    /\ UNCHANGED <<masterVars, timer, request, aired, slaveVars, overrun,
                   opening>>

(* send_sync_frame returns, and the period begins anew.                    *)
Sent ==
    /\ sm = "sync_tx" /\ tx_done_sem
    /\ tx_done_sem' = FALSE
    /\ timer' = period
    /\ sm' = "poll" /\ waited' = 0
    /\ UNCHANGED <<masterVars, request, aired, slaveVars, overrun, opening>>

(* The frame stays with the radio task.                                    *)
SendTimeout ==
    /\ sm = "sync_tx" /\ ~tx_done_sem /\ waited = TX_TIMEOUT
    /\ timer' = period
    /\ sm' = "poll" /\ waited' = 0
    /\ overrun' = TRUE
    /\ UNCHANGED <<masterVars, radioVars, slaveVars, opening>>

Manager ==
    \/ Configure \/ SetMode \/ Start \/ Stop
    \/ TakeToken \/ BeginRead \/ EndRead \/ BeginSync \/ Sent \/ SendTimeout

-----------------------------------------------------------------------------
(* The radio task and the slaves.                                          *)

(* The frame is sent; some slaves hear it.                                 *)
Air ==
    /\ request /\ ~aired
    /\ request' = FALSE /\ aired' = TRUE
    /\ \E S \in SUBSET Slave :
         heard' = [s \in Slave |-> IF s \in S /\ heard[s] = Rest THEN 0 ELSE heard[s]]
    /\ UNCHANGED <<masterVars, timer, sm, tx_done_sem, waited, slice, clock,
                   upset, overrun, opening>>

(* The radio task has the chip's answer.                                   *)
AirDone ==
    /\ aired
    /\ aired' = FALSE /\ tx_done_sem' = TRUE
    /\ UNCHANGED <<masterVars, timer, sm, request, waited, slaveVars,
                   overrun, opening>>

(* SyncMsg::process.  A slave without lines does not scan.                 *)
StartScan(s) ==
    /\ heard[s] # Rest
    /\ heard' = [heard EXCEPT ![s] = Rest]
    /\ IF slice[s].total > 0
       THEN /\ clock' = [clock EXCEPT ![s] = 0]
            /\ upset' = [upset EXCEPT ![s] = @ \/ Underway(s)]
       ELSE UNCHANGED <<clock, upset>>
    /\ UNCHANGED <<masterVars, timer, sm, radioVars, waited, slice, overrun,
                   opening>>

-----------------------------------------------------------------------------
(* Time.                                                                   *)

Expires == timer = 1

(* A faulty variant: the timer of a scan stops one interval too late.      *)
EndsLate(s) == Scanning(s) /\ clock[s] + 1 = Duration(s) + INTERVAL

(* startWithCount() lets the timer fire once per row after the first       *)
(* interval.                                                               *)
Ends(s) == Scanning(s) /\ clock[s] + 1 = Duration(s)

(* The sync timer starts over by itself; the last callback of a scan       *)
(* resets the row index.                                                   *)
Tick ==
    /\ \A s \in Slave : heard[s] < SPREAD
    /\ sm = "sync_tx" /\ ~tx_done_sem => waited < TX_TIMEOUT
    /\ timer' = IF Expires THEN period ELSE IF timer = 0 THEN 0 ELSE timer - 1
    /\ sync_sem' = (sync_sem \/ Expires)
    /\ overrun' = (overrun \/ (Expires /\ sm \in {"token", "sync_tx"}))
    /\ waited' = IF sm = "sync_tx" /\ waited < TX_TIMEOUT THEN waited + 1 ELSE waited
    /\ clock' = [s \in Slave |-> IF Scanning(s) /\ ~Ends(s) THEN clock[s] + 1
                                                            ELSE Rest]
    /\ heard' = [s \in Slave |-> IF heard[s] = Rest THEN Rest ELSE heard[s] + 1]
    /\ upset' = [s \in Slave |-> upset[s] /\ ~Ends(s)]
    /\ UNCHANGED <<commands, running, mode, slave_dev, period,
                   wait_for_data, sm, radioVars, slice, opening>>

(* Bound: a behaviour is followed up to its first overrun, after which     *)
(* tokens and frames of two cycles mix.                                    *)
Followed ==
    /\ ~overrun
    /\ Manager \/ Air \/ AirDone \/ (\E s \in Slave : StartScan(s)) \/ Tick
Overrun  == overrun /\ UNCHANGED vars

Next == Followed \/ Overrun

Spec == Init /\ [][Next]_vars

-----------------------------------------------------------------------------
(* The callback in terms of the clock.                                     *)

Row(s)    == clock[s] \div INTERVAL - 1
Offset(s) == clock[s] % INTERVAL

(* isDeviceOutput().                                                       *)
Owns(s, row) == slice[s].start <= row /\ row < slice[s].start + Cond[s]

(* From the first sleep to the next callback.                              *)
Driving(s) == Underway(s) /\ Owns(s, Row(s)) /\ Offset(s) > SETTLE

(* The row is read after the second sleep.                                 *)
Samples(s) ==
    Underway(s) /\ Offset(s) = HOLD + IF Owns(s, Row(s)) THEN SETTLE ELSE 0

(* Slaves that lag behind each other less than the second sleep exceeds    *)
(* the first.                                                              *)
InStep(s, t) ==
    /\ Scanning(t)
    /\ clock[s] - clock[t] < HOLD - SETTLE /\ clock[t] - clock[s] < HOLD - SETTLE

(* Slaves that scan the rows of the last list from the first on.           *)
Current == {s \in Configured : ~upset[s]}

-----------------------------------------------------------------------------

(* While a slave samples a row, of the slaves in step with it exactly the  *)
(* one drives whose line it is in the backend's list: the sums of          *)
(* PCinterface, the sleeps of run() and the spread of the syncs agree.     *)
RowHasOneDriver ==
    \A s \in Current :
        Samples(s) =>
            LET near == {t \in Current : InStep(s, t)}
            IN  {t \in near : Driving(t)} = near \cap {Owner(Row(s))}

(* When the slaves are read, however late, those of the list are through   *)
(* with their scans, unless the timer expired during a send: period and    *)
(* redundancy cover the scan, the frame's way and a late SlaveManager.     *)
ReadingAfterScan ==
    sm = "read" /\ mode = "CONDUCTION_TEST" /\ ~overrun =>
        /\ ~request
        /\ \A s \in Configured : ~Scanning(s) /\ heard[s] = Rest

(* A sync does not hit a scan - which would write rows beyond the matrix - *)
(* but when the timer expired during a send, when detection was just       *)
(* started again, or in a slave left with more lines than the period is    *)
(* for; in the other modes the period does not depend on the lines.        *)
SyncFindsRest ==
    [][\A s \in Slave :
          heard[s] # Rest /\ heard'[s] = Rest /\ Underway(s) =>
              overrun \/ opening \/ Duration(s) + SPREAD > period]_vars
=============================================================================
