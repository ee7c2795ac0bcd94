------------------------- MODULE MasterSessionProofs -------------------------
(***************************************************************************)
(* The configuration session, for any set of devices, any device lists,    *)
(* any queue capacity, any number of requests and any number of timeouts.  *)
(***************************************************************************)
EXTENDS MasterControlProofs, WellFoundedInduction

USE PCmanagerMsgAssumption, PCinterfaceAssumption

(***************************************************************************)
(* The number of lines of the first devices of a list.                     *)
(***************************************************************************)

(* f[i] is the number of lines of the first i devices.                     *)
IsSum(f, list) ==
    f = [i \in 0..Len(list) |-> IF i = 0 THEN 0 ELSE f[i - 1] + Cond[list[i]]]

Lines(list) == CHOOSE f : IsSum(f, list)

(* The same up to n devices, as a property of the values of f.             *)
SumsTo(f, list, n) ==
    /\ f \in [0..n -> Nat]
    /\ f[0] = 0
    /\ \A i \in 1..n : f[i] = f[i - 1] + Cond[list[i]]

(* A non-empty set of natural numbers has a least element: induction in a  *)
(* form without an operator parameter.                                     *)
LEMMA LeastNumber ==
    ASSUME NEW T, T \subseteq Nat, T # {}
    PROVE  \E m \in T : \A n \in T : ~(n < m)
<1> DEFINE R == {p \in Nat \X Nat : p[1] < p[2]}
<1>1. IsWellFoundedOn(R, Nat)
  BY NatLessThanWellFounded, Zenon DEF OpToRel
<1>2. PICK m \in T : \A n \in T : ~(<<n, m>> \in R)
  <2> HIDE DEF R
  <2> QED BY <1>1, WFMin, Zenon
<1>3. ASSUME NEW n \in T PROVE ~(n < m)
  <2>1. ~(<<n, m>> \in R)
    BY <1>2
  <2> QED BY <2>1
<1> QED BY <1>3

(* The recursive definition of the sum has a solution.                     *)
LEMMA SumExists ==
    ASSUME NEW list \in Seq(Dev)
    PROVE  \E f : IsSum(f, list)
<1> DEFINE T == {n \in 0..Len(list) : ~ \E f : SumsTo(f, list, n)}
<1>0. Len(list) \in Nat
  OBVIOUS
<1>1. T = {}
  <2> SUFFICES ASSUME T # {} PROVE FALSE
    OBVIOUS
  <2>1. T \subseteq Nat
    BY <1>0
  <2>2. PICK m \in T : \A n \in T : ~(n < m)
    <3> HIDE DEF T
    <3> QED BY <2>1, LeastNumber
  <2>3. m \in 0..Len(list) /\ ~ \E f : SumsTo(f, list, m)
    BY <2>2
  <2>4. m # 0
    <3> DEFINE z == [i \in 0..0 |-> 0]
    <3>1. SumsTo(z, list, 0)
      BY DEF SumsTo
    <3> HIDE DEF z
    <3> QED BY <2>3, <3>1
  <2>5. m - 1 \in 0..Len(list) /\ m - 1 < m
    BY <1>0, <2>3, <2>4
  <2>6. PICK f : SumsTo(f, list, m - 1)
    <3>1. m - 1 \notin T
      BY <2>2, <2>5
    <3> QED BY <2>5, <3>1
  <2>7. Cond[list[m]] \in Nat
    BY <1>0, <2>3, <2>4
  <2> DEFINE g == [i \in 0..m |-> IF i = m THEN f[m - 1] + Cond[list[m]] ELSE f[i]]
  <2>8. SumsTo(g, list, m)
    <3>1. f \in [0..(m - 1) -> Nat] /\ f[0] = 0
          /\ \A i \in 1..(m - 1) : f[i] = f[i - 1] + Cond[list[i]]
      BY <2>6 DEF SumsTo
    <3>2. g \in [0..m -> Nat] /\ g[0] = 0
      BY <3>1, <2>3, <2>4, <2>7, <1>0
    <3>3. \A i \in 1..m : g[i] = g[i - 1] + Cond[list[i]]
      BY <3>1, <2>3, <2>4, <1>0
    <3> HIDE DEF g
    <3> QED BY <3>2, <3>3 DEF SumsTo
  <2> HIDE DEF g
  <2> QED BY <2>3, <2>8
<1>2. PICK f : SumsTo(f, list, Len(list))
  <2>1. Len(list) \notin T
    BY <1>1
  <2> QED BY <1>0, <2>1
<1>3. IsSum(f, list)
  BY <1>0, <1>2 DEF SumsTo, IsSum
<1> QED BY <1>3

(* The sums over the first devices of a list, and the total.               *)
LEMMA LinesOfList ==
    ASSUME NEW list \in Seq(Dev)
    PROVE  /\ Lines(list)[0] = 0
           /\ \A i \in 1..Len(list) : Lines(list)[i] = Lines(list)[i - 1] + Cond[list[i]]
           /\ TotalHarness(list) = Lines(list)[Len(list)]
<1>1. IsSum(Lines(list), list)
  BY SumExists, Zenon DEF Lines
<1>2. TotalHarness(list) = Lines(list)[Len(list)]
  BY Zenon DEF TotalHarness, Lines, IsSum
<1>3. Len(list) \in Nat
  OBVIOUS
<1>4. ASSUME NEW f, IsSum(f, list), NEW i \in 0..Len(list)
      PROVE  f[i] = IF i = 0 THEN 0 ELSE f[i - 1] + Cond[list[i]]
  <2> DEFINE g == [j \in 0..Len(list) |-> IF j = 0 THEN 0 ELSE f[j - 1] + Cond[list[j]]]
  <2>1. f = g
    BY <1>4 DEF IsSum
  <2>2. g[i] = IF i = 0 THEN 0 ELSE f[i - 1] + Cond[list[i]]
    OBVIOUS
  <2> HIDE DEF g
  <2> QED BY <2>1, <2>2, Zenon
<1>5. /\ Lines(list)[0] = 0
      /\ \A i \in 1..Len(list) : Lines(list)[i] = Lines(list)[i - 1] + Cond[list[i]]
  BY <1>1, <1>3, <1>4
<1> QED BY <1>2, <1>5

(***************************************************************************)
(* The stream of commands from PCinterface to SlaveManager.                *)
(***************************************************************************)

(* The command ends its request.                                           *)
Final(c) == PerDevice(c) => c.k = c.slave_dev_num

(* The command is one of its request's, and the lines of the last one end  *)
(* where the harness ends.                                                 *)
Sound(c) ==
    /\ PerDevice(c) => c.k \in 1..c.slave_dev_num
    /\ c.type = "DEV_CONF" /\ Final(c) => c.start + c.cond = c.total

(* d can come directly after c: the next command of the same request, or,  *)
(* after the last one, the first of another.                               *)
Follows(c, d) ==
    IF Final(c)
    THEN d.type = "DEV_CONF" => d.k = 1 /\ d.start = 0
    ELSE /\ d.type = c.type
         /\ d.k = c.k + 1
         /\ d.slave_dev_num = c.slave_dev_num
         /\ d.total = c.total
         /\ d.type = "DEV_CONF" => d.start = c.start + c.cond

(* The newest command, still queued or already taken.                      *)
Newest == IF data_forward_queue = <<>> THEN cmd
          ELSE data_forward_queue[Len(data_forward_queue)]

(* Commands follow one another without a gap as long as none is lost to a  *)
(* full queue, however many forward() calls time out.                      *)
QueueInv ==
    \A i \in 1..Len(data_forward_queue) :
      /\ Sound(data_forward_queue[i])
      /\ Follows(IF i = 1 THEN cmd ELSE data_forward_queue[i - 1], data_forward_queue[i])

(* PCinterface has forwarded some of the request's commands.               *)
Midway == ifpc \in {"wait", "check"} \/ (ifpc = "add" /\ index > 0)

NewestInv ==
    /\ ~Midway => Final(Newest)
    /\ Midway =>
         /\ index > 0
         /\ Newest.type = req.type
         /\ Newest.k = index
         /\ Newest.slave_dev_num = Len(req.list)
         /\ Newest.total = TotalHarness(req.list)
         /\ req.type = "DEV_CONF" => Newest.start = cfg_cmd.start /\ Newest.cond = cfg_cmd.cond

(* The lines given out so far are those of the devices built so far.       *)
CfgInv ==
    ifpc \in {"add", "wait", "check"} /\ req.type = "DEV_CONF"
      => cfg_cmd.start + cfg_cmd.cond = Lines(req.list)[index]

StreamInv == QueueInv /\ NewestInv /\ CfgInv

LEMMA InitStreamInv == Init => StreamInv
BY DEF Init, MsgInit, PcInit, SmInit, StreamInv, QueueInv, NewestInv, CfgInv, Midway, Newest,
       NoCommand, Final, PerDevice

LEMMA AddCommandStreamInv ==
    ASSUME TypeInv, StreamInv, AddCommand, UNCHANGED smVars
    PROVE  StreamInv'
<1> DEFINE q == data_forward_queue
           c == NextCommand
<1>1. /\ ifpc = "add" /\ ifpc' = "wait" /\ index' = index + 1 /\ cfg_cmd' = NextCfg
      /\ q' = Append(q, c) /\ cmd' = cmd /\ req' = req
  BY DEF AddCommand, smVars
<1>2. /\ q \in Seq(Command) /\ index \in Nat /\ req \in Request /\ index < Commands(req)
      /\ cfg_cmd \in [start : Nat, cond : Nat] /\ cmd \in Command
  BY <1>1 DEF TypeInv, TypeOK, MsgTypeOK, PcTypeOK, SmTypeOK, IndexInv
<1>3. c \in Command
  BY <1>1, <1>2, NextCommandType DEF TypeInv
<1>4. /\ Len(q) \in Nat /\ Len(q') = Len(q) + 1
      /\ \A i \in 1..Len(q) : q'[i] = q[i]
      /\ q'[Len(q) + 1] = c
  BY <1>1, <1>2, <1>3, AppendProperties
<1>5. /\ c.type = req.type /\ c.k = index + 1 /\ c.slave_dev_num = Len(req.list)
      /\ c.total = TotalHarness(req.list) /\ c.start = NextCfg.start
  BY DEF NextCommand
<1>6. /\ req.list \in Seq(Dev) /\ Len(req.list) \in Nat
      /\ PerDevice(req) => Commands(req) = Len(req.list)
      /\ ~PerDevice(req) => Commands(req) = 1
      /\ PerDevice(c) <=> PerDevice(req)
  BY <1>2, <1>5, RequestFields DEF Commands, PerDevice
<1>7. req.type = "DEV_CONF" =>
        /\ NextCfg.start = Lines(req.list)[index]
        /\ NextCfg.cond = Cond[req.list[index + 1]]
        /\ NextCfg.start + NextCfg.cond = Lines(req.list)[index + 1]
        /\ c.cond = NextCfg.cond
  <2> SUFFICES ASSUME req.type = "DEV_CONF"
               PROVE  /\ NextCfg.start = Lines(req.list)[index]
                      /\ NextCfg.cond = Cond[req.list[index + 1]]
                      /\ NextCfg.start + NextCfg.cond = Lines(req.list)[index + 1]
                      /\ c.cond = NextCfg.cond
    OBVIOUS
  <2>1. /\ NextCfg.start = cfg_cmd.start + cfg_cmd.cond
        /\ NextCfg.cond = Cond[req.list[index + 1]]
        /\ c.cond = NextCfg.cond
    BY DEF NextCfg, NextCommand
  <2>2. NextCfg.start = Lines(req.list)[index]
    BY <1>1, <2>1 DEF StreamInv, CfgInv
  <2>3. index + 1 \in 1..Len(req.list)
    BY <1>2, <1>6 DEF PerDevice
  <2>4. Lines(req.list)[index + 1] = Lines(req.list)[index] + Cond[req.list[index + 1]]
    <3>1. Lines(req.list)[index + 1] = Lines(req.list)[(index + 1) - 1] + Cond[req.list[index + 1]]
      BY <1>6, <2>3, LinesOfList
    <3>2. (index + 1) - 1 = index
      BY <1>2
    <3> QED BY <3>1, <3>2
  <2> QED BY <2>1, <2>2, <2>4
<1>8. Sound(c)
  <2>1. PerDevice(c) => c.k \in 1..c.slave_dev_num
    BY <1>2, <1>5, <1>6
  <2>2. ASSUME c.type = "DEV_CONF", Final(c) PROVE c.start + c.cond = c.total
    <3>1. index + 1 = Len(req.list)
      BY <1>5, <2>2 DEF Final, PerDevice
    <3>2. TotalHarness(req.list) = Lines(req.list)[index + 1]
      BY <1>6, <3>1, LinesOfList
    <3> QED BY <1>5, <1>7, <2>2, <3>2
  <2> QED BY <2>1, <2>2 DEF Sound
<1>9. Follows(Newest, c)
  <2>1. CASE index = 0
    <3>1. Final(Newest)
      BY <1>1, <2>1 DEF StreamInv, NewestInv, Midway
    <3>2. c.type = "DEV_CONF" => c.k = 1 /\ c.start = 0
      BY <1>5, <1>6, <1>7, <2>1, LinesOfList
    <3> QED BY <3>1, <3>2 DEF Follows
  <2>2. CASE index # 0
    <3>1. Midway
      BY <1>1, <1>2, <2>2 DEF Midway
    <3>2. /\ Newest.type = req.type /\ Newest.k = index
          /\ Newest.slave_dev_num = Len(req.list) /\ Newest.total = TotalHarness(req.list)
          /\ req.type = "DEV_CONF" =>
               Newest.start = cfg_cmd.start /\ Newest.cond = cfg_cmd.cond
      BY <3>1 DEF StreamInv, NewestInv
    <3>3. ~Final(Newest)
      BY <1>2, <1>6, <2>2, <3>2 DEF Final, PerDevice
    <3>4. req.type = "DEV_CONF" => c.start = cfg_cmd.start + cfg_cmd.cond
      BY <1>5 DEF NextCfg
    <3> QED BY <1>5, <3>2, <3>3, <3>4 DEF Follows
  <2> QED BY <2>1, <2>2
<1>10. Newest' = c
  <2>1. q' # <<>>
    BY <1>4
  <2> QED BY <1>4, <2>1 DEF Newest
<1>11. QueueInv'
  <2> SUFFICES ASSUME NEW i \in 1..(Len(q) + 1)
               PROVE  /\ Sound(q'[i])
                      /\ Follows(IF i = 1 THEN cmd ELSE q'[i - 1], q'[i])
    BY <1>1, <1>4 DEF QueueInv, Sound, Follows, Final, PerDevice
  <2>1. CASE i \in 1..Len(q)
    <3>1. q'[i] = q[i] /\ (i # 1 => q'[i - 1] = q[i - 1])
      BY <1>4, <2>1
    <3> QED BY <2>1, <3>1 DEF StreamInv, QueueInv
  <2>2. CASE i = Len(q) + 1
    <3>1. q'[i] = c
      BY <1>4, <2>2
    <3>2. (IF i = 1 THEN cmd ELSE q'[i - 1]) = Newest
      <4>1. CASE Len(q) = 0
        <5>1. q = <<>>
          BY <1>2, <4>1, EmptySeq
        <5> QED BY <2>2, <4>1, <5>1 DEF Newest
      <4>2. CASE Len(q) # 0
        <5>1. q # <<>> /\ i # 1 /\ i - 1 = Len(q) /\ i - 1 \in 1..Len(q)
          BY <1>4, <2>2, <4>2
        <5> QED BY <1>4, <5>1 DEF Newest
      <4> QED BY <4>1, <4>2
    <3> HIDE DEF c
    <3> QED BY <1>8, <1>9, <3>1, <3>2
  <2> QED BY <1>4, <2>1, <2>2
<1>12. NewestInv'
  <2> HIDE DEF c
  <2> QED BY <1>1, <1>2, <1>5, <1>7, <1>10 DEF NewestInv, Midway
<1>13. CfgInv'
  BY <1>1, <1>7 DEF CfgInv
<1> QED BY <1>11, <1>12, <1>13 DEF StreamInv

LEMMA PcStepStreamInv ==
    ASSUME TypeInv, StreamInv, PcStep, ~lost'
    PROVE  StreamInv'
<1> USE DEF PcStep, smVars
<1>t. index \in Nat /\ req \in Request
  BY DEF TypeInv, TypeOK, PcTypeOK
<1>u. ASSUME UNCHANGED data_forward_queue PROVE (QueueInv <=> QueueInv') /\ Newest' = Newest
  BY <1>u DEF QueueInv, Sound, Follows, Final, PerDevice, Newest
<1>1. CASE Receive
  <2>1. req' \in Request /\ index' = 0 /\ cfg_cmd' = [start |-> 0, cond |-> 0]
        /\ UNCHANGED data_forward_queue /\ ifpc = "idle" /\ ifpc' \in {"respond", "add"}
    BY <1>1 DEF Receive
  <2>2. Final(Newest)
    BY <2>1 DEF StreamInv, NewestInv, Midway
  <2>3. NewestInv'
    BY <1>u, <2>1, <2>2 DEF NewestInv, Midway, Final, PerDevice
  <2>4. CfgInv'
    BY <2>1, RequestFields, LinesOfList DEF CfgInv
  <2> QED BY <1>u, <2>1, <2>3, <2>4 DEF StreamInv
<1>2. CASE AddCommand
  BY <1>2, AddCommandStreamInv
<1>3. CASE AddTimeout
  BY <1>3 DEF AddTimeout
<1>4. ASSUME UNCHANGED <<data_forward_queue, req, index, cfg_cmd>>,
             ifpc \in {"wait", "check"},
             ifpc' = "check" \/ ifpc' = Onward(index)
      PROVE  StreamInv'
  <2>1. Midway /\ index > 0
    BY <1>4 DEF Midway, StreamInv, NewestInv
  <2>2. /\ Newest.type = req.type /\ Newest.k = index /\ Newest.slave_dev_num = Len(req.list)
        /\ Newest.total = TotalHarness(req.list)
        /\ req.type = "DEV_CONF" => Newest.start = cfg_cmd.start /\ Newest.cond = cfg_cmd.cond
    BY <2>1 DEF StreamInv, NewestInv
  <2>3. CASE ifpc' = "respond"
    <3>1. index = Commands(req)
      BY <1>4, <2>3 DEF Onward
    <3>2. Final(Newest)
      BY <2>2, <3>1 DEF Final, PerDevice, Commands
    <3>3. NewestInv' /\ CfgInv'
      BY <1>4, <1>u, <2>3, <3>2 DEF NewestInv, CfgInv, Midway, Final, PerDevice
    <3> QED BY <1>4, <1>u, <3>3 DEF StreamInv
  <2>4. CASE ifpc' # "respond"
    <3>1. Midway' /\ ifpc' \in {"add", "check"}
      BY <1>4, <2>1, <2>4 DEF Midway, Onward
    <3>2. NewestInv'
      BY <1>4, <1>u, <2>1, <2>2, <3>1 DEF NewestInv
    <3>3. CfgInv'
      BY <1>4, <3>1 DEF StreamInv, CfgInv
    <3> QED BY <1>4, <1>u, <3>2, <3>3 DEF StreamInv
  <2> QED BY <2>3, <2>4
<1>5. CASE Woken
  BY <1>4, <1>5 DEF Woken
<1>6. CASE WaitTimeout
  BY <1>4, <1>6 DEF WaitTimeout
<1>7. CASE CheckBit
  BY <1>4, <1>7 DEF CheckBit
<1>8. CASE Respond
  <2>1. UNCHANGED data_forward_queue /\ ifpc = "respond" /\ ifpc' = "idle"
    BY <1>8 DEF Respond
  <2>2. NewestInv' /\ CfgInv'
    BY <1>u, <2>1 DEF StreamInv, NewestInv, CfgInv, Midway, Final, PerDevice
  <2> QED BY <1>u, <2>1, <2>2 DEF StreamInv
<1> QED BY <1>1, <1>2, <1>3, <1>5, <1>6, <1>7, <1>8 DEF PcNext

(* What SlaveManager takes off the queue follows what it took before.      *)
LEMMA PopStreamInv ==
    ASSUME TypeInv, StreamInv, NEW t, Pop(t), UNCHANGED pcVars
    PROVE  StreamInv' /\ Sound(cmd)' /\ Follows(cmd, cmd')
<1> DEFINE q == data_forward_queue
<1>1. q \in Seq(Command) /\ q # <<>> /\ cmd' = Head(q) /\ q' = Tail(q)
  BY DEF Pop, TypeInv, TypeOK, MsgTypeOK
<1>2. /\ Len(q) \in Nat /\ Len(q) > 0
      /\ cmd' = q[1]
      /\ q' \in Seq(Command) /\ Len(q') = Len(q) - 1
      /\ \A i \in 1..Len(q') : q'[i] = q[i + 1]
  BY <1>1, HeadTailProperties, EmptySeq
<1>3. \A i \in 1..Len(q) :
        Sound(q[i]) /\ Follows(IF i = 1 THEN cmd ELSE q[i - 1], q[i])
  BY DEF StreamInv, QueueInv
<1>4. Sound(cmd)' /\ Follows(cmd, cmd')
  <2>1. 1 \in 1..Len(q)
    BY <1>2
  <2>2. Sound(q[1]) /\ Follows(cmd, q[1])
    BY <1>3, <2>1
  <2>3. Sound(cmd') <=> Sound(cmd)'
    BY DEF Sound, Final, PerDevice
  <2> QED BY <1>2, <2>2, <2>3
<1>5. QueueInv'
  <2> SUFFICES ASSUME NEW i \in 1..Len(q')
               PROVE  /\ Sound(q'[i])
                      /\ Follows(IF i = 1 THEN cmd' ELSE q'[i - 1], q'[i])
    BY DEF QueueInv, Sound, Follows, Final, PerDevice
  <2>1. i + 1 \in 1..Len(q) /\ i + 1 # 1 /\ (i + 1) - 1 = i
    BY <1>2
  <2>2. Sound(q[i + 1]) /\ Follows(q[i], q[i + 1])
    BY <1>3, <2>1
  <2>3. q'[i] = q[i + 1] /\ (IF i = 1 THEN cmd' ELSE q'[i - 1]) = q[i]
    <3>1. CASE i = 1
      BY <1>2, <3>1
    <3>2. CASE i # 1
      <4>1. i - 1 \in 1..Len(q') /\ (i - 1) + 1 = i
        BY <1>2, <3>2
      <4> QED BY <1>2, <3>2, <4>1
    <3> QED BY <3>1, <3>2
  <2> QED BY <2>2, <2>3
<1>6. Newest' = Newest
  <2>1. CASE Len(q) = 1
    <3>1. q' = <<>>
      BY <1>2, <2>1, EmptySeq
    <3> QED BY <1>1, <1>2, <2>1, <3>1 DEF Newest
  <2>2. CASE Len(q) # 1
    <3>1. Len(q') \in 1..Len(q') /\ q' # <<>> /\ Len(q') + 1 = Len(q)
      BY <1>2, <2>2
    <3>2. q'[Len(q')] = q[Len(q)]
      BY <1>2, <3>1
    <3> QED BY <1>1, <3>1, <3>2 DEF Newest
  <2> QED BY <2>1, <2>2
<1>7. NewestInv' /\ CfgInv'
  BY <1>6 DEF StreamInv, NewestInv, CfgInv, Midway, Final, PerDevice, pcVars
<1> QED BY <1>4, <1>5, <1>7 DEF StreamInv

(***************************************************************************)
(* The session SlaveManager builds from the stream.                        *)
(***************************************************************************)

(* What is laid so far has neither gap nor overlap.                        *)
LaidInv ==
    /\ Len(slave_dev) = Len(session)
    /\ \A i \in 1..Len(session) :
         /\ slave_dev[i] = [id |-> session[i].dev, timeSlot |-> i - 1]
         /\ session[i].timeSlot = i - 1
         /\ session[i].start = IF i = 1 THEN 0
                               ELSE session[i - 1].start + session[i - 1].cond

LastLaid == session[Len(session)]

(* A transaction is under way: the session holds the devices before it.    *)
ConfiguringInv ==
    smpc = "config" =>
      /\ ~running
      /\ Sound(cmd)
      /\ Len(session) = cmd.k - 1
      /\ slave_dev_index = Len(session)
      /\ slave_num = cmd.slave_dev_num
      /\ cmd.start = IF Len(session) = 0 THEN 0 ELSE LastLaid.start + LastLaid.cond

(* A session is open between two transactions: it ends with the last       *)
(* command taken, and more commands of the same request are to come.       *)
OpenInv ==
    smpc # "config" /\ cfg_state = "CONFIG_PROCESSING" =>
      /\ ~running
      /\ cmd.type = "DEV_CONF" /\ ~Final(cmd)
      /\ Len(session) = cmd.k
      /\ Len(session) > 0
      /\ slave_dev_index = Len(session)
      /\ slave_num = cmd.slave_dev_num
      /\ LastLaid.start = cmd.start
      /\ LastLaid.cond = cmd.cond

(* A closed session is complete; a configuration request of which some     *)
(* commands were taken without opening a session is being discarded.       *)
ClosedInv ==
    smpc # "config" /\ cfg_state = "CONGIG_START" =>
      /\ Len(session) > 0 => /\ Len(session) = slave_num
                             /\ LastLaid.start + LastLaid.cond = LastLaid.total
      /\ cmd.type = "DEV_CONF" /\ ~Final(cmd) => running

SessionInv == LaidInv /\ ConfiguringInv /\ OpenInv /\ ClosedInv

TilesInv == ~lost => StreamInv /\ SessionInv

LEMMA InitSessionInv == Init => SessionInv
BY DEF Init, SmInit, SessionInv, LaidInv, ConfiguringInv, OpenInv, ClosedInv, NoCommand

(* Steps that leave the session and the command at hand alone.             *)
LEMMA SessionUntouched ==
    ASSUME SessionInv, UNCHANGED <<cmd, slave_dev, slave_dev_index, slave_num, cfg_state,
                                   session, running>>,
           smpc # "config", smpc' # "config"
    PROVE  SessionInv'
BY DEF SessionInv, LaidInv, ConfiguringInv, OpenInv, ClosedInv, LastLaid, Final, PerDevice

LEMMA BeginConfigSessionInv ==
    ASSUME TypeInv, StreamInv, SessionInv, BeginConfig, UNCHANGED pcVars
    PROVE  SessionInv'
<1>1. /\ Pop("DEV_CONF") /\ ~running /\ running' = running /\ smpc = "drain"
      /\ smpc' = "config" /\ cfg_state' = cfg_state
  BY DEF BeginConfig, Pop
<1>2. Sound(cmd)' /\ Follows(cmd, cmd') /\ cmd'.type = "DEV_CONF" /\ cmd' \in Command
  BY <1>1, PopStreamInv, PopType DEF TypeInv, TypeOK
<1>3. cfg_state \in {"CONGIG_START", "CONFIG_PROCESSING"}
  BY DEF TypeInv, TypeOK, SmTypeOK, CfgState
<1>4. OpenInv' /\ ClosedInv'
  BY <1>1 DEF OpenInv, ClosedInv
<1>5. CASE cfg_state = "CONGIG_START"
  <2>1. /\ slave_dev_index' = 0 /\ slave_num' = cmd'.slave_dev_num
        /\ slave_dev' = <<>> /\ session' = <<>>
    BY <1>5 DEF BeginConfig
  <2>2. LaidInv'
    BY <2>1 DEF LaidInv
  <2>3. cmd.type = "DEV_CONF" => Final(cmd)
    BY <1>1, <1>5 DEF SessionInv, ClosedInv
  <2>4. cmd'.k = 1 /\ cmd'.start = 0
    BY <1>2, <2>3 DEF Follows
  <2>5. ConfiguringInv'
    BY <1>1, <1>2, <2>1, <2>4 DEF ConfiguringInv
  <2> QED BY <1>4, <2>2, <2>5 DEF SessionInv
<1>6. CASE cfg_state = "CONFIG_PROCESSING"
  <2>1. UNCHANGED <<slave_dev_index, slave_num, slave_dev, session>>
    BY <1>6 DEF BeginConfig
  <2>2. /\ ~Final(cmd) /\ Len(session) = cmd.k /\ Len(session) > 0
        /\ slave_dev_index = Len(session) /\ slave_num = cmd.slave_dev_num
        /\ LastLaid.start = cmd.start /\ LastLaid.cond = cmd.cond
    BY <1>1, <1>6 DEF SessionInv, OpenInv
  <2>3. /\ cmd'.k = cmd.k + 1 /\ cmd'.slave_dev_num = cmd.slave_dev_num
        /\ cmd'.start = cmd.start + cmd.cond
    BY <1>2, <2>2 DEF Follows
  <2>4. LaidInv'
    BY <2>1 DEF SessionInv, LaidInv
  <2>5. cmd.k \in Nat
    BY DEF TypeInv, TypeOK, SmTypeOK, Command
  <2>6. LastLaid' = LastLaid
    BY <2>1 DEF LastLaid
  <2>7. ConfiguringInv'
    BY <1>1, <1>2, <2>1, <2>2, <2>3, <2>5, <2>6 DEF ConfiguringInv
  <2> QED BY <1>4, <2>4, <2>7 DEF SessionInv
<1> QED BY <1>3, <1>5, <1>6

LEMMA EndConfigSessionInv ==
    ASSUME TypeInv, SlotsConsecutive, SessionInv, EndConfig
    PROVE  SessionInv'
<1>1. PICK ret \in BOOLEAN : Register(ret)
  BY DEF EndConfig
<1>2. smpc = "config" /\ smpc' = "raise" /\ UNCHANGED <<cmd, running, slave_num>>
  BY DEF EndConfig
<1>3. /\ cmd \in Command /\ cmd.type = "DEV_CONF" /\ cmd.dev \in Dev
      /\ slave_dev \in Seq(SlaveDev) /\ session \in Seq(SentConfig) /\ timeSlot \in Nat
  BY <1>2 DEF TypeInv, TypeOK, SmTypeOK, SmConfigInv, Command
<1>4. /\ ~running /\ Sound(cmd) /\ Len(session) = cmd.k - 1
      /\ slave_dev_index = Len(session) /\ slave_num = cmd.slave_dev_num
      /\ cmd.start = IF Len(session) = 0 THEN 0 ELSE LastLaid.start + LastLaid.cond
  BY <1>2 DEF SessionInv, ConfiguringInv
<1> DEFINE dev == [id |-> cmd.dev, timeSlot |-> timeSlot]
           sent == [dev |-> cmd.dev, timeSlot |-> timeSlot, start |-> cmd.start,
                    cond |-> cmd.cond, total |-> cmd.total, acked |-> ret]
           n == Len(session)
<1>5. dev \in SlaveDev /\ sent \in SentConfig
  BY <1>1, <1>3 DEF SlaveDev, SentConfig, Command
<1>6. n \in Nat /\ Len(slave_dev) = n /\ timeSlot = n
  BY <1>3 DEF SessionInv, LaidInv, SlotsConsecutive
<1>7. slave_dev' = Append(slave_dev, dev) /\ session' = Append(session, sent)
      /\ slave_dev_index' = n + 1
  BY <1>1, <1>4 DEF Register
<1> HIDE DEF dev, sent
<1>8. /\ Len(slave_dev') = n + 1 /\ Len(session') = n + 1
      /\ \A i \in 1..n : slave_dev'[i] = slave_dev[i] /\ session'[i] = session[i]
      /\ slave_dev'[n + 1] = dev /\ session'[n + 1] = sent
  BY <1>3, <1>5, <1>6, <1>7, AppendProperties
<1>9. /\ dev = [id |-> sent.dev, timeSlot |-> n] /\ sent.timeSlot = n
      /\ sent.start = cmd.start /\ sent.cond = cmd.cond /\ sent.total = cmd.total
  BY <1>6 DEF dev, sent
<1>10. LaidInv'
  <2> SUFFICES ASSUME NEW i \in 1..(n + 1)
               PROVE  /\ slave_dev'[i] = [id |-> session'[i].dev, timeSlot |-> i - 1]
                      /\ session'[i].timeSlot = i - 1
                      /\ session'[i].start = IF i = 1 THEN 0
                           ELSE session'[i - 1].start + session'[i - 1].cond
    BY <1>8 DEF LaidInv
  <2>1. CASE i \in 1..n
    <3>1. slave_dev'[i] = slave_dev[i] /\ session'[i] = session[i]
          /\ (i # 1 => session'[i - 1] = session[i - 1])
      BY <1>6, <1>8, <2>1
    <3>2. /\ slave_dev[i] = [id |-> session[i].dev, timeSlot |-> i - 1]
          /\ session[i].timeSlot = i - 1
          /\ session[i].start = IF i = 1 THEN 0 ELSE session[i - 1].start + session[i - 1].cond
      BY <2>1 DEF SessionInv, LaidInv
    <3>3. CASE i = 1
      BY <3>1, <3>2, <3>3
    <3>4. CASE i # 1
      <4>1. session'[i - 1] = session[i - 1]
        BY <3>1, <3>4
      <4> QED BY <3>1, <3>2, <3>4, <4>1
    <3> QED BY <3>3, <3>4
  <2>2. CASE i = n + 1
    <3>1. slave_dev'[i] = dev /\ session'[i] = sent /\ i - 1 = n
      BY <1>6, <1>8, <2>2
    <3>2. n # 0 => session'[i - 1] = LastLaid
      BY <1>6, <1>8, <3>1 DEF LastLaid
    <3>3. slave_dev'[i] = [id |-> session'[i].dev, timeSlot |-> i - 1]
          /\ session'[i].timeSlot = i - 1
      BY <1>9, <3>1
    <3>4. session'[i].start = cmd.start
      BY <1>9, <3>1
    <3>5. CASE i = 1
      <4>1. n = 0
        BY <1>6, <2>2, <3>5
      <4>2. cmd.start = 0
        BY <1>4, <4>1
      <4>3. session'[i].start = 0
        BY <3>4, <4>2
      <4> QED BY <3>3, <3>5, <4>3
    <3>6. CASE i # 1
      <4>1. n # 0
        BY <1>6, <2>2, <3>6
      <4>2. cmd.start = LastLaid.start + LastLaid.cond
        BY <1>4, <4>1
      <4>3. session'[i].start = session'[i - 1].start + session'[i - 1].cond
        BY <3>2, <3>4, <4>1, <4>2
      <4> HIDE DEF n
      <4> QED BY <3>3, <3>6, <4>3
    <3> QED BY <3>5, <3>6
  <2> QED BY <1>6, <2>1, <2>2
<1>11. LastLaid' = sent
  BY <1>8 DEF LastLaid
<1>12. /\ cmd.k = n + 1 /\ cmd.k <= cmd.slave_dev_num
       /\ Final(cmd) <=> cmd.k = cmd.slave_dev_num
       /\ cmd.slave_dev_num \in Nat
  BY <1>3, <1>4, <1>6 DEF Sound, Final, PerDevice, Command
<1>13. cfg_state' = IF Final(cmd) THEN "CONGIG_START" ELSE "CONFIG_PROCESSING"
  <2>1. cfg_state' = IF n + 1 >= cmd.slave_dev_num THEN "CONGIG_START" ELSE "CONFIG_PROCESSING"
    BY <1>4 DEF EndConfig
  <2> QED BY <1>6, <1>12, <2>1
<1>14. Final(cmd)' <=> Final(cmd)
  BY <1>2 DEF Final, PerDevice
<1>15. OpenInv'
  BY <1>2, <1>3, <1>4, <1>6, <1>7, <1>8, <1>9, <1>11, <1>12, <1>13, <1>14 DEF OpenInv
<1>16. ClosedInv'
  <2>1. Final(cmd) => cmd.start + cmd.cond = cmd.total
    BY <1>3, <1>4 DEF Sound
  <2> QED BY <1>2, <1>4, <1>6, <1>8, <1>9, <1>11, <1>12, <1>13, <1>14, <2>1 DEF ClosedInv
<1>17. ConfiguringInv'
  BY <1>2 DEF ConfiguringInv
<1> QED BY <1>10, <1>15, <1>16, <1>17 DEF SessionInv

(* A command that is no configuration, or one discarded during detection,  *)
(* finds the session closed and leaves it closed.                          *)
LEMMA OtherCommandSessionInv ==
    ASSUME TypeInv, StreamInv, SessionInv, UNCHANGED pcVars,
           NEW t, Pop(t), t # "DEV_CONF" \/ (running /\ running'),
           UNCHANGED <<slave_dev, slave_num, cfg_state, session>>, smpc' = "raise"
    PROVE  SessionInv'
<1>1. Follows(cmd, cmd') /\ cmd'.type = t /\ smpc = "drain"
  BY PopStreamInv DEF Pop
<1>2. cfg_state = "CONGIG_START"
  <2> SUFFICES ASSUME cfg_state # "CONGIG_START" PROVE FALSE
    OBVIOUS
  <2>1. cfg_state = "CONFIG_PROCESSING"
    BY DEF TypeInv, TypeOK, SmTypeOK, CfgState
  <2>2. ~running /\ cmd.type = "DEV_CONF" /\ ~Final(cmd)
    BY <1>1, <2>1 DEF SessionInv, OpenInv
  <2> QED BY <1>1, <2>2 DEF Follows
<1>3. LaidInv' /\ ConfiguringInv' /\ OpenInv'
  BY <1>2 DEF SessionInv, LaidInv, ConfiguringInv, OpenInv
<1>4. ClosedInv'
  BY <1>1, <1>2 DEF SessionInv, ClosedInv, LastLaid
<1> QED BY <1>3, <1>4 DEF SessionInv

LEMMA ExecuteTilesInv ==
    ASSUME TypeInv, SlotsConsecutive, StreamInv, SessionInv, Execute, UNCHANGED pcVars
    PROVE  StreamInv' /\ SessionInv'
<1>u. ASSUME UNCHANGED <<data_forward_queue, cmd>> PROVE StreamInv'
  BY <1>u DEF StreamInv, QueueInv, NewestInv, CfgInv, Newest, Midway, Sound, Follows, Final,
              PerDevice, pcVars
<1>1. CASE BeginConfig
  BY <1>1, BeginConfigSessionInv, PopStreamInv DEF BeginConfig
<1>2. CASE EndConfig
  BY <1>2, <1>u, EndConfigSessionInv DEF EndConfig
<1>3. CASE SetMode
  BY <1>3, OtherCommandSessionInv, PopStreamInv DEF SetMode, cfgVars
<1>4. CASE DiscardWhileRunning
  <2>1. PICK t : Pop(t)
    BY <1>4 DEF DiscardWhileRunning
  <2>2. running /\ running' /\ smpc' = "raise"
        /\ UNCHANGED <<slave_dev, slave_num, cfg_state, session>>
    BY <1>4 DEF DiscardWhileRunning, cfgVars
  <2> QED BY <2>1, <2>2, OtherCommandSessionInv, PopStreamInv
<1>5. CASE IgnoreReset
  BY <1>5, OtherCommandSessionInv, PopStreamInv DEF IgnoreReset, cfgVars
<1>6. CASE Enable
  BY <1>6, OtherCommandSessionInv, PopStreamInv DEF Enable
<1>7. CASE Disable
  BY <1>7, OtherCommandSessionInv, PopStreamInv DEF Disable, cfgVars
<1>8. CASE RaiseForward
  BY <1>8, <1>u, SessionUntouched DEF RaiseForward, cfgVars
<1>9. CASE QueueDrained
  BY <1>9, <1>u, SessionUntouched DEF QueueDrained, msgVars, cfgVars
<1> QED BY <1>1, <1>2, <1>3, <1>4, <1>5, <1>6, <1>7, <1>8, <1>9 DEF Execute

LEMMA MeasureTilesInv ==
    ASSUME StreamInv, SessionInv, Measure \/ TimerFires, UNCHANGED pcVars
    PROVE  StreamInv' /\ SessionInv'
<1>1. UNCHANGED <<data_forward_queue, cmd, running, slave_dev, slave_dev_index, slave_num,
                  cfg_state, session>>
  BY DEF Measure, TimerFires, NoToken, BeginSync, BeginRead, ReadDevice, EndRead, EndSync,
         Quiet, msgVars, cfgVars
<1>2. smpc' = smpc \/ (smpc # "config" /\ smpc' # "config")
  BY DEF Measure, TimerFires, NoToken, BeginSync, BeginRead, ReadDevice, EndRead, EndSync
<1>3. StreamInv'
  BY <1>1 DEF StreamInv, QueueInv, NewestInv, CfgInv, Newest, Midway, Sound, Follows, Final,
              PerDevice, pcVars
<1>4. SessionInv'
  BY <1>1, <1>2 DEF SessionInv, LaidInv, ConfiguringInv, OpenInv, ClosedInv, LastLaid, Sound,
                    Final, PerDevice
<1> QED BY <1>3, <1>4

LEMMA TilesInvariant == Spec => [](TypeInv /\ TilesInv)
<1>1. Init => TypeInv /\ TilesInv
  BY InitTypeInv, InitStreamInv, InitSessionInv DEF TilesInv
<1>2. TypeInv /\ SlotsConsecutive /\ TilesInv /\ [Next]_vars => TypeInv' /\ TilesInv'
  <2> SUFFICES ASSUME TypeInv, SlotsConsecutive, TilesInv, [Next]_vars, ~lost'
               PROVE  StreamInv' /\ SessionInv'
    BY NextTypeInv DEF TilesInv
  <2>1. ~lost
    BY DEF Next, PcStep, PcNext, Receive, AddCommand, AddTimeout, Woken, WaitTimeout, CheckBit,
           Respond, SmTask, Timer, pcVars, vars
  <2>2. StreamInv /\ SessionInv
    BY <2>1 DEF TilesInv
  <2>3. CASE PcStep
    <3>1. SessionInv'
      BY <2>2, <2>3 DEF PcStep, smVars, SessionInv, LaidInv, ConfiguringInv, OpenInv, ClosedInv,
                        LastLaid, Sound, Final, PerDevice
    <3> QED BY <2>2, <2>3, <3>1, PcStepStreamInv
  <2>4. CASE SmTask
    BY <2>2, <2>4, ExecuteTilesInv, MeasureTilesInv DEF SmTask, SmStep
  <2>5. CASE Timer
    BY <2>2, <2>5, MeasureTilesInv DEF Timer
  <2>6. CASE UNCHANGED vars
    <3>1. StreamInv'
      BY <2>2, <2>6 DEF vars, StreamInv, QueueInv, NewestInv, CfgInv, Newest, Midway, Sound,
                        Follows, Final, PerDevice
    <3>2. SessionInv'
      BY <2>2, <2>6 DEF vars, SessionInv, LaidInv, ConfiguringInv, OpenInv, ClosedInv, LastLaid,
                        Sound, Final, PerDevice
    <3> QED BY <3>1, <3>2
  <2> QED BY <2>3, <2>4, <2>5, <2>6 DEF Next
<1> QED BY <1>1, <1>2, SlotsAreConsecutive, PTL DEF Spec

(* Unless a command was lost to a full queue, a finished session holds the *)
(* announced number of devices, and their lines tile the harness.          *)
THEOREM SessionsTile == Spec => []SessionTiles
<1>1. TypeInv /\ TilesInv => SessionTiles
  <2> SUFFICES ASSUME TypeInv, SessionInv, cfg_state = "CONGIG_START", smpc # "config",
                      session # <<>>
               PROVE  /\ Len(session) = slave_num
                      /\ LaidInv
                      /\ LastLaid.start + LastLaid.cond = LastLaid.total
    BY DEF SessionTiles, TilesInv, LaidInv, LastLaid
  <2>1. Len(session) > 0
    BY EmptySeq DEF TypeInv, TypeOK, SmTypeOK
  <2> QED BY <2>1 DEF SessionInv, ClosedInv
<1> QED BY <1>1, TilesInvariant, PTL
=============================================================================
