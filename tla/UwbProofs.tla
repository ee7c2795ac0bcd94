------------------------------ MODULE UwbProofs ------------------------------
(***************************************************************************)
(* The driver and the chip, for every number of frames.                    *)
(*                                                                         *)
(* A frame is given to the chip once.  __send_packet sends the packet of   *)
(* the command before again when the new one was not built.  That packet   *)
(* is a frame only between data_transmit and the set_recv_mode that        *)
(* follows it (PacketInv), and nothing is refused in between: while it is  *)
(* awaited it was built.  So the commands on their way to the chip carry   *)
(* frames in ascending order (OrderInv).                                   *)
(*                                                                         *)
(* The parser, wherever it is in a packet, knows what it has read of it    *)
(* (ParserInv), and what is on the line is what the chip says (LineInv).   *)
(* Until a wait times out there is one command or one response under way   *)
(* while the driver waits, and none when it does not (ExchangeInv).  The   *)
(* frames heard are those delivered and those on the line (DataInv).       *)
(***************************************************************************)
EXTENDS Uwb, SequenceTheorems, TLAPS

Packets == [id : {RESET, TX, RX}, frame : 0..MaxFrames]

DriverTypes ==
    /\ frame \in 0..MaxFrames /\ complete \in BOOLEAN /\ packet \in Packets
    /\ uwbs_sta \in {"BOOT", "READY"} /\ op \in {RESET, TX, RX}
    /\ cmds \in Seq(Packets) /\ got \in Seq(Nat)

PacketInv ==
    packet.id = TX => /\ uwbs_sta = "READY"
                      /\ pc = "listen" \/ (pc = "rsp" /\ op = TX /\ complete)

(* The frames the chip was given are below those of the commands c, which  *)
(* ascend, and none is above f.                                            *)
Ordered(g, c, f) ==
    /\ \A i \in DOMAIN g : g[i] <= f
    /\ \A i, j \in DOMAIN g : i < j => g[i] < g[j]
    /\ \A i \in DOMAIN c : c[i].id = TX => c[i].frame <= f
    /\ \A i, j \in DOMAIN c : i < j /\ c[i].id = TX /\ c[j].id = TX => c[i].frame < c[j].frame
    /\ \A i \in DOMAIN g, j \in DOMAIN c : c[j].id = TX => g[i] < c[j].frame

OrderInv == Ordered(got, cmds, frame)

ReplayInv == DriverTypes /\ PacketInv /\ OrderInv

(* What the chip says.  A notification of data has its frame last; the     *)
(* second of two has only that.                                            *)
UciPackets == [mt : {"RSP", "NTF"}, pbf : {0, 1}, id : {RESET, TX, RX, STATUS_NTF},
               payload : Seq(Nat)]

App(p)     == p.mt = "NTF" /\ p.id = RX
FrameOf(p) == p.payload[Len(p.payload)]
Second(p)  == App(p) /\ Len(p.payload) = 1

Sayable(p) ==
    /\ p.mt = "RSP" => p.id # STATUS_NTF
    /\ \/ Len(p.payload) = 1 /\ p.pbf = 0
       \/ Len(p.payload) = 3 /\ App(p)

(* A packet with another to follow is followed by the second part of it.   *)
LineInv ==
    /\ line \in Seq(UciPackets)
    /\ \A i \in DOMAIN line : Sayable(line[i])
    /\ \A i \in DOMAIN line : line[i].pbf = 1 =>
           i + 1 \in DOMAIN line /\ Second(line[i + 1])
           /\ FrameOf(line[i + 1]) = FrameOf(line[i])
    /\ \A i \in DOMAIN line : Second(line[i]) /\ i > 1 => line[i - 1].pbf = 1
    /\ ~segmented => \A i \in DOMAIN line : line[i].pbf = 0 /\ ~Second(line[i])

Parsers == [sta : {"START", "HDR", "OID", "LEN", "PAYLOAD"}, mt : {"RSP", "NTF"},
            gid : {0, 3}, oid : {0, 1}, last : BOOLEAN, len : 0..3, n : 0..3, recv : BOOLEAN]

(* The parser q has read the first o bytes of packet p, and its payload so *)
(* far into r.                                                             *)
HasRead(p, o, q, r) ==
    /\ o \in 0..(Size(p) - 1)
    /\ o = 0 => q.sta = IF Second(p) THEN "HDR" ELSE "START"
    /\ o = 1 => q.sta = "OID"
    /\ o = 2 => q.sta = "LEN"
    /\ o > 2 => q.sta = "PAYLOAD" /\ q.len = Len(p.payload) /\ q.n = o - 3
    /\ o > 0 => /\ q.mt = p.mt /\ q.gid = p.id.gid /\ (q.last <=> p.pbf = 0)
                /\ q.recv <=> Second(p)
    /\ o > 1 => q.oid = p.id.oid
    /\ Second(p) => q.recv /\ q.oid = 1 /\ Len(r) = 3 /\ r[3] = FrameOf(p)
    /\ ~Second(p) /\ o > 0 => Len(r) = IF o <= 3 THEN 0 ELSE o - 3

ParserInv ==
    /\ parser \in Parsers /\ rx_payload \in Seq(Nat) /\ Len(rx_payload) <= 4
    /\ line = <<>> => off = 0 /\ parser.sta = "START"
    /\ line # <<>> => HasRead(Head(line), off, parser, rx_payload)

(* Until a wait times out: what is under way, whose response is awaited,   *)
(* which frames count as sent, and when the chip listens.                  *)
Responses == {i \in DOMAIN line : line[i].mt = "RSP"}

UnderWay ==
    /\ pc # "rsp" => cmds = <<>> /\ Responses = {}
    /\ cmds # <<>> => cmds = <<packet>> /\ Responses = {}
    /\ \A i, j \in Responses : i = j
    /\ \A i \in Responses : line[i].id = packet.id

Awaited ==
    pc = "rsp" => IF complete THEN op = packet.id /\ (op = TX => packet.frame = frame)
                              ELSE op = TX /\ packet.id # TX

Counted ==
    answered = success \cup IF pc = "rsp" /\ packet.id = TX /\ cmds = <<>> THEN {frame} ELSE {}

Listening ==
    \/ skipped \/ refused \/ mode = "rx"
    \/ ~(pc = "loop" \/ (pc = "rsp" /\ op = RX /\ cmds = <<>>))

ExchangeInv == ~late => UnderWay /\ Awaited /\ Counted /\ Listening

(* The frames up to k have been read from the line and the others are on   *)
(* it, but for the second part of one.                                     *)
Halfway == line # <<>> /\ Second(Head(line))

OnLine(k) ==
    /\ \A i \in DOMAIN line : App(line[i]) => FrameOf(line[i]) \in (k + 1)..Len(heard)
    /\ \A i, j \in DOMAIN line : i < j /\ App(line[i]) /\ App(line[j]) =>
           IF line[i].pbf = 1 THEN FrameOf(line[i]) <= FrameOf(line[j])
                              ELSE FrameOf(line[i]) < FrameOf(line[j])
    /\ \A f \in (k + 1)..Len(heard) :
           \E i \in DOMAIN line : App(line[i]) /\ line[i].pbf = 0 /\ FrameOf(line[i]) = f

(* The data d: of the frames up to k, and perhaps of the next.             *)
Given(d, k, next) ==
    /\ \A i \in DOMAIN d : d[i] <= IF next THEN k + 1 ELSE k
    /\ \A i, j \in DOMAIN d : i < j => d[i] <= d[j]
    /\ \A f \in 1..k : \E i \in DOMAIN d : d[i] = f

Exact(d, k) == Len(d) = k /\ \A i \in DOMAIN d : d[i] = i

ReadUpTo(k) ==
    /\ OnLine(k)
    /\ Len(transparent_data) <= 5 * k + IF Halfway THEN off ELSE 0
    /\ Given(delivered \o transparent_data, k, Halfway)
    /\ ~segmented => Exact(delivered \o transparent_data, k)

DataInv ==
    /\ Len(heard) <= MaxHeard /\ \A i \in DOMAIN heard : heard[i] = i
    /\ transparent_data \in Seq(1..MaxHeard) /\ delivered \in Seq(1..MaxHeard)
    /\ \E k \in 0..Len(heard) : ReadUpTo(k)

-----------------------------------------------------------------------------
(* What the driver and the chip do to the commands keeps them in order.    *)

USE UwbAssumption DEF UwbAssumption

LEMMA PacketFrame ==
    ASSUME NEW c \in Seq(Packets)
    PROVE  \A i \in DOMAIN c : c[i] \in Packets /\ c[i].frame \in Nat
  <1>1. \A i \in DOMAIN c : c[i] \in Packets
    BY ElementOfSeq, LenProperties
  <1> QED  BY <1>1 DEF Packets

LEMMA AppendOther ==
    ASSUME NEW g \in Seq(Nat), NEW c \in Seq(Packets), NEW f \in Nat, NEW p \in Packets,
           Ordered(g, c, f), p.id # TX
    PROVE  Ordered(g, Append(c, p), f)
  <1>1. /\ Append(c, p) \in Seq(Packets) /\ Len(Append(c, p)) = Len(c) + 1
        /\ \A i \in 1..Len(c) : Append(c, p)[i] = c[i]
        /\ Append(c, p)[Len(c) + 1] = p
    BY AppendProperties
  <1>2. /\ DOMAIN Append(c, p) = 1..(Len(c) + 1) /\ DOMAIN c = 1..Len(c) /\ Len(c) \in Nat
    BY <1>1, LenProperties
  <1>3. \A i \in DOMAIN Append(c, p) : Append(c, p)[i].id = TX => i \in 1..Len(c)
    BY <1>1, <1>2
  <1> QED  BY <1>1, <1>2, <1>3 DEF Ordered

LEMMA AppendNext ==
    ASSUME NEW g \in Seq(Nat), NEW c \in Seq(Packets), NEW f \in Nat, NEW p \in Packets,
           Ordered(g, c, f), p.frame = f + 1
    PROVE  Ordered(g, Append(c, p), f + 1)
  <1>1. /\ Len(Append(c, p)) = Len(c) + 1 /\ Append(c, p) \in Seq(Packets)
        /\ \A i \in 1..Len(c) : Append(c, p)[i] = c[i]
        /\ Append(c, p)[Len(c) + 1] = p
    BY AppendProperties
  <1>2. /\ DOMAIN Append(c, p) = 1..(Len(c) + 1) /\ DOMAIN c = 1..Len(c) /\ Len(c) \in Nat
        /\ \A i \in 1..Len(c) : c[i].frame \in Nat
        /\ \A i \in DOMAIN g : g[i] \in Nat
    <2>1. DOMAIN Append(c, p) = 1..(Len(c) + 1) /\ DOMAIN c = 1..Len(c) /\ Len(c) \in Nat
      BY <1>1, LenProperties
    <2>2. \A i \in DOMAIN g : g[i] \in Nat
      BY ElementOfSeq, LenProperties
    <2> QED  BY <2>1, <2>2, PacketFrame
  <1>3. \A i \in DOMAIN g : g[i] < f + 1
    BY <1>2 DEF Ordered
  <1>4. \A i \in DOMAIN c : c[i].id = TX => c[i].frame < f + 1
    BY <1>2 DEF Ordered
  <1>5. \A i \in DOMAIN Append(c, p) : Append(c, p)[i].id = TX => Append(c, p)[i].frame <= f + 1
    BY <1>1, <1>2, <1>4
  <1>6. \A i, j \in DOMAIN Append(c, p) :
            i < j /\ Append(c, p)[i].id = TX /\ Append(c, p)[j].id = TX
                => Append(c, p)[i].frame < Append(c, p)[j].frame
    <2> TAKE i, j \in DOMAIN Append(c, p)
    <2> HAVE i < j /\ Append(c, p)[i].id = TX /\ Append(c, p)[j].id = TX
    <2>1. i \in 1..Len(c)
      BY <1>2
    <2>2. CASE j = Len(c) + 1
      BY <2>1, <2>2, <1>1, <1>2, <1>4
    <2>3. CASE j # Len(c) + 1
      BY <2>1, <2>3, <1>1, <1>2 DEF Ordered
    <2> QED  BY <2>2, <2>3
  <1>7. \A i \in DOMAIN g, j \in DOMAIN Append(c, p) :
            Append(c, p)[j].id = TX => g[i] < Append(c, p)[j].frame
    BY <1>1, <1>2, <1>3 DEF Ordered
  <1> QED  BY <1>2, <1>3, <1>5, <1>6, <1>7 DEF Ordered

LEMMA TakeOne ==
    ASSUME NEW g \in Seq(Nat), NEW c \in Seq(Packets), NEW f \in Nat, c # <<>>,
           Ordered(g, c, f)
    PROVE  /\ Ordered(g, Tail(c), f)
           /\ Head(c).id = TX => Ordered(Append(g, Head(c).frame), Tail(c), f)
  <1>1. /\ Head(c) = c[1] /\ Head(c) \in Packets /\ Tail(c) \in Seq(Packets)
        /\ Len(c) \in Nat \ {0} /\ Len(Tail(c)) = Len(c) - 1
        /\ \A i \in 1..Len(Tail(c)) : Tail(c)[i] = c[i + 1]
    BY HeadTailProperties, EmptySeq, LenProperties
  <1>2. /\ DOMAIN c = 1..Len(c) /\ DOMAIN Tail(c) = 1..(Len(c) - 1)
        /\ \A i \in DOMAIN Tail(c) : i + 1 \in DOMAIN c /\ Tail(c)[i] = c[i + 1] /\ i \in Nat
    BY <1>1, LenProperties
  <1>3. Ordered(g, Tail(c), f)
    BY <1>1, <1>2 DEF Ordered
  <1>4. ASSUME Head(c).id = TX
        PROVE  Ordered(Append(g, Head(c).frame), Tail(c), f)
    <2> DEFINE e == Head(c).frame
               h == Append(g, e)
    <2>0. 1 \in DOMAIN c /\ c[1].id = TX /\ e = c[1].frame
      BY <1>1, <1>2, <1>4
    <2>1. e \in Nat /\ e <= f /\ \A i \in DOMAIN g : g[i] < e
      <3>1. e \in Nat
        BY <2>0, PacketFrame
      <3>2. e <= f
        BY <2>0 DEF Ordered
      <3>3. \A i \in DOMAIN g : g[i] < e
        BY <2>0 DEF Ordered
      <3> QED  BY <3>1, <3>2, <3>3
    <2>2. \A j \in DOMAIN Tail(c) : Tail(c)[j].id = TX => e < Tail(c)[j].frame
      <3> TAKE j \in DOMAIN Tail(c)
      <3>1. 1 \in DOMAIN c /\ j + 1 \in DOMAIN c /\ 1 < j + 1
        BY <1>1, <1>2
      <3>2. c[1].id = TX /\ c[j + 1].id = TX => c[1].frame < c[j + 1].frame
        BY <3>1 DEF Ordered
      <3> QED  BY <3>2, <1>1, <1>2, <1>4
    <2>3. /\ DOMAIN h = 1..(Len(g) + 1) /\ DOMAIN g = 1..Len(g) /\ Len(g) \in Nat
          /\ \A i \in 1..Len(g) : h[i] = g[i]
          /\ h[Len(g) + 1] = e
      BY <2>1, AppendProperties, LenProperties
    <2> HIDE DEF e, h
    <2>4. \A i, j \in DOMAIN h : i < j => h[i] < h[j]
      <3> TAKE i, j \in DOMAIN h
      <3> HAVE i < j
      <3>1. i \in DOMAIN g
        BY <2>3
      <3>2. CASE j = Len(g) + 1
        BY <3>1, <3>2, <2>1, <2>3
      <3>3. CASE j # Len(g) + 1
        BY <3>1, <3>3, <2>3 DEF Ordered
      <3> QED  BY <3>2, <3>3
    <2>5. \A i \in DOMAIN h : h[i] <= f
      <3>1. \A i \in DOMAIN g : g[i] <= f
        BY DEF Ordered
      <3> QED  BY <3>1, <2>1, <2>3
    <2>6. \A i \in DOMAIN h, j \in DOMAIN Tail(c) : Tail(c)[j].id = TX => h[i] < Tail(c)[j].frame
      <3>1. \A i \in DOMAIN g, j \in DOMAIN Tail(c) :
                Tail(c)[j].id = TX => g[i] < Tail(c)[j].frame
        BY <1>3 DEF Ordered
      <3>2. \A i \in DOMAIN h : (i \in DOMAIN g /\ h[i] = g[i]) \/ h[i] = e
        BY <2>3
      <3> QED  BY <3>1, <3>2, <2>2
    <2>7. Ordered(h, Tail(c), f)
      BY <2>4, <2>5, <2>6, <1>3 DEF Ordered
    <2> QED  BY <2>7 DEF h, e
  <1> QED  BY <1>3, <1>4

LEMMA Emptied ==
    ASSUME NEW g, NEW c, NEW f, Ordered(g, c, f)
    PROVE  Ordered(g, <<>>, f)
  BY DEF Ordered

LEMMA DistinctIds == RESET # TX /\ RX # TX /\ RESET # RX
  <1>1. RESET.gid = 0 /\ TX.gid = 3 /\ RX.gid = 3 /\ TX.oid = 0 /\ RX.oid = 1
    BY DEF RESET, TX, RX
  <1> QED  BY <1>1

-----------------------------------------------------------------------------

LEMMA ReplayInit == Init => ReplayInv
  <1> SUFFICES ASSUME Init PROVE ReplayInv
    OBVIOUS
  <1>1. cmds \in Seq(Packets) /\ got \in Seq(Nat)
    BY EmptySeq DEF Init
  <1>p. packet \in Packets
    BY DEF Init, Packets
  <1>2. DriverTypes
    <2>1. frame \in 0..MaxFrames
      BY DEF Init
    <2>2. complete \in BOOLEAN /\ uwbs_sta \in {"BOOT", "READY"} /\ op \in {RESET, TX, RX}
      BY DEF Init
    <2> QED  BY <1>1, <1>p, <2>1, <2>2 DEF DriverTypes
  <1>3. PacketInv
    BY DistinctIds DEF Init, PacketInv
  <1>4. OrderInv
    BY DEF Init, OrderInv, Ordered
  <1> QED  BY <1>2, <1>3, <1>4 DEF ReplayInv

(* The hardware reset happens in reset() only.                             *)
LEMMA HardwareKeeps ==
    ASSUME ReplayInv, Hardware, UNCHANGED <<uwbs_sta, cmdVars, frame, got>>,
           packet.id = TX => pc' = "listen"
    PROVE  ReplayInv'
  <1> USE DEF ReplayInv, DriverTypes, cmdVars
  <1>1. cmds' \in Seq(Packets)
    <2>1. CASE pc' = "hard"
      <3>1. cmds' = <<>>
        BY <2>1, Zenon DEF Hardware
      <3> QED  BY <3>1, EmptySeq
    <2>2. CASE pc' # "hard"
      BY <2>2 DEF Hardware
    <2> QED  BY <2>1, <2>2
  <1>2. OrderInv'
    BY Emptied DEF Hardware, OrderInv
  <1>3. PacketInv'
    BY DEF PacketInv
  <1> QED  BY <1>1, <1>2, <1>3

(* A command that carries no frame.                                        *)
LEMMA SendsOther ==
    ASSUME ReplayInv, NEW id \in {RESET, RX}, SendCommand(id, 0, TRUE),
           uwbs_sta' \in {"BOOT", "READY"}, UNCHANGED <<frame, got>>
    PROVE  ReplayInv'
  <1> USE DEF ReplayInv, DriverTypes
  <1>1. /\ packet' = [id |-> id, frame |-> 0] /\ cmds' = Append(cmds, packet')
        /\ complete' = TRUE /\ op' = id
    BY DEF SendCommand
  <1>2. packet' \in Packets /\ packet'.id # TX
    BY <1>1, DistinctIds DEF Packets
  <1>3. Ordered(got, Append(cmds, packet'), frame)
    BY <1>2, AppendOther DEF OrderInv
  <1>4. cmds' \in Seq(Packets)
    BY <1>1, <1>2, AppendProperties
  <1>5. OrderInv'
    BY <1>1, <1>3 DEF OrderInv
  <1>6. PacketInv'
    BY <1>2 DEF PacketInv
  <1> QED  BY <1>1, <1>2, <1>4, <1>5, <1>6

LEMMA ReplayStep ==
    ASSUME ReplayInv, [Next]_vars
    PROVE  ReplayInv'
  <1> USE DEF ReplayInv, DriverTypes
  <1>1. CASE Reset
    BY <1>1, SendsOther DEF Reset, histVars
  <1>2. CASE SetRecvMode
    <2>1. CASE uwbs_sta = "READY"
      BY <1>2, <2>1, SendsOther DEF SetRecvMode
    <2>2. CASE uwbs_sta # "READY"
      BY <1>2, <2>2 DEF SetRecvMode, cmdVars, OrderInv, PacketInv
    <2> QED  BY <2>1, <2>2
  <1>3. CASE Transmit
    <2>0. packet.id # TX
      BY <1>3 DEF Transmit, PacketInv
    <2>f. Ordered(got, cmds, frame + 1)
      <3>1. /\ \A i \in DOMAIN got : got[i] \in Nat
            /\ \A i \in DOMAIN cmds : cmds[i].frame \in Nat
        BY ElementOfSeq, LenProperties, PacketFrame
      <3> QED  BY <3>1 DEF OrderInv, Ordered
    <2>1. CASE uwbs_sta = "READY"
      <3>1. PICK fits \in BOOLEAN : SendCommand(TX, frame + 1, fits)
        BY <1>3, <2>1 DEF Transmit
      <3>2. CASE fits
        <4>1. /\ packet' = [id |-> TX, frame |-> frame + 1] /\ cmds' = Append(cmds, packet')
              /\ op' = TX /\ complete' = TRUE /\ pc' = "rsp"
          BY <3>1, <3>2 DEF SendCommand
        <4>2. frame + 1 \in 0..MaxFrames /\ frame' = frame + 1 /\ UNCHANGED <<uwbs_sta, got>>
          BY <1>3 DEF Transmit
        <4>3. packet' \in Packets
          BY <4>1, <4>2 DEF Packets
        <4>4. Ordered(got, Append(cmds, packet'), frame + 1)
          BY <4>1, <4>3, AppendNext DEF OrderInv
        <4>5. cmds' \in Seq(Packets)
          BY <4>1, <4>3, AppendProperties
        <4>6. OrderInv'
          BY <4>1, <4>2, <4>4 DEF OrderInv
        <4>7. PacketInv'
          BY <2>1, <4>1, <4>2 DEF PacketInv
        <4> QED  BY <4>1, <4>2, <4>3, <4>5, <4>6, <4>7
      <3>3. CASE ~fits
        <4>1. packet' = packet
          BY <3>1, <3>3 DEF SendCommand
        <4>2. Ordered(got, Append(cmds, packet'), frame + 1)
          BY <4>1, <2>0, <2>f, AppendOther
        <4> QED  BY <1>3, <2>0, <3>1, <3>3, <4>1, <4>2, AppendProperties
                    DEF Transmit, SendCommand, OrderInv, PacketInv
      <3> QED  BY <3>2, <3>3
    <2>2. CASE uwbs_sta # "READY"
      BY <1>3, <2>0, <2>2, <2>f DEF Transmit, cmdVars, OrderInv, PacketInv
    <2> QED  BY <2>1, <2>2
  <1>4. CASE Parse
    <2>1. UNCHANGED <<frame, got>> /\ pc # "listen"
      BY <1>4 DEF Parse
    <2>2. CASE Responded(parser') /\ pc = "rsp"
      <3>0. UNCHANGED <<uwbs_sta, op, packet, complete>>
        BY <2>2 DEF Responded, cmdVars
      <3>1. CASE Checks(parser') /\ complete /\ UNCHANGED cmds
                 /\ pc' = IF op = RESET THEN "ready" ELSE After(op)
        BY <2>1, <2>2, <3>0, <3>1, DistinctIds DEF After, OrderInv, PacketInv
      <3>2. CASE ~complete /\ cmds' = Append(cmds, packet) /\ UNCHANGED pc
        <4>1. packet.id # TX
          BY <2>2, <3>2 DEF PacketInv
        <4>2. Ordered(got, Append(cmds, packet), frame)
          BY <4>1, AppendOther DEF OrderInv
        <4> QED  BY <2>1, <3>0, <3>2, <4>1, <4>2, AppendProperties DEF OrderInv, PacketInv
      <3>3. CASE pc' = After(op) /\ Hardware
        <4>1. packet.id = TX => pc' = "listen"
          BY <2>1, <3>3, DistinctIds DEF After, PacketInv
        <4> QED  BY <2>1, <3>0, <3>3, <4>1, HardwareKeeps DEF cmdVars
      <3> QED  BY <2>2, <3>1, <3>2, <3>3 DEF Responded
    <2>3. CASE Notified(parser')
      BY <2>1, <2>3 DEF Notified, cmdVars, OrderInv, PacketInv
    <2>4. CASE Drop
      BY <2>1, <2>4 DEF Drop, cmdVars, OrderInv, PacketInv
    <2> QED  BY <1>4, <2>2, <2>3, <2>4 DEF Parse, Answers
  <1>5. CASE BecameReady
    BY <1>5 DEF BecameReady, cmdVars, histVars, chipVars, OrderInv, PacketInv
  <1>6. CASE WaitTimeout
    <2>0. UNCHANGED <<frame, got>>
      BY <1>6 DEF WaitTimeout
    <2>1. CASE uwbs_sta' = "BOOT" /\ SendCommand(RESET, 0, TRUE)
      BY <2>0, <2>1, SendsOther
    <2>2. CASE pc = "rsp" /\ pc' = After(op) /\ Hardware /\ UNCHANGED <<uwbs_sta, cmdVars>>
      <3>1. packet.id = TX => pc' = "listen"
        BY <2>2, DistinctIds DEF After, PacketInv
      <3> QED  BY <2>0, <2>2, <3>1, HardwareKeeps
    <2>3. CASE pc \in {"ready", "hard"} /\ Hardware /\ UNCHANGED <<uwbs_sta, cmdVars>>
      BY <2>0, <2>3, HardwareKeeps DEF PacketInv
    <2> QED  BY <1>6, <2>1, <2>2, <2>3 DEF WaitTimeout
  <1>7. CASE GetRecvData
    BY <1>7 DEF GetRecvData, cmdVars, histVars, chipVars, OrderInv, PacketInv
  <1>8. CASE ChipBoot \/ ChipHears
    <2>1. UNCHANGED <<uwbs_sta, pc, op, packet, complete, frame, cmds, got>>
      BY <1>8 DEF ChipBoot, ChipHears, cmdVars, histVars
    <2> QED  BY <2>1 DEF OrderInv, PacketInv
  <1>9. CASE ChipExecute
    <2>1. /\ cmds # <<>> /\ cmds' = Tail(cmds) /\ UNCHANGED <<uwbs_sta, pc, cmdVars, frame>>
          /\ got' = got \/ (Head(cmds).id = TX /\ got' = Append(got, Head(cmds).frame))
      BY <1>9 DEF ChipExecute, histVars
    <2>2. Head(cmds) \in Packets /\ Tail(cmds) \in Seq(Packets)
      BY <2>1, HeadTailProperties
    <2>3. Head(cmds).frame \in Nat
      BY <2>2 DEF Packets
    <2>4. Append(got, Head(cmds).frame) \in Seq(Nat)
      BY <2>3, AppendProperties
    <2>5. frame \in Nat /\ Ordered(got, cmds, frame) /\ frame' = frame
      BY <2>1 DEF OrderInv
    <2>7. /\ Ordered(got, Tail(cmds), frame)
          /\ Head(cmds).id = TX => Ordered(Append(got, Head(cmds).frame), Tail(cmds), frame)
      BY <2>1, <2>5, TakeOne
    <2>8. got' \in Seq(Nat) /\ Ordered(got', cmds', frame')
      <3>1. CASE got' = got
        BY <2>1, <2>5, <2>7, <3>1
      <3>2. CASE Head(cmds).id = TX /\ got' = Append(got, Head(cmds).frame)
        BY <2>1, <2>4, <2>5, <2>7, <3>2
      <3> QED  BY <2>1, <3>1, <3>2
    <2>6. PacketInv'
      BY <2>1 DEF cmdVars, PacketInv
    <2> QED  BY <2>1, <2>2, <2>6, <2>8 DEF OrderInv, cmdVars
  <1>10. CASE UNCHANGED vars
    BY <1>10 DEF vars, cmdVars, histVars, chipVars, OrderInv, PacketInv
  <1> QED  BY <1>1, <1>2, <1>3, <1>4, <1>5, <1>6, <1>7, <1>8, <1>9, <1>10 DEF Next, Driver

(* A frame is given to the chip once, although __send_packet sends the     *)
(* packet before again for a frame that does not fit.                      *)
THEOREM FramesAreNotReplayed == Spec => []NeverReplayed
  <1>1. ReplayInv => NeverReplayed
    BY DEF ReplayInv, OrderInv, Ordered, NeverReplayed
  <1> QED  BY <1>1, ReplayInit, ReplayStep, PTL DEF Spec

-----------------------------------------------------------------------------
(* The parser.                                                             *)

HIDE UwbAssumption DEF UwbAssumption

LEMMA IdFields ==
    /\ \A i \in {RESET, TX, RX, STATUS_NTF} :
           i.gid \in {0, 3} /\ i.oid \in {0, 1} /\ i = [gid |-> i.gid, oid |-> i.oid]
    /\ RX.oid = 1
  BY DEF RESET, TX, RX, STATUS_NTF

LEMMA PacketFacts ==
    ASSUME NEW p \in UciPackets, Sayable(p)
    PROVE  /\ p.mt \in {"RSP", "NTF"} /\ p.pbf \in {0, 1} /\ p.id \in {RESET, TX, RX, STATUS_NTF}
           /\ Len(p.payload) \in {1, 3} /\ Size(p) = 3 + Len(p.payload)
           /\ \A i \in 1..Len(p.payload) : p.payload[i] \in Nat
           /\ FrameOf(p) \in Nat /\ FrameOf(p) = p.payload[Len(p.payload)]
           /\ Second(p) <=> App(p) /\ Len(p.payload) = 1
           /\ App(p) <=> p.mt = "NTF" /\ p.id = RX
           /\ Len(p.payload) = 1 => p.pbf = 0
           /\ Len(p.payload) = 3 => App(p)
  <1>1. /\ p.mt \in {"RSP", "NTF"} /\ p.pbf \in {0, 1} /\ p.id \in {RESET, TX, RX, STATUS_NTF}
        /\ p.payload \in Seq(Nat)
    BY DEF UciPackets
  <1>2. Len(p.payload) \in {1, 3}
    BY DEF Sayable
  <1>3. \A i \in 1..Len(p.payload) : p.payload[i] \in Nat
    BY <1>1, ElementOfSeq
  <1>4. Len(p.payload) \in 1..Len(p.payload)
    BY <1>2
  <1>n. p.payload[Len(p.payload)] \in Nat
    BY <1>3, <1>4
  <1>5. Second(p) <=> App(p) /\ Len(p.payload) = 1
    BY DEF Second
  <1>6. App(p) <=> p.mt = "NTF" /\ p.id = RX
    BY DEF App
  <1>7. /\ Len(p.payload) = 1 => p.pbf = 0
        /\ Len(p.payload) = 3 => App(p)
    BY DEF Sayable
  <1> QED  BY <1>1, <1>2, <1>3, <1>n, <1>5, <1>6, <1>7 DEF FrameOf, Size

LEMMA AppendNat ==
    ASSUME NEW s \in Seq(Nat), NEW x \in Nat, NEW r, r = Append(s, x)
    PROVE  /\ r \in Seq(Nat) /\ Len(r) = Len(s) + 1 /\ r[Len(s) + 1] = x
           /\ \A i \in 1..Len(s) : r[i] = s[i]
  BY AppendProperties

(* What each kind of byte does to the parser.                              *)
LEMMA ParsedHdr ==
    ASSUME parser \in Parsers, NEW b, b.f = "hdr", b.mt \in {"RSP", "NTF"}, b.gid \in {0, 3},
           NEW q, q = NextParser(b)
    PROVE  /\ q \in Parsers /\ q.sta = "OID" /\ q.mt = b.mt /\ q.gid = b.gid
           /\ q.oid = parser.oid /\ (q.last <=> b.pbf = 0)
           /\ (q.recv <=> parser.sta # "START" /\ parser.recv)
  <1>1. q = [parser EXCEPT !.sta = "OID", !.mt = b.mt, !.gid = b.gid, !.last = (b.pbf = 0),
                           !.recv = (parser.sta # "START" /\ parser.recv)]
    BY DEF NextParser
  <1>2. q \in Parsers
    BY Zenon DEF NextParser, Parsers
  <1>3. q.sta = "OID" /\ q.mt = b.mt /\ q.gid = b.gid /\ q.oid = parser.oid
    BY <1>1 DEF Parsers
  <1>4. q.last <=> b.pbf = 0
    BY <1>1 DEF Parsers
  <1>5. q.recv <=> parser.sta # "START" /\ parser.recv
    BY <1>1 DEF Parsers
  <1> QED  BY <1>2, <1>3, <1>4, <1>5

LEMMA ParsedOid ==
    ASSUME parser \in Parsers, NEW b, b.f = "oid", b.v \in {0, 1}, NEW q, q = NextParser(b)
    PROVE  /\ q \in Parsers /\ q.sta = "LEN" /\ q.mt = parser.mt /\ q.gid = parser.gid
           /\ q.oid = b.v /\ (q.last <=> parser.last) /\ (q.recv <=> parser.recv)
  <1>1. q = [parser EXCEPT !.sta = "LEN", !.oid = b.v]
    BY DEF NextParser
  <1>2. q \in Parsers
    BY <1>1 DEF Parsers
  <1>3. q.sta = "LEN" /\ q.mt = parser.mt /\ q.gid = parser.gid /\ q.oid = b.v
    BY <1>1 DEF Parsers
  <1>4. (q.last <=> parser.last) /\ (q.recv <=> parser.recv)
    BY <1>1 DEF Parsers
  <1> QED  BY <1>2, <1>3, <1>4

LEMMA ParsedLen ==
    ASSUME parser \in Parsers, NEW b, b.f = "len", b.v \in 1..3, NEW q, q = NextParser(b)
    PROVE  /\ q \in Parsers /\ q.sta = "PAYLOAD" /\ q.mt = parser.mt /\ q.gid = parser.gid
           /\ q.oid = parser.oid /\ q.len = b.v /\ q.n = 0
           /\ (q.last <=> parser.last) /\ (q.recv <=> parser.recv)
  <1>0. b.v > 0 /\ b.v # 0 /\ b.v \in 0..3 /\ 0 \in 0..3
    OBVIOUS
  <1>1. q = [parser EXCEPT !.sta = IF b.v > 0 THEN "PAYLOAD" ELSE "START", !.len = b.v, !.n = 0,
                           !.recv = (parser.recv \/ b.v = 0)]
    BY DEF NextParser
  <1>2. q \in Parsers
    BY <1>0, <1>1, Zenon DEF Parsers
  <1>3. /\ q.sta = "PAYLOAD" /\ q.mt = parser.mt /\ q.gid = parser.gid /\ q.oid = parser.oid
        /\ q.len = b.v /\ q.n = 0
    BY <1>0, <1>1 DEF Parsers
  <1>4. q.last <=> parser.last
    BY <1>1 DEF Parsers
  <1>5. q.recv <=> (parser.recv \/ b.v = 0)
    BY <1>1 DEF Parsers
  <1> QED  BY <1>0, <1>2, <1>3, <1>4, <1>5

LEMMA ParsedByte ==
    ASSUME parser \in Parsers, NEW b, b.f = "byte", parser.n + 1 \in 0..3,
           NEW q, q = NextParser(b)
    PROVE  /\ q \in Parsers /\ q.mt = parser.mt /\ q.gid = parser.gid /\ q.oid = parser.oid
           /\ (q.last <=> parser.last)
           /\ parser.n + 1 = parser.len =>
                  q.recv /\ q.sta = IF parser.last THEN "START" ELSE "HDR"
           /\ parser.n + 1 # parser.len =>
                  /\ q.sta = parser.sta /\ q.len = parser.len /\ q.n = parser.n + 1
                  /\ (q.recv <=> parser.recv)
  <1>1. CASE parser.n + 1 = parser.len
    <2>1. q = [parser EXCEPT !.n = parser.n + 1, !.recv = TRUE,
                             !.sta = IF parser.last THEN "START" ELSE "HDR"]
      BY <1>1 DEF NextParser
    <2>2. q \in Parsers
      BY <2>1 DEF Parsers
    <2>3. q.mt = parser.mt /\ q.gid = parser.gid /\ q.oid = parser.oid
      BY <2>1 DEF Parsers
    <2>4. q.last <=> parser.last
      BY <2>1 DEF Parsers
    <2>5. q.recv /\ q.sta = IF parser.last THEN "START" ELSE "HDR"
      BY <2>1 DEF Parsers
    <2> QED  BY <1>1, <2>2, <2>3, <2>4, <2>5
  <1>2. CASE parser.n + 1 # parser.len
    <2>1. q = [parser EXCEPT !.n = parser.n + 1]
      BY <1>2 DEF NextParser
    <2>2. q \in Parsers
      BY <2>1 DEF Parsers
    <2>3. /\ q.mt = parser.mt /\ q.gid = parser.gid /\ q.oid = parser.oid
          /\ q.sta = parser.sta /\ q.len = parser.len /\ q.n = parser.n + 1
      BY <2>1 DEF Parsers
    <2>4. (q.last <=> parser.last) /\ (q.recv <=> parser.recv)
      BY <2>1 DEF Parsers
    <2> QED  BY <1>2, <2>2, <2>3, <2>4
  <1> QED  BY <1>1, <1>2

(* The parser q and payload r with one more byte than the first o of p:    *)
(* whether a packet is reported, and what is reported then.                *)
HasReadMore(p, o, q, r) ==
    /\ q \in Parsers /\ r \in Seq(Nat) /\ Len(r) <= 4
    /\ o + 1 < Size(p) => HasRead(p, o + 1, q, r)
    /\ o + 1 = Size(p) => IF p.pbf = 0 THEN q.sta = "START"
                          ELSE /\ q.sta = "HDR" /\ q.recv /\ q.oid = 1
                               /\ Len(r) = 3 /\ r[3] = FrameOf(p)
    /\ Reports(q) <=> p.pbf = 0 /\ (Second(p) \/ o + 1 = Size(p))
    /\ Reports(q) => q.mt = p.mt /\ Id(q) = p.id
    /\ Reports(q) /\ App(p) => /\ Len(r) = IF Second(p) /\ o + 1 = Size(p) THEN 4 ELSE 3
                               /\ \A i \in 3..Len(r) : r[i] = FrameOf(p)

LEMMA ByteRead ==
    ASSUME parser \in Parsers, rx_payload \in Seq(Nat), Len(rx_payload) <= 4,
           NEW p \in UciPackets, Sayable(p), NEW o, HasRead(p, o, parser, rx_payload),
           NEW q, NEW r, q = NextParser(Byte(p, o + 1)), r = NextPayload(Byte(p, o + 1))
    PROVE  HasReadMore(p, o, q, r)
  <1>0. SUFFICES
           /\ q \in Parsers /\ r \in Seq(Nat) /\ Len(r) <= 4
           /\ o + 1 < Size(p) => HasRead(p, o + 1, q, r)
           /\ o + 1 = Size(p) => IF p.pbf = 0 THEN q.sta = "START"
                                 ELSE /\ q.sta = "HDR" /\ q.recv /\ q.oid = 1
                                      /\ Len(r) = 3 /\ r[3] = FrameOf(p)
           /\ Reports(q) <=> p.pbf = 0 /\ (Second(p) \/ o + 1 = Size(p))
           /\ Reports(q) => q.mt = p.mt /\ Id(q) = p.id
           /\ Reports(q) /\ App(p) => /\ Len(r) = IF Second(p) /\ o + 1 = Size(p) THEN 4 ELSE 3
                                      /\ \A i \in 3..Len(r) : r[i] = FrameOf(p)
    BY DEF HasReadMore
  <1> DEFINE L == Len(p.payload)
  <1>1. /\ L \in {1, 3} /\ Size(p) = 3 + L /\ p.pbf \in {0, 1} /\ p.mt \in {"RSP", "NTF"}
        /\ Second(p) <=> App(p) /\ L = 1
        /\ L = 1 => p.pbf = 0
        /\ L = 3 => App(p)
        /\ Second(p) => p.id.oid = 1 /\ p.mt = "NTF"
        /\ App(p) => p.id.oid = 1
    BY PacketFacts, IdFields
  <1>2. /\ p.id.gid \in {0, 3} /\ p.id.oid \in {0, 1}
        /\ p.id = [gid |-> p.id.gid, oid |-> p.id.oid]
    BY PacketFacts, IdFields
  <1>3. FrameOf(p) = p.payload[L] /\ \A i \in 1..L : p.payload[i] \in Nat
    BY PacketFacts
  <1> HIDE DEF L
  <1>t. /\ parser.sta \in {"START", "HDR", "OID", "LEN", "PAYLOAD"} /\ parser.mt \in {"RSP", "NTF"}
        /\ parser.gid \in {0, 3} /\ parser.oid \in {0, 1} /\ parser.last \in BOOLEAN
        /\ parser.len \in 0..3 /\ parser.n \in 0..3 /\ parser.recv \in BOOLEAN
    BY DEF Parsers
  <1>h. /\ o \in 0..(Size(p) - 1)
        /\ o = 0 => parser.sta = IF Second(p) THEN "HDR" ELSE "START"
        /\ o = 1 => parser.sta = "OID"
        /\ o = 2 => parser.sta = "LEN"
        /\ o > 2 => parser.sta = "PAYLOAD" /\ parser.len = L /\ parser.n = o - 3
        /\ o > 0 => /\ parser.mt = p.mt /\ parser.gid = p.id.gid /\ (parser.last <=> p.pbf = 0)
                    /\ parser.recv <=> Second(p)
        /\ o > 1 => parser.oid = p.id.oid
        /\ Second(p) => parser.recv /\ parser.oid = 1
    BY DEF HasRead, L
  <1>r. /\ Second(p) => Len(rx_payload) = 3 /\ rx_payload[3] = FrameOf(p)
        /\ ~Second(p) /\ o > 0 => Len(rx_payload) = IF o <= 3 THEN 0 ELSE o - 3
    BY DEF HasRead
  <1>4. CASE o = 0
    <2>1. Byte(p, o + 1) = [f |-> "hdr", mt |-> p.mt, pbf |-> p.pbf, gid |-> p.id.gid]
      BY <1>4 DEF Byte
    <2> DEFINE b == Byte(p, o + 1)
    <2>2. b.f = "hdr" /\ b.mt = p.mt /\ b.pbf = p.pbf /\ b.gid = p.id.gid
      BY <2>1
    <2> HIDE DEF b
    <2>3. /\ q \in Parsers /\ q.sta = "OID" /\ q.mt = p.mt /\ q.gid = p.id.gid
          /\ q.oid = parser.oid /\ (q.last <=> p.pbf = 0) /\ (q.recv <=> Second(p))
      <3>1. /\ q \in Parsers /\ q.sta = "OID" /\ q.mt = p.mt /\ q.gid = p.id.gid
            /\ q.oid = parser.oid /\ (q.last <=> p.pbf = 0)
            /\ (q.recv <=> parser.sta # "START" /\ parser.recv)
        BY <2>2, <1>1, <1>2, ParsedHdr DEF b
      <3>2. (parser.sta # "START" /\ parser.recv) <=> Second(p)
        BY <1>4, <1>h
      <3> QED  BY <3>1, <3>2
    <2>4. r = IF Second(p) THEN rx_payload ELSE <<>>
      BY <2>2, <1>4, <1>h DEF NextPayload, b
    <2>5. /\ r \in Seq(Nat) /\ Len(r) <= 4 /\ (~Second(p) => Len(r) = 0)
          /\ Second(p) => Len(r) = 3 /\ r[3] = FrameOf(p)
      <3>1. CASE Second(p)
        BY <2>4, <3>1, <1>r
      <3>2. CASE ~Second(p)
        <4>1. r = <<>>
          BY <2>4, <3>2
        <4>2. <<>> \in Seq(Nat) /\ Len(<<>>) = 0
          BY EmptySeq
        <4>3. r \in Seq(Nat) /\ Len(r) = 0
          BY <4>1, <4>2
        <4> QED  BY <3>2, <4>3
      <3> QED  BY <3>1, <3>2
    <2>6. HasRead(p, o + 1, q, r)
      BY <2>3, <2>5, <1>4, <1>1, <1>h DEF HasRead
    <2>7. Reports(q) <=> p.pbf = 0 /\ Second(p)
      BY <2>3 DEF Reports
    <2>8. Second(p) => Id(q) = p.id
      BY <2>3, <1>h, <1>1, <1>2 DEF Id
    <2> QED  BY <2>3, <2>5, <2>6, <2>7, <2>8, <1>1, <1>4
  <1>5. CASE o = 1
    <2>1. Byte(p, o + 1) = [f |-> "oid", v |-> p.id.oid]
      BY <1>5 DEF Byte
    <2> DEFINE b == Byte(p, o + 1)
    <2>0. b.f = "oid" /\ b.v = p.id.oid
      BY <2>1
    <2> HIDE DEF b
    <2>2. r = rx_payload
      BY <2>0 DEF NextPayload, b
    <2>3. /\ q \in Parsers /\ q.sta = "LEN" /\ q.mt = p.mt /\ q.gid = p.id.gid
          /\ q.oid = p.id.oid /\ (q.last <=> p.pbf = 0) /\ (q.recv <=> Second(p))
      BY <2>0, <1>2, <1>5, <1>h, ParsedOid DEF b
    <2>6. HasRead(p, o + 1, q, r)
      BY <2>2, <2>3, <1>5, <1>1, <1>h, <1>r DEF HasRead
    <2>7. Reports(q) <=> p.pbf = 0 /\ Second(p)
      BY <2>3 DEF Reports
    <2>8. Id(q) = p.id
      BY <2>3, <1>2 DEF Id
    <2> QED  BY <2>2, <2>3, <2>6, <2>7, <2>8, <1>1, <1>5, <1>r
  <1>6. CASE o = 2
    <2>1. Byte(p, o + 1) = [f |-> "len", v |-> L]
      BY <1>6 DEF Byte, L
    <2> DEFINE b == Byte(p, o + 1)
    <2>0. b.f = "len" /\ b.v = L /\ L \in 1..3
      BY <2>1, <1>1
    <2> HIDE DEF b
    <2>2. r = rx_payload
      BY <2>0 DEF NextPayload, b
    <2>3. /\ q \in Parsers /\ q.sta = "PAYLOAD" /\ q.mt = p.mt /\ q.gid = p.id.gid
          /\ q.oid = p.id.oid /\ (q.last <=> p.pbf = 0) /\ (q.recv <=> Second(p))
          /\ q.len = L /\ q.n = 0
      BY <2>0, <1>6, <1>h, ParsedLen DEF b
    <2>6. HasRead(p, o + 1, q, r)
      <3>1. o + 1 = 3 /\ o + 1 \in 0..(Size(p) - 1) /\ o > 0 /\ (o + 1) - 3 = 0
        BY <1>6, <1>1
      <3>2. Len(p.payload) = L
        BY DEF L
      <3>3. /\ Second(p) => q.recv /\ q.oid = 1 /\ Len(r) = 3 /\ r[3] = FrameOf(p)
            /\ ~Second(p) => Len(r) = 0
        BY <2>2, <2>3, <1>1, <1>6, <1>r
      <3> QED  BY <2>3, <3>1, <3>2, <3>3 DEF HasRead
    <2>7. Reports(q) <=> p.pbf = 0 /\ Second(p)
      BY <2>3 DEF Reports
    <2>8. Id(q) = p.id
      BY <2>3, <1>2 DEF Id
    <2> QED  BY <2>2, <2>3, <2>6, <2>7, <2>8, <1>1, <1>6, <1>r
  <1>7. CASE o > 2
    <2>1. Byte(p, o + 1) = [f |-> "byte", v |-> p.payload[o - 2]] /\ o - 2 \in 1..L
      <3>1. o + 1 # 1 /\ o + 1 # 2 /\ o + 1 # 3 /\ o - 2 \in 1..L /\ (o + 1) - 3 = o - 2
        BY <1>1, <1>7, <1>h
      <3> QED  BY <3>1 DEF Byte
    <2> DEFINE b == Byte(p, o + 1)
               x == p.payload[o - 2]
    <2>0. b.f = "byte" /\ b.v = x
      BY <2>1
    <2> HIDE DEF b
    <2>2. x \in Nat /\ r = Append(rx_payload, x)
      BY <2>0, <2>1, <1>3 DEF NextPayload, b
    <2>n. Len(rx_payload) \in Nat
      BY LenProperties
    <2> HIDE DEF x
    <2>3. /\ r \in Seq(Nat) /\ Len(r) = Len(rx_payload) + 1 /\ r[Len(rx_payload) + 1] = x
          /\ \A i \in 1..Len(rx_payload) : r[i] = rx_payload[i]
      BY <2>2, AppendNat
    <2>4. Len(rx_payload) = IF Second(p) THEN 3 ELSE o - 3
      BY <1>7, <1>h, <1>r, <1>1
    <2>5. CASE o + 1 = Size(p)
      <3>3. parser.n + 1 \in 0..3 /\ parser.n + 1 = parser.len
        BY <2>5, <1>1, <1>7, <1>h
      <3>4. /\ q \in Parsers /\ q.mt = parser.mt /\ q.gid = parser.gid /\ q.oid = parser.oid
            /\ (q.last <=> parser.last) /\ q.recv
            /\ q.sta = IF parser.last THEN "START" ELSE "HDR"
        BY <2>0, <3>3, ParsedByte DEF b
      <3>2. /\ q.sta = (IF p.pbf = 0 THEN "START" ELSE "HDR") /\ q.mt = p.mt /\ q.gid = p.id.gid
            /\ q.oid = p.id.oid /\ (q.last <=> p.pbf = 0) /\ q.recv
        BY <3>4, <1>7, <1>h
      <3>5. Reports(q) <=> p.pbf = 0
        BY <3>2 DEF Reports
      <3>6. Id(q) = p.id
        BY <3>2, <1>2 DEF Id
      <3>7. o - 2 = L
        BY <2>5, <1>1, <1>7, <1>h
      <3>x. x = FrameOf(p)
        BY <3>7, <1>3 DEF x
      <3>l. Len(r) = Len(rx_payload) + 1
        BY <2>3
      <3>e. Len(r) = IF Second(p) THEN 4 ELSE L
        BY <3>l, <2>4, <3>7, <1>1, <1>h
      <3>8. r[Len(r)] = FrameOf(p)
        BY <2>3, <3>l, <3>x
      <3>9. App(p) => \A i \in 3..Len(r) : r[i] = FrameOf(p)
        <4>1. CASE Second(p)
          <5>1. Len(r) = 4 /\ r[4] = FrameOf(p)
            BY <4>1, <3>e, <3>8
          <5>2. Len(rx_payload) = 3 /\ rx_payload[3] = FrameOf(p)
            BY <4>1, <1>r
          <5>3. r[3] = FrameOf(p)
            BY <5>2, <2>3
          <5>4. \A i \in 3..4 : i = 3 \/ i = 4
            OBVIOUS
          <5> QED  BY <5>1, <5>3, <5>4
        <4>2. CASE ~Second(p)
          <5>1. App(p) => Len(r) = 3
            BY <4>2, <3>e, <1>1
          <5>2. \A i \in 3..3 : i = 3
            OBVIOUS
          <5> QED  BY <5>1, <5>2, <3>8
        <4> QED  BY <4>1, <4>2
      <3>s. p.pbf # 0 => L = 3 /\ ~Second(p)
        BY <1>1
      <3>r. p.pbf # 0 => /\ q.sta = "HDR" /\ q.recv /\ q.oid = 1
                         /\ Len(r) = 3 /\ r[3] = FrameOf(p)
        BY <3>2, <3>s, <3>e, <3>8, <1>1
      <3>a. App(p) => Len(r) = IF Second(p) THEN 4 ELSE 3
        BY <3>e, <1>1
      <3>z. Len(r) <= 4 /\ ~(o + 1 < Size(p))
        BY <2>5, <3>e, <1>1
      <3> QED  BY <2>3, <2>5, <3>2, <3>4, <3>5, <3>6, <3>9, <3>a, <3>r, <3>z
    <2>6. CASE o + 1 # Size(p)
      <3>0. o + 1 < Size(p) /\ L = 3 /\ ~Second(p) /\ o + 1 \in 0..(Size(p) - 1)
        BY <2>6, <1>1, <1>7, <1>h
      <3>3. parser.n + 1 \in 0..3 /\ parser.n + 1 # parser.len /\ parser.n + 1 = o - 2
        BY <3>0, <1>1, <1>7, <1>h
      <3>4. /\ q \in Parsers /\ q.mt = parser.mt /\ q.gid = parser.gid /\ q.oid = parser.oid
            /\ (q.last <=> parser.last) /\ q.sta = parser.sta /\ q.len = parser.len
            /\ q.n = parser.n + 1 /\ (q.recv <=> parser.recv)
        BY <2>0, <3>3, ParsedByte DEF b
      <3>2. /\ q.sta = "PAYLOAD" /\ q.mt = p.mt /\ q.gid = p.id.gid /\ q.len = L
            /\ q.oid = p.id.oid /\ (q.last <=> p.pbf = 0) /\ (q.recv <=> Second(p))
            /\ q.n = o - 2
        BY <3>3, <3>4, <1>7, <1>h
      <3>5. ~Reports(q)
        BY <3>2, <3>0 DEF Reports
      <3>6. Len(r) = o - 2
        BY <2>3, <2>4, <3>0, <1>7, <1>h
      <3>7. HasRead(p, o + 1, q, r)
        BY <3>0, <3>2, <3>6, <1>1, <1>7, <1>h DEF HasRead, L
      <3>8. Len(r) <= 4 /\ o + 1 # Size(p)
        BY <3>0, <3>6, <1>1, <1>h
      <3> QED  BY <2>3, <2>6, <3>0, <3>4, <3>5, <3>7, <3>8
    <2> QED  BY <2>5, <2>6
  <1>8. o = 0 \/ o = 1 \/ o = 2 \/ o > 2
    BY <1>1, <1>h
  <1> QED  BY <1>4, <1>5, <1>6, <1>7, <1>8

-----------------------------------------------------------------------------
(* The line.                                                               *)

LEMMA TailOf ==
    ASSUME NEW S, NEW s \in Seq(S), s # <<>>
    PROVE  /\ Len(s) \in Nat /\ Len(s) > 0 /\ DOMAIN s = 1..Len(s) /\ Head(s) = s[1] /\ s[1] \in S
           /\ Tail(s) \in Seq(S) /\ Len(Tail(s)) = Len(s) - 1 /\ DOMAIN Tail(s) = 1..(Len(s) - 1)
           /\ \A i \in 1..(Len(s) - 1) : Tail(s)[i] = s[i + 1]
           /\ Tail(s) = <<>> <=> Len(s) = 1
  <1>1. Len(s) \in Nat /\ Len(s) > 0 /\ DOMAIN s = 1..Len(s) /\ Head(s) = s[1]
    BY LenProperties, EmptySeq
  <1>2. s[1] \in S
    BY <1>1, ElementOfSeq
  <1>3. /\ Tail(s) \in Seq(S) /\ Len(Tail(s)) = Len(s) - 1
        /\ \A i \in 1..Len(Tail(s)) : Tail(s)[i] = s[i + 1]
    BY HeadTailProperties
  <1>4. DOMAIN Tail(s) = 1..(Len(s) - 1)
    BY <1>3, LenProperties
  <1>5. Tail(s) = <<>> <=> Len(s) = 1
    <2>1. Tail(s) # <<>> => Len(Tail(s)) \in Nat \ {0}
      BY <1>3, EmptySeq
    <2>2. Tail(s) = <<>> => Len(Tail(s)) = 0
      BY EmptySeq
    <2> QED  BY <2>1, <2>2, <1>1, <1>3
  <1> QED  BY <1>1, <1>2, <1>3, <1>4, <1>5

LEMMA Joined ==
    ASSUME NEW S, NEW s \in Seq(S), NEW t \in Seq(S)
    PROVE  /\ Len(s) \in Nat /\ Len(t) \in Nat /\ DOMAIN s = 1..Len(s) /\ DOMAIN t = 1..Len(t)
           /\ s \o t \in Seq(S) /\ DOMAIN (s \o t) = 1..(Len(s) + Len(t))
           /\ Len(s \o t) = Len(s) + Len(t)
           /\ \A i \in 1..Len(s) : (s \o t)[i] = s[i]
           /\ \A i \in 1..Len(t) : (s \o t)[Len(s) + i] = t[i]
  <1>1. Len(s) \in Nat /\ Len(t) \in Nat /\ DOMAIN s = 1..Len(s) /\ DOMAIN t = 1..Len(t)
    BY LenProperties
  <1>2. s \o t \in Seq(S) /\ Len(s \o t) = Len(s) + Len(t)
    BY ConcatProperties
  <1>3. DOMAIN (s \o t) = 1..(Len(s) + Len(t))
    BY <1>2, LenProperties
  <1>4. \A i \in 1..(Len(s) + Len(t)) :
            (s \o t)[i] = IF i <= Len(s) THEN s[i] ELSE t[i - Len(s)]
    BY ConcatProperties
  <1>5. \A i \in 1..Len(s) : (s \o t)[i] = s[i]
    BY <1>1, <1>4
  <1>6. \A i \in 1..Len(t) : (s \o t)[Len(s) + i] = t[i]
    <2> TAKE i \in 1..Len(t)
    <2>1. Len(s) + i \in 1..(Len(s) + Len(t)) /\ ~(Len(s) + i <= Len(s))
          /\ (Len(s) + i) - Len(s) = i
      BY <1>1
    <2> QED  BY <2>1, <1>4
  <1> QED  BY <1>1, <1>2, <1>3, <1>5, <1>6

(* The kinds of packets the chip sends.                                    *)
LEMMA PlainPacket ==
    ASSUME NEW mt \in {"RSP", "NTF"}, NEW id \in {RESET, TX, RX, STATUS_NTF}, NEW x \in Nat,
           mt = "RSP" => id # STATUS_NTF, mt = "NTF" => id # RX,
           NEW p, p = Uci(mt, 0, id, <<x>>)
    PROVE  /\ p \in UciPackets /\ Sayable(p) /\ p.mt = mt /\ p.pbf = 0 /\ p.id = id
           /\ ~App(p) /\ ~Second(p)
  <1>1. p \in UciPackets /\ p.mt = mt /\ p.pbf = 0 /\ p.id = id /\ Len(p.payload) = 1
    BY DEF Uci, UciPackets
  <1>2. ~App(p)
    BY <1>1 DEF App
  <1> QED  BY <1>1, <1>2 DEF Sayable, Second

LEMMA DataPacket ==
    ASSUME NEW pbf \in {0, 1}, NEW f \in Nat, NEW p, p = Uci("NTF", pbf, RX, <<1, 0, f>>)
    PROVE  /\ p \in UciPackets /\ Sayable(p) /\ p.mt = "NTF" /\ p.pbf = pbf /\ p.id = RX
           /\ App(p) /\ ~Second(p) /\ FrameOf(p) = f
  <1>1. p \in UciPackets /\ p.mt = "NTF" /\ p.pbf = pbf /\ p.id = RX
    BY DEF Uci, UciPackets
  <1>2. Len(p.payload) = 3 /\ p.payload[3] = f
    BY DEF Uci
  <1>3. App(p)
    BY <1>1 DEF App
  <1> QED  BY <1>1, <1>2, <1>3 DEF Sayable, Second, FrameOf

LEMMA SecondPacket ==
    ASSUME NEW f \in Nat, NEW p, p = Uci("NTF", 0, RX, <<f>>)
    PROVE  /\ p \in UciPackets /\ Sayable(p) /\ p.mt = "NTF" /\ p.pbf = 0 /\ p.id = RX
           /\ App(p) /\ Second(p) /\ FrameOf(p) = f
  <1>1. p \in UciPackets /\ p.mt = "NTF" /\ p.pbf = 0 /\ p.id = RX
    BY DEF Uci, UciPackets
  <1>2. Len(p.payload) = 1 /\ p.payload[1] = f
    BY DEF Uci
  <1>3. App(p)
    BY <1>1 DEF App
  <1> QED  BY <1>1, <1>2, <1>3 DEF Sayable, Second, FrameOf

(* What the chip says goes behind what is on the line.                     *)
Says1or2(ps) ==
    /\ ps \in Seq(UciPackets) /\ Len(ps) \in {1, 2}
    /\ \A i \in 1..Len(ps) : Sayable(ps[i])
    /\ ~Second(ps[1])
    /\ \/ \A i \in 1..Len(ps) : ps[i].pbf = 0 /\ ~Second(ps[i])
       \/ /\ segmented' /\ Len(ps) = 2
          /\ ps[1].pbf = 1 /\ ps[2].pbf = 0 /\ Second(ps[2]) /\ FrameOf(ps[2]) = FrameOf(ps[1])

LEMMA LineGrows ==
    ASSUME LineInv, ParserInv, UNCHANGED <<parser, rx_payload>>, segmented => segmented',
           NEW ps, Says1or2(ps), Says(ps)
    PROVE  LineInv' /\ ParserInv'
  <1> DEFINE n == Len(line)
             m == Len(ps)
  <1>1. /\ n \in Nat /\ m \in {1, 2} /\ DOMAIN line = 1..n /\ DOMAIN ps = 1..m
        /\ line' \in Seq(UciPackets) /\ DOMAIN line' = 1..(n + m)
        /\ \A i \in 1..n : line'[i] = line[i]
        /\ \A i \in 1..m : line'[n + i] = ps[i]
    BY Joined DEF Says, Says1or2, LineInv
  <1>2. /\ \A i \in 1..n : Sayable(line[i])
        /\ \A i \in 1..n : line[i].pbf = 1 =>
               i + 1 \in 1..n /\ Second(line[i + 1]) /\ FrameOf(line[i + 1]) = FrameOf(line[i])
        /\ \A i \in 1..n : Second(line[i]) /\ i > 1 => line[i - 1].pbf = 1
        /\ ~segmented => \A i \in 1..n : line[i].pbf = 0 /\ ~Second(line[i])
    BY <1>1 DEF LineInv
  <1>3. \A i \in 1..m : Sayable(ps[i])
    BY DEF Says1or2
  <1>4. ~Second(ps[1])
    BY DEF Says1or2
  <1>5. \/ \A i \in 1..m : ps[i].pbf = 0 /\ ~Second(ps[i])
        \/ /\ segmented' /\ m = 2
           /\ ps[1].pbf = 1 /\ ps[2].pbf = 0 /\ Second(ps[2]) /\ FrameOf(ps[2]) = FrameOf(ps[1])
    BY DEF Says1or2
  <1> HIDE DEF n, m
  <1>6. \A i \in 1..(n + m) : i \in 1..n \/ i = n + 1 \/ (i = n + 2 /\ m = 2)
    BY <1>1
  <1>7. /\ line'[n + 1] = ps[1] /\ n + 1 \in 1..(n + m)
        /\ m = 2 => line'[n + 2] = ps[2] /\ n + 2 \in 1..(n + m)
        /\ \A i \in 1..n : i \in 1..(n + m)
    BY <1>1
  <1>8. \A i \in 1..(n + m) : Sayable(line'[i])
    BY <1>1, <1>2, <1>3, <1>6, <1>7
  <1>9. ASSUME NEW i \in 1..(n + m), line'[i].pbf = 1
        PROVE  /\ i + 1 \in 1..(n + m) /\ Second(line'[i + 1])
               /\ FrameOf(line'[i + 1]) = FrameOf(line'[i])
    <2>1. CASE i \in 1..n
      <3>1. line[i].pbf = 1
        BY <1>9, <2>1, <1>1
      <3>2. i + 1 \in 1..n /\ Second(line[i + 1]) /\ FrameOf(line[i + 1]) = FrameOf(line[i])
        BY <3>1, <2>1, <1>2
      <3> QED  BY <3>2, <2>1, <1>1, <1>7
    <2>2. CASE i = n + 1
      <3>1. ps[1].pbf = 1 /\ 1 \in 1..m /\ i + 1 = n + 2
        BY <1>9, <2>2, <1>1, <1>7
      <3>2. m = 2 /\ Second(ps[2]) /\ FrameOf(ps[2]) = FrameOf(ps[1])
        BY <3>1, <1>5
      <3> QED  BY <3>1, <3>2, <2>2, <1>7
    <2>3. CASE i = n + 2 /\ m = 2
      <3>1. ps[2].pbf = 1 /\ 2 \in 1..m
        BY <1>9, <2>3, <1>1, <1>7
      <3> QED  BY <3>1, <1>5
    <2> QED  BY <2>1, <2>2, <2>3, <1>6
  <1>10. ASSUME NEW i \in 1..(n + m), Second(line'[i]), i > 1
         PROVE  line'[i - 1].pbf = 1
    <2>1. CASE i \in 1..n
      <3>1. Second(line[i]) /\ i - 1 \in 1..n
        BY <1>10, <2>1, <1>1
      <3> QED  BY <3>1, <1>10, <2>1, <1>1, <1>2
    <2>2. CASE i = n + 1
      BY <2>2, <1>10, <1>4, <1>7
    <2>3. CASE i = n + 2 /\ m = 2
      <3>1. Second(ps[2]) /\ 2 \in 1..m /\ i - 1 = n + 1
        BY <1>10, <2>3, <1>1, <1>7
      <3>2. ps[1].pbf = 1
        BY <3>1, <1>5
      <3> QED  BY <3>1, <3>2, <1>7
    <2> QED  BY <2>1, <2>2, <2>3, <1>6
  <1>11. ASSUME ~segmented', NEW i \in 1..(n + m)
         PROVE  line'[i].pbf = 0 /\ ~Second(line'[i])
    <2>1. \A j \in 1..m : ps[j].pbf = 0 /\ ~Second(ps[j])
      BY <1>11, <1>5
    <2>2. CASE i \in 1..n
      BY <2>2, <1>11, <1>1, <1>2
    <2>3. CASE i = n + 1
      <3>1. 1 \in 1..m
        BY <1>1
      <3> QED  BY <2>1, <2>3, <3>1, <1>7
    <2>4. CASE i = n + 2 /\ m = 2
      <3>1. 2 \in 1..m
        BY <2>4
      <3> QED  BY <2>1, <2>4, <3>1, <1>7
    <2> QED  BY <2>2, <2>3, <2>4, <1>6
  <1>12. LineInv'
    BY <1>1, <1>8, <1>9, <1>10, <1>11 DEF LineInv
  <1>13. line' # <<>> /\ Head(line') = line'[1]
    <2>1. Len(line') = n + m
      BY Joined DEF Says, Says1or2, LineInv, n, m
    <2>2. line' # <<>>
      BY <2>1, <1>1, EmptySeq
    <2> QED  BY <2>2
  <1>14. HasRead(Head(line'), off', parser', rx_payload')
    <2>1. CASE line = <<>>
      <3>1. n = 0
        BY <2>1, EmptySeq DEF n
      <3>2. Head(line') = ps[1]
        BY <3>1, <1>7, <1>13
      <3>3. off' = 0 /\ parser'.sta = "START"
        BY <2>1 DEF ParserInv, Says
      <3>4. ps[1] \in UciPackets /\ Sayable(ps[1])
        BY <1>1, <1>3, ElementOfSeq DEF m, Says1or2
      <3>5. 0 \in 0..(Size(ps[1]) - 1)
        BY <3>4, PacketFacts
      <3> QED  BY <3>2, <3>3, <3>5, <1>4 DEF HasRead
    <2>2. CASE line # <<>>
      <3>1. Head(line) = line[1] /\ n > 0
        BY <2>2, TailOf DEF LineInv, n
      <3>2. Head(line') = Head(line)
        BY <3>1, <1>1, <1>13
      <3> QED  BY <3>2, <2>2 DEF ParserInv, Says
    <2> QED  BY <2>1, <2>2
  <1>15. ParserInv'
    BY <1>13, <1>14 DEF ParserInv
  <1> QED  BY <1>12, <1>15

(* What Parse reads, and when it has read enough of a packet to go on.     *)
Whole(p) == off + 1 = Size(p)
Told(p)  == p.pbf = 0 /\ (Second(p) \/ Whole(p))

LEMMA Reads ==
    ASSUME LineInv, ParserInv, Parse
    PROVE  LET p == Head(line) IN
           /\ line # <<>> /\ p \in UciPackets /\ Sayable(p) /\ off \in 0..(Size(p) - 1)
           /\ HasRead(p, off, parser, rx_payload)
           /\ parser' \in Parsers /\ rx_payload' \in Seq(Nat) /\ Len(rx_payload') <= 4
           /\ Whole(p) => line' = Tail(line) /\ off' = 0
           /\ ~Whole(p) => /\ off' = off + 1 /\ line' = line
                           /\ HasRead(p, off', parser', rx_payload')
           /\ Whole(p) => IF p.pbf = 0 THEN parser'.sta = "START"
                          ELSE /\ parser'.sta = "HDR" /\ parser'.recv /\ parser'.oid = 1
                               /\ Len(rx_payload') = 3 /\ rx_payload'[3] = FrameOf(p)
           /\ Reports(parser') <=> Told(p)
           /\ Told(p) => parser'.mt = p.mt /\ Id(parser') = p.id
           /\ Told(p) /\ App(p) =>
                  /\ Len(rx_payload') = IF Second(p) /\ Whole(p) THEN 4 ELSE 3
                  /\ \A i \in 3..Len(rx_payload') : rx_payload'[i] = FrameOf(p)
  <1> DEFINE p == Head(line)
  <1>1. line # <<>>
    BY DEF Parse
  <1>2. /\ p \in UciPackets /\ Sayable(p)
    BY <1>1, TailOf DEF LineInv
  <1>3. /\ parser \in Parsers /\ rx_payload \in Seq(Nat) /\ Len(rx_payload) <= 4
        /\ HasRead(p, off, parser, rx_payload)
    BY <1>1 DEF ParserInv
  <1>4. off \in 0..(Size(p) - 1) /\ Size(p) \in Nat
    <2>1. off \in 0..(Size(p) - 1)
      BY <1>3 DEF HasRead
    <2> QED  BY <2>1, <1>2, PacketFacts
  <1>5. /\ parser' = NextParser(Byte(p, off + 1))
        /\ rx_payload' = NextPayload(Byte(p, off + 1))
    BY DEF Parse
  <1>6. /\ Whole(p) => line' = Tail(line) /\ off' = 0
        /\ ~Whole(p) => off' = off + 1 /\ line' = line
    BY DEF Parse, Whole
  <1> HIDE DEF p
  <1>b. HasReadMore(p, off, parser', rx_payload')
    BY <1>2, <1>3, <1>5, ByteRead
  <1>7. /\ parser' \in Parsers /\ rx_payload' \in Seq(Nat) /\ Len(rx_payload') <= 4
        /\ off + 1 < Size(p) => HasRead(p, off + 1, parser', rx_payload')
        /\ off + 1 = Size(p) =>
               IF p.pbf = 0 THEN parser'.sta = "START"
               ELSE /\ parser'.sta = "HDR" /\ parser'.recv /\ parser'.oid = 1
                    /\ Len(rx_payload') = 3 /\ rx_payload'[3] = FrameOf(p)
        /\ Reports(parser') <=> p.pbf = 0 /\ (Second(p) \/ off + 1 = Size(p))
        /\ Reports(parser') => parser'.mt = p.mt /\ Id(parser') = p.id
        /\ Reports(parser') /\ App(p) =>
               /\ Len(rx_payload') = IF Second(p) /\ off + 1 = Size(p) THEN 4 ELSE 3
               /\ \A i \in 3..Len(rx_payload') : rx_payload'[i] = FrameOf(p)
    BY <1>b DEF HasReadMore
  <1>8. ~Whole(p) => off + 1 < Size(p)
    BY <1>4 DEF Whole
  <1>9. ~Whole(p) => HasRead(p, off', parser', rx_payload')
    BY <1>6, <1>7, <1>8
  <1>10. /\ Reports(parser') <=> Told(p)
         /\ Whole(p) <=> off + 1 = Size(p)
    BY <1>7 DEF Told, Whole
  <1> QED  BY <1>1, <1>2, <1>3, <1>4, <1>6, <1>7, <1>9, <1>10 DEF p

LEMMA LineMoves ==
    ASSUME LineInv, ParserInv, Parse
    PROVE  LineInv' /\ ParserInv'
  <1> DEFINE p == Head(line)
             n == Len(line)
  <1>1. /\ line # <<>> /\ p \in UciPackets /\ Sayable(p)
        /\ parser' \in Parsers /\ rx_payload' \in Seq(Nat) /\ Len(rx_payload') <= 4
        /\ Whole(p) => line' = Tail(line) /\ off' = 0
        /\ ~Whole(p) => /\ off' = off + 1 /\ line' = line
                        /\ HasRead(p, off', parser', rx_payload')
        /\ Whole(p) => IF p.pbf = 0 THEN parser'.sta = "START"
                       ELSE /\ parser'.sta = "HDR" /\ parser'.recv /\ parser'.oid = 1
                            /\ Len(rx_payload') = 3 /\ rx_payload'[3] = FrameOf(p)
    BY Reads
  <1>2. segmented' = segmented
    BY DEF Parse
  <1>3. CASE ~Whole(p)
    <2>1. LineInv'
      BY <1>1, <1>2, <1>3 DEF LineInv
    <2>2. ParserInv'
      BY <1>1, <1>3 DEF ParserInv
    <2> QED  BY <2>1, <2>2
  <1>4. CASE Whole(p)
    <2>1. line \in Seq(UciPackets)
      BY DEF LineInv
    <2>2. /\ n \in Nat /\ n > 0 /\ DOMAIN line = 1..n /\ p = line[1]
          /\ Tail(line) \in Seq(UciPackets) /\ Len(Tail(line)) = n - 1
          /\ DOMAIN Tail(line) = 1..(n - 1)
          /\ \A i \in 1..(n - 1) : Tail(line)[i] = line[i + 1]
          /\ Tail(line) = <<>> <=> n = 1
      BY <1>1, <2>1, TailOf
    <2>3. /\ line' \in Seq(UciPackets) /\ Len(line') = n - 1 /\ DOMAIN line' = 1..(n - 1)
          /\ \A i \in 1..(n - 1) : line'[i] = line[i + 1]
          /\ line' = <<>> <=> n = 1
          /\ off' = 0
      BY <2>2, <1>1, <1>4
    <2>4. /\ \A i \in 1..n : Sayable(line[i])
          /\ \A i \in 1..n : line[i].pbf = 1 =>
                 /\ i + 1 \in 1..n /\ Second(line[i + 1])
                 /\ FrameOf(line[i + 1]) = FrameOf(line[i])
          /\ \A i \in 1..n : Second(line[i]) /\ i > 1 => line[i - 1].pbf = 1
          /\ ~segmented => \A i \in 1..n : line[i].pbf = 0 /\ ~Second(line[i])
      BY <2>2 DEF LineInv
    <2> HIDE DEF n, p
    <2>5. \A i \in 1..(n - 1) : i + 1 \in 1..n /\ i \in 1..n
      BY <2>2
    <2>6. \A i \in 1..(n - 1) : Sayable(line'[i])
      BY <2>3, <2>4, <2>5
    <2>7. ASSUME NEW i \in 1..(n - 1), line'[i].pbf = 1
          PROVE  /\ i + 1 \in 1..(n - 1) /\ Second(line'[i + 1])
                 /\ FrameOf(line'[i + 1]) = FrameOf(line'[i])
      <3> DEFINE j == i + 1
      <3>1. j \in 1..n /\ line'[i] = line[j]
        BY <2>3, <2>5
      <3>2. j + 1 \in 1..n /\ Second(line[j + 1]) /\ FrameOf(line[j + 1]) = FrameOf(line[j])
        BY <3>1, <2>4, <2>7
      <3>3. i + 1 \in 1..(n - 1) /\ line'[i + 1] = line[j + 1]
        BY <3>2, <2>2, <2>3
      <3> QED  BY <3>1, <3>2, <3>3
    <2>8. ASSUME NEW i \in 1..(n - 1), Second(line'[i]), i > 1
          PROVE  line'[i - 1].pbf = 1
      <3>1. i + 1 \in 1..n /\ line'[i] = line[i + 1] /\ i + 1 > 1 /\ (i + 1) - 1 = i
        BY <2>3, <2>5, <2>8
      <3>2. line[i].pbf = 1
        BY <3>1, <2>4, <2>8
      <3>3. i - 1 \in 1..(n - 1) /\ (i - 1) + 1 = i
        BY <2>8, <2>2
      <3> QED  BY <3>2, <3>3, <2>3
    <2>9. ~segmented' => \A i \in 1..(n - 1) : line'[i].pbf = 0 /\ ~Second(line'[i])
      BY <1>2, <2>3, <2>4, <2>5
    <2>10. LineInv'
      BY <2>3, <2>6, <2>7, <2>8, <2>9 DEF LineInv
    <2>11. CASE p.pbf = 0
      <3>1. parser'.sta = "START"
        BY <2>11, <1>1, <1>4
      <3>2. ASSUME line' # <<>>
            PROVE  HasRead(Head(line'), off', parser', rx_payload')
        <4>1. n > 1 /\ 1 \in 1..(n - 1) /\ 2 \in 1..n
          BY <3>2, <2>2, <2>3
        <4>2. Head(line') = line[2] /\ line[2] \in UciPackets /\ Sayable(line[2])
          <5>1. Head(line') = line'[1]
            BY <2>3, <3>2, TailOf
          <5>2. line'[1] = line[1 + 1]
            BY <4>1, <2>3
          <5>3. line[2] \in UciPackets
            BY <4>1, <2>1, ElementOfSeq DEF n
          <5> QED  BY <5>1, <5>2, <5>3, <4>1, <2>4
        <4>3. ~Second(line[2])
          <5>1. Second(line[2]) => line[2 - 1].pbf = 1
            BY <4>1, <2>4
          <5> QED  BY <5>1, <2>2, <2>11
        <4>4. 0 \in 0..(Size(line[2]) - 1)
          BY <4>2, PacketFacts
        <4> QED  BY <4>2, <4>3, <4>4, <3>1, <2>3 DEF HasRead
      <3>3. ParserInv'
        BY <3>1, <3>2, <1>1, <2>3 DEF ParserInv
      <3> QED  BY <3>3, <2>10
    <2>12. CASE p.pbf # 0
      <3>1. p.pbf = 1
        BY <2>12, <1>1, PacketFacts
      <3>2. 2 \in 1..n /\ Second(line[2]) /\ FrameOf(line[2]) = FrameOf(p)
        <4>1. 1 \in 1..n /\ line[1].pbf = 1 /\ 1 + 1 = 2
          BY <3>1, <2>2
        <4> QED  BY <4>1, <2>2, <2>4
      <3>3. 1 \in 1..(n - 1) /\ line' # <<>>
        BY <3>2, <2>2, <2>3
      <3>4. Head(line') = line[2] /\ line[2] \in UciPackets /\ Sayable(line[2])
        <4>1. Head(line') = line'[1]
          BY <2>3, <3>3, TailOf
        <4>2. line'[1] = line[1 + 1]
          BY <3>3, <2>3
        <4>3. line[2] \in UciPackets
          BY <3>2, <2>1, ElementOfSeq DEF n
        <4> QED  BY <4>1, <4>2, <4>3, <3>2, <2>4
      <3>5. 0 \in 0..(Size(line[2]) - 1)
        BY <3>4, PacketFacts
      <3>6. /\ parser'.sta = "HDR" /\ parser'.recv /\ parser'.oid = 1
            /\ Len(rx_payload') = 3 /\ rx_payload'[3] = FrameOf(p)
        BY <2>12, <1>1, <1>4
      <3>7. HasRead(line[2], 0, parser', rx_payload')
        BY <3>2, <3>5, <3>6 DEF HasRead
      <3>8. ParserInv'
        BY <3>3, <3>4, <3>7, <1>1, <2>3 DEF ParserInv
      <3> QED  BY <3>8, <2>10
    <2> QED  BY <2>10, <2>11, <2>12
  <1> QED  BY <1>3, <1>4

(* What the chip says.                                                     *)
LEMMA OnePacket ==
    ASSUME NEW a \in UciPackets, Sayable(a), ~Second(a), a.pbf = 0
    PROVE  /\ Says1or2(<<a>>) /\ Len(<<a>>) = 1 /\ <<a>>[1] = a
           /\ \A i \in 1..Len(<<a>>) : i = 1
  <1>1. <<a>> \in Seq(UciPackets) /\ Len(<<a>>) = 1 /\ <<a>>[1] = a
    OBVIOUS
  <1>2. \A i \in 1..1 : i = 1
    OBVIOUS
  <1> QED  BY <1>1, <1>2 DEF Says1or2

LEMMA TwoPackets ==
    ASSUME NEW a \in UciPackets, NEW b \in UciPackets, Sayable(a), Sayable(b), ~Second(a),
           b.pbf = 0,
           \/ a.pbf = 0 /\ ~Second(b)
           \/ a.pbf = 1 /\ Second(b) /\ FrameOf(b) = FrameOf(a) /\ segmented'
    PROVE  /\ Says1or2(<<a, b>>) /\ Len(<<a, b>>) = 2 /\ <<a, b>>[1] = a /\ <<a, b>>[2] = b
           /\ \A i \in 1..Len(<<a, b>>) : i = 1 \/ i = 2
  <1>1. <<a, b>> \in Seq(UciPackets) /\ Len(<<a, b>>) = 2 /\ <<a, b>>[1] = a /\ <<a, b>>[2] = b
    OBVIOUS
  <1>2. \A i \in 1..2 : i = 1 \/ i = 2
    OBVIOUS
  <1> QED  BY <1>1, <1>2 DEF Says1or2

LEMMA ChipBoots ==
    ASSUME ChipBoot
    PROVE  \E ps : /\ Says1or2(ps) /\ Says(ps)
                   /\ \A i \in 1..Len(ps) : ps[i].mt = "NTF" /\ ps[i].pbf = 0 /\ ~App(ps[i])
  <1> DEFINE a == Uci("NTF", 0, STATUS_NTF, <<1>>)
  <1>1. STATUS_NTF # RX
    BY DEF STATUS_NTF, RX
  <1>2. /\ a \in UciPackets /\ Sayable(a) /\ a.mt = "NTF" /\ a.pbf = 0 /\ ~App(a) /\ ~Second(a)
    BY <1>1, PlainPacket
  <1>3. Says(<<a>>)
    BY DEF ChipBoot
  <1> HIDE DEF a
  <1>4. Says1or2(<<a>>) /\ \A i \in 1..Len(<<a>>) : <<a>>[i] = a
    BY <1>2, OnePacket
  <1> WITNESS <<a>>
  <1> QED  BY <1>2, <1>3, <1>4

LEMMA ChipReplies ==
    ASSUME ChipExecute, cmds \in Seq(Packets)
    PROVE  \E ps : /\ Says1or2(ps) /\ Says(ps)
                   /\ ps[1].mt = "RSP" /\ ps[1].id = Head(cmds).id
                   /\ \A i \in 1..Len(ps) : ps[i].pbf = 0 /\ ~App(ps[i])
                   /\ \A i \in 1..Len(ps) : i > 1 => ps[i].mt = "NTF"
  <1>1. \/ /\ Head(cmds).id = RESET /\ Says(<<Uci("RSP", 0, RESET, <<0>>)>>)
        \/ /\ Head(cmds).id = TX
           /\ Says(<<Uci("RSP", 0, TX, <<0>>), Uci("NTF", 0, TX, <<0>>)>>)
        \/ /\ Head(cmds).id = RX
           /\ Says(<<Uci("RSP", 0, RX, <<0>>)>>) \/ Says(<<Uci("RSP", 0, RX, <<1>>)>>)
    BY DEF ChipExecute
  <1>2. RESET # STATUS_NTF /\ TX # STATUS_NTF /\ RX # STATUS_NTF /\ TX # RX
    BY DEF RESET, TX, RX, STATUS_NTF
  <1>3. ASSUME NEW id \in {RESET, TX, RX}, NEW x \in Nat, Head(cmds).id = id,
               Says(<<Uci("RSP", 0, id, <<x>>)>>)
        PROVE  \E ps : /\ Says1or2(ps) /\ Says(ps)
                       /\ ps[1].mt = "RSP" /\ ps[1].id = Head(cmds).id
                       /\ \A i \in 1..Len(ps) : ps[i].pbf = 0 /\ ~App(ps[i])
                       /\ \A i \in 1..Len(ps) : i > 1 => ps[i].mt = "NTF"
    <2> DEFINE a == Uci("RSP", 0, id, <<x>>)
    <2>1. /\ a \in UciPackets /\ Sayable(a) /\ a.mt = "RSP" /\ a.pbf = 0 /\ a.id = id
          /\ ~App(a) /\ ~Second(a)
      BY <1>2, PlainPacket
    <2>2. Says(<<a>>)
      BY <1>3
    <2> HIDE DEF a
    <2>3. /\ Says1or2(<<a>>) /\ <<a>>[1] = a
          /\ \A i \in 1..Len(<<a>>) : i = 1
      BY <2>1, OnePacket
    <2> WITNESS <<a>>
    <2>4. \A i \in 1..Len(<<a>>) : ~(i > 1) /\ <<a>>[i] = a
      BY <2>3
    <2> QED  BY <1>3, <2>1, <2>2, <2>3, <2>4
  <1>4. ASSUME Head(cmds).id = TX, NEW x \in Nat,
               Says(<<Uci("RSP", 0, TX, <<x>>), Uci("NTF", 0, TX, <<x>>)>>)
        PROVE  \E ps : /\ Says1or2(ps) /\ Says(ps)
                       /\ ps[1].mt = "RSP" /\ ps[1].id = Head(cmds).id
                       /\ \A i \in 1..Len(ps) : ps[i].pbf = 0 /\ ~App(ps[i])
                       /\ \A i \in 1..Len(ps) : i > 1 => ps[i].mt = "NTF"
    <2> DEFINE a == Uci("RSP", 0, TX, <<x>>)
               b == Uci("NTF", 0, TX, <<x>>)
    <2>1. /\ a \in UciPackets /\ Sayable(a) /\ a.mt = "RSP" /\ a.pbf = 0 /\ a.id = TX
          /\ ~App(a) /\ ~Second(a)
      BY <1>2, PlainPacket
    <2>2. /\ b \in UciPackets /\ Sayable(b) /\ b.mt = "NTF" /\ b.pbf = 0
          /\ ~App(b) /\ ~Second(b)
      BY <1>2, PlainPacket
    <2>3. Says(<<a, b>>)
      BY <1>4
    <2> HIDE DEF a, b
    <2>4. /\ Says1or2(<<a, b>>) /\ <<a, b>>[1] = a /\ <<a, b>>[2] = b
          /\ \A i \in 1..Len(<<a, b>>) : i = 1 \/ i = 2
      BY <2>1, <2>2, TwoPackets
    <2> WITNESS <<a, b>>
    <2>5. \A i \in 1..Len(<<a, b>>) : \/ ~(i > 1) /\ <<a, b>>[i] = a
                                      \/ <<a, b>>[i] = b
      BY <2>4
    <2> QED  BY <1>4, <2>1, <2>2, <2>3, <2>4, <2>5
  <1> QED  BY <1>1, <1>3, <1>4

LEMMA ChipNotifies ==
    ASSUME ChipHears, heard \in Seq(Nat)
    PROVE  \E ps : /\ Says1or2(ps) /\ Says(ps)
                   /\ \A i \in 1..Len(ps) :
                          ps[i].mt = "NTF" /\ App(ps[i]) /\ FrameOf(ps[i]) = Len(heard) + 1
                   /\ ps[Len(ps)].pbf = 0
                   /\ Len(ps) = 2 => ps[1].pbf = 1
  <1> DEFINE f == Len(heard) + 1
             a(pbf) == Uci("NTF", pbf, RX, <<1, 0, f>>)
             b == Uci("NTF", 0, RX, <<f>>)
  <1>1. f \in Nat
    BY LenProperties
  <1>2. \/ Says(<<a(0)>>)
        \/ Says(<<a(1), b>>) /\ segmented'
    BY DEF ChipHears
  <1> HIDE DEF f
  <1>3. \A x \in {0, 1} : /\ a(x) \in UciPackets /\ Sayable(a(x)) /\ a(x).mt = "NTF"
                          /\ a(x).pbf = x /\ App(a(x)) /\ ~Second(a(x)) /\ FrameOf(a(x)) = f
    BY <1>1, DataPacket
  <1>4. /\ b \in UciPackets /\ Sayable(b) /\ b.mt = "NTF" /\ b.pbf = 0
        /\ App(b) /\ Second(b) /\ FrameOf(b) = f
    BY <1>1, SecondPacket
  <1> HIDE DEF a, b
  <1>5. CASE Says(<<a(0)>>)
    <2>1. /\ Says1or2(<<a(0)>>) /\ Len(<<a(0)>>) = 1 /\ <<a(0)>>[1] = a(0)
          /\ \A i \in 1..Len(<<a(0)>>) : i = 1
      BY <1>3, OnePacket
    <2> DEFINE ps == <<a(0)>>
    <2>2. /\ \A i \in 1..Len(ps) : ps[i].mt = "NTF" /\ App(ps[i]) /\ FrameOf(ps[i]) = f
          /\ ps[Len(ps)].pbf = 0
          /\ Len(ps) = 2 => ps[1].pbf = 1
      BY <2>1, <1>3
    <2> QED  BY <2>1, <2>2, <1>5 DEF f
  <1>6. CASE Says(<<a(1), b>>) /\ segmented'
    <2>1. /\ Says1or2(<<a(1), b>>) /\ Len(<<a(1), b>>) = 2
          /\ <<a(1), b>>[1] = a(1) /\ <<a(1), b>>[2] = b
          /\ \A i \in 1..Len(<<a(1), b>>) : i = 1 \/ i = 2
      BY <1>3, <1>4, <1>6, TwoPackets
    <2> DEFINE ps == <<a(1), b>>
    <2>2. /\ \A i \in 1..Len(ps) : ps[i].mt = "NTF" /\ App(ps[i]) /\ FrameOf(ps[i]) = f
          /\ ps[Len(ps)].pbf = 0
          /\ Len(ps) = 2 => ps[1].pbf = 1
      BY <2>1, <1>3, <1>4
    <2> QED  BY <2>1, <2>2, <1>6 DEF f
  <1> QED  BY <1>2, <1>5, <1>6

WireInv == heard \in Seq(Nat) /\ LineInv /\ ParserInv

LEMMA WireInit == Init => WireInv
  <1> SUFFICES ASSUME Init PROVE WireInv
    OBVIOUS
  <1>1. line = <<>> /\ heard = <<>> /\ rx_payload = <<>> /\ off = 0 /\ parser = START
    BY DEF Init
  <1>2. START \in Parsers /\ START.sta = "START"
    BY DEF START, Parsers
  <1>3. <<>> \in Seq(UciPackets) /\ <<>> \in Seq(Nat) /\ Len(<<>>) = 0 /\ DOMAIN <<>> = {}
    OBVIOUS
  <1>4. LineInv
    BY <1>1, <1>3 DEF LineInv
  <1>5. ParserInv
    BY <1>1, <1>2, <1>3 DEF ParserInv
  <1> QED  BY <1>1, <1>3, <1>4, <1>5 DEF WireInv

(* The driver reads what the chip says, packet by packet.                  *)
LEMMA WireStep ==
    ASSUME WireInv, cmds \in Seq(Packets), [Next]_vars
    PROVE  WireInv'
  <1> USE DEF WireInv
  <1>1. ASSUME UNCHANGED <<line, off, parser, rx_payload, heard, segmented>>
        PROVE  WireInv'
    BY <1>1 DEF LineInv, ParserInv
  <1>2. CASE Reset \/ SetRecvMode \/ BecameReady \/ WaitTimeout \/ Transmit \/ GetRecvData
    <2>1. UNCHANGED <<line, off, parser, rx_payload, heard, segmented>>
      BY <1>2 DEF Reset, SetRecvMode, BecameReady, WaitTimeout, Transmit, GetRecvData,
                  rxVars, chipVars
    <2> QED  BY <2>1, <1>1
  <1>3. CASE Parse
    <2>1. heard' = heard
      BY <1>3 DEF Parse
    <2> QED  BY <2>1, <1>3, LineMoves
  <1>4. ASSUME UNCHANGED <<parser, rx_payload>>, segmented => segmented', heard' \in Seq(Nat),
               \E ps : Says1or2(ps) /\ Says(ps)
        PROVE  WireInv'
    <2>1. PICK ps : Says1or2(ps) /\ Says(ps)
      BY <1>4
    <2>2. LineInv' /\ ParserInv'
      BY <2>1, <1>4, LineGrows
    <2> QED  BY <2>2, <1>4
  <1>5. CASE ChipBoot
    <2>1. UNCHANGED <<parser, rx_payload, heard, segmented>>
      BY <1>5 DEF ChipBoot, rxVars
    <2>2. \E ps : Says1or2(ps) /\ Says(ps)
      BY <1>5, ChipBoots
    <2> QED  BY <2>1, <2>2, <1>4
  <1>6. CASE ChipExecute
    <2>1. UNCHANGED <<parser, rx_payload, heard, segmented>>
      BY <1>6 DEF ChipExecute, rxVars
    <2>2. \E ps : Says1or2(ps) /\ Says(ps)
      BY <1>6, ChipReplies
    <2> QED  BY <2>1, <2>2, <1>4
  <1>7. CASE ChipHears
    <2>1. UNCHANGED <<parser, rx_payload>>
      BY <1>7 DEF ChipHears, rxVars
    <2>2. heard' = Append(heard, Len(heard) + 1) /\ (segmented => segmented')
      BY <1>7 DEF ChipHears
    <2>3. Len(heard) + 1 \in Nat
      BY LenProperties
    <2>4. heard' \in Seq(Nat)
      BY <2>2, <2>3, AppendProperties
    <2>5. \E ps : Says1or2(ps) /\ Says(ps)
      BY <1>7, ChipNotifies
    <2> QED  BY <2>1, <2>2, <2>4, <2>5, <1>4
  <1>8. CASE UNCHANGED vars
    BY <1>8, <1>1 DEF vars, rxVars, chipVars
  <1> QED  BY <1>2, <1>3, <1>5, <1>6, <1>7, <1>8 DEF Next, Driver

-----------------------------------------------------------------------------
(* Commands and their responses.                                           *)

LEMMA SendsCommand ==
    ASSUME ReplayInv, UnderWay, Counted, pc # "rsp",
           NEW id \in {RESET, TX, RX}, NEW f, NEW built \in BOOLEAN, SendCommand(id, f, built),
           UNCHANGED <<line, answered, success>>,
           ~built => id = TX /\ packet.id # TX, built /\ id = TX => f = frame'
    PROVE  UnderWay' /\ Awaited' /\ Counted' /\ Listening'
  <1>1. /\ packet' = IF built THEN [id |-> id, frame |-> f] ELSE packet
        /\ complete' = built /\ op' = id /\ pc' = "rsp" /\ cmds' = Append(cmds, packet')
    BY DEF SendCommand
  <1>2. cmds = <<>> /\ Responses = {} /\ answered = success
    BY DEF UnderWay, Counted
  <1>3. cmds' = <<packet'>> /\ cmds' # <<>>
    BY <1>1, <1>2
  <1>4. Responses' = {}
    BY <1>2 DEF Responses
  <1>5. UnderWay'
    BY <1>1, <1>3, <1>4 DEF UnderWay
  <1>6. built => packet'.id = id /\ packet'.frame = f
    BY <1>1
  <1>7. Awaited'
    BY <1>1, <1>6 DEF Awaited
  <1>8. Counted'
    BY <1>2, <1>3 DEF Counted
  <1>9. Listening'
    BY <1>3, <1>1 DEF Listening
  <1> QED  BY <1>5, <1>7, <1>8, <1>9

(* A packet less on the line, and some that are not responses more.        *)
LEMMA ResponsesOnTail ==
    ASSUME LineInv, line # <<>>, line' = Tail(line)
    PROVE  /\ \A i \in Responses' : i + 1 \in Responses /\ line'[i] = line[i + 1]
           /\ 1 \in Responses <=> Head(line).mt = "RSP"
  <1>1. /\ Len(line) \in Nat /\ Len(line) > 0 /\ DOMAIN line = 1..Len(line)
        /\ Head(line) = line[1] /\ DOMAIN line' = 1..(Len(line) - 1)
        /\ \A i \in 1..(Len(line) - 1) : line'[i] = line[i + 1]
    BY TailOf DEF LineInv
  <1>2. \A i \in 1..(Len(line) - 1) : i + 1 \in 1..Len(line)
    BY <1>1
  <1>3. 1 \in 1..Len(line)
    BY <1>1
  <1> QED  BY <1>1, <1>2, <1>3 DEF Responses

LEMMA ResponsesSaid ==
    ASSUME LineInv, NEW ps, Says1or2(ps), Says(ps)
    PROVE  /\ DOMAIN line = 1..Len(line) /\ Len(line) \in Nat /\ DOMAIN ps = 1..Len(ps)
           /\ \A i \in DOMAIN line : i \in DOMAIN line' /\ line'[i] = line[i]
           /\ \A i \in Responses' :
                  \/ i \in Responses /\ line'[i] = line[i]
                  \/ \E j \in 1..Len(ps) : i = Len(line) + j /\ line'[i] = ps[j] /\ ps[j].mt = "RSP"
  <1>1. /\ Len(line) \in Nat /\ Len(ps) \in Nat
        /\ DOMAIN line = 1..Len(line) /\ DOMAIN ps = 1..Len(ps)
        /\ DOMAIN line' = 1..(Len(line) + Len(ps))
        /\ \A i \in 1..Len(line) : line'[i] = line[i]
        /\ \A i \in 1..Len(ps) : line'[Len(line) + i] = ps[i]
    BY Joined DEF Says, Says1or2, LineInv
  <1>2. \A i \in 1..Len(line) : i \in 1..(Len(line) + Len(ps))
    BY <1>1
  <1>3. ASSUME NEW i \in Responses'
        PROVE  \/ i \in Responses /\ line'[i] = line[i]
               \/ \E j \in 1..Len(ps) : i = Len(line) + j /\ line'[i] = ps[j] /\ ps[j].mt = "RSP"
    <2>1. i \in 1..(Len(line) + Len(ps)) /\ line'[i].mt = "RSP"
      BY <1>1, <1>3 DEF Responses
    <2>2. CASE i \in 1..Len(line)
      BY <2>1, <2>2, <1>1 DEF Responses
    <2>3. CASE i \notin 1..Len(line)
      <3> DEFINE j == i - Len(line)
      <3>1. j \in 1..Len(ps) /\ i = Len(line) + j
        BY <2>1, <2>3, <1>1
      <3> QED  BY <3>1, <2>1, <1>1
    <2> QED  BY <2>2, <2>3
  <1> QED  BY <1>1, <1>2, <1>3

LEMMA NothingAnswered ==
    ASSUME UnderWay, Awaited, Counted, Listening,
           UNCHANGED <<pc, cmdVars, frame, success, skipped, cmds, mode, answered, refused>>,
           NEW d \in {0, 1},
           \A i \in Responses' : i \in Nat /\ i + d \in Responses /\ line'[i] = line[i + d]
    PROVE  UnderWay' /\ Awaited' /\ Counted' /\ Listening'
  <1>1. Responses = {} => Responses' = {}
    OBVIOUS
  <1>2. \A i, j \in Responses' : i = j
    <2> TAKE i, j \in Responses'
    <2>1. i + d = j + d
      BY DEF UnderWay
    <2> QED  BY <2>1
  <1>3. \A i \in Responses' : line'[i].id = packet.id
    BY DEF UnderWay
  <1>4. UnderWay'
    BY <1>1, <1>2, <1>3 DEF UnderWay, cmdVars
  <1>5. Awaited' /\ Counted' /\ Listening'
    BY DEF Awaited, Counted, Listening, cmdVars
  <1> QED  BY <1>4, <1>5

(* The awaited response is read: it answers the command.                   *)
LEMMA Answered ==
    ASSUME WireInv, ReplayInv, UnderWay, Awaited, Counted, Listening, Parse,
           Told(Head(line)), Head(line).mt = "RSP"
    PROVE  UnderWay' /\ Awaited' /\ Counted' /\ Listening'
  <1> DEFINE p == Head(line)
  <1>1. /\ line # <<>> /\ p \in UciPackets /\ Sayable(p)
        /\ Whole(p) => line' = Tail(line)
        /\ Reports(parser') <=> Told(p)
        /\ Told(p) => parser'.mt = p.mt /\ Id(parser') = p.id
    BY Reads DEF WireInv
  <1>2. Whole(p) /\ line' = Tail(line)
    <2>1. ~Second(p)
      BY DEF Second, App
    <2> QED  BY <2>1, <1>1 DEF Told
  <1>3. 1 \in Responses /\ \A i \in Responses' : i + 1 \in Responses /\ i \in Nat
    <2>1. 1 \in Responses /\ \A i \in Responses' : i + 1 \in Responses
      BY <1>1, <1>2, ResponsesOnTail DEF WireInv
    <2>2. line' \in Seq(UciPackets)
      BY <1>1, <1>2, TailOf DEF WireInv, LineInv
    <2>3. \A i \in Responses' : i \in Nat
      BY <2>2, LenProperties DEF Responses
    <2> QED  BY <2>1, <2>3
  <1>4. pc = "rsp" /\ cmds = <<>>
    BY <1>3 DEF UnderWay
  <1>5. Responses' = {}
    <2> SUFFICES ASSUME NEW i \in Responses' PROVE FALSE
      OBVIOUS
    <2>1. i + 1 = 1 /\ i \in Nat /\ i \in DOMAIN line'
      BY <1>3 DEF UnderWay, Responses
    <2>2. DOMAIN line' = 1..Len(line')
      BY <1>1, <1>2, TailOf, LenProperties DEF WireInv, LineInv
    <2> QED  BY <2>1, <2>2
  <1>6. p.id = packet.id
    <2>1. line[1].id = packet.id
      BY <1>3 DEF UnderWay
    <2> QED  BY <2>1, <1>1, TailOf DEF WireInv, LineInv
  <1>7. Responded(parser') /\ UNCHANGED <<frame, skipped, answered, refused>>
    <2>1. Reports(parser') /\ Answers(parser')
      BY <1>1, <1>4 DEF Answers
    <2> QED  BY <2>1 DEF Parse
  <1>8. Checks(parser') <=> packet.id = op
    BY <1>1, <1>6 DEF Checks
  <1>9. UNCHANGED <<op, packet, complete>>
    BY <1>7 DEF Responded, cmdVars
  <1> HIDE DEF p
  <1>10. op \in {RESET, TX, RX} /\ complete \in BOOLEAN
    BY DEF ReplayInv, DriverTypes
  <1>11. CASE complete
    <2>1. op = packet.id
      BY <1>4, <1>11 DEF Awaited
    <2>2. /\ pc' = IF op = RESET THEN "ready" ELSE After(op)
          /\ success' = IF op = TX THEN success \cup {frame} ELSE success
          /\ cmds' = <<>> /\ mode' = mode
      BY <2>1, <1>4, <1>7, <1>8, <1>11 DEF Responded
    <2>3. pc' # "rsp" /\ (pc' = "loop" => op = RX)
      BY <2>2, <1>10, DistinctIds DEF After
    <2>4. UnderWay' /\ Awaited'
      BY <2>2, <2>3, <1>5 DEF UnderWay, Awaited
    <2>5. Counted'
      <3>1. answered = success \cup IF op = TX THEN {frame} ELSE {}
        BY <2>1, <1>4 DEF Counted
      <3>2. answered = success'
        BY <3>1, <2>2
      <3> QED  BY <3>2, <2>3, <1>7 DEF Counted
    <2>6. Listening'
      BY <2>2, <2>3, <1>4, <1>7 DEF Listening
    <2> QED  BY <2>4, <2>5, <2>6
  <1>12. CASE ~complete
    <2>1. op = TX /\ packet.id # TX
      BY <1>4, <1>12 DEF Awaited
    <2>2. pc' = "listen" /\ success' = success /\ cmds' = <<>> /\ mode' = mode
      <3>1. After(op) = "listen"
        BY <2>1, DistinctIds DEF After
      <3>2. pc' = After(op) /\ Hardware /\ success' = success
        BY <2>1, <1>7, <1>8 DEF Responded
      <3> QED  BY <3>1, <3>2, <1>4 DEF Hardware
    <2>3. UnderWay' /\ Awaited' /\ Listening'
      BY <2>2, <1>5 DEF UnderWay, Awaited, Listening
    <2>4. Counted'
      BY <2>1, <2>2, <1>7 DEF Counted
    <2> QED  BY <2>3, <2>4
  <1> QED  BY <1>10, <1>11, <1>12

(* Any other byte changes nothing about it.                                *)
LEMMA NotAnswered ==
    ASSUME WireInv, UnderWay, Awaited, Counted, Listening, Parse,
           ~(Told(Head(line)) /\ Head(line).mt = "RSP")
    PROVE  UnderWay' /\ Awaited' /\ Counted' /\ Listening'
  <1> DEFINE p == Head(line)
  <1>1. /\ line # <<>> /\ p \in UciPackets /\ Sayable(p)
        /\ Whole(p) => line' = Tail(line)
        /\ ~Whole(p) => line' = line
        /\ Reports(parser') <=> Told(p)
        /\ Told(p) => parser'.mt = p.mt
    BY Reads DEF WireInv
  <1>2. Notified(parser') \/ Drop
    BY <1>1 DEF Parse, Answers
  <1>3. UNCHANGED <<pc, cmdVars, frame, success, skipped, cmds, mode, answered, refused>>
    BY <1>2 DEF Parse, Notified, Drop
  <1>4. line' \in Seq(UciPackets)
    <2>1. line \in Seq(UciPackets)
      BY DEF WireInv, LineInv
    <2>2. Tail(line) \in Seq(UciPackets)
      BY <2>1, <1>1, TailOf
    <2> QED  BY <2>1, <2>2, <1>1
  <1>5. \A i \in Responses' : i \in Nat
    BY <1>4, LenProperties DEF Responses
  <1>6. CASE Whole(p)
    <2>1. \A i \in Responses' : i + 1 \in Responses /\ line'[i] = line[i + 1]
      BY <1>1, <1>6, ResponsesOnTail DEF WireInv
    <2> QED  BY <2>1, <1>3, <1>5, NothingAnswered
  <1>7. CASE ~Whole(p)
    <2>1. \A i \in Responses' : i + 0 \in Responses /\ line'[i] = line[i + 0]
      BY <1>1, <1>5, <1>7 DEF Responses
    <2> QED  BY <2>1, <1>3, <1>5, NothingAnswered
  <1> QED  BY <1>6, <1>7

(* The chip takes the command and responds; the driver awaits that.        *)
LEMMA Executed ==
    ASSUME WireInv, ReplayInv, UnderWay, Awaited, Counted, Listening, ChipExecute
    PROVE  UnderWay' /\ Awaited' /\ Counted' /\ Listening'
  <1> USE DEF ReplayInv, DriverTypes
  <1>1. /\ cmds # <<>> /\ cmds' = Tail(cmds)
        /\ UNCHANGED <<pc, op, packet, complete, frame, success, skipped>>
    BY DEF ChipExecute, cmdVars, histVars
  <1>2. pc = "rsp" /\ cmds = <<packet>> /\ Responses = {}
    BY <1>1 DEF UnderWay
  <1>3. Head(cmds) = packet /\ cmds' = <<>>
    BY <1>1, <1>2
  <1>4. PICK ps : /\ Says1or2(ps) /\ Says(ps) /\ ps[1].mt = "RSP" /\ ps[1].id = packet.id
                  /\ \A i \in 1..Len(ps) : i > 1 => ps[i].mt = "NTF"
    BY <1>3, ChipReplies
  <1>5. \A i \in Responses' : i = Len(line) + 1 /\ line'[i].id = packet.id
    <2> TAKE i \in Responses'
    <2>1. PICK j \in 1..Len(ps) : i = Len(line) + j /\ line'[i] = ps[j] /\ ps[j].mt = "RSP"
      BY <1>2, <1>4, ResponsesSaid DEF WireInv
    <2>2. Len(ps) \in {1, 2}
      BY <1>4 DEF Says1or2
    <2>3. j = 1
      BY <1>4, <2>1, <2>2
    <2> QED  BY <1>4, <2>1, <2>3
  <1>6. UnderWay'
    BY <1>1, <1>2, <1>3, <1>5 DEF UnderWay
  <1>7. Awaited'
    BY <1>1 DEF Awaited
  <1>8. Counted'
    <2>1. answered = success
      BY <1>2, <1>1 DEF Counted
    <2>2. CASE packet.id = TX
      <3>1. answered' = answered \cup {packet.frame}
        BY <2>2, <1>3, DistinctIds DEF ChipExecute
      <3>2. packet.frame = frame
        BY <2>2, <1>2 DEF Awaited
      <3> QED  BY <2>1, <2>2, <3>1, <3>2, <1>1, <1>2, <1>3 DEF Counted
    <2>3. CASE packet.id # TX
      <3>1. answered' = answered
        BY <2>3, <1>3 DEF ChipExecute
      <3> QED  BY <2>1, <2>3, <3>1, <1>1 DEF Counted
    <2> QED  BY <2>2, <2>3
  <1>9. Listening'
    <2>1. CASE op = RX
      <3>1. packet.id = RX
        BY <2>1, <1>2, DistinctIds DEF Awaited
      <3>2. mode' = "rx" \/ refused'
        BY <3>1, <1>3, DistinctIds DEF ChipExecute
      <3> QED  BY <3>2 DEF Listening
    <2>2. CASE op # RX
      BY <2>2, <1>1, <1>2 DEF Listening
    <2> QED  BY <2>1, <2>2
  <1> QED  BY <1>6, <1>7, <1>8, <1>9

LEMMA ExchangeInit == Init => ExchangeInv
  <1> SUFFICES ASSUME Init PROVE ExchangeInv
    OBVIOUS
  <1>1. Responses = {} /\ cmds = <<>> /\ pc = "init" /\ answered = {} /\ success = {}
    BY DEF Init, Responses
  <1> QED  BY <1>1 DEF ExchangeInv, UnderWay, Awaited, Counted, Listening

LEMMA ExchangeStep ==
    ASSUME WireInv, ReplayInv, ExchangeInv, [Next]_vars
    PROVE  ExchangeInv'
  <1>0. late => late'
    BY DEF Next, Driver, Reset, SetRecvMode, Transmit, Parse, BecameReady, WaitTimeout,
           GetRecvData, ChipBoot, ChipExecute, ChipHears, vars, histVars
  <1> SUFFICES ASSUME ~late' PROVE UnderWay' /\ Awaited' /\ Counted' /\ Listening'
    BY DEF ExchangeInv
  <1>i. UnderWay /\ Awaited /\ Counted /\ Listening
    BY <1>0 DEF ExchangeInv
  <1>n. \A i \in Responses : i \in Nat
    BY LenProperties DEF WireInv, LineInv, Responses
  <1>k. ASSUME line' = line,
               UNCHANGED <<pc, cmdVars, frame, success, skipped, cmds, mode, answered, refused>>
        PROVE  UnderWay' /\ Awaited' /\ Counted' /\ Listening'
    <2>1. \A i \in Responses' : i \in Nat /\ i + 0 \in Responses /\ line'[i] = line[i + 0]
      BY <1>k, <1>n DEF Responses
    <2> QED  BY <2>1, <1>i, <1>k, NothingAnswered
  <1>1. CASE Reset
    <2>1. /\ pc # "rsp" /\ SendCommand(RESET, 0, TRUE)
          /\ UNCHANGED <<line, answered, success>>
      BY <1>1 DEF Reset, histVars
    <2> QED  BY <2>1, <1>i, SendsCommand, DistinctIds
  <1>2. CASE SetRecvMode
    <2>1. CASE uwbs_sta = "READY"
      <3>1. /\ pc # "rsp" /\ SendCommand(RX, 0, TRUE)
            /\ UNCHANGED <<line, answered, success>>
        BY <1>2, <2>1 DEF SetRecvMode
      <3> QED  BY <3>1, <1>i, SendsCommand, DistinctIds
    <2>2. CASE uwbs_sta # "READY"
      <3>1. /\ pc = "listen" /\ pc' = "loop" /\ skipped'
            /\ UNCHANGED <<line, answered, success, packet, cmds>>
        BY <1>2, <2>2 DEF SetRecvMode, cmdVars
      <3>2. Responses' = Responses
        BY <3>1 DEF Responses
      <3> QED  BY <3>1, <3>2, <1>i DEF UnderWay, Awaited, Counted, Listening
    <2> QED  BY <2>1, <2>2
  <1>3. CASE Transmit
    <2>0. pc = "loop" /\ frame' = frame + 1 /\ UNCHANGED <<line, answered, success>>
      BY <1>3 DEF Transmit
    <2>1. CASE uwbs_sta = "READY"
      <3>1. PICK fits \in BOOLEAN : SendCommand(TX, frame + 1, fits)
        BY <1>3, <2>1 DEF Transmit
      <3>2. packet.id # TX
        BY <2>0 DEF ReplayInv, PacketInv
      <3> QED  BY <2>0, <3>1, <3>2, <1>i, SendsCommand
    <2>2. CASE uwbs_sta # "READY"
      <3>1. pc' = "listen" /\ UNCHANGED <<packet, cmds>>
        BY <1>3, <2>2 DEF Transmit, cmdVars
      <3>2. Responses' = Responses
        BY <2>0 DEF Responses
      <3> QED  BY <2>0, <3>1, <3>2, <1>i DEF UnderWay, Awaited, Counted, Listening
    <2> QED  BY <2>1, <2>2
  <1>4. CASE Parse
    BY <1>4, <1>i, Answered, NotAnswered
  <1>5. CASE BecameReady
    <2>1. /\ pc # "rsp" /\ pc' = "listen"
          /\ UNCHANGED <<line, answered, success, packet, cmds>>
      BY <1>5 DEF BecameReady, cmdVars, histVars, chipVars
    <2>2. Responses' = Responses
      BY <2>1 DEF Responses
    <2> QED  BY <2>1, <2>2, <1>i DEF UnderWay, Awaited, Counted, Listening
  <1>6. CASE WaitTimeout
    BY <1>6 DEF WaitTimeout
  <1>7. CASE GetRecvData
    BY <1>7, <1>k DEF GetRecvData, histVars, chipVars
  <1>8. ASSUME NEW ps, Says1or2(ps), Says(ps), \A i \in 1..Len(ps) : ps[i].mt = "NTF",
               UNCHANGED <<pc, cmdVars, frame, success, skipped, cmds, mode, answered, refused>>
        PROVE  UnderWay' /\ Awaited' /\ Counted' /\ Listening'
    <2>1. \A i \in Responses' : i \in Responses /\ line'[i] = line[i]
      BY <1>8, ResponsesSaid DEF WireInv
    <2>2. \A i \in Responses' : i \in Nat /\ i + 0 \in Responses /\ line'[i] = line[i + 0]
      BY <2>1, <1>n
    <2> QED  BY <2>2, <1>8, <1>i, NothingAnswered
  <1>9. CASE ChipBoot
    <2>1. UNCHANGED <<pc, cmdVars, frame, success, skipped, cmds, mode, answered, refused>>
      BY <1>9 DEF ChipBoot, histVars
    <2> QED  BY <2>1, <1>8, <1>9, ChipBoots
  <1>10. CASE ChipExecute
    BY <1>10, <1>i, Executed
  <1>11. CASE ChipHears
    <2>1. UNCHANGED <<pc, cmdVars, frame, success, skipped, cmds, mode, answered, refused>>
      BY <1>11 DEF ChipHears, histVars
    <2> QED  BY <2>1, <1>8, <1>11, ChipNotifies DEF WireInv
  <1>12. CASE UNCHANGED vars
    BY <1>12, <1>k DEF vars, histVars, chipVars
  <1> QED  BY <1>1, <1>2, <1>3, <1>4, <1>5, <1>6, <1>7, <1>9, <1>10, <1>11, <1>12
           DEF Next, Driver

LEMMA UwbInvariant == Spec => [](WireInv /\ ReplayInv /\ ExchangeInv)
  <1>1. WireInv /\ ReplayInv /\ ExchangeInv /\ [Next]_vars
            => (WireInv /\ ReplayInv /\ ExchangeInv)'
    <2> SUFFICES ASSUME WireInv, ReplayInv, ExchangeInv, [Next]_vars
                 PROVE  (WireInv /\ ReplayInv /\ ExchangeInv)'
      OBVIOUS
    <2>1. cmds \in Seq(Packets)
      BY DEF ReplayInv, DriverTypes
    <2> QED  BY <2>1, WireStep, ReplayStep, ExchangeStep
  <1> QED  BY <1>1, WireInit, ReplayInit, ExchangeInit, PTL DEF Spec

(* Unless some wait timed out, data_transmit returns true exactly for the  *)
(* frames the chip responded to (__rsp_process, check_data_tx_rsp).        *)
THEOREM TransmitReportsTruth == Spec => []SuccessMeansAnswered
  <1>1. ExchangeInv => SuccessMeansAnswered
    BY DEF ExchangeInv, Counted, SuccessMeansAnswered
  <1> QED  BY <1>1, UwbInvariant, PTL

(* When the radio task looks for data the chip is receiving, unless a wait *)
(* timed out, the driver was not ready, or the chip refused.               *)
THEOREM LoopFindsChipListening == Spec => []ListensInLoop
  <1>1. ExchangeInv => ListensInLoop
    BY DEF ExchangeInv, Listening, ListensInLoop
  <1> QED  BY <1>1, UwbInvariant, PTL

-----------------------------------------------------------------------------
(* The data.                                                               *)

(* One or two copies of the data of the next frame come behind the others. *)
LEMMA GivenMore ==
    ASSUME NEW d \in Seq(Nat), NEW y \in Seq(Nat), NEW k \in Nat, NEW was, Given(d, k, was),
           Len(y) \in {1, 2}, \A i \in 1..Len(y) : y[i] = k + 1
    PROVE  /\ Given(d \o y, k, TRUE) /\ Given(d \o y, k + 1, FALSE)
           /\ Len(y) = 1 /\ Exact(d, k) => Exact(d \o y, k + 1)
  <1> DEFINE e == d \o y
  <1>1. /\ Len(d) \in Nat /\ Len(y) \in {1, 2} /\ DOMAIN d = 1..Len(d) /\ DOMAIN y = 1..Len(y)
        /\ DOMAIN e = 1..(Len(d) + Len(y)) /\ Len(e) = Len(d) + Len(y)
        /\ \A i \in 1..Len(d) : e[i] = d[i]
        /\ \A i \in 1..Len(y) : e[Len(d) + i] = y[i]
    BY Joined
  <1>2. \A i \in 1..Len(d) : d[i] \in Nat /\ d[i] <= k + 1
    <2>1. \A i \in 1..Len(d) : d[i] \in Nat
      BY ElementOfSeq
    <2>2. CASE was
      BY <2>1, <2>2, <1>1 DEF Given
    <2>3. CASE ~was
      <3>1. \A i \in 1..Len(d) : d[i] <= k
        BY <2>3, <1>1 DEF Given
      <3> QED  BY <2>1, <3>1
    <2> QED  BY <2>2, <2>3
  <1>3. \A i, j \in 1..Len(d) : i < j => d[i] <= d[j]
    BY <1>1 DEF Given
  <1>4. \A f \in 1..k : \E i \in 1..Len(d) : d[i] = f
    BY <1>1 DEF Given
  <1> HIDE DEF e
  <1>5. \A i \in 1..(Len(d) + Len(y)) :
            \/ i \in 1..Len(d) /\ e[i] = d[i]
            \/ i \notin 1..Len(d) /\ i > Len(d) /\ e[i] = k + 1
    <2> TAKE i \in 1..(Len(d) + Len(y))
    <2>1. CASE i \notin 1..Len(d)
      <3> DEFINE j == i - Len(d)
      <3>1. j \in 1..Len(y) /\ i = Len(d) + j /\ i > Len(d)
        BY <2>1, <1>1
      <3>2. e[i] = y[j]
        BY <3>1, <1>1
      <3> QED  BY <2>1, <3>1, <3>2
    <2> QED  BY <2>1, <1>1
  <1>6. \A i \in DOMAIN e : e[i] <= k + 1
    BY <1>1, <1>2, <1>5
  <1>7. \A i, j \in DOMAIN e : i < j => e[i] <= e[j]
    <2> TAKE i, j \in DOMAIN e
    <2> HAVE i < j
    <2>1. CASE j \in 1..Len(d)
      <3>1. i \in 1..Len(d)
        BY <2>1, <1>1
      <3> QED  BY <2>1, <3>1, <1>1, <1>3
    <2>2. CASE j \notin 1..Len(d)
      BY <2>2, <1>1, <1>5, <1>6
    <2> QED  BY <2>1, <2>2
  <1>8. \A f \in 1..k : \E i \in DOMAIN e : e[i] = f
    <2>1. \A i \in 1..Len(d) : i \in DOMAIN e
      BY <1>1
    <2> QED  BY <2>1, <1>1, <1>4
  <1>9. \A f \in 1..(k + 1) : \E i \in DOMAIN e : e[i] = f
    <2>1. Len(d) + 1 \in DOMAIN e /\ 1 \in 1..Len(y)
      BY <1>1
    <2>2. e[Len(d) + 1] = k + 1
      BY <2>1, <1>1
    <2>3. \A f \in 1..(k + 1) : f \in 1..k \/ f = k + 1
      OBVIOUS
    <2> QED  BY <2>1, <2>2, <2>3, <1>8
  <1>10. Given(e, k, TRUE)
    BY <1>6, <1>7, <1>8 DEF Given
  <1>11. Given(e, k + 1, FALSE)
    BY <1>6, <1>7, <1>9 DEF Given
  <1>12. ASSUME Len(y) = 1, Exact(d, k)
         PROVE  Exact(e, k + 1)
    <2>1. Len(d) = k /\ \A i \in 1..Len(d) : d[i] = i
      BY <1>1, <1>12 DEF Exact
    <2>2. \A i \in 1..(k + 1) : e[i] = i
      BY <2>1, <1>5, <1>12
    <2> QED  BY <2>1, <2>2, <1>1, <1>12 DEF Exact
  <1> QED  BY <1>10, <1>11, <1>12 DEF e

(* The next of the frames on the line comes first.                         *)
LEMMA FirstOnLine ==
    ASSUME WireInv, NEW k \in 0..Len(heard), OnLine(k), line # <<>>, App(Head(line)),
           Head(line).pbf = 0
    PROVE  FrameOf(Head(line)) = k + 1 /\ k + 1 <= Len(heard)
  <1>1. /\ Len(line) \in Nat /\ Len(line) > 0 /\ DOMAIN line = 1..Len(line)
        /\ Head(line) = line[1]
    BY TailOf DEF WireInv, LineInv
  <1>2. 1 \in DOMAIN line /\ k \in Nat /\ Len(heard) \in Nat
    BY <1>1, LenProperties DEF WireInv
  <1> DEFINE f == FrameOf(line[1])
  <1>3. f \in (k + 1)..Len(heard)
    BY <1>1, <1>2 DEF OnLine
  <1>4. k + 1 \in (k + 1)..Len(heard)
    BY <1>2, <1>3
  <1>5. PICK i \in DOMAIN line : App(line[i]) /\ line[i].pbf = 0 /\ FrameOf(line[i]) = k + 1
    BY <1>4 DEF OnLine
  <1>6. CASE i = 1
    BY <1>1, <1>4, <1>5, <1>6
  <1>7. CASE i # 1
    <2>1. 1 < i
      BY <1>1, <1>7
    <2>2. f < FrameOf(line[i])
      BY <2>1, <1>1, <1>2, <1>5 DEF OnLine
    <2> QED  BY <2>2, <1>2, <1>3, <1>5
  <1> QED  BY <1>6, <1>7

LEMMA OnTail ==
    ASSUME WireInv, line # <<>>, line' = Tail(line)
    PROVE  /\ Head(line) = line[1] /\ 1 \in DOMAIN line
           /\ \A i \in DOMAIN line' : i + 1 \in DOMAIN line /\ line'[i] = line[i + 1] /\ i \in Nat
           /\ \A i \in DOMAIN line : i # 1 => i - 1 \in DOMAIN line' /\ line'[i - 1] = line[i]
  <1>1. /\ Len(line) \in Nat /\ Len(line) > 0 /\ DOMAIN line = 1..Len(line)
        /\ Head(line) = line[1] /\ DOMAIN line' = 1..(Len(line) - 1)
        /\ \A i \in 1..(Len(line) - 1) : line'[i] = line[i + 1]
    BY TailOf DEF WireInv, LineInv
  <1>2. \A i \in 1..(Len(line) - 1) : i + 1 \in 1..Len(line) /\ i \in Nat
    BY <1>1
  <1>3. \A i \in 1..Len(line) : i # 1 => i - 1 \in 1..(Len(line) - 1) /\ (i - 1) + 1 = i
    BY <1>1
  <1> QED  BY <1>1, <1>2, <1>3

(* A packet with no data, or the first of two, has passed ...              *)
LEMMA PassedOther ==
    ASSUME WireInv, NEW k \in 0..Len(heard), OnLine(k), line # <<>>, line' = Tail(line),
           heard' = heard, ~(App(Head(line)) /\ Head(line).pbf = 0)
    PROVE  OnLine(k)'
  <1>1. /\ Head(line) = line[1] /\ 1 \in DOMAIN line
        /\ \A i \in DOMAIN line' : i + 1 \in DOMAIN line /\ line'[i] = line[i + 1] /\ i \in Nat
        /\ \A i \in DOMAIN line : i # 1 => i - 1 \in DOMAIN line' /\ line'[i - 1] = line[i]
    BY OnTail
  <1>2. \A i \in DOMAIN line' : App(line'[i]) => FrameOf(line'[i]) \in (k + 1)..Len(heard)
    BY <1>1 DEF OnLine
  <1>3. \A i, j \in DOMAIN line' : i < j /\ App(line'[i]) /\ App(line'[j]) =>
            IF line'[i].pbf = 1 THEN FrameOf(line'[i]) <= FrameOf(line'[j])
                                ELSE FrameOf(line'[i]) < FrameOf(line'[j])
    <2> TAKE i, j \in DOMAIN line'
    <2> HAVE i < j /\ App(line'[i]) /\ App(line'[j])
    <2>1. i + 1 < j + 1
      BY <1>1
    <2> QED  BY <2>1, <1>1 DEF OnLine
  <1>4. \A f \in (k + 1)..Len(heard) :
            \E i \in DOMAIN line' : App(line'[i]) /\ line'[i].pbf = 0 /\ FrameOf(line'[i]) = f
    <2> TAKE f \in (k + 1)..Len(heard)
    <2>1. PICK i \in DOMAIN line : App(line[i]) /\ line[i].pbf = 0 /\ FrameOf(line[i]) = f
      BY DEF OnLine
    <2>2. i # 1
      BY <2>1, <1>1
    <2>3. i - 1 \in DOMAIN line' /\ line'[i - 1] = line[i]
      BY <2>2, <1>1
    <2> QED  BY <2>1, <2>3
  <1> QED  BY <1>2, <1>3, <1>4 DEF OnLine

(* ... and one with the data of the next frame.                            *)
LEMMA PassedData ==
    ASSUME WireInv, NEW k \in 0..Len(heard), OnLine(k), line # <<>>, line' = Tail(line),
           heard' = heard, App(Head(line)), Head(line).pbf = 0
    PROVE  OnLine(k + 1)'
  <1>1. /\ Head(line) = line[1] /\ 1 \in DOMAIN line
        /\ \A i \in DOMAIN line' : i + 1 \in DOMAIN line /\ line'[i] = line[i + 1] /\ i \in Nat
        /\ \A i \in DOMAIN line : i # 1 => i - 1 \in DOMAIN line' /\ line'[i - 1] = line[i]
    BY OnTail
  <1>0. k \in Nat /\ Len(heard) \in Nat
    BY LenProperties DEF WireInv
  <1>f. FrameOf(line[1]) = k + 1
    BY <1>1, FirstOnLine
  <1>2. \A i \in DOMAIN line' : App(line'[i]) => FrameOf(line'[i]) \in ((k + 1) + 1)..Len(heard)
    <2> TAKE i \in DOMAIN line'
    <2> HAVE App(line'[i])
    <2>1. 1 < i + 1
      <3>1. i \in 1..Len(line')
        BY TailOf, LenProperties DEF WireInv, LineInv
      <3> QED  BY <3>1
    <2>2. FrameOf(line[1]) < FrameOf(line[i + 1])
      BY <2>1, <1>1 DEF OnLine
    <2>3. FrameOf(line[i + 1]) \in (k + 1)..Len(heard)
      BY <1>1 DEF OnLine
    <2> QED  BY <2>2, <2>3, <1>0, <1>1, <1>f
  <1>3. \A i, j \in DOMAIN line' : i < j /\ App(line'[i]) /\ App(line'[j]) =>
            IF line'[i].pbf = 1 THEN FrameOf(line'[i]) <= FrameOf(line'[j])
                                ELSE FrameOf(line'[i]) < FrameOf(line'[j])
    <2> TAKE i, j \in DOMAIN line'
    <2> HAVE i < j /\ App(line'[i]) /\ App(line'[j])
    <2>1. i + 1 < j + 1
      BY <1>1
    <2> QED  BY <2>1, <1>1 DEF OnLine
  <1>4. \A f \in ((k + 1) + 1)..Len(heard) :
            \E i \in DOMAIN line' : App(line'[i]) /\ line'[i].pbf = 0 /\ FrameOf(line'[i]) = f
    <2> TAKE f \in ((k + 1) + 1)..Len(heard)
    <2>0. f \in (k + 1)..Len(heard) /\ f # k + 1
      BY <1>0
    <2>1. PICK i \in DOMAIN line : App(line[i]) /\ line[i].pbf = 0 /\ FrameOf(line[i]) = f
      BY <2>0 DEF OnLine
    <2>2. i # 1
      BY <2>0, <2>1, <1>f
    <2>3. i - 1 \in DOMAIN line' /\ line'[i - 1] = line[i]
      BY <2>2, <1>1
    <2> QED  BY <2>1, <2>3
  <1> QED  BY <1>2, <1>3, <1>4 DEF OnLine

(* What the chip says comes behind.                                        *)
LEMMA HalfwayKept ==
    ASSUME WireInv, NEW ps, Says1or2(ps), Says(ps)
    PROVE  Halfway' <=> Halfway
  <1>1. /\ Len(line) \in Nat /\ Len(ps) \in {1, 2} /\ DOMAIN line' = 1..(Len(line) + Len(ps))
        /\ Len(line') = Len(line) + Len(ps)
        /\ \A i \in 1..Len(line) : line'[i] = line[i]
        /\ \A i \in 1..Len(ps) : line'[Len(line) + i] = ps[i]
        /\ line' \in Seq(UciPackets)
    BY Joined DEF Says, Says1or2, WireInv, LineInv
  <1>2. line' # <<>> /\ Head(line') = line'[1]
    BY <1>1, EmptySeq
  <1>3. CASE line = <<>>
    <2>1. Len(line) = 0 /\ 1 \in 1..Len(ps) /\ 0 + 1 = 1
      BY <1>3, <1>1, EmptySeq
    <2>2. line'[1] = ps[1]
      BY <2>1, <1>1
    <2> QED  BY <2>2, <1>2, <1>3 DEF Halfway, Says1or2
  <1>4. CASE line # <<>>
    <2>1. Head(line) = line[1] /\ 1 \in 1..Len(line)
      BY <1>4, TailOf DEF WireInv, LineInv
    <2> QED  BY <2>1, <1>1, <1>2, <1>4 DEF Halfway
  <1> QED  BY <1>3, <1>4

LEMMA OnLonger ==
    ASSUME WireInv, NEW ps, Says1or2(ps), Says(ps)
    PROVE  /\ DOMAIN line \subseteq DOMAIN line' /\ DOMAIN line \subseteq Nat
           /\ \A i \in DOMAIN line : line'[i] = line[i] /\ i < Len(line) + 1
           /\ \A i \in DOMAIN line' :
                  \/ i \in DOMAIN line
                  \/ \E j \in 1..Len(ps) : i = Len(line) + j /\ line'[i] = ps[j]
           /\ \A j \in 1..Len(ps) : /\ Len(line) + j \in DOMAIN line'
                                    /\ line'[Len(line) + j] = ps[j]
           /\ Len(line) \in Nat /\ Len(ps) \in {1, 2}
  <1>1. /\ Len(line) \in Nat /\ Len(ps) \in {1, 2} /\ DOMAIN line' = 1..(Len(line) + Len(ps))
        /\ DOMAIN line = 1..Len(line)
        /\ \A i \in 1..Len(line) : line'[i] = line[i]
        /\ \A i \in 1..Len(ps) : line'[Len(line) + i] = ps[i]
    BY Joined DEF Says, Says1or2, WireInv, LineInv
  <1>2. ASSUME NEW i \in 1..(Len(line) + Len(ps)), i \notin 1..Len(line)
        PROVE  \E j \in 1..Len(ps) : i = Len(line) + j /\ line'[i] = ps[j]
    <2> DEFINE j == i - Len(line)
    <2>1. j \in 1..Len(ps) /\ i = Len(line) + j
      BY <1>1, <1>2
    <2> QED  BY <2>1, <1>1
  <1>3. /\ 1..Len(line) \subseteq 1..(Len(line) + Len(ps)) /\ 1..Len(line) \subseteq Nat
        /\ \A i \in 1..Len(line) : i < Len(line) + 1
        /\ \A j \in 1..Len(ps) : Len(line) + j \in 1..(Len(line) + Len(ps))
    BY <1>1
  <1> QED  BY <1>1, <1>2, <1>3

LEMMA SaidOther ==
    ASSUME WireInv, NEW ps, Says1or2(ps), Says(ps), \A i \in 1..Len(ps) : ~App(ps[i]),
           heard' = heard, NEW k \in 0..Len(heard), OnLine(k)
    PROVE  OnLine(k)'
  <1>1. /\ DOMAIN line \subseteq DOMAIN line'
        /\ \A i \in DOMAIN line : line'[i] = line[i]
        /\ \A i \in DOMAIN line' : App(line'[i]) => i \in DOMAIN line
    BY OnLonger
  <1>2. \A f \in (k + 1)..Len(heard) :
            \E i \in DOMAIN line' : App(line'[i]) /\ line'[i].pbf = 0 /\ FrameOf(line'[i]) = f
    BY <1>1 DEF OnLine
  <1>3. \A i, j \in DOMAIN line' : i < j /\ App(line'[i]) /\ App(line'[j]) =>
            IF line'[i].pbf = 1 THEN FrameOf(line'[i]) <= FrameOf(line'[j])
                                ELSE FrameOf(line'[i]) < FrameOf(line'[j])
    BY <1>1 DEF OnLine
  <1>4. \A i \in DOMAIN line' : App(line'[i]) => FrameOf(line'[i]) \in (k + 1)..Len(heard)
    BY <1>1 DEF OnLine
  <1> QED  BY <1>2, <1>3, <1>4 DEF OnLine

LEMMA SaidData ==
    ASSUME WireInv, NEW ps, Says1or2(ps), Says(ps),
           \A i \in 1..Len(ps) : App(ps[i]) /\ FrameOf(ps[i]) = Len(heard) + 1,
           ps[Len(ps)].pbf = 0, Len(ps) = 2 => ps[1].pbf = 1,
           Len(heard') = Len(heard) + 1, NEW k \in 0..Len(heard), OnLine(k)
    PROVE  OnLine(k)'
  <1>1. /\ DOMAIN line \subseteq DOMAIN line' /\ DOMAIN line \subseteq Nat
        /\ \A i \in DOMAIN line : line'[i] = line[i] /\ i < Len(line) + 1
        /\ \A i \in DOMAIN line' :
               \/ i \in DOMAIN line
               \/ \E j \in 1..Len(ps) : i = Len(line) + j /\ line'[i] = ps[j]
        /\ \A j \in 1..Len(ps) : /\ Len(line) + j \in DOMAIN line'
                                 /\ line'[Len(line) + j] = ps[j]
        /\ Len(line) \in Nat /\ Len(ps) \in {1, 2}
    BY OnLonger
  <1>0. k \in Nat /\ Len(heard) \in Nat
    BY LenProperties DEF WireInv
  <1>2. \A i \in DOMAIN line : App(line[i]) =>
            FrameOf(line[i]) \in (k + 1)..Len(heard) /\ FrameOf(line[i]) < Len(heard) + 1
    BY <1>0 DEF OnLine
  <1>3. \A i \in DOMAIN line' : i \notin DOMAIN line =>
            App(line'[i]) /\ FrameOf(line'[i]) = Len(heard) + 1
    BY <1>1
  <1>4. \A i \in DOMAIN line' : App(line'[i]) => FrameOf(line'[i]) \in (k + 1)..Len(heard')
    <2> TAKE i \in DOMAIN line'
    <2> HAVE App(line'[i])
    <2>1. CASE i \in DOMAIN line
      BY <2>1, <1>0, <1>1, <1>2
    <2>2. CASE i \notin DOMAIN line
      BY <2>2, <1>0, <1>3
    <2> QED  BY <2>1, <2>2
  <1>5. \A i, j \in DOMAIN line' : i < j /\ App(line'[i]) /\ App(line'[j]) =>
            IF line'[i].pbf = 1 THEN FrameOf(line'[i]) <= FrameOf(line'[j])
                                ELSE FrameOf(line'[i]) < FrameOf(line'[j])
    <2> TAKE i, j \in DOMAIN line'
    <2> HAVE i < j /\ App(line'[i]) /\ App(line'[j])
    <2>1. CASE j \in DOMAIN line
      <3>1. i \in DOMAIN line
        <4>1. i \notin DOMAIN line => \E h \in 1..Len(ps) : i = Len(line) + h
          BY <1>1
        <4> QED  BY <4>1, <2>1, <1>1
      <3> QED  BY <3>1, <2>1, <1>1 DEF OnLine
    <2>2. CASE j \notin DOMAIN line /\ i \in DOMAIN line
      <3>1. FrameOf(line'[i]) < Len(heard) + 1 /\ FrameOf(line'[j]) = Len(heard) + 1
            /\ FrameOf(line'[i]) \in Int
        BY <2>2, <1>0, <1>1, <1>2, <1>3
      <3> QED  BY <3>1, <1>0
    <2>3. CASE j \notin DOMAIN line /\ i \notin DOMAIN line
      <3>1. PICK h \in 1..Len(ps) : i = Len(line) + h /\ line'[i] = ps[h]
        BY <2>3, <1>1
      <3>2. PICK g \in 1..Len(ps) : j = Len(line) + g /\ line'[j] = ps[g]
        BY <2>3, <1>1
      <3>l. Len(line) \in Nat /\ Len(ps) \in {1, 2}
        BY <1>1
      <3>h. h < g
        BY <3>1, <3>2, <3>l
      <3>3. Len(ps) = 2 /\ h = 1
        BY <3>h, <3>l
      <3>4. line'[i].pbf = 1
        BY <3>1, <3>3
      <3> QED  BY <3>4, <2>3, <1>0, <1>3
    <2> QED  BY <2>1, <2>2, <2>3
  <1>6. \A f \in (k + 1)..Len(heard') :
            \E i \in DOMAIN line' : App(line'[i]) /\ line'[i].pbf = 0 /\ FrameOf(line'[i]) = f
    <2> TAKE f \in (k + 1)..Len(heard')
    <2>1. CASE f = Len(heard) + 1
      <3>1. Len(ps) \in 1..Len(ps)
        BY <1>1
      <3> QED  BY <3>1, <2>1, <1>1
    <2>2. CASE f # Len(heard) + 1
      <3>1. f \in (k + 1)..Len(heard)
        BY <2>2, <1>0
      <3> QED  BY <3>1, <1>1 DEF OnLine
    <2> QED  BY <2>1, <2>2
  <1> QED  BY <1>4, <1>5, <1>6 DEF OnLine

(* What a byte adds to the data.                                           *)
LEMMA DataRead ==
    ASSUME WireInv, Parse
    PROVE  /\ UNCHANGED <<delivered, heard, segmented>>
           /\ ~(Told(Head(line)) /\ App(Head(line))) => transparent_data' = transparent_data
           /\ Told(Head(line)) /\ App(Head(line)) =>
                  transparent_data' =
                      transparent_data \o SubSeq(rx_payload', 3, Len(rx_payload'))
  <1> DEFINE p == Head(line)
  <1>1. /\ Reports(parser') <=> Told(p)
        /\ Told(p) => parser'.mt = p.mt /\ Id(parser') = p.id
    BY Reads DEF WireInv
  <1>2. UNCHANGED <<delivered, heard, segmented>>
    BY DEF Parse
  <1>3. CASE ~Told(p)
    <2>1. transparent_data' = transparent_data
      BY <1>1, <1>3 DEF Parse, Drop
    <2> QED  BY <1>2, <1>3, <2>1
  <1>4. CASE Told(p) /\ App(p)
    <2>1. parser'.mt = "NTF" /\ Id(parser') = RX
      BY <1>1, <1>4 DEF App
    <2>2. Notified(parser')
      BY <1>1, <1>4, <2>1 DEF Parse, Answers, Notifies
    <2>3. transparent_data' = transparent_data \o SubSeq(rx_payload', 3, Len(rx_payload'))
      BY <2>1, <2>2 DEF Notified
    <2> QED  BY <1>2, <1>4, <2>3
  <1>5. CASE Told(p) /\ ~App(p)
    <2>1. Responded(parser') \/ (Notifies(parser') /\ Notified(parser')) \/ Drop
      BY <1>1, <1>5 DEF Parse
    <2>2. Notifies(parser') => Id(parser') # RX
      BY <1>1, <1>5 DEF App, Notifies
    <2>3. transparent_data' = transparent_data
      BY <2>1, <2>2 DEF Responded, Notified, Drop
    <2> QED  BY <1>2, <1>5, <2>3
  <1> QED  BY <1>3, <1>4, <1>5

LEMMA NewData ==
    ASSUME WireInv, Parse, Told(Head(line)), App(Head(line)), NEW S, FrameOf(Head(line)) \in S
    PROVE  LET y == SubSeq(rx_payload', 3, Len(rx_payload'))
           IN  /\ y \in Seq(S) /\ \A i \in 1..Len(y) : y[i] = FrameOf(Head(line))
               /\ Len(y) = IF Second(Head(line)) /\ Whole(Head(line)) THEN 2 ELSE 1
  <1> DEFINE p == Head(line)
             r == rx_payload'
             y == SubSeq(r, 3, Len(r))
  <1>1. /\ Len(r) = IF Second(p) /\ Whole(p) THEN 4 ELSE 3
        /\ \A i \in 3..Len(r) : r[i] = FrameOf(p)
    BY Reads DEF WireInv
  <1>2. Len(r) \in {3, 4}
    BY <1>1
  <1> HIDE DEF p, r
  <1>3. \A i \in 3..Len(r) : r[i] \in S
    BY <1>1 DEF p
  <1>4. /\ y \in Seq(S) /\ Len(y) = IF 3 <= Len(r) THEN Len(r) - 3 + 1 ELSE 0
        /\ \A i \in 1..(Len(r) - 3 + 1) : y[i] = r[3 + i - 1]
    <2>1. Len(r) \in Int /\ 3 \in Int
      BY <1>2
    <2> QED  BY <2>1, <1>3, SubSeqProperties
  <1>5. Len(y) = Len(r) - 2
    BY <1>2, <1>4
  <1>6. \A i \in 1..Len(y) : y[i] = FrameOf(p)
    <2> TAKE i \in 1..Len(y)
    <2>1. i \in 1..(Len(r) - 3 + 1) /\ 3 + i - 1 \in 3..Len(r)
      BY <1>2, <1>5
    <2> QED  BY <2>1, <1>1, <1>4
  <1>7. Len(y) = IF Second(p) /\ Whole(p) THEN 2 ELSE 1
    <2>1. CASE Second(p) /\ Whole(p)
      BY <2>1, <1>1, <1>5
    <2>2. CASE ~(Second(p) /\ Whole(p))
      BY <2>2, <1>1, <1>5
    <2> QED  BY <2>1, <2>2
  <1> QED  BY <1>4, <1>6, <1>7 DEF p, r

LEMMA MoreData ==
    ASSUME transparent_data \in Seq(1..MaxHeard), delivered \in Seq(1..MaxHeard),
           NEW y \in Seq(1..MaxHeard), transparent_data' = transparent_data \o y,
           delivered' = delivered
    PROVE  /\ transparent_data' \in Seq(1..MaxHeard)
           /\ Len(transparent_data') = Len(transparent_data) + Len(y)
           /\ Len(transparent_data) \in Nat /\ Len(y) \in Nat
           /\ delivered' \o transparent_data' = (delivered \o transparent_data) \o y
  <1>1. delivered \o (transparent_data \o y) = (delivered \o transparent_data) \o y
    BY ConcatAssociative
  <1> QED  BY <1>1, ConcatProperties, LenProperties

LEMMA Numbers ==
    ASSUME UwbAssumption, transparent_data \in Seq(1..MaxHeard), delivered \in Seq(1..MaxHeard)
    PROVE  delivered \o transparent_data \in Seq(Nat)
  <1>1. 1..MaxHeard \subseteq Nat
    BY DEF UwbAssumption
  <1>2. delivered \o transparent_data \in Seq(1..MaxHeard)
    BY ConcatProperties
  <1> QED  BY <1>1, <1>2, SeqMonotonic

LEMMA NextIsNotSecond ==
    ASSUME WireInv, line # <<>>, line' = Tail(line), Head(line).pbf = 0
    PROVE  ~Halfway'
  <1> SUFFICES ASSUME line' # <<>> PROVE ~Second(Head(line'))
    BY DEF Halfway
  <1>1. /\ Len(line) \in Nat /\ Len(line) > 0 /\ DOMAIN line = 1..Len(line)
        /\ Head(line) = line[1] /\ line' \in Seq(UciPackets)
        /\ \A i \in 1..(Len(line) - 1) : line'[i] = line[i + 1]
        /\ line' = <<>> <=> Len(line) = 1
    BY TailOf DEF WireInv, LineInv
  <1>2. Head(line') = line'[1]
    BY <1>1, TailOf
  <1>3. 1 \in 1..(Len(line) - 1) /\ 2 \in 1..Len(line)
    BY <1>1
  <1>4. line'[1] = line[1 + 1]
    BY <1>1, <1>3
  <1>s. \A i \in 1..Len(line) : Second(line[i]) /\ i > 1 => line[i - 1].pbf = 1
    BY <1>1 DEF WireInv, LineInv
  <1>5. Second(line[2]) => line[2 - 1].pbf = 1
    BY <1>s, <1>3
  <1> QED  BY <1>1, <1>2, <1>4, <1>5

(* The line moves on, and no data comes of it.                             *)
LEMMA ParsedNoData ==
    ASSUME WireInv, Parse, ~(Told(Head(line)) /\ App(Head(line))),
           UwbAssumption, transparent_data \in Seq(1..MaxHeard), delivered \in Seq(1..MaxHeard),
           NEW k \in 0..Len(heard), ReadUpTo(k)
    PROVE  ReadUpTo(k)'
  <1> DEFINE p == Head(line)
             d == delivered \o transparent_data
  <1>1. /\ line # <<>> /\ p \in UciPackets /\ Sayable(p) /\ off \in 0..(Size(p) - 1)
        /\ Whole(p) => line' = Tail(line) /\ off' = 0
        /\ ~Whole(p) => off' = off + 1 /\ line' = line
    BY Reads DEF WireInv
  <1>2. UNCHANGED <<delivered, transparent_data, heard, segmented>>
    BY DataRead
  <1>3. ~Halfway
    <2>1. Second(p) => App(p) /\ p.pbf = 0
      BY <1>1, PacketFacts
    <2> QED  BY <2>1 DEF Told, Halfway
  <1>4. OnLine(k)'
    <2>1. CASE Whole(p)
      <3>1. ~(App(p) /\ p.pbf = 0)
        BY <2>1 DEF Told
      <3> QED  BY <3>1, <2>1, <1>1, <1>2, PassedOther DEF ReadUpTo
    <2>2. CASE ~Whole(p)
      BY <2>2, <1>1, <1>2 DEF ReadUpTo, OnLine
    <2> QED  BY <2>1, <2>2
  <1>5. off' \in Nat
    <2>1. off \in Nat
      BY <1>1
    <2> QED  BY <2>1, <1>1
  <1>6. Len(transparent_data') <= 5 * k + IF Halfway' THEN off' ELSE 0
    <2>1. Len(transparent_data) <= 5 * k + 0
      BY <1>3 DEF ReadUpTo
    <2>2. Halfway' => off' = 0
      <3>1. ~Whole(p) => ~Halfway'
        BY <1>1, <1>3 DEF Halfway
      <3> QED  BY <3>1, <1>1
    <2> QED  BY <2>1, <2>2, <1>2
  <1>7. Given(d, k, FALSE)
    BY <1>3 DEF ReadUpTo, Given
  <1>d. \A i \in DOMAIN d : d[i] \in Nat
    BY Numbers, ElementOfSeq, LenProperties
  <1>8. k \in Nat
    OBVIOUS
  <1>9. Given(d, k, Halfway')
    <2>1. CASE Halfway'
      <3>1. \A i \in DOMAIN d : d[i] <= k + 1
        <4>1. \A i \in DOMAIN d : d[i] <= k
          BY <1>7 DEF Given
        <4> QED  BY <4>1, <1>8, <1>d
      <3> QED  BY <3>1, <2>1, <1>7 DEF Given
    <2>2. CASE ~Halfway'
      BY <2>2, <1>7 DEF Given
    <2> QED  BY <2>1, <2>2
  <1>10. ~segmented => Exact(d, k)
    BY DEF ReadUpTo
  <1> QED  BY <1>2, <1>4, <1>6, <1>9, <1>10 DEF ReadUpTo

(* The data of the next frame is read: for the first time, or for good.    *)
LEMMA ParsedData ==
    ASSUME WireInv, Parse, Told(Head(line)), App(Head(line)),
           UwbAssumption, transparent_data \in Seq(1..MaxHeard), delivered \in Seq(1..MaxHeard),
           Len(heard) <= MaxHeard, NEW k \in 0..Len(heard), ReadUpTo(k)
    PROVE  /\ transparent_data' \in Seq(1..MaxHeard)
           /\ \E m \in 0..Len(heard) : ReadUpTo(m)'
  <1> DEFINE p == Head(line)
             d == delivered \o transparent_data
             y == SubSeq(rx_payload', 3, Len(rx_payload'))
  <1>1. /\ line # <<>> /\ p \in UciPackets /\ Sayable(p)
        /\ Whole(p) => line' = Tail(line) /\ off' = 0
        /\ ~Whole(p) => off' = off + 1 /\ line' = line
        /\ off \in 0..(Size(p) - 1)
    BY Reads DEF WireInv
  <1>2. UNCHANGED <<delivered, heard, segmented>> /\ transparent_data' = transparent_data \o y
    BY DataRead
  <1>3. p.pbf = 0 /\ (Second(p) \/ Whole(p))
    BY DEF Told
  <1>4. FrameOf(p) = k + 1 /\ k + 1 <= Len(heard)
    BY <1>1, <1>3, FirstOnLine DEF ReadUpTo
  <1>5. k \in Nat /\ Len(heard) \in Nat /\ MaxHeard \in Nat /\ k + 1 \in 1..MaxHeard
    BY <1>4, LenProperties DEF WireInv, UwbAssumption
  <1>6. /\ y \in Seq(1..MaxHeard) /\ \A i \in 1..Len(y) : y[i] = k + 1
        /\ Len(y) = IF Second(p) /\ Whole(p) THEN 2 ELSE 1
    BY <1>4, <1>5, NewData
  <1>7. y \in Seq(Nat) /\ Len(y) \in {1, 2}
    <2>1. 1..MaxHeard \subseteq Nat
      BY <1>5
    <2> QED  BY <2>1, <1>6, SeqMonotonic
  <1>s. Size(p) = 3 + Len(p.payload) /\ (Second(p) => Len(p.payload) = 1) /\ Size(p) \in Nat
    BY <1>1, PacketFacts
  <1> HIDE DEF p, y
  <1>8. /\ transparent_data' \in Seq(1..MaxHeard)
        /\ Len(transparent_data') = Len(transparent_data) + Len(y)
        /\ Len(transparent_data) \in Nat
        /\ delivered' \o transparent_data' = d \o y
    BY <1>2, <1>6, MoreData
  <1>9. Halfway <=> Second(p)
    BY <1>1 DEF Halfway, p
  <1>10. d \in Seq(Nat) /\ Given(d, k, Halfway)
    BY Numbers DEF ReadUpTo
  <1> HIDE DEF d
  <1>11. /\ Given(d \o y, k, TRUE) /\ Given(d \o y, k + 1, FALSE)
         /\ Len(y) = 1 /\ Exact(d, k) => Exact(d \o y, k + 1)
    BY <1>5, <1>6, <1>7, <1>10, GivenMore
  <1>12. ~segmented => Exact(d, k)
    BY DEF ReadUpTo, d
  <1>13. ~segmented => ~Second(p)
    BY <1>1, TailOf DEF WireInv, LineInv, p
  <1>14. Len(transparent_data) <= 5 * k + IF Second(p) THEN off ELSE 0
    BY <1>9 DEF ReadUpTo
  <1>15. off \in Nat
    BY <1>1
  <1>16. CASE ~Whole(p)
    <2>1. Second(p) /\ line' = line /\ off' = off + 1 /\ Len(y) = 1
      BY <1>1, <1>3, <1>6, <1>16
    <2>2. Halfway'
      BY <2>1, <1>9 DEF Halfway
    <2>3. OnLine(k)'
      BY <2>1, <1>2 DEF ReadUpTo, OnLine
    <2>4. Len(transparent_data') <= 5 * k + off'
      BY <2>1, <1>5, <1>8, <1>14, <1>15
    <2>5. segmented'
      BY <2>1, <1>2, <1>13
    <2>6. Given(delivered' \o transparent_data', k, Halfway')
      BY <2>2, <1>8, <1>11 DEF Given
    <2>7. ReadUpTo(k)'
      BY <2>2, <2>3, <2>4, <2>5, <2>6 DEF ReadUpTo
    <2> QED  BY <2>7, <1>8
  <1>17. CASE Whole(p)
    <2>1. line' = Tail(line) /\ off + 1 = Size(p)
      BY <1>1, <1>17 DEF Whole
    <2>2. ~Halfway'
      BY <2>1, <1>1, <1>3, NextIsNotSecond DEF p
    <2>3. OnLine(k + 1)'
      BY <2>1, <1>1, <1>2, <1>3, PassedData DEF ReadUpTo, p
    <2>4. Len(transparent_data') <= 5 * (k + 1)
      <3>1. CASE Second(p)
        <4>1. Size(p) = 3 + 1
          BY <3>1, <1>s
        <4>2. off = 3
          BY <4>1, <2>1, <1>15
        <4>3. Len(y) = 2
          BY <3>1, <1>6, <1>17
        <4> QED  BY <4>2, <4>3, <3>1, <1>5, <1>8, <1>14
      <3>2. CASE ~Second(p)
        <4>1. Len(y) = 1 /\ Len(transparent_data) <= 5 * k
          BY <3>2, <1>5, <1>6, <1>14
        <4> QED  BY <4>1, <1>5, <1>8
      <3> QED  BY <3>1, <3>2
    <2>5. ~segmented' => Exact(delivered' \o transparent_data', k + 1)
      <3> HAVE ~segmented'
      <3>1. Len(y) = 1 /\ Exact(d, k)
        BY <1>2, <1>6, <1>12, <1>13
      <3> QED  BY <3>1, <1>8, <1>11
    <2>6. Given(delivered' \o transparent_data', k + 1, Halfway')
      BY <2>2, <1>8, <1>11 DEF Given
    <2>7. Len(transparent_data') <= 5 * (k + 1) + 0
      BY <2>4, <1>5, <1>8, <1>7
    <2>8. ReadUpTo(k + 1)'
      BY <2>2, <2>3, <2>7, <2>5, <2>6 DEF ReadUpTo
    <2>9. k + 1 \in 0..Len(heard)
      BY <1>4, <1>5
    <2> QED  BY <2>8, <2>9, <1>8
  <1> QED  BY <1>16, <1>17

LEMMA DataInit == UwbAssumption /\ Init => DataInv
  <1> SUFFICES ASSUME UwbAssumption, Init PROVE DataInv
    OBVIOUS
  <1>1. /\ line = <<>> /\ heard = <<>> /\ transparent_data = <<>> /\ delivered = <<>>
        /\ MaxHeard \in Nat
    BY DEF Init, UwbAssumption
  <1>2. Len(<<>>) = 0 /\ <<>> \in Seq(1..MaxHeard) /\ DOMAIN <<>> = {}
    BY EmptySeq
  <1>3. <<>> \o <<>> = <<>>
    BY <1>2, ConcatEmptySeq
  <1>4. ~Halfway
    BY <1>1 DEF Halfway
  <1>5. OnLine(0)
    BY <1>1, <1>2 DEF OnLine
  <1>6. Given(delivered \o transparent_data, 0, Halfway) /\ Exact(delivered \o transparent_data, 0)
    BY <1>1, <1>2, <1>3 DEF Given, Exact
  <1>7. Len(transparent_data) <= 5 * 0 + 0
    BY <1>1, <1>2
  <1>8. ReadUpTo(0)
    BY <1>4, <1>5, <1>6, <1>7 DEF ReadUpTo
  <1> QED  BY <1>1, <1>2, <1>8 DEF DataInv

LEMMA DataStep ==
    ASSUME UwbAssumption, WireInv, cmds \in Seq(Packets), DataInv, [Next]_vars
    PROVE  DataInv'
  <1>1. /\ Len(heard) <= MaxHeard /\ \A i \in DOMAIN heard : heard[i] = i
        /\ transparent_data \in Seq(1..MaxHeard) /\ delivered \in Seq(1..MaxHeard)
    BY DEF DataInv
  <1>2. PICK k \in 0..Len(heard) : ReadUpTo(k)
    BY DEF DataInv
  <1>0. k \in Nat /\ Len(heard) \in Nat /\ MaxHeard \in Nat
    BY LenProperties DEF WireInv, UwbAssumption
  <1>k. ASSUME UNCHANGED <<line, off, heard, segmented, transparent_data, delivered>>
        PROVE  DataInv'
    <2>1. ReadUpTo(k)'
      BY <1>k, <1>2 DEF ReadUpTo, OnLine, Halfway
    <2> QED  BY <2>1, <1>k, <1>1 DEF DataInv
  <1>s. ASSUME NEW ps, Says1or2(ps), Says(ps), OnLine(k)', segmented => segmented',
               UNCHANGED <<transparent_data, delivered>>
        PROVE  ReadUpTo(k)'
    <2>1. (Halfway' <=> Halfway) /\ off' = off
      BY <1>s, HalfwayKept DEF Says
    <2>2. Given(delivered' \o transparent_data', k, Halfway')
      BY <2>1, <1>2, <1>s DEF ReadUpTo, Given
    <2>3. Len(transparent_data') <= 5 * k + IF Halfway' THEN off' ELSE 0
      BY <2>1, <1>2, <1>s DEF ReadUpTo
    <2>4. ~segmented' => Exact(delivered' \o transparent_data', k)
      BY <1>2, <1>s DEF ReadUpTo
    <2> QED  BY <2>2, <2>3, <2>4, <1>s DEF ReadUpTo
  <1>3. CASE Reset \/ SetRecvMode \/ BecameReady \/ WaitTimeout \/ Transmit
    <2>1. UNCHANGED <<line, off, heard, segmented, transparent_data, delivered>>
      BY <1>3 DEF Reset, SetRecvMode, BecameReady, WaitTimeout, Transmit, rxVars, chipVars
    <2> QED  BY <2>1, <1>k
  <1>4. CASE Parse
    <2>0. delivered' = delivered /\ heard' = heard
      BY <1>4 DEF Parse
    <2>1. CASE Told(Head(line)) /\ App(Head(line))
      <3>1. /\ transparent_data' \in Seq(1..MaxHeard)
            /\ \E m \in 0..Len(heard) : ReadUpTo(m)'
        BY <2>1, <1>1, <1>2, <1>4, ParsedData
      <3> QED  BY <3>1, <2>0, <1>1 DEF DataInv
    <2>2. CASE ~(Told(Head(line)) /\ App(Head(line)))
      <3>1. transparent_data' = transparent_data
        BY <2>2, <1>4, DataRead
      <3>2. ReadUpTo(k)'
        BY <2>2, <1>1, <1>2, <1>4, ParsedNoData
      <3> QED  BY <3>1, <3>2, <2>0, <1>1 DEF DataInv
    <2> QED  BY <2>1, <2>2
  <1>5. CASE GetRecvData
    <2>1. /\ delivered' = delivered \o transparent_data /\ transparent_data' = <<>>
          /\ UNCHANGED <<line, off, heard, segmented>>
      BY <1>5 DEF GetRecvData, chipVars
    <2>2. /\ transparent_data' \in Seq(1..MaxHeard) /\ Len(transparent_data') = 0
      BY <2>1, EmptySeq
    <2>3. delivered' \in Seq(1..MaxHeard)
      BY <2>1, <1>1, ConcatProperties
    <2>4. delivered' \o transparent_data' = delivered \o transparent_data
      <3>1. delivered' \o <<>> = delivered'
        BY <2>3, ConcatEmptySeq
      <3> QED  BY <3>1, <2>1
    <2>5. (Halfway' <=> Halfway) /\ OnLine(k)'
      BY <2>1, <1>2 DEF ReadUpTo, OnLine, Halfway
    <2>6. Given(delivered' \o transparent_data', k, Halfway')
      BY <2>4, <2>5, <1>2 DEF ReadUpTo, Given
    <2>7. ~segmented' => Exact(delivered' \o transparent_data', k)
      BY <2>1, <2>4, <1>2 DEF ReadUpTo
    <2>8. Len(transparent_data') <= 5 * k + IF Halfway' THEN off' ELSE 0
      <3>1. 0 <= 5 * k + off /\ 0 <= 5 * k + 0
        <4>1. off \in Nat
          BY DEF WireInv, ParserInv, HasRead
        <4> QED  BY <4>1, <1>0
      <3> QED  BY <3>1, <2>1, <2>2
    <2>9. ReadUpTo(k)'
      BY <2>5, <2>6, <2>7, <2>8 DEF ReadUpTo
    <2> QED  BY <2>1, <2>2, <2>3, <2>9, <1>1 DEF DataInv
  <1>6. CASE ChipBoot
    <2>1. UNCHANGED <<heard, segmented, transparent_data, delivered>>
      BY <1>6 DEF ChipBoot, rxVars
    <2>2. PICK ps : /\ Says1or2(ps) /\ Says(ps)
                    /\ \A i \in 1..Len(ps) : ~App(ps[i])
      BY <1>6, ChipBoots
    <2>3. OnLine(k)'
      BY <2>1, <2>2, <1>2, SaidOther DEF ReadUpTo
    <2> QED  BY <2>1, <2>2, <2>3, <1>1, <1>s DEF DataInv
  <1>7. CASE ChipExecute
    <2>1. UNCHANGED <<heard, segmented, transparent_data, delivered>>
      BY <1>7 DEF ChipExecute, rxVars
    <2>2. PICK ps : /\ Says1or2(ps) /\ Says(ps)
                    /\ \A i \in 1..Len(ps) : ~App(ps[i])
      BY <1>7, ChipReplies
    <2>3. OnLine(k)'
      BY <2>1, <2>2, <1>2, SaidOther DEF ReadUpTo
    <2> QED  BY <2>1, <2>2, <2>3, <1>1, <1>s DEF DataInv
  <1>8. CASE ChipHears
    <2>1. /\ UNCHANGED <<transparent_data, delivered>> /\ (segmented => segmented')
          /\ heard' = Append(heard, Len(heard) + 1) /\ Len(heard) < MaxHeard
      BY <1>8 DEF ChipHears, rxVars
    <2>2. PICK ps : /\ Says1or2(ps) /\ Says(ps)
                    /\ \A i \in 1..Len(ps) : App(ps[i]) /\ FrameOf(ps[i]) = Len(heard) + 1
                    /\ ps[Len(ps)].pbf = 0
                    /\ Len(ps) = 2 => ps[1].pbf = 1
      BY <1>8, ChipNotifies DEF WireInv
    <2>3. /\ Len(heard') = Len(heard) + 1 /\ heard' \in Seq(Nat)
          /\ \A i \in 1..Len(heard) : heard'[i] = heard[i]
          /\ heard'[Len(heard) + 1] = Len(heard) + 1
      <3>1. heard \in Seq(Nat) /\ Len(heard) + 1 \in Nat
        BY <1>0 DEF WireInv
      <3> QED  BY <3>1, <2>1, AppendNat
    <2>4. DOMAIN heard' = 1..(Len(heard) + 1) /\ DOMAIN heard = 1..Len(heard)
      BY <2>3, LenProperties DEF WireInv
    <2>5. \A i \in DOMAIN heard' : heard'[i] = i
      BY <2>3, <2>4, <1>0, <1>1
    <2>6. OnLine(k)'
      BY <2>2, <2>3, <1>2, SaidData DEF ReadUpTo
    <2>7. ReadUpTo(k)'
      BY <2>1, <2>2, <2>6, <1>s
    <2>8. k \in 0..Len(heard') /\ Len(heard') <= MaxHeard
      BY <2>1, <2>3, <1>0
    <2> QED  BY <2>1, <2>5, <2>7, <2>8, <1>1 DEF DataInv
  <1>9. CASE UNCHANGED vars
    BY <1>9, <1>k DEF vars, rxVars, chipVars
  <1> QED  BY <1>3, <1>4, <1>5, <1>6, <1>7, <1>8, <1>9 DEF Next, Driver

LEMMA DataInvariant == Spec => []DataInv
  <1>1. UwbAssumption
    BY UwbAssumption
  <1>2. Init => DataInv
    BY <1>1, DataInit
  <1>3. WireInv /\ ReplayInv /\ DataInv /\ [Next]_vars => DataInv'
    <2> SUFFICES ASSUME WireInv, ReplayInv, DataInv, [Next]_vars PROVE DataInv'
      OBVIOUS
    <2>1. cmds \in Seq(Packets)
      BY DEF ReplayInv, DriverTypes
    <2> QED  BY <1>1, <2>1, DataStep
  <1> QED  BY <1>2, <1>3, UwbInvariant, PTL DEF Spec

LEMMA AllRead ==
    ASSUME NEW k \in 0..Len(heard), heard \in Seq(Nat), OnLine(k), line = <<>>
    PROVE  k = Len(heard)
  <1>1. Len(heard) \in Nat
    BY LenProperties
  <1>2. DOMAIN line = {}
    OBVIOUS
  <1>3. Len(heard) \notin (k + 1)..Len(heard)
    BY <1>2 DEF OnLine
  <1> QED  BY <1>1, <1>3

LEMMA PrefixOf ==
    ASSUME NEW d \in Seq(Nat), NEW h \in Seq(Nat), NEW k \in 0..Len(h), Exact(d, k),
           \A i \in DOMAIN h : h[i] = i
    PROVE  IsPrefix(d, h) /\ (k = Len(h) => d = h)
  <1>1. /\ Len(d) = k /\ k \in Nat /\ k <= Len(h) /\ Len(h) \in Nat
        /\ DOMAIN d = 1..k /\ DOMAIN h = 1..Len(h)
    BY LenProperties DEF Exact
  <1>2. \A i \in 1..k : d[i] = i /\ h[i] = i /\ d[i] \in Nat /\ h[i] \in Nat
    <2>1. \A i \in 1..k : i \in 1..Len(h) /\ i \in Nat
      BY <1>1
    <2>2. \A i \in 1..k : d[i] = i
      BY <1>1 DEF Exact
    <2>3. \A i \in 1..k : h[i] = i
      BY <1>1, <2>1
    <2> QED  BY <2>1, <2>2, <2>3
  <1>3. /\ SubSeq(d, 1, k) \in Seq(Nat) /\ Len(SubSeq(d, 1, k)) = IF 1 <= k THEN k - 1 + 1 ELSE 0
        /\ \A i \in 1..(k - 1 + 1) : SubSeq(d, 1, k)[i] = d[1 + i - 1]
    BY <1>1, <1>2, SubSeqProperties
  <1>4. /\ SubSeq(h, 1, k) \in Seq(Nat) /\ Len(SubSeq(h, 1, k)) = IF 1 <= k THEN k - 1 + 1 ELSE 0
        /\ \A i \in 1..(k - 1 + 1) : SubSeq(h, 1, k)[i] = h[1 + i - 1]
    BY <1>1, <1>2, SubSeqProperties
  <1>5. Len(SubSeq(d, 1, k)) = k /\ Len(SubSeq(h, 1, k)) = k
    BY <1>1, <1>3, <1>4
  <1>6. \A i \in 1..k : SubSeq(d, 1, k)[i] = SubSeq(h, 1, k)[i]
    <2> TAKE i \in 1..k
    <2>1. i \in 1..(k - 1 + 1) /\ 1 + i - 1 = i
      BY <1>1
    <2> QED  BY <2>1, <1>2, <1>3, <1>4
  <1>7. SubSeq(d, 1, k) = SubSeq(h, 1, k)
    BY <1>3, <1>4, <1>5, <1>6, SeqEqual
  <1>8. k = Len(h) => d = h
    BY <1>1, <1>2, SeqEqual
  <1> QED  BY <1>1, <1>7, <1>8 DEF IsPrefix

(* What the caller gets is what the chip received, in order, once, and     *)
(* nothing is lost, unless the chip splits a notification (flow_parse,     *)
(* __notify_process, get_recv_data).                                       *)
THEOREM DataInOrder == Spec => []DeliveredInOrder
  <1>1. WireInv /\ DataInv => DeliveredInOrder
    <2> SUFFICES ASSUME WireInv, DataInv, ~segmented
                 PROVE  /\ IsPrefix(delivered \o transparent_data, heard)
                        /\ line = <<>> => delivered \o transparent_data = heard
      BY DEF DeliveredInOrder
    <2>1. PICK k \in 0..Len(heard) : ReadUpTo(k)
      BY DEF DataInv
    <2>2. Exact(delivered \o transparent_data, k)
      BY <2>1 DEF ReadUpTo
    <2>3. delivered \o transparent_data \in Seq(Nat)
      BY UwbAssumption, Numbers DEF DataInv
    <2>4. /\ IsPrefix(delivered \o transparent_data, heard)
          /\ k = Len(heard) => delivered \o transparent_data = heard
      BY <2>2, <2>3, PrefixOf DEF DataInv, WireInv
    <2>5. line = <<>> => k = Len(heard)
      BY <2>1, AllRead DEF ReadUpTo, WireInv
    <2> QED  BY <2>4, <2>5
  <1> QED  BY <1>1, UwbInvariant, DataInvariant, PTL

(* Also when the chip splits notifications, no frame's data is left out or *)
(* given before that of an earlier frame (recv and last in flow_parse,     *)
(* __notify_process).                                                      *)
THEOREM DataIsComplete == Spec => []NoneLeftOut
  <1>1. WireInv /\ DataInv => NoneLeftOut
    <2> SUFFICES ASSUME WireInv, DataInv PROVE NoneLeftOut
      OBVIOUS
    <2> DEFINE d == delivered \o transparent_data
    <2>1. PICK k \in 0..Len(heard) : ReadUpTo(k)
      BY DEF DataInv
    <2>2. /\ \A i, j \in DOMAIN d : i < j => d[i] <= d[j]
          /\ \A f \in 1..k : \E i \in DOMAIN d : d[i] = f
      BY <2>1 DEF ReadUpTo, Given
    <2>3. line = <<>> => k = Len(heard)
      BY <2>1, AllRead DEF ReadUpTo, WireInv
    <2>4. DOMAIN heard = 1..Len(heard) /\ \A f \in DOMAIN heard : heard[f] = f
      BY LenProperties DEF DataInv, WireInv
    <2> HIDE DEF d
    <2>5. line = <<>> => \A f \in DOMAIN heard : \E i \in DOMAIN d : d[i] = heard[f]
      BY <2>2, <2>3, <2>4
    <2> QED  BY <2>2, <2>5 DEF NoneLeftOut, d
  <1> QED  BY <1>1, UwbInvariant, DataInvariant, PTL

-----------------------------------------------------------------------------
(* Types.                                                                  *)

(* The commands carry frames that were transmitted, and so does the one    *)
(* whose response is awaited.                                              *)
TypeInv ==
    /\ pc \in {"init", "rsp", "ready", "hard", "listen", "loop"}
    /\ late \in BOOLEAN /\ skipped \in BOOLEAN /\ up \in BOOLEAN /\ mode \in {"idle", "rx"}
    /\ success \subseteq 1..frame /\ answered \subseteq 1..frame
    /\ op = TX => frame >= 1
    /\ \A i \in DOMAIN cmds : cmds[i].id = TX => cmds[i].frame >= 1

LEMMA TypeInit == Init => TypeInv
  <1> SUFFICES ASSUME Init PROVE TypeInv
    OBVIOUS
  <1>1. /\ pc = "init" /\ op = RESET /\ late = FALSE /\ skipped = FALSE /\ up = FALSE
        /\ mode = "idle" /\ success = {} /\ answered = {} /\ cmds = <<>>
    BY DEF Init
  <1>2. op # TX
    BY <1>1, DistinctIds
  <1>3. DOMAIN cmds = {}
    BY <1>1
  <1> QED  BY <1>1, <1>2, <1>3 DEF TypeInv

(* A command to the chip more, which is no old frame.                      *)
LEMMA TypeOfSent ==
    ASSUME ReplayInv, TypeInv, NEW p \in Packets, p.id = TX => p.frame >= 1,
           cmds' = Append(cmds, p)
    PROVE  \A i \in DOMAIN cmds' : cmds'[i].id = TX => cmds'[i].frame >= 1
  <1>1. /\ cmds \in Seq(Packets) /\ Len(cmds) \in Nat /\ DOMAIN cmds = 1..Len(cmds)
    BY LenProperties DEF ReplayInv, DriverTypes
  <1>2. /\ Len(cmds') = Len(cmds) + 1 /\ cmds' \in Seq(Packets)
        /\ \A i \in 1..Len(cmds) : cmds'[i] = cmds[i]
        /\ cmds'[Len(cmds) + 1] = p
    BY <1>1, AppendProperties
  <1>3. DOMAIN cmds' = 1..(Len(cmds) + 1)
    BY <1>2, LenProperties
  <1>4. \A i \in 1..(Len(cmds) + 1) : i \in 1..Len(cmds) \/ i = Len(cmds) + 1
    BY <1>1
  <1> QED  BY <1>1, <1>2, <1>3, <1>4 DEF TypeInv

LEMMA TypeStep ==
    ASSUME ReplayInv, TypeInv, [Next]_vars
    PROVE  TypeInv'
  <1> USE DEF ReplayInv, DriverTypes
  <1>0. frame \in Nat /\ frame' \in Nat /\ frame <= frame'
    <2>1. frame \in Nat
      BY UwbAssumption DEF UwbAssumption
    <2>2. CASE Transmit
      BY <2>1, <2>2 DEF Transmit
    <2>3. CASE ~Transmit
      <3>1. frame' = frame
        BY <2>3 DEF Next, Driver, Reset, SetRecvMode, Parse, BecameReady, WaitTimeout,
                    GetRecvData, ChipBoot, ChipExecute, ChipHears, vars, histVars
      <3> QED  BY <2>1, <3>1
    <2> QED  BY <2>2, <2>3
  <1>1. 1..frame \subseteq 1..frame'
    BY <1>0
  <1>f. /\ success \subseteq 1..frame' /\ answered \subseteq 1..frame'
        /\ op = TX => frame' >= 1
    BY <1>0, <1>1 DEF TypeInv
  <1>h. ASSUME Hardware
        PROVE  /\ up' \in BOOLEAN /\ mode' \in {"idle", "rx"}
               /\ \A i \in DOMAIN cmds' : cmds'[i].id = TX => cmds'[i].frame >= 1
    <2>1. CASE pc' = "hard"
      <3>1. cmds' = <<>> /\ up' = FALSE /\ mode' = "idle"
        BY <2>1, <1>h, Zenon DEF Hardware
      <3>2. DOMAIN cmds' = {}
        BY <3>1
      <3> QED  BY <3>1, <3>2
    <2>2. CASE pc' # "hard"
      <3>1. UNCHANGED <<cmds, up, mode>>
        BY <2>2, <1>h DEF Hardware
      <3> QED  BY <3>1 DEF TypeInv
    <2> QED  BY <2>1, <2>2
  <1>a. \A id \in {RESET, TX, RX} : After(id) \in {"hard", "listen", "loop"}
    BY DEF After
  <1>s. ASSUME NEW id \in {RESET, RX}, SendCommand(id, 0, TRUE), late' \in BOOLEAN,
               UNCHANGED <<frame, success, answered, up, mode, skipped>>
        PROVE  TypeInv'
    <2>1. /\ packet' = [id |-> id, frame |-> 0] /\ cmds' = Append(cmds, packet')
          /\ op' = id /\ pc' = "rsp"
      BY <1>s DEF SendCommand
    <2>2. packet' \in Packets /\ packet'.id # TX
      BY <2>1, DistinctIds, UwbAssumption DEF Packets, UwbAssumption
    <2>3. \A i \in DOMAIN cmds' : cmds'[i].id = TX => cmds'[i].frame >= 1
      BY <2>1, <2>2, TypeOfSent
    <2> QED  BY <2>1, <2>3, <1>s, DistinctIds DEF TypeInv
  <1>2. CASE Reset
    BY <1>2, <1>s DEF Reset, histVars, TypeInv
  <1>3. CASE SetRecvMode
    <2>1. CASE uwbs_sta = "READY"
      BY <1>3, <2>1, <1>s DEF SetRecvMode, TypeInv
    <2>2. CASE uwbs_sta # "READY"
      BY <1>3, <2>2 DEF SetRecvMode, cmdVars, TypeInv
    <2> QED  BY <2>1, <2>2
  <1>4. CASE Transmit
    <2>0. /\ pc = "loop" /\ frame' = frame + 1 /\ frame' \in 0..MaxFrames
          /\ UNCHANGED <<success, answered, late, skipped, up, mode>>
      BY <1>4, UwbAssumption DEF Transmit, UwbAssumption
    <2>1. CASE uwbs_sta = "READY"
      <3>1. PICK fits \in BOOLEAN : SendCommand(TX, frame + 1, fits)
        BY <1>4, <2>1 DEF Transmit
      <3>2. op' = TX /\ pc' = "rsp" /\ cmds' = Append(cmds, packet')
        BY <3>1 DEF SendCommand
      <3>3. packet' \in Packets /\ (packet'.id = TX => packet'.frame >= 1)
        <4>1. CASE fits
          <5>1. packet' = [id |-> TX, frame |-> frame + 1]
            BY <3>1, <4>1 DEF SendCommand
          <5> QED  BY <5>1, <2>0, <1>0 DEF Packets
        <4>2. CASE ~fits
          <5>1. packet' = packet
            BY <3>1, <4>2 DEF SendCommand
          <5> QED  BY <5>1, <2>0 DEF PacketInv
        <4> QED  BY <4>1, <4>2
      <3>4. \A i \in DOMAIN cmds' : cmds'[i].id = TX => cmds'[i].frame >= 1
        BY <3>2, <3>3, TypeOfSent
      <3>5. frame' >= 1
        BY <2>0, <1>0
      <3> QED  BY <2>0, <3>2, <3>4, <3>5, <1>f DEF TypeInv
    <2>2. CASE uwbs_sta # "READY"
      BY <1>4, <2>0, <2>2, <1>f DEF Transmit, cmdVars, TypeInv
    <2> QED  BY <2>1, <2>2
  <1>5. CASE Parse
    <2>0. UNCHANGED <<frame, late, skipped, answered>>
      BY <1>5 DEF Parse
    <2>1. CASE Responded(parser') /\ pc = "rsp"
      <3>0. UNCHANGED <<op, packet>>
        BY <2>1 DEF Responded, cmdVars
      <3>1. CASE /\ pc' = IF op = RESET THEN "ready" ELSE After(op)
                 /\ success' = IF op = TX THEN success \cup {frame} ELSE success
                 /\ UNCHANGED <<cmds, up, mode>>
        <4>1. pc' \in {"ready", "hard", "listen", "loop"}
          BY <3>1, <1>a
        <4>2. success' \subseteq 1..frame
          <5>1. op = TX => frame \in 1..frame
            BY <1>0 DEF TypeInv
          <5> QED  BY <5>1, <3>1 DEF TypeInv
        <4> QED  BY <2>0, <3>0, <3>1, <4>1, <4>2 DEF TypeInv
      <3>2. CASE ~complete /\ cmds' = Append(cmds, packet) /\ UNCHANGED <<pc, success, up, mode>>
        <4>1. packet.id # TX
          BY <2>1, <3>2 DEF PacketInv
        <4>2. \A i \in DOMAIN cmds' : cmds'[i].id = TX => cmds'[i].frame >= 1
          BY <4>1, <3>2, TypeOfSent
        <4> QED  BY <2>0, <3>0, <3>2, <4>2 DEF TypeInv
      <3>3. CASE pc' = After(op) /\ Hardware /\ UNCHANGED success
        <4>1. pc' \in {"hard", "listen", "loop"}
          BY <3>3, <1>a
        <4> QED  BY <2>0, <3>0, <3>3, <4>1, <1>h DEF TypeInv
      <3> QED  BY <2>1, <3>1, <3>2, <3>3 DEF Responded
    <2>2. CASE Notified(parser') \/ Drop
      <3>1. UNCHANGED <<pc, op, packet, success, cmds, up, mode>>
        BY <2>2 DEF Notified, Drop, cmdVars
      <3> QED  BY <2>0, <3>1 DEF TypeInv
    <2> QED  BY <1>5, <2>1, <2>2 DEF Parse, Answers
  <1>6. CASE BecameReady
    BY <1>6 DEF BecameReady, cmdVars, histVars, chipVars, TypeInv
  <1>7. CASE WaitTimeout
    <2>0. UNCHANGED <<frame, success, answered, skipped>> /\ late' = TRUE
      BY <1>7 DEF WaitTimeout
    <2>1. CASE SendCommand(RESET, 0, TRUE) /\ UNCHANGED <<up, mode>>
      BY <2>0, <2>1, <1>s DEF TypeInv
    <2>2. CASE pc' \in {"hard", "listen", "loop"} /\ Hardware /\ UNCHANGED cmdVars
      BY <2>0, <2>2, <1>h DEF TypeInv, cmdVars
    <2> QED  BY <1>7, <2>1, <2>2, <1>a DEF WaitTimeout
  <1>8. CASE GetRecvData
    BY <1>8 DEF GetRecvData, cmdVars, histVars, chipVars, TypeInv
  <1>9. CASE ChipBoot \/ ChipHears
    <2>1. /\ UNCHANGED <<pc, op, frame, late, skipped, success, answered, cmds, mode>>
          /\ up' \in BOOLEAN
      BY <1>9 DEF ChipBoot, ChipHears, cmdVars, histVars, TypeInv
    <2> QED  BY <2>1 DEF TypeInv
  <1>10. CASE ChipExecute
    <2>1. /\ cmds # <<>> /\ cmds' = Tail(cmds)
          /\ UNCHANGED <<pc, op, frame, late, skipped, success>>
      BY <1>10 DEF ChipExecute, cmdVars, histVars
    <2>u. up' \in BOOLEAN /\ mode' \in {"idle", "rx"}
      BY <1>10 DEF ChipExecute, TypeInv
    <2>a. \/ answered' = answered
          \/ Head(cmds).id = TX /\ answered' = answered \cup {Head(cmds).frame}
      BY <1>10 DEF ChipExecute
    <2>2. /\ Len(cmds) \in Nat /\ Len(cmds) > 0 /\ DOMAIN cmds = 1..Len(cmds)
          /\ Head(cmds) = cmds[1] /\ DOMAIN cmds' = 1..(Len(cmds) - 1)
          /\ \A i \in 1..(Len(cmds) - 1) : cmds'[i] = cmds[i + 1]
      BY <2>1, TailOf
    <2>3. \A i \in 1..(Len(cmds) - 1) : i + 1 \in 1..Len(cmds)
      BY <2>2
    <2>4. \A i \in DOMAIN cmds' : cmds'[i].id = TX => cmds'[i].frame >= 1
      BY <2>2, <2>3 DEF TypeInv
    <2>5. Head(cmds).id = TX => Head(cmds).frame \in 1..frame
      <3>1. 1 \in DOMAIN cmds
        BY <2>2
      <3>2. cmds[1].frame \in Nat
        BY <3>1, PacketFrame
      <3>3. cmds[1].id = TX => cmds[1].frame <= frame /\ cmds[1].frame >= 1
        BY <3>1 DEF OrderInv, Ordered, TypeInv
      <3> QED  BY <3>2, <3>3, <2>2, <1>0
    <2>6. answered' \subseteq 1..frame
      BY <2>a, <2>5 DEF TypeInv
    <2> QED  BY <2>1, <2>4, <2>6, <2>u DEF TypeInv
  <1>11. CASE UNCHANGED vars
    BY <1>11 DEF vars, cmdVars, histVars, chipVars, TypeInv
  <1> QED  BY <1>2, <1>3, <1>4, <1>5, <1>6, <1>7, <1>8, <1>9, <1>10, <1>11 DEF Next, Driver

(* The state is well typed, and the payload and the data are bounded: the  *)
(* payload by a packet and its continuation, the data by the frames heard  *)
(* (flow_parse, __notify_process).                                         *)
THEOREM UwbTyping == Spec => []TypeOK
  <1>1. ReplayInv /\ TypeInv /\ [Next]_vars => TypeInv'
    BY TypeStep
  <1>2. WireInv /\ ReplayInv /\ DataInv /\ TypeInv => TypeOK
    <2> SUFFICES ASSUME WireInv, ReplayInv, DataInv, TypeInv PROVE TypeOK
      OBVIOUS
    <2>1. Len(heard) \in Nat
      BY LenProperties DEF WireInv
    <2>2. Len(transparent_data) <= 5 * Len(heard)
      <3>1. PICK k \in 0..Len(heard) : ReadUpTo(k)
        BY DEF DataInv
      <3>2. k \in Nat /\ k <= Len(heard) /\ Len(transparent_data) \in Nat
        BY <2>1, LenProperties DEF DataInv
      <3>3. CASE ~Halfway
        BY <3>1, <3>2, <3>3, <2>1 DEF ReadUpTo
      <3>4. CASE Halfway
        <4>1. line # <<>> /\ Second(Head(line))
          BY <3>4 DEF Halfway
        <4>2. /\ Head(line) = line[1] /\ 1 \in DOMAIN line /\ Head(line) \in UciPackets
              /\ Sayable(Head(line))
          BY <4>1, TailOf DEF WireInv, LineInv
        <4>3. App(line[1]) /\ Size(Head(line)) = 3 + 1
          BY <4>1, <4>2, PacketFacts
        <4>4. k + 1 <= Len(heard)
          BY <4>2, <4>3, <3>1, <3>2, <2>1 DEF ReadUpTo, OnLine
        <4>5. off \in 0..3
          BY <4>1, <4>3 DEF WireInv, ParserInv, HasRead
        <4>6. Len(transparent_data) <= 5 * k + off
          BY <3>1, <3>4 DEF ReadUpTo
        <4> QED  BY <4>4, <4>5, <4>6, <3>2, <2>1
      <3> QED  BY <3>3, <3>4
    <2>3. off \in 0..5 /\ (line = <<>> => off = 0)
      <3>1. CASE line = <<>>
        BY <3>1 DEF WireInv, ParserInv
      <3>2. CASE line # <<>>
        <4>1. Head(line) \in UciPackets /\ Sayable(Head(line))
          BY <3>2, TailOf DEF WireInv, LineInv
        <4>2. Size(Head(line)) <= 6 /\ Size(Head(line)) \in Nat
          BY <4>1, PacketFacts
        <4>3. off \in 0..(Size(Head(line)) - 1)
          BY <3>2 DEF WireInv, ParserInv, HasRead
        <4> QED  BY <4>2, <4>3, <3>2
      <3> QED  BY <3>1, <3>2
    <2>4. /\ uwbs_sta \in {"BOOT", "READY"} /\ op \in {RESET, TX, RX}
          /\ packet \in [id : {RESET, TX, RX}, frame : 0..MaxFrames] /\ complete \in BOOLEAN
          /\ frame \in 0..MaxFrames /\ cmds \in Seq([id : {RESET, TX, RX}, frame : 0..MaxFrames])
      BY DEF ReplayInv, DriverTypes, Packets
    <2>5. /\ parser \in [sta : {"START", "HDR", "OID", "LEN", "PAYLOAD"}, mt : {"RSP", "NTF"},
                         gid : {0, 3}, oid : {0, 1}, last : BOOLEAN, len : 0..3, n : 0..3,
                         recv : BOOLEAN]
          /\ rx_payload \in Seq(Nat) /\ Len(rx_payload) <= 4
      BY DEF WireInv, ParserInv, Parsers
    <2>6. line \in Seq([mt : {"RSP", "NTF"}, pbf : {0, 1}, id : {RESET, TX, RX, STATUS_NTF},
                        payload : Seq(Nat)])
      BY DEF WireInv, LineInv, UciPackets
    <2>7. transparent_data \in Seq(1..MaxHeard) /\ Len(heard) <= MaxHeard
      BY DEF DataInv
    <2> QED  BY <2>2, <2>3, <2>4, <2>5, <2>6, <2>7 DEF TypeInv, TypeOK
  <1> QED  BY <1>1, <1>2, TypeInit, UwbInvariant, DataInvariant, PTL DEF Spec
=============================================================================
