--------------------------------- MODULE Uwb ---------------------------------
(***************************************************************************)
(* The UWB driver, the radio task that calls it, and the chip behind the   *)
(* serial line.  A command is answered by a response; notifications come   *)
(* at any time.  The line neither loses nor invents bytes, but they take   *)
(* their time, and so does the chip: every wait may time out.              *)
(*                                                                         *)
(* The status of a response is not seen: check_*_rsp reads packet[0] of a  *)
(* vector that is always empty, which on the target is the byte at address *)
(* 0, the low byte of the initial stack pointer: 0, STATUS_OK.             *)
(***************************************************************************)
EXTENDS Naturals, Sequences, SequencesExt

CONSTANTS MaxFrames,       \* frames the caller transmits
          MaxHeard         \* frames the chip receives from the air

ASSUME UwbAssumption == MaxFrames \in Nat /\ MaxHeard \in Nat

VARIABLES uwbs_sta,        \* BOOT or READY
          pc,              \* the radio task: init, rsp, ready, hard, listen, loop
          op,              \* the command whose response is awaited
          packet,          \* the last packet built by uci_cmd
          complete,        \* pack_all_payload: cmd_packer built the packet
          parser, rx_payload,
          transparent_data,
          delivered,       \* history: data given to the caller
          frame,           \* history: frames transmitted so far
          success,         \* history: frames data_transmit returned true for
          late, skipped,   \* history: a wait timed out; set_recv_mode was not ready
          line, off,       \* packets from the chip; bytes read of the first
          cmds,            \* commands to the chip
          up, mode,        \* the chip: booted; receiving or idle
          heard,           \* history: frames the chip received from the air
          got,             \* history: frames the chip was given, in order
          answered,        \* history: frames the chip responded to
          refused,         \* history: it rejected a CX_APP_DATA_RX command
          segmented        \* history: it split a notification

chipVars == <<line, off, cmds, up, mode, heard, got, answered, refused, segmented>>
rxVars   == <<parser, rx_payload, transparent_data>>
cmdVars  == <<op, packet, complete>>
histVars == <<frame, success, late, skipped>>
vars     == <<uwbs_sta, pc, cmdVars, rxVars, delivered, histVars, chipVars>>

-----------------------------------------------------------------------------
(* Packets: group and object ids as in cx_uci_def.hpp.                     *)

RESET == [gid |-> 0, oid |-> 0]
TX    == [gid |-> 3, oid |-> 0]
RX    == [gid |-> 3, oid |-> 1]
STATUS_NTF == [gid |-> 0, oid |-> 1]

Uci(mt, pbf, id, payload) == [mt |-> mt, pbf |-> pbf, id |-> id, payload |-> payload]

(* What it is on the line: byte i of its Size(p) bytes.                    *)
Size(p)    == 3 + Len(p.payload)
Byte(p, i) ==
    CASE i = 1 -> [f |-> "hdr", mt |-> p.mt, pbf |-> p.pbf, gid |-> p.id.gid]
      [] i = 2 -> [f |-> "oid", v |-> p.id.oid]
      [] i = 3 -> [f |-> "len", v |-> Len(p.payload)]
      [] OTHER -> [f |-> "byte", v |-> p.payload[i - 3]]

START == [sta |-> "START", mt |-> "NTF", gid |-> 0, oid |-> 0, last |-> TRUE, len |-> 0,
          n |-> 0, recv |-> FALSE]

(* A faulty variant: the payload of the packet before is kept.             *)
NextPayloadKept(b) == IF b.f = "byte" THEN Append(rx_payload, b.v) ELSE rx_payload

(* A faulty variant: the payload is cleared at a continuation, too.        *)
NextPayloadCleared(b) ==
    IF b.f = "byte" THEN Append(rx_payload, b.v) ELSE IF b.f = "hdr" THEN <<>> ELSE rx_payload

(* flow_parse: what a byte does to total_payload ...                       *)
NextPayload(b) ==
    IF b.f = "byte" THEN Append(rx_payload, b.v)
    ELSE IF b.f = "hdr" /\ parser.sta = "START" THEN <<>> ELSE rx_payload

(* ... and to the parser.  recv is only cleared where a packet that is not *)
(* a continuation starts.                                                  *)
NextParser(b) ==
    CASE b.f = "hdr" ->
             [parser EXCEPT !.sta = "OID", !.mt = b.mt, !.gid = b.gid, !.last = (b.pbf = 0),
                            !.recv = (parser.sta # "START" /\ parser.recv)]
      [] b.f = "oid" -> [parser EXCEPT !.sta = "LEN", !.oid = b.v]
      [] b.f = "len" ->
             [parser EXCEPT !.sta = IF b.v > 0 THEN "PAYLOAD" ELSE "START", !.len = b.v,
                            !.n = 0, !.recv = (parser.recv \/ b.v = 0)]
      [] b.f = "byte" ->
             IF parser.n + 1 = parser.len
             THEN [parser EXCEPT !.n = parser.n + 1, !.recv = TRUE,
                                 !.sta = IF parser.last THEN "START" ELSE "HDR"]
             ELSE [parser EXCEPT !.n = parser.n + 1]

Reports(p) == p.last /\ p.recv
Id(p) == [gid |-> p.gid, oid |-> p.oid]

-----------------------------------------------------------------------------

TypeOK ==
    /\ uwbs_sta \in {"BOOT", "READY"}
    /\ pc \in {"init", "rsp", "ready", "hard", "listen", "loop"}
    /\ op \in {RESET, TX, RX}
    /\ packet \in [id : {RESET, TX, RX}, frame : 0..MaxFrames] /\ complete \in BOOLEAN
    /\ parser \in [sta : {"START", "HDR", "OID", "LEN", "PAYLOAD"}, mt : {"RSP", "NTF"},
                   gid : {0, 3}, oid : {0, 1}, last : BOOLEAN, len : 0..3, n : 0..3,
                   recv : BOOLEAN]
    /\ rx_payload \in Seq(Nat) /\ Len(rx_payload) <= 4
    /\ transparent_data \in Seq(1..MaxHeard) /\ Len(transparent_data) <= 5 * Len(heard)
    /\ frame \in 0..MaxFrames /\ success \subseteq 1..frame
    /\ late \in BOOLEAN /\ skipped \in BOOLEAN
    /\ line \in Seq([mt : {"RSP", "NTF"}, pbf : {0, 1}, id : {RESET, TX, RX, STATUS_NTF},
                     payload : Seq(Nat)])
    /\ off \in 0..5 /\ (line = <<>> => off = 0)
    /\ cmds \in Seq([id : {RESET, TX, RX}, frame : 0..MaxFrames])
    /\ up \in BOOLEAN /\ mode \in {"idle", "rx"} /\ Len(heard) <= MaxHeard
    /\ answered \subseteq 1..frame

Init ==
    /\ uwbs_sta = "BOOT" /\ pc = "init"
    /\ op = RESET /\ packet = [id |-> RESET, frame |-> 0] /\ complete = FALSE
    /\ parser = START /\ rx_payload = <<>> /\ transparent_data = <<>> /\ delivered = <<>>
    /\ frame = 0 /\ success = {} /\ late = FALSE /\ skipped = FALSE
    /\ line = <<>> /\ off = 0 /\ cmds = <<>> /\ up = FALSE /\ mode = "idle"
    /\ heard = <<>> /\ got = <<>> /\ answered = {} /\ refused = FALSE /\ segmented = FALSE

-----------------------------------------------------------------------------
(* The driver.                                                             *)

(* __send_packet with a packet that was built, or with the last one.       *)
SendCommand(id, f, built) ==
    LET p == IF built THEN [id |-> id, frame |-> f] ELSE packet
    IN  /\ packet' = p /\ complete' = built /\ op' = id
        /\ cmds' = Append(cmds, p)
        /\ pc' = "rsp"

(* reset(): what arrives from here on decides on READY.                    *)
Reset ==
    /\ pc = "init" /\ uwbs_sta = "READY"
    /\ uwbs_sta' = "BOOT"
    /\ SendCommand(RESET, 0, TRUE)
    /\ UNCHANGED <<rxVars, delivered, histVars, line, off, up, mode, heard, got, answered,
                   refused, segmented>>

(* set_recv_mode().                                                        *)
SetRecvMode ==
    /\ pc = "listen"
    /\ IF uwbs_sta = "READY"
       THEN SendCommand(RX, 0, TRUE) /\ UNCHANGED skipped
       ELSE skipped' = TRUE /\ pc' = "loop" /\ UNCHANGED <<cmdVars, cmds>>
    /\ UNCHANGED <<uwbs_sta, rxVars, delivered, frame, success, late, line, off, up, mode,
                   heard, got, answered, refused, segmented>>

(* data_transmit() of a frame that fits into a packet, or does not.        *)
Transmit ==
    /\ pc = "loop" /\ frame < MaxFrames
    /\ frame' = frame + 1
    /\ IF uwbs_sta = "READY"
       THEN \E fits \in BOOLEAN : SendCommand(TX, frame + 1, fits)
       ELSE pc' = "listen" /\ UNCHANGED <<cmdVars, cmds>>
    /\ UNCHANGED <<uwbs_sta, rxVars, delivered, success, late, skipped, line, off, up, mode,
                   heard, got, answered, refused, segmented>>

(* A faulty variant: the radio task does not go back to receiving.         *)
AfterKeepsSending(id) == IF id = RESET THEN "hard" ELSE "loop"

(* Where the radio task goes on when a command failed.                     *)
After(id) == IF id = RESET THEN "hard" ELSE IF id = TX THEN "listen" ELSE "loop"

Checks(p) == Id(p) = op

(* The hardware reset: the chip forgets its commands.                      *)
Hardware ==
    IF pc' = "hard" THEN cmds' = <<>> /\ up' = FALSE /\ mode' = "idle"
                    ELSE UNCHANGED <<cmds, up, mode>>

(* __rsp_process returned true.  If the packet was not built, the payload  *)
(* counts as not sent completely, and the last packet is sent once more.   *)
Responded(p) ==
    /\ \/ /\ Checks(p) /\ complete
          /\ pc' = IF op = RESET THEN "ready" ELSE After(op)
          /\ success' = IF op = TX THEN success \cup {frame} ELSE success
          /\ UNCHANGED <<cmds, up, mode>>
       \/ /\ Checks(p) /\ ~complete
          /\ cmds' = Append(cmds, packet)
          /\ UNCHANGED <<pc, success, up, mode>>
       \/ /\ ~Checks(p)
          /\ pc' = After(op)
          /\ Hardware
          /\ UNCHANGED success
    /\ UNCHANGED <<uwbs_sta, cmdVars, transparent_data>>

(* A response nobody waits for is dropped.                                 *)
Drop == UNCHANGED <<uwbs_sta, pc, cmdVars, transparent_data, success, cmds, up, mode>>

(* __notify_process.                                                       *)
Notified(p) ==
    /\ uwbs_sta' = IF Id(p) = STATUS_NTF THEN "READY" ELSE uwbs_sta
    /\ transparent_data' = IF Id(p) = RX
                           THEN transparent_data \o SubSeq(rx_payload', 3, Len(rx_payload'))
                           ELSE transparent_data
    /\ UNCHANGED <<pc, cmdVars, success, cmds, up, mode>>

(* A faulty variant: a notification is taken for the awaited response.     *)
AnswersAny(p) == pc = "rsp"

(* __rsp_process returns with the packet ...                               *)
Answers(p) == pc = "rsp" /\ p.mt = "RSP"

(* A faulty variant: notifications are dropped while a response is awaited. *)
NotifiesIdle(p) == pc # "rsp" /\ p.mt = "NTF"

(* ... or notifies it, as __listening_ntf does.                            *)
Notifies(p) == p.mt = "NTF"

(* The next byte; every wait of the driver reads the line.                 *)
Parse ==
    /\ pc # "listen" /\ line # <<>>
    /\ IF off + 1 = Size(Head(line)) THEN line' = Tail(line) /\ off' = 0
                                     ELSE off' = off + 1 /\ UNCHANGED line
    /\ rx_payload' = NextPayload(Byte(Head(line), off + 1))
    /\ parser' = NextParser(Byte(Head(line), off + 1))
    /\ IF ~Reports(parser') THEN Drop
       ELSE IF Answers(parser') THEN Responded(parser')
       ELSE IF Notifies(parser') THEN Notified(parser')
       ELSE Drop
    /\ UNCHANGED <<delivered, frame, late, skipped, heard, got, answered, refused, segmented>>

(* The wait for READY in reset() ends, or starts after a hardware reset.   *)
BecameReady ==
    /\ pc \in {"ready", "hard"} /\ uwbs_sta = "READY"
    /\ pc' = "listen"
    /\ UNCHANGED <<uwbs_sta, cmdVars, rxVars, delivered, histVars, chipVars>>

(* A faulty variant: __rsp_process waits forever.                          *)
LimitedForReady == {"init", "ready", "hard"}

Limited == {"init", "rsp", "ready", "hard"}

(* Every wait is limited: by __send_packet for a response, by reset() for  *)
(* READY.  The first one goes on to reset() all the same.                  *)
WaitTimeout ==
    /\ pc \in Limited
    /\ late' = TRUE
    /\ \/ /\ pc = "init" /\ uwbs_sta' = "BOOT"
          /\ SendCommand(RESET, 0, TRUE)
          /\ UNCHANGED <<up, mode>>
       \/ /\ pc = "rsp" /\ pc' = After(op)
          /\ Hardware
          /\ UNCHANGED <<uwbs_sta, cmdVars>>
       \/ /\ pc \in {"ready", "hard"} /\ uwbs_sta # "READY"
          /\ pc' = IF pc = "ready" THEN "hard" ELSE "listen"
          /\ Hardware
          /\ UNCHANGED <<uwbs_sta, cmdVars>>
    /\ UNCHANGED <<rxVars, delivered, frame, success, skipped, line, off, heard, got,
                   answered, refused, segmented>>

(* get_recv_data().                                                        *)
GetRecvData ==
    /\ pc = "loop" /\ uwbs_sta = "READY" /\ transparent_data # <<>>
    /\ delivered' = delivered \o transparent_data
    /\ transparent_data' = <<>>
    /\ UNCHANGED <<uwbs_sta, pc, cmdVars, parser, rx_payload, histVars, chipVars>>

Driver == Reset \/ SetRecvMode \/ Parse \/ BecameReady \/ WaitTimeout

-----------------------------------------------------------------------------
(* The chip, as the driver expects it.                                     *)

Says(packets) == line' = line \o packets /\ UNCHANGED off

ChipBoot ==
    /\ ~up /\ up' = TRUE
    /\ Says(<<Uci("NTF", 0, STATUS_NTF, <<1>>)>>)
    /\ UNCHANGED <<uwbs_sta, pc, cmdVars, rxVars, delivered, histVars, cmds, mode, heard, got,
                   answered, refused, segmented>>

ChipExecute ==
    /\ up /\ cmds # <<>>
    /\ cmds' = Tail(cmds)
    /\ LET c == Head(cmds) IN
       \/ /\ c.id = RESET
          /\ up' = FALSE /\ mode' = "idle"
          /\ Says(<<Uci("RSP", 0, RESET, <<0>>)>>)
          /\ UNCHANGED <<got, answered, refused>>
       \/ /\ c.id = TX
          /\ mode' = "idle"
          /\ got' = Append(got, c.frame) /\ answered' = answered \cup {c.frame}
          /\ Says(<<Uci("RSP", 0, TX, <<0>>), Uci("NTF", 0, TX, <<0>>)>>)
          /\ UNCHANGED <<up, refused>>
       \/ /\ c.id = RX
          /\ \/ mode' = "rx" /\ Says(<<Uci("RSP", 0, RX, <<0>>)>>) /\ UNCHANGED refused
             \/ refused' = TRUE /\ Says(<<Uci("RSP", 0, RX, <<1>>)>>) /\ UNCHANGED mode
          /\ UNCHANGED <<up, got, answered>>
    /\ UNCHANGED <<uwbs_sta, pc, cmdVars, rxVars, delivered, histVars, heard, segmented>>

(* A frame from the air, notified as one packet, or as two with a part of  *)
(* its data each.                                                          *)
ChipHears ==
    /\ up /\ mode = "rx" /\ Len(heard) < MaxHeard
    /\ LET f == Len(heard) + 1 IN
       /\ heard' = Append(heard, f)
       /\ \/ Says(<<Uci("NTF", 0, RX, <<1, 0, f>>)>>) /\ UNCHANGED segmented
          \/ /\ Says(<<Uci("NTF", 1, RX, <<1, 0, f>>), Uci("NTF", 0, RX, <<f>>)>>)
             /\ segmented' = TRUE
    /\ UNCHANGED <<uwbs_sta, pc, cmdVars, rxVars, delivered, histVars, cmds, up, mode, got,
                   answered, refused>>

Next == Driver \/ Transmit \/ GetRecvData \/ ChipBoot \/ ChipExecute \/ ChipHears

Spec == Init /\ [][Next]_vars

(* The radio task runs again and again, and its loops have a time limit.   *)
FairSpec == Spec /\ WF_vars(Driver)

-----------------------------------------------------------------------------

(* What the caller gets is what the chip received, in order, once, and     *)
(* nothing is lost, also while a response is awaited - unless the chip     *)
(* splits a notification (flow_parse, __notify_process, get_recv_data).    *)
DeliveredInOrder ==
    ~segmented =>
        /\ IsPrefix(delivered \o transparent_data, heard)
        /\ line = <<>> => delivered \o transparent_data = heard

(* Of a notification the chip splits, data is repeated.  But no frame's    *)
(* data is left out, nor given before that of an earlier frame (recv and   *)
(* last in flow_parse, __notify_process).                                  *)
NoneLeftOut ==
    LET d == delivered \o transparent_data IN
    /\ \A i, j \in DOMAIN d : i < j => d[i] <= d[j]
    /\ line = <<>> => \A f \in DOMAIN heard : \E i \in DOMAIN d : d[i] = heard[f]

(* Unless some wait timed out, data_transmit returns true exactly for the  *)
(* frames the chip responded to.                                           *)
SuccessMeansAnswered ==
    ~late => /\ success \subseteq answered
             /\ pc = "loop" => success = answered

(* A frame is given to the chip once, although a frame that does not fit   *)
(* makes __send_packet send the packet before again.                       *)
NeverReplayed == \A i, j \in DOMAIN got : i < j => got[i] < got[j]

(* When the radio task looks for data the chip is receiving, unless a wait *)
(* timed out, the driver was not ready, or the chip refused.               *)
ListensInLoop == pc = "loop" /\ ~late /\ ~skipped /\ ~refused => mode = "rx"

(* No call of the driver blocks the radio task for good.                   *)
CallsReturn == pc # "loop" ~> pc = "loop"
=============================================================================
