------------------------------- MODULE Protocol -------------------------------
(***************************************************************************)
(* The frame protocol between the master, the slaves and the backend: a    *)
(* message is written into the payload of a packet, the packet into a      *)
(* frame, and the receiver is handed the bytes of the line in pieces that  *)
(* need not be frames.  What a message carries is kept in static fields,   *)
(* one set for each class of message: the parser writes them, process()    *)
(* reads them, and what it does not write stays.                           *)
(*                                                                         *)
(* Numbers are sequences of bytes here, as wide as in the code.  A peer    *)
(* may run an older version, whose messages are shorter.                   *)
(***************************************************************************)
EXTENDS Integers, Sequences, SequencesExt

CONSTANTS MaxSent,         \* frames sent
          Messages,        \* messages a peer may send
          Starts, Ends,    \* where a frame may be cut: bytes before, bytes after
          Junk             \* values of a byte nobody wrote

VARIABLES role,            \* the program that receives: MASTER, SLAVE or BACKEND
          statics,         \* for each class its fields and its list
          wire, off,       \* frames on the line; bytes of the first one received
          sent,            \* number of frames sent
          processed        \* history: what the last piece led to, or NONE

vars == <<role, statics, wire, off, sent, processed>>

-----------------------------------------------------------------------------
(* Bytes.                                                                  *)

Byte == 0..255

(* Sums(ns)[k] is the sum of the first k numbers.                          *)
Sums(ns) == LET sums[k \in 0..Len(ns)] == IF k = 0 THEN 0 ELSE sums[k - 1] + ns[k] IN sums
Sum(ns)  == Sums(ns)[Len(ns)]

Weight == <<1, 256, 65536, 16777216>>

Fits(v, w)  == v \in Nat /\ v \div Weight[w] \in Byte
Bytes(v, w) == [i \in 1..w |-> (v \div Weight[i]) % 256]
Number(b)   == Sum([i \in DOMAIN b |-> b[i] * Weight[i]])

(* A faulty variant: the high byte first.                                  *)
EncodeBig(ws, vs, order) ==
    FlattenSeq([k \in DOMAIN ws |-> Reverse(Bytes(vs[k], ws[k]))])

Encode(ws, vs, order) ==
    FlattenSeq([k \in DOMAIN ws |->
        IF order = "big" THEN Reverse(Bytes(vs[k], ws[k])) ELSE Bytes(vs[k], ws[k])])

Decode(ws, b) ==
    [k \in DOMAIN ws |-> Number(SubSeq(b, Sums(ws)[k - 1] + 1, Sums(ws)[k]))]

-----------------------------------------------------------------------------
(* The messages: widths of the fields and of the entries of the list; in   *)
(* which order a number is written; what the size of a payload must be.    *)

Message(fields)       == [fields |-> fields, entry |-> <<>>, order |-> "little", size |-> "exact"]
ListOf(fields, entry) == [fields |-> fields, entry |-> entry, order |-> "little", size |-> "list"]
Data                  == [fields |-> <<2>>, entry |-> <<1>>, order |-> "little", size |-> "data"]
Unchecked(m) == [m EXCEPT !.size = "logged"]
Swapped(m)   == [m EXCEPT !.order = "big"]

M2S_SyncMsg         == Unchecked(Message(<<1, 4>>))
M2S_CondCfgMsg      == Message(<<1, 1, 2, 2, 2>>)
M2S_ResCfgMsg       == Message(<<1, 1, 2, 2, 2>>)
M2S_ClipCfgMsg      == Message(<<1, 1, 2>>)
M2S_ReadCondDataMsg == Message(<<1>>)
M2S_ReadResDataMsg  == Message(<<1>>)
M2S_ReadClipDataMsg == Message(<<1>>)
M2S_RstMsg          == Unchecked(Message(<<1, 2>>))
S2M_CondCfgMsg      == Message(<<1, 1, 1, 2, 2, 2>>)
S2M_ResCfgMsg       == Swapped(Message(<<1, 1, 1, 2, 2, 2>>))
S2M_ClipCfgMsg      == Message(<<1, 1, 1, 2>>)
S2M_RstMsg          == Message(<<1, 1, 2>>)
B2M_SlaveCfgMsg     == ListOf(<<1>>, <<4, 1, 1, 1, 2>>)
B2M_ModeCfgMsg      == Message(<<1>>)
B2M_RstMsg          == ListOf(<<1>>, <<4, 1, 2>>)
B2M_CtrlMsg         == Message(<<1>>)
M2B_SlaveCfgMsg     == ListOf(<<1, 1>>, <<4, 1, 1, 1, 2>>)
M2B_ModeCfgMsg      == Message(<<1, 1>>)
M2B_RstMsg          == ListOf(<<1, 1>>, <<4, 1, 2>>)
M2B_CtrlMsg         == Message(<<1, 1>>)
S2B_CondDataMsg     == Data
S2B_ResDataMsg      == Data
S2B_ClipDataMsg     == Message(<<2>>)

(* Families by PacketType, messages by their ids.                          *)
M2S == 0
S2M == 1
B2M == 2
M2B == 3
S2B == 4

Classes == ({M2S} \X {0, 16, 17, 18, 32, 33, 34, 48})
      \cup ({S2M} \X {16, 17, 18, 48})
      \cup ({B2M} \X {0, 1, 2, 3})
      \cup ({M2B} \X {0, 1, 2, 3})
      \cup ({S2B} \X {0, 1, 2})

M2S_Message(id) ==
    CASE id = 0  -> M2S_SyncMsg
      [] id = 16 -> M2S_CondCfgMsg
      [] id = 17 -> M2S_ResCfgMsg
      [] id = 18 -> M2S_ClipCfgMsg
      [] id = 32 -> M2S_ReadCondDataMsg
      [] id = 33 -> M2S_ReadResDataMsg
      [] id = 34 -> M2S_ReadClipDataMsg
      [] id = 48 -> M2S_RstMsg

S2M_Message(id) ==
    CASE id = 16 -> S2M_CondCfgMsg
      [] id = 17 -> S2M_ResCfgMsg
      [] id = 18 -> S2M_ClipCfgMsg
      [] id = 48 -> S2M_RstMsg

B2M_Message(id) ==
    CASE id = 0  -> B2M_SlaveCfgMsg
      [] id = 1  -> B2M_ModeCfgMsg
      [] id = 2  -> B2M_RstMsg
      [] id = 3  -> B2M_CtrlMsg

M2B_Message(id) ==
    CASE id = 0  -> M2B_SlaveCfgMsg
      [] id = 1  -> M2B_ModeCfgMsg
      [] id = 2  -> M2B_RstMsg
      [] id = 3  -> M2B_CtrlMsg

S2B_Message(id) ==
    CASE id = 0  -> S2B_CondDataMsg
      [] id = 1  -> S2B_ResDataMsg
      [] id = 2  -> S2B_ClipDataMsg

Layout ==
    [c \in Classes |->
        CASE c[1] = M2S -> M2S_Message(c[2])
          [] c[1] = S2M -> S2M_Message(c[2])
          [] c[1] = B2M -> B2M_Message(c[2])
          [] c[1] = M2B -> M2B_Message(c[2])
          [] c[1] = S2B -> S2B_Message(c[2])]

-----------------------------------------------------------------------------
(* Packing: PacketPacker and FramePacker.                                  *)

ME      == <<7, 7, 7, 7>>
ALL     == <<255, 255, 255, 255>>

Payload(c, v) ==
    LET l == Layout[c]
    IN  Encode(l.fields, v.fields, l.order)
        \o FlattenSeq([e \in DOMAIN v.entries |-> Encode(l.entry, v.entries[e], l.order)])

(* The payload of an older version: the configurations had no interval,    *)
(* the answers of a slave no status, and RstMsg no clipLed.  That of a     *)
(* version that lacked more is refused for its size in the same way.       *)
HasOlder(c) == c[1] = S2M \/ c \in {M2S} \X {16, 17, 18, 48}

(* The place of the byte that was added: status, or interval.              *)
Added(c) == IF c \in {M2S} \X {16, 17} THEN 2 ELSE 1

OlderPayload(c, v) ==
    IF c = <<M2S, 48>> THEN SubSeq(Payload(c, v), 1, 1) ELSE RemoveAt(Payload(c, v), Added(c))

(* The id of the slave for M2S, S2M and S2B; device_status, which nobody   *)
(* sets, for S2B.                                                          *)
PacketHead(m) ==
    <<m.class[2]>> \o (IF m.class[1] \in {M2S, S2M, S2B} THEN m.id ELSE <<>>)
                   \o (IF m.class[1] = S2B THEN <<m.junk, m.junk>> ELSE <<>>)

Packet(m) ==
    PacketHead(m) \o (IF m.older THEN OlderPayload(m.class, m.values) ELSE Payload(m.class, m.values))

(* What a peer may send: values that fit their fields, in the last field   *)
(* of a list or a reading the number of its entries, and a packet whose    *)
(* length fits its field.                                                  *)
WellFormed(m) ==
    LET l == Layout[m.class]
        v == m.values
    IN  /\ m.class \in Classes /\ m.id \in [1..4 -> Byte] /\ m.junk \in Junk
        /\ m.older \in BOOLEAN /\ (m.older => HasOlder(m.class))
        /\ DOMAIN v.fields = DOMAIN l.fields
        /\ \A k \in DOMAIN l.fields : Fits(v.fields[k], l.fields[k])
        /\ v.fields \in Seq(Nat) /\ v.entries \in Seq(Seq(Nat))
        /\ \A e \in DOMAIN v.entries :
               /\ DOMAIN v.entries[e] = DOMAIN l.entry
               /\ \A k \in DOMAIN l.entry : Fits(v.entries[e][k], l.entry[k])
        /\ Len(v.entries) = IF l.entry = <<>> THEN 0 ELSE v.fields[Len(l.fields)]
        /\ Fits(Len(Packet(m)), 2)

ASSUME ProtocolAssumption ==
    /\ MaxSent \in Nat /\ Starts \subseteq Nat /\ Ends \subseteq Nat
    /\ Junk \subseteq Byte /\ Junk # {}
    /\ \A m \in Messages : WellFormed(m)

Frame(m) == <<171, 205, m.class[1], 0, 0>> \o Bytes(Len(Packet(m)), 2) \o Packet(m)

-----------------------------------------------------------------------------
(* Parsing: FrameParser.                                                   *)

HEADER_SIZE == 7

(* A faulty variant: what follows the frame is ignored.                    *)
IsFrameLoosely(raw) ==
    /\ Len(raw) >= HEADER_SIZE /\ raw[1] = 171 /\ raw[2] = 205
    /\ Len(raw) >= HEADER_SIZE + Number(SubSeq(raw, 6, 7))

IsFrame(raw) ==
    /\ Len(raw) >= HEADER_SIZE /\ raw[1] = 171 /\ raw[2] = 205
    /\ Len(raw) = HEADER_SIZE + Number(SubSeq(raw, 6, 7))

Reads(r) == CASE r = "MASTER" -> {S2M, B2M, S2B} [] r = "SLAVE" -> {M2S} [] r = "BACKEND" -> {M2B}

HeadSize(family) == CASE family \in {M2S, S2M} -> 5 [] family \in {B2M, M2B} -> 1 [] family = S2B -> 7

Class(raw)   == <<raw[3], raw[HEADER_SIZE + 1]>>
Content(raw) == SubSeq(raw, HEADER_SIZE + HeadSize(raw[3]) + 1, Len(raw))

(* FrameParser::parse returns a message.                                   *)
Parses(raw) ==
    /\ IsFrame(raw)
    /\ raw[3] \in Reads(role)
    /\ Len(raw) >= HEADER_SIZE + HeadSize(raw[3])
    /\ raw[3] = M2S => SubSeq(raw, HEADER_SIZE + 2, HEADER_SIZE + 5) \in {ME, ALL}
    /\ Class(raw) \in Classes

Count(c, p) == IF Layout[c].size = "list"
               THEN p[Len(Layout[c].fields)]           \* slaveNum, the last field
               ELSE Len(p) - Sum(Layout[c].fields)

(* The list of a payload: as many entries as it says, if there are.        *)
Entries(c, p) ==
    LET l == Layout[c]
        h == Sum(l.fields)
        w == Sum(l.entry)
        n == IF l.entry = <<>> THEN 0
             ELSE IF Count(c, p) < (Len(p) - h) \div w THEN Count(c, p) ELSE (Len(p) - h) \div w
    IN  [e \in 1..n |-> Decode(l.entry, SubSeq(p, h + (e - 1) * w + 1, h + e * w))]

(* A faulty variant: a payload of any size is read, its end made up.       *)
SizeFitsAny(c, p) == TRUE

SizeFits(c, p) ==
    LET l == Layout[c]
        h == Sum(l.fields)
    IN  CASE l.size = "exact"  -> Len(p) = h
          [] l.size = "logged" -> TRUE
          [] l.size = "list"   -> Len(p) >= h /\ (Len(p) - h) % Sum(l.entry) = 0
          [] l.size = "data"   -> Len(p) >= 2 /\ Len(p) = 2 + Number(SubSeq(p, 1, 2))

(* Static initialisation.                                                  *)
Zero == [c \in Classes |-> [fields |-> [k \in DOMAIN Layout[c].fields |-> 0], entries |-> <<>>]]

(* A faulty variant: the fields are cleared before the size is checked.    *)
KeptCleared(c) == [fields |-> <<>>, entries |-> <<>>]

(* What a message holds that is not written: the static fields, but for    *)
(* the messages that read, whose only field is a member, 0 when made.      *)
Kept(c) == IF c \in {M2S} \X {32, 33, 34} THEN Zero[c] ELSE statics[c]

(* deserialize(): the values the fields of class c get.  A payload that is *)
(* too short is read beyond its end where its size is only logged.         *)
Deserialized(c, p, junk) ==
    LET l == Layout[c]
        padded == [i \in 1..Sum(l.fields) |-> IF i <= Len(p) THEN p[i] ELSE junk]
    IN  IF SizeFits(c, p)
        THEN [fields |-> Decode(l.fields, padded), entries |-> Entries(c, p)]
        ELSE IF l.size = "data" /\ Len(p) >= 2
        THEN [Kept(c) EXCEPT !.fields = Decode(l.fields, p)]
        ELSE Kept(c)

-----------------------------------------------------------------------------

NONE == [class |-> <<>>]

Init ==
    /\ role \in {"MASTER", "SLAVE", "BACKEND"}
    /\ statics = Zero
    /\ wire = <<>> /\ off = 0 /\ sent = 0 /\ processed = NONE

Send ==
    /\ sent < MaxSent /\ sent' = sent + 1
    /\ \E m \in Messages : wire' = Append(wire, m)
    /\ UNCHANGED <<role, statics, off, processed>>

(* The first n frames but for their last `short' bytes arrive in a piece.  *)
Line(n) == FlattenSeq([k \in 1..n |-> Frame(wire[k])])

Receive(n, short) ==
    LET line == Line(n)
        raw == SubSeq(line, off + 1, Len(line) - short)
        c == Class(raw)
        p == Content(raw)
    IN  /\ raw # <<>>
        /\ wire' = SubSeq(wire, IF short = 0 THEN n + 1 ELSE n, Len(wire))
        /\ off' = IF short = 0 THEN 0 ELSE Len(Frame(wire[n])) - short
        /\ IF Parses(raw)
           THEN \E junk \in Junk :
                    LET v == Deserialized(c, p, junk) IN
                    /\ statics' = [statics EXCEPT ![c] = v]
                    /\ processed' = [class |-> c, values |-> v, was |-> statics[c], raw |-> raw,
                                     first |-> wire[1]]
           ELSE processed' = NONE /\ UNCHANGED statics
        /\ UNCHANGED <<role, sent>>

Cuts(n) ==
    LET size == Len(Frame(wire[n]))
    IN  {short \in 0..(size - 1) : short \in Ends \/ size - short \in Starts}

Next ==
    \/ Send
    \/ \E n \in DOMAIN wire : \E short \in Cuts(n) :
           /\ (n = 1 => off < Len(Frame(wire[1])) - short)
           /\ Receive(n, short)

Spec == Init /\ [][Next]_vars

-----------------------------------------------------------------------------

TypeOK ==
    /\ role \in {"MASTER", "SLAVE", "BACKEND"} /\ sent \in 0..MaxSent
    /\ wire \in Seq(Messages)
    /\ off \in Nat /\ (wire = <<>> => off = 0)
    /\ wire # <<>> => off < Len(Frame(wire[1]))
    /\ DOMAIN statics = Classes
    /\ \A c \in Classes :
           LET l == Layout[c]
               v == statics[c]
           IN  /\ DOMAIN v = {"fields", "entries"}
               /\ DOMAIN v.fields = DOMAIN l.fields
               /\ \A k \in DOMAIN l.fields : Fits(v.fields[k], l.fields[k])
               /\ \A e \in DOMAIN v.entries :
                      /\ DOMAIN v.entries[e] = DOMAIN l.entry
                      /\ \A k \in DOMAIN l.entry : Fits(v.entries[e][k], l.entry[k])

(* No bytes of the frame but the first two are the mark that begins one:   *)
(* a piece cut before such bytes may be parsed as a frame nobody sent.     *)
Unmistakable(m) ==
    LET f == Frame(m) IN \A i \in 2..(Len(f) - 1) : ~(f[i] = 171 /\ f[i + 1] = 205)

(* Whatever pieces the line is cut into, a message is processed only if    *)
(* the piece is one frame, whole and alone, that a peer sent to this       *)
(* program - or begins inside a frame that holds the mark of another       *)
(* (FrameHeader::deserialize, FrameParser::parse).                         *)
ProcessedAsSent ==
    processed # NONE /\ Unmistakable(processed.first) =>
        /\ processed.raw = Frame(processed.first)
        /\ processed.class = processed.first.class
        /\ processed.class[1] \in Reads(role)
        /\ role = "SLAVE" => processed.first.id \in {ME, ALL}

(* A message of the same version is processed with the values its sender   *)
(* had, for every class and width - but for the numbers of the answer to   *)
(* ResCfgMsg, whose bytes are swapped (serialize and deserialize of the    *)
(* classes of messages).                                                   *)
ValuesArrive ==
    processed # NONE /\ Unmistakable(processed.first) /\ ~processed.first.older =>
        LET v == processed.first.values IN
        /\ processed.values.entries = v.entries
        /\ \A k \in DOMAIN v.fields :
               processed.values.fields[k] =
                   IF processed.class = <<S2M, 17>>
                   THEN Number(Reverse(Bytes(v.fields[k], Layout[<<S2M, 17>>].fields[k])))
                   ELSE v.fields[k]

(* An answer of an older slave, or a configuration of an older master, is  *)
(* not read at all and yet processed, with the values of the last message  *)
(* of its class, or zeros: a slave that was configured once is configured  *)
(* so again.  No other payload is processed with earlier values: RstMsg of *)
(* an older master is read, with bytes it did not send for the clipLed     *)
(* (deserialize reports no failure, and parse returns the message).        *)
StaleOnlyFromOlder ==
    processed # NONE /\ Unmistakable(processed.first) =>
        IF processed.first.older /\ processed.class # <<M2S, 48>>
        THEN processed.values = processed.was
        ELSE processed.values.fields[1] = processed.first.values.fields[1]
=============================================================================
