---------------------------- MODULE Conversation ----------------------------
(***************************************************************************)
(* What the backend may rely on: the master has one place for a message,   *)
(* and what is put into it becomes one datagram before the next message is *)
(* begun; and a response is begun only for a datagram that was received.   *)
(* The former ends when the two writers send at once, or when one waits in *)
(* vain for the datagram to be sent.                                       *)
(***************************************************************************)
EXTENDS Naturals, Sequences

CONSTANTS Writer,          \* the tasks that send
          Kind             \* of messages: with data, without, or none at all

VARIABLES asked,           \* datagrams received from the backend
          begun,           \* messages each writer has begun
          place,           \* the message under way, or Nothing
          sent,            \* datagrams sent for the latest message
          disturbed        \* the promise about the place has ended

absVars == <<asked, begun, place, sent, disturbed>>

Nothing == [by |-> "none", k |-> 0, kind |-> "empty"]

(* The datagram of a message: its length and its two halves, or nothing.   *)
DatagramOf(m) == IF m.kind = "data" THEN <<m, m, m>> ELSE <<>>

Init ==
    /\ asked = 0
    /\ begun = [w \in Writer |-> 0]
    /\ place = Nothing
    /\ sent = <<>>
    /\ disturbed = FALSE

Ask ==
    /\ asked' = asked + 1
    /\ UNCHANGED <<begun, place, sent, disturbed>>

Disturb == disturbed' = TRUE /\ place' = Nothing /\ sent' = <<>>

(* The k-th message of a writer.                                           *)
Put(w, k) ==
    /\ ~disturbed /\ place = Nothing
    /\ \E kind \in Kind : place' = [by |-> w, k |-> k, kind |-> kind]
    /\ sent' = <<>>
    /\ UNCHANGED disturbed

(* PCinterface only responds, SlaveManager uploads when it likes.          *)
Begin(w) ==
    /\ w = "PCinterface" => begun[w] < asked
    /\ begun' = [begun EXCEPT ![w] = @ + 1]
    /\ \/ Put(w, begun[w] + 1)
       \/ place # Nothing /\ Disturb
       \/ disturbed /\ UNCHANGED <<place, sent, disturbed>>
    /\ UNCHANGED asked

Deliver ==
    /\ place # Nothing /\ sent = <<>>
    /\ sent' = <<DatagramOf(place)>>
    /\ UNCHANGED <<asked, begun, place, disturbed>>

Return ==
    /\ place # Nothing /\ sent # <<>>
    /\ place' = Nothing
    /\ UNCHANGED <<asked, begun, sent, disturbed>>

GiveUp ==
    /\ place # Nothing
    /\ Disturb
    /\ UNCHANGED <<asked, begun>>

Next == Ask \/ (\E w \in Writer : Begin(w)) \/ Deliver \/ Return \/ GiveUp

Spec == Init /\ [][Next]_absVars
=============================================================================
