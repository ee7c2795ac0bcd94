----------------------------- MODULE MC_Protocol -----------------------------
(***************************************************************************)
(* Protocol with messages of every class, in two sets of values that have  *)
(* no byte in common, and one that imitates another: a reading that holds  *)
(* a frame.                                                                *)
(***************************************************************************)
EXTENDS Protocol

MC_Junk == {0, 255}

ANOTHER == <<9, 9, 9, 9>>

(* Bytes that all differ; n entries.                                       *)
Values(c, base, n) ==
    LET l == Layout[c]
        val(k, w, b) == Number([j \in 1..w |-> b + 4 * k + j])
    IN  [fields  |-> [k \in DOMAIN l.fields |->
                          IF l.entry # <<>> /\ k = Len(l.fields) THEN n
                          ELSE val(k, l.fields[k], base)],
         entries |-> [e \in 1..n |-> [k \in DOMAIN l.entry |-> val(k, l.entry[k], base + e)]]]

Sendable(base, ns, ids) ==
    {m \in {[class |-> c, values |-> Values(c, base, n), id |-> i, junk |-> j, older |-> o] :
               c \in Classes, n \in ns, i \in ids, j \in MC_Junk, o \in BOOLEAN} :
        /\ Layout[m.class].entry = <<>> => m.values.entries = <<>>
        /\ m.class[1] # M2S => m.id = ME
        /\ m.class[1] # S2B => m.junk = 0
        /\ m.older => HasOlder(m.class)}

Reading(bytes) ==
    [class |-> <<S2B, 1>>, id |-> ME, junk |-> 0, older |-> FALSE,
     values |-> [fields |-> <<Len(bytes)>>, entries |-> [e \in DOMAIN bytes |-> <<bytes[e]>>]]]

(* A frame for another slave, in the data of a reading.                    *)
Imitation == Reading(Frame([class |-> <<S2M, 48>>, id |-> ANOTHER, junk |-> 0, older |-> FALSE,
                            values |-> [fields |-> <<1, 2, 3>>, entries |-> <<>>]]))

Sent == Sendable(0, {0, 2}, {ME, ANOTHER, ALL}) \cup Sendable(60, {1}, {ME}) \cup {Imitation}

MC_Messages == Sent
=============================================================================
