------------------------------ MODULE SlaveCall ------------------------------
(***************************************************************************)
(* What __ProcessBase::send_frame promises its callers: calls to slaves,   *)
(* one at a time, each executed by the slave it is for any number of       *)
(* times, now or later.  A call that returns true was executed; but once   *)
(* calls were given up, the answer may stem from one of those, as long as  *)
(* it asked for the same thing.                                            *)
(***************************************************************************)
EXTENDS Naturals, Sequences

CONSTANTS Slave,           \* the slaves
          Slot             \* configurations, told apart by their time slot

VARIABLES calls,           \* every call made so far
          pending,         \* the last one has not returned
          executed,        \* pairs: this slave executed this call
          abandoned,       \* calls whose answer may come when nobody waits for it
          accepted         \* the execution the last result rests on

absVars == <<calls, pending, executed, abandoned, accepted>>

Broadcast == "broadcast"

Call == [to : Slave, kind : {"cfg"}, slot : Slot]
            \cup [to : Slave, kind : {"read"}, slot : {0}]
            \cup [to : {Broadcast}, kind : {"sync"}, slot : {0}]

Last    == Len(calls)
Nothing == <<>>

SameQuestion(j, k) == calls[j].kind = calls[k].kind /\ calls[j].slot = calls[k].slot

Init ==
    /\ calls = <<>>
    /\ pending = FALSE
    /\ executed = {}
    /\ abandoned = {}
    /\ accepted = Nothing

Begin ==
    /\ ~pending
    /\ \E c \in Call : calls' = Append(calls, c)
    /\ pending' = TRUE
    /\ accepted' = Nothing
    /\ UNCHANGED <<executed, abandoned>>

(* A slave executes a call that is for it.  What slaves do with a sync     *)
(* frame is nothing the caller waits for.                                  *)
Execute ==
    /\ \E s \in Slave, k \in 1..Last :
          calls[k].to = s /\ executed' = executed \cup {<<s, k>>}
    /\ UNCHANGED <<calls, pending, abandoned, accepted>>

GiveUp ==
    /\ pending
    /\ abandoned' = abandoned \cup {Last}
    /\ UNCHANGED <<calls, pending, executed, accepted>>

(* The answer to another call leaves the call's own answer outstanding.    *)
Succeed ==
    /\ pending
    /\ pending' = FALSE
    /\ \/ /\ calls[Last].kind = "sync"
          /\ UNCHANGED <<accepted, abandoned>>
       \/ \E e \in executed :
             /\ SameQuestion(e[2], Last)
             /\ e[2] = Last \/ e[2] \in abandoned
             /\ accepted' = e
             /\ abandoned' = IF e[2] = Last THEN abandoned ELSE abandoned \cup {Last}
    /\ UNCHANGED <<calls, executed>>

Fail ==
    /\ pending
    /\ pending' = FALSE
    /\ abandoned' = abandoned \cup {Last}
    /\ UNCHANGED <<calls, executed, accepted>>

Next == Begin \/ Execute \/ GiveUp \/ Succeed \/ Fail

Spec == Init /\ [][Next]_absVars
=============================================================================
