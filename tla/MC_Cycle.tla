------------------------------- MODULE MC_Cycle -------------------------------
(***************************************************************************)
(* Instance of Cycle for TLC: two slaves, together, alone and swapped.     *)
(***************************************************************************)
EXTENDS Cycle

CONSTANTS s1, s2

MC_Slave == {s1, s2}
MC_Lists == {<<s1, s2>>, <<s2>>}
MC_Cond  == [s \in MC_Slave |-> 1]
=============================================================================
