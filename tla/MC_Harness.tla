----------------------------- MODULE MC_Harness -----------------------------
(***************************************************************************)
(* Harness with the slices of two sessions: one of a single line, and one  *)
(* of three lines in which the slave comes first or last.                  *)
(***************************************************************************)
EXTENDS Harness

MC_Config == {[start |-> 0, cond |-> 1, total |-> 1],
              [start |-> 0, cond |-> 2, total |-> 3],
              [start |-> 1, cond |-> 2, total |-> 3]}
=============================================================================
