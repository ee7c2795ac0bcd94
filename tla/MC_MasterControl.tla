--------------------------- MODULE MC_MasterControl ---------------------------
(***************************************************************************)
(* Instance of MasterControl for TLC: two devices with different numbers   *)
(* of lines, requests that name none or both of them.                      *)
(***************************************************************************)
EXTENDS MasterControl

CONSTANTS d1, d2

MC_Dev == {d1, d2}
MC_DeviceLists == {<<>>, <<d1, d2>>}
MC_Cond == [d \in MC_Dev |-> IF d = d1 THEN 2 ELSE 3]
=============================================================================
