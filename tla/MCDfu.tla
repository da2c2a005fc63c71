------------------------------- MODULE MCDfu -------------------------------
(* Instances of Dfu for TLC: v1 ends in the middle of a window, v2 exactly at
   the end of one, v3 does not fit the download buffer. *)
EXTENDS Dfu

CONSTANTS v1, v2, v3
ThreeVersions == {v1, v2, v3}
Chunks3 == [v \in ThreeVersions |-> IF v = v1 THEN 3 ELSE IF v = v2 THEN 4 ELSE 5]
=============================================================================
