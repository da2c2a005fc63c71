-------------------------- MODULE MCServerReminders --------------------------
(* Instances of ServerReminders for TLC: two slots are assigned, further ids may *)
(* be asked for. *)
EXTENDS ServerReminders

CONSTANTS q1, q2, on, off
TwoRequests == {q1, q2}
OneRequest == {q1}
ThreeIds == 0..2
OnOff == {on, off}
On == {on}
=============================================================================
