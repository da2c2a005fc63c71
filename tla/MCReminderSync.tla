--------------------------- MODULE MCReminderSync ---------------------------
(* Instances of ReminderSync for TLC. *)
EXTENDS ReminderSync

CONSTANTS m1, m2
TwoMsgs == {m1, m2}
OneMsg == {m1}
TwoSlots == {0, 1}
OneSlot == {0}
=============================================================================
