---------------------------- MODULE MCNextReminder ----------------------------
(* Instances of NextReminder for TLC: nine days around a change of the clocks at *)
(* two o'clock on day 4, and lists of up to two reminders. *)
EXTENDS NextReminder

At(hour, recurrence, date, enabled) ==
    [hour |-> hour, recurrence |-> recurrence, date |-> date, enabled |-> enabled]

Samples == {
    At(0, Daily, NoDate, TRUE), At(23, Daily, NoDate, TRUE), At(2, {}, NoDate, TRUE),
    At(1, {3, 4}, NoDate, TRUE), At(23, {4}, NoDate, TRUE), At(12, {0}, NoDate, TRUE),
    At(0, {}, 10, TRUE), At(23, Daily, 6, FALSE), At(2, {1}, 4, TRUE)}
UpToTwo == {<<>>} \cup {<<a>> : a \in Samples} \cup {<<a, b>> : a, b \in Samples}
TwoOClock == 4 * 24 + 2
Anyway == {-1, 0, 1}
=============================================================================
