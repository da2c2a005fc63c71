----------------------------- MODULE NextReminder -----------------------------
(***************************************************************************)
(* The next reminder on the clock page: get_next_reminder                  *)
(* (pinetime_bridge.cpp:734-786), computed anew every 10 s.                *)
(*                                                                         *)
(* The code looks at eight instants, 24 hours apart, and takes the local   *)
(* day of each as a day of the week ahead.  A day on which the clocks      *)
(* change has 23 or 25 hours, so the eight instants may jump over a day or *)
(* fall into one day twice.                                                *)
(*                                                                         *)
(* Time is counted in hours.  Local time is UTC until hour Change, and     *)
(* shift hours ahead of it from then on.                                   *)
(***************************************************************************)
EXTENDS Integers, Sequences, FiniteSets, FiniteSetsExt

CONSTANTS
    Change,     \* the hour in which the clocks change
    Shifts,     \* by how much they may: 1 in spring, -1 in autumn, 0
    Lists,      \* lists of reminders the server may answer with
    Daily,      \* recurrence 0x80; any other is a set of weekdays, empty if 0x00
    NoDate,     \* a reminder without month and day
    LastHour    \* bound: the hour at which the clock stops

ASSUME NextAssumption ==
    /\ Change \in Nat /\ LastHour \in Nat /\ Shifts \subseteq {-1, 0, 1}
    /\ \A l \in Lists : DOMAIN l \subseteq Nat \ {0} /\ \A i \in DOMAIN l : l[i].hour \in Nat

VARIABLES
    now,        \* time(nullptr)
    shift,      \* external: the rule of the time zone
    reminders   \* api_reminders_

vars == <<now, shift, reminders>>

Init == now = 0 /\ shift \in Shifts /\ reminders \in Lists

-----------------------------------------------------------------------------
\* external: the C library.  localtime, as hours since the midnight that began day 0;
\* mktime with tm_isdst = -1 takes an hour that the clock skips as before the change,
\* and one that it shows twice as after it.
Local(t) == IF t >= Change THEN t + shift ELSE t
Day(t) == Local(t) \div 24
MkTime(day, hour) ==
    LET after == 24 * day + hour - shift
    IN  IF after >= Change THEN after ELSE 24 * day + hour

\* Does r fire on this day?  Daily comes first, then the date, then the weekdays; a
\* reminder with none of them fires once, at the next time of day.
FiresOn(r, day) ==
    \/ r.recurrence = Daily
    \/ r.recurrence # Daily /\ r.date # NoDate /\ r.date = day
    \/ r.recurrence # Daily /\ r.date = NoDate
       /\ (r.recurrence = {} \/ (day % 7) \in r.recurrence)

DayOffsetsShort == 0..6
DayOffsets == 0..7

\* The instants of the eight candidates of r that are in the future and on a day on
\* which it fires; the first of them in the order of the candidates counts.
CandidateAt(r, k) == MkTime(Day(now + 24 * k), r.hour)
InPast(fire) == fire <= now
Hits(r) ==
    {k \in DayOffsets : ~InPast(CandidateAt(r, k)) /\ FiresOn(r, Day(now + 24 * k))}
LastHit(hits) == Max(hits)
FirstHit(hits) == Min(hits)
FoundAt(r) == CandidateAt(r, FirstHit(Hits(r)))

Found == {i \in DOMAIN reminders : reminders[i].enabled /\ Hits(reminders[i]) # {}}

\* The smallest delta, the first of the list among equal ones; 0 for "none".
Beats(i, j) ==
    \/ FoundAt(reminders[i]) < FoundAt(reminders[j])
    \/ FoundAt(reminders[i]) = FoundAt(reminders[j]) /\ i < j
GetNextReminder ==
    IF Found = {} THEN 0
    ELSE CHOOSE i \in Found : \A j \in Found \ {i} : Beats(i, j)

-----------------------------------------------------------------------------
\* The clock.  The list stays as it is: another one is another initial state.
HourPasses == now < LastHour /\ now' = now + 1 /\ UNCHANGED <<shift, reminders>>

Spec == Init /\ [][HourPasses]_vars

-----------------------------------------------------------------------------
\* The reference: every instant ahead at which r fires, today or in the days after.
Occurrences(r, days) ==
    {t \in {MkTime(Day(now) + d, r.hour) : d \in {e \in 0..days : FiresOn(r, Day(now) + e)}} :
        t > now}
Ahead == {i \in DOMAIN reminders :
             reminders[i].enabled /\ Occurrences(reminders[i], 7) # {}}
FirstAt(r) == Min(Occurrences(r, 7))
Earliest ==
    {i \in Ahead : \A j \in Ahead : FirstAt(reminders[i]) <= FirstAt(reminders[j])}
RightAnswer == IF Earliest = {} THEN 0 ELSE Min(Earliest)

\* No change of the clocks between now and the last of the eight instants.
EvenWeek == shift = 0 \/ Change <= now \/ Change > now + 7 * 24

Shown == reminders[GetNextReminder]

-----------------------------------------------------------------------------
\* Properties.

\* What the clock page shows as next is the earliest of all reminders ahead, unless the
\* clocks change within the week (pinetime_bridge.cpp:743-778).
NextIsEarliest == EvenWeek => GetNextReminder = RightAnswer

\* If they do, it is still one that comes: an enabled reminder, at an instant after now
\* at which it fires, and later than any daily reminder by at most a day.
NextComesSoon ==
    /\ GetNextReminder # 0 =>
           Shown.enabled /\ FoundAt(Shown) \in Occurrences(Shown, 8)
    /\ \A i \in DOMAIN reminders :
           reminders[i].enabled /\ reminders[i].recurrence = Daily =>
               GetNextReminder # 0 /\ FoundAt(Shown) <= FirstAt(reminders[i]) + 24
=============================================================================
