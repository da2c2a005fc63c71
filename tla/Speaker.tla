------------------------------- MODULE Speaker -------------------------------
(***************************************************************************)
(* The bridge's loudspeaker (bridge_speaker.h).  Every tone is played by a *)
(* task of its own, which waits up to 200 ms for the mutex and otherwise   *)
(* gives up.  Tasks of one priority get the mutex in the order in which    *)
(* they asked for it.  What a tone sounds like is left out; how long it    *)
(* takes matters: two of them hold the mutex for more than 200 ms.         *)
(***************************************************************************)
EXTENDS Integers, Sequences

CONSTANTS
    LongTones,  \* tones that take longer to write than a task waits
    MaxTasks    \* tasks the heap has room for

VARIABLES
    codec,     \* init_codec found and configured the codec
    volume_,   \* 0..100
    mutex_,    \* the mutex is taken
    waiting,   \* the tasks waiting for it, in order
    playing,   \* the tone being written to I2S, or "none"
    heard,     \* history: the tone played last, or "none"
    skipped    \* history: a tone was given up or not started since the last event

taskVars == <<codec, mutex_, waiting, playing, heard, skipped>>
speakerVars == <<taskVars, volume_>>

\* get_event_tone; the volume event borrows the tone of reminders_syncing.
ToneOf == [
    battery_low |-> "warning", reminders_syncing |-> "info", welcome_back |-> "welcome",
    server_down |-> "error", server_ok |-> "positive", dfu_started |-> "info",
    dfu_complete |-> "positive", dfu_failed |-> "error", watch_paired |-> "positive",
    reminder_ackd |-> "info", volume |-> "info"]

\* set_volume, volume_up, volume_down on uint8_t.
Clamped(v) == IF v % 256 > 100 THEN 100 ELSE v % 256
VolumeUp(v) == Clamped(IF v <= 90 THEN v + 10 ELSE 100)
VolumeDown(v) == Clamped(IF v >= 10 THEN v - 10 ELSE 0)

\* init_codec: one of two addresses answers, and every register is written.  Its
\* result is ignored: without a codec the tones are played to nobody.
CodecStarts(at18, at19, written) == (at18 \/ at19) /\ written

\* init, set_volume(saved) and init_codec at boot; ready_ holds from here on.
SpeakerBoots(saved) ==
    /\ \E at18, at19, written \in BOOLEAN : codec' = CodecStarts(at18, at19, written)
    /\ volume_' = Clamped(saved) /\ mutex_' = FALSE /\ waiting' = <<>>
    /\ playing' = "none" /\ heard' = "none" /\ skipped' = FALSE

\* play_event_tone for a sequence of events: a task each, while the heap lasts (the
\* result of xTaskCreate is ignored).
Spawned(kinds) ==
    LET asked == [i \in DOMAIN kinds |-> [tone |-> ToneOf[kinds[i]], passed |-> FALSE]]
        room == MaxTasks - Len(waiting) - (IF mutex_ THEN 1 ELSE 0)
    IN  SubSeq(asked, 1, IF Len(asked) < room THEN Len(asked) ELSE room)
PlayEventTones(kinds) ==
    /\ waiting' = waiting \o Spawned(kinds)
    /\ skipped' = IF kinds = <<>> THEN skipped ELSE Len(Spawned(kinds)) < Len(kinds)
    /\ UNCHANGED <<codec, volume_, mutex_, playing, heard>>

\* The task at the head gets the mutex; the others have now let one pass.
\* What is written is scaled with the volume of this moment.
Passed(tasks) == [i \in DOMAIN tasks |-> [tasks[i] EXCEPT !.passed = TRUE]]
Plays(tone) ==
    /\ playing' = tone /\ heard' = IF codec /\ volume_ > 0 THEN tone ELSE "none"
TakesMutexLast ==
    /\ ~mutex_ /\ waiting # <<>> /\ mutex_' = TRUE
    /\ Plays(waiting[Len(waiting)].tone)
    /\ waiting' = Passed(SubSeq(waiting, 1, Len(waiting) - 1))
    /\ UNCHANGED <<codec, volume_, skipped>>
TakesMutex ==
    /\ ~mutex_ /\ waiting # <<>> /\ mutex_' = TRUE
    /\ Plays(Head(waiting).tone) /\ waiting' = Passed(Tail(waiting))
    /\ UNCHANGED <<codec, volume_, skipped>>

\* malloc fails: the task gives the mutex back and ends.
MallocFailsHolding ==
    /\ ~mutex_ /\ waiting # <<>>
    /\ mutex_' = TRUE /\ waiting' = Tail(waiting) /\ skipped' = TRUE
    /\ UNCHANGED <<codec, volume_, playing, heard>>
MallocFails ==
    /\ ~mutex_ /\ waiting # <<>>
    /\ waiting' = Tail(waiting) /\ skipped' = TRUE
    /\ UNCHANGED <<codec, volume_, mutex_, playing, heard>>

\* i2s_channel_write returns, whatever it says, and the mutex is given back.
Finishes ==
    /\ playing # "none" /\ playing' = "none" /\ mutex_' = FALSE
    /\ UNCHANGED <<codec, volume_, waiting, heard, skipped>>

\* 200 ms pass: behind a long tone, or behind two short ones.
TakeTimesOut(i) ==
    /\ mutex_ /\ (playing \in LongTones \/ waiting[i].passed)
    /\ waiting' = [j \in 1..(Len(waiting) - 1) |-> waiting[IF j < i THEN j ELSE j + 1]]
    /\ skipped' = TRUE
    /\ UNCHANGED <<codec, volume_, mutex_, playing, heard>>

SpeakerNext ==
    \/ TakesMutex \/ MallocFails \/ Finishes
    \/ \E i \in DOMAIN waiting : TakeTimesOut(i)
=============================================================================
