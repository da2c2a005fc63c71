----------------------------- MODULE EventDisplay -----------------------------
(***************************************************************************)
(* The bridge's display of events (pinetime-bridge.yaml:689-908), with the *)
(* flags of the bridge that it reads and the speaker that it plays on.     *)
(*                                                                         *)
(* An interval of 10 s compares the flags with what they were at the       *)
(* interval before and shows an event for each difference; every event     *)
(* replaces the one shown before it.  Intervals run on the main task,      *)
(* between two calls of loop().  Time is counted in these intervals.       *)
(***************************************************************************)
EXTENDS Speaker, FiniteSets

CONSTANTS
    Slots,        \* reminder ids in use
    Messages,     \* messages of reminders
    NoMessage,    \* a slot without a reminder, or no acknowledgement so far
    AwayTicks,    \* 300 s in the code
    WarnTicks,    \* 3600 s in the code
    MaxChanges    \* bound: changes of the bridge's state

ASSUME DisplayAssumption ==
    /\ NoMessage \notin Messages /\ IsFiniteSet(Slots)
    /\ AwayTicks \in Nat /\ WarnTicks \in Nat /\ MaxChanges \in Nat /\ MaxTasks \in Nat

VARIABLES
    bridge,        \* the members of PineTimeBridge that the display reads
    prev,          \* the prev_* globals
    warned,        \* ticks since last_battery_warn_ms, or Never if that is 0
    shown,         \* the event on the page, or the status page
    saved_volume,  \* the global of that name (external: ESPHome writes it to flash)
    uptime,        \* ticks since the boot
    history,       \* of the battery warnings
    changes        \* bound counter

displayVars == <<prev, warned, shown, history>>
vars == <<bridge, displayVars, saved_volume, speakerVars, uptime, changes>>

Never == -1
Batteries == {0, 30, 80}
Lists == [Slots -> Messages \cup {NoMessage}]
DfuState == {"IDLE", "TRANSFER", "COMPLETE", "FAILED"}
Later(age, limit) == IF age = limit THEN limit ELSE age + 1
Count(list) == Cardinality({s \in Slots : list[s] # NoMessage})

Event(kind) == [kind |-> kind, text |-> NoMessage]
Status == Event("status")

\* Initialisers of the members and of the globals.
BridgeAtBoot == [
    server_reachable_ |-> FALSE, api_reminders_ |-> [s \in Slots |-> NoMessage],
    watch_battery_ |-> 0, dfu |-> "IDLE", ble_connected_ |-> FALSE, watch_seen |-> Never,
    watch_returned_event_ |-> FALSE, ack_event_ |-> FALSE, last_ack_message_ |-> NoMessage]
PrevAtBoot == [server |-> TRUE, battery |-> 100, count |-> 0, dfu |-> "IDLE",
               connected |-> FALSE]

\* History: ticks since the last battery warning, ticks of daytime for which the
\* battery has been low, whether it was not low at some tick since the warning, and the
\* ticks between the last two warnings without such a tick in between.
NoWarning ==
    [since |-> WarnTicks + 2, lowFor |-> 0, recovered |-> TRUE, gap |-> WarnTicks + 2]

Init ==
    /\ bridge = BridgeAtBoot /\ prev = PrevAtBoot /\ warned = Never /\ shown = Status
    /\ saved_volume \in {0, 100} /\ uptime = 0
    /\ history = NoWarning /\ changes = 0
    /\ codec = TRUE /\ volume_ = Clamped(saved_volume) /\ mutex_ = FALSE
    /\ waiting = <<>> /\ playing = "none" /\ heard = "none" /\ skipped = FALSE

-----------------------------------------------------------------------------
\* Changes of the bridge between two intervals.

Changed == changes < MaxChanges /\ changes' = changes + 1
Elsewhere == UNCHANGED <<displayVars, saved_volume, speakerVars, uptime>>

\* poll_api_; loop() does not get that far during an update.
PollFails ==
    /\ Changed /\ bridge.dfu = "IDLE"
    /\ bridge' = [bridge EXCEPT !.server_reachable_ = FALSE] /\ Elsewhere
PollSucceeds(list) ==
    /\ Changed /\ bridge.dfu = "IDLE"
    /\ bridge' = [bridge EXCEPT !.server_reachable_ = TRUE, !.api_reminders_ = list]
    /\ Elsewhere

ReadBattery(b) ==
    /\ Changed /\ bridge.ble_connected_
    /\ bridge' = [bridge EXCEPT !.watch_battery_ = b] /\ Elsewhere

\* start blocks until the download is over, so DOWNLOADING is not seen from outside.
DfuStarts(s) ==
    /\ Changed /\ bridge.dfu = "IDLE" /\ s \in {"TRANSFER", "FAILED"}
    /\ bridge' = [bridge EXCEPT !.dfu = s] /\ Elsewhere
DfuEnds(s) ==
    /\ bridge.dfu = "TRANSFER"
    /\ bridge' = [bridge EXCEPT !.dfu = s] /\ UNCHANGED changes /\ Elsewhere
\* send_activate_, fail_, or the safety timeout of loop(), which is neither.
DfuCompletes == DfuEnds("COMPLETE")
DfuFails == DfuEnds("FAILED")
DfuTimesOut == DfuEnds("IDLE")
\* The next call of loop().
DfuResets ==
    /\ bridge.dfu \in {"COMPLETE", "FAILED"}
    /\ bridge' = [bridge EXCEPT !.dfu = "IDLE"] /\ UNCHANGED changes /\ Elsewhere

\* OPEN_EVT and DISCONNECT_EVT.
LinkChanges ==
    /\ Changed /\ bridge' = [bridge EXCEPT !.ble_connected_ = ~@] /\ Elsewhere

\* on_ble_advertise for the paired watch, which advertises only while it is not
\* connected.
OnBleAdvertise ==
    /\ Changed /\ ~bridge.ble_connected_
    /\ bridge' = [bridge EXCEPT !.watch_seen = 0,
                     !.watch_returned_event_ = @ \/ bridge.watch_seen > AwayTicks]
    /\ Elsewhere

\* The end of on_ack_notification_: if the slot is unknown the message stays the one
\* of the acknowledgement before.
OnAckNotification(s) ==
    LET message == bridge.api_reminders_[s] IN
    /\ Changed /\ bridge.ble_connected_
    /\ bridge' = [bridge EXCEPT !.ack_event_ = TRUE,
                     !.last_ack_message_ = IF message = NoMessage THEN @ ELSE message]
    /\ Elsewhere

-----------------------------------------------------------------------------
\* The display.

When(condition, event) == IF condition THEN <<event>> ELSE <<>>

\* Battery below 60 %: at the crossing, then each hour in daytime.
Low == bridge.watch_battery_ > 0 /\ bridge.watch_battery_ < 60
Crossed == prev.battery >= 60
RepeatDueLate == (IF warned = Never THEN uptime ELSE warned) > WarnTicks
RepeatDueByUptime == uptime + 1 > WarnTicks
RepeatDue == (IF warned = Never THEN uptime ELSE warned) + 1 > WarnTicks
Warns(day) == Low /\ (Crossed \/ (day /\ RepeatDue))

\* The flags that are cleared by being read.
Returned == When(bridge.watch_returned_event_, Event("welcome_back"))
Acked == When(bridge.ack_event_, [kind |-> "reminder_ackd", text |-> bridge.last_ack_message_])

\* The events of one interval, in the order of the code.
TickEvents(day) ==
    LET count == Count(bridge.api_reminders_) IN
    When(~bridge.server_reachable_ /\ prev.server, Event("server_down")) \o
    When(bridge.server_reachable_ /\ ~prev.server, Event("server_ok")) \o
    When(Warns(day), Event("battery_low")) \o
    When(count > 0 /\ prev.count > 0 /\ count # prev.count, Event("reminders_syncing")) \o
    When(bridge.dfu # "IDLE" /\ prev.dfu = "IDLE", Event("dfu_started")) \o
    When(bridge.dfu = "COMPLETE" /\ prev.dfu # "COMPLETE", Event("dfu_complete")) \o
    When(bridge.dfu = "FAILED" /\ prev.dfu # "FAILED", Event("dfu_failed")) \o
    When(bridge.ble_connected_ /\ ~prev.connected, Event("watch_paired")) \o
    Returned \o Acked

\* The events are shown in turn, so the last one stays; each has its tone.
LastOfFirst(events) == events[1]
LastOf(events) == events[Len(events)]
ShowEvents(events) ==
    /\ shown' = IF events = <<>> THEN shown ELSE LastOf(events)
    /\ PlayEventTones([i \in DOMAIN events |-> events[i].kind])

RememberFlags ==
    prev' = [server |-> bridge.server_reachable_,
             battery |-> IF bridge.watch_battery_ > 0 THEN bridge.watch_battery_
                         ELSE prev.battery,
             count |-> Count(bridge.api_reminders_), dfu |-> bridge.dfu,
             connected |-> bridge.ble_connected_]

WarningTime(day) ==
    /\ warned' = IF Warns(day) THEN 0 ELSE IF Low /\ warned # Never
                 THEN Later(warned, WarnTicks) ELSE Never
    /\ history' = [
           since |-> IF Warns(day) THEN 0 ELSE Later(history.since, WarnTicks + 2),
           lowFor |-> IF Low /\ day THEN Later(history.lowFor, WarnTicks + 2) ELSE 0,
           recovered |-> ~Warns(day) /\ (history.recovered \/ ~Low),
           gap |-> IF Warns(day) /\ ~history.recovered
                   THEN Later(history.since, WarnTicks + 2) ELSE history.gap]

\* All tones of an interval together are shorter than one: when the next begins only that
\* of a swipe may be left.
TonesOver ==
    /\ playing \in {"none", ToneOf["volume"]}
    /\ \A i \in DOMAIN waiting : waiting[i].tone = ToneOf["volume"]
\* day: the hour is in 8..19.  At most one interval passes before loop() resets a
\* finished update.
Tick(day) ==
    /\ TonesOver
    /\ bridge.dfu \in {"COMPLETE", "FAILED"} => prev.dfu # bridge.dfu
    /\ ShowEvents(TickEvents(day)) /\ RememberFlags /\ WarningTime(day)
    /\ bridge' = [bridge EXCEPT !.watch_returned_event_ = FALSE, !.ack_event_ = FALSE,
                     !.watch_seen = IF @ = Never THEN Never ELSE Later(@, AwayTicks + 1)]
    /\ uptime' = Later(uptime, WarnTicks)
    /\ UNCHANGED <<saved_volume, changes>>

\* 30 s after its event the page is dismissed.
Dismiss ==
    /\ shown # Status /\ shown' = Status
    /\ UNCHANGED <<bridge, prev, warned, history, saved_volume, speakerVars, uptime,
                   changes>>

\* A swipe changes the volume, shows it with a tone, and saves it.
Swipe(v) ==
    /\ Changed /\ volume_' = v /\ saved_volume' = v
    /\ shown' = Event("volume") /\ waiting' = waiting \o Spawned(<<"volume">>)
    /\ skipped' = (Spawned(<<"volume">>) = <<>>)
    /\ UNCHANGED <<codec, mutex_, playing, heard, bridge, prev, warned, history, uptime>>

Reboots ==
    /\ Changed /\ SpeakerBoots(saved_volume)
    /\ bridge' = BridgeAtBoot /\ prev' = PrevAtBoot /\ warned' = Never /\ shown' = Status
    /\ uptime' = 0 /\ history' = NoWarning /\ UNCHANGED saved_volume

SpeakerSteps ==
    SpeakerNext /\ UNCHANGED <<bridge, displayVars, saved_volume, uptime, changes>>

Next ==
    \/ PollFails \/ \E list \in Lists : PollSucceeds(list)
    \/ \E b \in Batteries : ReadBattery(b)
    \/ \E s \in DfuState : DfuStarts(s)
    \/ DfuCompletes \/ DfuFails \/ DfuTimesOut \/ DfuResets
    \/ LinkChanges \/ OnBleAdvertise
    \/ \E s \in Slots : OnAckNotification(s)
    \/ \E day \in BOOLEAN : Tick(day)
    \/ Dismiss \/ Swipe(VolumeUp(volume_)) \/ Swipe(VolumeDown(volume_))
    \/ Reboots \/ SpeakerSteps

Spec == Init /\ [][Next]_vars

\* Intervals come round, loop() runs, and a task that has the mutex ends.
Fairness ==
    /\ WF_vars(\E day \in BOOLEAN : Tick(day)) /\ WF_vars(DfuResets)
    /\ WF_vars(TakesMutex /\ SpeakerSteps) /\ WF_vars(Finishes /\ SpeakerSteps)
FairSpec == Spec /\ Fairness

-----------------------------------------------------------------------------
\* Properties.

\* A battery that stays low in daytime is warned about each hour (README.md, "repeats
\* hourly 8am-8pm"; pinetime-bridge.yaml:849-862).
WarnedHourly == history.lowFor > WarnTicks + 1 => history.since <= WarnTicks + 1

\* ... and not more often: between two warnings there is more than an hour or an
\* interval at which the battery was not low.
NotNagged == history.gap > WarnTicks

\* Once the speaker is quiet, the tone heard last is that of the event shown, if no
\* tone was given up since (bridge_speaker.h:126-177).
Quiet == ~mutex_ /\ waiting = <<>>
HeardWhatIsShown ==
    Quiet /\ shown # Status /\ ~skipped /\ codec /\ volume_ > 0
        => heard = ToneOf[shown.kind]

\* No failure keeps the mutex (bridge_speaker.h:136).
SpeakerFree == []<>(~mutex_)

\* An acknowledgement is displayed, whatever else the same interval has to show
\* (pinetime-bridge.yaml:903-908).
AckDisplayed == bridge.ack_event_ ~> (shown.kind = "reminder_ackd" \/ uptime = 0)
=============================================================================
