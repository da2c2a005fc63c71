-------------------------- MODULE EventDisplayProofs --------------------------
(* Proofs about EventDisplay: when the battery is warned about, and what is heard of
   the event that is shown. *)
EXTENDS EventDisplay, FiniteSetTheorems, SequenceTheorems, TLAPS

-----------------------------------------------------------------------------
(* Type correctness.                                                        *)

Tones == {ToneOf[k] : k \in DOMAIN ToneOf}
Tasks == [tone : Tones, passed : BOOLEAN]
Events == [kind : DOMAIN ToneOf, text : Messages \cup {NoMessage}]
Bridges == [
    server_reachable_ : BOOLEAN, api_reminders_ : Lists, watch_battery_ : Batteries,
    dfu : DfuState, ble_connected_ : BOOLEAN, watch_seen : Int,
    watch_returned_event_ : BOOLEAN, ack_event_ : BOOLEAN,
    last_ack_message_ : Messages \cup {NoMessage}]
Flags == [server : BOOLEAN, battery : Nat, count : Nat, dfu : DfuState, connected : BOOLEAN]
Ages == 0..(WarnTicks + 2)
Histories == [since : Ages, lowFor : Ages, recovered : BOOLEAN, gap : Ages]

DisplayType ==
    /\ bridge \in Bridges
    /\ prev \in Flags
    /\ warned \in 0..WarnTicks \cup {Never} /\ uptime \in 0..WarnTicks
    /\ history \in Histories
    /\ shown \in Events \cup {Status} /\ saved_volume \in 0..100

SpeakerType ==
    /\ codec \in BOOLEAN /\ volume_ \in 0..100 /\ skipped \in BOOLEAN
    /\ waiting \in Seq(Tasks)

\* How long ago the battery was warned about tells for how long it has been low.
WarnInv ==
    /\ warned = Never => history.lowFor <= uptime
    /\ warned # Never => /\ warned <= history.since
                         /\ warned < WarnTicks => history.since = warned
                         /\ warned = WarnTicks => history.lowFor = 0 \/ history.since = warned
    /\ ~history.recovered => warned # Never /\ prev.battery < 60
    /\ NotNagged

\* The last task that waits, or else the last one that played, has the tone of the event.
ToneInv ==
    shown # Status /\ ~skipped =>
        IF waiting # <<>> THEN waiting[Len(waiting)].tone = ToneOf[shown.kind]
        ELSE codec /\ volume_ > 0 => heard = ToneOf[shown.kind]

IInv == DisplayType /\ SpeakerType /\ WarnInv /\ ToneInv

-----------------------------------------------------------------------------
(* The operators.                                                           *)

LEMMA Bounds ==
  /\ WarnTicks \in Nat /\ AwayTicks \in Nat /\ MaxTasks \in Nat
  /\ IsFiniteSet(Slots) /\ Never \notin Nat /\ 0 \in 0..WarnTicks
BY DisplayAssumption DEF Never

LEMMA CountType == ASSUME NEW list \in Lists PROVE Count(list) \in Nat
<1>1. {s \in Slots : list[s] # NoMessage} \subseteq Slots
  OBVIOUS
<1> QED BY <1>1, Bounds, FS_Subset, FS_CardinalityType DEF Count

LEMMA LaterAge ==
  ASSUME NEW limit \in Nat, NEW age \in 0..limit
  PROVE  /\ Later(age, limit) \in 0..limit
         /\ Later(age, limit) = age + 1 \/ (age = limit /\ Later(age, limit) = limit)
BY DEF Later

LEMMA EventType == ASSUME NEW k \in DOMAIN ToneOf PROVE Event(k) \in Events
BY DEF Event, Events

LEMMA WhenType ==
  ASSUME NEW c, NEW e \in Events
  PROVE  When(c, e) \in Seq(Events)
BY DEF When

LEMMA Concatenated ==
  ASSUME NEW S, NEW s \in Seq(S), NEW t \in Seq(S)
  PROVE  /\ s \o t \in Seq(S)
         /\ t = <<>> => s \o t = s
         /\ t # <<>> => s \o t # <<>> /\ (s \o t)[Len(s \o t)] = t[Len(t)]
<1>1. /\ s \o t \in Seq(S) /\ Len(s \o t) = Len(s) + Len(t)
      /\ \A i \in 1..(Len(s) + Len(t)) :
            (s \o t)[i] = IF i <= Len(s) THEN s[i] ELSE t[i - Len(s)]
      /\ Len(s) \in Nat /\ Len(t) \in Nat
  BY ConcatProperties, LenProperties
<1>2. t = <<>> => s \o t = s
  BY ConcatEmptySeq
<1>3. ASSUME t # <<>> PROVE s \o t # <<>> /\ (s \o t)[Len(s \o t)] = t[Len(t)]
  <2>1. Len(t) \in Nat \ {0}
    BY <1>3, EmptySeq
  <2>2. Len(s) + Len(t) \in 1..(Len(s) + Len(t)) /\ ~(Len(s) + Len(t) <= Len(s))
        /\ (Len(s) + Len(t)) - Len(s) = Len(t) /\ Len(s) + Len(t) # 0
    BY <1>1, <2>1
  <2>3. (s \o t)[Len(s) + Len(t)] = t[Len(t)]
    BY <1>1, <2>2
  <2>4. Len(<<>>) = 0
    BY EmptySeq
  <2> QED BY <1>1, <2>2, <2>3, <2>4
<1> QED BY <1>1, <1>2, <1>3

LEMMA TickEventsType ==
  ASSUME DisplayType, NEW day \in BOOLEAN
  PROVE  TickEvents(day) \in Seq(Events)
<1>1. \A k \in DOMAIN ToneOf : Event(k) \in Events
  BY EventType
<1>2. \A c : \A e \in Events : When(c, e) \in Seq(Events)
  BY WhenType
<1>3. \A s, t \in Seq(Events) : s \o t \in Seq(Events)
  BY Concatenated
<1>4. Returned \in Seq(Events)
  BY <1>1, <1>2 DEF Returned, ToneOf, DisplayType, Bridges
<1>5. Acked \in Seq(Events)
  <2>1. [kind |-> "reminder_ackd", text |-> bridge.last_ack_message_] \in Events
    BY DEF Events, ToneOf, DisplayType, Bridges
  <2> QED BY <1>2, <2>1 DEF Acked, DisplayType, Bridges
<1>6. \A c :
         /\ When(c, Event("server_down")) \in Seq(Events)
         /\ When(c, Event("server_ok")) \in Seq(Events)
         /\ When(c, Event("battery_low")) \in Seq(Events)
         /\ When(c, Event("reminders_syncing")) \in Seq(Events)
         /\ When(c, Event("dfu_started")) \in Seq(Events)
         /\ When(c, Event("dfu_complete")) \in Seq(Events)
         /\ When(c, Event("dfu_failed")) \in Seq(Events)
         /\ When(c, Event("watch_paired")) \in Seq(Events)
  BY <1>1, <1>2 DEF ToneOf
<1> QED BY <1>3, <1>4, <1>5, <1>6 DEF TickEvents

LEMMA SpawnedType ==
  ASSUME SpeakerType, NEW kinds \in Seq(DOMAIN ToneOf)
  PROVE  /\ Spawned(kinds) \in Seq(Tasks)
         /\ ~(Len(Spawned(kinds)) < Len(kinds)) =>
               /\ kinds # <<>> => Spawned(kinds) # <<>>
               /\ Spawned(kinds) # <<>> =>
                     Spawned(kinds)[Len(Spawned(kinds))].tone = ToneOf[kinds[Len(kinds)]]
         /\ kinds = <<>> => Spawned(kinds) = <<>>
<1> DEFINE asked == [i \in DOMAIN kinds |-> [tone |-> ToneOf[kinds[i]], passed |-> FALSE]]
           room == MaxTasks - Len(waiting) - (IF mutex_ THEN 1 ELSE 0)
           n == IF Len(asked) < room THEN Len(asked) ELSE room
<1>1. /\ Len(kinds) \in Nat /\ DOMAIN kinds = 1..Len(kinds)
      /\ \A i \in 1..Len(kinds) : kinds[i] \in DOMAIN ToneOf
  BY LenProperties, ElementOfSeq
<1>2. asked \in [1..Len(kinds) -> Tasks]
  BY <1>1 DEF Tasks, Tones
<1>3. asked \in Seq(Tasks) /\ Len(asked) = Len(kinds)
  BY <1>1, <1>2
<1>4. room \in Int
  BY Bounds, LenProperties DEF SpeakerType
<1>5. n \in Int /\ n <= Len(kinds)
  BY <1>1, <1>3, <1>4
<1>6. Spawned(kinds) = SubSeq(asked, 1, n)
  BY DEF Spawned
<1> HIDE DEF room, n
<1>7. \A i \in 1..n : asked[i] \in Tasks
  BY <1>1, <1>2, <1>5
<1>8. /\ SubSeq(asked, 1, n) \in Seq(Tasks)
      /\ Len(SubSeq(asked, 1, n)) = IF 1 <= n THEN n ELSE 0
  BY <1>5, <1>7, SubSeqProperties
<1>9. ASSUME ~(Len(Spawned(kinds)) < Len(kinds))
      PROVE  Spawned(kinds) = asked
  <2> HIDE DEF asked
  <2>1. n = Len(asked) \/ Len(asked) = 0
    <3> DEFINE m == Len(Spawned(kinds))
    <3>1. m = IF 1 <= n THEN n ELSE 0
      BY <1>6, <1>8
    <3>2. ~(m < Len(kinds))
      BY <1>9
    <3> HIDE DEF m
    <3>3. Len(kinds) \in Nat /\ Len(asked) = Len(kinds)
      BY <1>1, <1>3
    <3> QED BY <1>5, <3>1, <3>2, <3>3
  <2>2. CASE n = Len(asked)
    BY <1>3, <1>6, <2>2, SubSeqFull
  <2>3. CASE Len(asked) = 0
    <3>1. asked = <<>>
      BY <1>3, <2>3, EmptySeq
    <3>2. Len(SubSeq(asked, 1, n)) = 0
      BY <1>3, <1>5, <1>8, <2>3
    <3> QED BY <1>6, <1>8, <3>1, <3>2, EmptySeq
  <2> QED BY <2>1, <2>2, <2>3
<1>10. kinds # <<>> => Len(kinds) \in Nat \ {0}
  BY EmptySeq
<1>11. kinds # <<>> => asked # <<>> /\ asked[Len(asked)].tone = ToneOf[kinds[Len(kinds)]]
  BY <1>1, <1>3, <1>10, EmptySeq
<1>12. kinds = <<>> => Spawned(kinds) = <<>> /\ asked = <<>>
  <2> SUFFICES ASSUME kinds = <<>> PROVE Spawned(kinds) = <<>> /\ asked = <<>>
    OBVIOUS
  <2>1. Len(kinds) = 0
    BY EmptySeq
  <2>2. Len(SubSeq(asked, 1, n)) = 0
    BY <1>5, <1>8, <2>1
  <2>3. SubSeq(asked, 1, n) = <<>>
    BY <1>8, <2>2, EmptySeq
  <2>4. asked = <<>>
    BY <1>3, <2>1, EmptySeq
  <2> QED BY <1>6, <2>3, <2>4
<1> HIDE DEF asked
<1> QED BY <1>6, <1>8, <1>9, <1>11, <1>12

-----------------------------------------------------------------------------
(* The type invariant.                                                      *)

LEMMA BootType ==
  /\ BridgeAtBoot \in Bridges
  /\ PrevAtBoot \in Flags
  /\ NoWarning \in Histories
<1>1. [s \in Slots |-> NoMessage] \in Lists
  BY DEF Lists
<1>2. NoWarning \in Histories
  BY Bounds DEF NoWarning, Ages, Histories
<1> QED BY <1>1, <1>2 DEF BridgeAtBoot, PrevAtBoot, DfuState, Batteries, Never, Bridges, Flags

LEMMA InitType == Init => DisplayType /\ SpeakerType
<1> SUFFICES ASSUME Init PROVE DisplayType /\ SpeakerType
  OBVIOUS
<1>1. warned \in 0..WarnTicks \cup {Never} /\ uptime \in 0..WarnTicks
  BY Bounds DEF Init
<1>2. shown \in Events \cup {Status} /\ saved_volume \in 0..100
  BY DEF Init
<1>3. DisplayType
  BY <1>1, <1>2, BootType DEF Init, DisplayType
<1>4. volume_ \in 0..100 /\ waiting \in Seq(Tasks)
  BY EmptySeq DEF Init, Clamped
<1> QED BY <1>3, <1>4 DEF Init, SpeakerType

LEMMA Volumes ==
  /\ \A v \in 0..100 : VolumeUp(v) \in 0..100 /\ VolumeDown(v) \in 0..100
  /\ \A v \in 0..100 : Clamped(v) \in 0..100
<1>1. \A v \in 0..110 : v % 256 = v
  OBVIOUS
<1>2. \A v \in 0..110 : Clamped(v) \in 0..100
  BY <1>1 DEF Clamped
<1>3. \A v \in 0..100 : (IF v <= 90 THEN v + 10 ELSE 100) \in 0..110
                        /\ (IF v >= 10 THEN v - 10 ELSE 0) \in 0..110 /\ v \in 0..110
  OBVIOUS
<1>4. ASSUME NEW v \in 0..100
      PROVE  VolumeUp(v) \in 0..100 /\ VolumeDown(v) \in 0..100 /\ Clamped(v) \in 0..100
  <2>1. PICK up \in 0..110 : up = IF v <= 90 THEN v + 10 ELSE 100
    BY <1>3
  <2>2. PICK down \in 0..110 : down = IF v >= 10 THEN v - 10 ELSE 0
    BY <1>3
  <2>3. VolumeUp(v) = Clamped(up) /\ VolumeDown(v) = Clamped(down)
    BY <2>1, <2>2 DEF VolumeUp, VolumeDown
  <2>4. Clamped(up) \in 0..100 /\ Clamped(down) \in 0..100
    BY <1>2
  <2>5. v \in 0..110
    OBVIOUS
  <2>6. Clamped(v) \in 0..100
    BY <1>2, <2>5
  <2> QED BY <2>3, <2>4, <2>6
<1> QED BY <1>4

\* What the changes of the bridge leave alone.
DisplayRests == UNCHANGED <<displayVars, saved_volume, uptime>>

LEMMA ChangeType ==
  ASSUME DisplayType,
         \/ PollFails \/ \E list \in Lists : PollSucceeds(list)
         \/ \E b \in Batteries : ReadBattery(b)
         \/ \E s \in DfuState : DfuStarts(s)
         \/ DfuCompletes \/ DfuFails \/ DfuTimesOut \/ DfuResets
         \/ LinkChanges \/ OnBleAdvertise
         \/ \E s \in Slots : OnAckNotification(s)
  PROVE  DisplayType' /\ DisplayRests /\ UNCHANGED speakerVars
<1>1. SUFFICES
        bridge' \in Bridges /\ DisplayRests /\ UNCHANGED speakerVars
  BY DEF DisplayType, DisplayRests, displayVars
<1>2. DisplayRests /\ UNCHANGED speakerVars
  BY DEF PollFails, PollSucceeds, ReadBattery, DfuStarts, DfuEnds, DfuCompletes, DfuFails,
         DfuTimesOut, DfuResets, LinkChanges, OnBleAdvertise, OnAckNotification, Elsewhere, DisplayRests
<1>3. CASE PollFails
  BY <1>2, <1>3 DEF PollFails, DisplayType, Bridges
<1>4. ASSUME NEW list \in Lists, PollSucceeds(list)
      PROVE  bridge' = [bridge EXCEPT !.server_reachable_ = TRUE, !.api_reminders_ = list]
  BY <1>4 DEF PollSucceeds
<1>5. CASE \E list \in Lists : PollSucceeds(list)
  BY <1>2, <1>4, <1>5 DEF DisplayType, Bridges
<1>6. CASE \E b \in Batteries : ReadBattery(b)
  BY <1>2, <1>6 DEF ReadBattery, DisplayType, Bridges
<1>7. CASE \E s \in DfuState : DfuStarts(s)
  BY <1>2, <1>7 DEF DfuStarts, DisplayType, Bridges
<1>8. CASE DfuCompletes \/ DfuFails \/ DfuTimesOut \/ DfuResets
  BY <1>2, <1>8 DEF DfuEnds, DfuCompletes, DfuFails, DfuTimesOut, DfuResets,
                        DisplayType, DfuState, Bridges
<1>9. CASE LinkChanges
  BY <1>2, <1>9 DEF LinkChanges, DisplayType, Bridges
<1>10. CASE OnBleAdvertise
  <2>1. PICK seen \in Int, returned \in BOOLEAN :
           bridge' = [bridge EXCEPT !.watch_seen = seen, !.watch_returned_event_ = returned]
    <3>1. /\ (bridge.watch_returned_event_ \/ bridge.watch_seen > AwayTicks) \in BOOLEAN
          /\ 0 \in Int
      OBVIOUS
    <3> QED BY <1>10, <3>1 DEF OnBleAdvertise, DisplayType, Bridges
  <2>2. bridge' \in Bridges
    BY <2>1 DEF DisplayType, Bridges
  <2> QED BY <1>2, <2>2
<1>11. ASSUME NEW s \in Slots, OnAckNotification(s)
       PROVE  bridge' \in Bridges
  <2>1. bridge.api_reminders_[s] \in Messages \cup {NoMessage}
    BY DEF DisplayType, Lists, Bridges
  <2> QED BY <1>11, <2>1 DEF OnAckNotification, DisplayType, Bridges
<1> QED BY <1>2, <1>3, <1>5, <1>6, <1>7, <1>8, <1>9, <1>10, <1>11

LEMMA TickType == ASSUME DisplayType, NEW day \in BOOLEAN, Tick(day) PROVE DisplayType'
<1>1. bridge' \in Bridges
  <2>1. PICK seen : bridge' = [bridge EXCEPT !.watch_returned_event_ = FALSE,
                                   !.ack_event_ = FALSE, !.watch_seen = seen]
                    /\ seen \in Int
    <3>1. (IF bridge.watch_seen = Never THEN Never
           ELSE Later(bridge.watch_seen, AwayTicks + 1)) \in Int
      BY Bounds DEF DisplayType, Later, Never, Bridges
    <3> QED BY <3>1 DEF Tick, DisplayType, Bridges
  <2> QED BY <2>1 DEF DisplayType, Bridges
<1>2. prev' \in Flags
  <2>1. Count(bridge.api_reminders_) \in Nat
    BY CountType DEF DisplayType, Bridges
  <2>2. prev' = [server |-> bridge.server_reachable_,
             battery |-> IF bridge.watch_battery_ > 0 THEN bridge.watch_battery_
                         ELSE prev.battery,
             count |-> Count(bridge.api_reminders_), dfu |-> bridge.dfu,
             connected |-> bridge.ble_connected_]
    BY DEF Tick, RememberFlags
  <2>3. (IF bridge.watch_battery_ > 0 THEN bridge.watch_battery_ ELSE prev.battery) \in Nat
    BY DEF DisplayType, Batteries, Bridges, Flags
  <2> QED BY <2>1, <2>2, <2>3 DEF DisplayType, Bridges, Flags
<1>3. warned' \in 0..WarnTicks \cup {Never} /\ uptime' \in 0..WarnTicks
  <2>1. uptime' = Later(uptime, WarnTicks) /\ uptime \in 0..WarnTicks
        /\ warned \in 0..WarnTicks \cup {Never}
    BY DEF Tick, DisplayType
  <2>2. warned # Never => Later(warned, WarnTicks) \in 0..WarnTicks
    BY <2>1, LaterAge, Bounds
  <2>3. warned' \in {0, Never} \/ (warned # Never /\ warned' = Later(warned, WarnTicks))
    BY DEF Tick, WarningTime
  <2> QED BY <2>1, <2>2, <2>3, LaterAge, Bounds
<1>4. history' \in Histories
  <2>1. /\ Later(history.since, WarnTicks + 2) \in 0..(WarnTicks + 2)
        /\ Later(history.lowFor, WarnTicks + 2) \in 0..(WarnTicks + 2)
        /\ 0 \in 0..(WarnTicks + 2)
    BY LaterAge, Bounds DEF DisplayType, Ages, Histories
  <2> QED BY <2>1 DEF Tick, WarningTime, DisplayType, Ages, Histories
<1>5. shown' \in Events \cup {Status}
  <2>1. TickEvents(day) \in Seq(Events)
    BY TickEventsType
  <2>2. shown' = IF TickEvents(day) = <<>> THEN shown
                 ELSE TickEvents(day)[Len(TickEvents(day))]
    BY DEF Tick, ShowEvents, LastOf
  <2>3. TickEvents(day) # <<>> => TickEvents(day)[Len(TickEvents(day))] \in Events
    BY <2>1, EmptySeq, ElementOfSeq
  <2> QED BY <2>2, <2>3 DEF DisplayType
<1>6. saved_volume' \in 0..100
  BY DEF Tick, DisplayType
<1> QED BY <1>1, <1>2, <1>3, <1>4, <1>5, <1>6 DEF DisplayType

-----------------------------------------------------------------------------
(* The battery warnings.                                                    *)

LEMMA TickWarn ==
  ASSUME DisplayType, WarnInv, NEW day \in BOOLEAN, Tick(day)
  PROVE  WarnInv'
<1> DEFINE w == Warns(day)
<1>1. /\ warned \in 0..WarnTicks \cup {Never} /\ uptime \in 0..WarnTicks
      /\ history.since \in 0..(WarnTicks + 2) /\ history.lowFor \in 0..(WarnTicks + 2)
      /\ WarnTicks \in Nat /\ Never = -1
  BY Bounds DEF DisplayType, Ages, Histories, Never
<1>2. /\ warned' = IF w THEN 0 ELSE IF Low /\ warned # Never THEN Later(warned, WarnTicks)
                   ELSE Never
      /\ history'.since = IF w THEN 0 ELSE Later(history.since, WarnTicks + 2)
      /\ history'.lowFor = IF Low /\ day THEN Later(history.lowFor, WarnTicks + 2) ELSE 0
      /\ history'.recovered = (~w /\ (history.recovered \/ ~Low))
      /\ uptime' = Later(uptime, WarnTicks)
  BY DEF Tick, WarningTime
<1>3. w => Low
  BY DEF Warns
<1>4. ~w /\ Low /\ day => (IF warned = Never THEN uptime ELSE warned) < WarnTicks
  <2>1. ~w /\ Low /\ day => ~((IF warned = Never THEN uptime ELSE warned) + 1 > WarnTicks)
    BY DEF Warns, RepeatDue
  <2> QED BY <1>1, <2>1
<1>5. Low => prev'.battery < 60
  BY DEF Tick, RememberFlags, Low
<1> HIDE DEF w
<1>6. WarnInv!1'
  <2>1. SUFFICES ASSUME warned' = Never PROVE history'.lowFor <= uptime'
    BY DEF WarnInv
  <2>2. CASE Low /\ day
    <3>1. ~w /\ warned = Never
      BY <1>1, <1>2, <2>1, <2>2 DEF Later
    <3>2. uptime < WarnTicks /\ history.lowFor <= uptime
      BY <1>4, <2>2, <3>1 DEF WarnInv
    <3> QED BY <1>1, <1>2, <2>2, <3>2 DEF Later
  <2>3. CASE ~(Low /\ day)
    BY <1>1, <1>2, <2>3 DEF Later
  <2> QED BY <2>2, <2>3
<1>7. WarnInv!2'
  <2>1. SUFFICES ASSUME warned' # Never
                 PROVE  /\ warned' <= history'.since
                        /\ warned' < WarnTicks => history'.since = warned'
                        /\ warned' = WarnTicks =>
                              history'.lowFor = 0 \/ history'.since = warned'
    BY DEF WarnInv
  <2>2. CASE w
    BY <1>1, <1>2, <2>2
  <2>3. CASE ~w
    <3>1. Low /\ warned # Never /\ warned' = Later(warned, WarnTicks)
      BY <1>2, <2>1, <2>3
    <3>2. warned <= history.since /\ (warned < WarnTicks => history.since = warned)
      BY <3>1 DEF WarnInv
    <3>3. history'.since = Later(history.since, WarnTicks + 2)
      BY <1>2, <2>3
    <3>4. warned = WarnTicks => history'.lowFor = 0
      BY <1>1, <1>2, <1>4, <2>3, <3>1
    <3>5. warned \in 0..WarnTicks
      BY <1>1, <3>1
    <3> QED BY <1>1, <3>1, <3>2, <3>3, <3>4, <3>5 DEF Later
  <2> QED BY <2>2, <2>3
<1>8. WarnInv!3'
  <2>1. SUFFICES ASSUME ~history'.recovered PROVE warned' # Never /\ prev'.battery < 60
    BY DEF WarnInv
  <2>2. w \/ (~history.recovered /\ Low)
    BY <1>2, <2>1
  <2>3. CASE w
    BY <1>1, <1>2, <1>3, <1>5, <2>3
  <2>4. CASE ~w /\ ~history.recovered /\ Low
    BY <1>1, <1>2, <1>5, <2>4 DEF WarnInv, Later
  <2> QED BY <2>2, <2>3, <2>4
<1>9. NotNagged'
  <2>1. history'.gap = IF Warns(day) /\ ~history.recovered
                       THEN Later(history.since, WarnTicks + 2) ELSE history.gap
    BY DEF Tick, WarningTime
  <2>2. CASE Warns(day) /\ ~history.recovered
    <3>1. warned # Never /\ prev.battery < 60 /\ warned <= history.since
      BY <2>2 DEF WarnInv
    <3>2. prev.battery \in Nat
      BY DEF DisplayType, Flags
    <3>3. ~Crossed
      BY <3>1, <3>2 DEF Crossed
    <3>4. warned + 1 > WarnTicks
      BY <2>2, <3>1, <3>3 DEF Warns, RepeatDue
    <3>5. Later(history.since, WarnTicks + 2) > WarnTicks
      BY <1>1, <3>1, <3>4 DEF Later
    <3> QED BY <2>1, <2>2, <3>5 DEF NotNagged
  <2>3. CASE ~(Warns(day) /\ ~history.recovered)
    BY <2>1, <2>3 DEF WarnInv, NotNagged
  <2> QED BY <2>2, <2>3
<1> QED BY <1>6, <1>7, <1>8, <1>9 DEF WarnInv

-----------------------------------------------------------------------------
(* The speaker.                                                             *)

LEMMA TonesOfEvents ==
  ASSUME NEW events \in Seq(Events)
  PROVE  /\ [i \in DOMAIN events |-> events[i].kind] \in Seq(DOMAIN ToneOf)
         /\ Len([i \in DOMAIN events |-> events[i].kind]) = Len(events)
         /\ events # <<>> => /\ [i \in DOMAIN events |-> events[i].kind] # <<>>
                             /\ [i \in DOMAIN events |-> events[i].kind][Len(events)] =
                                    events[Len(events)].kind
         /\ events = <<>> => [i \in DOMAIN events |-> events[i].kind] = <<>>
<1> DEFINE kinds == [i \in DOMAIN events |-> events[i].kind]
<1>1. /\ Len(events) \in Nat /\ DOMAIN events = 1..Len(events)
      /\ \A i \in 1..Len(events) : events[i] \in Events
  BY LenProperties, ElementOfSeq
<1>2. kinds \in [1..Len(events) -> DOMAIN ToneOf]
  BY <1>1 DEF Events
<1>3. kinds \in Seq(DOMAIN ToneOf) /\ Len(kinds) = Len(events)
  BY <1>1, <1>2
<1>4. events # <<>> => Len(events) \in Nat \ {0}
  BY EmptySeq
<1>5. events # <<>> => kinds[Len(events)] = events[Len(events)].kind
  BY <1>1, <1>4
<1> HIDE DEF kinds
<1>6. events # <<>> => kinds # <<>>
  BY <1>3, <1>4, EmptySeq
<1>7. events = <<>> => kinds = <<>>
  BY <1>3, EmptySeq
<1> QED BY <1>3, <1>5, <1>6, <1>7 DEF kinds

\* New tasks queue up behind the others; the last of them has the tone of the last event.
LEMMA PlaysLast ==
  ASSUME SpeakerType, NEW kinds \in Seq(DOMAIN ToneOf)
  PROVE  /\ waiting \o Spawned(kinds) \in Seq(Tasks)
         /\ kinds = <<>> => waiting \o Spawned(kinds) = waiting
         /\ kinds # <<>> /\ ~(Len(Spawned(kinds)) < Len(kinds)) =>
               /\ waiting \o Spawned(kinds) # <<>>
               /\ (waiting \o Spawned(kinds))[Len(waiting \o Spawned(kinds))].tone =
                      ToneOf[kinds[Len(kinds)]]
<1>1. waiting \in Seq(Tasks) /\ Spawned(kinds) \in Seq(Tasks)
  BY SpawnedType DEF SpeakerType
<1>2. kinds = <<>> => waiting \o Spawned(kinds) = waiting
  BY <1>1, SpawnedType, Concatenated
<1>3. ASSUME kinds # <<>>, ~(Len(Spawned(kinds)) < Len(kinds))
      PROVE  /\ waiting \o Spawned(kinds) # <<>>
             /\ (waiting \o Spawned(kinds))[Len(waiting \o Spawned(kinds))].tone =
                    ToneOf[kinds[Len(kinds)]]
  <2>1. /\ Spawned(kinds) # <<>>
        /\ Spawned(kinds)[Len(Spawned(kinds))].tone = ToneOf[kinds[Len(kinds)]]
    BY <1>3, SpawnedType
  <2> QED BY <1>1, <2>1, Concatenated
<1> QED BY <1>1, <1>2, <1>3, Concatenated

LEMMA TickTone ==
  ASSUME DisplayType, SpeakerType, ToneInv, NEW day \in BOOLEAN, Tick(day)
  PROVE  SpeakerType' /\ ToneInv'
<1> DEFINE events == TickEvents(day)
           kinds == [i \in DOMAIN events |-> events[i].kind]
<1>1. events \in Seq(Events)
  BY TickEventsType
<1>2. /\ shown' = IF events = <<>> THEN shown ELSE events[Len(events)]
      /\ waiting' = waiting \o Spawned(kinds)
      /\ skipped' = IF kinds = <<>> THEN skipped ELSE Len(Spawned(kinds)) < Len(kinds)
      /\ UNCHANGED <<codec, volume_, heard>>
  BY DEF Tick, ShowEvents, PlayEventTones, LastOf
<1> HIDE DEF events
<1>3. /\ kinds \in Seq(DOMAIN ToneOf) /\ Len(kinds) = Len(events)
      /\ events # <<>> => kinds # <<>> /\ kinds[Len(events)] = events[Len(events)].kind
      /\ events = <<>> => kinds = <<>>
  BY <1>1, TonesOfEvents
<1> HIDE DEF kinds
<1>4. waiting' \in Seq(Tasks) /\ (kinds = <<>> => waiting' = waiting)
  BY <1>2, <1>3, PlaysLast
<1>5. skipped' \in BOOLEAN
  <2>1. CASE kinds = <<>>
    BY <1>2, <2>1 DEF SpeakerType
  <2>2. CASE kinds # <<>>
    <3>1. skipped' = (Len(Spawned(kinds)) < Len(kinds))
      BY <1>2, <2>2
    <3> QED BY <3>1
  <2> QED BY <2>1, <2>2
<1>6. SpeakerType'
  BY <1>2, <1>4, <1>5 DEF SpeakerType
<1>7. CASE events = <<>>
  BY <1>2, <1>3, <1>4, <1>6, <1>7 DEF ToneInv
<1>8. CASE events # <<>>
  <2>1. SUFFICES ASSUME ~skipped' PROVE ToneInv'
    BY <1>6 DEF ToneInv
  <2>2. ~(Len(Spawned(kinds)) < Len(kinds)) /\ kinds # <<>>
    BY <1>2, <1>3, <1>8, <2>1
  <2>3. waiting' # <<>> /\ waiting'[Len(waiting')].tone = ToneOf[kinds[Len(kinds)]]
    BY <1>2, <1>3, <2>2, PlaysLast
  <2>4. shown'.kind = kinds[Len(kinds)]
    BY <1>2, <1>3, <1>8
  <2> QED BY <1>6, <2>3, <2>4 DEF ToneInv
<1> QED BY <1>7, <1>8, <1>6

LEMMA SwipeTone ==
  ASSUME SpeakerType, NEW v \in 0..100, Swipe(v)
  PROVE  SpeakerType' /\ ToneInv'
<1> DEFINE kinds == <<"volume">>
<1>1. kinds \in Seq(DOMAIN ToneOf) /\ Len(kinds) = 1 /\ kinds[Len(kinds)] = "volume"
      /\ kinds # <<>>
  BY DEF ToneOf
<1>2. /\ shown' = Event("volume") /\ waiting' = waiting \o Spawned(kinds)
      /\ skipped' = (Spawned(kinds) = <<>>) /\ volume_' = v /\ UNCHANGED codec
  BY DEF Swipe
<1> HIDE DEF kinds
<1>3. SpeakerType'
  <2>1. waiting' \in Seq(Tasks)
    BY <1>1, <1>2, PlaysLast
  <2>2. skipped' \in BOOLEAN
    BY <1>2
  <2> QED BY <1>2, <2>1, <2>2 DEF SpeakerType
<1>4. SUFFICES ASSUME ~skipped' PROVE ToneInv'
  BY <1>3 DEF ToneInv
<1>5. Spawned(kinds) \in Seq(Tasks) /\ Spawned(kinds) # <<>>
  BY <1>1, <1>2, <1>4, SpawnedType
<1>6. ~(Len(Spawned(kinds)) < Len(kinds))
  <2>1. Len(Spawned(kinds)) \in Nat \ {0}
    BY <1>5, EmptySeq
  <2> QED BY <1>1, <2>1
<1>7. waiting' # <<>> /\ waiting'[Len(waiting')].tone = ToneOf["volume"]
  BY <1>1, <1>2, <1>6, PlaysLast
<1> QED BY <1>2, <1>7 DEF ToneInv, Event

\* The task at the head leaves, the last one stays the last.
LEMMA TailTasks ==
  ASSUME NEW q \in Seq(Tasks), q # <<>>
  PROVE  /\ Passed(Tail(q)) \in Seq(Tasks) /\ Tail(q) \in Seq(Tasks)
         /\ Head(q) = q[1]
         /\ Passed(Tail(q)) = <<>> => Len(q) = 1
         /\ Passed(Tail(q)) # <<>> =>
                Passed(Tail(q))[Len(Passed(Tail(q)))].tone = q[Len(q)].tone
<1> DEFINE r == Tail(q)
           p == Passed(r)
<1>1. /\ r \in Seq(Tasks) /\ Len(r) = Len(q) - 1 /\ Head(q) = q[1]
      /\ \A i \in 1..Len(r) : r[i] = q[i + 1]
      /\ Len(q) \in Nat \ {0} /\ DOMAIN r = 1..Len(r) /\ Len(r) \in Nat
  BY EmptySeq, LenProperties, HeadTailProperties
<1> HIDE DEF r
<1>2. \A i \in 1..Len(r) : r[i] \in Tasks /\ [r[i] EXCEPT !.passed = TRUE] \in Tasks
                           /\ [r[i] EXCEPT !.passed = TRUE].tone = r[i].tone
  <2>1. \A i \in 1..Len(r) : r[i] \in Tasks
    BY <1>1, ElementOfSeq
  <2> QED BY <2>1 DEF Tasks
<1>3. p = [i \in 1..Len(r) |-> [r[i] EXCEPT !.passed = TRUE]]
  BY <1>1 DEF Passed
<1>4. p \in Seq(Tasks) /\ Len(p) = Len(r) /\ \A i \in 1..Len(r) : p[i].tone = r[i].tone
  <2>1. p \in [1..Len(r) -> Tasks]
    BY <1>2, <1>3
  <2>2. p \in Seq(Tasks) /\ Len(p) = Len(r)
    BY <1>1, <2>1
  <2> QED BY <1>2, <1>3, <2>2
<1> HIDE DEF p
<1>5. p = <<>> => Len(q) = 1
  <2>1. p = <<>> => Len(r) = 0
    BY <1>4, EmptySeq
  <2> QED BY <1>1, <2>1
<1>6. ASSUME p # <<>> PROVE p[Len(p)].tone = q[Len(q)].tone
  <2>1. Len(p) \in Nat \ {0}
    BY <1>4, <1>6, EmptySeq
  <2>2. Len(r) \in 1..Len(r) /\ Len(r) + 1 = Len(q)
    BY <1>1, <1>4, <2>1
  <2>3. p[Len(r)].tone = r[Len(r)].tone /\ r[Len(r)] = q[Len(r) + 1]
    BY <1>1, <1>4, <2>2
  <2> QED BY <1>4, <2>2, <2>3
<1> QED BY <1>1, <1>4, <1>5, <1>6 DEF r, p

LEMMA SpeakerTone ==
  ASSUME SpeakerType, ToneInv, SpeakerNext, UNCHANGED shown
  PROVE  SpeakerType' /\ ToneInv'
<1>1. waiting \in Seq(Tasks) /\ codec \in BOOLEAN /\ volume_ \in 0..100
  BY DEF SpeakerType
<1>2. CASE TakesMutex
  <2>1. /\ waiting # <<>> /\ waiting' = Passed(Tail(waiting))
        /\ heard' = IF codec /\ volume_ > 0 THEN Head(waiting).tone ELSE "none"
        /\ UNCHANGED <<codec, volume_, skipped>>
    BY <1>2 DEF TakesMutex, Plays
  <2>2. /\ waiting' \in Seq(Tasks) /\ Head(waiting) = waiting[1]
        /\ waiting' = <<>> => Len(waiting) = 1
        /\ waiting' # <<>> => waiting'[Len(waiting')].tone = waiting[Len(waiting)].tone
    BY <1>1, <2>1, TailTasks
  <2>3. SpeakerType'
    BY <1>1, <2>1, <2>2 DEF SpeakerType
  <2>4. SUFFICES ASSUME shown' # Status, ~skipped'
                 PROVE  IF waiting' # <<>> THEN waiting'[Len(waiting')].tone = ToneOf[shown'.kind]
                        ELSE codec' /\ volume_' > 0 => heard' = ToneOf[shown'.kind]
    BY <2>3 DEF ToneInv
  <2>5. waiting[Len(waiting)].tone = ToneOf[shown'.kind]
    BY <2>1, <2>4 DEF ToneInv
  <2>6. CASE waiting' # <<>>
    BY <2>2, <2>5, <2>6
  <2>7. CASE waiting' = <<>>
    <3>1. Head(waiting).tone = ToneOf[shown'.kind]
      BY <2>2, <2>5, <2>7
    <3> QED BY <2>1, <2>7, <3>1
  <2> QED BY <2>6, <2>7
<1>3. CASE MallocFails
  <2>1. waiting # <<>> /\ waiting' = Tail(waiting) /\ skipped' = TRUE
        /\ UNCHANGED <<codec, volume_>>
    BY <1>3 DEF MallocFails
  <2>2. waiting' \in Seq(Tasks)
    BY <1>1, <2>1, TailTasks
  <2> QED BY <1>1, <2>1, <2>2 DEF SpeakerType, ToneInv
<1>4. CASE Finishes
  BY <1>4 DEF Finishes, SpeakerType, ToneInv
<1>5. ASSUME NEW i \in DOMAIN waiting, TakeTimesOut(i) PROVE SpeakerType' /\ ToneInv'
  <2>1. /\ waiting' = [j \in 1..(Len(waiting) - 1) |-> waiting[IF j < i THEN j ELSE j + 1]]
        /\ skipped' = TRUE /\ UNCHANGED <<codec, volume_>>
    BY <1>5 DEF TakeTimesOut
  <2>2. /\ DOMAIN waiting = 1..Len(waiting) /\ Len(waiting) \in Nat
        /\ \A j \in 1..Len(waiting) : waiting[j] \in Tasks
    BY <1>1, LenProperties, ElementOfSeq
  <2>3. Len(waiting) - 1 \in Nat
    BY <2>2
  <2>4. waiting' \in [1..(Len(waiting) - 1) -> Tasks]
    BY <2>1, <2>2
  <2>5. waiting' \in Seq(Tasks)
    BY <2>3, <2>4
  <2> QED BY <1>1, <2>1, <2>5 DEF SpeakerType, ToneInv
<1> QED BY <1>2, <1>3, <1>4, <1>5 DEF SpeakerNext

-----------------------------------------------------------------------------
(* The invariant.                                                           *)

LEMMA InitIInv == Init => IInv
<1> SUFFICES ASSUME Init PROVE IInv
  OBVIOUS
<1>1. DisplayType /\ SpeakerType
  BY InitType
<1>2. WarnInv
  BY Bounds DEF Init, WarnInv, NotNagged, NoWarning
<1>3. ToneInv
  BY DEF Init, ToneInv
<1> QED BY <1>1, <1>2, <1>3 DEF IInv

LEMMA RebootStep == ASSUME IInv, Reboots PROVE IInv'
<1>1. /\ bridge' = BridgeAtBoot /\ prev' = PrevAtBoot /\ warned' = Never /\ shown' = Status
      /\ uptime' = 0 /\ history' = NoWarning /\ UNCHANGED saved_volume
  BY DEF Reboots
<1>2. DisplayType'
  BY <1>1, BootType, Bounds DEF IInv, DisplayType
<1>3. volume_' \in 0..100
  BY Volumes DEF Reboots, SpeakerBoots, IInv, DisplayType
<1>4. codec' \in BOOLEAN
  BY DEF Reboots, SpeakerBoots, CodecStarts
<1>5. SpeakerType'
  BY <1>3, <1>4, EmptySeq DEF Reboots, SpeakerBoots, SpeakerType
<1>6. WarnInv'
  BY <1>1, Bounds DEF WarnInv, NotNagged, NoWarning
<1> QED BY <1>1, <1>2, <1>5, <1>6 DEF IInv, ToneInv

LEMMA RestStep ==
  ASSUME WarnInv, ToneInv, DisplayRests, UNCHANGED speakerVars
  PROVE  WarnInv' /\ ToneInv'
BY DEF WarnInv, NotNagged, ToneInv, DisplayRests, displayVars, speakerVars, taskVars

LEMMA NextKeeps == ASSUME IInv, [Next]_vars PROVE IInv'
<1>0. DisplayType /\ SpeakerType /\ WarnInv /\ ToneInv
  BY DEF IInv
<1>1. CASE \/ PollFails \/ \E list \in Lists : PollSucceeds(list)
           \/ \E b \in Batteries : ReadBattery(b)
           \/ \E s \in DfuState : DfuStarts(s)
           \/ DfuCompletes \/ DfuFails \/ DfuTimesOut \/ DfuResets
           \/ LinkChanges \/ OnBleAdvertise
           \/ \E s \in Slots : OnAckNotification(s)
  <2>1. DisplayType' /\ DisplayRests /\ UNCHANGED speakerVars
    BY <1>0, <1>1, ChangeType
  <2>2. SpeakerType'
    BY <1>0, <2>1 DEF SpeakerType, speakerVars, taskVars
  <2> QED BY <1>0, <2>1, <2>2, RestStep DEF IInv
<1>2. ASSUME NEW day \in BOOLEAN, Tick(day) PROVE IInv'
  BY <1>0, <1>2, TickType, TickWarn, TickTone DEF IInv
<1>3. CASE Dismiss
  <2>1. UNCHANGED <<bridge, prev, warned, history, saved_volume, speakerVars, uptime>>
        /\ shown' = Status
    BY <1>3 DEF Dismiss
  <2> QED BY <1>0, <2>1
          DEF IInv, DisplayType, SpeakerType, WarnInv, NotNagged, ToneInv, speakerVars,
              taskVars
<1>4. ASSUME NEW v \in 0..100, Swipe(v) PROVE IInv'
  <2>1. SpeakerType' /\ ToneInv'
    BY <1>0, <1>4, SwipeTone
  <2>2. Event("volume") \in Events
    BY EventType DEF ToneOf
  <2>3. shown' \in Events /\ saved_volume' \in 0..100
        /\ UNCHANGED <<bridge, prev, warned, history, uptime>>
    BY <1>4, <2>2 DEF Swipe
  <2> QED BY <1>0, <2>1, <2>3 DEF IInv, DisplayType, WarnInv, NotNagged
<1>5. CASE Reboots
  BY <1>5, RebootStep
<1>6. CASE SpeakerSteps
  <2>1. SpeakerNext /\ UNCHANGED <<bridge, prev, warned, shown, history, saved_volume, uptime>>
    BY <1>6 DEF SpeakerSteps, displayVars
  <2>2. SpeakerType' /\ ToneInv'
    BY <1>0, <2>1, SpeakerTone
  <2> QED BY <1>0, <2>1, <2>2 DEF IInv, DisplayType, WarnInv, NotNagged
<1>7. CASE UNCHANGED vars
  BY <1>0, <1>7 DEF vars, displayVars, speakerVars, taskVars, IInv, DisplayType,
                    SpeakerType, WarnInv, NotNagged, ToneInv
<1>8. VolumeUp(volume_) \in 0..100 /\ VolumeDown(volume_) \in 0..100
  BY <1>0, Volumes DEF SpeakerType
<1> QED BY <1>1, <1>2, <1>3, <1>4, <1>5, <1>6, <1>7, <1>8 DEF Next

LEMMA InvariantHolds == Spec => []IInv
<1>1. IInv /\ [Next]_vars => IInv'
  BY NextKeeps
<1> QED BY <1>1, InitIInv, PTL DEF Spec

-----------------------------------------------------------------------------
(* The theorems.                                                            *)

\* A battery that has been low for an hour of daytime and one interval more has been
\* warned about within the last hour and an interval, also when the bridge booted in
\* between and last_battery_warn_ms was 0 (pinetime-bridge.yaml:849-862).
THEOREM AlwaysWarnedHourly == Spec => []WarnedHourly
<1>1. IInv => WarnedHourly
  <2> SUFFICES ASSUME IInv, history.lowFor > WarnTicks + 1
               PROVE  history.since <= WarnTicks + 1
    BY DEF WarnedHourly
  <2>1. /\ warned \in 0..WarnTicks \cup {Never} /\ uptime \in 0..WarnTicks
        /\ history.since \in Nat /\ history.lowFor \in Nat /\ WarnTicks \in Nat
    BY Bounds DEF IInv, DisplayType, Ages, Histories
  <2>2. warned # Never
    BY <2>1 DEF IInv, WarnInv
  <2> QED BY <2>1, <2>2 DEF IInv, WarnInv
<1> QED BY <1>1, InvariantHolds, PTL

\* Between two warnings there is more than an hour, or an interval at which the battery
\* was not low: neither the crossing of 60 % nor the repetition warns again before
\* (pinetime-bridge.yaml:849-862).
THEOREM NeverNagged == Spec => []NotNagged
<1>1. IInv => NotNagged
  BY DEF IInv, WarnInv
<1> QED BY <1>1, InvariantHolds, PTL

\* However tasks queue up, time out and fail, a quiet speaker has last played the tone of
\* the event shown, unless a tone was given up (bridge_speaker.h:126-177).
THEOREM AlwaysHeardWhatIsShown == Spec => []HeardWhatIsShown
<1>1. IInv => HeardWhatIsShown
  BY DEF IInv, ToneInv, HeardWhatIsShown, Quiet
<1> QED BY <1>1, InvariantHolds, PTL
=============================================================================
