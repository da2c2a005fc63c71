----------------------------- MODULE BridgeStatus -----------------------------
(***************************************************************************)
(* The timers of loop() and what they send to the server: the poll, the    *)
(* list of discovered watches and the heartbeat, with the rows the server  *)
(* keeps of them (pinetime_bridge.cpp:97-262, 797-854, 1159-1185,          *)
(* handlers.go:382-404, sqlite.go:275-302).                                *)
(*                                                                         *)
(* Time passes in ticks; millis() wraps around.  loop() runs many times in *)
(* a tick, and one action stands for the iterations of a tick; an          *)
(* iteration whose requests are answered slowly makes it a longer one.     *)
(***************************************************************************)
EXTENDS Integers, FiniteSets

CONSTANTS
    Word,          \* ticks after which millis() wraps around: 2^32 ms in the code
    Interval,      \* 60 s in the code
    FirstPoll,     \* the first poll after the boot: 10 s in the code
    BackDated,     \* age of the last heartbeat at the boot: 280 s in the code
    OfflineAfter,  \* 90 s in the code
    MaxBlock,      \* ticks that one iteration may take
    Watches,       \* watches that may be near
    MaxEvents      \* bound: faults and changes of the surroundings

ASSUME StatusAssumption ==
    /\ Interval \in Nat \ {0} /\ FirstPoll \in 0..Interval /\ BackDated \in Nat
    /\ Word \in Nat /\ Word > 2 * Interval + MaxBlock /\ BackDated < Word
    /\ OfflineAfter \in Nat /\ MaxBlock \in Nat \ {0}
    /\ IsFiniteSet(Watches) /\ MaxEvents \in Nat

VARIABLES
    clock,       \* millis()
    last,        \* last_poll_ms_, last_heartbeat_ms_, last_discovery_post_ms_
    link,        \* ble_connected_, and whether its services have been searched
    reading,     \* the read of the firmware revision is under way
    firmware,    \* watch_firmware_; 0 is the empty string
    discovered,  \* discovered_watches_: ticks since w was last seen, or Gone
    dfu,         \* an update is active
    watchFw,     \* external: the version on the watch
    row,         \* the server's row of bridge_status
    posted,      \* the server's list of discovered watches
    heard,       \* ticks since the server's lastHeartbeat, or Never
    sincePoll,   \* history: ticks without a poll or an update
    forced,      \* history: ticks since a poll was to be forced, or Never
    gap,         \* history: the server missed a heartbeat since the last one
    readLost,    \* history: the last link brought no firmware revision
    clearLost,   \* history: a POST of an emptied list was lost
    events       \* bound counter

bridgeVars == <<clock, last, link, reading, firmware, discovered, dfu>>
serverVars == <<row, posted, heard>>
historyVars == <<sincePoll, forced, gap, readLost, clearLost>>
vars == <<bridgeVars, watchFw, serverVars, historyVars, events>>

Never == -1
Gone == -1
LongGap == 2 * (Interval + MaxBlock) - 1
Later(age, d, limit) ==
    IF age = Never THEN Never ELSE IF age + d > limit THEN limit ELSE age + d
Happens == events < MaxEvents /\ events' = events + 1

\* setup: the differences are unsigned.
SetupAt(ticks) == (0 - ticks) % Word
LastAtBoot ==
    [poll |-> SetupAt(Interval - FirstPoll), heartbeat |-> SetupAt(BackDated), list |-> 0]
NoWatches == [w \in Watches |-> Gone]

Init ==
    /\ clock = 0 /\ last = LastAtBoot /\ link = "down" /\ reading = FALSE
    /\ firmware = 0 /\ discovered = NoWatches /\ dfu = FALSE /\ watchFw = 1
    /\ row = [connected |-> FALSE, firmware |-> 0] /\ posted = {} /\ heard = Never
    /\ sincePoll = 0 /\ forced = Never /\ gap = TRUE
    /\ readLost = FALSE /\ clearLost = FALSE /\ events = 0

-----------------------------------------------------------------------------
\* loop().

\* now - last > interval, on uint32_t.
ElapsedSigned(since) == clock - since
Elapsed(since) == (clock - since) % Word
Due(since) == ~dfu /\ Elapsed(since) >= Interval

\* The server keeps what a heartbeat leaves empty.
Upserted(b) == [b EXCEPT !.firmware = IF b.firmware # 0 THEN @ ELSE row.firmware]

\* send_heartbeat_ and UpdateBridgeStatus.
Heartbeat(lost, d) ==
    IF Due(last.heartbeat) /\ ~lost
    THEN /\ row' = Upserted([connected |-> link # "down", firmware |-> firmware])
         /\ heard' = d /\ gap' = FALSE
    ELSE /\ row' = row /\ heard' = Later(heard, d, OfflineAfter + 1)
         /\ gap' = (gap \/ dfu \/ Due(last.heartbeat))

\* post_discovered_watches_: an empty list is not posted, but one that has just been
\* emptied is.
Fresh == {w \in Watches : discovered[w] \in 0..Interval}
PostsListAfter == Due(last.list) /\ Fresh # {}
PostsList == Due(last.list) /\ discovered # NoWatches
PostDiscovered(lost, d) ==
    /\ discovered' = [w \in Watches |->
           IF PostsList /\ w \notin Fresh THEN Gone
           ELSE Later(discovered[w], d, Interval + 1)]
    /\ posted' = IF PostsList /\ ~lost THEN Fresh ELSE posted
    /\ clearLost' = IF PostsList THEN lost /\ Fresh = {} ELSE clearLost

Poll(d) ==
    /\ sincePoll' = IF dfu THEN 0 ELSE IF Due(last.poll) THEN d
                  ELSE Later(sincePoll, d, LongGap)
    /\ forced' = IF Due(last.poll) \/ dfu THEN Never ELSE Later(forced, d, LongGap)

\* What is due is done, then d ticks have passed.
Restarted(since) == IF Due(since) THEN clock ELSE since
Loop(d, heartbeatLost, listLost) ==
    /\ IF d > 1 \/ heartbeatLost \/ listLost THEN Happens ELSE UNCHANGED events
    /\ Poll(d) /\ PostDiscovered(listLost, d) /\ Heartbeat(heartbeatLost, d)
    /\ last' = [t \in DOMAIN last |-> Restarted(last[t])]
    /\ clock' = (clock + d) % Word
    /\ UNCHANGED <<link, reading, firmware, dfu, watchFw, readLost>>

-----------------------------------------------------------------------------
\* The watch: OPEN_EVT, of a link that the bridge opened for itself or for an update.
OpenEvt ==
    /\ link = "down" /\ link' = "open"
    /\ UNCHANGED <<clock, last, reading, firmware, discovered, dfu, watchFw, serverVars,
                   historyVars, events>>

ForcePollFromNow == [last EXCEPT !.poll = clock]
ForcePoll == [last EXCEPT !.poll = 0]
ReadOnce == firmware = 0
ReadFirmware == TRUE
\* SEARCH_CMPL_EVT reads the device information; it means to force a poll if it comes to
\* the reminder service and finds it.  An update that finds its own service ends before.
DiscoverServices(reminders) ==
    /\ link = "open" /\ link' = "searched"
    /\ reading' = ReadFirmware /\ readLost' = FALSE
    /\ IF reminders THEN last' = ForcePoll /\ forced' = 0 ELSE UNCHANGED <<last, forced>>
    /\ UNCHANGED <<clock, firmware, discovered, dfu, watchFw, serverVars, sincePoll, gap,
                   clearLost, events>>

ReadCharEvt(ok) ==
    /\ reading /\ reading' = FALSE
    /\ IF ok THEN firmware' = watchFw /\ UNCHANGED <<readLost, events>>
       ELSE Happens /\ readLost' = TRUE /\ UNCHANGED firmware
    /\ UNCHANGED <<clock, last, link, discovered, dfu, watchFw, serverVars, sincePoll,
                   forced, gap, clearLost>>

LinkGoesDown == link' = "down" /\ reading' = FALSE /\ readLost' = (readLost \/ reading)
DisconnectEvt ==
    /\ link # "down" /\ Happens /\ LinkGoesDown
    /\ UNCHANGED <<clock, last, firmware, discovered, dfu, watchFw, serverVars, sincePoll,
                   forced, gap, clearLost>>

\* The list part of on_ble_advertise.
OnBleAdvertise(w) ==
    /\ Happens /\ discovered' = [discovered EXCEPT ![w] = 0]
    /\ UNCHANGED <<clock, last, link, reading, firmware, dfu, watchFw, serverVars,
                   historyVars>>

\* An update, during which loop() returns early; the watch resets after a good one.
DfuStarts ==
    /\ ~dfu /\ Happens /\ dfu' = TRUE
    /\ UNCHANGED <<clock, last, link, reading, firmware, discovered, watchFw, serverVars,
                   historyVars>>
DfuEnds(ok) ==
    /\ dfu /\ dfu' = FALSE
    /\ IF ok THEN link = "searched" /\ watchFw' = 2 /\ LinkGoesDown
       ELSE UNCHANGED <<link, reading, readLost, watchFw>>
    /\ UNCHANGED <<clock, last, firmware, discovered, serverVars, sincePoll, forced, gap,
                   clearLost, events>>

BridgeReboots ==
    /\ Happens /\ clock' = 0 /\ last' = LastAtBoot /\ link' = "down" /\ reading' = FALSE
    /\ firmware' = 0 /\ discovered' = NoWatches /\ dfu' = FALSE
    /\ sincePoll' = 0 /\ forced' = Never /\ clearLost' = (clearLost \/ posted # {})
    /\ UNCHANGED <<watchFw, serverVars, gap, readLost>>

\* The rows are in the database, the rest is in memory.
ServerRestarts ==
    /\ Happens /\ posted' = {} /\ heard' = Never /\ gap' = TRUE
    /\ UNCHANGED <<bridgeVars, watchFw, row, sincePoll, forced, readLost, clearLost>>

Next ==
    \/ \E d \in 1..MaxBlock, h, l \in BOOLEAN : Loop(d, h, l)
    \/ OpenEvt \/ DisconnectEvt
    \/ \E reminders \in BOOLEAN : DiscoverServices(reminders)
    \/ \E ok \in BOOLEAN : ReadCharEvt(ok) \/ DfuEnds(ok)
    \/ \E w \in Watches : OnBleAdvertise(w)
    \/ DfuStarts \/ BridgeReboots \/ ServerRestarts

Spec == Init /\ [][Next]_vars

\* loop() runs, the stack answers, and an update ends (its timeout sees to that).
Fairness ==
    /\ WF_vars(Loop(1, FALSE, FALSE))
    /\ WF_vars(\E reminders \in BOOLEAN : DiscoverServices(reminders))
    /\ WF_vars(ReadCharEvt(TRUE)) /\ WF_vars(DfuEnds(FALSE))
FairSpec == Spec /\ Fairness

-----------------------------------------------------------------------------
\* Properties.

\* However often links come and go and the clock wraps around: without an update, two
\* polls are never as much as two intervals and two slow iterations apart
\* (pinetime_bridge.cpp:180,616).
PollsKeepComing == sincePoll < LongGap

\* "Force a poll" (pinetime_bridge.cpp:615) does so in the next iteration, except in the
\* first interval after a boot and after the clock has wrapped around.
ForcedPollComes == forced >= MaxBlock => clock < Interval + MaxBlock

\* "Bridge came online" (handlers.go:396-400) is logged only after a boot of the server
\* or a heartbeat that it did not get, although the threshold is that of heartbeats
\* twice as frequent.
CameOnlineAfterOne == heard = Never \/ heard > Interval
CameOnline == heard = Never \/ heard > OfflineAfter
OnlineMeansGap == CameOnline => gap

\* Once nothing changes any more, the row tells the state of the link and, if it is up
\* and was read, the firmware on the watch (pinetime_bridge.cpp:1165-1181, sqlite.go:281).
RowSettles ==
    <>[](row.connected = (link # "down")
         /\ (link = "searched" => row.firmware = watchFw \/ readLost))

\* A watch that no longer advertises disappears from the page, unless the one POST that
\* says so is lost or the bridge restarts before it (pinetime_bridge.cpp:832).
ForgottenOrLost == <>[](posted = {} \/ clearLost)
=============================================================================
