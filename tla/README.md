# Formal models of the PineTime bridge

TLA+ models of the ESP32 bridge and of the server in this repository, TLC
configurations that check them on small instances, and proofs that TLAPS checks.
Paths such as `cpp:281` abbreviate
`src/esphome/components/pinetime_bridge/pinetime_bridge.cpp`, `dfu:234` the
`dfu_client.cpp` beside it, `handlers.go`, `sqlite.go`, `models.go` the files of
`src/server`, `index.html` its page, `speaker` the `bridge_speaker.h` and `yaml`
`src/esphome/pinetime-bridge.yaml`.

## The system

```
 web page --HTTP--> server (Go, SQLite) <--HTTP, polled-- bridge (ESP32) <--BLE GATT--> watch (InfiniTime fork)
```

The server keeps reminders, notifications, acknowledgements, pairing entries,
firmware files and the bridge's status.  The bridge polls it and mirrors the
enabled reminders to one watch, over a BLE connection that it keeps open.  In the
bridge everything runs on one task, in `loop()` and in GATT callbacks that
ESPHome queues to the same task; only the GAP callback runs on the Bluetooth task.
An HTTP request blocks the main task until it is answered or fails, and no GATT
event is handled meanwhile.

### Inventory

| component | state | operations | interacts with |
|---|---|---|---|
| Reminder sync (`cpp:123-262, 264-442, 452-661, 1001-1157`) | `api_reminders_`, `last_sync_hash_`, `command_queue_`, `ble_busy_`, `pending_writes_`, handles, connection flags | poll, sync, drain the queue, confirmation, discovery, disconnect, periodic refresh | reads the server, writes to the watch, suspended by the DFU |
| DFU client (`dfu_client.cpp`, `cpp:126-178`) | `state_`, image buffers, `bytes_sent_`, receipt window, `dfu_start_ms_`, `post_dfu_` | download, start, control-point notifications, chunks, timeout, grace period | started from the pairing entry; takes over discovery; suspends everything else |
| Pairing (`cpp:66-95, 239-255, 856-957`, `handlers.go:590-651`, `index.html:1071-1173`) | the entry on the server; GAP flags; `pairing_in_progress_`, `paired_address_` and its NVS copy; the page's panel | select, poll, passkey, authentication, reconnection, restore | page, server, loop(), Bluetooth task |
| Notifications and acks (`cpp:1056-1093, 1227-1285`, `handlers.go:289-378`, `sqlite.go:241-260, 343-378`) | `notifications`, `reminder_acks`; nothing on the bridge | create, list, write, mark; ack | the server's queue, the link |
| Server reminders (`handlers.go:195-287`, `sqlite.go:188-237`) | `reminders` table | create (with slot allocation), update, delete, list | page and bridge |
| Firmware files (`handlers.go:441-567`) | `firmware.bin`, `.dat`, version | upload, download | DFU client |
| Heartbeat and status (`cpp:97-262, 1159-1185`, `handlers.go:382-404`, `sqlite.go:275-302`) | the `last_*_ms_` timers; the row of the bridge, the map of last heartbeats | POST each 60 s, silence threshold 90 s | clocks of two machines, the watch's device information |
| Event display (`yaml:660-908`) | previous flags, time of the last warning, the event shown | edge detection every 10 s, dismissal after 30 s, volume swipes | reads the bridge's flags, plays on the speaker |
| Speaker (`bridge_speaker.h`, `event_tones.h`) | codec, volume, mutex, one task per tone | init, play, volume | event display |
| Next reminder (`cpp:734-786`) | none | a pure search over dates and weekdays | clock page |
| HTTP buffers (`cpp:663-732`) | static 4096 bytes | receive | every request |
| Watch discovery (`cpp:797-854`) | list of watches seen, with times | advertisement, expiry, report | page |
| Page, users, logs, battery history, tone data | rendering and storage | | |

### What is hard about it

- Three kinds of writes (queued reminders, time, notifications) share one stream
  of confirmations which does not say whose turn it is, and the hash is the
  bridge's only memory of what the watch holds (`cpp:344`, `cpp:1118`).
- A write can be refused by the stack, answered with an error, or lost with the
  link between being sent and being confirmed (`cpp:660`, `cpp:290`).
- Watch, bridge and link may each restart in the middle of any of this.
- A DFU is driven by notifications that the client handles whatever its state
  (`dfu:263`), under a timeout that may fire while messages are under way.
- The pairing entry is written by three parties that all overwrite it.
- Two creations on the server list the free slots before either of them writes
  (`handlers.go:204`), and three limits meet in one list: the slots the server gives
  out, the bridge's 4096 bytes, the 56 reminders it uploads (`cpp:670`, `cpp:1101`).
- Events are differences between two samples of flags, several of them may come in
  one interval, and each tone waits 200 ms for the one before (`yaml:776`, `speaker:128`).
- All timers are differences of a clock that wraps around, and are set below zero at
  the boot (`cpp:104`); some requests are made once and never repeated (`cpp:832`).
- Days are counted as 24 hours although some have 23 or 25 (`cpp:746`).
- The server learns that a notification was delivered from a second request, after
  the write; either half may be lost.

`hazards` in PROJECT.json lists these points at their lines with the properties
that cover them.  What makes each component correct: the sync converges and
never believes more than it did; an update installs what was uploaded or ends;
a paired bridge finds back to its watch; no message is dropped, repeated or
reordered without a cause; two reminders never share a slot; the status tells
online from offline.

## Modules

| module | models | abstract view |
|---|---|---|
| `ReminderSync` | the sync, with the DFU and the link as it sees them | hash, queue, air and watch as one pipeline |
| `MCReminderSync` | instances of it for TLC | |
| `ReminderSyncProofs` | theorems about it | |
| `Dfu` | upload, request, DFU client, control point, watch's DFU service | two FIFO channels |
| `MCDfu` | instances of it for TLC | |
| `DfuProofs` | theorems about it | |
| `Pairing` | page, entry, loop(), GAP callback, reconnection, saved address | |
| `PairingProofs` | theorems about it | |
| `Delivery` | notifications to the watch, acknowledgements from it | messages that are only forwarded |
| `DeliveryProofs` | theorems about it | |
| `ReminderSlots` | what the server promises about the slots of a user | every request in one step |
| `ServerReminders` | creation, edits and deletion by concurrent requests; the bridge's copy | implements `ReminderSlots` |
| `MCServerReminders` | instances of it for TLC | |
| `ServerRemindersProofs` | theorems about it, with the refinement | |
| `Speaker` | tasks, mutex, volume and codec | a queue that loses who waits too long |
| `EventDisplay` | the 10 s interval and the page it shows; extends `Speaker` | |
| `EventDisplayProofs` | theorems about it | |
| `BridgeStatus` | the timers of loop(), heartbeat, discovered watches, the server's row | |
| `BridgeStatusProofs` | theorems about it | |
| `NextReminder` | the reminder shown as next, at every hour | the earliest of all ahead |
| `MCNextReminder` | instances of it for TLC | |
| `NextReminderProofs` | theorems about it | |

`ReminderSync` and `Dfu` overlap on purpose: the first has the DFU as five phases
and shows what it does to the sync, the second has the whole protocol.

### ReminderSync

An action is a top-level block of `loop()`, a GATT event with everything its
handler calls, or a step outside the bridge.

| actions | code |
|---|---|
| `PollSucceeds`, `PollFails`, `SyncReminders` | `poll_api_`, `sync_reminders_to_watch_` |
| `Opened`, `Discovers`, `DiscoversForDfu` | reconnect block, OPEN_EVT, SEARCH_CMPL_EVT with `discover_services_` |
| `ProcessNextCommand`, `WriteConfirmed`, `Disconnected`, `PeriodicRefresh` | `process_next_command_`, WRITE_CHAR_EVT, DISCONNECT_EVT, the refresh block |
| `StartDfu`, `DfuNotified`, `DfuTimesOut`, `DfuDone`, `GraceEnds` | `cpp:126-178`, `check_pairing_request_`, `handle_notification_` |
| `BridgeReboots` | `setup`: all members at their initialisers |
| `EditServer`, `WatchReceives`, `WatchRejects`, `LinkLost`, `WatchReboots` | the world outside |

`missed` is a history variable: a write of the last sync was refused, rejected or
lost without the bridge forgetting the hash, or the watch forgot its reminders.
`updated` is one too: the watch runs a firmware that was just activated, and the
grace period has not ended.

Abstractions:
- The hash is taken as injective: `last_sync_hash_` is the image it hashes.  The
  code has 32 bits; a collision, or a hash of 0, is not in the model.
- Timers are dropped: a block that waits for an interval may run at any time.  The
  exception is the grace period, whose two minutes are assumed to outlast the
  delivery of the activation and the notice of the watch's reset.
- A response to a write is not tied to the write, as in the code.
- The reminder service's characteristics are found together or not at all.
- A reminder's 72 bytes are one value.

### Dfu

Versions of a firmware are told apart by the CRC; an image is its number of
chunks.  A command and the packet written right after it are one message.  The
server's two files are written by two actions, as the handler does, and
downloaded by two.  The watch side (`Watch*`) is InfiniTime's DfuService as far as
the client relies on it and is marked external.  The five minutes are not counted:
`TimesOut(FALSE)` fires when nothing else can move, `TimesOut(TRUE)` earlier, as the
fault "slow".  `stale` records the latter: messages of a transfer that was given up
are still under way.  `lostClears` counts the POSTs that should have cleared a
request and were lost.  One upload runs at a time.

### Pairing

Page, server, loop() and the Bluetooth task run interleaved.  Where the code reads
a flag and clears it later (`cpp:239-255`, `cpp:922-929`) there are several actions,
with `doing` telling how far loop() is: replying, clearing or reporting; only the
Bluetooth task runs in between.  An attempt to open a link (`opening`) is apart from
the link: the bridge dials on a selection and for an update without looking whether a
link is open (`cpp:868-917`), and that link may drop while the attempt is under way.
Of an update there is only what concerns the link: the request, the dial, and that
loop() does nothing else until it ends (`dfu_active`).  A passkey is the number of the
pairing it belongs to.  There is one watch, whose address the configuration names.
PASSKEY_REQ arrives on a link that is open or being opened.  Saving the address in the
user record and the "connecting" POST are one step.  `refused` is a history variable: an
attempt has failed since the last selection was dialled.

### Delivery

The walk over the pending list has an action for the fetch, for each write and for
each POST; the link, the watch, the server and a restart come in between, and no
GATT event does (`MainTask`).  The response buffer counts rows in place of bytes.
A list that is too long loses the pieces that do not fit and keeps later, smaller ones
(`cpp:670-678`).  As a rule that does not parse; `FetchSpliced` is the case in which it
does: any sequence of pending ids, each with its own text, another's, or one put together
from several (`Mixed`).  That the digits of two ids run together into a third is left out.
`created_at` has seconds: `NewSecond` says which notifications began a new one, and rows
of one second are listed in any order (`Earlier`, `Listing`).  The list of reminders,
which the same poll must parse first, is assumed to fit.  A poll with nothing to deliver
is a stuttering step.  `shown`, `lost`, `lapses`, `spliced` and `garbled` are history
variables.

### ReminderSlots and ServerReminders

`CreateReminder` is two SQL statements with a search between them, so it is three
actions: `Arrives`, then `Refuses` or `Assigns` (list and search), then `Upserts`; a
statement may fail (`StatementFails`).  Any number of them run at a time.
`UpdateReminder` and `DeleteReminder` are a single statement and one action each.
`PollApi` is the bridge's fetch, which fails when the answer is longer than its
buffer; the buffer counts rows in place of bytes.  Where the pieces that are left of a
longer one do parse, `PollSpliced` has the bridge take some of the rows, with contents
that may be put together from several; a list with one id twice is not represented.  `Uploaded` is what
`sync_reminders_to_watch_` takes from the list.

`ReminderSlots` has every request take effect in one step between its arrival and its
answer.  `wasFree` and `wasFull` record what each running creation has seen; they are
variables of the abstract specification, and history variables of the detailed one
that `Sees` keeps.  The mapping is the identity except `running <- Running(req)`:
`Assigns`, `PollApi` and `PollSpliced` are stutters, `Upserts` is `Grant`, `Refuses` is `Refuse`.  With one
creation at a time `Grant` can only take a slot that is free; with two it may take
one that the other has just filled, which is what the upsert does.

### Speaker and EventDisplay

`Tick` is the whole interval: the flags are compared, each difference shows its event
and starts a task with its tone, and the flags are remembered.  `Swipe`, `Dismiss` and
`Reboots` are the other ways the page changes; the remaining actions change the members
of the bridge that the display reads, as `poll_api_`, the GATT events and the DFU
client do.  An update ends in COMPLETE or FAILED, or by the safety timeout in IDLE
(`cpp:131-135`).  The battery byte is stored as it is, 0 included, which the display takes
for unknown.  `bridge.dfu` is COMPLETE or FAILED until the next iteration of `loop()`
(`DfuResets`).  In `Speaker` the tasks wait in order of arrival; one may give up when the
tone before it is long (`LongTones`, from the lengths of the tables) or a second one
has been let past.  A task that cannot be created, or gets no memory, loses its tone.

Abstractions: time is counted in intervals; the tones of an interval are over when
the next begins (`TonesOver`; ten of them take at most 5.6 s); battery levels
are 0, one below 60 and one above; the saved volume is 0 or 100 at first; `day` is free
at each interval.  `history` and `skipped` are history variables.

### BridgeStatus

`Loop` stands for the iterations of one tick, and for the requests they make: what is due is
done and its timer restarted.  An iteration with slow requests takes up to `MaxBlock`
ticks.  `clock` is `millis()` modulo `Word`, all comparisons are on differences modulo
`Word`, and `SetupAt` is the back-dating of `setup`.  The link has three states, since
`discover_services_` reads the device information and, if it finds the reminder service,
sets `last_poll_ms_` to 0.  A link may be opened during an update, by the update itself.

Abstractions: a comparison with `>` is `>=` at the resolution of ticks; `firmware` stands
for every field that the server keeps when a heartbeat leaves it empty; a server
without a row shows the same as one that is not connected; the link during an update
is that of `Dfu`.  `sincePoll`, `forced`, `gap`, `readLost` and `clearLost` are history
variables.

### NextReminder

The state is the hour; the list of reminders and the direction of the change of
clocks are chosen at the start.  `Hits` is the inner loop of `get_next_reminder`,
`FirstHit` its break, `GetNextReminder` the outer one.  `localtime` and `mktime` are
external: a time zone whose clocks change once, with the C library's answer for the
hour that is skipped or shown twice.  `RightAnswer` is the reference, stated over days
of the calendar.  Minutes are left out: the code treats them like hours.  A date is a
day of the period looked at, and recurs after its end.

## Runs

Passing runs, with all the kinds of fault of their modules unless noted:

| run | bounds | shows |
|---|---|---|
| `sync_faults` | 2 slots, 1 content, 2 disturbances, 1 edit, 2 writes in flight; no fairness | `HashIsFulfilled`, `PendingDrains`, `NoStaleCommand`, `FreshFirmwareSpared` |
| `sync_converges` | 1 slot, 2 contents, 2 edits, 1 of drop, notification, update | `EventuallySyncedOrCut`, `EventuallySyncedAfterDfu` |
| `dfu_faults` | 3 firmwares of 3, 4, 5 chunks, window 2, buffer 4; 2 requests, 1 upload, 2 faults | `WindowBounded`, `NoBlindActivate`, `CompleteMeansInstalled`, `OneUpdatePerRequest`, `EventuallyIdle`, `EventuallyInstalled` |
| `pairing_faults` | 2 selections or update requests, 2 pairings, 2 faults | `StuckOnlyIfRefused`, `EventuallyConnectedOrStuck`, `PasskeyAnswered` |
| `delivery_faults` | 3 notifications of two seconds, 2 rows, 1 acknowledgement, 1 fault | `DeliveredMeansWritten`, `ShownOnce`, `ShownInOrder`, `EventuallyShown` |
| `slots` | 2 creations at a time, ids 0..2 of which 2 are assigned, 2 contents, 2 rows of buffer, 3 requests, any table at first | `AutoSlotsUploaded`, the refinement `SlotsPromised`, `ReachesBridge` |
| `events` | 2 slots, 1 message, warnings each 2 ticks, absence 1 tick, 2 tasks, 3 changes | `WarnedHourly`, `NotNagged`, `HeardWhatIsShown`, `SpeakerFree`, `AckDisplayed` |
| `bridge_status` | interval 2 ticks, 10 ticks to the wrap-around, iterations of 1 or 2 ticks, 1 watch, 3 events | `PollsKeepComing`, `ForcedPollComes`, `OnlineMeansGap`, `RowSettles`, `ForgottenOrLost` |
| `next_reminder` | 9 days by the hour, a change at 2 o'clock on day 4 in either direction or none, lists of up to 2 of 9 reminders | `NextIsEarliest`, `NextComesSoon` |

Why the bounds suffice:
- *Sync.*  Two slots tell "delete all" from "delete this slot" and give a batch of three
  commands, one more than the channel holds, so that queue and air both are
  non-empty.  Two disturbances cover a fault and a fault in its recovery (a drop
  while re-syncing after a reject, an update followed by a reboot).  Liveness needs
  one slot but two contents, so that a stale content is told from an absent one.
- *Dfu.*  The three sizes end inside a window, exactly at its end, and beyond the
  buffer; the window of 2 has chunks left over when a receipt comes.  A second
  request meets the leftovers of the first.
- *Pairing.*  With two pairings an old passkey, event or entry meets a new pairing; two
  requests are a selection behind another, or an update behind a selection, on an
  open link or beside an attempt.
- *Delivery.*  Three notifications overflow two rows; a walk over two can be
  interrupted with one written and one not, and a third be queued meanwhile.  The
  first two are of one second, the third of a later one.  One fault cuts a walk or
  loses a mark; what a second one does to a fresh walk is no different.
- *Server reminders.*  Two overlapping creations are the smallest case in which one
  writes to a slot that the other has filled; with an id beyond the assigned ones both
  branches of the search are taken; three rows overfill the buffer of two; three changes let an edit or a deletion fall between
  the statements of both.
- *Events.*  Two ticks between warnings tell the crossing, the repetition, and a
  repetition too early or too late apart.  Three changes put a battery reading, an
  acknowledgement and a reading between them, or three events into one interval, more
  than the two tasks there is memory for.
- *Status.*  The clock wraps around within a behaviour, several times if nothing
  else happens; three events are a lost request, a restart and a dropped link.
- *Next reminder.*  Every hour of the week before the change and of the days after it is a
  state, so each of the eight instants meets the change.  The order of the result
  needs two reminders; the nine are one for each branch and hour of the day that matters.

All but the sync runs switch deadlock checking off: with its bounds used up the
system is at rest.  The sync never is.

Each property of a passing run has a mutant in PROJECT.json, a plausible error in
one definition, under which TLC finds it violated.

### Runs that show a disagreement

Each checks one statement of a comment or document, which the model of the code
violates:

| run | statement | what the code does |
|---|---|---|
| `doc_watch_reboot` | README.md:178 "bridge detects hash mismatch and re-syncs" after a reboot of the watch | the hash is compared with the bridge's own; an unchanged set is never sent again |
| `doc_acks_lost` | ARCHITECTURE.md:25 acknowledgements flow back to the API | `acked_at` is decimal seconds, the server decodes RFC 3339 and answers 400 |
| `doc_full_list` | `handlers.go:232` "no free reminder slots (max 56)", `yaml:799` "Reminders: %u / 56" | a list of more than 4096 bytes, about 24 reminders, loses at the bridge the pieces that do not fit and as a rule no longer parses; the bridge keeps its old one |

### Observed while modelling, without a run

Statements of a comment or document that the code does not keep:

- `cpp:289` "If commands were still pending, reset hash": the last write has left the queue
  when it is sent and is counted nowhere, so the hash survives its loss.
- README.md:177 "Bridge reboots are safe": a bridge that connects before its first poll
  sends "delete all" for an empty list.
- `dfu:254` "Watch disconnected during DFU" fails the update: DISCONNECT_EVT is never
  forwarded to the client, which waits for its five minutes.
- ARCHITECTURE.md:217 persistent connection, auto-reconnect: a pairing that fails to
  open leaves `pairing_in_progress_` set, and nothing reconnects until a restart.
- `index.html:329` "Paired successfully!": the server clears the entry on "paired", and
  the page never sees that status.
- `cpp:105` the first heartbeat comes at once, not after some 20 s; the silence threshold
  of 90 s is explained by heartbeats each 30 s, they come each 60 s.
- `cpp:615` "Force a poll": within the first interval after the boot, or after the clock
  has wrapped around, `now - 0` is not larger than the interval and nothing is forced
  (hence the exception in `ForcedPollComes`).
- "(0-19)" in `handlers.go:209`: 56 slots are assigned.

Behaviour a maintainer may want to know of:

- COMPLETE and FAILED last one iteration of `loop()`, so the interval of 10 s hardly ever
  shows "Update done" or "Update failed".
- A connected watch does not advertise, so a link of more than five minutes ends in
  "Welcome back".  The event for a reminder that fires is never raised.
- An acknowledgement for a slot that is no longer in the list shows the message of the
  acknowledgement before.
- A new volume is lost if the bridge restarts before ESPHome has flushed its globals.
- The page shows the bridge as online if any heartbeat has ever come (`index.html:804, 1188`).
- While the watch is away heartbeats carry its last battery level, which the server
  records as history.
- The firmware revision is read once per connection, and the emptied list of discovered
  watches is posted once; either loss lasts (`RowSettles`, `ForgottenOrLost`).
- Around a change of the clocks the next reminder may be one that comes a day later.

- The 5-minute timeout of an update on an open link leaves it without
  `services_discovered_`: reminders are not sent until the link drops
  (`DfuOnlyLink`; ARCHITECTURE.md:224).
- A notification is marked delivered, and logged so, also when its write was refused
  or lost.
- `needs_ble_sync_` is written and never read; "will send on next connection"
  (`cpp:1076`) is the next poll.
- A notification without a message stays pending for ever and takes room in the
  response; with enough of them nothing may be delivered any more.
- A response that is too long and parses all the same is taken as it is: a notification
  may be shown with the text of another, or be marked under the id of another, and a
  reminder be put together from two.
- `pending_writes_` is decremented by confirmations of queued writes too
  (`cpp:345`), so it may be 0 with a time write outstanding; the time of the last
  sync is then recorded early (`cpp:346`).
- The queue is drained during the grace period (`cpp:175`); that the new firmware gets
  nothing from it rests on the disconnect at its reset (`FreshFirmwareSpared`).
- The POST that clears a DFU request is unchecked (`cpp:870`): if it is lost the update
  starts again.
- Encryption is hardly ever requested (`cpp:320`): OPEN_EVT has cleared
  `pairing_in_progress_` by then, unless the watch was selected between the opening of a
  link and the end of its search.
- `gap_event_pending_` is cleared after it was read, and `passkey_pending_` after the
  reply was given (`cpp:241`, `cpp:927`): an event or a request in between is lost.
- A passkey entered too late stays in the entry and is injected into the next
  pairing; a late "paired" wipes a newer entry.
- The read-back of reminders (SYNC_ALL) has no caller.

## Fairness

Weak fairness is assumed only of what the code's scheduling justifies: ESPHome
calls `loop()` for ever, so its blocks run; GATT events are delivered; and, of the
world outside, the server eventually answers, an attempt to connect eventually
succeeds, and a connected watch takes its writes.  In `Pairing` the tab
stays open with its user there.  An HTTP handler reaches its answer, intervals come round, a task that
has the mutex ends, and an update ends (its timeout sees to that).  Edits,
notifications, pairings and faults happen or not.  Fairness is on the succeeding variant of an action (`PollSucceeds(FALSE)`,
`MarkDelivered(TRUE)`), and all failing variants draw on a finite budget.

## Proofs

Every safety property that a run checks is a theorem, for every value of the
constants: any slots among 0..55, any contents, any lists, any bounds, any subset of
the faults.  The assumptions are those named in the modules (`SlotsAssumption` of both
reminder modules, `NoValueAssumption`, `BoundsAssumption`, `PairingAssumption`,
`DeliveryAssumption`, `DfuAssumption`, `StatusAssumption`, `DisplayAssumption`,
`NextAssumption`): constants have their types and the "nothing" values differ from the
rest; a reminder's hour is a number of hours; the first poll comes within an interval of
the boot, and the clock does not wrap around within two intervals and an iteration.
One theorem, `OnlineAlwaysMeansGap`, has a hypothesis besides, `HeartbeatsInTime`.

- `TypeCorrect`, `PairingTypeCorrect`, `DeliveryTypeCorrect`, `SlotsTypeCorrect`: one step per
  action.
- `HashFulfilled`.  `HashIsFulfilled` is inductive together with `TypeOK`, because it is
  stated about the last command that touches each slot in the pipeline queue, air,
  watch, and not about its contents.  Moving the head of the queue to the air and the
  head of the air to the watch keeps that command (`HeadTouch`, `AppendTouch`);
  appending a batch makes the batch decide every slot, whatever was before it
  (`ConcatSets`, `BatchSets`), which is why two syncs may be queued behind each other.
- `PendingAlwaysDrains`: every step that counts a write puts one on the air, and every
  one that takes a response away also counts down.
- `QueueNeverStale`: not inductive alone; `QueueInv` adds `HandlesNeedLink`, that a
  known handle implies an open connection.
- `FreshFirmwareAlwaysSpared`: `GraceInv` adds that an activation is on the air or received
  only when the update is over and the grace period not, and that with the link up on the
  new firmware nothing of a sync is queued or on the air: the reset cut the old link, its
  disconnect emptied the queue, and nothing is queued until the grace period has ended.
- `AlwaysStuckOnlyIfRefused`: inductive by itself, one step per action.
- `DeliveredAlwaysWritten`, `AlwaysShownInOrder`: `IInv` adds `MarkInv`, that what is
  about to be marked was written, and `OrderInv`, that what precedes an element of the
  being walked, or of the air, stands in front of it there or has gone further; only
  those of an earlier second count, and texts out of an overfull answer are exempt.
  A list fetched again after a lost mark or a restart is in order because every
  earlier notification is in it or, by `DeliveredMeansWritten`, was written.
- `SlotsAsPromised`: the refinement.  Each action is shown to be an action of
  `ReminderSlots` or a stutter.  Two facts carry it: `SeenInv`, that a running creation has
  seen the table as it is now, by which a refusal is justified and `Assigns` changes
  nothing in the abstract state; and `SlotWasFree`, that the slot assigned is among
  those seen free, by which the upsert is a grant.  Both are inductive with `TypeOK`, in
  whatever order the statements of the creations come.
- `NeverBlindActivate`.  `NoBlindActivate` alone is not inductive: an activation is sent on a
  "validated", so `ActivateInv` says the same of that note, on an open link only.  A
  dropped link resets the watch and may leave the note at the bridge; then nothing is
  sent, and the next link opens after the notes have been read.
- `AlwaysOneUpdate`: `CountInv` keeps one start in reserve for a request that is still
  there, and only a lost clearing POST returns it.
- `DfuTypeCorrect`: `SentInv`, that no more is sent than there is while an update is active,
  keeps the size of a burst from becoming negative.
- `AutoSlotsAlwaysUploaded`: fewer than 56 reminders stand before one in a slot below 56,
  by a bound on the cardinality of an interval.

- `AlwaysWindowBounded`.  The invariant, `WindowInv`, says that a transfer has one next step: a
  note that the client will act on, or a message that the watch will, and that the
  other side is in the state for it.  A note that grants a window leaves no chunk on its
  way, since the watch sends it at a multiple of the window, and what is on its way never
  exceeds the rest up to the next multiple (`AirOK`).  The order of the channels matters
  only for a start: chunks behind it belong to the transfer before (`StartFirst`).  Losses
  keep all of this because what is left embeds in what was there (`EmbedsKeeps`).
  A by-product: `process()` never sends a chunk (`ProcessSendsNothing`).
- `CompleteAlwaysInstalled`.  `ConvInv` gives each message and note its meaning: a request on
  its way was sent in the state the client still is in, with the length and the .dat of its
  image; a live chunk is one of its image; "received" means that the watch was promised
  what the client has (`Matches`), "validated" that it is installed.  At most one start and
  one verdict are under way, never a verdict with a request; whoever takes one
  therefore knows that nothing older can follow (`VerdictMeans`, `TakenAlone`).  An update
  that times out with messages under way breaks exactly this, hence `stale`.
- `AlwaysShownOnce`.  `TokenInv`: a notification may be written once for its row and once for each
  lost mark; texts out of an overfull answer aside, the copies shown, those on the air, and the row, if it is pending and not just
  being marked, share these tokens.  `TodoInv` keeps the walk from writing a row twice.
- `PollsAlwaysComing`, `ForcedPollAlwaysComes`.  `PollInv`: either the timer has run for as long
  as there was no poll, or a link has set it to 0 when it had run for less than an interval and
  an iteration.  With differences modulo `Word` that needs lemmas on what an elapsed time
  becomes when the clock advances.  The proof found `LongGap`, which is two intervals and
  *two* slow iterations: an iteration may end just before the timer is due, and a link may
  reset it just then.
- `OnlineAlwaysMeansGap`.  `HeardInv`: the server heard from the bridge before the timer of the
  heartbeat had run for as long, or the next heartbeat is due at once.  The hypothesis
  `HeartbeatsInTime` has the threshold leave room for an interval and an iteration, and
  a heartbeat due at the boot: 90 s, 60 s and 280 s in the code, so that it speaks of
  iterations of up to 30 s.  Where requests hang for longer, "came online" may be logged
  without a gap.
- `AlwaysWarnedHourly`, `NeverNagged`.  `WarnInv`: the age of the last warning bounds how long the
  battery has been low, and a battery that has not recovered is one that was warned about
  and was low at the last interval.  `NotNagged` compares the time between two warnings of one
  discharge, kept in `history.gap`, so a warning in every interval would violate it too.
- `AlwaysHeardWhatIsShown`.  `ToneInv`: unless a tone was given up, the last task that waits has the
  tone of the event shown, or none waits and the last one played it.
- `NextIsAlwaysEarliest`, `NextAlwaysComesSoon`.  No invariant but the types: the work is to show
  that in a week without a change the eight instants stand for the eight days, that the
  first hit of a reminder is its first occurrence, and that the search with its strict
  comparison keeps the least of them.  With a change an instant is off by an hour, so it falls
  on its day or on one beside it, and a daily reminder is hit one instant later at worst.

Only model-checked is liveness, because fairness is out of the prover's reach:
`EventuallySyncedOrCut`, `EventuallySyncedAfterDfu`, `EventuallyIdle`, `EventuallyInstalled`,
`EventuallyConnectedOrStuck`, `PasskeyAnswered`, `EventuallyShown`, `ReachesBridge`, `SpeakerFree`,
`AckDisplayed`, `RowSettles`, `ForgottenOrLost`.

## Not modelled

The page's rendering, users, logs, battery history, the sample tables and their
generator, start-up, routing and code generation are I/O or data without a protocol;
of the page only the pairing panel has states that matter to others.  Below the
4096-byte buffer, connections and their errors are one outcome: the request is
answered or lost.  A torn read of the shared pairing entry (`handlers.go:629`) is left
out: the writer stores the pointer that is there.

## Plan

Done: all components that have a protocol, with proofs of every safety property the runs
check and of the refinement of the server's slots.  Left:

1. An abstract `Mirror` (the watch holds some version of the list that the bridge
   fetched, or is between two), implemented by `ReminderSync` when nothing is missed.
2. An abstract `Update` (download, transfer, verdict) implemented by `Dfu`, for which
   `ConvInv` has what the mapping needs.
