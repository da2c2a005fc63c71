---------------------------- MODULE ReminderSync ----------------------------
(***************************************************************************)
(* How the bridge keeps the reminders stored on the watch equal to the     *)
(* enabled reminders on the server (pinetime_bridge.cpp).                  *)
(*                                                                         *)
(* Every poll replaces api_reminders_.  sync_reminders_to_watch_ hashes    *)
(* the enabled ones and, when the hash is new and the handles are known,   *)
(* queues "delete all" and one write per reminder.  loop() drains the      *)
(* queue one write at a time; a WRITE_CHAR event releases the next one.    *)
(* Time and notification writes share the link without going through the   *)
(* queue.  The hash is the bridge's only memory of what the watch holds.   *)
(*                                                                         *)
(* An action is one top-level block of loop(), one GATT event, or a step   *)
(* of the world outside (server, radio, watch).  Timers are abstracted:    *)
(* a block that waits for an interval may run at any time.                 *)
(***************************************************************************)
EXTENDS Integers, Sequences, FiniteSets

CONSTANTS
    Slots,            \* reminder ids in use, within the 56 the bridge uploads
    Msgs,             \* contents of a reminder, 72 bytes taken as one value
    NoMsg,            \* content of a slot the watch has no reminder for
    NoReminder,       \* a server slot with no row
    NoHash,           \* last_sync_hash_ = 0: nothing synced yet
    Disturbances,     \* the kinds of disturbance that may happen
    MaxDisturbances,  \* bound: disturbances in a behaviour
    MaxEdits,         \* bound: edits of the server's reminders
    MaxAir            \* bound: writes in flight, unanswered or not yet handled

Image == [Slots -> Msgs \cup {NoMsg}]
Entry == [msg : Msgs, enabled : BOOLEAN] \cup {NoReminder}
DfuPhase == {"IDLE", "CONNECTING", "ACTIVE", "COMPLETE", "FAILED"}
DisturbanceKind == {"drop", "reject", "send_error", "time_unsent", "notify",
                    "watch_reboot", "bridge_reboot", "dfu", "stock_firmware"}

ASSUME SlotsAssumption == Slots \subseteq 0..55
ASSUME NoValueAssumption ==
    /\ NoMsg \notin Msgs
    /\ NoReminder \notin [msg : Msgs, enabled : BOOLEAN]
    /\ NoHash \notin [Slots -> Msgs \cup {NoMsg}]
ASSUME BoundsAssumption ==
    /\ Disturbances \subseteq DisturbanceKind
    /\ MaxDisturbances \in Nat /\ MaxEdits \in Nat /\ MaxAir \in Nat

VARIABLES
    server,                \* the reminders table of the user
    api_reminders_,        \* the bridge's copy, from the last poll that parsed
    boot_logged_,          \* a poll has succeeded since boot
    last_sync_hash_,       \* NoHash or the image last queued
    command_queue_,        \* writes of the sync still to be sent
    ble_busy_,             \* a queued write was sent and not confirmed
    pending_writes_,       \* "non-queue writes in flight"
    last_sync_time_,       \* whether "last successful watch sync" was recorded
    ble_connected_, services_discovered_,
    upload_handle_,        \* the reminder service's characteristics are known
    ans_handle_,           \* the ANS and CTS characteristics are known
    dfu_state,             \* dfu_client_.state(), its busy states as ACTIVE
    post_dfu_,             \* the 2-minute grace period after a DFU
    searching,             \* external: a service search is under way
    radio,                 \* external: the link is really up
    air,                   \* external: writes sent, not yet at the watch
    confirms,              \* external: write responses not yet handled
    watch,                 \* external: the reminders stored on the watch
    missed,                \* history: a write of the last sync never took effect
    updated,               \* history: the watch runs a firmware just activated
    edits, disturbed       \* bound counters

syncVars  == <<last_sync_hash_, command_queue_, missed>>
flagVars  == <<ble_busy_, pending_writes_, last_sync_time_>>
linkVars  == <<ble_connected_, services_discovered_, upload_handle_, ans_handle_,
               searching>>
dfuVars   == <<dfu_state, post_dfu_, updated>>
radioVars == <<radio, air, confirms, watch>>
apiVars   == <<api_reminders_, boot_logged_>>
worldVars == <<server, edits>>
vars == <<syncVars, flagVars, linkVars, dfuVars, radioVars, apiVars, worldVars,
          disturbed>>

Blank == [s \in Slots |-> NoMsg]
NoReminders == [s \in Slots |-> NoReminder]

\* The filter of sync_reminders_to_watch_: what the watch should hold.
\* The 32-bit hash of its serialisation is taken as injective.
ImageOf(list) ==
    [s \in Slots |-> IF list[s] # NoReminder /\ list[s].enabled
                     THEN list[s].msg ELSE NoMsg]
InUse(image) == {s \in Slots : image[s] # NoMsg}

DeleteAll == [kind |-> "delete_all"]
Write(s, m) == [kind |-> "write", slot |-> s, msg |-> m]
Other(k) == [kind |-> k]
QueueCmd == {DeleteAll} \cup [kind : {"write"}, slot : Slots, msg : Msgs]
OtherKind == {"time", "notify", "dfu", "activate"}
AirCmd == QueueCmd \cup [kind : OtherKind]
CmdKind == {"delete_all", "write"} \cup OtherKind

IsReminderCmd(c) == c.kind \in {"delete_all", "write"}
HasReminderCmd(q) == \E i \in DOMAIN q : IsReminderCmd(q[i])

\* The server lists the reminders ORDER BY reminder_id.
Listings(S) ==
    {l \in [1..Cardinality(S) -> S] :
        /\ \A s \in S : \E i \in DOMAIN l : l[i] = s
        /\ \A i, j \in DOMAIN l : i < j => l[i] < l[j]}
BatchNoDelete(l, image) == [i \in 1..Len(l) |-> Write(l[i], image[l[i]])]
Batch(l, image) ==
    <<DeleteAll>> \o [i \in 1..Len(l) |-> Write(l[i], image[l[i]])]

Room == Len(air) + Len(confirms) < MaxAir
Disturb(kind) ==
    /\ kind \in Disturbances /\ disturbed < MaxDisturbances
    /\ disturbed' = disturbed + 1

-----------------------------------------------------------------------------
Init ==
    /\ server \in [Slots -> Entry] /\ watch \in Image
    /\ api_reminders_ = NoReminders /\ boot_logged_ = FALSE
    /\ last_sync_hash_ = NoHash /\ command_queue_ = <<>> /\ missed = FALSE
    /\ ble_busy_ = FALSE /\ pending_writes_ = 0 /\ last_sync_time_ = FALSE
    /\ ble_connected_ = FALSE /\ services_discovered_ = FALSE
    /\ upload_handle_ = FALSE /\ ans_handle_ = FALSE /\ searching = FALSE
    /\ dfu_state = "IDLE" /\ post_dfu_ = FALSE /\ updated = FALSE
    /\ radio = FALSE /\ air = <<>> /\ confirms = <<>>
    /\ edits = 0 /\ disturbed = 0

\* The bridge's two gates: when a sync may be queued, and when a disconnect
\* makes it forget the hash.
SyncAllowedDuringGrace == dfu_state = "IDLE"
SyncAllowed == dfu_state = "IDLE" /\ ~post_dfu_
SyncPendingUnqueued == pending_writes_ > 0
SyncPending == command_queue_ # <<>> \/ pending_writes_ > 0

\* pending_writes_ after a write response.
ReleasedUnguarded(pending) == pending - 1
Released(pending) == IF pending > 0 THEN pending - 1 ELSE 0

\* The body of sync_reminders_to_watch_ on the given list.  Connected means the
\* handles are known once the caller is done.
SyncReminders(list, connected) ==
    LET image == ImageOf(list) IN
    IF image = last_sync_hash_ \/ ~connected
    THEN UNCHANGED syncVars
    ELSE /\ last_sync_hash_' = image
         /\ \E l \in Listings(InUse(image)) :
                command_queue_' = command_queue_ \o Batch(l, image)
         /\ missed' = FALSE

\* A write that bypasses the queue (sync_time_, send_notification_): counted
\* in pending_writes_ unless the stack refuses it at once.
SendOtherLeaks(kind, sent) ==
    /\ IF sent THEN Room /\ air' = Append(air, Other(kind))
       ELSE UNCHANGED air
    /\ pending_writes_' = pending_writes_ + 1
SendOtherNever(kind, sent) == UNCHANGED <<air, pending_writes_>>
SendOther(kind, sent) ==
    IF sent
    THEN /\ Room
         /\ air' = Append(air, Other(kind))
         /\ pending_writes_' = pending_writes_ + 1
    ELSE UNCHANGED <<air, pending_writes_>>

\* Someone creates, changes, disables or deletes a reminder on the server.
EditServer(s, entry) ==
    /\ edits < MaxEdits /\ entry # server[s]
    /\ server' = [server EXCEPT ![s] = entry]
    /\ edits' = edits + 1
    /\ UNCHANGED <<syncVars, flagVars, linkVars, dfuVars, radioVars, apiVars,
                   disturbed>>

\* loop(), API poll: the reminders arrive; a pending notification is written
\* at once; then the sync, unless the grace period runs.
PollSucceeds(notify) ==
    /\ dfu_state = "IDLE"
    /\ api_reminders_' = server /\ boot_logged_' = TRUE
    /\ IF notify THEN ans_handle_ /\ Disturb("notify") ELSE UNCHANGED disturbed
    /\ SendOther("notify", notify)
    /\ IF SyncAllowed THEN SyncReminders(server, upload_handle_) ELSE UNCHANGED syncVars
    /\ UNCHANGED <<ble_busy_, last_sync_time_, linkVars, dfuVars, radio, confirms,
                   watch, worldVars>>

\* loop(), API poll with no usable answer: the sync runs on the old copy.
PollFails ==
    /\ dfu_state = "IDLE"
    /\ IF SyncAllowed THEN SyncReminders(api_reminders_, upload_handle_)
       ELSE UNCHANGED syncVars
    /\ UNCHANGED <<flagVars, linkVars, dfuVars, radioVars, apiVars, worldVars, disturbed>>

\* loop(), reconnect block, or the open that starts a DFU; then OPEN_EVT.
Opened ==
    /\ ~ble_connected_ /\ dfu_state \in {"IDLE", "CONNECTING"}
    /\ ble_connected_' = TRUE /\ searching' = TRUE /\ radio' = TRUE
    /\ UNCHANGED <<syncVars, flagVars, services_discovered_, upload_handle_, ans_handle_,
                   dfuVars, air, confirms, watch, apiVars, worldVars, disturbed>>

\* SEARCH_CMPL_EVT -> discover_services_ with a DFU waiting for the link: the
\* DFU client takes over and neither time nor reminders are synced.
DiscoversForDfu(hasService) ==
    /\ searching /\ ble_connected_ /\ dfu_state = "CONNECTING"
    /\ searching' = FALSE
    /\ IF hasService THEN UNCHANGED disturbed ELSE Disturb("stock_firmware")
    /\ upload_handle_' = (upload_handle_ \/ hasService) /\ ans_handle_' = TRUE
    /\ dfu_state' = "ACTIVE"
    /\ Room /\ air' = Append(air, Other("dfu"))
    /\ UNCHANGED <<syncVars, flagVars, ble_connected_, services_discovered_, post_dfu_,
                   updated, radio, confirms, watch, apiVars, worldVars>>

\* SEARCH_CMPL_EVT -> discover_services_ otherwise: sync the time, then queue
\* the reminders if the watch has the reminder service.
Discovers(hasService, timeSent) ==
    /\ searching /\ ble_connected_
    /\ searching' = FALSE
    /\ CASE hasService /\ timeSent -> UNCHANGED disturbed
         [] hasService /\ ~timeSent -> Disturb("time_unsent")
         [] OTHER -> timeSent /\ Disturb("stock_firmware")
    /\ ans_handle_' = TRUE
    /\ SendOther("time", timeSent)
    /\ upload_handle_' = (upload_handle_ \/ hasService)
    /\ services_discovered_' = (services_discovered_ \/ upload_handle_')
    /\ IF SyncAllowed
       THEN SyncReminders(api_reminders_, upload_handle_')
       ELSE UNCHANGED syncVars
    /\ UNCHANGED <<ble_busy_, last_sync_time_, ble_connected_, dfuVars, radio, confirms,
                   watch, apiVars, worldVars>>

\* loop() -> process_next_command_: the command leaves the queue whether or
\* not the stack accepts the write.
ProcessNextCommand(accepted) ==
    /\ dfu_state = "IDLE"
    /\ ~ble_busy_ /\ command_queue_ # <<>> /\ services_discovered_ /\ ble_connected_
    /\ command_queue_' = Tail(command_queue_)
    /\ IF accepted
       THEN /\ Room
            /\ air' = Append(air, Head(command_queue_))
            /\ ble_busy_' = TRUE
            /\ UNCHANGED <<missed, disturbed>>
       ELSE /\ Disturb("send_error") /\ missed' = TRUE
            /\ UNCHANGED <<air, ble_busy_>>
    /\ UNCHANGED <<last_sync_hash_, pending_writes_, last_sync_time_, linkVars, dfuVars,
                   radio, confirms, watch, apiVars, worldVars>>

\* loop(), periodic refresh: the time is written again over the open link.
PeriodicRefresh ==
    /\ dfu_state = "IDLE"
    /\ ble_connected_ /\ services_discovered_ /\ command_queue_ = <<>> /\ ~ble_busy_
    /\ SendOther("time", TRUE)
    /\ UNCHANGED <<syncVars, ble_busy_, last_sync_time_, linkVars, dfuVars, radio,
                   confirms, watch, apiVars, worldVars, disturbed>>

\* WRITE_CHAR_EVT, for any write and any status.
WriteConfirmed ==
    /\ confirms # <<>> /\ ble_connected_
    /\ confirms' = Tail(confirms)
    /\ ble_busy_' = FALSE
    /\ pending_writes_' = Released(pending_writes_)
    /\ last_sync_time_' = (last_sync_time_ \/ (/\ command_queue_ = <<>>
                                               /\ pending_writes_' = 0
                                               /\ dfu_state = "IDLE"))
    /\ UNCHANGED <<syncVars, linkVars, dfuVars, radio, air, watch, apiVars, worldVars,
                   disturbed>>

\* DISCONNECT_EVT: what is queued is dropped, and the hash with it when the
\* bridge sees something pending.  Writes on the air are lost.
Disconnected ==
    /\ ble_connected_ /\ ~radio
    /\ ble_connected_' = FALSE /\ services_discovered_' = FALSE
    /\ IF SyncPending
       THEN /\ last_sync_hash_' = NoHash /\ command_queue_' = <<>>
            /\ UNCHANGED missed
       ELSE /\ UNCHANGED <<last_sync_hash_, command_queue_>>
            /\ missed' = (missed \/ HasReminderCmd(air))
    /\ pending_writes_' = 0
    /\ upload_handle_' = FALSE /\ ans_handle_' = FALSE /\ searching' = FALSE
    /\ air' = <<>> /\ confirms' = <<>>
    /\ UNCHANGED <<ble_busy_, last_sync_time_, dfuVars, radio, watch, apiVars, worldVars,
                   disturbed>>

\* External: the watch takes the oldest write and answers it.  Activating a
\* new firmware resets the watch, which clears its reminder storage.
WatchReceives ==
    /\ radio /\ air # <<>>
    /\ LET c == Head(air) IN
       /\ watch' = CASE c.kind = "write" -> [watch EXCEPT ![c.slot] = c.msg]
                     [] c.kind \in {"delete_all", "activate"} -> Blank
                     [] OTHER -> watch
       /\ radio' = (c.kind # "activate")
       /\ missed' = (missed \/ c.kind = "activate")
       /\ updated' = (updated \/ c.kind = "activate")
       /\ confirms' = Append(confirms, c.kind)
    /\ air' = Tail(air)
    /\ UNCHANGED <<last_sync_hash_, command_queue_, flagVars, linkVars, dfu_state,
                   post_dfu_, apiVars, worldVars, disturbed>>

\* External: the watch answers a write with an error status.
WatchRejects ==
    /\ radio /\ air # <<>> /\ Disturb("reject")
    /\ air' = Tail(air) /\ confirms' = Append(confirms, Head(air).kind)
    /\ missed' = (missed \/ IsReminderCmd(Head(air)))
    /\ UNCHANGED <<last_sync_hash_, command_queue_, flagVars, linkVars, dfuVars, radio,
                   watch, apiVars, worldVars>>

\* External: the watch goes out of range.
LinkLost ==
    /\ radio /\ Disturb("drop")
    /\ radio' = FALSE
    /\ UNCHANGED <<syncVars, flagVars, linkVars, dfuVars, air, confirms, watch, apiVars,
                   worldVars>>

\* External: the watch reboots, which clears its reminder storage.
WatchReboots ==
    /\ Disturb("watch_reboot")
    /\ watch' = Blank /\ radio' = FALSE /\ missed' = TRUE
    /\ UNCHANGED <<last_sync_hash_, command_queue_, flagVars, linkVars, dfuVars, air,
                   confirms, apiVars, worldVars>>

\* The bridge restarts: every member variable is back at its initialiser.
BridgeReboots ==
    /\ Disturb("bridge_reboot")
    /\ api_reminders_' = NoReminders /\ boot_logged_' = FALSE
    /\ last_sync_hash_' = NoHash /\ command_queue_' = <<>> /\ missed' = FALSE
    /\ ble_busy_' = FALSE /\ pending_writes_' = 0 /\ last_sync_time_' = FALSE
    /\ ble_connected_' = FALSE /\ services_discovered_' = FALSE
    /\ upload_handle_' = FALSE /\ ans_handle_' = FALSE /\ searching' = FALSE
    /\ dfu_state' = "IDLE" /\ post_dfu_' = FALSE /\ updated' = FALSE
    /\ radio' = FALSE /\ air' = <<>> /\ confirms' = <<>>
    /\ UNCHANGED <<watch, worldVars>>

-----------------------------------------------------------------------------
\* The firmware update, as far as the sync is concerned (dfu_client.cpp).

\* loop(), pairing poll -> check_pairing_request_ -> start_dfu: download, then
\* open the link, which searches the services again if it is already open.
StartDfu(downloaded) ==
    /\ dfu_state = "IDLE" /\ Disturb("dfu")
    /\ dfu_state' = IF downloaded THEN "CONNECTING" ELSE "FAILED"
    /\ searching' = (searching \/ (downloaded /\ ble_connected_))
    /\ UNCHANGED <<syncVars, flagVars, ble_connected_, services_discovered_,
                   upload_handle_, ans_handle_, post_dfu_, updated, radioVars, apiVars,
                   worldVars>>

\* NOTIFY_EVT -> handle_notification_: a further write, the final activation,
\* or an error reported by the watch.  These writes are counted nowhere.
DfuNotified(phase) ==
    /\ dfu_state = "ACTIVE" /\ ble_connected_
    /\ phase \in {"ACTIVE", "COMPLETE", "FAILED"}
    /\ dfu_state' = phase
    /\ IF phase = "FAILED" THEN UNCHANGED air
       ELSE /\ Room
            /\ air' = Append(air, Other(IF phase = "COMPLETE" THEN "activate" ELSE "dfu"))
    /\ UNCHANGED <<syncVars, flagVars, linkVars, post_dfu_, updated, radio, confirms,
                   watch, apiVars, worldVars, disturbed>>

\* loop(), 5-minute safety timeout.
DfuTimesOut ==
    /\ dfu_state \in {"CONNECTING", "ACTIVE"}
    /\ dfu_state' = "IDLE"
    /\ UNCHANGED <<syncVars, flagVars, linkVars, post_dfu_, updated, radioVars, apiVars,
                   worldVars, disturbed>>

\* loop(), DFU complete or failed: the grace period starts.
DfuDone ==
    /\ dfu_state \in {"COMPLETE", "FAILED"}
    /\ dfu_state' = "IDLE" /\ post_dfu_' = TRUE
    /\ UNCHANGED <<syncVars, flagVars, linkVars, updated, radioVars, apiVars, worldVars,
                   disturbed>>

\* loop(), grace period over.  Two minutes are far longer than the link takes
\* to deliver the activation and to notice that the watch has reset.
GraceEndsKeepingHash ==
    /\ dfu_state = "IDLE" /\ post_dfu_
    /\ \A i \in DOMAIN air : air[i].kind # "activate"
    /\ ble_connected_ => radio
    /\ post_dfu_' = FALSE /\ updated' = FALSE
    /\ UNCHANGED <<syncVars, flagVars, linkVars, dfu_state, radioVars, apiVars,
                   worldVars, disturbed>>
GraceEnds ==
    /\ dfu_state = "IDLE" /\ post_dfu_
    /\ \A i \in DOMAIN air : air[i].kind # "activate"
    /\ ble_connected_ => radio
    /\ post_dfu_' = FALSE /\ last_sync_hash_' = NoHash /\ updated' = FALSE
    /\ UNCHANGED <<command_queue_, missed, flagVars, linkVars, dfu_state, radioVars,
                   apiVars, worldVars, disturbed>>

-----------------------------------------------------------------------------
Next ==
    \/ \E s \in Slots, entry \in Entry : EditServer(s, entry)
    \/ \E notify \in BOOLEAN : PollSucceeds(notify)
    \/ PollFails
    \/ Opened
    \/ \E hasService \in BOOLEAN : DiscoversForDfu(hasService)
    \/ \E hasService, timeSent \in BOOLEAN : Discovers(hasService, timeSent)
    \/ \E accepted \in BOOLEAN : ProcessNextCommand(accepted)
    \/ PeriodicRefresh
    \/ WriteConfirmed
    \/ Disconnected
    \/ WatchReceives
    \/ WatchRejects
    \/ LinkLost
    \/ WatchReboots
    \/ BridgeReboots
    \/ \E downloaded \in BOOLEAN : StartDfu(downloaded)
    \/ \E phase \in DfuPhase : DfuNotified(phase)
    \/ DfuTimesOut
    \/ DfuDone
    \/ GraceEnds

\* loop() runs for ever, the server answers eventually, an attempt to connect
\* eventually succeeds, and GATT events are delivered.
Fairness ==
    /\ WF_vars(PollSucceeds(FALSE)) /\ WF_vars(Opened)
    /\ WF_vars(DiscoversForDfu(TRUE)) /\ WF_vars(Discovers(TRUE, TRUE))
    /\ WF_vars(ProcessNextCommand(TRUE)) /\ WF_vars(WriteConfirmed)
    /\ WF_vars(Disconnected) /\ WF_vars(WatchReceives)
    /\ WF_vars(DfuTimesOut) /\ WF_vars(DfuDone) /\ WF_vars(GraceEnds)

Spec == Init /\ [][Next]_vars
FairSpec == Spec /\ Fairness

-----------------------------------------------------------------------------
TypeOK ==
    /\ server \in [Slots -> Entry] /\ api_reminders_ \in [Slots -> Entry]
    /\ boot_logged_ \in BOOLEAN
    /\ last_sync_hash_ \in Image \cup {NoHash}
    /\ command_queue_ \in Seq(QueueCmd) /\ missed \in BOOLEAN
    /\ ble_busy_ \in BOOLEAN /\ pending_writes_ \in Nat /\ last_sync_time_ \in BOOLEAN
    /\ ble_connected_ \in BOOLEAN /\ services_discovered_ \in BOOLEAN
    /\ upload_handle_ \in BOOLEAN /\ ans_handle_ \in BOOLEAN /\ searching \in BOOLEAN
    /\ dfu_state \in DfuPhase /\ post_dfu_ \in BOOLEAN /\ updated \in BOOLEAN
    /\ radio \in BOOLEAN /\ air \in Seq(AirCmd) /\ confirms \in Seq(CmdKind)
    /\ watch \in Image
    /\ edits \in Nat /\ disturbed \in Nat

\* What slot s will hold once everything sent and queued has taken effect: the
\* effect of the last command that touches s, in the queue or else on the air.
Touches(c, s) == c.kind = "delete_all" \/ (c.kind = "write" /\ c.slot = s)
Effect(c) == IF c.kind = "write" THEN c.msg ELSE NoMsg
Untouched(q, s) == \A i \in DOMAIN q : ~Touches(q[i], s)
LastSets(q, s, m) ==
    \E i \in DOMAIN q : /\ Touches(q[i], s) /\ Effect(q[i]) = m
                        /\ \A j \in DOMAIN q : j > i => ~Touches(q[j], s)
WillHold(s, m) ==
    \/ LastSets(command_queue_, s, m)
    \/ Untouched(command_queue_, s) /\ LastSets(air, s, m)
    \/ Untouched(command_queue_, s) /\ Untouched(air, s) /\ watch[s] = m

\* The hash is not a wish: unless a write of the last sync was refused, rejected
\* or lost without the bridge noticing, or the watch forgot its reminders, what
\* is on the watch, on the air and in the queue adds up, slot by slot, to
\* exactly the image the bridge remembers in last_sync_hash_.
HashIsFulfilled ==
    last_sync_hash_ # NoHash /\ ~missed =>
        \A s \in Slots : WillHold(s, last_sync_hash_[s])

\* pending_writes_ never counts a write whose response cannot come any more, so
\* it returns to 0 and a later disconnect is not taken for an unfinished sync.
PendingDrains == pending_writes_ <= Len(air) + Len(confirms)

\* A command queued on one connection is never sent on the next one: the queue
\* is empty whenever the handles it needs are unknown.
NoStaleCommand == command_queue_ # <<>> => ble_connected_ /\ upload_handle_

\* Until the grace period ends, no reminder reaches the freshly booted firmware
\* ("let the freshly booted firmware stabilize", pinetime_bridge.cpp:146): not
\* from a poll or a discovery, and not from the queue, which loop() drains all
\* through the grace period and which may hold a sync from before the update.
FreshFirmwareSpared == updated => watch = Blank

\* Once the edits and disturbances are over the watch comes to hold the server's
\* enabled reminders for good.  README.md:178 claims it of a watch that reboots,
\* and ARCHITECTURE.md:224 that the DFU timeout "prevents stuck state".
EventuallySynced == <>[](watch = ImageOf(server))

\* What does hold where links drop, notifications are sent and firmware is
\* updated: the watch is synced for good, unless a write was lost without the
\* bridge noticing, or the link that stays open was searched only for the DFU
\* service.
DfuOnlyLink == ble_connected_ /\ ~services_discovered_
EventuallySyncedOrCut == <>[](watch = ImageOf(server) \/ missed \/ DfuOnlyLink)

\* An update also repairs what was lost: the hash is forgotten when the grace
\* period ends ("force full reminder sync on next poll", pinetime_bridge.cpp:171).
EventuallySyncedAfterDfu ==
    [](post_dfu_ => <>[](watch = ImageOf(server) \/ DfuOnlyLink))
=============================================================================
