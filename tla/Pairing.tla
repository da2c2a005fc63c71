------------------------------- MODULE Pairing -------------------------------
(***************************************************************************)
(* Pairing the bridge with a watch.  Four parties share the work: the web  *)
(* page (index.html), the server's pairing entry (sqlite.go, handlers.go), *)
(* the bridge's loop() and the GAP callback, which runs on the Bluetooth   *)
(* task and talks to loop() through flags.  They meet only in the entry on *)
(* the server and in those flags; everything is polled.                    *)
(*                                                                         *)
(* An attempt to open a link is a state of its own beside the link: the    *)
(* bridge dials on a selection and for an update without looking whether a *)
(* link is open, and an open link may drop while an attempt is under way.  *)
(*                                                                         *)
(* There is one watch, whose address the configuration names too           *)
(* (pinetime-bridge.yaml:925).  The passkey it shows in its n-th pairing   *)
(* is n.  Of a firmware update only what concerns the link is here.        *)
(***************************************************************************)
EXTENDS Naturals

CONSTANTS
    Faults,      \* the kinds of fault that may happen
    MaxFaults,   \* bound: faults in a behaviour
    MaxRequests, \* bound: times the user selects the watch or asks for an update
    MaxPairings  \* bound: times the watch starts a pairing

FaultKind == {"post_lost", "open_fails", "restore_fails", "drop", "reboot",
              "auth_timeout", "cancel"}

ASSUME PairingAssumption ==
    /\ Faults \subseteq FaultKind
    /\ MaxFaults \in Nat /\ MaxRequests \in Nat /\ MaxPairings \in Nat

VARIABLES
    entry,                 \* the server's pairing entry: state, and passkey if any
    watch_mac,             \* the user record on the server names the watch
    shown,                 \* the page's pairing panel
    polling,               \* the page polls the entry every 2 s
    paired_address_,       \* whether the bridge knows the watch's address
    nvs,                   \* whether that address has been saved
    boot_logged_,          \* a poll has succeeded since boot
    pairing_in_progress_, passkey_pending_,
    gap_event_pending_,    \* 0 none, 1 passkey needed, 2 paired, 3 failed
    evt,                   \* the event loop() has read and not yet reported
    doing,                 \* what loop() is half-way through, "none" between its blocks
    dfu_active,            \* an update holds loop()
    ble_connected_,
    link,                  \* external: "down", "searching" or "ready"
    opening,               \* external: an attempt to open has not been answered
    refused,               \* history: an attempt since the last selection has failed
    auth,                  \* external: "none", "asked", "replied" or "done"
    reply,                 \* external: the passkey the bridge has injected
    passkey,               \* external: the passkey of the watch's last pairing
    seen,                  \* the passkey the user last read from the watch
    requests, faults       \* bound counters

serverVars == <<entry, watch_mac>>
pageVars   == <<shown, polling, seen, requests>>
memoryVars == <<paired_address_, nvs, boot_logged_>>
flagVars   == <<passkey_pending_, gap_event_pending_, evt, doing>>
linkVars   == <<ble_connected_, link, opening, refused>>
authVars   == <<auth, reply, passkey>>
bridgeVars == <<memoryVars, pairing_in_progress_, flagVars, dfu_active, linkVars>>
vars == <<serverVars, pageVars, bridgeVars, authVars, faults>>

EntryState == {"idle", "connecting", "passkey_needed", "passkey_entered", "failed",
               "dfu"}
At(state) == [state |-> state, key |-> 0]
Idle == At("idle")
Panel == {"Idle", "Waiting", "Input", "Success", "Failed"}

Fault(kind) == kind \in Faults /\ faults < MaxFaults /\ faults' = faults + 1

\* http_post_, whose result nobody looks at.
Post(new, arrives) ==
    IF arrives THEN entry' = new /\ UNCHANGED faults
    ELSE Fault("post_lost") /\ UNCHANGED entry

\* loop(), the GATT events and the intervals of the configuration run on one task:
\* none of them runs while loop() is half-way through a deferred event or a reply.
\* While an update is active loop() does nothing else.
MainTask == doing = "none"
Loop == MainTask /\ ~dfu_active

Init ==
    /\ entry = Idle /\ watch_mac = FALSE
    /\ shown = "Idle" /\ polling = FALSE /\ seen = 0 /\ requests = 0
    /\ paired_address_ = FALSE /\ nvs = FALSE /\ boot_logged_ = FALSE
    /\ pairing_in_progress_ = FALSE /\ passkey_pending_ = FALSE
    /\ gap_event_pending_ = 0 /\ evt = 0 /\ doing = "none" /\ dfu_active = FALSE
    /\ ble_connected_ = FALSE /\ link = "down" /\ opening = FALSE /\ refused = FALSE
    /\ auth = "none" /\ reply = 0 /\ passkey = 0
    /\ faults = 0

-----------------------------------------------------------------------------
\* The web page and its user.

\* selectWatch: saves the address in the user record, then asks the bridge to
\* connect.
SelectWatch ==
    /\ requests < MaxRequests /\ requests' = requests + 1
    /\ watch_mac' = TRUE /\ entry' = At("connecting")
    /\ shown' = "Waiting" /\ polling' = TRUE
    /\ UNCHANGED <<seen, bridgeVars, authVars, faults>>

\* triggerDfu: asks for an update through the same entry, whatever it was.
RequestDfu ==
    /\ requests < MaxRequests /\ requests' = requests + 1
    /\ entry' = At("dfu")
    /\ UNCHANGED <<watch_mac, shown, polling, seen, bridgeVars, authVars, faults>>

PanelWithoutInput(state) ==
    CASE state = "passkey_entered" -> "Waiting"
      [] state = "failed" -> "Failed"
      [] OTHER -> "Idle"

\* showPairingState, with the state the server answers.
PanelFor(state) ==
    CASE state = "passkey_needed" -> "Input"
      [] state = "passkey_entered" -> "Waiting"
      [] state = "paired" -> "Success"
      [] state = "failed" -> "Failed"
      [] OTHER -> "Idle"

PollPage ==
    /\ polling
    /\ shown' = PanelFor(entry.state)
    /\ polling' = (entry.state \notin {"failed", "paired"})
    /\ UNCHANGED <<serverVars, seen, requests, bridgeVars, authVars, faults>>

\* loadEquipment, every 30 s while the tab is open.
LoadPage ==
    /\ shown' = PanelFor(entry.state)
    /\ polling' = (polling \/ entry.state \in {"passkey_needed", "passkey_entered"})
    /\ UNCHANGED <<serverVars, seen, requests, bridgeVars, authVars, faults>>

\* The user looks at the watch.
ReadPasskey ==
    /\ auth = "asked" /\ seen # passkey
    /\ seen' = passkey
    /\ UNCHANGED <<serverVars, shown, polling, requests, bridgeVars, authVars, faults>>

\* submitPasskey -> SetPairingState "passkey_entered": whatever the entry was.
SubmitPasskey ==
    /\ shown = "Input" /\ seen > 0
    /\ entry' = [state |-> "passkey_entered", key |-> seen]
    /\ shown' = "Waiting" /\ polling' = TRUE
    /\ UNCHANGED <<watch_mac, seen, requests, bridgeVars, authVars, faults>>

\* cancelPairing, or clearPairing after a result.
ClearPage ==
    /\ IF shown \in {"Success", "Failed"} THEN UNCHANGED faults
       ELSE shown = "Input" /\ Fault("cancel")
    /\ entry' = Idle /\ shown' = "Idle" /\ polling' = FALSE
    /\ UNCHANGED <<watch_mac, seen, requests, bridgeVars, authVars>>

-----------------------------------------------------------------------------
\* The bridge's loop() and GATT events.

\* loop() -> check_pairing_request_, "connecting": dial the selected watch, whether
\* or not a link is open.
CheckConnecting ==
    /\ entry.state = "connecting" /\ ~pairing_in_progress_ /\ Loop
    /\ paired_address_' = TRUE /\ pairing_in_progress_' = TRUE
    /\ opening' = TRUE /\ refused' = FALSE
    /\ UNCHANGED <<serverVars, pageVars, nvs, boot_logged_, flagVars, dfu_active,
                   ble_connected_, link, authVars, faults>>

\* loop() -> check_pairing_request_, "dfu": clear the request, fetch the firmware
\* and dial the address of the BLE client: the one of the last selection, of the
\* restored pairing or of the configuration, whether or not the bridge is paired.
CheckDfu(arrives, downloaded) ==
    /\ entry.state = "dfu" /\ Loop
    /\ Post(Idle, arrives)
    /\ dfu_active' = downloaded
    /\ opening' = (opening \/ downloaded)
    /\ UNCHANGED <<watch_mac, pageVars, memoryVars, pairing_in_progress_, flagVars,
                   ble_connected_, link, refused, authVars>>

\* The update completes, fails or times out; loop() goes on.
DfuEnds ==
    /\ dfu_active /\ dfu_active' = FALSE
    /\ UNCHANGED <<serverVars, pageVars, memoryVars, pairing_in_progress_, flagVars,
                   linkVars, authVars, faults>>

\* loop() -> check_pairing_request_, "passkey_entered": inject it, then (below)
\* clear the flag.
CheckPasskey ==
    /\ entry.state = "passkey_entered" /\ passkey_pending_ /\ Loop
    /\ doing' = "replying"
    /\ IF auth = "asked" THEN auth' = "replied" /\ reply' = entry.key
       ELSE UNCHANGED <<auth, reply>>
    /\ UNCHANGED <<serverVars, pageVars, memoryVars, pairing_in_progress_,
                   passkey_pending_, gap_event_pending_, evt, dfu_active, linkVars,
                   passkey, faults>>
ReplyDone ==
    /\ doing = "replying" /\ doing' = "none" /\ passkey_pending_' = FALSE
    /\ UNCHANGED <<serverVars, pageVars, memoryVars, pairing_in_progress_,
                   gap_event_pending_, evt, dfu_active, linkVars, authVars, faults>>

\* loop(), deferred GAP events: read the flag, clear it, report to the server.
ReadGapEvent ==
    /\ gap_event_pending_ > 0 /\ Loop
    /\ evt' = gap_event_pending_ /\ doing' = "clearing"
    /\ UNCHANGED <<serverVars, pageVars, memoryVars, pairing_in_progress_,
                   passkey_pending_, gap_event_pending_, dfu_active, linkVars, authVars,
                   faults>>
ClearGapEvent ==
    /\ doing = "clearing" /\ doing' = "reporting" /\ gap_event_pending_' = 0
    /\ UNCHANGED <<serverVars, pageVars, memoryVars, pairing_in_progress_,
                   passkey_pending_, evt, dfu_active, linkVars, authVars, faults>>
ReportPaired(event) == IF event = 1 THEN At("passkey_needed") ELSE At("paired")
Report(event) == CASE event = 1 -> At("passkey_needed")
                   [] event = 2 -> Idle
                   [] event = 3 -> At("failed")
ReportGapEvent(arrives) ==
    /\ doing = "reporting" /\ doing' = "none" /\ evt' = 0
    /\ Post(Report(evt), arrives)
    /\ UNCHANGED <<watch_mac, pageVars, memoryVars, pairing_in_progress_,
                   passkey_pending_, gap_event_pending_, dfu_active, linkVars, authVars>>

\* poll_api_, first success since boot: restore the address from the server.
FirstPoll(answered) ==
    /\ Loop /\ ~boot_logged_ /\ boot_logged_' = TRUE
    /\ IF paired_address_ THEN answered /\ UNCHANGED <<paired_address_, faults>>
       ELSE IF answered THEN paired_address_' = watch_mac /\ UNCHANGED faults
       ELSE Fault("restore_fails") /\ UNCHANGED paired_address_
    /\ UNCHANGED <<serverVars, pageVars, nvs, pairing_in_progress_, flagVars, dfu_active,
                   linkVars, authVars>>

\* pinetime-bridge.yaml, every 10 s: save the address.
SaveAddress ==
    /\ paired_address_ /\ ~nvs /\ MainTask
    /\ nvs' = TRUE
    /\ UNCHANGED <<serverVars, pageVars, paired_address_, boot_logged_,
                   pairing_in_progress_, flagVars, dfu_active, linkVars, authVars, faults>>

\* loop(), persistent connection: dial every 5 s, which adds nothing to an attempt
\* that is under way.
ReconnectAtBoot == ~boot_logged_ /\ paired_address_ /\ ~pairing_in_progress_
MayReconnect == paired_address_ /\ ~pairing_in_progress_
Reconnect ==
    /\ ~ble_connected_ /\ MayReconnect /\ Loop
    /\ opening' = TRUE
    /\ UNCHANGED <<serverVars, pageVars, memoryVars, pairing_in_progress_, flagVars,
                   dfu_active, ble_connected_, link, refused, authVars, faults>>

OpenSucceedsStillPairing(arrives) ==
    /\ opening /\ MainTask
    /\ opening' = FALSE /\ link' = "searching" /\ ble_connected_' = TRUE
    /\ IF pairing_in_progress_ THEN Post(Idle, arrives)
       ELSE arrives /\ UNCHANGED <<entry, faults>>
    /\ UNCHANGED <<watch_mac, pageVars, memoryVars, pairing_in_progress_, flagVars,
                   dfu_active, refused, authVars>>

\* OPEN_EVT, success, of a new link or of the one already open: report "paired" if
\* a pairing was under way.
OpenSucceeds(arrives) ==
    /\ opening /\ MainTask
    /\ opening' = FALSE /\ link' = "searching" /\ ble_connected_' = TRUE
    /\ pairing_in_progress_' = FALSE
    /\ IF pairing_in_progress_ THEN Post(Idle, arrives)
       ELSE arrives /\ UNCHANGED <<entry, faults>>
    /\ UNCHANGED <<watch_mac, pageVars, memoryVars, flagVars, dfu_active, refused,
                   authVars>>

\* OPEN_EVT with an error status: the handler does nothing.
OpenFails ==
    /\ opening /\ MainTask /\ Fault("open_fails")
    /\ opening' = FALSE /\ refused' = TRUE
    /\ auth' = IF link # "down" \/ auth = "done" THEN auth ELSE "none"
    /\ UNCHANGED <<serverVars, pageVars, memoryVars, pairing_in_progress_, flagVars,
                   dfu_active, ble_connected_, link, reply, passkey>>

\* SEARCH_CMPL_EVT.  It requests encryption if a pairing is under way, which it is
\* only when the watch was selected while this link was already open; that may
\* make the watch ask for a passkey, as it may at any time (PasskeyRequested).
SearchCompletes ==
    /\ link = "searching" /\ MainTask
    /\ link' = "ready"
    /\ UNCHANGED <<serverVars, pageVars, memoryVars, pairing_in_progress_, flagVars,
                   dfu_active, ble_connected_, opening, refused, authVars, faults>>

-----------------------------------------------------------------------------
\* The GAP callback on the Bluetooth task, and what happens around it.

\* PASSKEY_REQ_EVT: a pairing starts, at the request of either side, over a link
\* whose OPEN_EVT may still be on its way to the main task.
PasskeyRequested ==
    /\ link # "down" \/ opening
    /\ auth = "none" /\ passkey < MaxPairings
    /\ auth' = "asked" /\ passkey' = passkey + 1
    /\ passkey_pending_' = TRUE /\ gap_event_pending_' = 1
    /\ UNCHANGED <<serverVars, pageVars, memoryVars, pairing_in_progress_, evt, doing,
                   dfu_active, linkVars, reply, faults>>

\* AUTH_CMPL_EVT after a reply.
AuthCompletes ==
    /\ auth = "replied"
    /\ auth' = IF reply = passkey THEN "done" ELSE "none"
    /\ gap_event_pending_' = IF reply = passkey THEN 2 ELSE 3
    /\ pairing_in_progress_' = FALSE
    /\ UNCHANGED <<serverVars, pageVars, memoryVars, passkey_pending_, evt, doing,
                   dfu_active, linkVars, reply, passkey, faults>>

\* AUTH_CMPL_EVT with a failure: no passkey came in time.
AuthTimesOut ==
    /\ auth = "asked" /\ Fault("auth_timeout")
    /\ auth' = "none" /\ gap_event_pending_' = 3
    /\ pairing_in_progress_' = FALSE
    /\ UNCHANGED <<serverVars, pageVars, memoryVars, passkey_pending_, evt, doing,
                   dfu_active, linkVars, reply, passkey>>

\* DISCONNECT_EVT of the open link, whether or not another attempt is under way.
\* The watch is out of range for a while, or restarts into new firmware.
Disconnected ==
    /\ link # "down" /\ MainTask /\ Fault("drop")
    /\ link' = "down" /\ ble_connected_' = FALSE
    /\ auth' = IF auth = "done" THEN auth ELSE "none"
    /\ UNCHANGED <<serverVars, pageVars, memoryVars, pairing_in_progress_, flagVars,
                   dfu_active, opening, refused, reply, passkey>>

\* The bridge restarts; on_boot restores the saved address.
BridgeReboots ==
    /\ Fault("reboot")
    /\ paired_address_' = nvs /\ boot_logged_' = FALSE
    /\ pairing_in_progress_' = FALSE /\ passkey_pending_' = FALSE
    /\ gap_event_pending_' = 0 /\ evt' = 0 /\ doing' = "none" /\ dfu_active' = FALSE
    /\ ble_connected_' = FALSE /\ link' = "down" /\ opening' = FALSE /\ refused' = FALSE
    /\ auth' = IF auth = "done" THEN auth ELSE "none"
    /\ UNCHANGED <<serverVars, pageVars, nvs, reply, passkey>>

-----------------------------------------------------------------------------
Next ==
    \/ SelectWatch \/ RequestDfu
    \/ PollPage \/ LoadPage \/ ReadPasskey \/ SubmitPasskey \/ ClearPage
    \/ CheckConnecting \/ CheckPasskey \/ ReplyDone
    \/ \E arrives, downloaded \in BOOLEAN : CheckDfu(arrives, downloaded)
    \/ DfuEnds
    \/ ReadGapEvent \/ ClearGapEvent \/ \E arrives \in BOOLEAN : ReportGapEvent(arrives)
    \/ \E answered \in BOOLEAN : FirstPoll(answered)
    \/ SaveAddress \/ Reconnect
    \/ \E arrives \in BOOLEAN : OpenSucceeds(arrives)
    \/ OpenFails \/ SearchCompletes
    \/ PasskeyRequested \/ AuthCompletes \/ AuthTimesOut
    \/ Disconnected \/ BridgeReboots

\* The tab stays open and its user is there, page and loop() keep polling, the
\* server answers, the stack answers every attempt to open, Bluetooth events are
\* delivered, and the safety timeout ends an update.  Nothing has to select a
\* watch, start a pairing, request an update or fail.
Fairness ==
    /\ WF_vars(PollPage) /\ WF_vars(LoadPage)
    /\ WF_vars(ReadPasskey) /\ WF_vars(SubmitPasskey)
    /\ WF_vars(CheckConnecting) /\ WF_vars(CheckDfu(TRUE, TRUE)) /\ WF_vars(DfuEnds)
    /\ WF_vars(CheckPasskey) /\ WF_vars(ReplyDone)
    /\ WF_vars(ReadGapEvent) /\ WF_vars(ClearGapEvent) /\ WF_vars(ReportGapEvent(TRUE))
    /\ WF_vars(FirstPoll(TRUE)) /\ WF_vars(SaveAddress) /\ WF_vars(Reconnect)
    /\ WF_vars(OpenSucceeds(TRUE)) /\ WF_vars(SearchCompletes)
    /\ WF_vars(AuthCompletes)

Spec == Init /\ [][Next]_vars
FairSpec == Spec /\ Fairness

-----------------------------------------------------------------------------
TypeOK ==
    /\ entry \in [state : EntryState, key : 0..MaxPairings]
    /\ watch_mac \in BOOLEAN /\ shown \in Panel /\ polling \in BOOLEAN
    /\ paired_address_ \in BOOLEAN /\ nvs \in BOOLEAN /\ boot_logged_ \in BOOLEAN
    /\ pairing_in_progress_ \in BOOLEAN /\ passkey_pending_ \in BOOLEAN
    /\ gap_event_pending_ \in 0..3 /\ evt \in 0..3 /\ dfu_active \in BOOLEAN
    /\ doing \in {"none", "replying", "clearing", "reporting"}
    /\ (doing \in {"clearing", "reporting"} => evt > 0)
    /\ ble_connected_ \in BOOLEAN /\ link \in {"down", "searching", "ready"}
    /\ opening \in BOOLEAN /\ refused \in BOOLEAN
    /\ auth \in {"none", "asked", "replied", "done"} /\ reply \in 0..MaxPairings
    /\ passkey \in 0..MaxPairings /\ seen \in 0..MaxPairings
    /\ requests \in 0..MaxRequests /\ faults \in 0..MaxFaults

\* pairing_in_progress_ keeps loop() from reconnecting and check_pairing_request_
\* from dialling the next selection, and no timeout clears it.  It is left set with
\* nothing under way that could clear it only by an OPEN_EVT with an error
\* (pinetime_bridge.cpp:268 has no else): not by a link that drops while the new one
\* is dialled, by an update that dials in between, nor by a restart.
StuckOnlyIfRefused == pairing_in_progress_ => opening \/ refused

\* ARCHITECTURE.md:217 "Bridge maintains a persistent BLE connection to the watch
\* (auto-reconnect with 5s backoff)": over every fault, once the user has selected a
\* watch, the bridge ends up connected to it unless an attempt to pair failed to open,
\* or the only request for the address after a restart (poll_api_) did not bring it.
FailedAttempt == pairing_in_progress_ /\ refused /\ ~opening
ForgottenAddress == boot_logged_ /\ ~paired_address_
EventuallyConnectedOrStuck ==
    <>[](watch_mac => ble_connected_ \/ FailedAttempt \/ ForgottenAddress)

\* The way of a passkey: the watch asks, the Bluetooth task flags it, loop()
\* reports it, the page shows it, the user types it, the page posts it, loop()
\* fetches and injects it.  Where nothing fails the chain comes to its end, unless
\* the entry that carries it is cleared by the "paired" that OPEN_EVT posts or by
\* the request for an update.
RequestWiped == entry = Idle /\ gap_event_pending_ = 0 /\ MainTask
PasskeyAnswered ==
    [](auth = "asked" => <>(auth # "asked" \/ RequestWiped \/ faults > 0))
=============================================================================
