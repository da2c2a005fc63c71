--------------------------------- MODULE Dfu ---------------------------------
(***************************************************************************)
(* A firmware update from the upload to the reset of the watch: the        *)
(* server's firmware files and its "dfu" request, the bridge's DfuClient   *)
(* with the blocks of loop() that drive it, and the DFU service of the     *)
(* watch at the other end of the link.                                     *)
(*                                                                         *)
(* Writes to the watch and notifications to the bridge are two FIFO        *)
(* channels.  A pair of writes that are sent back to back (command and     *)
(* packet) is one message.  A firmware is its number of chunks of          *)
(* CHUNK_SIZE bytes; the CRC in the .dat file tells versions and holes     *)
(* apart.  The five minutes of the safety timeout are not counted: it      *)
(* fires when nothing can move any more, or early as the fault "slow".     *)
(***************************************************************************)
EXTENDS Integers, Sequences, FiniteSets

CONSTANTS
    Versions,          \* firmware versions that are uploaded
    BinChunks,         \* chunks of each version's .bin
    Capacity,          \* chunks that fit the download buffer of 500000 bytes
    RECEIPT_INTERVAL,  \* chunks sent before waiting for a receipt
    NoVersion,         \* no firmware, or bytes of no single firmware
    Faults,            \* the kinds of fault that may happen
    MaxFaults,         \* bound: faults in a behaviour
    MaxRequests,       \* bound: updates requested
    MaxUploads         \* bound: firmware uploads

FaultKind == {"slow", "write_refused", "error", "link_lost", "post_lost",
              "download_fails", "upload_fails", "no_service"}

ASSUME DfuAssumption ==
    /\ NoVersion \notin Versions
    /\ BinChunks \in [Versions -> Nat \ {0}]
    /\ Capacity \in Nat \ {0} /\ RECEIPT_INTERVAL \in Nat \ {0}
    /\ Faults \subseteq FaultKind
    /\ MaxFaults \in Nat /\ MaxRequests \in Nat /\ MaxUploads \in Nat

VARIABLES
    request,                \* the server's pairing state is "dfu"
    files,                  \* firmware.bin and firmware.dat on the server
    uploading,              \* the upload that has written only its .bin
    state_,                 \* DfuClient::state_
    have,                   \* bin_data_ with its length, and dat_data_
    bytes_sent_,            \* counted in chunks
    packets_since_receipt_, waiting_for_notification_,
    link,                   \* "down", "opening", "searching" or "ready"
    air,                    \* writes on their way to the watch
    notes,                  \* notifications on their way to the bridge
    wstate,                 \* external: state of the watch's DFU service
    wimage,                 \* external: what it was promised and has received
    slot,                   \* external: the image it validated last
    running,                \* external: the firmware the watch runs
    stale,                  \* history: a transfer was given up with messages under way
    lostClears,             \* history: posts that should have cleared a request
    starts, requests, uploads, faults   \* counters: updates started; and bounds

serverVars == <<request, files, uploading, requests, uploads, lostClears>>
clientVars == <<state_, have, bytes_sent_, packets_since_receipt_,
                waiting_for_notification_, stale, starts>>
linkVars   == <<link, air, notes>>
watchVars  == <<wstate, wimage, slot, running>>
vars == <<serverVars, clientVars, linkVars, watchVars, faults>>

DfuState == {"IDLE", "DOWNLOADING", "CONNECTING", "STARTING", "SENDING_INIT",
             "SENDING_FIRMWARE", "VALIDATING", "COMPLETE", "FAILED"}
NoImage == [bin |-> NoVersion, len |-> 0, dat |-> NoVersion]
NoTransfer == [dat |-> NoVersion, len |-> 0, ver |-> NoVersion, got |-> 0]

\* loop()'s dfu_active: the states in which it does nothing else.
Active == state_ \notin {"IDLE", "COMPLETE", "FAILED"}
Up == link \in {"searching", "ready"}

IsChunk(c) == c.op = "chunk"
ChunksIn(q) == Cardinality({i \in DOMAIN q : IsChunk(q[i])})
AtMost(a, b) == IF a < b THEN a ELSE b

Fault(kind) == kind \in Faults /\ faults < MaxFaults /\ faults' = faults + 1

Init ==
    /\ request = FALSE /\ uploading = NoVersion
    /\ \E v \in Versions : files = [bin |-> v, dat |-> v]
    /\ state_ = "IDLE" /\ have = NoImage
    /\ bytes_sent_ = 0 /\ packets_since_receipt_ = 0
    /\ waiting_for_notification_ = FALSE
    /\ link = "down" /\ air = <<>> /\ notes = <<>>
    /\ wstate = "Idle" /\ wimage = NoTransfer
    /\ slot = NoVersion /\ running = NoVersion
    /\ stale = FALSE /\ lostClears = 0
    /\ starts = 0 /\ requests = 0 /\ uploads = 0 /\ faults = 0

-----------------------------------------------------------------------------
\* The server (handlers.go).

\* The web UI or curl asks for an update.
RequestDfu ==
    /\ requests < MaxRequests
    /\ request' = TRUE /\ requests' = requests + 1
    /\ UNCHANGED <<files, uploading, uploads, lostClears, clientVars, linkVars, watchVars, faults>>

\* UploadFirmware writes firmware.bin, then firmware.dat.
UploadBin(v) ==
    /\ uploading = NoVersion /\ uploads < MaxUploads
    /\ uploading' = v /\ files' = [files EXCEPT !.bin = v]
    /\ uploads' = uploads + 1
    /\ UNCHANGED <<request, requests, lostClears, clientVars, linkVars, watchVars, faults>>

UploadDat(written) ==
    /\ uploading # NoVersion
    /\ uploading' = NoVersion
    /\ IF written THEN files' = [files EXCEPT !.dat = uploading] /\ UNCHANGED faults
       ELSE Fault("upload_fails") /\ UNCHANGED files
    /\ UNCHANGED <<request, requests, uploads, lostClears, clientVars, linkVars, watchVars>>

-----------------------------------------------------------------------------
\* The bridge.

\* Writes are lost when the link is down; their result is not looked at.
Send(msgs) == air' = IF Up THEN air \o msgs ELSE air

\* The post that clears the request; its result is not looked at.
ClearRequestNever(posted) == posted /\ UNCHANGED <<request, lostClears, faults>>
ClearRequest(posted) ==
    IF posted THEN request' = FALSE /\ UNCHANGED <<lostClears, faults>>
    ELSE Fault("post_lost") /\ lostClears' = lostClears + 1 /\ UNCHANGED request

\* check_pairing_request_: clear the request on the server, then start().
StartDfu(posted) ==
    /\ state_ = "IDLE" /\ request
    /\ ClearRequest(posted)
    /\ state_' = "DOWNLOADING" /\ have' = NoImage
    /\ bytes_sent_' = 0 /\ packets_since_receipt_' = 0
    /\ waiting_for_notification_' = FALSE
    /\ starts' = starts + 1
    /\ UNCHANGED <<files, uploading, requests, uploads, stale, linkVars, watchVars>>

\* download_firmware_: the .bin, of which what does not fit is dropped.
DownloadBin(answered) ==
    /\ state_ = "DOWNLOADING" /\ have.bin = NoVersion
    /\ IF answered
       THEN /\ have' = [have EXCEPT !.bin = files.bin,
                                    !.len = AtMost(BinChunks[files.bin], Capacity)]
            /\ UNCHANGED <<state_, faults>>
       ELSE Fault("download_fails") /\ state_' = "FAILED" /\ UNCHANGED have
    /\ UNCHANGED <<serverVars, bytes_sent_, packets_since_receipt_,
                   waiting_for_notification_, stale, starts, linkVars, watchVars>>

\* download_firmware_: the .dat; then the link is opened, which searches the
\* services again if it is open already.
DownloadDat(answered) ==
    /\ state_ = "DOWNLOADING" /\ have.bin # NoVersion
    /\ IF answered
       THEN /\ have' = [have EXCEPT !.dat = files.dat] /\ state_' = "CONNECTING"
            /\ link' = IF Up THEN "searching" ELSE "opening"
            /\ UNCHANGED faults
       ELSE Fault("download_fails") /\ state_' = "FAILED" /\ UNCHANGED <<have, link>>
    /\ UNCHANGED <<serverVars, bytes_sent_, packets_since_receipt_,
                   waiting_for_notification_, stale, starts, air, notes, watchVars>>

\* loop(), reconnect block: only when no update is under way.
Reconnect ==
    /\ link = "down" /\ state_ = "IDLE"
    /\ link' = "opening"
    /\ UNCHANGED <<serverVars, clientVars, air, notes, watchVars, faults>>

\* OPEN_EVT; the services are searched.  GATT events are handled in order: what
\* the last link left comes first.
Opened ==
    /\ link = "opening" /\ notes = <<>>
    /\ link' = "searching"
    /\ UNCHANGED <<serverVars, clientVars, air, notes, watchVars, faults>>

\* SEARCH_CMPL_EVT: discover_services_ hands the DFU handles to the client that
\* waits for them.  GATT events are not handled while the download blocks.
SearchCompletes(found) ==
    /\ link = "searching" /\ state_ # "DOWNLOADING"
    /\ link' = "ready"
    /\ IF found THEN UNCHANGED faults ELSE Fault("no_service")
    /\ IF state_ = "CONNECTING" /\ found
       THEN /\ state_' = "STARTING"
            /\ Send(<<[op |-> "start", len |-> have.len]>>)
            /\ waiting_for_notification_' = TRUE
       ELSE UNCHANGED <<state_, air, waiting_for_notification_>>
    /\ UNCHANGED <<serverVars, have, bytes_sent_, packets_since_receipt_, stale, starts,
                   notes, watchVars>>

\* send_firmware_chunks_ after the given chunks and packets: at most
\* RECEIPT_INTERVAL unacknowledged ones; it always ends up waiting.
BurstUnbounded(sent, packets) == AtMost(have.len - sent, RECEIPT_INTERVAL)
BurstShort(sent, packets) == AtMost(have.len - sent - 1, RECEIPT_INTERVAL - packets)
Burst(sent, packets) == AtMost(have.len - sent, RECEIPT_INTERVAL - packets)
Chunks(from, n) ==
    [i \in 1..n |-> [op |-> "chunk", ver |-> have.bin, no |-> from + i]]
SendChunks(prefix, sent, packets) ==
    LET n == Burst(sent, packets) IN
    /\ Send(prefix \o Chunks(sent, n))
    /\ bytes_sent_' = sent + n
    /\ packets_since_receipt_' = packets + n
    /\ waiting_for_notification_' = TRUE

\* The steps of handle_notification_ that send one request, and the state they
\* lead to.  ACTIVATING lasts only inside the handler.
ReplyUnvalidated(note) == [op |-> IF note = "started" THEN "init" ELSE "activate",
                           dat |-> have.dat]
Reply(note) == [op |-> CASE note = "started" -> "init"
                         [] note = "received" -> "validate"
                         [] note = "validated" -> "activate",
                dat |-> have.dat]
PhaseAfterTooEarly(note) == IF note = "started" THEN "SENDING_INIT" ELSE "COMPLETE"
PhaseAfter(note) == CASE note = "started" -> "SENDING_INIT"
                      [] note = "received" -> "VALIDATING"
                      [] note = "validated" -> "COMPLETE"

\* NOTIFY_EVT -> handle_notification_, whatever the state of the transfer.
HandleNotification ==
    /\ notes # <<>> /\ state_ # "DOWNLOADING"
    /\ notes' = Tail(notes)
    /\ LET n == Head(notes) IN
       \/ /\ ~Active
          /\ UNCHANGED <<state_, air, bytes_sent_, packets_since_receipt_,
                         waiting_for_notification_>>
       \/ /\ Active /\ n \in {"started", "received", "validated"}
          /\ state_' = PhaseAfter(n) /\ Send(<<Reply(n)>>)
          /\ waiting_for_notification_' = (n # "validated")
          /\ UNCHANGED <<bytes_sent_, packets_since_receipt_>>
       \/ /\ Active /\ n = "initialised"
          /\ state_' = "SENDING_FIRMWARE"
          /\ SendChunks(<<[op |-> "receive"]>>, 0, 0)
       \/ /\ Active /\ n = "receipt"
          /\ SendChunks(<<>>, bytes_sent_, 0)
          /\ UNCHANGED state_
       \/ /\ Active /\ n \in {"error", "other"}
          /\ state_' = IF n = "error" THEN "FAILED" ELSE state_
          /\ waiting_for_notification_' = FALSE
          /\ UNCHANGED <<air, bytes_sent_, packets_since_receipt_>>
    /\ UNCHANGED <<serverVars, have, stale, starts, link, watchVars, faults>>

\* loop() -> process().
Process ==
    /\ state_ = "SENDING_FIRMWARE" /\ ~waiting_for_notification_
    /\ SendChunks(<<>>, bytes_sent_, packets_since_receipt_)
    /\ UNCHANGED <<serverVars, state_, have, stale, starts, link, notes, watchVars, faults>>

\* loop(), safety timeout: reset() frees the image; the link stays as it is.
Stalled ==
    /\ air = <<>> /\ notes = <<>> /\ link \in {"down", "ready"}
    /\ ~(state_ = "SENDING_FIRMWARE" /\ ~waiting_for_notification_)
TimedWhileSending == {"STARTING", "SENDING_INIT", "SENDING_FIRMWARE", "VALIDATING"}
TimedStates == DfuState \ {"IDLE", "DOWNLOADING", "COMPLETE", "FAILED"}
TimesOut(early) ==
    /\ state_ \in TimedStates
    /\ IF early THEN ~Stalled /\ Fault("slow") ELSE Stalled /\ UNCHANGED faults
    /\ state_' = "IDLE" /\ have' = NoImage
    /\ stale' = (stale \/ early)
    /\ UNCHANGED <<serverVars, bytes_sent_, packets_since_receipt_,
                   waiting_for_notification_, starts, linkVars, watchVars>>

\* loop(), update complete or failed: reset().
DfuDone ==
    /\ state_ \in {"COMPLETE", "FAILED"}
    /\ state_' = "IDLE" /\ have' = NoImage
    /\ UNCHANGED <<serverVars, bytes_sent_, packets_since_receipt_,
                   waiting_for_notification_, stale, starts, linkVars, watchVars, faults>>

-----------------------------------------------------------------------------
\* The link and the watch, external.

\* DISCONNECT_EVT is not forwarded to the DFU client.  The watch abandons the
\* transfer; some notifications may already be at the bridge.
LinkLost ==
    /\ Up /\ Fault("link_lost")
    /\ link' = "down" /\ air' = <<>>
    /\ \E n \in 0..Len(notes) : notes' = SubSeq(notes, 1, n)
    /\ wstate' = "Idle" /\ wimage' = NoTransfer
    /\ UNCHANGED <<serverVars, clientVars, slot, running>>

\* The stack refuses one write; write_char's result is ignored.
WriteRefused ==
    /\ Fault("write_refused")
    /\ \E i \in DOMAIN air :
          air' = SubSeq(air, 1, i - 1) \o SubSeq(air, i + 1, Len(air))
    /\ UNCHANGED <<serverVars, clientVars, link, notes, watchVars>>

\* The CRC over what was received is the one in the .dat file.
CrcMatches == wimage.ver = wimage.dat /\ wimage.got = BinChunks[wimage.dat]

\* The watch handles the oldest write; one that does not fit its state is
\* ignored.
StateFor == [start |-> "Idle", init |-> "Init", receive |-> "Init", chunk |-> "Data",
             validate |-> "Validate", activate |-> "Validated"]
Takes(op) == Up /\ air # <<>> /\ Head(air).op = op /\ wstate = StateFor[op]
Answer(note) == notes' = Append(notes, note)

WatchIgnores ==
    /\ Up /\ air # <<>> /\ wstate # StateFor[Head(air).op]
    /\ air' = Tail(air)
    /\ UNCHANGED <<serverVars, clientVars, link, notes, watchVars, faults>>

\* A step of the transfer fails on the watch, which starts afresh.
WatchReportsError ==
    /\ \E op \in {"start", "init", "chunk"} : Takes(op)
    /\ Fault("error")
    /\ air' = Tail(air) /\ Answer("error")
    /\ wstate' = "Idle" /\ wimage' = NoTransfer
    /\ UNCHANGED <<serverVars, clientVars, link, slot, running>>

WatchStarts ==
    /\ Takes("start")
    /\ wstate' = "Init"
    /\ wimage' = [NoTransfer EXCEPT !.len = Head(air).len]
    /\ air' = Tail(air) /\ Answer("started")
    /\ UNCHANGED <<serverVars, clientVars, link, slot, running, faults>>

WatchInits ==
    /\ Takes("init")
    /\ wimage' = [wimage EXCEPT !.dat = Head(air).dat]
    /\ air' = Tail(air) /\ Answer("initialised")
    /\ UNCHANGED <<serverVars, clientVars, link, wstate, slot, running, faults>>

\* It may also answer the receipt request, which the client does not expect.
WatchPrepares(answers) ==
    /\ Takes("receive")
    /\ wstate' = "Data" /\ air' = Tail(air)
    /\ IF answers THEN Answer("other") ELSE UNCHANGED notes
    /\ UNCHANGED <<serverVars, clientVars, link, wimage, slot, running, faults>>

\* A chunk that is not the next one of the same firmware spoils the image.
WatchStores ==
    /\ Takes("chunk")
    /\ LET c == Head(air)
           next == wimage.got + 1
           fits == c.no = next /\ (wimage.got = 0 \/ wimage.ver = c.ver)
       IN /\ wimage' = [wimage EXCEPT !.got = next,
                                      !.ver = IF fits THEN c.ver ELSE NoVersion]
          /\ wstate' = IF next = wimage.len THEN "Validate" ELSE "Data"
          /\ notes' = CASE next = wimage.len -> Append(notes, "received")
                        [] next # wimage.len /\ next % RECEIPT_INTERVAL = 0
                             -> Append(notes, "receipt")
                        [] OTHER -> notes
    /\ air' = Tail(air)
    /\ UNCHANGED <<serverVars, clientVars, link, slot, running, faults>>

WatchValidates ==
    /\ Takes("validate")
    /\ air' = Tail(air)
    /\ IF CrcMatches
       THEN wstate' = "Validated" /\ slot' = wimage.ver /\ Answer("validated")
       ELSE wstate' = "Idle" /\ UNCHANGED slot /\ Answer("error")
    /\ UNCHANGED <<serverVars, clientVars, link, wimage, running, faults>>

\* The watch resets into the new firmware, which drops the link.
WatchActivates ==
    /\ Takes("activate")
    /\ running' = slot
    /\ wstate' = "Idle" /\ wimage' = NoTransfer
    /\ link' = "down" /\ air' = <<>>
    /\ UNCHANGED <<serverVars, clientVars, notes, slot, faults>>

-----------------------------------------------------------------------------
Next ==
    \/ RequestDfu
    \/ \E v \in Versions : UploadBin(v)
    \/ \E written \in BOOLEAN : UploadDat(written)
    \/ \E posted \in BOOLEAN : StartDfu(posted)
    \/ \E answered \in BOOLEAN : DownloadBin(answered)
    \/ \E answered \in BOOLEAN : DownloadDat(answered)
    \/ Reconnect
    \/ Opened
    \/ \E found \in BOOLEAN : SearchCompletes(found)
    \/ HandleNotification
    \/ Process
    \/ \E early \in BOOLEAN : TimesOut(early)
    \/ DfuDone
    \/ LinkLost
    \/ WriteRefused
    \/ WatchReportsError
    \/ WatchIgnores
    \/ WatchStarts
    \/ WatchInits
    \/ \E answers \in BOOLEAN : WatchPrepares(answers)
    \/ WatchStores
    \/ WatchValidates
    \/ WatchActivates

WatchTakes ==
    \/ WatchIgnores \/ WatchStarts \/ WatchInits \/ WatchPrepares(FALSE)
    \/ WatchStores \/ WatchValidates \/ WatchActivates

\* loop() runs for ever, requests to the server are answered, the link opens,
\* the watch handles its writes, and five minutes pass.
Fairness ==
    /\ WF_vars(StartDfu(TRUE)) /\ WF_vars(DownloadBin(TRUE)) /\ WF_vars(DownloadDat(TRUE))
    /\ WF_vars(Opened) /\ WF_vars(SearchCompletes(TRUE))
    /\ WF_vars(HandleNotification) /\ WF_vars(Process)
    /\ WF_vars(TimesOut(FALSE)) /\ WF_vars(DfuDone) /\ WF_vars(WatchTakes)

Spec == Init /\ [][Next]_vars
FairSpec == Spec /\ Fairness

-----------------------------------------------------------------------------
Ops == {"start", "init", "receive", "chunk", "validate", "activate"}
NoteKind == {"started", "initialised", "receipt", "received", "validated", "other",
             "error"}
Maybe(S) == S \cup {NoVersion}
TypeOK ==
    /\ request \in BOOLEAN /\ uploading \in Maybe(Versions)
    /\ files \in [bin : Versions, dat : Versions]
    /\ state_ \in DfuState
    /\ have \in [bin : Maybe(Versions), len : 0..Capacity, dat : Maybe(Versions)]
    /\ bytes_sent_ \in Nat /\ packets_since_receipt_ \in 0..RECEIPT_INTERVAL
    /\ waiting_for_notification_ \in BOOLEAN
    /\ link \in {"down", "opening", "searching", "ready"}
    /\ \A i \in DOMAIN air : air[i].op \in Ops
    /\ notes \in Seq(NoteKind)
    /\ wstate \in {"Idle", "Init", "Data", "Validate", "Validated"}
    /\ wimage \in [dat : Maybe(Versions), len : Nat, ver : Maybe(Versions), got : Nat]
    /\ slot \in Maybe(Versions) /\ running \in Maybe(Versions)
    /\ stale \in BOOLEAN /\ starts \in Nat /\ requests \in Nat
    /\ uploads \in Nat /\ lostClears \in Nat /\ faults \in Nat

\* dfu_client.cpp:194 "Send up to RECEIPT_INTERVAL chunks before waiting for
\* receipt": whatever answers are repeated, lost or left over from an update
\* that timed out, no more chunks than that are ever on their way.
WindowBounded == ChunksIn(air) <= RECEIPT_INTERVAL

\* The bridge never tells the watch to activate an image the watch has not just
\* validated.
NoBlindActivate == (\E i \in DOMAIN air : air[i].op = "activate") => wstate = "Validated"

\* "Complete" is what the display and the heartbeat report.  It means that the
\* watch has validated the very image that was downloaded, complete and matching
\* its .dat, unless an earlier update timed out with messages under way.
CompleteMeansInstalled ==
    state_ = "COMPLETE" /\ ~stale =>
        /\ slot = have.bin /\ have.bin = have.dat
        /\ have.len = BinChunks[have.bin]

\* pinetime_bridge.cpp:869 "Clear the DFU request on server FIRST to prevent
\* retry loops": however updates end, by an error, a lost link or the safety
\* timeout, one starts a second time for one request only if the post that should
\* have cleared the request was lost.
OneUpdatePerRequest == starts <= requests + lostClears

\* Whatever fails, no update leaves the bridge busy for ever: loop() gets back
\* to its other work (ARCHITECTURE.md:224 "prevents stuck state").
EventuallyIdle == <>[](state_ = "IDLE")

\* A request for an update ends with the uploaded firmware running on the watch, if
\* it fits the buffer, unless something failed or a new one was uploaded meanwhile.
EventuallyInstalled ==
    [](request /\ BinChunks[files.bin] <= Capacity =>
           <>(running = files.bin \/ faults > 0 \/ uploads > 0))
=============================================================================
