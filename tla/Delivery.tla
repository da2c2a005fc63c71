------------------------------- MODULE Delivery -------------------------------
(***************************************************************************)
(* What crosses the bridge as single messages: notifications from the      *)
(* server to the watch, and acknowledgements of reminders from the watch   *)
(* to the server.                                                          *)
(*                                                                         *)
(* poll_api_ lists the pending notifications and walks down the list: one  *)
(* write to the watch, one POST that marks it delivered.  The walk runs on *)
(* the main task, so no GATT event is handled inside it, but the radio,    *)
(* the watch and the server go on, and the bridge may restart.             *)
(*                                                                         *)
(* The n-th notification created has id n, and its text is told apart by   *)
(* that id.  The list of pending ones has to fit the response buffer, here *)
(* a number of rows: of a longer one some pieces are kept and others not.  *)
(***************************************************************************)
EXTENDS Integers, Sequences, FiniteSets

CONSTANTS
    NewSecond,         \* those created in a later second than the one before
    BufferRows,        \* rows of the pending list that fit 4096 bytes
    Faults,            \* the kinds of fault that may happen
    MaxFaults,         \* bound: faults in a behaviour
    MaxNotifications,  \* bound: notifications created
    MaxAcks            \* bound: reminders dismissed on the watch

FaultKind == {"drop", "refused", "post_lost", "reboot"}

ASSUME DeliveryAssumption ==
    /\ NewSecond \subseteq Nat /\ BufferRows \in Nat /\ Faults \subseteq FaultKind
    /\ MaxFaults \in Nat /\ MaxNotifications \in Nat /\ MaxAcks \in Nat

VARIABLES
    created,      \* notifications 1..created are in the table
    blank,        \* those with an empty message
    pending,      \* those with pending = 1
    todo,         \* the ids of the rows poll_api_ still has to walk
    texts,        \* the messages of these rows: the id they belong to, or Mixed
    marking,      \* the one written and not yet marked, or 0
    ans_handle_,  \* connected and discovered
    radio,        \* external: the link is really up
    air,          \* external: writes on their way to the watch
    shown,        \* history: the texts the watch has shown, in order
    lost,         \* history: texts refused, or dropped with the link
    lapses,       \* history: marks that were lost
    spliced,      \* history: texts that came in an answer with pieces missing
    garbled,      \* history: ids written with another text than theirs
    dismissed,    \* external: reminders dismissed on the watch
    due,          \* external: acknowledgements the watch has not sent
    acks,         \* the rows of reminder_acks
    faults        \* bound counter

serverVars == <<created, blank, pending>>
walkVars   == <<todo, texts, marking, lapses, spliced, garbled>>
linkVars   == <<ans_handle_, radio, air, shown, lost>>
ackVars    == <<dismissed, due, acks>>
vars == <<serverVars, walkVars, linkVars, ackVars, faults>>

Ids == 1..MaxNotifications
Mixed == 0
Members(q) == {q[i] : i \in DOMAIN q}
Fault(kind) == kind \in Faults /\ faults < MaxFaults /\ faults' = faults + 1

\* loop() is not inside the walk.
MainTask == todo = <<>> /\ marking = 0

Init ==
    /\ created = 0 /\ blank = {} /\ pending = {}
    /\ todo = <<>> /\ texts = <<>> /\ marking = 0 /\ lapses = 0
    /\ spliced = {} /\ garbled = {}
    /\ ans_handle_ = FALSE /\ radio = FALSE /\ air = <<>>
    /\ shown = <<>> /\ lost = {}
    /\ dismissed = 0 /\ due = 0 /\ acks = 0 /\ faults = 0

-----------------------------------------------------------------------------
\* Notifications.

\* CreateNotification; only the page insists on a message.
CreateStaleId(hasMessage) ==
    /\ created < MaxNotifications /\ created' = created + 1
    /\ pending' = pending \cup {created}
    /\ blank' = IF hasMessage THEN blank ELSE blank \cup {created'}
    /\ UNCHANGED <<walkVars, linkVars, ackVars, faults>>
CreateNotification(hasMessage) ==
    /\ created < MaxNotifications /\ created' = created + 1
    /\ pending' = pending \cup {created'}
    /\ blank' = IF hasMessage THEN blank ELSE blank \cup {created'}
    /\ UNCHANGED <<walkVars, linkVars, ackVars, faults>>

\* The answers that http_event_handler keeps whole.
FitsShort(rows) == Cardinality(rows) < BufferRows
Fits(rows) == Cardinality(rows) <= BufferRows

\* created_at is the second of the insertion (CURRENT_TIMESTAMP): that of m lies
\* before that of n when some notification between them began a new one.
Earlier(m, n) == \E k \in NewSecond : m < k /\ k <= n

\* ListPendingNotifications, ORDER BY created_at: rows of one second in any order.
ListingUnordered(rows) ==
    {l \in [1..Cardinality(rows) -> rows] :
        /\ \A n \in rows : \E i \in DOMAIN l : l[i] = n
        /\ \A i, j \in DOMAIN l : i < j => l[i] # l[j]}
Listing(rows) ==
    {l \in [1..Cardinality(rows) -> rows] :
        /\ \A n \in rows : \E i \in DOMAIN l : l[i] = n
        /\ \A i, j \in DOMAIN l :
               i < j => l[i] # l[j] /\ ~Earlier(l[j], l[i])}

\* poll_api_ fetches the list; it skips rows without a message and gives up at
\* the first one with a message when the watch's handle is unknown.
FetchMarking ==
    /\ MainTask /\ ans_handle_ /\ Fits(pending) /\ pending \ blank # {}
    /\ todo' \in Listing(pending \ blank) /\ texts' = todo' /\ pending' = {}
    /\ UNCHANGED <<created, blank, marking, lapses, spliced, garbled, linkVars,
                   ackVars, faults>>
FetchPending ==
    /\ MainTask /\ ans_handle_ /\ Fits(pending) /\ pending \ blank # {}
    /\ todo' \in Listing(pending \ blank) /\ texts' = todo'
    /\ UNCHANGED <<serverVars, marking, lapses, spliced, garbled, linkVars, ackVars, faults>>

\* Of an answer that is too long http_event_handler drops each piece that no longer
\* fits and appends a later, smaller one that does.  Mostly what is left does not
\* parse and poll_api_ does nothing.  If it does, it has rows of the list at the
\* positions p, each with its own id and a text from before the next row: its own,
\* that of a row whose start was dropped, or parts of several.  (That the digits of
\* two ids run together, which marks yet another row, is left out.)
FetchSpliced ==
    /\ MainTask /\ ans_handle_ /\ ~Fits(pending)
    /\ \E l \in Listing(pending), k \in 1..BufferRows :
       \E p \in {q \in [1..k -> DOMAIN l] : \A i, j \in 1..k : i < j => q[i] < q[j]} :
           /\ todo' = [i \in 1..k |-> l[p[i]]]
           /\ texts' \in [1..k -> {Mixed} \cup (pending \ blank)]
           /\ \A i \in 1..k :
                  \/ texts'[i] = Mixed
                  \/ \E j \in DOMAIN l : /\ l[j] = texts'[i] /\ p[i] <= j
                                         /\ i < k => j < p[i + 1]
    /\ spliced' = spliced \cup Members(texts')
    /\ UNCHANGED <<serverVars, marking, lapses, garbled, linkVars, ackVars, faults>>

\* send_notification_; poll_api_ does not learn whether the stack refused it.
SendNotification(accepted) ==
    /\ todo # <<>> /\ marking = 0
    /\ IF accepted THEN air' = Append(air, Head(texts)) /\ UNCHANGED <<lost, faults>>
       ELSE Fault("refused") /\ lost' = lost \cup {Head(texts)} /\ UNCHANGED air
    /\ garbled' = IF Head(texts) = Head(todo) THEN garbled ELSE garbled \cup {Head(todo)}
    /\ marking' = Head(todo) /\ todo' = Tail(todo) /\ texts' = Tail(texts)
    /\ UNCHANGED <<serverVars, lapses, spliced, ans_handle_, radio, shown, ackVars>>

\* The POST that marks it, whose result is not looked at.
MarkOther(arrives) ==
    /\ marking # 0 /\ marking' = 0 /\ arrives
    /\ pending' = IF todo = <<>> THEN pending ELSE pending \ {Head(todo)}
    /\ UNCHANGED <<created, blank, todo, texts, lapses, spliced, garbled,
                   linkVars, ackVars, faults>>
MarkDelivered(arrives) ==
    /\ marking # 0 /\ marking' = 0
    /\ IF arrives
       THEN pending' = pending \ {marking} /\ UNCHANGED <<lapses, faults>>
       ELSE Fault("post_lost") /\ lapses' = lapses + 1 /\ UNCHANGED pending
    /\ UNCHANGED <<created, blank, todo, texts, spliced, garbled, linkVars,
                   ackVars>>

\* External: the watch shows the oldest one.
WatchShows ==
    /\ radio /\ air # <<>>
    /\ shown' = Append(shown, Head(air)) /\ air' = Tail(air)
    /\ UNCHANGED <<serverVars, walkVars, ans_handle_, radio, lost, ackVars, faults>>

-----------------------------------------------------------------------------
\* Acknowledgements.

\* External: the user dismisses a reminder; the watch keeps the acknowledgement
\* until a connection takes it.
WatchDismisses ==
    /\ dismissed < MaxAcks
    /\ dismissed' = dismissed + 1 /\ due' = due + 1
    /\ UNCHANGED <<serverVars, walkVars, linkVars, acks, faults>>

\* The bridge formats the time as seconds in decimal; readJSON decodes the field
\* of type time.Time from RFC 3339 only and the request fails otherwise.
AckedAt == "decimal"
Decodes(acked_at) == acked_at = "rfc3339"

\* NOTIFY_EVT -> on_ack_notification_ -> CreateAck.  The answer is not looked at.
AckNotified ==
    /\ MainTask /\ ans_handle_ /\ radio /\ due > 0
    /\ due' = due - 1
    /\ acks' = IF Decodes(AckedAt) THEN acks + 1 ELSE acks
    /\ UNCHANGED <<serverVars, walkVars, linkVars, dismissed, faults>>

-----------------------------------------------------------------------------
\* The link.

\* The bridge opens the link and discovers the services.
Connected ==
    /\ MainTask /\ ~ans_handle_
    /\ ans_handle_' = TRUE /\ radio' = TRUE
    /\ UNCHANGED <<serverVars, walkVars, air, shown, lost, ackVars, faults>>

\* External: the watch goes out of range.
LinkLost ==
    /\ radio /\ Fault("drop") /\ radio' = FALSE
    /\ UNCHANGED <<serverVars, walkVars, ans_handle_, air, shown, lost, ackVars>>

\* DISCONNECT_EVT: what the watch has not taken is gone.
Disconnected ==
    /\ MainTask /\ ans_handle_ /\ ~radio
    /\ ans_handle_' = FALSE
    /\ air' = <<>> /\ lost' = lost \cup Members(air)
    /\ UNCHANGED <<serverVars, walkVars, radio, shown, ackVars, faults>>

\* The bridge restarts, also in the middle of the walk.
BridgeReboots ==
    /\ Fault("reboot")
    /\ todo' = <<>> /\ texts' = <<>> /\ marking' = 0
    /\ lapses' = IF marking # 0 THEN lapses + 1 ELSE lapses
    /\ ans_handle_' = FALSE /\ radio' = FALSE
    /\ air' = <<>> /\ lost' = lost \cup Members(air)
    /\ UNCHANGED <<serverVars, spliced, garbled, shown, ackVars>>

-----------------------------------------------------------------------------
Next ==
    \/ \E hasMessage \in BOOLEAN : CreateNotification(hasMessage)
    \/ FetchPending \/ FetchSpliced
    \/ \E accepted \in BOOLEAN : SendNotification(accepted)
    \/ \E arrives \in BOOLEAN : MarkDelivered(arrives)
    \/ WatchShows
    \/ WatchDismisses \/ AckNotified
    \/ Connected \/ LinkLost \/ Disconnected \/ BridgeReboots

\* loop() runs for ever, the server answers, the link opens again, its loss is
\* noticed, and the watch takes what it is sent.
Fairness ==
    /\ WF_vars(FetchPending) /\ WF_vars(SendNotification(TRUE))
    /\ WF_vars(MarkDelivered(TRUE)) /\ WF_vars(WatchShows) /\ WF_vars(AckNotified)
    /\ WF_vars(Connected) /\ WF_vars(Disconnected)

Spec == Init /\ [][Next]_vars
FairSpec == Spec /\ Fairness

-----------------------------------------------------------------------------
TypeOK ==
    /\ created \in 0..MaxNotifications
    /\ blank \subseteq 1..created /\ pending \subseteq 1..created
    /\ todo \in Seq(1..created) /\ texts \in Seq(0..created) /\ Len(texts) = Len(todo)
    /\ marking \in 0..created /\ lapses \in 0..faults
    /\ spliced \subseteq 0..created /\ garbled \subseteq 1..created
    /\ ans_handle_ \in BOOLEAN /\ radio \in BOOLEAN
    /\ air \in Seq(0..created) /\ shown \in Seq(0..created) /\ lost \subseteq 0..created
    /\ dismissed \in 0..MaxAcks /\ due \in 0..dismissed /\ acks \in 0..dismissed
    /\ faults \in 0..MaxFaults

\* The mark on the server is set after the write: a notification that is no longer
\* pending was shown, is on its way, was lost with its write, or was read with the
\* text of another one from an overfull answer; none is dropped because the bridge
\* restarts in the middle of its list.
DeliveredMeansWritten ==
    \A n \in (1..created) \ pending : n \in Members(shown) \cup Members(air) \cup lost \cup garbled

\* The watch shows a notification again only when a mark was lost, in the POST or
\* by a restart between the write and the POST, or when an overfull answer carried
\* its text, perhaps under another id.
ShownOnce ==
    \A n \in (1..created) \ spliced :
        Cardinality({i \in DOMAIN shown : shown[i] = n}) <= 1 + lapses

\* Notifications of different seconds appear in the order they were queued: when
\* one is shown, every one with a message from an earlier second has been shown
\* too, unless its write was lost or it was garbled.  Nothing is said of those whose
\* text came out of an overfull answer: these overtake the rows that were dropped.
ShownInOrder ==
    \A n \in Members(shown) \ (spliced \cup {Mixed}) :
        \A m \in 1..(n - 1) :
            Earlier(m, n) =>
                m \in blank \cup Members(shown) \cup lost \cup garbled

\* A queued notification is shown sooner or later, unless its write was lost, it
\* was garbled, or more rows are pending than the response buffer holds: then it
\* is for the cuts of the answer to say whether any is ever shown again.
Overfull == Cardinality(pending) > BufferRows
EventuallyShown ==
    \A n \in Ids :
        [](n \in pending \ blank => <>(\/ n \in Members(shown) \cup lost \cup garbled
                                       \/ Overfull))

\* ARCHITECTURE.md:25 "When the user acknowledges a reminder on the watch, the ack
\* flows back through the bridge to the API."
AcksFlowBack == \A n \in 1..MaxAcks : [](dismissed = n => <>(acks >= n))
=============================================================================
