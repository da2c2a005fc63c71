--------------------------- MODULE ServerReminders ---------------------------
(***************************************************************************)
(* The reminders of one user on the server, and the bridge's copy of them. *)
(*                                                                         *)
(* Every HTTP request runs in a goroutine of its own.  The SQL statements  *)
(* are atomic (one connection), but CreateReminder makes two of them: it   *)
(* lists the slots, picks one, and upserts.  The bridge polls the enabled  *)
(* and disabled reminders in slot order, reads as much of the answer as    *)
(* fits its response buffer, and uploads the first enabled ones to the     *)
(* watch.                                                                  *)
(***************************************************************************)
EXTENDS Integers, FiniteSets

CONSTANTS
    Requests,     \* creations that may run at a time
    Ids,          \* reminder ids: 0..255 in the code
    MaxSlots,     \* slots assigned, and reminders uploaded: 56 in the code
    Contents,     \* contents of a reminder
    EnabledOnes,  \* those with the enabled flag
    NoRow,        \* a slot without a reminder
    BufferRows,   \* reminders that fit the bridge's 4096 bytes
    MaxRequests   \* bound: requests that change something

ASSUME SlotsAssumption ==
    /\ Ids \subseteq Nat /\ IsFiniteSet(Ids) /\ MaxSlots \in Nat \ {0}
    /\ 0..(MaxSlots - 1) \subseteq Ids
    /\ NoRow \notin Contents /\ EnabledOnes \subseteq Contents
    /\ BufferRows \in Nat /\ MaxRequests \in Nat

VARIABLES
    table,        \* the rows of the user, by reminder_id
    req,          \* what each creation is about to do
    wasFree,      \* history: ids a running creation has seen free
    wasFull,      \* history: creations that have seen every slot taken
    refused,      \* creations whose last answer was 409
    fetched,      \* the bridge's api_reminders_, by reminder_id
    requests      \* bound counter

seenVars == <<wasFree, wasFull>>
vars == <<table, req, seenVars, refused, fetched, requests>>

AutoIds == 0..(MaxSlots - 1)
Rows == Contents \cup {NoRow}
Used(t) == {i \in Ids : t[i] # NoRow}
Idle == [pc |-> "idle"]
Request ==
    {Idle} \cup [pc : {"arrived", "assigned"}, id : Ids, content : Contents]

Running(r) == {q \in Requests : r[q].pc # "idle"}

\* History: what the creations running now have seen of the table.
Sees ==
    /\ wasFree' = [q \in Requests |->
           IF req'[q].pc = "idle" THEN {} ELSE wasFree[q] \cup (Ids \ Used(table'))]
    /\ wasFull' = {q \in Running(req') : q \in wasFull \/ AutoIds \subseteq Used(table')}

Counted == requests < MaxRequests /\ requests' = requests + 1

Init ==
    /\ table \in [Ids -> Rows] /\ fetched = [i \in Ids |-> NoRow]
    /\ req = [q \in Requests |-> Idle]
    /\ wasFree = [q \in Requests |-> {}] /\ wasFull = {} /\ refused = {}
    /\ requests = 0

-----------------------------------------------------------------------------
\* CreateReminder.

Arrives(q, id, c) ==
    /\ req[q].pc = "idle" /\ Counted
    /\ req' = [req EXCEPT ![q] = [pc |-> "arrived", id |-> id, content |-> c]]
    /\ refused' = refused \ {q} /\ UNCHANGED <<table, fetched>> /\ Sees

\* The id asked for if it is not 0 and free, else one below 56 that is free.
CandidatesAsked(id, used) == IF id # 0 THEN {id} ELSE AutoIds \ used
CandidatesCount(id, used) ==
    IF id # 0 /\ id \notin used THEN {id} ELSE {Cardinality(used)}
Candidates(id, used) ==
    IF id # 0 /\ id \notin used THEN {id} ELSE AutoIds \ used

\* ListReminders and the search for the first; without one the answer is 409.
Refuses(q) ==
    /\ Candidates(req[q].id, Used(table)) = {}
    /\ req' = [req EXCEPT ![q] = Idle] /\ refused' = refused \cup {q}
    /\ UNCHANGED <<table, fetched, requests>> /\ Sees
Assigns(q, i) ==
    /\ \A j \in Candidates(req[q].id, Used(table)) : i <= j
    /\ req' = [req EXCEPT ![q] = [@ EXCEPT !.pc = "assigned", !.id = i]]
    /\ UNCHANGED <<table, refused, fetched, requests>> /\ Sees
ListsSlots(q) ==
    /\ req[q].pc = "arrived"
    /\ \/ Refuses(q)
       \/ \E i \in Candidates(req[q].id, Used(table)) : Assigns(q, i)

\* INSERT ... ON CONFLICT DO UPDATE.
Upserts(q) ==
    /\ req[q].pc = "assigned"
    /\ table' = [table EXCEPT ![req[q].id] = req[q].content]
    /\ req' = [req EXCEPT ![q] = Idle]
    /\ UNCHANGED <<refused, fetched, requests>> /\ Sees

\* Either statement fails: 500.
StatementFails(q) ==
    /\ req[q].pc # "idle" /\ req' = [req EXCEPT ![q] = Idle]
    /\ UNCHANGED <<table, refused, fetched, requests>> /\ Sees

-----------------------------------------------------------------------------
\* The other requests: one statement each.

\* UPDATE ... WHERE changes no row that is not there; the answer is 200.
UpdateReminder(i, c) ==
    /\ Counted /\ i \in Used(table) /\ table' = [table EXCEPT ![i] = c]
    /\ UNCHANGED <<req, refused, fetched>> /\ Sees
DeleteReminder(i) ==
    /\ Counted /\ table' = [table EXCEPT ![i] = NoRow]
    /\ UNCHANGED <<req, refused, fetched>> /\ Sees

\* The bridge's poll.
FitsBufferBarely(t) == Cardinality(Used(t)) < BufferRows
FitsBuffer(t) == Cardinality(Used(t)) <= BufferRows
PollApi ==
    /\ FitsBuffer(table) /\ fetched' = table
    /\ UNCHANGED <<table, req, refused, requests, seenVars>>

\* Of a longer answer http_event_handler drops the pieces that no longer fit.  Mostly
\* the rest does not parse and the list stays; if it does, it has some of the rows, with
\* contents that may be put together from several.
PollSpliced ==
    /\ ~FitsBuffer(table)
    /\ fetched' \in [Ids -> Rows] /\ Used(fetched') \subseteq Used(table)
    /\ Cardinality(Used(fetched')) <= BufferRows
    /\ UNCHANGED <<table, req, refused, requests, seenVars>>

\* sync_reminders_to_watch_: the first 56 enabled ones, in the order of the list.
Enabled(t) == {i \in Ids : t[i] \in EnabledOnes}
UploadedLast(t) ==
    {i \in Enabled(t) : Cardinality({j \in Enabled(t) : j > i}) < MaxSlots}
Uploaded(t) ==
    {i \in Enabled(t) : Cardinality({j \in Enabled(t) : j < i}) < MaxSlots}

Next ==
    \/ \E q \in Requests :
        \/ \E id \in Ids, c \in Contents : Arrives(q, id, c)
        \/ ListsSlots(q) \/ Upserts(q) \/ StatementFails(q)
    \/ \E i \in Ids, c \in Contents : UpdateReminder(i, c)
    \/ \E i \in Ids : DeleteReminder(i)
    \/ PollApi \/ PollSpliced

Spec == Init /\ [][Next]_vars

\* The bridge polls for ever, and a request is answered one way or the other.
Fairness ==
    /\ WF_vars(PollApi)
    /\ \A q \in Requests : WF_vars(ListsSlots(q)) /\ WF_vars(Upserts(q))
FairSpec == Spec /\ Fairness

-----------------------------------------------------------------------------
\* Properties.

TypeOK ==
    /\ table \in [Ids -> Rows] /\ fetched \in [Ids -> Rows]
    /\ req \in [Requests -> Request]
    /\ wasFree \in [Requests -> SUBSET Ids] /\ wasFull \subseteq Requests
    /\ refused \subseteq Requests
    /\ requests \in 0..MaxRequests

\* The slot a creation is about to write was free while it ran (handlers.go:210-241):
\* nobody's reminder is replaced but one that was created in the meantime.
SlotWasFree == \A q \in Requests : req[q].pc = "assigned" => req[q].id \in wasFree[q]

\* A reminder in a slot the server assigns is uploaded whatever else there is: those
\* with ids beyond stand behind it in the list (pinetime_bridge.cpp:1101, sqlite.go:211).
\* This holds of the server's list and of the one the bridge has, which may be another.
AutoSlotsUploaded ==
    \A t \in {table, fetched}, i \in AutoIds : i \in Enabled(t) => i \in Uploaded(t)

\* The server's slots behave as promised in ReminderSlots.
Promised ==
    INSTANCE ReminderSlots WITH running <- Running(req)
SlotsPromised == Promised!Spec

\* An enabled reminder in an assigned slot gets uploaded as it is on the server, unless
\* it is changed again or the list outgrows the bridge's buffer.
ReachesBridge ==
    \A i \in AutoIds, c \in EnabledOnes :
        table[i] = c ~>
            \/ fetched[i] = c /\ i \in Uploaded(fetched)
            \/ table[i] # c \/ Cardinality(Used(table)) > BufferRows

\* "no free reminder slots (max 56)" (handlers.go:232) and "Reminders: %u / 56"
\* (pinetime-bridge.yaml:799): what the server accepts in its slots gets uploaded.
FullListReachesBridge ==
    \A i \in AutoIds, c \in EnabledOnes :
        table[i] = c ~> (fetched[i] = c /\ i \in Uploaded(fetched)) \/ table[i] # c
=============================================================================
