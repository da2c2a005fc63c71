---------------------------- MODULE ReminderSlots ----------------------------
(***************************************************************************)
(* What the server promises about a user's reminder slots, with each       *)
(* request taking effect in one step somewhere between its arrival and its *)
(* answer:                                                                 *)
(*   - a creation takes a slot that was free at some moment in between,    *)
(*   - it is told that no slot is free only if that was so at some moment  *)
(*     in between,                                                         *)
(*   - an edit changes a reminder that is there and never brings one back. *)
(* A creation that shares the server with no other therefore never         *)
(* replaces a reminder; two that overlap may be given the same slot.       *)
(***************************************************************************)
CONSTANTS
    Requests,   \* creations that may run at a time
    Ids,        \* reminder ids that the server takes
    AutoIds,    \* those it assigns itself
    Contents,   \* contents of a reminder
    NoRow       \* a slot without a reminder

VARIABLES
    table,      \* the reminders, by id
    running,    \* creations between their arrival and their answer
    wasFree,    \* the ids each of them has seen free
    wasFull,    \* those that have seen every assignable id taken
    refused     \* those whose last answer was that no slot is free

slots == <<table, running, wasFree, wasFull, refused>>

Used(t) == {i \in Ids : t[i] # NoRow}
FreeIn(t) == Ids \ Used(t)
FullIn(t) == AutoIds \subseteq Used(t)

\* What the creations in R have seen once the table is t.
SeenBy(R, t) ==
    /\ wasFree' = [q \in Requests |-> IF q \in R THEN wasFree[q] \cup FreeIn(t) ELSE {}]
    /\ wasFull' = {q \in R : q \in wasFull \/ FullIn(t)}

Init ==
    /\ table \in [Ids -> Contents \cup {NoRow}]
    /\ running = {} /\ wasFull = {} /\ refused = {}
    /\ wasFree = [q \in Requests |-> {}]

Begin(q) ==
    /\ q \notin running /\ running' = running \cup {q}
    /\ refused' = refused \ {q} /\ UNCHANGED table /\ SeenBy(running', table)

Finish(q) == q \in running /\ running' = running \ {q}

Grant(q, i, c) ==
    /\ Finish(q) /\ i \in wasFree[q]
    /\ table' = [table EXCEPT ![i] = c] /\ UNCHANGED refused /\ SeenBy(running', table')

Refuse(q) ==
    /\ Finish(q) /\ q \in wasFull /\ refused' = refused \cup {q}
    /\ UNCHANGED table /\ SeenBy(running', table)

\* The server fails; nothing has changed.
GiveUp(q) == Finish(q) /\ UNCHANGED <<table, refused>> /\ SeenBy(running', table)

Edit(i, c) ==
    /\ i \in Used(table) /\ table' = [table EXCEPT ![i] = c]
    /\ UNCHANGED <<running, refused>> /\ SeenBy(running, table')

Delete(i) ==
    /\ table' = [table EXCEPT ![i] = NoRow]
    /\ UNCHANGED <<running, refused>> /\ SeenBy(running, table')

Next ==
    \/ \E q \in Requests : Begin(q) \/ Refuse(q) \/ GiveUp(q)
    \/ \E q \in Requests, i \in Ids, c \in Contents : Grant(q, i, c)
    \/ \E i \in Ids, c \in Contents : Edit(i, c)
    \/ \E i \in Ids : Delete(i)

Spec == Init /\ [][Next]_slots
=============================================================================
