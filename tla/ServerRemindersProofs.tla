------------------------- MODULE ServerRemindersProofs -------------------------
(* Proofs about ServerReminders: its type invariant, that the slots a server
   assigns are uploaded, and that it implements ReminderSlots. *)
EXTENDS ServerReminders, FiniteSetTheorems, TLAPS

-----------------------------------------------------------------------------
(* Slots.                                                                   *)

LEMMA AutoIdsType == AutoIds \subseteq Ids /\ AutoIds \subseteq Nat
  BY SlotsAssumption DEF AutoIds

LEMMA CandidateFree ==
  ASSUME NEW id \in Ids, NEW used \in SUBSET Ids
  PROVE  /\ Candidates(id, used) \subseteq Ids \ used
         /\ Candidates(id, used) = {} => AutoIds \subseteq used
<1>1. CASE id # 0 /\ id \notin used
  BY <1>1 DEF Candidates
<1>2. CASE ~(id # 0 /\ id \notin used)
  BY <1>2, AutoIdsType DEF Candidates
<1> QED BY <1>1, <1>2

\* At most i reminders stand before reminder i in the list, so those in the slots below
\* MaxSlots are among the first MaxSlots.
LEMMA LowSlotsFirst ==
  ASSUME NEW t, NEW i \in AutoIds, i \in Enabled(t)
  PROVE  i \in Uploaded(t)
<1> DEFINE before == {j \in Enabled(t) : j < i}
<1>1. i \in Nat /\ i < MaxSlots /\ MaxSlots \in Nat /\ Ids \subseteq Nat
  BY SlotsAssumption DEF AutoIds
<1>2. /\ IsFiniteSet(0..(i - 1))
      /\ Cardinality(0..(i - 1)) = IF 0 > i - 1 THEN 0 ELSE (i - 1) - 0 + 1
  <2>1. 0 \in Int /\ i - 1 \in Int
    BY <1>1
  <2> QED BY <2>1, FS_Interval
<1>3. Cardinality(0..(i - 1)) = i
  BY <1>1, <1>2
<1>4. before \in SUBSET (0..(i - 1))
  <2> SUFFICES ASSUME NEW j \in before PROVE j \in 0..(i - 1)
    OBVIOUS
  <2>1. j \in Nat /\ j < i
    BY <1>1 DEF Enabled
  <2> QED BY <1>1, <2>1
<1>5. IsFiniteSet(before) /\ Cardinality(before) <= Cardinality(0..(i - 1))
  BY <1>2, <1>4, FS_Subset
<1>6. Cardinality(before) \in Nat
  BY <1>5, FS_CardinalityType
<1>7. Cardinality(before) < MaxSlots
  BY <1>1, <1>3, <1>5, <1>6
<1> QED BY <1>7 DEF Uploaded

-----------------------------------------------------------------------------
(* The invariant.                                                           *)

\* A creation has seen the table as it is now, and one that is not running nothing.
SeenInv ==
    \A q \in Requests :
        /\ req[q].pc # "idle" =>
               /\ Ids \ Used(table) \subseteq wasFree[q]
               /\ AutoIds \subseteq Used(table) => q \in wasFull
        /\ req[q].pc = "idle" => wasFree[q] = {} /\ q \notin wasFull

IInv == TypeOK /\ SeenInv /\ SlotWasFree

LEMMA RequestKinds ==
  ASSUME NEW r \in Request
  PROVE  /\ r.pc # "idle" => r.id \in Ids /\ r.content \in Contents
                             /\ r.pc \in {"arrived", "assigned"}
         /\ r.pc = "idle" => r = Idle
  BY DEF Request, Idle

\* What a new set of requests sees, whatever the step.
LEMMA SeesType ==
  ASSUME TypeOK, req' \in [Requests -> Request], Sees
  PROVE  /\ wasFree' \in [Requests -> SUBSET Ids] /\ wasFull' \subseteq Requests
         /\ SeenInv'
<1>1. wasFree' = [q \in Requests |->
           IF req'[q].pc = "idle" THEN {} ELSE wasFree[q] \cup (Ids \ Used(table'))]
  BY DEF Sees
<1>2. wasFull' = {q \in Running(req') : q \in wasFull \/ AutoIds \subseteq Used(table')}
  BY DEF Sees
<1>3. wasFree \in [Requests -> SUBSET Ids]
  BY DEF TypeOK
<1>4. wasFree' \in [Requests -> SUBSET Ids]
  BY <1>1, <1>3
<1>5. wasFull' \subseteq Requests
  BY <1>2 DEF Running
<1>6. SeenInv'
  BY <1>1, <1>2 DEF SeenInv, Running
<1> QED BY <1>4, <1>5, <1>6

\* A step that leaves a request as it is, or ends it, keeps its slot seen.
LEMMA SeesKeepsSlots ==
  ASSUME TypeOK, SlotWasFree, Sees,
         \A q \in Requests : req'[q].pc = "assigned" =>
             req'[q] = req[q] \/ req'[q].id \in Ids \ Used(table')
  PROVE  SlotWasFree'
<1> SUFFICES ASSUME NEW q \in Requests, req'[q].pc = "assigned"
             PROVE  req'[q].id \in wasFree'[q]
  BY DEF SlotWasFree
<1>1. wasFree'[q] = wasFree[q] \cup (Ids \ Used(table'))
  BY DEF Sees
<1>2. CASE req'[q] = req[q]
  BY <1>1, <1>2 DEF SlotWasFree
<1>3. CASE req'[q].id \in Ids \ Used(table')
  BY <1>1, <1>3
<1> QED BY <1>2, <1>3

LEMMA InitIInv == Init => IInv
<1> SUFFICES ASSUME Init PROVE IInv
  OBVIOUS
<1>1. \A q \in Requests : req[q] = Idle /\ wasFree[q] = {} /\ q \notin wasFull
  BY DEF Init
<1>2. TypeOK
  BY SlotsAssumption DEF Init, TypeOK, Request, Rows
<1>3. SeenInv /\ SlotWasFree
  BY <1>1 DEF SeenInv, SlotWasFree, Idle
<1> QED BY <1>2, <1>3 DEF IInv

-----------------------------------------------------------------------------
(* Each action: the types it changes, and the action of ReminderSlots that it
   is.                                                                      *)

\* The variables of ReminderSlots without a step.
Stutters == UNCHANGED <<table, Running(req), wasFree, wasFull, refused>>

LEMMA SeesIsSeenBy ==
  ASSUME Sees PROVE Promised!SeenBy(Running(req'), table')
<1>1. wasFree' = [q \in Requests |->
           IF q \in Running(req') THEN wasFree[q] \cup (Ids \ Used(table')) ELSE {}]
  BY DEF Sees, Running
<1>2. Promised!FreeIn(table') = Ids \ Used(table')
  BY DEF Promised!FreeIn, Promised!Used, Used
<1>3. Promised!FullIn(table') <=> AutoIds \subseteq Used(table')
  BY DEF Promised!FullIn, Promised!Used, Used
<1>4. wasFull' = {q \in Running(req') : q \in wasFull \/ Promised!FullIn(table')}
  BY <1>3 DEF Sees
<1> QED BY <1>1, <1>2, <1>4 DEF Promised!SeenBy

LEMMA ArrivesStep ==
  ASSUME IInv, NEW q \in Requests, NEW id \in Ids, NEW c \in Contents, Arrives(q, id, c)
  PROVE  IInv' /\ Promised!Begin(q)
<1> USE DEF IInv
<1> DEFINE r == [pc |-> "arrived", id |-> id, content |-> c]
<1>1. r \in Request
  BY DEF Request
<1>2. req' = [req EXCEPT ![q] = r] /\ UNCHANGED <<table, fetched>> /\ Sees
      /\ refused' = refused \ {q} /\ req[q].pc = "idle"
  BY DEF Arrives
<1>3. requests' \in 0..MaxRequests
  BY SlotsAssumption DEF Arrives, Counted, TypeOK
<1>4. req' \in [Requests -> Request]
  BY <1>1, <1>2 DEF TypeOK
<1>5. TypeOK'
  BY <1>2, <1>3, <1>4, SeesType DEF TypeOK
<1>6. SlotWasFree'
  BY <1>2, SeesKeepsSlots DEF TypeOK
<1>7. Running(req') = Running(req) \cup {q} /\ q \notin Running(req)
  BY <1>2 DEF Running, TypeOK
<1>8. Promised!Begin(q)
  BY <1>2, <1>7, SeesIsSeenBy DEF Promised!Begin
<1> QED BY <1>2, <1>4, <1>5, <1>6, <1>8, SeesType

\* A request that ends, whatever its answer.
LEMMA EndsStep ==
  ASSUME IInv, NEW q \in Requests, req[q].pc # "idle", req' = [req EXCEPT ![q] = Idle],
         table' \in [Ids -> Rows], refused' \subseteq Requests,
         UNCHANGED <<fetched, requests>>, Sees
  PROVE  IInv' /\ Promised!Finish(q)
<1> USE DEF IInv
<1>1. req' \in [Requests -> Request]
  BY DEF TypeOK, Request
<1>2. TypeOK'
  BY <1>1, SeesType DEF TypeOK
<1>3. SlotWasFree'
  BY SeesKeepsSlots DEF TypeOK, Idle
<1>4. Running(req') = Running(req) \ {q} /\ q \in Running(req)
  BY DEF Running, TypeOK, Idle
<1> QED BY <1>1, <1>2, <1>3, <1>4, SeesType DEF Promised!Finish

LEMMA RefusesStep ==
  ASSUME IInv, NEW q \in Requests, req[q].pc = "arrived", Refuses(q)
  PROVE  IInv' /\ Promised!Refuse(q)
<1>1. req[q].pc = "arrived" /\ req' = [req EXCEPT ![q] = Idle] /\ UNCHANGED table
      /\ refused' = refused \cup {q} /\ UNCHANGED <<fetched, requests>> /\ Sees
      /\ Candidates(req[q].id, Used(table)) = {}
  BY DEF Refuses
<1>2. IInv' /\ Promised!Finish(q)
  BY <1>1, EndsStep DEF IInv, TypeOK
<1>3. req[q].id \in Ids
  BY <1>1, RequestKinds DEF IInv, TypeOK
<1>4. AutoIds \subseteq Used(table)
  BY <1>1, <1>3, CandidateFree DEF Used
<1>5. q \in wasFull
  BY <1>1, <1>4 DEF IInv, SeenInv
<1> QED BY <1>1, <1>2, <1>5, SeesIsSeenBy DEF Promised!Refuse

LEMMA AssignsStep ==
  ASSUME IInv, NEW q \in Requests, req[q].pc = "arrived",
         NEW i \in Candidates(req[q].id, Used(table)), Assigns(q, i)
  PROVE  IInv' /\ Stutters
<1> USE DEF IInv
<1> DEFINE r == [req[q] EXCEPT !.pc = "assigned", !.id = i]
<1>1. req[q].pc = "arrived" /\ req' = [req EXCEPT ![q] = r] /\ Sees
      /\ UNCHANGED table /\ UNCHANGED refused /\ UNCHANGED fetched
      /\ UNCHANGED requests
  BY DEF Assigns
<1>2. req[q].id \in Ids /\ req[q] \in Request
  BY <1>1, RequestKinds DEF TypeOK
<1>3. i \in Ids \ Used(table)
  BY <1>2, CandidateFree DEF Used
<1>4. r \in Request /\ r.pc = "assigned" /\ r.id = i
  <2>1. req[q] \in [pc : {"arrived", "assigned"}, id : Ids, content : Contents]
    <3>1. Idle.pc = "idle"
      BY DEF Idle
    <3> QED BY <1>1, <1>2, <3>1 DEF Request
  <2>2. r \in [pc : {"arrived", "assigned"}, id : Ids, content : Contents]
        /\ r.pc = "assigned" /\ r.id = i
    BY <1>3, <2>1
  <2> QED BY <2>2 DEF Request
<1>5. req' \in [Requests -> Request]
  BY <1>1, <1>4 DEF TypeOK
<1>6. TypeOK'
  BY <1>1, <1>5, SeesType DEF TypeOK
<1>7. \A p \in Requests : req'[p] = req[p] \/ req'[p].id \in Ids \ Used(table')
  BY <1>1, <1>3, <1>4 DEF TypeOK
<1>8. SlotWasFree'
  BY <1>1, <1>7, SeesKeepsSlots
<1>9. \A p \in Requests : (req'[p].pc = "idle") = (req[p].pc = "idle")
  BY <1>1, <1>4 DEF TypeOK
<1>10. Running(req') = Running(req)
  BY <1>9 DEF Running
<1>11. wasFree' = wasFree
  <2>1. \A p \in Requests : wasFree'[p] = wasFree[p]
    <3> SUFFICES ASSUME NEW p \in Requests PROVE wasFree'[p] = wasFree[p]
      OBVIOUS
    <3>1. wasFree'[p] = IF req[p].pc = "idle" THEN {} ELSE wasFree[p] \cup (Ids \ Used(table))
      BY <1>1, <1>9 DEF Sees
    <3> QED BY <3>1 DEF SeenInv
  <2>2. wasFree' \in [Requests -> SUBSET Ids] /\ wasFree \in [Requests -> SUBSET Ids]
    BY <1>6 DEF TypeOK
  <2> QED BY <2>1, <2>2
<1>12. wasFull' = wasFull
  <2>1. wasFull' = {p \in Running(req) : p \in wasFull \/ AutoIds \subseteq Used(table)}
    BY <1>1, <1>10 DEF Sees
  <2>2. wasFull \subseteq Requests
    BY DEF TypeOK
  <2> QED BY <2>1, <2>2 DEF SeenInv, Running
<1> QED BY <1>1, <1>5, <1>6, <1>8, <1>10, <1>11, <1>12, SeesType DEF Stutters

LEMMA UpsertsStep ==
  ASSUME IInv, NEW q \in Requests, Upserts(q)
  PROVE  /\ IInv'
         /\ \E i \in Ids, c \in Contents : Promised!Grant(q, i, c)
<1>1. req[q].pc = "assigned" /\ table' = [table EXCEPT ![req[q].id] = req[q].content]
      /\ req' = [req EXCEPT ![q] = Idle] /\ UNCHANGED refused
      /\ UNCHANGED <<fetched, requests>> /\ Sees
  BY DEF Upserts
<1>2. req[q].id \in Ids /\ req[q].content \in Contents
  BY <1>1, RequestKinds DEF IInv, TypeOK
<1>3. table' \in [Ids -> Rows]
  BY <1>1, <1>2 DEF IInv, TypeOK, Rows
<1>4. IInv' /\ Promised!Finish(q)
  BY <1>1, <1>3, EndsStep DEF IInv, TypeOK
<1>5. req[q].id \in wasFree[q]
  BY <1>1 DEF IInv, SlotWasFree
<1>6. Promised!Grant(q, req[q].id, req[q].content)
  BY <1>1, <1>4, <1>5, SeesIsSeenBy DEF Promised!Grant
<1> QED BY <1>2, <1>4, <1>6

LEMMA StatementFailsStep ==
  ASSUME IInv, NEW q \in Requests, StatementFails(q)
  PROVE  IInv' /\ Promised!GiveUp(q)
<1>1. req[q].pc # "idle" /\ req' = [req EXCEPT ![q] = Idle] /\ UNCHANGED table
      /\ UNCHANGED refused /\ UNCHANGED <<fetched, requests>> /\ Sees
  BY DEF StatementFails
<1>2. IInv' /\ Promised!Finish(q)
  BY <1>1, EndsStep DEF IInv, TypeOK
<1> QED BY <1>1, <1>2, SeesIsSeenBy DEF Promised!GiveUp

\* A statement that is a request of its own: no creation moves.
LEMMA TableStep ==
  ASSUME IInv, table' \in [Ids -> Rows], Counted, Sees,
         UNCHANGED req, UNCHANGED refused, UNCHANGED fetched
  PROVE  IInv' /\ Promised!SeenBy(Running(req), table')
<1> USE DEF IInv
<1>1. requests' \in 0..MaxRequests
  BY SlotsAssumption DEF Counted, TypeOK
<1>2. req' \in [Requests -> Request]
  BY DEF TypeOK
<1>3. TypeOK'
  BY <1>1, <1>2, SeesType DEF TypeOK
<1>4. SlotWasFree'
  BY SeesKeepsSlots
<1>5. Promised!SeenBy(Running(req), table')
  BY SeesIsSeenBy
<1> QED BY <1>2, <1>3, <1>4, <1>5, SeesType

LEMMA UpdateStep ==
  ASSUME IInv, NEW i \in Ids, NEW c \in Contents, UpdateReminder(i, c)
  PROVE  IInv' /\ Promised!Edit(i, c)
<1>1. i \in Used(table) /\ table' = [table EXCEPT ![i] = c] /\ Counted /\ Sees
      /\ UNCHANGED req /\ UNCHANGED refused /\ UNCHANGED fetched
  BY DEF UpdateReminder
<1>2. table' \in [Ids -> Rows]
  BY <1>1 DEF IInv, TypeOK, Rows
<1>3. IInv' /\ Promised!SeenBy(Running(req), table')
  BY <1>1, <1>2, TableStep
<1>4. i \in Promised!Used(table)
  BY <1>1 DEF Used, Promised!Used
<1> QED BY <1>1, <1>3, <1>4 DEF Promised!Edit

LEMMA DeleteStep ==
  ASSUME IInv, NEW i \in Ids, DeleteReminder(i)
  PROVE  IInv' /\ Promised!Delete(i)
<1>1. table' = [table EXCEPT ![i] = NoRow] /\ Counted /\ Sees
      /\ UNCHANGED req /\ UNCHANGED refused /\ UNCHANGED fetched
  BY DEF DeleteReminder
<1>2. table' \in [Ids -> Rows]
  BY <1>1 DEF IInv, TypeOK, Rows
<1>3. IInv' /\ Promised!SeenBy(Running(req), table')
  BY <1>1, <1>2, TableStep
<1> QED BY <1>1, <1>3 DEF Promised!Delete

LEMMA PollStep ==
  ASSUME IInv, PollApi \/ PollSpliced
  PROVE  IInv' /\ Stutters
<1>1. UNCHANGED table /\ UNCHANGED req /\ UNCHANGED refused
      /\ UNCHANGED requests /\ UNCHANGED wasFree /\ UNCHANGED wasFull
  BY DEF PollApi, PollSpliced, seenVars
<1>10. fetched' \in [Ids -> Rows]
  BY DEF PollApi, PollSpliced, IInv, TypeOK
<1>2. TypeOK'
  BY <1>1, <1>10 DEF IInv, TypeOK
<1>3. SeenInv' /\ SlotWasFree'
  BY <1>1 DEF IInv, SeenInv, SlotWasFree
<1> QED BY <1>1, <1>2, <1>3 DEF IInv, Stutters

-----------------------------------------------------------------------------
(* The theorems.                                                            *)

LEMMA StepSimulates ==
  ASSUME IInv, [Next]_vars
  PROVE  IInv' /\ [Promised!Next]_(Promised!slots)
<1>1. CASE UNCHANGED vars
  <2>1. UNCHANGED table /\ UNCHANGED req /\ UNCHANGED refused /\ UNCHANGED fetched
        /\ UNCHANGED requests /\ UNCHANGED wasFree /\ UNCHANGED wasFull
    BY <1>1 DEF vars, seenVars
  <2>2. IInv'
    BY <2>1 DEF IInv, TypeOK, SeenInv, SlotWasFree
  <2> QED BY <2>1, <2>2 DEF Promised!slots
<1>2. CASE \E q \in Requests, id \in Ids, c \in Contents : Arrives(q, id, c)
  BY <1>2, ArrivesStep DEF Promised!Next
<1>3. CASE \E q \in Requests : req[q].pc = "arrived" /\ Refuses(q)
  BY <1>3, RefusesStep DEF Promised!Next
<1>4. CASE \E q \in Requests : req[q].pc = "arrived" /\
          \E i \in Candidates(req[q].id, Used(table)) : Assigns(q, i)
  BY <1>4, AssignsStep DEF Stutters, Promised!slots
<1>5. CASE \E q \in Requests : Upserts(q)
  BY <1>5, UpsertsStep DEF Promised!Next
<1>6. CASE \E q \in Requests : StatementFails(q)
  BY <1>6, StatementFailsStep DEF Promised!Next
<1>7. CASE \E i \in Ids, c \in Contents : UpdateReminder(i, c)
  BY <1>7, UpdateStep DEF Promised!Next
<1>8. CASE \E i \in Ids : DeleteReminder(i)
  BY <1>8, DeleteStep DEF Promised!Next
<1>9. CASE PollApi \/ PollSpliced
  BY <1>9, PollStep DEF Stutters, Promised!slots
<1> QED
  BY <1>1, <1>2, <1>3, <1>4, <1>5, <1>6, <1>7, <1>8, <1>9 DEF Next, ListsSlots

LEMMA InvariantHolds == Spec => []IInv
<1>1. IInv /\ [Next]_vars => IInv'
  BY StepSimulates
<1> QED BY <1>1, InitIInv, PTL DEF Spec

\* Rows, requests and what they have seen keep their types (handlers.go:195-287).
THEOREM SlotsTypeCorrect == Spec => []TypeOK
<1>1. IInv => TypeOK
  BY DEF IInv
<1> QED BY <1>1, InvariantHolds, PTL

\* A creation writes only to a slot that was free while it ran (handlers.go:212-241).
THEOREM SlotAlwaysWasFree == Spec => []SlotWasFree
<1>1. IInv => SlotWasFree
  BY DEF IInv
<1> QED BY <1>1, InvariantHolds, PTL

\* Whatever the list, the reminders in assigned slots are among those uploaded
\* (pinetime_bridge.cpp:1101).
THEOREM AutoSlotsAlwaysUploaded == Spec => []AutoSlotsUploaded
<1>1. AutoSlotsUploaded
  BY LowSlotsFirst DEF AutoSlotsUploaded
<1> QED BY <1>1, PTL

\* Refinement: every creation, refusal, edit and deletion of the server is one that
\* ReminderSlots allows (handlers.go:195-287, sqlite.go:188-240).
THEOREM SlotsAsPromised == Spec => SlotsPromised
<1>1. Init => Promised!Init
  BY DEF Init, Promised!Init, Running, Rows, Idle
<1>2. IInv /\ [Next]_vars => [Promised!Next]_(Promised!slots)
  BY StepSimulates
<1> QED BY <1>1, <1>2, InvariantHolds, PTL DEF Spec, SlotsPromised, Promised!Spec
=============================================================================
