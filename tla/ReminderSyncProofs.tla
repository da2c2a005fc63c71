------------------------- MODULE ReminderSyncProofs -------------------------
(***************************************************************************)
(* Proofs about ReminderSync: its type invariant, that the hash is         *)
(* fulfilled, and the three invariants on queue, counter and grace period. *)
(***************************************************************************)
EXTENDS ReminderSync, FiniteSetTheorems, TLAPS

-----------------------------------------------------------------------------
(* The commands of a sync.                                                  *)

LEMMA SlotsFinite == IsFiniteSet(Slots)
<1>1. \A a, b \in Int : IsFiniteSet(a..b)
  BY FS_Interval
<1>2. 0 \in Int /\ 55 \in Int
  OBVIOUS
<1>3. IsFiniteSet(0..55)
  BY <1>1, <1>2, Zenon
<1> QED BY <1>3, SlotsAssumption, FS_Subset

LEMMA ImageOfType ==
  ASSUME NEW list \in [Slots -> Entry]
  PROVE  ImageOf(list) \in Image
<1>1. ASSUME NEW s \in Slots, list[s] # NoReminder  PROVE list[s].msg \in Msgs
  BY <1>1 DEF Entry
<1> QED BY <1>1 DEF ImageOf, Image

LEMMA ListingType ==
  ASSUME NEW image \in Image, NEW l \in Listings(InUse(image))
  PROVE  /\ l \in Seq(Slots)
         /\ \A i \in 1..Len(l) : l[i] \in Slots /\ image[l[i]] \in Msgs
         /\ \A s \in InUse(image) : \E i \in 1..Len(l) : l[i] = s
         /\ \A i, j \in 1..Len(l) : i < j => l[i] < l[j]
<1> DEFINE S == InUse(image)
           n == Cardinality(S)
<1>1. n \in Nat
  BY SlotsFinite, FS_Subset, FS_CardinalityType DEF InUse
<1>2. l \in [1..n -> S]
  BY DEF Listings
<1>3. l \in Seq(S) /\ Len(l) = n
  BY <1>1, <1>2
<1>4. DOMAIN l = 1..Len(l)
  BY <1>3
<1>5. S \subseteq Slots
  BY DEF InUse
<1>6. \A i \in 1..Len(l) : l[i] \in S
  BY <1>3
<1>7. l \in Seq(Slots)
  BY <1>3, <1>5
<1>8. \A s \in S : image[s] \in Msgs
  BY DEF InUse, Image
<1> QED BY <1>4, <1>5, <1>6, <1>7, <1>8 DEF Listings

LEMMA BatchType ==
  ASSUME NEW image \in Image, NEW l \in Listings(InUse(image))
  PROVE  /\ Batch(l, image) \in Seq(QueueCmd)
         /\ Len(Batch(l, image)) = Len(l) + 1
         /\ Batch(l, image)[1] = DeleteAll
         /\ \A i \in 1..Len(l) : Batch(l, image)[i + 1] = Write(l[i], image[l[i]])
<1> DEFINE w == [i \in 1..Len(l) |-> Write(l[i], image[l[i]])]
<1>1. Len(l) \in Nat /\ \A i \in 1..Len(l) : Write(l[i], image[l[i]]) \in QueueCmd
  BY ListingType DEF Write, QueueCmd
<1>2. w \in Seq(QueueCmd) /\ Len(w) = Len(l)
  BY <1>1
<1>3. <<DeleteAll>> \in Seq(QueueCmd) /\ Len(<<DeleteAll>>) = 1
  BY DEF QueueCmd
<1>4. Batch(l, image) = <<DeleteAll>> \o w
  BY DEF Batch
<1> HIDE DEF w
<1>5. /\ <<DeleteAll>> \o w \in Seq(QueueCmd)
      /\ Len(<<DeleteAll>> \o w) = Len(l) + 1
      /\ (<<DeleteAll>> \o w)[1] = DeleteAll
  BY <1>1, <1>2, <1>3
<1>6. ASSUME NEW i \in 1..Len(l)  PROVE (<<DeleteAll>> \o w)[i + 1] = w[i]
  BY <1>1, <1>2, <1>3
<1>7. \A i \in 1..Len(l) : w[i] = Write(l[i], image[l[i]])
  BY DEF w
<1> QED BY <1>4, <1>5, <1>6, <1>7

LEMMA SyncRemindersType ==
  ASSUME TypeOK, NEW list \in [Slots -> Entry], NEW connected \in BOOLEAN,
         SyncReminders(list, connected)
  PROVE  /\ last_sync_hash_' \in Image \cup {NoHash}
         /\ command_queue_' \in Seq(QueueCmd)
         /\ missed' \in BOOLEAN
<1> DEFINE image == ImageOf(list)
<1>1. CASE image = last_sync_hash_ \/ ~connected
  BY <1>1 DEF SyncReminders, TypeOK, syncVars
<1>2. CASE ~(image = last_sync_hash_ \/ ~connected)
  <2>1. /\ last_sync_hash_' = image /\ missed' = FALSE
        /\ \E l \in Listings(InUse(image)) : command_queue_' = command_queue_ \o Batch(l, image)
    BY <1>2 DEF SyncReminders
  <2>2. image \in Image
    BY ImageOfType
  <2>3. PICK l \in Listings(InUse(image)) : command_queue_' = command_queue_ \o Batch(l, image)
    BY <2>1
  <2>4. Batch(l, image) \in Seq(QueueCmd) /\ command_queue_ \in Seq(QueueCmd)
    BY <2>2, BatchType DEF TypeOK
  <2>5. command_queue_' \in Seq(QueueCmd)
    BY <2>3, <2>4
  <2> QED BY <2>1, <2>2, <2>5
<1> QED BY <1>1, <1>2

-----------------------------------------------------------------------------
(* Type correctness.                                                        *)

LEMMA TypeInit == Init => TypeOK
<1>1. NoReminders \in [Slots -> Entry]
  BY DEF NoReminders, Entry
<1>2. /\ <<>> \in Seq(QueueCmd) /\ <<>> \in Seq(AirCmd) /\ <<>> \in Seq(CmdKind)
      /\ 0 \in Nat
  OBVIOUS
<1> QED BY <1>1, <1>2 DEF Init, TypeOK, DfuPhase

LEMMA AppendType ==
  ASSUME NEW S, NEW q \in Seq(S), NEW c \in S
  PROVE  Append(q, c) \in Seq(S)
  OBVIOUS

LEMMA TailType ==
  ASSUME NEW S, NEW q \in Seq(S), q # <<>>
  PROVE  Tail(q) \in Seq(S) /\ Head(q) \in S
  OBVIOUS

LEMMA EmptyType == ASSUME NEW S PROVE <<>> \in Seq(S)
  OBVIOUS

LEMMA SendOtherType ==
  ASSUME TypeOK, NEW kind \in OtherKind, NEW sent \in BOOLEAN, SendOther(kind, sent)
  PROVE  air' \in Seq(AirCmd) /\ pending_writes_' \in Nat
<1>1. Other(kind) \in AirCmd
  BY DEF Other, AirCmd
<1>2. air \in Seq(AirCmd) /\ pending_writes_ \in Nat
  BY DEF TypeOK
<1>3. CASE sent
  <2>1. air' = Append(air, Other(kind)) /\ pending_writes_' = pending_writes_ + 1
    BY <1>3 DEF SendOther
  <2>2. air' \in Seq(AirCmd)
    BY <1>1, <1>2, <2>1, AppendType
  <2>3. pending_writes_' \in Nat
    BY <1>2, <2>1
  <2> QED BY <2>2, <2>3
<1>4. CASE ~sent
  BY <1>2, <1>4 DEF SendOther
<1> QED BY <1>3, <1>4

LEMMA DisturbType ==
  ASSUME TypeOK, NEW kind, Disturb(kind)
  PROVE  disturbed' \in Nat
  BY DEF TypeOK, Disturb

LEMMA BlankType == Blank \in Image
  BY DEF Blank, Image

LEMMA TypeStep == TypeOK /\ [Next]_vars => TypeOK'
<1> SUFFICES ASSUME TypeOK, [Next]_vars  PROVE TypeOK'
  OBVIOUS
<1>1. CASE UNCHANGED vars
  BY <1>1 DEF TypeOK, vars, syncVars, flagVars, linkVars, dfuVars, radioVars, apiVars, worldVars
<1>2. ASSUME NEW s \in Slots, NEW entry \in Entry, EditServer(s, entry)  PROVE TypeOK'
  BY <1>2 DEF EditServer, TypeOK, syncVars, flagVars, linkVars, dfuVars, radioVars, apiVars
<1>3. ASSUME NEW notify \in BOOLEAN, PollSucceeds(notify)  PROVE TypeOK'
  <2>1. air' \in Seq(AirCmd) /\ pending_writes_' \in Nat
    BY <1>3, SendOtherType DEF PollSucceeds, OtherKind
  <2>2. /\ last_sync_hash_' \in Image \cup {NoHash} /\ command_queue_' \in Seq(QueueCmd)
        /\ missed' \in BOOLEAN
    BY <1>3, SyncRemindersType DEF PollSucceeds, TypeOK, syncVars
  <2>3. disturbed' \in Nat
    BY <1>3, DisturbType DEF PollSucceeds, TypeOK
  <2> QED BY <1>3, <2>1, <2>2, <2>3 DEF PollSucceeds, TypeOK, linkVars, dfuVars, worldVars
<1>4. CASE PollFails
  <2>1. /\ last_sync_hash_' \in Image \cup {NoHash} /\ command_queue_' \in Seq(QueueCmd)
        /\ missed' \in BOOLEAN
    BY <1>4, SyncRemindersType DEF PollFails, TypeOK, syncVars
  <2> QED BY <1>4, <2>1 DEF PollFails, TypeOK, flagVars, linkVars, dfuVars, radioVars, apiVars,
                            worldVars
<1>5. CASE Opened
  BY <1>5 DEF Opened, TypeOK, syncVars, flagVars, dfuVars, apiVars, worldVars
<1>6. ASSUME NEW hasService \in BOOLEAN, DiscoversForDfu(hasService)  PROVE TypeOK'
  <2>1. Other("dfu") \in AirCmd
    BY DEF Other, AirCmd, OtherKind
  <2>2. air' \in Seq(AirCmd)
    BY <1>6, <2>1, AppendType DEF DiscoversForDfu, TypeOK
  <2>3. disturbed' \in Nat
    BY <1>6, DisturbType DEF DiscoversForDfu, TypeOK
  <2>4. upload_handle_' \in BOOLEAN
    BY <1>6 DEF DiscoversForDfu, TypeOK
  <2> QED BY <1>6, <2>2, <2>3, <2>4 DEF DiscoversForDfu, TypeOK, DfuPhase, syncVars, flagVars, apiVars,
                            worldVars
<1>7. ASSUME NEW hasService \in BOOLEAN, NEW timeSent \in BOOLEAN, Discovers(hasService, timeSent)
      PROVE TypeOK'
  <2>1. air' \in Seq(AirCmd) /\ pending_writes_' \in Nat
    BY <1>7, SendOtherType DEF Discovers, OtherKind
  <2>2. upload_handle_' \in BOOLEAN
    BY <1>7 DEF Discovers, TypeOK
  <2>3. /\ last_sync_hash_' \in Image \cup {NoHash} /\ command_queue_' \in Seq(QueueCmd)
        /\ missed' \in BOOLEAN
    BY <1>7, <2>2, SyncRemindersType DEF Discovers, TypeOK, syncVars
  <2>4. disturbed' \in Nat
    BY <1>7, DisturbType DEF Discovers, TypeOK
  <2>5. services_discovered_' \in BOOLEAN
    BY <1>7, <2>2 DEF Discovers, TypeOK
  <2> QED BY <1>7, <2>1, <2>2, <2>3, <2>4, <2>5 DEF Discovers, TypeOK, dfuVars, apiVars, worldVars
<1>8. ASSUME NEW accepted \in BOOLEAN, ProcessNextCommand(accepted)  PROVE TypeOK'
  <2>1. command_queue_ \in Seq(QueueCmd) /\ command_queue_ # <<>>
    BY <1>8 DEF ProcessNextCommand, TypeOK
  <2>2. Head(command_queue_) \in AirCmd /\ command_queue_' \in Seq(QueueCmd)
    BY <1>8, <2>1, TailType DEF ProcessNextCommand, AirCmd
  <2>3. air' \in Seq(AirCmd)
    BY <1>8, <2>2, AppendType DEF ProcessNextCommand, TypeOK
  <2>4. disturbed' \in Nat
    BY <1>8, DisturbType DEF ProcessNextCommand, TypeOK
  <2>5. missed' \in BOOLEAN /\ ble_busy_' \in BOOLEAN
    BY <1>8 DEF ProcessNextCommand, TypeOK
  <2> QED BY <1>8, <2>2, <2>3, <2>4, <2>5
          DEF ProcessNextCommand, TypeOK, linkVars, dfuVars, apiVars, worldVars
<1>9. CASE PeriodicRefresh
  <2>1. air' \in Seq(AirCmd) /\ pending_writes_' \in Nat
    BY <1>9, SendOtherType DEF PeriodicRefresh, OtherKind
  <2> QED BY <1>9, <2>1 DEF PeriodicRefresh, TypeOK, syncVars, linkVars, dfuVars, apiVars, worldVars
<1>10. CASE WriteConfirmed
  <2>1. confirms' \in Seq(CmdKind) /\ pending_writes_' \in Nat
    BY <1>10 DEF WriteConfirmed, Released, TypeOK
  <2>2. last_sync_time_' \in BOOLEAN
    BY <1>10 DEF WriteConfirmed, TypeOK
  <2>3. /\ ble_busy_' \in BOOLEAN /\ UNCHANGED syncVars /\ UNCHANGED linkVars
        /\ UNCHANGED dfuVars /\ UNCHANGED apiVars /\ UNCHANGED worldVars
        /\ UNCHANGED <<radio, air, watch, disturbed>>
    BY <1>10 DEF WriteConfirmed
  <2> QED BY <2>1, <2>2, <2>3 DEF TypeOK, syncVars, linkVars, dfuVars, apiVars, worldVars
<1>11. CASE Disconnected
  <2>1. /\ last_sync_hash_' \in Image \cup {NoHash} /\ command_queue_' \in Seq(QueueCmd)
        /\ missed' \in BOOLEAN
    BY <1>11, EmptyType DEF Disconnected, TypeOK
  <2>2. /\ <<>> \in Seq(AirCmd) /\ <<>> \in Seq(CmdKind) /\ 0 \in Nat
    OBVIOUS
  <2> QED BY <1>11, <2>1, <2>2 DEF Disconnected, TypeOK, dfuVars, apiVars, worldVars
<1>12. CASE WatchReceives
  <2>1. Head(air) \in AirCmd /\ air' \in Seq(AirCmd)
    BY <1>12 DEF WatchReceives, TypeOK
  <2>2. Head(air).kind \in CmdKind
    BY <2>1 DEF AirCmd, QueueCmd, DeleteAll, CmdKind, OtherKind
  <2>3. confirms' \in Seq(CmdKind)
    BY <1>12, <2>2 DEF WatchReceives, TypeOK
  <2>4. watch' \in Image
    <3>1. CASE Head(air).kind = "write"
      <4>1. Head(air).slot \in Slots /\ Head(air).msg \in Msgs
        BY <2>1, <3>1 DEF AirCmd, QueueCmd, DeleteAll, OtherKind
      <4> QED BY <1>12, <3>1, <4>1 DEF WatchReceives, TypeOK, Image
    <3>2. CASE Head(air).kind \in {"delete_all", "activate"}
      BY <1>12, <3>2, BlankType DEF WatchReceives
    <3>3. CASE Head(air).kind \notin {"write", "delete_all", "activate"}
      BY <1>12, <3>3 DEF WatchReceives, TypeOK
    <3> QED BY <3>1, <3>2, <3>3
  <2>5. radio' \in BOOLEAN /\ missed' \in BOOLEAN
    BY <1>12 DEF WatchReceives, TypeOK
  <2> QED BY <1>12, <2>1, <2>3, <2>4, <2>5
          DEF WatchReceives, TypeOK, flagVars, linkVars, dfuVars, apiVars, worldVars
<1>13. CASE WatchRejects
  <2>1. Head(air) \in AirCmd /\ air' \in Seq(AirCmd)
    BY <1>13 DEF WatchRejects, TypeOK
  <2>2. Head(air).kind \in CmdKind
    BY <2>1 DEF AirCmd, QueueCmd, DeleteAll, CmdKind, OtherKind
  <2>3. confirms' \in Seq(CmdKind) /\ missed' \in BOOLEAN
    BY <1>13, <2>2 DEF WatchRejects, TypeOK, IsReminderCmd
  <2>4. disturbed' \in Nat
    BY <1>13, DisturbType DEF WatchRejects
  <2> QED BY <1>13, <2>1, <2>3, <2>4 DEF WatchRejects, TypeOK, flagVars, linkVars, dfuVars, apiVars,
                                   worldVars
<1>14. CASE LinkLost
  <2>1. disturbed' \in Nat
    BY <1>14, DisturbType DEF LinkLost
  <2>2. radio' = FALSE /\ UNCHANGED <<syncVars, flagVars, linkVars, dfuVars>>
    BY <1>14 DEF LinkLost
  <2>3. UNCHANGED <<air, confirms, watch, apiVars, worldVars>>
    BY <1>14 DEF LinkLost
  <2>4. radio' \in BOOLEAN
    BY <2>2
  <2>5. UNCHANGED syncVars /\ UNCHANGED flagVars /\ UNCHANGED linkVars /\ UNCHANGED dfuVars
    BY <2>2
  <2> QED BY <2>1, <2>3, <2>4, <2>5
          DEF TypeOK, syncVars, flagVars, linkVars, dfuVars, apiVars, worldVars
<1>15. CASE WatchReboots
  <2>1. disturbed' \in Nat /\ watch' \in Image
    BY <1>15, BlankType, DisturbType DEF WatchReboots
  <2>2. /\ radio' = FALSE /\ missed' = TRUE
        /\ UNCHANGED <<last_sync_hash_, command_queue_, flagVars, linkVars, dfuVars>>
    BY <1>15 DEF WatchReboots
  <2>3. UNCHANGED <<air, confirms, apiVars, worldVars>>
    BY <1>15 DEF WatchReboots
  <2>4. /\ radio' \in BOOLEAN /\ missed' \in BOOLEAN
        /\ UNCHANGED last_sync_hash_ /\ UNCHANGED command_queue_
        /\ UNCHANGED flagVars /\ UNCHANGED linkVars /\ UNCHANGED dfuVars
    BY <2>2
  <2> QED BY <2>1, <2>3, <2>4 DEF TypeOK, flagVars, linkVars, dfuVars, apiVars, worldVars
<1>16. CASE BridgeReboots
  <2>1. NoReminders \in [Slots -> Entry]
    BY DEF NoReminders, Entry
  <2>2. /\ <<>> \in Seq(QueueCmd) /\ <<>> \in Seq(AirCmd) /\ <<>> \in Seq(CmdKind)
        /\ 0 \in Nat
    OBVIOUS
  <2>3. disturbed' \in Nat
    BY <1>16, DisturbType DEF BridgeReboots
  <2> QED BY <1>16, <2>1, <2>2, <2>3 DEF BridgeReboots, TypeOK, DfuPhase, worldVars
<1>17. ASSUME NEW downloaded \in BOOLEAN, StartDfu(downloaded)  PROVE TypeOK'
  <2>1. disturbed' \in Nat
    BY <1>17, DisturbType DEF StartDfu
  <2>2. /\ dfu_state' \in DfuPhase /\ searching' \in BOOLEAN
        /\ UNCHANGED <<ble_connected_, services_discovered_, upload_handle_, ans_handle_,
                       post_dfu_, updated>>
    BY <1>17 DEF StartDfu, TypeOK, DfuPhase
  <2>3. UNCHANGED <<syncVars, flagVars, radioVars, apiVars, worldVars>>
    BY <1>17 DEF StartDfu
  <2> QED BY <2>1, <2>2, <2>3 DEF TypeOK, syncVars, flagVars, radioVars, apiVars, worldVars
<1>18. ASSUME NEW phase \in DfuPhase, DfuNotified(phase)  PROVE TypeOK'
  <2>1. Other("activate") \in AirCmd /\ Other("dfu") \in AirCmd
    BY DEF Other, AirCmd, OtherKind
  <2>2. air' \in Seq(AirCmd)
    BY <1>18, <2>1, AppendType DEF DfuNotified, TypeOK
  <2> QED BY <1>18, <2>2 DEF DfuNotified, TypeOK, syncVars, flagVars, linkVars, apiVars, worldVars
<1>19. CASE DfuTimesOut
  BY <1>19 DEF DfuTimesOut, TypeOK, DfuPhase, syncVars, flagVars, linkVars, radioVars, apiVars,
               worldVars
<1>20. CASE DfuDone
  BY <1>20 DEF DfuDone, TypeOK, DfuPhase, syncVars, flagVars, linkVars, radioVars, apiVars,
               worldVars
<1>21. CASE GraceEnds
  <2>1. /\ last_sync_hash_' \in Image \cup {NoHash} /\ post_dfu_' \in BOOLEAN
        /\ updated' \in BOOLEAN
    BY <1>21 DEF GraceEnds, TypeOK
  <2>2. /\ UNCHANGED flagVars /\ UNCHANGED linkVars /\ UNCHANGED radioVars
        /\ UNCHANGED apiVars /\ UNCHANGED worldVars
        /\ UNCHANGED <<command_queue_, missed, dfu_state, disturbed>>
    BY <1>21 DEF GraceEnds
  <2> QED BY <2>1, <2>2 DEF TypeOK, flagVars, linkVars, radioVars, apiVars, worldVars
<1> QED BY <1>1, <1>2, <1>3, <1>4, <1>5, <1>6, <1>7, <1>8, <1>9, <1>10, <1>11, <1>12, <1>13,
           <1>14, <1>15, <1>16, <1>17, <1>18, <1>19, <1>20, <1>21 DEF Next

\* Every variable keeps its type, for all slots, contents, bounds and disturbances.
THEOREM TypeCorrect == Spec => []TypeOK
  BY TypeInit, TypeStep, PTL DEF Spec

-----------------------------------------------------------------------------
(* What a command queue does to a slot.                                     *)

LEMMA AppendTouch ==
  ASSUME NEW S, NEW q \in Seq(S), NEW c \in S, NEW s, NEW m
  PROVE  /\ Untouched(Append(q, c), s) <=> Untouched(q, s) /\ ~Touches(c, s)
         /\ Touches(c, s) /\ Effect(c) = m => LastSets(Append(q, c), s, m)
         /\ ~Touches(c, s) /\ LastSets(q, s, m) => LastSets(Append(q, c), s, m)
<1> DEFINE r == Append(q, c)
<1>1. /\ Len(q) \in Nat /\ DOMAIN q = 1..Len(q) /\ DOMAIN r = 1..(Len(q) + 1)
      /\ r[Len(q) + 1] = c /\ \A i \in 1..Len(q) : r[i] = q[i]
  OBVIOUS
<1> HIDE DEF r
<1>2. Untouched(r, s) <=> Untouched(q, s) /\ ~Touches(c, s)
  <2>1. ASSUME Untouched(r, s)  PROVE Untouched(q, s) /\ ~Touches(c, s)
    BY <1>1, <2>1 DEF Untouched
  <2>2. ASSUME Untouched(q, s), ~Touches(c, s)  PROVE Untouched(r, s)
    <3>1. ASSUME NEW i \in DOMAIN r  PROVE ~Touches(r[i], s)
      <4>1. i \in 1..Len(q) \/ i = Len(q) + 1
        BY <1>1, <3>1
      <4> QED BY <1>1, <2>2, <4>1 DEF Untouched
    <3> QED BY <3>1 DEF Untouched
  <2> QED BY <2>1, <2>2
<1>3. ASSUME Touches(c, s), Effect(c) = m  PROVE LastSets(r, s, m)
  <2>1. Len(q) + 1 \in DOMAIN r /\ \A j \in DOMAIN r : ~(j > Len(q) + 1)
    BY <1>1
  <2> QED BY <1>1, <1>3, <2>1 DEF LastSets
<1>4. ASSUME ~Touches(c, s), LastSets(q, s, m)  PROVE LastSets(r, s, m)
  <2>1. PICK i \in DOMAIN q : /\ Touches(q[i], s) /\ Effect(q[i]) = m
                              /\ \A j \in DOMAIN q : j > i => ~Touches(q[j], s)
    BY <1>4 DEF LastSets
  <2>2. i \in DOMAIN r /\ r[i] = q[i]
    BY <1>1
  <2>3. ASSUME NEW j \in DOMAIN r, j > i  PROVE ~Touches(r[j], s)
    <3>1. j \in 1..Len(q) \/ j = Len(q) + 1
      BY <1>1
    <3> QED BY <1>1, <1>4, <2>1, <2>3, <3>1
  <2> QED BY <2>1, <2>2, <2>3 DEF LastSets
<1> QED BY <1>2, <1>3, <1>4 DEF r

LEMMA HeadTouch ==
  ASSUME NEW S, NEW q \in Seq(S), q # <<>>, NEW s, NEW m
  PROVE  /\ Untouched(q, s) <=> Untouched(Tail(q), s) /\ ~Touches(Head(q), s)
         /\ LastSets(q, s, m) =>
               \/ LastSets(Tail(q), s, m)
               \/ /\ Untouched(Tail(q), s)
                  /\ Touches(Head(q), s) /\ Effect(Head(q)) = m
<1> DEFINE t == Tail(q)
<1>1. /\ Len(q) \in Nat \ {0} /\ DOMAIN q = 1..Len(q) /\ DOMAIN t = 1..(Len(q) - 1)
      /\ Head(q) = q[1] /\ \A i \in 1..(Len(q) - 1) : t[i] = q[i + 1]
  OBVIOUS
<1> HIDE DEF t
<1>2. ASSUME NEW i \in DOMAIN q, i # 1  PROVE i - 1 \in DOMAIN t /\ t[i - 1] = q[i]
  <2>1. i \in 2..Len(q)
    BY <1>1, <1>2
  <2>2. i - 1 \in 1..(Len(q) - 1) /\ (i - 1) + 1 = i
    BY <1>1, <2>1
  <2> QED BY <1>1, <2>2
<1>3. ASSUME NEW i \in DOMAIN t  PROVE i + 1 \in DOMAIN q /\ t[i] = q[i + 1]
  BY <1>1
<1>4. 1 \in DOMAIN q
  BY <1>1
<1>5. ASSUME Untouched(q, s)  PROVE Untouched(t, s) /\ ~Touches(Head(q), s)
  BY <1>1, <1>3, <1>4, <1>5 DEF Untouched
<1>6. ASSUME Untouched(t, s), ~Touches(Head(q), s)  PROVE Untouched(q, s)
  <2>1. ASSUME NEW i \in DOMAIN q  PROVE ~Touches(q[i], s)
    BY <1>1, <1>2, <1>6 DEF Untouched
  <2> QED BY <2>1 DEF Untouched
<1>7. ASSUME LastSets(q, s, m)
      PROVE  \/ LastSets(t, s, m)
             \/ Untouched(t, s) /\ Touches(Head(q), s) /\ Effect(Head(q)) = m
  <2>1. PICK i \in DOMAIN q : /\ Touches(q[i], s) /\ Effect(q[i]) = m
                              /\ \A j \in DOMAIN q : j > i => ~Touches(q[j], s)
    BY <1>7 DEF LastSets
  <2>2. ASSUME NEW j \in DOMAIN t, j + 1 > i  PROVE ~Touches(t[j], s)
    BY <1>3, <2>1, <2>2
  <2>3. CASE i = 1
    <3>1. \A j \in DOMAIN t : j + 1 > 1
      BY <1>1
    <3>2. Untouched(t, s)
      BY <2>2, <2>3, <3>1 DEF Untouched
    <3> QED BY <1>1, <2>1, <2>3, <3>2
  <2>4. CASE i # 1
    <3>1. i - 1 \in DOMAIN t /\ t[i - 1] = q[i]
      BY <1>2, <2>4
    <3>2. ASSUME NEW j \in DOMAIN t, j > i - 1  PROVE j + 1 > i
      BY <1>1, <3>2
    <3>3. LastSets(t, s, m)
      BY <2>1, <2>2, <3>1, <3>2 DEF LastSets
    <3> QED BY <3>3
  <2> QED BY <2>3, <2>4
<1> QED BY <1>5, <1>6, <1>7 DEF t

LEMMA ConcatSets ==
  ASSUME NEW S, NEW p \in Seq(S), NEW q \in Seq(S), NEW s, NEW m, LastSets(q, s, m)
  PROVE  LastSets(p \o q, s, m)
<1> DEFINE r == p \o q
<1>1. /\ Len(p) \in Nat /\ Len(q) \in Nat /\ DOMAIN q = 1..Len(q)
      /\ DOMAIN r = 1..(Len(p) + Len(q))
      /\ \A i \in 1..Len(q) : r[Len(p) + i] = q[i]
  OBVIOUS
<1> HIDE DEF r
<1>2. PICK i \in DOMAIN q : /\ Touches(q[i], s) /\ Effect(q[i]) = m
                            /\ \A j \in DOMAIN q : j > i => ~Touches(q[j], s)
  BY DEF LastSets
<1>3. Len(p) + i \in DOMAIN r /\ r[Len(p) + i] = q[i]
  BY <1>1
<1>4. ASSUME NEW j \in DOMAIN r, j > Len(p) + i  PROVE ~Touches(r[j], s)
  <2> DEFINE k == j - Len(p)
  <2>1. k \in 1..Len(q) /\ k > i /\ Len(p) + k = j
    BY <1>1, <1>4
  <2> HIDE DEF k
  <2> QED BY <1>1, <1>2, <2>1
<1> QED BY <1>2, <1>3, <1>4 DEF LastSets, r

LEMMA BatchSets ==
  ASSUME NEW image \in Image, NEW l \in Listings(InUse(image)), NEW s \in Slots
  PROVE  LastSets(Batch(l, image), s, image[s])
<1> DEFINE b == Batch(l, image)
<1>1. /\ Len(l) \in Nat /\ DOMAIN b = 1..(Len(l) + 1) /\ b[1] = DeleteAll
      /\ \A i \in 1..Len(l) : b[i + 1] = Write(l[i], image[l[i]])
  BY BatchType, ListingType
<1> HIDE DEF b
<1>2. ASSUME NEW j \in DOMAIN b, j > 1
      PROVE  j - 1 \in 1..Len(l) /\ b[j] = Write(l[j - 1], image[l[j - 1]])
  <2>1. j - 1 \in 1..Len(l) /\ (j - 1) + 1 = j
    BY <1>1, <1>2
  <2> QED BY <1>1, <2>1
<1>3. ASSUME NEW c, NEW x, NEW y, c = Write(x, y)
      PROVE  (Touches(c, s) <=> x = s) /\ Effect(c) = y
  BY <1>3 DEF Touches, Effect, Write
<1>4. Touches(DeleteAll, s) /\ Effect(DeleteAll) = NoMsg
  BY DEF Touches, Effect, DeleteAll
<1>5. CASE image[s] = NoMsg
  <2>1. ASSUME NEW j \in DOMAIN b, j > 1  PROVE ~Touches(b[j], s)
    <3>1. image[l[j - 1]] \in Msgs
      BY <1>2, <2>1, ListingType
    <3>2. l[j - 1] # s
      BY <1>5, <3>1, NoValueAssumption
    <3> QED BY <1>2, <1>3, <2>1, <3>2
  <2>2. 1 \in DOMAIN b
    BY <1>1
  <2> QED BY <1>1, <1>4, <1>5, <2>1, <2>2 DEF LastSets, b
<1>6. CASE image[s] # NoMsg
  <2>1. PICK i \in 1..Len(l) : l[i] = s
    BY <1>6, ListingType DEF InUse
  <2>2. i + 1 \in DOMAIN b /\ b[i + 1] = Write(s, image[s])
    BY <1>1, <2>1
  <2>3. ASSUME NEW j \in DOMAIN b, j > i + 1  PROVE ~Touches(b[j], s)
    <3>1. j > 1 /\ i < j - 1
      BY <1>1, <2>3
    <3>2. j - 1 \in 1..Len(l) /\ b[j] = Write(l[j - 1], image[l[j - 1]])
      BY <1>2, <3>1
    <3>3. l[i] \in Slots /\ l[j - 1] \in Slots /\ l[i] < l[j - 1]
      BY <3>1, <3>2, ListingType
    <3>4. l[j - 1] # s
      BY <2>1, <3>3, SlotsAssumption
    <3> QED BY <1>3, <3>2, <3>4
  <2> QED BY <1>3, <2>2, <2>3 DEF LastSets, b
<1> QED BY <1>5, <1>6

-----------------------------------------------------------------------------
(* The hash is fulfilled: HashIsFulfilled is inductive with the types.      *)

\* The writes that go around the queue touch no slot.
AirNeutral == air' = air \/ \E k \in OtherKind : air' = Append(air, Other(k))

LEMMA SendOtherNeutral ==
  ASSUME NEW kind \in OtherKind, NEW sent \in BOOLEAN, SendOther(kind, sent)
  PROVE  AirNeutral
  BY DEF SendOther, AirNeutral

LEMMA NeutralAir ==
  ASSUME TypeOK, AirNeutral, NEW s, NEW m
  PROVE  /\ Untouched(air, s) => Untouched(air', s)
         /\ LastSets(air, s, m) => LastSets(air', s, m)
<1>1. CASE air' = air
  BY <1>1
<1>2. ASSUME NEW k \in OtherKind, air' = Append(air, Other(k))
      PROVE  /\ Untouched(air, s) => Untouched(air', s)
             /\ LastSets(air, s, m) => LastSets(air', s, m)
  <2>1. Other(k) \in AirCmd /\ air \in Seq(AirCmd)
    BY DEF Other, AirCmd, TypeOK
  <2>2. ~Touches(Other(k), s)
    BY DEF Touches, Other, OtherKind
  <2> QED BY <1>2, <2>1, <2>2, AppendTouch
<1> QED BY <1>1, <1>2 DEF AirNeutral

LEMMA NeutralStep ==
  ASSUME TypeOK, HashIsFulfilled, AirNeutral, missed => missed',
         UNCHANGED <<last_sync_hash_, command_queue_, watch>>
  PROVE  HashIsFulfilled'
<1> SUFFICES ASSUME last_sync_hash_' # NoHash, ~missed', NEW s \in Slots
             PROVE  WillHold(s, last_sync_hash_[s])'
  BY DEF HashIsFulfilled
<1> DEFINE m == last_sync_hash_[s]
<1>1. WillHold(s, m)
  BY DEF HashIsFulfilled
<1>2. /\ Untouched(air, s) => Untouched(air', s)
      /\ LastSets(air, s, m) => LastSets(air', s, m)
  BY NeutralAir
<1> QED BY <1>1, <1>2 DEF WillHold

LEMMA SyncStep ==
  ASSUME TypeOK, HashIsFulfilled, AirNeutral, watch' = watch,
         NEW list \in [Slots -> Entry], NEW connected \in BOOLEAN,
         SyncReminders(list, connected)
  PROVE  HashIsFulfilled'
<1> DEFINE image == ImageOf(list)
<1>1. CASE image = last_sync_hash_ \/ ~connected
  <2>1. UNCHANGED syncVars
    BY <1>1 DEF SyncReminders
  <2> QED BY <2>1, NeutralStep DEF syncVars
<1>2. CASE ~(image = last_sync_hash_ \/ ~connected)
  <2>1. PICK l \in Listings(InUse(image)) : /\ last_sync_hash_' = image
                                            /\ command_queue_' = command_queue_ \o Batch(l, image)
    BY <1>2 DEF SyncReminders
  <2>2. image \in Image
    BY ImageOfType
  <2>3. Batch(l, image) \in Seq(QueueCmd) /\ command_queue_ \in Seq(QueueCmd)
    BY <2>2, BatchType DEF TypeOK
  <2>4. ASSUME NEW s \in Slots  PROVE LastSets(command_queue_', s, image[s])
    BY <2>1, <2>2, <2>3, BatchSets, ConcatSets
  <2> QED BY <2>1, <2>4 DEF HashIsFulfilled, WillHold
<1> QED BY <1>1, <1>2

LEMMA SendStep ==
  ASSUME TypeOK, HashIsFulfilled, NEW accepted \in BOOLEAN, ProcessNextCommand(accepted)
  PROVE  HashIsFulfilled'
<1> SUFFICES ASSUME last_sync_hash_' # NoHash, ~missed', NEW s \in Slots
             PROVE  WillHold(s, last_sync_hash_[s])'
  BY DEF HashIsFulfilled
<1> DEFINE m == last_sync_hash_[s]
           c == Head(command_queue_)
<1>1. /\ last_sync_hash_' = last_sync_hash_ /\ command_queue_ # <<>>
      /\ command_queue_' = Tail(command_queue_) /\ watch' = watch
      /\ air' = Append(air, c) /\ ~missed
  BY DEF ProcessNextCommand
<1>2. WillHold(s, m)
  BY <1>1 DEF HashIsFulfilled
<1>3. command_queue_ \in Seq(QueueCmd) /\ air \in Seq(AirCmd)
  BY DEF TypeOK
<1>4. c \in AirCmd
  BY <1>1, <1>3, TailType DEF AirCmd
<1>5. /\ Untouched(command_queue_, s) <=> Untouched(Tail(command_queue_), s) /\ ~Touches(c, s)
      /\ LastSets(command_queue_, s, m) =>
            \/ LastSets(Tail(command_queue_), s, m)
            \/ Untouched(Tail(command_queue_), s) /\ Touches(c, s) /\ Effect(c) = m
  BY <1>1, <1>3, HeadTouch
<1>6. /\ Untouched(Append(air, c), s) <=> Untouched(air, s) /\ ~Touches(c, s)
      /\ Touches(c, s) /\ Effect(c) = m => LastSets(Append(air, c), s, m)
      /\ ~Touches(c, s) /\ LastSets(air, s, m) => LastSets(Append(air, c), s, m)
  BY <1>3, <1>4, AppendTouch
<1> HIDE DEF c
<1> QED BY <1>1, <1>2, <1>5, <1>6 DEF WillHold

LEMMA ReceiveStep ==
  ASSUME TypeOK, HashIsFulfilled, WatchReceives
  PROVE  HashIsFulfilled'
<1> SUFFICES ASSUME last_sync_hash_' # NoHash, ~missed', NEW s \in Slots
             PROVE  WillHold(s, last_sync_hash_[s])'
  BY DEF HashIsFulfilled
<1> DEFINE m == last_sync_hash_[s]
           c == Head(air)
<1>1. /\ last_sync_hash_' = last_sync_hash_ /\ command_queue_' = command_queue_
      /\ air # <<>> /\ air' = Tail(air) /\ ~missed /\ c.kind # "activate"
  BY DEF WatchReceives
<1>2. WillHold(s, m)
  BY <1>1 DEF HashIsFulfilled
<1>3. air \in Seq(AirCmd) /\ c \in AirCmd
  BY <1>1, TailType DEF TypeOK
<1>4. /\ Untouched(air, s) <=> Untouched(Tail(air), s) /\ ~Touches(c, s)
      /\ LastSets(air, s, m) => \/ LastSets(Tail(air), s, m)
                                \/ Untouched(Tail(air), s) /\ Touches(c, s) /\ Effect(c) = m
  BY <1>1, <1>3, HeadTouch
<1>5. watch' = CASE c.kind = "write" -> [watch EXCEPT ![c.slot] = c.msg]
                 [] c.kind \in {"delete_all", "activate"} -> Blank
                 [] OTHER -> watch
  BY DEF WatchReceives
<1> HIDE DEF c
<1>6. watch'[s] = IF Touches(c, s) THEN Effect(c) ELSE watch[s]
  <2>1. CASE c.kind = "write"
    <3>1. watch' = [watch EXCEPT ![c.slot] = c.msg]
      BY <1>5, <2>1
    <3>2. DOMAIN watch = Slots
      BY DEF TypeOK, Image
    <3> QED BY <2>1, <3>1, <3>2 DEF Touches, Effect
  <2>2. CASE c.kind = "delete_all"
    <3>1. watch' = Blank
      BY <1>5, <2>2
    <3> QED BY <2>2, <3>1 DEF Touches, Effect, Blank
  <2>3. CASE c.kind \notin {"write", "delete_all"}
    <3>1. watch' = watch
      BY <1>1, <1>5, <2>3 DEF c
    <3> QED BY <2>3, <3>1 DEF Touches
  <2> QED BY <2>1, <2>2, <2>3
<1> QED BY <1>1, <1>2, <1>4, <1>6 DEF WillHold

LEMMA RejectStep ==
  ASSUME TypeOK, HashIsFulfilled, WatchRejects
  PROVE  HashIsFulfilled'
<1> SUFFICES ASSUME last_sync_hash_' # NoHash, ~missed', NEW s \in Slots
             PROVE  WillHold(s, last_sync_hash_[s])'
  BY DEF HashIsFulfilled
<1> DEFINE m == last_sync_hash_[s]
<1>1. /\ last_sync_hash_' = last_sync_hash_ /\ command_queue_' = command_queue_
      /\ air # <<>> /\ air' = Tail(air) /\ watch' = watch
      /\ ~missed /\ ~IsReminderCmd(Head(air))
  BY DEF WatchRejects
<1>2. WillHold(s, m)
  BY <1>1 DEF HashIsFulfilled
<1>3. ~Touches(Head(air), s)
  BY <1>1 DEF IsReminderCmd, Touches
<1>4. /\ Untouched(air, s) <=> Untouched(Tail(air), s) /\ ~Touches(Head(air), s)
      /\ LastSets(air, s, m) =>
            \/ LastSets(Tail(air), s, m)
            \/ Untouched(Tail(air), s) /\ Touches(Head(air), s) /\ Effect(Head(air)) = m
  BY <1>1, HeadTouch DEF TypeOK
<1> QED BY <1>1, <1>2, <1>3, <1>4 DEF WillHold

LEMMA DisconnectStep ==
  ASSUME TypeOK, HashIsFulfilled, Disconnected
  PROVE  HashIsFulfilled'
<1> SUFFICES ASSUME last_sync_hash_' # NoHash, ~missed', NEW s \in Slots
             PROVE  WillHold(s, last_sync_hash_[s])'
  BY DEF HashIsFulfilled
<1> DEFINE m == last_sync_hash_[s]
<1>1. /\ ~SyncPending /\ last_sync_hash_' = last_sync_hash_
      /\ command_queue_' = command_queue_ /\ air' = <<>> /\ watch' = watch
      /\ ~missed /\ ~HasReminderCmd(air)
  BY DEF Disconnected
<1>2. WillHold(s, m)
  BY <1>1 DEF HashIsFulfilled
<1>3. Untouched(air, s)
  BY <1>1 DEF HasReminderCmd, IsReminderCmd, Untouched, Touches
<1>4. ~LastSets(air, s, m)
  BY <1>3 DEF Untouched, LastSets
<1>5. Untouched(<<>>, s)
  BY DEF Untouched
<1> QED BY <1>1, <1>2, <1>3, <1>4, <1>5 DEF WillHold

LEMMA FulfilledStep == TypeOK /\ HashIsFulfilled /\ [Next]_vars => HashIsFulfilled'
<1> SUFFICES ASSUME TypeOK, HashIsFulfilled, [Next]_vars  PROVE HashIsFulfilled'
  OBVIOUS
<1> USE DEF syncVars, radioVars
<1>1. CASE UNCHANGED vars
  BY <1>1, NeutralStep DEF vars, AirNeutral
<1>2. ASSUME NEW s \in Slots, NEW entry \in Entry, EditServer(s, entry)  PROVE HashIsFulfilled'
  BY <1>2, NeutralStep DEF EditServer, AirNeutral
<1>3. ASSUME NEW notify \in BOOLEAN, PollSucceeds(notify)  PROVE HashIsFulfilled'
  <2>1. AirNeutral /\ watch' = watch
    BY <1>3, SendOtherNeutral DEF PollSucceeds, OtherKind
  <2>2. CASE SyncAllowed
    <3>1. SyncReminders(server, upload_handle_)
      BY <1>3, <2>2 DEF PollSucceeds
    <3> QED BY <2>1, <3>1, SyncStep DEF TypeOK
  <2>3. CASE ~SyncAllowed
    BY <1>3, <2>1, <2>3, NeutralStep DEF PollSucceeds
  <2> QED BY <2>2, <2>3
<1>4. CASE PollFails
  <2>1. AirNeutral /\ watch' = watch
    BY <1>4 DEF PollFails, AirNeutral
  <2>2. CASE SyncAllowed
    <3>1. SyncReminders(api_reminders_, upload_handle_)
      BY <1>4, <2>2 DEF PollFails
    <3> QED BY <2>1, <3>1, SyncStep DEF TypeOK
  <2>3. CASE ~SyncAllowed
    BY <1>4, <2>1, <2>3, NeutralStep DEF PollFails
  <2> QED BY <2>2, <2>3
<1>5. CASE Opened
  BY <1>5, NeutralStep DEF Opened, AirNeutral
<1>6. ASSUME NEW hasService \in BOOLEAN, DiscoversForDfu(hasService)  PROVE HashIsFulfilled'
  BY <1>6, NeutralStep DEF DiscoversForDfu, AirNeutral, OtherKind
<1>7. ASSUME NEW hasService \in BOOLEAN, NEW timeSent \in BOOLEAN, Discovers(hasService, timeSent)
      PROVE HashIsFulfilled'
  <2>1. AirNeutral /\ watch' = watch
    BY <1>7, SendOtherNeutral DEF Discovers, OtherKind
  <2>2. CASE SyncAllowed
    <3>1. SyncReminders(api_reminders_, upload_handle_') /\ upload_handle_' \in BOOLEAN
      BY <1>7, <2>2 DEF Discovers, TypeOK
    <3> QED BY <2>1, <3>1, SyncStep DEF TypeOK
  <2>3. CASE ~SyncAllowed
    BY <1>7, <2>1, <2>3, NeutralStep DEF Discovers
  <2> QED BY <2>2, <2>3
<1>8. ASSUME NEW accepted \in BOOLEAN, ProcessNextCommand(accepted)  PROVE HashIsFulfilled'
  BY <1>8, SendStep
<1>9. CASE PeriodicRefresh
  BY <1>9, NeutralStep, SendOtherNeutral DEF PeriodicRefresh, OtherKind
<1>10. CASE WriteConfirmed
  BY <1>10, NeutralStep DEF WriteConfirmed, AirNeutral
<1>11. CASE Disconnected
  BY <1>11, DisconnectStep
<1>12. CASE WatchReceives
  BY <1>12, ReceiveStep
<1>13. CASE WatchRejects
  BY <1>13, RejectStep
<1>14. CASE LinkLost
  BY <1>14, NeutralStep DEF LinkLost, AirNeutral
<1>15. CASE WatchReboots
  BY <1>15 DEF WatchReboots, HashIsFulfilled
<1>16. CASE BridgeReboots
  BY <1>16 DEF BridgeReboots, HashIsFulfilled
<1>17. ASSUME NEW downloaded \in BOOLEAN, StartDfu(downloaded)  PROVE HashIsFulfilled'
  BY <1>17, NeutralStep DEF StartDfu, AirNeutral
<1>18. ASSUME NEW phase \in DfuPhase, DfuNotified(phase)  PROVE HashIsFulfilled'
  <2>1. AirNeutral
    BY <1>18 DEF DfuNotified, AirNeutral, OtherKind
  <2> QED BY <1>18, <2>1, NeutralStep DEF DfuNotified
<1>19. CASE DfuTimesOut
  BY <1>19, NeutralStep DEF DfuTimesOut, AirNeutral
<1>20. CASE DfuDone
  BY <1>20, NeutralStep DEF DfuDone, AirNeutral
<1>21. CASE GraceEnds
  BY <1>21 DEF GraceEnds, HashIsFulfilled
<1> QED BY <1>1, <1>2, <1>3, <1>4, <1>5, <1>6, <1>7, <1>8, <1>9, <1>10, <1>11, <1>12, <1>13,
           <1>14, <1>15, <1>16, <1>17, <1>18, <1>19, <1>20, <1>21 DEF Next

\* Unless a write of the last sync was lost unnoticed, what is on the watch, on
\* the air and in the queue adds up to the image in last_sync_hash_: for any
\* number of reminders, edits, drops, reboots and firmware updates.
THEOREM HashFulfilled == Spec => []HashIsFulfilled
<1>1. Init => HashIsFulfilled
  BY DEF Init, HashIsFulfilled
<1> QED BY <1>1, TypeCorrect, FulfilledStep, PTL DEF Spec

-----------------------------------------------------------------------------
(* The counter, the queue and the grace period.                             *)

LEMMA LengthLaws ==
  ASSUME NEW S, NEW q \in Seq(S)
  PROVE  /\ Len(q) \in Nat
         /\ q # <<>> => Len(Tail(q)) = Len(q) - 1 /\ Len(q) > 0
         /\ \A c \in S : Len(Append(q, c)) = Len(q) + 1
  OBVIOUS

LEMMA PendingStep == TypeOK /\ PendingDrains /\ [Next]_vars => PendingDrains'
<1> SUFFICES ASSUME TypeOK, PendingDrains, [Next]_vars  PROVE PendingDrains'
  OBVIOUS
<1>1. /\ Len(air) \in Nat /\ Len(confirms) \in Nat /\ pending_writes_ \in Nat
      /\ air # <<>> => Len(Tail(air)) = Len(air) - 1 /\ Len(air) > 0
      /\ confirms # <<>> => Len(Tail(confirms)) = Len(confirms) - 1 /\ Len(confirms) > 0
  BY LengthLaws DEF TypeOK
<1>2. \A c : Len(Append(air, c)) = Len(air) + 1 /\ Len(Append(confirms, c)) = Len(confirms) + 1
  BY DEF TypeOK
<1>3. Len(<<>>) = 0
  OBVIOUS
<1>4. ASSUME UNCHANGED <<air, confirms, pending_writes_>>  PROVE PendingDrains'
  BY <1>4 DEF PendingDrains
<1>5. ASSUME UNCHANGED <<confirms, pending_writes_>>, NEW c, air' = Append(air, c)
      PROVE  PendingDrains'
  BY <1>1, <1>2, <1>5 DEF PendingDrains
<1>6. ASSUME UNCHANGED confirms, NEW kind, NEW sent \in BOOLEAN, SendOther(kind, sent)
      PROVE  PendingDrains'
  <2>1. CASE sent
    <3>1. air' = Append(air, Other(kind)) /\ pending_writes_' = pending_writes_ + 1
      BY <1>6, <2>1 DEF SendOther
    <3> QED BY <1>1, <1>2, <1>6, <3>1 DEF PendingDrains
  <2>2. CASE ~sent
    BY <1>4, <1>6, <2>2 DEF SendOther
  <2> QED BY <2>1, <2>2
<1>7. ASSUME UNCHANGED pending_writes_, air # <<>>, NEW c,
             air' = Tail(air), confirms' = Append(confirms, c)
      PROVE  PendingDrains'
  <2>1. Len(air') = Len(air) - 1 /\ Len(confirms') = Len(confirms) + 1
    BY <1>1, <1>2, <1>7
  <2> QED BY <1>1, <1>7, <2>1 DEF PendingDrains
<1> USE DEF flagVars, radioVars
<1>8. CASE UNCHANGED vars
  BY <1>4, <1>8 DEF vars
<1>9. ASSUME NEW s \in Slots, NEW entry \in Entry, EditServer(s, entry)  PROVE PendingDrains'
  BY <1>4, <1>9 DEF EditServer
<1>10. ASSUME NEW notify \in BOOLEAN, PollSucceeds(notify)  PROVE PendingDrains'
  BY <1>6, <1>10 DEF PollSucceeds
<1>11. CASE PollFails
  BY <1>4, <1>11 DEF PollFails
<1>12. CASE Opened
  BY <1>4, <1>12 DEF Opened
<1>13. ASSUME NEW hasService \in BOOLEAN, DiscoversForDfu(hasService)  PROVE PendingDrains'
  BY <1>5, <1>13 DEF DiscoversForDfu
<1>14. ASSUME NEW hasService \in BOOLEAN, NEW timeSent \in BOOLEAN, Discovers(hasService, timeSent)
      PROVE PendingDrains'
  BY <1>6, <1>14 DEF Discovers
<1>15. ASSUME NEW accepted \in BOOLEAN, ProcessNextCommand(accepted)  PROVE PendingDrains'
  <2>1. UNCHANGED <<confirms, pending_writes_>>
    BY <1>15 DEF ProcessNextCommand
  <2>2. air' = air \/ air' = Append(air, Head(command_queue_))
    BY <1>15 DEF ProcessNextCommand
  <2> QED BY <1>4, <1>5, <2>1, <2>2
<1>16. CASE PeriodicRefresh
  BY <1>6, <1>16 DEF PeriodicRefresh
<1>17. CASE WriteConfirmed
  <2>1. /\ confirms # <<>> /\ confirms' = Tail(confirms) /\ air' = air
        /\ pending_writes_' = IF pending_writes_ > 0 THEN pending_writes_ - 1 ELSE 0
    BY <1>17 DEF WriteConfirmed, Released
  <2>2. Len(confirms') = Len(confirms) - 1 /\ Len(confirms) > 0
    BY <1>1, <2>1
  <2> QED BY <1>1, <2>1, <2>2 DEF PendingDrains
<1>18. CASE Disconnected
  <2>1. pending_writes_' = 0 /\ air' = <<>> /\ confirms' = <<>>
    BY <1>18 DEF Disconnected
  <2> QED BY <1>3, <2>1 DEF PendingDrains
<1>19. CASE WatchReceives
  BY <1>7, <1>19 DEF WatchReceives
<1>20. CASE WatchRejects
  BY <1>7, <1>20 DEF WatchRejects
<1>21. CASE LinkLost
  BY <1>4, <1>21 DEF LinkLost
<1>22. CASE WatchReboots
  BY <1>4, <1>22 DEF WatchReboots
<1>23. CASE BridgeReboots
  <2>1. pending_writes_' = 0 /\ air' = <<>> /\ confirms' = <<>>
    BY <1>23 DEF BridgeReboots
  <2> QED BY <1>3, <2>1 DEF PendingDrains
<1>24. ASSUME NEW downloaded \in BOOLEAN, StartDfu(downloaded)  PROVE PendingDrains'
  BY <1>4, <1>24 DEF StartDfu
<1>25. ASSUME NEW phase \in DfuPhase, DfuNotified(phase)  PROVE PendingDrains'
  <2>1. UNCHANGED <<confirms, pending_writes_>>
    BY <1>25 DEF DfuNotified
  <2>2. air' = air \/ \E k \in OtherKind : air' = Append(air, Other(k))
    BY <1>25 DEF DfuNotified, OtherKind
  <2> QED BY <1>4, <1>5, <2>1, <2>2
<1>26. CASE DfuTimesOut
  BY <1>4, <1>26 DEF DfuTimesOut
<1>27. CASE DfuDone
  BY <1>4, <1>27 DEF DfuDone
<1>28. CASE GraceEnds
  BY <1>4, <1>28 DEF GraceEnds
<1> QED BY <1>8, <1>9, <1>10, <1>11, <1>12, <1>13, <1>14, <1>15, <1>16, <1>17, <1>18, <1>19,
           <1>20, <1>21, <1>22, <1>23, <1>24, <1>25, <1>26, <1>27, <1>28 DEF Next

\* pending_writes_ never exceeds the responses that can still come.
THEOREM PendingAlwaysDrains == Spec => []PendingDrains
<1>1. Init => PendingDrains
  BY DEF Init, PendingDrains
<1> QED BY <1>1, TypeCorrect, PendingStep, PTL DEF Spec

\* NoStaleCommand is not inductive alone: a poll queues commands whenever the
\* handle is known, so the handle must itself be tied to the connection.
HandlesNeedLink == upload_handle_ => ble_connected_
QueueInv == NoStaleCommand /\ HandlesNeedLink

LEMMA SyncNeedsHandle ==
  ASSUME NEW list, NEW connected \in BOOLEAN, SyncReminders(list, connected)
  PROVE  command_queue_' = command_queue_ \/ connected
  BY DEF SyncReminders, syncVars

LEMMA QueueStep == TypeOK /\ QueueInv /\ [Next]_vars => QueueInv'
<1> SUFFICES ASSUME TypeOK, QueueInv, [Next]_vars  PROVE QueueInv'
  OBVIOUS
<1> USE DEF QueueInv, NoStaleCommand, HandlesNeedLink, linkVars, syncVars
<1>1. CASE UNCHANGED vars
  BY <1>1 DEF vars
<1>2. ASSUME NEW s \in Slots, NEW entry \in Entry, EditServer(s, entry)  PROVE QueueInv'
  BY <1>2 DEF EditServer
<1>3. ASSUME NEW notify \in BOOLEAN, PollSucceeds(notify)  PROVE QueueInv'
  <2>1. command_queue_' = command_queue_ \/ upload_handle_
    BY <1>3, SyncNeedsHandle DEF PollSucceeds, TypeOK
  <2> QED BY <1>3, <2>1 DEF PollSucceeds
<1>4. CASE PollFails
  <2>1. command_queue_' = command_queue_ \/ upload_handle_
    BY <1>4, SyncNeedsHandle DEF PollFails, TypeOK
  <2> QED BY <1>4, <2>1 DEF PollFails
<1>5. CASE Opened
  BY <1>5 DEF Opened
<1>6. ASSUME NEW hasService \in BOOLEAN, DiscoversForDfu(hasService)  PROVE QueueInv'
  BY <1>6 DEF DiscoversForDfu
<1>7. ASSUME NEW hasService \in BOOLEAN, NEW timeSent \in BOOLEAN, Discovers(hasService, timeSent)
      PROVE QueueInv'
  <2>1. /\ upload_handle_' \in BOOLEAN /\ ble_connected_' /\ (upload_handle_ => upload_handle_')
    BY <1>7 DEF Discovers, TypeOK
  <2>2. command_queue_' = command_queue_ \/ upload_handle_'
    BY <1>7, <2>1, SyncNeedsHandle DEF Discovers
  <2> QED BY <2>1, <2>2
<1>8. ASSUME NEW accepted \in BOOLEAN, ProcessNextCommand(accepted)  PROVE QueueInv'
  BY <1>8 DEF ProcessNextCommand
<1>9. CASE PeriodicRefresh
  BY <1>9 DEF PeriodicRefresh
<1>10. CASE WriteConfirmed
  BY <1>10 DEF WriteConfirmed
<1>11. CASE Disconnected
  BY <1>11 DEF Disconnected, SyncPending
<1>12. CASE WatchReceives
  BY <1>12 DEF WatchReceives
<1>13. CASE WatchRejects
  BY <1>13 DEF WatchRejects
<1>14. CASE LinkLost
  BY <1>14 DEF LinkLost
<1>15. CASE WatchReboots
  BY <1>15 DEF WatchReboots
<1>16. CASE BridgeReboots
  BY <1>16 DEF BridgeReboots
<1>17. ASSUME NEW downloaded \in BOOLEAN, StartDfu(downloaded)  PROVE QueueInv'
  BY <1>17 DEF StartDfu
<1>18. ASSUME NEW phase \in DfuPhase, DfuNotified(phase)  PROVE QueueInv'
  BY <1>18 DEF DfuNotified
<1>19. CASE DfuTimesOut
  BY <1>19 DEF DfuTimesOut
<1>20. CASE DfuDone
  BY <1>20 DEF DfuDone
<1>21. CASE GraceEnds
  BY <1>21 DEF GraceEnds
<1> QED BY <1>1, <1>2, <1>3, <1>4, <1>5, <1>6, <1>7, <1>8, <1>9, <1>10, <1>11, <1>12, <1>13,
           <1>14, <1>15, <1>16, <1>17, <1>18, <1>19, <1>20, <1>21 DEF Next

\* A command queued on one connection is never sent on a later one.
THEOREM QueueNeverStale == Spec => []NoStaleCommand
<1>1. Init => QueueInv
  BY DEF Init, QueueInv, NoStaleCommand, HandlesNeedLink
<1>2. QueueInv => NoStaleCommand
  BY DEF QueueInv
<1> QED BY <1>1, <1>2, TypeCorrect, QueueStep, PTL DEF Spec

\* FreshFirmwareSpared is not inductive alone.  An activation on the air or
\* received means that the update is over and the grace period not; with the
\* link up on the new firmware nothing of a sync is queued or on the air, since
\* the reset cut the old link, the disconnect emptied the queue, and nothing can
\* be queued until the grace period has ended.
NoneOf(kinds, q) == \A i \in DOMAIN q : q[i].kind \notin kinds
ReminderKind == {"delete_all", "write"}
UpdateDone == post_dfu_ \/ dfu_state = "COMPLETE"
ActivationInv == /\ UpdateDone \/ NoneOf({"activate"}, air)
                 /\ updated => UpdateDone
RadioInv == /\ radio => ble_connected_
            /\ ble_connected_ \/ air = <<>>
            /\ ans_handle_ => ble_connected_
NothingUnderway == command_queue_ = <<>> /\ NoneOf(ReminderKind, air)
CleanLink == updated /\ radio => NothingUnderway
GraceInv == ActivationInv /\ RadioInv /\ CleanLink /\ FreshFirmwareSpared

LEMMA NoneOfLaws ==
  ASSUME NEW S, NEW q \in Seq(S), NEW kinds, NoneOf(kinds, q)
  PROVE  /\ \A c \in S : c.kind \notin kinds => NoneOf(kinds, Append(q, c))
         /\ q # <<>> => NoneOf(kinds, Tail(q)) /\ Head(q).kind \notin kinds
<1>1. /\ Len(q) \in Nat /\ DOMAIN q = 1..Len(q)
  OBVIOUS
<1>2. ASSUME NEW c \in S, c.kind \notin kinds  PROVE NoneOf(kinds, Append(q, c))
  <2> DEFINE r == Append(q, c)
  <2>1. /\ DOMAIN r = 1..(Len(q) + 1) /\ r[Len(q) + 1] = c
        /\ \A i \in 1..Len(q) : r[i] = q[i]
    OBVIOUS
  <2> HIDE DEF r
  <2>2. ASSUME NEW i \in DOMAIN r  PROVE r[i].kind \notin kinds
    <3>1. i \in 1..Len(q) \/ i = Len(q) + 1
      BY <1>1, <2>1
    <3> QED BY <1>1, <1>2, <2>1, <3>1 DEF NoneOf
  <2>3. NoneOf(kinds, r)
    BY <2>2 DEF NoneOf
  <2> QED BY <2>3 DEF r
<1>3. ASSUME q # <<>>  PROVE NoneOf(kinds, Tail(q)) /\ Head(q).kind \notin kinds
  <2> DEFINE t == Tail(q)
  <2>1. /\ Len(q) > 0 /\ DOMAIN t = 1..(Len(q) - 1) /\ Head(q) = q[1]
        /\ \A i \in 1..(Len(q) - 1) : t[i] = q[i + 1]
    BY <1>3
  <2> HIDE DEF t
  <2>2. 1 \in DOMAIN q /\ \A i \in DOMAIN t : i + 1 \in DOMAIN q
    BY <1>1, <2>1
  <2>3. NoneOf(kinds, t) /\ Head(q).kind \notin kinds
    BY <2>1, <2>2 DEF NoneOf
  <2> QED BY <2>3 DEF t
<1> QED BY <1>2, <1>3

\* A write around the queue that is not the activation.
LEMMA OtherStep ==
  ASSUME TypeOK, NEW kind \in {"time", "notify", "dfu"}, air' = Append(air, Other(kind))
  PROVE  /\ NoneOf({"activate"}, air) => NoneOf({"activate"}, air')
         /\ NoneOf(ReminderKind, air) => NoneOf(ReminderKind, air')
<1>1. Other(kind) \in AirCmd /\ air \in Seq(AirCmd)
  BY DEF Other, AirCmd, OtherKind, TypeOK
<1>2. Other(kind).kind \notin ReminderKind /\ Other(kind).kind \notin {"activate"}
  BY DEF Other, ReminderKind
<1> QED BY <1>1, <1>2, NoneOfLaws

LEMMA SentStep ==
  ASSUME TypeOK, NEW kind \in {"time", "notify", "dfu"}, NEW sent \in BOOLEAN,
         SendOther(kind, sent)
  PROVE  /\ NoneOf({"activate"}, air) => NoneOf({"activate"}, air')
         /\ NoneOf(ReminderKind, air) => NoneOf(ReminderKind, air')
<1>1. CASE sent
  BY <1>1, OtherStep DEF SendOther
<1>2. CASE ~sent
  BY <1>2 DEF SendOther
<1> QED BY <1>1, <1>2

\* A block of loop() or an event that may write the time or a notification and
\* run the sync.
LEMMA SyncGraceStep ==
  ASSUME TypeOK, GraceInv, NEW list, NEW connected,
         IF SyncAllowed THEN SyncReminders(list, connected) ELSE UNCHANGED syncVars,
         NEW kind \in {"time", "notify"}, NEW sent \in BOOLEAN, SendOther(kind, sent),
         sent => ble_connected_, ans_handle_' => ble_connected_,
         UNCHANGED <<ble_connected_, dfu_state, post_dfu_, updated, radio, watch>>
  PROVE  GraceInv'
<1>1. /\ NoneOf({"activate"}, air) => NoneOf({"activate"}, air')
      /\ NoneOf(ReminderKind, air) => NoneOf(ReminderKind, air')
  BY SentStep
<1>2. ActivationInv'
  BY <1>1 DEF GraceInv, ActivationInv, UpdateDone
<1>3. ~sent => air' = air
  BY DEF SendOther
<1>4. RadioInv'
  BY <1>3 DEF GraceInv, RadioInv
<1>5. updated => command_queue_' = command_queue_
  <2>1. updated => ~SyncAllowed
    BY DEF GraceInv, ActivationInv, UpdateDone, SyncAllowed
  <2> QED BY <2>1 DEF syncVars
<1>6. CleanLink'
  BY <1>1, <1>5 DEF GraceInv, CleanLink, NothingUnderway
<1>7. FreshFirmwareSpared'
  BY DEF GraceInv, FreshFirmwareSpared
<1> QED BY <1>2, <1>4, <1>6, <1>7 DEF GraceInv

LEMMA SendGraceStep ==
  ASSUME TypeOK, GraceInv, NEW accepted \in BOOLEAN, ProcessNextCommand(accepted)
  PROVE  GraceInv'
<1> DEFINE c == Head(command_queue_)
<1>1. /\ command_queue_ # <<>> /\ ble_connected_ /\ (air' = Append(air, c) \/ air' = air)
      /\ UNCHANGED <<ble_connected_, ans_handle_, dfu_state, post_dfu_, updated, radio, watch>>
  BY DEF ProcessNextCommand, linkVars, dfuVars
<1>2. command_queue_ \in Seq(QueueCmd) /\ air \in Seq(AirCmd)
  BY DEF TypeOK
<1>3. c \in QueueCmd
  BY <1>1, <1>2, TailType
<1>4. c \in AirCmd /\ c.kind \notin {"activate"}
  BY <1>3 DEF AirCmd, QueueCmd, DeleteAll
<1> HIDE DEF c
<1>5. ASSUME NoneOf({"activate"}, air)  PROVE NoneOf({"activate"}, air')
  <2>1. \A d \in AirCmd : d.kind \notin {"activate"} => NoneOf({"activate"}, Append(air, d))
    BY <1>2, <1>5, NoneOfLaws
  <2> QED BY <1>1, <1>4, <1>5, <2>1
<1>6. ActivationInv'
  BY <1>1, <1>5 DEF GraceInv, ActivationInv, UpdateDone
<1>7. RadioInv'
  BY <1>1 DEF GraceInv, RadioInv
<1>8. ~(updated /\ radio)
  BY <1>1 DEF GraceInv, CleanLink, NothingUnderway
<1>9. CleanLink' /\ FreshFirmwareSpared'
  BY <1>1, <1>8 DEF GraceInv, CleanLink, FreshFirmwareSpared
<1> QED BY <1>6, <1>7, <1>9 DEF GraceInv

LEMMA ReceiveGraceStep ==
  ASSUME TypeOK, GraceInv, WatchReceives
  PROVE  GraceInv'
<1> DEFINE c == Head(air)
<1>1. /\ radio /\ air # <<>> /\ air' = Tail(air)
      /\ radio' = (c.kind # "activate")
      /\ updated' = (updated \/ c.kind = "activate")
      /\ UNCHANGED <<command_queue_, ble_connected_, ans_handle_, dfu_state, post_dfu_>>
  BY DEF WatchReceives, linkVars
<1>2. air \in Seq(AirCmd)
  BY DEF TypeOK
<1>3. ASSUME NEW kinds, NoneOf(kinds, air)
      PROVE  NoneOf(kinds, air') /\ c.kind \notin kinds
  BY <1>1, <1>2, <1>3, NoneOfLaws
<1>4. watch' = CASE c.kind = "write" -> [watch EXCEPT ![c.slot] = c.msg]
                 [] c.kind \in {"delete_all", "activate"} -> Blank
                 [] OTHER -> watch
  BY DEF WatchReceives
<1> HIDE DEF c
<1>5. ActivationInv'
  <2>1. UpdateDone' <=> UpdateDone
    BY <1>1 DEF UpdateDone
  <2>2. UpdateDone \/ (NoneOf({"activate"}, air') /\ c.kind # "activate")
    BY <1>3 DEF GraceInv, ActivationInv
  <2> QED BY <1>1, <2>1, <2>2 DEF GraceInv, ActivationInv
<1>6. RadioInv'
  BY <1>1 DEF GraceInv, RadioInv
<1>7. CASE c.kind = "activate"
  <2>1. watch' = Blank /\ ~radio'
    BY <1>1, <1>4, <1>7
  <2>2. CleanLink' /\ FreshFirmwareSpared'
    BY <2>1 DEF CleanLink, FreshFirmwareSpared, Blank
  <2> QED BY <1>5, <1>6, <2>2 DEF GraceInv
<1>8. CASE c.kind # "activate" /\ updated
  <2>1. NothingUnderway
    BY <1>1, <1>8 DEF GraceInv, CleanLink
  <2>2. NoneOf(ReminderKind, air') /\ c.kind \notin ReminderKind
    BY <1>3, <2>1 DEF NothingUnderway
  <2>3. watch' = watch
    BY <1>4, <1>8, <2>2 DEF ReminderKind
  <2>4. CleanLink'
    BY <1>1, <2>1, <2>2 DEF CleanLink, NothingUnderway
  <2>5. FreshFirmwareSpared'
    BY <1>1, <1>8, <2>3 DEF GraceInv, FreshFirmwareSpared
  <2> QED BY <1>5, <1>6, <2>4, <2>5 DEF GraceInv
<1>9. CASE c.kind # "activate" /\ ~updated
  BY <1>1, <1>5, <1>6, <1>9 DEF GraceInv, CleanLink, FreshFirmwareSpared
<1> QED BY <1>7, <1>8, <1>9

LEMMA RejectGraceStep ==
  ASSUME TypeOK, GraceInv, WatchRejects
  PROVE  GraceInv'
<1>1. /\ air # <<>> /\ air' = Tail(air)
      /\ UNCHANGED <<command_queue_, ble_connected_, ans_handle_, dfu_state, post_dfu_,
                     updated, radio, watch>>
  BY DEF WatchRejects, linkVars, dfuVars
<1>2. ASSUME NEW kinds, NoneOf(kinds, air)  PROVE NoneOf(kinds, air')
  BY <1>1, <1>2, NoneOfLaws DEF TypeOK
<1>3. ActivationInv'
  BY <1>1, <1>2 DEF GraceInv, ActivationInv, UpdateDone
<1>4. RadioInv'
  BY <1>1 DEF GraceInv, RadioInv
<1>5. CleanLink'
  BY <1>1, <1>2 DEF GraceInv, CleanLink, NothingUnderway
<1>6. FreshFirmwareSpared'
  BY <1>1 DEF GraceInv, FreshFirmwareSpared
<1> QED BY <1>3, <1>4, <1>5, <1>6 DEF GraceInv

LEMMA NotifiedGraceStep ==
  ASSUME TypeOK, GraceInv, NEW phase \in DfuPhase, DfuNotified(phase)
  PROVE  GraceInv'
<1>1. /\ dfu_state = "ACTIVE" /\ ble_connected_ /\ dfu_state' = phase
      /\ UNCHANGED <<command_queue_, ble_connected_, ans_handle_, post_dfu_, updated, radio,
                     watch>>
  BY DEF DfuNotified, syncVars, linkVars
<1>2. CASE phase = "COMPLETE"
  <2>1. air' = Append(air, Other("activate"))
    BY <1>2 DEF DfuNotified
  <2>2. Other("activate") \in AirCmd /\ Other("activate").kind \notin ReminderKind
    BY DEF Other, AirCmd, OtherKind, ReminderKind
  <2>3. NoneOf(ReminderKind, air) => NoneOf(ReminderKind, air')
    BY <2>1, <2>2, NoneOfLaws DEF TypeOK
  <2>4. ActivationInv' /\ RadioInv'
    BY <1>1, <1>2 DEF GraceInv, ActivationInv, RadioInv, UpdateDone
  <2>5. CleanLink' /\ FreshFirmwareSpared'
    BY <1>1, <2>3 DEF GraceInv, CleanLink, NothingUnderway, FreshFirmwareSpared
  <2> QED BY <2>4, <2>5 DEF GraceInv
<1>3. CASE phase # "COMPLETE"
  <2>1. air' = air \/ air' = Append(air, Other("dfu"))
    BY <1>3 DEF DfuNotified
  <2>2. /\ NoneOf({"activate"}, air) => NoneOf({"activate"}, air')
        /\ NoneOf(ReminderKind, air) => NoneOf(ReminderKind, air')
    BY <2>1, OtherStep
  <2>3. ActivationInv' /\ RadioInv'
    BY <1>1, <2>2 DEF GraceInv, ActivationInv, RadioInv, UpdateDone
  <2>4. CleanLink' /\ FreshFirmwareSpared'
    BY <1>1, <2>2 DEF GraceInv, CleanLink, NothingUnderway, FreshFirmwareSpared
  <2> QED BY <2>3, <2>4 DEF GraceInv
<1> QED BY <1>2, <1>3

LEMMA DisconnectGraceStep ==
  ASSUME TypeOK, GraceInv, Disconnected
  PROVE  GraceInv'
<1>1. /\ ~radio' /\ air' = <<>> /\ ~ans_handle_'
      /\ UNCHANGED <<dfu_state, post_dfu_, updated, watch>>
  BY DEF Disconnected, dfuVars
<1>2. NoneOf({"activate"}, air')
  BY <1>1 DEF NoneOf
<1>3. ActivationInv' /\ RadioInv'
  BY <1>1, <1>2 DEF GraceInv, ActivationInv, RadioInv, UpdateDone
<1>4. CleanLink' /\ FreshFirmwareSpared'
  BY <1>1 DEF GraceInv, CleanLink, FreshFirmwareSpared
<1> QED BY <1>3, <1>4 DEF GraceInv

\* The steps that touch neither queue nor air and need no word about either.
quietVars == <<command_queue_, air>>

LEMMA GraceStep == TypeOK /\ QueueInv /\ GraceInv /\ [Next]_vars => GraceInv'
<1> SUFFICES ASSUME TypeOK, QueueInv, GraceInv, [Next]_vars  PROVE GraceInv'
  OBVIOUS
<1>0. ASSUME UNCHANGED <<quietVars, ble_connected_, ans_handle_, dfu_state, post_dfu_,
                         updated, radio, watch>>
      PROVE  GraceInv'
  <2>1. ActivationInv' /\ RadioInv'
    BY <1>0 DEF GraceInv, ActivationInv, RadioInv, UpdateDone, quietVars
  <2>2. CleanLink' /\ FreshFirmwareSpared'
    BY <1>0 DEF GraceInv, CleanLink, NothingUnderway, FreshFirmwareSpared, quietVars
  <2> QED BY <2>1, <2>2 DEF GraceInv
<1>1. CASE UNCHANGED vars
  BY <1>0, <1>1 DEF vars, quietVars, syncVars, linkVars, dfuVars, radioVars
<1>2. ASSUME NEW s \in Slots, NEW entry \in Entry, EditServer(s, entry)  PROVE GraceInv'
  BY <1>0, <1>2 DEF EditServer, quietVars, syncVars, linkVars, dfuVars, radioVars
<1>3. ASSUME NEW notify \in BOOLEAN, PollSucceeds(notify)  PROVE GraceInv'
  <2>1. /\ IF SyncAllowed THEN SyncReminders(server, upload_handle_) ELSE UNCHANGED syncVars
        /\ SendOther("notify", notify) /\ (notify => ans_handle_)
    BY <1>3 DEF PollSucceeds
  <2>2. UNCHANGED <<ble_connected_, ans_handle_, dfu_state, post_dfu_, updated, radio, watch>>
    BY <1>3 DEF PollSucceeds, linkVars, dfuVars
  <2>3. ans_handle_ => ble_connected_
    BY DEF GraceInv, RadioInv
  <2> QED BY <2>1, <2>2, <2>3, SyncGraceStep
<1>4. CASE PollFails
  <2>1. /\ IF SyncAllowed THEN SyncReminders(api_reminders_, upload_handle_)
           ELSE UNCHANGED syncVars
        /\ UNCHANGED <<ble_connected_, ans_handle_, dfu_state, post_dfu_, updated, radio,
                       watch, air, pending_writes_>>
    BY <1>4 DEF PollFails, linkVars, dfuVars, radioVars, flagVars
  <2>2. SendOther("time", FALSE)
    BY <2>1 DEF SendOther
  <2>3. ans_handle_ => ble_connected_
    BY DEF GraceInv, RadioInv
  <2> QED BY <2>1, <2>2, <2>3, SyncGraceStep
<1>5. CASE Opened
  <2>1. /\ ~ble_connected_ /\ ble_connected_'
        /\ UNCHANGED <<quietVars, ans_handle_, dfu_state, post_dfu_, updated, watch>>
    BY <1>5 DEF Opened, quietVars, syncVars, dfuVars
  <2>2. command_queue_ = <<>> /\ air = <<>>
    BY <2>1 DEF QueueInv, NoStaleCommand, GraceInv, RadioInv
  <2>3. NothingUnderway'
    BY <2>1, <2>2 DEF NothingUnderway, NoneOf, quietVars
  <2>4. ActivationInv' /\ RadioInv'
    BY <2>1 DEF GraceInv, ActivationInv, RadioInv, UpdateDone, quietVars
  <2>5. CleanLink' /\ FreshFirmwareSpared'
    BY <2>1, <2>3 DEF GraceInv, CleanLink, FreshFirmwareSpared
  <2> QED BY <2>4, <2>5 DEF GraceInv
<1>6. ASSUME NEW hasService \in BOOLEAN, DiscoversForDfu(hasService)  PROVE GraceInv'
  <2>1. /\ air' = Append(air, Other("dfu")) /\ ble_connected_
        /\ dfu_state = "CONNECTING" /\ dfu_state' = "ACTIVE"
        /\ UNCHANGED <<command_queue_, ble_connected_, post_dfu_, updated, radio, watch>>
    BY <1>6 DEF DiscoversForDfu, syncVars
  <2>2. /\ NoneOf({"activate"}, air) => NoneOf({"activate"}, air')
        /\ NoneOf(ReminderKind, air) => NoneOf(ReminderKind, air')
    BY <2>1, OtherStep
  <2>3. ActivationInv' /\ RadioInv'
    BY <2>1, <2>2 DEF GraceInv, ActivationInv, RadioInv, UpdateDone
  <2>4. CleanLink' /\ FreshFirmwareSpared'
    BY <2>1, <2>2 DEF GraceInv, CleanLink, NothingUnderway, FreshFirmwareSpared
  <2> QED BY <2>3, <2>4 DEF GraceInv
<1>7. ASSUME NEW hasService \in BOOLEAN, NEW timeSent \in BOOLEAN, Discovers(hasService, timeSent)
      PROVE GraceInv'
  <2>1. /\ IF SyncAllowed THEN SyncReminders(api_reminders_, upload_handle_')
           ELSE UNCHANGED syncVars
        /\ SendOther("time", timeSent) /\ ble_connected_
    BY <1>7 DEF Discovers
  <2>2. UNCHANGED <<ble_connected_, dfu_state, post_dfu_, updated, radio, watch>>
    BY <1>7 DEF Discovers, dfuVars
  <2> QED BY <2>1, <2>2, SyncGraceStep
<1>8. ASSUME NEW accepted \in BOOLEAN, ProcessNextCommand(accepted)  PROVE GraceInv'
  BY <1>8, SendGraceStep
<1>9. CASE PeriodicRefresh
  <2>1. /\ SendOther("time", TRUE) /\ ble_connected_ /\ UNCHANGED syncVars
        /\ UNCHANGED <<ble_connected_, ans_handle_, dfu_state, post_dfu_, updated, radio, watch>>
    BY <1>9 DEF PeriodicRefresh, linkVars, dfuVars
  <2>2. IF SyncAllowed THEN SyncReminders(api_reminders_, FALSE) ELSE UNCHANGED syncVars
    BY <2>1 DEF SyncReminders
  <2> QED BY <2>1, <2>2, SyncGraceStep
<1>10. CASE WriteConfirmed
  BY <1>0, <1>10 DEF WriteConfirmed, quietVars, syncVars, linkVars, dfuVars
<1>11. CASE Disconnected
  BY <1>11, DisconnectGraceStep
<1>12. CASE WatchReceives
  BY <1>12, ReceiveGraceStep
<1>13. CASE WatchRejects
  BY <1>13, RejectGraceStep
<1>14. CASE LinkLost \/ WatchReboots
  <2>1. /\ ~radio' /\ (watch' = watch \/ watch' = Blank)
        /\ UNCHANGED <<quietVars, ble_connected_, ans_handle_, dfu_state, post_dfu_, updated>>
    BY <1>14 DEF LinkLost, WatchReboots, quietVars, syncVars, linkVars, dfuVars
  <2>2. ActivationInv' /\ RadioInv'
    BY <2>1 DEF GraceInv, ActivationInv, RadioInv, UpdateDone, quietVars
  <2>3. CleanLink' /\ FreshFirmwareSpared'
    BY <2>1 DEF GraceInv, CleanLink, FreshFirmwareSpared, Blank
  <2> QED BY <2>2, <2>3 DEF GraceInv
<1>15. CASE BridgeReboots
  <2>1. /\ ~updated' /\ ~radio' /\ air' = <<>> /\ ~ans_handle_'
    BY <1>15 DEF BridgeReboots
  <2>2. NoneOf({"activate"}, air')
    BY <2>1 DEF NoneOf
  <2> QED BY <2>1, <2>2 DEF GraceInv, ActivationInv, RadioInv, CleanLink, FreshFirmwareSpared
<1>16. ASSUME NEW downloaded \in BOOLEAN, StartDfu(downloaded)  PROVE GraceInv'
  <2>1. /\ dfu_state = "IDLE"
        /\ UNCHANGED <<quietVars, ble_connected_, ans_handle_, post_dfu_, updated, radio, watch>>
    BY <1>16 DEF StartDfu, quietVars, syncVars, radioVars
  <2>2. ActivationInv' /\ RadioInv'
    BY <2>1 DEF GraceInv, ActivationInv, RadioInv, UpdateDone, quietVars
  <2>3. CleanLink' /\ FreshFirmwareSpared'
    BY <2>1 DEF GraceInv, CleanLink, NothingUnderway, FreshFirmwareSpared, quietVars
  <2> QED BY <2>2, <2>3 DEF GraceInv
<1>17. ASSUME NEW phase \in DfuPhase, DfuNotified(phase)  PROVE GraceInv'
  BY <1>17, NotifiedGraceStep
<1>18. CASE DfuTimesOut \/ DfuDone
  <2>1. /\ UpdateDone => UpdateDone'
        /\ UNCHANGED <<quietVars, ble_connected_, ans_handle_, updated, radio, watch>>
    BY <1>18 DEF DfuTimesOut, DfuDone, UpdateDone, quietVars, syncVars, linkVars, radioVars
  <2>2. ActivationInv' /\ RadioInv'
    BY <2>1 DEF GraceInv, ActivationInv, RadioInv, quietVars
  <2>3. CleanLink' /\ FreshFirmwareSpared'
    BY <2>1 DEF GraceInv, CleanLink, NothingUnderway, FreshFirmwareSpared, quietVars
  <2> QED BY <2>2, <2>3 DEF GraceInv
<1>19. CASE GraceEnds
  <2>1. /\ ~updated' /\ NoneOf({"activate"}, air)
        /\ UNCHANGED <<air, ble_connected_, ans_handle_, radio>>
    BY <1>19 DEF GraceEnds, NoneOf, linkVars, radioVars
  <2> QED BY <2>1 DEF GraceInv, ActivationInv, RadioInv, CleanLink, FreshFirmwareSpared
<1> QED BY <1>1, <1>2, <1>3, <1>4, <1>5, <1>6, <1>7, <1>8, <1>9, <1>10, <1>11, <1>12, <1>13,
           <1>14, <1>15, <1>16, <1>17, <1>18, <1>19 DEF Next

\* No reminder reaches a freshly activated firmware before the grace period
\* after the update has ended: what was queued before the update is gone with
\* the link that the activation cut, and nothing new is queued.
THEOREM FreshFirmwareAlwaysSpared == Spec => []FreshFirmwareSpared
<1>1. Init => QueueInv /\ GraceInv
  <2>1. ASSUME Init  PROVE NoneOf({"activate"}, air)
    BY <2>1 DEF Init, NoneOf
  <2> QED BY <2>1 DEF Init, QueueInv, NoStaleCommand, HandlesNeedLink, GraceInv,
                      ActivationInv, RadioInv, CleanLink, FreshFirmwareSpared
<1>2. GraceInv => FreshFirmwareSpared
  BY DEF GraceInv
<1> QED BY <1>1, <1>2, TypeCorrect, QueueStep, GraceStep, PTL DEF Spec

=============================================================================
