---------------------------- MODULE PairingProofs ----------------------------
(* Proofs about Pairing: its type invariant, and that only an attempt refused by
   the stack leaves the bridge with pairing_in_progress_ set for good. *)
EXTENDS Pairing, TLAPS

LEMMA PanelType == ASSUME NEW state PROVE PanelFor(state) \in Panel
BY Zenon DEF PanelFor, Panel

LEMMA ReportType ==
  ASSUME NEW event \in 1..3
  PROVE  Report(event) \in [state : EntryState, key : 0..MaxPairings]
BY PairingAssumption DEF Report, At, Idle, EntryState

LEMMA FaultType ==
  ASSUME NEW kind, faults \in 0..MaxFaults, Fault(kind)
  PROVE  faults' \in 0..MaxFaults
BY PairingAssumption DEF Fault

LEMMA Zeros ==
  /\ 0 \in 0..MaxPairings /\ 0 \in 0..MaxRequests /\ 0 \in 0..MaxFaults
  /\ 0 \in 0..3 /\ 1 \in 0..3 /\ 2 \in 0..3 /\ 3 \in 0..3
BY PairingAssumption

LEMMA EntryTypes ==
  /\ Idle \in [state : EntryState, key : 0..MaxPairings]
  /\ \A state \in {"connecting", "passkey_needed", "failed", "dfu"} :
        At(state) \in [state : EntryState, key : 0..MaxPairings]
  /\ \A key \in 0..MaxPairings :
        [state |-> "passkey_entered", key |-> key]
            \in [state : EntryState, key : 0..MaxPairings]
BY Zeros DEF At, Idle, EntryState

LEMMA PanelTypes == {"Idle", "Waiting", "Input", "Success", "Failed"} \subseteq Panel
BY DEF Panel

\* TypeOK in parts, each kept by the actions that leave its variables alone.
EntryType == entry \in [state : EntryState, key : 0..MaxPairings]
PageType == shown \in Panel /\ polling \in BOOLEAN /\ seen \in 0..MaxPairings
            /\ requests \in 0..MaxRequests /\ watch_mac \in BOOLEAN
MemoryType == paired_address_ \in BOOLEAN /\ nvs \in BOOLEAN /\ boot_logged_ \in BOOLEAN
FlagType == pairing_in_progress_ \in BOOLEAN /\ passkey_pending_ \in BOOLEAN
            /\ dfu_active \in BOOLEAN
EventType == gap_event_pending_ \in 0..3 /\ evt \in 0..3
             /\ doing \in {"none", "replying", "clearing", "reporting"}
             /\ (doing \in {"clearing", "reporting"} => evt > 0)
LinkType == ble_connected_ \in BOOLEAN /\ link \in {"down", "searching", "ready"}
            /\ opening \in BOOLEAN /\ refused \in BOOLEAN
AuthType == auth \in {"none", "asked", "replied", "done"} /\ reply \in 0..MaxPairings
            /\ passkey \in 0..MaxPairings
FaultsType == faults \in 0..MaxFaults

LEMMA TypeParts ==
  TypeOK <=> /\ EntryType /\ PageType /\ MemoryType /\ FlagType
             /\ EventType /\ LinkType /\ AuthType /\ FaultsType
BY DEF TypeOK, EntryType, PageType, MemoryType, FlagType, EventType, LinkType, AuthType,
       FaultsType

LEMMA TypePartsNext ==
  ASSUME EntryType', PageType', MemoryType', FlagType', EventType', LinkType', AuthType',
         FaultsType'
  PROVE  TypeOK'
BY TypeParts, PTL

LEMMA TypeStep == TypeOK /\ [Next]_vars => TypeOK'
<1> SUFFICES ASSUME TypeOK, [Next]_vars PROVE TypeOK'
  OBVIOUS
<1>0. /\ EntryType /\ PageType /\ MemoryType /\ FlagType
      /\ EventType /\ LinkType /\ AuthType /\ FaultsType
  BY TypeParts
<1> USE DEF serverVars, pageVars, bridgeVars, memoryVars, flagVars, linkVars, authVars
<1>1. CASE SelectWatch
  <2>1. MemoryType' /\ FlagType' /\ EventType' /\ LinkType' /\ AuthType' /\ FaultsType'
    BY <1>0, <1>1 DEF SelectWatch, MemoryType, FlagType, EventType, LinkType, AuthType,
           FaultsType
  <2>2. EntryType'
    BY <1>0, <1>1, EntryTypes DEF SelectWatch, EntryType
  <2>3. PageType'
    BY <1>0, <1>1, PanelTypes, PairingAssumption DEF SelectWatch, PageType
  <2> QED BY <2>1, <2>2, <2>3, TypePartsNext
<1>2. CASE RequestDfu
  <2>1. MemoryType' /\ FlagType' /\ EventType' /\ LinkType' /\ AuthType' /\ FaultsType'
    BY <1>0, <1>2 DEF RequestDfu, MemoryType, FlagType, EventType, LinkType, AuthType,
           FaultsType
  <2>2. EntryType'
    BY <1>0, <1>2, EntryTypes DEF RequestDfu, EntryType
  <2>3. PageType'
    BY <1>0, <1>2, PairingAssumption DEF RequestDfu, PageType
  <2> QED BY <2>1, <2>2, <2>3, TypePartsNext
<1>3. CASE PollPage
  <2>1. EntryType' /\ MemoryType' /\ FlagType' /\ EventType' /\ LinkType'
        /\ AuthType' /\ FaultsType'
    BY <1>0, <1>3 DEF PollPage, EntryType, MemoryType, FlagType, EventType, LinkType,
           AuthType, FaultsType
  <2>2. PageType'
    BY <1>0, <1>3, PanelType DEF PollPage, PageType
  <2> QED BY <2>1, <2>2, TypePartsNext
<1>4. CASE LoadPage
  <2>1. EntryType' /\ MemoryType' /\ FlagType' /\ EventType' /\ LinkType'
        /\ AuthType' /\ FaultsType'
    BY <1>0, <1>4 DEF LoadPage, EntryType, MemoryType, FlagType, EventType, LinkType,
           AuthType, FaultsType
  <2>2. PageType'
    BY <1>0, <1>4, PanelType DEF LoadPage, PageType
  <2> QED BY <2>1, <2>2, TypePartsNext
<1>5. CASE ReadPasskey
  <2>1. EntryType' /\ MemoryType' /\ FlagType' /\ EventType' /\ LinkType'
        /\ AuthType' /\ FaultsType'
    BY <1>0, <1>5 DEF ReadPasskey, EntryType, MemoryType, FlagType, EventType, LinkType,
           AuthType, FaultsType
  <2>2. PageType'
    BY <1>0, <1>5 DEF ReadPasskey, PageType, AuthType
  <2> QED BY <2>1, <2>2, TypePartsNext
<1>6. CASE SubmitPasskey
  <2>1. MemoryType' /\ FlagType' /\ EventType' /\ LinkType' /\ AuthType' /\ FaultsType'
    BY <1>0, <1>6 DEF SubmitPasskey, MemoryType, FlagType, EventType, LinkType,
           AuthType, FaultsType
  <2>2. EntryType'
    BY <1>0, <1>6, EntryTypes DEF SubmitPasskey, EntryType, PageType
  <2>3. PageType'
    BY <1>0, <1>6, PanelTypes DEF SubmitPasskey, PageType
  <2> QED BY <2>1, <2>2, <2>3, TypePartsNext
<1>7. CASE ClearPage
  <2>1. MemoryType' /\ FlagType' /\ EventType' /\ LinkType' /\ AuthType'
    BY <1>0, <1>7 DEF ClearPage, MemoryType, FlagType, EventType, LinkType, AuthType
  <2>2. EntryType'
    BY <1>0, <1>7, EntryTypes DEF ClearPage, EntryType
  <2>3. PageType'
    BY <1>0, <1>7, PanelTypes DEF ClearPage, PageType
  <2>4. FaultsType'
    BY <1>0, <1>7, FaultType DEF ClearPage, FaultsType
  <2> QED BY <2>1, <2>2, <2>3, <2>4, TypePartsNext
<1>8. CASE CheckConnecting
  <2>1. EntryType' /\ PageType' /\ EventType' /\ AuthType' /\ FaultsType'
    BY <1>0, <1>8 DEF CheckConnecting, EntryType, PageType, EventType, AuthType,
           FaultsType
  <2>2. MemoryType'
    BY <1>0, <1>8 DEF CheckConnecting, MemoryType
  <2>3. FlagType'
    BY <1>0, <1>8 DEF CheckConnecting, FlagType
  <2>4. LinkType'
    BY <1>0, <1>8 DEF CheckConnecting, LinkType
  <2> QED BY <2>1, <2>2, <2>3, <2>4, TypePartsNext
<1>9. ASSUME NEW arrives \in BOOLEAN, NEW downloaded \in BOOLEAN, CheckDfu(arrives, downloaded)
      PROVE  TypeOK'
  <2>1. PageType' /\ MemoryType' /\ EventType' /\ AuthType'
    BY <1>0, <1>9 DEF CheckDfu, PageType, MemoryType, EventType, AuthType
  <2>2. EntryType'
    BY <1>0, <1>9, EntryTypes DEF CheckDfu, Post, EntryType
  <2>3. FlagType'
    BY <1>0, <1>9 DEF CheckDfu, FlagType
  <2>4. LinkType'
    BY <1>0, <1>9 DEF CheckDfu, LinkType
  <2>5. FaultsType'
    BY <1>0, <1>9, FaultType DEF CheckDfu, Post, FaultsType
  <2> QED BY <2>1, <2>2, <2>3, <2>4, <2>5, TypePartsNext
<1>10. CASE DfuEnds
  <2>1. EntryType' /\ PageType' /\ MemoryType' /\ EventType' /\ LinkType'
        /\ AuthType' /\ FaultsType'
    BY <1>0, <1>10 DEF DfuEnds, EntryType, PageType, MemoryType, EventType, LinkType,
           AuthType, FaultsType
  <2>2. FlagType'
    BY <1>0, <1>10 DEF DfuEnds, FlagType
  <2> QED BY <2>1, <2>2, TypePartsNext
<1>11. CASE CheckPasskey
  <2>1. EntryType' /\ PageType' /\ MemoryType' /\ LinkType' /\ FaultsType'
    BY <1>0, <1>11 DEF CheckPasskey, EntryType, PageType, MemoryType, LinkType,
           FaultsType
  <2>2. FlagType'
    BY <1>0, <1>11 DEF CheckPasskey, FlagType
  <2>3. EventType'
    BY <1>0, <1>11 DEF CheckPasskey, EventType
  <2>4. AuthType'
    BY <1>0, <1>11 DEF CheckPasskey, AuthType, EntryType
  <2> QED BY <2>1, <2>2, <2>3, <2>4, TypePartsNext
<1>12. CASE ReplyDone
  <2>1. EntryType' /\ PageType' /\ MemoryType' /\ LinkType' /\ AuthType' /\ FaultsType'
    BY <1>0, <1>12 DEF ReplyDone, EntryType, PageType, MemoryType, LinkType, AuthType,
           FaultsType
  <2>2. FlagType'
    BY <1>0, <1>12 DEF ReplyDone, FlagType
  <2>3. EventType'
    BY <1>0, <1>12 DEF ReplyDone, EventType
  <2> QED BY <2>1, <2>2, <2>3, TypePartsNext
<1>13. CASE ReadGapEvent
  <2>1. EntryType' /\ PageType' /\ MemoryType' /\ LinkType' /\ AuthType' /\ FaultsType'
    BY <1>0, <1>13 DEF ReadGapEvent, EntryType, PageType, MemoryType, LinkType,
           AuthType, FaultsType
  <2>2. FlagType'
    BY <1>0, <1>13 DEF ReadGapEvent, FlagType
  <2>3. EventType'
    BY <1>0, <1>13 DEF ReadGapEvent, EventType
  <2> QED BY <2>1, <2>2, <2>3, TypePartsNext
<1>14. CASE ClearGapEvent
  <2>1. EntryType' /\ PageType' /\ MemoryType' /\ LinkType' /\ AuthType' /\ FaultsType'
    BY <1>0, <1>14 DEF ClearGapEvent, EntryType, PageType, MemoryType, LinkType,
           AuthType, FaultsType
  <2>2. FlagType'
    BY <1>0, <1>14 DEF ClearGapEvent, FlagType
  <2>3. EventType'
    BY <1>0, <1>14, Zeros DEF ClearGapEvent, EventType
  <2> QED BY <2>1, <2>2, <2>3, TypePartsNext
<1>15. ASSUME NEW arrives \in BOOLEAN, ReportGapEvent(arrives)
      PROVE  TypeOK'
  <2>1. MemoryType' /\ LinkType' /\ AuthType'
    BY <1>0, <1>15 DEF ReportGapEvent, MemoryType, LinkType, AuthType
  <2>2. EntryType'
    BY <1>0, <1>15, ReportType DEF ReportGapEvent, Post, EntryType, EventType
  <2>3. PageType'
    BY <1>0, <1>15 DEF ReportGapEvent, PageType
  <2>4. FlagType'
    BY <1>0, <1>15 DEF ReportGapEvent, FlagType
  <2>5. EventType'
    BY <1>0, <1>15, Zeros DEF ReportGapEvent, EventType
  <2>6. FaultsType'
    BY <1>0, <1>15, FaultType DEF ReportGapEvent, Post, FaultsType
  <2> QED BY <2>1, <2>2, <2>3, <2>4, <2>5, <2>6, TypePartsNext
<1>16. ASSUME NEW answered \in BOOLEAN, FirstPoll(answered)
      PROVE  TypeOK'
  <2>1. EntryType' /\ PageType' /\ FlagType' /\ EventType' /\ LinkType' /\ AuthType'
    BY <1>0, <1>16 DEF FirstPoll, EntryType, PageType, FlagType, EventType, LinkType,
           AuthType
  <2>2. MemoryType'
    BY <1>0, <1>16 DEF FirstPoll, MemoryType, PageType
  <2>3. FaultsType'
    BY <1>0, <1>16, FaultType DEF FirstPoll, FaultsType
  <2> QED BY <2>1, <2>2, <2>3, TypePartsNext
<1>17. CASE SaveAddress
  <2>1. EntryType' /\ PageType' /\ FlagType' /\ EventType' /\ LinkType' /\ AuthType'
        /\ FaultsType'
    BY <1>0, <1>17 DEF SaveAddress, EntryType, PageType, FlagType, EventType, LinkType,
           AuthType, FaultsType
  <2>2. MemoryType'
    BY <1>0, <1>17 DEF SaveAddress, MemoryType
  <2> QED BY <2>1, <2>2, TypePartsNext
<1>18. CASE Reconnect
  <2>1. EntryType' /\ PageType' /\ MemoryType' /\ FlagType' /\ EventType'
        /\ AuthType' /\ FaultsType'
    BY <1>0, <1>18 DEF Reconnect, EntryType, PageType, MemoryType, FlagType, EventType,
           AuthType, FaultsType
  <2>2. LinkType'
    BY <1>0, <1>18 DEF Reconnect, LinkType
  <2> QED BY <2>1, <2>2, TypePartsNext
<1>19. ASSUME NEW arrives \in BOOLEAN, OpenSucceeds(arrives)
      PROVE  TypeOK'
  <2>1. MemoryType' /\ EventType' /\ AuthType'
    BY <1>0, <1>19 DEF OpenSucceeds, MemoryType, EventType, AuthType
  <2>2. EntryType'
    BY <1>0, <1>19, EntryTypes DEF OpenSucceeds, Post, EntryType
  <2>3. PageType'
    BY <1>0, <1>19 DEF OpenSucceeds, PageType
  <2>4. FlagType'
    BY <1>0, <1>19 DEF OpenSucceeds, FlagType
  <2>5. LinkType'
    BY <1>0, <1>19 DEF OpenSucceeds, LinkType
  <2>6. FaultsType'
    BY <1>0, <1>19, FaultType DEF OpenSucceeds, Post, FaultsType
  <2> QED BY <2>1, <2>2, <2>3, <2>4, <2>5, <2>6, TypePartsNext
<1>20. CASE OpenFails
  <2>1. EntryType' /\ PageType' /\ MemoryType' /\ FlagType' /\ EventType'
    BY <1>0, <1>20 DEF OpenFails, EntryType, PageType, MemoryType, FlagType, EventType
  <2>2. LinkType'
    BY <1>0, <1>20 DEF OpenFails, LinkType
  <2>3. AuthType'
    BY <1>0, <1>20 DEF OpenFails, AuthType
  <2>4. FaultsType'
    BY <1>0, <1>20, FaultType DEF OpenFails, FaultsType
  <2> QED BY <2>1, <2>2, <2>3, <2>4, TypePartsNext
<1>21. CASE SearchCompletes
  <2>1. EntryType' /\ PageType' /\ MemoryType' /\ FlagType' /\ EventType'
        /\ AuthType' /\ FaultsType'
    BY <1>0, <1>21 DEF SearchCompletes, EntryType, PageType, MemoryType, FlagType,
           EventType, AuthType, FaultsType
  <2>2. LinkType'
    BY <1>0, <1>21 DEF SearchCompletes, LinkType
  <2> QED BY <2>1, <2>2, TypePartsNext
<1>22. CASE PasskeyRequested
  <2>1. EntryType' /\ PageType' /\ MemoryType' /\ LinkType' /\ FaultsType'
    BY <1>0, <1>22 DEF PasskeyRequested, EntryType, PageType, MemoryType, LinkType,
           FaultsType
  <2>2. FlagType'
    BY <1>0, <1>22 DEF PasskeyRequested, FlagType
  <2>3. EventType'
    BY <1>0, <1>22, Zeros DEF PasskeyRequested, EventType
  <2>4. AuthType'
    BY <1>0, <1>22, PairingAssumption DEF PasskeyRequested, AuthType
  <2> QED BY <2>1, <2>2, <2>3, <2>4, TypePartsNext
<1>23. CASE AuthCompletes
  <2>1. EntryType' /\ PageType' /\ MemoryType' /\ LinkType' /\ FaultsType'
    BY <1>0, <1>23 DEF AuthCompletes, EntryType, PageType, MemoryType, LinkType,
           FaultsType
  <2>2. FlagType'
    BY <1>0, <1>23 DEF AuthCompletes, FlagType
  <2>3. EventType'
    BY <1>0, <1>23, Zeros DEF AuthCompletes, EventType
  <2>4. AuthType'
    BY <1>0, <1>23 DEF AuthCompletes, AuthType
  <2> QED BY <2>1, <2>2, <2>3, <2>4, TypePartsNext
<1>24. CASE AuthTimesOut
  <2>1. EntryType' /\ PageType' /\ MemoryType' /\ LinkType'
    BY <1>0, <1>24 DEF AuthTimesOut, EntryType, PageType, MemoryType, LinkType
  <2>2. FlagType'
    BY <1>0, <1>24 DEF AuthTimesOut, FlagType
  <2>3. EventType'
    BY <1>0, <1>24, Zeros DEF AuthTimesOut, EventType
  <2>4. AuthType'
    BY <1>0, <1>24 DEF AuthTimesOut, AuthType
  <2>5. FaultsType'
    BY <1>0, <1>24, FaultType DEF AuthTimesOut, FaultsType
  <2> QED BY <2>1, <2>2, <2>3, <2>4, <2>5, TypePartsNext
<1>25. CASE Disconnected
  <2>1. EntryType' /\ PageType' /\ MemoryType' /\ FlagType' /\ EventType'
    BY <1>0, <1>25 DEF Disconnected, EntryType, PageType, MemoryType, FlagType,
           EventType
  <2>2. LinkType'
    BY <1>0, <1>25 DEF Disconnected, LinkType
  <2>3. AuthType'
    BY <1>0, <1>25 DEF Disconnected, AuthType
  <2>4. FaultsType'
    BY <1>0, <1>25, FaultType DEF Disconnected, FaultsType
  <2> QED BY <2>1, <2>2, <2>3, <2>4, TypePartsNext
<1>26. CASE BridgeReboots
  <2>1. EntryType' /\ PageType'
    BY <1>0, <1>26 DEF BridgeReboots, EntryType, PageType
  <2>2. MemoryType'
    BY <1>0, <1>26 DEF BridgeReboots, MemoryType
  <2>3. FlagType'
    BY <1>0, <1>26 DEF BridgeReboots, FlagType
  <2>4. EventType'
    BY <1>0, <1>26, Zeros DEF BridgeReboots, EventType
  <2>5. LinkType'
    BY <1>0, <1>26 DEF BridgeReboots, LinkType
  <2>6. AuthType'
    BY <1>0, <1>26 DEF BridgeReboots, AuthType
  <2>7. FaultsType'
    BY <1>0, <1>26, FaultType DEF BridgeReboots, FaultsType
  <2> QED BY <2>1, <2>2, <2>3, <2>4, <2>5, <2>6, <2>7, TypePartsNext
<1>27. CASE UNCHANGED vars
  <2>1. EntryType' /\ PageType' /\ MemoryType' /\ FlagType' /\ EventType'
        /\ LinkType' /\ AuthType' /\ FaultsType'
    BY <1>0, <1>27 DEF vars, EntryType, PageType, MemoryType, FlagType, EventType,
           LinkType, AuthType, FaultsType
  <2> QED BY <2>1, TypePartsNext
<1> QED BY <1>1, <1>2, <1>3, <1>4, <1>5, <1>6, <1>7, <1>8, <1>9, <1>10, <1>11, <1>12,
           <1>13, <1>14, <1>15, <1>16, <1>17, <1>18, <1>19, <1>20, <1>21, <1>22,
           <1>23, <1>24, <1>25, <1>26, <1>27
        DEF Next

\* Every variable keeps its type, within the bounds, whatever fails.
THEOREM PairingTypeCorrect == Spec => []TypeOK
<1>1. Init => TypeOK
  BY Zeros, EntryTypes, PanelTypes DEF Init, TypeOK
<1> QED BY <1>1, TypeStep, PTL DEF Spec

-----------------------------------------------------------------------------
LEMMA StuckStep == StuckOnlyIfRefused /\ [Next]_vars => StuckOnlyIfRefused'
<1> SUFFICES ASSUME StuckOnlyIfRefused, [Next]_vars PROVE StuckOnlyIfRefused'
  OBVIOUS
<1> USE DEF StuckOnlyIfRefused, linkVars
<1>1. CASE SelectWatch
  BY <1>1 DEF SelectWatch, bridgeVars
<1>2. CASE RequestDfu
  BY <1>2 DEF RequestDfu, bridgeVars
<1>3. CASE PollPage
  BY <1>3 DEF PollPage, bridgeVars
<1>4. CASE LoadPage
  BY <1>4 DEF LoadPage, bridgeVars
<1>5. CASE ReadPasskey
  BY <1>5 DEF ReadPasskey, bridgeVars
<1>6. CASE SubmitPasskey
  BY <1>6 DEF SubmitPasskey, bridgeVars
<1>7. CASE ClearPage
  BY <1>7 DEF ClearPage, bridgeVars
<1>8. CASE CheckConnecting
  BY <1>8 DEF CheckConnecting
<1>9. ASSUME NEW arrives \in BOOLEAN, NEW downloaded \in BOOLEAN,
            CheckDfu(arrives, downloaded)
     PROVE  StuckOnlyIfRefused'
  BY <1>9 DEF CheckDfu
<1>10. CASE DfuEnds
  BY <1>10 DEF DfuEnds
<1>11. CASE CheckPasskey
  BY <1>11 DEF CheckPasskey
<1>12. CASE ReplyDone
  BY <1>12 DEF ReplyDone
<1>13. CASE ReadGapEvent
  BY <1>13 DEF ReadGapEvent
<1>14. CASE ClearGapEvent
  BY <1>14 DEF ClearGapEvent
<1>15. ASSUME NEW arrives \in BOOLEAN, ReportGapEvent(arrives)  PROVE StuckOnlyIfRefused'
  BY <1>15 DEF ReportGapEvent
<1>16. ASSUME NEW answered \in BOOLEAN, FirstPoll(answered)  PROVE StuckOnlyIfRefused'
  BY <1>16 DEF FirstPoll
<1>17. CASE SaveAddress
  BY <1>17 DEF SaveAddress
<1>18. CASE Reconnect
  BY <1>18 DEF Reconnect
<1>19. ASSUME NEW arrives \in BOOLEAN, OpenSucceeds(arrives)  PROVE StuckOnlyIfRefused'
  BY <1>19 DEF OpenSucceeds
<1>20. CASE OpenFails
  BY <1>20 DEF OpenFails
<1>21. CASE SearchCompletes
  BY <1>21 DEF SearchCompletes
<1>22. CASE PasskeyRequested
  BY <1>22 DEF PasskeyRequested
<1>23. CASE AuthCompletes
  BY <1>23 DEF AuthCompletes
<1>24. CASE AuthTimesOut
  BY <1>24 DEF AuthTimesOut
<1>25. CASE Disconnected
  BY <1>25 DEF Disconnected
<1>26. CASE BridgeReboots
  BY <1>26 DEF BridgeReboots
<1>27. CASE UNCHANGED vars
  BY <1>27 DEF vars, bridgeVars
<1> QED BY <1>1, <1>2, <1>3, <1>4, <1>5, <1>6, <1>7, <1>8, <1>9, <1>10, <1>11, <1>12,
           <1>13, <1>14, <1>15, <1>16, <1>17, <1>18, <1>19, <1>20, <1>21, <1>22,
           <1>23, <1>24, <1>25, <1>26, <1>27
        DEF Next

\* Only an OPEN_EVT with an error leaves the bridge waiting for ever for the end of
\* a pairing (cpp:268): a link that drops while the selected watch is dialled, an
\* update that dials in between, late GAP events and restarts do not.
THEOREM AlwaysStuckOnlyIfRefused == Spec => []StuckOnlyIfRefused
<1>1. Init => StuckOnlyIfRefused
  BY DEF Init, StuckOnlyIfRefused
<1> QED BY <1>1, StuckStep, PTL DEF Spec
=============================================================================
